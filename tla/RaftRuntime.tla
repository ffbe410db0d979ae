---------------------------- MODULE RaftRuntime ----------------------------
(***************************************************************************)
(* The event loop of internal/raftnode: one goroutine that owns the node,  *)
(* and callers that put events on a bounded queue and wait for a result.   *)
(* The loop gathers proposals, appends and reads that are queued together  *)
(* and puts aside what it meets meanwhile.  Any call of the store or the   *)
(* state machine may fail, which stops the loop.                           *)
(*                                                                         *)
(* A call is one invocation of Propose, LinearizableRead, Step,            *)
(* StepSnapshot, ChangeMembership, Status or Close, as the set it is in    *)
(* says; a scene is the calls that are made.  A result channel holds one   *)
(* result and every call has its own, so that a second result would block  *)
(* the loop for good; sends counts the results.                            *)
(*                                                                         *)
(* The node is reduced to what the loop sees of it: whether it leads, its  *)
(* term, log and commit index.  Its steps change them in every way module  *)
(* Raft's may, within MaxTerm and MaxLog; two more voters are alive.       *)
(***************************************************************************)
EXTENDS Naturals, Sequences, FiniteSets, SequencesExt

CONSTANTS
    Proposals, Reads, Appends, Messages, Snapshots, Changes, Statuses, Stops,
    Oversized,      \* proposals larger than MaxEntryBytes
    Wide,           \* proposals and appends of two units of size
    Strays,         \* appends of another sender
    Scenes, QueueSize, MaxBatch, MaxBytes, Faults, MaxTerm, MaxLog

Calls == UNION {Proposals, Reads, Appends, Messages, Snapshots, Changes, Statuses, Stops}

VARIABLES
    scene,      \* the calls made in this run
    up,         \* done is not closed
    queue,      \* events
    deferred,   \* events put aside earlier
    batch,      \* what is being gathered; empty between events
    others,     \* what is put aside meanwhile
    caller,     \* where each call is
    arrivals,   \* history: the calls in the order they were queued
    rt          \* the node, the store, the machine and who waits for them

vars == <<scene, up, queue, deferred, batch, others, caller, arrivals, rt>>

-----------------------------------------------------------------------------
(* The node.  An update holds the node after it.                            *)

Entry(term, kind) == [term |-> term, kind |-> kind]

Quiet(n) ==
    [n |-> n, entries |-> <<>>, truncate |-> 0, committed |-> {}, hard |-> FALSE,
     turned |-> FALSE, snapshot |-> 0, reply |-> FALSE]

\* The last configuration entry of a log, 0 if it has none.
ConfigAt(log) == Max({0} \cup {i \in DOMAIN log : log[i].kind # "command"})

Changing(n) ==
    LET i == ConfigAt(n.log) IN i > 0 /\ (n.log[i].kind = "joint" \/ i > n.commit)

\* A leader appends entries of its own.
Adds(u, kinds) ==
    LET new == [k \in DOMAIN kinds |-> Entry(u.n.term, kinds[k])]
    IN  [u EXCEPT !.n.log = @ \o new, !.entries = @ \o new]

\* An answer lets a leader commit up to an entry of its term, and a joint
\* configuration that is committed is followed by the final one.
Commits(n) ==
    {LET i == ConfigAt(n.log)
         u == [Quiet([n EXCEPT !.commit = c]) EXCEPT !.committed = n.commit + 1 .. c]
     IN  IF i \in u.committed /\ n.log[i].kind = "joint" THEN Adds(u, <<"final">>) ELSE u
     : c \in {c \in n.commit + 1 .. Len(n.log) : n.leads /\ n.log[c].term = n.term}}

\* A node in term t.  side says whom it knows to lead it, match up to where
\* its log is known to agree with that leader's.
At(n, t) == IF t = n.term THEN n ELSE [n EXCEPT !.term = t, !.side = "none", !.match = n.commit]

\* A lost quorum, a campaign or a higher term.
StepsDown(n, terms) ==
    {[Quiet([At(n, t) EXCEPT !.leads = FALSE]) EXCEPT !.hard = t # n.term, !.turned = TRUE] : t \in terms}

\* The last vote of an election.
Elected(n) ==
    {u \in {[Adds(Quiet([n EXCEPT !.leads = TRUE, !.side = "own"]), <<"command">>) EXCEPT !.turned = TRUE]} :
        n.side = "none" /\ Len(n.log) < MaxLog}

\* What an answer or a vote does.
Answered(n) == {Quiet(n)} \cup Commits(n) \cup StepsDown(n, n.term + 1 .. MaxTerm) \cup Elected(n)

\* An append of term t that agrees with the log up to k and brings new.
Followed(n, t, k, new, c) ==
    LET kept == IF new = <<>> THEN n.log ELSE SubSeq(n.log, 1, k) \o new
        m == At(n, t)
        after == [m EXCEPT !.leads = FALSE, !.side = "other", !.log = kept, !.commit = c,
                           !.match = Max({@, k + Len(new)})]
    IN  [Quiet(after) EXCEPT
        !.entries = new,
        !.truncate = IF new # <<>> /\ k < Len(n.log) THEN k + 1 ELSE 0,
        !.committed = n.commit + 1 .. c,
        !.hard = t # n.term,
        !.turned = n.leads \/ t # n.term,
        !.reply = TRUE]

\* What an append does: nothing, or one of these with at most one new entry,
\* which replaces entries of earlier terms that are not committed.
Follows(n) ==
    LET places == {<<t, k>> \in (n.term .. MaxTerm) \X (n.commit .. Len(n.log)) :
                     /\ t = n.term => n.side # "own" /\ (k >= n.match \/ k = n.commit)
                     /\ k < Len(n.log) => n.log[k + 1].term < t}
        news(t, k) == {<<>>} \cup {<<Entry(t, "command")>> : i \in {k + 1} \cap (At(n, t).match + 1 .. MaxLog)}
    IN  {Quiet(n)} \cup
        UNION {UNION {{Followed(n, p[1], p[2], new, c) : c \in n.commit .. p[2] + Len(new)}
                      : new \in news(p[1], p[2])} : p \in places}

\* A snapshot beyond the log replaces it, one of its committed part does not.
Installs(n) ==
    {Quiet(n)} \cup
    {LET beyond == s > Len(n.log) IN
     [Quiet([n EXCEPT !.log = IF beyond THEN SubSeq(@, 1, n.match) \o [i \in 1 .. s - n.match |-> Entry(n.term, "command")] ELSE @,
                      !.commit = IF beyond THEN s ELSE @,
                      !.match = IF beyond THEN s ELSE @,
                      !.side = "other"]) EXCEPT !.snapshot = s, !.reply = TRUE]
     : s \in {s \in 1 .. MaxLog : n.side # "own" /\ (s <= n.commit \/ s > Len(n.log))}}

-----------------------------------------------------------------------------
(* Results, and the processing of one update.                               *)

Answer(r, cs) == [r EXCEPT !.sends = [c \in Calls |-> IF c \in cs THEN @[c] + 1 ELSE @[c]]]

Waiting(r) == Range(r.pending) \cup UNION r.reads \cup r.change

\* Persist; a snapshot beyond the log takes its place.
Persisted(r, u) ==
    LET base == IF u.truncate > 0 THEN SubSeq(r.store.log, 1, u.truncate - 1) ELSE r.store.log
    IN  [r EXCEPT !.store = [term |-> IF u.hard THEN r.node.term ELSE @.term,
                             log |-> IF u.snapshot > Len(base) THEN u.n.log ELSE base \o u.entries]]

\* RestoreSnapshot, unless the machine is beyond it.
Restored(r, u) == [r EXCEPT !.applied = Max({@, u.snapshot})]

\* The messages leave; an answer promises what agrees with the leader's log.
Sent(r, u) ==
    IF u.reply THEN [r EXCEPT !.promised = [term |-> u.n.term, log |-> SubSeq(u.n.log, 1, u.n.match)]] ELSE r

\* The committed entries are applied in order and those who wait at their
\* indexes answered; missing says that an index was left out.
Applied(r, committed) ==
    LET told == committed \cap DOMAIN r.pending
        high == Max({r.applied} \cup committed)
    IN  [Answer(r, {r.pending[i] : i \in told}) EXCEPT
            !.pending = [i \in DOMAIN r.pending \ told |-> r.pending[i]],
            !.applied = high,
            !.missing = @ \/ ~(r.applied + 1 .. high \subseteq committed)]

\* resolveMembership: the final configuration is applied.
Resolved(r) ==
    LET i == ConfigAt(r.node.log) IN
    IF i > 0 /\ r.node.log[i].kind = "final" /\ i <= r.applied
    THEN [Answer(r, r.change) EXCEPT !.change = {}] ELSE r

\* A node that turned and does not lead sends everyone away.
Dismissed_KeepPending(r, u) ==
    IF u.turned /\ ~r.node.leads
    THEN [Answer(r, Waiting(r)) EXCEPT !.reads = {}, !.change = {}] ELSE r
Dismissed(r, u) ==
    IF u.turned /\ ~r.node.leads
    THEN [Answer(r, Waiting(r)) EXCEPT !.pending = <<>>, !.reads = {}, !.change = {}] ELSE r

\* processUpdate, in which one of the calls may fail.
Process_SendFirst(r, u) ==
    LET r1 == Sent(r, u)
        r2 == Applied(Restored(Persisted(r1, u), u), u.committed)
    IN  {[r1 EXCEPT !.error = TRUE], Dismissed(Resolved(r2), u)}
Process(r, u) ==
    LET fails(x, f, when) == {[x EXCEPT !.error = TRUE] : g \in {g \in {f} : g \in Faults /\ when}}
        r1 == Persisted(r, u)
        r2 == Sent(Restored(r1, u), u)
        r3 == Applied(r2, u.committed)
    IN  fails(r, "persist", u.hard \/ u.snapshot > 0 \/ u.truncate > 0 \/ u.entries # <<>>)
        \cup fails(r1, "restore", u.snapshot > r.applied)
        \cup UNION {fails(Applied(r2, {j \in u.committed : j < i}), "apply", TRUE) : i \in u.committed}
        \cup fails(r3, "compact", u.committed # {})
        \cup {Dismissed(Resolved(r3), u)}

\* The node takes a step and its update is processed.
Steps(r, u) == Process([r EXCEPT !.node = u.n], u)

-----------------------------------------------------------------------------
(* What the loop makes of an event: the states it may lead to.              *)

Proposing(r, b) ==
    LET small == SelectSeq(b, LAMBDA c : c \notin Oversized)
        last == Len(r.node.log)
        at == [i \in last + 1 .. last + Len(small) |-> small[i - last]]
        r1 == [Answer(r, Range(b) \cap Oversized) EXCEPT !.pending = at @@ @]
    IN  IF ~r.node.leads THEN {Answer(r, Range(b))}
        ELSE IF small = <<>> THEN {r1}
        ELSE Steps(r1, Adds(Quiet(r.node), [k \in DOMAIN small |-> "command"]))

\* All changes ask for the same voters.
ChangingVoters(r, c) ==
    IF ~r.node.leads \/ Changing(r.node) \/ ConfigAt(r.node.log) > 0 THEN {Answer(r, {c})}
    ELSE Steps([r EXCEPT !.change = {c}], Adds(Quiet(r.node), <<"joint">>))

\* stepAppends: what only appends, commits and answers is merged.
Merges_Truncating(u) == ~u.hard /\ u.snapshot = 0 /\ ~u.turned
Merges(u) == ~u.hard /\ u.truncate = 0 /\ u.snapshot = 0 /\ ~u.turned

Merge_LastCommit(m, u) ==
    [m EXCEPT !.n = u.n, !.entries = @ \o u.entries, !.committed = u.committed, !.reply = @ \/ u.reply]
Merge(m, u) ==
    [m EXCEPT !.n = u.n, !.entries = @ \o u.entries, !.committed = @ \cup u.committed,
              !.reply = @ \/ u.reply]

Flush_Silent(x) ==
    IF x.waiting = {} THEN {x}
    ELSE {[r |-> r, merged |-> Quiet(r.node), waiting |-> {}] : r \in Process(x.r, x.merged)}
Flush(x) ==
    IF x.waiting = {} THEN {x}
    ELSE {[r |-> Answer(r, x.waiting), merged |-> Quiet(r.node), waiting |-> {}]
          : r \in Process(x.r, x.merged)}

StepAppend(x, c) ==
    LET answered(y) == [y EXCEPT !.r = Answer(@, {c})]
        alone(y, u) == IF y.r.error THEN {answered(y)}
                       ELSE {answered([y EXCEPT !.r = r]) : r \in Process(y.r, u)}
        step(y, u) == IF Merges(u) THEN {[y EXCEPT !.merged = Merge(@, u), !.waiting = @ \cup {c}]}
                      ELSE UNION {alone(z, u) : z \in Flush(y)}
    IN  IF x.r.error THEN {answered(x)}
        ELSE UNION {step([x EXCEPT !.r.node = u.n], u) : u \in Follows(x.r.node)}

StepAppends(r, b) ==
    LET start == [r |-> r, merged |-> Quiet(r.node), waiting |-> {}]
        ends == FoldLeft(LAMBDA xs, c : UNION {StepAppend(x, c) : x \in xs}, {start}, b)
    IN  {x.r : x \in UNION {Flush(x) : x \in ends}}

\* An answer may complete a group of reads: one more voter is a quorum.
Receiving(r, c) ==
    UNION {UNION {{Answer(x, {c})} \cup
                  {Answer([x EXCEPT !.reads = @ \ {g}], g \cup {c})
                   : g \in {g \in x.reads : ~x.error /\ x.node.leads}}
                  : x \in Steps(r, u)} : u \in Answered(r.node)}

Installing(r, c) == {Answer(x, {c}) : x \in UNION {Steps(r, u) : u \in Installs(r.node)}}

Reading(r, b) ==
    LET n == r.node IN
    IF n.leads /\ n.commit > 0 /\ n.log[n.commit].term = n.term
    THEN {[r EXCEPT !.reads = @ \cup {Range(b)}]} ELSE {Answer(r, Range(b))}

Outcomes(r, b) ==
    LET c == Head(b) IN
    CASE c \in Proposals -> Proposing(r, b)
      [] c \in Reads -> Reading(r, b)
      [] c \in Appends -> StepAppends(r, b)
      [] c \in Messages -> Receiving(r, c)
      [] c \in Snapshots -> Installing(r, c)
      [] c \in Changes -> ChangingVoters(r, c)
      [] OTHER -> {Answer(r, {c})}

\* After an error the loop tells everyone who waits, and ends.
Ends(r) ==
    /\ rt' = IF r.error THEN Answer(r, Waiting(r)) ELSE r
    /\ up' = ~r.error

Handle(b, rest) ==
    /\ deferred' = rest /\ batch' = <<>> /\ others' = <<>>
    /\ arrivals' = SelectSeq(arrivals, LAMBDA c : c \notin Range(b))
    /\ IF Head(b) \in Stops
       THEN rt' = Answer(rt, {Head(b)}) /\ up' = FALSE
       ELSE \E r \in Outcomes(rt, b) : Ends(r)

-----------------------------------------------------------------------------
(* The loop.                                                                *)

\* Which events are gathered behind e.
Alike(e, c) ==
    \/ {e, c} \subseteq Proposals
    \/ {e, c} \subseteq Reads
    \/ {e, c} \subseteq Appends /\ (e \in Strays <=> c \in Strays)

Size(c) == CASE c \in Reads \cup Oversized -> 0 [] c \in Wide -> 2 [] OTHER -> 1

Load(b) == FoldLeft(LAMBDA n, c : n + Size(c), 0, b)

Full ==
    \/ Len(batch) + Len(others) > QueueSize
    \/ Head(batch) \in Proposals /\ Len(batch) >= MaxBatch
    \/ Load(batch) >= MaxBytes

\* The next event is one put aside, or the head of the queue.  Unless others
\* are still aside the loop gathers behind it.
Begin(e, rest) ==
    LET same == {k \in 0 .. Len(rest) : e \in Reads /\ \A i \in 1 .. k : rest[i] \in Reads}
        k == Max({0} \cup same)
    IN  IF rest = <<>> /\ Alike(e, e)
        THEN batch' = <<e>> /\ deferred' = <<>> /\ UNCHANGED <<others, arrivals, rt, up>>
        ELSE Handle(<<e>> \o SubSeq(rest, 1, k), SubSeq(rest, k + 1, Len(rest)))

Pop_GatherAlways ==
    /\ up /\ batch = <<>>
    /\ \/ deferred # <<>> /\ Begin(Head(deferred), <<>>) /\ UNCHANGED queue
       \/ deferred = <<>> /\ queue # <<>> /\ Begin(Head(queue), <<>>) /\ queue' = Tail(queue)
    /\ UNCHANGED <<scene, caller>>
Pop ==
    /\ up /\ batch = <<>>
    /\ \/ deferred # <<>> /\ Begin(Head(deferred), Tail(deferred)) /\ UNCHANGED queue
       \/ deferred = <<>> /\ queue # <<>> /\ Begin(Head(queue), <<>>) /\ queue' = Tail(queue)
    /\ UNCHANGED <<scene, caller>>

\* Where an event that does not fit its batch is put.
Aside_First(e) == <<e>> \o others
Aside(e) == Append(others, e)

\* One more event is read without blocking; a like one that is too large for
\* the batch is put aside and ends it.
Gather ==
    /\ up /\ batch # <<>> /\ ~Full /\ queue # <<>>
    /\ LET e == Head(queue) IN
       IF ~Alike(Head(batch), e)
       THEN others' = Aside(e) /\ UNCHANGED <<batch, deferred, arrivals, rt, up>>
       ELSE IF Load(batch) + Size(e) > MaxBytes
       THEN Handle(batch, Aside(e))
       ELSE batch' = Append(batch, e) /\ UNCHANGED <<others, deferred, arrivals, rt, up>>
    /\ queue' = Tail(queue)
    /\ UNCHANGED <<scene, caller>>

Finish ==
    /\ up /\ batch # <<>> /\ (Full \/ queue = <<>>)
    /\ Handle(batch, others)
    /\ UNCHANGED <<scene, queue, caller>>

\* The ticker is heard only when no event is aside.
Tick ==
    /\ up /\ batch = <<>> /\ deferred = <<>>
    /\ \E u \in StepsDown(rt.node, {rt.node.term}) : \E r \in Steps(rt, u) : Ends(r)
    /\ UNCHANGED <<scene, queue, deferred, batch, others, caller, arrivals>>

-----------------------------------------------------------------------------
(* The callers.                                                             *)

\* The queue takes events even after the loop has ended.
CanCall(c) == c \in scene /\ caller[c] = "idle" /\ Len(queue) < QueueSize

Call(c) ==
    /\ CanCall(c)
    /\ queue' = Append(queue, c)
    /\ arrivals' = Append(arrivals, c)
    /\ caller' = [caller EXCEPT ![c] = "waiting"]
    /\ UNCHANGED <<scene, up, deferred, batch, others, rt>>

\* A caller sees its result or that the loop has ended.
CanReturn(c) ==
    \/ caller[c] = "waiting" /\ (rt.sends[c] > 0 \/ ~up)
    \/ c \in scene /\ caller[c] = "idle" /\ ~up

Return(c) ==
    /\ CanReturn(c)
    /\ caller' = [caller EXCEPT ![c] = "returned"]
    /\ UNCHANGED <<scene, up, queue, deferred, batch, others, arrivals, rt>>

\* The context of a caller ends; Close has none, and an installed snapshot
\* is waited for.
GiveUp(c) ==
    /\ caller[c] = "waiting" /\ c \notin Stops \cup Snapshots
    /\ caller' = [caller EXCEPT ![c] = "returned"]
    /\ UNCHANGED <<scene, up, queue, deferred, batch, others, arrivals, rt>>

Init ==
    /\ scene \in Scenes
    /\ up = TRUE /\ queue = <<>> /\ deferred = <<>> /\ batch = <<>> /\ others = <<>>
    /\ caller = [c \in Calls |-> "idle"]
    /\ arrivals = <<>>
    /\ \E leads \in BOOLEAN :
         LET n == [leads |-> leads, term |-> 1, side |-> IF leads THEN "own" ELSE "none",
                   log |-> <<Entry(1, "command")>>, commit |-> 1, match |-> 1]
         IN  rt = [node |-> n, store |-> [term |-> 1, log |-> n.log], applied |-> 1,
                   pending |-> <<>>, reads |-> {}, change |-> {},
                   sends |-> [c \in Calls |-> 0], promised |-> [term |-> 1, log |-> n.log], missing |-> FALSE, error |-> FALSE]

Next == Pop \/ Gather \/ Finish \/ Tick \/ \E c \in Calls : Call(c) \/ Return(c) \/ GiveUp(c)

\* The goroutines run.  The loop goes on while there is an event (select is
\* fair between the ticker and the queue), and a caller whose result is there
\* returns: weak fairness.  A blocked sender is not passed over for ever,
\* which is strong fairness of a step that each call takes only once.  The
\* steps of the loop are those that move events and are no caller's.
LoopReady == up /\ queue \o deferred \o batch # <<>>
LoopMoves == UNCHANGED caller /\ <<queue, deferred, batch>>' # <<queue, deferred, batch>>

Fairness ==
    /\ <>[]LoopReady => []<><<LoopMoves>>_vars
    /\ \A c \in Calls : <>[](~CanCall(c)) /\ []<>(~CanReturn(c))

Spec == Init /\ [][Next]_vars /\ Fairness

-----------------------------------------------------------------------------
(* Properties.                                                              *)

\* Nobody is sent two results: the channel of a caller that has left holds
\* one, and the next send would block the loop and with it the node (run,
\* processUpdate, stepAppends, fail).
AnsweredOnce == \A c \in Calls : rt.sends[c] <= 1

\* While the loop runs, a caller that waits is in the queue, put aside, being
\* gathered, or waits for an entry, a probe or a change, or its result is
\* there: nobody is forgotten when batches are cut and roles change.
NobodyForgotten ==
    up => \A c \in Calls : caller[c] = "waiting" /\ rt.sends[c] = 0 =>
            c \in Range(queue \o deferred \o batch \o others) \cup Waiting(rt)

\* "deferred holds events read while draining a batch, handled in arrival
\* order before the queue is read again" (raftnode/runtime.go:312): what is
\* aside and what is queued are the events not yet handled, in the order they
\* came.
ArrivalOrder ==
    deferred \o others \o queue = SelectSeq(arrivals, LAMBDA c : c \notin Range(batch))

\* Between events the store holds the node's term and log, though updates of
\* several appends were merged into one persist (stepAppends).
DiskFollowsNode == up => rt.store = [term |-> rt.node.term, log |-> rt.node.log]

\* An answer that has left promises entries that are on disk, even when the
\* persist after it failed and the loop ended: messages wait for the persist
\* that covers them.
PromisesKept ==
    rt.promised.term >= rt.store.term => rt.promised.term = rt.store.term /\ IsPrefix(rt.promised.log, rt.store.log)

\* The state machine is given every committed index in turn, so the "commit
\* apply gap" of processUpdate never stops the loop.
NoGap == ~rt.missing

\* Step, StepSnapshot, Status and Close return, and once Close is called
\* every call does.
CallsReturn ==
    LET returns(c) == scene \cap Stops # {} \/ c \notin Proposals \cup Reads \cup Changes
    IN  <>[](\A c \in scene : returns(c) => caller[c] = "returned")
=============================================================================
