---------------------------- MODULE RaftService ----------------------------
(***************************************************************************)
(* What internal/raftnode promises its callers on top of Raft: Propose     *)
(* answers when the entry of the command is committed and applied, and     *)
(* LinearizableRead when a quorum has confirmed the leader.                *)
(*                                                                         *)
(* pending[s] holds the proposals that wait at server s, by log index,     *)
(* change[s] the voters of the membership change it waits for ({} if none) *)
(* and reads[s] its read probes; all live in the memory of the runtime.    *)
(* answers and served are the history of what callers were told: of a      *)
(* proposal, what was asked and the entry it was told of; of a read, its   *)
(* index and the highest index committed anywhere when it began.  A server *)
(* begins at most bounds.reads reads in one life.                          *)
(***************************************************************************)
EXTENDS Raft

VARIABLES pending, change, reads, lastContext, answers, served

serviceVars == <<node, net, restarts, bounds, pending, change, reads, lastContext, answers, served>>

NoPending == [i \in {} |-> Nil]

NewlyCommitted(s) == node[s].commit + 1 .. node'[s].commit

\* resolveMembership: the voters asked for are the applied configuration.
ChangeDone(n, V) ==
    /\ V # {} /\ n.membership.voters = V
    /\ n.membership.joint = {} /\ n.membership.index <= n.commit

\* What processUpdate tells callers after the entries committed by a step of s
\* were applied: whoever waits at their indexes, and the pending membership
\* change; a server that does not lead sends the others away.  A crash forgets
\* them all.
ProcessUpdate(s, waiting, V, committed) ==
    LET n == node'[s]
        told == committed \cap DOMAIN waiting
        done == ChangeDone(n, V)
        reply(i, asked) == [index |-> i, asked |-> asked, entry |-> History(n)[i]]
    IN  IF restarts' # restarts
        THEN /\ pending' = [pending EXCEPT ![s] = NoPending]
             /\ change' = [change EXCEPT ![s] = {}]
             /\ UNCHANGED answers
        ELSE /\ answers' = answers \cup {reply(i, waiting[i]) : i \in told}
                                   \cup (IF done THEN {reply(n.membership.index, FinalCommand(V))} ELSE {})
             /\ pending' = [pending EXCEPT ![s] =
                   IF n.role # "leader" THEN NoPending
                   ELSE [i \in DOMAIN waiting \ told |-> waiting[i]]]
             /\ change' = [change EXCEPT ![s] = IF done \/ n.role # "leader" THEN {} ELSE V]

\* The reads of s that a step leaves: none when it crashed or does not lead.
KeepReads(s) ==
    IF restarts' # restarts \/ node'[s].role # "leader" THEN {} ELSE reads[s]

KeepContext(s) ==
    lastContext' = [lastContext EXCEPT ![s] = IF restarts' # restarts THEN 0 ELSE @]

\* A step that neither begins nor confirms a read.
NoRead(s) ==
    /\ reads' = [reads EXCEPT ![s] = KeepReads(s)]
    /\ KeepContext(s)
    /\ UNCHANGED served

\* Whether an answer counts for the reads of a server: one of its own term.
Confirms(s, m) ==
    m.type = "AppendResponse" /\ ~m.reject /\ m.context # 0 /\ m.term = node'[s].term

\* acknowledgeRead: a read completes on the answer that makes up a quorum.
AcknowledgeRead(s, m) ==
    LET mine == {r \in KeepReads(s) : r.context = m.context}
        counted == {[r EXCEPT !.acks = @ \cup {m.from}] : r \in mine}
        complete == {r \in counted : HasQuorum(node'[s].membership, r.acks)}
    IN  /\ reads' = [reads EXCEPT ![s] = (KeepReads(s) \ mine) \cup (counted \ complete)]
        /\ served' = served \cup
              {[floor |-> r.floor, index |-> node'[s].commit] : r \in complete}
        /\ KeepContext(s)

ServeTick(s) ==
    /\ Tick(s)
    /\ ProcessUpdate(s, pending[s], change[s], NewlyCommitted(s))
    /\ NoRead(s)

\* A snapshot that is installed commits no entries one by one.
ServeReceive(m) ==
    LET s == m.to IN
    /\ Receive(m)
    /\ ProcessUpdate(s, pending[s], change[s],
                     IF m.type = "Snapshot" THEN {} ELSE NewlyCommitted(s))
    /\ IF Confirms(s, m) THEN AcknowledgeRead(s, m) ELSE NoRead(s)

ServePropose(s, c) ==
    LET i == LastIndex(node[s]) + 1
        waiting == [j \in DOMAIN pending[s] \cup {i} |-> IF j = i THEN c ELSE pending[s][j]]
    IN  /\ Propose(s, c)
        /\ ProcessUpdate(s, waiting, change[s], NewlyCommitted(s))
        /\ NoRead(s)

ServeMembership(s, V) ==
    /\ ProposeMembership(s, V)
    /\ ProcessUpdate(s, pending[s], V, NewlyCommitted(s))
    /\ NoRead(s)

\* ReadProbe: only a leader that has committed an entry of its term.
ReadReady_AnyCommit(n) == n.role = "leader" /\ n.commit > 0
ReadReady(n) ==
    /\ n.role = "leader"
    /\ n.commit > 0 /\ TermAt(n, n.commit) = n.term

ServeRead(s) ==
    LET n == node[s]
        c == lastContext[s] + 1
        high == CHOOSE i \in {node[p].commit : p \in Server} :
                  \A p \in Server : node[p].commit <= i
        read == [context |-> c, acks |-> {s}, floor |-> high]
        probe == SendAppends(n, UnionVoters(n.membership) \ {s}, c)
    IN  /\ c <= bounds.reads
        /\ ReadReady(n)
        /\ Perform(s, probe, net)
        /\ ProcessUpdate(s, pending[s], change[s], {})
        /\ lastContext' = [lastContext EXCEPT ![s] = IF restarts' # restarts THEN 0 ELSE c]
        /\ IF restarts' # restarts
           THEN reads' = [reads EXCEPT ![s] = {}] /\ UNCHANGED served
           ELSE IF HasQuorum(n.membership, {s})
           THEN UNCHANGED reads /\ served' = served \cup {[floor |-> high, index |-> n.commit]}
           ELSE reads' = [reads EXCEPT ![s] = @ \cup {read}] /\ UNCHANGED served

ServiceInit ==
    /\ pending = [s \in Server |-> NoPending]
    /\ change = [s \in Server |-> {}]
    /\ reads = [s \in Server |-> {}]
    /\ lastContext = [s \in Server |-> 0]
    /\ answers = {} /\ served = {}

ServiceNext ==
    \/ \E s \in Server : ServeTick(s) \/ ServeRead(s)
    \/ \E m \in net : ServeReceive(m)
    \/ \E s \in Server, c \in bounds.commands : ServePropose(s, c)
    \/ \E s \in Server, V \in bounds.changes : ServeMembership(s, V)

ServiceSpec == Init /\ ServiceInit /\ [][ServiceNext]_serviceVars

-----------------------------------------------------------------------------
(* Properties.                                                              *)

\* The caller of Propose is told of its own command: "Propose waits until a
\* command is committed and locally applied.  It returns the command's log
\* index and the term of the entry at that index" (raftnode/runtime.go:149).
AnsweredAsProposed == \A a \in answers : a.entry.data = a.asked

\* The entry a caller was told of is at that index in whatever any server
\* ever knows to be committed, through elections, crashes and compaction.
AnswersLast ==
    \A a \in answers, s \in Server :
        node[s].commit >= a.index => History(node[s])[a.index] = a.entry

\* A read returns an index at least as high as every index that was committed
\* on any server when it began, though the leader may have been replaced,
\* deposed and elected again meanwhile (ReadProbe, acknowledgeRead).
ReadsFresh == \A r \in served : r.index >= r.floor
=============================================================================
