-------------------------------- MODULE Raft --------------------------------
(***************************************************************************)
(* The consensus core of internal/raft, run by internal/raftnode over a    *)
(* network that loses, delays, reorders and duplicates messages, on nodes  *)
(* that crash and restart.                                                 *)
(*                                                                         *)
(* node[s] is the Node of server s.  A handler of the source takes a node  *)
(* and returns the node after it and the messages of its Update; one step  *)
(* of the model is one event of the runtime: the handler, Persist, the     *)
(* application of what was committed, and the snapshot the runtime takes   *)
(* when SnapshotThreshold entries were applied since the last one.  A      *)
(* crash may fall anywhere in Persist (RaftStore shows what it leaves).    *)
(* Messages leave only after Persist.                                      *)
(*                                                                         *)
(* An entry's index is its place.  Its data is Noop, a command, or a       *)
(* configuration entry.  The image of a snapshot, the state after its      *)
(* index, is the sequence of entries it stands for.  An append holds at    *)
(* most MaxAppend entries in place of the cap on bytes.  Every draw of     *)
(* the randomized timeout is possible; only the last one of a step counts. *)
(* The maps of a leader are rebuilt by becomeLeader and not read by other  *)
(* roles, so they are NoProgress there.                                    *)
(*                                                                         *)
(* net holds the messages that will still be received, at most             *)
(* bounds.flight of them: a message that is lost never enters it, and one  *)
(* that is received may stay to be received again.  bounds is what one     *)
(* behaviour of the model is limited to: which servers messages reach (up) *)
(* and whose clocks run (clocks), the commands and voter sets asked for    *)
(* (commands, changes), and the highest term, log index and number of      *)
(* restarts (term, log, restarts).                                         *)
(***************************************************************************)
EXTENDS RaftNode

CONSTANTS
    ElectionTickMin, ElectionTickMax, HeartbeatTicks, CheckQuorumTicks, ResendTicks,
    MaxAppend,                    \* entries in one append
    SnapshotThreshold,            \* 0: the runtime takes no snapshots
    Bounds                        \* the limits of a behaviour

\* Config.validate.
ASSUME RaftAssumption ==
    /\ ElectionTickMin \in Nat /\ ElectionTickMax \in Nat
    /\ HeartbeatTicks \in 1 .. ElectionTickMin - 1
    /\ CheckQuorumTicks \in 1 .. ElectionTickMin
    /\ ElectionTickMin < ElectionTickMax
    /\ ResendTicks \in Nat \ {0} /\ MaxAppend \in Nat \ {0} /\ SnapshotThreshold \in Nat

VARIABLES node, net, restarts, bounds

vars == <<node, net, restarts, bounds>>

Timeouts == ElectionTickMin .. ElectionTickMax - 1

NoSnapshot == [index |-> 0, term |-> 0, membership |-> Stable(Voters), image |-> <<>>]

NoVotes == [p \in Server |-> "none"]
Zero == [p \in Server |-> 0]
NoProgress == [next |-> Zero, match |-> Zero, active |-> {}, outstanding |-> Zero,
               age |-> Zero, heartbeat |-> 0, quorum |-> 0]

\* A map of the peers, with the entries of g in place of its own.
Override(f, g) == [p \in Server |-> IF p \in DOMAIN g THEN g[p] ELSE f[p]]

\* What a handler returns: the node and the messages of its Update.
Result(n, out) == [n |-> n, out |-> out]
Quiet(n) == Result(n, {})

-----------------------------------------------------------------------------
(* The membership in the log.                                               *)

IsConfig(e) == e.data \notin Command \cup {Noop}

\* The membership after index i: the snapshot's, and the entries up to i.
MembershipAt(n, i) ==
    LET k == IF i < n.snap.index THEN 0 ELSE i - n.snap.index
        m[j \in 0 .. k] ==
            IF j = 0 THEN n.snap.membership
            ELSE IF IsConfig(n.log[j]) /\ m[j - 1] # Invalid
                 THEN ApplyMembership(m[j - 1], n.log[j].data, n.snap.index + j)
                 ELSE m[j - 1]
    IN  m[k]

RebuildMembership(n) == [n EXCEPT !.membership = MembershipAt(n, LastIndex(n))]

\* A final configuration that is not committed still goes to the voters of
\* the joint one before it.
ReplicationPeers(n) ==
    LET m == n.membership
        prior == MembershipAt(n, m.index - 1)
    IN  IF m.joint = {} /\ m.index > n.commit /\ prior.joint # {}
        THEN UnionVoters(prior) ELSE UnionVoters(m)

CompactLog(n, snap) ==
    [n EXCEPT !.snap = snap,
              !.log = IF snap.index < LastIndex(n) /\ TermAt(n, snap.index) = snap.term
                      THEN SubSeq(@, snap.index - n.snap.index + 1, Len(@)) ELSE <<>>]

-----------------------------------------------------------------------------
(* Sending entries.                                                         *)

CappedEntries(n, from) ==
    LET last == IF from + MaxAppend - 1 < LastIndex(n) THEN from + MaxAppend - 1
                ELSE LastIndex(n)
    IN  SubSeq(n.log, from - n.snap.index, last - n.snap.index)


AppendMessage(n, p, context) ==
    LET next == IF n.prog.next[p] = 0 THEN LastIndex(n) + 1 ELSE n.prog.next[p]
    IN  IF next <= n.snap.index
        THEN [type |-> "Snapshot", from |-> n.id, to |-> p, term |-> n.term, snap |-> n.snap]
        ELSE [type |-> "Append", from |-> n.id, to |-> p, term |-> n.term,
              logIndex |-> next - 1, logTerm |-> TermAt(n, next - 1),
              entries |-> IF n.prog.outstanding[p] # 0 THEN <<>> ELSE CappedEntries(n, next),
              commit |-> n.commit, context |-> context]

\* appendMessage for each peer of P: what carries entries is outstanding.
SendAppends(n, P, context) ==
    LET msg == [p \in P |-> AppendMessage(n, p, context)]
        carries == {p \in P : msg[p].type = "Append" /\ msg[p].entries # <<>>}
    IN  Result([n EXCEPT
                 !.prog.outstanding =
                     Override(@, [p \in carries |-> msg[p].logIndex + Len(msg[p].entries)]),
                 !.prog.age = Override(@, [p \in carries |-> 0])],
               {msg[p] : p \in P})

BroadcastAppend(n) == SendAppends(n, ReplicationPeers(n) \ {n.id}, 0)

\* A proposal waits for the append in flight.
BroadcastProposal(n) ==
    SendAppends(n, {p \in ReplicationPeers(n) \ {n.id} : n.prog.outstanding[p] = 0}, 0)

SettleOutstanding(n, p) ==
    IF n.prog.match[p] >= n.prog.outstanding[p]
    THEN [n EXCEPT !.prog.outstanding[p] = 0] ELSE n

-----------------------------------------------------------------------------
(* Roles.  t is the election timeout drawn in the step.                     *)

ResetTimer(n, t) == [n EXCEPT !.elapsed = 0, !.timeout = t]

BecomeFollower(n, term, leader, t) ==
    ResetTimer([n EXCEPT !.term = IF term > n.term THEN term ELSE @,
                         !.votedFor = IF term > n.term THEN Nil ELSE @,
                         !.role = "follower", !.leader = leader, !.votes = NoVotes], t)

\* An entry of the leader's own log.
AppendOwn(n, data) ==
    LET e == [term |-> n.term, data |-> data]
    IN  [n EXCEPT !.log = Append(@, e),
                  !.prog.match[n.id] = LastIndex(n) + 1,
                  !.prog.next[n.id] = LastIndex(n) + 2]

\* The indexes a leader may commit: entries of its own term on a quorum.
Committable_AnyTerm(n) ==
    {i \in n.commit + 1 .. LastIndex(n) :
        HasQuorum(n.membership, {p \in Server : n.prog.match[p] >= i})}
Committable(n) ==
    {i \in n.commit + 1 .. LastIndex(n) :
        /\ TermAt(n, i) = n.term
        /\ HasQuorum(n.membership, {p \in Server : n.prog.match[p] >= i})}

\* Once the joint configuration is committed the final one is appended; a
\* leader that is no longer a voter leaves when that is committed.
MaybeCommit(n, t) ==
    IF Committable(n) = {} THEN Quiet(n)
    ELSE LET n1 == [n EXCEPT !.commit = CHOOSE i \in Committable(n) :
                                            \A j \in Committable(n) : j <= i]
             n2 == IF n1.membership.joint # {} /\ n1.membership.index <= n1.commit
                   THEN RebuildMembership(AppendOwn(n1, FinalCommand(n1.membership.joint)))
                   ELSE n1
             r  == BroadcastAppend(n2)
         IN  IF n2.membership.index <= n2.commit /\ n2.id \notin UnionVoters(n2.membership)
             THEN [r EXCEPT !.n = BecomeFollower(@, n2.term, Nil, t)]
             ELSE r

\* broadcastAppend or a send, and then maybeCommit.
ThenCommit(r, t) ==
    LET c == MaybeCommit(r.n, t) IN Result(c.n, r.out \cup c.out)

BecomeLeader(n, t) ==
    LET n1 == [n EXCEPT !.role = "leader", !.leader = n.id,
                        !.prog = [NoProgress EXCEPT !.next =
                            Override(@, [p \in UnionVoters(n.membership) |-> LastIndex(n) + 1])]]
    IN  ThenCommit(BroadcastAppend(AppendOwn(n1, Noop)), t)

Campaign(n, type, term) ==
    {[type |-> type, from |-> n.id, to |-> p, term |-> term,
      logIndex |-> LastIndex(n), logTerm |-> LastTerm(n)] : p \in UnionVoters(n.membership) \ {n.id}}

OwnVote(n) == [NoVotes EXCEPT ![n.id] = "yes"]

StartElection(n, t) ==
    LET n1 == ResetTimer([n EXCEPT !.role = "candidate", !.term = @ + 1, !.votedFor = n.id,
                                   !.leader = Nil, !.votes = OwnVote(n)], t)
    IN  IF HasQuorum(n.membership, {n.id}) THEN BecomeLeader(n1, t)
        ELSE Result(n1, Campaign(n1, "Vote", n1.term))

StartPreVote(n, t) ==
    LET n1 == ResetTimer([n EXCEPT !.role = "precandidate", !.leader = Nil,
                                   !.votes = OwnVote(n)], t)
    IN  IF HasQuorum(n.membership, {n.id}) THEN StartElection(n1, t)
        ELSE Result(n1, Campaign(n1, "PreVote", n1.term + 1))

\* The tally after a vote: won, lost or open.
Tally(n, p, granted) == [n EXCEPT !.votes[p] = IF granted THEN "yes" ELSE "no"]
Won(n) == HasQuorum(n.membership, VotesOf(n, "yes"))
Lost(n) == VoteLost(n.membership, VotesOf(n, "no"))

-----------------------------------------------------------------------------
(* Tick.                                                                    *)

\* expireOutstanding: the peers whose append has gone unanswered too long.
Expired(n) ==
    {p \in ReplicationPeers(n) : n.prog.outstanding[p] # 0 /\ n.prog.age[p] + 1 >= ResendTicks}

ExpireOutstanding_Wait(n) == n
ExpireOutstanding(n) ==
    LET aging == {p \in ReplicationPeers(n) : n.prog.outstanding[p] # 0}
    IN  [n EXCEPT !.prog.outstanding = Override(@, [p \in Expired(n) |-> 0]),
                  !.prog.age = Override(@, [p \in aging |-> n.prog.age[p] + 1])]

CheckQuorum_KeepActive(n, t) ==
    LET active == (n.prog.active \cup {n.id}) \cap UnionVoters(n.membership)
        n1 == [n EXCEPT !.prog.quorum = 0]
    IN  IF HasQuorum(n.membership, active) THEN n1 ELSE BecomeFollower(n1, n.term, Nil, t)
CheckQuorum(n, t) ==
    LET voters == UnionVoters(n.membership)
        active == (n.prog.active \cup {n.id}) \cap voters
        n1 == [n EXCEPT !.prog.active = @ \ voters, !.prog.quorum = 0]
    IN  IF HasQuorum(n.membership, active) THEN n1 ELSE BecomeFollower(n1, n.term, Nil, t)

TickLeader(n, t) ==
    LET n1 == [ExpireOutstanding(n) EXCEPT !.prog.heartbeat = @ + 1, !.prog.quorum = @ + 1]
        r  == IF n1.prog.heartbeat >= HeartbeatTicks
              THEN BroadcastAppend([n1 EXCEPT !.prog.heartbeat = 0])
              ELSE SendAppends(n1, Expired(n), 0)
    IN  IF r.n.prog.quorum >= CheckQuorumTicks
        THEN [r EXCEPT !.n = CheckQuorum(@, t)] ELSE r

TickNode(n, t) ==
    IF n.role = "leader" THEN TickLeader(n, t)
    ELSE IF n.id \notin UnionVoters(n.membership) THEN Quiet(n)
    ELSE LET n1 == [n EXCEPT !.elapsed = @ + 1]
         IN  IF n1.elapsed >= n1.timeout THEN StartPreVote(n1, t) ELSE Quiet(n1)

-----------------------------------------------------------------------------
(* Elections.                                                               *)

InLease(n) == n.role = "leader" \/ (n.leader # Nil /\ n.elapsed < ElectionTickMin)

HandlePreVote(n, m) ==
    LET recent == n.leader # Nil /\ n.elapsed < n.timeout
        grant  == /\ n.id \in UnionVoters(n.membership)
                  /\ m.term >= n.term + 1
                  /\ ~recent
                  /\ IsUpToDate(n, m.logIndex, m.logTerm)
    IN  Result(n, {[type |-> "PreVoteResponse", from |-> n.id, to |-> m.from,
                    term |-> IF grant THEN m.term ELSE n.term, reject |-> ~grant]})

HandlePreVoteResponse_KeepTerm(n, m, t) ==
    LET granted == ~m.reject /\ m.term = n.term + 1
        n1 == Tally(n, m.from, granted)
    IN  IF n.role # "precandidate" \/ ~(granted \/ m.reject) THEN Quiet(n)
        ELSE IF Won(n1) THEN StartElection(n1, t)
        ELSE Quiet(IF Lost(n1) THEN BecomeFollower(n1, n.term, Nil, t) ELSE n1)
HandlePreVoteResponse(n, m, t) ==
    LET granted == ~m.reject /\ m.term = n.term + 1
        n1 == Tally(n, m.from, granted)
    IN  IF m.reject /\ m.term > n.term THEN Quiet(BecomeFollower(n, m.term, Nil, t))
        ELSE IF n.role # "precandidate" \/ ~(granted \/ m.reject) THEN Quiet(n)
        ELSE IF Won(n1) THEN StartElection(n1, t)
        ELSE Quiet(IF Lost(n1) THEN BecomeFollower(n1, n.term, Nil, t) ELSE n1)

CanVote_Always(n, m) == n.id \in UnionVoters(n.membership) /\ IsUpToDate(n, m.logIndex, m.logTerm)
CanVote(n, m) ==
    /\ n.id \in UnionVoters(n.membership)
    /\ n.votedFor \in {Nil, m.from}
    /\ IsUpToDate(n, m.logIndex, m.logTerm)

HandleVote(n, m, t) ==
    LET grant == CanVote(n, m)
    IN  Result(IF grant THEN ResetTimer([n EXCEPT !.votedFor = m.from, !.leader = Nil], t) ELSE n,
               {[type |-> "VoteResponse", from |-> n.id, to |-> m.from, term |-> n.term,
                 reject |-> ~grant]})

HandleVoteResponse(n, m, t) ==
    LET n1 == Tally(n, m.from, ~m.reject)
    IN  IF n.role # "candidate" THEN Quiet(n)
        ELSE IF Won(n1) THEN BecomeLeader(n1, t)
        ELSE Quiet(IF Lost(n1) THEN BecomeFollower(n1, n.term, Nil, t) ELSE n1)

-----------------------------------------------------------------------------
(* Appends and snapshots on the follower.                                   *)

AppendReply(n, m, reject, hint, index) ==
    {[type |-> "AppendResponse", from |-> n.id, to |-> m.from, term |-> n.term,
      reject |-> reject, hint |-> hint, logIndex |-> index,
      context |-> IF reject THEN 0 ELSE m.context]}

\* A leader of this term was heard.
Follow(n, m, t) ==
    ResetTimer([(IF n.role # "follower" \/ n.leader # m.from
                 THEN BecomeFollower(n, n.term, m.from, t) ELSE n) EXCEPT !.leader = m.from], t)

\* The first index of the term that conflicts with the append, as far as the
\* log goes back; the index after the log if it is too short.
ConflictHint(n, m) ==
    IF m.logIndex > LastIndex(n) THEN LastIndex(n) + 1
    ELSE CHOOSE h \in 0 .. m.logIndex :
           /\ h = m.logIndex \/ \A j \in h .. m.logIndex - 1 :
                  j >= n.snap.index + 1 /\ TermAt(n, j) = TermAt(n, m.logIndex)
           /\ h <= n.snap.index + 1 \/ TermAt(n, h - 1) # TermAt(n, m.logIndex)

\* The log has the entry before those of the append.
Consistent_LengthOnly(n, m) == m.logIndex <= LastIndex(n)
Consistent(n, m) == m.logIndex <= LastIndex(n) /\ TermAt(n, m.logIndex) = m.logTerm

\* The first entry of the append the log does not have, 0 if it has them all.
FirstNew(n, m) ==
    LET new == {k \in DOMAIN m.entries : TermAt(n, m.logIndex + k) # m.entries[k].term}
    IN  IF new = {} THEN 0 ELSE CHOOSE k \in new : \A j \in new : k <= j

TakeEntries(n, m, k) ==
    LET keep == m.logIndex + k - 1 - n.snap.index
    IN  RebuildMembership([n EXCEPT !.log =
            SubSeq(@, 1, keep) \o SubSeq(m.entries, k, Len(m.entries))])

\* What the append proves is committed, of what it has shown to match.
FollowerCommit_Unproved(n, m) ==
    IF m.commit < LastIndex(n) THEN m.commit ELSE LastIndex(n)
FollowerCommit(n, m) ==
    LET lastNew == m.logIndex + Len(m.entries)
    IN  IF m.commit < lastNew THEN m.commit ELSE lastNew

HandleAppend(n0, m, t) ==
    LET n == Follow(n0, m, t)
        k == FirstNew(n, m)
        n1 == IF k = 0 THEN n ELSE TakeEntries(n, m, k)
        commit == FollowerCommit(n1, m)
    IN  IF ~Consistent(n, m)
        THEN Result(n, AppendReply(n, m, TRUE, ConflictHint(n, m), 0))
        ELSE IF k # 0 /\ m.logIndex + k <= n.commit
        THEN Result(n, AppendReply(n, m, TRUE, n.commit + 1, 0))
        ELSE IF n1.membership = Invalid
        THEN Result(n, AppendReply(n, m, TRUE, LastIndex(n) + 1, 0))
        ELSE Result([n1 EXCEPT !.commit = IF commit > @ THEN commit ELSE @],
                    AppendReply(n1, m, FALSE, 0, m.logIndex + Len(m.entries)))

SnapshotReply(n, m, reject, hint, index) ==
    {[type |-> "SnapshotResponse", from |-> n.id, to |-> m.from, term |-> n.term,
      reject |-> reject, hint |-> hint, logIndex |-> index]}

HandleSnapshot(n0, m, t) ==
    LET n == Follow(n0, m, t)
        n1 == RebuildMembership(CompactLog(n, m.snap))
    IN  IF m.snap.index <= n.snap.index
        THEN Result(n, SnapshotReply(n, m, FALSE, 0, n.snap.index))
        ELSE IF \/ m.snap.index <= n.commit /\ TermAt(n, m.snap.index) # m.snap.term
                \/ n1.membership = Invalid
        THEN Result(n, SnapshotReply(n, m, TRUE, LastIndex(n) + 1, 0))
        ELSE Result([n1 EXCEPT !.commit = IF @ < m.snap.index THEN m.snap.index ELSE @],
                    SnapshotReply(n1, m, FALSE, 0, m.snap.index))

-----------------------------------------------------------------------------
(* Answers at the leader.                                                   *)

Heard(n, m) == [n EXCEPT !.prog.active = @ \cup {m.from}]

\* A rejection never moves next below what the follower is known to have.
NextAfterReject_Stay(n, m) == n.prog.next[m.from]
NextAfterReject(n, m) ==
    LET next == n.prog.next[m.from]
        back == IF m.hint > 0 /\ m.hint < next THEN m.hint
                ELSE IF next > 1 THEN next - 1 ELSE next
        floor == n.prog.match[m.from] + 1
    IN  IF back < floor THEN floor ELSE back

\* An answer that shows more of the log to match.
Advance(n, m) ==
    LET matched == IF m.logIndex < LastIndex(n) THEN m.logIndex ELSE LastIndex(n)
    IN  IF matched > n.prog.match[m.from]
        THEN [n EXCEPT !.prog.match[m.from] = matched, !.prog.next[m.from] = matched + 1]
        ELSE n

HandleAppendResponse(n0, m, t) ==
    LET n  == Heard(n0, m)
        n1 == Advance(n, m)
        c  == MaybeCommit(SettleOutstanding(n1, m.from), t)
        f  == SendAppends(c.n, {m.from}, m.context)
    IN  IF n0.role # "leader" THEN Quiet(n0)
        ELSE IF m.reject
        THEN SendAppends([n EXCEPT !.prog.next[m.from] = NextAfterReject(n, m),
                                   !.prog.outstanding[m.from] = 0], {m.from}, m.context)
        ELSE IF /\ n1.prog.match[m.from] > n.prog.match[m.from]
                /\ c.n.prog.outstanding[m.from] = 0
                /\ c.n.prog.next[m.from] <= LastIndex(c.n)
        THEN Result(f.n, c.out \cup f.out)
        ELSE c

HandleSnapshotResponse(n0, m, t) ==
    LET n == Heard(n0, m)
        c == MaybeCommit(SettleOutstanding(Advance(n, m), m.from), t)
        f == SendAppends(c.n, {m.from}, 0)
    IN  IF n0.role # "leader" THEN Quiet(n0)
        ELSE IF m.reject
        THEN SendAppends([n EXCEPT !.prog.outstanding[m.from] = 0], {m.from}, 0)
        ELSE IF c.n.prog.next[m.from] <= LastIndex(c.n) THEN Result(f.n, c.out \cup f.out)
        ELSE c

-----------------------------------------------------------------------------
(* Step.                                                                    *)

\* malformedAppend: no correct leader sends this.
Malformed(m) ==
    \E k \in DOMAIN m.entries :
        \/ m.entries[k].term = 0 \/ m.entries[k].term > m.term
        \/ m.entries[k].term < IF k = 1 THEN m.logTerm ELSE m.entries[k - 1].term

RejectStale(n, m) ==
    CASE m.type \in {"Vote", "VoteResponse"} ->
           {[type |-> "VoteResponse", from |-> n.id, to |-> m.from, term |-> n.term, reject |-> TRUE]}
      [] m.type = "Append" -> AppendReply(n, m, TRUE, LastIndex(n) + 1, 0)
      [] m.type = "AppendResponse" -> AppendReply(n, m, TRUE, 0, 0)
      [] m.type \in {"Snapshot", "SnapshotResponse"} -> SnapshotReply(n, m, TRUE, 0, 0)

Handle(n, m, t) ==
    CASE m.type = "Vote" -> HandleVote(n, m, t)
      [] m.type = "VoteResponse" -> HandleVoteResponse(n, m, t)
      [] m.type = "Append" -> HandleAppend(n, m, t)
      [] m.type = "AppendResponse" -> HandleAppendResponse(n, m, t)
      [] m.type = "Snapshot" -> HandleSnapshot(n, m, t)
      [] m.type = "SnapshotResponse" -> HandleSnapshotResponse(n, m, t)

Step(n, m, t) ==
    IF \/ m.from \notin ReplicationPeers(n)
       \/ m.type = "Append" /\ Malformed(m)
       \/ m.type = "Vote" /\ m.term > n.term /\ InLease(n)
    THEN Quiet(n)
    ELSE IF m.type = "PreVote" THEN HandlePreVote(n, m)
    ELSE IF m.type = "PreVoteResponse" THEN HandlePreVoteResponse(n, m, t)
    ELSE IF m.term < n.term THEN Result(n, RejectStale(n, m))
    ELSE IF m.term > n.term THEN Handle(BecomeFollower(n, m.term, Nil, t), m, t)
    ELSE Handle(n, m, t)

-----------------------------------------------------------------------------
(* The runtime around it.                                                   *)

\* CreateSnapshot at the applied index, which is the commit index here.
TakeSnapshot_Active(n) ==
    LET image == n.snap.image \o SubSeq(n.log, 1, n.commit - n.snap.index)
        snap  == [index |-> n.commit, term |-> TermAt(n, n.commit),
                  membership |-> n.membership, image |-> image]
    IN  RebuildMembership(CompactLog(n, snap))
TakeSnapshot(n) ==
    LET image == n.snap.image \o SubSeq(n.log, 1, n.commit - n.snap.index)
        snap  == [index |-> n.commit, term |-> TermAt(n, n.commit),
                  membership |-> MembershipAt(n, n.commit), image |-> image]
    IN  RebuildMembership(CompactLog(n, snap))

AfterUpdate(n) ==
    IF SnapshotThreshold > 0 /\ n.commit - n.snap.index >= SnapshotThreshold
    THEN TakeSnapshot(n) ELSE n

\* New, from what the store has of d and a machine that had applied up to i.
Restarted(d, i, t) ==
    ResetTimer(RebuildMembership(
        [d EXCEPT !.role = "follower", !.leader = Nil, !.commit = i, !.votes = NoVotes,
                  !.prog = NoProgress]), t)

\* The maps of a leader mean nothing in another role.
Forget(n) == IF n.role = "leader" THEN n ELSE [n EXCEPT !.prog = NoProgress]

\* What Persist has written of the step from n to w when it stops: the term
\* and vote, then the snapshot or the truncation and the entries one by one.
Written(n, w) ==
    LET h == [n EXCEPT !.term = w.term, !.votedFor = w.votedFor]
        common == {k \in 0 .. Len(n.log) :
                     k <= Len(w.log) /\ SubSeq(n.log, 1, k) = SubSeq(w.log, 1, k)}
        keep == CHOOSE k \in common : \A j \in common : j <= k
    IN  {h, w} \cup
        IF n.snap # w.snap THEN {}
        ELSE {[h EXCEPT !.log = SubSeq(w.log, 1, k)] : k \in keep .. Len(w.log)}

\* One event of the loop of server s: the update is persisted and applied.
Complete(s, r) == node' = [node EXCEPT ![s] = Forget(AfterUpdate(r.n))]

\* One event of the loop of server s, complete or cut off by a crash.  Of the
\* messages of the event some are lost; rest are those already under way.  The
\* state machine may restart at any index it had applied.
Perform_SendFirst(s, r, rest) ==
    /\ r.n.term <= bounds.term /\ LastIndex(r.n) <= bounds.log
    /\ \E sent \in SUBSET {m \in r.out : m.to \in bounds.up} : net' = rest \cup sent
    /\ \/ Complete(s, r) /\ UNCHANGED restarts
       \/ /\ restarts < bounds.restarts
          /\ \E d \in Written(node[s], r.n), t \in Timeouts : \E i \in d.snap.index .. d.commit :
               node' = [node EXCEPT ![s] = Restarted(d, i, t)]
          /\ restarts' = restarts + 1
    /\ Cardinality(net') <= bounds.flight
    /\ UNCHANGED bounds
Perform(s, r, rest) ==
    /\ r.n.term <= bounds.term /\ LastIndex(r.n) <= bounds.log
    /\ \/ /\ Complete(s, r)
          /\ \E sent \in SUBSET {m \in r.out : m.to \in bounds.up} : net' = rest \cup sent
          /\ UNCHANGED restarts
       \/ /\ restarts < bounds.restarts
          /\ \E d \in Written(node[s], r.n), t \in Timeouts : \E i \in d.snap.index .. d.commit :
               node' = [node EXCEPT ![s] = Restarted(d, i, t)]
          /\ net' = rest
          /\ restarts' = restarts + 1
    /\ Cardinality(net') <= bounds.flight
    /\ UNCHANGED bounds

Tick(s) == s \in bounds.clocks /\ \E t \in Timeouts : Perform(s, TickNode(node[s], t), net)

Receive(m) ==
    /\ m.to \in Server
    /\ \E t \in Timeouts, rest \in {net, net \ {m}} : Perform(m.to, Step(node[m.to], m, t), rest)

Propose(s, c) ==
    /\ node[s].role = "leader"
    /\ \E t \in Timeouts : Perform(s, ThenCommit(BroadcastProposal(AppendOwn(node[s], c)), t), net)

\* ProposeMembership: peers new to the leader start at the joint entry.
JointProposed(n, V) ==
    LET n1 == RebuildMembership(AppendOwn(n, JointCommand(n.membership.voters, V)))
        new == {p \in UnionVoters(n1.membership) : n1.prog.next[p] = 0}
    IN  BroadcastAppend([n1 EXCEPT !.prog.next = Override(@, [p \in new |-> LastIndex(n1)])])

ProposeMembership(s, V) ==
    LET n == node[s] IN
    /\ n.role = "leader"
    /\ n.membership.joint = {} /\ n.membership.index <= n.commit
    /\ V # n.membership.voters
    /\ \E t \in Timeouts : Perform(s, ThenCommit(JointProposed(n, V), t), net)

-----------------------------------------------------------------------------

NewNode(s, t) ==
    [id |-> s, role |-> "follower", term |-> 0, votedFor |-> Nil, leader |-> Nil,
     snap |-> NoSnapshot, log |-> <<>>, commit |-> 0, membership |-> Stable(Voters),
     votes |-> NoVotes, elapsed |-> 0, timeout |-> t, prog |-> NoProgress]

Init ==
    /\ \E t \in [Server -> Timeouts] : node = [s \in Server |-> NewNode(s, t[s])]
    /\ net = {}
    /\ restarts = 0
    /\ bounds \in Bounds

Next ==
    \/ \E s \in Server : Tick(s)
    \/ \E m \in net : Receive(m)
    \/ \E s \in Server, c \in bounds.commands : Propose(s, c)
    \/ \E s \in Server, V \in bounds.changes : ProposeMembership(s, V)

Spec == Init /\ [][Next]_vars

-----------------------------------------------------------------------------
(* Properties.                                                              *)

\* What a server knows is committed.
Committed(n) == SubSeq(History(n), 1, n.commit)

\* Two servers that believe they lead are in different terms, whatever was
\* lost, repeated or delayed and whoever crashed between a vote and its
\* persistence (handleVote, handleVoteResponse, Persist before Send).
ElectionSafety ==
    \A s, p \in Server :
        node[s].role = "leader" /\ node[p].role = "leader" /\ node[s].term = node[p].term => s = p

\* Two logs with an entry of the same index and term agree up to it: what the
\* previous index and term of an append are checked for (handleAppend).
LogMatching ==
    \A s, p \in Server :
        LET a == History(node[s])  b == History(node[p])
        IN  \A i \in DOMAIN a \cap DOMAIN b :
                a[i].term = b[i].term => SubSeq(a, 1, i) = SubSeq(b, 1, i)

\* The state machines apply the same entries in the same order: of what two
\* servers know to be committed, one is a prefix of the other (maybeCommit,
\* handleAppend, handleSnapshot).
StateMachineSafety ==
    \A s, p \in Server :
        \A i \in DOMAIN Committed(node[s]) \cap DOMAIN Committed(node[p]) :
            Committed(node[s])[i] = Committed(node[p])[i]

\* A leader has every entry that a server of its term or an earlier one knows
\* to be committed (isUpToDate in handleVote, the term check of maybeCommit).
LeaderCompleteness ==
    \A s, p \in Server :
        node[s].role = "leader" /\ node[p].term <= node[s].term =>
            /\ node[p].commit <= LastIndex(node[s])
            /\ Committed(node[p]) = SubSeq(History(node[s]), 1, node[p].commit)

\* What a leader counts as replicated to a peer is in that peer's log, and
\* stays there through crashes, until the peer moves to a later term: an
\* acknowledgement leaves only after Persist (handleAppendResponse).
MatchTruthful ==
    \A s, p \in Server :
        node[s].role = "leader" /\ node[p].term <= node[s].term =>
            LET match == node[s].prog.match[p]
            IN  /\ match <= LastIndex(node[p])
                /\ SubSeq(History(node[p]), 1, match) = SubSeq(History(node[s]), 1, match)

\* The configuration entries of every log follow from each other, so
\* rebuildMembership never fails: maybeCommit would panic, and New would not
\* start the node.  A snapshot carries the membership its entries lead to.
MembershipSound ==
    \A s \in Server :
        LET n == node[s]
            all == [n EXCEPT !.snap = NoSnapshot, !.log = History(n)]
        IN  /\ n.membership # Invalid
            /\ n.membership = MembershipAt(all, LastIndex(n))
            /\ n.snap.membership = MembershipAt(all, n.snap.index)

\* The term of a server never falls, and in one term it votes for one server
\* only, also when it crashes and restarts (handleVote, Persist).
OneVotePerTerm ==
    [][\A s \in Server :
         /\ node'[s].term >= node[s].term
         /\ node'[s].term = node[s].term /\ node[s].votedFor # Nil
              => node'[s].votedFor = node[s].votedFor]_vars

\* No step takes a committed entry from the log of a server: not a conflicting
\* append, a snapshot installed, a compaction, nor a restart (handleAppend,
\* handleSnapshot, compactLog, New).
CommittedStays ==
    [][\A s \in Server :
         /\ LastIndex(node'[s]) >= node[s].commit
         /\ SubSeq(History(node'[s]), 1, node[s].commit) = Committed(node[s])]_vars
=============================================================================
