-------------------------- MODULE RaftBallotProofs --------------------------
(***************************************************************************)
(* Votes, for every number of servers, every membership and every change   *)
(* of membership: a server votes once in a term, through crashes, repeated *)
(* and late messages, and nobody counts a vote that was not cast.          *)
(*                                                                         *)
(* Every handler is summed up by what it may do to the ballot of a node,   *)
(* which is its term, vote, role and tally (Outcome), and by the votes it  *)
(* sends (Posted).  The invariant speaks of the ballots cast so far,       *)
(* ballot[s][T], which no state holds: there is such a table, and every    *)
(* step extends it (NextBallot).                                           *)
(***************************************************************************)
EXTENDS Raft, RaftSteps, TLAPS

-----------------------------------------------------------------------------
(* What the helpers of the handlers do to a ballot.                         *)

LEMMA KeepsOutcome ==
    ASSUME NEW n, NEW k, NEW W, Shape(n), Keeps(n, k)
    PROVE  Outcome(n, k, W)
BY DEF Keeps, Outcome, Shape, Tallies

LEMMA SameKeeps ==
    ASSUME NEW n, NEW k, SameBallot(n, k)
    PROVE  Keeps(n, k)
BY DEF Keeps, SameBallot

LEMMA KeepsTwice ==
    ASSUME NEW n, NEW k, NEW l, Keeps(n, k), Keeps(k, l)
    PROVE  Keeps(n, l)
BY DEF Keeps

LEMMA PlainPosted ==
    ASSUME NEW k, NEW out, Plain(k, out)
    PROVE  Posted(k, out)
BY DEF Plain, Posted, Granted

\* appendMessage and what is outstanding after it.
LEMMA SendAppendsSame ==
    ASSUME NEW n, Shape(n), NEW P, NEW c
    PROVE  /\ SameBallot(n, SendAppends(n, P, c).n)
           /\ Plain(n, SendAppends(n, P, c).out)
<1>1. SameBallot(n, SendAppends(n, P, c).n)
  BY DEF Shape, SendAppends, SameBallot, Fields, Result
<1>2. \A p \in P : LET m == AppendMessage(n, p, c)
                   IN  m.from = n.id /\ m.term = n.term /\ m.type \in {"Append", "Snapshot"}
  BY DEF AppendMessage
<1>3. Plain(n, SendAppends(n, P, c).out)
  BY <1>2 DEF SendAppends, Result, Plain, Shape, Kinds
<1> QED BY <1>1, <1>3

LEMMA BroadcastSame ==
    ASSUME NEW n, Shape(n)
    PROVE  /\ SameBallot(n, BroadcastAppend(n).n) /\ Plain(n, BroadcastAppend(n).out)
           /\ SameBallot(n, BroadcastProposal(n).n) /\ Plain(n, BroadcastProposal(n).out)
BY SendAppendsSame DEF BroadcastAppend, BroadcastProposal

LEMMA LocalSame ==
    ASSUME NEW n, Shape(n), NEW data, NEW t
    PROVE  /\ SameBallot(n, AppendOwn(n, data))
           /\ SameBallot(n, RebuildMembership(n))
           /\ SameBallot(n, ResetTimer(n, t))
           /\ SameBallot(n, ExpireOutstanding(n))
           /\ \A p : SameBallot(n, SettleOutstanding(n, p))
           /\ \A s : SameBallot(n, CompactLog(n, s))
           /\ \A m : SameBallot(n, Heard(n, m)) /\ SameBallot(n, Advance(n, m))
<1>1. SameBallot(n, AppendOwn(n, data))
  BY DEF Shape, SameBallot, Fields, AppendOwn
<1>2. SameBallot(n, RebuildMembership(n)) /\ SameBallot(n, ResetTimer(n, t))
  BY DEF Shape, SameBallot, Fields, RebuildMembership, ResetTimer
<1>3. SameBallot(n, ExpireOutstanding(n))
  BY DEF Shape, SameBallot, Fields, ExpireOutstanding
<1>4. \A p : SameBallot(n, SettleOutstanding(n, p))
  BY DEF Shape, SameBallot, Fields, SettleOutstanding
<1>5. \A s : SameBallot(n, CompactLog(n, s))
  BY DEF Shape, SameBallot, Fields, CompactLog
<1>6. \A m : SameBallot(n, Heard(n, m)) /\ SameBallot(n, Advance(n, m))
  BY DEF Shape, SameBallot, Fields, Heard, Advance
<1> QED BY <1>1, <1>2, <1>3, <1>4, <1>5, <1>6

\* becomeFollower: a later term starts without a vote.
LEMMA BecomeFollowerBallot ==
    ASSUME NEW n, Shape(n), NEW T \in Nat, NEW l, NEW t
    PROVE  LET k == BecomeFollower(n, T, l, t) IN
           /\ Shape(k) /\ k.id = n.id /\ k.role = "follower"
           /\ T > n.term => k.term = T /\ k.votedFor = Nil
           /\ T <= n.term => Keeps(n, k)
<1> DEFINE k == BecomeFollower(n, T, l, t)
<1>1. DOMAIN k = Fields /\ k.id = n.id /\ k.role = "follower" /\ k.votes = NoVotes
  BY DEF BecomeFollower, ResetTimer, Shape, Fields
<1>2. /\ k.term = IF T > n.term THEN T ELSE n.term
      /\ k.votedFor = IF T > n.term THEN Nil ELSE n.votedFor
  BY DEF BecomeFollower, ResetTimer, Shape, Fields
<1>3. Shape(k)
  BY <1>1, <1>2 DEF Shape, NoVotes, Roles
<1> QED BY <1>1, <1>2, <1>3 DEF Keeps, Shape

\* maybeCommit, which may append the final configuration and may step down.
LEMMA MaybeCommitKeeps ==
    ASSUME NEW n, Shape(n), NEW t
    PROVE  Keeps(n, MaybeCommit(n, t).n) /\ Plain(n, MaybeCommit(n, t).out)
<1>1. CASE Committable(n) = {}
  BY <1>1 DEF MaybeCommit, Quiet, Result, Keeps, Plain
<1>2. CASE Committable(n) # {}
  <2> DEFINE n1 == [n EXCEPT !.commit = CHOOSE i \in Committable(n) :
                                            \A j \in Committable(n) : j <= i]
             n2 == IF n1.membership.joint # {} /\ n1.membership.index <= n1.commit
                   THEN RebuildMembership(AppendOwn(n1, FinalCommand(n1.membership.joint)))
                   ELSE n1
             r  == BroadcastAppend(n2)
  <2>1. SameBallot(n, n1)
    BY DEF Shape, SameBallot, Fields
  <2>2. SameBallot(n, n2)
    <3> DEFINE f == FinalCommand(n1.membership.joint)
               a == AppendOwn(n1, f)
    <3> HIDE DEF n1, f
    <3>1. SameBallot(n1, a)
      BY <2>1, LocalSame DEF SameBallot
    <3>2. SameBallot(a, RebuildMembership(a))
      <4> HIDE DEF a
      <4> QED BY <3>1, LocalSame DEF SameBallot
    <3> HIDE DEF a
    <3>3. SameBallot(n, RebuildMembership(a))
      BY <2>1, <3>1, <3>2 DEF SameBallot
    <3> QED BY <2>1, <3>3 DEF a, f
  <2>3. SameBallot(n, r.n) /\ Plain(n, r.out)
    <3> HIDE DEF n2
    <3> QED BY <2>2, BroadcastSame DEF SameBallot, Plain
  <2>4. r = Result(r.n, r.out)
    <3>1. \A x, P : SendAppends(x, P, 0) = Result(SendAppends(x, P, 0).n, SendAppends(x, P, 0).out)
      BY DEF SendAppends, Result
    <3> QED BY <3>1 DEF BroadcastAppend
  <2>5. Keeps(n, BecomeFollower(r.n, n2.term, Nil, t))
    <3> HIDE DEF n2, r
    <3>1. n2.term \in Nat /\ n2.term = r.n.term /\ Shape(r.n)
      BY <2>2, <2>3 DEF SameBallot, Shape
    <3>2. Keeps(r.n, BecomeFollower(r.n, n2.term, Nil, t))
      BY <3>1, BecomeFollowerBallot
    <3> QED BY <3>2, <2>3, SameKeeps, KeepsTwice
  <2>6. MaybeCommit(n, t) =
          IF n2.membership.index <= n2.commit /\ n2.id \notin UnionVoters(n2.membership)
          THEN [r EXCEPT !.n = BecomeFollower(@, n2.term, Nil, t)] ELSE r
    BY <1>2 DEF MaybeCommit
  <2> HIDE DEF n2, r
  <2>7. /\ [r EXCEPT !.n = BecomeFollower(@, n2.term, Nil, t)].n = BecomeFollower(r.n, n2.term, Nil, t)
        /\ [r EXCEPT !.n = BecomeFollower(@, n2.term, Nil, t)].out = r.out
    BY <2>4 DEF Result
  <2> QED BY <2>3, <2>5, <2>6, <2>7, SameKeeps
<1> QED BY <1>1, <1>2

LEMMA ThenCommitKeeps ==
    ASSUME NEW r, Shape(r.n), Plain(r.n, r.out), NEW t
    PROVE  Keeps(r.n, ThenCommit(r, t).n) /\ Plain(r.n, ThenCommit(r, t).out)
BY MaybeCommitKeeps DEF ThenCommit, Result, Plain

-----------------------------------------------------------------------------
(* Elections.                                                               *)

\* becomeLeader: the tally stays, unless committing makes the node step down.
LEMMA BecomeLeaderBallot ==
    ASSUME NEW n, Shape(n), NEW t
    PROVE  LET r == BecomeLeader(n, t) IN
           /\ Shape(r.n) /\ r.n.id = n.id /\ r.n.term = n.term /\ r.n.votedFor = n.votedFor
           /\ r.n.role = "follower" \/ (r.n.role = "leader" /\ r.n.votes = n.votes)
           /\ Plain(n, r.out)
<1> DEFINE n1 == [n EXCEPT !.role = "leader", !.leader = n.id,
                           !.prog = [NoProgress EXCEPT !.next =
                               Override(@, [p \in UnionVoters(n.membership) |-> LastIndex(n) + 1])]]
           a == AppendOwn(n1, Noop)
           b == BroadcastAppend(a)
<1>1. /\ Shape(n1) /\ n1.id = n.id /\ n1.term = n.term /\ n1.votedFor = n.votedFor
      /\ n1.role = "leader" /\ n1.votes = n.votes
  BY DEF Shape, Fields, Roles
<1>2. SameBallot(n1, a)
  <2> HIDE DEF n1
  <2> QED BY <1>1, LocalSame
<1>3. SameBallot(n1, b.n) /\ Plain(n, b.out)
  <2> HIDE DEF a, n1
  <2> QED BY <1>1, <1>2, BroadcastSame DEF SameBallot, Plain
<1>4. BecomeLeader(n, t) = ThenCommit(b, t)
  BY DEF BecomeLeader
<1> HIDE DEF n1, a, b
<1>5. Keeps(b.n, ThenCommit(b, t).n) /\ Plain(b.n, ThenCommit(b, t).out)
  BY <1>1, <1>3, ThenCommitKeeps DEF SameBallot, Plain
<1> QED BY <1>1, <1>3, <1>4, <1>5 DEF Keeps, SameBallot, Plain

\* startElection: the vote of the new term is the node's own.
LEMMA StartElectionOutcome ==
    ASSUME NEW n, Shape(n), NEW t
    PROVE  LET r == StartElection(n, t) IN
           /\ Outcome(n, r.n, {}) /\ Plain(n, r.out)
           /\ r.n.term = n.term + 1
<1> DEFINE n1 == ResetTimer([n EXCEPT !.role = "candidate", !.term = @ + 1, !.votedFor = n.id,
                                      !.leader = Nil, !.votes = OwnVote(n)], t)
<1>1. /\ DOMAIN n1 = Fields /\ n1.id = n.id /\ n1.role = "candidate" /\ n1.term = n.term + 1
      /\ n1.votedFor = n.id /\ n1.votes = OwnVote(n)
  BY DEF Shape, Fields, ResetTimer
<1>2. /\ OwnVote(n) \in [Server -> {"none", "yes", "no"}]
      /\ \A p \in Server : OwnVote(n)[p] = "yes" <=> p = n.id
  BY DEF OwnVote, NoVotes, Shape
<1> HIDE DEF n1
<1>3. Shape(n1)
  BY <1>1, <1>2 DEF Shape, Roles
<1>4. CASE HasQuorum(n.membership, {n.id})
  <2>1. StartElection(n, t) = BecomeLeader(n1, t)
    BY <1>4 DEF StartElection, n1
  <2> DEFINE r == BecomeLeader(n1, t)
  <2>2. /\ Shape(r.n) /\ r.n.id = n.id /\ r.n.term = n.term + 1 /\ r.n.votedFor = n.id
        /\ r.n.role = "follower" \/ (r.n.role = "leader" /\ r.n.votes = OwnVote(n))
        /\ Plain(n, r.out)
    BY <1>1, <1>3, BecomeLeaderBallot DEF Plain
  <2> HIDE DEF r
  <2>3. r.n.role = "leader" => VotesOf(r.n, "yes") = {n.id}
    BY <2>2, <1>2 DEF VotesOf, Shape
  <2>4. r.n.role = "leader" => HasQuorum(n.membership, VotesOf(r.n, "yes"))
    BY <2>3, <1>4
  <2>5. Tallies(r.n) => \A p \in Server : r.n.votes[p] = "yes" => p = r.n.id /\ r.n.votedFor = r.n.id
    BY <2>2, <1>2 DEF Tallies
  <2>6. Outcome(n, r.n, {})
    BY <2>2, <2>4, <2>5 DEF Outcome, Shape
  <2> QED BY <2>1, <2>2, <2>6 DEF r
<1>5. CASE ~HasQuorum(n.membership, {n.id})
  <2>1. StartElection(n, t) = Result(n1, Campaign(n1, "Vote", n1.term))
    BY <1>5 DEF StartElection, n1
  <2>2. Plain(n, Campaign(n1, "Vote", n1.term))
    BY <1>1, <1>3 DEF Plain, Campaign, Shape, Kinds
  <2>3. Outcome(n, n1, {})
    BY <1>1, <1>2, <1>3 DEF Outcome, Shape, Tallies
  <2> QED BY <2>1, <2>2, <2>3, <1>1 DEF Result
<1> QED BY <1>4, <1>5

LEMMA StartPreVoteOutcome ==
    ASSUME NEW n, Shape(n), NEW t
    PROVE  Outcome(n, StartPreVote(n, t).n, {}) /\ Plain(n, StartPreVote(n, t).out)
<1> DEFINE n1 == ResetTimer([n EXCEPT !.role = "precandidate", !.leader = Nil,
                                      !.votes = OwnVote(n)], t)
<1>1. /\ DOMAIN n1 = Fields /\ n1.id = n.id /\ n1.role = "precandidate" /\ n1.term = n.term
      /\ n1.votedFor = n.votedFor /\ n1.votes = OwnVote(n) /\ n1.membership = n.membership
  BY DEF Shape, Fields, ResetTimer
<1>2. OwnVote(n) \in [Server -> {"none", "yes", "no"}]
  BY DEF OwnVote, NoVotes, Shape
<1> HIDE DEF n1
<1>3. Shape(n1)
  BY <1>1, <1>2 DEF Shape, Roles
<1>4. CASE HasQuorum(n.membership, {n.id})
  <2>1. StartPreVote(n, t) = StartElection(n1, t)
    BY <1>4 DEF StartPreVote, n1
  <2> DEFINE r == StartElection(n1, t)
  <2>2. Outcome(n1, r.n, {}) /\ Plain(n1, r.out) /\ r.n.term = n1.term + 1
    BY <1>3, StartElectionOutcome
  <2> HIDE DEF r
  <2>3. Outcome(n, r.n, {})
    BY <1>1, <1>3, <2>2 DEF Outcome, Shape, Tallies
  <2> QED BY <1>1, <2>1, <2>2, <2>3 DEF Plain, r
<1>5. CASE ~HasQuorum(n.membership, {n.id})
  <2>1. StartPreVote(n, t) = Result(n1, Campaign(n1, "PreVote", n1.term + 1))
    BY <1>5 DEF StartPreVote, n1
  <2>2. Plain(n, Campaign(n1, "PreVote", n1.term + 1))
    BY <1>1, <1>3 DEF Plain, Campaign, Shape, Kinds
  <2>3. Outcome(n, n1, {})
    BY <1>1, <1>3 DEF Outcome, Shape, Tallies
  <2> QED BY <2>1, <2>2, <2>3 DEF Result
<1> QED BY <1>4, <1>5

LEMMA HandlePreVoteResponseOutcome ==
    ASSUME NEW n, Shape(n), NEW m, m.from \in Server, m.term \in Nat, NEW t
    PROVE  LET r == HandlePreVoteResponse(n, m, t) IN Outcome(n, r.n, {}) /\ Plain(n, r.out)
<1> DEFINE granted == ~m.reject /\ m.term = n.term + 1
           n1 == Tally(n, m.from, granted)
           r == HandlePreVoteResponse(n, m, t)
<1>1. /\ Shape(n1) /\ n1.id = n.id /\ n1.term = n.term /\ n1.votedFor = n.votedFor
      /\ n1.role = n.role /\ n1.membership = n.membership
  BY DEF Tally, Shape, Fields
<1>2. CASE m.reject /\ m.term > n.term
  <2>1. r = Quiet(BecomeFollower(n, m.term, Nil, t))
    BY <1>2 DEF HandlePreVoteResponse
  <2> DEFINE k == BecomeFollower(n, m.term, Nil, t)
  <2>2. Shape(k) /\ k.id = n.id /\ k.role = "follower" /\ k.term = m.term
    BY <1>2, BecomeFollowerBallot
  <2> HIDE DEF k
  <2>3. Outcome(n, k, {})
    BY <1>2, <2>2 DEF Outcome, Shape, Tallies
  <2> QED BY <2>1, <2>3 DEF Quiet, Result, Plain, k
<1>3. CASE ~(m.reject /\ m.term > n.term) /\ (n.role # "precandidate" \/ ~(granted \/ m.reject))
  <2>1. r = Quiet(n)
    BY <1>3 DEF HandlePreVoteResponse
  <2>2. Outcome(n, n, {})
    BY KeepsOutcome DEF Keeps
  <2> QED BY <2>1, <2>2 DEF Quiet, Result, Plain
<1>4. CASE ~(m.reject /\ m.term > n.term) /\ n.role = "precandidate" /\ (granted \/ m.reject)
  <2>1. CASE Won(n1)
    <3>1. r = StartElection(n1, t)
      BY <1>4, <2>1 DEF HandlePreVoteResponse
    <3> HIDE DEF n1
    <3> DEFINE e == StartElection(n1, t)
    <3>2. Outcome(n1, e.n, {}) /\ Plain(n1, e.out) /\ e.n.term = n1.term + 1
      BY <1>1, StartElectionOutcome
    <3> HIDE DEF e
    <3>3. Outcome(n, e.n, {})
      BY <1>1, <3>2 DEF Outcome, Shape, Tallies
    <3> QED BY <1>1, <3>1, <3>2, <3>3 DEF Plain, e
  <2>2. CASE ~Won(n1)
    <3> DEFINE k == IF Lost(n1) THEN BecomeFollower(n1, n.term, Nil, t) ELSE n1
    <3>1. r = Quiet(k)
      BY <1>4, <2>2 DEF HandlePreVoteResponse
    <3>2. Keeps(n1, k)
      <4> HIDE DEF n1
      <4>1. Keeps(n1, BecomeFollower(n1, n.term, Nil, t))
        BY <1>1, BecomeFollowerBallot DEF Shape
      <4> QED BY <1>1, <4>1 DEF Keeps
    <3> HIDE DEF n1, k
    <3>3. Outcome(n, k, {})
      BY <1>1, <3>2, <1>4 DEF Keeps, Outcome, Shape, Tallies
    <3> QED BY <3>1, <3>3 DEF Quiet, Result, Plain, k, n1
  <2> QED BY <2>1, <2>2
<1> QED BY <1>2, <1>3, <1>4

\* handleVote: the one place where a vote for another server is cast.
LEMMA HandleVoteOutcome ==
    ASSUME NEW n, Shape(n), NEW m, m.from \in Server, NEW t
    PROVE  LET r == HandleVote(n, m, t) IN Outcome(n, r.n, {}) /\ Posted(r.n, r.out)
<1> DEFINE v == ResetTimer([n EXCEPT !.votedFor = m.from, !.leader = Nil], t)
           k == IF CanVote(n, m) THEN v ELSE n
           x == [type |-> "VoteResponse", from |-> n.id, to |-> m.from, term |-> n.term,
                 reject |-> ~CanVote(n, m)]
<1>1. HandleVote(n, m, t) = Result(k, {x})
  BY DEF HandleVote
<1>2. /\ Shape(v) /\ v.id = n.id /\ v.term = n.term /\ v.votedFor = m.from
      /\ v.role = n.role /\ v.votes = n.votes
  BY DEF Shape, Fields, ResetTimer
<1>3. CanVote(n, m) => n.votedFor \in {Nil, m.from}
  BY DEF CanVote
<1>4. Outcome(n, k, {})
  <2> HIDE DEF v
  <2>1. CASE CanVote(n, m)
    BY <1>2, <1>3, <2>1 DEF Outcome, Shape, Tallies
  <2>2. CASE ~CanVote(n, m)
    BY <2>2 DEF Outcome, Shape, Tallies
  <2> QED BY <2>1, <2>2
<1>5. /\ x.from = k.id /\ x.term \in Nat /\ x.type \in Kinds
      /\ Granted(x) => x.term = k.term /\ k.votedFor = x.to /\ x.to \in Server
  <2> HIDE DEF v
  <2> QED BY <1>2 DEF Granted, Shape, Kinds
<1> HIDE DEF k, x
<1>6. Posted(k, {x})
  BY <1>5 DEF Posted
<1> QED BY <1>1, <1>4, <1>6 DEF Result

\* handleVoteResponse: a vote of this term joins the tally.
LEMMA HandleVoteResponseOutcome ==
    ASSUME NEW n, Shape(n), NEW m, m.from \in Server, NEW t
    PROVE  LET r == HandleVoteResponse(n, m, t) IN
           /\ Outcome(n, r.n, {p \in {m.from} : ~m.reject}) /\ Plain(n, r.out)
           /\ r.n.term = n.term
           /\ n.role # "candidate" => r.n = n
<1> DEFINE n1 == Tally(n, m.from, ~m.reject)
           r == HandleVoteResponse(n, m, t)
           W == {p \in {m.from} : ~m.reject}
<1>1. /\ Shape(n1) /\ n1.id = n.id /\ n1.term = n.term /\ n1.votedFor = n.votedFor
      /\ n1.role = n.role /\ n1.membership = n.membership
      /\ n1.votes = [n.votes EXCEPT ![m.from] = IF ~m.reject THEN "yes" ELSE "no"]
  BY DEF Tally, Shape, Fields
<1>2. \A p \in Server : n1.votes[p] = "yes" => n.votes[p] = "yes" \/ p \in W
  BY <1>1 DEF Shape
<1>3. CASE n.role # "candidate"
  <2>1. r = Quiet(n)
    BY <1>3 DEF HandleVoteResponse
  <2>2. Outcome(n, n, W)
    BY KeepsOutcome DEF Keeps
  <2> QED BY <2>1, <2>2 DEF Quiet, Result, Plain
<1>4. CASE n.role = "candidate" /\ Won(n1)
  <2> DEFINE b == BecomeLeader(n1, t)
  <2>1. r = b
    BY <1>4 DEF HandleVoteResponse
  <2> HIDE DEF n1, W
  <2>2. /\ Shape(b.n) /\ b.n.id = n.id /\ b.n.term = n.term /\ b.n.votedFor = n.votedFor
        /\ b.n.role = "follower" \/ (b.n.role = "leader" /\ b.n.votes = n1.votes)
        /\ Plain(n, b.out)
    BY <1>1, BecomeLeaderBallot DEF Plain
  <2> HIDE DEF b
  <2>3. b.n.role = "leader" => HasQuorum(n.membership, VotesOf(b.n, "yes"))
    BY <2>2, <1>1, <1>4 DEF Won, VotesOf
  <2>4. Tallies(b.n) => \A p \in Server : b.n.votes[p] = "yes" => n.votes[p] = "yes" \/ p \in W
    BY <2>2, <1>2 DEF Tallies
  <2>5. Tallies(n)
    BY <1>4 DEF Tallies
  <2>6. Outcome(n, b.n, W)
    BY <2>2, <2>3, <2>4, <2>5 DEF Outcome, Shape
  <2> QED BY <2>1, <2>2, <2>6, <1>4 DEF W
<1>5. CASE n.role = "candidate" /\ ~Won(n1)
  <2> DEFINE k == IF Lost(n1) THEN BecomeFollower(n1, n.term, Nil, t) ELSE n1
  <2>1. r = Quiet(k)
    BY <1>5 DEF HandleVoteResponse
  <2>2. Keeps(n1, k)
    <3> HIDE DEF n1
    <3>1. Keeps(n1, BecomeFollower(n1, n.term, Nil, t))
      BY <1>1, BecomeFollowerBallot DEF Shape
    <3> QED BY <1>1, <3>1 DEF Keeps
  <2> HIDE DEF n1, k, W
  <2>3. Outcome(n, k, W) /\ k.term = n.term
    BY <1>1, <1>2, <2>2, <1>5 DEF Keeps, Outcome, Shape, Tallies
  <2> QED BY <2>1, <2>3, <1>5 DEF Quiet, Result, Plain, W
<1> QED BY <1>3, <1>4, <1>5

-----------------------------------------------------------------------------
(* The other handlers.                                                      *)

LEMMA TickLeaderKeeps ==
    ASSUME NEW n, Shape(n), NEW t
    PROVE  Keeps(n, TickLeader(n, t).n) /\ Plain(n, TickLeader(n, t).out)
<1> DEFINE e == ExpireOutstanding(n)
           n1 == [e EXCEPT !.prog.heartbeat = @ + 1, !.prog.quorum = @ + 1]
           n2 == [n1 EXCEPT !.prog.heartbeat = 0]
           r == IF n1.prog.heartbeat >= HeartbeatTicks
                THEN BroadcastAppend(n2) ELSE SendAppends(n1, Expired(n), 0)
<1>1. SameBallot(n, e)
  BY LocalSame
<1>2. SameBallot(n, n1) /\ SameBallot(n, n2)
  <2> HIDE DEF e
  <2> QED BY <1>1 DEF SameBallot, Shape, Fields
<1>3. SameBallot(n, r.n) /\ Plain(n, r.out) /\ r = Result(r.n, r.out)
  <2> HIDE DEF n1, n2
  <2>1. \A x, P : SendAppends(x, P, 0) = Result(SendAppends(x, P, 0).n, SendAppends(x, P, 0).out)
    BY DEF SendAppends, Result
  <2>2. \A x : SameBallot(n, x) =>
          /\ SameBallot(n, BroadcastAppend(x).n) /\ Plain(n, BroadcastAppend(x).out)
          /\ \A P : SameBallot(n, SendAppends(x, P, 0).n) /\ Plain(n, SendAppends(x, P, 0).out)
    BY SendAppendsSame DEF BroadcastAppend, SameBallot, Plain
  <2> QED BY <1>2, <2>1, <2>2 DEF BroadcastAppend
<1>4. TickLeader(n, t) = IF r.n.prog.quorum >= CheckQuorumTicks
                         THEN [r EXCEPT !.n = CheckQuorum(@, t)] ELSE r
  BY DEF TickLeader
<1> HIDE DEF r
<1>5. \A k : Shape(k) => Keeps(k, CheckQuorum(k, t))
  <2> SUFFICES ASSUME NEW k, Shape(k) PROVE Keeps(k, CheckQuorum(k, t))
    OBVIOUS
  <2> DEFINE voters == UnionVoters(k.membership)
             k1 == [k EXCEPT !.prog.active = @ \ voters, !.prog.quorum = 0]
  <2>1. SameBallot(k, k1)
    BY DEF SameBallot, Shape, Fields
  <2>2. CheckQuorum(k, t) = k1 \/ CheckQuorum(k, t) = BecomeFollower(k1, k.term, Nil, t)
    BY DEF CheckQuorum
  <2> HIDE DEF k1
  <2>3. Keeps(k1, BecomeFollower(k1, k.term, Nil, t))
    BY <2>1, BecomeFollowerBallot DEF SameBallot, Shape
  <2> QED BY <2>1, <2>2, <2>3, SameKeeps, KeepsTwice
<1>6. Keeps(n, CheckQuorum(r.n, t))
  BY <1>3, <1>5, SameKeeps, KeepsTwice DEF SameBallot
<1>7. [r EXCEPT !.n = CheckQuorum(@, t)] = Result(CheckQuorum(r.n, t), r.out)
  BY <1>3 DEF Result
<1> QED BY <1>3, <1>4, <1>6, <1>7, SameKeeps DEF Result

LEMMA TickOutcome ==
    ASSUME NEW n, Shape(n), NEW t
    PROVE  Outcome(n, TickNode(n, t).n, {}) /\ Plain(n, TickNode(n, t).out)
<1> DEFINE n1 == [n EXCEPT !.elapsed = @ + 1]
<1>1. SameBallot(n, n1) /\ n1.membership = n.membership
  BY DEF SameBallot, Shape, Fields
<1>2. CASE n.role = "leader"
  BY <1>2, TickLeaderKeeps, KeepsOutcome DEF TickNode
<1>3. CASE n.role # "leader" /\ TickNode(n, t) \in {Quiet(n), Quiet(n1)}
  <2>1. Outcome(n, n, {}) /\ Outcome(n, n1, {})
    BY <1>1, SameKeeps, KeepsOutcome DEF SameBallot
  <2> QED BY <1>3, <2>1 DEF Quiet, Result, Plain
<1>4. CASE n.role # "leader" /\ TickNode(n, t) = StartPreVote(n1, t)
  <2> HIDE DEF n1
  <2>1. Outcome(n1, StartPreVote(n1, t).n, {}) /\ Plain(n1, StartPreVote(n1, t).out)
    BY <1>1, StartPreVoteOutcome DEF SameBallot
  <2>2. Outcome(n, StartPreVote(n1, t).n, {})
    BY <1>1, <2>1 DEF SameBallot, Outcome, Tallies
  <2> QED BY <1>1, <1>4, <2>1, <2>2 DEF Plain, SameBallot
<1> QED BY <1>2, <1>3, <1>4 DEF TickNode

LEMMA FollowKeeps ==
    ASSUME NEW n, Shape(n), NEW m, NEW t
    PROVE  Keeps(n, Follow(n, m, t))
<1> DEFINE f == IF n.role # "follower" \/ n.leader # m.from
                THEN BecomeFollower(n, n.term, m.from, t) ELSE n
           g == [f EXCEPT !.leader = m.from]
<1>1. Keeps(n, f)
  <2>1. Keeps(n, BecomeFollower(n, n.term, m.from, t))
    BY BecomeFollowerBallot DEF Shape
  <2> QED BY <2>1 DEF Keeps
<1>2. SameBallot(f, g)
  <2> HIDE DEF f
  <2> QED BY <1>1 DEF Keeps, SameBallot, Shape, Fields
<1>3. SameBallot(g, ResetTimer(g, t))
  <2> HIDE DEF g
  <2> QED BY <1>2, LocalSame DEF SameBallot
<1>4. Follow(n, m, t) = ResetTimer(g, t)
  BY DEF Follow
<1> HIDE DEF f, g
<1> QED BY <1>1, <1>2, <1>3, <1>4 DEF Keeps, SameBallot

LEMMA HandleAppendKeeps ==
    ASSUME NEW n, Shape(n), NEW m, NEW t
    PROVE  Keeps(n, HandleAppend(n, m, t).n) /\ Plain(n, HandleAppend(n, m, t).out)
<1> DEFINE f == Follow(n, m, t)
           k == FirstNew(f, m)
           l == [f EXCEPT !.log = SubSeq(@, 1, m.logIndex + k - 1 - f.snap.index)
                                    \o SubSeq(m.entries, k, Len(m.entries))]
           n1 == IF k = 0 THEN f ELSE TakeEntries(f, m, k)
           commit == FollowerCommit(n1, m)
           n2 == [n1 EXCEPT !.commit = IF commit > @ THEN commit ELSE @]
           r == HandleAppend(n, m, t)
<1>1. Keeps(n, f)
  BY FollowKeeps
<1>2. SameBallot(f, n1)
  <2> HIDE DEF f, k
  <2>1. SameBallot(f, l)
    BY <1>1 DEF Keeps, SameBallot, Shape, Fields
  <2>2. SameBallot(l, RebuildMembership(l))
    <3> HIDE DEF l
    <3> QED BY <2>1, LocalSame DEF SameBallot
  <2>3. TakeEntries(f, m, k) = RebuildMembership(l)
    BY DEF TakeEntries
  <2> HIDE DEF l
  <2> QED BY <1>1, <2>1, <2>2, <2>3 DEF SameBallot, Keeps
<1>3. SameBallot(f, n2)
  <2> HIDE DEF n1, commit
  <2> QED BY <1>2 DEF SameBallot, Shape, Fields
<1>4. r \in {Result(f, AppendReply(f, m, TRUE, ConflictHint(f, m), 0)),
             Result(f, AppendReply(f, m, TRUE, f.commit + 1, 0)),
             Result(f, AppendReply(f, m, TRUE, LastIndex(f) + 1, 0)),
             Result(n2, AppendReply(n1, m, FALSE, 0, m.logIndex + Len(m.entries)))}
  BY DEF HandleAppend
<1> HIDE DEF f, n1, n2
<1>5. \A x, a, b, c : SameBallot(f, x) => Plain(n, AppendReply(x, m, a, b, c))
  BY <1>1 DEF Plain, AppendReply, SameBallot, Keeps, Shape, Kinds
<1>6. SameBallot(f, f)
  BY <1>1 DEF SameBallot, Keeps
<1>7. \A x, y : r = Result(x, y) => r.n = x /\ r.out = y
  BY DEF Result
<1>8. r.n \in {f, n2} /\ Plain(n, r.out)
  <2> HIDE DEF r
  <2> QED BY <1>2, <1>4, <1>5, <1>6, <1>7
<1>9. Keeps(n, n2)
  BY <1>1, <1>3, SameKeeps, KeepsTwice
<1> QED BY <1>1, <1>8, <1>9

LEMMA HandleSnapshotKeeps ==
    ASSUME NEW n, Shape(n), NEW m, NEW t
    PROVE  Keeps(n, HandleSnapshot(n, m, t).n) /\ Plain(n, HandleSnapshot(n, m, t).out)
<1> DEFINE f == Follow(n, m, t)
           c == CompactLog(f, m.snap)
           n1 == RebuildMembership(c)
           n2 == [n1 EXCEPT !.commit = IF @ < m.snap.index THEN m.snap.index ELSE @]
           r == HandleSnapshot(n, m, t)
<1>1. Keeps(n, f)
  BY FollowKeeps
<1>2. SameBallot(f, n1)
  <2> HIDE DEF f
  <2>1. SameBallot(f, c)
    BY <1>1, LocalSame DEF Keeps
  <2> HIDE DEF c
  <2>2. SameBallot(c, n1)
    BY <2>1, LocalSame DEF SameBallot
  <2> QED BY <2>1, <2>2 DEF SameBallot
<1>3. SameBallot(f, n2)
  <2> HIDE DEF n1
  <2> QED BY <1>2 DEF SameBallot, Shape, Fields
<1>4. r \in {Result(f, SnapshotReply(f, m, FALSE, 0, f.snap.index)),
             Result(f, SnapshotReply(f, m, TRUE, LastIndex(f) + 1, 0)),
             Result(n2, SnapshotReply(n1, m, FALSE, 0, m.snap.index))}
  BY DEF HandleSnapshot
<1> HIDE DEF f, n1, n2
<1>5. \A x, a, b, i : SameBallot(f, x) => Plain(n, SnapshotReply(x, m, a, b, i))
  BY <1>1 DEF Plain, SnapshotReply, SameBallot, Keeps, Shape, Kinds
<1>6. SameBallot(f, f)
  BY <1>1 DEF SameBallot, Keeps
<1>7. \A x, y : r = Result(x, y) => r.n = x /\ r.out = y
  BY DEF Result
<1>8. r.n \in {f, n2} /\ Plain(n, r.out)
  <2> HIDE DEF r
  <2> QED BY <1>2, <1>4, <1>5, <1>6, <1>7
<1>9. Keeps(n, n2)
  BY <1>1, <1>3, SameKeeps, KeepsTwice
<1> QED BY <1>1, <1>8, <1>9

\* maybeCommit, and a send to the peer that answered.
LEMMA CommitAndSendKeeps ==
    ASSUME NEW n, NEW k, Shape(n), SameBallot(n, k), NEW t, NEW P, NEW x
    PROVE  LET c == MaybeCommit(k, t)
               f == SendAppends(c.n, P, x)
           IN  /\ Keeps(n, c.n) /\ Plain(n, c.out)
               /\ Keeps(n, f.n) /\ Plain(n, c.out \cup f.out)
<1> DEFINE c == MaybeCommit(k, t)
           f == SendAppends(c.n, P, x)
<1>1. Keeps(n, c.n) /\ Plain(n, c.out)
  BY MaybeCommitKeeps DEF SameBallot, Keeps, Plain
<1> HIDE DEF c
<1>2. SameBallot(c.n, f.n) /\ Plain(c.n, f.out)
  BY <1>1, SendAppendsSame DEF Keeps
<1> HIDE DEF f
<1>3. Keeps(n, f.n) /\ Plain(n, c.out \cup f.out)
  BY <1>1, <1>2 DEF Keeps, SameBallot, Plain
<1> QED BY <1>1, <1>3 DEF c, f

LEMMA HandleAppendResponseKeeps ==
    ASSUME NEW n, Shape(n), NEW m, NEW t
    PROVE  Keeps(n, HandleAppendResponse(n, m, t).n) /\ Plain(n, HandleAppendResponse(n, m, t).out)
<1> DEFINE h == Heard(n, m)
           a == Advance(h, m)
           s == SettleOutstanding(a, m.from)
           c == MaybeCommit(s, t)
           f == SendAppends(c.n, {m.from}, m.context)
           d == [h EXCEPT !.prog.next[m.from] = NextAfterReject(h, m), !.prog.outstanding[m.from] = 0]
           b == SendAppends(d, {m.from}, m.context)
           r == HandleAppendResponse(n, m, t)
<1>1. SameBallot(n, h)
  BY LocalSame
<1>2. SameBallot(n, d)
  <2> HIDE DEF h
  <2> QED BY <1>1 DEF SameBallot, Shape, Fields
<1>3. SameBallot(n, s)
  <2> HIDE DEF h
  <2>1. SameBallot(h, a)
    BY <1>1, LocalSame DEF SameBallot
  <2> HIDE DEF a
  <2>2. SameBallot(a, s)
    BY <2>1, LocalSame DEF SameBallot
  <2> QED BY <1>1, <2>1, <2>2 DEF SameBallot
<1>4. r \in {Quiet(n), b, Result(f.n, c.out \cup f.out), c}
  BY DEF HandleAppendResponse
<1>5. SameBallot(n, b.n) /\ Plain(n, b.out)
  <2> HIDE DEF d
  <2> QED BY <1>2, SendAppendsSame DEF SameBallot, Plain
<1>6. Keeps(n, c.n) /\ Plain(n, c.out) /\ Keeps(n, f.n) /\ Plain(n, c.out \cup f.out)
  <2> HIDE DEF s
  <2> QED BY <1>3, CommitAndSendKeeps
<1>7. Keeps(n, n) /\ Plain(n, {}) /\ Keeps(n, b.n)
  <2> HIDE DEF b
  <2> QED BY <1>5, SameKeeps DEF Keeps, Plain
<1> HIDE DEF b, c, f
<1> QED BY <1>4, <1>5, <1>6, <1>7 DEF Quiet, Result

LEMMA HandleSnapshotResponseKeeps ==
    ASSUME NEW n, Shape(n), NEW m, NEW t
    PROVE  /\ Keeps(n, HandleSnapshotResponse(n, m, t).n)
           /\ Plain(n, HandleSnapshotResponse(n, m, t).out)
<1> DEFINE h == Heard(n, m)
           a == Advance(h, m)
           s == SettleOutstanding(a, m.from)
           c == MaybeCommit(s, t)
           f == SendAppends(c.n, {m.from}, 0)
           d == [h EXCEPT !.prog.outstanding[m.from] = 0]
           b == SendAppends(d, {m.from}, 0)
           r == HandleSnapshotResponse(n, m, t)
<1>1. SameBallot(n, h)
  BY LocalSame
<1>2. SameBallot(n, d)
  <2> HIDE DEF h
  <2> QED BY <1>1 DEF SameBallot, Shape, Fields
<1>3. SameBallot(n, s)
  <2> HIDE DEF h
  <2>1. SameBallot(h, a)
    BY <1>1, LocalSame DEF SameBallot
  <2> HIDE DEF a
  <2>2. SameBallot(a, s)
    BY <2>1, LocalSame DEF SameBallot
  <2> QED BY <1>1, <2>1, <2>2 DEF SameBallot
<1>4. r \in {Quiet(n), b, Result(f.n, c.out \cup f.out), c}
  BY DEF HandleSnapshotResponse
<1>5. SameBallot(n, b.n) /\ Plain(n, b.out)
  <2> HIDE DEF d
  <2> QED BY <1>2, SendAppendsSame DEF SameBallot, Plain
<1>6. Keeps(n, c.n) /\ Plain(n, c.out) /\ Keeps(n, f.n) /\ Plain(n, c.out \cup f.out)
  <2> HIDE DEF s
  <2> QED BY <1>3, CommitAndSendKeeps
<1>7. Keeps(n, n) /\ Plain(n, {}) /\ Keeps(n, b.n)
  <2> HIDE DEF b
  <2> QED BY <1>5, SameKeeps DEF Keeps, Plain
<1> HIDE DEF b, c, f
<1> QED BY <1>4, <1>5, <1>6, <1>7 DEF Quiet, Result

-----------------------------------------------------------------------------
(* Step.                                                                    *)

LEMMA HandleOutcome ==
    ASSUME NEW n, Shape(n), NEW m, m.from \in Server, m.type \in Kinds, m.term = n.term, NEW t,
           m.type \notin {"PreVote", "PreVoteResponse"}
    PROVE  LET r == Handle(n, m, t) IN
           /\ Outcome(n, r.n, Brings(m, r.n)) /\ Posted(r.n, r.out)
           /\ Granted(m) /\ n.role # "candidate" => r.n = n
<1> DEFINE r == Handle(n, m, t)
<1>1. CASE m.type = "Vote"
  <2>1. r = HandleVote(n, m, t)
    BY <1>1 DEF Handle
  <2>2. Outcome(n, r.n, {}) /\ Posted(r.n, r.out)
    BY <2>1, HandleVoteOutcome
  <2> HIDE DEF r
  <2> QED BY <1>1, <2>2 DEF Outcome, Granted, r
<1>2. CASE m.type = "VoteResponse"
  <2>1. r = HandleVoteResponse(n, m, t)
    BY <1>2 DEF Handle
  <2> DEFINE W == {p \in {m.from} : ~m.reject}
  <2>2. /\ Outcome(n, r.n, W) /\ Plain(n, r.out) /\ r.n.term = n.term
        /\ n.role # "candidate" => r.n = n
    BY <2>1, HandleVoteResponseOutcome
  <2> HIDE DEF r
  <2>3. W = Brings(m, r.n)
    BY <1>2, <2>2 DEF Brings, Granted
  <2>4. Plain(r.n, r.out)
    BY <2>2 DEF Plain, Outcome
  <2> QED BY <2>2, <2>3, <2>4, PlainPosted DEF r
<1>3. CASE m.type \in {"Append", "AppendResponse", "Snapshot", "SnapshotResponse"}
  <2>1. r \in {HandleAppend(n, m, t), HandleAppendResponse(n, m, t), HandleSnapshot(n, m, t),
               HandleSnapshotResponse(n, m, t)}
    BY <1>3 DEF Handle
  <2>2. Keeps(n, r.n) /\ Plain(n, r.out)
    <3> HIDE DEF r
    <3> QED BY <2>1, HandleAppendKeeps, HandleAppendResponseKeeps, HandleSnapshotKeeps,
               HandleSnapshotResponseKeeps
  <2> HIDE DEF r
  <2>3. Plain(r.n, r.out)
    BY <2>2 DEF Plain, Keeps
  <2> QED BY <1>3, <2>2, <2>3, KeepsOutcome, PlainPosted DEF Granted, r
<1> QED BY <1>1, <1>2, <1>3 DEF Kinds

LEMMA RejectStalePosted ==
    ASSUME NEW n, Shape(n), NEW m, m.type \in Kinds \ {"PreVote", "PreVoteResponse"}
    PROVE  Posted(n, RejectStale(n, m))
<1>1. CASE m.type \in {"Vote", "VoteResponse"}
  <2>1. RejectStale(n, m) = {[type |-> "VoteResponse", from |-> n.id, to |-> m.from,
                              term |-> n.term, reject |-> TRUE]}
    BY <1>1 DEF RejectStale
  <2> QED BY <2>1 DEF Posted, Granted, Shape, Kinds
<1>2. \A a, b, i : Posted(n, AppendReply(n, m, a, b, i)) /\ Posted(n, SnapshotReply(n, m, a, b, i))
  BY DEF AppendReply, SnapshotReply, Posted, Granted, Shape, Kinds
<1>3. CASE m.type \in {"Append", "AppendResponse", "Snapshot", "SnapshotResponse"}
  <2>1. RejectStale(n, m) \in {AppendReply(n, m, TRUE, LastIndex(n) + 1, 0),
                               AppendReply(n, m, TRUE, 0, 0), SnapshotReply(n, m, TRUE, 0, 0)}
    BY <1>3 DEF RejectStale
  <2> QED BY <2>1, <1>2
<1> QED BY <1>1, <1>3 DEF Kinds

LEMMA StepOutcome ==
    ASSUME NEW n, Shape(n), NEW m, m.from \in Server, m.type \in Kinds, m.term \in Nat, NEW t
    PROVE  LET r == Step(n, m, t) IN Outcome(n, r.n, Brings(m, r.n)) /\ Posted(r.n, r.out)
<1> DEFINE r == Step(n, m, t)
           drop == \/ m.from \notin ReplicationPeers(n)
                   \/ m.type = "Append" /\ Malformed(m)
                   \/ m.type = "Vote" /\ m.term > n.term /\ InLease(n)
<1>0. \A W : Outcome(n, n, W)
  BY KeepsOutcome DEF Keeps
<1>1. CASE drop
  <2>1. r = Quiet(n)
    BY <1>1 DEF Step
  <2> QED BY <2>1, <1>0 DEF Quiet, Result, Posted
<1>2. CASE ~drop /\ m.type = "PreVote"
  <2>1. r = HandlePreVote(n, m)
    BY <1>2 DEF Step
  <2>2. r.n = n /\ Posted(n, r.out)
    BY <2>1 DEF HandlePreVote, Result, Posted, Granted, Shape, Kinds
  <2> HIDE DEF r
  <2> QED BY <2>2, <1>0 DEF r
<1>3. CASE ~drop /\ m.type = "PreVoteResponse"
  <2>1. r = HandlePreVoteResponse(n, m, t)
    BY <1>3 DEF Step
  <2>2. Outcome(n, r.n, {}) /\ Plain(n, r.out)
    BY <2>1, HandlePreVoteResponseOutcome
  <2> HIDE DEF r
  <2>3. Plain(r.n, r.out)
    BY <2>2 DEF Plain, Outcome
  <2>4. Outcome(n, r.n, Brings(m, r.n))
    BY <2>2 DEF Outcome
  <2> QED BY <2>3, <2>4, PlainPosted DEF r
<1>4. CASE ~drop /\ m.type \notin {"PreVote", "PreVoteResponse"} /\ m.term < n.term
  <2>1. r = Result(n, RejectStale(n, m))
    BY <1>4 DEF Step
  <2> QED BY <1>0, <1>4, <2>1, RejectStalePosted DEF Result
<1>5. CASE ~drop /\ m.type \notin {"PreVote", "PreVoteResponse"} /\ m.term = n.term
  <2>1. r = Handle(n, m, t)
    BY <1>5 DEF Step, Shape
  <2> QED BY <1>5, <2>1, HandleOutcome
<1>6. CASE ~drop /\ m.type \notin {"PreVote", "PreVoteResponse"} /\ m.term > n.term
  <2> DEFINE b == BecomeFollower(n, m.term, Nil, t)
  <2>1. r = Handle(b, m, t)
    BY <1>6 DEF Step, Shape
  <2> HIDE DEF drop
  <2>0. m.type \notin {"PreVote", "PreVoteResponse"} /\ m.term > n.term
    BY <1>6
  <2>2. Shape(b) /\ b.id = n.id /\ b.role = "follower" /\ b.term = m.term
    BY <2>0, BecomeFollowerBallot
  <2> HIDE DEF b
  <2>3. /\ Outcome(b, r.n, Brings(m, r.n)) /\ Posted(r.n, r.out)
        /\ Granted(m) => r.n = b
    BY <2>0, <2>1, <2>2, HandleOutcome
  <2> HIDE DEF r
  <2>4. b.membership = n.membership
    BY DEF b, BecomeFollower, ResetTimer, Shape, Fields
  <2>5. r.n.role = "leader" => HasQuorum(n.membership, VotesOf(r.n, "yes"))
    BY <2>2, <2>3, <2>4 DEF Outcome
  <2>6. ~Tallies(b)
    BY <2>2 DEF Tallies
  <2>7. Shape(r.n) /\ r.n.id = n.id /\ r.n.term >= n.term /\ r.n.term # n.term
    BY <2>0, <2>2, <2>3 DEF Outcome, Shape
  <2>8. Outcome(n, r.n, Brings(m, r.n))
    BY <2>3, <2>5, <2>6, <2>7 DEF Outcome
  <2> QED BY <2>3, <2>8 DEF r
<1>7. \/ drop
      \/ ~drop /\ m.type = "PreVote"
      \/ ~drop /\ m.type = "PreVoteResponse"
      \/ ~drop /\ m.type \notin {"PreVote", "PreVoteResponse"} /\ m.term < n.term
      \/ ~drop /\ m.type \notin {"PreVote", "PreVoteResponse"} /\ m.term = n.term
      \/ ~drop /\ m.type \notin {"PreVote", "PreVoteResponse"} /\ m.term > n.term
  <2> HIDE DEF drop
  <2>1. m.term < n.term \/ m.term = n.term \/ m.term > n.term
    BY DEF Shape
  <2>2. m.type = "PreVote" \/ m.type = "PreVoteResponse" \/ m.type \notin {"PreVote", "PreVoteResponse"}
    OBVIOUS
  <2> QED BY Zenon, <2>1, <2>2
<1> HIDE DEF drop
<1> QED BY Zenon, <1>1, <1>2, <1>3, <1>4, <1>5, <1>6, <1>7

-----------------------------------------------------------------------------
(* The ballots cast.                                                        *)

\* What is written when Persist stops has the new term and vote; the node
\* that starts from it is a follower.
LEMMA CrashKeeps ==
    ASSUME NEW n, Shape(n), NEW w, Shape(w), w.id = n.id, NEW d \in Written(n, w), NEW i, NEW t
    PROVE  Keeps(w, Restarted(d, i, t))
<1> DEFINE h == [n EXCEPT !.term = w.term, !.votedFor = w.votedFor]
<1>1. \A x : x = h \/ x = w \/ (\E l : x = [h EXCEPT !.log = l]) =>
        DOMAIN x = Fields /\ x.id = n.id /\ x.term = w.term /\ x.votedFor = w.votedFor
  BY DEF Shape, Fields
<1>2. d = h \/ d = w \/ (\E l : d = [h EXCEPT !.log = l])
  BY DEF Written
<1>3. DOMAIN d = Fields /\ d.id = n.id /\ d.term = w.term /\ d.votedFor = w.votedFor
  BY <1>1, <1>2
<1> DEFINE e == [d EXCEPT !.role = "follower", !.leader = Nil, !.commit = i, !.votes = NoVotes,
                          !.prog = NoProgress]
<1>4. /\ DOMAIN e = Fields /\ e.id = n.id /\ e.term = w.term /\ e.votedFor = w.votedFor
      /\ e.role = "follower" /\ e.votes = NoVotes
  BY <1>3 DEF Fields
<1> HIDE DEF e
<1>5. Shape(e)
  BY <1>4 DEF Shape, Roles, NoVotes
<1>6. SameBallot(e, RebuildMembership(e))
  BY <1>5, LocalSame
<1>7. SameBallot(RebuildMembership(e), ResetTimer(RebuildMembership(e), t))
  BY <1>6, LocalSame DEF SameBallot
<1>8. Restarted(d, i, t) = ResetTimer(RebuildMembership(e), t)
  BY DEF Restarted, e
<1> QED BY <1>4, <1>5, <1>6, <1>7, <1>8 DEF SameBallot, Keeps

LEMMA CompleteKeeps ==
    ASSUME NEW w, Shape(w)
    PROVE  Keeps(w, Forget(AfterUpdate(w)))
<1>1. \A snap : SameBallot(w, RebuildMembership(CompactLog(w, snap)))
  BY LocalSame DEF SameBallot
<1>2. SameBallot(w, AfterUpdate(w))
  BY <1>1 DEF AfterUpdate, TakeSnapshot, SameBallot
<1>3. \A x : SameBallot(w, x) => SameBallot(w, Forget(x))
  BY DEF Forget, SameBallot, Shape, Fields
<1> QED BY <1>2, <1>3, SameKeeps

\* A node k in place of node s, with messages it posted.
LEMMA StepBallot ==
    ASSUME NEW b, BallotInv(node, net, b), NEW s \in Server, NEW k, NEW w, NEW W, NEW msgs, NEW out,
           Outcome(node[s], w, W), Keeps(w, k), Posted(w, out), msgs \subseteq net \cup out,
           \A p \in W : p \in Server /\ b[p][w.term] = s
    PROVE  BallotInv([node EXCEPT ![s] = k], msgs, NextBallot(b, s, k))
<1> DEFINE n == node[s]
           nodes == [node EXCEPT ![s] = k]
           c == NextBallot(b, s, k)
<1>0. /\ b \in [Server -> [Nat -> Server \cup {Nil}]] /\ DOMAIN node = Server
      /\ n.term \in Nat /\ b[s][n.term] = n.votedFor
      /\ \A T \in Nat : T > n.term => b[s][T] = Nil
  BY DEF BallotInv, Shape
<1>1. /\ w.id = s /\ Shape(k) /\ k.id = s /\ k.term = w.term /\ k.votedFor = w.votedFor
      /\ k.term \in Nat /\ k.term >= n.term /\ n.term \in Nat
      /\ k.term = n.term /\ n.votedFor # Nil => k.votedFor = n.votedFor
  BY <1>0 DEF Outcome, Keeps, Shape, BallotInv
<1>2. c \in [Server -> [Nat -> Server \cup {Nil}]] /\ DOMAIN nodes = Server
  BY <1>0, <1>1 DEF NextBallot, Shape
<1>3. /\ c[s][k.term] = k.votedFor
      /\ \A q \in Server, T \in Nat : q # s \/ T # k.term => c[q][T] = b[q][T]
  BY <1>0, <1>1 DEF NextBallot
<1>4. \A q \in Server, T \in Nat, v \in Server : b[q][T] = v => c[q][T] = v
  <2> SUFFICES ASSUME NEW v \in Server, b[s][k.term] = v PROVE k.votedFor = v
    BY <1>1, <1>3
  <2>1. v # Nil
    BY ServerAssumption
  <2>2. ~(k.term > n.term)
    BY <1>0, <1>1, <2>1
  <2>3. \A x, y \in Nat : x >= y /\ ~(x > y) => x = y
    OBVIOUS
  <2>4. k.term = n.term
    BY <1>1, <2>2, <2>3
  <2> QED BY <1>0, <1>1, <2>1, <2>4
<1> HIDE DEF c
<1>5. ASSUME NEW q \in Server
      PROVE  /\ Shape(nodes[q]) /\ nodes[q].id = q
             /\ c[q][nodes[q].term] = nodes[q].votedFor
             /\ \A T \in Nat : T > nodes[q].term => c[q][T] = Nil
             /\ Tallies(nodes[q]) =>
                  \A p \in Server : nodes[q].votes[p] = "yes" => c[p][nodes[q].term] = q
  <2>1. CASE q # s
    <3>1. /\ nodes[q] = node[q] /\ Shape(node[q]) /\ node[q].id = q /\ node[q].term \in Nat
          /\ b[q][node[q].term] = node[q].votedFor
          /\ \A T \in Nat : T > node[q].term => b[q][T] = Nil
          /\ Tallies(node[q]) =>
               \A p \in Server : node[q].votes[p] = "yes" => b[p][node[q].term] = q
      BY <1>0, <2>1 DEF Shape, BallotInv
    <3>2. \A T \in Nat : c[q][T] = b[q][T]
      BY <1>3, <2>1
    <3> QED BY <3>1, <3>2, <1>4
  <2>2. CASE q = s
    <3>1. nodes[q] = k
      BY <1>0, <2>2
    <3>2. \A T \in Nat : T > k.term => c[s][T] = Nil
      <4> SUFFICES ASSUME NEW T \in Nat, T > k.term PROVE c[s][T] = Nil
        OBVIOUS
      <4>1. T > n.term /\ T # k.term
        BY <1>0, <1>1
      <4> QED BY <1>0, <1>3, <4>1
    <3>3. ASSUME Tallies(k), NEW p \in Server, k.votes[p] = "yes" PROVE c[p][k.term] = s
      <4>1. Tallies(w) /\ w.votes[p] = "yes" /\ w.id = s
        BY <1>1, <3>3 DEF Keeps, Tallies
      <4>2. CASE p = w.id /\ w.votedFor = w.id
        BY <4>1, <4>2, <1>1, <1>3
      <4>3. CASE Tallies(n) /\ n.term = w.term /\ n.votes[p] = "yes"
        <5>1. b[p][n.term] = s
          BY <4>3 DEF BallotInv
        <5> QED BY <4>3, <5>1, <1>1, <1>4
      <4>4. CASE p \in W
        BY <4>4, <1>1, <1>4
      <4> QED BY <4>1, <4>2, <4>3, <4>4 DEF Outcome
    <3> QED BY <1>1, <1>3, <2>2, <3>1, <3>2, <3>3
  <2> QED BY <2>1, <2>2
<1>6. ASSUME NEW m \in msgs
      PROVE  /\ m.from \in Server /\ m.term \in Nat /\ m.type \in Kinds
             /\ Granted(m) => m.to \in Server /\ c[m.from][m.term] = m.to
  <2>1. CASE m \in net
    BY <1>4, <2>1 DEF BallotInv
  <2>2. CASE m \in out
    <3>1. /\ m.from = s /\ m.term \in Nat /\ m.type \in Kinds
          /\ Granted(m) => m.term = w.term /\ w.votedFor = m.to /\ m.to \in Server
      BY <1>1, <2>2 DEF Posted
    <3> QED BY <1>1, <1>3, <3>1
  <2> QED BY <2>1, <2>2
<1> QED BY <1>2, <1>5, <1>6 DEF c, BallotInv

\* Perform, for a handler that is known by its outcome.
LEMMA PerformBallot ==
    ASSUME NEW b, BallotInv(node, net, b), NEW s \in Server, NEW r, NEW rest, NEW W,
           rest \subseteq net, Perform(s, r, rest),
           Outcome(node[s], r.n, W), Posted(r.n, r.out),
           \A p \in W : p \in Server /\ b[p][r.n.term] = s
    PROVE  /\ \E k : Keeps(r.n, k) /\ node' = [node EXCEPT ![s] = k]
           /\ BallotInv(node', net', NextBallot(b, s, node'[s]))
<1>1. PICK k, out : /\ Keeps(r.n, k) /\ node' = [node EXCEPT ![s] = k]
                    /\ out \subseteq r.out /\ net' = rest \cup out
  <2>1. Shape(node[s]) /\ Shape(r.n) /\ r.n.id = node[s].id
    BY DEF BallotInv, Outcome
  <2>2. CASE /\ Complete(s, r)
             /\ \E sent \in SUBSET {m \in r.out : m.to \in bounds.up} : net' = rest \cup sent
    <3>1. Keeps(r.n, Forget(AfterUpdate(r.n)))
      BY <2>1, CompleteKeeps
    <3>2. node' = [node EXCEPT ![s] = Forget(AfterUpdate(r.n))]
      BY <2>2 DEF Complete
    <3> QED BY <2>2, <3>1, <3>2
  <2>3. CASE /\ \E d \in Written(node[s], r.n), t \in Timeouts : \E i \in d.snap.index .. d.commit :
                  node' = [node EXCEPT ![s] = Restarted(d, i, t)]
             /\ net' = rest
    <3>1. PICK d \in Written(node[s], r.n), t \in Timeouts :
             \E i \in d.snap.index .. d.commit :
                  node' = [node EXCEPT ![s] = Restarted(d, i, t)]
      BY <2>3
    <3>i. PICK i : node' = [node EXCEPT ![s] = Restarted(d, i, t)]
      BY <3>1
    <3>2. Keeps(r.n, Restarted(d, i, t))
      BY <2>1, CrashKeeps
    <3>3. net' = rest \cup {}
      BY <2>3
    <3> QED BY <3>i, <3>2, <3>3
  <2> QED BY <2>2, <2>3 DEF Perform
<1>2. Posted(r.n, out) /\ net' \subseteq net \cup out
  BY <1>1 DEF Posted
<1>3. BallotInv(node', net', NextBallot(b, s, k))
  BY <1>1, <1>2, StepBallot
<1>4. node'[s] = k
  BY <1>1 DEF BallotInv
<1> QED BY <1>1, <1>3, <1>4

\* The handlers of Propose and ProposeMembership.
LEMMA ProposeOutcome ==
    ASSUME NEW n, Shape(n), NEW t
    PROVE  /\ \A c : LET r == ThenCommit(BroadcastProposal(AppendOwn(n, c)), t)
                     IN  Keeps(n, r.n) /\ Plain(n, r.out)
           /\ \A V : LET r == ThenCommit(JointProposed(n, V), t)
                     IN  Keeps(n, r.n) /\ Plain(n, r.out)
<1>1. \A x : SameBallot(n, x.n) /\ Plain(n, x.out) =>
         Keeps(n, ThenCommit(x, t).n) /\ Plain(n, ThenCommit(x, t).out)
  <2> SUFFICES ASSUME NEW x, SameBallot(n, x.n), Plain(n, x.out)
               PROVE  Keeps(n, ThenCommit(x, t).n) /\ Plain(n, ThenCommit(x, t).out)
    OBVIOUS
  <2>1. Shape(x.n) /\ Plain(x.n, x.out)
    BY DEF SameBallot, Plain
  <2>2. Keeps(x.n, ThenCommit(x, t).n) /\ Plain(x.n, ThenCommit(x, t).out)
    BY <2>1, ThenCommitKeeps
  <2> QED BY <2>2 DEF SameBallot, Keeps, Plain
<1>2. ASSUME NEW c
      PROVE  LET x == BroadcastProposal(AppendOwn(n, c)) IN SameBallot(n, x.n) /\ Plain(n, x.out)
  <2> DEFINE a == AppendOwn(n, c)
  <2>1. SameBallot(n, a)
    BY LocalSame
  <2> HIDE DEF a
  <2>2. SameBallot(a, BroadcastProposal(a).n) /\ Plain(a, BroadcastProposal(a).out)
    BY <2>1, BroadcastSame DEF SameBallot
  <2>3. SameBallot(n, BroadcastProposal(a).n) /\ Plain(n, BroadcastProposal(a).out)
    BY <2>1, <2>2 DEF SameBallot, Plain
  <2> QED BY <2>3 DEF a
<1>3. ASSUME NEW V
      PROVE  SameBallot(n, JointProposed(n, V).n) /\ Plain(n, JointProposed(n, V).out)
  <2> DEFINE a == AppendOwn(n, JointCommand(n.membership.voters, V))
             n1 == RebuildMembership(a)
             new == {p \in UnionVoters(n1.membership) : n1.prog.next[p] = 0}
             n2 == [n1 EXCEPT !.prog.next = Override(@, [p \in new |-> LastIndex(n1)])]
  <2>1. SameBallot(n, a)
    BY LocalSame
  <2>2. SameBallot(n, n1)
    <3> HIDE DEF a
    <3>1. SameBallot(a, n1)
      BY <2>1, LocalSame DEF SameBallot
    <3> QED BY <2>1, <3>1 DEF SameBallot
  <2>3. SameBallot(n, n2)
    <3> HIDE DEF n1
    <3> QED BY <2>2 DEF SameBallot, Shape, Fields
  <2>4. JointProposed(n, V) = BroadcastAppend(n2)
    BY DEF JointProposed
  <2> HIDE DEF n2
  <2>5. SameBallot(n2, BroadcastAppend(n2).n) /\ Plain(n2, BroadcastAppend(n2).out)
    BY <2>3, BroadcastSame DEF SameBallot
  <2> QED BY <2>3, <2>4, <2>5 DEF SameBallot, Plain
<1> QED BY <1>1, <1>2, <1>3

\* A step of the system keeps a table of ballots, and is a step of one server
\* with an outcome.
LEMMA NextBallots ==
    ASSUME NEW b, BallotInv(node, net, b), Next
    PROVE  \E s \in Server : \E w, W, k :
             /\ Outcome(node[s], w, W) /\ Keeps(w, k) /\ node' = [node EXCEPT ![s] = k]
             /\ BallotInv(node', net', NextBallot(b, s, node'[s]))
<1>0. ASSUME NEW s \in Server, NEW r, Perform(s, r, net), Outcome(node[s], r.n, {}), Plain(node[s], r.out)
      PROVE  \E k : /\ Keeps(r.n, k) /\ node' = [node EXCEPT ![s] = k]
                    /\ BallotInv(node', net', NextBallot(b, s, node'[s]))
  <2>1. Posted(r.n, r.out)
    BY <1>0 DEF Plain, Posted, Outcome, Granted
  <2> DEFINE W == {}
  <2>2. net \subseteq net /\ (\A p \in W : p \in Server /\ b[p][r.n.term] = s) /\ Outcome(node[s], r.n, W)
    BY <1>0
  <2> HIDE DEF W
  <2>3. /\ \E k : Keeps(r.n, k) /\ node' = [node EXCEPT ![s] = k]
        /\ BallotInv(node', net', NextBallot(b, s, node'[s]))
    BY <1>0, <2>1, <2>2, PerformBallot, Zenon
  <2> QED BY <2>3
<1>1. ASSUME NEW s \in Server, Tick(s)
      PROVE  \E w, k : /\ Outcome(node[s], w, {}) /\ Keeps(w, k) /\ node' = [node EXCEPT ![s] = k]
                       /\ BallotInv(node', net', NextBallot(b, s, node'[s]))
  <2>1. PICK t \in Timeouts : Perform(s, TickNode(node[s], t), net)
    BY <1>1 DEF Tick
  <2>2. Shape(node[s])
    BY DEF BallotInv
  <2>3. Outcome(node[s], TickNode(node[s], t).n, {}) /\ Plain(node[s], TickNode(node[s], t).out)
    BY <2>2, TickOutcome
  <2> QED BY <2>1, <2>3, <1>0
<1>2. ASSUME NEW s \in Server, NEW c, Propose(s, c)
      PROVE  \E w, k : /\ Outcome(node[s], w, {}) /\ Keeps(w, k) /\ node' = [node EXCEPT ![s] = k]
                       /\ BallotInv(node', net', NextBallot(b, s, node'[s]))
  <2>1. PICK t \in Timeouts : Perform(s, ThenCommit(BroadcastProposal(AppendOwn(node[s], c)), t), net)
    BY <1>2 DEF Propose
  <2> DEFINE r == ThenCommit(BroadcastProposal(AppendOwn(node[s], c)), t)
  <2>2. Shape(node[s])
    BY DEF BallotInv
  <2>3. Keeps(node[s], r.n) /\ Plain(node[s], r.out)
    BY <2>2, ProposeOutcome
  <2> HIDE DEF r
  <2>4. Outcome(node[s], r.n, {})
    BY <2>2, <2>3, KeepsOutcome
  <2> QED BY <2>1, <2>3, <2>4, <1>0 DEF r
<1>3. ASSUME NEW s \in Server, NEW V, ProposeMembership(s, V)
      PROVE  \E w, k : /\ Outcome(node[s], w, {}) /\ Keeps(w, k) /\ node' = [node EXCEPT ![s] = k]
                       /\ BallotInv(node', net', NextBallot(b, s, node'[s]))
  <2>1. PICK t \in Timeouts : Perform(s, ThenCommit(JointProposed(node[s], V), t), net)
    BY <1>3 DEF ProposeMembership
  <2> DEFINE r == ThenCommit(JointProposed(node[s], V), t)
  <2>2. Shape(node[s])
    BY DEF BallotInv
  <2>3. Keeps(node[s], r.n) /\ Plain(node[s], r.out)
    BY <2>2, ProposeOutcome
  <2> HIDE DEF r
  <2>4. Outcome(node[s], r.n, {})
    BY <2>2, <2>3, KeepsOutcome
  <2> QED BY <2>1, <2>3, <2>4, <1>0 DEF r
<1>4. ASSUME NEW m \in net, Receive(m)
      PROVE  \E w, W, k : /\ Outcome(node[m.to], w, W) /\ Keeps(w, k)
                          /\ node' = [node EXCEPT ![m.to] = k]
                          /\ BallotInv(node', net', NextBallot(b, m.to, node'[m.to]))
  <2>1. PICK t \in Timeouts, rest \in {net, net \ {m}} :
              Perform(m.to, Step(node[m.to], m, t), rest)
    BY <1>4 DEF Receive
  <2>2. /\ m.to \in Server /\ Shape(node[m.to]) /\ m.from \in Server /\ m.type \in Kinds
        /\ m.term \in Nat
    BY <1>4 DEF Receive, BallotInv
  <2> DEFINE r == Step(node[m.to], m, t)
  <2>3. Outcome(node[m.to], r.n, Brings(m, r.n)) /\ Posted(r.n, r.out)
    BY <2>2, StepOutcome
  <2> HIDE DEF r
  <2>4. \A p \in Brings(m, r.n) : p \in Server /\ b[p][r.n.term] = m.to
    BY <2>2 DEF Brings, BallotInv
  <2>5. rest \subseteq net
    BY <2>1
  <2>6. Perform(m.to, r, rest)
    BY <2>1 DEF r
  <2>7. /\ \E k : Keeps(r.n, k) /\ node' = [node EXCEPT ![m.to] = k]
        /\ BallotInv(node', net', NextBallot(b, m.to, node'[m.to]))
    BY <2>2, <2>3, <2>4, <2>5, <2>6, PerformBallot, Zenon
  <2> QED BY <2>3, <2>7
<1>5. \A m \in net : Receive(m) => m.to \in Server
  BY DEF Receive
<1> QED BY <1>1, <1>2, <1>3, <1>4, <1>5 DEF Next

LEMMA InitBallots ==
    ASSUME Init
    PROVE  BallotInv(node, net, [s \in Server |-> [T \in Nat |-> Nil]])
<1> DEFINE b == [s \in Server |-> [T \in Nat |-> Nil]]
<1>1. PICK t \in [Server -> Timeouts] : node = [s \in Server |-> NewNode(s, t[s])]
  BY DEF Init
<1>2. ASSUME NEW s \in Server
      PROVE  /\ Shape(node[s]) /\ node[s].id = s /\ node[s].term = 0 /\ node[s].votedFor = Nil
             /\ node[s].role = "follower"
  BY <1>1 DEF NewNode, Shape, Fields, Roles, NoVotes
<1>3. DOMAIN node = Server /\ net = {}
  BY <1>1 DEF Init
<1>4. b \in [Server -> [Nat -> Server \cup {Nil}]]
  OBVIOUS
<1> QED BY <1>2, <1>3, <1>4 DEF BallotInv, Tallies

-----------------------------------------------------------------------------

\* Votes are of ballots that were cast.
VotesCast == \E b : BallotInv(node, net, b)

\* No vote is counted twice in a term: what a voter gave to one candidate, no
\* other candidate or leader of that term has in its tally.
VotesExclusive ==
    \A s, p, v \in Server :
        /\ Tallies(node[s]) /\ Tallies(node[p]) /\ node[s].term = node[p].term
        /\ node[s].votes[v] = "yes" /\ node[p].votes[v] = "yes"
        => s = p

LEMMA SpecVotesCast == Spec => []VotesCast
<1>1. Init => VotesCast
  BY InitBallots DEF VotesCast
<1>2. VotesCast /\ [Next]_vars => VotesCast'
  <2> SUFFICES ASSUME VotesCast, [Next]_vars PROVE VotesCast'
    OBVIOUS
  <2>1. PICK b : BallotInv(node, net, b)
    BY DEF VotesCast
  <2>2. CASE Next
    BY <2>1, <2>2, NextBallots DEF VotesCast
  <2>3. CASE UNCHANGED vars
    BY <2>1, <2>3 DEF vars, VotesCast
  <2> QED BY <2>2, <2>3
<1> QED BY <1>1, <1>2, PTL DEF Spec

\* Whatever the membership and its changes: the votes that candidates and
\* leaders count are each of one voter's one ballot of that term (handleVote,
\* handleVoteResponse, Persist before Send).
THEOREM VotesAreExclusive == Spec => []VotesExclusive
<1>1. VotesCast => VotesExclusive
  BY DEF VotesCast, VotesExclusive, BallotInv
<1> QED BY <1>1, SpecVotesCast, PTL

\* Whatever the membership and its changes, and wherever Persist is cut off:
\* the term of a server never falls and its vote of a term never changes
\* (becomeFollower, handleVote, startElection, New).
THEOREM VotesOnce == Spec => OneVotePerTerm
<1>1. VotesCast /\ [Next]_vars =>
        [\A s \in Server :
           /\ node'[s].term >= node[s].term
           /\ node'[s].term = node[s].term /\ node[s].votedFor # Nil
                => node'[s].votedFor = node[s].votedFor]_vars
  <2> SUFFICES ASSUME VotesCast, Next, NEW s \in Server
               PROVE  /\ node'[s].term >= node[s].term
                      /\ node'[s].term = node[s].term /\ node[s].votedFor # Nil
                           => node'[s].votedFor = node[s].votedFor
    OBVIOUS
  <2>1. PICK b : BallotInv(node, net, b)
    BY DEF VotesCast
  <2>q. PICK q \in Server : \E w, W, k :
             Outcome(node[q], w, W) /\ Keeps(w, k) /\ node' = [node EXCEPT ![q] = k]
    BY <2>1, NextBallots
  <2>2. PICK w, W, k : Outcome(node[q], w, W) /\ Keeps(w, k) /\ node' = [node EXCEPT ![q] = k]
    BY <2>q
  <2>3. DOMAIN node = Server /\ node[s].term \in Nat
    BY <2>1 DEF BallotInv, Shape
  <2>4. CASE s # q
    BY <2>2, <2>3, <2>4
  <2>5. CASE s = q
    BY <2>2, <2>3, <2>5 DEF Outcome, Keeps
  <2> QED BY <2>4, <2>5
<1> QED BY <1>1, SpecVotesCast, PTL DEF Spec, OneVotePerTerm
=============================================================================
