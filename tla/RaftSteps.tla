----------------------------- MODULE RaftSteps ------------------------------
(***************************************************************************)
(* What one event may do to the ballot of a server of Raft, in the terms   *)
(* its proofs reason with.  The ballot of a node is its term, vote, role   *)
(* and tally: Outcome says what may become of it, and Posted which votes   *)
(* are sent.  RaftBallotProofs shows that every handler of Raft does no    *)
(* more than this.                                                         *)
(***************************************************************************)
EXTENDS RaftNode

-----------------------------------------------------------------------------
(* The ballot of a node.                                                    *)

Fields == {"id", "role", "term", "votedFor", "leader", "snap", "log", "commit",
           "membership", "votes", "elapsed", "timeout", "prog"}

\* What the ballots of a node need of its record.
Shape(n) ==
    /\ DOMAIN n = Fields
    /\ n.id \in Server /\ n.role \in Roles /\ n.term \in Nat
    /\ n.votedFor \in Server \cup {Nil}
    /\ n.votes \in [Server -> {"none", "yes", "no"}]

\* The tally of a candidate, and of the leader it became, is of votes.
Tallies(n) == n.role \in {"candidate", "leader"}

Granted(m) == m.type = "VoteResponse" /\ ~m.reject

SameBallot(n, k) ==
    /\ Shape(k) /\ k.id = n.id /\ k.term = n.term /\ k.votedFor = n.votedFor
    /\ k.role = n.role /\ k.votes = n.votes

\* The same ballot, or the node gave up its role.
Keeps(n, k) ==
    /\ Shape(k) /\ k.id = n.id /\ k.term = n.term /\ k.votedFor = n.votedFor
    /\ k.role = "follower" \/ (k.role = n.role /\ k.votes = n.votes)

\* What any handler may make of the ballot of n, when W are the voters whose
\* granted vote it was given.
Outcome(n, k, W) ==
    /\ Shape(k) /\ k.id = n.id /\ k.term >= n.term
    /\ k.term = n.term /\ n.votedFor # Nil => k.votedFor = n.votedFor
    /\ Tallies(k) =>
         \A p \in Server : k.votes[p] = "yes" =>
             \/ p = k.id /\ k.votedFor = k.id
             \/ Tallies(n) /\ n.term = k.term /\ n.votes[p] = "yes"
             \/ p \in W
    /\ k.role = "leader" =>
         \/ n.role = "leader" /\ n.term = k.term /\ k.votes = n.votes
         \/ HasQuorum(n.membership, VotesOf(k, "yes"))

\* The messages out of node k carry no vote, or its own.
Kinds == {"PreVote", "PreVoteResponse", "Vote", "VoteResponse", "Append", "AppendResponse",
          "Snapshot", "SnapshotResponse"}

Plain(k, out) ==
    \A x \in out : x.from = k.id /\ x.term \in Nat /\ x.type \in Kinds \ {"VoteResponse"}

Posted(k, out) ==
    \A x \in out : /\ x.from = k.id /\ x.term \in Nat /\ x.type \in Kinds
                   /\ Granted(x) => x.term = k.term /\ k.votedFor = x.to /\ x.to \in Server

\* The voters whose vote of the term of k a message brings.
Brings(m, k) == {p \in {m.from} : Granted(m) /\ m.term = k.term}

\* ballot[s][T] is the vote of s in term T, Nil while there is none: a node
\* knows its own of its current term, a granted VoteResponse is one, and so
\* is every vote in the tally of a candidate or leader.
BallotInv(nodes, msgs, ballot) ==
    /\ ballot \in [Server -> [Nat -> Server \cup {Nil}]]
    /\ DOMAIN nodes = Server
    /\ \A s \in Server :
         /\ Shape(nodes[s]) /\ nodes[s].id = s
         /\ ballot[s][nodes[s].term] = nodes[s].votedFor
         /\ \A T \in Nat : T > nodes[s].term => ballot[s][T] = Nil
         /\ Tallies(nodes[s]) =>
              \A p \in Server : nodes[s].votes[p] = "yes" => ballot[p][nodes[s].term] = s
    /\ \A m \in msgs :
         /\ m.from \in Server /\ m.term \in Nat /\ m.type \in Kinds
         /\ Granted(m) => m.to \in Server /\ ballot[m.from][m.term] = m.to

\* The ballots after server s has become k.
NextBallot(ballot, s, k) == [ballot EXCEPT ![s] = [@ EXCEPT ![k.term] = k.votedFor]]
=============================================================================
