------------------------------ MODULE RaftNode ------------------------------
(***************************************************************************)
(* What the consensus core of internal/raft reads off one Node: its log,   *)
(* which is a snapshot and the entries after it, and the votes it holds.   *)
(* An entry's index is its place; image is the sequence of entries the     *)
(* snapshot stands for.                                                    *)
(***************************************************************************)
EXTENDS Membership, Sequences

CONSTANTS
    Server, Nil, Noop, Command,
    Voters                        \* the bootstrap voter set

ASSUME ServerAssumption ==
    /\ IsFiniteSet(Server) /\ Nil \notin Server
    /\ Voters \subseteq Server /\ Voters # {}

Roles == {"follower", "precandidate", "candidate", "leader"}

LastIndex(n) == n.snap.index + Len(n.log)

TermAt(n, i) ==
    CASE i = n.snap.index -> n.snap.term
      [] i > n.snap.index /\ i <= LastIndex(n) -> n.log[i - n.snap.index].term
      [] OTHER -> 0

LastTerm(n) == TermAt(n, LastIndex(n))

IsUpToDate(n, index, term) ==
    \/ term > LastTerm(n)
    \/ term = LastTerm(n) /\ index >= LastIndex(n)

\* What a server has of the replicated log.
History(n) == n.snap.image \o n.log

VotesOf(n, v) == {p \in Server : n.votes[p] = v}
=============================================================================
