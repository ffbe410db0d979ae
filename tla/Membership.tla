----------------------------- MODULE Membership -----------------------------
(***************************************************************************)
(* Voter configurations of internal/raft: stable and joint memberships,    *)
(* their quorums, and the two log entries that lead from one to the next.  *)
(*                                                                         *)
(* A voter list is sorted and has no duplicates once normalizeVoters has   *)
(* accepted it, so it is a set here; an empty joint set means stable.  A   *)
(* configuration entry is [phase, old, new]; every other entry's data is   *)
(* not a record.  A definition Name_Fault is Name with a plausible fault,  *)
(* kept to show that the properties notice it.                             *)
(***************************************************************************)
EXTENDS Naturals, FiniteSets

Stable(V) == [voters |-> V, joint |-> {}, index |-> 0]

\* What the Go functions return with an error: no membership at all.
Invalid == [voters |-> {}, joint |-> {}, index |-> 0]

Majority(V) == Cardinality(V) \div 2 + 1

HasSetQuorum(V, S) == Cardinality(V \cap S) >= Majority(V)

\* S acknowledged: a majority of the voters, and of the joint voters if any.
HasQuorum_Either(m, S) == HasSetQuorum(m.voters, S) \/ HasSetQuorum(m.joint, S)
HasQuorum(m, S) ==
    /\ HasSetQuorum(m.voters, S)
    /\ m.joint = {} \/ HasSetQuorum(m.joint, S)

\* S rejected: either side can no longer reach its majority.
VoteLost(m, S) ==
    \/ HasSetQuorum(m.voters, S)
    \/ m.joint # {} /\ HasSetQuorum(m.joint, S)

UnionVoters(m) == m.voters \cup m.joint

JointCommand(old, new) == [phase |-> "joint", old |-> old, new |-> new]
FinalCommand(new) == [phase |-> "final", old |-> {}, new |-> new]

\* The entry at index i on top of m; Invalid if it does not follow from m.
ApplyMembership(m, c, i) ==
    IF c.phase = "joint"
    THEN IF m.joint # {} \/ m.voters # c.old THEN Invalid
         ELSE [voters |-> c.old, joint |-> c.new, index |-> i]
    ELSE IF m.joint = {} \/ m.joint # c.new THEN Invalid
         ELSE [voters |-> c.new, joint |-> {}, index |-> i]
=============================================================================
