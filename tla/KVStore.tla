------------------------------ MODULE KVStore ------------------------------
(***************************************************************************)
(* What the embedded database promises, with none of its machinery.        *)
(*                                                                         *)
(* history is the sequence of contents the database has gone through since *)
(* its last checkpoint; the last one is what a reader sees.  A write adds  *)
(* one contents.  A process crash loses nothing, so it is not an action.   *)
(* A power failure falls back to an earlier contents, but never to one     *)
(* before the last checkpoint, and never to a mixture of two.              *)
(***************************************************************************)
EXTENDS Naturals, Sequences

CONSTANTS Keys, Values, Tombstone

VARIABLE history

Current == history[Len(history)]

\* What an earlier process left, of which the last writes may not be safe.
Init == history \in Seq([Keys -> Values \cup {Tombstone}]) /\ history # <<>>

\* Set (v in Values) or Delete (v = Tombstone).
Write ==
    /\ Len(history') = Len(history) + 1
    /\ \E k \in Keys, v \in Values \cup {Tombstone} :
         history' = Append(history, [Current EXCEPT ![k] = v])

\* A flush makes the current contents safe from a power failure.
Checkpoint == history' = <<Current>>

\* What a power failure leaves is on stable storage.
PowerLoss == \E n \in DOMAIN history : history' = <<history[n]>>

Next == Write \/ Checkpoint \/ PowerLoss

Spec == Init /\ [][Next]_history
=============================================================================
