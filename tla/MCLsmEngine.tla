---------------------------- MODULE MCLsmEngine ----------------------------
(***************************************************************************)
(* LsmEngine on small instances, from an empty directory or from one that  *)
(* a version without LastSeq left behind.  That version numbered writes    *)
(* from 1 again after a flush and a reopen, so the WAL may reuse the       *)
(* numbers of the SSTable.                                                 *)
(***************************************************************************)
EXTENDS LsmEngine, TLC

Symmetry == Permutations(Keys) \cup Permutations(Values)

LegacyDirectory(a, b, v) ==
    /\ ClosedInit
    /\ files = [n \in FileNum |-> IF n = 1 THEN Whole({Rec(b, 1, v), Rec(a, 2, v)}) ELSE Absent]

Version1 == [version |-> 1, ssts |-> <<1>>, next |-> 1, lastSeq |-> 0]

Reusing(a) ==
    {<<Frame(Rec(a, 1, Tombstone))>>} \cup
    {<<Frame(Rec(a, 1, Tombstone)), Frame(Rec(a, 2, w))>> : w \in Values}
Continuing(a) == {<<>>, <<Frame(Rec(a, 3, Tombstone))>>}

LegacyInit ==
    \E a, b \in Keys, v \in Values :
        /\ a # b
        /\ LegacyDirectory(a, b, v)
        /\ \/ manifest = Version1 /\ wal \in Reusing(a) \cup Continuing(a)
           \/ manifest = NoManifest /\ wal \in Continuing(a)

LegacySpec == (Init \/ LegacyInit) /\ [][Next]_vars

\* Before manifests, with a WAL that has to be renumbered.
PreManifestInit ==
    \E a, b \in Keys, v \in Values :
        /\ a # b
        /\ LegacyDirectory(a, b, v)
        /\ manifest = NoManifest /\ wal \in Reusing(a)

PreManifestSpec == PreManifestInit /\ [][Next]_vars
=============================================================================
