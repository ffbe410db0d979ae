----------------------------- MODULE LsmTables -----------------------------
(***************************************************************************)
(* The data of the storage engine: records, memtables, SSTables, and what  *)
(* Get, Scan and compaction compute from them.                             *)
(*                                                                         *)
(* A record is a key, the sequence number it was written with, and a value *)
(* or Tombstone.  A memtable (internal/memtable) and the contents of an    *)
(* SSTable (internal/sstable) are both a set of records with at most one   *)
(* record per key.  Sorting, the sparse index, the bloom filter and the    *)
(* byte layout of a file do not change which record a lookup finds, and    *)
(* are left out here.                                                      *)
(***************************************************************************)
EXTENDS Integers, FiniteSets, Sequences

CONSTANTS Keys, Values, Tombstone

Contents == Values \cup {Tombstone}

Record == [key : Keys, seq : Nat, val : Contents]

\* Set and Delete build this record.
Rec(k, n, v) == [key |-> k, seq |-> n, val |-> v]

KeysOf(T) == {r.key : r \in T}

\* The largest number in the finite set S of naturals, or 0.
MaxOr0(S) == IF S = {} THEN 0 ELSE CHOOSE n \in S : \A m \in S : m <= n

SeqsOf(T) == {r.seq : r \in T}

\* MemTable.SetRaw: a record replaces its key's record only if it is newer.
SetRaw(T, r) ==
    IF \E s \in T : s.key = r.key /\ s.seq >= r.seq
    THEN T
    ELSE {s \in T : s.key # r.key} \cup {r}

\* The records of S that no record of the same key in S is newer than: what
\* is left in a memtable after SetRaw of each record of S, in any order.
Winners(S) == {r \in S : \A s \in S : s.key = r.key => s.seq <= r.seq}

\* The k-way merge of a full compaction: the newest record of each key, and
\* no tombstones (isBottomLevel is always true).
Compact(tables) == {r \in Winners(UNION tables) : r.val # Tombstone}

\* The value of k in table T; Tombstone also stands for "not found".
ValueIn(T, k) ==
    IF k \in KeysOf(T) THEN (CHOOSE r \in T : r.key = k).val ELSE Tombstone

\* DB.Get: the memtable, then the SSTables newest first; the first table that
\* has the key answers, and a tombstone answers "not found".
Get(sources, k) ==
    LET hits == {i \in DOMAIN sources : k \in KeysOf(sources[i])}
    IN  IF hits = {}
        THEN Tombstone
        ELSE ValueIn(sources[CHOOSE i \in hits : \A j \in hits : i <= j], k)

\* DB.Scan: all tables are merged and the highest sequence number wins.
Scan(sources, k) ==
    ValueIn(Winners(UNION {sources[i] : i \in DOMAIN sources}), k)
=============================================================================
