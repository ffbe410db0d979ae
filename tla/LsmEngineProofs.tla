-------------------------- MODULE LsmEngineProofs --------------------------
(***************************************************************************)
(* Proofs that the layers of LsmEngine stay ordered, that its numbers only *)
(* move forward and that its directory always opens again, for any keys,   *)
(* values, thresholds and bounds, starting from an empty directory.        *)
(***************************************************************************)
EXTENDS LsmEngineTypeProofs

-----------------------------------------------------------------------------
(* The inductive invariant.                                                 *)

\* The published SSTables are complete, numbered up to NextSST, hold numbers
\* up to LastSeq, and newer ones hold higher numbers.
PublishedTables ==
    /\ \A i \in DOMAIN manifest.ssts :
         /\ manifest.ssts[i] <= manifest.next
         /\ files[manifest.ssts[i]].status = "whole"
         /\ \A r \in files[manifest.ssts[i]].recs : r.seq <= manifest.lastSeq
    /\ \A i, j \in DOMAIN manifest.ssts : i < j =>
         \A r \in files[manifest.ssts[i]].recs, s \in files[manifest.ssts[j]].recs : r.seq < s.seq

\* The open DB agrees with the published manifest, its memtable is above it,
\* and a file being written is none of the published ones.
OpenState ==
    /\ cur.ssts = manifest.ssts /\ cur.next = manifest.next /\ cur.lastSeq = manifest.lastSeq
    /\ readers = Newest1st(manifest.ssts)
    /\ pc \in {"publish", "swap"} => nextSST > manifest.next
    /\ nextSST >= manifest.next
    /\ manifest.lastSeq < nextSeq
    /\ \A r \in mem : manifest.lastSeq < r.seq /\ r.seq < nextSeq
    /\ pc = "publish" => files[nextSST] = Whole(mem)
    /\ pc = "swap" /\ CompactOut # {} => files[nextSST] = Whole(CompactOut)
    /\ \A n \in obsolete : n \notin ElementsOf(manifest.ssts)
    /\ obsolete # {} => pc = "remove"

EngineInv ==
    /\ TypeInv
    /\ PublishedTables
    /\ pc # "closed" => OpenState

-----------------------------------------------------------------------------
(* The published SSTables and the layers.                                   *)

\* The types the arithmetic below needs.
LEMMA InvTypes ==
    ASSUME TypeInv
    PROVE  /\ manifest.ssts \in Seq(FileNum) /\ manifest.next \in Nat /\ manifest.lastSeq \in Nat
           /\ files \in [FileNum -> FileState]
           /\ nextSeq \in Nat /\ nextSST \in Nat /\ nextSST \in 0 .. MaxFile
           /\ readers \in Seq(FileNum) /\ obsolete \in SUBSET FileNum
           /\ \A n \in FileNum : n \in Nat
           /\ \A i \in DOMAIN manifest.ssts : manifest.ssts[i] \in FileNum
           /\ \A r \in mem : r.seq \in Nat
           /\ \A n \in FileNum : \A r \in files[n].recs : r.seq \in Nat
<1>1. manifest \in Manifest /\ files \in [FileNum -> FileState] /\ nextSeq \in Nat
      /\ nextSST \in 0 .. MaxFile /\ readers \in Seq(FileNum) /\ obsolete \in SUBSET FileNum
      /\ mem \in SUBSET Record
  BY DEF TypeInv, TypeOK
<1>2. manifest.ssts \in Seq(FileNum) /\ manifest.next \in 0 .. MaxFile /\ manifest.lastSeq \in Nat
  BY <1>1 DEF Manifest
<1>3. \A i \in DOMAIN manifest.ssts : manifest.ssts[i] \in FileNum
  BY <1>2
<1>4. \A r \in Record : r.seq \in Nat
  BY DEF Record
<1>5. \A n \in FileNum : files[n].recs \in SUBSET Record
  BY <1>1 DEF FileState
<1>6. \A n \in FileNum : n \in Nat
  BY DEF FileNum
<1>7. nextSST \in Nat /\ manifest.next \in Nat
  BY <1>1, <1>2, EngineAssumption
<1> QED
  BY <1>1, <1>2, <1>3, <1>4, <1>5, <1>6, <1>7

\* The published SSTables are untouched by a step that keeps the manifest
\* and only writes to a file with a number above NextSST.
LEMMA PublishedKept ==
    ASSUME TypeInv, PublishedTables, UNCHANGED manifest,
           \A n \in FileNum : n <= manifest.next => files'[n] = files[n]
    PROVE  /\ PublishedTables'
           /\ TablesOf(manifest.ssts)' = TablesOf(manifest.ssts)
<1>1. \A i \in DOMAIN manifest.ssts : files'[manifest.ssts[i]] = files[manifest.ssts[i]]
  BY InvTypes DEF PublishedTables
<1>2. PublishedTables'
  BY <1>1 DEF PublishedTables
<1>3. TablesOf(manifest.ssts)' = TablesOf(manifest.ssts)
  BY <1>1 DEF TablesOf
<1> QED
  BY <1>2, <1>3

\* The readers are the published SSTables, newest first.
LEMMA ReadersArePublished ==
    ASSUME TypeInv, OpenState
    PROVE  /\ DOMAIN readers = DOMAIN manifest.ssts
           /\ \A i \in DOMAIN readers : readers[i] = manifest.ssts[Len(manifest.ssts) + 1 - i]
           /\ ElementsOf(readers) = ElementsOf(manifest.ssts)
<1>1. manifest.ssts \in Seq(FileNum)
  BY DEF TypeInv, TypeOK, Manifest
<1>2. /\ DOMAIN readers = 1 .. Len(manifest.ssts)
      /\ DOMAIN manifest.ssts = 1 .. Len(manifest.ssts)
      /\ \A i \in DOMAIN readers : readers[i] = manifest.ssts[Len(manifest.ssts) + 1 - i]
  BY <1>1 DEF OpenState, Newest1st
<1>3. ElementsOf(readers) \subseteq ElementsOf(manifest.ssts)
  <2>1. Len(manifest.ssts) \in Nat
    BY <1>1
  <2>2. \A i \in 1 .. Len(manifest.ssts) : Len(manifest.ssts) + 1 - i \in 1 .. Len(manifest.ssts)
    BY <2>1
  <2> QED
    BY <1>2, <2>2 DEF ElementsOf
<1>4. ASSUME NEW j \in DOMAIN manifest.ssts
      PROVE  manifest.ssts[j] \in ElementsOf(readers)
  <2>1. Len(manifest.ssts) + 1 - j \in DOMAIN readers
    BY <1>1, <1>2
  <2>2. readers[Len(manifest.ssts) + 1 - j] = manifest.ssts[j]
    BY <1>1, <1>2, <2>1
  <2> QED
    BY <2>1, <2>2 DEF ElementsOf
<1>5. ElementsOf(manifest.ssts) \subseteq ElementsOf(readers)
  BY <1>4 DEF ElementsOf
<1> QED
  BY <1>2, <1>3, <1>5

\* A compaction keeps no record that was not in a published SSTable.
LEMMA CompactOutPublished ==
    ASSUME TypeInv, PublishedTables, OpenState
    PROVE  \A r \in CompactOut : r.seq <= manifest.lastSeq
<1>1. \A n \in ElementsOf(manifest.ssts) : \A r \in files[n].recs : r.seq <= manifest.lastSeq
  BY DEF PublishedTables, ElementsOf
<1>2. \A r \in CompactOut : \E i \in DOMAIN readers : r \in files[readers[i]].recs
  BY DEF CompactOut, Compact, Winners, ElementsOf, TablesOf
<1>3. \A i \in DOMAIN readers : readers[i] \in ElementsOf(manifest.ssts)
  BY ReadersArePublished DEF ElementsOf
<1> QED
  BY <1>1, <1>2, <1>3

LEMMA InitEngineInv == Init => EngineInv
<1> SUFFICES ASSUME Init
             PROVE  EngineInv
  OBVIOUS
<1>1. manifest.ssts = <<>> /\ pc = "closed"
  BY DEF Init, ClosedInit, NoManifest
<1>2. PublishedTables
  BY <1>1 DEF PublishedTables
<1> QED
  BY <1>1, <1>2, InitTypeInv DEF EngineInv

LEMMA OpenEngineInv ==
    ASSUME EngineInv, Open
    PROVE  PublishedTables' /\ OpenState'
<1>1. PICK S \in ReadAll(wal) :
        /\ mem' = Winners(SequenceWAL(S))
        /\ nextSeq' = 1 + Max2(LastSeq, MaxOr0(SeqsOf(SequenceWAL(S))))
        /\ cur' = [Found EXCEPT !.lastSeq = LastSeq]
        /\ pc' = IF ~Legacy THEN "ready" ELSE IF Reused(S) THEN "flush" ELSE "upgrade"
  BY DEF Open
<1>2. /\ SequenceWAL(S) \in SUBSET Record
      /\ \A r \in SequenceWAL(S) : LastSeq < r.seq /\ r.seq <= MaxSeq
      /\ LastSeq = manifest.lastSeq
      /\ Found.ssts = manifest.ssts /\ Found.next = manifest.next
      /\ Found \in Manifest
      /\ ~Reused(S)
  <2>1. NoManifest \in Manifest
    BY EngineAssumption DEF NoManifest, Manifest
  <2> QED
    BY <2>1, OpenReplay DEF Open, EngineInv, TypeInv, TypeOK
<1>3. PublishedTables'
  BY PublishedKept DEF Open, EngineInv
<1>4. cur'.ssts = manifest.ssts /\ cur'.next = manifest.next /\ cur'.lastSeq = manifest.lastSeq
  BY <1>1, <1>2 DEF Manifest
<1>5. \A r \in mem' : manifest.lastSeq < r.seq /\ r.seq < nextSeq'
  <2>1. SeqsOf(SequenceWAL(S)) \in SUBSET (0 .. MaxSeq)
    BY <1>2, EngineAssumption DEF SeqsOf, Record
  <2>2. /\ MaxOr0(SeqsOf(SequenceWAL(S))) \in Nat
        /\ \A m \in SeqsOf(SequenceWAL(S)) : m <= MaxOr0(SeqsOf(SequenceWAL(S)))
    BY <2>1, EngineAssumption, MaxOr0Max
  <2>3. \A r \in mem' : r \in SequenceWAL(S) /\ r.seq \in SeqsOf(SequenceWAL(S)) /\ r.seq \in Nat
    BY <1>1, <1>2 DEF Winners, SeqsOf, Record
  <2>4. manifest.lastSeq \in Nat
    BY DEF EngineInv, TypeInv, TypeOK, Manifest
  <2> QED
    BY <1>1, <1>2, <2>2, <2>3, <2>4 DEF Max2
<1>6. manifest.lastSeq < nextSeq'
  <2>1. SeqsOf(SequenceWAL(S)) \in SUBSET (0 .. MaxSeq)
    BY <1>2, EngineAssumption DEF SeqsOf, Record
  <2>2. MaxOr0(SeqsOf(SequenceWAL(S))) \in Nat
    BY <2>1, EngineAssumption, MaxOr0Max
  <2> QED
    BY <1>1, <1>2, <2>2 DEF Max2, EngineInv, TypeInv, TypeOK, Manifest
<1>7. pc' \notin {"publish", "swap"}
  BY <1>1, <1>2
<1>8. UNCHANGED manifest /\ readers' = Newest1st(manifest.ssts) /\ nextSST' = manifest.next /\ obsolete' = {}
  BY <1>2 DEF Open
<1>9. manifest.next \in Nat
  BY DEF EngineInv, TypeInv, TypeOK, Manifest
<1> QED
  BY <1>3, <1>4, <1>5, <1>6, <1>7, <1>8, <1>9 DEF OpenState

\* A step that leaves the manifest, the readers and the layers alone, back
\* to or still in a state where no file is being written.
LEMMA OpenStateKept ==
    ASSUME TypeInv, OpenState, UNCHANGED <<manifest, readers, mem, cur>>,
           nextSeq' \in Nat, nextSeq' >= nextSeq,
           nextSST' \in Nat, nextSST' >= manifest.next, obsolete' \in SUBSET obsolete,
           obsolete' # {} => pc' = "remove", pc' \notin {"publish", "swap"}
    PROVE  OpenState'
<1>1. \A r \in mem : r.seq \in Nat
  BY DEF TypeInv, TypeOK, Record
<1>2. nextSeq \in Nat /\ manifest.lastSeq \in Nat /\ manifest.next \in Nat
  BY DEF TypeInv, TypeOK, Manifest
<1> QED
  BY <1>1, <1>2 DEF OpenState, ElementsOf

\* The facts of OpenState that say where the next SSTable number stands.
LEMMA OpenNumbers ==
    ASSUME TypeInv, OpenState
    PROVE  /\ pc \in {"publish", "swap"} =>
                nextSST > manifest.next /\ nextSST - 1 >= manifest.next /\ nextSST - 1 \in Nat
           /\ nextSST >= manifest.next
           /\ obsolete # {} => pc = "remove"
<1>1. /\ pc \in {"publish", "swap"} => nextSST > manifest.next
      /\ nextSST >= manifest.next
      /\ obsolete # {} => pc = "remove"
  BY DEF OpenState
<1>2. manifest.next \in Nat /\ nextSST \in Nat
  BY InvTypes
<1> QED
  BY <1>1, <1>2

\* An operation that failed returns with nextSST stepped back, but never
\* below NextSST.
LEMMA FailedKeepsOpenState ==
    ASSUME TypeInv, OpenState, UNCHANGED manifest,
           pc \notin {"upgrade", "remove"}, NEW n \in Nat, n >= manifest.next, Failed(n)
    PROVE  OpenState'
<1>1. /\ pc' = "ready" /\ nextSST' = n
      /\ UNCHANGED <<mem, nextSeq, readers, cur, obsolete>>
  BY FailedReturns
<1>2. obsolete = {} /\ nextSeq \in Nat
  BY OpenNumbers, InvTypes
<1> QED
  BY <1>1, <1>2, OpenStateKept

LEMMA WriteEngineInv ==
    ASSUME EngineInv, NEW k \in Keys, NEW v \in Contents, Write(k, v)
    PROVE  PublishedTables' /\ OpenState'
<1> DEFINE r == Rec(k, nextSeq, v)
<1>1. /\ mem' = SetRaw(mem, r) /\ nextSeq' = nextSeq + 1 /\ pc' \in {"flush", "ready"}
      /\ UNCHANGED <<files, manifest, readers, cur, nextSST, obsolete>>
  BY DEF Write
<1>2. r.seq = nextSeq
  BY DEF Rec
<1>3. OpenState /\ pc = "ready"
  BY DEF EngineInv, Write
<1>4. PublishedTables'
  BY <1>1, PublishedKept DEF EngineInv
<1>5. \A s \in mem' : s \in mem \/ s = r
  BY <1>1 DEF SetRaw
<1>6. /\ nextSeq \in Nat /\ manifest.lastSeq \in Nat
      /\ \A s \in mem : s.seq \in Nat
  BY DEF EngineInv, TypeInv, TypeOK, Manifest, Record
<1>7. \A s \in mem' : manifest.lastSeq < s.seq /\ s.seq < nextSeq'
  <2>1. manifest.lastSeq < nextSeq /\ \A s \in mem : manifest.lastSeq < s.seq /\ s.seq < nextSeq
    BY <1>3 DEF OpenState
  <2> QED
    BY <1>1, <1>2, <1>5, <1>6, <2>1
<1>8. manifest.lastSeq < nextSeq'
  BY <1>1, <1>3, <1>6 DEF OpenState
<1> QED
  BY <1>1, <1>3, <1>4, <1>7, <1>8 DEF OpenState

\* publish: the new SSTable goes on top of the published ones.
LEMMA FlushPublishEngineInv ==
    ASSUME EngineInv, FlushPublish
    PROVE  PublishedTables' /\ OpenState'
<1>1. /\ OpenState /\ PublishedTables /\ pc = "publish" /\ pc' = "reset"
      /\ files[nextSST] = Whole(mem)
      /\ UNCHANGED <<files, nextSeq, nextSST, obsolete>>
  BY DEF EngineInv, FlushPublish, OpenState
<1>2. /\ manifest.ssts \in Seq(FileNum) /\ manifest.next \in Nat /\ manifest.lastSeq \in Nat
      /\ nextSeq \in Nat /\ nextSST \in FileNum /\ nextSST \in Nat /\ nextSST > manifest.next
      /\ \A s \in mem : s.seq \in Nat
  <2>1. nextSST > manifest.next
    BY <1>1 DEF OpenState
  <2> QED
    BY <2>1, InvTypes, EngineAssumption DEF EngineInv, FileNum
<1>3. /\ FlushState.ssts = Append(manifest.ssts, nextSST)
      /\ FlushState.next = nextSST
      /\ FlushState.lastSeq = nextSeq - 1
  <2>1. cur.ssts = manifest.ssts /\ cur.lastSeq = manifest.lastSeq /\ manifest.lastSeq < nextSeq
    BY <1>1 DEF OpenState
  <2>2. Max2(cur.lastSeq, nextSeq - 1) = nextSeq - 1
    BY <1>2, <2>1 DEF Max2
  <2> QED
    BY <2>1, <2>2 DEF FlushState
<1>4. /\ manifest'.ssts = Append(manifest.ssts, nextSST)
      /\ manifest'.next = nextSST
      /\ manifest'.lastSeq = nextSeq - 1
  BY <1>3, FlushStateType DEF FlushPublish, Published, Manifest, EngineInv
<1>5. /\ DOMAIN manifest'.ssts = 1 .. Len(manifest.ssts) + 1
      /\ DOMAIN manifest.ssts = 1 .. Len(manifest.ssts)
      /\ \A i \in DOMAIN manifest.ssts : manifest'.ssts[i] = manifest.ssts[i] /\ manifest.ssts[i] \in FileNum
      /\ manifest'.ssts[Len(manifest.ssts) + 1] = nextSST
      /\ Len(manifest.ssts) \in Nat
  BY <1>2, <1>4
<1>6. files[nextSST].status = "whole" /\ files[nextSST].recs = mem
  BY <1>1 DEF Whole
<1>7. \A i \in DOMAIN manifest.ssts : \A r \in files[manifest.ssts[i]].recs :
         r.seq \in Nat /\ r.seq <= manifest.lastSeq
  <2>1. \A n \in FileNum : \A r \in files[n].recs : r.seq \in Nat
    BY InvTypes DEF EngineInv
  <2> QED
    BY <1>1, <1>5, <2>1 DEF PublishedTables
<1>8. \A r \in mem : manifest.lastSeq < r.seq /\ r.seq < nextSeq
  BY <1>1 DEF OpenState
<1>9. PublishedTables'
  <2>1. ASSUME NEW i \in DOMAIN manifest'.ssts
        PROVE  /\ manifest'.ssts[i] <= manifest'.next
               /\ files'[manifest'.ssts[i]].status = "whole"
               /\ \A r \in files'[manifest'.ssts[i]].recs : r.seq <= manifest'.lastSeq
    <3>1. CASE i \in DOMAIN manifest.ssts
      <4>1. manifest'.ssts[i] = manifest.ssts[i] /\ manifest.ssts[i] \in Nat
        BY <1>5, <3>1 DEF FileNum
      <4>2. /\ manifest.ssts[i] <= manifest.next /\ files[manifest.ssts[i]].status = "whole"
            /\ \A r \in files[manifest.ssts[i]].recs : r.seq \in Nat /\ r.seq <= manifest.lastSeq
        BY <1>1, <1>7, <3>1 DEF PublishedTables
      <4>3. manifest.lastSeq < nextSeq
        BY <1>1 DEF OpenState
      <4>4. files' = files
        BY <1>1
      <4>5. manifest'.ssts[i] <= manifest'.next
        BY <1>2, <1>4, <4>1, <4>2
      <4>6. ASSUME NEW r \in files'[manifest'.ssts[i]].recs
            PROVE  r.seq <= manifest'.lastSeq
        BY <1>2, <1>4, <4>1, <4>2, <4>3, <4>4
      <4> QED
        BY <4>1, <4>2, <4>4, <4>5, <4>6
    <3>2. CASE i = Len(manifest.ssts) + 1
      <4>1. manifest'.ssts[i] = nextSST /\ files' = files
        BY <1>1, <1>5, <3>2
      <4>2. \A r \in mem : r.seq <= nextSeq - 1
        BY <1>2, <1>8
      <4>3. manifest'.ssts[i] <= manifest'.next
        BY <1>2, <1>4, <4>1
      <4> QED
        BY <1>4, <1>6, <4>1, <4>2, <4>3
    <3>3. i \in DOMAIN manifest.ssts \/ i = Len(manifest.ssts) + 1
      BY <1>5
    <3> QED
      BY <3>1, <3>2, <3>3
  <2>2. ASSUME NEW i \in DOMAIN manifest'.ssts, NEW j \in DOMAIN manifest'.ssts, i < j,
               NEW r \in files'[manifest'.ssts[i]].recs, NEW t \in files'[manifest'.ssts[j]].recs
        PROVE  r.seq < t.seq
    <3>1. CASE j \in DOMAIN manifest.ssts
      BY <1>1, <1>5, <2>2, <3>1 DEF PublishedTables
    <3>2. CASE j = Len(manifest.ssts) + 1
      <4>1. i \in DOMAIN manifest.ssts
        BY <1>5, <2>2, <3>2
      <4>2. r \in files[manifest.ssts[i]].recs /\ t \in mem
        BY <1>1, <1>5, <1>6, <3>2, <4>1
      <4>3. r.seq \in Nat /\ r.seq <= manifest.lastSeq
        BY <1>7, <4>1, <4>2
      <4>4. t.seq \in Nat /\ manifest.lastSeq < t.seq
        BY <1>2, <1>8, <4>2
      <4> QED
        BY <1>2, <4>3, <4>4
    <3>3. j \in DOMAIN manifest.ssts \/ j = Len(manifest.ssts) + 1
      BY <1>5
    <3> QED
      BY <3>1, <3>2, <3>3
  <2> QED
    BY <2>1, <2>2 DEF PublishedTables
<1>10. readers' = Newest1st(manifest'.ssts)
  BY <1>1, <1>2, <1>4, NewestOfAppend DEF FlushPublish, OpenState
<1>11. obsolete' = {}
  BY <1>1 DEF OpenState
<1>12. /\ cur' = FlushState /\ mem' = {} /\ manifest'.lastSeq < nextSeq'
       /\ nextSST' >= manifest'.next
  BY <1>1, <1>2, <1>4 DEF FlushPublish
<1>13. cur'.ssts = manifest'.ssts /\ cur'.next = manifest'.next /\ cur'.lastSeq = manifest'.lastSeq
  BY <1>3, <1>4, <1>12
<1>14. OpenState'
  BY <1>1, <1>10, <1>11, <1>12, <1>13 DEF OpenState
<1> QED
  BY <1>9, <1>14

\* swap: the merged SSTable replaces all published ones.
LEMMA CompactPublishEngineInv ==
    ASSUME EngineInv, CompactPublish
    PROVE  PublishedTables' /\ OpenState'
<1>1. /\ OpenState /\ PublishedTables /\ TypeInv /\ pc = "swap" /\ pc' = "remove"
      /\ UNCHANGED <<files, mem, nextSeq, nextSST>>
  BY DEF EngineInv, CompactPublish
<1>2. /\ manifest.next \in Nat /\ manifest.lastSeq \in Nat
      /\ nextSST \in FileNum /\ nextSST > manifest.next
      /\ CompactState.ssts = (IF CompactOut = {} THEN <<>> ELSE <<nextSST>>)
      /\ CompactState.next = nextSST /\ CompactState.lastSeq = manifest.lastSeq
  <2>1. nextSST > manifest.next /\ cur.lastSeq = manifest.lastSeq
    BY <1>1, OpenNumbers DEF OpenState
  <2>2. manifest.next \in Nat /\ manifest.lastSeq \in Nat /\ nextSST \in 0 .. MaxFile
    BY <1>1, InvTypes
  <2>3. nextSST \in FileNum
    BY <2>1, <2>2, EngineAssumption DEF FileNum
  <2> QED
    BY <2>1, <2>2, <2>3 DEF CompactState
<1>3. /\ manifest'.ssts = CompactState.ssts /\ manifest'.next = nextSST
      /\ manifest'.lastSeq = manifest.lastSeq
  BY <1>1, <1>2, CompactStateType DEF CompactPublish, Published, Manifest
<1>4. \A i \in DOMAIN manifest'.ssts : i = 1 /\ CompactOut # {} /\ manifest'.ssts[i] = nextSST
  BY <1>2, <1>3
<1>5. CompactOut # {} => files'[nextSST].status = "whole" /\ files'[nextSST].recs = CompactOut
  <2>1. CompactOut # {} => files'[nextSST] = Whole(CompactOut)
    BY <1>1 DEF OpenState
  <2> QED
    BY <2>1 DEF Whole
<1>6. PublishedTables'
  <2>1. ASSUME NEW i \in DOMAIN manifest'.ssts
        PROVE  /\ manifest'.ssts[i] <= manifest'.next
               /\ files'[manifest'.ssts[i]].status = "whole"
               /\ \A r \in files'[manifest'.ssts[i]].recs : r.seq <= manifest'.lastSeq
    BY <1>1, <1>2, <1>3, <1>4, <1>5, CompactOutPublished DEF FileNum
  <2>2. \A i, j \in DOMAIN manifest'.ssts : ~(i < j)
    BY <1>4
  <2> QED
    BY <2>1, <2>2 DEF PublishedTables
<1>7. readers' = Newest1st(manifest'.ssts)
  <2>1. readers' = CompactState.ssts
    BY DEF CompactPublish
  <2>2. CASE CompactOut = {}
    BY <1>2, <1>3, <2>1, <2>2 DEF Newest1st
  <2>3. CASE CompactOut # {}
    <3>1. Newest1st(<<nextSST>>) = <<nextSST>>
      BY DEF Newest1st
    <3> QED
      BY <1>2, <1>3, <2>1, <2>3, <3>1
  <2> QED
    BY <2>2, <2>3
<1>8. \A n \in obsolete' : n \notin ElementsOf(manifest'.ssts)
  <2>1. \A n \in obsolete' : n \in FileNum /\ n <= manifest.next
    <3>1. obsolete' = ElementsOf(manifest.ssts)
      BY <1>1, ReadersArePublished DEF CompactPublish
    <3> QED
      BY <1>1, <3>1 DEF ElementsOf, PublishedTables, TypeInv, TypeOK, Manifest
  <2>2. \A n \in ElementsOf(manifest'.ssts) : n = nextSST
    BY <1>4 DEF ElementsOf
  <2> QED
    BY <1>2, <2>1, <2>2 DEF FileNum
<1>9. cur'.ssts = manifest'.ssts /\ cur'.next = manifest'.next /\ cur'.lastSeq = manifest'.lastSeq
  BY <1>2, <1>3 DEF CompactPublish
<1>10. nextSST' >= manifest'.next
  BY <1>1, <1>2, <1>3 DEF FileNum
<1> QED
  BY <1>1, <1>3, <1>6, <1>7, <1>8, <1>9, <1>10 DEF OpenState

\* EngineInv is inductive when no Store fails after its rename.
LEMMA NextEngineInv ==
    ASSUME "dirsync" \notin Faults
    PROVE  EngineInv /\ [Next]_vars => EngineInv'
<1> SUFFICES ASSUME EngineInv, [Next]_vars
             PROVE  PublishedTables' /\ (pc' # "closed" => OpenState')
  BY NextTypeInv DEF EngineInv
<1>a. TypeInv /\ PublishedTables /\ (pc # "closed" => OpenState)
  BY DEF EngineInv
<1>b. /\ manifest.next \in Nat /\ nextSST \in Nat /\ nextSeq \in Nat
      /\ manifest.ssts \in Seq(FileNum) /\ files \in [FileNum -> FileState]
  BY <1>a DEF TypeInv, TypeOK, Manifest
<1>c. \A n \in FileNum : n \in Nat
  BY DEF FileNum
<1>d. ASSUME pc \in {"flush", "compact"}, UNCHANGED manifest,
             NEW f, files' \in {files, [files EXCEPT ![nextSST + 1] = f]}
      PROVE  PublishedTables'
  <2>1. nextSST >= manifest.next
    BY <1>a, <1>d, OpenNumbers
  <2>2. \A n \in FileNum : n <= manifest.next => files'[n] = files[n]
    BY <1>b, <1>c, <1>d, <2>1
  <2> QED
    BY <1>a, <1>d, <2>2, PublishedKept
<1>e. ASSUME UNCHANGED <<files, manifest>>
      PROVE  PublishedTables'
  BY <1>a, <1>e, PublishedKept
<1>f. \A st : StoreOutcomes(st) = {manifest}
  BY DEF StoreOutcomes
<1>1. CASE Open
  BY <1>1, OpenEngineInv
<1>2. CASE PublishUpgrade
  <2>1. /\ OpenState /\ manifest = NoManifest /\ cur = NoManifest /\ pc' = "ready"
        /\ UNCHANGED <<files, mem, nextSeq, readers, cur, nextSST, obsolete>>
        /\ manifest' = Published(NoManifest)
    BY <1>2, <1>a DEF PublishUpgrade, TypeInv, FreshDirectory
  <2>2. /\ manifest'.ssts = manifest.ssts /\ manifest'.next = manifest.next
        /\ manifest'.lastSeq = manifest.lastSeq
    BY <2>1 DEF Published, NoManifest
  <2>3. PublishedTables'
    <3>1. manifest.ssts = <<>>
      BY <2>1 DEF NoManifest
    <3> QED
      BY <2>2, <3>1 DEF PublishedTables
  <2>4. OpenState'
    BY <1>2, <2>1, <2>2 DEF OpenState, ElementsOf, PublishUpgrade
  <2> QED
    BY <2>3, <2>4
<1>3. CASE UpgradeFails
  <2>1. UNCHANGED <<files, manifest>> /\ opening
    BY <1>3, <1>a, <1>f DEF UpgradeFails, TypeInv, FreshDirectory
  <2>2. pc' = "closed"
    BY <1>3, <2>1 DEF UpgradeFails, Failed, Wiped
  <2> QED
    BY <1>e, <2>1, <2>2
<1>4. CASE Mutation
  BY <1>4, WriteEngineInv DEF Mutation
<1>5. CASE WriteFails
  <2>1. /\ pc = "ready" /\ pc' = "ready" /\ nextSeq' = nextSeq + 1
        /\ UNCHANGED <<files, manifest, mem, readers, cur, nextSST, obsolete>>
    BY <1>5 DEF WriteFails
  <2>2. OpenState /\ nextSST >= manifest.next /\ obsolete = {}
    BY <1>a, <2>1, OpenNumbers
  <2>3. OpenState'
    BY <1>a, <1>b, <2>1, <2>2, OpenStateKept
  <2> QED
    BY <1>e, <2>1, <2>3
<1>6. CASE CrashInWrite
  BY <1>6, <1>e DEF CrashInWrite, Wiped
<1>7. CASE ForceFlush
  <2>1. OpenState
    BY <1>7, <1>a DEF ForceFlush
  <2>2. OpenState'
    BY <1>7, <1>a, <1>b, <2>1, OpenStateKept DEF ForceFlush, OpenState, disk, memory
  <2> QED
    BY <1>7, <1>e, <2>2 DEF ForceFlush, disk
<1>8. CASE FlushWrite
  <2>1. OpenState /\ nextSST >= manifest.next
    <3>1. pc = "flush"
      BY <1>8 DEF FlushWrite
    <3> QED
      BY <1>a, <3>1, OpenNumbers
  <2>2. nextSST + 1 \in FileNum
    BY <1>8, <1>b, EngineAssumption DEF FlushWrite, Room, FileNum
  <2>3. \A n \in FileNum : n <= manifest.next => files'[n] = files[n]
    BY <1>8, <1>b, <1>c, <2>1 DEF FlushWrite
  <2>4. PublishedTables'
    BY <1>8, <1>a, <2>3, PublishedKept DEF FlushWrite
  <2>5. files'[nextSST'] = Whole(mem)
    BY <1>8, <1>b, <2>2 DEF FlushWrite
  <2>6. nextSST' > manifest.next /\ nextSST' >= manifest.next
    BY <1>8, <1>b, <2>1 DEF FlushWrite
  <2>7. OpenState'
    BY <1>8, <2>1, <2>5, <2>6 DEF FlushWrite, OpenState
  <2> QED
    BY <2>4, <2>7
<1>9. CASE FlushWriteFails
  <2>1. pc = "flush" /\ Failed(nextSST) /\ UNCHANGED manifest
    BY <1>9 DEF FlushWriteFails
  <2>2. OpenState /\ nextSST >= manifest.next
    BY <1>a, <2>1, OpenNumbers
  <2>3. OpenState'
    BY <1>a, <1>b, <2>1, <2>2, FailedKeepsOpenState
  <2> QED
    BY <1>9, <1>d, <2>1, <2>3 DEF FlushWriteFails, PartlyWritten
<1>10. CASE FlushPublish
  BY <1>10, FlushPublishEngineInv
<1>11. CASE FlushPublishFails
  <2>1. pc = "publish" /\ Failed(nextSST - 1) /\ UNCHANGED manifest
    BY <1>11, <1>f DEF FlushPublishFails
  <2>2. OpenState /\ nextSST > manifest.next /\ nextSST - 1 >= manifest.next /\ nextSST - 1 \in Nat
    BY <1>a, <2>1, OpenNumbers
  <2>3. \A n \in FileNum : n <= manifest.next => files'[n] = files[n]
    BY <1>11, <1>b, <1>c, <2>2 DEF FlushPublishFails
  <2>4. PublishedTables'
    BY <1>a, <2>1, <2>3, PublishedKept
  <2>5. OpenState'
    BY <1>a, <1>b, <2>1, <2>2, FailedKeepsOpenState
  <2> QED
    BY <2>4, <2>5
<1>12. CASE WalReset
  <2>1. OpenState
    BY <1>12, <1>a DEF WalReset
  <2>2. OpenState'
    BY <1>12, <1>a, <1>b, <2>1, OpenStateKept DEF WalReset, OpenState
  <2> QED
    BY <1>12, <1>e, <2>2 DEF WalReset
<1>13. CASE WalResetFails
  <2>1. pc = "reset" /\ Failed(nextSST) /\ UNCHANGED <<files, manifest>>
    BY <1>13 DEF WalResetFails
  <2>2. OpenState /\ nextSST >= manifest.next
    BY <1>a, <2>1, OpenNumbers
  <2>3. OpenState'
    BY <1>a, <1>b, <2>1, <2>2, FailedKeepsOpenState
  <2> QED
    BY <1>e, <2>1, <2>3
<1>14. CASE ForceCompact
  <2>1. OpenState
    BY <1>14, <1>a DEF ForceCompact
  <2>2. OpenState'
    BY <1>14, <1>a, <1>b, <2>1, OpenStateKept DEF ForceCompact, OpenState, disk, memory
  <2> QED
    BY <1>14, <1>e, <2>2 DEF ForceCompact, disk
<1>15. CASE CompactWrite
  <2>1. OpenState /\ nextSST >= manifest.next
    <3>1. pc = "compact"
      BY <1>15 DEF CompactWrite
    <3> QED
      BY <1>a, <3>1, OpenNumbers
  <2>2. nextSST + 1 \in FileNum
    BY <1>15, <1>b, EngineAssumption DEF CompactWrite, Room, FileNum
  <2>3. \A n \in FileNum : n <= manifest.next => files'[n] = files[n]
    BY <1>15, <1>b, <1>c, <2>1 DEF CompactWrite
  <2>4. PublishedTables'
    BY <1>15, <1>a, <2>3, PublishedKept DEF CompactWrite
  <2>5. CompactOut' = CompactOut
    <3>1. \A i \in DOMAIN readers : readers[i] \in FileNum /\ readers[i] <= manifest.next
      <4>1. \A i \in DOMAIN readers : readers[i] \in ElementsOf(manifest.ssts)
        BY <1>a, <2>1, ReadersArePublished DEF ElementsOf
      <4>2. \A n \in ElementsOf(manifest.ssts) : n \in FileNum /\ n <= manifest.next
        BY <1>a, InvTypes DEF ElementsOf, PublishedTables
      <4> QED
        BY <4>1, <4>2
    <3>2. TablesOf(readers)' = TablesOf(readers)
      BY <1>15, <2>3, <3>1 DEF TablesOf, CompactWrite
    <3> QED
      BY <3>2 DEF CompactOut
  <2>6. CompactOut # {} => files'[nextSST'] = Whole(CompactOut)
    BY <1>15, <1>b, <2>2 DEF CompactWrite
  <2>7. nextSST' > manifest.next /\ nextSST' >= manifest.next
    BY <1>15, <1>b, <2>1 DEF CompactWrite
  <2>8. OpenState'
    BY <1>15, <2>1, <2>5, <2>6, <2>7 DEF CompactWrite, OpenState
  <2> QED
    BY <2>4, <2>8
<1>16. CASE CompactWriteFails
  <2>1. pc = "compact" /\ Failed(nextSST) /\ UNCHANGED manifest
    BY <1>16 DEF CompactWriteFails
  <2>2. OpenState /\ nextSST >= manifest.next
    BY <1>a, <2>1, OpenNumbers
  <2>3. OpenState'
    BY <1>a, <1>b, <2>1, <2>2, FailedKeepsOpenState
  <2> QED
    BY <1>16, <1>d, <2>1, <2>3 DEF CompactWriteFails, PartlyWritten
<1>17. CASE CompactOpenFails
  <2>1. pc = "compact" /\ Failed(nextSST + 1) /\ UNCHANGED manifest
    BY <1>17 DEF CompactOpenFails
  <2>2. OpenState /\ nextSST + 1 \in Nat /\ nextSST + 1 >= manifest.next
    BY <1>a, <1>b, <2>1, OpenNumbers
  <2>3. OpenState'
    BY <1>a, <1>b, <2>1, <2>2, FailedKeepsOpenState
  <2>4. files' \in {files, [files EXCEPT ![nextSST + 1] = Whole(CompactOut)]}
    BY <1>17 DEF CompactOpenFails
  <2> QED
    BY <1>d, <2>1, <2>3, <2>4
<1>18. CASE CompactPublish
  BY <1>18, CompactPublishEngineInv
<1>19. CASE CompactPublishFails
  <2>1. pc = "swap" /\ Failed(nextSST - 1) /\ UNCHANGED manifest
    BY <1>19, <1>f DEF CompactPublishFails
  <2>2. OpenState /\ nextSST > manifest.next /\ nextSST - 1 >= manifest.next /\ nextSST - 1 \in Nat
    BY <1>a, <2>1, OpenNumbers
  <2>3. \A n \in FileNum : n <= manifest.next => files'[n] = files[n]
    BY <1>19, <1>b, <1>c, <2>2 DEF CompactPublishFails
  <2>4. PublishedTables'
    BY <1>a, <2>1, <2>3, PublishedKept
  <2>5. OpenState'
    BY <1>a, <1>b, <2>1, <2>2, FailedKeepsOpenState
  <2> QED
    BY <2>4, <2>5
<1>20. CASE RemoveObsolete
  <2>1. OpenState /\ UNCHANGED <<manifest, readers, mem, cur, nextSeq, nextSST>>
    BY <1>20, <1>a DEF RemoveObsolete
  <2>2. PICK n \in obsolete :
          /\ files' = [files EXCEPT ![n] = Absent] \/ files' = files
          /\ obsolete' = obsolete \ {n}
    BY <1>20 DEF RemoveObsolete
  <2>3. \A i \in DOMAIN manifest.ssts : files'[manifest.ssts[i]] = files[manifest.ssts[i]]
    <3>1. \A i \in DOMAIN manifest.ssts : manifest.ssts[i] # n
      <4>1. n \notin ElementsOf(manifest.ssts)
        BY <2>1, <2>2 DEF OpenState
      <4> QED
        BY <4>1 DEF ElementsOf
    <3> QED
      BY <1>a, <1>b, <2>2, <3>1, InvTypes
  <2>4. PublishedTables'
    BY <1>a, <2>1, <2>3 DEF PublishedTables
  <2>5. (pc' = "ready" /\ obsolete' = {}) \/ pc' = "remove"
    BY <1>20 DEF RemoveObsolete
  <2>6. OpenState'
    BY <1>20, <1>a, <1>b, <2>1, <2>2, <2>5, OpenStateKept DEF OpenState, RemoveObsolete
  <2> QED
    BY <2>4, <2>6
<1>21. CASE Close
  BY <1>21, <1>e DEF Close, Wiped
<1>22. CASE Crash
  <2>1. pc' = "closed" /\ UNCHANGED manifest
    BY <1>22 DEF Crash, Wiped
  <2> QED
    BY <1>22, <1>d, <1>e, <2>1 DEF Crash, PartlyWritten
<1>23. CASE PowerLoss
  BY <1>23, <1>e DEF PowerLoss, Wiped
<1>24. CASE UNCHANGED vars
  <2>1. /\ UNCHANGED <<files, manifest, mem, nextSeq, readers, cur, nextSST, obsolete>>
        /\ pc' = pc
    BY <1>24 DEF vars, disk, memory
  <2>2. CompactOut' = CompactOut
    BY <2>1 DEF CompactOut, TablesOf
  <2>3. OpenState => OpenState'
    BY <2>1, <2>2 DEF OpenState
  <2> QED
    BY <1>a, <1>e, <2>1, <2>3
<1> QED
  BY <1>1, <1>2, <1>3, <1>4, <1>5, <1>6, <1>7, <1>8, <1>9, <1>10, <1>11, <1>12, <1>13, <1>14,
     <1>15, <1>16, <1>17, <1>18, <1>19, <1>20, <1>21, <1>22, <1>23, <1>24 DEF Next

-----------------------------------------------------------------------------
(* The theorems about the layers and about recovery.                        *)

LEMMA EngineInvLayers == EngineInv => LayersOrdered
<1> SUFFICES ASSUME EngineInv, pc = "ready"
             PROVE  LayersOrdered
  BY DEF LayersOrdered
<1>1. TypeInv /\ PublishedTables /\ OpenState
  BY DEF EngineInv
<1> DEFINE n == Len(manifest.ssts)
<1>2. /\ n \in Nat /\ DOMAIN manifest.ssts = 1 .. n /\ readers \in Seq(FileNum)
      /\ DOMAIN readers = 1 .. n /\ Len(readers) = n
      /\ \A i \in 1 .. n : readers[i] = manifest.ssts[n + 1 - i] /\ readers[i] \in FileNum
  <2>1. manifest.ssts \in Seq(FileNum) /\ readers \in Seq(FileNum)
    BY <1>1, InvTypes
  <2>2. DOMAIN readers = 1 .. n /\ \A i \in DOMAIN readers : readers[i] = manifest.ssts[n + 1 - i]
    BY <1>1, <2>1, ReadersArePublished
  <2>3. n \in Nat /\ DOMAIN manifest.ssts = 1 .. n
    BY <2>1
  <2>4. Len(readers) = n
    BY <2>1, <2>2, <2>3
  <2>5. \A i \in 1 .. n : readers[i] \in FileNum
    BY <2>1, <2>2
  <2> QED
    BY <2>1, <2>2, <2>3, <2>4, <2>5
<1> HIDE DEF n
<1>3. /\ DOMAIN Sources = 1 .. n + 1 /\ Sources[1] = mem
      /\ \A i \in 2 .. n + 1 : i - 1 \in 1 .. n /\ Sources[i] = files[readers[i - 1]].recs
  <2>1. TablesOf(readers) \in Seq({files[x].recs : x \in FileNum}) /\ Len(TablesOf(readers)) = n
    BY <1>2 DEF TablesOf
  <2>2. \A i \in 1 .. n : TablesOf(readers)[i] = files[readers[i]].recs
    BY <1>2 DEF TablesOf
  <2> QED
    BY <1>2, <2>1, <2>2 DEF Sources
<1>4. \A i \in 1 .. n : \A r \in files[readers[i]].recs : r.seq \in Nat /\ r.seq <= manifest.lastSeq
  <2>1. \A i \in 1 .. n : n + 1 - i \in 1 .. n
    BY <1>2
  <2>2. \A x \in FileNum : \A r \in files[x].recs : r.seq \in Nat
    BY <1>1, InvTypes
  <2> QED
    BY <1>1, <1>2, <2>1, <2>2 DEF PublishedTables
<1>5. \A r \in mem : r.seq \in Nat /\ manifest.lastSeq < r.seq /\ r.seq < nextSeq
  BY <1>1, InvTypes DEF OpenState
<1>6. ASSUME NEW i \in DOMAIN Sources, NEW j \in DOMAIN Sources, i < j,
             NEW r \in Sources[i], NEW t \in Sources[j]
      PROVE  r.seq > t.seq
  <2>1. j - 1 \in 1 .. n /\ t \in files[readers[j - 1]].recs
    <3>1. j \in 2 .. n + 1
      BY <1>2, <1>3, <1>6
    <3> QED
      BY <1>3, <3>1
  <2>2. t.seq \in Nat /\ t.seq <= manifest.lastSeq /\ manifest.lastSeq \in Nat
    BY <1>1, <1>4, <2>1, InvTypes
  <2>3. CASE i = 1
    BY <1>3, <1>5, <2>2, <2>3
  <2>4. CASE i # 1
    <3>1. i \in 2 .. n + 1 /\ i - 1 \in 1 .. n
      BY <1>2, <1>3, <2>4
    <3>2. r \in files[readers[i - 1]].recs
      BY <1>3, <3>1
    <3> DEFINE a == n + 1 - (j - 1)
               b == n + 1 - (i - 1)
    <3>3. a \in 1 .. n /\ b \in 1 .. n /\ a < b
      <4>1. i \in Int /\ j \in Int /\ n \in Int /\ i < j /\ 2 <= i /\ j <= n + 1
        BY <1>2, <1>3, <1>6, <3>1
      <4> QED
        BY <4>1
    <3>4. readers[j - 1] = manifest.ssts[a] /\ readers[i - 1] = manifest.ssts[b]
      BY <1>2, <2>1, <3>1
    <3> HIDE DEF a, b
    <3>5. t.seq < r.seq
      <4>1. \A x, y \in 1 .. n : x < y =>
              \A p \in files[manifest.ssts[x]].recs, q \in files[manifest.ssts[y]].recs : p.seq < q.seq
        BY <1>1, <1>2 DEF PublishedTables
      <4>2. t \in files[manifest.ssts[a]].recs /\ r \in files[manifest.ssts[b]].recs
        BY <2>1, <3>2, <3>4
      <4> QED
        BY <3>3, <4>1, <4>2
    <3>6. r.seq \in Nat
      BY <1>4, <3>1, <3>2
    <3> QED
      BY <2>2, <3>5, <3>6
  <2> QED
    BY <2>3, <2>4
<1>7. \A i \in DOMAIN readers : \A r \in files[readers[i]].recs : r.seq <= manifest.lastSeq
  BY <1>2, <1>4
<1> QED
  BY <1>5, <1>6, <1>7 DEF LayersOrdered

\* In every behaviour that starts in an empty directory, under crashes, power
\* failures and failing calls, the memtable's sequence numbers stay above
\* those of every SSTable and a newer SSTable's above an older one's, so
\* DB.Get may stop at the first table that holds the key.  The exception is a
\* manifest.Store that fails after its rename.
THEOREM LayersStayOrdered ==
    ASSUME "dirsync" \notin Faults
    PROVE  Spec => []LayersOrdered
<1>1. EngineInv /\ [Next]_vars => EngineInv'
  BY NextEngineInv
<1> QED
  BY <1>1, InitEngineInv, EngineInvLayers, PTL DEF Spec

\* No step of the engine publishes a lower LastSeq or NextSST: a number that
\* an SSTable or a file name has used is not handed out again by a later Open,
\* whatever flush or compaction came between.
THEOREM NumbersOnlyMoveForward ==
    ASSUME "dirsync" \notin Faults
    PROVE  Spec => NumbersMoveForward
<1> DEFINE Forward == manifest'.lastSeq >= manifest.lastSeq /\ manifest'.next >= manifest.next
<1>1. EngineInv /\ [Next]_vars => EngineInv'
  BY NextEngineInv
<1>2. EngineInv /\ [Next]_vars => [Forward]_vars
  <2> SUFFICES ASSUME EngineInv, Next
               PROVE  Forward
    OBVIOUS
  <2>1. TypeInv /\ manifest.next \in Nat /\ manifest.lastSeq \in Nat
    BY InvTypes DEF EngineInv
  <2>2. CASE UNCHANGED manifest
    BY <2>1, <2>2
  <2>3. CASE PublishUpgrade
    <3>1. manifest = NoManifest /\ manifest' = Published(NoManifest)
      BY <2>1, <2>3 DEF PublishUpgrade, TypeInv, FreshDirectory
    <3> QED
      BY <3>1 DEF Published, NoManifest
  <2>4. CASE FlushPublish
    <3>1. OpenState /\ pc = "publish" /\ manifest' = Published(FlushState)
      BY <2>4 DEF FlushPublish, EngineInv
    <3>2. /\ nextSST \in Nat /\ nextSST > manifest.next
          /\ cur.lastSeq = manifest.lastSeq /\ nextSeq \in Nat
      BY <2>1, <3>1, OpenNumbers, InvTypes DEF OpenState
    <3>3. manifest'.next = nextSST /\ manifest'.lastSeq = Max2(cur.lastSeq, nextSeq - 1)
      BY <3>1 DEF Published, FlushState
    <3>4. Max2(cur.lastSeq, nextSeq - 1) >= cur.lastSeq
      BY <2>1, <3>2 DEF Max2
    <3> QED
      BY <2>1, <3>2, <3>3, <3>4
  <2>5. CASE CompactPublish
    <3>1. OpenState /\ pc = "swap" /\ manifest' = Published(CompactState)
      BY <2>5 DEF CompactPublish, EngineInv
    <3>2. nextSST \in Nat /\ nextSST > manifest.next /\ cur.lastSeq = manifest.lastSeq
      BY <2>1, <3>1, OpenNumbers, InvTypes DEF OpenState
    <3>3. manifest'.next = nextSST /\ manifest'.lastSeq = cur.lastSeq
      BY <3>1 DEF Published, CompactState
    <3> QED
      BY <2>1, <3>2, <3>3
  <2>6. ASSUME NEW st, manifest' \in StoreOutcomes(st)
        PROVE  UNCHANGED manifest
    BY <2>6 DEF StoreOutcomes
  <2>7. UNCHANGED manifest \/ PublishUpgrade \/ FlushPublish \/ CompactPublish
    <3>1. UpgradeFails \/ FlushPublishFails \/ CompactPublishFails => UNCHANGED manifest
      BY <2>6 DEF UpgradeFails, FlushPublishFails, CompactPublishFails
    <3>2. Open \/ Mutation \/ WriteFails \/ CrashInWrite \/ ForceFlush => UNCHANGED manifest
      BY DEF Open, Mutation, Write, WriteFails, CrashInWrite, ForceFlush, disk
    <3>3. FlushWrite \/ FlushWriteFails \/ WalReset \/ WalResetFails \/ ForceCompact => UNCHANGED manifest
      BY DEF FlushWrite, FlushWriteFails, WalReset, WalResetFails, ForceCompact, disk
    <3>4. CompactWrite \/ CompactWriteFails \/ CompactOpenFails \/ RemoveObsolete \/ Close \/ Crash \/ PowerLoss
            => UNCHANGED manifest
      BY DEF CompactWrite, CompactWriteFails, CompactOpenFails, RemoveObsolete, Close, Crash, PowerLoss
    <3> QED
      BY <3>1, <3>2, <3>3, <3>4 DEF Next
  <2> QED
    BY <2>2, <2>3, <2>4, <2>5, <2>7
<1> QED
  BY <1>1, <1>2, InitEngineInv, PTL DEF Spec, NumbersMoveForward

\* A WAL without a record cut right after its header.
NoHeaderCut(w) == \A i \in DOMAIN w : w[i].cut # "header"

HeaderInv == NoHeaderCut(wal) /\ \A w \in stale : NoHeaderCut(w)

LEMMA AppendNoHeaderCut ==
    ASSUME NEW w \in Seq(FrameType), NoHeaderCut(w), NEW f, f.cut # "header"
    PROVE  NoHeaderCut(Append(w, f))
<1>1. /\ DOMAIN Append(w, f) = 1 .. Len(w) + 1 /\ DOMAIN w = 1 .. Len(w) /\ Len(w) \in Nat
      /\ \A i \in 1 .. Len(w) : Append(w, f)[i] = w[i]
      /\ Append(w, f)[Len(w) + 1] = f
  OBVIOUS
<1>2. \A i \in 1 .. Len(w) + 1 : i \in 1 .. Len(w) \/ i = Len(w) + 1
  BY <1>1
<1> QED
  BY <1>1, <1>2 DEF NoHeaderCut

LEMMA PrefixNoHeaderCut ==
    ASSUME NEW w \in Seq(FrameType), NoHeaderCut(w), NEW n \in 0 .. Len(w)
    PROVE  NoHeaderCut(SubSeq(w, 1, n))
<1>1. /\ DOMAIN SubSeq(w, 1, n) = 1 .. n /\ DOMAIN w = 1 .. Len(w) /\ Len(w) \in Nat
      /\ \A i \in 1 .. n : SubSeq(w, 1, n)[i] = w[i] /\ i \in DOMAIN w
  OBVIOUS
<1> QED
  BY <1>1 DEF NoHeaderCut

LEMMA NextHeaderInv ==
    ASSUME "headercut" \notin Faults
    PROVE  TypeInv /\ HeaderInv /\ [Next]_vars => HeaderInv'
<1> SUFFICES ASSUME TypeInv, HeaderInv, [Next]_vars
             PROVE  HeaderInv'
  OBVIOUS
<1>1. /\ wal \in Seq(FrameType) /\ synced \in Nat /\ NoHeaderCut(wal)
      /\ \A w \in stale : NoHeaderCut(w)
  BY DEF TypeInv, TypeOK, HeaderInv
<1>2. ASSUME NoHeaderCut(wal'), stale' = stale \/ stale' = {} \/ stale' = stale \cup {wal}
      PROVE  HeaderInv'
  BY <1>1, <1>2 DEF HeaderInv
<1>3. CASE UNCHANGED <<wal, stale>>
  BY <1>1, <1>2, <1>3
<1>4. CASE Open
  <2>1. PICK S \in ReadAll(wal) : wal' = Truncated(S)
    BY <1>4 DEF Open
  <2>2. MaxOr0(S) \in 0 .. Len(wal)
    <3>1. S \in SUBSET (0 .. Len(wal)) /\ Len(wal) \in Nat
      BY <1>1, ReadAllComplete
    <3> QED
      BY <3>1, MaxOr0Max
  <2>3. NoHeaderCut(wal')
    BY <1>1, <2>1, <2>2, PrefixNoHeaderCut DEF Truncated
  <2> QED
    BY <1>2, <1>4, <2>3 DEF Open
<1>5. CASE Mutation
  <2>1. PICK r : wal' = Append(wal, Frame(r)) /\ UNCHANGED stale
    BY <1>5 DEF Mutation, Write
  <2>2. Frame(r).cut # "header"
    BY DEF Frame
  <2> QED
    BY <1>1, <1>2, <2>1, <2>2, AppendNoHeaderCut
<1>6. CASE WriteFails
  <2>1. PICK left \in AppendLeftovers : wal' = wal \o left /\ UNCHANGED stale
    BY <1>6 DEF WriteFails
  <2>2. left = <<>> \/ left = <<Partial("torn")>>
    BY DEF AppendLeftovers
  <2>3. Partial("torn").cut # "header" /\ Partial("torn") \in FrameType
    BY DEF Partial, FrameType
  <2>4. wal' = wal \/ wal' = Append(wal, Partial("torn"))
    BY <1>1, <2>1, <2>2, <2>3
  <2> QED
    BY <1>1, <1>2, <2>1, <2>3, <2>4, AppendNoHeaderCut
<1>7. CASE CrashInWrite
  <2>1. wal' = Append(wal, Partial("torn")) /\ UNCHANGED stale
    BY <1>7 DEF CrashInWrite
  <2>2. Partial("torn").cut # "header"
    BY DEF Partial
  <2> QED
    BY <1>1, <1>2, <2>1, <2>2, AppendNoHeaderCut
<1>8. CASE WalReset
  <2>1. NoHeaderCut(wal')
    BY <1>8 DEF WalReset, NoHeaderCut
  <2> QED
    BY <1>2, <1>8, <2>1 DEF WalReset
<1>9. CASE PowerLoss
  <2>1. NoHeaderCut(wal')
    <3>1. CASE wal' \in stale
      BY <1>1, <3>1
    <3>2. CASE \E n \in synced .. Len(wal) : wal' = SubSeq(wal, 1, n)
      <4>1. PICK n \in synced .. Len(wal) : wal' = SubSeq(wal, 1, n)
        BY <3>2
      <4>2. n \in 0 .. Len(wal)
        BY <1>1
      <4> QED
        BY <1>1, <4>1, <4>2, PrefixNoHeaderCut
    <3> QED
      BY <1>9, <3>1, <3>2 DEF PowerLoss
  <2> QED
    BY <1>2, <1>9, <2>1 DEF PowerLoss
<1>10. ASSUME UNCHANGED wal, NEW n, Failed(n)
       PROVE  HeaderInv'
  BY <1>1, <1>2, <1>10 DEF Failed
<1>11. CASE UpgradeFails \/ FlushWriteFails \/ FlushPublishFails
  BY <1>10, <1>11 DEF UpgradeFails, FlushWriteFails, FlushPublishFails
<1>12. CASE WalResetFails \/ CompactWriteFails \/ CompactOpenFails \/ CompactPublishFails
  BY <1>10, <1>12 DEF WalResetFails, CompactWriteFails, CompactOpenFails, CompactPublishFails
<1>13. CASE Close
  BY <1>1, <1>2, <1>13 DEF Close
<1>14. CASE PublishUpgrade \/ ForceFlush \/ FlushWrite \/ FlushPublish \/ ForceCompact
  BY <1>3, <1>14 DEF PublishUpgrade, ForceFlush, FlushWrite, FlushPublish, ForceCompact, disk
<1>15. CASE CompactWrite \/ CompactPublish \/ RemoveObsolete \/ Crash
  BY <1>3, <1>15 DEF CompactWrite, CompactPublish, RemoveObsolete, Crash
<1>16. CASE UNCHANGED vars
  BY <1>3, <1>16 DEF vars, disk
<1> QED
  BY <1>4, <1>5, <1>6, <1>7, <1>8, <1>9, <1>11, <1>12, <1>13, <1>14, <1>15, <1>16 DEF Next

LEMMA ReadAllSucceeds ==
    ASSUME NEW w \in Seq(FrameType), NoHeaderCut(w)
    PROVE  ReadAll(w) # {}
<1> DEFINE bad  == {i \in DOMAIN w : w[i].cut # "whole" \/ w[i].rec.val \in Oversized}
           stop == CHOOSE i \in bad : \A j \in bad : i <= j
<1>1. CASE bad = {}
  BY <1>1 DEF ReadAll
<1>2. CASE bad # {}
  <2>1. stop \in bad
    <3>1. bad \in SUBSET Nat
      OBVIOUS
    <3>2. \E i \in bad : \A j \in bad : i <= j
      BY <1>2, <3>1, SmallestExists
    <3> QED
      BY <3>2
  <2>2. w[stop].cut # "header"
    BY <2>1 DEF NoHeaderCut
  <2> HIDE DEF bad, stop
  <2> QED
    BY <1>2, <2>2 DEF ReadAll, bad, stop
<1> QED
  BY <1>1, <1>2

LEMMA EngineInvOpenable == EngineInv /\ HeaderInv => Openable
<1> SUFFICES ASSUME EngineInv, HeaderInv
             PROVE  Openable
  OBVIOUS
<1>1. TypeInv /\ PublishedTables /\ wal \in Seq(FrameType) /\ NoHeaderCut(wal)
  BY DEF EngineInv, TypeInv, TypeOK, HeaderInv
<1>2. ReadAll(wal) # {}
  BY <1>1, ReadAllSucceeds
<1>3. Found.ssts = manifest.ssts
  <2>1. CASE manifest.version = 0
    <3>1. manifest = NoManifest /\ files = [n \in FileNum |-> Absent]
      BY <1>1, <2>1 DEF TypeInv, FreshDirectory
    <3>2. {n \in FileNum : files[n].status # "absent"} = {}
      BY <3>1 DEF Absent
    <3>3. Scanned = NoManifest
      BY <3>2, FS_EmptySet DEF Scanned, NoManifest, MaxOr0
    <3> QED
      BY <2>1, <3>1, <3>3 DEF Found
  <2>2. CASE manifest.version # 0
    BY <2>2 DEF Found
  <2> QED
    BY <2>1, <2>2
<1>4. SSTablesReadable
  BY <1>1, <1>3 DEF SSTablesReadable, PublishedTables, ElementsOf
<1> QED
  BY <1>2, <1>4 DEF Openable

\* Wherever a crash, a power failure or a failing call stops an engine that
\* started in an empty directory, the next Open succeeds: the manifest names
\* only complete SSTables and WAL.ReadAll returns.  The two exceptions are the
\* failures the assumptions exclude: a manifest.Store that fails after its
\* rename, and a WAL cut right after a record's header.
THEOREM AlwaysOpenable ==
    ASSUME "dirsync" \notin Faults, "headercut" \notin Faults
    PROVE  Spec => []Openable
<1>1. EngineInv /\ [Next]_vars => EngineInv'
  BY NextEngineInv
<1>2. EngineInv /\ HeaderInv /\ [Next]_vars => HeaderInv'
  BY NextHeaderInv DEF EngineInv
<1>3. Init => HeaderInv
  <2>1. Init => wal = <<>> /\ stale = {}
    BY DEF Init, ClosedInit
  <2> QED
    BY <2>1 DEF HeaderInv, NoHeaderCut
<1> QED
  BY <1>1, <1>2, <1>3, InitEngineInv, EngineInvOpenable, PTL DEF Spec
=============================================================================
