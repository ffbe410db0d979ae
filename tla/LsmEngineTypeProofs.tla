------------------------ MODULE LsmEngineTypeProofs ------------------------
(***************************************************************************)
(* Type correctness of LsmEngine, for any keys, values, thresholds, faults *)
(* and bounds, starting from an empty directory, and the facts about its   *)
(* helpers and about Open that LsmEngineProofs shares.                     *)
(***************************************************************************)
EXTENDS LsmEngine, TLAPS, FiniteSetTheorems, SequenceTheorems, WellFoundedInduction

-----------------------------------------------------------------------------
(* The helpers.                                                             *)

\* A set of naturals below a bound has a largest element, and MaxOr0 is it.
LEMMA MaxOr0Max ==
    ASSUME NEW N \in Nat, NEW S \in SUBSET (0 .. N)
    PROVE  /\ MaxOr0(S) \in 0 .. N
           /\ \A m \in S : m <= MaxOr0(S)
<1>1. CASE S = {}
  BY <1>1 DEF MaxOr0
<1>2. CASE S # {}
  <2> DEFINE T == {N - x : x \in S}
  <2>1. T \subseteq Nat /\ T # {}
    <3>1. \A x \in S : N - x \in Nat
      OBVIOUS
    <3>2. PICK x \in S : TRUE
      BY <1>2
    <3>3. N - x \in T
      BY <3>2
    <3> QED
      BY <3>1, <3>3
  <2>2. PICK y \in T : \A z \in T : ~(<<z, y>> \in OpToRel(<, Nat))
    BY <2>1, NatLessThanWellFounded, WFMin
  <2>3. PICK x \in S : y = N - x
    OBVIOUS
  <2>4. \A m \in S : m <= x
    <3> SUFFICES ASSUME NEW m \in S, m > x
                 PROVE  FALSE
      OBVIOUS
    <3>1. N - m \in T /\ N - m \in Nat /\ y \in Nat /\ N - m < y
      BY <2>3
    <3> QED
      BY <3>1, <2>2 DEF OpToRel
  <2>5. \E n \in S : \A m \in S : m <= n
    BY <2>4
  <2> QED
    BY <2>5, <1>2 DEF MaxOr0
<1> QED
  BY <1>1, <1>2

\* Appending at the end of a list prepends in the reversed one.
LEMMA NewestOfAppend ==
    ASSUME NEW S, NEW s \in Seq(S), NEW e \in S
    PROVE  Newest1st(Append(s, e)) = <<e>> \o Newest1st(s)
<1>1. Newest1st(s) \in Seq(S) /\ Len(Newest1st(s)) = Len(s)
  BY DEF Newest1st
<1>2. Newest1st(Append(s, e)) \in Seq(S) /\ Len(Newest1st(Append(s, e))) = Len(s) + 1
  BY DEF Newest1st
<1>3. <<e>> \o Newest1st(s) \in Seq(S) /\ Len(<<e>> \o Newest1st(s)) = Len(s) + 1
  BY <1>1
<1>4. ASSUME NEW i \in 1 .. Len(s) + 1
      PROVE  Newest1st(Append(s, e))[i] = (<<e>> \o Newest1st(s))[i]
  BY <1>1 DEF Newest1st
<1> QED
  BY <1>2, <1>3, <1>4, SeqEqual

-----------------------------------------------------------------------------
(* The inductive invariant.                                                 *)

\* Until the first Open has published a manifest the directory is empty, and
\* no later Open has to upgrade it.
FreshDirectory ==
    /\ manifest.version \in {0, 2}
    /\ opening <=> pc = "upgrade"
    /\ pc = "upgrade" => manifest.version = 0 /\ cur = NoManifest /\ mem = {}
    /\ manifest.version = 0 =>
         /\ manifest = NoManifest
         /\ files = [n \in FileNum |-> Absent]
         /\ wal = <<>>
         /\ stale = {}
         /\ pc \in {"closed", "upgrade"}

\* Only numbers up to MaxSeq were handed out.
NumbersBounded(w) == \A i \in DOMAIN w : w[i].cut = "whole" => w[i].rec.seq <= MaxSeq

TypeInv ==
    /\ TypeOK
    /\ FreshDirectory
    /\ NumbersBounded(wal)
    /\ \A w \in stale : NumbersBounded(w)
    /\ pc \in {"publish", "swap"} => nextSST # 0

-----------------------------------------------------------------------------
(* What Open computes from the directory.                                   *)

LEMMA SmallestExists ==
    ASSUME NEW S \in SUBSET Nat, S # {}
    PROVE  \E i \in S : \A j \in S : i <= j
<1>1. PICK i \in S : \A j \in S : ~(<<j, i>> \in OpToRel(<, Nat))
  BY NatLessThanWellFounded, WFMin
<1>2. ASSUME NEW j \in S, j < i
      PROVE  FALSE
  <2>1. i \in Nat /\ j \in Nat
    OBVIOUS
  <2> QED
    BY <1>1, <1>2, <2>1 DEF OpToRel
<1> QED
  BY <1>2

\* ReadAll only returns complete records of the file.
LEMMA ReadAllComplete ==
    ASSUME NEW w \in Seq(FrameType), NEW S \in ReadAll(w)
    PROVE  /\ S \in SUBSET (1 .. Len(w))
           /\ \A i \in S : w[i].cut = "whole"
<1> DEFINE bad  == {i \in DOMAIN w : w[i].cut # "whole" \/ w[i].rec.val \in Oversized}
           stop == CHOOSE i \in bad : \A j \in bad : i <= j
           From(j) == {i \in j .. Len(w) : \A m \in j .. i : m \notin bad}
<1>1. DOMAIN w = 1 .. Len(w) /\ Len(w) \in Nat
  OBVIOUS
<1>2. \A i \in 1 .. Len(w) : i \notin bad => w[i].cut = "whole"
  BY <1>1
<1>3. CASE bad = {}
  <2>1. S = DOMAIN w
    BY <1>3 DEF ReadAll
  <2> QED
    BY <2>1, <1>1, <1>2, <1>3
<1>4. CASE bad # {}
  <2>1. stop \in bad /\ \A j \in bad : stop <= j
    <3>1. bad \in SUBSET Nat
      BY <1>1
    <3>2. \E i \in bad : \A j \in bad : i <= j
      BY <1>4, <3>1, SmallestExists
    <3> QED
      BY <3>2
  <2>2. stop \in 1 .. Len(w)
    BY <2>1, <1>1
  <2> HIDE DEF stop, bad
  <2>3. \/ S = 1 .. (stop - 1)
        \/ \E j \in (stop + 2) .. Len(w) : S = (1 .. (stop - 1)) \cup From(j)
    BY <1>4 DEF ReadAll, stop, bad
  <2>4. \A i \in 1 .. (stop - 1) : i \in 1 .. Len(w) /\ i \notin bad
    BY <2>1, <2>2, <1>1
  <2>5. \A j \in (stop + 2) .. Len(w) : \A i \in From(j) : i \in 1 .. Len(w) /\ i \notin bad
    BY <2>2, <1>1
  <2>6. \A i \in S : i \in 1 .. Len(w) /\ i \notin bad
    BY <2>3, <2>4, <2>5
  <2> QED
    BY <2>6, <1>2
<1> QED
  BY <1>3, <1>4

\* Open of a directory that never had to be upgraded.
LEMMA OpenReplay ==
    ASSUME TypeInv, pc = "closed", NEW S \in ReadAll(wal)
    PROVE  /\ S \in SUBSET (1 .. Len(wal))
           /\ SequenceWAL(S) \in SUBSET Record
           /\ \A r \in SequenceWAL(S) : LastSeq < r.seq /\ r.seq <= MaxSeq
           /\ LastSeq = manifest.lastSeq
           /\ Found.ssts = manifest.ssts /\ Found.next = manifest.next
           /\ Legacy => Found = NoManifest /\ S = {} /\ SequenceWAL(S) = {}
           /\ ~Legacy => Found = manifest
           /\ ~Reused(S)
<1>1. /\ S \in SUBSET (1 .. Len(wal))
      /\ \A i \in S : wal[i].cut = "whole"
  BY ReadAllComplete DEF TypeInv, TypeOK
<1>2. \A i \in S : wal[i].rec \in Record /\ wal[i].rec.seq <= MaxSeq
  <2> SUFFICES ASSUME NEW i \in S
               PROVE  wal[i].rec \in Record /\ wal[i].rec.seq <= MaxSeq
    OBVIOUS
  <2>1. i \in DOMAIN wal /\ wal[i] \in FrameType /\ wal[i].cut = "whole"
    BY <1>1 DEF TypeInv, TypeOK
  <2>2. wal[i].rec \in Record
    BY <2>1 DEF FrameType
  <2> QED
    BY <2>1, <2>2 DEF TypeInv, NumbersBounded
<1>3. CASE manifest.version = 0
  <2>1. wal = <<>> /\ manifest = NoManifest /\ files = [n \in FileNum |-> Absent]
    BY <1>3 DEF TypeInv, FreshDirectory
  <2>2. S = {}
    BY <1>1, <2>1
  <2>3. {n \in FileNum : files[n].status # "absent"} = {}
    BY <2>1 DEF Absent
  <2>4. Scanned = NoManifest
    BY <2>3, FS_EmptySet DEF Scanned, NoManifest, MaxOr0
  <2>5. Found = NoManifest /\ Legacy
    BY <1>3, <2>4 DEF Found, Legacy
  <2>6. LastSeq = 0
    BY <2>5 DEF LastSeq, NoManifest, TablesOf, ElementsOf, SeqsOf, MaxOr0
  <2>7. ~Reused(S)
    BY <2>2 DEF Reused
  <2>8. SequenceWAL(S) = {}
    BY <2>2, <2>7 DEF SequenceWAL
  <2> QED
    BY <2>1, <2>2, <2>5, <2>6, <2>7, <2>8 DEF NoManifest
<1>4. CASE manifest.version = 2
  <2>1. ~Legacy /\ Found = manifest /\ LastSeq = manifest.lastSeq
    BY <1>4 DEF Legacy, Found, LastSeq
  <2>2. ~Reused(S)
    BY <2>1 DEF Reused
  <2>3. SequenceWAL(S) = {wal[i].rec : i \in {j \in S : wal[j].rec.seq > LastSeq}}
    BY <2>1, <2>2 DEF SequenceWAL
  <2>4. \A r \in SequenceWAL(S) : r \in Record /\ LastSeq < r.seq /\ r.seq <= MaxSeq
    BY <1>2, <2>1, <2>3 DEF TypeInv, TypeOK, Manifest, Record
  <2> QED
    BY <1>1, <2>1, <2>2, <2>4
<1> QED
  BY <1>3, <1>4 DEF TypeInv, FreshDirectory

-----------------------------------------------------------------------------
(* Type correctness.                                                        *)

LEMMA InitTypeInv == Init => TypeInv
<1> SUFFICES ASSUME Init
             PROVE  TypeInv
  OBVIOUS
<1>1. TypeOK
  <2>1. NoManifest \in Manifest
    BY EngineAssumption DEF NoManifest, Manifest
  <2>2. files \in [FileNum -> FileState]
    BY DEF Init, Absent, FileState
  <2>3. /\ manifest \in Manifest /\ cur \in Manifest
        /\ wal \in Seq(FrameType) /\ stale \in SUBSET Seq(FrameType)
    BY <2>1 DEF Init, ClosedInit
  <2>4. /\ synced \in Nat /\ mem \in SUBSET Record /\ nextSeq \in Nat \ {0}
        /\ readers \in Seq(FileNum) /\ nextSST \in 0 .. MaxFile
        /\ obsolete \in SUBSET FileNum
    BY EngineAssumption DEF Init, ClosedInit
  <2>5. opening \in BOOLEAN /\ pc = "closed"
    BY DEF Init, ClosedInit
  <2> QED
    BY <2>2, <2>3, <2>4, <2>5 DEF TypeOK
<1>2. FreshDirectory
  BY DEF FreshDirectory, Init, ClosedInit, NoManifest
<1> QED
  BY <1>1, <1>2 DEF TypeInv, NumbersBounded, Init, ClosedInit

\* The steps that only touch the WAL and the memtable.
LEMMA WriteTypeInv ==
    ASSUME TypeInv, NEW k \in Keys, NEW v \in Contents, Write(k, v)
    PROVE  TypeInv'
<1> DEFINE r == Rec(k, nextSeq, v)
<1>1. r \in Record /\ r.seq = nextSeq
  BY DEF TypeInv, TypeOK, Rec, Record
<1>2. Frame(r) \in FrameType /\ Frame(r).rec = r
  BY <1>1 DEF Frame, FrameType
<1>3. wal' = Append(wal, Frame(r)) /\ mem' = SetRaw(mem, r)
  BY DEF Write
<1> HIDE DEF r
<1>4. mem' \in SUBSET Record
  BY <1>1, <1>3 DEF SetRaw, TypeInv, TypeOK
<1>5. wal' \in Seq(FrameType)
  BY <1>2, <1>3 DEF TypeInv, TypeOK
<1>6. TypeOK'
  BY <1>4, <1>5 DEF Write, TypeInv, TypeOK
<1>7. FreshDirectory'
  BY DEF Write, TypeInv, FreshDirectory
<1>8. NumbersBounded(wal')
  BY <1>1, <1>2, <1>3, EngineAssumption DEF Write, TypeInv, TypeOK, NumbersBounded
<1> QED
  BY <1>6, <1>7, <1>8 DEF Write, TypeInv

LEMMA OpenTypeInv ==
    ASSUME TypeInv, Open
    PROVE  TypeInv'
<1>1. PICK S \in ReadAll(wal) :
        /\ mem' = Winners(SequenceWAL(S))
        /\ nextSeq' = 1 + Max2(LastSeq, MaxOr0(SeqsOf(SequenceWAL(S))))
        /\ wal' = Truncated(S)
        /\ cur' = [Found EXCEPT !.lastSeq = LastSeq]
        /\ pc' = IF ~Legacy THEN "ready" ELSE IF Reused(S) THEN "flush" ELSE "upgrade"
  BY DEF Open
<1>2. /\ S \in SUBSET (1 .. Len(wal))
      /\ SequenceWAL(S) \in SUBSET Record
      /\ \A r \in SequenceWAL(S) : LastSeq < r.seq /\ r.seq <= MaxSeq
      /\ LastSeq = manifest.lastSeq
      /\ Found.ssts = manifest.ssts /\ Found.next = manifest.next
      /\ Legacy => Found = NoManifest /\ S = {} /\ SequenceWAL(S) = {}
      /\ ~Legacy => Found = manifest
      /\ ~Reused(S)
  BY OpenReplay DEF Open
<1>3. MaxOr0(SeqsOf(SequenceWAL(S))) \in Nat
  <2>1. SeqsOf(SequenceWAL(S)) \in SUBSET (0 .. MaxSeq)
    BY <1>2, EngineAssumption DEF SeqsOf, Record
  <2> QED
    BY <2>1, EngineAssumption, MaxOr0Max
<1>4. /\ wal' \in Seq(FrameType)
      /\ NumbersBounded(wal')
      /\ wal = <<>> => wal' = <<>>
  <2>1. MaxOr0(S) \in 0 .. Len(wal) /\ Len(wal) \in Nat
    BY <1>2, MaxOr0Max DEF TypeInv, TypeOK
  <2>2. /\ wal' \in Seq(FrameType)
        /\ Len(wal') = MaxOr0(S)
        /\ \A i \in 1 .. MaxOr0(S) : wal'[i] = wal[i]
    BY <1>1, <2>1 DEF TypeInv, TypeOK, Truncated
  <2>3. NumbersBounded(wal')
    BY <2>1, <2>2 DEF TypeInv, TypeOK, NumbersBounded
  <2> QED
    BY <2>1, <2>2, <2>3 DEF TypeInv, TypeOK
<1>5. mem' \in SUBSET Record /\ nextSeq' \in Nat \ {0}
  BY <1>1, <1>2, <1>3 DEF Winners, Max2, TypeInv, TypeOK, Manifest
<1>6. /\ NoManifest \in Manifest
      /\ NoManifest.lastSeq = 0
  BY EngineAssumption DEF NoManifest, Manifest
<1>7. Found \in Manifest
  BY <1>2, <1>6 DEF TypeInv, TypeOK
<1>8. cur' \in Manifest
  BY <1>1, <1>2, <1>7 DEF TypeInv, TypeOK, Manifest
<1>9. readers' \in Seq(FileNum) /\ nextSST' \in 0 .. MaxFile
  BY <1>7 DEF Open, Newest1st, Manifest
<1>10. synced' \in Nat
  BY <1>4 DEF Open, TypeInv, TypeOK
<1>11. TypeOK'
  BY <1>1, <1>4, <1>5, <1>8, <1>9, <1>10 DEF Open, TypeInv, TypeOK, Legacy
<1>12. FreshDirectory'
  <2>1. CASE manifest.version = 0
    <3>1. Legacy /\ manifest = NoManifest /\ wal = <<>> /\ stale = {} /\ files = [n \in FileNum |-> Absent]
      BY <2>1 DEF Legacy, TypeInv, FreshDirectory
    <3>2. cur' = NoManifest /\ mem' = {} /\ pc' = "upgrade" /\ wal' = <<>>
      BY <1>1, <1>2, <1>4, <3>1 DEF NoManifest, Winners
    <3> QED
      BY <3>1, <3>2 DEF Open, FreshDirectory, NoManifest
  <2>2. CASE manifest.version = 2
    <3>1. pc' = "ready" /\ ~Legacy
      BY <1>1, <2>2 DEF Legacy
    <3> QED
      BY <2>2, <3>1 DEF Open, FreshDirectory
  <2> QED
    BY <2>1, <2>2 DEF TypeInv, FreshDirectory
<1> QED
  BY <1>4, <1>11, <1>12 DEF Open, TypeInv

\* Closing the DB or losing the process keeps the types, whatever is left of
\* the WAL.
LEMMA WipedTypeInv ==
    ASSUME TypeInv, Wiped, UNCHANGED manifest,
           \/ UNCHANGED files
           \/ pc \in {"flush", "compact"} /\ Room /\ PartlyWritten,
           wal' \in Seq(FrameType), NumbersBounded(wal'),
           manifest.version = 0 => wal' = <<>>,
           synced' \in Nat, stale' \in SUBSET stale
    PROVE  TypeInv'
<1>1. /\ mem' = {} /\ nextSeq' = 1 /\ readers' = <<>> /\ cur' = NoManifest
      /\ nextSST' = 0 /\ obsolete' = {} /\ opening' = FALSE /\ pc' = "closed"
  BY DEF Wiped
<1>2. NoManifest \in Manifest
  BY EngineAssumption DEF NoManifest, Manifest
<1>3. files' \in [FileNum -> FileState]
  <2>1. Torn \in FileState
    BY DEF Torn, FileState
  <2> QED
    BY <2>1 DEF TypeInv, TypeOK, PartlyWritten
<1>4. TypeOK'
  <2>1. /\ mem' \in SUBSET Record /\ nextSeq' \in Nat \ {0} /\ readers' \in Seq(FileNum)
        /\ nextSST' \in 0 .. MaxFile /\ obsolete' \in SUBSET FileNum
        /\ stale' \in SUBSET Seq(FrameType)
    BY <1>1, EngineAssumption DEF TypeInv, TypeOK
  <2>2. opening' \in BOOLEAN
    BY <1>1
  <2> QED
    BY <1>1, <1>2, <1>3, <2>1, <2>2 DEF TypeInv, TypeOK
<1>5. FreshDirectory'
  BY <1>1 DEF TypeInv, FreshDirectory
<1> QED
  BY <1>1, <1>4, <1>5 DEF TypeInv

\* Outside the first Open a failed call returns to "ready" and changes none
\* of the variables of the open DB but nextSST.
LEMMA FailedReturns ==
    ASSUME TypeInv, pc # "upgrade", NEW n, Failed(n)
    PROVE  /\ pc' = "ready" /\ nextSST' = n
           /\ UNCHANGED <<synced, stale, mem, nextSeq, readers, cur, obsolete, opening>>
  BY DEF TypeInv, FreshDirectory, Failed

\* The steps of flush and compact that leave the manifest and the WAL alone.
LEMMA FileStepTypeInv ==
    ASSUME TypeInv, pc \in {"flush", "publish", "compact", "swap", "remove"},
           files' \in [FileNum -> FileState],
           nextSST' \in 0 .. MaxFile, obsolete' \in SUBSET FileNum,
           pc' \in {"ready", "publish", "swap", "remove"},
           pc' \in {"publish", "swap"} => nextSST' # 0,
           opening' = opening \/ opening' = FALSE,
           UNCHANGED <<manifest, wal, synced, stale, mem, nextSeq, readers, cur>>
    PROVE  TypeInv'
<1>1. manifest.version = 2 /\ opening = FALSE
  BY DEF TypeInv, TypeOK, FreshDirectory
<1>2. opening' = FALSE
  BY <1>1
<1>3. TypeOK'
  BY <1>2 DEF TypeInv, TypeOK
<1>4. FreshDirectory'
  BY <1>1, <1>2 DEF FreshDirectory
<1> QED
  BY <1>3, <1>4 DEF TypeInv

LEMMA PublishedType ==
    ASSUME NEW st \in Manifest
    PROVE  Published(st) \in Manifest /\ Published(st).version = 2
  BY DEF Published, Manifest

LEMMA FlushStateType ==
    ASSUME TypeInv, pc = "publish"
    PROVE  FlushState \in Manifest /\ Published(FlushState) \in Manifest
           /\ Published(FlushState).version = 2
<1>1. nextSST \in FileNum /\ nextSeq - 1 \in Nat /\ cur \in Manifest
  BY EngineAssumption DEF TypeInv, TypeOK, FileNum
<1>2. Max2(cur.lastSeq, nextSeq - 1) \in Nat
  BY <1>1 DEF Max2, Manifest
<1>3. Append(cur.ssts, nextSST) \in Seq(FileNum) /\ nextSST \in 0 .. MaxFile
  BY <1>1 DEF Manifest, FileNum
<1>4. FlushState \in Manifest
  BY <1>1, <1>2, <1>3 DEF FlushState, Manifest
<1> QED
  BY <1>4, PublishedType

LEMMA CompactStateType ==
    ASSUME TypeInv, pc = "swap"
    PROVE  CompactState \in Manifest /\ Published(CompactState) \in Manifest
           /\ Published(CompactState).version = 2 /\ CompactState.ssts \in Seq(FileNum)
<1>1. nextSST \in FileNum /\ cur \in Manifest /\ nextSST \in 0 .. MaxFile
  BY EngineAssumption DEF TypeInv, TypeOK, FileNum
<1>2. (IF CompactOut = {} THEN <<>> ELSE <<nextSST>>) \in Seq(FileNum)
  BY <1>1
<1>3. CompactState \in Manifest /\ CompactState.ssts \in Seq(FileNum)
  BY <1>1, <1>2 DEF CompactState, Manifest
<1> QED
  BY <1>3, PublishedType

\* A step that replaces the manifest by one of the current version.
LEMMA StoreTypeInv ==
    ASSUME TypeInv, pc # "closed",
           manifest' \in Manifest, manifest'.version = 2, cur' \in Manifest,
           files' \in [FileNum -> FileState],
           mem' \in SUBSET Record, readers' \in Seq(FileNum),
           nextSST' \in 0 .. MaxFile, obsolete' \in SUBSET FileNum,
           opening' = FALSE, pc' \in {"closed", "ready", "reset", "remove"},
           UNCHANGED <<wal, stale, nextSeq>>, synced' \in Nat
    PROVE  TypeInv'
<1>1. opening' \in BOOLEAN
  OBVIOUS
<1>2. TypeOK'
  BY <1>1 DEF TypeInv, TypeOK
<1>3. FreshDirectory'
  BY DEF FreshDirectory
<1> QED
  BY <1>2, <1>3 DEF TypeInv

\* TypeInv is inductive: one step per action.
LEMMA NextTypeInv == TypeInv /\ [Next]_vars => TypeInv'
<1> SUFFICES ASSUME TypeInv, [Next]_vars
             PROVE  TypeInv'
  OBVIOUS
<1>a. /\ Torn \in FileState /\ Absent \in FileState
      /\ \A T \in SUBSET Record : Whole(T) \in FileState
  BY DEF Torn, Absent, Whole, FileState
<1>b. Room => nextSST + 1 \in FileNum /\ nextSST + 1 \in 0 .. MaxFile
  BY EngineAssumption DEF Room, FileNum, TypeInv, TypeOK
<1>c. CompactOut \in SUBSET Record
  <2>1. \A i \in DOMAIN readers : readers[i] \in FileNum
    BY DEF TypeInv, TypeOK
  <2>2. \A T \in ElementsOf(TablesOf(readers)) : T \in SUBSET Record
    BY <2>1 DEF ElementsOf, TablesOf, TypeInv, TypeOK, FileState
  <2> QED
    BY <2>2 DEF CompactOut, Compact, Winners
<1>d. PartlyWritten => files' \in [FileNum -> FileState]
  BY <1>a DEF PartlyWritten, TypeInv, TypeOK
<1>1. CASE Open
  BY <1>1, OpenTypeInv
<1>2. CASE PublishUpgrade
  BY <1>2, StoreTypeInv, PublishedType DEF PublishUpgrade, TypeInv, TypeOK
<1>3. CASE UpgradeFails
  <2>1. opening /\ cur \in Manifest
    BY <1>3 DEF UpgradeFails, TypeInv, FreshDirectory, TypeOK
  <2>2. Wiped /\ synced' = Len(wal') /\ stale' = {} /\ UNCHANGED <<files, wal>>
    BY <1>3, <2>1 DEF UpgradeFails, Failed
  <2>3. synced' \in Nat
    BY <2>2 DEF TypeInv, TypeOK
  <2>4. CASE manifest' = manifest
    BY <2>2, <2>3, <2>4, WipedTypeInv DEF TypeInv, TypeOK, FreshDirectory
  <2>5. CASE manifest' = Published(cur)
    <3>1. NoManifest \in Manifest
      BY EngineAssumption DEF NoManifest, Manifest
    <3>2. stale = {} /\ pc # "closed" /\ nextSeq \in Nat
      BY <1>3 DEF UpgradeFails, TypeInv, FreshDirectory, TypeOK
    <3>3. manifest' \in Manifest /\ manifest'.version = 2
      BY <2>1, <2>5, PublishedType
    <3>4. TypeOK'
      <4>1. /\ mem' \in SUBSET Record /\ nextSeq' \in Nat \ {0} /\ readers' \in Seq(FileNum)
            /\ nextSST' \in 0 .. MaxFile /\ obsolete' \in SUBSET FileNum
            /\ stale' \in SUBSET Seq(FrameType) /\ cur' \in Manifest
        BY <2>2, <3>1, EngineAssumption DEF Wiped
      <4>2. opening' \in BOOLEAN /\ pc' = "closed"
        BY <2>2 DEF Wiped
      <4> QED
        BY <2>2, <2>3, <3>3, <4>1, <4>2 DEF TypeInv, TypeOK
    <3>5. FreshDirectory'
      BY <2>2, <3>3 DEF FreshDirectory, Wiped
    <3> QED
      BY <2>2, <3>4, <3>5 DEF TypeInv, Wiped
  <2> QED
    BY <1>3, <2>4, <2>5 DEF UpgradeFails, StoreOutcomes
<1>4. CASE Mutation
  BY <1>4, WriteTypeInv DEF Mutation
<1>5. CASE WriteFails
  <2>1. PICK left \in AppendLeftovers : wal' = wal \o left
    BY <1>5 DEF WriteFails
  <2>2. left = <<>> \/ left = <<Partial("torn")>>
    BY DEF AppendLeftovers
  <2>3. Partial("torn") \in FrameType /\ Partial("torn").cut = "torn"
    BY DEF Partial, FrameType
  <2>4. wal' \in Seq(FrameType)
    <3>1. left \in Seq(FrameType)
      <4>1. <<Partial("torn")>> \in Seq(FrameType)
        BY <2>3
      <4>2. <<>> \in Seq(FrameType)
        OBVIOUS
      <4> QED
        BY <2>2, <4>1, <4>2
    <3> QED
      BY <2>1, <3>1 DEF TypeInv, TypeOK
  <2>5. NumbersBounded(wal')
    <3>1. wal' = wal \/ wal' = Append(wal, Partial("torn"))
      <4>1. wal \in Seq(FrameType)
        BY DEF TypeInv, TypeOK
      <4>2. wal \o <<>> = wal
        BY <4>1
      <4>3. wal \o <<Partial("torn")>> = Append(wal, Partial("torn"))
        BY <2>3, <4>1
      <4> QED
        BY <2>1, <2>2, <4>2, <4>3
    <3>2. NumbersBounded(Append(wal, Partial("torn")))
      <4> DEFINE w == Append(wal, Partial("torn"))
      <4>1. /\ DOMAIN w = 1 .. Len(wal) + 1 /\ DOMAIN wal = 1 .. Len(wal) /\ Len(wal) \in Nat
            /\ \A i \in 1 .. Len(wal) : w[i] = wal[i]
            /\ w[Len(wal) + 1].cut = "torn"
        BY <2>3 DEF TypeInv, TypeOK, Partial
      <4>2. \A i \in 1 .. Len(wal) + 1 : i \in 1 .. Len(wal) \/ i = Len(wal) + 1
        BY <4>1
      <4> HIDE DEF w
      <4>3. NumbersBounded(w)
        BY <4>1, <4>2 DEF NumbersBounded, TypeInv
      <4> QED
        BY <4>3 DEF w
    <3> QED
      BY <3>1, <3>2 DEF TypeInv
  <2>6. TypeOK'
    BY <1>5, <2>4 DEF WriteFails, TypeInv, TypeOK
  <2>7. FreshDirectory'
    BY <1>5 DEF WriteFails, TypeInv, FreshDirectory
  <2> QED
    BY <1>5, <2>5, <2>6, <2>7 DEF WriteFails, TypeInv
<1>6. CASE CrashInWrite
  <2>1. PICK cut \in {"torn", "header"} : wal' = Append(wal, Partial(cut))
    BY <1>6 DEF CrashInWrite
  <2>2. Partial(cut) \in FrameType /\ Partial(cut).cut = cut
    BY DEF Partial, FrameType
  <2>3. wal' \in Seq(FrameType)
    BY <2>1, <2>2 DEF TypeInv, TypeOK
  <2>4. NumbersBounded(wal')
    BY <2>1, <2>2 DEF NumbersBounded, TypeInv, TypeOK
  <2>5. manifest.version # 0
    BY <1>6 DEF CrashInWrite, TypeInv, FreshDirectory
  <2> QED
    BY <1>6, <2>3, <2>4, <2>5, WipedTypeInv DEF CrashInWrite, TypeInv, TypeOK
<1>7. CASE ForceFlush
  BY <1>7 DEF ForceFlush, disk, memory, TypeInv, TypeOK, FreshDirectory
<1>8. CASE FlushWrite
  <2>1. files' \in [FileNum -> FileState]
    BY <1>8, <1>a DEF FlushWrite, TypeInv, TypeOK
  <2> QED
    BY <1>8, <2>1, <1>b, FileStepTypeInv DEF FlushWrite, TypeInv, TypeOK
<1>9. CASE FlushWriteFails
  <2>1. files' \in [FileNum -> FileState]
    BY <1>9, <1>a, <1>d DEF FlushWriteFails, TypeInv, TypeOK
  <2> QED
    BY <1>9, <2>1, FailedReturns, FileStepTypeInv DEF FlushWriteFails, TypeInv, TypeOK
<1>10. CASE FlushPublish
  <2>1. readers' \in Seq(FileNum) /\ opening' = FALSE
    BY <1>10, EngineAssumption DEF FlushPublish, FileNum, TypeInv, TypeOK, FreshDirectory
  <2> QED
    BY <1>10, <2>1, FlushStateType, StoreTypeInv DEF FlushPublish, TypeInv, TypeOK
<1>11. CASE FlushPublishFails
  <2>1. files' \in [FileNum -> FileState] /\ nextSST - 1 \in 0 .. MaxFile
    <3>1. files' \in [FileNum -> FileState]
      BY <1>11, <1>a DEF FlushPublishFails, TypeInv, TypeOK
    <3>2. nextSST \in 0 .. MaxFile /\ nextSST # 0
      BY <1>11 DEF FlushPublishFails, TypeInv, TypeOK
    <3> QED
      BY <3>1, <3>2, EngineAssumption
  <2>2. /\ pc' = "ready" /\ nextSST' = nextSST - 1 /\ UNCHANGED wal
        /\ UNCHANGED <<synced, stale, mem, nextSeq, readers, cur, obsolete, opening>>
    BY <1>11, FailedReturns DEF FlushPublishFails
  <2>3. CASE manifest' = manifest
    BY <1>11, <2>1, <2>2, <2>3, FileStepTypeInv DEF FlushPublishFails, TypeInv, TypeOK
  <2>4. CASE manifest' = Published(FlushState)
    <3>1. opening' = FALSE
      BY <1>11, <2>2 DEF FlushPublishFails, TypeInv, FreshDirectory, TypeOK
    <3> QED
      BY <1>11, <2>1, <2>2, <2>4, <3>1, FlushStateType, StoreTypeInv DEF FlushPublishFails, TypeInv, TypeOK
  <2> QED
    BY <1>11, <2>3, <2>4 DEF FlushPublishFails, StoreOutcomes
<1>12. CASE WalReset
  <2>1. opening = FALSE /\ opening' = FALSE /\ manifest.version = 2
    BY <1>12 DEF WalReset, TypeInv, TypeOK, FreshDirectory
  <2>2. wal' \in Seq(FrameType) /\ NumbersBounded(wal')
    BY <1>12 DEF WalReset, NumbersBounded
  <2>3. stale' \in SUBSET Seq(FrameType) /\ \A w \in stale' : NumbersBounded(w)
    BY <1>12 DEF WalReset, TypeInv, TypeOK
  <2>4. TypeOK'
    BY <1>12, <2>1, <2>2, <2>3 DEF WalReset, TypeInv, TypeOK
  <2>5. FreshDirectory'
    BY <1>12, <2>1 DEF WalReset, FreshDirectory
  <2> QED
    BY <1>12, <2>2, <2>3, <2>4, <2>5 DEF WalReset, TypeInv
<1>13. CASE WalResetFails
  <2>1. opening = FALSE /\ opening' = FALSE /\ manifest.version = 2 /\ pc' = "ready" /\ nextSST' = nextSST
    BY <1>13, FailedReturns DEF WalResetFails, TypeInv, TypeOK, FreshDirectory
  <2>2. UNCHANGED <<files, manifest, wal, synced, stale, mem, nextSeq, readers, cur, obsolete>>
    BY <1>13, FailedReturns DEF WalResetFails
  <2>3. TypeOK'
    BY <2>1, <2>2 DEF TypeInv, TypeOK
  <2>4. FreshDirectory'
    BY <2>1, <2>2 DEF FreshDirectory
  <2> QED
    BY <2>1, <2>2, <2>3, <2>4 DEF TypeInv
<1>14. CASE ForceCompact
  BY <1>14 DEF ForceCompact, disk, memory, TypeInv, TypeOK, FreshDirectory
<1>15. CASE CompactWrite
  <2>1. files' \in [FileNum -> FileState]
    BY <1>15, <1>a, <1>c DEF CompactWrite, TypeInv, TypeOK
  <2> QED
    BY <1>15, <2>1, <1>b, FileStepTypeInv DEF CompactWrite, TypeInv, TypeOK
<1>16. CASE CompactWriteFails
  BY <1>16, <1>d, FailedReturns, FileStepTypeInv DEF CompactWriteFails, TypeInv, TypeOK
<1>17. CASE CompactOpenFails
  <2>1. files' \in [FileNum -> FileState] /\ nextSST + 1 \in 0 .. MaxFile
    BY <1>17, <1>a, <1>b, <1>c DEF CompactOpenFails, TypeInv, TypeOK
  <2> QED
    BY <1>17, <2>1, FailedReturns, FileStepTypeInv DEF CompactOpenFails, TypeInv, TypeOK
<1>18. CASE CompactPublish
  <2>1. opening' = FALSE /\ obsolete' \in SUBSET FileNum
    <3>1. opening' = opening /\ obsolete' = ElementsOf(readers) /\ pc = "swap"
      BY <1>18 DEF CompactPublish
    <3>2. opening = FALSE /\ readers \in Seq(FileNum)
      BY <3>1 DEF TypeInv, TypeOK, FreshDirectory
    <3> QED
      BY <3>1, <3>2 DEF ElementsOf
  <2> QED
    BY <1>18, <2>1, CompactStateType, StoreTypeInv DEF CompactPublish, TypeInv, TypeOK
<1>19. CASE CompactPublishFails
  <2>1. files' \in [FileNum -> FileState] /\ nextSST - 1 \in 0 .. MaxFile
    <3>1. files' \in [FileNum -> FileState]
      BY <1>19, <1>a DEF CompactPublishFails, TypeInv, TypeOK
    <3>2. nextSST \in 0 .. MaxFile /\ nextSST # 0
      BY <1>19 DEF CompactPublishFails, TypeInv, TypeOK
    <3> QED
      BY <3>1, <3>2, EngineAssumption
  <2>2. /\ pc' = "ready" /\ nextSST' = nextSST - 1 /\ UNCHANGED wal
        /\ UNCHANGED <<synced, stale, mem, nextSeq, readers, cur, obsolete, opening>>
    BY <1>19, FailedReturns DEF CompactPublishFails
  <2>3. CASE manifest' = manifest
    BY <1>19, <2>1, <2>2, <2>3, FileStepTypeInv DEF CompactPublishFails, TypeInv, TypeOK
  <2>4. CASE manifest' = Published(CompactState)
    <3>1. opening' = FALSE
      BY <1>19, <2>2 DEF CompactPublishFails, TypeInv, FreshDirectory, TypeOK
    <3> QED
      BY <1>19, <2>1, <2>2, <2>4, <3>1, CompactStateType, StoreTypeInv DEF CompactPublishFails, TypeInv, TypeOK
  <2> QED
    BY <1>19, <2>3, <2>4 DEF CompactPublishFails, StoreOutcomes
<1>20. CASE RemoveObsolete
  <2>1. files' \in [FileNum -> FileState] /\ obsolete' \in SUBSET FileNum
    BY <1>20, <1>a DEF RemoveObsolete, TypeInv, TypeOK
  <2>2. pc' \in {"ready", "remove"} /\ (opening' = opening \/ opening' = FALSE)
    BY <1>20 DEF RemoveObsolete
  <2> QED
    BY <1>20, <2>1, <2>2, FileStepTypeInv DEF RemoveObsolete, TypeInv, TypeOK
<1>21. CASE Close
  BY <1>21, WipedTypeInv DEF Close, TypeInv, TypeOK, FreshDirectory
<1>22. CASE Crash
  BY <1>22, WipedTypeInv DEF Crash, TypeInv, TypeOK, FreshDirectory
<1>23. CASE PowerLoss
  <2>1. /\ wal' \in Seq(FrameType) /\ NumbersBounded(wal')
        /\ manifest.version = 0 => wal' = <<>>
    <3>1. CASE \E n \in synced .. Len(wal) : wal' = SubSeq(wal, 1, n)
      <4>1. PICK n \in synced .. Len(wal) : wal' = SubSeq(wal, 1, n)
        BY <3>1
      <4>2. n \in 0 .. Len(wal) /\ Len(wal) \in Nat
        BY DEF TypeInv, TypeOK
      <4>3. wal' \in Seq(FrameType) /\ Len(wal') = n /\ \A i \in 1 .. n : wal'[i] = wal[i]
        BY <4>1, <4>2 DEF TypeInv, TypeOK
      <4>4. NumbersBounded(wal')
        BY <4>2, <4>3 DEF TypeInv, TypeOK, NumbersBounded
      <4>5. wal = <<>> => wal' = <<>>
        BY <4>2, <4>3
      <4> QED
        BY <4>3, <4>4, <4>5 DEF TypeInv, FreshDirectory
    <3>2. CASE wal' \in stale
      BY <3>2 DEF TypeInv, TypeOK, FreshDirectory
    <3> QED
      BY <1>23, <3>1, <3>2 DEF PowerLoss
  <2>2. synced' \in Nat
    BY <1>23, <2>1 DEF PowerLoss
  <2> QED
    BY <1>23, <2>1, <2>2, WipedTypeInv DEF PowerLoss
<1>24. CASE UNCHANGED vars
  BY <1>24 DEF vars, disk, memory, TypeInv, TypeOK, FreshDirectory, NumbersBounded
<1> QED
  BY <1>1, <1>2, <1>3, <1>4, <1>5, <1>6, <1>7, <1>8, <1>9, <1>10, <1>11, <1>12, <1>13, <1>14,
     <1>15, <1>16, <1>17, <1>18, <1>19, <1>20, <1>21, <1>22, <1>23, <1>24 DEF Next

\* Every behaviour of the engine that starts in an empty directory is type
\* correct, under every failure: SSTable numbers that flush and compact step
\* back after an error never leave their range.
THEOREM TypeCorrect == Spec => []TypeOK
<1>1. TypeInv => TypeOK
  BY DEF TypeInv
<1> QED
  BY <1>1, InitTypeInv, NextTypeInv, PTL DEF Spec
=============================================================================
