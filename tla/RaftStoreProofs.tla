-------------------------- MODULE RaftStoreProofs --------------------------
(***************************************************************************)
(* Proofs about RaftStore for any bounds: what Persist has written is what *)
(* the next Open reads, the store follows the node, and the directory      *)
(* implements StableStore.  The one thing ruled out is Faults with "cut",  *)
(* the stop between the two renames of installSnapshot at a log that does  *)
(* not start at index 1, which the violation of CompactionLosesNothing is  *)
(* about.                                                                  *)
(***************************************************************************)
EXTENDS RaftStore, TLAPS, FiniteSetTheorems, SequenceTheorems

-----------------------------------------------------------------------------
(* The inductive invariant.                                                 *)

\* The first n records of the log file f are whole and have successive
\* indexes; the first b of them are covered by the snapshot s, and the file
\* then starts at index 1.  At most one torn record follows.
Shaped(f, s, b, n) ==
    /\ b \in {0, s.index} /\ b <= n
    /\ n <= Len(f) /\ Len(f) <= n + 1
    /\ \A i \in 1 .. n : f[i].index = (s.index - b) + i /\ f[i].term # 0
    /\ \A i \in 1 .. Len(f) : i > n => f[i] = TornRecord

\* The files, whether or not a store is open on them.
DiskSound == \E b, n \in Nat : Shaped(logFile, snapFile, b, n)

\* An open store has the records behind the first b of a file with no torn
\* record, and knows where they are.
Holds(b) ==
    /\ Shaped(logFile, snapFile, b, Len(logFile))
    /\ entries = SubSeq(logFile, b + 1, Len(logFile))
    /\ offsets = [j \in 1 .. Len(logFile) - b |-> b + j]

StoreSound ==
    isOpen => snapshot = snapFile /\ \E b \in Nat : Holds(b)

ClosedSound ==
    ~isOpen => /\ snapshot = NoSnapshot /\ entries = <<>> /\ offsets = <<>>
               /\ node = [snapshot |-> NoSnapshot, log |-> <<>>]
               /\ todo = NoUpdate

\* What is left of the entries when the update has truncated them.
Kept == IF todo.from = 0 THEN entries ELSE SubSeq(entries, 1, todo.from - snapshot.index - 1)

\* The rest of the update leads from the store to the node: a snapshot, or
\* entries over a conflicting suffix.
InstallAhead ==
    /\ todo.snapshot.index > snapshot.index
    /\ todo.from = 0 /\ todo.entries = <<>>
    /\ node.snapshot = todo.snapshot
    /\ node.log = Suffix

AppendAhead ==
    /\ todo.snapshot = NoSnapshot
    /\ node.snapshot = snapshot
    /\ todo.from # 0 => todo.from - snapshot.index \in 1 .. Len(entries)
    /\ node.log = Kept \o todo.entries
    /\ \A j \in 1 .. Len(todo.entries) :
          /\ todo.entries[j].index = snapshot.index + Len(Kept) + j
          /\ todo.entries[j].term # 0

UpdateSound ==
    /\ todo.hard # 0 => todo.hard > hardFile
    /\ isOpen => InstallAhead \/ AppendAhead

Inv == TypeOK /\ DiskSound /\ StoreSound /\ ClosedSound /\ UpdateSound

-----------------------------------------------------------------------------
(* What readLog makes of such a file.                                       *)

\* readLog accepts exactly the whole records.
LEMMA AcceptsWhole ==
    ASSUME NEW f \in Seq(Entries), NEW s \in Entries, NEW b \in Nat, NEW n \in Nat,
           Shaped(f, s, b, n)
    PROVE  Accepted(f, s) = n
<1> DEFINE Bad(i) == \/ f[i].term = 0
                     \/ IF i = 1 THEN f[i].index \notin {1, s.index + 1}
                        ELSE f[i].index # f[i - 1].index + 1
           bad == {i \in DOMAIN f : Bad(i)}
<1>1. DOMAIN f = 1 .. Len(f) /\ Len(f) \in Nat /\ s.index \in Nat
  BY DEF Entries
<1>2. ASSUME NEW i \in 1 .. n PROVE ~Bad(i)
  <2>1. f[i].term # 0 /\ f[i].index = (s.index - b) + i /\ b \in {0, s.index}
    BY DEF Shaped
  <2>2. CASE i = 1
    BY <2>1, <2>2, <1>1
  <2>3. CASE i # 1
    <3>1. i - 1 \in 1 .. n
      BY <2>3
    <3>2. f[i - 1].index = (s.index - b) + (i - 1)
      BY <3>1 DEF Shaped
    <3> QED
      BY <3>2, <2>1, <2>3, <1>1
  <2> QED
    BY <2>2, <2>3
<1>3. Accepted(f, s) = IF bad = {} THEN Len(f) ELSE (CHOOSE i \in bad : \A j \in bad : i <= j) - 1
  BY DEF Accepted
<1>4. n <= Len(f) /\ Len(f) <= n + 1
  BY DEF Shaped
<1>5. CASE Len(f) = n
  <2>1. bad = {}
    BY <1>1, <1>2, <1>5
  <2> QED
    BY <2>1, <1>3, <1>5
<1>6. CASE Len(f) = n + 1
  <2>1. f[n + 1] = TornRecord
    BY <1>6, <1>1 DEF Shaped
  <2>2. Bad(n + 1)
    BY <2>1 DEF TornRecord, Entry
  <2>3. bad = {n + 1}
    BY <1>1, <1>2, <1>6, <2>2
  <2>4. (CHOOSE i \in bad : \A j \in bad : i <= j) = n + 1
    BY <2>3
  <2>5. bad # {}
    BY <2>3
  <2> HIDE DEF bad
  <2>6. Accepted(f, s) = (n + 1) - 1
    BY <2>4, <2>5, <1>3
  <2> QED
    BY <2>6
<1>7. Len(f) = n \/ Len(f) = n + 1
  <2> DEFINE l == Len(f)
  <2>1. l \in Nat /\ n <= l /\ l <= n + 1
    BY <1>1, <1>4
  <2> HIDE DEF l
  <2>2. l = n \/ l = n + 1
    BY <2>1
  <2> QED
    BY <2>2 DEF l
<1> QED
  BY <1>5, <1>6, <1>7

\* readLog returns the whole records that the snapshot does not cover, and
\* where they are.
LEMMA ReadsBack ==
    ASSUME NEW f \in Seq(Entries), NEW s \in Entries, NEW b \in Nat, NEW n \in Nat,
           Shaped(f, s, b, n)
    PROVE  /\ Accepted(f, s) = n
           /\ ReadLog(f, s) = SubSeq(f, b + 1, n)
           /\ ReadOffsets(f, s) = [j \in 1 .. n - b |-> b + j]
<1>1. Accepted(f, s) = n
  BY AcceptsWhole
<1>2. {i \in 1 .. n : f[i].index <= s.index} = 1 .. b
  <2>1. s.index \in Nat /\ b <= n
    BY DEF Entries, Shaped
  <2>2. \A i \in 1 .. n : f[i].index = (s.index - b) + i
    BY DEF Shaped
  <2>3. \A i \in 1 .. n : f[i].index <= s.index <=> i <= b
    BY <2>1, <2>2
  <2> QED
    BY <2>1, <2>3
<1>3. Cardinality(1 .. b) = b
  BY FS_Interval
<1> QED
  BY <1>1, <1>2, <1>3 DEF ReadLog, ReadOffsets

\* The first of t can be appended to s before the rest of t.
LEMMA HeadMoves ==
    ASSUME NEW S, NEW s \in Seq(S), NEW t \in Seq(S), t # <<>>
    PROVE  s \o t = Append(s, Head(t)) \o Tail(t)
<1>1. Head(t) \in S /\ Tail(t) \in Seq(S) /\ <<Head(t)>> \in Seq(S)
  OBVIOUS
<1>2. t = <<Head(t)>> \o Tail(t)
  OBVIOUS
<1>3. (s \o <<Head(t)>>) \o Tail(t) = s \o (<<Head(t)>> \o Tail(t))
  BY <1>1, ConcatAssociative
<1>4. Append(s, Head(t)) = s \o <<Head(t)>>
  BY <1>1, AppendIsConcat
<1> QED
  BY <1>2, <1>3, <1>4

\* What is behind place y of a sequence, counted from place x.
LEMMA TailOfTail ==
    ASSUME NEW S, NEW f \in Seq(S), NEW x \in Nat, NEW y \in Nat, x <= y, y <= Len(f)
    PROVE  LET e == SubSeq(f, x + 1, Len(f))
           IN  SubSeq(f, y + 1, Len(f)) = SubSeq(e, (y - x) + 1, Len(e))
<1> DEFINE n == Len(f)
           e == SubSeq(f, x + 1, n)
           g == SubSeq(f, y + 1, n)
           k == y - x
           h == SubSeq(e, k + 1, n - x)
<1>1. n \in Nat /\ k \in Nat /\ k <= n - x /\ n - x \in Nat /\ n - y = (n - x) - k
  OBVIOUS
<1>2. e \in Seq(S) /\ Len(e) = n - x /\ \A i \in 1 .. n - x : e[i] = f[x + i]
  OBVIOUS
<1>3. g \in Seq(S) /\ Len(g) = n - y /\ \A i \in 1 .. n - y : g[i] = f[y + i]
  OBVIOUS
<1> HIDE DEF n, e, g, k
<1>4. h \in Seq(S) /\ Len(h) = (n - x) - k /\ \A i \in 1 .. (n - x) - k : h[i] = e[k + i]
  BY <1>1, <1>2
<1> HIDE DEF h
<1>5. ASSUME NEW i \in 1 .. n - y
      PROVE  g[i] = h[i]
  <2>1. k + i \in 1 .. n - x /\ x + (k + i) = y + i /\ i \in 1 .. (n - x) - k
    BY <1>1 DEF k
  <2> QED
    BY <1>2, <1>3, <1>4, <2>1
<1>6. g = h
  BY <1>1, <1>3, <1>4, <1>5, SeqEqual
<1> QED
  BY <1>2, <1>6 DEF n, e, g, k, h

-----------------------------------------------------------------------------
(* The invariant holds initially and is kept by every step.                 *)

LEMMA InitInv == Init => Inv
<1> SUFFICES ASSUME Init PROVE Inv
  OBVIOUS
<1> USE StoreAssumption DEF Init, NoSnapshot, NoUpdate, Entry, Entries
<1>1. TypeOK
  <2>1. offsets \in [DOMAIN entries -> DOMAIN logFile]
    OBVIOUS
  <2>2. /\ node \in [snapshot : Entries, log : Seq(Entries)]
        /\ todo \in [hard : 0 .. MaxTerm, snapshot : Entries,
                     from : 0 .. MaxIndex, entries : Seq(Entries)]
    OBVIOUS
  <2> QED
    BY <2>1, <2>2 DEF TypeOK
<1>2. Shaped(logFile, snapFile, 0, 0)
  BY DEF Shaped
<1> QED
  BY <1>1, <1>2 DEF Inv, DiskSound, StoreSound, ClosedSound, UpdateSound

\* What Open finds.
LEMMA OpenInv ==
    ASSUME Inv, Open
    PROVE  /\ Inv'
           /\ ReadLog(logFile, snapFile)' = ReadLog(logFile, snapFile)
<1> USE StoreAssumption
<1>1. PICK b, n \in Nat : Shaped(logFile, snapFile, b, n)
  BY DEF Inv, DiskSound
<1>2. /\ logFile \in Seq(Entries) /\ snapFile \in Entries /\ hardFile \in 0 .. MaxTerm
      /\ todo = NoUpdate
  BY DEF Inv, TypeOK, ClosedSound, Open
<1> DEFINE f == logFile
           g == SubSeq(logFile, 1, n)
<1>3. /\ Accepted(f, snapFile) = n
      /\ ReadLog(f, snapFile) = SubSeq(f, b + 1, n)
      /\ ReadOffsets(f, snapFile) = [j \in 1 .. n - b |-> b + j]
  BY <1>1, <1>2, ReadsBack
<1>4. /\ b <= n /\ n <= Len(f) /\ Len(f) \in Nat /\ b \in {0, snapFile.index}
      /\ \A i \in 1 .. n : f[i].index = (snapFile.index - b) + i /\ f[i].term # 0
  BY <1>1, <1>2 DEF Shaped
<1>5. /\ g \in Seq(Entries) /\ Len(g) = n
      /\ \A i \in 1 .. n : g[i] = f[i]
  BY <1>2, <1>4
<1>6. Shaped(g, snapFile, b, n)
  BY <1>4, <1>5 DEF Shaped
<1>7. /\ SubSeq(f, b + 1, n) \in Seq(Entries) /\ SubSeq(g, b + 1, n) \in Seq(Entries)
      /\ Len(SubSeq(f, b + 1, n)) = n - b /\ Len(SubSeq(g, b + 1, n)) = n - b
      /\ \A i \in 1 .. n - b : SubSeq(f, b + 1, n)[i] = f[b + i] /\ SubSeq(g, b + 1, n)[i] = g[b + i]
  BY <1>2, <1>4, <1>5
<1>8. SubSeq(f, b + 1, n) = SubSeq(g, b + 1, n)
  <2>1. \A i \in 1 .. n - b : f[b + i] = g[b + i]
    BY <1>4, <1>5
  <2> QED
    BY <1>7, <2>1, SeqEqual
<1>9. /\ logFile' = g /\ snapFile' = snapFile /\ snapshot' = snapFile /\ isOpen' = TRUE
      /\ entries' = SubSeq(g, b + 1, n) /\ offsets' = [j \in 1 .. n - b |-> b + j]
      /\ node' = [snapshot |-> snapFile, log |-> entries']
      /\ hardFile' = hardFile /\ todo' = NoUpdate
  BY <1>2, <1>3, <1>8 DEF Open
<1>10. TypeOK'
  <2>1. offsets' \in [DOMAIN entries' -> DOMAIN logFile']
    BY <1>4, <1>5, <1>7, <1>9
  <2>2. NoUpdate \in [hard : 0 .. MaxTerm, snapshot : Entries,
                      from : 0 .. MaxIndex, entries : Seq(Entries)]
    BY DEF NoUpdate, NoSnapshot, Entry, Entries
  <2> QED
    BY <1>2, <1>5, <1>7, <1>9, <2>1, <2>2 DEF TypeOK
<1>11. DiskSound' /\ StoreSound' /\ ClosedSound'
  BY <1>5, <1>6, <1>9 DEF DiskSound, StoreSound, ClosedSound, Holds
<1>12. UpdateSound'
  <2>1. /\ todo'.hard = 0 /\ todo'.from = 0 /\ todo'.entries = <<>> /\ todo'.snapshot = NoSnapshot
    BY <1>9 DEF NoUpdate
  <2>2. node'.log = entries' /\ entries' \o <<>> = entries'
    BY <1>7, <1>8, <1>9
  <2> QED
    BY <1>9, <2>1, <2>2 DEF UpdateSound, AppendAhead, Kept
<1>13. ReadLog(logFile, snapFile)' = ReadLog(logFile, snapFile)
  <2>1. ReadLog(g, snapFile) = SubSeq(g, b + 1, n)
    BY <1>2, <1>5, <1>6, ReadsBack
  <2>2. ReadLog(logFile, snapFile)' = ReadLog(g, snapFile)
    BY <1>9
  <2> QED
    BY <1>3, <1>8, <2>1, <2>2
<1> QED
  BY <1>10, <1>11, <1>12, <1>13 DEF Inv

\* An open store over its log file, which readLog would read back as it is.
LEMMA OpenFacts ==
    ASSUME Inv, isOpen
    PROVE  \E b \in Nat :
             /\ Holds(b) /\ b \in {0, snapshot.index} /\ b <= Len(logFile)
             /\ snapshot = snapFile
             /\ logFile \in Seq(Entries) /\ entries \in Seq(Entries) /\ Len(logFile) \in Nat
             /\ snapshot \in Entries /\ snapshot.index \in 0 .. MaxIndex
             /\ Len(entries) = Len(logFile) - b
             /\ \A j \in 1 .. Len(entries) : /\ entries[j] = logFile[b + j] /\ offsets[j] = b + j
                                             /\ entries[j].index = snapshot.index + j
                                             /\ entries[j].term # 0
             /\ entries = ReadLog(logFile, snapFile)
             /\ offsets = ReadOffsets(logFile, snapFile)
<1>1. /\ logFile \in Seq(Entries) /\ entries \in Seq(Entries)
      /\ snapFile \in Entries /\ snapshot = snapFile
  BY DEF Inv, TypeOK, StoreSound
<1>2. PICK b \in Nat : Holds(b)
  BY DEF Inv, StoreSound
<1>3. snapshot.index \in 0 .. MaxIndex /\ Len(logFile) \in Nat
  BY <1>1 DEF Entries
<1>4. /\ Shaped(logFile, snapFile, b, Len(logFile))
      /\ entries = SubSeq(logFile, b + 1, Len(logFile))
      /\ offsets = [j \in 1 .. Len(logFile) - b |-> b + j]
  BY <1>2 DEF Holds
<1>5. /\ b \in {0, snapshot.index} /\ b <= Len(logFile)
      /\ \A i \in 1 .. Len(logFile) : logFile[i].index = (snapshot.index - b) + i /\ logFile[i].term # 0
  BY <1>1, <1>4 DEF Shaped
<1>6. /\ Len(entries) = Len(logFile) - b
      /\ \A j \in 1 .. Len(logFile) - b : entries[j] = logFile[b + j]
  BY <1>1, <1>3, <1>4, <1>5
<1>7. ASSUME NEW j \in 1 .. Len(entries)
      PROVE  /\ entries[j] = logFile[b + j] /\ offsets[j] = b + j
             /\ entries[j].index = snapshot.index + j /\ entries[j].term # 0
  <2>1. b + j \in 1 .. Len(logFile) /\ j \in 1 .. Len(logFile) - b
    BY <1>3, <1>5, <1>6
  <2>2. logFile[b + j].index = (snapshot.index - b) + (b + j) /\ logFile[b + j].term # 0
    BY <2>1, <1>5
  <2> QED
    BY <1>3, <1>4, <1>6, <2>1, <2>2
<1>8. entries = ReadLog(logFile, snapFile) /\ offsets = ReadOffsets(logFile, snapFile)
  BY <1>1, <1>3, <1>4, ReadsBack
<1> QED
  BY <1>1, <1>2, <1>3, <1>5, <1>6, <1>7, <1>8

\* Between updates the store has the log of the node.
LEMMA IdleFacts ==
    ASSUME Inv, Idle
    PROVE  /\ node.snapshot = snapshot /\ node.log = entries
           /\ node = [snapshot |-> snapshot, log |-> entries]
<1>1. /\ todo.snapshot = NoSnapshot /\ todo.from = 0 /\ todo.entries = <<>> /\ isOpen
      /\ todo.snapshot.index = 0
  BY DEF Idle, NoUpdate, NoSnapshot, Entry
<1>2. snapshot.index \in Nat /\ entries \in Seq(Entries) /\ node \in [snapshot : Entries, log : Seq(Entries)]
  BY DEF Inv, TypeOK, Entries
<1>3. AppendAhead
  BY <1>1, <1>2 DEF Inv, UpdateSound, InstallAhead
<1>4. entries \o <<>> = entries
  BY <1>2
<1> QED
  BY <1>1, <1>2, <1>3, <1>4 DEF AppendAhead, Kept

\* A step that only changes the node and its update keeps what is about the
\* store and the files.
LEMMA SameStore ==
    ASSUME Inv, isOpen, UNCHANGED <<disk, isOpen, store>>,
           node' \in [snapshot : Entries, log : Seq(Entries)],
           todo' \in [hard : 0 .. MaxTerm, snapshot : Entries,
                     from : 0 .. MaxIndex, entries : Seq(Entries)],
           UpdateSound'
    PROVE  Inv'
<1>1. TypeOK'
  BY DEF Inv, TypeOK, disk, store
<1>2. DiskSound' /\ StoreSound' /\ ClosedSound'
  BY DEF Inv, DiskSound, StoreSound, ClosedSound, Holds, disk, store
<1> QED
  BY <1>1, <1>2 DEF Inv

LEMMA ReplicateInv ==
    ASSUME Inv, Replicate
    PROVE  Inv'
<1> USE StoreAssumption
<1>1. PICK h \in HardStates, i \in node.snapshot.index + 1 .. Last(node.snapshot, node.log) + 1,
           n \in 1 .. MaxBatch :
        \E terms \in [1 .. n -> 1 .. TermOf(h)] : ReplicateAt(h, i, terms)
  BY DEF Replicate
<1>2. PICK terms \in [1 .. n -> 1 .. TermOf(h)] : ReplicateAt(h, i, terms)
  BY <1>1
<1>3. Idle /\ UNCHANGED <<disk, isOpen, store>>
  BY <1>2 DEF ReplicateAt
<1>4. node.snapshot = snapshot /\ node.log = entries
  BY <1>3, IdleFacts
<1>5. /\ entries \in Seq(Entries) /\ snapshot \in Entries /\ snapshot.index \in Nat /\ Len(entries) \in Nat
      /\ hardFile \in 0 .. MaxTerm /\ isOpen
      /\ node \in [snapshot : Entries, log : Seq(Entries)]
  BY <1>3 DEF Inv, TypeOK, Entries, Idle
<1> DEFINE last == snapshot.index + Len(entries)
           new  == [j \in 1 .. n |-> Entry(i + j - 1, terms[j])]
           kept == SubSeq(entries, 1, i - 1 - snapshot.index)
<1>6. Last(node.snapshot, node.log) = last /\ Len(terms) = n
  BY <1>4 DEF Last
<1>7. /\ i \in Nat /\ n \in Nat /\ i >= snapshot.index + 1 /\ i <= last + 1 /\ n >= 1
      /\ i + n - 1 <= MaxIndex
  BY <1>2, <1>4, <1>5, <1>6 DEF ReplicateAt
<1>8. /\ node' = [node EXCEPT !.log = kept \o new]
      /\ todo' = [hard |-> h, snapshot |-> NoSnapshot, from |-> IF i <= last THEN i ELSE 0, entries |-> new]
  BY <1>2, <1>4, <1>6 DEF ReplicateAt
<1>9. h \in 0 .. MaxTerm /\ TermOf(h) \in 0 .. MaxTerm /\ (h # 0 => h > hardFile)
  BY <1>5 DEF HardStates, TermOf
<1>10. /\ new \in Seq(Entries) /\ Len(new) = n
       /\ \A j \in 1 .. n : new[j].index = i + j - 1 /\ new[j].term # 0
  <2>1. ASSUME NEW j \in 1 .. n PROVE Entry(i + j - 1, terms[j]) \in Entries
    <3>1. i + j - 1 \in 0 .. MaxIndex
      BY <1>7
    <3>2. terms[j] \in 0 .. MaxTerm
      BY <1>9
    <3> QED
      BY <3>1, <3>2 DEF Entry, Entries
  <2>2. \A j \in 1 .. n : new[j].index = i + j - 1 /\ new[j].term = terms[j] /\ terms[j] # 0
    BY <1>9 DEF Entry
  <2> QED
    BY <1>7, <2>1, <2>2
<1>11. /\ kept \in Seq(Entries) /\ Len(kept) = i - 1 - snapshot.index
       /\ kept \o new \in Seq(Entries)
  <2> HIDE DEF new
  <2>1. i - 1 - snapshot.index \in 0 .. Len(entries)
    BY <1>5, <1>7
  <2>2. kept \in Seq(Entries) /\ Len(kept) = i - 1 - snapshot.index
    BY <1>5, <2>1
  <2> QED
    BY <1>10, <2>2
<1>12. /\ node'.snapshot = snapshot /\ node'.log = kept \o new
       /\ node' \in [snapshot : Entries, log : Seq(Entries)]
  BY <1>4, <1>5, <1>8, <1>11
<1>13. /\ todo'.hard = h /\ todo'.snapshot = NoSnapshot /\ todo'.entries = new
       /\ todo'.from = IF i <= last THEN i ELSE 0
       /\ todo' \in [hard : 0 .. MaxTerm, snapshot : Entries,
                     from : 0 .. MaxIndex, entries : Seq(Entries)]
  <2>1. i \in 0 .. MaxIndex /\ 0 \in 0 .. MaxIndex
    BY <1>7
  <2>2. NoSnapshot \in Entries
    BY DEF NoSnapshot, Entry, Entries
  <2> QED
    BY <1>8, <1>9, <1>10, <2>1, <2>2
<1>14. snapshot' = snapshot /\ entries' = entries /\ hardFile' = hardFile
  BY <1>3 DEF store, disk
<1>15. Kept' = kept
  <2>1. CASE i <= last
    <3>1. todo'.from = i /\ i # 0 /\ i - snapshot.index - 1 = i - 1 - snapshot.index
      BY <1>5, <1>7, <1>13, <2>1
    <3> QED
      BY <1>14, <3>1 DEF Kept
  <2>2. CASE i = last + 1
    <3>1. i - 1 - snapshot.index = Len(entries) /\ ~(i <= last)
      BY <1>5, <2>2
    <3>2. kept = entries
      BY <1>5, <3>1
    <3>3. todo'.from = 0
      BY <1>13, <3>1
    <3> QED
      BY <1>14, <3>2, <3>3 DEF Kept
  <2>3. i <= last \/ i = last + 1
    BY <1>5, <1>7
  <2> QED
    BY <2>1, <2>2, <2>3
<1>16. AppendAhead'
  <2>1. todo'.from # 0 => todo'.from - snapshot.index \in 1 .. Len(entries)
    <3>1. todo'.from # 0 => todo'.from = i /\ i <= last
      BY <1>13
    <3>2. i <= last => i - snapshot.index \in 1 .. Len(entries)
      BY <1>5, <1>7
    <3> QED
      BY <3>1, <3>2
  <2>2. \A j \in 1 .. Len(new) : new[j].index = snapshot.index + Len(kept) + j /\ new[j].term # 0
    <3> DEFINE l == Len(kept)
               x == snapshot.index
    <3>1. l = i - 1 - x /\ x \in Nat
      BY <1>5, <1>11
    <3> HIDE DEF new, kept, l, x
    <3>2. \A j \in 1 .. n : x + l + j = i + j - 1
      BY <1>7, <3>1
    <3> QED
      BY <1>10, <3>2 DEF l, x
  <2> QED
    BY <1>12, <1>13, <1>14, <1>15, <2>1, <2>2 DEF AppendAhead
<1>17. UpdateSound'
  BY <1>9, <1>13, <1>14, <1>16 DEF UpdateSound
<1> QED
  BY <1>3, <1>5, <1>12, <1>13, <1>17, SameStore

LEMMA CompactLogInv ==
    ASSUME Inv, CompactLog
    PROVE  Inv'
<1> USE StoreAssumption
<1>1. PICK h \in HardStates, i \in node.snapshot.index + 1 .. MaxIndex :
        \E t \in 1 .. TermOf(h) : CompactLogAt(h, i, t)
  BY DEF CompactLog
<1>2. PICK t \in 1 .. TermOf(h) : CompactLogAt(h, i, t)
  BY <1>1
<1>2a. Idle /\ UNCHANGED <<disk, isOpen, store>>
  BY <1>2 DEF CompactLogAt
<1>2b. node.snapshot = snapshot /\ node.log = entries
  BY <1>2a, IdleFacts
<1>3. /\ entries \in Seq(Entries) /\ snapshot \in Entries /\ snapshot.index \in Nat /\ Len(entries) \in Nat
      /\ hardFile \in 0 .. MaxTerm /\ isOpen
  BY <1>2a DEF Inv, TypeOK, Entries, Idle
<1> DEFINE last == snapshot.index + Len(entries)
           keep == i < last /\ TermAt(snapshot, entries, i) = t
<1>4. i \in Nat /\ i >= snapshot.index + 1 /\ i <= MaxIndex
  BY <1>2b, <1>3
<1>5. /\ node' = [snapshot |-> Entry(i, t),
                  log |-> IF keep THEN SubSeq(entries, i - snapshot.index + 1, Len(entries)) ELSE <<>>]
      /\ todo' = [NoUpdate EXCEPT !.hard = h, !.snapshot = Entry(i, t)]
  BY <1>2, <1>2b DEF CompactLogAt, Last
<1>6. h \in 0 .. MaxTerm /\ TermOf(h) \in 0 .. MaxTerm /\ (h # 0 => h > hardFile)
  BY <1>3 DEF HardStates, TermOf
<1>7. Entry(i, t) \in Entries /\ Entry(i, t).index = i /\ Entry(i, t).term = t /\ i > snapshot.index
  BY <1>3, <1>4, <1>6 DEF Entry, Entries
<1>8. /\ todo'.hard = h /\ todo'.snapshot = Entry(i, t) /\ todo'.from = 0 /\ todo'.entries = <<>>
      /\ todo' \in [hard : 0 .. MaxTerm, snapshot : Entries,
                    from : 0 .. MaxIndex, entries : Seq(Entries)]
  <2>1. todo' = [hard |-> h, snapshot |-> Entry(i, t), from |-> 0, entries |-> <<>>]
    BY <1>5 DEF NoUpdate
  <2>2. <<>> \in Seq(Entries) /\ 0 \in 0 .. MaxIndex
    OBVIOUS
  <2> QED
    BY <1>6, <1>7, <2>1, <2>2
<1>9. snapshot' = snapshot /\ entries' = entries /\ hardFile' = hardFile /\ isOpen' = isOpen
  BY <1>2a DEF store, disk
<1> DEFINE k == i - snapshot.index
<1>10. k \in Nat /\ k >= 1 /\ (i < last => k \in 1 .. Len(entries))
  BY <1>3, <1>4
<1>11. i < last => TermAt(snapshot, entries, i) = entries[k].term
  BY <1>3, <1>4 DEF TermAt
<1>12. node'.log = Suffix'
  <2>1. Suffix' = IF k \in 1 .. Len(entries) /\ entries[k].term = t
                  THEN SubSeq(entries, k + 1, Len(entries)) ELSE <<>>
    <3>1. DOMAIN entries = 1 .. Len(entries)
      BY <1>3
    <3> QED
      BY <1>7, <1>8, <1>9, <3>1 DEF Suffix
  <2>2. CASE i < last
    BY <1>5, <1>10, <1>11, <2>1, <2>2
  <2>3. CASE ~(i < last)
    <3>1. k \in 1 .. Len(entries) => SubSeq(entries, k + 1, Len(entries)) = <<>>
      BY <1>3, <1>4, <1>10, <2>3
    <3> QED
      BY <1>5, <2>1, <2>3, <3>1
  <2> QED
    BY <2>2, <2>3
<1>13. node' \in [snapshot : Entries, log : Seq(Entries)]
  <2>1. k + 1 \in Nat /\ SubSeq(entries, k + 1, Len(entries)) \in Seq(Entries)
    BY <1>3, <1>10
  <2> QED
    BY <1>5, <1>7, <2>1
<1>14. InstallAhead'
  <2>1. node'.snapshot = Entry(i, t)
    BY <1>5
  <2> QED
    BY <1>7, <1>8, <1>9, <1>12, <2>1 DEF InstallAhead
<1>15. UpdateSound'
  BY <1>6, <1>8, <1>9, <1>14 DEF UpdateSound
<1> QED
  BY <1>2a, <1>3, <1>8, <1>13, <1>15, SameStore

LEMMA StoreHardStateInv ==
    ASSUME Inv, StoreHardState
    PROVE  Inv'
<1>1. /\ isOpen /\ todo.hard # 0 /\ hardFile' = todo.hard /\ todo' = [todo EXCEPT !.hard = 0]
      /\ UNCHANGED <<snapFile, logFile, isOpen, store, node>>
  BY DEF StoreHardState
<1>2. /\ todo \in [hard : 0 .. MaxTerm, snapshot : Entries, from : 0 .. MaxIndex, entries : Seq(Entries)]
      /\ hardFile \in 0 .. MaxTerm
  BY DEF Inv, TypeOK
<1>3. /\ todo' \in [hard : 0 .. MaxTerm, snapshot : Entries, from : 0 .. MaxIndex, entries : Seq(Entries)]
      /\ todo'.hard = 0 /\ todo'.snapshot = todo.snapshot /\ todo'.from = todo.from /\ todo'.entries = todo.entries
  BY <1>1, <1>2, StoreAssumption
<1>4. TypeOK'
  BY <1>1, <1>2, <1>3 DEF Inv, TypeOK, store
<1>5. DiskSound' /\ StoreSound' /\ ClosedSound'
  BY <1>1 DEF Inv, DiskSound, StoreSound, ClosedSound, Holds, store
<1>6. UpdateSound'
  BY <1>1, <1>3 DEF Inv, UpdateSound, InstallAhead, AppendAhead, Kept, Suffix, store
<1> QED
  BY <1>4, <1>5, <1>6 DEF Inv

\* The entries that installSnapshot keeps follow the new snapshot.
LEMMA SuffixFollows ==
    ASSUME Inv, isOpen, todo.snapshot.index > snapshot.index
    PROVE  /\ Suffix \in Seq(Entries)
           /\ todo.snapshot \in Entries /\ todo.snapshot.index \in Nat
           /\ \A i \in 1 .. Len(Suffix) : Suffix[i].index = todo.snapshot.index + i /\ Suffix[i].term # 0
<1>1. PICK b \in Nat :
        /\ entries \in Seq(Entries) /\ snapshot.index \in 0 .. MaxIndex
        /\ \A j \in 1 .. Len(entries) : entries[j].index = snapshot.index + j /\ entries[j].term # 0
  BY OpenFacts
<1>2. todo.snapshot \in Entries /\ todo.snapshot.index \in Nat
  BY DEF Inv, TypeOK, Entries
<1> DEFINE k == todo.snapshot.index - snapshot.index
           n == Len(entries)
<1>3. k \in Nat /\ n \in Nat /\ DOMAIN entries = 1 .. n
  BY <1>1, <1>2
<1>4. CASE k \in 1 .. n /\ entries[k].term = todo.snapshot.term
  <2>1. Suffix = SubSeq(entries, k + 1, n)
    BY <1>3, <1>4 DEF Suffix
  <2>2. /\ Suffix \in Seq(Entries) /\ Len(Suffix) = n - k
        /\ \A i \in 1 .. n - k : Suffix[i] = entries[k + i]
    BY <1>1, <1>3, <1>4, <2>1
  <2>3. ASSUME NEW i \in 1 .. n - k
        PROVE  Suffix[i].index = todo.snapshot.index + i /\ Suffix[i].term # 0
    <3>1. k + i \in 1 .. n /\ snapshot.index + (k + i) = todo.snapshot.index + i
      <4>1. /\ snapshot.index \in Nat /\ todo.snapshot.index \in Nat /\ k \in Nat /\ n \in Nat
            /\ k = todo.snapshot.index - snapshot.index
        BY <1>1, <1>2, <1>3
      <4> HIDE DEF k, n
      <4> QED BY <4>1
    <3> QED
      BY <1>1, <2>2, <3>1
  <2> QED
    BY <1>2, <2>2, <2>3
<1>5. CASE ~(k \in 1 .. n /\ entries[k].term = todo.snapshot.term)
  <2>1. Suffix = <<>>
    BY <1>3, <1>5 DEF Suffix
  <2> QED
    BY <1>2, <2>1
<1> QED
  BY <1>4, <1>5

LEMMA InstallSnapshotInv ==
    ASSUME Inv, InstallSnapshot
    PROVE  /\ Inv'
           /\ ReadLog(logFile, snapFile)' = Suffix
<1> USE StoreAssumption
<1>1. /\ Installing /\ snapFile' = todo.snapshot /\ logFile' = Suffix /\ entries' = Suffix
      /\ offsets' = [j \in DOMAIN Suffix |-> j] /\ snapshot' = todo.snapshot
      /\ todo' = [todo EXCEPT !.snapshot = NoSnapshot]
      /\ UNCHANGED <<hardFile, isOpen, node>>
  BY DEF InstallSnapshot
<1>2. isOpen /\ todo.hard = 0 /\ todo.snapshot.index > snapshot.index
  BY <1>1 DEF Installing
<1>3. /\ Suffix \in Seq(Entries) /\ todo.snapshot \in Entries /\ todo.snapshot.index \in Nat
      /\ \A i \in 1 .. Len(Suffix) : Suffix[i].index = todo.snapshot.index + i /\ Suffix[i].term # 0
  BY <1>2, SuffixFollows
<1>4. /\ todo \in [hard : 0 .. MaxTerm, snapshot : Entries, from : 0 .. MaxIndex, entries : Seq(Entries)]
      /\ node \in [snapshot : Entries, log : Seq(Entries)] /\ hardFile \in 0 .. MaxTerm
  BY DEF Inv, TypeOK
<1> DEFINE S == Suffix
           n == Len(S)
<1>5. n \in Nat /\ DOMAIN S = 1 .. n
  BY <1>3
<1>6. Shaped(S, todo.snapshot, 0, n)
  <2>1. \A i \in 1 .. n : S[i].index = (todo.snapshot.index - 0) + i /\ S[i].term # 0
    BY <1>3
  <2> QED
    BY <1>5, <2>1 DEF Shaped
<1>7. SubSeq(S, 0 + 1, n) = S /\ [j \in 1 .. n - 0 |-> 0 + j] = [j \in DOMAIN S |-> j]
  BY <1>3, <1>5
<1>8. TypeOK'
  <2>1. /\ NoSnapshot \in Entries
        /\ todo' \in [hard : 0 .. MaxTerm, snapshot : Entries, from : 0 .. MaxIndex, entries : Seq(Entries)]
    <3>1. NoSnapshot \in Entries
      BY DEF NoSnapshot, Entry, Entries
    <3> QED
      BY <1>1, <1>4, <3>1
  <2>2. offsets' \in [DOMAIN entries' -> DOMAIN logFile']
    BY <1>1
  <2>3. isOpen \in BOOLEAN
    BY DEF Inv, TypeOK
  <2> QED
    BY <1>1, <1>3, <1>4, <2>1, <2>2, <2>3 DEF TypeOK
<1>9. DiskSound' /\ StoreSound' /\ ClosedSound'
  <2> HIDE DEF S, n
  <2>1. logFile' = S /\ Len(S) = n /\ snapFile' = todo.snapshot /\ entries' = S
    BY <1>1 DEF S, n
  <2>2. offsets' = [j \in 1 .. n - 0 |-> 0 + j]
    BY <1>1, <1>7 DEF S
  <2>3. Holds(0)'
    BY <1>6, <1>7, <2>1, <2>2 DEF Holds
  <2>4. DiskSound'
    BY <1>5, <1>6, <2>1 DEF DiskSound
  <2> QED
    BY <1>1, <1>2, <2>3, <2>4 DEF StoreSound, ClosedSound
<1>10. UpdateSound'
  <2>1. InstallAhead
    <3>1. todo.snapshot # NoSnapshot
      <4>1. snapshot.index \in Nat
        BY DEF Inv, TypeOK, Entries
      <4> QED
        BY <1>2, <4>1 DEF NoSnapshot, Entry
    <3> QED
      BY <1>2, <3>1 DEF Inv, UpdateSound, AppendAhead
  <2>2. /\ todo'.hard = 0 /\ todo'.snapshot = NoSnapshot /\ todo'.from = 0 /\ todo'.entries = <<>>
    BY <1>1, <1>2, <1>4, <2>1 DEF InstallAhead
  <2>3. node'.snapshot = snapshot' /\ node'.log = entries' /\ entries' \in Seq(Entries)
    BY <1>1, <1>3, <2>1 DEF InstallAhead
  <2>4. entries' \o <<>> = entries'
    BY <2>3
  <2> QED
    BY <2>2, <2>3, <2>4 DEF UpdateSound, AppendAhead, Kept
<1>11. ReadLog(logFile, snapFile)' = S
  BY <1>1, <1>3, <1>5, <1>6, <1>7, ReadsBack
<1> QED
  BY <1>8, <1>9, <1>10, <1>11 DEF Inv

\* After a stop only the files matter.
LEMMA StoppedInv ==
    ASSUME Inv, Stopped, hardFile' = hardFile, snapFile' \in Entries, logFile' \in Seq(Entries),
           DiskSound'
    PROVE  Inv'
<1> USE StoreAssumption
<1>1. /\ isOpen' = FALSE /\ snapshot' = NoSnapshot /\ entries' = <<>> /\ offsets' = <<>>
      /\ node' = [snapshot |-> NoSnapshot, log |-> <<>>] /\ todo' = NoUpdate
  BY DEF Stopped
<1>2. NoSnapshot \in Entries /\ hardFile \in 0 .. MaxTerm
  BY DEF Inv, TypeOK, NoSnapshot, Entry, Entries
<1>3. TypeOK'
  <2>1. offsets' \in [DOMAIN entries' -> DOMAIN logFile']
    BY <1>1
  <2>2. node' \in [snapshot : Entries, log : Seq(Entries)]
    BY <1>1, <1>2
  <2>3. NoUpdate \in [hard : 0 .. MaxTerm, snapshot : Entries, from : 0 .. MaxIndex, entries : Seq(Entries)]
    BY <1>2 DEF NoUpdate
  <2> QED
    BY <1>1, <1>2, <2>1, <2>2, <2>3 DEF TypeOK
<1>4. StoreSound' /\ ClosedSound'
  BY <1>1 DEF StoreSound, ClosedSound
<1>5. UpdateSound'
  BY <1>1 DEF UpdateSound, NoUpdate
<1> QED
  BY <1>3, <1>4, <1>5 DEF Inv

LEMMA CrashInv ==
    ASSUME Inv, Crash
    PROVE  /\ Inv'
           /\ ReadLog(logFile, snapFile)' = ReadLog(logFile, snapFile)
<1>1. /\ isOpen /\ Stopped /\ hardFile' = hardFile /\ snapFile' = snapFile
      /\ logFile' \in {logFile, Append(logFile, TornRecord)}
  BY DEF Crash
<1>2. PICK b \in Nat :
        /\ Holds(b) /\ logFile \in Seq(Entries) /\ Len(logFile) \in Nat
        /\ snapshot = snapFile /\ snapshot \in Entries
        /\ b <= Len(logFile)
  BY <1>1, OpenFacts
<1> DEFINE n == Len(logFile)
           g == Append(logFile, TornRecord)
<1>3. Shaped(logFile, snapFile, b, n)
  BY <1>2 DEF Holds
<1>4. /\ g \in Seq(Entries) /\ Len(g) = n + 1
      /\ \A i \in 1 .. n : g[i] = logFile[i]
      /\ g[n + 1] = TornRecord
  <2>1. TornRecord \in Entries
    BY StoreAssumption DEF TornRecord, Entry, Entries
  <2> QED
    BY <1>2, <2>1
<1>5. Shaped(g, snapFile, b, n)
  <2>1. \A i \in 1 .. n : g[i].index = (snapFile.index - b) + i /\ g[i].term # 0
    BY <1>3, <1>4 DEF Shaped
  <2>2. \A i \in 1 .. Len(g) : i > n => g[i] = TornRecord
    BY <1>2, <1>4
  <2> QED
    BY <1>2, <1>3, <1>4, <2>1, <2>2 DEF Shaped
<1>6. Shaped(logFile', snapFile', b, n) /\ logFile' \in Seq(Entries)
  BY <1>1, <1>2, <1>3, <1>4, <1>5
<1>7. Inv'
  <2>1. DiskSound'
    BY <1>2, <1>6 DEF DiskSound
  <2> QED
    BY <1>1, <1>2, <1>6, <2>1, StoppedInv
<1>8. /\ ReadLog(logFile, snapFile) = SubSeq(logFile, b + 1, n)
      /\ ReadLog(g, snapFile) = SubSeq(g, b + 1, n)
  BY <1>2, <1>3, <1>4, <1>5, ReadsBack
<1>9. SubSeq(g, b + 1, n) = SubSeq(logFile, b + 1, n)
  <2>1. /\ SubSeq(g, b + 1, n) \in Seq(Entries) /\ SubSeq(logFile, b + 1, n) \in Seq(Entries)
        /\ Len(SubSeq(g, b + 1, n)) = n - b /\ Len(SubSeq(logFile, b + 1, n)) = n - b
        /\ \A i \in 1 .. n - b : /\ SubSeq(g, b + 1, n)[i] = g[b + i]
                                 /\ SubSeq(logFile, b + 1, n)[i] = logFile[b + i]
    BY <1>2, <1>4
  <2>2. \A i \in 1 .. n - b : g[b + i] = logFile[b + i]
    BY <1>2, <1>4
  <2> QED
    BY <2>1, <2>2, SeqEqual
<1> QED
  BY <1>1, <1>7, <1>8, <1>9

\* A stop between the two renames, at a log that starts at index 1 and has
\* the snapshot's entry: the file is read as if it had been rewritten.
LEMMA CutInstallInv ==
    ASSUME Inv, CutInstall, "cut" \notin Faults
    PROVE  /\ Inv'
           /\ ReadLog(logFile, snapFile)' = Suffix
<1>1. /\ Installing /\ Stopped /\ hardFile' = hardFile /\ logFile' = logFile /\ snapFile' = todo.snapshot
      /\ logFile # <<>> /\ logFile[1].index = 1
      /\ todo.snapshot.index <= Last(snapshot, entries)
      /\ TermAt(snapshot, entries, todo.snapshot.index) = todo.snapshot.term
  BY DEF CutInstall
<1>2. isOpen /\ todo.hard = 0 /\ todo.snapshot.index > snapshot.index
  BY <1>1 DEF Installing
<1>3. PICK b \in Nat :
        /\ Holds(b) /\ b \in {0, snapshot.index} /\ b <= Len(logFile)
        /\ snapshot = snapFile
        /\ logFile \in Seq(Entries) /\ entries \in Seq(Entries) /\ Len(logFile) \in Nat
        /\ snapshot.index \in 0 .. MaxIndex
        /\ Len(entries) = Len(logFile) - b
        /\ \A j \in 1 .. Len(entries) : entries[j] = logFile[b + j]
  BY <1>2, OpenFacts
<1>4. todo.snapshot \in Entries /\ todo.snapshot.index \in Nat
  BY DEF Inv, TypeOK, Entries
<1> DEFINE n == Len(logFile)
           m == Len(entries)
           x == snapshot.index
           y == todo.snapshot.index
<1>5. /\ \A i \in 1 .. n : logFile[i].index = (x - b) + i /\ logFile[i].term # 0
  BY <1>3 DEF Holds, Shaped
<1>6. /\ n \in Nat /\ m \in Nat /\ x \in Nat /\ y \in Nat /\ m = n - b /\ y > x /\ y <= x + m
      /\ n # 0
  BY <1>1, <1>2, <1>3, <1>4 DEF Last
<1> HIDE DEF n, m, x, y
<1>7. b = x /\ m = n - x /\ y \in 1 .. n /\ y - x \in 1 .. m /\ y <= n /\ x <= y
  <2>1. logFile[1].index = (x - b) + 1
    BY <1>5, <1>6
  <2>2. b = x
    BY <1>1, <1>6, <2>1
  <2> QED
    BY <1>6, <2>2
<1>8. Shaped(logFile, todo.snapshot, y, n)
  <2>1. \A i \in 1 .. n : (x - b) + i = (y - y) + i
    BY <1>6, <1>7
  <2>2. \A i \in 1 .. n : logFile[i].index = (y - y) + i /\ logFile[i].term # 0
    BY <1>5, <2>1
  <2>3. \A i \in 1 .. n : ~(i > n)
    BY <1>6
  <2> QED
    BY <1>6, <1>7, <2>2, <2>3 DEF Shaped, n, y
<1>9. Inv'
  <2>1. DiskSound'
    BY <1>1, <1>6, <1>8 DEF DiskSound
  <2> QED
    BY <1>1, <1>3, <1>4, <2>1, StoppedInv
<1>10. ReadLog(logFile, snapFile)' = SubSeq(logFile, y + 1, n)
  BY <1>1, <1>3, <1>4, <1>6, <1>8, ReadsBack
<1>11. Suffix = SubSeq(entries, (y - x) + 1, m)
  <2>1. DOMAIN entries = 1 .. m
    BY <1>3 DEF m
  <2>2. TermAt(snapshot, entries, y) = entries[y - x].term
    BY <1>6 DEF TermAt, x
  <2> QED
    BY <1>1, <1>7, <2>1, <2>2 DEF Suffix, m, x, y
<1>12. SubSeq(logFile, y + 1, n) = SubSeq(entries, (y - x) + 1, m)
  <2>1. entries = SubSeq(logFile, x + 1, n)
    BY <1>3, <1>7 DEF Holds, n
  <2> QED
    BY <1>3, <1>6, <1>7, <2>1, TailOfTail DEF n, m
<1> QED
  BY <1>9, <1>10, <1>11, <1>12

LEMMA TruncateInv ==
    ASSUME Inv, Truncate
    PROVE  /\ Inv'
           /\ todo.from > snapshot.index
           /\ ReadLog(logFile, snapFile)' = SubSeq(entries, 1, todo.from - snapshot.index - 1)
<1> USE StoreAssumption
<1> DEFINE k == todo.from - snapshot.index
<1>1. /\ isOpen /\ todo.hard = 0 /\ todo.from # 0
      /\ logFile' = SubSeq(logFile, 1, offsets[k] - 1)
      /\ entries' = SubSeq(entries, 1, k - 1)
      /\ offsets' = SubSeq(offsets, 1, k - 1)
      /\ todo' = [todo EXCEPT !.from = 0]
      /\ UNCHANGED <<hardFile, snapFile, isOpen, snapshot, node>>
  BY DEF Truncate
<1>2. PICK b \in Nat :
        /\ Holds(b) /\ b \in {0, snapshot.index} /\ b <= Len(logFile)
        /\ snapshot = snapFile
        /\ logFile \in Seq(Entries) /\ entries \in Seq(Entries) /\ Len(logFile) \in Nat
        /\ snapshot \in Entries /\ snapshot.index \in 0 .. MaxIndex
        /\ Len(entries) = Len(logFile) - b
        /\ \A j \in 1 .. Len(entries) : entries[j] = logFile[b + j] /\ offsets[j] = b + j
  BY <1>1, OpenFacts
<1>3. /\ todo \in [hard : 0 .. MaxTerm, snapshot : Entries, from : 0 .. MaxIndex, entries : Seq(Entries)]
      /\ node \in [snapshot : Entries, log : Seq(Entries)] /\ hardFile \in 0 .. MaxTerm
  BY DEF Inv, TypeOK
<1>4. AppendAhead
  BY <1>1 DEF Inv, UpdateSound, InstallAhead
<1>5. k \in 1 .. Len(entries) /\ todo.from \in Nat /\ todo.from > snapshot.index
  BY <1>1, <1>2, <1>3, <1>4 DEF AppendAhead
<1> DEFINE n == Len(logFile)
           m == b + k - 1
           g == SubSeq(logFile, 1, m)
<1>6. todo.from - snapshot.index - 1 = k - 1
  BY <1>2, <1>5
<1>7. n \in Nat /\ Len(entries) = n - b /\ Len(entries) \in Nat
  BY <1>2
<1> HIDE DEF k, n
<1>8. m \in Nat /\ b <= m /\ m <= n /\ k - 1 \in Nat /\ k - 1 <= Len(entries) /\ m - b = k - 1 /\ offsets[k] - 1 = m
  BY <1>2, <1>5, <1>7
<1> HIDE DEF m
<1>9. g \in Seq(Entries) /\ Len(g) = m /\ \A i \in 1 .. m : g[i] = logFile[i]
  BY <1>2, <1>8 DEF n
<1>10. logFile' = g
  BY <1>1, <1>8
<1>11. Shaped(g, snapFile, b, m)
  <2>1. \A i \in 1 .. n : logFile[i].index = (snapFile.index - b) + i /\ logFile[i].term # 0
    BY <1>2 DEF Holds, Shaped, n
  <2>2. \A i \in 1 .. m : g[i].index = (snapFile.index - b) + i /\ g[i].term # 0
    BY <1>7, <1>8, <1>9, <2>1
  <2>3. \A i \in 1 .. m : ~(i > m)
    BY <1>8
  <2> QED
    BY <1>2, <1>8, <1>9, <2>2, <2>3 DEF Shaped
<1> HIDE DEF g
<1>12. SubSeq(g, b + 1, m) = SubSeq(entries, 1, k - 1)
  <2> DEFINE u == SubSeq(g, b + 1, m)
             v == SubSeq(entries, 1, k - 1)
  <2>1. u \in Seq(Entries) /\ Len(u) = m - b /\ \A i \in 1 .. m - b : u[i] = g[b + i]
    BY <1>8, <1>9
  <2>2. v \in Seq(Entries) /\ Len(v) = k - 1 /\ \A i \in 1 .. k - 1 : v[i] = entries[i]
    BY <1>2, <1>7, <1>8
  <2> HIDE DEF u, v
  <2>3. ASSUME NEW i \in 1 .. k - 1 PROVE u[i] = v[i]
    <3>1. i \in 1 .. m - b /\ b + i \in 1 .. m /\ i \in 1 .. Len(entries)
      BY <1>7, <1>8
    <3> QED
      BY <1>2, <1>9, <2>1, <2>2, <3>1
  <2>4. u = v
    BY <1>8, <2>1, <2>2, <2>3, SeqEqual
  <2> QED
    BY <2>4 DEF u, v
<1>13. offsets' = [j \in 1 .. m - b |-> b + j]
  <2>1. offsets = [j \in 1 .. n - b |-> b + j]
    BY <1>2 DEF Holds, n
  <2>2. SubSeq(offsets, 1, k - 1) = [j \in 1 .. k - 1 |-> offsets[j]]
    <3>1. offsets \in Seq(Nat) /\ Len(offsets) = n - b
      BY <1>7, <2>1
    <3>2. k - 1 <= Len(offsets) /\ Len(offsets) \in Nat
      BY <1>7, <1>8, <3>1
    <3> DEFINE v == SubSeq(offsets, 1, k - 1)
               l == k - 1
    <3>3. l \in Nat /\ l <= Len(offsets)
      BY <1>8, <3>2
    <3> HIDE DEF l
    <3>4. /\ SubSeq(offsets, 1, l) \in Seq(Nat) /\ Len(SubSeq(offsets, 1, l)) = l
          /\ \A i \in 1 .. l : SubSeq(offsets, 1, l)[i] = offsets[i]
      BY <3>1, <3>3
    <3>5. v \in Seq(Nat) /\ Len(v) = k - 1 /\ \A i \in 1 .. k - 1 : v[i] = offsets[i]
      BY <3>4 DEF l
    <3> QED
      BY <1>8, <3>5
  <2>3. \A j \in 1 .. k - 1 : offsets[j] = b + j
    BY <1>2, <1>7, <1>8
  <2> QED
    BY <1>1, <1>8, <2>2, <2>3
<1>14. Holds(b)'
  BY <1>1, <1>9, <1>10, <1>11, <1>12, <1>13 DEF Holds
<1>15. TypeOK'
  <2>1. SubSeq(entries, 1, k - 1) \in Seq(Entries) /\ Len(SubSeq(entries, 1, k - 1)) = k - 1
    BY <1>2, <1>7, <1>8
  <2>2. offsets' \in [DOMAIN entries' -> DOMAIN logFile']
    <3>1. DOMAIN entries' = 1 .. m - b /\ DOMAIN logFile' = 1 .. m
      BY <1>1, <1>8, <1>9, <1>10, <2>1
    <3>2. \A j \in 1 .. m - b : b + j \in 1 .. m
      BY <1>8
    <3> QED
      BY <1>13, <3>1, <3>2
  <2>3. todo' \in [hard : 0 .. MaxTerm, snapshot : Entries, from : 0 .. MaxIndex, entries : Seq(Entries)]
    BY <1>1, <1>3
  <2>4. isOpen \in BOOLEAN /\ snapFile \in Entries
    BY DEF Inv, TypeOK
  <2> QED
    BY <1>1, <1>2, <1>3, <1>9, <1>10, <2>1, <2>2, <2>3, <2>4 DEF TypeOK
<1>16. DiskSound' /\ StoreSound' /\ ClosedSound'
  <2>1. DiskSound'
    BY <1>1, <1>8, <1>10, <1>11 DEF DiskSound
  <2> QED
    BY <1>1, <1>2, <1>14, <2>1 DEF StoreSound, ClosedSound
<1>17. UpdateSound'
  <2>1. /\ todo'.hard = 0 /\ todo'.snapshot = todo.snapshot /\ todo'.from = 0 /\ todo'.entries = todo.entries
    BY <1>1, <1>3
  <2>2. Kept' = Kept
    BY <1>1, <1>6, <2>1 DEF Kept
  <2> QED
    BY <1>1, <1>4, <2>1, <2>2 DEF UpdateSound, AppendAhead
<1>18. ReadLog(logFile, snapFile)' = SubSeq(entries, 1, k - 1)
  <2>1. ReadLog(g, snapFile) = SubSeq(g, b + 1, m)
    BY <1>2, <1>8, <1>9, <1>11, ReadsBack
  <2> QED
    BY <1>1, <1>10, <1>12, <2>1
<1> QED
  BY <1>5, <1>6, <1>15, <1>16, <1>17, <1>18 DEF Inv

LEMMA AppendEntryInv ==
    ASSUME Inv, AppendEntry
    PROVE  /\ Inv'
           /\ Head(todo.entries).index = snapshot.index + Len(entries) + 1
           /\ ReadLog(logFile, snapFile)' = Append(entries, Head(todo.entries))
<1> USE StoreAssumption
<1> DEFINE e == Head(todo.entries)
           g == Append(logFile, e)
           new == Append(entries, e)
<1>1. /\ isOpen /\ todo.hard = 0 /\ todo.from = 0 /\ todo.entries # <<>>
      /\ logFile' = g /\ entries' = new /\ offsets' = Append(offsets, Len(logFile) + 1)
      /\ todo' = [todo EXCEPT !.entries = Tail(@)]
      /\ UNCHANGED <<hardFile, snapFile, isOpen, snapshot, node>>
  BY DEF AppendEntry, Appending
<1>2. PICK b \in Nat :
        /\ Holds(b) /\ b \in {0, snapshot.index} /\ b <= Len(logFile)
        /\ snapshot = snapFile
        /\ logFile \in Seq(Entries) /\ entries \in Seq(Entries) /\ Len(logFile) \in Nat
        /\ snapshot \in Entries /\ snapshot.index \in 0 .. MaxIndex
        /\ Len(entries) = Len(logFile) - b
        /\ \A j \in 1 .. Len(entries) : entries[j] = logFile[b + j] /\ offsets[j] = b + j
  BY <1>1, OpenFacts
<1>3. /\ todo \in [hard : 0 .. MaxTerm, snapshot : Entries, from : 0 .. MaxIndex, entries : Seq(Entries)]
      /\ node \in [snapshot : Entries, log : Seq(Entries)] /\ hardFile \in 0 .. MaxTerm
  BY DEF Inv, TypeOK
<1>4. AppendAhead /\ Kept = entries
  BY <1>1 DEF Inv, UpdateSound, InstallAhead, Kept
<1> DEFINE q == todo.entries
<1>5. /\ q \in Seq(Entries) /\ Len(q) \in Nat /\ Len(q) >= 1 /\ e = q[1] /\ e \in Entries
      /\ Tail(q) \in Seq(Entries) /\ Len(Tail(q)) = Len(q) - 1
      /\ \A j \in 1 .. Len(q) - 1 : Tail(q)[j] = q[j + 1]
  BY <1>1, <1>3
<1> DEFINE n == Len(logFile)
           l == Len(entries)
           x == snapshot.index
<1>6. n \in Nat /\ l \in Nat /\ x \in Nat /\ l = n - b /\ b <= n
  BY <1>2
<1>7. \A j \in 1 .. Len(q) : q[j].index = x + l + j /\ q[j].term # 0
  BY <1>4 DEF AppendAhead
<1> HIDE DEF e, n, l, x, q
<1>8. e.index = x + l + 1 /\ e.term # 0
  <2>1. 1 \in 1 .. Len(q)
    BY <1>5
  <2> QED
    BY <1>5, <1>7, <2>1
<1>9. /\ g \in Seq(Entries) /\ Len(g) = n + 1 /\ g[n + 1] = e
      /\ \A i \in 1 .. n : g[i] = logFile[i]
  BY <1>2, <1>5 DEF n
<1>10. /\ new \in Seq(Entries) /\ Len(new) = l + 1 /\ new[l + 1] = e
       /\ \A i \in 1 .. l : new[i] = entries[i]
  BY <1>2, <1>5 DEF l
<1> HIDE DEF g, new
<1>11. Shaped(g, snapFile, b, n + 1)
  <2>1. \A i \in 1 .. n : logFile[i].index = (x - b) + i /\ logFile[i].term # 0
    BY <1>2 DEF Holds, Shaped, n, x
  <2>2. e.index = (x - b) + (n + 1)
    BY <1>6, <1>8
  <2>3. ASSUME NEW i \in 1 .. n + 1
        PROVE  g[i].index = (x - b) + i /\ g[i].term # 0
    <3>1. CASE i = n + 1
      BY <1>8, <1>9, <2>2, <3>1
    <3>2. CASE i \in 1 .. n
      BY <1>9, <2>1, <3>2
    <3> QED
      BY <1>6, <3>1, <3>2
  <2>4. n + 1 \in Nat /\ b <= n + 1 /\ \A i \in 1 .. n + 1 : ~(i > n + 1)
    BY <1>6
  <2> QED
    BY <1>2, <1>9, <2>3, <2>4 DEF Shaped, x
<1>12. SubSeq(g, b + 1, n + 1) = new
  <2> DEFINE u == SubSeq(g, b + 1, n + 1)
  <2>1. u \in Seq(Entries) /\ Len(u) = (n + 1) - b /\ \A i \in 1 .. (n + 1) - b : u[i] = g[b + i]
    BY <1>6, <1>9
  <2> HIDE DEF u
  <2>2. ASSUME NEW i \in 1 .. l + 1 PROVE u[i] = new[i]
    <3>1. i \in 1 .. (n + 1) - b
      BY <1>6
    <3>2. CASE i = l + 1
      <4>1. b + i = n + 1
        BY <1>6, <3>2
      <4> QED
        BY <1>9, <1>10, <2>1, <3>1, <3>2, <4>1
    <3>3. CASE i \in 1 .. l
      <4>1. b + i \in 1 .. n
        BY <1>6, <3>3
      <4>2. entries[i] = logFile[b + i]
        BY <1>2, <3>3 DEF l
      <4> QED
        BY <1>9, <1>10, <2>1, <3>1, <3>3, <4>1, <4>2
    <3> QED
      BY <1>6, <3>2, <3>3
  <2>3. Len(u) = Len(new)
    BY <1>6, <1>10, <2>1
  <2>4. u = new
    BY <1>10, <2>1, <2>2, <2>3, SeqEqual
  <2> QED
    BY <2>4 DEF u
<1>13. offsets' = [j \in 1 .. (n + 1) - b |-> b + j]
  <2>1. offsets = [j \in 1 .. n - b |-> b + j]
    BY <1>2 DEF Holds, n
  <2>2. offsets \in Seq(Nat) /\ Len(offsets) = n - b
    BY <1>6, <2>1
  <2>3. /\ offsets' \in Seq(Nat) /\ Len(offsets') = (n - b) + 1
        /\ \A j \in 1 .. n - b : offsets'[j] = offsets[j]
        /\ offsets'[(n - b) + 1] = n + 1
    BY <1>1, <1>6, <2>2 DEF n
  <2>4. (n + 1) - b = (n - b) + 1 /\ n - b \in Nat
    BY <1>6
  <2>5. ASSUME NEW j \in 1 .. (n - b) + 1
        PROVE  offsets'[j] = b + j
    <3>1. CASE j \in 1 .. n - b
      BY <2>1, <2>3, <3>1
    <3>2. CASE j = (n - b) + 1
      BY <1>6, <2>3, <3>2
    <3> QED
      BY <2>4, <3>1, <3>2
  <2>6. DOMAIN offsets' = 1 .. (n - b) + 1
    BY <2>3
  <2>7. offsets' = [j \in DOMAIN offsets' |-> offsets'[j]]
    BY <2>3
  <2> QED
    BY <2>4, <2>5, <2>6, <2>7
<1>14. Holds(b)'
  BY <1>1, <1>9, <1>11, <1>12, <1>13 DEF Holds
<1>15. TypeOK'
  <2>1. offsets' \in [DOMAIN entries' -> DOMAIN logFile']
    <3>1. DOMAIN entries' = 1 .. (n + 1) - b /\ DOMAIN logFile' = 1 .. n + 1
      BY <1>1, <1>6, <1>9, <1>10
    <3>2. \A j \in 1 .. (n + 1) - b : b + j \in 1 .. n + 1
      BY <1>6
    <3> QED
      BY <1>13, <3>1, <3>2
  <2>2. todo' \in [hard : 0 .. MaxTerm, snapshot : Entries, from : 0 .. MaxIndex, entries : Seq(Entries)]
    BY <1>1, <1>3, <1>5 DEF q
  <2>3. isOpen \in BOOLEAN /\ snapFile \in Entries
    BY DEF Inv, TypeOK
  <2> QED
    BY <1>1, <1>2, <1>3, <1>9, <1>10, <2>1, <2>2, <2>3 DEF TypeOK
<1>16. DiskSound' /\ StoreSound' /\ ClosedSound'
  <2>1. DiskSound'
    <3>1. n + 1 \in Nat
      BY <1>6
    <3> QED
      BY <1>1, <1>11, <3>1 DEF DiskSound
  <2> QED
    BY <1>1, <1>2, <1>14, <2>1 DEF StoreSound, ClosedSound
<1>17. AppendAhead'
  <2>1. todo'.snapshot = NoSnapshot /\ todo'.from = 0 /\ todo'.entries = Tail(q)
    BY <1>1, <1>3, <1>4 DEF AppendAhead, q
  <2>2. Kept' = new
    BY <1>1, <2>1 DEF Kept
  <2>3. node.log = entries \o q /\ node.snapshot = snapshot
    BY <1>4 DEF AppendAhead, q
  <2>4. entries \o q = new \o Tail(q)
    BY <1>1, <1>2, <1>5, HeadMoves DEF e, q, new
  <2>5. ASSUME NEW j \in 1 .. Len(Tail(q))
        PROVE  Tail(q)[j].index = x + (l + 1) + j /\ Tail(q)[j].term # 0
    <3>1. j \in 1 .. Len(q) - 1 /\ j + 1 \in 1 .. Len(q) /\ x + l + (j + 1) = x + (l + 1) + j
      BY <1>5, <1>6
    <3> QED
      BY <1>5, <1>7, <3>1
  <2> QED
    BY <1>1, <1>10, <2>1, <2>2, <2>3, <2>4, <2>5 DEF AppendAhead, x
<1>18. UpdateSound'
  BY <1>1, <1>3, <1>17 DEF UpdateSound
<1>19. ReadLog(logFile, snapFile)' = new
  <2>1. ReadLog(g, snapFile) = SubSeq(g, b + 1, n + 1)
    <3>1. n + 1 \in Nat
      BY <1>6
    <3> QED
      BY <1>2, <1>9, <1>11, <3>1, ReadsBack
  <2> QED
    BY <1>1, <1>12, <2>1
<1> QED
  BY <1>8, <1>15, <1>16, <1>18, <1>19 DEF Inv, e, new, x, l

LEMMA StepInv ==
    ASSUME "cut" \notin Faults, Inv, [Next]_vars
    PROVE  Inv'
<1>1. CASE UNCHANGED vars
  <2>1. UNCHANGED <<hardFile, snapFile, logFile, isOpen, snapshot, entries, offsets, node, todo>>
    BY <1>1 DEF vars, disk, store
  <2> QED
    BY <2>1 DEF Inv, TypeOK, DiskSound, StoreSound, ClosedSound, UpdateSound, Holds,
                InstallAhead, AppendAhead, Kept, Suffix
<1> QED
  BY <1>1, OpenInv, ReplicateInv, CompactLogInv, StoreHardStateInv, InstallSnapshotInv,
     CutInstallInv, TruncateInv, AppendEntryInv, CrashInv DEF Next

LEMMA SpecInv == ASSUME "cut" \notin Faults PROVE Spec => []Inv
  BY InitInv, StepInv, PTL DEF Spec

-----------------------------------------------------------------------------
(* The theorems.                                                            *)

\* Offsets stay places of the log file, and every record has its type.
THEOREM TypeCorrect == ASSUME "cut" \notin Faults PROVE Spec => []TypeOK
<1>1. Inv => TypeOK
  BY DEF Inv
<1> QED
  BY <1>1, SpecInv, PTL

\* Wherever Persist stops, what it has written is what readLog returns, and
\* truncate cuts at the places readLog would find.
THEOREM MemoryIsOnDisk == ASSUME "cut" \notin Faults PROVE Spec => []MemoryMatchesDisk
<1>1. Inv => MemoryMatchesDisk
  BY OpenFacts DEF MemoryMatchesDisk
<1> QED
  BY <1>1, SpecInv, PTL

\* When Persist has returned, the store has the node's snapshot and log.
THEOREM StoreFollowsNode == ASSUME "cut" \notin Faults PROVE Spec => []StoreMirrorsNode
<1>1. Inv => StoreMirrorsNode
  BY IdleFacts DEF StoreMirrorsNode
<1> QED
  BY <1>1, SpecInv, PTL

\* An installSnapshot cut off at a log that starts at index 1 and has the
\* snapshot's entry loses no entry it would have kept.
THEOREM CutLosesNothing == ASSUME "cut" \notin Faults PROVE Spec => CompactionLosesNothing
<1>1. ASSUME Inv, CutInstall
      PROVE  LET found == ReadLog(logFile', snapFile')
             IN  \A j \in DOMAIN Suffix : \E m \in DOMAIN found : found[m] = Suffix[j]
  <2>1. ReadLog(logFile', snapFile') = Suffix
    BY <1>1, CutInstallInv
  <2> QED
    BY <2>1
<1>2. Inv => [CutInstall =>
         LET found == ReadLog(logFile', snapFile')
         IN  \A j \in DOMAIN Suffix : \E m \in DOMAIN found : found[m] = Suffix[j]]_vars
  BY <1>1
<1> QED
  BY <1>2, SpecInv, PTL DEF CompactionLosesNothing

\* Every step of the store is a step of StableStore, or changes nothing that
\* the next Open would read.
LEMMA StepImplements ==
    ASSUME "cut" \notin Faults, Inv, [Next]_vars
    PROVE  [SS!Next]_<<SS!state, todo>>
<1> DEFINE L == ReadLog(logFile, snapFile)
<1>1. ASSUME isOpen PROVE snapshot = snapFile /\ L = entries
  BY <1>1, OpenFacts
<1>2. CASE UNCHANGED vars
  BY <1>2 DEF vars, disk, store, SS!state
<1>3. CASE Open
  <2>1. L' = L
    BY <1>3, OpenInv
  <2> QED
    BY <1>3, <2>1 DEF Open, SS!state
<1>4. CASE Replicate
  <2>1. todo = NoUpdate /\ UNCHANGED <<hardFile, snapFile, logFile>>
    BY <1>4 DEF Replicate, ReplicateAt, Idle, disk
  <2> QED
    BY <2>1 DEF SS!Next, SS!Request, SS!state, SS!Nothing, SS!NoEntry, NoUpdate, NoSnapshot, Entry
<1>5. CASE CompactLog
  <2>1. todo = NoUpdate /\ UNCHANGED <<hardFile, snapFile, logFile>>
    BY <1>5 DEF CompactLog, CompactLogAt, Idle, disk
  <2> QED
    BY <2>1 DEF SS!Next, SS!Request, SS!state, SS!Nothing, SS!NoEntry, NoUpdate, NoSnapshot, Entry
<1>6. CASE StoreHardState
  <2>1. /\ todo.hard > hardFile /\ hardFile' = todo.hard /\ todo' = [todo EXCEPT !.hard = 0]
        /\ snapFile' = snapFile /\ L' = L
    BY <1>6 DEF StoreHardState, Inv, UpdateSound
  <2> QED
    BY <2>1 DEF SS!Next, SS!SetHard, SS!Leaves
<1>7. CASE InstallSnapshot
  <2>1. L' = Suffix
    BY <1>7, InstallSnapshotInv
  <2>2. /\ isOpen /\ todo.hard = 0 /\ todo.snapshot.index > snapshot.index /\ snapFile' = todo.snapshot
        /\ hardFile' = hardFile /\ todo' = [todo EXCEPT !.snapshot = NoSnapshot]
    BY <1>7 DEF InstallSnapshot, Installing
  <2>3. SS!Install
    BY <1>1, <2>1, <2>2 DEF SS!Install, SS!Leaves, Suffix, SS!NoEntry, NoSnapshot, Entry
  <2> QED
    BY <2>3 DEF SS!Next
<1>8. CASE CutInstall
  <2>1. L' = Suffix
    BY <1>8, CutInstallInv
  <2>2. /\ isOpen /\ todo.hard = 0 /\ todo.snapshot.index > snapshot.index /\ snapFile' = todo.snapshot
        /\ hardFile' = hardFile /\ todo' = NoUpdate
    BY <1>8 DEF CutInstall, Installing, Stopped
  <2>3. SS!Install
    BY <1>1, <2>1, <2>2 DEF SS!Install, SS!Leaves, Suffix, SS!Nothing, SS!NoEntry, NoUpdate, NoSnapshot, Entry
  <2> QED
    BY <2>3 DEF SS!Next
<1>9. CASE Truncate
  <2>1. L' = SubSeq(entries, 1, todo.from - snapshot.index - 1) /\ todo.from > snapshot.index
    BY <1>9, TruncateInv
  <2>2. /\ isOpen /\ todo.hard = 0 /\ snapFile' = snapFile
        /\ hardFile' = hardFile /\ todo' = [todo EXCEPT !.from = 0]
    BY <1>9 DEF Truncate
  <2>3. SS!Cut
    BY <1>1, <2>1, <2>2 DEF SS!Cut, SS!Leaves
  <2> QED
    BY <2>3 DEF SS!Next
<1>10. CASE AppendEntry
  <2>1. /\ L' = Append(entries, Head(todo.entries))
        /\ Head(todo.entries).index = snapshot.index + Len(entries) + 1
    BY <1>10, AppendEntryInv
  <2>2. /\ isOpen /\ todo.hard = 0 /\ todo.from = 0 /\ todo.entries # <<>> /\ snapFile' = snapFile
        /\ hardFile' = hardFile /\ todo' = [todo EXCEPT !.entries = Tail(@)]
    BY <1>10 DEF AppendEntry, Appending
  <2>3. SS!Extend
    BY <1>1, <2>1, <2>2 DEF SS!Extend, SS!Leaves
  <2> QED
    BY <2>3 DEF SS!Next
<1>11. CASE Crash
  <2>1. L' = L
    BY <1>11, CrashInv
  <2>2. hardFile' = hardFile /\ snapFile' = snapFile /\ todo' = NoUpdate
    BY <1>11 DEF Crash, Stopped
  <2>3. SS!Crash
    BY <2>1, <2>2 DEF SS!Crash, SS!state, SS!Nothing, SS!NoEntry, NoUpdate, NoSnapshot, Entry
  <2> QED
    BY <2>3 DEF SS!Next
<1> QED
  BY <1>2, <1>3, <1>4, <1>5, <1>6, <1>7, <1>8, <1>9, <1>10, <1>11 DEF Next

\* Read as the next Open would read it, the directory implements StableStore:
\* an update takes effect part by part in its order, and a crash undoes none
\* of it (Persist, installSnapshot, truncate, readLog).
THEOREM StoreImplements == ASSUME "cut" \notin Faults PROVE Spec => Implements
<1>1. Init => SS!Init
  <2> SUFFICES ASSUME Init PROVE SS!Init
    OBVIOUS
  <2>1. hardFile = 0 /\ snapFile = NoSnapshot /\ logFile = <<>> /\ todo = NoUpdate
    BY DEF Init
  <2>2. NoSnapshot \in Entries /\ logFile \in Seq(Entries)
    BY <2>1, StoreAssumption DEF NoSnapshot, Entry, Entries
  <2>3. Shaped(logFile, snapFile, 0, 0)
    BY <2>1 DEF Shaped
  <2>4. ReadLog(logFile, snapFile) = SubSeq(logFile, 0 + 1, 0)
    BY <2>1, <2>2, <2>3, ReadsBack
  <2>5. ReadLog(logFile, snapFile) = <<>>
    BY <2>1, <2>2, <2>4
  <2> QED
    BY <2>1, <2>5 DEF SS!Init, SS!Nothing, SS!NoEntry, NoUpdate, NoSnapshot, Entry
<1> QED
  BY <1>1, StepImplements, SpecInv, PTL DEF Spec, Implements, SS!Spec
=============================================================================
