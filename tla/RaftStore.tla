----------------------------- MODULE RaftStore -----------------------------
(***************************************************************************)
(* The disk-backed Raft store of internal/raftstore, driven by the log of  *)
(* the Raft node above it.                                                 *)
(*                                                                         *)
(* The node changes its own log first and hands the store an update; the   *)
(* store brings the files HARDSTATE, SNAPSHOT and raft.log to it one step  *)
(* at a time, under its lock.  An error of any step stops the runtime, so  *)
(* it is a crash at that step.  A process crash and a power failure differ *)
(* in nothing here: a step that was not synced may be undone, and then the *)
(* crash came before it.                                                   *)
(*                                                                         *)
(* An entry is its index and term, which determine its data.  A file that  *)
(* is written under another name and renamed is not there before that.     *)
(*                                                                         *)
(* installSnapshot renames SNAPSHOT and then raft.log.  A crash between    *)
(* the two is always possible when the old log starts at index 1 and holds *)
(* the snapshot's entry; Faults = {"cut"} allows it everywhere.            *)
(*                                                                         *)
(* HARDSTATE is modelled by its term; a vote changes it in the same way.   *)
(* A definition Name_Fault is Name with a plausible fault, kept to show    *)
(* that the properties notice it; the specification does not use it.       *)
(***************************************************************************)
EXTENDS Naturals, Sequences, FiniteSets

CONSTANTS
    Faults,
    MaxIndex, \* bound: the last log index
    MaxTerm,  \* bound: the last term
    MaxBatch  \* bound: entries in one update

ASSUME StoreAssumption == MaxIndex \in Nat /\ MaxTerm \in Nat /\ MaxBatch \in Nat

VARIABLES
    hardFile, snapFile, logFile,   \* the directory
    isOpen,
    snapshot, entries, offsets,    \* the Store
    node,                          \* the snapshot and log of the Raft node
    todo                           \* the rest of the update in progress

disk == <<hardFile, snapFile, logFile>>
store == <<snapshot, entries, offsets>>
vars == <<disk, isOpen, store, node, todo>>

Entry(i, t) == [index |-> i, term |-> t]
NoSnapshot == Entry(0, 0)
\* A record of the log file that was not written in full: readLog stops here.
TornRecord == Entry(0, 0)
NoUpdate == [hard |-> 0, snapshot |-> NoSnapshot, from |-> 0, entries |-> <<>>]

Last(s, log) == s.index + Len(log)

TermAt(s, log, i) == IF i = s.index THEN s.term ELSE log[i - s.index].term

-----------------------------------------------------------------------------
(* Open.                                                                    *)

\* readLog: how many records it accepts.  The first one has index 1 or
\* follows the snapshot, and every other one follows its predecessor.
Accepted(f, s) ==
    LET Bad(i) == \/ f[i].term = 0
                  \/ IF i = 1 THEN f[i].index \notin {1, s.index + 1}
                     ELSE f[i].index # f[i - 1].index + 1
        bad == {i \in DOMAIN f : Bad(i)}
    IN  IF bad = {} THEN Len(f) ELSE (CHOOSE i \in bad : \A j \in bad : i <= j) - 1

\* Where the records after the snapshot are in the file, and what they hold.
ReadOffsets_FromStart(f, s) ==
    [j \in 1 .. Cardinality({i \in 1 .. Accepted(f, s) : f[i].index > s.index}) |-> j]
ReadOffsets(f, s) ==
    LET n == Accepted(f, s)
        k == Cardinality({i \in 1 .. n : f[i].index <= s.index})
    IN  [j \in 1 .. n - k |-> k + j]

ReadLog(f, s) ==
    LET n == Accepted(f, s)
        k == Cardinality({i \in 1 .. n : f[i].index <= s.index})
    IN  SubSeq(f, k + 1, n)

\* Open, and New of the node from what Load and SnapshotMetadata return.
Open ==
    /\ ~isOpen
    /\ isOpen' = TRUE
    /\ snapshot' = snapFile
    /\ entries' = ReadLog(logFile, snapFile)
    /\ offsets' = ReadOffsets(logFile, snapFile)
    /\ logFile' = SubSeq(logFile, 1, Accepted(logFile, snapFile))
    /\ node' = [snapshot |-> snapFile, log |-> entries']
    /\ UNCHANGED <<hardFile, snapFile, todo>>

-----------------------------------------------------------------------------
(* The updates of the node.                                                 *)

Idle == isOpen /\ todo = NoUpdate

\* An update may come with a new term, 0 when it does not.
HardStates == {0} \cup IF hardFile < MaxTerm THEN {hardFile + 1} ELSE {}

TermOf(h) == IF h = 0 THEN hardFile ELSE h

\* handleAppend and ProposeBatch: entries that go on the log at i, over the
\* ones that conflict with them.
ReplicateAt(h, i, terms) ==
    LET n    == Len(terms)
        last == Last(node.snapshot, node.log)
        new  == [j \in 1 .. n |-> Entry(i + j - 1, terms[j])]
    IN  /\ Idle
        /\ i + n - 1 <= MaxIndex
        /\ \A j \in 1 .. n - 1 : terms[j] <= terms[j + 1]
        /\ TermAt(node.snapshot, node.log, i - 1) <= terms[1]
        /\ i <= last => terms[1] # TermAt(node.snapshot, node.log, i)
        /\ node' = [node EXCEPT !.log = SubSeq(@, 1, i - 1 - node.snapshot.index) \o new]
        /\ todo' = [hard |-> h, snapshot |-> NoSnapshot,
                    from |-> IF i <= last THEN i ELSE 0, entries |-> new]
        /\ UNCHANGED <<disk, isOpen, store>>

Replicate ==
    \E h \in HardStates, i \in node.snapshot.index + 1 .. Last(node.snapshot, node.log) + 1,
       n \in 1 .. MaxBatch :
    \E terms \in [1 .. n -> 1 .. TermOf(h)] : ReplicateAt(h, i, terms)

\* compactLog, for a snapshot of the node's own log (Compact) or one from the
\* leader (handleSnapshot), which has a higher term where they conflict.
CompactLogAt(h, i, t) ==
    LET last == Last(node.snapshot, node.log)
        at   == IF i <= last THEN i ELSE last
        keep == i < last /\ TermAt(node.snapshot, node.log, i) = t
    IN  /\ Idle
        /\ TermAt(node.snapshot, node.log, at) <= t
        /\ node' = [snapshot |-> Entry(i, t),
                    log |-> IF keep THEN SubSeq(node.log, i - node.snapshot.index + 1, Len(node.log))
                            ELSE <<>>]
        /\ todo' = [NoUpdate EXCEPT !.hard = h, !.snapshot = Entry(i, t)]
        /\ UNCHANGED <<disk, isOpen, store>>

CompactLog ==
    \E h \in HardStates, i \in node.snapshot.index + 1 .. MaxIndex :
    \E t \in 1 .. TermOf(h) : CompactLogAt(h, i, t)

-----------------------------------------------------------------------------
(* persist: its steps, in their order.                                      *)

StoreHardState ==
    /\ isOpen /\ todo.hard # 0
    /\ hardFile' = todo.hard
    /\ todo' = [todo EXCEPT !.hard = 0]
    /\ UNCHANGED <<snapFile, logFile, isOpen, store, node>>

\* installSnapshot: the entries it keeps.
Suffix_Never == <<>>
Suffix ==
    LET k == todo.snapshot.index - snapshot.index
    IN  IF k \in DOMAIN entries /\ entries[k].term = todo.snapshot.term
        THEN SubSeq(entries, k + 1, Len(entries)) ELSE <<>>

Installing == isOpen /\ todo.hard = 0 /\ todo.snapshot.index > snapshot.index

InstallSnapshot ==
    /\ Installing
    /\ snapFile' = todo.snapshot
    /\ logFile' = Suffix
    /\ entries' = Suffix
    /\ offsets' = [j \in DOMAIN Suffix |-> j]
    /\ snapshot' = todo.snapshot
    /\ todo' = [todo EXCEPT !.snapshot = NoSnapshot]
    /\ UNCHANGED <<hardFile, isOpen, node>>

\* The store's memory is gone, and the node's.
Stopped ==
    /\ isOpen' = FALSE
    /\ snapshot' = NoSnapshot /\ entries' = <<>> /\ offsets' = <<>>
    /\ node' = [snapshot |-> NoSnapshot, log |-> <<>>]
    /\ todo' = NoUpdate

CutInstall_LogFirst ==
    /\ Installing
    /\ logFile' = Suffix
    /\ Stopped
    /\ UNCHANGED <<hardFile, snapFile>>

\* SNAPSHOT is renamed, raft.log is not.
CutInstall ==
    /\ Installing
    /\ \/ "cut" \in Faults
       \/ logFile # <<>> /\ logFile[1].index = 1
          /\ todo.snapshot.index <= Last(snapshot, entries)
          /\ TermAt(snapshot, entries, todo.snapshot.index) = todo.snapshot.term
    /\ snapFile' = todo.snapshot
    /\ Stopped
    /\ UNCHANGED <<hardFile, logFile>>

Truncate ==
    /\ isOpen /\ todo.hard = 0 /\ todo.from # 0
    /\ LET k == todo.from - snapshot.index
       IN  /\ logFile' = SubSeq(logFile, 1, offsets[k] - 1)
           /\ entries' = SubSeq(entries, 1, k - 1)
           /\ offsets' = SubSeq(offsets, 1, k - 1)
    /\ todo' = [todo EXCEPT !.from = 0]
    /\ UNCHANGED <<hardFile, snapFile, isOpen, snapshot, node>>

Appending == isOpen /\ todo.hard = 0 /\ todo.from = 0 /\ todo.entries # <<>>

AppendEntry_OffsetAfterWrite ==
    /\ Appending
    /\ logFile' = Append(logFile, Head(todo.entries))
    /\ entries' = Append(entries, Head(todo.entries))
    /\ offsets' = Append(offsets, Len(logFile) + 2)
    /\ todo' = [todo EXCEPT !.entries = Tail(@)]
    /\ UNCHANGED <<hardFile, snapFile, isOpen, snapshot, node>>

AppendEntry ==
    /\ Appending
    /\ logFile' = Append(logFile, Head(todo.entries))
    /\ entries' = Append(entries, Head(todo.entries))
    /\ offsets' = Append(offsets, Len(logFile) + 1)
    /\ todo' = [todo EXCEPT !.entries = Tail(@)]
    /\ UNCHANGED <<hardFile, snapFile, isOpen, snapshot, node>>

\* The process stops, inside a write of the log or anywhere else.
Crash ==
    /\ isOpen
    /\ logFile' \in {logFile} \cup IF Appending THEN {Append(logFile, TornRecord)} ELSE {}
    /\ Stopped
    /\ UNCHANGED <<hardFile, snapFile>>

-----------------------------------------------------------------------------

Init ==
    /\ hardFile = 0 /\ snapFile = NoSnapshot /\ logFile = <<>>
    /\ isOpen = FALSE
    /\ snapshot = NoSnapshot /\ entries = <<>> /\ offsets = <<>>
    /\ node = [snapshot |-> NoSnapshot, log |-> <<>>]
    /\ todo = NoUpdate

Next ==
    \/ Open \/ Replicate \/ CompactLog
    \/ StoreHardState \/ InstallSnapshot \/ CutInstall \/ Truncate \/ AppendEntry
    \/ Crash

Spec == Init /\ [][Next]_vars

-----------------------------------------------------------------------------
(* Properties.                                                              *)

Entries == [index : 0 .. MaxIndex, term : 0 .. MaxTerm]

\* The variables have their types; every offset is a place in the log file.
TypeOK ==
    /\ hardFile \in 0 .. MaxTerm
    /\ snapFile \in Entries /\ snapshot \in Entries
    /\ logFile \in Seq(Entries) /\ entries \in Seq(Entries)
    /\ offsets \in [DOMAIN entries -> DOMAIN logFile]
    /\ isOpen \in BOOLEAN
    /\ node \in [snapshot : Entries, log : Seq(Entries)]
    /\ todo \in [hard : 0 .. MaxTerm, snapshot : Entries,
                 from : 0 .. MaxIndex, entries : Seq(Entries)]

\* What Persist has written is what the next Open reads, wherever it stops:
\* readLog returns the entries the store holds, from the places truncate
\* would cut at.
MemoryMatchesDisk ==
    isOpen => /\ snapshot = snapFile
              /\ entries = ReadLog(logFile, snapFile)
              /\ offsets = ReadOffsets(logFile, snapFile)

\* Once Persist has returned, the store has the log of the node, though the
\* two drop prefixes and conflicting suffixes by rules of their own.
StoreMirrorsNode ==
    Idle => snapshot = node.snapshot /\ entries = node.log

\* An installSnapshot that stopped between its two files loses no entry it
\* would have kept: readLog finds every one of them behind the new snapshot.
CompactionLosesNothing ==
    [][CutInstall =>
         LET found == ReadLog(logFile', snapFile')
         IN  \A j \in DOMAIN Suffix : \E m \in DOMAIN found : found[m] = Suffix[j]]_vars

SS == INSTANCE StableStore WITH
        hard <- hardFile, snapshot <- snapFile, log <- ReadLog(logFile, snapFile),
        update <- todo

\* Read as the next Open would read it, the directory implements StableStore:
\* it changes by the steps of the update, in their order, and by nothing
\* else, so a crash leaves what they had reached and never anything between.
Implements == SS!Spec

=============================================================================
