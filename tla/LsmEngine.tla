----------------------------- MODULE LsmEngine -----------------------------
(***************************************************************************)
(* The embedded database of db/db.go over its write-ahead log, memtable,   *)
(* SSTables and manifest.                                                  *)
(*                                                                         *)
(* Every exported operation runs under db.mu, so operations do not         *)
(* interleave; what interleaves with them is a crash of the process or a   *)
(* power failure, and the failure of any one system call.  The model       *)
(* therefore cuts an operation where the directory changes: pc says which  *)
(* step of the operation comes next ("ready" when none runs and the lock   *)
(* is free, "closed" when no process has the directory open).              *)
(*                                                                         *)
(* Faults names the failures the environment may inject:                   *)
(*   "io"         a call fails and the file system is as before it, or     *)
(*                holds a partly written SSTable                           *)
(*   "power"      the machine stops: unsynced WAL bytes may be lost, and   *)
(*                an unsynced truncation of the WAL may be undone          *)
(*   "dirsync"    manifest.Store fails after its rename took effect        *)
(*   "shortwrite" a WAL append fails after writing part of the record      *)
(*   "headercut"  a crash cuts the last WAL record right after its header  *)
(*                                                                         *)
(* A definition Name_Fault is Name with a plausible fault, kept to show    *)
(* that the properties notice it; the specification does not use it.       *)
(***************************************************************************)
EXTENDS LsmTables

CONSTANTS
    FlushThreshold,      \* Options.FlushThreshold, in distinct keys
    CompactionThreshold, \* Options.CompactionThreshold, in SSTables
    Oversized,           \* the values longer than the limit ReadAll accepts
    Faults,              \* the failures the environment injects
    MaxSeq,              \* bound: the last sequence number handed out
    MaxFile              \* bound: the last SSTable number used

ASSUME EngineAssumption ==
    /\ Tombstone \notin Values
    /\ Oversized \subseteq Values
    /\ FlushThreshold \in Nat \ {0}
    /\ CompactionThreshold \in Nat \ {0}
    /\ MaxSeq \in Nat
    /\ MaxFile \in Nat

VARIABLES
    \* The directory.
    files,    \* SSTable number -> status and records
    manifest, \* the published manifest; version 0 when there is none
    wal,      \* the frames of the WAL file
    synced,   \* how many frames of the WAL are known to be on stable storage
    stale,    \* earlier WAL contents whose truncation is not synced yet
    \* The open DB.
    mem, nextSeq,  \* db.mem and its next sequence number
    readers,       \* db.readers: SSTable numbers, newest first
    cur,           \* db.manifest
    nextSST,       \* db.nextSST
    obsolete,      \* compacted files that are still to be removed
    opening,       \* TRUE while Open runs: an error then closes the DB
    pc

disk == <<files, manifest, wal, synced, stale>>
memory == <<mem, nextSeq, readers, cur, nextSST, obsolete, opening>>
vars == <<disk, memory, pc>>

FileNum == 1 .. MaxFile

Absent == [status |-> "absent", recs |-> {}]
Torn == [status |-> "torn", recs |-> {}]
Whole(T) == [status |-> "whole", recs |-> T]

\* A WAL frame: a record that reached the file in full, or a partial one
\* ("header": all of its header and nothing more).
Frame(r) == [cut |-> "whole", rec |-> r]
Partial(cut) == [cut |-> cut]

NoManifest == [version |-> 0, ssts |-> <<>>, next |-> 0, lastSeq |-> 0]

\* manifest.Store writes the current version whatever the state's is.
Published(st) == [st EXCEPT !.version = 2]

Max2(m, n) == IF m >= n THEN m ELSE n

ElementsOf(s) == {s[i] : i \in DOMAIN s}

Newest1st(s) == [i \in DOMAIN s |-> s[Len(s) + 1 - i]]

TablesOf(ssts) == [i \in DOMAIN ssts |-> files[ssts[i]].recs]

\* What Get and Scan read, newest first.
Sources == <<mem>> \o TablesOf(readers)

-----------------------------------------------------------------------------
(* Recovery: openSSTables, WAL.ReadAll, sequenceWAL.                        *)

\* openSSTables: the published manifest, or without one a scan of the
\* directory that takes every .sst file in name order.
Scanned ==
    LET nums == {n \in FileNum : files[n].status # "absent"}
        Nth(i) == CHOOSE n \in nums : Cardinality({m \in nums : m <= n}) = i
    IN  [version |-> 0, next |-> MaxOr0(nums), lastSeq |-> 0,
         ssts |-> [i \in 1 .. Cardinality(nums) |-> Nth(i)]]

Found == IF manifest.version = 0 THEN Scanned ELSE manifest

Legacy == manifest.version < 2

SSTablesReadable ==
    \A n \in ElementsOf(Found.ssts) : files[n].status = "whole"

\* maxSequence for a legacy database, the manifest's LastSeq otherwise.
LastSeq ==
    IF Legacy
    THEN MaxOr0(SeqsOf(UNION ElementsOf(TablesOf(Found.ssts))))
    ELSE Found.lastSeq

\* WAL.ReadAll, as the sets of frames it may return.  Reading stops at a
\* length field over the limit and at a record that ends with the file.  A
\* cut record that is not the last swallows at least the start of the next
\* one; reading may stop there, or find a record boundary again later.  A
\* file that ends right after a header is an error: no result at all.
ReadAll(w) ==
    LET bad  == {i \in DOMAIN w : w[i].cut # "whole" \/ w[i].rec.val \in Oversized}
        stop == CHOOSE i \in bad : \A j \in bad : i <= j
        From(j) == {i \in j .. Len(w) : \A m \in j .. i : m \notin bad}
    IN  IF bad = {} THEN {DOMAIN w}
        ELSE IF w[stop].cut = "header" /\ stop = Len(w) THEN {}
        ELSE IF w[stop].cut = "whole" THEN {1 .. (stop - 1)}
        ELSE {1 .. (stop - 1)}
                \cup {(1 .. (stop - 1)) \cup From(j) : j \in (stop + 2) .. Len(w)}

\* sequenceWAL: the records of the frames in S to replay.  A legacy WAL that
\* reuses a published number is renumbered above everything, in WAL order.
Base(S) == Max2(LastSeq, MaxOr0({wal[i].rec.seq : i \in S}))
Reused_Never(S) == FALSE
Reused(S) == Legacy /\ \E i \in S : wal[i].rec.seq <= LastSeq
Renumber_Backwards(i, S) ==
    [wal[i].rec EXCEPT !.seq = Base(S) + Cardinality({j \in S : j >= i})]
Renumber(i, S) ==
    [wal[i].rec EXCEPT !.seq = Base(S) + Cardinality({j \in S : j <= i})]
SequenceWAL(S) ==
    IF Reused(S) THEN {Renumber(i, S) : i \in S}
    ELSE {wal[i].rec : i \in {j \in S : Legacy \/ wal[j].rec.seq > LastSeq}}

\* ReadAll ends by cutting the file after the last record it returned.
Truncated_Never(S) == wal
Truncated(S) == SubSeq(wal, 1, MaxOr0(S))

-----------------------------------------------------------------------------
(* The directory before the first Open.                                     *)

\* The open DB's variables when no process has the directory open.
Wiped ==
    /\ mem' = {} /\ nextSeq' = 1 /\ readers' = <<>> /\ cur' = NoManifest
    /\ nextSST' = 0 /\ obsolete' = {} /\ opening' = FALSE
    /\ pc' = "closed"

ClosedInit ==
    /\ synced = 0 /\ stale = {}
    /\ mem = {} /\ nextSeq = 1 /\ readers = <<>> /\ cur = NoManifest
    /\ nextSST = 0 /\ obsolete = {} /\ opening = FALSE
    /\ pc = "closed"

Init ==
    /\ ClosedInit
    /\ files = [n \in FileNum |-> Absent]
    /\ manifest = NoManifest
    /\ wal = <<>>

-----------------------------------------------------------------------------
(* Open.                                                                    *)

\* Open and openEmbedded up to the point where a legacy database publishes
\* its first LastSeq: by a flush if the WAL was renumbered, directly if not.
Open ==
    /\ pc = "closed"
    /\ SSTablesReadable
    /\ \E S \in ReadAll(wal) :
         LET recs == SequenceWAL(S)
         IN  /\ mem' = Winners(recs)
             /\ nextSeq' = 1 + Max2(LastSeq, MaxOr0(SeqsOf(recs)))
             /\ wal' = Truncated(S)
             /\ cur' = [Found EXCEPT !.lastSeq = LastSeq]
             /\ pc' = IF ~Legacy THEN "ready"
                      ELSE IF Reused(S) THEN "flush" ELSE "upgrade"
    /\ synced' = IF synced <= Len(wal') THEN synced ELSE Len(wal')
    /\ readers' = Newest1st(Found.ssts)
    /\ nextSST' = Found.next
    /\ obsolete' = {}
    /\ opening' = Legacy
    /\ UNCHANGED <<files, manifest, stale>>

\* publishSequenceUpgrade when nothing was renumbered.
PublishUpgrade ==
    /\ pc = "upgrade"
    /\ manifest' = Published(cur)
    /\ opening' = FALSE
    /\ pc' = "ready"
    /\ UNCHANGED <<files, wal, synced, stale, mem, nextSeq, readers, cur, nextSST, obsolete>>

\* An error inside Open closes the DB, which syncs the WAL; an error of any
\* other operation is returned to the caller and leaves the DB open, with
\* nextSST back at n.
Failed(n) ==
    IF opening
    THEN Wiped /\ synced' = Len(wal') /\ stale' = {}
    ELSE /\ pc' = "ready"
         /\ nextSST' = n
         /\ UNCHANGED <<synced, stale, mem, nextSeq, readers, cur, obsolete, opening>>

\* How a failing manifest.Store may leave the published manifest.
StoreOutcomes(st) ==
    {manifest} \cup IF "dirsync" \in Faults THEN {Published(st)} ELSE {}

UpgradeFails ==
    /\ pc = "upgrade"
    /\ "io" \in Faults
    /\ manifest' \in StoreOutcomes(cur)
    /\ UNCHANGED <<files, wal>>
    /\ Failed(nextSST)

-----------------------------------------------------------------------------
(* Set and Delete.                                                          *)

\* The WAL append succeeds; maybeFlush follows.
Write(k, v) ==
    /\ pc = "ready"
    /\ nextSeq <= MaxSeq
    /\ LET r == Rec(k, nextSeq, v)
       IN  /\ wal' = Append(wal, Frame(r))
           /\ mem' = SetRaw(mem, r)
    /\ nextSeq' = nextSeq + 1
    /\ pc' = IF Cardinality(mem') >= FlushThreshold THEN "flush" ELSE "ready"
    /\ UNCHANGED <<files, manifest, synced, stale, readers, cur, nextSST, obsolete, opening>>

\* What a failing append leaves behind in the file.
AppendLeftovers ==
    (IF "io" \in Faults THEN {<<>>} ELSE {})
        \cup IF "shortwrite" \in Faults THEN {<<Partial("torn")>>} ELSE {}

\* The WAL append fails: the number is spent, the memtable is not touched.
WriteFails ==
    /\ pc = "ready"
    /\ nextSeq <= MaxSeq
    /\ nextSeq' = nextSeq + 1
    /\ \E left \in AppendLeftovers : wal' = wal \o left
    /\ UNCHANGED <<files, manifest, synced, stale, mem, readers, cur, nextSST, obsolete, opening, pc>>

\* The process dies inside the append and leaves part of the record.
CrashInWrite ==
    /\ pc = "ready"
    /\ nextSeq <= MaxSeq
    /\ \E cut \in {"torn"} \cup IF "headercut" \in Faults THEN {"header"} ELSE {} :
         wal' = Append(wal, Partial(cut))
    /\ Wiped
    /\ UNCHANGED <<files, manifest, synced, stale>>

-----------------------------------------------------------------------------
(* flush.                                                                   *)

Room == nextSST < MaxFile

\* A file that sstable.Write did not finish stays under its final name.
PartlyWritten == files' \in {files, [files EXCEPT ![nextSST + 1] = Torn]}

ForceFlush ==
    /\ pc = "ready"
    /\ mem # {}
    /\ pc' = "flush"
    /\ UNCHANGED <<disk, memory>>


\* sstable.Write and sstable.Open of the new table.
FlushWrite ==
    /\ pc = "flush"
    /\ Room
    /\ nextSST' = nextSST + 1
    /\ files' = [files EXCEPT ![nextSST + 1] = Whole(mem)]
    /\ pc' = "publish"
    /\ UNCHANGED <<manifest, wal, synced, stale, mem, nextSeq, readers, cur, obsolete, opening>>

FlushWriteFails_RollsBackTwice ==
    /\ pc = "flush"
    /\ Room
    /\ "io" \in Faults
    /\ PartlyWritten
    /\ UNCHANGED <<manifest, wal>>
    /\ Failed(nextSST - 1)

\* The write fails, or opening the new table does and the file is removed.
FlushWriteFails ==
    /\ pc = "flush"
    /\ Room
    /\ "io" \in Faults
    /\ PartlyWritten \/ files' = [files EXCEPT ![nextSST + 1] = Absent]
    /\ UNCHANGED <<manifest, wal>>
    /\ Failed(nextSST)

FlushState_OffByOne ==
    [version |-> cur.version, ssts |-> Append(cur.ssts, nextSST), next |-> nextSST,
     lastSeq |-> Max2(cur.lastSeq, nextSeq - 2)]

FlushState ==
    [version |-> cur.version, ssts |-> Append(cur.ssts, nextSST), next |-> nextSST,
     lastSeq |-> Max2(cur.lastSeq, nextSeq - 1)]

FlushPublish_RestartsSeq ==
    /\ pc = "publish"
    /\ manifest' = Published(FlushState)
    /\ cur' = FlushState
    /\ readers' = <<nextSST>> \o readers
    /\ mem' = {}
    /\ nextSeq' = 1
    /\ pc' = "reset"
    /\ UNCHANGED <<files, wal, synced, stale, nextSST, obsolete, opening>>

\* manifest.Store, then the new reader and the empty memtable.
FlushPublish ==
    /\ pc = "publish"
    /\ manifest' = Published(FlushState)
    /\ cur' = FlushState
    /\ readers' = <<nextSST>> \o readers
    /\ mem' = {}
    /\ pc' = "reset"
    /\ UNCHANGED <<files, wal, synced, stale, nextSeq, nextSST, obsolete, opening>>

\* The new table is removed again, whatever the failed Store published.
FlushPublishFails ==
    /\ pc = "publish"
    /\ "io" \in Faults
    /\ manifest' \in StoreOutcomes(FlushState)
    /\ files' = [files EXCEPT ![nextSST] = Absent]
    /\ UNCHANGED wal
    /\ Failed(nextSST - 1)

\* WAL.Reset, then maybeCompact.  The truncation is not synced.
WalReset ==
    /\ pc = "reset"
    /\ wal' = <<>>
    /\ synced' = 0
    /\ stale' = IF "power" \in Faults THEN stale \cup {wal} ELSE {}
    /\ IF Len(readers) >= CompactionThreshold
       THEN pc' = "compact" /\ UNCHANGED opening
       ELSE pc' = "ready" /\ opening' = FALSE
    /\ UNCHANGED <<files, manifest, mem, nextSeq, readers, cur, nextSST, obsolete>>

WalResetFails ==
    /\ pc = "reset"
    /\ "io" \in Faults
    /\ UNCHANGED <<files, manifest, wal>>
    /\ Failed(nextSST)

-----------------------------------------------------------------------------
(* compact.                                                                 *)

ForceCompact ==
    /\ pc = "ready"
    /\ readers # <<>>
    /\ pc' = "compact"
    /\ UNCHANGED <<disk, memory>>

CompactOut == Compact(ElementsOf(TablesOf(readers)))

CompactWrite_RemovesInputs ==
    /\ pc = "compact"
    /\ Room
    /\ nextSST' = nextSST + 1
    /\ files' = [n \in FileNum |->
                    IF n = nextSST + 1 /\ CompactOut # {} THEN Whole(CompactOut)
                    ELSE IF n \in ElementsOf(readers) THEN Absent ELSE files[n]]
    /\ pc' = "swap"
    /\ UNCHANGED <<manifest, wal, synced, stale, mem, nextSeq, readers, cur, obsolete, opening>>

\* The merge creates no file when no record is left.
CompactWrite ==
    /\ pc = "compact"
    /\ Room
    /\ nextSST' = nextSST + 1
    /\ files' = IF CompactOut = {} THEN files
                ELSE [files EXCEPT ![nextSST + 1] = Whole(CompactOut)]
    /\ pc' = "swap"
    /\ UNCHANGED <<manifest, wal, synced, stale, mem, nextSeq, readers, cur, obsolete, opening>>

CompactWriteFails ==
    /\ pc = "compact"
    /\ Room
    /\ "io" \in Faults
    /\ PartlyWritten
    /\ UNCHANGED <<manifest, wal>>
    /\ Failed(nextSST)

\* Opening the merged file fails: it stays, and its number is not given back.
CompactOpenFails ==
    /\ pc = "compact"
    /\ Room
    /\ "io" \in Faults
    /\ CompactOut # {}
    /\ files' = [files EXCEPT ![nextSST + 1] = Whole(CompactOut)]
    /\ UNCHANGED <<manifest, wal>>
    /\ Failed(nextSST + 1)

CompactState_RecomputesLastSeq ==
    [version |-> cur.version, ssts |-> IF CompactOut = {} THEN <<>> ELSE <<nextSST>>,
     next |-> nextSST, lastSeq |-> MaxOr0(SeqsOf(CompactOut))]

CompactState ==
    [version |-> cur.version, ssts |-> IF CompactOut = {} THEN <<>> ELSE <<nextSST>>,
     next |-> nextSST, lastSeq |-> cur.lastSeq]

CompactPublish ==
    /\ pc = "swap"
    /\ manifest' = Published(CompactState)
    /\ cur' = CompactState
    /\ readers' = CompactState.ssts
    /\ obsolete' = ElementsOf(readers)
    /\ pc' = "remove"
    /\ UNCHANGED <<files, wal, synced, stale, mem, nextSeq, nextSST, opening>>

CompactPublishFails ==
    /\ pc = "swap"
    /\ "io" \in Faults
    /\ manifest' \in StoreOutcomes(CompactState)
    /\ files' = IF CompactOut = {} THEN files ELSE [files EXCEPT ![nextSST] = Absent]
    /\ UNCHANGED wal
    /\ Failed(nextSST - 1)

\* The old files go one by one; a failing os.Remove is ignored.
RemoveObsolete ==
    /\ pc = "remove"
    /\ \E n \in obsolete :
         /\ files' \in {[files EXCEPT ![n] = Absent]}
                        \cup IF "io" \in Faults THEN {files} ELSE {}
         /\ obsolete' = obsolete \ {n}
    /\ IF obsolete' = {} THEN pc' = "ready" /\ opening' = FALSE
       ELSE UNCHANGED <<pc, opening>>
    /\ UNCHANGED <<manifest, wal, synced, stale, mem, nextSeq, readers, cur, nextSST>>

-----------------------------------------------------------------------------
(* Close, and the failures of the process and the machine.                  *)

Close ==
    /\ pc = "ready"
    /\ synced' = Len(wal)
    /\ stale' = {}
    /\ Wiped
    /\ UNCHANGED <<files, manifest, wal>>

Crash ==
    /\ pc # "closed"
    /\ IF pc \in {"flush", "compact"} /\ Room THEN PartlyWritten ELSE UNCHANGED files
    /\ Wiped
    /\ UNCHANGED <<manifest, wal, synced, stale>>

\* Some unsynced suffix of the WAL is lost, or the file is as it was before
\* one of its truncations.
PowerLoss ==
    /\ "power" \in Faults
    /\ \/ \E n \in synced .. Len(wal) : wal' = SubSeq(wal, 1, n)
       \/ wal' \in stale
    /\ synced' = Len(wal')
    /\ stale' = {}
    /\ Wiped
    /\ UNCHANGED <<files, manifest>>

\* Set writes a value, Delete writes Tombstone.
Mutation == \E k \in Keys, v \in Contents : Write(k, v)

Next ==
    \/ Open \/ PublishUpgrade \/ UpgradeFails
    \/ Mutation \/ WriteFails \/ CrashInWrite
    \/ ForceFlush \/ FlushWrite \/ FlushWriteFails
    \/ FlushPublish \/ FlushPublishFails \/ WalReset \/ WalResetFails
    \/ ForceCompact \/ CompactWrite \/ CompactWriteFails \/ CompactOpenFails
    \/ CompactPublish \/ CompactPublishFails \/ RemoveObsolete
    \/ Close \/ Crash \/ PowerLoss

Spec == Init /\ [][Next]_vars

-----------------------------------------------------------------------------
(* Properties.                                                              *)

Manifest == [version : 0 .. 2, ssts : Seq(FileNum), next : 0 .. MaxFile, lastSeq : Nat]
FileState == [status : {"absent", "torn", "whole"}, recs : SUBSET Record]
FrameType == [cut : {"whole"}, rec : Record] \cup [cut : {"torn", "header"}]

\* The variables have their types: in particular SSTable numbers stay within
\* FileNum and the memtable only holds records.
TypeOK ==
    /\ files \in [FileNum -> FileState]
    /\ manifest \in Manifest
    /\ wal \in Seq(FrameType)
    /\ synced \in Nat
    /\ stale \in SUBSET Seq(FrameType)
    /\ mem \in SUBSET Record
    /\ nextSeq \in Nat \ {0}
    /\ readers \in Seq(FileNum)
    /\ cur \in Manifest
    /\ nextSST \in 0 .. MaxFile
    /\ obsolete \in SUBSET FileNum
    /\ opening \in BOOLEAN
    /\ pc \in {"closed", "upgrade", "ready", "flush", "publish", "reset",
              "compact", "swap", "remove"}

\* Whenever the process or the machine stops, the next Open succeeds: the
\* manifest names only complete SSTables (flush and compact publish a file
\* after writing it and remove one after unpublishing it) and WAL.ReadAll
\* copes with whatever the last append left.
Openable == SSTablesReadable /\ ReadAll(wal) # {}

\* Every record that was appended in full is returned by the next ReadAll,
\* whatever else the WAL holds.
ReplayComplete ==
    \A S \in ReadAll(wal) :
        \A i \in DOMAIN wal : wal[i].cut = "whole" => i \in S

\* A frame counts if it is complete and not yet covered by an SSTable.
Complete(i) == wal[i].cut = "whole"
Covered(i) == Complete(i) /\ ~Legacy /\ wal[i].rec.seq <= manifest.lastSeq

\* What the directory holds if only the first n frames of the WAL are there:
\* the last write of each key in WAL order, over the published SSTables.
Durable(n) ==
    [k \in Keys |->
        LET writes == {i \in 1 .. n : Complete(i) /\ ~Covered(i) /\ wal[i].rec.key = k}
        IN  IF writes # {} THEN wal[MaxOr0(writes)].rec.val
            ELSE Get(TablesOf(Newest1st(Found.ssts)), k)]

\* While no operation runs, Get and Scan agree with each other and with the
\* directory: a flush or a compaction that failed half-way, and a reopen,
\* change no key's value.
ReadsDurable ==
    pc = "ready" =>
        \A k \in Keys :
            /\ Get(Sources, k) = Durable(Len(wal))[k]
            /\ Scan(Sources, k) = Durable(Len(wal))[k]

\* A layer only holds sequence numbers above every older layer's, so Get may
\* stop at the first table that has the key: the memtable is above every
\* SSTable, each SSTable above the older ones, and the published LastSeq
\* bounds them all, so that no number is handed out twice.
LayersOrdered ==
    pc = "ready" =>
        /\ \A i, j \in DOMAIN Sources : i < j =>
             \A r \in Sources[i], s \in Sources[j] : r.seq > s.seq
        /\ \A i \in DOMAIN readers : \A r \in files[readers[i]].recs : r.seq <= manifest.lastSeq
        /\ \A r \in mem : manifest.lastSeq < r.seq /\ r.seq < nextSeq

\* Only Set and Delete change what the directory holds, and only for their
\* own key, and only a power failure takes it back: no flush, compaction,
\* upgrade, crash or reopen does.
OnlyWritesShow ==
    [][\A k \in Keys :
         \/ UNCHANGED <<wal, files, manifest>>
         \/ Durable(Len(wal))'[k] = Durable(Len(wal))[k]
         \/ PowerLoss
         \/ \E v \in Contents : Write(k, v)]_vars

\* No step moves the published LastSeq or NextSST back, not even the
\* compaction that drops the record with the highest number.
NumbersMoveForward ==
    [][/\ manifest'.lastSeq >= manifest.lastSeq
       /\ manifest'.next >= manifest.next]_vars

\* The contents since the last checkpoint, as KVStore sees them: one for the
\* leading frames that are synced or covered by an SSTable, and one for each
\* complete frame after those.
History ==
    LET first == Max2(synced, Cardinality({i \in DOMAIN wal : Covered(i)}))
        last  == Max2(first, Cardinality({i \in DOMAIN wal : Complete(i)}))
    IN  [m \in 1 .. (last - first + 1) |-> Durable(first + m - 1)]

KV == INSTANCE KVStore WITH history <- History

\* The engine implements KVStore: a write is one step, a flush or a close is
\* a checkpoint, a power failure takes back a suffix of the writes since the
\* last checkpoint, and nothing else shows.
Implements == KV!Spec

=============================================================================
