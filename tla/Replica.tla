------------------------------ MODULE Replica ------------------------------
(***************************************************************************)
(* The replicas of a cluster as storage: the state machine of each         *)
(* (internal/kvstate over a replica-mode db.DB), its Raft store, and the   *)
(* node that starts, runs and stops them (cluster/node.go).                *)
(*                                                                         *)
(* Consensus is external here: log is the sequence of entries the replicas *)
(* have agreed on, and each replica holds a prefix of it on disk.  The     *)
(* Raft module shows why there is one such sequence, RaftStore why a       *)
(* prefix on disk stays readable, and LsmEngine what a flush does file by  *)
(* file.  What is left is hard enough: a replica's database forgets what   *)
(* it did not flush, its Raft log forgets what a snapshot covers, and the  *)
(* two are brought together again only when the node starts.               *)
(*                                                                         *)
(* A replica-mode database has no WAL.  Its records carry the log index as *)
(* sequence number, and its manifest the index up to which they are        *)
(* flushed.  A client's session is one more key, here the client itself.   *)
(***************************************************************************)
EXTENDS LsmTables, SequencesExt

CONSTANTS
    Replicas,
    Clients,       \* also the session keys: Clients \subseteq Keys
    FlushAt,       \* records in a memtable that make ApplyBatch flush
    CompactAt,     \* CompactionThreshold: tables that make a flush compact
    SnapshotAt,    \* SnapshotThreshold: applied entries since the last snapshot
    Pieces         \* chunks of a snapshot stream

ASSUME SessionsAreKeys == Clients \subseteq Keys

VARIABLES
    log,        \* the entries agreed on
    rep,        \* Replicas -> the state of a replica, memory and disk
    stream,     \* Replicas -> the snapshot it is being sent, or NoStream
    faults     \* how many more crashes, failed calls, broken streams and lost messages

storage == <<log, rep, stream, faults>>

\* A command of a client with the attempt that proposed it, and the entry
\* without one that a new leader appends (a membership entry is applied the
\* same way).
Command(c, n, k, v, t) == [client |-> c, seq |-> n, key |-> k, val |-> v, try |-> t]
Empty == [client |-> "none"]

\* The image of an index, and whether all of its bytes are there.
NoImage == [index |-> 0, pairs |-> {}, whole |-> TRUE]

NoStream == [image |-> NoImage, got |-> 0]

Fresh == [phase |-> "down", mem |-> {}, tables |-> <<>>, applied |-> 0, durable |-> 0,
          image |-> NoImage, stored |-> 0]
-----------------------------------------------------------------------------
(* The database, as functions from a replica's state to its state.         *)

Sources(d) == <<d.mem>> \o d.tables

\* The first half of flush: the memtable becomes a table, and the manifest
\* names it and the applied index.  An empty memtable publishes the index.
Published(d) ==
    [d EXCEPT !.tables = IF d.mem = {} THEN @ ELSE <<d.mem>> \o @, !.mem = {}, !.durable = d.applied]

\* maybeCompact.
Compacted(d) ==
    IF Len(d.tables) < CompactAt
    THEN d
    ELSE LET kept == Compact(ToSet(d.tables))
         IN  [d EXCEPT !.tables = IF kept = {} THEN <<>> ELSE <<kept>>]

Failed(d) == [d EXCEPT !.phase = "failed"]

\* flush: it works, or it fails before or after the manifest is published.
Flush(d) == {Compacted(Published(d)), Failed(d), Failed(Published(d))}

\* Machine.Apply: an entry without a command, and a request whose number the
\* client's session has reached, change nothing; any other writes its key
\* and the session in one batch.
Mutations_Always(d, index, e) ==
    IF e = Empty THEN {} ELSE {Rec(e.key, index, e.val), Rec(e.client, index, e.seq)}
Mutations(d, index, e) ==
    IF e = Empty
    THEN {}
    ELSE LET session == Get(Sources(d), e.client)
         IN  IF session # Tombstone /\ e.seq <= session
             THEN {}
             ELSE {Rec(e.key, index, e.val), Rec(e.client, index, e.seq)}

\* ApplyBatch: at once an index that is applied already, an error for a gap.
ApplyBatch(d, index, new) ==
    IF index <= d.applied
    THEN {d}
    ELSE IF index # d.applied + 1
         THEN {Failed(d)}
         ELSE LET a == [d EXCEPT !.mem = {r \in @ : r.key \notin KeysOf(new)} \cup new, !.applied = index]
              IN  IF Cardinality(a.mem) < FlushAt THEN {a} ELSE Flush(a)

\* visitReplicaStateLocked: of every key the record with the highest number
\* in the memtable and the tables, if it is not a tombstone.
Image(d) == {[key |-> r.key, val |-> r.val] : r \in Compact(ToSet(Sources(d)))}

\* ReplaceReplicaSnapshot: refuses an older image and one that is cut short;
\* otherwise one table with the image's index, then the manifest.
Replaced(d, im) ==
    [d EXCEPT !.tables = IF im.pairs = {} THEN <<>> ELSE <<{Rec(p.key, im.index, p.val) : p \in im.pairs}>>,
              !.mem = {}, !.applied = im.index, !.durable = im.index]

RestoreSnapshot(d, im) ==
    IF im.index < d.applied \/ ~im.whole THEN {Failed(d)} ELSE {Replaced(d, im), Failed(d), Failed(Replaced(d, im))}

\* kvstate.Open, and what is left of a replica when its process ends.
Ended(d) == [d EXCEPT !.phase = "down", !.mem = {}, !.applied = d.durable]
-----------------------------------------------------------------------------
(* The node.                                                               *)

\* The end of processUpdateWithSnapshot: once enough entries are applied, the
\* database is written to the Raft store as the snapshot of the applied
\* index, and the log up to it is given up.
TakeSnapshot_Durable(d) ==
    IF d.phase = "failed" \/ d.applied - d.image.index < SnapshotAt
    THEN {d}
    ELSE LET s == [d EXCEPT !.image = [index |-> d.applied, pairs |-> Image([d EXCEPT !.mem = {}]), whole |-> TRUE]]
         IN  {s, Failed(s), Failed(d)}
TakeSnapshot(d) ==
    IF d.phase = "failed" \/ d.applied - d.image.index < SnapshotAt
    THEN {d}
    ELSE LET s == [d EXCEPT !.image = [index |-> d.applied, pairs |-> Image(d), whole |-> TRUE]]
         IN  {s, Failed(s), Failed(d)}

\* One committed entry: applied, and perhaps the snapshot that is then due.
Applied(d) ==
    LET e == log[d.applied + 1]
    IN  UNION {TakeSnapshot(a) : a \in ApplyBatch(d, d.applied + 1, Mutations(d, d.applied + 1, e))}

\* A snapshot from the leader: persisted, then restored.  handleSnapshot has
\* ignored one that is not beyond the commit index.
Installed(d, im) ==
    LET s == [d EXCEPT !.image = im, !.stored = IF @ < im.index THEN im.index ELSE @]
    IN  {Failed(d), Failed(s)} \cup RestoreSnapshot(s, im)

\* StartNode: open the machine and the Raft store, restore the store's
\* snapshot if the machine is behind it, and build the Raft node, which
\* refuses an applied index outside its snapshot and log.
Accepts(d) == d.image.index <= d.applied /\ d.applied <= d.stored
Started_NoRestore(d) == {[d EXCEPT !.phase = "up"]}
Started(d) ==
    LET opened == [d EXCEPT !.phase = "up"]
    IN  IF d.image.index > d.applied THEN RestoreSnapshot(opened, d.image) ELSE {opened}

\* A step that ends in d costs one of the failures left.
Becomes(s, d) ==
    /\ d.phase = "failed" => faults > 0
    /\ rep' = [rep EXCEPT ![s] = d]
    /\ faults' = IF d.phase = "failed" THEN faults - 1 ELSE faults
-----------------------------------------------------------------------------
\* The leader l adds an entry that a majority then stores.
Agree(l, e) ==
    /\ rep[l].phase = "up"
    /\ rep[l].stored = Len(log)
    /\ log' = Append(log, e)
    /\ rep' = [rep EXCEPT ![l].stored = @ + 1]
    /\ UNCHANGED <<stream, faults>>

\* The next entry reaches a replica, from one that has not compacted it.
Receive(s) ==
    /\ rep[s].phase = "up"
    /\ \E p \in Replicas \ {s} :
          /\ rep[p].phase = "up"
          /\ rep[p].image.index <= rep[s].stored
          /\ rep[s].stored < rep[p].stored
    /\ rep' = [rep EXCEPT ![s].stored = @ + 1]
    /\ UNCHANGED <<log, stream, faults>>

Apply(s) ==
    /\ rep[s].phase = "up"
    /\ rep[s].applied < rep[s].stored
    /\ \E d \in Applied(rep[s]) : Becomes(s, d)
    /\ UNCHANGED <<log, stream>>

\* SendSnapshot: one stream to a peer at a time (beginSnapshot).  The stream
\* reads the file it opened, whatever the store does meanwhile.
OpenStream(p, s) ==
    /\ p # s
    /\ rep[p].phase = "up"
    /\ rep[p].image.index > rep[s].stored
    /\ stream[s] = NoStream
    /\ stream' = [stream EXCEPT ![s] = [image |-> rep[p].image, got |-> 0]]
    /\ UNCHANGED <<log, rep, faults>>

SendChunk(s) ==
    /\ rep[s].phase = "up"
    /\ stream[s] # NoStream
    /\ stream[s].got < Pieces
    /\ stream' = [stream EXCEPT ![s].got = @ + 1]
    /\ UNCHANGED <<log, rep, faults>>

BreakStream(s) ==
    /\ faults > 0
    /\ stream[s] # NoStream
    /\ stream' = [stream EXCEPT ![s] = NoStream]
    /\ faults' = faults - 1
    /\ UNCHANGED <<log, rep>>

\* ReceiveSnapshotTo accepts a stream that ended at its declared size.
Complete(x) == x.got = Pieces

\* The handler InstallSnapshot, and the runtime behind it.
InstallSnapshot(s) ==
    LET im == [stream[s].image EXCEPT !.whole = stream[s].got = Pieces]
    IN  /\ rep[s].phase = "up"
        /\ stream[s] # NoStream
        /\ Complete(stream[s])
        /\ stream' = [stream EXCEPT ![s] = NoStream]
        /\ IF im.index <= rep[s].applied
           THEN UNCHANGED <<rep, faults>>
           ELSE \E d \in Installed(rep[s], im) : Becomes(s, d)
        /\ UNCHANGED log

\* The process dies.
Crash(s) ==
    /\ rep[s].phase # "down"
    /\ rep[s].phase = "up" => faults > 0
    /\ rep' = [rep EXCEPT ![s] = Ended(@)]
    /\ faults' = IF rep[s].phase = "up" THEN faults - 1 ELSE faults
    /\ stream' = [stream EXCEPT ![s] = NoStream]
    /\ UNCHANGED log

\* Node.Close, also after the event loop failed: DB.Close flushes, and what
\* it published stays even if it then fails.
Close(s) ==
    /\ rep[s].phase # "down"
    /\ rep[s].phase = "up" => faults > 0
    /\ \E d \in Flush(rep[s]) : rep' = [rep EXCEPT ![s] = Ended(d)]
    /\ faults' = IF rep[s].phase = "up" THEN faults - 1 ELSE faults
    /\ stream' = [stream EXCEPT ![s] = NoStream]
    /\ UNCHANGED log

\* StartNode.  After an error it closes what it opened.
StartNode(s) ==
    /\ rep[s].phase = "down"
    /\ \E d \in Started(rep[s]) :
         LET up == d.phase = "up" /\ Accepts(d)
         IN  /\ ~up => faults > 0
             /\ rep' = [rep EXCEPT ![s] = IF up THEN d ELSE Ended(d)]
             /\ faults' = IF up THEN faults ELSE faults - 1
    /\ UNCHANGED <<log, stream>>

StorageInit ==
    /\ log = <<>>
    /\ rep = [s \in Replicas |-> [Fresh EXCEPT !.phase = "up"]]
    /\ stream = [s \in Replicas |-> NoStream]

StorageStep ==
    \/ \E s \in Replicas :
          \/ Receive(s)
          \/ Apply(s)
          \/ SendChunk(s)
          \/ BreakStream(s)
          \/ InstallSnapshot(s)
          \/ Crash(s)
          \/ Close(s)
          \/ StartNode(s)
    \/ \E p, s \in Replicas : OpenStream(p, s)
-----------------------------------------------------------------------------
(* What a replica must hold.                                               *)

\* The entries up to n that take effect: a request does so once, at its
\* first entry, and never after a later request of its client.
Effective(n) ==
    {i \in 1 .. n :
        /\ log[i] # Empty
        /\ \A j \in 1 .. i - 1 : log[j] # Empty /\ log[j].client = log[i].client => log[j].seq < log[i].seq}

\* The value of k that the entries up to n come to.
ValueAt(n, k) ==
    LET writes == {i \in Effective(n) : k \in {log[i].key, log[i].client}}
    IN  IF writes = {}
        THEN Tombstone
        ELSE LET last == log[MaxOr0(writes)] IN IF last.key = k THEN last.val ELSE last.seq

PairsAt(n) == {[key |-> k, val |-> ValueAt(n, k)] : k \in {x \in Keys : ValueAt(n, x) # Tombstone}}

\* d shows the entries up to its applied index, to Get and to a snapshot.
Shows(d) ==
    /\ Image(d) = PairsAt(d.applied)
    /\ \A k \in Keys : Get(Sources(d), k) = ValueAt(d.applied, k)

\* Every replica holds exactly what the agreed entries up to its applied
\* index come to, with every request of a client taken once, whatever was
\* flushed, compacted, restored, retried or lost; and its disk alone holds
\* the same for the index in its manifest (Machine.Apply, DB.flush,
\* DB.ReplaceReplicaSnapshot).
ContentsExact == \A s \in Replicas : Shows(rep[s]) /\ Shows(Ended(rep[s]))

\* A snapshot in a Raft store or on its way is the state of its index, taken
\* from records that are partly in memory and partly in tables, and all of
\* it (DB.WriteReplicaSnapshot, ReceiveSnapshotTo).
SnapshotsExact ==
    /\ \A s \in Replicas : rep[s].image.whole /\ rep[s].image.pairs = PairsAt(rep[s].image.index)
    /\ \A s \in Replicas : stream[s].image.pairs = PairsAt(stream[s].image.index)

\* Wherever a replica's process ends, the database and the Raft store it
\* leaves fit together: StartNode can succeed, and no entry between the two
\* is missing (the applied index check of raft.New, cluster.StartNode).
Restartable == \A s \in Replicas : \E d \in Started(Ended(rep[s])) : d.phase = "up" /\ Accepts(d)
=============================================================================
