------------------------------- MODULE Shard -------------------------------
(* One shard of a store: rows go to the active memtable and to the write-ahead *)
(* log, a flush turns the memtable into files and then removes the log, and a  *)
(* restart replays what is left of the log (engine/shard.go, engine/wal.go,    *)
(* engine/log_writer.go, engine/ts_storage.go, engine/cs_storage.go).          *)
(*                                                                             *)
(* A row is the number of its write; its key stands for measurement, series    *)
(* and time, so of two rows with one key the later one replaces the other. A   *)
(* table maps each key to the rows it holds, the last one is the value. Every  *)
(* row costs one token of the node's memory bucket.                            *)
EXTENDS Naturals, Sequences, FiniteSets, SequencesExt

CONSTANTS Writer,          \* goroutines in WriteRows
          Key,             \* measurement, series and time of a row
          MaxWrite,        \* rows written
          MaxPart,         \* partitions of the log, at most (one per CPU)
          MaxCrash,        \* process crashes
          MaxClose,        \* calls of Close
          MaxRetry,        \* calls of OpenAndEnable after one that failed
          Limit,           \* tokens of nodeMutableLimit
          FileSize,        \* rows of a log file before trySwitchFile rotates
          Engines,         \* storage engines: "ts", "cs"
          SnapshotTblNum,  \* snapshot tables of the column store
          Outcomes         \* how creating a series in a replay may end

ASSUME ShardAssumption ==
    /\ MaxWrite \in Nat /\ MaxPart \in Nat \ {0} /\ Limit \in Nat \ {0}
    /\ MaxCrash \in Nat /\ MaxClose \in Nat /\ MaxRetry \in Nat
    /\ FileSize \in Nat \ {0} /\ SnapshotTblNum \in Nat \ {0}
    /\ Engines \subseteq {"ts", "cs"}
    /\ Outcomes \subseteq {"ok", "limited", "fails"}

VARIABLES
    part,        \* l.partitionNum
    engine,      \* s.engineType
    \* on disk
    wal,         \* log files: [part, seq, rows]
    tssp,        \* flushed rows of each key, the ones reads prefer last
    idxDisk,     \* keys whose series the index has on disk
    \* in memory: the log
    lw,          \* LogWriter of each partition: [seq, fd, names]
    writeReq,    \* l.writeReq modulo partitionNum
    \* in memory: the tables
    active,      \* s.activeTbl
    alive,       \* s.activeTbl # nil
    size,        \* activeTbl.GetMemSize()
    slot,        \* snapshotTbl / snapshotContainer, and what its flush has still to do
    idxMem,      \* keys whose series the index knows
    free,        \* free tokens of the node
    \* goroutines
    wr,          \* writers: [pc, row, idx]; idx: WriteIndex succeeded
    fl,          \* flushers
    asked,       \* rows acknowledged when a forced flush was asked for (history)
    forceFlush,  \* s.forceFlush, set while forceChan is full
    \* the shard
    st,          \* how far OpenAndEnable or Close have come
    closing,     \* s.cacheClosed > 0
    names,       \* logReplay.fileNames of each partition
    todo,        \* records of each partition not replayed yet
    turn,        \* the partition consumeRecordSerial looks at
    errs,        \* an error was collected while replaying
    rm,          \* replayed files still to be removed
    \* bounds and history
    key,         \* the key of each row
    before,      \* rows of the same key acknowledged before the write of a row began
    acked,       \* rows whose write returned nil
    limited,     \* rows the last replay of their log file skipped, their series
                 \* being one too many
    crashes, closes, retries

disk == <<wal, tssp, idxDisk>>
logvars == <<lw, writeReq>>
tables == <<active, alive, size, slot>>
flushers == <<fl, asked, forceFlush>>
replay == <<names, todo, turn, errs, rm>>
history == <<key, before, acked, limited>>
bounds == <<crashes, closes, retries>>
cfgvars == <<part, engine>>
vars == <<cfgvars, disk, logvars, tables, idxMem, free, wr, flushers, st, closing,
          replay, history, bounds>>

Row == 1 .. MaxWrite
Flusher == {"ticker", "force", "replay"}
Slot == 1 .. (IF engine = "ts" THEN 1 ELSE SnapshotTblNum)
EmptyTable == [k \in Key |-> <<>>]
Rows(t) == UNION {ToSet(t[k]) : k \in Key}
AddRow(t, r) == [t EXCEPT ![key[r]] = Append(@, r)]
Nil == [stage |-> "nil"]
NoWriter == [seq |-> 0, fd |-> FALSE, names |-> <<>>]
Idle == [pc |-> "idle", row |-> 0, idx |-> FALSE]

Init ==
    /\ part \in 1 .. MaxPart /\ engine \in Engines
    /\ wal = {} /\ tssp = EmptyTable /\ idxDisk = {}
    /\ lw = [p \in 1 .. part |-> NoWriter] /\ writeReq = 0
    /\ active = EmptyTable /\ alive = TRUE /\ size = 0
    /\ slot = [i \in Slot |-> Nil]
    /\ idxMem = {} /\ free = Limit
    /\ wr = [w \in Writer |-> Idle]
    /\ fl = [f \in Flusher |-> "idle"] /\ asked = [f \in Flusher |-> {}]
    /\ forceFlush = FALSE
    /\ st = "down" /\ closing = FALSE
    /\ names = [p \in 1 .. part |-> <<>>] /\ todo = names
    /\ turn = 1 /\ errs = FALSE /\ rm = <<>>
    /\ key = <<>> /\ before = <<>> /\ acked = {} /\ limited = {}
    /\ crashes = 0 /\ closes = 0 /\ retries = 0

At(w, pc) == wr[w].pc = pc
Goto(w, pc) == wr' = [wr EXCEPT ![w].pc = pc]
\* s.snapshotLock.RLock is held from the memtable write to the end of the log write.
SnapshotRLocked == \E w \in Writer : At(w, "wal")
\* s.mu.RLock is held until WriteRows returns.
MuRLocked == \E w \in Writer : wr[w].pc \in {"alloc", "mem", "wal", "ack", "nack"}
\* Mutant: a forced flush is counted before it waits
SnapshottingSelf == \E f \in Flusher : fl[f] \in {"ready", "switch", "flush"}

\* s.snapshotWg counts from prepareSnapshot to endSnapshot.
Snapshotting == \E f \in Flusher : fl[f] \in {"switch", "flush"}
FreeSlots == {i \in Slot : slot[i] = Nil}

-----------------------------------------------------------------------------
(* Writes *)

\* WriteRows has passed isClosing.
WriteRows(w, k) ==
    /\ At(w, "idle") /\ st = "open" /\ ~closing /\ Len(key) < MaxWrite
    /\ key' = Append(key, k)
    /\ before' = Append(before, {r \in acked : key[r] = k})
    /\ wr' = [wr EXCEPT ![w] = [pc |-> "checked", row |-> Len(key) + 1, idx |-> FALSE]]
    /\ UNCHANGED <<cfgvars, disk, logvars, tables, idxMem, free, flushers, st, closing,
                   replay, acked, limited, bounds>>

\* s.mu.RLock; Close and OpenAndEnable hold the lock to their end.
WriteLock(w) ==
    /\ At(w, "checked") /\ st = "open"
    /\ Goto(w, "alloc")
    /\ UNCHANGED <<cfgvars, disk, logvars, tables, idxMem, free, flushers, st, closing,
                   replay, history, bounds>>

\* The keys the index knows once it was asked to create the series of k. The column
\* store does so in a goroutine beside the write of the row; its index is not followed.
Indexed(k, ok) == IF ok /\ engine = "ts" THEN idxMem \union {k} ELSE idxMem

\* allocResource got a token; WriteIndex creates the series, or fails: the error is
\* returned after the log write, where the column store waits for its goroutine.
WriteIndex(w, ok) ==
    LET k == key[wr[w].row]
    IN  /\ At(w, "alloc") /\ free > 0
        /\ ~ok => k \notin idxMem
        /\ free' = free - 1
        /\ idxMem' = Indexed(k, ok)
        /\ wr' = [wr EXCEPT ![w].pc = "mem", ![w].idx = ok]
        /\ UNCHANGED <<cfgvars, disk, logvars, tables, flushers, st, closing, replay,
                       history, bounds>>

\* No token came back within the timeout: the client is told to retry.
WriteLacks(w) ==
    /\ wr[w].pc \in {"alloc", "late"} /\ free = 0
    /\ wr' = [wr EXCEPT ![w] = Idle]
    /\ UNCHANGED <<cfgvars, disk, logvars, tables, idxMem, free, flushers, st, closing,
                   replay, history, bounds>>

\* The table of the time series engine skips a row that has no series.
TableTakes(ok) == ok \/ engine = "cs"

\* AddMemSize and MTable.WriteRows, under the read lock.
WriteTable(w) ==
    /\ At(w, "mem")
    /\ size' = size + 1
    /\ active' = IF TableTakes(wr[w].idx) THEN AddRow(active, wr[w].row) ELSE active
    /\ Goto(w, "wal")
    /\ UNCHANGED <<cfgvars, disk, logvars, alive, slot, idxMem, free, flushers, st,
                   closing, replay, history, bounds>>

\* Mutant: the size is recorded only for rows the table took
WriteTableFailsUncounted(w) ==
    /\ At(w, "mem")
    /\ wr' = [wr EXCEPT ![w] = Idle]
    /\ UNCHANGED <<cfgvars, disk, logvars, tables, idxMem, free, flushers, st, closing,
                   replay, history, bounds>>

\* MTable.WriteRows refuses the row; its size stays added.
WriteTableFails(w) ==
    /\ At(w, "mem")
    /\ size' = size + 1
    /\ wr' = [wr EXCEPT ![w] = Idle]
    /\ UNCHANGED <<cfgvars, disk, logvars, active, alive, slot, idxMem, free, flushers,
                   st, closing, replay, history, bounds>>

\* trySwitchFile: a new file if there is none or the current one is full.
NeedFile(p) ==
    \/ ~lw[p].fd
    \/ \E f \in wal : f.part = p /\ f.seq = lw[p].seq /\ Len(f.rows) >= FileSize

\* LogWriter.Write: the record is in the file when it returns.
LogWrite(p, r) ==
    IF NeedFile(p)
    THEN /\ wal' = wal \union {[part |-> p, seq |-> lw[p].seq + 1, rows |-> <<r>>]}
         /\ lw' = [lw EXCEPT ![p] = [seq |-> @.seq + 1, fd |-> TRUE,
                                     names |-> Append(@.names, @.seq + 1)]]
    ELSE /\ wal' = {IF f.part = p /\ f.seq = lw[p].seq
                    THEN [f EXCEPT !.rows = Append(@, r)] ELSE f : f \in wal}
         /\ UNCHANGED lw

\* WAL.Write: the partitions take turns. The read lock is released.
WalWrite(w) ==
    /\ At(w, "wal")
    /\ LogWrite(1 + writeReq, wr[w].row)
    /\ writeReq' = (writeReq + 1) % part
    /\ Goto(w, IF wr[w].idx THEN "ack" ELSE "nack")
    /\ UNCHANGED <<cfgvars, tssp, idxDisk, tables, idxMem, free, flushers, st, closing,
                   replay, history, bounds>>

WriteAck(w) ==
    /\ At(w, "ack")
    /\ acked' = acked \union {wr[w].row}
    /\ wr' = [wr EXCEPT ![w] = Idle]
    /\ UNCHANGED <<cfgvars, disk, logvars, tables, idxMem, free, flushers, st, closing,
                   replay, key, before, limited, bounds>>

\* The error of WriteIndex.
WriteNack(w) ==
    /\ At(w, "nack")
    /\ wr' = [wr EXCEPT ![w] = Idle]
    /\ UNCHANGED <<cfgvars, disk, logvars, tables, idxMem, free, flushers, st, closing,
                   replay, history, bounds>>

\* The shard was closed between isClosing and s.mu.RLock: writeRowsToTable takes
\* a token, then writeRows finds the shard closed and returns.
WriteLate(w) ==
    /\ At(w, "late") /\ st \notin {"closing", "drained"} /\ free > 0
    /\ free' = free - 1
    /\ wr' = [wr EXCEPT ![w] = Idle]
    /\ UNCHANGED <<cfgvars, disk, logvars, tables, idxMem, flushers, st, closing,
                   replay, history, bounds>>

-----------------------------------------------------------------------------
(* Flushes *)

\* The Snapshot goroutine: shouldSnapshot, prepareSnapshot.
Tick ==
    /\ fl["ticker"] = "idle" /\ st \in {"open", "closing"}
    /\ alive /\ FreeSlots # {} /\ ~forceFlush /\ size > 0
    /\ fl' = [fl EXCEPT !["ticker"] = "switch"]
    /\ UNCHANGED <<cfgvars, disk, logvars, tables, idxMem, free, wr, asked, forceFlush, st,
                   closing, replay, history, bounds>>

\* enableForceFlush: forceChan admits one, then forceFlush is set under the lock.
EnableForceFlush(f) ==
    /\ fl[f] = "idle" /\ ~forceFlush /\ ~SnapshotRLocked
    /\ fl' = [fl EXCEPT ![f] = "wait"]
    /\ asked' = [asked EXCEPT ![f] = IF st = "open" \/ f = "replay" THEN acked \ limited ELSE {}]
    /\ forceFlush' = TRUE

\* ForceFlush from the engine, the compactor or the downsample service.
ForceFlush ==
    /\ st # "down"
    /\ EnableForceFlush("force")
    /\ UNCHANGED <<cfgvars, disk, logvars, tables, idxMem, free, wr, st, closing, replay,
                   history, bounds>>

\* storage.wg of the column store counts the flush goroutines that were started.
StorageIdle == engine = "cs" => \A i \in Slot : slot[i].stage \in {"nil", "index"}

\* waitSnapshot, first half: the column store waits for its flush goroutines.
WaitStorage(f) ==
    /\ fl[f] = "wait" /\ StorageIdle
    /\ fl' = [fl EXCEPT ![f] = "ready"]
    /\ UNCHANGED <<cfgvars, disk, logvars, tables, idxMem, free, wr, asked, forceFlush, st,
                   closing, replay, history, bounds>>

\* Mutant: a forced flush does not wait for the one under way
WaitSnapshotNot(f) ==
    /\ fl[f] = "ready"
    /\ fl' = [fl EXCEPT ![f] = IF engine = "cs" /\ FreeSlots = {} THEN "end" ELSE "switch"]
    /\ UNCHANGED <<cfgvars, disk, logvars, tables, idxMem, free, wr, asked, forceFlush, st,
                   closing, replay, history, bounds>>

\* Second half, snapshotWg; the column store gives up without a free table.
WaitSnapshot(f) ==
    /\ fl[f] = "ready" /\ ~Snapshotting
    /\ fl' = [fl EXCEPT ![f] = IF engine = "cs" /\ FreeSlots = {} THEN "end" ELSE "switch"]
    /\ UNCHANGED <<cfgvars, disk, logvars, tables, idxMem, free, wr, asked, forceFlush, st,
                   closing, replay, history, bounds>>

\* File names, the partitions in any order (each is collected by its own goroutine).
FileOrders(nm) ==
    {FlattenSeq([n \in 1 .. part |-> [j \in DOMAIN nm[o[n]] |-> <<o[n], nm[o[n]][j]>>]])
        : o \in SetToSeqs(1 .. part)}

\* endSnapshot; a forced flush has still to call disableForceFlush.
Ended(f) == IF f = "ticker" THEN "idle" ELSE "end"

\* Mutant: the early return forgets endSnapshot
NoActiveTblCounted(f) == fl' = [fl EXCEPT ![f] = "flush"]

\* writeSnapshot returns at once when Close has taken the table away.
NoActiveTbl(f) == fl' = [fl EXCEPT ![f] = Ended(f)]

\* writeSnapshot under s.snapshotLock: wal.Switch, then the tables change places.
WriteSnapshot(f) ==
    /\ fl[f] = "switch" /\ ~SnapshotRLocked
    /\ IF ~alive
       THEN NoActiveTbl(f) /\ UNCHANGED <<lw, active, size, slot>>
       ELSE \E i \in FreeSlots, files \in FileOrders([p \in 1 .. part |-> lw[p].names]) :
            /\ \A j \in FreeSlots : i <= j
            /\ slot' = [slot EXCEPT ![i] = [stage |-> "index", by |-> f, tbl |-> active,
                                            size |-> size, files |-> files,
                                            left |-> {k \in Key : active[k] # <<>>}]]
            /\ lw' = [p \in 1 .. part |-> [lw[p] EXCEPT !.fd = FALSE, !.names = <<>>]]
            /\ active' = EmptyTable /\ size' = 0
            /\ fl' = [fl EXCEPT ![f] = "flush"]
    /\ UNCHANGED <<cfgvars, disk, writeReq, alive, idxMem, free, wr, asked, forceFlush, st,
                   closing, replay, history, bounds>>

\* Mutant: the index is not flushed before the rows
IndexFlushNot(i) ==
    /\ slot[i].stage = "index"
    /\ slot' = [slot EXCEPT ![i].stage = "chunks"]
    /\ fl' = IF engine = "cs" THEN [fl EXCEPT ![slot[i].by] = Ended(slot[i].by)] ELSE fl
    /\ UNCHANGED <<cfgvars, disk, logvars, active, alive, size, idxMem, free, wr, asked,
                   forceFlush, st, closing, replay, history, bounds>>

\* Mutant: the time series engine, too, flushes in a goroutine nobody waits for
IndexFlushAsync(i) ==
    /\ slot[i].stage = "index"
    /\ idxDisk' = idxDisk \union idxMem
    /\ slot' = [slot EXCEPT ![i].stage = "chunks"]
    /\ fl' = [fl EXCEPT ![slot[i].by] = Ended(slot[i].by)]
    /\ UNCHANGED <<cfgvars, wal, tssp, logvars, active, alive, size, idxMem, free, wr, asked,
                   forceFlush, st, closing, replay, history, bounds>>

\* indexBuilder.Flush. The column store leaves the rest to a goroutine.
IndexFlush(i) ==
    /\ slot[i].stage = "index"
    /\ idxDisk' = idxDisk \union idxMem
    /\ slot' = [slot EXCEPT ![i].stage = "chunks"]
    /\ fl' = IF engine = "cs" THEN [fl EXCEPT ![slot[i].by] = Ended(slot[i].by)] ELSE fl
    /\ UNCHANGED <<cfgvars, wal, tssp, logvars, active, alive, size, idxMem, free, wr, asked,
                   forceFlush, st, closing, replay, history, bounds>>

\* commitSnapshot: the measurements are flushed by goroutines of their own.
FlushChunks(i, k) ==
    /\ slot[i].stage = "chunks" /\ k \in slot[i].left
    /\ tssp' = [tssp EXCEPT ![k] = @ \o slot[i].tbl[k]]
    /\ slot' = [slot EXCEPT ![i].left = @ \ {k}]
    /\ UNCHANGED <<cfgvars, wal, idxDisk, logvars, active, alive, size, idxMem, free, wr,
                   flushers, st, closing, replay, history, bounds>>

\* Mutant: commitSnapshot does not wait for the goroutines of the measurements
FreeResourceEarly(i) ==
    /\ slot[i].stage = "chunks"
    /\ free' = free + slot[i].size
    /\ slot' = [slot EXCEPT ![i].stage = "remove"]
    /\ UNCHANGED <<cfgvars, disk, logvars, active, alive, size, idxMem, wr, flushers, st,
                   closing, replay, history, bounds>>

\* All measurements are flushed: the tokens go back.
FreeResource(i) ==
    /\ slot[i].stage = "chunks" /\ slot[i].left = {}
    /\ free' = free + slot[i].size
    /\ slot' = [slot EXCEPT ![i].stage = "remove"]
    /\ UNCHANGED <<cfgvars, disk, logvars, active, alive, size, idxMem, wr, flushers, st,
                   closing, replay, history, bounds>>

File(f) == {g \in wal : g.part = f[1] /\ g.seq = f[2]}

\* removeWalFiles, one file at a time.
RemoveWalFile(i) ==
    /\ slot[i].stage = "remove" /\ slot[i].files # <<>>
    /\ wal' = wal \ File(Head(slot[i].files))
    /\ slot' = [slot EXCEPT ![i].files = Tail(@)]
    /\ UNCHANGED <<cfgvars, tssp, idxDisk, logvars, active, alive, size, idxMem, free, wr,
                   flushers, st, closing, replay, history, bounds>>

\* Mutant: the tokens are given back once more with the table
DropSnapshotFrees(i) ==
    /\ slot[i].stage = "remove" /\ slot[i].files = <<>> /\ ~SnapshotRLocked
    /\ free' = free + slot[i].size
    /\ slot' = [slot EXCEPT ![i] = Nil]
    /\ fl' = IF engine = "ts" THEN [fl EXCEPT ![slot[i].by] = Ended(slot[i].by)] ELSE fl
    /\ UNCHANGED <<cfgvars, disk, logvars, active, alive, size, idxMem, wr, asked,
                   forceFlush, st, closing, replay, history, bounds>>

\* The snapshot table is dropped; writeSnapshot of the time series engine returns.
DropSnapshot(i) ==
    /\ slot[i].stage = "remove" /\ slot[i].files = <<>> /\ ~SnapshotRLocked
    /\ slot' = [slot EXCEPT ![i] = Nil]
    /\ fl' = IF engine = "ts" THEN [fl EXCEPT ![slot[i].by] = Ended(slot[i].by)] ELSE fl
    /\ UNCHANGED <<cfgvars, disk, logvars, active, alive, size, idxMem, free, wr, asked,
                   forceFlush, st, closing, replay, history, bounds>>

\* Mutant: forceFlush stays set
DisableForceFlushNot(f) ==
    /\ fl[f] = "end" /\ ~SnapshotRLocked
    /\ fl' = [fl EXCEPT ![f] = "idle"]
    /\ asked' = [asked EXCEPT ![f] = {}]
    /\ IF f = "replay"
       THEN st' = "remove" /\ rm' \in FileOrders(names)
       ELSE UNCHANGED <<st, rm>>
    /\ UNCHANGED <<cfgvars, disk, logvars, tables, idxMem, free, wr, forceFlush, closing,
                   names, todo, turn, errs, history, bounds>>

\* disableForceFlush. The one of the replay goes on to remove what it replayed.
DisableForceFlush(f) ==
    /\ fl[f] = "end" /\ ~SnapshotRLocked
    /\ fl' = [fl EXCEPT ![f] = "idle"]
    /\ asked' = [asked EXCEPT ![f] = {}]
    /\ forceFlush' = FALSE
    /\ IF f = "replay"
       THEN st' = "remove" /\ rm' \in FileOrders(names)
       ELSE UNCHANGED <<st, rm>>
    /\ UNCHANGED <<cfgvars, disk, logvars, tables, idxMem, free, wr, closing, names, todo,
                   turn, errs, history, bounds>>

-----------------------------------------------------------------------------
(* OpenAndEnable *)

\* The numbers of a set from the smallest to the largest.
Ascending(S) == CHOOSE s \in SetToSeqs(S) : \A i, j \in DOMAIN s : i < j => s[i] < s[j]

\* Mutant: the files are taken from new to old
FilesOfNewFirst(p) == Reverse(Ascending({f.seq : f \in {g \in wal : g.part = p}}))

\* Mutant: the newest file is left to the writer
FilesOfOld(p) ==
    LET seqs == {f.seq : f \in {g \in wal : g.part = p}}
    IN  Ascending({q \in seqs : \E o \in seqs : q < o})

\* The files of a partition, old to new.
FilesOf(p) == Ascending({f.seq : f \in {g \in wal : g.part = p}})

\* replayOnePartition reads file after file and stops at one that is missing.
Missing(p, nm) == {j \in DOMAIN nm[p] : File(<<p, nm[p][j]>>) = {}}
Records(p, nm) ==
    LET good == {j \in DOMAIN nm[p] : \A m \in Missing(p, nm) : j < m}
        rows(j) == (CHOOSE f \in File(<<p, nm[p][j]>>) : TRUE).rows
    IN  IF good = {} THEN <<>> ELSE FlattenSeq([j \in good |-> rows(j)])

\* restoreLogs: the file names are appended to the ones logReplay has already, the
\* writers go on after the largest number.
RestoreLogs(nm) ==
    LET restored == [p \in 1 .. part |-> nm[p] \o FilesOf(p)]
    IN  /\ names' = restored
        /\ lw' = [p \in 1 .. part |->
                    [lw[p] EXCEPT !.seq = IF FilesOf(p) = <<>> THEN @ ELSE Last(FilesOf(p))]]
        /\ todo' = [p \in 1 .. part |-> Records(p, restored)]
        /\ errs' = \E p \in 1 .. part : Missing(p, restored) # {}
        /\ turn' = 1

LogRows == UNION {ToSet(f.rows) : f \in wal}

\* OpenAndEnable of a shard that NewShard made, or again of one that failed.
OpenAndEnable ==
    /\ \/ st = "down" /\ UNCHANGED retries
       \/ st = "failed" /\ retries < MaxRetry /\ retries' = retries + 1
    /\ RestoreLogs(names)
    /\ st' = "replay" /\ limited' = limited \ LogRows
    /\ UNCHANGED <<cfgvars, disk, writeReq, tables, idxMem, free, wr, flushers, closing, rm,
                   key, before, acked, crashes, closes>>

\* The partition consumeRecordSerial takes the next record from.
NextPart ==
    LET left == {p \in 1 .. part : todo[p] # <<>>}
        ahead(p) == (p + part - turn) % part
    IN  CHOOSE p \in left : \A q \in left : ahead(p) <= ahead(q)

\* writeWalForLineProtocol: as a write, but nothing goes to the log. syncReplayWal
\* ignores SeriesLimited: the row is skipped and its log file is removed all the same.
ReplayRow(out) ==
    LET p == NextPart
        r == Head(todo[p])
    IN  /\ st = "replay" /\ \E q \in 1 .. part : todo[q] # <<>>
        /\ out # "ok" => key[r] \notin idxMem
        /\ todo' = [todo EXCEPT ![p] = Tail(@)]
        /\ turn' = 1 + (p % part)
        /\ IF free > 0
           THEN /\ free' = free - 1 /\ size' = size + 1
                /\ idxMem' = Indexed(key[r], out = "ok")
                /\ active' = IF TableTakes(out = "ok") THEN AddRow(active, r) ELSE active
                /\ errs' = (errs \/ out = "fails")
                /\ limited' = IF TableTakes(out # "limited") THEN limited ELSE limited \union {r}
           ELSE errs' = TRUE /\ UNCHANGED <<free, size, idxMem, active, limited>>
        /\ UNCHANGED <<cfgvars, disk, logvars, alive, slot, wr, flushers, st, closing, names,
                       rm, key, before, acked, bounds>>

\* Replay returns an error: OpenAndEnable fails and the lock is released.
ReplayFails ==
    /\ st = "replay" /\ errs /\ \A p \in 1 .. part : todo[p] = <<>>
    /\ st' = "failed"
    /\ UNCHANGED <<cfgvars, disk, logvars, tables, idxMem, free, wr, flushers, closing, replay,
                   history, bounds>>

\* Replay returns the file names; ForceFlush.
ReplayDone ==
    /\ st = "replay" /\ ~errs /\ \A p \in 1 .. part : todo[p] = <<>>
    /\ st' = "flush"
    /\ EnableForceFlush("replay")
    /\ UNCHANGED <<cfgvars, disk, logvars, tables, idxMem, free, wr, closing, replay, history,
                   bounds>>

\* wal.Remove, one file at a time; the file may be gone if its name is there twice.
RemoveReplayed ==
    /\ st = "remove" /\ rm # <<>>
    /\ IF File(Head(rm)) = {}
       THEN st' = "failed" /\ rm' = <<>> /\ UNCHANGED wal
       ELSE wal' = wal \ File(Head(rm)) /\ rm' = Tail(rm) /\ UNCHANGED st
    /\ UNCHANGED <<cfgvars, tssp, idxDisk, logvars, tables, idxMem, free, wr, flushers,
                   closing, names, todo, turn, errs, history, bounds>>

Opened ==
    /\ st = "remove" /\ rm = <<>>
    /\ st' = "open"
    /\ UNCHANGED <<cfgvars, disk, logvars, tables, idxMem, free, wr, flushers, closing, replay,
                   history, bounds>>

-----------------------------------------------------------------------------
(* Close and crashes *)

\* What NewShard makes.
NewShard ==
    /\ lw' = [p \in 1 .. part |-> NoWriter] /\ writeReq' = 0
    /\ active' = EmptyTable /\ alive' = TRUE /\ size' = 0
    /\ fl' = [f \in Flusher |-> "idle"] /\ asked' = [f \in Flusher |-> {}]
    /\ forceFlush' = FALSE /\ closing' = FALSE
    /\ names' = [p \in 1 .. part |-> <<>>] /\ todo' = names'
    /\ turn' = 1 /\ errs' = FALSE /\ rm' = <<>>
    /\ st' = "down"

\* cacheClosed is raised; new writes are refused.
CloseBegin ==
    /\ st = "open" /\ ~closing /\ closes < MaxClose
    /\ closing' = TRUE /\ closes' = closes + 1
    /\ UNCHANGED <<cfgvars, disk, logvars, tables, idxMem, free, wr, flushers, st, replay,
                   history, crashes, retries>>

\* s.mu.Lock, then wal.Close: the writers are closed and forget their files.
CloseWal ==
    /\ closing /\ st = "open" /\ ~MuRLocked
    /\ st' = "closing"
    /\ lw' = [p \in 1 .. part |-> [lw[p] EXCEPT !.fd = FALSE, !.names = <<>>]]
    /\ wr' = [w \in Writer |-> IF At(w, "checked") THEN [wr[w] EXCEPT !.pc = "late"] ELSE wr[w]]
    /\ UNCHANGED <<cfgvars, disk, writeReq, tables, idxMem, free, flushers, closing, replay,
                   history, bounds>>

\* The memtable is dropped (its rows are in the log) and its tokens go back.
CloseMem ==
    /\ st = "closing" /\ alive
    /\ alive' = FALSE
    /\ active' = EmptyTable /\ size' = 0
    /\ free' = free + size
    /\ UNCHANGED <<cfgvars, disk, logvars, slot, idxMem, wr, flushers, st, closing, replay,
                   history, bounds>>

\* waitSnapshot, first half: what the storage counts.
CloseWait ==
    /\ st = "closing" /\ ~alive /\ StorageIdle
    /\ st' = "drained"
    /\ UNCHANGED <<cfgvars, disk, logvars, tables, idxMem, free, wr, flushers, closing, replay,
                   history, bounds>>

\* Second half, snapshotWg; Close returns. A flush of the column store that had not
\* started its goroutine at the first half has now, and goes on.
CloseDone ==
    /\ st = "drained" /\ ~Snapshotting
    /\ st' = "closed"
    /\ UNCHANGED <<cfgvars, disk, logvars, tables, idxMem, free, wr, flushers, closing, replay,
                   history, bounds>>

\* The engine loads the shard again. What a ForceFlush has left finds no memtable.
Reload ==
    /\ st = "closed" /\ \A i \in Slot : slot[i] = Nil
    /\ NewShard
    /\ UNCHANGED <<cfgvars, disk, slot, idxMem, free, wr, history, bounds>>

\* It is loaded while a flush of the closed one goes on. Both remove the same log
\* files, and the flush panics if it comes second; what they do is not modelled.
ReloadEarly ==
    /\ st = "closed" /\ \E i \in Slot : slot[i] # Nil
    /\ st' = "overtaken"
    /\ UNCHANGED <<cfgvars, disk, logvars, tables, idxMem, free, wr, flushers, closing, replay,
                   history, bounds>>

\* The process stops at any point.
Crash ==
    /\ crashes < MaxCrash
    /\ crashes' = crashes + 1
    /\ NewShard
    /\ slot' = [i \in Slot |-> Nil]
    /\ idxMem' = idxDisk /\ free' = Limit
    /\ wr' = [w \in Writer |-> Idle]
    /\ UNCHANGED <<cfgvars, disk, history, closes, retries>>

-----------------------------------------------------------------------------
Write(w) ==
    \/ \E k \in Key : WriteRows(w, k)
    \/ WriteLock(w)
    \/ \E ok \in BOOLEAN : WriteIndex(w, ok)
    \/ WriteLacks(w)
    \/ WriteTable(w)
    \/ WriteTableFails(w)
    \/ WalWrite(w)
    \/ WriteAck(w)
    \/ WriteNack(w)
    \/ WriteLate(w)

Flush ==
    \/ \E f \in Flusher : \/ WaitStorage(f)
                          \/ WaitSnapshot(f)
                          \/ WriteSnapshot(f)
                          \/ DisableForceFlush(f)
    \/ \E i \in Slot : \/ IndexFlush(i)
                       \/ \E k \in Key : FlushChunks(i, k)
                       \/ FreeResource(i)
                       \/ RemoveWalFile(i)
                       \/ DropSnapshot(i)

Reopen ==
    \/ OpenAndEnable \/ (\E out \in Outcomes : ReplayRow(out)) \/ ReplayFails \/ ReplayDone \/ RemoveReplayed \/ Opened
Close == CloseBegin \/ CloseWal \/ CloseMem \/ CloseWait \/ CloseDone \/ Reload \/ ReloadEarly
Next == (\E w \in Writer : Write(w)) \/ Tick \/ ForceFlush \/ Flush \/ Reopen \/ Close \/ Crash

Spec == Init /\ [][Next]_vars

\* A goroutine that can go on does; a writer waits for a token no longer than its
\* timer; forceChan serves its senders in turn; a table that is not written to for
\* writeColdDuration is flushed; the engine opens the shards it has.
FairSpec ==
    /\ Spec
    /\ WF_vars(Flush) /\ WF_vars(Tick)
    /\ WF_vars(OpenAndEnable) /\ WF_vars(\E out \in Outcomes : ReplayRow(out)) /\ WF_vars(ReplayFails)
    /\ SF_vars(ReplayDone) /\ WF_vars(RemoveReplayed) /\ WF_vars(Opened)
    /\ WF_vars(CloseWal) /\ WF_vars(CloseMem) /\ SF_vars(CloseWait) /\ SF_vars(CloseDone)
    /\ \A w \in Writer : WF_vars(Write(w))

-----------------------------------------------------------------------------
(* Properties *)

SlotTables == {slot[i].tbl : i \in Slot \ FreeSlots}
Memory == Rows(active) \union UNION {Rows(t) : t \in SlotTables}
Names == Seq(Nat)

\* Types; the tokens of the node and the sizes of the tables stay within the limit
\* (nodeMutableLimit).
TypeOK ==
    /\ part \in 1 .. MaxPart /\ engine \in Engines /\ writeReq \in 0 .. (part - 1)
    /\ \A f \in wal : f.part \in 1 .. part /\ f.seq \in Nat \ {0} /\ f.rows \in Seq(Row)
    /\ tssp \in [Key -> Seq(Row)] /\ active \in [Key -> Seq(Row)]
    /\ idxDisk \subseteq Key /\ idxMem \subseteq Key
    /\ lw \in [1 .. part -> [seq : Nat, fd : BOOLEAN, names : Names]]
    /\ alive \in BOOLEAN /\ size \in 0 .. Limit /\ free \in 0 .. Limit
    /\ \A i \in Slot : slot[i] # Nil =>
         /\ slot[i].stage \in {"index", "chunks", "remove"} /\ slot[i].by \in Flusher
         /\ slot[i].tbl \in [Key -> Seq(Row)] /\ slot[i].size \in 0 .. Limit
         /\ slot[i].left \subseteq Key
    /\ wr \in [Writer -> [pc : {"idle", "checked", "alloc", "mem", "wal", "ack", "nack",
                                "late"}, row : 0 .. MaxWrite, idx : BOOLEAN]]
    /\ fl \in [Flusher -> {"idle", "wait", "ready", "switch", "flush", "end"}]
    /\ asked \in [Flusher -> SUBSET Row]
    /\ forceFlush \in BOOLEAN /\ closing \in BOOLEAN /\ errs \in BOOLEAN
    /\ st \in {"down", "replay", "flush", "remove", "failed", "open", "closing", "drained",
              "closed", "overtaken"}
    /\ names \in [1 .. part -> Names] /\ todo \in [1 .. part -> Seq(Row)]
    /\ turn \in 1 .. part
    /\ key \in Seq(Key) /\ before \in Seq(SUBSET Row) /\ acked \subseteq Row
    /\ limited \subseteq Row

\* An acknowledged row is in a log file or in a data file, whatever the flushes, the
\* removals of log files, the replay and Close have reached: no crash loses it. Only
\* a row whose series a replay could not create for the series limit is lost.
Durable == acked \ limited \subseteq LogRows \union Rows(tssp)

\* No acknowledged row is lost. A replay that meets the series limit does not keep
\* this: MCShardLimited.cfg shows it.
DurableLimited == acked \subseteq LogRows \union Rows(tssp)

\* A shard that is open serves every acknowledged row but those, from the active
\* table, a snapshot table or a data file.
Visible == st = "open" => acked \ limited \subseteq Memory \union Rows(tssp)

\* What a read of key k returns: the data files give way to the snapshot table and
\* that to the active table.
Value(k) == Last(tssp[k] \o (IF slot[1] = Nil THEN <<>> ELSE slot[1].tbl[k]) \o active[k])
Overwritten(k) == UNION {before[r] : r \in {a \in acked : key[a] = k}}

\* "The update of the same time at a certain series is guaranteed" by the serial
\* replay: an open shard never shows a value that an acknowledged write replaced,
\* not after any number of crashes, flushes and replays, nor in place of a row that
\* a replay skipped.
ReplayKeepsOrder ==
    st = "open" /\ engine = "ts" =>
        \A k \in {key[a] : a \in acked \ limited} : Value(k) \notin Overwritten(k)

\* The same for a log of one partition, where it holds.
OnePartitionKeepsOrder == part = 1 => ReplayKeepsOrder

\* writeSnapshot finds a free snapshot table, and the log files it removes exist:
\* neither of its panics is reached and no snapshot table is overwritten.
NoPanicEver ==
    /\ \A f \in Flusher : fl[f] = "switch" /\ alive => FreeSlots # {}
    /\ \A i \in Slot \ FreeSlots : \A j \in DOMAIN slot[i].files : File(slot[i].files[j]) # {}
    /\ st # "overtaken"

\* The same, for the column store up to the first Close: there Close may return with
\* a flush under way, and the shard is then loaded beside it (MCShardClose.cfg).
NoPanic == engine = "ts" \/ closes = 0 => NoPanicEver

\* A series with rows in a data file of the time series engine is in the index on
\* disk: after a crash the rows are found, and their series is not created a second
\* time under another id.
IndexCovers == engine = "ts" => \A k \in Key : tssp[k] # <<>> => k \in idxDisk

\* "make sure memtable finish flush": when ForceFlush returns, every row that was
\* acknowledged when it was called, and not skipped by a replay before, is in a data
\* file (the shard being open then, or its log just replayed, and not closed since).
FlushCovers == \A f \in Flusher : fl[f] = "end" /\ alive => asked[f] \subseteq Rows(tssp)

\* "Token is released during the snapshot process": the tokens taken are the sizes of
\* the tables, the writers between allocResource and AddMemSize, and nothing else.
Held == {w \in Writer : At(w, "mem")}
SlotTokens(s) == IF s.stage \in {"nil", "remove"} THEN 0 ELSE s.size
TableTokens == SumFunctionOnSet([i \in Slot |-> SlotTokens(slot[i])], Slot)
TokensReleased == free + size + TableTokens + Cardinality(Held) = Limit

\* The same up to the first Close; a write that Close overtakes keeps its token.
TokensReleasedOpen == closes = 0 => TokensReleased

\* Rows do not stay in the active table for ever: forced flushes, which stop the
\* ticker (forceFlush), and flushes that take all snapshot tables end.
MemtableFlushed == size > 0 /\ st = "open" ~> size = 0 \/ st # "open"

\* OpenAndEnable returns although it holds s.mu and waits for flushes, which wait for
\* tokens and for forceChan.
OpenReturns == st = "replay" ~> st \in {"open", "failed", "down"}

\* Close returns although it waits, with s.mu held, for flushes that may find no
\* memtable any more.
CloseReturns == closing ~> st \notin {"open", "closing", "drained"}
=============================================================================
