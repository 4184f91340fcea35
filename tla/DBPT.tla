-------------------------------- MODULE DBPT --------------------------------
(***************************************************************************)
(* One database partition (DBPTInfo) on one store node: the reference      *)
(* count that keeps it open while requests use it (engine/partition.go),   *)
(* the five migration requests (engine/engine_ha.go) and DeleteDatabase    *)
(* (engine/engine_ddl.go), the shard services that must stay away from a   *)
(* partition in migration, and the engine lock e.mu over DBPartitions.     *)
(*                                                                         *)
(* Every action is one critical section of the code.  The engine lock is   *)
(* Go's sync.RWMutex: a goroutine blocked in Lock (wantLock) keeps new     *)
(* readers out.  Its read side is held across a blocking wait by           *)
(* DeleteDatabase (dropRLock) and by WriteToRaft, whose                    *)
(* checkAndGetDBPTInfo read-locks it a second time to give its reference   *)
(* back (program counter "raft"); every other read section is one step.    *)
(***************************************************************************)
EXTENDS Integers, FiniteSets

CONSTANTS
    User,      \* goroutines of requests and services: writes, moves, deletes
    Mig,       \* goroutines of migration requests sent by ts-meta
    Dropper,   \* the goroutine of DeleteDatabase (startDrop admits one)
    Assigner,  \* an Assign of another partition, which needs e.mu.Lock
    Shard,     \* shards of the partition
    None,      \* the nil channel; no shard
    Parallel,  \* TRUE: Offload and DeleteDatabase may overlap
    Raft       \* TRUE: the policy is replication, writes come by WriteToRaft

Actor == User \cup Mig \cup {Dropper}
Closer == Mig \cup {Dropper}       \* who may mark the partition offloading

ASSUME FiniteActors == IsFiniteSet(User) /\ IsFiniteSet(Mig)
ASSUME DistinctActors ==
    /\ User \cap Mig = {}
    /\ Dropper \notin User \cup Mig
    /\ None \notin Actor
ASSUME ParallelIsBool == Parallel \in BOOLEAN /\ Raft \in BOOLEAN

VARIABLES
    reg,        \* the partition is in e.DBPartitions
    offloading, \* DBPTInfo.offloading
    preload,    \* DBPTInfo.preload
    unload,     \* DBPTInfo.unload is closed
    exeCount,   \* DBPTInfo.exeCount
    ch,         \* DBPTInfo.ch: whose done channel is registered, or None
    done,       \* done[a]: a's done channel carries a value or is closed
    bgr,        \* DBPTInfo.bgrEnabled
    doingOff,   \* DBPTInfo.doingOff
    moveN,      \* DBPTInfo.doingShardMoveN
    pending,    \* DBPTInfo.pendingShardDeletes
    shards,     \* DBPTInfo.shards; they stay on shared storage when unloaded
    orphan,     \* shards taken out of DBPTInfo.shards whose files are still there
    closed,     \* shards in DBPTInfo.shards that ran Close; a second Close fails
    opened,     \* shards that ran OpenAndEnable
    registered, \* shards registered with the compaction worker
    compEn,     \* shards whose table store has compaction enabled
    late,       \* history: shards created while bgr was disabled
    dropRLock,  \* DeleteDatabase holds e.mu.RLock
    wantLock,   \* goroutines blocked in e.mu.Lock
    migrating,  \* the partition is in e.migratingDbPT
    pc,         \* program counter of every actor
    arg,        \* the shard a shard service works on
    panicked    \* a goroutine hit one of the two panics of the unref path

ptVars == <<reg, offloading, preload, unload, exeCount, ch, done>>
shardMap == <<shards, orphan, closed>>
bgVars == <<bgr, doingOff, moveN, pending, shardMap, opened, registered, compEn, late>>
lockVars == <<dropRLock, wantLock, migrating>>
vars == <<ptVars, bgVars, lockVars, pc, arg, panicked>>

-----------------------------------------------------------------------------
(* Program counters.  A user or a PreOffload/RollbackPreOffload request     *)
(* holds a reference exactly at the HoldPC counters.                        *)

UserPC == {"idle", "create", "write", "move", "moving", "stay", "del", "deleting", "raft",
           "leave"}
MigHoldPC == {"preoff", "disable", "quiesce", "unref", "rbEnable", "rbShards", "rbUnref"}
ClosePC == {"wait", "close", "rbclose", "dropping"}
MigPC == {"idle", "rbOff", "load", "preload", "assign", "add", "addPre", "addNop"}
            \cup MigHoldPC \cup ClosePC
DropPC == {"idle", "wait", "delete", "dropping"}
HoldPC == (UserPC \ {"idle"}) \cup MigHoldPC

Holders == {a \in User \cup Mig : pc[a] \in HoldPC}

CanRLock == wantLock = {}           \* Go: a waiting writer blocks new readers
CanLock == ~dropRLock /\ \A i \in User : pc[i] # "raft"

\* checkDDLConflict / checkMigrateConflict in ts-meta keep the migration of a
\* partition and the drop of its database apart.
NoConflict(a) ==
    \/ Parallel
    \/ IF a = Dropper THEN \A m \in Mig : pc[m] = "idle" ELSE pc[Dropper] = "idle"

Goto(a, l) == pc' = [pc EXCEPT ![a] = l]

-----------------------------------------------------------------------------
Init ==
    /\ reg = TRUE /\ offloading = FALSE /\ preload = FALSE /\ unload = FALSE
    /\ exeCount = 0 /\ ch = None /\ done = [a \in Closer |-> FALSE]
    /\ bgr = TRUE /\ doingOff = FALSE /\ moveN = 0 /\ pending = {}
    /\ orphan = {} /\ closed = {}
    /\ shards \in SUBSET Shard
    /\ opened \in SUBSET shards /\ registered = opened /\ compEn = shards /\ late = {}
    /\ dropRLock = FALSE /\ wantLock = {} /\ migrating = FALSE
    /\ pc = [a \in Actor |-> "idle"]
    /\ arg = [i \in User |-> None]
    /\ panicked = FALSE

-----------------------------------------------------------------------------
(* DBPTInfo.ref, unref, markOffload, unMarkOffload (under DBPTInfo.mu)      *)

\* Mutant: a reference is granted although the partition is being offloaded
CanRefOffloading == ~preload
CanRef == ~offloading /\ ~preload

\* Mutant: a reference is not counted
refUncounted == UNCHANGED <<exeCount, ch, done, panicked>>
ref == exeCount' = exeCount + 1 /\ UNCHANGED <<ch, done, panicked>>

\* Mutant: the last reference does not signal the waiter
unrefSilent == exeCount' = exeCount - 1 /\ UNCHANGED <<ch, done, panicked>>
unref ==
    /\ exeCount' = exeCount - 1
    /\ IF ~offloading \/ exeCount - 1 # 0
       THEN UNCHANGED <<ch, done, panicked>>
       ELSE IF ch = None
            THEN panicked' = TRUE /\ UNCHANGED <<ch, done>>
            ELSE /\ done' = [done EXCEPT ![ch] = TRUE]
                 /\ ch' = None
                 /\ UNCHANGED panicked

\* Mutant: the done channel is not registered
markOffloadNoChan(a, proceed) ==
    /\ done' = [done EXCEPT ![a] = FALSE]
    /\ offloading' = TRUE
    /\ Goto(a, IF ~offloading /\ exeCount = 0 THEN proceed ELSE "wait")
    /\ UNCHANGED ch

\* TRUE lets the caller go on, FALSE makes it wait on its own done channel.
markOffload(a, proceed) ==
    /\ done' = [done EXCEPT ![a] = FALSE]
    /\ offloading' = TRUE
    /\ IF offloading THEN Goto(a, "wait") /\ UNCHANGED ch
       ELSE IF exeCount = 0 THEN Goto(a, proceed) /\ UNCHANGED ch
       ELSE Goto(a, "wait") /\ ch' = a

unMarkOffload ==
    /\ offloading' = FALSE
    /\ IF offloading /\ ch # None
       THEN done' = [done EXCEPT ![ch] = TRUE] /\ ch' = None
       ELSE UNCHANGED <<done, ch>>

-----------------------------------------------------------------------------
(* Requests and services that take a reference: checkAndAddRefPTNoLock at   *)
(* the start, unrefDBPT at the end.                                         *)

UserRef(i) ==
    /\ pc[i] = "idle" /\ CanRLock /\ reg /\ CanRef
    /\ ref
    /\ \/ \E l \in {"create", "write", "move", "del"} : Goto(i, l)
       \/ Raft /\ Goto(i, "raft")
    /\ \E s \in Shard : arg' = [arg EXCEPT ![i] = s]
    /\ UNCHANGED <<reg, offloading, preload, unload, bgVars, lockVars>>

\* EngineImpl.CreateShard and DBPTInfo.NewShard: while bgr is disabled the new
\* shard is opened without being enabled, so it does not count as opened.
CreateShard(i) ==
    /\ pc[i] = "create" /\ Goto(i, "leave")
    /\ IF arg[i] \in shards
       THEN UNCHANGED <<shards, orphan, opened, registered, compEn, late>>
       ELSE /\ shards' = shards \cup {arg[i]} /\ orphan' = orphan \ {arg[i]}
            /\ compEn' = compEn \cup {arg[i]}
            /\ opened' = IF bgr THEN opened \cup {arg[i]} ELSE opened \ {arg[i]}
            /\ registered' = IF bgr THEN registered \cup {arg[i]} ELSE registered
            /\ late' = IF bgr THEN late ELSE late \cup {arg[i]}
    /\ UNCHANGED <<ptVars, lockVars, bgr, doingOff, moveN, pending, closed, arg, panicked>>

\* shard.OpenAndEnable: opens a shard once and registers it for compaction.
OpenAndEnable(s) ==
    /\ opened' = opened \cup {s}
    /\ registered' = IF s \in opened THEN registered ELSE registered \cup {s}

\* EngineImpl.getShard opens the shard lazily on behalf of a write.
getShard(i) ==
    /\ pc[i] = "write" /\ Goto(i, "leave")
    /\ IF arg[i] \in shards THEN OpenAndEnable(arg[i]) ELSE UNCHANGED <<opened, registered>>
    /\ UNCHANGED <<ptVars, lockVars, bgr, doingOff, moveN, pending, shardMap, compEn,
                   late, arg, panicked>>

\* Mutant: a shard move may start after PreOffload
MoveRefusedNever(i) == FALSE
\* A shard move is refused from PreOffload on
MoveRefused(i) == doingOff

\* EngineImpl.HierarchicalStorage: the shard is missing or cannot be opened; it is
\* opened but cannot move; or it is unregistered and ExecShardMove runs, which
\* disables its compaction until it ends.
MoveBegin(i) ==
    /\ pc[i] = "move"
    /\ IF MoveRefused(i)
       THEN Goto(i, "leave") /\ UNCHANGED <<moveN, opened, registered, compEn>>
       ELSE /\ moveN' = moveN + 1
            /\ \/ Goto(i, "stay") /\ UNCHANGED <<opened, registered, compEn>>
               \/ /\ arg[i] \in shards /\ OpenAndEnable(arg[i])
                  /\ Goto(i, "stay") /\ UNCHANGED compEn
               \/ /\ arg[i] \in shards
                  /\ opened' = opened \cup {arg[i]}
                  /\ registered' = registered \ {arg[i]}
                  /\ compEn' = compEn \ {arg[i]}
                  /\ Goto(i, "moving")
    /\ UNCHANGED <<ptVars, lockVars, bgr, doingOff, pending, shardMap, late, arg, panicked>>

MoveEnd(i) ==
    /\ pc[i] \in {"moving", "stay"} /\ Goto(i, "leave")
    /\ moveN' = moveN - 1
    /\ compEn' = IF pc[i] = "moving" THEN compEn \cup {arg[i]} ELSE compEn
    /\ UNCHANGED <<ptVars, lockVars, bgr, doingOff, pending, shardMap, opened, registered,
                   late, arg, panicked>>

\* EngineImpl.DeleteShard
DeleteBegin(i) ==
    /\ pc[i] = "del"
    /\ IF ~bgr \/ arg[i] \notin shards \/ arg[i] \in pending
       THEN Goto(i, "leave") /\ UNCHANGED <<shards, closed, pending>>
       ELSE /\ shards' = shards \ {arg[i]} /\ closed' = closed \ {arg[i]}
            /\ pending' = pending \cup {arg[i]}
            /\ Goto(i, "deleting")
    /\ UNCHANGED <<ptVars, lockVars, bgr, doingOff, moveN, orphan, opened, registered,
                   compEn, late, arg, panicked>>

\* Close or the removal of the files may fail: the shard is out of the map then,
\* but found again by the next load.
DeleteEnd(i) ==
    /\ pc[i] = "deleting" /\ Goto(i, "leave")
    /\ pending' = pending \ {arg[i]}
    /\ registered' = registered \ {arg[i]}
    /\ orphan' \in {orphan, orphan \cup ({arg[i]} \ shards)}
    /\ UNCHANGED <<ptVars, lockVars, bgr, doingOff, moveN, shards, closed, opened, compEn,
                   late, arg, panicked>>

\* EngineImpl.unrefDBPT looks the partition up again; its database still has
\* other partitions, so a missing entry is the "pt not found" panic.  A request
\* of WriteToRaft does so in checkAndGetDBPTInfo, with e.mu read-locked already.
UserUnref(i) ==
    /\ pc[i] \in {"leave", "raft"} /\ CanRLock /\ Goto(i, "idle")
    /\ IF reg THEN unref
       ELSE panicked' = TRUE /\ UNCHANGED <<exeCount, ch, done>>
    /\ arg' = [arg EXCEPT ![i] = None]
    /\ UNCHANGED <<reg, offloading, preload, unload, bgVars, lockVars>>

UserStep(i) ==
    \/ CreateShard(i) \/ getShard(i)
    \/ MoveBegin(i) \/ MoveEnd(i) \/ DeleteBegin(i) \/ DeleteEnd(i)
    \/ UserUnref(i)

-----------------------------------------------------------------------------
(* Migration requests.  trySetDbPtMigrating lets one request per partition  *)
(* in; any other is refused with PtIsAlreadyMigrating.                      *)

MigBegin(m) ==
    /\ pc[m] = "idle" /\ ~migrating /\ CanRLock /\ NoConflict(m)
    /\ migrating' = TRUE

MigEnd(m) == Goto(m, "idle") /\ migrating' = FALSE

\* getPartition(.., true) at the start of PreOffload and RollbackPreOffload; an
\* absent partition is success, a refused reference DBPTClosed: nothing changes.
RefBegin(m) ==
    /\ MigBegin(m) /\ reg /\ CanRef
    /\ ref
    /\ Goto(m, "preoff") \/ Goto(m, "rbEnable")
    /\ UNCHANGED <<reg, offloading, preload, unload, bgVars, dropRLock, wantLock, arg>>

\* PreOffload, first critical section: refuse while shards are being moved
PreOffload(m) ==
    /\ pc[m] = "preoff"
    /\ IF moveN > 0 THEN Goto(m, "unref") /\ UNCHANGED doingOff
       ELSE Goto(m, "disable") /\ doingOff' = TRUE
    /\ UNCHANGED <<ptVars, lockVars, bgr, moveN, pending, shardMap, opened, registered,
                   compEn, late, arg, panicked>>

\* Mutant: deletions in flight are not looked at
DeletesPendingNever == FALSE
DeletesPending == pending # {}

disableDBPtBgr(m) ==
    /\ pc[m] = "disable"
    /\ IF DeletesPending THEN Goto(m, "unref") /\ UNCHANGED bgr
       ELSE Goto(m, "quiesce") /\ bgr' = FALSE
    /\ UNCHANGED <<ptVars, lockVars, doingOff, moveN, pending, shardMap, opened, registered,
                   compEn, late, arg, panicked>>

\* Mutant: shards that are loaded but not opened yet are skipped
disableShardsBgrOpened == compEn' = compEn \ opened
\* setEnableShardsBgr(FALSE) on the shards present
disableShardsBgr == compEn' = compEn \ shards

Quiesce(m) ==
    /\ pc[m] = "quiesce" /\ Goto(m, "unref")
    /\ disableShardsBgr
    /\ UNCHANGED <<ptVars, lockVars, bgr, doingOff, moveN, pending, shardMap, opened,
                   registered, late, arg, panicked>>

PreOffloadEnd(m) ==
    /\ pc[m] = "unref" /\ MigEnd(m)
    /\ unref
    /\ UNCHANGED <<reg, offloading, preload, unload, bgVars, dropRLock, wantLock, arg>>

\* RollbackPreOffload: enableDBPtBgr, setEnableShardsBgr(TRUE), unref, doingOff
enableDBPtBgr(m) ==
    /\ pc[m] = "rbEnable" /\ Goto(m, "rbShards")
    /\ bgr' = TRUE
    /\ UNCHANGED <<ptVars, lockVars, doingOff, moveN, pending, shardMap, opened, registered,
                   compEn, late, arg, panicked>>

RollbackShards(m) ==
    /\ pc[m] = "rbShards" /\ Goto(m, "rbUnref")
    /\ compEn' = compEn \cup shards
    /\ late' = {}
    /\ UNCHANGED <<ptVars, lockVars, bgr, doingOff, moveN, pending, shardMap, opened,
                   registered, arg, panicked>>

RollbackUnref(m) ==
    /\ pc[m] = "rbUnref" /\ Goto(m, "rbOff")
    /\ unref
    /\ UNCHANGED <<reg, offloading, preload, unload, bgVars, lockVars, arg>>

RollbackEnd(m) ==
    /\ pc[m] = "rbOff" /\ MigEnd(m)
    /\ doingOff' = FALSE
    /\ UNCHANGED <<ptVars, dropRLock, wantLock, bgr, moveN, pending, shardMap, opened,
                   registered, compEn, late, arg, panicked>>

\* PreAssign and Assign load the partition unless it is there already.  Assign
\* takes over a preloaded partition after SetParams made a new unload channel.
LoadBegin(m) ==
    /\ MigBegin(m)
    /\ \/ ~reg /\ (Goto(m, "preload") \/ Goto(m, "load")) /\ UNCHANGED unload
       \/ reg /\ preload /\ Goto(m, "assign") /\ unload' = FALSE
    /\ UNCHANGED <<reg, offloading, preload, exeCount, ch, done, bgVars,
                   dropRLock, wantLock, arg, panicked>>

\* loadDbPtShards succeeded; the caller blocks in e.mu.Lock
LoadOk(m) ==
    /\ pc[m] \in {"preload", "load", "assign"}
    /\ Goto(m, CASE pc[m] = "preload" -> "addPre" [] pc[m] = "load" -> "add"
                 [] OTHER -> "addNop")
    /\ wantLock' = wantLock \cup {m}
    /\ UNCHANGED <<ptVars, bgVars, dropRLock, migrating, arg, panicked>>

\* loadDbPtShards failed: offloadDbPT of an object no one else can reference.
\* For a new object that leaves no trace; a preloaded one is closed and dropped.
LoadErr(m) ==
    \/ /\ pc[m] \in {"preload", "load"} /\ MigEnd(m)
       /\ UNCHANGED <<ptVars, bgVars, dropRLock, wantLock, arg, panicked>>
    \/ /\ pc[m] = "assign" /\ Goto(m, "rbclose")
       /\ offloading' = TRUE
       /\ UNCHANGED <<reg, preload, unload, exeCount, ch, done, bgVars, lockVars,
                      arg, panicked>>

\* addDBPTInfo of a new DBPTInfo; the lazy-load option decides which shards
\* Assign opens and enables (none during a preload).
addDBPTInfo(m) ==
    /\ pc[m] \in {"add", "addPre"} /\ CanLock /\ MigEnd(m)
    /\ wantLock' = wantLock \ {m}
    /\ reg' = TRUE /\ preload' = (pc[m] = "addPre")
    /\ offloading' = FALSE /\ unload' = FALSE /\ exeCount' = 0 /\ ch' = None
    /\ shards' = shards \cup orphan /\ orphan' = {} /\ closed' = {}
    /\ bgr' = TRUE /\ doingOff' = FALSE /\ moveN' = 0 /\ pending' = {} /\ late' = {}
    /\ compEn' = shards'
    /\ opened' \in (IF pc[m] = "add" THEN SUBSET shards' ELSE {{}})
    /\ registered' = opened'
    /\ UNCHANGED <<done, dropRLock, arg, panicked>>

\* Assign of a preloaded partition: it is in DBPartitions already
AssignPreloaded(m) ==
    /\ pc[m] = "addNop" /\ CanLock /\ MigEnd(m)
    /\ wantLock' = wantLock \ {m}
    /\ preload' = FALSE
    /\ opened' \in SUBSET shards /\ registered' = opened'
    /\ UNCHANGED <<reg, offloading, unload, exeCount, ch, done, bgr, doingOff,
                   moveN, pending, shardMap, compEn, late, dropRLock, arg, panicked>>

-----------------------------------------------------------------------------
(* Offload and offloadDbPT                                                  *)

Offload(m) ==
    /\ MigBegin(m) /\ reg
    /\ markOffload(m, "close")
    /\ UNCHANGED <<reg, preload, unload, exeCount, bgVars, dropRLock, wantLock,
                   arg, panicked>>

\* The three arms of the select: all io back, pt has unloaded, timeout
OffloadDone(m) ==
    /\ pc[m] = "wait" /\ done[m] /\ Goto(m, "close")
    /\ UNCHANGED <<ptVars, bgVars, lockVars, arg, panicked>>

OffloadGiveUp(m) ==
    /\ pc[m] = "wait" /\ MigEnd(m)
    /\ unMarkOffload
    /\ UNCHANGED <<reg, preload, unload, exeCount, bgVars, dropRLock, wantLock,
                   arg, panicked>>

\* setEnableShardsBgr(FALSE) and closeDBPt, then e.mu.Lock.  Close refuses a shard
\* that ran Close before, so closeDBPt cannot succeed after it failed once; in the
\* rollback of a load ("rbclose") that failure ends the process.
closeDBPt(m) ==
    /\ pc[m] \in {"close", "rbclose"} /\ closed = {} /\ Goto(m, "dropping")
    /\ unload' = TRUE /\ closed' = shards
    /\ disableShardsBgr /\ registered' = registered \ shards
    /\ wantLock' = wantLock \cup {m}
    /\ UNCHANGED <<reg, offloading, preload, exeCount, ch, done, bgr, doingOff, moveN,
                   pending, shards, orphan, opened, late, dropRLock, migrating, arg,
                   panicked>>

\* closeDBPt fails at a shard, after it closed some others, or at an index: the
\* partition is served again with the shards that are left
closeDBPtErr(m) ==
    /\ pc[m] = "close" /\ MigEnd(m)
    /\ \E S \in SUBSET shards :
          closed' = closed \cup S /\ (closed' # {} \/ shards = {})
    /\ unload' = TRUE /\ disableShardsBgr /\ registered' = registered \ closed'
    /\ unMarkOffload
    /\ UNCHANGED <<reg, preload, exeCount, bgr, doingOff, moveN, pending, shards, orphan,
                   opened, late, dropRLock, wantLock, arg, panicked>>

dropDBPTInfo(m) ==
    /\ pc[m] = "dropping" /\ CanLock /\ MigEnd(m)
    /\ wantLock' = wantLock \ {m}
    /\ reg' = FALSE /\ closed' = {}
    /\ UNCHANGED <<offloading, preload, unload, exeCount, ch, done, bgr, doingOff, moveN,
                   pending, shards, orphan, opened, registered, compEn, late, dropRLock, arg,
                   panicked>>

MigStep(m) ==
    \/ PreOffload(m) \/ disableDBPtBgr(m) \/ Quiesce(m) \/ PreOffloadEnd(m)
    \/ enableDBPtBgr(m) \/ RollbackShards(m) \/ RollbackUnref(m) \/ RollbackEnd(m)
    \/ LoadOk(m) \/ LoadErr(m) \/ addDBPTInfo(m) \/ AssignPreloaded(m)
    \/ OffloadDone(m) \/ OffloadGiveUp(m) \/ closeDBPt(m) \/ closeDBPtErr(m)
    \/ dropDBPTInfo(m)

-----------------------------------------------------------------------------
(* DeleteDatabase of one partition.  It keeps e.mu.RLock from the lookup    *)
(* until the shards are deleted, across the wait for the last reference.    *)

\* Not loaded here: only the files are removed
DropUnloaded ==
    /\ pc[Dropper] = "idle" /\ CanRLock /\ ~reg /\ shards \cup orphan # {}
    /\ shards' = {} /\ orphan' = {}
    /\ UNCHANGED <<ptVars, lockVars, bgr, doingOff, moveN, pending, closed, opened,
                   registered, compEn, late, pc, arg, panicked>>

DropBegin ==
    /\ pc[Dropper] = "idle" /\ CanRLock /\ NoConflict(Dropper) /\ reg
    /\ dropRLock' = TRUE
    /\ markOffload(Dropper, "delete")
    /\ UNCHANGED <<reg, preload, unload, exeCount, bgVars, wantLock, migrating,
                   arg, panicked>>

\* Mutant: the shards are deleted without waiting for the requests
DropDoneEarly ==
    /\ pc[Dropper] = "wait" /\ Goto(Dropper, "delete")
    /\ UNCHANGED <<ptVars, bgVars, lockVars, arg, panicked>>

DropDone ==
    /\ pc[Dropper] = "wait" /\ done[Dropper] /\ Goto(Dropper, "delete")
    /\ UNCHANGED <<ptVars, bgVars, lockVars, arg, panicked>>


\* Mutant: e.mu.RUnlock is missing on the timeout path
DropTimeoutLocked ==
    /\ pc[Dropper] = "wait" /\ Goto(Dropper, "idle")
    /\ unMarkOffload
    /\ UNCHANGED <<reg, preload, unload, exeCount, bgVars, lockVars, arg, panicked>>

DropTimeout ==
    /\ pc[Dropper] = "wait" /\ Goto(Dropper, "idle")
    /\ unMarkOffload
    /\ dropRLock' = FALSE
    /\ UNCHANGED <<reg, preload, unload, exeCount, bgVars, wantLock, migrating,
                   arg, panicked>>

\* Shards are closed and taken out of the map one by one, then the files are removed.
\* It fails at a shard (closed before, or with an error), at an index or at the files:
\* the partition is unmarked with the shards that are left.
deleteShardsAndIndexes ==
    /\ pc[Dropper] = "delete"
    /\ unload' = TRUE
    /\ dropRLock' = FALSE
    /\ \/ /\ closed = {} /\ shards' = {} /\ orphan' = {} /\ closed' = {}
          /\ registered' = registered \ shards
          /\ Goto(Dropper, "dropping") /\ wantLock' = wantLock \cup {Dropper}
          /\ UNCHANGED <<offloading, ch, done>>
       \/ \E S \in SUBSET (shards \ closed) :
             /\ shards' = shards \ S /\ orphan' = orphan \cup S
             /\ IF S = shards THEN closed' = closed
                ELSE \E s \in shards \ S : closed' = closed \cup {s}
             /\ registered' = registered \ (S \cup closed')
             /\ unMarkOffload /\ Goto(Dropper, "idle") /\ UNCHANGED wantLock
    /\ UNCHANGED <<reg, preload, exeCount, bgr, doingOff, moveN, pending, opened, compEn,
                   late, migrating, arg, panicked>>

DropEnd ==
    /\ pc[Dropper] = "dropping" /\ CanLock /\ Goto(Dropper, "idle")
    /\ wantLock' = wantLock \ {Dropper}
    /\ reg' = FALSE
    /\ UNCHANGED <<offloading, preload, unload, exeCount, ch, done, bgVars, dropRLock,
                   migrating, arg, panicked>>

\* Assign of another partition of this node
OtherLock ==
    /\ Assigner \notin wantLock
    /\ wantLock' = wantLock \cup {Assigner}
    /\ UNCHANGED <<ptVars, bgVars, dropRLock, migrating, pc, arg, panicked>>

OtherAdd ==
    /\ Assigner \in wantLock /\ CanLock
    /\ wantLock' = wantLock \ {Assigner}
    /\ UNCHANGED <<ptVars, bgVars, dropRLock, migrating, pc, arg, panicked>>

-----------------------------------------------------------------------------
UserNext == \E i \in User : UserRef(i) \/ UserStep(i)
MigNext == \E m \in Mig : RefBegin(m) \/ LoadBegin(m) \/ Offload(m) \/ MigStep(m)
DropNext == \/ DropUnloaded \/ DropBegin \/ DropDone \/ DropTimeout
            \/ deleteShardsAndIndexes \/ DropEnd

Next == UserNext \/ MigNext \/ DropNext \/ OtherLock \/ OtherAdd

\* A request that was started goes on; the timers of both waits fire.  Requests,
\* services and drops need not come.  unrefDBPT needs e.mu.RLock: Unlock of a Go
\* RWMutex admits the readers that wait before another writer, hence SF.
Fairness ==
    /\ \A i \in User : WF_vars(UserStep(i)) /\ SF_vars(UserUnref(i))
    /\ \A m \in Mig : WF_vars(MigStep(m))
    /\ WF_vars(DropDone \/ DropTimeout \/ deleteShardsAndIndexes \/ DropEnd)
    /\ WF_vars(OtherAdd)

Spec == Init /\ [][Next]_vars
FairSpec == Spec /\ Fairness

-----------------------------------------------------------------------------
(* Properties                                                               *)

\* The types of the state; exeCount, doingShardMoveN and the pending deletions are
\* counted up and down by different goroutines and never fall below zero.
TypeOK ==
    /\ reg \in BOOLEAN /\ offloading \in BOOLEAN /\ preload \in BOOLEAN
    /\ unload \in BOOLEAN /\ panicked \in BOOLEAN
    /\ exeCount \in Nat /\ ch \in Closer \cup {None} /\ done \in [Closer -> BOOLEAN]
    /\ bgr \in BOOLEAN /\ doingOff \in BOOLEAN /\ moveN \in Nat
    /\ pending \subseteq Shard /\ shards \subseteq Shard /\ opened \subseteq Shard
    /\ orphan \subseteq Shard /\ closed \subseteq Shard
    /\ registered \subseteq Shard /\ compEn \subseteq Shard /\ late \subseteq Shard
    /\ dropRLock \in BOOLEAN /\ wantLock \subseteq Closer \cup {Assigner}
    /\ migrating \in BOOLEAN
    /\ pc \in [Actor -> UserPC \cup MigPC \cup DropPC]
    /\ arg \in [User -> Shard \cup {None}]

\* Whether the partition was closed for good and is about to leave DBPartitions
Dropping == \E a \in Closer : pc[a] = "dropping"

\* A goroutine that holds a reference (DBPTInfo.ref succeeded, unref not yet
\* called) works on a partition that is still in DBPartitions and not about to
\* leave it, and no shard is closed under it: offloadDbPT and DeleteDatabase close
\* shards only while nobody holds a reference, those of a close that fails halfway
\* included.  (A request that comes after such a failure meets the closed shards.)
HolderKeepsPt ==
    /\ [](Holders # {} => reg /\ ~Dropping)
    /\ [][Holders # {} => reg' = reg /\ closed' \subseteq closed]_vars

\* Neither panic of the unref path is reachable: "pt not found" in
\* unrefDBPTNoLock and "chan is nil" in DBPTInfo.unref.
NoPanic == ~panicked

\* A goroutine that waits for the last reference is signalled when the last
\* reference is given back, without having to run into its 15 s timer: its done
\* channel is ready, or it is registered and references remain.
NoLostWakeup ==
    \A a \in Closer : pc[a] = "wait" => done[a] \/ (ch = a /\ exeCount > 0)

\* PreOffload and HierarchicalStorage exclude each other: doingOff is never set
\* while a shard of the partition is being moved to cold storage.
MoveExcludesOffload == doingOff => moveN = 0

\* Once disableDBPtBgr succeeded no shard deletion is in flight until rollback.
NoDeleteInMigration == ~bgr => pending = {}

Compacting == shards \cap registered \cap compEn
InQuiesce == \E m \in Mig : pc[m] = "quiesce"

\* After PreOffload has gone through the shards, none of those it found is
\* compacted before RollbackPreOffload, whatever writes and services do.
OldShardsQuiet == ~bgr /\ ~InQuiesce => Compacting \subseteq late


\* A WriteToRaft waits for e.mu.RLock, which it holds, behind a queued writer
RaftStuck == wantLock # {} /\ \E i \in User : pc[i] = "raft"

\* A request that finished its work gets rid of its reference, also while
\* DeleteDatabase waits with e.mu read-locked and a writer queues behind it; the one
\* circle that nothing breaks is that of WriteToRaft with its own read lock.
UserReturns == \A i \in User : pc[i] \in {"leave", "raft"} ~> pc[i] = "idle" \/ RaftStuck

\* The partition as an abstract gate: requests holding a reference are inside, the
\* gate is open while the partition is registered and not about to be dropped, and
\* shards are closed behind it only when nobody is inside.
Gate == INSTANCE PtGate WITH Client <- User \cup Mig, Part <- Shard, inside <- Holders,
                             open <- reg /\ ~Dropping
GateSpec == Gate!Spec

=============================================================================
