---------------------------- MODULE PtMigration ----------------------------
(***************************************************************************)
(* Who serves a database partition (pt) under the shared-storage policy:   *)
(* ts-meta's replicated metadata (PtView, DataNodes, MigrateEvents), the   *)
(* leader's migrate state machine and cluster manager, the ts-store nodes  *)
(* that load and unload partitions, and the gossip (serf) events that tell *)
(* the leader who is alive.                                                *)
(*                                                                         *)
(* A raft command (ApplyCmd) is one atomic step.  A migration request is   *)
(* sent, begins on the store, ends there, and is answered; it may fail,    *)
(* or time out while the store goes on with it.  Connection ids are        *)
(* numbered per node, and a node's gossip time (LTime) is the connection   *)
(* id of the process that joined: both grow with every process start.      *)
(***************************************************************************)
EXTENDS Integers, FiniteSets, Sequences, Functions

CONSTANTS
    Node,        \* ts-store nodes
    Pt,          \* partitions
    EventId,     \* names for the event objects of the leader
    Faults,      \* which of the FaultKinds can happen
    MaxCrash,    \* a process crashes only while fewer than this have stopped
    MaxStop,     \* a node kills itself only while fewer than this have stopped
    MaxFlap,     \* how often gossip reports a running process as failed
    MaxMove,     \* how many moves the balancer starts
    MaxLeader,   \* how often the leadership of ts-meta changes
    MaxTrouble,  \* none of these happens once this many have
    BalanceAlgo, \* balance-algorithm-version: "v1.0", or "v1.1" (the default)
    Prompt       \* TRUE: the leader's own steps are fast compared with processes
                 \* starting, stopping and being noticed by gossip, with the timeout
                 \* of a request and with the interval of the balancer

FaultKinds ==
    {"noconn",     \* NoConnectionAvailable although the store runs
     "timeout",    \* the answer of a request is late
     "loaderr",    \* loading shards fails, or memory is short
     "busy",       \* (Pre)Offload is refused because of running requests
     "same"}       \* a meta process loses the leadership and gets it back

ASSUME ConstantsAssumption ==
    /\ IsFiniteSet(Node) /\ Node # {} /\ IsFiniteSet(Pt) /\ Pt # {}
    /\ EventId \subseteq Nat \ {0} /\ IsFiniteSet(EventId)
    /\ Faults \subseteq FaultKinds /\ Prompt \in BOOLEAN /\ BalanceAlgo \in {"v1.0", "v1.1"}
    /\ MaxCrash \in Nat /\ MaxStop \in Nat /\ MaxFlap \in Nat
    /\ MaxMove \in Nat /\ MaxTrouble \in Nat /\ MaxLeader \in Nat

VARIABLES
    \* replicated metadata (meta.Data)
    ptView,    \* PtView[pt]: owner, status and version
    node,      \* DataNodes[n]: status, lt (LTime), connID, aliveConn
    mevents,   \* MigrateEvents: a map with the partitions in migration as keys
    \* the leader's memory
    ev,        \* event objects, by name
    eventMap,  \* MigrateStateMachine.eventMap: partition -> event, 0 for none
    members,   \* ClusterManager.memberIds
    serf,      \* per node: gossip events the leader has not finished handling
    takeover,  \* takeoverDbPts goroutines, by node
    tasks,     \* processFailedDbPt calls that are due
    \* the stores and the network
    proc,      \* per node: the process runs, and its connection id
    part,      \* part[n][pt]: "none", "pre"(loaded) or "up"
    bg,        \* bg[n][pt]: background tasks of the partition are enabled
    lclock,    \* lclock[n][pt]: DBPTInfo.logicClock of the loaded partition
    exec,      \* exec[n][pt]: the migration request in progress
    gossip,    \* per node: the last gossip event, [up, lt]
    \* history and budgets
    served,    \* served[pt]: who served it Online, and with which logicClock
    flaps, moves, leaders

metaVars == <<ptView, node, mevents>>
cmVars == <<members, serf, takeover>>
msmVars == <<ev, eventMap, tasks>>
storeVars == <<proc, part, bg, lclock, exec>>
budgets == <<flaps, moves, leaders>>
vars == <<metaVars, cmVars, msmVars, storeVars, gossip, served, budgets>>

-----------------------------------------------------------------------------
NoReq == [op |-> "none", ver |-> 0, caller |-> 0]

Remove(f, k) == [x \in DOMAIN f \ {k} |-> f[x]]
Put(f, k, v) == [x \in DOMAIN f \cup {k} |-> IF x = k THEN v ELSE f[x]]

FreeIds == EventId \ DOMAIN ev
NewId == CHOOSE i \in FreeIds : TRUE

\* Operation ids are compared for equality only, so an id that no event carries
\* any more may be used again.
UsedOps == {ev[i].op : i \in DOMAIN ev} \cup {mevents[p].op : p \in DOMAIN mevents}
NewOp == CHOOSE k \in 1..(Cardinality(UsedOps) + 1) :
             k \notin UsedOps /\ \A j \in 1..(k - 1) : j \in UsedOps

\* How many processes have stopped so far
Stops == SumFunction([n \in Node |-> node[n].connID - (IF proc[n].up THEN 1 ELSE 0)])

\* What the environment has done to the system
Trouble == Stops + flaps + moves + leaders

\* The leader has nothing to do but to wait for stores
Quiet ==
    /\ takeover = {} /\ \A n \in Node : serf[n] = <<>>
    /\ tasks = {} \/ members = {}
    /\ \A i \in DOMAIN ev : ev[i].ph = "sent"
Timing == Prompt => Quiet

Target(e) ==
    IF e.type = "assign" \/ e.cur \in {"PreAssign", "Assign"} THEN e.dst ELSE e.src

\* What MigrationProcessor.Handle is asked to do
Op(e) == IF e.cur = "StartAssign" THEN "Assign" ELSE e.cur

-----------------------------------------------------------------------------
(* The raft commands (meta.Data)                                            *)

\* Mutant: the status of the owner is not looked at
OnlineRefusedNever(owner, status) == FALSE
OnlineRefused(owner, status) == status = "Online" /\ node[owner].status # "alive"

\* The PtInfo of an event (or of a retry) is a copy, except that a move of the v1.1
\* balancer points to the leader's own entry of PtView (addMovePtTasks).
Info(e) == IF e.alias THEN ptView[e.pt] ELSE e.info

\* UpdatePtInfo: refused with PtChanged unless owner and status are those of the
\* event; Online on a node that is not alive is dropped without an error.  What
\* the handler then assigns to the PtInfo of its event reaches PtView by the alias.
PtChanged(e) == ptView[e.pt].owner # Info(e).owner \/ ptView[e.pt].status # Info(e).status

UpdatePtInfo(e, owner, status) ==
    IF PtChanged(e) \/ (OnlineRefused(owner, status) /\ ~e.alias) THEN UNCHANGED ptView
    ELSE ptView' = [ptView EXCEPT ![e.pt].owner = owner, ![e.pt].status = status]

\* Mutant: a node that joins keeps its partitions online
SetOfflinePtsFailed(n, up) == {pt \in Pt : ~up /\ ptView[pt].owner = n}
SetOfflinePts(n, up) == {pt \in Pt : ptView[pt].owner = n}

\* UpdateNodeStatus for a gossip event; updatePtViewStatus sets the partitions of
\* the node offline, whether the node failed or joined.
OlderEvent(n, e) == e.lt < node[n].lt
SplitBrain(n, e) == e.up /\ node[n].connID = node[n].aliveConn

\* Mutant: the version of the partitions of the node stays
SetOfflineSameVer(info) == [info EXCEPT !.status = "Offline"]
SetOffline(info) == [info EXCEPT !.status = "Offline", !.ver = @ + 1]

UpdateNodeStatus(n, e) ==
    IF OlderEvent(n, e) \/ SplitBrain(n, e) THEN UNCHANGED <<node, ptView>>
    ELSE /\ node' = [node EXCEPT ![n].status = IF e.up THEN "alive" ELSE "failed",
                                 ![n].lt = e.lt,
                                 ![n].aliveConn = IF e.up THEN node[n].connID ELSE @]
         /\ ptView' = [pt \in Pt |->
                IF pt \in SetOfflinePts(n, e.up) THEN SetOffline(ptView[pt]) ELSE ptView[pt]]

\* CreateMigrateEvent: an event that has not moved on since it was created is
\* taken for the same one, any other refuses with PtEventIsAlreadyExist.
EventExists(e) ==
    /\ e.pt \in DOMAIN mevents
    /\ ~(mevents[e.pt].src = e.src /\ mevents[e.pt].dst = e.dst /\ mevents[e.pt].cur = "Init")

CreateMigrateEvent(e) ==
    IF e.pt \in DOMAIN mevents THEN UNCHANGED mevents
    ELSE mevents' = Put(mevents, e.pt,
             [type |-> e.type, src |-> e.src, dst |-> e.dst, op |-> NewOp,
              cur |-> "Init", info |-> Info(e)])

OpAfterCreate(e) == IF e.pt \in DOMAIN mevents THEN mevents[e.pt].op ELSE NewOp

\* UpdatePtVersion, and the version the leader reads back
NextVer(pt) == ptView[pt].ver + 1

-----------------------------------------------------------------------------
(* Events: AssignEvent and MoveEvent                                        *)

NewEvent(type, pt, info, alias, src, dst, conn) ==
    [type |-> type, pt |-> pt, info |-> info, alias |-> alias, src |-> src, dst |-> dst, conn |-> conn,
     op |-> 0, cur |-> "Init", pre |-> "Init", persist |-> FALSE, rec |-> FALSE,
     processed |-> FALSE, err |-> FALSE, ph |-> "run"]

\* Mutant: an assignment that fails is rolled back like a move
NextStateAssignRollback(cur, ok) == IF ok THEN "Assigned" ELSE "RollbackPreOffload"

\* stateTransition after an answer of the store; ok is err == nil
NextState(cur, ok) ==
    CASE cur \in {"StartAssign", "Assign"} -> IF ok THEN "Assigned" ELSE "AssignFailed"
      [] cur = "PreOffload" -> IF ok THEN "PreAssign" ELSE "Offloaded"
      [] cur = "PreAssign" -> IF ok THEN "Offload" ELSE "RollbackPreOffload"
      [] cur = "Offload" -> "Offloaded"
      [] cur = "Offloaded" -> "Assign"
      [] cur = "RollbackPreOffload" -> IF ok THEN "Final" ELSE "Offloaded"

stateTransition(e, ok) ==
    [e EXCEPT !.cur = NextState(e.cur, ok), !.pre = e.cur, !.persist = TRUE,
              !.err = @ \/ NextState(e.cur, ok) = "AssignFailed", !.ph = "run"]

isReassignNeededNever(e) == FALSE      \* mutant
isReassignNeeded(e) ==
    IF e.type = "assign" THEN e.cur \notin {"Assigned", "Final"}
    ELSE e.cur \notin {"Init", "Assigned", "Final"}

\* Mutant: a timeout is not sent again
handleCmdResultGiveUp(e, result) == stateTransition(e, result = "ok")

\* handleCmdResult: any error of a target that is not a member counts as
\* DataNoAlive.  "retry" stands for the errors that are sent again.
handleCmdResult(e, result) ==
    LET r == IF result # "ok" /\ Target(e) \notin members THEN "dead" ELSE result
    IN  IF r = "retry" THEN [e EXCEPT !.ph = "sent"] ELSE stateTransition(e, r = "ok")

Send(i, e) == ev' = [ev EXCEPT ![i] = [e EXCEPT !.ph = "sent"]] /\ UNCHANGED eventMap
Goon(i, e) == ev' = [ev EXCEPT ![i] = e] /\ UNCHANGED eventMap

\* processEvent leaves its loop, with or without an error, and deleteEvent takes
\* the event out of eventMap if it is this one.
Leave(i, e, err) ==
    /\ ev' = [ev EXCEPT ![i] = [e EXCEPT !.ph = "del", !.err = @ \/ err]]
    /\ eventMap' = IF eventMap[e.pt] = i THEN [eventMap EXCEPT ![e.pt] = 0] ELSE eventMap

Running(i) == i \in DOMAIN ev /\ ev[i].ph = "run"
At(i, states) == Running(i) /\ ~ev[i].persist /\ ev[i].cur \in states

restUnchanged == UNCHANGED <<cmVars, storeVars, gossip, served, budgets>>

-----------------------------------------------------------------------------
(* The handlers that processEvent runs; each ends in one raft command       *)

storeTransitionState(i) ==
    /\ Running(i) /\ ev[i].persist
    /\ LET e == ev[i] IN
       IF e.pt \in DOMAIN mevents /\ mevents[e.pt].op = e.op
       THEN /\ mevents' = [mevents EXCEPT ![e.pt].cur = e.cur]
            /\ Goon(i, [e EXCEPT !.persist = FALSE])
       ELSE /\ Leave(i, [e EXCEPT !.cur = e.pre, !.persist = FALSE], TRUE)
            /\ UNCHANGED mevents
    /\ UNCHANGED <<ptView, node, tasks>> /\ restUnchanged

\* initHandler and moveInitHandler: createMigrateEvent unless in recovery
createMigrateEvent(i) ==
    /\ At(i, {"Init"}) /\ ev[i].op = 0
    /\ LET e == ev[i] IN
       IF EventExists(e) THEN Leave(i, e, TRUE) /\ UNCHANGED mevents
       ELSE /\ CreateMigrateEvent(e)
            /\ Goon(i, [e EXCEPT !.op = OpAfterCreate(e), !.processed = TRUE])
    /\ UNCHANGED <<ptView, node, tasks>> /\ restUnchanged

initHandler(i) ==
    /\ At(i, {"Init"}) /\ ev[i].op # 0 /\ ev[i].type = "assign"
    /\ Goon(i, [ev[i] EXCEPT !.cur = "StartAssign"])
    /\ UNCHANGED <<metaVars, tasks>> /\ restUnchanged

moveInitHandler(i) ==
    /\ At(i, {"Init"}) /\ ev[i].op # 0 /\ ev[i].type = "move"
    /\ ptView' = [ptView EXCEPT ![ev[i].pt].ver = NextVer(ev[i].pt)]
    /\ Goon(i, [ev[i] EXCEPT !.cur = "PreOffload", !.info.ver = NextVer(ev[i].pt)])
    /\ UNCHANGED <<node, mevents, tasks>> /\ restUnchanged

\* startAssignHandler and moveAssignHandler: the target becomes the owner, then
\* the request is sent.  refreshDbPt renews owner and status, not the version.
refreshDbPt(e) ==
    [e EXCEPT !.info.owner = ptView[e.pt].owner, !.info.status = ptView[e.pt].status]

startAssignHandler(i) ==
    /\ At(i, {"StartAssign", "Assign"})
    /\ LET e == ev[i] IN
       /\ UpdatePtInfo(e, e.dst, Info(e).status)
       /\ IF PtChanged(e) THEN Leave(i, refreshDbPt(e), TRUE)
          ELSE Send(i, [e EXCEPT !.info.owner = e.dst])
    /\ UNCHANGED <<node, mevents, tasks>> /\ restUnchanged

\* Mutant: the partition stays online while its owner changes
moveOffloadedSkip(i) ==
    /\ At(i, {"Offloaded"})
    /\ Goon(i, stateTransition(ev[i], TRUE))
    /\ UNCHANGED <<metaVars, tasks>> /\ restUnchanged

moveOffloadedHandler(i) ==
    /\ At(i, {"Offloaded"})
    /\ LET e == ev[i] IN
       /\ UpdatePtInfo(e, e.src, "Offline")
       /\ IF PtChanged(e) THEN Leave(i, refreshDbPt(e), TRUE)
          ELSE Goon(i, stateTransition([e EXCEPT !.info.status = "Offline"], TRUE))
    /\ UNCHANGED <<node, mevents, tasks>> /\ restUnchanged

\* movePreOffloadHandler, movePreAssignHandler, moveOffloadHandler and
\* moveRollbackPreOffloadHander only send.
moveSendHandler(i) ==
    /\ At(i, {"PreOffload", "PreAssign", "Offload", "RollbackPreOffload"})
    /\ Send(i, ev[i])
    /\ UNCHANGED <<metaVars, tasks>> /\ restUnchanged

\* The history variable served notes the loaded object that goes online.
assignedHandler(i) ==
    /\ At(i, {"Assigned"})
    /\ LET e == ev[i]
           n == Info(e).owner IN
       /\ UpdatePtInfo(e, n, "Online")
       /\ Leave(i, e, PtChanged(e))
       /\ served' = IF ptView'[e.pt].status = "Online" /\ part[n][e.pt] = "up"
                    THEN [served EXCEPT ![e.pt] =
                            @ \cup {[n |-> n, conn |-> proc[n].conn, clk |-> lclock[n][e.pt]]}]
                    ELSE served
    /\ UNCHANGED <<node, mevents, tasks, cmVars, storeVars, gossip, budgets>>

assignFailedHandler(i) ==
    /\ At(i, {"AssignFailed"})
    /\ Leave(i, ev[i], FALSE)
    /\ UNCHANGED <<metaVars, tasks>> /\ restUnchanged

moveFinalHandler(i) ==
    /\ At(i, {"Final"})
    /\ Leave(i, ev[i], FALSE)
    /\ UNCHANGED <<metaVars, tasks>> /\ restUnchanged

\* Mutant: an event recovered by a new leader leaves its entry
RemovesEntryIfProcessed(e) == e.processed
RemovesEntry(e) == e.processed \/ e.rec

\* The rest of deleteEvent: removeEventFromStore, and a retry of the assignment
deleteEvent(i) ==
    /\ i \in DOMAIN ev /\ ev[i].ph = "del"
    /\ LET e == ev[i] IN
       /\ mevents' = IF RemovesEntry(e) THEN Remove(mevents, e.pt) ELSE mevents
       /\ tasks' = IF e.err /\ isReassignNeeded(e)
                   THEN tasks \cup {[pt |-> e.pt, info |-> Info(e), alias |-> e.alias, retry |-> TRUE]}
                   ELSE tasks
    /\ ev' = Remove(ev, i)
    /\ UNCHANGED <<ptView, node, eventMap>> /\ restUnchanged

EventStep(i) ==
    \/ storeTransitionState(i) \/ createMigrateEvent(i)
    \/ initHandler(i) \/ moveInitHandler(i)
    \/ startAssignHandler(i) \/ moveSendHandler(i) \/ moveOffloadedHandler(i)
    \/ assignedHandler(i) \/ assignFailedHandler(i) \/ moveFinalHandler(i)
    \/ deleteEvent(i)

-----------------------------------------------------------------------------
(* The migration requests: MigratePt on the leader, MigrationProcessor and  *)
(* the engine on the store.                                                 *)

eventUnchanged == UNCHANGED <<metaVars, cmVars, eventMap, tasks, gossip, served, budgets>>

\* The event's request is under way on the store
InExec(i) == exec[Target(ev[i])][ev[i].pt].caller = i
Waiting(i) == i \in DOMAIN ev /\ ev[i].ph = "sent"

Answer(i, result) == ev' = [ev EXCEPT ![i] = handleCmdResult(@, result)]

\* MigrationProcessor.Handle: a load meant for another incarnation of the node is
\* refused with DataNoAlive, a second request for the partition with
\* PtIsAlreadyMigrating; otherwise the engine starts to work on it.
MigrateBegin(i) ==
    /\ Waiting(i) /\ ~InExec(i)
    /\ LET e == ev[i]
           n == Target(e) IN
       /\ proc[n].up
       /\ \/ /\ Op(e) \in {"PreAssign", "Assign"} /\ e.conn # proc[n].conn
             /\ Answer(i, "dead") /\ UNCHANGED exec
          \/ /\ Op(e) \in {"PreAssign", "Assign"} => e.conn = proc[n].conn
             /\ exec[n][e.pt] # NoReq /\ n \notin members
             /\ Answer(i, "retry") /\ UNCHANGED exec
          \/ /\ Op(e) \in {"PreAssign", "Assign"} => e.conn = proc[n].conn
             /\ exec[n][e.pt] = NoReq
             /\ exec' = [exec EXCEPT ![n][e.pt] = [op |-> Op(e), ver |-> Info(e).ver, caller |-> i]]
             /\ UNCHANGED ev
    /\ UNCHANGED <<proc, part, bg, lclock>> /\ eventUnchanged

\* The request does not reach the store: NoConnectionAvailable, or an error that
\* is sent again (which changes nothing while the target is a member).
MigrateFail(i) ==
    /\ Waiting(i) /\ ~InExec(i)
    /\ \/ ~proc[Target(ev[i])].up
       \/ "noconn" \in Faults
    /\ \E r \in {"noconn", "retry"} : Answer(i, r)
    /\ UNCHANGED storeVars /\ eventUnchanged

\* SessionSelectTimeout (5 s) while the store is still working
MigrateTimeout(i) ==
    /\ Timing /\ Waiting(i) /\ InExec(i) /\ "timeout" \in Faults
    /\ exec' = [exec EXCEPT ![Target(ev[i])][ev[i].pt].caller = 0]
    /\ Answer(i, "retry")
    /\ UNCHANGED <<proc, part, bg, lclock>> /\ eventUnchanged

Answered(r, result) == IF r.caller = 0 THEN UNCHANGED ev ELSE Answer(r.caller, result)

\* What the engine does with a request; module DBPT has the steps in between.
PreOffloadEnd(n, pt, r) ==
    /\ r.op = "PreOffload"
    /\ \/ /\ part[n][pt] # "pre" /\ Answered(r, "ok")
          /\ bg' = [bg EXCEPT ![n][pt] = FALSE]
       \/ /\ part[n][pt] = "pre" \/ (part[n][pt] = "up" /\ "busy" \in Faults)
          /\ Answered(r, "retry") /\ UNCHANGED bg
    /\ UNCHANGED <<part, lclock>>

RollbackPreOffloadEnd(n, pt, r) ==
    /\ r.op = "RollbackPreOffload"
    /\ Answered(r, IF part[n][pt] = "pre" THEN "retry" ELSE "ok")
    /\ bg' = [bg EXCEPT ![n][pt] = @ \/ part[n][pt] = "up"]
    /\ UNCHANGED <<part, lclock>>

PreAssignEnd(n, pt, r) ==
    /\ r.op = "PreAssign"
    /\ \/ /\ Answered(r, "ok")
          /\ part' = [part EXCEPT ![n][pt] = IF @ = "none" THEN "pre" ELSE @]
       \/ /\ "loaderr" \in Faults /\ UNCHANGED part
          /\ Answered(r, "mem") \/ (part[n][pt] = "none" /\ Answered(r, "retry"))
    /\ UNCHANGED <<bg, lclock>>

OffloadEnd(n, pt, r) ==
    /\ r.op = "Offload"
    /\ \/ /\ Answered(r, "ok")
          /\ part' = [part EXCEPT ![n][pt] = "none"]
          /\ bg' = [bg EXCEPT ![n][pt] = FALSE]
          /\ lclock' = [lclock EXCEPT ![n][pt] = 0]
       \/ /\ part[n][pt] # "none" /\ "busy" \in Faults
          /\ Answered(r, "retry") /\ UNCHANGED <<part, bg, lclock>>

AssignEnd(n, pt, r) ==
    /\ r.op = "Assign"
    /\ \/ part[n][pt] = "up" /\ Answered(r, "ok") /\ UNCHANGED <<part, bg, lclock>>
       \/ /\ part[n][pt] # "up" /\ Answered(r, "ok")
          /\ part' = [part EXCEPT ![n][pt] = "up"]
          /\ bg' = [bg EXCEPT ![n][pt] = TRUE]
          /\ lclock' = [lclock EXCEPT ![n][pt] = r.ver]
       \/ /\ part[n][pt] = "none" /\ "loaderr" \in Faults
          /\ Answered(r, "mem") /\ UNCHANGED <<part, bg, lclock>>
       \/ /\ part[n][pt] # "up" /\ "loaderr" \in Faults
          /\ Answered(r, "retry")
          /\ part' = [part EXCEPT ![n][pt] = "none"]
          /\ UNCHANGED <<bg, lclock>>

MigrateEnd(n, pt) ==
    /\ exec[n][pt] # NoReq
    /\ exec' = [exec EXCEPT ![n][pt] = NoReq]
    /\ LET r == exec[n][pt] IN
       \/ PreOffloadEnd(n, pt, r) \/ RollbackPreOffloadEnd(n, pt, r)
       \/ PreAssignEnd(n, pt, r) \/ OffloadEnd(n, pt, r) \/ AssignEnd(n, pt, r)
    /\ UNCHANGED proc /\ eventUnchanged

-----------------------------------------------------------------------------
(* Stores start, stop and are watched by gossip                             *)

cmUnchanged == UNCHANGED <<mevents, msmVars, served>>

Stop(n) ==
    /\ proc' = [proc EXCEPT ![n].up = FALSE]
    /\ part' = [part EXCEPT ![n] = [pt \in Pt |-> "none"]]
    /\ bg' = [bg EXCEPT ![n] = [pt \in Pt |-> FALSE]]
    /\ lclock' = [lclock EXCEPT ![n] = [pt \in Pt |-> 0]]
    /\ exec' = [exec EXCEPT ![n] = [pt \in Pt |-> NoReq]]
    /\ UNCHANGED <<ptView, node, cmVars, gossip, flaps, moves, leaders>> /\ cmUnchanged

NodeCrash(n) ==
    /\ Timing /\ proc[n].up /\ Stops < MaxCrash /\ Trouble < MaxTrouble
    /\ Stop(n)

\* verifyDataNodeStatus: a node that joined and is held for failed, or that owns
\* a partition which stays offline for minutes, kills itself.
Suicide(n) ==
    /\ Timing /\ proc[n].up /\ node[n].aliveConn = node[n].connID /\ Stops < MaxStop
    /\ \/ node[n].status = "failed"
       \/ \E pt \in Pt : /\ ptView[pt].owner = n /\ ptView[pt].status # "Online"
                         /\ \A i \in DOMAIN ev : ev[i].pt # pt
                         /\ \A t \in tasks : t.pt # pt
                         /\ takeover = {} /\ serf[n] = <<>>
    /\ Stop(n)

\* CreateDataNode gives the new process a connection id; then it joins serf.
NodeStart(n) ==
    LET c == node[n].connID + 1
        e == [up |-> TRUE, lt |-> c, applied |-> FALSE] IN
    /\ Timing /\ ~proc[n].up
    /\ proc' = [proc EXCEPT ![n] = [up |-> TRUE, conn |-> c]]
    /\ node' = [node EXCEPT ![n].connID = c]
    /\ gossip' = [gossip EXCEPT ![n] = [up |-> TRUE, lt |-> c]]
    /\ serf' = [serf EXCEPT ![n] = Append(@, e)]
    /\ UNCHANGED <<ptView, members, takeover, part, bg, lclock, exec, budgets>> /\ cmUnchanged

GossipFail(n) ==
    /\ Timing /\ gossip[n].up
    /\ IF proc[n].up THEN flaps < MaxFlap /\ Trouble < MaxTrouble /\ flaps' = flaps + 1
       ELSE UNCHANGED flaps
    /\ gossip' = [gossip EXCEPT ![n].up = FALSE]
    /\ serf' = [serf EXCEPT ![n] =
                    Append(@, [up |-> FALSE, lt |-> gossip[n].lt, applied |-> FALSE])]
    /\ UNCHANGED <<ptView, node, members, takeover, storeVars, moves, leaders>> /\ cmUnchanged

\* The network heals: serf reports the same process again
GossipJoin(n) ==
    /\ Timing /\ ~gossip[n].up /\ proc[n].up
    /\ gossip' = [gossip EXCEPT ![n].up = TRUE]
    /\ serf' = [serf EXCEPT ![n] =
                    Append(@, [up |-> TRUE, lt |-> gossip[n].lt, applied |-> FALSE])]
    /\ UNCHANGED <<ptView, node, members, takeover, storeVars, budgets>> /\ cmUnchanged

\* failHandlerForSS: a node that answers a ping is not failed
PingNode(n) ==
    /\ serf[n] # <<>> /\ ~Head(serf[n]).applied /\ ~Head(serf[n]).up /\ proc[n].up
    /\ serf' = [serf EXCEPT ![n] = Tail(@)]
    /\ UNCHANGED <<ptView, node, members, takeover, storeVars, gossip, budgets>> /\ cmUnchanged

\* baseHandler.handleStoreEvent: the raft command; refusals are ignored
handleStoreEvent(n) ==
    /\ serf[n] # <<>> /\ ~Head(serf[n]).applied
    /\ UpdateNodeStatus(n, Head(serf[n]))
    /\ serf' = [serf EXCEPT ![n][1].applied = TRUE]
    /\ UNCHANGED <<members, takeover, storeVars, gossip, budgets>> /\ cmUnchanged

\* handleClusterMember, then the takeover of the partitions of the node
handleClusterMember(n) ==
    /\ serf[n] # <<>> /\ Head(serf[n]).applied
    /\ members' = IF Head(serf[n]).up THEN members \cup {n} ELSE members \ {n}
    /\ takeover' = takeover \cup {n}
    /\ serf' = [serf EXCEPT ![n] = Tail(@)]
    /\ UNCHANGED <<ptView, node, storeVars, gossip, budgets>> /\ cmUnchanged

-----------------------------------------------------------------------------
(* Takeover, balancing and a change of the leader                           *)

\* getFailedDbPts, then processFailedDbPt for each of them
takeoverDbPts(n) ==
    /\ n \in takeover /\ takeover' = takeover \ {n}
    /\ tasks' = tasks \cup
           {[pt |-> pt, info |-> ptView[pt], alias |-> FALSE, retry |-> FALSE] :
              pt \in {p \in Pt : ptView[p].owner = n /\ ptView[p].status = "Offline"}}
    /\ UNCHANGED <<metaVars, ev, eventMap, members, serf, storeVars, gossip, served, budgets>>

PtNum(n) == Cardinality({pt \in Pt : ptView[pt].owner = n})
Joined == {n \in Node : node[n].status = "alive" /\ node[n].aliveConn = node[n].connID}

getTakeOverNodeForSS(owner, retry) ==
    LET least == {n \in Joined : \A k \in Joined : PtNum(n) <= PtNum(k)}
        pool == IF retry THEN Joined ELSE least
    IN  IF owner \in members /\ ~retry THEN {owner}
        ELSE IF pool # {} /\ pool \subseteq members THEN pool ELSE members

\* addToEventMap refuses a second event of a partition
InEventMapNever(pt) == FALSE      \* mutant
InEventMap(pt) == eventMap[pt] # 0

\* processFailedDbPtNormal, assignDbPt and executeEvent: a partition with an event
\* in eventMap is tried again (deleteEvent of the refused event).
processFailedDbPt(t) ==
    /\ t \in tasks
    /\ \/ /\ ptView[t.pt].status = "Online"
          /\ tasks' = tasks \ {t} /\ UNCHANGED <<ev, eventMap>>
       \/ /\ ptView[t.pt].status # "Online"
          /\ \E n \in getTakeOverNodeForSS(Info(t).owner, t.retry) :
               IF InEventMap(t.pt)
               THEN tasks' = (tasks \ {t}) \cup {[t EXCEPT !.retry = TRUE]} /\ UNCHANGED <<ev, eventMap>>
               ELSE /\ FreeIds # {}
                    /\ tasks' = tasks \ {t}
                    /\ ev' = Put(ev, NewId,
                              NewEvent("assign", t.pt, Info(t), t.alias, 0, n, node[n].aliveConn))
                    /\ eventMap' = [eventMap EXCEPT ![t.pt] = NewId]
    /\ UNCHANGED <<metaVars, cmVars, storeVars, gossip, served, budgets>>

\* The balancer (external input here) moves an online partition to a joined node
balanceIfNeeded(pt, n) ==
    /\ Timing /\ moves < MaxMove /\ Trouble < MaxTrouble /\ moves' = moves + 1
    /\ ptView[pt].status = "Online" /\ n # ptView[pt].owner /\ n \in Joined
    /\ ~InEventMap(pt) /\ FreeIds # {}
    /\ ev' = Put(ev, NewId,
              NewEvent("move", pt, ptView[pt], BalanceAlgo = "v1.1", ptView[pt].owner, n,
                       node[n].aliveConn))
    /\ eventMap' = [eventMap EXCEPT ![pt] = NewId]
    /\ UNCHANGED <<metaVars, cmVars, tasks, storeVars, gossip, served, flaps, leaders>>

\* createEventFromInfo: the connection id of the target is not persisted
RecoveredEvent(pt) ==
    [NewEvent(mevents[pt].type, pt, mevents[pt].info, FALSE, mevents[pt].src, mevents[pt].dst, 0)
        EXCEPT !.op = mevents[pt].op, !.rec = TRUE]

\* resendPreviousEvent: the last gossip event of a node unless it was handled
Resent(n) ==
    LET g == gossip[n] IN
    IF g.lt < node[n].lt \/ (g.lt = node[n].lt /\ g.up = (node[n].status = "alive"))
    THEN <<>> ELSE <<[up |-> g.up, lt |-> g.lt, applied |-> FALSE]>>

\* Names for the recovered events, other than those of the kept objects
Names(kept) == {f \in [DOMAIN mevents -> EventId \ kept] : IsInjective(f)}

\* The leadership moves, and msm.Start and clusterManager.Start run on the new
\* leader.  Goroutines of the old leader end at their next raft command; when the
\* same process is elected again, the answer of a request it sent before still
\* schedules the old event object (kept).
LeaderChange ==
    /\ leaders < MaxLeader /\ Trouble < MaxTrouble /\ leaders' = leaders + 1
    /\ \E kept \in IF "same" \in Faults THEN SUBSET {i \in DOMAIN ev : ev[i].ph = "sent"}
                    ELSE {{}} :
       LET ids == CHOOSE f \in Names(kept) : TRUE
           recovered == {ids[pt] : pt \in DOMAIN mevents}
       IN /\ Names(kept) # {}
          /\ ev' = [i \in kept \cup recovered |->
                     IF i \in kept THEN ev[i]
                     ELSE RecoveredEvent(CHOOSE pt \in DOMAIN mevents : ids[pt] = i)]
          /\ eventMap' = [pt \in Pt |-> IF pt \in DOMAIN mevents THEN ids[pt] ELSE 0]
          /\ exec' = [n \in Node |-> [pt \in Pt |->
                        IF exec[n][pt].caller \in kept THEN exec[n][pt]
                        ELSE [exec[n][pt] EXCEPT !.caller = 0]]]
    /\ members' = {n \in Node : gossip[n].up \/ node[n].status = "alive"}
    /\ serf' = [n \in Node |-> Resent(n)]
    /\ takeover' = {} /\ tasks' = {}
    /\ UNCHANGED <<metaVars, proc, part, bg, lclock, gossip, served, flaps, moves>>

-----------------------------------------------------------------------------
Init ==
    /\ ptView \in [Pt -> [owner : Node, status : {"Online"}, ver : {1}]]
    /\ node = [n \in Node |-> [status |-> "alive", lt |-> 1, connID |-> 1, aliveConn |-> 1]]
    /\ mevents = <<>> /\ ev = <<>> /\ eventMap = [pt \in Pt |-> 0]
    /\ members = Node /\ serf = [n \in Node |-> <<>>] /\ takeover = {} /\ tasks = {}
    /\ proc = [n \in Node |-> [up |-> TRUE, conn |-> 1]]
    /\ part = [n \in Node |-> [pt \in Pt |-> IF ptView[pt].owner = n THEN "up" ELSE "none"]]
    /\ bg = [n \in Node |-> [pt \in Pt |-> ptView[pt].owner = n]]
    /\ lclock = [n \in Node |-> [pt \in Pt |-> IF ptView[pt].owner = n THEN 1 ELSE 0]]
    /\ exec = [n \in Node |-> [pt \in Pt |-> NoReq]]
    /\ gossip = [n \in Node |-> [up |-> TRUE, lt |-> 1]]
    /\ served = [pt \in Pt |-> {[n |-> ptView[pt].owner, conn |-> 1, clk |-> 1]}]
    /\ flaps = 0 /\ moves = 0 /\ leaders = 0

EventNext == \E i \in EventId : EventStep(i)
RpcNext ==
    \/ \E i \in EventId : MigrateBegin(i) \/ MigrateFail(i) \/ MigrateTimeout(i)
    \/ \E n \in Node, pt \in Pt : MigrateEnd(n, pt)
NodeNext ==
    \E n \in Node : NodeCrash(n) \/ Suicide(n) \/ NodeStart(n) \/ GossipFail(n) \/ GossipJoin(n)
ClusterNext ==
    \/ \E n \in Node : PingNode(n) \/ handleStoreEvent(n) \/ handleClusterMember(n) \/ takeoverDbPts(n)
    \/ \E t \in tasks : processFailedDbPt(t)
BalanceNext == \E pt \in Pt, n \in Node : balanceIfNeeded(pt, n)

Next == EventNext \/ RpcNext \/ NodeNext \/ ClusterNext \/ BalanceNext \/ LeaderChange

Spec == Init /\ [][Next]_vars

\* Goroutines of the leader and requests on the stores go on, a request to a store
\* that runs arrives, gossip notices a dead process, and a node that must kill
\* itself does.  A dead process need not be started again, faults need not happen.
Fairness ==
    /\ \A i \in EventId : WF_vars(EventStep(i)) /\ WF_vars(MigrateBegin(i))
                           /\ WF_vars(MigrateFail(i))
    /\ \A n \in Node : /\ \A pt \in Pt : WF_vars(MigrateEnd(n, pt))
                        /\ WF_vars(~proc[n].up /\ GossipFail(n))
                        /\ WF_vars(handleStoreEvent(n) \/ PingNode(n))
                        /\ WF_vars(handleClusterMember(n))
                        /\ WF_vars(takeoverDbPts(n))
                        /\ WF_vars(Suicide(n))
    /\ WF_vars(\E t \in tasks : processFailedDbPt(t))

FairSpec == Spec /\ Fairness

-----------------------------------------------------------------------------
(* Properties                                                               *)

Status == {"Online", "Offline"}
PtInfo == [owner : Node, status : Status, ver : Nat]
AssignStates == {"Init", "StartAssign", "Assigned", "AssignFailed"}
MoveStates == {"Init", "PreOffload", "PreAssign", "RollbackPreOffload", "Offload", "Offloaded",
               "Assign", "Assigned", "AssignFailed", "Final"}

\* The types of the state: an event is only ever in a state of its own type (an
\* AssignEvent has no handler for the states of a move), and only a running process
\* has partitions.
TypeOK ==
    /\ ptView \in [Pt -> PtInfo]
    /\ node \in [Node -> [status : {"alive", "failed"}, lt : Nat, connID : Nat, aliveConn : Nat]]
    /\ DOMAIN mevents \subseteq Pt /\ DOMAIN ev \subseteq EventId
    /\ eventMap \in [Pt -> EventId \cup {0}]
    /\ \A i \in DOMAIN ev :
         /\ ev[i].pt \in Pt /\ ev[i].info \in PtInfo /\ ev[i].dst \in Node
         /\ ev[i].ph \in {"run", "sent", "del"}
         /\ IF ev[i].type = "assign" THEN ev[i].cur \in AssignStates
            ELSE ev[i].type = "move" /\ ev[i].cur \in MoveStates /\ ev[i].src \in Node
    /\ members \subseteq Node /\ takeover \subseteq Node
    /\ part \in [Node -> [Pt -> {"none", "pre", "up"}]]
    /\ \A n \in Node, pt \in Pt : part[n][pt] # "none" => proc[n].up

\* A partition is Online only on a node the cluster believes to be alive: writers
\* are routed by PtView, and UpdatePtInfo guards every path to Online.
OnlineOnAliveNode == \A pt \in Pt : ptView[pt].status = "Online" => node[ptView[pt].owner].status = "alive"

\* The owner of a partition changes only while it is Offline, so no client is
\* routed to the new owner before the takeover or the move has finished there.
OwnerChangesOffline ==
    [][\A pt \in Pt : ptView'[pt].owner # ptView[pt].owner =>
                         ptView[pt].status = "Offline" /\ ptView'[pt].status = "Offline"]_vars

\* Two processes serve the same partition only if ts-meta holds one of them for
\* failed (it will kill itself) or has not heard of its restart yet.
Current(n) == node[n].status = "alive" /\ node[n].aliveConn = proc[n].conn
SingleServer ==
    \A pt \in Pt, a, b \in Node :
        part[a][pt] = "up" /\ part[b][pt] = "up" /\ Current(a) /\ Current(b) => a = b

\* Nothing is under way that will still change how the partition is served
Settled(pt) ==
    /\ \A i \in DOMAIN ev : ev[i].pt # pt
    /\ \A t \in tasks : t.pt # pt
    /\ serf[ptView[pt].owner] = <<>> /\ ptView[pt].owner \notin takeover

\* When nothing is under way for an Online partition, the owner's process has it
\* loaded with its background tasks enabled, provided that the process is the one
\* ts-meta knows.
OnlineServed ==
    \A pt \in Pt : LET n == ptView[pt].owner IN
        ptView[pt].status = "Online" /\ Settled(pt) /\ proc[n].up /\ Current(n)
            => part[n][pt] = "up" /\ bg[n][pt]

\* One event object per partition makes progress (eventMap).
OneEventPerPt ==
    \A i, j \in DOMAIN ev : ev[i].pt = ev[j].pt /\ ev[i].ph # "del" /\ ev[j].ph # "del" => i = j

\* An entry of MigrateEvents always has an event object that will remove it; a
\* leftover would refuse every later event of the partition.
NoLeakedEvent ==
    \A pt \in DOMAIN mevents : \E i \in DOMAIN ev : ev[i].pt = pt /\ (ev[i].processed \/ ev[i].rec)

\* No two processes serve a partition online with the same logicClock, from which
\* the engine derives the ids of new series.
ClockUnique == \A pt \in Pt : \A a, b \in served[pt] : a.clk = b.clk => a = b

\* A partition that goes offline is brought online again, somewhere.
Recovers == \A pt \in Pt : ptView[pt].status = "Offline" ~> ptView[pt].status = "Online"

=============================================================================
