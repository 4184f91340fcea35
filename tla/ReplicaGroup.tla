---------------------------- MODULE ReplicaGroup ----------------------------
(***************************************************************************)
(* Replica groups under the replication policy: how the partitions of a    *)
(* database are grouped, when a group is Health, and who becomes its       *)
(* master.  Three parties change the master of a group, each by reading    *)
(* the metadata, letting go of the lock and sending a raft command that    *)
(* is applied without a check: the handler of failed nodes (cluster        *)
(* manager), the balancer of masters (every 10 s) and the operator.        *)
(*                                                                         *)
(* Every node owns one partition of every database (PtNumPerNode = 1) and  *)
(* partitions do not move under this policy, so a partition is named by    *)
(* its database and its node.  Node ids grow in the order of registration, *)
(* which is the order of DataNodes.                                        *)
(***************************************************************************)
EXTENDS Integers, Sequences, FiniteSets, SequencesExt

CONSTANTS
    Db,         \* databases
    N,          \* bound: nodes that ever register
    First,      \* nodes registered at the start
    Old,        \* databases that exist at the start
    ReplicasN,  \* replicas of a database
    MaxCrash,   \* bound: processes that stop
    MaxModify,  \* bound: commands of the operator
    MaxTrouble, \* bound: both together
    AnyGroup    \* whether the operator also names a group that is UnFull

ASSUME ReplicaAssumption ==
    /\ IsFiniteSet(Db) /\ N \in Nat /\ First \in 1..N /\ Old \subseteq Db /\ ReplicasN \in Nat \ {0, 1}
    /\ MaxCrash \in Nat /\ MaxModify \in Nat /\ MaxTrouble \in Nat /\ AnyGroup \in BOOLEAN

Node == 1..N

VARIABLES
    nodes,     \* number of registered nodes: DataNodes are 1..nodes
    dn,        \* DataNode.Status
    pt,        \* PtView: status of a database's partition on a node
    rgs,       \* ReplicaGroups of a database, in the order of their ids
    rgid,      \* PtInfo.RGID, counted from 1; 0 before the partition exists
    stage,     \* how far CREATE DATABASE has come with a database
    up,        \* nodes whose process runs
    seen,      \* nodes that gossip takes for alive
    queue,     \* ClusterManager.eventCh
    pre,       \* preEventType of checkEvents
    hdl,       \* the goroutine that handles an event of a node
    assign,    \* assign events of the migrate state machine
    bal,       \* commands the balancer has chosen and not yet sent
    oper,      \* the operator's command, chosen and not yet sent
    \* history
    torn,      \* groups a handler read while they were changed: the master was a peer
    stale,     \* groups whose last loss of a partition was not counted (nextHealth)
    crashes, modifies

metaVars == <<nodes, dn, pt, rgs, rgid>>
histVars == <<torn, stale>>
vars == <<metaVars, stage, histVars, up, seen, queue, pre, hdl, assign, bal, oper, crashes, modifies>>

-----------------------------------------------------------------------------
(* Operators on a group.  view is the PtView of its database.              *)

Group == [master : Node, peers : Seq(Node), status : {"UnFull", "SubHealth", "Health"}]
Members(g) == {g.master} \union Range(g.peers)
Online(view, S) == {n \in S : view[n] = "Online"}
onlinePtN(g, view) ==
    Cardinality({i \in DOMAIN g.peers : view[g.peers[i]] = "Online"})
      + (IF view[g.master] = "Online" THEN 1 ELSE 0)
Smallest(S) == CHOOSE k \in S : \A j \in S : k <= j

\* Mutant: the master is not counted among the replicas.
nextUnFullLate(g) ==
    IF g.status = "UnFull" /\ Len(g.peers) = ReplicasN
    THEN [g EXCEPT !.status = "SubHealth"] ELSE g

nextUnFull(g) ==
    IF g.status = "UnFull" /\ Len(g.peers) + 1 = ReplicasN
    THEN [g EXCEPT !.status = "SubHealth"] ELSE g

nextSubHealth(g, view) ==
    IF /\ g.status = "SubHealth"
       /\ onlinePtN(g, view) > (Len(g.peers) + 1) \div 2
    THEN [g EXCEPT !.status = "Health"] ELSE g

\* Mutant: the boundary belongs to Health.
nextHealthHalf(g, view) ==
    IF /\ g.status = "Health"
       /\ onlinePtN(g, view) < ReplicasN \div 2
    THEN [g EXCEPT !.status = "SubHealth"] ELSE g

nextHealth(g, view) ==
    IF /\ g.status = "Health"
       /\ onlinePtN(g, view) <= ReplicasN \div 2
    THEN [g EXCEPT !.status = "SubHealth"] ELSE g

\* GenerateNewPeer of the balancer; GetNewRg of the operator makes the same list:
\* the old master, then every peer but m.
GenerateNewPeer(g, m) ==
    IF m = g.master THEN g.peers
    ELSE <<g.master>> \o FlattenSeq([i \in DOMAIN g.peers |->
                                        IF g.peers[i] = m THEN << >> ELSE <<g.peers[i]>>])

\* Mutant: the failed master is not kept as a peer.
electPeersDropped(g, i) == RemoveAt(g.peers, i)

\* The peers electRgMaster returns: the old master in place of the new one.
electPeers(g, i) == [g.peers EXCEPT ![i] = g.master]

\* The positions electRgMaster chooses the first of.
electable(g, view) == {i \in DOMAIN g.peers : view[g.peers[i]] = "Online"}

AddPeer(g, n) == [g EXCEPT !.peers = Append(g.peers, n)]

\* joinRpGroup for one partition, policy NodeHard: the first group with room,
\* or a new one of which the partition is the master.  s.rg are the groups
\* of the database, s.id the RGIDs.
joinRpGroup(s, n) ==
    LET open == {j \in DOMAIN s.rg : s.rg[j].status = "UnFull"}
        i == Smallest(open)
    IN  IF open = {}
        THEN [rg |-> Append(s.rg, nextUnFull([master |-> n, peers |-> << >>, status |-> "UnFull"])),
              id |-> [s.id EXCEPT ![n] = Len(s.rg) + 1]]
        ELSE [rg |-> [s.rg EXCEPT ![i] = nextUnFull(AddPeer(s.rg[i], n))],
              id |-> [s.id EXCEPT ![n] = i]]

Exists(d) == rgs[d] # << >>
Databases == {d \in Db : stage[d] = "done"}
GroupOf(d, n) == rgs[d][rgid[d][n]]

-----------------------------------------------------------------------------
(* Raft commands on the metadata.                                          *)

Command == [db : Db, rg : Nat, master : Node, peers : Seq(Node)]

\* UpdateReplication compares nothing with what the sender has read.
UpdateReplication(c) ==
    LET g == rgs[c.db][c.rg]
    IN  rgs' = [rgs EXCEPT ![c.db][c.rg] =
                  [g EXCEPT !.master = c.master,
                            !.peers = IF c.peers = << >> THEN g.peers ELSE c.peers]]

\* UpdateNodeStatus, updatePtViewStatus: whichever the status, the partitions
\* of the node go offline and their groups may lose their majority; the groups
\* of a database that is not created yet are left alone (GetReplicaN).
UpdateNodeStatus(n, status) ==
    LET view(d) == [pt[d] EXCEPT ![n] = IF @ = "none" THEN @ ELSE "Offline"]
    IN  /\ dn' = [dn EXCEPT ![n] = status]
        /\ pt' = [d \in Db |-> view(d)]
        /\ rgs' = [d \in Db |-> [i \in DOMAIN rgs[d] |->
                     IF d \in Databases /\ i = rgid[d][n] THEN nextHealth(rgs[d][i], view(d)) ELSE rgs[d][i]]]
        /\ stale' = (stale \ {<<d, rgid[d][n]>> : d \in Databases})
                      \union {<<d, rgid[d][n]>> : d \in {e \in Db \ Databases : Exists(e)}}

\* UpdatePtInfo to Online, refused when the node is not alive.
UpdatePtInfo(d, n) ==
    LET view == [pt[d] EXCEPT ![n] = "Online"]
    IN  IF dn[n] = "alive" /\ pt[d][n] = "Offline"
        THEN /\ pt' = [pt EXCEPT ![d] = view]
             /\ rgs' = [rgs EXCEPT ![d][rgid[d][n]] = nextSubHealth(@, view)]
        ELSE UNCHANGED <<pt, rgs>>

-----------------------------------------------------------------------------
(* Nodes, databases and gossip.                                            *)

Idle == [at |-> "idle"]
Event(type, n) == [type |-> type, node |-> n]

\* NodeHardCreateDBRG on k nodes, in the order of DataNodes.
NodeHardCreateDBRG(k) ==
    LET join[n \in 0..k] ==
          IF n = 0 THEN [rg |-> << >>, id |-> [m \in Node |-> 0]] ELSE joinRpGroup(join[n - 1], n)
    IN  join[k]

\* A cluster at rest: the partitions of full groups are online.
Init ==
    /\ nodes = First
    /\ dn = [n \in Node |-> IF n <= First THEN "alive" ELSE "none"]
    /\ LET s == NodeHardCreateDBRG(First)
           full(i) == s.rg[i].status # "UnFull"
       IN  /\ pt = [d \in Db |-> [n \in Node |->
                      IF d \notin Old \/ n > First THEN "none"
                      ELSE IF full(s.id[n]) THEN "Online" ELSE "Offline"]]
           /\ rgs = [d \in Db |-> IF d \notin Old THEN << >>
                      ELSE [i \in DOMAIN s.rg |-> IF full(i) THEN [s.rg[i] EXCEPT !.status = "Health"] ELSE s.rg[i]]]
           /\ rgid = [d \in Db |-> [n \in Node |-> IF d \in Old THEN s.id[n] ELSE 0]]
    /\ stage = [d \in Db |-> IF d \in Old THEN "done" ELSE "none"]
    /\ torn = {} /\ stale = {}
    /\ up = 1..First /\ seen = 1..First
    /\ queue = << >> /\ pre = "join"
    /\ hdl = [n \in Node |-> Idle]
    /\ assign = {}
    /\ bal = << >> /\ oper = << >>
    /\ crashes = 0 /\ modifies = 0

\* CREATE DATABASE, first command: CreateDBPtView (assignPtForWAF: every node,
\* alive or not) and NodeHardCreateDBRG.
CreateDBPtView(d) ==
    /\ ~Exists(d)
    /\ LET s == NodeHardCreateDBRG(nodes)
       IN  /\ rgs' = [rgs EXCEPT ![d] = s.rg]
           /\ rgid' = [rgid EXCEPT ![d] = s.id]
    /\ pt' = [pt EXCEPT ![d] = [n \in Node |-> IF n <= nodes THEN "Offline" ELSE "none"]]
    /\ stage' = [stage EXCEPT ![d] = "view"]
    /\ UNCHANGED <<nodes, dn, histVars, up, seen, queue, pre, hdl, assign, bal, oper, crashes, modifies>>

AssignEvents(S, user) == {[db |-> x[1], node |-> x[2], user |-> user] : x \in S}

\* CREATE DATABASE, second step: getDbPtsByDbname and assignDbpt, which waits
\* for the events.
assignDbpt(d) ==
    /\ stage[d] = "view"
    /\ stage' = [stage EXCEPT ![d] = "load"]
    /\ assign' = assign \union AssignEvents({d} \X
          {n \in 1..nodes : pt[d][n] = "Offline" /\ GroupOf(d, n).status # "UnFull"}, TRUE)
    /\ UNCHANGED <<metaVars, histVars, up, seen, queue, pre, hdl, bal, oper, crashes, modifies>>

\* CREATE DATABASE, third step: the events have ended, well or not (handleCommandErr),
\* and the database is entered.
CreateDatabase(d) ==
    /\ stage[d] = "load" /\ \A a \in assign : a.db = d => ~a.user
    /\ stage' = [stage EXCEPT ![d] = "done"]
    /\ UNCHANGED <<metaVars, histVars, up, seen, queue, pre, hdl, assign, bal, oper, crashes, modifies>>

\* A new store process registers (CreateDataNode, expandDBPtView) and joins. While
\* a database is being created the command is a nil dereference in DBReplicaN.
CreateDataNode ==
    /\ nodes < N /\ \A d \in Db : Exists(d) => d \in Databases
    /\ LET n == nodes + 1
           s(d) == IF Exists(d) THEN joinRpGroup([rg |-> rgs[d], id |-> rgid[d]], n)
                                ELSE [rg |-> rgs[d], id |-> rgid[d]]
       IN  /\ nodes' = n
           /\ rgs' = [d \in Db |-> s(d).rg]
           /\ rgid' = [d \in Db |-> s(d).id]
           /\ pt' = [d \in Db |-> [pt[d] EXCEPT ![n] = IF Exists(d) THEN "Offline" ELSE @]]
           /\ up' = up \union {n} /\ seen' = seen \union {n}
           /\ queue' = Append(queue, Event("join", n))
    /\ UNCHANGED <<dn, stage, histVars, pre, hdl, assign, bal, oper, crashes, modifies>>

Crash(n) ==
    /\ n \in up /\ crashes < MaxCrash /\ crashes + modifies < MaxTrouble
    /\ up' = up \ {n} /\ crashes' = crashes + 1
    /\ UNCHANGED <<metaVars, stage, histVars, seen, queue, pre, hdl, assign, bal, oper, modifies>>

\* The process of a known node starts again; gossip may have missed its end.
Restart(n) ==
    /\ n \in 1..nodes \ up
    /\ up' = up \union {n} /\ seen' = seen \union {n}
    /\ queue' = Append(queue, Event("join", n))
    /\ UNCHANGED <<metaVars, stage, histVars, pre, hdl, assign, bal, oper, crashes, modifies>>

GossipFailed(n) ==
    /\ n \in seen \ up
    /\ seen' = seen \ {n}
    /\ queue' = Append(queue, Event("fail", n))
    /\ UNCHANGED <<metaVars, stage, histVars, up, pre, hdl, assign, bal, oper, crashes, modifies>>

-----------------------------------------------------------------------------
(* The cluster manager.                                                    *)

\* checkEvents: an event of the type before it is handled on a goroutine of
\* its own; one of another type waits for these and is handled in place.
checkEvents ==
    /\ queue # << >>
    /\ LET e == Head(queue)
           place == e.type # pre
       IN  /\ hdl[e.node] = Idle
           /\ \A n \in Node : hdl[n] # Idle => ~place /\ ~hdl[n].place
           /\ hdl' = [hdl EXCEPT ![e.node] = [at |-> e.type, place |-> place]]
           /\ pre' = e.type
    /\ queue' = Tail(queue)
    /\ UNCHANGED <<metaVars, stage, histVars, up, seen, assign, bal, oper, crashes, modifies>>

\* joinHandlerForRep: the status, then takeoverForRep.
joinHandlerForRep(n) ==
    /\ hdl[n].at = "join"
    /\ UpdateNodeStatus(n, "alive")
    /\ hdl' = [hdl EXCEPT ![n].at = "takeover"]
    /\ UNCHANGED <<nodes, rgid, stage, torn, up, seen, queue, pre, assign, bal, oper, crashes, modifies>>

\* GetFailedDbPtsForRep: all partitions of the node's groups that are full,
\* of which those offline on a live node are assigned; an event that meets
\* another one of its partition is started again until that is gone.
takeoverForRep(n) ==
    /\ hdl[n].at = "takeover"
    /\ LET failed == {d \in Databases : pt[d][n] = "Offline" /\ GroupOf(d, n).status # "UnFull"}
       IN  assign' = assign \union AssignEvents(
             {x \in failed \X Node : /\ x[2] \in Members(GroupOf(x[1], n))
                                     /\ pt[x[1]][x[2]] = "Offline"
                                     /\ dn[x[2]] = "alive"}, FALSE)
    /\ hdl' = [hdl EXCEPT ![n] = Idle]
    /\ UNCHANGED <<metaVars, stage, histVars, up, seen, queue, pre, bal, oper, crashes, modifies>>

\* failHandlerForRep: the status, then failOverForRep.
failHandlerForRep(n) ==
    /\ hdl[n].at = "fail"
    /\ UpdateNodeStatus(n, "failed")
    /\ hdl' = [hdl EXCEPT ![n].at = "failed"]
    /\ UNCHANGED <<nodes, rgid, stage, torn, up, seen, queue, pre, assign, bal, oper, crashes, modifies>>

\* The handler of a failed node between two partitions, with a command to send or none.
FailOver(n, todo, cmd) == [at |-> "failover", place |-> hdl[n].place, todo |-> todo, cmd |-> cmd]

\* getFailedDbPts: the node being failed, nothing puts its partitions online.
getFailedDbPts(n) ==
    /\ hdl[n].at = "failed"
    /\ hdl' = [hdl EXCEPT ![n] = FailOver(n, {d \in Databases : pt[d][n] = "Offline"}, << >>)]
    /\ UNCHANGED <<metaVars, stage, histVars, up, seen, queue, pre, assign, bal, oper, crashes, modifies>>

\* failOverForRep, one turn.  processReplication reads the group without a lock: the
\* master, which is the failed partition or not ...
processReplication(n) ==
    /\ hdl[n].at = "failover" /\ hdl[n].cmd = << >>
    /\ \/ /\ hdl[n].todo = {}
          /\ hdl' = [hdl EXCEPT ![n] = Idle]
       \/ \E d \in hdl[n].todo :
             hdl' = [hdl EXCEPT ![n] =
                       IF GroupOf(d, n).master # n THEN FailOver(n, hdl[n].todo \ {d}, << >>)
                       ELSE [at |-> "elect", place |-> hdl[n].place, todo |-> hdl[n].todo \ {d}, db |-> d]]
    /\ UNCHANGED <<metaVars, stage, histVars, up, seen, queue, pre, assign, bal, oper, crashes, modifies>>

\* Mutant: a failed master is not replaced.
electRgMasterNot(n) ==
    /\ hdl[n].at = "elect"
    /\ hdl' = [hdl EXCEPT ![n] = FailOver(n, hdl[n].todo, << >>)]
    /\ UNCHANGED <<metaVars, stage, histVars, up, seen, queue, pre, assign, bal, oper, crashes, modifies>>

\* ... the peers, of which electRgMaster takes the first that is online ...
electRgMaster(n) ==
    /\ hdl[n].at = "elect"
    /\ LET d == hdl[n].db
           g == GroupOf(d, n)
           can == electable(g, pt[d])
       IN  hdl' = [hdl EXCEPT ![n] =
                     IF can = {} THEN FailOver(n, hdl[n].todo, << >>)
                     ELSE [at |-> "swap", place |-> hdl[n].place, todo |-> hdl[n].todo, db |-> d,
                           pos |-> Smallest(can), peers |-> g.peers]]
    /\ UNCHANGED <<metaVars, stage, histVars, up, seen, queue, pre, assign, bal, oper, crashes, modifies>>

\* ... and once more the master, which takes its place.
swapMaster(n) ==
    /\ hdl[n].at = "swap"
    /\ LET d == hdl[n].db
           g == [GroupOf(d, n) EXCEPT !.peers = hdl[n].peers]
           i == hdl[n].pos
       IN  /\ hdl' = [hdl EXCEPT ![n] = FailOver(n, hdl[n].todo,
                        << [db |-> d, rg |-> rgid[d][n], master |-> g.peers[i], peers |-> electPeers(g, i)] >>)]
           /\ torn' = IF g.master \in Range(g.peers) THEN torn \union {<<d, rgid[d][n]>>} ELSE torn
    /\ UNCHANGED <<metaVars, stage, stale, up, seen, queue, pre, assign, bal, oper, crashes, modifies>>

\* The command is sent.
applyReplication(n) ==
    /\ hdl[n].at = "failover" /\ hdl[n].cmd # << >>
    /\ UpdateReplication(hdl[n].cmd[1])
    /\ hdl' = [hdl EXCEPT ![n].cmd = << >>]
    /\ UNCHANGED <<nodes, dn, pt, rgid, stage, histVars, up, seen, queue, pre, assign, bal, oper, crashes, modifies>>

\* An assign event ends: its process has loaded the partition, or it is gone.
\* In that case only the event of a user's command ends; the others are
\* started again (deleteEvent, processFailedDbPtForRep).
AssignEnd(a) ==
    /\ a.node \in up \/ a.user
    /\ IF a.node \in up THEN UpdatePtInfo(a.db, a.node) ELSE UNCHANGED <<pt, rgs>>
    /\ assign' = assign \ {a}
    /\ UNCHANGED <<nodes, dn, rgid, stage, histVars, up, seen, queue, pre, hdl, bal, oper, crashes, modifies>>

-----------------------------------------------------------------------------
(* The balancer of masters and the operator.                               *)

\* GetMasterPtLimitPerNode: groups by nodes, rounded up; failed nodes count.
GetMasterPtLimitPerNode ==
    (MapThenSumSet(LAMBDA d : Len(rgs[d]), Db) + nodes - 1) \div nodes

\* The databases with a full group whose master is the node's partition.
GetRgsOfNodeMasterPts(n) ==
    {d \in Databases : rgid[d][n] # 0 /\ GroupOf(d, n).status # "UnFull" /\ GroupOf(d, n).master = n}

CanElectAsNewRgMaster(d, m, num) ==
    /\ pt[d][m] = "Online" /\ dn[m] = "alive"
    /\ num[m] + 1 <= GetMasterPtLimitPerNode

\* The command for a group of which the peer at position i becomes the master.
NewMaster(d, n, i) ==
    LET g == GroupOf(d, n)
    IN  [db |-> d, rg |-> rgid[d][n], master |-> g.peers[i], peers |-> GenerateNewPeer(g, g.peers[i])]

\* Mutant: the numbers are not brought up to date.
ElectNewRgMasterUncounted(s, x) ==
    LET peers == GroupOf(x.db, x.node).peers
        can == {i \in DOMAIN peers : CanElectAsNewRgMaster(x.db, peers[i], s.num)}
    IN  IF s.num[x.node] <= GetMasterPtLimitPerNode \/ can = {} THEN s
        ELSE [s EXCEPT !.ev = Append(@, NewMaster(x.db, x.node, Smallest(can)))]

\* One group of an overloaded node: its first electable peer becomes the master
\* as long as the node is above the limit.
ElectNewRgMaster(s, x) ==
    LET peers == GroupOf(x.db, x.node).peers
        can == {i \in DOMAIN peers : CanElectAsNewRgMaster(x.db, peers[i], s.num)}
    IN  IF s.num[x.node] <= GetMasterPtLimitPerNode \/ can = {} THEN s
        ELSE [num |-> [s.num EXCEPT ![x.node] = @ - 1, ![peers[Smallest(can)]] = @ + 1],
              ev |-> Append(s.ev, NewMaster(x.db, x.node, Smallest(can)))]

\* selectUpdateRGEvents; masters is the order in which the groups are walked.
selectUpdateRGEvents(masters) ==
    LET elect[i \in 0..Len(masters)] ==
          IF i = 0 THEN [num |-> [n \in Node |-> Cardinality(GetRgsOfNodeMasterPts(n))], ev |-> << >>]
          ELSE ElectNewRgMaster(elect[i - 1], masters[i])
    IN  elect[Len(masters)].ev

\* The masters on live nodes, node by node; Go walks the map of databases in any
\* order, each time in another one.
MasterPts == {x \in [node : 1..nodes, db : Db] : dn[x.node] = "alive" /\ x.db \in GetRgsOfNodeMasterPts(x.node)}
Walks == {s \in SetToSeqs(MasterPts) : \A i, j \in DOMAIN s : i < j => s[i].node <= s[j].node}

\* balanceNodeHard chooses; choosing nothing changes nothing.
BalanceSelect ==
    /\ bal = << >>
    /\ \E masters \in Walks :
          /\ bal' = selectUpdateRGEvents(masters)
          /\ bal' # << >>
    /\ UNCHANGED <<metaVars, stage, histVars, up, seen, queue, pre, hdl, assign, oper, crashes, modifies>>

BalanceApply ==
    /\ bal # << >>
    /\ UpdateReplication(Head(bal)) /\ bal' = Tail(bal)
    /\ UNCHANGED <<nodes, dn, pt, rgid, stage, histVars, up, seen, queue, pre, hdl, assign, oper, crashes, modifies>>

\* ModifyRepDBMasterPt reads (GetNewRg: any peer will do) ...
ModifyRepDBMasterPt(d, i, m) ==
    /\ oper = << >> /\ modifies < MaxModify /\ crashes + modifies < MaxTrouble
    /\ m \in Range(rgs[d][i].peers) /\ m # rgs[d][i].master
    /\ Len(GenerateNewPeer(rgs[d][i], m)) = Len(rgs[d][i].peers)
    /\ AnyGroup \/ rgs[d][i].status # "UnFull"
    /\ oper' = << [db |-> d, rg |-> i, master |-> m, peers |-> GenerateNewPeer(rgs[d][i], m)] >>
    /\ modifies' = modifies + 1
    /\ UNCHANGED <<metaVars, stage, histVars, up, seen, queue, pre, hdl, assign, bal, crashes>>

\* ... and sends.
ModifyApply ==
    /\ oper # << >>
    /\ UpdateReplication(oper[1]) /\ oper' = << >>
    /\ UNCHANGED <<nodes, dn, pt, rgid, stage, histVars, up, seen, queue, pre, hdl, assign, bal, crashes, modifies>>

-----------------------------------------------------------------------------
Handler(n) == \/ joinHandlerForRep(n) \/ takeoverForRep(n) \/ failHandlerForRep(n)
              \/ getFailedDbPts(n) \/ processReplication(n) \/ electRgMaster(n) \/ swapMaster(n)
              \/ applyReplication(n)

Next ==
    \/ CreateDataNode \/ checkEvents \/ BalanceSelect \/ BalanceApply \/ ModifyApply
    \/ \E d \in Db : CreateDBPtView(d) \/ assignDbpt(d) \/ CreateDatabase(d)
    \/ \E n \in Node : Crash(n) \/ Restart(n) \/ GossipFailed(n) \/ Handler(n)
    \/ \E a \in assign : AssignEnd(a)
    \/ \E d \in Db, m \in Node : \E i \in DOMAIN rgs[d] : ModifyRepDBMasterPt(d, i, m)

Spec == Init /\ [][Next]_vars

\* Goroutines of the leader go on, gossip notices a process that stays dead,
\* a running store answers.  Nobody has to start a dead process again.
FairSpec ==
    /\ Spec
    /\ WF_vars(checkEvents) /\ WF_vars(BalanceSelect) /\ WF_vars(BalanceApply) /\ WF_vars(ModifyApply)
    /\ WF_vars(\E d \in Db : assignDbpt(d) \/ CreateDatabase(d))
    /\ WF_vars(\E n \in Node : GossipFailed(n)) /\ WF_vars(\E n \in Node : Handler(n))
    /\ WF_vars(\E a \in assign : AssignEnd(a))

-----------------------------------------------------------------------------
(* Properties.                                                             *)

\* Types; the peers of a group never outnumber its replicas (replication.go).
TypeOK ==
    /\ nodes \in First..N
    /\ dn \in [Node -> {"none", "alive", "failed"}]
    /\ pt \in [Db -> [Node -> {"none", "Offline", "Online"}]]
    /\ \A d \in Db, i \in 1..N : i \in DOMAIN rgs[d] =>
          rgs[d][i] \in Group /\ Len(rgs[d][i].peers) < ReplicasN
    /\ rgid \in [Db -> [Node -> 0..N]]
    /\ up \subseteq 1..nodes /\ seen \subseteq 1..nodes
    /\ Range(bal) \union Range(oper) \subseteq Command
    /\ assign \subseteq [db : Db, node : Node, user : BOOLEAN]
    /\ stage \in [Db -> {"none", "view", "load", "done"}]
    /\ torn \union stale \subseteq Db \X (0..N)

\* A group and its partitions agree on who belongs to it: every partition that
\* names the group is its master or one of its peers, once, and a group is
\* UnFull as long as replicas are missing.  The commands that change a master
\* carry a whole list of peers read earlier (store.go, updateReplication), and
\* nodes that register add peers: a list that is stale would lose one.  The one
\* way to lose a member, and double another, is a command that is applied while
\* the handler of a failed node reads the group without a lock.
MembersKept ==
    \A d \in Db : \A i \in DOMAIN rgs[d] :
        LET g == rgs[d][i]
            owners == {n \in Node : rgid[d][n] = i}
        IN  /\ Members(g) \subseteq owners
            /\ <<d, i>> \notin torn =>
                 /\ Members(g) = owners
                 /\ Cardinality(Members(g)) = Len(g.peers) + 1
                 /\ g.status = "UnFull" <=> Len(g.peers) + 1 < ReplicasN

\* No command loses a member.  One that was put together from two reads does:
\* MCReplicaTorn.cfg shows it.
MembersKeptAll == torn = {}

\* A full group whose majority is online is Health, and a group that is Health has
\* its majority, whatever nodes fail, join and take over, although the status is
\* only stepped (nextHealth, nextSubHealth) by the partition that changes and
\* against a list of peers that others replace.  The latter fails for a group that
\* lost a partition while its database was being created, until it loses another.
HealthIsMajority ==
    \A d \in Db : \A i \in DOMAIN rgs[d] :
        LET g == rgs[d][i]
            majority == 2 * Cardinality(Online(pt[d], Members(g))) > ReplicasN
        IN  g.status # "UnFull" /\ <<d, i>> \notin torn =>
              /\ majority => g.status = "Health"
              /\ g.status = "Health" => majority \/ <<d, i>> \in stale

\* The balancer comes to rest: when in the end all nodes stay up, no node has
\* more masters than its share, rounded up, whatever failovers and operator did
\* before (master_pt_balance_manager.go).
Groups == UNION {{d} \X DOMAIN rgs[d] : d \in Db}
Balances ==
    <>[](up = Node) => <>[](\A n \in Node : Cardinality(GetRgsOfNodeMasterPts(n)) * N < Cardinality(Groups) + N)

MasterOnline(d) == Exists(d) /\ pt[d][rgs[d][1].master] = "Online"
Headless(d) == Exists(d) /\ dn[rgs[d][1].master] = "failed"
\* No command of the balancer or the operator is on its way to a partition that
\* has gone offline, and some partition of the group is online.
Calm(d) ==
    /\ \A c \in Range(bal) \union Range(oper) : pt[c.db][c.master] = "Online"
    /\ Exists(d) /\ Online(pt[d], Members(rgs[d][1])) # {}

\* A group that has had an online master gets another one when the node of its
\* master fails (failHandlerForRep), while balancer, operator, joins and other
\* failures interfere, as long as some partition is online throughout and no
\* command overtaken by the failure of its own candidate is applied.
FailoverServes ==
    \A d \in Db : [](MasterOnline(d) /\ []Calm(d) => [](Headless(d) => <>~Headless(d)))

\* "when masterPtId is offline, elect a new masterPtId" (data.go, the comment on
\* UpdateReplication): a group of which a majority is online does not keep a
\* master on a failed node.  It may: only the handler of a failed node elects,
\* and it elects nobody when no partition is online yet.
HealthServed ==
    \A d \in Db : (Headless(d) /\ rgs[d][1].status = "Health")
                    ~> (~Headless(d) \/ rgs[d][1].status # "Health")
=============================================================================
