----------------------------- MODULE DBPTProofs -----------------------------
(***************************************************************************)
(* Proofs about DBPT for any number of requests, migration requests and    *)
(* shards.  Inv is inductive as long as ts-meta keeps a migration of the   *)
(* partition and the drop of its database apart (Parallel = FALSE).        *)
(***************************************************************************)
EXTENDS DBPT, FiniteSetTheorems, TLAPS

Closing == {"wait", "close", "rbclose", "delete", "dropping"}
Movers == {i \in User : pc[i] \in {"moving", "stay"}}

\* Typing of the variables, the Boolean ones apart
TypeInv ==
    /\ exeCount \in Int /\ moveN \in Int
    /\ ch \in Closer \cup {None} /\ DOMAIN done = Closer
    /\ pending \subseteq Shard /\ shards \subseteq Shard /\ opened \subseteq Shard
    /\ orphan \subseteq Shard /\ closed \subseteq Shard
    /\ registered \subseteq Shard /\ compEn \subseteq Shard /\ late \subseteq Shard
    /\ wantLock \subseteq Closer \cup {Assigner}
    /\ pc \in [Actor -> UserPC \cup MigPC \cup DropPC]
    /\ arg \in [User -> Shard \cup {None}]

BoolInv ==
    /\ reg \in BOOLEAN /\ offloading \in BOOLEAN /\ preload \in BOOLEAN
    /\ unload \in BOOLEAN /\ panicked \in BOOLEAN
    /\ bgr \in BOOLEAN /\ doingOff \in BOOLEAN /\ dropRLock \in BOOLEAN
    /\ migrating \in BOOLEAN /\ done \in [Closer -> BOOLEAN]

\* Each kind of actor stays at its own program counters, and a user that does
\* something has a shard to do it with.
PcInv ==
    /\ \A i \in User : pc[i] \in UserPC /\ (pc[i] # "idle" => arg[i] \in Shard)
    /\ \A m \in Mig : pc[m] \in MigPC
    /\ pc[Dropper] \in DropPC

\* exeCount counts the goroutines that hold a reference
CountInv == exeCount = Cardinality(Holders)

\* doingShardMoveN counts the shard moves in progress
MoveInv == moveN = Cardinality(Movers)

\* One migration request at a time (migratingDbPT), and not during a drop
MigInv ==
    /\ \A m \in Mig : pc[m] # "idle" => migrating /\ pc[Dropper] = "idle"
    /\ \A m, k \in Mig : pc[m] # "idle" /\ pc[k] # "idle" => m = k

\* Whoever closes the partition has marked it; a registered channel belongs to
\* a waiter, who has been signalled or will be by the last reference.
CloseInv ==
    /\ \A a \in Closer : pc[a] \in Closing => reg /\ offloading
    /\ \A a \in Closer : pc[a] \in Closing \ {"wait"} => exeCount = 0
    /\ \A a \in Closer : pc[a] = "wait" =>
          IF done[a] THEN exeCount = 0 /\ ch = None ELSE ch = a /\ exeCount > 0
    /\ reg /\ offloading => \E a \in Closer : pc[a] \in Closing
    /\ ch # None => pc[ch] = "wait"

\* Loading, preloading and unloading of the partition
LoadInv ==
    /\ \A m \in Mig : pc[m] \in {"preload", "load", "add", "addPre"} => ~reg
    /\ \A m \in Mig : pc[m] \in {"assign", "addNop"} => reg /\ preload /\ ~offloading
    /\ ~reg \/ preload => exeCount = 0

\* The inductive invariant
Inv == /\ TypeInv /\ PcInv /\ CountInv /\ MoveInv /\ MigInv /\ CloseInv /\ LoadInv
       /\ NoPanic

-----------------------------------------------------------------------------
(* How the two counted sets change when one actor moves on                  *)

\* The program counters at which a reference is held, listed
LEMMA HoldPCs ==
    HoldPC = {"create", "write", "move", "moving", "stay", "del", "deleting", "raft",
              "leave", "preoff", "disable", "quiesce", "unref", "rbEnable", "rbShards",
              "rbUnref"}
BY DEF HoldPC, UserPC, MigHoldPC

\* Holders and Movers are finite, and empty exactly if their cardinality is 0
LEMMA CountedFinite ==
    /\ IsFiniteSet(Holders) /\ IsFiniteSet(Movers)
    /\ Cardinality(Holders) \in Nat /\ Cardinality(Movers) \in Nat
    /\ Cardinality(Holders) = 0 <=> Holders = {}
    /\ Cardinality(Movers) = 0 <=> Movers = {}
<1>1. IsFiniteSet(User \cup Mig) BY FiniteActors, FS_Union
<1>2. Holders \subseteq User \cup Mig BY DEF Holders
<1>3. Movers \subseteq User BY DEF Movers
<1>4. IsFiniteSet(Holders) /\ IsFiniteSet(Movers)
  BY <1>1, <1>2, <1>3, FiniteActors, FS_Subset
<1> QED BY <1>4, FS_CardinalityType, FS_EmptySet

\* A step of actor a to l keeps the count right if exeCount follows a
LEMMA CountGoto ==
    ASSUME TypeInv, CountInv, NEW a \in Actor, NEW l, Goto(a, l)
    PROVE  /\ (a = Dropper \/ (l \in HoldPC <=> pc[a] \in HoldPC)) => Holders' = Holders
           /\ a # Dropper /\ l \in HoldPC /\ pc[a] \notin HoldPC =>
                Cardinality(Holders') = exeCount + 1
           /\ a # Dropper /\ l \notin HoldPC /\ pc[a] \in HoldPC =>
                exeCount > 0 /\ Cardinality(Holders') = exeCount - 1
<1> USE DEF Goto, TypeInv, CountInv
<1>0. (User \cup Mig) \subseteq Actor /\ Dropper \notin User \cup Mig
  BY DistinctActors DEF Actor
<1>1. ASSUME a = Dropper \/ (l \in HoldPC <=> pc[a] \in HoldPC) PROVE Holders' = Holders
  BY <1>0, <1>1 DEF Holders
<1>2. ASSUME a # Dropper, l \in HoldPC, pc[a] \notin HoldPC
      PROVE  Cardinality(Holders') = exeCount + 1
  <2>1. a \notin Holders /\ Holders' = Holders \cup {a} BY <1>0, <1>2 DEF Holders, Actor
  <2> QED BY <2>1, CountedFinite, FS_AddElement
<1>3. ASSUME a # Dropper, l \notin HoldPC, pc[a] \in HoldPC
      PROVE  exeCount > 0 /\ Cardinality(Holders') = exeCount - 1
  <2>1. a \in Holders /\ Holders' = Holders \ {a} BY <1>0, <1>3 DEF Holders, Actor
  <2>2. Cardinality(Holders) # 0 BY <2>1, CountedFinite
  <2>3. Cardinality(Holders \ {a}) = Cardinality(Holders) - 1
    BY <2>1, CountedFinite, FS_RemoveElement
  <2> QED BY <2>1, <2>2, <2>3, CountedFinite
<1> QED BY <1>1, <1>2, <1>3

\* The same for the shard moves
LEMMA MoveGoto ==
    ASSUME TypeInv, MoveInv, NEW a \in Actor, NEW l, Goto(a, l)
    PROVE  /\ (a \notin User \/ (l \in {"moving", "stay"} <=> pc[a] \in {"moving", "stay"})) =>
                Movers' = Movers
           /\ a \in User /\ l \in {"moving", "stay"} /\ pc[a] \notin {"moving", "stay"} =>
                Cardinality(Movers') = moveN + 1
           /\ a \in User /\ l \notin {"moving", "stay"} /\ pc[a] \in {"moving", "stay"} =>
                moveN > 0 /\ Cardinality(Movers') = moveN - 1
<1> USE DEF Goto, TypeInv, MoveInv
<1>0. User \subseteq Actor BY DEF Actor
<1>1. ASSUME a \notin User \/ (l \in {"moving", "stay"} <=> pc[a] \in {"moving", "stay"})
      PROVE  Movers' = Movers
  BY <1>0, <1>1 DEF Movers
<1>2. ASSUME a \in User, l \in {"moving", "stay"}, pc[a] \notin {"moving", "stay"}
      PROVE  Cardinality(Movers') = moveN + 1
  <2>1. a \notin Movers /\ Movers' = Movers \cup {a} BY <1>0, <1>2 DEF Movers
  <2> QED BY <2>1, CountedFinite, FS_AddElement
<1>3. ASSUME a \in User, l \notin {"moving", "stay"}, pc[a] \in {"moving", "stay"}
      PROVE  moveN > 0 /\ Cardinality(Movers') = moveN - 1
  <2>1. a \in Movers /\ Movers' = Movers \ {a} BY <1>0, <1>3 DEF Movers
  <2>2. Cardinality(Movers) # 0 BY <2>1, CountedFinite
  <2>3. Cardinality(Movers \ {a}) = Cardinality(Movers) - 1
    BY <2>1, CountedFinite, FS_RemoveElement
  <2> QED BY <2>1, <2>2, <2>3, CountedFinite
<1> QED BY <1>1, <1>2, <1>3

-----------------------------------------------------------------------------
(* Types: every step keeps TypeInv and PcInv                                *)

\* The steps of requests and services
LEMMA UserTypes ==
    ASSUME Inv, NEW i \in User, UserRef(i) \/ UserStep(i)
    PROVE  TypeInv' /\ PcInv'
<1> USE DistinctActors DEF Inv, TypeInv, PcInv, Actor, Closer, Goto, ptVars, bgVars, shardMap, lockVars,
        UserPC, MigPC, DropPC, MigHoldPC, ClosePC
<1>1. CASE UserRef(i) BY <1>1 DEF UserRef, ref
<1>2. CASE CreateShard(i) BY <1>2 DEF CreateShard
<1>3. CASE getShard(i) BY <1>3 DEF getShard, OpenAndEnable
<1>4. CASE MoveBegin(i) BY <1>4 DEF MoveBegin, OpenAndEnable
<1>5. CASE MoveEnd(i) BY <1>5 DEF MoveEnd
<1>6. CASE DeleteBegin(i) BY <1>6 DEF DeleteBegin
<1>7. CASE DeleteEnd(i) BY <1>7 DEF DeleteEnd
<1>8. CASE UserUnref(i)
  <2>1. pc' = [pc EXCEPT ![i] = "idle"] /\ arg' = [arg EXCEPT ![i] = None]
    BY <1>8 DEF UserUnref
  <2>2. exeCount' \in Int /\ ch' \in Closer \cup {None} /\ DOMAIN done' = Closer
    BY <1>8 DEF UserUnref, unref
  <2>3. PcInv' BY <2>1
  <2> QED BY <1>8, <2>1, <2>2, <2>3 DEF UserUnref
<1> QED BY <1>1, <1>2, <1>3, <1>4, <1>5, <1>6, <1>7, <1>8 DEF UserStep


\* The steps of migration requests
LEMMA MigTypes ==
    ASSUME Inv, NEW m \in Mig, RefBegin(m) \/ LoadBegin(m) \/ Offload(m) \/ MigStep(m)
    PROVE  TypeInv' /\ PcInv'
<1> USE DistinctActors DEF Inv, TypeInv, PcInv, Actor, Closer, Goto, ptVars, bgVars, shardMap, lockVars,
        UserPC, MigPC, DropPC, MigHoldPC, ClosePC, MigBegin, MigEnd
<1>1. CASE RefBegin(m) BY <1>1 DEF RefBegin, ref
<1>2. CASE LoadBegin(m) BY <1>2 DEF LoadBegin
<1>3. CASE Offload(m) BY <1>3 DEF Offload, markOffload
<1>4. CASE PreOffload(m) BY <1>4 DEF PreOffload
<1>5. CASE disableDBPtBgr(m) BY <1>5 DEF disableDBPtBgr
<1>6. CASE Quiesce(m) BY <1>6 DEF Quiesce, disableShardsBgr
<1>7. CASE PreOffloadEnd(m)
  <2>1. exeCount' \in Int /\ ch' \in Closer \cup {None} /\ DOMAIN done' = Closer
    BY <1>7 DEF PreOffloadEnd, unref
  <2> QED BY <1>7, <2>1 DEF PreOffloadEnd
<1>8. CASE enableDBPtBgr(m) BY <1>8 DEF enableDBPtBgr
<1>9. CASE RollbackShards(m) BY <1>9 DEF RollbackShards
<1>10. CASE RollbackUnref(m)
  <2>1. exeCount' \in Int /\ ch' \in Closer \cup {None} /\ DOMAIN done' = Closer
    BY <1>10 DEF RollbackUnref, unref
  <2> QED BY <1>10, <2>1 DEF RollbackUnref
<1>11. CASE RollbackEnd(m) BY <1>11 DEF RollbackEnd
<1>12. CASE LoadOk(m) BY <1>12 DEF LoadOk
<1>13. CASE LoadErr(m) BY <1>13 DEF LoadErr
<1>14. CASE addDBPTInfo(m) BY <1>14 DEF addDBPTInfo
<1>15. CASE AssignPreloaded(m) BY <1>15 DEF AssignPreloaded
<1>16. CASE OffloadDone(m) BY <1>16 DEF OffloadDone
<1>17. CASE OffloadGiveUp(m) BY <1>17 DEF OffloadGiveUp, unMarkOffload
<1>18. CASE closeDBPt(m) BY <1>18 DEF closeDBPt, disableShardsBgr
<1>19. CASE closeDBPtErr(m) BY <1>19 DEF closeDBPtErr, disableShardsBgr, unMarkOffload
<1>20. CASE dropDBPTInfo(m) BY <1>20 DEF dropDBPTInfo
<1> QED BY <1>1, <1>2, <1>3, <1>4, <1>5, <1>6, <1>7, <1>8, <1>9, <1>10, <1>11, <1>12, <1>13,
        <1>14, <1>15, <1>16, <1>17, <1>18, <1>19, <1>20 DEF MigStep

\* The steps of DeleteDatabase
LEMMA DropTypes ==
    ASSUME Inv, DropNext
    PROVE  TypeInv' /\ PcInv'
<1> USE DistinctActors DEF Inv, TypeInv, PcInv, Actor, Closer, Goto, ptVars, bgVars, shardMap, lockVars,
        UserPC, MigPC, DropPC, MigHoldPC, ClosePC
<1>1. CASE DropUnloaded BY <1>1 DEF DropUnloaded
<1>2. CASE DropBegin BY <1>2 DEF DropBegin, markOffload
<1>3. CASE DropDone BY <1>3 DEF DropDone
<1>4. CASE DropTimeout BY <1>4 DEF DropTimeout, unMarkOffload
<1>5. CASE deleteShardsAndIndexes BY <1>5 DEF deleteShardsAndIndexes, unMarkOffload
<1>6. CASE DropEnd BY <1>6 DEF DropEnd
<1> QED BY <1>1, <1>2, <1>3, <1>4, <1>5, <1>6 DEF DropNext


-----------------------------------------------------------------------------
(* Steps that do not open or close the partition                            *)

CoreInv == CountInv /\ MigInv /\ CloseInv /\ LoadInv /\ NoPanic

\* At most one goroutine at a time migrates or drops the partition
LEMMA OneCloser ==
    ASSUME Inv, NEW a \in Closer, NEW b \in Closer, pc[a] # "idle", pc[b] # "idle"
    PROVE  a = b
BY DEF Inv, MigInv, Closer

\* A step between two program counters at which the reference is held
LEMMA InnerStep ==
    ASSUME Inv, NEW a \in User \cup Mig, NEW l, Goto(a, l), pc[a] \in HoldPC, l \in HoldPC,
           UNCHANGED <<ptVars, migrating, panicked>>
    PROVE  CoreInv'
<1>0. a \in Actor /\ a # Dropper BY DistinctActors DEF Actor
<1>1. CountInv' BY <1>0, CountGoto DEF Inv, CountInv, ptVars
<1>2. \A b \in Actor : b # a => pc'[b] = pc[b] BY DEF Goto, Inv, TypeInv
<1>3. pc'[a] = l BY <1>0 DEF Goto, Inv, TypeInv
<1>4. \A b \in Closer : b \in Actor BY DEF Closer, Actor
<1>5. \A b \in Closer \ {a} : pc'[b] = pc[b] BY <1>2, <1>4
<1> USE HoldPCs DEF Inv, ptVars
<1>6. MigInv'
  <2>1. pc'[Dropper] = pc[Dropper] BY <1>0, <1>5 DEF Closer
  <2>2. \A m \in Mig : pc'[m] # "idle" => pc[m] # "idle" BY <1>3, <1>5 DEF Closer
  <2> QED BY <2>1, <2>2 DEF MigInv
<1>7. \A b \in Closer : pc'[b] \in Closing \/ pc[b] \in Closing => pc'[b] = pc[b]
  BY <1>3, <1>5 DEF Closing
<1>8. CloseInv'
  <2>1. ch # None => pc'[ch] = "wait"
    BY <1>7 DEF CloseInv, TypeInv, Closing
  <2> QED BY <1>7, <2>1 DEF CloseInv, Closing
<1>9. LoadInv'
  <2>1. \A m \in Mig : pc'[m] \in {"preload", "load", "add", "addPre", "assign", "addNop"} =>
          pc'[m] = pc[m]
    BY <1>3, <1>5 DEF Closer
  <2> QED BY <1>7, <2>1 DEF LoadInv, Closing
<1> QED BY <1>1, <1>6, <1>8, <1>9 DEF CoreInv, NoPanic


\* A reference is taken: nobody is closing the partition
LEMMA RefStep ==
    ASSUME Inv, NEW a \in User \cup Mig, NEW l, Goto(a, l), pc[a] = "idle", l \in HoldPC,
           reg, CanRef, ref, UNCHANGED <<reg, offloading, preload>>,
           \/ a \in User /\ migrating' = migrating
           \/ a \in Mig /\ ~migrating /\ migrating' /\ pc[Dropper] = "idle"
    PROVE  CoreInv'
<1>0. a \in Actor /\ a # Dropper BY DistinctActors DEF Actor
<1> USE HoldPCs DEF Inv
<1>1. CountInv' BY <1>0, CountGoto DEF CountInv, ref
<1>2. \A b \in Closer \ {a} : pc'[b] = pc[b] BY DEF Goto, TypeInv, Closer, Actor
<1>3. pc'[a] = l BY <1>0 DEF Goto, TypeInv
<1>4. pc'[Dropper] = pc[Dropper] BY <1>0, <1>2 DEF Closer
<1>5. MigInv'
  <2>1. CASE a \in User
    <3>1. a \notin Mig BY <2>1, DistinctActors
    <3>2. \A m \in Mig : pc'[m] = pc[m] BY <1>2, <3>1 DEF Closer
    <3> QED BY <2>1, <3>1, <3>2, <1>4 DEF MigInv
  <2>2. CASE a \in Mig /\ a \notin User
    <3>1. \A m \in Mig : pc[m] = "idle" BY <2>2 DEF MigInv
    <3>2. \A m \in Mig : pc'[m] # "idle" => m = a BY <1>2, <3>1 DEF Closer
    <3> QED BY <2>2, <3>2, <1>4 DEF MigInv
  <2> QED BY <2>1, <2>2
<1>6. \A b \in Closer : pc[b] \notin Closing BY DEF CloseInv, CanRef
<1>7. \A b \in Closer : pc'[b] \notin Closing BY <1>2, <1>3, <1>6 DEF Closing
<1>8. ch = None BY <1>6 DEF CloseInv, TypeInv, Closing
<1>9. CloseInv' BY <1>7, <1>8 DEF CloseInv, CanRef, ref, Closing
<1>10. LoadInv'
  <2>1. \A m \in Mig : pc'[m] \in {"preload", "load", "add", "addPre", "assign", "addNop"} =>
          pc'[m] = pc[m]
    BY <1>2, <1>3 DEF Closer
  <2>2. \A m \in Mig : pc'[m] \notin {"preload", "load", "add", "addPre", "assign", "addNop"}
    BY <2>1 DEF LoadInv, CanRef
  <2> QED BY <2>2, <1>7 DEF LoadInv, CanRef, Closing
<1> QED BY <1>1, <1>5, <1>9, <1>10 DEF CoreInv, NoPanic, ref

\* A reference is given back: a closer that waits is signalled by the last one
LEMMA UnrefStep ==
    ASSUME Inv, NEW a \in User \cup Mig, NEW l \in {"idle", "rbOff"}, Goto(a, l),
           pc[a] \in HoldPC, unref, UNCHANGED <<reg, offloading, preload>>,
           \/ a \in User /\ migrating' = migrating
           \/ a \in Mig /\ migrating' = migrating /\ l = "rbOff"
           \/ a \in Mig /\ ~migrating' /\ l = "idle"
    PROVE  CoreInv'
<1>0. a \in Actor /\ a # Dropper BY DistinctActors DEF Actor
<1> USE HoldPCs DEF Inv
<1>1. exeCount > 0 /\ CountInv'
  BY <1>0, CountGoto DEF CountInv, unref
<1>2. \A b \in Closer \ {a} : pc'[b] = pc[b] BY DEF Goto, TypeInv, Closer, Actor
<1>3. pc'[a] = l BY <1>0 DEF Goto, TypeInv
<1>4. pc'[Dropper] = pc[Dropper] BY <1>0, <1>2 DEF Closer
<1>5. MigInv'
  <2>1. CASE a \in User
    <3>1. a \notin Mig BY <2>1, DistinctActors
    <3>2. \A m \in Mig : pc'[m] = pc[m] BY <1>2, <3>1 DEF Closer
    <3> QED BY <2>1, <3>1, <3>2, <1>4 DEF MigInv
  <2>2. CASE a \in Mig /\ a \notin User
    <3>1. \A m \in Mig : m # a => pc[m] = "idle" BY <2>2 DEF MigInv
    <3>2. \A m \in Mig : m # a => pc'[m] = "idle" BY <1>2, <3>1 DEF Closer
    <3> QED BY <2>2, <3>2, <1>3, <1>4 DEF MigInv
  <2> QED BY <2>1, <2>2
<1>6. reg /\ ~preload BY <1>1 DEF LoadInv, TypeInv
<1>7. \A b \in Closer : pc'[b] \in Closing \/ pc[b] \in Closing => pc'[b] = pc[b] /\ pc[b] = "wait"
  BY <1>1, <1>2, <1>3 DEF CloseInv, Closing
<1>8. offloading => ch \in Closer /\ pc[ch] = "wait" /\ pc'[ch] = "wait"
  <2> SUFFICES ASSUME offloading PROVE ch \in Closer /\ pc[ch] = "wait" /\ pc'[ch] = "wait"
    OBVIOUS
  <2>1. PICK b \in Closer : pc[b] \in Closing BY <1>6 DEF CloseInv
  <2>2. pc[b] = "wait" /\ pc'[b] = "wait" BY <2>1, <1>7
  <2> QED BY <2>2, <1>1 DEF CloseInv
<1>9. \A b \in Closer : pc[b] = "wait" => b = ch /\ ~done[b] BY <1>1 DEF CloseInv
<1>10. CloseInv' /\ NoPanic'
  <2>1. CASE ~offloading
    <3>1. \A b \in Closer : pc'[b] \notin Closing BY <2>1, <1>7 DEF CloseInv
    <3>2. ch = None BY <2>1 DEF CloseInv, TypeInv, Closing
    <3> QED BY <2>1, <3>1, <3>2 DEF CloseInv, unref, NoPanic, Closing
  <2>2. CASE offloading /\ exeCount - 1 # 0
    BY <2>2, <1>1, <1>6, <1>7, <1>8, <1>9 DEF CloseInv, unref, NoPanic, TypeInv, Closing
  <2>3. CASE offloading /\ exeCount - 1 = 0
    <3>1. ch # None BY <2>3, <1>8, DistinctActors DEF Closer, Actor
    <3>2. exeCount' = 0 /\ ch' = None /\ done' = [done EXCEPT ![ch] = TRUE] /\ panicked' = panicked
      BY <2>3, <3>1 DEF unref
    <3>3. \A b \in Closer : pc'[b] = "wait" => b = ch /\ done'[b]
      BY <3>2, <1>7, <1>8, <1>9 DEF TypeInv, Closing
    <3> QED BY <2>3, <3>2, <3>3, <1>6, <1>7, <1>8 DEF CloseInv, NoPanic, Closing
  <2> QED BY <2>1, <2>2, <2>3
<1>11. LoadInv'
  <2>1. \A m \in Mig : pc'[m] \in {"preload", "load", "add", "addPre", "assign", "addNop"} =>
          pc'[m] = pc[m]
    BY <1>2, <1>3 DEF Closer
  <2> QED BY <1>1, <1>6, <1>7, <2>1 DEF LoadInv, Closing
<1> QED BY <1>1, <1>5, <1>10, <1>11 DEF CoreInv


-----------------------------------------------------------------------------
(* Steps that load, unload or drop the partition                            *)

\* A step of a closer that holds no reference: the other closers are idle
LEMMA CloserFrame ==
    ASSUME Inv, NEW a \in Closer, NEW l, Goto(a, l), pc[a] \notin HoldPC, l \notin HoldPC,
           pc[a] # "idle" \/ (\A b \in Closer : pc[b] = "idle")
    PROVE  /\ Holders' = Holders /\ pc'[a] = l
           /\ \A b \in Closer : b # a => pc[b] = "idle" /\ pc'[b] = "idle"
<1>1. a \in Actor BY DEF Closer, Actor
<1>2. Holders' = Holders BY <1>1, CountGoto DEF Inv
<1>3. \A b \in Closer : b # a => pc[b] = "idle" BY OneCloser
<1>4. \A b \in Closer : b # a => pc'[b] = pc[b] BY DEF Goto, Inv, TypeInv, Closer, Actor
<1> QED BY <1>1, <1>2, <1>3, <1>4 DEF Goto, Inv, TypeInv

\* A closer starts only while all of them are idle
LEMMA BeginFrame ==
    ASSUME Inv, ~Parallel, NEW a \in Closer, pc[a] = "idle", NoConflict(a),
           a \in Mig => ~migrating
    PROVE  \A b \in Closer : pc[b] = "idle"
BY DistinctActors DEF Inv, MigInv, NoConflict, Closer

\* The loads of PreAssign and Assign, and the end of RollbackPreOffload
LEMMA LoadSteps ==
    ASSUME Inv, ~Parallel, NEW m \in Mig,
           \/ RollbackEnd(m) \/ LoadBegin(m) \/ LoadOk(m) \/ LoadErr(m)
           \/ addDBPTInfo(m) \/ AssignPreloaded(m)
    PROVE  CoreInv'
<1>0. m \in Closer /\ m # Dropper /\ Dropper \in Closer BY DistinctActors DEF Closer
<1> USE <1>0, HoldPCs DEF Inv, CoreInv, CountInv, MigInv, CloseInv, LoadInv, NoPanic, Closing,
        MigEnd, ptVars, bgVars, shardMap, lockVars
<1>1. CASE RollbackEnd(m)
  <2>1. /\ Holders' = Holders /\ pc'[m] = "idle"
        /\ \A b \in Closer : b # m => pc[b] = "idle" /\ pc'[b] = "idle"
    BY <1>1, CloserFrame DEF RollbackEnd
  <2> QED BY <1>1, <2>1 DEF RollbackEnd, Closer, TypeInv
<1>2. CASE LoadBegin(m)
  <2>0. \A b \in Closer : pc[b] = "idle" BY <1>2, BeginFrame DEF LoadBegin, MigBegin
  <2>1. PICK l \in {"preload", "load", "assign"} : Goto(m, l)
    BY <1>2 DEF LoadBegin
  <2>2. /\ Holders' = Holders /\ pc'[m] = l
        /\ \A b \in Closer : b # m => pc[b] = "idle" /\ pc'[b] = "idle"
    BY <2>0, <2>1, CloserFrame
  <2>3. IF l = "assign" THEN reg /\ preload ELSE ~reg
    BY <1>2, <2>0, <2>1, <2>2 DEF LoadBegin, Goto, TypeInv, Closer, Actor
  <2> QED BY <1>2, <2>0, <2>2, <2>3 DEF LoadBegin, MigBegin, Closer, TypeInv
<1>3. CASE LoadOk(m)
  <2>1. PICK l \in {"addPre", "add", "addNop"} :
          Goto(m, l) /\ (l = "addNop" <=> pc[m] = "assign")
    BY <1>3 DEF LoadOk
  <2>2. /\ Holders' = Holders /\ pc'[m] = l
        /\ \A b \in Closer : b # m => pc[b] = "idle" /\ pc'[b] = "idle"
    BY <1>3, <2>1, CloserFrame DEF LoadOk
  <2> QED BY <1>3, <2>1, <2>2 DEF LoadOk, Closer, TypeInv
<1>4. CASE LoadErr(m)
  <2>1. CASE pc[m] \in {"preload", "load"}
    <3>1. /\ Holders' = Holders /\ pc'[m] = "idle"
          /\ \A b \in Closer : b # m => pc[b] = "idle" /\ pc'[b] = "idle"
      BY <1>4, <2>1, CloserFrame DEF LoadErr
    <3> QED BY <1>4, <2>1, <3>1 DEF LoadErr, Closer, TypeInv
  <2>2. CASE pc[m] = "assign"
    <3>1. /\ Holders' = Holders /\ pc'[m] = "rbclose"
          /\ \A b \in Closer : b # m => pc[b] = "idle" /\ pc'[b] = "idle"
      BY <1>4, <2>2, CloserFrame DEF LoadErr
    <3> QED BY <1>4, <2>2, <3>1 DEF LoadErr, Closer, TypeInv
  <2> QED BY <1>4, <2>1, <2>2 DEF LoadErr
<1>5. CASE addDBPTInfo(m)
  <2>1. /\ Holders' = Holders /\ pc'[m] = "idle"
        /\ \A b \in Closer : b # m => pc[b] = "idle" /\ pc'[b] = "idle"
    BY <1>5, CloserFrame DEF addDBPTInfo
  <2> QED BY <1>5, <2>1 DEF addDBPTInfo, Closer, TypeInv
<1>6. CASE AssignPreloaded(m)
  <2>1. /\ Holders' = Holders /\ pc'[m] = "idle"
        /\ \A b \in Closer : b # m => pc[b] = "idle" /\ pc'[b] = "idle"
    BY <1>6, CloserFrame DEF AssignPreloaded
  <2> QED BY <1>6, <2>1 DEF AssignPreloaded, Closer, TypeInv
<1> QED BY <1>1, <1>2, <1>3, <1>4, <1>5, <1>6


\* Offload, from markOffload to dropDBPTInfo
LEMMA UnloadSteps ==
    ASSUME Inv, ~Parallel, NEW m \in Mig,
           \/ Offload(m) \/ OffloadDone(m) \/ OffloadGiveUp(m)
           \/ closeDBPt(m) \/ closeDBPtErr(m) \/ dropDBPTInfo(m)
    PROVE  CoreInv'
<1>0. m \in Closer /\ m # Dropper /\ Dropper \in Closer /\ m # None
  BY DistinctActors DEF Closer, Actor
<1> USE <1>0, HoldPCs DEF Inv, CoreInv, CountInv, MigInv, CloseInv, LoadInv, NoPanic, Closing,
        MigEnd, ptVars, bgVars, shardMap, lockVars
<1>1. CASE Offload(m)
  <2>0. \A b \in Closer : pc[b] = "idle" BY <1>1, BeginFrame DEF Offload, MigBegin
  <2>1. ~offloading /\ ch = None BY <1>1, <2>0 DEF Offload, TypeInv
  <2>2. PICK l \in {"close", "wait"} : Goto(m, l) /\ (l = "close" <=> exeCount = 0)
    BY <1>1, <2>1 DEF Offload, markOffload
  <2>3. /\ Holders' = Holders /\ pc'[m] = l
        /\ \A b \in Closer : b # m => pc[b] = "idle" /\ pc'[b] = "idle"
    BY <2>0, <2>2, CloserFrame
  <2>4. exeCount \in Nat BY CountedFinite
  <2>5. ~done'[m] /\ (l = "wait" => ch' = m) /\ (l = "close" => ch' = None)
    <3>1. done' = [done EXCEPT ![m] = FALSE] BY <1>1 DEF Offload, markOffload
    <3>2. IF exeCount = 0 THEN ch' = ch ELSE ch' = m BY <1>1, <2>1 DEF Offload, markOffload
    <3> QED BY <3>1, <3>2, <2>1, <2>2 DEF TypeInv
  <2> QED BY <1>1, <2>0, <2>1, <2>2, <2>3, <2>4, <2>5 DEF Offload, MigBegin, markOffload, Closer
<1>2. CASE OffloadDone(m)
  <2>1. /\ Holders' = Holders /\ pc'[m] = "close"
        /\ \A b \in Closer : b # m => pc[b] = "idle" /\ pc'[b] = "idle"
    BY <1>2, CloserFrame DEF OffloadDone
  <2> QED BY <1>2, <2>1 DEF OffloadDone, Closer, TypeInv
<1>3. CASE OffloadGiveUp(m)
  <2>1. /\ Holders' = Holders /\ pc'[m] = "idle"
        /\ \A b \in Closer : b # m => pc[b] = "idle" /\ pc'[b] = "idle"
    BY <1>3, CloserFrame DEF OffloadGiveUp
  <2>2. ch' = None BY <1>3 DEF OffloadGiveUp, unMarkOffload
  <2> QED BY <1>3, <2>1, <2>2 DEF OffloadGiveUp, unMarkOffload, Closer, TypeInv
<1>4. CASE closeDBPt(m)
  <2>1. /\ Holders' = Holders /\ pc'[m] = "dropping"
        /\ \A b \in Closer : b # m => pc[b] = "idle" /\ pc'[b] = "idle"
    BY <1>4, CloserFrame DEF closeDBPt
  <2> QED BY <1>4, <2>1 DEF closeDBPt, Closer, TypeInv
<1>5. CASE closeDBPtErr(m)
  <2>1. /\ Holders' = Holders /\ pc'[m] = "idle"
        /\ \A b \in Closer : b # m => pc[b] = "idle" /\ pc'[b] = "idle"
    BY <1>5, CloserFrame DEF closeDBPtErr
  <2>2. ch' = None BY <1>5 DEF closeDBPtErr, unMarkOffload
  <2> QED BY <1>5, <2>1, <2>2 DEF closeDBPtErr, unMarkOffload, Closer, TypeInv
<1>6. CASE dropDBPTInfo(m)
  <2>1. /\ Holders' = Holders /\ pc'[m] = "idle"
        /\ \A b \in Closer : b # m => pc[b] = "idle" /\ pc'[b] = "idle"
    BY <1>6, CloserFrame DEF dropDBPTInfo
  <2> QED BY <1>6, <2>1 DEF dropDBPTInfo, Closer, TypeInv
<1> QED BY <1>1, <1>2, <1>3, <1>4, <1>5, <1>6

\* DeleteDatabase
LEMMA DropSteps ==
    ASSUME Inv, ~Parallel, DropNext
    PROVE  CoreInv'
<1>0. Dropper \in Closer /\ Dropper # None /\ Dropper \notin Mig
  BY DistinctActors DEF Closer, Actor
<1> USE <1>0, HoldPCs DEF Inv, CoreInv, CountInv, MigInv, CloseInv, LoadInv, NoPanic, Closing,
        ptVars, bgVars, shardMap, lockVars
<1>1. CASE DropUnloaded
  <2>1. pc' = pc /\ Holders' = Holders BY <1>1 DEF DropUnloaded, Holders
  <2> QED BY <1>1, <2>1 DEF DropUnloaded
<1>2. CASE DropBegin
  <2>0. \A b \in Closer : pc[b] = "idle" BY <1>2, BeginFrame DEF DropBegin
  <2>1. ~offloading /\ ch = None BY <1>2, <2>0 DEF DropBegin, TypeInv
  <2>2. PICK l \in {"delete", "wait"} : Goto(Dropper, l) /\ (l = "delete" <=> exeCount = 0)
    BY <1>2, <2>1 DEF DropBegin, markOffload
  <2>3. /\ Holders' = Holders /\ pc'[Dropper] = l
        /\ \A b \in Closer : b # Dropper => pc[b] = "idle" /\ pc'[b] = "idle"
    BY <2>0, <2>2, CloserFrame
  <2>4. exeCount \in Nat BY CountedFinite
  <2>5. ~done'[Dropper] /\ (l = "wait" => ch' = Dropper) /\ (l = "delete" => ch' = None)
    <3>1. done' = [done EXCEPT ![Dropper] = FALSE] BY <1>2 DEF DropBegin, markOffload
    <3>2. IF exeCount = 0 THEN ch' = ch ELSE ch' = Dropper
      BY <1>2, <2>1 DEF DropBegin, markOffload
    <3> QED BY <3>1, <3>2, <2>1, <2>2 DEF TypeInv
  <2> QED BY <1>2, <2>0, <2>1, <2>2, <2>3, <2>4, <2>5 DEF DropBegin, markOffload, Closer
<1>3. CASE DropDone
  <2>1. /\ Holders' = Holders /\ pc'[Dropper] = "delete"
        /\ \A b \in Closer : b # Dropper => pc[b] = "idle" /\ pc'[b] = "idle"
    BY <1>3, CloserFrame DEF DropDone
  <2> QED BY <1>3, <2>1 DEF DropDone, Closer, TypeInv
<1>4. CASE DropTimeout
  <2>1. /\ Holders' = Holders /\ pc'[Dropper] = "idle"
        /\ \A b \in Closer : b # Dropper => pc[b] = "idle" /\ pc'[b] = "idle"
    BY <1>4, CloserFrame DEF DropTimeout
  <2>2. ch' = None BY <1>4 DEF DropTimeout, unMarkOffload
  <2> QED BY <1>4, <2>1, <2>2 DEF DropTimeout, unMarkOffload, Closer, TypeInv
<1>5. CASE deleteShardsAndIndexes
  <2>1. PICK l \in {"dropping", "idle"} : Goto(Dropper, l) BY <1>5 DEF deleteShardsAndIndexes
  <2>2. /\ Holders' = Holders /\ pc'[Dropper] = l
        /\ \A b \in Closer : b # Dropper => pc[b] = "idle" /\ pc'[b] = "idle"
    BY <1>5, <2>1, CloserFrame DEF deleteShardsAndIndexes
  <2>3. ch = None BY <1>5, <2>2 DEF deleteShardsAndIndexes, TypeInv
  <2>4. CASE l = "dropping"
    <3>1. UNCHANGED <<offloading, ch, done>>
      BY <1>5, <2>2, <2>4 DEF deleteShardsAndIndexes, Goto, TypeInv, Closer, Actor
    <3> QED BY <1>5, <2>2, <2>3, <2>4, <3>1 DEF deleteShardsAndIndexes, Closer
  <2>5. CASE l = "idle"
    <3>1. ~offloading' /\ ch' = None
      BY <1>5, <2>2, <2>3, <2>5
         DEF deleteShardsAndIndexes, unMarkOffload, Goto, TypeInv, Closer, Actor
    <3> QED BY <1>5, <2>2, <2>3, <2>5, <3>1 DEF deleteShardsAndIndexes, Closer
  <2> QED BY <2>1, <2>4, <2>5
<1>6. CASE DropEnd
  <2>1. /\ Holders' = Holders /\ pc'[Dropper] = "idle"
        /\ \A b \in Closer : b # Dropper => pc[b] = "idle" /\ pc'[b] = "idle"
    BY <1>6, CloserFrame DEF DropEnd
  <2> QED BY <1>6, <2>1 DEF DropEnd, Closer, TypeInv
<1> QED BY <1>1, <1>2, <1>3, <1>4, <1>5, <1>6 DEF DropNext


-----------------------------------------------------------------------------
(* The inductive invariant                                                  *)

\* Every step keeps the count of the shard moves
LEMMA MoveSteps ==
    ASSUME Inv, Next
    PROVE  MoveInv'
<1> USE DistinctActors DEF Inv, Actor, ptVars, bgVars, shardMap, lockVars
<1>1. ASSUME NEW i \in User, UserRef(i) \/ UserStep(i) PROVE MoveInv'
  <2>1. CASE MoveBegin(i)
    <3>1. CASE MoveRefused(i)
      <4>1. Goto(i, "leave") /\ moveN' = moveN BY <2>1, <3>1 DEF MoveBegin
      <4>2. Movers' = Movers BY <4>1, <2>1, MoveGoto DEF MoveBegin
      <4> QED BY <4>1, <4>2 DEF MoveInv
    <3>2. CASE ~MoveRefused(i)
      <4>1. PICK l \in {"moving", "stay"} : Goto(i, l) BY <2>1, <3>2 DEF MoveBegin
      <4>2. Cardinality(Movers') = moveN + 1 BY <2>1, <4>1, MoveGoto DEF MoveBegin
      <4> QED BY <2>1, <3>2, <4>2 DEF MoveBegin, MoveInv
    <3> QED BY <3>1, <3>2
  <2>2. CASE MoveEnd(i)
    <3>1. Cardinality(Movers') = moveN - 1 BY <2>2, MoveGoto DEF MoveEnd
    <3> QED BY <2>2, <3>1 DEF MoveEnd, MoveInv
  <2>3. CASE \/ UserRef(i) \/ CreateShard(i) \/ getShard(i) \/ DeleteBegin(i) \/ DeleteEnd(i)
             \/ UserUnref(i)
    <3>1. /\ moveN' = moveN /\ pc[i] \notin {"moving", "stay"}
          /\ \E l \in {"idle", "create", "write", "move", "del", "deleting", "raft", "leave"} :
                Goto(i, l)
      BY <2>3 DEF UserRef, CreateShard, getShard, DeleteBegin, DeleteEnd, UserUnref
    <3>2. Movers' = Movers BY <3>1, MoveGoto
    <3> QED BY <3>1, <3>2 DEF MoveInv
  <2> QED BY <1>1, <2>1, <2>2, <2>3 DEF UserStep
<1>2. ASSUME NEW m \in Mig, RefBegin(m) \/ LoadBegin(m) \/ Offload(m) \/ MigStep(m)
      PROVE  MoveInv'
  <2>1. \E l : Goto(m, l)
    BY <1>2 DEF MigStep, RefBegin, LoadBegin, Offload, markOffload, MigEnd, PreOffload,
        disableDBPtBgr, Quiesce, PreOffloadEnd, enableDBPtBgr, RollbackShards, RollbackUnref,
        RollbackEnd, LoadOk, LoadErr, addDBPTInfo, AssignPreloaded, OffloadDone,
        OffloadGiveUp, closeDBPt, closeDBPtErr, dropDBPTInfo
  <2>2. Movers' = Movers BY <2>1, MoveGoto
  <2>3. CASE addDBPTInfo(m)
    <3>1. exeCount = 0 BY <2>3 DEF addDBPTInfo, LoadInv
    <3>2. Holders = {} BY <3>1, CountedFinite DEF CountInv
    <3>3. Movers = {} BY <3>2, HoldPCs DEF Movers, Holders
    <3> QED BY <2>2, <2>3, <3>3, CountedFinite DEF addDBPTInfo, MoveInv
  <2>4. CASE ~addDBPTInfo(m)
    <3>1. moveN' = moveN
      BY <1>2, <2>4 DEF MigStep, RefBegin, LoadBegin, Offload, MigEnd, PreOffload,
        disableDBPtBgr, Quiesce, PreOffloadEnd, enableDBPtBgr, RollbackShards, RollbackUnref,
        RollbackEnd, LoadOk, LoadErr, AssignPreloaded, OffloadDone,
        OffloadGiveUp, closeDBPt, closeDBPtErr, dropDBPTInfo
    <3> QED BY <2>2, <3>1 DEF MoveInv
  <2> QED BY <2>3, <2>4
<1>3. CASE DropNext
  <2>1. moveN' = moveN /\ (pc' = pc \/ \E l : Goto(Dropper, l))
    BY <1>3 DEF DropNext, DropUnloaded, DropBegin, markOffload, DropDone, DropTimeout,
        deleteShardsAndIndexes, DropEnd
  <2>2. CASE pc' = pc BY <2>1, <2>2 DEF MoveInv, Movers
  <2>3. CASE \E l : Goto(Dropper, l)
    <3>1. Movers' = Movers BY <2>3, MoveGoto
    <3> QED BY <2>1, <3>1 DEF MoveInv
  <2> QED BY <2>1, <2>2, <2>3
<1>4. CASE OtherLock \/ OtherAdd
  BY <1>4 DEF OtherLock, OtherAdd, MoveInv, Movers
<1> QED BY <1>1, <1>2, <1>3, <1>4 DEF Next, UserNext, MigNext

\* Inv is inductive
LEMMA Inductive ==
    ASSUME ~Parallel, Inv, [Next]_vars
    PROVE  Inv'
<1>1. ASSUME NEW i \in User, UserRef(i) \/ UserStep(i) PROVE CoreInv'
  <2> USE HoldPCs DEF ptVars, bgVars, shardMap, lockVars
  <2>0. pc[i] \in UserPC BY DEF Inv, PcInv
  <2>1. CASE UserRef(i) BY <2>1, RefStep DEF UserRef
  <2>2. CASE CreateShard(i) BY <2>2, InnerStep DEF CreateShard
  <2>3. CASE getShard(i) BY <2>3, InnerStep DEF getShard
  <2>4. CASE MoveBegin(i)
    <3>1. PICK l \in {"leave", "stay", "moving"} : Goto(i, l) BY <2>4 DEF MoveBegin
    <3> QED BY <2>4, <3>1, InnerStep DEF MoveBegin
  <2>5. CASE MoveEnd(i) BY <2>5, InnerStep DEF MoveEnd
  <2>6. CASE DeleteBegin(i)
    <3>1. PICK l \in {"leave", "deleting"} : Goto(i, l) BY <2>6 DEF DeleteBegin
    <3> QED BY <2>6, <3>1, InnerStep DEF DeleteBegin
  <2>7. CASE DeleteEnd(i) BY <2>7, InnerStep DEF DeleteEnd
  <2>8. CASE UserUnref(i)
    <3>1. i \in Actor /\ i # Dropper /\ Goto(i, "idle")
      BY <2>8, DistinctActors DEF Actor, UserUnref
    <3>2. exeCount > 0 BY <2>8, <3>1, CountGoto DEF UserUnref, Inv
    <3>3. reg BY <3>2 DEF Inv, LoadInv, TypeInv
    <3> QED BY <2>8, <3>3, UnrefStep DEF UserUnref
  <2> QED BY <1>1, <2>1, <2>2, <2>3, <2>4, <2>5, <2>6, <2>7, <2>8 DEF UserStep
<1>2. ASSUME NEW m \in Mig, RefBegin(m) \/ LoadBegin(m) \/ Offload(m) \/ MigStep(m)
      PROVE  CoreInv'
  <2> USE HoldPCs DEF ptVars, bgVars, shardMap, lockVars
  <2>1. CASE RefBegin(m)
    <3>1. PICK l \in {"preoff", "rbEnable"} : Goto(m, l) BY <2>1 DEF RefBegin
    <3>2. pc[Dropper] = "idle" BY <2>1, DistinctActors DEF RefBegin, MigBegin, NoConflict
    <3> QED BY <2>1, <3>1, <3>2, RefStep DEF RefBegin, MigBegin
  <2>2. CASE PreOffload(m)
    <3>1. PICK l \in {"unref", "disable"} : Goto(m, l) BY <2>2 DEF PreOffload
    <3> QED BY <2>2, <3>1, InnerStep DEF PreOffload
  <2>3. CASE disableDBPtBgr(m)
    <3>1. PICK l \in {"unref", "quiesce"} : Goto(m, l) BY <2>3 DEF disableDBPtBgr
    <3> QED BY <2>3, <3>1, InnerStep DEF disableDBPtBgr
  <2>4. CASE Quiesce(m) BY <2>4, InnerStep DEF Quiesce
  <2>5. CASE PreOffloadEnd(m) BY <2>5, UnrefStep DEF PreOffloadEnd, MigEnd
  <2>6. CASE enableDBPtBgr(m) BY <2>6, InnerStep DEF enableDBPtBgr
  <2>7. CASE RollbackShards(m) BY <2>7, InnerStep DEF RollbackShards
  <2>8. CASE RollbackUnref(m) BY <2>8, UnrefStep DEF RollbackUnref
  <2> QED BY <1>2, <2>1, <2>2, <2>3, <2>4, <2>5, <2>6, <2>7, <2>8, LoadSteps, UnloadSteps
          DEF MigStep
<1>3. CASE Next
  <2>1. CASE UserNext BY <2>1, <1>1, <1>3, UserTypes, MoveSteps DEF UserNext, Inv, CoreInv
  <2>2. CASE MigNext BY <2>2, <1>2, <1>3, MigTypes, MoveSteps DEF MigNext, Inv, CoreInv
  <2>3. CASE DropNext BY <2>3, <1>3, DropTypes, DropSteps, MoveSteps DEF Inv, CoreInv
  <2>4. CASE OtherLock \/ OtherAdd
    <3>1. TypeInv' /\ PcInv'
      BY <2>4 DEF OtherLock, OtherAdd, Inv, TypeInv, PcInv, ptVars, bgVars, shardMap
    <3>2. CoreInv'
      BY <2>4 DEF OtherLock, OtherAdd, Inv, CoreInv, CountInv, Holders, MigInv, CloseInv,
          LoadInv, NoPanic, ptVars
    <3> QED BY <1>3, <3>1, <3>2, MoveSteps DEF Inv, CoreInv
  <2> QED BY <1>3, <2>1, <2>2, <2>3, <2>4 DEF Next
<1>4. CASE UNCHANGED vars
  BY <1>4 DEF vars, ptVars, bgVars, shardMap, lockVars, Inv, TypeInv, PcInv, CountInv, Holders, MoveInv,
      Movers, MigInv, CloseInv, LoadInv, NoPanic
<1> QED BY <1>3, <1>4

\* The initial states satisfy Inv
LEMMA InitInv == Init => Inv
<1> SUFFICES ASSUME Init PROVE Inv OBVIOUS
<1> USE DEF Init
<1>1. Holders = {} /\ Movers = {} BY HoldPCs DEF Holders, Movers, Actor
<1>2. CountInv /\ MoveInv BY <1>1, FS_EmptySet DEF CountInv, MoveInv
<1>3. TypeInv /\ PcInv
  BY DEF TypeInv, PcInv, Actor, Closer, UserPC, MigPC, DropPC
<1>4. MigInv /\ CloseInv /\ LoadInv /\ NoPanic
  BY DEF MigInv, CloseInv, LoadInv, NoPanic, Closing, Closer, Actor
<1> QED BY <1>2, <1>3, <1>4 DEF Inv


\* Inv is an invariant of DBPT
LEMMA Invariance ==
    ASSUME ~Parallel
    PROVE  Spec => []Inv
<1>1. Inv /\ [Next]_vars => Inv' BY Inductive
<1> QED BY <1>1, InitInv, PTL DEF Spec

-----------------------------------------------------------------------------
(* What follows from the invariant                                          *)

\* A goroutine with a reference finds the partition in DBPartitions, and nobody has
\* closed it for good
LEMMA HolderInside ==
    ASSUME Inv, Holders # {}
    PROVE  reg /\ ~Dropping
<1>1. exeCount # 0 BY CountedFinite DEF Inv, CountInv
<1> QED BY <1>1 DEF Inv, LoadInv, CloseInv, Closing, Dropping

\* A step that takes the partition out of DBPartitions or closes shards is taken
\* while nobody holds a reference
LEMMA ClosesAlone ==
    ASSUME ~Parallel, Inv, Next, Holders # {}
    PROVE  reg' = reg /\ closed' \subseteq closed
<1> USE DEF ptVars, bgVars, shardMap, lockVars
<1>1. exeCount # 0 BY CountedFinite DEF Inv, CountInv
<1>2. reg BY HolderInside
<1>3. \A a \in Closer : pc[a] \notin Closing \ {"wait"} BY <1>1 DEF Inv, CloseInv
<1>4. ASSUME NEW i \in User, UserRef(i) \/ UserStep(i)
      PROVE  reg' = reg /\ closed' \subseteq closed
  BY <1>4 DEF UserStep, UserRef, CreateShard, getShard, MoveBegin, MoveEnd, DeleteBegin,
        DeleteEnd, UserUnref
<1>5. ASSUME NEW m \in Mig, RefBegin(m) \/ LoadBegin(m) \/ Offload(m) \/ MigStep(m)
      PROVE  reg' = reg /\ closed' \subseteq closed
  <2>1. pc[m] \notin {"close", "rbclose", "dropping"} BY <1>3 DEF Closer, Closing
  <2>2. pc[m] \notin {"add", "addPre"} BY <1>2 DEF Inv, LoadInv
  <2> QED BY <1>5, <2>1, <2>2 DEF MigStep, RefBegin, LoadBegin, Offload, PreOffload,
        disableDBPtBgr, Quiesce, PreOffloadEnd, enableDBPtBgr, RollbackShards, RollbackUnref,
        RollbackEnd, LoadOk, LoadErr, addDBPTInfo, AssignPreloaded, OffloadDone,
        OffloadGiveUp, closeDBPt, closeDBPtErr, dropDBPTInfo
<1>6. CASE DropNext
  <2>1. pc[Dropper] \notin {"delete", "dropping"} BY <1>3 DEF Closer, Closing
  <2> QED BY <1>6, <2>1 DEF DropNext, DropUnloaded, DropBegin, DropDone, DropTimeout,
        deleteShardsAndIndexes, DropEnd
<1>7. CASE OtherLock \/ OtherAdd BY <1>7 DEF OtherLock, OtherAdd
<1> QED BY <1>4, <1>5, <1>6, <1>7 DEF Next, UserNext, MigNext

\* While DeleteDatabase and a migration exclude each other, a request that got a
\* reference (ref) works on a registered partition, and neither Offload nor
\* DeleteDatabase closes a shard under it, even if they fail halfway and reopen the
\* partition, however writes, shard services, Assign and retries interleave.
THEOREM ReferenceSafety ==
    ASSUME ~Parallel
    PROVE  Spec => HolderKeepsPt
<1>1. Inv => (Holders # {} => reg /\ ~Dropping) BY HolderInside
<1>2. Inv /\ [Next]_vars => [Holders # {} => reg' = reg /\ closed' \subseteq closed]_vars
  BY ClosesAlone
<1> QED BY <1>1, <1>2, Invariance, PTL DEF Spec, HolderKeepsPt

\* Under the same assumption neither panic of unref and unrefDBPTNoLock is reachable.
THEOREM UnrefNeverPanics ==
    ASSUME ~Parallel
    PROVE  Spec => []NoPanic
<1>1. Inv => NoPanic BY DEF Inv
<1> QED BY <1>1, Invariance, PTL

\* A goroutine that waits in markOffload's select has been signalled or will be by
\* the last unref: no wakeup is lost to the re-registration of channels.
THEOREM WaiterIsSignalled ==
    ASSUME ~Parallel
    PROVE  Spec => []NoLostWakeup
<1>1. Inv => NoLostWakeup BY DEF Inv, CloseInv, NoLostWakeup
<1> QED BY <1>1, Invariance, PTL

\* doingOff and doingShardMoveN exclude each other for any number of movers.
THEOREM MoveOrOffload ==
    ASSUME ~Parallel
    PROVE  Spec => []MoveExcludesOffload
<1>1. Init => MoveExcludesOffload BY DEF Init, MoveExcludesOffload
<1>2. Inv /\ MoveExcludesOffload /\ [Next]_vars => MoveExcludesOffload'
  <2> SUFFICES ASSUME Inv, MoveExcludesOffload, [Next]_vars PROVE MoveExcludesOffload'
    OBVIOUS
  <2>0. moveN \in Nat BY CountedFinite DEF Inv, MoveInv
  <2> USE DEF MoveExcludesOffload, ptVars, bgVars, shardMap, lockVars
  <2>1. ASSUME NEW i \in User, UserRef(i) \/ UserStep(i) PROVE MoveExcludesOffload'
    <3>1. CASE MoveBegin(i)
      <4>1. doingOff => MoveRefused(i) BY DEF MoveRefused
      <4> QED BY <3>1, <4>1 DEF MoveBegin
    <3>2. CASE MoveEnd(i)
      <4>1. moveN # 0
        <5>1. i \in Movers BY <3>2 DEF MoveEnd, Movers
        <5> QED BY <5>1, CountedFinite DEF Inv, MoveInv
      <4> QED BY <3>2, <4>1 DEF MoveEnd
    <3> QED BY <2>1, <3>1, <3>2 DEF UserStep, UserRef, CreateShard, getShard, DeleteBegin,
          DeleteEnd, UserUnref
  <2>2. ASSUME NEW m \in Mig, RefBegin(m) \/ LoadBegin(m) \/ Offload(m) \/ MigStep(m)
        PROVE  MoveExcludesOffload'
    <3>1. CASE PreOffload(m)
      <4>1. moveN' = moveN BY <3>1 DEF PreOffload
      <4>2. CASE moveN > 0
        <5>1. doingOff' = doingOff BY <3>1, <4>2 DEF PreOffload
        <5> QED BY <4>1, <5>1
      <4>3. CASE ~(moveN > 0) BY <2>0, <4>1, <4>3
      <4> QED BY <4>2, <4>3
    <3>2. CASE addDBPTInfo(m) BY <3>2 DEF addDBPTInfo
    <3>3. CASE RollbackEnd(m) BY <3>3 DEF RollbackEnd
    <3> QED BY <2>2, <3>1, <3>2, <3>3 DEF MigStep, RefBegin, LoadBegin, Offload, disableDBPtBgr,
          Quiesce, PreOffloadEnd, enableDBPtBgr, RollbackShards, RollbackUnref, LoadOk, LoadErr,
          AssignPreloaded, OffloadDone, OffloadGiveUp, closeDBPt, closeDBPtErr, dropDBPTInfo
  <2>3. CASE DropNext \/ OtherLock \/ OtherAdd
    BY <2>3 DEF DropNext, DropUnloaded, DropBegin, DropDone, DropTimeout,
        deleteShardsAndIndexes, DropEnd, OtherLock, OtherAdd
  <2>4. CASE UNCHANGED vars BY <2>4 DEF vars
  <2> QED BY <2>1, <2>2, <2>3, <2>4 DEF Next, UserNext, MigNext
<1> QED BY <1>1, <1>2, Invariance, PTL DEF Spec

\* No shard deletion is in flight from disableDBPtBgr until the rollback.
THEOREM DeleteOrMigrate == Spec => []NoDeleteInMigration
<1>1. Init => NoDeleteInMigration BY DEF Init, NoDeleteInMigration
<1>2. NoDeleteInMigration /\ [Next]_vars => NoDeleteInMigration'
  <2> SUFFICES ASSUME NoDeleteInMigration, [Next]_vars PROVE NoDeleteInMigration'
    OBVIOUS
  <2> USE DEF NoDeleteInMigration, ptVars, bgVars, shardMap, lockVars
  <2>1. CASE UserNext
    BY <2>1 DEF UserNext, UserStep, UserRef, CreateShard, getShard, MoveBegin,
        MoveEnd, DeleteBegin, DeleteEnd, UserUnref
  <2>2. CASE MigNext
    BY <2>2 DEF MigNext, MigStep, RefBegin, LoadBegin, Offload, PreOffload, disableDBPtBgr,
        DeletesPending, Quiesce, PreOffloadEnd, enableDBPtBgr, RollbackShards, RollbackUnref,
        RollbackEnd, LoadOk, LoadErr, addDBPTInfo, AssignPreloaded, OffloadDone,
        OffloadGiveUp, closeDBPt, closeDBPtErr, dropDBPTInfo
  <2>3. CASE DropNext \/ OtherLock \/ OtherAdd
    BY <2>3 DEF DropNext, DropUnloaded, DropBegin, DropDone, DropTimeout,
        deleteShardsAndIndexes, DropEnd, OtherLock, OtherAdd
  <2>4. CASE UNCHANGED vars BY <2>4 DEF vars
  <2> QED BY <2>1, <2>2, <2>3, <2>4 DEF Next
<1> QED BY <1>1, <1>2, PTL DEF Spec


\* Every step keeps the types of the Boolean variables
LEMMA BoolSteps ==
    ASSUME TypeInv, BoolInv, [Next]_vars
    PROVE  BoolInv'
<1> USE DEF BoolInv, ptVars, bgVars, shardMap, lockVars
<1>1. ASSUME NEW i \in User, UserRef(i) \/ UserStep(i) PROVE BoolInv'
  <2>1. CASE UserRef(i) BY <2>1 DEF UserRef, ref
  <2>2. CASE UserUnref(i) BY <2>2 DEF UserUnref, unref
  <2>3. CASE \/ CreateShard(i) \/ getShard(i) \/ MoveBegin(i) \/ MoveEnd(i)
             \/ DeleteBegin(i) \/ DeleteEnd(i)
    BY <2>3 DEF CreateShard, getShard, MoveBegin, MoveEnd, DeleteBegin, DeleteEnd
  <2> QED BY <1>1, <2>1, <2>2, <2>3 DEF UserStep
<1>2. ASSUME NEW m \in Mig, RefBegin(m) \/ LoadBegin(m) \/ Offload(m) \/ MigStep(m)
      PROVE  BoolInv'
  <2> USE DEF MigEnd, MigBegin
  <2>1. CASE RefBegin(m) BY <2>1 DEF RefBegin, ref
  <2>2. CASE LoadBegin(m) BY <2>2 DEF LoadBegin
  <2>3. CASE Offload(m) BY <2>3 DEF Offload, markOffload
  <2>4. CASE PreOffload(m) BY <2>4 DEF PreOffload
  <2>5. CASE disableDBPtBgr(m) BY <2>5 DEF disableDBPtBgr
  <2>6. CASE Quiesce(m) \/ RollbackShards(m) \/ LoadOk(m) \/ OffloadDone(m)
    BY <2>6 DEF Quiesce, RollbackShards, LoadOk, OffloadDone
  <2>7. CASE PreOffloadEnd(m) BY <2>7 DEF PreOffloadEnd, unref
  <2>8. CASE RollbackUnref(m) BY <2>8 DEF RollbackUnref, unref
  <2>9. CASE RollbackEnd(m) BY <2>9 DEF RollbackEnd
  <2>10. CASE LoadErr(m)
    <3>1. CASE pc[m] \in {"preload", "load"} BY <2>10, <3>1 DEF LoadErr
    <3>2. CASE pc[m] = "assign" BY <2>10, <3>2 DEF LoadErr
    <3> QED BY <2>10, <3>1, <3>2 DEF LoadErr
  <2>11. CASE addDBPTInfo(m)
    <3>1. preload' \in BOOLEAN BY <2>11 DEF addDBPTInfo
    <3> QED BY <2>11, <3>1 DEF addDBPTInfo
  <2>12. CASE AssignPreloaded(m) BY <2>12 DEF AssignPreloaded
  <2>13. CASE OffloadGiveUp(m) BY <2>13 DEF OffloadGiveUp, unMarkOffload
  <2>14. CASE closeDBPt(m) BY <2>14 DEF closeDBPt
  <2>15. CASE closeDBPtErr(m) BY <2>15 DEF closeDBPtErr, unMarkOffload
  <2>16. CASE dropDBPTInfo(m) BY <2>16 DEF dropDBPTInfo
  <2>17. CASE enableDBPtBgr(m) BY <2>17 DEF enableDBPtBgr
  <2> QED BY <1>2, <2>1, <2>2, <2>3, <2>4, <2>5, <2>6, <2>7, <2>8, <2>9, <2>10, <2>11, <2>12,
          <2>13, <2>14, <2>15, <2>16, <2>17 DEF MigStep
<1>3. CASE DropNext
  <2>1. CASE DropUnloaded \/ DropDone BY <2>1 DEF DropUnloaded, DropDone
  <2>2. CASE DropBegin BY <2>2 DEF DropBegin, markOffload
  <2>3. CASE DropTimeout BY <2>3 DEF DropTimeout, unMarkOffload
  <2>4. CASE deleteShardsAndIndexes BY <2>4 DEF deleteShardsAndIndexes, unMarkOffload
  <2>5. CASE DropEnd BY <2>5 DEF DropEnd
  <2> QED BY <1>3, <2>1, <2>2, <2>3, <2>4, <2>5 DEF DropNext
<1>4. CASE OtherLock \/ OtherAdd BY <1>4 DEF OtherLock, OtherAdd
<1>5. CASE UNCHANGED vars BY <1>5 DEF vars
<1> QED BY <1>1, <1>2, <1>3, <1>4, <1>5 DEF Next, UserNext, MigNext

\* Type correctness, with exeCount and doingShardMoveN never negative.
THEOREM TypeCorrect ==
    ASSUME ~Parallel
    PROVE  Spec => []TypeOK
<1>1. Init => BoolInv BY DEF Init, BoolInv
<1>2. Inv /\ BoolInv /\ [Next]_vars => BoolInv' BY BoolSteps DEF Inv
<1>3. Inv /\ BoolInv => TypeOK
  BY CountedFinite DEF Inv, TypeInv, BoolInv, CountInv, MoveInv, TypeOK
<1> QED BY <1>1, <1>2, <1>3, Invariance, PTL DEF Spec

\* A step moves at most one actor; it registers or drops the partition, and closes
\* shards, only without touching the references.
LEMMA GateFrame ==
    ASSUME Inv, Next
    PROVE  /\ pc' = pc \/ \E a \in Actor : \E l : Goto(a, l)
           /\ \/ reg' = reg /\ closed' \subseteq closed /\ (Dropping' <=> Dropping)
              \/ Holders' = Holders
           /\ Holders' = Holders \/ closed' = closed
<1> USE DEF ptVars, bgVars, shardMap, lockVars
<1>0. ASSUME NEW a \in Actor, NEW l, Goto(a, l), l # "dropping", pc[a] # "dropping"
      PROVE  Dropping' <=> Dropping
  <2>1. \A b \in Closer : pc'[b] = "dropping" <=> pc[b] = "dropping"
    BY <1>0 DEF Goto, Inv, TypeInv, Closer, Actor
  <2> QED BY <2>1 DEF Dropping
<1>1. ASSUME NEW i \in User, UserRef(i) \/ UserStep(i)
      PROVE  /\ reg' = reg /\ closed' \subseteq closed /\ (Dropping' <=> Dropping)
             /\ Holders' = Holders \/ closed' = closed
             /\ \E l : Goto(i, l)
  <2>1. /\ reg' = reg /\ closed' \subseteq closed
        /\ DeleteBegin(i) \/ closed' = closed
    BY <1>1 DEF UserStep, UserRef, CreateShard, getShard, MoveBegin, MoveEnd, DeleteBegin,
        DeleteEnd, UserUnref
  <2>2. PICK l \in UserPC : Goto(i, l)
    BY <1>1 DEF UserStep, UserRef, CreateShard, getShard, MoveBegin, MoveEnd, DeleteBegin,
        DeleteEnd, UserUnref, UserPC
  <2>3. i \in Actor /\ i # Dropper BY DistinctActors DEF Actor
  <2>4. Dropping' <=> Dropping BY <1>0, <2>2, <2>3 DEF UserPC, Inv, PcInv
  <2>5. DeleteBegin(i) => Holders' = Holders
    <3> SUFFICES ASSUME DeleteBegin(i) PROVE Holders' = Holders OBVIOUS
    <3>1. pc[i] = "del" /\ \E k \in {"leave", "deleting"} : Goto(i, k) BY DEF DeleteBegin
    <3> QED BY <2>3, <3>1, CountGoto, HoldPCs DEF Inv
  <2> QED BY <2>1, <2>2, <2>4, <2>5
<1>2. ASSUME NEW m \in Mig, RefBegin(m) \/ LoadBegin(m) \/ Offload(m) \/ MigStep(m)
      PROVE  /\ \/ reg' = reg /\ closed' = closed /\ (Dropping' <=> Dropping)
                \/ Holders' = Holders
             /\ \E l : Goto(m, l)
  <2> USE DEF MigEnd
  <2>1. m \in Closer /\ m \in Actor BY DEF Closer, Actor
  <2>2. CASE addDBPTInfo(m)
    <3>1. Goto(m, "idle") /\ pc[m] \in {"add", "addPre"}
      BY <2>2 DEF addDBPTInfo
    <3> QED BY <2>1, <3>1, CloserFrame, HoldPCs
  <2>3. CASE closeDBPt(m)
    <3>1. Goto(m, "dropping") /\ pc[m] \in {"close", "rbclose"} /\ reg' = reg
      BY <2>3 DEF closeDBPt
    <3> QED BY <2>1, <3>1, CloserFrame, HoldPCs
  <2>4. CASE closeDBPtErr(m)
    <3>1. Goto(m, "idle") /\ pc[m] = "close" /\ reg' = reg BY <2>4 DEF closeDBPtErr
    <3> QED BY <2>1, <3>1, CloserFrame, HoldPCs
  <2>5. CASE dropDBPTInfo(m)
    <3>1. Goto(m, "idle") /\ pc[m] = "dropping" BY <2>5 DEF dropDBPTInfo
    <3> QED BY <2>1, <3>1, CloserFrame, HoldPCs
  <2>6. CASE ~(addDBPTInfo(m) \/ closeDBPt(m) \/ closeDBPtErr(m) \/ dropDBPTInfo(m))
    <3>1. reg' = reg /\ closed' = closed /\ pc[m] # "dropping"
      BY <1>2, <2>6 DEF MigStep, RefBegin, LoadBegin, Offload, MigBegin,
        PreOffload, disableDBPtBgr, Quiesce, PreOffloadEnd, enableDBPtBgr, RollbackShards,
        RollbackUnref, RollbackEnd, LoadOk, LoadErr, AssignPreloaded, OffloadDone,
        OffloadGiveUp
    <3>2. \E l \in MigPC \ {"dropping"} : Goto(m, l)
      BY <1>2, <2>6 DEF MigStep, RefBegin, LoadBegin, Offload, markOffload,
        PreOffload, disableDBPtBgr, Quiesce, PreOffloadEnd, enableDBPtBgr, RollbackShards,
        RollbackUnref, RollbackEnd, LoadOk, LoadErr, AssignPreloaded, OffloadDone,
        OffloadGiveUp, MigPC, MigHoldPC, ClosePC
    <3> QED BY <1>0, <2>1, <3>1, <3>2
  <2> QED BY <2>2, <2>3, <2>4, <2>5, <2>6
<1>3. CASE DropNext
  <2>1. pc' = pc \/ \E l : Goto(Dropper, l)
    BY <1>3 DEF DropNext, DropUnloaded, DropBegin, markOffload, DropDone, DropTimeout,
        deleteShardsAndIndexes, DropEnd
  <2>2. CASE pc' = pc BY <2>1, <2>2 DEF Holders
  <2>3. ASSUME NEW l, Goto(Dropper, l) PROVE Holders' = Holders
    BY <2>3, CountGoto DEF Inv, Actor
  <2> QED BY <2>1, <2>2, <2>3 DEF Actor
<1>4. CASE OtherLock \/ OtherAdd BY <1>4 DEF OtherLock, OtherAdd, Dropping, Holders
<1> QED BY <1>1, <1>2, <1>3, <1>4 DEF Next, UserNext, MigNext, Actor

\* HolderInside after a step
LEMMA HolderInsideNext == (Inv => (Holders # {} => reg /\ ~Dropping))'
<1>1. Inv => (Holders # {} => reg /\ ~Dropping) BY HolderInside
<1> QED BY <1>1, PTL

\* Only a new load makes a partition that was gone available, and all its shards are
\* new; a closer that closed it for good does not take that back.
LEMMA ReopensClean ==
    ASSUME Inv, Next, ~(reg /\ ~Dropping), reg' /\ ~Dropping'
    PROVE  closed' = {}
<1> USE DEF ptVars, bgVars, shardMap, lockVars
<1>1. CASE ~reg
  <2>1. PICK m \in Mig : addDBPTInfo(m)
    BY <1>1 DEF Next, UserNext, UserStep, UserRef, CreateShard, getShard, MoveBegin, MoveEnd,
        DeleteBegin, DeleteEnd, UserUnref, MigNext, MigStep, RefBegin, LoadBegin, Offload,
        PreOffload, disableDBPtBgr, Quiesce, PreOffloadEnd, enableDBPtBgr, RollbackShards,
        RollbackUnref, RollbackEnd, LoadOk, LoadErr, AssignPreloaded, OffloadDone,
        OffloadGiveUp, closeDBPt, closeDBPtErr, dropDBPTInfo, DropNext, DropUnloaded,
        DropBegin, DropDone, DropTimeout, deleteShardsAndIndexes, DropEnd, OtherLock, OtherAdd
  <2> QED BY <2>1 DEF addDBPTInfo
<1>2. CASE reg
  <2>1. PICK a \in Closer : pc[a] = "dropping" BY <1>2 DEF Dropping
  <2>2. pc'[a] # "dropping" BY <2>1 DEF Dropping
  <2>3. \E l : Goto(a, l)
    <3>1. pc' # pc BY <2>1, <2>2
    <3>2. PICK b \in Actor : \E l : Goto(b, l) BY <3>1, GateFrame
    <3>3. b = a BY <2>1, <2>2, <3>2 DEF Goto, Inv, TypeInv, Closer, Actor
    <3> QED BY <3>2, <3>3
  <2>4. CASE UserNext
    <3>1. PICK i \in User : UserRef(i) \/ UserStep(i) BY <2>4 DEF UserNext
    <3>2. \E l : Goto(i, l)
      BY <3>1 DEF UserStep, UserRef, CreateShard, getShard, MoveBegin, MoveEnd, DeleteBegin,
          DeleteEnd, UserUnref
    <3>3. i \in Actor /\ a \in Actor /\ i # a BY DistinctActors DEF Actor, Closer
    <3> QED BY <2>1, <2>2, <3>2, <3>3 DEF Goto, Inv, TypeInv
  <2>5. CASE MigNext
    <3>1. PICK m \in Mig : RefBegin(m) \/ LoadBegin(m) \/ Offload(m) \/ MigStep(m)
      BY <2>5 DEF MigNext
    <3>2. \E l : Goto(m, l)
      BY <3>1 DEF MigStep, RefBegin, LoadBegin, Offload, markOffload, MigEnd, PreOffload,
        disableDBPtBgr, Quiesce, PreOffloadEnd, enableDBPtBgr, RollbackShards, RollbackUnref,
        RollbackEnd, LoadOk, LoadErr, addDBPTInfo, AssignPreloaded, OffloadDone,
        OffloadGiveUp, closeDBPt, closeDBPtErr, dropDBPTInfo
    <3>3. m = a BY <2>1, <2>2, <3>2 DEF Goto, Inv, TypeInv, Closer, Actor
    <3>4. dropDBPTInfo(a)
      BY <2>1, <3>1, <3>3 DEF MigStep, RefBegin, LoadBegin, Offload, MigBegin, PreOffload,
        disableDBPtBgr, Quiesce, PreOffloadEnd, enableDBPtBgr, RollbackShards, RollbackUnref,
        RollbackEnd, LoadOk, LoadErr, addDBPTInfo, AssignPreloaded, OffloadDone,
        OffloadGiveUp, closeDBPt, closeDBPtErr
    <3> QED BY <3>4 DEF dropDBPTInfo
  <2>6. CASE DropNext
    <3>1. \E l : Goto(Dropper, l)
      BY <2>1, <2>2, <2>6 DEF DropNext, DropUnloaded, DropBegin, markOffload, DropDone,
          DropTimeout, deleteShardsAndIndexes, DropEnd
    <3>2. a = Dropper BY <2>1, <2>2, <3>1 DEF Goto, Inv, TypeInv, Closer, Actor
    <3>3. DropEnd
      BY <2>1, <2>2, <2>6, <3>2 DEF DropNext, DropUnloaded, DropBegin, DropDone, DropTimeout,
          deleteShardsAndIndexes
    <3> QED BY <3>3 DEF DropEnd
  <2>7. CASE OtherLock \/ OtherAdd BY <2>1, <2>2, <2>7 DEF OtherLock, OtherAdd
  <2> QED BY <2>4, <2>5, <2>6, <2>7 DEF Next
<1> QED BY <1>1, <1>2

\* A partition implements the abstract gate: requests enter only while it is open,
\* and Offload and DeleteDatabase shut it, or close a part of it, only when nobody is
\* inside.
THEOREM ImplementsGate ==
    ASSUME ~Parallel
    PROVE  Spec => GateSpec
<1>1. Init => Gate!Init
  <2> SUFFICES ASSUME Init PROVE Gate!Init OBVIOUS
  <2>1. Holders = {} BY HoldPCs DEF Init, Holders, Actor
  <2>2. ~Dropping BY DEF Init, Dropping, Closer, Actor
  <2> QED BY <2>1, <2>2 DEF Init, Gate!Init
<1>2. ASSUME Inv, Inv', [Next]_vars
      PROVE  [Gate!Next]_<<Holders, reg /\ ~Dropping, closed>>
  <2> DEFINE Open == reg /\ ~Dropping
  <2>0. closed' \subseteq Shard BY <1>2 DEF Inv, TypeInv
  <2>1. CASE UNCHANGED vars
    BY <2>1 DEF vars, ptVars, bgVars, shardMap, Holders, Dropping
  <2>2. CASE Next /\ Holders' = Holders
    <3>1. CASE Holders = {}
      <4>1. CASE Open' <=> Open BY <2>0, <2>2, <3>1, <4>1 DEF Gate!Next, Gate!Close
      <4>2. CASE Open /\ ~Open' BY <2>0, <2>2, <3>1, <4>2 DEF Gate!Next, Gate!Shut
      <4>3. CASE ~Open /\ Open'
        <5>1. closed' = {} BY <1>2, <2>2, <4>3, ReopensClean
        <5> QED BY <2>2, <4>3, <5>1 DEF Gate!Next, Gate!Reopen
      <4> QED BY <4>1, <4>2, <4>3
    <3>2. CASE Holders # {}
      <4>1. reg /\ ~Dropping BY <1>2, <3>2, HolderInside
      <4>2. reg' /\ ~Dropping' BY <1>2, <2>2, <3>2, HolderInsideNext
      <4>3. closed' \subseteq closed BY <1>2, <2>2, <3>2, ClosesAlone
      <4> QED BY <2>2, <4>1, <4>2, <4>3 DEF Gate!Next, Gate!Discard
    <3> QED BY <3>1, <3>2
  <2>3. CASE Next /\ Holders' # Holders
    <3>1. reg' = reg /\ closed' = closed /\ (Dropping' <=> Dropping) BY <1>2, <2>3, GateFrame
    <3>2. PICK a \in Actor : \E l : Goto(a, l)
      <4>1. pc' # pc BY <2>3 DEF Holders
      <4> QED BY <1>2, <2>3, <4>1, GateFrame
    <3>3. \A b \in Actor : b # a => pc'[b] = pc[b]
      BY <1>2, <3>2 DEF Goto, Inv, TypeInv
    <3>4. CASE a \notin Holders
      <4>1. a \in User \cup Mig /\ Holders' = Holders \cup {a}
        BY <2>3, <3>3, <3>4 DEF Holders, Actor
      <4>2. Holders' # {} BY <4>1
      <4>3. reg' /\ ~Dropping' BY <1>2, <4>2, HolderInsideNext
      <4> QED BY <3>1, <3>4, <4>1, <4>3 DEF Gate!Next, Gate!Enter
    <3>5. CASE a \in Holders
      <4>1. a \in User \cup Mig /\ Holders' = Holders \ {a}
        BY <2>3, <3>3, <3>5 DEF Holders, Actor
      <4> QED BY <3>1, <3>5, <4>1 DEF Gate!Next, Gate!Leave
    <3> QED BY <3>4, <3>5
  <2> QED BY <1>2, <2>1, <2>2, <2>3
<1> QED BY <1>1, <1>2, Invariance, PTL DEF Spec, GateSpec, Gate!Spec

-----------------------------------------------------------------------------
(* Shards stay quiet after PreOffload                                       *)

\* Background tasks are disabled only under doingOff, which no step but the end of a
\* rollback and a new load takes back, and both have enabled them before; then no
\* mover can enable compaction again.
QuietInv ==
    /\ ~bgr => doingOff
    /\ \A m \in Mig : pc[m] \in {"disable", "quiesce"} => doingOff
    /\ \A m \in Mig : pc[m] \in {"rbShards", "rbUnref", "rbOff"} => bgr
    /\ ~bgr /\ ~InQuiesce => shards \cap compEn \subseteq late

\* A step that leaves the migration requests where they are, and enables no
\* compaction of a shard that PreOffload found
LEMMA QuietFrame ==
    ASSUME QuietInv, UNCHANGED <<bgr, doingOff>>, \A m \in Mig : pc'[m] = pc[m],
           ~bgr => (shards \cap compEn)' \subseteq (shards \cap compEn) \cup late',
           late \subseteq late'
    PROVE  QuietInv'
<1>1. InQuiesce' <=> InQuiesce BY DEF InQuiesce
<1>2. ~bgr /\ ~InQuiesce => shards' \cap compEn' \subseteq late' BY DEF QuietInv
<1> QED BY <1>1, <1>2 DEF QuietInv

\* Users: a mover would enable compaction, but there is none once doingOff is set
LEMMA QuietUser ==
    ASSUME Inv, MoveExcludesOffload, QuietInv, NEW i \in User, UserRef(i) \/ UserStep(i)
    PROVE  QuietInv'
<1> USE DEF ptVars, bgVars, shardMap, lockVars
<1>1. UNCHANGED <<bgr, doingOff>>
  BY DEF UserStep, UserRef, CreateShard, getShard, MoveBegin, MoveEnd, DeleteBegin, DeleteEnd, UserUnref
<1>2. \E l : Goto(i, l)
  BY DEF UserStep, UserRef, CreateShard, getShard, MoveBegin, MoveEnd, DeleteBegin, DeleteEnd, UserUnref
<1>3. \A m \in Mig : pc'[m] = pc[m]
  BY <1>2, DistinctActors DEF Goto, Inv, TypeInv, Actor
<1>4. CASE MoveEnd(i)
  <2>1. pc[i] \in {"moving", "stay"} /\ UNCHANGED <<shards, late>> BY <1>4 DEF MoveEnd
  <2>2. moveN # 0
    <3>1. i \in Movers BY <2>1 DEF Movers
    <3> QED BY <3>1, CountedFinite DEF Inv, MoveInv
  <2>3. bgr BY <2>2 DEF QuietInv, MoveExcludesOffload
  <2> QED BY <1>1, <1>3, <2>1, <2>3, QuietFrame
<1>5. CASE CreateShard(i) BY <1>1, <1>3, <1>5, QuietFrame DEF CreateShard
<1>6. CASE MoveBegin(i)
  <2>1. compEn' \subseteq compEn /\ UNCHANGED <<shards, late>> BY <1>6 DEF MoveBegin
  <2> QED BY <1>1, <1>3, <2>1, QuietFrame
<1>7. CASE DeleteBegin(i)
  <2>1. shards' \subseteq shards /\ UNCHANGED <<compEn, late>> BY <1>7 DEF DeleteBegin
  <2> QED BY <1>1, <1>3, <2>1, QuietFrame
<1>8. CASE UserRef(i) \/ getShard(i) \/ DeleteEnd(i) \/ UserUnref(i)
  <2>1. UNCHANGED <<shards, compEn, late>> BY <1>8 DEF UserRef, getShard, DeleteEnd, UserUnref
  <2> QED BY <1>1, <1>3, <2>1, QuietFrame
<1> QED BY <1>4, <1>5, <1>6, <1>7, <1>8 DEF UserStep

\* Migration requests: one at a time, so the flags are its own
LEMMA QuietMig ==
    ASSUME Inv, QuietInv, NEW m \in Mig, RefBegin(m) \/ LoadBegin(m) \/ Offload(m) \/ MigStep(m)
    PROVE  QuietInv'
<1> USE DEF ptVars, bgVars, shardMap, lockVars
<1>1. m \in Actor /\ m # Dropper BY DistinctActors DEF Actor
<1>2. ASSUME NEW l, Goto(m, l) PROVE pc'[m] = l /\ \A k \in Mig : k # m => pc'[k] = pc[k]
  BY <1>1, <1>2 DEF Goto, Inv, TypeInv, Actor
<1>3. \A k \in Mig : k # m => pc[k] = "idle"
  <2>1. CASE RefBegin(m) \/ LoadBegin(m) \/ Offload(m)
    BY <2>1 DEF RefBegin, LoadBegin, Offload, MigBegin, Inv, MigInv
  <2>2. CASE MigStep(m)
    <3>1. pc[m] # "idle"
      BY <2>2 DEF MigStep, PreOffload, disableDBPtBgr, Quiesce, PreOffloadEnd, enableDBPtBgr,
         RollbackShards, RollbackUnref, RollbackEnd, LoadOk, LoadErr, addDBPTInfo, AssignPreloaded,
         OffloadDone, OffloadGiveUp, closeDBPt, closeDBPtErr, dropDBPTInfo
    <3> QED BY <3>1 DEF Inv, MigInv
  <2> QED BY <2>1, <2>2
<1>4. InQuiesce <=> pc[m] = "quiesce" BY <1>3 DEF InQuiesce
\* It goes to a state that promises nothing, and enables nothing
<1>5. ASSUME NEW l, Goto(m, l), l \notin {"disable", "quiesce", "rbShards", "rbUnref", "rbOff"},
             pc[m] # "quiesce", UNCHANGED <<bgr, doingOff, shards, late>>, compEn' \subseteq compEn
      PROVE  QuietInv'
  <2>1. pc'[m] = l /\ \A k \in Mig : k # m => pc'[k] = "idle" BY <1>2, <1>3, <1>5
  <2>2. ~InQuiesce /\ ~InQuiesce' BY <1>3, <1>5, <2>1 DEF InQuiesce
  <2>3. ~bgr => shards' \cap compEn' \subseteq late' BY <1>5, <2>2 DEF QuietInv
  <2> QED BY <1>5, <2>1, <2>3 DEF QuietInv
<1>6. CASE RefBegin(m)
  <2>1. pc[m] = "idle" /\ UNCHANGED <<bgr, doingOff, shards, late, compEn>> BY <1>6 DEF RefBegin, MigBegin
  <2> QED BY <1>5, <1>6, <2>1 DEF RefBegin
<1>7. CASE LoadBegin(m)
  <2>1. pc[m] = "idle" /\ UNCHANGED <<bgr, doingOff, shards, late, compEn>> BY <1>7 DEF LoadBegin, MigBegin
  <2> QED BY <1>5, <1>7, <2>1 DEF LoadBegin
<1>8. CASE Offload(m)
  <2>1. pc[m] = "idle" /\ UNCHANGED <<bgr, doingOff, shards, late, compEn>> BY <1>8 DEF Offload, MigBegin
  <2> QED BY <1>5, <1>8, <2>1 DEF Offload, markOffload
<1>9. CASE PreOffload(m)
  <2>1. pc[m] = "preoff" /\ UNCHANGED <<bgr, shards, late, compEn>> BY <1>9 DEF PreOffload
  <2>2. CASE moveN > 0
    <3>1. Goto(m, "unref") /\ UNCHANGED doingOff BY <1>9, <2>2 DEF PreOffload
    <3> QED BY <1>5, <2>1, <3>1
  <2>3. CASE ~(moveN > 0)
    <3>1. Goto(m, "disable") /\ doingOff' BY <1>9, <2>3 DEF PreOffload
    <3>2. pc'[m] = "disable" /\ \A k \in Mig : k # m => pc'[k] = "idle" BY <1>2, <1>3, <3>1
    <3>3. ~InQuiesce BY <1>4, <2>1
    <3> QED BY <2>1, <3>1, <3>2, <3>3 DEF QuietInv
  <2> QED BY <2>2, <2>3
<1>10. CASE disableDBPtBgr(m)
  <2>1. pc[m] = "disable" /\ doingOff /\ UNCHANGED <<doingOff, shards, late, compEn>>
    BY <1>10 DEF disableDBPtBgr, QuietInv
  <2>2. CASE DeletesPending
    <3>1. Goto(m, "unref") /\ UNCHANGED bgr BY <1>10, <2>2 DEF disableDBPtBgr
    <3> QED BY <1>5, <2>1, <3>1
  <2>3. CASE ~DeletesPending
    <3>1. Goto(m, "quiesce") BY <1>10, <2>3 DEF disableDBPtBgr
    <3>2. pc'[m] = "quiesce" /\ \A k \in Mig : k # m => pc'[k] = "idle" BY <1>2, <1>3, <3>1
    <3>3. InQuiesce' BY <3>2 DEF InQuiesce
    <3> QED BY <2>1, <3>2, <3>3 DEF QuietInv
  <2> QED BY <2>2, <2>3
<1>11. CASE Quiesce(m)
  <2>1. /\ Goto(m, "unref") /\ UNCHANGED <<bgr, doingOff, shards, late>>
        /\ compEn' = compEn \ shards
    BY <1>11 DEF Quiesce, disableShardsBgr
  <2>2. pc'[m] = "unref" /\ \A k \in Mig : k # m => pc'[k] = "idle" BY <1>2, <1>3, <2>1
  <2> QED BY <2>1, <2>2 DEF QuietInv
<1>12. CASE PreOffloadEnd(m)
  <2>1. Goto(m, "idle") /\ pc[m] = "unref" /\ UNCHANGED <<bgr, doingOff, shards, late, compEn>>
    BY <1>12 DEF PreOffloadEnd, MigEnd
  <2> QED BY <1>5, <2>1
<1>13. CASE enableDBPtBgr(m)
  <2>1. Goto(m, "rbShards") /\ bgr' BY <1>13 DEF enableDBPtBgr
  <2>2. pc'[m] = "rbShards" /\ \A k \in Mig : k # m => pc'[k] = "idle" BY <1>2, <1>3, <2>1
  <2> QED BY <2>1, <2>2 DEF QuietInv
<1>14. CASE RollbackShards(m) \/ RollbackUnref(m)
  <2>1. /\ \E l \in {"rbUnref", "rbOff"} : Goto(m, l)
        /\ pc[m] \in {"rbShards", "rbUnref"} /\ UNCHANGED <<bgr, doingOff>>
    BY <1>14 DEF RollbackShards, RollbackUnref
  <2>2. pc'[m] \in {"rbUnref", "rbOff"} /\ \A k \in Mig : k # m => pc'[k] = "idle" BY <1>2, <1>3, <2>1
  <2>3. bgr BY <2>1 DEF QuietInv
  <2> QED BY <2>1, <2>2, <2>3 DEF QuietInv
<1>15. CASE RollbackEnd(m)
  <2>1. Goto(m, "idle") /\ pc[m] = "rbOff" /\ UNCHANGED bgr BY <1>15 DEF RollbackEnd, MigEnd
  <2>2. pc'[m] = "idle" /\ \A k \in Mig : k # m => pc'[k] = "idle" BY <1>2, <1>3, <2>1
  <2>3. bgr BY <2>1 DEF QuietInv
  <2> QED BY <2>1, <2>2, <2>3 DEF QuietInv
<1>16. CASE LoadOk(m)
  <2>1. /\ pc[m] \in {"preload", "load", "assign"} /\ UNCHANGED <<bgr, doingOff, shards, late, compEn>>
        /\ \E l \in {"addPre", "add", "addNop"} : Goto(m, l)
    BY <1>16 DEF LoadOk
  <2> QED BY <1>5, <2>1
<1>17. CASE LoadErr(m)
  <2>1. /\ pc[m] \in {"preload", "load", "assign"} /\ UNCHANGED <<bgr, doingOff, shards, late, compEn>>
        /\ \E l \in {"idle", "rbclose"} : Goto(m, l)
    BY <1>17 DEF LoadErr, MigEnd
  <2> QED BY <1>5, <2>1
<1>18. CASE addDBPTInfo(m)
  <2>1. Goto(m, "idle") /\ bgr' BY <1>18 DEF addDBPTInfo, MigEnd
  <2>2. pc'[m] = "idle" /\ \A k \in Mig : k # m => pc'[k] = "idle" BY <1>2, <1>3, <2>1
  <2> QED BY <2>1, <2>2 DEF QuietInv
<1>19. CASE AssignPreloaded(m)
  <2>1. Goto(m, "idle") /\ pc[m] = "addNop" /\ UNCHANGED <<bgr, doingOff, shards, late, compEn>>
    BY <1>19 DEF AssignPreloaded, MigEnd
  <2> QED BY <1>5, <2>1
<1>20. CASE OffloadDone(m) \/ OffloadGiveUp(m) \/ dropDBPTInfo(m)
  <2>1. /\ pc[m] \in {"wait", "dropping"} /\ UNCHANGED <<bgr, doingOff, shards, late, compEn>>
        /\ \E l \in {"idle", "close"} : Goto(m, l)
    BY <1>20 DEF OffloadDone, OffloadGiveUp, dropDBPTInfo, MigEnd
  <2> QED BY <1>5, <2>1
<1>21. CASE closeDBPt(m) \/ closeDBPtErr(m)
  <2>1. /\ pc[m] \in {"close", "rbclose"} /\ UNCHANGED <<bgr, doingOff, shards, late>>
        /\ compEn' \subseteq compEn /\ \E l \in {"idle", "dropping"} : Goto(m, l)
    BY <1>21 DEF closeDBPt, closeDBPtErr, MigEnd, disableShardsBgr
  <2> QED BY <1>5, <2>1
<1> QED BY <1>6, <1>7, <1>8, <1>9, <1>10, <1>11, <1>12, <1>13, <1>14, <1>15, <1>16, <1>17, <1>18,
        <1>19, <1>20, <1>21 DEF MigStep

\* DeleteDatabase only takes shards away
LEMMA QuietDrop ==
    ASSUME Inv, QuietInv, DropNext \/ OtherLock \/ OtherAdd
    PROVE  QuietInv'
<1> USE DEF ptVars, bgVars, shardMap, lockVars
<1>1. /\ UNCHANGED <<bgr, doingOff, compEn, late>> /\ shards' \subseteq shards
      /\ pc' = pc \/ \E l : Goto(Dropper, l)
  BY DEF DropNext, DropUnloaded, DropBegin, markOffload, DropDone, DropTimeout,
      deleteShardsAndIndexes, DropEnd, OtherLock, OtherAdd
<1>2. \A m \in Mig : pc'[m] = pc[m]
  BY <1>1, DistinctActors DEF Goto, Inv, TypeInv, Actor
<1> QED BY <1>1, <1>2, QuietFrame

\* From the end of PreOffload's loop to the rollback no shard that it found is compacted:
\* lazy opens by writes, shard moves, retried and failing migration requests and
\* DeleteDatabase do not enable one again.
THEOREM QuietAfterPreOffload ==
    ASSUME ~Parallel
    PROVE  Spec => []OldShardsQuiet
<1>1. Init => QuietInv BY DEF Init, QuietInv, Actor
<1>2. Inv /\ MoveExcludesOffload /\ QuietInv /\ [Next]_vars => QuietInv'
  <2> SUFFICES ASSUME Inv, MoveExcludesOffload, QuietInv, [Next]_vars PROVE QuietInv'
    OBVIOUS
  <2>1. CASE UNCHANGED vars
    BY <2>1, QuietFrame DEF vars, bgVars, shardMap
  <2> QED BY <2>1, QuietUser, QuietMig, QuietDrop DEF Next, UserNext, MigNext
<1>3. QuietInv => OldShardsQuiet BY DEF QuietInv, OldShardsQuiet, Compacting
<1> QED BY <1>1, <1>2, <1>3, Invariance, MoveOrOffload, PTL DEF Spec

=============================================================================
