------------------------- MODULE PtMigrationProofs -------------------------
(***************************************************************************)
(* Proofs about the migration of partitions (module PtMigration): for any  *)
(* number of nodes, partitions and events, and any crashes, flaps, moves,  *)
(* lost answers and changes of the leader.                                 *)
(***************************************************************************)
EXTENDS PtMigration, FiniteSetTheorems, SequenceTheorems, TLAPS

Facts == INSTANCE SequenceFacts

-----------------------------------------------------------------------------
(* The types of the state, what a request under way refers to.             *)

States == AssignStates \cup MoveStates
SendStates == {"StartAssign", "Assign", "PreOffload", "PreAssign", "Offload", "RollbackPreOffload"}
Event == [type : {"assign", "move"}, pt : Pt, info : PtInfo, alias : BOOLEAN, src : Node \cup {0},
          dst : Node, conn : Nat, op : Nat, cur : States, pre : States, persist : BOOLEAN,
          rec : BOOLEAN, processed : BOOLEAN, err : BOOLEAN, ph : {"run", "sent", "del"}]
Entry == [type : {"assign", "move"}, src : Node \cup {0}, dst : Node, op : Nat, cur : States,
          info : PtInfo]
Task == [pt : Pt, info : PtInfo, alias : BOOLEAN, retry : BOOLEAN]
SerfEvent == [up : BOOLEAN, lt : Nat, applied : BOOLEAN]
Req == [op : {"none"} \cup States, ver : Nat, caller : EventId \cup {0}]
DataNode == [status : {"alive", "failed"}, lt : Nat, connID : Nat, aliveConn : Nat]

\* An event is in a state of its type, and waits for a store only in a state that
\* has a request.
Good(e) ==
    /\ IF e.type = "assign" THEN e.cur \in AssignStates /\ e.pre \in AssignStates
       ELSE e.cur \in MoveStates /\ e.pre \in MoveStates /\ e.src \in Node
    /\ e.ph = "sent" => e.cur \in SendStates

GoodEntry(m) == m.type = "move" => m.src \in Node

TypeMeta ==
    /\ ptView \in [Pt -> PtInfo] /\ node \in [Node -> DataNode]
    /\ DOMAIN mevents \subseteq Pt /\ mevents \in [DOMAIN mevents -> Entry]
    /\ \A p \in DOMAIN mevents : GoodEntry(mevents[p])
TypeEvents ==
    /\ DOMAIN ev \subseteq EventId /\ ev \in [DOMAIN ev -> Event]
    /\ \A i \in DOMAIN ev : Good(ev[i])
    /\ eventMap \in [Pt -> EventId \cup {0}] /\ tasks \in SUBSET Task
TypeCluster ==
    /\ members \in SUBSET Node /\ takeover \in SUBSET Node
    /\ serf \in [Node -> Seq(SerfEvent)] /\ gossip \in [Node -> [up : BOOLEAN, lt : Nat]]
TypeStore ==
    /\ proc \in [Node -> [up : BOOLEAN, conn : Nat]]
    /\ part \in [Node -> [Pt -> {"none", "pre", "up"}]]
    /\ exec \in [Node -> [Pt -> Req]]
    /\ \A n \in Node, pt \in Pt : part[n][pt] # "none" \/ exec[n][pt] # NoReq => proc[n].up

\* Whoever waits for the answer of a request is an event that is still in the
\* state in which it was sent, to this store and about this partition.
Caller(c, n, pt, events) ==
    c # 0 => /\ c \in DOMAIN events /\ events[c].ph = "sent" /\ events[c].pt = pt
             /\ Target(events[c]) = n
ExecInv == \A n \in Node, pt \in Pt : Caller(exec[n][pt].caller, n, pt, ev)

TypeInv == TypeMeta /\ TypeEvents /\ TypeCluster /\ TypeStore /\ ExecInv

-----------------------------------------------------------------------------
(* Operators.                                                              *)

\* Names of events are positive numbers, 0 is none.
LEMMA IdFacts == \A i \in EventId : i \in Nat /\ i # 0
BY ConstantsAssumption

\* The least positive number outside a finite set of numbers exists.
LEMMA FreshNumber ==
    ASSUME NEW U \in SUBSET Nat, IsFiniteSet(U)
    PROVE  \E k \in 1..(Cardinality(U) + 1) : k \notin U /\ \A j \in 1..(k - 1) : j \in U
<1> DEFINE c == Cardinality(U)
           S == (1..(c + 1)) \ U
<1>1. c \in Nat
  BY FS_CardinalityType
<1>2. S # {}
  <2> SUFFICES ASSUME 1..(c + 1) \subseteq U PROVE FALSE
    OBVIOUS
  <2>1. Cardinality(1..(c + 1)) <= c
    BY FS_Subset
  <2>2. Cardinality(1..(c + 1)) = c + 1
    BY <1>1, FS_Interval
  <2> QED BY <1>1, <2>1, <2>2
<1>3. S \in SUBSET Nat
  BY <1>1
<1> HIDE DEF c
<1>4. PICK k \in S : \A y \in S : k <= y
  BY <1>2, <1>3, Facts!LeastNat
<1>5. \A j \in 1..(k - 1) : j \in U
  BY <1>1, <1>4
<1> QED BY <1>4, <1>5 DEF c

\* A new operation id is a positive number that nobody uses.
LEMMA NewOpFacts ==
    ASSUME TypeMeta, TypeEvents
    PROVE  NewOp \in Nat \ {0} /\ NewOp \notin UsedOps
<1> DEFINE A == {ev[i].op : i \in DOMAIN ev}
           B == {mevents[p].op : p \in DOMAIN mevents}
           f == [i \in DOMAIN ev |-> ev[i].op]
           g == [p \in DOMAIN mevents |-> mevents[p].op]
<1>1. IsFiniteSet(DOMAIN ev) /\ IsFiniteSet(DOMAIN mevents)
  BY ConstantsAssumption, FS_Subset DEF TypeMeta, TypeEvents
<1>2. A \in SUBSET Nat /\ B \in SUBSET Nat
  <2>1. \A i \in DOMAIN ev : ev[i].op \in Nat
    BY DEF TypeEvents, Event
  <2>2. \A p \in DOMAIN mevents : mevents[p].op \in Nat
    BY DEF TypeMeta, Entry
  <2> QED BY <2>1, <2>2
<1>3. f \in Surjection(DOMAIN ev, A) /\ g \in Surjection(DOMAIN mevents, B)
  BY DEF Surjection
<1>4. IsFiniteSet(A) /\ IsFiniteSet(B)
  <2> HIDE DEF A, B, f, g
  <2> QED BY <1>1, <1>3, FS_Surjection
<1>5. UsedOps = A \cup B
  BY DEF UsedOps
<1>6. IsFiniteSet(UsedOps) /\ UsedOps \in SUBSET Nat
  <2> HIDE DEF A, B
  <2> QED BY <1>2, <1>4, <1>5, FS_Union
<1>7. \E k \in 1..(Cardinality(UsedOps) + 1) : k \notin UsedOps /\ \A j \in 1..(k - 1) : j \in UsedOps
  BY <1>6, FreshNumber
<1>8. /\ NewOp \in 1..(Cardinality(UsedOps) + 1) /\ NewOp \notin UsedOps
  BY <1>7 DEF NewOp
<1>9. Cardinality(UsedOps) \in Nat
  BY <1>6, FS_CardinalityType
<1> QED BY <1>8, <1>9

\* A new event gets a name that no event has.
LEMMA NewIdFacts ==
    ASSUME FreeIds # {}
    PROVE  NewId \in EventId /\ NewId \notin DOMAIN ev
BY DEF FreeIds, NewId

\* The identity of an event: what no handler changes.
Same(e, f) ==
    /\ f.pt = e.pt /\ f.type = e.type /\ f.src = e.src /\ f.dst = e.dst /\ f.alias = e.alias
    /\ f.rec = e.rec /\ (e.processed => f.processed)

\* stateTransition stays among the states of the type of the event.
LEMMA stateTransitionFacts ==
    ASSUME NEW e \in Event, Good(e), e.cur \in SendStates \cup {"Offloaded"}, NEW ok \in BOOLEAN
    PROVE  LET f == stateTransition(e, ok) IN
           /\ f \in Event /\ Good(f) /\ Same(e, f) /\ f.ph = "run" /\ f.info = e.info
           /\ f.op = e.op /\ f.cur = NextState(e.cur, ok) /\ f.pre = e.cur
<1> DEFINE s == NextState(e.cur, ok)
           b == e.err \/ s = "AssignFailed"
           f == [e EXCEPT !.cur = s, !.pre = e.cur, !.persist = TRUE, !.err = b, !.ph = "run"]
<1>1. s \in States /\ IF e.type = "assign" THEN s \in AssignStates ELSE s \in MoveStates
  BY DEF NextState, States, SendStates, AssignStates, MoveStates, Good
<1>2. b \in BOOLEAN
  BY DEF Event
<1>3. stateTransition(e, ok) = f
  BY DEF stateTransition
<1> HIDE DEF s, b
<1>4. f \in Event /\ f.pt = e.pt /\ f.type = e.type /\ f.src = e.src /\ f.dst = e.dst /\ f.alias = e.alias
      /\ f.rec = e.rec /\ f.processed = e.processed /\ f.ph = "run" /\ f.info = e.info /\ f.op = e.op
      /\ f.cur = s /\ f.pre = e.cur
  BY <1>1, <1>2 DEF Event
<1> HIDE DEF f
<1>5. Good(f)
  BY <1>1, <1>4 DEF Good
<1> QED BY <1>3, <1>4, <1>5 DEF Same, s

\* What an answer makes of the event that waits for it: it goes on waiting, or moves
\* on, to Assigned only after a request to assign.
Answers(e, f) ==
    /\ f \in Event /\ Good(f) /\ Same(e, f) /\ f.info = e.info /\ f.op = e.op
    /\ \/ f.ph = "sent" /\ f.cur = e.cur
       \/ /\ f.ph = "run" /\ f.cur \notin {"Init", "StartAssign", "Assign"}
          /\ f.cur = "Assigned" => e.cur \in {"StartAssign", "Assign"}
          /\ e.cur = "Assign" => f.cur \in {"Assigned", "AssignFailed"}

\* handleCmdResult meets only events that wait for an answer.
LEMMA handleCmdResultFacts ==
    ASSUME NEW e \in Event, Good(e), e.ph = "sent", NEW result
    PROVE  Answers(e, handleCmdResult(e, result))
<1> DEFINE r == IF result # "ok" /\ Target(e) \notin members THEN "dead" ELSE result
           f == handleCmdResult(e, result)
<1>1. e.cur \in SendStates
  BY DEF Good
<1>2. CASE r = "retry"
  <2>1. f = [e EXCEPT !.ph = "sent"]
    BY <1>2 DEF handleCmdResult
  <2>2. [e EXCEPT !.ph = "sent"] = e
    BY DEF Event
  <2>3. Good(e) /\ Same(e, e)
    BY DEF Same
  <2> QED BY <2>1, <2>2, <2>3 DEF Answers
<1>3. CASE r # "retry"
  <2>1. PICK ok \in BOOLEAN : ok = (r = "ok")
    OBVIOUS
  <2>2. f = stateTransition(e, ok)
    BY <1>3, <2>1 DEF handleCmdResult
  <2>3. /\ f \in Event /\ Good(f) /\ Same(e, f) /\ f.ph = "run" /\ f.info = e.info
        /\ f.op = e.op /\ f.cur = NextState(e.cur, ok)
    BY <1>1, <2>2, stateTransitionFacts
  <2>4. /\ f.cur \notin {"Init", "StartAssign", "Assign"}
        /\ f.cur = "Assigned" => e.cur \in {"StartAssign", "Assign"}
        /\ e.cur = "Assign" => f.cur \in {"Assigned", "AssignFailed"}
    BY <1>1, <2>3 DEF NextState, SendStates
  <2> QED BY <2>3, <2>4 DEF Answers
<1> QED BY <1>2, <1>3

\* A handler of processEvent changes its event, and eventMap when it leaves.
HandlerStep(i, f) ==
    /\ i \in DOMAIN ev /\ ev[i].ph = "run"
    /\ f \in Event /\ Good(f) /\ Same(ev[i], f)
    /\ ev' = [ev EXCEPT ![i] = f]
    /\ eventMap' = IF f.ph = "del" /\ eventMap[f.pt] = i THEN [eventMap EXCEPT ![f.pt] = 0] ELSE eventMap

\* An answer changes its event only, and the request it belongs to is over.
AnswerStep(i, f) ==
    /\ i \in DOMAIN ev /\ ev[i].ph = "sent" /\ Answers(ev[i], f)
    /\ ev' = [ev EXCEPT ![i] = f] /\ eventMap' = eventMap

\* A handler works on an event that waits for no store, so no request loses its caller.
LEMMA HandlerTypes ==
    ASSUME TypeInv, NEW i, NEW f, HandlerStep(i, f), tasks' = tasks, exec' = exec
    PROVE  TypeEvents' /\ ExecInv'
<1>1. /\ DOMAIN ev \subseteq EventId /\ ev \in [DOMAIN ev -> Event] /\ \A j \in DOMAIN ev : Good(ev[j])
      /\ eventMap \in [Pt -> EventId \cup {0}] /\ tasks \in SUBSET Task
  BY DEF TypeInv, TypeEvents
<1>2. i \in DOMAIN ev /\ ev[i].ph = "run" /\ f \in Event /\ Good(f) /\ ev' = [ev EXCEPT ![i] = f] /\ f.pt \in Pt
  BY DEF HandlerStep, Event
<1>3. DOMAIN ev' = DOMAIN ev /\ \A j \in DOMAIN ev : ev'[j] = IF j = i THEN f ELSE ev[j]
  BY <1>1, <1>2
<1>4. ev' \in [DOMAIN ev' -> Event] /\ \A j \in DOMAIN ev' : Good(ev'[j])
  BY <1>1, <1>2, <1>3
<1>5. eventMap' \in [Pt -> EventId \cup {0}]
  <2>1. [eventMap EXCEPT ![f.pt] = 0] \in [Pt -> EventId \cup {0}]
    BY <1>1, <1>2
  <2> QED BY <1>1, <2>1 DEF HandlerStep
<1>6. TypeEvents'
  BY <1>1, <1>3, <1>4, <1>5 DEF TypeEvents
<1>7. ASSUME NEW n \in Node, NEW pt \in Pt PROVE Caller(exec[n][pt].caller, n, pt, ev')
  <2>1. Caller(exec[n][pt].caller, n, pt, ev)
    BY DEF TypeInv, ExecInv
  <2> QED BY <1>2, <1>3, <2>1 DEF Caller
<1> QED BY <1>6, <1>7 DEF ExecInv

\* The exec of an answer: nobody waits for a request as i any more, except the
\* request the answer says is not over.
LEMMA AnswerTypes ==
    ASSUME TypeInv, NEW i, NEW f, AnswerStep(i, f), tasks' = tasks,
           \A n \in Node, pt \in Pt : exec'[n][pt].caller \in {0, exec[n][pt].caller} \ {i}
    PROVE  TypeEvents' /\ ExecInv'
<1>1. /\ DOMAIN ev \subseteq EventId /\ ev \in [DOMAIN ev -> Event] /\ \A j \in DOMAIN ev : Good(ev[j])
      /\ eventMap \in [Pt -> EventId \cup {0}] /\ tasks \in SUBSET Task
  BY DEF TypeInv, TypeEvents
<1>2. i \in DOMAIN ev /\ f \in Event /\ Good(f) /\ ev' = [ev EXCEPT ![i] = f]
  BY DEF AnswerStep, Answers
<1>3. DOMAIN ev' = DOMAIN ev /\ \A j \in DOMAIN ev : ev'[j] = IF j = i THEN f ELSE ev[j]
  BY <1>1, <1>2
<1>4. ev' \in [DOMAIN ev' -> Event] /\ \A j \in DOMAIN ev' : Good(ev'[j])
  BY <1>1, <1>2, <1>3
<1>5. TypeEvents'
  BY <1>1, <1>3, <1>4 DEF TypeEvents, AnswerStep
<1>6. ASSUME NEW n \in Node, NEW pt \in Pt PROVE Caller(exec'[n][pt].caller, n, pt, ev')
  <2>1. Caller(exec[n][pt].caller, n, pt, ev)
    BY DEF TypeInv, ExecInv
  <2>2. PICK c, d : c = exec[n][pt].caller /\ d = exec'[n][pt].caller /\ (d = 0 \/ d = c) /\ d # i
    OBVIOUS
  <2>3. Caller(c, n, pt, ev)
    BY <2>1, <2>2
  <2>4. Caller(d, n, pt, ev')
    BY <1>3, <2>2, <2>3 DEF Caller
  <2> QED BY <2>2, <2>4
<1> QED BY <1>5, <1>6 DEF ExecInv

-----------------------------------------------------------------------------
(* The handlers of processEvent, one lemma each: what becomes of the event *)
(* and of the metadata.                                                    *)

\* What the type invariant says of one event.
LEMMA EventFacts ==
    ASSUME TypeInv, NEW i \in DOMAIN ev
    PROVE  /\ i \in EventId /\ ev[i] \in Event /\ Good(ev[i]) /\ ev[i].pt \in Pt /\ ev[i].info \in PtInfo
           /\ ev[i].dst \in Node /\ Info(ev[i]) \in PtInfo /\ ptView[ev[i].pt] \in PtInfo
<1>1. i \in EventId /\ ev[i] \in Event /\ Good(ev[i])
  BY DEF TypeInv, TypeEvents
<1>2. ev[i].pt \in Pt /\ ev[i].info \in PtInfo /\ ev[i].dst \in Node
  BY <1>1 DEF Event
<1>3. ptView[ev[i].pt] \in PtInfo
  BY <1>2 DEF TypeInv, TypeMeta
<1> QED BY <1>1, <1>2, <1>3 DEF Info

\* Leave ends the work on an event, whose other fields may have been refreshed.
LEMMA LeaveFacts ==
    ASSUME TypeInv, NEW i \in DOMAIN ev, ev[i].ph = "run", NEW e \in Event, Good(e), Same(ev[i], e),
           NEW b \in BOOLEAN, Leave(i, e, b)
    PROVE  \E f : HandlerStep(i, f) /\ f.ph = "del"
<1>1. PICK x \in BOOLEAN : x = (e.err \/ b)
  BY DEF Event
<1>2. PICK f : f = [e EXCEPT !.ph = "del", !.err = x]
  OBVIOUS
<1>3. ev' = [ev EXCEPT ![i] = f]
  BY <1>1, <1>2 DEF Leave
<1>4. /\ f \in Event /\ f.ph = "del" /\ f.cur = e.cur /\ f.pre = e.pre /\ f.type = e.type /\ f.src = e.src
      /\ f.pt = e.pt /\ f.dst = e.dst /\ f.alias = e.alias /\ f.rec = e.rec /\ f.processed = e.processed
  BY <1>2 DEF Event
<1>5. Good(f) /\ Same(ev[i], f)
  BY <1>4 DEF Good, Same
<1>6. eventMap' = IF f.ph = "del" /\ eventMap[f.pt] = i THEN [eventMap EXCEPT ![f.pt] = 0] ELSE eventMap
  BY <1>4 DEF Leave
<1> QED BY <1>3, <1>4, <1>5, <1>6 DEF HandlerStep

\* The event goes on, or its request is sent.
LEMMA KeepFacts ==
    ASSUME TypeInv, NEW i \in DOMAIN ev, ev[i].ph = "run", NEW f \in Event, Good(f), Same(ev[i], f),
           f.ph # "del", ev' = [ev EXCEPT ![i] = f], eventMap' = eventMap
    PROVE  HandlerStep(i, f)
BY DEF HandlerStep

\* storeTransitionState: the state of the entry is set, or the event gives up.
LEMMA storeTransitionStateFacts ==
    ASSUME TypeInv, NEW i \in EventId, storeTransitionState(i)
    PROVE  /\ \E f : /\ HandlerStep(i, f)
                     /\ \/ f.ph = "del"
                        \/ f.ph = "run" /\ f.cur = ev[i].cur /\ f.info = ev[i].info /\ f.op = ev[i].op
           /\ \/ mevents' = mevents
              \/ ev[i].pt \in DOMAIN mevents /\ mevents' = [mevents EXCEPT ![ev[i].pt].cur = ev[i].cur]
           /\ UNCHANGED <<ptView, node, tasks, exec>>
<1>1. i \in DOMAIN ev /\ ev[i].ph = "run" /\ UNCHANGED <<ptView, node, tasks, exec>>
  BY DEF storeTransitionState, Running, restUnchanged, storeVars
<1>2. PICK e : e = ev[i]
  OBVIOUS
<1>3. e \in Event /\ Good(e)
  BY <1>1, <1>2, EventFacts
<1>4. CASE e.pt \in DOMAIN mevents /\ mevents[e.pt].op = e.op
  <2>1. PICK f : f = [e EXCEPT !.persist = FALSE]
    OBVIOUS
  <2>2. /\ f \in Event /\ f.cur = e.cur /\ f.pre = e.pre /\ f.ph = e.ph /\ f.info = e.info /\ f.op = e.op
        /\ f.pt = e.pt /\ f.type = e.type /\ f.src = e.src /\ f.dst = e.dst /\ f.alias = e.alias
        /\ f.rec = e.rec /\ f.processed = e.processed
    BY <1>3, <2>1 DEF Event
  <2>3. Good(f) /\ Same(e, f)
    BY <1>3, <2>2 DEF Good, Same
  <2>4. ev' = [ev EXCEPT ![i] = f] /\ eventMap' = eventMap /\ mevents' = [mevents EXCEPT ![e.pt].cur = e.cur]
    BY <1>2, <1>4, <2>1 DEF storeTransitionState, Goon
  <2>5. HandlerStep(i, f)
    BY <1>1, <1>2, <2>2, <2>3, <2>4, KeepFacts
  <2> QED BY <1>1, <1>2, <1>4, <2>2, <2>4, <2>5
<1>5. CASE ~(e.pt \in DOMAIN mevents /\ mevents[e.pt].op = e.op)
  <2>1. PICK f : f = [e EXCEPT !.cur = e.pre, !.persist = FALSE]
    OBVIOUS
  <2>2. /\ f \in Event /\ f.cur = e.pre /\ f.pre = e.pre /\ f.ph = e.ph
        /\ f.pt = e.pt /\ f.type = e.type /\ f.src = e.src /\ f.dst = e.dst /\ f.alias = e.alias
        /\ f.rec = e.rec /\ f.processed = e.processed
    BY <1>3, <2>1 DEF Event
  <2>3. Good(f) /\ Same(e, f)
    BY <1>1, <1>2, <1>3, <2>2 DEF Good, Same
  <2>4. Leave(i, f, TRUE) /\ mevents' = mevents
    BY <1>2, <1>5, <2>1 DEF storeTransitionState
  <2> QED BY <1>1, <1>2, <2>2, <2>3, <2>4, LeaveFacts
<1> QED BY <1>4, <1>5

\* createMigrateEvent: the entry is the old one of the same event, or a new one.
LEMMA createMigrateEventFacts ==
    ASSUME TypeInv, NEW i \in EventId, createMigrateEvent(i)
    PROVE  /\ \/ /\ \E f : HandlerStep(i, f) /\ f.ph = "del"
                 /\ mevents' = mevents
              \/ /\ \E f : /\ HandlerStep(i, f) /\ f.ph = "run" /\ f.cur = "Init" /\ f.info = ev[i].info
                           /\ f.processed
                 /\ \/ mevents' = mevents /\ ev[i].pt \in DOMAIN mevents /\ mevents[ev[i].pt].dst = ev[i].dst
                    \/ \E m \in Entry : /\ GoodEntry(m) /\ m.dst = ev[i].dst /\ m.src = ev[i].src /\ m.type = ev[i].type
                                        /\ m.info = Info(ev[i]) /\ ev[i].pt \notin DOMAIN mevents
                                        /\ mevents' = Put(mevents, ev[i].pt, m)
           /\ UNCHANGED <<ptView, node, tasks, exec>> /\ ev[i].cur = "Init"
<1>1. i \in DOMAIN ev /\ ev[i].ph = "run" /\ UNCHANGED <<ptView, node, tasks, exec>> /\ ev[i].cur = "Init"
  BY DEF createMigrateEvent, At, Running, restUnchanged, storeVars
<1>2. PICK e : e = ev[i]
  OBVIOUS
<1>3. e \in Event /\ Good(e) /\ Info(e) \in PtInfo
  BY <1>1, <1>2, EventFacts
<1>4. Same(e, e)
  BY DEF Same
<1>5. CASE EventExists(e)
  <2>1. Leave(i, e, TRUE) /\ mevents' = mevents
    BY <1>2, <1>5 DEF createMigrateEvent
  <2> QED BY <1>1, <1>2, <1>3, <1>4, <2>1, LeaveFacts
<1>6. CASE ~EventExists(e)
  <2>1. PICK k : k = OpAfterCreate(e)
    OBVIOUS
  <2>2. k \in Nat /\ NewOp \in Nat
    <3>1. NewOp \in Nat
      BY NewOpFacts DEF TypeInv
    <3>2. e.pt \in DOMAIN mevents => mevents[e.pt].op \in Nat
      BY DEF TypeInv, TypeMeta, Entry
    <3> QED BY <2>1, <3>1, <3>2 DEF OpAfterCreate
  <2>3. PICK f : f = [e EXCEPT !.op = k, !.processed = TRUE]
    OBVIOUS
  <2>4. /\ f \in Event /\ f.cur = e.cur /\ f.pre = e.pre /\ f.ph = e.ph /\ f.info = e.info
        /\ f.pt = e.pt /\ f.type = e.type /\ f.src = e.src /\ f.dst = e.dst /\ f.alias = e.alias
        /\ f.rec = e.rec /\ f.processed
    BY <1>3, <2>2, <2>3 DEF Event
  <2>5. Good(f) /\ Same(e, f)
    BY <1>3, <2>4 DEF Good, Same
  <2>6. ev' = [ev EXCEPT ![i] = f] /\ eventMap' = eventMap /\ CreateMigrateEvent(e)
    BY <1>2, <1>6, <2>1, <2>3 DEF createMigrateEvent, Goon
  <2>7. HandlerStep(i, f) /\ f.ph = "run" /\ f.cur = "Init"
    BY <1>1, <1>2, <2>4, <2>5, <2>6, KeepFacts
  <2>8. CASE e.pt \in DOMAIN mevents
    BY <1>1, <1>2, <1>6, <2>4, <2>6, <2>7, <2>8 DEF CreateMigrateEvent, EventExists
  <2>9. CASE e.pt \notin DOMAIN mevents
    <3>1. PICK m : m = [type |-> e.type, src |-> e.src, dst |-> e.dst, op |-> NewOp, cur |-> "Init", info |-> Info(e)]
      OBVIOUS
    <3>2. "Init" \in States
      BY DEF States, AssignStates
    <3>3. m \in Entry /\ m.dst = e.dst /\ m.type = e.type /\ m.src = e.src /\ m.info = Info(e)
      BY <1>3, <2>2, <3>1, <3>2 DEF Event, Entry
    <3>4. GoodEntry(m)
      BY <1>3, <3>3 DEF GoodEntry, Good
    <3>5. mevents' = Put(mevents, e.pt, m)
      BY <2>6, <2>9, <3>1 DEF CreateMigrateEvent
    <3> QED BY <1>1, <1>2, <2>4, <2>7, <2>9, <3>3, <3>4, <3>5
  <2> QED BY <2>8, <2>9
<1> QED BY <1>5, <1>6

\* initHandler: an assignment goes on to StartAssign.
LEMMA initHandlerFacts ==
    ASSUME TypeInv, NEW i \in EventId, initHandler(i)
    PROVE  /\ \E f : HandlerStep(i, f) /\ f.ph = "run" /\ f.cur = "StartAssign" /\ f.info = ev[i].info
           /\ UNCHANGED <<ptView, node, mevents, tasks, exec>>
           /\ ev[i].cur = "Init" /\ ev[i].op # 0 /\ ev[i].type = "assign"
<1>1. /\ i \in DOMAIN ev /\ ev[i].ph = "run" /\ UNCHANGED <<ptView, node, mevents, tasks, exec>>
      /\ ev[i].cur = "Init" /\ ev[i].op # 0 /\ ev[i].type = "assign"
  BY DEF initHandler, At, Running, restUnchanged, storeVars, metaVars
<1>2. PICK e : e = ev[i]
  OBVIOUS
<1>3. e \in Event /\ Good(e)
  BY <1>1, <1>2, EventFacts
<1>4. PICK f : f = [e EXCEPT !.cur = "StartAssign"]
  OBVIOUS
<1>5. "StartAssign" \in States /\ "StartAssign" \in AssignStates
  BY DEF States, AssignStates
<1>6. /\ f \in Event /\ f.cur = "StartAssign" /\ f.pre = e.pre /\ f.ph = e.ph /\ f.info = e.info
      /\ f.pt = e.pt /\ f.type = e.type /\ f.src = e.src /\ f.dst = e.dst /\ f.alias = e.alias
      /\ f.rec = e.rec /\ f.processed = e.processed
  BY <1>3, <1>4, <1>5 DEF Event
<1>7. Good(f) /\ Same(e, f)
  BY <1>1, <1>2, <1>3, <1>5, <1>6 DEF Good, Same
<1>8. ev' = [ev EXCEPT ![i] = f] /\ eventMap' = eventMap
  BY <1>2, <1>4 DEF initHandler, Goon
<1> QED BY <1>1, <1>2, <1>6, <1>7, <1>8, KeepFacts

\* moveInitHandler: a move raises the version and goes on to PreOffload.
LEMMA moveInitHandlerFacts ==
    ASSUME TypeInv, NEW i \in EventId, moveInitHandler(i)
    PROVE  /\ \E f : /\ HandlerStep(i, f) /\ f.ph = "run" /\ f.cur = "PreOffload"
                     /\ f.info.owner = ev[i].info.owner
           /\ \E v \in Nat : ptView' = [ptView EXCEPT ![ev[i].pt].ver = v]
           /\ UNCHANGED <<node, mevents, tasks, exec>>
           /\ ev[i].cur = "Init" /\ ev[i].op # 0 /\ ev[i].type = "move" /\ ev[i].pt \in Pt
<1>1. /\ i \in DOMAIN ev /\ ev[i].ph = "run" /\ UNCHANGED <<node, mevents, tasks, exec>>
      /\ ev[i].cur = "Init" /\ ev[i].op # 0 /\ ev[i].type = "move"
  BY DEF moveInitHandler, At, Running, restUnchanged, storeVars
<1>2. PICK e, v : e = ev[i] /\ v = NextVer(e.pt)
  OBVIOUS
<1>3. e \in Event /\ Good(e) /\ e.pt \in Pt /\ ptView[e.pt] \in PtInfo /\ e.info \in PtInfo
  BY <1>1, <1>2, EventFacts
<1>4. v \in Nat
  BY <1>2, <1>3 DEF NextVer, PtInfo
<1>5. PICK q : q = [e.info EXCEPT !.ver = v]
  OBVIOUS
<1>6. q \in PtInfo /\ q.owner = e.info.owner
  BY <1>3, <1>4, <1>5 DEF PtInfo
<1>7. PICK f : f = [e EXCEPT !.cur = "PreOffload", !.info = q]
  OBVIOUS
<1>8. f = [e EXCEPT !.cur = "PreOffload", !.info.ver = v]
  BY <1>3, <1>5, <1>7 DEF Event
<1>9. "PreOffload" \in States /\ "PreOffload" \in MoveStates
  BY DEF States, MoveStates
<1>10. /\ f \in Event /\ f.cur = "PreOffload" /\ f.pre = e.pre /\ f.ph = e.ph /\ f.info = q
       /\ f.pt = e.pt /\ f.type = e.type /\ f.src = e.src /\ f.dst = e.dst /\ f.alias = e.alias
       /\ f.rec = e.rec /\ f.processed = e.processed
  BY <1>3, <1>6, <1>7, <1>9 DEF Event
<1>11. Good(f) /\ Same(e, f)
  BY <1>1, <1>2, <1>3, <1>9, <1>10 DEF Good, Same
<1>12. ev' = [ev EXCEPT ![i] = f] /\ eventMap' = eventMap /\ ptView' = [ptView EXCEPT ![e.pt].ver = v]
  BY <1>2, <1>8 DEF moveInitHandler, Goon
<1>13. HandlerStep(i, f)
  BY <1>1, <1>2, <1>10, <1>11, <1>12, KeepFacts
<1> QED BY <1>1, <1>2, <1>3, <1>4, <1>6, <1>10, <1>12, <1>13

\* UpdatePtInfo leaves the entry alone or gives it the owner and the status.
LEMMA UpdatePtInfoFacts ==
    ASSUME TypeInv, NEW e \in Event, NEW o \in Node, NEW s \in Status, UpdatePtInfo(e, o, s)
    PROVE  /\ ptView' \in [Pt -> PtInfo]
           /\ \A p \in Pt : p # e.pt => ptView'[p] = ptView[p]
           /\ \/ ptView' = ptView
              \/ /\ ptView'[e.pt].owner = o /\ ptView'[e.pt].status = s /\ ~PtChanged(e)
                 /\ ~OnlineRefused(o, s) \/ e.alias
<1>1. e.pt \in Pt /\ ptView \in [Pt -> PtInfo] /\ ptView[e.pt] \in PtInfo
  BY DEF Event, TypeInv, TypeMeta
<1>2. PICK q, p : q = [ptView[e.pt] EXCEPT !.owner = o, !.status = s] /\ p = e.pt
  OBVIOUS
<1>3. q \in PtInfo /\ q.owner = o /\ q.status = s
  BY <1>1, <1>2 DEF PtInfo
<1>4. CASE ptView' = [ptView EXCEPT ![e.pt].owner = o, ![e.pt].status = s] /\ ~PtChanged(e) /\ (~OnlineRefused(o, s) \/ e.alias)
  <2>1. ptView' = [ptView EXCEPT ![p] = q]
    BY <1>1, <1>2, <1>4
  <2> QED BY <1>1, <1>2, <1>3, <1>4, <2>1
<1>5. CASE ptView' = ptView
  BY <1>1, <1>5
<1> QED BY <1>4, <1>5 DEF UpdatePtInfo

\* refreshDbPt renews the copy of PtInfo only.
LEMMA refreshDbPtFacts ==
    ASSUME TypeInv, NEW e \in Event, Good(e)
    PROVE  refreshDbPt(e) \in Event /\ Good(refreshDbPt(e)) /\ Same(e, refreshDbPt(e))
<1>1. e.info \in PtInfo /\ ptView[e.pt] \in PtInfo
  BY DEF Event, TypeInv, TypeMeta
<1>2. PICK o, s : o = ptView[e.pt].owner /\ s = ptView[e.pt].status
  OBVIOUS
<1>3. PICK q : q = [e.info EXCEPT !.owner = o, !.status = s]
  OBVIOUS
<1>4. q \in PtInfo
  BY <1>1, <1>2, <1>3 DEF PtInfo
<1>5. PICK f : f = [e EXCEPT !.info = q]
  OBVIOUS
<1>6. refreshDbPt(e) = f
  BY <1>1, <1>2, <1>3, <1>5 DEF refreshDbPt, Event
<1>7. /\ f \in Event /\ f.cur = e.cur /\ f.pre = e.pre /\ f.ph = e.ph
      /\ f.pt = e.pt /\ f.type = e.type /\ f.src = e.src /\ f.dst = e.dst /\ f.alias = e.alias
      /\ f.rec = e.rec /\ f.processed = e.processed
  BY <1>4, <1>5 DEF Event
<1> QED BY <1>6, <1>7 DEF Good, Same

\* The PtInfo of an event gets an owner or a status.
LEMMA InfoFacts ==
    ASSUME NEW e \in Event, Good(e)
    PROVE  /\ \A o \in Node : LET f == [e EXCEPT !.info.owner = o] IN
                 /\ f \in Event /\ Good(f) /\ Same(e, f) /\ f.cur = e.cur /\ f.ph = e.ph /\ f.op = e.op
                 /\ f.info.owner = o /\ f.info.status = e.info.status
           /\ \A s \in Status : LET f == [e EXCEPT !.info.status = s] IN
                 /\ f \in Event /\ Good(f) /\ Same(e, f) /\ f.cur = e.cur /\ f.ph = e.ph /\ f.op = e.op
                 /\ f.info.owner = e.info.owner /\ f.info.status = s
<1>1. e.info \in PtInfo
  BY DEF Event
<1>2. ASSUME NEW q \in PtInfo
      PROVE  LET f == [e EXCEPT !.info = q] IN
             f \in Event /\ Good(f) /\ Same(e, f) /\ f.cur = e.cur /\ f.ph = e.ph /\ f.op = e.op /\ f.info = q
  <2>1. PICK f : f = [e EXCEPT !.info = q]
    OBVIOUS
  <2>2. /\ f \in Event /\ f.cur = e.cur /\ f.pre = e.pre /\ f.ph = e.ph /\ f.op = e.op /\ f.info = q
        /\ f.pt = e.pt /\ f.type = e.type /\ f.src = e.src /\ f.dst = e.dst /\ f.alias = e.alias
        /\ f.rec = e.rec /\ f.processed = e.processed
    BY <2>1 DEF Event
  <2>3. Good(f) /\ Same(e, f)
    BY <2>2 DEF Good, Same
  <2> QED BY <2>1, <2>2, <2>3
<1>3. ASSUME NEW o \in Node
      PROVE  LET f == [e EXCEPT !.info.owner = o] IN
             /\ f \in Event /\ Good(f) /\ Same(e, f) /\ f.cur = e.cur /\ f.ph = e.ph /\ f.op = e.op
             /\ f.info.owner = o /\ f.info.status = e.info.status
  <2>1. PICK q : q = [e.info EXCEPT !.owner = o]
    OBVIOUS
  <2>2. q \in PtInfo /\ q.owner = o /\ q.status = e.info.status
    BY <1>1, <2>1 DEF PtInfo
  <2>3. [e EXCEPT !.info.owner = o] = [e EXCEPT !.info = q]
    BY <2>1 DEF Event
  <2> QED BY <1>2, <2>2, <2>3
<1>4. ASSUME NEW s \in Status
      PROVE  LET f == [e EXCEPT !.info.status = s] IN
             /\ f \in Event /\ Good(f) /\ Same(e, f) /\ f.cur = e.cur /\ f.ph = e.ph /\ f.op = e.op
             /\ f.info.owner = e.info.owner /\ f.info.status = s
  <2>1. PICK q : q = [e.info EXCEPT !.status = s]
    OBVIOUS
  <2>2. q \in PtInfo /\ q.owner = e.info.owner /\ q.status = s
    BY <1>1, <2>1 DEF PtInfo
  <2>3. [e EXCEPT !.info.status = s] = [e EXCEPT !.info = q]
    BY <2>1 DEF Event
  <2> QED BY <1>2, <2>2, <2>3
<1> QED BY <1>3, <1>4

\* An event that sends its request is otherwise as it was.
LEMMA SentFacts ==
    ASSUME NEW e \in Event, Good(e), e.cur \in SendStates
    PROVE  LET f == [e EXCEPT !.ph = "sent"] IN
           /\ f \in Event /\ Good(f) /\ Same(e, f) /\ f.cur = e.cur /\ f.ph = "sent" /\ f.op = e.op
           /\ f.info = e.info
<1>1. PICK f : f = [e EXCEPT !.ph = "sent"]
  OBVIOUS
<1>2. /\ f \in Event /\ f.cur = e.cur /\ f.pre = e.pre /\ f.ph = "sent" /\ f.op = e.op /\ f.info = e.info
      /\ f.pt = e.pt /\ f.type = e.type /\ f.src = e.src /\ f.dst = e.dst /\ f.alias = e.alias
      /\ f.rec = e.rec /\ f.processed = e.processed
  BY <1>1 DEF Event
<1>3. Good(f) /\ Same(e, f)
  BY <1>2 DEF Good, Same
<1> QED BY <1>1, <1>2, <1>3

\* startAssignHandler and moveAssignHandler: the target becomes the owner, or the event gives up.
LEMMA startAssignHandlerFacts ==
    ASSUME TypeInv, NEW i \in EventId, startAssignHandler(i)
    PROVE  /\ i \in DOMAIN ev /\ ev[i].ph = "run" /\ ev[i].cur \in {"StartAssign", "Assign"}
           /\ \E f : /\ HandlerStep(i, f)
                     /\ \/ f.ph = "del"
                        \/ /\ f.ph = "sent" /\ f.cur = ev[i].cur /\ f.op = ev[i].op
                           /\ f.info.owner = ev[i].dst /\ f.info.status = ev[i].info.status
           /\ UpdatePtInfo(ev[i], ev[i].dst, Info(ev[i]).status)
           /\ UNCHANGED <<node, mevents, tasks, exec>>
<1>1. /\ i \in DOMAIN ev /\ ev[i].ph = "run" /\ UNCHANGED <<node, mevents, tasks, exec>>
      /\ ev[i].cur \in {"StartAssign", "Assign"} /\ UpdatePtInfo(ev[i], ev[i].dst, Info(ev[i]).status)
  BY DEF startAssignHandler, At, Running, restUnchanged, storeVars
<1>2. PICK e : e = ev[i]
  OBVIOUS
<1>3. e \in Event /\ Good(e) /\ e.dst \in Node
  BY <1>1, <1>2, EventFacts
<1>4. CASE PtChanged(e)
  <2>1. PICK g : g = refreshDbPt(e)
    OBVIOUS
  <2>2. g \in Event /\ Good(g) /\ Same(e, g)
    BY <1>3, <2>1, refreshDbPtFacts
  <2>3. Leave(i, g, TRUE)
    BY <1>2, <1>4, <2>1 DEF startAssignHandler
  <2> QED BY <1>1, <1>2, <2>2, <2>3, LeaveFacts
<1>5. CASE ~PtChanged(e)
  <2>1. PICK g : g = [e EXCEPT !.info.owner = e.dst]
    OBVIOUS
  <2>2. /\ g \in Event /\ Good(g) /\ Same(e, g) /\ g.cur = e.cur /\ g.ph = e.ph /\ g.op = e.op
        /\ g.info.owner = e.dst /\ g.info.status = e.info.status
    BY <1>3, <2>1, InfoFacts
  <2>3. PICK f : f = [g EXCEPT !.ph = "sent"]
    OBVIOUS
  <2>4. /\ f \in Event /\ Good(f) /\ Same(g, f) /\ f.cur = g.cur /\ f.ph = "sent" /\ f.op = g.op
        /\ f.info = g.info
    BY <1>1, <1>2, <2>2, <2>3, SentFacts DEF SendStates
  <2>5. Same(e, f)
    BY <2>2, <2>4 DEF Same
  <2>6. ev' = [ev EXCEPT ![i] = f] /\ eventMap' = eventMap
    BY <1>2, <1>5, <2>1, <2>3 DEF startAssignHandler, Send
  <2>7. HandlerStep(i, f)
    BY <1>1, <1>2, <2>4, <2>5, <2>6, KeepFacts
  <2> QED BY <1>1, <1>2, <2>2, <2>4, <2>7
<1> QED BY <1>4, <1>5

\* moveOffloadedHandler: the partition goes offline, or the event gives up.
LEMMA moveOffloadedHandlerFacts ==
    ASSUME TypeInv, NEW i \in EventId, moveOffloadedHandler(i)
    PROVE  /\ i \in DOMAIN ev /\ ev[i].ph = "run" /\ ev[i].cur = "Offloaded" /\ ev[i].src \in Node
           /\ \E f : /\ HandlerStep(i, f)
                     /\ \/ f.ph = "del"
                        \/ /\ f.ph = "run" /\ f.cur = "Assign" /\ f.op = ev[i].op
                           /\ f.info.status = "Offline"
           /\ UpdatePtInfo(ev[i], ev[i].src, "Offline")
           /\ UNCHANGED <<node, mevents, tasks, exec>>
<1>1. /\ i \in DOMAIN ev /\ ev[i].ph = "run" /\ UNCHANGED <<node, mevents, tasks, exec>>
      /\ ev[i].cur = "Offloaded" /\ UpdatePtInfo(ev[i], ev[i].src, "Offline")
  BY DEF moveOffloadedHandler, At, Running, restUnchanged, storeVars
<1>2. PICK e : e = ev[i]
  OBVIOUS
<1>3. e \in Event /\ Good(e) /\ e.dst \in Node
  BY <1>1, <1>2, EventFacts
<1>4. e.src \in Node
  BY <1>1, <1>2, <1>3 DEF Good, AssignStates
<1>5. CASE PtChanged(e)
  <2>1. PICK g : g = refreshDbPt(e)
    OBVIOUS
  <2>2. g \in Event /\ Good(g) /\ Same(e, g)
    BY <1>3, <2>1, refreshDbPtFacts
  <2>3. Leave(i, g, TRUE)
    BY <1>2, <1>5, <2>1 DEF moveOffloadedHandler
  <2> QED BY <1>1, <1>2, <1>4, <2>2, <2>3, LeaveFacts
<1>6. CASE ~PtChanged(e)
  <2>1. PICK g : g = [e EXCEPT !.info.status = "Offline"]
    OBVIOUS
  <2>2. /\ g \in Event /\ Good(g) /\ Same(e, g) /\ g.cur = e.cur /\ g.ph = e.ph /\ g.op = e.op
        /\ g.info.status = "Offline"
    BY <1>3, <2>1, InfoFacts DEF Status
  <2>3. PICK f : f = stateTransition(g, TRUE)
    OBVIOUS
  <2>4. /\ f \in Event /\ Good(f) /\ Same(g, f) /\ f.ph = "run" /\ f.info = g.info
        /\ f.op = g.op /\ f.cur = NextState(g.cur, TRUE)
    BY <1>1, <1>2, <2>2, <2>3, stateTransitionFacts
  <2>5. f.cur = "Assign"
    BY <1>1, <1>2, <2>2, <2>4 DEF NextState
  <2>6. Same(e, f)
    BY <2>2, <2>4 DEF Same
  <2>7. ev' = [ev EXCEPT ![i] = f] /\ eventMap' = eventMap
    BY <1>2, <1>6, <2>1, <2>3 DEF moveOffloadedHandler, Goon
  <2>8. HandlerStep(i, f)
    BY <1>1, <1>2, <2>4, <2>6, <2>7, KeepFacts
  <2> QED BY <1>1, <1>2, <1>4, <2>2, <2>4, <2>5, <2>8
<1> QED BY <1>5, <1>6

\* The handlers of a move that only send their request.
LEMMA moveSendHandlerFacts ==
    ASSUME TypeInv, NEW i \in EventId, moveSendHandler(i)
    PROVE  /\ \E f : /\ HandlerStep(i, f) /\ f.ph = "sent" /\ f.cur = ev[i].cur /\ f.op = ev[i].op
                     /\ f.info = ev[i].info
                     /\ f.cur \in {"PreOffload", "PreAssign", "Offload", "RollbackPreOffload"}
           /\ UNCHANGED <<ptView, node, mevents, tasks, exec>>
<1>1. /\ i \in DOMAIN ev /\ ev[i].ph = "run" /\ UNCHANGED <<ptView, node, mevents, tasks, exec>>
      /\ ev[i].cur \in {"PreOffload", "PreAssign", "Offload", "RollbackPreOffload"}
  BY DEF moveSendHandler, At, Running, restUnchanged, storeVars, metaVars
<1>2. PICK e : e = ev[i]
  OBVIOUS
<1>3. e \in Event /\ Good(e)
  BY <1>1, <1>2, EventFacts
<1>4. PICK f : f = [e EXCEPT !.ph = "sent"]
  OBVIOUS
<1>5. /\ f \in Event /\ Good(f) /\ Same(e, f) /\ f.cur = e.cur /\ f.ph = "sent" /\ f.op = e.op
      /\ f.info = e.info
  BY <1>1, <1>2, <1>3, <1>4, SentFacts DEF SendStates
<1>6. ev' = [ev EXCEPT ![i] = f] /\ eventMap' = eventMap
  BY <1>2, <1>4 DEF moveSendHandler, Send
<1>7. HandlerStep(i, f)
  BY <1>1, <1>2, <1>5, <1>6, KeepFacts
<1> QED BY <1>1, <1>2, <1>5, <1>7

\* assignedHandler: the partition goes online, and the event ends.
LEMMA assignedHandlerFacts ==
    ASSUME TypeInv, NEW i \in EventId, assignedHandler(i)
    PROVE  /\ i \in DOMAIN ev /\ ev[i].ph = "run" /\ ev[i].cur = "Assigned"
           /\ \E f : HandlerStep(i, f) /\ f.ph = "del"
           /\ UpdatePtInfo(ev[i], Info(ev[i]).owner, "Online")
           /\ UNCHANGED <<node, mevents, tasks, exec>>
<1>1. /\ i \in DOMAIN ev /\ ev[i].ph = "run" /\ UNCHANGED <<node, mevents, tasks, exec>>
      /\ ev[i].cur = "Assigned" /\ UpdatePtInfo(ev[i], Info(ev[i]).owner, "Online")
      /\ Leave(i, ev[i], PtChanged(ev[i]))
  BY DEF assignedHandler, At, Running, storeVars
<1>2. PICK e, b : e = ev[i] /\ b = PtChanged(ev[i]) /\ b \in BOOLEAN
  BY DEF PtChanged
<1>3. e \in Event /\ Good(e) /\ Same(e, e)
  BY <1>1, <1>2, EventFacts DEF Same
<1> QED BY <1>1, <1>2, <1>3, LeaveFacts

\* assignFailedHandler and moveFinalHandler: the event ends.
LEMMA lastHandlerFacts ==
    ASSUME TypeInv, NEW i \in EventId, assignFailedHandler(i) \/ moveFinalHandler(i)
    PROVE  /\ \E f : HandlerStep(i, f) /\ f.ph = "del"
           /\ UNCHANGED <<ptView, node, mevents, tasks, exec>>
<1>1. /\ i \in DOMAIN ev /\ ev[i].ph = "run" /\ UNCHANGED <<ptView, node, mevents, tasks, exec>>
      /\ Leave(i, ev[i], FALSE)
  BY DEF assignFailedHandler, moveFinalHandler, At, Running, restUnchanged, storeVars, metaVars
<1>2. PICK e : e = ev[i]
  OBVIOUS
<1>3. e \in Event /\ Good(e) /\ Same(e, e)
  BY <1>1, <1>2, EventFacts DEF Same
<1> QED BY <1>1, <1>2, <1>3, LeaveFacts

\* deleteEvent takes the event out, with or without the entry of the partition.
LEMMA deleteEventFacts ==
    ASSUME TypeInv, NEW i \in EventId, deleteEvent(i)
    PROVE  /\ i \in DOMAIN ev /\ ev[i].ph = "del" /\ ev' = Remove(ev, i)
           /\ mevents' = IF ev[i].processed \/ ev[i].rec THEN Remove(mevents, ev[i].pt) ELSE mevents
           /\ tasks' \in SUBSET Task
           /\ \A t \in tasks' : t.alias => (\E u \in tasks : u.alias) \/ ev[i].alias
           /\ UNCHANGED <<ptView, node, eventMap, exec>>
<1>1. /\ i \in DOMAIN ev /\ ev[i].ph = "del" /\ ev' = Remove(ev, i) /\ UNCHANGED <<ptView, node, eventMap, exec>>
      /\ mevents' = IF ev[i].processed \/ ev[i].rec THEN Remove(mevents, ev[i].pt) ELSE mevents
  BY DEF deleteEvent, RemovesEntry, restUnchanged, storeVars
<1>2. PICK t : t = [pt |-> ev[i].pt, info |-> Info(ev[i]), alias |-> ev[i].alias, retry |-> TRUE]
  OBVIOUS
<1>3. tasks' = tasks \/ tasks' = tasks \cup {t}
  BY <1>2 DEF deleteEvent
<1>4. t \in Task /\ t.alias = ev[i].alias
  BY <1>1, <1>2, EventFacts DEF Task, Event
<1>5. tasks \in SUBSET Task
  BY DEF TypeInv, TypeEvents
<1> QED BY <1>1, <1>3, <1>4, <1>5

-----------------------------------------------------------------------------
(* Requests and answers.                                                   *)

\* The answer to an event that waits for one.
LEMMA AnswerFacts ==
    ASSUME TypeInv, NEW i \in DOMAIN ev, ev[i].ph = "sent", NEW r, Answer(i, r), eventMap' = eventMap
    PROVE  \E f : AnswerStep(i, f)
<1>1. PICK f : f = handleCmdResult(ev[i], r)
  OBVIOUS
<1>2. Answers(ev[i], f)
  BY <1>1, EventFacts, handleCmdResultFacts
<1>3. ev' = [ev EXCEPT ![i] = f]
  BY <1>1 DEF Answer
<1> QED BY <1>2, <1>3 DEF AnswerStep

\* The event's request is under way at most on its target.
LEMMA CallerFacts ==
    ASSUME TypeInv, NEW n \in Node, NEW pt \in Pt, NEW c, c = exec[n][pt].caller, c # 0
    PROVE  c \in DOMAIN ev /\ ev[c].ph = "sent" /\ n = Target(ev[c]) /\ pt = ev[c].pt
<1>1. Caller(exec[n][pt].caller, n, pt, ev)
  BY DEF TypeInv, ExecInv
<1> QED BY <1>1 DEF Caller

\* A request goes to a node.
LEMMA TargetFacts ==
    ASSUME TypeInv, NEW i \in DOMAIN ev
    PROVE  Target(ev[i]) \in Node
<1>1. ev[i] \in Event /\ Good(ev[i]) /\ ev[i].dst \in Node
  BY EventFacts
<1> QED BY <1>1 DEF Target, Good

\* What all steps of requests have in common: one event is answered or none.
RpcStep ==
    /\ \/ \E i, f : AnswerStep(i, f)
       \/ ev' = ev /\ eventMap' = eventMap
    /\ UNCHANGED <<ptView, node, mevents, tasks, members, takeover, serf, gossip>>
    /\ TypeEvents' /\ ExecInv' /\ TypeStore'

\* An event whose request is not under way on its target is nobody's caller.
LEMMA NotInExec ==
    ASSUME TypeInv, NEW i \in DOMAIN ev, ~InExec(i)
    PROVE  \A n \in Node, pt \in Pt : exec[n][pt].caller # i
<1> SUFFICES ASSUME NEW n \in Node, NEW pt \in Pt, exec[n][pt].caller = i PROVE FALSE
  OBVIOUS
<1>1. i # 0
  BY EventFacts, IdFacts
<1>2. n = Target(ev[i]) /\ pt = ev[i].pt
  BY <1>1, CallerFacts
<1> QED BY <1>2 DEF InExec

\* Steps on a store that answer nobody.
LEMMA UnansweredTypes ==
    ASSUME TypeInv, ev' = ev, eventMap' = eventMap, tasks' = tasks
    PROVE  TypeEvents'
BY DEF TypeInv, TypeEvents

\* A request that reaches its store is refused with an answer, or begins.
LEMMA MigrateBeginStep ==
    ASSUME TypeInv, NEW i \in EventId, MigrateBegin(i)
    PROVE  RpcStep
<1>1. /\ i \in DOMAIN ev /\ ev[i].ph = "sent" /\ ~InExec(i)
      /\ UNCHANGED <<ptView, node, mevents, tasks, members, takeover, serf, gossip, proc, part, eventMap>>
      /\ proc[Target(ev[i])].up
  BY DEF MigrateBegin, Waiting, eventUnchanged, metaVars, cmVars
<1>2. \A n \in Node, pt \in Pt : exec[n][pt].caller # i
  BY <1>1, NotInExec
<1>3. CASE exec' = exec /\ \E r : Answer(i, r)
  <2>1. PICK f : AnswerStep(i, f)
    BY <1>1, <1>3, AnswerFacts
  <2>2. \A n \in Node, pt \in Pt : exec'[n][pt].caller \in {0, exec[n][pt].caller} \ {i}
    BY <1>2, <1>3
  <2>3. TypeEvents' /\ ExecInv'
    BY <1>1, <2>1, <2>2, AnswerTypes
  <2>4. TypeStore'
    BY <1>1, <1>3 DEF TypeInv, TypeStore
  <2> QED BY <1>1, <2>1, <2>3, <2>4 DEF RpcStep
<1>4. CASE ev' = ev /\ exec' = [exec EXCEPT ![Target(ev[i])][ev[i].pt] =
                                    [op |-> Op(ev[i]), ver |-> Info(ev[i]).ver, caller |-> i]]
  <2>1. PICK n, p, q : /\ n = Target(ev[i]) /\ p = ev[i].pt
                       /\ q = [op |-> Op(ev[i]), ver |-> Info(ev[i]).ver, caller |-> i]
    OBVIOUS
  <2>2. n \in Node /\ p \in Pt
    BY <1>1, <2>1, TargetFacts, EventFacts
  <2>3. q \in Req /\ q.caller = i
    <3>1. Op(ev[i]) \in States
      <4>1. ev[i].cur \in States
        BY <1>1, EventFacts DEF Event
      <4> QED BY <4>1 DEF Op, States, MoveStates
    <3>2. Info(ev[i]).ver \in Nat
      BY <1>1, EventFacts DEF PtInfo
    <3> QED BY <2>1, <3>1, <3>2 DEF Req
  <2>4. exec \in [Node -> [Pt -> Req]]
    BY DEF TypeInv, TypeStore
  <2>5. exec' = [exec EXCEPT ![n][p] = q]
    BY <1>4, <2>1
  <2>6. exec' \in [Node -> [Pt -> Req]]
    BY <2>2, <2>3, <2>4, <2>5
  <2>7. \A m \in Node, r \in Pt : exec'[m][r] = IF m = n /\ r = p THEN q ELSE exec[m][r]
    BY <2>2, <2>4, <2>5
  <2>8. TypeStore'
    <3>1. /\ proc \in [Node -> [up : BOOLEAN, conn : Nat]] /\ part \in [Node -> [Pt -> {"none", "pre", "up"}]]
          /\ \A m \in Node, pt \in Pt : part[m][pt] # "none" \/ exec[m][pt] # NoReq => proc[m].up
      BY DEF TypeInv, TypeStore
    <3>2. \A m \in Node, pt \in Pt : part'[m][pt] # "none" \/ exec'[m][pt] # NoReq => proc'[m].up
      BY <1>1, <2>1, <2>7, <3>1
    <3> QED BY <1>1, <2>6, <3>1, <3>2 DEF TypeStore
  <2>9. ASSUME NEW m \in Node, NEW pt \in Pt PROVE Caller(exec'[m][pt].caller, m, pt, ev)
    <3>1. CASE m = n /\ pt = p
      BY <1>1, <2>1, <2>3, <2>7, <3>1 DEF Caller
    <3>2. CASE ~(m = n /\ pt = p)
      <4>1. exec'[m][pt] = exec[m][pt]
        BY <2>7, <3>2
      <4>2. Caller(exec[m][pt].caller, m, pt, ev)
        BY DEF TypeInv, ExecInv
      <4> QED BY <4>1, <4>2
    <3> QED BY <3>1, <3>2
  <2>10. ExecInv'
    BY <1>4, <2>9 DEF ExecInv
  <2> QED BY <1>1, <1>4, <2>8, <2>10, UnansweredTypes DEF RpcStep
<1> QED BY <1>3, <1>4 DEF MigrateBegin

\* A request that does not reach its store is answered.
LEMMA MigrateFailStep ==
    ASSUME TypeInv, NEW i \in EventId, MigrateFail(i)
    PROVE  RpcStep
<1>1. /\ i \in DOMAIN ev /\ ev[i].ph = "sent" /\ ~InExec(i) /\ \E r : Answer(i, r)
      /\ UNCHANGED <<ptView, node, mevents, tasks, members, takeover, serf, gossip, proc, part, exec, eventMap>>
  BY DEF MigrateFail, Waiting, eventUnchanged, metaVars, cmVars, storeVars
<1>2. \A n \in Node, pt \in Pt : exec[n][pt].caller # i
  BY <1>1, NotInExec
<1>3. PICK f : AnswerStep(i, f)
  BY <1>1, AnswerFacts
<1>4. TypeEvents' /\ ExecInv'
  BY <1>1, <1>2, <1>3, AnswerTypes
<1>5. TypeStore'
  BY <1>1 DEF TypeInv, TypeStore
<1> QED BY <1>1, <1>3, <1>4, <1>5 DEF RpcStep

\* A late answer is given up: the store goes on without a caller.
LEMMA MigrateTimeoutStep ==
    ASSUME TypeInv, NEW i \in EventId, MigrateTimeout(i)
    PROVE  RpcStep
<1>1. /\ i \in DOMAIN ev /\ ev[i].ph = "sent" /\ InExec(i) /\ \E r : Answer(i, r)
      /\ UNCHANGED <<ptView, node, mevents, tasks, members, takeover, serf, gossip, proc, part, eventMap>>
      /\ exec' = [exec EXCEPT ![Target(ev[i])][ev[i].pt].caller = 0]
  BY DEF MigrateTimeout, Waiting, eventUnchanged, metaVars, cmVars
<1>2. PICK n, p : n = Target(ev[i]) /\ p = ev[i].pt
  OBVIOUS
<1>3. n \in Node /\ p \in Pt /\ i # 0 /\ exec[n][p].caller = i
  BY <1>1, <1>2, TargetFacts, EventFacts, IdFacts DEF InExec
<1>4. exec \in [Node -> [Pt -> Req]] /\ exec[n][p] \in Req
  BY <1>3 DEF TypeInv, TypeStore
<1>5. PICK q : q = [exec[n][p] EXCEPT !.caller = 0]
  OBVIOUS
<1>6. q \in Req /\ q.caller = 0
  BY <1>4, <1>5 DEF Req
<1>7. exec' = [exec EXCEPT ![n][p] = q]
  BY <1>1, <1>2, <1>4, <1>5
<1>8. /\ exec' \in [Node -> [Pt -> Req]]
      /\ \A m \in Node, r \in Pt : exec'[m][r] = IF m = n /\ r = p THEN q ELSE exec[m][r]
  BY <1>3, <1>4, <1>6, <1>7
<1>9. \A m \in Node, pt \in Pt : exec'[m][pt].caller \in {0, exec[m][pt].caller} \ {i}
  <2> SUFFICES ASSUME NEW m \in Node, NEW pt \in Pt PROVE exec'[m][pt].caller \in {0, exec[m][pt].caller} \ {i}
    OBVIOUS
  <2>1. CASE m = n /\ pt = p
    BY <1>3, <1>6, <1>8, <2>1
  <2>2. CASE ~(m = n /\ pt = p)
    <3>1. exec[m][pt].caller # i
      BY <1>2, <1>3, <2>2, CallerFacts
    <3> QED BY <1>8, <2>2, <3>1
  <2> QED BY <2>1, <2>2
<1>10. PICK f : AnswerStep(i, f)
  BY <1>1, AnswerFacts
<1>11. TypeEvents' /\ ExecInv'
  BY <1>1, <1>9, <1>10, AnswerTypes
<1>12. TypeStore'
  <2>1. /\ proc \in [Node -> [up : BOOLEAN, conn : Nat]] /\ part \in [Node -> [Pt -> {"none", "pre", "up"}]]
        /\ \A m \in Node, pt \in Pt : part[m][pt] # "none" \/ exec[m][pt] # NoReq => proc[m].up
    BY DEF TypeInv, TypeStore
  <2>2. exec[n][p] # NoReq
    BY <1>3 DEF NoReq
  <2>3. \A m \in Node, pt \in Pt : part'[m][pt] # "none" \/ exec'[m][pt] # NoReq => proc'[m].up
    BY <1>1, <1>3, <1>8, <2>1, <2>2
  <2> QED BY <1>1, <1>8, <2>1, <2>3 DEF TypeStore
<1> QED BY <1>1, <1>10, <1>11, <1>12 DEF RpcStep

\* The end of a request answers its caller, if it still has one, and leaves the
\* partition loaded, preloaded or not at all.
LEMMA EndFacts ==
    ASSUME TypeInv, NEW n \in Node, NEW pt \in Pt, NEW r, MigrateEnd(n, pt), r = exec[n][pt]
    PROVE  /\ r # NoReq /\ exec' = [exec EXCEPT ![n][pt] = NoReq]
           /\ \E x : Answered(r, x)
           /\ part' = part \/ \E v \in {"none", "pre", "up"} : part' = [part EXCEPT ![n][pt] = v]
           /\ UNCHANGED <<ptView, node, mevents, tasks, members, takeover, serf, gossip, proc, eventMap>>
<1>1. /\ r # NoReq /\ exec' = [exec EXCEPT ![n][pt] = NoReq]
      /\ UNCHANGED <<ptView, node, mevents, tasks, members, takeover, serf, gossip, proc, eventMap>>
  BY DEF MigrateEnd, eventUnchanged, metaVars, cmVars
<1>2. part \in [Node -> [Pt -> {"none", "pre", "up"}]]
  BY DEF TypeInv, TypeStore
<1>3. CASE PreOffloadEnd(n, pt, r)
  BY <1>1, <1>3 DEF PreOffloadEnd
<1>4. CASE RollbackPreOffloadEnd(n, pt, r)
  BY <1>1, <1>4 DEF RollbackPreOffloadEnd
<1>5. CASE PreAssignEnd(n, pt, r)
  <2>1. PICK v \in {"none", "pre", "up"} : v = IF part[n][pt] = "none" THEN "pre" ELSE part[n][pt]
    BY <1>2
  <2>2. part' = part \/ part' = [part EXCEPT ![n][pt] = v]
    BY <1>2, <1>5, <2>1 DEF PreAssignEnd
  <2>3. \E x : Answered(r, x)
    BY <1>5 DEF PreAssignEnd
  <2> QED BY <1>1, <2>2, <2>3
<1>6. CASE OffloadEnd(n, pt, r)
  BY <1>1, <1>6 DEF OffloadEnd
<1>7. CASE AssignEnd(n, pt, r)
  BY <1>1, <1>7 DEF AssignEnd
<1> QED BY <1>3, <1>4, <1>5, <1>6, <1>7 DEF MigrateEnd

\* A request that ends answers its caller, if it still has one.
LEMMA MigrateEndStep ==
    ASSUME TypeInv, NEW n \in Node, NEW pt \in Pt, MigrateEnd(n, pt)
    PROVE  RpcStep
<1>1. PICK r : r = exec[n][pt]
  OBVIOUS
<1>2. /\ r # NoReq /\ exec' = [exec EXCEPT ![n][pt] = NoReq] /\ \E x : Answered(r, x)
      /\ part' = part \/ \E v \in {"none", "pre", "up"} : part' = [part EXCEPT ![n][pt] = v]
      /\ UNCHANGED <<ptView, node, mevents, tasks, members, takeover, serf, gossip, proc, eventMap>>
  BY <1>1, EndFacts
<1>3. /\ exec \in [Node -> [Pt -> Req]] /\ proc \in [Node -> [up : BOOLEAN, conn : Nat]]
      /\ part \in [Node -> [Pt -> {"none", "pre", "up"}]]
      /\ \A m \in Node, q \in Pt : part[m][q] # "none" \/ exec[m][q] # NoReq => proc[m].up
  BY DEF TypeInv, TypeStore
<1>4. NoReq \in Req /\ NoReq.caller = 0
  BY DEF NoReq, Req
<1>5. /\ exec' \in [Node -> [Pt -> Req]]
      /\ \A m \in Node, q \in Pt : exec'[m][q] = IF m = n /\ q = pt THEN NoReq ELSE exec[m][q]
  BY <1>2, <1>3, <1>4
<1>6. /\ part' \in [Node -> [Pt -> {"none", "pre", "up"}]]
      /\ \A m \in Node, q \in Pt : part'[m][q] = part[m][q] \/ m = n
  <2>1. CASE part' = part
    BY <1>3, <2>1
  <2>2. ASSUME NEW v \in {"none", "pre", "up"}, part' = [part EXCEPT ![n][pt] = v]
        PROVE  /\ part' \in [Node -> [Pt -> {"none", "pre", "up"}]]
               /\ \A m \in Node, q \in Pt : part'[m][q] = part[m][q] \/ m = n
    BY <1>3, <2>2
  <2> QED BY <1>2, <2>1, <2>2
<1>7. TypeStore'
  <2>1. proc[n].up
    BY <1>1, <1>2, <1>3
  <2>2. \A m \in Node, q \in Pt : part'[m][q] # "none" \/ exec'[m][q] # NoReq => proc'[m].up
    BY <1>2, <1>3, <1>5, <1>6, <2>1
  <2> QED BY <1>2, <1>3, <1>5, <1>6, <2>2 DEF TypeStore
<1>8. CASE r.caller = 0
  <2>1. ev' = ev
    BY <1>2, <1>8 DEF Answered
  <2>2. ASSUME NEW m \in Node, NEW q \in Pt PROVE Caller(exec'[m][q].caller, m, q, ev)
    <3>1. CASE m = n /\ q = pt
      BY <1>4, <1>5, <3>1 DEF Caller
    <3>2. CASE ~(m = n /\ q = pt)
      <4>1. Caller(exec[m][q].caller, m, q, ev)
        BY DEF TypeInv, ExecInv
      <4> QED BY <1>5, <3>2, <4>1
    <3> QED BY <3>1, <3>2
  <2>3. ExecInv'
    BY <2>1, <2>2 DEF ExecInv
  <2> QED BY <1>2, <1>7, <2>1, <2>3, UnansweredTypes DEF RpcStep
<1>9. CASE r.caller # 0
  <2>1. PICK i : i = r.caller
    OBVIOUS
  <2>2. i # 0 /\ i \in DOMAIN ev /\ ev[i].ph = "sent" /\ n = Target(ev[i]) /\ pt = ev[i].pt
    BY <1>1, <1>9, <2>1, CallerFacts
  <2>3. \E x : Answer(i, x)
    BY <1>2, <1>9, <2>1 DEF Answered
  <2>4. PICK f : AnswerStep(i, f)
    BY <1>2, <2>2, <2>3, AnswerFacts
  <2>5. \A m \in Node, q \in Pt : exec'[m][q].caller \in {0, exec[m][q].caller} \ {i}
    <3> SUFFICES ASSUME NEW m \in Node, NEW q \in Pt PROVE exec'[m][q].caller \in {0, exec[m][q].caller} \ {i}
      OBVIOUS
    <3>1. CASE m = n /\ q = pt
      BY <1>4, <1>5, <2>2, <3>1
    <3>2. CASE ~(m = n /\ q = pt)
      <4>1. exec[m][q].caller # i
        BY <2>2, <3>2, CallerFacts
      <4> QED BY <1>5, <3>2, <4>1
    <3> QED BY <3>1, <3>2
  <2>6. TypeEvents' /\ ExecInv'
    BY <1>2, <2>4, <2>5, AnswerTypes
  <2> QED BY <1>2, <1>7, <2>4, <2>6 DEF RpcStep
<1> QED BY <1>8, <1>9

\* All of the requests' steps.
LEMMA RpcNextStep ==
    ASSUME TypeInv, RpcNext
    PROVE  RpcStep
BY MigrateBeginStep, MigrateFailStep, MigrateTimeoutStep, MigrateEndStep DEF RpcNext

-----------------------------------------------------------------------------
(* Processes and gossip.                                                   *)

\* A process stops, starts or is noticed: events, tasks and PtView stay.
NodeStep ==
    /\ UNCHANGED <<ptView, mevents, ev, eventMap, tasks, members, takeover>>
    /\ node' \in [Node -> DataNode] /\ \A m \in Node : node'[m].status = node[m].status
    /\ TypeCluster' /\ TypeStore' /\ ExecInv'

\* A process that stops loses its partitions and its requests.
LEMMA StopStep ==
    ASSUME TypeInv, NEW n \in Node, Stop(n)
    PROVE  NodeStep
<1>1. /\ UNCHANGED <<ptView, node, mevents, ev, eventMap, tasks, members, takeover, serf, gossip>>
      /\ proc' = [proc EXCEPT ![n].up = FALSE] /\ part' = [part EXCEPT ![n] = [pt \in Pt |-> "none"]]
      /\ exec' = [exec EXCEPT ![n] = [pt \in Pt |-> NoReq]]
  BY DEF Stop, cmUnchanged, cmVars, msmVars
<1>2. /\ exec \in [Node -> [Pt -> Req]] /\ proc \in [Node -> [up : BOOLEAN, conn : Nat]]
      /\ part \in [Node -> [Pt -> {"none", "pre", "up"}]]
      /\ \A m \in Node, q \in Pt : part[m][q] # "none" \/ exec[m][q] # NoReq => proc[m].up
  BY DEF TypeInv, TypeStore
<1>3. NoReq \in Req /\ NoReq.caller = 0
  BY DEF NoReq, Req
<1>4. /\ exec' \in [Node -> [Pt -> Req]]
      /\ \A m \in Node, q \in Pt : exec'[m][q] = IF m = n THEN NoReq ELSE exec[m][q]
  BY <1>1, <1>2, <1>3
<1>5. /\ part' \in [Node -> [Pt -> {"none", "pre", "up"}]]
      /\ \A m \in Node, q \in Pt : part'[m][q] = IF m = n THEN "none" ELSE part[m][q]
  BY <1>1, <1>2
<1>6. /\ proc' \in [Node -> [up : BOOLEAN, conn : Nat]]
      /\ \A m \in Node : m # n => proc'[m] = proc[m]
  <2>1. PICK p : p = [proc[n] EXCEPT !.up = FALSE]
    OBVIOUS
  <2>2. p \in [up : BOOLEAN, conn : Nat]
    <3>1. proc[n] \in [up : BOOLEAN, conn : Nat]
      BY <1>2
    <3>2. p = [up |-> FALSE, conn |-> proc[n].conn] /\ proc[n].conn \in Nat
      BY <2>1, <3>1
    <3> QED BY <3>2
  <2>3. proc' = [proc EXCEPT ![n] = p]
    BY <1>1, <1>2, <2>1
  <2> QED BY <1>2, <2>2, <2>3
<1>7. TypeStore'
  <2>1. \A m \in Node, q \in Pt : part'[m][q] # "none" \/ exec'[m][q] # NoReq => proc'[m].up
    BY <1>2, <1>4, <1>5, <1>6
  <2> QED BY <1>4, <1>5, <1>6, <2>1 DEF TypeStore
<1>8. ASSUME NEW m \in Node, NEW q \in Pt PROVE Caller(exec'[m][q].caller, m, q, ev)
  <2>1. Caller(exec[m][q].caller, m, q, ev)
    BY DEF TypeInv, ExecInv
  <2>2. CASE m = n
    BY <1>3, <1>4, <2>2 DEF Caller
  <2>3. CASE m # n
    BY <1>4, <2>1, <2>3
  <2> QED BY <2>2, <2>3
<1>9. ExecInv'
  BY <1>1, <1>8 DEF ExecInv
<1>10. TypeCluster' /\ node \in [Node -> DataNode]
  BY <1>1 DEF TypeInv, TypeCluster, TypeMeta
<1> QED BY <1>1, <1>7, <1>9, <1>10 DEF NodeStep

\* Appending a gossip event.
LEMMA NoticeTypes ==
    ASSUME TypeInv, NEW n \in Node, NEW g \in [up : BOOLEAN, lt : Nat], NEW s \in SerfEvent,
           gossip' = [gossip EXCEPT ![n] = g], serf' = [serf EXCEPT ![n] = Append(serf[n], s)],
           members' = members, takeover' = takeover
    PROVE  TypeCluster'
<1>1. /\ serf \in [Node -> Seq(SerfEvent)] /\ gossip \in [Node -> [up : BOOLEAN, lt : Nat]]
      /\ members \in SUBSET Node /\ takeover \in SUBSET Node
  BY DEF TypeInv, TypeCluster
<1>2. serf[n] \in Seq(SerfEvent)
  BY <1>1
<1>3. Append(serf[n], s) \in Seq(SerfEvent)
  BY <1>2, AppendProperties
<1>4. PICK a : a = Append(serf[n], s)
  OBVIOUS
<1>5. serf' \in [Node -> Seq(SerfEvent)]
  BY <1>1, <1>3, <1>4
<1>6. gossip' \in [Node -> [up : BOOLEAN, lt : Nat]]
  BY <1>1
<1> QED BY <1>1, <1>5, <1>6 DEF TypeCluster

\* A process starts and joins.
LEMMA NodeStartStep ==
    ASSUME TypeInv, NEW n \in Node, NodeStart(n)
    PROVE  NodeStep
<1>1. PICK c, s, g, p : /\ c = node[n].connID + 1 /\ s = [up |-> TRUE, lt |-> c, applied |-> FALSE]
                        /\ g = [up |-> TRUE, lt |-> c] /\ p = [up |-> TRUE, conn |-> c]
  OBVIOUS
<1>2. /\ UNCHANGED <<ptView, mevents, ev, eventMap, tasks, members, takeover, part, exec>>
      /\ proc' = [proc EXCEPT ![n] = p] /\ node' = [node EXCEPT ![n].connID = c]
      /\ gossip' = [gossip EXCEPT ![n] = g] /\ serf' = [serf EXCEPT ![n] = Append(serf[n], s)]
  BY <1>1 DEF NodeStart, cmUnchanged, msmVars
<1>3. node \in [Node -> DataNode] /\ node[n] \in DataNode
  BY DEF TypeInv, TypeMeta
<1>4. c \in Nat
  BY <1>1, <1>3 DEF DataNode
<1>5. g \in [up : BOOLEAN, lt : Nat] /\ s \in SerfEvent /\ p \in [up : BOOLEAN, conn : Nat] /\ p.up
  BY <1>1, <1>4 DEF SerfEvent
<1>6. TypeCluster'
  BY <1>2, <1>5, NoticeTypes
<1>7. node' \in [Node -> DataNode] /\ \A m \in Node : node'[m].status = node[m].status
  <2>1. PICK d : d = [node[n] EXCEPT !.connID = c]
    OBVIOUS
  <2>2. d \in DataNode /\ d.status = node[n].status
    BY <1>3, <1>4, <2>1 DEF DataNode
  <2>3. node' = [node EXCEPT ![n] = d]
    BY <1>2, <1>3, <2>1
  <2> QED BY <1>3, <2>2, <2>3
<1>8. TypeStore'
  <2>1. /\ exec \in [Node -> [Pt -> Req]] /\ proc \in [Node -> [up : BOOLEAN, conn : Nat]]
        /\ part \in [Node -> [Pt -> {"none", "pre", "up"}]]
        /\ \A m \in Node, q \in Pt : part[m][q] # "none" \/ exec[m][q] # NoReq => proc[m].up
    BY DEF TypeInv, TypeStore
  <2>2. proc' \in [Node -> [up : BOOLEAN, conn : Nat]] /\ \A m \in Node : proc'[m] = proc[m] \/ proc'[m].up
    BY <1>2, <1>5, <2>1
  <2> QED BY <1>2, <2>1, <2>2 DEF TypeStore
<1>9. ExecInv'
  BY <1>2 DEF TypeInv, ExecInv
<1> QED BY <1>2, <1>6, <1>7, <1>8, <1>9 DEF NodeStep

\* The gossip reports a process as failed, or as back.
LEMMA GossipStep ==
    ASSUME TypeInv, NEW n \in Node, GossipFail(n) \/ GossipJoin(n)
    PROVE  NodeStep
<1>1. PICK u \in BOOLEAN : IF u THEN GossipJoin(n) ELSE GossipFail(n)
  OBVIOUS
<1>2. PICK s, g : s = [up |-> u, lt |-> gossip[n].lt, applied |-> FALSE] /\ g = [gossip[n] EXCEPT !.up = u]
  OBVIOUS
<1>3. gossip \in [Node -> [up : BOOLEAN, lt : Nat]] /\ gossip[n] \in [up : BOOLEAN, lt : Nat]
  BY DEF TypeInv, TypeCluster
<1>4. /\ UNCHANGED <<ptView, node, mevents, ev, eventMap, tasks, members, takeover, part, exec, proc>>
      /\ gossip' = [gossip EXCEPT ![n].up = u] /\ serf' = [serf EXCEPT ![n] = Append(serf[n], s)]
  BY <1>1, <1>2 DEF GossipFail, GossipJoin, cmUnchanged, msmVars, storeVars
<1>5. gossip' = [gossip EXCEPT ![n] = g]
  BY <1>2, <1>3, <1>4
<1>6. g \in [up : BOOLEAN, lt : Nat] /\ s \in SerfEvent
  <2>1. gossip[n].lt \in Nat /\ g = [up |-> u, lt |-> gossip[n].lt]
    BY <1>2, <1>3
  <2> QED BY <1>2, <2>1 DEF SerfEvent
<1>7. TypeCluster'
  BY <1>4, <1>5, <1>6, NoticeTypes
<1>8. TypeStore' /\ ExecInv' /\ node' \in [Node -> DataNode]
  BY <1>4 DEF TypeInv, TypeStore, ExecInv, TypeMeta
<1> QED BY <1>4, <1>7, <1>8 DEF NodeStep

\* All of the processes' steps.
LEMMA NodeNextStep ==
    ASSUME TypeInv, NodeNext
    PROVE  NodeStep
BY StopStep, NodeStartStep, GossipStep DEF NodeNext, NodeCrash, Suicide

-----------------------------------------------------------------------------
(* The cluster manager.                                                    *)

\* The events of the gossip are taken from their queue, or marked.
LEMMA SerfTypes ==
    ASSUME TypeInv, NEW n \in Node, serf[n] # <<>>
    PROVE  /\ Head(serf[n]) \in SerfEvent
           /\ [serf EXCEPT ![n] = Tail(serf[n])] \in [Node -> Seq(SerfEvent)]
           /\ [serf EXCEPT ![n][1].applied = TRUE] \in [Node -> Seq(SerfEvent)]
<1>1. serf \in [Node -> Seq(SerfEvent)]
  BY DEF TypeInv, TypeCluster
<1>2. PICK s : s = serf[n]
  OBVIOUS
<1>3. s \in Seq(SerfEvent) /\ s # <<>>
  BY <1>1, <1>2
<1>4. Head(s) \in SerfEvent /\ Tail(s) \in Seq(SerfEvent) /\ Head(s) = s[1] /\ 1 \in 1..Len(s) /\ DOMAIN s = 1..Len(s)
  BY <1>3, HeadTailProperties, EmptySeq, LenProperties
<1>5. PICK x : x = [s[1] EXCEPT !.applied = TRUE]
  OBVIOUS
<1>6. x \in SerfEvent
  BY <1>4, <1>5 DEF SerfEvent
<1>7. PICK t : t = [s EXCEPT ![1] = x]
  OBVIOUS
<1>8. t \in Seq(SerfEvent)
  BY <1>3, <1>4, <1>6, <1>7, ExceptSeq
<1>9. [serf EXCEPT ![n][1].applied = TRUE] = [serf EXCEPT ![n] = t]
  BY <1>1, <1>2, <1>3, <1>4, <1>5, <1>7
<1>10. PICK a : a = Tail(s)
  OBVIOUS
<1>11. [serf EXCEPT ![n] = a] \in [Node -> Seq(SerfEvent)] /\ [serf EXCEPT ![n] = t] \in [Node -> Seq(SerfEvent)]
  BY <1>1, <1>4, <1>8, <1>10
<1> QED BY <1>2, <1>4, <1>9, <1>10, <1>11

\* The report about a node that answers a ping is dropped.
LEMMA PingNodeStep ==
    ASSUME TypeInv, NEW n \in Node, PingNode(n)
    PROVE  NodeStep
<1>1. /\ UNCHANGED <<ptView, node, mevents, ev, eventMap, tasks, members, takeover, gossip, proc, part, exec>>
      /\ serf[n] # <<>> /\ serf' = [serf EXCEPT ![n] = Tail(serf[n])]
  BY DEF PingNode, cmUnchanged, msmVars, storeVars
<1>2. serf' \in [Node -> Seq(SerfEvent)]
  BY <1>1, SerfTypes
<1> QED BY <1>1, <1>2 DEF NodeStep, TypeInv, TypeCluster, TypeStore, ExecInv, TypeMeta

\* The raft command about a node: its partitions, whatever they were, are offline.
UpdateStep(n) ==
    \/ UNCHANGED <<node, ptView>>
    \/ /\ \A m \in Node : m # n => node'[m] = node[m]
       /\ \A p \in Pt : IF ptView[p].owner = n
                        THEN ptView'[p].owner = n /\ ptView'[p].status = "Offline"
                        ELSE ptView'[p] = ptView[p]

\* handleStoreEvent: the report is applied to the metadata, or refused.
LEMMA handleStoreEventStep ==
    ASSUME TypeInv, NEW n \in Node, handleStoreEvent(n)
    PROVE  /\ UNCHANGED <<mevents, ev, eventMap, tasks, members, takeover, exec>>
           /\ UpdateStep(n) /\ TypeMeta' /\ TypeCluster' /\ TypeStore'
<1>1. /\ UNCHANGED <<mevents, ev, eventMap, tasks, members, takeover, gossip, proc, part, exec>>
      /\ serf[n] # <<>> /\ serf' = [serf EXCEPT ![n][1].applied = TRUE]
      /\ UpdateNodeStatus(n, Head(serf[n]))
  BY DEF handleStoreEvent, cmUnchanged, msmVars, storeVars
<1>2. serf' \in [Node -> Seq(SerfEvent)] /\ Head(serf[n]) \in SerfEvent
  BY <1>1, SerfTypes
<1>3. TypeCluster' /\ TypeStore'
  BY <1>1, <1>2 DEF TypeInv, TypeCluster, TypeStore
<1>4. PICK e : e = Head(serf[n])
  OBVIOUS
<1>5. node \in [Node -> DataNode] /\ node[n] \in DataNode /\ ptView \in [Pt -> PtInfo]
  BY DEF TypeInv, TypeMeta
<1>6. CASE UNCHANGED <<node, ptView>>
  BY <1>1, <1>3, <1>6 DEF TypeInv, TypeMeta, UpdateStep
<1>7. CASE ~UNCHANGED <<node, ptView>>
  <2>1. PICK s, a : s = (IF e.up THEN "alive" ELSE "failed") /\ a = (IF e.up THEN node[n].connID ELSE node[n].aliveConn)
    OBVIOUS
  <2>2. PICK d : d = [node[n] EXCEPT !.status = s, !.lt = e.lt, !.aliveConn = a]
    OBVIOUS
  <2>3. d \in DataNode
    BY <1>2, <1>4, <1>5, <2>1, <2>2 DEF DataNode, SerfEvent
  <2>4. /\ node' = [node EXCEPT ![n].status = IF e.up THEN "alive" ELSE "failed", ![n].lt = e.lt,
                                ![n].aliveConn = IF e.up THEN node[n].connID ELSE @]
        /\ ptView' = [p \in Pt |-> IF p \in SetOfflinePts(n, e.up) THEN SetOffline(ptView[p]) ELSE ptView[p]]
    BY <1>1, <1>4, <1>7 DEF UpdateNodeStatus
  <2>5. node' = [node EXCEPT ![n] = d]
    BY <1>5, <2>1, <2>2, <2>4
  <2>6. node' \in [Node -> DataNode] /\ \A m \in Node : m # n => node'[m] = node[m]
    BY <1>5, <2>3, <2>5
  <2>7. ASSUME NEW q \in PtInfo
        PROVE SetOffline(q) \in PtInfo /\ SetOffline(q).owner = q.owner /\ SetOffline(q).status = "Offline"
    <3>1. PICK v : v = q.ver + 1
      OBVIOUS
    <3>2. v \in Nat
      BY <3>1 DEF PtInfo
    <3>3. PICK f : f = [q EXCEPT !.status = "Offline", !.ver = v]
      OBVIOUS
    <3>4. SetOffline(q) = f
      BY <3>1, <3>3 DEF SetOffline
    <3>5. f \in PtInfo /\ f.owner = q.owner /\ f.status = "Offline"
      BY <3>2, <3>3 DEF PtInfo, Status
    <3> QED BY <3>4, <3>5
  <2>8. \A p \in Pt : ptView'[p] = IF ptView[p].owner = n THEN SetOffline(ptView[p]) ELSE ptView[p]
    BY <2>4 DEF SetOfflinePts
  <2>9. ptView' \in [Pt -> PtInfo]
    BY <1>5, <2>4, <2>7
  <2>10. \A p \in Pt : IF ptView[p].owner = n
                       THEN ptView'[p].owner = n /\ ptView'[p].status = "Offline"
                       ELSE ptView'[p] = ptView[p]
    BY <1>5, <2>7, <2>8
  <2> QED BY <1>1, <1>3, <2>6, <2>9, <2>10 DEF TypeInv, TypeMeta, UpdateStep
<1> QED BY <1>6, <1>7

\* handleClusterMember: members and takeover, nothing else.
LEMMA handleClusterMemberStep ==
    ASSUME TypeInv, NEW n \in Node, handleClusterMember(n)
    PROVE  /\ UNCHANGED <<ptView, node, mevents, ev, eventMap, tasks, exec>>
           /\ TypeCluster' /\ TypeStore'
<1>1. /\ UNCHANGED <<ptView, node, mevents, ev, eventMap, tasks, gossip, proc, part, exec>>
      /\ serf[n] # <<>> /\ serf' = [serf EXCEPT ![n] = Tail(serf[n])] /\ takeover' = takeover \cup {n}
      /\ members' = IF Head(serf[n]).up THEN members \cup {n} ELSE members \ {n}
  BY DEF handleClusterMember, cmUnchanged, msmVars, storeVars
<1>2. serf' \in [Node -> Seq(SerfEvent)]
  BY <1>1, SerfTypes
<1>3. members' \in SUBSET Node /\ takeover' \in SUBSET Node
  BY <1>1 DEF TypeInv, TypeCluster
<1> QED BY <1>1, <1>2, <1>3 DEF TypeInv, TypeCluster, TypeStore

\* The calls of a takeover carry copies of the entries, all offline.
LEMMA takeoverDbPtsStep ==
    ASSUME TypeInv, NEW n \in Node, takeoverDbPts(n)
    PROVE  /\ UNCHANGED <<ptView, node, mevents, ev, eventMap, exec>>
           /\ TypeCluster' /\ TypeStore' /\ tasks' \in SUBSET Task
           /\ \A t \in tasks' : t \in tasks \/ ~t.alias
<1>1. /\ UNCHANGED <<ptView, node, mevents, ev, eventMap, members, serf, gossip, proc, part, exec>>
      /\ takeover' = takeover \ {n}
  BY DEF takeoverDbPts, metaVars, storeVars
<1>2. PICK P : P = {p \in Pt : ptView[p].owner = n /\ ptView[p].status = "Offline"}
  OBVIOUS
<1>3. tasks' = tasks \cup {[pt |-> pt, info |-> ptView[pt], alias |-> FALSE, retry |-> FALSE] : pt \in P}
  BY <1>2 DEF takeoverDbPts
<1>4. tasks \in SUBSET Task /\ ptView \in [Pt -> PtInfo] /\ P \subseteq Pt
  BY <1>2 DEF TypeInv, TypeEvents, TypeMeta
<1>5. \A t \in tasks' : t \in Task /\ (t \in tasks \/ ~t.alias)
  <2> SUFFICES ASSUME NEW t \in tasks' PROVE t \in Task /\ (t \in tasks \/ ~t.alias)
    OBVIOUS
  <2>1. CASE t \in tasks
    BY <1>4, <2>1
  <2>2. ASSUME NEW pt \in P, t = [pt |-> pt, info |-> ptView[pt], alias |-> FALSE, retry |-> FALSE]
        PROVE  t \in Task /\ ~t.alias
    BY <1>4, <2>2 DEF Task
  <2> QED BY <1>3, <2>1, <2>2
<1>6. TypeCluster' /\ TypeStore'
  BY <1>1 DEF TypeInv, TypeCluster, TypeStore
<1> QED BY <1>1, <1>5, <1>6

\* A new event enters eventMap, where the partition had none.
AddStep(i, e) ==
    /\ i \in EventId /\ i \notin DOMAIN ev /\ e \in Event /\ Good(e)
    /\ e.ph = "run" /\ e.cur = "Init" /\ e.op = 0 /\ eventMap[e.pt] = 0
    /\ ev' = Put(ev, i, e) /\ eventMap' = [eventMap EXCEPT ![e.pt] = i]

\* A new event is nobody's caller yet.
LEMMA AddTypes ==
    ASSUME TypeInv, NEW i, NEW e, AddStep(i, e), tasks' \in SUBSET Task, exec' = exec
    PROVE  TypeEvents' /\ ExecInv'
<1>1. /\ DOMAIN ev \subseteq EventId /\ ev \in [DOMAIN ev -> Event] /\ \A j \in DOMAIN ev : Good(ev[j])
      /\ eventMap \in [Pt -> EventId \cup {0}]
  BY DEF TypeInv, TypeEvents
<1>2. i \in EventId /\ i \notin DOMAIN ev /\ e \in Event /\ Good(e) /\ e.pt \in Pt
  BY DEF AddStep, Event
<1>3. ev' = [x \in DOMAIN ev \cup {i} |-> IF x = i THEN e ELSE ev[x]]
  BY DEF AddStep, Put
<1>4. DOMAIN ev' = DOMAIN ev \cup {i} /\ ev'[i] = e /\ \A j \in DOMAIN ev : ev'[j] = ev[j]
  BY <1>2, <1>3
<1>5. DOMAIN ev' \subseteq EventId /\ ev' \in [DOMAIN ev' -> Event] /\ \A j \in DOMAIN ev' : Good(ev'[j])
  BY <1>1, <1>2, <1>3, <1>4
<1>6. eventMap' \in [Pt -> EventId \cup {0}]
  BY <1>1, <1>2 DEF AddStep
<1>7. TypeEvents'
  BY <1>5, <1>6 DEF TypeEvents
<1>8. ASSUME NEW n \in Node, NEW pt \in Pt PROVE Caller(exec[n][pt].caller, n, pt, ev')
  <2>1. Caller(exec[n][pt].caller, n, pt, ev)
    BY DEF TypeInv, ExecInv
  <2> QED BY <1>4, <2>1 DEF Caller
<1> QED BY <1>7, <1>8 DEF ExecInv

\* The fields of a new event.
LEMMA NewEventFacts ==
    ASSUME NEW type \in {"assign", "move"}, NEW pt \in Pt, NEW info \in PtInfo, NEW alias \in BOOLEAN,
           NEW src \in Node \cup {0}, NEW dst \in Node, NEW conn \in Nat, type = "move" => src \in Node
    PROVE  LET e == NewEvent(type, pt, info, alias, src, dst, conn) IN
           /\ e \in Event /\ Good(e) /\ e.ph = "run" /\ e.cur = "Init" /\ e.op = 0 /\ e.pt = pt
           /\ e.type = type /\ e.info = info /\ e.alias = alias /\ e.dst = dst /\ e.src = src
<1>1. "Init" \in States /\ "Init" \in AssignStates /\ "Init" \in MoveStates
  BY DEF States, AssignStates, MoveStates
<1>2. PICK e : e = NewEvent(type, pt, info, alias, src, dst, conn)
  OBVIOUS
<1>3. /\ e \in Event /\ e.ph = "run" /\ e.cur = "Init" /\ e.pre = "Init" /\ e.op = 0 /\ e.pt = pt
      /\ e.type = type /\ e.info = info /\ e.alias = alias /\ e.dst = dst /\ e.src = src
  BY <1>1, <1>2 DEF NewEvent, Event
<1>4. Good(e)
  BY <1>1, <1>3 DEF Good
<1> QED BY <1>2, <1>3, <1>4

\* processFailedDbPt: a new assignment of an offline partition, or another try.
LEMMA processFailedDbPtStep ==
    ASSUME TypeInv, NEW t \in tasks, processFailedDbPt(t)
    PROVE  /\ UNCHANGED <<ptView, node, mevents, exec>>
           /\ TypeCluster' /\ TypeStore' /\ tasks' \in SUBSET Task
           /\ \A u \in tasks' : \E v \in tasks : u.alias = v.alias
           /\ \/ UNCHANGED <<ev, eventMap>>
              \/ \E i, e : /\ AddStep(i, e) /\ e.type = "assign" /\ e.alias = t.alias
                           /\ ptView[e.pt].status # "Online"
<1>1. /\ UNCHANGED <<ptView, node, mevents, members, serf, takeover, gossip, proc, part, exec>>
  BY DEF processFailedDbPt, metaVars, storeVars, cmVars
<1>2. TypeCluster' /\ TypeStore'
  BY <1>1 DEF TypeInv, TypeCluster, TypeStore
<1>3. tasks \in SUBSET Task /\ t \in Task /\ ptView \in [Pt -> PtInfo] /\ members \in SUBSET Node
      /\ node \in [Node -> DataNode]
  BY DEF TypeInv, TypeEvents, TypeMeta, TypeCluster
<1>4. t.pt \in Pt /\ t.alias \in BOOLEAN /\ Info(t) \in PtInfo
  BY <1>3 DEF Task, Info
<1>5. CASE tasks' = tasks \ {t} /\ UNCHANGED <<ev, eventMap>>
  BY <1>1, <1>2, <1>3, <1>5
<1>6. CASE tasks' = (tasks \ {t}) \cup {[t EXCEPT !.retry = TRUE]} /\ UNCHANGED <<ev, eventMap>>
  <2>1. PICK u : u = [t EXCEPT !.retry = TRUE]
    OBVIOUS
  <2>2. u \in Task /\ u.alias = t.alias
    BY <1>3, <2>1 DEF Task
  <2> QED BY <1>1, <1>2, <1>3, <1>6, <2>1, <2>2
<1>7. ASSUME NEW n \in getTakeOverNodeForSS(Info(t).owner, t.retry),
             ~InEventMap(t.pt), FreeIds # {}, tasks' = tasks \ {t}, ptView[t.pt].status # "Online",
             ev' = Put(ev, NewId, NewEvent("assign", t.pt, Info(t), t.alias, 0, n, node[n].aliveConn)),
             eventMap' = [eventMap EXCEPT ![t.pt] = NewId]
      PROVE  \E i, e : /\ AddStep(i, e) /\ e.type = "assign" /\ e.alias = t.alias
                       /\ ptView[e.pt].status # "Online"
  <2>1. n \in Node
    BY <1>3, <1>7 DEF getTakeOverNodeForSS
  <2>2. node[n].aliveConn \in Nat
    BY <1>3, <2>1 DEF DataNode
  <2>3. PICK e : e = NewEvent("assign", t.pt, Info(t), t.alias, 0, n, node[n].aliveConn)
    OBVIOUS
  <2>4. /\ e \in Event /\ Good(e) /\ e.ph = "run" /\ e.cur = "Init" /\ e.op = 0 /\ e.pt = t.pt
        /\ e.type = "assign" /\ e.alias = t.alias
    BY <1>4, <2>1, <2>2, <2>3, NewEventFacts
  <2>5. AddStep(NewId, e)
    BY <1>7, <2>3, <2>4, NewIdFacts DEF AddStep, InEventMap
  <2> QED BY <1>7, <2>4, <2>5
<1>8. CASE ~UNCHANGED <<ev, eventMap>>
  <2>1. tasks' = tasks \ {t} /\ \E i, e : /\ AddStep(i, e) /\ e.type = "assign" /\ e.alias = t.alias
                                          /\ ptView[e.pt].status # "Online"
    BY <1>7, <1>8 DEF processFailedDbPt
  <2> QED BY <1>1, <1>2, <1>3, <2>1
<1>9. CASE UNCHANGED <<ev, eventMap>>
  <2>1. \/ tasks' = tasks \ {t}
        \/ tasks' = (tasks \ {t}) \cup {[t EXCEPT !.retry = TRUE]}
    BY DEF processFailedDbPt
  <2> QED BY <1>5, <1>6, <1>9, <2>1
<1> QED BY <1>8, <1>9

\* balanceIfNeeded: a new move of an online partition away from its owner.
LEMMA balanceIfNeededStep ==
    ASSUME TypeInv, NEW pt \in Pt, NEW n \in Node, balanceIfNeeded(pt, n)
    PROVE  /\ UNCHANGED <<ptView, node, mevents, exec, tasks>>
           /\ TypeCluster' /\ TypeStore'
           /\ \E i, e : /\ AddStep(i, e) /\ e.type = "move" /\ e.alias = (BalanceAlgo = "v1.1")
                        /\ e.info.owner = e.src
<1>1. /\ UNCHANGED <<ptView, node, mevents, tasks, members, serf, takeover, gossip, proc, part, exec>>
  BY DEF balanceIfNeeded, metaVars, storeVars, cmVars
<1>2. TypeCluster' /\ TypeStore'
  BY <1>1 DEF TypeInv, TypeCluster, TypeStore
<1>3. ptView[pt] \in PtInfo /\ ptView[pt].owner \in Node /\ node[n].aliveConn \in Nat
  BY DEF TypeInv, TypeMeta, PtInfo, DataNode
<1>4. PICK a \in BOOLEAN : a = (BalanceAlgo = "v1.1")
  OBVIOUS
<1>5. PICK e, o : e = NewEvent("move", pt, ptView[pt], a, o, n, node[n].aliveConn) /\ o = ptView[pt].owner
  OBVIOUS
<1>6. /\ e \in Event /\ Good(e) /\ e.ph = "run" /\ e.cur = "Init" /\ e.op = 0 /\ e.pt = pt
      /\ e.type = "move" /\ e.alias = a /\ e.info = ptView[pt] /\ e.src = o
  BY <1>3, <1>5, NewEventFacts
<1>7. /\ ~InEventMap(pt) /\ FreeIds # {} /\ ev' = Put(ev, NewId, e)
      /\ eventMap' = [eventMap EXCEPT ![pt] = NewId]
  BY <1>4, <1>5 DEF balanceIfNeeded
<1>8. AddStep(NewId, e)
  BY <1>6, <1>7, NewIdFacts DEF AddStep, InEventMap
<1> QED BY <1>1, <1>2, <1>4, <1>5, <1>6, <1>8

-----------------------------------------------------------------------------
(* A change of the leader.                                                 *)

\* The new leader has one event for each entry, in eventMap and from the start, and
\* what the same process kept of its former term.
LeaderStep(kept, ids) ==
    /\ kept \subseteq {i \in DOMAIN ev : ev[i].ph = "sent"} /\ ("same" \notin Faults => kept = {})
    /\ ids \in [DOMAIN mevents -> EventId \ kept] /\ \A p, q \in DOMAIN mevents : ids[p] = ids[q] => p = q
    /\ DOMAIN ev' = kept \cup {ids[p] : p \in DOMAIN mevents}
    /\ \A i \in kept : ev'[i] = ev[i]
    /\ \A p \in DOMAIN mevents : ev'[ids[p]] = RecoveredEvent(p)
    /\ ev' \in [DOMAIN ev' -> Event]
    /\ eventMap' = [pt \in Pt |-> IF pt \in DOMAIN mevents THEN ids[pt] ELSE 0]
    /\ exec' = [n \in Node |-> [pt \in Pt |-> IF exec[n][pt].caller \in kept THEN exec[n][pt]
                                              ELSE [exec[n][pt] EXCEPT !.caller = 0]]]

\* createEventFromInfo: a recovered event says what its entry says.
LEMMA RecoveredFacts ==
    ASSUME TypeInv, NEW p \in DOMAIN mevents
    PROVE  LET e == RecoveredEvent(p) IN
           /\ e \in Event /\ Good(e) /\ e.ph = "run" /\ e.cur = "Init" /\ e.pt = p /\ e.rec /\ ~e.alias
           /\ e.type = mevents[p].type /\ e.info = mevents[p].info /\ e.dst = mevents[p].dst
           /\ e.src = mevents[p].src
<1>1. p \in Pt /\ mevents[p] \in Entry /\ GoodEntry(mevents[p])
  BY DEF TypeInv, TypeMeta
<1>2. PICK m : m = mevents[p]
  OBVIOUS
<1>3. /\ m.type \in {"assign", "move"} /\ m.info \in PtInfo /\ m.src \in Node \cup {0} /\ m.dst \in Node
      /\ m.op \in Nat /\ (m.type = "move" => m.src \in Node)
  BY <1>1, <1>2 DEF Entry, GoodEntry
<1>4. PICK d : d = NewEvent(m.type, p, m.info, FALSE, m.src, m.dst, 0)
  OBVIOUS
<1>5. /\ d \in Event /\ Good(d) /\ d.ph = "run" /\ d.cur = "Init" /\ d.pt = p
      /\ d.type = m.type /\ d.info = m.info /\ d.alias = FALSE /\ d.dst = m.dst /\ d.src = m.src
  <2>1. PICK ty, q, s, x : ty = m.type /\ q = m.info /\ s = m.src /\ x = m.dst
    OBVIOUS
  <2>2. /\ ty \in {"assign", "move"} /\ q \in PtInfo /\ s \in Node \cup {0} /\ x \in Node
        /\ (ty = "move" => s \in Node)
    BY <1>3, <2>1
  <2>3. PICK a, c : a \in BOOLEAN /\ a = FALSE /\ c \in Nat /\ c = 0
    OBVIOUS
  <2>4. d = NewEvent(ty, p, q, a, s, x, c)
    BY <1>4, <2>1, <2>3
  <2>5. /\ d \in Event /\ Good(d) /\ d.ph = "run" /\ d.cur = "Init" /\ d.pt = p
        /\ d.type = ty /\ d.info = q /\ d.alias = a /\ d.dst = x /\ d.src = s
    <3>1. a \in BOOLEAN /\ c \in Nat
      BY <2>3
    <3> QED BY <1>1, <2>2, <2>4, <3>1, NewEventFacts
  <2> QED BY <2>1, <2>3, <2>5
<1>6. PICK e : e = [d EXCEPT !.op = m.op, !.rec = TRUE]
  OBVIOUS
<1>7. RecoveredEvent(p) = e
  BY <1>2, <1>4, <1>6 DEF RecoveredEvent
<1>8. /\ e \in Event /\ e.ph = d.ph /\ e.cur = d.cur /\ e.pre = d.pre /\ e.pt = d.pt /\ e.rec = TRUE
      /\ e.alias = d.alias /\ e.type = d.type /\ e.info = d.info /\ e.dst = d.dst /\ e.src = d.src
  BY <1>3, <1>5, <1>6 DEF Event
<1>9. Good(e)
  BY <1>5, <1>8 DEF Good
<1> QED BY <1>2, <1>5, <1>7, <1>8, <1>9

\* A change of the leader recovers the events from the entries.
LEMMA LeaderChangeStep ==
    ASSUME TypeInv, LeaderChange
    PROVE  /\ \E kept, ids : LeaderStep(kept, ids)
           /\ tasks' = {} /\ UNCHANGED <<ptView, node, mevents, proc, part, gossip>>
<1>1. tasks' = {} /\ UNCHANGED <<ptView, node, mevents, proc, part, gossip>>
  BY DEF LeaderChange, metaVars
<1>2. PICK kept \in (IF "same" \in Faults THEN SUBSET {i \in DOMAIN ev : ev[i].ph = "sent"} ELSE {{}}) :
        LET ids == CHOOSE f \in Names(kept) : TRUE
            recovered == {ids[pt] : pt \in DOMAIN mevents}
        IN /\ Names(kept) # {}
           /\ ev' = [i \in kept \cup recovered |->
                      IF i \in kept THEN ev[i]
                      ELSE RecoveredEvent(CHOOSE pt \in DOMAIN mevents : ids[pt] = i)]
           /\ eventMap' = [pt \in Pt |-> IF pt \in DOMAIN mevents THEN ids[pt] ELSE 0]
           /\ exec' = [n \in Node |-> [pt \in Pt |->
                         IF exec[n][pt].caller \in kept THEN exec[n][pt]
                         ELSE [exec[n][pt] EXCEPT !.caller = 0]]]
  BY DEF LeaderChange
<1>3. PICK ids : ids = CHOOSE f \in Names(kept) : TRUE
  OBVIOUS
<1>4. PICK R : R = {ids[pt] : pt \in DOMAIN mevents}
  OBVIOUS
<1>5. ids \in Names(kept)
  BY <1>2, <1>3
<1>6. /\ ids \in [DOMAIN mevents -> EventId \ kept]
      /\ \A p, q \in DOMAIN mevents : ids[p] = ids[q] => p = q
  BY <1>5 DEF Names, IsInjective
<1>7. kept \subseteq {i \in DOMAIN ev : ev[i].ph = "sent"} /\ ("same" \notin Faults => kept = {})
  BY <1>2
<1>8. ev' = [i \in kept \cup R |-> IF i \in kept THEN ev[i]
                                   ELSE RecoveredEvent(CHOOSE pt \in DOMAIN mevents : ids[pt] = i)]
  BY <1>2, <1>3, <1>4
<1>9. DOMAIN ev' = kept \cup R /\ \A i \in kept : ev'[i] = ev[i]
  BY <1>8
<1>10. ASSUME NEW p \in DOMAIN mevents PROVE ev'[ids[p]] = RecoveredEvent(p)
  <2>1. ids[p] \in R /\ ids[p] \notin kept
    BY <1>4, <1>6
  <2>2. PICK x : x = ids[p]
    OBVIOUS
  <2>3. PICK q : q = CHOOSE pt \in DOMAIN mevents : ids[pt] = x
    OBVIOUS
  <2>4. q \in DOMAIN mevents /\ ids[q] = x
    BY <2>2, <2>3
  <2>5. q = p
    BY <1>6, <2>2, <2>4
  <2>6. ev'[x] = RecoveredEvent(q)
    BY <1>8, <2>1, <2>2, <2>3
  <2> QED BY <2>2, <2>5, <2>6
<1>11. ev' \in [DOMAIN ev' -> Event]
  <2>1. \A i \in kept : ev'[i] \in Event
    BY <1>7, <1>9, EventFacts
  <2>2. \A p \in DOMAIN mevents : ev'[ids[p]] \in Event
    BY <1>10, RecoveredFacts
  <2>3. \A i \in DOMAIN ev' : ev'[i] \in Event
    BY <1>4, <1>9, <2>1, <2>2
  <2>4. ev' = [i \in DOMAIN ev' |-> ev'[i]]
    BY <1>8
  <2> QED BY <2>3, <2>4
<1>12. /\ eventMap' = [pt \in Pt |-> IF pt \in DOMAIN mevents THEN ids[pt] ELSE 0]
       /\ exec' = [n \in Node |-> [pt \in Pt |-> IF exec[n][pt].caller \in kept THEN exec[n][pt]
                                                 ELSE [exec[n][pt] EXCEPT !.caller = 0]]]
  BY <1>2, <1>3
<1>13. LeaderStep(kept, ids)
  BY <1>4, <1>6, <1>7, <1>9, <1>10, <1>11, <1>12 DEF LeaderStep
<1> QED BY <1>1, <1>13

\* After a change of the leader only kept events are callers.
LEMMA LeaderTypes ==
    ASSUME TypeInv, LeaderChange
    PROVE  TypeInv'
<1>1. PICK kept, ids : LeaderStep(kept, ids)
  BY LeaderChangeStep
<1>2. tasks' = {} /\ UNCHANGED <<ptView, node, mevents, proc, part, gossip>>
  BY LeaderChangeStep
<1>3. TypeMeta'
  BY <1>2 DEF TypeInv, TypeMeta
<1>4. /\ kept \subseteq DOMAIN ev /\ ids \in [DOMAIN mevents -> EventId \ kept]
      /\ DOMAIN ev' = kept \cup {ids[p] : p \in DOMAIN mevents} /\ ev' \in [DOMAIN ev' -> Event]
      /\ eventMap' = [pt \in Pt |-> IF pt \in DOMAIN mevents THEN ids[pt] ELSE 0]
      /\ \A i \in kept : ev'[i] = ev[i] /\ ev[i].ph = "sent"
      /\ \A p \in DOMAIN mevents : ev'[ids[p]] = RecoveredEvent(p)
  BY <1>1 DEF LeaderStep
<1>5. DOMAIN ev' \subseteq EventId
  BY <1>4 DEF TypeInv, TypeEvents
<1>6. \A i \in DOMAIN ev' : Good(ev'[i])
  <2>1. \A i \in kept : Good(ev'[i])
    BY <1>4, EventFacts
  <2>2. \A p \in DOMAIN mevents : Good(ev'[ids[p]])
    BY <1>4, RecoveredFacts
  <2> QED BY <1>4, <2>1, <2>2
<1>7. eventMap' \in [Pt -> EventId \cup {0}]
  BY <1>4
<1>8. TypeEvents'
  BY <1>2, <1>4, <1>5, <1>6, <1>7 DEF TypeEvents
<1>9. TypeCluster'
  <2>1. members' \in SUBSET Node /\ takeover' = {} /\ serf' = [n \in Node |-> Resent(n)]
    BY DEF LeaderChange
  <2>2. ASSUME NEW n \in Node PROVE Resent(n) \in Seq(SerfEvent)
    <3>1. gossip[n] \in [up : BOOLEAN, lt : Nat]
      BY DEF TypeInv, TypeCluster
    <3>2. PICK s : s = [up |-> gossip[n].up, lt |-> gossip[n].lt, applied |-> FALSE]
      OBVIOUS
    <3>3. s \in SerfEvent
      BY <3>1, <3>2 DEF SerfEvent
    <3>4. <<s>> \in Seq(SerfEvent) /\ <<>> \in Seq(SerfEvent)
      BY <3>3
    <3> QED BY <3>2, <3>4 DEF Resent
  <2>3. serf' \in [Node -> Seq(SerfEvent)]
    BY <2>1, <2>2
  <2> QED BY <1>2, <2>1, <2>3 DEF TypeInv, TypeCluster
<1>10. exec \in [Node -> [Pt -> Req]]
  BY DEF TypeInv, TypeStore
<1>11. \A n \in Node, pt \in Pt : exec'[n][pt] = IF exec[n][pt].caller \in kept THEN exec[n][pt]
                                                 ELSE [exec[n][pt] EXCEPT !.caller = 0]
  BY <1>1 DEF LeaderStep
<1>12. ASSUME NEW r \in Req PROVE [r EXCEPT !.caller = 0] \in Req /\ [r EXCEPT !.caller = 0].caller = 0
  BY DEF Req
<1>13. exec' \in [Node -> [Pt -> Req]]
  BY <1>1, <1>10, <1>12 DEF LeaderStep
<1>14. \A n \in Node, pt \in Pt : exec'[n][pt].caller = 0 \/ (exec'[n][pt].caller = exec[n][pt].caller /\ exec'[n][pt].caller \in kept)
  <2> SUFFICES ASSUME NEW n \in Node, NEW pt \in Pt
               PROVE  exec'[n][pt].caller = 0 \/ (exec'[n][pt].caller = exec[n][pt].caller /\ exec'[n][pt].caller \in kept)
    OBVIOUS
  <2>1. PICK r : r = exec[n][pt] /\ r \in Req
    BY <1>10
  <2>2. exec'[n][pt] = IF r.caller \in kept THEN r ELSE [r EXCEPT !.caller = 0]
    BY <1>11, <2>1
  <2>3. [r EXCEPT !.caller = 0].caller = 0
    BY <1>12, <2>1
  <2> QED BY <2>1, <2>2, <2>3
<1>15. \A n \in Node, pt \in Pt : exec[n][pt] = NoReq => exec'[n][pt] = NoReq
  <2>1. [NoReq EXCEPT !.caller = 0] = NoReq
    BY DEF NoReq
  <2> QED BY <1>11, <2>1
<1>16. TypeStore'
  <2>1. /\ proc \in [Node -> [up : BOOLEAN, conn : Nat]] /\ part \in [Node -> [Pt -> {"none", "pre", "up"}]]
        /\ \A m \in Node, pt \in Pt : part[m][pt] # "none" \/ exec[m][pt] # NoReq => proc[m].up
    BY DEF TypeInv, TypeStore
  <2> QED BY <1>2, <1>13, <1>15, <2>1 DEF TypeStore
<1>17. ASSUME NEW n \in Node, NEW pt \in Pt PROVE Caller(exec'[n][pt].caller, n, pt, ev')
  <2>1. CASE exec'[n][pt].caller = 0
    BY <2>1 DEF Caller
  <2>2. CASE exec'[n][pt].caller # 0
    <3>1. PICK c : c = exec'[n][pt].caller
      OBVIOUS
    <3>2. c # 0 /\ c = exec[n][pt].caller /\ c \in kept
      BY <1>14, <2>2, <3>1
    <3>3. c \in DOMAIN ev /\ ev[c].ph = "sent" /\ n = Target(ev[c]) /\ pt = ev[c].pt
      BY <3>2, CallerFacts
    <3>4. c \in DOMAIN ev' /\ ev'[c] = ev[c]
      BY <1>4, <3>2
    <3> QED BY <3>1, <3>3, <3>4 DEF Caller
  <2> QED BY <2>1, <2>2
<1>18. ExecInv'
  BY <1>17 DEF ExecInv
<1> QED BY <1>3, <1>8, <1>9, <1>16, <1>18 DEF TypeInv

-----------------------------------------------------------------------------
(* The types are kept.                                                     *)

\* The steps of an event change nothing on the stores.
LEMMA EventRest ==
    ASSUME NEW i, EventStep(i)
    PROVE  UNCHANGED <<members, serf, takeover, gossip, proc, part, exec>>
BY DEF EventStep, storeTransitionState, createMigrateEvent, initHandler, moveInitHandler,
       startAssignHandler, moveSendHandler, moveOffloadedHandler, assignedHandler,
       assignFailedHandler, moveFinalHandler, deleteEvent, restUnchanged, cmVars, storeVars

\* A handler's effect on the entries: none is added but by an event that will
\* remove it.
HandlerMeta(f) ==
    /\ TypeMeta' /\ tasks' = tasks
    /\ DOMAIN mevents' \subseteq DOMAIN mevents \cup (IF f.processed THEN {f.pt} ELSE {})

\* UpdatePtInfo keeps the types of the metadata.
LEMMA UpdateMeta ==
    ASSUME TypeInv, NEW e \in Event, NEW o \in Node, NEW s \in Status, UpdatePtInfo(e, o, s),
           node' = node, mevents' = mevents
    PROVE  TypeMeta'
<1>1. ptView' \in [Pt -> PtInfo]
  BY UpdatePtInfoFacts
<1> QED BY <1>1 DEF TypeInv, TypeMeta

\* Every step of an event but its deletion is a handler's.
LEMMA HandlerForm ==
    ASSUME TypeInv, NEW i \in EventId, EventStep(i), ~deleteEvent(i)
    PROVE  \E f : HandlerStep(i, f) /\ HandlerMeta(f)
<1>0. TypeMeta
  BY DEF TypeInv
<1>1. CASE storeTransitionState(i)
  <2>1. PICK f : HandlerStep(i, f)
    BY <1>1, storeTransitionStateFacts
  <2>2. UNCHANGED <<ptView, node, tasks>>
    BY <1>1, storeTransitionStateFacts
  <2>3. CASE mevents' = mevents
    BY <1>0, <2>1, <2>2, <2>3 DEF HandlerMeta, TypeMeta
  <2>4. CASE ev[i].pt \in DOMAIN mevents /\ mevents' = [mevents EXCEPT ![ev[i].pt].cur = ev[i].cur]
    <3>1. PICK p, c : p = ev[i].pt /\ c = ev[i].cur
      OBVIOUS
    <3>2. mevents \in [DOMAIN mevents -> Entry] /\ mevents[p] \in Entry /\ GoodEntry(mevents[p])
      BY <1>0, <2>4, <3>1 DEF TypeMeta
    <3>3. c \in States
      BY <2>1, <3>1, EventFacts DEF HandlerStep, Event
    <3>4. PICK m : m = [mevents[p] EXCEPT !.cur = c]
      OBVIOUS
    <3>5. m \in Entry /\ m.type = mevents[p].type /\ m.src = mevents[p].src
      BY <3>2, <3>3, <3>4 DEF Entry
    <3>6. GoodEntry(m)
      BY <3>2, <3>5 DEF GoodEntry
    <3>7. mevents' = [mevents EXCEPT ![p] = m]
      BY <2>4, <3>1, <3>2, <3>4
    <3>8. /\ DOMAIN mevents' = DOMAIN mevents /\ mevents' \in [DOMAIN mevents' -> Entry]
          /\ \A q \in DOMAIN mevents' : GoodEntry(mevents'[q])
      BY <1>0, <2>4, <3>1, <3>2, <3>5, <3>6, <3>7 DEF TypeMeta
    <3>9. HandlerMeta(f)
      BY <1>0, <2>2, <3>8 DEF HandlerMeta, TypeMeta
    <3> QED BY <2>1, <3>9
  <2> QED BY <1>1, <2>3, <2>4, storeTransitionStateFacts
<1>2. CASE createMigrateEvent(i)
  <2>1. UNCHANGED <<ptView, node, tasks>>
    BY <1>2, createMigrateEventFacts
  <2>2. ASSUME NEW f, HandlerStep(i, f), mevents' = mevents PROVE HandlerMeta(f)
    BY <1>0, <2>1, <2>2 DEF HandlerMeta, TypeMeta
  <2>3. ASSUME NEW f, HandlerStep(i, f), f.processed, NEW m \in Entry, GoodEntry(m),
               mevents' = Put(mevents, ev[i].pt, m)
        PROVE  HandlerMeta(f)
    <3>1. f.pt = ev[i].pt /\ ev[i].pt \in Pt
      BY <2>3, EventFacts DEF HandlerStep, Same
    <3>2. mevents' = [x \in DOMAIN mevents \cup {f.pt} |-> IF x = f.pt THEN m ELSE mevents[x]]
      BY <2>3, <3>1 DEF Put
    <3>3. /\ DOMAIN mevents' = DOMAIN mevents \cup {f.pt} /\ mevents' \in [DOMAIN mevents' -> Entry]
          /\ \A q \in DOMAIN mevents' : GoodEntry(mevents'[q])
      BY <1>0, <2>3, <3>2 DEF TypeMeta
    <3> QED BY <1>0, <2>1, <2>3, <3>1, <3>3 DEF HandlerMeta, TypeMeta
  <2> QED BY <1>2, <2>2, <2>3, createMigrateEventFacts
<1>3. CASE initHandler(i)
  <2>1. PICK f : HandlerStep(i, f)
    BY <1>3, initHandlerFacts
  <2>2. HandlerMeta(f)
    BY <1>0, <1>3, initHandlerFacts DEF HandlerMeta, TypeMeta
  <2> QED BY <2>1, <2>2
<1>4. CASE moveInitHandler(i)
  <2>1. PICK f : HandlerStep(i, f)
    BY <1>4, moveInitHandlerFacts
  <2>2. PICK v \in Nat : ptView' = [ptView EXCEPT ![ev[i].pt].ver = v]
    BY <1>4, moveInitHandlerFacts
  <2>3. PICK p, q : p = ev[i].pt /\ q = [ptView[p] EXCEPT !.ver = v] /\ p \in Pt
    BY <1>4, moveInitHandlerFacts
  <2>4. ptView \in [Pt -> PtInfo] /\ ptView[p] \in PtInfo
    BY <1>0, <2>3 DEF TypeMeta
  <2>5. q \in PtInfo
    BY <2>3, <2>4 DEF PtInfo
  <2>6. ptView' = [ptView EXCEPT ![p] = q]
    BY <2>2, <2>3, <2>4
  <2>7. ptView' \in [Pt -> PtInfo]
    BY <2>4, <2>5, <2>6
  <2>8. HandlerMeta(f)
    BY <1>0, <1>4, <2>7, moveInitHandlerFacts DEF HandlerMeta, TypeMeta
  <2> QED BY <2>1, <2>8
<1>5. CASE startAssignHandler(i)
  <2>1. PICK f : HandlerStep(i, f)
    BY <1>5, startAssignHandlerFacts
  <2>2. /\ i \in DOMAIN ev /\ UpdatePtInfo(ev[i], ev[i].dst, Info(ev[i]).status)
        /\ UNCHANGED <<node, mevents, tasks>>
    BY <1>5, startAssignHandlerFacts
  <2>3. ev[i] \in Event /\ ev[i].dst \in Node /\ Info(ev[i]).status \in Status
    BY <2>2, EventFacts DEF PtInfo
  <2>4. TypeMeta'
    BY <2>2, <2>3, UpdateMeta
  <2> QED BY <2>1, <2>2, <2>4 DEF HandlerMeta
<1>6. CASE moveSendHandler(i)
  <2>1. PICK f : HandlerStep(i, f)
    BY <1>6, moveSendHandlerFacts
  <2>2. HandlerMeta(f)
    BY <1>0, <1>6, moveSendHandlerFacts DEF HandlerMeta, TypeMeta
  <2> QED BY <2>1, <2>2
<1>7. CASE moveOffloadedHandler(i)
  <2>1. PICK f : HandlerStep(i, f)
    BY <1>7, moveOffloadedHandlerFacts
  <2>2. /\ i \in DOMAIN ev /\ UpdatePtInfo(ev[i], ev[i].src, "Offline") /\ ev[i].src \in Node
        /\ UNCHANGED <<node, mevents, tasks>>
    BY <1>7, moveOffloadedHandlerFacts
  <2>3. ev[i] \in Event /\ "Offline" \in Status
    BY <2>2, EventFacts DEF Status
  <2>4. TypeMeta'
    BY <2>2, <2>3, UpdateMeta
  <2> QED BY <2>1, <2>2, <2>4 DEF HandlerMeta
<1>8. CASE assignedHandler(i)
  <2>1. PICK f : HandlerStep(i, f)
    BY <1>8, assignedHandlerFacts
  <2>2. /\ i \in DOMAIN ev /\ UpdatePtInfo(ev[i], Info(ev[i]).owner, "Online")
        /\ UNCHANGED <<node, mevents, tasks>>
    BY <1>8, assignedHandlerFacts
  <2>3. ev[i] \in Event /\ Info(ev[i]).owner \in Node /\ "Online" \in Status
    BY <2>2, EventFacts DEF PtInfo, Status
  <2>4. TypeMeta'
    BY <2>2, <2>3, UpdateMeta
  <2> QED BY <2>1, <2>2, <2>4 DEF HandlerMeta
<1>9. CASE assignFailedHandler(i) \/ moveFinalHandler(i)
  <2>1. PICK f : HandlerStep(i, f)
    BY <1>9, lastHandlerFacts
  <2>2. HandlerMeta(f)
    BY <1>0, <1>9, lastHandlerFacts DEF HandlerMeta, TypeMeta
  <2> QED BY <2>1, <2>2
<1> QED BY <1>1, <1>2, <1>3, <1>4, <1>5, <1>6, <1>7, <1>8, <1>9 DEF EventStep

\* deleteEvent takes away an event that is nobody's caller.
LEMMA DeleteTypes ==
    ASSUME TypeInv, NEW i \in EventId, deleteEvent(i)
    PROVE  TypeMeta' /\ TypeEvents' /\ ExecInv'
<1>1. /\ i \in DOMAIN ev /\ ev[i].ph = "del" /\ ev' = Remove(ev, i) /\ tasks' \in SUBSET Task
      /\ mevents' = mevents \/ mevents' = Remove(mevents, ev[i].pt)
      /\ UNCHANGED <<ptView, node, eventMap, exec>>
  BY deleteEventFacts
<1>2. TypeMeta'
  <2>1. CASE mevents' = mevents
    BY <1>1, <2>1 DEF TypeInv, TypeMeta
  <2>2. CASE mevents' = Remove(mevents, ev[i].pt)
    <3>1. PICK p : p = ev[i].pt
      OBVIOUS
    <3>2. mevents' = [x \in DOMAIN mevents \ {p} |-> mevents[x]]
      BY <2>2, <3>1 DEF Remove
    <3>3. TypeMeta
      BY DEF TypeInv
    <3>4. /\ DOMAIN mevents' \subseteq DOMAIN mevents /\ mevents' \in [DOMAIN mevents' -> Entry]
          /\ \A q \in DOMAIN mevents' : GoodEntry(mevents'[q])
      BY <3>2, <3>3 DEF TypeMeta
    <3> QED BY <1>1, <3>3, <3>4 DEF TypeMeta
  <2> QED BY <1>1, <2>1, <2>2
<1>3. DOMAIN ev' = DOMAIN ev \ {i} /\ \A j \in DOMAIN ev' : ev'[j] = ev[j]
  BY <1>1 DEF Remove
<1>4. TypeEvents'
  <2>1. TypeEvents
    BY DEF TypeInv
  <2>2. ev' \in [DOMAIN ev' -> Event] /\ \A j \in DOMAIN ev' : Good(ev'[j])
    BY <1>1, <2>1 DEF TypeEvents, Remove
  <2> QED BY <1>1, <1>3, <2>1, <2>2 DEF TypeEvents
<1>5. ASSUME NEW n \in Node, NEW pt \in Pt PROVE Caller(exec[n][pt].caller, n, pt, ev')
  <2>1. Caller(exec[n][pt].caller, n, pt, ev)
    BY DEF TypeInv, ExecInv
  <2> QED BY <1>1, <1>3, <2>1 DEF Caller
<1> QED BY <1>1, <1>2, <1>4, <1>5 DEF ExecInv

\* The steps of an event keep the types.
LEMMA EventTypes ==
    ASSUME TypeInv, NEW i \in EventId, EventStep(i)
    PROVE  TypeInv'
<1>1. TypeCluster' /\ TypeStore' /\ exec' = exec
  BY EventRest DEF TypeInv, TypeCluster, TypeStore
<1>2. CASE deleteEvent(i)
  BY <1>1, <1>2, DeleteTypes DEF TypeInv
<1>3. CASE ~deleteEvent(i)
  <2>1. PICK f : HandlerStep(i, f) /\ HandlerMeta(f)
    BY <1>3, HandlerForm
  <2>2. TypeMeta' /\ tasks' = tasks
    BY <2>1 DEF HandlerMeta
  <2>3. TypeEvents' /\ ExecInv'
    BY <1>1, <2>1, <2>2, HandlerTypes
  <2> QED BY <1>1, <2>2, <2>3 DEF TypeInv
<1> QED BY <1>2, <1>3

\* The initial states are typed.
LEMMA InitTypes == Init => TypeInv
<1> SUFFICES ASSUME Init PROVE TypeInv
  OBVIOUS
<1>1. ptView \in [Pt -> [owner : Node, status : {"Online"}, ver : {1}]]
  BY DEF Init
<1>2. ptView \in [Pt -> PtInfo]
  <2>1. [owner : Node, status : {"Online"}, ver : {1}] \subseteq PtInfo
    BY DEF PtInfo, Status
  <2> QED BY <1>1, <2>1
<1>3. mevents = <<>> /\ ev = <<>>
  BY DEF Init
<1>4. DOMAIN mevents = {} /\ DOMAIN ev = {}
  BY <1>3
<1>5. mevents \in [DOMAIN mevents -> Entry] /\ ev \in [DOMAIN ev -> Event]
  BY <1>3, <1>4
<1>6. TypeMeta
  <2>1. node \in [Node -> DataNode]
    BY DEF Init, DataNode
  <2> QED BY <1>2, <1>4, <1>5, <2>1 DEF TypeMeta
<1>7. TypeEvents
  <2>1. eventMap \in [Pt -> EventId \cup {0}] /\ tasks \in SUBSET Task
    BY DEF Init
  <2> QED BY <1>4, <1>5, <2>1 DEF TypeEvents
<1>8. TypeCluster
  <2>1. <<>> \in Seq(SerfEvent)
    BY EmptySeq
  <2>2. serf \in [Node -> Seq(SerfEvent)]
    BY <2>1 DEF Init
  <2>3. gossip \in [Node -> [up : BOOLEAN, lt : Nat]]
    BY DEF Init
  <2> QED BY <2>2, <2>3 DEF Init, TypeCluster
<1>9. NoReq \in Req /\ NoReq.caller = 0
  BY DEF NoReq, Req
<1>10. exec = [n \in Node |-> [pt \in Pt |-> NoReq]]
  BY DEF Init
<1>11. TypeStore
  <2>1. exec \in [Node -> [Pt -> Req]]
    BY <1>9, <1>10
  <2>2. proc = [n \in Node |-> [up |-> TRUE, conn |-> 1]]
    BY DEF Init
  <2>3. proc \in [Node -> [up : BOOLEAN, conn : Nat]] /\ \A n \in Node : proc[n].up
    BY <2>2
  <2>4. part \in [Node -> [Pt -> {"none", "pre", "up"}]]
    BY DEF Init
  <2> QED BY <2>1, <2>3, <2>4 DEF TypeStore
<1>12. ExecInv
  BY <1>9, <1>10 DEF ExecInv, Caller
<1> QED BY <1>6, <1>7, <1>8, <1>11, <1>12 DEF TypeInv

\* What a step does to the events, the entries and the retries, whichever it is.
Quietly == UNCHANGED <<ev, eventMap, mevents>>
NoNewAlias == \A t \in tasks' : t.alias => \E u \in tasks : u.alias
EventForms ==
    \/ \E i, f : HandlerStep(i, f) /\ HandlerMeta(f)
    \/ \E i, f : AnswerStep(i, f) /\ mevents' = mevents /\ tasks' = tasks
    \/ \E i \in EventId : deleteEvent(i)
    \/ \E i, e : /\ AddStep(i, e) /\ mevents' = mevents /\ NoNewAlias
                 /\ e.alias => (\E u \in tasks : u.alias) \/ BalanceAlgo = "v1.1"
    \/ (\E kept, ids : LeaderStep(kept, ids)) /\ mevents' = mevents /\ tasks' = {}
    \/ Quietly /\ NoNewAlias

\* Every step keeps the types, and is of one of the forms.
LEMMA StepTypes ==
    ASSUME TypeInv, [Next]_vars
    PROVE  TypeInv' /\ EventForms
<1>1. CASE EventNext
  <2>1. PICK i \in EventId : EventStep(i)
    BY <1>1 DEF EventNext
  <2>2. TypeInv'
    BY <2>1, EventTypes
  <2>3. deleteEvent(i) \/ \E f : HandlerStep(i, f) /\ HandlerMeta(f)
    BY <2>1, HandlerForm
  <2> QED BY <2>2, <2>3 DEF EventForms
<1>2. CASE RpcNext
  <2>1. RpcStep
    BY <1>2, RpcNextStep
  <2>2. TypeMeta' /\ TypeCluster'
    BY <2>1 DEF RpcStep, TypeInv, TypeMeta, TypeCluster
  <2>3. TypeInv'
    BY <2>1, <2>2 DEF RpcStep, TypeInv
  <2>4. EventForms
    BY <2>1 DEF RpcStep, EventForms, Quietly, NoNewAlias
  <2> QED BY <2>3, <2>4
<1>3. CASE NodeNext \/ \E n \in Node : PingNode(n)
  <2>1. NodeStep
    BY <1>3, NodeNextStep, PingNodeStep
  <2>2. TypeInv'
    BY <2>1 DEF NodeStep, TypeInv, TypeMeta, TypeEvents
  <2>3. EventForms
    BY <2>1 DEF NodeStep, EventForms, Quietly, NoNewAlias
  <2> QED BY <2>2, <2>3
<1>4. ASSUME NEW n \in Node, handleStoreEvent(n)
      PROVE  TypeInv' /\ EventForms
  <2>1. /\ UNCHANGED <<mevents, ev, eventMap, tasks, members, takeover, exec>>
        /\ TypeMeta' /\ TypeCluster' /\ TypeStore'
    BY <1>4, handleStoreEventStep
  <2>2. TypeInv'
    BY <2>1 DEF TypeInv, TypeEvents, ExecInv
  <2>3. EventForms
    BY <2>1 DEF EventForms, Quietly, NoNewAlias
  <2> QED BY <2>2, <2>3
<1>5. ASSUME NEW n \in Node, handleClusterMember(n)
      PROVE  TypeInv' /\ EventForms
  <2>1. UNCHANGED <<ptView, node, mevents, ev, eventMap, tasks, exec>> /\ TypeCluster' /\ TypeStore'
    BY <1>5, handleClusterMemberStep
  <2>2. TypeInv'
    BY <2>1 DEF TypeInv, TypeMeta, TypeEvents, ExecInv
  <2>3. EventForms
    BY <2>1 DEF EventForms, Quietly, NoNewAlias
  <2> QED BY <2>2, <2>3
<1>6. ASSUME NEW n \in Node, takeoverDbPts(n)
      PROVE  TypeInv' /\ EventForms
  <2>1. /\ UNCHANGED <<ptView, node, mevents, ev, eventMap, exec>> /\ TypeCluster' /\ TypeStore'
        /\ tasks' \in SUBSET Task /\ \A t \in tasks' : t \in tasks \/ ~t.alias
    BY <1>6, takeoverDbPtsStep
  <2>2. TypeInv'
    BY <2>1 DEF TypeInv, TypeMeta, TypeEvents, ExecInv
  <2>3. EventForms
    BY <2>1 DEF EventForms, Quietly, NoNewAlias
  <2> QED BY <2>2, <2>3
<1>7. ASSUME NEW t \in tasks, processFailedDbPt(t)
      PROVE  TypeInv' /\ EventForms
  <2>1. /\ UNCHANGED <<ptView, node, mevents, exec>> /\ TypeCluster' /\ TypeStore'
        /\ tasks' \in SUBSET Task /\ \A u \in tasks' : \E v \in tasks : u.alias = v.alias
    BY <1>7, processFailedDbPtStep
  <2>2. TypeMeta' /\ NoNewAlias
    BY <2>1 DEF TypeInv, TypeMeta, NoNewAlias
  <2>3. CASE UNCHANGED <<ev, eventMap>>
    BY <2>1, <2>2, <2>3 DEF TypeInv, TypeEvents, ExecInv, EventForms, Quietly
  <2>4. ASSUME NEW i, NEW e, AddStep(i, e), e.alias = t.alias
        PROVE  TypeInv' /\ EventForms
    <3>1. TypeEvents' /\ ExecInv'
      BY <2>1, <2>4, AddTypes
    <3>2. e.alias => \E u \in tasks : u.alias
      BY <2>4
    <3> QED BY <2>1, <2>2, <2>4, <3>1, <3>2 DEF TypeInv, EventForms
  <2> QED BY <1>7, <2>3, <2>4, processFailedDbPtStep
<1>8. ASSUME NEW pt \in Pt, NEW n \in Node, balanceIfNeeded(pt, n)
      PROVE  TypeInv' /\ EventForms
  <2>1. UNCHANGED <<ptView, node, mevents, exec, tasks>> /\ TypeCluster' /\ TypeStore'
    BY <1>8, balanceIfNeededStep
  <2>2. PICK i, e : AddStep(i, e) /\ e.alias = (BalanceAlgo = "v1.1")
    BY <1>8, balanceIfNeededStep
  <2>3. tasks \in SUBSET Task
    BY DEF TypeInv, TypeEvents
  <2>4. TypeEvents' /\ ExecInv'
    BY <2>1, <2>2, <2>3, AddTypes
  <2>5. TypeMeta' /\ NoNewAlias
    BY <2>1 DEF TypeInv, TypeMeta, NoNewAlias
  <2>6. e.alias => BalanceAlgo = "v1.1"
    BY <2>2
  <2> QED BY <2>1, <2>2, <2>4, <2>5, <2>6 DEF TypeInv, EventForms
<1>9. CASE LeaderChange
  BY <1>9, LeaderTypes, LeaderChangeStep DEF EventForms
<1>10. CASE UNCHANGED vars
  <2>1. UNCHANGED <<ptView, node, mevents, members, serf, takeover, ev, eventMap, tasks, proc, part, exec, gossip>>
    BY <1>10 DEF vars, metaVars, cmVars, msmVars, storeVars
  <2>2. TypeInv'
    BY <2>1 DEF TypeInv, TypeMeta, TypeEvents, TypeCluster, TypeStore, ExecInv
  <2>3. EventForms
    BY <2>1 DEF EventForms, Quietly, NoNewAlias
  <2> QED BY <2>2, <2>3
<1> QED BY <1>1, <1>2, <1>3, <1>4, <1>5, <1>6, <1>7, <1>8, <1>9, <1>10 DEF Next, ClusterNext, BalanceNext

\* The types hold in every reachable state.
LEMMA TypesAlways == Spec => []TypeInv
<1>1. TypeInv /\ [Next]_vars => TypeInv'
  BY StepTypes
<1> QED BY <1>1, InitTypes, PTL DEF Spec

\* Whatever is lost, late or repeated, an event is in a state of its own type: every
\* answer meets an event that still waits for it (ExecInv), so stateTransition is only
\* called in the states it knows, and an AssignEvent never enters a state of a move.
THEOREM TypeOKAlways == Spec => []TypeOK
<1>1. TypeInv => TypeOK
  <2> SUFFICES ASSUME TypeInv PROVE TypeOK
    OBVIOUS
  <2>1. ptView \in [Pt -> PtInfo] /\ DOMAIN mevents \subseteq Pt
    BY DEF TypeInv, TypeMeta
  <2>2. node \in [Node -> [status : {"alive", "failed"}, lt : Nat, connID : Nat, aliveConn : Nat]]
    BY DEF TypeInv, TypeMeta, DataNode
  <2>3. DOMAIN ev \subseteq EventId /\ eventMap \in [Pt -> EventId \cup {0}]
    BY DEF TypeInv, TypeEvents
  <2>4. ASSUME NEW i \in DOMAIN ev
        PROVE  /\ ev[i].pt \in Pt /\ ev[i].info \in PtInfo /\ ev[i].dst \in Node
               /\ ev[i].ph \in {"run", "sent", "del"}
               /\ IF ev[i].type = "assign" THEN ev[i].cur \in AssignStates
                  ELSE ev[i].type = "move" /\ ev[i].cur \in MoveStates /\ ev[i].src \in Node
    <3>1. ev[i] \in Event /\ Good(ev[i]) /\ ev[i].pt \in Pt /\ ev[i].info \in PtInfo /\ ev[i].dst \in Node
      BY EventFacts
    <3>2. ev[i].ph \in {"run", "sent", "del"} /\ ev[i].type \in {"assign", "move"}
      BY <3>1 DEF Event
    <3> QED BY <3>1, <3>2 DEF Good
  <2>5. /\ members \subseteq Node /\ takeover \subseteq Node /\ part \in [Node -> [Pt -> {"none", "pre", "up"}]]
        /\ \A n \in Node, pt \in Pt : part[n][pt] # "none" => proc[n].up
    BY DEF TypeInv, TypeCluster, TypeStore
  <2> QED BY <2>1, <2>2, <2>3, <2>4, <2>5 DEF TypeOK
<1> QED BY <1>1, TypesAlways, PTL

-----------------------------------------------------------------------------
(* Entries of MigrateEvents do not leak.                                   *)

\* Changing one event without forgetting that it removes its entry.
LEMMA KeptRemover ==
    ASSUME TypeInv, NoLeakedEvent, NEW i \in DOMAIN ev, NEW f, Same(ev[i], f), ev' = [ev EXCEPT ![i] = f],
           DOMAIN mevents' \subseteq DOMAIN mevents \cup (IF f.processed THEN {f.pt} ELSE {})
    PROVE  NoLeakedEvent'
<1>1. DOMAIN ev' = DOMAIN ev /\ \A j \in DOMAIN ev : ev'[j] = IF j = i THEN f ELSE ev[j]
  BY DEF TypeInv, TypeEvents
<1>2. f.pt = ev[i].pt /\ f.rec = ev[i].rec /\ (ev[i].processed => f.processed)
  BY DEF Same
<1>3. ASSUME NEW p \in DOMAIN mevents'
      PROVE  \E j \in DOMAIN ev' : ev'[j].pt = p /\ (ev'[j].processed \/ ev'[j].rec)
  <2>1. CASE p \in DOMAIN mevents
    <3>1. PICK j \in DOMAIN ev : ev[j].pt = p /\ (ev[j].processed \/ ev[j].rec)
      BY <2>1 DEF NoLeakedEvent
    <3> QED BY <1>1, <1>2, <3>1
  <2>2. CASE f.processed /\ p = f.pt
    BY <1>1, <2>2
  <2> QED BY <2>1, <2>2
<1> QED BY <1>3 DEF NoLeakedEvent

\* Every step keeps a remover for every entry.
LEMMA LeakStep ==
    ASSUME TypeInv, NoLeakedEvent, EventForms
    PROVE  NoLeakedEvent'
<1>1. ASSUME NEW i, NEW f, HandlerStep(i, f), HandlerMeta(f) PROVE NoLeakedEvent'
  <2>1. i \in DOMAIN ev /\ Same(ev[i], f) /\ ev' = [ev EXCEPT ![i] = f]
    BY <1>1 DEF HandlerStep
  <2>2. DOMAIN mevents' \subseteq DOMAIN mevents \cup (IF f.processed THEN {f.pt} ELSE {})
    BY <1>1 DEF HandlerMeta
  <2> QED BY <2>1, <2>2, KeptRemover
<1>2. ASSUME NEW i, NEW f, AnswerStep(i, f), mevents' = mevents PROVE NoLeakedEvent'
  <2>1. i \in DOMAIN ev /\ Same(ev[i], f) /\ ev' = [ev EXCEPT ![i] = f]
    BY <1>2 DEF AnswerStep, Answers
  <2> QED BY <1>2, <2>1, KeptRemover
<1>3. ASSUME NEW i \in EventId, deleteEvent(i) PROVE NoLeakedEvent'
  <2>1. /\ i \in DOMAIN ev /\ ev' = Remove(ev, i)
        /\ mevents' = IF ev[i].processed \/ ev[i].rec THEN Remove(mevents, ev[i].pt) ELSE mevents
    BY <1>3, deleteEventFacts
  <2>2. DOMAIN ev' = DOMAIN ev \ {i} /\ \A j \in DOMAIN ev' : ev'[j] = ev[j]
    BY <2>1 DEF Remove
  <2>3. ASSUME NEW p \in DOMAIN mevents'
        PROVE  \E j \in DOMAIN ev' : ev'[j].pt = p /\ (ev'[j].processed \/ ev'[j].rec)
    <3>1. p \in DOMAIN mevents /\ ((ev[i].processed \/ ev[i].rec) => p # ev[i].pt)
      BY <2>1 DEF Remove
    <3>2. PICK j \in DOMAIN ev : ev[j].pt = p /\ (ev[j].processed \/ ev[j].rec)
      BY <3>1 DEF NoLeakedEvent
    <3>3. j # i
      BY <3>1, <3>2
    <3> QED BY <2>2, <3>2, <3>3
  <2> QED BY <2>3 DEF NoLeakedEvent
<1>4. ASSUME NEW i, NEW e, AddStep(i, e), mevents' = mevents PROVE NoLeakedEvent'
  <2>1. i \notin DOMAIN ev /\ ev' = [x \in DOMAIN ev \cup {i} |-> IF x = i THEN e ELSE ev[x]]
    BY <1>4 DEF AddStep, Put
  <2>2. DOMAIN ev \subseteq DOMAIN ev' /\ \A j \in DOMAIN ev : ev'[j] = ev[j]
    BY <2>1
  <2> QED BY <1>4, <2>2 DEF NoLeakedEvent
<1>5. ASSUME NEW kept, NEW ids, LeaderStep(kept, ids), mevents' = mevents PROVE NoLeakedEvent'
  <2>1. ASSUME NEW p \in DOMAIN mevents
        PROVE  \E j \in DOMAIN ev' : ev'[j].pt = p /\ (ev'[j].processed \/ ev'[j].rec)
    <3>1. ids[p] \in DOMAIN ev' /\ ev'[ids[p]] = RecoveredEvent(p)
      BY <1>5 DEF LeaderStep
    <3>2. RecoveredEvent(p).pt = p /\ RecoveredEvent(p).rec
      BY RecoveredFacts
    <3> QED BY <3>1, <3>2
  <2> QED BY <1>5, <2>1 DEF NoLeakedEvent
<1>6. CASE Quietly
  BY <1>6 DEF Quietly, NoLeakedEvent
<1> QED BY <1>1, <1>2, <1>3, <1>4, <1>5, <1>6 DEF EventForms

\* Every entry of MigrateEvents has an event that removes it, across changes of the
\* leader in any state, refusals and retries: the entry that blocks later events of
\* its partition (PtEventIsAlreadyExist) is never left alone.
THEOREM NoLeakedEventAlways == Spec => []NoLeakedEvent
<1>1. Init => NoLeakedEvent
  <2> SUFFICES ASSUME Init PROVE NoLeakedEvent
    OBVIOUS
  <2>1. DOMAIN mevents = {}
    BY DEF Init
  <2> QED BY <2>1 DEF NoLeakedEvent
<1>2. TypeInv /\ NoLeakedEvent /\ [Next]_vars => NoLeakedEvent'
  BY StepTypes, LeakStep
<1> QED BY <1>1, <1>2, TypesAlways, PTL DEF Spec

-----------------------------------------------------------------------------
(* One event per partition.                                                *)

\* An event that makes progress is the one eventMap has for its partition.
SoleInv == \A i \in DOMAIN ev : ev[i].ph # "del" => eventMap[ev[i].pt] = i

\* Every step keeps the events that make progress in eventMap, unless the same process leads again.
LEMMA SoleStep ==
    ASSUME "same" \notin Faults, TypeInv, SoleInv, EventForms
    PROVE  SoleInv'
<1>0. /\ DOMAIN ev \subseteq EventId /\ ev \in [DOMAIN ev -> Event] /\ eventMap \in [Pt -> EventId \cup {0}]
      /\ \A j \in DOMAIN ev : j # 0 /\ ev[j].pt \in Pt
  BY EventFacts, IdFacts DEF TypeInv, TypeEvents
<1>1. ASSUME NEW i, NEW f, HandlerStep(i, f) PROVE SoleInv'
  <2>1. /\ i \in DOMAIN ev /\ ev[i].ph = "run" /\ ev' = [ev EXCEPT ![i] = f] /\ f.pt = ev[i].pt
        /\ eventMap' = IF f.ph = "del" /\ eventMap[f.pt] = i THEN [eventMap EXCEPT ![f.pt] = 0] ELSE eventMap
    BY <1>1 DEF HandlerStep, Same
  <2>2. DOMAIN ev' = DOMAIN ev /\ \A j \in DOMAIN ev : ev'[j] = IF j = i THEN f ELSE ev[j]
    BY <1>0, <2>1
  <2>3. ASSUME NEW j \in DOMAIN ev, ev'[j].ph # "del" PROVE eventMap'[ev'[j].pt] = j
    <3>1. CASE j = i
      BY <2>1, <2>2, <2>3, <3>1 DEF SoleInv
    <3>2. CASE j # i
      <4>1. ev'[j] = ev[j] /\ eventMap[ev[j].pt] = j /\ ev[j].pt \in Pt
        BY <1>0, <2>2, <2>3, <3>2 DEF SoleInv
      <4> QED BY <1>0, <2>1, <3>2, <4>1
    <3> QED BY <3>1, <3>2
  <2> QED BY <2>2, <2>3 DEF SoleInv
<1>2. ASSUME NEW i, NEW f, AnswerStep(i, f) PROVE SoleInv'
  <2>1. i \in DOMAIN ev /\ ev[i].ph = "sent" /\ f.pt = ev[i].pt /\ ev' = [ev EXCEPT ![i] = f] /\ eventMap' = eventMap
    BY <1>2 DEF AnswerStep, Answers, Same
  <2>2. DOMAIN ev' = DOMAIN ev /\ \A j \in DOMAIN ev : ev'[j] = IF j = i THEN f ELSE ev[j]
    BY <1>0, <2>1
  <2> QED BY <2>1, <2>2 DEF SoleInv
<1>3. ASSUME NEW i \in EventId, deleteEvent(i) PROVE SoleInv'
  <2>1. i \in DOMAIN ev /\ ev' = Remove(ev, i) /\ eventMap' = eventMap
    BY <1>3, deleteEventFacts
  <2>2. DOMAIN ev' = DOMAIN ev \ {i} /\ \A j \in DOMAIN ev' : ev'[j] = ev[j]
    BY <2>1 DEF Remove
  <2> QED BY <2>1, <2>2 DEF SoleInv
<1>4. ASSUME NEW i, NEW e, AddStep(i, e) PROVE SoleInv'
  <2>1. /\ i \notin DOMAIN ev /\ ev' = [x \in DOMAIN ev \cup {i} |-> IF x = i THEN e ELSE ev[x]]
        /\ e.pt \in Pt /\ eventMap[e.pt] = 0 /\ eventMap' = [eventMap EXCEPT ![e.pt] = i]
    BY <1>4 DEF AddStep, Put, Event
  <2>2. DOMAIN ev' = DOMAIN ev \cup {i} /\ ev'[i] = e /\ \A j \in DOMAIN ev : ev'[j] = ev[j]
    BY <2>1
  <2>3. \A p \in Pt : eventMap'[p] = IF p = e.pt THEN i ELSE eventMap[p]
    BY <1>0, <2>1
  <2> QED BY <1>0, <2>1, <2>2, <2>3 DEF SoleInv
<1>5. ASSUME NEW kept, NEW ids, LeaderStep(kept, ids) PROVE SoleInv'
  <2>1. /\ DOMAIN ev' = {ids[p] : p \in DOMAIN mevents}
        /\ \A p \in DOMAIN mevents : ev'[ids[p]] = RecoveredEvent(p)
        /\ eventMap' = [pt \in Pt |-> IF pt \in DOMAIN mevents THEN ids[pt] ELSE 0]
    BY <1>5 DEF LeaderStep
  <2>2. \A p \in DOMAIN mevents : RecoveredEvent(p).pt = p
    BY RecoveredFacts
  <2>3. DOMAIN mevents \subseteq Pt
    BY DEF TypeInv, TypeMeta
  <2> QED BY <2>1, <2>2, <2>3 DEF SoleInv
<1>6. CASE Quietly
  BY <1>6 DEF Quietly, SoleInv
<1> QED BY <1>1, <1>2, <1>3, <1>4, <1>5, <1>6 DEF EventForms

\* Events that make progress are in eventMap, in every reachable state.
LEMMA SoleAlways == "same" \notin Faults => (Spec => []SoleInv)
<1> SUFFICES ASSUME "same" \notin Faults PROVE Spec => []SoleInv
  OBVIOUS
<1>1. Init => SoleInv
  <2> SUFFICES ASSUME Init PROVE SoleInv
    OBVIOUS
  <2>1. DOMAIN ev = {}
    BY DEF Init
  <2> QED BY <2>1 DEF SoleInv
<1>2. TypeInv /\ SoleInv /\ [Next]_vars => SoleInv'
  BY StepTypes, SoleStep
<1> QED BY <1>1, <1>2, TypesAlways, PTL DEF Spec

\* eventMap lets one event per partition make progress ("keep only one of db pt events
\* processed"), for both versions of the balancer, as long as no process gets the
\* leadership back while it still has events of its former term.
THEOREM OneEventPerPtAlways == "same" \notin Faults => (Spec => []OneEventPerPt)
<1> SUFFICES ASSUME "same" \notin Faults PROVE Spec => []OneEventPerPt
  OBVIOUS
<1>1. SoleInv => OneEventPerPt
  BY DEF SoleInv, OneEventPerPt
<1> QED BY <1>1, SoleAlways, PTL

-----------------------------------------------------------------------------
(* Online only on a node that is alive.                                    *)

\* With the v1.0 balancer every event has its own copy of PtInfo.
AliasInv == (\A i \in DOMAIN ev : ~ev[i].alias) /\ (\A t \in tasks : ~t.alias)

\* No step of the v1.0 balancer makes an alias.
LEMMA AliasStep ==
    ASSUME BalanceAlgo = "v1.0", TypeInv, AliasInv, EventForms
    PROVE  AliasInv'
<1>0. ev \in [DOMAIN ev -> Event]
  BY DEF TypeInv, TypeEvents
<1>1. ASSUME NEW i, NEW f, HandlerStep(i, f), HandlerMeta(f) PROVE AliasInv'
  <2>1. i \in DOMAIN ev /\ f.alias = ev[i].alias /\ ev' = [ev EXCEPT ![i] = f] /\ tasks' = tasks
    BY <1>1 DEF HandlerStep, HandlerMeta, Same
  <2> QED BY <1>0, <2>1 DEF AliasInv
<1>2. ASSUME NEW i, NEW f, AnswerStep(i, f), tasks' = tasks PROVE AliasInv'
  <2>1. i \in DOMAIN ev /\ f.alias = ev[i].alias /\ ev' = [ev EXCEPT ![i] = f]
    BY <1>2 DEF AnswerStep, Answers, Same
  <2> QED BY <1>0, <1>2, <2>1 DEF AliasInv
<1>3. ASSUME NEW i \in EventId, deleteEvent(i) PROVE AliasInv'
  <2>1. /\ i \in DOMAIN ev /\ ev' = Remove(ev, i)
        /\ \A t \in tasks' : t.alias => (\E u \in tasks : u.alias) \/ ev[i].alias
    BY <1>3, deleteEventFacts
  <2> QED BY <2>1 DEF AliasInv, Remove
<1>4. ASSUME NEW i, NEW e, AddStep(i, e), NoNewAlias, e.alias => (\E u \in tasks : u.alias) \/ BalanceAlgo = "v1.1"
      PROVE AliasInv'
  <2>1. i \notin DOMAIN ev /\ ev' = [x \in DOMAIN ev \cup {i} |-> IF x = i THEN e ELSE ev[x]]
    BY <1>4 DEF AddStep, Put
  <2>2. ~e.alias
    BY <1>4 DEF AliasInv
  <2>3. \A t \in tasks' : ~t.alias
    BY <1>4 DEF AliasInv, NoNewAlias
  <2> QED BY <2>1, <2>2, <2>3 DEF AliasInv
<1>5. ASSUME NEW kept, NEW ids, LeaderStep(kept, ids), tasks' = {} PROVE AliasInv'
  <2>1. /\ kept \subseteq DOMAIN ev /\ DOMAIN ev' = kept \cup {ids[p] : p \in DOMAIN mevents}
        /\ \A i \in kept : ev'[i] = ev[i]
        /\ \A p \in DOMAIN mevents : ev'[ids[p]] = RecoveredEvent(p)
    BY <1>5 DEF LeaderStep
  <2>2. \A p \in DOMAIN mevents : ~RecoveredEvent(p).alias
    BY RecoveredFacts
  <2> QED BY <1>5, <2>1, <2>2 DEF AliasInv
<1>6. CASE Quietly /\ NoNewAlias
  BY <1>6 DEF Quietly, NoNewAlias, AliasInv
<1> QED BY <1>1, <1>2, <1>3, <1>4, <1>5, <1>6 DEF EventForms

\* With the v1.0 balancer no event has an alias, in any reachable state.
LEMMA AliasAlways == BalanceAlgo = "v1.0" => (Spec => []AliasInv)
<1> SUFFICES ASSUME BalanceAlgo = "v1.0" PROVE Spec => []AliasInv
  OBVIOUS
<1>1. Init => AliasInv
  <2> SUFFICES ASSUME Init PROVE AliasInv
    OBVIOUS
  <2>1. DOMAIN ev = {} /\ tasks = {}
    BY DEF Init
  <2> QED BY <2>1 DEF AliasInv
<1>2. TypeInv /\ AliasInv /\ [Next]_vars => AliasInv'
  BY StepTypes, AliasStep
<1> QED BY <1>1, <1>2, TypesAlways, PTL DEF Spec

\* A raft command that sets owner and status of a partition leaves it online on a
\* node that is alive, unless the event writes to PtView through an alias.
LEMMA UpdateAlive ==
    ASSUME TypeInv, OnlineOnAliveNode, NEW e \in Event, ~e.alias, NEW o \in Node, NEW s \in Status,
           UpdatePtInfo(e, o, s), node' = node
    PROVE  OnlineOnAliveNode'
<1>1. /\ \A p \in Pt : p # e.pt => ptView'[p] = ptView[p]
      /\ \/ ptView' = ptView
         \/ ptView'[e.pt].owner = o /\ ptView'[e.pt].status = s /\ ~OnlineRefused(o, s)
  BY UpdatePtInfoFacts
<1>2. ASSUME NEW p \in Pt, ptView'[p].status = "Online" PROVE node[ptView'[p].owner].status = "alive"
  <2>1. CASE ptView'[p] = ptView[p]
    BY <1>2, <2>1 DEF OnlineOnAliveNode
  <2>2. CASE p = e.pt /\ ptView'[e.pt].owner = o /\ ptView'[e.pt].status = s /\ ~OnlineRefused(o, s)
    BY <1>2, <2>2 DEF OnlineRefused
  <2> QED BY <1>1, <2>1, <2>2
<1> QED BY <1>2 DEF OnlineOnAliveNode

\* The steps of an event keep the partitions online only on nodes that are alive.
LEMMA EventAlive ==
    ASSUME TypeInv, AliasInv, OnlineOnAliveNode, NEW i \in EventId, EventStep(i)
    PROVE  OnlineOnAliveNode'
<1>1. CASE UNCHANGED <<ptView, node>>
  BY <1>1 DEF OnlineOnAliveNode
<1>2. ASSUME NEW o \in Node, NEW s \in Status, i \in DOMAIN ev, UpdatePtInfo(ev[i], o, s), node' = node
      PROVE  OnlineOnAliveNode'
  <2>1. ev[i] \in Event /\ ~ev[i].alias
    BY <1>2, EventFacts DEF AliasInv
  <2> QED BY <1>2, <2>1, UpdateAlive
<1>3. CASE storeTransitionState(i) \/ createMigrateEvent(i) \/ initHandler(i) \/ moveSendHandler(i)
           \/ assignFailedHandler(i) \/ moveFinalHandler(i) \/ deleteEvent(i)
  <2>1. UNCHANGED <<ptView, node>>
    BY <1>3 DEF storeTransitionState, createMigrateEvent, initHandler, moveSendHandler,
                assignFailedHandler, moveFinalHandler, deleteEvent, metaVars
  <2> QED BY <1>1, <2>1
<1>4. CASE moveInitHandler(i)
  <2>1. PICK v \in Nat : ptView' = [ptView EXCEPT ![ev[i].pt].ver = v]
    BY <1>4, moveInitHandlerFacts
  <2>2. ptView \in [Pt -> PtInfo] /\ node' = node
    BY <1>4, moveInitHandlerFacts DEF TypeInv, TypeMeta
  <2>3. \A p \in Pt : ptView'[p].owner = ptView[p].owner /\ ptView'[p].status = ptView[p].status
    BY <2>1, <2>2 DEF PtInfo
  <2> QED BY <2>2, <2>3 DEF OnlineOnAliveNode
<1>5. CASE startAssignHandler(i)
  <2>1. i \in DOMAIN ev /\ UpdatePtInfo(ev[i], ev[i].dst, Info(ev[i]).status) /\ node' = node
    BY <1>5, startAssignHandlerFacts
  <2>2. ev[i].dst \in Node /\ Info(ev[i]).status \in Status
    BY <2>1, EventFacts DEF PtInfo
  <2> QED BY <1>2, <2>1, <2>2
<1>6. CASE moveOffloadedHandler(i)
  <2>1. i \in DOMAIN ev /\ UpdatePtInfo(ev[i], ev[i].src, "Offline") /\ node' = node /\ ev[i].src \in Node
    BY <1>6, moveOffloadedHandlerFacts
  <2>2. "Offline" \in Status
    BY DEF Status
  <2> QED BY <1>2, <2>1, <2>2
<1>7. CASE assignedHandler(i)
  <2>1. i \in DOMAIN ev /\ UpdatePtInfo(ev[i], Info(ev[i]).owner, "Online") /\ node' = node
    BY <1>7, assignedHandlerFacts
  <2>2. "Online" \in Status /\ Info(ev[i]).owner \in Node
    BY <2>1, EventFacts DEF Status, PtInfo
  <2> QED BY <1>2, <2>1, <2>2
<1> QED BY <1>3, <1>4, <1>5, <1>6, <1>7 DEF EventStep

\* So does every other step: the raft command about a node takes all the partitions
\* of the node offline with it.
LEMMA AliveStep ==
    ASSUME TypeInv, AliasInv, OnlineOnAliveNode, [Next]_vars
    PROVE  OnlineOnAliveNode'
<1>1. CASE UNCHANGED <<ptView, node>>
  BY <1>1 DEF OnlineOnAliveNode
<1>2. CASE EventNext
  BY <1>2, EventAlive DEF EventNext
<1>3. CASE RpcNext
  BY <1>1, <1>3, RpcNextStep DEF RpcStep
<1>4. CASE NodeNext \/ \E n \in Node : PingNode(n)
  <2>1. ptView' = ptView /\ \A m \in Node : node'[m].status = node[m].status
    BY <1>4, NodeNextStep, PingNodeStep DEF NodeStep
  <2>2. \A p \in Pt : ptView[p].owner \in Node
    BY DEF TypeInv, TypeMeta, PtInfo
  <2> QED BY <2>1, <2>2 DEF OnlineOnAliveNode
<1>5. ASSUME NEW n \in Node, handleStoreEvent(n) PROVE OnlineOnAliveNode'
  <2>1. UpdateStep(n)
    BY <1>5, handleStoreEventStep
  <2>2. ASSUME \A m \in Node : m # n => node'[m] = node[m],
               \A p \in Pt : IF ptView[p].owner = n
                             THEN ptView'[p].owner = n /\ ptView'[p].status = "Offline"
                             ELSE ptView'[p] = ptView[p]
        PROVE  OnlineOnAliveNode'
    <3>1. ASSUME NEW p \in Pt, ptView'[p].status = "Online" PROVE node'[ptView'[p].owner].status = "alive"
      <4>1. ptView[p].owner # n /\ ptView'[p] = ptView[p]
        BY <2>2, <3>1
      <4>2. ptView[p].owner \in Node
        BY DEF TypeInv, TypeMeta, PtInfo
      <4> QED BY <2>2, <3>1, <4>1, <4>2 DEF OnlineOnAliveNode
    <3> QED BY <3>1 DEF OnlineOnAliveNode
  <2> QED BY <1>1, <2>1, <2>2 DEF UpdateStep
<1>6. CASE (\E n \in Node : handleClusterMember(n) \/ takeoverDbPts(n))
           \/ (\E t \in tasks : processFailedDbPt(t)) \/ BalanceNext \/ LeaderChange
  <2>1. UNCHANGED <<ptView, node>>
    BY <1>6 DEF handleClusterMember, takeoverDbPts, processFailedDbPt, BalanceNext, balanceIfNeeded,
                LeaderChange, metaVars
  <2> QED BY <1>1, <2>1
<1>7. CASE UNCHANGED vars
  BY <1>1, <1>7 DEF vars, metaVars
<1> QED BY <1>2, <1>3, <1>4, <1>5, <1>6, <1>7 DEF Next, ClusterNext

\* With the v1.0 balancer a partition is online only on a node the cluster believes to
\* be alive, however reports of the gossip, answers and leader changes interleave:
\* UpdatePtInfo refuses Online for a node that is not alive, and UpdateNodeStatus
\* takes the partitions offline in the same command that marks the node.
THEOREM OnlineOnAliveNodeAlways == BalanceAlgo = "v1.0" => (Spec => []OnlineOnAliveNode)
<1> SUFFICES ASSUME BalanceAlgo = "v1.0" PROVE Spec => []OnlineOnAliveNode
  OBVIOUS
<1>1. Init => OnlineOnAliveNode
  BY DEF Init, OnlineOnAliveNode
<1>2. TypeInv /\ AliasInv /\ OnlineOnAliveNode /\ [Next]_vars => OnlineOnAliveNode'
  BY AliveStep
<1> QED BY <1>1, <1>2, TypesAlways, AliasAlways, PTL DEF Spec

-----------------------------------------------------------------------------
(* The owner changes only offline.                                         *)

\* When the partition is online, the copy in the event (or entry) is stale, so that
\* UpdatePtInfo refuses it, or its target is the owner already.
Late(q, info, dst) == q.status = "Online" => info.status = "Offline" \/ q.owner = dst

\* What an event knows: a move assigns only what it has set offline, has the source
\* for the owner until then, and the target once the request to assign is sent; the
\* entry of the event names the same target.
EventOwn(e, v, m) ==
    /\ e.cur = "Assign" => e.info.status = "Offline"
    /\ e.type = "assign" /\ e.cur \in {"Init", "StartAssign"} => Late(v[e.pt], e.info, e.dst)
    /\ e.type = "move" /\ e.cur \notin {"Assign", "Assigned", "AssignFailed", "Final"} => e.info.owner = e.src
    /\ e.cur = "Assigned" \/ (e.ph = "sent" /\ e.cur \in {"StartAssign", "Assign"}) => e.info.owner = e.dst
    /\ (e.cur # "Init" \/ e.op # 0) /\ e.pt \in DOMAIN m => m[e.pt].dst = e.dst
EntryOwn(q, m) == IF m.type = "assign" THEN Late(q, m.info, m.dst) ELSE m.info.owner = m.src
OwnInv ==
    /\ \A i \in DOMAIN ev : ev[i].ph # "del" => EventOwn(ev[i], ptView, mevents)
    /\ \A p \in DOMAIN mevents : EntryOwn(ptView[p], mevents[p])

\* A partition goes offline, or owner and status stay.
Calm(q, r) == r.status = "Offline" \/ (r.status = q.status /\ r.owner = q.owner)

\* No owner changes but of a partition that is offline before and after.
Turn ==
    \A pt \in Pt : ptView'[pt].owner # ptView[pt].owner =>
                      ptView[pt].status = "Offline" /\ ptView'[pt].status = "Offline"

\* An event depends only on its own partition, which may go offline.
LEMMA OwnKept ==
    ASSUME NEW e, NEW v, NEW w, NEW m, NEW k, EventOwn(e, v, m), Calm(v[e.pt], w[e.pt]),
           e.pt \in DOMAIN k => e.pt \in DOMAIN m /\ k[e.pt].dst = m[e.pt].dst
    PROVE  EventOwn(e, w, k)
<1>1. Late(v[e.pt], e.info, e.dst) => Late(w[e.pt], e.info, e.dst)
  BY DEF Calm, Late
<1>2. (e.cur # "Init" \/ e.op # 0) /\ e.pt \in DOMAIN k => k[e.pt].dst = e.dst
  BY DEF EventOwn
<1> QED BY <1>1, <1>2 DEF EventOwn

\* Nor does an entry mind that its partition goes offline.
LEMMA EntryKept ==
    ASSUME NEW q, NEW r, NEW m, EntryOwn(q, m), Calm(q, r)
    PROVE  EntryOwn(r, m)
BY DEF EntryOwn, Late, Calm

\* A handler concerns its own partition: no other event of it makes progress.
LEMMA OwnHandler ==
    ASSUME TypeInv, SoleInv, OwnInv, NEW i, NEW f, HandlerStep(i, f),
           \A p \in Pt : p # ev[i].pt => Calm(ptView[p], ptView'[p]),
           f.ph # "del" => EventOwn(f, ptView', mevents'),
           \A p \in DOMAIN mevents' : p # ev[i].pt => p \in DOMAIN mevents /\ mevents'[p] = mevents[p],
           ev[i].pt \in DOMAIN mevents' => EntryOwn(ptView'[ev[i].pt], mevents'[ev[i].pt])
    PROVE  OwnInv'
<1>1. i \in DOMAIN ev /\ ev[i].ph = "run" /\ ev' = [ev EXCEPT ![i] = f]
  BY DEF HandlerStep
<1>2. DOMAIN ev' = DOMAIN ev /\ \A j \in DOMAIN ev : ev'[j] = IF j = i THEN f ELSE ev[j]
  BY <1>1 DEF TypeInv, TypeEvents
<1>3. ASSUME NEW j \in DOMAIN ev, ev'[j].ph # "del" PROVE EventOwn(ev'[j], ptView', mevents')
  <2>1. CASE j = i
    BY <1>2, <1>3, <2>1
  <2>2. CASE j # i
    <3>1. PICK e : e = ev[j]
      OBVIOUS
    <3>2. ev'[j] = e /\ e.ph # "del" /\ EventOwn(e, ptView, mevents) /\ e.pt \in Pt
      BY <1>2, <1>3, <2>2, <3>1, EventFacts DEF OwnInv
    <3>3. e.pt # ev[i].pt
      BY <1>1, <2>2, <3>1, <3>2 DEF SoleInv
    <3>4. Calm(ptView[e.pt], ptView'[e.pt])
      BY <3>2, <3>3
    <3>5. e.pt \in DOMAIN mevents' => e.pt \in DOMAIN mevents /\ mevents'[e.pt].dst = mevents[e.pt].dst
      BY <3>3
    <3>6. EventOwn(e, ptView', mevents')
      BY <3>2, <3>4, <3>5, OwnKept
    <3> QED BY <3>2, <3>6
  <2> QED BY <2>1, <2>2
<1>4. ASSUME NEW p \in DOMAIN mevents' PROVE EntryOwn(ptView'[p], mevents'[p])
  <2>1. CASE p = ev[i].pt
    BY <1>4, <2>1
  <2>2. CASE p # ev[i].pt
    <3>1. p \in DOMAIN mevents /\ mevents'[p] = mevents[p] /\ EntryOwn(ptView[p], mevents[p])
      BY <1>4, <2>2 DEF OwnInv
    <3>2. Calm(ptView[p], ptView'[p])
      BY <2>2, <3>1 DEF TypeInv, TypeMeta
    <3> QED BY <3>1, <3>2, EntryKept
  <2> QED BY <2>1, <2>2
<1> QED BY <1>2, <1>3, <1>4 DEF OwnInv

\* The handlers that leave the entries alone and at most take their partition offline.
LEMMA OwnCalm ==
    ASSUME TypeInv, SoleInv, OwnInv, NEW i, NEW f, HandlerStep(i, f), mevents' = mevents,
           \A p \in Pt : Calm(ptView[p], ptView'[p]),
           f.ph # "del" => EventOwn(f, ptView', mevents)
    PROVE  OwnInv'
<1>1. ev[i].pt \in DOMAIN mevents => EntryOwn(ptView[ev[i].pt], mevents[ev[i].pt])
  BY DEF OwnInv
<1>2. ev[i].pt \in Pt
  BY EventFacts DEF HandlerStep
<1>3. ev[i].pt \in DOMAIN mevents => EntryOwn(ptView'[ev[i].pt], mevents[ev[i].pt])
  BY <1>1, <1>2, EntryKept
<1>4. ev[i].pt \in DOMAIN mevents' => EntryOwn(ptView'[ev[i].pt], mevents'[ev[i].pt])
  BY <1>3
<1>5. f.ph # "del" => EventOwn(f, ptView', mevents')
  OBVIOUS
<1> QED BY <1>4, <1>5, OwnHandler

\* Nothing happens to PtView.
LEMMA CalmSame ==
    ASSUME ptView' = ptView
    PROVE  \A p \in Pt : Calm(ptView[p], ptView'[p])
BY DEF Calm

\* The raft command of a handler, when its event has a copy of PtInfo: the entry was
\* the one the event knows.
LEMMA OwnUpdate ==
    ASSUME TypeInv, NEW e \in Event, ~e.alias, NEW o \in Node, NEW s \in Status, UpdatePtInfo(e, o, s)
    PROVE  /\ \A p \in Pt : p # e.pt => ptView'[p] = ptView[p]
           /\ \/ ptView' = ptView
              \/ /\ ptView'[e.pt].owner = o /\ ptView'[e.pt].status = s
                 /\ ptView[e.pt].owner = e.info.owner /\ ptView[e.pt].status = e.info.status
BY UpdatePtInfoFacts DEF PtChanged, Info

\* A transition is stored: only the state in the entry changes.
LEMMA OwnStore ==
    ASSUME TypeInv, SoleInv, OwnInv, NEW i \in EventId, storeTransitionState(i)
    PROVE  OwnInv' /\ Turn
<1>1. PICK f : /\ HandlerStep(i, f)
               /\ \/ f.ph = "del"
                  \/ f.ph = "run" /\ f.cur = ev[i].cur /\ f.info = ev[i].info /\ f.op = ev[i].op
  BY storeTransitionStateFacts
<1>2. /\ \/ mevents' = mevents
         \/ ev[i].pt \in DOMAIN mevents /\ mevents' = [mevents EXCEPT ![ev[i].pt].cur = ev[i].cur]
      /\ ptView' = ptView
  BY storeTransitionStateFacts
<1>3. i \in DOMAIN ev /\ ev[i].ph = "run" /\ Same(ev[i], f)
  BY <1>1 DEF HandlerStep
<1>4. DOMAIN mevents' = DOMAIN mevents /\ \A p \in DOMAIN mevents : p # ev[i].pt => mevents'[p] = mevents[p]
  BY <1>2 DEF TypeInv, TypeMeta
<1>5. ASSUME ev[i].pt \in DOMAIN mevents
      PROVE  \A x \in {"type", "src", "dst", "info"} : mevents'[ev[i].pt][x] = mevents[ev[i].pt][x]
  <2>1. mevents[ev[i].pt] \in Entry
    BY <1>5 DEF TypeInv, TypeMeta
  <2> QED BY <1>2, <1>5, <2>1 DEF Entry, TypeInv, TypeMeta
<1>6. ASSUME ev[i].pt \in DOMAIN mevents PROVE EntryOwn(ptView[ev[i].pt], mevents'[ev[i].pt])
  <2>1. EntryOwn(ptView[ev[i].pt], mevents[ev[i].pt])
    BY <1>6 DEF OwnInv
  <2> QED BY <1>5, <1>6, <2>1 DEF EntryOwn
<1>7. f.ph # "del" => EventOwn(f, ptView, mevents')
  <2>1. EventOwn(ev[i], ptView, mevents)
    BY <1>3 DEF OwnInv
  <2> QED BY <1>1, <1>3, <1>4, <1>5, <2>1 DEF EventOwn, Same
<1>8. \A p \in Pt : Calm(ptView[p], ptView'[p])
  BY <1>2, CalmSame
<1>9. ev[i].pt \in DOMAIN mevents' => EntryOwn(ptView'[ev[i].pt], mevents'[ev[i].pt])
  BY <1>2, <1>4, <1>6
<1>10. f.ph # "del" => EventOwn(f, ptView', mevents')
  BY <1>2, <1>7
<1>11. \A p \in DOMAIN mevents' : p # ev[i].pt => p \in DOMAIN mevents /\ mevents'[p] = mevents[p]
  BY <1>4
<1>12. OwnInv'
  BY <1>1, <1>8, <1>9, <1>10, <1>11, OwnHandler
<1> QED BY <1>2, <1>12 DEF Turn

\* The entry of an event is a copy of what the event knows.
LEMMA OwnCreate ==
    ASSUME TypeInv, AliasInv, SoleInv, OwnInv, NEW i \in EventId, createMigrateEvent(i)
    PROVE  OwnInv' /\ Turn
<1>1. ptView' = ptView /\ ev[i].cur = "Init" /\ i \in DOMAIN ev /\ ev[i].ph = "run" /\ ev[i].type \in {"assign", "move"}
  <2>1. ptView' = ptView /\ ev[i].cur = "Init" /\ i \in DOMAIN ev /\ ev[i].ph = "run"
    BY DEF createMigrateEvent, At, Running
  <2> QED BY <2>1, EventFacts DEF Event
<1>2. \A p \in Pt : Calm(ptView[p], ptView'[p])
  BY <1>1, CalmSame
<1>3. EventOwn(ev[i], ptView, mevents) /\ Info(ev[i]) = ev[i].info
  BY <1>1 DEF OwnInv, AliasInv, Info
<1>4. ASSUME NEW f, HandlerStep(i, f), f.ph = "del", mevents' = mevents PROVE OwnInv'
  BY <1>2, <1>4, OwnCalm
<1>5. ASSUME NEW f, HandlerStep(i, f), f.ph = "run", f.cur = "Init", f.info = ev[i].info,
             mevents' = mevents, mevents[ev[i].pt].dst = ev[i].dst
      PROVE  OwnInv'
  <2>1. Same(ev[i], f)
    BY <1>5 DEF HandlerStep
  <2>2. EventOwn(f, ptView, mevents)
    BY <1>1, <1>3, <1>5, <2>1 DEF EventOwn, Same
  <2>3. EventOwn(f, ptView', mevents)
    BY <1>1, <2>2
  <2> QED BY <1>2, <1>5, <2>3, OwnCalm
<1>6. ASSUME NEW f, HandlerStep(i, f), f.ph = "run", f.cur = "Init", f.info = ev[i].info,
             NEW m \in Entry, m.dst = ev[i].dst, m.src = ev[i].src, m.type = ev[i].type,
             m.info = Info(ev[i]), ev[i].pt \notin DOMAIN mevents, mevents' = Put(mevents, ev[i].pt, m)
      PROVE  OwnInv'
  <2>1. Same(ev[i], f)
    BY <1>6 DEF HandlerStep
  <2>2. /\ mevents'[ev[i].pt] = m
        /\ \A p \in DOMAIN mevents' : p # ev[i].pt => p \in DOMAIN mevents /\ mevents'[p] = mevents[p]
    BY <1>6 DEF Put
  <2>3. EventOwn(f, ptView, mevents')
    BY <1>1, <1>3, <1>6, <2>1, <2>2 DEF EventOwn, Same
  <2>4. EntryOwn(ptView[ev[i].pt], m)
    BY <1>1, <1>3, <1>6 DEF EventOwn, EntryOwn
  <2>5. EventOwn(f, ptView', mevents') /\ EntryOwn(ptView'[ev[i].pt], mevents'[ev[i].pt])
    BY <1>1, <2>2, <2>3, <2>4
  <2> QED BY <1>2, <1>6, <2>2, <2>5, OwnHandler
<1>7. OwnInv'
  BY <1>4, <1>5, <1>6, createMigrateEventFacts
<1> QED BY <1>1, <1>7 DEF Turn

\* The other handlers that do not write to PtView, or only the version.
LEMMA OwnSend ==
    ASSUME TypeInv, SoleInv, OwnInv, NEW i \in EventId,
           initHandler(i) \/ moveInitHandler(i) \/ moveSendHandler(i) \/ assignFailedHandler(i) \/ moveFinalHandler(i)
    PROVE  OwnInv' /\ Turn
<1>1. ASSUME NEW f, HandlerStep(i, f)
      PROVE  EventOwn(ev[i], ptView, mevents) /\ Same(ev[i], f) /\ Good(ev[i]) /\ ev[i].ph = "run"
             /\ ev[i].type \in {"assign", "move"} /\ ev[i].pt \in Pt
  BY <1>1, EventFacts DEF HandlerStep, OwnInv, Event
<1>2. CASE initHandler(i)
  <2>1. PICK f : HandlerStep(i, f) /\ f.ph = "run" /\ f.cur = "StartAssign" /\ f.info = ev[i].info
    BY <1>2, initHandlerFacts
  <2>2. ptView' = ptView /\ mevents' = mevents /\ ev[i].cur = "Init" /\ ev[i].op # 0 /\ ev[i].type = "assign"
    BY <1>2, initHandlerFacts
  <2>3. EventOwn(f, ptView, mevents)
    BY <1>1, <2>1, <2>2 DEF EventOwn, Same
  <2>4. EventOwn(f, ptView', mevents)
    BY <2>2, <2>3
  <2> QED BY <2>1, <2>2, <2>4, CalmSame, OwnCalm DEF Turn
<1>3. CASE moveInitHandler(i)
  <2>1. PICK f : HandlerStep(i, f) /\ f.ph = "run" /\ f.cur = "PreOffload" /\ f.info.owner = ev[i].info.owner
    BY <1>3, moveInitHandlerFacts
  <2>2. mevents' = mevents /\ ev[i].cur = "Init" /\ ev[i].op # 0 /\ ev[i].type = "move"
    BY <1>3, moveInitHandlerFacts
  <2>3. PICK v \in Nat : ptView' = [ptView EXCEPT ![ev[i].pt].ver = v]
    BY <1>3, moveInitHandlerFacts
  <2>4. \A p \in Pt : ptView'[p].owner = ptView[p].owner /\ ptView'[p].status = ptView[p].status
    BY <2>3 DEF TypeInv, TypeMeta, PtInfo
  <2>5. EventOwn(f, ptView', mevents)
    BY <1>1, <2>1, <2>2 DEF EventOwn, Same
  <2>6. \A p \in Pt : Calm(ptView[p], ptView'[p])
    BY <2>4 DEF Calm
  <2>7. OwnInv'
    BY <2>1, <2>2, <2>5, <2>6, OwnCalm
  <2> QED BY <2>4, <2>7 DEF Turn
<1>4. CASE moveSendHandler(i)
  <2>1. PICK f : /\ HandlerStep(i, f) /\ f.ph = "sent" /\ f.cur = ev[i].cur /\ f.op = ev[i].op
                 /\ f.info = ev[i].info
                 /\ f.cur \in {"PreOffload", "PreAssign", "Offload", "RollbackPreOffload"}
    BY <1>4, moveSendHandlerFacts
  <2>2. ptView' = ptView /\ mevents' = mevents
    BY <1>4, moveSendHandlerFacts
  <2>3. EventOwn(f, ptView, mevents)
    BY <1>1, <2>1 DEF EventOwn, Same
  <2>4. EventOwn(f, ptView', mevents)
    BY <2>2, <2>3
  <2> QED BY <2>1, <2>2, <2>4, CalmSame, OwnCalm DEF Turn
<1>5. CASE assignFailedHandler(i) \/ moveFinalHandler(i)
  <2>1. PICK f : HandlerStep(i, f) /\ f.ph = "del"
    BY <1>5, lastHandlerFacts
  <2>2. ptView' = ptView /\ mevents' = mevents
    BY <1>5, lastHandlerFacts
  <2> QED BY <2>1, <2>2, CalmSame, OwnCalm DEF Turn
<1> QED BY <1>2, <1>3, <1>4, <1>5

\* The target becomes the owner, of a partition that is offline.
LEMMA OwnStartAssign ==
    ASSUME TypeInv, AliasInv, SoleInv, OwnInv, NEW i \in EventId, startAssignHandler(i)
    PROVE  OwnInv' /\ Turn
<1>1. /\ i \in DOMAIN ev /\ ev[i].ph = "run" /\ ev[i].cur \in {"StartAssign", "Assign"} /\ mevents' = mevents
      /\ UpdatePtInfo(ev[i], ev[i].dst, Info(ev[i]).status)
  BY startAssignHandlerFacts
<1>2. PICK f : /\ HandlerStep(i, f)
               /\ \/ f.ph = "del"
                  \/ /\ f.ph = "sent" /\ f.cur = ev[i].cur /\ f.op = ev[i].op
                     /\ f.info.owner = ev[i].dst /\ f.info.status = ev[i].info.status
  BY startAssignHandlerFacts
<1>3. PICK e : e = ev[i]
  OBVIOUS
<1>4. e \in Event /\ ~e.alias /\ e.dst \in Node /\ e.info.status \in Status /\ e.pt \in Pt /\ Good(e)
  BY <1>1, <1>3, EventFacts DEF AliasInv, PtInfo
<1>5. EventOwn(e, ptView, mevents)
  BY <1>1, <1>3 DEF OwnInv
<1>6. UpdatePtInfo(e, e.dst, e.info.status)
  BY <1>1, <1>3, <1>4 DEF Info
<1>7. /\ \A p \in Pt : p # e.pt => ptView'[p] = ptView[p]
      /\ \/ ptView' = ptView
         \/ /\ ptView'[e.pt].owner = e.dst /\ ptView'[e.pt].status = e.info.status
            /\ ptView[e.pt].owner = e.info.owner /\ ptView[e.pt].status = e.info.status
  <2>1. PICK o, s : o = e.dst /\ s = e.info.status
    OBVIOUS
  <2>2. o \in Node /\ s \in Status /\ UpdatePtInfo(e, o, s)
    BY <1>4, <1>6, <2>1
  <2> QED BY <1>4, <2>1, <2>2, OwnUpdate
<1>8. e.cur = "Assign" \/ (e.cur = "StartAssign" /\ e.type = "assign")
  BY <1>1, <1>3, <1>4 DEF Good, MoveStates
<1>9. Calm(ptView[e.pt], ptView'[e.pt])
  <2>1. e.info.status = "Offline" \/ e.info.status = "Online"
    BY <1>4 DEF Status
  <2> QED BY <1>5, <1>7, <1>8, <2>1 DEF EventOwn, Late, Calm
<1>10. \A p \in Pt : Calm(ptView[p], ptView'[p])
  BY <1>7, <1>9 DEF Calm
<1>11. f.ph # "del" => EventOwn(f, ptView', mevents)
  <2> SUFFICES ASSUME f.ph # "del" PROVE EventOwn(f, ptView', mevents)
    OBVIOUS
  <2>1. EventOwn(e, ptView', mevents)
    BY <1>5, <1>9, OwnKept
  <2>2. Same(e, f) /\ f.cur = e.cur /\ f.op = e.op /\ f.info.owner = e.dst /\ f.info.status = e.info.status
    BY <1>2, <1>3 DEF HandlerStep
  <2> QED BY <1>1, <1>3, <1>8, <2>1, <2>2 DEF EventOwn, Same, Late
<1>12. OwnInv'
  BY <1>1, <1>2, <1>10, <1>11, OwnCalm
<1>13. Turn
  <2> SUFFICES ASSUME NEW p \in Pt, ptView'[p].owner # ptView[p].owner
               PROVE  ptView[p].status = "Offline" /\ ptView'[p].status = "Offline"
    BY DEF Turn
  <2>1. p = e.pt /\ ptView'[e.pt].status = ptView[e.pt].status
    BY <1>7
  <2> QED BY <1>9, <2>1 DEF Calm
<1> QED BY <1>12, <1>13

\* A move sets its partition offline before it assigns it.
LEMMA OwnOffloaded ==
    ASSUME TypeInv, AliasInv, SoleInv, OwnInv, NEW i \in EventId, moveOffloadedHandler(i)
    PROVE  OwnInv' /\ Turn
<1>1. /\ i \in DOMAIN ev /\ ev[i].ph = "run" /\ ev[i].cur = "Offloaded" /\ ev[i].src \in Node
      /\ mevents' = mevents /\ UpdatePtInfo(ev[i], ev[i].src, "Offline")
  BY moveOffloadedHandlerFacts
<1>2. PICK f : /\ HandlerStep(i, f)
               /\ \/ f.ph = "del"
                  \/ /\ f.ph = "run" /\ f.cur = "Assign" /\ f.op = ev[i].op
                     /\ f.info.status = "Offline"
  BY moveOffloadedHandlerFacts
<1>3. PICK e : e = ev[i]
  OBVIOUS
<1>4. e \in Event /\ ~e.alias /\ e.pt \in Pt /\ Good(e) /\ e.type \in {"assign", "move"}
  BY <1>1, <1>3, EventFacts DEF AliasInv, Event
<1>5. EventOwn(e, ptView, mevents) /\ e.type = "move"
  BY <1>1, <1>3, <1>4 DEF OwnInv, Good, AssignStates
<1>6. e.info.owner = e.src
  BY <1>1, <1>3, <1>5 DEF EventOwn
<1>7. /\ \A p \in Pt : p # e.pt => ptView'[p] = ptView[p]
      /\ \/ ptView' = ptView
         \/ /\ ptView'[e.pt].owner = e.src /\ ptView'[e.pt].status = "Offline"
            /\ ptView[e.pt].owner = e.info.owner
  <2>1. PICK o, s : o = e.src /\ s = "Offline"
    OBVIOUS
  <2>2. o \in Node /\ s \in Status /\ UpdatePtInfo(e, o, s)
    BY <1>1, <1>3, <2>1 DEF Status
  <2> QED BY <1>4, <2>1, <2>2, OwnUpdate
<1>8. \A p \in Pt : Calm(ptView[p], ptView'[p]) /\ ptView'[p].owner = ptView[p].owner
  BY <1>6, <1>7 DEF Calm
<1>9. f.ph # "del" => EventOwn(f, ptView', mevents)
  <2>1. Same(e, f)
    BY <1>2, <1>3 DEF HandlerStep
  <2> QED BY <1>1, <1>2, <1>3, <1>5, <2>1 DEF EventOwn, Same
<1>10. OwnInv'
  BY <1>1, <1>2, <1>8, <1>9, OwnCalm
<1> QED BY <1>8, <1>10 DEF Turn

\* The partition goes online, where the event has made it be assigned.
LEMMA OwnAssigned ==
    ASSUME TypeInv, AliasInv, SoleInv, OwnInv, NEW i \in EventId, assignedHandler(i)
    PROVE  OwnInv' /\ Turn
<1>1. /\ i \in DOMAIN ev /\ ev[i].ph = "run" /\ ev[i].cur = "Assigned" /\ mevents' = mevents
      /\ UpdatePtInfo(ev[i], Info(ev[i]).owner, "Online")
  BY assignedHandlerFacts
<1>2. PICK f : HandlerStep(i, f) /\ f.ph = "del"
  BY assignedHandlerFacts
<1>3. PICK e : e = ev[i]
  OBVIOUS
<1>4. e \in Event /\ ~e.alias /\ e.pt \in Pt /\ e.info.owner \in Node
  BY <1>1, <1>3, EventFacts DEF AliasInv, PtInfo
<1>5. EventOwn(e, ptView, mevents)
  BY <1>1, <1>3 DEF OwnInv
<1>6. e.info.owner = e.dst /\ (e.pt \in DOMAIN mevents => mevents[e.pt].dst = e.dst)
  BY <1>1, <1>3, <1>5 DEF EventOwn
<1>7. /\ \A p \in Pt : p # e.pt => ptView'[p] = ptView[p]
      /\ \/ ptView' = ptView
         \/ ptView'[e.pt].owner = e.info.owner /\ ptView[e.pt].owner = e.info.owner
  <2>1. PICK o, s : o = e.info.owner /\ s = "Online"
    OBVIOUS
  <2>2. o \in Node /\ s \in Status /\ UpdatePtInfo(e, o, s)
    BY <1>1, <1>3, <1>4, <2>1 DEF Status, Info
  <2> QED BY <1>4, <2>1, <2>2, OwnUpdate
<1>8. ASSUME e.pt \in DOMAIN mevents PROVE EntryOwn(ptView'[e.pt], mevents[e.pt])
  <2>1. EntryOwn(ptView[e.pt], mevents[e.pt])
    BY <1>8 DEF OwnInv
  <2> QED BY <1>6, <1>7, <1>8, <2>1 DEF EntryOwn, Late
<1>9. \A p \in Pt : ptView'[p].owner = ptView[p].owner /\ (p # e.pt => Calm(ptView[p], ptView'[p]))
  BY <1>7 DEF Calm
<1>10. ev[i].pt \in DOMAIN mevents' => EntryOwn(ptView'[ev[i].pt], mevents'[ev[i].pt])
  BY <1>1, <1>3, <1>8
<1>11. \A p \in DOMAIN mevents' : p # ev[i].pt => p \in DOMAIN mevents /\ mevents'[p] = mevents[p]
  BY <1>1
<1>12. \A p \in Pt : p # ev[i].pt => Calm(ptView[p], ptView'[p])
  BY <1>3, <1>9
<1>13. OwnInv'
  BY <1>2, <1>10, <1>11, <1>12, OwnHandler
<1> QED BY <1>9, <1>13 DEF Turn

\* The steps of an event.
LEMMA OwnEvent ==
    ASSUME TypeInv, AliasInv, SoleInv, OwnInv, NEW i \in EventId, EventStep(i)
    PROVE  OwnInv' /\ Turn
<1>1. CASE deleteEvent(i)
  <2>1. /\ i \in DOMAIN ev /\ ev' = Remove(ev, i) /\ ptView' = ptView
        /\ mevents' = mevents \/ mevents' = Remove(mevents, ev[i].pt)
    BY <1>1, deleteEventFacts
  <2>2. DOMAIN ev' \subseteq DOMAIN ev /\ \A j \in DOMAIN ev' : ev'[j] = ev[j]
    BY <2>1 DEF Remove
  <2>3. DOMAIN mevents' \subseteq DOMAIN mevents /\ \A p \in DOMAIN mevents' : mevents'[p] = mevents[p]
    BY <2>1 DEF Remove
  <2>4. ASSUME NEW j \in DOMAIN ev', ev'[j].ph # "del" PROVE EventOwn(ev'[j], ptView', mevents')
    <3>1. PICK e : e = ev[j]
      OBVIOUS
    <3>2. ev'[j] = e /\ EventOwn(e, ptView, mevents)
      BY <2>2, <2>4, <3>1 DEF OwnInv
    <3>3. EventOwn(e, ptView', mevents')
      BY <2>1, <2>3, <3>2, OwnKept DEF Calm
    <3> QED BY <3>2, <3>3
  <2>5. \A p \in DOMAIN mevents' : EntryOwn(ptView'[p], mevents'[p])
    BY <2>1, <2>3 DEF OwnInv
  <2> QED BY <2>1, <2>4, <2>5 DEF OwnInv, Turn
<1> QED BY <1>1, OwnStore, OwnCreate, OwnSend, OwnStartAssign, OwnOffloaded, OwnAssigned DEF EventStep

\* Steps that leave events and entries alone and at most take partitions offline.
LEMMA OwnQuiet ==
    ASSUME TypeInv, OwnInv, ev' = ev, mevents' = mevents,
           \A p \in Pt : Calm(ptView[p], ptView'[p])
    PROVE  OwnInv'
<1>1. ASSUME NEW j \in DOMAIN ev, ev[j].ph # "del" PROVE EventOwn(ev[j], ptView', mevents)
  <2>1. PICK e : e = ev[j]
    OBVIOUS
  <2>2. EventOwn(e, ptView, mevents) /\ e.pt \in Pt
    BY <1>1, <2>1, EventFacts DEF OwnInv
  <2>3. EventOwn(e, ptView', mevents)
    BY <2>2, OwnKept
  <2> QED BY <2>1, <2>3
<1>2. ASSUME NEW p \in DOMAIN mevents PROVE EntryOwn(ptView'[p], mevents[p])
  <2>1. EntryOwn(ptView[p], mevents[p]) /\ p \in Pt
    BY DEF OwnInv, TypeInv, TypeMeta
  <2> QED BY <2>1, EntryKept
<1>3. ASSUME NEW j \in DOMAIN ev', ev'[j].ph # "del" PROVE EventOwn(ev'[j], ptView', mevents')
  BY <1>1, <1>3
<1>4. ASSUME NEW p \in DOMAIN mevents' PROVE EntryOwn(ptView'[p], mevents'[p])
  BY <1>2, <1>4
<1> QED BY <1>3, <1>4 DEF OwnInv

\* An answer, or none.
LEMMA OwnRpc ==
    ASSUME TypeInv, OwnInv, RpcStep
    PROVE  OwnInv' /\ Turn
<1>1. UNCHANGED <<ptView, mevents>>
  BY DEF RpcStep
<1>2. CASE ev' = ev
  BY <1>1, <1>2, CalmSame, OwnQuiet DEF Turn
<1>3. ASSUME NEW i, NEW f, AnswerStep(i, f) PROVE OwnInv'
  <2>1. i \in DOMAIN ev /\ ev[i].ph = "sent" /\ Answers(ev[i], f) /\ ev' = [ev EXCEPT ![i] = f]
    BY <1>3 DEF AnswerStep
  <2>2. DOMAIN ev' = DOMAIN ev /\ \A j \in DOMAIN ev : ev'[j] = IF j = i THEN f ELSE ev[j]
    BY <2>1 DEF TypeInv, TypeEvents
  <2>3. PICK e : e = ev[i]
    OBVIOUS
  <2>4. EventOwn(e, ptView, mevents) /\ e.cur \in SendStates /\ e.ph = "sent" /\ Answers(e, f)
    BY <2>1, <2>3, EventFacts DEF OwnInv, Good
  <2>5. f.info = e.info /\ f.op = e.op /\ Same(e, f)
    BY <2>4 DEF Answers
  <2>6. EventOwn(f, ptView, mevents)
    <3>1. CASE f.ph = "sent" /\ f.cur = e.cur
      BY <2>4, <2>5, <3>1 DEF EventOwn, Same
    <3>2. CASE /\ f.ph = "run" /\ f.cur \notin {"Init", "StartAssign", "Assign"}
               /\ f.cur = "Assigned" => e.cur \in {"StartAssign", "Assign"}
               /\ e.cur = "Assign" => f.cur \in {"Assigned", "AssignFailed"}
      BY <2>4, <2>5, <3>2 DEF EventOwn, Same, SendStates
    <3> QED BY <2>4, <3>1, <3>2 DEF Answers
  <2> QED BY <1>1, <2>2, <2>6 DEF OwnInv
<1> QED BY <1>1, <1>2, <1>3 DEF RpcStep, Turn

\* A new event: an assignment of what is offline, or a move from the owner.
LEMMA OwnAdd ==
    ASSUME TypeInv, OwnInv, NEW i, NEW e, AddStep(i, e), UNCHANGED <<ptView, mevents>>,
           e.type = "assign" => ptView[e.pt].status # "Online",
           e.type = "move" => e.info.owner = e.src
    PROVE  OwnInv'
<1>1. /\ e.cur = "Init" /\ e.op = 0 /\ e.ph = "run"
      /\ ev' = [x \in DOMAIN ev \cup {i} |-> IF x = i THEN e ELSE ev[x]]
  BY DEF AddStep, Put
<1>2. EventOwn(e, ptView, mevents)
  BY <1>1 DEF EventOwn, Late
<1> QED BY <1>1, <1>2 DEF OwnInv

\* The recovered events know what the entries say.
LEMMA OwnLeader ==
    ASSUME TypeInv, OwnInv, "same" \notin Faults, NEW kept, NEW ids, LeaderStep(kept, ids),
           UNCHANGED <<ptView, mevents>>
    PROVE  OwnInv'
<1>1. /\ DOMAIN ev' = {ids[p] : p \in DOMAIN mevents}
      /\ \A p \in DOMAIN mevents : ev'[ids[p]] = RecoveredEvent(p)
  BY DEF LeaderStep
<1>2. ASSUME NEW p \in DOMAIN mevents PROVE EventOwn(RecoveredEvent(p), ptView, mevents)
  <2>1. PICK e, m : e = RecoveredEvent(p) /\ m = mevents[p]
    OBVIOUS
  <2>2. /\ e.ph = "run" /\ e.cur = "Init" /\ e.pt = p
        /\ e.type = m.type /\ e.info = m.info /\ e.dst = m.dst /\ e.src = m.src
    BY <2>1, RecoveredFacts
  <2>3. EntryOwn(ptView[p], m) /\ m.type \in {"assign", "move"}
    BY <2>1 DEF OwnInv, TypeInv, TypeMeta, Entry
  <2>4. EventOwn(e, ptView, mevents)
    BY <2>1, <2>2, <2>3 DEF EventOwn, EntryOwn
  <2> QED BY <2>1, <2>4
<1> QED BY <1>1, <1>2 DEF OwnInv

\* Every step keeps what the events know, and changes no owner of an online partition.
LEMMA OwnStep ==
    ASSUME "same" \notin Faults, TypeInv, AliasInv, SoleInv, OwnInv, [Next]_vars
    PROVE  OwnInv' /\ Turn
<1>1. CASE EventNext
  BY <1>1, OwnEvent DEF EventNext
<1>2. CASE RpcNext
  BY <1>2, RpcNextStep, OwnRpc
<1>3. CASE UNCHANGED <<ptView, mevents, ev>>
  BY <1>3, CalmSame, OwnQuiet DEF Turn
<1>4. CASE NodeNext \/ \E n \in Node : PingNode(n)
  <2>1. NodeStep
    BY <1>4, NodeNextStep, PingNodeStep
  <2> QED BY <1>3, <2>1 DEF NodeStep
<1>5. ASSUME NEW n \in Node, handleStoreEvent(n) PROVE OwnInv' /\ Turn
  <2>1. UpdateStep(n) /\ UNCHANGED <<mevents, ev>>
    BY <1>5, handleStoreEventStep
  <2>2. \A p \in Pt : ptView'[p].owner = ptView[p].owner
    BY <2>1 DEF UpdateStep
  <2>3. \A p \in Pt : Calm(ptView[p], ptView'[p])
    BY <2>1 DEF UpdateStep, Calm
  <2>4. OwnInv'
    BY <2>1, <2>3, OwnQuiet
  <2> QED BY <2>2, <2>4 DEF Turn
<1>6. CASE \E n \in Node : handleClusterMember(n) \/ takeoverDbPts(n)
  <2>1. UNCHANGED <<ptView, mevents, ev>>
    BY <1>6, handleClusterMemberStep, takeoverDbPtsStep
  <2> QED BY <1>3, <2>1
<1>7. ASSUME NEW t \in tasks, processFailedDbPt(t) PROVE OwnInv' /\ Turn
  <2>1. UNCHANGED <<ptView, mevents>>
    BY <1>7, processFailedDbPtStep
  <2>2. ASSUME NEW i, NEW e, AddStep(i, e), e.type = "assign", ptView[e.pt].status # "Online" PROVE OwnInv'
    BY <2>1, <2>2, OwnAdd
  <2>3. CASE ev' = ev
    BY <1>3, <2>1, <2>3
  <2> QED BY <1>7, <2>1, <2>2, <2>3, processFailedDbPtStep DEF Turn
<1>8. ASSUME NEW pt \in Pt, NEW n \in Node, balanceIfNeeded(pt, n) PROVE OwnInv' /\ Turn
  <2>1. UNCHANGED <<ptView, mevents>>
    BY <1>8, balanceIfNeededStep
  <2>2. PICK i, e : AddStep(i, e) /\ e.type = "move" /\ e.info.owner = e.src
    BY <1>8, balanceIfNeededStep
  <2>3. OwnInv'
    BY <2>1, <2>2, OwnAdd
  <2> QED BY <2>1, <2>3 DEF Turn
<1>9. CASE LeaderChange
  <2>1. UNCHANGED <<ptView, mevents>>
    BY <1>9, LeaderChangeStep
  <2>2. PICK kept, ids : LeaderStep(kept, ids)
    BY <1>9, LeaderChangeStep
  <2>3. OwnInv'
    BY <2>1, <2>2, OwnLeader
  <2> QED BY <2>1, <2>3 DEF Turn
<1>10. CASE UNCHANGED vars
  <2>1. UNCHANGED <<ptView, mevents, ev>>
    BY <1>10 DEF vars, metaVars, msmVars
  <2> QED BY <1>3, <2>1
<1> QED BY <1>1, <1>2, <1>4, <1>5, <1>6, <1>7, <1>8, <1>9, <1>10 DEF Next, ClusterNext, BalanceNext

\* The owner of a partition changes only while it is offline, so no client is routed to
\* a target that has not loaded it: not by late answers, by stale copies of PtInfo in
\* retries and recovered events, nor by the node coming back in between.
THEOREM OwnerChangesOfflineAlways ==
    BalanceAlgo = "v1.0" /\ "same" \notin Faults => (Spec => OwnerChangesOffline)
<1> SUFFICES ASSUME BalanceAlgo = "v1.0", "same" \notin Faults PROVE Spec => OwnerChangesOffline
  OBVIOUS
<1>1. Init => OwnInv
  <2> SUFFICES ASSUME Init PROVE OwnInv
    OBVIOUS
  <2>1. DOMAIN ev = {} /\ DOMAIN mevents = {}
    BY DEF Init
  <2> QED BY <2>1 DEF OwnInv
<1>2. TypeInv /\ AliasInv /\ SoleInv /\ OwnInv /\ [Next]_vars => OwnInv' /\ Turn
  BY OwnStep
<1>3. Spec => [][Turn]_vars
  BY <1>1, <1>2, TypesAlways, AliasAlways, SoleAlways, PTL DEF Spec
<1> QED BY <1>3 DEF OwnerChangesOffline, Turn
=============================================================================
