------------------------- MODULE ReplicaGroupProofs -------------------------
(***************************************************************************)
(* Proofs about replica groups (module ReplicaGroup): whatever nodes       *)
(* register, fail and return, and however stale the commands of the        *)
(* handler, the balancer and the operator are when they are applied, no    *)
(* group loses a member that no handler read while it was changed, and     *)
(* such a group is Health when a majority of its partitions is online and, *)
(* unless a partition was lost while the database was being created, only  *)
(* then.                                                                   *)
(***************************************************************************)
EXTENDS ReplicaGroup, SequenceFacts

-----------------------------------------------------------------------------
(* The inductive invariant.                                                *)

Status == {"none", "Offline", "Online"}
MemberEvent == [type : {"join", "fail"}, node : Node]
Starting == [at : {"join", "takeover", "fail", "failed"}, place : BOOLEAN]
Failing == [at : {"failover"}, place : BOOLEAN, todo : SUBSET Db, cmd : Seq(Command)]
Electing == [at : {"elect"}, place : BOOLEAN, todo : SUBSET Db, db : Db]
Swapping == [at : {"swap"}, place : BOOLEAN, todo : SUBSET Db, db : Db, pos : Nat, peers : Seq(Node)]
HandlerState == [at : {"idle"}] \union Starting \union Failing \union Electing \union Swapping

TypeMeta ==
    /\ nodes \in First..N /\ dn \in [Node -> {"none", "alive", "failed"}]
    /\ pt \in [Db -> [Node -> Status]]
    /\ rgs \in [Db -> Seq(Group)] /\ rgid \in [Db -> [Node -> 0..N]]
    /\ stale \subseteq Db \X (0..N) /\ torn \subseteq Db \X (0..N)
TypeRest ==
    /\ up \subseteq 1..nodes /\ seen \subseteq 1..nodes
    /\ queue \in Seq(MemberEvent) /\ hdl \in [Node -> HandlerState]
    /\ assign \subseteq [db : Db, node : Node, user : BOOLEAN]
    /\ bal \in Seq(Command) /\ oper \in Seq(Command)
    /\ stage \in [Db -> {"none", "view", "load", "done"}]

\* The master and the peers of a group are pairwise distinct.
Distinct(master, peers) == IsInjective(peers) /\ master \notin Range(peers)

\* Group i of groups with the RGIDs id.
GroupSound(g, i, id) ==
    /\ Members(g) = {n \in Node : id[n] = i}
    /\ Distinct(g.master, g.peers)
    /\ Len(g.peers) < ReplicasN
    /\ g.status = "UnFull" <=> Len(g.peers) + 1 < ReplicasN

\* What is left of that in a group read while it was changed: it is full.
GroupTorn(g, i, id) ==
    /\ Members(g) \subseteq {n \in Node : id[n] = i}
    /\ Len(g.peers) < ReplicasN /\ g.status # "UnFull"
GroupState(g, i, id, T) == IF i \in T THEN GroupTorn(g, i, id) ELSE GroupSound(g, i, id)

\* The groups rg and the RGIDs id of a database whose partitions are on nodes 1 to k;
\* T are the groups that are torn.
Sound(rg, id, k, T) ==
    /\ rg \in Seq(Group) /\ id \in [Node -> 0..N] /\ Len(rg) <= k /\ T \subseteq 1..Len(rg)
    /\ \A n \in Node : IF n <= k THEN id[n] \in 1..Len(rg) ELSE id[n] = 0
    /\ \A i \in 1..Len(rg) : GroupState(rg[i], i, id, T)
Torn(d) == {i \in 0..N : <<d, i>> \in torn}
GroupsInv ==
    \A d \in Db : IF Exists(d) THEN Sound(rgs[d], rgid[d], nodes, Torn(d))
                  ELSE rgid[d] = [n \in Node |-> 0] /\ Torn(d) = {}

\* A partition is online only in a group that is full: one that has just become so
\* has no partition online.
PtInv ==
    \A d \in Db, n \in Node : /\ pt[d][n] = "none" <=> rgid[d][n] = 0
                              /\ pt[d][n] = "Online" => GroupOf(d, n).status # "UnFull"

\* Whatever its age, a command under way names members of its group, which is
\* full and so gets no member any more, and unless the group is torn it names all.
GoodCmd(c, groups, ids, T) ==
    /\ c \in Command /\ c.rg \in 1..Len(groups[c.db])
    /\ groups[c.db][c.rg].status # "UnFull"
    /\ {c.master} \union Range(c.peers) \subseteq {n \in Node : ids[c.db][n] = c.rg}
    /\ Len(c.peers) < ReplicasN
    /\ <<c.db, c.rg>> \notin T => Distinct(c.master, c.peers) /\ Len(c.peers) + 1 = ReplicasN
GoodCmds(s, groups, ids, T) == \A i \in DOMAIN s : GoodCmd(s[i], groups, ids, T)

\* The handler of node n: the partitions to do exist, and the peers it has read are
\* members of the group.
GoodPeers(h, k, groups, ids, T) ==
    /\ k \in 1..Len(groups[h.db]) /\ groups[h.db][k].status # "UnFull"
    /\ h.pos \in DOMAIN h.peers
    /\ Range(h.peers) \subseteq {m \in Node : ids[h.db][m] = k}
    /\ Len(h.peers) < ReplicasN
    /\ <<h.db, k>> \notin T => IsInjective(h.peers) /\ Len(h.peers) + 1 = ReplicasN
GoodHandler(h, n, groups, ids, T) ==
    /\ h.at \in {"failover", "elect", "swap"} => \A d \in h.todo : ids[d][n] # 0
    /\ h.at = "failover" => GoodCmds(h.cmd, groups, ids, T)
    /\ h.at \in {"elect", "swap"} => ids[h.db][n] # 0
    /\ h.at = "swap" => GoodPeers(h, ids[h.db][n], groups, ids, T)
CmdInv ==
    /\ GoodCmds(bal, rgs, rgid, torn) /\ GoodCmds(oper, rgs, rgid, torn)
    /\ \A n \in Node : GoodHandler(hdl[n], n, rgs, rgid, torn)

\* An assign event is about a partition of a full group.
AssignInv == \A a \in assign : rgid[a.db][a.node] # 0 /\ GroupOf(a.db, a.node).status # "UnFull"

MetaInv == TypeMeta /\ GroupsInv /\ PtInv /\ HealthIsMajority
Inv == MetaInv /\ TypeRest /\ CmdInv /\ AssignInv

-----------------------------------------------------------------------------
(* Operators.                                                              *)

\* The least of a set of positions.
LEMMA SmallestFacts ==
    ASSUME NEW S \in SUBSET Nat, S # {}
    PROVE  Smallest(S) \in S
<1>1. \E x \in S : \A y \in S : x <= y
  BY LeastNat
<1> QED BY <1>1 DEF Smallest

\* The elements of a sequence without repetition are as many as its positions.
LEMMA DistinctSize ==
    ASSUME NEW T, NEW s \in Seq(T), IsInjective(s)
    PROVE  /\ IsFiniteSet(Range(s)) /\ Cardinality(Range(s)) = Len(s)
           /\ Range(s) \subseteq T
<1>1. Len(s) \in Nat /\ DOMAIN s = 1 .. Len(s) /\ s \in [1 .. Len(s) -> T]
  BY LenProperties
<1>2. IsFiniteSet(1 .. Len(s)) /\ Cardinality(1 .. Len(s)) = Len(s)
  BY <1>1, FS_Interval
<1>3. s \in [1 .. Len(s) -> Range(s)]
  BY <1>1 DEF Range
<1>4. s \in Bijection(1 .. Len(s), Range(s))
  BY <1>1, <1>3 DEF Bijection, Injection, Surjection, IsInjective, Range
<1>5. IsFiniteSet(Range(s)) /\ Cardinality(Range(s)) = Cardinality(1 .. Len(s))
  BY <1>2, <1>4, FS_Bijection DEF ExistsBijection
<1> QED BY <1>1, <1>2, <1>5 DEF Range

\* A group of distinct members has one more than it has peers.
LEMMA MembersSize ==
    ASSUME NEW m \in Node, NEW p \in Seq(Node), Distinct(m, p)
    PROVE  /\ IsFiniteSet({m} \union Range(p)) /\ Cardinality({m} \union Range(p)) = Len(p) + 1
           /\ {m} \union Range(p) \subseteq Node
<1>1. IsFiniteSet(Range(p)) /\ Cardinality(Range(p)) = Len(p) /\ Range(p) \subseteq Node /\ m \notin Range(p)
  BY DistinctSize DEF Distinct
<1>2. IsFiniteSet(Range(p) \cup {m}) /\ Cardinality(Range(p) \cup {m}) = Cardinality(Range(p)) + 1
  BY <1>1, FS_AddElement
<1>3. {m} \union Range(p) = Range(p) \cup {m}
  OBVIOUS
<1> QED BY <1>1, <1>2, <1>3

\* The list of the handler of failed nodes is made of the master and the peers it
\* has read, without repetition if the master is not one of the peers.
LEMMA electPeersFacts ==
    ASSUME NEW g \in Group, NEW i \in DOMAIN g.peers
    PROVE  /\ g.peers[i] \in Node /\ electPeers(g, i) \in Seq(Node)
           /\ Len(electPeers(g, i)) = Len(g.peers)
           /\ {g.peers[i]} \union Range(electPeers(g, i)) \subseteq Members(g)
           /\ Distinct(g.master, g.peers) => Distinct(g.peers[i], electPeers(g, i))
<1> DEFINE p == g.peers
           q == electPeers(g, i)
<1>0. p \in Seq(Node) /\ g.master \in Node
  BY DEF Group
<1>1. Len(p) \in Nat /\ DOMAIN p = 1 .. Len(p) /\ \A j \in 1 .. Len(p) : p[j] \in Node
  BY <1>0, LenProperties, ElementOfSeq
<1>2. q \in Seq(Node) /\ Len(q) = Len(p) /\ \A j \in 1 .. Len(p) : q[j] = IF j = i THEN g.master ELSE p[j]
  BY <1>0, <1>1, ExceptSeq DEF electPeers
<1>3. DOMAIN q = 1 .. Len(p)
  BY <1>2, LenProperties
<1> HIDE DEF q, p
<1>4. {p[i]} \union Range(q) \subseteq {g.master} \union Range(p)
  <2>1. \A x \in Range(q) : x \in {g.master} \union Range(p)
    BY <1>1, <1>2, <1>3 DEF Range
  <2>2. p[i] \in Range(p)
    BY <1>1 DEF Range, p
  <2> QED BY <2>1, <2>2
<1>5. ASSUME Distinct(g.master, p) PROVE Distinct(p[i], q)
  <2>1. IsInjective(p) /\ \A j \in 1 .. Len(p) : p[j] # g.master
    BY <1>1, <1>5 DEF Distinct, Range
  <2>2. \A j, k \in 1 .. Len(p) : p[j] = p[k] => j = k
    BY <1>1, <2>1 DEF IsInjective
  <2>3. IsInjective(q)
    BY <1>1, <1>2, <1>3, <2>1, <2>2 DEF IsInjective
  <2>4. p[i] \notin Range(q)
    BY <1>1, <1>2, <1>3, <2>1, <2>2 DEF Range, p
  <2> QED BY <2>3, <2>4 DEF Distinct
<1> QED BY <1>1, <1>2, <1>4, <1>5 DEF Members, p, q

\* So is the list of the balancer and the operator.
LEMMA GenerateNewPeerFacts ==
    ASSUME NEW g \in Group, Distinct(g.master, g.peers), NEW k \in DOMAIN g.peers
    PROVE  LET m == g.peers[k]
               q == GenerateNewPeer(g, m)
           IN  /\ m \in Node /\ q \in Seq(Node) /\ Len(q) = Len(g.peers)
               /\ {m} \union Range(q) = Members(g) /\ Distinct(m, q)
<1> DEFINE p == g.peers
           m == p[k]
           ss == [i \in DOMAIN p |-> IF p[i] = m THEN << >> ELSE <<p[i]>>]
           t == FlattenSeq(ss)
           q == GenerateNewPeer(g, m)
<1>0. p \in Seq(Node) /\ g.master \in Node
  BY DEF Group
<1>1. Len(p) \in Nat /\ DOMAIN p = 1 .. Len(p) /\ \A j \in 1 .. Len(p) : p[j] \in Node
  BY <1>0, LenProperties, ElementOfSeq
<1>2. m \in Node /\ IsInjective(p) /\ \A j \in 1 .. Len(p) : p[j] # g.master
  BY <1>1 DEF Distinct, Range
<1> HIDE DEF p, m
<1>3. \A i \in 1 .. Len(p) : ss[i] \in Seq(Node) /\ ToSet(ss[i]) = (IF p[i] = m THEN {} ELSE {p[i]}) /\ IsInjective(ss[i])
  <2> SUFFICES ASSUME NEW i \in 1 .. Len(p)
               PROVE  ss[i] \in Seq(Node) /\ ToSet(ss[i]) = (IF p[i] = m THEN {} ELSE {p[i]}) /\ IsInjective(ss[i])
    OBVIOUS
  <2>1. CASE p[i] = m
    <3>1. ss[i] = << >>
      BY <1>1, <2>1
    <3>2. << >> \in Seq(Node) /\ DOMAIN << >> = {}
      BY EmptySeq
    <3> QED BY <2>1, <3>1, <3>2 DEF ToSet, IsInjective
  <2>2. CASE p[i] # m
    <3>1. ss[i] = <<p[i]>> /\ p[i] \in Node
      BY <1>1, <2>2
    <3>2. PICK x \in Node : x = p[i]
      BY <3>1
    <3>3. <<x>> \in Seq(Node) /\ DOMAIN <<x>> = {1} /\ <<x>>[1] = x
      OBVIOUS
    <3> QED BY <2>2, <3>1, <3>2, <3>3 DEF ToSet, IsInjective
  <2> QED BY <2>1, <2>2
<1>4. DOMAIN ss = 1 .. Len(p)
  BY <1>1
<1> HIDE DEF ss
<1>5. ss \in Seq(Seq(Node))
  <2>1. ss \in [1 .. Len(p) -> Seq(Node)]
    BY <1>1, <1>3, <1>4 DEF ss
  <2> QED BY <1>1, <2>1, SeqDef
<1>6. t \in Seq(Node) /\ ToSet(t) = UNION {ToSet(ss[i]) : i \in 1 .. Len(p)}
  BY <1>4, <1>5, FlattenRange
<1> HIDE DEF t
<1>7. \A i, j \in 1 .. Len(p) : p[i] = p[j] => i = j
  BY <1>1, <1>2 DEF IsInjective
<1>8. IsInjective(t)
  <2>1. \A i, j \in DOMAIN ss : i # j => ToSet(ss[i]) \cap ToSet(ss[j]) = {}
    BY <1>3, <1>4, <1>7
  <2> QED BY <1>3, <1>4, <1>5, <2>1, FlattenInjective DEF t
<1>9. ToSet(t) = Range(p) \ {m}
  <2>1. ASSUME NEW x \in ToSet(t) PROVE x \in Range(p) \ {m}
    <3>1. PICK i \in 1 .. Len(p) : x \in ToSet(ss[i])
      BY <1>6, <2>1
    <3>2. x = p[i] /\ p[i] # m
      BY <1>3, <3>1
    <3> QED BY <1>1, <3>2 DEF Range
  <2>2. ASSUME NEW x \in Range(p) \ {m} PROVE x \in ToSet(t)
    <3>1. PICK i \in 1 .. Len(p) : x = p[i]
      BY <1>1, <2>2 DEF Range
    <3>2. x \in ToSet(ss[i])
      BY <1>3, <2>2, <3>1
    <3> QED BY <1>6, <3>2
  <2> QED BY <2>1, <2>2
<1>10. PICK a \in Node : a = g.master
  BY <1>0
<1>11. q = <<a>> \o t
  <2>1. m # g.master
    BY <1>1, <1>2 DEF m, p
  <2> QED BY <1>10, <2>1 DEF q, t, ss, GenerateNewPeer, p
<1> HIDE DEF q
<1>12. Len(t) \in Nat /\ DOMAIN t = 1 .. Len(t) /\ \A i \in 1 .. Len(t) : t[i] \in Node
  BY <1>6, LenProperties, ElementOfSeq
<1>13. <<a>> \in Seq(Node) /\ Len(<<a>>) = 1 /\ <<a>>[1] = a
  OBVIOUS
<1>14. q \in Seq(Node) /\ Len(q) = 1 + Len(t) /\ \A i \in 1 .. 1 + Len(t) : q[i] = IF i <= 1 THEN <<a>>[i] ELSE t[i - 1]
  BY <1>6, <1>11, <1>13, ConcatProperties
<1>15. DOMAIN q = 1 .. 1 + Len(t) /\ q[1] = a /\ \A i \in 1 .. Len(t) : q[i + 1] = t[i]
  BY <1>12, <1>13, <1>14, LenProperties
<1>16. Range(q) = {a} \union ToSet(t)
  <2>1. \A i \in 1 .. Len(t) : i + 1 \in DOMAIN q /\ t[i] = q[i + 1]
    BY <1>12, <1>15
  <2>2. \A j \in DOMAIN q : j = 1 \/ (j - 1 \in 1 .. Len(t) /\ q[j] = t[j - 1])
    BY <1>12, <1>14, <1>15
  <2>3. 1 \in DOMAIN q
    BY <1>12, <1>15
  <2> QED BY <1>12, <1>15, <2>1, <2>2, <2>3 DEF Range, ToSet
<1>17. a \notin Range(p) /\ m \in Range(p)
  BY <1>1, <1>2, <1>10 DEF Range, m, p
<1>18. IsInjective(q)
  <2>1. \A i \in 1 .. Len(t) : t[i] # a
    BY <1>9, <1>12, <1>17 DEF ToSet
  <2> SUFFICES ASSUME NEW i \in DOMAIN q, NEW j \in DOMAIN q, q[i] = q[j] PROVE i = j
    BY DEF IsInjective
  <2>2. \A x \in DOMAIN q : x = 1 \/ (x - 1 \in 1 .. Len(t) /\ q[x] = t[x - 1])
    BY <1>12, <1>14, <1>15
  <2>3. CASE i = 1 /\ j # 1
    BY <1>15, <2>1, <2>2, <2>3
  <2>4. CASE i # 1 /\ j = 1
    BY <1>15, <2>1, <2>2, <2>4
  <2>5. CASE i # 1 /\ j # 1
    <3>1. i - 1 = j - 1
      BY <1>8, <1>12, <2>2, <2>5 DEF IsInjective
    <3> QED BY <1>12, <1>15, <3>1
  <2> QED BY <2>3, <2>4, <2>5
<1>19. m \notin Range(q) /\ {m} \union Range(q) = {a} \union Range(p)
  BY <1>9, <1>16, <1>17
<1>20. Len(q) = Len(p)
  <2>1. Distinct(m, q) /\ Distinct(a, p)
    BY <1>2, <1>17, <1>18, <1>19 DEF Distinct
  <2>2. Cardinality({m} \union Range(q)) = Len(q) + 1 /\ Cardinality({a} \union Range(p)) = Len(p) + 1
    BY <1>0, <1>2, <1>10, <1>14, <2>1, MembersSize
  <2>3. Len(q) \in Nat
    BY <1>14, LenProperties
  <2>4. Cardinality({m} \union Range(q)) = Cardinality({a} \union Range(p))
    BY <1>19
  <2> QED BY <1>1, <2>2, <2>3, <2>4
<1> QED BY <1>2, <1>10, <1>14, <1>18, <1>19, <1>20 DEF Distinct, Members, p, q, m

\* The list of the balancer and the operator for a group that is torn: no longer
\* than the list before, and of members of the group.
LEMMA GenerateNewPeerBound ==
    ASSUME NEW g \in Group, NEW k \in DOMAIN g.peers
    PROVE  LET m == g.peers[k]
               q == GenerateNewPeer(g, m)
           IN  /\ m \in Node /\ q \in Seq(Node) /\ Len(q) <= Len(g.peers)
               /\ {m} \union Range(q) \subseteq Members(g)
<1> DEFINE p == g.peers
           m == p[k]
           ss == [i \in DOMAIN p |-> IF p[i] = m THEN << >> ELSE <<p[i]>>]
           t == FlattenSeq(ss)
           q == GenerateNewPeer(g, m)
<1>0. p \in Seq(Node) /\ g.master \in Node
  BY DEF Group
<1>1. Len(p) \in Nat /\ DOMAIN p = 1 .. Len(p) /\ \A j \in 1 .. Len(p) : p[j] \in Node
  BY <1>0, LenProperties, ElementOfSeq
<1>2. m \in Node /\ m \in Range(p) /\ k \in 1 .. Len(p)
  BY <1>1 DEF Range
<1>3. CASE m = g.master
  <2>1. q = p
    BY <1>3 DEF GenerateNewPeer
  <2> QED BY <1>0, <1>1, <1>2, <2>1 DEF Members
<1>4. CASE m # g.master
  <2>1. q = <<g.master>> \o t
    BY <1>4 DEF GenerateNewPeer
  <2>2. ss[k] = << >>
    BY <1>1
  <2> HIDE DEF p, m
  <2>3. \A i \in 1 .. Len(p) : ss[i] \in Seq(Node) /\ Len(ss[i]) <= 1 /\ ToSet(ss[i]) \subseteq {p[i]}
    <3> SUFFICES ASSUME NEW i \in 1 .. Len(p)
                 PROVE  ss[i] \in Seq(Node) /\ Len(ss[i]) <= 1 /\ ToSet(ss[i]) \subseteq {p[i]}
      OBVIOUS
    <3>1. CASE p[i] = m
      <4>1. ss[i] = << >>
        BY <1>1, <3>1
      <4>2. << >> \in Seq(Node) /\ DOMAIN << >> = {} /\ Len(<< >>) = 0
        BY EmptySeq
      <4> QED BY <4>1, <4>2 DEF ToSet
    <3>2. CASE p[i] # m
      <4>1. PICK x \in Node : x = p[i]
        BY <1>1
      <4>2. ss[i] = <<x>>
        BY <1>1, <3>2, <4>1
      <4>3. <<x>> \in Seq(Node) /\ DOMAIN <<x>> = {1} /\ <<x>>[1] = x /\ Len(<<x>>) = 1
        OBVIOUS
      <4> QED BY <4>1, <4>2, <4>3 DEF ToSet
    <3> QED BY <3>1, <3>2
  <2>4. DOMAIN ss = 1 .. Len(p)
    BY <1>1
  <2>5. ss \in [1 .. Len(p) -> Seq(Node)]
    BY <1>1, <2>3, <2>4
  <2> HIDE DEF ss
  <2>6. ss \in Seq(Seq(Node)) /\ Len(ss) = Len(p)
    <3>1. PICK l, u : l = Len(p) /\ u = ss
      OBVIOUS
    <3>2. l \in Nat /\ u \in [1 .. l -> Seq(Node)]
      BY <1>1, <2>5, <3>1
    <3>3. u \in Seq(Seq(Node)) /\ Len(u) = l
      BY <3>2
    <3> QED BY <3>1, <3>3
  <2>7. t \in Seq(Node) /\ ToSet(t) = UNION {ToSet(ss[i]) : i \in 1 .. Len(p)}
    BY <2>4, <2>6, FlattenRange
  <2>8. Len(t) < Len(p)
    <3>1. Len(ss[k]) = 0
      BY <2>2, EmptySeq
    <3> QED BY <1>2, <2>3, <2>4, <2>6, <3>1, FlattenShort
  <2> HIDE DEF t
  <2>9. ToSet(t) \subseteq Range(p)
    <3> SUFFICES ASSUME NEW x \in ToSet(t) PROVE x \in Range(p)
      OBVIOUS
    <3>1. PICK i \in 1 .. Len(p) : x \in ToSet(ss[i])
      BY <2>7
    <3>2. x = p[i]
      BY <2>3, <3>1
    <3> QED BY <1>1, <3>2 DEF Range
  <2>10. PICK a \in Node : a = g.master
    BY <1>0
  <2> HIDE DEF q
  <2>11. Len(t) \in Nat /\ DOMAIN t = 1 .. Len(t)
    BY <2>7, LenProperties
  <2>12. <<a>> \in Seq(Node) /\ Len(<<a>>) = 1 /\ ToSet(<<a>>) = {a}
    <3>1. <<a>> \in Seq(Node) /\ Len(<<a>>) = 1 /\ DOMAIN <<a>> = {1} /\ <<a>>[1] = a
      OBVIOUS
    <3> QED BY <3>1 DEF ToSet
  <2>13. q \in Seq(Node) /\ Len(q) = 1 + Len(t) /\ ToSet(q) = {a} \cup ToSet(t)
    <3>1. PICK u, v \in Seq(Node) : u = <<a>> /\ v = t
      BY <2>7, <2>12
    <3>2. q = u \o v
      BY <2>1, <2>10, <3>1
    <3>3. u \o v \in Seq(Node) /\ Len(u \o v) = Len(u) + Len(v)
      BY ConcatProperties
    <3>4. ToSet(u \o v) = ToSet(u) \cup ToSet(v)
      BY ConcatRange
    <3> QED BY <2>12, <3>1, <3>2, <3>3, <3>4
  <2>14. Range(q) = ToSet(q)
    BY DEF Range, ToSet
  <2>15. Len(q) <= Len(p)
    BY <1>1, <2>8, <2>11, <2>13
  <2>16. {m} \union Range(q) \subseteq {g.master} \union Range(p)
    BY <1>2, <2>9, <2>10, <2>13, <2>14
  <2> QED BY <1>2, <2>13, <2>15, <2>16 DEF Members, p, q, m
<1> QED BY <1>3, <1>4

-----------------------------------------------------------------------------
(* A partition joins the groups of its database.                           *)

\* A new group has one member.
LEMMA NewGroupFacts ==
    ASSUME NEW n \in Node, NEW g, g = nextUnFull([master |-> n, peers |-> << >>, status |-> "UnFull"])
    PROVE  g \in Group /\ Members(g) = {n} /\ Distinct(g.master, g.peers) /\ Len(g.peers) = 0 /\ g.status = "UnFull"
<1>1. ReplicasN \in Nat \ {0, 1}
  BY ReplicaAssumption
<1>2. << >> \in Seq(Node) /\ Len(<< >>) = 0 /\ DOMAIN << >> = {}
  BY EmptySeq
<1>3. g = [master |-> n, peers |-> << >>, status |-> "UnFull"]
  BY <1>1, <1>2 DEF nextUnFull
<1>4. g.master = n /\ g.peers = << >> /\ g.status = "UnFull"
  BY <1>3
<1>5. g \in Group
  <2>1. PICK e \in Seq(Node) : e = << >>
    BY <1>2
  <2>2. g = [master |-> n, peers |-> e, status |-> "UnFull"]
    BY <1>3, <2>1
  <2> QED BY <2>2 DEF Group
<1>6. Range(<< >>) = {} /\ IsInjective(<< >>)
  BY <1>2 DEF Range, IsInjective
<1>7. Members(g) = {n} /\ Distinct(g.master, g.peers)
  BY <1>4, <1>6 DEF Members, Distinct
<1> QED BY <1>2, <1>4, <1>5, <1>7

\* The same of a group one partition has been added to.
LEMMA AddedGroupFacts ==
    ASSUME NEW g \in Group, NEW n \in Node, n \notin Members(g), Distinct(g.master, g.peers),
           g.status = "UnFull", Len(g.peers) + 1 < ReplicasN,
           NEW h, h = nextUnFull(AddPeer(g, n))
    PROVE  /\ h \in Group /\ Members(h) = Members(g) \union {n} /\ Distinct(h.master, h.peers)
           /\ Len(h.peers) < ReplicasN /\ (h.status = "UnFull" <=> Len(h.peers) + 1 < ReplicasN)
           /\ h.status \in {"UnFull", "SubHealth"}
<1>0. ReplicasN \in Nat \ {0, 1} /\ g.peers \in Seq(Node) /\ g.master \in Node
  BY ReplicaAssumption DEF Group
<1>1. PICK q : q = Append(g.peers, n)
  OBVIOUS
<1>2. q \in Seq(Node) /\ Len(q) = Len(g.peers) + 1 /\ Len(g.peers) \in Nat
  BY <1>0, <1>1, AppendProperties, LenProperties
<1>3. Range(q) = Range(g.peers) \union {n} /\ IsInjective(q)
  <2>1. n \notin ToSet(g.peers) /\ IsInjective(g.peers)
    BY DEF Members, ToSet, Range, Distinct
  <2>2. ToSet(q) = ToSet(g.peers) \cup {n}
    BY <1>0, <1>1, AppendRange
  <2>3. IsInjective(q)
    BY <1>0, <1>1, <2>1, AppendDistinct
  <2>4. ToSet(q) = Range(q) /\ ToSet(g.peers) = Range(g.peers)
    BY DEF Range, ToSet
  <2> QED BY <2>2, <2>3, <2>4
<1>4. PICK f : f = [g EXCEPT !.peers = q]
  OBVIOUS
<1>5. f \in Group /\ f.master = g.master /\ f.peers = q /\ f.status = "UnFull"
  BY <1>2, <1>4 DEF Group
<1>6. h = IF Len(q) + 1 = ReplicasN THEN [f EXCEPT !.status = "SubHealth"] ELSE f
  BY <1>1, <1>4, <1>5 DEF nextUnFull, AddPeer
<1>7. h \in Group /\ h.master = g.master /\ h.peers = q /\ h.status = IF Len(q) + 1 = ReplicasN THEN "SubHealth" ELSE "UnFull"
  BY <1>5, <1>6 DEF Group
<1>8. g.master # n /\ g.master \notin Range(g.peers)
  BY DEF Members, Distinct
<1>9. Members(h) = Members(g) \union {n}
  BY <1>3, <1>7 DEF Members
<1>10. Distinct(h.master, h.peers)
  BY <1>3, <1>7, <1>8 DEF Distinct
<1>11. Len(h.peers) = Len(g.peers) + 1 /\ Len(h.peers) < ReplicasN
  BY <1>0, <1>2, <1>7
<1>12. CASE Len(q) + 1 = ReplicasN
  BY <1>0, <1>2, <1>7, <1>9, <1>10, <1>11, <1>12
<1>13. CASE Len(q) + 1 # ReplicasN
  BY <1>0, <1>2, <1>7, <1>9, <1>10, <1>11, <1>13
<1> QED BY <1>12, <1>13

\* What joining changes of the groups: full groups stay as they are.
Grown(rg, id, rg2, id2, n) ==
    /\ Len(rg) <= Len(rg2) /\ \A m \in Node : m # n => id2[m] = id[m]
    /\ \A i \in 1..Len(rg) : rg2[i] = rg[i] \/ (rg[i].status = "UnFull" /\ rg2[i].status \in {"UnFull", "SubHealth"})
    /\ \A i \in 1..Len(rg2) : i > Len(rg) => rg2[i].status = "UnFull"

\* joinRpGroup keeps groups and RGIDs in agreement.
LEMMA JoinFacts ==
    ASSUME NEW s, NEW n \in Node, NEW T, Sound(s.rg, s.id, n - 1, T), NEW t, t = joinRpGroup(s, n)
    PROVE  Sound(t.rg, t.id, n, T) /\ Grown(s.rg, s.id, t.rg, t.id, n) /\ t.rg # << >>
<1>0. /\ s.rg \in Seq(Group) /\ s.id \in [Node -> 0..N] /\ Len(s.rg) <= n - 1
      /\ (\A m \in Node : IF m <= n - 1 THEN s.id[m] \in 1..Len(s.rg) ELSE s.id[m] = 0)
      /\ (\A i \in 1..Len(s.rg) : GroupState(s.rg[i], i, s.id, T)) /\ T \subseteq 1..Len(s.rg)
      /\ N \in Nat /\ n \in 1..N /\ Node = 1..N
  BY ReplicaAssumption DEF Sound, Node
<1>1. Len(s.rg) \in Nat /\ DOMAIN s.rg = 1..Len(s.rg) /\ \A i \in 1..Len(s.rg) : s.rg[i] \in Group
  BY <1>0, LenProperties, ElementOfSeq
<1>2. s.id[n] = 0
  BY <1>0
<1> DEFINE open == {j \in DOMAIN s.rg : s.rg[j].status = "UnFull"}
<1>3. CASE open = {}
  <2>1. PICK g : g = nextUnFull([master |-> n, peers |-> << >>, status |-> "UnFull"])
    OBVIOUS
  <2>2. g \in Group /\ Members(g) = {n} /\ Distinct(g.master, g.peers) /\ Len(g.peers) = 0 /\ g.status = "UnFull"
    BY <2>1, NewGroupFacts
  <2>3. t.rg = Append(s.rg, g) /\ t.id = [s.id EXCEPT ![n] = Len(s.rg) + 1]
    BY <1>3, <2>1 DEF joinRpGroup
  <2>4. t.rg \in Seq(Group) /\ Len(t.rg) = Len(s.rg) + 1 /\ t.rg[Len(s.rg) + 1] = g /\ \A i \in 1..Len(s.rg) : t.rg[i] = s.rg[i]
    BY <1>0, <1>1, <2>2, <2>3, AppendProperties
  <2>5. t.id[n] = Len(s.rg) + 1 /\ \A m \in Node : m # n => t.id[m] = s.id[m]
    BY <1>0, <2>3
  <2>6. t.id \in [Node -> 0..N]
    <3>1. Len(s.rg) + 1 \in 0..N
      BY <1>0, <1>1
    <3> QED BY <1>0, <2>3, <3>1
  <2>7. \A m \in Node : IF m <= n THEN t.id[m] \in 1..Len(t.rg) ELSE t.id[m] = 0
    <3> SUFFICES ASSUME NEW m \in Node PROVE IF m <= n THEN t.id[m] \in 1..Len(t.rg) ELSE t.id[m] = 0
      OBVIOUS
    <3>0. m \in Int /\ n \in Int /\ Len(s.rg) \in Nat /\ Len(t.rg) = Len(s.rg) + 1
      BY <1>0, <1>1, <2>4
    <3>1. CASE m = n
      BY <2>5, <3>0, <3>1
    <3>2. CASE m < n
      <4>1. m <= n - 1 /\ m # n /\ m <= n
        BY <3>0, <3>2
      <4>2. t.id[m] \in 1..Len(s.rg)
        BY <1>0, <2>5, <4>1
      <4> QED BY <3>0, <4>1, <4>2
    <3>3. CASE m > n
      <4>1. ~(m <= n - 1) /\ m # n /\ ~(m <= n)
        BY <3>0, <3>3
      <4> QED BY <1>0, <2>5, <4>1
    <3> QED BY <3>0, <3>1, <3>2, <3>3
  <2>8. ASSUME NEW i \in 1..Len(s.rg) PROVE GroupState(t.rg[i], i, t.id, T)
    <3>1. GroupState(s.rg[i], i, s.id, T) /\ t.rg[i] = s.rg[i] /\ i # Len(s.rg) + 1 /\ i # 0
      <4>1. i # Len(s.rg) + 1 /\ i # 0
        BY <1>1
      <4>2. GroupState(s.rg[i], i, s.id, T) /\ t.rg[i] = s.rg[i]
        BY <1>0, <2>4
      <4> QED BY <4>1, <4>2
    <3>2. {m \in Node : t.id[m] = i} = {m \in Node : s.id[m] = i}
      BY <1>2, <2>5, <3>1
    <3> QED BY <3>1, <3>2 DEF GroupState, GroupSound, GroupTorn
  <2>9. GroupState(g, Len(s.rg) + 1, t.id, T)
    <3>0. \A m \in Node : s.id[m] # Len(s.rg) + 1
      <4> SUFFICES ASSUME NEW m \in Node PROVE s.id[m] # Len(s.rg) + 1
        OBVIOUS
      <4>1. s.id[m] \in 1..Len(s.rg) \/ s.id[m] = 0
        BY <1>0
      <4> QED BY <1>1, <4>1
    <3>1. \A m \in Node : t.id[m] = Len(s.rg) + 1 <=> m = n
      BY <2>5, <3>0
    <3>2. {m \in Node : t.id[m] = Len(s.rg) + 1} = {n}
      BY <3>1
    <3>3. Len(s.rg) + 1 \notin T
      BY <1>0, <1>1
    <3> QED BY <2>2, <3>2, <3>3, ReplicaAssumption DEF GroupState, GroupSound
  <2>10. Sound(t.rg, t.id, n, T)
    <3>1. \A i \in 1..Len(t.rg) : i \in 1..Len(s.rg) \/ i = Len(s.rg) + 1
      BY <1>1, <2>4
    <3>2. \A i \in 1..Len(t.rg) : GroupState(t.rg[i], i, t.id, T)
      BY <2>4, <2>8, <2>9, <3>1
    <3>3. Len(t.rg) <= n
      BY <1>0, <1>1, <2>4
    <3>4. T \subseteq 1..Len(t.rg)
      BY <1>0, <1>1, <2>4
    <3> QED BY <3>4, <2>4, <2>6, <2>7, <3>2, <3>3 DEF Sound
  <2>11. Grown(s.rg, s.id, t.rg, t.id, n)
    <3>1. \A i \in 1..Len(t.rg) : i > Len(s.rg) => i = Len(s.rg) + 1
      BY <1>1, <2>4
    <3> QED BY <1>1, <2>2, <2>4, <2>5, <3>1 DEF Grown
  <2>12. t.rg # << >>
    BY <1>1, <2>4, EmptySeq
  <2> QED BY <2>10, <2>11, <2>12
<1>4. CASE open # {}
  <2>1. PICK i : i = Smallest(open)
    OBVIOUS
  <2>2. open \in SUBSET Nat
    BY <1>1
  <2>3. i \in 1..Len(s.rg) /\ s.rg[i].status = "UnFull"
    BY <1>1, <1>4, <2>1, <2>2, SmallestFacts
  <2>4. s.rg[i] \in Group /\ GroupSound(s.rg[i], i, s.id) /\ i # 0 /\ i \notin T
    <3>0. i # 0 /\ s.rg[i] \in Group
      BY <1>1, <2>3
    <3>1. GroupState(s.rg[i], i, s.id, T)
      BY <1>0, <2>3
    <3> QED BY <2>3, <3>0, <3>1 DEF GroupState, GroupTorn
  <2>5. PICK h : h = nextUnFull(AddPeer(s.rg[i], n))
    OBVIOUS
  <2>6. n \notin Members(s.rg[i])
    BY <1>2, <2>4 DEF GroupSound
  <2>7. /\ h \in Group /\ Members(h) = Members(s.rg[i]) \union {n} /\ Distinct(h.master, h.peers)
        /\ Len(h.peers) < ReplicasN /\ (h.status = "UnFull" <=> Len(h.peers) + 1 < ReplicasN)
        /\ h.status \in {"UnFull", "SubHealth"}
    BY <2>3, <2>4, <2>5, <2>6, AddedGroupFacts DEF GroupSound
  <2>8. t.rg = [s.rg EXCEPT ![i] = h] /\ t.id = [s.id EXCEPT ![n] = i]
    BY <1>4, <2>1, <2>5 DEF joinRpGroup
  <2>9. t.rg \in Seq(Group) /\ Len(t.rg) = Len(s.rg) /\ \A j \in 1..Len(s.rg) : t.rg[j] = IF j = i THEN h ELSE s.rg[j]
    BY <1>0, <2>3, <2>7, <2>8, ExceptSeq
  <2>10. t.id[n] = i /\ \A m \in Node : m # n => t.id[m] = s.id[m]
    BY <1>0, <2>8
  <2>11. t.id \in [Node -> 0..N]
    <3>1. i \in 0..N
      BY <1>0, <1>1, <2>3
    <3> QED BY <1>0, <2>8, <3>1
  <2>12. \A m \in Node : IF m <= n THEN t.id[m] \in 1..Len(t.rg) ELSE t.id[m] = 0
    <3> SUFFICES ASSUME NEW m \in Node PROVE IF m <= n THEN t.id[m] \in 1..Len(t.rg) ELSE t.id[m] = 0
      OBVIOUS
    <3>0. m \in Int /\ n \in Int /\ Len(t.rg) = Len(s.rg)
      BY <1>0, <2>9
    <3>1. CASE m = n
      BY <2>3, <2>10, <3>0, <3>1
    <3>2. CASE m < n
      <4>1. m <= n - 1 /\ m # n /\ m <= n
        BY <3>0, <3>2
      <4> QED BY <1>0, <2>10, <3>0, <4>1
    <3>3. CASE m > n
      <4>1. ~(m <= n - 1) /\ m # n /\ ~(m <= n)
        BY <3>0, <3>3
      <4> QED BY <1>0, <2>10, <4>1
    <3> QED BY <3>0, <3>1, <3>2, <3>3
  <2>13. ASSUME NEW j \in 1..Len(s.rg) PROVE GroupState(t.rg[j], j, t.id, T)
    <3>1. CASE j = i
      <4>1. {m \in Node : t.id[m] = i} = {m \in Node : s.id[m] = i} \union {n}
        BY <2>10
      <4> QED BY <2>4, <2>7, <2>9, <3>1, <4>1 DEF GroupState, GroupSound
    <3>2. CASE j # i
      <4>1. j # 0 /\ GroupState(s.rg[j], j, s.id, T) /\ t.rg[j] = s.rg[j]
        BY <1>0, <1>1, <2>9, <3>2
      <4>2. {m \in Node : t.id[m] = j} = {m \in Node : s.id[m] = j}
        BY <1>2, <2>10, <3>2, <4>1
      <4> QED BY <4>1, <4>2 DEF GroupState, GroupSound, GroupTorn
    <3> QED BY <3>1, <3>2
  <2>14. Sound(t.rg, t.id, n, T)
    <3>1. Len(t.rg) <= n /\ T \subseteq 1..Len(t.rg)
      BY <1>0, <1>1, <2>9
    <3> QED BY <2>9, <2>11, <2>12, <2>13, <3>1 DEF Sound
  <2>15. Grown(s.rg, s.id, t.rg, t.id, n)
    BY <1>1, <2>3, <2>7, <2>9, <2>10 DEF Grown
  <2>16. t.rg # << >>
    BY <1>1, <2>3, <2>9, EmptySeq
  <2> QED BY <2>14, <2>15, <2>16
<1> QED BY <1>3, <1>4

\* NodeHardCreateDBRG lets the partitions join one by one.
LEMMA CreateFacts ==
    ASSUME NEW k \in Node, NEW s, s = NodeHardCreateDBRG(k)
    PROVE  Sound(s.rg, s.id, k, {}) /\ s.rg # << >> /\ \A i \in 1..Len(s.rg) : s.rg[i].status \in {"UnFull", "SubHealth"}
<1>0. N \in Nat /\ k \in 1..N /\ Node = 1..N /\ k \in Nat
  BY ReplicaAssumption DEF Node
<1> DEFINE b == [rg |-> << >>, id |-> [m \in Node |-> 0]]
           Rec(g, m) == g = [n \in 0..m |-> IF n = 0 THEN b ELSE joinRpGroup(g[n - 1], n)]
           S == {m \in Nat : \E g : Rec(g, m)}
           f == CHOOSE g : Rec(g, k)
<1> HIDE DEF b
<1>1. k \in S
  <2>1. 0 \in S
    <3> DEFINE g == [n \in 0..0 |-> b]
    <3>1. Rec(g, 0)
      OBVIOUS
    <3> QED BY <3>1
  <2>2. ASSUME NEW m \in Nat, m \in S PROVE m + 1 \in S
    <3>1. PICK g : Rec(g, m)
      BY <2>2
    <3> DEFINE h == [n \in 0..m + 1 |-> IF n <= m THEN g[n] ELSE joinRpGroup(g[m], m + 1)]
               e == [n \in 0..m + 1 |-> IF n = 0 THEN b ELSE joinRpGroup(h[n - 1], n)]
    <3>2. ASSUME NEW n \in 0..m + 1 PROVE h[n] = e[n]
      <4>1. CASE n = 0
        BY <3>1, <4>1
      <4>2. CASE n # 0 /\ n <= m
        <5>1. n \in 0..m /\ n - 1 \in 0..m + 1 /\ n - 1 <= m
          BY <4>2
        <5>2. h[n] = g[n] /\ h[n - 1] = g[n - 1]
          BY <4>2, <5>1
        <5>3. g[n] = joinRpGroup(g[n - 1], n)
          BY <3>1, <4>2, <5>1
        <5> QED BY <4>2, <5>2, <5>3
      <4>3. CASE n = m + 1
        <5>1. n # 0 /\ ~(n <= m) /\ n - 1 = m /\ m \in 0..m + 1
          BY <4>3
        <5>2. h[n] = joinRpGroup(g[m], m + 1) /\ h[m] = g[m]
          BY <4>3, <5>1
        <5> QED BY <4>3, <5>1, <5>2
      <4> QED BY <4>1, <4>2, <4>3
    <3>3. h = e
      BY <3>2
    <3>4. Rec(h, m + 1)
      BY <3>3
    <3> HIDE DEF h, e
    <3>5. \E x : Rec(x, m + 1)
      BY <3>4
    <3> QED BY <3>5
  <2> HIDE DEF S
  <2> QED BY <1>0, <2>1, <2>2, NatSetInduction
<1>2. Rec(f, k)
  BY <1>1
<1>3. s = f[k]
  BY DEF NodeHardCreateDBRG, b
<1> HIDE DEF f
<1>4. f[0] = b /\ \A n \in 1..k : f[n] = joinRpGroup(f[n - 1], n)
  <2>1. f[0] = b
    BY <1>0, <1>2
  <2>2. ASSUME NEW n \in 1..k PROVE f[n] = joinRpGroup(f[n - 1], n)
    <3>1. n \in 0..k /\ n # 0
      BY <1>0
    <3> QED BY <1>2, <3>1
  <2> QED BY <2>1, <2>2
<1> DEFINE Good(u, n) == /\ Sound(u.rg, u.id, n, {}) /\ (n > 0 => u.rg # << >>)
                         /\ \A i \in 1..Len(u.rg) : u.rg[i].status \in {"UnFull", "SubHealth"}
           P == {n \in Nat : n <= k => Good(f[n], n)}
<1>5. 0 \in P
  <2>1. b.rg = << >> /\ b.id = [m \in Node |-> 0] /\ << >> \in Seq(Group) /\ Len(<< >>) = 0
    BY EmptySeq DEF b
  <2>2. b.id \in [Node -> 0..N] /\ \A m \in Node : ~(m <= 0) /\ b.id[m] = 0
    BY <1>0, <2>1
  <2>3. Good(b, 0)
    BY <2>1, <2>2 DEF Sound
  <2> QED BY <1>4, <2>3
<1>6. ASSUME NEW n \in Nat, n \in P PROVE n + 1 \in P
  <2> SUFFICES ASSUME n + 1 <= k PROVE Good(f[n + 1], n + 1)
    OBVIOUS
  <2>1. n + 1 \in 1..k /\ n + 1 \in Node /\ (n + 1) - 1 = n /\ n <= k
    BY <1>0
  <2>2. Good(f[n], n) /\ f[n + 1] = joinRpGroup(f[n], n + 1)
    BY <1>4, <1>6, <2>1
  <2>3. PICK u, v : u = f[n] /\ v = f[n + 1]
    OBVIOUS
  <2>4. Sound(u.rg, u.id, (n + 1) - 1, {}) /\ v = joinRpGroup(u, n + 1)
    BY <2>1, <2>2, <2>3
  <2>5. Sound(v.rg, v.id, n + 1, {}) /\ Grown(u.rg, u.id, v.rg, v.id, n + 1) /\ v.rg # << >>
    BY <2>1, <2>4, JoinFacts
  <2>6. Len(u.rg) \in Nat /\ Len(v.rg) \in Nat
    BY <2>4, <2>5, LenProperties DEF Sound
  <2>7. \A i \in 1..Len(v.rg) : v.rg[i].status \in {"UnFull", "SubHealth"}
    BY <2>2, <2>3, <2>5, <2>6 DEF Grown
  <2> QED BY <2>3, <2>5, <2>7
<1> HIDE DEF P, Good
<1>7. k \in P
  BY <1>0, <1>5, <1>6, NatSetInduction
<1>8. Good(s, k)
  BY <1>0, <1>3, <1>7 DEF P
<1> QED BY <1>0, <1>8 DEF Good

-----------------------------------------------------------------------------
(* Raft commands on the metadata.                                          *)

\* Two ways to say that more than half of the replicas are online.
LEMMA Half ==
    ASSUME NEW c \in Nat, NEW r \in Nat
    PROVE  c > r \div 2 <=> 2 * c > r
<1>1. PICK q, m \in Nat : r = 2 * q + m /\ m < 2 /\ q = r \div 2
  OBVIOUS
<1> QED BY <1>1

\* What HealthIsMajority says of one group; s tells that it is stale.
HealthOf(g, view, s) ==
    g.status # "UnFull" =>
      /\ 2 * Cardinality(Online(view, Members(g))) > ReplicasN => g.status = "Health"
      /\ g.status = "Health" => 2 * Cardinality(Online(view, Members(g))) > ReplicasN \/ s

\* h has the members of g and is full if and only if g is.
Reshaped(g, h) ==
    /\ h \in Group /\ Members(h) = Members(g) /\ Distinct(h.master, h.peers)
    /\ Len(h.peers) = Len(g.peers) /\ (h.status = "UnFull" <=> g.status = "UnFull")

\* A full group is a finite set of as many nodes as there are replicas.
FullGroup(g) == g \in Group /\ Distinct(g.master, g.peers) /\ (g.status # "UnFull" => Len(g.peers) + 1 = ReplicasN)

\* The partitions that are online are finitely many, fewer in a smaller set.
LEMMA OnlineSize ==
    ASSUME NEW g \in Group, Distinct(g.master, g.peers), NEW v, NEW w, Online(v, Members(g)) \subseteq Online(w, Members(g))
    PROVE  /\ Cardinality(Online(v, Members(g))) \in Nat /\ Cardinality(Online(w, Members(g))) \in Nat
           /\ Cardinality(Online(v, Members(g))) <= Cardinality(Online(w, Members(g)))
<1>1. IsFiniteSet(Members(g))
  BY MembersSize DEF Members, Group
<1>2. Online(w, Members(g)) \subseteq Members(g)
  BY DEF Online
<1>3. IsFiniteSet(Online(w, Members(g)))
  BY <1>1, <1>2, FS_Subset
<1>4. IsFiniteSet(Online(v, Members(g))) /\ Cardinality(Online(v, Members(g))) <= Cardinality(Online(w, Members(g)))
  BY <1>3, FS_Subset
<1> QED BY <1>3, <1>4, FS_CardinalityType

\* Counting positions of the list counts the partitions, if none is listed twice.
LEMMA OnlineCount ==
    ASSUME NEW g \in Group, Distinct(g.master, g.peers), NEW v
    PROVE  onlinePtN(g, v) = Cardinality(Online(v, Members(g)))
<1> DEFINE p == g.peers
           P == {i \in DOMAIN p : v[p[i]] = "Online"}
           O == Online(v, Range(p))
           f == [i \in P |-> p[i]]
<1>0. p \in Seq(Node) /\ g.master \in Node
  BY DEF Group
<1>1. Len(p) \in Nat /\ DOMAIN p = 1 .. Len(p)
  BY <1>0, LenProperties
<1>2. IsFiniteSet(P)
  <2>1. IsFiniteSet(1 .. Len(p))
    BY <1>1, FS_Interval
  <2>2. P \subseteq 1 .. Len(p)
    BY <1>1
  <2> HIDE DEF P
  <2> QED BY <2>1, <2>2, FS_Subset
<1>3. f \in Bijection(P, O)
  <2>1. f \in [P -> O]
    BY DEF Range, Online
  <2>2. \A i, j \in P : f[i] = f[j] => i = j
    BY DEF Distinct, IsInjective
  <2>3. \A x \in O : \E i \in P : f[i] = x
    BY DEF Online, Range
  <2> HIDE DEF P, O, f
  <2> QED BY <2>1, <2>2, <2>3 DEF Bijection, Injection, Surjection, IsInjective
<1> HIDE DEF f
<1>4. IsFiniteSet(O) /\ Cardinality(O) = Cardinality(P)
  <2>1. PICK A, B : A = P /\ B = O
    OBVIOUS
  <2>2. IsFiniteSet(B) /\ Cardinality(B) = Cardinality(A)
    BY <1>2, <1>3, <2>1, FS_Bijection DEF ExistsBijection
  <2> QED BY <2>1, <2>2
<1>5. onlinePtN(g, v) = Cardinality(P) + (IF v[g.master] = "Online" THEN 1 ELSE 0)
  BY DEF onlinePtN
<1>6. Cardinality(P) \in Nat
  <2> HIDE DEF P
  <2> QED BY <1>2, FS_CardinalityType
<1>7. CASE v[g.master] = "Online"
  <2>1. g.master \notin O
    BY DEF Distinct, Online
  <2>2. Online(v, Members(g)) = O \cup {g.master}
    BY <1>7 DEF Online, Members
  <2>3. PICK B, m : B = O /\ m = g.master
    OBVIOUS
  <2>4. Cardinality(B \cup {m}) = Cardinality(B) + 1
    BY <1>4, <2>1, <2>3, FS_AddElement
  <2>5. Cardinality(Online(v, Members(g))) = Cardinality(P) + 1
    BY <1>4, <2>2, <2>3, <2>4
  <2> HIDE DEF P
  <2> QED BY <1>5, <1>7, <2>5
<1>8. CASE v[g.master] # "Online"
  <2>1. Online(v, Members(g)) = O
    BY <1>8 DEF Online, Members
  <2> HIDE DEF P, O
  <2> QED BY <1>4, <1>5, <1>6, <1>8, <2>1
<1> QED BY <1>7, <1>8

\* Stepping the status leaves the rest of a group alone.
LEMMA StatusOnly ==
    ASSUME NEW g \in Group, NEW w, NEW h, h = nextHealth(g, w) \/ h = nextSubHealth(g, w)
    PROVE  h \in Group /\ h.master = g.master /\ h.peers = g.peers /\ (h.status = "UnFull" <=> g.status = "UnFull")
<1>1. \/ h = g
      \/ g.status = "Health" /\ h = [g EXCEPT !.status = "SubHealth"]
      \/ g.status = "SubHealth" /\ h = [g EXCEPT !.status = "Health"]
  BY DEF nextHealth, nextSubHealth
<1>2. CASE h = g
  BY <1>2
<1>3. CASE g.status = "Health" /\ h = [g EXCEPT !.status = "SubHealth"]
  BY <1>3 DEF Group
<1>4. CASE g.status = "SubHealth" /\ h = [g EXCEPT !.status = "Health"]
  BY <1>4 DEF Group
<1> QED BY <1>1, <1>2, <1>3, <1>4

\* A group of which a partition goes offline without being counted.
LEMMA UncountedHealth ==
    ASSUME NEW g, FullGroup(g), NEW v, NEW w, Online(w, Members(g)) \subseteq Online(v, Members(g)), NEW s, HealthOf(g, v, s)
    PROVE  HealthOf(g, w, TRUE)
<1>0. g \in Group /\ Distinct(g.master, g.peers) /\ ReplicasN \in Nat
  BY ReplicaAssumption DEF FullGroup
<1>1. PICK c, b \in Nat : c = Cardinality(Online(w, Members(g))) /\ b = Cardinality(Online(v, Members(g))) /\ c <= b
  BY <1>0, OnlineSize
<1>2. 2 * c > ReplicasN => 2 * b > ReplicasN
  BY <1>0, <1>1
<1> QED BY <1>1, <1>2 DEF HealthOf

\* A group of which a partition goes offline.
LEMMA nextHealthFacts ==
    ASSUME NEW g, FullGroup(g), NEW v, NEW w, Online(w, Members(g)) \subseteq Online(v, Members(g)), NEW s, HealthOf(g, v, s)
    PROVE  Reshaped(g, nextHealth(g, w)) /\ HealthOf(nextHealth(g, w), w, FALSE)
<1>0. /\ g \in Group /\ Distinct(g.master, g.peers) /\ ReplicasN \in Nat
      /\ g.status \in {"UnFull", "SubHealth", "Health"}
  BY ReplicaAssumption DEF FullGroup, Group
<1>1. PICK c, b \in Nat : /\ c = Cardinality(Online(w, Members(g))) /\ b = Cardinality(Online(v, Members(g))) /\ c <= b
                          /\ onlinePtN(g, w) = c
  BY <1>0, OnlineSize, OnlineCount
<1>2. c > ReplicasN \div 2 <=> 2 * c > ReplicasN
  BY <1>0, Half
<1>3. CASE g.status = "Health" /\ ~(2 * c > ReplicasN)
  <2>1. PICK h : h = [g EXCEPT !.status = "SubHealth"]
    OBVIOUS
  <2>2. c <= ReplicasN \div 2
    BY <1>0, <1>2, <1>3
  <2>3. nextHealth(g, w) = h
    BY <1>1, <1>3, <2>1, <2>2 DEF nextHealth
  <2>4. h \in Group /\ h.master = g.master /\ h.peers = g.peers /\ h.status = "SubHealth"
    BY <1>0, <2>1 DEF Group
  <2>5. Members(h) = Members(g)
    BY <2>4 DEF Members
  <2>6. HealthOf(h, w, FALSE)
    BY <1>1, <1>3, <2>4, <2>5 DEF HealthOf
  <2>7. Reshaped(g, h)
    BY <1>0, <1>3, <2>4, <2>5 DEF Reshaped
  <2> QED BY <2>3, <2>6, <2>7
<1>4. CASE ~(g.status = "Health" /\ ~(2 * c > ReplicasN))
  <2>1. g.status = "Health" => ~(c <= ReplicasN \div 2)
    BY <1>0, <1>2, <1>4
  <2>2. nextHealth(g, w) = g
    BY <1>1, <2>1 DEF nextHealth
  <2>3. Reshaped(g, g)
    BY <1>0 DEF Reshaped
  <2>4. HealthOf(g, w, FALSE)
    <3>1. CASE g.status = "Health"
      BY <1>1, <1>4, <3>1 DEF HealthOf
    <3>2. CASE g.status = "SubHealth"
      <4>1. ~(2 * b > ReplicasN)
        BY <1>1, <3>2 DEF HealthOf
      <4>2. ~(2 * c > ReplicasN)
        BY <1>0, <1>1, <4>1
      <4> QED BY <1>1, <3>2, <4>2 DEF HealthOf
    <3>3. CASE g.status = "UnFull"
      BY <3>3 DEF HealthOf
    <3> QED BY <1>0, <3>1, <3>2, <3>3
  <2> QED BY <2>2, <2>3, <2>4
<1> QED BY <1>3, <1>4

\* A group of which a partition comes online.
LEMMA nextSubHealthFacts ==
    ASSUME NEW g, FullGroup(g), NEW v, NEW w, Online(v, Members(g)) \subseteq Online(w, Members(g)), NEW s, HealthOf(g, v, s)
    PROVE  Reshaped(g, nextSubHealth(g, w)) /\ HealthOf(nextSubHealth(g, w), w, s)
<1>0. /\ g \in Group /\ Distinct(g.master, g.peers) /\ ReplicasN \in Nat
      /\ g.status \in {"UnFull", "SubHealth", "Health"}
  BY ReplicaAssumption DEF FullGroup, Group
<1>1. PICK c, b \in Nat : /\ c = Cardinality(Online(w, Members(g))) /\ b = Cardinality(Online(v, Members(g))) /\ b <= c
                          /\ onlinePtN(g, w) = c
  BY <1>0, OnlineSize, OnlineCount
<1>2. c > ReplicasN \div 2 <=> 2 * c > ReplicasN
  BY <1>0, Half
<1>3. g.status # "UnFull" => Len(g.peers) + 1 = ReplicasN
  BY DEF FullGroup
<1>4. CASE g.status = "SubHealth" /\ 2 * c > ReplicasN
  <2>1. PICK h : h = [g EXCEPT !.status = "Health"]
    OBVIOUS
  <2>2. c > (Len(g.peers) + 1) \div 2
    BY <1>2, <1>3, <1>4
  <2>3. nextSubHealth(g, w) = h
    BY <1>1, <1>4, <2>1, <2>2 DEF nextSubHealth
  <2>4. h \in Group /\ h.master = g.master /\ h.peers = g.peers /\ h.status = "Health"
    BY <1>0, <2>1 DEF Group
  <2>5. Members(h) = Members(g)
    BY <2>4 DEF Members
  <2>6. HealthOf(h, w, s)
    BY <1>1, <1>4, <2>4, <2>5 DEF HealthOf
  <2>7. Reshaped(g, h)
    BY <1>0, <1>4, <2>4, <2>5 DEF Reshaped
  <2> QED BY <2>3, <2>6, <2>7
<1>5. CASE ~(g.status = "SubHealth" /\ 2 * c > ReplicasN)
  <2>1. g.status = "SubHealth" => ~(c > (Len(g.peers) + 1) \div 2)
    BY <1>2, <1>3, <1>5
  <2>2. nextSubHealth(g, w) = g
    BY <1>1, <2>1 DEF nextSubHealth
  <2>3. Reshaped(g, g)
    BY <1>0 DEF Reshaped
  <2>4. HealthOf(g, w, s)
    <3>1. CASE g.status = "Health"
      <4>1. 2 * b > ReplicasN \/ s
        BY <1>1, <3>1 DEF HealthOf
      <4>2. 2 * c > ReplicasN \/ s
        BY <1>0, <1>1, <4>1
      <4> QED BY <1>1, <3>1, <4>2 DEF HealthOf
    <3>2. CASE g.status = "SubHealth"
      BY <1>1, <1>5, <3>2 DEF HealthOf
    <3>3. CASE g.status = "UnFull"
      BY <3>3 DEF HealthOf
    <3> QED BY <1>0, <3>1, <3>2, <3>3
  <2> QED BY <2>2, <2>3, <2>4
<1> QED BY <1>4, <1>5

\* What the metadata says of the groups of a database.
LEMMA GroupContext ==
    ASSUME TypeMeta, GroupsInv, NEW d \in Db
    PROVE  /\ rgs[d] \in Seq(Group) /\ rgid[d] \in [Node -> 0..N] /\ Len(rgs[d]) \in Nat /\ DOMAIN rgs[d] = 1..Len(rgs[d])
           /\ \A i \in 1..Len(rgs[d]) :
                 /\ rgs[d][i] \in Group /\ Members(rgs[d][i]) \subseteq {n \in Node : rgid[d][n] = i}
                 /\ Len(rgs[d][i].peers) < ReplicasN /\ (i \in Torn(d) <=> <<d, i>> \in torn)
                 /\ <<d, i>> \in torn => GroupTorn(rgs[d][i], i, rgid[d])
                 /\ <<d, i>> \notin torn => GroupSound(rgs[d][i], i, rgid[d]) /\ FullGroup(rgs[d][i])
           /\ \A n \in Node : rgid[d][n] # 0 => rgid[d][n] \in 1..Len(rgs[d]) /\ n \in 1..nodes
<1>1. /\ rgs[d] \in Seq(Group) /\ rgid[d] \in [Node -> 0..N] /\ Len(rgs[d]) \in Nat /\ DOMAIN rgs[d] = 1..Len(rgs[d])
      /\ \A i \in 1..Len(rgs[d]) : rgs[d][i] \in Group
  <2>1. rgs[d] \in Seq(Group) /\ rgid[d] \in [Node -> 0..N]
    BY DEF TypeMeta
  <2> QED BY <2>1, LenProperties, ElementOfSeq
<1>2. ASSUME NEW i \in 1..Len(rgs[d])
      PROVE  GroupState(rgs[d][i], i, rgid[d], Torn(d)) /\ (i \in Torn(d) <=> <<d, i>> \in torn)
  <2>1. Exists(d)
    BY <1>1, <1>2, EmptySeq DEF Exists
  <2>2. GroupState(rgs[d][i], i, rgid[d], Torn(d)) /\ Len(rgs[d]) <= nodes
    BY <2>1 DEF GroupsInv, Sound
  <2>3. nodes \in Int /\ nodes <= N /\ N \in Nat
    BY ReplicaAssumption DEF TypeMeta
  <2>4. i \in 0..N
    BY <1>1, <2>2, <2>3
  <2> QED BY <2>2, <2>4 DEF Torn
<1>3. ASSUME NEW i \in 1..Len(rgs[d]), <<d, i>> \in torn
      PROVE  /\ GroupTorn(rgs[d][i], i, rgid[d])
             /\ Members(rgs[d][i]) \subseteq {n \in Node : rgid[d][n] = i} /\ Len(rgs[d][i].peers) < ReplicasN
  <2>1. GroupTorn(rgs[d][i], i, rgid[d])
    BY <1>2, <1>3 DEF GroupState
  <2> QED BY <2>1 DEF GroupTorn
<1>4. ASSUME NEW i \in 1..Len(rgs[d]), <<d, i>> \notin torn
      PROVE  /\ GroupSound(rgs[d][i], i, rgid[d]) /\ FullGroup(rgs[d][i])
             /\ Members(rgs[d][i]) \subseteq {n \in Node : rgid[d][n] = i} /\ Len(rgs[d][i].peers) < ReplicasN
  <2>1. GroupSound(rgs[d][i], i, rgid[d]) /\ rgs[d][i] \in Group
    BY <1>1, <1>2, <1>4 DEF GroupState
  <2>2. Len(rgs[d][i].peers) \in Nat /\ ReplicasN \in Nat
    BY <2>1, LenProperties, ReplicaAssumption DEF Group
  <2>3. rgs[d][i].status # "UnFull" => Len(rgs[d][i].peers) + 1 = ReplicasN
    BY <2>1, <2>2 DEF GroupSound
  <2> QED BY <2>1, <2>3 DEF FullGroup, GroupSound
<1>5. ASSUME NEW n \in Node, rgid[d][n] # 0
      PROVE  rgid[d][n] \in 1..Len(rgs[d]) /\ n \in 1..nodes
  <2>1. Exists(d)
    BY <1>5 DEF GroupsInv
  <2>2. IF n <= nodes THEN rgid[d][n] \in 1..Len(rgs[d]) ELSE rgid[d][n] = 0
    BY <2>1 DEF GroupsInv, Sound
  <2>3. n \in 1..N /\ nodes \in Int /\ N \in Nat
    BY ReplicaAssumption DEF Node, TypeMeta
  <2>4. n <= nodes /\ rgid[d][n] \in 1..Len(rgs[d])
    BY <1>5, <2>2
  <2> QED BY <2>3, <2>4
<1> QED BY <1>1, <1>2, <1>3, <1>4, <1>5

\* HealthIsMajority, group by group.
LEMMA HealthGroups ==
    ASSUME TypeMeta, GroupsInv
    PROVE  HealthIsMajority <=>
             \A d \in Db : \A i \in 1..Len(rgs[d]) : <<d, i>> \notin torn => HealthOf(rgs[d][i], pt[d], <<d, i>> \in stale)
<1>1. \A d \in Db : DOMAIN rgs[d] = 1..Len(rgs[d])
  BY GroupContext
<1> QED BY <1>1 DEF HealthIsMajority, HealthOf

\* A full group stays full, a partition keeps its group, and what is torn stays so.
Later ==
    /\ \A d \in Db : \A i \in 1..Len(rgs[d]) : rgs[d][i].status # "UnFull" =>
          i \in 1..Len(rgs'[d]) /\ rgs'[d][i].status # "UnFull"
    /\ \A d \in Db, n \in Node : rgid[d][n] # 0 => rgid'[d][n] = rgid[d][n]
    /\ torn \subseteq torn'

\* So a command under way stays good.
LEMMA LaterGood ==
    ASSUME MetaInv, Later
    PROVE  \A c, T : GoodCmd(c, rgs, rgid, T) /\ T \subseteq torn' => GoodCmd(c, rgs', rgid', torn')
<1> SUFFICES ASSUME NEW c, NEW T, GoodCmd(c, rgs, rgid, T), T \subseteq torn' PROVE GoodCmd(c, rgs', rgid', torn')
  OBVIOUS
<1>1. c.db \in Db /\ c.rg \in 1..Len(rgs[c.db]) /\ c.rg # 0
  <2>1. c.db \in Db /\ c.rg \in 1..Len(rgs[c.db])
    BY DEF GoodCmd, Command
  <2>2. Len(rgs[c.db]) \in Nat
    BY <2>1, GroupContext DEF MetaInv
  <2> QED BY <2>1, <2>2
<1>2. c.rg \in 1..Len(rgs'[c.db]) /\ rgs'[c.db][c.rg].status # "UnFull"
  BY <1>1 DEF GoodCmd, Later
<1>3. \A n \in Node : rgid[c.db][n] = c.rg => rgid'[c.db][n] = c.rg
  BY <1>1 DEF Later
<1>4. {n \in Node : rgid[c.db][n] = c.rg} \subseteq {n \in Node : rgid'[c.db][n] = c.rg}
  BY <1>3
<1>5. {c.master} \union Range(c.peers) \subseteq {n \in Node : rgid'[c.db][n] = c.rg}
  BY <1>4 DEF GoodCmd
<1> QED BY <1>2, <1>5 DEF GoodCmd

\* What a command that gives groups another master, other peers or another status
\* has to keep of a group.
GroupStep(d, i) ==
    IF <<d, i>> \in torn THEN rgs'[d][i] \in Group /\ GroupTorn(rgs'[d][i], i, rgid[d])
    ELSE Reshaped(rgs[d][i], rgs'[d][i]) /\ HealthOf(rgs'[d][i], pt'[d], <<d, i>> \in stale')

\* It is enough to look at the groups one by one.
LEMMA ReshapedMeta ==
    ASSUME MetaInv, nodes' = nodes, rgid' = rgid, dn' \in [Node -> {"none", "alive", "failed"}], pt' \in [Db -> [Node -> Status]],
           rgs' \in [Db -> Seq(Group)], torn' = torn, stale' \subseteq Db \X (0..N),
           \A d \in Db : Len(rgs'[d]) = Len(rgs[d]),
           \A d \in Db : \A i \in 1..Len(rgs[d]) : GroupStep(d, i),
           \A d \in Db, n \in Node : /\ pt'[d][n] = "none" <=> pt[d][n] = "none"
                                     /\ pt'[d][n] = "Online" => pt[d][n] = "Online" \/ GroupOf(d, n).status # "UnFull"
    PROVE  MetaInv' /\ Later
<1> USE DEF MetaInv
<1>0. ASSUME NEW d \in Db, NEW i \in 1..Len(rgs[d])
      PROVE  /\ GroupState(rgs'[d][i], i, rgid[d], Torn(d))
             /\ rgs[d][i].status # "UnFull" => rgs'[d][i].status # "UnFull"
             /\ <<d, i>> \notin torn => HealthOf(rgs'[d][i], pt'[d], <<d, i>> \in stale')
  <2>1. /\ GroupStep(d, i) /\ (i \in Torn(d) <=> <<d, i>> \in torn)
        /\ <<d, i>> \notin torn => GroupSound(rgs[d][i], i, rgid[d])
    BY GroupContext
  <2>2. CASE <<d, i>> \in torn
    BY <2>1, <2>2 DEF GroupStep, GroupState, GroupTorn
  <2>3. CASE <<d, i>> \notin torn
    <3>1. Reshaped(rgs[d][i], rgs'[d][i]) /\ HealthOf(rgs'[d][i], pt'[d], <<d, i>> \in stale')
      BY <2>1, <2>3 DEF GroupStep
    <3>2. GroupSound(rgs'[d][i], i, rgid[d])
      BY <2>1, <2>3, <3>1 DEF GroupSound, Reshaped
    <3> QED BY <2>1, <2>3, <3>1, <3>2 DEF GroupState, Reshaped
  <2> QED BY <2>2, <2>3
<1>1. TypeMeta'
  BY DEF TypeMeta
<1>2. GroupsInv'
  <2> SUFFICES ASSUME NEW d \in Db
               PROVE  IF Exists(d)' THEN Sound(rgs'[d], rgid[d], nodes, Torn(d))
                      ELSE rgid[d] = [n \in Node |-> 0] /\ Torn(d) = {}
    BY DEF GroupsInv, Torn
  <2>1. rgs[d] \in Seq(Group) /\ rgs'[d] \in Seq(Group) /\ Len(rgs'[d]) = Len(rgs[d])
    BY GroupContext
  <2>2. Exists(d)' <=> Exists(d)
    BY <2>1, EmptySeq DEF Exists
  <2>3. CASE Exists(d)
    <3>1. Sound(rgs[d], rgid[d], nodes, Torn(d))
      BY <2>3 DEF GroupsInv
    <3>2. \A i \in 1..Len(rgs[d]) : GroupState(rgs'[d][i], i, rgid[d], Torn(d))
      BY <1>0
    <3>3. Sound(rgs'[d], rgid[d], nodes, Torn(d))
      BY <2>1, <3>1, <3>2 DEF Sound
    <3> QED BY <2>2, <2>3, <3>3
  <2>4. CASE ~Exists(d)
    BY <2>2, <2>4 DEF GroupsInv
  <2> QED BY <2>3, <2>4
<1>3. PtInv'
  <2> SUFFICES ASSUME NEW d \in Db, NEW n \in Node
               PROVE  /\ pt'[d][n] = "none" <=> rgid'[d][n] = 0
                      /\ pt'[d][n] = "Online" => rgs'[d][rgid'[d][n]].status # "UnFull"
    BY DEF PtInv, GroupOf
  <2>1. /\ pt[d][n] = "none" <=> rgid[d][n] = 0
        /\ pt[d][n] = "Online" => GroupOf(d, n).status # "UnFull"
    BY DEF PtInv
  <2>2. rgid[d][n] # 0 => rgid[d][n] \in 1..Len(rgs[d])
    BY GroupContext
  <2>3. ASSUME pt'[d][n] = "Online" PROVE rgs'[d][rgid[d][n]].status # "UnFull"
    <3>1. rgid[d][n] # 0 /\ GroupOf(d, n).status # "UnFull"
      BY <2>1, <2>3
    <3> QED BY <1>0, <2>2, <3>1 DEF GroupOf
  <2> QED BY <2>1, <2>3
<1>4. HealthIsMajority'
  <2>1. (HealthIsMajority <=>
           \A d \in Db : \A i \in 1..Len(rgs[d]) : <<d, i>> \notin torn => HealthOf(rgs[d][i], pt[d], <<d, i>> \in stale))'
    BY <1>1, <1>2, HealthGroups, PTL
  <2>2. \A d \in Db : \A i \in 1..Len(rgs'[d]) : <<d, i>> \notin torn' => HealthOf(rgs'[d][i], pt'[d], <<d, i>> \in stale')
    BY <1>0
  <2> QED BY <2>1, <2>2
<1>5. Later
  BY <1>0 DEF Later
<1> QED BY <1>1, <1>2, <1>3, <1>4, <1>5

\* A group that is left alone.
LEMMA SameGroups ==
    ASSUME MetaInv, NEW d \in Db, NEW i \in 1..Len(rgs[d])
    PROVE  IF <<d, i>> \in torn THEN rgs[d][i] \in Group /\ GroupTorn(rgs[d][i], i, rgid[d])
           ELSE Reshaped(rgs[d][i], rgs[d][i]) /\ HealthOf(rgs[d][i], pt[d], <<d, i>> \in stale)
<1>1. /\ rgs[d][i] \in Group
      /\ <<d, i>> \in torn => GroupTorn(rgs[d][i], i, rgid[d])
      /\ <<d, i>> \notin torn => GroupSound(rgs[d][i], i, rgid[d])
  BY GroupContext DEF MetaInv
<1>2. <<d, i>> \notin torn => HealthOf(rgs[d][i], pt[d], <<d, i>> \in stale)
  BY HealthGroups DEF MetaInv
<1> QED BY <1>1, <1>2 DEF Reshaped, GroupSound

\* A command permutes the members of its group, however old it is, unless it is torn.
LEMMA UpdateReplicationKeeps ==
    ASSUME MetaInv, NEW c, GoodCmd(c, rgs, rgid, torn), UpdateReplication(c), UNCHANGED <<nodes, dn, pt, rgid, torn, stale>>
    PROVE  MetaInv' /\ Later
<1>0. /\ c.db \in Db /\ c.rg \in 1..Len(rgs[c.db]) /\ c.master \in Node /\ c.peers \in Seq(Node)
      /\ ReplicasN \in Nat \ {0, 1} /\ Len(c.peers) \in Nat
  BY LenProperties, ReplicaAssumption DEF GoodCmd, Command
<1>1. PICK g : g = rgs[c.db][c.rg]
  OBVIOUS
<1>2. PICK owners : owners = {n \in Node : rgid[c.db][n] = c.rg}
  OBVIOUS
<1>3. /\ g \in Group /\ g.status # "UnFull" /\ Members(g) \subseteq owners /\ Len(g.peers) < ReplicasN
      /\ {c.master} \union Range(c.peers) \subseteq owners
  <2>1. g \in Group /\ Members(g) \subseteq owners /\ Len(g.peers) < ReplicasN
    BY <1>0, <1>1, <1>2, GroupContext DEF MetaInv
  <2> QED BY <1>1, <1>2, <2>1 DEF GoodCmd
<1>4. PICK p : p = IF c.peers = << >> THEN g.peers ELSE c.peers
  OBVIOUS
<1>5. PICK h : h = [g EXCEPT !.master = c.master, !.peers = p]
  OBVIOUS
<1>6. h \in Group /\ h.master = c.master /\ h.peers = p /\ h.status = g.status
  BY <1>0, <1>3, <1>4, <1>5 DEF Group
<1>7. IF <<c.db, c.rg>> \in torn THEN GroupTorn(h, c.rg, rgid[c.db])
      ELSE Reshaped(g, h) /\ HealthOf(h, pt[c.db], <<c.db, c.rg>> \in stale)
  <2>1. CASE <<c.db, c.rg>> \in torn
    <3>1. Members(h) \subseteq owners
      BY <1>3, <1>4, <1>6 DEF Members
    <3>2. Len(h.peers) < ReplicasN
      BY <1>3, <1>4, <1>6 DEF GoodCmd
    <3> QED BY <1>2, <1>3, <1>6, <2>1, <3>1, <3>2 DEF GroupTorn
  <2>2. CASE <<c.db, c.rg>> \notin torn
    <3>1. /\ GroupSound(g, c.rg, rgid[c.db]) /\ FullGroup(g) /\ HealthOf(g, pt[c.db], <<c.db, c.rg>> \in stale)
          /\ Distinct(c.master, c.peers) /\ Len(c.peers) + 1 = ReplicasN
      BY <1>0, <1>1, <2>2, GroupContext, SameGroups DEF MetaInv, GoodCmd
    <3>2. p = c.peers
      BY <1>0, <1>4, <3>1, EmptySeq
    <3>3. Len(g.peers) \in Nat /\ Len(g.peers) + 1 = ReplicasN /\ g.master \in Node /\ g.peers \in Seq(Node)
      BY <1>3, <3>1, LenProperties DEF Group, FullGroup
    <3>4. Members(g) = owners /\ Distinct(g.master, g.peers)
      BY <1>2, <3>1 DEF GroupSound
    <3>5. IsFiniteSet(owners) /\ Cardinality(owners) = Len(g.peers) + 1
      BY <3>3, <3>4, MembersSize DEF Members
    <3>6. PICK S : S = {c.master} \union Range(c.peers)
      OBVIOUS
    <3>7. S \subseteq owners /\ Cardinality(S) = Len(c.peers) + 1
      BY <1>0, <1>3, <3>1, <3>6, MembersSize
    <3>8. S = owners
      BY <3>1, <3>3, <3>5, <3>7, FS_Subset
    <3>9. Members(h) = Members(g)
      BY <1>6, <3>2, <3>4, <3>6, <3>8 DEF Members
    <3>10. Len(h.peers) = Len(g.peers)
      BY <1>0, <1>6, <3>1, <3>2, <3>3
    <3> QED BY <1>6, <2>2, <3>1, <3>2, <3>9, <3>10 DEF Reshaped, HealthOf
  <2> QED BY <2>1, <2>2
<1>8. rgs' = [rgs EXCEPT ![c.db] = [rgs[c.db] EXCEPT ![c.rg] = h]]
  BY <1>1, <1>4, <1>5 DEF UpdateReplication
<1>9. PICK q : q = [rgs[c.db] EXCEPT ![c.rg] = h]
  OBVIOUS
<1>10. rgs[c.db] \in Seq(Group)
  BY <1>0 DEF MetaInv, TypeMeta
<1>11. q \in Seq(Group) /\ Len(q) = Len(rgs[c.db]) /\ \A i \in 1..Len(rgs[c.db]) : q[i] = IF i = c.rg THEN h ELSE rgs[c.db][i]
  BY <1>0, <1>6, <1>9, <1>10, ExceptSeq
<1>12. rgs \in [Db -> Seq(Group)]
  BY DEF MetaInv, TypeMeta
<1>13. rgs' \in [Db -> Seq(Group)] /\ \A d \in Db : rgs'[d] = IF d = c.db THEN q ELSE rgs[d]
  BY <1>0, <1>8, <1>9, <1>11, <1>12
<1>14. \A d \in Db : Len(rgs'[d]) = Len(rgs[d])
  BY <1>11, <1>13
<1>15. ASSUME NEW d \in Db, NEW i \in 1..Len(rgs[d]) PROVE GroupStep(d, i)
  <2>1. CASE d = c.db /\ i = c.rg
    <3>1. rgs'[d][i] = h /\ rgs[d][i] = g
      BY <1>1, <1>11, <1>13, <2>1
    <3> QED BY <1>6, <1>7, <2>1, <3>1 DEF GroupStep
  <2>2. CASE ~(d = c.db /\ i = c.rg)
    <3>1. rgs'[d][i] = rgs[d][i]
      BY <1>11, <1>13, <2>2
    <3> QED BY <3>1, SameGroups DEF GroupStep
  <2> QED BY <2>1, <2>2
<1>16. dn' \in [Node -> {"none", "alive", "failed"}] /\ pt' \in [Db -> [Node -> Status]] /\ stale' \subseteq Db \X (0..N)
  BY DEF MetaInv, TypeMeta
<1> QED BY <1>13, <1>14, <1>15, <1>16, ReshapedMeta

\* The status of a node, its partitions and their groups.
LEMMA UpdateNodeStatusKeeps ==
    ASSUME MetaInv, NEW n \in Node, NEW x \in {"alive", "failed"}, UpdateNodeStatus(n, x), UNCHANGED <<nodes, rgid, torn>>
    PROVE  MetaInv' /\ Later
<1> DEFINE view(d) == [pt[d] EXCEPT ![n] = IF @ = "none" THEN @ ELSE "Offline"]
<1>1. /\ dn' = [dn EXCEPT ![n] = x] /\ pt' = [d \in Db |-> view(d)]
      /\ rgs' = [d \in Db |-> [i \in DOMAIN rgs[d] |->
                   IF d \in Databases /\ i = rgid[d][n] THEN nextHealth(rgs[d][i], view(d)) ELSE rgs[d][i]]]
      /\ stale' = (stale \ {<<d, rgid[d][n]>> : d \in Databases})
                     \union {<<d, rgid[d][n]>> : d \in {e \in Db \ Databases : Exists(e)}}
  BY DEF UpdateNodeStatus
<1>2. TypeMeta /\ Databases \subseteq Db
  BY DEF MetaInv, Databases
<1>3. dn' \in [Node -> {"none", "alive", "failed"}]
  BY <1>1, <1>2 DEF TypeMeta
<1>4. ASSUME NEW d \in Db
      PROVE  /\ pt'[d] = view(d) /\ pt'[d] \in [Node -> Status]
             /\ \A m \in Node : m # n => pt'[d][m] = pt[d][m]
             /\ pt'[d][n] = IF pt[d][n] = "none" THEN "none" ELSE "Offline"
  BY <1>1, <1>2 DEF TypeMeta, Status
<1>5. pt' \in [Db -> [Node -> Status]]
  BY <1>1, <1>4
<1>6. stale' \subseteq Db \X (0..N)
  <2>1. \A d \in Db : rgid[d][n] \in 0..N
    BY <1>2 DEF TypeMeta
  <2> QED BY <1>1, <1>2, <2>1 DEF TypeMeta
<1>7. ASSUME NEW d \in Db, NEW i \in 1..Len(rgs[d])
      PROVE  /\ rgs'[d][i] = IF d \in Databases /\ i = rgid[d][n] THEN nextHealth(rgs[d][i], pt'[d]) ELSE rgs[d][i]
             /\ rgs'[d][i] \in Group /\ GroupStep(d, i)
  <2>1. /\ DOMAIN rgs[d] = 1..Len(rgs[d]) /\ rgs[d][i] \in Group
        /\ Members(rgs[d][i]) \subseteq {m \in Node : rgid[d][m] = i} /\ Exists(d)
        /\ <<d, i>> \notin torn => FullGroup(rgs[d][i]) /\ GroupSound(rgs[d][i], i, rgid[d])
    <3>1. Exists(d)
      BY GroupContext, EmptySeq DEF MetaInv, Exists
    <3> QED BY <3>1, GroupContext DEF MetaInv
  <2>2. IF <<d, i>> \in torn THEN rgs[d][i] \in Group /\ GroupTorn(rgs[d][i], i, rgid[d])
        ELSE Reshaped(rgs[d][i], rgs[d][i]) /\ HealthOf(rgs[d][i], pt[d], <<d, i>> \in stale)
    BY SameGroups
  <2>3. rgs'[d][i] = IF d \in Databases /\ i = rgid[d][n] THEN nextHealth(rgs[d][i], pt'[d]) ELSE rgs[d][i]
    BY <1>1, <1>4, <2>1
  <2>4. PICK g, v, w, h : g = rgs[d][i] /\ v = pt[d] /\ w = pt'[d] /\ h = rgs'[d][i]
    OBVIOUS
  <2>5. h \in Group /\ h.master = g.master /\ h.peers = g.peers /\ (h.status = "UnFull" <=> g.status = "UnFull")
    BY <2>1, <2>3, <2>4, StatusOnly
  <2>6. CASE <<d, i>> \in torn
    <3>1. GroupTorn(h, i, rgid[d])
      BY <2>2, <2>4, <2>5, <2>6 DEF GroupTorn, Members
    <3> QED BY <2>3, <2>4, <2>5, <2>6, <3>1 DEF GroupStep
  <2>7. CASE <<d, i>> \notin torn /\ i = rgid[d][n]
    <3>1. Online(w, Members(g)) \subseteq Online(v, Members(g))
      BY <1>4, <2>1, <2>4 DEF Online
    <3>2. FullGroup(g) /\ Reshaped(g, g) /\ HealthOf(g, v, <<d, i>> \in stale)
      BY <2>1, <2>2, <2>4, <2>7
    <3>3. CASE d \in Databases
      <4>1. PICK t : t = (<<d, i>> \in stale)
        OBVIOUS
      <4>2. Reshaped(g, nextHealth(g, w)) /\ HealthOf(nextHealth(g, w), w, FALSE)
        BY <3>1, <3>2, <4>1, nextHealthFacts
      <4>3. h = nextHealth(g, w)
        BY <2>3, <2>4, <2>7, <3>3
      <4>4. HealthOf(h, w, <<d, i>> \in stale')
        BY <4>2, <4>3 DEF HealthOf
      <4> QED BY <2>3, <2>4, <2>5, <2>7, <4>2, <4>3, <4>4 DEF GroupStep
    <3>4. CASE d \notin Databases
      <4>1. <<d, i>> \in stale' /\ h = g
        BY <1>1, <2>1, <2>3, <2>4, <2>7, <3>4
      <4>2. PICK t : t = (<<d, i>> \in stale)
        OBVIOUS
      <4>3. HealthOf(g, w, TRUE)
        BY <3>1, <3>2, <4>2, UncountedHealth
      <4>4. HealthOf(h, w, <<d, i>> \in stale')
        BY <4>1, <4>3 DEF HealthOf
      <4> QED BY <2>3, <2>4, <2>5, <2>7, <3>2, <4>1, <4>4 DEF GroupStep
    <3> QED BY <3>3, <3>4
  <2>8. CASE <<d, i>> \notin torn /\ i # rgid[d][n]
    <3>1. n \notin Members(g) /\ Members(g) \subseteq Node
      BY <2>1, <2>4, <2>8
    <3>2. Online(w, Members(g)) = Online(v, Members(g))
      BY <1>4, <2>4, <3>1 DEF Online
    <3>3. <<d, i>> \in stale' <=> <<d, i>> \in stale
      BY <1>1, <2>8
    <3>4. h = g /\ Reshaped(g, g) /\ HealthOf(g, v, <<d, i>> \in stale)
      BY <2>2, <2>3, <2>4, <2>8
    <3>5. HealthOf(h, w, <<d, i>> \in stale')
      BY <3>2, <3>3, <3>4 DEF HealthOf
    <3> QED BY <2>3, <2>4, <2>5, <2>8, <3>4, <3>5 DEF GroupStep
  <2> QED BY <2>6, <2>7, <2>8
<1>8. ASSUME NEW d \in Db PROVE rgs'[d] \in Seq(Group) /\ Len(rgs'[d]) = Len(rgs[d])
  <2>1. Len(rgs[d]) \in Nat /\ DOMAIN rgs[d] = 1..Len(rgs[d])
    BY GroupContext DEF MetaInv
  <2>2. rgs'[d] = [i \in 1..Len(rgs[d]) |-> rgs'[d][i]]
    BY <1>1, <2>1
  <2>3. \A i \in 1..Len(rgs[d]) : rgs'[d][i] \in Group
    BY <1>7
  <2>4. rgs'[d] \in [1..Len(rgs[d]) -> Group]
    BY <2>2, <2>3
  <2>5. PICK f, l : f = rgs'[d] /\ l = Len(rgs[d])
    OBVIOUS
  <2>6. f \in [1..l -> Group] /\ l \in Nat
    BY <2>1, <2>4, <2>5
  <2>7. f \in Seq(Group) /\ Len(f) = l
    BY <2>6
  <2> QED BY <2>5, <2>7
<1>9. rgs' \in [Db -> Seq(Group)]
  <2>1. rgs' = [d \in Db |-> rgs'[d]]
    BY <1>1
  <2> QED BY <1>8, <2>1
<1>10. \A d \in Db, m \in Node : /\ pt'[d][m] = "none" <=> pt[d][m] = "none"
                                 /\ pt'[d][m] = "Online" => pt[d][m] = "Online" \/ GroupOf(d, m).status # "UnFull"
  BY <1>4
<1> QED BY <1>3, <1>5, <1>6, <1>7, <1>8, <1>9, <1>10, ReshapedMeta

\* A partition of a full group comes online.
LEMMA UpdatePtInfoKeeps ==
    ASSUME MetaInv, NEW e \in Db, NEW n \in Node, rgid[e][n] # 0, GroupOf(e, n).status # "UnFull",
           UpdatePtInfo(e, n), UNCHANGED <<nodes, dn, rgid, torn, stale>>
    PROVE  MetaInv' /\ Later
<1> DEFINE view == [pt[e] EXCEPT ![n] = "Online"]
           k == rgid[e][n]
           h == nextSubHealth(rgs[e][k], view)
           q == [rgs[e] EXCEPT ![k] = h]
<1>0. /\ TypeMeta /\ k \in 1..Len(rgs[e]) /\ rgs[e] \in Seq(Group) /\ rgs[e][k] \in Group
      /\ Members(rgs[e][k]) \subseteq {m \in Node : rgid[e][m] = k}
      /\ <<e, k>> \notin torn => FullGroup(rgs[e][k])
  BY GroupContext DEF MetaInv
<1>00. dn' \in [Node -> {"none", "alive", "failed"}] /\ stale' \subseteq Db \X (0..N)
  BY <1>0 DEF TypeMeta
<1>1. CASE pt' = pt /\ rgs' = rgs
  <2>1. rgs' \in [Db -> Seq(Group)] /\ pt' \in [Db -> [Node -> Status]]
    BY <1>0, <1>1 DEF TypeMeta
  <2>2. \A d \in Db : \A i \in 1..Len(rgs[d]) : GroupStep(d, i)
    BY <1>1, SameGroups DEF GroupStep
  <2> QED BY <1>00, <1>1, <2>1, <2>2, ReshapedMeta
<1>2. CASE /\ pt[e][n] = "Offline" /\ pt' = [pt EXCEPT ![e] = view]
           /\ rgs' = [rgs EXCEPT ![e] = q]
  <2>1. view \in [Node -> Status] /\ view[n] = "Online" /\ \A m \in Node : m # n => view[m] = pt[e][m]
    BY <1>0 DEF TypeMeta, Status
  <2>2. pt' \in [Db -> [Node -> Status]] /\ pt'[e] = view /\ \A d \in Db : d # e => pt'[d] = pt[d]
    BY <1>0, <1>2, <2>1 DEF TypeMeta
  <2> HIDE DEF view
  <2>3. Online(pt[e], Members(rgs[e][k])) \subseteq Online(view, Members(rgs[e][k]))
    <3>1. Members(rgs[e][k]) \subseteq Node
      BY <1>0
    <3> QED BY <1>2, <2>1, <3>1 DEF Online
  <2>4. ASSUME <<e, k>> \notin torn PROVE Reshaped(rgs[e][k], h) /\ HealthOf(h, view, <<e, k>> \in stale)
    <3>1. PICK g, v, s : g = rgs[e][k] /\ v = pt[e] /\ s = (<<e, k>> \in stale)
      OBVIOUS
    <3>2. HealthOf(g, v, s) /\ FullGroup(g)
      BY <1>0, <2>4, <3>1, SameGroups
    <3>3. PICK w : w = view
      OBVIOUS
    <3>4. Reshaped(g, nextSubHealth(g, w)) /\ HealthOf(nextSubHealth(g, w), w, s)
      BY <2>3, <3>1, <3>2, <3>3, nextSubHealthFacts
    <3> QED BY <3>1, <3>3, <3>4
  <2>5. h \in Group /\ (<<e, k>> \in torn => GroupTorn(h, k, rgid[e]))
    <3>1. PICK g, w, x : g = rgs[e][k] /\ w = view /\ x = h
      OBVIOUS
    <3>a. x = nextSubHealth(g, w) /\ g \in Group
      BY <1>0, <3>1
    <3>2. x \in Group /\ x.master = g.master /\ x.peers = g.peers /\ (x.status = "UnFull" <=> g.status = "UnFull")
      <4> HIDE DEF h, k
      <4> QED BY <3>a, StatusOnly
    <3>3. <<e, k>> \in torn => GroupTorn(g, k, rgid[e])
      BY <1>0, <3>1, SameGroups
    <3>4. <<e, k>> \in torn => GroupTorn(x, k, rgid[e])
      BY <3>2, <3>3 DEF GroupTorn, Members
    <3> QED BY <3>1, <3>2, <3>4
  <2> HIDE DEF h, k
  <2>6. q \in Seq(Group) /\ Len(q) = Len(rgs[e]) /\ \A i \in 1..Len(rgs[e]) : q[i] = IF i = k THEN h ELSE rgs[e][i]
    <3>1. PICK s, f, j : s = rgs[e] /\ f = h /\ j = k
      OBVIOUS
    <3>2. s \in Seq(Group) /\ f \in Group /\ j \in 1..Len(s)
      BY <1>0, <2>5, <3>1
    <3>3. LET r == [s EXCEPT ![j] = f] IN r \in Seq(Group) /\ Len(r) = Len(s) /\ \A i \in 1..Len(s) : r[i] = IF i = j THEN f ELSE s[i]
      BY <3>2, ExceptSeq
    <3> QED BY <3>1, <3>3
  <2> HIDE DEF q
  <2>7. rgs' \in [Db -> Seq(Group)] /\ rgs'[e] = q /\ \A d \in Db : d # e => rgs'[d] = rgs[d]
    BY <1>0, <1>2, <2>6 DEF TypeMeta
  <2>8. \A d \in Db : Len(rgs'[d]) = Len(rgs[d])
    BY <2>6, <2>7
  <2>9. ASSUME NEW d \in Db, NEW i \in 1..Len(rgs[d]) PROVE GroupStep(d, i)
    <3>0. IF <<d, i>> \in torn THEN rgs[d][i] \in Group /\ GroupTorn(rgs[d][i], i, rgid[d])
          ELSE Reshaped(rgs[d][i], rgs[d][i]) /\ HealthOf(rgs[d][i], pt[d], <<d, i>> \in stale)
      BY SameGroups
    <3>1. CASE d # e
      BY <2>2, <2>7, <3>0, <3>1 DEF GroupStep
    <3>2. CASE d = e /\ i = k
      <4>1. rgs'[d][i] = h
        BY <2>6, <2>7, <3>2
      <4> QED BY <2>2, <2>4, <2>5, <3>2, <4>1 DEF GroupStep
    <3>3. CASE d = e /\ i # k
      <4>1. rgs'[d][i] = rgs[d][i] /\ Members(rgs[d][i]) \subseteq {m \in Node : rgid[d][m] = i}
        BY <2>6, <2>7, <3>3, GroupContext DEF MetaInv
      <4>2. n \notin Members(rgs[d][i]) /\ Members(rgs[d][i]) \subseteq Node
        BY <3>3, <4>1 DEF k
      <4>3. Online(pt'[d], Members(rgs[d][i])) = Online(pt[d], Members(rgs[d][i]))
        BY <2>1, <2>2, <3>3, <4>2 DEF Online
      <4> QED BY <3>0, <4>1, <4>3 DEF HealthOf, GroupStep
    <3> QED BY <3>1, <3>2, <3>3
  <2>10. \A d \in Db, m \in Node : /\ pt'[d][m] = "none" <=> pt[d][m] = "none"
                                   /\ pt'[d][m] = "Online" => pt[d][m] = "Online" \/ GroupOf(d, m).status # "UnFull"
    <3> SUFFICES ASSUME NEW d \in Db, NEW m \in Node
                 PROVE  /\ pt'[d][m] = "none" <=> pt[d][m] = "none"
                        /\ pt'[d][m] = "Online" => pt[d][m] = "Online" \/ GroupOf(d, m).status # "UnFull"
      OBVIOUS
    <3>1. CASE d = e /\ m = n
      BY <1>2, <2>1, <2>2, <3>1
    <3>2. CASE ~(d = e /\ m = n)
      BY <2>1, <2>2, <3>2
    <3> QED BY <3>1, <3>2
  <2> QED BY <1>00, <2>2, <2>7, <2>8, <2>9, <2>10, ReshapedMeta
<1>3. \/ pt' = pt /\ rgs' = rgs
      \/ /\ pt[e][n] = "Offline" /\ pt' = [pt EXCEPT ![e] = view] /\ rgs' = [rgs EXCEPT ![e] = q]
  BY DEF UpdatePtInfo
<1> QED BY <1>1, <1>2, <1>3

\* A group without a partition online is not Health.
LEMMA FreshHealth ==
    ASSUME NEW g, g.status \in {"UnFull", "SubHealth"}, NEW v, Online(v, Members(g)) = {}
    PROVE  \A s : HealthOf(g, v, s)
<1>1. Cardinality(Online(v, Members(g))) = 0
  BY FS_EmptySet
<1>2. ~(2 * 0 > ReplicasN)
  BY ReplicaAssumption
<1> QED BY <1>1, <1>2 DEF HealthOf

\* Database by database, what a command that adds partitions has to keep.
DbKept(d) ==
    /\ rgs'[d] \in Seq(Group) /\ rgid'[d] \in [Node -> 0..N] /\ pt'[d] \in [Node -> Status]
    /\ IF rgs'[d] # << >> THEN Sound(rgs'[d], rgid'[d], nodes', Torn(d)) ELSE rgid'[d] = [n \in Node |-> 0] /\ Torn(d) = {}
    /\ \A n \in Node : /\ pt'[d][n] = "none" <=> rgid'[d][n] = 0
                       /\ pt'[d][n] = "Online" => rgs'[d][rgid'[d][n]].status # "UnFull"
    /\ \A i \in 1..Len(rgs'[d]) : <<d, i>> \notin torn => HealthOf(rgs'[d][i], pt'[d], <<d, i>> \in stale)
    /\ \A i \in 1..Len(rgs[d]) : rgs[d][i].status # "UnFull" =>
          i \in 1..Len(rgs'[d]) /\ rgs'[d][i].status # "UnFull"
    /\ \A n \in Node : rgid[d][n] # 0 => rgid'[d][n] = rgid[d][n]

\* It is enough to look at the databases one by one.
LEMMA DbKeptAll ==
    ASSUME MetaInv, nodes' \in First..N, dn' = dn, torn' = torn, stale' = stale,
           rgs' = [d \in Db |-> rgs'[d]], rgid' = [d \in Db |-> rgid'[d]], pt' = [d \in Db |-> pt'[d]],
           \A d \in Db : DbKept(d)
    PROVE  MetaInv' /\ Later
<1>1. TypeMeta'
  <2>1. rgs' \in [Db -> Seq(Group)]
    BY DEF DbKept
  <2>2. rgid' \in [Db -> [Node -> 0..N]]
    BY DEF DbKept
  <2>3. pt' \in [Db -> [Node -> Status]]
    BY DEF DbKept
  <2>4. dn' \in [Node -> {"none", "alive", "failed"}] /\ stale' \subseteq Db \X (0..N) /\ torn' \subseteq Db \X (0..N)
    BY DEF MetaInv, TypeMeta
  <2> QED BY <2>1, <2>2, <2>3, <2>4 DEF TypeMeta
<1>2. GroupsInv'
  <2> SUFFICES ASSUME NEW d \in Db
               PROVE  IF Exists(d)' THEN Sound(rgs'[d], rgid'[d], nodes', Torn(d)) ELSE rgid'[d] = [n \in Node |-> 0] /\ Torn(d) = {}
    BY DEF GroupsInv, Torn
  <2> QED BY DEF DbKept, Exists
<1>3. PtInv'
  BY DEF PtInv, DbKept, GroupOf
<1>4. HealthIsMajority'
  <2>1. (HealthIsMajority <=>
           \A d \in Db : \A i \in 1..Len(rgs[d]) : <<d, i>> \notin torn => HealthOf(rgs[d][i], pt[d], <<d, i>> \in stale))'
    BY <1>1, <1>2, HealthGroups, PTL
  <2>2. \A d \in Db : \A i \in 1..Len(rgs'[d]) : <<d, i>> \notin torn' => HealthOf(rgs'[d][i], pt'[d], <<d, i>> \in stale')
    BY DEF DbKept
  <2> QED BY <2>1, <2>2
<1>5. Later
  BY DEF Later, DbKept
<1> QED BY <1>1, <1>2, <1>3, <1>4, <1>5 DEF MetaInv

\* A database to which nothing happens.
LEMMA DbSame ==
    ASSUME MetaInv, NEW d \in Db, rgs'[d] = rgs[d], rgid'[d] = rgid[d], pt'[d] = pt[d], nodes' = nodes \/ ~Exists(d)
    PROVE  DbKept(d)
<1>1. rgs[d] \in Seq(Group) /\ rgid[d] \in [Node -> 0..N] /\ pt[d] \in [Node -> Status]
  BY DEF MetaInv, TypeMeta
<1>2. IF rgs[d] # << >> THEN Sound(rgs[d], rgid[d], nodes, Torn(d)) ELSE rgid[d] = [n \in Node |-> 0] /\ Torn(d) = {}
  BY DEF MetaInv, GroupsInv, Exists
<1>3. IF rgs[d] # << >> THEN Sound(rgs[d], rgid[d], nodes', Torn(d)) ELSE rgid[d] = [n \in Node |-> 0] /\ Torn(d) = {}
  BY <1>2 DEF Exists
<1>4. \A n \in Node : /\ pt[d][n] = "none" <=> rgid[d][n] = 0
                      /\ pt[d][n] = "Online" => rgs[d][rgid[d][n]].status # "UnFull"
  BY DEF MetaInv, PtInv, GroupOf
<1>5. \A i \in 1..Len(rgs[d]) : <<d, i>> \notin torn => HealthOf(rgs[d][i], pt[d], <<d, i>> \in stale)
  BY SameGroups
<1> QED BY <1>1, <1>3, <1>4, <1>5 DEF DbKept

\* CREATE DATABASE.
LEMMA CreateDBPtViewKeeps ==
    ASSUME MetaInv, NEW e \in Db, CreateDBPtView(e)
    PROVE  MetaInv' /\ Later
<1> DEFINE s == NodeHardCreateDBRG(nodes)
<1>0. /\ ~Exists(e) /\ nodes' = nodes /\ dn' = dn /\ torn' = torn /\ stale' = stale
      /\ rgs' = [rgs EXCEPT ![e] = s.rg] /\ rgid' = [rgid EXCEPT ![e] = s.id]
      /\ pt' = [pt EXCEPT ![e] = [n \in Node |-> IF n <= nodes THEN "Offline" ELSE "none"]]
  BY DEF CreateDBPtView, histVars
<1>1. TypeMeta /\ nodes \in First..N /\ nodes \in Node /\ N \in Nat /\ Node = 1..N
  BY ReplicaAssumption DEF MetaInv, TypeMeta, Node
<1>2. Sound(s.rg, s.id, nodes, {}) /\ s.rg # << >> /\ \A i \in 1..Len(s.rg) : s.rg[i].status \in {"UnFull", "SubHealth"}
  <2>1. PICK k \in Node : k = nodes
    BY <1>1
  <2>2. PICK u : u = NodeHardCreateDBRG(k)
    OBVIOUS
  <2>3. Sound(u.rg, u.id, k, {}) /\ u.rg # << >> /\ \A i \in 1..Len(u.rg) : u.rg[i].status \in {"UnFull", "SubHealth"}
    BY <2>2, CreateFacts
  <2> QED BY <2>1, <2>2, <2>3
<1> HIDE DEF s
<1>3. /\ rgs'[e] = s.rg /\ rgid'[e] = s.id /\ pt'[e] = [n \in Node |-> IF n <= nodes THEN "Offline" ELSE "none"]
      /\ \A d \in Db : d # e => rgs'[d] = rgs[d] /\ rgid'[d] = rgid[d] /\ pt'[d] = pt[d]
      /\ rgs' = [d \in Db |-> rgs'[d]] /\ rgid' = [d \in Db |-> rgid'[d]] /\ pt' = [d \in Db |-> pt'[d]]
  BY <1>0, <1>1 DEF TypeMeta
<1>4. DbKept(e)
  <2>1. /\ s.rg \in Seq(Group) /\ s.id \in [Node -> 0..N]
        /\ \A n \in Node : IF n <= nodes THEN s.id[n] \in 1..Len(s.rg) ELSE s.id[n] = 0
    BY <1>2 DEF Sound
  <2>2. pt'[e] \in [Node -> Status] /\ \A n \in Node : pt'[e][n] = IF n <= nodes THEN "Offline" ELSE "none"
    BY <1>3 DEF Status
  <2>3. \A n \in Node : pt'[e][n] # "Online" /\ (pt'[e][n] = "none" <=> s.id[n] = 0)
    BY <1>1, <2>1, <2>2
  <2>4. ASSUME NEW i \in 1..Len(s.rg) PROVE HealthOf(s.rg[i], pt'[e], <<e, i>> \in stale)
    <3>1. Members(s.rg[i]) \subseteq Node
      BY <1>2 DEF Sound, GroupState, GroupSound
    <3>2. Online(pt'[e], Members(s.rg[i])) = {}
      BY <2>3, <3>1 DEF Online
    <3>3. PICK g, v : g = s.rg[i] /\ v = pt'[e]
      OBVIOUS
    <3>4. \A t : HealthOf(g, v, t)
      BY <1>2, <3>2, <3>3, FreshHealth
    <3> QED BY <3>3, <3>4
  <2>5. Len(rgs[e]) = 0 /\ (\A n \in Node : rgid[e][n] = 0) /\ Torn(e) = {}
    BY <1>0, EmptySeq DEF MetaInv, GroupsInv, Exists
  <2> QED BY <1>0, <1>2, <1>3, <2>1, <2>2, <2>3, <2>4, <2>5 DEF DbKept
<1>5. \A d \in Db : DbKept(d)
  BY <1>0, <1>3, <1>4, DbSame
<1> QED BY <1>0, <1>1, <1>3, <1>5, DbKeptAll

\* A node registers.
LEMMA CreateDataNodeKeeps ==
    ASSUME MetaInv, CreateDataNode
    PROVE  MetaInv' /\ Later
<1> DEFINE n == nodes + 1
           s(d) == IF Exists(d) THEN joinRpGroup([rg |-> rgs[d], id |-> rgid[d]], n) ELSE [rg |-> rgs[d], id |-> rgid[d]]
<1>0. /\ nodes < N /\ nodes' = n /\ dn' = dn /\ torn' = torn /\ stale' = stale
      /\ rgs' = [d \in Db |-> s(d).rg] /\ rgid' = [d \in Db |-> s(d).id]
      /\ pt' = [d \in Db |-> [pt[d] EXCEPT ![n] = IF Exists(d) THEN "Offline" ELSE @]]
  BY DEF CreateDataNode, histVars
<1>1. TypeMeta /\ nodes \in First..N /\ N \in Nat /\ Node = 1..N /\ First \in 1..N
  BY ReplicaAssumption DEF MetaInv, TypeMeta, Node
<1>2. n \in Node /\ n \in First..N /\ n - 1 = nodes
  BY <1>0, <1>1
<1>3. rgs' = [d \in Db |-> rgs'[d]] /\ rgid' = [d \in Db |-> rgid'[d]] /\ pt' = [d \in Db |-> pt'[d]]
  BY <1>0
<1>4. ASSUME NEW d \in Db, ~Exists(d) PROVE DbKept(d)
  <2>1. s(d) = [rg |-> rgs[d], id |-> rgid[d]]
    BY <1>4
  <2>2. rgs'[d] = rgs[d] /\ rgid'[d] = rgid[d]
    BY <1>0, <2>1
  <2>3. pt'[d] = pt[d]
    <3>1. pt'[d] = [pt[d] EXCEPT ![n] = pt[d][n]]
      BY <1>0, <1>4
    <3>2. pt[d] \in [Node -> Status]
      BY <1>1 DEF TypeMeta
    <3> QED BY <1>2, <3>1, <3>2
  <2> QED BY <1>4, <2>2, <2>3, DbSame
<1>5. ASSUME NEW d \in Db, Exists(d) PROVE DbKept(d)
  <2> HIDE DEF n
  <2>1. PICK u : u = [rg |-> rgs[d], id |-> rgid[d]]
    OBVIOUS
  <2>2. PICK k \in Node : k = n
    BY <1>2
  <2>3. PICK t : t = joinRpGroup(u, k)
    OBVIOUS
  <2>4. s(d) = t
    BY <1>5, <2>1, <2>2, <2>3
  <2>5. rgs'[d] = t.rg /\ rgid'[d] = t.id
    BY <1>0, <2>4
  <2>6. u.rg = rgs[d] /\ u.id = rgid[d] /\ Sound(rgs[d], rgid[d], nodes, Torn(d))
    BY <1>5, <2>1 DEF MetaInv, GroupsInv
  <2>7. Sound(t.rg, t.id, k, Torn(d)) /\ Grown(rgs[d], rgid[d], t.rg, t.id, k) /\ t.rg # << >>
    <3>1. PICK T : T = Torn(d)
      OBVIOUS
    <3>2. Sound(t.rg, t.id, k, T) /\ Grown(rgs[d], rgid[d], t.rg, t.id, k) /\ t.rg # << >>
      BY <1>2, <2>2, <2>3, <2>6, <3>1, JoinFacts
    <3> QED BY <3>1, <3>2
  <2>8. pt[d] \in [Node -> Status]
    BY <1>1 DEF TypeMeta
  <2>9. pt'[d] \in [Node -> Status] /\ pt'[d][k] = "Offline" /\ \A m \in Node : m # k => pt'[d][m] = pt[d][m]
    BY <1>0, <1>5, <2>2, <2>8 DEF Status
  <2>10. /\ t.rg \in Seq(Group) /\ t.id \in [Node -> 0..N] /\ Len(t.rg) \in Nat /\ Len(rgs[d]) \in Nat /\ rgs[d] \in Seq(Group)
         /\ \A i \in 1..Len(t.rg) : GroupState(t.rg[i], i, t.id, Torn(d))
    BY <2>6, <2>7, LenProperties DEF Sound
  <2>11. rgid[d][k] = 0 /\ t.id[k] # 0 /\ \A m \in Node : m # k => t.id[m] = rgid[d][m]
    <3>1. ~(k <= nodes) /\ k <= k
      BY <1>1, <1>2, <2>2
    <3>2. rgid[d][k] = 0
      BY <2>6, <3>1 DEF Sound
    <3>3. t.id[k] \in 1..Len(t.rg)
      BY <2>7, <3>1 DEF Sound
    <3>4. t.id[k] # 0
      BY <2>10, <3>3
    <3> QED BY <2>7, <3>2, <3>4 DEF Grown
  <2>12. ASSUME NEW i \in 1..Len(rgs[d]), rgs[d][i].status # "UnFull" PROVE i \in 1..Len(t.rg) /\ t.rg[i] = rgs[d][i]
    <3>1. Len(rgs[d]) <= Len(t.rg) /\ t.rg[i] = rgs[d][i]
      BY <2>7, <2>12 DEF Grown
    <3> QED BY <2>10, <3>1
  <2>13. ASSUME NEW m \in Node
         PROVE  /\ pt'[d][m] = "none" <=> t.id[m] = 0
                /\ pt'[d][m] = "Online" => t.rg[t.id[m]].status # "UnFull"
    <3>1. CASE m = k
      BY <2>9, <2>11, <3>1
    <3>2. CASE m # k
      <4>1. pt'[d][m] = pt[d][m] /\ t.id[m] = rgid[d][m]
        BY <2>9, <2>11, <3>2
      <4>2. pt[d][m] = "none" <=> rgid[d][m] = 0
        BY DEF MetaInv, PtInv
      <4>3. pt[d][m] = "Online" => rgs[d][rgid[d][m]].status # "UnFull" /\ rgid[d][m] \in 1..Len(rgs[d])
        BY <4>2, GroupContext DEF MetaInv, PtInv, GroupOf
      <4> QED BY <2>12, <4>1, <4>2, <4>3
    <3> QED BY <3>1, <3>2
  <2>14. ASSUME NEW i \in 1..Len(t.rg), <<d, i>> \notin torn PROVE HealthOf(t.rg[i], pt'[d], <<d, i>> \in stale)
    <3>0. Members(t.rg[i]) = {m \in Node : t.id[m] = i}
      BY <2>10, <2>14 DEF GroupState, GroupSound, Torn
    <3>1. CASE i > Len(rgs[d])
      <4>1. t.rg[i].status = "UnFull"
        BY <2>7, <3>1 DEF Grown
      <4> QED BY <4>1 DEF HealthOf
    <3>2. CASE i \in 1..Len(rgs[d]) /\ t.rg[i] = rgs[d][i]
      <4>0. HealthOf(rgs[d][i], pt[d], <<d, i>> \in stale) /\ i # 0
        BY <2>10, <2>14, <3>2, SameGroups
      <4>1. Members(rgs[d][i]) \subseteq {m \in Node : rgid[d][m] = i}
        BY <3>2, GroupContext DEF MetaInv
      <4>2. k \notin Members(rgs[d][i]) /\ Members(rgs[d][i]) \subseteq Node
        BY <2>11, <4>0, <4>1
      <4>3. Online(pt'[d], Members(rgs[d][i])) = Online(pt[d], Members(rgs[d][i]))
        BY <2>9, <4>2 DEF Online
      <4> QED BY <3>2, <4>0, <4>3 DEF HealthOf
    <3>3. CASE i \in 1..Len(rgs[d]) /\ t.rg[i] # rgs[d][i]
      <4>1. rgs[d][i].status = "UnFull" /\ t.rg[i].status \in {"UnFull", "SubHealth"}
        BY <2>7, <3>3 DEF Grown
      <4>2. ASSUME NEW m \in Members(t.rg[i]) PROVE pt'[d][m] # "Online"
        <5>0. m \in Node /\ t.id[m] = i
          BY <3>0
        <5>1. CASE m = k
          BY <2>9, <5>1
        <5>2. CASE m # k
          <6>1. pt'[d][m] = pt[d][m] /\ rgid[d][m] = i
            BY <2>9, <2>11, <5>0, <5>2
          <6> QED BY <4>1, <5>0, <6>1 DEF MetaInv, PtInv, GroupOf
        <5> QED BY <5>1, <5>2
      <4>3. Online(pt'[d], Members(t.rg[i])) = {}
        BY <4>2 DEF Online
      <4>4. PICK v : v = pt'[d]
        OBVIOUS
      <4>5. PICK g : g = t.rg[i]
        OBVIOUS
      <4>6. \A s1 : HealthOf(g, v, s1)
        BY <4>1, <4>3, <4>4, <4>5, FreshHealth
      <4> QED BY <4>4, <4>5, <4>6
    <3> QED BY <2>10, <3>1, <3>2, <3>3
  <2>15. \A m \in Node : rgid[d][m] # 0 => t.id[m] = rgid[d][m]
    BY <2>11
  <2>16. nodes' = k
    BY <1>0, <2>2
  <2> QED BY <2>5, <2>7, <2>9, <2>10, <2>12, <2>13, <2>14, <2>15, <2>16 DEF DbKept
<1>6. \A d \in Db : DbKept(d)
  BY <1>4, <1>5
<1> QED BY <1>0, <1>2, <1>3, <1>6, DbKeptAll

\* A handler has read a full group while it was changed.
LEMMA TornMeta ==
    ASSUME MetaInv, UNCHANGED <<metaVars, stale>>, NEW d \in Db, NEW k \in 1..Len(rgs[d]), rgs[d][k].status # "UnFull",
           torn' = torn \union {<<d, k>>}
    PROVE  MetaInv' /\ Later
<1>0. nodes' = nodes /\ dn' = dn /\ pt' = pt /\ rgs' = rgs /\ rgid' = rgid /\ stale' = stale
  BY DEF metaVars
<1>1. k \in 0..N
  <2>1. Len(rgs[d]) \in Nat
    BY GroupContext DEF MetaInv
  <2>2. Exists(d)
    BY <2>1, EmptySeq DEF Exists
  <2>3. Len(rgs[d]) <= nodes /\ nodes \in Int /\ nodes <= N /\ N \in Nat
    BY <2>2, ReplicaAssumption DEF MetaInv, GroupsInv, Sound, TypeMeta
  <2> QED BY <2>1, <2>3
<1>2. TypeMeta'
  BY <1>0, <1>1 DEF MetaInv, TypeMeta
<1>3. GroupsInv'
  <2> SUFFICES ASSUME NEW e \in Db
               PROVE  IF Exists(e) THEN Sound(rgs[e], rgid[e], nodes, Torn(e)') ELSE rgid[e] = [n \in Node |-> 0] /\ Torn(e)' = {}
    BY <1>0 DEF GroupsInv, Exists
  <2>1. CASE e # d
    <3>1. Torn(e)' = Torn(e)
      BY <2>1 DEF Torn
    <3> QED BY <3>1 DEF MetaInv, GroupsInv
  <2>2. CASE e = d
    <3>1. Torn(d)' = Torn(d) \union {k}
      BY <1>1 DEF Torn
    <3>2. Exists(d)
      BY GroupContext, EmptySeq DEF MetaInv, Exists
    <3>3. Sound(rgs[d], rgid[d], nodes, Torn(d))
      BY <3>2 DEF MetaInv, GroupsInv
    <3>4. ASSUME NEW i \in 1..Len(rgs[d]) PROVE GroupState(rgs[d][i], i, rgid[d], Torn(d) \union {k})
      <4>1. GroupState(rgs[d][i], i, rgid[d], Torn(d))
        BY <3>3 DEF Sound
      <4>2. CASE i = k
        <5>1. Members(rgs[d][i]) \subseteq {n \in Node : rgid[d][n] = i} /\ Len(rgs[d][i].peers) < ReplicasN
          BY GroupContext DEF MetaInv
        <5> QED BY <4>2, <5>1 DEF GroupState, GroupTorn
      <4>3. CASE i # k
        BY <4>1, <4>3 DEF GroupState
      <4> QED BY <4>2, <4>3
    <3>5. Sound(rgs[d], rgid[d], nodes, Torn(d) \union {k})
      BY <3>3, <3>4 DEF Sound
    <3> QED BY <2>2, <3>1, <3>2, <3>5
  <2> QED BY <2>1, <2>2
<1>4. PtInv'
  BY <1>0 DEF MetaInv, PtInv, GroupOf
<1>5. HealthIsMajority'
  BY <1>0 DEF MetaInv, HealthIsMajority
<1>6. Later
  BY <1>0 DEF Later
<1> QED BY <1>2, <1>3, <1>4, <1>5, <1>6 DEF MetaInv

-----------------------------------------------------------------------------
(* The commands chosen are good.                                           *)

\* A full group and a command about it that names members of it.
LEMMA CommandOfGroup ==
    ASSUME MetaInv, NEW d \in Db, NEW i \in 1..Len(rgs[d]), rgs[d][i].status # "UnFull",
           NEW m, NEW q, m \in Node, q \in Seq(Node), Len(q) < ReplicasN,
           {m} \union Range(q) \subseteq {n \in Node : rgid[d][n] = i},
           NEW T, <<d, i>> \notin T => Distinct(m, q) /\ Len(q) + 1 = ReplicasN
    PROVE  GoodCmd([db |-> d, rg |-> i, master |-> m, peers |-> q], rgs, rgid, T)
<1>1. PICK c : c = [db |-> d, rg |-> i, master |-> m, peers |-> q]
  OBVIOUS
<1>2. i \in Nat
  BY GroupContext DEF MetaInv
<1>3. c \in Command /\ c.db = d /\ c.rg = i /\ c.master = m /\ c.peers = q
  BY <1>1, <1>2 DEF Command
<1>4. GoodCmd(c, rgs, rgid, T)
  BY <1>3 DEF GoodCmd
<1> QED BY <1>1, <1>4

\* A list of one good command, and of none.
LEMMA GoodLists ==
    ASSUME NEW T
    PROVE  /\ << >> \in Seq(Command) /\ GoodCmds(<< >>, rgs, rgid, T)
           /\ \A c : GoodCmd(c, rgs, rgid, T) => <<c>> \in Seq(Command) /\ GoodCmds(<<c>>, rgs, rgid, T)
           /\ \A c, s : s \in Seq(Command) /\ GoodCmds(s, rgs, rgid, T) /\ GoodCmd(c, rgs, rgid, T) =>
                 Append(s, c) \in Seq(Command) /\ GoodCmds(Append(s, c), rgs, rgid, T)
<1>1. << >> \in Seq(Command) /\ GoodCmds(<< >>, rgs, rgid, T)
  <2>1. << >> \in Seq(Command) /\ DOMAIN << >> = {}
    BY EmptySeq
  <2> QED BY <2>1 DEF GoodCmds
<1>2. ASSUME NEW c, GoodCmd(c, rgs, rgid, T) PROVE <<c>> \in Seq(Command) /\ GoodCmds(<<c>>, rgs, rgid, T)
  <2>1. c \in Command
    BY <1>2 DEF GoodCmd
  <2>2. <<c>> \in Seq(Command) /\ DOMAIN <<c>> = {1} /\ <<c>>[1] = c
    BY <2>1
  <2> QED BY <1>2, <2>2 DEF GoodCmds
<1>3. ASSUME NEW c, NEW s, s \in Seq(Command), GoodCmds(s, rgs, rgid, T), GoodCmd(c, rgs, rgid, T)
      PROVE  Append(s, c) \in Seq(Command) /\ GoodCmds(Append(s, c), rgs, rgid, T)
  <2>1. c \in Command
    BY <1>3 DEF GoodCmd
  <2>2. PICK t : t = Append(s, c)
    OBVIOUS
  <2>3. t \in Seq(Command) /\ Len(t) = Len(s) + 1 /\ t[Len(s) + 1] = c /\ \A i \in 1..Len(s) : t[i] = s[i]
    BY <1>3, <2>1, <2>2, AppendProperties
  <2>4. Len(s) \in Nat /\ DOMAIN s = 1..Len(s) /\ DOMAIN t = 1..Len(s) + 1
    BY <1>3, <2>3, LenProperties
  <2>5. ASSUME NEW i \in DOMAIN t PROVE GoodCmd(t[i], rgs, rgid, T)
    <3>1. i \in 1..Len(s) \/ i = Len(s) + 1
      BY <2>4
    <3> QED BY <1>3, <2>3, <2>4, <3>1 DEF GoodCmds
  <2> QED BY <2>2, <2>3, <2>5 DEF GoodCmds
<1> QED BY <1>1, <1>2, <1>3

\* What electRgMaster has read when it has found a candidate: one is online, so the
\* group is full.
LEMMA electRgMasterGood ==
    ASSUME MetaInv, NEW d \in Db, NEW n \in Node, rgid[d][n] # 0, electable(GroupOf(d, n), pt[d]) # {},
           NEW h, h.db = d, h.pos = Smallest(electable(GroupOf(d, n), pt[d])), h.peers = GroupOf(d, n).peers
    PROVE  GoodPeers(h, rgid[d][n], rgs, rgid, torn) /\ h.pos \in Nat /\ h.peers \in Seq(Node)
<1>1. PICK k : k = rgid[d][n]
  OBVIOUS
<1>2. PICK g : g = rgs[d][k]
  OBVIOUS
<1>3. k \in 1..Len(rgs[d]) /\ g = GroupOf(d, n)
  BY <1>1, <1>2, GroupContext DEF MetaInv, GroupOf
<1>4. /\ g \in Group /\ Members(g) \subseteq {m \in Node : rgid[d][m] = k} /\ Len(g.peers) < ReplicasN
      /\ <<d, k>> \notin torn => FullGroup(g)
  BY <1>2, <1>3, GroupContext DEF MetaInv
<1>5. PICK can : can = electable(g, pt[d])
  OBVIOUS
<1>6. g.peers \in Seq(Node) /\ DOMAIN g.peers \subseteq Nat
  BY <1>4, LenProperties DEF Group
<1>7. can \in SUBSET Nat /\ can # {} /\ h.pos = Smallest(can) /\ h.peers = g.peers
  BY <1>3, <1>5, <1>6 DEF electable
<1>8. h.pos \in can
  BY <1>7, SmallestFacts
<1>9. h.pos \in DOMAIN g.peers /\ pt[d][g.peers[h.pos]] = "Online"
  BY <1>5, <1>8 DEF electable
<1>10. Range(g.peers) \subseteq {m \in Node : rgid[d][m] = k} /\ g.peers[h.pos] \in Range(g.peers)
  BY <1>4, <1>9 DEF Members, Range
<1>11. PICK m \in Node : m = g.peers[h.pos] /\ rgid[d][m] = k
  BY <1>10
<1>12. rgs[d][k].status # "UnFull"
  BY <1>9, <1>11 DEF MetaInv, PtInv, GroupOf
<1>13. <<d, k>> \notin torn => IsInjective(g.peers) /\ Len(g.peers) + 1 = ReplicasN
  BY <1>2, <1>4, <1>12 DEF FullGroup, Distinct
<1>14. GoodPeers(h, k, rgs, rgid, torn)
  BY <1>3, <1>4, <1>7, <1>9, <1>10, <1>12, <1>13 DEF GoodPeers
<1> QED BY <1>1, <1>6, <1>7, <1>8, <1>14

\* The command of the handler of a failed node: the master it reads in the end may
\* be one of the peers read before, and only then is a member named twice.
LEMMA swapMasterGood ==
    ASSUME MetaInv, NEW d \in Db, NEW k, NEW h, h.db = d, h.peers \in Seq(Node), GoodPeers(h, k, rgs, rgid, torn),
           NEW g, g = [rgs[d][k] EXCEPT !.peers = h.peers],
           NEW T, torn \subseteq T, g.master \in Range(g.peers) => <<d, k>> \in T
    PROVE  GoodCmd([db |-> d, rg |-> k, master |-> g.peers[h.pos], peers |-> electPeers(g, h.pos)], rgs, rgid, T)
<1>1. k \in 1..Len(rgs[d]) /\ rgs[d][k].status # "UnFull"
  BY DEF GoodPeers
<1>2. rgs[d][k] \in Group /\ Members(rgs[d][k]) \subseteq {n \in Node : rgid[d][n] = k}
  BY <1>1, GroupContext DEF MetaInv
<1>3. g \in Group /\ g.master = rgs[d][k].master /\ g.peers = h.peers
  BY <1>2 DEF Group
<1>4. PICK i : i = h.pos
  OBVIOUS
<1>5. i \in DOMAIN g.peers
  BY <1>3, <1>4 DEF GoodPeers
<1>6. PICK p : p = electPeers(g, i)
  OBVIOUS
<1>7. /\ g.peers[i] \in Node /\ p \in Seq(Node) /\ Len(p) = Len(g.peers)
      /\ {g.peers[i]} \union Range(p) \subseteq Members(g)
      /\ Distinct(g.master, g.peers) => Distinct(g.peers[i], p)
  BY <1>3, <1>5, <1>6, electPeersFacts
<1>8. Members(g) \subseteq {n \in Node : rgid[d][n] = k}
  <2>1. g.master \in {n \in Node : rgid[d][n] = k}
    BY <1>2, <1>3 DEF Members
  <2>2. Range(g.peers) \subseteq {n \in Node : rgid[d][n] = k}
    BY <1>3 DEF GoodPeers
  <2> QED BY <2>1, <2>2 DEF Members
<1>9. Len(p) < ReplicasN
  BY <1>3, <1>7 DEF GoodPeers
<1>10. <<d, k>> \notin T => Distinct(g.peers[i], p) /\ Len(p) + 1 = ReplicasN
  BY <1>3, <1>7 DEF GoodPeers, Distinct
<1>11. {g.peers[i]} \union Range(p) \subseteq {n \in Node : rgid[d][n] = k}
  BY <1>7, <1>8
<1>12. PICK m : m = g.peers[i]
  OBVIOUS
<1>13. GoodCmd([db |-> d, rg |-> k, master |-> m, peers |-> p], rgs, rgid, T)
  BY <1>1, <1>7, <1>9, <1>10, <1>11, <1>12, CommandOfGroup
<1> QED BY <1>4, <1>6, <1>12, <1>13

\* The command for another master of a full group.
LEMMA NewPeerGood ==
    ASSUME MetaInv, NEW d \in Db, NEW k \in 1..Len(rgs[d]), rgs[d][k].status # "UnFull", NEW i \in DOMAIN rgs[d][k].peers
    PROVE  GoodCmd([db |-> d, rg |-> k, master |-> rgs[d][k].peers[i],
                    peers |-> GenerateNewPeer(rgs[d][k], rgs[d][k].peers[i])], rgs, rgid, torn)
<1>1. PICK f \in Group : f = rgs[d][k]
  BY GroupContext DEF MetaInv
<1>2. PICK m : m = f.peers[i]
  OBVIOUS
<1>3. PICK q : q = GenerateNewPeer(f, m)
  OBVIOUS
<1>4. m \in Node /\ q \in Seq(Node) /\ Len(q) <= Len(f.peers) /\ {m} \union Range(q) \subseteq Members(f)
  BY <1>1, <1>2, <1>3, GenerateNewPeerBound
<1>5. Members(f) \subseteq {n \in Node : rgid[d][n] = k} /\ Len(f.peers) < ReplicasN /\ (<<d, k>> \notin torn => FullGroup(f))
  BY <1>1, GroupContext DEF MetaInv
<1>6. ASSUME <<d, k>> \notin torn PROVE Distinct(m, q) /\ Len(q) + 1 = ReplicasN
  <2>1. Distinct(f.master, f.peers) /\ Len(f.peers) + 1 = ReplicasN
    BY <1>1, <1>5, <1>6 DEF FullGroup
  <2>2. Len(q) = Len(f.peers) /\ Distinct(m, q)
    BY <1>1, <1>2, <1>3, <2>1, GenerateNewPeerFacts
  <2> QED BY <2>1, <2>2
<1>7. Len(q) < ReplicasN
  <2>1. f.peers \in Seq(Node)
    BY DEF Group
  <2>2. Len(q) \in Nat /\ Len(f.peers) \in Nat /\ ReplicasN \in Nat
    BY <1>4, <2>1, LenProperties, ReplicaAssumption
  <2> QED BY <1>4, <1>5, <2>2
<1>8. {m} \union Range(q) \subseteq {n \in Node : rgid[d][n] = k}
  BY <1>4, <1>5
<1>9. GoodCmd([db |-> d, rg |-> k, master |-> m, peers |-> q], rgs, rgid, torn)
  BY <1>1, <1>4, <1>6, <1>7, <1>8, CommandOfGroup
<1> QED BY <1>1, <1>2, <1>3, <1>9

\* The masters the balancer walks are finitely many.
LEMMA MasterPtsFinite ==
    ASSUME MetaInv
    PROVE  IsFiniteSet(MasterPts)
<1> DEFINE A == 1..nodes
           R == [node : A, db : Db]
           f == [p \in A \X Db |-> [node |-> p[1], db |-> p[2]]]
<1>1. IsFiniteSet(A) /\ IsFiniteSet(Db)
  <2>1. nodes \in Int
    BY ReplicaAssumption DEF MetaInv, TypeMeta
  <2>2. PICK k \in Int : k = nodes
    BY <2>1
  <2>3. IsFiniteSet(1..k)
    BY FS_Interval
  <2> QED BY <2>2, <2>3, ReplicaAssumption
<1>2. IsFiniteSet(A \X Db)
  <2>1. PICK S : S = A
    OBVIOUS
  <2>2. IsFiniteSet(S \X Db)
    BY <1>1, <2>1, FS_Product
  <2> QED BY <2>1, <2>2
<1>3. f \in Surjection(A \X Db, R)
  <2> HIDE DEF A
  <2>1. f \in [A \X Db -> R]
    OBVIOUS
  <2>2. ASSUME NEW r \in R PROVE \E p \in A \X Db : f[p] = r
    <3>1. r.node \in A /\ r.db \in Db /\ r = [node |-> r.node, db |-> r.db]
      OBVIOUS
    <3>2. <<r.node, r.db>> \in A \X Db /\ f[<<r.node, r.db>>] = r
      BY <3>1
    <3> QED BY <3>2
  <2> QED BY <2>1, <2>2 DEF Surjection
<1>4. IsFiniteSet(R)
  <2>1. PICK S, T, h : S = A \X Db /\ T = R /\ h = f
    OBVIOUS
  <2>2. IsFiniteSet(T)
    BY <1>2, <1>3, <2>1, FS_Surjection
  <2> QED BY <2>1, <2>2
<1>5. MasterPts \subseteq R
  BY DEF MasterPts
<1> HIDE DEF R
<1>6. PICK S, T : S = R /\ T = MasterPts
  OBVIOUS
<1>7. IsFiniteSet(T)
  BY <1>4, <1>5, <1>6, FS_Subset
<1> QED BY <1>6, <1>7

\* What the balancer has so far: the number of masters of every node and good commands.
Choice(v) == v.num \in [Node -> Int] /\ v.ev \in Seq(Command) /\ GoodCmds(v.ev, rgs, rgid, torn)

\* One turn of the balancer.
LEMMA ElectGood ==
    ASSUME MetaInv, NEW x, x \in MasterPts, NEW v, Choice(v)
    PROVE  Choice(ElectNewRgMaster(v, x))
<1> DEFINE d == x.db
           n == x.node
           g == GroupOf(d, n)
           can == {i \in DOMAIN g.peers : CanElectAsNewRgMaster(d, g.peers[i], v.num)}
<1>1. d \in Db /\ n \in Node /\ rgid[d][n] # 0 /\ g.status # "UnFull"
  <2>1. d \in Db /\ n \in 1..nodes /\ nodes \in First..N
    BY DEF MasterPts, MetaInv, TypeMeta
  <2>2. n \in Node
    BY <2>1, ReplicaAssumption DEF Node
  <2>3. d \in GetRgsOfNodeMasterPts(n)
    BY DEF MasterPts
  <2> QED BY <2>1, <2>2, <2>3 DEF GetRgsOfNodeMasterPts, Databases
<1>2. PICK k : k = rgid[d][n]
  OBVIOUS
<1>3. k \in 1..Len(rgs[d]) /\ g = rgs[d][k]
  BY <1>1, <1>2, GroupContext DEF MetaInv, GroupOf
<1>4. g \in Group
  BY <1>1, <1>3, GroupContext DEF MetaInv
<1>5. CASE v.num[n] <= GetMasterPtLimitPerNode \/ can = {}
  <2>1. ElectNewRgMaster(v, x) = v
    BY <1>5 DEF ElectNewRgMaster
  <2> QED BY <2>1
<1>6. CASE ~(v.num[n] <= GetMasterPtLimitPerNode \/ can = {})
  <2> DEFINE i == Smallest(can)
             c == NewMaster(d, n, i)
             num == [v.num EXCEPT ![n] = @ - 1, ![g.peers[i]] = @ + 1]
  <2>1. ElectNewRgMaster(v, x) = [num |-> num, ev |-> Append(v.ev, c)]
    BY <1>6 DEF ElectNewRgMaster
  <2>2. can \in SUBSET Nat /\ can # {} /\ can \subseteq DOMAIN g.peers
    <3>1. DOMAIN g.peers \subseteq Nat
      BY <1>4, LenProperties DEF Group
    <3> QED BY <1>6, <3>1
  <2>3. i \in DOMAIN g.peers
    <3>1. PICK S : S = can
      OBVIOUS
    <3>2. Smallest(S) \in S
      BY <2>2, <3>1, SmallestFacts
    <3> QED BY <2>2, <3>1, <3>2
  <2>4. g.peers[i] \in Node
    <3>1. g.peers \in Seq(Node)
      BY <1>4 DEF Group
    <3> QED BY <2>3, <3>1, LenProperties, ElementOfSeq
  <2>5. c = [db |-> d, rg |-> k, master |-> rgs[d][k].peers[i], peers |-> GenerateNewPeer(rgs[d][k], rgs[d][k].peers[i])]
    BY <1>2 DEF NewMaster, GroupOf
  <2> HIDE DEF i, c
  <2>6. GoodCmd(c, rgs, rgid, torn)
    <3>1. PICK dd, j : dd \in Db /\ dd = d /\ j = i
      BY <1>1
    <3>2. dd \in Db /\ rgs[dd][k].status # "UnFull" /\ j \in DOMAIN rgs[dd][k].peers /\ k \in 1..Len(rgs[dd])
      BY <1>1, <1>3, <2>3, <3>1
    <3>3. GoodCmd([db |-> dd, rg |-> k, master |-> rgs[dd][k].peers[j],
                   peers |-> GenerateNewPeer(rgs[dd][k], rgs[dd][k].peers[j])], rgs, rgid, torn)
      BY <3>2, NewPeerGood
    <3> QED BY <2>5, <3>1, <3>3
  <2>7. Append(v.ev, c) \in Seq(Command) /\ GoodCmds(Append(v.ev, c), rgs, rgid, torn)
    BY <2>6, GoodLists DEF Choice
  <2>8. num \in [Node -> Int]
    <3>1. PICK u, a, b : u = v.num /\ a = n /\ b = g.peers[i]
      OBVIOUS
    <3>2. u \in [Node -> Int] /\ a \in Node /\ b \in Node
      BY <1>1, <2>4, <3>1 DEF Choice
    <3>3. [u EXCEPT ![a] = @ - 1, ![b] = @ + 1] \in [Node -> Int]
      BY <3>2
    <3> QED BY <3>1, <3>3
  <2> HIDE DEF num
  <2> QED BY <2>1, <2>7, <2>8 DEF Choice
<1> QED BY <1>5, <1>6

\* All turns of the balancer.
LEMMA selectUpdateRGEventsGood ==
    ASSUME MetaInv, NEW masters, masters \in Walks
    PROVE  selectUpdateRGEvents(masters) \in Seq(Command) /\ GoodCmds(selectUpdateRGEvents(masters), rgs, rgid, torn)
<1>1. masters \in Seq(MasterPts) /\ Len(masters) \in Nat /\ \A i \in 1..Len(masters) : masters[i] \in MasterPts
  <2>1. PICK S : S = MasterPts
    OBVIOUS
  <2>2. IsFiniteSet(S) /\ masters \in SetToSeqs(S)
    BY <2>1, MasterPtsFinite DEF Walks
  <2>3. masters \in Seq(S)
    BY <2>2, PermutationRange
  <2> QED BY <2>1, <2>3, LenProperties, ElementOfSeq
<1> DEFINE b == [num |-> [n \in Node |-> Cardinality(GetRgsOfNodeMasterPts(n))], ev |-> << >>]
           E(v, i) == ElectNewRgMaster(v, masters[i])
           Rec(g, m) == g = [i \in 0..m |-> IF i = 0 THEN b ELSE E(g[i - 1], i)]
           S == {m \in Nat : \E g : Rec(g, m)}
           k == Len(masters)
           f == CHOOSE g : Rec(g, k)
<1>2. Choice(b)
  <2>1. ASSUME NEW n \in Node PROVE Cardinality(GetRgsOfNodeMasterPts(n)) \in Int
    <3>1. PICK T : T = GetRgsOfNodeMasterPts(n)
      OBVIOUS
    <3>2. T \subseteq Db
      BY <3>1 DEF GetRgsOfNodeMasterPts, Databases
    <3>3. IsFiniteSet(T)
      BY <3>2, FS_Subset, ReplicaAssumption
    <3>4. Cardinality(T) \in Nat
      BY <3>3, FS_CardinalityType
    <3> QED BY <3>1, <3>4
  <2>2. b.ev \in Seq(Command) /\ GoodCmds(b.ev, rgs, rgid, torn)
    BY GoodLists
  <2>3. b.num = [n \in Node |-> Cardinality(GetRgsOfNodeMasterPts(n))]
    OBVIOUS
  <2>4. b.num \in [Node -> Int]
    BY <2>1, <2>3
  <2> QED BY <2>2, <2>4 DEF Choice
<1>3. selectUpdateRGEvents(masters) = f[k].ev
  BY DEF selectUpdateRGEvents
<1> HIDE DEF b, E
<1>4. k \in S
  <2>1. 0 \in S
    <3> DEFINE g == [i \in 0..0 |-> b]
    <3>1. Rec(g, 0)
      OBVIOUS
    <3> QED BY <3>1
  <2>2. ASSUME NEW m \in Nat, m \in S PROVE m + 1 \in S
    <3>1. PICK g : Rec(g, m)
      BY <2>2
    <3> DEFINE h == [i \in 0..m + 1 |-> IF i <= m THEN g[i] ELSE E(g[m], m + 1)]
               e == [i \in 0..m + 1 |-> IF i = 0 THEN b ELSE E(h[i - 1], i)]
    <3>2. ASSUME NEW i \in 0..m + 1 PROVE h[i] = e[i]
      <4>1. CASE i = 0
        BY <3>1, <4>1
      <4>2. CASE i # 0 /\ i <= m
        <5>1. i \in 0..m /\ i - 1 \in 0..m + 1 /\ i - 1 <= m
          BY <4>2
        <5>2. h[i] = g[i] /\ h[i - 1] = g[i - 1]
          BY <4>2, <5>1
        <5>3. g[i] = E(g[i - 1], i)
          BY <3>1, <4>2, <5>1
        <5> QED BY <4>2, <5>2, <5>3
      <4>3. CASE i = m + 1
        <5>1. i # 0 /\ ~(i <= m) /\ i - 1 = m /\ m \in 0..m + 1
          BY <4>3
        <5>2. h[i] = E(g[m], m + 1) /\ h[m] = g[m]
          BY <4>3, <5>1
        <5> QED BY <4>3, <5>1, <5>2
      <4> QED BY <4>1, <4>2, <4>3
    <3>3. h = e
      BY <3>2
    <3>4. Rec(h, m + 1)
      BY <3>3
    <3> HIDE DEF h, e
    <3>5. \E y : Rec(y, m + 1)
      BY <3>4
    <3> QED BY <3>5
  <2> HIDE DEF S, k
  <2>3. k \in Nat
    BY <1>1 DEF k
  <2>4. PICK T : T = S
    OBVIOUS
  <2>5. k \in T
    BY <2>1, <2>2, <2>3, <2>4, NatSetInduction
  <2> QED BY <2>4, <2>5
<1>5. Rec(f, k)
  BY <1>4
<1> HIDE DEF f
<1>6. f[0] = b /\ \A i \in 1..k : f[i] = E(f[i - 1], i)
  <2>0. k \in Nat
    BY <1>1
  <2>1. f[0] = b
    BY <1>5, <2>0
  <2>2. ASSUME NEW i \in 1..k PROVE f[i] = E(f[i - 1], i)
    <3>1. i \in 0..k /\ i # 0
      BY <2>0
    <3> QED BY <1>5, <3>1
  <2> QED BY <2>1, <2>2
<1> HIDE DEF Rec
<1> DEFINE P == {m \in Nat : m <= k => Choice(f[m])}
<1>7. 0 \in P
  BY <1>2, <1>6
<1>8. ASSUME NEW m \in Nat, m \in P PROVE m + 1 \in P
  <2> SUFFICES ASSUME m + 1 <= k PROVE Choice(f[m + 1])
    OBVIOUS
  <2>1. m + 1 \in 1..k /\ (m + 1) - 1 = m /\ m <= k
    BY <1>1
  <2>2. Choice(f[m]) /\ f[m + 1] = E(f[m], m + 1)
    BY <1>6, <1>8, <2>1
  <2>3. PICK v, x : v = f[m] /\ x = masters[m + 1]
    OBVIOUS
  <2>4. x \in MasterPts
    BY <1>1, <2>1, <2>3
  <2>5. Choice(ElectNewRgMaster(v, x))
    BY <2>2, <2>3, <2>4, ElectGood
  <2> QED BY <2>2, <2>3, <2>5 DEF E
<1> HIDE DEF P
<1>9. k \in P
  <2>1. PICK T : T = P
    OBVIOUS
  <2>2. k \in Nat
    BY <1>1
  <2> HIDE DEF k
  <2>3. k \in T
    BY <1>7, <1>8, <2>1, <2>2, NatSetInduction
  <2> QED BY <2>1, <2>3
<1>10. Choice(f[k])
  BY <1>1, <1>9 DEF P
<1> QED BY <1>3, <1>10 DEF Choice

-----------------------------------------------------------------------------
(* The invariant is inductive.                                             *)

\* What a step has to show of the commands, handlers and events it leaves
\* behind, against the groups before it and what is torn after it.
CmdsOK(s) == s \in Seq(Command) /\ GoodCmds(s, rgs, rgid, torn')
HandlersOK(h) == h \in [Node -> HandlerState] /\ \A n \in Node : GoodHandler(h[n], n, rgs, rgid, torn')
EventsOK(S) ==
    /\ S \subseteq [db : Db, node : Node, user : BOOLEAN]
    /\ \A a \in S : rgid[a.db][a.node] # 0 /\ GroupOf(a.db, a.node).status # "UnFull"
Stages == [Db -> {"none", "view", "load", "done"}]

\* A good command stays so when more is torn, and so does what a handler has read.
LEMMA GoodMore ==
    ASSUME NEW T, torn \subseteq T
    PROVE  /\ \A c : GoodCmd(c, rgs, rgid, torn) => GoodCmd(c, rgs, rgid, T)
           /\ \A s : GoodCmds(s, rgs, rgid, torn) => GoodCmds(s, rgs, rgid, T)
           /\ \A h, k : GoodPeers(h, k, rgs, rgid, torn) => GoodPeers(h, k, rgs, rgid, T)
           /\ \A h, n : GoodHandler(h, n, rgs, rgid, torn) => GoodHandler(h, n, rgs, rgid, T)
<1>1. \A c : GoodCmd(c, rgs, rgid, torn) => GoodCmd(c, rgs, rgid, T)
  BY DEF GoodCmd
<1>2. \A s : GoodCmds(s, rgs, rgid, torn) => GoodCmds(s, rgs, rgid, T)
  BY <1>1 DEF GoodCmds
<1>3. \A h, k : GoodPeers(h, k, rgs, rgid, torn) => GoodPeers(h, k, rgs, rgid, T)
  BY DEF GoodPeers
<1>4. \A h, n : GoodHandler(h, n, rgs, rgid, torn) => GoodHandler(h, n, rgs, rgid, T)
  BY <1>2, <1>3 DEF GoodHandler
<1> QED BY <1>1, <1>2, <1>3, <1>4

\* The parts of the invariant, in the form the steps use.
LEMMA InvParts ==
    ASSUME Inv, torn \subseteq torn'
    PROVE  /\ MetaInv /\ CmdsOK(bal) /\ CmdsOK(oper) /\ HandlersOK(hdl) /\ EventsOK(assign) /\ stage \in Stages
           /\ up \subseteq 1..nodes /\ seen \subseteq 1..nodes /\ queue \in Seq(MemberEvent) /\ nodes \in 1..N
<1>1. MetaInv /\ TypeRest /\ CmdInv /\ AssignInv
  BY DEF Inv
<1>2. CmdsOK(bal) /\ CmdsOK(oper)
  BY <1>1, GoodMore DEF TypeRest, CmdInv, CmdsOK
<1>3. HandlersOK(hdl)
  <2>1. \A n \in Node : GoodHandler(hdl[n], n, rgs, rgid, torn')
    BY <1>1, GoodMore DEF CmdInv
  <2> QED BY <1>1, <2>1 DEF TypeRest, HandlersOK
<1>4. EventsOK(assign)
  BY <1>1 DEF TypeRest, AssignInv, EventsOK
<1>5. nodes \in 1..N
  BY <1>1, ReplicaAssumption DEF MetaInv, TypeMeta
<1> QED BY <1>1, <1>2, <1>3, <1>4, <1>5 DEF TypeRest, Stages

\* The states of a handler.
LEMMA HandlerKinds ==
    ASSUME NEW h \in HandlerState
    PROVE  /\ h.at \in {"join", "takeover", "fail", "failed"} => h \in Starting
           /\ h.at = "failover" => h \in Failing
           /\ h.at = "elect" => h \in Electing
           /\ h.at = "swap" => h \in Swapping
BY DEF HandlerState, Starting, Failing, Electing, Swapping

\* What a handler has read stays good as well.
LEMMA LaterHandler ==
    ASSUME MetaInv, Later, NEW n \in Node, NEW h \in HandlerState, GoodHandler(h, n, rgs, rgid, torn')
    PROVE  GoodHandler(h, n, rgs', rgid', torn')
<1>1. ASSUME h.at \in {"failover", "elect", "swap"} PROVE \A d \in h.todo : rgid'[d][n] # 0
  <2>1. h.todo \subseteq Db
    BY <1>1, HandlerKinds DEF Failing, Electing, Swapping
  <2> QED BY <1>1, <2>1 DEF GoodHandler, Later
<1>2. ASSUME h.at = "failover" PROVE GoodCmds(h.cmd, rgs', rgid', torn')
  <2>1. GoodCmds(h.cmd, rgs, rgid, torn')
    BY <1>2 DEF GoodHandler
  <2> QED BY <2>1, LaterGood DEF GoodCmds
<1>3. ASSUME h.at \in {"elect", "swap"} PROVE h.db \in Db /\ rgid[h.db][n] # 0 /\ rgid'[h.db][n] = rgid[h.db][n]
  <2>1. h.db \in Db
    BY <1>3, HandlerKinds DEF Electing, Swapping
  <2>2. rgid[h.db][n] # 0
    BY <1>3 DEF GoodHandler
  <2> QED BY <2>1, <2>2 DEF Later
<1>4. ASSUME h.at = "swap" PROVE GoodPeers(h, rgid'[h.db][n], rgs', rgid', torn')
  <2>1. PICK d, k : d \in Db /\ d = h.db /\ k = rgid[d][n]
    BY <1>3, <1>4
  <2>2. GoodPeers(h, k, rgs, rgid, torn')
    BY <1>4, <2>1 DEF GoodHandler
  <2>3. k # 0 /\ rgid'[d][n] = k
    BY <1>3, <1>4, <2>1
  <2>4. k \in 1..Len(rgs[d]) /\ rgs[d][k].status # "UnFull"
    BY <2>1, <2>2 DEF GoodPeers
  <2>5. k \in 1..Len(rgs'[d]) /\ rgs'[d][k].status # "UnFull"
    BY <2>1, <2>4 DEF Later
  <2>6. \A m \in Node : rgid[d][m] = k => rgid'[d][m] = k
    BY <2>1, <2>3 DEF Later
  <2>7. Range(h.peers) \subseteq {m \in Node : rgid'[d][m] = k}
    BY <2>1, <2>2, <2>6 DEF GoodPeers
  <2>8. GoodPeers(h, k, rgs', rgid', torn')
    BY <2>1, <2>2, <2>5, <2>7 DEF GoodPeers
  <2> QED BY <2>1, <2>3, <2>8
<1>5. h.at \in {"elect", "swap"} => rgid'[h.db][n] # 0
  BY <1>3
<1> QED BY <1>1, <1>2, <1>4, <1>5 DEF GoodHandler

\* The groups only grow full: what was shown against the old ones holds of the new.
LEMMA Frame ==
    ASSUME MetaInv, MetaInv', Later, CmdsOK(bal'), CmdsOK(oper'), HandlersOK(hdl'), EventsOK(assign'), stage' \in Stages,
           up' \subseteq 1..nodes', seen' \subseteq 1..nodes', queue' \in Seq(MemberEvent)
    PROVE  Inv'
<1>1. \A c : GoodCmd(c, rgs, rgid, torn') => GoodCmd(c, rgs', rgid', torn')
  BY LaterGood
<1>3. TypeRest'
  BY DEF TypeRest, CmdsOK, HandlersOK, EventsOK, Stages
<1>4. CmdInv'
  <2>1. GoodCmds(bal', rgs', rgid', torn') /\ GoodCmds(oper', rgs', rgid', torn')
    BY <1>1 DEF CmdsOK, GoodCmds
  <2>2. ASSUME NEW n \in Node PROVE GoodHandler(hdl'[n], n, rgs', rgid', torn')
    <3>1. PICK h : h = hdl'[n]
      OBVIOUS
    <3>2. h \in HandlerState /\ GoodHandler(h, n, rgs, rgid, torn')
      BY <3>1 DEF HandlersOK
    <3>3. GoodHandler(h, n, rgs', rgid', torn')
      BY <3>2, LaterHandler
    <3> QED BY <3>1, <3>3
  <2> QED BY <2>1, <2>2 DEF CmdInv
<1>5. AssignInv'
  <2> SUFFICES ASSUME NEW a \in assign' PROVE rgid'[a.db][a.node] # 0 /\ rgs'[a.db][rgid'[a.db][a.node]].status # "UnFull"
    BY DEF AssignInv, GroupOf
  <2>1. a.db \in Db /\ a.node \in Node /\ rgid[a.db][a.node] # 0 /\ rgs[a.db][rgid[a.db][a.node]].status # "UnFull"
    BY DEF EventsOK, GroupOf
  <2>2. PICK d \in Db, n \in Node : d = a.db /\ n = a.node
    BY <2>1
  <2>3. rgid[d][n] \in 1..Len(rgs[d]) /\ rgs[d][rgid[d][n]].status # "UnFull"
    BY <2>1, <2>2, GroupContext DEF MetaInv
  <2>4. rgid'[d][n] = rgid[d][n] /\ rgs'[d][rgid[d][n]].status # "UnFull"
    BY <2>1, <2>2, <2>3 DEF Later
  <2> QED BY <2>1, <2>2, <2>4
<1> QED BY <1>3, <1>4, <1>5 DEF Inv

\* A step that leaves the metadata alone.
LEMMA SameMeta ==
    ASSUME MetaInv, UNCHANGED <<metaVars, histVars>>
    PROVE  MetaInv' /\ Later
<1>0. nodes' = nodes /\ dn' = dn /\ pt' = pt /\ rgs' = rgs /\ rgid' = rgid /\ torn' = torn /\ stale' = stale
  BY DEF metaVars, histVars
<1>1. /\ nodes \in First..N /\ rgs = [d \in Db |-> rgs[d]]
      /\ rgid = [d \in Db |-> rgid[d]] /\ pt = [d \in Db |-> pt[d]]
  BY DEF MetaInv, TypeMeta
<1>2. \A d \in Db : DbKept(d)
  BY <1>0, DbSame
<1> QED BY <1>0, <1>1, <1>2, DbKeptAll

\* Events of partitions of full groups.
LEMMA MoreEvents ==
    ASSUME EventsOK(assign), NEW S, NEW u \in BOOLEAN,
           \A x \in S : /\ x \in Db \X Node /\ rgid[x[1]][x[2]] # 0 /\ GroupOf(x[1], x[2]).status # "UnFull"
    PROVE  EventsOK(assign \union AssignEvents(S, u))
<1>1. ASSUME NEW a \in AssignEvents(S, u)
      PROVE  /\ a \in [db : Db, node : Node, user : BOOLEAN]
             /\ rgid[a.db][a.node] # 0 /\ GroupOf(a.db, a.node).status # "UnFull"
  <2>1. PICK x \in S : a = [db |-> x[1], node |-> x[2], user |-> u]
    BY DEF AssignEvents
  <2>2. x \in Db \X Node /\ rgid[x[1]][x[2]] # 0 /\ GroupOf(x[1], x[2]).status # "UnFull"
    BY <2>1
  <2>3. a.db = x[1] /\ a.node = x[2] /\ x[1] \in Db /\ x[2] \in Node
    BY <2>1, <2>2
  <2>4. a \in [db : Db, node : Node, user : BOOLEAN]
    BY <2>1, <2>3
  <2>5. PICK p, q : p = x[1] /\ q = x[2]
    OBVIOUS
  <2> QED BY <2>2, <2>3, <2>4, <2>5
<1> QED BY <1>1 DEF EventsOK

\* A handler that goes on to another state.
LEMMA HandlerMoves ==
    ASSUME HandlersOK(hdl), NEW n \in Node, NEW h \in HandlerState, hdl' = [hdl EXCEPT ![n] = h],
           GoodHandler(h, n, rgs, rgid, torn')
    PROVE  HandlersOK(hdl')
<1>1. hdl' \in [Node -> HandlerState] /\ \A m \in Node : hdl'[m] = IF m = n THEN h ELSE hdl[m]
  BY DEF HandlersOK
<1>2. ASSUME NEW m \in Node PROVE GoodHandler(hdl'[m], m, rgs, rgid, torn')
  <2>1. CASE m = n
    BY <1>1, <2>1
  <2>2. CASE m # n
    <3>1. hdl'[m] = hdl[m]
      BY <1>1, <2>2
    <3> QED BY <3>1 DEF HandlersOK
  <2> QED BY <2>1, <2>2
<1> QED BY <1>1, <1>2 DEF HandlersOK

\* A handler that is done or has only begun.
LEMMA IdleState ==
    /\ Idle \in HandlerState
    /\ \A n, groups, ids, T : GoodHandler(Idle, n, groups, ids, T)
    /\ \A h \in Starting : h \in HandlerState /\ \A n, groups, ids, T : GoodHandler(h, n, groups, ids, T)
<1>1. Idle \in HandlerState /\ Idle.at = "idle"
  BY DEF Idle, HandlerState
<1>2. \A h \in Starting : h \in HandlerState /\ h.at \notin {"failover", "elect", "swap"}
  BY DEF Starting, HandlerState
<1> QED BY <1>1, <1>2 DEF GoodHandler

\* A handler between two partitions.
LEMMA FailOverState ==
    ASSUME NEW n \in Node, hdl[n].place \in BOOLEAN, NEW todo \in SUBSET Db, NEW cmd \in Seq(Command),
           NEW T, \A d \in todo : rgid[d][n] # 0, GoodCmds(cmd, rgs, rgid, T)
    PROVE  FailOver(n, todo, cmd) \in HandlerState /\ GoodHandler(FailOver(n, todo, cmd), n, rgs, rgid, T)
<1>1. PICK h : h = FailOver(n, todo, cmd)
  OBVIOUS
<1>2. h \in Failing /\ h.at = "failover" /\ h.todo = todo /\ h.cmd = cmd
  BY <1>1 DEF FailOver, Failing
<1>3. h \in HandlerState
  BY <1>2 DEF HandlerState
<1>4. GoodHandler(h, n, rgs, rgid, T)
  BY <1>2 DEF GoodHandler
<1> QED BY <1>1, <1>3, <1>4

\* Members, gossip and the queue of events.
LEMMA MemberSteps ==
    ASSUME Inv, NEW n \in Node, Crash(n) \/ Restart(n) \/ GossipFailed(n)
    PROVE  Inv'
<1>t. torn' = torn /\ stale' = stale /\ stage' = stage
  BY DEF Crash, Restart, GossipFailed, histVars
<1>0. /\ MetaInv /\ CmdsOK(bal) /\ CmdsOK(oper) /\ HandlersOK(hdl) /\ EventsOK(assign) /\ stage \in Stages
      /\ up \subseteq 1..nodes /\ seen \subseteq 1..nodes /\ queue \in Seq(MemberEvent) /\ nodes \in 1..N
  BY <1>t, InvParts
<1>1. UNCHANGED <<metaVars, histVars>> /\ UNCHANGED <<bal, oper, hdl, assign>>
  BY DEF Crash, Restart, GossipFailed
<1>2. MetaInv' /\ Later /\ nodes' = nodes
  BY <1>0, <1>1, SameMeta DEF metaVars
<1>3. up' \subseteq 1..nodes /\ seen' \subseteq 1..nodes
  BY <1>0 DEF Crash, Restart, GossipFailed
<1>4. queue' \in Seq(MemberEvent)
  <2>1. Event("join", n) \in MemberEvent /\ Event("fail", n) \in MemberEvent
    BY DEF Event, MemberEvent
  <2>2. queue' = queue \/ queue' = Append(queue, Event("join", n)) \/ queue' = Append(queue, Event("fail", n))
    BY DEF Crash, Restart, GossipFailed
  <2> QED BY <1>0, <2>1, <2>2, AppendProperties
<1>5. CmdsOK(bal') /\ CmdsOK(oper') /\ HandlersOK(hdl') /\ EventsOK(assign') /\ stage' \in Stages
  BY <1>t, <1>0, <1>1
<1> QED BY <1>0, <1>2, <1>3, <1>4, <1>5, Frame

\* A new node registers.
LEMMA RegisterStep ==
    ASSUME Inv, CreateDataNode
    PROVE  Inv'
<1>t. torn' = torn /\ stale' = stale /\ stage' = stage
  BY DEF CreateDataNode, histVars
<1>0. /\ MetaInv /\ CmdsOK(bal) /\ CmdsOK(oper) /\ HandlersOK(hdl) /\ EventsOK(assign) /\ stage \in Stages
      /\ up \subseteq 1..nodes /\ seen \subseteq 1..nodes /\ queue \in Seq(MemberEvent) /\ nodes \in 1..N
  BY <1>t, InvParts
<1>1. /\ nodes < N /\ nodes' = nodes + 1 /\ up' = up \union {nodes + 1} /\ seen' = seen \union {nodes + 1}
      /\ queue' = Append(queue, Event("join", nodes + 1)) /\ UNCHANGED <<bal, oper, hdl, assign>>
  BY DEF CreateDataNode
<1>2. MetaInv' /\ Later
  BY <1>0, CreateDataNodeKeeps
<1>3. nodes + 1 \in Node /\ N \in Nat
  BY <1>0, <1>1, ReplicaAssumption DEF Node
<1>4. \A m \in 1..nodes : m \in 1..nodes + 1
  BY <1>0
<1>5. nodes + 1 \in 1..nodes + 1
  BY <1>0
<1>6. up' \subseteq 1..nodes' /\ seen' \subseteq 1..nodes'
  BY <1>0, <1>1, <1>4, <1>5
<1>7. Event("join", nodes + 1) \in MemberEvent
  BY <1>3 DEF Event, MemberEvent
<1>8. queue' \in Seq(MemberEvent)
  BY <1>0, <1>1, <1>7, AppendProperties
<1>9. CmdsOK(bal') /\ CmdsOK(oper') /\ HandlersOK(hdl') /\ EventsOK(assign') /\ stage' \in Stages
  BY <1>t, <1>0, <1>1
<1> QED BY <1>0, <1>2, <1>6, <1>8, <1>9, Frame

\* CREATE DATABASE.
LEMMA CreateDatabaseSteps ==
    ASSUME Inv, NEW d \in Db, CreateDBPtView(d) \/ assignDbpt(d) \/ CreateDatabase(d)
    PROVE  Inv'
<1>t. torn' = torn /\ stale' = stale
  BY DEF CreateDBPtView, assignDbpt, CreateDatabase, histVars
<1>0. /\ MetaInv /\ CmdsOK(bal) /\ CmdsOK(oper) /\ HandlersOK(hdl) /\ EventsOK(assign) /\ stage \in Stages
      /\ up \subseteq 1..nodes /\ seen \subseteq 1..nodes /\ queue \in Seq(MemberEvent) /\ nodes \in 1..N
  BY <1>t, InvParts
<1>1. UNCHANGED <<nodes, up, seen, queue, hdl, bal, oper>>
  BY DEF CreateDBPtView, assignDbpt, CreateDatabase, metaVars
<1>s. stage' \in Stages
  <2>1. \E x \in {"view", "load", "done"} : stage' = [stage EXCEPT ![d] = x]
    BY DEF CreateDBPtView, assignDbpt, CreateDatabase
  <2> QED BY <1>0, <2>1 DEF Stages
<1>2. /\ CmdsOK(bal') /\ CmdsOK(oper') /\ HandlersOK(hdl') /\ up' \subseteq 1..nodes' /\ seen' \subseteq 1..nodes'
      /\ queue' \in Seq(MemberEvent) /\ stage' \in Stages
  BY <1>0, <1>1, <1>s
<1>3. CASE CreateDBPtView(d)
  <2>1. MetaInv' /\ Later
    BY <1>0, <1>3, CreateDBPtViewKeeps
  <2>2. EventsOK(assign')
    BY <1>0, <1>3 DEF CreateDBPtView
  <2> QED BY <1>0, <1>2, <2>1, <2>2, Frame
<1>4. CASE assignDbpt(d)
  <2> DEFINE S == {d} \X {n \in 1..nodes : pt[d][n] = "Offline" /\ GroupOf(d, n).status # "UnFull"}
  <2>1. assign' = assign \union AssignEvents(S, TRUE) /\ UNCHANGED <<metaVars, histVars>>
    BY <1>4 DEF assignDbpt
  <2>2. MetaInv' /\ Later
    BY <1>0, <2>1, SameMeta
  <2>3. ASSUME NEW x \in S PROVE x \in Db \X Node /\ rgid[x[1]][x[2]] # 0 /\ GroupOf(x[1], x[2]).status # "UnFull"
    <3>1. PICK n \in 1..nodes : x = <<d, n>> /\ pt[d][n] = "Offline" /\ GroupOf(d, n).status # "UnFull"
      BY <2>3
    <3>2. n \in Node
      BY <1>0, <3>1, ReplicaAssumption DEF Node
    <3>3. rgid[d][n] # 0
      BY <1>0, <3>1, <3>2 DEF MetaInv, PtInv
    <3> QED BY <3>1, <3>2, <3>3
  <2> HIDE DEF S
  <2>4. EventsOK(assign \union AssignEvents(S, TRUE))
    <3>1. PICK T : T = S
      OBVIOUS
    <3>2. EventsOK(assign \union AssignEvents(T, TRUE))
      BY <1>0, <2>3, <3>1, MoreEvents
    <3> QED BY <3>1, <3>2
  <2> QED BY <1>0, <1>2, <2>1, <2>2, <2>4, Frame
<1>5. CASE CreateDatabase(d)
  <2>1. assign' = assign /\ UNCHANGED <<metaVars, histVars>>
    BY <1>5 DEF CreateDatabase
  <2>2. MetaInv' /\ Later
    BY <1>0, <2>1, SameMeta
  <2>3. EventsOK(assign')
    BY <1>0, <2>1
  <2> QED BY <1>0, <1>2, <2>2, <2>3, Frame
<1> QED BY <1>3, <1>4, <1>5

\* An event of a member is handed to its handler.
LEMMA CheckEventsStep ==
    ASSUME Inv, checkEvents
    PROVE  Inv'
<1>t. torn' = torn /\ stale' = stale /\ stage' = stage
  BY DEF checkEvents, histVars
<1>0. /\ MetaInv /\ CmdsOK(bal) /\ CmdsOK(oper) /\ HandlersOK(hdl) /\ EventsOK(assign) /\ stage \in Stages
      /\ up \subseteq 1..nodes /\ seen \subseteq 1..nodes /\ queue \in Seq(MemberEvent) /\ nodes \in 1..N
  BY <1>t, InvParts
<1> DEFINE e == Head(queue)
<1>1. /\ queue # << >> /\ queue' = Tail(queue) /\ hdl' = [hdl EXCEPT ![e.node] = [at |-> e.type, place |-> (e.type # pre)]]
      /\ UNCHANGED <<metaVars, histVars>> /\ UNCHANGED <<up, seen, bal, oper, assign>>
  BY DEF checkEvents
<1>2. e \in MemberEvent /\ queue' \in Seq(MemberEvent)
  BY <1>0, <1>1, HeadTailProperties
<1>3. e.type \in {"join", "fail"} /\ e.node \in Node
  BY <1>2 DEF MemberEvent
<1> HIDE DEF e
<1>4. PICK t, b, n : t = e.type /\ b = (e.type # pre) /\ n = e.node
  OBVIOUS
<1>5. b \in BOOLEAN
  BY <1>4, Zenon
<1>6. PICK h : h = [at |-> t, place |-> b]
  OBVIOUS
<1>7. h \in HandlerState /\ GoodHandler(h, n, rgs, rgid, torn')
  <2>1. h \in Starting
    BY <1>3, <1>4, <1>5, <1>6 DEF Starting
  <2> QED BY <2>1, IdleState
<1>8. hdl' = [hdl EXCEPT ![n] = h]
  BY <1>1, <1>4, <1>6
<1>9. HandlersOK(hdl')
  BY <1>0, <1>3, <1>4, <1>7, <1>8, HandlerMoves
<1>10. MetaInv' /\ Later /\ nodes' = nodes
  BY <1>0, <1>1, SameMeta DEF metaVars
<1>11. CmdsOK(bal') /\ CmdsOK(oper') /\ EventsOK(assign') /\ up' \subseteq 1..nodes' /\ seen' \subseteq 1..nodes' /\ stage' \in Stages
  BY <1>t, <1>0, <1>1, <1>10
<1> QED BY <1>0, <1>2, <1>9, <1>10, <1>11, Frame

\* The handlers of joined and failed nodes.
LEMMA HandlerSteps ==
    ASSUME Inv, NEW n \in Node, Handler(n)
    PROVE  Inv'
<1>t. torn \subseteq torn' /\ stage' = stage
  BY DEF Handler, joinHandlerForRep, takeoverForRep, failHandlerForRep, getFailedDbPts, processReplication, electRgMaster,
         swapMaster, applyReplication, histVars
<1>0. /\ MetaInv /\ CmdsOK(bal) /\ CmdsOK(oper) /\ HandlersOK(hdl) /\ EventsOK(assign) /\ stage \in Stages
      /\ up \subseteq 1..nodes /\ seen \subseteq 1..nodes /\ queue \in Seq(MemberEvent) /\ nodes \in 1..N
  BY <1>t, InvParts
<1>1. UNCHANGED <<nodes, up, seen, queue, bal, oper>>
  BY DEF Handler, joinHandlerForRep, takeoverForRep, failHandlerForRep, getFailedDbPts, processReplication, electRgMaster,
         swapMaster, applyReplication, metaVars
<1>2. /\ CmdsOK(bal') /\ CmdsOK(oper') /\ up' \subseteq 1..nodes' /\ seen' \subseteq 1..nodes' /\ queue' \in Seq(MemberEvent)
      /\ stage' \in Stages
  BY <1>t, <1>0, <1>1
<1>3. PICK o : o = hdl[n]
  OBVIOUS
<1>4. o \in HandlerState /\ GoodHandler(o, n, rgs, rgid, torn')
  BY <1>0, <1>3 DEF HandlersOK
<1>5. hdl \in [Node -> HandlerState]
  BY <1>0 DEF HandlersOK
<1>6. CASE joinHandlerForRep(n) \/ failHandlerForRep(n)
  <2>1. PICK y \in {"takeover", "failed"}, x \in {"alive", "failed"} :
          /\ o.at \in {"join", "fail"} /\ UpdateNodeStatus(n, x) /\ hdl' = [hdl EXCEPT ![n] = [o EXCEPT !.at = y]]
          /\ UNCHANGED <<nodes, rgid, torn>> /\ assign' = assign
    BY <1>3, <1>6 DEF joinHandlerForRep, failHandlerForRep
  <2>2. MetaInv' /\ Later
    BY <1>0, <2>1, UpdateNodeStatusKeeps
  <2>3. PICK h : h = [o EXCEPT !.at = y]
    OBVIOUS
  <2>4. o \in Starting
    BY <1>4, <2>1, HandlerKinds
  <2>5. h \in Starting
    BY <2>3, <2>4 DEF Starting
  <2>6. h \in HandlerState /\ GoodHandler(h, n, rgs, rgid, torn')
    BY <2>5, IdleState
  <2>7. HandlersOK(hdl')
    BY <1>0, <2>1, <2>3, <2>6, HandlerMoves
  <2> QED BY <1>0, <1>2, <2>1, <2>2, <2>7, Frame
<1>7. CASE takeoverForRep(n)
  <2> DEFINE failed == {d \in Databases : pt[d][n] = "Offline" /\ GroupOf(d, n).status # "UnFull"}
             S == {x \in failed \X Node : /\ x[2] \in Members(GroupOf(x[1], n))
                                          /\ pt[x[1]][x[2]] = "Offline" /\ dn[x[2]] = "alive"}
  <2>1. assign' = assign \union AssignEvents(S, FALSE) /\ hdl' = [hdl EXCEPT ![n] = Idle] /\ UNCHANGED <<metaVars, histVars>>
    BY <1>7 DEF takeoverForRep
  <2>2. MetaInv' /\ Later
    BY <1>0, <2>1, SameMeta
  <2>3. ASSUME NEW x \in S PROVE x \in Db \X Node /\ rgid[x[1]][x[2]] # 0 /\ GroupOf(x[1], x[2]).status # "UnFull"
    <3>1. PICK d \in failed, m \in Node : x = <<d, m>> /\ m \in Members(GroupOf(d, n)) /\ pt[d][m] = "Offline"
      BY <2>3
    <3>2. d \in Db /\ pt[d][n] = "Offline" /\ GroupOf(d, n).status # "UnFull"
      BY <3>1 DEF Databases
    <3>3. rgid[d][n] # 0 /\ rgid[d][m] # 0
      BY <1>0, <3>1, <3>2 DEF MetaInv, PtInv
    <3>4. rgid[d][n] \in 1..Len(rgs[d]) /\ Members(GroupOf(d, n)) \subseteq {p \in Node : rgid[d][p] = rgid[d][n]}
      BY <1>0, <3>2, <3>3, GroupContext DEF MetaInv, GroupOf
    <3>5. rgid[d][m] = rgid[d][n]
      BY <3>1, <3>4
    <3>6. GroupOf(d, m).status # "UnFull"
      BY <3>2, <3>5 DEF GroupOf
    <3> QED BY <3>1, <3>2, <3>3, <3>6
  <2> HIDE DEF S
  <2>4. EventsOK(assign \union AssignEvents(S, FALSE))
    <3>1. PICK T : T = S
      OBVIOUS
    <3>2. EventsOK(assign \union AssignEvents(T, FALSE))
      BY <1>0, <2>3, <3>1, MoreEvents
    <3> QED BY <3>1, <3>2
  <2>5. HandlersOK(hdl')
    BY <1>0, <2>1, IdleState, HandlerMoves
  <2> QED BY <1>0, <1>2, <2>1, <2>2, <2>4, <2>5, Frame
<1>8. CASE getFailedDbPts(n)
  <2>1. /\ o.at = "failed" /\ hdl' = [hdl EXCEPT ![n] = FailOver(n, {d \in Databases : pt[d][n] = "Offline"}, << >>)]
        /\ UNCHANGED <<metaVars, histVars>> /\ assign' = assign
    BY <1>3, <1>8 DEF getFailedDbPts
  <2>2. MetaInv' /\ Later
    BY <1>0, <2>1, SameMeta
  <2>3. hdl[n].place \in BOOLEAN
    BY <1>3, <1>4, <2>1, HandlerKinds DEF Starting
  <2>4. PICK T \in SUBSET Db : T = {d \in Databases : pt[d][n] = "Offline"}
    BY DEF Databases
  <2>5. \A d \in T : rgid[d][n] # 0
    BY <1>0, <2>4 DEF MetaInv, PtInv, Databases
  <2>6. PICK c \in Seq(Command) : c = << >> /\ GoodCmds(c, rgs, rgid, torn')
    BY GoodLists
  <2>7. PICK h : h = FailOver(n, T, c)
    OBVIOUS
  <2>8. h \in HandlerState /\ GoodHandler(h, n, rgs, rgid, torn')
    BY <2>3, <2>5, <2>6, <2>7, FailOverState
  <2>9. hdl' = [hdl EXCEPT ![n] = h]
    BY <2>1, <2>4, <2>6, <2>7
  <2>10. HandlersOK(hdl')
    BY <1>0, <2>8, <2>9, HandlerMoves
  <2> QED BY <1>0, <1>2, <2>1, <2>2, <2>10, Frame
<1>9. CASE processReplication(n)
  <2>1. o.at = "failover" /\ UNCHANGED <<metaVars, histVars>> /\ assign' = assign
    BY <1>3, <1>9 DEF processReplication
  <2>2. MetaInv' /\ Later
    BY <1>0, <2>1, SameMeta
  <2>3. o \in Failing /\ o.place \in BOOLEAN /\ o.todo \in SUBSET Db
    BY <1>4, <2>1, HandlerKinds DEF Failing
  <2>4. \A d \in o.todo : rgid[d][n] # 0
    BY <1>4, <2>1 DEF GoodHandler
  <2>5. ASSUME NEW d \in o.todo, NEW h,
               \/ h = FailOver(n, o.todo \ {d}, << >>)
               \/ h = [at |-> "elect", place |-> o.place, todo |-> o.todo \ {d}, db |-> d]
        PROVE  h \in HandlerState /\ GoodHandler(h, n, rgs, rgid, torn')
    <3>1. PICK T \in SUBSET Db : T = o.todo \ {d}
      BY <2>3
    <3>2. \A x \in T : rgid[x][n] # 0
      BY <2>4, <3>1
    <3>3. CASE h = FailOver(n, o.todo \ {d}, << >>)
      <4>1. PICK c \in Seq(Command) : c = << >> /\ GoodCmds(c, rgs, rgid, torn')
        BY GoodLists
      <4>2. h = FailOver(n, T, c) /\ hdl[n].place \in BOOLEAN
        BY <1>3, <2>3, <3>1, <3>3, <4>1
      <4> QED BY <3>2, <4>1, <4>2, FailOverState
    <3>4. CASE h = [at |-> "elect", place |-> o.place, todo |-> o.todo \ {d}, db |-> d]
      <4>1. d \in Db /\ rgid[d][n] # 0
        BY <2>3, <2>4
      <4>2. h \in Electing /\ h.at = "elect" /\ h.todo = T /\ h.db = d
        BY <2>3, <3>1, <3>4, <4>1 DEF Electing
      <4>3. h \in HandlerState
        BY <4>2 DEF HandlerState
      <4>4. GoodHandler(h, n, rgs, rgid, torn')
        BY <3>2, <4>1, <4>2 DEF GoodHandler
      <4> QED BY <4>3, <4>4
    <3> QED BY <2>5, <3>3, <3>4
  <2>6. HandlersOK(hdl')
    <3>1. CASE hdl' = [hdl EXCEPT ![n] = Idle]
      BY <1>0, <3>1, IdleState, HandlerMoves
    <3>2. CASE \E d \in o.todo :
                 hdl' = [hdl EXCEPT ![n] =
                           IF GroupOf(d, n).master # n THEN FailOver(n, o.todo \ {d}, << >>)
                           ELSE [at |-> "elect", place |-> o.place, todo |-> o.todo \ {d}, db |-> d]]
      <4>1. PICK d, h :
              /\ d \in o.todo
              /\ hdl' = [hdl EXCEPT ![n] = h]
              /\ \/ h = FailOver(n, o.todo \ {d}, << >>)
                 \/ h = [at |-> "elect", place |-> o.place, todo |-> o.todo \ {d}, db |-> d]
        BY <3>2
      <4>2. h \in HandlerState /\ GoodHandler(h, n, rgs, rgid, torn')
        BY <2>5, <4>1
      <4> QED BY <1>0, <4>1, <4>2, HandlerMoves
    <3> QED BY <1>3, <1>9, <3>1, <3>2 DEF processReplication
  <2> QED BY <1>0, <1>2, <2>1, <2>2, <2>6, Frame
<1>10. CASE electRgMaster(n)
  <2>1. PICK d, g : d = o.db /\ g = GroupOf(d, n)
    OBVIOUS
  <2>2. PICK can : can = electable(g, pt[d])
    OBVIOUS
  <2>3. /\ o.at = "elect" /\ UNCHANGED <<metaVars, histVars>> /\ assign' = assign
        /\ hdl' = [hdl EXCEPT ![n] =
                     IF can = {} THEN FailOver(n, o.todo, << >>)
                     ELSE [at |-> "swap", place |-> o.place, todo |-> o.todo, db |-> d, pos |-> Smallest(can), peers |-> g.peers]]
    BY <1>3, <1>10, <2>1, <2>2 DEF electRgMaster
  <2>4. MetaInv' /\ Later /\ torn' = torn
    BY <1>0, <2>3, SameMeta DEF histVars
  <2>5. o \in Electing /\ o.place \in BOOLEAN /\ o.todo \in SUBSET Db /\ d \in Db
    BY <1>4, <2>1, <2>3, HandlerKinds DEF Electing
  <2>6. (\A x \in o.todo : rgid[x][n] # 0) /\ rgid[d][n] # 0
    BY <1>4, <2>1, <2>3 DEF GoodHandler
  <2>7. CASE can = {}
    <3>1. PICK c \in Seq(Command) : c = << >> /\ GoodCmds(c, rgs, rgid, torn')
      BY GoodLists
    <3>2. PICK h : h = FailOver(n, o.todo, c)
      OBVIOUS
    <3>3. h \in HandlerState /\ GoodHandler(h, n, rgs, rgid, torn')
      BY <1>3, <2>5, <2>6, <3>1, <3>2, FailOverState
    <3>4. hdl' = [hdl EXCEPT ![n] = h]
      BY <2>3, <2>7, <3>1, <3>2
    <3>5. HandlersOK(hdl')
      BY <1>0, <3>3, <3>4, HandlerMoves
    <3> QED BY <1>0, <1>2, <2>3, <2>4, <3>5, Frame
  <2>8. CASE can # {}
    <3>1. PICK h : h = [at |-> "swap", place |-> o.place, todo |-> o.todo, db |-> d, pos |-> Smallest(can), peers |-> g.peers]
      OBVIOUS
    <3>2. h.at = "swap" /\ h.todo = o.todo /\ h.db = d /\ h.pos = Smallest(can) /\ h.peers = g.peers
      BY <3>1
    <3>3. GoodPeers(h, rgid[d][n], rgs, rgid, torn) /\ h.pos \in Nat /\ h.peers \in Seq(Node)
      BY <1>0, <2>1, <2>2, <2>5, <2>6, <2>8, <3>2, electRgMasterGood
    <3>4. PICK i \in Nat, p \in Seq(Node) : i = Smallest(can) /\ p = g.peers
      BY <3>2, <3>3
    <3>5. h \in Swapping
      BY <2>5, <3>1, <3>4 DEF Swapping
    <3>6. h \in HandlerState
      BY <3>5 DEF HandlerState
    <3>7. GoodHandler(h, n, rgs, rgid, torn')
      BY <2>4, <2>6, <3>2, <3>3 DEF GoodHandler
    <3>8. hdl' = [hdl EXCEPT ![n] = h]
      BY <2>3, <2>8, <3>1
    <3>9. HandlersOK(hdl')
      BY <1>0, <3>6, <3>7, <3>8, HandlerMoves
    <3> QED BY <1>0, <1>2, <2>3, <2>4, <3>9, Frame
  <2> QED BY <2>7, <2>8
<1>11. CASE swapMaster(n)
  <2>1. PICK d, k : d = o.db /\ k = rgid[d][n]
    OBVIOUS
  <2>2. PICK g : g = [rgs[d][k] EXCEPT !.peers = o.peers]
    OBVIOUS
  <2>3. PICK c : c = [db |-> d, rg |-> k, master |-> g.peers[o.pos], peers |-> electPeers(g, o.pos)]
    OBVIOUS
  <2>4. /\ o.at = "swap" /\ hdl' = [hdl EXCEPT ![n] = FailOver(n, o.todo, <<c>>)]
        /\ UNCHANGED <<metaVars, stale>> /\ assign' = assign
        /\ torn' = IF g.master \in Range(g.peers) THEN torn \union {<<d, k>>} ELSE torn
    BY <1>3, <1>11, <2>1, <2>2, <2>3 DEF swapMaster, GroupOf
  <2>5. o \in Swapping /\ o.place \in BOOLEAN /\ o.todo \in SUBSET Db /\ d \in Db /\ o.peers \in Seq(Node)
    BY <1>4, <2>1, <2>4, HandlerKinds DEF Swapping
  <2>6. (\A x \in o.todo : rgid[x][n] # 0) /\ GoodPeers(o, k, rgs, rgid, torn)
    BY <2>1, <2>4, <1>3 DEF GoodHandler, Inv, CmdInv
  <2>7. k \in 1..Len(rgs[d]) /\ rgs[d][k].status # "UnFull"
    BY <2>1, <2>6 DEF GoodPeers
  <2>8. MetaInv' /\ Later
    <3>1. CASE torn' = torn
      BY <1>0, <2>4, <3>1, SameMeta DEF histVars
    <3>2. CASE torn' = torn \union {<<d, k>>}
      BY <1>0, <2>4, <2>5, <2>7, <3>2, TornMeta
    <3> QED BY <2>4, <3>1, <3>2
  <2>9. GoodCmd(c, rgs, rgid, torn')
    <3>1. PICK T : T = torn'
      OBVIOUS
    <3>2. torn \subseteq T /\ (g.master \in Range(g.peers) => <<d, k>> \in T)
      BY <2>4, <3>1
    <3>3. GoodCmd([db |-> d, rg |-> k, master |-> g.peers[o.pos], peers |-> electPeers(g, o.pos)], rgs, rgid, T)
      BY <1>0, <2>1, <2>2, <2>5, <2>6, <3>2, swapMasterGood
    <3> QED BY <2>3, <3>1, <3>3
  <2>10. PICK s \in Seq(Command) : s = <<c>> /\ GoodCmds(s, rgs, rgid, torn')
    BY <2>9, GoodLists
  <2>11. PICK h : h = FailOver(n, o.todo, s)
    OBVIOUS
  <2>12. h \in HandlerState /\ GoodHandler(h, n, rgs, rgid, torn')
    BY <1>3, <2>5, <2>6, <2>10, <2>11, FailOverState
  <2>13. hdl' = [hdl EXCEPT ![n] = h]
    BY <2>4, <2>10, <2>11
  <2>14. HandlersOK(hdl')
    BY <1>0, <2>12, <2>13, HandlerMoves
  <2> QED BY <1>0, <1>2, <2>4, <2>8, <2>14, Frame
<1>12. CASE applyReplication(n)
  <2>1. /\ o.at = "failover" /\ o.cmd # << >> /\ UpdateReplication(o.cmd[1]) /\ hdl' = [hdl EXCEPT ![n] = [o EXCEPT !.cmd = << >>]]
        /\ UNCHANGED <<nodes, dn, pt, rgid>> /\ assign' = assign /\ torn' = torn /\ stale' = stale
    BY <1>3, <1>12 DEF applyReplication, histVars
  <2>2. o \in Failing
    BY <1>4, <2>1, HandlerKinds
  <2>3. GoodCmd(o.cmd[1], rgs, rgid, torn)
    <3>1. o.cmd \in Seq(Command) /\ GoodCmds(o.cmd, rgs, rgid, torn)
      BY <1>4, <2>1, <2>2 DEF Failing, GoodHandler
    <3>2. 1 \in DOMAIN o.cmd
      BY <2>1, <3>1, LenProperties, EmptySeq
    <3> QED BY <3>1, <3>2 DEF GoodCmds
  <2>4. MetaInv' /\ Later
    BY <1>0, <2>1, <2>3, UpdateReplicationKeeps
  <2>5. PICK c \in Seq(Command) : c = << >> /\ GoodCmds(c, rgs, rgid, torn')
    BY GoodLists
  <2>6. PICK h : h = [o EXCEPT !.cmd = c]
    OBVIOUS
  <2>7. h \in Failing /\ h.at = "failover" /\ h.cmd = c /\ h.todo = o.todo
    BY <2>2, <2>6 DEF Failing
  <2>8. h \in HandlerState
    BY <2>7 DEF HandlerState
  <2>9. GoodHandler(h, n, rgs, rgid, torn')
    BY <1>4, <2>1, <2>5, <2>7 DEF GoodHandler
  <2>10. hdl' = [hdl EXCEPT ![n] = h]
    BY <2>1, <2>5, <2>6
  <2>11. HandlersOK(hdl')
    BY <1>0, <2>8, <2>9, <2>10, HandlerMoves
  <2> QED BY <1>0, <1>2, <2>1, <2>4, <2>11, Frame
<1> QED BY <1>6, <1>7, <1>8, <1>9, <1>10, <1>11, <1>12 DEF Handler

\* An assign event ends.
LEMMA AssignEndStep ==
    ASSUME Inv, NEW a \in assign, AssignEnd(a)
    PROVE  Inv'
<1>t. torn' = torn /\ stale' = stale /\ stage' = stage
  BY DEF AssignEnd, histVars
<1>0. /\ MetaInv /\ CmdsOK(bal) /\ CmdsOK(oper) /\ HandlersOK(hdl) /\ EventsOK(assign) /\ stage \in Stages
      /\ up \subseteq 1..nodes /\ seen \subseteq 1..nodes /\ queue \in Seq(MemberEvent) /\ nodes \in 1..N
  BY <1>t, InvParts
<1>1. /\ UNCHANGED <<nodes, dn, rgid, up, seen, queue, hdl, bal, oper>> /\ assign' = assign \ {a}
      /\ UpdatePtInfo(a.db, a.node) \/ UNCHANGED <<pt, rgs>>
  BY DEF AssignEnd
<1>2. /\ CmdsOK(bal') /\ CmdsOK(oper') /\ HandlersOK(hdl') /\ up' \subseteq 1..nodes' /\ seen' \subseteq 1..nodes'
      /\ queue' \in Seq(MemberEvent) /\ stage' \in Stages
  BY <1>t, <1>0, <1>1
<1>3. EventsOK(assign')
  BY <1>0, <1>1 DEF EventsOK
<1>4. a.db \in Db /\ a.node \in Node /\ rgid[a.db][a.node] # 0 /\ GroupOf(a.db, a.node).status # "UnFull"
  BY <1>0 DEF EventsOK
<1>5. PICK d \in Db, n \in Node : d = a.db /\ n = a.node
  BY <1>4
<1>6. CASE UpdatePtInfo(a.db, a.node)
  <2>1. UpdatePtInfo(d, n) /\ rgid[d][n] # 0 /\ GroupOf(d, n).status # "UnFull"
    BY <1>4, <1>5, <1>6
  <2>2. MetaInv' /\ Later
    BY <1>t, <1>0, <1>1, <2>1, UpdatePtInfoKeeps
  <2> QED BY <1>0, <1>2, <1>3, <2>2, Frame
<1>7. CASE UNCHANGED <<pt, rgs>>
  <2>1. MetaInv' /\ Later
    BY <1>t, <1>0, <1>1, <1>7, SameMeta DEF metaVars, histVars
  <2> QED BY <1>0, <1>2, <1>3, <2>1, Frame
<1> QED BY <1>1, <1>6, <1>7

\* The balancer chooses commands and sends them.
LEMMA BalancerSteps ==
    ASSUME Inv, BalanceSelect \/ BalanceApply
    PROVE  Inv'
<1>t. torn' = torn /\ stale' = stale /\ stage' = stage
  BY DEF BalanceSelect, BalanceApply, histVars
<1>0. /\ MetaInv /\ CmdsOK(bal) /\ CmdsOK(oper) /\ HandlersOK(hdl) /\ EventsOK(assign) /\ stage \in Stages
      /\ up \subseteq 1..nodes /\ seen \subseteq 1..nodes /\ queue \in Seq(MemberEvent) /\ nodes \in 1..N
  BY <1>t, InvParts
<1>1. UNCHANGED <<nodes, dn, pt, rgid, up, seen, queue, hdl, assign, oper>>
  BY DEF BalanceSelect, BalanceApply, metaVars
<1>2. /\ CmdsOK(oper') /\ HandlersOK(hdl') /\ EventsOK(assign') /\ up' \subseteq 1..nodes' /\ seen' \subseteq 1..nodes'
      /\ queue' \in Seq(MemberEvent) /\ stage' \in Stages
  BY <1>t, <1>0, <1>1
<1>3. CASE BalanceSelect
  <2>1. PICK masters \in Walks : bal' = selectUpdateRGEvents(masters)
    BY <1>3 DEF BalanceSelect
  <2>2. CmdsOK(bal')
    BY <1>t, <1>0, <2>1, selectUpdateRGEventsGood DEF CmdsOK
  <2>3. MetaInv' /\ Later
    BY <1>0, <1>3, SameMeta DEF BalanceSelect
  <2> QED BY <1>0, <1>2, <2>2, <2>3, Frame
<1>4. CASE BalanceApply
  <2>1. bal # << >> /\ UpdateReplication(Head(bal)) /\ bal' = Tail(bal)
    BY <1>4 DEF BalanceApply
  <2>2. bal \in Seq(Command) /\ GoodCmds(bal, rgs, rgid, torn)
    BY <1>t, <1>0 DEF CmdsOK
  <2>3. /\ Len(bal) \in Nat \ {0} /\ DOMAIN bal = 1..Len(bal) /\ Head(bal) = bal[1]
        /\ bal' \in Seq(Command) /\ Len(bal') = Len(bal) - 1 /\ \A i \in 1..Len(bal') : bal'[i] = bal[i + 1]
    BY <2>1, <2>2, LenProperties, EmptySeq, HeadTailProperties
  <2>4. 1 \in DOMAIN bal /\ \A i \in 1..Len(bal') : i + 1 \in DOMAIN bal
    BY <2>3
  <2>5. GoodCmd(Head(bal), rgs, rgid, torn)
    BY <2>2, <2>3, <2>4 DEF GoodCmds
  <2>6. DOMAIN bal' = 1..Len(bal')
    BY <2>3, LenProperties
  <2>7. GoodCmds(bal', rgs, rgid, torn)
    BY <2>2, <2>3, <2>4, <2>6 DEF GoodCmds
  <2>8. CmdsOK(bal')
    BY <1>t, <2>3, <2>7 DEF CmdsOK
  <2>9. PICK c : c = Head(bal)
    OBVIOUS
  <2>10. MetaInv' /\ Later
    BY <1>t, <1>0, <1>1, <2>1, <2>5, <2>9, UpdateReplicationKeeps
  <2> QED BY <1>0, <1>2, <2>8, <2>10, Frame
<1> QED BY <1>3, <1>4

\* The operator does the same, for a full group.
LEMMA OperatorSteps ==
    ASSUME ~AnyGroup, Inv,
           ModifyApply \/ \E d \in Db, m \in Node : \E i \in DOMAIN rgs[d] : ModifyRepDBMasterPt(d, i, m)
    PROVE  Inv'
<1>t. torn' = torn /\ stale' = stale /\ stage' = stage
  BY DEF ModifyApply, ModifyRepDBMasterPt, histVars
<1>0. /\ MetaInv /\ CmdsOK(bal) /\ CmdsOK(oper) /\ HandlersOK(hdl) /\ EventsOK(assign) /\ stage \in Stages
      /\ up \subseteq 1..nodes /\ seen \subseteq 1..nodes /\ queue \in Seq(MemberEvent) /\ nodes \in 1..N
  BY <1>t, InvParts
<1>1. UNCHANGED <<nodes, dn, pt, rgid, up, seen, queue, hdl, assign, bal>>
  BY DEF ModifyApply, ModifyRepDBMasterPt, metaVars
<1>2. /\ CmdsOK(bal') /\ HandlersOK(hdl') /\ EventsOK(assign') /\ up' \subseteq 1..nodes' /\ seen' \subseteq 1..nodes'
      /\ queue' \in Seq(MemberEvent) /\ stage' \in Stages
  BY <1>t, <1>0, <1>1
<1>3. CASE ModifyApply
  <2>1. oper # << >> /\ UpdateReplication(oper[1]) /\ oper' = << >>
    BY <1>3 DEF ModifyApply
  <2>2. oper \in Seq(Command) /\ GoodCmds(oper, rgs, rgid, torn)
    BY <1>t, <1>0 DEF CmdsOK
  <2>3. 1 \in DOMAIN oper
    BY <2>1, <2>2, LenProperties, EmptySeq
  <2>4. GoodCmd(oper[1], rgs, rgid, torn)
    BY <2>2, <2>3 DEF GoodCmds
  <2>5. CmdsOK(oper')
    BY <2>1, GoodLists DEF CmdsOK
  <2>6. PICK c : c = oper[1]
    OBVIOUS
  <2>7. MetaInv' /\ Later
    BY <1>t, <1>0, <1>1, <2>1, <2>4, <2>6, UpdateReplicationKeeps
  <2> QED BY <1>0, <1>2, <2>5, <2>7, Frame
<1>4. ASSUME NEW d \in Db, NEW m \in Node, NEW i \in DOMAIN rgs[d], ModifyRepDBMasterPt(d, i, m)
      PROVE  Inv'
  <2>1. /\ m \in Range(rgs[d][i].peers) /\ rgs[d][i].status # "UnFull" /\ UNCHANGED <<metaVars, histVars>>
        /\ oper' = << [db |-> d, rg |-> i, master |-> m, peers |-> GenerateNewPeer(rgs[d][i], m)] >>
    BY <1>4 DEF ModifyRepDBMasterPt
  <2>2. i \in 1..Len(rgs[d])
    BY <1>0, GroupContext DEF MetaInv
  <2>3. PICK k \in DOMAIN rgs[d][i].peers : m = rgs[d][i].peers[k]
    BY <2>1 DEF Range
  <2>4. GoodCmd([db |-> d, rg |-> i, master |-> m, peers |-> GenerateNewPeer(rgs[d][i], m)], rgs, rgid, torn)
    BY <1>0, <2>1, <2>2, <2>3, NewPeerGood
  <2>5. CmdsOK(oper')
    BY <1>t, <2>1, <2>4, GoodLists DEF CmdsOK
  <2>6. MetaInv' /\ Later
    BY <1>0, <2>1, SameMeta
  <2> QED BY <1>0, <1>2, <2>5, <2>6, Frame
<1> QED BY <1>3, <1>4

\* A step of nobody.
LEMMA StutterStep ==
    ASSUME Inv, UNCHANGED vars
    PROVE  Inv'
<1>t. torn' = torn /\ stale' = stale /\ stage' = stage
  BY DEF vars, histVars
<1>0. /\ MetaInv /\ CmdsOK(bal) /\ CmdsOK(oper) /\ HandlersOK(hdl) /\ EventsOK(assign) /\ stage \in Stages
      /\ up \subseteq 1..nodes /\ seen \subseteq 1..nodes /\ queue \in Seq(MemberEvent) /\ nodes \in 1..N
  BY <1>t, InvParts
<1>1. UNCHANGED <<metaVars, histVars>> /\ UNCHANGED <<nodes, up, seen, queue, hdl, assign, bal, oper>>
  BY DEF vars, metaVars
<1>2. MetaInv' /\ Later
  BY <1>0, <1>1, SameMeta
<1>3. /\ CmdsOK(bal') /\ CmdsOK(oper') /\ HandlersOK(hdl') /\ EventsOK(assign')
      /\ up' \subseteq 1..nodes' /\ seen' \subseteq 1..nodes' /\ queue' \in Seq(MemberEvent) /\ stage' \in Stages
  BY <1>t, <1>0, <1>1
<1> QED BY <1>0, <1>2, <1>3, Frame

\* At the start the groups of the old databases are full and Health, or UnFull.
LEMMA InitInv ==
    ASSUME Init
    PROVE  Inv
<1> DEFINE s == NodeHardCreateDBRG(First)
           full(i) == s.rg[i].status # "UnFull"
           G(i) == IF full(i) THEN [s.rg[i] EXCEPT !.status = "Health"] ELSE s.rg[i]
<1>1. /\ nodes = First /\ dn = [n \in Node |-> IF n <= First THEN "alive" ELSE "none"]
      /\ pt = [d \in Db |-> [n \in Node |->
                 IF d \notin Old \/ n > First THEN "none" ELSE IF full(s.id[n]) THEN "Online" ELSE "Offline"]]
      /\ rgs = [d \in Db |-> IF d \notin Old THEN << >> ELSE [i \in DOMAIN s.rg |-> G(i)]]
      /\ rgid = [d \in Db |-> [n \in Node |-> IF d \in Old THEN s.id[n] ELSE 0]]
  BY DEF Init
<1>2. /\ up = 1..First /\ seen = 1..First /\ queue = << >> /\ hdl = [n \in Node |-> Idle]
      /\ assign = {} /\ bal = << >> /\ oper = << >> /\ torn = {} /\ stale = {}
      /\ stage = [d \in Db |-> IF d \in Old THEN "done" ELSE "none"]
  BY DEF Init
<1>3. First \in 1..N /\ N \in Nat /\ Node = 1..N /\ ReplicasN \in Nat \ {0, 1} /\ Old \subseteq Db
  BY ReplicaAssumption DEF Node
<1>4. Sound(s.rg, s.id, First, {}) /\ s.rg # << >> /\ \A i \in 1..Len(s.rg) : s.rg[i].status \in {"UnFull", "SubHealth"}
  <2>1. First \in Node
    BY <1>3
  <2>2. PICK u : u = NodeHardCreateDBRG(First)
    OBVIOUS
  <2>3. Sound(u.rg, u.id, First, {}) /\ u.rg # << >> /\ \A i \in 1..Len(u.rg) : u.rg[i].status \in {"UnFull", "SubHealth"}
    BY <2>1, <2>2, CreateFacts
  <2> QED BY <2>2, <2>3
<1> HIDE DEF s
<1>5. /\ s.rg \in Seq(Group) /\ s.id \in [Node -> 0..N] /\ Len(s.rg) \in Nat /\ DOMAIN s.rg = 1..Len(s.rg) /\ Len(s.rg) # 0
      /\ \A i \in 1..Len(s.rg) : s.rg[i] \in Group /\ GroupSound(s.rg[i], i, s.id)
  <2>1. s.rg \in Seq(Group) /\ s.id \in [Node -> 0..N] /\ \A i \in 1..Len(s.rg) : GroupSound(s.rg[i], i, s.id)
    BY <1>4 DEF Sound, GroupState
  <2> QED BY <1>4, <2>1, LenProperties, ElementOfSeq, EmptySeq
<1>6. ASSUME NEW i \in 1..Len(s.rg)
      PROVE  /\ G(i) \in Group /\ GroupSound(G(i), i, s.id) /\ (G(i).status # "UnFull" <=> full(i))
             /\ Members(G(i)) = {n \in Node : s.id[n] = i}
             /\ full(i) => G(i).status = "Health" /\ Cardinality(Members(G(i))) = ReplicasN
  <2>1. s.rg[i] \in Group /\ GroupSound(s.rg[i], i, s.id)
    BY <1>5
  <2>2. PICK h : h = G(i)
    OBVIOUS
  <2>3. /\ h \in Group /\ h.master = s.rg[i].master /\ h.peers = s.rg[i].peers
        /\ h.status = IF full(i) THEN "Health" ELSE s.rg[i].status
    BY <2>1, <2>2 DEF Group
  <2>4. Members(h) = Members(s.rg[i]) /\ (h.status # "UnFull" <=> full(i)) /\ (full(i) => h.status = "Health")
    BY <2>3 DEF Members
  <2>5. GroupSound(h, i, s.id)
    BY <2>1, <2>3, <2>4 DEF GroupSound
  <2>6. ASSUME full(i) PROVE Cardinality(Members(h)) = ReplicasN
    <3>1. Distinct(h.master, h.peers) /\ Len(h.peers) < ReplicasN /\ ~(Len(h.peers) + 1 < ReplicasN)
      BY <2>4, <2>5, <2>6 DEF GroupSound
    <3>2. h.master \in Node /\ h.peers \in Seq(Node) /\ Len(h.peers) \in Nat
      BY <2>3, LenProperties DEF Group
    <3>3. Cardinality(Members(h)) = Len(h.peers) + 1
      BY <3>1, <3>2, MembersSize DEF Members
    <3> QED BY <1>3, <3>1, <3>2, <3>3
  <2>7. Members(h) = {n \in Node : s.id[n] = i}
    BY <2>5 DEF GroupSound
  <2> QED BY <2>2, <2>3, <2>4, <2>5, <2>6, <2>7
<1> DEFINE q == [i \in 1..Len(s.rg) |-> G(i)]
<1>7. q \in Seq(Group) /\ Len(q) = Len(s.rg) /\ q # << >> /\ \A i \in 1..Len(s.rg) : q[i] = G(i)
  <2> HIDE DEF G
  <2>1. q \in [1..Len(s.rg) -> Group]
    BY <1>6
  <2>2. \A i \in 1..Len(s.rg) : q[i] = G(i)
    OBVIOUS
  <2> HIDE DEF q
  <2>3. PICK l, f : l = Len(s.rg) /\ f = q
    OBVIOUS
  <2>4. l \in Nat /\ f \in [1..l -> Group]
    BY <1>5, <2>1, <2>3
  <2>5. f \in Seq(Group) /\ Len(f) = l
    BY <2>4
  <2>6. f # << >>
    BY <1>5, <2>3, <2>5, EmptySeq
  <2> QED BY <2>2, <2>3, <2>5, <2>6
<1> HIDE DEF G
<1>8. \A d \in Db : rgs[d] = IF d \in Old THEN q ELSE << >>
  BY <1>1, <1>5
<1> HIDE DEF q, full
<1>9. \A d \in Db, n \in Node : rgid[d][n] = IF d \in Old THEN s.id[n] ELSE 0
  BY <1>1
<1>10. \A d \in Db, n \in Node :
         pt[d][n] = IF d \notin Old \/ n > First THEN "none" ELSE IF full(s.id[n]) THEN "Online" ELSE "Offline"
  BY <1>1
<1>11. TypeMeta
  <2>1. nodes \in First..N /\ dn \in [Node -> {"none", "alive", "failed"}]
    BY <1>1, <1>3
  <2>2. pt \in [Db -> [Node -> Status]]
    BY <1>1 DEF Status
  <2>3. << >> \in Seq(Group)
    BY EmptySeq
  <2>4. rgs \in [Db -> Seq(Group)]
    <3>1. rgs = [d \in Db |-> rgs[d]]
      BY <1>1
    <3>2. \A d \in Db : rgs[d] \in Seq(Group)
      BY <1>7, <1>8, <2>3
    <3> QED BY <3>1, <3>2
  <2>5. rgid \in [Db -> [Node -> 0..N]]
    BY <1>1, <1>3, <1>5
  <2> QED BY <1>2, <2>1, <2>2, <2>4, <2>5 DEF TypeMeta
<1>12. ASSUME NEW d \in Old PROVE rgid[d] = s.id
  BY <1>1, <1>3, <1>5
<1>13. \A n \in Node : (n <= First => s.id[n] \in 1..Len(s.rg)) /\ (~(n <= First) => s.id[n] = 0)
  BY <1>4 DEF Sound
<1>14. GroupsInv
  <2> SUFFICES ASSUME NEW d \in Db
               PROVE  IF rgs[d] # << >> THEN Sound(rgs[d], rgid[d], nodes, {}) ELSE rgid[d] = [n \in Node |-> 0]
    <3>1. \A d \in Db : Torn(d) = {}
      BY <1>2 DEF Torn
    <3> QED BY <3>1 DEF GroupsInv, Exists
  <2>1. CASE d \in Old
    <3>1. Len(q) <= First
      BY <1>4, <1>7 DEF Sound
    <3>2. \A i \in 1..Len(q) : GroupSound(q[i], i, s.id)
      BY <1>6, <1>7
    <3>3. Sound(q, s.id, First, {})
      BY <1>4, <1>5, <1>7, <3>1, <3>2 DEF Sound, GroupState
    <3> QED BY <1>1, <1>7, <1>8, <1>12, <2>1, <3>3
  <2>2. CASE d \notin Old
    BY <1>1, <1>8, <2>2
  <2> QED BY <2>1, <2>2
<1>15. PtInv
  <2> SUFFICES ASSUME NEW d \in Db, NEW n \in Node
               PROVE  /\ pt[d][n] = "none" <=> rgid[d][n] = 0
                      /\ pt[d][n] = "Online" => rgs[d][rgid[d][n]].status # "UnFull"
    BY DEF PtInv, GroupOf
  <2>0. n \in Int /\ First \in Int
    BY <1>3
  <2>1. CASE d \notin Old
    BY <1>9, <1>10, <2>1
  <2>2. CASE d \in Old /\ n <= First
    <3>1. s.id[n] \in 1..Len(s.rg) /\ s.id[n] # 0 /\ rgid[d][n] = s.id[n]
      BY <1>5, <1>9, <1>13, <2>2
    <3>2. ~(n > First)
      BY <2>0, <2>2
    <3>3. pt[d][n] = IF full(s.id[n]) THEN "Online" ELSE "Offline"
      BY <1>10, <2>2, <3>2
    <3>4. rgs[d][rgid[d][n]] = G(s.id[n])
      BY <1>7, <1>8, <2>2, <3>1
    <3> QED BY <1>6, <3>1, <3>3, <3>4
  <2>3. CASE d \in Old /\ ~(n <= First)
    <3>1. n > First
      BY <2>0, <2>3
    <3> QED BY <1>9, <1>10, <1>13, <2>3, <3>1
  <2> QED BY <2>1, <2>2, <2>3
<1>16. HealthIsMajority
  <2> SUFFICES ASSUME NEW d \in Db, NEW i \in 1..Len(rgs[d]) PROVE HealthOf(rgs[d][i], pt[d], <<d, i>> \in stale)
    BY <1>11, <1>14, HealthGroups
  <2>1. d \in Old
    BY <1>8, EmptySeq
  <2>2. i \in 1..Len(s.rg) /\ rgs[d][i] = G(i)
    BY <1>7, <1>8, <2>1
  <2>3. CASE full(i)
    <3>1. \A n \in Members(G(i)) : n \in Node /\ s.id[n] = i /\ i # 0
      BY <1>5, <1>6, <2>2
    <3>2. ASSUME NEW n \in Members(G(i)) PROVE pt[d][n] = "Online"
      <4>0. n \in Node /\ s.id[n] = i /\ i # 0 /\ n \in Int /\ First \in Int
        BY <1>3, <3>1
      <4>1. n <= First
        BY <1>13, <4>0
      <4>2. ~(n > First)
        BY <4>0, <4>1
      <4> QED BY <1>10, <2>1, <2>3, <4>0, <4>2
    <3>3. Online(pt[d], Members(G(i))) = Members(G(i))
      BY <3>2 DEF Online
    <3>4. Cardinality(Members(G(i))) = ReplicasN /\ G(i).status = "Health"
      BY <1>6, <2>2, <2>3
    <3>5. 2 * ReplicasN > ReplicasN
      BY <1>3
    <3> QED BY <2>2, <3>3, <3>4, <3>5 DEF HealthOf
  <2>4. CASE ~full(i)
    BY <1>6, <2>2, <2>4 DEF HealthOf
  <2> QED BY <2>3, <2>4
<1>17. TypeRest
  <2>1. << >> \in Seq(MemberEvent) /\ << >> \in Seq(Command)
    BY EmptySeq
  <2>2. hdl \in [Node -> HandlerState]
    BY <1>2, IdleState
  <2>3. stage \in [Db -> {"none", "view", "load", "done"}]
    BY <1>2
  <2> QED BY <1>1, <1>2, <2>1, <2>2, <2>3 DEF TypeRest
<1>18. CmdInv
  <2>1. GoodCmds(bal, rgs, rgid, torn) /\ GoodCmds(oper, rgs, rgid, torn)
    BY <1>2, GoodLists
  <2>2. \A n \in Node : GoodHandler(hdl[n], n, rgs, rgid, torn)
    BY <1>2, IdleState
  <2> QED BY <2>1, <2>2 DEF CmdInv
<1>19. AssignInv
  BY <1>2 DEF AssignInv
<1> QED BY <1>11, <1>14, <1>15, <1>16, <1>17, <1>18, <1>19 DEF Inv, MetaInv

\* Every step keeps the invariant.
LEMMA Inductive ==
    ASSUME ~AnyGroup, Inv, [Next]_vars
    PROVE  Inv'
<1>1. CASE UNCHANGED vars
  BY <1>1, StutterStep
<1>2. CASE Next
  BY <1>2, RegisterStep, CheckEventsStep, BalancerSteps, OperatorSteps, CreateDatabaseSteps, MemberSteps, HandlerSteps, AssignEndStep
     DEF Next
<1> QED BY <1>1, <1>2

\* As long as the operator names full groups only, the invariant holds.
LEMMA InvAlways ==
    ASSUME ~AnyGroup
    PROVE  Spec => []Inv
<1>1. Init => Inv
  BY InitInv
<1>2. Inv /\ [Next]_vars => Inv'
  BY Inductive
<1> QED BY <1>1, <1>2, PTL DEF Spec

-----------------------------------------------------------------------------
(* Theorems.                                                               *)

\* No group loses or gains a member through a command that carries a list of
\* peers read earlier (updateReplication, store.go), whichever the order of
\* registrations, failures, the handler, the balancer and the operator, for
\* any number of nodes, databases and replicas: a group is full before a
\* command about it is chosen, and a full group has all its members.  The one
\* exception is a group whose master and peers the handler of a failed node read
\* on both sides of another command (getReplicationGroup returns the live group
\* without the lock): even that one never names a partition of another group.
THEOREM MembersKeptAlways == ~AnyGroup => (Spec => []MembersKept)
<1> SUFFICES ASSUME ~AnyGroup PROVE Spec => []MembersKept
  OBVIOUS
<1>1. Inv => MembersKept
  <2> SUFFICES ASSUME Inv, NEW d \in Db, NEW i \in DOMAIN rgs[d]
               PROVE  /\ Members(rgs[d][i]) \subseteq {n \in Node : rgid[d][n] = i}
                      /\ <<d, i>> \notin torn =>
                            /\ Members(rgs[d][i]) = {n \in Node : rgid[d][n] = i}
                            /\ Cardinality(Members(rgs[d][i])) = Len(rgs[d][i].peers) + 1
                            /\ rgs[d][i].status = "UnFull" <=> Len(rgs[d][i].peers) + 1 < ReplicasN
    BY DEF MembersKept
  <2>1. /\ rgs[d][i] \in Group /\ Members(rgs[d][i]) \subseteq {n \in Node : rgid[d][n] = i}
        /\ <<d, i>> \notin torn => GroupSound(rgs[d][i], i, rgid[d])
    BY GroupContext DEF Inv, MetaInv
  <2>2. ASSUME <<d, i>> \notin torn PROVE Cardinality(Members(rgs[d][i])) = Len(rgs[d][i].peers) + 1
    <3>1. PICK g \in Group : g = rgs[d][i] /\ Distinct(g.master, g.peers)
      BY <2>1, <2>2 DEF GroupSound
    <3>2. g.master \in Node /\ g.peers \in Seq(Node)
      BY DEF Group
    <3>3. Cardinality(Members(g)) = Len(g.peers) + 1
      BY <3>1, <3>2, MembersSize DEF Members
    <3> QED BY <3>1, <3>3
  <2> QED BY <2>1, <2>2 DEF GroupSound
<1> QED BY <1>1, InvAlways, PTL

\* A full group is Health when more than half of its partitions are online,
\* and only then unless its last loss of a partition fell into CREATE DATABASE
\* (nextHealth is skipped until the database is entered), although its status is
\* stepped only by the partition that changes and against peers that others replace.
THEOREM HealthIsMajorityAlways == ~AnyGroup => (Spec => []HealthIsMajority)
<1> SUFFICES ASSUME ~AnyGroup PROVE Spec => []HealthIsMajority
  OBVIOUS
<1>1. Inv => HealthIsMajority
  BY DEF Inv, MetaInv
<1> QED BY <1>1, InvAlways, PTL

\* The types of the metadata and of what is under way, and no group ever has
\* more peers than replicas.
THEOREM TypeOKAlways == ~AnyGroup => (Spec => []TypeOK)
<1> SUFFICES ASSUME ~AnyGroup PROVE Spec => []TypeOK
  OBVIOUS
<1>1. Inv => TypeOK
  <2> SUFFICES ASSUME Inv PROVE TypeOK
    OBVIOUS
  <2>1. TypeMeta /\ TypeRest /\ GroupsInv
    BY DEF Inv, MetaInv
  <2>2. \A d \in Db, i \in 1..N : i \in DOMAIN rgs[d] => rgs[d][i] \in Group /\ Len(rgs[d][i].peers) < ReplicasN
    BY <2>1, GroupContext
  <2>3. Range(bal) \union Range(oper) \subseteq Command
    <3>1. \A i \in DOMAIN bal : bal[i] \in Command
      BY DEF Inv, CmdInv, GoodCmds, GoodCmd
    <3>2. \A i \in DOMAIN oper : oper[i] \in Command
      BY DEF Inv, CmdInv, GoodCmds, GoodCmd
    <3> QED BY <3>1, <3>2 DEF Range
  <2> QED BY <2>1, <2>2, <2>3 DEF TypeOK, TypeMeta, TypeRest, Status
<1> QED BY <1>1, InvAlways, PTL
=============================================================================
