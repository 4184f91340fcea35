---------------------------- MODULE SequenceFacts ----------------------------
(***************************************************************************)
(* Facts about naturals, finite sets and sequences that the proofs of the  *)
(* components share.  The library's induction theorems have an operator    *)
(* as a parameter; here induction is stated for a set and derived from     *)
(* the well-foundedness of < on Nat, so that a leaf can use it.            *)
(***************************************************************************)
EXTENDS Integers, Sequences, FiniteSets, SequencesExt, FiniteSetTheorems,
        SequenceTheorems, TLAPS

\* Every non-empty set of naturals has a least element.
LEMMA LeastNat ==
    ASSUME NEW S \in SUBSET Nat, S # {}
    PROVE  \E x \in S : \A y \in S : x <= y
<1> DEFINE R == OpToRel(<, Nat)
<1>1. PICK x \in S : \A y \in S : ~(<<y, x>> \in R)
  BY NatLessThanWellFounded, WFMin
<1>2. ASSUME NEW y \in S PROVE x <= y
  <2>1. ~(<<y, x>> \in Nat \X Nat /\ y < x)
    BY <1>1 DEF OpToRel
  <2> QED BY <2>1
<1> QED BY <1>2

\* Induction over the naturals: a set that has 0 and every successor has them all.
LEMMA NatSetInduction ==
    ASSUME NEW S, 0 \in S, \A n \in Nat : n \in S => n + 1 \in S
    PROVE  \A n \in Nat : n \in S
<1> DEFINE T == Nat \ S
<1> SUFFICES ASSUME T # {} PROVE FALSE
  OBVIOUS
<1>1. PICK x \in T : \A y \in T : x <= y
  BY LeastNat
<1>2. x # 0 /\ x - 1 \in Nat
  OBVIOUS
<1>3. x - 1 \notin T
  BY <1>1, <1>2
<1> QED BY <1>2, <1>3

\* A finite non-empty set of integers has a greatest element.
LEMMA GreatestInt ==
    ASSUME NEW S \in SUBSET Int, IsFiniteSet(S), S # {}
    PROVE  \E x \in S : \A y \in S : y <= x
<1> DEFINE P == {n \in Nat : \A T \in SUBSET Int :
                    IsFiniteSet(T) /\ Cardinality(T) = n /\ T # {} =>
                        \E x \in T : \A y \in T : y <= x}
<1>1. 0 \in P
  BY FS_EmptySet
<1>2. ASSUME NEW n \in Nat, n \in P PROVE n + 1 \in P
  <2> SUFFICES ASSUME NEW T \in SUBSET Int, IsFiniteSet(T), Cardinality(T) = n + 1, T # {}
               PROVE  \E x \in T : \A y \in T : y <= x
    OBVIOUS
  <2> PICK z \in T : TRUE
    OBVIOUS
  <2> DEFINE U == T \ {z}
  <2>1. IsFiniteSet(U) /\ Cardinality(U) = n
    <3>1. Cardinality(U) = Cardinality(T) - 1
      BY FS_RemoveElement
    <3> QED BY <3>1, FS_RemoveElement
  <2>2. CASE U = {}
    BY <2>2
  <2>3. CASE U # {}
    <3>1. PICK x \in U : \A y \in U : y <= x
      BY <1>2, <2>1, <2>3
    <3>2. CASE z <= x
      BY <3>1, <3>2
    <3>3. CASE ~(z <= x)
      <4>1. \A y \in T : y <= z
        BY <3>1, <3>3
      <4> QED BY <4>1
    <3> QED BY <3>2, <3>3
  <2> QED BY <2>2, <2>3
<1> HIDE DEF P
<1>3. \A n \in Nat : n \in P
  BY <1>1, <1>2, NatSetInduction
<1>4. Cardinality(S) \in P
  BY <1>3, FS_CardinalityType
<1> QED BY <1>4 DEF P

\* A finite set of integers can be enumerated in ascending order.
LEMMA AscendingExists ==
    ASSUME NEW S \in SUBSET Int, IsFiniteSet(S)
    PROVE  \E s \in [1 .. Cardinality(S) -> S] :
              \A i, j \in 1 .. Cardinality(S) : i < j => s[i] < s[j]
<1> DEFINE Asc(T, n) == \E s \in [1 .. n -> T] : \A i, j \in 1 .. n : i < j => s[i] < s[j]
           P == {n \in Nat : \A T \in SUBSET Int :
                    IsFiniteSet(T) /\ Cardinality(T) = n => Asc(T, n)}
<1>1. 0 \in P
  <2> SUFFICES ASSUME NEW T \in SUBSET Int PROVE Asc(T, 0)
    OBVIOUS
  <2> DEFINE e == [i \in 1 .. 0 |-> 0]
  <2>1. e \in [1 .. 0 -> T] /\ \A i, j \in 1 .. 0 : i < j => e[i] < e[j]
    OBVIOUS
  <2> QED BY <2>1
<1>2. ASSUME NEW n \in Nat, n \in P PROVE n + 1 \in P
  <2> SUFFICES ASSUME NEW T \in SUBSET Int, IsFiniteSet(T), Cardinality(T) = n + 1
               PROVE  Asc(T, n + 1)
    OBVIOUS
  <2>1. T # {}
    BY FS_EmptySet
  <2>2. PICK z \in T : \A y \in T : y <= z
    BY <2>1, GreatestInt
  <2> DEFINE U == T \ {z}
  <2>3. IsFiniteSet(U) /\ Cardinality(U) = n /\ U \in SUBSET Int
    BY FS_RemoveElement
  <2>4. PICK s \in [1 .. n -> U] : \A i, j \in 1 .. n : i < j => s[i] < s[j]
    BY <1>2, <2>3
  <2> DEFINE t == [i \in 1 .. n + 1 |-> IF i <= n THEN s[i] ELSE z]
  <2>5. \A i \in 1 .. n : s[i] \in U
    OBVIOUS
  <2>6. t \in [1 .. n + 1 -> T]
    BY <2>5
  <2>7. ASSUME NEW i \in 1 .. n + 1, NEW j \in 1 .. n + 1, i < j PROVE t[i] < t[j]
    <3>1. i \in 1 .. n /\ t[i] = s[i]
      BY <2>7
    <3>2. CASE j \in 1 .. n
      <4>1. t[j] = s[j]
        BY <3>2
      <4> QED BY <2>4, <2>7, <3>1, <3>2, <4>1
    <3>3. CASE j \notin 1 .. n
      <4>1. t[j] = z
        BY <3>3
      <4>2. s[i] <= z /\ s[i] # z /\ s[i] \in Int /\ z \in Int
        BY <2>2, <2>5, <3>1
      <4> QED BY <3>1, <4>1, <4>2
    <3> QED BY <3>2, <3>3
  <2> HIDE DEF t
  <2> QED BY <2>6, <2>7
<1> HIDE DEF P
<1>3. \A n \in Nat : n \in P
  BY <1>1, <1>2, NatSetInduction
<1>4. Cardinality(S) \in P
  BY <1>3, FS_CardinalityType
<1> QED BY <1>4 DEF P

\* A permutation of a finite set names every element of the set.
LEMMA PermutationRange ==
    ASSUME NEW S, IsFiniteSet(S), NEW s \in SetToSeqs(S)
    PROVE  /\ Cardinality(S) \in Nat /\ s \in [1 .. Cardinality(S) -> S]
           /\ s \in Seq(S) /\ Len(s) = Cardinality(S)
           /\ ToSet(s) = S
           /\ \A i, j \in DOMAIN s : s[i] = s[j] => i = j
<1>1. Cardinality(S) \in Nat
  BY FS_CardinalityType
<1>2. s \in [1 .. Cardinality(S) -> S] /\ IsInjective(s)
  BY DEF SetToSeqs, IsInjective
<1>3. s \in Injection(1 .. Cardinality(S), S)
  BY <1>2 DEF Injection
<1>4. Cardinality(1 .. Cardinality(S)) = Cardinality(S)
  BY <1>1, FS_Interval
<1>5. s \in Surjection(1 .. Cardinality(S), S)
  BY <1>3, <1>4, FS_Injection
<1>6. ToSet(s) = S
  BY <1>2, <1>5 DEF Surjection, ToSet
<1>7. s \in Seq(S) /\ Len(s) = Cardinality(S)
  BY <1>1, <1>2
<1> QED BY <1>1, <1>2, <1>6, <1>7 DEF IsInjective

\* f lists the values of an iteration: f[0] is b, step i makes f[i] of f[i - 1].
Iterates(f, V, n, b, F) ==
    /\ f \in [0 .. n -> V] /\ f[0] = b
    /\ \A i \in 1 .. n : f[i] = F[i][f[i - 1]]

\* An iteration of n steps exists.
LEMMA Iteration ==
    ASSUME NEW V, NEW n \in Nat, NEW b \in V, NEW F \in [1 .. n -> [V -> V]]
    PROVE  \E f : Iterates(f, V, n, b, F)
<1> DEFINE Pre(f, m) == f[0] = b /\ \A i \in 1 .. m : f[i] = F[i][f[i - 1]]
           P == {m \in Nat : m <= n => \E f \in [0 .. m -> V] : Pre(f, m)}
<1>1. 0 \in P
  <2> DEFINE g == [i \in 0 .. 0 |-> b]
  <2>1. g \in [0 .. 0 -> V] /\ Pre(g, 0)
    OBVIOUS
  <2> QED BY <2>1
<1>2. ASSUME NEW m \in Nat, m \in P PROVE m + 1 \in P
  <2> SUFFICES ASSUME m + 1 <= n
               PROVE  \E f \in [0 .. m + 1 -> V] : Pre(f, m + 1)
    OBVIOUS
  <2>1. PICK f \in [0 .. m -> V] : Pre(f, m)
    BY <1>2
  <2> DEFINE g == [i \in 0 .. m + 1 |-> IF i <= m THEN f[i] ELSE F[m + 1][f[m]]]
  <2>2. g \in [0 .. m + 1 -> V]
    OBVIOUS
  <2>3. g[0] = b
    BY <2>1
  <2>4. ASSUME NEW i \in 1 .. m + 1 PROVE g[i] = F[i][g[i - 1]]
    <3>1. CASE i <= m
      <4>1. i \in 1 .. m /\ g[i] = f[i] /\ g[i - 1] = f[i - 1]
        BY <3>1
      <4> QED BY <2>1, <4>1
    <3>2. CASE i = m + 1
      <4>1. i - 1 = m /\ g[i] = F[m + 1][f[m]] /\ g[i - 1] = f[m]
        BY <3>2
      <4> QED BY <3>2, <4>1
    <3> QED BY <3>1, <3>2
  <2> HIDE DEF g
  <2> QED BY <2>2, <2>3, <2>4
<1> HIDE DEF P
<1>3. n \in P
  BY <1>1, <1>2, NatSetInduction
<1> QED BY <1>3 DEF P, Iterates

\* What FlattenSeq computes: the prefixes are flattened one after the other.
LEMMA FlattenPrefixes ==
    ASSUME NEW T, NEW ss \in Seq(Seq(T))
    PROVE  \E f \in [0 .. Len(ss) -> Seq(T)] :
              /\ FlattenSeq(ss) = f[Len(ss)] /\ f[0] = << >>
              /\ \A i \in 1 .. Len(ss) : f[i] = f[i - 1] \o ss[i]
<1> DEFINE n == Len(ss)
           V == Seq(T)
           G(f) == f = [i \in 1 .. n |-> IF i = 1 THEN ss[i] ELSE f[i - 1] \o ss[i]]
           F == [i \in 1 .. n |-> [v \in V |-> v \o ss[i]]]
<1>0. n \in Nat /\ \A i \in 1 .. n : ss[i] \in V
  BY ElementOfSeq, LenProperties
<1>1. F \in [1 .. n -> [V -> V]]
  <2>1. ASSUME NEW i \in 1 .. n, NEW v \in V PROVE v \o ss[i] \in V
    <3>1. v \in Seq(T) /\ ss[i] \in Seq(T)
      BY <1>0
    <3> QED BY <3>1, ConcatProperties
  <2> HIDE DEF V, n
  <2> QED BY <2>1
<1> DEFINE b == << >>
<1>2. b \in V
  BY EmptySeq
<1> HIDE DEF V, n, b
<1>3. \A v \in V, i \in 1 .. n : F[i][v] = v \o ss[i]
  OBVIOUS
<1> HIDE DEF F
<1>4. PICK f \in [0 .. n -> V] : f[0] = b /\ \A i \in 1 .. n : f[i] = F[i][f[i - 1]]
  <2>1. n \in Nat
    BY <1>0
  <2>2. \E f : Iterates(f, V, n, b, F)
    BY <1>1, <1>2, <2>1, Iteration
  <2> QED BY <2>2 DEF Iterates
<1>5. ASSUME NEW i \in 1 .. n PROVE f[i] = f[i - 1] \o ss[i]
  <2>1. i - 1 \in 0 .. n /\ f[i - 1] \in V
    BY <1>0
  <2> QED BY <1>3, <1>4, <2>1
<1>6. CASE ss = << >>
  <2>1. n = 0 /\ FlattenSeq(ss) = ss
    BY <1>6 DEF FlattenSeq, n
  <2> QED BY <2>1, <1>4, <1>5, <1>6 DEF V, n, b
<1>7. CASE ss # << >>
  <2>0. n # 0
    BY <1>7, EmptySeq DEF n
  <2> DEFINE h == [i \in 1 .. n |-> f[i]]
  <2>1. f[1] = ss[1]
    <3>1. 1 \in 1 .. n /\ 1 - 1 = 0
      BY <1>0, <2>0
    <3>2. f[1] = f[0] \o ss[1]
      BY <1>5, <3>1
    <3>3. f[1] = << >> \o ss[1] /\ ss[1] \in Seq(T)
      BY <1>0, <1>4, <3>1, <3>2 DEF V, b
    <3> QED BY <3>3, ConcatEmptySeq
  <2>2. ASSUME NEW i \in 1 .. n PROVE h[i] = IF i = 1 THEN ss[i] ELSE h[i - 1] \o ss[i]
    <3>1. i # 1 => i - 1 \in 1 .. n /\ h[i - 1] = f[i - 1]
      BY <1>0
    <3> QED BY <2>1, <1>5, <3>1
  <2>3. G(h)
    <3> HIDE DEF h
    <3>1. h = [i \in 1 .. n |-> h[i]]
      BY DEF h
    <3> QED BY <2>2, <3>1
  <2> DEFINE c == CHOOSE x : G(x)
  <2>4. G(c)
    BY <2>3
  <2>5. FlattenSeq(ss) = c[n]
    BY <2>0 DEF FlattenSeq, n
  <2> HIDE DEF c
  <2>7. ASSUME NEW i \in 1 .. n PROVE c[i] = IF i = 1 THEN ss[i] ELSE c[i - 1] \o ss[i]
    BY <2>4
  <2> DEFINE Q == {m \in Nat : m >= 1 /\ m <= n => c[m] = f[m]}
  <2>8. 0 \in Q
    OBVIOUS
  <2>9. ASSUME NEW m \in Nat, m \in Q PROVE m + 1 \in Q
    <3> SUFFICES ASSUME NEW k \in 1 .. n, k = m + 1 PROVE c[k] = f[k]
      BY <1>0
    <3>1. CASE k = 1
      BY <2>1, <2>7, <3>1
    <3>2. CASE k # 1
      <4>0. k - 1 = m /\ m >= 1 /\ m <= n
        BY <1>0, <3>2
      <4>1. c[k] = c[k - 1] \o ss[k]
        BY <2>7, <3>2
      <4>2. c[k - 1] = f[k - 1]
        BY <2>9, <4>0
      <4> QED BY <1>5, <4>1, <4>2
    <3> QED BY <3>1, <3>2
  <2> HIDE DEF Q
  <2>10. n \in Q
    BY <1>0, <2>8, <2>9, NatSetInduction
  <2>11. c[n] = f[n]
    BY <1>0, <2>0, <2>10 DEF Q
  <2> QED BY <1>4, <1>5, <2>5, <2>11 DEF V, n, b
<1> QED BY <1>6, <1>7

\* The elements of a concatenation, of an extended and of a shortened sequence.
LEMMA ConcatRange ==
    ASSUME NEW T, NEW s \in Seq(T), NEW t \in Seq(T)
    PROVE  ToSet(s \o t) = ToSet(s) \cup ToSet(t)
<1>1. Range(s \o t) = Range(s) \cup Range(t)
  BY RangeConcatenation
<1> QED BY <1>1 DEF ToSet, Range

\* An element more.
LEMMA AppendRange ==
    ASSUME NEW T, NEW s \in Seq(T), NEW e \in T
    PROVE  ToSet(Append(s, e)) = ToSet(s) \cup {e}
<1>1. Append(s, e) \in Seq(T) /\ Len(Append(s, e)) = Len(s) + 1 /\ Len(s) \in Nat
  BY AppendProperties, LenProperties
<1>2. DOMAIN s = 1 .. Len(s) /\ DOMAIN Append(s, e) = 1 .. Len(s) + 1
  BY <1>1, LenProperties
<1>3. 1 .. Len(s) + 1 = (1 .. Len(s)) \cup {Len(s) + 1}
  BY <1>1
<1>4. /\ \A i \in 1 .. Len(s) : Append(s, e)[i] = s[i]
      /\ Append(s, e)[Len(s) + 1] = e
  BY AppendProperties
<1> QED BY <1>2, <1>3, <1>4 DEF ToSet

\* A new element leaves the elements different from each other.
LEMMA AppendDistinct ==
    ASSUME NEW T, NEW s \in Seq(T), NEW e \in T, IsInjective(s), e \notin ToSet(s)
    PROVE  IsInjective(Append(s, e))
<1>1. Append(s, e) \in Seq(T) /\ Len(Append(s, e)) = Len(s) + 1 /\ Len(s) \in Nat
  BY AppendProperties, LenProperties
<1>2. DOMAIN s = 1 .. Len(s) /\ DOMAIN Append(s, e) = 1 .. Len(s) + 1
  BY <1>1, LenProperties
<1>3. 1 .. Len(s) + 1 = (1 .. Len(s)) \cup {Len(s) + 1}
  BY <1>1
<1>4. /\ \A i \in 1 .. Len(s) : Append(s, e)[i] = s[i]
      /\ Append(s, e)[Len(s) + 1] = e
  BY AppendProperties
<1>5. \A i \in 1 .. Len(s) : s[i] # e
  BY <1>2 DEF ToSet
<1>6. \A i, j \in 1 .. Len(s) : s[i] = s[j] => i = j
  BY <1>2 DEF IsInjective
<1>7. ASSUME NEW i \in 1 .. Len(s) + 1, NEW j \in 1 .. Len(s) + 1,
             Append(s, e)[i] = Append(s, e)[j]
      PROVE  i = j
  BY <1>3, <1>4, <1>5, <1>6, <1>7
<1> DEFINE t == Append(s, e)
<1>8. DOMAIN t = 1 .. Len(s) + 1 /\ \A i, j \in 1 .. Len(s) + 1 : t[i] = t[j] => i = j
  BY <1>2, <1>7
<1> HIDE DEF t
<1>9. IsInjective(t)
  BY <1>8 DEF IsInjective
<1> QED BY <1>9 DEF t

\* The head of a sequence and the rest.
LEMMA TailRange ==
    ASSUME NEW T, NEW s \in Seq(T), s # << >>
    PROVE  /\ Head(s) \in T /\ Tail(s) \in Seq(T)
           /\ ToSet(s) = {Head(s)} \cup ToSet(Tail(s))
           /\ IsInjective(s) => IsInjective(Tail(s)) /\ Head(s) \notin ToSet(Tail(s))
<1>1. /\ Head(s) \in T /\ Tail(s) \in Seq(T) /\ Len(Tail(s)) = Len(s) - 1
      /\ \A i \in 1 .. Len(Tail(s)) : Tail(s)[i] = s[i + 1]
  BY HeadTailProperties
<1>2. Len(s) \in Nat \ {0} /\ DOMAIN s = 1 .. Len(s) /\ DOMAIN Tail(s) = 1 .. Len(s) - 1
  BY <1>1, LenProperties, EmptySeq
<1>3. \A i \in 1 .. Len(s) - 1 : i + 1 \in 1 .. Len(s) /\ i + 1 # 1 /\ Tail(s)[i] = s[i + 1]
  BY <1>1, <1>2
<1>4. \A i \in 2 .. Len(s) : i - 1 \in 1 .. Len(s) - 1 /\ Tail(s)[i - 1] = s[i]
  <2> TAKE i \in 2 .. Len(s)
  <2>1. i - 1 \in 1 .. Len(s) - 1 /\ i - 1 + 1 = i
    BY <1>2
  <2> QED BY <1>3, <2>1
<1>5. Head(s) = s[1] /\ 1 \in 1 .. Len(s)
  BY <1>2
<1>6. 1 .. Len(s) = {1} \cup 2 .. Len(s)
  BY <1>2
<1>7. ToSet(s) = {Head(s)} \cup ToSet(Tail(s))
  <2>1. ASSUME NEW i \in 1 .. Len(s) PROVE s[i] \in {Head(s)} \cup ToSet(Tail(s))
    <3>1. CASE i = 1
      BY <1>5, <3>1
    <3>2. CASE i \in 2 .. Len(s)
      BY <1>2, <1>4, <3>2 DEF ToSet
    <3> QED BY <1>6, <3>1, <3>2
  <2>2. Head(s) \in ToSet(s)
    BY <1>2, <1>5 DEF ToSet
  <2>3. \A i \in 1 .. Len(s) - 1 : Tail(s)[i] \in ToSet(s)
    BY <1>2, <1>3 DEF ToSet
  <2>4. ToSet(s) \subseteq {Head(s)} \cup ToSet(Tail(s))
    BY <1>2, <2>1 DEF ToSet
  <2>5. ToSet(Tail(s)) \subseteq ToSet(s)
    BY <1>2, <2>3 DEF ToSet
  <2> QED BY <2>2, <2>4, <2>5
<1>8. IsInjective(s) => IsInjective(Tail(s)) /\ Head(s) \notin ToSet(Tail(s))
  <2> SUFFICES ASSUME \A a, b \in 1 .. Len(s) : s[a] = s[b] => a = b
               PROVE  IsInjective(Tail(s)) /\ Head(s) \notin ToSet(Tail(s))
    BY <1>2 DEF IsInjective
  <2>1. \A i \in 1 .. Len(s) - 1 : Tail(s)[i] # Head(s)
    BY <1>3, <1>5
  <2>2. ASSUME NEW a \in 1 .. Len(s) - 1, NEW b \in 1 .. Len(s) - 1, Tail(s)[a] = Tail(s)[b]
        PROVE  a = b
    <3>1. s[a + 1] = s[b + 1] /\ a + 1 \in 1 .. Len(s) /\ b + 1 \in 1 .. Len(s)
      BY <1>3, <2>2
    <3>2. a + 1 = b + 1
      BY <3>1
    <3> QED BY <3>2
  <2> QED BY <1>2, <2>1, <2>2 DEF IsInjective, ToSet
<1> QED BY <1>1, <1>7, <1>8

\* The elements of a flattened sequence are the elements of its parts.
LEMMA FlattenRange ==
    ASSUME NEW T, NEW ss \in Seq(Seq(T))
    PROVE  /\ FlattenSeq(ss) \in Seq(T)
           /\ ToSet(FlattenSeq(ss)) = UNION {ToSet(ss[i]) : i \in DOMAIN ss}
<1> DEFINE n == Len(ss)
<1>0. n \in Nat /\ DOMAIN ss = 1 .. n /\ \A i \in 1 .. n : ss[i] \in Seq(T)
  BY ElementOfSeq, LenProperties
<1>1. PICK f \in [0 .. n -> Seq(T)] :
         /\ FlattenSeq(ss) = f[n] /\ f[0] = << >>
         /\ \A i \in 1 .. n : f[i] = f[i - 1] \o ss[i]
  BY FlattenPrefixes
<1> HIDE DEF n
<1> DEFINE All(m) == UNION {ToSet(ss[i]) : i \in 1 .. m}
           P == {m \in Nat : m <= n => ToSet(f[m]) = All(m)}
<1>2. 0 \in P
  BY <1>1 DEF ToSet
<1>3. ASSUME NEW m \in Nat, m \in P PROVE m + 1 \in P
  <2> HIDE DEF All
  <2> SUFFICES ASSUME NEW k \in 1 .. n, k = m + 1
               PROVE  ToSet(f[k]) = All(k)
    BY <1>0
  <2>1. k - 1 = m /\ m <= n /\ m \in 0 .. n
    BY <1>0
  <2>2. f[k] = f[k - 1] \o ss[k] /\ f[k - 1] \in Seq(T) /\ ss[k] \in Seq(T)
    BY <1>0, <1>1, <2>1
  <2>3. ToSet(f[k]) = ToSet(f[m]) \cup ToSet(ss[k])
    BY <2>1, <2>2, ConcatRange
  <2>4. ToSet(f[m]) = All(m)
    BY <1>3, <2>1
  <2>5. 1 .. k = (1 .. m) \cup {k}
    OBVIOUS
  <2> HIDE DEF P
  <2> QED BY <2>3, <2>4, <2>5 DEF All
<1> HIDE DEF P
<1>4. n \in P
  BY <1>0, <1>2, <1>3, NatSetInduction
<1>5. ToSet(f[n]) = UNION {ToSet(ss[i]) : i \in 1 .. n}
  BY <1>0, <1>4 DEF P
<1> QED BY <1>0, <1>1, <1>5

\* Parts of at most one element, one of them empty, flatten to fewer elements than parts.
LEMMA FlattenShort ==
    ASSUME NEW T, NEW ss \in Seq(Seq(T))
    PROVE  \A k \in DOMAIN ss : Len(ss[k]) = 0 /\ (\A i \in DOMAIN ss : Len(ss[i]) <= 1)
                                 => Len(FlattenSeq(ss)) < Len(ss)
<1> DEFINE n == Len(ss)
<1>0. n \in Nat /\ DOMAIN ss = 1 .. n /\ \A i \in 1 .. n : ss[i] \in Seq(T)
  BY ElementOfSeq, LenProperties
<1>1. PICK f \in [0 .. n -> Seq(T)] :
         /\ FlattenSeq(ss) = f[n] /\ f[0] = << >>
         /\ \A i \in 1 .. n : f[i] = f[i - 1] \o ss[i]
  BY FlattenPrefixes
<1> SUFFICES ASSUME NEW k \in DOMAIN ss, Len(ss[k]) = 0, \A i \in DOMAIN ss : Len(ss[i]) <= 1
             PROVE  Len(FlattenSeq(ss)) < Len(ss)
  OBVIOUS
<1> HIDE DEF n
<1> DEFINE P == {m \in Nat : m <= n => Len(f[m]) <= m /\ (k <= m => Len(f[m]) < m)}
<1>2. 0 \in P
  <2>1. Len(f[0]) = 0 /\ ~(k <= 0)
    BY <1>0, <1>1, EmptySeq
  <2> QED BY <2>1
<1>3. ASSUME NEW m \in Nat, m \in P PROVE m + 1 \in P
  <2> SUFFICES ASSUME NEW j \in 1 .. n, j = m + 1
               PROVE  Len(f[j]) <= j /\ (k <= j => Len(f[j]) < j)
    BY <1>0
  <2>1. j - 1 = m /\ m <= n /\ m \in 0 .. n
    BY <1>0
  <2>2. f[j] = f[m] \o ss[j] /\ f[m] \in Seq(T) /\ ss[j] \in Seq(T)
    BY <1>0, <1>1, <2>1
  <2>3. PICK u, v \in Seq(T) : u = f[m] /\ v = ss[j]
    BY <2>2
  <2>4. Len(u) \in Nat /\ Len(v) \in Nat /\ Len(u \o v) = Len(u) + Len(v)
    BY LenProperties, ConcatProperties
  <2>5. Len(f[j]) = Len(u) + Len(v)
    BY <2>2, <2>3, <2>4
  <2>6. Len(u) <= m /\ (k <= m => Len(u) < m)
    BY <1>3, <2>1, <2>3
  <2>7. Len(v) <= 1 /\ (j = k => Len(v) = 0)
    BY <1>0, <2>3
  <2>8. k \in Nat
    BY <1>0
  <2> QED BY <2>1, <2>4, <2>5, <2>6, <2>7, <2>8
<1> HIDE DEF P
<1>4. n \in P
  BY <1>0, <1>2, <1>3, NatSetInduction
<1> QED BY <1>0, <1>1, <1>4 DEF P, n

\* Flattening sequences without repetitions that share no element repeats none.
LEMMA FlattenInjective ==
    ASSUME NEW T, NEW ss \in Seq(Seq(T)),
           \A i \in DOMAIN ss : IsInjective(ss[i]),
           \A i, j \in DOMAIN ss : i # j => ToSet(ss[i]) \cap ToSet(ss[j]) = {}
    PROVE  IsInjective(FlattenSeq(ss))
<1> DEFINE n == Len(ss)
<1>0. n \in Nat /\ DOMAIN ss = 1 .. n /\ \A i \in 1 .. n : ss[i] \in Seq(T)
  BY ElementOfSeq, LenProperties
<1>1. PICK f \in [0 .. n -> Seq(T)] :
         /\ FlattenSeq(ss) = f[n] /\ f[0] = << >>
         /\ \A i \in 1 .. n : f[i] = f[i - 1] \o ss[i]
  BY FlattenPrefixes
<1> HIDE DEF n
<1> DEFINE P == {m \in Nat : m <= n => /\ IsInjective(f[m])
                                       /\ ToSet(f[m]) = UNION {ToSet(ss[i]) : i \in 1 .. m}}
<1>2. 0 \in P
  BY <1>1 DEF ToSet, IsInjective
<1>3. ASSUME NEW m \in Nat, m \in P PROVE m + 1 \in P
  <2> SUFFICES ASSUME NEW k \in 1 .. n, k = m + 1
               PROVE  /\ IsInjective(f[k])
                      /\ ToSet(f[k]) = UNION {ToSet(ss[i]) : i \in 1 .. k}
    BY <1>0
  <2>1. k - 1 = m /\ m <= n /\ m \in 0 .. n
    BY <1>0
  <2>2. f[k] = f[k - 1] \o ss[k] /\ f[k - 1] \in Seq(T) /\ ss[k] \in Seq(T)
    BY <1>0, <1>1, <2>1
  <2>3. ToSet(f[k]) = ToSet(f[m]) \cup ToSet(ss[k])
    BY <2>1, <2>2, ConcatRange
  <2>4. IsInjective(f[m]) /\ ToSet(f[m]) = UNION {ToSet(ss[i]) : i \in 1 .. m}
    BY <1>3, <2>1
  <2>5. 1 .. k = (1 .. m) \cup {k} /\ \A i \in 1 .. m : i # k /\ i \in 1 .. n
    BY <1>0
  <2> HIDE DEF P
  <2>6. ToSet(f[k]) = UNION {ToSet(ss[i]) : i \in 1 .. k}
    BY <2>3, <2>4, <2>5
  <2>7. ToSet(f[m]) \cap ToSet(ss[k]) = {}
    BY <1>0, <2>4, <2>5
  <2>8. IsInjective(f[k])
    <3> DEFINE s == f[m]
               t == ss[k]
    <3>1. s \in Seq(T) /\ t \in Seq(T) /\ f[k] = s \o t /\ IsInjective(s) /\ IsInjective(t)
      BY <1>0, <2>1, <2>2, <2>4
    <3>2. ToSet(s) \cap ToSet(t) = {}
      BY <2>7
    <3> HIDE DEF s, t
    <3>3. /\ Len(s) \in Nat /\ DOMAIN s = 1 .. Len(s) /\ Len(t) \in Nat /\ DOMAIN t = 1 .. Len(t)
          /\ s \o t \in Seq(T) /\ DOMAIN (s \o t) = 1 .. Len(s) + Len(t)
      BY <3>1, LenProperties, ConcatProperties
    <3>4. ASSUME NEW a \in 1 .. Len(s) + Len(t), NEW b \in 1 .. Len(s) + Len(t), a < b
          PROVE  (s \o t)[a] # (s \o t)[b]
      <4>1. CASE b <= Len(s)
        <5>1. (s \o t)[a] = s[a] /\ (s \o t)[b] = s[b] /\ a \in DOMAIN s /\ b \in DOMAIN s /\ a # b
          BY <3>1, <3>3, <3>4, <4>1, ConcatProperties
        <5> QED BY <3>1, <5>1 DEF IsInjective
      <4>2. CASE a > Len(s)
        <5>1. /\ (s \o t)[a] = t[a - Len(s)] /\ (s \o t)[b] = t[b - Len(s)]
              /\ a - Len(s) \in DOMAIN t /\ b - Len(s) \in DOMAIN t /\ a - Len(s) # b - Len(s)
          BY <3>1, <3>3, <3>4, <4>2, ConcatProperties
        <5> QED BY <3>1, <5>1 DEF IsInjective
      <4>3. CASE a <= Len(s) /\ b > Len(s)
        <5>1. /\ (s \o t)[a] = s[a] /\ (s \o t)[b] = t[b - Len(s)]
              /\ a \in DOMAIN s /\ b - Len(s) \in DOMAIN t
          BY <3>1, <3>3, <3>4, <4>3, ConcatProperties
        <5> QED BY <3>2, <5>1 DEF ToSet
      <4> QED BY <3>3, <4>1, <4>2, <4>3
    <3>5. ASSUME NEW a \in 1 .. Len(s) + Len(t), NEW b \in 1 .. Len(s) + Len(t), a # b
          PROVE  (s \o t)[a] # (s \o t)[b]
      <4>1. a < b \/ b < a
        BY <3>3, <3>5
      <4> QED BY <3>4, <4>1
    <3>6. f[k] = s \o t /\ DOMAIN (s \o t) = 1 .. Len(s) + Len(t)
      BY <3>1, <3>3
    <3> QED BY <3>5, <3>6 DEF IsInjective
  <2> QED BY <2>6, <2>8
<1> HIDE DEF P
<1>4. n \in P
  BY <1>0, <1>2, <1>3, NatSetInduction
<1>5. IsInjective(f[n])
  BY <1>0, <1>4 DEF P
<1> QED BY <1>1, <1>5

-----------------------------------------------------------------------------
(* Sums over finite sets.                                                  *)

\* Induction over the subsets of a finite set: a set that has the empty set and every
\* set that has an element without which it is in there has them all.
LEMMA SubsetInduction ==
    ASSUME NEW S, IsFiniteSet(S), NEW T, {} \in T,
           \A s \in SUBSET S : s # {} /\ (\A x \in s : s \ {x} \in T) => s \in T
    PROVE  \A s \in SUBSET S : s \in T
<1> DEFINE P == {m \in Nat : \A s \in SUBSET S : Cardinality(s) = m => s \in T}
<1>0. \A s \in SUBSET S : IsFiniteSet(s) /\ Cardinality(s) \in Nat
  BY FS_Subset, FS_CardinalityType
<1>1. 0 \in P
  <2>1. ASSUME NEW s \in SUBSET S, Cardinality(s) = 0 PROVE s = {}
    BY <1>0, <2>1, FS_EmptySet
  <2> QED BY <2>1
<1>2. ASSUME NEW m \in Nat, m \in P PROVE m + 1 \in P
  <2> SUFFICES ASSUME NEW s \in SUBSET S, Cardinality(s) = m + 1 PROVE s \in T
    OBVIOUS
  <2>1. s # {}
    <3>1. Cardinality({}) = 0
      BY FS_EmptySet
    <3> QED BY <3>1
  <2>2. ASSUME NEW x \in s PROVE s \ {x} \in T
    <3>1. Cardinality(s \ {x}) = Cardinality(s) - 1
      BY <1>0, FS_RemoveElement
    <3>2. Cardinality(s \ {x}) = m
      BY <3>1
    <3> QED BY <1>2, <3>2
  <2> QED BY <2>1, <2>2
<1> HIDE DEF P
<1>3. \A m \in Nat : m \in P
  BY <1>1, <1>2, NatSetInduction
<1> QED BY <1>0, <1>3 DEF P

\* The element that the folds of the community modules take from a set first.
Chosen(s) == CHOOSE x \in s : TRUE

\* h has the sum of f over each subset of S.
Sums(h, f, S) ==
    /\ h \in [SUBSET S -> Int] /\ h[{}] = 0
    /\ \A s \in SUBSET S : s # {} => h[s] = f[Chosen(s)] + h[s \ {Chosen(s)}]

\* The sums exist.
LEMMA SumsExist ==
    ASSUME NEW S, IsFiniteSet(S), NEW f \in [S -> Int]
    PROVE  \E h : Sums(h, f, S)
<1> DEFINE Small(m) == {s \in SUBSET S : Cardinality(s) <= m}
           Pre(h, m) == /\ h[{}] = 0
                        /\ \A s \in Small(m) : s # {} => h[s] = f[Chosen(s)] + h[s \ {Chosen(s)}]
           P == {m \in Nat : \E h \in [Small(m) -> Int] : Pre(h, m)}
<1>0. \A s \in SUBSET S : IsFiniteSet(s) /\ Cardinality(s) \in Nat
  BY FS_Subset, FS_CardinalityType
<1>a. \A s \in SUBSET S : Cardinality(s) = 0 <=> s = {}
  BY <1>0, FS_EmptySet
<1>b. ASSUME NEW s \in SUBSET S, s # {}
      PROVE  /\ Chosen(s) \in s /\ s \ {Chosen(s)} \in SUBSET S
             /\ Cardinality(s \ {Chosen(s)}) = Cardinality(s) - 1
  <2>1. Chosen(s) \in s
    BY <1>b DEF Chosen
  <2> QED BY <1>0, <2>1, FS_RemoveElement
<1>1. 0 \in P
  <2> DEFINE g == [s \in Small(0) |-> 0]
  <2>1. {} \in Small(0) /\ \A s \in Small(0) : s = {}
    BY <1>0, <1>a
  <2>2. g \in [Small(0) -> Int] /\ Pre(g, 0)
    BY <2>1
  <2> QED BY <2>2
<1>2. ASSUME NEW m \in Nat, m \in P PROVE m + 1 \in P
  <2>1. PICK h \in [Small(m) -> Int] : Pre(h, m)
    BY <1>2
  <2> DEFINE g == [s \in Small(m + 1) |->
                    IF Cardinality(s) <= m THEN h[s] ELSE f[Chosen(s)] + h[s \ {Chosen(s)}]]
  <2>2. ASSUME NEW s \in Small(m + 1), s # {}
        PROVE  /\ f[Chosen(s)] \in Int /\ s \ {Chosen(s)} \in Small(m)
               /\ s \ {Chosen(s)} \in Small(m + 1)
               /\ Cardinality(s \ {Chosen(s)}) <= m
    <3>1. Chosen(s) \in S /\ s \ {Chosen(s)} \in SUBSET S /\ Cardinality(s \ {Chosen(s)}) = Cardinality(s) - 1
      BY <1>b, <2>2
    <3>2. Cardinality(s) \in Nat /\ Cardinality(s) <= m + 1
      BY <1>0
    <3> QED BY <3>1, <3>2
  <2>3. \A s \in Small(m + 1) : Cardinality(s) <= m => s \in Small(m)
    OBVIOUS
  <2>4. \A s \in Small(m + 1) : ~(Cardinality(s) <= m) => s # {}
    BY <1>a
  <2>5. g \in [Small(m + 1) -> Int]
    <3>1. ASSUME NEW s \in Small(m + 1) PROVE g[s] \in Int
      <4>1. CASE Cardinality(s) <= m
        BY <2>3, <4>1
      <4>2. CASE ~(Cardinality(s) <= m)
        <5>1. h[s \ {Chosen(s)}] \in Int /\ f[Chosen(s)] \in Int
          BY <2>2, <2>4, <4>2
        <5> QED BY <4>2, <5>1
      <4> QED BY <4>1, <4>2
    <3> QED BY <3>1
  <2>6. {} \in Small(m + 1) /\ g[{}] = 0
    <3>1. Cardinality({}) = 0
      BY <1>a
    <3> QED BY <2>1, <3>1
  <2>7. ASSUME NEW s \in Small(m + 1), s # {} PROVE g[s] = f[Chosen(s)] + g[s \ {Chosen(s)}]
    <3>1. g[s \ {Chosen(s)}] = h[s \ {Chosen(s)}]
      BY <2>2, <2>7
    <3>2. g[s] = f[Chosen(s)] + h[s \ {Chosen(s)}]
      BY <2>1, <2>3, <2>7
    <3> QED BY <3>1, <3>2
  <2>8. Pre(g, m + 1)
    <3> HIDE DEF g, Small
    <3> QED BY <2>6, <2>7
  <2>9. m + 1 \in Nat
    OBVIOUS
  <2> HIDE DEF g, Small, Pre
  <2> QED BY <2>5, <2>8, <2>9
<1>3. PICK c \in Nat : c = Cardinality(S)
  BY <1>0
<1>4. Small(c) = SUBSET S
  <2>1. ASSUME NEW s \in SUBSET S PROVE Cardinality(s) <= c
    BY <1>3, FS_Subset
  <2> QED BY <2>1
<1> HIDE DEF P
<1>5. c \in P
  BY <1>1, <1>2, NatSetInduction
<1>6. PICK h \in [Small(c) -> Int] : Pre(h, c)
  BY <1>5 DEF P
<1> QED BY <1>4, <1>6 DEF Sums

\* What the fold of a function by addition computes.
LEMMA FoldSums ==
    ASSUME NEW S, IsFiniteSet(S), NEW f \in [S -> Int]
    PROVE  \E h : Sums(h, f, S) /\ SumFunctionOnSet(f, S) = h[S]
<1> DEFINE G(h) == h = [s \in SUBSET S |-> IF s = {} THEN 0
                                            ELSE f[CHOOSE x \in s : TRUE] + h[s \ {CHOOSE x \in s : TRUE}]]
<1>1. PICK h : Sums(h, f, S)
  BY SumsExist
<1>2. G(h)
  <2>1. h = [s \in SUBSET S |-> h[s]]
    BY <1>1 DEF Sums
  <2>2. \A s \in SUBSET S : h[s] = IF s = {} THEN 0 ELSE f[CHOOSE x \in s : TRUE] + h[s \ {CHOOSE x \in s : TRUE}]
    BY <1>1 DEF Sums, Chosen
  <2> QED BY <2>1, <2>2
<1> DEFINE c == CHOOSE x : G(x)
<1>3. G(c)
  BY <1>2
<1>4. SumFunctionOnSet(f, S) = c[S]
  BY DEF SumFunctionOnSet, FoldFunctionOnSet, MapThenFoldSet
<1> HIDE DEF c
<1>5. \A s \in SUBSET S : c[s] = IF s = {} THEN 0 ELSE f[Chosen(s)] + c[s \ {Chosen(s)}]
  BY <1>3 DEF Chosen
<1> DEFINE T == {s \in SUBSET S : c[s] = h[s]}
<1>6. {} \in T
  BY <1>1, <1>5 DEF Sums
<1>7. ASSUME NEW s \in SUBSET S, s # {}, \A x \in s : s \ {x} \in T PROVE s \in T
  <2>1. Chosen(s) \in s
    BY <1>7 DEF Chosen
  <2>2. c[s \ {Chosen(s)}] = h[s \ {Chosen(s)}]
    BY <1>7, <2>1
  <2> QED BY <1>1, <1>5, <1>7, <2>2 DEF Sums
<1> HIDE DEF T
<1>8. S \in T
  BY <1>6, <1>7, SubsetInduction
<1> QED BY <1>1, <1>4, <1>8 DEF T

\* The sums of functions that differ in one place.
LEMMA SumChange ==
    ASSUME NEW S, IsFiniteSet(S), NEW f \in [S -> Int], NEW g \in [S -> Int], NEW i \in S,
           \A j \in S : j # i => g[j] = f[j]
    PROVE  SumFunctionOnSet(g, S) = SumFunctionOnSet(f, S) + g[i] - f[i]
<1>1. PICK h : Sums(h, f, S) /\ SumFunctionOnSet(f, S) = h[S]
  BY FoldSums
<1>2. PICK k : Sums(k, g, S) /\ SumFunctionOnSet(g, S) = k[S]
  BY FoldSums
<1> DEFINE T == {s \in SUBSET S : k[s] = h[s] + (IF i \in s THEN g[i] - f[i] ELSE 0)}
<1>3. {} \in T
  <2>1. h[{}] = 0 /\ k[{}] = 0 /\ i \notin {}
    BY <1>1, <1>2 DEF Sums
  <2> QED BY <2>1
<1>4. ASSUME NEW s \in SUBSET S, s # {}, \A x \in s : s \ {x} \in T PROVE s \in T
  <2>1. PICK x \in s : x = Chosen(s)
    BY <1>4 DEF Chosen
  <2>2. k[s \ {x}] = h[s \ {x}] + (IF i \in s \ {x} THEN g[i] - f[i] ELSE 0)
    BY <1>4
  <2>3. h[s] = f[x] + h[s \ {x}] /\ k[s] = g[x] + k[s \ {x}]
    BY <1>1, <1>2, <1>4, <2>1 DEF Sums
  <2>4. h[s \ {x}] \in Int /\ k[s \ {x}] \in Int /\ f[x] \in Int /\ g[x] \in Int /\ f[i] \in Int /\ g[i] \in Int
    BY <1>1, <1>2 DEF Sums
  <2>5. CASE x = i
    BY <2>2, <2>3, <2>4, <2>5
  <2>6. CASE x # i
    BY <2>2, <2>3, <2>4, <2>6
  <2> QED BY <2>5, <2>6
<1> HIDE DEF T
<1>5. S \in T
  BY <1>3, <1>4, SubsetInduction
<1>6. k[S] = h[S] + (g[i] - f[i]) /\ h[S] \in Int /\ g[i] \in Int /\ f[i] \in Int
  BY <1>1, <1>5 DEF T, Sums
<1> QED BY <1>1, <1>2, <1>6

\* A sum of zeros, and a sum of naturals, which is none of them below.
LEMMA SumNat ==
    ASSUME NEW S, IsFiniteSet(S), NEW f \in [S -> Nat]
    PROVE  /\ SumFunctionOnSet(f, S) \in Nat
           /\ \A i \in S : f[i] <= SumFunctionOnSet(f, S)
           /\ (\A i \in S : f[i] = 0) => SumFunctionOnSet(f, S) = 0
<1>0. f \in [S -> Int]
  OBVIOUS
<1>1. PICK h : Sums(h, f, S) /\ SumFunctionOnSet(f, S) = h[S]
  BY <1>0, FoldSums
<1> DEFINE Ok(s) == /\ h[s] \in Nat
                    /\ \A i \in s : f[i] <= h[s]
                    /\ (\A i \in S : f[i] = 0) => h[s] = 0
           T == {s \in SUBSET S : Ok(s)}
<1>2. {} \in T
  <2>1. h[{}] = 0
    BY <1>1 DEF Sums
  <2> QED BY <2>1
<1>3. ASSUME NEW s \in SUBSET S, s # {}, \A x \in s : s \ {x} \in T PROVE s \in T
  <2>1. PICK x \in s : x = Chosen(s)
    BY <1>3 DEF Chosen
  <2>2. PICK a \in Nat : a = h[s \ {x}]
    BY <1>3
  <2>3. h[s] = f[x] + a /\ f[x] \in Nat
    BY <1>1, <1>3, <2>1, <2>2 DEF Sums
  <2>4. \A i \in s \ {x} : f[i] <= a
    BY <1>3, <2>2
  <2>5. (\A i \in S : f[i] = 0) => a = 0
    BY <1>3, <2>2
  <2>6. ASSUME NEW i \in s PROVE f[i] <= h[s]
    <3>1. CASE i = x
      BY <2>3, <3>1
    <3>2. CASE i # x
      <4>1. f[i] <= a /\ f[i] \in Nat
        BY <2>4, <3>2
      <4> QED BY <2>3, <4>1
    <3> QED BY <3>1, <3>2
  <2> QED BY <2>3, <2>5, <2>6
<1> HIDE DEF T
<1>4. S \in T
  BY <1>2, <1>3, SubsetInduction
<1> QED BY <1>1, <1>4 DEF T
=============================================================================
