-------------------------- MODULE ShardOrderProofs --------------------------
(***************************************************************************)
(* Proof that a shard whose log has one partition never shows a value that *)
(* an acknowledged write has replaced (module Shard): the order in which   *)
(* rows were acknowledged survives flushes, crashes, replays and retries.  *)
(***************************************************************************)
EXTENDS ShardProofs

-----------------------------------------------------------------------------
(* One row after another.                                                  *)

\* After an r in s there is an a.
Cov(s, r, a) == \A i \in DOMAIN s : s[i] = r => \E j \in DOMAIN s : i < j /\ s[j] = a

\* Nothing to follow.
LEMMA CovAbsent ==
    ASSUME NEW s, NEW r, NEW a, r \notin ToSet(s)
    PROVE  Cov(s, r, a)
BY DEF Cov, ToSet

\* The empty sequence.
LEMMA CovEmpty ==
    ASSUME NEW r, NEW a
    PROVE  Cov(<< >>, r, a) /\ ToSet(<< >>) = {}
BY DEF Cov, ToSet

\* Another row at the end.
LEMMA CovAppend ==
    ASSUME NEW T, NEW s \in Seq(T), NEW x \in T, NEW r, NEW a, x # r, Cov(s, r, a) \/ x = a
    PROVE  Cov(Append(s, x), r, a)
<1> DEFINE t == Append(s, x)
<1>1. Len(s) \in Nat /\ DOMAIN s = 1 .. Len(s) /\ DOMAIN t = 1 .. Len(s) + 1
  BY AppendProperties, LenProperties
<1>2. (\A i \in 1 .. Len(s) : t[i] = s[i]) /\ t[Len(s) + 1] = x
  BY AppendProperties
<1> HIDE DEF t
<1>3. ASSUME NEW i \in DOMAIN t, t[i] = r PROVE \E j \in DOMAIN t : i < j /\ t[j] = a
  <2>1. i \in 1 .. Len(s) /\ s[i] = r
    BY <1>1, <1>2, <1>3
  <2>2. CASE x = a
    <3>1. Len(s) + 1 \in DOMAIN t /\ i < Len(s) + 1
      BY <1>1, <2>1
    <3> QED BY <1>2, <2>2, <3>1
  <2>3. CASE Cov(s, r, a)
    <3>1. PICK j \in DOMAIN s : i < j /\ s[j] = a
      BY <1>1, <2>1, <2>3 DEF Cov
    <3>2. j \in DOMAIN t /\ t[j] = a
      BY <1>1, <1>2, <3>1
    <3> QED BY <3>1, <3>2
  <2> QED BY <2>2, <2>3
<1>4. Cov(t, r, a)
  BY <1>3 DEF Cov
<1> QED BY <1>4 DEF t

\* One sequence after another.
LEMMA CovConcat ==
    ASSUME NEW T, NEW s \in Seq(T), NEW t \in Seq(T), NEW r, NEW a,
           Cov(t, r, a), Cov(s, r, a) \/ a \in ToSet(t)
    PROVE  Cov(s \o t, r, a)
<1> DEFINE u == s \o t
           m == Len(s)
           n == Len(t)
<1>1. m \in Nat /\ n \in Nat /\ DOMAIN s = 1 .. m /\ DOMAIN t = 1 .. n /\ DOMAIN u = 1 .. m + n
  BY ConcatProperties, LenProperties
<1>2. (\A i \in 1 .. m : u[i] = s[i]) /\ \A i \in m + 1 .. m + n : u[i] = t[i - m]
  BY <1>1, ConcatProperties
<1> HIDE DEF u, m, n
<1>3. \A j \in 1 .. n : m + j \in 1 .. m + n /\ u[m + j] = t[j]
  <2> TAKE j \in 1 .. n
  <2>1. m + j \in m + 1 .. m + n /\ (m + j) - m = j
    BY <1>1
  <2> QED BY <1>1, <1>2, <2>1
<1>4. ASSUME NEW i \in DOMAIN u, u[i] = r PROVE \E j \in DOMAIN u : i < j /\ u[j] = a
  <2>1. CASE i \in 1 .. m
    <3>1. CASE Cov(s, r, a)
      <4>1. PICK j \in DOMAIN s : i < j /\ s[j] = a
        BY <1>1, <1>2, <1>4, <2>1, <3>1 DEF Cov
      <4>2. j \in DOMAIN u /\ u[j] = a
        BY <1>1, <1>2, <4>1
      <4> QED BY <4>1, <4>2
    <3>2. CASE a \in ToSet(t)
      <4>1. PICK j \in 1 .. n : t[j] = a
        BY <1>1, <3>2 DEF ToSet
      <4>2. m + j \in DOMAIN u /\ u[m + j] = a /\ i < m + j
        BY <1>1, <1>3, <2>1, <4>1
      <4> QED BY <4>2
    <3> QED BY <3>1, <3>2
  <2>2. CASE i \notin 1 .. m
    <3>1. i - m \in 1 .. n /\ i \in m + 1 .. m + n
      BY <1>1, <2>2
    <3>2. t[i - m] = r
      BY <1>2, <1>4, <3>1
    <3>3. PICK j \in 1 .. n : i - m < j /\ t[j] = a
      BY <1>1, <3>1, <3>2 DEF Cov
    <3>4. m + j \in DOMAIN u /\ u[m + j] = a /\ i < m + j
      BY <1>1, <1>3, <3>1, <3>3
    <3> QED BY <3>4
  <2> QED BY <2>1, <2>2
<1>5. Cov(u, r, a)
  BY <1>4 DEF Cov
<1> QED BY <1>5 DEF u

\* The first row is taken off.
LEMMA CovTail ==
    ASSUME NEW T, NEW s \in Seq(T), s # << >>, NEW r, NEW a, Cov(s, r, a)
    PROVE  Cov(Tail(s), r, a) /\ (Head(s) = r => a \in ToSet(Tail(s)))
<1> DEFINE t == Tail(s)
           n == Len(s)
<1>1. t \in Seq(T) /\ Len(t) = n - 1 /\ Head(s) = s[1] /\ \A i \in 1 .. Len(t) : t[i] = s[i + 1]
  BY HeadTailProperties
<1>2. n \in Nat \ {0} /\ DOMAIN s = 1 .. n /\ DOMAIN t = 1 .. n - 1
  BY <1>1, LenProperties, EmptySeq
<1>3. \A i \in 1 .. n - 1 : t[i] = s[i + 1] /\ i + 1 \in 1 .. n
  BY <1>1, <1>2
<1> HIDE DEF t, n
<1>4. ASSUME NEW i \in 1 .. n, s[i] = r PROVE \E j \in 1 .. n - 1 : i < j + 1 /\ t[j] = a
  <2>1. PICK j \in 1 .. n : i < j /\ s[j] = a
    BY <1>2, <1>4 DEF Cov
  <2>2. j - 1 \in 1 .. n - 1 /\ (j - 1) + 1 = j
    BY <1>2, <2>1
  <2>3. t[j - 1] = a
    BY <1>3, <2>1, <2>2
  <2> QED BY <2>1, <2>2, <2>3
<1>5. ASSUME NEW i \in 1 .. n - 1, t[i] = r PROVE \E j \in 1 .. n - 1 : i < j /\ t[j] = a
  <2>1. i + 1 \in 1 .. n /\ s[i + 1] = r
    BY <1>3, <1>5
  <2>2. PICK j \in 1 .. n - 1 : i + 1 < j + 1 /\ t[j] = a
    BY <1>4, <2>1
  <2> QED BY <1>2, <2>2
<1>6. Cov(t, r, a)
  BY <1>2, <1>5 DEF Cov
<1>7. ASSUME Head(s) = r PROVE a \in ToSet(t)
  <2>1. 1 \in 1 .. n /\ s[1] = r
    BY <1>1, <1>2, <1>7
  <2>2. PICK j \in 1 .. n - 1 : t[j] = a
    BY <1>4, <2>1
  <2> QED BY <1>2, <2>2 DEF ToSet
<1> QED BY <1>6, <1>7 DEF t

\* A row that another one follows is not the last.
LEMMA CovLast ==
    ASSUME NEW T, NEW s \in Seq(T), s # << >>, NEW r, NEW a, Cov(s, r, a)
    PROVE  Last(s) # r
<1>1. Len(s) \in Nat \ {0} /\ DOMAIN s = 1 .. Len(s)
  BY LenProperties, EmptySeq
<1>2. Len(s) \in DOMAIN s /\ \A j \in DOMAIN s : ~(Len(s) < j)
  BY <1>1
<1> QED BY <1>2 DEF Cov, Last

\* Many sequences after each other.
LEMMA CovFlatten ==
    ASSUME NEW T, NEW ss \in Seq(Seq(T)), NEW r, NEW a,
           \A i \in DOMAIN ss : Cov(ss[i], r, a) \/ \E j \in DOMAIN ss : i < j /\ a \in ToSet(ss[j])
    PROVE  Cov(FlattenSeq(ss), r, a)
<1> DEFINE n == Len(ss)
<1>0. n \in Nat /\ DOMAIN ss = 1 .. n /\ \A i \in 1 .. n : ss[i] \in Seq(T)
  BY ElementOfSeq, LenProperties
<1>1. PICK f \in [0 .. n -> Seq(T)] :
         /\ FlattenSeq(ss) = f[n] /\ f[0] = << >>
         /\ \A i \in 1 .. n : f[i] = f[i - 1] \o ss[i]
  BY FlattenPrefixes
<1> HIDE DEF n
<1> DEFINE Ahead(m) == \E j \in 1 .. n : m < j /\ a \in ToSet(ss[j])
           P == {m \in Nat : m <= n => Cov(f[m], r, a) \/ Ahead(m)}
<1>2. 0 \in P
  BY <1>1, CovEmpty
<1>3. ASSUME NEW m \in Nat, m \in P PROVE m + 1 \in P
  <2> SUFFICES ASSUME m + 1 <= n, ~Ahead(m + 1) PROVE Cov(f[m + 1], r, a)
    OBVIOUS
  <2>1. m + 1 \in 1 .. n /\ m \in 0 .. n /\ (m + 1) - 1 = m /\ m <= n
    BY <1>0
  <2>2. f[m + 1] = f[m] \o ss[m + 1] /\ f[m] \in Seq(T) /\ ss[m + 1] \in Seq(T)
    BY <1>0, <1>1, <2>1
  <2>3. Cov(ss[m + 1], r, a)
    BY <1>0, <2>1
  <2>4. Cov(f[m], r, a) \/ a \in ToSet(ss[m + 1])
    <3>1. CASE Ahead(m)
      <4>1. PICK j \in 1 .. n : m < j /\ a \in ToSet(ss[j])
        BY <3>1
      <4>2. j = m + 1
        BY <1>0, <4>1
      <4> QED BY <4>1, <4>2
    <3> QED BY <1>3, <2>1, <3>1
  <2> QED BY <2>2, <2>3, <2>4, CovConcat
<1> HIDE DEF P
<1>4. n \in P
  BY <1>0, <1>2, <1>3, NatSetInduction
<1>5. ~Ahead(n)
  BY <1>0
<1> QED BY <1>0, <1>1, <1>4, <1>5 DEF P

-----------------------------------------------------------------------------
(* Files from old to new.                                                  *)

\* The names of files of the one partition.
Named(nm) == [j \in DOMAIN nm |-> <<1, nm[j]>>]
NameOf(f) == <<f.part, f.seq>>

\* s names a file of W only after those of W that are older.
Sweeps(s, W) == \A i \in DOMAIN s : \A f \in W : f.seq < s[i][2] => \E j \in DOMAIN s : j < i /\ s[j] = NameOf(f)
Has(s, W) == \A f \in W : NameOf(f) \in ToSet(s)

\* Fewer files to name.
LEMMA SweepFewer ==
    ASSUME NEW s, NEW W, NEW V,
           \A f \in V : \E g \in W : g.part = f.part /\ g.seq = f.seq
    PROVE  (Sweeps(s, W) => Sweeps(s, V)) /\ (Has(s, W) => Has(s, V))
BY DEF Sweeps, Has, NameOf

\* The names of no files.
LEMMA SweepEmpty ==
    ASSUME NEW W PROVE Sweeps(<< >>, W)
BY DEF Sweeps

\* The first file is the oldest; when it is gone, the rest is named in order.
LEMMA SweepTail ==
    ASSUME NEW T, NEW s \in Seq(T), s # << >>, NEW W, Sweeps(s, W)
    PROVE  LET V == {f \in W : NameOf(f) # Head(s)}
           IN  /\ Sweeps(Tail(s), V) /\ (Has(s, W) => Has(Tail(s), V))
               /\ \A f \in W : ~(f.seq < Head(s)[2])
<1> DEFINE V == {f \in W : NameOf(f) # Head(s)}
           t == Tail(s)
           n == Len(s)
<1>1. t \in Seq(T) /\ Len(t) = n - 1 /\ Head(s) = s[1] /\ \A i \in 1 .. Len(t) : t[i] = s[i + 1]
  BY HeadTailProperties
<1>2. n \in Nat \ {0} /\ DOMAIN s = 1 .. n /\ DOMAIN t = 1 .. n - 1
  BY <1>1, LenProperties, EmptySeq
<1>3. \A i \in 1 .. n - 1 : t[i] = s[i + 1] /\ i + 1 \in 1 .. n
  BY <1>1, <1>2
<1>4. ToSet(s) = {Head(s)} \cup ToSet(t)
  BY TailRange
<1> HIDE DEF t, n
<1>5. ASSUME NEW i \in 1 .. n - 1, NEW f \in V, f.seq < t[i][2]
      PROVE  \E j \in 1 .. n - 1 : j < i /\ t[j] = NameOf(f)
  <2>1. i + 1 \in 1 .. n /\ t[i] = s[i + 1] /\ f \in W
    BY <1>3
  <2>2. PICK j \in 1 .. n : j < i + 1 /\ s[j] = NameOf(f)
    BY <1>2, <1>5, <2>1 DEF Sweeps
  <2>3. j # 1
    BY <1>1, <2>2
  <2>4. j - 1 \in 1 .. n - 1 /\ (j - 1) + 1 = j /\ j - 1 < i
    BY <1>2, <2>2, <2>3
  <2>5. t[j - 1] = NameOf(f)
    BY <1>3, <2>2, <2>4
  <2> QED BY <2>4, <2>5
<1>6. Sweeps(t, V)
  BY <1>2, <1>5 DEF Sweeps
<1>7. Has(s, W) => Has(t, V)
  BY <1>4 DEF Has
<1>8. ASSUME NEW f \in W, f.seq < Head(s)[2] PROVE FALSE
  <2>1. 1 \in 1 .. n /\ s[1] = Head(s)
    BY <1>1, <1>2
  <2>2. PICK j \in 1 .. n : j < 1
    BY <1>2, <1>8, <2>1 DEF Sweeps
  <2> QED BY <1>2, <2>2
<1> QED BY <1>6, <1>7, <1>8 DEF t

\* One list of names after another.
LEMMA SweepConcat ==
    ASSUME NEW T, NEW s \in Seq(T), NEW t \in Seq(T), NEW W, Sweeps(s, W), Sweeps(t, W)
    PROVE  Sweeps(s \o t, W)
<1> DEFINE u == s \o t
           m == Len(s)
           n == Len(t)
<1>1. m \in Nat /\ n \in Nat /\ DOMAIN s = 1 .. m /\ DOMAIN t = 1 .. n /\ DOMAIN u = 1 .. m + n
  BY ConcatProperties, LenProperties
<1>2. (\A i \in 1 .. m : u[i] = s[i]) /\ \A i \in m + 1 .. m + n : u[i] = t[i - m]
  BY <1>1, ConcatProperties
<1> HIDE DEF u, m, n
<1>3. \A j \in 1 .. n : m + j \in 1 .. m + n /\ u[m + j] = t[j]
  <2> TAKE j \in 1 .. n
  <2>1. m + j \in m + 1 .. m + n /\ (m + j) - m = j
    BY <1>1
  <2> QED BY <1>1, <1>2, <2>1
<1>4. ASSUME NEW i \in DOMAIN u, NEW f \in W, f.seq < u[i][2]
      PROVE  \E j \in DOMAIN u : j < i /\ u[j] = NameOf(f)
  <2>1. CASE i \in 1 .. m
    <3>1. PICK j \in 1 .. m : j < i /\ s[j] = NameOf(f)
      BY <1>1, <1>2, <1>4, <2>1 DEF Sweeps
    <3>2. j \in DOMAIN u /\ u[j] = NameOf(f)
      BY <1>1, <1>2, <3>1
    <3> QED BY <3>1, <3>2
  <2>2. CASE i \notin 1 .. m
    <3>1. i - m \in 1 .. n /\ i \in m + 1 .. m + n
      BY <1>1, <2>2
    <3>2. f.seq < t[i - m][2]
      BY <1>2, <1>4, <3>1
    <3>3. PICK j \in 1 .. n : j < i - m /\ t[j] = NameOf(f)
      BY <1>1, <3>1, <3>2 DEF Sweeps
    <3>4. m + j \in DOMAIN u /\ u[m + j] = NameOf(f) /\ m + j < i
      BY <1>1, <1>3, <3>1, <3>3
    <3> QED BY <3>4
  <2> QED BY <2>1, <2>2
<1>5. Sweeps(u, W)
  BY <1>4 DEF Sweeps
<1> QED BY <1>5 DEF u

\* A new file at the end.
LEMMA SweepAppend ==
    ASSUME NEW T, NEW s \in Seq(T), NEW e \in T, NEW W, Sweeps(s, W), Has(s, W)
    PROVE  Sweeps(Append(s, e), W)
<1> DEFINE t == Append(s, e)
           n == Len(s)
<1>1. n \in Nat /\ DOMAIN s = 1 .. n /\ DOMAIN t = 1 .. n + 1
  BY AppendProperties, LenProperties
<1>2. \A i \in 1 .. n : t[i] = s[i]
  BY AppendProperties
<1> HIDE DEF t, n
<1>3. ASSUME NEW i \in 1 .. n + 1, NEW f \in W, f.seq < t[i][2]
      PROVE  \E j \in 1 .. n + 1 : j < i /\ t[j] = NameOf(f)
  <2>1. CASE i \in 1 .. n
    <3>1. PICK j \in 1 .. n : j < i /\ s[j] = NameOf(f)
      BY <1>1, <1>2, <1>3, <2>1 DEF Sweeps
    <3>2. j \in 1 .. n + 1 /\ t[j] = NameOf(f)
      BY <1>1, <1>2, <3>1
    <3> QED BY <3>1, <3>2
  <2>2. CASE i \notin 1 .. n
    <3>1. PICK j \in 1 .. n : s[j] = NameOf(f)
      BY <1>1 DEF Has, ToSet
    <3>2. j \in 1 .. n + 1 /\ t[j] = NameOf(f) /\ j < i
      BY <1>1, <1>2, <2>2, <3>1
    <3> QED BY <3>2
  <2> QED BY <2>1, <2>2
<1>4. Sweeps(t, W)
  BY <1>1, <1>3 DEF Sweeps
<1> QED BY <1>4 DEF t

\* A file that is newer than all that are named.
LEMMA SweepNewer ==
    ASSUME NEW s, NEW W, NEW g, Sweeps(s, W), \A i \in DOMAIN s : ~(g.seq < s[i][2])
    PROVE  Sweeps(s, W \cup {g})
BY DEF Sweeps

\* Names and numbers.
LEMMA NamedFacts ==
    ASSUME NEW s \in Seq(Nat)
    PROVE  /\ Named(s) \in Seq({1} \X Nat) /\ DOMAIN Named(s) = DOMAIN s
           /\ ToSet(Named(s)) = {<<1, q>> : q \in ToSet(s)}
           /\ \A t \in Seq(Nat) : Named(s \o t) = Named(s) \o Named(t)
           /\ \A n \in Nat : Named(Append(s, n)) = Append(Named(s), <<1, n>>)
<1>1. ASSUME NEW u \in Seq(Nat)
      PROVE  /\ Len(u) \in Nat /\ DOMAIN u = 1 .. Len(u) /\ \A j \in 1 .. Len(u) : u[j] \in Nat
             /\ Named(u) \in Seq({1} \X Nat) /\ Len(Named(u)) = Len(u) /\ DOMAIN Named(u) = 1 .. Len(u)
             /\ \A j \in 1 .. Len(u) : Named(u)[j] = <<1, u[j]>>
  <2>1. Len(u) \in Nat /\ DOMAIN u = 1 .. Len(u) /\ \A j \in 1 .. Len(u) : u[j] \in Nat
    BY LenProperties, ElementOfSeq
  <2>2. Named(u) \in [1 .. Len(u) -> {1} \X Nat]
    BY <2>1 DEF Named
  <2>3. \A j \in 1 .. Len(u) : Named(u)[j] = <<1, u[j]>>
    BY <2>1 DEF Named
  <2>4. Named(u) \in Seq({1} \X Nat) /\ Len(Named(u)) = Len(u)
    BY <2>1, <2>2
  <2> QED BY <2>1, <2>2, <2>3, <2>4
<1>2. ToSet(Named(s)) = {<<1, q>> : q \in ToSet(s)}
  BY DEF ToSet, Named
<1>3. ASSUME NEW t \in Seq(Nat) PROVE Named(s \o t) = Named(s) \o Named(t)
  <2> DEFINE u == s \o t
             v == Named(s) \o Named(t)
             m == Len(s)
             n == Len(t)
  <2>1. u \in Seq(Nat) /\ Len(u) = m + n /\ m \in Nat /\ n \in Nat
    BY ConcatProperties, <1>1
  <2>2. /\ \A i \in 1 .. m : u[i] = s[i]
        /\ \A i \in m + 1 .. m + n : u[i] = t[i - m]
    BY <2>1, ConcatProperties
  <2>0. Named(s) \in Seq({1} \X Nat) /\ Len(Named(s)) = m /\ Named(t) \in Seq({1} \X Nat) /\ Len(Named(t)) = n
    BY <1>1
  <2>3. v \in Seq({1} \X Nat) /\ Len(v) = m + n
    <3>1. ASSUME NEW P, NEW x \in Seq(P), NEW y \in Seq(P)
          PROVE  x \o y \in Seq(P) /\ Len(x \o y) = Len(x) + Len(y)
      BY ConcatProperties
    <3> HIDE DEF m, n
    <3> QED BY <2>0, <3>1
  <2>4. /\ \A i \in 1 .. m : v[i] = Named(s)[i]
        /\ \A i \in m + 1 .. m + n : v[i] = Named(t)[i - m]
    BY <1>1, <2>1, ConcatProperties
  <2> HIDE DEF u, v, m, n
  <2>5. \A i \in m + 1 .. m + n : i - m \in 1 .. n
    BY <2>1
  <2>6. \A i \in 1 .. m + n : v[i] = <<1, u[i]>>
    <3> TAKE i \in 1 .. m + n
    <3>1. CASE i \in 1 .. m
      BY <1>1, <2>2, <2>4, <3>1 DEF m
    <3>2. CASE i \in m + 1 .. m + n
      <4>1. v[i] = Named(t)[i - m] /\ u[i] = t[i - m] /\ i - m \in 1 .. n
        BY <2>2, <2>4, <2>5, <3>2
      <4>2. Named(t)[i - m] = <<1, t[i - m]>>
        BY <1>1, <4>1 DEF n
      <4> QED BY <4>1, <4>2
    <3> QED BY <2>1, <3>1, <3>2
  <2>7. DOMAIN u = 1 .. m + n /\ DOMAIN v = 1 .. m + n
    BY <2>1, <2>3, LenProperties
  <2>8. v = [i \in 1 .. m + n |-> v[i]]
    BY <2>3, <2>7
  <2>9. Named(u) = v
    BY <2>6, <2>7, <2>8 DEF Named
  <2> QED BY <2>9 DEF u, v
<1>4. ASSUME NEW n \in Nat PROVE Named(Append(s, n)) = Append(Named(s), <<1, n>>)
  <2> DEFINE u == Append(s, n)
             v == Append(Named(s), <<1, n>>)
             m == Len(s)
  <2>1. u \in Seq(Nat) /\ Len(u) = m + 1 /\ m \in Nat /\ u[m + 1] = n /\ \A i \in 1 .. m : u[i] = s[i]
    BY <1>1, AppendProperties
  <2>2. <<1, n>> \in {1} \X Nat /\ Len(Named(s)) = m /\ Named(s) \in Seq({1} \X Nat)
    BY <1>1
  <2>3. v \in Seq({1} \X Nat) /\ Len(v) = m + 1 /\ v[m + 1] = <<1, n>> /\ \A i \in 1 .. m : v[i] = Named(s)[i]
    BY <2>2, AppendProperties
  <2> HIDE DEF u, v
  <2>4. ASSUME NEW i \in 1 .. m + 1 PROVE v[i] = <<1, u[i]>>
    <3>1. CASE i \in 1 .. m
      <4>1. Named(s)[i] = <<1, s[i]>>
        BY <1>1, <3>1
      <4> QED BY <2>1, <2>3, <3>1, <4>1
    <3>2. CASE i = m + 1
      BY <2>1, <2>3, <3>2
    <3> HIDE DEF m
    <3> QED BY <2>1, <3>1, <3>2
  <2>5. DOMAIN u = 1 .. m + 1 /\ DOMAIN v = 1 .. m + 1
    BY <2>1, <2>3, LenProperties
  <2>6. v = [i \in 1 .. m + 1 |-> v[i]]
    BY <2>3, <2>5
  <2> HIDE DEF m
  <2>7. Named(u) = v
    BY <2>4, <2>5, <2>6 DEF Named
  <2> QED BY <2>7 DEF u, v
<1> QED BY <1>1, <1>2, <1>3, <1>4

-----------------------------------------------------------------------------
(* A log of one partition.                                                 *)

\* The names of the files in the only order there is.
LEMMA OneOrder ==
    ASSUME part = 1, NEW nm, nm[1] \in Seq(Nat), NEW files \in FileOrders(nm)
    PROVE  files = Named(nm[1])
<1> DEFINE ss(o) == [n \in 1 .. part |-> [j \in DOMAIN nm[o[n]] |-> <<o[n], nm[o[n]][j]>>]]
           T == {1} \X Nat
<1>1. PICK o \in SetToSeqs(1 .. part) : files = FlattenSeq(ss(o))
  BY DEF FileOrders
<1>2. IsFiniteSet(1 .. part) /\ Cardinality(1 .. part) = 1
  <2>1. 1 .. part = {1}
    OBVIOUS
  <2> QED BY <2>1, FS_Singleton
<1>3. o \in [1 .. 1 -> 1 .. part]
  BY <1>2, PermutationRange
<1>4. o[1] = 1
  BY <1>3
<1> DEFINE s == ss(o)
<1>5. s = [n \in 1 .. 1 |-> s[n]] /\ s[1] = Named(nm[1])
  BY <1>4 DEF Named
<1> HIDE DEF s, T, ss
<1>6. Named(nm[1]) \in Seq(T)
  BY NamedFacts DEF T
<1>7. s \in [1 .. 1 -> Seq(T)]
  BY <1>5, <1>6
<1>8. s \in Seq(Seq(T)) /\ Len(s) = 1
  <2>1. PICK n \in Nat : n = 1
    OBVIOUS
  <2>2. s \in [1 .. n -> Seq(T)]
    BY <1>7, <2>1
  <2>3. s \in Seq(Seq(T)) /\ Len(s) = n
    BY <2>2
  <2> QED BY <2>1, <2>3
<1>9. PICK f \in [0 .. Len(s) -> Seq(T)] :
         /\ FlattenSeq(s) = f[Len(s)] /\ f[0] = << >>
         /\ \A i \in 1 .. Len(s) : f[i] = f[i - 1] \o s[i]
  BY <1>8, FlattenPrefixes
<1>10. f[1] = f[0] \o s[1]
  <2>1. 1 \in 1 .. Len(s) /\ 1 - 1 = 0
    BY <1>8
  <2> QED BY <1>9, <2>1
<1>11. FlattenSeq(s) = << >> \o Named(nm[1])
  BY <1>5, <1>8, <1>9, <1>10
<1>12. FlattenSeq(s) = Named(nm[1])
  BY <1>6, <1>11, ConcatEmptySeq
<1> QED BY <1>1, <1>12 DEF s

\* The files of the log are read from old to new.
LEMMA FilesSorted ==
    ASSUME TypeDisk, part = 1
    PROVE  /\ \A i, j \in DOMAIN FilesOf(1) : i < j => FilesOf(1)[i] < FilesOf(1)[j]
           /\ FilesOf(1) \in Seq(Nat) /\ ToSet(FilesOf(1)) = {f.seq : f \in wal}
           /\ \A f \in wal : f.part = 1 /\ f.seq \in Nat
<1>1. \A f \in wal : f.part = 1 /\ f.seq \in Nat /\ f.rows \in Seq(Known)
  BY DEF TypeDisk, LogFile
<1>2. FilesOf(1) \in Seq(Nat) /\ ToSet(FilesOf(1)) = Numbers(1)
  BY FilesOfFacts
<1>3. {f.seq : f \in {g \in wal : g.part = 1}} = {f.seq : f \in wal}
  BY <1>1
<1> DEFINE S == {f.seq : f \in wal}
           n == Cardinality(S)
           Sorted(s) == \A i, j \in DOMAIN s : i < j => s[i] < s[j]
<1>4. FilesOf(1) = Ascending(S)
  BY <1>3 DEF FilesOf
<1>5. IsFiniteSet(S)
  <2> DEFINE num == [g \in wal |-> g.seq]
  <2>1. num \in Surjection(wal, S)
    BY DEF Surjection
  <2> QED BY <2>1, FS_Surjection DEF TypeDisk
<1>6. S \in SUBSET Int /\ n \in Nat
  BY <1>1, <1>5, FS_CardinalityType
<1> HIDE DEF S
<1>7. PICK s \in [1 .. n -> S] : \A i, j \in 1 .. n : i < j => s[i] < s[j]
  BY <1>5, <1>6, AscendingExists
<1> HIDE DEF n
<1>8. ASSUME NEW i \in 1 .. n, NEW j \in 1 .. n, i # j PROVE s[i] # s[j]
  <2>1. i < j \/ j < i
    BY <1>6, <1>8
  <2>2. s[i] < s[j] \/ s[j] < s[i]
    BY <1>7, <2>1
  <2>3. s[i] \in Int /\ s[j] \in Int
    BY <1>6
  <2> QED BY <2>2, <2>3
<1>9. s \in SetToSeqs(S)
  BY <1>8 DEF SetToSeqs, n
<1>10. Sorted(s)
  BY <1>7
<1>11. Sorted(Ascending(S))
  BY <1>9, <1>10 DEF Ascending
<1> QED BY <1>1, <1>2, <1>3, <1>4, <1>11 DEF Numbers

\* They are named in this order, and none is left out.
LEMMA FilesSwept ==
    ASSUME TypeDisk, part = 1
    PROVE  Sweeps(Named(FilesOf(1)), wal) /\ Has(Named(FilesOf(1)), wal)
<1> DEFINE F == FilesOf(1)
<1>1. /\ \A i, j \in DOMAIN F : i < j => F[i] < F[j]
      /\ F \in Seq(Nat) /\ ToSet(F) = {f.seq : f \in wal}
      /\ \A f \in wal : f.part = 1 /\ f.seq \in Nat
  BY FilesSorted
<1> HIDE DEF F
<1>2. DOMAIN F \subseteq Nat /\ \A i \in DOMAIN F : F[i] \in Nat
  <2>1. DOMAIN F = 1 .. Len(F) /\ Len(F) \in Nat
    BY <1>1, LenProperties
  <2> QED BY <1>1, <2>1, ElementOfSeq
<1>3. DOMAIN Named(F) = DOMAIN F /\ \A i \in DOMAIN F : Named(F)[i] = <<1, F[i]>>
  BY DEF Named
<1>4. ASSUME NEW f \in wal PROVE \E j \in DOMAIN F : F[j] = f.seq
  BY <1>1 DEF ToSet
<1>5. ASSUME NEW i \in DOMAIN F, NEW f \in wal, f.seq < F[i]
      PROVE  \E j \in DOMAIN F : j < i /\ <<1, F[j]>> = NameOf(f)
  <2>1. PICK j \in DOMAIN F : F[j] = f.seq
    BY <1>4
  <2>2. i # j /\ ~(i < j)
    BY <1>1, <1>2, <1>5, <2>1
  <2>3. j < i
    BY <1>2, <2>2
  <2> QED BY <1>1, <2>1, <2>3 DEF NameOf
<1>6. Sweeps(Named(F), wal)
  BY <1>3, <1>5 DEF Sweeps
<1>7. Has(Named(F), wal)
  BY <1>1, <1>3, <1>4 DEF Has, NameOf, ToSet
<1> QED BY <1>6, <1>7 DEF F

\* What is read again is in the log.
LEMMA RecordsInLog ==
    ASSUME TypeDisk, Unique, NEW nm, NEW p, nm[p] \in Seq(Nat)
    PROVE  ToSet(Records(p, nm)) \subseteq LogRows
<1> DEFINE file(j) == File(<<p, nm[p][j]>>)
           good == {j \in DOMAIN nm[p] : \A m \in Missing(p, nm) : j < m}
           rows(j) == (CHOOSE f \in file(j) : TRUE).rows
           ss == [j \in good |-> rows(j)]
<1>1. Len(nm[p]) \in Nat /\ DOMAIN nm[p] = 1 .. Len(nm[p])
  BY LenProperties
<1>2. \E n \in Nat : good = 1 .. n
  <2>1. CASE Missing(p, nm) = {}
    BY <1>1, <2>1
  <2>2. CASE Missing(p, nm) # {}
    <3>1. Missing(p, nm) \in SUBSET Nat /\ Missing(p, nm) \subseteq 1 .. Len(nm[p])
      BY <1>1 DEF Missing
    <3>2. PICK m \in Missing(p, nm) : \A x \in Missing(p, nm) : m <= x
      BY <2>2, <3>1, LeastNat
    <3>3. m - 1 \in Nat
      BY <1>1, <3>1
    <3>4. good = 1 .. m - 1
      BY <1>1, <3>1, <3>2
    <3> QED BY <3>3, <3>4
  <2> QED BY <2>1, <2>2
<1>3. ASSUME NEW j \in good
      PROVE  rows(j) \in Seq(Known) /\ ToSet(rows(j)) \subseteq LogRows
  <2>1. j \notin Missing(p, nm) /\ j \in DOMAIN nm[p]
    BY <1>1, <1>3
  <2>2. file(j) # {}
    BY <2>1 DEF Missing
  <2>3. PICK f \in file(j) : f = CHOOSE x \in file(j) : TRUE
    BY <2>2
  <2>4. f \in wal
    BY <2>3 DEF File
  <2> QED BY <2>3, <2>4 DEF TypeDisk, LogFile, LogRows
<1>4. ss \in [good -> Seq(Known)]
  BY <1>3
<1>5. ss \in Seq(Seq(Known)) /\ DOMAIN ss = good
  <2> HIDE DEF good, ss
  <2>1. PICK n \in Nat : good = 1 .. n
    BY <1>2
  <2> QED BY <1>4, <2>1
<1>6. ToSet(FlattenSeq(ss)) = UNION {ToSet(ss[i]) : i \in DOMAIN ss}
  BY <1>5, FlattenRange
<1>7. \A i \in good : ToSet(ss[i]) \subseteq LogRows
  BY <1>3
<1>8. Records(p, nm) = IF good = {} THEN << >> ELSE FlattenSeq(ss)
  BY DEF Records
<1> HIDE DEF ss, good
<1>9. ToSet(<< >>) = {}
  BY DEF ToSet
<1> QED BY <1>5, <1>6, <1>7, <1>8, <1>9

\* Every log file that holds r is in order, or a newer one holds a.
Ordered(W, r, a) == \A f \in W : Cov(f.rows, r, a) \/ \E g \in W : f.seq < g.seq /\ a \in ToSet(g.rows)

\* A log whose files are in order is read in order, also when names of an earlier
\* attempt come first.
LEMMA RecordsOrder ==
    ASSUME TypeDisk, Unique, part = 1, NEW s \in Seq(Nat), NEW nm, nm[1] = s \o FilesOf(1),
           Missing(1, nm) = {}, NEW r, NEW a, Ordered(wal, r, a)
    PROVE  Cov(Records(1, nm), r, a)
<1> DEFINE F == FilesOf(1)
           N == nm[1]
           file(j) == File(<<1, N[j]>>)
           rows(j) == (CHOOSE f \in file(j) : TRUE).rows
           ss == [j \in DOMAIN N |-> rows(j)]
           m == Len(s)
           l == Len(F)
<1>1. /\ \A i, j \in DOMAIN F : i < j => F[i] < F[j]
      /\ F \in Seq(Nat) /\ ToSet(F) = {f.seq : f \in wal}
      /\ \A f \in wal : f.part = 1 /\ f.seq \in Nat
  BY FilesSorted
<1>2. N \in Seq(Nat) /\ Len(N) = m + l /\ m \in Nat /\ l \in Nat /\ DOMAIN F = 1 .. l /\ DOMAIN N = 1 .. m + l
  BY <1>1, ConcatProperties, LenProperties
<1>3. \A i \in m + 1 .. m + l : N[i] = F[i - m]
  BY <1>1, <1>2, ConcatProperties
<1>4. {j \in DOMAIN N : \A x \in Missing(1, nm) : j < x} = DOMAIN N
  OBVIOUS
<1>5. Records(1, nm) = IF DOMAIN N = {} THEN << >> ELSE FlattenSeq(ss)
  BY <1>4 DEF Records
<1>6. ASSUME NEW j \in DOMAIN N
      PROVE  \E f \in wal : f.seq = N[j] /\ ss[j] = f.rows /\ f.rows \in Seq(Known)
  <2>1. file(j) # {}
    BY DEF Missing
  <2>2. PICK f \in file(j) : f = CHOOSE x \in file(j) : TRUE
    BY <2>1
  <2>3. f \in wal /\ f.seq = N[j]
    BY <2>2 DEF File
  <2> QED BY <2>2, <2>3 DEF TypeDisk, LogFile
<1> HIDE DEF F, N, ss, m, l
<1>7. ASSUME NEW j \in DOMAIN N, NEW g \in wal, N[j] < g.seq
      PROVE  \E i \in DOMAIN N : j < i /\ N[i] = g.seq
  <2>1. PICK i \in 1 .. l : F[i] = g.seq
    BY <1>1, <1>2 DEF ToSet
  <2>2. m + i \in m + 1 .. m + l /\ (m + i) - m = i /\ m + i \in DOMAIN N
    BY <1>2
  <2>3. N[m + i] = g.seq
    BY <1>3, <2>1, <2>2
  <2>4. CASE j <= m
    <3>1. j < m + i
      BY <1>2, <2>4
    <3> QED BY <2>2, <2>3, <3>1
  <2>5. CASE ~(j <= m)
    <3>1. j - m \in 1 .. l /\ j \in m + 1 .. m + l
      BY <1>2, <2>5
    <3>2. F[j - m] = N[j] /\ F[j - m] \in Nat /\ F[i] \in Nat
      <4>1. \A x \in 1 .. l : F[x] \in Nat
        BY <1>1, ElementOfSeq DEF l
      <4> QED BY <1>3, <3>1, <4>1
    <3>3. ~(i < j - m) /\ i # j - m
      <4>1. F[j - m] < F[i]
        BY <1>7, <2>1, <3>2
      <4>2. i < j - m => F[i] < F[j - m]
        BY <1>1, <1>2, <3>1
      <4> QED BY <3>2, <4>1, <4>2
    <3>4. j < m + i
      BY <1>2, <3>1, <3>3
    <3> QED BY <2>2, <2>3, <3>4
  <2> QED BY <2>4, <2>5
<1>8. DOMAIN ss = DOMAIN N /\ ss = [j \in DOMAIN N |-> ss[j]]
  BY DEF ss
<1>9. ss \in [1 .. m + l -> Seq(Known)]
  BY <1>2, <1>6, <1>8
<1>10. ss \in Seq(Seq(Known))
  <2>1. m + l \in Nat
    BY <1>2
  <2> QED BY <1>9, <2>1
<1>11. ASSUME NEW j \in DOMAIN ss
       PROVE  Cov(ss[j], r, a) \/ \E i \in DOMAIN ss : j < i /\ a \in ToSet(ss[i])
  <2>1. PICK f \in wal : f.seq = N[j] /\ ss[j] = f.rows
    BY <1>6, <1>8
  <2>2. CASE Cov(f.rows, r, a)
    BY <2>1, <2>2
  <2>3. ASSUME NEW g \in wal, f.seq < g.seq, a \in ToSet(g.rows)
        PROVE  \E i \in DOMAIN ss : j < i /\ a \in ToSet(ss[i])
    <3>1. PICK i \in DOMAIN N : j < i /\ N[i] = g.seq
      BY <1>7, <1>8, <2>1, <2>3
    <3>2. PICK h \in wal : h.seq = N[i] /\ ss[i] = h.rows
      BY <1>6, <3>1
    <3>3. h = g
      BY <1>1, <3>1, <3>2 DEF Unique
    <3> QED BY <1>8, <2>3, <3>1, <3>2, <3>3
  <2> QED BY <2>1, <2>2, <2>3 DEF Ordered
<1>12. Cov(FlattenSeq(ss), r, a)
  BY <1>10, <1>11, CovFlatten
<1> QED BY <1>5, <1>12, CovEmpty

-----------------------------------------------------------------------------
(* The inductive invariant.                                                *)

\* What the flush under way has of the snapshot table.
Snap == IF slot[1] = Nil THEN EmptyTable ELSE slot[1].tbl
SnapFiles == IF slot[1] = Nil THEN << >> ELSE slot[1].files
SnapLeft == IF slot[1] = Nil THEN {} ELSE slot[1].left

\* Rows between memtable and log, and rows whose order counts: owed ones and those
\* of the former that will be.
AtWal == {wr[w].row : w \in {v \in Writer : At(v, "wal")}}
Tracked == Owed \union {wr[w].row : w \in {v \in Writer : At(v, "wal") /\ wr[v].idx}}

\* Rows that were acknowledged before a write began.
HistInv ==
    /\ DOMAIN before = DOMAIN key
    /\ \A a \in DOMAIN key : \A r \in before[a] : r \in acked /\ key[r] = key[a] /\ r # a

\* A table has the rows of a key under that key.
KeyOK(t) == \A k \in Key : \A x \in ToSet(t[k]) : key[x] = k
KeyInv == KeyOK(active) /\ KeyOK(Snap) /\ KeyOK(tssp)

\* A row of the log is followed by the rows that replaced it, in its file or a newer
\* one, and a row of a data file likewise or the later row is in the log.
LogOrder == \A a \in Owed : \A r \in before[a] : Ordered(wal, r, a)
FileOrder == \A a \in Owed : \A r \in before[a] : Cov(tssp[key[a]], r, a) \/ a \in LogRows

\* The files that the flush under way will leave; the rows of the active table are
\* there, or will be.
Unflushed == {f \in wal : NameOf(f) \notin ToSet(SnapFiles)}
Outside == UNION {ToSet(f.rows) : f \in Unflushed}
Mirror == Rows(active) \subseteq Outside \union AtWal

\* A shard that is not open has in memory what it has read from the log.
Intact ==
    /\ st \notin {"open"} \union Closing => Rows(active) \union Rows(Snap) \union ToSet(todo[1]) \subseteq LogRows
    /\ st \in {"flush", "remove"} => todo[1] = << >>
    /\ st = "remove" => Rows(active) = {} /\ Rows(Snap) = {}

\* Files are removed from old to new.
Sweep ==
    /\ Sweeps(SnapFiles, wal)
    /\ st = "open" => Sweeps(Named(lw[1].names), Unflushed) /\ Has(Named(lw[1].names), Unflushed)
    /\ st \notin {"open"} \union Closing => Sweeps(Named(names[1]), wal)
    /\ st \in {"replay", "flush"} => Has(Named(names[1]), wal)
    /\ st = "remove" => Sweeps(rm, wal) /\ Has(rm, wal)

\* Reads prefer the active table A to the snapshot table S and that to the data
\* files T: each r in them is followed by an a there or further on.
Chain(k, T, S, L, A, r, a, later) ==
    /\ Cov(A, r, a) \/ later
    /\ Cov(S, r, a) \/ a \in ToSet(A) \/ later
    /\ Cov(T, r, a) \/ (a \in ToSet(S) /\ k \in L) \/ a \in ToSet(A) \/ later

\* Further on are the records to replay, or the log when it has to be read again.
Complete == st \in {"open", "flush", "remove"} \/ (st = "closing" /\ alive)
Reading == st = "replay" /\ ~errs
Later(a) == \/ Reading /\ a \in ToSet(todo[1])
            \/ ~Complete /\ ~Reading /\ a \in Outside
Chained ==
    \A a \in Tracked : \A r \in before[a] :
        Chain(key[a], tssp[key[a]], Snap[key[a]], SnapLeft, active[key[a]], r, a, Later(a))
TodoOrder == Reading => \A a \in Owed : \A r \in before[a] : Cov(todo[1], r, a)

OrderInv ==
    /\ HistInv /\ KeyInv /\ LogOrder /\ FileOrder /\ Mirror /\ Intact /\ Sweep
    /\ Chained /\ TodoOrder

\* The index is loaded from disk when the shard is opened.
IndexLoaded == idxDisk \subseteq idxMem

Good == Inv /\ part = 1 /\ engine = "ts" /\ IndexLoaded /\ OrderInv

-----------------------------------------------------------------------------
(* What a step leaves alone.                                               *)

\* Types, as the steps need them.
LEMMA GoodTypes ==
    ASSUME Good
    PROVE  /\ TypeInv /\ TypeDisk /\ TypeTables /\ TypeRun /\ TypeLog /\ TypeReplay
           /\ Slot = {1} /\ 1 .. part = {1} /\ Unique
           /\ active \in Table /\ tssp \in Table /\ Snap \in Table
           /\ SnapFiles \in Seq(FileName) /\ SnapLeft \subseteq Key
           /\ key \in Seq(Key) /\ Owed \subseteq Known /\ Tracked \subseteq Known /\ Owed \subseteq Tracked
           /\ \A a \in Known : key[a] \in Key
           /\ todo[1] \in Seq(Known) /\ names[1] \in Seq(Nat) /\ rm \in Seq(FileName)
           /\ lw[1].names \in Seq(Nat) /\ lw[1].seq \in Nat
           /\ \A f \in wal : f.part = 1 /\ f.seq \in Nat /\ f.rows \in Seq(Known)
<1>1. /\ TypeInv /\ TypeDisk /\ TypeTables /\ TypeRun /\ TypeLog /\ TypeReplay /\ TypeHist /\ Unique
      /\ part = 1 /\ engine = "ts"
  BY DEF Good, Inv, TypeInv, LogInv
<1>2. Slot = {1} /\ 1 .. part = {1}
  BY <1>1, OneSlot
<1>3. active \in Table /\ tssp \in Table /\ key \in Seq(Key)
  BY <1>1 DEF TypeTables, TypeDisk, TypeHist
<1>4. Snap \in Table /\ SnapFiles \in Seq(FileName) /\ SnapLeft \subseteq Key
  <2>1. slot[1] = Nil \/ slot[1] \in BusySlot
    BY <1>1, <1>2, SlotFacts
  <2>2. CASE slot[1] = Nil
    BY <2>2, EmptyTableFacts, EmptySeq DEF Snap, SnapFiles, SnapLeft
  <2>3. CASE slot[1] \in BusySlot
    <3>1. slot[1] # Nil /\ slot[1].tbl \in Table /\ slot[1].files \in Seq(FileName) /\ slot[1].left \subseteq Key
      BY <1>1, <1>2, <2>3, SlotFacts
    <3> QED BY <3>1 DEF Snap, SnapFiles, SnapLeft
  <2> QED BY <2>1, <2>2, <2>3
<1>5. acked \subseteq Known /\ \A w \in Writer : wr[w].pc \in Working => wr[w].row \in Known
  BY <1>1 DEF TypeHist, Good, Inv, WriterInv
<1>6. Owed \subseteq Known /\ Tracked \subseteq Known /\ Owed \subseteq Tracked
  BY <1>5 DEF Owed, Tracked, At, Working
<1>7. \A a \in Known : key[a] \in Key
  BY <1>3, ElementOfSeq DEF Known
<1>8. todo[1] \in Seq(Known) /\ names[1] \in Seq(Nat) /\ rm \in Seq(FileName)
  BY <1>1, <1>2 DEF TypeReplay, Names
<1>9. lw[1].names \in Seq(Nat) /\ lw[1].seq \in Nat
  BY <1>1, <1>2 DEF TypeLog, Names
<1>10. \A f \in wal : f.part = 1 /\ f.seq \in Nat /\ f.rows \in Seq(Known)
  BY <1>1, <1>2 DEF TypeDisk, LogFile
<1> QED BY <1>1, <1>2, <1>3, <1>4, <1>6, <1>7, <1>8, <1>9, <1>10

\* A row that is owed is in the log or was, not on its way there.
LEMMA OwedLogged ==
    ASSUME Good PROVE Owed \cap AtWal = {} /\ (st # "open" => AtWal = {} /\ Tracked = Owed)
<1>1. WriterInv
  BY DEF Good, Inv
<1>2. ASSUME NEW w \in Writer, At(w, "wal")
      PROVE  /\ st = "open" /\ wr[w].row \notin acked
             /\ \A v \in Writer : At(v, "ack") => wr[v].row # wr[w].row
  BY <1>1, <1>2 DEF WriterInv, At, Working, Fresh
<1> QED BY <1>2 DEF Owed, AtWal, Tracked

\* The same, of the parts of the invariant: what they depend on.
LEMMA HistKept ==
    ASSUME HistInv, UNCHANGED <<key, before>>, acked \subseteq acked' PROVE HistInv'
BY DEF HistInv

\* The rows of a table keep their keys.
LEMMA KeyOKKept ==
    ASSUME NEW t, KeyOK(t), UNCHANGED key PROVE KeyOK(t)'
BY DEF KeyOK

\* Tables that are left alone.
LEMMA KeyKept ==
    ASSUME KeyInv, UNCHANGED <<key, active, Snap, tssp>> PROVE KeyInv'
BY DEF KeyInv, KeyOK

\* A log that is left alone.
LEMMA LogOrderKept ==
    ASSUME LogOrder, UNCHANGED <<before, wal>>, Owed' \subseteq Owed PROVE LogOrder'
BY DEF LogOrder, Ordered

\* Data files that are left alone.
LEMMA FileOrderKept ==
    ASSUME FileOrder, UNCHANGED <<key, before, tssp, wal>>, Owed' \subseteq Owed PROVE FileOrder'
BY DEF FileOrder, LogRows

\* The files that the flush under way leaves.
LEMMA OutsideKept ==
    ASSUME UNCHANGED <<wal, SnapFiles>> PROVE Unflushed' = Unflushed /\ Outside' = Outside /\ LogRows' = LogRows
BY DEF Unflushed, Outside, LogRows

\* An active table that is left alone.
LEMMA MirrorKept ==
    ASSUME Mirror, UNCHANGED <<active, wal, SnapFiles>>, AtWal \subseteq AtWal' PROVE Mirror'
<1>1. Rows(active)' = Rows(active)
  BY DEF Rows
<1> QED BY <1>1, OutsideKept DEF Mirror

\* A shard that stays at its stage.
LEMMA IntactKept ==
    ASSUME Intact, UNCHANGED <<active, Snap, todo, wal, st>> PROVE Intact'
<1>1. Rows(active)' = Rows(active) /\ Rows(Snap)' = Rows(Snap) /\ LogRows' = LogRows
  BY DEF Rows, LogRows
<1> QED BY <1>1 DEF Intact

\* Names of files that are left alone.
LEMMA SweepKept ==
    ASSUME Sweep, UNCHANGED <<SnapFiles, wal, st, lw, names, rm>> PROVE Sweep'
<1>1. Unflushed' = Unflushed
  BY OutsideKept
<1>2. \A s : (Sweeps(s, wal)' <=> Sweeps(s, wal)) /\ (Has(s, wal)' <=> Has(s, wal))
  BY DEF Sweeps, Has
<1>3. \A s : (Sweeps(s, Unflushed)' <=> Sweeps(s, Unflushed)) /\ (Has(s, Unflushed)' <=> Has(s, Unflushed))
  BY <1>1 DEF Sweeps, Has
<1> QED BY <1>1, <1>2, <1>3 DEF Sweep

\* What is still to be read.
LEMMA LaterKept ==
    ASSUME UNCHANGED <<st, alive, errs, todo, wal, SnapFiles>> PROVE \A a : Later(a)' <=> Later(a)
BY OutsideKept DEF Later, Complete, Reading

\* Tables and data files that are left alone.
LEMMA ChainedKept ==
    ASSUME Chained, UNCHANGED <<key, before, tssp, Snap, SnapLeft, active>>, Tracked' \subseteq Tracked,
           \A a \in Tracked' : Later(a) => Later(a)'
    PROVE  Chained'
BY DEF Chained, Chain

\* Records that are left alone.
LEMMA TodoKept ==
    ASSUME TodoOrder, UNCHANGED <<before, todo>>, Reading' => Reading, Owed' \subseteq Owed PROVE TodoOrder'
BY DEF TodoOrder

\* A step that changes none of this.
LEMMA QuietStep ==
    ASSUME OrderInv, UNCHANGED <<key, before, wal, lw, tssp, active, Snap, SnapFiles, SnapLeft>>,
           UNCHANGED <<st, alive, errs, names, todo, rm>>,
           acked \subseteq acked', Owed' \subseteq Owed, Tracked' \subseteq Tracked, AtWal \subseteq AtWal'
    PROVE  OrderInv'
<1>1. HistInv' /\ KeyInv' /\ LogOrder' /\ FileOrder' /\ Mirror'
  BY HistKept, KeyKept, LogOrderKept, FileOrderKept, MirrorKept DEF OrderInv
<1>2. Intact' /\ Sweep' /\ Chained' /\ TodoOrder'
  <2>1. Reading' => Reading
    BY DEF Reading
  <2> QED BY <2>1, IntactKept, SweepKept, LaterKept, ChainedKept, TodoKept DEF OrderInv
<1> QED BY <1>1, <1>2 DEF OrderInv

USE DEF cfgvars, disk, logvars, tables, flushers, replay, history, bounds, Closing

\* The flush under way, when no flush takes a step.
LEMMA SlotSame ==
    ASSUME UNCHANGED slot PROVE UNCHANGED <<Snap, SnapFiles, SnapLeft>>
BY DEF Snap, SnapFiles, SnapLeft, EmptyTable

\* Nobody writes.
LEMMA WritersSame ==
    ASSUME UNCHANGED <<wr, acked>> PROVE Owed' = Owed /\ Tracked' = Tracked /\ AtWal' = AtWal
BY DEF Owed, Tracked, AtWal, At

\* A writer that neither reaches the log nor leaves it.
LEMMA WriterQuiet ==
    ASSUME TypeRun, NEW w \in Writer, wr'[w].pc \notin {"wal", "ack"}, ~At(w, "wal"),
           \A v \in Writer : v # w => wr'[v] = wr[v],
           acked' = acked \/ (acked' = acked \union {wr[w].row} /\ At(w, "ack"))
    PROVE  /\ acked \subseteq acked' /\ Owed' \subseteq Owed /\ Tracked' \subseteq Tracked
           /\ AtWal \subseteq AtWal'
<1>1. Owed' \subseteq Owed
  BY DEF Owed, At
<1>2. \A v \in Writer : At(v, "wal")' <=> At(v, "wal") /\ v # w
  BY DEF At
<1>3. \A v \in Writer : At(v, "wal")' => wr'[v] = wr[v]
  BY <1>2
<1> QED BY <1>1, <1>2, <1>3 DEF Tracked, AtWal

\* The steps of a write outside memtable and log.
LEMMA WriteQuietly ==
    ASSUME Good, NEW w \in Writer,
           \/ WriteLock(w) \/ (\E ok \in BOOLEAN : WriteIndex(w, ok)) \/ WriteLacks(w)
           \/ WriteTableFails(w) \/ WriteAck(w) \/ WriteNack(w) \/ WriteLate(w)
    PROVE  OrderInv'
<1>1. UNCHANGED <<key, before, wal, lw, tssp, active, slot>>
  BY DEF WriteLock, WriteIndex, WriteLacks, WriteTableFails, WriteAck, WriteNack, WriteLate
<1>2. UNCHANGED <<st, alive, errs, names, todo, rm>>
  BY DEF WriteLock, WriteIndex, WriteLacks, WriteTableFails, WriteAck, WriteNack, WriteLate
<1>3. TypeRun
  BY GoodTypes
<1>4. /\ wr'[w].pc \notin {"wal", "ack"} /\ ~At(w, "wal")
      /\ \A v \in Writer : v # w => wr'[v] = wr[v]
  BY <1>3 DEF WriteLock, WriteIndex, WriteLacks, WriteTableFails, WriteAck, WriteNack, WriteLate,
      At, Goto, Idle, TypeRun
<1>5. acked' = acked \/ (acked' = acked \union {wr[w].row} /\ At(w, "ack"))
  BY DEF WriteLock, WriteIndex, WriteLacks, WriteTableFails, WriteAck, WriteNack, WriteLate
<1>6. /\ acked \subseteq acked' /\ Owed' \subseteq Owed /\ Tracked' \subseteq Tracked
      /\ AtWal \subseteq AtWal'
  BY <1>3, <1>4, <1>5, WriterQuiet
<1> QED BY <1>1, <1>2, <1>6, SlotSame, QuietStep DEF Good

\* Steps of others that touch nothing of what the order depends on.
LEMMA FrameStep ==
    ASSUME OrderInv, UNCHANGED <<key, before, acked, wr, wal, lw, tssp, active>>,
           UNCHANGED <<Snap, SnapFiles, SnapLeft, st, alive, errs, names, todo, rm>>
    PROVE  OrderInv'
BY WritersSame, QuietStep

\* Steps of the flushers that touch no table.
LEMMA FlushQuietly ==
    ASSUME Good, NEW f \in Flusher,
           \/ Tick \/ ForceFlush \/ WaitStorage(f) \/ WaitSnapshot(f) \/ CloseBegin
           \/ (WriteSnapshot(f) /\ ~alive) \/ (DisableForceFlush(f) /\ f # "replay") \/ UNCHANGED vars
    PROVE  OrderInv'
<1>1. UNCHANGED <<key, before, acked, wr, wal, lw, tssp, active, slot>>
  BY DEF Tick, ForceFlush, WaitStorage, WaitSnapshot, CloseBegin, WriteSnapshot, DisableForceFlush, vars
<1>2. UNCHANGED <<st, alive, errs, names, todo, rm>>
  BY DEF Tick, ForceFlush, WaitStorage, WaitSnapshot, CloseBegin, WriteSnapshot, DisableForceFlush, vars
<1> QED BY <1>1, <1>2, SlotSame, FrameStep DEF Good

\* The stages of a flush that write no rows.
LEMMA StageQuietly ==
    ASSUME Good, IndexFlush(1) \/ FreeResource(1)
    PROVE  OrderInv'
<1>1. UNCHANGED <<key, before, acked, wr, wal, lw, tssp, active>>
  BY DEF IndexFlush, FreeResource
<1>2. UNCHANGED <<st, alive, errs, names, todo, rm, part, engine>>
  BY DEF IndexFlush, FreeResource
<1>3. 1 \in Slot /\ TypeTables
  BY GoodTypes
<1>4. /\ slot[1] # Nil /\ slot'[1] # Nil /\ slot'[1].tbl = slot[1].tbl
      /\ slot'[1].files = slot[1].files /\ slot'[1].left = slot[1].left
  BY <1>1, <1>2, <1>3, SlotKept, SlotFacts
<1>5. UNCHANGED <<Snap, SnapFiles, SnapLeft>>
  BY <1>4 DEF Snap, SnapFiles, SnapLeft, Nil
<1> QED BY <1>1, <1>2, <1>5, FrameStep DEF Good

-----------------------------------------------------------------------------
(* The steps of a write.                                                   *)

\* A new row is after all that are acknowledged.
LEMMA WriteRowsOrder ==
    ASSUME Good, NEW w \in Writer, NEW k \in Key, WriteRows(w, k)
    PROVE  OrderInv'
<1> DEFINE n == Len(key) + 1
           b == {r \in acked : key[r] = k}
<1>1. UNCHANGED <<acked, wal, lw, tssp, active, slot, st, alive, errs, names, todo, rm>>
  BY DEF WriteRows
<1>2. key' = Append(key, k) /\ before' = Append(before, b) /\ wr[w].pc = "idle"
  BY DEF WriteRows, At
<1>3. /\ TypeRun /\ key \in Seq(Key) /\ Tracked \subseteq Known /\ Owed \subseteq Tracked
      /\ active \in Table /\ tssp \in Table /\ Snap \in Table
  BY GoodTypes
<1>4. before \in Seq(SUBSET Known) /\ acked \subseteq Known
  BY DEF Good, Inv, TypeInv, TypeHist
<1>5. HistInv /\ KeyInv /\ LogOrder /\ FileOrder /\ Mirror /\ Intact /\ Sweep /\ Chained /\ TodoOrder
  BY DEF Good, OrderInv
<1>6. Len(key) \in Nat /\ DOMAIN key = Known /\ Len(before) = Len(key) /\ DOMAIN before = Known
  <2>1. Len(key) \in Nat /\ DOMAIN key = 1 .. Len(key) /\ Len(before) \in Nat /\ DOMAIN before = 1 .. Len(before)
    BY <1>3, <1>4, LenProperties
  <2>2. DOMAIN before = DOMAIN key
    BY <1>5 DEF HistInv
  <2>3. Len(before) = Len(key)
    <3>1. ASSUME NEW m \in Nat, NEW q \in Nat, 1 .. m = 1 .. q PROVE m = q
      <4>1. (m \in 1 .. m <=> m \in 1 .. q) /\ (q \in 1 .. m <=> q \in 1 .. q)
        BY <3>1
      <4> QED BY <4>1
    <3>2. 1 .. Len(before) = 1 .. Len(key)
      BY <2>1, <2>2
    <3> QED BY <2>1, <3>1, <3>2
  <2> QED BY <2>1, <2>2, <2>3 DEF Known
<1>7. /\ DOMAIN key' = 1 .. n /\ DOMAIN before' = 1 .. n /\ key'[n] = k /\ before'[n] = b
      /\ \A x \in Known : key'[x] = key[x] /\ before'[x] = before[x]
  <2>1. b \in SUBSET Known
    BY <1>4
  <2> HIDE DEF b
  <2>2. DOMAIN key' = 1 .. n /\ key'[n] = k /\ \A x \in Known : key'[x] = key[x]
    BY <1>2, <1>3, <1>6, AppendProperties DEF Known
  <2>3. DOMAIN before' = 1 .. n /\ before'[n] = b /\ \A x \in Known : before'[x] = before[x]
    BY <1>2, <1>4, <1>6, <2>1, AppendProperties DEF Known
  <2> QED BY <2>2, <2>3
<1>8. 1 .. n = Known \union {n} /\ n \notin Known
  BY <1>6 DEF Known
<1> HIDE DEF n
<1>9. HistInv'
  <2>1. ASSUME NEW a \in Known, NEW r \in before'[a]
        PROVE  r \in acked' /\ key'[r] = key'[a] /\ r # a
    <3>1. r \in acked /\ key[r] = key[a] /\ r # a
      BY <1>5, <1>6, <1>7, <2>1 DEF HistInv
    <3>2. r \in Known
      BY <1>4, <3>1
    <3> QED BY <1>1, <1>7, <3>1, <3>2
  <2>2. ASSUME NEW r \in before'[n]
        PROVE  r \in acked' /\ key'[r] = key'[n] /\ r # n
    <3>1. r \in acked /\ key[r] = k
      BY <1>7, <2>2
    <3>2. r \in Known
      BY <1>4, <3>1
    <3> QED BY <1>1, <1>7, <1>8, <3>1, <3>2
  <2> QED BY <1>7, <1>8, <2>1, <2>2 DEF HistInv
<1>10. UNCHANGED <<Snap, SnapFiles, SnapLeft>>
  BY <1>1, SlotSame
<1>11. KeyInv'
  <2>1. ASSUME NEW t \in Table, KeyOK(t) PROVE \A j \in Key : \A x \in ToSet(t[j]) : key'[x] = j
    <3>1. ASSUME NEW j \in Key, NEW x \in ToSet(t[j]) PROVE key'[x] = j
      <4>1. t[j] \in Seq(Known)
        BY DEF Table
      <4>2. x \in Known
        BY <3>1, <4>1, ElementOfSeq, LenProperties DEF ToSet
      <4> QED BY <1>7, <2>1, <3>1, <4>2 DEF KeyOK
    <3> QED BY <3>1
  <2> QED BY <1>1, <1>3, <1>5, <1>10, <2>1 DEF KeyInv, KeyOK
<1>12. Owed' \subseteq Owed /\ Tracked' \subseteq Tracked /\ AtWal \subseteq AtWal'
  <2>1. wr'[w].pc = "checked" /\ \A v \in Writer : v # w => wr'[v] = wr[v]
    BY <1>3 DEF WriteRows, TypeRun
  <2> QED BY <1>1, <1>2, <1>3, <2>1, WriterQuiet DEF At
<1>13. \A a \in Tracked' : a \in Tracked /\ key'[a] = key[a] /\ before'[a] = before[a]
  BY <1>3, <1>7, <1>12
<1>14. \A a \in Owed' : a \in Owed /\ key'[a] = key[a] /\ before'[a] = before[a]
  BY <1>3, <1>7, <1>12
<1>15. LogRows' = LogRows /\ (\A a : Later(a)' <=> Later(a)) /\ (Reading' <=> Reading)
  BY <1>1, <1>10, OutsideKept, LaterKept DEF Reading
<1>16. LogOrder'
  BY <1>1, <1>5, <1>14 DEF LogOrder, Ordered
<1>17. FileOrder'
  BY <1>1, <1>5, <1>14, <1>15 DEF FileOrder
<1>18. Mirror' /\ Intact' /\ Sweep'
  BY <1>1, <1>5, <1>10, <1>12, MirrorKept, IntactKept, SweepKept
<1>19. Chained'
  BY <1>1, <1>5, <1>10, <1>13, <1>15 DEF Chained, Chain
<1>20. TodoOrder'
  BY <1>1, <1>5, <1>14, <1>15 DEF TodoOrder
<1> QED BY <1>9, <1>11, <1>16, <1>17, <1>18, <1>19, <1>20 DEF OrderInv

\* Another row in the active table.
LEMMA ChainAppend ==
    ASSUME NEW k, NEW K, NEW T, NEW S, NEW L, NEW A \in Seq(K), NEW x \in K, NEW r, NEW a,
           NEW later \in BOOLEAN, NEW after \in BOOLEAN,
           x # r, x = a \/ (Chain(k, T, S, L, A, r, a, later) /\ (later => after))
    PROVE  Chain(k, T, S, L, Append(A, x), r, a, after)
<1>1. ToSet(Append(A, x)) = ToSet(A) \union {x}
  BY AppendRange
<1>2. CASE x = a
  BY <1>1, <1>2, CovAppend DEF Chain
<1>3. CASE Chain(k, T, S, L, A, r, a, later) /\ (later => after)
  <2>1. Cov(A, r, a) => Cov(Append(A, x), r, a)
    BY CovAppend
  <2> QED BY <1>1, <1>3, <2>1 DEF Chain
<1> QED BY <1>2, <1>3

\* A row of its key is at the end of the table.
LEMMA AddRowAt ==
    ASSUME key \in Seq(Key), NEW t \in Table, NEW x \in Known
    PROVE  /\ AddRow(t, x)[key[x]] = Append(t[key[x]], x)
           /\ \A k \in Key : k # key[x] => AddRow(t, x)[k] = t[k]
           /\ KeyOK(t) => KeyOK(AddRow(t, x))
<1>1. key[x] \in Key
  BY ElementOfSeq DEF Known
<1>2. /\ AddRow(t, x)[key[x]] = Append(t[key[x]], x)
      /\ \A k \in Key : k # key[x] => AddRow(t, x)[k] = t[k]
  BY <1>1 DEF AddRow, Table
<1>3. ToSet(AddRow(t, x)[key[x]]) = ToSet(t[key[x]]) \union {x}
  <2>1. t[key[x]] \in Seq(Known)
    BY <1>1 DEF Table
  <2> QED BY <1>2, <2>1, AppendRange
<1>4. KeyOK(t) => KeyOK(AddRow(t, x))
  BY <1>1, <1>2, <1>3 DEF KeyOK
<1> QED BY <1>2, <1>4

\* A row enters the memtable before its write is acknowledged.
LEMMA WriteTableOrder ==
    ASSUME Good, NEW w \in Writer, WriteTable(w)
    PROVE  OrderInv'
<1> DEFINE x == wr[w].row
<1>1. UNCHANGED <<key, before, acked, wal, lw, tssp, slot, st, alive, errs, names, todo, rm>>
  BY DEF WriteTable
<1>2. active' = (IF wr[w].idx THEN AddRow(active, x) ELSE active) /\ wr[w].pc = "mem"
  BY DEF WriteTable, At, TableTakes, Good
<1>3. /\ TypeRun /\ key \in Seq(Key) /\ Tracked \subseteq Known /\ Owed \subseteq Tracked
      /\ active \in Table /\ tssp \in Table /\ Snap \in Table /\ \A a \in Known : key[a] \in Key
  BY GoodTypes
<1>4. HistInv /\ KeyInv /\ LogOrder /\ FileOrder /\ Mirror /\ Intact /\ Sweep /\ Chained /\ TodoOrder
  BY DEF Good, OrderInv
<1>5. st = "open" /\ x \in Known /\ x \notin acked
  BY <1>2 DEF Good, Inv, WriterInv, Working, Fresh
<1>6. wr'[w].pc = "wal" /\ wr'[w].row = x /\ wr'[w].idx = wr[w].idx /\ \A v \in Writer : v # w => wr'[v] = wr[v]
  BY <1>3 DEF WriteTable, Goto, TypeRun
<1>7. /\ Owed' \subseteq Owed /\ AtWal' = AtWal \union {x}
      /\ Tracked' \subseteq Tracked \union {x} /\ (~wr[w].idx => Tracked' \subseteq Tracked)
  <2>1. Owed' \subseteq Owed
    BY <1>1, <1>6 DEF Owed, At
  <2> QED BY <1>2, <1>6, <2>1 DEF Tracked, AtWal, At
<1> HIDE DEF x
<1>8. UNCHANGED <<Snap, SnapFiles, SnapLeft>>
  BY <1>1, SlotSame
<1>9. KeyInv'
  <2>1. KeyOK(active')
    BY <1>2, <1>3, <1>4, <1>5, AddRowAt DEF KeyInv
  <2> QED BY <1>1, <1>4, <1>8, <2>1 DEF KeyInv, KeyOK
<1>10. Rows(active)' \subseteq Rows(active) \union {x}
  <2>1. Rows(active') \subseteq Rows(active) \union {x}
    BY <1>2, <1>3, <1>5, AddRowFacts
  <2> QED BY <2>1 DEF Rows
<1>11. Mirror' /\ Intact'
  BY <1>1, <1>4, <1>5, <1>7, <1>8, <1>10, OutsideKept DEF Mirror, Intact
<1>12. TodoOrder' /\ ~Later(x) /\ \A a : ~Later(a) /\ ~Later(a)'
  BY <1>1, <1>5 DEF TodoOrder, Later, Reading, Complete
<1>13. ASSUME NEW a \in Tracked', NEW r \in before[a]
       PROVE  Chain(key[a], tssp[key[a]], Snap[key[a]], SnapLeft, active'[key[a]], r, a, FALSE)
  <2>1. a \in Known /\ r \in acked /\ r # x /\ key[a] \in Key
    <3>1. a \in Known /\ DOMAIN key = Known
      BY <1>3, <1>5, <1>7, LenProperties DEF Known
    <3> QED BY <1>3, <1>4, <1>5, <1>13, <3>1 DEF HistInv
  <2>2. a = x \/ Chain(key[a], tssp[key[a]], Snap[key[a]], SnapLeft, active[key[a]], r, a, FALSE)
    BY <1>4, <1>7, <1>12, <1>13 DEF Chained, Chain
  <2>3. CASE active'[key[a]] = active[key[a]] /\ a # x
    BY <2>2, <2>3
  <2>4. CASE active'[key[a]] = Append(active[key[a]], x)
    <3>1. active[key[a]] \in Seq(Known)
      BY <1>3, <2>1 DEF Table
    <3> QED BY <1>5, <2>1, <2>2, <2>4, <3>1, ChainAppend
  <2>5. CASE active'[key[a]] = active[key[a]] /\ ~wr[w].idx
    BY <1>7, <1>4, <1>12, <1>13, <2>5 DEF Chained, Chain
  <2>6. CASE wr[w].idx
    <3>1. active' = AddRow(active, x)
      BY <1>2, <2>6
    <3>2. /\ key[a] = key[x] => active'[key[a]] = Append(active[key[a]], x)
          /\ key[a] # key[x] => active'[key[a]] = active[key[a]]
      BY <1>3, <1>5, <2>1, <3>1, AddRowAt
    <3> QED BY <2>3, <2>4, <3>2
  <2> QED BY <1>2, <2>5, <2>6
<1>14. Chained'
  BY <1>1, <1>8, <1>12, <1>13 DEF Chained, Chain
<1> QED BY <1>1, <1>4, <1>7, <1>8, <1>9, <1>11, <1>12, <1>14, HistKept, LogOrderKept, FileOrderKept,
      SweepKept DEF OrderInv

\* The newest file, h, becomes g; if there is none, h is empty and in no log.
Grows(h, g, x) ==
    /\ h.part = 1 /\ g.part = 1 /\ g.seq = h.seq /\ g.seq \in Nat
    /\ h.rows \in Seq(Known) /\ g.rows = Append(h.rows, x)
    /\ wal' = (wal \ {h}) \union {g} /\ \A f \in wal : f = h \/ f.seq < g.seq
    /\ NameOf(g) \notin ToSet(SnapFiles)
    /\ h \in wal => lw' = lw
    /\ h \notin wal => /\ h.rows = << >> /\ lw'[1].names = Append(lw[1].names, g.seq)
                       /\ \A i \in DOMAIN SnapFiles : ~(g.seq < SnapFiles[i][2])

\* The record goes to the end of the newest file.
LEMMA LogGrows ==
    ASSUME Good, st = "open", NEW x \in Known, LogWrite(1, x)
    PROVE  \E h, g : Grows(h, g, x)
<1> DEFINE q == lw[1].seq
           nm == lw[1].names
<1>1. /\ q \in Nat /\ nm \in Seq(Nat) /\ 1 .. part = {1} /\ Slot = {1} /\ Unique /\ TypeLog /\ TypeTables
      /\ SnapFiles \in Seq(FileName)
      /\ \A f \in wal : f.part = 1 /\ f.seq \in Nat /\ f.rows \in Seq(Known)
  BY GoodTypes
<1>2. /\ \A f \in wal : f.seq <= q
      /\ lw[1].fd => q \in ToSet(nm)
      /\ \A n \in ToSet(nm) : n <= q /\ File(<<1, n>>) # {}
  BY <1>1 DEF Good, Inv, LogInv
<1>3. ASSUME NEW n \in ToSet(SnapFiles) PROVE n[1] = 1 /\ n[2] \in Nat /\ n[2] <= q /\ n[2] \notin ToSet(nm)
  <2>1. slot[1] # Nil /\ n \in ToSet(slot[1].files)
    BY <1>3, CovEmpty DEF SnapFiles
  <2>2. 1 \in Filled /\ SlotFilesInv
    BY <1>1, <2>1 DEF Filled, Good, Inv
  <2>3. n \in FileName
    BY <1>1, <1>3, ElementOfSeq, LenProperties DEF ToSet
  <2>4. n[2] <= lw[n[1]].seq /\ n[2] \notin ToSet(lw[n[1]].names)
    BY <2>1, <2>2 DEF SlotFilesInv
  <2> QED BY <1>1, <2>3, <2>4 DEF FileName
<1>4. CASE NeedFile(1)
  <2> DEFINE h == [part |-> 1, seq |-> q + 1, rows |-> << >>]
             g == [part |-> 1, seq |-> q + 1, rows |-> <<x>>]
  <2>1. wal' = wal \union {g}
    BY <1>4 DEF LogWrite
  <2>2. lw'[1].names = Append(nm, q + 1)
    BY <1>1, <1>4 DEF LogWrite, TypeLog
  <2>3. \A f \in wal : f.seq < q + 1
    BY <1>1, <1>2
  <2>4. h \notin wal
    BY <1>1, <2>3
  <2>5. << >> \in Seq(Known) /\ <<x>> = Append(<< >>, x)
    OBVIOUS
  <2>6. NameOf(g) \notin ToSet(SnapFiles)
    BY <1>1, <1>3 DEF NameOf
  <2>7. \A i \in DOMAIN SnapFiles : ~(q + 1 < SnapFiles[i][2])
    <3>1. \A i \in DOMAIN SnapFiles : SnapFiles[i] \in ToSet(SnapFiles)
      BY DEF ToSet
    <3> QED BY <1>1, <1>3, <3>1
  <2>8. wal' = (wal \ {h}) \union {g}
    BY <2>1, <2>4
  <2>9. h.part = 1 /\ g.part = 1 /\ g.seq = q + 1 /\ h.seq = q + 1 /\ h.rows = << >> /\ g.rows = <<x>> /\ q + 1 \in Nat
    BY <1>1
  <2> HIDE DEF h, g
  <2>10. Grows(h, g, x)
    BY <2>2, <2>3, <2>4, <2>5, <2>6, <2>7, <2>8, <2>9 DEF Grows
  <2> QED BY <2>10
<1>5. CASE ~NeedFile(1)
  <2> DEFINE chg(f) == IF f.part = 1 /\ f.seq = q THEN [f EXCEPT !.rows = Append(@, x)] ELSE f
  <2>1. wal' = {chg(f) : f \in wal} /\ lw' = lw
    BY <1>5 DEF LogWrite
  <2>2. q \in ToSet(nm) /\ File(<<1, q>>) # {}
    BY <1>2, <1>5 DEF NeedFile
  <2>3. PICK h \in wal : h.part = 1 /\ h.seq = q
    BY <2>2 DEF File
  <2> DEFINE g == [h EXCEPT !.rows = Append(@, x)]
  <2>4. g.part = 1 /\ g.seq = q /\ g.rows = Append(h.rows, x)
    <3>1. h \in LogFile
      BY GoodTypes DEF TypeDisk
    <3> QED BY <2>3, <3>1 DEF LogFile
  <2>5. chg(h) = g /\ \A f \in wal : f # h => chg(f) = f
    BY <1>1, <2>3 DEF Unique
  <2> HIDE DEF g, chg
  <2>6. wal' = (wal \ {h}) \union {g}
    BY <2>1, <2>3, <2>5
  <2>7. \A f \in wal : f = h \/ f.seq < q
    <3>1. \A f \in wal : f = h \/ f.seq # q
      BY <1>1, <2>3 DEF Unique
    <3> QED BY <1>1, <1>2, <3>1
  <2>8. NameOf(g) \notin ToSet(SnapFiles)
    BY <1>3, <2>2, <2>4 DEF NameOf
  <2>9. Grows(h, g, x)
    BY <1>1, <2>1, <2>3, <2>4, <2>6, <2>7, <2>8 DEF Grows
  <2> QED BY <2>9
<1> QED BY <1>4, <1>5

\* The log with one more record.
LEMMA GrownOrder ==
    ASSUME Good, NEW x \in Known, NEW h, NEW g, Grows(h, g, x), NEW r, NEW a, x # r,
           x = a \/ Ordered(wal, r, a)
    PROVE  Ordered(wal', r, a)
<1>1. /\ h.rows \in Seq(Known) /\ g.rows = Append(h.rows, x) /\ g.seq = h.seq /\ g.seq \in Nat
      /\ wal' = (wal \ {h}) \union {g} /\ (h \notin wal => h.rows = << >>)
      /\ \A f \in wal : f = h \/ f.seq < g.seq
  BY DEF Grows
<1>2. ToSet(g.rows) = ToSet(h.rows) \union {x}
  BY <1>1, AppendRange
<1>3. \A f \in wal : f.seq \in Nat
  BY GoodTypes
<1>4. CASE x = a
  <2>1. Cov(g.rows, r, a)
    BY <1>1, <1>4, CovAppend
  <2> QED BY <1>1, <1>2, <1>4, <2>1 DEF Ordered
<1>5. CASE Ordered(wal, r, a)
  <2>1. ASSUME NEW f \in wal, f # h
        PROVE  Cov(f.rows, r, a) \/ \E d \in wal' : f.seq < d.seq /\ a \in ToSet(d.rows)
    <3>1. CASE Cov(f.rows, r, a)
      BY <3>1
    <3>2. CASE \E d \in wal : f.seq < d.seq /\ a \in ToSet(d.rows)
      <4>1. PICK d \in wal : f.seq < d.seq /\ a \in ToSet(d.rows)
        BY <3>2
      <4>2. CASE d = h
        BY <1>1, <1>2, <4>1, <4>2
      <4> QED BY <1>1, <4>1, <4>2
    <3> QED BY <1>5, <3>1, <3>2 DEF Ordered
  <2>2. Cov(g.rows, r, a)
    <3>1. CASE h \notin wal
      BY <1>1, <3>1, CovEmpty, CovAppend
    <3>2. CASE h \in wal
      <4>1. ~\E d \in wal : h.seq < d.seq
        BY <1>1, <1>3, <3>2
      <4>2. Cov(h.rows, r, a)
        BY <1>5, <3>2, <4>1 DEF Ordered
      <4> QED BY <1>1, <4>2, CovAppend
    <3> QED BY <3>1, <3>2
  <2> QED BY <1>1, <2>1, <2>2 DEF Ordered
<1> QED BY <1>4, <1>5

\* The names of its files.
LEMMA GrownSweep ==
    ASSUME Good, st = "open", UNCHANGED <<st, SnapFiles>>, NEW x \in Known, NEW h, NEW g, Grows(h, g, x)
    PROVE  Sweep' /\ Outside' = Outside \union {x}
<1> DEFINE s == SnapFiles
           n == Named(lw[1].names)
<1>1. /\ h.rows \in Seq(Known) /\ g.rows = Append(h.rows, x) /\ g.seq = h.seq /\ g.seq \in Nat
      /\ g.part = 1 /\ h.part = 1
      /\ wal' = (wal \ {h}) \union {g} /\ NameOf(g) \notin ToSet(s)
  BY DEF Grows
<1>2. Sweeps(s, wal) /\ Sweeps(n, Unflushed) /\ Has(n, Unflushed)
  BY DEF Good, OrderInv, Sweep
<1>3. NameOf(h) = NameOf(g)
  BY <1>1 DEF NameOf
<1>4. Unflushed' = (Unflushed \ {h}) \union {g}
  BY <1>1, <1>3 DEF Unflushed
<1>5. ToSet(g.rows) = ToSet(h.rows) \union {x}
  BY <1>1, AppendRange
<1>6. CASE h \in wal
  <2>1. h \in Unflushed /\ lw' = lw
    BY <1>1, <1>3, <1>6 DEF Unflushed, Grows
  <2>2. Outside' = Outside \union {x}
    BY <1>4, <1>5, <2>1 DEF Outside
  <2>3. \A f \in wal' : \E d \in wal : d.part = f.part /\ d.seq = f.seq
    BY <1>1, <1>6
  <2>4. \A f \in Unflushed' : \E d \in Unflushed : d.part = f.part /\ d.seq = f.seq
    BY <1>1, <1>4, <2>1
  <2>5. Sweeps(s, wal') /\ Sweeps(n, Unflushed') /\ Has(n, Unflushed')
    BY <1>2, <2>3, <2>4, SweepFewer
  <2> QED BY <2>1, <2>2, <2>5 DEF Sweep
<1>7. CASE h \notin wal
  <2>1. /\ wal' = wal \union {g} /\ Unflushed' = Unflushed \union {g} /\ h.rows = << >>
        /\ lw'[1].names = Append(lw[1].names, g.seq)
        /\ \A i \in DOMAIN s : ~(g.seq < s[i][2])
    BY <1>1, <1>4, <1>7 DEF Grows, Unflushed
  <2>2. Outside' = Outside \union {x}
    BY <1>5, <2>1, CovEmpty DEF Outside
  <2>3. Sweeps(s, wal')
    BY <1>2, <2>1, SweepNewer
  <2>4. Named(lw'[1].names) = Append(n, NameOf(g)) /\ n \in Seq({1} \X Nat) /\ NameOf(g) \in {1} \X Nat
    <3>1. lw[1].names \in Seq(Nat)
      BY GoodTypes
    <3>2. NameOf(g) = <<1, g.seq>>
      BY <1>1 DEF NameOf
    <3> QED BY <1>1, <2>1, <3>1, <3>2, NamedFacts
  <2>5. Sweeps(Append(n, NameOf(g)), Unflushed)
    BY <1>2, <2>4, SweepAppend
  <2>6. \A i \in DOMAIN Append(n, NameOf(g)) : ~(g.seq < Append(n, NameOf(g))[i][2])
    <3> DEFINE m == Append(n, NameOf(g))
    <3>1. ToSet(m) = ToSet(n) \union {NameOf(g)}
      BY <2>4, AppendRange
    <3>2. ToSet(n) = {<<1, q>> : q \in ToSet(lw[1].names)}
      BY GoodTypes, NamedFacts
    <3>3. \A q \in ToSet(lw[1].names) : q \in Nat
      <4>1. lw[1].names \in Seq(Nat)
        BY GoodTypes
      <4> QED BY <4>1, ElementOfSeq, LenProperties DEF ToSet
    <3>4. ASSUME NEW q \in ToSet(lw[1].names) PROVE ~(g.seq < q)
      <4>1. PICK f \in wal : f.part = 1 /\ f.seq = q
        BY GoodTypes, <3>4 DEF Good, Inv, LogInv, File
      <4>2. f.seq < g.seq
        BY <1>7 DEF Grows
      <4> QED BY <1>1, <3>3, <4>1, <4>2
    <3>5. \A i \in DOMAIN m : m[i] \in ToSet(m)
      BY DEF ToSet
    <3> HIDE DEF m
    <3>6. \A i \in DOMAIN m : ~(g.seq < m[i][2])
      BY <1>1, <3>1, <3>2, <3>4, <3>5 DEF NameOf
    <3> QED BY <3>6 DEF m
  <2>7. Sweeps(Append(n, NameOf(g)), Unflushed')
    BY <2>1, <2>5, <2>6, SweepNewer
  <2>8. Has(Append(n, NameOf(g)), Unflushed')
    BY <1>2, <2>1, <2>4, AppendRange DEF Has
  <2> QED BY <2>2, <2>3, <2>4, <2>7, <2>8 DEF Sweep
<1> QED BY <1>6, <1>7

\* A row reaches the log after all that were acknowledged before.
LEMMA WalWriteOrder ==
    ASSUME Good, NEW w \in Writer, WalWrite(w)
    PROVE  OrderInv'
<1> DEFINE x == wr[w].row
<1>1. UNCHANGED <<key, before, acked, active, tssp, slot, st, alive, errs, names, todo, rm>>
  BY DEF WalWrite
<1>2. /\ TypeRun /\ key \in Seq(Key) /\ Tracked \subseteq Known /\ Owed \subseteq Tracked /\ 1 .. part = {1}
      /\ TypeLog /\ TypeInv
  BY GoodTypes
<1>3. HistInv /\ KeyInv /\ LogOrder /\ FileOrder /\ Mirror /\ Intact /\ Sweep /\ Chained /\ TodoOrder
  BY DEF Good, OrderInv
<1>4. /\ x \in Known /\ st = "open" /\ x \notin LogRows \union acked
      /\ \A v \in Writer : At(v, "ack") => wr[v].row # x
  BY WalWriteGuard DEF Good
<1>5. LogWrite(1, x)
  <2>1. 1 + writeReq = 1
    BY <1>2 DEF TypeLog, Good
  <2> QED BY <2>1 DEF WalWrite
<1>6. Owed' = IF wr[w].idx THEN Owed \union {x} ELSE Owed
  BY <1>2, OwedWal
<1>7. /\ wr[w].pc = "wal" /\ wr'[w].pc # "wal" /\ wr'[w].row = wr[w].row
      /\ \A v \in Writer : v # w => wr'[v] = wr[v]
  BY <1>2 DEF WalWrite, At, Goto, TypeRun
<1>8. Tracked' \subseteq Tracked /\ AtWal \subseteq AtWal' \union {x}
  <2>1. Owed' \subseteq Tracked
    BY <1>6, <1>7 DEF Tracked, At
  <2> QED BY <1>7, <2>1 DEF Tracked, AtWal, At
<1> HIDE DEF x
<1>9. PICK h, g : Grows(h, g, x)
  BY <1>4, <1>5, LogGrows
<1>10. LogRows' = LogRows \union {x}
  <2>1. LogInv /\ UNCHANGED <<part, engine>>
    BY DEF Good, Inv, WalWrite
  <2> QED BY <1>1, <1>2, <1>4, <1>5, <2>1, LogWriteFacts
<1>11. UNCHANGED <<Snap, SnapFiles, SnapLeft>>
  BY <1>1, SlotSame
<1>12. Sweep' /\ Outside' = Outside \union {x}
  BY <1>1, <1>4, <1>9, <1>11, GrownSweep
<1>13. LogOrder'
  <2>1. ASSUME NEW a \in Owed', NEW r \in before[a] PROVE Ordered(wal', r, a)
    <3>1. a \in Known /\ DOMAIN key = Known
      BY <1>2, <1>8, <1>4, <1>6, LenProperties DEF Known
    <3>2. r \in acked
      BY <1>3, <2>1, <3>1 DEF HistInv
    <3>3. x # r
      BY <1>4, <3>2
    <3>4. a = x \/ Ordered(wal, r, a)
      BY <1>3, <1>6, <2>1 DEF LogOrder
    <3> QED BY <1>4, <1>9, <3>3, <3>4, GrownOrder
  <2> QED BY <1>1, <2>1 DEF LogOrder, Ordered
<1>14. FileOrder'
  BY <1>1, <1>3, <1>6, <1>10 DEF FileOrder
<1>15. Mirror'
  <2>1. Rows(active)' = Rows(active)
    BY <1>1 DEF Rows
  <2> QED BY <1>3, <1>8, <1>12, <2>1 DEF Mirror
<1>16. Intact' /\ TodoOrder' /\ \A a : ~Later(a) /\ ~Later(a)'
  BY <1>1, <1>4 DEF Intact, TodoOrder, Later, Reading, Complete
<1> QED BY <1>1, <1>3, <1>8, <1>11, <1>12, <1>13, <1>14, <1>15, <1>16, HistKept, KeyKept, ChainedKept
      DEF OrderInv

-----------------------------------------------------------------------------
(* The steps of a flush.                                                   *)

\* No names, no files.
LEMMA NamedEmpty == Named(<< >>) = << >> /\ \A W : Sweeps(Named(<< >>), W)
<1>1. << >> \in Seq(Nat) /\ ToSet(<< >>) = {}
  BY CovEmpty
<1>2. Named(<< >>) \in Seq({1} \X Nat) /\ ToSet(Named(<< >>)) = {}
  BY <1>1, NamedFacts
<1>3. Named(<< >>) = << >>
  BY <1>2, EmptyRange
<1> QED BY <1>3, SweepEmpty

\* An empty table.
LEMMA KeyOKEmpty == KeyOK(EmptyTable)
BY CovEmpty DEF KeyOK, EmptyTable

\* The log files named so far and the active table change hands together.
LEMMA SnapshotOrder ==
    ASSUME Good, NEW f \in Flusher, WriteSnapshot(f), alive
    PROVE  OrderInv'
<1> DEFINE nm == [p \in 1 .. part |-> lw[p].names]
           n == Named(lw[1].names)
<1>1. UNCHANGED <<key, before, acked, wr, wal, tssp, st, alive, errs, names, todo, rm>> /\ ~SnapshotRLocked
  BY DEF WriteSnapshot
<1>2. /\ TypeInv /\ Slot = {1} /\ 1 .. part = {1} /\ lw[1].names \in Seq(Nat) /\ active \in Table
      /\ key \in Seq(Key) /\ Tracked \subseteq Known /\ \A a \in Known : key[a] \in Key
  BY GoodTypes
<1>3. HistInv /\ KeyInv /\ LogOrder /\ FileOrder /\ Mirror /\ Intact /\ Sweep /\ Chained /\ TodoOrder
  BY DEF Good, OrderInv
<1>4. /\ slot[1] = Nil /\ slot'[1] # Nil /\ slot'[1].tbl = active
      /\ slot'[1].left = {k \in Key : active[k] # << >>}
      /\ slot'[1].files \in FileOrders(nm)
      /\ lw' = [p \in 1 .. part |-> [lw[p] EXCEPT !.fd = FALSE, !.names = << >>]]
      /\ active' = EmptyTable
  <2>1. \A i \in FreeSlots : i = 1
    BY <1>2 DEF FreeSlots
  <2> QED BY <1>2, <2>1, SnapshotFacts
<1>5. slot'[1].files = n
  <2>1. nm[1] = lw[1].names
    BY <1>2
  <2> QED BY <1>2, <1>4, <2>1, OneOrder DEF Good
<1>6. lw'[1].names = << >>
  <2>1. lw[1] \in [seq : Nat, fd : BOOLEAN, names : Names]
    BY <1>2 DEF TypeInv, TypeLog
  <2> QED BY <1>2, <1>4, <2>1
<1>7. /\ Snap = EmptyTable /\ SnapFiles = << >> /\ SnapLeft = {}
      /\ Snap' = active /\ SnapFiles' = n /\ SnapLeft' = {k \in Key : active[k] # << >>}
  BY <1>4, <1>5 DEF Snap, SnapFiles, SnapLeft, Nil
<1>8. AtWal = {} /\ Owed' = Owed /\ Tracked' = Tracked
  BY <1>1, WritersSame DEF SnapshotRLocked, AtWal
<1>9. Unflushed = wal /\ Outside = LogRows /\ LogRows' = LogRows
  <2>1. Unflushed = wal
    BY <1>7, CovEmpty DEF Unflushed
  <2> QED BY <1>1, <2>1 DEF Outside, LogRows
<1>10. st # "open" => lw[1].names = << >> /\ n = << >> /\ Unflushed' = wal /\ Outside' = Outside
  <2>1. st # "open" => lw[1].names = << >>
    BY <1>2 DEF Good, Inv, LogInv
  <2>2. st # "open" => n = << >>
    BY <2>1, NamedEmpty
  <2>3. n = << >> => Unflushed' = wal
    BY <1>1, <1>7, CovEmpty DEF Unflushed
  <2>4. n = << >> => Outside' = Outside
    BY <1>9, <2>3 DEF Outside, LogRows
  <2> QED BY <2>1, <2>2, <2>3, <2>4
<1>11. KeyInv'
  <2>1. KeyOK(active) /\ KeyOK(EmptyTable) /\ KeyOK(tssp)
    BY <1>3, KeyOKEmpty DEF KeyInv
  <2> QED BY <1>1, <1>4, <1>7, <2>1 DEF KeyInv, KeyOK
<1>12. Rows(active)' = {} /\ Rows(Snap)' = Rows(active)
  <2>1. Rows(active') = {} /\ Rows(Snap') = Rows(active)
    BY <1>4, <1>7, EmptyTableFacts
  <2> QED BY <2>1 DEF Rows
<1>13. Mirror' /\ Intact'
  BY <1>1, <1>3, <1>9, <1>12 DEF Mirror, Intact
<1> HIDE DEF n
<1>14. Sweep'
  <2>1. Sweeps(n, wal)
    BY <1>3, <1>9, <1>10, SweepEmpty DEF Sweep, n
  <2>2. st = "open" => Unflushed' = {}
    <3>1. st = "open" => Has(n, wal)
      BY <1>3, <1>9 DEF Sweep, n
    <3> QED BY <1>1, <1>7, <3>1 DEF Unflushed, Has
  <2>3. st = "open" => Sweeps(Named(lw'[1].names), Unflushed') /\ Has(Named(lw'[1].names), Unflushed')
    BY <1>6, <2>2, NamedEmpty DEF Has
  <2> QED BY <1>1, <1>3, <1>7, <2>1, <2>3 DEF Sweep
<1>15. \A a : Later(a) <=> Later(a)'
  BY <1>1, <1>10 DEF Later, Complete, Reading
<1>16. ASSUME NEW a \in Tracked, NEW r \in before[a]
       PROVE  Chain(key[a], tssp[key[a]], Snap'[key[a]], SnapLeft', active'[key[a]], r, a, Later(a))
  <2>1. Chain(key[a], tssp[key[a]], Snap[key[a]], SnapLeft, active[key[a]], r, a, Later(a))
    BY <1>3, <1>16 DEF Chained
  <2>2. key[a] \in Key
    BY <1>2
  <2>3. active'[key[a]] = << >> /\ Snap'[key[a]] = active[key[a]]
    BY <1>4, <1>7, <2>2 DEF EmptyTable
  <2>4. a \in ToSet(active[key[a]]) => key[a] \in SnapLeft'
    BY <1>7, <2>2, CovEmpty
  <2> QED BY <1>7, <2>1, <2>3, <2>4, CovEmpty DEF Chain
<1>17. Chained'
  BY <1>1, <1>8, <1>15, <1>16 DEF Chained, Chain
<1>18. TodoOrder' /\ HistInv' /\ LogOrder' /\ FileOrder'
  BY <1>1, <1>3, <1>8, HistKept, LogOrderKept, FileOrderKept DEF TodoOrder, Reading
<1> QED BY <1>11, <1>13, <1>14, <1>17, <1>18 DEF OrderInv

\* What is further on is in the log: in the active table or to be read again.
LEMMA FurtherOn ==
    ASSUME Good, NEW a \in Owed, a \in Rows(active) \/ Later(a)
    PROVE  a \in LogRows
<1>1. Outside \subseteq LogRows
  BY DEF Outside, LogRows, Unflushed
<1>2. a \notin AtWal
  BY OwedLogged
<1> QED BY <1>1, <1>2 DEF Good, OrderInv, Mirror, Intact, Later, Reading

\* The rows of a table.
LEMMA InRows ==
    ASSUME NEW t, NEW k \in Key, NEW x \in ToSet(t[k]) PROVE x \in Rows(t)
BY DEF Rows

\* The rows of a measurement go behind the ones of the data files.
LEMMA ChunksOrder ==
    ASSUME Good, NEW k \in Key, FlushChunks(1, k)
    PROVE  OrderInv'
<1>1. UNCHANGED <<key, before, acked, wr, wal, lw, active, st, alive, errs, names, todo, rm, part, engine>>
  BY DEF FlushChunks
<1>2. /\ TypeInv /\ TypeTables /\ 1 \in Slot /\ active \in Table /\ tssp \in Table /\ Snap \in Table
      /\ key \in Seq(Key) /\ Tracked \subseteq Known /\ Owed \subseteq Tracked /\ \A a \in Known : key[a] \in Key
  BY GoodTypes
<1>3. HistInv /\ KeyInv /\ LogOrder /\ FileOrder /\ Mirror /\ Intact /\ Sweep /\ Chained /\ TodoOrder
  BY DEF Good, OrderInv
<1>4. /\ slot[1] # Nil /\ slot'[1] # Nil /\ slot'[1].tbl = slot[1].tbl
      /\ slot'[1].files = slot[1].files /\ slot'[1].left = slot[1].left \ {k}
  BY <1>1, <1>2, SlotKept, SlotFacts
<1>5. UNCHANGED <<Snap, SnapFiles>> /\ SnapLeft' = SnapLeft \ {k} /\ k \in SnapLeft /\ Snap = slot[1].tbl
  BY <1>4 DEF Snap, SnapFiles, SnapLeft, Nil, FlushChunks
<1>6. tssp' = [tssp EXCEPT ![k] = @ \o Snap[k]]
  BY <1>5 DEF FlushChunks
<1>7. tssp'[k] = tssp[k] \o Snap[k] /\ \A j \in Key : j # k => tssp'[j] = tssp[j]
  BY <1>2, <1>6 DEF Table
<1>8. tssp[k] \in Seq(Known) /\ Snap[k] \in Seq(Known)
  BY <1>2 DEF Table
<1>9. KeyInv'
  <2>1. ToSet(tssp'[k]) = ToSet(tssp[k]) \union ToSet(Snap[k])
    BY <1>7, <1>8, ConcatRange
  <2>2. ASSUME NEW j \in Key, NEW x \in ToSet(tssp'[j]) PROVE key[x] = j
    BY <1>3, <1>7, <2>1, <2>2 DEF KeyInv, KeyOK
  <2> QED BY <1>1, <1>3, <1>5, <2>2 DEF KeyInv, KeyOK
<1>10. Owed' = Owed /\ Tracked' = Tracked /\ AtWal' = AtWal
  BY <1>1, WritersSame
<1>11. LogRows' = LogRows /\ (\A a : Later(a)' <=> Later(a)) /\ (Reading' <=> Reading)
  BY <1>1, <1>5, OutsideKept, LaterKept DEF Reading
<1>12. ASSUME NEW a \in Tracked, NEW r \in before[a]
       PROVE  /\ Chain(key[a], tssp'[key[a]], Snap[key[a]], SnapLeft', active[key[a]], r, a, Later(a))
              /\ a \in Owed => Cov(tssp'[key[a]], r, a) \/ a \in LogRows
  <2>1. Chain(key[a], tssp[key[a]], Snap[key[a]], SnapLeft, active[key[a]], r, a, Later(a))
    BY <1>3, <1>12 DEF Chained
  <2>2. a \in Owed => Cov(tssp[key[a]], r, a) \/ a \in LogRows
    BY <1>3, <1>12 DEF FileOrder
  <2>3. key[a] \in Key
    BY <1>2
  <2>4. CASE key[a] # k
    <3>1. tssp'[key[a]] = tssp[key[a]] /\ (key[a] \in SnapLeft <=> key[a] \in SnapLeft')
      BY <1>5, <1>7, <2>3, <2>4
    <3> QED BY <2>1, <2>2, <3>1 DEF Chain
  <2>5. CASE key[a] = k
    <3>1. Cov(Snap[k], r, a) \/ a \in ToSet(active[k]) \/ Later(a)
      BY <2>1, <2>5 DEF Chain
    <3>2. ASSUME Cov(Snap[k], r, a), Cov(tssp[k], r, a) \/ a \in ToSet(Snap[k])
          PROVE  Cov(tssp'[k], r, a)
      BY <1>7, <1>8, <3>2, CovConcat
    <3>3. Chain(k, tssp'[k], Snap[k], SnapLeft', active[k], r, a, Later(a))
      BY <2>1, <2>5, <3>2 DEF Chain
    <3>4. a \in Owed => Cov(tssp'[k], r, a) \/ a \in LogRows
      <4>1. a \in ToSet(active[k]) => a \in Rows(active)
        BY InRows
      <4> QED BY <2>2, <2>5, <3>1, <3>2, <4>1, FurtherOn
    <3> QED BY <2>5, <3>3, <3>4
  <2> QED BY <2>4, <2>5
<1>13. Chained' /\ FileOrder'
  <2>1. Chained'
    BY <1>1, <1>5, <1>10, <1>11, <1>12 DEF Chained, Chain
  <2>2. FileOrder'
    BY <1>1, <1>2, <1>10, <1>11, <1>12 DEF FileOrder
  <2> QED BY <2>1, <2>2
<1>14. HistInv' /\ LogOrder' /\ Mirror' /\ Intact' /\ Sweep' /\ TodoOrder'
  BY <1>1, <1>3, <1>5, <1>10, <1>11, HistKept, LogOrderKept, MirrorKept, IntactKept, SweepKept, TodoKept
<1> QED BY <1>9, <1>13, <1>14 DEF OrderInv

\* The snapshot table is dropped: its rows are in the data files, its log files gone.
LEMMA DropOrder ==
    ASSUME Good, DropSnapshot(1)
    PROVE  OrderInv'
<1>1. UNCHANGED <<key, before, acked, wr, wal, lw, tssp, active, st, alive, errs, names, todo, rm, part, engine>>
  BY DEF DropSnapshot
<1>2. /\ TypeTables /\ 1 \in Slot /\ Slot = {1}
      /\ Tracked \subseteq Known /\ \A a \in Known : key[a] \in Key
  BY GoodTypes
<1>3. HistInv /\ KeyInv /\ LogOrder /\ FileOrder /\ Mirror /\ Intact /\ Sweep /\ Chained /\ TodoOrder
  BY DEF Good, OrderInv
<1>4. slot[1] # Nil /\ 1 \in Filled /\ slot[1].stage = "remove" /\ slot[1].files = << >> /\ slot'[1] = Nil
  BY <1>1, <1>2, SlotDropped, SlotFacts
<1>5. slot[1].left = {}
  BY <1>4 DEF Good, Inv, SlotCover
<1>6. UNCHANGED <<SnapFiles, SnapLeft>> /\ Snap' = EmptyTable /\ SnapLeft = {}
  BY <1>4, <1>5 DEF Snap, SnapFiles, SnapLeft, Nil, EmptyTable
<1>7. Owed' = Owed /\ Tracked' = Tracked /\ AtWal' = AtWal
  BY <1>1, WritersSame
<1>8. LogRows' = LogRows /\ (\A a : Later(a)' <=> Later(a)) /\ (Reading' <=> Reading)
  BY <1>1, <1>6, OutsideKept, LaterKept DEF Reading
<1>9. KeyInv'
  <2>1. KeyOK(EmptyTable)
    BY KeyOKEmpty
  <2> QED BY <1>1, <1>3, <1>6, <2>1 DEF KeyInv, KeyOK
<1>10. Intact'
  <2>1. Rows(EmptyTable) = {}
    BY EmptyTableFacts
  <2>2. Rows(Snap)' = {} /\ Rows(active)' = Rows(active)
    BY <1>1, <1>6, <2>1 DEF Rows
  <2> QED BY <1>1, <1>3, <1>8, <2>2 DEF Intact
<1>11. ASSUME NEW a \in Tracked, NEW r \in before[a]
       PROVE  Chain(key[a], tssp[key[a]], Snap'[key[a]], SnapLeft, active[key[a]], r, a, Later(a))
  <2>1. Chain(key[a], tssp[key[a]], Snap[key[a]], SnapLeft, active[key[a]], r, a, Later(a))
    BY <1>3, <1>11 DEF Chained
  <2>2. Snap'[key[a]] = << >>
    BY <1>2, <1>6 DEF EmptyTable
  <2> QED BY <1>6, <2>1, <2>2, CovEmpty DEF Chain
<1>12. Chained'
  BY <1>1, <1>6, <1>7, <1>8, <1>11 DEF Chained, Chain
<1>13. HistInv' /\ LogOrder' /\ FileOrder' /\ Mirror' /\ Sweep' /\ TodoOrder'
  BY <1>1, <1>3, <1>6, <1>7, <1>8, HistKept, LogOrderKept, FileOrderKept, MirrorKept, SweepKept, TodoKept
<1> QED BY <1>9, <1>10, <1>12, <1>13 DEF OrderInv

\* The log without its oldest file.
LEMMA OldestGone ==
    ASSUME Good, NEW n \in FileName, \A f \in wal : ~(f.seq < n[2]), wal' = wal \ File(n)
    PROVE  /\ wal' = {f \in wal : NameOf(f) # n}
           /\ \A r, a : Ordered(wal, r, a) => Ordered(wal', r, a)
<1>1. \A f \in wal : f.part = 1 /\ f.seq \in Nat
  BY GoodTypes
<1>2. n[2] \in Nat /\ n = <<n[1], n[2]>>
  BY DEF FileName
<1>3. wal' = {f \in wal : NameOf(f) # n}
  BY <1>2 DEF File, NameOf
<1>4. ASSUME NEW r, NEW a, Ordered(wal, r, a), NEW f \in wal'
      PROVE  Cov(f.rows, r, a) \/ \E g \in wal' : f.seq < g.seq /\ a \in ToSet(g.rows)
  <2>1. f \in wal
    OBVIOUS
  <2>2. ASSUME NEW g \in wal, f.seq < g.seq PROVE g \in wal'
    BY <1>1, <1>2, <2>1, <2>2 DEF File
  <2> QED BY <1>4, <2>1, <2>2 DEF Ordered
<1> QED BY <1>3, <1>4 DEF Ordered

\* A log file goes when the rows that the order needs are in data files, or in a
\* file that stays.
LEMMA RemoveOrder ==
    ASSUME Good, RemoveWalFile(1)
    PROVE  OrderInv'
<1> DEFINE s == SnapFiles
           n == Head(s)
<1>1. UNCHANGED <<key, before, acked, wr, lw, tssp, active, st, alive, errs, names, todo, rm, part, engine>>
  BY DEF RemoveWalFile
<1>2. /\ TypeTables /\ 1 \in Slot /\ Slot = {1} /\ SnapFiles \in Seq(FileName) /\ Owed \subseteq Tracked
      /\ Tracked \subseteq Known /\ \A a \in Known : key[a] \in Key
  BY GoodTypes
<1>3. HistInv /\ KeyInv /\ LogOrder /\ FileOrder /\ Mirror /\ Intact /\ Sweep /\ Chained /\ TodoOrder
  BY DEF Good, OrderInv
<1>4. /\ slot[1] # Nil /\ 1 \in Filled /\ slot[1].stage = "remove" /\ slot[1].files # << >>
      /\ slot'[1] # Nil /\ slot'[1].tbl = slot[1].tbl
      /\ slot'[1].files = Tail(slot[1].files) /\ slot'[1].left = slot[1].left
  BY <1>1, <1>2, SlotKept, SlotFacts DEF RemoveWalFile
<1>5. slot[1].left = {} /\ st \in {"open"} \union Closing
  BY <1>4 DEF Good, Inv, SlotCover, SlotFilesInv
<1>6. UNCHANGED <<Snap, SnapLeft>> /\ SnapFiles' = Tail(s) /\ s # << >> /\ SnapLeft = {}
  BY <1>4, <1>5 DEF Snap, SnapFiles, SnapLeft, Nil
<1>7. wal' = wal \ File(n)
  BY <1>4 DEF RemoveWalFile, SnapFiles
<1>8. n \in FileName /\ ToSet(s) = {n} \union ToSet(Tail(s))
  BY <1>2, <1>6, HeadTailProperties, TailRange
<1> HIDE DEF s
<1>9. /\ Sweeps(Tail(s), {f \in wal : NameOf(f) # n})
      /\ \A f \in wal : ~(f.seq < n[2])
  <2>1. Sweeps(s, wal) /\ s \in Seq(FileName)
    BY <1>2, <1>3 DEF Sweep, s
  <2> QED BY <1>6, <2>1, SweepTail
<1> HIDE DEF n
<1>10. wal' = {f \in wal : NameOf(f) # n} /\ \A r, a : Ordered(wal, r, a) => Ordered(wal', r, a)
  BY <1>7, <1>8, <1>9, OldestGone
<1>11. Unflushed' = Unflushed /\ Outside' = Outside
  <2>1. Unflushed' = Unflushed
    BY <1>6, <1>8, <1>10 DEF Unflushed, s
  <2> QED BY <2>1 DEF Outside
<1>12. Owed' = Owed /\ Tracked' = Tracked /\ AtWal' = AtWal
  BY <1>1, WritersSame
<1>13. LogOrder'
  BY <1>1, <1>3, <1>10, <1>12 DEF LogOrder, Ordered
<1>14. FileOrder'
  <2>1. Outside \subseteq LogRows'
    BY <1>11 DEF Outside, Unflushed, LogRows
  <2>2. ASSUME NEW a \in Owed, NEW r \in before[a] PROVE Cov(tssp[key[a]], r, a) \/ a \in Outside
    <3>1. Cov(tssp[key[a]], r, a) \/ a \in ToSet(active[key[a]]) \/ Later(a)
      BY <1>2, <1>3, <1>6, <2>2 DEF Chained, Chain
    <3>2. Later(a) => a \in Outside
      BY <1>5 DEF Later, Reading
    <3>3. a \in ToSet(active[key[a]]) => a \in Outside
      <4>1. key[a] \in Key /\ a \notin AtWal
        BY <1>2, OwedLogged
      <4> QED BY <1>3, <4>1, InRows DEF Mirror
    <3> QED BY <3>1, <3>2, <3>3
  <2> QED BY <1>1, <1>12, <2>1, <2>2 DEF FileOrder
<1>15. Mirror'
  <2>1. Rows(active)' = Rows(active)
    BY <1>1 DEF Rows
  <2> QED BY <1>3, <1>11, <1>12, <2>1 DEF Mirror
<1>16. Intact' /\ TodoOrder'
  BY <1>1, <1>5 DEF Intact, TodoOrder, Reading
<1>17. Sweep'
  <2>1. Sweeps(SnapFiles', wal')
    BY <1>6, <1>9, <1>10
  <2> QED BY <1>1, <1>3, <1>5, <1>11, <2>1 DEF Sweep
<1>18. \A a : Later(a) => Later(a)'
  BY <1>1, <1>11 DEF Later, Reading, Complete
<1> QED BY <1>1, <1>3, <1>6, <1>12, <1>13, <1>14, <1>15, <1>16, <1>17, <1>18, HistKept, KeyKept,
      ChainedKept DEF OrderInv

-----------------------------------------------------------------------------
(* Opening the shard.                                                      *)

\* The flush of the replay has left nothing in memory.
LEMMA ReplayFlushed ==
    ASSUME Good, fl["replay"] = "end"
    PROVE  st = "flush" /\ slot[1] = Nil /\ Rows(active) = {}
<1>1. st = "flush" /\ fl["force"] = "idle" /\ fl["ticker"] = "idle"
  BY DEF Good, Inv, FlusherInv
<1>2. Rows(active) = {}
  BY <1>1 DEF Good, Inv, DurableInv, Replayed
<1>3. ASSUME slot[1] # Nil PROVE FALSE
  <2>1. 1 \in Filled /\ engine = "ts" /\ slot[1].by \in Flusher
    <3>1. 1 \in Slot /\ TypeTables
      BY GoodTypes
    <3> QED BY <1>3, <3>1, SlotFacts DEF Filled, Good
  <2>2. fl[slot[1].by] = "flush"
    BY <2>1 DEF Good, Inv, SlotInv
  <2> QED BY <1>1, <2>1, <2>2 DEF Flusher
<1> QED BY <1>1, <1>2, <1>3

\* The replay goes on to remove what it has read.
LEMMA FlushedOrder ==
    ASSUME Good, DisableForceFlush("replay")
    PROVE  OrderInv'
<1>1. UNCHANGED <<key, before, acked, wr, wal, lw, tssp, active, slot, alive, errs, names, todo>>
  BY DEF DisableForceFlush
<1>2. st' = "remove" /\ rm' \in FileOrders(names) /\ fl["replay"] = "end"
  BY DEF DisableForceFlush
<1>3. st = "flush" /\ slot[1] = Nil /\ Rows(active) = {}
  BY <1>2, ReplayFlushed
<1>4. HistInv /\ KeyInv /\ LogOrder /\ FileOrder /\ Mirror /\ Intact /\ Sweep /\ Chained /\ TodoOrder
  BY DEF Good, OrderInv
<1>5. rm' = Named(names[1])
  <2>1. names[1] \in Seq(Nat)
    BY GoodTypes
  <2> QED BY <1>2, <2>1, OneOrder DEF Good
<1>6. UNCHANGED <<Snap, SnapFiles, SnapLeft>> /\ Snap = EmptyTable
  BY <1>1, <1>3, SlotSame DEF Snap
<1>7. Owed' = Owed /\ Tracked' = Tracked /\ AtWal' = AtWal
  BY <1>1, WritersSame
<1>8. Intact'
  <2>1. Rows(EmptyTable) = {}
    BY EmptyTableFacts
  <2>2. Rows(Snap)' = {} /\ Rows(active)' = {}
    BY <1>1, <1>3, <1>6, <2>1 DEF Rows
  <2>3. todo'[1] = << >>
    BY <1>1, <1>3, <1>4 DEF Intact
  <2> QED BY <1>2, <2>2, <2>3, CovEmpty DEF Intact
<1>9. Sweep'
  BY <1>1, <1>2, <1>3, <1>4, <1>5, <1>6 DEF Sweep
<1>10. TodoOrder' /\ \A a : ~Later(a) /\ ~Later(a)'
  BY <1>2, <1>3 DEF TodoOrder, Later, Complete, Reading
<1> QED BY <1>1, <1>4, <1>6, <1>7, <1>8, <1>9, <1>10, HistKept, KeyKept, LogOrderKept, FileOrderKept,
      MirrorKept, ChainedKept DEF OrderInv

\* The end of the replay, with an error or without.
LEMMA ReplayEnds ==
    ASSUME Good, ReplayDone \/ ReplayFails
    PROVE  OrderInv'
<1>1. UNCHANGED <<key, before, acked, wr, wal, lw, tssp, active, slot, alive, errs, names, todo, rm>>
  BY DEF ReplayDone, ReplayFails
<1>2. st = "replay" /\ todo[1] = << >> /\ ((st' = "flush" /\ ~errs) \/ (st' = "failed" /\ errs))
  <2>1. 1 \in 1 .. part
    BY GoodTypes
  <2> QED BY <2>1 DEF ReplayDone, ReplayFails
<1>3. HistInv /\ KeyInv /\ LogOrder /\ FileOrder /\ Mirror /\ Intact /\ Sweep /\ Chained /\ TodoOrder
  BY DEF Good, OrderInv
<1>4. UNCHANGED <<Snap, SnapFiles, SnapLeft>>
  BY <1>1, SlotSame
<1>5. Owed' = Owed /\ Tracked' = Tracked /\ AtWal' = AtWal /\ Outside' = Outside /\ LogRows' = LogRows
  BY <1>1, <1>4, WritersSame, OutsideKept
<1>6. Rows(active)' = Rows(active) /\ Rows(Snap)' = Rows(Snap)
  BY <1>1, <1>4 DEF Rows
<1>7. Intact'
  BY <1>1, <1>2, <1>3, <1>5, <1>6 DEF Intact
<1>8. Sweep'
  BY <1>1, <1>2, <1>3, <1>4 DEF Sweep
<1>9. TodoOrder' /\ \A a : Later(a) => Later(a)'
  BY <1>1, <1>2, <1>5, CovEmpty DEF TodoOrder, Later, Complete, Reading
<1> QED BY <1>1, <1>3, <1>4, <1>5, <1>7, <1>8, <1>9, HistKept, KeyKept, LogOrderKept, FileOrderKept,
      MirrorKept, ChainedKept DEF OrderInv

\* The log is read from old to new, also after names that an earlier attempt left.
LEMMA OpenOrder ==
    ASSUME Good, OpenAndEnable
    PROVE  OrderInv'
<1> DEFINE F == FilesOf(1)
           nm == [p \in 1 .. part |-> names[p] \o FilesOf(p)]
<1>1. UNCHANGED <<key, before, acked, wr, wal, tssp, active, slot, alive, rm, part, engine>>
  BY DEF OpenAndEnable
<1>2. st \in {"down", "failed"} /\ st' = "replay"
  BY DEF OpenAndEnable
<1>3. /\ names' = nm /\ todo' = [p \in 1 .. part |-> Records(p, nm)]
      /\ errs' = (\E p \in 1 .. part : Missing(p, nm) # {})
  BY DEF OpenAndEnable, RestoreLogs
<1>4. /\ TypeInv /\ TypeDisk /\ Unique /\ 1 .. part = {1} /\ part = 1 /\ names[1] \in Seq(Nat)
      /\ Owed \subseteq Tracked /\ Tracked \subseteq Known
  BY GoodTypes DEF Good
<1>5. HistInv /\ KeyInv /\ LogOrder /\ FileOrder /\ Mirror /\ Intact /\ Sweep /\ Chained /\ TodoOrder
  BY DEF Good, OrderInv
<1>6. nm[1] = names[1] \o F /\ names'[1] = nm[1] /\ todo'[1] = Records(1, nm) /\ (~errs' <=> Missing(1, nm) = {})
  BY <1>3, <1>4
<1> HIDE DEF nm
<1>7. F \in Seq(Nat)
  BY <1>4, FilesSorted
<1>8. nm[1] \in Seq(Nat) /\ Named(nm[1]) = Named(names[1]) \o Named(F)
  BY <1>4, <1>6, <1>7, ConcatProperties, NamedFacts
<1>9. UNCHANGED <<Snap, SnapFiles, SnapLeft>>
  BY <1>1, SlotSame
<1>10. Owed' = Owed /\ Tracked' = Tracked /\ AtWal' = AtWal /\ Outside' = Outside /\ LogRows' = LogRows
  BY <1>1, <1>9, WritersSame, OutsideKept
<1>11. Intact'
  <2>1. Rows(active)' = Rows(active) /\ Rows(Snap)' = Rows(Snap)
    BY <1>1, <1>9 DEF Rows
  <2>2. ToSet(todo'[1]) \subseteq LogRows
    BY <1>4, <1>6, <1>8, RecordsInLog
  <2> QED BY <1>2, <1>5, <1>10, <2>1, <2>2 DEF Intact
<1>12. Sweep'
  <2>1. /\ Sweeps(Named(F), wal) /\ Has(Named(F), wal) /\ Sweeps(Named(names[1]), wal)
        /\ Named(F) \in Seq({1} \X Nat) /\ Named(names[1]) \in Seq({1} \X Nat)
    BY <1>2, <1>4, <1>5, <1>7, FilesSwept, NamedFacts DEF Sweep
  <2>2. Sweeps(Named(nm[1]), wal)
    BY <1>8, <2>1, SweepConcat
  <2>3. ToSet(Named(F)) \subseteq ToSet(Named(nm[1]))
    BY <1>8, <2>1, ConcatRange
  <2>4. Has(Named(nm[1]), wal)
    BY <2>1, <2>3 DEF Has
  <2> QED BY <1>1, <1>2, <1>5, <1>6, <1>9, <2>2, <2>4 DEF Sweep
<1>13. TodoOrder'
  <2>1. ASSUME ~errs', NEW a \in Owed, NEW r \in before[a] PROVE Cov(todo'[1], r, a)
    <3>1. Ordered(wal, r, a)
      BY <1>5, <2>1 DEF LogOrder
    <3>2. PICK s \in Seq(Nat) : s = names[1]
      BY <1>4
    <3>3. nm[1] = s \o FilesOf(1) /\ Missing(1, nm) = {}
      BY <1>6, <2>1, <3>2
    <3>4. Cov(Records(1, nm), r, a)
      BY <1>4, <3>1, <3>3, RecordsOrder
    <3> QED BY <1>6, <3>4
  <2> QED BY <1>1, <1>10, <2>1 DEF TodoOrder, Reading
<1>14. ASSUME NEW a, Later(a) PROVE Later(a)'
  <2>1. a \in Outside /\ a \in LogRows
    BY <1>2, <1>14 DEF Later, Reading, Outside, LogRows, Unflushed
  <2>2. ~errs' => a \in ToSet(todo'[1])
    <3>1. ~errs' => LogRows' \subseteq ToReplay'
      BY RestoreFacts DEF Good
    <3>2. ToReplay' = ToSet(todo'[1])
      BY <1>1, <1>4 DEF ToReplay
    <3> QED BY <1>10, <2>1, <3>1, <3>2
  <2> QED BY <1>2, <1>10, <2>1, <2>2 DEF Later, Reading, Complete
<1> QED BY <1>1, <1>5, <1>9, <1>10, <1>11, <1>12, <1>13, <1>14, HistKept, KeyKept, LogOrderKept,
      FileOrderKept, MirrorKept, ChainedKept DEF OrderInv

\* A replay that goes on has put the row into the table, or could not create its series.
LEMMA RefusedUnknown ==
    ASSUME engine = "ts", NEW out \in Outcomes, ReplayRow(out), active' = active, ~errs',
           active # AddRow(active, Head(todo[NextPart]))
    PROVE  key[Head(todo[NextPart])] \notin idxMem
<1>1. PICK r : r = Head(todo[NextPart])
  OBVIOUS
<1>2. out # "ok" => key[r] \notin idxMem
  BY <1>1 DEF ReplayRow
<1>3. free > 0 /\ active' = (IF TableTakes(out = "ok") THEN AddRow(active, r) ELSE active)
  BY <1>1 DEF ReplayRow
<1>4. out # "ok"
  BY <1>1, <1>3 DEF TableTakes
<1> QED BY <1>1, <1>2, <1>4

\* A series that the index does not know has no rows, in no table and in no data file.
LEMMA UnknownAbsent ==
    ASSUME Good, NEW k \in Key, k \notin idxMem
    PROVE  tssp[k] = << >> /\ Snap[k] = << >> /\ active[k] = << >>
<1>1. Indexing /\ IndexLoaded /\ SlotCover
  BY DEF Good, Inv, IndexInv
<1>2. tssp[k] = << >> /\ active[k] = << >>
  BY <1>1 DEF Indexing, FilesIndexed, IndexLoaded
<1>3. CASE slot[1] = Nil
  BY <1>2, <1>3 DEF Snap, EmptyTable
<1>4. CASE slot[1] # Nil
  <2>1. 1 \in Filled /\ Snap = slot[1].tbl /\ Snap \in Table
    BY <1>4, GoodTypes DEF Filled, Snap
  <2>2. k \in Key \ slot[1].left
    BY <1>1, <2>1 DEF Indexing
  <2>3. ToSet(Snap[k]) \subseteq ToSet(tssp[k])
    BY <1>1, <2>1, <2>2 DEF SlotCover
  <2>4. Snap[k] \in Seq(Known)
    BY <2>1 DEF Table
  <2>5. ToSet(Snap[k]) = {}
    BY <1>2, <2>3, CovEmpty
  <2>6. Snap[k] = << >>
    <3>1. ASSUME Len(Snap[k]) # 0 PROVE FALSE
      <4>1. 1 \in DOMAIN Snap[k]
        BY <2>4, <3>1, LenProperties
      <4> QED BY <2>5, <4>1 DEF ToSet
    <3> QED BY <2>4, <3>1, EmptySeq, LenProperties
  <2> QED BY <1>2, <2>6
<1> QED BY <1>3, <1>4

\* A record goes behind the rows of the table; what replaced it is still to come.
LEMMA ReplayRowOrder ==
    ASSUME Good, NEW out \in Outcomes, ReplayRow(out)
    PROVE  OrderInv'
<1> DEFINE x == Head(todo[1])
<1>1. UNCHANGED <<key, before, acked, wr, wal, lw, tssp, slot, alive, rm, names, st>>
  BY DEF ReplayRow
<1>2. /\ TypeInv /\ TypeReplay /\ Unique /\ 1 .. part = {1} /\ part = 1 /\ todo[1] \in Seq(Known)
      /\ Owed \subseteq Tracked /\ Tracked \subseteq Known /\ active \in Table /\ key \in Seq(Key)
      /\ \A a \in Known : key[a] \in Key
  BY GoodTypes DEF Good
<1>3. NextPart = 1 /\ todo[1] # << >>
  BY <1>2, NextPartFacts DEF ReplayRow
<1>4. /\ st = "replay" /\ todo' = [todo EXCEPT ![1] = Tail(@)]
      /\ (errs => errs') /\ errs' \in BOOLEAN
      /\ (active' = active \/ active' = AddRow(active, x))
  BY <1>2, <1>3, ReplayRowFacts DEF ReplayRow
<1>5. todo'[1] = Tail(todo[1])
  BY <1>2, <1>4 DEF TypeReplay
<1>6. HistInv /\ KeyInv /\ LogOrder /\ FileOrder /\ Mirror /\ Intact /\ Sweep /\ Chained /\ TodoOrder
  BY DEF Good, OrderInv
<1>7. UNCHANGED <<Snap, SnapFiles, SnapLeft>>
  BY <1>1, SlotSame
<1>8. Owed' = Owed /\ Tracked' = Owed /\ Tracked = Owed /\ AtWal' = AtWal /\ Outside' = Outside /\ LogRows' = LogRows
  <2>1. Tracked = Owed
    BY <1>4, OwedLogged
  <2> QED BY <1>1, <1>7, <2>1, WritersSame, OutsideKept
<1>9. x \in Known /\ ToSet(todo[1]) = {x} \union ToSet(todo'[1])
  BY <1>2, <1>3, <1>5, HeadTailProperties, TailRange
<1> HIDE DEF x
<1>10. SnapFiles = << >> /\ Outside = LogRows
  <2>1. slot[1] # Nil => slot[1].files = << >>
    <3>1. slot[1] # Nil => 1 \in Filled
      BY GoodTypes DEF Filled
    <3> QED BY <1>4, <3>1 DEF Good, Inv, SlotFilesInv
  <2>2. SnapFiles = << >>
    BY <2>1 DEF SnapFiles
  <2>3. Unflushed = wal
    BY <2>2, CovEmpty DEF Unflushed
  <2> QED BY <2>2, <2>3 DEF Outside, LogRows
<1>11. Rows(active) \union Rows(Snap) \union ToSet(todo[1]) \subseteq LogRows /\ x \in LogRows
  BY <1>4, <1>6, <1>9 DEF Intact
<1>12. Rows(active)' \subseteq Rows(active) \union {x} /\ Rows(Snap)' = Rows(Snap)
  <2>1. Rows(active') \subseteq Rows(active) \union {x}
    BY <1>2, <1>4, <1>9, AddRowFacts
  <2> QED BY <1>7, <2>1 DEF Rows
<1>13. Mirror' /\ Intact'
  BY <1>1, <1>4, <1>8, <1>9, <1>10, <1>11, <1>12 DEF Mirror, Intact
<1>14. KeyInv'
  <2>1. KeyOK(active')
    BY <1>2, <1>4, <1>6, <1>9, AddRowAt DEF KeyInv
  <2> QED BY <1>1, <1>6, <1>7, <2>1 DEF KeyInv, KeyOK
<1>15. ~errs' => ~errs
  BY <1>4
<1>16. TodoOrder'
  <2>1. ASSUME ~errs', NEW a \in Owed, NEW r \in before[a] PROVE Cov(todo'[1], r, a)
    <3>1. Cov(todo[1], r, a)
      BY <1>4, <1>6, <1>15, <2>1 DEF TodoOrder, Reading
    <3> QED BY <1>2, <1>3, <1>5, <3>1, CovTail
  <2> QED BY <1>1, <1>8, <2>1 DEF TodoOrder, Reading
<1>17. \A a : /\ errs' => (Later(a)' <=> a \in LogRows)
              /\ ~errs' => (Later(a)' <=> a \in ToSet(todo'[1]))
  BY <1>1, <1>4, <1>8, <1>10 DEF Later, Reading, Complete
<1>18. \A a : Later(a) => a \in LogRows
  BY <1>4, <1>10, <1>11 DEF Later, Reading, Complete
<1>19. \A a : ~errs' /\ Later(a) => a = x \/ a \in ToSet(todo'[1])
  BY <1>4, <1>9, <1>15 DEF Later, Reading, Complete
<1>20. ASSUME NEW a \in Owed, NEW r \in before[a], x = r PROVE Later(a)'
  <2>1. CASE errs'
    <3>1. PICK f \in wal : r \in ToSet(f.rows)
      BY <1>11, <1>20 DEF LogRows
    <3>2. Ordered(wal, r, a)
      BY <1>6, <1>20 DEF LogOrder
    <3>3. Cov(f.rows, r, a) => a \in ToSet(f.rows)
      BY <3>1 DEF Cov, ToSet
    <3>4. a \in LogRows
      BY <3>2, <3>3 DEF Ordered, LogRows
    <3> QED BY <1>17, <2>1, <3>4
  <2>2. CASE ~errs'
    <3>1. Cov(todo[1], r, a)
      BY <1>4, <1>6, <1>15, <1>20, <2>2 DEF TodoOrder, Reading
    <3>2. a \in ToSet(Tail(todo[1]))
      BY <1>2, <1>3, <1>20, <3>1, CovTail DEF x
    <3> QED BY <1>5, <1>17, <2>2, <3>2
  <2> QED BY <2>1, <2>2
<1>21. ASSUME NEW a \in Owed, NEW r \in before[a]
       PROVE  Chain(key[a], tssp[key[a]], Snap[key[a]], SnapLeft, active'[key[a]], r, a, Later(a)')
  <2>1. Chain(key[a], tssp[key[a]], Snap[key[a]], SnapLeft, active[key[a]], r, a, Later(a))
    BY <1>6, <1>8, <1>21 DEF Chained
  <2>2. a \in Known /\ key[a] \in Key /\ active[key[a]] \in Seq(Known)
    BY <1>2 DEF Table
  <2>3. CASE x = r
    BY <1>20, <2>3 DEF Chain
  <2>4. CASE x # r /\ active'[key[a]] = Append(active[key[a]], x)
    <3>1. x = a \/ (Later(a) => Later(a)')
      BY <1>17, <1>18, <1>19
    <3>2. Later(a) \in BOOLEAN /\ Later(a)' \in BOOLEAN
      BY DEF Later
    <3> QED BY <1>9, <2>1, <2>2, <2>4, <3>1, <3>2, ChainAppend
  <2>5. CASE active' = active /\ errs'
    BY <1>17, <1>18, <2>1, <2>5 DEF Chain
  <2>6. CASE active'[key[a]] = active[key[a]] /\ x # a
    <3>1. Later(a) => Later(a)'
      BY <1>17, <1>18, <1>19, <2>6
    <3> QED BY <2>1, <2>6, <3>1 DEF Chain
  <2>7. CASE active' = AddRow(active, x)
    <3>2. /\ key[a] = key[x] => active'[key[a]] = Append(active[key[a]], x)
          /\ key[a] # key[x] => active'[key[a]] = active[key[a]]
      BY <1>2, <1>9, <2>2, <2>7, AddRowAt
    <3> QED BY <2>3, <2>4, <2>6, <3>2
  <2>8. CASE active' = active /\ x = a /\ ~errs' /\ active' # AddRow(active, x)
    <3>1. key[a] \notin idxMem
      BY <1>3, <2>8, RefusedUnknown DEF x, Good
    <3>2. tssp[key[a]] = << >> /\ Snap[key[a]] = << >> /\ active[key[a]] = << >>
      BY <2>2, <3>1, UnknownAbsent
    <3> QED BY <2>8, <3>2, CovEmpty DEF Chain
  <2> QED BY <1>4, <2>5, <2>6, <2>7, <2>8
<1>22. Chained'
  BY <1>1, <1>7, <1>8, <1>21 DEF Chained, Chain
<1>23. HistInv' /\ LogOrder' /\ FileOrder' /\ Sweep'
  BY <1>1, <1>6, <1>7, <1>8, HistKept, LogOrderKept, FileOrderKept, SweepKept
<1> QED BY <1>13, <1>14, <1>16, <1>22, <1>23 DEF OrderInv

\* A replayed file goes when all rows of the log are in data files.
LEMMA RemoveReplayedOrder ==
    ASSUME Good, RemoveReplayed
    PROVE  OrderInv'
<1> DEFINE n == Head(rm)
<1>1. UNCHANGED <<key, before, acked, wr, lw, tssp, active, slot, alive, errs, names, todo>>
  BY DEF RemoveReplayed
<1>2. /\ rm \in Seq(FileName) /\ rm # << >> /\ st = "remove"
      /\ Owed \subseteq Tracked /\ Tracked \subseteq Known /\ \A a \in Known : key[a] \in Key
  BY GoodTypes DEF RemoveReplayed
<1>3. HistInv /\ KeyInv /\ LogOrder /\ FileOrder /\ Mirror /\ Intact /\ Sweep /\ Chained /\ TodoOrder
  BY DEF Good, OrderInv
<1>4. UNCHANGED <<Snap, SnapFiles, SnapLeft>>
  BY <1>1, SlotSame
<1>5. Owed' = Owed /\ Tracked' = Tracked /\ AtWal' = AtWal
  BY <1>1, WritersSame
<1>6. Rows(active)' = Rows(active) /\ Rows(Snap)' = Rows(Snap)
  BY <1>1, <1>4 DEF Rows
<1>7. Rows(active) = {} /\ Rows(Snap) = {} /\ todo[1] = << >>
  BY <1>2, <1>3 DEF Intact
<1>8. \A a : ~Later(a)
  BY <1>2 DEF Later, Complete, Reading
<1>9. CASE File(n) = {}
  <2>1. st' = "failed" /\ wal' = wal
    BY <1>9 DEF RemoveReplayed
  <2>2. Intact' /\ TodoOrder'
    BY <1>1, <1>6, <1>7, <2>1, CovEmpty DEF Intact, TodoOrder, Reading
  <2>3. Sweep'
    BY <1>1, <1>2, <1>3, <1>4, <2>1 DEF Sweep
  <2> QED BY <1>1, <1>3, <1>4, <1>5, <1>8, <2>1, <2>2, <2>3, HistKept, KeyKept, LogOrderKept,
        FileOrderKept, MirrorKept, ChainedKept DEF OrderInv
<1>10. CASE File(n) # {}
  <2>1. st' = st /\ wal' = wal \ File(n) /\ rm' = Tail(rm)
    BY <1>10 DEF RemoveReplayed
  <2>2. n \in FileName
    BY <1>2, HeadTailProperties
  <2>3. /\ Sweeps(Tail(rm), {f \in wal : NameOf(f) # n}) /\ Has(Tail(rm), {f \in wal : NameOf(f) # n})
        /\ \A f \in wal : ~(f.seq < n[2])
    <3>1. Sweeps(rm, wal) /\ Has(rm, wal)
      BY <1>2, <1>3 DEF Sweep
    <3> QED BY <1>2, <3>1, SweepTail
  <2> HIDE DEF n
  <2>4. wal' = {f \in wal : NameOf(f) # n} /\ \A r, a : Ordered(wal, r, a) => Ordered(wal', r, a)
    BY <2>1, <2>2, <2>3, OldestGone
  <2>5. LogOrder'
    BY <1>1, <1>3, <1>5, <2>4 DEF LogOrder, Ordered
  <2>6. FileOrder'
    <3>1. ASSUME NEW a \in Owed, NEW r \in before[a] PROVE Cov(tssp[key[a]], r, a)
      <4>1. key[a] \in Key
        BY <1>2
      <4>2. ToSet(active[key[a]]) = {} /\ ToSet(Snap[key[a]]) = {}
        BY <1>7, <4>1, InRows
      <4> QED BY <1>2, <1>3, <1>8, <3>1, <4>2 DEF Chained, Chain
    <3> QED BY <1>1, <1>5, <3>1 DEF FileOrder
  <2>7. Mirror' /\ Intact' /\ TodoOrder'
    BY <1>1, <1>2, <1>6, <1>7, <2>1, CovEmpty DEF Mirror, Intact, TodoOrder, Reading
  <2>8. Sweep'
    <3>1. \A f \in wal' : \E g \in wal : g.part = f.part /\ g.seq = f.seq
      BY <2>4
    <3>2. Sweeps(SnapFiles, wal) /\ Sweeps(Named(names[1]), wal)
      BY <1>2, <1>3 DEF Sweep
    <3>3. Sweeps(SnapFiles, wal') /\ Sweeps(Named(names[1]), wal')
      BY <3>1, <3>2, SweepFewer
    <3> QED BY <1>1, <1>2, <1>4, <2>1, <2>3, <2>4, <3>3 DEF Sweep
  <2> QED BY <1>1, <1>3, <1>4, <1>5, <1>8, <2>5, <2>6, <2>7, <2>8, HistKept, KeyKept, ChainedKept
        DEF OrderInv
<1> QED BY <1>9, <1>10

\* The shard is open when its log is empty.
LEMMA OpenedOrder ==
    ASSUME Good, Opened
    PROVE  OrderInv'
<1>1. UNCHANGED <<key, before, acked, wr, wal, lw, tssp, active, slot, alive, errs, names, todo, rm>>
  BY DEF Opened
<1>2. st = "remove" /\ rm = << >> /\ st' = "open"
  BY DEF Opened
<1>3. HistInv /\ KeyInv /\ LogOrder /\ FileOrder /\ Mirror /\ Intact /\ Sweep /\ Chained /\ TodoOrder
  BY DEF Good, OrderInv
<1>4. UNCHANGED <<Snap, SnapFiles, SnapLeft>>
  BY <1>1, SlotSame
<1>5. Owed' = Owed /\ Tracked' = Tracked /\ AtWal' = AtWal
  BY <1>1, WritersSame
<1>6. wal = {}
  BY <1>2, <1>3, CovEmpty DEF Sweep, Has
<1>7. Unflushed' = {}
  BY <1>1, <1>6 DEF Unflushed
<1>8. Sweep'
  <2>1. Sweeps(SnapFiles, wal)
    BY <1>3 DEF Sweep
  <2>2. \A s : Sweeps(s, {}) /\ Has(s, {})
    BY DEF Sweeps, Has
  <2> QED BY <1>1, <1>2, <1>4, <1>7, <2>1, <2>2 DEF Sweep
<1>9. Intact' /\ TodoOrder' /\ \A a : ~Later(a)
  BY <1>2 DEF Intact, TodoOrder, Later, Complete, Reading
<1> QED BY <1>1, <1>3, <1>4, <1>5, <1>8, <1>9, HistKept, KeyKept, LogOrderKept, FileOrderKept,
      MirrorKept, ChainedKept DEF OrderInv

-----------------------------------------------------------------------------
(* Close and crashes.                                                      *)

\* The log writers are closed.
LEMMA CloseWalOrder ==
    ASSUME Good, CloseWal
    PROVE  OrderInv'
<1>1. UNCHANGED <<key, before, acked, wal, tssp, active, slot, alive, errs, names, todo, rm>>
  BY DEF CloseWal
<1>2. st = "open" /\ st' = "closing" /\ ~MuRLocked /\ alive
  BY DEF CloseWal, Good, Inv, FlusherInv
<1>3. HistInv /\ KeyInv /\ LogOrder /\ FileOrder /\ Mirror /\ Intact /\ Sweep /\ Chained /\ TodoOrder
  BY DEF Good, OrderInv
<1>4. UNCHANGED <<Snap, SnapFiles, SnapLeft>>
  BY <1>1, SlotSame
<1>5. Owed' \subseteq Owed /\ Tracked' \subseteq Tracked /\ AtWal = {}
  <2>1. TypeRun
    BY GoodTypes
  <2>2. Owed' \subseteq Owed
    BY <2>1, OwedOther
  <2>3. \A w \in Writer : wr'[w] = IF At(w, "checked") THEN [wr[w] EXCEPT !.pc = "late"] ELSE wr[w]
    BY DEF CloseWal
  <2>4. \A w \in Writer : wr'[w].pc = "wal" => wr'[w] = wr[w]
    BY <2>1, <2>3 DEF TypeRun
  <2>5. \A w \in Writer : wr[w].pc # "wal"
    BY <1>2 DEF MuRLocked
  <2> QED BY <2>2, <2>4, <2>5 DEF Tracked, AtWal, At
<1>6. Sweep'
  BY <1>1, <1>2, <1>3, <1>4 DEF Sweep
<1>7. Intact' /\ TodoOrder' /\ \A a : ~Later(a)
  BY <1>2 DEF Intact, TodoOrder, Later, Complete, Reading
<1> QED BY <1>1, <1>3, <1>4, <1>5, <1>6, <1>7, HistKept, KeyKept, LogOrderKept, FileOrderKept,
      MirrorKept, ChainedKept DEF OrderInv

\* The active table is dropped: its rows are in files that no flush removes.
LEMMA CloseMemOrder ==
    ASSUME Good, CloseMem
    PROVE  OrderInv'
<1>1. UNCHANGED <<key, before, acked, wr, wal, lw, tssp, slot, st, errs, names, todo, rm>>
  BY DEF CloseMem
<1>2. st = "closing" /\ alive /\ ~alive' /\ active' = EmptyTable
  BY DEF CloseMem
<1>3. HistInv /\ KeyInv /\ LogOrder /\ FileOrder /\ Mirror /\ Intact /\ Sweep /\ Chained /\ TodoOrder
  BY DEF Good, OrderInv
<1>4. UNCHANGED <<Snap, SnapFiles, SnapLeft>>
  BY <1>1, SlotSame
<1>5. Owed' = Owed /\ Tracked' = Tracked /\ AtWal = {} /\ Outside' = Outside
  BY <1>1, <1>2, <1>4, WritersSame, OwedLogged, OutsideKept
<1>6. KeyInv'
  <2>1. KeyOK(EmptyTable)
    BY KeyOKEmpty
  <2> QED BY <1>1, <1>2, <1>3, <1>4, <2>1 DEF KeyInv, KeyOK
<1>7. Mirror' /\ Intact' /\ TodoOrder'
  <2>1. Rows(EmptyTable) = {}
    BY EmptyTableFacts
  <2>2. Rows(active)' = {}
    BY <1>2, <2>1 DEF Rows
  <2> QED BY <1>1, <1>2, <2>2 DEF Mirror, Intact, TodoOrder, Reading
<1>8. \A a : ~Later(a) /\ (Later(a)' <=> a \in Outside)
  BY <1>1, <1>2, <1>5 DEF Later, Complete, Reading
<1>9. ASSUME NEW a \in Tracked, NEW r \in before[a]
      PROVE  Chain(key[a], tssp[key[a]], Snap[key[a]], SnapLeft, active'[key[a]], r, a, Later(a)')
  <2>1. Chain(key[a], tssp[key[a]], Snap[key[a]], SnapLeft, active[key[a]], r, a, FALSE)
    BY <1>3, <1>8, <1>9 DEF Chained, Chain
  <2>2. key[a] \in Key
    BY GoodTypes
  <2>3. active'[key[a]] = << >>
    BY <1>2, <2>2 DEF EmptyTable
  <2>4. a \in ToSet(active[key[a]]) => Later(a)'
    BY <1>3, <1>5, <1>8, <2>2, InRows DEF Mirror
  <2> QED BY <2>1, <2>3, <2>4, CovEmpty DEF Chain
<1>10. Chained'
  BY <1>1, <1>4, <1>5, <1>9 DEF Chained, Chain
<1> QED BY <1>1, <1>3, <1>4, <1>5, <1>6, <1>7, <1>10, HistKept, LogOrderKept, FileOrderKept, SweepKept
      DEF OrderInv

\* A shard that is not open any more has what is on disk.
LEMMA DownOrder ==
    ASSUME Good, NewShard, slot'[1] = Nil, UNCHANGED <<key, before, acked, wal, tssp, part>>,
           Owed' \subseteq Owed, Tracked' \subseteq Owed
    PROVE  OrderInv'
<1>1. active' = EmptyTable /\ st' = "down" /\ names'[1] = << >> /\ todo'[1] = << >>
  <2>1. 1 \in 1 .. part
    BY GoodTypes
  <2> QED BY <2>1 DEF NewShard
<1>2. HistInv /\ KeyInv /\ LogOrder /\ FileOrder
  BY DEF Good, OrderInv
<1>3. Snap' = EmptyTable /\ SnapFiles' = << >> /\ SnapLeft' = {}
  BY DEF Snap, SnapFiles, SnapLeft, EmptyTable, Nil
<1>4. LogRows' = LogRows /\ Outside' = LogRows
  <2>1. Unflushed' = wal
    BY <1>3, CovEmpty DEF Unflushed
  <2> QED BY <2>1 DEF LogRows, Outside
<1>5. KeyInv'
  <2>1. KeyOK(EmptyTable)
    BY KeyOKEmpty
  <2> QED BY <1>1, <1>2, <1>3, <2>1 DEF KeyInv, KeyOK
<1>6. Mirror' /\ Intact' /\ TodoOrder'
  <2>1. Rows(EmptyTable) = {}
    BY EmptyTableFacts
  <2>2. Rows(active)' = {} /\ Rows(Snap)' = {}
    BY <1>1, <1>3, <2>1 DEF Rows
  <2> QED BY <1>1, <2>2, CovEmpty DEF Mirror, Intact, TodoOrder, Reading
<1>7. Sweep'
  BY <1>1, <1>3, NamedEmpty, SweepEmpty DEF Sweep
<1>8. \A a : Later(a)' <=> a \in LogRows
  BY <1>1, <1>4 DEF Later, Complete, Reading
<1>9. ASSUME NEW a \in Owed, NEW r \in before[a]
      PROVE  Chain(key[a], tssp[key[a]], Snap'[key[a]], SnapLeft', active'[key[a]], r, a, Later(a)')
  <2>1. key[a] \in Key
    BY GoodTypes
  <2>2. active'[key[a]] = << >> /\ Snap'[key[a]] = << >>
    BY <1>1, <1>3, <2>1 DEF EmptyTable
  <2>3. Cov(tssp[key[a]], r, a) \/ Later(a)'
    BY <1>2, <1>8, <1>9 DEF FileOrder
  <2> QED BY <2>2, <2>3, CovEmpty DEF Chain
<1>10. Chained'
  BY <1>9 DEF Chained, Chain
<1> QED BY <1>2, <1>5, <1>6, <1>7, <1>10, HistKept, LogOrderKept, FileOrderKept DEF OrderInv

\* Close waits for flushes and returns.
LEMMA QuietOrder ==
    ASSUME Good, Quiet
    PROVE  OrderInv'
<1>1. UNCHANGED <<key, before, acked, wr, wal, lw, tssp, active, slot, alive, errs, names, todo, rm>>
  BY QuietFacts
<1>2. st \in {"closing", "drained", "closed"} /\ st' \in Closing /\ st' # "closing" /\ ~alive
  <2>1. st \in Closing \ {"closing"} => ~alive
    BY DEF Good, Inv, CloseInv
  <2>2. st = "closing" => ~alive
    BY DEF Quiet, CloseWait, CloseDone, ReloadEarly
  <2> QED BY <2>1, <2>2, QuietFacts
<1>3. HistInv /\ KeyInv /\ LogOrder /\ FileOrder /\ Mirror /\ Intact /\ Sweep /\ Chained /\ TodoOrder
  BY DEF Good, OrderInv
<1>4. UNCHANGED <<Snap, SnapFiles, SnapLeft>>
  BY <1>1, SlotSame
<1>5. Owed' = Owed /\ Tracked' = Tracked /\ AtWal' = AtWal /\ Outside' = Outside
  BY <1>1, <1>4, WritersSame, OutsideKept
<1>6. Intact' /\ TodoOrder'
  BY <1>2 DEF Intact, TodoOrder, Reading
<1>7. Sweep'
  BY <1>1, <1>2, <1>3, <1>4 DEF Sweep
<1>8. \A a : Later(a) => Later(a)'
  BY <1>1, <1>2, <1>5 DEF Later, Complete, Reading
<1> QED BY <1>1, <1>3, <1>4, <1>5, <1>6, <1>7, <1>8, HistKept, KeyKept, LogOrderKept, FileOrderKept,
      MirrorKept, ChainedKept DEF OrderInv

\* The shard is loaded again, or the process stops.
LEMMA StopOrder ==
    ASSUME Good, Reload \/ Crash
    PROVE  OrderInv'
<1>1. NewShard /\ UNCHANGED <<key, before, acked, wal, tssp, part>>
  BY DEF Reload, Crash
<1>2. TypeRun /\ 1 \in Slot
  BY GoodTypes
<1>3. slot'[1] = Nil
  BY <1>2 DEF Reload, Crash
<1>4. CASE Reload
  <2>1. UNCHANGED <<wr, acked>> /\ st = "closed"
    BY <1>4 DEF Reload
  <2>2. Owed' \subseteq Owed /\ Tracked' \subseteq Owed
    BY <2>1, WritersSame, OwedLogged
  <2> QED BY <1>1, <1>3, <2>2, DownOrder
<1>5. CASE Crash
  <2>1. Owed' \subseteq Owed
    BY <1>2, <1>5, OwedOther
  <2>2. Tracked' \subseteq Owed
    <3>1. \A w \in Writer : wr'[w].pc # "wal"
      BY <1>5 DEF Crash, Idle
    <3> QED BY <2>1, <3>1 DEF Tracked, At
  <2> QED BY <1>1, <1>3, <2>1, <2>2, DownOrder
<1> QED BY <1>4, <1>5

-----------------------------------------------------------------------------
(* The theorem.                                                            *)

\* A new shard has no rows.
LEMMA InitOrder == Init /\ part = 1 /\ engine = "ts" => OrderInv
<1> SUFFICES ASSUME Init, part = 1, engine = "ts" PROVE OrderInv
  OBVIOUS
<1>1. 1 \in Slot /\ 1 \in 1 .. part
  BY OneSlot
<1>2. /\ wal = {} /\ tssp = EmptyTable /\ active = EmptyTable /\ slot[1] = Nil /\ st = "down"
      /\ key = << >> /\ before = << >> /\ acked = {} /\ todo[1] = << >> /\ names[1] = << >>
      /\ \A w \in Writer : wr[w] = Idle
  BY <1>1 DEF Init
<1>3. Snap = EmptyTable /\ SnapFiles = << >> /\ Rows(EmptyTable) = {}
  BY <1>2, EmptyTableFacts DEF Snap, SnapFiles
<1>4. Owed = {} /\ Tracked = {}
  BY <1>2 DEF Owed, Tracked, At, Idle
<1>5. HistInv
  BY <1>2 DEF HistInv
<1>6. KeyInv
  BY <1>2, <1>3, KeyOKEmpty DEF KeyInv
<1>7. LogOrder /\ FileOrder /\ Chained /\ TodoOrder
  BY <1>4 DEF LogOrder, FileOrder, Chained, TodoOrder
<1>8. Mirror /\ Intact
  BY <1>2, <1>3, CovEmpty DEF Mirror, Intact
<1>9. Sweep
  BY <1>2, <1>3, NamedEmpty, SweepEmpty DEF Sweep
<1> QED BY <1>5, <1>6, <1>7, <1>8, <1>9 DEF OrderInv

\* What the index has on disk it knows.
LEMMA LoadedStep == IndexLoaded /\ [Next]_vars => IndexLoaded'
<1> SUFFICES ASSUME IndexLoaded, [Next]_vars PROVE IndexLoaded'
  OBVIOUS
<1>1. ASSUME idxDisk' = idxDisk, idxMem \subseteq idxMem' PROVE IndexLoaded'
  BY <1>1 DEF IndexLoaded
<1>2. ASSUME NEW w \in Writer, Write(w) PROVE IndexLoaded'
  <2>1. CASE \E ok \in BOOLEAN : WriteIndex(w, ok)
    BY <1>1, <2>1 DEF WriteIndex, Indexed
  <2>2. CASE ~\E ok \in BOOLEAN : WriteIndex(w, ok)
    <3>1. UNCHANGED <<idxDisk, idxMem>>
      BY <1>2, <2>2 DEF Write, WriteRows, WriteLock, WriteLacks, WriteTable, WriteTableFails, WalWrite,
                       WriteAck, WriteNack, WriteLate
    <3> QED BY <1>1, <3>1
  <2> QED BY <2>1, <2>2
<1>3. CASE Tick \/ ForceFlush \/ UNCHANGED vars
  BY <1>1, <1>3 DEF Tick, ForceFlush, vars
<1>4. CASE Flush
  <2>1. ASSUME NEW i \in Slot, IndexFlush(i) PROVE IndexLoaded'
    BY <2>1 DEF IndexFlush, IndexLoaded
  <2>2. ASSUME NEW i \in Slot, (\E k \in Key : FlushChunks(i, k)) \/ FreeResource(i) \/ RemoveWalFile(i)
                                \/ DropSnapshot(i)
        PROVE  UNCHANGED <<idxDisk, idxMem>>
    BY <2>2 DEF FlushChunks, FreeResource, RemoveWalFile, DropSnapshot
  <2>3. ASSUME NEW f \in Flusher,
               WaitStorage(f) \/ WaitSnapshot(f) \/ WriteSnapshot(f) \/ DisableForceFlush(f)
        PROVE  UNCHANGED <<idxDisk, idxMem>>
    BY <2>3 DEF WaitStorage, WaitSnapshot, WriteSnapshot, DisableForceFlush
  <2> QED BY <1>1, <1>4, <2>1, <2>2, <2>3 DEF Flush
<1>5. CASE Reopen
  <2>1. ASSUME NEW out \in Outcomes, ReplayRow(out) PROVE IndexLoaded'
    <3>1. idxDisk' = idxDisk /\ (idxMem' = idxMem \/ idxMem' = Indexed(key[Head(todo[NextPart])], out = "ok"))
      BY <2>1 DEF ReplayRow
    <3> QED BY <1>1, <3>1 DEF Indexed
  <2>2. CASE OpenAndEnable \/ ReplayFails \/ ReplayDone \/ RemoveReplayed \/ Opened
    <3>1. UNCHANGED <<idxDisk, idxMem>>
      BY <2>2 DEF OpenAndEnable, ReplayFails, ReplayDone, RemoveReplayed, Opened
    <3> QED BY <1>1, <3>1
  <2> QED BY <1>5, <2>1, <2>2 DEF Reopen
<1>6. CASE Close
  <2>1. UNCHANGED <<idxDisk, idxMem>>
    BY <1>6 DEF Close, CloseBegin, CloseWal, CloseMem, CloseWait, CloseDone, Reload, ReloadEarly
  <2> QED BY <1>1, <2>1
<1>7. CASE Crash
  BY <1>7 DEF Crash, IndexLoaded
<1> QED BY <1>2, <1>3, <1>4, <1>5, <1>6, <1>7 DEF Next

\* Every step keeps the order.
LEMMA OrderStep == Good /\ [Next]_vars => OrderInv'
<1> SUFFICES ASSUME Good, [Next]_vars PROVE OrderInv'
  OBVIOUS
<1>1. ASSUME NEW w \in Writer, Write(w) PROVE OrderInv'
  BY <1>1, WriteQuietly, WriteRowsOrder, WriteTableOrder, WalWriteOrder DEF Write
<1>2. CASE Tick \/ ForceFlush \/ UNCHANGED vars
  <2>1. "ticker" \in Flusher
    BY DEF Flusher
  <2> QED BY <1>2, <2>1, FlushQuietly
<1>3. CASE Flush
  <2>1. ASSUME NEW f \in Flusher, WaitStorage(f) \/ WaitSnapshot(f) \/ WriteSnapshot(f) \/ DisableForceFlush(f)
        PROVE  OrderInv'
    <3>1. CASE WaitStorage(f) \/ WaitSnapshot(f)
      BY <3>1, FlushQuietly
    <3>2. CASE WriteSnapshot(f)
      BY <3>2, FlushQuietly, SnapshotOrder
    <3>3. CASE DisableForceFlush(f)
      BY <3>3, FlushQuietly, FlushedOrder
    <3> QED BY <2>1, <3>1, <3>2, <3>3
  <2>2. ASSUME NEW i \in Slot,
               \/ IndexFlush(i) \/ (\E k \in Key : FlushChunks(i, k)) \/ FreeResource(i)
               \/ RemoveWalFile(i) \/ DropSnapshot(i)
        PROVE  OrderInv'
    <3>1. i = 1
      BY GoodTypes
    <3> QED BY <2>2, <3>1, StageQuietly, ChunksOrder, RemoveOrder, DropOrder
  <2> QED BY <1>3, <2>1, <2>2 DEF Flush
<1>4. CASE Reopen
  BY <1>4, OpenOrder, ReplayRowOrder, ReplayEnds, RemoveReplayedOrder, OpenedOrder DEF Reopen
<1>5. CASE Close
  <2>1. CASE CloseBegin
    <3>1. "ticker" \in Flusher
      BY DEF Flusher
    <3> QED BY <2>1, <3>1, FlushQuietly
  <2> QED BY <1>5, <2>1, CloseWalOrder, CloseMemOrder, QuietOrder, StopOrder DEF Close, Quiet
<1>6. CASE Crash
  BY <1>6, StopOrder
<1> QED BY <1>1, <1>2, <1>3, <1>4, <1>5, <1>6 DEF Next

\* What a read returns was not replaced.
LEMMA OrderServed == Good => ReplayKeepsOrder
<1> SUFFICES ASSUME Good, st = "open", NEW b \in acked \ limited, NEW a \in acked, key[a] = key[b],
                    NEW r \in before[a], Value(key[b]) = r
             PROVE  FALSE
  BY DEF ReplayKeepsOrder, Overwritten
<1> DEFINE k == key[b]
           T == tssp[k]
           S == Snap[k]
           A == active[k]
           s == T \o S \o A
<1>1. /\ active \in Table /\ tssp \in Table /\ Snap \in Table /\ Owed \subseteq Known /\ Owed \subseteq Tracked
      /\ \A x \in Known : key[x] \in Key
  BY GoodTypes
<1>2. a \in Owed /\ b \in Owed
  BY DEF Owed
<1>3. k \in Key /\ T \in Seq(Known) /\ S \in Seq(Known) /\ A \in Seq(Known)
  BY <1>1, <1>2 DEF Table
<1>4. KeyInv /\ Chained
  BY DEF Good, OrderInv
<1>6. ~Later(a)
  BY DEF Later, Complete, Reading
<1>7. Chain(k, T, S, SnapLeft, A, r, a, FALSE)
  BY <1>1, <1>2, <1>4, <1>6 DEF Chained, Chain
<1>8. Value(k) = Last(s)
  BY <1>3 DEF Value, Snap, EmptyTable
<1> HIDE DEF k, T, S, A
<1>9. T \o S \in Seq(Known) /\ s \in Seq(Known)
  BY <1>3, ConcatProperties
<1>10. Cov(T \o S, r, a) \/ a \in ToSet(A)
  BY <1>3, <1>7, CovConcat DEF Chain
<1>11. Cov(s, r, a)
  BY <1>3, <1>7, <1>9, <1>10, CovConcat DEF Chain
<1>12. b \in ToSet(s)
  <2>1. b \in Rows(active) \union Rows(Snap) \union Rows(tssp)
    <3>1. engine = "ts" /\ b \in Memory \union Rows(tssp)
      BY <1>2 DEF Good, Inv, DurableInv, Served, Kept
    <3> QED BY <3>1, MemoryFacts DEF Snap
  <2>2. ASSUME NEW t, KeyOK(t), b \in Rows(t) PROVE b \in ToSet(t[k])
    BY <2>2 DEF KeyOK, Rows, k
  <2>3. b \in ToSet(A) \union ToSet(S) \union ToSet(T)
    BY <1>4, <2>1, <2>2 DEF KeyInv, A, S, T
  <2>4. ToSet(T \o S) = ToSet(T) \union ToSet(S) /\ ToSet(s) = ToSet(T \o S) \union ToSet(A)
    <3>1. ToSet(T \o S) = ToSet(T) \union ToSet(S)
      BY <1>3, ConcatRange
    <3>2. PICK q \in Seq(Known) : q = T \o S
      BY <1>9
    <3>3. ToSet(q \o A) = ToSet(q) \union ToSet(A)
      BY <1>3, <3>2, ConcatRange
    <3> QED BY <3>1, <3>2, <3>3
  <2> QED BY <2>3, <2>4
<1>13. s # << >>
  BY <1>12, CovEmpty
<1> HIDE DEF s
<1>14. Last(s) # r
  BY <1>9, <1>11, <1>13, CovLast
<1> QED BY <1>8, <1>14 DEF k

\* "The update of the same time at a certain series is guaranteed" when the log has one
\* partition: a shard that is open (st = "open") never shows a value that an
\* acknowledged write has replaced, whatever flushes, removals of log files, crashes,
\* closes, replays and retries of OpenAndEnable came between, and whichever rows a
\* replay has skipped for the series limit.
THEOREM OnePartitionKeepsOrderAlways == Spec => []OnePartitionKeepsOrder
<1> DEFINE P == part = 1 /\ engine = "ts" => IndexLoaded /\ OrderInv
<1>1. Init => P
  BY InitOrder DEF Init, IndexLoaded
<1>2. Inv /\ P /\ [Next]_vars => P'
  <2> SUFFICES ASSUME Inv, P, [Next]_vars, part' = 1, engine' = "ts" PROVE IndexLoaded' /\ OrderInv'
    OBVIOUS
  <2>1. part = 1 /\ engine = "ts"
    BY SameConfig
  <2> QED BY <2>1, OrderStep, LoadedStep DEF Good
<1>3. Inv /\ P => OnePartitionKeepsOrder
  BY OrderServed DEF Good, OnePartitionKeepsOrder, ReplayKeepsOrder
<1> HIDE DEF P
<1> QED BY <1>1, <1>2, <1>3, Inductive, PTL DEF Spec

=============================================================================
