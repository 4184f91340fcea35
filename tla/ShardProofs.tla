---------------------------- MODULE ShardProofs ----------------------------
(***************************************************************************)
(* Proofs about one shard of a store (module Shard): but for rows that a   *)
(* replay skips for the series limit, no crash loses an acknowledged row,  *)
(* an open shard serves them all, and a forced flush covers those          *)
(* acknowledged when it was asked for; the index on disk covers the data   *)
(* files, writeSnapshot does not panic (the column store: before a Close), *)
(* and no token of the memory bucket is created or, before a Close, lost.  *)
(***************************************************************************)
EXTENDS Shard, SequenceFacts

-----------------------------------------------------------------------------
(* The inductive invariant.                                                *)

\* The rows that have been written, whatever became of them.
Known == 1 .. Len(key)
Table == [Key -> Seq(Known)]
LogFile == [part : 1 .. part, seq : Nat \ {0}, rows : Seq(Known)]
FileName == (1 .. part) \X Nat
BusySlot == [stage : {"index", "chunks", "remove"}, by : Flusher, tbl : Table,
             size : Nat, files : Seq(FileName), left : SUBSET Key]
Filled == {i \in Slot : slot[i] # Nil}

\* From s.mu.Lock of Close on.
Closing == {"closing", "drained", "closed", "overtaken"}

TypeDisk ==
    /\ wal \subseteq LogFile /\ IsFiniteSet(wal)
    /\ tssp \in Table /\ idxDisk \subseteq Key
TypeLog ==
    /\ lw \in [1 .. part -> [seq : Nat, fd : BOOLEAN, names : Names]]
    /\ writeReq \in 0 .. (part - 1)
TypeTables ==
    /\ active \in Table /\ alive \in BOOLEAN /\ size \in Nat
    /\ slot \in [Slot -> {Nil} \union BusySlot]
TypeRun ==
    /\ wr \in [Writer -> [pc : {"idle", "checked", "alloc", "mem", "wal", "ack", "nack",
                                "late"}, row : Known \union {0}, idx : BOOLEAN]]
    /\ fl \in [Flusher -> {"idle", "wait", "ready", "switch", "flush", "end"}]
    /\ asked \in [Flusher -> SUBSET Known]
    /\ forceFlush \in BOOLEAN /\ closing \in BOOLEAN
    /\ st \in {"down", "replay", "flush", "remove", "failed", "open"} \union Closing
    /\ idxMem \subseteq Key
TypeReplay ==
    /\ names \in [1 .. part -> Names] /\ todo \in [1 .. part -> Seq(Known)]
    /\ turn \in 1 .. part /\ errs \in BOOLEAN /\ rm \in Seq(FileName)
TypeHist ==
    /\ key \in Seq(Key) /\ Len(key) <= MaxWrite /\ acked \subseteq Known /\ limited \subseteq Known
    /\ before \in Seq(SUBSET Known)
TypeConfig == part \in 1 .. MaxPart /\ engine \in Engines
TypeInv ==
    /\ TypeConfig /\ TypeDisk /\ TypeLog /\ TypeTables /\ TypeRun /\ TypeReplay /\ TypeHist

Working == {"checked", "alloc", "mem", "wal", "ack", "nack"}
Fresh == {"checked", "alloc", "mem", "wal"}
\* Rows the shard has to keep: acknowledged, or about to be.
Owed == acked \union {wr[w].row : w \in {v \in Writer : At(v, "ack")}}

\* Writers run on an open shard, each with a row of its own, which enters the log
\* once; between the memtable and the log the row stays in the active table
\* (snapshotLock).
WriterInv ==
    /\ \A w \in Writer : wr[w].pc \in Working => st = "open" /\ wr[w].row \in Known
    /\ \A w \in Writer : wr[w].pc \in Fresh => wr[w].row \notin LogRows \union acked
    /\ \A w \in Writer : At(w, "wal") /\ wr[w].idx => wr[w].row \in Rows(active)
    /\ \A w, v \in Writer : w # v /\ wr[w].pc \in Working /\ wr[v].pc \in Working
                            => wr[w].row # wr[v].row

\* Who flushes: forceChan admits one forced flush, snapshotWg one writeSnapshot, and
\* a snapshot table belongs to the flush that filled it.
FlusherInv ==
    /\ fl["ticker"] \in {"idle", "switch", "flush"}
    /\ fl["ticker"] # "idle" => st \in {"open", "closing", "drained"}
    /\ forceFlush <=> fl["force"] # "idle" \/ fl["replay"] # "idle"
    /\ fl["force"] = "idle" \/ fl["replay"] = "idle"
    /\ fl["replay"] # "idle" <=> st = "flush"
    /\ \A f, g \in Flusher : fl[f] \in {"switch", "flush"} /\ fl[g] \in {"switch", "flush"} => f = g
    /\ \A f \in Flusher : fl[f] = "switch" => FreeSlots # {}
    /\ st = "down" => Filled = {} /\ \A f \in Flusher : fl[f] = "idle"
    /\ st \notin Closing => alive
SlotInv ==
    /\ \A i \in Filled : engine = "ts" \/ slot[i].stage = "index" => fl[slot[i].by] = "flush"
    /\ engine = "ts" => \A f \in Flusher : fl[f] = "flush" => slot[1] # Nil /\ slot[1].by = f
    /\ \A i, j \in Filled : slot[i].stage = "index" /\ slot[j].stage = "index" => i = j

\* The files of a partition have numbers of their own, up to the one of its writer;
\* a writer names files that exist, each once.
Unique == \A f, g \in wal : f.part = g.part /\ f.seq = g.seq => f = g
LogInv ==
    /\ Unique
    /\ st # "down" => \A f \in wal : f.seq <= lw[f.part].seq
    /\ st # "open" => \A p \in 1 .. part : lw[p].names = << >>
    /\ \A p \in 1 .. part : lw[p].fd => lw[p].seq \in ToSet(lw[p].names)
    /\ \A p \in 1 .. part : /\ IsInjective(lw[p].names)
                            /\ \A q \in ToSet(lw[p].names) : q <= lw[p].seq /\ File(<<p, q>>) # {}

\* The files a flush has still to remove exist, and nobody else names them.
SlotFilesInv ==
    /\ \A i \in Filled : /\ IsInjective(slot[i].files)
                         /\ \A n \in ToSet(slot[i].files) :
                              /\ File(n) # {}
                              /\ n[2] <= lw[n[1]].seq
                              /\ n[2] \notin ToSet(lw[n[1]].names)
    /\ \A i, j \in Filled : i # j => ToSet(slot[i].files) \cap ToSet(slot[j].files) = {}
    /\ st \notin {"open"} \union Closing => \A i \in Filled : slot[i].files = << >>

\* A log file is not removed before the table that has its rows is flushed.
NamedCover ==
    \A g \in wal : g.seq \in ToSet(lw[g.part].names) => ToSet(g.rows) \cap Owed \subseteq Rows(active)
SlotCover ==
    \A i \in Filled :
      /\ \A g \in wal : <<g.part, g.seq>> \in ToSet(slot[i].files)
                          => ToSet(g.rows) \cap Owed \subseteq Rows(slot[i].tbl)
      /\ \A k \in Key \ slot[i].left : ToSet(slot[i].tbl[k]) \subseteq ToSet(tssp[k])
      /\ slot[i].stage = "remove" => slot[i].left = {}

\* Where the rows of the time series engine are: an owed row is in the log or in a
\* data file, and in one of the tables or a data file once the shard is open; the
\* replay leaves no row of the log behind.
ToReplay == UNION {ToSet(todo[p]) : p \in 1 .. part}
Kept == Memory \union Rows(tssp)
Stored == Owed \ limited \subseteq LogRows \union Rows(tssp)
Served == st = "open" => Owed \ limited \subseteq Kept
Replayed ==
    /\ st = "replay" /\ ~errs => LogRows \ limited \subseteq ToReplay \union Kept
    /\ st = "flush" => LogRows \ limited \subseteq Kept
    /\ st = "flush" /\ fl["replay"] \in {"flush", "end"} => Rows(active) = {}
    /\ st = "flush" /\ fl["replay"] = "end" => LogRows \ limited \subseteq Rows(tssp)
    /\ st = "remove" => LogRows \ limited \subseteq Rows(tssp)
DurableInv == engine = "ts" => Stored /\ Served /\ Replayed

\* Where the rows are that a forced flush has been asked for.
AskedInv ==
    /\ asked["ticker"] = {}
    /\ engine = "ts" /\ alive => \A f \in Flusher :
        /\ fl[f] # "idle" => asked[f] \subseteq Kept
        /\ fl[f] = "flush" => asked[f] \subseteq Rows(slot[1].tbl) \union Rows(tssp)
        /\ fl[f] = "end" => asked[f] \subseteq Rows(tssp)

\* A series is in the index before its rows are in a table, and in the index on disk
\* before they are flushed.
FilesIndexed == \A k \in Key : tssp[k] # << >> => k \in idxDisk
Indexing ==
    /\ \A k \in Key : active[k] # << >> => k \in idxMem
    /\ \A i \in Filled : /\ slot[i].left \subseteq idxMem
                         /\ slot[i].stage # "index" => slot[i].left \subseteq idxDisk
    /\ \A w \in Writer : At(w, "mem") /\ wr[w].idx => key[wr[w].row] \in idxMem
    /\ FilesIndexed
IndexInv == engine = "ts" => Indexing

\* How far Close has come; when it returns, the time series engine flushes no more.
CloseInv ==
    /\ closes \in Nat
    /\ closing => closes > 0
    /\ st \in Closing => closing
    /\ st \in Closing \ {"closing"} => ~alive
    /\ engine = "ts" /\ st = "closed" => Filled = {}
    /\ engine = "ts" => st # "overtaken"

Inv ==
    /\ TypeInv /\ WriterInv /\ FlusherInv /\ SlotInv /\ LogInv /\ SlotFilesInv
    /\ NamedCover /\ SlotCover /\ DurableInv /\ AskedInv /\ IndexInv /\ CloseInv

-----------------------------------------------------------------------------
(* Operators.                                                              *)

USE DEF cfgvars, disk, logvars, tables, flushers, replay, history, bounds

\* An empty table.
LEMMA EmptyTableFacts == EmptyTable \in Table /\ Rows(EmptyTable) = {}
<1>1. << >> \in Seq(Known)
  BY EmptySeq
<1>2. ToSet(<< >>) = {}
  BY DEF ToSet
<1> QED BY <1>1, <1>2 DEF EmptyTable, Table, Rows

\* A row that is added to a table.
LEMMA AddRowFacts ==
    ASSUME key \in Seq(Key), NEW t \in Table, NEW r \in Known
    PROVE  /\ AddRow(t, r) \in Table
           /\ Rows(AddRow(t, r)) = Rows(t) \union {r}
           /\ \A k \in Key : AddRow(t, r)[k] # << >> => t[k] # << >> \/ k = key[r]
<1> DEFINE k == key[r]
<1>1. k \in Key /\ t[k] \in Seq(Known)
  BY ElementOfSeq DEF Known, Table
<1>2. Append(t[k], r) \in Seq(Known)
  BY <1>1, AppendProperties
<1>3. ToSet(Append(t[k], r)) = ToSet(t[k]) \union {r}
  BY <1>1, AppendRange
<1> DEFINE u == AddRow(t, r)
<1>4. u = [t EXCEPT ![k] = Append(@, r)]
  BY DEF AddRow
<1> HIDE DEF k, u
<1>5. u \in Table
  BY <1>1, <1>2, <1>4 DEF Table
<1>6. \A j \in Key : j # k => u[j] = t[j]
  BY <1>4 DEF Table
<1>7. u[k] = Append(t[k], r)
  BY <1>1, <1>4 DEF Table
<1>8. Rows(u) = Rows(t) \union {r}
  BY <1>1, <1>3, <1>6, <1>7 DEF Rows
<1> QED BY <1>5, <1>6, <1>8 DEF u, k

\* The rows of a snapshot table that are appended to the data files.
LEMMA FlushedFacts ==
    ASSUME NEW t \in Table, NEW u \in Table, NEW k \in Key
    PROVE  LET v == [t EXCEPT ![k] = @ \o u[k]]
           IN  /\ v \in Table
               /\ \A j \in Key : ToSet(t[j]) \subseteq ToSet(v[j])
               /\ ToSet(u[k]) \subseteq ToSet(v[k])
               /\ Rows(t) \subseteq Rows(v)
               /\ \A j \in Key : v[j] # << >> => t[j] # << >> \/ j = k
<1> DEFINE v == [t EXCEPT ![k] = @ \o u[k]]
<1>1. t[k] \in Seq(Known) /\ u[k] \in Seq(Known)
  BY DEF Table
<1>2. t[k] \o u[k] \in Seq(Known)
  BY <1>1, ConcatProperties
<1>3. ToSet(t[k] \o u[k]) = ToSet(t[k]) \union ToSet(u[k])
  BY <1>1, ConcatRange
<1>4. v \in Table
  BY <1>2 DEF Table
<1>5. v[k] = t[k] \o u[k] /\ \A j \in Key : j # k => v[j] = t[j]
  BY DEF Table
<1> HIDE DEF v
<1>6. \A j \in Key : ToSet(t[j]) \subseteq ToSet(v[j])
  BY <1>3, <1>5
<1>7. Rows(t) \subseteq Rows(v)
  BY <1>6 DEF Rows
<1>8. v \in Table /\ (\A j \in Key : ToSet(t[j]) \subseteq ToSet(v[j]))
      /\ ToSet(u[k]) \subseteq ToSet(v[k]) /\ Rows(t) \subseteq Rows(v)
      /\ \A j \in Key : v[j] # << >> => t[j] # << >> \/ j = k
  BY <1>3, <1>4, <1>5, <1>6, <1>7
<1> QED BY <1>8 DEF v

\* The order in which files are named or removed does not change which they are.
LEMMA FileOrdersFacts ==
    ASSUME part \in Nat, NEW nm \in [1 .. part -> Names], NEW files \in FileOrders(nm)
    PROVE  /\ files \in Seq(FileName)
           /\ ToSet(files) = {n \in FileName : n[2] \in ToSet(nm[n[1]])}
           /\ (\A p \in 1 .. part : IsInjective(nm[p])) => IsInjective(files)
<1> DEFINE D == 1 .. part
           named(p) == [j \in DOMAIN nm[p] |-> <<p, nm[p][j]>>]
           ss(o) == [n \in D |-> named(o[n])]
<1>1. PICK o \in SetToSeqs(D) : files = FlattenSeq(ss(o))
  BY DEF FileOrders
<1>2. IsFiniteSet(D) /\ Cardinality(D) = part
  BY FS_Interval
<1>3. /\ o \in [D -> D] /\ ToSet(o) = D /\ DOMAIN o = D
      /\ \A i, j \in D : o[i] = o[j] => i = j
  BY <1>2, PermutationRange
<1>4. ASSUME NEW p \in D
      PROVE  /\ nm[p] \in Seq(Nat) /\ named(p) \in Seq(FileName)
             /\ ToSet(named(p)) = {<<p, q>> : q \in ToSet(nm[p])}
             /\ IsInjective(nm[p]) => IsInjective(named(p))
  <2>1. nm[p] \in Seq(Nat)
    BY DEF Names
  <2>2. Len(nm[p]) \in Nat /\ DOMAIN nm[p] = 1 .. Len(nm[p]) /\ \A j \in DOMAIN nm[p] : nm[p][j] \in Nat
    BY <2>1, LenProperties, ElementOfSeq
  <2>3. named(p) \in [1 .. Len(nm[p]) -> FileName]
    BY <2>2 DEF FileName
  <2>4. named(p) \in Seq(FileName)
    BY <2>2, <2>3
  <2>5. ToSet(named(p)) = {<<p, q>> : q \in ToSet(nm[p])}
    BY DEF ToSet
  <2>6. IsInjective(nm[p]) => IsInjective(named(p))
    BY DEF IsInjective
  <2> QED BY <2>1, <2>4, <2>5, <2>6
<1> HIDE DEF named
<1>5. ss(o) \in [D -> Seq(FileName)]
  BY <1>3, <1>4
<1>6. ss(o) \in Seq(Seq(FileName)) /\ DOMAIN ss(o) = D
  BY <1>5
<1>7. \A n \in D : ToSet(ss(o)[n]) = {<<o[n], q>> : q \in ToSet(nm[o[n]])}
  BY <1>3, <1>4
<1>8. \A n \in D : (\A p \in D : IsInjective(nm[p])) => IsInjective(ss(o)[n])
  BY <1>3, <1>4
<1>9. \A n \in D : ss(o)[n] = named(o[n])
  OBVIOUS
<1> DEFINE s == ss(o)
<1> HIDE DEF ss
<1>10. /\ FlattenSeq(s) \in Seq(FileName)
       /\ ToSet(FlattenSeq(s)) = UNION {ToSet(s[i]) : i \in DOMAIN s}
  BY <1>6, FlattenRange
<1>11. \A p \in D : \A q \in ToSet(nm[p]) : q \in Nat
  <2> TAKE p \in D
  <2>1. nm[p] \in Seq(Nat)
    BY <1>4
  <2> QED BY <2>1, RangeOfSeq DEF ToSet, Range
<1>12. ToSet(FlattenSeq(s)) = {n \in FileName : n[2] \in ToSet(nm[n[1]])}
  <2>1. ASSUME NEW x \in ToSet(FlattenSeq(s))
        PROVE  x \in FileName /\ x[2] \in ToSet(nm[x[1]])
    <3>1. PICK n \in D : x \in ToSet(s[n])
      BY <1>6, <1>10
    <3>2. PICK q \in ToSet(nm[o[n]]) : x = <<o[n], q>>
      BY <1>7, <3>1
    <3>3. o[n] \in D
      BY <1>3
    <3> QED BY <1>11, <3>2, <3>3 DEF FileName
  <2>2. ASSUME NEW x \in FileName, x[2] \in ToSet(nm[x[1]])
        PROVE  x \in ToSet(FlattenSeq(s))
    <3>1. x[1] \in D /\ x = <<x[1], x[2]>>
      BY DEF FileName
    <3>2. PICK n \in D : o[n] = x[1]
      BY <1>3, <3>1 DEF ToSet
    <3>3. x \in ToSet(s[n])
      BY <1>7, <2>2, <3>1, <3>2
    <3> QED BY <1>6, <1>10, <3>3
  <2> QED BY <2>1, <2>2
<1>13. ASSUME \A p \in D : IsInjective(nm[p]) PROVE IsInjective(FlattenSeq(s))
  <2>1. \A i \in DOMAIN s : IsInjective(s[i])
    BY <1>6, <1>8, <1>13
  <2>2. ASSUME NEW i \in DOMAIN s, NEW j \in DOMAIN s, i # j
        PROVE  ToSet(s[i]) \cap ToSet(s[j]) = {}
    <3>1. i \in D /\ j \in D /\ o[i] # o[j]
      BY <1>3, <1>6, <2>2
    <3> QED BY <1>7, <3>1
  <2> QED BY <1>6, <2>1, <2>2, FlattenInjective
<1> QED BY <1>1, <1>10, <1>12, <1>13

\* Numbers in ascending order: all of them, the largest last.
LEMMA AscendingFacts ==
    ASSUME NEW S \in SUBSET Nat, IsFiniteSet(S)
    PROVE  /\ Ascending(S) \in Seq(Nat) /\ ToSet(Ascending(S)) = S
           /\ S # {} => /\ Ascending(S) # << >> /\ Last(Ascending(S)) \in S
                        /\ \A q \in S : q <= Last(Ascending(S))
           /\ S = {} => Ascending(S) = << >>
<1> DEFINE n == Cardinality(S)
           Sorted(s) == \A i, j \in DOMAIN s : i < j => s[i] < s[j]
           a == Ascending(S)
<1>1. \E s \in SetToSeqs(S) : Sorted(s)
  <2>1. S \in SUBSET Int
    OBVIOUS
  <2>2. PICK s \in [1 .. n -> S] : \A i, j \in 1 .. n : i < j => s[i] < s[j]
    BY <2>1, AscendingExists
  <2>3. n \in Nat
    BY FS_CardinalityType
  <2>4. DOMAIN s = 1 .. n /\ \A i \in 1 .. n : s[i] \in Int
    BY <2>1
  <2>5. ASSUME NEW i \in 1 .. n, NEW j \in 1 .. n, i # j PROVE s[i] # s[j]
    <3>1. i < j \/ j < i
      BY <2>3, <2>5
    <3>2. s[i] < s[j] \/ s[j] < s[i]
      BY <2>2, <3>1
    <3> QED BY <2>4, <3>2
  <2>6. s \in SetToSeqs(S)
    BY <2>5 DEF SetToSeqs
  <2> QED BY <2>2, <2>4, <2>6
<1>2. a \in SetToSeqs(S) /\ Sorted(a)
  BY <1>1 DEF Ascending
<1> HIDE DEF a
<1>3. /\ n \in Nat /\ a \in [1 .. n -> S] /\ a \in Seq(S) /\ Len(a) = n /\ ToSet(a) = S
  BY <1>2, PermutationRange
<1>4. a \in Seq(Nat)
  BY <1>3, SeqMonotonic
<1>5. S = {} => a = << >>
  <2>1. S = {} => n = 0
    BY FS_EmptySet
  <2> QED BY <1>3, <2>1, EmptySeq
<1>6. ASSUME S # {}
      PROVE  a # << >> /\ Last(a) \in S /\ \A q \in S : q <= Last(a)
  <2>1. n # 0
    BY <1>6, FS_EmptySet
  <2>2. a # << >> /\ Last(a) = a[n] /\ n \in 1 .. n /\ a[n] \in S
    BY <1>3, <2>1 DEF Last
  <2>3. ASSUME NEW q \in S PROVE q <= a[n]
    <3>1. PICK i \in 1 .. n : a[i] = q
      BY <1>3 DEF ToSet
    <3>2. i = n \/ i < n
      BY <1>3
    <3>3. i < n => a[i] < a[n]
      BY <1>2, <1>3, <2>2
    <3>4. q \in Nat /\ a[n] \in Nat
      BY <2>2
    <3> QED BY <3>1, <3>2, <3>3, <3>4
  <2> QED BY <2>2, <2>3
<1> QED BY <1>3, <1>4, <1>5, <1>6 DEF a

Numbers(p) == {f.seq : f \in {g \in wal : g.part = p}}

\* The log files of a partition, as restoreLogs finds them.
LEMMA FilesOfFacts ==
    ASSUME TypeDisk, NEW p
    PROVE  /\ FilesOf(p) \in Seq(Nat) /\ ToSet(FilesOf(p)) = Numbers(p)
           /\ FilesOf(p) # << >> => Last(FilesOf(p)) \in Nat
           /\ FilesOf(p) # << >> => \A f \in wal : f.part = p => f.seq <= Last(FilesOf(p))
           /\ FilesOf(p) = << >> => \A f \in wal : f.part # p
<1> DEFINE W == {g \in wal : g.part = p}
<1>1. IsFiniteSet(W)
  BY FS_Subset DEF TypeDisk
<1>2. IsFiniteSet(Numbers(p))
  <2> DEFINE num == [g \in W |-> g.seq]
  <2>1. num \in Surjection(W, Numbers(p))
    BY DEF Surjection, Numbers
  <2> QED BY <1>1, <2>1, FS_Surjection
<1>3. Numbers(p) \in SUBSET Nat
  BY DEF Numbers, TypeDisk, LogFile
<1>4. FilesOf(p) = Ascending(Numbers(p))
  BY DEF FilesOf, Numbers
<1>5. \A f \in wal : f.part = p => f.seq \in Numbers(p)
  BY DEF Numbers
<1>6. /\ FilesOf(p) \in Seq(Nat) /\ ToSet(FilesOf(p)) = Numbers(p)
      /\ Numbers(p) # {} => /\ FilesOf(p) # << >> /\ Last(FilesOf(p)) \in Numbers(p)
                            /\ \A q \in Numbers(p) : q <= Last(FilesOf(p))
      /\ Numbers(p) = {} => FilesOf(p) = << >>
  BY <1>2, <1>3, <1>4, AscendingFacts
<1> QED BY <1>3, <1>5, <1>6

RowsOf(n) == UNION {ToSet(f.rows) : f \in File(n)}

\* What replayOnePartition reads: rows that were written and, unless a file is
\* missing, all rows of the files it has the names of.
LEMMA RecordsFacts ==
    ASSUME TypeDisk, Unique, NEW nm, NEW p, nm[p] \in Seq(Nat)
    PROVE  /\ Records(p, nm) \in Seq(Known)
           /\ Missing(p, nm) = {} =>
                ToSet(Records(p, nm)) = UNION {RowsOf(<<p, q>>) : q \in ToSet(nm[p])}
<1> DEFINE file(j) == File(<<p, nm[p][j]>>)
           good == {j \in DOMAIN nm[p] : \A m \in Missing(p, nm) : j < m}
           rows(j) == (CHOOSE f \in file(j) : TRUE).rows
           ss == [j \in good |-> rows(j)]
<1>1. Len(nm[p]) \in Nat /\ DOMAIN nm[p] = 1 .. Len(nm[p])
  BY LenProperties
<1>2. \E n \in Nat : good = 1 .. n
  <2>1. CASE Missing(p, nm) = {}
    BY <1>1, <2>1
  <2>2. CASE Missing(p, nm) # {}
    <3>1. Missing(p, nm) \in SUBSET Nat /\ Missing(p, nm) \subseteq 1 .. Len(nm[p])
      BY <1>1 DEF Missing
    <3>2. PICK m \in Missing(p, nm) : \A x \in Missing(p, nm) : m <= x
      BY <2>2, <3>1, LeastNat
    <3>3. m - 1 \in Nat
      BY <1>1, <3>1
    <3>4. good = 1 .. m - 1
      BY <1>1, <3>1, <3>2
    <3> QED BY <3>3, <3>4
  <2> QED BY <2>1, <2>2
<1>3. ASSUME NEW j \in good
      PROVE  rows(j) \in Seq(Known) /\ ToSet(rows(j)) = RowsOf(<<p, nm[p][j]>>)
  <2>1. j \notin Missing(p, nm) /\ j \in DOMAIN nm[p]
    BY <1>1, <1>3
  <2>2. file(j) # {}
    BY <2>1 DEF Missing
  <2>3. PICK f \in file(j) : f = CHOOSE x \in file(j) : TRUE
    BY <2>2
  <2>4. f \in wal /\ file(j) = {f}
    BY <2>3 DEF File, Unique
  <2> QED BY <2>3, <2>4 DEF TypeDisk, LogFile, RowsOf
<1>4. ss \in [good -> Seq(Known)]
  BY <1>3
<1>5. ss \in Seq(Seq(Known)) /\ DOMAIN ss = good
  <2> HIDE DEF good, ss
  <2>1. PICK n \in Nat : good = 1 .. n
    BY <1>2
  <2> QED BY <1>4, <2>1
<1>6. FlattenSeq(ss) \in Seq(Known) /\ ToSet(FlattenSeq(ss)) = UNION {ToSet(ss[i]) : i \in DOMAIN ss}
  BY <1>5, FlattenRange
<1>7. \A i \in good : ToSet(ss[i]) = RowsOf(<<p, nm[p][i]>>)
  BY <1>3
<1>8. Records(p, nm) = IF good = {} THEN << >> ELSE FlattenSeq(ss)
  BY DEF Records
<1> HIDE DEF ss
<1>9. Records(p, nm) \in Seq(Known)
  BY <1>6, <1>8, EmptySeq
<1>10. ToSet(Records(p, nm)) = UNION {RowsOf(<<p, nm[p][i]>>) : i \in good}
  <2>1. CASE good = {}
    <3>1. Records(p, nm) = << >>
      BY <1>8, <2>1
    <3>2. ToSet(<< >>) = {}
      BY DEF ToSet
    <3> HIDE DEF good
    <3> QED BY <2>1, <3>1, <3>2
  <2>2. CASE good # {}
    BY <1>5, <1>6, <1>7, <1>8, <2>2
  <2> QED BY <2>1, <2>2
<1>11. Missing(p, nm) = {} => good = DOMAIN nm[p]
  OBVIOUS
<1> HIDE DEF good
<1>12. {RowsOf(<<p, q>>) : q \in ToSet(nm[p])} = {RowsOf(<<p, nm[p][i]>>) : i \in DOMAIN nm[p]}
  BY DEF ToSet
<1> QED BY <1>9, <1>10, <1>11, <1>12


-----------------------------------------------------------------------------
(* Types.                                                                  *)

\* The types hold of a new shard.
LEMMA InitTypes == Init => TypeInv
<1> SUFFICES ASSUME Init PROVE TypeInv
  OBVIOUS
<1>1. TypeConfig
  BY DEF Init, TypeConfig
<1>2. EmptyTable \in Table /\ key \in Seq(Key) /\ Len(key) = 0
  BY DEF Init, EmptyTable, Table
<1>3. TypeDisk
  BY <1>2, FS_EmptySet DEF Init, TypeDisk
<1>4. TypeLog
  BY <1>1, ShardAssumption DEF Init, TypeLog, TypeConfig, NoWriter, Names
<1>5. TypeTables
  BY <1>2 DEF Init, TypeTables
<1>6. TypeRun
  BY DEF Init, TypeRun, Idle
<1>7. TypeReplay
  <2>1. << >> \in Names /\ << >> \in Seq(Known) /\ << >> \in Seq(FileName)
    BY EmptySeq DEF Names
  <2>2. todo = [p \in 1 .. part |-> << >>] /\ names = [p \in 1 .. part |-> << >>]
    BY DEF Init
  <2>3. turn \in 1 .. part
    BY <1>1, ShardAssumption DEF Init, TypeConfig
  <2> QED BY <2>1, <2>2, <2>3 DEF Init, TypeReplay
<1>8. TypeHist
  BY <1>2, ShardAssumption DEF Init, TypeHist
<1> QED BY <1>1, <1>3, <1>4, <1>5, <1>6, <1>7, <1>8 DEF TypeInv

\* The sets the types are built from, while no row is added.
LEMMA SameTypes ==
    ASSUME UNCHANGED <<key, part, engine>>
    PROVE  /\ Known' = Known /\ Table' = Table /\ LogFile' = LogFile /\ FileName' = FileName
           /\ BusySlot' = BusySlot /\ Slot' = Slot
BY DEF Known, Table, LogFile, FileName, BusySlot, Slot

\* The configuration of the shard never changes.
LEMMA SameConfig == [Next]_vars => UNCHANGED <<part, engine>>
<1> SUFFICES ASSUME [Next]_vars PROVE UNCHANGED <<part, engine>>
  OBVIOUS
<1>1. ASSUME NEW w \in Writer, Write(w) PROVE UNCHANGED <<part, engine>>
  BY <1>1 DEF Write, WriteRows, WriteLock, WriteIndex, WriteLacks, WriteTable,
              WriteTableFails, WalWrite, WriteAck, WriteNack, WriteLate
<1>2. ASSUME NEW f \in Flusher, WaitStorage(f) \/ WaitSnapshot(f) \/ WriteSnapshot(f) \/ DisableForceFlush(f)
      PROVE  UNCHANGED <<part, engine>>
  BY <1>2 DEF WaitStorage, WaitSnapshot, WriteSnapshot, DisableForceFlush
<1>3. ASSUME NEW i \in Slot, \/ IndexFlush(i) \/ (\E k \in Key : FlushChunks(i, k)) \/ FreeResource(i)
                            \/ RemoveWalFile(i) \/ DropSnapshot(i)
      PROVE  UNCHANGED <<part, engine>>
  BY <1>3 DEF IndexFlush, FlushChunks, FreeResource, RemoveWalFile, DropSnapshot
<1>4. ASSUME Reopen PROVE UNCHANGED <<part, engine>>
  BY <1>4 DEF Reopen, OpenAndEnable, ReplayRow, ReplayFails, ReplayDone, RemoveReplayed, Opened
<1>5. ASSUME Close \/ Crash \/ Tick \/ ForceFlush \/ UNCHANGED vars PROVE UNCHANGED <<part, engine>>
  BY <1>5 DEF Close, CloseBegin, CloseWal, CloseMem, CloseWait, CloseDone, Reload, ReloadEarly, Crash, Tick, ForceFlush, vars
<1> QED BY <1>1, <1>2, <1>3, <1>4, <1>5 DEF Next, Flush

\* A row is added: what was well typed stays so.
LEMMA WriteRowsTypes ==
    ASSUME TypeInv, NEW w \in Writer, NEW k \in Key, WriteRows(w, k)
    PROVE  TypeInv'
<1>1. Known \subseteq Known' /\ Len(key) + 1 \in Known' /\ key' \in Seq(Key) /\ Len(key') <= MaxWrite
  <2>1. /\ Len(key) \in Nat /\ Len(key') = Len(key) + 1 /\ key' \in Seq(Key)
        /\ Len(key) < MaxWrite
    BY AppendProperties, LenProperties DEF TypeInv, TypeHist, WriteRows
  <2> QED BY <2>1, ShardAssumption DEF Known
<1>2. Seq(Known) \subseteq Seq(Known')
  BY <1>1, SeqMonotonic
<1>3. Table \subseteq Table' /\ LogFile \subseteq LogFile'
  BY <1>2 DEF Table, LogFile, WriteRows
<1>4. FileName' = FileName /\ Slot' = Slot
  BY DEF FileName, Slot, WriteRows
<1>5. BusySlot \subseteq BusySlot'
  BY <1>3, <1>4 DEF BusySlot
<1>6. Seq(SUBSET Known) \subseteq Seq(SUBSET Known')
  BY <1>1, SeqMonotonic
<1>7. TypeConfig' /\ TypeDisk' /\ TypeLog'
  BY <1>3 DEF TypeInv, TypeConfig, TypeDisk, TypeLog, WriteRows
<1>8. TypeTables'
  BY <1>3, <1>4, <1>5 DEF TypeInv, TypeTables, WriteRows
<1>9. TypeRun'
  BY <1>1 DEF TypeInv, TypeRun, WriteRows
<1>10. TypeReplay'
  BY <1>2, <1>4 DEF TypeInv, TypeReplay, WriteRows
<1>11. TypeHist'
  <2>1. before' \in Seq(SUBSET Known')
    <3>1. {r \in acked : key[r] = k} \in SUBSET Known'
      BY <1>1 DEF TypeInv, TypeHist
    <3>2. before \in Seq(SUBSET Known')
      BY <1>6 DEF TypeInv, TypeHist
    <3> QED BY <3>1, <3>2, AppendProperties DEF WriteRows
  <2> QED BY <1>1, <2>1 DEF TypeInv, TypeHist, WriteRows
<1> QED BY <1>7, <1>8, <1>9, <1>10, <1>11 DEF TypeInv

\* consumeRecordSerial finds a partition while one has records left.
LEMMA NextPartFacts ==
    ASSUME TypeInv, \E q \in 1 .. part : todo[q] # << >>
    PROVE  NextPart \in 1 .. part /\ todo[NextPart] # << >>
<1> DEFINE left == {p \in 1 .. part : todo[p] # << >>}
           ahead(p) == (p + part - turn) % part
           S == {ahead(p) : p \in left}
<1>1. part \in Nat \ {0} /\ turn \in 1 .. part
  BY ShardAssumption DEF TypeInv, TypeConfig, TypeReplay
<1>2. \A p \in left : ahead(p) \in Nat
  BY <1>1
<1>3. S \in SUBSET Nat /\ S # {}
  BY <1>2
<1>4. PICK x \in S : \A y \in S : x <= y
  BY <1>3, LeastNat
<1>5. PICK p \in left : x = ahead(p)
  OBVIOUS
<1>6. \A q \in left : ahead(p) <= ahead(q)
  BY <1>4, <1>5
<1>7. NextPart = CHOOSE r \in left : \A q \in left : ahead(r) <= ahead(q)
  BY DEF NextPart
<1> HIDE DEF left, ahead
<1>8. NextPart \in left
  BY <1>6, <1>7
<1> QED BY <1>8 DEF left

\* A row that is replayed: the table takes it, or its series is one too many, or the
\* replay has failed.
LEMMA ReplayRowFacts ==
    ASSUME TypeInv, NEW out \in Outcomes, ReplayRow(out)
    PROVE  LET r == Head(todo[NextPart])
           IN  /\ NextPart \in 1 .. part /\ todo[NextPart] # << >> /\ r \in Known /\ key[r] \in Key
               /\ (idxMem' = idxMem \/ idxMem' = idxMem \union {key[r]})
               /\ (active' = active \/ active' = AddRow(active, r))
               /\ (limited' = limited \/ limited' = limited \union {r})
               /\ engine = "ts" => ((active' = AddRow(active, r) /\ key[r] \in idxMem')
                                    \/ (active' = active /\ (errs' \/ r \in limited')))
               /\ errs => errs'
               /\ errs' \in BOOLEAN
<1>1. NextPart \in 1 .. part /\ todo[NextPart] # << >> /\ todo \in [1 .. part -> Seq(Known)]
  BY NextPartFacts DEF ReplayRow, TypeInv, TypeReplay
<1>2. Head(todo[NextPart]) \in Known
  BY <1>1, HeadTailProperties
<1>3. key[Head(todo[NextPart])] \in Key
  BY <1>2, ElementOfSeq DEF Known, TypeInv, TypeHist
<1>4. PICK r : r = Head(todo[NextPart])
  OBVIOUS
<1> HIDE DEF NextPart
<1>5. errs \in BOOLEAN /\ out \in {"ok", "limited", "fails"}
  BY ShardAssumption DEF TypeInv, TypeReplay
<1>6. (errs => errs') /\ errs' \in BOOLEAN
  BY <1>5, Zenon DEF ReplayRow
<1>7. CASE free > 0
  <2>1. /\ idxMem' = Indexed(key[r], out = "ok")
        /\ active' = IF TableTakes(out = "ok") THEN AddRow(active, r) ELSE active
        /\ limited' = IF TableTakes(out # "limited") THEN limited ELSE limited \union {r}
        /\ errs' = (errs \/ out = "fails")
    BY <1>4, <1>7, Zenon DEF ReplayRow
  <2>2. CASE out = "ok"
    BY <2>1, <2>2, <1>1, <1>2, <1>3, <1>4, <1>6 DEF Indexed, TableTakes
  <2>3. CASE out = "limited"
    <3>1. idxMem' = idxMem /\ (engine # "cs" => active' = active) /\ (engine = "cs" => active' = AddRow(active, r))
      BY <2>1, <2>3 DEF Indexed, TableTakes
    <3>2. IF engine = "cs" THEN limited' = limited ELSE limited' = limited \union {r}
      BY <2>1, <2>3 DEF TableTakes
    <3> QED BY <3>1, <3>2, <1>1, <1>2, <1>3, <1>4, <1>6
  <2>4. CASE out = "fails"
    <3>1. idxMem' = idxMem /\ (engine # "cs" => active' = active) /\ (engine = "cs" => active' = AddRow(active, r))
      BY <2>1, <2>4 DEF Indexed, TableTakes
    <3>2. limited' = limited /\ errs'
      BY <2>1, <2>4 DEF TableTakes
    <3> QED BY <3>1, <3>2, <1>1, <1>2, <1>3, <1>4, <1>6
  <2> QED BY <1>5, <2>2, <2>3, <2>4
<1>8. CASE ~(free > 0)
  <2>1. errs' /\ UNCHANGED <<idxMem, active, limited>>
    BY <1>8, Zenon DEF ReplayRow
  <2> QED BY <2>1, <1>1, <1>2, <1>3, <1>6
<1> QED BY <1>7, <1>8

\* Close between its two waits and after them changes no more than the state.
Quiet == CloseWait \/ CloseDone \/ ReloadEarly
LEMMA QuietFacts ==
    ASSUME Quiet
    PROVE  /\ UNCHANGED <<cfgvars, disk, logvars, tables, idxMem, free, wr, flushers, closing, replay,
                         history, bounds>>
           /\ st \in {"closing", "drained", "closed"} /\ st' \in Closing /\ st' # "closing"
BY DEF Quiet, CloseWait, CloseDone, ReloadEarly, Closing

\* Only WriteRows adds a row.
LEMMA SameRows ==
    [Next]_vars => \/ UNCHANGED <<key, part, engine>>
                   \/ \E w \in Writer, k \in Key : WriteRows(w, k)
BY DEF Next, vars, Write, WriteLock, WriteIndex, WriteLacks, WriteTable,
       WriteTableFails, WalWrite, WriteAck, WriteNack, WriteLate, Tick, ForceFlush, Flush,
       WaitStorage, WaitSnapshot, WriteSnapshot, DisableForceFlush, IndexFlush, FlushChunks,
       FreeResource, RemoveWalFile, DropSnapshot, Reopen, OpenAndEnable, ReplayRow,
       ReplayFails, ReplayDone, RemoveReplayed, Opened, Close, CloseBegin, CloseWal, CloseMem,
       CloseWait, CloseDone, Reload, ReloadEarly, Crash

\* The log files and the writers of the log: what LogWrite leaves behind.
LEMMA LogWriteTypes ==
    ASSUME TypeInv, UNCHANGED <<key, part, engine>>, NEW p \in 1 .. part, NEW r \in Known, LogWrite(p, r)
    PROVE  /\ wal' \subseteq LogFile /\ IsFiniteSet(wal')
           /\ lw' \in [1 .. part -> [seq : Nat, fd : BOOLEAN, names : Names]]
<1>0. wal \subseteq LogFile /\ IsFiniteSet(wal) /\ lw \in [1 .. part -> [seq : Nat, fd : BOOLEAN, names : Names]]
  BY DEF TypeInv, TypeDisk, TypeLog
<1>1. CASE NeedFile(p)
  <2>1. <<r>> \in Seq(Known)
    OBVIOUS
  <2>2. lw[p].seq + 1 \in Nat \ {0}
    BY <1>0
  <2> DEFINE g == [part |-> p, seq |-> lw[p].seq + 1, rows |-> <<r>>]
  <2>3. g \in LogFile
    BY <2>1, <2>2 DEF LogFile
  <2>4. wal' = wal \union {g}
    BY <1>1 DEF LogWrite
  <2>5. lw' = [lw EXCEPT ![p] = [seq |-> @.seq + 1, fd |-> TRUE, names |-> Append(@.names, @.seq + 1)]]
    BY <1>1 DEF LogWrite
  <2> HIDE DEF g
  <2>6. IsFiniteSet(wal')
    BY <1>0, <2>4, FS_AddElement
  <2>7. Append(lw[p].names, lw[p].seq + 1) \in Names
    BY <1>0, <2>2, AppendProperties DEF Names
  <2> QED BY <1>0, <2>2, <2>3, <2>4, <2>5, <2>6, <2>7
<1>2. CASE ~NeedFile(p)
  <2> DEFINE chg(f) == IF f.part = p /\ f.seq = lw[p].seq THEN [f EXCEPT !.rows = Append(@, r)] ELSE f
             h == [f \in wal |-> chg(f)]
  <2>1. wal' = {chg(f) : f \in wal} /\ lw' = lw
    BY <1>2 DEF LogWrite
  <2>2. ASSUME NEW f \in wal PROVE chg(f) \in LogFile
    <3>1. f \in LogFile
      BY <1>0
    <3>2. Append(f.rows, r) \in Seq(Known)
      BY <3>1, AppendProperties DEF LogFile
    <3> QED BY <3>1, <3>2 DEF LogFile
  <2>3. h \in Surjection(wal, wal')
    BY <2>1 DEF Surjection
  <2> QED BY <1>0, <2>1, <2>2, <2>3, FS_Surjection
<1> QED BY <1>1, <1>2

\* Log files, data files and the index on disk keep their types.
LEMMA TypeDiskStep ==
    ASSUME Inv, [Next]_vars, UNCHANGED <<key, part, engine>>
    PROVE  TypeDisk'
<1>0. TypeDisk /\ TypeInv
  BY DEF Inv, TypeInv
<1>1. CASE UNCHANGED disk
  BY <1>0, <1>1, SameTypes DEF TypeDisk
<1>2. ASSUME NEW w \in Writer, WalWrite(w) PROVE TypeDisk'
  <2>1. wr[w].row \in Known /\ 1 + writeReq \in 1 .. part
    BY <1>0, <1>2, ShardAssumption DEF Inv, WriterInv, WalWrite, At, Working, TypeInv, TypeLog, TypeConfig
  <2>2. wal' \subseteq LogFile /\ IsFiniteSet(wal')
    BY <1>0, <1>2, <2>1, LogWriteTypes DEF WalWrite
  <2> QED BY <1>0, <1>2, <2>2, SameTypes DEF WalWrite, TypeDisk
<1>3. ASSUME NEW i \in Slot, IndexFlush(i) PROVE TypeDisk'
  BY <1>0, <1>3, SameTypes DEF IndexFlush, TypeDisk, TypeInv, TypeRun
<1>4. ASSUME NEW i \in Slot, NEW k \in Key, FlushChunks(i, k) PROVE TypeDisk'
  <2>1. slot[i] \in BusySlot
    BY <1>0, <1>4 DEF FlushChunks, TypeInv, TypeTables, Nil
  <2>2. slot[i].tbl \in Table /\ tssp \in Table
    BY <1>0, <2>1 DEF BusySlot, TypeDisk
  <2>3. tssp' \in Table
    BY <1>4, <2>2, FlushedFacts DEF FlushChunks
  <2> QED BY <1>0, <1>4, <2>3, SameTypes DEF FlushChunks, TypeDisk
<1>5. ASSUME wal' \subseteq wal, UNCHANGED <<tssp, idxDisk>> PROVE TypeDisk'
  BY <1>0, <1>5, FS_Subset, SameTypes DEF TypeDisk
<1>6. ASSUME NEW i \in Slot, RemoveWalFile(i) PROVE TypeDisk'
  BY <1>5, <1>6 DEF RemoveWalFile
<1>7. ASSUME RemoveReplayed PROVE TypeDisk'
  BY <1>5, <1>7 DEF RemoveReplayed
<1>8. ASSUME NEW w \in Writer, Write(w) PROVE TypeDisk'
  BY <1>1, <1>2, <1>8 DEF Write, WriteRows, WriteLock, WriteIndex, WriteLacks, WriteTable,
       WriteTableFails, WriteAck, WriteNack, WriteLate
<1>9. ASSUME Flush PROVE TypeDisk'
  BY <1>1, <1>3, <1>4, <1>6, <1>9 DEF Flush, WaitStorage, WaitSnapshot, WriteSnapshot,
       DisableForceFlush, FreeResource, DropSnapshot
<1>10. ASSUME Reopen PROVE TypeDisk'
  BY <1>1, <1>7, <1>10 DEF Reopen, OpenAndEnable, ReplayRow, ReplayFails, ReplayDone, Opened
<1> QED BY <1>1, <1>8, <1>9, <1>10 DEF Next, vars, Tick, ForceFlush, Close, CloseBegin, CloseWal, CloseMem, CloseWait, CloseDone, Reload, ReloadEarly, Crash

\* So do the log writers of the partitions,
LEMMA TypeLogStep ==
    ASSUME Inv, [Next]_vars, UNCHANGED <<key, part, engine>>
    PROVE  TypeLog'
<1> DEFINE LW == [seq : Nat, fd : BOOLEAN, names : Names]
<1>0. TypeInv /\ lw \in [1 .. part -> LW] /\ writeReq \in 0 .. (part - 1) /\ part \in Nat \ {0}
  BY ShardAssumption DEF Inv, TypeInv, TypeLog, TypeConfig
<1>1. CASE UNCHANGED logvars
  BY <1>0, <1>1 DEF TypeLog
<1>2. << >> \in Names
  BY DEF Names
<1>3. ASSUME lw' = [p \in 1 .. part |-> [lw[p] EXCEPT !.fd = FALSE, !.names = << >>]], writeReq' = writeReq
      PROVE  TypeLog'
  BY <1>0, <1>2, <1>3 DEF TypeLog
<1>4. ASSUME NewShard PROVE TypeLog'
  <2>1. NoWriter \in LW
    BY <1>2 DEF NoWriter
  <2> QED BY <1>0, <1>4, <2>1 DEF NewShard, TypeLog
<1>5. ASSUME NEW w \in Writer, WalWrite(w) PROVE TypeLog'
  <2>1. wr[w].row \in Known /\ 1 + writeReq \in 1 .. part
    BY <1>0, <1>5 DEF Inv, WriterInv, WalWrite, At, Working
  <2>2. lw' \in [1 .. part -> LW]
    BY <1>0, <1>5, <2>1, LogWriteTypes DEF WalWrite
  <2>3. (writeReq + 1) % part \in 0 .. (part - 1)
    BY <1>0
  <2> QED BY <1>0, <1>5, <2>2, <2>3 DEF WalWrite, TypeLog
<1>6. ASSUME NEW f \in Flusher, WriteSnapshot(f) PROVE TypeLog'
  BY <1>1, <1>3, <1>6 DEF WriteSnapshot
<1>7. ASSUME OpenAndEnable PROVE TypeLog'
  <2>1. ASSUME NEW p \in 1 .. part PROVE FilesOf(p) # << >> => Last(FilesOf(p)) \in Nat
    BY <1>0, FilesOfFacts DEF TypeInv
  <2>2. lw' = [p \in 1 .. part |->
                 [lw[p] EXCEPT !.seq = IF FilesOf(p) = << >> THEN @ ELSE Last(FilesOf(p))]]
    BY <1>7 DEF OpenAndEnable, RestoreLogs
  <2>3. lw' \in [1 .. part -> LW]
    BY <1>0, <2>1, <2>2
  <2> QED BY <1>0, <1>7, <2>3 DEF OpenAndEnable, TypeLog
<1>8. ASSUME NEW w \in Writer, Write(w) PROVE TypeLog'
  BY <1>1, <1>5, <1>8 DEF Write, WriteRows, WriteLock, WriteIndex, WriteLacks, WriteTable,
       WriteTableFails, WriteAck, WriteNack, WriteLate
<1>9. ASSUME Flush PROVE TypeLog'
  BY <1>1, <1>6, <1>9 DEF Flush, WaitStorage, WaitSnapshot, IndexFlush, FlushChunks,
       DisableForceFlush, FreeResource, DropSnapshot, RemoveWalFile
<1>10. ASSUME Reopen PROVE TypeLog'
  BY <1>1, <1>7, <1>10 DEF Reopen, ReplayRow, ReplayFails, ReplayDone, Opened, RemoveReplayed
<1> QED BY <1>1, <1>3, <1>4, <1>8, <1>9, <1>10 DEF Next, vars, Tick, ForceFlush, Close, CloseBegin, CloseWal, CloseMem, CloseWait, CloseDone, Reload, ReloadEarly, Crash

\* The parts of a snapshot table.
LEMMA SlotFacts ==
    ASSUME TypeTables, NEW i \in Slot
    PROVE  /\ slot[i] = Nil \/ slot[i] \in BusySlot
           /\ slot[i].stage # "nil" => slot[i] \in BusySlot /\ slot[i] # Nil
           /\ slot[i] \in BusySlot =>
                /\ slot[i].stage \in {"index", "chunks", "remove"} /\ slot[i].by \in Flusher
                /\ slot[i].tbl \in Table /\ slot[i].size \in Nat
                /\ slot[i].files \in Seq(FileName) /\ slot[i].left \subseteq Key
                /\ slot[i] # Nil
BY DEF TypeTables, BusySlot, Nil

\* One field of a snapshot table changes.
LEMMA SlotUpdate ==
    ASSUME TypeTables, UNCHANGED <<key, part, engine>>, NEW i \in Slot, NEW s,
           s = Nil \/ s \in BusySlot, slot' = [slot EXCEPT ![i] = s]
    PROVE  /\ slot' \in [Slot -> {Nil} \union BusySlot]
           /\ slot'[i] = s /\ \A j \in Slot : j # i => slot'[j] = slot[j]
           /\ s = Nil => Filled' = Filled \ {i} /\ FreeSlots' = FreeSlots \union {i}
           /\ s # Nil => Filled' = Filled \union {i} /\ FreeSlots' = FreeSlots \ {i}
<1>1. slot \in [Slot -> {Nil} \union BusySlot] /\ Slot' = Slot
  BY SameTypes DEF TypeTables
<1>2. slot' \in [Slot -> {Nil} \union BusySlot] /\ slot'[i] = s /\ \A j \in Slot : j # i => slot'[j] = slot[j]
  BY <1>1
<1> QED BY <1>1, <1>2 DEF Filled, FreeSlots

\* What the steps of a flush do to the snapshot table.
LEMMA StageFacts ==
    ASSUME TypeTables, NEW i \in Slot, slot[i] \in BusySlot
    PROVE  /\ \A g \in {"chunks", "remove"} : [slot[i] EXCEPT !.stage = g] \in BusySlot
           /\ \A k \in Key : [slot[i] EXCEPT !.left = @ \ {k}] \in BusySlot
           /\ slot[i].files # << >> => [slot[i] EXCEPT !.files = Tail(@)] \in BusySlot
<1>1. slot[i].files # << >> => Tail(slot[i].files) \in Seq(FileName)
  BY SlotFacts, HeadTailProperties
<1> QED BY <1>1 DEF BusySlot

\* the active table and the snapshot tables,
LEMMA TypeTablesStep ==
    ASSUME Inv, [Next]_vars, UNCHANGED <<key, part, engine>>
    PROVE  TypeTables'
<1>0. TypeInv /\ TypeTables /\ TypeHist
  BY DEF Inv, TypeInv
<1>1. CASE UNCHANGED tables
  BY <1>0, <1>1, SameTypes DEF TypeTables
<1>2. ASSUME active' = active \/ active' = EmptyTable \/ \E r \in Known : active' = AddRow(active, r),
             size' \in Nat, alive' \in BOOLEAN, slot' \in [Slot -> {Nil} \union BusySlot]
      PROVE  TypeTables'
  <2>1. active' \in Table
    BY <1>0, <1>2, EmptyTableFacts, AddRowFacts DEF TypeTables, TypeHist
  <2> QED BY <1>2, <2>1, SameTypes DEF TypeTables
<1>3. ASSUME NEW w \in Writer, WriteTable(w) \/ WriteTableFails(w) PROVE TypeTables'
  <2>1. wr[w].row \in Known
    BY <1>0, <1>3 DEF Inv, WriterInv, WriteTable, WriteTableFails, At, Working
  <2> QED BY <1>0, <1>2, <1>3, <2>1 DEF WriteTable, WriteTableFails, TypeTables
<1>4. ASSUME NEW f \in Flusher, WriteSnapshot(f) PROVE TypeTables'
  <2>1. CASE ~alive
    BY <1>1, <1>4, <2>1 DEF WriteSnapshot
  <2>2. CASE alive
    <3>1. PICK i \in FreeSlots, files \in FileOrders([p \in 1 .. part |-> lw[p].names]) :
            /\ slot' = [slot EXCEPT ![i] = [stage |-> "index", by |-> f, tbl |-> active,
                                            size |-> size, files |-> files,
                                            left |-> {k \in Key : active[k] # << >>}]]
            /\ active' = EmptyTable /\ size' = 0
      BY <1>4, <2>2 DEF WriteSnapshot
    <3>2. [p \in 1 .. part |-> lw[p].names] \in [1 .. part -> Names] /\ part \in Nat
      BY <1>0, ShardAssumption DEF TypeInv, TypeLog, TypeConfig
    <3>3. files \in Seq(FileName)
      BY <3>2, FileOrdersFacts
    <3> DEFINE s == [stage |-> "index", by |-> f, tbl |-> active, size |-> size, files |-> files,
                     left |-> {k \in Key : active[k] # << >>}]
    <3>4. s \in BusySlot
      BY <1>0, <3>3 DEF BusySlot, TypeTables
    <3>5. i \in Slot
      BY DEF FreeSlots
    <3> HIDE DEF s
    <3>6. slot' = [slot EXCEPT ![i] = s]
      BY <3>1 DEF s
    <3>7. slot' \in [Slot -> {Nil} \union BusySlot]
      BY <1>0, <3>4, <3>5, <3>6, SlotUpdate
    <3>8. alive' \in BOOLEAN /\ size' \in Nat
      BY <1>0, <1>4, <3>1 DEF WriteSnapshot, TypeTables
    <3> QED BY <1>2, <3>1, <3>7, <3>8
  <2> QED BY <1>0, <2>1, <2>2 DEF TypeTables
<1>5. ASSUME NEW i \in Slot,
             \/ IndexFlush(i) \/ FreeResource(i) \/ RemoveWalFile(i) \/ DropSnapshot(i)
             \/ \E k \in Key : FlushChunks(i, k)
      PROVE  TypeTables'
  <2>1. slot[i] \in BusySlot
    BY <1>0, <1>5, SlotFacts DEF IndexFlush, FreeResource, RemoveWalFile, DropSnapshot, FlushChunks
  <2>2. \E s \in BusySlot \union {Nil} : slot' = [slot EXCEPT ![i] = s]
    <3>1. CASE IndexFlush(i)
      <4>1. slot' = [slot EXCEPT ![i] = [slot[i] EXCEPT !.stage = "chunks"]]
        BY <3>1 DEF IndexFlush
      <4> QED BY <1>0, <2>1, <4>1, StageFacts
    <3>2. CASE FreeResource(i)
      <4>1. slot' = [slot EXCEPT ![i] = [slot[i] EXCEPT !.stage = "remove"]]
        BY <3>2 DEF FreeResource
      <4> QED BY <1>0, <2>1, <4>1, StageFacts
    <3>3. CASE RemoveWalFile(i)
      <4>1. slot' = [slot EXCEPT ![i] = [slot[i] EXCEPT !.files = Tail(@)]] /\ slot[i].files # << >>
        BY <3>3 DEF RemoveWalFile
      <4> QED BY <1>0, <2>1, <4>1, StageFacts
    <3>4. CASE DropSnapshot(i)
      BY <3>4 DEF DropSnapshot
    <3>5. ASSUME NEW k \in Key, FlushChunks(i, k)
          PROVE  \E s \in BusySlot \union {Nil} : slot' = [slot EXCEPT ![i] = s]
      <4>1. slot' = [slot EXCEPT ![i] = [slot[i] EXCEPT !.left = @ \ {k}]]
        BY <3>5 DEF FlushChunks
      <4> QED BY <1>0, <2>1, <4>1, StageFacts
    <3> QED BY <1>5, <3>1, <3>2, <3>3, <3>4, <3>5
  <2>3. slot' \in [Slot -> {Nil} \union BusySlot]
    BY <1>0, <2>2, SlotUpdate
  <2>4. UNCHANGED <<active, alive, size>>
    BY <1>5 DEF IndexFlush, FreeResource, RemoveWalFile, DropSnapshot, FlushChunks
  <2> QED BY <1>0, <2>3, <2>4, SameTypes DEF TypeTables
<1>6. ASSUME NEW out \in Outcomes, ReplayRow(out) PROVE TypeTables'
  <2>1. PICK r \in Known : active' = active \/ active' = AddRow(active, r)
    BY <1>0, <1>6, ReplayRowFacts
  <2>2. (size' = size + 1 \/ size' = size) /\ UNCHANGED <<alive, slot>>
    BY <1>6 DEF ReplayRow
  <2>3. size' \in Nat /\ alive' \in BOOLEAN /\ slot' \in [Slot -> {Nil} \union BusySlot]
    BY <1>0, <2>2 DEF TypeTables
  <2>4. active' \in Table
    BY <1>0, <2>1, AddRowFacts DEF TypeTables, TypeInv, TypeHist
  <2> QED BY <1>0, <2>3, <2>4, SameTypes DEF TypeTables
<1>7. ASSUME CloseMem PROVE TypeTables'
  BY <1>0, <1>2, <1>7 DEF CloseMem, TypeTables
<1>8. ASSUME Reload PROVE TypeTables'
  BY <1>0, <1>2, <1>8 DEF Reload, NewShard, TypeTables
<1>9. ASSUME Crash PROVE TypeTables'
  BY <1>0, <1>2, <1>9 DEF Crash, NewShard, TypeTables
<1>10. ASSUME NEW w \in Writer, Write(w) PROVE TypeTables'
  BY <1>1, <1>3, <1>10 DEF Write, WriteRows, WriteLock, WriteIndex, WriteLacks,
       WalWrite, WriteAck, WriteNack, WriteLate
<1>11. ASSUME Flush PROVE TypeTables'
  BY <1>1, <1>4, <1>5, <1>11 DEF Flush, WaitStorage, WaitSnapshot, DisableForceFlush
<1>12. ASSUME Reopen PROVE TypeTables'
  BY <1>1, <1>6, <1>12 DEF Reopen, OpenAndEnable, ReplayFails, ReplayDone, Opened, RemoveReplayed
<1>13. ASSUME Quiet PROVE TypeTables'
  BY <1>1, <1>13, QuietFacts
<1> QED BY <1>1, <1>7, <1>8, <1>9, <1>10, <1>11, <1>12, <1>13
        DEF Next, vars, Tick, ForceFlush, Close, CloseBegin, CloseWal, Quiet

\* writers, flushes and the state of the shard,
LEMMA TypeRunStep ==
    ASSUME Inv, [Next]_vars, UNCHANGED <<key, part, engine>>
    PROVE  TypeRun'
<1> DEFINE WR == [pc : {"idle", "checked", "alloc", "mem", "wal", "ack", "nack", "late"},
                  row : Known \union {0}, idx : BOOLEAN]
           FL == {"idle", "wait", "ready", "switch", "flush", "end"}
<1>0. TypeInv /\ TypeRun /\ TypeTables /\ Known' = Known
  BY SameTypes DEF Inv, TypeInv
<1>1. CASE UNCHANGED <<wr, fl, asked, forceFlush, closing, st, idxMem>>
  BY <1>0, <1>1 DEF TypeRun
<1>2. Idle \in WR
  BY DEF Idle
<1>3. ASSUME NEW w \in Writer, Write(w) PROVE TypeRun'
  <2>1. UNCHANGED <<fl, asked, forceFlush, closing, st>> /\ wr' \in [Writer -> WR]
    <3>1. wr \in [Writer -> WR]
      BY <1>0 DEF TypeRun
    <3>2. ASSUME NEW pc \in {"alloc", "mem", "wal", "ack", "nack"}, Goto(w, pc) PROVE wr' \in [Writer -> WR]
      BY <3>1, <3>2 DEF Goto
    <3>3. ASSUME wr' = [wr EXCEPT ![w] = Idle] PROVE wr' \in [Writer -> WR]
      BY <1>2, <3>1, <3>3
    <3>4. ASSUME NEW ok \in BOOLEAN, WriteIndex(w, ok) PROVE wr' \in [Writer -> WR]
      BY <3>1, <3>4 DEF WriteIndex
    <3>5. ASSUME NEW k \in Key, WriteRows(w, k) PROVE FALSE
      <4>1. key \in Seq(Key) /\ key' = Append(key, k)
        BY <1>0, <3>5 DEF TypeInv, TypeHist, WriteRows
      <4>2. Len(key') = Len(key) + 1 /\ Len(key) \in Nat
        BY <4>1, AppendProperties, LenProperties
      <4> QED BY <4>2
    <3>6. wr' \in [Writer -> WR]
      <4>1. CASE WalWrite(w)
        BY <3>2, <4>1 DEF WalWrite
      <4> QED BY <1>3, <3>2, <3>3, <3>4, <3>5, <4>1 DEF Write, WriteLock, WriteLacks, WriteTable,
                WriteTableFails, WriteAck, WriteNack, WriteLate
    <3>7. UNCHANGED <<fl, asked, forceFlush, closing, st>>
      BY <1>3 DEF Write, WriteRows, WriteLock, WriteIndex, WriteLacks, WriteTable,
                WriteTableFails, WalWrite, WriteAck, WriteNack, WriteLate
    <3> QED BY <3>6, <3>7
  <2>2. idxMem' \subseteq Key
    <3>1. CASE UNCHANGED idxMem
      BY <1>0, <3>1 DEF TypeRun
    <3>2. ASSUME NEW ok \in BOOLEAN, WriteIndex(w, ok) PROVE idxMem' \subseteq Key
      <4>1. wr[w].row \in Known
        BY <3>2 DEF Inv, WriterInv, WriteIndex, At, Working
      <4>2. key[wr[w].row] \in Key
        BY <1>0, <4>1, ElementOfSeq DEF Known, TypeInv, TypeHist
      <4> QED BY <1>0, <3>2, <4>2 DEF WriteIndex, Indexed, TypeRun
    <3> QED BY <1>3, <3>1, <3>2 DEF Write, WriteRows, WriteLock, WriteLacks, WriteTable,
                WriteTableFails, WalWrite, WriteAck, WriteNack, WriteLate
  <2> QED BY <1>0, <2>1, <2>2 DEF TypeRun
<1>4. ASSUME NEW f \in Flusher, EnableForceFlush(f), UNCHANGED <<wr, closing, idxMem>>,
             st' \in {st, "flush"}
      PROVE  TypeRun'
  <2>1. acked \subseteq Known
    BY <1>0 DEF TypeInv, TypeHist
  <2> QED BY <1>0, <1>4, <2>1 DEF EnableForceFlush, TypeRun
<1>5. ASSUME UNCHANGED <<wr, asked, forceFlush, closing, st, idxMem>>,
             NEW f \in Flusher, NEW s \in FL, fl' = [fl EXCEPT ![f] = s]
      PROVE  TypeRun'
  BY <1>0, <1>5 DEF TypeRun
<1>6. ASSUME Flush PROVE TypeRun'
  <2>1. ASSUME NEW f \in Flusher, WaitStorage(f) \/ WaitSnapshot(f) PROVE TypeRun'
    BY <1>5, <2>1 DEF WaitStorage, WaitSnapshot
  <2>2. ASSUME NEW f \in Flusher, WriteSnapshot(f) PROVE TypeRun'
    BY <1>5, <2>2 DEF WriteSnapshot, NoActiveTbl, Ended
  <2>3. ASSUME NEW f \in Flusher, DisableForceFlush(f) PROVE TypeRun'
    BY <1>0, <2>3 DEF DisableForceFlush, TypeRun
  <2>4. ASSUME NEW i \in Slot, IndexFlush(i) \/ DropSnapshot(i) PROVE TypeRun'
    <3>1. slot[i].by \in Flusher
      BY <1>0, <2>4, SlotFacts DEF IndexFlush, DropSnapshot
    <3> QED BY <1>1, <1>5, <2>4, <3>1 DEF IndexFlush, DropSnapshot, Ended
  <2>5. ASSUME NEW i \in Slot, (\E k \in Key : FlushChunks(i, k)) \/ FreeResource(i) \/ RemoveWalFile(i) PROVE TypeRun'
    BY <1>1, <2>5 DEF FlushChunks, FreeResource, RemoveWalFile
  <2> QED BY <1>6, <2>1, <2>2, <2>3, <2>4, <2>5 DEF Flush
<1>7. ASSUME Reopen PROVE TypeRun'
  <2>1. ASSUME NEW out \in Outcomes, ReplayRow(out) PROVE TypeRun'
    <3>1. idxMem' \subseteq Key
      BY <1>0, <2>1, ReplayRowFacts DEF TypeRun
    <3>2. UNCHANGED <<wr, fl, asked, forceFlush, closing, st>>
      BY <2>1 DEF ReplayRow
    <3> QED BY <1>0, <3>1, <3>2 DEF TypeRun
  <2>2. ASSUME ReplayDone PROVE TypeRun'
    BY <1>4, <2>2 DEF ReplayDone, Flusher
  <2>3. ASSUME OpenAndEnable \/ ReplayFails \/ RemoveReplayed \/ Opened PROVE TypeRun'
    BY <1>0, <2>3 DEF OpenAndEnable, ReplayFails, RemoveReplayed, Opened, TypeRun
  <2> QED BY <1>7, <2>1, <2>2, <2>3 DEF Reopen
<1>8. ASSUME NewShard, wr' \in [Writer -> WR], idxMem' \subseteq Key PROVE TypeRun'
  BY <1>0, <1>8 DEF NewShard, TypeRun
<1>9. ASSUME Close PROVE TypeRun'
  <2>1. ASSUME Reload PROVE TypeRun'
    BY <1>0, <1>8, <2>1 DEF Reload, TypeRun
  <2>2. ASSUME CloseWal PROVE TypeRun'
    <3>1. wr' \in [Writer -> WR]
      BY <1>0, <2>2 DEF CloseWal, TypeRun
    <3> QED BY <1>0, <2>2, <3>1 DEF CloseWal, TypeRun, Closing
  <2>3. ASSUME Quiet PROVE TypeRun'
    BY <1>0, <2>3, QuietFacts DEF TypeRun
  <2> QED BY <1>0, <1>9, <2>1, <2>2, <2>3 DEF Close, CloseBegin, CloseMem, Quiet, TypeRun
<1>10. ASSUME Crash PROVE TypeRun'
  BY <1>0, <1>2, <1>8, <1>10 DEF Crash, TypeInv, TypeDisk
<1>11. ASSUME Tick PROVE TypeRun'
  BY <1>5, <1>11 DEF Tick, Flusher
<1>12. ASSUME ForceFlush PROVE TypeRun'
  BY <1>4, <1>12 DEF ForceFlush, Flusher
<1> QED BY <1>1, <1>3, <1>6, <1>7, <1>9, <1>10, <1>11, <1>12 DEF Next, vars

\* what Open has still to replay,
LEMMA TypeReplayStep ==
    ASSUME Inv, [Next]_vars, UNCHANGED <<key, part, engine>>
    PROVE  TypeReplay'
<1>0. TypeInv /\ TypeReplay /\ Known' = Known /\ FileName' = FileName /\ part \in Nat \ {0} /\ Unique
  BY SameTypes, ShardAssumption DEF Inv, TypeInv, TypeConfig, LogInv
<1>1. CASE UNCHANGED replay
  BY <1>0, <1>1 DEF TypeReplay
<1>2. << >> \in Names /\ << >> \in Seq(Known) /\ << >> \in Seq(FileName)
  BY EmptySeq DEF Names
<1>3. ASSUME NewShard PROVE TypeReplay'
  <2>1. todo' = [p \in 1 .. part |-> << >>] /\ names' = [p \in 1 .. part |-> << >>]
    BY <1>0, <1>3 DEF NewShard
  <2>2. turn' = 1 /\ errs' = FALSE /\ rm' = << >> /\ part' = part
    BY <1>3 DEF NewShard
  <2>3. 1 \in 1 .. part
    BY <1>0
  <2> QED BY <1>0, <1>2, <2>1, <2>2, <2>3 DEF TypeReplay
<1>4. ASSUME NEW f \in Flusher, DisableForceFlush(f) PROVE TypeReplay'
  <2>1. rm' \in FileOrders(names) => rm' \in Seq(FileName)
    BY <1>0, FileOrdersFacts DEF TypeReplay
  <2> QED BY <1>0, <1>4, <2>1 DEF DisableForceFlush, TypeReplay
<1>5. ASSUME OpenAndEnable PROVE TypeReplay'
  <2> DEFINE restored == [p \in 1 .. part |-> names[p] \o FilesOf(p)]
  <2>1. restored \in [1 .. part -> Names]
    <3>1. \A p \in 1 .. part : FilesOf(p) \in Seq(Nat) /\ names[p] \in Seq(Nat)
      BY <1>0, FilesOfFacts DEF TypeInv, TypeReplay, Names
    <3> QED BY <3>1, ConcatProperties DEF Names
  <2>2. /\ names' = restored /\ turn' = 1 /\ rm' = rm
        /\ todo' = [p \in 1 .. part |-> Records(p, restored)]
        /\ errs' = \E p \in 1 .. part : Missing(p, restored) # {}
    BY <1>5 DEF OpenAndEnable, RestoreLogs
  <2> HIDE DEF restored
  <2>3. \A p \in 1 .. part : Records(p, restored) \in Seq(Known)
    BY <1>0, <2>1, RecordsFacts DEF TypeInv, Names
  <2> QED BY <1>0, <2>1, <2>2, <2>3 DEF TypeReplay
<1>6. ASSUME NEW out \in Outcomes, ReplayRow(out) PROVE TypeReplay'
  <2>1. NextPart \in 1 .. part /\ todo[NextPart] # << >> /\ todo \in [1 .. part -> Seq(Known)]
    BY <1>0, <1>6, NextPartFacts DEF ReplayRow, TypeReplay
  <2>2. Tail(todo[NextPart]) \in Seq(Known)
    BY <2>1, HeadTailProperties
  <2>3. NextPart % part \in 0 .. part - 1
    BY <1>0, <2>1
  <2>4. turn' = 1 + (NextPart % part) /\ todo' = [todo EXCEPT ![NextPart] = Tail(@)]
        /\ UNCHANGED <<names, rm>> /\ errs' \in BOOLEAN
    BY <1>0, <1>6 DEF ReplayRow, TypeReplay
  <2> HIDE DEF NextPart
  <2>5. turn' \in 1 .. part
    BY <1>0, <2>3, <2>4
  <2> QED BY <1>0, <2>1, <2>2, <2>4, <2>5 DEF TypeReplay
<1>7. ASSUME RemoveReplayed PROVE TypeReplay'
  <2>1. rm \in Seq(FileName) /\ rm # << >>
    BY <1>0, <1>7 DEF TypeReplay, RemoveReplayed
  <2>2. Tail(rm) \in Seq(FileName)
    BY <2>1, HeadTailProperties
  <2> QED BY <1>0, <1>2, <1>7, <2>2 DEF RemoveReplayed, TypeReplay
<1>8. ASSUME NEW w \in Writer, Write(w) PROVE TypeReplay'
  BY <1>1, <1>8 DEF Write, WriteRows, WriteLock, WriteIndex, WriteLacks, WriteTable,
       WriteTableFails, WalWrite, WriteAck, WriteNack, WriteLate
<1>9. ASSUME Flush PROVE TypeReplay'
  <2>1. ASSUME NEW f \in Flusher, WaitStorage(f) \/ WaitSnapshot(f) PROVE TypeReplay'
    BY <1>1, <2>1 DEF WaitStorage, WaitSnapshot
  <2>2. ASSUME NEW f \in Flusher, WriteSnapshot(f) PROVE TypeReplay'
    BY <1>1, <1>4, <2>2 DEF WriteSnapshot
  <2>3. ASSUME NEW f \in Flusher, DisableForceFlush(f) PROVE TypeReplay'
    BY <1>1, <1>4, <2>3
  <2>4. ASSUME NEW i \in Slot, IndexFlush(i) \/ (\E k \in Key : FlushChunks(i, k)) PROVE TypeReplay'
    BY <1>1, <2>4 DEF IndexFlush, FlushChunks
  <2>5. ASSUME NEW i \in Slot, FreeResource(i) \/ RemoveWalFile(i) \/ DropSnapshot(i) PROVE TypeReplay'
    BY <1>1, <2>5 DEF FreeResource, DropSnapshot, RemoveWalFile
  <2> QED BY <1>9, <2>1, <2>2, <2>3, <2>4, <2>5 DEF Flush
<1>10. ASSUME Reopen PROVE TypeReplay'
  BY <1>1, <1>5, <1>6, <1>7, <1>10 DEF Reopen, ReplayFails, ReplayDone, Opened
<1> QED BY <1>1, <1>3, <1>8, <1>9, <1>10
        DEF Next, vars, Tick, ForceFlush, Close, CloseBegin, CloseWal, CloseMem, CloseWait, CloseDone, Reload, ReloadEarly, Crash

\* and the rows written and acknowledged.
LEMMA TypeHistStep ==
    ASSUME Inv, [Next]_vars, UNCHANGED <<key, part, engine>>
    PROVE  TypeHist'
<1>0. TypeInv /\ TypeHist /\ Known' = Known
  BY SameTypes DEF Inv, TypeInv
<1>1. CASE UNCHANGED history
  BY <1>0, <1>1 DEF TypeHist
<1>2. ASSUME NEW w \in Writer, WriteAck(w) PROVE TypeHist'
  <2>1. wr[w].row \in Known
    BY <1>2 DEF Inv, WriterInv, WriteAck, At, Working
  <2> QED BY <1>0, <1>2, <2>1 DEF WriteAck, TypeHist
<1>3. ASSUME NEW w \in Writer, NEW k \in Key, WriteRows(w, k) PROVE FALSE
  <2>1. key \in Seq(Key) /\ key' = Append(key, k)
    BY <1>0, <1>3 DEF TypeInv, TypeHist, WriteRows
  <2>2. Len(key') = Len(key) + 1 /\ Len(key) \in Nat
    BY <2>1, AppendProperties, LenProperties
  <2> QED BY <2>2
<1>4. ASSUME NEW out \in Outcomes, ReplayRow(out) PROVE TypeHist'
  <2>1. limited' \subseteq Known
    BY <1>0, <1>4, ReplayRowFacts DEF TypeHist
  <2>2. UNCHANGED <<key, before, acked>>
    BY <1>4 DEF ReplayRow
  <2> QED BY <1>0, <2>1, <2>2 DEF TypeHist
<1>5. ASSUME OpenAndEnable PROVE TypeHist'
  BY <1>0, <1>5 DEF OpenAndEnable, TypeHist
<1>6. ASSUME Reopen PROVE TypeHist'
  BY <1>1, <1>4, <1>5, <1>6 DEF Reopen, ReplayFails, ReplayDone, RemoveReplayed, Opened
<1> QED BY <1>1, <1>2, <1>3, <1>6 DEF Next, vars, Write, WriteLock, WriteIndex, WriteLacks, WriteTable,
       WriteTableFails, WalWrite, WriteNack, WriteLate, Tick, ForceFlush, Flush,
       WaitStorage, WaitSnapshot, WriteSnapshot, DisableForceFlush, IndexFlush, FlushChunks,
       FreeResource, RemoveWalFile, DropSnapshot, Close, CloseBegin, CloseWal, CloseMem,
       CloseWait, CloseDone, Reload, ReloadEarly, Crash

\* Types are preserved.
LEMMA TypeStep == Inv /\ [Next]_vars => TypeInv'
<1> SUFFICES ASSUME Inv, [Next]_vars PROVE TypeInv'
  OBVIOUS
<1>1. CASE UNCHANGED <<key, part, engine>>
  <2>1. TypeConfig'
    BY <1>1 DEF Inv, TypeInv, TypeConfig
  <2> QED BY <1>1, <2>1, TypeDiskStep, TypeLogStep, TypeTablesStep, TypeRunStep, TypeReplayStep,
             TypeHistStep DEF TypeInv
<1>2. ASSUME NEW w \in Writer, NEW k \in Key, WriteRows(w, k) PROVE TypeInv'
  BY <1>2, WriteRowsTypes DEF Inv
<1> QED BY <1>1, <1>2, SameRows

-----------------------------------------------------------------------------
(* Writers.                                                                *)

\* Rows of the log and of the tables have been written.
LEMMA KnownRows ==
    ASSUME TypeInv
    PROVE  /\ LogRows \subseteq Known /\ Rows(tssp) \subseteq Known /\ Rows(active) \subseteq Known
           /\ \A f \in wal : ToSet(f.rows) \subseteq LogRows
<1>1. \A s \in Seq(Known) : ToSet(s) \subseteq Known
  BY RangeOfSeq DEF ToSet, Range
<1>2. \A t \in Table : Rows(t) \subseteq Known
  BY <1>1 DEF Table, Rows
<1>3. \A f \in wal : f.rows \in Seq(Known)
  BY DEF TypeInv, TypeDisk, LogFile
<1> QED BY <1>1, <1>2, <1>3 DEF LogRows, TypeInv, TypeDisk, TypeTables

\* Of the files of the log, only the current one of partition p has changed: row r
\* was added.
OnlyAdded(p, r) ==
    \A f \in wal' : \/ f \in wal
                   \/ /\ f.part = p /\ f.seq = lw'[p].seq
                      /\ \/ ToSet(f.rows) = {r}
                         \/ \E g \in wal : /\ g.part = p /\ g.seq = f.seq
                                           /\ ToSet(f.rows) = ToSet(g.rows) \union {r}

\* The file that LogWrite has written the row to, and nothing else, has changed.
LEMMA LogWriteFacts ==
    ASSUME TypeInv, LogInv, st = "open", UNCHANGED <<key, part, engine>>,
           NEW p \in 1 .. part, NEW r \in Known, LogWrite(p, r)
    PROVE  /\ \A o \in 1 .. part : o # p => lw'[o] = lw[o]
           /\ lw'[p].seq \in {lw[p].seq, lw[p].seq + 1} /\ lw'[p].seq \in ToSet(lw'[p].names)
           /\ \/ ToSet(lw'[p].names) = ToSet(lw[p].names)
              \/ /\ lw'[p].seq = lw[p].seq + 1
                 /\ ToSet(lw'[p].names) = ToSet(lw[p].names) \union {lw[p].seq + 1}
           /\ IsInjective(lw'[p].names)
           /\ LogRows' = LogRows \union {r}
           /\ OnlyAdded(p, r)
           /\ \A g \in wal : \E f \in wal' : f.part = g.part /\ f.seq = g.seq
           /\ \E f \in wal' : f.part = p /\ f.seq = lw'[p].seq
           /\ Unique' /\ \A f \in wal' : f.seq <= lw'[f.part].seq
<1>0. /\ wal \subseteq LogFile /\ lw \in [1 .. part -> [seq : Nat, fd : BOOLEAN, names : Names]]
      /\ \A f \in wal : f.seq <= lw[f.part].seq
      /\ lw[p].seq \in Nat /\ lw[p].names \in Seq(Nat)
  BY DEF TypeInv, TypeDisk, TypeLog, LogInv, Names
<1>1. CASE NeedFile(p)
  <2> DEFINE q == lw[p].seq + 1
             g == [part |-> p, seq |-> q, rows |-> <<r>>]
  <2>1. wal' = wal \union {g}
    BY <1>1 DEF LogWrite
  <2>2. lw' = [lw EXCEPT ![p] = [seq |-> @.seq + 1, fd |-> TRUE, names |-> Append(@.names, @.seq + 1)]]
    BY <1>1 DEF LogWrite
  <2>3. /\ lw'[p].seq = q /\ lw'[p].names = Append(lw[p].names, q)
        /\ \A o \in 1 .. part : o # p => lw'[o] = lw[o]
    BY <1>0, <2>2
  <2>4. g.part = p /\ g.seq = q /\ ToSet(g.rows) = {r}
    BY DEF ToSet
  <2>5. q \in Nat /\ q > lw[p].seq
    BY <1>0
  <2> HIDE DEF g, q
  <2>6. ToSet(lw'[p].names) = ToSet(lw[p].names) \union {q}
    BY <1>0, <2>3, <2>5, AppendRange
  <2>7. q \notin ToSet(lw[p].names)
    <3>1. \A x \in ToSet(lw[p].names) : x <= lw[p].seq
      BY DEF LogInv
    <3> QED BY <1>0, <3>1 DEF q
  <2>8. IsInjective(lw'[p].names)
    <3>1. IsInjective(lw[p].names)
      BY DEF LogInv
    <3> QED BY <1>0, <2>3, <2>5, <2>7, <3>1, AppendDistinct
  <2>9. \A f \in wal : ~(f.part = p /\ f.seq = q)
    BY <1>0, <2>5 DEF LogFile, q
  <2>10. Unique'
    BY <2>1, <2>4, <2>9 DEF LogInv, Unique
  <2>11. LogRows' = LogRows \union {r}
    BY <2>1, <2>4 DEF LogRows
  <2>12. ASSUME NEW f \in wal' PROVE f.seq <= lw'[f.part].seq
    <3>1. CASE f = g
      BY <2>3, <2>4, <2>5, <3>1
    <3>2. CASE f \in wal
      <4>1. f.part \in 1 .. part /\ f.seq \in Nat /\ f.seq <= lw[f.part].seq /\ lw[f.part].seq \in Nat
        BY <1>0, <3>2 DEF LogFile
      <4>2. lw'[f.part].seq = lw[f.part].seq \/ (f.part = p /\ lw'[f.part].seq = q)
        BY <2>3, <4>1
      <4> QED BY <2>5, <4>1, <4>2
    <3> QED BY <2>1, <3>1, <3>2
  <2>13. OnlyAdded(p, r)
    BY <2>1, <2>3, <2>4 DEF OnlyAdded
  <2> QED BY <2>1, <2>3, <2>4, <2>6, <2>8, <2>10, <2>11, <2>12, <2>13 DEF q
<1>2. CASE ~NeedFile(p)
  <2> DEFINE chg(f) == IF f.part = p /\ f.seq = lw[p].seq THEN [f EXCEPT !.rows = Append(@, r)] ELSE f
  <2>1. wal' = {chg(f) : f \in wal} /\ lw' = lw
    BY <1>2 DEF LogWrite
  <2>2. lw[p].seq \in ToSet(lw[p].names) /\ File(<<p, lw[p].seq>>) # {} /\ IsInjective(lw[p].names)
    BY <1>2 DEF NeedFile, LogInv
  <2>3. PICK h \in wal : h.part = p /\ h.seq = lw[p].seq
    BY <2>2 DEF File
  <2>4. ASSUME NEW f \in wal
        PROVE  /\ chg(f).part = f.part /\ chg(f).seq = f.seq
               /\ ~(f.part = p /\ f.seq = lw[p].seq) => chg(f) = f
               /\ f.part = p /\ f.seq = lw[p].seq => ToSet(chg(f).rows) = ToSet(f.rows) \union {r}
    <3>1. f \in LogFile
      BY <1>0
    <3>2. ToSet(Append(f.rows, r)) = ToSet(f.rows) \union {r}
      BY <3>1, AppendRange DEF LogFile
    <3> QED BY <3>1, <3>2 DEF LogFile
  <2> HIDE DEF chg
  <2>5. LogRows' = LogRows \union {r}
    <3>1. \A f \in wal : ToSet(chg(f).rows) \subseteq ToSet(f.rows) \union {r} /\ ToSet(f.rows) \subseteq ToSet(chg(f).rows)
      BY <2>4
    <3>2. r \in ToSet(chg(h).rows)
      BY <2>3, <2>4
    <3>3. LogRows' \subseteq LogRows \union {r}
      BY <2>1, <3>1 DEF LogRows
    <3>4. LogRows \subseteq LogRows'
      BY <2>1, <3>1 DEF LogRows
    <3>5. r \in LogRows'
      BY <2>1, <2>3, <3>2 DEF LogRows
    <3> QED BY <3>3, <3>4, <3>5
  <2>6. Unique'
    BY <2>1, <2>4 DEF LogInv, Unique
  <2>7. ASSUME NEW f \in wal'
        PROVE  /\ \/ f \in wal
                  \/ /\ f.part = p /\ f.seq = lw'[p].seq
                     /\ \E g \in wal : /\ g.part = p /\ g.seq = f.seq
                                       /\ ToSet(f.rows) = ToSet(g.rows) \union {r}
               /\ f.seq <= lw'[f.part].seq
    <3>1. PICK g \in wal : f = chg(g)
      BY <2>1
    <3> QED BY <1>0, <2>1, <2>4, <3>1
  <2>8. \A g \in wal : \E f \in wal' : f.part = g.part /\ f.seq = g.seq
    BY <2>1, <2>4
  <2>9. \E f \in wal' : f.part = p /\ f.seq = lw'[p].seq
    BY <2>1, <2>3, <2>8
  <2>10. OnlyAdded(p, r)
    BY <2>7 DEF OnlyAdded
  <2> QED BY <1>0, <2>1, <2>2, <2>5, <2>6, <2>7, <2>8, <2>9, <2>10
<1> QED BY <1>1, <1>2

\* Writers keep rows of their own, on an open shard.
LEMMA WriterStep == Inv /\ [Next]_vars => WriterInv'
<1> SUFFICES ASSUME Inv, [Next]_vars PROVE WriterInv'
  OBVIOUS
<1>0. /\ TypeInv /\ TypeRun /\ WriterInv /\ TypeTables /\ TypeInv' /\ key \in Seq(Key)
      /\ DOMAIN wr = Writer
  BY TypeStep DEF Inv, TypeInv, TypeRun, TypeHist
<1>1. CASE UNCHANGED <<key, wr, st, wal, acked, active>>
  BY <1>0, <1>1 DEF WriterInv, At, Known, LogRows, Rows
<1>2. ASSUME UNCHANGED <<key, acked, active>>, LogRows' \subseteq LogRows, st' = st,
             \A w \in Writer : wr'[w] = wr[w] \/ wr'[w].pc \notin Working
      PROVE  WriterInv'
  BY <1>0, <1>2 DEF WriterInv, At, Known, Rows, Fresh, Working
<1>3. wal' \subseteq wal => LogRows' \subseteq LogRows
  BY DEF LogRows
<1>4. ASSUME NEW w \in Writer, wr' = [wr EXCEPT ![w] = Idle] PROVE \A v \in Writer : wr'[v] = wr[v] \/ wr'[v].pc \notin Working
  BY <1>0, <1>4 DEF Idle, Working
<1>5. ASSUME NEW w \in Writer, NEW k \in Key, WriteRows(w, k) PROVE WriterInv'
  <2>1. Known' = Known \union {Len(key) + 1} /\ Len(key) + 1 \notin Known
    <3>1. Len(key) \in Nat /\ Len(key') = Len(key) + 1
      BY <1>0, <1>5, AppendProperties, LenProperties DEF WriteRows
    <3> QED BY <3>1 DEF Known
  <2>2. LogRows \subseteq Known /\ acked \subseteq Known
    BY <1>0, KnownRows DEF TypeInv, TypeHist
  <2>3. /\ wr'[w].pc = "checked" /\ wr'[w].row = Len(key) + 1 /\ \A v \in Writer : v # w => wr'[v] = wr[v]
        /\ LogRows' = LogRows /\ UNCHANGED <<st, acked, active>> /\ st = "open"
    BY <1>0, <1>5 DEF WriteRows, LogRows
  <2>4. \A v \in Writer : wr[v].pc \in Working => wr[v].row \in Known
    BY <1>0 DEF WriterInv
  <2> QED BY <1>0, <2>1, <2>2, <2>3, <2>4 DEF WriterInv, At, Fresh, Working, Rows
<1>6. ASSUME NEW w \in Writer, WriteLock(w) PROVE WriterInv'
  <2>1. /\ wr'[w].pc = "alloc" /\ wr'[w].row = wr[w].row /\ wr[w].pc = "checked"
        /\ \A v \in Writer : v # w => wr'[v] = wr[v]
        /\ LogRows' = LogRows /\ UNCHANGED <<key, st, acked, active>>
    BY <1>0, <1>6 DEF WriteLock, At, Goto, TypeRun, LogRows
  <2> QED BY <1>0, <2>1 DEF WriterInv, At, Fresh, Working, Known, Rows
<1>7. ASSUME NEW w \in Writer, NEW ok \in BOOLEAN, WriteIndex(w, ok) PROVE WriterInv'
  <2>1. /\ wr'[w].pc = "mem" /\ wr'[w].row = wr[w].row /\ wr[w].pc = "alloc"
        /\ \A v \in Writer : v # w => wr'[v] = wr[v]
        /\ LogRows' = LogRows /\ UNCHANGED <<key, st, acked, active>>
    BY <1>0, <1>7 DEF WriteIndex, At, TypeRun, LogRows
  <2> QED BY <1>0, <2>1 DEF WriterInv, At, Fresh, Working, Known, Rows
<1>8. ASSUME NEW w \in Writer, WriteTable(w) PROVE WriterInv'
  <2>1. /\ wr'[w].pc = "wal" /\ wr'[w].row = wr[w].row /\ wr[w].pc = "mem" /\ wr'[w].idx = wr[w].idx
        /\ \A v \in Writer : v # w => wr'[v] = wr[v]
        /\ LogRows' = LogRows /\ UNCHANGED <<key, st, acked>>
    BY <1>0, <1>8 DEF WriteTable, At, Goto, TypeRun, LogRows
  <2>2. wr[w].row \in Known /\ active \in Table
    BY <1>0, <2>1 DEF WriterInv, Working, TypeTables
  <2>3. Rows(active) \subseteq Rows(active)' /\ (wr[w].idx => wr[w].row \in Rows(active)')
    <3>1. CASE TableTakes(wr[w].idx)
      <4>1. active' = AddRow(active, wr[w].row)
        BY <1>8, <3>1 DEF WriteTable
      <4>2. Rows(AddRow(active, wr[w].row)) = Rows(active) \union {wr[w].row}
        BY <1>0, <2>2, AddRowFacts
      <4>3. Rows(active)' = Rows(active) \union {wr[w].row}
        BY <4>1, <4>2 DEF Rows
      <4> QED BY <4>3
    <3>2. CASE ~TableTakes(wr[w].idx)
      BY <1>8, <3>2 DEF WriteTable, Rows, TableTakes
    <3> QED BY <3>1, <3>2
  <2> QED BY <1>0, <2>1, <2>3 DEF WriterInv, At, Fresh, Working, Known
<1>9. ASSUME NEW w \in Writer, WalWrite(w) PROVE WriterInv'
  <2>1. /\ wr'[w].pc \in {"ack", "nack"} /\ wr'[w].row = wr[w].row /\ wr[w].pc = "wal"
        /\ \A v \in Writer : v # w => wr'[v] = wr[v]
        /\ UNCHANGED <<key, st, acked, active, part, engine>>
    BY <1>0, <1>9 DEF WalWrite, At, Goto, TypeRun
  <2>2. wr[w].row \in Known /\ 1 + writeReq \in 1 .. part /\ st = "open"
    BY <1>0, <2>1, ShardAssumption DEF WriterInv, Working, TypeInv, TypeLog, TypeConfig
  <2>3. LogRows' = LogRows \union {wr[w].row}
    BY <1>0, <1>9, <2>1, <2>2, LogWriteFacts DEF WalWrite, Inv
  <2> QED BY <1>0, <2>1, <2>3 DEF WriterInv, At, Fresh, Working, Known, Rows
<1>10. ASSUME NEW w \in Writer, WriteAck(w) PROVE WriterInv'
  <2>1. /\ wr'[w].pc = "idle" /\ wr[w].pc = "ack"
        /\ \A v \in Writer : v # w => wr'[v] = wr[v]
        /\ LogRows' = LogRows /\ acked' = acked \union {wr[w].row} /\ UNCHANGED <<key, st, active>>
    BY <1>0, <1>10 DEF WriteAck, At, Idle, LogRows
  <2> QED BY <1>0, <2>1 DEF WriterInv, At, Fresh, Working, Known, Rows
<1>11. ASSUME NEW w \in Writer, WriteLacks(w) \/ WriteTableFails(w) \/ WriteNack(w) \/ WriteLate(w) PROVE WriterInv'
  BY <1>2, <1>3, <1>4, <1>11 DEF WriteLacks, WriteTableFails, WriteNack, WriteLate
<1>12. ASSUME NEW f \in Flusher, WriteSnapshot(f) PROVE WriterInv'
  <2>1. \A w \in Writer : ~At(w, "wal")
    BY <1>12 DEF WriteSnapshot, SnapshotRLocked
  <2>2. UNCHANGED <<key, st, acked, wr>> /\ LogRows' = LogRows
    BY <1>12 DEF WriteSnapshot, LogRows
  <2> QED BY <1>0, <2>1, <2>2 DEF WriterInv, At, Fresh, Working, Known
<1>13. ASSUME \A w \in Writer : wr'[w].pc \notin Working PROVE WriterInv'
  BY <1>13 DEF WriterInv, At, Fresh, Working
<1>14. ASSUME st # "open", UNCHANGED wr PROVE WriterInv'
  BY <1>0, <1>13, <1>14 DEF WriterInv
<1>15. ASSUME Reopen PROVE WriterInv'
  BY <1>14, <1>15 DEF Reopen, OpenAndEnable, ReplayRow, ReplayFails, ReplayDone, RemoveReplayed, Opened
<1>16. ASSUME CloseWal PROVE WriterInv'
  <2>1. \A w \in Writer : wr[w].pc \notin {"alloc", "mem", "wal", "ack", "nack"}
    BY <1>16 DEF CloseWal, MuRLocked
  <2>2. \A w \in Writer : wr'[w] = IF At(w, "checked") THEN [wr[w] EXCEPT !.pc = "late"] ELSE wr[w]
    BY <1>16 DEF CloseWal
  <2>3. \A w \in Writer : wr'[w].pc \notin Working
    <3> SUFFICES ASSUME NEW w \in Writer PROVE wr'[w].pc \notin Working
      OBVIOUS
    <3>1. CASE At(w, "checked")
      <4>1. wr'[w].pc = "late"
        BY <1>0, <2>2, <3>1 DEF TypeRun
      <4> QED BY <4>1 DEF Working
    <3>2. CASE ~At(w, "checked")
      <4>1. wr'[w].pc = wr[w].pc /\ wr[w].pc # "checked"
        BY <2>2, <3>2 DEF At
      <4> QED BY <2>1, <4>1 DEF Working
    <3> QED BY <3>1, <3>2
  <2> QED BY <1>13, <2>3
<1>17. ASSUME Crash PROVE WriterInv'
  BY <1>13, <1>17 DEF Crash, Idle, Working
<1>18. ASSUME NEW f \in Flusher, DisableForceFlush(f) PROVE WriterInv'
  <2>1. CASE f = "replay"
    <3>1. st = "flush"
      BY <1>18, <2>1 DEF DisableForceFlush, Inv, FlusherInv
    <3> QED BY <1>14, <1>18, <3>1 DEF DisableForceFlush
  <2>2. CASE f # "replay"
    BY <1>1, <1>18, <2>2 DEF DisableForceFlush
  <2> QED BY <2>1, <2>2
<1>19. ASSUME NEW w \in Writer, Write(w) PROVE WriterInv'
  BY <1>5, <1>6, <1>7, <1>8, <1>9, <1>10, <1>11, <1>19 DEF Write
<1>20. ASSUME Flush PROVE WriterInv'
  <2>1. ASSUME NEW f \in Flusher, WaitStorage(f) \/ WaitSnapshot(f) PROVE WriterInv'
    BY <1>1, <1>2, <1>3, <2>1 DEF WaitStorage, WaitSnapshot
  <2>2. ASSUME NEW i \in Slot, IndexFlush(i) \/ (\E k \in Key : FlushChunks(i, k)) PROVE WriterInv'
    BY <1>1, <1>2, <1>3, <2>2 DEF IndexFlush, FlushChunks
  <2>3. ASSUME NEW i \in Slot, FreeResource(i) \/ RemoveWalFile(i) \/ DropSnapshot(i) PROVE WriterInv'
    BY <1>1, <1>2, <1>3, <2>3 DEF FreeResource, DropSnapshot, RemoveWalFile
  <2> QED BY <1>12, <1>18, <1>20, <2>1, <2>2, <2>3 DEF Flush
<1>21. ASSUME Close PROVE WriterInv'
  BY <1>1, <1>14, <1>16, <1>21 DEF Close, CloseBegin, CloseMem, CloseWait, CloseDone, Reload, ReloadEarly
<1> QED BY <1>1, <1>15, <1>17, <1>19, <1>20, <1>21 DEF Next, vars, Tick, ForceFlush

-----------------------------------------------------------------------------
(* Flushers.                                                               *)

\* One flusher moves.
LEMMA FlusherMoves ==
    ASSUME TypeRun, NEW f \in Flusher, NEW s, fl' = [fl EXCEPT ![f] = s]
    PROVE  fl'[f] = s /\ \A g \in Flusher : g # f => fl'[g] = fl[g]
BY DEF TypeRun

\* A step of a flush that neither fills nor drops the table.
LEMMA SlotKept ==
    ASSUME TypeTables, UNCHANGED <<key, part, engine>>, NEW i \in Slot,
           \/ IndexFlush(i) \/ FreeResource(i) \/ RemoveWalFile(i)
           \/ \E k \in Key : FlushChunks(i, k)
    PROVE  /\ slot[i] \in BusySlot /\ slot'[i] \in BusySlot /\ i \in Filled
           /\ slot'[i] # Nil /\ slot'[i].by = slot[i].by /\ slot'[i].tbl = slot[i].tbl
           /\ slot'[i].size = slot[i].size
           /\ \A j \in Slot : j # i => slot'[j] = slot[j]
           /\ Filled' = Filled /\ FreeSlots' = FreeSlots
           /\ IndexFlush(i) => /\ slot'[i].stage = "chunks" /\ slot'[i].files = slot[i].files
                               /\ slot'[i].left = slot[i].left
           /\ FreeResource(i) => /\ slot'[i].stage = "remove" /\ slot'[i].files = slot[i].files
                                 /\ slot'[i].left = slot[i].left
           /\ RemoveWalFile(i) => /\ slot'[i].stage = "remove" /\ slot'[i].files = Tail(slot[i].files)
                                  /\ slot'[i].left = slot[i].left
           /\ \A k \in Key : FlushChunks(i, k) =>
                /\ slot'[i].stage = "chunks" /\ slot'[i].files = slot[i].files
                /\ slot'[i].left = slot[i].left \ {k}
<1>0. slot[i] \in BusySlot /\ slot[i] # Nil /\ i \in Filled /\ i \notin FreeSlots
  BY SlotFacts DEF IndexFlush, FreeResource, RemoveWalFile, FlushChunks, Filled, FreeSlots
<1>1. ASSUME NEW s \in BusySlot, slot' = [slot EXCEPT ![i] = s]
      PROVE  /\ slot'[i] = s /\ slot'[i] # Nil /\ \A j \in Slot : j # i => slot'[j] = slot[j]
             /\ Filled' = Filled /\ FreeSlots' = FreeSlots
  <2>1. s # Nil
    BY DEF BusySlot, Nil
  <2>2. DOMAIN slot = Slot /\ Slot' = Slot
    BY SameTypes DEF TypeTables
  <2>3. slot'[i] = s /\ \A j \in Slot : j # i => slot'[j] = slot[j]
    BY <1>1, <2>2
  <2> QED BY <1>0, <2>1, <2>2, <2>3 DEF Filled, FreeSlots
<1>2. CASE IndexFlush(i)
  <2> DEFINE s == [slot[i] EXCEPT !.stage = "chunks"]
  <2>1. slot' = [slot EXCEPT ![i] = s] /\ s \in BusySlot
    BY <1>0, <1>2, StageFacts DEF IndexFlush
  <2>2. s.size = slot[i].size /\ s.by = slot[i].by /\ s.tbl = slot[i].tbl /\ s.stage = "chunks" /\ s.files = slot[i].files /\ s.left = slot[i].left
    BY <1>0 DEF BusySlot
  <2>3. slot[i].stage = "index"
    BY <1>2 DEF IndexFlush
  <2> HIDE DEF s
  <2> QED BY <1>0, <1>1, <2>1, <2>2, <2>3 DEF FreeResource, RemoveWalFile, FlushChunks
<1>3. CASE FreeResource(i)
  <2> DEFINE s == [slot[i] EXCEPT !.stage = "remove"]
  <2>1. slot' = [slot EXCEPT ![i] = s] /\ s \in BusySlot
    BY <1>0, <1>3, StageFacts DEF FreeResource
  <2>2. s.size = slot[i].size /\ s.by = slot[i].by /\ s.tbl = slot[i].tbl /\ s.stage = "remove" /\ s.files = slot[i].files /\ s.left = slot[i].left
    BY <1>0 DEF BusySlot
  <2>3. slot[i].stage = "chunks" /\ slot[i].left = {}
    BY <1>3 DEF FreeResource
  <2> HIDE DEF s
  <2> QED BY <1>0, <1>1, <2>1, <2>2, <2>3 DEF IndexFlush, RemoveWalFile, FlushChunks
<1>4. CASE RemoveWalFile(i)
  <2> DEFINE s == [slot[i] EXCEPT !.files = Tail(@)]
  <2>1. slot' = [slot EXCEPT ![i] = s] /\ s \in BusySlot
    BY <1>0, <1>4, StageFacts DEF RemoveWalFile
  <2>2. s.size = slot[i].size /\ s.by = slot[i].by /\ s.tbl = slot[i].tbl /\ s.stage = slot[i].stage /\ s.files = Tail(slot[i].files) /\ s.left = slot[i].left
    BY <1>0 DEF BusySlot
  <2>3. slot[i].stage = "remove"
    BY <1>4 DEF RemoveWalFile
  <2> HIDE DEF s
  <2> QED BY <1>0, <1>1, <2>1, <2>2, <2>3 DEF IndexFlush, FreeResource, FlushChunks
<1>5. ASSUME NEW k \in Key, FlushChunks(i, k)
      PROVE  /\ slot'[i] \in BusySlot /\ slot'[i] # Nil
             /\ slot'[i].by = slot[i].by /\ slot'[i].tbl = slot[i].tbl /\ slot'[i].size = slot[i].size
             /\ \A j \in Slot : j # i => slot'[j] = slot[j]
             /\ Filled' = Filled /\ FreeSlots' = FreeSlots
             /\ slot[i].stage = "chunks" /\ slot[i].left # {}
             /\ slot'[i].stage = "chunks" /\ slot'[i].files = slot[i].files
             /\ slot'[i].left = slot[i].left \ {k}
  <2> DEFINE s == [slot[i] EXCEPT !.left = @ \ {k}]
  <2>1. slot' = [slot EXCEPT ![i] = s] /\ s \in BusySlot
    BY <1>0, <1>5, StageFacts DEF FlushChunks
  <2>2. s.size = slot[i].size /\ s.by = slot[i].by /\ s.tbl = slot[i].tbl /\ s.stage = slot[i].stage /\ s.files = slot[i].files /\ s.left = slot[i].left \ {k}
    BY <1>0 DEF BusySlot
  <2>3. slot[i].stage = "chunks" /\ slot[i].left # {}
    BY <1>5 DEF FlushChunks
  <2> HIDE DEF s
  <2> QED BY <1>0, <1>1, <2>1, <2>2, <2>3
<1>6. CASE \E k \in Key : FlushChunks(i, k)
  <2>1. slot[i].stage = "chunks" /\ slot[i].left # {}
    BY <1>5, <1>6
  <2>2. ~IndexFlush(i) /\ ~FreeResource(i) /\ ~RemoveWalFile(i)
    BY <2>1 DEF IndexFlush, FreeResource, RemoveWalFile
  <2> QED BY <1>0, <1>5, <1>6, <2>2
<1> QED BY <1>2, <1>3, <1>4, <1>6

\* writeSnapshot of a shard with a memtable: which table it fills and how.
LEMMA SnapshotFacts ==
    ASSUME TypeInv, NEW f \in Flusher, WriteSnapshot(f), alive
    PROVE  \E i \in FreeSlots :
             /\ i \in Slot /\ slot[i] = Nil /\ i \notin Filled
             /\ slot'[i] \in BusySlot /\ slot'[i] # Nil /\ \A j \in Slot : j # i => slot'[j] = slot[j]
             /\ Filled' = Filled \union {i} /\ FreeSlots' = FreeSlots \ {i}
             /\ slot'[i].stage = "index" /\ slot'[i].by = f /\ slot'[i].tbl = active
             /\ slot'[i].size = size
             /\ slot'[i].left = {k \in Key : active[k] # << >>}
             /\ slot'[i].files \in FileOrders([p \in 1 .. part |-> lw[p].names])
             /\ lw' = [p \in 1 .. part |-> [lw[p] EXCEPT !.fd = FALSE, !.names = << >>]]
             /\ active' = EmptyTable /\ size' = 0
             /\ fl' = [fl EXCEPT ![f] = "flush"] /\ fl[f] = "switch"
<1>1. PICK i \in FreeSlots, files \in FileOrders([p \in 1 .. part |-> lw[p].names]) :
        /\ slot' = [slot EXCEPT ![i] = [stage |-> "index", by |-> f, tbl |-> active,
                                        size |-> size, files |-> files,
                                        left |-> {k \in Key : active[k] # << >>}]]
        /\ lw' = [p \in 1 .. part |-> [lw[p] EXCEPT !.fd = FALSE, !.names = << >>]]
        /\ active' = EmptyTable /\ size' = 0
        /\ fl' = [fl EXCEPT ![f] = "flush"]
  BY DEF WriteSnapshot
<1>2. [p \in 1 .. part |-> lw[p].names] \in [1 .. part -> Names] /\ part \in Nat
  BY ShardAssumption DEF TypeInv, TypeLog, TypeConfig
<1>3. files \in Seq(FileName)
  BY <1>2, FileOrdersFacts
<1> DEFINE s == [stage |-> "index", by |-> f, tbl |-> active, size |-> size, files |-> files,
                 left |-> {k \in Key : active[k] # << >>}]
<1>4. s \in BusySlot /\ s # Nil
  BY <1>3 DEF BusySlot, TypeInv, TypeTables, Nil
<1>5. i \in Slot /\ slot[i] = Nil /\ i \notin Filled
  BY DEF FreeSlots, Filled
<1>6. s.stage = "index" /\ s.size = size /\ s.by = f /\ s.tbl = active /\ s.files = files /\ s.left = {k \in Key : active[k] # << >>}
  OBVIOUS
<1>7. slot' = [slot EXCEPT ![i] = s] /\ fl[f] = "switch" /\ UNCHANGED <<key, part, engine>> /\ TypeTables
  BY <1>1 DEF WriteSnapshot, TypeInv
<1> HIDE DEF s
<1>8. /\ slot'[i] = s /\ \A j \in Slot : j # i => slot'[j] = slot[j]
      /\ Filled' = Filled \union {i} /\ FreeSlots' = FreeSlots \ {i}
  BY <1>4, <1>5, <1>7, SlotUpdate
<1> QED BY <1>1, <1>4, <1>5, <1>6, <1>7, <1>8

\* The table of a flush is dropped.
LEMMA SlotDropped ==
    ASSUME TypeTables, UNCHANGED <<key, part, engine>>, NEW i \in Slot, DropSnapshot(i)
    PROVE  /\ slot[i] \in BusySlot /\ i \in Filled /\ slot[i].stage = "remove" /\ slot[i].files = << >>
           /\ slot'[i] = Nil /\ \A j \in Slot : j # i => slot'[j] = slot[j]
           /\ Filled' = Filled \ {i} /\ FreeSlots' = FreeSlots \union {i}
<1>1. slot[i] \in BusySlot /\ slot[i] # Nil /\ i \in Filled /\ slot[i].stage = "remove" /\ slot[i].files = << >>
  BY SlotFacts DEF DropSnapshot, Filled
<1>2. slot' = [slot EXCEPT ![i] = Nil]
  BY DEF DropSnapshot
<1> QED BY <1>1, <1>2, SlotUpdate

\* The time series engine has one snapshot table.
LEMMA OneSlot ==
    ASSUME engine = "ts"
    PROVE  Slot = {1} /\ (Filled = {} <=> slot[1] = Nil) /\ (FreeSlots = {} <=> slot[1] # Nil)
BY DEF Slot, Filled, FreeSlots

\* One forced flush and one writeSnapshot at a time.
LEMMA FlusherStep == Inv /\ [Next]_vars => FlusherInv'
<1> SUFFICES ASSUME Inv, [Next]_vars PROVE FlusherInv'
  OBVIOUS
<1>0. /\ TypeInv /\ TypeRun /\ TypeTables /\ FlusherInv /\ SlotInv
      /\ UNCHANGED <<part, engine>>
  BY SameConfig DEF Inv, TypeInv
<1>1. CASE UNCHANGED <<fl, st, forceFlush, slot, alive>>
  BY <1>0, <1>1 DEF FlusherInv, FreeSlots, Filled, Slot
<1>2. ASSUME UNCHANGED <<st, forceFlush, fl, alive>>, Filled' = Filled, FreeSlots' = FreeSlots
      PROVE  FlusherInv'
  BY <1>0, <1>2 DEF FlusherInv
<1>3. ASSUME Tick PROVE FlusherInv'
  <2>1. /\ fl'["ticker"] = "switch" /\ \A g \in Flusher : g # "ticker" => fl'[g] = fl[g]
        /\ st \in {"open", "closing"} /\ FreeSlots # {} /\ ~forceFlush
        /\ UNCHANGED <<st, forceFlush, alive>>
    BY <1>0, <1>3, FlusherMoves DEF Tick, Flusher
  <2>2. FreeSlots' = FreeSlots
    BY <1>0, <1>3 DEF Tick, FreeSlots, Slot
  <2>3. fl["force"] = "idle" /\ fl["replay"] = "idle"
    BY <1>0, <2>1 DEF FlusherInv
  <2>4. \A f \in Flusher : f = "ticker" \/ fl'[f] = "idle"
    BY <2>1, <2>3 DEF Flusher
  <2> QED BY <1>0, <2>1, <2>2, <2>3, <2>4 DEF FlusherInv, Flusher
<1>4. ASSUME NEW f \in Flusher, EnableForceFlush(f), UNCHANGED <<slot, alive>>,
             \/ f = "force" /\ st' = st /\ st # "down"
             \/ f = "replay" /\ st = "replay" /\ st' = "flush"
      PROVE  FlusherInv'
  <2>1. /\ fl'[f] = "wait" /\ \A g \in Flusher : g # f => fl'[g] = fl[g]
        /\ forceFlush' /\ ~forceFlush
    BY <1>0, <1>4, FlusherMoves DEF EnableForceFlush, Flusher
  <2>2. FreeSlots' = FreeSlots /\ Filled' = Filled
    BY <1>0, <1>4 DEF FreeSlots, Filled, Slot
  <2> QED BY <1>0, <1>4, <2>1, <2>2 DEF FlusherInv, Flusher, Closing
<1>5. ASSUME ForceFlush PROVE FlusherInv'
  BY <1>4, <1>5 DEF ForceFlush, Flusher
<1>6. ASSUME ReplayDone PROVE FlusherInv'
  BY <1>4, <1>6 DEF ReplayDone, Flusher
<1>7. ASSUME NEW f \in Flusher, WaitStorage(f) PROVE FlusherInv'
  <2>1. /\ fl[f] = "wait" /\ fl'[f] = "ready" /\ \A g \in Flusher : g # f => fl'[g] = fl[g]
        /\ UNCHANGED <<st, forceFlush, alive>>
    BY <1>0, <1>7, FlusherMoves DEF WaitStorage
  <2>2. FreeSlots' = FreeSlots /\ Filled' = Filled
    BY <1>0, <1>7 DEF WaitStorage, FreeSlots, Filled, Slot
  <2> QED BY <1>0, <2>1, <2>2 DEF FlusherInv, Flusher
<1>8. ASSUME NEW f \in Flusher, WaitSnapshot(f) PROVE FlusherInv'
  <2>1. /\ fl[f] = "ready" /\ fl'[f] \in {"end", "switch"} /\ \A g \in Flusher : g # f => fl'[g] = fl[g]
        /\ fl'[f] = "switch" => engine # "cs" \/ FreeSlots # {}
        /\ UNCHANGED <<st, forceFlush, alive>>
        /\ \A g \in Flusher : fl[g] \notin {"switch", "flush"}
    BY <1>0, <1>8, FlusherMoves DEF WaitSnapshot, Snapshotting
  <2>2. FreeSlots' = FreeSlots /\ Filled' = Filled
    BY <1>0, <1>8 DEF WaitSnapshot, FreeSlots, Filled, Slot
  <2>3. engine # "cs" => FreeSlots # {}
    <3> SUFFICES ASSUME engine = "ts" PROVE FreeSlots # {}
      BY <1>0, ShardAssumption DEF TypeInv, TypeConfig
    <3>1. ASSUME slot[1] # Nil PROVE FALSE
      <4>1. 1 \in Filled /\ fl[slot[1].by] = "flush" /\ slot[1].by \in Flusher
        BY <1>0, <3>1, OneSlot, SlotFacts DEF SlotInv, Filled
      <4> QED BY <2>1, <4>1
    <3> QED BY <3>1, OneSlot
  <2> QED BY <1>0, <2>1, <2>2, <2>3 DEF FlusherInv, Flusher
<1>9. ASSUME NEW f \in Flusher, NEW s \in {"flush", "idle", "end"}, UNCHANGED <<st, forceFlush, alive>>,
             fl' = [fl EXCEPT ![f] = s], fl[f] \in {"switch", "flush"},
             s = "flush" \/ s = Ended(f),
             st = "down" => Filled' = Filled,
             \/ FreeSlots \subseteq FreeSlots'
             \/ fl[f] = "switch"
      PROVE  FlusherInv'
  <2>1. fl'[f] = s /\ \A g \in Flusher : g # f => fl'[g] = fl[g]
    BY <1>0, <1>9, FlusherMoves
  <2>2. \A g \in Flusher : g # f => fl[g] \notin {"switch", "flush"}
    BY <1>0, <1>9 DEF FlusherInv
  <2>3. (s = "idle" => f = "ticker") /\ (s = "end" => f # "ticker")
    BY <1>9 DEF Ended
  <2>4. \A g \in Flusher : fl'[g] = "switch" => FALSE
    BY <1>9, <2>1, <2>2
  <2> QED BY <1>0, <1>9, <2>1, <2>2, <2>3, <2>4 DEF FlusherInv, Flusher
<1>10. ASSUME NEW f \in Flusher, WriteSnapshot(f) PROVE FlusherInv'
  <2>0. st # "down"
    BY <1>0, <1>10 DEF WriteSnapshot, FlusherInv
  <2>1. CASE alive
    <3>1. fl' = [fl EXCEPT ![f] = "flush"] /\ fl[f] = "switch"
      BY <1>0, <1>10, <2>1, SnapshotFacts
    <3> QED BY <1>9, <1>10, <2>0, <3>1 DEF WriteSnapshot
  <2>2. CASE ~alive
    <3>1. fl' = [fl EXCEPT ![f] = Ended(f)] /\ fl[f] = "switch" /\ Ended(f) \in {"idle", "end"}
      BY <1>10, <2>2 DEF WriteSnapshot, NoActiveTbl, Ended
    <3> QED BY <1>9, <1>10, <2>0, <3>1 DEF WriteSnapshot
  <2> QED BY <2>1, <2>2
<1>11. ASSUME NEW i \in Slot, IndexFlush(i) PROVE FlusherInv'
  <2>1. slot[i].by \in Flusher /\ i \in Filled /\ fl[slot[i].by] = "flush" /\ Filled' = Filled /\ FreeSlots' = FreeSlots
        /\ Ended(slot[i].by) \in {"idle", "end"}
    <3>1. UNCHANGED <<key, part, engine>> /\ slot[i].stage = "index"
      BY <1>11 DEF IndexFlush
    <3>2. i \in Filled /\ slot[i] \in BusySlot /\ Filled' = Filled /\ FreeSlots' = FreeSlots
      BY <1>0, <1>11, <3>1, SlotKept
    <3> QED BY <1>0, <3>1, <3>2, SlotFacts DEF SlotInv, Ended
  <2>2. CASE engine = "cs"
    <3>1. fl' = [fl EXCEPT ![slot[i].by] = Ended(slot[i].by)] /\ UNCHANGED <<st, forceFlush, alive>>
      BY <1>11, <2>2 DEF IndexFlush
    <3> QED BY <1>9, <2>1, <3>1
  <2>3. CASE engine # "cs"
    BY <1>2, <1>11, <2>1, <2>3 DEF IndexFlush
  <2> QED BY <2>2, <2>3
<1>12. ASSUME NEW i \in Slot, FreeResource(i) \/ RemoveWalFile(i) \/ \E k \in Key : FlushChunks(i, k) PROVE FlusherInv'
  <2>1. UNCHANGED <<key, part, engine, st, forceFlush, fl, alive>>
    BY <1>12 DEF FreeResource, RemoveWalFile, FlushChunks
  <2>2. Filled' = Filled /\ FreeSlots' = FreeSlots
    BY <1>0, <1>12, <2>1, SlotKept
  <2> QED BY <1>2, <2>1, <2>2
<1>13. ASSUME NEW i \in Slot, DropSnapshot(i) PROVE FlusherInv'
  <2>1. UNCHANGED <<key, part, engine, st, forceFlush, alive>>
    BY <1>13 DEF DropSnapshot
  <2>2. slot[i] \in BusySlot /\ i \in Filled /\ Filled' = Filled \ {i} /\ FreeSlots' = FreeSlots \union {i}
    BY <1>0, <1>13, <2>1, SlotDropped
  <2>3. st # "down" /\ slot[i].by \in Flusher
    BY <1>0, <2>2, SlotFacts DEF FlusherInv
  <2>4. CASE engine = "ts"
    <3>1. fl' = [fl EXCEPT ![slot[i].by] = Ended(slot[i].by)] /\ fl[slot[i].by] = "flush"
          /\ Ended(slot[i].by) \in {"idle", "end"}
      BY <1>0, <1>13, <2>2, <2>4 DEF DropSnapshot, SlotInv, Ended
    <3> QED BY <1>9, <2>1, <2>2, <2>3, <3>1
  <2>5. CASE engine # "ts"
    <3>1. fl' = fl
      BY <1>13, <2>5 DEF DropSnapshot
    <3> QED BY <1>0, <2>1, <2>2, <2>3, <3>1 DEF FlusherInv
  <2> QED BY <2>4, <2>5
<1>14. ASSUME NEW f \in Flusher, DisableForceFlush(f) PROVE FlusherInv'
  <2>1. /\ fl[f] = "end" /\ fl'[f] = "idle" /\ \A g \in Flusher : g # f => fl'[g] = fl[g]
        /\ forceFlush' = FALSE /\ UNCHANGED alive
        /\ st' = IF f = "replay" THEN "remove" ELSE st
    BY <1>0, <1>14, FlusherMoves DEF DisableForceFlush
  <2>2. FreeSlots' = FreeSlots /\ Filled' = Filled
    BY <1>0, <1>14 DEF DisableForceFlush, FreeSlots, Filled, Slot
  <2> QED BY <1>0, <2>1, <2>2 DEF FlusherInv, Flusher, Closing
<1>15. ASSUME st \notin {"open", "flush"} \union Closing, st' \in {"replay", "failed", "open", "remove"},
              UNCHANGED <<fl, forceFlush, slot, alive>>
       PROVE  FlusherInv'
  <2>1. FreeSlots' = FreeSlots /\ Filled' = Filled
    BY <1>0, <1>15 DEF FreeSlots, Filled, Slot
  <2> QED BY <1>0, <1>15, <2>1 DEF FlusherInv, Closing
<1>16. ASSUME OpenAndEnable \/ ReplayFails \/ RemoveReplayed \/ Opened PROVE FlusherInv'
  BY <1>15, <1>16 DEF OpenAndEnable, ReplayFails, RemoveReplayed, Opened, Closing
<1>17. ASSUME CloseWal \/ CloseMem PROVE FlusherInv'
  <2>1. st \in {"open", "closing"} /\ st' = "closing" /\ UNCHANGED <<fl, forceFlush, slot>>
    BY <1>17 DEF CloseWal, CloseMem
  <2>2. FreeSlots' = FreeSlots /\ Filled' = Filled
    BY <1>0, <2>1 DEF FreeSlots, Filled, Slot
  <2> QED BY <1>0, <2>1, <2>2 DEF FlusherInv, Closing
<1>24. ASSUME Quiet PROVE FlusherInv'
  <2>1. /\ st \in {"closing", "drained", "closed"} /\ st' \in Closing /\ UNCHANGED <<fl, forceFlush, slot>>
        /\ fl["ticker"] # "idle" => st' = "drained"
    <3>1. fl["ticker"] # "idle" => st' = "drained"
      BY <1>0, <1>24 DEF Quiet, CloseWait, CloseDone, ReloadEarly, Snapshotting, FlusherInv, Flusher
    <3> QED BY <1>24, <3>1, QuietFacts
  <2>2. FreeSlots' = FreeSlots /\ Filled' = Filled
    BY <1>0, <2>1 DEF FreeSlots, Filled, Slot
  <2> QED BY <1>0, <2>1, <2>2 DEF FlusherInv, Closing
<1>18. ASSUME NewShard, Filled' = {} PROVE FlusherInv'
  BY <1>18 DEF NewShard, FlusherInv, Flusher
<1>19. ASSUME Reload PROVE FlusherInv'
  BY <1>0, <1>18, <1>19 DEF Reload, Filled, Slot
<1>20. ASSUME Crash PROVE FlusherInv'
  BY <1>0, <1>18, <1>20 DEF Crash, Filled, Slot
<1>21. ASSUME NEW w \in Writer, Write(w) PROVE FlusherInv'
  BY <1>1, <1>21 DEF Write, WriteRows, WriteLock, WriteIndex, WriteLacks, WriteTable,
       WriteTableFails, WalWrite, WriteAck, WriteNack, WriteLate
<1>22. ASSUME Flush PROVE FlusherInv'
  BY <1>7, <1>8, <1>10, <1>11, <1>12, <1>13, <1>14, <1>22 DEF Flush
<1>23. ASSUME (\E out \in Outcomes : ReplayRow(out)) \/ CloseBegin PROVE FlusherInv'
  BY <1>1, <1>23 DEF ReplayRow, CloseBegin
<1> QED BY <1>1, <1>3, <1>5, <1>6, <1>16, <1>17, <1>19, <1>20, <1>21, <1>22, <1>23, <1>24 DEF Next, vars, Reopen, Close, Quiet

\* A snapshot table belongs to the flush that filled it.
LEMMA SlotStep == Inv /\ [Next]_vars => SlotInv'
<1> SUFFICES ASSUME Inv, [Next]_vars PROVE SlotInv'
  OBVIOUS
<1>0. /\ TypeInv /\ TypeRun /\ TypeTables /\ FlusherInv /\ SlotInv
      /\ UNCHANGED <<part, engine>> /\ Slot' = Slot
  BY SameConfig DEF Inv, TypeInv, Slot
<1>1. CASE UNCHANGED <<fl, slot>>
  BY <1>0, <1>1 DEF SlotInv, Filled
<1>2. ASSUME UNCHANGED slot, NEW f \in Flusher, NEW s, fl' = [fl EXCEPT ![f] = s],
             fl[f] # "flush", s # "flush"
      PROVE  SlotInv'
  <2>1. fl'[f] = s /\ \A g \in Flusher : g # f => fl'[g] = fl[g]
    BY <1>0, <1>2, FlusherMoves
  <2>2. \A i \in Filled : slot[i].by \in Flusher
    BY <1>0, SlotFacts DEF Filled
  <2> QED BY <1>0, <1>2, <2>1, <2>2 DEF SlotInv, Filled
<1>3. ASSUME Tick \/ ForceFlush \/ ReplayDone PROVE SlotInv'
  BY <1>2, <1>3 DEF Tick, ForceFlush, ReplayDone, EnableForceFlush, Flusher
<1>4. ASSUME NEW f \in Flusher, WaitStorage(f) \/ WaitSnapshot(f) \/ DisableForceFlush(f) PROVE SlotInv'
  BY <1>2, <1>4 DEF WaitStorage, WaitSnapshot, DisableForceFlush
<1>5. ASSUME NEW f \in Flusher, WriteSnapshot(f) PROVE SlotInv'
  <2>1. CASE alive
    <3>1. PICK i \in FreeSlots :
             /\ i \in Slot /\ slot[i] = Nil /\ i \notin Filled
             /\ slot'[i] \in BusySlot /\ slot'[i] # Nil /\ \A j \in Slot : j # i => slot'[j] = slot[j]
             /\ Filled' = Filled \union {i} /\ FreeSlots' = FreeSlots \ {i}
             /\ slot'[i].stage = "index" /\ slot'[i].by = f
             /\ fl' = [fl EXCEPT ![f] = "flush"] /\ fl[f] = "switch"
      BY <1>0, <1>5, <2>1, SnapshotFacts
    <3>2. fl'[f] = "flush" /\ \A g \in Flusher : g # f => fl'[g] = fl[g]
      BY <1>0, <3>1, FlusherMoves
    <3>3. \A g \in Flusher : g # f => fl[g] # "flush"
      BY <1>0, <3>1 DEF FlusherInv
    <3>4. \A j \in Filled : slot[j].by \in Flusher /\ j \in Slot /\ j # i
      BY <1>0, <3>1, SlotFacts DEF Filled
    <3>5. engine = "ts" => i = 1
      BY <3>1, OneSlot
    <3>6. \A j \in Filled : slot[j].stage # "index" /\ engine # "ts"
      BY <1>0, <3>1, <3>3, <3>4 DEF SlotInv
    <3> QED BY <1>0, <3>1, <3>2, <3>3, <3>4, <3>5, <3>6 DEF SlotInv
  <2>2. CASE ~alive
    BY <1>2, <1>5, <2>2 DEF WriteSnapshot, NoActiveTbl, Ended
  <2> QED BY <2>1, <2>2
<1>6. ASSUME NEW i \in Slot, FreeResource(i) \/ RemoveWalFile(i) \/ \E k \in Key : FlushChunks(i, k) PROVE SlotInv'
  <2>1. UNCHANGED <<key, part, engine, fl>>
    BY <1>6 DEF FreeResource, RemoveWalFile, FlushChunks
  <2>2. /\ i \in Filled /\ Filled' = Filled /\ slot'[i].by = slot[i].by /\ slot'[i] # Nil
        /\ \A j \in Slot : j # i => slot'[j] = slot[j]
        /\ slot'[i].stage # "index"
    BY <1>0, <1>6, <2>1, SlotKept
  <2>3. \A j \in Filled : j \in Slot /\ slot'[j].by = slot[j].by /\ slot'[j] # Nil /\ (slot'[j].stage = "index" => slot[j].stage = "index")
    BY <2>2 DEF Filled
  <2>4. engine = "ts" => \A f \in Flusher : fl[f] = "flush" => 1 \in Filled
    BY <1>0, OneSlot DEF SlotInv, Filled
  <2> QED BY <1>0, <2>1, <2>2, <2>3, <2>4 DEF SlotInv
<1>7. ASSUME NEW i \in Slot, IndexFlush(i) PROVE SlotInv'
  <2>1. UNCHANGED <<key, part, engine>> /\ slot[i].stage = "index"
    BY <1>7 DEF IndexFlush
  <2>2. /\ i \in Filled /\ Filled' = Filled /\ slot'[i].by = slot[i].by /\ slot'[i] # Nil
        /\ \A j \in Slot : j # i => slot'[j] = slot[j]
        /\ slot'[i].stage = "chunks"
    BY <1>0, <1>7, <2>1, SlotKept
  <2>3. \A j \in Filled : j \in Slot /\ slot'[j].by = slot[j].by /\ slot'[j] # Nil /\ slot'[j].stage # "index"
    BY <1>0, <2>1, <2>2 DEF Filled, SlotInv
  <2>4. engine = "ts" => \A f \in Flusher : fl[f] = "flush" => 1 \in Filled
    BY <1>0, OneSlot DEF SlotInv, Filled
  <2>5. CASE engine # "cs"
    <3>1. fl' = fl
      BY <1>7, <2>5 DEF IndexFlush
    <3> QED BY <1>0, <2>1, <2>2, <2>3, <2>4, <3>1 DEF SlotInv
  <2>6. CASE engine = "cs"
    BY <1>0, <2>1, <2>2, <2>3, <2>6 DEF SlotInv
  <2> QED BY <2>5, <2>6
<1>8. ASSUME NEW i \in Slot, DropSnapshot(i) PROVE SlotInv'
  <2>1. UNCHANGED <<key, part, engine>>
    BY <1>8 DEF DropSnapshot
  <2>2. /\ slot[i] \in BusySlot /\ i \in Filled /\ Filled' = Filled \ {i}
        /\ slot'[i] = Nil /\ \A j \in Slot : j # i => slot'[j] = slot[j]
    BY <1>0, <1>8, <2>1, SlotDropped
  <2>3. \A j \in Filled' : j \in Filled /\ slot'[j] = slot[j]
    BY <2>2 DEF Filled
  <2>4. CASE engine = "ts"
    <3>1. fl' = [fl EXCEPT ![slot[i].by] = Ended(slot[i].by)] /\ fl[slot[i].by] = "flush"
          /\ slot[i].by \in Flusher /\ Ended(slot[i].by) # "flush" /\ i = 1
      BY <1>0, <1>8, <2>2, <2>4, SlotFacts, OneSlot DEF DropSnapshot, SlotInv, Ended
    <3>2. \A g \in Flusher : fl'[g] # "flush"
      <4>1. fl'[slot[i].by] = Ended(slot[i].by) /\ \A g \in Flusher : g # slot[i].by => fl'[g] = fl[g]
        BY <1>0, <3>1, FlusherMoves
      <4>2. \A g \in Flusher : g # slot[i].by => fl[g] # "flush"
        BY <1>0, <3>1 DEF FlusherInv
      <4> QED BY <3>1, <4>1, <4>2
    <3>3. Filled' = {}
      BY <2>2, <2>4, <3>1, OneSlot DEF Filled
    <3> QED BY <3>2, <3>3 DEF SlotInv
  <2>5. CASE engine # "ts"
    <3>1. fl' = fl
      BY <1>8, <2>5 DEF DropSnapshot
    <3> QED BY <1>0, <2>1, <2>3, <2>5, <3>1 DEF SlotInv
  <2> QED BY <2>4, <2>5
<1>9. ASSUME NewShard, Filled' = {} PROVE SlotInv'
  BY <1>9 DEF NewShard, SlotInv
<1>10. ASSUME Reload \/ Crash PROVE SlotInv'
  BY <1>0, <1>9, <1>10 DEF Reload, Crash, Filled
<1>11. ASSUME NEW w \in Writer, Write(w) PROVE SlotInv'
  BY <1>1, <1>11 DEF Write, WriteRows, WriteLock, WriteIndex, WriteLacks, WriteTable,
       WriteTableFails, WalWrite, WriteAck, WriteNack, WriteLate
<1>12. ASSUME Flush PROVE SlotInv'
  BY <1>4, <1>5, <1>6, <1>7, <1>8, <1>12 DEF Flush
<1>13. ASSUME Reopen PROVE SlotInv'
  BY <1>1, <1>3, <1>13 DEF Reopen, OpenAndEnable, ReplayRow, ReplayFails, RemoveReplayed, Opened
<1>14. ASSUME Close PROVE SlotInv'
  <2>1. ASSUME Quiet PROVE SlotInv'
    BY <1>1, <2>1, QuietFacts
  <2> QED BY <1>1, <1>10, <1>14, <2>1 DEF Close, CloseBegin, CloseWal, CloseMem, Quiet
<1> QED BY <1>1, <1>3, <1>10, <1>11, <1>12, <1>13, <1>14 DEF Next, vars

-----------------------------------------------------------------------------
(* The files of the log.                                                   *)

\* Files are removed, or only rows are added to them.
LEMMA FilesKept ==
    ASSUME wal' \subseteq wal
    PROVE  (Unique => Unique') /\ LogRows' \subseteq LogRows
BY DEF Unique, LogRows

\* The log of a shard that has nothing named.
LEMMA UnnamedLog ==
    ASSUME \A p \in 1 .. part : lw[p].names = << >>
    PROVE  \A p \in 1 .. part : IsInjective(lw[p].names) /\ ToSet(lw[p].names) = {}
BY DEF IsInjective, ToSet

\* The files of the log are unique and named while they exist.
LEMMA LogStep == Inv /\ [Next]_vars => LogInv'
<1> SUFFICES ASSUME Inv, [Next]_vars PROVE LogInv'
  OBVIOUS
<1>0. /\ TypeInv /\ LogInv /\ TypeInv' /\ UNCHANGED <<part, engine>>
      /\ part \in Nat \ {0} /\ wal \subseteq LogFile
      /\ lw \in [1 .. part -> [seq : Nat, fd : BOOLEAN, names : Names]]
  BY SameConfig, TypeStep, ShardAssumption DEF Inv, TypeInv, TypeConfig, TypeDisk, TypeLog
<1>1. ToSet(<< >>) = {} /\ IsInjective(<< >>)
  BY DEF ToSet, IsInjective
<1>2. CASE UNCHANGED <<wal, lw, st>>
  BY <1>0, <1>2 DEF LogInv, Unique, File
<1>3. ASSUME UNCHANGED <<wal, lw>>, st # "down" \/ wal = {}, st \notin {"open"} \/ st' = "open"
      PROVE  LogInv'
  BY <1>0, <1>3 DEF LogInv, Unique, File
<1>4. ASSUME wal' \subseteq wal, \A p \in 1 .. part : lw'[p].names = << >> /\ ~lw'[p].fd,
             st' # "down" => \A f \in wal' : f.seq <= lw'[f.part].seq
      PROVE  LogInv'
  BY <1>0, <1>1, <1>4, FilesKept DEF LogInv
<1>5. ASSUME NEW w \in Writer, WalWrite(w) PROVE LogInv'
  <2> DEFINE p == 1 + writeReq
             r == wr[w].row
  <2>1. r \in Known /\ p \in 1 .. part /\ st = "open" /\ UNCHANGED <<key, part, engine, st>>
    BY <1>0, <1>5 DEF WalWrite, Inv, WriterInv, At, Working, TypeInv, TypeLog
  <2>2. LogWrite(p, r)
    BY <1>5 DEF WalWrite
  <2> HIDE DEF p, r
  <2>31. /\ \A o \in 1 .. part : o # p => lw'[o] = lw[o]
         /\ lw'[p].seq \in {lw[p].seq, lw[p].seq + 1} /\ lw'[p].seq \in ToSet(lw'[p].names)
         /\ \/ ToSet(lw'[p].names) = ToSet(lw[p].names)
            \/ /\ lw'[p].seq = lw[p].seq + 1
               /\ ToSet(lw'[p].names) = ToSet(lw[p].names) \union {lw[p].seq + 1}
         /\ IsInjective(lw'[p].names)
         /\ \A g \in wal : \E f \in wal' : f.part = g.part /\ f.seq = g.seq
         /\ \E f \in wal' : f.part = p /\ f.seq = lw'[p].seq
         /\ Unique' /\ \A f \in wal' : f.seq <= lw'[f.part].seq
    BY <1>0, <2>1, <2>2, LogWriteFacts
  <2>32. ToSet(lw'[p].names) \subseteq ToSet(lw[p].names) \union {lw'[p].seq}
    BY <2>31
  <2>3. /\ \A o \in 1 .. part : o # p => lw'[o] = lw[o]
        /\ lw'[p].seq \in {lw[p].seq, lw[p].seq + 1} /\ lw'[p].seq \in ToSet(lw'[p].names)
        /\ ToSet(lw'[p].names) \subseteq ToSet(lw[p].names) \union {lw'[p].seq}
        /\ IsInjective(lw'[p].names)
        /\ \A g \in wal : \E f \in wal' : f.part = g.part /\ f.seq = g.seq
        /\ \E f \in wal' : f.part = p /\ f.seq = lw'[p].seq
        /\ Unique' /\ \A f \in wal' : f.seq <= lw'[f.part].seq
    BY <2>31, <2>32
  <2>4. ASSUME NEW n, File(n) # {} PROVE File(n)' # {}
    BY <2>3, <2>4 DEF File
  <2>5. ASSUME NEW o \in 1 .. part, NEW q \in ToSet(lw'[o].names)
        PROVE  q <= lw'[o].seq /\ File(<<o, q>>)' # {}
    <3>1. CASE o # p
      BY <1>0, <2>3, <2>4, <3>1 DEF LogInv
    <3>2. CASE o = p /\ q = lw'[p].seq
      <4>1. lw'[p].seq \in Nat
        BY <1>0, <2>1, <2>3
      <4>2. File(<<o, q>>)' # {}
        BY <2>3, <3>2 DEF File
      <4> QED BY <3>2, <4>1, <4>2
    <3>3. CASE o = p /\ q \in ToSet(lw[p].names)
      <4>1. q <= lw[p].seq /\ File(<<o, q>>) # {} /\ lw[p].names \in Seq(Nat) /\ lw[p].seq \in Nat
        BY <1>0, <2>1, <3>3 DEF LogInv, Names
      <4>2. q \in Nat
        BY <3>3, <4>1, RangeOfSeq DEF ToSet, Range
      <4>3. q <= lw'[p].seq
        BY <2>3, <4>1, <4>2
      <4> QED BY <2>4, <3>3, <4>1, <4>3
    <3> QED BY <2>3, <3>1, <3>2, <3>3
  <2>6. \A o \in 1 .. part : IsInjective(lw'[o].names) /\ (lw'[o].fd => lw'[o].seq \in ToSet(lw'[o].names))
    BY <1>0, <2>1, <2>3 DEF LogInv
  <2> QED BY <1>0, <2>1, <2>3, <2>5, <2>6 DEF LogInv
<1>6. ASSUME lw' = [p \in 1 .. part |-> [lw[p] EXCEPT !.fd = FALSE, !.names = << >>]],
             UNCHANGED wal, st # "down"
      PROVE  LogInv'
  <2>1. \A p \in 1 .. part : lw'[p].names = << >> /\ ~lw'[p].fd /\ lw'[p].seq = lw[p].seq
    BY <1>0, <1>6
  <2>2. \A f \in wal' : f.seq <= lw'[f.part].seq
    BY <1>0, <1>6, <2>1 DEF LogInv, LogFile
  <2> QED BY <1>4, <1>6, <2>1, <2>2
<1>7. ASSUME NEW f \in Flusher, WriteSnapshot(f) PROVE LogInv'
  <2>1. st # "down" /\ UNCHANGED <<wal, st>>
    BY <1>7 DEF WriteSnapshot, Inv, FlusherInv
  <2>2. CASE alive
    BY <1>0, <1>6, <1>7, <2>1, <2>2, SnapshotFacts
  <2>3. CASE ~alive
    BY <1>2, <1>7, <2>1, <2>3 DEF WriteSnapshot
  <2> QED BY <2>2, <2>3
<1>8. ASSUME NEW i \in Slot, RemoveWalFile(i) PROVE LogInv'
  <2> DEFINE h == Head(slot[i].files)
  <2>1. i \in Filled /\ slot[i].files \in Seq(FileName) /\ slot[i].files # << >>
    BY <1>0, <1>8, SlotFacts DEF RemoveWalFile, TypeInv, Filled
  <2>2. h \in ToSet(slot[i].files)
    BY <2>1, TailRange
  <2>3. h[2] \notin ToSet(lw[h[1]].names)
    BY <2>1, <2>2 DEF Inv, SlotFilesInv
  <2>4. wal' = wal \ File(h) /\ UNCHANGED <<lw, st>>
    BY <1>8 DEF RemoveWalFile
  <2> HIDE DEF h
  <2>5. ASSUME NEW p \in 1 .. part, NEW q \in ToSet(lw[p].names) PROVE File(<<p, q>>)' # {}
    <3>0. File(<<p, q>>) # {}
      BY <1>0, <2>5 DEF LogInv
    <3>1. PICK g \in wal : g.part = p /\ g.seq = q
      BY <3>0 DEF File
    <3>2. g \notin File(h)
      BY <2>3, <2>5, <3>1 DEF File
    <3> QED BY <2>4, <3>1, <3>2 DEF File
  <2>6. Unique' /\ (st # "down" => \A f \in wal' : f.seq <= lw[f.part].seq)
    BY <1>0, <2>4, FilesKept DEF LogInv
  <2> QED BY <1>0, <2>4, <2>5, <2>6 DEF LogInv
<1>9. st # "open" => \A p \in 1 .. part : lw[p].names = << >> /\ ~lw[p].fd
  BY <1>0, <1>1 DEF LogInv
<1>10. ASSUME RemoveReplayed PROVE LogInv'
  <2>1. wal' \subseteq wal /\ UNCHANGED lw /\ st = "remove"
    BY <1>10 DEF RemoveReplayed
  <2>2. \A f \in wal' : f.seq <= lw'[f.part].seq
    BY <1>0, <2>1 DEF LogInv
  <2> QED BY <1>4, <1>9, <2>1, <2>2
<1>11. ASSUME OpenAndEnable PROVE LogInv'
  <2>1. /\ UNCHANGED wal /\ st # "open" /\ st' = "replay"
        /\ lw' = [p \in 1 .. part |->
                    [lw[p] EXCEPT !.seq = IF FilesOf(p) = << >> THEN @ ELSE Last(FilesOf(p))]]
    BY <1>11 DEF OpenAndEnable, RestoreLogs
  <2>2. \A p \in 1 .. part : lw'[p].names = << >> /\ ~lw'[p].fd
    BY <1>0, <1>9, <2>1
  <2>3. ASSUME NEW f \in wal' PROVE f.seq <= lw'[f.part].seq
    <3> DEFINE p == f.part
    <3>1. f \in wal /\ p \in 1 .. part
      BY <1>0, <2>1 DEF LogFile
    <3> HIDE DEF p
    <3>2. FilesOf(p) # << >> /\ f.seq <= Last(FilesOf(p))
      BY <1>0, <3>1, FilesOfFacts DEF TypeInv, p
    <3>3. lw'[p].seq = Last(FilesOf(p))
      BY <1>0, <2>1, <3>1, <3>2
    <3> QED BY <3>2, <3>3 DEF p
  <2> QED BY <1>4, <2>1, <2>2, <2>3
<1>12. ASSUME NewShard, wal' = wal PROVE LogInv'
  <2>1. \A p \in 1 .. part : lw'[p].names = << >> /\ ~lw'[p].fd
    BY <1>12 DEF NewShard, NoWriter
  <2>2. st' = "down"
    BY <1>12 DEF NewShard
  <2> QED BY <1>4, <1>12, <2>1, <2>2
<1>13. ASSUME NEW w \in Writer, Write(w) PROVE LogInv'
  BY <1>2, <1>5, <1>13 DEF Write, WriteRows, WriteLock, WriteIndex, WriteLacks, WriteTable,
       WriteTableFails, WriteAck, WriteNack, WriteLate
<1>14. ASSUME NEW f \in Flusher, DisableForceFlush(f) PROVE LogInv'
  <2>1. f = "replay" => st = "flush"
    BY <1>14 DEF DisableForceFlush, Inv, FlusherInv
  <2> QED BY <1>2, <1>3, <1>14, <2>1 DEF DisableForceFlush
<1>15. ASSUME Flush PROVE LogInv'
  BY <1>2, <1>7, <1>8, <1>14, <1>15 DEF Flush, WaitStorage, WaitSnapshot, IndexFlush, FlushChunks, FreeResource, DropSnapshot
<1>16. ASSUME Reopen PROVE LogInv'
  BY <1>2, <1>3, <1>10, <1>11, <1>16 DEF Reopen, ReplayRow, ReplayFails, ReplayDone, Opened
<1>17. ASSUME CloseWal PROVE LogInv'
  BY <1>6, <1>17 DEF CloseWal
<1>18. ASSUME Quiet PROVE LogInv'
  BY <1>3, <1>18, QuietFacts
<1> QED BY <1>2, <1>12, <1>13, <1>15, <1>16, <1>17, <1>18
        DEF Next, vars, Tick, ForceFlush, Close, CloseBegin, CloseMem, Reload, Crash, Quiet

\* A sequence without elements is empty.
LEMMA EmptyRange ==
    ASSUME NEW T, NEW s \in Seq(T), ToSet(s) = {}
    PROVE  s = << >>
<1>1. Len(s) \in Nat /\ DOMAIN s = 1 .. Len(s)
  BY LenProperties
<1>2. ASSUME Len(s) # 0 PROVE FALSE
  <2>1. 1 \in DOMAIN s
    BY <1>1, <1>2
  <2> QED BY <2>1 DEF ToSet
<1> QED BY <1>1, <1>2, EmptySeq

\* A flush removes files that exist and that nobody else names.
LEMMA SlotFilesStep == Inv /\ [Next]_vars => SlotFilesInv'
<1> SUFFICES ASSUME Inv, [Next]_vars PROVE SlotFilesInv'
  OBVIOUS
<1>0. /\ TypeInv /\ TypeTables /\ LogInv /\ SlotFilesInv /\ TypeInv' /\ UNCHANGED <<part, engine>>
      /\ part \in Nat \ {0} /\ wal \subseteq LogFile /\ Slot' = Slot
      /\ lw \in [1 .. part -> [seq : Nat, fd : BOOLEAN, names : Names]]
  BY SameConfig, TypeStep, ShardAssumption DEF Inv, TypeInv, TypeConfig, TypeDisk, TypeLog, Slot
<1>1. ToSet(<< >>) = {} /\ IsInjective(<< >>)
  BY DEF ToSet, IsInjective
<1>3. ASSUME UNCHANGED <<wal, lw, st>>, Filled' \subseteq Filled,
             \A j \in Filled' : slot'[j].files = slot[j].files
      PROVE  SlotFilesInv'
  <2>1. \A n : File(n)' = File(n)
    BY <1>3 DEF File
  <2> QED BY <1>0, <1>3, <2>1 DEF SlotFilesInv
<1>2. CASE UNCHANGED <<slot, wal, lw, st>>
  <2>1. Filled' = Filled
    BY <1>0, <1>2 DEF Filled
  <2> QED BY <1>2, <1>3, <2>1
<1>4. ASSUME \A j \in Filled' : slot'[j].files = << >> PROVE SlotFilesInv'
  BY <1>1, <1>4 DEF SlotFilesInv
<1>5. ASSUME UNCHANGED slot, st \notin {"open"} \union Closing PROVE SlotFilesInv'
  BY <1>0, <1>4, <1>5 DEF SlotFilesInv, Filled
<1>6. \A j \in Filled : /\ j \in Slot /\ slot[j].files \in Seq(FileName)
                        /\ \A n \in ToSet(slot[j].files) : n \in FileName /\ n = <<n[1], n[2]>> /\ n[1] \in 1 .. part /\ n[2] \in Nat
  <2>1. ASSUME NEW j \in Filled PROVE j \in Slot /\ slot[j].files \in Seq(FileName)
    BY <1>0, SlotFacts DEF Filled
  <2>2. ASSUME NEW j \in Filled, NEW n \in ToSet(slot[j].files) PROVE n \in FileName
    BY <2>1, RangeOfSeq DEF ToSet, Range
  <2> QED BY <2>1, <2>2 DEF FileName
<1>7. ASSUME NEW w \in Writer, WalWrite(w) PROVE SlotFilesInv'
  <2> DEFINE p == 1 + writeReq
             r == wr[w].row
  <2>1. r \in Known /\ p \in 1 .. part /\ st = "open" /\ UNCHANGED <<key, part, engine, st, slot>>
    BY <1>0, <1>7 DEF WalWrite, Inv, WriterInv, At, Working, TypeInv, TypeLog
  <2>2. LogWrite(p, r)
    BY <1>7 DEF WalWrite
  <2> HIDE DEF p, r
  <2>3. /\ \A o \in 1 .. part : o # p => lw'[o] = lw[o]
        /\ lw'[p].seq \in {lw[p].seq, lw[p].seq + 1}
        /\ ToSet(lw'[p].names) \subseteq ToSet(lw[p].names) \union {lw[p].seq + 1}
        /\ \A g \in wal : \E f \in wal' : f.part = g.part /\ f.seq = g.seq
    BY <1>0, <2>1, <2>2, LogWriteFacts
  <2>4. ASSUME NEW n, File(n) # {} PROVE File(n)' # {}
    BY <2>3, <2>4 DEF File
  <2>5. Filled' = Filled /\ \A j \in Filled : slot'[j] = slot[j]
    BY <1>0, <2>1 DEF Filled
  <2>6. ASSUME NEW j \in Filled, NEW n \in ToSet(slot[j].files)
        PROVE  File(n)' # {} /\ n[2] <= lw'[n[1]].seq /\ n[2] \notin ToSet(lw'[n[1]].names)
    <3>1. File(n) # {} /\ n[2] <= lw[n[1]].seq /\ n[2] \notin ToSet(lw[n[1]].names)
      BY <1>0 DEF SlotFilesInv
    <3>2. n[1] \in 1 .. part /\ n[2] \in Nat /\ lw[n[1]].seq \in Nat
      BY <1>0, <1>6
    <3>3. CASE n[1] # p
      BY <2>3, <2>4, <3>1, <3>2, <3>3
    <3>4. CASE n[1] = p
      <4>1. n[2] # lw[p].seq + 1 /\ n[2] <= lw'[p].seq
        BY <2>3, <3>1, <3>2, <3>4
      <4> QED BY <2>3, <2>4, <3>1, <3>4, <4>1
    <3> QED BY <3>3, <3>4
  <2> QED BY <1>0, <2>1, <2>5, <2>6 DEF SlotFilesInv
<1>8. ASSUME NEW f \in Flusher, WriteSnapshot(f) PROVE SlotFilesInv'
  <2>1. CASE ~alive
    BY <1>2, <1>8, <2>1 DEF WriteSnapshot
  <2>2. CASE alive
    <3> DEFINE nm == [p \in 1 .. part |-> lw[p].names]
    <3>1. PICK i \in FreeSlots :
             /\ i \in Slot /\ slot[i] = Nil /\ i \notin Filled
             /\ slot'[i] \in BusySlot /\ slot'[i] # Nil /\ \A j \in Slot : j # i => slot'[j] = slot[j]
             /\ Filled' = Filled \union {i} /\ FreeSlots' = FreeSlots \ {i}
             /\ slot'[i].files \in FileOrders(nm)
             /\ lw' = [p \in 1 .. part |-> [lw[p] EXCEPT !.fd = FALSE, !.names = << >>]]
      BY <1>0, <1>8, <2>2, SnapshotFacts
    <3>2. UNCHANGED <<wal, st>>
      BY <1>8 DEF WriteSnapshot
    <3>3. nm \in [1 .. part -> Names] /\ \A p \in 1 .. part : nm[p] = lw[p].names
      BY <1>0
    <3> HIDE DEF nm
    <3>4. /\ slot'[i].files \in Seq(FileName)
          /\ ToSet(slot'[i].files) = {n \in FileName : n[2] \in ToSet(nm[n[1]])}
          /\ (\A p \in 1 .. part : IsInjective(nm[p])) => IsInjective(slot'[i].files)
      BY <1>0, <3>1, <3>3, FileOrdersFacts
    <3>5. IsInjective(slot'[i].files)
      BY <1>0, <3>3, <3>4 DEF LogInv
    <3>6. \A p \in 1 .. part : lw'[p].names = << >> /\ lw'[p].seq = lw[p].seq
      BY <1>0, <3>1
    <3>7. \A n : File(n)' = File(n)
      BY <3>2 DEF File
    <3>8. ASSUME NEW n \in ToSet(slot'[i].files)
          PROVE  /\ File(n)' # {} /\ n[2] <= lw'[n[1]].seq /\ n[2] \notin ToSet(lw'[n[1]].names)
                 /\ n[2] \in ToSet(lw[n[1]].names)
      <4>1. n \in FileName /\ n[2] \in ToSet(lw[n[1]].names) /\ n[1] \in 1 .. part /\ n = <<n[1], n[2]>>
        BY <3>3, <3>4 DEF FileName
      <4>2. n[2] <= lw[n[1]].seq /\ File(<<n[1], n[2]>>) # {}
        BY <1>0, <4>1 DEF LogInv
      <4> QED BY <1>1, <3>6, <3>7, <4>1, <4>2
    <3>9. ASSUME NEW j \in Filled
          PROVE  /\ slot'[j] = slot[j] /\ IsInjective(slot'[j].files)
                 /\ ToSet(slot'[j].files) \cap ToSet(slot'[i].files) = {}
                 /\ \A n \in ToSet(slot'[j].files) :
                      File(n)' # {} /\ n[2] <= lw'[n[1]].seq /\ n[2] \notin ToSet(lw'[n[1]].names)
      <4>1. slot'[j] = slot[j]
        BY <1>6, <3>1
      <4>2. ASSUME NEW n \in ToSet(slot[j].files)
            PROVE  /\ n \notin ToSet(slot'[i].files)
                   /\ File(n)' # {} /\ n[2] <= lw'[n[1]].seq /\ n[2] \notin ToSet(lw'[n[1]].names)
        <5>1. File(n) # {} /\ n[2] <= lw[n[1]].seq /\ n[2] \notin ToSet(lw[n[1]].names)
          BY <1>0 DEF SlotFilesInv
        <5>2. n[1] \in 1 .. part
          BY <1>6
        <5> QED BY <1>1, <3>6, <3>7, <3>8, <5>1, <5>2
      <4>3. IsInjective(slot[j].files)
        BY <1>0 DEF SlotFilesInv
      <4> QED BY <4>1, <4>2, <4>3
    <3>10. st \notin {"open"} \union Closing => slot'[i].files = << >>
      <4>1. st # "open" => \A p \in 1 .. part : ToSet(lw[p].names) = {}
        BY <1>0, <1>1 DEF LogInv
      <4>2. st # "open" => ToSet(slot'[i].files) = {}
        BY <3>3, <3>4, <4>1 DEF FileName
      <4> QED BY <3>4, <4>2, EmptyRange
    <3>11. \A j, k \in Filled : j # k => ToSet(slot'[j].files) \cap ToSet(slot'[k].files) = {}
      BY <1>0, <3>9 DEF SlotFilesInv
    <3>12. st \notin {"open"} \union Closing => \A j \in Filled : slot'[j].files = << >>
      BY <1>0, <3>9 DEF SlotFilesInv
    <3> QED BY <3>1, <3>2, <3>5, <3>8, <3>9, <3>10, <3>11, <3>12 DEF SlotFilesInv
  <2> QED BY <2>1, <2>2
<1>9. ASSUME NEW i \in Slot, RemoveWalFile(i) PROVE SlotFilesInv'
  <2> DEFINE s == slot[i].files
             h == Head(s)
  <2>1. /\ i \in Filled /\ slot'[i].files = Tail(s) /\ \A j \in Slot : j # i => slot'[j] = slot[j]
        /\ Filled' = Filled
    <3>1. UNCHANGED <<key, part, engine>>
      BY <1>9 DEF RemoveWalFile
    <3> QED BY <1>0, <1>9, <3>1, SlotKept
  <2>2. s # << >> /\ wal' = wal \ File(h) /\ UNCHANGED <<lw, st>>
    BY <1>9 DEF RemoveWalFile
  <2>3. s \in Seq(FileName) /\ IsInjective(s)
    BY <1>0, <1>6, <2>1 DEF SlotFilesInv
  <2> HIDE DEF s
  <2>4. /\ ToSet(s) = {h} \cup ToSet(Tail(s)) /\ IsInjective(Tail(s)) /\ h \notin ToSet(Tail(s))
        /\ h \in FileName
    BY <2>2, <2>3, TailRange
  <2> HIDE DEF h
  <2>5. ASSUME NEW n \in FileName, n # h, File(n) # {} PROVE File(n)' # {}
    <3>1. PICK g \in wal : g.part = n[1] /\ g.seq = n[2]
      BY <2>5 DEF File
    <3>2. n = <<n[1], n[2]>> /\ h = <<h[1], h[2]>>
      BY <2>4 DEF FileName
    <3>3. g \notin File(h)
      BY <2>5, <3>1, <3>2 DEF File
    <3> QED BY <2>2, <3>1, <3>3 DEF File
  <2>6. \A j \in Filled : j # i => slot'[j] = slot[j] /\ h \notin ToSet(slot[j].files)
    BY <1>0, <1>6, <2>1, <2>4 DEF SlotFilesInv, s
  <2>7. \A j \in Filled : ToSet(slot'[j].files) \subseteq ToSet(slot[j].files) /\ h \notin ToSet(slot'[j].files)
    BY <2>1, <2>4, <2>6 DEF s
  <2>8. \A j \in Filled : IsInjective(slot'[j].files)
    BY <1>0, <2>1, <2>4, <2>6 DEF SlotFilesInv
  <2>9. ASSUME NEW j \in Filled, NEW n \in ToSet(slot'[j].files)
        PROVE  File(n)' # {} /\ n[2] <= lw[n[1]].seq /\ n[2] \notin ToSet(lw[n[1]].names)
    <3>1. n \in ToSet(slot[j].files) /\ n # h
      BY <2>7
    <3>2. File(n) # {} /\ n[2] <= lw[n[1]].seq /\ n[2] \notin ToSet(lw[n[1]].names) /\ n \in FileName
      BY <1>0, <1>6, <3>1 DEF SlotFilesInv
    <3> QED BY <2>5, <3>1, <3>2
  <2>10. \A j, k \in Filled : j # k => ToSet(slot'[j].files) \cap ToSet(slot'[k].files) = {}
    BY <1>0, <2>7 DEF SlotFilesInv
  <2>11. st \in {"open"} \union Closing
    BY <1>0, <2>1, <2>2 DEF SlotFilesInv, s
  <2> QED BY <2>1, <2>2, <2>8, <2>9, <2>10, <2>11 DEF SlotFilesInv
<1>10. ASSUME NEW i \in Slot, IndexFlush(i) \/ FreeResource(i) \/ \E k \in Key : FlushChunks(i, k) PROVE SlotFilesInv'
  <2>1. UNCHANGED <<key, part, engine, wal, lw, st>>
    BY <1>10 DEF IndexFlush, FreeResource, FlushChunks
  <2>2. /\ i \in Filled /\ slot'[i].files = slot[i].files /\ \A j \in Slot : j # i => slot'[j] = slot[j]
        /\ Filled' = Filled
    BY <1>0, <1>10, <2>1, SlotKept
  <2> QED BY <1>3, <1>6, <2>1, <2>2
<1>11. ASSUME NEW i \in Slot, DropSnapshot(i) PROVE SlotFilesInv'
  <2>1. UNCHANGED <<key, part, engine, wal, lw, st>>
    BY <1>11 DEF DropSnapshot
  <2>2. Filled' = Filled \ {i} /\ \A j \in Slot : j # i => slot'[j] = slot[j]
    BY <1>0, <1>11, <2>1, SlotDropped
  <2> QED BY <1>3, <1>6, <2>1, <2>2
<1>12. ASSUME NEW f \in Flusher, DisableForceFlush(f) PROVE SlotFilesInv'
  <2>1. f = "replay" => st = "flush"
    BY <1>12 DEF DisableForceFlush, Inv, FlusherInv
  <2> QED BY <1>2, <1>5, <1>12, <2>1 DEF DisableForceFlush, Closing
<1>13. ASSUME Reopen PROVE SlotFilesInv'
  BY <1>5, <1>13 DEF Reopen, OpenAndEnable, ReplayRow, ReplayFails, ReplayDone, RemoveReplayed, Opened, Closing
<1>14. ASSUME CloseWal PROVE SlotFilesInv'
  <2>1. \A p \in 1 .. part : lw'[p].names = << >> /\ lw'[p].seq = lw[p].seq
    BY <1>0, <1>14 DEF CloseWal
  <2>2. UNCHANGED <<wal, slot>> /\ st' \in Closing
    BY <1>14 DEF CloseWal, Closing
  <2>3. Filled' = Filled /\ \A n : File(n)' = File(n)
    BY <1>0, <2>2 DEF Filled, File
  <2> QED BY <1>0, <1>1, <1>6, <2>1, <2>2, <2>3 DEF SlotFilesInv, Closing
<1>18. ASSUME Quiet PROVE SlotFilesInv'
  <2>1. UNCHANGED <<wal, slot, lw>> /\ st' \in Closing
    BY <1>18, QuietFacts
  <2>2. Filled' = Filled /\ \A n : File(n)' = File(n)
    BY <1>0, <2>1 DEF Filled, File
  <2> QED BY <1>0, <2>1, <2>2 DEF SlotFilesInv, Closing
<1>15. ASSUME Reload \/ Crash PROVE SlotFilesInv'
  <2>1. Filled' = {}
    BY <1>0, <1>15 DEF Reload, Crash, Filled
  <2> QED BY <2>1 DEF SlotFilesInv
<1>16. ASSUME NEW w \in Writer, Write(w) PROVE SlotFilesInv'
  BY <1>2, <1>7, <1>16 DEF Write, WriteRows, WriteLock, WriteIndex, WriteLacks, WriteTable,
       WriteTableFails, WriteAck, WriteNack, WriteLate
<1>17. ASSUME Flush PROVE SlotFilesInv'
  BY <1>2, <1>8, <1>9, <1>10, <1>11, <1>12, <1>17 DEF Flush, WaitStorage, WaitSnapshot
<1> QED BY <1>2, <1>13, <1>14, <1>15, <1>16, <1>17, <1>18
        DEF Next, vars, Tick, ForceFlush, Close, CloseBegin, CloseMem, Quiet

-----------------------------------------------------------------------------
(* What the log files are covered by.                                      *)

\* Only the log write of a row makes the shard owe it.
LEMMA OwedWal ==
    ASSUME TypeRun, NEW w \in Writer, WalWrite(w)
    PROVE  Owed' = IF wr[w].idx THEN Owed \union {wr[w].row} ELSE Owed
<1>1. /\ wr[w].pc = "wal" /\ wr'[w].pc = (IF wr[w].idx THEN "ack" ELSE "nack") /\ wr'[w].row = wr[w].row
      /\ \A v \in Writer : v # w => wr'[v] = wr[v]
      /\ acked' = acked
  BY DEF WalWrite, At, Goto, TypeRun
<1> QED BY <1>1 DEF Owed, At

\* The other steps of a write.
LEMMA OwedWrite ==
    ASSUME TypeRun, NEW w \in Writer, Write(w), ~WalWrite(w)
    PROVE  Owed' \subseteq Owed
<1>1. CASE WriteAck(w)
  <2>1. /\ wr'[w].pc = "idle" /\ wr[w].pc = "ack" /\ acked' = acked \union {wr[w].row}
        /\ \A v \in Writer : v # w => wr'[v] = wr[v]
    BY <1>1 DEF WriteAck, At, Idle, TypeRun
  <2> QED BY <2>1 DEF Owed, At
<1>2. CASE ~WriteAck(w)
  <2>1. acked' = acked
    BY <1>2 DEF Write, WriteRows, WriteLock, WriteIndex, WriteLacks, WriteTable,
     WriteTableFails, WriteNack, WriteLate
  <2>2. wr'[w].pc # "ack" /\ \A v \in Writer : v # w => wr'[v] = wr[v]
    BY <1>2 DEF Write, WriteRows, WriteLock, WriteIndex, WriteLacks, WriteTable,
     WriteTableFails, WriteNack, WriteLate, Goto, Idle, TypeRun
  <2> QED BY <2>1, <2>2 DEF Owed, At
<1> QED BY <1>1, <1>2

\* Steps of others; a crash and Close leave no write behind.
LEMMA OwedOther ==
    ASSUME TypeRun, UNCHANGED <<acked, wr>> \/ CloseWal \/ Crash
    PROVE  Owed' \subseteq Owed
<1>1. CASE UNCHANGED <<acked, wr>>
  BY <1>1 DEF Owed, At
<1>2. CASE CloseWal
  <2>1. \A w \in Writer : wr'[w] = IF At(w, "checked") THEN [wr[w] EXCEPT !.pc = "late"] ELSE wr[w]
    BY <1>2 DEF CloseWal
  <2>2. \A w \in Writer : wr'[w].pc = "ack" => wr'[w] = wr[w]
    BY <2>1 DEF TypeRun
  <2>3. acked' = acked
    BY <1>2 DEF CloseWal
  <2> QED BY <2>2, <2>3 DEF Owed, At
<1>3. CASE Crash
  BY <1>3 DEF Crash, Idle, Owed, At
<1> QED BY <1>1, <1>2, <1>3

\* What holds when a row is written to the log.
LEMMA WalWriteGuard ==
    ASSUME Inv, NEW w \in Writer, WalWrite(w)
    PROVE  /\ wr[w].row \in Known /\ 1 + writeReq \in 1 .. part /\ st = "open"
           /\ UNCHANGED <<key, part, engine, active, slot, st>>
           /\ wr[w].row \notin LogRows \union acked /\ (wr[w].idx => wr[w].row \in Rows(active))
           /\ \A v \in Writer : At(v, "ack") => wr[v].row # wr[w].row
<1>1. writeReq \in 0 .. part - 1 /\ part \in Nat
  BY ShardAssumption DEF Inv, TypeInv, TypeLog, TypeConfig
<1>2. wr[w].pc = "wal" /\ UNCHANGED <<key, part, engine, active, slot, st>>
  BY DEF WalWrite, At
<1>3. wr[w].row \in Known /\ st = "open" /\ wr[w].row \notin LogRows \union acked
  BY <1>2 DEF Inv, WriterInv, Working, Fresh
<1>4. wr[w].idx => wr[w].row \in Rows(active)
  BY <1>2 DEF Inv, WriterInv, At
<1>5. \A v \in Writer : At(v, "ack") => wr[v].row # wr[w].row
  BY <1>2 DEF Inv, WriterInv, At, Working
<1> QED BY <1>1, <1>2, <1>3, <1>4, <1>5

\* The rows of a named file are in the active table.
LEMMA NamedCoverStep == Inv /\ [Next]_vars => NamedCover'
<1> SUFFICES ASSUME Inv, [Next]_vars PROVE NamedCover'
  OBVIOUS
<1>0. /\ TypeInv /\ TypeRun /\ TypeTables /\ LogInv /\ NamedCover /\ UNCHANGED <<part, engine>>
      /\ wal \subseteq LogFile
      /\ lw \in [1 .. part -> [seq : Nat, fd : BOOLEAN, names : Names]]
      /\ TypeInv' /\ wal' \subseteq LogFile' /\ LogFile' = [part : 1 .. part, seq : Nat \ {0}, rows : Seq(Known)']
  BY SameConfig, TypeStep DEF Inv, TypeInv, TypeDisk, TypeLog, LogFile
<1>1. ToSet(<< >>) = {}
  BY DEF ToSet
<1>2. ASSUME Owed' \subseteq Owed, wal' \subseteq wal, lw' = lw, Rows(active) \subseteq Rows(active)'
      PROVE  NamedCover'
  BY <1>0, <1>2 DEF NamedCover
<1>3. ASSUME \A p \in 1 .. part : lw'[p].names = << >> PROVE NamedCover'
  BY <1>0, <1>1, <1>3 DEF NamedCover
<1>4. CASE UNCHANGED <<wal, lw, active>> /\ Owed' \subseteq Owed
  BY <1>2, <1>4 DEF Rows
<1>5. ASSUME NEW w \in Writer, WalWrite(w) PROVE NamedCover'
  <2> DEFINE p == 1 + writeReq
             r == wr[w].row
  <2>1. /\ r \in Known /\ p \in 1 .. part /\ st = "open" /\ UNCHANGED <<key, part, engine, active>>
        /\ r \notin LogRows \union acked /\ (wr[w].idx => r \in Rows(active))
        /\ \A v \in Writer : At(v, "ack") => wr[v].row # r
    BY <1>0, <1>5, WalWriteGuard
  <2>2. LogWrite(p, r) /\ Rows(active)' = Rows(active)
    BY <1>5, <2>1 DEF WalWrite, Rows
  <2>3. Owed' = IF wr[w].idx THEN Owed \union {r} ELSE Owed
    BY <1>0, <1>5, OwedWal
  <2>4. r \notin Owed
    BY <2>1 DEF Owed, At
  <2> HIDE DEF p, r
  <2>5. \A x : x \in Owed' => x \in Owed \/ (x = r /\ r \in Rows(active))
    BY <2>1, <2>3
  <2>6. /\ \A o \in 1 .. part : o # p => lw'[o] = lw[o]
        /\ lw'[p].seq \in {lw[p].seq, lw[p].seq + 1} /\ lw'[p].seq \in ToSet(lw'[p].names)
        /\ \/ ToSet(lw'[p].names) = ToSet(lw[p].names)
           \/ /\ lw'[p].seq = lw[p].seq + 1
              /\ ToSet(lw'[p].names) = ToSet(lw[p].names) \union {lw[p].seq + 1}
        /\ OnlyAdded(p, r)
    BY <1>0, <2>1, <2>2, LogWriteFacts
  <2>7. ASSUME NEW g \in wal, g.seq \in ToSet(lw'[g.part].names) PROVE g.seq \in ToSet(lw[g.part].names)
    <3>1. g.part \in 1 .. part /\ g.seq \in Nat /\ g.seq <= lw[g.part].seq /\ lw[g.part].seq \in Nat
      BY <1>0, <2>1 DEF LogInv, LogFile
    <3>2. g.seq # lw[g.part].seq + 1
      BY <3>1
    <3> QED BY <2>6, <2>7, <3>1, <3>2
  <2>8. ASSUME NEW f \in wal', f.seq \in ToSet(lw'[f.part].names),
               NEW x \in ToSet(f.rows), x \in Owed'
        PROVE  x \in Rows(active)
    <3>1. CASE f \in wal
      BY <1>0, <2>5, <2>7, <2>8, <3>1 DEF NamedCover
    <3>2. ASSUME NEW g \in wal, f.part = p, g.part = p, g.seq = f.seq, ToSet(f.rows) = ToSet(g.rows) \union {r}
          PROVE  x \in Rows(active)
      BY <1>0, <2>4, <2>5, <2>7, <2>8, <3>2 DEF NamedCover
    <3>3. CASE ToSet(f.rows) = {r}
      BY <2>4, <2>5, <2>8, <3>3
    <3> QED BY <2>6, <3>1, <3>2, <3>3 DEF OnlyAdded
  <2> QED BY <2>2, <2>8 DEF NamedCover
<1>6. ASSUME NEW w \in Writer, Write(w), ~WalWrite(w) PROVE NamedCover'
  <2>1. Owed' \subseteq Owed
    BY <1>0, <1>6, OwedWrite
  <2>2. CASE WriteTable(w) /\ TableTakes(wr[w].idx)
    <3>1. wr[w].row \in Known /\ active \in Table /\ key \in Seq(Key)
      BY <1>0, <2>2 DEF Inv, WriterInv, WriteTable, At, Working, TypeInv, TypeTables, TypeHist
    <3>2. Rows(AddRow(active, wr[w].row)) = Rows(active) \union {wr[w].row}
      BY <3>1, AddRowFacts
    <3>3. Rows(active)' = Rows(AddRow(active, wr[w].row)) /\ UNCHANGED <<wal, lw>>
      BY <2>2 DEF WriteTable, Rows
    <3> QED BY <1>2, <2>1, <3>2, <3>3
  <2>3. CASE ~(WriteTable(w) /\ TableTakes(wr[w].idx))
    <3>1. UNCHANGED <<wal, lw, active>>
      BY <1>6, <2>3 DEF Write, WriteRows, WriteLock, WriteIndex, WriteLacks, WriteTable,
       WriteTableFails, WriteAck, WriteNack, WriteLate
    <3> QED BY <1>4, <2>1, <3>1
  <2> QED BY <2>2, <2>3
<1>7. ASSUME Flush PROVE NamedCover'
  <2>0. Owed' \subseteq Owed
    <3>1. UNCHANGED <<acked, wr>>
      BY <1>7 DEF Flush, WaitStorage, WaitSnapshot, WriteSnapshot, DisableForceFlush,
           IndexFlush, FlushChunks, FreeResource, RemoveWalFile, DropSnapshot
    <3> QED BY <1>0, <3>1, OwedOther
  <2>1. ASSUME NEW f \in Flusher, WriteSnapshot(f) PROVE NamedCover'
    <3>1. CASE ~alive
      BY <1>4, <2>0, <2>1, <3>1 DEF WriteSnapshot
    <3>2. CASE alive
      <4>1. lw' = [p \in 1 .. part |-> [lw[p] EXCEPT !.fd = FALSE, !.names = << >>]]
        BY <1>0, <2>1, <3>2, SnapshotFacts
      <4>2. \A p \in 1 .. part : lw'[p].names = << >>
        BY <1>0, <4>1
      <4> QED BY <1>3, <4>2
    <3> QED BY <3>1, <3>2
  <2>2. ASSUME NEW i \in Slot, RemoveWalFile(i) PROVE NamedCover'
    <3>1. wal' \subseteq wal /\ UNCHANGED <<lw, active>>
      BY <2>2 DEF RemoveWalFile
    <3> QED BY <1>2, <2>0, <3>1 DEF Rows
  <2> QED BY <1>4, <1>7, <2>0, <2>1, <2>2 DEF Flush, WaitStorage, WaitSnapshot, DisableForceFlush,
        IndexFlush, FlushChunks, FreeResource, DropSnapshot
<1>8. ASSUME st # "open", UNCHANGED lw PROVE NamedCover'
  BY <1>0, <1>3, <1>8 DEF LogInv
<1>9. ASSUME OpenAndEnable PROVE NamedCover'
  <2>1. st # "open" /\ lw' = [p \in 1 .. part |->
                    [lw[p] EXCEPT !.seq = IF FilesOf(p) = << >> THEN @ ELSE Last(FilesOf(p))]]
    BY <1>9 DEF OpenAndEnable, RestoreLogs
  <2>2. \A p \in 1 .. part : lw'[p].names = << >>
    BY <1>0, <2>1 DEF LogInv
  <2> QED BY <1>3, <2>2
<1>10. ASSUME Reopen PROVE NamedCover'
  BY <1>8, <1>9, <1>10 DEF Reopen, ReplayRow, ReplayFails, ReplayDone, RemoveReplayed, Opened
<1>11. ASSUME CloseWal PROVE NamedCover'
  <2>1. \A p \in 1 .. part : lw'[p].names = << >>
    BY <1>0, <1>11 DEF CloseWal
  <2> QED BY <1>3, <2>1
<1>12. ASSUME CloseMem PROVE NamedCover'
  BY <1>8, <1>12 DEF CloseMem
<1>13. ASSUME Reload \/ Crash PROVE NamedCover'
  <2>1. lw' = [p \in 1 .. part |-> NoWriter]
    BY <1>13 DEF Reload, Crash, NewShard
  <2>2. \A p \in 1 .. part : lw'[p].names = << >>
    BY <2>1 DEF NoWriter
  <2> QED BY <1>3, <2>2
<1>14. ASSUME UNCHANGED <<wal, lw, active, acked, wr>> PROVE NamedCover'
  BY <1>4, <1>14 DEF Owed, At
<1>15. ASSUME Quiet PROVE NamedCover'
  BY <1>14, <1>15, QuietFacts
<1> QED BY <1>5, <1>6, <1>7, <1>10, <1>11, <1>12, <1>13, <1>14, <1>15
        DEF Next, vars, Tick, ForceFlush, Close, CloseBegin, Quiet

\* The rows of a file to remove are in the table that is flushed.
LEMMA SlotCoverStep == Inv /\ [Next]_vars => SlotCover'
<1> SUFFICES ASSUME Inv, [Next]_vars PROVE SlotCover'
  OBVIOUS
<1>0. /\ TypeInv /\ TypeRun /\ TypeTables /\ LogInv /\ SlotCover /\ UNCHANGED <<part, engine>>
      /\ wal \subseteq LogFile /\ Slot' = Slot /\ TypeInv'
  BY SameConfig, TypeStep DEF Inv, TypeInv, TypeDisk, Slot
<1>1. ToSet(<< >>) = {}
  BY DEF ToSet
<1>2. \A j \in Filled : j \in Slot /\ slot[j] \in BusySlot /\ slot[j].left \subseteq Key
                        /\ slot[j].files \in Seq(FileName) /\ slot[j].tbl \in Table
  BY <1>0, SlotFacts DEF Filled
<1>3. ASSUME Owed' \subseteq Owed, wal' \subseteq wal, Filled' \subseteq Filled,
             \A k \in Key : ToSet(tssp[k]) \subseteq ToSet(tssp'[k]),
             \A j \in Filled' : /\ ToSet(slot'[j].files) \subseteq ToSet(slot[j].files)
                                /\ slot'[j].tbl = slot[j].tbl /\ slot'[j].left = slot[j].left
                                /\ slot'[j].stage = "remove" => slot[j].left = {}
      PROVE  SlotCover'
  <2>1. ASSUME NEW j \in Filled', NEW g \in wal', <<g.part, g.seq>> \in ToSet(slot'[j].files)
        PROVE  ToSet(g.rows) \cap Owed' \subseteq Rows(slot'[j].tbl)
    BY <1>0, <1>3, <2>1 DEF SlotCover
  <2>2. ASSUME NEW j \in Filled', NEW k \in Key \ slot'[j].left
        PROVE  ToSet(slot'[j].tbl[k]) \subseteq ToSet(tssp'[k])
    BY <1>0, <1>3, <2>2 DEF SlotCover
  <2>3. \A j \in Filled' : slot'[j].stage = "remove" => slot'[j].left = {}
    BY <1>3
  <2>4. \A j : Rows(slot[j].tbl)' = Rows(slot'[j].tbl)
    BY DEF Rows
  <2> QED BY <2>1, <2>2, <2>3, <2>4 DEF SlotCover
<1>4. ASSUME Owed' \subseteq Owed, wal' \subseteq wal, UNCHANGED <<slot, tssp>> PROVE SlotCover'
  <2>1. Filled' = Filled
    BY <1>0, <1>4 DEF Filled
  <2> QED BY <1>0, <1>3, <1>4, <2>1 DEF SlotCover
<1>5. ASSUME Filled' = {} PROVE SlotCover'
  BY <1>5 DEF SlotCover
<1>6. ASSUME NEW w \in Writer, WalWrite(w) PROVE SlotCover'
  <2> DEFINE p == 1 + writeReq
             r == wr[w].row
  <2>1. /\ r \in Known /\ p \in 1 .. part /\ st = "open" /\ UNCHANGED <<key, part, engine, slot>>
        /\ r \notin LogRows
    BY <1>6, WalWriteGuard
  <2>2. LogWrite(p, r) /\ tssp' = tssp
    BY <1>6 DEF WalWrite
  <2>3. Owed' \subseteq Owed \union {r}
    BY <1>0, <1>6, OwedWal
  <2> HIDE DEF p, r
  <2>4. lw'[p].seq \in ToSet(lw'[p].names) /\ OnlyAdded(p, r)
    BY <1>0, <2>1, <2>2, LogWriteFacts
  <2>5. Filled' = Filled /\ SlotFilesInv'
    BY <1>0, <2>1, SlotFilesStep DEF Filled
  <2>6. ASSUME NEW j \in Filled, NEW g \in wal', <<g.part, g.seq>> \in ToSet(slot'[j].files)
        PROVE  ToSet(g.rows) \cap Owed' \subseteq Rows(slot[j].tbl)
    <3>1. g.seq \notin ToSet(lw'[g.part].names)
      <4>1. \A n \in ToSet(slot'[j].files) : n[2] \notin ToSet(lw'[n[1]].names)
        BY <2>5 DEF SlotFilesInv
      <4>2. <<g.part, g.seq>>[2] \notin ToSet(lw'[<<g.part, g.seq>>[1]].names)
        BY <2>6, <4>1
      <4> QED BY <4>2
    <3>2. g \in wal
      BY <2>4, <3>1 DEF OnlyAdded
    <3>3. r \notin ToSet(g.rows)
      BY <1>0, <2>1, <3>2, KnownRows
    <3>4. ToSet(g.rows) \cap Owed \subseteq Rows(slot[j].tbl)
      BY <1>0, <2>1, <2>6, <3>2 DEF SlotCover
    <3> QED BY <2>3, <3>3, <3>4
  <2>7. \A j : Rows(slot[j].tbl)' = Rows(slot[j].tbl)
    BY <2>1 DEF Rows
  <2> QED BY <1>0, <2>1, <2>2, <2>5, <2>6, <2>7 DEF SlotCover
<1>7. ASSUME NEW w \in Writer, Write(w) PROVE SlotCover'
  <2>1. CASE ~WalWrite(w)
    <3>1. Owed' \subseteq Owed
      BY <1>0, <1>7, <2>1, OwedWrite
    <3>2. UNCHANGED <<wal, slot, tssp>>
      BY <1>7, <2>1 DEF Write, WriteRows, WriteLock, WriteIndex, WriteLacks, WriteTable,
           WriteTableFails, WriteAck, WriteNack, WriteLate
    <3> QED BY <1>4, <3>1, <3>2
  <2> QED BY <1>6, <2>1
<1>8. ASSUME UNCHANGED <<wal, slot, tssp, acked, wr>> PROVE SlotCover'
  BY <1>0, <1>4, <1>8, OwedOther
<1>9. ASSUME NEW f \in Flusher, WriteSnapshot(f) PROVE SlotCover'
  <2>1. CASE ~alive
    BY <1>8, <1>9, <2>1 DEF WriteSnapshot
  <2>2. CASE alive
    <3> DEFINE nm == [p \in 1 .. part |-> lw[p].names]
    <3>1. PICK i \in FreeSlots :
             /\ i \in Slot /\ i \notin Filled /\ \A j \in Slot : j # i => slot'[j] = slot[j]
             /\ Filled' = Filled \union {i}
             /\ slot'[i].stage = "index" /\ slot'[i].tbl = active
             /\ slot'[i].left = {k \in Key : active[k] # << >>}
             /\ slot'[i].files \in FileOrders(nm)
      BY <1>0, <1>9, <2>2, SnapshotFacts
    <3>2. UNCHANGED <<wal, tssp, acked, wr>>
      BY <1>9 DEF WriteSnapshot
    <3>3. nm \in [1 .. part -> Names] /\ part \in Nat /\ \A p \in 1 .. part : nm[p] = lw[p].names
      BY <1>0, ShardAssumption DEF TypeInv, TypeLog, TypeConfig
    <3> HIDE DEF nm
    <3>4. ToSet(slot'[i].files) = {n \in FileName : n[2] \in ToSet(nm[n[1]])}
      BY <3>1, <3>3, FileOrdersFacts
    <3>5. Owed' \subseteq Owed
      BY <1>0, <3>2, OwedOther
    <3>6. ASSUME NEW g \in wal, <<g.part, g.seq>> \in ToSet(slot'[i].files)
          PROVE  ToSet(g.rows) \cap Owed' \subseteq Rows(active)
      <4>1. g.part \in 1 .. part /\ g.seq \in ToSet(lw[g.part].names)
        BY <1>0, <3>3, <3>4, <3>6 DEF LogFile
      <4> QED BY <3>5, <4>1 DEF Inv, NamedCover
    <3>7. \A k \in Key \ slot'[i].left : ToSet(slot'[i].tbl[k]) = {}
      BY <1>1, <3>1
    <3>8. \A j \in Filled : slot'[j] = slot[j]
      BY <1>2, <3>1
    <3>10. ASSUME NEW j \in Filled', NEW g \in wal', <<g.part, g.seq>> \in ToSet(slot'[j].files)
           PROVE  ToSet(g.rows) \cap Owed' \subseteq Rows(slot'[j].tbl)
      <4>1. CASE j = i
        BY <3>1, <3>2, <3>6, <3>10, <4>1
      <4>2. CASE j \in Filled
        BY <1>0, <3>2, <3>5, <3>8, <3>10, <4>2 DEF SlotCover
      <4> QED BY <3>1, <4>1, <4>2
    <3>11. ASSUME NEW j \in Filled', NEW k \in Key \ slot'[j].left
           PROVE  ToSet(slot'[j].tbl[k]) \subseteq ToSet(tssp'[k])
      <4>1. CASE j = i
        BY <3>7, <3>11, <4>1
      <4>2. CASE j \in Filled
        BY <1>0, <3>2, <3>8, <3>11, <4>2 DEF SlotCover
      <4> QED BY <3>1, <4>1, <4>2
    <3>12. \A j \in Filled' : slot'[j].stage = "remove" => slot'[j].left = {}
      BY <1>0, <3>1, <3>8 DEF SlotCover
    <3>13. \A j : Rows(slot[j].tbl)' = Rows(slot'[j].tbl)
      BY DEF Rows
    <3> QED BY <3>10, <3>11, <3>12, <3>13 DEF SlotCover
  <2> QED BY <2>1, <2>2
<1>10. ASSUME NEW i \in Slot, IndexFlush(i) \/ FreeResource(i) \/ RemoveWalFile(i) PROVE SlotCover'
  <2>1. UNCHANGED <<key, part, engine, tssp, acked, wr>> /\ wal' \subseteq wal
    BY <1>10 DEF IndexFlush, FreeResource, RemoveWalFile
  <2>2. /\ i \in Filled /\ \A j \in Slot : j # i => slot'[j] = slot[j]
        /\ Filled' = Filled /\ slot'[i].left = slot[i].left /\ slot'[i].tbl = slot[i].tbl
    BY <1>0, <1>10, <2>1, SlotKept
  <2>3. ToSet(slot'[i].files) \subseteq ToSet(slot[i].files)
    <3>1. CASE RemoveWalFile(i)
      <4>1. slot'[i].files = Tail(slot[i].files) /\ slot[i].files # << >>
        BY <1>0, <2>1, <3>1, SlotKept DEF RemoveWalFile
      <4> QED BY <1>2, <2>2, <4>1, TailRange
    <3>2. CASE IndexFlush(i) \/ FreeResource(i)
      BY <1>0, <2>1, <3>2, SlotKept
    <3> QED BY <1>10, <3>1, <3>2
  <2>4. slot'[i].stage = "remove" => slot[i].left = {}
    <3>1. CASE IndexFlush(i)
      BY <1>0, <2>1, <3>1, SlotKept
    <3>2. CASE FreeResource(i)
      BY <3>2 DEF FreeResource
    <3>3. CASE RemoveWalFile(i)
      BY <1>0, <2>2, <3>3 DEF RemoveWalFile, SlotCover
    <3> QED BY <1>10, <3>1, <3>2, <3>3
  <2>5. Owed' \subseteq Owed
    BY <1>0, <2>1, OwedOther
  <2>6. \A j \in Filled : j # i => slot'[j] = slot[j] /\ (slot[j].stage = "remove" => slot[j].left = {})
    BY <1>0, <1>2, <2>2 DEF SlotCover
  <2> QED BY <1>3, <2>1, <2>2, <2>3, <2>4, <2>5, <2>6
<1>11. ASSUME NEW i \in Slot, NEW k \in Key, FlushChunks(i, k) PROVE SlotCover'
  <2>1. UNCHANGED <<key, part, engine, wal, acked, wr>> /\ tssp' = [tssp EXCEPT ![k] = @ \o slot[i].tbl[k]]
    BY <1>11 DEF FlushChunks
  <2>2. /\ i \in Filled /\ \A j \in Slot : j # i => slot'[j] = slot[j]
        /\ Filled' = Filled /\ slot'[i].left = slot[i].left \ {k} /\ slot'[i].tbl = slot[i].tbl
        /\ slot'[i].files = slot[i].files /\ slot'[i].stage = "chunks"
    BY <1>0, <1>11, <2>1, SlotKept
  <2>3. /\ \A j \in Key : ToSet(tssp[j]) \subseteq ToSet(tssp'[j])
        /\ ToSet(slot[i].tbl[k]) \subseteq ToSet(tssp'[k])
    BY <1>0, <1>2, <2>1, <2>2, FlushedFacts DEF TypeInv, TypeDisk
  <2>4. Owed' \subseteq Owed
    BY <1>0, <2>1, OwedOther
  <2>5. \A j \in Filled : slot'[j].tbl = slot[j].tbl /\ slot'[j].files = slot[j].files /\ (j # i => slot'[j] = slot[j])
    BY <1>2, <2>2
  <2>6. ASSUME NEW j \in Filled, NEW g \in wal', <<g.part, g.seq>> \in ToSet(slot'[j].files)
        PROVE  ToSet(g.rows) \cap Owed' \subseteq Rows(slot'[j].tbl)
    BY <1>0, <2>1, <2>4, <2>5, <2>6 DEF SlotCover
  <2>7. ASSUME NEW j \in Filled, NEW l \in Key \ slot'[j].left
        PROVE  ToSet(slot'[j].tbl[l]) \subseteq ToSet(tssp'[l])
    <3>1. CASE l \notin slot[j].left
      BY <1>0, <2>3, <2>5, <3>1 DEF SlotCover
    <3>2. CASE l \in slot[j].left
      <4>1. j = i /\ l = k
        BY <2>2, <2>5, <2>7, <3>2
      <4> QED BY <2>2, <2>3, <4>1
    <3> QED BY <3>1, <3>2
  <2>8. \A j \in Filled : slot'[j].stage = "remove" => slot'[j].left = {}
    BY <1>0, <2>2, <2>5 DEF SlotCover
  <2>9. \A j : Rows(slot[j].tbl)' = Rows(slot'[j].tbl)
    BY DEF Rows
  <2> QED BY <2>2, <2>6, <2>7, <2>8, <2>9 DEF SlotCover
<1>12. ASSUME NEW i \in Slot, DropSnapshot(i) PROVE SlotCover'
  <2>1. UNCHANGED <<key, part, engine, wal, tssp, acked, wr>>
    BY <1>12 DEF DropSnapshot
  <2>2. Filled' = Filled \ {i} /\ \A j \in Slot : j # i => slot'[j] = slot[j]
    BY <1>0, <1>12, <2>1, SlotDropped
  <2>3. \A j \in Filled' : j \in Filled /\ slot'[j] = slot[j] /\ (slot[j].stage = "remove" => slot[j].left = {})
    BY <1>0, <1>2, <2>2 DEF SlotCover
  <2>4. Owed' \subseteq Owed
    BY <1>0, <2>1, OwedOther
  <2> QED BY <1>3, <2>1, <2>2, <2>3, <2>4
<1>13. ASSUME Flush PROVE SlotCover'
  BY <1>8, <1>9, <1>10, <1>11, <1>12, <1>13 DEF Flush, WaitStorage, WaitSnapshot, DisableForceFlush
<1>14. ASSUME RemoveReplayed PROVE SlotCover'
  <2>1. wal' \subseteq wal /\ UNCHANGED <<slot, tssp, acked, wr>>
    BY <1>14 DEF RemoveReplayed
  <2> QED BY <1>0, <1>4, <2>1, OwedOther
<1>15. ASSUME Reopen PROVE SlotCover'
  BY <1>8, <1>14, <1>15 DEF Reopen, OpenAndEnable, ReplayRow, ReplayFails, ReplayDone, Opened
<1>16. ASSUME CloseWal PROVE SlotCover'
  <2>1. UNCHANGED <<wal, slot, tssp>>
    BY <1>16 DEF CloseWal
  <2> QED BY <1>0, <1>4, <1>16, <2>1, OwedOther
<1>17. ASSUME Reload \/ Crash PROVE SlotCover'
  BY <1>0, <1>5, <1>17 DEF Reload, Crash, Filled
<1>18. ASSUME Quiet PROVE SlotCover'
  BY <1>8, <1>18, QuietFacts
<1> QED BY <1>7, <1>8, <1>13, <1>15, <1>16, <1>17, <1>18
        DEF Next, vars, Tick, ForceFlush, Close, CloseBegin, CloseMem, Quiet

-----------------------------------------------------------------------------
(* The index.                                                              *)

\* A series enters the index before its rows enter a table or a file.
LEMMA IndexStep == Inv /\ [Next]_vars => IndexInv'
<1> SUFFICES ASSUME Inv, [Next]_vars, engine = "ts" PROVE Indexing'
  BY SameConfig DEF IndexInv
<1>0. /\ TypeInv /\ TypeRun /\ TypeTables /\ Indexing /\ UNCHANGED <<part, engine>>
      /\ Slot' = Slot /\ key \in Seq(Key) /\ active \in Table /\ tssp \in Table
  BY SameConfig DEF Inv, IndexInv, TypeInv, Slot, TypeHist, TypeTables, TypeDisk
<1>1. \A j \in Filled : j \in Slot /\ slot[j] \in BusySlot
  BY <1>0, SlotFacts DEF Filled
<1>2. ASSUME UNCHANGED <<key, tssp>>, idxDisk \subseteq idxDisk', idxMem \subseteq idxMem',
             \A k \in Key : active'[k] # << >> => active[k] # << >> \/ k \in idxMem',
             Filled' \subseteq Filled,
             \A j \in Filled' : /\ slot'[j].left \subseteq slot[j].left
                                /\ slot'[j].stage # "index" => slot[j].stage # "index" \/ slot'[j].left \subseteq idxDisk',
             \A w \in Writer : wr'[w].pc = "mem" /\ wr'[w].idx => wr'[w] = wr[w] \/ key[wr'[w].row] \in idxMem'
      PROVE  Indexing'
  <2>1. \A k \in Key : active'[k] # << >> => k \in idxMem'
    BY <1>0, <1>2 DEF Indexing
  <2>2. \A j \in Filled' : /\ slot'[j].left \subseteq idxMem'
                           /\ slot'[j].stage # "index" => slot'[j].left \subseteq idxDisk'
    BY <1>0, <1>2 DEF Indexing
  <2>3. \A w \in Writer : wr'[w].pc = "mem" /\ wr'[w].idx => key'[wr'[w].row] \in idxMem'
    BY <1>0, <1>2 DEF Indexing, At
  <2>4. FilesIndexed'
    BY <1>0, <1>2 DEF Indexing, FilesIndexed
  <2> QED BY <2>1, <2>2, <2>3, <2>4 DEF Indexing, At
<1>3. ASSUME UNCHANGED <<key, tssp, idxDisk, idxMem, active, slot>>,
             \A w \in Writer : wr'[w].pc = "mem" => wr'[w] = wr[w]
      PROVE  Indexing'
  <2>1. Filled' = Filled
    BY <1>0, <1>3 DEF Filled
  <2> QED BY <1>2, <1>3, <2>1
<1>4. ASSUME UNCHANGED <<key, tssp, idxDisk, idxMem, active, slot, wr>> PROVE Indexing'
  BY <1>3, <1>4
<1>5. ASSUME NEW w \in Writer, NEW k \in Key, WriteRows(w, k) PROVE Indexing'
  <2>1. /\ wr'[w].pc = "checked" /\ \A v \in Writer : v # w => wr'[v] = wr[v]
        /\ key' = Append(key, k) /\ UNCHANGED <<tssp, idxDisk, idxMem, active, slot>>
    BY <1>0, <1>5 DEF WriteRows, TypeRun
  <2>2. \A r \in Known : key'[r] = key[r]
    <3>1. Len(key) \in Nat /\ \A i \in 1 .. Len(key) : Append(key, k)[i] = key[i]
      BY <1>0, AppendProperties, LenProperties
    <3> QED BY <2>1, <3>1 DEF Known
  <2>3. \A v \in Writer : wr[v].pc = "mem" => wr[v].row \in Known
    BY DEF Inv, WriterInv, Working
  <2>4. Filled' = Filled
    BY <1>0, <2>1 DEF Filled
  <2>5. \A v \in Writer : wr'[v].pc = "mem" /\ wr'[v].idx => key'[wr'[v].row] \in idxMem'
    <3> SUFFICES ASSUME NEW v \in Writer, wr'[v].pc = "mem", wr'[v].idx PROVE key'[wr'[v].row] \in idxMem'
      OBVIOUS
    <3>1. v # w /\ wr'[v] = wr[v]
      BY <2>1
    <3>2. key[wr[v].row] \in idxMem
      BY <1>0, <3>1 DEF Indexing, At
    <3> QED BY <2>1, <2>2, <2>3, <3>1, <3>2
  <2>6. (\A j \in Key : active'[j] # << >> => j \in idxMem') /\ FilesIndexed'
    BY <1>0, <2>1 DEF Indexing, FilesIndexed
  <2>7. \A i \in Filled' : /\ slot'[i].left \subseteq idxMem'
                           /\ slot'[i].stage # "index" => slot'[i].left \subseteq idxDisk'
    BY <1>0, <2>1, <2>4 DEF Indexing
  <2> QED BY <2>5, <2>6, <2>7 DEF Indexing, At
<1>6. ASSUME NEW w \in Writer, NEW ok \in BOOLEAN, WriteIndex(w, ok) PROVE Indexing'
  <2>1. /\ wr'[w].row = wr[w].row /\ wr'[w].idx = ok /\ \A v \in Writer : v # w => wr'[v] = wr[v]
        /\ idxMem' = (IF ok THEN idxMem \union {key[wr[w].row]} ELSE idxMem)
        /\ UNCHANGED <<key, tssp, idxDisk, active, slot>>
    BY <1>0, <1>6 DEF WriteIndex, Indexed, TypeRun
  <2>2. Filled' = Filled
    BY <1>0, <2>1 DEF Filled
  <2> QED BY <1>2, <2>1, <2>2
<1>7. ASSUME NEW w \in Writer, WriteTable(w) PROVE Indexing'
  <2>1. /\ wr[w].pc = "mem" /\ wr'[w].pc = "wal" /\ \A v \in Writer : v # w => wr'[v] = wr[v]
        /\ active' = (IF wr[w].idx THEN AddRow(active, wr[w].row) ELSE active)
        /\ UNCHANGED <<key, tssp, idxDisk, idxMem, slot>>
    BY <1>0, <1>7 DEF WriteTable, TableTakes, At, Goto, TypeRun
  <2>2. wr[w].row \in Known
    BY <2>1 DEF Inv, WriterInv, Working
  <2>3. \A k \in Key : active'[k] # << >> => active[k] # << >> \/ k \in idxMem
    <3>1. CASE wr[w].idx
      <4>1. \A k \in Key : active'[k] # << >> => active[k] # << >> \/ k = key[wr[w].row]
        BY <1>0, <2>1, <2>2, <3>1, AddRowFacts
      <4>2. key[wr[w].row] \in idxMem
        BY <1>0, <2>1, <3>1 DEF Indexing, At
      <4> QED BY <4>1, <4>2
    <3>2. CASE ~wr[w].idx
      BY <2>1, <3>2
    <3> QED BY <3>1, <3>2
  <2>4. Filled' = Filled
    BY <1>0, <2>1 DEF Filled
  <2> QED BY <1>2, <2>1, <2>3, <2>4
<1>8. ASSUME NEW w \in Writer, WriteLock(w) \/ WriteLacks(w) \/ WriteTableFails(w) \/ WalWrite(w)
                               \/ WriteAck(w) \/ WriteNack(w) \/ WriteLate(w)
      PROVE  Indexing'
  <2>1. UNCHANGED <<key, tssp, idxDisk, idxMem, active, slot>>
    BY <1>8 DEF WriteLock, WriteLacks, WriteTableFails, WalWrite, WriteAck, WriteNack, WriteLate
  <2>2. wr'[w].pc # "mem" /\ \A v \in Writer : v # w => wr'[v] = wr[v]
    BY <1>0, <1>8 DEF WriteLock, WriteLacks, WriteTableFails, WalWrite, WriteAck, WriteNack, WriteLate,
                      Goto, Idle, TypeRun
  <2> QED BY <1>3, <2>1, <2>2
<1>9. ASSUME NEW f \in Flusher, WriteSnapshot(f) PROVE Indexing'
  <2>1. CASE ~alive
    BY <1>4, <1>9, <2>1 DEF WriteSnapshot
  <2>2. CASE alive
    <3>1. PICK i \in FreeSlots :
             /\ i \in Slot /\ i \notin Filled /\ \A j \in Slot : j # i => slot'[j] = slot[j]
             /\ Filled' = Filled \union {i}
             /\ slot'[i].stage = "index"
             /\ slot'[i].left = {k \in Key : active[k] # << >>}
             /\ active' = EmptyTable
      BY <1>0, <1>9, <2>2, SnapshotFacts
    <3>2. UNCHANGED <<key, tssp, idxDisk, idxMem, wr>>
      BY <1>9 DEF WriteSnapshot
    <3>3. \A k \in Key : active'[k] = << >>
      BY <3>1 DEF EmptyTable
    <3>4. \A j \in Filled : slot'[j] = slot[j]
      BY <1>1, <3>1
    <3> QED BY <1>0, <3>1, <3>2, <3>3, <3>4 DEF Indexing, FilesIndexed, At
  <2> QED BY <2>1, <2>2
<1>10. ASSUME NEW i \in Slot, IndexFlush(i) PROVE Indexing'
  <2>1. UNCHANGED <<key, part, engine, tssp, idxMem, active, wr>> /\ idxDisk' = idxDisk \union idxMem
    BY <1>10 DEF IndexFlush
  <2>2. /\ i \in Filled /\ \A j \in Slot : j # i => slot'[j] = slot[j]
        /\ Filled' = Filled /\ slot'[i].left = slot[i].left
    BY <1>0, <1>10, <2>1, SlotKept
  <2>3. slot[i].left \subseteq idxMem
    BY <1>0, <2>2 DEF Indexing
  <2> QED BY <1>1, <1>2, <2>1, <2>2, <2>3
<1>11. ASSUME NEW i \in Slot, FreeResource(i) \/ RemoveWalFile(i) PROVE Indexing'
  <2>1. UNCHANGED <<key, part, engine, tssp, idxDisk, idxMem, active, wr>>
    BY <1>11 DEF FreeResource, RemoveWalFile
  <2>2. /\ i \in Filled /\ \A j \in Slot : j # i => slot'[j] = slot[j]
        /\ Filled' = Filled /\ slot'[i].left = slot[i].left
    BY <1>0, <1>11, <2>1, SlotKept
  <2>3. slot[i].stage # "index"
    BY <1>11 DEF FreeResource, RemoveWalFile
  <2> QED BY <1>1, <1>2, <2>1, <2>2, <2>3
<1>12. ASSUME NEW i \in Slot, NEW k \in Key, FlushChunks(i, k) PROVE Indexing'
  <2>1. /\ UNCHANGED <<key, part, engine, idxDisk, idxMem, active, wr>>
        /\ tssp' = [tssp EXCEPT ![k] = @ \o slot[i].tbl[k]] /\ k \in slot[i].left /\ slot[i].stage = "chunks"
    BY <1>12 DEF FlushChunks
  <2>2. /\ i \in Filled /\ \A j \in Slot : j # i => slot'[j] = slot[j]
        /\ Filled' = Filled /\ slot'[i].left = slot[i].left \ {k} /\ slot'[i].stage = "chunks"
    BY <1>0, <1>12, <2>1, SlotKept
  <2>3. slot[i].tbl \in Table
    BY <1>0, <1>1, <2>2, SlotFacts
  <2>4. \A j \in Key : tssp'[j] # << >> => tssp[j] # << >> \/ j = k
    BY <1>0, <2>1, <2>3, FlushedFacts
  <2>5. k \in idxDisk
    BY <1>0, <2>1, <2>2 DEF Indexing
  <2>6. FilesIndexed'
    BY <1>0, <2>1, <2>4, <2>5 DEF Indexing, FilesIndexed
  <2>7. \A j \in Filled : /\ slot'[j].left \subseteq slot[j].left
                          /\ slot'[j].stage # "index" => slot[j].stage # "index"
    BY <1>1, <2>1, <2>2
  <2> QED BY <1>0, <2>1, <2>2, <2>6, <2>7 DEF Indexing, At
<1>13. ASSUME NEW i \in Slot, DropSnapshot(i) PROVE Indexing'
  <2>1. UNCHANGED <<key, part, engine, tssp, idxDisk, idxMem, active, wr>>
    BY <1>13 DEF DropSnapshot
  <2>2. Filled' = Filled \ {i} /\ \A j \in Slot : j # i => slot'[j] = slot[j]
    BY <1>0, <1>13, <2>1, SlotDropped
  <2> QED BY <1>1, <1>2, <2>1, <2>2
<1>14. ASSUME NEW out \in Outcomes, ReplayRow(out) PROVE Indexing'
  <2>1. UNCHANGED <<key, tssp, idxDisk, slot, wr>>
    BY <1>14 DEF ReplayRow
  <2>2. PICK r \in Known : (idxMem' = idxMem \/ idxMem' = idxMem \union {key[r]})
                         /\ (active' = active \/ (active' = AddRow(active, r) /\ key[r] \in idxMem'))
    BY <1>0, <1>14, ReplayRowFacts
  <2>4. \A k \in Key : active'[k] # << >> => active[k] # << >> \/ k \in idxMem'
    BY <1>0, <2>2, AddRowFacts
  <2>5. Filled' = Filled
    BY <1>0, <2>1 DEF Filled
  <2>6. idxMem \subseteq idxMem'
    BY <2>2
  <2> QED BY <1>2, <2>1, <2>4, <2>5, <2>6
<1>15. ASSUME UNCHANGED <<key, tssp, idxDisk>>, idxDisk \subseteq idxMem', active' = EmptyTable, Filled' = {},
              \A w \in Writer : wr'[w].pc # "mem"
       PROVE  Indexing'
  <2>1. \A k \in Key : active'[k] = << >>
    BY <1>15 DEF EmptyTable
  <2> QED BY <1>0, <1>15, <2>1 DEF Indexing, FilesIndexed, At
<1>16. ASSUME Crash PROVE Indexing'
  BY <1>0, <1>15, <1>16 DEF Crash, NewShard, Filled, Idle
<1>17. ASSUME CloseMem \/ Reload PROVE Indexing'
  <2>1. UNCHANGED <<key, tssp, idxDisk, idxMem, wr, slot>> /\ active' = EmptyTable
    BY <1>17 DEF CloseMem, Reload, NewShard
  <2>2. \A k \in Key : active'[k] = << >>
    BY <2>1 DEF EmptyTable
  <2>3. Filled' = Filled
    BY <1>0, <2>1 DEF Filled
  <2> QED BY <1>2, <2>1, <2>2, <2>3
<1>18. ASSUME CloseWal PROVE Indexing'
  <2>1. UNCHANGED <<key, tssp, idxDisk, idxMem, active, slot>>
        /\ \A w \in Writer : wr'[w] = IF At(w, "checked") THEN [wr[w] EXCEPT !.pc = "late"] ELSE wr[w]
    BY <1>18 DEF CloseWal
  <2>2. \A w \in Writer : wr'[w].pc = "mem" => wr'[w] = wr[w]
    BY <1>0, <2>1 DEF TypeRun
  <2> QED BY <1>3, <2>1, <2>2
<1>19. ASSUME NEW w \in Writer, Write(w) PROVE Indexing'
  BY <1>5, <1>6, <1>7, <1>8, <1>19 DEF Write
<1>20. ASSUME Flush PROVE Indexing'
  BY <1>4, <1>9, <1>10, <1>11, <1>12, <1>13, <1>20 DEF Flush, WaitStorage, WaitSnapshot, DisableForceFlush
<1>21. ASSUME Reopen PROVE Indexing'
  BY <1>4, <1>14, <1>21 DEF Reopen, OpenAndEnable, ReplayFails, ReplayDone, RemoveReplayed, Opened
<1>22. ASSUME Quiet PROVE Indexing'
  BY <1>4, <1>22, QuietFacts
<1> QED BY <1>4, <1>16, <1>17, <1>18, <1>19, <1>20, <1>21, <1>22
        DEF Next, vars, Tick, ForceFlush, Close, CloseBegin, Quiet

-----------------------------------------------------------------------------
(* Durability.                                                             *)

\* The tables of the time series engine.
LEMMA MemoryFacts ==
    ASSUME engine = "ts"
    PROVE  /\ slot[1] = Nil => Memory = Rows(active)
           /\ slot[1] # Nil => Memory = Rows(active) \union Rows(slot[1].tbl)
<1>1. Slot = {1}
  BY OneSlot
<1>2. slot[1] = Nil => SlotTables = {}
  BY <1>1 DEF SlotTables, FreeSlots
<1>3. slot[1] # Nil => SlotTables = {slot[1].tbl}
  BY <1>1 DEF SlotTables, FreeSlots
<1> QED BY <1>2, <1>3 DEF Memory

\* A table that is about to be dropped is in the data files.
LEMMA FlushedTable ==
    ASSUME Inv, NEW i \in Filled, slot[i].stage = "remove"
    PROVE  Rows(slot[i].tbl) \subseteq Rows(tssp)
<1>1. slot[i].left = {}
  BY DEF Inv, SlotCover
<1>2. \A k \in Key : ToSet(slot[i].tbl[k]) \subseteq ToSet(tssp[k])
  BY <1>1 DEF Inv, SlotCover
<1> QED BY <1>2 DEF Rows

\* Rows of data files stay there.
LEMMA TsspGrows ==
    ASSUME Inv, [Next]_vars
    PROVE  Rows(tssp) \subseteq Rows(tssp)'
<1>1. CASE tssp' = tssp
  BY <1>1 DEF Rows
<1>2. ASSUME NEW i \in Slot, NEW k \in Key, FlushChunks(i, k) PROVE Rows(tssp) \subseteq Rows(tssp)'
  <2>1. slot[i].tbl \in Table /\ tssp \in Table
    BY <1>2, SlotFacts DEF FlushChunks, Inv, TypeInv, TypeDisk
  <2>2. Rows(tssp) \subseteq Rows([tssp EXCEPT ![k] = @ \o slot[i].tbl[k]])
    BY <2>1, FlushedFacts
  <2>3. Rows(tssp)' = Rows([tssp EXCEPT ![k] = @ \o slot[i].tbl[k]])
    BY <1>2 DEF FlushChunks, Rows
  <2> QED BY <2>2, <2>3
<1>3. ASSUME NEW w \in Writer, Write(w) PROVE tssp' = tssp
  BY <1>3 DEF Write, WriteRows, WriteLock, WriteIndex, WriteLacks, WriteTable,
       WriteTableFails, WalWrite, WriteAck, WriteNack, WriteLate
<1>4. ASSUME Flush PROVE Rows(tssp) \subseteq Rows(tssp)'
  BY <1>1, <1>2, <1>4 DEF Flush, WaitStorage, WaitSnapshot, WriteSnapshot, DisableForceFlush,
       IndexFlush, FreeResource, RemoveWalFile, DropSnapshot
<1>5. ASSUME Reopen PROVE tssp' = tssp
  BY <1>5 DEF Reopen, OpenAndEnable, ReplayRow, ReplayFails, ReplayDone, RemoveReplayed, Opened
<1> QED BY <1>1, <1>3, <1>4, <1>5 DEF Next, vars, Tick, ForceFlush, Close, CloseBegin, CloseWal, CloseMem, CloseWait, CloseDone, Reload, ReloadEarly, Crash

\* Until the memtable is dropped by Close or a crash, what the tables and the data
\* files hold only grows.
LEMMA KeptGrows ==
    ASSUME Inv, engine = "ts", [Next]_vars, alive', st' # "down"
    PROVE  Kept \subseteq Kept'
<1>0. /\ TypeInv /\ TypeTables /\ UNCHANGED <<part, engine>> /\ Slot = {1} /\ Slot' = {1}
      /\ active \in Table /\ key \in Seq(Key)
  BY SameConfig, OneSlot DEF Inv, TypeInv, Slot, TypeTables, TypeHist
<1>1. Rows(tssp) \subseteq Rows(tssp)'
  BY TsspGrows
<1>2. /\ slot'[1] = Nil => Memory' = Rows(active)'
      /\ slot'[1] # Nil => Memory' = Rows(active)' \union Rows(slot[1].tbl)'
  <2>1. (engine = "ts")'
    BY <1>0
  <2>2. (/\ slot[1] = Nil => Memory = Rows(active)
         /\ slot[1] # Nil => Memory = Rows(active) \union Rows(slot[1].tbl))'
    BY <2>1, MemoryFacts, PTL
  <2> QED BY <2>2
<1>3. ASSUME Rows(active) \subseteq Rows(active)', slot' = slot PROVE Kept \subseteq Kept'
  <2>1. Rows(slot[1].tbl)' = Rows(slot[1].tbl)
    BY <1>3 DEF Rows
  <2> QED BY <1>1, <1>2, <1>3, <2>1, MemoryFacts DEF Kept
<1>4. ASSUME UNCHANGED <<active, slot>> PROVE Kept \subseteq Kept'
  BY <1>3, <1>4 DEF Rows
<1>5. ASSUME NEW r \in Known, active' = AddRow(active, r), slot' = slot PROVE Kept \subseteq Kept'
  <2>1. Rows(AddRow(active, r)) = Rows(active) \union {r}
    BY <1>0, AddRowFacts
  <2>2. Rows(active)' = Rows(AddRow(active, r))
    BY <1>5 DEF Rows
  <2> QED BY <1>3, <1>5, <2>1, <2>2
<1>6. ASSUME NEW w \in Writer, WriteTable(w) PROVE Kept \subseteq Kept'
  <2>1. wr[w].row \in Known
    BY <1>6 DEF Inv, WriterInv, WriteTable, At, Working
  <2>2. slot' = slot /\ (active' = active \/ active' = AddRow(active, wr[w].row))
    BY <1>6 DEF WriteTable
  <2> QED BY <1>4, <1>5, <2>1, <2>2
<1>7. ASSUME NEW f \in Flusher, WriteSnapshot(f) PROVE Kept \subseteq Kept'
  <2>1. CASE ~alive
    BY <1>4, <1>7, <2>1 DEF WriteSnapshot
  <2>2. CASE alive
    <3>1. PICK i \in FreeSlots : i \in Slot /\ slot[i] = Nil /\ slot'[i] # Nil /\ slot'[i].tbl = active
      BY <1>0, <1>7, <2>2, SnapshotFacts
    <3>2. i = 1
      BY <1>0, <3>1
    <3>3. Rows(slot[1].tbl)' = Rows(active)
      BY <3>1, <3>2 DEF Rows
    <3> QED BY <1>1, <1>2, <3>1, <3>2, <3>3, MemoryFacts DEF Kept
  <2> QED BY <2>1, <2>2
<1>8. ASSUME NEW i \in Slot, IndexFlush(i) \/ FreeResource(i) \/ RemoveWalFile(i) \/ \E k \in Key : FlushChunks(i, k)
      PROVE  Kept \subseteq Kept'
  <2>1. UNCHANGED <<key, part, engine, active>>
    BY <1>8 DEF IndexFlush, FreeResource, RemoveWalFile, FlushChunks
  <2>2. slot'[i] # Nil /\ slot[i] # Nil /\ slot'[i].tbl = slot[i].tbl /\ i = 1
    BY <1>0, <1>8, <2>1, SlotKept DEF Filled
  <2>3. Rows(slot[1].tbl)' = Rows(slot[1].tbl) /\ Rows(active)' = Rows(active)
    BY <2>1, <2>2 DEF Rows
  <2> QED BY <1>1, <1>2, <2>2, <2>3, MemoryFacts DEF Kept
<1>9. ASSUME NEW i \in Slot, DropSnapshot(i) PROVE Kept \subseteq Kept'
  <2>1. UNCHANGED <<key, part, engine, active>>
    BY <1>9 DEF DropSnapshot
  <2>2. i \in Filled /\ slot[i].stage = "remove" /\ i = 1
    BY <1>0, <1>9, <2>1, SlotDropped
  <2>3. Rows(slot[1].tbl) \subseteq Rows(tssp) /\ Rows(active)' = Rows(active)
    BY <2>1, <2>2, FlushedTable DEF Rows
  <2>4. Rows(active)' \subseteq Memory'
    BY <1>2
  <2>5. Memory \subseteq Rows(active) \union Rows(slot[1].tbl)
    BY MemoryFacts
  <2> QED BY <1>1, <2>3, <2>4, <2>5 DEF Kept
<1>10. ASSUME NEW out \in Outcomes, ReplayRow(out) PROVE Kept \subseteq Kept'
  <2>1. PICK r \in Known : active' = active \/ active' = AddRow(active, r)
    BY <1>0, <1>10, ReplayRowFacts
  <2>2. slot' = slot
    BY <1>10 DEF ReplayRow
  <2> QED BY <1>4, <1>5, <2>1, <2>2
<1>11. ASSUME CloseMem \/ Reload \/ Crash PROVE FALSE
  BY <1>11 DEF CloseMem, Reload, Crash, NewShard
<1>12. ASSUME NEW w \in Writer, Write(w) PROVE Kept \subseteq Kept'
  BY <1>4, <1>6, <1>12 DEF Write, WriteRows, WriteLock, WriteIndex, WriteLacks,
       WriteTableFails, WalWrite, WriteAck, WriteNack, WriteLate
<1>13. ASSUME Flush PROVE Kept \subseteq Kept'
  BY <1>4, <1>7, <1>8, <1>9, <1>13 DEF Flush, WaitStorage, WaitSnapshot, DisableForceFlush
<1>14. ASSUME Reopen PROVE Kept \subseteq Kept'
  BY <1>4, <1>10, <1>14 DEF Reopen, OpenAndEnable, ReplayFails, ReplayDone, RemoveReplayed, Opened
<1>15. ASSUME Quiet PROVE Kept \subseteq Kept'
  BY <1>4, <1>15, QuietFacts
<1> QED BY <1>4, <1>11, <1>12, <1>13, <1>14, <1>15
        DEF Next, vars, Tick, ForceFlush, Close, CloseBegin, CloseWal, Quiet

\* The steps that change the log.
LEMMA LogChange ==
    ASSUME [Next]_vars
    PROVE  \/ wal' = wal
           \/ \E w \in Writer : WalWrite(w)
           \/ \E i \in Slot : RemoveWalFile(i)
           \/ RemoveReplayed
<1>1. ASSUME NEW w \in Writer, Write(w) PROVE wal' = wal \/ WalWrite(w)
  BY <1>1 DEF Write, WriteRows, WriteLock, WriteIndex, WriteLacks, WriteTable,
       WriteTableFails, WriteAck, WriteNack, WriteLate
<1>2. ASSUME Flush PROVE wal' = wal \/ \E i \in Slot : RemoveWalFile(i)
  BY <1>2 DEF Flush, WaitStorage, WaitSnapshot, WriteSnapshot, DisableForceFlush,
       IndexFlush, FlushChunks, FreeResource, DropSnapshot
<1>3. ASSUME Reopen PROVE wal' = wal \/ RemoveReplayed
  BY <1>3 DEF Reopen, OpenAndEnable, ReplayRow, ReplayFails, ReplayDone, Opened
<1> QED BY <1>1, <1>2, <1>3 DEF Next, vars, Tick, ForceFlush, Close, CloseBegin, CloseWal, CloseMem, CloseWait, CloseDone, Reload, ReloadEarly, Crash

\* Only the replay of its record skips a row, and OpenAndEnable replays it again as
\* long as it is in the log.
LEMMA LimitedChange ==
    ASSUME [Next]_vars
    PROVE  \/ limited' = limited
           \/ OpenAndEnable /\ limited' = limited \ LogRows
           \/ \E out \in Outcomes : ReplayRow(out) /\ limited \subseteq limited'
<1>1. ASSUME NEW w \in Writer, Write(w) PROVE limited' = limited
  BY <1>1 DEF Write, WriteRows, WriteLock, WriteIndex, WriteLacks, WriteTable,
       WriteTableFails, WalWrite, WriteAck, WriteNack, WriteLate
<1>2. ASSUME Flush PROVE limited' = limited
  BY <1>2 DEF Flush, WaitStorage, WaitSnapshot, WriteSnapshot, DisableForceFlush,
       IndexFlush, FlushChunks, FreeResource, RemoveWalFile, DropSnapshot
<1>3. ASSUME NEW out \in Outcomes, ReplayRow(out) PROVE limited \subseteq limited'
  BY <1>3 DEF ReplayRow
<1>4. ASSUME OpenAndEnable PROVE limited' = limited \ LogRows
  BY <1>4 DEF OpenAndEnable
<1>5. ASSUME ReplayFails \/ ReplayDone \/ RemoveReplayed \/ Opened PROVE limited' = limited
  BY <1>5 DEF ReplayFails, ReplayDone, RemoveReplayed, Opened
<1>6. ASSUME Quiet PROVE limited' = limited
  BY <1>6, QuietFacts
<1> QED BY <1>1, <1>2, <1>3, <1>4, <1>5, <1>6 DEF Next, vars, Tick, ForceFlush, Reopen, Close, CloseBegin,
        CloseWal, CloseMem, Reload, Crash, Quiet

\* So a row that is not skipped any more is in the log.
LEMMA LimitedKept ==
    ASSUME [Next]_vars, NEW x \in limited, x \notin limited'
    PROVE  x \in LogRows' /\ st' = "replay"
<1>1. OpenAndEnable /\ limited' = limited \ LogRows
  BY LimitedChange
<1>2. wal' = wal /\ st' = "replay"
  BY <1>1 DEF OpenAndEnable
<1> QED BY <1>1, <1>2 DEF LogRows

\* Only a write makes the shard owe a row.
LEMMA OwedChange ==
    ASSUME Inv, [Next]_vars, ~\E w \in Writer : WalWrite(w)
    PROVE  Owed' \subseteq Owed
<1>0. TypeRun
  BY DEF Inv, TypeInv
<1>1. ASSUME NEW w \in Writer, Write(w) PROVE Owed' \subseteq Owed
  BY <1>0, <1>1, OwedWrite
<1>2. ASSUME UNCHANGED <<acked, wr>> \/ CloseWal \/ Crash PROVE Owed' \subseteq Owed
  BY <1>0, <1>2, OwedOther
<1>3. ASSUME Flush \/ Reopen PROVE UNCHANGED <<acked, wr>>
  BY <1>3 DEF Flush, WaitStorage, WaitSnapshot, WriteSnapshot, DisableForceFlush,
       IndexFlush, FlushChunks, FreeResource, RemoveWalFile, DropSnapshot,
       Reopen, OpenAndEnable, ReplayRow, ReplayFails, ReplayDone, RemoveReplayed, Opened, history
<1> QED BY <1>1, <1>2, <1>3 DEF Next, vars, Tick, ForceFlush, Close, CloseBegin, CloseMem, CloseWait, CloseDone, Reload, ReloadEarly, history

\* A shard that is not open writes no log, and once it has no files to remove from an
\* earlier flush the log shrinks only at the end of OpenAndEnable.
LEMMA LogWhileClosed ==
    ASSUME Inv, [Next]_vars, st # "open"
    PROVE  /\ LogRows' \subseteq LogRows
           /\ st \in {"replay", "flush"} => wal' = wal
<1>1. ASSUME NEW w \in Writer, WalWrite(w) PROVE FALSE
  BY <1>1, WalWriteGuard
<1>2. wal' \subseteq wal
  BY <1>1, LogChange DEF RemoveWalFile, RemoveReplayed
<1>3. ASSUME st \in {"replay", "flush"}, NEW i \in Slot, RemoveWalFile(i) PROVE FALSE
  <2>1. slot[i].stage = "remove" /\ slot[i].files # << >>
    BY <1>3 DEF RemoveWalFile
  <2>2. i \in Filled
    BY <2>1 DEF Filled, Nil
  <2> QED BY <1>3, <2>1, <2>2 DEF Inv, SlotFilesInv, Closing
<1>4. st = "replay" \/ st = "flush" => ~RemoveReplayed
  BY DEF RemoveReplayed
<1> QED BY <1>1, <1>2, <1>3, <1>4, LogChange, FilesKept

\* An owed row stays in the log or in a data file.
LEMMA StoredStep ==
    ASSUME Inv, [Next]_vars, engine = "ts"
    PROVE  Stored'
<1>0. /\ TypeInv /\ TypeRun /\ TypeTables /\ LogInv /\ Stored /\ Replayed /\ wal \subseteq LogFile
      /\ UNCHANGED <<part, engine>>
  BY SameConfig DEF Inv, TypeInv, DurableInv, TypeDisk
<1>1. Rows(tssp) \subseteq Rows(tssp)'
  BY TsspGrows
<1>4. \A x \in limited : x \in limited' \/ x \in LogRows'
  BY LimitedKept
<1>2. ASSUME NEW w \in Writer, WalWrite(w) PROVE Stored'
  <2> DEFINE r == wr[w].row
  <2>1. r \in Known /\ 1 + writeReq \in 1 .. part /\ st = "open" /\ UNCHANGED <<key, part, engine>>
    BY <1>2, WalWriteGuard
  <2>2. LogWrite(1 + writeReq, r)
    BY <1>2 DEF WalWrite
  <2>3. LogRows' = LogRows \union {r}
    BY <1>0, <2>1, <2>2, LogWriteFacts
  <2>4. Owed' \subseteq Owed \union {r}
    BY <1>0, <1>2, OwedWal
  <2> QED BY <1>0, <1>1, <1>4, <2>3, <2>4 DEF Stored
<1>3. ASSUME ~\E w \in Writer : WalWrite(w) PROVE Stored'
  <2>1. Owed' \subseteq Owed
    BY <1>3, OwedChange
  <2>2. CASE wal' = wal
    <3>1. LogRows' = LogRows
      BY <2>2 DEF LogRows
    <3> QED BY <1>0, <1>1, <1>4, <2>1, <3>1 DEF Stored
  <2>3. ASSUME NEW i \in Slot, RemoveWalFile(i) PROVE Stored'
    <3> DEFINE h == Head(slot[i].files)
    <3>1. slot[i].stage = "remove" /\ slot[i].files # << >> /\ wal' = wal \ File(h)
      BY <2>3 DEF RemoveWalFile
    <3>2. i \in Filled /\ slot[i].files \in Seq(FileName)
      BY <1>0, <3>1, SlotFacts DEF Filled, Nil
    <3>3. h \in FileName /\ h \in ToSet(slot[i].files)
      BY <3>1, <3>2, TailRange
    <3>4. Rows(slot[i].tbl) \subseteq Rows(tssp)
      BY <3>1, <3>2, FlushedTable
    <3>5. ASSUME NEW g \in File(h) PROVE ToSet(g.rows) \cap Owed \subseteq Rows(tssp)
      <4>1. g \in wal /\ h = <<g.part, g.seq>>
        BY <3>3, <3>5 DEF File, FileName
      <4>2. ToSet(g.rows) \cap Owed \subseteq Rows(slot[i].tbl)
        BY <3>2, <3>3, <4>1 DEF Inv, SlotCover
      <4> QED BY <3>4, <4>2
    <3> HIDE DEF h
    <3>6. \A x \in LogRows : x \in LogRows' \/ \E g \in File(h) : x \in ToSet(g.rows)
      BY <3>1 DEF LogRows
    <3> QED BY <1>0, <1>1, <1>4, <2>1, <3>5, <3>6 DEF Stored
  <2>4. ASSUME RemoveReplayed PROVE Stored'
    <3>1. LogRows \ limited \subseteq Rows(tssp) /\ limited' = limited
      BY <1>0, <2>4 DEF RemoveReplayed, Replayed
    <3> QED BY <1>0, <1>1, <2>1, <3>1 DEF Stored
  <2> QED BY <1>3, <2>2, <2>3, <2>4, LogChange
<1> QED BY <1>2, <1>3

\* The shard opens only when the log is in the data files.
LEMMA OpensFrom ==
    ASSUME [Next]_vars, st' = "open", st # "open"
    PROVE  Opened
<1>1. ASSUME NEW w \in Writer, Write(w) PROVE st' = st
  BY <1>1 DEF Write, WriteRows, WriteLock, WriteIndex, WriteLacks, WriteTable,
       WriteTableFails, WalWrite, WriteAck, WriteNack, WriteLate
<1>2. ASSUME Flush PROVE st' # "open" \/ st' = st
  BY <1>2 DEF Flush, WaitStorage, WaitSnapshot, WriteSnapshot, DisableForceFlush,
       IndexFlush, FlushChunks, FreeResource, RemoveWalFile, DropSnapshot
<1>3. ASSUME Reopen PROVE st' # "open" \/ st' = st \/ Opened
  BY <1>3 DEF Reopen, OpenAndEnable, ReplayRow, ReplayFails, ReplayDone, RemoveReplayed
<1> QED BY <1>1, <1>2, <1>3 DEF Next, vars, Tick, ForceFlush, Close, CloseBegin, CloseWal, CloseMem, CloseWait, CloseDone, Reload, ReloadEarly, Crash, NewShard

\* An open shard serves what it owes.
LEMMA ServedStep ==
    ASSUME Inv, [Next]_vars, engine = "ts"
    PROVE  Served'
<1> SUFFICES ASSUME st' = "open" PROVE Owed' \ limited' \subseteq Kept'
  BY DEF Served
<1>0. TypeInv /\ TypeRun /\ Stored /\ Served /\ Replayed /\ alive'
  BY FlusherStep DEF Inv, TypeInv, DurableInv, FlusherInv, Closing
<1>1. Kept \subseteq Kept'
  BY <1>0, KeptGrows
<1>4. limited \subseteq limited'
  BY LimitedKept
<1>2. ASSUME NEW w \in Writer, WalWrite(w) PROVE Owed' \ limited' \subseteq Kept'
  <2>1. st = "open" /\ (wr[w].idx => wr[w].row \in Rows(active))
    BY <1>2, WalWriteGuard
  <2>2. Owed' \subseteq Owed \union Rows(active)
    BY <1>0, <1>2, <2>1, OwedWal
  <2>3. Owed \ limited \subseteq Kept /\ Rows(active) \subseteq Kept
    BY <1>0, <2>1 DEF Served, Kept, Memory
  <2> QED BY <1>1, <1>4, <2>2, <2>3
<1>3. ASSUME ~\E w \in Writer : WalWrite(w) PROVE Owed' \ limited' \subseteq Kept'
  <2>1. Owed' \subseteq Owed
    BY <1>3, OwedChange
  <2>2. CASE st = "open"
    BY <1>0, <1>1, <1>4, <2>1, <2>2 DEF Served
  <2>3. CASE st # "open"
    <3>1. LogRows \ limited \subseteq Rows(tssp)
      BY <1>0, <2>3, OpensFrom DEF Opened, Replayed
    <3> QED BY <1>0, <1>1, <1>4, <2>1, <3>1 DEF Stored, Kept
  <2> QED BY <2>2, <2>3
<1> QED BY <1>2, <1>3

\* What moves OpenAndEnable on.
LEMMA StateChange ==
    ASSUME [Next]_vars
    PROVE  \/ st' = st \/ OpenAndEnable \/ ReplayDone \/ DisableForceFlush("replay")
           \/ st' \in {"open", "failed", "down"} \union Closing
<1>1. ASSUME NEW w \in Writer, Write(w) PROVE st' = st
  BY <1>1 DEF Write, WriteRows, WriteLock, WriteIndex, WriteLacks, WriteTable,
       WriteTableFails, WalWrite, WriteAck, WriteNack, WriteLate
<1>2. ASSUME Flush PROVE st' = st \/ DisableForceFlush("replay")
  <2>1. ASSUME NEW f \in Flusher, WaitStorage(f) \/ WaitSnapshot(f) \/ WriteSnapshot(f) PROVE st' = st
    BY <2>1 DEF WaitStorage, WaitSnapshot, WriteSnapshot
  <2>2. ASSUME NEW f \in Flusher, DisableForceFlush(f) PROVE st' = st \/ DisableForceFlush("replay")
    BY <2>2 DEF DisableForceFlush
  <2>3. ASSUME NEW i \in Slot, \/ IndexFlush(i) \/ (\E k \in Key : FlushChunks(i, k)) \/ FreeResource(i)
                              \/ RemoveWalFile(i) \/ DropSnapshot(i)
        PROVE  st' = st
    BY <2>3 DEF IndexFlush, FlushChunks, FreeResource, RemoveWalFile, DropSnapshot
  <2> QED BY <1>2, <2>1, <2>2, <2>3 DEF Flush
<1>3. ASSUME Reopen PROVE st' = st \/ OpenAndEnable \/ ReplayDone \/ st' \in {"open", "failed"}
  BY <1>3 DEF Reopen, ReplayRow, ReplayFails, RemoveReplayed, Opened
<1> QED BY <1>1, <1>2, <1>3 DEF Next, vars, Tick, ForceFlush, Close, CloseBegin, CloseWal, CloseMem, CloseWait, CloseDone, Reload, ReloadEarly, Crash, NewShard, Closing

\* While records are replayed, a record leaves the queue of its partition for the
\* active table, or an error is collected.
LEMMA ReplayStep ==
    ASSUME Inv, engine = "ts", [Next]_vars, st = "replay", st' = "replay", ~errs'
    PROVE  ~errs /\ ToReplay \subseteq ToReplay' \union Kept' \union limited'
<1>0. /\ TypeInv /\ UNCHANGED <<part, engine>> /\ alive' /\ active \in Table /\ key \in Seq(Key)
      /\ todo \in [1 .. part -> Seq(Known)]
  BY FlusherStep, SameConfig DEF Inv, TypeInv, TypeTables, TypeHist, TypeReplay, FlusherInv, Closing
<1>1. ASSUME UNCHANGED <<todo, errs>> PROVE ~errs /\ ToReplay \subseteq ToReplay' \union Kept' \union limited'
  BY <1>0, <1>1 DEF ToReplay
<1>2. ASSUME NEW out \in Outcomes, ReplayRow(out) PROVE ~errs /\ ToReplay \subseteq ToReplay' \union Kept' \union limited'
  <2> DEFINE p == NextPart
             r == Head(todo[p])
  <2>1. p \in 1 .. part /\ todo[p] # << >>
    BY <1>0, <1>2, NextPartFacts DEF ReplayRow
  <2>2. r \in Known /\ Tail(todo[p]) \in Seq(Known) /\ ToSet(todo[p]) = {r} \union ToSet(Tail(todo[p]))
    BY <1>0, <2>1, TailRange
  <2>3. todo' = [todo EXCEPT ![p] = Tail(@)]
    BY <1>2 DEF ReplayRow
  <2>4. (active' = AddRow(active, r) \/ r \in limited') /\ ~errs
    BY <1>0, <1>2, ReplayRowFacts
  <2> HIDE DEF p, r
  <2>5. todo'[p] = Tail(todo[p]) /\ \A q \in 1 .. part : q # p => todo'[q] = todo[q]
    BY <1>0, <2>1, <2>3
  <2>6. ToReplay \subseteq ToReplay' \union {r}
    BY <1>0, <2>1, <2>2, <2>5 DEF ToReplay
  <2>7. Rows(AddRow(active, r)) = Rows(active) \union {r}
    BY <1>0, <2>2, AddRowFacts
  <2>8. Rows(active)' = Rows(AddRow(active, r)) \/ r \in limited'
    BY <2>4 DEF Rows
  <2> QED BY <2>4, <2>6, <2>7, <2>8 DEF Kept, Memory
<1>3. ASSUME NEW w \in Writer, Write(w) PROVE UNCHANGED <<todo, errs>>
  BY <1>3 DEF Write, WriteRows, WriteLock, WriteIndex, WriteLacks, WriteTable,
       WriteTableFails, WalWrite, WriteAck, WriteNack, WriteLate, replay
<1>4. ASSUME Flush PROVE UNCHANGED <<todo, errs>>
  BY <1>4 DEF Flush, WaitStorage, WaitSnapshot, WriteSnapshot, DisableForceFlush,
       IndexFlush, FlushChunks, FreeResource, RemoveWalFile, DropSnapshot, replay
<1>5. ASSUME Reopen PROVE UNCHANGED <<todo, errs>> \/ (\E out \in Outcomes : ReplayRow(out))
  BY <1>5 DEF Reopen, OpenAndEnable, ReplayFails, ReplayDone, RemoveReplayed, Opened, replay
<1> QED BY <1>1, <1>2, <1>3, <1>4, <1>5 DEF Next, vars, Tick, ForceFlush, Close, CloseBegin, CloseWal, CloseMem, CloseWait, CloseDone, Reload, ReloadEarly, Crash, NewShard, replay

\* restoreLogs finds the files of the log, and what it queues covers them.
LEMMA RestoreFacts ==
    ASSUME Inv, OpenAndEnable, ~errs'
    PROVE  LogRows' \subseteq ToReplay'
<1> DEFINE nm == [p \in 1 .. part |-> names[p] \o FilesOf(p)]
<1>0. /\ TypeDisk /\ Unique /\ names \in [1 .. part -> Seq(Nat)] /\ UNCHANGED <<part, wal>>
      /\ wal \subseteq LogFile
  BY DEF Inv, TypeInv, LogInv, TypeReplay, Names, OpenAndEnable, cfgvars, disk, TypeDisk
<1>1. /\ todo' = [p \in 1 .. part |-> Records(p, nm)]
      /\ \A p \in 1 .. part : Missing(p, nm) = {}
  BY DEF OpenAndEnable, RestoreLogs
<1>2. ASSUME NEW p \in 1 .. part
      PROVE  nm[p] = names[p] \o FilesOf(p) /\ nm[p] \in Seq(Nat) /\ Numbers(p) \subseteq ToSet(nm[p])
  <2>1. FilesOf(p) \in Seq(Nat) /\ ToSet(FilesOf(p)) = Numbers(p)
    BY <1>0, FilesOfFacts
  <2>2. nm[p] = names[p] \o FilesOf(p)
    OBVIOUS
  <2>3. names[p] \in Seq(Nat)
    BY <1>0
  <2>4. names[p] \o FilesOf(p) \in Seq(Nat)
    BY <2>1, <2>3, ConcatProperties
  <2> QED BY <2>1, <2>2, <2>3, <2>4, ConcatRange
<1> HIDE DEF nm
<1>3. ASSUME NEW p \in 1 .. part
      PROVE  ToSet(todo'[p]) = UNION {RowsOf(<<p, q>>) : q \in ToSet(nm[p])}
  <2>1. nm[p] \in Seq(Nat) /\ Missing(p, nm) = {}
    BY <1>1, <1>2
  <2>2. ToSet(Records(p, nm)) = UNION {RowsOf(<<p, q>>) : q \in ToSet(nm[p])}
    BY <1>0, <2>1, RecordsFacts
  <2> QED BY <1>1, <2>2
<1>4. ASSUME NEW g \in wal PROVE ToSet(g.rows) \subseteq ToReplay'
  <2>1. g.part \in 1 .. part /\ g.seq \in Numbers(g.part)
    BY <1>0 DEF LogFile, Numbers
  <2>2. g.seq \in ToSet(nm[g.part])
    BY <1>2, <2>1
  <2>3. g \in File(<<g.part, g.seq>>)
    BY DEF File
  <2>4. ToSet(g.rows) \subseteq RowsOf(<<g.part, g.seq>>)
    BY <2>3 DEF RowsOf
  <2>5. ToSet(g.rows) \subseteq ToSet(todo'[g.part])
    BY <1>3, <2>1, <2>2, <2>4
  <2> QED BY <1>0, <2>1, <2>5 DEF ToReplay
<1> QED BY <1>0, <1>4 DEF LogRows

\* While the flush of the replay runs, it alone touches the active table, and it
\* ends when its table is dropped.
LEMMA FlushOfReplay ==
    ASSUME Inv, engine = "ts", [Next]_vars, st = "flush", st' = "flush"
    PROVE  /\ \/ Rows(active)' = Rows(active)
              \/ Rows(active)' = {}
           /\ \/ fl'["replay"] = fl["replay"]
              \/ fl'["replay"] \notin {"flush", "end"}
              \/ fl'["replay"] = "flush" /\ Rows(active)' = {}
              \/ fl["replay"] = "flush" /\ slot[1] # Nil /\ slot[1].stage = "remove"
<1> DEFINE P == /\ Rows(active)' = Rows(active) \/ Rows(active)' = {}
                /\ \/ fl'["replay"] = fl["replay"]
                   \/ fl'["replay"] \notin {"flush", "end"}
                   \/ fl'["replay"] = "flush" /\ Rows(active)' = {}
                   \/ fl["replay"] = "flush" /\ slot[1] # Nil /\ slot[1].stage = "remove"
<1> SUFFICES P
  OBVIOUS
<1>0. /\ TypeInv /\ TypeRun /\ TypeTables /\ Slot = {1} /\ UNCHANGED <<part, engine>> /\ alive
      /\ FlusherInv /\ SlotInv /\ WriterInv
  BY SameConfig, OneSlot DEF Inv, TypeInv, FlusherInv, Closing
<1>1. ASSUME UNCHANGED active, fl'["replay"] = fl["replay"] PROVE P
  BY <1>1 DEF Rows
<1>2. ASSUME NEW f \in Flusher, NEW s, fl' = [fl EXCEPT ![f] = s], UNCHANGED active,
             s \notin {"flush", "end"} \/ f # "replay"
      PROVE  P
  <2>1. fl'[f] = s /\ \A g \in Flusher : g # f => fl'[g] = fl[g]
    BY <1>0, <1>2, FlusherMoves
  <2>2. Rows(active)' = Rows(active) /\ "replay" \in Flusher
    BY <1>2 DEF Rows, Flusher
  <2> QED BY <1>2, <2>1, <2>2
<1>3. ASSUME NEW w \in Writer, Write(w) PROVE P
  <2>1. ~WriteTable(w)
    BY <1>0 DEF WriteTable, At, WriterInv, Working
  <2> QED BY <1>1, <1>3, <2>1 DEF Write, WriteRows, WriteLock, WriteIndex, WriteLacks,
       WriteTableFails, WalWrite, WriteAck, WriteNack, WriteLate, tables, flushers
<1>4. ASSUME NEW f \in Flusher, WriteSnapshot(f) PROVE P
  <2>1. active' = EmptyTable /\ fl' = [fl EXCEPT ![f] = "flush"]
    BY <1>0, <1>4, SnapshotFacts
  <2>2. Rows(active)' = {}
    BY <2>1, EmptyTableFacts DEF Rows
  <2>3. fl'[f] = "flush" /\ \A g \in Flusher : g # f => fl'[g] = fl[g]
    BY <1>0, <2>1, FlusherMoves
  <2> QED BY <2>2, <2>3 DEF Flusher
<1>5. ASSUME NEW f \in Flusher, WaitStorage(f) \/ WaitSnapshot(f) \/ DisableForceFlush(f) PROVE P
  <2>1. PICK s \in {"ready", "switch", "idle"} : fl' = [fl EXCEPT ![f] = s] /\ UNCHANGED active
    BY <1>0, <1>5 DEF WaitStorage, WaitSnapshot, DisableForceFlush, tables
  <2> QED BY <1>2, <2>1
<1>6. ASSUME NEW i \in Slot, IndexFlush(i) \/ FreeResource(i) \/ RemoveWalFile(i) \/ \E k \in Key : FlushChunks(i, k)
      PROVE  P
  <2>1. UNCHANGED <<active, fl>>
    BY <1>0, <1>6 DEF IndexFlush, FreeResource, RemoveWalFile, FlushChunks, flushers
  <2> QED BY <1>1, <2>1
<1>7. ASSUME NEW i \in Slot, DropSnapshot(i) PROVE P
  <2>1. UNCHANGED <<key, part, engine, active>>
    BY <1>7 DEF DropSnapshot, history, cfgvars
  <2>2. i \in Filled /\ slot[i].stage = "remove" /\ i = 1 /\ slot[i] \in BusySlot
    BY <1>0, <1>7, <2>1, SlotDropped
  <2>3. fl[slot[1].by] = "flush" /\ slot[1] # Nil /\ slot[1].by \in Flusher
    BY <1>0, <2>2 DEF SlotInv, Filled, BusySlot
  <2>4. fl' = [fl EXCEPT ![slot[1].by] = Ended(slot[1].by)]
    BY <1>0, <1>7, <2>2 DEF DropSnapshot
  <2>5. \A g \in Flusher : g # slot[1].by => fl'[g] = fl[g]
    BY <1>0, <2>3, <2>4, FlusherMoves
  <2>6. Rows(active)' = Rows(active)
    BY <2>1 DEF Rows
  <2> QED BY <2>2, <2>3, <2>5, <2>6 DEF Flusher
<1>8. ASSUME Flush PROVE P
  BY <1>4, <1>5, <1>6, <1>7, <1>8 DEF Flush
<1>9. ASSUME Reopen PROVE P
  BY <1>9 DEF Reopen, OpenAndEnable, ReplayRow, ReplayFails, ReplayDone, RemoveReplayed, Opened
<1>10. ASSUME Tick PROVE P
  BY <1>2, <1>10 DEF Tick, Flusher, tables
<1>11. ASSUME ForceFlush PROVE P
  BY <1>2, <1>11 DEF ForceFlush, EnableForceFlush, Flusher, tables
<1>12. ASSUME Close \/ Crash PROVE P
  BY <1>12 DEF Close, CloseBegin, CloseWal, CloseMem, CloseWait, CloseDone, Reload, ReloadEarly, Crash, NewShard
<1>13. ASSUME UNCHANGED vars PROVE P
  BY <1>1, <1>13 DEF vars, tables, flushers
<1> HIDE DEF P
<1> QED BY <1>3, <1>8, <1>9, <1>10, <1>11, <1>12, <1>13 DEF Next

\* The replay leaves no row of the log behind.
LEMMA ReplayedStep ==
    ASSUME Inv, [Next]_vars, engine = "ts"
    PROVE  Replayed'
<1>0. /\ TypeInv /\ Replayed /\ FlusherInv /\ UNCHANGED <<part, engine>> /\ FlusherInv'
  BY SameConfig, FlusherStep DEF Inv, TypeInv, DurableInv
<1>1. Rows(tssp) \subseteq Rows(tssp)'
  BY TsspGrows
<1>2. ASSUME st' \in {"replay", "flush"} PROVE Kept \subseteq Kept'
  <2>1. alive' /\ st' # "down"
    BY <1>0, <1>2 DEF FlusherInv, Closing
  <2> QED BY <2>1, KeptGrows
<1>3. ASSUME st # "open" PROVE LogRows' \subseteq LogRows
  BY <1>3, LogWhileClosed
<1>11. ASSUME st' # "replay" \/ st = "replay" PROVE limited \subseteq limited'
  BY <1>11, LimitedKept, LimitedChange DEF OpenAndEnable
<1>4. ASSUME st' = "replay", ~errs' PROVE LogRows' \ limited' \subseteq ToReplay' \union Kept'
  <2>1. CASE OpenAndEnable
    BY <1>4, <2>1, RestoreFacts
  <2>2. CASE st = "replay"
    BY <1>0, <1>2, <1>3, <1>4, <1>11, <2>2, ReplayStep DEF Replayed
  <2>3. ASSUME ReplayDone \/ DisableForceFlush("replay") PROVE FALSE
    BY <1>4, <2>3 DEF ReplayDone, DisableForceFlush
  <2> QED BY <1>4, <2>1, <2>2, <2>3, StateChange DEF Closing
<1>5. ASSUME st' = "flush" PROVE st = "flush" \/ ReplayDone
  BY <1>5, StateChange DEF OpenAndEnable, DisableForceFlush, Closing
<1>6. ASSUME ReplayDone PROVE LogRows' \ limited' \subseteq Kept' /\ fl'["replay"] = "wait"
  <2>1. st = "replay" /\ ~errs /\ \A p \in 1 .. part : todo[p] = << >>
    BY <1>6 DEF ReplayDone
  <2>2. ToReplay = {}
    BY <2>1 DEF ToReplay, ToSet
  <2>3. st' = "flush" /\ fl' = [fl EXCEPT !["replay"] = "wait"]
    BY <1>6 DEF ReplayDone, EnableForceFlush
  <2>4. fl'["replay"] = "wait"
    BY <1>0, <2>3 DEF TypeInv, TypeRun, Flusher
  <2> QED BY <1>0, <1>2, <1>3, <1>11, <2>1, <2>2, <2>3, <2>4 DEF Replayed
<1>7. ASSUME st' = "flush" PROVE LogRows' \ limited' \subseteq Kept'
  <2>1. CASE st = "flush"
    BY <1>0, <1>2, <1>3, <1>7, <1>11, <2>1 DEF Replayed
  <2> QED BY <1>5, <1>6, <1>7, <2>1
<1>8. ASSUME st' = "flush", fl'["replay"] \in {"flush", "end"} PROVE Rows(active)' = {}
  <2>1. st = "flush"
    BY <1>5, <1>6, <1>8
  <2> QED BY <1>0, <1>8, <2>1, FlushOfReplay DEF Replayed
<1>9. ASSUME st' = "flush", fl'["replay"] = "end" PROVE LogRows' \ limited' \subseteq Rows(tssp)'
  <2>1. st = "flush"
    BY <1>5, <1>6, <1>9
  <2>2. LogRows' \ limited' \subseteq LogRows \ limited
    BY <1>3, <1>9, <1>11, <2>1
  <2>3. CASE fl["replay"] = "end"
    BY <1>0, <1>1, <2>1, <2>2, <2>3 DEF Replayed
  <2>4. CASE fl["replay"] # "end"
    <3>1. fl["replay"] = "flush" /\ slot[1] # Nil /\ slot[1].stage = "remove"
      BY <1>9, <2>1, <2>4, FlushOfReplay
    <3>2. 1 \in Filled
      BY <3>1, OneSlot DEF Filled
    <3>3. Kept = Rows(active) \union Rows(slot[1].tbl) \union Rows(tssp)
      BY <3>1, MemoryFacts DEF Kept
    <3>4. Rows(active) = {} /\ LogRows \ limited \subseteq Kept
      BY <1>0, <2>1, <3>1 DEF Replayed
    <3> QED BY <1>1, <2>2, <3>1, <3>2, <3>3, <3>4, FlushedTable
  <2> QED BY <2>3, <2>4
<1>10. ASSUME st' = "remove" PROVE LogRows' \ limited' \subseteq Rows(tssp)'
  <2>1. ASSUME DisableForceFlush("replay") PROVE st = "flush" /\ fl["replay"] = "end"
    BY <1>0, <2>1 DEF DisableForceFlush, FlusherInv
  <2>2. st = "remove" \/ DisableForceFlush("replay")
    BY <1>10, StateChange DEF OpenAndEnable, ReplayDone, Closing
  <2>3. LogRows \ limited \subseteq Rows(tssp) /\ st # "open"
    BY <1>0, <2>1, <2>2 DEF Replayed
  <2> QED BY <1>1, <1>3, <1>10, <1>11, <2>3
<1> QED BY <1>4, <1>7, <1>8, <1>9, <1>10 DEF Replayed

\* No owed row is lost, in log, tables and data files together.
LEMMA DurableStep == Inv /\ [Next]_vars => DurableInv'
BY SameConfig, StoredStep, ServedStep, ReplayedStep DEF DurableInv

-----------------------------------------------------------------------------
(* Forced flushes.                                                         *)

\* Only a forced flush is asked for rows.
LEMMA TickerStep == Inv /\ [Next]_vars => asked'["ticker"] = {}
<1> SUFFICES ASSUME Inv, [Next]_vars PROVE asked'["ticker"] = {}
  OBVIOUS
<1>0. asked["ticker"] = {} /\ asked \in [Flusher -> SUBSET Known] /\ fl["ticker"] # "end"
  BY DEF Inv, TypeInv, TypeRun, AskedInv, FlusherInv
<1>1. CASE asked' = asked
  BY <1>0, <1>1
<1>2. ASSUME NEW f \in Flusher, f # "ticker", NEW S, asked' = [asked EXCEPT ![f] = S]
      PROVE  asked'["ticker"] = {}
  BY <1>0, <1>2 DEF Flusher
<1>3. ASSUME NEW w \in Writer, Write(w) PROVE asked' = asked
  BY <1>3 DEF Write, WriteRows, WriteLock, WriteIndex, WriteLacks, WriteTable,
       WriteTableFails, WalWrite, WriteAck, WriteNack, WriteLate, flushers
<1>4. ASSUME NEW f \in Flusher, DisableForceFlush(f) PROVE asked'["ticker"] = {}
  BY <1>0, <1>2, <1>4 DEF DisableForceFlush
<1>5. ASSUME Flush PROVE asked'["ticker"] = {}
  BY <1>1, <1>4, <1>5 DEF Flush, WaitStorage, WaitSnapshot, WriteSnapshot,
       IndexFlush, FlushChunks, FreeResource, RemoveWalFile, DropSnapshot, flushers
<1>6. ASSUME ForceFlush \/ ReplayDone PROVE asked'["ticker"] = {}
  BY <1>2, <1>6 DEF ForceFlush, ReplayDone, EnableForceFlush, Flusher
<1>7. ASSUME Reopen PROVE asked'["ticker"] = {}
  BY <1>1, <1>6, <1>7 DEF Reopen, OpenAndEnable, ReplayRow, ReplayFails, RemoveReplayed, Opened, flushers
<1>8. ASSUME NewShard PROVE asked'["ticker"] = {}
  BY <1>8 DEF NewShard, Flusher
<1> QED BY <1>1, <1>3, <1>5, <1>6, <1>7, <1>8 DEF Next, vars, Tick, Close, CloseBegin, CloseWal, CloseMem, CloseWait, CloseDone, Reload, ReloadEarly, Crash, flushers

\* The memtable comes back only with a new shard.
LEMMA AliveBefore ==
    ASSUME [Next]_vars, alive', st' # "down"
    PROVE  alive
<1>1. ASSUME NEW w \in Writer, Write(w) PROVE alive' = alive
  BY <1>1 DEF Write, WriteRows, WriteLock, WriteIndex, WriteLacks, WriteTable,
       WriteTableFails, WalWrite, WriteAck, WriteNack, WriteLate, tables
<1>2. ASSUME Flush PROVE alive' = alive
  BY <1>2 DEF Flush, WaitStorage, WaitSnapshot, WriteSnapshot, DisableForceFlush,
       IndexFlush, FlushChunks, FreeResource, RemoveWalFile, DropSnapshot, tables
<1>3. ASSUME Reopen PROVE alive' = alive
  BY <1>3 DEF Reopen, OpenAndEnable, ReplayRow, ReplayFails, ReplayDone, RemoveReplayed, Opened, tables
<1> QED BY <1>1, <1>2, <1>3 DEF Next, vars, Tick, ForceFlush, Close, CloseBegin, CloseWal, CloseMem, CloseWait, CloseDone, Reload, ReloadEarly, Crash, NewShard, tables

\* Where the rows are that flusher f has been asked for.
Covered(f) ==
    /\ fl[f] # "idle" => asked[f] \subseteq Kept
    /\ fl[f] = "flush" => asked[f] \subseteq Rows(slot[1].tbl) \union Rows(tssp)
    /\ fl[f] = "end" => asked[f] \subseteq Rows(tssp)

\* What a forced flush was asked for moves from the tables to the data files.
LEMMA CoveredStep ==
    ASSUME Inv, [Next]_vars, engine = "ts", alive', st' # "down"
    PROVE  \A f \in Flusher : Covered(f)'
<1> DEFINE C == \A f \in Flusher : Covered(f)'
<1> SUFFICES C
  OBVIOUS
<1>0. /\ TypeInv /\ TypeRun /\ TypeTables /\ alive /\ UNCHANGED <<part, engine>> /\ Slot = {1}
      /\ FlusherInv /\ SlotInv /\ DurableInv /\ asked \in [Flusher -> SUBSET Known]
  BY AliveBefore, SameConfig, OneSlot DEF Inv, TypeInv, TypeRun
<1>1. Kept \subseteq Kept' /\ Rows(tssp) \subseteq Rows(tssp)'
  BY KeptGrows, TsspGrows
<1>2. \A f \in Flusher : Covered(f)
  BY <1>0 DEF Inv, AskedInv, Covered
<1>3. ASSUME NEW f \in Flusher, fl'[f] = fl[f], asked'[f] = asked[f],
             fl[f] = "flush" => Rows(slot[1].tbl)' = Rows(slot[1].tbl)
      PROVE  Covered(f)'
  BY <1>1, <1>2, <1>3 DEF Covered
<1>4. ASSUME slot' = slot PROVE Rows(slot[1].tbl)' = Rows(slot[1].tbl)
  BY <1>4 DEF Rows
<1>5. ASSUME NEW f \in Flusher, fl'[f] \notin {"flush", "end"}, fl'[f] = "idle" \/ asked'[f] \subseteq Kept
      PROVE  Covered(f)'
  BY <1>1, <1>5 DEF Covered
<1>6. ASSUME NEW f \in Flusher, fl'[f] \notin {"flush", "end"}, fl'[f] = "idle" \/ asked'[f] \subseteq Kept,
             \A g \in Flusher : g # f => fl'[g] = fl[g] /\ asked'[g] = asked[g], slot' = slot
      PROVE  C
  BY <1>3, <1>4, <1>5, <1>6
<1>7. ASSUME NEW f \in Flusher, NEW s, fl' = [fl EXCEPT ![f] = s], s \notin {"flush", "end"},
             UNCHANGED <<asked, slot>>, fl[f] # "idle" \/ asked[f] = {}
      PROVE  C
  <2>1. fl'[f] = s /\ \A g \in Flusher : g # f => fl'[g] = fl[g]
    BY <1>0, <1>7, FlusherMoves
  <2>2. asked[f] \subseteq Kept
    BY <1>2, <1>7 DEF Covered
  <2> QED BY <1>3, <1>4, <1>5, <1>7, <2>1, <2>2
<1>8. ASSUME UNCHANGED <<fl, asked, slot>> PROVE C
  BY <1>3, <1>4, <1>8
<1> HIDE DEF C
<1>9. ASSUME NEW f \in Flusher, WaitStorage(f) \/ WaitSnapshot(f) PROVE C
  <2>1. PICK s \in {"ready", "switch"} : fl' = [fl EXCEPT ![f] = s] /\ fl[f] # "idle" /\ UNCHANGED <<asked, slot>>
    BY <1>0, <1>9 DEF WaitStorage, WaitSnapshot, tables
  <2> QED BY <1>7, <2>1
<1>10. ASSUME NEW f \in Flusher, DisableForceFlush(f) PROVE C
  <2>1. /\ fl' = [fl EXCEPT ![f] = "idle"] /\ asked' = [asked EXCEPT ![f] = {}] /\ slot' = slot
    BY <1>10 DEF DisableForceFlush, tables
  <2>2. fl'[f] = "idle" /\ \A g \in Flusher : g # f => fl'[g] = fl[g] /\ asked'[g] = asked[g]
    BY <1>0, <2>1, FlusherMoves
  <2> QED BY <1>6, <2>1, <2>2
<1>11. ASSUME Tick PROVE C
  <2>1. asked["ticker"] = {} /\ "ticker" \in Flusher
    BY DEF Inv, AskedInv, Flusher
  <2>2. fl' = [fl EXCEPT !["ticker"] = "switch"] /\ UNCHANGED <<asked, slot>>
    BY <1>11 DEF Tick, tables
  <2> QED BY <1>7, <2>1, <2>2
<1>12. ASSUME ForceFlush PROVE C
  <2> DEFINE S == IF st = "open" THEN acked \ limited ELSE {}
  <2>1. fl' = [fl EXCEPT !["force"] = "wait"] /\ asked' = [asked EXCEPT !["force"] = S] /\ slot' = slot
    BY <1>12 DEF ForceFlush, EnableForceFlush, tables
  <2>2. S \subseteq Kept
    BY <1>0 DEF DurableInv, Served, Owed
  <2>3. "force" \in Flusher
    BY DEF Flusher
  <2> HIDE DEF S
  <2>4. /\ fl'["force"] = "wait" /\ asked'["force"] = S
        /\ \A g \in Flusher : g # "force" => fl'[g] = fl[g] /\ asked'[g] = asked[g]
    BY <1>0, <2>1, <2>3, FlusherMoves
  <2> QED BY <1>6, <2>1, <2>2, <2>3, <2>4
<1>13. ASSUME ReplayDone PROVE C
  <2>1. fl' = [fl EXCEPT !["replay"] = "wait"] /\ asked' = [asked EXCEPT !["replay"] = acked \ limited] /\ slot' = slot
    BY <1>13 DEF ReplayDone, EnableForceFlush, tables
  <2>2. st = "replay" /\ ~errs /\ \A p \in 1 .. part : todo[p] = << >>
    BY <1>13 DEF ReplayDone
  <2>3. ToReplay = {}
    BY <2>2 DEF ToReplay, ToSet
  <2>4. LogRows \ limited \subseteq Kept
    BY <1>0, <2>2, <2>3 DEF DurableInv, Replayed
  <2>5. acked \ limited \subseteq Kept
    BY <1>0, <2>4 DEF DurableInv, Stored, Owed, Kept
  <2>6. "replay" \in Flusher
    BY DEF Flusher
  <2>7. /\ fl'["replay"] = "wait" /\ asked'["replay"] = acked \ limited
        /\ \A g \in Flusher : g # "replay" => fl'[g] = fl[g] /\ asked'[g] = asked[g]
    BY <1>0, <2>1, <2>6, FlusherMoves
  <2> QED BY <1>6, <2>1, <2>5, <2>6, <2>7
<1>14. ASSUME NEW f \in Flusher, WriteSnapshot(f) PROVE C
  <2>1. PICK i \in FreeSlots : /\ i \in Slot /\ slot[i] = Nil /\ slot'[i].tbl = active
                               /\ fl' = [fl EXCEPT ![f] = "flush"] /\ fl[f] = "switch"
    BY <1>0, <1>14, SnapshotFacts
  <2>2. i = 1 /\ asked' = asked
    BY <1>0, <1>14, <2>1 DEF WriteSnapshot
  <2>3. fl'[f] = "flush" /\ \A g \in Flusher : g # f => fl'[g] = fl[g] /\ fl[g] # "flush"
    <3>1. \A g \in Flusher : fl[g] = "flush" => g = f
      BY <1>0, <2>1 DEF FlusherInv
    <3> QED BY <1>0, <2>1, <3>1, FlusherMoves
  <2>4. asked[f] \subseteq Rows(active) \union Rows(tssp)
    BY <1>2, <2>1, <2>2, MemoryFacts DEF Covered, Kept
  <2>5. Rows(slot[1].tbl)' = Rows(active)
    BY <2>1, <2>2 DEF Rows
  <2>6. asked[f] \subseteq Kept
    BY <1>2, <2>1 DEF Covered
  <2>7. Covered(f)'
    BY <1>1, <2>2, <2>3, <2>4, <2>5, <2>6 DEF Covered
  <2> QED BY <1>3, <2>2, <2>3, <2>7 DEF C
<1>15. ASSUME NEW i \in Slot, IndexFlush(i) \/ FreeResource(i) \/ RemoveWalFile(i) \/ \E k \in Key : FlushChunks(i, k)
       PROVE  C
  <2>1. UNCHANGED <<key, part, engine, fl, asked>>
    BY <1>0, <1>15 DEF IndexFlush, FreeResource, RemoveWalFile, FlushChunks, flushers, history
  <2>2. slot'[i].tbl = slot[i].tbl /\ i = 1
    BY <1>0, <1>15, <2>1, SlotKept
  <2>3. Rows(slot[1].tbl)' = Rows(slot[1].tbl)
    BY <2>2 DEF Rows
  <2> QED BY <1>3, <2>1, <2>3 DEF C
<1>16. ASSUME NEW i \in Slot, DropSnapshot(i) PROVE C
  <2>1. UNCHANGED <<key, part, engine, asked>>
    BY <1>16 DEF DropSnapshot, history, cfgvars
  <2>2. i \in Filled /\ slot[i].stage = "remove" /\ i = 1 /\ slot[i] \in BusySlot
    BY <1>0, <1>16, <2>1, SlotDropped
  <2>3. PICK b \in Flusher : b = slot[1].by /\ fl[b] = "flush"
    BY <1>0, <2>2 DEF SlotInv, Filled, BusySlot
  <2>4. fl' = [fl EXCEPT ![b] = Ended(b)]
    BY <1>0, <1>16, <2>2, <2>3 DEF DropSnapshot
  <2>5. fl'[b] = Ended(b) /\ \A g \in Flusher : g # b => fl'[g] = fl[g] /\ fl[g] # "flush"
    <3>1. \A g \in Flusher : fl[g] = "flush" => g = b
      BY <1>0, <2>3 DEF FlusherInv
    <3> QED BY <1>0, <2>3, <2>4, <3>1, FlusherMoves
  <2>6. Rows(slot[1].tbl) \subseteq Rows(tssp)
    BY <2>2, FlushedTable
  <2>7. asked[b] \subseteq Rows(tssp)
    BY <1>2, <2>3, <2>6 DEF Covered
  <2>8. Covered(b)'
    BY <1>1, <2>1, <2>5, <2>7 DEF Covered, Ended, Kept
  <2> QED BY <1>3, <2>1, <2>5, <2>8 DEF C
<1>17. ASSUME NEW w \in Writer, Write(w) PROVE C
  BY <1>8, <1>17 DEF Write, WriteRows, WriteLock, WriteIndex, WriteLacks, WriteTable,
       WriteTableFails, WalWrite, WriteAck, WriteNack, WriteLate, flushers, tables
<1>18. ASSUME Flush PROVE C
  BY <1>9, <1>10, <1>14, <1>15, <1>16, <1>18 DEF Flush
<1>19. ASSUME Reopen PROVE C
  BY <1>8, <1>13, <1>19 DEF Reopen, OpenAndEnable, ReplayRow, ReplayFails, RemoveReplayed, Opened, flushers, tables
<1>20. ASSUME Close \/ Crash \/ UNCHANGED vars PROVE C
  BY <1>8, <1>20 DEF vars, Close, CloseBegin, CloseWal, CloseMem, CloseWait, CloseDone, Reload, ReloadEarly, Crash, NewShard, flushers, tables
<1> QED BY <1>11, <1>12, <1>17, <1>18, <1>19, <1>20 DEF Next

\* The same, also when the shard goes down.
LEMMA AskedStep == Inv /\ [Next]_vars => AskedInv'
<1> SUFFICES ASSUME Inv, [Next]_vars PROVE AskedInv'
  OBVIOUS
<1>1. asked'["ticker"] = {} /\ UNCHANGED <<part, engine>> /\ FlusherInv'
  BY TickerStep, SameConfig, FlusherStep
<1>2. CASE st' = "down"
  <2>1. \A f \in Flusher : fl'[f] = "idle"
    BY <1>1, <1>2 DEF FlusherInv
  <2> QED BY <1>1, <2>1 DEF AskedInv
<1>3. CASE st' # "down" /\ engine = "ts" /\ alive'
  BY <1>1, <1>3, CoveredStep DEF AskedInv, Covered
<1> QED BY <1>1, <1>2, <1>3 DEF AskedInv

-----------------------------------------------------------------------------
(* Close.                                                                  *)

\* When Close returns, no flush of the time series engine is left.
LEMMA CloseStep == Inv /\ [Next]_vars => CloseInv'
<1> SUFFICES ASSUME Inv, [Next]_vars PROVE CloseInv'
  OBVIOUS
<1>0. /\ CloseInv /\ TypeInv /\ TypeTables /\ SlotInv /\ UNCHANGED <<part, engine>> /\ Slot' = Slot
  BY SameConfig DEF Inv, TypeInv, Slot
<1>1. ASSUME UNCHANGED <<st, closing, closes, alive>>, Filled = {} => Filled' = {} PROVE CloseInv'
  BY <1>0, <1>1 DEF CloseInv
<1>2. ASSUME UNCHANGED <<st, closing, closes, alive, slot>> PROVE CloseInv'
  BY <1>0, <1>1, <1>2 DEF Filled
<1>3. ASSUME st' \notin Closing, closes' = closes, closing' = closing \/ ~closing' PROVE CloseInv'
  BY <1>0, <1>3 DEF CloseInv, Closing
<1>4. ASSUME NEW w \in Writer, Write(w) PROVE CloseInv'
  BY <1>2, <1>4 DEF Write, WriteRows, WriteLock, WriteIndex, WriteLacks, WriteTable,
       WriteTableFails, WalWrite, WriteAck, WriteNack, WriteLate
<1>5. ASSUME NEW f \in Flusher, WriteSnapshot(f) PROVE CloseInv'
  <2>1. UNCHANGED <<st, closing, closes, alive>>
    BY <1>5 DEF WriteSnapshot
  <2>2. CASE alive
    BY <1>0, <2>1, <2>2 DEF CloseInv, Closing
  <2>3. CASE ~alive
    BY <1>2, <1>5, <2>1, <2>3 DEF WriteSnapshot
  <2> QED BY <2>2, <2>3
<1>6. ASSUME NEW i \in Slot, IndexFlush(i) \/ FreeResource(i) \/ RemoveWalFile(i) \/ \E k \in Key : FlushChunks(i, k)
      PROVE  CloseInv'
  <2>1. UNCHANGED <<key, part, engine, st, closing, closes, alive>>
    BY <1>6 DEF IndexFlush, FreeResource, RemoveWalFile, FlushChunks
  <2>2. Filled' = Filled
    BY <1>0, <1>6, <2>1, SlotKept
  <2> QED BY <1>1, <2>1, <2>2
<1>7. ASSUME NEW i \in Slot, DropSnapshot(i) PROVE CloseInv'
  <2>1. UNCHANGED <<key, part, engine, st, closing, closes, alive>>
    BY <1>7 DEF DropSnapshot
  <2>2. Filled' = Filled \ {i}
    BY <1>0, <1>7, <2>1, SlotDropped
  <2> QED BY <1>1, <2>1, <2>2
<1>8. ASSUME NEW f \in Flusher, DisableForceFlush(f) PROVE CloseInv'
  <2>1. UNCHANGED <<closing, closes, alive, slot>> /\ (st' = st \/ st' = "remove")
    BY <1>8 DEF DisableForceFlush
  <2> QED BY <1>2, <1>3, <2>1 DEF Closing
<1>9. ASSUME Flush PROVE CloseInv'
  BY <1>2, <1>5, <1>6, <1>7, <1>8, <1>9 DEF Flush, WaitStorage, WaitSnapshot
<1>10. ASSUME Reopen PROVE CloseInv'
  <2>1. closes' = closes /\ closing' = closing /\ st' \notin Closing
    BY <1>10 DEF Reopen, OpenAndEnable, ReplayRow, ReplayFails, ReplayDone, RemoveReplayed, Opened, Closing
  <2> QED BY <1>3, <2>1
<1>11. ASSUME CloseBegin \/ CloseWal \/ CloseMem PROVE CloseInv'
  <2>1. /\ closes' = closes \/ closes' = closes + 1
        /\ closing' /\ (closing => closes' = closes) /\ (~closing => closes' = closes + 1)
    BY <1>0, <1>11 DEF CloseBegin, CloseWal, CloseMem, CloseInv, Closing
  <2>2. st' \in {"open", "closing"}
    BY <1>11 DEF CloseBegin, CloseWal, CloseMem
  <2>3. closes' \in Nat /\ closes' > 0
    BY <1>0, <2>1 DEF CloseInv
  <2> QED BY <2>1, <2>2, <2>3 DEF CloseInv, Closing
<1>12. ASSUME CloseWait PROVE CloseInv'
  BY <1>0, <1>12 DEF CloseWait, CloseInv, Closing
<1>13. ASSUME CloseDone PROVE CloseInv'
  <2>1. st = "drained" /\ st' = "closed" /\ UNCHANGED <<closing, closes, alive, slot, engine>>
    BY <1>13 DEF CloseDone
  <2>2. ASSUME engine = "ts", NEW i \in Filled PROVE FALSE
    <3>1. fl[slot[i].by] = "flush" /\ slot[i].by \in Flusher
      BY <1>0, <2>2, SlotFacts DEF SlotInv, Filled
    <3> QED BY <1>13, <3>1 DEF CloseDone, Snapshotting
  <2>3. engine = "ts" => Filled' = {}
    BY <1>0, <2>1, <2>2 DEF Filled
  <2> QED BY <1>0, <2>1, <2>3 DEF CloseInv, Closing
<1>14. ASSUME ReloadEarly PROVE CloseInv'
  <2>1. st = "closed" /\ st' = "overtaken" /\ UNCHANGED <<closing, closes, alive>> /\ Filled # {}
    BY <1>14 DEF ReloadEarly, Filled
  <2> QED BY <1>0, <2>1 DEF CloseInv, Closing
<1>15. ASSUME Reload \/ Crash PROVE CloseInv'
  <2>1. closes' = closes /\ ~closing' /\ st' = "down"
    BY <1>15 DEF Reload, Crash, NewShard
  <2> QED BY <1>3, <2>1 DEF Closing
<1> QED BY <1>2, <1>4, <1>9, <1>10, <1>11, <1>12, <1>13, <1>14, <1>15
        DEF Next, vars, Tick, ForceFlush, Close

-----------------------------------------------------------------------------
(* The theorems.                                                           *)

\* A new shard satisfies the invariant.
LEMMA InitInv == Init => Inv
<1> SUFFICES ASSUME Init PROVE Inv
  OBVIOUS
<1>1. TypeInv
  BY InitTypes
<1>2. /\ Filled = {} /\ FreeSlots = Slot
      /\ \A f \in Flusher : fl[f] = "idle" /\ asked[f] = {}
      /\ \A w \in Writer : wr[w].pc = "idle"
      /\ \A p \in 1 .. part : lw[p].names = << >> /\ ~lw[p].fd
      /\ wal = {} /\ acked = {} /\ st = "down" /\ alive /\ ~forceFlush
  BY DEF Init, Filled, FreeSlots, Idle, NoWriter
<1>3. /\ WriterInv /\ NamedCover /\ SlotCover /\ SlotFilesInv
  BY <1>2 DEF WriterInv, NamedCover, SlotCover, SlotFilesInv, Working, Fresh, At
<1>4. FlusherInv
  BY <1>2 DEF FlusherInv, Flusher, Closing
<1>5. SlotInv
  BY <1>2 DEF SlotInv
<1>6. LogInv
  BY <1>2, UnnamedLog DEF LogInv, Unique
<1>7. DurableInv
  <2>1. Owed = {}
    BY <1>2 DEF Owed, At
  <2> QED BY <1>2, <2>1 DEF DurableInv, Stored, Served, Replayed
<1>8. AskedInv
  BY <1>2 DEF AskedInv, Flusher
<1>9. IndexInv
  BY <1>2 DEF IndexInv, Indexing, FilesIndexed, Init, EmptyTable, At
<1>10. CloseInv
  BY <1>2 DEF CloseInv, Closing, Init
<1> QED BY <1>1, <1>3, <1>4, <1>5, <1>6, <1>7, <1>8, <1>9, <1>10 DEF Inv

\* The invariant is inductive, one lemma for each of its parts.
LEMMA Inductive == Spec => []Inv
<1>1. Inv /\ [Next]_vars => Inv'
  BY TypeStep, WriterStep, FlusherStep, SlotStep, LogStep, SlotFilesStep, NamedCoverStep,
     SlotCoverStep, DurableStep, AskedStep, IndexStep, CloseStep DEF Inv
<1> QED BY InitInv, <1>1, PTL DEF Spec

\* Whatever crashes, closes, flushes and replays there are, an acknowledged row of the
\* time series engine is in a log file or in a data file, unless a replay skipped it
\* because of the series limit: nothing else makes removeWalFiles or wal.Remove take
\* the last copy.
THEOREM DurableAlways == Spec => [](engine = "ts" => Durable)
<1>1. Inv => (engine = "ts" => Durable)
  BY DEF Inv, DurableInv, Stored, Owed, Durable
<1> QED BY <1>1, Inductive, PTL

\* An open shard of the time series engine has every acknowledged row that no replay
\* skipped in a table or a data file, after any number of restarts.
THEOREM VisibleAlways == Spec => [](engine = "ts" => Visible)
<1>1. Inv => (engine = "ts" => Visible)
  BY DEF Inv, DurableInv, Served, Owed, Kept, Visible
<1> QED BY <1>1, Inductive, PTL

\* When ForceFlush of the time series engine is over, what was acknowledged when it
\* was asked for, and not skipped by a replay, is in the data files, also when other
\* flushes, writes and Close ran meanwhile.
THEOREM FlushCoversAlways == Spec => [](engine = "ts" => FlushCovers)
<1>1. Inv => (engine = "ts" => FlushCovers)
  BY DEF Inv, AskedInv, FlushCovers
<1> QED BY <1>1, Inductive, PTL

\* A series of the time series engine is in the index on disk before a data file has
\* its rows.
THEOREM IndexCoversAlways == Spec => []IndexCovers
<1>1. Inv => IndexCovers
  BY DEF Inv, IndexInv, Indexing, FilesIndexed, IndexCovers
<1> QED BY <1>1, Inductive, PTL

\* A flush finds a free snapshot table and the log files it has to remove: neither
\* panic of writeSnapshot is reached, by the time series engine with any number of
\* closes and restarts, by the column store up to its first Close.
THEOREM NoPanicAlways == Spec => []NoPanic
<1>1. ASSUME Inv PROVE NoPanic
  <2>1. \A f \in Flusher : fl[f] = "switch" => FreeSlots # {}
    BY <1>1 DEF Inv, FlusherInv
  <2>2. ASSUME NEW i \in Slot \ FreeSlots, NEW j \in DOMAIN slot[i].files
        PROVE  File(slot[i].files[j]) # {}
    <3>1. i \in Filled
      BY DEF Filled, FreeSlots
    <3>2. slot[i].files[j] \in ToSet(slot[i].files)
      BY DEF ToSet
    <3> QED BY <1>1, <3>1, <3>2 DEF Inv, SlotFilesInv
  <2>3. engine = "ts" \/ closes = 0 => st # "overtaken"
    BY <1>1 DEF Inv, CloseInv, Closing
  <2> QED BY <2>1, <2>2, <2>3 DEF NoPanic, NoPanicEver
<1> QED BY <1>1, Inductive, PTL

-----------------------------------------------------------------------------
(* Tokens.                                                                 *)

\* The tokens that are accounted for.
Counted == free + size + TableTokens + Cardinality(Held)

\* No token is created, and up to the first Close none is lost. Only a Close lets a
\* writer be late, and a shard without a memtable has given its tokens back.
TokenInv ==
    /\ free \in Nat /\ closes \in Nat /\ IsFiniteSet(Held)
    /\ Counted <= Limit /\ (closes = 0 => Counted = Limit)
    /\ closing => closes # 0
    /\ (\E w \in Writer : At(w, "late")) => closes # 0
    /\ ~alive => size = 0

\* writeSnapshot hands the size of the memtable on.
LEMMA SnapshotSize ==
    ASSUME TypeInv, NEW f \in Flusher, WriteSnapshot(f), alive
    PROVE  \E i \in Slot :
             /\ slot[i] = Nil /\ Filled' = Filled \union {i}
             /\ slot'[i].stage = "index" /\ slot'[i].size = size /\ size' = 0
             /\ \A j \in Slot : j # i => slot'[j] = slot[j]
<1>1. PICK i \in FreeSlots :
             /\ i \in Slot /\ slot[i] = Nil /\ i \notin Filled
             /\ slot'[i] \in BusySlot /\ slot'[i] # Nil /\ \A j \in Slot : j # i => slot'[j] = slot[j]
             /\ Filled' = Filled \union {i} /\ FreeSlots' = FreeSlots \ {i}
             /\ slot'[i].stage = "index" /\ slot'[i].by = f /\ slot'[i].tbl = active
             /\ slot'[i].size = size
             /\ slot'[i].left = {k \in Key : active[k] # << >>}
             /\ slot'[i].files \in FileOrders([p \in 1 .. part |-> lw[p].names])
             /\ lw' = [p \in 1 .. part |-> [lw[p] EXCEPT !.fd = FALSE, !.names = << >>]]
             /\ active' = EmptyTable /\ size' = 0
             /\ fl' = [fl EXCEPT ![f] = "flush"] /\ fl[f] = "switch"
  BY SnapshotFacts
<1> QED BY <1>1

\* The tokens of the snapshot tables,
LEMMA TableTokensFacts ==
    ASSUME TypeTables
    PROVE  /\ TableTokens \in Nat
           /\ \A i \in Slot : SlotTokens(slot[i]) \in Nat /\ SlotTokens(slot[i]) <= TableTokens
           /\ (\A i \in Slot : slot[i] = Nil) => TableTokens = 0
<1>1. ASSUME NEW i \in Slot
      PROVE  SlotTokens(slot[i]) \in Nat /\ (slot[i] = Nil => SlotTokens(slot[i]) = 0)
  BY SlotFacts DEF SlotTokens, Nil
<1> DEFINE sizes == [i \in Slot |-> SlotTokens(slot[i])]
<1>2. PICK S, f : S = Slot /\ f = sizes
  OBVIOUS
<1>3. IsFiniteSet(S)
  BY <1>2, ShardAssumption, FS_Interval DEF Slot
<1>4. f \in [S -> Nat] /\ \A i \in S : f[i] = SlotTokens(slot[i])
  BY <1>1, <1>2
<1>5. TableTokens = SumFunctionOnSet(f, S)
  BY <1>2 DEF TableTokens
<1> HIDE DEF sizes
<1>6. PICK t : t = SumFunctionOnSet(f, S)
  OBVIOUS
<1>7. t \in Nat /\ (\A i \in S : f[i] <= t) /\ ((\A i \in S : f[i] = 0) => t = 0)
  BY <1>3, <1>4, <1>6, SumNat
<1>8. TableTokens = t
  BY <1>5, <1>6
<1> QED BY <1>1, <1>2, <1>4, <1>7, <1>8

\* and when one of them changes.
LEMMA TableTokensChange ==
    ASSUME TypeTables, TypeTables', UNCHANGED engine, NEW i \in Slot,
           \A j \in Slot : j # i => slot'[j] = slot[j]
    PROVE  /\ TableTokens \in Nat /\ SlotTokens(slot[i]) \in Nat /\ SlotTokens(slot'[i]) \in Nat
           /\ TableTokens' = TableTokens + SlotTokens(slot'[i]) - SlotTokens(slot[i])
<1>0. Slot' = Slot
  BY DEF Slot
<1>1. ASSUME NEW j \in Slot PROVE SlotTokens(slot[j]) \in Nat /\ SlotTokens(slot'[j]) \in Nat
  <2>1. slot[j] \in {Nil} \union BusySlot /\ slot'[j] \in {Nil} \union BusySlot'
    BY <1>0 DEF TypeTables
  <2>2. slot'[j] # Nil => slot'[j].size \in Nat
    BY <2>1 DEF BusySlot
  <2>3. slot[j] # Nil => slot[j].size \in Nat
    BY <2>1 DEF BusySlot
  <2> QED BY <2>2, <2>3 DEF SlotTokens, Nil
<1> DEFINE sizes == [j \in Slot |-> SlotTokens(slot[j])]
           later == [j \in Slot |-> SlotTokens(slot'[j])]
<1>2. PICK S, f, g : S = Slot /\ f = sizes /\ g = later
  OBVIOUS
<1>3. IsFiniteSet(S)
  BY <1>2, ShardAssumption, FS_Interval DEF Slot
<1>4. f \in [S -> Int] /\ \A j \in S : f[j] = SlotTokens(slot[j])
  BY <1>1, <1>2
<1>5. g \in [S -> Int] /\ \A j \in S : g[j] = SlotTokens(slot'[j])
  BY <1>1, <1>2
<1>6. TableTokens = SumFunctionOnSet(f, S)
  BY <1>2 DEF TableTokens
<1>7. TableTokens' = SumFunctionOnSet(g, S)
  <2>1. S = Slot' /\ g = [j \in Slot' |-> SlotTokens(slot'[j])]
    BY <1>0, <1>2
  <2> QED BY <2>1 DEF TableTokens
<1> HIDE DEF sizes, later
<1>8. PICK t, u : t = SumFunctionOnSet(f, S) /\ u = SumFunctionOnSet(g, S)
  OBVIOUS
<1>9. i \in S /\ \A j \in S : j # i => g[j] = f[j]
  BY <1>2, <1>4, <1>5
<1>10. u = t + g[i] - f[i]
  <2>1. f \in [S -> Int] /\ g \in [S -> Int]
    BY <1>4, <1>5
  <2>2. SumFunctionOnSet(g, S) = SumFunctionOnSet(f, S) + g[i] - f[i]
    BY <1>3, <1>9, <2>1, SumChange
  <2> QED BY <1>8, <2>2
<1>11. TableTokens = t /\ TableTokens' = u
  BY <1>6, <1>7, <1>8
<1>12. TableTokens \in Nat
  BY TableTokensFacts
<1> QED BY <1>1, <1>4, <1>5, <1>9, <1>10, <1>11, <1>12

\* A writer gets a token to hold or passes it on.
LEMMA HeldChange ==
    ASSUME TypeRun, IsFiniteSet(Held), NEW w \in Writer, NEW s, wr' = [wr EXCEPT ![w] = s]
    PROVE  /\ IsFiniteSet(Held') /\ Cardinality(Held) \in Nat
           /\ Cardinality(Held') = Cardinality(Held) + (IF s.pc = "mem" THEN 1 ELSE 0)
                                                     - (IF At(w, "mem") THEN 1 ELSE 0)
<1>1. wr'[w] = s /\ \A v \in Writer : v # w => wr'[v] = wr[v]
  BY DEF TypeRun
<1>2. PICK H, K : H = Held /\ K = Held'
  OBVIOUS
<1>3. w \in H <=> At(w, "mem")
  BY <1>2 DEF Held
<1>4. K = IF s.pc = "mem" THEN H \union {w} ELSE H \ {w}
  BY <1>1, <1>2 DEF Held, At
<1>5. Cardinality(H) \in Nat /\ IsFiniteSet(H)
  BY <1>2, FS_CardinalityType
<1>6. CASE s.pc = "mem"
  <2>1. IsFiniteSet(K) /\ Cardinality(K) = IF w \in H THEN Cardinality(H) ELSE Cardinality(H) + 1
    BY <1>4, <1>5, <1>6, FS_AddElement
  <2> QED BY <1>2, <1>3, <1>5, <1>6, <2>1
<1>7. CASE s.pc # "mem"
  <2>1. IsFiniteSet(K) /\ Cardinality(K) = IF w \in H THEN Cardinality(H) - 1 ELSE Cardinality(H)
    BY <1>4, <1>5, <1>7, FS_RemoveElement
  <2> QED BY <1>2, <1>3, <1>5, <1>7, <2>1
<1> QED BY <1>6, <1>7

\* Tables that do not change,
LEMMA SameTables == UNCHANGED <<slot, engine>> => TableTokens' = TableTokens
BY DEF TableTokens, Slot

\* and tables that are all dropped.
LEMMA NoTables == (TypeTables /\ (\A i \in Slot : slot[i] = Nil) => TableTokens = 0)'
<1>1. TypeTables /\ (\A i \in Slot : slot[i] = Nil) => TableTokens = 0
  BY TableTokensFacts
<1> QED BY <1>1, PTL

\* All counts are naturals.
LEMMA TokenTypes ==
    ASSUME TypeTables, TokenInv
    PROVE  /\ free \in Nat /\ size \in Nat /\ TableTokens \in Nat /\ Cardinality(Held) \in Nat
           /\ Limit \in Nat
BY TableTokensFacts, FS_CardinalityType, ShardAssumption DEF TypeTables, TokenInv

\* A step of a writer, which passes on the token it has or takes one.
LEMMA WriterTokens ==
    ASSUME TypeTables, TypeRun, TokenInv, NEW w \in Writer, NEW s, wr' = [wr EXCEPT ![w] = s],
           s.pc # "late", UNCHANGED <<slot, engine, alive, closing, closes>>,
           free' \in Nat, size' \in Nat, ~alive => size' = 0,
           free' + size' + (IF s.pc = "mem" THEN 1 ELSE 0)
             = free + size + (IF At(w, "mem") THEN 1 ELSE 0)
    PROVE  TokenInv'
<1>1. /\ IsFiniteSet(Held') /\ Cardinality(Held) \in Nat
      /\ Cardinality(Held') = Cardinality(Held) + (IF s.pc = "mem" THEN 1 ELSE 0)
                                                - (IF At(w, "mem") THEN 1 ELSE 0)
  BY HeldChange DEF TokenInv
<1>2. TableTokens' = TableTokens
  BY SameTables
<1>3. free \in Nat /\ size \in Nat /\ TableTokens \in Nat
  BY TokenTypes
<1>4. Counted' = Counted
  <2>1. PICK a, b, c, d, e, f, g, h : /\ a = free /\ b = size /\ c = TableTokens /\ d = Cardinality(Held)
                                      /\ e = free' /\ f = size' /\ g = TableTokens' /\ h = Cardinality(Held')
    OBVIOUS
  <2>2. PICK x \in {0, 1} : x = IF s.pc = "mem" THEN 1 ELSE 0
    OBVIOUS
  <2>3. PICK y \in {0, 1} : y = IF At(w, "mem") THEN 1 ELSE 0
    OBVIOUS
  <2>4. /\ a \in Nat /\ b \in Nat /\ c \in Nat /\ d \in Nat /\ e \in Nat /\ f \in Nat
        /\ g = c /\ h = d + x - y /\ e + f + x = a + b + y
    BY <1>1, <1>2, <1>3, <2>1, <2>2, <2>3
  <2>5. e + f + g + h = a + b + c + d
    BY <2>4
  <2> QED BY <2>1, <2>5 DEF Counted
<1>5. ASSUME NEW v \in Writer, At(v, "late")' PROVE At(v, "late")
  BY <1>5 DEF TypeRun, At
<1> QED BY <1>1, <1>4, <1>5 DEF TokenInv

\* A step in which one snapshot table changes.
LEMMA SlotTokensStep ==
    ASSUME TypeTables, TypeTables', TokenInv, NEW i \in Slot, \A j \in Slot : j # i => slot'[j] = slot[j],
           UNCHANGED <<wr, engine, alive, closing, closes>>, free' \in Nat, ~alive => size' = 0,
           free' + size' + SlotTokens(slot'[i]) = free + size + SlotTokens(slot[i])
    PROVE  TokenInv'
<1>1. /\ SlotTokens(slot[i]) \in Nat /\ SlotTokens(slot'[i]) \in Nat
      /\ TableTokens' = TableTokens + SlotTokens(slot'[i]) - SlotTokens(slot[i])
  BY TableTokensChange
<1>2. Held' = Held /\ \A v \in Writer : At(v, "late")' <=> At(v, "late")
  BY DEF Held, At
<1>3. free \in Nat /\ size \in Nat /\ TableTokens \in Nat /\ Cardinality(Held) \in Nat /\ size' \in Nat
  BY TokenTypes DEF TypeTables
<1>4. Counted' = Counted
  <2>1. PICK a, b, c, d, e, f, g, x, y : /\ a = free /\ b = size /\ c = TableTokens /\ d = Cardinality(Held)
                                         /\ e = free' /\ f = size' /\ g = TableTokens'
                                         /\ x = SlotTokens(slot'[i]) /\ y = SlotTokens(slot[i])
    OBVIOUS
  <2>2. /\ a \in Nat /\ b \in Nat /\ c \in Nat /\ d \in Nat /\ e \in Nat /\ f \in Nat /\ x \in Nat /\ y \in Nat
        /\ g = c + x - y /\ e + f + x = a + b + y
    BY <1>1, <1>3, <2>1
  <2>3. e + f + g + d = a + b + c + d
    BY <2>2
  <2> QED BY <1>2, <2>1, <2>3 DEF Counted
<1> QED BY <1>2, <1>4 DEF TokenInv

\* A step that neither takes nor gives back a token.
LEMMA NoTokens ==
    ASSUME TokenInv, UNCHANGED <<free, size, slot, engine, alive, closing, closes>>, Held' = Held,
           \A v \in Writer : At(v, "late")' => At(v, "late") \/ closing
    PROVE  TokenInv'
<1>1. Counted' = Counted
  BY SameTables DEF Counted
<1> QED BY <1>1 DEF TokenInv

\* The writers,
LEMMA WriteTokens ==
    ASSUME Inv, TypeInv', TokenInv, NEW w \in Writer, Write(w)
    PROVE  TokenInv'
<1>0. TypeTables /\ TypeRun /\ TypeTables'
  BY DEF Inv, TypeInv
<1>1. free \in Nat /\ size \in Nat /\ size' \in Nat /\ (~alive => size = 0)
  BY <1>0, TokenTypes DEF TypeTables, TokenInv
<1>2. At(w, "mem") => alive
  BY DEF Inv, WriterInv, FlusherInv, Working, At, Closing
<1>3. wr[w] \in [pc : {"idle", "checked", "alloc", "mem", "wal", "ack", "nack", "late"},
                 row : Known \union {0}, idx : BOOLEAN]
  BY <1>0 DEF TypeRun
<1>4. ASSUME NEW g PROVE [wr[w] EXCEPT !.pc = g].pc = g
  BY <1>3
<1>5. ASSUME NEW k \in Key, WriteRows(w, k) PROVE TokenInv'
  <2> DEFINE s == [pc |-> "checked", row |-> Len(key) + 1, idx |-> FALSE]
  <2>1. /\ wr' = [wr EXCEPT ![w] = s] /\ s.pc = "checked" /\ ~At(w, "mem")
        /\ UNCHANGED <<slot, engine, alive, closing, closes, free, size>>
    BY <1>5 DEF WriteRows, At, tables, cfgvars, bounds
  <2> HIDE DEF s
  <2> QED BY <1>0, <1>1, <2>1, WriterTokens
<1>6. ASSUME WriteLock(w) PROVE TokenInv'
  <2>1. /\ wr' = [wr EXCEPT ![w] = [wr[w] EXCEPT !.pc = "alloc"]] /\ ~At(w, "mem")
        /\ UNCHANGED <<slot, engine, alive, closing, closes, free, size>>
    BY <1>6 DEF WriteLock, Goto, At, tables, cfgvars, bounds
  <2>2. PICK s : s = [wr[w] EXCEPT !.pc = "alloc"]
    OBVIOUS
  <2> QED BY <1>0, <1>1, <1>4, <2>1, <2>2, WriterTokens
<1>7. ASSUME NEW ok \in BOOLEAN, WriteIndex(w, ok) PROVE TokenInv'
  <2>1. /\ wr' = [wr EXCEPT ![w] = [wr[w] EXCEPT !.pc = "mem", !.idx = ok]] /\ ~At(w, "mem")
        /\ UNCHANGED <<slot, engine, alive, closing, closes, size>> /\ free > 0 /\ free' = free - 1
    BY <1>7 DEF WriteIndex, At, tables, cfgvars, bounds
  <2>2. PICK s : s = [wr[w] EXCEPT !.pc = "mem", !.idx = ok]
    OBVIOUS
  <2>3. s.pc = "mem"
    BY <1>3, <2>2
  <2>4. free' \in Nat /\ free' + size' + 1 = free + size + 0
    BY <1>1, <2>1
  <2> QED BY <1>0, <1>1, <2>1, <2>2, <2>3, <2>4, WriterTokens
<1>8. ASSUME WriteLacks(w) \/ WriteAck(w) \/ WriteNack(w) PROVE TokenInv'
  <2>1. /\ wr' = [wr EXCEPT ![w] = Idle] /\ Idle.pc = "idle" /\ ~At(w, "mem")
        /\ UNCHANGED <<slot, engine, alive, closing, closes, free, size>>
    BY <1>8 DEF WriteLacks, WriteAck, WriteNack, At, Idle, tables, cfgvars, bounds
  <2> QED BY <1>0, <1>1, <2>1, WriterTokens
<1>9. ASSUME WriteTable(w) PROVE TokenInv'
  <2>1. /\ wr' = [wr EXCEPT ![w] = [wr[w] EXCEPT !.pc = "wal"]] /\ At(w, "mem")
        /\ UNCHANGED <<slot, engine, alive, closing, closes, free>> /\ size' = size + 1
    BY <1>9 DEF WriteTable, Goto, tables, cfgvars, bounds
  <2>2. PICK s : s = [wr[w] EXCEPT !.pc = "wal"]
    OBVIOUS
  <2>3. free' \in Nat /\ free' + size' + 0 = free + size + 1
    BY <1>1, <2>1
  <2> QED BY <1>0, <1>1, <1>2, <1>4, <2>1, <2>2, <2>3, WriterTokens
<1>10. ASSUME WriteTableFails(w) PROVE TokenInv'
  <2>1. /\ wr' = [wr EXCEPT ![w] = Idle] /\ Idle.pc = "idle" /\ At(w, "mem")
        /\ UNCHANGED <<slot, engine, alive, closing, closes, free>> /\ size' = size + 1
    BY <1>10 DEF WriteTableFails, Idle, tables, cfgvars, bounds
  <2>2. free' \in Nat /\ free' + size' + 0 = free + size + 1
    BY <1>1, <2>1
  <2> QED BY <1>0, <1>1, <1>2, <2>1, <2>2, WriterTokens
<1>11. ASSUME WalWrite(w) PROVE TokenInv'
  <2>1. PICK g \in {"ack", "nack"} : wr' = [wr EXCEPT ![w] = [wr[w] EXCEPT !.pc = g]]
    BY <1>11 DEF WalWrite, Goto
  <2>2. /\ ~At(w, "mem")
        /\ UNCHANGED <<slot, engine, alive, closing, closes, free, size>>
    BY <1>11 DEF WalWrite, At, tables, cfgvars, bounds
  <2>3. PICK s : s = [wr[w] EXCEPT !.pc = g]
    OBVIOUS
  <2>4. s.pc = g /\ g # "mem" /\ g # "late"
    BY <1>4, <2>3
  <2> QED BY <1>0, <1>1, <2>1, <2>2, <2>3, <2>4, WriterTokens
<1>12. ASSUME WriteLate(w) PROVE TokenInv'
  <2>1. /\ wr' = [wr EXCEPT ![w] = Idle] /\ Idle.pc = "idle" /\ At(w, "late") /\ ~At(w, "mem")
        /\ UNCHANGED <<slot, engine, alive, closing, closes, size>> /\ free > 0 /\ free' = free - 1
    BY <1>12 DEF WriteLate, At, Idle, tables, cfgvars, bounds
  <2>2. IsFiniteSet(Held') /\ Cardinality(Held) \in Nat /\ Cardinality(Held') = Cardinality(Held) + 0 - 0
    BY <1>0, <2>1, HeldChange DEF TokenInv
  <2>3. TableTokens' = TableTokens /\ TableTokens \in Nat /\ Limit \in Nat
    BY <1>0, <2>1, SameTables, TokenTypes
  <2>4. closes # 0 /\ closes' = closes /\ Counted <= Limit
    BY <2>1 DEF TokenInv
  <2>5. free' \in Nat /\ Counted' <= Limit
    <3>1. PICK a \in Nat, b \in Nat, c \in Nat, d \in Nat :
            a = free /\ b = size /\ c = TableTokens /\ d = Cardinality(Held)
      BY <1>1, <2>2, <2>3
    <3>2. PICK e, h : e = free' /\ h = Cardinality(Held')
      OBVIOUS
    <3>3. e = a - 1 /\ a > 0 /\ h = d
      BY <2>1, <2>2, <3>1, <3>2
    <3>4. a + b + c + d <= Limit
      BY <2>4, <3>1 DEF Counted
    <3>5. e \in Nat /\ e + b + c + h <= Limit
      BY <2>3, <3>3, <3>4
    <3> QED BY <2>1, <2>3, <3>1, <3>2, <3>5 DEF Counted
  <2> QED BY <1>1, <2>1, <2>2, <2>4, <2>5 DEF TokenInv
<1> QED BY <1>5, <1>6, <1>7, <1>8, <1>9, <1>10, <1>11, <1>12 DEF Write

\* the flushes,
LEMMA FlushTokens ==
    ASSUME Inv, TypeInv', TokenInv, Flush
    PROVE  TokenInv'
<1>0. TypeTables /\ TypeTables'
  BY DEF Inv, TypeInv
<1>1. free \in Nat /\ size \in Nat /\ size' \in Nat /\ (~alive => size = 0)
  BY <1>0, TokenTypes DEF TypeTables, TokenInv
<1>2. ASSUME NEW f \in Flusher, WaitStorage(f) \/ WaitSnapshot(f) \/ DisableForceFlush(f)
      PROVE  TokenInv'
  <2>1. UNCHANGED <<free, size, slot, engine, alive, closing, closes, wr>>
    BY <1>2 DEF WaitStorage, WaitSnapshot, DisableForceFlush, tables, cfgvars, bounds
  <2> QED BY <2>1, NoTokens DEF Held, At
<1>3. ASSUME NEW f \in Flusher, WriteSnapshot(f) PROVE TokenInv'
  <2>1. UNCHANGED <<engine, alive, closing, closes, wr, free>>
    BY <1>3 DEF WriteSnapshot, cfgvars, bounds
  <2>2. CASE ~alive
    <3>1. UNCHANGED <<size, slot>>
      BY <1>3, <2>2 DEF WriteSnapshot
    <3> QED BY <2>1, <3>1, NoTokens DEF Held, At
  <2>3. CASE alive
    <3>1. PICK i \in Slot :
             /\ slot[i] = Nil /\ Filled' = Filled \union {i}
             /\ slot'[i].stage = "index" /\ slot'[i].size = size /\ size' = 0
             /\ \A j \in Slot : j # i => slot'[j] = slot[j]
      <4>1. TypeInv
        BY DEF Inv
      <4> QED BY <1>3, <2>3, <4>1, SnapshotSize
    <3>2. SlotTokens(slot[i]) = 0 /\ SlotTokens(slot'[i]) = size
      BY <3>1 DEF SlotTokens, Nil
    <3>3. free' + size' + SlotTokens(slot'[i]) = free + size + SlotTokens(slot[i])
      BY <1>1, <2>1, <3>1, <3>2
    <3> QED BY <1>0, <1>1, <2>1, <3>1, <3>3, SlotTokensStep
  <2> QED BY <2>2, <2>3
<1>4. ASSUME NEW i \in Slot, IndexFlush(i) \/ FreeResource(i) \/ RemoveWalFile(i) \/ \E k \in Key : FlushChunks(i, k)
      PROVE  TokenInv'
  <2>1. UNCHANGED <<key, part, engine, alive, closing, closes, wr, size>>
    BY <1>4 DEF IndexFlush, FreeResource, RemoveWalFile, FlushChunks, history, cfgvars, bounds
  <2>2. /\ slot[i] \in BusySlot /\ slot'[i].size = slot[i].size
        /\ \A j \in Slot : j # i => slot'[j] = slot[j]
    BY <1>0, <1>4, <2>1, SlotKept
  <2>3. slot[i].size \in Nat
    BY <2>2 DEF BusySlot
  <2>4. CASE FreeResource(i)
    <3>1. slot'[i].stage = "remove" /\ slot[i].stage = "chunks" /\ free' = free + slot[i].size
      BY <1>0, <1>4, <2>1, <2>4, SlotKept DEF FreeResource
    <3>2. SlotTokens(slot'[i]) = 0 /\ SlotTokens(slot[i]) = slot[i].size
      BY <3>1 DEF SlotTokens
    <3>3. free' \in Nat /\ free' + size' + SlotTokens(slot'[i]) = free + size + SlotTokens(slot[i])
      BY <1>1, <2>1, <2>3, <3>1, <3>2
    <3> QED BY <1>0, <1>1, <2>1, <2>2, <3>3, SlotTokensStep
  <2>5. CASE IndexFlush(i) \/ RemoveWalFile(i) \/ \E k \in Key : FlushChunks(i, k)
    <3>1. free' = free
      BY <2>5 DEF IndexFlush, RemoveWalFile, FlushChunks
    <3>2. slot'[i].stage \in {"nil", "remove"} <=> slot[i].stage \in {"nil", "remove"}
      <4>1. CASE IndexFlush(i)
        BY <1>0, <2>1, <4>1, SlotKept DEF IndexFlush
      <4>2. CASE RemoveWalFile(i)
        BY <1>0, <2>1, <4>2, SlotKept DEF RemoveWalFile
      <4>3. ASSUME NEW k \in Key, FlushChunks(i, k)
            PROVE  slot'[i].stage = "chunks" /\ slot[i].stage = "chunks"
        BY <1>0, <2>1, <4>3, SlotKept DEF FlushChunks
      <4> QED BY <2>5, <4>1, <4>2, <4>3
    <3>3. SlotTokens(slot'[i]) = SlotTokens(slot[i])
      BY <2>2, <3>2 DEF SlotTokens
    <3>4. free' + size' + SlotTokens(slot'[i]) = free + size + SlotTokens(slot[i])
      BY <2>1, <3>1, <3>3
    <3> QED BY <1>0, <1>1, <2>1, <2>2, <3>1, <3>4, SlotTokensStep
  <2> QED BY <1>4, <2>4, <2>5
<1>5. ASSUME NEW i \in Slot, DropSnapshot(i) PROVE TokenInv'
  <2>1. UNCHANGED <<key, part, engine, alive, closing, closes, wr, size, free>>
    BY <1>5 DEF DropSnapshot, history, cfgvars, bounds
  <2>2. slot[i].stage = "remove" /\ slot'[i] = Nil /\ \A j \in Slot : j # i => slot'[j] = slot[j]
    BY <1>0, <1>5, <2>1, SlotDropped
  <2>3. SlotTokens(slot[i]) = 0 /\ SlotTokens(slot'[i]) = 0
    BY <2>2 DEF SlotTokens, Nil
  <2>4. free' + size' + SlotTokens(slot'[i]) = free + size + SlotTokens(slot[i])
    BY <2>1, <2>3
  <2> QED BY <1>0, <1>1, <2>1, <2>2, <2>4, SlotTokensStep
<1> QED BY <1>2, <1>3, <1>4, <1>5 DEF Flush

\* opening, closing and crashing.
LEMMA TokenStep ==
    ASSUME Inv, TypeInv', TokenInv, [Next]_vars
    PROVE  TokenInv'
<1>0. TypeTables /\ TypeTables' /\ TypeReplay
  BY DEF Inv, TypeInv
<1>1. free \in Nat /\ size \in Nat /\ size' \in Nat /\ (~alive => size = 0) /\ TableTokens \in Nat /\ Limit \in Nat
      /\ Cardinality(Held) \in Nat
  BY <1>0, TokenTypes DEF TypeTables, TokenInv
<1>2. ASSUME \/ UNCHANGED vars \/ Tick \/ ForceFlush
             \/ OpenAndEnable \/ ReplayFails \/ ReplayDone \/ RemoveReplayed \/ Opened
      PROVE  TokenInv'
  <2>1. UNCHANGED <<free, size, slot, engine, alive, closing, closes, wr>>
    BY <1>2 DEF vars, Tick, ForceFlush, OpenAndEnable, ReplayFails, ReplayDone, RemoveReplayed, Opened,
                EnableForceFlush, RestoreLogs, tables, cfgvars, bounds
  <2> QED BY <2>1, NoTokens DEF Held, At
<1>3. ASSUME NEW out \in Outcomes, ReplayRow(out) PROVE TokenInv'
  <2>1. UNCHANGED <<slot, engine, alive, closing, closes, wr>> /\ alive
    BY <1>3 DEF ReplayRow, cfgvars, bounds, Inv, FlusherInv, Closing
  <2>2. \/ free > 0 /\ free' = free - 1 /\ size' = size + 1
        \/ UNCHANGED <<free, size>>
    BY <1>3 DEF ReplayRow
  <2>3. free' \in Nat /\ free' + size' = free + size
    BY <1>1, <2>2
  <2>4. Held' = Held /\ TableTokens' = TableTokens /\ \A v \in Writer : At(v, "late")' <=> At(v, "late")
    BY <2>1, SameTables DEF Held, At
  <2>5. Counted' = Counted
    BY <1>1, <2>3, <2>4 DEF Counted
  <2> QED BY <2>1, <2>3, <2>4, <2>5 DEF TokenInv
<1>4. ASSUME CloseBegin PROVE TokenInv'
  <2>1. UNCHANGED <<free, size, slot, engine, alive, wr>> /\ closes' = closes + 1
    BY <1>4 DEF CloseBegin, tables, cfgvars
  <2>2. Held' = Held /\ TableTokens' = TableTokens
    BY <2>1, SameTables DEF Held, At
  <2>3. Counted' = Counted
    BY <2>1, <2>2 DEF Counted
  <2>4. closes' \in Nat /\ closes' # 0
    BY <2>1 DEF TokenInv
  <2> QED BY <2>1, <2>2, <2>3, <2>4 DEF TokenInv
<1>5. ASSUME CloseWal PROVE TokenInv'
  <2>1. UNCHANGED <<free, size, slot, engine, alive, closing, closes>> /\ closing
    BY <1>5 DEF CloseWal, tables, cfgvars, bounds
  <2>2. wr' = [w \in Writer |-> IF At(w, "checked") THEN [wr[w] EXCEPT !.pc = "late"] ELSE wr[w]]
    BY <1>5 DEF CloseWal
  <2>3. ASSUME NEW w \in Writer PROVE wr'[w].pc = IF At(w, "checked") THEN "late" ELSE wr[w].pc
    <3>1. TypeRun
      BY DEF Inv, TypeInv
    <3>2. [wr[w] EXCEPT !.pc = "late"].pc = "late"
      BY <3>1 DEF TypeRun
    <3> QED BY <2>2, <3>2
  <2>4. Held' = Held
    BY <2>3 DEF Held, At
  <2> QED BY <2>1, <2>4, NoTokens
<1>6. ASSUME CloseMem PROVE TokenInv'
  <2>1. UNCHANGED <<slot, engine, closing, closes, wr>> /\ free' = free + size /\ size' = 0
    BY <1>6 DEF CloseMem, cfgvars, bounds
  <2>2. Held' = Held /\ TableTokens' = TableTokens /\ \A v \in Writer : At(v, "late")' <=> At(v, "late")
    BY <2>1, SameTables DEF Held, At
  <2>3. Counted' = Counted /\ free' \in Nat
    BY <1>1, <2>1, <2>2 DEF Counted
  <2> QED BY <2>1, <2>2, <2>3 DEF TokenInv
<1>7. ASSUME Reload PROVE TokenInv'
  <2>1. UNCHANGED <<slot, engine, closes, wr, free>> /\ size' = 0 /\ ~alive /\ alive' /\ ~closing'
    BY <1>7 DEF Reload, NewShard, cfgvars, bounds, Inv, CloseInv, Closing
  <2>2. Held' = Held /\ TableTokens' = TableTokens /\ \A v \in Writer : At(v, "late")' <=> At(v, "late")
    BY <2>1, SameTables DEF Held, At
  <2>3. Counted' = Counted
    BY <1>1, <2>1, <2>2 DEF Counted
  <2> QED BY <2>1, <2>2, <2>3 DEF TokenInv
<1>8. ASSUME Crash PROVE TokenInv'
  <2>1. /\ UNCHANGED <<engine, closes>> /\ free' = Limit /\ size' = 0 /\ alive' /\ ~closing'
        /\ slot' = [i \in Slot |-> Nil] /\ wr' = [w \in Writer |-> Idle]
    BY <1>8 DEF Crash, NewShard, cfgvars
  <2>2. Held' = {} /\ \A v \in Writer : ~At(v, "late")'
    BY <2>1 DEF Held, At, Idle
  <2>3. Slot' = Slot /\ \A i \in Slot : slot'[i] = Nil
    BY <2>1 DEF Slot
  <2>4. TableTokens' = 0
    BY <1>0, <2>3, NoTables
  <2>5. IsFiniteSet(Held') /\ Cardinality(Held') = 0
    BY <2>2, FS_EmptySet
  <2>6. Counted' = Limit
    BY <1>1, <2>1, <2>4, <2>5 DEF Counted
  <2> QED BY <1>1, <2>1, <2>2, <2>5, <2>6 DEF TokenInv
<1>9. ASSUME Quiet PROVE TokenInv'
  <2>1. UNCHANGED <<free, size, slot, engine, alive, closing, closes, wr>>
    BY <1>9, QuietFacts
  <2> QED BY <2>1, NoTokens DEF Held, At
<1> QED BY <1>2, <1>3, <1>4, <1>5, <1>6, <1>7, <1>8, <1>9, WriteTokens, FlushTokens DEF Next, Reopen, Close, Quiet

\* The account of the tokens is kept.
LEMMA TokenInduction == Spec => [](Inv /\ TokenInv)
<1>1. Init => TokenInv
  <2> SUFFICES ASSUME Init PROVE TokenInv
    OBVIOUS
  <2>1. TypeTables
    BY InitTypes DEF TypeInv
  <2>2. Held = {} /\ (\A w \in Writer : ~At(w, "late")) /\ \A i \in Slot : slot[i] = Nil
    BY DEF Init, Held, At, Idle
  <2>3. TableTokens = 0 /\ IsFiniteSet(Held) /\ Cardinality(Held) = 0
    BY <2>1, <2>2, TableTokensFacts, FS_EmptySet
  <2>4. free = Limit /\ size = 0 /\ closes = 0 /\ ~closing /\ alive /\ Limit \in Nat
    BY ShardAssumption DEF Init
  <2>5. Counted = Limit
    BY <2>3, <2>4 DEF Counted
  <2> QED BY <2>2, <2>3, <2>4, <2>5 DEF TokenInv
<1>2. Inv /\ TokenInv /\ [Next]_vars => TokenInv'
  BY TypeStep, TokenStep
<1> QED BY <1>1, <1>2, Inductive, PTL DEF Spec

\* No table is larger than the limit, not even one whose tokens have gone back.
SizeInv == \A i \in Filled : slot[i].size <= Limit

\* writeSnapshot is the one step that gives a snapshot table its size.
LEMMA SizeStep == Inv /\ TokenInv /\ SizeInv /\ [Next]_vars => SizeInv'
<1> SUFFICES ASSUME Inv, TokenInv, SizeInv, [Next]_vars PROVE SizeInv'
  OBVIOUS
<1>0. TypeInv /\ TypeTables /\ UNCHANGED <<part, engine>>
  BY SameConfig DEF Inv, TypeInv
<1>1. ASSUME UNCHANGED slot PROVE SizeInv'
  <2>1. Filled' = Filled
    BY <1>0, <1>1 DEF Filled, Slot
  <2> QED BY <1>1, <2>1 DEF SizeInv
<1>2. ASSUME NEW w \in Writer, Write(w) PROVE SizeInv'
  <2>1. UNCHANGED slot
    BY <1>2 DEF Write, WriteRows, WriteLock, WriteIndex, WriteLacks, WriteTable, WriteTableFails, WalWrite,
                WriteAck, WriteNack, WriteLate, tables
  <2> QED BY <1>1, <2>1
<1>3. ASSUME Tick \/ ForceFlush \/ Reopen \/ Close PROVE SizeInv'
  <2>1. UNCHANGED slot
    BY <1>3 DEF Tick, ForceFlush, Reopen, Close, OpenAndEnable, ReplayRow, ReplayFails, ReplayDone,
                RemoveReplayed, Opened, CloseBegin, CloseWal, CloseMem, CloseWait, CloseDone, Reload, ReloadEarly, tables
  <2> QED BY <1>1, <2>1
<1>4. ASSUME NEW f \in Flusher, WaitStorage(f) \/ WaitSnapshot(f) \/ DisableForceFlush(f) PROVE SizeInv'
  <2>1. UNCHANGED slot
    BY <1>4 DEF WaitStorage, WaitSnapshot, DisableForceFlush, tables
  <2> QED BY <1>1, <2>1
<1>5. ASSUME NEW f \in Flusher, WriteSnapshot(f) PROVE SizeInv'
  <2>1. CASE ~alive
    BY <1>1, <1>5, <2>1 DEF WriteSnapshot
  <2>2. CASE alive
    <3>1. PICK i \in Slot :
             /\ slot[i] = Nil /\ Filled' = Filled \union {i}
             /\ slot'[i].stage = "index" /\ slot'[i].size = size /\ size' = 0
             /\ \A j \in Slot : j # i => slot'[j] = slot[j]
      BY <1>0, <1>5, <2>2, SnapshotSize
    <3>2. size <= Limit
      <4>1. free \in Nat /\ size \in Nat /\ TableTokens \in Nat /\ Cardinality(Held) \in Nat /\ Limit \in Nat
        BY <1>0, TokenTypes
      <4>2. free + size + TableTokens + Cardinality(Held) <= Limit
        BY DEF TokenInv, Counted
      <4> QED BY <4>1, <4>2
    <3> QED BY <3>1, <3>2 DEF SizeInv, Filled
  <2> QED BY <2>1, <2>2
<1>6. ASSUME NEW i \in Slot, IndexFlush(i) \/ FreeResource(i) \/ RemoveWalFile(i) \/ \E k \in Key : FlushChunks(i, k)
      PROVE  SizeInv'
  <2>1. UNCHANGED <<key, part, engine>>
    BY <1>6 DEF IndexFlush, FreeResource, RemoveWalFile, FlushChunks, history, cfgvars
  <2>2. /\ Filled' = Filled /\ slot'[i].size = slot[i].size
        /\ \A j \in Slot : j # i => slot'[j] = slot[j]
    BY <1>0, <1>6, <2>1, SlotKept
  <2> QED BY <2>2 DEF SizeInv, Filled
<1>7. ASSUME NEW i \in Slot, DropSnapshot(i) PROVE SizeInv'
  <2>1. UNCHANGED <<key, part, engine>>
    BY <1>7 DEF DropSnapshot, history, cfgvars
  <2>2. Filled' = Filled \ {i} /\ \A j \in Slot : j # i => slot'[j] = slot[j]
    BY <1>0, <1>7, <2>1, SlotDropped
  <2> QED BY <2>2 DEF SizeInv, Filled
<1>8. ASSUME Crash PROVE SizeInv'
  <2>1. Slot' = Slot /\ \A i \in Slot : slot'[i] = Nil
    BY <1>0, <1>8 DEF Crash, Slot
  <2>2. Filled' = {}
    BY <2>1 DEF Filled
  <2> QED BY <2>2 DEF SizeInv
<1> QED BY <1>1, <1>2, <1>3, <1>4, <1>5, <1>6, <1>7, <1>8 DEF Next, Flush, vars, tables

\* "Token is released during the snapshot process": up to the first Close every token
\* that allocResource has handed out is accounted for by a table that is not flushed
\* or by a writer on its way to the table, for any number of writers, flushes,
\* snapshot tables, replays and crashes.
THEOREM TokensReleasedAlways == Spec => []TokensReleasedOpen
<1>1. Inv /\ TokenInv => TokensReleasedOpen
  BY DEF TokenInv, Counted, TokensReleasedOpen, TokensReleased
<1> QED BY <1>1, TokenInduction, PTL

\* The state keeps its type; above all, the free tokens of the node and the size of each
\* table never exceed the limit of nodeMutableLimit, also when Close drops the
\* memtable under a flush or a writer.
THEOREM TypeOKAlways == Spec => []TypeOK
<1>1. Inv /\ TokenInv /\ SizeInv => TypeOK
  <2> SUFFICES ASSUME Inv, TokenInv, SizeInv PROVE TypeOK
    OBVIOUS
  <2>0. TypeInv /\ TypeTables
    BY DEF Inv, TypeInv
  <2>1. size \in 0 .. Limit /\ free \in 0 .. Limit
    <3>1. free \in Nat /\ size \in Nat /\ TableTokens \in Nat /\ Cardinality(Held) \in Nat /\ Limit \in Nat
      BY <2>0, TokenTypes
    <3>2. free + size + TableTokens + Cardinality(Held) <= Limit
      BY DEF TokenInv, Counted
    <3> QED BY <3>1, <3>2
  <2>2. Known \subseteq Row
    BY <2>0, ShardAssumption, LenProperties DEF TypeInv, TypeHist, Known, Row
  <2>3. Seq(Known) \subseteq Seq(Row) /\ Seq(SUBSET Known) \subseteq Seq(SUBSET Row)
    BY <2>2, SeqDef
  <2>4. Table \subseteq [Key -> Seq(Row)]
    BY <2>3 DEF Table
  <2>5. ASSUME NEW i \in Slot, slot[i] # Nil
        PROVE  /\ slot[i].stage \in {"index", "chunks", "remove"} /\ slot[i].by \in Flusher
               /\ slot[i].tbl \in [Key -> Seq(Row)] /\ slot[i].size \in 0 .. Limit
               /\ slot[i].left \subseteq Key
    <3>1. /\ slot[i].stage \in {"index", "chunks", "remove"} /\ slot[i].by \in Flusher
          /\ slot[i].tbl \in Table /\ slot[i].size \in Nat /\ slot[i].left \subseteq Key
      BY <2>0, <2>5, SlotFacts
    <3>2. slot[i].size <= Limit
      BY <2>5 DEF SizeInv, Filled
    <3> QED BY <2>4, <3>1, <3>2, ShardAssumption
  <2>6. \A f \in wal : f.part \in 1 .. part /\ f.seq \in Nat \ {0} /\ f.rows \in Seq(Row)
    BY <2>0, <2>3 DEF TypeInv, TypeDisk, LogFile
  <2>7. tssp \in [Key -> Seq(Row)] /\ active \in [Key -> Seq(Row)]
    BY <2>0, <2>4 DEF TypeInv, TypeDisk, TypeTables
  <2>8. /\ wr \in [Writer -> [pc : {"idle", "checked", "alloc", "mem", "wal", "ack", "nack",
                                    "late"}, row : 0 .. MaxWrite, idx : BOOLEAN]]
        /\ asked \in [Flusher -> SUBSET Row]
    <3>1. Known \union {0} \subseteq 0 .. MaxWrite
      BY <2>2, ShardAssumption DEF Row
    <3>2. asked \in [Flusher -> SUBSET Row]
      BY <2>0, <2>2 DEF TypeInv, TypeRun
    <3> HIDE DEF Known
    <3>3. \A w \in Writer : wr[w] \in [pc : {"idle", "checked", "alloc", "mem", "wal", "ack", "nack",
                                             "late"}, row : 0 .. MaxWrite, idx : BOOLEAN]
      BY <2>0, <3>1 DEF TypeInv, TypeRun
    <3> QED BY <2>0, <3>2, <3>3 DEF TypeInv, TypeRun
  <2>9. todo \in [1 .. part -> Seq(Row)] /\ before \in Seq(SUBSET Row) /\ acked \subseteq Row
        /\ limited \subseteq Row
    BY <2>0, <2>2, <2>3 DEF TypeInv, TypeReplay, TypeHist
  <2>10. /\ part \in 1 .. MaxPart /\ engine \in Engines /\ writeReq \in 0 .. (part - 1)
         /\ idxDisk \subseteq Key /\ idxMem \subseteq Key
         /\ lw \in [1 .. part -> [seq : Nat, fd : BOOLEAN, names : Names]]
         /\ alive \in BOOLEAN
         /\ fl \in [Flusher -> {"idle", "wait", "ready", "switch", "flush", "end"}]
         /\ forceFlush \in BOOLEAN /\ closing \in BOOLEAN /\ errs \in BOOLEAN
         /\ st \in {"down", "replay", "flush", "remove", "failed", "open", "closing", "drained",
                    "closed", "overtaken"}
         /\ names \in [1 .. part -> Names] /\ turn \in 1 .. part /\ key \in Seq(Key)
    BY <2>0 DEF TypeInv, TypeConfig, TypeDisk, TypeLog, TypeTables, TypeRun, TypeReplay, TypeHist, Closing
  <2> QED BY <2>1, <2>5, <2>6, <2>7, <2>8, <2>9, <2>10 DEF TypeOK
<1>2. Init => SizeInv
  BY DEF Init, SizeInv, Filled
<1> QED BY <1>1, <1>2, SizeStep, TokenInduction, PTL DEF Spec
=============================================================================
