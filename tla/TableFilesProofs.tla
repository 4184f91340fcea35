-------------------------- MODULE TableFilesProofs --------------------------
(***************************************************************************)
(* Proofs about the names of the immutable files (module TableStore): a    *)
(* listed file is on disk, recovery lists one ordered file of a sequence,  *)
(* and a query keeps every file it has a reference to.                     *)
(***************************************************************************)
EXTENDS TableStoreProofs

-----------------------------------------------------------------------------
(* Names.                                                                  *)

\* Two files of one list and one sequence, and which of them is the older: a task
\* names a file after the one it replaces, with a higher level or merge count.
Same(f, g) == f.ord = g.ord /\ f.seq = g.seq
Older(f, g) == Same(f, g) /\ (f.level < g.level \/ (f.level = g.level /\ f.merge < g.merge))
Unique(S) == \A f, g \in S : Same(f, g) => f = g
Apart(S, T) == \A f \in S, g \in T : ~Same(f, g)
Alone(S, T) == \A f \in S, h \in T : Same(f, h) => f = h

Lists == order \cup unord
Pending == IF fl.pc \in {"build", "lists"} THEN fl.files ELSE {}
Running == st \notin {"closed", "recover"}

\* The kinds of files, by ord, an argument is about.
Kinds == {{TRUE}, BOOLEAN}
Of(K, S) == {f \in S : f.ord \in K}

-----------------------------------------------------------------------------
(* The inductive invariant.                                                *)

Working(j) == j.pc \in {"run", "built", "logged", "delete"}
Written(j) == j.pc \in {"built", "logged", "delete"}
LogOf(j) == [new |-> j.new, old |-> OldOf(j), ord |-> j.ord]

\* A log names new files each of which has the name of an old one, but is newer.
LogOK(l) ==
    /\ \A f \in l.new : \E h \in l.old : Older(h, f)
    /\ Unique(l.old) /\ Unique(l.new) /\ l.new # {}
    /\ \A f \in l.new \cup l.old : f.ord = l.ord

TaskFiles(j) == j.in \cup j.un \cup j.new \cup j.old \cup j.rest
LogFiles(l) == l.new \cup l.old
Settled ==
    (tssp \ Pending) \cup init \cup Lists \cup gc
        \cup (UNION {TaskFiles(job[w]) : w \in Jobs}) \cup (UNION {LogFiles(l) : l \in log})

\* The files a flush has written but not listed have the highest sequences.
SeqInv ==
    /\ fileSeq \in Nat
    /\ \A g \in Settled : g.seq \in Nat /\ g.seq <= fileSeq
    /\ \A p \in Pending : p.seq \in Nat /\ p.seq <= fileSeq /\ \A g \in Settled : g.seq < p.seq
    /\ Unique(Pending) /\ Pending \subseteq tssp

\* A listed file is on disk, and the only one of its sequence.
ListInv(K) == Unique(Of(K, Lists)) /\ Of(K, Lists) \subseteq tssp

\* A task with the lists L, the files D and I on disk under their names and the
\* temporary ones, and the logs G: no other file has a name of the files it
\* replaces, and what it wrote is on disk until it is listed.
TaskOK(K, j, L, D, I, G) ==
    Working(j) /\ j.ord \in K =>
        /\ Unique(OldOf(j)) /\ Alone(L, OldOf(j))
        /\ Written(j) => LogOK(LogOf(j))
        /\ j.pc \in {"built", "logged"} => j.old = OldOf(j) /\ j.new \subseteq D \cup I
        /\ j.pc = "delete" => j.new \subseteq D /\ j.old \subseteq OldOf(j) /\ L \cap OldOf(j) \subseteq j.old
        /\ j.pc \in {"logged", "delete"} => LogOf(j) \in G
TasksInv(K) == \A w \in Jobs : TaskOK(K, job[w], Lists, tssp, init, log)

\* What a task is about, of whatever kind: it replaces something by something, and
\* the unordered files it deletes afterwards are listed until then.
Shape(j, u) ==
    /\ j.pc # "idle" /\ j.ord => j.in # {}
    /\ Written(j) => j.new # {}
    /\ j.pc \in {"built", "logged", "delete", "rest", "drop"} => j.rest \subseteq u
    /\ Written(j) => j.rest \cap j.old = {}
ShapeInv == \A w \in Jobs : Shape(job[w], unord)

ApartInv ==
    \A v, w \in Jobs : v # w /\ Working(job[v]) /\ Working(job[w]) => Apart(OldOf(job[v]), OldOf(job[w]))

\* A file that waits for its readers is older than the one that has its name now,
\* or will have it.
OlderThan(S, T) == \A g \in S, f \in T : Same(g, f) => Older(g, f)
GcInv(K) ==
    /\ Of(K, gc) \subseteq init
    /\ OlderThan(Of(K, gc), Lists)
    /\ \A w \in Jobs : Written(job[w]) => OlderThan(Of(K, gc), job[w].new)

\* The logs of ordered files: what they name is on disk, and each has its task
\* unless the task was stopped.
OrdLogs == {l \in log : l.ord}
LogHeld(l, L, D, I) == LogOK(l) /\ l.new \subseteq D \cup I /\ Alone(L, l.old)
LogsApart(G) == \A l, m \in G : l # m => Apart(l.old, m.old)
LogInv == (\A l \in OrdLogs : LogHeld(l, Lists, tssp, init)) /\ LogsApart(OrdLogs)
Owned(l) == \E w \in Jobs : job[w].pc \in {"logged", "delete"} /\ l = LogOf(job[w])
Orphan(l) ==
    /\ st # "open" /\ l.new \subseteq tssp
    /\ \A w \in Jobs : Working(job[w]) => Apart(l.old, OldOf(job[w]))
OwnerInv == \A l \in OrdLogs : Owned(l) \/ Orphan(l)

\* An ordered file on disk is listed, or will be.
LogNew == UNION {l.new : l \in OrdLogs}
DiskInv == \A f \in tssp : f.ord => f \in Lists \cup Pending \cup LogNew

RunInv(K) ==
    /\ SeqInv /\ ListInv(K) /\ TasksInv(K) /\ ShapeInv /\ ApartInv /\ GcInv(K)
    /\ LogInv /\ OwnerInv /\ DiskInv

\* While the store is closed or recovers: of two ordered files of a sequence one
\* replaces the other, and a log says so.
Disk == {f \in tssp : f.ord} \cup LogNew
Replaces(l, f, g) == (f \in l.old /\ g \in l.new) \/ (g \in l.old /\ f \in l.new)
RecoverInv ==
    /\ \A l \in OrdLogs : LogOK(l) /\ l.new \subseteq tssp \cup init
    /\ LogsApart(OrdLogs)
    /\ \A f, g \in Disk : Same(f, g) /\ f # g => \E l \in OrdLogs : Replaces(l, f, g)
QuietInv ==
    /\ gc = {} /\ order = {} /\ unord = {} /\ fl = IdleFlush /\ refs = [r \in Reader |-> {}]
    /\ RecoverInv

StopInv == stop => st = "stopping"
FilesInv(K) == StopInv /\ (Running => RunInv(K)) /\ (~Running => QuietInv)

\* No crash or close leaves an unordered file beside the one that replaces it:
\* recovery does not process the logs of unordered files.
NamesUnique == st = "recover" => Unique({f \in tssp : ~f.ord})

-----------------------------------------------------------------------------
(* Facts about names.                                                      *)

\* Same is an equivalence, Older a strict order.
LEMMA NameFacts ==
    /\ \A f : Same(f, f)
    /\ \A f, g : Same(f, g) => Same(g, f)
    /\ \A f, g, h : Same(f, g) /\ Same(g, h) => Same(f, h)
    /\ \A f, g : Older(f, g) => Same(f, g)
BY DEF Same, Older

\* A file is not older than itself, and what is older than an older file is older.
LEMMA OlderFacts ==
    /\ \A f \in File : ~Older(f, f)
    /\ \A f, g, h \in File : Older(f, g) /\ Older(g, h) => Older(f, h)
<1>1. \A f \in File : f.level \in Nat /\ f.merge \in Nat
  BY DEF File
<1> QED BY <1>1 DEF Older, Same

\* The files of a log are two by two different: no new one is an old one.
LEMMA LogFacts ==
    ASSUME NEW l, LogOK(l), l.new \subseteq File, l.old \subseteq File
    PROVE  /\ l.new \cap l.old = {}
           /\ \A f \in l.new : \E h \in l.old : Same(f, h)
<1>1. \A f \in l.new : \E h \in l.old : Older(h, f) /\ Same(h, f)
  BY NameFacts DEF LogOK
<1>2. \A f, g \in l.old : Same(f, g) => f = g
  BY DEF LogOK, Unique
<1>3. l.new \cap l.old = {}
  BY <1>1, <1>2, OlderFacts
<1> QED BY <1>1, <1>3, NameFacts

\* The files a task replaces.
LEMMA OldOfFacts ==
    ASSUME NEW w \in Jobs, NEW j \in Job, Kind(w, j), j.pc # "idle", NEW u, Shape(j, u)
    PROVE  /\ OldOf(j) \subseteq File /\ OldOf(j) # {} /\ \A f \in OldOf(j) : f.ord = j.ord
           /\ j.ord => OldOf(j) = j.in
           /\ OldOf(j) \subseteq j.in \cup j.un
<1>0. j.in \in SUBSET Ordered /\ j.un \in SUBSET Unordered /\ j.ord \in BOOLEAN
      /\ j.mode \in {"none", "normal", "fast", "stream"} /\ Ordered \subseteq File /\ Unordered \subseteq File
  BY DEF Job, Ordered, Unordered
<1>1. OldOf(j) \subseteq File /\ \A f \in OldOf(j) : f.ord = j.ord
  BY OldFacts
<1>2. CASE j.ord
  <2>1. j.mode \notin {"fast", "stream"} /\ j.in # {}
    BY <1>0, <1>2 DEF Kind, Shape
  <2>2. OldOf(j) = j.in
    BY <1>2, <2>1 DEF OldOf
  <2> QED BY <1>1, <2>1, <2>2
<1>3. CASE ~j.ord
  <2>1. j.un # {} /\ j.mode \in {"fast", "stream"}
    BY <1>0, <1>3 DEF Kind, Jobs
  <2>2. First(j.un) \in j.un
    BY <1>0, <2>1, FirstFacts
  <2>3. OldOf(j) = j.un \/ OldOf(j) = {First(j.un)}
    BY <1>3 DEF OldOf
  <2> QED BY <1>1, <1>3, <2>1, <2>2, <2>3
<1> QED BY <1>2, <1>3

\* The file a rewrite gives is newer.
LEMMA RewrittenOlder ==
    ASSUME NEW f \in File, NEW r
    PROVE  Older(f, [f EXCEPT !.merge = @ + 1, !.rows = r])
<1>1. PICK e : e = [f EXCEPT !.merge = @ + 1, !.rows = r]
  OBVIOUS
<1>2. e.seq = f.seq /\ e.ord = f.ord /\ e.level = f.level /\ e.merge = f.merge + 1 /\ f.merge \in Nat
  BY <1>1 DEF File
<1> QED BY <1>1, <1>2 DEF Older, Same

\* What Build writes has the names of the files it replaces.
LEMMA NewNames ==
    ASSUME NEW w \in Jobs, NEW j \in Job, Kind(w, j), j.pc = "run", NEW u, Shape(j, u), NEW rows,
           NEW new, new = NewOf(w, j, rows)
    PROVE  /\ \A f \in new : \E h \in OldOf(j) : Older(h, f)
           /\ new # {}
           /\ Unique(OldOf(j)) => Unique(new)
<1>0. j.in \in SUBSET Ordered /\ j.un \in SUBSET Unordered /\ j.ord \in BOOLEAN
      /\ j.mode \in {"none", "normal", "fast", "stream"} /\ Ordered \subseteq File /\ Unordered \subseteq File
  BY DEF Job, Ordered, Unordered
<1>1. CASE w = "compact"
  <2>1. new = Compacted(j.in) /\ j.ord /\ j.in # {} /\ j.in \in SUBSET File
    BY <1>0, <1>1 DEF Kind, NewOf
  <2>2. PICK h : h = First(j.in)
    OBVIOUS
  <2>3. h \in j.in /\ h \in File /\ h.ord = TRUE /\ h.level \in Nat
    BY <1>0, <2>1, <2>2, FirstFacts DEF Ordered, File
  <2>4. PICK r : r = [t \in Time |-> Max({f.rows[t] : f \in j.in})]
    OBVIOUS
  <2>5. PICK f : f = [seq |-> h.seq, level |-> h.level + 1, merge |-> 0, ord |-> TRUE, rows |-> r]
    OBVIOUS
  <2>6. new = {f}
    BY <2>1, <2>2, <2>4, <2>5 DEF Compacted
  <2>7. Older(h, f)
    <3>1. f.seq = h.seq /\ f.level = h.level + 1 /\ f.ord = TRUE
      BY <2>5
    <3>2. Same(h, f)
      BY <2>3, <3>1, Zenon DEF Same
    <3>3. h.level < f.level
      BY <2>3, <3>1
    <3> QED BY <3>2, <3>3 DEF Older
  <2>8. h \in OldOf(j)
    BY <2>1, <2>3, OldOfFacts
  <2> QED BY <2>6, <2>7, <2>8 DEF Unique
<1>2. CASE w # "compact" /\ j.mode = "normal"
  <2>1. new = MergedInto(j.in, rows) /\ j.ord /\ j.in # {}
    BY <1>2 DEF Kind, NewOf, Shape
  <2> DEFINE T(f) == {t \in Time : /\ f = Last(j.in) \/ t <= Max(Times(f.rows))
                                   /\ \A g \in j.in : g.seq < f.seq => t > Max(Times(g.rows))}
             e(f) == [f EXCEPT !.merge = @ + 1, !.rows = Over(Only(rows, T(f)), f.rows)]
  <2>2. new = {e(f) : f \in j.in}
    BY <2>1 DEF MergedInto
  <2>3. \A f \in j.in : Older(f, e(f))
    BY <1>0, RewrittenOlder
  <2>4. OldOf(j) = j.in
    BY <2>1, OldOfFacts
  <2> HIDE DEF e, T
  <2>5. \A f, g \in j.in : Same(e(f), e(g)) => Same(f, g)
    BY <2>3, NameFacts
  <2>6. Unique(j.in) => Unique(new)
    BY <2>2, <2>5 DEF Unique
  <2> QED BY <2>1, <2>2, <2>3, <2>4, <2>6
<1>3. CASE w # "compact" /\ j.mode # "normal"
  <2>1. new = SelfMerged(j.un, rows) /\ ~j.ord /\ j.un # {} /\ j.mode \in {"fast", "stream"}
    BY <1>0, <1>3 DEF Kind, Jobs, NewOf
  <2>2. PICK h : h = First(j.un)
    OBVIOUS
  <2>3. h \in j.un /\ h \in File
    BY <1>0, <2>1, <2>2, FirstFacts
  <2>4. PICK f : f = [h EXCEPT !.merge = @ + 1, !.rows = rows]
    OBVIOUS
  <2>5. new = {f} /\ Older(h, f)
    BY <2>1, <2>2, <2>3, <2>4, RewrittenOlder DEF SelfMerged
  <2>6. h \in OldOf(j)
    BY <2>1, <2>2, <2>3 DEF OldOf
  <2> QED BY <2>5, <2>6 DEF Unique
<1> QED BY <1>1, <1>2, <1>3

-----------------------------------------------------------------------------
(* What a step may leave alone.                                            *)

\* A task that does not move: no file of the name of one it replaces is listed, and
\* no file it wrote and no log of it is lost.
LEMMA TaskKept ==
    ASSUME NEW K, NEW j, NEW L, NEW D, NEW I, NEW G, NEW M, NEW E, NEW J, NEW H,
           TaskOK(K, j, L, D, I, G),
           Working(j) /\ j.ord \in K =>
               /\ \A f \in M : f \in L \/ \A h \in OldOf(j) : ~Same(f, h)
               /\ Written(j) => \A f \in j.new : (f \in D => f \in E) /\ (f \in I => f \in E \cup J)
               /\ j.pc \in {"logged", "delete"} /\ LogOf(j) \in G => LogOf(j) \in H
    PROVE  TaskOK(K, j, M, E, J, H)
<1> SUFFICES ASSUME Working(j), j.ord \in K
             PROVE  /\ Unique(OldOf(j)) /\ Alone(M, OldOf(j))
                    /\ Written(j) => LogOK(LogOf(j))
                    /\ j.pc \in {"built", "logged"} => j.old = OldOf(j) /\ j.new \subseteq E \cup J
                    /\ j.pc = "delete" => j.new \subseteq E /\ j.old \subseteq OldOf(j) /\ M \cap OldOf(j) \subseteq j.old
                    /\ j.pc \in {"logged", "delete"} => LogOf(j) \in H
  BY DEF TaskOK
<1>1. /\ Unique(OldOf(j)) /\ Alone(L, OldOf(j))
      /\ Written(j) => LogOK(LogOf(j))
      /\ j.pc \in {"built", "logged"} => j.old = OldOf(j) /\ j.new \subseteq D \cup I
      /\ j.pc = "delete" => j.new \subseteq D /\ j.old \subseteq OldOf(j) /\ L \cap OldOf(j) \subseteq j.old
      /\ j.pc \in {"logged", "delete"} => LogOf(j) \in G
  BY DEF TaskOK
<1>2. Alone(M, OldOf(j))
  BY <1>1 DEF Alone
<1>3. M \cap OldOf(j) \subseteq L
  BY NameFacts
<1>4. j.pc \in {"built", "logged"} => j.new \subseteq E \cup J
  BY <1>1 DEF Written
<1>5. j.pc = "delete" => j.new \subseteq E /\ M \cap OldOf(j) \subseteq j.old
  BY <1>1, <1>3 DEF Written
<1> QED BY <1>1, <1>2, <1>4, <1>5

\* A log that is not processed.
LEMMA LogKept ==
    ASSUME NEW l, NEW L, NEW D, NEW I, NEW M, NEW E, NEW J, LogHeld(l, L, D, I),
           \A f \in M : f \in L \/ \A h \in l.old : ~Same(f, h),
           \A f \in l.new : f \in D \cup I => f \in E \cup J
    PROVE  LogHeld(l, M, E, J)
BY DEF LogHeld, Alone

\* A step that names no new sequence: its new files N have those of others.
LEMMA SeqStep ==
    ASSUME SeqInv, Pending' = Pending, fileSeq' = fileSeq, Pending \subseteq tssp',
           NEW N, \A g \in N : \E h \in Settled : h.seq = g.seq,
           tssp' \subseteq tssp \cup N, init' \subseteq init \cup N, Lists' \subseteq Lists \cup N, gc' \subseteq gc \cup N,
           \A w \in Jobs : TaskFiles(job'[w]) \subseteq TaskFiles(job[w]) \cup N,
           \A l \in log' : l \in log \/ LogFiles(l) \subseteq N
    PROVE  SeqInv'
<1> DEFINE T == UNION {TaskFiles(job[w]) : w \in Jobs}
           U == UNION {LogFiles(l) : l \in log}
<1>1. T' \subseteq T \cup N
  OBVIOUS
<1>2. U' \subseteq U \cup N
  OBVIOUS
<1>3. Settled = (tssp \ Pending) \cup init \cup Lists \cup gc \cup T \cup U
  BY DEF Settled
<1>4. Settled' = (tssp' \ Pending') \cup init' \cup Lists' \cup gc' \cup T' \cup U'
  BY DEF Settled
<1> HIDE DEF T, U
<1>5. Settled' \subseteq Settled \cup N
  BY <1>1, <1>2, <1>3, <1>4
<1>6. \A g \in Settled' : \E h \in Settled : h.seq = g.seq
  BY <1>5
<1> QED BY <1>6 DEF SeqInv, Unique

\* The files a task knows of and a log names are settled.
LEMMA SettledFacts ==
    /\ init \subseteq Settled /\ Lists \subseteq Settled /\ gc \subseteq Settled
    /\ \A w \in Jobs : TaskFiles(job[w]) \subseteq Settled
    /\ \A l \in log : LogFiles(l) \subseteq Settled
BY DEF Settled

\* A file of the flush that is not listed yet has no name of another file.
LEMMA PendingFacts ==
    ASSUME SeqInv, NEW p \in Pending, NEW g \in Settled
    PROVE  ~Same(p, g) /\ p # g
<1>1. p.seq \in Nat /\ g.seq \in Nat /\ g.seq < p.seq
  BY DEF SeqInv
<1> QED BY <1>1 DEF Same

-----------------------------------------------------------------------------
(* Steps that move no file.                                                *)

\* Nothing the invariant is about changes.
LEMMA FrameStep ==
    ASSUME NEW K, RunInv(K), Pending' = Pending,
           UNCHANGED <<fileSeq, tssp, init, log, order, unord, gc, job>>, st' = st \/ st' # "open"
    PROVE  RunInv(K)'
<1>0. Lists' = Lists /\ Settled' = Settled /\ OrdLogs' = OrdLogs /\ LogNew' = LogNew
  BY DEF Lists, Settled, OrdLogs, LogNew
<1>1. SeqInv' /\ ListInv(K)' /\ TasksInv(K)' /\ ShapeInv' /\ ApartInv' /\ GcInv(K)'
  <2>1. SeqInv'
    BY <1>0 DEF RunInv, SeqInv
  <2>2. ListInv(K)' /\ TasksInv(K)' /\ ShapeInv' /\ ApartInv'
    BY <1>0 DEF RunInv, ListInv, TasksInv, ShapeInv, ApartInv
  <2>3. GcInv(K)'
    BY <1>0 DEF RunInv, GcInv
  <2> QED BY <2>1, <2>2, <2>3
<1>2. LogInv' /\ DiskInv'
  BY <1>0 DEF RunInv, LogInv, DiskInv
<1>3. OwnerInv'
  <2>1. \A l : (Owned(l) => Owned(l)') /\ (Orphan(l) => Orphan(l)')
    BY DEF Owned, Orphan
  <2> QED BY <1>0, <2>1 DEF RunInv, OwnerInv
<1> QED BY <1>1, <1>2, <1>3 DEF RunInv

\* A flush that has finished no file has none to list.
LEMMA FlushFrame ==
    ASSUME TypeFlush, LoadOrder \/ LoadUnord \/ TurnCold \/ FreeSequencer \/ (\E t \in Time : Write(t)) \/ FlushChunks
                        \/ MakeTSSPFiles \/ DropSnapshot \/ (\E r \in Reader : GetBothFilesRef(r) \/ Unref(r))
                        \/ CloseBegin \/ StopNil
    PROVE  /\ Pending' = Pending /\ UNCHANGED <<fileSeq, tssp, init, log, order, unord, gc, job>>
           /\ st' = st \/ st' # "open"
<1>1. UNCHANGED <<fileSeq, tssp, init, log, order, unord, gc, job>> /\ (st' = st \/ st' # "open")
  BY DEF LoadOrder, LoadUnord, TurnCold, FreeSequencer, Write, FlushChunks, MakeTSSPFiles, DropSnapshot,
         GetBothFilesRef, Unref, CloseBegin, StopNil, diskVars, listVars
<1>2. CASE FlushChunks
  <2>1. fl.pc = "idle" /\ fl'.files = {}
    BY <1>2 DEF FlushChunks, IdleFlush
  <2> QED BY <1>1, <2>1 DEF Pending
<1>3. CASE MakeTSSPFiles
  <2>1. fl.pc = "build" /\ fl'.pc = "lists" /\ fl'.files = fl.files
    BY <1>3 DEF MakeTSSPFiles, TypeFlush, FlushJob
  <2> QED BY <1>1, <2>1 DEF Pending
<1>4. CASE DropSnapshot
  <2>1. fl.pc = "added" /\ fl'.files = {}
    BY <1>4 DEF DropSnapshot, IdleFlush
  <2> QED BY <1>1, <2>1 DEF Pending
<1>5. CASE LoadOrder \/ LoadUnord \/ TurnCold \/ FreeSequencer \/ (\E t \in Time : Write(t))
           \/ (\E r \in Reader : GetBothFilesRef(r) \/ Unref(r)) \/ CloseBegin \/ StopNil
  <2>1. fl' = fl
    BY <1>5 DEF LoadOrder, LoadUnord, TurnCold, FreeSequencer, Write, GetBothFilesRef, Unref, CloseBegin, StopNil, memVars
  <2> QED BY <1>1, <2>1 DEF Pending
<1> QED BY <1>2, <1>3, <1>4, <1>5


-----------------------------------------------------------------------------
(* Flush and collector.                                                    *)

\* The files a task replaces are settled, and of its kind.
LEMMA ReplacedFacts ==
    ASSUME TypeJob, KindInv, ShapeInv, NEW w \in Jobs, job[w].pc # "idle"
    PROVE  /\ OldOf(job[w]) \subseteq File /\ OldOf(job[w]) # {} /\ OldOf(job[w]) \subseteq TaskFiles(job[w])
           /\ \A f \in OldOf(job[w]) : f.ord = job[w].ord
           /\ job[w].ord => OldOf(job[w]) = job[w].in
           /\ OldOf(job[w]) \subseteq job[w].in \cup job[w].un
           /\ OldOf(job[w]) \subseteq Settled
<1>0. job[w] \in Job /\ Kind(w, job[w]) /\ Shape(job[w], unord)
  BY DEF TypeJob, KindInv, ShapeInv
<1>1. /\ OldOf(job[w]) \subseteq File /\ OldOf(job[w]) # {} /\ \A f \in OldOf(job[w]) : f.ord = job[w].ord
      /\ job[w].ord => OldOf(job[w]) = job[w].in
      /\ OldOf(job[w]) \subseteq job[w].in \cup job[w].un
  BY <1>0, OldOfFacts
<1>2. OldOf(job[w]) \subseteq TaskFiles(job[w])
  BY <1>1 DEF TaskFiles
<1> QED BY <1>1, <1>2, SettledFacts

\* A flush finishes a file: nobody has its name.
LEMMA FinishFileStep ==
    ASSUME NEW K, TypeFlush, RunInv(K), NEW o \in BOOLEAN, FinishFile(o)
    PROVE  RunInv(K)'
<1>1. PICK f : f = [seq |-> fileSeq + 1, level |-> 0, merge |-> 0, ord |-> o, rows |-> fl.rows[o]]
  OBVIOUS
<1>2. /\ fl.pc = "build" /\ fl' = [fl EXCEPT !.rows[o] = Empty, !.files = @ \cup {f}]
      /\ tssp' = tssp \cup {f} /\ fileSeq' = fileSeq + 1 /\ f.seq = fileSeq + 1
      /\ UNCHANGED <<init, log, order, unord, gc, job, st>>
  BY <1>1 DEF FinishFile, listVars
<1>3. Pending' = Pending \cup {f}
  <2>1. fl'.pc = "build" /\ fl'.files = fl.files \cup {f}
    BY <1>2 DEF TypeFlush, FlushJob
  <2> QED BY <1>2, <2>1 DEF Pending
<1>4. Lists' = Lists /\ OrdLogs' = OrdLogs /\ LogNew' = LogNew
  BY <1>2 DEF Lists, OrdLogs, LogNew
<1>5. Settled' \subseteq Settled
  BY <1>2, <1>3, <1>4 DEF Settled
<1>6. SeqInv'
  <2>1. \A g \in Settled : g.seq \in Nat /\ g.seq <= fileSeq /\ g.seq <= fileSeq + 1 /\ g.seq < fileSeq + 1
    BY DEF RunInv, SeqInv
  <2>2. \A p \in Pending : p.seq \in Nat /\ p.seq <= fileSeq /\ p.seq <= fileSeq + 1 /\ p.seq # fileSeq + 1
    BY DEF RunInv, SeqInv
  <2>3. Unique(Pending')
    BY <1>2, <1>3, <2>2 DEF RunInv, SeqInv, Unique, Same
  <2>4. fileSeq + 1 \in Nat /\ fileSeq \in Nat /\ fileSeq + 1 <= fileSeq + 1
    BY DEF RunInv, SeqInv
  <2>5. \A p \in Pending, g \in Settled : g.seq < p.seq
    BY DEF RunInv, SeqInv
  <2>6. Pending' \subseteq tssp'
    BY <1>2, <1>3 DEF RunInv, SeqInv
  <2> QED BY <1>2, <1>3, <1>5, <2>1, <2>2, <2>3, <2>4, <2>5, <2>6 DEF SeqInv
<1>7. ListInv(K)' /\ ShapeInv' /\ ApartInv' /\ GcInv(K)'
  BY <1>2, <1>4 DEF RunInv, ListInv, ShapeInv, ApartInv, GcInv
<1>8. TasksInv(K)'
  <2>1. \A w \in Jobs : TaskOK(K, job[w], Lists, tssp', init, log)
    BY <1>2, TaskKept DEF RunInv, TasksInv
  <2> QED BY <1>2, <1>4, <2>1 DEF TasksInv
<1>9. LogInv'
  <2>1. \A l \in OrdLogs : LogHeld(l, Lists, tssp', init)
    BY <1>2, LogKept DEF RunInv, LogInv
  <2> QED BY <1>2, <1>4, <2>1 DEF RunInv, LogInv
<1>10. OwnerInv'
  <2>1. \A l : (Owned(l) => Owned(l)') /\ (Orphan(l) => Orphan(l)')
    BY <1>2 DEF Owned, Orphan
  <2> QED BY <1>4, <2>1 DEF RunInv, OwnerInv
<1>11. DiskInv'
  BY <1>2, <1>3, <1>4 DEF RunInv, DiskInv
<1> QED BY <1>6, <1>7, <1>8, <1>9, <1>10, <1>11 DEF RunInv

\* The files of the flush are listed.
LEMMA AddBothStep ==
    ASSUME NEW K, TypeFlush, TypeJob, KindInv, RunInv(K), AddBothTSSPFiles
    PROVE  RunInv(K)'
<1>1. PICK un : un = {f \in fl.files : ~f.ord}
  OBVIOUS
<1>2. /\ fl.pc = "lists" /\ fl' = [fl EXCEPT !.pc = "added", !.ref = FALSE]
      /\ order' = order \cup (fl.files \ un) /\ (unord' = unord \/ unord' = unord \cup un)
      /\ UNCHANGED <<fileSeq, tssp, init, log, gc, job, st>>
  BY <1>1 DEF AddBothTSSPFiles, diskVars
<1>3. Pending' = {} /\ Pending = fl.files
  <2>1. fl'.pc = "added"
    BY <1>2 DEF TypeFlush, FlushJob
  <2> QED BY <1>2, <2>1 DEF Pending
<1>4. OrdLogs' = OrdLogs /\ LogNew' = LogNew
  BY <1>2 DEF OrdLogs, LogNew
<1>5. /\ Lists \subseteq Lists' /\ Lists' \subseteq Lists \cup Pending /\ unord \subseteq unord'
      /\ \A f \in Pending : f.ord => f \in Lists'
  BY <1>1, <1>2, <1>3 DEF Lists
<1>6. Settled' \subseteq Settled \cup Pending
  BY <1>2, <1>3, <1>5 DEF Settled
<1>7. SeqInv'
  BY <1>2, <1>3, <1>6 DEF RunInv, SeqInv, Unique
<1>8. \A p \in Pending, g \in Settled : ~Same(p, g) /\ ~Same(g, p)
  BY PendingFacts, NameFacts DEF RunInv
<1>9. ListInv(K)'
  <2>1. Unique(Of(K, Lists'))
    BY <1>5, <1>8, SettledFacts DEF RunInv, ListInv, SeqInv, Unique, Of
  <2>2. Of(K, Lists') \subseteq tssp
    BY <1>5 DEF RunInv, ListInv, SeqInv, Of
  <2> QED BY <1>2, <2>1, <2>2 DEF ListInv, Of
<1>10. ShapeInv' /\ ApartInv'
  BY <1>2, <1>5 DEF RunInv, ShapeInv, Shape, ApartInv
<1>11. GcInv(K)'
  <2>1. Of(K, gc) \subseteq Settled
    BY SettledFacts DEF Of
  <2>2. OlderThan(Of(K, gc), Lists')
    BY <1>5, <1>8, <2>1 DEF RunInv, GcInv, OlderThan
  <2> QED BY <1>2, <2>2 DEF RunInv, GcInv, Of
<1>12. TasksInv(K)'
  <2>1. ASSUME NEW w \in Jobs PROVE TaskOK(K, job[w], Lists', tssp, init, log)
    <3>1. Working(job[w]) => OldOf(job[w]) \subseteq Settled
      BY ReplacedFacts DEF RunInv, Working
    <3>2. Working(job[w]) => \A f \in Lists' : f \in Lists \/ \A h \in OldOf(job[w]) : ~Same(f, h)
      BY <1>5, <1>8, <3>1
    <3>3. TaskOK(K, job[w], Lists, tssp, init, log)
      BY DEF RunInv, TasksInv
    <3> QED BY <3>2, <3>3, TaskKept
  <2> QED BY <1>2, <2>1 DEF TasksInv
<1>13. LogInv'
  <2>1. ASSUME NEW l \in OrdLogs PROVE LogHeld(l, Lists', tssp, init)
    <3>1. l.old \subseteq Settled
      BY SettledFacts DEF OrdLogs, LogFiles
    <3>2. \A f \in Lists' : f \in Lists \/ \A h \in l.old : ~Same(f, h)
      BY <1>5, <1>8, <3>1
    <3>3. LogHeld(l, Lists, tssp, init)
      BY DEF RunInv, LogInv
    <3> QED BY <3>2, <3>3, LogKept
  <2> QED BY <1>2, <1>4, <2>1 DEF RunInv, LogInv
<1>14. OwnerInv'
  <2>1. \A l : (Owned(l) => Owned(l)') /\ (Orphan(l) => Orphan(l)')
    BY <1>2 DEF Owned, Orphan
  <2> QED BY <1>4, <2>1 DEF RunInv, OwnerInv
<1>15. DiskInv'
  BY <1>2, <1>4, <1>5 DEF RunInv, DiskInv
<1> QED BY <1>7, <1>9, <1>10, <1>11, <1>12, <1>13, <1>14, <1>15 DEF RunInv

\* The collector removes no file that a task has written: what it removes is older.
LEMMA GCStep ==
    ASSUME NEW K \in Kinds, TypeFiles, TypeJob, KindInv, RunInv(K), GC
    PROVE  RunInv(K)'
<1>1. PICK idle : idle \subseteq gc /\ init' = init \ idle /\ gc' = gc \ idle
  BY DEF GC
<1>2. UNCHANGED <<fileSeq, tssp, log, order, unord, job, st, fl>>
  BY DEF GC, listVars, memVars
<1>3. Lists' = Lists /\ OrdLogs' = OrdLogs /\ LogNew' = LogNew /\ Pending' = Pending
  BY <1>2 DEF Lists, OrdLogs, LogNew, Pending
<1>4. SeqInv'
  <2>1. \A w \in Jobs : TaskFiles(job'[w]) \subseteq TaskFiles(job[w]) \cup {}
    BY <1>2
  <2>2. tssp' \subseteq tssp \cup {} /\ init' \subseteq init \cup {} /\ Lists' \subseteq Lists \cup {} /\ gc' \subseteq gc \cup {}
        /\ Pending \subseteq tssp' /\ \A l \in log' : l \in log \/ LogFiles(l) \subseteq {}
    BY <1>1, <1>2, <1>3 DEF RunInv, SeqInv
  <2> QED BY <1>2, <1>3, <2>1, <2>2, SeqStep DEF RunInv
<1>5. ListInv(K)' /\ ShapeInv' /\ ApartInv' /\ DiskInv'
  BY <1>2, <1>3 DEF RunInv, ListInv, ShapeInv, ApartInv, DiskInv
<1>6. GcInv(K)'
  <2>1. Of(K, gc') \subseteq Of(K, gc) /\ Of(K, gc') \subseteq init'
    BY <1>1 DEF RunInv, GcInv, Of
  <2> QED BY <1>2, <1>3, <2>1 DEF RunInv, GcInv, OlderThan
<1>7. ASSUME NEW w \in Jobs, Written(job[w]), job[w].ord \in K, NEW f \in job[w].new, f \in init PROVE f \in init'
  <2>1. f \in File /\ f.ord \in K
    BY <1>7 DEF TypeFiles, KindInv, Kind
  <2>2. f \in gc => Older(f, f)
    BY <1>7, <2>1, NameFacts DEF RunInv, GcInv, OlderThan, Of
  <2> QED BY <1>1, <1>7, <2>1, <2>2, OlderFacts
<1>8. TasksInv(K)'
  <2>1. ASSUME NEW w \in Jobs PROVE TaskOK(K, job[w], Lists, tssp, init', log)
    BY <1>7, TaskKept DEF RunInv, TasksInv
  <2> QED BY <1>2, <1>3, <2>1 DEF TasksInv
<1>9. LogInv'
  <2>1. ASSUME NEW l \in OrdLogs PROVE LogHeld(l, Lists, tssp, init')
    <3>1. LogHeld(l, Lists, tssp, init)
      BY DEF RunInv, LogInv
    <3>2. \A f \in l.new : f \in tssp \cup init => f \in tssp \cup init'
      <4>1. CASE Orphan(l)
        BY <4>1 DEF Orphan
      <4>2. CASE Owned(l)
        <5>1. PICK w \in Jobs : job[w].pc \in {"logged", "delete"} /\ l = LogOf(job[w])
          BY <4>2 DEF Owned
        <5>2. l.ord /\ l.ord = job[w].ord /\ l.new = job[w].new
          BY <5>1 DEF OrdLogs, LogOf
        <5>3. Written(job[w]) /\ job[w].ord \in K
          BY <5>1, <5>2 DEF Written, Kinds, TypeJob, Job
        <5> QED BY <1>7, <5>2, <5>3
      <4> QED BY <4>1, <4>2 DEF RunInv, OwnerInv
    <3> QED BY <3>1, <3>2, LogKept
  <2> QED BY <1>2, <1>3, <2>1 DEF RunInv, LogInv
<1>10. OwnerInv'
  <2>1. \A l : (Owned(l) => Owned(l)') /\ (Orphan(l) => Orphan(l)')
    BY <1>2 DEF Owned, Orphan
  <2> QED BY <1>3, <2>1 DEF RunInv, OwnerInv
<1> QED BY <1>4, <1>5, <1>6, <1>8, <1>9, <1>10 DEF RunInv


-----------------------------------------------------------------------------
(* A task is planned, started or given up.                                 *)

\* A task becomes j, which has written nothing; a log it leaves behind is that of a
\* replacement that was stopped.
LEMMA TaskChanges ==
    ASSUME NEW K \in Kinds, TypeJob, KindInv, RunInv(K), NEW w \in Jobs, NEW j, job' = [job EXCEPT ![w] = j],
           Pending' = Pending, UNCHANGED <<fileSeq, tssp, init, log, order, unord, gc, st>>,
           TaskFiles(j) \subseteq TaskFiles(job[w]) \cup Lists,
           TaskOK(K, j, Lists, tssp, init, log), Shape(j, unord), ~Written(j),
           Working(j) => st = "open" /\ \A v \in Jobs : v # w /\ Working(job[v]) => Apart(OldOf(job[v]), OldOf(j)),
           job[w].pc \in {"logged", "delete"} =>
               st # "open" /\ ~Working(j) /\ (job[w].ord => job[w].new \subseteq tssp)
    PROVE  RunInv(K)'
<1>1. job'[w] = j /\ \A v \in Jobs : v # w => job'[v] = job[v]
  BY DEF TypeJob
<1>2. Lists' = Lists /\ OrdLogs' = OrdLogs /\ LogNew' = LogNew
  BY DEF Lists, OrdLogs, LogNew
<1>3. SeqInv'
  <2>1. \A v \in Jobs : TaskFiles(job'[v]) \subseteq TaskFiles(job[v]) \cup Lists
    BY <1>1
  <2>2. \A g \in Lists : \E h \in Settled : h.seq = g.seq
    BY SettledFacts
  <2>3. Pending \subseteq tssp'
    BY DEF RunInv, SeqInv
  <2>4. tssp' \subseteq tssp \cup Lists /\ init' \subseteq init \cup Lists /\ Lists' \subseteq Lists \cup Lists /\ gc' \subseteq gc \cup Lists
        /\ \A l \in log' : l \in log \/ LogFiles(l) \subseteq Lists
    BY <1>2
  <2> QED BY <2>1, <2>2, <2>3, <2>4, SeqStep DEF RunInv
<1>4. ListInv(K)' /\ LogInv' /\ DiskInv'
  BY <1>2 DEF RunInv, ListInv, LogInv, DiskInv
<1>5. TasksInv(K)' /\ ShapeInv'
  BY <1>1, <1>2 DEF RunInv, TasksInv, ShapeInv
<1>6. ApartInv'
  <2>1. \A S, T : Apart(S, T) => Apart(T, S)
    BY NameFacts DEF Apart
  <2> SUFFICES ASSUME NEW u \in Jobs, NEW v \in Jobs, u # v, Working(job'[u]), Working(job'[v])
               PROVE  Apart(OldOf(job'[u]), OldOf(job'[v]))
    BY DEF ApartInv
  <2>2. CASE u = w
    BY <1>1, <2>1, <2>2
  <2>3. CASE v = w
    BY <1>1, <2>1, <2>3
  <2>4. CASE u # w /\ v # w
    BY <1>1, <2>4 DEF RunInv, ApartInv
  <2> QED BY <2>2, <2>3, <2>4
<1>7. GcInv(K)'
  <2>1. ~Written(job'[w])
    BY <1>1
  <2>2. \A v \in Jobs : Written(job'[v]) => OlderThan(Of(K, gc), job'[v].new)
    BY <1>1, <2>1 DEF RunInv, GcInv
  <2> QED BY <1>2, <2>2 DEF RunInv, GcInv
<1>8. OwnerInv'
  <2> SUFFICES ASSUME NEW l \in OrdLogs PROVE Owned(l)' \/ Orphan(l)'
    BY <1>2 DEF OwnerInv
  <2>1. CASE Orphan(l)
    <3>1. st # "open" /\ l.new \subseteq tssp /\ \A v \in Jobs : Working(job[v]) => Apart(l.old, OldOf(job[v]))
      BY <2>1 DEF Orphan
    <3>2. \A v \in Jobs : Working(job'[v]) => Apart(l.old, OldOf(job'[v]))
      BY <1>1, <3>1
    <3> QED BY <3>1, <3>2 DEF Orphan
  <2>2. CASE Owned(l)
    <3>1. PICK v \in Jobs : job[v].pc \in {"logged", "delete"} /\ l = LogOf(job[v])
      BY <2>2 DEF Owned
    <3>2. CASE v # w
      BY <1>1, <3>1, <3>2 DEF Owned
    <3>3. CASE v = w
      <4>1. l.ord = job[w].ord /\ l.new = job[w].new /\ l.old = OldOf(job[w]) /\ l.ord
        BY <3>1, <3>3 DEF LogOf, OrdLogs
      <4>2. st # "open" /\ ~Working(j) /\ l.new \subseteq tssp
        BY <3>1, <3>3, <4>1
      <4>3. \A u \in Jobs : Working(job'[u]) => Apart(l.old, OldOf(job'[u]))
        BY <1>1, <3>1, <3>3, <4>1, <4>2 DEF RunInv, ApartInv, Working
      <4> QED BY <4>2, <4>3 DEF Orphan
    <3> QED BY <3>2, <3>3
  <2> QED BY <2>1, <2>2 DEF RunInv, OwnerInv
<1> QED BY <1>3, <1>4, <1>5, <1>6, <1>7, <1>8 DEF RunInv

\* A task that is over.
LEMMA IdleTask ==
    /\ TaskFiles(IdleJob) = {} /\ ~Working(IdleJob) /\ ~Written(IdleJob)
    /\ \A u : Shape(IdleJob, u)
    /\ \A K, L, D, I, G : TaskOK(K, IdleJob, L, D, I, G)
<1>1. TaskFiles(IdleJob) = {} /\ ~Working(IdleJob) /\ ~Written(IdleJob)
  BY IdleFacts DEF TaskFiles, Working, Written
<1> QED BY <1>1, IdleFacts DEF Shape, TaskOK

\* CompactDone.
LEMMA DoneStep ==
    ASSUME NEW K \in Kinds, TypeJob, KindInv, RunInv(K), NEW w \in Jobs, job' = [job EXCEPT ![w] = IdleJob],
           Pending' = Pending, UNCHANGED <<fileSeq, tssp, init, log, order, unord, gc, st>>,
           job[w].pc \in {"logged", "delete"} => st # "open" /\ (job[w].ord => job[w].new \subseteq tssp)
    PROVE  RunInv(K)'
BY IdleTask, TaskChanges

\* A stopped task.
LEMMA StoppedFiles ==
    ASSUME NEW K \in Kinds, TypeJob, KindInv, RunInv(K), StopInv, NEW w \in Jobs, Stopped(w) \/ AbortReplace(w)
    PROVE  RunInv(K)'
<1>1. /\ job' = [job EXCEPT ![w] = IdleJob] /\ UNCHANGED <<fileSeq, tssp, init, log, order, unord, gc, st, fl>>
  BY DEF Stopped, AbortReplace, Done, memVars, diskVars, listVars
<1>2. Pending' = Pending
  BY <1>1 DEF Pending
<1>3. job[w].pc \in {"logged", "delete"} => st # "open" /\ (job[w].ord => job[w].new \subseteq tssp)
  <2>1. SUFFICES ASSUME job[w].pc \in {"logged", "delete"} PROVE st # "open" /\ (job[w].ord => job[w].new \subseteq tssp)
    OBVIOUS
  <2>2. AbortReplace(w)
    BY <2>1 DEF Stopped
  <2>3. stop /\ (job[w].pc = "logged" => job[w].new \cap init = {})
    BY <2>2 DEF AbortReplace, ListLocked
  <2>4. st # "open"
    BY <2>3 DEF StopInv
  <2>5. ASSUME job[w].ord PROVE job[w].new \subseteq tssp
    <3>1. job[w].ord \in K
      BY <2>5 DEF Kinds, TypeJob, Job
    <3>2. TaskOK(K, job[w], Lists, tssp, init, log) /\ Working(job[w])
      BY <2>1 DEF RunInv, TasksInv, Working
    <3>3. /\ job[w].pc = "logged" => job[w].new \subseteq tssp \cup init
          /\ job[w].pc = "delete" => job[w].new \subseteq tssp
      BY <3>1, <3>2 DEF TaskOK
    <3> QED BY <2>1, <2>3, <3>3
  <2> QED BY <2>4, <2>5
<1> QED BY <1>1, <1>2, <1>3, DoneStep

\* The list of the unordered files is forgotten.
LEMMA DeleteEntryFiles ==
    ASSUME NEW K \in Kinds, TypeJob, TypeFlush, KindInv, RunInv(K), DeleteEntry
    PROVE  RunInv(K)'
<1>1. /\ job' = [job EXCEPT !["merge"] = IdleJob] /\ UNCHANGED <<fileSeq, tssp, init, log, order, unord, gc, st>>
      /\ job["merge"].pc = "entry" /\ "merge" \in Jobs
  BY DEF DeleteEntry, Done, diskVars, Jobs
<1>2. fl'.pc = fl.pc /\ fl'.files = fl.files
  BY DEF DeleteEntry, TypeFlush, FlushJob
<1>3. Pending' = Pending
  BY <1>2 DEF Pending
<1> QED BY <1>1, <1>3, DoneStep

\* A task is planned.
LEMMA PlanFiles ==
    ASSUME NEW K \in Kinds, TypeFiles, TypeJob, KindInv, RunInv(K), LevelPlan \/ MergePlan
    PROVE  RunInv(K)'
<1>1. UNCHANGED <<fileSeq, tssp, init, log, order, unord, gc, st, fl>>
  BY DEF LevelPlan, MergePlan, memVars, diskVars, listVars
<1>2. Pending' = Pending
  BY <1>1 DEF Pending
<1>3. ASSUME NEW w \in Jobs, job[w].pc = "idle", NEW j, job' = [job EXCEPT ![w] = j], j.pc = "plan", j.in # {}, j.in \subseteq order,
             j.un \subseteq unord, j.new = {}, j.old = {}, j.rest = {}
      PROVE  RunInv(K)'
  <2>1. TaskFiles(j) \subseteq TaskFiles(job[w]) \cup Lists
    BY <1>3 DEF TaskFiles, Lists
  <2>2. ~Working(j) /\ ~Written(j) /\ Shape(j, unord)
    BY <1>3 DEF Working, Written, Shape
  <2>3. TaskOK(K, j, Lists, tssp, init, log)
    BY <2>2 DEF TaskOK
  <2> QED BY <1>1, <1>2, <1>3, <2>1, <2>2, <2>3, TaskChanges
<1>4. CASE LevelPlan
  <2>1. PICK G \in Groups(order, Group, "level") :
          job' = [job EXCEPT !["compact"] = [IdleJob EXCEPT !.pc = "plan", !.in = G]]
    BY <1>4 DEF LevelPlan
  <2>2. G \subseteq order /\ G # {}
    BY GroupFacts, TableAssumption
  <2>3. PICK j : j = [IdleJob EXCEPT !.pc = "plan", !.in = G]
    OBVIOUS
  <2>4. j.pc = "plan" /\ j.in = G /\ j.un = {} /\ j.new = {} /\ j.old = {} /\ j.rest = {}
    BY <2>3 DEF IdleJob
  <2>5. job["compact"].pc = "idle" /\ "compact" \in Jobs
    BY <1>4 DEF LevelPlan, Jobs
  <2>6. job' = [job EXCEPT !["compact"] = j]
    BY <2>1, <2>3
  <2> QED BY <1>3, <2>2, <2>4, <2>5, <2>6
<1>5. CASE MergePlan
  <2>1. PICK n \in 1 .. Limit :
          job' = [job EXCEPT !["merge"] =
                   [IdleJob EXCEPT !.pc = "plan", !.mode = "normal", !.un = NormalMerge(unord, n),
                                   !.in = MatchOrderFiles(NormalMerge(unord, n))]]
    BY <1>5 DEF MergePlan
  <2>2. PICK U : U = NormalMerge(unord, n)
    OBVIOUS
  <2>3. PICK M : M = MatchOrderFiles(U)
    OBVIOUS
  <2>4. U \subseteq unord /\ order # {}
    BY <1>5, <2>2 DEF NormalMerge, MergePlan
  <2>5. M \subseteq order
    BY <2>3, <2>4, MatchFacts
  <2>6. M # {}
    <3> DEFINE R == {f \in order : \/ Min(Times(f.rows)) <= Max(TimesOf(U)) /\ Max(Times(f.rows)) >= Min(TimesOf(U))
                                   \/ Min(Times(f.rows)) > Max(TimesOf(U))}
    <3>1. M = IF R = {} THEN {Last(order)} ELSE {f \in order : f.seq >= First(R).seq}
      BY <2>3 DEF MatchOrderFiles
    <3>2. R \in SUBSET File
      BY DEF TypeFiles, Ordered
    <3>3. R \subseteq order
      OBVIOUS
    <3> HIDE DEF R
    <3>4. ASSUME R # {} PROVE M # {}
      <4>1. First(R) \in R /\ First(R).seq <= First(R).seq
        BY <3>2, <3>4, FirstFacts
      <4>2. First(R) \in order /\ First(R).seq >= First(R).seq
        BY <3>2, <3>3, <4>1 DEF File
      <4> QED BY <3>1, <3>4, <4>2
    <3> QED BY <3>1, <3>4
  <2>7. PICK j : j = [IdleJob EXCEPT !.pc = "plan", !.mode = "normal", !.un = U, !.in = M]
    OBVIOUS
  <2>8. j.pc = "plan" /\ j.in = M /\ j.un = U /\ j.new = {} /\ j.old = {} /\ j.rest = {}
    BY <2>7 DEF IdleJob
  <2>9. job["merge"].pc = "idle" /\ "merge" \in Jobs
    BY <1>5 DEF MergePlan, Jobs
  <2>10. job' = [job EXCEPT !["merge"] = j]
    BY <2>1, <2>2, <2>3, <2>7
  <2> QED BY <1>3, <2>4, <2>5, <2>6, <2>8, <2>9, <2>10
<1> QED BY <1>4, <1>5

\* The files of a task that starts are listed, and so alone of their names; those
\* of the other task are others.
LEMMA StartFiles ==
    ASSUME NEW K \in Kinds, TypeFiles, TypeJob, KindInv, AcquiredInv, RunInv(K), st = "open", NEW w \in Jobs, NEW j \in Job,
           ~Active(w), job' = [job EXCEPT ![w] = j], Pending' = Pending,
           UNCHANGED <<fileSeq, tssp, init, log, order, unord, gc, st>>,
           j.pc = "run", Kind(w, j), Shape(j, unord), j.in \cap inCompact = {}, j.in \subseteq order, j.un \subseteq unord,
           TaskFiles(j) \subseteq TaskFiles(job[w]) \cup Lists
    PROVE  RunInv(K)'
<1>1. OldOf(j) \subseteq j.in \cup j.un /\ (\A f \in OldOf(j) : f.ord = j.ord) /\ (j.ord => OldOf(j) = j.in)
  BY OldOfFacts
<1>2. OldOf(j) \subseteq Lists
  BY <1>1 DEF Lists
<1>3. j.ord \in K => Unique(OldOf(j)) /\ Alone(Lists, OldOf(j))
  BY <1>1, <1>2 DEF RunInv, ListInv, Of, Unique, Alone, Same
<1>4. TaskOK(K, j, Lists, tssp, init, log) /\ ~Written(j) /\ Working(j)
  BY <1>3 DEF TaskOK, Working, Written
<1>5. ASSUME NEW v \in Jobs, v # w, Working(job[v]) PROVE Apart(OldOf(job[v]), OldOf(j))
  <2>1. Active(v) /\ job[v].pc # "idle"
    BY <1>5 DEF Working, Active
  <2>2. (\A f \in OldOf(job[v]) : f.ord = job[v].ord) /\ (job[v].ord => OldOf(job[v]) = job[v].in)
    BY <2>1, ReplacedFacts DEF RunInv
  <2>3. CASE job[v].ord /\ j.ord
    <3>1. job[v].in \subseteq inCompact
      BY <2>1 DEF AcquiredInv
    <3>2. TRUE \in K /\ job[v].ord \in K
      BY <2>3 DEF Kinds, TypeJob, Job
    <3>3. Alone(Lists, OldOf(job[v]))
      BY <1>5, <3>2 DEF RunInv, TasksInv, TaskOK
    <3> QED BY <1>1, <1>2, <2>2, <2>3, <3>1, <3>3, NameFacts DEF Alone, Apart
  <2>4. CASE ~(job[v].ord /\ j.ord)
    <3>1. v = "compact" \/ w = "compact"
      BY <1>5 DEF Jobs
    <3>2. (v = "compact" => job[v].ord) /\ (w = "compact" => j.ord) /\ job[v].ord \in BOOLEAN /\ j.ord \in BOOLEAN
      BY <2>1 DEF KindInv, Kind, TypeJob, Job
    <3>3. job[v].ord # j.ord
      BY <2>4, <3>1, <3>2
    <3> QED BY <1>1, <2>2, <3>3 DEF Apart, Same
  <2> QED BY <2>3, <2>4
<1>6. job[w].pc \notin {"logged", "delete"}
  BY DEF Active
<1> QED BY <1>4, <1>5, <1>6, TaskChanges


\* acquire.
LEMMA AcquireFiles ==
    ASSUME NEW K \in Kinds, TypeFiles, JobInv, RunInv(K), NEW w \in Jobs, Acquire(w)
    PROVE  RunInv(K)'
<1>0. job[w] \in Job /\ job[w].pc = "plan" /\ Kind(w, job[w]) /\ Listed(job[w], order, unord) /\ Shape(job[w], unord)
      /\ TypeJob /\ KindInv /\ AcquiredInv
  BY DEF Acquire, JobInv, TypeJob, KindInv, ListedInv, RunInv, ShapeInv
<1>1. UNCHANGED <<fileSeq, tssp, init, log, order, unord, gc, st, fl>> /\ st = "open"
  BY DEF Acquire, memVars, diskVars, listVars
<1>2. Pending' = Pending
  BY <1>1 DEF Pending
<1>3. CASE Acquirable(job[w].in)
  <2>1. PICK j : j = [job[w] EXCEPT !.pc = "run"]
    OBVIOUS
  <2>2. j \in Job /\ j.pc = "run" /\ j.in = job[w].in /\ j.un = job[w].un /\ j.new = job[w].new
        /\ j.old = job[w].old /\ j.rest = job[w].rest /\ j.ord = job[w].ord /\ j.mode = job[w].mode
    BY <1>0, <2>1, PcFacts DEF Stages
  <2>3. job' = [job EXCEPT ![w] = j]
    BY <1>3, <2>1 DEF Acquire, JobInv, TypeJob
  <2>4. Kind(w, j) /\ Shape(j, unord) /\ TaskFiles(j) = TaskFiles(job[w])
    BY <1>0, <2>2 DEF Kind, Shape, TaskFiles, Written
  <2>5. j.in \cap inCompact = {} /\ j.in \subseteq order /\ j.un \subseteq unord /\ ~Active(w)
    BY <1>0, <1>3, <2>2 DEF Acquirable, Listed, Active
  <2> QED BY <1>0, <1>1, <1>2, <2>2, <2>3, <2>4, <2>5, StartFiles
<1>4. CASE ~Acquirable(job[w].in)
  <2>1. job' = [job EXCEPT ![w] = IdleJob]
    BY <1>4 DEF Acquire
  <2> QED BY <1>0, <1>1, <1>2, <2>1, DoneStep
<1> QED BY <1>3, <1>4

\* A merge of unordered files starts.
LEMMA MergeSelfFiles ==
    ASSUME NEW K \in Kinds, TypeFiles, JobInv, RunInv(K), MergeSelf
    PROVE  RunInv(K)'
<1>0. job["merge"].pc = "idle" /\ st = "open" /\ "merge" \in Jobs /\ UNCHANGED <<fileSeq, tssp, init, log, order, unord, gc, st, fl>>
      /\ TypeJob /\ KindInv /\ AcquiredInv
  BY DEF MergeSelf, Jobs, memVars, diskVars, listVars, JobInv
<1>1. PICK G \in Groups(unord, SelfGroup, "merge"), m \in Modes :
        job' = [job EXCEPT !["merge"] = [IdleJob EXCEPT !.pc = "run", !.mode = m, !.un = G, !.ord = FALSE]]
  BY DEF MergeSelf
<1>2. G \subseteq unord /\ G # {}
  BY GroupFacts, TableAssumption
<1>3. G \in SUBSET Unordered /\ m \in {"fast", "stream"}
  BY <1>2, TableAssumption DEF TypeFiles
<1>4. PICK j : j = [IdleJob EXCEPT !.pc = "run", !.mode = m, !.un = G, !.ord = FALSE]
  OBVIOUS
<1>5. j.pc = "run" /\ j.in = {} /\ j.un = G /\ j.new = {} /\ j.old = {} /\ j.rest = {} /\ ~j.ord /\ j.mode = m
  BY <1>4 DEF IdleJob
<1>6. j \in Job
  BY <1>3, <1>4 DEF IdleJob, Job, Stages
<1>7. Kind("merge", j) /\ Shape(j, unord) /\ ~Active("merge")
  BY <1>0, <1>2, <1>3, <1>5 DEF Kind, Shape, Active, Written
<1>8. TaskFiles(j) \subseteq TaskFiles(job["merge"]) \cup Lists
  BY <1>2, <1>5 DEF TaskFiles, Lists
<1>9. job' = [job EXCEPT !["merge"] = j] /\ Pending' = Pending
  BY <1>0, <1>1, <1>4 DEF Pending
<1> QED BY <1>0, <1>2, <1>5, <1>6, <1>7, <1>8, <1>9, StartFiles

-----------------------------------------------------------------------------
(* A task writes its files and their log, and renames them.                *)

\* A task that goes on replaces what it replaced.
GoesOn(j, k) ==
    /\ Working(k) => Working(j) /\ OldOf(k) = OldOf(j)
    /\ j.pc \in {"logged", "delete"} => k.pc \in {"logged", "delete"} /\ LogOf(k) = LogOf(j)

\* The tasks stay apart.
LEMMA ApartKept ==
    ASSUME TypeJob, ApartInv, NEW w \in Jobs, NEW k, job' = [job EXCEPT ![w] = k],
           Working(k) => Working(job[w]) /\ OldOf(k) = OldOf(job[w])
    PROVE  ApartInv'
<1>1. job'[w] = k /\ \A v \in Jobs : v # w => job'[v] = job[v]
  BY DEF TypeJob
<1>2. \A v \in Jobs : Working(job'[v]) => Working(job[v]) /\ OldOf(job'[v]) = OldOf(job[v])
  BY <1>1
<1> QED BY <1>2 DEF ApartInv

\* The logs keep their tasks.
LEMMA OwnerKept ==
    ASSUME TypeJob, OwnerInv, NEW w \in Jobs, NEW k, job' = [job EXCEPT ![w] = k], GoesOn(job[w], k), st' = st,
           NEW l \in OrdLogs, l.new \subseteq tssp => l.new \subseteq tssp'
    PROVE  Owned(l)' \/ Orphan(l)'
<1>1. job'[w] = k /\ \A v \in Jobs : v # w => job'[v] = job[v]
  BY DEF TypeJob
<1>2. Owned(l) => Owned(l)'
  BY <1>1 DEF Owned, GoesOn
<1>3. \A v \in Jobs : Working(job'[v]) => Working(job[v]) /\ OldOf(job'[v]) = OldOf(job[v])
  BY <1>1 DEF GoesOn
<1>4. Orphan(l) => Orphan(l)'
  BY <1>3 DEF Orphan
<1> QED BY <1>2, <1>4 DEF OwnerInv

\* What is deleted after the replacement is none of what is replaced.
LEMMA RestApart ==
    ASSUME NEW w \in Jobs, NEW j \in Job, Kind(w, j), j.pc # "idle"
    PROVE  RestOf(j) \cap OldOf(j) = {} /\ RestOf(j) \subseteq j.un
<1>0. j.in \in SUBSET Ordered /\ j.un \in SUBSET Unordered /\ j.ord \in BOOLEAN
      /\ j.mode \in {"none", "normal", "fast", "stream"}
  BY DEF Job
<1>1. CASE j.mode = "normal"
  <2>1. j.ord
    BY <1>1 DEF Kind
  <2>2. OldOf(j) = j.in /\ RestOf(j) = j.un
    BY <1>1, <2>1 DEF OldOf, RestOf
  <2> QED BY <1>0, <2>2 DEF Ordered, Unordered
<1>2. CASE j.mode = "stream"
  <2>1. ~j.ord
    BY <1>2 DEF Kind
  <2>2. OldOf(j) = {First(j.un)} /\ RestOf(j) = j.un \ {First(j.un)}
    BY <1>2, <2>1 DEF OldOf, RestOf
  <2> QED BY <2>2
<1>3. CASE j.mode \notin {"normal", "stream"}
  BY <1>3 DEF RestOf
<1> QED BY <1>1, <1>2, <1>3

\* The new files: they are newer than any file of their names.
LEMMA BuildFiles ==
    ASSUME NEW K \in Kinds, TypeFiles, JobInv, RunInv(K), NEW w \in Jobs, Build(w)
    PROVE  RunInv(K)'
<1>0. job[w] \in Job /\ job[w].pc = "run" /\ Kind(w, job[w]) /\ Listed(job[w], order, unord) /\ Shape(job[w], unord)
      /\ TypeJob /\ KindInv /\ IsFiniteSet(job[w].in) /\ TaskOK(K, job[w], Lists, tssp, init, log)
  BY DEF Build, JobInv, TypeJob, KindInv, ListedInv, RunInv, ShapeInv, TasksInv
<1>1. UNCHANGED <<fileSeq, tssp, log, order, unord, gc, st, fl>>
  BY DEF Build, memVars, listVars
<1>2. Pending' = Pending /\ Lists' = Lists /\ OrdLogs' = OrdLogs /\ LogNew' = LogNew
  BY <1>1 DEF Pending, Lists, OrdLogs, LogNew
<1>3. PICK j \in Job : j = job[w]
  BY <1>0
<1>a. \E rows \in Merged(job[w].un, job[w].mode) :
        /\ init' = init \cup NewOf(w, job[w], rows)
        /\ job' = [job EXCEPT ![w] = [job[w] EXCEPT !.pc = "built", !.new = NewOf(w, job[w], rows),
                                              !.old = OldOf(job[w]), !.rest = RestOf(job[w])]]
  BY Zenon DEF Build, NewOf, OldOf, RestOf
<1>4. PICK rows \in Merged(j.un, j.mode) :
        /\ init' = init \cup NewOf(w, j, rows)
        /\ job' = [job EXCEPT ![w] = [j EXCEPT !.pc = "built", !.new = NewOf(w, j, rows),
                                              !.old = OldOf(j), !.rest = RestOf(j)]]
  BY <1>3, <1>a, Zenon
<1>5. PICK new, old, rest :
        /\ new = NewOf(w, j, rows) /\ old = OldOf(j) /\ rest = RestOf(j) /\ init' = init \cup new
        /\ job' = [job EXCEPT ![w] = [j EXCEPT !.pc = "built", !.new = new, !.old = old, !.rest = rest]]
  BY <1>4
<1>6. PICK k : k = [j EXCEPT !.pc = "built", !.new = new, !.old = old, !.rest = rest]
  OBVIOUS
<1>7. k.pc = "built" /\ k.in = j.in /\ k.un = j.un /\ k.new = new /\ k.old = old /\ k.rest = rest
      /\ k.ord = j.ord /\ k.mode = j.mode
  BY <1>6 DEF Job
<1>8. job' = [job EXCEPT ![w] = k] /\ job'[w] = k /\ \A v \in Jobs : v # w => job'[v] = job[v]
  BY <1>0, <1>5, <1>6 DEF TypeJob
<1>9. OldOf(k) = old /\ Written(k) /\ Working(k) /\ Working(j)
  BY <1>0, <1>3, <1>5, <1>7 DEF OldOf, Written, Working
<1>10. /\ \A f \in new : \E h \in old : Older(h, f)
       /\ new # {}
       /\ Unique(old) => Unique(new)
  BY <1>0, <1>3, <1>5, NewNames
<1>11. new \subseteq File /\ \A f \in new : f.ord = j.ord
  BY <1>0, <1>3, <1>5, RowFacts, NewFacts
<1>12. old \subseteq File /\ old \subseteq j.in \cup j.un /\ \A f \in old : f.ord = j.ord
  BY <1>0, <1>3, <1>5, OldOfFacts
<1>13. rest \cap old = {} /\ rest \subseteq j.un
  BY <1>0, <1>3, <1>5, RestApart
<1>14. old \subseteq Lists /\ rest \subseteq unord
  BY <1>0, <1>3, <1>12, <1>13 DEF Listed, Lists
<1>15. SeqInv'
  <2>1. \A g \in new : \E h \in Settled : h.seq = g.seq
    BY <1>10, <1>14, SettledFacts DEF Older, Same
  <2>2. TaskFiles(k) \subseteq TaskFiles(job[w]) \cup new
    BY <1>3, <1>7, <1>12, <1>13 DEF TaskFiles
  <2>3. \A v \in Jobs : TaskFiles(job'[v]) \subseteq TaskFiles(job[v]) \cup new
    BY <1>8, <2>2
  <2>4. tssp' \subseteq tssp \cup new /\ init' \subseteq init \cup new /\ Lists' \subseteq Lists \cup new /\ gc' \subseteq gc \cup new
        /\ Pending \subseteq tssp' /\ \A l \in log' : l \in log \/ LogFiles(l) \subseteq new
    BY <1>1, <1>2, <1>5 DEF RunInv, SeqInv
  <2> QED BY <1>1, <1>2, <2>1, <2>3, <2>4, SeqStep DEF RunInv
<1>16. ListInv(K)' /\ DiskInv'
  BY <1>1, <1>2 DEF RunInv, ListInv, DiskInv
<1>17. TasksInv(K)'
  <2>1. ASSUME j.ord \in K PROVE TaskOK(K, k, Lists, tssp, init', log)
    <3>1. Unique(old) /\ Alone(Lists, old)
      BY <1>0, <1>3, <1>5, <1>9, <2>1 DEF TaskOK
    <3>2. PICK l : l = LogOf(k)
      OBVIOUS
    <3>3. l.new = new /\ l.old = old /\ l.ord = j.ord
      BY <1>7, <1>9, <3>2 DEF LogOf
    <3>4. LogOK(l)
      BY <1>10, <1>11, <1>12, <3>1, <3>3 DEF LogOK
    <3>5. new \subseteq tssp \cup init'
      BY <1>5
    <3> QED BY <1>7, <1>9, <3>1, <3>2, <3>4, <3>5 DEF TaskOK
  <2>2. TaskOK(K, k, Lists, tssp, init', log)
    BY <1>7, <2>1 DEF TaskOK
  <2>3. ASSUME NEW v \in Jobs, v # w PROVE TaskOK(K, job[v], Lists, tssp, init', log)
    <3>1. TaskOK(K, job[v], Lists, tssp, init, log)
      BY DEF RunInv, TasksInv
    <3>2. init \subseteq init'
      BY <1>5
    <3> QED BY <3>1, <3>2, TaskKept
  <2> QED BY <1>1, <1>2, <1>8, <2>2, <2>3 DEF TasksInv
<1>18. ShapeInv'
  <2>1. Shape(k, unord)
    BY <1>0, <1>3, <1>7, <1>10, <1>13, <1>14 DEF Shape
  <2> QED BY <1>1, <1>8, <2>1 DEF RunInv, ShapeInv
<1>19. ApartInv' /\ GoesOn(job[w], k)
  <2>1. Working(k) => Working(job[w]) /\ OldOf(k) = OldOf(job[w])
    BY <1>3, <1>5, <1>9
  <2> QED BY <1>0, <1>8, <2>1, ApartKept DEF RunInv, GoesOn
<1>20. GcInv(K)'
  <2>1. Of(K, gc) \subseteq init /\ Of(K, gc) \subseteq File /\ OlderThan(Of(K, gc), Lists)
    BY DEF RunInv, GcInv, TypeFiles
  <2>2. OlderThan(Of(K, gc), new)
    <3> SUFFICES ASSUME NEW g \in Of(K, gc), NEW f \in new, Same(g, f) PROVE Older(g, f)
      BY DEF OlderThan
    <3>1. PICK h \in old : Older(h, f)
      BY <1>10
    <3>2. Same(g, h)
      BY <3>1, NameFacts
    <3>3. Older(g, h)
      BY <1>14, <2>1, <3>2 DEF OlderThan
    <3> QED BY <1>11, <1>12, <2>1, <3>1, <3>3, OlderFacts
  <2>3. \A v \in Jobs : Written(job'[v]) => OlderThan(Of(K, gc), job'[v].new)
    BY <1>7, <1>8, <2>2 DEF RunInv, GcInv
  <2>4. Of(K, gc) \subseteq init'
    BY <1>5, <2>1
  <2> QED BY <1>1, <1>2, <2>1, <2>3, <2>4 DEF GcInv
<1>21. LogInv'
  <2>1. ASSUME NEW l \in OrdLogs PROVE LogHeld(l, Lists, tssp, init')
    BY <1>5, LogKept DEF RunInv, LogInv
  <2> QED BY <1>1, <1>2, <2>1 DEF RunInv, LogInv
<1>22. OwnerInv'
  BY <1>0, <1>1, <1>2, <1>8, <1>19, OwnerKept DEF RunInv, OwnerInv
<1> QED BY <1>15, <1>16, <1>17, <1>18, <1>19, <1>20, <1>21, <1>22 DEF RunInv


\* The log of the replacement: no other log is about its files.
LEMMA InfoFiles ==
    ASSUME NEW K \in Kinds, JobInv, RunInv(K), NEW w \in Jobs, WriteCompactedFileInfo(w)
    PROVE  RunInv(K)'
<1>0. job[w] \in Job /\ job[w].pc = "built" /\ Shape(job[w], unord) /\ TypeJob /\ KindInv
      /\ TaskOK(K, job[w], Lists, tssp, init, log) /\ Working(job[w]) /\ Written(job[w])
  BY DEF WriteCompactedFileInfo, JobInv, TypeJob, RunInv, ShapeInv, TasksInv, Working, Written
<1>1. UNCHANGED <<fileSeq, tssp, init, order, unord, gc, st, fl>>
  BY DEF WriteCompactedFileInfo, memVars, listVars
<1>2. Pending' = Pending /\ Lists' = Lists
  BY <1>1 DEF Pending, Lists
<1>3. PICK l : l = Log(job[w])
  OBVIOUS
<1>4. log' = log \cup {l} /\ l.new = job[w].new /\ l.old = job[w].old /\ l.ord = job[w].ord
  BY <1>3 DEF WriteCompactedFileInfo, Log
<1>5. PICK k : k = [job[w] EXCEPT !.pc = "logged"]
  OBVIOUS
<1>6. k.pc = "logged" /\ k.in = job[w].in /\ k.un = job[w].un /\ k.new = job[w].new
      /\ k.old = job[w].old /\ k.rest = job[w].rest /\ k.ord = job[w].ord /\ k.mode = job[w].mode
  BY <1>0, <1>5, PcFacts DEF Stages
<1>7. job' = [job EXCEPT ![w] = k] /\ job'[w] = k /\ \A v \in Jobs : v # w => job'[v] = job[v]
  BY <1>5 DEF WriteCompactedFileInfo, JobInv, TypeJob
<1>8. OldOf(k) = OldOf(job[w]) /\ Working(k) /\ Written(k) /\ LogOf(k) = LogOf(job[w]) /\ TaskFiles(k) = TaskFiles(job[w])
  BY <1>6 DEF OldOf, Working, Written, LogOf, TaskFiles
<1>9. job[w].ord \in K => l = LogOf(job[w])
  BY <1>0, <1>3 DEF TaskOK, Log, LogOf
<1>10. OrdLogs \subseteq OrdLogs' /\ \A m \in OrdLogs' : m \in OrdLogs \/ (m = l /\ job[w].ord /\ job[w].ord \in K)
  BY <1>0, <1>4 DEF OrdLogs, Kinds, Job
<1>11. SeqInv'
  <2>1. TaskFiles(job[w]) \subseteq Settled /\ LogFiles(l) \subseteq TaskFiles(job[w])
    BY <1>4, SettledFacts DEF LogFiles, TaskFiles
  <2>2. PICK N : N = TaskFiles(job[w])
    OBVIOUS
  <2>3. \A g \in N : \E h \in Settled : h.seq = g.seq
    BY <2>1, <2>2
  <2>4. \A v \in Jobs : TaskFiles(job'[v]) \subseteq TaskFiles(job[v]) \cup N
    BY <1>7, <1>8
  <2>5. tssp' \subseteq tssp \cup N /\ init' \subseteq init \cup N /\ Lists' \subseteq Lists \cup N /\ gc' \subseteq gc \cup N
        /\ Pending \subseteq tssp' /\ \A m \in log' : m \in log \/ LogFiles(m) \subseteq N
    BY <1>1, <1>2, <1>4, <2>1, <2>2 DEF RunInv, SeqInv
  <2> QED BY <1>1, <1>2, <2>3, <2>4, <2>5, SeqStep DEF RunInv
<1>12. ListInv(K)'
  BY <1>1, <1>2 DEF RunInv, ListInv
<1>13. TasksInv(K)'
  <2>1. TaskOK(K, k, Lists, tssp, init, log')
    BY <1>0, <1>4, <1>6, <1>8, <1>9 DEF TaskOK
  <2>2. ASSUME NEW v \in Jobs, v # w PROVE TaskOK(K, job[v], Lists, tssp, init, log')
    BY <1>4, TaskKept DEF RunInv, TasksInv
  <2> QED BY <1>1, <1>2, <1>7, <2>1, <2>2 DEF TasksInv
<1>14. ShapeInv'
  <2>1. Shape(k, unord)
    BY <1>0, <1>6, <1>8 DEF Shape
  <2> QED BY <1>1, <1>7, <2>1 DEF RunInv, ShapeInv
<1>15. ApartInv' /\ GoesOn(job[w], k)
  BY <1>0, <1>7, <1>8, ApartKept DEF RunInv, GoesOn
<1>16. GcInv(K)'
  <2>1. \A v \in Jobs : Written(job'[v]) => OlderThan(Of(K, gc), job'[v].new)
    BY <1>0, <1>6, <1>7 DEF RunInv, GcInv
  <2> QED BY <1>1, <1>2, <2>1 DEF RunInv, GcInv
<1>17. ASSUME job[w].ord, job[w].ord \in K, NEW m \in OrdLogs PROVE Apart(m.old, l.old) /\ Apart(l.old, m.old)
  <2>1. l.old = OldOf(job[w])
    BY <1>9, <1>17 DEF LogOf
  <2>2. Owned(m) => Apart(m.old, OldOf(job[w]))
    <3> SUFFICES ASSUME Owned(m) PROVE Apart(m.old, OldOf(job[w]))
      OBVIOUS
    <3>1. PICK v \in Jobs : job[v].pc \in {"logged", "delete"} /\ m = LogOf(job[v])
      BY DEF Owned
    <3>2. v # w /\ Working(job[v]) /\ m.old = OldOf(job[v])
      BY <1>0, <3>1 DEF Working, LogOf
    <3> QED BY <1>0, <3>2 DEF RunInv, ApartInv
  <2>3. Orphan(m) => Apart(m.old, OldOf(job[w]))
    BY <1>0 DEF Orphan
  <2>4. Apart(m.old, l.old)
    BY <2>1, <2>2, <2>3 DEF RunInv, OwnerInv
  <2> QED BY <2>4, NameFacts DEF Apart
<1>18. LogInv'
  <2>1. ASSUME job[w].ord, job[w].ord \in K PROVE LogHeld(l, Lists, tssp, init)
    BY <1>0, <1>4, <1>9, <2>1 DEF TaskOK, LogHeld, LogOf
  <2>2. \A m \in OrdLogs' : LogHeld(m, Lists, tssp, init)
    BY <1>10, <2>1 DEF RunInv, LogInv
  <2>3. LogsApart(OrdLogs')
    BY <1>10, <1>17 DEF RunInv, LogInv, LogsApart
  <2> QED BY <1>1, <1>2, <2>2, <2>3 DEF LogInv
<1>19. OwnerInv'
  <2>1. \A m \in OrdLogs : Owned(m)' \/ Orphan(m)'
    BY <1>0, <1>1, <1>7, <1>15, OwnerKept DEF RunInv
  <2>2. job[w].ord \in K => Owned(l)'
    BY <1>6, <1>7, <1>8, <1>9 DEF Owned
  <2> QED BY <1>10, <2>1, <2>2 DEF OwnerInv
<1>20. DiskInv'
  <2>1. LogNew \subseteq LogNew'
    BY <1>10 DEF LogNew
  <2> QED BY <1>1, <1>2, <2>1 DEF RunInv, DiskInv
<1> QED BY <1>11, <1>12, <1>13, <1>14, <1>15, <1>16, <1>18, <1>19, <1>20 DEF RunInv

\* A new file gets its name.
LEMMA RenameFiles ==
    ASSUME NEW K \in Kinds, TypeFiles, JobInv, RunInv(K), NEW w \in Jobs, NEW f \in job[w].new, RenameTmpFile(w, f)
    PROVE  RunInv(K)'
<1>0. job[w] \in Job /\ job[w].pc = "logged" /\ Working(job[w]) /\ Written(job[w]) /\ TypeJob /\ KindInv
      /\ Kind(w, job[w]) /\ TaskOK(K, job[w], Lists, tssp, init, log)
  BY DEF RenameTmpFile, JobInv, TypeJob, KindInv, RunInv, TasksInv, Working, Written
<1>1. UNCHANGED <<fileSeq, log, order, unord, gc, st, fl, job>> /\ f \in init /\ init' = init \ {f} /\ tssp' = tssp \cup {f}
  BY DEF RenameTmpFile, memVars, listVars
<1>2. Pending' = Pending /\ Lists' = Lists /\ OrdLogs' = OrdLogs /\ LogNew' = LogNew
  BY <1>1 DEF Pending, Lists, OrdLogs, LogNew
<1>3. f \in File /\ f.ord = job[w].ord /\ f \in Settled
  BY <1>0, <1>1, SettledFacts DEF TypeFiles, Kind
<1>4. SeqInv'
  <2>1. \A g \in {f} : \E h \in Settled : h.seq = g.seq
    BY <1>3
  <2>2. tssp' \subseteq tssp \cup {f} /\ init' \subseteq init \cup {f} /\ Lists' \subseteq Lists \cup {f} /\ gc' \subseteq gc \cup {f}
        /\ Pending \subseteq tssp' /\ \A l \in log' : l \in log \/ LogFiles(l) \subseteq {f}
    BY <1>1, <1>2 DEF RunInv, SeqInv
  <2>3. \A v \in Jobs : TaskFiles(job'[v]) \subseteq TaskFiles(job[v]) \cup {f}
    BY <1>1
  <2> QED BY <1>1, <1>2, <2>1, <2>2, <2>3, SeqStep DEF RunInv
<1>5. ListInv(K)' /\ ShapeInv' /\ ApartInv'
  BY <1>1, <1>2 DEF RunInv, ListInv, ShapeInv, ApartInv
<1>6. TasksInv(K)'
  <2>1. ASSUME NEW v \in Jobs PROVE TaskOK(K, job[v], Lists, tssp', init', log)
    BY <1>1, TaskKept DEF RunInv, TasksInv
  <2> QED BY <1>1, <1>2, <2>1 DEF TasksInv
<1>7. GcInv(K)'
  <2>1. f \in Of(K, gc) => Older(f, f)
    BY <1>0, NameFacts DEF RunInv, GcInv, OlderThan
  <2>2. Of(K, gc) \subseteq init'
    BY <1>1, <1>3, <2>1, OlderFacts DEF RunInv, GcInv
  <2> QED BY <1>1, <1>2, <2>2 DEF RunInv, GcInv
<1>8. LogInv'
  <2>1. ASSUME NEW l \in OrdLogs PROVE LogHeld(l, Lists, tssp', init')
    BY <1>1, LogKept DEF RunInv, LogInv
  <2> QED BY <1>1, <1>2, <2>1 DEF RunInv, LogInv
<1>9. OwnerInv'
  <2>1. \A l : (Owned(l) => Owned(l)') /\ (Orphan(l) => Orphan(l)')
    BY <1>1 DEF Owned, Orphan
  <2> QED BY <1>2, <2>1 DEF RunInv, OwnerInv
<1>10. DiskInv'
  <2>1. ASSUME f.ord PROVE f \in LogNew
    <3>1. job[w].ord /\ job[w].ord \in K
      BY <1>0, <1>3, <2>1 DEF Kinds, Job
    <3>2. LogOf(job[w]) \in log
      BY <1>0, <3>1 DEF TaskOK
    <3>3. LogOf(job[w]).ord /\ LogOf(job[w]).new = job[w].new
      BY <3>1 DEF LogOf
    <3> QED BY <3>2, <3>3 DEF LogNew, OrdLogs
  <2> QED BY <1>1, <1>2, <2>1 DEF RunInv, DiskInv
<1> QED BY <1>4, <1>5, <1>6, <1>7, <1>8, <1>9, <1>10 DEF RunInv

-----------------------------------------------------------------------------
(* A task replaces and deletes files.                                      *)

\* A settled file is removed, in use or not: what it is not part of stays.
LEMMA RemovedFacts ==
    ASSUME SeqInv, NEW f \in Settled, RemoveFile(f)
    PROVE  /\ tssp' = tssp \ {f} /\ init \subseteq init' /\ init' \subseteq init \cup {f} /\ gc' \subseteq gc \cup {f}
           /\ \A g \in gc' : g \in gc \/ g \in init'
           /\ Pending \subseteq tssp'
<1>1. f \notin Pending
  BY PendingFacts
<1> QED BY <1>1 DEF RemoveFile, SeqInv

\* A log of ordered files does not name, as new, a file that a task replaces.
LEMMA NotLogged ==
    ASSUME NEW K \in Kinds, TypeFiles, TypeJob, KindInv, RunInv(K), NEW w \in Jobs, job[w].pc \in {"logged", "delete"},
           NEW f \in File, job[w].ord => f \in OldOf(job[w]), f.ord = job[w].ord, NEW l \in OrdLogs
    PROVE  f \notin l.new
<1> SUFFICES ASSUME f \in l.new PROVE FALSE
  OBVIOUS
<1>0. LogHeld(l, Lists, tssp, init)
  BY DEF RunInv, LogInv
<1>1. f.ord = TRUE
  BY <1>0 DEF LogHeld, LogOK, OrdLogs, File
<1>2. job[w].ord /\ job[w].ord \in K /\ f \in OldOf(job[w])
  BY <1>1 DEF Kinds
<1>3. PICK m : m = LogOf(job[w])
  OBVIOUS
<1>4. m \in OrdLogs /\ m.old = OldOf(job[w])
  BY <1>2, <1>3 DEF RunInv, TasksInv, TaskOK, Working, OrdLogs, LogOf
<1>5. PICK h \in l.old : Older(h, f)
  BY <1>0 DEF LogHeld, LogOK
<1>6. Same(h, f)
  BY <1>5, NameFacts
<1>7. l = m
  BY <1>2, <1>4, <1>6 DEF RunInv, LogInv, LogsApart, Apart
<1>8. h = f
  BY <1>0, <1>2, <1>4, <1>6, <1>7 DEF LogHeld, LogOK, Unique
<1> QED BY <1>5, <1>8, OlderFacts

\* Nor does another task write it.
LEMMA NotWritten ==
    ASSUME NEW K \in Kinds, TypeJob, KindInv, RunInv(K), NEW v \in Jobs, NEW w \in Jobs, v # w, Working(job[w]), Written(job[v]),
           NEW f \in OldOf(job[w]), NEW g \in job[v].new, job[v].ord \in K
    PROVE  ~Same(f, g) /\ f # g
<1>1. Working(job[v])
  BY DEF Working, Written
<1>2. LogOK(LogOf(job[v])) /\ LogOf(job[v]).new = job[v].new /\ LogOf(job[v]).old = OldOf(job[v])
  BY <1>1 DEF RunInv, TasksInv, TaskOK, LogOf
<1>3. PICK h \in OldOf(job[v]) : Older(h, g)
  BY <1>2 DEF LogOK
<1>4. ~Same(f, h) /\ Same(h, g)
  BY <1>1, <1>3, NameFacts DEF RunInv, ApartInv, Apart
<1> QED BY <1>4, NameFacts


\* An old file leaves its list and the disk.
LEMMA DeleteOldFiles ==
    ASSUME NEW K \in Kinds, TypeFiles, JobInv, RunInv(K), NEW w \in Jobs, DeleteOld(w)
    PROVE  RunInv(K)'
<1>0. job[w] \in Job /\ job[w].pc \in {"logged", "delete"} /\ Kind(w, job[w]) /\ Shape(job[w], unord) /\ TypeJob /\ KindInv
      /\ TaskOK(K, job[w], Lists, tssp, init, log) /\ Working(job[w]) /\ Written(job[w]) /\ job[w].old # {}
      /\ (job[w].pc = "logged" => job[w].new \cap init = {})
  BY DEF DeleteOld, ListLocked, JobInv, TypeJob, KindInv, RunInv, ShapeInv, TasksInv, Working, Written
<1>1. PICK f \in Victims(job[w]) :
        /\ RemoveFile(f) /\ order' = order \ {f} /\ unord' = unord \ {f}
        /\ job' = [job EXCEPT ![w] = [job[w] EXCEPT !.pc = "delete", !.old = @ \ {f}]]
  BY DEF DeleteOld, JobInv, TypeJob
<1>2. UNCHANGED <<fileSeq, log, st, fl>>
  BY DEF DeleteOld, memVars
<1>3. job[w].old \in SUBSET File
  BY <1>0 DEF Job
<1>4. f \in job[w].old /\ f \in File /\ f.ord = job[w].ord
  BY <1>0, <1>1, <1>3, FirstFacts DEF Victims, Kind
<1>5. Pending' = Pending /\ Lists' = Lists \ {f} /\ OrdLogs' = OrdLogs /\ LogNew' = LogNew
  BY <1>1, <1>2 DEF Pending, Lists, OrdLogs, LogNew
<1>6. PICK k : k = [job[w] EXCEPT !.pc = "delete", !.old = @ \ {f}]
  OBVIOUS
<1>7. k.pc = "delete" /\ k.in = job[w].in /\ k.un = job[w].un /\ k.new = job[w].new
      /\ k.old = job[w].old \ {f} /\ k.rest = job[w].rest /\ k.ord = job[w].ord /\ k.mode = job[w].mode
  BY <1>0, <1>6 DEF Job
<1>8. job' = [job EXCEPT ![w] = k] /\ job'[w] = k /\ \A v \in Jobs : v # w => job'[v] = job[v]
  BY <1>0, <1>1, <1>6 DEF TypeJob
<1>9. OldOf(k) = OldOf(job[w]) /\ Working(k) /\ Written(k) /\ LogOf(k) = LogOf(job[w]) /\ TaskFiles(k) \subseteq TaskFiles(job[w])
  BY <1>7 DEF OldOf, Working, Written, LogOf, TaskFiles
<1>10. f \in TaskFiles(job[w]) /\ f \in Settled
  BY <1>4, SettledFacts DEF TaskFiles
<1>11. /\ tssp' = tssp \ {f} /\ init \subseteq init' /\ init' \subseteq init \cup {f} /\ gc' \subseteq gc \cup {f}
       /\ \A g \in gc' : g \in gc \/ g \in init'
       /\ Pending \subseteq tssp'
  BY <1>1, <1>10, RemovedFacts DEF RunInv
<1>12. job[w].ord \in K => f \in OldOf(job[w])
  BY <1>0, <1>4 DEF TaskOK
<1>13. SeqInv'
  <2>1. \A g \in {f} : \E h \in Settled : h.seq = g.seq
    BY <1>10
  <2>2. \A v \in Jobs : TaskFiles(job'[v]) \subseteq TaskFiles(job[v]) \cup {f}
    BY <1>8, <1>9
  <2>3. tssp' \subseteq tssp \cup {f} /\ init' \subseteq init \cup {f} /\ Lists' \subseteq Lists \cup {f} /\ gc' \subseteq gc \cup {f}
        /\ \A l \in log' : l \in log \/ LogFiles(l) \subseteq {f}
    BY <1>2, <1>5, <1>11
  <2> QED BY <1>2, <1>5, <1>11, <2>1, <2>2, <2>3, SeqStep DEF RunInv
<1>14. ListInv(K)'
  BY <1>5, <1>11 DEF RunInv, ListInv, Of, Unique
<1>15. TasksInv(K)'
  <2>1. ASSUME job[w].ord \in K PROVE TaskOK(K, k, Lists', tssp', init', log)
    <3>1. /\ Unique(OldOf(k)) /\ Alone(Lists, OldOf(k)) /\ LogOK(LogOf(k)) /\ LogOf(k) \in log
          /\ job[w].old \subseteq OldOf(k) /\ Lists \cap OldOf(k) \subseteq job[w].old /\ job[w].new \subseteq tssp
      BY <1>0, <1>9, <2>1 DEF TaskOK
    <3>2. LogOf(k).new = job[w].new /\ LogOf(k).old = OldOf(k)
      BY <1>7 DEF LogOf
    <3>3. f \in OldOf(k) /\ OldOf(k) \subseteq File /\ job[w].new \subseteq File
      BY <1>0, <1>9, <1>12, <2>1, ReplacedFacts DEF Job, RunInv
    <3>4. f \notin job[w].new
      BY <3>1, <3>2, <3>3, LogFacts
    <3>5. Alone(Lists', OldOf(k))
      BY <1>5, <3>1 DEF Alone
    <3> QED BY <1>5, <1>7, <1>11, <3>1, <3>4, <3>5 DEF TaskOK
  <2>2. TaskOK(K, k, Lists', tssp', init', log)
    BY <1>7, <2>1 DEF TaskOK
  <2>3. ASSUME NEW v \in Jobs, v # w PROVE TaskOK(K, job[v], Lists', tssp', init', log)
    <3>1. TaskOK(K, job[v], Lists, tssp, init, log)
      BY DEF RunInv, TasksInv
    <3>2. ASSUME job[v].ord \in K, Written(job[v]) PROVE f \notin job[v].new
      <4> SUFFICES ASSUME f \in job[v].new PROVE FALSE
        OBVIOUS
      <4>1. job[v].ord = f.ord
        BY <1>0 DEF KindInv, Kind
      <4>2. f \in OldOf(job[w])
        BY <1>4, <1>12, <3>2, <4>1
      <4> QED BY <1>0, <2>3, <3>2, <4>2, NotWritten
    <3> QED BY <1>5, <1>11, <3>1, <3>2, TaskKept
  <2> QED BY <1>2, <1>8, <2>2, <2>3 DEF TasksInv
<1>16. ShapeInv'
  <2>1. f \notin job[w].rest
    BY <1>0, <1>4 DEF Shape
  <2>2. Shape(k, unord')
    BY <1>0, <1>1, <1>7, <1>9, <2>1 DEF Shape
  <2>3. ASSUME NEW v \in Jobs, v # w PROVE Shape(job[v], unord')
    <3>1. Shape(job[v], unord) /\ Kind(v, job[v]) /\ job[v] \in Job
      BY <1>0 DEF RunInv, ShapeInv, KindInv, TypeJob
    <3>2. v = "compact" => job[v].rest = {}
      BY <3>1 DEF Kind
    <3>3. v # "compact" => f.ord = TRUE
      BY <1>0, <1>4, <2>3 DEF Jobs, Kind
    <3>4. f \notin job[v].rest
      BY <3>1, <3>2, <3>3 DEF Job, Unordered
    <3> QED BY <1>1, <3>1, <3>4 DEF Shape
  <2> QED BY <1>8, <2>2, <2>3 DEF ShapeInv
<1>17. ApartInv' /\ GoesOn(job[w], k)
  BY <1>0, <1>7, <1>8, <1>9, ApartKept DEF RunInv, GoesOn
<1>18. GcInv(K)'
  <2>1. Of(K, gc') \subseteq init'
    BY <1>11 DEF RunInv, GcInv, Of
  <2>2. \A g \in Of(K, gc') : g \in Of(K, gc) \/ (g = f /\ job[w].ord \in K /\ f \in OldOf(job[w]))
    BY <1>4, <1>11, <1>12 DEF Of
  <2>3. ASSUME job[w].ord \in K, f \in OldOf(job[w]), NEW g \in Lists' PROVE ~Same(f, g)
    <3>1. Alone(Lists, OldOf(job[w]))
      BY <1>0, <2>3 DEF TaskOK
    <3> QED BY <1>5, <2>3, <3>1, NameFacts DEF Alone
  <2>4. OlderThan(Of(K, gc'), Lists')
    BY <1>5, <2>2, <2>3 DEF RunInv, GcInv, OlderThan
  <2>5. ASSUME NEW v \in Jobs, Written(job'[v]) PROVE OlderThan(Of(K, gc'), job'[v].new)
    <3>1. Written(job[v]) /\ job'[v].new = job[v].new
      BY <1>0, <1>7, <1>8, <2>5
    <3>2. OlderThan(Of(K, gc), job[v].new)
      BY <3>1 DEF RunInv, GcInv
    <3>3. ASSUME job[w].ord \in K, f \in OldOf(job[w]), NEW g \in job[v].new, Same(f, g) PROVE Older(f, g)
      <4>1. job[v].ord = job[w].ord
        BY <1>0, <1>4, <3>3 DEF KindInv, Kind, Same
      <4>2. v = w
        BY <1>0, <3>1, <3>3, <4>1, NotWritten
      <4>3. LogOK(LogOf(job[w])) /\ LogOf(job[w]).new = job[w].new /\ LogOf(job[w]).old = OldOf(job[w]) /\ Unique(OldOf(job[w]))
        BY <1>0, <3>3 DEF TaskOK, LogOf
      <4>4. PICK h \in OldOf(job[w]) : Older(h, g)
        BY <3>3, <4>2, <4>3 DEF LogOK
      <4>5. h = f
        BY <3>3, <4>3, <4>4, NameFacts DEF Unique
      <4> QED BY <4>4, <4>5
    <3> QED BY <2>2, <3>1, <3>2, <3>3 DEF OlderThan
  <2> QED BY <2>1, <2>4, <2>5 DEF GcInv
<1>19. \A l \in OrdLogs : f \notin l.new
  <2>1. job[w].ord => job[w].ord \in K
    BY <1>0 DEF Kinds, Job
  <2> QED BY <1>0, <1>4, <1>12, <2>1, NotLogged
<1>20. LogInv'
  <2>1. ASSUME NEW l \in OrdLogs PROVE LogHeld(l, Lists', tssp', init')
    BY <1>5, <1>11, <1>19, LogKept DEF RunInv, LogInv
  <2> QED BY <1>5, <2>1 DEF RunInv, LogInv
<1>21. OwnerInv'
  <2>1. \A l \in OrdLogs : l.new \subseteq tssp => l.new \subseteq tssp'
    BY <1>11, <1>19
  <2> QED BY <1>0, <1>2, <1>5, <1>8, <1>17, <2>1, OwnerKept DEF RunInv, OwnerInv
<1>22. DiskInv'
  BY <1>5, <1>11 DEF RunInv, DiskInv
<1> QED BY <1>13, <1>14, <1>15, <1>16, <1>17, <1>18, <1>20, <1>21, <1>22 DEF RunInv

\* The new files are listed: nothing of their names is left in the list.
LEMMA AddNewFiles ==
    ASSUME NEW K \in Kinds, TypeFiles, JobInv, RunInv(K), NEW w \in Jobs, AddNew(w)
    PROVE  RunInv(K)'
<1>0. job[w] \in Job /\ job[w].pc = "delete" /\ Kind(w, job[w]) /\ Shape(job[w], unord) /\ TypeJob /\ KindInv
      /\ TaskOK(K, job[w], Lists, tssp, init, log) /\ Working(job[w]) /\ Written(job[w]) /\ job[w].old = {}
      /\ job[w].new # {}
  BY DEF AddNew, JobInv, TypeJob, KindInv, RunInv, ShapeInv, TasksInv, Working, Written, Shape
<1>1. /\ Lists' = Lists \cup job[w].new /\ unord \subseteq unord' /\ log' = {l \in log : l.new # job[w].new}
      /\ UNCHANGED <<fileSeq, tssp, init, gc, st, fl>>
  BY DEF AddNew, Lists, memVars
<1>2. PICK k : job' = [job EXCEPT ![w] = k] /\ (k = IdleJob \/ k = [job[w] EXCEPT !.pc = "rest"])
  BY DEF AddNew, Done, JobInv, TypeJob
<1>3. job'[w] = k /\ \A v \in Jobs : v # w => job'[v] = job[v]
  BY <1>0, <1>2 DEF TypeJob
<1>4. ~Working(k) /\ ~Written(k) /\ Shape(k, unord') /\ TaskFiles(k) \subseteq TaskFiles(job[w])
  <2>1. CASE k = IdleJob
    BY <2>1, IdleTask
  <2>2. CASE k = [job[w] EXCEPT !.pc = "rest"]
    <3>1. k.pc = "rest" /\ k.in = job[w].in /\ k.un = job[w].un /\ k.new = job[w].new
          /\ k.old = job[w].old /\ k.rest = job[w].rest /\ k.ord = job[w].ord
      BY <1>0, <2>2, PcFacts DEF Stages
    <3> QED BY <1>0, <1>1, <3>1 DEF Working, Written, Shape, TaskFiles
  <2> QED BY <1>2, <2>1, <2>2
<1>5. Pending' = Pending
  BY <1>1 DEF Pending
<1>6. \A f \in job[w].new : f.ord = job[w].ord
  BY <1>0 DEF Kind
<1>7. ASSUME job[w].ord \in K
      PROVE  /\ \A f \in job[w].new : \E h \in OldOf(job[w]) : Same(f, h)
             /\ job[w].new \subseteq tssp /\ Unique(job[w].new) /\ LogOf(job[w]) \in log
             /\ \A f \in job[w].new, g \in Lists : ~Same(f, g) /\ ~Same(g, f)
  <2>1. /\ LogOK(LogOf(job[w])) /\ Alone(Lists, OldOf(job[w])) /\ Lists \cap OldOf(job[w]) = {}
        /\ job[w].new \subseteq tssp /\ LogOf(job[w]) \in log
    BY <1>0, <1>7 DEF TaskOK
  <2>2. LogOf(job[w]).new = job[w].new /\ LogOf(job[w]).old = OldOf(job[w])
    BY DEF LogOf
  <2>3. (\A f \in job[w].new : \E h \in OldOf(job[w]) : Same(f, h)) /\ Unique(job[w].new)
    BY <2>1, <2>2, NameFacts DEF LogOK
  <2>4. \A f \in job[w].new, g \in Lists : ~Same(f, g) /\ ~Same(g, f)
    BY <2>1, <2>3, NameFacts DEF Alone
  <2> QED BY <2>1, <2>3, <2>4
<1>8. SeqInv'
  <2>1. PICK N : N = job[w].new
    OBVIOUS
  <2>2. \A g \in N : \E h \in Settled : h.seq = g.seq
    BY <2>1, SettledFacts DEF TaskFiles
  <2>3. \A v \in Jobs : TaskFiles(job'[v]) \subseteq TaskFiles(job[v]) \cup N
    BY <1>3, <1>4
  <2>4. tssp' \subseteq tssp \cup N /\ init' \subseteq init \cup N /\ Lists' \subseteq Lists \cup N /\ gc' \subseteq gc \cup N
        /\ Pending \subseteq tssp' /\ \A l \in log' : l \in log \/ LogFiles(l) \subseteq N
    BY <1>1, <2>1 DEF RunInv, SeqInv
  <2> QED BY <1>1, <1>5, <2>2, <2>3, <2>4, SeqStep DEF RunInv
<1>9. ListInv(K)'
  <2>1. CASE job[w].ord \in K
    <3>1. Unique(Of(K, Lists'))
      BY <1>1, <1>7, <2>1 DEF RunInv, ListInv, Of, Unique
    <3>2. Of(K, Lists') \subseteq tssp
      BY <1>1, <1>7, <2>1 DEF RunInv, ListInv, Of
    <3> QED BY <1>1, <3>1, <3>2 DEF ListInv, Of
  <2>2. CASE job[w].ord \notin K
    <3>1. Of(K, Lists') = Of(K, Lists)
      BY <1>1, <1>6, <2>2 DEF Of
    <3> QED BY <1>1, <3>1 DEF RunInv, ListInv, Of
  <2> QED BY <2>1, <2>2
<1>10. TasksInv(K)'
  <2>1. TaskOK(K, k, Lists', tssp', init', log')
    BY <1>4 DEF TaskOK
  <2>2. ASSUME NEW v \in Jobs, v # w PROVE TaskOK(K, job[v], Lists', tssp, init, log')
    <3>1. TaskOK(K, job[v], Lists, tssp, init, log)
      BY DEF RunInv, TasksInv
    <3>2. ASSUME Working(job[v]), job[v].ord \in K, NEW f \in job[w].new, NEW h \in OldOf(job[v]) PROVE ~Same(f, h)
      <4>1. h.ord = job[v].ord
        BY <1>0, <3>2, ReplacedFacts DEF RunInv, Working
      <4>2. CASE job[w].ord \in K
        <5>1. PICK g \in OldOf(job[w]) : Same(f, g)
          BY <1>7, <4>2
        <5>2. ~Same(g, h)
          BY <1>0, <2>2, <3>2 DEF RunInv, ApartInv, Apart
        <5> QED BY <5>1, <5>2, NameFacts
      <4>3. CASE job[w].ord \notin K
        BY <1>6, <3>2, <4>1, <4>3 DEF Same
      <4> QED BY <4>2, <4>3
    <3>3. ASSUME Working(job[v]), job[v].ord \in K, job[v].pc \in {"logged", "delete"} PROVE job[v].new # job[w].new
      <4> SUFFICES ASSUME job[v].new = job[w].new PROVE FALSE
        OBVIOUS
      <4>1. PICK f \in job[w].new : TRUE
        BY <1>0
      <4>2. LogOK(LogOf(job[v])) /\ LogOf(job[v]).new = job[v].new /\ LogOf(job[v]).old = OldOf(job[v])
        BY <3>1, <3>3 DEF TaskOK, LogOf, Written
      <4>3. PICK h \in OldOf(job[v]) : Older(h, f)
        BY <4>1, <4>2 DEF LogOK
      <4> QED BY <3>2, <3>3, <4>1, <4>3, NameFacts
    <3>4. ASSUME Working(job[v]), job[v].ord \in K, job[v].pc \in {"logged", "delete"}, LogOf(job[v]) \in log PROVE LogOf(job[v]) \in log'
      <4>1. LogOf(job[v]).new = job[v].new
        BY DEF LogOf
      <4> QED BY <1>1, <3>3, <3>4, <4>1
    <3> QED BY <1>1, <3>1, <3>2, <3>4, TaskKept
  <2> QED BY <1>1, <1>3, <2>1, <2>2 DEF TasksInv
<1>11. ShapeInv'
  <2>1. \A v \in Jobs : v # w => Shape(job[v], unord')
    BY <1>1 DEF RunInv, ShapeInv, Shape
  <2> QED BY <1>3, <1>4, <2>1 DEF ShapeInv
<1>12. ApartInv'
  BY <1>0, <1>2, <1>4, ApartKept DEF RunInv
<1>13. GcInv(K)'
  <2>1. OlderThan(Of(K, gc), Lists')
    BY <1>0, <1>1 DEF RunInv, GcInv, OlderThan
  <2>2. \A v \in Jobs : Written(job'[v]) => OlderThan(Of(K, gc), job'[v].new)
    BY <1>3, <1>4 DEF RunInv, GcInv
  <2> QED BY <1>1, <2>1, <2>2 DEF RunInv, GcInv
<1>14. OrdLogs' \subseteq OrdLogs /\ \A l \in OrdLogs' : l # LogOf(job[w])
  BY <1>1 DEF OrdLogs, LogOf
<1>15. LogInv'
  <2>1. ASSUME NEW l \in OrdLogs' PROVE LogHeld(l, Lists', tssp, init)
    <3>1. l \in OrdLogs /\ l # LogOf(job[w]) /\ LogHeld(l, Lists, tssp, init)
      BY <1>14 DEF RunInv, LogInv
    <3>2. ASSUME NEW f \in job[w].new, NEW h \in l.old PROVE ~Same(f, h)
      <4>1. h.ord = l.ord /\ l.ord
        BY <3>1 DEF LogHeld, LogOK, OrdLogs
      <4>2. CASE job[w].ord
        <5>1. job[w].ord \in K
          BY <1>0, <4>2 DEF Kinds, Job
        <5>2. PICK g \in OldOf(job[w]) : Same(f, g)
          BY <1>7, <5>1
        <5>3. LogOf(job[w]) \in OrdLogs /\ LogOf(job[w]).old = OldOf(job[w])
          BY <1>7, <4>2, <5>1 DEF OrdLogs, LogOf
        <5>4. Apart(l.old, OldOf(job[w]))
          BY <3>1, <5>3 DEF RunInv, LogInv, LogsApart
        <5> QED BY <5>2, <5>4, NameFacts DEF Apart
      <4>3. CASE ~job[w].ord
        BY <1>6, <4>1, <4>3 DEF Same
      <4> QED BY <4>2, <4>3
    <3> QED BY <1>1, <3>1, <3>2, LogKept
  <2>2. LogsApart(OrdLogs')
    BY <1>14 DEF RunInv, LogInv, LogsApart
  <2> QED BY <1>1, <2>1, <2>2 DEF LogInv
<1>16. OwnerInv'
  <2> SUFFICES ASSUME NEW l \in OrdLogs' PROVE Owned(l)' \/ Orphan(l)'
    BY DEF OwnerInv
  <2>1. l \in OrdLogs /\ l # LogOf(job[w])
    BY <1>14
  <2>2. Owned(l) => Owned(l)'
    BY <1>3, <2>1 DEF Owned
  <2>3. Orphan(l) => Orphan(l)'
    BY <1>1, <1>3, <1>4 DEF Orphan
  <2> QED BY <2>1, <2>2, <2>3 DEF RunInv, OwnerInv
<1>17. DiskInv'
  <2>1. \A f \in LogNew : f \in LogNew' \/ f \in Lists'
    BY <1>1 DEF LogNew, OrdLogs
  <2> QED BY <1>1, <1>5, <2>1 DEF RunInv, DiskInv
<1> QED BY <1>8, <1>9, <1>10, <1>11, <1>12, <1>13, <1>15, <1>16, <1>17 DEF RunInv

\* An unordered file that was merged leaves its list and the disk.
LEMMA DeleteUnorderedFiles ==
    ASSUME NEW K \in Kinds, TypeFiles, JobInv, RunInv(K), DeleteUnordered
    PROVE  RunInv(K)'
<1>0. job["merge"] \in Job /\ job["merge"].pc \in {"rest", "drop"} /\ Kind("merge", job["merge"]) /\ "merge" \in Jobs
      /\ Shape(job["merge"], unord) /\ TypeJob /\ KindInv /\ job["merge"].rest \in SUBSET Unordered
      /\ ~Working(job["merge"]) /\ ~Written(job["merge"])
  BY DEF DeleteUnordered, JobInv, TypeJob, KindInv, Jobs, RunInv, ShapeInv, Job, Working, Written
<1>1. PICK f : f = First(job["merge"].rest)
  OBVIOUS
<1>2. f \in job["merge"].rest /\ f \in Unordered /\ f \in unord /\ f \in File /\ ~f.ord
  <2>1. job["merge"].rest # {} /\ job["merge"].rest \subseteq unord
    BY <1>0 DEF Kind, Shape
  <2>2. f \in job["merge"].rest
    BY <1>0, <1>1, <2>1, FirstFacts DEF Unordered
  <2> QED BY <1>0, <2>1, <2>2 DEF Unordered
<1>3. /\ RemoveFile(f) /\ unord' = unord \ {f} /\ order' = order /\ UNCHANGED <<fileSeq, log, st, fl>>
  BY <1>1 DEF DeleteUnordered, NextRest, memVars
<1>4. PICK k : job' = [job EXCEPT !["merge"] = k]
               /\ (k = IdleJob \/ k = [job["merge"] EXCEPT !.pc = "drop", !.rest = @ \ {f}]
                   \/ k = [job["merge"] EXCEPT !.pc = "entry", !.rest = {}])
  <2>1. CASE job["merge"].rest # {f}
    <3>1. job' = [job EXCEPT !["merge"] = [job["merge"] EXCEPT !.pc = "drop", !.rest = @ \ {f}]]
      BY <1>1, <2>1 DEF DeleteUnordered, NextRest, JobInv, TypeJob
    <3> QED BY <3>1
  <2>2. CASE job["merge"].rest = {f} /\ unord # {f}
    <3>1. Done("merge")
      BY <1>1, <2>2 DEF DeleteUnordered, NextRest
    <3> QED BY <3>1 DEF Done
  <2>3. CASE job["merge"].rest = {f} /\ unord = {f}
    <3>1. job' = [job EXCEPT !["merge"] = [job["merge"] EXCEPT !.pc = "entry", !.rest = {}]]
      BY <1>1, <2>3 DEF DeleteUnordered, NextRest, JobInv, TypeJob
    <3> QED BY <3>1
  <2> QED BY <2>1, <2>2, <2>3
<1>5. job'["merge"] = k /\ \A v \in Jobs : v # "merge" => job'[v] = job[v]
  BY <1>0, <1>4 DEF TypeJob
<1>6. ~Working(k) /\ ~Written(k) /\ Shape(k, unord') /\ TaskFiles(k) \subseteq TaskFiles(job["merge"])
  <2>1. CASE k = IdleJob
    BY <2>1, IdleTask
  <2>2. CASE k = [job["merge"] EXCEPT !.pc = "drop", !.rest = @ \ {f}]
    <3>1. k.pc = "drop" /\ k.in = job["merge"].in /\ k.un = job["merge"].un /\ k.new = job["merge"].new
          /\ k.old = job["merge"].old /\ k.rest = job["merge"].rest \ {f} /\ k.ord = job["merge"].ord
      BY <1>0, <2>2 DEF Job
    <3> QED BY <1>0, <1>3, <3>1 DEF Working, Written, Shape, TaskFiles
  <2>3. CASE k = [job["merge"] EXCEPT !.pc = "entry", !.rest = {}]
    <3>1. k.pc = "entry" /\ k.in = job["merge"].in /\ k.un = job["merge"].un /\ k.new = job["merge"].new
          /\ k.old = job["merge"].old /\ k.rest = {} /\ k.ord = job["merge"].ord
      BY <1>0, <2>3 DEF Job
    <3> QED BY <1>0, <1>3, <3>1 DEF Working, Written, Shape, TaskFiles
  <2> QED BY <1>4, <2>1, <2>2, <2>3
<1>7. Pending' = Pending /\ Lists' = Lists \ {f} /\ OrdLogs' = OrdLogs /\ LogNew' = LogNew /\ f \in Lists
  <2>1. f \notin order
    BY <1>2 DEF TypeFiles, Ordered
  <2> QED BY <1>2, <1>3, <2>1 DEF Pending, Lists, OrdLogs, LogNew
<1>8. f \in Settled
  BY <1>7, SettledFacts
<1>9. /\ tssp' = tssp \ {f} /\ init \subseteq init' /\ init' \subseteq init \cup {f} /\ gc' \subseteq gc \cup {f}
      /\ \A g \in gc' : g \in gc \/ g \in init'
      /\ Pending \subseteq tssp'
  BY <1>3, <1>8, RemovedFacts DEF RunInv
<1>10. SeqInv'
  <2>1. \A g \in {f} : \E h \in Settled : h.seq = g.seq
    BY <1>8
  <2>2. \A v \in Jobs : TaskFiles(job'[v]) \subseteq TaskFiles(job[v]) \cup {f}
    BY <1>5, <1>6
  <2>3. tssp' \subseteq tssp \cup {f} /\ init' \subseteq init \cup {f} /\ Lists' \subseteq Lists \cup {f} /\ gc' \subseteq gc \cup {f}
        /\ \A l \in log' : l \in log \/ LogFiles(l) \subseteq {f}
    BY <1>3, <1>7, <1>9
  <2> QED BY <1>3, <1>7, <1>9, <2>1, <2>2, <2>3, SeqStep DEF RunInv
<1>11. ListInv(K)'
  BY <1>7, <1>9 DEF RunInv, ListInv, Of, Unique
<1>12. ASSUME NEW v \in Jobs, v # "merge" PROVE f \notin job[v].new /\ job[v].rest = {} /\ \A g \in job[v].new : ~Same(f, g)
  <2>1. Kind(v, job[v]) /\ v = "compact"
    BY <1>0, <1>12 DEF KindInv, Jobs
  <2>2. job[v].ord /\ job[v].rest = {} /\ \A g \in job[v].new : g.ord = job[v].ord
    BY <2>1 DEF Kind
  <2> QED BY <1>2, <2>2 DEF Same
<1>13. TasksInv(K)'
  <2>1. TaskOK(K, k, Lists', tssp', init', log')
    BY <1>6 DEF TaskOK
  <2>2. ASSUME NEW v \in Jobs, v # "merge" PROVE TaskOK(K, job[v], Lists', tssp', init', log)
    BY <1>7, <1>9, <1>12, <2>2, TaskKept DEF RunInv, TasksInv
  <2> QED BY <1>3, <1>5, <2>1, <2>2 DEF TasksInv
<1>14. ShapeInv'
  <2>1. \A v \in Jobs : v # "merge" => Shape(job[v], unord')
    BY <1>12 DEF RunInv, ShapeInv, Shape
  <2> QED BY <1>5, <1>6, <2>1 DEF ShapeInv
<1>15. ApartInv' /\ GoesOn(job["merge"], k)
  BY <1>0, <1>4, <1>6, ApartKept DEF RunInv, GoesOn
<1>16. GcInv(K)'
  <2>1. Of(K, gc') \subseteq init'
    BY <1>9 DEF RunInv, GcInv, Of
  <2>2. \A g \in Of(K, gc') : g \in Of(K, gc) \/ (g = f /\ f.ord \in K)
    BY <1>9 DEF Of
  <2>3. ASSUME f.ord \in K, NEW g \in Lists' PROVE ~Same(f, g)
    <3>1. Same(f, g) => g \in Of(K, Lists) /\ f \in Of(K, Lists)
      BY <1>7, <2>3 DEF Of, Same
    <3> QED BY <1>7, <3>1 DEF RunInv, ListInv, Unique
  <2>4. OlderThan(Of(K, gc'), Lists')
    BY <1>7, <2>2, <2>3 DEF RunInv, GcInv, OlderThan
  <2>5. ASSUME NEW v \in Jobs, Written(job'[v]) PROVE OlderThan(Of(K, gc'), job'[v].new)
    <3>1. v # "merge" /\ job'[v] = job[v]
      BY <1>5, <1>6, <2>5
    <3>2. OlderThan(Of(K, gc), job[v].new)
      BY <2>5, <3>1 DEF RunInv, GcInv
    <3> QED BY <1>12, <2>2, <3>1, <3>2 DEF OlderThan
  <2> QED BY <2>1, <2>4, <2>5 DEF GcInv
<1>17. \A l \in OrdLogs : f \notin l.new
  BY <1>2 DEF RunInv, LogInv, LogHeld, LogOK, OrdLogs
<1>18. LogInv'
  <2>1. ASSUME NEW l \in OrdLogs PROVE LogHeld(l, Lists', tssp', init')
    BY <1>7, <1>9, <1>17, LogKept DEF RunInv, LogInv
  <2> QED BY <1>7, <2>1 DEF RunInv, LogInv
<1>19. OwnerInv'
  <2>1. \A l \in OrdLogs : l.new \subseteq tssp => l.new \subseteq tssp'
    BY <1>9, <1>17
  <2> QED BY <1>0, <1>3, <1>4, <1>7, <1>15, <2>1, OwnerKept DEF RunInv, OwnerInv
<1>20. DiskInv'
  BY <1>7, <1>9 DEF RunInv, DiskInv
<1> QED BY <1>10, <1>11, <1>13, <1>14, <1>15, <1>16, <1>18, <1>19, <1>20 DEF RunInv


-----------------------------------------------------------------------------
(* Crash and recovery.                                                     *)

\* The new files of a log are none of the old files of any log.
LEMMA NewNotOld ==
    ASSUME TypeFiles, NEW l \in OrdLogs, NEW m \in OrdLogs, LogOK(l), LogOK(m), LogsApart(OrdLogs),
           m.new \subseteq tssp \cup init
    PROVE  l.old \cap m.new = {}
<1> SUFFICES ASSUME NEW f \in l.old, f \in m.new PROVE FALSE
  OBVIOUS
<1>1. PICK h \in m.old : Older(h, f) /\ Same(h, f)
  BY NameFacts DEF LogOK
<1>2. f \in File
  BY DEF TypeFiles
<1>3. CASE l = m
  <2>1. h = f
    BY <1>1, <1>3 DEF LogOK, Unique
  <2> QED BY <1>1, <1>2, <2>1, OlderFacts
<1>4. CASE l # m
  BY <1>1, <1>4, NameFacts DEF LogsApart, Apart
<1> QED BY <1>3, <1>4

\* Wherever the store stops, a log tells which of two ordered files of a sequence
\* replaces the other.
LEMMA StopsRecoverable ==
    ASSUME NEW K \in Kinds, RunInv(K)
    PROVE  RecoverInv
<1>1. TRUE \in K /\ SeqInv /\ ListInv(K) /\ DiskInv /\ LogsApart(OrdLogs)
      /\ \A l \in OrdLogs : LogHeld(l, Lists, tssp, init)
  BY DEF Kinds, RunInv, LogInv
<1>2. \A l \in OrdLogs : LogOK(l) /\ l.new \subseteq tssp \cup init /\ Alone(Lists, l.old) /\ l.ord /\ l \in log
  BY <1>1 DEF LogHeld, OrdLogs
<1>3. LogNew \subseteq Settled /\ Lists \subseteq Settled
  BY <1>2, SettledFacts DEF LogNew, LogFiles
<1>4. \A f \in Disk : f.ord = TRUE /\ f \in Lists \cup Pending \cup LogNew
  <2>1. \A f \in LogNew : f.ord
    BY <1>2 DEF LogNew, LogOK
  <2> QED BY <1>1, <2>1 DEF Disk, DiskInv, LogNew
<1>5. ASSUME NEW f \in Disk, NEW g \in Disk, Same(f, g), f # g PROVE f \notin Pending
  <2>1. Unique(Pending)
    BY <1>1 DEF SeqInv
  <2>2. g \in Pending \/ g \in Settled
    BY <1>3, <1>4
  <2> QED BY <1>1, <1>5, <2>1, <2>2, PendingFacts DEF Unique
<1>6. ASSUME NEW f \in Lists, NEW g \in Lists, f.ord = TRUE, g.ord = TRUE, Same(f, g) PROVE f = g
  BY <1>1, <1>6 DEF ListInv, Of, Unique
<1>7. ASSUME NEW f \in Lists, NEW g \in LogNew, Same(f, g) PROVE \E l \in OrdLogs : f \in l.old /\ g \in l.new
  <2>1. PICK l \in OrdLogs : g \in l.new
    BY DEF LogNew
  <2>2. PICK h \in l.old : Same(h, g)
    BY <1>2, <2>1, NameFacts DEF LogOK
  <2>3. f = h
    BY <1>2, <1>7, <2>2, NameFacts DEF Alone
  <2> QED BY <2>1, <2>2, <2>3
<1>8. ASSUME NEW f \in LogNew, NEW g \in LogNew, Same(f, g) PROVE f = g
  <2>1. PICK l \in OrdLogs : f \in l.new
    BY DEF LogNew
  <2>2. PICK m \in OrdLogs : g \in m.new
    BY DEF LogNew
  <2>3. PICK h \in l.old : Same(h, f)
    BY <1>2, <2>1, NameFacts DEF LogOK
  <2>4. PICK k \in m.old : Same(k, g)
    BY <1>2, <2>2, NameFacts DEF LogOK
  <2>5. Same(h, k)
    BY <1>8, <2>3, <2>4, NameFacts
  <2>6. l = m
    BY <1>1, <2>5 DEF LogsApart, Apart
  <2> QED BY <1>2, <1>8, <2>1, <2>2, <2>6 DEF LogOK, Unique
<1>9. ASSUME NEW f \in Disk, NEW g \in Disk, Same(f, g), f # g PROVE \E l \in OrdLogs : Replaces(l, f, g)
  <2>1. f \notin Pending /\ g \notin Pending /\ Same(g, f)
    BY <1>5, <1>9, NameFacts
  <2>2. f \in Lists \cup LogNew /\ g \in Lists \cup LogNew /\ f.ord = TRUE /\ g.ord = TRUE
    BY <1>4, <2>1
  <2>3. CASE f \in Lists /\ g \in Lists
    BY <1>6, <1>9, <2>2, <2>3
  <2>4. CASE f \in Lists /\ g \in LogNew
    BY <1>7, <1>9, <2>4 DEF Replaces
  <2>5. CASE f \in LogNew /\ g \in Lists
    BY <1>7, <2>1, <2>5 DEF Replaces
  <2>6. CASE f \in LogNew /\ g \in LogNew
    BY <1>8, <1>9, <2>6
  <2> QED BY <2>2, <2>3, <2>4, <2>5, <2>6
<1> QED BY <1>1, <1>2, <1>9 DEF RecoverInv

\* A crash or a close keeps the disk and forgets the rest.
LEMMA ResetFiles ==
    ASSUME Reset, RecoverInv
    PROVE  QuietInv'
<1>1. UNCHANGED <<tssp, init, log>> /\ gc' = {} /\ order' = {} /\ unord' = {} /\ fl' = IdleFlush
      /\ refs' = [r \in Reader |-> {}]
  BY DEF Reset, diskVars
<1>2. OrdLogs' = OrdLogs /\ LogNew' = LogNew /\ Disk' = Disk
  BY <1>1 DEF OrdLogs, LogNew, Disk
<1>3. RecoverInv'
  BY <1>1, <1>2 DEF RecoverInv
<1> QED BY <1>1, <1>3 DEF QuietInv

\* processLog: a log is finished, whichever of its steps a crash repeats.
LEMMA ProcessLogFiles ==
    ASSUME TypeFiles, QuietInv, NEW l \in log, ProcessLog(l)
    PROVE  QuietInv'
<1>0. RecoverInv /\ LogsApart(OrdLogs) /\ \A m \in OrdLogs : LogOK(m) /\ m.new \subseteq tssp \cup init /\ m.ord
  BY DEF QuietInv, RecoverInv, OrdLogs
<1>1. UNCHANGED <<gc, order, unord, fl, refs>>
  BY DEF ProcessLog, memVars, listVars
<1> SUFFICES RecoverInv'
  BY <1>1 DEF QuietInv
<1>2. CASE ~l.ord
  <2>1. ToRename(l) = {} /\ ToRemove(l) = {}
    BY <1>2 DEF ToRename, ToRemove, NewFilesExist, OldFilesExist
  <2>2. log' = log \ {l} /\ UNCHANGED <<tssp, init>>
    BY <2>1 DEF ProcessLog
  <2>3. OrdLogs' = OrdLogs
    BY <1>2, <2>2 DEF OrdLogs
  <2>4. LogNew' = LogNew /\ Disk' = Disk
    BY <2>2, <2>3 DEF LogNew, Disk
  <2> QED BY <1>0, <2>2, <2>3, <2>4 DEF RecoverInv
<1>3. CASE l.ord
  <2>0. l \in OrdLogs
    BY <1>3 DEF OrdLogs
  <2>1. NewFilesExist(l) /\ ToRename(l) = l.new \cap init /\ ToRemove(l) = l.old \cap tssp
    BY <1>0, <1>3, <2>0 DEF ToRename, ToRemove, NewFilesExist, OnDisk
  <2>2. \A m \in OrdLogs : l.old \cap m.new = {}
    BY <1>0, <2>0, NewNotOld
  <2>3. CASE \E f \in ToRename(l) : tssp' = tssp \cup {f} /\ init' = init \ {f} /\ UNCHANGED log
    <3>1. PICK f \in l.new : tssp' = tssp \cup {f} /\ init' = init \ {f} /\ UNCHANGED log
      BY <2>1, <2>3
    <3>2. OrdLogs' = OrdLogs /\ LogNew' = LogNew /\ f \in LogNew
      BY <2>0, <3>1 DEF OrdLogs, LogNew
    <3>3. Disk' = Disk
      BY <3>1, <3>2 DEF Disk
    <3>4. tssp \cup init \subseteq tssp' \cup init'
      BY <3>1
    <3> QED BY <1>0, <3>2, <3>3, <3>4 DEF RecoverInv
  <2>4. CASE \E f \in ToRemove(l) : tssp' = tssp \ {f} /\ UNCHANGED <<init, log>>
    <3>1. PICK f \in l.old : tssp' = tssp \ {f} /\ UNCHANGED <<init, log>>
      BY <2>1, <2>4
    <3>2. OrdLogs' = OrdLogs /\ LogNew' = LogNew
      BY <3>1 DEF OrdLogs, LogNew
    <3>3. Disk' \subseteq Disk
      BY <3>1, <3>2 DEF Disk
    <3>4. \A m \in OrdLogs : m.new \subseteq tssp' \cup init'
      BY <1>0, <2>2, <3>1
    <3> QED BY <1>0, <3>2, <3>3, <3>4 DEF RecoverInv
  <2>5. CASE ToRename(l) = {} /\ ToRemove(l) = {} /\ log' = log \ {l} /\ UNCHANGED <<tssp, init>>
    <3>1. OrdLogs' = OrdLogs \ {l} /\ OrdLogs' \subseteq OrdLogs
      BY <2>5 DEF OrdLogs
    <3>2. LogNew' \subseteq LogNew
      BY <3>1 DEF LogNew
    <3>3. Disk' \subseteq Disk
      BY <2>5, <3>2 DEF Disk
    <3>4. \A f \in l.old : f \notin Disk'
      <4>1. \A f \in l.old : f \notin tssp'
        BY <2>1, <2>5
      <4>2. \A f \in l.old : f \notin LogNew'
        BY <2>2, <3>1 DEF LogNew
      <4> QED BY <4>1, <4>2 DEF Disk
    <3>5. ASSUME NEW f \in Disk', NEW g \in Disk', Same(f, g), f # g PROVE \E m \in OrdLogs' : Replaces(m, f, g)
      <4>1. PICK m \in OrdLogs : Replaces(m, f, g)
        BY <1>0, <3>3, <3>5 DEF RecoverInv
      <4>2. m # l
        BY <3>4, <4>1 DEF Replaces
      <4> QED BY <3>1, <4>1, <4>2
    <3>6. LogsApart(OrdLogs')
      BY <1>0, <3>1 DEF LogsApart
    <3> QED BY <1>0, <2>5, <3>1, <3>5, <3>6 DEF RecoverInv
  <2> QED BY <2>3, <2>4, <2>5 DEF ProcessLog
<1> QED BY <1>2, <1>3

\* The highest sequence is one.
LEMMA MaxSeqBound ==
    ASSUME tssp \subseteq File, IsFiniteSet(tssp) PROVE \A f \in tssp : f.seq \in Nat /\ f.seq <= MaxSeq
<1> DEFINE Q == {f.seq : f \in tssp}
           h == [f \in tssp |-> f.seq]
<1>1. Q \in SUBSET Nat
  BY DEF File
<1>2. h \in Surjection(tssp, Q)
  BY DEF Surjection
<1>3. IsFiniteSet(Q)
  BY <1>2, FS_Surjection
<1>4. IsFiniteSet(Q \cup {0})
  BY <1>3, FS_AddElement
<1>5. PICK R : R = Q \cup {0}
  OBVIOUS
<1>6. R \in SUBSET Int /\ R # {} /\ \A f \in tssp : f.seq \in R /\ f.seq \in Nat
  BY <1>1, <1>5
<1>7. \A y \in R : y <= Max(R)
  BY <1>4, <1>5, <1>6, MaxFacts
<1> QED BY <1>5, <1>6, <1>7 DEF MaxSeq

\* A store without tasks, logs and temporary files, that lists what is on disk.
Fresh(K) ==
    /\ log = {} /\ job = [w \in Jobs |-> IdleJob] /\ gc = {} /\ fl = IdleFlush /\ init = {}
    /\ Lists = tssp /\ Unique(Of(K, tssp))
    /\ fileSeq \in Nat /\ \A f \in tssp : f.seq \in Nat /\ f.seq <= fileSeq

\* It is as it should be.
LEMMA FreshFiles ==
    ASSUME NEW K \in Kinds PROVE Fresh(K) => RunInv(K)
<1> SUFFICES ASSUME Fresh(K) PROVE RunInv(K)
  OBVIOUS
<1>1. Pending = {} /\ OrdLogs = {} /\ LogNew = {} /\ Lists = tssp
  BY DEF Fresh, Pending, IdleFlush, OrdLogs, LogNew
<1>2. \A w \in Jobs : job[w] = IdleJob
  BY DEF Fresh
<1>3. UNION {TaskFiles(job[w]) : w \in Jobs} = {} /\ UNION {LogFiles(l) : l \in log} = {}
  BY <1>2, IdleTask DEF Fresh
<1>4. Settled = tssp
  BY <1>1, <1>3 DEF Fresh, Settled
<1>5. SeqInv
  BY <1>1, <1>4 DEF SeqInv, Fresh, Unique
<1>6. ListInv(K)
  BY <1>1 DEF ListInv, Fresh, Of
<1>7. TasksInv(K) /\ ShapeInv /\ ApartInv
  BY <1>2, IdleTask DEF TasksInv, ShapeInv, ApartInv
<1>8. GcInv(K)
  BY <1>2, IdleTask DEF GcInv, Fresh, Of, OlderThan
<1>9. LogInv /\ OwnerInv /\ DiskInv
  BY <1>1 DEF LogInv, OwnerInv, DiskInv, LogsApart
<1> QED BY <1>5, <1>6, <1>7, <1>8, <1>9 DEF RunInv

\* The same after a step.
LEMMA FreshFilesNext ==
    ASSUME NEW K \in Kinds PROVE Fresh(K)' => RunInv(K)'
BY FreshFiles, PTL

\* Recovery ends: of two files of a sequence the logs have left one, unless they
\* are unordered.
LEMMA LoadFiles ==
    ASSUME NEW K \in Kinds, TypeFiles, NoJob, TypeJob, QuietInv, FALSE \in K => NamesUnique, Load
    PROVE  RunInv(K)'
<1>1. /\ st = "recover" /\ log = {} /\ init' = {} /\ fileSeq' = MaxSeq /\ tssp' = tssp /\ log' = log
      /\ order' = {f \in tssp : f.ord} /\ unord' = {f \in tssp : ~f.ord}
      /\ UNCHANGED <<fl, job, gc>>
  BY DEF Load, memVars
<1>2. gc = {} /\ fl = IdleFlush /\ RecoverInv
  BY DEF QuietInv
<1>3. job = [w \in Jobs |-> IdleJob]
  BY <1>1 DEF NoJob, TypeJob
<1>4. fileSeq' \in Nat /\ \A f \in tssp' : f.seq \in Nat /\ f.seq <= fileSeq'
  BY <1>1, MaxSeqFacts, MaxSeqBound DEF TypeFiles
<1>5. Lists' = tssp'
  BY <1>1 DEF Lists
<1>6. ASSUME NEW f \in Of(K, tssp), NEW g \in Of(K, tssp), Same(f, g) PROVE f = g
  <2>0. f \in tssp /\ g \in tssp /\ f.ord = g.ord /\ f.ord \in K
    BY <1>6 DEF Of, Same
  <2>1. CASE f.ord = TRUE
    <3>1. OrdLogs = {} /\ f \in Disk /\ g \in Disk
      BY <1>1, <2>0, <2>1 DEF OrdLogs, Disk
    <3> QED BY <1>2, <1>6, <3>1 DEF RecoverInv
  <2>2. CASE f.ord = FALSE
    <3>1. Unique({e \in tssp : ~e.ord})
      BY <1>1, <2>0, <2>2 DEF NamesUnique
    <3> QED BY <1>6, <2>0, <2>2, <3>1 DEF Unique
  <2>3. f.ord \in BOOLEAN
    BY <2>0 DEF TypeFiles, File
  <2> QED BY <2>1, <2>2, <2>3
<1>7. Unique(Of(K, tssp'))
  BY <1>1, <1>6 DEF Unique
<1>8. Fresh(K)'
  BY <1>1, <1>2, <1>3, <1>4, <1>5, <1>7 DEF Fresh
<1> QED BY <1>8, FreshFilesNext

-----------------------------------------------------------------------------
(* The invariant holds.                                                    *)

\* A step of a task leaves the state of the store alone, and needs a task.
LEMMA TaskStepFacts ==
    ASSUME NEW w \in Jobs, \/ Acquire(w) \/ Stopped(w) \/ Build(w) \/ WriteCompactedFileInfo(w)
                           \/ (\E f \in job[w].new : RenameTmpFile(w, f))
                           \/ DeleteOld(w) \/ AbortReplace(w) \/ AddNew(w)
    PROVE  st' = st /\ stop' = stop /\ job[w].pc # "idle"
<1>1. st' = st /\ stop' = stop
  BY Zenon DEF Acquire, Stopped, Build, WriteCompactedFileInfo, RenameTmpFile, DeleteOld, AbortReplace, AddNew
<1>2. \/ job[w].pc = "plan" \/ job[w].pc = "run" \/ job[w].pc = "built" \/ job[w].pc = "logged" \/ job[w].pc = "delete"
  BY Zenon DEF Acquire, Stopped, Build, WriteCompactedFileInfo, RenameTmpFile, DeleteOld, AbortReplace, AddNew, ListLocked
<1> QED BY <1>1, <1>2

\* So do the steps of the merge that deletes what it has merged, and the plans,
\* which are made while the store is open.
LEMMA MergeStepFacts ==
    /\ DeleteUnordered \/ DeleteEntry => st' = st /\ stop' = stop /\ job["merge"].pc # "idle"
    /\ LevelPlan \/ MergePlan \/ MergeSelf => st' = st /\ stop' = stop /\ st = "open"
<1>1. ASSUME DeleteUnordered \/ DeleteEntry PROVE st' = st /\ job["merge"].pc # "idle"
  BY <1>1 DEF DeleteUnordered, DeleteEntry
<1>2. ASSUME DeleteUnordered \/ DeleteEntry PROVE stop' = stop
  BY <1>2, Zenon DEF DeleteUnordered, DeleteEntry
<1>3. ASSUME LevelPlan \/ MergePlan \/ MergeSelf PROVE st' = st /\ stop' = stop /\ st = "open"
  BY <1>3, Zenon DEF LevelPlan, MergePlan, MergeSelf
<1> QED BY <1>1, <1>2, <1>3

\* stopCompMerge is closed only in the first phase of a close.
LEMMA StopStep ==
    ASSUME StopInv, [Next]_vars PROVE StopInv'
<1>1. CASE CloseBegin \/ StopNil \/ CloseStore \/ Crash
  BY <1>1 DEF CloseBegin, StopNil, CloseStore, Crash, Reset, StopInv
<1>2. CASE Open \/ Load
  <2>1. st # "stopping" /\ stop' = stop
    BY <1>2, Zenon DEF Open, Load
  <2> QED BY <2>1, Zenon DEF StopInv
<1>3. CASE st' = st /\ stop' = stop
  BY <1>3, Zenon DEF StopInv
<1>4. CASE \/ LoadOrder \/ LoadUnord \/ TurnCold \/ FreeSequencer \/ (\E t \in Time : Write(t))
           \/ FlushChunks \/ MakeTSSPFiles \/ AddBothTSSPFiles \/ DropSnapshot \/ (\E o \in BOOLEAN : FinishFile(o))
           \/ (\E r \in Reader : GetBothFilesRef(r) \/ Unref(r)) \/ GC
           \/ (\E l \in log : ProcessLog(l)) \/ UNCHANGED vars
  <2>1. st' = st /\ stop' = stop
    BY <1>4, Zenon DEF LoadOrder, LoadUnord, TurnCold, FreeSequencer, Write, FlushChunks, MakeTSSPFiles,
                AddBothTSSPFiles, DropSnapshot, FinishFile, GetBothFilesRef, Unref, GC, ProcessLog, vars
  <2> QED BY <1>3, <2>1
<1>5. CASE \E w \in Jobs : \/ Acquire(w) \/ Stopped(w) \/ Build(w) \/ WriteCompactedFileInfo(w)
                           \/ (\E f \in job[w].new : RenameTmpFile(w, f))
                           \/ DeleteOld(w) \/ AbortReplace(w) \/ AddNew(w)
  BY <1>3, <1>5, TaskStepFacts
<1>6. CASE DeleteUnordered \/ DeleteEntry \/ LevelPlan \/ MergePlan \/ MergeSelf
  BY <1>3, <1>6, MergeStepFacts
<1> QED BY <1>1, <1>2, <1>4, <1>5, <1>6 DEF Next

\* The steps of a store that runs.
LEMMA RunningStep ==
    ASSUME NEW K \in Kinds, Inv, StopInv, RunInv(K), Running, [Next]_vars
    PROVE  (Running' => RunInv(K)') /\ (~Running' => QuietInv')
<1>0. TypeFiles /\ TypeFlush /\ TypeJob /\ KindInv /\ JobInv
  BY DEF Inv, TypeInv, JobInv
<1>1. CASE CloseStore \/ Crash
  <2>1. Reset /\ st' = "closed"
    BY <1>1 DEF CloseStore, Crash, Reset
  <2>2. RecoverInv
    BY StopsRecoverable
  <2>3. QuietInv'
    BY <2>1, <2>2, ResetFiles
  <2> QED BY <2>1, <2>3 DEF Running
<1>2. CASE Open \/ Load \/ \E l \in log : ProcessLog(l)
  BY <1>2 DEF Open, Load, ProcessLog, Running
<1>3. CASE \/ LoadOrder \/ LoadUnord \/ TurnCold \/ FreeSequencer \/ (\E t \in Time : Write(t)) \/ FlushChunks
           \/ MakeTSSPFiles \/ DropSnapshot \/ (\E r \in Reader : GetBothFilesRef(r) \/ Unref(r))
           \/ CloseBegin \/ StopNil
  <2>1. RunInv(K)'
    BY <1>0, <1>3, FlushFrame, FrameStep
  <2>2. Running'
    BY <1>3 DEF Running, LoadOrder, LoadUnord, TurnCold, FreeSequencer, Write, FlushChunks, MakeTSSPFiles,
                DropSnapshot, GetBothFilesRef, Unref, CloseBegin, StopNil
  <2> QED BY <2>1, <2>2
<1>4. CASE AddBothTSSPFiles \/ (\E o \in BOOLEAN : FinishFile(o)) \/ GC \/ LevelPlan \/ MergePlan \/ MergeSelf
           \/ DeleteUnordered \/ DeleteEntry
  <2>1. RunInv(K)'
    BY <1>0, <1>4, AddBothStep, FinishFileStep, GCStep, PlanFiles, MergeSelfFiles, DeleteUnorderedFiles, DeleteEntryFiles
  <2>2. st' = st
    BY <1>4, MergeStepFacts, Zenon DEF AddBothTSSPFiles, FinishFile, GC
  <2> QED BY <2>1, <2>2 DEF Running
<1>5. CASE \E w \in Jobs : \/ Acquire(w) \/ Stopped(w) \/ Build(w) \/ WriteCompactedFileInfo(w)
                           \/ (\E f \in job[w].new : RenameTmpFile(w, f))
                           \/ DeleteOld(w) \/ AbortReplace(w) \/ AddNew(w)
  <2>1. RunInv(K)'
    BY <1>0, <1>5, AcquireFiles, StoppedFiles, BuildFiles, InfoFiles, RenameFiles, DeleteOldFiles, AddNewFiles
  <2>2. st' = st
    BY <1>5, TaskStepFacts
  <2> QED BY <2>1, <2>2 DEF Running
<1>6. CASE UNCHANGED vars
  <2>1. UNCHANGED <<fileSeq, tssp, init, log, order, unord, gc, job, st, fl>>
    BY <1>6 DEF vars, memVars, diskVars, listVars
  <2>2. Pending' = Pending
    BY <2>1 DEF Pending
  <2>3. RunInv(K)'
    BY <2>1, <2>2, FrameStep
  <2> QED BY <2>1, <2>3 DEF Running
<1> QED BY <1>1, <1>2, <1>3, <1>4, <1>5, <1>6 DEF Next

\* The steps of a store that is closed or recovers.
LEMMA QuietStep ==
    ASSUME NEW K \in Kinds, Inv, QuietInv, ~Running, FALSE \in K => NamesUnique, [Next]_vars
    PROVE  (Running' => RunInv(K)') /\ (~Running' => QuietInv')
<1>0. TypeFiles /\ TypeJob /\ NoJob
  BY DEF Inv, TypeInv
<1>1. st \in {"closed", "recover"} /\ gc = {} /\ fl.pc = "idle" /\ (\A r \in Reader : refs[r] = {}) /\ RecoverInv
      /\ \A w \in Jobs : job[w].pc = "idle"
  BY <1>0, IdleFacts DEF Running, QuietInv, IdleFlush, NoJob
<1>2. CASE CloseStore \/ Crash
  <2>1. Reset /\ st' = "closed"
    BY <1>2 DEF CloseStore, Crash, Reset
  <2>2. QuietInv'
    BY <1>1, <2>1, ResetFiles
  <2> QED BY <2>1, <2>2 DEF Running
<1>3. CASE Load
  <2>1. RunInv(K)' /\ st' = "open"
    BY <1>0, <1>3, LoadFiles DEF Load
  <2> QED BY <2>1 DEF Running
<1>4. CASE \E l \in log : ProcessLog(l)
  <2>1. QuietInv' /\ st' = "recover"
    BY <1>0, <1>4, ProcessLogFiles DEF ProcessLog
  <2> QED BY <2>1 DEF Running
<1>5. CASE Open \/ LoadOrder \/ LoadUnord \/ FreeSequencer \/ UNCHANGED vars
  <2>1. UNCHANGED <<tssp, init, log, order, unord, gc, fl, refs>> /\ (st' = st \/ st' = "recover")
    BY <1>5 DEF Open, LoadOrder, LoadUnord, FreeSequencer, vars, memVars, diskVars, listVars
  <2>2. OrdLogs' = OrdLogs /\ LogNew' = LogNew /\ Disk' = Disk
    BY <2>1 DEF OrdLogs, LogNew, Disk
  <2>3. RecoverInv'
    BY <1>1, <2>1, <2>2 DEF RecoverInv
  <2>4. QuietInv'
    BY <2>1, <2>3 DEF QuietInv
  <2> QED BY <1>1, <2>1, <2>4 DEF Running
<1>6. CASE \/ TurnCold \/ (\E t \in Time : Write(t)) \/ FlushChunks \/ MakeTSSPFiles \/ DropSnapshot \/ AddBothTSSPFiles
           \/ (\E o \in BOOLEAN : FinishFile(o)) \/ (\E r \in Reader : GetBothFilesRef(r) \/ Unref(r))
           \/ CloseBegin \/ StopNil \/ GC \/ LevelPlan \/ MergePlan \/ MergeSelf
  <2>1. ~GC
    BY <1>1 DEF GC
  <2>2. ~TurnCold /\ (\A t \in Time : ~Write(t)) /\ ~FlushChunks /\ ~CloseBegin /\ ~StopNil
    BY <1>1 DEF TurnCold, Write, FlushChunks, CloseBegin, StopNil
  <2>3. ~MakeTSSPFiles /\ ~DropSnapshot /\ ~AddBothTSSPFiles /\ \A o \in BOOLEAN : ~FinishFile(o)
    BY <1>1 DEF MakeTSSPFiles, DropSnapshot, AddBothTSSPFiles, FinishFile
  <2>4. (\A r \in Reader : ~GetBothFilesRef(r) /\ ~Unref(r)) /\ ~LevelPlan /\ ~MergePlan /\ ~MergeSelf
    BY <1>1, MergeStepFacts DEF GetBothFilesRef, Unref
  <2> QED BY <1>6, <2>1, <2>2, <2>3, <2>4
<1>7. CASE \E w \in Jobs : \/ Acquire(w) \/ Stopped(w) \/ Build(w) \/ WriteCompactedFileInfo(w)
                           \/ (\E f \in job[w].new : RenameTmpFile(w, f))
                           \/ DeleteOld(w) \/ AbortReplace(w) \/ AddNew(w)
  BY <1>1, <1>7, TaskStepFacts
<1>8. CASE DeleteUnordered \/ DeleteEntry
  BY <1>1, <1>8, MergeStepFacts DEF Jobs
<1> QED BY <1>2, <1>3, <1>4, <1>5, <1>6, <1>7, <1>8 DEF Next

\* Initially there is no file.
LEMMA InitFiles ==
    ASSUME NEW K \in Kinds PROVE Init => FilesInv(K)
<1> SUFFICES ASSUME Init PROVE FilesInv(K)
  OBVIOUS
<1>1. Fresh(K)
  BY DEF Init, Fresh, Lists, Of, Unique
<1>2. RunInv(K)
  BY <1>1, FreshFiles
<1> QED BY <1>2 DEF FilesInv, StopInv, Running, Init

\* Every step preserves the invariant; for the unordered files, if no recovery
\* lists two of one sequence.
LEMMA FilesStep ==
    ASSUME NEW K \in Kinds
    PROVE  Inv /\ FilesInv(K) /\ (FALSE \in K => NamesUnique) /\ [Next]_vars => FilesInv(K)'
<1> SUFFICES ASSUME Inv, FilesInv(K), FALSE \in K => NamesUnique, [Next]_vars PROVE FilesInv(K)'
  OBVIOUS
<1>1. StopInv'
  BY StopStep DEF FilesInv
<1>2. (Running' => RunInv(K)') /\ (~Running' => QuietInv')
  BY RunningStep, QuietStep DEF FilesInv
<1> QED BY <1>1, <1>2 DEF FilesInv

-----------------------------------------------------------------------------
(* Readers.                                                                *)

\* A file of kind K a reader holds is on disk, under one of its two names.
RefInv(K) ==
    /\ refs \in [Reader -> SUBSET File]
    /\ \A r \in Reader : Of(K, refs[r]) \subseteq tssp \cup init

\* What is on disk stays, or no reader holds it.
LEMMA RefKept ==
    ASSUME NEW K, RefInv(K), refs' = refs, \A f \in tssp \cup init : f \in tssp' \cup init' \/ ~InUse(f)
    PROVE  RefInv(K)'
<1>1. \A r \in Reader : Of(K, refs[r]) \subseteq tssp' \cup init'
  BY DEF RefInv, Of, InUse
<1> QED BY <1>1 DEF RefInv

\* A file that is deleted while in use gets the temporary name.
LEMMA RefRemoved ==
    ASSUME NEW K, RefInv(K), refs' = refs, NEW f, RemoveFile(f)
    PROVE  RefInv(K)'
<1>1. \A g \in tssp \cup init : g \in tssp' \cup init' \/ ~InUse(g)
  BY DEF RemoveFile
<1> QED BY <1>1, RefKept

\* Every step keeps the files of the readers.
LEMMA RefStep ==
    ASSUME NEW K \in Kinds, Inv, FilesInv(K), RefInv(K), [Next]_vars
    PROVE  RefInv(K)'
<1>0. TypeFiles /\ refs \in [Reader -> SUBSET File]
  BY DEF Inv, TypeInv, RefInv
<1>1. CASE CloseStore \/ Crash
  <2>1. refs' = [r \in Reader |-> {}]
    BY <1>1 DEF CloseStore, Crash, Reset
  <2> QED BY <2>1 DEF RefInv, Of
<1>2. CASE Load \/ \E l \in log : ProcessLog(l)
  <2>1. ~Running /\ refs' = refs
    BY <1>2 DEF Load, ProcessLog, Running
  <2>2. refs' = [r \in Reader |-> {}]
    BY <2>1 DEF FilesInv, QuietInv
  <2> QED BY <2>2 DEF RefInv, Of
<1>3. CASE \E r \in Reader : GetBothFilesRef(r)
  <2>1. PICK r \in Reader : st = "open" /\ refs' = [refs EXCEPT ![r] = order \cup unord] /\ UNCHANGED <<tssp, init>>
    BY <1>3 DEF GetBothFilesRef, diskVars
  <2>2. Of(K, Lists) \subseteq tssp /\ Lists = order \cup unord /\ order \cup unord \subseteq File
    BY <1>0, <2>1 DEF FilesInv, Running, RunInv, ListInv, Lists, TypeFiles, Ordered, Unordered
  <2>3. refs' \in [Reader -> SUBSET File]
    BY <1>0, <2>1, <2>2
  <2>4. ASSUME NEW q \in Reader PROVE Of(K, refs'[q]) \subseteq tssp' \cup init'
    <3>1. CASE q = r
      <4>1. refs'[q] = Lists
        BY <1>0, <2>1, <2>2, <3>1
      <4> QED BY <2>1, <2>2, <4>1
    <3>2. CASE q # r
      <4>1. refs'[q] = refs[q]
        BY <1>0, <2>1, <3>2
      <4> QED BY <2>1, <4>1 DEF RefInv
    <3> QED BY <3>1, <3>2
  <2> QED BY <2>3, <2>4 DEF RefInv
<1>4. CASE \E r \in Reader : Unref(r)
  <2>1. PICK r \in Reader : refs' = [refs EXCEPT ![r] = {}] /\ UNCHANGED <<tssp, init>>
    BY <1>4 DEF Unref, diskVars
  <2>2. refs' \in [Reader -> SUBSET File] /\ \A q \in Reader : refs'[q] \subseteq refs[q]
    BY <1>0, <2>1
  <2> QED BY <2>1, <2>2 DEF RefInv, Of
<1>5. CASE GC
  <2>1. tssp' = tssp /\ refs' = refs /\ init' = init \ {f \in gc : ~InUse(f)}
    BY <1>5 DEF GC
  <2> QED BY <2>1, RefKept
<1>6. CASE \E w \in Jobs : DeleteOld(w)
  <2>1. refs' = refs /\ \E f : RemoveFile(f)
    BY <1>6 DEF DeleteOld
  <2> QED BY <2>1, RefRemoved
<1>7. CASE DeleteUnordered
  <2>1. refs' = refs /\ RemoveFile(NextRest(job["merge"].rest))
    BY <1>7 DEF DeleteUnordered
  <2> QED BY <2>1, RefRemoved
<1>8. CASE refs' = refs /\ tssp \cup init \subseteq tssp' \cup init'
  BY <1>8, RefKept
<1>9. CASE (\E o \in BOOLEAN : FinishFile(o)) \/ \E w \in Jobs : Build(w) \/ \E f \in job[w].new : RenameTmpFile(w, f)
  <2>1. refs' = refs
    BY <1>9, Zenon DEF FinishFile, Build, RenameTmpFile
  <2>2. CASE \E o \in BOOLEAN : FinishFile(o)
    BY <1>8, <2>1, <2>2 DEF FinishFile
  <2>3. CASE \E w \in Jobs : Build(w)
    <3>1. tssp' = tssp /\ \E S : init' = init \cup S
      BY <2>3, Zenon DEF Build
    <3> QED BY <1>8, <2>1, <3>1
  <2>4. CASE \E w \in Jobs : \E f \in job[w].new : RenameTmpFile(w, f)
    <3>1. \E f : init' = init \ {f} /\ tssp' = tssp \cup {f}
      BY <2>4 DEF RenameTmpFile
    <3> QED BY <1>8, <2>1, <3>1
  <2> QED BY <1>9, <2>2, <2>3, <2>4
<1>10. CASE \/ LoadOrder \/ LoadUnord \/ TurnCold \/ FreeSequencer \/ (\E t \in Time : Write(t))
            \/ FlushChunks \/ MakeTSSPFiles \/ AddBothTSSPFiles \/ DropSnapshot
            \/ LevelPlan \/ MergePlan \/ MergeSelf \/ DeleteEntry \/ CloseBegin \/ StopNil \/ Open \/ UNCHANGED vars
            \/ \E w \in Jobs : Acquire(w) \/ Stopped(w) \/ WriteCompactedFileInfo(w) \/ AbortReplace(w) \/ AddNew(w)
  <2>1. refs' = refs /\ tssp' = tssp /\ init' = init
    BY <1>10, Zenon DEF LoadOrder, LoadUnord, TurnCold, FreeSequencer, Write, FlushChunks, MakeTSSPFiles, AddBothTSSPFiles,
                DropSnapshot, LevelPlan, MergePlan, MergeSelf, DeleteEntry, CloseBegin, StopNil, Open,
                Acquire, Stopped, WriteCompactedFileInfo, AbortReplace, AddNew, vars, diskVars
  <2> QED BY <1>8, <2>1
<1> QED BY <1>1, <1>2, <1>3, <1>4, <1>5, <1>6, <1>7, <1>9, <1>10 DEF Next

\* Initially nobody reads.
LEMMA RefInit ==
    ASSUME NEW K PROVE Init => RefInv(K)
BY DEF Init, RefInv, Of

-----------------------------------------------------------------------------
(* The ordered files.                                                      *)

\* One listed file per sequence, on disk, and what a query holds is on disk.
OrderedKept ==
    /\ order \subseteq tssp /\ Unique(order)
    /\ \A r \in Reader : {f \in refs[r] : f.ord} \subseteq tssp \cup init

\* The list of the ordered files names one file of a sequence and only files that
\* are on disk, and an ordered file stays on disk while a query holds it: whatever
\* compaction, merge, collector, crash and recovery do to the names, in any order.
THEOREM OrderedFilesKept == Spec => []OrderedKept
<1> DEFINE K == {TRUE}
           I == Inv /\ FilesInv(K) /\ RefInv(K)
<1>0. K \in Kinds /\ FALSE \notin K
  BY DEF Kinds
<1>1. Init => I
  BY <1>0, InitInv, InitFiles, RefInit
<1>2. I /\ [Next]_vars => I'
  BY <1>0, Inductive, FilesStep, RefStep
<1>3. I => OrderedKept
  <2> SUFFICES ASSUME I PROVE OrderedKept
    OBVIOUS
  <2>1. order \subseteq Of(K, Lists)
    BY DEF Inv, TypeInv, TypeFiles, Ordered, Of, Lists
  <2>2. Running => order \subseteq tssp /\ Unique(order)
    BY <2>1 DEF FilesInv, RunInv, ListInv, Unique
  <2>3. ~Running => order \subseteq tssp /\ Unique(order)
    BY DEF FilesInv, QuietInv, Unique
  <2>4. ASSUME NEW r \in Reader PROVE {f \in refs[r] : f.ord} \subseteq tssp \cup init
    <3>1. refs[r] \subseteq File /\ Of(K, refs[r]) \subseteq tssp \cup init
      BY DEF RefInv
    <3> QED BY <3>1 DEF Of, File
  <2> QED BY <2>2, <2>3, <2>4 DEF OrderedKept
<1> HIDE DEF I, K
<1> QED BY <1>1, <1>2, <1>3, PTL DEF Spec

-----------------------------------------------------------------------------
(* All files, if no recovery meets two unordered files of a sequence.      *)

AllInv == Inv /\ FilesInv(BOOLEAN) /\ RefInv(BOOLEAN)

\* All files are among the kinds.
LEMMA AllKinds ==
    BOOLEAN \in Kinds /\ FALSE \in BOOLEAN /\ \A S : Of(BOOLEAN, S) = {f \in S : f.ord \in BOOLEAN}
BY DEF Kinds, Of

\* Initially it holds, ...
LEMMA AllInit ==
    Init => AllInv
BY AllKinds, InitInv, InitFiles, RefInit DEF AllInv

\* ... and it is inductive as far as the names on disk are unique.
LEMMA AllStep ==
    AllInv /\ NamesUnique /\ [Next]_vars => AllInv'
BY AllKinds, Inductive, FilesStep, RefStep DEF AllInv

\* The file a query holds exists.
LEMMA AllReaders ==
    AllInv => ReaderFilesExist
<1> SUFFICES ASSUME AllInv, NEW r \in Reader PROVE refs[r] \subseteq tssp \cup init
  BY DEF ReaderFilesExist
<1>1. refs[r] \subseteq File /\ Of(BOOLEAN, refs[r]) \subseteq tssp \cup init
  BY DEF AllInv, RefInv
<1> QED BY <1>1, AllKinds DEF File

\* A query keeps every file it holds a reference to, as long as no recovery finds
\* an unordered file beside the one that replaces it.
THEOREM ReaderFilesExistAlways == Spec /\ []NamesUnique => []ReaderFilesExist
BY AllInit, AllStep, AllReaders, PTL DEF Spec

-----------------------------------------------------------------------------
(* Types.                                                                  *)

RestType ==
    /\ sequencer \in [free : BOOLEAN, load : {"no", "order", "unord"}, last : Time \cup {0}]
    /\ flushed \in BOOLEAN
    /\ st \in {"open", "stopping", "draining", "closed", "recover"}
    /\ gc \subseteq File
    /\ aged \subseteq Time

\* The latest of some points in time.
LEMMA LastTime ==
    ASSUME NEW s \in [free : BOOLEAN, load : {"no", "order", "unord"}, last : Time \cup {0}], NEW S \in SUBSET Time
    PROVE  /\ BatchUpdateCheckTime(s, S) \in [free : BOOLEAN, load : {"no", "order", "unord"}, last : Time \cup {0}]
           /\ Loaded(s) \in [free : BOOLEAN, load : {"no", "order", "unord"}, last : Time \cup {0}]
           /\ LoadSequencer(s) \in [free : BOOLEAN, load : {"no", "order", "unord"}, last : Time \cup {0}]
<1>1. Time \subseteq Nat /\ IsFiniteSet(Time)
  BY TableAssumption
<1>2. PICK T : T = {s.last} \cup S
  OBVIOUS
<1>3. IsFiniteSet(S)
  BY <1>1, FS_Subset
<1>4. IsFiniteSet(T) /\ T # {}
  BY <1>2, <1>3, FS_AddElement
<1>5. T \in SUBSET Int /\ T \subseteq Time \cup {0}
  <2>1. s.last \in Time \cup {0}
    OBVIOUS
  <2>2. \A t \in Time \cup {0} : t \in Int
    BY <1>1
  <2> QED BY <1>2, <2>1, <2>2
<1>6. Max(T) \in Time \cup {0}
  BY <1>4, <1>5, MaxFacts
<1> QED BY <1>2, <1>6 DEF BatchUpdateCheckTime, Loaded, LoadSequencer

\* The times of files are times.
LEMMA TimesFacts ==
    /\ \A rows : Times(rows) \in SUBSET Time
    /\ \A S : TimesOf(S) \in SUBSET Time
BY DEF Times, TimesOf

\* Every step keeps the rest of the variables well typed.
LEMMA RestStep ==
    ASSUME Inv, RestType, [Next]_vars PROVE RestType'
<1> DEFINE Q == [free : BOOLEAN, load : {"no", "order", "unord"}, last : Time \cup {0}]
<1>0. sequencer \in Q
  BY DEF RestType
<1>1. [free |-> FALSE, load |-> "no", last |-> 0] \in Q /\ [free |-> TRUE, load |-> "no", last |-> 0] \in Q
      /\ [free |-> tssp # {}, load |-> "no", last |-> 0] \in Q
  OBVIOUS
<1>2. \A s \in Q, S \in SUBSET Time : BatchUpdateCheckTime(s, S) \in Q /\ Loaded(s) \in Q /\ LoadSequencer(s) \in Q
  BY LastTime
<1>3. sequencer' \in Q
  <2> HIDE DEF Q
  <2>1. CASE LoadOrder
    <3>1. PICK s : s = BatchUpdateCheckTime(sequencer, TimesOf(order))
      OBVIOUS
    <3>2. s \in Q
      BY <1>0, <1>2, <3>1, TimesFacts
    <3>3. [s EXCEPT !.load = "unord"] \in Q
      BY <3>2 DEF Q
    <3>4. sequencer' = Loaded(sequencer) \/ sequencer' = [s EXCEPT !.load = "unord"]
      BY <2>1, <3>1 DEF LoadOrder
    <3>5. Loaded(sequencer) \in Q
      BY <1>0, <1>2
    <3> QED BY <3>3, <3>4, <3>5
  <2>2. CASE LoadUnord
    BY <1>0, <1>2, <2>2, TimesFacts DEF LoadUnord
  <2>3. CASE FreeSequencer
    BY <1>0, <1>1, <2>3 DEF FreeSequencer
  <2>4. CASE \E t \in Time : Write(t)
    <3>1. sequencer' = LoadSequencer(sequencer)
      BY <2>4 DEF Write
    <3> QED BY <1>0, <1>2, <3>1
  <2>5. CASE \E o \in BOOLEAN : FinishFile(o)
    <3>1. \E rows : sequencer' = BatchUpdateCheckTime(sequencer, Times(rows))
      BY <2>5 DEF FinishFile
    <3> QED BY <1>0, <1>2, <3>1, TimesFacts
  <2>6. CASE CloseStore \/ Crash
    BY <1>1, <2>6 DEF CloseStore, Crash, Reset
  <2>7. CASE Load
    BY <1>1, <2>7 DEF Load
  <2>8. CASE \/ TurnCold \/ FlushChunks \/ MakeTSSPFiles \/ AddBothTSSPFiles \/ DropSnapshot
             \/ (\E r \in Reader : GetBothFilesRef(r) \/ Unref(r)) \/ GC
             \/ LevelPlan \/ MergePlan \/ MergeSelf \/ DeleteUnordered \/ DeleteEntry
             \/ CloseBegin \/ StopNil \/ Open \/ (\E l \in log : ProcessLog(l)) \/ UNCHANGED vars
    <3>1. sequencer' = sequencer
      BY <2>8, Zenon DEF TurnCold, FlushChunks, MakeTSSPFiles, AddBothTSSPFiles, DropSnapshot, GetBothFilesRef, Unref, GC,
                  LevelPlan, MergePlan, MergeSelf, DeleteUnordered, DeleteEntry, CloseBegin, StopNil, Open, ProcessLog, vars
    <3> QED BY <1>0, <3>1
  <2>9. CASE \E w \in Jobs : \/ Acquire(w) \/ Stopped(w) \/ Build(w) \/ WriteCompactedFileInfo(w)
                             \/ (\E f \in job[w].new : RenameTmpFile(w, f))
                             \/ DeleteOld(w) \/ AbortReplace(w) \/ AddNew(w)
    <3>1. sequencer' = sequencer
      BY <2>9, Zenon DEF Acquire, Stopped, Build, WriteCompactedFileInfo, RenameTmpFile, DeleteOld, AbortReplace, AddNew
    <3> QED BY <1>0, <3>1
  <2> QED BY <2>1, <2>2, <2>3, <2>4, <2>5, <2>6, <2>7, <2>8, <2>9 DEF Next
<1>4. st' = st \/ st' = "open" \/ st' = "stopping" \/ st' = "draining" \/ st' = "closed" \/ st' = "recover"
  <2>1. CASE \/ LoadOrder \/ LoadUnord \/ TurnCold \/ FreeSequencer \/ (\E t \in Time : Write(t))
             \/ FlushChunks \/ MakeTSSPFiles \/ AddBothTSSPFiles \/ DropSnapshot \/ (\E o \in BOOLEAN : FinishFile(o))
             \/ (\E r \in Reader : GetBothFilesRef(r) \/ Unref(r)) \/ GC
             \/ (\E l \in log : ProcessLog(l)) \/ CloseBegin \/ StopNil \/ CloseStore \/ Crash \/ Open \/ Load
             \/ UNCHANGED vars
    BY <2>1, Zenon DEF LoadOrder, LoadUnord, TurnCold, FreeSequencer, Write, FlushChunks, MakeTSSPFiles, AddBothTSSPFiles,
                DropSnapshot, FinishFile, GetBothFilesRef, Unref, GC, ProcessLog, CloseBegin, StopNil, CloseStore, Crash,
                Reset, Open, Load, vars
  <2>2. CASE \E w \in Jobs : \/ Acquire(w) \/ Stopped(w) \/ Build(w) \/ WriteCompactedFileInfo(w)
                             \/ (\E f \in job[w].new : RenameTmpFile(w, f))
                             \/ DeleteOld(w) \/ AbortReplace(w) \/ AddNew(w)
    BY <2>2, TaskStepFacts
  <2>3. CASE LevelPlan \/ MergePlan \/ MergeSelf \/ DeleteUnordered \/ DeleteEntry
    BY <2>3, MergeStepFacts
  <2> QED BY <2>1, <2>2, <2>3 DEF Next
<1>5. flushed' \in BOOLEAN
  <2>1. CASE \/ LoadOrder \/ LoadUnord \/ TurnCold \/ FreeSequencer \/ (\E t \in Time : Write(t))
             \/ FlushChunks \/ MakeTSSPFiles \/ AddBothTSSPFiles \/ DropSnapshot \/ (\E o \in BOOLEAN : FinishFile(o))
             \/ (\E r \in Reader : GetBothFilesRef(r) \/ Unref(r)) \/ GC
             \/ (\E l \in log : ProcessLog(l)) \/ CloseBegin \/ StopNil \/ CloseStore \/ Crash \/ Open \/ Load
             \/ UNCHANGED vars
    <3>1. flushed' = flushed \/ flushed' = TRUE \/ flushed' = FALSE
      BY <2>1, Zenon DEF LoadOrder, LoadUnord, TurnCold, FreeSequencer, Write, FlushChunks, MakeTSSPFiles, AddBothTSSPFiles,
                DropSnapshot, FinishFile, GetBothFilesRef, Unref, GC, ProcessLog, CloseBegin, StopNil, CloseStore, Crash,
                Reset, Open, Load, vars, memVars
    <3> QED BY <3>1, Zenon DEF RestType
  <2>2. CASE \/ (\E w \in Jobs : \/ Acquire(w) \/ Stopped(w) \/ Build(w) \/ WriteCompactedFileInfo(w)
                                 \/ (\E f \in job[w].new : RenameTmpFile(w, f))
                                 \/ DeleteOld(w) \/ AbortReplace(w) \/ AddNew(w))
             \/ LevelPlan \/ MergePlan \/ MergeSelf \/ DeleteUnordered \/ DeleteEntry
    <3>1. flushed' = flushed
      BY <2>2, Zenon DEF Acquire, Stopped, Build, WriteCompactedFileInfo, RenameTmpFile, DeleteOld, AbortReplace, AddNew,
                LevelPlan, MergePlan, MergeSelf, DeleteUnordered, DeleteEntry, memVars
    <3> QED BY <3>1, Zenon DEF RestType
  <2> QED BY <2>1, <2>2 DEF Next
<1>6. st' \in {"open", "stopping", "draining", "closed", "recover"}
  BY <1>4 DEF RestType
<1>7. gc' \subseteq File
  <2>0. TypeFiles /\ TypeJob /\ KindInv /\ gc \subseteq File
    BY DEF Inv, TypeInv, RestType
  <2>1. ASSUME NEW f \in File, RemoveFile(f) PROVE gc' \subseteq File
    BY <2>0, <2>1 DEF RemoveFile
  <2>2. ASSUME NEW w \in Jobs, DeleteOld(w) PROVE gc' \subseteq File
    <3>1. job[w] \in Job /\ job[w].old # {}
      BY <2>0, <2>2 DEF DeleteOld, TypeJob
    <3>2. job[w].old \in SUBSET File
      BY <3>1 DEF Job
    <3>3. PICK f \in Victims(job[w]) : RemoveFile(f)
      BY <2>2 DEF DeleteOld
    <3>4. f \in File
      BY <3>1, <3>2, <3>3, FirstFacts DEF Victims
    <3> QED BY <2>1, <3>3, <3>4
  <2>3. ASSUME DeleteUnordered PROVE gc' \subseteq File
    <3>1. PICK f : f = First(job["merge"].rest)
      OBVIOUS
    <3>2. job["merge"] \in Job /\ Kind("merge", job["merge"]) /\ job["merge"].pc \in {"rest", "drop"}
      BY <2>0, <2>3 DEF DeleteUnordered, TypeJob, KindInv, Jobs
    <3>3. job["merge"].rest # {} /\ job["merge"].rest \in SUBSET File
      BY <3>2 DEF Kind, Job, Unordered
    <3>4. f \in File
      BY <3>1, <3>3, FirstFacts
    <3>5. RemoveFile(f)
      BY <2>3, <3>1 DEF DeleteUnordered, NextRest
    <3> QED BY <2>1, <3>4, <3>5
  <2>4. CASE \/ LoadOrder \/ LoadUnord \/ TurnCold \/ FreeSequencer \/ (\E t \in Time : Write(t))
             \/ FlushChunks \/ MakeTSSPFiles \/ AddBothTSSPFiles \/ DropSnapshot \/ (\E o \in BOOLEAN : FinishFile(o))
             \/ (\E r \in Reader : GetBothFilesRef(r) \/ Unref(r)) \/ CloseBegin \/ StopNil \/ Open \/ Load
             \/ (\E l \in log : ProcessLog(l)) \/ UNCHANGED vars
    <3>1. gc' = gc
      BY <2>4, Zenon DEF LoadOrder, LoadUnord, TurnCold, FreeSequencer, Write, FlushChunks, MakeTSSPFiles, AddBothTSSPFiles,
                DropSnapshot, FinishFile, GetBothFilesRef, Unref, ProcessLog, CloseBegin, StopNil, Open, Load, vars
    <3> QED BY <2>0, <3>1
  <2>5. CASE \/ (\E w \in Jobs : \/ Acquire(w) \/ Stopped(w) \/ Build(w) \/ WriteCompactedFileInfo(w)
                                 \/ (\E f \in job[w].new : RenameTmpFile(w, f)) \/ AbortReplace(w) \/ AddNew(w))
             \/ LevelPlan \/ MergePlan \/ MergeSelf \/ DeleteEntry
    <3>1. gc' = gc
      BY <2>5, Zenon DEF Acquire, Stopped, Build, WriteCompactedFileInfo, RenameTmpFile, AbortReplace, AddNew,
                LevelPlan, MergePlan, MergeSelf, DeleteEntry
    <3> QED BY <2>0, <3>1
  <2>6. CASE GC \/ CloseStore \/ Crash
    BY <2>0, <2>6 DEF GC, CloseStore, Crash, Reset
  <2> QED BY <2>2, <2>3, <2>4, <2>5, <2>6 DEF Next
<1>8. aged' \subseteq Time
  <2>0. aged \subseteq Time
    BY DEF RestType
  <2>1. ASSUME NEW w \in Jobs, Build(w) PROVE aged' \subseteq Time
    <3>1. \E S, rows : aged' = aged \cup Aged(S, rows)
      BY <2>1, Zenon DEF Build
    <3>2. \A S, rows : Aged(S, rows) \subseteq Time
      BY DEF Aged
    <3> QED BY <2>0, <3>1, <3>2
  <2>2. ASSUME NEW t \in Time, Write(t) PROVE aged' \subseteq Time
    BY <2>0, <2>2 DEF Write
  <2>3. CASE \/ LoadOrder \/ LoadUnord \/ TurnCold \/ FreeSequencer
             \/ FlushChunks \/ MakeTSSPFiles \/ AddBothTSSPFiles \/ DropSnapshot \/ (\E o \in BOOLEAN : FinishFile(o))
             \/ (\E r \in Reader : GetBothFilesRef(r) \/ Unref(r)) \/ CloseBegin \/ StopNil \/ Open \/ Load
             \/ (\E l \in log : ProcessLog(l)) \/ GC \/ CloseStore \/ Crash \/ UNCHANGED vars
    <3>1. aged' = aged
      BY <2>3, Zenon DEF LoadOrder, LoadUnord, TurnCold, FreeSequencer, FlushChunks, MakeTSSPFiles, AddBothTSSPFiles,
                DropSnapshot, FinishFile, GetBothFilesRef, Unref, ProcessLog, CloseBegin, StopNil, Open, Load, GC,
                CloseStore, Crash, Reset, vars, auxVars
    <3> QED BY <2>0, <3>1
  <2>4. CASE \/ (\E w \in Jobs : \/ Acquire(w) \/ Stopped(w) \/ WriteCompactedFileInfo(w)
                                 \/ (\E f \in job[w].new : RenameTmpFile(w, f))
                                 \/ DeleteOld(w) \/ AbortReplace(w) \/ AddNew(w))
             \/ LevelPlan \/ MergePlan \/ MergeSelf \/ DeleteUnordered \/ DeleteEntry
    <3>1. aged' = aged
      BY <2>4, Zenon DEF Acquire, Stopped, WriteCompactedFileInfo, RenameTmpFile, DeleteOld, AbortReplace, AddNew,
                LevelPlan, MergePlan, MergeSelf, DeleteUnordered, DeleteEntry, auxVars
    <3> QED BY <2>0, <3>1
  <2> QED BY <2>1, <2>2, <2>3, <2>4 DEF Next
<1> QED BY <1>3, <1>5, <1>6, <1>7, <1>8, Zenon DEF RestType

\* What the types say is part of the invariant.
LEMMA AllTypes ==
    AllInv /\ RestType => TypeOK
<1> SUFFICES ASSUME AllInv, RestType PROVE TypeOK
  OBVIOUS
<1>1. Inv /\ FilesInv(BOOLEAN)
  BY DEF AllInv
<1>2. mem \in Rows /\ snap \in Rows /\ latest \in Rows /\ fl.pc \in {"idle", "build", "lists", "added"}
      /\ tssp \subseteq File /\ init \subseteq File /\ order \subseteq File /\ unord \subseteq File
  BY <1>1 DEF Inv, TypeInv, TypeFlush, TypeFiles, FlushJob, Ordered, Unordered
<1>3. inCompact = UNION {job[w].in : w \in {v \in Jobs : job[v].pc \notin {"idle", "plan"}}}
  BY <1>1 DEF Inv, AcquiredInv, Active
<1>4. gc \subseteq init /\ order \cup unord \subseteq tssp
  <2>1. CASE Running
    <3>1. Of(BOOLEAN, gc) \subseteq init /\ Of(BOOLEAN, Lists) \subseteq tssp /\ SeqInv
      BY <1>1, <2>1 DEF FilesInv, RunInv, GcInv, ListInv
    <3>2. order \cup unord \subseteq tssp
      BY <1>2, <3>1, AllKinds DEF Lists, File
    <3>3. gc \subseteq init
      BY <3>1, AllKinds DEF RestType, File
    <3> QED BY <3>2, <3>3
  <2>2. CASE ~Running
    BY <1>1, <2>2 DEF FilesInv, QuietInv
  <2> QED BY <2>1, <2>2
<1>5. st = "open" => \A f \in tssp : f.seq <= fileSeq
  <2> SUFFICES ASSUME st = "open", NEW f \in tssp PROVE f.seq <= fileSeq
    OBVIOUS
  <2>1. SeqInv
    BY <1>1 DEF FilesInv, RunInv, Running
  <2> QED BY <2>1 DEF SeqInv, Settled
<1>6. /\ sequencer \in [free : BOOLEAN, load : {"no", "order", "unord"}, last : Time \cup {0}]
      /\ flushed \in BOOLEAN /\ st \in {"open", "stopping", "draining", "closed", "recover"}
      /\ aged \subseteq Time
  BY DEF RestType
<1> QED BY <1>2, <1>3, <1>4, <1>5, <1>6 DEF TypeOK

\* A listed file is on disk and the sequence of the next file is beyond every one in
\* use, as long as no recovery finds an unordered file beside the one that replaces
\* it: only then does a name denote one file.
THEOREM TypeOKAlways == Spec /\ []NamesUnique => []TypeOK
<1>1. Init => AllInv /\ RestType
  <2>1. Init => RestType
    <3> SUFFICES ASSUME Init PROVE RestType
      OBVIOUS
    <3>1. sequencer = [free |-> FALSE, load |-> "no", last |-> 0] /\ st = "open" /\ gc = {} /\ aged = {}
      BY DEF Init
    <3>2. flushed = FALSE
      BY Zenon DEF Init
    <3>3. sequencer \in [free : BOOLEAN, load : {"no", "order", "unord"}, last : Time \cup {0}]
      BY <3>1
    <3> QED BY <3>1, <3>2, <3>3 DEF RestType
  <2> QED BY <2>1, AllInit
<1>2. AllInv /\ RestType /\ NamesUnique /\ [Next]_vars => (AllInv /\ RestType)'
  <2>1. AllInv /\ RestType /\ [Next]_vars => RestType'
    BY RestStep DEF AllInv
  <2> QED BY <2>1, AllStep
<1> QED BY <1>1, <1>2, AllTypes, PTL DEF Spec

-----------------------------------------------------------------------------
(* Without self merges.                                                    *)

\* Every task replaces ordered files, and every unordered file on disk is one a
\* flush wrote.
SingleInv == Inv /\ FilesInv({TRUE}) /\ Unique({f \in tssp : ~f.ord}) /\ \A w \in Jobs : job[w].ord

\* A step that brings no unordered file.
LEMMA NoUnordered ==
    ASSUME Unique({f \in tssp : ~f.ord}), \A f \in tssp' : f \in tssp \/ f.ord
    PROVE  Unique({f \in tssp : ~f.ord})'
BY DEF Unique

\* Without self merges nothing but the flush writes an unordered file.
LEMMA SingleStep ==
    ASSUME Modes = {} PROVE SingleInv /\ [Next]_vars => SingleInv'
<1> SUFFICES ASSUME SingleInv, [Next]_vars PROVE SingleInv'
  OBVIOUS
<1>0. Inv /\ FilesInv({TRUE}) /\ TypeFiles /\ TypeJob /\ KindInv /\ (\A w \in Jobs : job[w].ord)
      /\ Unique({f \in tssp : ~f.ord}) /\ {TRUE} \in Kinds
  BY DEF SingleInv, Inv, TypeInv, Kinds
<1>1. Inv' /\ FilesInv({TRUE})'
  BY <1>0, Inductive, FilesStep
<1>2. Unique({f \in tssp : ~f.ord})'
  <2>1. ASSUME NEW o \in BOOLEAN, FinishFile(o) PROVE Unique({f \in tssp : ~f.ord})'
    <3>1. PICK f : tssp' = tssp \cup {f} /\ f.seq = fileSeq + 1 /\ fl.pc = "build"
      BY <2>1 DEF FinishFile
    <3>2. Running
      BY <1>0, <3>1 DEF FilesInv, QuietInv, IdleFlush
    <3>3. fileSeq \in Nat /\ \A g \in tssp : g.seq \in Nat /\ g.seq <= fileSeq
      BY <1>0, <3>2 DEF FilesInv, RunInv, SeqInv, Settled
    <3>4. \A g \in tssp : g.seq # f.seq
      BY <3>1, <3>3
    <3> QED BY <1>0, <3>1, <3>4 DEF Unique, Same
  <2>2. ASSUME NEW w \in Jobs, NEW f \in job[w].new, RenameTmpFile(w, f) PROVE Unique({g \in tssp : ~g.ord})'
    <3>1. tssp' = tssp \cup {f} /\ f.ord
      BY <1>0, <2>2 DEF RenameTmpFile, KindInv, Kind
    <3> QED BY <1>0, <3>1, NoUnordered
  <2>3. ASSUME NEW l \in log, ProcessLog(l) PROVE Unique({g \in tssp : ~g.ord})'
    <3>1. QuietInv
      BY <1>0, <2>3 DEF FilesInv, Running, ProcessLog
    <3>2. \A f \in ToRename(l) : f.ord
      <4>1. CASE ~l.ord
        BY <4>1 DEF ToRename, NewFilesExist, OldFilesExist
      <4>2. CASE l.ord
        <5>1. LogOK(l)
          BY <3>1, <4>2 DEF QuietInv, RecoverInv, OrdLogs
        <5> QED BY <4>2, <5>1 DEF LogOK, ToRename
      <4> QED BY <4>1, <4>2
    <3>3. \A f \in tssp' : f \in tssp \/ f.ord
      BY <2>3, <3>2 DEF ProcessLog
    <3> QED BY <1>0, <3>3, NoUnordered
  <2>4. CASE tssp' \subseteq tssp
    BY <1>0, <2>4, NoUnordered
  <2>5. CASE \/ LoadOrder \/ LoadUnord \/ TurnCold \/ FreeSequencer \/ (\E t \in Time : Write(t))
             \/ FlushChunks \/ MakeTSSPFiles \/ AddBothTSSPFiles \/ DropSnapshot
             \/ (\E r \in Reader : GetBothFilesRef(r) \/ Unref(r)) \/ GC \/ CloseBegin \/ StopNil \/ CloseStore \/ Crash
             \/ Open \/ Load \/ UNCHANGED vars
    <3>1. tssp' = tssp
      BY <2>5, Zenon DEF LoadOrder, LoadUnord, TurnCold, FreeSequencer, Write, FlushChunks, MakeTSSPFiles, AddBothTSSPFiles,
                DropSnapshot, GetBothFilesRef, Unref, GC, CloseBegin, StopNil, CloseStore, Crash, Reset, Open, Load,
                vars, diskVars
    <3> QED BY <2>4, <3>1
  <2>6. CASE \/ (\E w \in Jobs : \/ Acquire(w) \/ Stopped(w) \/ Build(w) \/ WriteCompactedFileInfo(w)
                                 \/ AbortReplace(w) \/ AddNew(w))
             \/ LevelPlan \/ MergePlan \/ MergeSelf \/ DeleteEntry
    <3>1. tssp' = tssp
      BY <2>6, Zenon DEF Acquire, Stopped, Build, WriteCompactedFileInfo, AbortReplace, AddNew,
                LevelPlan, MergePlan, MergeSelf, DeleteEntry, diskVars
    <3> QED BY <2>4, <3>1
  <2>7. CASE DeleteUnordered \/ \E w \in Jobs : DeleteOld(w)
    <3>1. \E f : RemoveFile(f)
      BY <2>7, Zenon DEF DeleteUnordered, DeleteOld
    <3> QED BY <2>4, <3>1 DEF RemoveFile
  <2> QED BY <2>1, <2>2, <2>3, <2>5, <2>6, <2>7 DEF Next
<1>3. \A w \in Jobs : job'[w].ord
  <2>0. IdleJob.ord = TRUE /\ job \in [Jobs -> Job]
    BY <1>0 DEF IdleJob, TypeJob
  <2>1. ASSUME NEW w \in Jobs, NEW k, job' = [job EXCEPT ![w] = k], k.ord PROVE \A v \in Jobs : job'[v].ord
    BY <1>0, <2>0, <2>1
  <2>2. CASE job' = job
    BY <1>0, <2>2
  <2>3. CASE LevelPlan
    <3>1. PICK G \in Groups(order, Group, "level") :
            job' = [job EXCEPT !["compact"] = [IdleJob EXCEPT !.pc = "plan", !.in = G]]
      BY <2>3, Zenon DEF LevelPlan
    <3>2. [IdleJob EXCEPT !.pc = "plan", !.in = G].ord = TRUE
      BY DEF IdleJob
    <3> QED BY <2>1, <3>1, <3>2 DEF Jobs
  <2>4. CASE MergePlan
    <3>1. PICK S, M : job' = [job EXCEPT !["merge"] = [IdleJob EXCEPT !.pc = "plan", !.mode = "normal", !.un = S, !.in = M]]
      BY <2>4, Zenon DEF MergePlan
    <3>2. [IdleJob EXCEPT !.pc = "plan", !.mode = "normal", !.un = S, !.in = M].ord = TRUE
      BY DEF IdleJob
    <3> QED BY <2>1, <3>1, <3>2 DEF Jobs
  <2>5. CASE MergeSelf
    BY <2>5 DEF MergeSelf
  <2>6. ASSUME NEW w \in Jobs, \/ Acquire(w) \/ Stopped(w) \/ WriteCompactedFileInfo(w)
                               \/ DeleteOld(w) \/ AbortReplace(w) \/ AddNew(w)
        PROVE  \A v \in Jobs : job'[v].ord
    <3>1. CASE job' = [job EXCEPT ![w] = IdleJob]
      BY <2>0, <2>1, <3>1
    <3>2. ASSUME NEW p, job' = [job EXCEPT ![w].pc = p] PROVE \A v \in Jobs : job'[v].ord
      <4>1. [job[w] EXCEPT !.pc = p].ord = job[w].ord
        BY <2>0 DEF Job
      <4>2. job' = [job EXCEPT ![w] = [job[w] EXCEPT !.pc = p]]
        BY <3>2
      <4> QED BY <1>0, <2>1, <4>1, <4>2
    <3>3. CASE Stopped(w) \/ AbortReplace(w)
      BY <3>1, <3>3 DEF Stopped, AbortReplace, Done
    <3>4. CASE Acquire(w)
      BY <3>1, <3>2, <3>4 DEF Acquire
    <3>5. CASE WriteCompactedFileInfo(w)
      BY <3>2, <3>5 DEF WriteCompactedFileInfo
    <3>6. CASE AddNew(w)
      BY <3>1, <3>2, <3>6 DEF AddNew, Done
    <3>7. CASE DeleteOld(w)
      <4>1. PICK f \in Victims(job[w]) : job' = [job EXCEPT ![w].pc = "delete", ![w].old = @ \ {f}]
        BY <3>7 DEF DeleteOld
      <4>2. job' = [job EXCEPT ![w] = [job[w] EXCEPT !.pc = "delete", !.old = job[w].old \ {f}]]
        BY <2>0, <4>1
      <4>3. [job[w] EXCEPT !.pc = "delete", !.old = job[w].old \ {f}].ord = job[w].ord
        BY <2>0 DEF Job
      <4> QED BY <1>0, <2>1, <4>2, <4>3
    <3> QED BY <2>6, <3>3, <3>4, <3>5, <3>6, <3>7
  <2>7. ASSUME NEW w \in Jobs, Build(w) PROVE \A v \in Jobs : job'[v].ord
    <3>1. \E rows \in Merged(job[w].un, job[w].mode) :
            job' = [job EXCEPT ![w] = [job[w] EXCEPT !.pc = "built", !.new = NewOf(w, job[w], rows),
                                                     !.old = OldOf(job[w]), !.rest = RestOf(job[w])]]
      BY <2>7, Zenon DEF Build, NewOf, OldOf, RestOf
    <3>2. PICK n, o, r : job' = [job EXCEPT ![w] = [job[w] EXCEPT !.pc = "built", !.new = n, !.old = o, !.rest = r]]
      BY <3>1, Zenon
    <3>3. [job[w] EXCEPT !.pc = "built", !.new = n, !.old = o, !.rest = r].ord = job[w].ord
      BY <2>0 DEF Job
    <3> QED BY <1>0, <2>1, <3>2, <3>3
  <2>8. CASE DeleteUnordered \/ DeleteEntry
    <3>0. "merge" \in Jobs /\ job["merge"] \in Job
      BY <2>0 DEF Jobs
    <3>1. CASE job' = [job EXCEPT !["merge"] = IdleJob]
      BY <2>0, <2>1, <3>0, <3>1
    <3>2. ASSUME NEW k \in Job, job' = [job EXCEPT !["merge"] = k], k.ord = job["merge"].ord
          PROVE  \A v \in Jobs : job'[v].ord
      BY <1>0, <2>1, <3>0, <3>2
    <3>3. CASE DeleteEntry
      BY <3>1, <3>3 DEF DeleteEntry, Done
    <3>4. PICK f : f = First(job["merge"].rest)
      OBVIOUS
    <3>5. CASE DeleteUnordered /\ job["merge"].rest # {f}
      <4>0. PICK k : k = [job["merge"] EXCEPT !.pc = "drop", !.rest = job["merge"].rest \ {f}]
        OBVIOUS
      <4>1. job' = [job EXCEPT !["merge"] = k]
        BY <2>0, <3>4, <3>5, <4>0 DEF DeleteUnordered, NextRest
      <4>2. k \in Job /\ k.ord = job["merge"].ord
        BY <3>0, <4>0 DEF Job, Stages
      <4> QED BY <3>2, <4>1, <4>2
    <3>6. CASE DeleteUnordered /\ job["merge"].rest = {f} /\ unord # {f}
      <4>1. Done("merge")
        BY <3>4, <3>6 DEF DeleteUnordered, NextRest
      <4> QED BY <3>1, <4>1 DEF Done
    <3>7. CASE DeleteUnordered /\ job["merge"].rest = {f} /\ unord = {f}
      <4>0. PICK k : k = [job["merge"] EXCEPT !.pc = "entry", !.rest = {}]
        OBVIOUS
      <4>1. job' = [job EXCEPT !["merge"] = k]
        BY <2>0, <3>4, <3>7, <4>0 DEF DeleteUnordered, NextRest
      <4>2. k \in Job /\ k.ord = job["merge"].ord
        BY <3>0, <4>0 DEF Job, Stages
      <4> QED BY <3>2, <4>1, <4>2
    <3> QED BY <2>8, <3>3, <3>5, <3>6, <3>7
  <2>9. CASE CloseStore \/ Crash
    BY <2>0, <2>9 DEF CloseStore, Crash, Reset
  <2>10. CASE \/ LoadOrder \/ LoadUnord \/ TurnCold \/ FreeSequencer \/ (\E t \in Time : Write(t))
              \/ FlushChunks \/ MakeTSSPFiles \/ AddBothTSSPFiles \/ DropSnapshot \/ (\E o \in BOOLEAN : FinishFile(o))
              \/ (\E r \in Reader : GetBothFilesRef(r) \/ Unref(r)) \/ GC \/ CloseBegin \/ StopNil
              \/ Open \/ Load \/ (\E l \in log : ProcessLog(l)) \/ UNCHANGED vars
              \/ \E w \in Jobs : \E f \in job[w].new : RenameTmpFile(w, f)
    <3>1. job' = job
      BY <2>10, Zenon DEF LoadOrder, LoadUnord, TurnCold, FreeSequencer, Write, FlushChunks, MakeTSSPFiles, AddBothTSSPFiles,
                DropSnapshot, FinishFile, GetBothFilesRef, Unref, GC, CloseBegin, StopNil, Open, Load, ProcessLog,
                RenameTmpFile, vars
    <3> QED BY <2>2, <3>1
  <2> QED BY <2>3, <2>4, <2>5, <2>6, <2>7, <2>8, <2>9, <2>10 DEF Next
<1> QED BY <1>1, <1>2, <1>3 DEF SingleInv

\* Where unordered files are only ever merged into the ordered ones, a query keeps
\* every file it holds and a listed file is on disk, whatever crashes and recovers.
THEOREM NoSelfMergeFiles ==
    ASSUME Modes = {}
    PROVE  Spec => [](ReaderFilesExist /\ TypeOK)
<1>1. Init => SingleInv
  <2>1. {TRUE} \in Kinds
    BY DEF Kinds
  <2>2. Init => Unique({f \in tssp : ~f.ord}) /\ \A w \in Jobs : job[w].ord
    BY DEF Init, Unique, IdleJob
  <2> QED BY <2>1, <2>2, InitInv, InitFiles DEF SingleInv
<1>2. SingleInv /\ [Next]_vars => SingleInv'
  BY SingleStep
<1>3. SingleInv => NamesUnique
  BY DEF SingleInv, NamesUnique
<1>4. Spec => []NamesUnique
  BY <1>1, <1>2, <1>3, PTL DEF Spec
<1> QED BY <1>4, ReaderFilesExistAlways, TypeOKAlways, PTL

=============================================================================
