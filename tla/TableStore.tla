----------------------------- MODULE TableStore -----------------------------
(***************************************************************************)
(* The immutable files of one measurement of a time-series shard           *)
(* (engine/immutable, type MmsTables): the flush that adds files, the      *)
(* level compaction and the out-of-order merge that replace them, the      *)
(* compact log and the recovery that reads it, the sequencer that decides  *)
(* whether a row is in order, the readers that hold references, and the    *)
(* collector of files that were replaced while in use.                     *)
(*                                                                         *)
(* One series is enough: a row is a point in time and the number of the    *)
(* write that produced it, so a row of a file is newer than another of the *)
(* same time iff its number is larger.  0 stands for "no row".             *)
(***************************************************************************)
EXTENDS Integers, FiniteSets, FiniteSetsExt

CONSTANTS
    Time,        \* the points in time that are written
    Reader,      \* the queries
    Group,       \* LeveLMinGroupFiles: files of one level a compaction takes
    SelfGroup,   \* LevelMergeFileNum: unordered files a self merge takes
    Modes,       \* of {"fast", "stream"}: what MergeSelfFast may answer
    Limit,       \* MaxUnorderedFileNumber of one merge into the ordered files
    MaxWrite,    \* bound: rows written
    MaxReload    \* bound: times the sequencer is emptied, by a crash or an
                 \* orderly close of the open store or by its turning cold

ASSUME TableAssumption ==
    /\ Time \subseteq Nat \ {0} /\ IsFiniteSet(Time) /\ Time # {}
    /\ Group \in Nat \ {0, 1} /\ SelfGroup \in Nat \ {0, 1} /\ Limit \in Nat \ {0}
    /\ Modes \subseteq {"fast", "stream"}
    /\ MaxWrite \in Nat /\ MaxReload \in Nat

VARIABLES
    mem,       \* rows of the active memtable
    snap,      \* rows of the snapshot memtable, none when it is nil
    flushed,   \* MsInfo.flushed of the snapshot memtable
    fl,        \* the flush: its program counter, rows still to be written
               \* (by order), files written, whether it refers to the
               \* sequencer, and whether its unordered list is in the map
    fileSeq,   \* MmsTables.fileSeq
    tssp,      \* files on disk under their name
    init,      \* files on disk under their name with the suffix ".init"
    log,       \* compact logs on disk
    order,     \* Order[mst].files
    unord,     \* OutOfOrder[mst].files
    entry,     \* whether OutOfOrder has the key mst
    lost,      \* history: files appended to a list that had left OutOfOrder
    sequencer, \* isFree, isLoading (and how far), largest lastFlushTime
    job,       \* the compaction and the merge under way
    inCompact, \* files acquired by either
    gc,        \* nodeTableStoreGC.removeFiles
    refs,      \* files each reader holds a reference to
    st,        \* state of the store
    stop,      \* stopCompMerge is a closed channel (not yet nil)
    cold,      \* the shard was found cold and its memtables were flushed
    latest,    \* history: the newest row written at each time
    raced,     \* history: the sequencer was emptied under a flush
    aged,      \* history: times at which a fast self merge let an older row
               \* win, until they are written again
    reloads

memVars == <<mem, snap, flushed, fl>>
diskVars == <<tssp, init, log>>
listVars == <<order, unord, entry, lost>>
auxVars == <<cold, latest, raced, aged, reloads>>
vars == <<memVars, fileSeq, diskVars, listVars, sequencer, job, inCompact, gc, refs,
          st, stop, auxVars>>

-----------------------------------------------------------------------------
(* Rows and files.                                                         *)

Rows == [Time -> 0..MaxWrite]
Empty == [t \in Time |-> 0]
Times(rows) == {t \in Time : rows[t] > 0}
Only(rows, S) == [t \in Time |-> IF t \in S THEN rows[t] ELSE 0]
Over(new, old) == [t \in Time |-> IF new[t] > 0 THEN new[t] ELSE old[t]]

File == [seq : Nat, level : Nat, merge : Nat, ord : BOOLEAN, rows : Rows]

\* TSSPFiles is sorted by sequence: the first and the last file of a list.
First(S) == CHOOSE f \in S : \A g \in S : f.seq <= g.seq
Last(S) == CHOOSE f \in S : \A g \in S : f.seq >= g.seq
TimesOf(S) == UNION {Times(f.rows) : f \in S}
MaxTime(S) == Max(TimesOf(S) \cup {0})

\* The files of S that hold time t and have the largest sequence: the ones a
\* reader of unordered files, or a merge of them, may take the row from.
Newest(S, t) ==
    {f \in S : f.rows[t] > 0 /\ \A g \in S : g.rows[t] > 0 => g.seq <= f.seq}

\* A fast self merge pops the files from a heap by their smallest time and a
\* later row replaces an equal time: the files of S that may be popped last of
\* those that hold t.  A heap of two keeps the order of equal keys, the order
\* of the files; a larger one does not.
MinTime(f) == Min(Times(f.rows))
PoppedLast(S, t) ==
    {f \in S : f.rows[t] > 0 /\ \A g \in S : g.rows[t] > 0 =>
        \/ MinTime(g) < MinTime(f)
        \/ MinTime(g) = MinTime(f) /\ (g.seq <= f.seq \/ Cardinality(S) > 2)}

\* What a merge of the unordered files S may write: by the heap in the fast
\* mode, by the order of the files otherwise.
Winners(S, t, mode) == IF mode = "fast" THEN PoppedLast(S, t) ELSE Newest(S, t)
Merged(S, mode) ==
    {rows \in [Time -> 0..MaxWrite] :
        \A t \in Time :
            IF Winners(S, t, mode) = {} THEN rows[t] = 0
            ELSE rows[t] \in {f.rows[t] : f \in Winners(S, t, mode)}}

\* The times at which a merge of S that writes rows loses the newest row.
Aged(S, rows) == {t \in Time : \E f \in S : f.rows[t] > rows[t]}

\* The plans walk a sorted list and cut every run of files that agree on
\* the field k of their names, level or merge, into groups of n, from the left.
Run(S, f, k) ==
    {g \in S : /\ g[k] = f[k]
               /\ \A h \in S : /\ Min({f.seq, g.seq}) < h.seq
                               /\ h.seq < Max({f.seq, g.seq})
                               => h[k] = f[k]}
Position(S, f, k) == Cardinality({g \in Run(S, f, k) : g.seq < f.seq})
Groups(S, n, k) ==
    {G \in {{g \in Run(S, f, k) : Position(S, g, k) \div n = Position(S, f, k) \div n}
                : f \in S} : Cardinality(G) = n}

-----------------------------------------------------------------------------
Jobs == {"compact", "merge"}

\* in: the ordered files read, un: the unordered files read, new: the files
\* written, old: the files still to be taken off the list, rest: the
\* unordered files to delete once the replacement is done, ord: which list.
IdleJob == [pc |-> "idle", in |-> {}, un |-> {}, new |-> {}, old |-> {},
            rest |-> {}, ord |-> TRUE, mode |-> "none"]
IdleFlush == [pc |-> "idle", rows |-> [o \in BOOLEAN |-> Empty], files |-> {},
              ref |-> FALSE, attached |-> TRUE]

\* TSSPFiles.lock is write-held for several steps only by ReplaceFiles and
\* deleteUnorderedFiles.
OrderLocked == \E w \in Jobs : job[w].pc = "delete" /\ job[w].ord
UnordLocked == \E w \in Jobs : \/ job[w].pc = "delete" /\ ~job[w].ord
                               \/ job[w].pc = "drop"
\* MmsTables.mu is read-held while the sequencer is loaded.
MuRLocked == sequencer.load = "unord"

InUse(f) == \E r \in Reader : f \in refs[r]

Init ==
    /\ mem = Empty /\ snap = Empty /\ flushed = FALSE /\ fl = IdleFlush
    /\ fileSeq = 0 /\ tssp = {} /\ init = {} /\ log = {}
    /\ order = {} /\ unord = {} /\ entry = FALSE /\ lost = {}
    /\ sequencer = [free |-> FALSE, load |-> "no", last |-> 0]
    /\ job = [w \in Jobs |-> IdleJob] /\ inCompact = {} /\ gc = {}
    /\ refs = [r \in Reader |-> {}]
    /\ st = "open" /\ stop = FALSE
    /\ cold = FALSE /\ latest = Empty /\ raced = FALSE /\ aged = {} /\ reloads = 0

-----------------------------------------------------------------------------
(* The sequencer.                                                          *)

\* LoadSequencer, called by every write: SetToInLoading.
LoadSequencer(s) == IF s.free /\ s.load = "no" THEN [s EXCEPT !.load = "order"] ELSE s

\* batchUpdateCheckTime: the pairs enter the map whether it is loaded or not.
BatchUpdateCheckTime(s, S) == [s EXCEPT !.last = Max({@} \cup S)]

Loaded(s) == [s EXCEPT !.free = FALSE, !.load = "no"]

\* loadIdTimes: the ordered files of every measurement first, ...
LoadOrder ==
    /\ sequencer.load = "order" /\ st # "closed"
    /\ ~OrderLocked
    /\ sequencer' = IF order = {} THEN Loaded(sequencer)
                    ELSE [BatchUpdateCheckTime(sequencer, TimesOf(order)) EXCEPT !.load = "unord"]
    /\ UNCHANGED <<memVars, fileSeq, diskVars, listVars, job, inCompact, gc, refs, st, stop, auxVars>>

\* ... then the unordered ones; SetStat(false, false).
LoadUnord ==
    /\ sequencer.load = "unord" /\ st # "closed"
    /\ ~UnordLocked
    /\ sequencer' = Loaded(BatchUpdateCheckTime(sequencer, TimesOf(unord)))
    /\ UNCHANGED <<memVars, fileSeq, diskVars, listVars, job, inCompact, gc, refs, st, stop, auxVars>>

\* Compactor.freeShard: the shard is cold, ForceFlush has emptied its memtables.
TurnCold ==
    /\ st = "open" /\ ~cold /\ reloads < MaxReload
    /\ mem = Empty /\ fl.pc = "idle"
    /\ cold' = TRUE /\ reloads' = reloads + 1
    /\ UNCHANGED <<memVars, fileSeq, diskVars, listVars, sequencer, job, inCompact, gc, refs,
                   st, stop, latest, raced, aged>>

\* FullyCompacted: at most one ordered file (extents are not modelled).
FullyCompacted == Cardinality(order) <= 1

\* FreeSequencer -> free: refused while a flush or the loader refers to it.
FreeSequencer ==
    /\ cold /\ ~OrderLocked
    /\ cold' = FALSE
    /\ IF /\ FullyCompacted /\ ~sequencer.free
          /\ ~fl.ref /\ sequencer.load = "no"
       THEN /\ sequencer' = [free |-> TRUE, load |-> "no", last |-> 0]
            /\ raced' = (raced \/ fl.pc \in {"build", "lists"})
       ELSE UNCHANGED <<sequencer, raced>>
    /\ UNCHANGED <<memVars, fileSeq, diskVars, listVars, job, inCompact, gc, refs, st, stop,
                   latest, aged, reloads>>

-----------------------------------------------------------------------------
(* Writing and flushing.                                                   *)

Write(t) ==
    /\ st = "open"
    /\ LET v == 1 + Max({latest[u] : u \in Time}) IN
       /\ v <= MaxWrite
       /\ mem' = [mem EXCEPT ![t] = v]
       /\ latest' = [latest EXCEPT ![t] = v]
       /\ aged' = aged \ {t}
    /\ sequencer' = LoadSequencer(sequencer)
    /\ UNCHANGED <<snap, flushed, fl, fileSeq, diskVars, listVars, job, inCompact, gc, refs,
                   st, stop, cold, raced, reloads>>

\* Mutant: a row is taken to be in order while the sequencer is not loaded.
InOrderUnloaded == {t \in Time : order = {} \/ t > sequencer.last}

\* A row is in order if it is later than flushTime: everything is when there
\* is no ordered file, nothing is while the sequencer is not loaded.
InOrder ==
    {t \in Time : \/ order = {}
                  \/ /\ ~sequencer.free /\ sequencer.load = "no"
                     /\ t > sequencer.last}

\* The snapshot memtable is taken and FlushChunks splits its rows.
FlushChunks ==
    /\ st = "open" /\ fl.pc = "idle" /\ mem # Empty
    /\ ~OrderLocked
    /\ snap' = mem /\ mem' = Empty /\ flushed' = FALSE
    /\ fl' = [IdleFlush EXCEPT !.pc = "build", !.ref = order # {},
                !.rows = [o \in BOOLEAN |->
                            Only(mem, IF o THEN InOrder ELSE Time \ InOrder)]]
    /\ UNCHANGED <<fileSeq, diskVars, listVars, sequencer, job, inCompact, gc, refs, st, stop, auxVars>>

\* finish: the builder of the ordered, then of the unordered file, is written
\* (its last times enter the sequencer) and renamed.
FinishFile(o) ==
    /\ fl.pc = "build" /\ fl.rows[o] # Empty
    /\ ~o => fl.rows[TRUE] = Empty
    /\ LET f == [seq |-> fileSeq + 1, level |-> 0, merge |-> 0, ord |-> o, rows |-> fl.rows[o]] IN
       /\ tssp' = tssp \cup {f}
       /\ fl' = [fl EXCEPT !.rows[o] = Empty, !.files = @ \cup {f}]
       /\ sequencer' = BatchUpdateCheckTime(sequencer, Times(f.rows))
    /\ fileSeq' = fileSeq + 1
    /\ UNCHANGED <<mem, snap, flushed, init, log, listVars, job, inCompact, gc, refs, st, stop, auxVars>>

HasUnordered == \E f \in fl.files : ~f.ord

\* makeTSSPFiles: the lists are looked up, or created, under MmsTables.mu.
MakeTSSPFiles ==
    /\ fl.pc = "build" /\ \A o \in BOOLEAN : fl.rows[o] = Empty
    /\ HasUnordered /\ ~entry => ~MuRLocked
    /\ fl' = [fl EXCEPT !.pc = "lists"]
    /\ entry' = (entry \/ HasUnordered)
    /\ UNCHANGED <<mem, snap, flushed, fileSeq, diskVars, order, unord, lost, sequencer, job,
                   inCompact, gc, refs, st, stop, auxVars>>

\* AddBothTSSPFiles: the files are appended to the lists that were looked up
\* and flushed is set, under the locks of the lists.
AddBothTSSPFiles ==
    /\ fl.pc = "lists"
    /\ (\E f \in fl.files : f.ord) => ~OrderLocked
    /\ HasUnordered => ~UnordLocked
    /\ LET un == {f \in fl.files : ~f.ord} IN
       /\ order' = order \cup (fl.files \ un)
       /\ unord' = IF fl.attached THEN unord \cup un ELSE unord
       /\ lost' = IF fl.attached THEN lost ELSE lost \cup un
    /\ flushed' = TRUE
    /\ fl' = [fl EXCEPT !.pc = "added", !.ref = FALSE]
    /\ UNCHANGED <<mem, snap, fileSeq, diskVars, entry, sequencer, job, inCompact, gc, refs,
                   st, stop, auxVars>>

\* The snapshot memtable is dropped and its write-ahead log removed.
DropSnapshot ==
    /\ fl.pc = "added"
    /\ snap' = Empty /\ flushed' = FALSE /\ fl' = IdleFlush
    /\ UNCHANGED <<mem, fileSeq, diskVars, listVars, sequencer, job, inCompact, gc, refs,
                   st, stop, auxVars>>

-----------------------------------------------------------------------------
(* Readers and the collector.                                              *)

\* cloneReaders -> GetBothFilesRef, under the locks of both lists.
GetBothFilesRef(r) ==
    /\ st = "open" /\ refs[r] = {} /\ order \cup unord # {}
    /\ ~OrderLocked /\ ~UnordLocked
    /\ refs' = [refs EXCEPT ![r] = order \cup unord]
    /\ UNCHANGED <<memVars, fileSeq, diskVars, listVars, sequencer, job, inCompact, gc, st, stop, auxVars>>

Unref(r) ==
    /\ refs[r] # {}
    /\ refs' = [refs EXCEPT ![r] = {}]
    /\ UNCHANGED <<memVars, fileSeq, diskVars, listVars, sequencer, job, inCompact, gc, st, stop, auxVars>>

\* One round of the collector.
GC ==
    /\ LET idle == {f \in gc : ~InUse(f)} IN
       idle # {} /\ init' = init \ idle /\ gc' = gc \ idle
    /\ UNCHANGED <<memVars, fileSeq, tssp, log, listVars, sequencer, job, inCompact, refs, st, stop, auxVars>>

\* Mutant: a file in use is removed at once.
RemoveFileNow(f) ==
    /\ tssp' = tssp \ {f}
    /\ UNCHANGED <<init, gc>>

\* deleteFiles and removeFile: a file in use is renamed and left to the
\* collector, another is removed.
RemoveFile(f) ==
    /\ tssp' = tssp \ {f}
    /\ init' = IF InUse(f) THEN init \cup {f} ELSE init
    /\ gc' = IF InUse(f) THEN gc \cup {f} ELSE gc

-----------------------------------------------------------------------------
(* Compaction and merge: plan, acquire, write the new files.               *)

\* LevelPlan: a group of ordered files of one level, none of them busy.
LevelPlan ==
    /\ st = "open" /\ job["compact"].pc = "idle" /\ ~OrderLocked
    /\ \E G \in Groups(order, Group, "level") :
       /\ G \cap inCompact = {}
       /\ job' = [job EXCEPT !["compact"] = [IdleJob EXCEPT !.pc = "plan", !.in = G]]
    /\ UNCHANGED <<memVars, fileSeq, diskVars, listVars, sequencer, inCompact, gc, refs, st, stop, auxVars>>

\* buildNormalMergeContext: unordered files from the oldest on, until their
\* number n or their size (not modelled: n varies) reaches the limit.
NormalMerge(S, n) == {f \in S : Cardinality({g \in S : g.seq < f.seq}) < n}

\* matchOrderFiles: from the first ordered file that overlaps the unordered
\* rows or is later than them, the last one if there is none.
MatchOrderFiles(U) ==
    LET lo == Min(TimesOf(U))
        hi == Max(TimesOf(U))
        Match == {f \in order : \/ Min(Times(f.rows)) <= hi /\ Max(Times(f.rows)) >= lo
                                \/ Min(Times(f.rows)) > hi}
    IN IF Match = {} THEN {Last(order)} ELSE {f \in order : f.seq >= First(Match).seq}

\* mergeOutOfOrder -> merge: the unordered files go into the ordered ones.
MergePlan ==
    /\ st = "open" /\ job["merge"].pc = "idle"
    /\ unord # {} /\ order # {} /\ ~OrderLocked
    /\ \E n \in 1..Limit :
       LET U == NormalMerge(unord, n) IN
       job' = [job EXCEPT !["merge"] = [IdleJob EXCEPT !.pc = "plan", !.mode = "normal",
                                          !.un = U, !.in = MatchOrderFiles(U)]]
    /\ UNCHANGED <<memVars, fileSeq, diskVars, listVars, sequencer, inCompact, gc, refs, st, stop, auxVars>>

\* mergeOutOfOrder -> mergeSelf: unordered files of one merge count; nothing
\* is acquired, inMerge admits one merge per measurement.
MergeSelf ==
    /\ st = "open" /\ job["merge"].pc = "idle"
    /\ \E G \in Groups(unord, SelfGroup, "merge"), m \in Modes :
       job' = [job EXCEPT !["merge"] = [IdleJob EXCEPT !.pc = "run", !.mode = m,
                                          !.un = G, !.ord = FALSE]]
    /\ UNCHANGED <<memVars, fileSeq, diskVars, listVars, sequencer, inCompact, gc, refs, st, stop, auxVars>>

\* Mutant: acquire does not look at the files that are acquired already.
AcquirableAny(in) == in \subseteq order

\* acquire, then NewFileIterators or getTSSPFiles: every planned file must be
\* free and still be listed under the path it was planned with.
Acquirable(in) == in \cap inCompact = {} /\ in \subseteq order

Acquire(w) ==
    /\ job[w].pc = "plan" /\ st = "open" /\ ~OrderLocked
    /\ IF Acquirable(job[w].in)
       THEN /\ job' = [job EXCEPT ![w].pc = "run"]
            /\ inCompact' = inCompact \cup job[w].in
       ELSE /\ job' = [job EXCEPT ![w] = IdleJob]
            /\ UNCHANGED inCompact
    /\ UNCHANGED <<memVars, fileSeq, diskVars, listVars, sequencer, gc, refs, st, stop, auxVars>>

\* The task is over: CompactDone.
Done(w) ==
    /\ job' = [job EXCEPT ![w] = IdleJob]
    /\ inCompact' = IF job[w].pc = "plan" THEN inCompact ELSE inCompact \ job[w].in

\* A task that has not started, or still reads its files, gives up once
\* compaction is disabled.
Stopped(w) ==
    /\ \/ job[w].pc = "plan" /\ st # "open"
       \/ job[w].pc = "run" /\ stop
    /\ Done(w)
    /\ UNCHANGED <<memVars, fileSeq, diskVars, listVars, sequencer, gc, refs, st, stop, auxVars>>

\* compact: one file at the next level that takes the sequence of the first.
Compacted(G) ==
    {[seq |-> First(G).seq, level |-> First(G).level + 1, merge |-> 0, ord |-> TRUE,
      rows |-> [t \in Time |-> Max({f.rows[t] : f \in G})]]}

\* execute: each ordered file takes the unordered rows up to its last time,
\* the last one also the rest, and keeps its name but for the merge count.
MergedInto(M, rows) ==
    {[f EXCEPT !.merge = @ + 1,
               !.rows = Over(Only(rows, {t \in Time :
                                /\ f = Last(M) \/ t <= Max(Times(f.rows))
                                /\ \A g \in M : g.seq < f.seq => t > Max(Times(g.rows))}),
                             f.rows)] : f \in M}

\* MergeSelf.Merge and the stream mode: one file named after the first.
SelfMerged(G, rows) == {[First(G) EXCEPT !.merge = @ + 1, !.rows = rows]}

Build(w) ==
    /\ job[w].pc = "run"
    /\ \E rows \in Merged(job[w].un, job[w].mode) :
       LET j == job[w]
           new == CASE w = "compact" -> Compacted(j.in)
                    [] j.mode = "normal" -> MergedInto(j.in, rows)
                    [] OTHER -> SelfMerged(j.un, rows)
       IN /\ init' = init \cup new
          /\ job' = [job EXCEPT ![w] =
                [j EXCEPT !.pc = "built", !.new = new,
                          !.old = CASE j.ord -> j.in
                                    [] j.mode = "fast" -> j.un
                                    [] OTHER -> {First(j.un)},
                          !.rest = CASE j.mode = "normal" -> j.un
                                     [] j.mode = "stream" -> j.un \ {First(j.un)}
                                     [] OTHER -> {}]]
          /\ aged' = aged \cup Aged(j.un, rows)
    /\ UNCHANGED <<memVars, fileSeq, tssp, log, listVars, sequencer, inCompact, gc, refs, st, stop,
                   cold, latest, raced, reloads>>

-----------------------------------------------------------------------------
(* ReplaceFiles.                                                           *)

Log(j) == [new |-> j.new, old |-> j.old, ord |-> j.ord]

\* writeCompactedFileInfo, synced.
WriteCompactedFileInfo(w) ==
    /\ job[w].pc = "built"
    /\ log' = log \cup {Log(job[w])}
    /\ job' = [job EXCEPT ![w].pc = "logged"]
    /\ UNCHANGED <<memVars, fileSeq, tssp, init, listVars, sequencer, inCompact, gc, refs, st, stop, auxVars>>

\* RenameTmpFiles.
RenameTmpFile(w, f) ==
    /\ job[w].pc = "logged" /\ f \in job[w].new \cap init
    /\ init' = init \ {f} /\ tssp' = tssp \cup {f}
    /\ UNCHANGED <<memVars, fileSeq, log, listVars, sequencer, job, inCompact, gc, refs, st, stop, auxVars>>

\* All new files are renamed and the lock of the list is held, or free to take.
ListLocked(w) ==
    \/ job[w].pc = "delete"
    \/ /\ job[w].pc = "logged" /\ job[w].new \cap init = {}
       /\ IF job[w].ord THEN ~OrderLocked ELSE ~UnordLocked

\* The old files one by one: the ordered ones of a merge in the order of a Go
\* map, the unordered ones from the oldest.
Victims(j) == IF j.ord THEN j.old ELSE {First(j.old)}

DeleteOld(w) ==
    /\ ListLocked(w) /\ job[w].old # {} /\ ~stop
    /\ \E f \in Victims(job[w]) :
       /\ RemoveFile(f)
       /\ order' = order \ {f} /\ unord' = unord \ {f}
       /\ job' = [job EXCEPT ![w].pc = "delete", ![w].old = @ \ {f}]
    /\ UNCHANGED <<memVars, fileSeq, log, entry, lost, sequencer, inCompact, refs, st, stop, auxVars>>

\* ErrCompStopped in the middle: the lists stay as they are, the log too.
AbortReplace(w) ==
    /\ ListLocked(w) /\ job[w].old # {} /\ stop
    /\ Done(w)
    /\ UNCHANGED <<memVars, fileSeq, diskVars, listVars, sequencer, gc, refs, st, stop, auxVars>>

\* The new files are listed and the log is removed.  The log of j is the one
\* that names its new files.
AddNew(w) ==
    /\ job[w].pc = "delete" /\ job[w].old = {}
    /\ LET j == job[w] IN
       /\ order' = IF j.ord THEN order \cup j.new ELSE order
       /\ unord' = IF j.ord THEN unord ELSE unord \cup j.new
       /\ log' = {l \in log : l.new # j.new}
       /\ IF j.rest = {} THEN Done(w)
          ELSE job' = [job EXCEPT ![w].pc = "rest"] /\ UNCHANGED inCompact
    /\ UNCHANGED <<memVars, fileSeq, tssp, init, entry, lost, sequencer, gc, refs, st, stop, auxVars>>

-----------------------------------------------------------------------------
(* deleteUnorderedFiles: no log, from the oldest file to the newest.       *)

\* Mutant: the newest unordered file is deleted first.
NextRestNewest(rest) == Last(rest)

NextRest(rest) == First(rest)

DeleteUnordered ==
    /\ \/ job["merge"].pc = "drop"
       \/ job["merge"].pc = "rest" /\ ~UnordLocked
    /\ LET f == NextRest(job["merge"].rest) IN
       /\ RemoveFile(f)
       /\ unord' = unord \ {f}
       /\ CASE job["merge"].rest # {f} ->
               /\ job' = [job EXCEPT !["merge"].pc = "drop", !["merge"].rest = @ \ {f}]
               /\ UNCHANGED inCompact
            [] job["merge"].rest = {f} /\ unord # {f} -> Done("merge")
            [] OTHER -> /\ job' = [job EXCEPT !["merge"].pc = "entry", !["merge"].rest = {}]
                        /\ UNCHANGED inCompact
    /\ UNCHANGED <<memVars, fileSeq, log, order, entry, lost, sequencer, refs, st, stop, auxVars>>

\* The list was empty: if it still is, its key leaves the map, whether or not
\* a flush has already looked the list up.
DeleteEntry ==
    /\ job["merge"].pc = "entry" /\ ~MuRLocked
    /\ entry' = (entry /\ unord # {})
    /\ fl' = IF fl.pc = "lists" /\ HasUnordered /\ unord = {}
             THEN [fl EXCEPT !.attached = FALSE] ELSE fl
    /\ Done("merge")
    /\ UNCHANGED <<mem, snap, flushed, fileSeq, diskVars, order, unord, lost, sequencer, gc, refs,
                   st, stop, auxVars>>

-----------------------------------------------------------------------------
(* Close, crash and open.                                                  *)

\* shard.Close -> DisableCompAndMerge: stopCompMerge is closed, ...
CloseBegin ==
    /\ st = "open" /\ reloads < MaxReload
    /\ st' = "stopping" /\ stop' = TRUE /\ reloads' = reloads + 1
    /\ UNCHANGED <<memVars, fileSeq, diskVars, listVars, sequencer, job, inCompact, gc, refs,
                   cold, latest, raced, aged>>

\* ... then set to nil, after which nobody sees it closed.
StopNil ==
    /\ st = "stopping"
    /\ st' = "draining" /\ stop' = FALSE
    /\ UNCHANGED <<memVars, fileSeq, diskVars, listVars, sequencer, job, inCompact, gc, refs, auxVars>>

\* What is in memory goes; rows that were not flushed come back from the log.
Reset ==
    /\ st' = "closed" /\ stop' = FALSE
    /\ mem' = Over(mem, snap) /\ snap' = Empty /\ flushed' = FALSE /\ fl' = IdleFlush
    /\ fileSeq' = 0 /\ order' = {} /\ unord' = {} /\ entry' = FALSE
    /\ sequencer' = [free |-> FALSE, load |-> "no", last |-> 0]
    /\ job' = [w \in Jobs |-> IdleJob] /\ inCompact' = {} /\ gc' = {}
    /\ refs' = [r \in Reader |-> {}] /\ cold' = FALSE
    /\ UNCHANGED <<diskVars, lost, latest, raced, aged>>

\* Wait, waitSnapshot, MmsTables.Close (which waits for references).
CloseStore ==
    /\ st = "draining" /\ fl.pc = "idle" /\ sequencer.load = "no"
    /\ \A w \in Jobs : job[w].pc = "idle"
    /\ \A r \in Reader : refs[r] = {}
    /\ Reset /\ UNCHANGED reloads

\* A crash of the process; during recovery it costs nothing of the bound.
Crash ==
    /\ \/ st \in {"open", "stopping", "draining"} /\ reloads < MaxReload
          /\ reloads' = reloads + 1
       \/ st = "recover" /\ UNCHANGED reloads
    /\ Reset

Open ==
    /\ st = "closed"
    /\ st' = "recover"
    /\ UNCHANGED <<memVars, fileSeq, diskVars, listVars, sequencer, job, inCompact, gc, refs, stop, auxVars>>

\* processLog looks in the directory of the ordered files whatever the log is
\* about: a log of unordered files finds none of them.
OnDisk(f) == f \in tssp \cup init
NewFilesExist(l) == l.ord /\ \A f \in l.new : OnDisk(f)
OldFilesExist(l) == l.ord /\ \A f \in l.old : OnDisk(f)

\* renameFile and Remove, one file at a time.
ToRename(l) == IF NewFilesExist(l) THEN l.new \cap init
               ELSE IF OldFilesExist(l) THEN l.old \cap init ELSE {}
ToRemove(l) == IF NewFilesExist(l) THEN l.old \cap tssp ELSE {}

ProcessLog(l) ==
    /\ st = "recover" /\ l \in log
    /\ \/ \E f \in ToRename(l) :
            tssp' = tssp \cup {f} /\ init' = init \ {f} /\ UNCHANGED log
       \/ /\ ToRename(l) = {}
          /\ \E f \in ToRemove(l) : tssp' = tssp \ {f} /\ UNCHANGED <<init, log>>
       \/ /\ ToRename(l) = {} /\ ToRemove(l) = {}
          /\ log' = log \ {l} /\ UNCHANGED <<tssp, init>>
    /\ UNCHANGED <<memVars, fileSeq, listVars, sequencer, job, inCompact, gc, refs, st, stop, auxVars>>

\* Mutant: the sequence is not restored from the loaded files.
MaxSeqZero == 0

MaxSeq == Max({f.seq : f \in tssp} \cup {0})

\* fileLoader: temporary files are removed, the others are listed.
Load ==
    /\ st = "recover" /\ log = {}
    /\ init' = {} /\ fileSeq' = MaxSeq
    /\ order' = {f \in tssp : f.ord} /\ unord' = {f \in tssp : ~f.ord}
    /\ entry' = (\E f \in tssp : ~f.ord)
    /\ sequencer' = [free |-> tssp # {}, load |-> "no", last |-> 0]
    /\ st' = "open"
    /\ UNCHANGED <<memVars, tssp, log, lost, job, inCompact, gc, refs, stop, auxVars>>

-----------------------------------------------------------------------------
Next ==
    \/ LoadOrder \/ LoadUnord \/ TurnCold \/ FreeSequencer
    \/ \E t \in Time : Write(t)
    \/ FlushChunks \/ MakeTSSPFiles \/ AddBothTSSPFiles \/ DropSnapshot
    \/ \E o \in BOOLEAN : FinishFile(o)
    \/ \E r \in Reader : GetBothFilesRef(r) \/ Unref(r)
    \/ GC
    \/ LevelPlan \/ MergePlan \/ MergeSelf
    \/ \E w \in Jobs : \/ Acquire(w) \/ Stopped(w) \/ Build(w)
                       \/ WriteCompactedFileInfo(w)
                       \/ \E f \in job[w].new : RenameTmpFile(w, f)
                       \/ DeleteOld(w) \/ AbortReplace(w) \/ AddNew(w)
    \/ DeleteUnordered \/ DeleteEntry
    \/ CloseBegin \/ StopNil \/ CloseStore \/ Crash \/ Open \/ Load
    \/ \E l \in log : ProcessLog(l)

Spec == Init /\ [][Next]_vars

-----------------------------------------------------------------------------
(* Properties.                                                             *)

\* Types, and what every name relies on: a listed file is on disk, and no new
\* file can take the name of one that is there (NextSequence is beyond every
\* sequence in use).
TypeOK ==
    /\ mem \in Rows /\ snap \in Rows /\ latest \in Rows /\ flushed \in BOOLEAN
    /\ fl.pc \in {"idle", "build", "lists", "added"}
    /\ aged \subseteq Time
    /\ tssp \subseteq File /\ init \subseteq File /\ gc \subseteq init
    /\ order \cup unord \subseteq tssp
    /\ inCompact = UNION {job[w].in : w \in {v \in Jobs : job[v].pc \notin {"idle", "plan"}}}
    /\ sequencer \in [free : BOOLEAN, load : {"no", "order", "unord"}, last : Time \cup {0}]
    /\ st \in {"open", "stopping", "draining", "closed", "recover"}
    /\ st = "open" => \A f \in tssp : f.seq <= fileSeq

\* What a query that takes its references now may read at t: the active
\* memtable, the snapshot unless it is flushed, the unordered files from the
\* newest, the ordered files.
ReadAt(t) ==
    IF mem[t] > 0 THEN {mem[t]}
    ELSE IF snap[t] > 0 /\ ~flushed THEN {snap[t]}
    ELSE IF Newest(unord, t) # {} THEN {f.rows[t] : f \in Newest(unord, t)}
    ELSE {f.rows[t] : f \in order} \ {0}

Readable == st = "open" /\ ~OrderLocked /\ ~UnordLocked

\* A query sees one row of every time that was written, and it is the newest
\* one unless a fast self merge let an older one win, whatever flush,
\* compaction, merge, crash and recovery did to the files: cloneReaders and
\* AddBothTSSPFiles hand a row over from the snapshot to the files without a
\* gap, no other merge lets an older row win, no replacement or recovery loses
\* one, and a new write of the time is read whatever the merges did before.
\* (The list a flush appends to may be detached: see FlushListed; and the
\* sequencer may be emptied under a flush: see TimesChecked.)
NewestRead ==
    Readable /\ lost = {} /\ ~raced =>
        \A t \in Time :
            /\ t \notin aged => ReadAt(t) = {latest[t]} \ {0}
            /\ Cardinality(ReadAt(t)) = (IF latest[t] = 0 THEN 0 ELSE 1)

\* A row that was overwritten never comes back.  MergeSelf.Merge does not keep
\* this: MCTableFast.cfg shows it.
NoneAged == aged = {}

\* A file a query holds a reference to stays on disk, under one of its two
\* names, until the query gives the reference back (deleteFiles, removeFile,
\* TableStoreGC).
ReaderFilesExist == \A r \in Reader : refs[r] \subseteq tssp \cup init

\* record.CheckTimes panics with "the time column is not ordered" when the rows
\* a compaction reads are not: the rows of the ordered files are in the order
\* of the files.
TimesChecked ==
    st = "open" /\ ~OrderLocked =>
        \A f, g \in order : f # g =>
            /\ f.seq # g.seq
            /\ f.seq < g.seq => \A t \in Times(f.rows), u \in Times(g.rows) : t < u

\* The split by flushTime, matchOrderFiles and recovery keep the rows of the
\* ordered files in the order of the files, as long as the sequencer is not
\* emptied under a flush of the first ordered file, which has no reference.
TimeOrdered == ~raced => TimesChecked

\* From the moment it is acquired until its ReplaceFiles takes the lock, no
\* other task takes an input of a task away: plan, busy and acquire together
\* keep the compaction and the merge apart although the plan is stale.
InputsStay ==
    \A w \in Jobs : job[w].pc \in {"run", "built", "logged"} =>
        job[w].in \subseteq order /\ job[w].un \subseteq unord

\* FlushChunks says of AddBothTSSPFiles that it adds the files to the list:
\* every file a flush finished is in a list a reader looks at.
FlushListed == lost = {}
=============================================================================
