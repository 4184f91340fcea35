-------------------------- MODULE TableStoreProofs --------------------------
(***************************************************************************)
(* Proofs about the immutable files of a measurement (module TableStore):  *)
(* the level compaction and the out-of-order merge never take an input of  *)
(* each other away, although each plans from a list it has read earlier.   *)
(***************************************************************************)
EXTENDS TableStore, FiniteSetTheorems, TLAPS

SF == INSTANCE SequenceFacts

-----------------------------------------------------------------------------
(* The inductive invariant.                                                *)

Ordered == {f \in File : f.ord}
Unordered == {f \in File : ~f.ord}
Stages == {"idle", "plan", "run", "built", "logged", "delete", "rest", "drop", "entry"}
Job == [pc : Stages, in : SUBSET Ordered, un : SUBSET Unordered, new : SUBSET File,
        old : SUBSET File, rest : SUBSET Unordered, ord : BOOLEAN,
        mode : {"none", "normal", "fast", "stream"}]
FlushJob == [pc : {"idle", "build", "lists", "added"}, rows : [BOOLEAN -> Rows],
             files : SUBSET File, ref : BOOLEAN, attached : BOOLEAN]

\* A list holds files of its kind only, whatever was added to it.
TypeFiles ==
    /\ tssp \subseteq File /\ init \subseteq File /\ IsFiniteSet(tssp) /\ IsFiniteSet(init)
    /\ order \subseteq Ordered /\ IsFiniteSet(order)
    /\ unord \subseteq Unordered
    /\ fileSeq \in Nat
TypeFlush ==
    /\ mem \in Rows /\ snap \in Rows /\ latest \in Rows
    /\ fl \in FlushJob /\ IsFiniteSet(fl.files)
TypeJob ==
    /\ job \in [Jobs -> Job]
    /\ \A w \in Jobs : IsFiniteSet(job[w].in) /\ IsFiniteSet(job[w].new)
TypeInv == TypeFiles /\ TypeFlush /\ TypeJob

Active(w) == job[w].pc \notin {"idle", "plan"}

\* What a task is about: a compaction of ordered files, a merge of unordered ones
\* into ordered ones, or a merge of unordered ones.
Kind(w, j) ==
    /\ w = "compact" => /\ j.ord /\ j.un = {} /\ j.rest = {} /\ j.mode = "none"
                        /\ j.pc \notin {"rest", "drop", "entry"}
                        /\ j.pc # "idle" => j.in # {}
    /\ j.mode = "normal" => j.ord
    /\ j.mode \in {"fast", "stream"} => ~j.ord /\ j.un # {}
    /\ w = "merge" /\ j.mode = "none" => j.pc = "idle"
    /\ \A f \in j.new \cup j.old : f.ord = j.ord
    /\ j.ord => j.old \subseteq j.in
    /\ j.pc \in {"rest", "drop"} => j.rest # {}
KindInv == \A w \in Jobs : Kind(w, job[w])

\* The inputs are listed; the unordered ones already when the merge is planned.
Listed(j, o, u) ==
    /\ j.pc \in {"run", "built", "logged"} => j.in \subseteq o
    /\ j.pc \in {"plan", "run", "built", "logged"} => j.un \subseteq u
ListedInv == \A w \in Jobs : Listed(job[w], order, unord)

\* acquire and CompactDone keep account of the files that are taken, and of two
\* tasks that have acquired their files neither has one of the other.
AcquiredInv ==
    /\ inCompact = UNION {job[w].in : w \in {v \in Jobs : Active(v)}}
    /\ Active("compact") /\ Active("merge") => job["compact"].in \cap job["merge"].in = {}

\* Recovery lists files when there is no task, and so loses no input of one.
NoJob == st \in {"closed", "recover"} => \A w \in Jobs : job[w] = IdleJob

Inv == TypeInv /\ KindInv /\ ListedInv /\ AcquiredInv /\ NoJob

-----------------------------------------------------------------------------
(* Operators.                                                              *)

\* The largest of a finite set of numbers.
LEMMA MaxFacts ==
    ASSUME NEW S \in SUBSET Int, IsFiniteSet(S), S # {}
    PROVE  Max(S) \in S /\ \A y \in S : y <= Max(S)
<1>1. \E x \in S : \A y \in S : y <= x
  BY SF!GreatestInt DEF IsFiniteSet, SF!IsFiniteSet
<1>2. \E x \in S : \A y \in S : x >= y
  BY <1>1
<1> QED BY <1>2 DEF Max

\* The first file of a list that is not empty.
LEMMA FirstFacts ==
    ASSUME NEW S \in SUBSET File, S # {}
    PROVE  First(S) \in S /\ \A g \in S : First(S).seq <= g.seq
<1> DEFINE Q == {f.seq : f \in S}
<1>1. Q \in SUBSET Nat /\ Q # {}
  BY DEF File
<1>2. PICK x \in Q : \A y \in Q : x <= y
  BY <1>1, SF!LeastNat
<1>3. \E f \in S : \A g \in S : f.seq <= g.seq
  BY <1>2
<1> QED BY <1>3 DEF First

\* The last file of a list that is not empty.
LEMMA LastFacts ==
    ASSUME NEW S \in SUBSET File, S # {}, IsFiniteSet(S)
    PROVE  Last(S) \in S
<1> DEFINE Q == {f.seq : f \in S}
<1>1. Q \in SUBSET Int /\ Q # {}
  BY DEF File
<1>2. IsFiniteSet(Q)
  <2> DEFINE h == [f \in S |-> f.seq]
  <2>1. h \in [S -> Q] /\ \A q \in Q : \E f \in S : h[f] = q
    OBVIOUS
  <2>2. h \in Surjection(S, Q)
    BY <2>1 DEF Surjection
  <2> QED BY <2>2, FS_Surjection
<1>3. \E x \in Q : \A y \in Q : y <= x
  BY <1>1, <1>2, MaxFacts
<1>4. PICK x \in Q : \A y \in Q : y <= x
  BY <1>3
<1>5. PICK f \in S : f.seq = x
  OBVIOUS
<1>6. \A g \in S : f.seq >= g.seq
  BY <1>1, <1>4, <1>5
<1>7. \E e \in S : \A g \in S : e.seq >= g.seq
  BY <1>6
<1> QED BY <1>7 DEF Last

\* The largest number of rows.
LEMMA MaxRow ==
    ASSUME NEW S \in SUBSET (0 .. MaxWrite), S # {}
    PROVE  Max(S) \in 0 .. MaxWrite
<1>1. MaxWrite \in Nat
  BY TableAssumption
<1>2. IsFiniteSet(0 .. MaxWrite)
  BY <1>1, FS_Interval
<1>3. IsFiniteSet(S)
  BY <1>2, FS_Subset
<1>4. S \in SUBSET Int
  BY <1>1
<1>5. Max(S) \in S
  BY <1>3, <1>4, MaxFacts
<1> QED BY <1>5

\* What a merge writes is rows.
LEMMA RowFacts ==
    /\ Empty \in Rows
    /\ \A r \in Rows : \A S : Only(r, S) \in Rows
    /\ \A r, s \in Rows : Over(r, s) \in Rows
    /\ \A S, m : \A r \in Merged(S, m) : r \in Rows
<1>1. MaxWrite \in Nat
  BY TableAssumption
<1> QED BY <1>1 DEF Empty, Rows, Only, Over, Merged

\* The groups of a plan are files of the list.
LEMMA GroupFacts ==
    ASSUME NEW S, NEW n \in Nat \ {0}, NEW k, NEW G \in Groups(S, n, k)
    PROVE  G \subseteq S /\ G # {}
<1>1. G \subseteq S
  BY DEF Groups, Run
<1>2. Cardinality(G) = n
  BY DEF Groups
<1> QED BY <1>1, <1>2, FS_EmptySet

\* The ordered files a merge takes.
LEMMA MatchFacts ==
    ASSUME TypeFiles, order # {}, NEW U
    PROVE  MatchOrderFiles(U) \subseteq order
<1>1. Last(order) \in order
  BY LastFacts DEF TypeFiles, Ordered
<1> QED BY <1>1 DEF MatchOrderFiles

\* The file a compaction writes.
LEMMA CompactedFacts ==
    ASSUME NEW G \in SUBSET File, G # {}
    PROVE  Compacted(G) \subseteq Ordered /\ IsFiniteSet(Compacted(G))
<1> DEFINE rows == [t \in Time |-> Max({f.rows[t] : f \in G})]
           f == [seq |-> First(G).seq, level |-> First(G).level + 1, merge |-> 0, ord |-> TRUE, rows |-> rows]
<1>1. rows \in Rows
  <2>1. ASSUME NEW t \in Time PROVE Max({e.rows[t] : e \in G}) \in 0 .. MaxWrite
    <3>1. {e.rows[t] : e \in G} \in SUBSET (0 .. MaxWrite) /\ {e.rows[t] : e \in G} # {}
      BY DEF File, Rows
    <3> QED BY <3>1, MaxRow
  <2> QED BY <2>1 DEF Rows
<1>2. First(G) \in File
  BY FirstFacts
<1> HIDE DEF rows
<1>3. f \in File /\ f.ord
  BY <1>1, <1>2 DEF File
<1>4. Compacted(G) = {f}
  BY DEF Compacted, rows
<1> HIDE DEF f
<1> QED BY <1>3, <1>4, FS_Singleton DEF Ordered

\* A file of a merge: the name of another but for the merge count.
LEMMA RewrittenFacts ==
    ASSUME NEW f \in File, NEW m \in Nat, NEW r \in Rows
    PROVE  /\ [f EXCEPT !.merge = m, !.rows = r] \in File
           /\ [f EXCEPT !.merge = m, !.rows = r].ord = f.ord
<1> DEFINE e == [f EXCEPT !.merge = m]
<1>1. e \in File /\ e.ord = f.ord
  BY DEF File
<1>2. [f EXCEPT !.merge = m, !.rows = r] = [e EXCEPT !.rows = r]
  OBVIOUS
<1> HIDE DEF e
<1>3. [e EXCEPT !.rows = r] \in File /\ [e EXCEPT !.rows = r].ord = e.ord
  BY <1>1 DEF File
<1> QED BY <1>1, <1>2, <1>3

\* The files a merge into ordered files writes.
LEMMA MergedIntoFacts ==
    ASSUME NEW M \in SUBSET Ordered, IsFiniteSet(M), NEW r \in Rows
    PROVE  MergedInto(M, r) \subseteq Ordered /\ IsFiniteSet(MergedInto(M, r))
<1> DEFINE T(f) == {t \in Time : /\ f = Last(M) \/ t <= Max(Times(f.rows))
                                 /\ \A g \in M : g.seq < f.seq => t > Max(Times(g.rows))}
           new(f) == [f EXCEPT !.merge = @ + 1, !.rows = Over(Only(r, T(f)), f.rows)]
           h == [f \in M |-> new(f)]
<1>1. MergedInto(M, r) = {new(f) : f \in M}
  BY DEF MergedInto
<1>2. ASSUME NEW f \in M PROVE new(f) \in Ordered
  <2>1. f \in File /\ f.ord /\ f.rows \in Rows /\ f.merge \in Nat
    BY DEF Ordered, File
  <2>2. Over(Only(r, T(f)), f.rows) \in Rows
    BY <2>1, RowFacts
  <2>3. f.merge + 1 \in Nat
    BY <2>1
  <2>4. new(f) \in File /\ new(f).ord = f.ord
    BY <2>1, <2>2, <2>3, RewrittenFacts
  <2> QED BY <2>1, <2>4 DEF Ordered
<1>3. h \in Surjection(M, MergedInto(M, r))
  BY <1>1 DEF Surjection
<1> QED BY <1>1, <1>2, <1>3, FS_Surjection

\* The file a merge of unordered files writes.
LEMMA SelfMergedFacts ==
    ASSUME NEW G \in SUBSET Unordered, G # {}, NEW r \in Rows
    PROVE  SelfMerged(G, r) \subseteq Unordered /\ IsFiniteSet(SelfMerged(G, r))
<1>1. First(G) \in G
  BY FirstFacts DEF Unordered
<1>2. First(G) \in File /\ ~First(G).ord /\ First(G).merge + 1 \in Nat
  BY <1>1 DEF Unordered, File
<1>3. [First(G) EXCEPT !.merge = @ + 1, !.rows = r] \in Unordered
  BY <1>2, RewrittenFacts DEF Unordered
<1> QED BY <1>3, FS_Singleton DEF SelfMerged

-----------------------------------------------------------------------------
(* Steps of a task.                                                        *)

\* A task becomes j: it stays as active as it was, or it gives its files up, or it
\* acquires files nobody has.
Keeps(w, j) ==
    /\ (j.pc \notin {"idle", "plan"}) <=> Active(w)
    /\ j.in = job[w].in \/ ~Active(w)
    /\ inCompact' = inCompact
GivesUp(w, j) ==
    /\ j.pc \in {"idle", "plan"}
    /\ inCompact' = IF job[w].pc = "plan" THEN inCompact ELSE inCompact \ job[w].in
    /\ job[w].pc # "idle"
Acquires(w, j) ==
    /\ j.pc \notin {"idle", "plan"} /\ ~Active(w)
    /\ j.in \cap inCompact = {} /\ inCompact' = inCompact \cup j.in

JobInv == TypeJob /\ KindInv /\ ListedInv /\ AcquiredInv

\* The invariant of a task that changes.
LEMMA JobReplaced ==
    ASSUME JobInv, NEW w \in Jobs, NEW j \in Job, IsFiniteSet(j.in), IsFiniteSet(j.new),
           job' = [job EXCEPT ![w] = j], Kind(w, j), Listed(j, order', unord'),
           \A v \in Jobs : v # w => Listed(job[v], order', unord'),
           Keeps(w, j) \/ GivesUp(w, j) \/ Acquires(w, j)
    PROVE  JobInv'
<1>0. TypeJob /\ KindInv /\ AcquiredInv /\ job \in [Jobs -> Job] /\ Jobs = {"compact", "merge"}
  BY DEF JobInv, TypeJob, Jobs
<1>1. job' \in [Jobs -> Job] /\ job'[w] = j /\ \A v \in Jobs : v # w => job'[v] = job[v]
  BY <1>0
<1>2. PICK v \in Jobs : v # w /\ Jobs = {v, w}
  BY <1>0
<1>3. job'[v] = job[v] /\ Active(v)' = Active(v) /\ (Active(w)' <=> j.pc \notin {"idle", "plan"})
  BY <1>1, <1>2 DEF Active
<1>4. TypeJob' /\ KindInv' /\ ListedInv'
  BY <1>0, <1>1 DEF TypeJob, KindInv, ListedInv
<1>5. \A S, T : UNION {S} = S /\ UNION {S, T} = S \cup T
  OBVIOUS
<1>6. /\ inCompact = (IF Active(v) THEN job[v].in ELSE {}) \cup (IF Active(w) THEN job[w].in ELSE {})
      /\ Active(v) /\ Active(w) => job[v].in \cap job[w].in = {}
  BY <1>0, <1>2 DEF AcquiredInv
<1>7. ASSUME inCompact' = (IF Active(v) THEN job[v].in ELSE {})
                            \cup (IF j.pc \notin {"idle", "plan"} THEN j.in ELSE {}),
             Active(v) /\ j.pc \notin {"idle", "plan"} => job[v].in \cap j.in = {}
      PROVE  AcquiredInv'
  BY <1>0, <1>1, <1>2, <1>3, <1>7 DEF AcquiredInv
<1>8. ASSUME Keeps(w, j) PROVE AcquiredInv'
  BY <1>6, <1>7, <1>8 DEF Keeps
<1>9. ASSUME GivesUp(w, j) PROVE AcquiredInv'
  BY <1>6, <1>7, <1>9 DEF GivesUp, Active
<1>10. ASSUME Acquires(w, j) PROVE AcquiredInv'
  BY <1>6, <1>7, <1>10 DEF Acquires
<1> QED BY <1>4, <1>8, <1>9, <1>10 DEF JobInv

\* A task that is over.
LEMMA IdleFacts ==
    /\ IdleJob \in Job /\ IdleJob.pc = "idle" /\ IdleJob.in = {} /\ IdleJob.un = {} /\ IdleJob.new = {}
    /\ IdleJob.old = {} /\ IdleJob.rest = {} /\ IdleJob.ord = TRUE /\ IdleJob.mode = "none"
    /\ IsFiniteSet({}) /\ \A w \in Jobs : Kind(w, IdleJob)
    /\ \A o, u : Listed(IdleJob, o, u)
<1>1. IsFiniteSet({})
  BY FS_EmptySet
<1> QED BY <1>1 DEF IdleJob, Job, Stages, Kind, Listed

\* Files are only added to the lists, and the tasks stay as they are.
LEMMA SameJobs ==
    ASSUME JobInv, UNCHANGED <<job, inCompact>>, order \subseteq order', unord \subseteq unord'
    PROVE  JobInv'
BY DEF JobInv, TypeJob, KindInv, ListedInv, Listed, AcquiredInv, Active

\* CompactDone.
LEMMA DoneFacts ==
    ASSUME JobInv, NEW w \in Jobs, Done(w), job[w].pc # "idle",
           \A v \in Jobs : v # w => Listed(job[v], order', unord')
    PROVE  JobInv'
<1>1. GivesUp(w, IdleJob) /\ job' = [job EXCEPT ![w] = IdleJob]
  BY IdleFacts DEF Done, GivesUp
<1> QED BY <1>1, IdleFacts, JobReplaced

\* Files are taken off the lists that no other task has an interest in.
LEMMA StillListed ==
    ASSUME JobInv, NEW w \in Jobs, NEW f, order' = order \ {f}, unord' = unord \ {f},
           \/ f \in Ordered /\ f \in job[w].in /\ Active(w)
           \/ f \in Unordered /\ w = "merge"
    PROVE  \A v \in Jobs : v # w => Listed(job[v], order', unord')
<1> SUFFICES ASSUME NEW v \in Jobs, v # w PROVE Listed(job[v], order', unord')
  OBVIOUS
<1>0. /\ job[v] \in Job /\ job[w] \in Job /\ Listed(job[v], order, unord) /\ Kind(v, job[v]) /\ AcquiredInv
      /\ {v, w} = {"compact", "merge"}
  BY DEF JobInv, TypeJob, KindInv, ListedInv, Jobs
<1>1. job[v].in \subseteq Ordered /\ job[v].un \subseteq Unordered
  BY <1>0 DEF Job
<1>2. ASSUME job[v].pc \in {"run", "built", "logged"} PROVE f \notin job[v].in
  <2>1. Active(v)
    BY <1>2 DEF Active
  <2>2. Active(w) => job[v].in \cap job[w].in = {}
    BY <1>0, <2>1 DEF AcquiredInv
  <2> QED BY <1>1, <2>2 DEF Ordered, Unordered
<1>3. f \notin job[v].un
  BY <1>0, <1>1 DEF Ordered, Unordered, Kind
<1> QED BY <1>0, <1>2, <1>3 DEF Listed


-----------------------------------------------------------------------------
(* The tasks plan, acquire and write.                                      *)

\* The lists and what is acquired of them.
Unmoved == UNCHANGED <<order, unord, inCompact>>

\* What the other tasks have stays listed when the lists do not shrink.
LEMMA OthersListed ==
    ASSUME JobInv, order \subseteq order', unord \subseteq unord'
    PROVE  \A v \in Jobs : Listed(job[v], order', unord')
BY DEF JobInv, ListedInv, Listed

\* A compaction of a level is planned: its files are only planned for.
LEMMA LevelPlanStep ==
    ASSUME TypeFiles, JobInv, LevelPlan PROVE JobInv'
<1>0. job["compact"].pc = "idle" /\ Unmoved
  BY DEF LevelPlan, Unmoved, listVars
<1>1. PICK G \in Groups(order, Group, "level") :
        job' = [job EXCEPT !["compact"] = [IdleJob EXCEPT !.pc = "plan", !.in = G]]
  BY DEF LevelPlan
<1>2. G \subseteq order /\ G # {}
  BY GroupFacts, TableAssumption
<1>3. G \in SUBSET Ordered /\ IsFiniteSet(G)
  BY <1>2, FS_Subset DEF TypeFiles
<1>4. PICK j : j = [IdleJob EXCEPT !.pc = "plan", !.in = G]
  OBVIOUS
<1>5. j.pc = "plan" /\ j.in = G /\ j.un = {} /\ j.new = {} /\ j.old = {} /\ j.rest = {} /\ j.ord /\ j.mode = "none"
  BY <1>4 DEF IdleJob
<1>6. j \in Job
  BY <1>3, <1>4 DEF IdleJob, Job, Stages
<1>7. Kind("compact", j) /\ Listed(j, order', unord') /\ Keeps("compact", j)
  BY <1>0, <1>2, <1>5 DEF Kind, Listed, Keeps, Unmoved, Active
<1>8. IsFiniteSet(j.in) /\ IsFiniteSet(j.new)
  BY <1>3, <1>5, FS_EmptySet
<1>9. \A v \in Jobs : Listed(job[v], order', unord')
  BY <1>0, OthersListed DEF Unmoved
<1>10. job' = [job EXCEPT !["compact"] = j] /\ "compact" \in Jobs
  BY <1>1, <1>4 DEF Jobs
<1> QED BY <1>6, <1>7, <1>8, <1>9, <1>10, JobReplaced

\* A merge into the ordered files is planned: its unordered files are listed, and
\* stay so, for nobody but a merge takes unordered files away.
LEMMA MergePlanStep ==
    ASSUME TypeFiles, JobInv, MergePlan PROVE JobInv'
<1>0. job["merge"].pc = "idle" /\ Unmoved /\ order # {}
  BY DEF MergePlan, Unmoved, listVars
<1>1. PICK n \in 1 .. Limit :
        job' = [job EXCEPT !["merge"] =
                 [IdleJob EXCEPT !.pc = "plan", !.mode = "normal", !.un = NormalMerge(unord, n),
                                 !.in = MatchOrderFiles(NormalMerge(unord, n))]]
  BY DEF MergePlan
<1>2. PICK U : U = NormalMerge(unord, n)
  OBVIOUS
<1>3. PICK M : M = MatchOrderFiles(U)
  OBVIOUS
<1>4. U \subseteq unord /\ U \in SUBSET Unordered
  BY <1>2 DEF NormalMerge, TypeFiles
<1>5. M \subseteq order
  BY <1>0, <1>3, MatchFacts
<1>6. M \in SUBSET Ordered /\ IsFiniteSet(M)
  BY <1>5, FS_Subset DEF TypeFiles
<1>7. PICK j : j = [IdleJob EXCEPT !.pc = "plan", !.mode = "normal", !.un = U, !.in = M]
  OBVIOUS
<1>8. j.pc = "plan" /\ j.in = M /\ j.un = U /\ j.new = {} /\ j.old = {} /\ j.rest = {} /\ j.ord /\ j.mode = "normal"
  BY <1>7 DEF IdleJob
<1>9. j \in Job
  BY <1>4, <1>6, <1>7 DEF IdleJob, Job, Stages
<1>10. Kind("merge", j) /\ Listed(j, order', unord') /\ Keeps("merge", j)
  BY <1>0, <1>4, <1>8 DEF Kind, Listed, Keeps, Unmoved, Active
<1>11. IsFiniteSet(j.in) /\ IsFiniteSet(j.new)
  BY <1>6, <1>8, FS_EmptySet
<1>12. \A v \in Jobs : Listed(job[v], order', unord')
  BY <1>0, OthersListed DEF Unmoved
<1>13. job' = [job EXCEPT !["merge"] = j] /\ "merge" \in Jobs
  BY <1>1, <1>2, <1>3, <1>7 DEF Jobs
<1> QED BY <1>9, <1>10, <1>11, <1>12, <1>13, JobReplaced

\* A merge of unordered files acquires no ordered one.
LEMMA MergeSelfStep ==
    ASSUME TypeFiles, JobInv, MergeSelf PROVE JobInv'
<1>0. job["merge"].pc = "idle" /\ Unmoved
  BY DEF MergeSelf, Unmoved, listVars
<1>1. PICK G \in Groups(unord, SelfGroup, "merge"), m \in Modes :
        job' = [job EXCEPT !["merge"] = [IdleJob EXCEPT !.pc = "run", !.mode = m, !.un = G, !.ord = FALSE]]
  BY DEF MergeSelf
<1>2. G \subseteq unord /\ G # {}
  BY GroupFacts, TableAssumption
<1>3. G \in SUBSET Unordered /\ m \in {"fast", "stream"}
  BY <1>2, TableAssumption DEF TypeFiles
<1>4. PICK j : j = [IdleJob EXCEPT !.pc = "run", !.mode = m, !.un = G, !.ord = FALSE]
  OBVIOUS
<1>5. j.pc = "run" /\ j.in = {} /\ j.un = G /\ j.new = {} /\ j.old = {} /\ j.rest = {} /\ ~j.ord /\ j.mode = m
  BY <1>4 DEF IdleJob
<1>6. j \in Job
  BY <1>3, <1>4 DEF IdleJob, Job, Stages
<1>7. Kind("merge", j) /\ Listed(j, order', unord') /\ Acquires("merge", j)
  BY <1>0, <1>2, <1>3, <1>5 DEF Kind, Listed, Acquires, Unmoved, Active
<1>8. IsFiniteSet(j.in) /\ IsFiniteSet(j.new)
  BY <1>5, FS_EmptySet
<1>9. \A v \in Jobs : Listed(job[v], order', unord')
  BY <1>0, OthersListed DEF Unmoved
<1>10. job' = [job EXCEPT !["merge"] = j] /\ "merge" \in Jobs
  BY <1>1, <1>4 DEF Jobs
<1> QED BY <1>6, <1>7, <1>8, <1>9, <1>10, JobReplaced

\* A task that takes a step of which only pc changes.
LEMMA PcFacts ==
    ASSUME NEW j \in Job, NEW p \in Stages
    PROVE  LET k == [j EXCEPT !.pc = p] IN
           /\ k \in Job /\ k.pc = p /\ k.in = j.in /\ k.un = j.un /\ k.new = j.new /\ k.old = j.old
           /\ k.rest = j.rest /\ k.ord = j.ord /\ k.mode = j.mode
BY DEF Job

\* The files a plan was made for are taken if they are all free and listed.
LEMMA AcquireStep ==
    ASSUME JobInv, NEW w \in Jobs, Acquire(w) PROVE JobInv'
<1>0. job[w] \in Job /\ job[w].pc = "plan" /\ UNCHANGED <<order, unord>> /\ Kind(w, job[w])
      /\ Listed(job[w], order, unord) /\ IsFiniteSet(job[w].in) /\ IsFiniteSet(job[w].new)
  BY DEF Acquire, JobInv, TypeJob, KindInv, ListedInv, listVars
<1>1. \A v \in Jobs : Listed(job[v], order', unord')
  BY <1>0, OthersListed
<1>2. CASE Acquirable(job[w].in)
  <2>1. job' = [job EXCEPT ![w] = [job[w] EXCEPT !.pc = "run"]] /\ inCompact' = inCompact \cup job[w].in
    BY <1>2 DEF Acquire, JobInv, TypeJob
  <2>2. PICK j : j = [job[w] EXCEPT !.pc = "run"]
    OBVIOUS
  <2>3. j \in Job /\ j.pc = "run" /\ j.in = job[w].in /\ j.un = job[w].un /\ j.new = job[w].new
        /\ j.old = job[w].old /\ j.rest = job[w].rest /\ j.ord = job[w].ord /\ j.mode = job[w].mode
    BY <1>0, <2>2, PcFacts DEF Stages
  <2>4. Kind(w, j) /\ Listed(j, order', unord') /\ Acquires(w, j)
    BY <1>0, <1>2, <2>1, <2>3 DEF Kind, Listed, Acquires, Acquirable, Active
  <2> QED BY <1>0, <1>1, <2>1, <2>2, <2>3, <2>4, JobReplaced
<1>3. CASE ~Acquirable(job[w].in)
  <2>1. job' = [job EXCEPT ![w] = IdleJob] /\ inCompact' = inCompact
    BY <1>3 DEF Acquire
  <2>2. Done(w)
    BY <1>0, <2>1 DEF Done
  <2> QED BY <1>0, <1>1, <2>2, DoneFacts
<1> QED BY <1>2, <1>3

\* A task that stops gives its files up.
LEMMA StoppedStep ==
    ASSUME JobInv, NEW w \in Jobs, Stopped(w) \/ AbortReplace(w) PROVE JobInv'
<1>1. Done(w) /\ job[w].pc # "idle" /\ UNCHANGED <<order, unord>>
  BY DEF Stopped, AbortReplace, ListLocked, listVars
<1> QED BY <1>1, OthersListed, DoneFacts

\* The files Build writes for a task j of w, the files the replacement takes off
\* the list, and the unordered files that are deleted after it.
NewOf(w, j, rows) ==
    CASE w = "compact" -> Compacted(j.in)
      [] j.mode = "normal" -> MergedInto(j.in, rows)
      [] OTHER -> SelfMerged(j.un, rows)
OldOf(j) == CASE j.ord -> j.in [] j.mode = "fast" -> j.un [] OTHER -> {First(j.un)}
RestOf(j) == CASE j.mode = "normal" -> j.un [] j.mode = "stream" -> j.un \ {First(j.un)} [] OTHER -> {}

\* What Build writes for w.
LEMMA NewFacts ==
    ASSUME NEW w \in Jobs, NEW j \in Job, Kind(w, j), IsFiniteSet(j.in), j.pc # "idle", NEW rows \in Rows,
           NEW new, new = NewOf(w, j, rows)
    PROVE  new \subseteq File /\ IsFiniteSet(new) /\ \A f \in new : f.ord = j.ord
<1>0. j.in \in SUBSET Ordered /\ j.un \in SUBSET Unordered /\ j.ord \in BOOLEAN
      /\ j.mode \in {"none", "normal", "fast", "stream"} /\ Ordered \subseteq File /\ Unordered \subseteq File
  BY DEF Job, Ordered, Unordered
<1>1. CASE w = "compact"
  <2>1. new = Compacted(j.in) /\ j.ord /\ j.in # {} /\ j.in \in SUBSET File
    BY <1>0, <1>1 DEF Kind, NewOf
  <2>2. new \subseteq Ordered /\ IsFiniteSet(new)
    BY <2>1, CompactedFacts
  <2> QED BY <1>0, <2>1, <2>2 DEF Ordered
<1>2. CASE w # "compact" /\ j.mode = "normal"
  <2>1. new = MergedInto(j.in, rows) /\ j.ord
    BY <1>2 DEF Kind, NewOf
  <2>2. new \subseteq Ordered /\ IsFiniteSet(new)
    BY <1>0, <2>1, MergedIntoFacts
  <2> QED BY <1>0, <2>1, <2>2 DEF Ordered
<1>3. CASE w # "compact" /\ j.mode # "normal"
  <2>1. new = SelfMerged(j.un, rows) /\ ~j.ord /\ j.un # {}
    BY <1>0, <1>3 DEF Kind, Jobs, NewOf
  <2>2. new \subseteq Unordered /\ IsFiniteSet(new)
    BY <1>0, <2>1, SelfMergedFacts
  <2>3. (\A f \in new : f.ord = FALSE) /\ j.ord = FALSE
    BY <1>0, <2>1, <2>2 DEF Unordered, File
  <2> QED BY <1>0, <2>2, <2>3
<1> QED BY <1>1, <1>2, <1>3

\* What Build leaves to be taken off the lists.
LEMMA OldFacts ==
    ASSUME NEW w \in Jobs, NEW j \in Job, Kind(w, j), j.pc # "idle",
           NEW old, old = OldOf(j), NEW rest, rest = RestOf(j)
    PROVE  /\ old \subseteq File /\ rest \subseteq Unordered /\ (\A f \in old : f.ord = j.ord)
           /\ j.ord => old \subseteq j.in
           /\ w = "compact" => rest = {}
<1>0. j.in \in SUBSET Ordered /\ j.un \in SUBSET Unordered /\ j.ord \in BOOLEAN
      /\ j.mode \in {"none", "normal", "fast", "stream"} /\ Ordered \subseteq File /\ Unordered \subseteq File
  BY DEF Job, Ordered, Unordered
<1>1. CASE j.ord
  <2>2. j.mode \in {"none", "normal"}
    BY <1>0, <1>1 DEF Kind
  <2>1. old = j.in
    BY <1>1, <2>2 DEF OldOf
  <2>3. (j.mode = "none" => rest = {}) /\ (j.mode = "normal" => rest = j.un)
    BY DEF RestOf
  <2>4. w = "compact" => j.mode = "none"
    BY DEF Kind
  <2>5. \A f \in old : f.ord = j.ord
    BY <1>0, <1>1, <2>1 DEF Ordered, File
  <2> QED BY <1>0, <2>1, <2>2, <2>3, <2>4, <2>5
<1>2. CASE ~j.ord
  <2>1. j.mode \in {"fast", "stream"} /\ w # "compact" /\ j.un # {}
    BY <1>0, <1>2 DEF Kind, Jobs
  <2>2. First(j.un) \in j.un
    BY <1>0, <2>1, FirstFacts
  <2>3. (j.mode = "fast" => old = j.un /\ rest = {}) /\ (j.mode = "stream" => old = {First(j.un)} /\ rest = j.un \ {First(j.un)})
    BY <1>2 DEF OldOf, RestOf
  <2>4. old \subseteq j.un /\ rest \subseteq j.un
    BY <2>1, <2>2, <2>3
  <2>5. \A f \in old : f.ord = j.ord
    BY <1>0, <1>2, <2>4 DEF Unordered, File
  <2> QED BY <1>0, <1>2, <2>1, <2>4, <2>5
<1> QED BY <1>1, <1>2

\* The new files are written under a name of their own; the task goes on.
LEMMA BuildStep ==
    ASSUME JobInv, NEW w \in Jobs, Build(w)
    PROVE  /\ JobInv'
           /\ \E new \in SUBSET File : IsFiniteSet(new) /\ init' = init \cup new
<1>0. job[w] \in Job /\ job[w].pc = "run" /\ Unmoved /\ Kind(w, job[w])
      /\ Listed(job[w], order, unord) /\ IsFiniteSet(job[w].in) /\ IsFiniteSet(job[w].new)
  BY DEF Build, JobInv, TypeJob, KindInv, ListedInv, listVars, Unmoved
<1>1. PICK j \in Job : j = job[w]
  BY <1>0
<1>a. \E rows \in Merged(job[w].un, job[w].mode) :
        /\ init' = init \cup NewOf(w, job[w], rows)
        /\ job' = [job EXCEPT ![w] = [job[w] EXCEPT !.pc = "built", !.new = NewOf(w, job[w], rows),
                                              !.old = OldOf(job[w]), !.rest = RestOf(job[w])]]
  BY Zenon DEF Build, NewOf, OldOf, RestOf
<1>2. PICK rows \in Merged(j.un, j.mode) :
        /\ init' = init \cup NewOf(w, j, rows)
        /\ job' = [job EXCEPT ![w] = [j EXCEPT !.pc = "built", !.new = NewOf(w, j, rows),
                                              !.old = OldOf(j), !.rest = RestOf(j)]]
  BY <1>1, <1>a, Zenon
<1>3. PICK new, old, rest :
        /\ new = NewOf(w, j, rows) /\ old = OldOf(j) /\ rest = RestOf(j) /\ init' = init \cup new
        /\ job' = [job EXCEPT ![w] = [j EXCEPT !.pc = "built", !.new = new, !.old = old, !.rest = rest]]
  BY <1>2
<1>4. rows \in Rows
  BY RowFacts
<1>5. Kind(w, j) /\ IsFiniteSet(j.in) /\ j.pc = "run" /\ Listed(j, order, unord)
  BY <1>0, <1>1
<1>6. new \subseteq File /\ IsFiniteSet(new) /\ \A f \in new : f.ord = j.ord
  BY <1>3, <1>4, <1>5, NewFacts
<1>7. /\ old \subseteq File /\ rest \subseteq Unordered /\ (\A f \in old : f.ord = j.ord)
      /\ j.ord => old \subseteq j.in
      /\ w = "compact" => rest = {}
  BY <1>3, <1>5, OldFacts
<1>8. PICK k : k = [j EXCEPT !.pc = "built", !.new = new, !.old = old, !.rest = rest]
  OBVIOUS
<1>9. k.pc = "built" /\ k.in = j.in /\ k.un = j.un /\ k.new = new /\ k.old = old /\ k.rest = rest
      /\ k.ord = j.ord /\ k.mode = j.mode
  BY <1>8 DEF Job
<1>10. k \in Job
  BY <1>6, <1>7, <1>8 DEF Job, Stages
<1>11. Kind(w, k)
  BY <1>5, <1>6, <1>7, <1>9 DEF Kind
<1>12. Listed(k, order', unord') /\ Keeps(w, k)
  BY <1>0, <1>1, <1>5, <1>9 DEF Listed, Keeps, Unmoved, Active
<1>13. \A v \in Jobs : Listed(job[v], order', unord')
  BY <1>0, OthersListed DEF Unmoved
<1>14. job' = [job EXCEPT ![w] = k] /\ IsFiniteSet(k.in) /\ IsFiniteSet(k.new)
  BY <1>3, <1>5, <1>6, <1>8, <1>9
<1>15. JobInv'
  BY <1>10, <1>11, <1>12, <1>13, <1>14, JobReplaced
<1> QED BY <1>3, <1>6, <1>15

\* The log of the replacement is written.
LEMMA InfoStep ==
    ASSUME JobInv, NEW w \in Jobs, WriteCompactedFileInfo(w) PROVE JobInv'
<1>0. job[w] \in Job /\ job[w].pc = "built" /\ Unmoved /\ Kind(w, job[w])
      /\ Listed(job[w], order, unord) /\ IsFiniteSet(job[w].in) /\ IsFiniteSet(job[w].new)
  BY DEF WriteCompactedFileInfo, JobInv, TypeJob, KindInv, ListedInv, listVars, Unmoved
<1>1. job' = [job EXCEPT ![w] = [job[w] EXCEPT !.pc = "logged"]]
  BY DEF WriteCompactedFileInfo, JobInv, TypeJob
<1>2. PICK j : j = [job[w] EXCEPT !.pc = "logged"]
  OBVIOUS
<1>3. j \in Job /\ j.pc = "logged" /\ j.in = job[w].in /\ j.un = job[w].un /\ j.new = job[w].new
      /\ j.old = job[w].old /\ j.rest = job[w].rest /\ j.ord = job[w].ord /\ j.mode = job[w].mode
  BY <1>0, <1>2, PcFacts DEF Stages
<1>4. Kind(w, j) /\ Listed(j, order', unord') /\ Keeps(w, j)
  BY <1>0, <1>3 DEF Kind, Listed, Keeps, Unmoved, Active
<1>5. \A v \in Jobs : Listed(job[v], order', unord')
  BY <1>0, OthersListed DEF Unmoved
<1> QED BY <1>0, <1>1, <1>2, <1>3, <1>4, <1>5, JobReplaced

-----------------------------------------------------------------------------
(* The tasks replace and delete files.                                     *)

\* One old file leaves the list, an input of this task and of no other.
LEMMA DeleteOldStep ==
    ASSUME JobInv, NEW w \in Jobs, DeleteOld(w) PROVE JobInv'
<1>0. job[w] \in Job /\ job[w].pc \in {"logged", "delete"} /\ inCompact' = inCompact /\ Kind(w, job[w])
      /\ IsFiniteSet(job[w].in) /\ IsFiniteSet(job[w].new) /\ job[w].old # {}
  BY DEF DeleteOld, ListLocked, JobInv, TypeJob, KindInv
<1>1. PICK f \in Victims(job[w]) :
        /\ order' = order \ {f} /\ unord' = unord \ {f}
        /\ job' = [job EXCEPT ![w] = [job[w] EXCEPT !.pc = "delete", !.old = @ \ {f}]]
  BY DEF DeleteOld, JobInv, TypeJob
<1>2. job[w].old \in SUBSET File
  BY <1>0 DEF Job
<1>3. f \in job[w].old
  BY <1>0, <1>2, FirstFacts DEF Victims
<1>4. \/ f \in Ordered /\ f \in job[w].in /\ Active(w)
      \/ f \in Unordered /\ w = "merge"
  <2>1. f \in File /\ f.ord = job[w].ord
    BY <1>0, <1>2, <1>3 DEF Kind
  <2>2. CASE job[w].ord
    BY <1>0, <1>3, <2>1, <2>2 DEF Kind, Ordered, Active
  <2>3. CASE ~job[w].ord
    BY <1>0, <2>1, <2>3 DEF Kind, Unordered, Jobs
  <2> QED BY <2>2, <2>3
<1>5. PICK j : j = [job[w] EXCEPT !.pc = "delete", !.old = @ \ {f}]
  OBVIOUS
<1>6. j.pc = "delete" /\ j.in = job[w].in /\ j.un = job[w].un /\ j.new = job[w].new
      /\ j.old = job[w].old \ {f} /\ j.rest = job[w].rest /\ j.ord = job[w].ord /\ j.mode = job[w].mode
  BY <1>0, <1>5 DEF Job
<1>7. j \in Job
  BY <1>0, <1>2, <1>5 DEF Job, Stages
<1>8. Kind(w, j)
  BY <1>0, <1>6 DEF Kind
<1>9. Listed(j, order', unord') /\ Keeps(w, j)
  BY <1>0, <1>6 DEF Listed, Keeps, Active
<1>10. \A v \in Jobs : v # w => Listed(job[v], order', unord')
  BY <1>1, <1>4, StillListed
<1> QED BY <1>0, <1>1, <1>5, <1>6, <1>7, <1>8, <1>9, <1>10, JobReplaced

\* The new files are listed, and the task is over unless unordered files are left.
LEMMA AddNewStep ==
    ASSUME JobInv, NEW w \in Jobs, AddNew(w) PROVE JobInv'
<1>0. job[w] \in Job /\ job[w].pc = "delete" /\ Kind(w, job[w]) /\ IsFiniteSet(job[w].in) /\ IsFiniteSet(job[w].new)
      /\ order \subseteq order' /\ unord \subseteq unord'
  BY DEF AddNew, JobInv, TypeJob, KindInv
<1>1. \A v \in Jobs : Listed(job[v], order', unord')
  BY <1>0, OthersListed
<1>2. CASE job[w].rest = {}
  <2>1. Done(w)
    BY <1>2 DEF AddNew
  <2> QED BY <1>0, <1>1, <2>1, DoneFacts
<1>3. CASE job[w].rest # {}
  <2>1. job' = [job EXCEPT ![w] = [job[w] EXCEPT !.pc = "rest"]] /\ inCompact' = inCompact
    BY <1>3 DEF AddNew, JobInv, TypeJob
  <2>2. PICK j : j = [job[w] EXCEPT !.pc = "rest"]
    OBVIOUS
  <2>3. j \in Job /\ j.pc = "rest" /\ j.in = job[w].in /\ j.un = job[w].un /\ j.new = job[w].new
        /\ j.old = job[w].old /\ j.rest = job[w].rest /\ j.ord = job[w].ord /\ j.mode = job[w].mode
    BY <1>0, <2>2, PcFacts DEF Stages
  <2>4. Kind(w, j) /\ Listed(j, order', unord') /\ Keeps(w, j)
    BY <1>0, <1>3, <2>1, <2>3 DEF Kind, Listed, Keeps, Active
  <2> QED BY <1>0, <1>1, <2>1, <2>2, <2>3, <2>4, JobReplaced
<1> QED BY <1>2, <1>3

\* One unordered file leaves its list: no compaction has an interest in it.
LEMMA DeleteUnorderedStep ==
    ASSUME TypeFiles, JobInv, DeleteUnordered PROVE JobInv'
<1>0. job["merge"] \in Job /\ job["merge"].pc \in {"rest", "drop"} /\ Kind("merge", job["merge"]) /\ IsFiniteSet(job["merge"].in)
      /\ IsFiniteSet(job["merge"].new) /\ job["merge"].rest \in SUBSET Unordered /\ order' = order /\ "merge" \in Jobs
  BY DEF DeleteUnordered, JobInv, TypeJob, KindInv, Jobs, Job
<1>1. job["merge"].rest # {}
  BY <1>0 DEF Kind
<1>2. PICK f : f = First(job["merge"].rest)
  OBVIOUS
<1>3. f \in job["merge"].rest /\ f \in Unordered
  BY <1>0, <1>1, <1>2, FirstFacts DEF Unordered
<1>4. unord' = unord \ {f} /\ order' = order \ {f}
  BY <1>0, <1>2, <1>3 DEF DeleteUnordered, NextRest, TypeFiles, Ordered, Unordered
<1>5. \A v \in Jobs : v # "merge" => Listed(job[v], order', unord')
  BY <1>0, <1>3, <1>4, StillListed
<1>6. CASE job["merge"].rest # {f}
  <2>1. job' = [job EXCEPT !["merge"] = [job["merge"] EXCEPT !.pc = "drop", !.rest = @ \ {f}]] /\ inCompact' = inCompact
    BY <1>2, <1>6 DEF DeleteUnordered, NextRest, JobInv, TypeJob
  <2>2. PICK j : j = [job["merge"] EXCEPT !.pc = "drop", !.rest = @ \ {f}]
    OBVIOUS
  <2>3. j.pc = "drop" /\ j.in = job["merge"].in /\ j.un = job["merge"].un /\ j.new = job["merge"].new
        /\ j.old = job["merge"].old /\ j.rest = job["merge"].rest \ {f} /\ j.ord = job["merge"].ord
        /\ j.mode = job["merge"].mode
    BY <1>0, <2>2 DEF Job
  <2>4. j \in Job
    BY <1>0, <2>2 DEF Job, Stages
  <2>5. j.rest # {}
    BY <1>3, <1>6, <2>3
  <2>6. Kind("merge", j) /\ Listed(j, order', unord') /\ Keeps("merge", j)
    BY <1>0, <2>1, <2>3, <2>5 DEF Kind, Listed, Keeps, Active
  <2> QED BY <1>0, <1>5, <2>1, <2>2, <2>3, <2>4, <2>6, JobReplaced
<1>7. CASE job["merge"].rest = {f} /\ unord # {f}
  <2>1. Done("merge")
    BY <1>2, <1>7 DEF DeleteUnordered, NextRest
  <2> QED BY <1>0, <1>5, <2>1, DoneFacts
<1>8. CASE job["merge"].rest = {f} /\ unord = {f}
  <2>1. job' = [job EXCEPT !["merge"] = [job["merge"] EXCEPT !.pc = "entry", !.rest = {}]] /\ inCompact' = inCompact
    BY <1>2, <1>8 DEF DeleteUnordered, NextRest, JobInv, TypeJob
  <2>2. PICK j : j = [job["merge"] EXCEPT !.pc = "entry", !.rest = {}]
    OBVIOUS
  <2>3. j.pc = "entry" /\ j.in = job["merge"].in /\ j.un = job["merge"].un /\ j.new = job["merge"].new
        /\ j.old = job["merge"].old /\ j.rest = {} /\ j.ord = job["merge"].ord /\ j.mode = job["merge"].mode
    BY <1>0, <2>2 DEF Job
  <2>4. j \in Job
    BY <1>0, <2>2 DEF Job, Stages
  <2>5. Kind("merge", j) /\ Listed(j, order', unord') /\ Keeps("merge", j)
    BY <1>0, <2>1, <2>3 DEF Kind, Listed, Keeps, Active
  <2> QED BY <1>0, <1>5, <2>1, <2>2, <2>3, <2>4, <2>5, JobReplaced
<1> QED BY <1>6, <1>7, <1>8

\* The list of the unordered files is forgotten: the merge is over.
LEMMA DeleteEntryStep ==
    ASSUME JobInv, DeleteEntry PROVE JobInv'
<1>1. Done("merge") /\ job["merge"].pc # "idle" /\ UNCHANGED <<order, unord>> /\ "merge" \in Jobs
  BY DEF DeleteEntry, Jobs
<1> QED BY <1>1, OthersListed, DoneFacts

\* After a crash or an orderly close no task is left.
LEMMA IdleInv ==
    ASSUME job = [w \in Jobs |-> IdleJob], inCompact = {} PROVE JobInv
<1>1. job \in [Jobs -> Job] /\ \A w \in Jobs : job[w] = IdleJob
  BY IdleFacts
<1>2. TypeJob /\ KindInv /\ ListedInv
  BY <1>1, IdleFacts DEF TypeJob, KindInv, ListedInv
<1>3. \A w \in Jobs : ~Active(w)
  BY <1>1, IdleFacts DEF Active
<1>4. {v \in Jobs : Active(v)} = {}
  BY <1>3
<1>5. UNION {job[w].in : w \in {v \in Jobs : Active(v)}} = {}
  BY <1>4
<1>6. AcquiredInv
  BY <1>3, <1>5 DEF AcquiredInv, Jobs
<1> QED BY <1>2, <1>6 DEF JobInv

\* A store that is reset has no task.
LEMMA ResetStep ==
    ASSUME Reset PROVE JobInv'
<1>1. job' = [w \in Jobs |-> IdleJob] /\ inCompact' = {}
  BY DEF Reset
<1>2. (job = [w \in Jobs |-> IdleJob] /\ inCompact = {} => JobInv)'
  BY IdleInv, PTL
<1>3. ([w \in Jobs |-> IdleJob])' = [w \in Jobs |-> IdleJob]
  OBVIOUS
<1> QED BY <1>1, <1>2, <1>3

\* Every step keeps account of the tasks.
LEMMA JobStep ==
    ASSUME TypeFiles, JobInv, NoJob, [Next]_vars PROVE JobInv'
<1>1. ASSUME UNCHANGED <<job, inCompact>>, order \subseteq order', unord \subseteq unord' PROVE JobInv'
  BY <1>1, SameJobs
<1>2. CASE \/ LoadOrder \/ LoadUnord \/ TurnCold \/ FreeSequencer
           \/ (\E t \in Time : Write(t))
           \/ FlushChunks \/ MakeTSSPFiles \/ AddBothTSSPFiles \/ DropSnapshot
           \/ (\E o \in BOOLEAN : FinishFile(o))
           \/ (\E r \in Reader : GetBothFilesRef(r) \/ Unref(r))
           \/ GC
           \/ CloseBegin \/ StopNil \/ Open
           \/ (\E l \in log : ProcessLog(l))
           \/ (\E w \in Jobs : \E f \in job[w].new : RenameTmpFile(w, f))
           \/ UNCHANGED vars
  <2>1. UNCHANGED <<job, inCompact>> /\ order \subseteq order' /\ unord \subseteq unord'
    BY <1>2 DEF LoadOrder, LoadUnord, TurnCold, FreeSequencer, Write, FlushChunks, MakeTSSPFiles,
                AddBothTSSPFiles, DropSnapshot, FinishFile, GetBothFilesRef, Unref, GC, CloseBegin,
                StopNil, Open, ProcessLog, RenameTmpFile, vars, listVars
  <2> QED BY <1>1, <2>1
<1>3. CASE LevelPlan \/ MergePlan \/ MergeSelf \/ DeleteUnordered \/ DeleteEntry
  BY <1>3, LevelPlanStep, MergePlanStep, MergeSelfStep, DeleteUnorderedStep, DeleteEntryStep
<1>4. CASE \E w \in Jobs : \/ Acquire(w) \/ Stopped(w) \/ Build(w) \/ WriteCompactedFileInfo(w)
                           \/ DeleteOld(w) \/ AbortReplace(w) \/ AddNew(w)
  BY <1>4, AcquireStep, StoppedStep, BuildStep, InfoStep, DeleteOldStep, AddNewStep
<1>5. CASE CloseStore \/ Crash
  BY <1>5, ResetStep DEF CloseStore, Crash
<1>6. CASE Load
  <2>1. (\A w \in Jobs : job[w] = IdleJob) /\ UNCHANGED <<job, inCompact>>
    BY <1>6 DEF Load, NoJob
  <2>2. TypeJob' /\ KindInv' /\ AcquiredInv'
    BY <2>1 DEF JobInv, TypeJob, KindInv, AcquiredInv, Active
  <2>3. ListedInv'
    BY <2>1, IdleFacts DEF ListedInv
  <2> QED BY <2>2, <2>3 DEF JobInv
<1> QED BY <1>2, <1>3, <1>4, <1>5, <1>6 DEF Next

\* While the store is closed or recovers there is no task.
LEMMA NoJobStep ==
    ASSUME TypeJob, NoJob, [Next]_vars PROVE NoJob'
<1>1. CASE CloseStore \/ Crash
  BY <1>1 DEF CloseStore, Crash, Reset, NoJob
<1>2. CASE \/ LevelPlan \/ MergePlan \/ MergeSelf \/ DeleteUnordered \/ DeleteEntry
           \/ (\E w \in Jobs : \/ Acquire(w) \/ Stopped(w) \/ Build(w) \/ WriteCompactedFileInfo(w)
                               \/ DeleteOld(w) \/ AbortReplace(w) \/ AddNew(w))
  <2>1. st' = st
    BY <1>2 DEF LevelPlan, MergePlan, MergeSelf, DeleteUnordered, DeleteEntry, Acquire, Stopped, Build,
                WriteCompactedFileInfo, DeleteOld, AbortReplace, AddNew
  <2>2. \/ st = "open"
        \/ \E w \in Jobs : job[w].pc # "idle"
    BY <1>2 DEF LevelPlan, MergePlan, MergeSelf, DeleteUnordered, DeleteEntry, Acquire, Stopped, Build,
                WriteCompactedFileInfo, DeleteOld, AbortReplace, AddNew, ListLocked, Jobs
  <2> QED BY <2>1, <2>2, IdleFacts DEF NoJob
<1>3. CASE Load \/ CloseBegin \/ StopNil
  BY <1>3 DEF Load, CloseBegin, StopNil, NoJob
<1>4. CASE \/ LoadOrder \/ LoadUnord \/ TurnCold \/ FreeSequencer
           \/ (\E t \in Time : Write(t))
           \/ FlushChunks \/ MakeTSSPFiles \/ AddBothTSSPFiles \/ DropSnapshot
           \/ (\E o \in BOOLEAN : FinishFile(o))
           \/ (\E r \in Reader : GetBothFilesRef(r) \/ Unref(r))
           \/ GC
           \/ (\E l \in log : ProcessLog(l))
           \/ (\E w \in Jobs : \E f \in job[w].new : RenameTmpFile(w, f))
           \/ UNCHANGED vars
  <2>1. UNCHANGED <<job, st>>
    BY <1>4 DEF LoadOrder, LoadUnord, TurnCold, FreeSequencer, Write, FlushChunks, MakeTSSPFiles,
                AddBothTSSPFiles, DropSnapshot, FinishFile, GetBothFilesRef, Unref, GC,
                ProcessLog, RenameTmpFile, vars
  <2> QED BY <2>1 DEF NoJob
<1>5. CASE Open
  BY <1>5 DEF Open, NoJob
<1> QED BY <1>1, <1>2, <1>3, <1>4, <1>5 DEF Next

-----------------------------------------------------------------------------
(* Types.                                                                  *)

\* The highest sequence of the loaded files.
LEMMA MaxSeqFacts ==
    ASSUME tssp \subseteq File, IsFiniteSet(tssp) PROVE MaxSeq \in Nat
<1> DEFINE Q == {f.seq : f \in tssp}
           h == [f \in tssp |-> f.seq]
<1>1. Q \in SUBSET Nat
  BY DEF File
<1>2. h \in Surjection(tssp, Q)
  BY DEF Surjection
<1>3. IsFiniteSet(Q)
  BY <1>2, FS_Surjection
<1>4. IsFiniteSet(Q \cup {0})
  BY <1>3, FS_AddElement
<1>5. PICK R : R = Q \cup {0}
  OBVIOUS
<1>6. R \in SUBSET Int /\ R # {} /\ R \in SUBSET Nat
  BY <1>1, <1>5
<1>7. Max(R) \in R
  BY <1>4, <1>5, <1>6, MaxFacts
<1> QED BY <1>5, <1>6, <1>7 DEF MaxSeq

\* The flush that is over.
LEMMA IdleFlushFacts ==
    IdleFlush \in FlushJob /\ IsFiniteSet(IdleFlush.files)
<1>1. IsFiniteSet({}) /\ Empty \in Rows
  BY FS_EmptySet, RowFacts
<1> QED BY <1>1 DEF IdleFlush, FlushJob

\* The file a flush finishes.
LEMMA FinishedFacts ==
    ASSUME TypeFiles, TypeFlush, NEW o \in BOOLEAN
    PROVE  [seq |-> fileSeq + 1, level |-> 0, merge |-> 0, ord |-> o, rows |-> fl.rows[o]] \in File
<1>1. fl.rows[o] \in Rows /\ fileSeq + 1 \in Nat
  BY DEF TypeFlush, TypeFiles, FlushJob
<1> QED BY <1>1 DEF File

\* A write, and the snapshot and the files it becomes, are rows and files.
LEMMA TypeFlushStep ==
    ASSUME TypeFiles, TypeFlush, [Next]_vars PROVE TypeFlush'
<1>1. ASSUME NEW t \in Time, Write(t) PROVE TypeFlush'
  <2>1. PICK L : L = {latest[u] : u \in Time}
    OBVIOUS
  <2>2. L \in SUBSET (0 .. MaxWrite) /\ L # {}
    BY <2>1, TableAssumption DEF TypeFlush, Rows
  <2>3. Max(L) \in 0 .. MaxWrite
    BY <2>2, MaxRow
  <2>4. PICK v : v = 1 + Max(L)
    OBVIOUS
  <2>5. v \in 0 .. MaxWrite /\ mem' = [mem EXCEPT ![t] = v] /\ latest' = [latest EXCEPT ![t] = v]
        /\ snap' = snap /\ fl' = fl
    BY <1>1, <2>1, <2>3, <2>4, TableAssumption DEF Write
  <2>6. mem' \in Rows /\ latest' \in Rows
    BY <2>5 DEF TypeFlush, Rows
  <2> QED BY <2>5, <2>6 DEF TypeFlush
<1>2. ASSUME FlushChunks PROVE TypeFlush'
  <2>1. PICK r : r = [o \in BOOLEAN |-> Only(mem, IF o THEN InOrder ELSE Time \ InOrder)]
    OBVIOUS
  <2>2. PICK b \in BOOLEAN : b = (order # {})
    OBVIOUS
  <2>3. r \in [BOOLEAN -> Rows]
    BY <2>1, RowFacts DEF TypeFlush
  <2>4. PICK k : k = [IdleFlush EXCEPT !.pc = "build", !.ref = b, !.rows = r]
    OBVIOUS
  <2>5. k \in FlushJob /\ k.files = {}
    BY <2>3, <2>4, IdleFlushFacts DEF FlushJob, IdleFlush
  <2>6. fl' = k /\ snap' = mem /\ mem' = Empty /\ latest' = latest
    BY <1>2, <2>1, <2>2, <2>4 DEF FlushChunks, auxVars
  <2> QED BY <2>5, <2>6, RowFacts, FS_EmptySet DEF TypeFlush
<1>3. ASSUME NEW o \in BOOLEAN, FinishFile(o) PROVE TypeFlush'
  <2>1. PICK f \in File : f = [seq |-> fileSeq + 1, level |-> 0, merge |-> 0, ord |-> o, rows |-> fl.rows[o]]
    BY FinishedFacts
  <2>2. fl' = [fl EXCEPT !.rows[o] = Empty, !.files = @ \cup {f}] /\ UNCHANGED <<mem, snap, latest>>
    BY <1>3, <2>1 DEF FinishFile, auxVars
  <2>3. fl \in FlushJob /\ IsFiniteSet(fl.files) /\ Empty \in Rows
    BY RowFacts DEF TypeFlush
  <2>4. fl' \in FlushJob /\ fl'.files = fl.files \cup {f}
    BY <2>2, <2>3 DEF FlushJob
  <2>5. IsFiniteSet(fl.files \cup {f})
    BY <2>3, FS_AddElement
  <2> QED BY <2>2, <2>4, <2>5 DEF TypeFlush
<1>4. ASSUME Reset PROVE TypeFlush'
  <2>1. mem' = Over(mem, snap) /\ snap' = Empty /\ fl' = IdleFlush /\ latest' = latest
    BY <1>4 DEF Reset
  <2> QED BY <2>1, RowFacts, IdleFlushFacts DEF TypeFlush
<1>5. ASSUME DropSnapshot PROVE TypeFlush'
  <2>1. mem' = mem /\ snap' = Empty /\ fl' = IdleFlush /\ latest' = latest
    BY <1>5 DEF DropSnapshot, auxVars
  <2> QED BY <2>1, RowFacts, IdleFlushFacts DEF TypeFlush
<1>6. ASSUME MakeTSSPFiles \/ AddBothTSSPFiles \/ DeleteEntry PROVE TypeFlush'
  <2>1. UNCHANGED <<mem, snap, latest>>
    BY <1>6 DEF MakeTSSPFiles, AddBothTSSPFiles, DeleteEntry, auxVars
  <2>2. fl' \in FlushJob /\ fl'.files = fl.files
    BY <1>6 DEF MakeTSSPFiles, AddBothTSSPFiles, DeleteEntry, TypeFlush, FlushJob
  <2> QED BY <2>1, <2>2 DEF TypeFlush
<1>7. ASSUME UNCHANGED <<mem, snap, latest, fl>> PROVE TypeFlush'
  BY <1>7 DEF TypeFlush
<1>8. CASE \/ LoadOrder \/ LoadUnord \/ TurnCold \/ FreeSequencer \/ GC
           \/ (\E r \in Reader : GetBothFilesRef(r) \/ Unref(r))
           \/ LevelPlan \/ MergePlan \/ MergeSelf \/ DeleteUnordered
           \/ (\E w \in Jobs : \/ Acquire(w) \/ Stopped(w) \/ Build(w) \/ WriteCompactedFileInfo(w)
                               \/ (\E f \in job[w].new : RenameTmpFile(w, f))
                               \/ DeleteOld(w) \/ AbortReplace(w) \/ AddNew(w))
           \/ CloseBegin \/ StopNil \/ Open \/ Load
           \/ (\E l \in log : ProcessLog(l))
           \/ UNCHANGED vars
  <2>1. UNCHANGED <<mem, snap, latest, fl>>
    BY <1>8 DEF LoadOrder, LoadUnord, TurnCold, FreeSequencer, GC, GetBothFilesRef, Unref, LevelPlan, MergePlan,
                MergeSelf, DeleteUnordered, Acquire, Stopped, Build, WriteCompactedFileInfo, RenameTmpFile,
                DeleteOld, AbortReplace, AddNew, CloseBegin, StopNil, Open, Load, ProcessLog, vars, memVars, auxVars
  <2> QED BY <1>7, <2>1
<1> QED BY <1>1, <1>2, <1>3, <1>4, <1>5, <1>6, <1>8 DEF Next, CloseStore, Crash

\* A file that is removed, in use or not.
LEMMA RemoveFacts ==
    ASSUME NEW f, RemoveFile(f), f \in File, tssp \subseteq File, init \subseteq File, IsFiniteSet(tssp), IsFiniteSet(init)
    PROVE  tssp' \subseteq File /\ init' \subseteq File /\ IsFiniteSet(tssp') /\ IsFiniteSet(init')
<1>1. IsFiniteSet(tssp \ {f}) /\ IsFiniteSet(init \cup {f})
  BY FS_Subset, FS_AddElement
<1> QED BY <1>1 DEF RemoveFile

\* The files on disk and in the lists are files, finitely many.
LEMMA TypeFilesStep ==
    ASSUME TypeFiles, TypeFlush, JobInv, [Next]_vars PROVE TypeFiles'
<1>0. /\ tssp \subseteq File /\ init \subseteq File /\ IsFiniteSet(tssp) /\ IsFiniteSet(init)
      /\ order \subseteq Ordered /\ IsFiniteSet(order) /\ unord \subseteq Unordered /\ fileSeq \in Nat
      /\ fl.files \subseteq File /\ IsFiniteSet(fl.files)
      /\ Ordered = {f \in File : f.ord} /\ Unordered = {f \in File : ~f.ord}
  BY DEF TypeFiles, TypeFlush, FlushJob, Ordered, Unordered
<1>1. ASSUME UNCHANGED <<tssp, init, order, unord, fileSeq>> PROVE TypeFiles'
  BY <1>1 DEF TypeFiles
<1>2. ASSUME NEW o \in BOOLEAN, FinishFile(o) PROVE TypeFiles'
  <2>1. PICK f \in File : f = [seq |-> fileSeq + 1, level |-> 0, merge |-> 0, ord |-> o, rows |-> fl.rows[o]]
    BY FinishedFacts
  <2>2. tssp' = tssp \cup {f} /\ UNCHANGED <<init, order, unord>> /\ fileSeq' = fileSeq + 1
    BY <1>2, <2>1 DEF FinishFile, listVars
  <2>3. IsFiniteSet(tssp \cup {f})
    BY <1>0, FS_AddElement
  <2> QED BY <1>0, <2>2, <2>3 DEF TypeFiles
<1>3. ASSUME AddBothTSSPFiles PROVE TypeFiles'
  <2>1. PICK un : un = {f \in fl.files : ~f.ord}
    OBVIOUS
  <2>2. order' = order \cup (fl.files \ un) /\ unord' \subseteq unord \cup un /\ UNCHANGED <<tssp, init, fileSeq>>
    BY <1>3, <2>1 DEF AddBothTSSPFiles, diskVars
  <2>3. fl.files \ un \subseteq Ordered /\ un \subseteq Unordered
    BY <1>0, <2>1
  <2>4. IsFiniteSet(fl.files \ un)
    BY <1>0, FS_Subset
  <2>5. IsFiniteSet(order \cup (fl.files \ un))
    BY <1>0, <2>4, FS_Union
  <2> QED BY <1>0, <2>2, <2>3, <2>5 DEF TypeFiles
<1>4. ASSUME GC PROVE TypeFiles'
  <2>1. init' \subseteq init /\ UNCHANGED <<tssp, order, unord, fileSeq>>
    BY <1>4 DEF GC, listVars
  <2> QED BY <1>0, <2>1, FS_Subset DEF TypeFiles
<1>5. ASSUME NEW w \in Jobs, Build(w) PROVE TypeFiles'
  <2>1. PICK new \in SUBSET File : IsFiniteSet(new) /\ init' = init \cup new
    BY <1>5, BuildStep
  <2>2. UNCHANGED <<tssp, order, unord, fileSeq>>
    BY <1>5 DEF Build, listVars
  <2>3. IsFiniteSet(init \cup new)
    BY <1>0, <2>1, FS_Union
  <2> QED BY <1>0, <2>1, <2>2, <2>3 DEF TypeFiles
<1>6. ASSUME NEW w \in Jobs, NEW f \in job[w].new, RenameTmpFile(w, f) PROVE TypeFiles'
  <2>1. f \in init /\ init' = init \ {f} /\ tssp' = tssp \cup {f} /\ UNCHANGED <<order, unord, fileSeq>>
    BY <1>6 DEF RenameTmpFile, listVars
  <2>2. IsFiniteSet(init \ {f}) /\ IsFiniteSet(tssp \cup {f})
    BY <1>0, FS_Subset, FS_AddElement
  <2> QED BY <1>0, <2>1, <2>2 DEF TypeFiles
<1>7. ASSUME NEW f \in File, RemoveFile(f), order' \subseteq order, unord' \subseteq unord, fileSeq' = fileSeq PROVE TypeFiles'
  <2>1. tssp' \subseteq File /\ init' \subseteq File /\ IsFiniteSet(tssp') /\ IsFiniteSet(init')
    BY <1>0, <1>7, RemoveFacts
  <2>2. IsFiniteSet(order')
    BY <1>0, <1>7, FS_Subset
  <2> QED BY <1>0, <1>7, <2>1, <2>2 DEF TypeFiles
<1>8. ASSUME NEW w \in Jobs, DeleteOld(w) PROVE TypeFiles'
  <2>1. job[w] \in Job /\ job[w].old # {}
    BY <1>8 DEF DeleteOld, JobInv, TypeJob
  <2>2. job[w].old \in SUBSET File
    BY <2>1 DEF Job
  <2>3. PICK f \in Victims(job[w]) : RemoveFile(f) /\ order' = order \ {f} /\ unord' = unord \ {f}
    BY <1>8 DEF DeleteOld
  <2>4. f \in File
    BY <2>1, <2>2, <2>3, FirstFacts DEF Victims
  <2>5. fileSeq' = fileSeq
    BY <1>8 DEF DeleteOld
  <2> QED BY <1>7, <2>3, <2>4, <2>5
<1>9. ASSUME NEW w \in Jobs, AddNew(w) PROVE TypeFiles'
  <2>1. job[w] \in Job /\ Kind(w, job[w]) /\ IsFiniteSet(job[w].new) /\ UNCHANGED <<tssp, init, fileSeq>>
    BY <1>9 DEF AddNew, JobInv, TypeJob, KindInv
  <2>2. job[w].new \subseteq File /\ \A f \in job[w].new : f.ord = job[w].ord
    BY <2>1 DEF Job, Kind
  <2>3. order' = (IF job[w].ord THEN order \cup job[w].new ELSE order)
        /\ unord' = IF job[w].ord THEN unord ELSE unord \cup job[w].new
    BY <1>9 DEF AddNew
  <2>4. IsFiniteSet(order \cup job[w].new)
    BY <1>0, <2>1, FS_Union
  <2> QED BY <1>0, <2>1, <2>2, <2>3, <2>4 DEF TypeFiles
<1>10. ASSUME DeleteUnordered PROVE TypeFiles'
  <2>1. PICK f : f = First(job["merge"].rest)
    OBVIOUS
  <2>2. job["merge"] \in Job /\ Kind("merge", job["merge"]) /\ job["merge"].pc \in {"rest", "drop"}
    BY <1>10 DEF DeleteUnordered, JobInv, TypeJob, KindInv, Jobs
  <2>3. job["merge"].rest # {} /\ job["merge"].rest \in SUBSET File
    BY <2>2 DEF Kind, Job, Unordered
  <2>4. f \in File
    BY <2>1, <2>3, FirstFacts
  <2>5. RemoveFile(f) /\ unord' = unord \ {f} /\ UNCHANGED <<order, fileSeq>>
    BY <1>10, <2>1 DEF DeleteUnordered, NextRest
  <2> QED BY <1>7, <2>4, <2>5
<1>11. ASSUME Reset PROVE TypeFiles'
  <2>1. order' = {} /\ unord' = {} /\ fileSeq' = 0 /\ UNCHANGED <<tssp, init>>
    BY <1>11 DEF Reset, diskVars
  <2> QED BY <1>0, <2>1, FS_EmptySet DEF TypeFiles
<1>12. ASSUME NEW l \in log, ProcessLog(l) PROVE TypeFiles'
  <2>1. UNCHANGED <<order, unord, fileSeq>>
    BY <1>12 DEF ProcessLog, listVars
  <2>2. CASE \E f \in ToRename(l) : tssp' = tssp \cup {f} /\ init' = init \ {f}
    <3>1. PICK f \in ToRename(l) : tssp' = tssp \cup {f} /\ init' = init \ {f}
      BY <2>2
    <3>2. f \in init
      BY <3>1 DEF ToRename
    <3>3. IsFiniteSet(init \ {f}) /\ IsFiniteSet(tssp \cup {f})
      BY <1>0, FS_Subset, FS_AddElement
    <3> QED BY <1>0, <2>1, <3>1, <3>2, <3>3 DEF TypeFiles
  <2>3. CASE tssp' \subseteq tssp /\ init' = init
    BY <1>0, <2>1, <2>3, FS_Subset DEF TypeFiles
  <2>4. \/ \E f \in ToRename(l) : tssp' = tssp \cup {f} /\ init' = init \ {f}
        \/ tssp' \subseteq tssp /\ init' = init
    BY <1>12 DEF ProcessLog
  <2> QED BY <2>2, <2>3, <2>4
<1>13. ASSUME Load PROVE TypeFiles'
  <2>1. init' = {} /\ fileSeq' = MaxSeq /\ order' = {f \in tssp : f.ord} /\ unord' = {f \in tssp : ~f.ord} /\ tssp' = tssp
    BY <1>13 DEF Load
  <2>2. MaxSeq \in Nat
    BY <1>0, MaxSeqFacts
  <2>3. IsFiniteSet(order')
    BY <1>0, <2>1, FS_Subset
  <2> QED BY <1>0, <2>1, <2>2, <2>3, FS_EmptySet DEF TypeFiles
<1>14. CASE \/ LoadOrder \/ LoadUnord \/ TurnCold \/ FreeSequencer
            \/ (\E t \in Time : Write(t))
            \/ FlushChunks \/ MakeTSSPFiles \/ DropSnapshot
            \/ (\E r \in Reader : GetBothFilesRef(r) \/ Unref(r))
            \/ LevelPlan \/ MergePlan \/ MergeSelf \/ DeleteEntry
            \/ (\E w \in Jobs : Acquire(w) \/ Stopped(w) \/ WriteCompactedFileInfo(w) \/ AbortReplace(w))
            \/ CloseBegin \/ StopNil \/ Open
            \/ UNCHANGED vars
  <2>1. UNCHANGED <<tssp, init, order, unord, fileSeq>>
    BY <1>14 DEF LoadOrder, LoadUnord, TurnCold, FreeSequencer, Write, FlushChunks, MakeTSSPFiles, DropSnapshot,
                 GetBothFilesRef, Unref, LevelPlan, MergePlan, MergeSelf, DeleteEntry, Acquire, Stopped,
                 WriteCompactedFileInfo, AbortReplace, CloseBegin, StopNil, Open, vars, diskVars, listVars
  <2> QED BY <1>1, <2>1
<1> QED BY <1>2, <1>3, <1>4, <1>5, <1>6, <1>8, <1>9, <1>10, <1>11, <1>12, <1>13, <1>14 DEF Next, CloseStore, Crash

-----------------------------------------------------------------------------
(* The invariant holds.                                                    *)

\* Initially nothing is written and nobody is busy.
LEMMA InitInv ==
    Init => Inv
<1> SUFFICES ASSUME Init PROVE Inv
  OBVIOUS
<1>1. TypeFiles
  BY FS_EmptySet DEF Init, TypeFiles
<1>2. TypeFlush
  BY RowFacts, IdleFlushFacts DEF Init, TypeFlush
<1>3. JobInv
  BY IdleInv DEF Init
<1>4. NoJob
  BY DEF Init, NoJob
<1> QED BY <1>1, <1>2, <1>3, <1>4 DEF Inv, TypeInv, JobInv

\* Every step preserves it.
LEMMA Inductive ==
    Inv /\ [Next]_vars => Inv'
<1> SUFFICES ASSUME Inv, [Next]_vars PROVE Inv'
  OBVIOUS
<1>1. TypeFiles /\ TypeFlush /\ JobInv /\ NoJob
  BY DEF Inv, TypeInv, JobInv
<1>2. TypeFiles' /\ TypeFlush' /\ JobInv'
  BY <1>1, TypeFilesStep, TypeFlushStep, JobStep
<1>3. NoJob'
  BY <1>1, NoJobStep DEF JobInv
<1> QED BY <1>2, <1>3 DEF Inv, TypeInv, JobInv

\* No task takes an input of another away between its acquire and its
\* ReplaceFiles, whatever was planned from a stale list, however many files a
\* group takes and wherever the store crashes: acquire and CompactDone alone keep
\* the ordered files of the two tasks apart, and inMerge the unordered ones.
THEOREM InputsStayAlways == Spec => []InputsStay
<1>1. Inv => InputsStay
  BY DEF Inv, ListedInv, Listed, InputsStay
<1> QED BY <1>1, InitInv, Inductive, PTL DEF Spec
=============================================================================
