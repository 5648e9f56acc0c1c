---------------------------- MODULE TransferProofs ----------------------------
(***************************************************************************)
(* Proofs about TransferPipeline for any set of tasks and any budgets.     *)
(***************************************************************************)
EXTENDS TransferPipeline, TLAPS

\* Inside the attempt loop the number of the attempt is below the limit
\* (`for attempt in range(retries, max_retries)`); what runs there too but is
\* entered from the cleanup check carries a mark that only uploads have.
InLoop == Labels \ {"idle", "start", "notify"}
Uncounted(w, j) == w[1] = "upload" /\ j.outside
TryBound ==
    \A w \in Workers : pc[w] \in InLoop => Uncounted(w, job[w]) \/ job[w].try < MaxRetries

TInv == TypeOK /\ TryBound

LEMMA WorkerTypes ==
    /\ \A w \in Workers : w[1] \in {"download", "upload"} /\ w[2] \in Tasks /\ w = <<w[1], w[2]>>
    /\ \A t \in Tasks : D(t) \in Workers /\ U(t) \in Workers
BY DEF Workers, D, U

LEMMA PathTypes ==
    /\ \A t \in Tasks, k \in 0..MaxSuffix : Candidate(t, k) \in Paths
    /\ \A t \in Tasks, g \in 0..MaxRecoveries : Staging(t, g) \in Paths
BY DEF Paths, Finals, Stagings

LEMMA StateTypes ==
    /\ \A w \in Workers : FailedState(w) \in States /\ WritingState(w) \in States
    /\ FailedStates \subseteq States /\ Recoverable \subseteq States
BY DEF FailedState, WritingState, States, FailedStates, Recoverable

LEMMA NewJobType == NewJob \in Job
<1>1. 0 \in 0..MaxRetries /\ 0 \in 0..MaxSuffix
  BY PipelineAssumption
<1> QED BY <1>1 DEF NewJob, Job

LEMMA TriedType ==
    ASSUME NEW w, NEW r \in Row, NEW n \in 0..MaxRetries
    PROVE  Tried(w, r, n) \in Row /\ Tried(w, r, n).cancel = r.cancel
<1>1. [r EXCEPT !.dtries = n] \in Row /\ [r EXCEPT !.dtries = n].cancel = r.cancel
  BY DEF Row
<1>2. [r EXCEPT !.utries = n] \in Row /\ [r EXCEPT !.utries = n].cancel = r.cancel
  BY DEF Row
<1> QED BY <1>1, <1>2 DEF Tried

\* What a step of worker w may do to the row of its task, to its own position
\* and to its local variables ...
ControlStep(w) ==
    /\ \/ UNCHANGED row
       \/ \E r \in Row : r.cancel = row[w[2]].cancel /\ row' = [row EXCEPT ![w[2]] = r]
    /\ \E l \in Labels : pc' = [pc EXCEPT ![w] = l]
    /\ \/ UNCHANGED job
       \/ \E j \in Job : job' = [job EXCEPT ![w] = j]
    /\ pc'[w] \in InLoop => Uncounted(w, job'[w]) \/ job'[w].try < MaxRetries
    /\ lock' \in {lock, w, NoWorker}
    /\ pc'[w] = "receipt" =>
          row'[w[2]].state = "cleanup_pending" /\ row'[w[2]].verified

\* ... and to everything else.
WorldOK ==
    /\ retained \in SUBSET Paths
    /\ part \in [Tasks -> {"absent", "partial", "whole"}]
    /\ file \in [Tasks -> {"absent", "short", "whole"}]
    /\ store \in [Paths -> [by : Owners, whole : BOOLEAN]]
    /\ cancelling \in [Tasks -> {"idle", "asked", "purging"}]
    /\ purge \in [Tasks -> SUBSET Paths]
    /\ spent \in [Events -> Nat]

WorldStep(w) ==
    /\ WorldOK'
    /\ UNCHANGED commands
    /\ \A t \in Tasks :
          file[t] = "whole" /\ file'[t] # "whole" => pc[w] = "receipt" /\ w[2] = t

WorkerStep(w) == ControlStep(w) /\ WorldStep(w)

LEMMA StepType ==
    ASSUME TInv, NEW w \in Workers, ControlStep(w)
    PROVE  /\ row' \in [Tasks -> Row] /\ pc' \in [Workers -> Labels]
           /\ job' \in [Workers -> Job] /\ lock' \in Workers \cup {NoWorker}
           /\ TryBound'
<1>1. row' \in [Tasks -> Row]
  BY WorkerTypes DEF TInv, TypeOK, ControlStep
<1>2. pc' \in [Workers -> Labels]
  BY DEF TInv, TypeOK, ControlStep
<1>3. job' \in [Workers -> Job]
  BY DEF TInv, TypeOK, ControlStep
<1>4. lock' \in Workers \cup {NoWorker}
  BY DEF TInv, TypeOK, ControlStep
<1>5. TryBound'
  <2> SUFFICES ASSUME NEW v \in Workers, pc'[v] \in InLoop
               PROVE  Uncounted(v, job'[v]) \/ job'[v].try < MaxRetries
    BY DEF TryBound
  <2>1. CASE v = w
    BY <2>1 DEF ControlStep
  <2>2. CASE v # w
    <3>1. pc'[v] = pc[v] /\ job'[v] = job[v]
      BY <2>2 DEF TInv, TypeOK, ControlStep
    <3> QED BY <3>1 DEF TInv, TryBound
  <2> QED BY <2>1, <2>2
<1> QED BY <1>1, <1>2, <1>3, <1>4, <1>5

\* The two forms most steps of a worker take: the job stays, or a new one.
LEMMA KeepJob ==
    ASSUME TInv, NEW w \in Workers, NEW l \in Labels, Goto(w, l), UNCHANGED job,
           \/ UNCHANGED row
           \/ \E r \in Row : r.cancel = row[w[2]].cancel /\ Put(w[2], r),
           lock' \in {lock, w, NoWorker}, l # "receipt",
           l \in InLoop => pc[w] \in InLoop
    PROVE  ControlStep(w)
<1>1. pc'[w] = l /\ pc' = [pc EXCEPT ![w] = l]
  BY DEF Goto, TInv, TypeOK
<1>2. l \in InLoop => Uncounted(w, job[w]) \/ job[w].try < MaxRetries
  BY DEF TInv, TryBound
<1> QED BY <1>1, <1>2 DEF ControlStep, Put

LEMMA NewJobStep ==
    ASSUME TInv, NEW w \in Workers, NEW l \in Labels, Goto(w, l),
           NEW j \in Job, job' = [job EXCEPT ![w] = j],
           \/ UNCHANGED row
           \/ \E r \in Row : r.cancel = row[w[2]].cancel /\ Put(w[2], r),
           lock' \in {lock, w, NoWorker}, l # "receipt",
           l \in InLoop => Uncounted(w, j) \/ j.try < MaxRetries
    PROVE  ControlStep(w)
<1>1. pc'[w] = l /\ pc' = [pc EXCEPT ![w] = l] /\ job'[w] = j
  BY DEF Goto, TInv, TypeOK
<1> QED BY <1>1 DEF ControlStep, Put

\* Facts every step starts from.
LEMMA Local ==
    ASSUME TInv, NEW w \in Workers
    PROVE  /\ w[2] \in Tasks /\ row[w[2]] \in Row /\ job[w] \in Job
           /\ Notice \in {"notify", "idle"} /\ {"notify", "idle"} \subseteq Labels
           /\ {"notify", "idle"} \cap InLoop = {} /\ InLoop \subseteq Labels
BY WorkerTypes DEF TInv, TypeOK, Notice, Labels, InLoop

LEMMA FailStep ==
    ASSUME TInv, NEW w \in Workers, NEW kind \in Kinds, Fail(w, kind),
           pc[w] \in InLoop
    PROVE  ControlStep(w)
<1> DEFINE t == w[2]
           r == row[t]
           next == job[w].try + 1
<1>1. t \in Tasks /\ r \in Row /\ job[w] \in Job /\ w[1] \in {"download", "upload"}
  BY WorkerTypes DEF TInv, TypeOK
<1>2. lock' \in {lock, w, NoWorker}
  BY DEF Fail, Unlock
<1>3. CASE job[w].outside
  <2> DEFINE unmarked == [r EXCEPT !.verified = FALSE]
  <2>1. unmarked \in Row /\ unmarked.cancel = r.cancel
    BY <1>1 DEF Row
  <2>2. Put(t, unmarked) /\ Goto(w, "idle") /\ UNCHANGED job
    BY <1>3 DEF Fail
  <2>3. "idle" \in Labels /\ "idle" \notin InLoop
    BY DEF Labels, InLoop
  <2> QED BY <1>2, <2>1, <2>2, <2>3, KeepJob
<1>4. CASE ~ job[w].outside
  <2>1. job[w].try \in 0..MaxRetries /\ job[w].try < MaxRetries /\ next \in 0..MaxRetries
    BY <1>1, <1>4, PipelineAssumption DEF TInv, TryBound, Uncounted, Job
  <2>2. CASE kind \in {"conflict", "refused"}
    <3> DEFINE held == [r EXCEPT !.state = FailedState(w), !.kind = kind, !.verified = FALSE]
    <3>1. held \in Row /\ held.cancel = r.cancel
      BY <1>1, StateTypes DEF Row
    <3>2. UNCHANGED row \/ row' = [row EXCEPT ![t] = held]
      BY <1>4, <2>2 DEF Fail, Put
    <3>3. pc' = [pc EXCEPT ![w] = Notice] \/ pc' = [pc EXCEPT ![w] = "idle"]
      BY <1>4, <2>2 DEF Fail, Goto
    <3>4. pc'[w] \notin InLoop
      BY <3>3 DEF InLoop, Notice, TInv, TypeOK
    <3> QED BY <1>2, <1>4, <2>2, <3>1, <3>2, <3>3, <3>4 DEF Fail, ControlStep, Labels, Notice, InLoop
  <2> DEFINE tried == Tried(w, [r EXCEPT !.kind = kind], next)
             kept == IF job[w].how = "stream" THEN [tried EXCEPT !.lpath = "none"] ELSE tried
  <2>3. tried \in Row /\ kept \in Row /\ tried.cancel = r.cancel /\ kept.cancel = r.cancel
    <3>1. [r EXCEPT !.kind = kind] \in Row /\ [r EXCEPT !.kind = kind].cancel = r.cancel
      BY <1>1 DEF Row
    <3>2. tried \in Row /\ tried.cancel = r.cancel
      BY <2>1, <3>1, TriedType
    <3> QED BY <3>2 DEF Row
  <2>4. CASE kind = "transient" /\ AttemptsLeft(next)
    <3>1. row' = [row EXCEPT ![t] = tried]
      BY <1>4, <2>4 DEF Fail, Put
    <3>2. pc' = [pc EXCEPT ![w] = "backoff"]
      BY <1>4, <2>4 DEF Fail, Goto
    <3>3. job' = [job EXCEPT ![w].try = next]
      BY <1>4, <2>4 DEF Fail
    <3>4. job' = [job EXCEPT ![w] = [job[w] EXCEPT !.try = next]]
          /\ [job[w] EXCEPT !.try = next] \in Job
      BY <1>1, <2>1, <3>3 DEF Job, TInv, TypeOK
    <3>5. job'[w].try < MaxRetries
      BY <1>1, <2>1, <2>4, <3>4 DEF AttemptsLeft, TInv, TypeOK, Job
    <3>6. pc'[w] = "backoff"
      BY <3>2 DEF TInv, TypeOK
    <3> QED BY <1>2, <2>3, <3>1, <3>2, <3>4, <3>5, <3>6 DEF ControlStep, Labels
  <2>5. CASE kind = "transient" /\ ~ AttemptsLeft(next)
    <3>1. UNCHANGED job
      BY <1>4, <2>5 DEF Fail
    <3>2. pc' = [pc EXCEPT ![w] = Notice] \/ pc' = [pc EXCEPT ![w] = "idle"]
      BY <1>4, <2>5 DEF Fail, Goto
    <3>3. pc'[w] \notin InLoop
      BY <3>2 DEF InLoop, Notice, TInv, TypeOK
    <3>4. /\ [kept EXCEPT !.state = FailedState(w)] \in Row
          /\ [kept EXCEPT !.state = FailedState(w)].cancel = r.cancel
      BY <2>3, StateTypes DEF Row
    <3>5. \/ row' = [row EXCEPT ![t] = [kept EXCEPT !.state = FailedState(w)]]
          \/ row' = [row EXCEPT ![t] = tried]
      BY <1>4, <2>5 DEF Fail, Put
    <3> QED BY <1>2, <2>3, <3>1, <3>2, <3>3, <3>4, <3>5 DEF ControlStep, Labels, Notice, InLoop
  <2> QED BY <1>4, <2>2, <2>4, <2>5 DEF Fail
<1> QED BY <1>3, <1>4

LEMMA DownloadAttemptStep ==
    ASSUME TInv, NEW t \in Tasks, NEW n \in 0..MaxRetries, DownloadAttempt(t, n)
    PROVE  /\ \E r \in Row : r.cancel = row[t].cancel /\ (UNCHANGED row \/ Put(t, r))
           /\ \E l \in {"fetch", "idle"} : Goto(D(t), l)
           /\ part' \in [Tasks -> {"absent", "partial", "whole"}]
<1> DEFINE on == [row[t] EXCEPT !.state = "downloading", !.lpath = "part", !.dtries = n]
           off == [row[t] EXCEPT !.state = "download_failed", !.lpath = "none"]
<1>1. row[t] \in Row
  BY DEF TInv, TypeOK
<1>2. on \in Row /\ off \in Row /\ on.cancel = row[t].cancel /\ off.cancel = row[t].cancel
  BY <1>1 DEF Row, States
<1>3. UNCHANGED row \/ Put(t, on) \/ Put(t, off)
  BY DEF DownloadAttempt
<1>4. part' \in [Tasks -> {"absent", "partial", "whole"}]
  BY DEF DownloadAttempt, TInv, TypeOK
<1>5. \E l \in {"fetch", "idle"} : Goto(D(t), l)
  BY DEF DownloadAttempt
<1> QED BY <1>2, <1>3, <1>4, <1>5

LEMMA DownloadExhaustedStep ==
    ASSUME TInv, NEW t \in Tasks, NEW r \in Row, r.cancel = row[t].cancel, DownloadExhausted(t, r)
    PROVE  /\ \E q \in Row : q.cancel = row[t].cancel /\ Put(t, q)
           /\ \E l \in {"notify", "idle"} : Goto(D(t), l)
           /\ part' \in [Tasks -> {"absent", "partial", "whole"}]
<1> DEFINE off == [r EXCEPT !.state = "download_failed", !.lpath = "none"]
<1>1. off \in Row /\ off.cancel = row[t].cancel
  BY DEF Row, States
<1>2. Put(t, r) \/ Put(t, off)
  BY DEF DownloadExhausted
<1>3. part' \in [Tasks -> {"absent", "partial", "whole"}]
  BY DEF DownloadExhausted, TInv, TypeOK
<1>4. \E l \in {"notify", "idle"} : Goto(D(t), l)
  BY DEF DownloadExhausted, Notice
<1> QED BY <1>1, <1>2, <1>3, <1>4

-------------------------------------------------------------------------------
(* What the steps leave alone *)

StoreType == [Paths -> [by : Owners, whole : BOOLEAN]]
PartType == [Tasks -> {"absent", "partial", "whole"}]

LEMMA SpendType ==
    ASSUME TInv, NEW e \in Events, Spend(e)
    PROVE  spent' \in [Events -> Nat]
BY DEF Spend, TInv, TypeOK

\* No step but the cleanup touches a finished file.
LEMMA WorldKept ==
    ASSUME TInv, NEW w \in Workers, UNCHANGED <<retained, file, commands>>,
           spent' \in [Events -> Nat], store' \in StoreType, part' \in PartType
    PROVE  WorldStep(w)
BY DEF WorldStep, WorldOK, StoreType, PartType, TInv, TypeOK, commands

LEMMA WorldSame ==
    ASSUME TInv, NEW w \in Workers, UNCHANGED <<retained, files, store, commands>>,
           spent' \in [Events -> Nat]
    PROVE  WorldStep(w)
BY WorldKept DEF StoreType, PartType, TInv, TypeOK, files

-------------------------------------------------------------------------------
(* The steps of _download_one *)

LEMMA DownloadFailsStep ==
    ASSUME TInv, NEW t \in Tasks, NEW kind \in Kinds, DownloadFails(t, kind),
           pc[D(t)] \in InLoop, UNCHANGED lock
    PROVE  ControlStep(D(t)) /\ part' \in PartType
<1> DEFINE w == D(t)
           next == job[w].try + 1
           r == [row[t] EXCEPT !.dtries = next, !.kind = kind]
           j == [job[w] EXCEPT !.try = next]
<1>1. w \in Workers /\ w[2] = t /\ row[t] \in Row /\ job[w] \in Job
  BY WorkerTypes DEF D, TInv, TypeOK
<1>2. next \in 0..MaxRetries
  <2>1. w[1] = "download"
    BY DEF D
  <2> QED BY <1>1, <2>1, PipelineAssumption DEF TInv, TryBound, Uncounted, Job
<1>3. r \in Row /\ r.cancel = row[t].cancel
  BY <1>1, <1>2 DEF Row
<1>4. CASE AttemptsLeft(next)
  <2>1. Put(t, r) /\ Goto(w, "backoff") /\ UNCHANGED part /\ job' = [job EXCEPT ![w].try = next]
    BY <1>4 DEF DownloadFails
  <2>2. job' = [job EXCEPT ![w] = j] /\ j \in Job /\ j.try = next
    BY <1>1, <1>2, <2>1 DEF Job, TInv, TypeOK
  <2>3. next < MaxRetries /\ "backoff" \in Labels
    BY <1>4 DEF AttemptsLeft, Labels
  <2>4. \E q \in Row : q.cancel = row[w[2]].cancel /\ Put(w[2], q)
    BY <1>1, <1>3, <2>1
  <2>5. ControlStep(w)
    <3> HIDE DEF w, next, r, j
    <3> QED BY <1>1, <2>1, <2>2, <2>3, <2>4, NewJobStep
  <2> QED BY <2>1, <2>5 DEF PartType, TInv, TypeOK
<1>5. CASE ~ AttemptsLeft(next)
  <2>1. DownloadExhausted(t, r) /\ UNCHANGED job
    BY <1>5 DEF DownloadFails
  <2>2. \E q \in Row : q.cancel = row[t].cancel /\ Put(t, q)
    BY <1>3, <2>1, DownloadExhaustedStep
  <2>3. (\E l \in {"notify", "idle"} : Goto(w, l)) /\ part' \in PartType
    BY <1>3, <2>1, DownloadExhaustedStep DEF PartType
  <2>4. PICK l \in {"notify", "idle"} : Goto(w, l)
    BY <2>3
  <2>5. l \in Labels /\ l \notin InLoop /\ l # "receipt"
    BY DEF Labels, InLoop
  <2> QED BY <1>1, <2>1, <2>2, <2>3, <2>4, <2>5, KeepJob
<1> QED BY <1>4, <1>5

LEMMA DownloadBeginStep ==
    ASSUME TInv, NEW t \in Tasks, DownloadBegin(t)
    PROVE  WorkerStep(D(t))
<1> DEFINE w == D(t)
           n == row[t].dtries
           how == IF row[t].mode = "stream" THEN "stream" ELSE "local"
           begun == [NewJob EXCEPT !.how = how, !.try = n]
           off == [row[t] EXCEPT !.state = "download_failed", !.lpath = "none"]
<1>1. w \in Workers /\ w[2] = t /\ row[t] \in Row /\ n \in 0..MaxRetries
  BY WorkerTypes DEF D, TInv, TypeOK, Row
<1>2. begun \in Job /\ begun.try = n
  <2>1. how \in {"local", "stream", "upload"}
    OBVIOUS
  <2> HIDE DEF how, n
  <2> QED BY <1>1, <2>1, NewJobType DEF Job
<1>3. off \in Row /\ off.cancel = row[t].cancel
  BY <1>1 DEF Row, States
<1>4. job' = [job EXCEPT ![w] = begun] /\ UNCHANGED lock
  BY DEF DownloadBegin
<1>5. /\ \E r \in Row : r.cancel = row[t].cancel /\ (UNCHANGED row \/ Put(t, r))
      /\ \E l \in {"fetch", "resume", "idle", "notify"} :
            Goto(w, l) /\ (l \in {"fetch", "resume"} => AttemptsLeft(n))
      /\ part' \in PartType
  <2>1. CASE AttemptsLeft(n) /\ how = "local"
    BY <1>1, <2>1, DownloadAttemptStep DEF DownloadBegin, PartType
  <2>2. CASE AttemptsLeft(n) /\ how = "stream"
    BY <1>1, <2>2 DEF DownloadBegin, PartType, TInv, TypeOK
  <2>3. CASE ~ AttemptsLeft(n) /\ how = "local"
    BY <1>1, <2>3, DownloadExhaustedStep DEF DownloadBegin, PartType
  <2>4. CASE ~ AttemptsLeft(n) /\ how = "stream"
    BY <1>1, <1>3, <2>4 DEF DownloadBegin, PartType, Notice, TInv, TypeOK
  <2> QED BY <2>1, <2>2, <2>3, <2>4
<1>6. PICK l \in {"fetch", "resume", "idle", "notify"} :
         Goto(w, l) /\ (l \in {"fetch", "resume"} => n < MaxRetries)
  BY <1>5 DEF AttemptsLeft
<1>7. l \in Labels /\ l # "receipt" /\ (l \in InLoop => l \in {"fetch", "resume"})
  BY DEF Labels, InLoop
<1>8. ControlStep(w)
  <2>1. UNCHANGED row \/ \E q \in Row : q.cancel = row[w[2]].cancel /\ Put(w[2], q)
    BY <1>1, <1>5
  <2> HIDE DEF w, n, begun
  <2> QED BY <1>1, <1>2, <1>4, <1>6, <1>7, <2>1, NewJobStep
<1>9. WorldStep(w)
  BY <1>1, <1>5, WorldKept DEF DownloadBegin, StoreType, TInv, TypeOK
<1> QED BY <1>8, <1>9 DEF WorkerStep

LEMMA DownloadRetryStep ==
    ASSUME TInv, NEW t \in Tasks, DownloadRetry(t)
    PROVE  WorkerStep(D(t))
<1> DEFINE w == D(t)
<1>1. w \in Workers /\ w[2] = t /\ job[w] \in Job /\ job[w].try \in 0..MaxRetries
  BY WorkerTypes DEF D, TInv, TypeOK, Job
<1>2. UNCHANGED <<job, lock>> /\ pc[w] \in InLoop
  BY DEF DownloadRetry, InLoop, Labels
<1>3. DownloadAttempt(t, job[w].try)
  BY DEF DownloadRetry
<1>4. /\ \E r \in Row : r.cancel = row[t].cancel /\ (UNCHANGED row \/ Put(t, r))
      /\ \E l \in {"fetch", "idle"} : Goto(w, l)
      /\ part' \in PartType
  BY <1>1, <1>3, DownloadAttemptStep DEF PartType
<1>5. PICK l \in {"fetch", "idle"} : Goto(w, l)
  BY <1>4
<1>6. l \in Labels /\ l # "receipt"
  BY DEF Labels
<1>7. ControlStep(w)
  <2>1. UNCHANGED row \/ \E q \in Row : q.cancel = row[w[2]].cancel /\ Put(w[2], q)
    BY <1>1, <1>4
  <2> HIDE DEF w
  <2> QED BY <1>1, <1>2, <1>5, <1>6, <2>1, KeepJob
<1>8. WorldStep(w)
  BY <1>1, <1>4, WorldKept DEF DownloadRetry, StoreType, TInv, TypeOK
<1> QED BY <1>7, <1>8 DEF WorkerStep

LEMMA DownloadArrivesStep ==
    ASSUME TInv, NEW t \in Tasks, DownloadArrives(t)
    PROVE  WorkerStep(D(t))
<1> DEFINE w == D(t)
           r == [row[t] EXCEPT !.state = "downloaded", !.lpath = "file"]
<1>1. w \in Workers /\ w[2] = t /\ row[t] \in Row
  BY WorkerTypes DEF D, TInv, TypeOK
<1>2. pc[w] \in InLoop /\ UNCHANGED lock
  BY DEF DownloadArrives, InLoop, Labels
<1>3. ControlStep(w) /\ part' \in PartType
  <2>1. CASE part[t] = "partial" /\ Legal(t, "downloaded")
    <3>1. r \in Row /\ r.cancel = row[t].cancel
      BY <1>1 DEF Row, States
    <3>2. Put(t, r) /\ Goto(w, "renaming") /\ UNCHANGED job /\ part' \in PartType
      BY <1>1, <2>1 DEF DownloadArrives, PartType, TInv, TypeOK
    <3>3. \E q \in Row : q.cancel = row[w[2]].cancel /\ Put(w[2], q)
      BY <1>1, <3>1, <3>2
    <3>4. "renaming" \in Labels
      BY DEF Labels
    <3> QED BY <1>1, <1>2, <3>2, <3>3, <3>4, KeepJob
  <2>2. CASE ~ (part[t] = "partial" /\ Legal(t, "downloaded"))
    BY <1>2, <2>2, DownloadFailsStep DEF DownloadArrives, Kinds
  <2> QED BY <2>1, <2>2
<1>4. WorldStep(w)
  BY <1>1, <1>3, WorldKept DEF DownloadArrives, StoreType, TInv, TypeOK
<1> QED BY <1>3, <1>4 DEF WorkerStep

LEMMA DownloadRenameStep ==
    ASSUME TInv, NEW t \in Tasks, DownloadRename(t)
    PROVE  WorkerStep(D(t))
<1> DEFINE w == D(t)
<1>1. w \in Workers /\ pc[w] \in InLoop /\ "renamed" \in Labels
  BY WorkerTypes DEF DownloadRename, InLoop, Labels
<1>2. ControlStep(w)
  BY <1>1, KeepJob DEF DownloadRename
<1>3. WorldStep(w)
  BY DEF DownloadRename, WorldStep, WorldOK, commands, TInv, TypeOK
<1> QED BY <1>2, <1>3 DEF WorkerStep

LEMMA DownloadRecordStep ==
    ASSUME TInv, NEW t \in Tasks, DownloadRecord(t)
    PROVE  WorkerStep(D(t))
<1> DEFINE w == D(t)
           n == job[w].try
           r == [row[t] EXCEPT !.state = "waiting_upload", !.lpath = "file", !.dtries = n]
<1>1. w \in Workers /\ w[2] = t /\ row[t] \in Row /\ n \in 0..MaxRetries
  BY WorkerTypes DEF D, TInv, TypeOK, Job
<1>2. r \in Row /\ r.cancel = row[t].cancel
  <2> HIDE DEF n
  <2> QED BY <1>1 DEF Row, States
<1>3. \E q \in Row : q.cancel = row[w[2]].cancel /\ Put(w[2], q)
  BY <1>1, <1>2 DEF DownloadRecord
<1>4. Goto(w, Notice) /\ UNCHANGED <<job, lock>>
  BY DEF DownloadRecord
<1>5. Notice \in Labels /\ Notice \notin InLoop /\ Notice # "receipt"
  BY DEF Notice, Labels, InLoop
<1>6. ControlStep(w)
  BY <1>1, <1>3, <1>4, <1>5, KeepJob
<1>7. WorldStep(w)
  BY <1>1, WorldSame DEF DownloadRecord, TInv, TypeOK
<1> QED BY <1>6, <1>7 DEF WorkerStep

LEMMA DownloadErrorStep ==
    ASSUME TInv, NEW t \in Tasks, DownloadRenameFails(t) \/ DownloadError(t)
    PROVE  WorkerStep(D(t))
<1> DEFINE w == D(t)
<1>1. w \in Workers /\ pc[w] \in InLoop /\ Spend("fault") /\ "fault" \in Events
  BY WorkerTypes DEF DownloadRenameFails, DownloadError, InLoop, Labels, Events
<1>2. PICK kind \in Kinds : DownloadFails(t, kind)
  BY PipelineAssumption DEF DownloadRenameFails, DownloadError, Kinds
<1>3. ControlStep(w) /\ part' \in PartType
  BY <1>1, <1>2, DownloadFailsStep DEF DownloadRenameFails, DownloadError
<1>4. WorldStep(w)
  <2>1. spent' \in [Events -> Nat]
    BY <1>1, SpendType
  <2>2. UNCHANGED <<retained, file, store, commands>>
    BY DEF DownloadRenameFails, DownloadError
  <2> QED BY <1>1, <1>3, <2>1, <2>2, WorldKept DEF StoreType, TInv, TypeOK
<1> QED BY <1>3, <1>4 DEF WorkerStep

LEMMA DownloadRefusedStep ==
    ASSUME TInv, NEW t \in Tasks, DownloadRefused(t)
    PROVE  WorkerStep(D(t))
<1> DEFINE w == D(t)
           r == row[t]
           again == [r EXCEPT !.state = "queued", !.lpath = "none", !.dtries = @ + 1,
                              !.kind = "refused"]
           failed(kind) == [r EXCEPT !.state = "download_failed", !.lpath = "none",
                                     !.kind = kind]
<1>1. w \in Workers /\ w[2] = t /\ r \in Row /\ Spend("fault") /\ "fault" \in Events
  BY WorkerTypes DEF D, DownloadRefused, Events, TInv, TypeOK
<1>2. UNCHANGED <<job, lock>>
  BY DEF DownloadRefused
<1>3. UNCHANGED row \/ \E q \in Row : q.cancel = row[w[2]].cancel /\ Put(w[2], q)
  <2>1. \A kind \in Kinds : failed(kind) \in Row /\ failed(kind).cancel = r.cancel
    BY <1>1 DEF Row, States
  <2>2. ASSUME AttemptsLeft(r.dtries + 1)
        PROVE  again \in Row /\ again.cancel = r.cancel
    <3>1. r.dtries + 1 \in 0..MaxRetries
      BY <1>1, <2>2, PipelineAssumption DEF AttemptsLeft, Row
    <3> QED BY <1>1, <3>1 DEF Row, States, Kinds
  <2>3. \/ UNCHANGED row
        \/ AttemptsLeft(r.dtries + 1) /\ Put(t, again)
        \/ \E kind \in {"access", "refused"} : Put(t, failed(kind))
    BY DEF DownloadRefused
  <2> HIDE DEF again, failed
  <2> QED BY <1>1, <2>1, <2>2, <2>3 DEF Kinds
<1>4. \E l \in {"idle", "notify"} : Goto(w, l)
  BY DEF DownloadRefused, Notice
<1>5. PICK l \in {"idle", "notify"} : Goto(w, l)
  BY <1>4
<1>6. l \in Labels /\ l \notin InLoop /\ l # "receipt"
  BY DEF Labels, InLoop
<1>7. ControlStep(w)
  <2> HIDE DEF w
  <2> QED BY <1>1, <1>2, <1>3, <1>5, <1>6, KeepJob
<1>8. WorldStep(w)
  <2>1. spent' \in [Events -> Nat]
    BY <1>1, SpendType
  <2>2. part' \in PartType /\ UNCHANGED <<retained, file, store, commands>>
    BY DEF DownloadRefused, PartType, TInv, TypeOK
  <2> QED BY <1>1, <2>1, <2>2, WorldKept DEF StoreType, TInv, TypeOK
<1> QED BY <1>7, <1>8 DEF WorkerStep


-------------------------------------------------------------------------------
(* The steps of the remote half *)

\* A new job with the same attempt.
LEMMA SameTry ==
    ASSUME TInv, NEW w \in Workers, pc[w] \in InLoop, NEW l \in Labels, Goto(w, l),
           NEW j \in Job, job' = [job EXCEPT ![w] = j],
           j.try = job[w].try, j.outside = job[w].outside,
           \/ UNCHANGED row
           \/ \E r \in Row : r.cancel = row[w[2]].cancel /\ Put(w[2], r),
           lock' \in {lock, w, NoWorker}, l # "receipt"
    PROVE  ControlStep(w)
<1>1. Uncounted(w, j) \/ j.try < MaxRetries
  BY DEF TInv, TryBound, Uncounted
<1> QED BY <1>1, NewJobStep

LEMMA LandedType ==
    ASSUME TInv, NEW ws \in SUBSET Workers
    PROVE  Landed(ws) \in StoreType
<1> DEFINE moved == {w \in ws : pc[w] = "move" /\ Exists(job[w].path)}
           written == {w \in ws : pc[w] = "writing"}
           m(p) == CHOOSE w \in moved : job[w].goal = p
           u(p) == CHOOSE w \in written : job[w].path = p
           new(p) == IF \E w \in moved : job[w].goal = p THEN store[job[m(p)].path]
                     ELSE IF \E w \in moved : job[w].path = p THEN Absent
                     ELSE IF \E w \in written : job[w].path = p THEN Object(u(p)[2], TRUE)
                     ELSE store[p]
<1>1. ASSUME NEW p \in Paths PROVE new(p) \in [by : Owners, whole : BOOLEAN]
  <2>1. CASE \E w \in moved : job[w].goal = p
    <3>1. m(p) \in moved
      BY <2>1
    <3>2. job[m(p)].path \in Paths
      BY <3>1 DEF Exists, Job, TInv, TypeOK
    <3> QED BY <2>1, <3>2 DEF TInv, TypeOK
  <2>2. CASE ~ (\E w \in moved : job[w].goal = p) /\ \E w \in moved : job[w].path = p
    BY <2>2 DEF Absent, Owners
  <2>3. CASE ~ (\E w \in moved : job[w].goal = p) /\ ~ (\E w \in moved : job[w].path = p)
    <3>1. CASE \E w \in written : job[w].path = p
      <4>1. u(p) \in Workers
        BY <3>1
      <4>2. u(p)[2] \in Tasks
        BY <4>1, WorkerTypes
      <4>3. new(p) = Object(u(p)[2], TRUE)
        BY <2>3, <3>1
      <4> HIDE DEF new, u
      <4> QED BY <4>2, <4>3 DEF Object, Owners
    <3>2. CASE ~ \E w \in written : job[w].path = p
      BY <2>3, <3>2 DEF TInv, TypeOK
    <3> QED BY <3>1, <3>2
  <2> QED BY <2>1, <2>2, <2>3
<1>2. Landed(ws) = [p \in Paths |-> new(p)]
  BY DEF Landed
<1> HIDE DEF new
<1> QED BY <1>1, <1>2 DEF StoreType

LEMMA RemoteErrorStep ==
    ASSUME TInv, NEW w \in Workers, RemoteError(w)
    PROVE  WorkerStep(w)
<1>1. pc[w] \in InLoop /\ Spend("fault") /\ "fault" \in Events
  BY DEF RemoteError, InLoop, Labels, Events
<1>2. ControlStep(w)
  BY <1>1, FailStep DEF RemoteError, Kinds
<1>3. store' \in StoreType
  BY LandedType DEF RemoteError, StoreType, TInv, TypeOK
<1>4. spent' \in [Events -> Nat]
  BY <1>1, SpendType
<1>5. WorldStep(w)
  BY <1>3, <1>4, WorldKept DEF RemoteError, files, PartType, TInv, TypeOK
<1> QED BY <1>2, <1>5 DEF WorkerStep

LEMMA StreamErrorStep ==
    ASSUME TInv, NEW w \in Workers, StreamError(w)
    PROVE  WorkerStep(w)
<1>1. pc[w] \in InLoop /\ Spend("fault") /\ "fault" \in Events
  BY DEF StreamError, InLoop, Labels, Events
<1>2. ControlStep(w)
  BY <1>1, FailStep DEF StreamError, Kinds
<1>3. WorldStep(w)
  BY <1>1, SpendType, WorldSame DEF StreamError
<1> QED BY <1>2, <1>3 DEF WorkerStep

LEMMA BegunType ==
    ASSUME TInv, NEW w \in Workers, NEW r \in Row
    PROVE  Begun(w, r) \in Row /\ Begun(w, r).cancel = r.cancel
<1> DEFINE n == job[w].try
           begun == [r EXCEPT !.mode = "stream", !.lpath = "none", !.dtries = n]
<1>1. n \in 0..MaxRetries
  BY DEF Job, TInv, TypeOK
<1>2. begun \in Row /\ begun.cancel = r.cancel
  <2> HIDE DEF n
  <2> QED BY <1>1 DEF Row
<1>3. Begun(w, r) = r \/ Begun(w, r) = begun
  BY DEF Begun
<1> HIDE DEF begun
<1> QED BY <1>2, <1>3

LEMMA BeginWriteStep ==
    ASSUME TInv, NEW w \in Workers, pc[w] \in InLoop, BeginWrite(w)
    PROVE  ControlStep(w)
<1> DEFINE t == w[2]
           p == Staging(t, row[t].gen)
           s == WritingState(w)
           r == [row[t] EXCEPT !.state = s, !.rpath = p, !.temp = p]
           j == [job[w] EXCEPT !.path = p]
<1>1. t \in Tasks /\ row[t] \in Row /\ job[w] \in Job /\ s \in States
  BY Local, StateTypes
<1>2. p \in Paths
  BY <1>1, PathTypes DEF Row
<1>3. r \in Row /\ r.cancel = row[t].cancel
  <2> HIDE DEF p, s
  <2> QED BY <1>1, <1>2 DEF Row
<1>4. j \in Job /\ j.try = job[w].try /\ j.outside = job[w].outside
  <2> HIDE DEF p
  <2> QED BY <1>1, <1>2 DEF Job
<1>5. {"lock", "write"} \subseteq Labels
  BY DEF Labels
<1>6. CASE Backend = "openlist"
  BY <1>5, <1>6, KeepJob DEF BeginWrite
<1>7. CASE Backend # "openlist" /\ Legal(t, s)
  <2>1. /\ Put(t, Begun(w, r)) /\ Goto(w, "write") /\ UNCHANGED lock
        /\ job' = [job EXCEPT ![w].path = p]
    BY <1>7 DEF BeginWrite
  <2>2. job' = [job EXCEPT ![w] = j]
    BY <1>1, <2>1 DEF TInv, TypeOK
  <2>3. Begun(w, r) \in Row /\ Begun(w, r).cancel = row[t].cancel
    BY <1>3, BegunType
  <2>4. \E q \in Row : q.cancel = row[w[2]].cancel /\ Put(w[2], q)
    BY <2>1, <2>3
  <2> HIDE DEF j
  <2> QED BY <1>4, <1>5, <2>1, <2>2, <2>4, SameTry
<1>8. CASE Backend # "openlist" /\ ~ Legal(t, s)
  BY <1>8, FailStep DEF BeginWrite, Kinds
<1> QED BY <1>6, <1>7, <1>8

LEMMA NothingToResumeStep ==
    ASSUME TInv, NEW w \in Workers, pc[w] \in InLoop, NothingToResume(w)
    PROVE  ControlStep(w)
<1>1. "head" \in Labels /\ "head" # "receipt"
  BY DEF Labels
<1>2. CASE job[w].how = "stream"
  BY <1>1, <1>2, KeepJob DEF NothingToResume
<1>3. CASE job[w].how # "stream"
  BY <1>3, BeginWriteStep DEF NothingToResume
<1> QED BY <1>2, <1>3


LEMMA RecordedTypes ==
    ASSUME NEW r \in Row
    PROVE  RecordedFinal(r) \in Paths \cup {NoPath} /\ RecordedTemp(r) \in Paths \cup {NoPath}
BY DEF RecordedFinal, RecordedTemp, Row

LEMMA ResumeStep ==
    ASSUME TInv, NEW w \in Workers, Resume(w)
    PROVE  WorkerStep(w)
<1> DEFINE final == RecordedFinal(row[w[2]])
           j == [job[w] EXCEPT !.goal = final]
<1>1. pc[w] \in InLoop /\ row[w[2]] \in Row /\ job[w] \in Job
  BY Local DEF Resume, InLoop, Labels
<1>2. {"complete", "resumeTemp"} \subseteq Labels
  BY DEF Labels
<1>3. CASE Whole(final)
  <2>1. UNCHANGED <<row, lock>> /\ Goto(w, "complete") /\ job' = [job EXCEPT ![w].goal = final]
    BY <1>3 DEF Resume, Whole
  <2>2. j \in Job /\ j.try = job[w].try /\ j.outside = job[w].outside
    <3>1. final \in Paths \cup {NoPath}
      BY <1>1, RecordedTypes
    <3> HIDE DEF final
    <3> QED BY <1>1, <3>1 DEF Job
  <2>3. job' = [job EXCEPT ![w] = j]
    BY <2>1 DEF TInv, TypeOK
  <2> HIDE DEF j
  <2>4. ControlStep(w)
    BY <1>1, <1>2, <2>1, <2>2, <2>3, SameTry
  <2> QED BY <2>4, WorldSame DEF Resume, WorkerStep, TInv, TypeOK
<1>4. CASE Exists(final) /\ ~ Whole(final)
  <2>1. ControlStep(w)
    BY <1>1, <1>4, FailStep DEF Resume, Kinds
  <2> QED BY <2>1, WorldSame DEF Resume, WorkerStep, TInv, TypeOK
<1>5. CASE ~ Exists(final)
  <2>1. \/ NothingToResume(w)
        \/ Goto(w, "resumeTemp") /\ UNCHANGED <<row, job, lock>>
    BY <1>5 DEF Resume, Whole
  <2>2. ControlStep(w)
    BY <1>1, <1>2, <2>1, KeepJob, NothingToResumeStep
  <2> QED BY <2>2, WorldSame DEF Resume, WorkerStep, TInv, TypeOK
<1> QED BY <1>3, <1>4, <1>5

LEMMA ResumeTempStep ==
    ASSUME TInv, NEW w \in Workers, ResumeTemp(w)
    PROVE  WorkerStep(w)
<1> DEFINE temp == RecordedTemp(row[w[2]])
           j == [job[w] EXCEPT !.path = temp]
<1>1. pc[w] \in InLoop /\ row[w[2]] \in Row /\ job[w] \in Job /\ "lock" \in Labels
  BY Local DEF ResumeTemp, InLoop, Labels
<1>2. CASE Whole(temp) /\ Backend = "clouddrive2"
  <2>1. UNCHANGED <<row, lock>> /\ Goto(w, "lock") /\ job' = [job EXCEPT ![w].path = temp]
    BY <1>2 DEF ResumeTemp, Whole
  <2>2. j \in Job /\ j.try = job[w].try /\ j.outside = job[w].outside
    <3>1. temp \in Paths \cup {NoPath}
      BY <1>1, RecordedTypes
    <3> HIDE DEF temp
    <3> QED BY <1>1, <3>1 DEF Job
  <2>3. job' = [job EXCEPT ![w] = j]
    BY <2>1 DEF TInv, TypeOK
  <2> HIDE DEF j
  <2>4. ControlStep(w)
    BY <1>1, <2>1, <2>2, <2>3, SameTry
  <2> QED BY <2>4, WorldSame DEF ResumeTemp, WorkerStep, TInv, TypeOK
<1>3. CASE ~ (Whole(temp) /\ Backend = "clouddrive2")
  <2>1. Fail(w, "conflict") \/ NothingToResume(w)
    BY <1>3 DEF ResumeTemp
  <2>2. ControlStep(w)
    BY <1>1, <2>1, FailStep, NothingToResumeStep DEF Kinds
  <2> QED BY <2>2, WorldSame DEF ResumeTemp, WorkerStep, TInv, TypeOK
<1> QED BY <1>2, <1>3

LEMMA StreamHeadStep ==
    ASSUME TInv, NEW w \in Workers, StreamHead(w)
    PROVE  WorkerStep(w)
<1>1. pc[w] \in InLoop
  BY DEF StreamHead, InLoop, Labels
<1>2. ControlStep(w)
  BY <1>1, BeginWriteStep DEF StreamHead
<1> QED BY <1>2, WorldSame DEF StreamHead, WorkerStep, TInv, TypeOK

LEMMA TakeLockStep ==
    ASSUME TInv, NEW w \in Workers, TakeLock(w)
    PROVE  WorkerStep(w)
<1> DEFINE final == row[w[2]].final
           withGoal == [job[w] EXCEPT !.goal = final]
           withNumber(k) == [job[w] EXCEPT !.k = k]
<1>1. pc[w] \in InLoop /\ row[w[2]] \in Row /\ job[w] \in Job
  BY Local DEF TakeLock, InLoop, Labels
<1>2. {"reserved", "exists"} \subseteq Labels
  BY DEF Labels
<1>3. final \in Paths \cup {NoPath}
  BY <1>1 DEF Row
<1>4. lock' = w /\ UNCHANGED row
  BY DEF TakeLock
<1>5. CASE final # NoPath
  <2>1. Goto(w, "reserved") /\ job' = [job EXCEPT ![w].goal = final]
    BY <1>5 DEF TakeLock
  <2>2. job' = [job EXCEPT ![w] = withGoal]
    BY <2>1 DEF TInv, TypeOK
  <2> HIDE DEF final
  <2>3. /\ withGoal \in Job
        /\ withGoal.try = job[w].try /\ withGoal.outside = job[w].outside
    BY <1>1, <1>3 DEF Job
  <2> HIDE DEF withGoal
  <2>4. ControlStep(w)
    BY <1>1, <1>2, <1>4, <2>1, <2>2, <2>3, SameTry
  <2> QED BY <2>4, WorldSame DEF TakeLock, WorkerStep, TInv, TypeOK
<1>6. CASE final = NoPath
  <2>1. PICK k \in 0..MaxSuffix : job' = [job EXCEPT ![w].k = k]
    BY <1>6 DEF TakeLock
  <2>2. Goto(w, "exists")
    BY <1>6 DEF TakeLock
  <2>3. job' = [job EXCEPT ![w] = withNumber(k)]
    BY <2>1 DEF TInv, TypeOK
  <2>4. /\ withNumber(k) \in Job
        /\ withNumber(k).try = job[w].try /\ withNumber(k).outside = job[w].outside
    BY <1>1 DEF Job
  <2> HIDE DEF withNumber
  <2>5. ControlStep(w)
    BY <1>1, <1>2, <1>4, <2>2, <2>3, <2>4, SameTry
  <2> QED BY <2>5, WorldSame DEF TakeLock, WorkerStep, TInv, TypeOK
<1> QED BY <1>5, <1>6

LEMMA ClaimStep ==
    ASSUME TInv, NEW w \in Workers, pc[w] \in InLoop, NEW p \in Paths \cup {NoPath}, Claim(w, p)
    PROVE  ControlStep(w)
<1> DEFINE t == w[2]
           state == IF Backend = "openlist" THEN WritingState(w) ELSE "finalizing"
           r == [row[t] EXCEPT !.state = state, !.rpath = p, !.final = p]
           direct == [r EXCEPT !.temp = NoPath]
           q == job[w].path
           staged == [r EXCEPT !.temp = q]
           j1 == [job[w] EXCEPT !.path = p, !.goal = p]
           j2 == [job[w] EXCEPT !.goal = p]
<1>1. t \in Tasks /\ row[t] \in Row /\ job[w] \in Job
  BY Local
<1>2. {"write", "move"} \subseteq Labels
  BY DEF Labels
<1>3. r \in Row /\ r.cancel = row[t].cancel
  <2>1. state \in States
    BY StateTypes DEF States
  <2> HIDE DEF state
  <2> QED BY <1>1, <2>1 DEF Row
<1>4. CASE ~ Legal(t, state)
  BY <1>4, FailStep DEF Claim, Kinds
<1>5. CASE Legal(t, state) /\ Backend = "openlist"
  <2>1. /\ Put(t, Begun(w, direct)) /\ Goto(w, "write") /\ lock' = NoWorker
        /\ job' = [job EXCEPT ![w].path = p, ![w].goal = p]
    BY <1>5 DEF Claim
  <2>2. job' = [job EXCEPT ![w] = j1]
    BY <2>1 DEF TInv, TypeOK
  <2>3. j1 \in Job /\ j1.try = job[w].try /\ j1.outside = job[w].outside
    BY <1>1 DEF Job
  <2>4. direct \in Row /\ direct.cancel = row[t].cancel
    <3> HIDE DEF r
    <3> QED BY <1>3 DEF Row
  <2>5. Begun(w, direct) \in Row /\ Begun(w, direct).cancel = row[t].cancel
    BY <2>4, BegunType
  <2>6. \E x \in Row : x.cancel = row[w[2]].cancel /\ Put(w[2], x)
    BY <2>1, <2>5
  <2> HIDE DEF j1
  <2> QED BY <1>2, <2>1, <2>2, <2>3, <2>6, SameTry
<1>6. CASE Legal(t, state) /\ Backend # "openlist"
  <2>1. /\ Put(t, staged) /\ Goto(w, "move") /\ UNCHANGED lock
        /\ job' = [job EXCEPT ![w].goal = p]
    BY <1>6 DEF Claim
  <2>2. job' = [job EXCEPT ![w] = j2]
    BY <2>1 DEF TInv, TypeOK
  <2>3. j2 \in Job /\ j2.try = job[w].try /\ j2.outside = job[w].outside
    BY <1>1 DEF Job
  <2>4. staged \in Row /\ staged.cancel = row[t].cancel
    <3>1. q \in Paths \cup {NoPath}
      BY <1>1 DEF Job
    <3> HIDE DEF r, q
    <3> QED BY <1>3, <3>1 DEF Row
  <2>5. \E x \in Row : x.cancel = row[w[2]].cancel /\ Put(w[2], x)
    BY <2>1, <2>4
  <2> HIDE DEF j2
  <2> QED BY <1>2, <2>1, <2>2, <2>3, <2>5, SameTry
<1> QED BY <1>4, <1>5, <1>6


LEMMA ChooseFinalStep ==
    ASSUME TInv, NEW w \in Workers, ChooseFinal(w)
    PROVE  WorkerStep(w)
<1> DEFINE p == Candidate(w[2], job[w].k)
           withNumber(k) == [job[w] EXCEPT !.k = k]
<1>1. pc[w] \in InLoop /\ job[w] \in Job /\ pc[w] \in Labels /\ pc[w] # "receipt"
  BY Local DEF ChooseFinal, InLoop, Labels
<1>2. p \in Paths
  BY <1>1, WorkerTypes, PathTypes DEF Job
<1>3. CASE Exists(p)
  <2>1. UNCHANGED <<row, pc, lock>> /\ \E k \in 0..MaxSuffix : job' = [job EXCEPT ![w].k = k]
    BY <1>3 DEF ChooseFinal
  <2>2. PICK k \in 0..MaxSuffix : job' = [job EXCEPT ![w].k = k]
    BY <2>1
  <2>3. job' = [job EXCEPT ![w] = withNumber(k)] /\ Goto(w, pc[w])
    BY <2>1, <2>2 DEF Goto, TInv, TypeOK
  <2>4. /\ withNumber(k) \in Job
        /\ withNumber(k).try = job[w].try /\ withNumber(k).outside = job[w].outside
    BY <1>1 DEF Job
  <2> HIDE DEF withNumber
  <2>5. ControlStep(w)
    BY <1>1, <2>1, <2>3, <2>4, SameTry
  <2> QED BY <2>5, WorldSame DEF ChooseFinal, WorkerStep, TInv, TypeOK
<1>4. CASE ~ Exists(p)
  <2>1. ControlStep(w)
    BY <1>1, <1>2, <1>4, ClaimStep DEF ChooseFinal
  <2> QED BY <2>1, WorldSame DEF ChooseFinal, WorkerStep, TInv, TypeOK
<1> QED BY <1>3, <1>4

\* The object a write leaves.
LEMMA WrittenType ==
    ASSUME TInv, NEW w \in Workers, NEW b \in BOOLEAN,
           store' = [store EXCEPT ![job[w].path] = Object(w[2], b)]
    PROVE  store' \in StoreType
<1>1. Object(w[2], b) \in [by : Owners, whole : BOOLEAN]
  BY WorkerTypes DEF Object, Owners
<1> HIDE DEF Object
<1> QED BY <1>1 DEF StoreType, TInv, TypeOK

LEMMA WriteStartsStep ==
    ASSUME TInv, NEW w \in Workers, WriteStarts(w)
    PROVE  WorkerStep(w)
<1>1. pc[w] \in InLoop /\ "writing" \in Labels
  BY DEF WriteStarts, InLoop, Labels
<1>2. ControlStep(w)
  <2>1. Fail(w, "transient") \/ (Goto(w, "writing") /\ UNCHANGED <<row, job, lock>>)
    BY DEF WriteStarts
  <2> QED BY <1>1, <2>1, FailStep, KeepJob DEF Kinds
<1>3. store' \in StoreType
  <2>1. UNCHANGED store \/ store' = [store EXCEPT ![job[w].path] = Object(w[2], FALSE)]
    BY DEF WriteStarts
  <2> QED BY <2>1, WrittenType DEF StoreType, TInv, TypeOK
<1>4. WorldStep(w)
  BY <1>3, WorldKept DEF WriteStarts, files, PartType, TInv, TypeOK
<1> QED BY <1>2, <1>4 DEF WorkerStep

LEMMA WriteEndsStep ==
    ASSUME TInv, NEW w \in Workers, WriteEnds(w)
    PROVE  WorkerStep(w)
<1> DEFINE t == w[2]
           r == [row[t] EXCEPT !.state = "verifying"]
<1>1. pc[w] \in InLoop /\ "verify" \in Labels /\ row[t] \in Row
  BY Local DEF WriteEnds, InLoop, Labels
<1>2. ControlStep(w)
  <2>1. CASE Legal(t, "verifying")
    <3>1. Put(t, r) /\ Goto(w, "verify") /\ UNCHANGED <<job, lock>>
      BY <2>1 DEF WriteEnds
    <3>2. r \in Row /\ r.cancel = row[t].cancel
      BY <1>1 DEF Row, States
    <3>3. \E q \in Row : q.cancel = row[w[2]].cancel /\ Put(w[2], q)
      BY <3>1, <3>2
    <3> QED BY <1>1, <3>1, <3>3, KeepJob
  <2>2. CASE ~ Legal(t, "verifying")
    BY <1>1, <2>2, FailStep DEF WriteEnds, Kinds
  <2> QED BY <2>1, <2>2
<1>3. store' \in StoreType
  BY WrittenType DEF WriteEnds
<1>4. WorldStep(w)
  BY <1>3, WorldKept DEF WriteEnds, files, PartType, TInv, TypeOK
<1> QED BY <1>2, <1>4 DEF WorkerStep

LEMMA VerifyStep ==
    ASSUME TInv, NEW w \in Workers, Verify(w)
    PROVE  WorkerStep(w)
<1> DEFINE p == job[w].path
           g == IF IsStaging(p) THEN NoPath ELSE p
           j == [job[w] EXCEPT !.goal = g]
           l == IF IsStaging(p) THEN "lock" ELSE "final"
<1>1. pc[w] \in InLoop /\ job[w] \in Job /\ p \in Paths \cup {NoPath} /\ l \in Labels /\ l # "receipt"
  BY Local DEF Verify, InLoop, Labels, Job
<1>2. ControlStep(w)
  <2>1. CASE Whole(p)
    <3>1. UNCHANGED <<row, lock>> /\ Goto(w, l) /\ job' = [job EXCEPT ![w].goal = g]
      BY <2>1 DEF Verify, Whole
    <3>2. job' = [job EXCEPT ![w] = j]
      BY <3>1 DEF TInv, TypeOK
    <3>3. j \in Job /\ j.try = job[w].try /\ j.outside = job[w].outside
      <4>1. g \in Paths \cup {NoPath}
        BY <1>1
      <4> HIDE DEF g
      <4> QED BY <1>1, <4>1 DEF Job
    <3> HIDE DEF j, l
    <3> QED BY <1>1, <3>1, <3>2, <3>3, SameTry
  <2>2. CASE ~ Whole(p)
    BY <1>1, <2>2, FailStep DEF Verify, Kinds
  <2> QED BY <2>1, <2>2
<1> QED BY <1>2, WorldSame DEF Verify, WorkerStep, TInv, TypeOK

LEMMA MoveToFinalStep ==
    ASSUME TInv, NEW w \in Workers, MoveToFinal(w)
    PROVE  WorkerStep(w)
<1> DEFINE source == job[w].path
<1>1. pc[w] \in InLoop /\ "final" \in Labels
  BY DEF MoveToFinal, InLoop, Labels
<1>2. ControlStep(w) /\ store' \in StoreType
  <2>1. CASE Exists(source)
    <3>1. /\ store' = [store EXCEPT ![job[w].goal] = store[source], ![source] = Absent]
          /\ Unlock(w) /\ Goto(w, "final") /\ UNCHANGED <<row, job>>
      BY <2>1 DEF MoveToFinal
    <3>2. source \in Paths /\ store[source] \in [by : Owners, whole : BOOLEAN]
      BY <2>1, Local DEF Exists, Job, TInv, TypeOK
    <3>3. Absent \in [by : Owners, whole : BOOLEAN]
      BY DEF Absent, Owners
    <3>4. store' \in StoreType
      <4> HIDE DEF source
      <4> QED BY <3>1, <3>2, <3>3 DEF StoreType, TInv, TypeOK
    <3>5. lock' \in {lock, w, NoWorker}
      BY <3>1 DEF Unlock
    <3> QED BY <1>1, <3>1, <3>4, <3>5, KeepJob
  <2>2. CASE ~ Exists(source)
    BY <1>1, <2>2, FailStep DEF MoveToFinal, Kinds, StoreType, TInv, TypeOK
  <2> QED BY <2>1, <2>2
<1>3. WorldStep(w)
  BY <1>2, WorldKept DEF MoveToFinal, files, PartType, TInv, TypeOK
<1> QED BY <1>2, <1>3 DEF WorkerStep

LEMMA FinalCheckStep ==
    ASSUME TInv, NEW w \in Workers, FinalCheck(w)
    PROVE  WorkerStep(w)
<1>1. pc[w] \in InLoop /\ "complete" \in Labels
  BY DEF FinalCheck, InLoop, Labels
<1>2. \/ Goto(w, "complete") /\ UNCHANGED <<row, job, lock>>
      \/ \E kind \in Kinds : Fail(w, kind)
  BY DEF FinalCheck, Kinds
<1>3. ControlStep(w)
  BY <1>1, <1>2, FailStep, KeepJob
<1> QED BY <1>3, WorldSame DEF FinalCheck, WorkerStep, TInv, TypeOK


LEMMA ReuseFinalStep ==
    ASSUME TInv, NEW w \in Workers, ReuseFinal(w)
    PROVE  WorkerStep(w)
<1>1. pc[w] \in InLoop /\ job[w].goal \in Paths \cup {NoPath}
  BY Local DEF ReuseFinal, InLoop, Labels, Job
<1>2. Fail(w, "conflict") \/ Claim(w, job[w].goal)
  BY DEF ReuseFinal
<1>3. ControlStep(w)
  BY <1>1, <1>2, FailStep, ClaimStep DEF Kinds
<1> QED BY <1>3, WorldSame DEF ReuseFinal, WorkerStep, TInv, TypeOK

LEMMA ReceiveStep ==
    ASSUME TInv, NEW w \in Workers, Receive(w)
    PROVE  WorkerStep(w)
<1> DEFINE t == w[2]
           p == job[w].goal
           r == Receipt(row[t], p)
<1>1. pc[w] \in InLoop /\ row[t] \in Row /\ t \in Tasks /\ p \in Paths \cup {NoPath}
  BY Local DEF Receive, InLoop, Labels, Job
<1>2. ControlStep(w)
  <2>1. CASE Legal(t, "cleanup_pending")
    <3>1. row' = [row EXCEPT ![t] = r] /\ pc' = [pc EXCEPT ![w] = "receipt"]
          /\ UNCHANGED <<job, lock>>
      BY <2>1 DEF Receive, Put, Goto
    <3>2. r \in Row /\ r.cancel = row[t].cancel /\ r.state = "cleanup_pending" /\ r.verified
      <4> HIDE DEF p
      <4> QED BY <1>1 DEF Receipt, Row, States, Kinds
    <3>3. row'[t] = r
      BY <1>1, <3>1 DEF TInv, TypeOK
    <3>4. Uncounted(w, job[w]) \/ job[w].try < MaxRetries
      BY <1>1 DEF TInv, TryBound
    <3>5. "receipt" \in Labels
      BY DEF Labels
    <3> HIDE DEF r
    <3> QED BY <3>1, <3>2, <3>3, <3>4, <3>5 DEF ControlStep
  <2>2. CASE ~ Legal(t, "cleanup_pending")
    BY <1>1, <2>2, FailStep DEF Receive, Kinds
  <2> QED BY <2>1, <2>2
<1>3. store' \in StoreType
  <2>1. Absent \in [by : Owners, whole : BOOLEAN]
    BY DEF Absent, Owners
  <2>2. store' = [store EXCEPT ![row[t].temp] = Absent] \/ UNCHANGED store
    BY DEF Receive
  <2> QED BY <2>1, <2>2 DEF StoreType, TInv, TypeOK
<1>4. WorldStep(w)
  BY <1>3, WorldKept DEF Receive, files, PartType, TInv, TypeOK
<1> QED BY <1>2, <1>4 DEF WorkerStep

LEMMA CleanStep ==
    ASSUME TInv, NEW w \in Workers, Clean(w) \/ CleanFails(w)
    PROVE  WorkerStep(w)
<1>1. pc[w] \in InLoop /\ {"cleaned", "idle"} \subseteq Labels
  BY DEF Clean, CleanFails, InLoop, Labels
<1>2. CASE Clean(w)
  <2>1. ControlStep(w)
    BY <1>1, <1>2, KeepJob DEF Clean
  <2>2. WorldStep(w)
    BY <1>2 DEF Clean, WorldStep, WorldOK, commands, TInv, TypeOK
  <2> QED BY <2>1, <2>2 DEF WorkerStep
<1>3. CASE CleanFails(w)
  <2>1. ControlStep(w)
    BY <1>1, <1>3, KeepJob DEF CleanFails
  <2>2. spent' \in [Events -> Nat]
    BY <1>3, SpendType DEF CleanFails, Events
  <2> QED BY <1>3, <2>1, <2>2, WorldSame DEF CleanFails, WorkerStep
<1> QED BY <1>2, <1>3

LEMMA CompleteStep ==
    ASSUME TInv, NEW w \in Workers, Complete(w)
    PROVE  WorkerStep(w)
<1> DEFINE r == [row[w[2]] EXCEPT !.state = "completed", !.lpath = "none"]
<1>1. row[w[2]] \in Row /\ Notice \in Labels \ InLoop /\ Notice # "receipt"
  BY Local DEF Notice, Labels, InLoop
<1>2. r \in Row /\ r.cancel = row[w[2]].cancel
  BY <1>1 DEF Row, States
<1>3. Put(w[2], r) /\ Goto(w, Notice) /\ UNCHANGED <<job, lock>>
  BY DEF Complete
<1>4. ControlStep(w)
  <2> HIDE DEF r
  <2> QED BY <1>1, <1>2, <1>3, KeepJob
<1> QED BY <1>4, WorldSame DEF Complete, WorkerStep, TInv, TypeOK

LEMMA StreamRefusedStep ==
    ASSUME TInv, NEW w \in Workers, StreamRefused(w)
    PROVE  WorkerStep(w)
<1> DEFINE t == w[2]
           failed(kind) == [row[t] EXCEPT !.state = "download_failed", !.lpath = "none",
                                          !.kind = kind]
<1>1. row[t] \in Row /\ {Notice, "idle"} \subseteq Labels \ InLoop /\ Notice # "receipt"
  BY Local DEF Notice, Labels, InLoop
<1>2. \A kind \in {"access", "refused"} : failed(kind) \in Row /\ failed(kind).cancel = row[t].cancel
  BY <1>1 DEF Row, States, Kinds
<1>3. \/ UNCHANGED row /\ Goto(w, "idle")
      \/ Goto(w, Notice) /\ \E kind \in {"access", "refused"} : Put(t, failed(kind))
  BY DEF StreamRefused
<1>4. ControlStep(w)
  <2> HIDE DEF failed
  <2> QED BY <1>1, <1>2, <1>3, KeepJob DEF StreamRefused
<1>5. spent' \in [Events -> Nat]
  BY SpendType DEF StreamRefused, Events
<1> QED BY <1>4, <1>5, WorldSame DEF StreamRefused, WorkerStep

LEMMA RemoteRetryStep ==
    ASSUME TInv, NEW w \in Workers, RemoteRetry(w)
    PROVE  WorkerStep(w)
<1> DEFINE t == w[2]
           n == job[w].try
           r == [row[t] EXCEPT !.utries = n]
<1>1. pc[w] \in InLoop /\ row[t] \in Row /\ n \in 0..MaxRetries /\ "resume" \in Labels
  BY Local DEF RemoteRetry, InLoop, Labels, Job
<1>2. r \in Row /\ r.cancel = row[t].cancel
  <2> HIDE DEF n
  <2> QED BY <1>1 DEF Row
<1>3. (Put(t, r) \/ Put(t, row[t])) /\ Goto(w, "resume") /\ UNCHANGED <<job, lock>>
  BY DEF RemoteRetry
<1>4. ControlStep(w)
  <2> HIDE DEF r
  <2> QED BY <1>1, <1>2, <1>3, KeepJob
<1> QED BY <1>4, WorldSame DEF RemoteRetry, WorkerStep, TInv, TypeOK

LEMMA NotifiedStep ==
    ASSUME TInv, NEW w \in Workers, Notified(w)
    PROVE  WorkerStep(w)
<1>1. "idle" \in Labels /\ "idle" \notin InLoop
  BY DEF Labels, InLoop
<1>2. ControlStep(w)
  BY <1>1, KeepJob DEF Notified
<1> QED BY <1>2, WorldSame DEF Notified, WorkerStep, TInv, TypeOK

LEMMA RemoteStepType ==
    ASSUME TInv, NEW w \in Workers, RemoteStep(w)
    PROVE  WorkerStep(w)
BY ResumeStep, ResumeTempStep, StreamHeadStep, TakeLockStep, ChooseFinalStep, ReuseFinalStep,
   WriteStartsStep, WriteEndsStep, VerifyStep, MoveToFinalStep, FinalCheckStep, ReceiveStep,
   RemoteRetryStep, NotifiedStep, RemoteErrorStep, StreamErrorStep, StreamRefusedStep
   DEF RemoteStep

LEMMA DownloadStepType ==
    ASSUME TInv, NEW t \in Tasks, DownloadStep(t)
    PROVE  WorkerStep(D(t))
BY DownloadBeginStep, DownloadRetryStep, DownloadArrivesStep, DownloadErrorStep,
   DownloadRefusedStep DEF DownloadStep


-------------------------------------------------------------------------------
(* The steps of _upload_one before its first attempt *)

LEMMA CheckLocalStep ==
    ASSUME TInv, NEW w \in Workers, NEW r \in Row, r.cancel = row[w[2]].cancel,
           r.lpath = row[w[2]].lpath, CheckLocal(w, r), UNCHANGED <<retained, store, lock, commands>>
    PROVE  WorkerStep(w)
<1> DEFINE t == w[2]
           n == r.utries
           place == r.lpath
           fresh == [NewJob EXCEPT !.how = "upload", !.loc = place, !.try = n]
           again == Downloadable(r)
           damaged == [r EXCEPT !.state = "verification_failed_retained"]
           kept == [r EXCEPT !.state = "upload_failed_retained"]
           marked == [job[w] EXCEPT !.outside = TRUE]
<1>1. t \in Tasks /\ row[t] \in Row /\ job[w] \in Job
  BY Local
<1>2. n \in 0..MaxRetries /\ place \in {"none", "part", "file"}
  BY DEF Row
<1>3. fresh \in Job /\ fresh.try = n
  <2> HIDE DEF n, place
  <2> QED BY <1>2, NewJobType DEF Job
<1>4. marked \in Job
  BY <1>1 DEF Job
<1>5. again \in Row /\ again.cancel = r.cancel
  <2>1. 0 \in 0..MaxRetries
    BY PipelineAssumption
  <2> QED BY <2>1 DEF Downloadable, Row, States
<1>6. damaged \in Row /\ damaged.cancel = r.cancel /\ kept \in Row /\ kept.cancel = r.cancel
  BY DEF Row, States
<1>7. \E x \in Row : x.cancel = row[t].cancel /\ Put(t, x)
  <2>1. Put(t, r) \/ Put(t, again) \/ Put(t, damaged) \/ Put(t, kept)
    BY DEF CheckLocal
  <2> HIDE DEF again, damaged, kept
  <2> QED BY <1>5, <1>6, <2>1
<1>8. \/ job' = [job EXCEPT ![w] = marked]
      \/ job' = [job EXCEPT ![w] = fresh]
  <2>1. \/ job' = [job EXCEPT ![w].outside = TRUE]
        \/ job' = [job EXCEPT ![w] = fresh]
    BY DEF CheckLocal
  <2> HIDE DEF fresh
  <2> QED BY <2>1 DEF TInv, TypeOK
<1>9. \/ Goto(w, "resume") /\ job' = [job EXCEPT ![w] = fresh] /\ n < MaxRetries
      \/ Goto(w, "idle")
      \/ Goto(w, "notify")
  BY DEF CheckLocal, Notice, AttemptsLeft
<1>10. {"resume", "idle", "notify"} \subseteq Labels /\ {"idle", "notify"} \cap InLoop = {}
  BY DEF Labels, InLoop
<1>11. ControlStep(w)
  <2> HIDE DEF fresh, marked
  <2>1. CASE Goto(w, "resume") /\ job' = [job EXCEPT ![w] = fresh] /\ n < MaxRetries
    BY <1>3, <1>7, <1>10, <2>1, NewJobStep
  <2>2. CASE Goto(w, "idle")
    BY <1>3, <1>4, <1>7, <1>8, <1>10, <2>2, NewJobStep
  <2>3. CASE Goto(w, "notify")
    BY <1>3, <1>4, <1>7, <1>8, <1>10, <2>3, NewJobStep
  <2> QED BY <1>9, <2>1, <2>2, <2>3
<1>12. WorldStep(w)
  <2>1. spent' \in [Events -> Nat]
    BY SpendType DEF CheckLocal, Events, TInv, TypeOK
  <2>2. /\ part' \in PartType
        /\ file' \in [Tasks -> {"absent", "short", "whole"}]
    BY DEF CheckLocal, files, PartType, TInv, TypeOK
  <2>3. UNCHANGED file \/ (file' = [file EXCEPT ![t] = "absent"] /\ file[t] # "whole")
    <3>1. \/ UNCHANGED file
          \/ /\ place = "file" /\ Copy(t) \in {"short", "partial"}
             /\ file' = [file EXCEPT ![t] = "absent"]
      BY DEF CheckLocal, files
    <3>2. place = "file" => Copy(t) = file[t]
      BY DEF Copy
    <3> QED BY <3>1, <3>2
  <2>4. \A u \in Tasks : file[u] = "whole" => file'[u] = "whole"
    BY <1>1, <2>3 DEF TInv, TypeOK
  <2> QED BY <2>1, <2>2, <2>4 DEF WorldStep, WorldOK, PartType, commands, TInv, TypeOK
<1> QED BY <1>11, <1>12 DEF WorkerStep

LEMMA UploadBeginStep ==
    ASSUME TInv, NEW t \in Tasks, UploadBegin(t)
    PROVE  WorkerStep(U(t))
<1> DEFINE w == U(t)
           place == row[t].lpath
           j == [NewJob EXCEPT !.how = "upload", !.loc = place, !.outside = TRUE]
<1>1. w \in Workers /\ w[2] = t /\ w[1] = "upload" /\ row[t] \in Row
  BY WorkerTypes DEF U, TInv, TypeOK
<1>2. {"idle", "recheck"} \subseteq Labels /\ "idle" \notin InLoop
  BY DEF Labels, InLoop
<1>3. CASE Goto(w, "idle") /\ UNCHANGED <<row, files, job, spent>>
  <2>1. ControlStep(w)
    BY <1>1, <1>2, <1>3, KeepJob DEF UploadBegin
  <2> QED BY <1>1, <1>3, <2>1, WorldSame DEF UploadBegin, WorkerStep, TInv, TypeOK
<1>4. CASE /\ Goto(w, "recheck") /\ UNCHANGED <<row, files, spent>>
           /\ job' = [job EXCEPT ![w] = j]
  <2>1. j \in Job /\ j.outside
    <3>1. place \in {"none", "part", "file"}
      BY <1>1 DEF Row
    <3> HIDE DEF place
    <3> QED BY <3>1, NewJobType DEF Job
  <2>2. Uncounted(w, j)
    BY <1>1, <2>1 DEF Uncounted
  <2>3. ControlStep(w)
    <3> HIDE DEF j, w
    <3> QED BY <1>1, <1>2, <1>4, <2>1, <2>2, NewJobStep DEF UploadBegin
  <2> QED BY <1>1, <1>4, <2>3, WorldSame DEF UploadBegin, WorkerStep, TInv, TypeOK
<1>5. CASE CheckLocal(w, row[t])
  BY <1>1, <1>5, CheckLocalStep DEF UploadBegin
<1> QED BY <1>3, <1>4, <1>5 DEF UploadBegin

LEMMA RecheckStep ==
    ASSUME TInv, NEW w \in Workers, Recheck(w)
    PROVE  WorkerStep(w)
<1> DEFINE t == w[2]
           r == row[t]
           p == r.rpath
           j == [job[w] EXCEPT !.goal = p]
           held == [r EXCEPT !.state = "verification_failed_retained", !.kind = "conflict",
                             !.verified = FALSE]
           again == [r EXCEPT !.state = "queued", !.lpath = "none", !.verified = FALSE]
           forgotten == [r EXCEPT !.state = "waiting_upload", !.rpath = NoPath,
                                  !.final = NoPath, !.verified = FALSE]
<1>1. pc[w] \in InLoop /\ r \in Row /\ job[w] \in Job /\ p \in Paths \cup {NoPath}
  BY Local DEF Recheck, InLoop, Labels, Row
<1>2. {"idle", "complete"} \subseteq Labels /\ "idle" \notin InLoop
  BY DEF Labels, InLoop
<1>3. /\ held \in Row /\ held.cancel = r.cancel /\ again \in Row /\ again.cancel = r.cancel
      /\ forgotten \in Row /\ forgotten.cancel = r.cancel /\ forgotten.lpath = r.lpath
  <2>1. held \in Row /\ held.cancel = r.cancel
    BY <1>1 DEF Row, States, Kinds
  <2>2. again \in Row /\ again.cancel = r.cancel
    BY <1>1 DEF Row, States
  <2>3. forgotten \in Row /\ forgotten.cancel = r.cancel /\ forgotten.lpath = r.lpath
    BY <1>1 DEF Row, States
  <2> QED BY <2>1, <2>2, <2>3
<1>4. CASE Whole(p)
  <2>1. /\ Goto(w, "complete") /\ UNCHANGED <<row, files, spent, lock>>
        /\ job' = [job EXCEPT ![w].goal = p]
    BY <1>4 DEF Recheck, Whole
  <2>2. job' = [job EXCEPT ![w] = j]
    BY <2>1 DEF TInv, TypeOK
  <2>3. j \in Job /\ j.try = job[w].try /\ j.outside = job[w].outside
    <3> HIDE DEF p
    <3> QED BY <1>1 DEF Job
  <2>4. ControlStep(w)
    <3> HIDE DEF j
    <3> QED BY <1>1, <1>2, <2>1, <2>2, <2>3, SameTry
  <2> QED BY <2>1, <2>4, WorldSame DEF Recheck, WorkerStep, TInv, TypeOK
<1>5. CASE /\ Put(t, held) \/ Put(t, again)
           /\ Goto(w, "idle") /\ UNCHANGED <<job, files, spent>>
  <2>1. ControlStep(w)
    <3> HIDE DEF held, again
    <3> QED BY <1>1, <1>2, <1>3, <1>5, KeepJob DEF Recheck
  <2> QED BY <1>5, <2>1, WorldSame DEF Recheck, WorkerStep, TInv, TypeOK
<1>6. CASE CheckLocal(w, forgotten)
  <2>1. UNCHANGED <<retained, store, lock, commands>>
    BY DEF Recheck
  <2> HIDE DEF forgotten
  <2> QED BY <1>3, <1>6, <2>1, CheckLocalStep
<1> QED BY <1>4, <1>5, <1>6 DEF Recheck

LEMMA SynchronousStepType ==
    ASSUME TInv, NEW w \in Workers, SynchronousStep(w)
    PROVE  \E v \in Workers : WorkerStep(v) /\ pc[v] \in Synchronous
<1>1. w[2] \in Tasks /\ D(w[2]) \in Workers
  BY WorkerTypes
<1>2. CASE DownloadRename(w[2]) \/ DownloadRenameFails(w[2]) \/ DownloadRecord(w[2])
  <2>1. WorkerStep(D(w[2]))
    BY <1>1, <1>2, DownloadRenameStep, DownloadErrorStep, DownloadRecordStep
  <2>2. pc[D(w[2])] \in Synchronous
    BY <1>2 DEF DownloadRename, DownloadRenameFails, DownloadRecord, Synchronous
  <2> QED BY <1>1, <2>1, <2>2
<1>3. CASE Clean(w) \/ CleanFails(w) \/ Complete(w)
  <2>1. WorkerStep(w)
    BY <1>3, CleanStep, CompleteStep
  <2>2. pc[w] \in Synchronous
    BY <1>3 DEF Clean, CleanFails, Complete, Synchronous
  <2> QED BY <2>1, <2>2
<1> QED BY <1>2, <1>3 DEF SynchronousStep

-------------------------------------------------------------------------------
(* The scheduler's steps *)

LEMMA StartStep ==
    ASSUME TInv, NEW t \in Tasks, StartDownload(t) \/ StartUpload(t)
    PROVE  \E w \in {D(t), U(t)} : WorkerStep(w)
<1> DEFINE r == [row[t] EXCEPT !.state = "reserved", !.kind = "none",
                               !.mode = IF @ = "stream" \/ t \in Oversized
                                        THEN "stream" ELSE "local"]
<1>1. row[t] \in Row /\ D(t) \in Workers /\ U(t) \in Workers /\ D(t)[2] = t
  BY WorkerTypes DEF D, TInv, TypeOK
<1>2. "start" \in Labels /\ "start" \notin InLoop
  BY DEF Labels, InLoop
<1>3. r \in Row /\ r.cancel = row[t].cancel
  <2> DEFINE m == IF row[t].mode = "stream" \/ t \in Oversized THEN "stream" ELSE "local"
             x == [row[t] EXCEPT !.state = "reserved", !.kind = "none", !.mode = m]
  <2>1. m \in {"local", "stream"} /\ r = x
    BY <1>1 DEF Row
  <2>2. x \in Row /\ x.cancel = row[t].cancel
    <3> HIDE DEF m
    <3> QED BY <1>1, <2>1 DEF Row, States, Kinds
  <2> HIDE DEF r, x
  <2> QED BY <2>1, <2>2
<1>4. CASE StartDownload(t)
  <2>1. Put(t, r) /\ Goto(D(t), "start") /\ UNCHANGED <<job, lock>>
    BY <1>4 DEF StartDownload
  <2>2. \E q \in Row : q.cancel = row[D(t)[2]].cancel /\ Put(D(t)[2], q)
    BY <1>1, <1>3, <2>1
  <2>3. ControlStep(D(t))
    BY <1>1, <1>2, <2>1, <2>2, KeepJob
  <2> QED BY <1>1, <1>4, <2>3, WorldSame DEF StartDownload, WorkerStep, TInv, TypeOK
<1>5. CASE StartUpload(t)
  <2>1. Goto(U(t), "start") /\ UNCHANGED <<row, job, lock>>
    BY <1>5 DEF StartUpload
  <2>2. ControlStep(U(t))
    BY <1>1, <1>2, <2>1, KeepJob
  <2> QED BY <1>1, <1>5, <2>2, WorldSame DEF StartUpload, WorkerStep, TInv, TypeOK
<1> QED BY <1>4, <1>5


-------------------------------------------------------------------------------
(* The inductive invariant *)

\* At most one coroutine stands inside a stretch without an await,
OneAtATime ==
    \A v, w \in Workers : pc[v] \in Synchronous /\ pc[w] \in Synchronous => v = w

\* the one about to delete a local copy has its receipt on record,
ReceiptHeld ==
    \A w \in Workers :
       pc[w] = "receipt" => row[w[2]].state = "cleanup_pending" /\ row[w[2]].verified

\* and a /cancel on its way has its intent on record.
Withdrawing == \A t \in Tasks : cancelling[t] # "idle" => row[t].cancel

RInv == TInv /\ OneAtATime /\ ReceiptHeld /\ Withdrawing

\* What the steps of the scheduler, the commands and the world may do: end
\* workers, but not move them.
QuietStep ==
    /\ row' \in [Tasks -> Row] /\ job' \in [Workers -> Job]
    /\ lock' \in Workers \cup {NoWorker}
    /\ pc' \in [Workers -> Labels]
    /\ \A w \in Workers : pc'[w] \in {pc[w], "idle"}
    /\ \A w \in Workers : pc'[w] # "idle" => job'[w] = job[w]
    /\ WorldOK'
    /\ Withdrawing'
    /\ \A t \in Tasks :
          file[t] = "whole" /\ file'[t] # "whole" =>
             \/ spent'["loss"] > spent["loss"]
             \/ row[t].cancel \/ spent'["cancel"] > spent["cancel"]

LEMMA QuietKeeps ==
    ASSUME RInv, QuietStep, Yielded \/ \A w \in Workers : pc'[w] = "idle"
    PROVE  RInv'
<1>1. TypeOK'
  BY DEF QuietStep, WorldOK, TypeOK
<1>2. TryBound'
  <2> SUFFICES ASSUME NEW w \in Workers, pc'[w] \in InLoop
               PROVE  Uncounted(w, job'[w]) \/ job'[w].try < MaxRetries
    BY DEF TryBound
  <2>1. pc'[w] = pc[w] /\ job'[w] = job[w]
    BY DEF QuietStep, InLoop
  <2> QED BY <2>1 DEF RInv, TInv, TryBound
<1>3. \A w \in Workers : pc'[w] \notin Synchronous
  BY DEF QuietStep, Yielded, Synchronous
<1> QED BY <1>1, <1>2, <1>3 DEF QuietStep, RInv, TInv, OneAtATime, ReceiptHeld, Synchronous

LEMMA WorkerKeeps ==
    ASSUME RInv, NEW w \in Workers, WorkerStep(w), Yielded \/ pc[w] \in Synchronous
    PROVE  RInv'
<1>1. TInv'
  BY StepType DEF RInv, TInv, TypeOK, WorkerStep, WorldStep, WorldOK
<1>2. ASSUME NEW v \in Workers, v # w
      PROVE  pc'[v] \notin Synchronous
  <2>1. pc'[v] = pc[v]
    BY <1>2 DEF WorkerStep, ControlStep, RInv, TInv, TypeOK
  <2> QED BY <1>2, <2>1 DEF RInv, OneAtATime, Yielded
<1>3. OneAtATime'
  BY <1>2 DEF OneAtATime
<1>4. ReceiptHeld'
  BY <1>2 DEF ReceiptHeld, WorkerStep, ControlStep, Synchronous
<1>5. Withdrawing'
  <2>1. \A t \in Tasks : row'[t].cancel = row[t].cancel
    BY WorkerTypes DEF WorkerStep, ControlStep, RInv, TInv, TypeOK
  <2> QED BY <2>1 DEF Withdrawing, RInv, WorkerStep, WorldStep, commands
<1> QED BY <1>1, <1>3, <1>4, <1>5 DEF RInv

\* What a quiet step shows of the row when the /cancel coroutines stay.
LEMMA CommandKeeps ==
    ASSUME RInv, NEW t \in Tasks, NEW q \in Row, Put(t, q),
           q.cancel = row[t].cancel \/ cancelling[t] = "idle",
           UNCHANGED <<file, pc, job, lock, commands>>, WorldOK'
    PROVE  QuietStep
<1>1. row' \in [Tasks -> Row]
  BY DEF Put, RInv, TInv, TypeOK
<1>2. Withdrawing'
  BY DEF Put, Withdrawing, RInv, TInv, TypeOK, commands
<1> QED BY <1>1, <1>2 DEF QuietStep, RInv, TInv, TypeOK

LEMMA InterruptedType ==
    ASSUME TInv, NEW w \in Workers, NEW r \in Row
    PROVE  /\ Interrupted(w, r) \in Row /\ Interrupted(w, r).cancel = r.cancel
           /\ PartInterrupted(w, r) \in {"absent", "partial", "whole"}
<1> DEFINE back == [r EXCEPT !.state = "queued", !.lpath = "none"]
           done == [r EXCEPT !.state = "waiting_upload", !.lpath = "file"]
           up == [r EXCEPT !.state = "waiting_upload"]
<1>1. \A x \in {back, done, up} : x \in Row /\ x.cancel = r.cancel
  <2>1. back \in Row /\ back.cancel = r.cancel
    BY DEF Row, States
  <2>2. done \in Row /\ done.cancel = r.cancel
    BY DEF Row, States
  <2>3. up \in Row /\ up.cancel = r.cancel
    BY DEF Row, States
  <2> HIDE DEF back, done, up
  <2> QED BY <2>1, <2>2, <2>3
<1>2. Interrupted(w, r) \in {r, back, done, up}
  BY DEF Interrupted, Moved
<1>3. PartInterrupted(w, r) \in {"absent", "partial", "whole"}
  BY WorkerTypes DEF PartInterrupted, TInv, TypeOK
<1> HIDE DEF back, done, up
<1> QED BY <1>1, <1>2, <1>3

LEMMA RecoveredType ==
    ASSUME NEW t \in Tasks, NEW r \in Row, NEW stuck,
           NEW p \in {"absent", "partial", "whole"}
    PROVE  /\ Recovered(t, r, stuck) \in Row /\ Recovered(t, r, stuck).cancel = r.cancel
           /\ PartRecovered(t, r, p, stuck) \in {"absent", "partial", "whole"}
<1> DEFINE n == IF t \in Listened THEN r.dtries ELSE 0
           back == [r EXCEPT !.state = "queued", !.lpath = "none", !.utries = 0]
           done == [r EXCEPT !.state = "waiting_upload", !.lpath = "file", !.utries = 0]
           off == [r EXCEPT !.state = "download_failed"]
           again == [r EXCEPT !.state = "queued", !.lpath = "none", !.utries = 0, !.dtries = n]
<1>1. 0 \in 0..MaxRetries /\ n \in 0..MaxRetries
  BY PipelineAssumption DEF Row
<1>2. \A x \in {back, done, off, Downloadable(r)} : x \in Row /\ x.cancel = r.cancel
  <2> HIDE DEF n
  <2>1. back \in Row /\ back.cancel = r.cancel
    BY <1>1 DEF Row, States
  <2>2. done \in Row /\ done.cancel = r.cancel
    BY <1>1 DEF Row, States
  <2>3. off \in Row /\ off.cancel = r.cancel
    BY DEF Row, States
  <2>4. Downloadable(r) \in Row /\ Downloadable(r).cancel = r.cancel
    BY <1>1 DEF Row, States, Downloadable
  <2> HIDE DEF back, done, off
  <2> QED BY <2>1, <2>2, <2>3, <2>4
<1>3. again \in Row /\ again.cancel = r.cancel
  <2> HIDE DEF n
  <2> QED BY <1>1 DEF Row, States
<1>4. Recovered(t, r, stuck) \in {r, back, done, off, Downloadable(r), again}
  BY DEF Recovered
<1>5. PartRecovered(t, r, p, stuck) \in {"absent", "partial", "whole"}
  BY DEF PartRecovered
<1> HIDE DEF back, done, off, again
<1> QED BY <1>2, <1>3, <1>4, <1>5

LEMMA RestartStep ==
    ASSUME RInv, NEW rows \in [Tasks -> Row], NEW parts \in PartType, Restart(rows, parts),
           spent' \in [Events -> Nat]
    PROVE  QuietStep /\ \A w \in Workers : pc'[w] = "idle"
<1>1. PICK stuck \in SUBSET Tasks :
         /\ row' = [t \in Tasks |-> Recovered(t, rows[t], stuck)]
         /\ part' = [t \in Tasks |-> PartRecovered(t, rows[t], parts[t], stuck)]
  BY DEF Restart
<1>2. row' \in [Tasks -> Row] /\ part' \in PartType
  BY <1>1, RecoveredType DEF PartType
<1>3. store' \in StoreType
  BY LandedType DEF Restart, RInv
<1>4. job' \in [Workers -> Job]
  BY NewJobType DEF Restart
<1>5. pc' = [w \in Workers |-> "idle"] /\ "idle" \in Labels
  BY DEF Restart, Labels
<1>6. WorldOK'
  BY <1>2, <1>3 DEF Restart, WorldOK, StoreType, PartType, RInv, TInv, TypeOK
<1>7. Withdrawing'
  BY DEF Restart, Withdrawing
<1> QED BY <1>2, <1>4, <1>5, <1>6, <1>7 DEF Restart, QuietStep

LEMMA CrashStep ==
    ASSUME RInv, Crash
    PROVE  QuietStep /\ \A w \in Workers : pc'[w] = "idle"
BY RestartStep, SpendType DEF Crash, Events, PartType, RInv, TInv, TypeOK

LEMMA StopStep ==
    ASSUME RInv, Stop
    PROVE  QuietStep
<1> DEFINE rows == [t \in Tasks |-> Interrupted(U(t), Interrupted(D(t), row[t]))]
           parts == [t \in Tasks |-> PartInterrupted(D(t), row[t])]
<1>1. TInv /\ \A t \in Tasks : row[t] \in Row
  BY DEF RInv, TInv, TypeOK
<1>2. rows \in [Tasks -> Row] /\ parts \in PartType
  BY <1>1, InterruptedType, WorkerTypes DEF PartType
<1>3. Restart(rows, parts) /\ spent' \in [Events -> Nat]
  BY <1>1, SpendType DEF Stop, Events
<1> HIDE DEF rows, parts
<1> QED BY <1>2, <1>3, RestartStep

LEMMA DiskEmergencyStep ==
    ASSUME RInv, DiskEmergency
    PROVE  QuietStep
<1>1. TInv /\ \A t \in Tasks : row[t] \in Row
  BY DEF RInv, TInv, TypeOK
<1>2. row' = [t \in Tasks |-> Interrupted(D(t), row[t])]
  BY DEF DiskEmergency
<1>3. row' \in [Tasks -> Row] /\ \A t \in Tasks : row'[t].cancel = row[t].cancel
  BY <1>1, <1>2, InterruptedType, WorkerTypes
<1>4. part' \in PartType
  BY <1>1, InterruptedType, WorkerTypes DEF DiskEmergency, PartType
<1>5. store' \in StoreType
  BY <1>1, LandedType, WorkerTypes DEF DiskEmergency
<1>6. spent' \in [Events -> Nat]
  BY <1>1, SpendType DEF DiskEmergency, Events
<1>7. /\ pc' \in [Workers -> Labels]
      /\ \A w \in Workers : pc'[w] \in {pc[w], "idle"}
  <2>1. "idle" \in Labels
    BY DEF Labels
  <2> QED BY <1>1, <2>1 DEF DiskEmergency, TInv, TypeOK
<1>8. WorldOK'
  BY <1>4, <1>5, <1>6 DEF DiskEmergency, WorldOK, StoreType, PartType, commands, RInv, TInv, TypeOK
<1>9. Withdrawing'
  BY <1>3 DEF DiskEmergency, Withdrawing, commands, RInv
<1> QED BY <1>3, <1>7, <1>8, <1>9 DEF DiskEmergency, QuietStep, RInv, TInv, TypeOK


-------------------------------------------------------------------------------
(* /cancel *)

FileType == [Tasks -> {"absent", "short", "whole"}]

LEMMA RecordedType == ASSUME NEW r \in Row PROVE Recorded(r) \in SUBSET Paths
BY DEF Recorded, Row

LEMMA EndCancelStep ==
    ASSUME TInv, NEW t \in Tasks, NEW r \in Row, NEW used \in [Events -> Nat],
           EndCancel(t, r, used)
    PROVE  /\ \E q \in Row : Put(t, q)
           /\ part' \in PartType /\ file' \in FileType
           /\ \A u \in Tasks : u # t => file'[u] = file[u]
           /\ spent' \in [Events -> Nat] /\ spent'["cancel"] = used["cancel"]
<1> DEFINE ended == [r EXCEPT !.state = "cancelled", !.lpath = "none", !.rpath = NoPath,
                              !.temp = NoPath, !.final = NoPath, !.cancel = FALSE]
<1>1. ended \in Row
  BY DEF Row, States
<1>2. \E q \in Row : Put(t, q)
  <2>1. Put(t, r) \/ Put(t, ended)
    BY DEF EndCancel
  <2> HIDE DEF ended
  <2> QED BY <1>1, <2>1
<1>3. part' \in PartType
  BY DEF EndCancel, PartType, TInv, TypeOK
<1>4. file' \in FileType /\ \A u \in Tasks : u # t => file'[u] = file[u]
  <2>1. UNCHANGED file \/ file' = [file EXCEPT ![t] = "absent"]
    BY DEF EndCancel
  <2> QED BY <2>1 DEF FileType, TInv, TypeOK
<1>5. spent' \in [Events -> Nat] /\ spent'["cancel"] = used["cancel"]
  BY DEF EndCancel, Events
<1> QED BY <1>2, <1>3, <1>4, <1>5

LEMMA SettleCancelStep ==
    ASSUME TInv, NEW t \in Tasks, NEW r \in Row, r.cancel, NEW used \in [Events -> Nat],
           SettleCancel(t, r, used)
    PROVE  /\ \E q \in Row, c \in {"idle", "purging"} :
                 /\ Put(t, q) /\ cancelling' = [cancelling EXCEPT ![t] = c]
                 /\ c # "idle" => q.cancel
           /\ part' \in PartType /\ file' \in FileType
           /\ \A u \in Tasks : u # t => file'[u] = file[u]
           /\ purge' \in [Tasks -> SUBSET Paths]
           /\ spent' \in [Events -> Nat] /\ spent'["cancel"] = used["cancel"]
<1> DEFINE kept == [r EXCEPT !.cancel = FALSE]
<1>1. kept \in Row
  BY DEF Row
<1>2. CASE /\ Put(t, kept) /\ cancelling' = [cancelling EXCEPT ![t] = "idle"]
           /\ spent' = used /\ UNCHANGED <<files, purge>>
  <2>1. UNCHANGED <<file, part, purge>>
    BY <1>2 DEF files
  <2> HIDE DEF kept
  <2> QED BY <1>1, <1>2, <2>1 DEF PartType, FileType, TInv, TypeOK
<1>3. CASE /\ EndCancel(t, r, used) /\ UNCHANGED purge
           /\ cancelling' = [cancelling EXCEPT ![t] = "idle"]
  BY <1>3, EndCancelStep DEF TInv, TypeOK
<1>4. CASE /\ Put(t, r) /\ cancelling' = [cancelling EXCEPT ![t] = "purging"]
           /\ purge' = [purge EXCEPT ![t] = Recorded(r)]
           /\ spent' = used /\ UNCHANGED files
  <2>1. purge' \in [Tasks -> SUBSET Paths]
    BY <1>4, RecordedType DEF TInv, TypeOK
  <2>2. UNCHANGED <<file, part>>
    BY <1>4 DEF files
  <2> QED BY <1>4, <2>1, <2>2 DEF PartType, FileType, TInv, TypeOK
<1> QED BY <1>2, <1>3, <1>4 DEF SettleCancel

LEMMA CancelRunningStep ==
    ASSUME TInv, NEW t \in Tasks, NEW r \in Row, r.cancel, NEW used \in [Events -> Nat],
           CancelRunning(t, r, used)
    PROVE  /\ \E q \in Row : Put(t, q) /\ q.cancel
           /\ cancelling' = [cancelling EXCEPT ![t] = "asked"]
           /\ part' \in PartType /\ store' \in StoreType
           /\ pc' \in [Workers -> Labels] /\ \A w \in Workers : pc'[w] \in {pc[w], "idle"}
           /\ lock' \in Workers \cup {NoWorker}
           /\ spent' = used /\ UNCHANGED <<file, purge>>
<1> DEFINE w == IF Active(D(t)) THEN D(t) ELSE U(t)
<1>1. w \in Workers
  BY WorkerTypes
<1>2. /\ Put(t, Interrupted(w, r)) /\ Goto(w, "idle") /\ Unlock(w)
      /\ part' = [part EXCEPT ![t] = PartInterrupted(w, r)]
      /\ store' \in {store, Landed({w})}
      /\ cancelling' = [cancelling EXCEPT ![t] = "asked"]
      /\ spent' = used /\ UNCHANGED <<file, purge>>
  BY DEF CancelRunning
<1> HIDE DEF w
<1>3. \E q \in Row : Put(t, q) /\ q.cancel
  BY <1>1, <1>2, InterruptedType
<1>4. part' \in PartType
  BY <1>1, <1>2, InterruptedType DEF PartType, TInv, TypeOK
<1>5. store' \in StoreType
  BY <1>1, <1>2, LandedType DEF StoreType, TInv, TypeOK
<1>6. pc' \in [Workers -> Labels] /\ \A v \in Workers : pc'[v] \in {pc[v], "idle"}
  BY <1>1, <1>2 DEF Goto, Labels, TInv, TypeOK
<1>7. lock' \in Workers \cup {NoWorker}
  BY <1>1, <1>2 DEF Unlock, TInv, TypeOK
<1> QED BY <1>2, <1>3, <1>4, <1>5, <1>6, <1>7

LEMMA CancelAskStep ==
    ASSUME RInv, NEW t \in Tasks, CancelAsk(t)
    PROVE  QuietStep
<1> DEFINE asked == [row[t] EXCEPT !.cancel = TRUE]
           used == [spent EXCEPT !["cancel"] = @ + 1]
<1>1. TInv /\ row[t] \in Row /\ "cancel" \in Events /\ spent \in [Events -> Nat]
  BY DEF RInv, TInv, TypeOK, Events
<1>2. asked \in Row /\ asked.cancel
  BY <1>1 DEF Row
<1>3. used \in [Events -> Nat] /\ used["cancel"] > spent["cancel"]
  BY <1>1
<1>4. UNCHANGED <<retained, job>>
  BY DEF CancelAsk
<1>5. \/ CancelRunning(t, asked, used)
      \/ SettleCancel(t, asked, used) /\ UNCHANGED <<store, pc, lock>>
  BY DEF CancelAsk
<1> HIDE DEF asked, used
<1>6. CASE CancelRunning(t, asked, used)
  <2>1. /\ \E q \in Row : Put(t, q) /\ q.cancel
        /\ cancelling' = [cancelling EXCEPT ![t] = "asked"]
        /\ part' \in PartType /\ store' \in StoreType
        /\ pc' \in [Workers -> Labels] /\ \A w \in Workers : pc'[w] \in {pc[w], "idle"}
        /\ lock' \in Workers \cup {NoWorker}
        /\ spent' = used /\ UNCHANGED <<file, purge>>
    BY <1>1, <1>2, <1>3, <1>6, CancelRunningStep
  <2>2. row' \in [Tasks -> Row] /\ Withdrawing'
    BY <2>1 DEF Put, Withdrawing, RInv, TInv, TypeOK
  <2>3. WorldOK'
    BY <1>3, <1>4, <2>1 DEF WorldOK, StoreType, PartType, RInv, TInv, TypeOK
  <2> QED BY <1>3, <1>4, <2>1, <2>2, <2>3 DEF QuietStep, RInv, TInv, TypeOK
<1>7. CASE SettleCancel(t, asked, used) /\ UNCHANGED <<store, pc, lock>>
  <2>1. /\ \E q \in Row, c \in {"idle", "purging"} :
              /\ Put(t, q) /\ cancelling' = [cancelling EXCEPT ![t] = c]
              /\ c # "idle" => q.cancel
        /\ part' \in PartType /\ file' \in FileType
        /\ purge' \in [Tasks -> SUBSET Paths]
        /\ spent' \in [Events -> Nat] /\ spent'["cancel"] = used["cancel"]
    BY <1>1, <1>2, <1>3, <1>7, SettleCancelStep
  <2>2. row' \in [Tasks -> Row] /\ Withdrawing'
        /\ cancelling' \in [Tasks -> {"idle", "asked", "purging"}]
    BY <2>1 DEF Put, Withdrawing, RInv, TInv, TypeOK
  <2>3. WorldOK'
    BY <1>4, <1>7, <2>1, <2>2 DEF WorldOK, FileType, PartType, RInv, TInv, TypeOK
  <2> QED BY <1>3, <1>4, <1>7, <2>1, <2>2, <2>3 DEF QuietStep, RInv, TInv, TypeOK
<1> QED BY <1>5, <1>6, <1>7

LEMMA CancelSettleStep ==
    ASSUME RInv, NEW t \in Tasks, CancelSettle(t)
    PROVE  QuietStep
<1>1. TInv /\ row[t] \in Row /\ row[t].cancel /\ spent \in [Events -> Nat]
  BY DEF RInv, TInv, TypeOK, CancelSettle, Withdrawing
<1>2. SettleCancel(t, row[t], spent) /\ UNCHANGED <<retained, store, pc, job, lock>>
  BY DEF CancelSettle
<1>3. /\ \E q \in Row, c \in {"idle", "purging"} :
            /\ Put(t, q) /\ cancelling' = [cancelling EXCEPT ![t] = c]
            /\ c # "idle" => q.cancel
      /\ part' \in PartType /\ file' \in FileType
      /\ \A u \in Tasks : u # t => file'[u] = file[u]
      /\ purge' \in [Tasks -> SUBSET Paths]
      /\ spent' \in [Events -> Nat]
  BY <1>1, <1>2, SettleCancelStep
<1>4. row' \in [Tasks -> Row] /\ Withdrawing'
      /\ cancelling' \in [Tasks -> {"idle", "asked", "purging"}]
  BY <1>3 DEF Put, Withdrawing, RInv, TInv, TypeOK
<1>5. WorldOK'
  BY <1>2, <1>3, <1>4 DEF WorldOK, FileType, PartType, RInv, TInv, TypeOK
<1>6. \A u \in Tasks : file[u] = "whole" /\ file'[u] # "whole" => row[u].cancel
  BY <1>1, <1>3
<1> QED BY <1>2, <1>4, <1>5, <1>6 DEF QuietStep, RInv, TInv, TypeOK

LEMMA CancelPurgeStep ==
    ASSUME RInv, NEW t \in Tasks, CancelPurge(t)
    PROVE  QuietStep
<1>1. TInv /\ row[t] \in Row /\ row[t].cancel /\ spent \in [Events -> Nat]
  BY DEF RInv, TInv, TypeOK, CancelPurge, Withdrawing
<1>2. PICK p \in purge[t] :
         /\ store' = [store EXCEPT ![p] = Absent]
         /\ purge' = [purge EXCEPT ![t] = @ \ {p}]
         /\ IF purge[t] = {p}
            THEN /\ EndCancel(t, row[t], spent)
                 /\ cancelling' = [cancelling EXCEPT ![t] = "idle"]
            ELSE UNCHANGED <<row, files, cancelling, spent>>
  BY DEF CancelPurge
<1>3. UNCHANGED <<retained, pc, job, lock>>
  BY DEF CancelPurge
<1>4. store' \in StoreType /\ purge' \in [Tasks -> SUBSET Paths]
  BY <1>2 DEF Absent, Owners, StoreType, RInv, TInv, TypeOK
<1>5. CASE /\ EndCancel(t, row[t], spent)
           /\ cancelling' = [cancelling EXCEPT ![t] = "idle"]
  <2>1. /\ \E q \in Row : Put(t, q)
        /\ part' \in PartType /\ file' \in FileType
        /\ \A u \in Tasks : u # t => file'[u] = file[u]
        /\ spent' \in [Events -> Nat]
    BY <1>1, <1>5, EndCancelStep
  <2>2. row' \in [Tasks -> Row] /\ Withdrawing'
        /\ cancelling' \in [Tasks -> {"idle", "asked", "purging"}]
    BY <1>5, <2>1 DEF Put, Withdrawing, RInv, TInv, TypeOK
  <2>3. WorldOK'
    BY <1>3, <1>4, <2>1, <2>2 DEF WorldOK, FileType, PartType, StoreType, RInv, TInv, TypeOK
  <2> QED BY <1>1, <1>3, <2>1, <2>2, <2>3 DEF QuietStep, RInv, TInv, TypeOK
<1>6. CASE UNCHANGED <<row, files, cancelling, spent>>
  <2>1. UNCHANGED <<row, file, part, cancelling, spent>>
    BY <1>6 DEF files
  <2> QED BY <1>3, <1>4, <2>1 DEF QuietStep, WorldOK, StoreType, Withdrawing, RInv, TInv, TypeOK
<1> QED BY <1>2, <1>5, <1>6

LEMMA CancelPurgeFailsStep ==
    ASSUME RInv, NEW t \in Tasks, CancelPurgeFails(t)
    PROVE  QuietStep
<1>1. spent' \in [Events -> Nat]
  BY SpendType DEF CancelPurgeFails, Events, RInv
<1>2. UNCHANGED <<row, retained, file, part, store, pc, job, lock>>
  BY DEF CancelPurgeFails, files
<1>3. purge' \in [Tasks -> SUBSET Paths] /\ cancelling' \in [Tasks -> {"idle", "asked", "purging"}]
  BY DEF CancelPurgeFails, RInv, TInv, TypeOK
<1>4. Withdrawing'
  BY <1>2 DEF CancelPurgeFails, Withdrawing, RInv, TInv, TypeOK
<1> QED BY <1>1, <1>2, <1>3, <1>4 DEF QuietStep, WorldOK, RInv, TInv, TypeOK


-------------------------------------------------------------------------------
(* Commands and the world outside *)

LEMMA RequeuedType ==
    ASSUME NEW t \in Tasks, NEW r \in Row, r.gen < MaxRecoveries
    PROVE  Requeued(t, r) \in Row /\ Requeued(t, r).cancel = r.cancel
<1> DEFINE complete == r.lpath = "file" /\ file[t] = "whole"
           s == IF complete THEN "waiting_upload" ELSE "queued"
           l == IF complete THEN "file" ELSE "none"
           g == r.gen + 1
           x == [r EXCEPT !.state = s, !.lpath = l, !.kind = "none", !.verified = FALSE,
                          !.dtries = 0, !.utries = 0, !.gen = g]
<1>1. g \in 0..MaxRecoveries /\ 0 \in 0..MaxRetries
  BY PipelineAssumption DEF Row
<1>2. s \in States /\ l \in {"none", "part", "file"}
  BY DEF States
<1>3. x \in Row /\ x.cancel = r.cancel
  <2> HIDE DEF s, l, g
  <2> QED BY <1>1, <1>2 DEF Row, Kinds
<1>4. Requeued(t, r) = x
  BY DEF Requeued
<1> HIDE DEF x
<1> QED BY <1>3, <1>4

LEMMA RetryStep ==
    ASSUME RInv, NEW t \in Tasks, Retry(t)
    PROVE  QuietStep
<1> DEFINE asked == [row[t] EXCEPT !.cancel = FALSE]
           r == IF row[t].cancel THEN Recovered(t, asked, {}) ELSE row[t]
<1>1. row[t] \in Row /\ part[t] \in {"absent", "partial", "whole"}
  BY DEF RInv, TInv, TypeOK
<1>2. asked \in Row
  BY <1>1 DEF Row
<1>3. r \in Row
  <2> HIDE DEF asked
  <2> QED BY <1>1, <1>2, RecoveredType
<1>4. \E q \in Row : Put(t, q)
  <2>1. Put(t, r) \/ (r.gen < MaxRecoveries /\ Put(t, Requeued(t, r)))
    BY DEF Retry
  <2> HIDE DEF r
  <2> QED BY <1>3, <2>1, RequeuedType
<1>5. cancelling[t] = "idle" /\ Spend("command")
      /\ UNCHANGED <<retained, file, store, pc, job, lock, commands>>
  BY DEF Retry, Unattended
<1>6. part' \in PartType
  <2>1. part' = [part EXCEPT ![t] = IF row[t].cancel
                                    THEN PartRecovered(t, asked, part[t], {}) ELSE part[t]]
    BY DEF Retry, RInv, TInv, TypeOK
  <2>2. PartRecovered(t, asked, part[t], {}) \in {"absent", "partial", "whole"}
    BY <1>1, <1>2, RecoveredType
  <2> HIDE DEF asked
  <2> QED BY <1>1, <2>1, <2>2 DEF PartType, RInv, TInv, TypeOK
<1>7. WorldOK'
  <2>1. spent' \in [Events -> Nat]
    BY <1>5, SpendType DEF Events, RInv
  <2> QED BY <1>5, <1>6, <2>1 DEF WorldOK, PartType, commands, RInv, TInv, TypeOK
<1> HIDE DEF r, asked
<1> QED BY <1>4, <1>5, <1>7, CommandKeeps

LEMMA RecoverFreshStep ==
    ASSUME RInv, NEW t \in Tasks, RecoverFresh(t)
    PROVE  QuietStep
<1> DEFINE x == Requeued(t, row[t])
           fresh == [x EXCEPT !.temp = NoPath, !.final = NoPath, !.rpath = NoPath]
<1>1. row[t] \in Row /\ row[t].gen < MaxRecoveries
  BY DEF RInv, TInv, TypeOK, RecoverFresh
<1>2. x \in Row
  BY <1>1, RequeuedType
<1>3. fresh \in Row
  <2> HIDE DEF x
  <2> QED BY <1>2 DEF Row
<1>4. Put(t, fresh) /\ cancelling[t] = "idle" /\ retained' = retained \cup Recorded(row[t])
      /\ Spend("command") /\ UNCHANGED <<files, store, pc, job, lock, commands>>
  BY DEF RecoverFresh, Unattended
<1>5. WorldOK'
  <2>1. spent' \in [Events -> Nat]
    BY <1>4, SpendType DEF Events, RInv
  <2>2. retained' \in SUBSET Paths
    BY <1>1, <1>4, RecordedType DEF RInv, TInv, TypeOK
  <2> QED BY <1>4, <2>1, <2>2 DEF WorldOK, files, commands, RInv, TInv, TypeOK
<1> HIDE DEF fresh
<1> QED BY <1>3, <1>4, <1>5, CommandKeeps DEF files

LEMMA NoteCommandStep ==
    ASSUME RInv, NEW t \in Tasks, RequestStream(t) \/ Confirm(t)
    PROVE  QuietStep
<1> DEFINE streamed == [row[t] EXCEPT !.state = "queued", !.mode = "stream", !.dtries = 0,
                                      !.utries = 0]
           confirmed == [row[t] EXCEPT !.state = "confirmed"]
<1>1. row[t] \in Row /\ 0 \in 0..MaxRetries
  BY PipelineAssumption DEF RInv, TInv, TypeOK
<1>2. \A q \in {streamed, confirmed} : q \in Row /\ q.cancel = row[t].cancel
  <2>1. streamed \in Row /\ streamed.cancel = row[t].cancel
    BY <1>1 DEF Row, States
  <2>2. confirmed \in Row /\ confirmed.cancel = row[t].cancel
    BY <1>1 DEF Row, States
  <2> HIDE DEF streamed, confirmed
  <2> QED BY <2>1, <2>2
<1>3. /\ Put(t, streamed) \/ Put(t, confirmed)
      /\ Spend("command") /\ UNCHANGED <<retained, files, store, pc, job, lock, commands>>
  BY DEF RequestStream, Confirm
<1>4. WorldOK'
  <2>1. spent' \in [Events -> Nat]
    BY <1>3, SpendType DEF Events, RInv
  <2> QED BY <1>3, <2>1 DEF WorldOK, files, commands, RInv, TInv, TypeOK
<1> HIDE DEF streamed, confirmed
<1> QED BY <1>2, <1>3, <1>4, CommandKeeps DEF files

LEMMA WorldOutsideStep ==
    ASSUME RInv, NEW t \in Tasks, LoseFile(t) \/ Drift(t)
    PROVE  QuietStep
<1>1. UNCHANGED <<row, retained, part, pc, job, lock, cancelling, purge>>
  BY DEF LoseFile, Drift, files, commands
<1>2. CASE LoseFile(t)
  <2>1. spent["loss"] \in Nat /\ spent' = [spent EXCEPT !["loss"] = @ + 1] /\ UNCHANGED store
    BY <1>2 DEF LoseFile, Spend, Events, RInv, TInv, TypeOK
  <2>2. spent' \in [Events -> Nat] /\ spent'["loss"] > spent["loss"]
    BY <2>1 DEF Events, RInv, TInv, TypeOK
  <2>3. file' \in FileType
    BY <1>2 DEF LoseFile, FileType, RInv, TInv, TypeOK
  <2> QED BY <1>1, <2>1, <2>2, <2>3
          DEF QuietStep, WorldOK, Withdrawing, FileType, RInv, TInv, TypeOK
<1>3. CASE Drift(t)
  <2>1. spent' \in [Events -> Nat]
    BY <1>3, SpendType DEF Drift, Events, RInv
  <2>2. store' \in StoreType
    <3>1. PICK left \in {Absent, Object(t, FALSE)} :
             store' = [store EXCEPT ![row[t].rpath] = left]
      BY <1>3 DEF Drift
    <3>2. left \in [by : Owners, whole : BOOLEAN]
      <4>1. /\ Absent \in [by : Owners, whole : BOOLEAN]
            /\ Object(t, FALSE) \in [by : Owners, whole : BOOLEAN]
        BY DEF Absent, Object, Owners
      <4> QED BY <3>1, <4>1
    <3> QED BY <3>1, <3>2 DEF StoreType, RInv, TInv, TypeOK
  <2>3. UNCHANGED file
    BY <1>3 DEF Drift, files
  <2> QED BY <1>1, <2>1, <2>2, <2>3
          DEF QuietStep, WorldOK, Withdrawing, StoreType, RInv, TInv, TypeOK
<1> QED BY <1>2, <1>3

-------------------------------------------------------------------------------
(* The theorems *)

LEMMA InitInv == Init => RInv
<1> SUFFICES ASSUME Init PROVE RInv
  OBVIOUS
<1>1. NewRow \in Row /\ NewJob \in Job
  <2>1. 0 \in 0..MaxRetries /\ 0 \in 0..MaxRecoveries
    BY PipelineAssumption
  <2> QED BY <2>1, NewJobType DEF NewRow, Row, States, Kinds
<1>2. store \in StoreType
  <2>1. /\ Absent \in [by : Owners, whole : BOOLEAN]
        /\ Object("foreign", TRUE) \in [by : Owners, whole : BOOLEAN]
    BY DEF Absent, Object, Owners
  <2> QED BY <2>1 DEF Init, StoreType
<1>3. "idle" \in Labels /\ "idle" \notin InLoop /\ "idle" \notin Synchronous
  BY DEF Labels, InLoop, Synchronous
<1> QED BY <1>1, <1>2, <1>3
        DEF Init, StoreType, RInv, TInv, TypeOK, TryBound, OneAtATime, ReceiptHeld, Withdrawing

\* Every step is one worker's or a quiet one.
LEMMA NextCases ==
    ASSUME RInv, Next
    PROVE  \/ \E w \in Workers : WorkerStep(w) /\ (Yielded \/ pc[w] \in Synchronous)
           \/ QuietStep /\ (Yielded \/ \A w \in Workers : pc'[w] = "idle")
<1>0. TInv
  BY DEF RInv
<1>1. CASE \E w \in Workers : SynchronousStep(w)
  BY <1>0, <1>1, SynchronousStepType
<1>2. CASE Crash
  BY <1>2, CrashStep
<1>3. CASE \E w \in Workers : Turn(w) /\ RemoteStep(w)
  BY <1>0, <1>3, RemoteStepType DEF Turn
<1>4. ASSUME NEW t \in Tasks, Turn(D(t)) /\ (DownloadStep(t) \/ StartDownload(t))
      PROVE  \E w \in Workers : WorkerStep(w) /\ Yielded
  BY <1>0, <1>4, WorkerTypes, DownloadStepType, StartStep DEF Turn
<1>5. ASSUME NEW t \in Tasks, Turn(U(t)) /\ (UploadStep(t) \/ StartUpload(t))
      PROVE  \E w \in Workers : WorkerStep(w) /\ Yielded
  BY <1>0, <1>5, WorkerTypes, UploadBeginStep, RecheckStep, StartStep DEF Turn, UploadStep
<1>6. CASE Yielded /\ (DiskEmergency \/ Stop)
  BY <1>6, DiskEmergencyStep, StopStep
<1>7. ASSUME NEW t \in Tasks, CancelStep(t) \/ Command(t) \/ LoseFile(t) \/ Drift(t)
      PROVE  QuietStep
  BY <1>7, CancelSettleStep, CancelPurgeStep, CancelPurgeFailsStep, CancelAskStep, RetryStep,
     RecoverFreshStep, NoteCommandStep, WorldOutsideStep DEF CancelStep, Command
<1> QED BY <1>1, <1>2, <1>3, <1>4, <1>5, <1>6, <1>7 DEF Next

LEMMA StutterInv == RInv /\ UNCHANGED vars => RInv'
BY DEF RInv, TInv, TypeOK, TryBound, OneAtATime, ReceiptHeld, Withdrawing, Uncounted, vars

LEMMA NextInv == RInv /\ [Next]_vars => RInv'
<1> SUFFICES ASSUME RInv, Next PROVE RInv'
  BY StutterInv
<1> QED BY NextCases, WorkerKeeps, QuietKeeps

\* The invariant the two theorems rest on.
THEOREM Inductive == Spec => []RInv
BY InitInv, NextInv, PTL DEF Spec

\* Type correctness: every state of every behaviour has the declared types, for
\* any tasks and budgets; the attempt counters of _download_one, _upload_one
\* and _stream_one never pass max_retries.
THEOREM TypeCorrect == Spec => []TypeOK
<1>1. RInv => TypeOK
  BY DEF RInv, TInv
<1> QED BY <1>1, Inductive, PTL

\* A finished local file goes only by a user's cancellation, by the hand of
\* somebody else, or after _complete_cloud_receive has put the receipt on
\* record, however the coroutines, crashes and restarts interleave.
THEOREM RemovalIsRecorded == Spec => RemovalNeedsReceipt
<1> DEFINE Kept ==
             \A t \in Tasks :
                file[t] = "whole" /\ file'[t] # "whole" =>
                   \/ spent'["loss"] > spent["loss"]
                   \/ row[t].cancel \/ spent'["cancel"] > spent["cancel"]
                   \/ row[t].state = "cleanup_pending" /\ row[t].verified
<1>1. RInv /\ [Next]_vars => [Kept]_vars
  <2> SUFFICES ASSUME RInv, Next PROVE Kept
    BY DEF vars
  <2>1. CASE QuietStep
    BY <2>1 DEF QuietStep
  <2>2. ASSUME NEW w \in Workers, WorkerStep(w)
        PROVE  Kept
    <3> SUFFICES ASSUME NEW t \in Tasks, file[t] = "whole", file'[t] # "whole"
                 PROVE  row[t].state = "cleanup_pending" /\ row[t].verified
      OBVIOUS
    <3>1. pc[w] = "receipt" /\ w[2] = t
      BY <2>2 DEF WorkerStep, WorldStep
    <3> QED BY <3>1 DEF RInv, ReceiptHeld
  <2> QED BY <2>1, <2>2, NextCases
<1> QED BY <1>1, Inductive, PTL DEF Spec, RemovalNeedsReceipt


===============================================================================
