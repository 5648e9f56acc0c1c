------------------------------ MODULE RoleProofs ------------------------------
(***************************************************************************)
(* Proofs about TransferPipeline: what the two coroutines of a task and    *)
(* its /cancel may be doing follows from the row of the task. With it, a   *)
(* task held for review stays held until a command of the user.            *)
(***************************************************************************)
EXTENDS TransferProofs

\* A coroutine that still sends its last notice is not cancelled: notices let
\* nobody else run, or neither /cancel nor a disk emergency happens. Finding 1
\* shows what happens otherwise.
Undisturbed == NotifyYields => Limit["cancel"] = 0 /\ Limit["disk"] = 0

\* A worker in the remote half of its coroutine, where it owns the recorded names.
Remote == {"recheck", "resume", "resumeTemp", "head", "lock", "reserved", "exists", "write", "writing",
           "verify", "move", "final", "complete", "receipt", "cleaned"}
LocalLabels == {"fetch", "renaming", "renamed"}
Finishing == {"receipt", "cleaned"}

\* What the two coroutines of a task, d and u with their jobs, may be doing
\* while its row is r, its local files are f and p and its /cancel is at c.
\* First, which code they run.
Coroutines(d, u, jd, ju) ==
    /\ ~ jd.outside
    /\ d # "recheck" /\ u \notin LocalLabels \cup {"head"}
    /\ d \in LocalLabels => jd.how = "local"
    /\ d \in Remote => jd.how = "stream"
    /\ d \notin {"idle", "start"} => jd.how \in {"local", "stream"}
    /\ u \notin {"idle", "notify", "start"} => ju.how = "upload"

\* A download works alone, save that an upload may be about to find out that
\* there is nothing to upload yet.
Downloading(r, d, u, jd, f) ==
    /\ d \notin {"idle", "notify"} => u \in {"idle", "notify", "start"}
    /\ d = "start" => r.state = "reserved" /\ u \in {"idle", "notify"}
    /\ d = "fetch" => r.state \in {"downloading", "queued"}
    /\ d \in {"renaming", "renamed"} => r.state = "downloaded" /\ r.lpath = "file" /\ u \in {"idle", "notify"}
    /\ d \in {"fetch", "renaming", "renamed", "backoff"} /\ jd.how = "local" /\ r.state # "queued" =>
          r.mode = "local"
    /\ d = "backoff" /\ jd.how = "local" => r.state \in {"downloading", "downloaded", "queued"}
    /\ d \in {"fetch", "renaming", "backoff"} /\ jd.how = "local" => f # "whole"

Streaming(r, d, u, jd) ==
    /\ d \notin {"idle", "start"} /\ jd.how = "stream" => r.mode = "stream"
    /\ d \notin {"idle", "notify", "start"} /\ jd.how = "stream" => u \in {"idle", "notify"}
    /\ d \in (Remote \ Finishing) \cup {"backoff"} /\ jd.how = "stream" =>
          r.state \in {"reserved", "streaming", "verifying", "finalizing"}
    /\ d \in Finishing => r.state = "cleanup_pending"

Uploading(r, u, ju) ==
    /\ u \notin {"idle", "notify", "start"} => ju.loc = r.lpath
    /\ u = "start" =>
          r.state \in {"cleanup_pending", "waiting_upload", "downloaded", "downloading", "queued",
                       "cancelled"}
    /\ u \notin {"idle", "notify", "start"} =>
          \/ /\ r.state \in {"waiting_upload", "uploading", "verifying", "finalizing", "downloaded"}
             /\ ~ ju.outside /\ u \notin {"recheck"} \cup Finishing
          \/ /\ r.state = "cleanup_pending" /\ u \in Finishing \cup {"recheck", "complete"}
             /\ u \in {"recheck", "complete"} => ju.outside

\* A /cancel has ended the coroutine it found.
Cancelled(r, d, u, c) ==
    /\ c # "idle" => r.cancel
    /\ r.cancel => d = "idle" /\ u \in {"idle", "start"}
    /\ c = "purging" => ~ NeedsReview(r) /\ r.state \notin Ended

\* The local copy as the row knows it.
FitsCopy(r, d, u, f, p) ==
    /\ f = "whole" => r.lpath = "file" /\ r.mode = "local"
    /\ r.lpath = "part" => p # "whole"
    /\ r.state \in {"queued", "reserved"} => r.lpath = "none"
    /\ r.state = "downloading" => r.lpath = "part"
    /\ d = "cleaned" \/ u = "cleaned" => f # "whole"

RoleOf(r, d, u, jd, ju, f, p, c) ==
    /\ Coroutines(d, u, jd, ju) /\ Downloading(r, d, u, jd, f) /\ Streaming(r, d, u, jd)
    /\ Uploading(r, u, ju) /\ Cancelled(r, d, u, c) /\ FitsCopy(r, d, u, f, p)

Role(t) ==
    RoleOf(row[t], pc[D(t)], pc[U(t)], job[D(t)], job[U(t)], file[t], part[t], cancelling[t])
Roles == \A t \in Tasks : Role(t)

\* A coroutine sends its last notice only where sending one lets others run.
NoticesYield == \A w \in Workers : pc[w] = "notify" => NotifyYields

\* A coroutine that ends, perhaps with a notice still to send.
Ends(w) == Goto(w, "idle") \/ Goto(w, "notify")

-------------------------------------------------------------------------------
(* What a step of one coroutine leaves alone *)

FilesOf(t) == \A x \in Tasks \ {t} : file'[x] = file[x] /\ part'[x] = part[x]

Others(w) ==
    /\ FilesOf(w[2]) /\ UNCHANGED commands
    /\ \A x \in Tasks \ {w[2]} : row'[x] = row[x]
    /\ \A v \in Workers \ {w} : pc'[v] = pc[v] /\ job'[v] = job[v]

LEMMA ControlOthers ==
    ASSUME RInv, NEW w \in Workers, ControlStep(w), FilesOf(w[2]), UNCHANGED commands
    PROVE  Others(w)
<1>1. \A x \in Tasks \ {w[2]} : row'[x] = row[x]
  BY WorkerTypes DEF ControlStep, RInv, TInv, TypeOK
<1>2. \A v \in Workers \ {w} : pc'[v] = pc[v]
  BY DEF ControlStep, RInv, TInv, TypeOK
<1>3. \A v \in Workers \ {w} : job'[v] = job[v]
  BY DEF ControlStep, RInv, TInv, TypeOK
<1> QED BY <1>1, <1>2, <1>3 DEF Others

LEMMA DownloadFiles ==
    ASSUME RInv, NEW t \in Tasks,
           \/ DownloadStep(t) \/ StartDownload(t)
           \/ DownloadRename(t) \/ DownloadRenameFails(t) \/ DownloadRecord(t)
    PROVE  FilesOf(t) /\ UNCHANGED commands
<1>1. part \in [Tasks -> {"absent", "partial", "whole"}] /\ file \in [Tasks -> {"absent", "short", "whole"}]
  BY DEF RInv, TInv, TypeOK
<1>2. ASSUME NEW n, DownloadAttempt(t, n)
      PROVE  UNCHANGED part \/ \E p : part' = [part EXCEPT ![t] = p]
  BY <1>2 DEF DownloadAttempt
<1>3. ASSUME NEW r, DownloadExhausted(t, r)
      PROVE  UNCHANGED part \/ \E p : part' = [part EXCEPT ![t] = p]
  BY <1>3 DEF DownloadExhausted
<1>4. ASSUME NEW kind, DownloadFails(t, kind)
      PROVE  UNCHANGED part \/ \E p : part' = [part EXCEPT ![t] = p]
  BY <1>4, <1>3 DEF DownloadFails
<1>5. UNCHANGED commands /\ (UNCHANGED part \/ \E p : part' = [part EXCEPT ![t] = p])
  BY <1>2, <1>3, <1>4 DEF DownloadStep, DownloadBegin, DownloadRetry, DownloadArrives, DownloadError,
     DownloadRefused, StartDownload, DownloadRename, DownloadRenameFails, DownloadRecord, files
<1>6. UNCHANGED file \/ \E p : file' = [file EXCEPT ![t] = p]
  BY DEF DownloadStep, DownloadBegin, DownloadRetry, DownloadArrives, DownloadError,
     DownloadRefused, StartDownload, DownloadRename, DownloadRenameFails, DownloadRecord, files
<1> QED BY <1>1, <1>5, <1>6 DEF FilesOf

LEMMA RemoteFiles ==
    ASSUME RInv, NEW w \in Workers, RemoteStep(w) \/ Clean(w) \/ CleanFails(w) \/ Complete(w)
    PROVE  /\ FilesOf(w[2]) /\ UNCHANGED commands
           /\ RemoteStep(w) => UNCHANGED files
<1>1. part \in [Tasks -> {"absent", "partial", "whole"}] /\ file \in [Tasks -> {"absent", "short", "whole"}]
  BY DEF RInv, TInv, TypeOK
<1>2. CASE RemoteStep(w)
  <2>1. UNCHANGED <<files, commands>>
    BY <1>2 DEF RemoteStep, Resume, ResumeTemp, StreamHead, TakeLock, ChooseFinal, ReuseFinal,
       WriteStarts, WriteEnds, Verify, MoveToFinal, FinalCheck, Receive, RemoteRetry, Notified,
       RemoteError, StreamError, StreamRefused
  <2> QED BY <2>1 DEF files, FilesOf
<1>3. CASE Clean(w) \/ CleanFails(w) \/ Complete(w)
  BY <1>1, <1>3 DEF Clean, CleanFails, Complete, FilesOf, files, RemoteStep, Resume, ResumeTemp,
     StreamHead, TakeLock, ChooseFinal, ReuseFinal, WriteStarts, WriteEnds, Verify, MoveToFinal,
     FinalCheck, Receive, RemoteRetry, Notified, RemoteError, StreamError, StreamRefused
<1> QED BY <1>2, <1>3

LEMMA UploadFiles ==
    ASSUME RInv, NEW t \in Tasks, UploadStep(t) \/ StartUpload(t)
    PROVE  FilesOf(t) /\ UNCHANGED commands
<1>1. part \in [Tasks -> {"absent", "partial", "whole"}] /\ file \in [Tasks -> {"absent", "short", "whole"}]
  BY DEF RInv, TInv, TypeOK
<1>2. ASSUME NEW r, CheckLocal(U(t), r)
      PROVE  FilesOf(t)
  <2>1. U(t)[2] = t
    BY DEF U
  <2> QED BY <1>1, <1>2, <2>1 DEF CheckLocal, FilesOf, files
<1>3. U(t)[2] = t
  BY DEF U
<1> QED BY <1>1, <1>2, <1>3 DEF UploadStep, UploadBegin, Recheck, StartUpload, FilesOf, files

LEMMA RoleFrame ==
    ASSUME Roles, NEW w \in Workers, Others(w), Role(w[2])'
    PROVE  Roles'
<1> SUFFICES ASSUME NEW x \in Tasks \ {w[2]} PROVE Role(x)'
  BY DEF Roles
<1>1. Role(x)
  BY DEF Roles
<1>2. D(x) \in Workers \ {w} /\ U(x) \in Workers \ {w}
  BY WorkerTypes DEF D, U
<1>3. cancelling' = cancelling
  BY DEF Others, commands
<1> QED BY <1>1, <1>2, <1>3 DEF Others, FilesOf, Role

-------------------------------------------------------------------------------
(* The steps of _download_one *)

LEMMA Edges ==
    /\ \A s \in States : CanTransition(s, "downloading") => s \in {"downloading", "reserved", "downloaded"}
    /\ \A s \in States : CanTransition(s, "downloaded") => s \in {"downloaded", "downloading"}
    /\ ~ CanTransition("queued", "download_failed")
    /\ \A s \in {"queued", "downloading", "downloaded"} :
          ~ CanTransition(s, "verification_failed_retained") /\ CanTransition(s, "queued")
    /\ \A s \in States : CanTransition(s, "cleanup_pending") =>
          s \in {"reserved", "streaming", "waiting_upload", "uploading", "verifying", "finalizing",
                 "cleanup_pending"}
    /\ \A s \in States : CanTransition(s, "verifying") => s \in {"verifying", "uploading", "streaming"}
BY DEF CanTransition, LegalTransitions, States, FailedStates

\* The two workers of a task, and what the other one keeps.
LEMMA Pair ==
    ASSUME RInv, NEW t \in Tasks
    PROVE  /\ D(t) \in Workers /\ U(t) \in Workers /\ D(t) # U(t)
           /\ D(t)[2] = t /\ U(t)[2] = t /\ D(t)[1] = "download" /\ U(t)[1] = "upload"
           /\ row[t] \in Row /\ row[t].state \in States
           /\ row[t].cancel \in BOOLEAN
           /\ file[t] \in {"absent", "short", "whole"} /\ part[t] \in {"absent", "partial", "whole"}
           /\ \A w \in Workers : pc[w] \in Labels /\ job[w] \in Job
BY WorkerTypes DEF D, U, RInv, TInv, TypeOK, Row

LEMMA ExhaustedEffect ==
    ASSUME RInv, NEW t \in Tasks, NEW r \in Row, DownloadExhausted(t, r)
    PROVE  /\ pc'[D(t)] \in {"notify", "idle"} /\ part'[t] = "absent"
           /\ row'[t].mode = r.mode /\ row'[t].cancel = r.cancel
           /\ \/ row'[t].state = "download_failed" /\ row'[t].lpath = "none"
                 /\ CanTransition(r.state, "download_failed")
              \/ row'[t] = r
<1> DEFINE off == [r EXCEPT !.state = "download_failed", !.lpath = "none"]
<1>1. row \in [Tasks -> Row] /\ pc \in [Workers -> Labels] /\ part \in [Tasks -> {"absent", "partial", "whole"}]
  BY DEF RInv, TInv, TypeOK
<1>2. off.state = "download_failed" /\ off.lpath = "none" /\ off.mode = r.mode /\ off.cancel = r.cancel
  BY DEF Row
<1>3. /\ part' = [part EXCEPT ![t] = "absent"]
      /\ \/ CanTransition(r.state, "download_failed") /\ Put(t, off) /\ Goto(D(t), Notice)
         \/ Put(t, r) /\ Goto(D(t), "idle")
  BY DEF DownloadExhausted
<1> HIDE DEF off
<1> QED BY <1>1, <1>2, <1>3, Pair DEF Put, Goto, Notice

LEMMA AttemptEffect ==
    ASSUME RInv, NEW t \in Tasks, NEW n \in 0..MaxRetries, DownloadAttempt(t, n)
    PROVE  /\ row'[t].mode = row[t].mode /\ row'[t].cancel = row[t].cancel
           /\ \/ /\ Legal(t, "downloading") /\ row'[t].state = "downloading" /\ row'[t].lpath = "part"
                 /\ part'[t] = "partial" /\ pc'[D(t)] = "fetch"
              \/ /\ ~ Legal(t, "downloading") /\ pc'[D(t)] \in {"idle", "notify"} /\ part'[t] = "absent"
                 /\ \/ row'[t] = row[t]
                    \/ Legal(t, "download_failed") /\ row'[t].state = "download_failed" /\ row'[t].lpath = "none"
<1> DEFINE on == [row[t] EXCEPT !.state = "downloading", !.lpath = "part", !.dtries = n]
           off == [row[t] EXCEPT !.state = "download_failed", !.lpath = "none"]
<1>1. row \in [Tasks -> Row] /\ pc \in [Workers -> Labels] /\ part \in [Tasks -> {"absent", "partial", "whole"}]
  BY DEF RInv, TInv, TypeOK
<1>2. /\ on.state = "downloading" /\ on.lpath = "part" /\ on.mode = row[t].mode /\ on.cancel = row[t].cancel
      /\ off.state = "download_failed" /\ off.lpath = "none" /\ off.mode = row[t].mode
      /\ off.cancel = row[t].cancel
  BY <1>1 DEF Row
<1>3. CASE Legal(t, "downloading")
  <2>1. Put(t, on) /\ part' = [part EXCEPT ![t] = "partial"] /\ Goto(D(t), "fetch")
    BY <1>3 DEF DownloadAttempt
  <2> HIDE DEF on, off
  <2> QED BY <1>1, <1>2, <1>3, <2>1, Pair DEF Put, Goto
<1>4. CASE ~ Legal(t, "downloading")
  <2>1. /\ part' = [part EXCEPT ![t] = "absent"] /\ Goto(D(t), "idle")
        /\ UNCHANGED row \/ (Legal(t, "download_failed") /\ Put(t, off))
    BY <1>4 DEF DownloadAttempt
  <2> HIDE DEF on, off
  <2> QED BY <1>1, <1>2, <1>4, <2>1, Pair DEF Put, Goto
<1> QED BY <1>3, <1>4

LEMMA FailsEffect ==
    ASSUME RInv, NEW t \in Tasks, NEW kind \in Kinds, DownloadFails(t, kind), pc[D(t)] \in InLoop
    PROVE  /\ row'[t].mode = row[t].mode /\ row'[t].cancel = row[t].cancel
           /\ job'[D(t)].how = job[D(t)].how /\ job'[D(t)].outside = job[D(t)].outside
           /\ \/ /\ row'[t].state = row[t].state /\ row'[t].lpath = row[t].lpath
                 /\ pc'[D(t)] = "backoff" /\ part'[t] = part[t]
              \/ /\ part'[t] = "absent" /\ pc'[D(t)] \in {"idle", "notify"}
                 /\ \/ row'[t].state = row[t].state /\ row'[t].lpath = row[t].lpath
                    \/ /\ row'[t].state = "download_failed" /\ row'[t].lpath = "none"
                       /\ Legal(t, "download_failed")
<1> DEFINE n == job[D(t)].try + 1
           r == [row[t] EXCEPT !.dtries = n, !.kind = kind]
<1>1. row \in [Tasks -> Row] /\ pc \in [Workers -> Labels] /\ job \in [Workers -> Job]
  BY DEF RInv, TInv, TypeOK
<1>2. n \in 0..MaxRetries
  BY Pair, PipelineAssumption DEF RInv, TInv, TryBound, Uncounted, Job
<1>3. r \in Row /\ r.state = row[t].state /\ r.lpath = row[t].lpath /\ r.mode = row[t].mode
      /\ r.cancel = row[t].cancel
  BY <1>1, <1>2 DEF Row
<1>4. CASE AttemptsLeft(n)
  <2>1. Put(t, r) /\ job' = [job EXCEPT ![D(t)].try = n] /\ Goto(D(t), "backoff") /\ UNCHANGED part
    BY <1>4 DEF DownloadFails
  <2>2. job'[D(t)].how = job[D(t)].how /\ job'[D(t)].outside = job[D(t)].outside
    BY <1>1, <2>1, Pair DEF Job
  <2> HIDE DEF r, n
  <2> QED BY <1>1, <1>3, <2>1, <2>2, Pair DEF Put, Goto
<1>5. CASE ~ AttemptsLeft(n)
  <2>1. DownloadExhausted(t, r) /\ UNCHANGED job
    BY <1>5 DEF DownloadFails
  <2> HIDE DEF r, n
  <2> QED BY <1>3, <2>1, ExhaustedEffect DEF Legal
<1> QED BY <1>4, <1>5

\* What the roles say of a task whose download takes a step.
LEMMA BeginRole ==
    ASSUME RInv, Roles, NEW t \in Tasks, DownloadBegin(t)
    PROVE  Role(t)'
<1> DEFINE n == row[t].dtries
           how == IF row[t].mode = "stream" THEN "stream" ELSE "local"
           begun == [NewJob EXCEPT !.how = how, !.try = n]
           off == [row[t] EXCEPT !.state = "download_failed", !.lpath = "none"]
<1>1. row \in [Tasks -> Row] /\ pc \in [Workers -> Labels] /\ job \in [Workers -> Job]
      /\ part \in [Tasks -> {"absent", "partial", "whole"}] /\ n \in 0..MaxRetries
  BY DEF RInv, TInv, TypeOK, Row
<1>2. pc[D(t)] = "start" /\ Role(t) /\ job' = [job EXCEPT ![D(t)] = begun]
      /\ UNCHANGED <<file, cancelling>>
  BY DEF DownloadBegin, Roles, commands
<1>3. begun.how = how /\ ~ begun.outside
  BY DEF NewJob
<1>4. row[t].state = "reserved" /\ pc[U(t)] \in {"idle", "notify"} /\ row[t].lpath = "none" /\ ~ row[t].cancel
      /\ cancelling[t] = "idle" /\ file[t] # "whole" /\ row[t].mode \in {"local", "stream"}
  BY <1>1, <1>2, Pair DEF Role, RoleOf, Downloading, Cancelled, FitsCopy, Row
<1>5. /\ job'[U(t)] = job[U(t)] /\ job'[D(t)].how = how /\ ~ job'[D(t)].outside
      /\ cancelling'[t] = "idle" /\ file'[t] # "whole"
  <2> HIDE DEF begun
  <2> QED BY <1>1, <1>2, <1>3, <1>4, Pair
<1>6. off.state = "download_failed" /\ off.lpath = "none" /\ off.mode = row[t].mode
      /\ off.cancel = row[t].cancel
  BY <1>1 DEF Row
<1>7. \/ /\ how = "local" /\ DownloadAttempt(t, n)
      \/ /\ how = "stream" /\ Goto(D(t), "resume") /\ UNCHANGED <<row, part>>
      \/ /\ DownloadExhausted(t, row[t])
      \/ /\ UNCHANGED part /\ Ends(D(t))
         /\ UNCHANGED row \/ Put(t, off)
  BY DEF DownloadBegin, Notice, Ends
<1> HIDE DEF n, begun, off
<1>8. Legal(t, "downloading")
  BY <1>4 DEF Legal, CanTransition, LegalTransitions, States
<1>9. /\ pc'[U(t)] \in {"idle", "notify"} /\ row'[t].cancel = row[t].cancel /\ row'[t].mode = row[t].mode
      /\ \/ /\ how = "local" /\ pc'[D(t)] = "fetch" /\ row'[t].state = "downloading"
            /\ row'[t].lpath = "part" /\ part'[t] = "partial"
         \/ /\ how = "stream" /\ pc'[D(t)] = "resume" /\ row'[t].state = "reserved"
            /\ row'[t].lpath = "none"
         \/ /\ pc'[D(t)] \in {"idle", "notify"} /\ row'[t].state \in {"reserved", "download_failed"}
            /\ row'[t].lpath = "none"
  <2>0. pc'[U(t)] \in {"idle", "notify"}
    BY <1>1, <1>4, <1>7, Pair DEF DownloadAttempt, DownloadExhausted, Goto, Ends
  <2>1. CASE how = "local" /\ DownloadAttempt(t, n)
    BY <1>1, <1>8, <2>0, <2>1, AttemptEffect
  <2>2. CASE how = "stream" /\ Goto(D(t), "resume") /\ UNCHANGED <<row, part>>
    BY <1>1, <1>4, <2>0, <2>2, Pair DEF Goto
  <2>3. CASE DownloadExhausted(t, row[t])
    <3>1. pc'[D(t)] \in {"idle", "notify"}
      BY <2>3, ExhaustedEffect, Pair
    <3> QED BY <1>4, <2>0, <2>3, <3>1, ExhaustedEffect, Pair
  <2>4. CASE UNCHANGED part /\ Ends(D(t)) /\ (UNCHANGED row \/ Put(t, off))
    BY <1>1, <1>4, <1>6, <2>0, <2>4, Pair DEF Goto, Put, Ends
  <2> QED BY <1>7, <2>1, <2>2, <2>3, <2>4
<1>10. /\ (how = "stream" => row[t].mode = "stream") /\ (how = "local" => row[t].mode = "local")
       /\ how \in {"local", "stream"}
  BY <1>4
<1> HIDE DEF how
<1>11. Role(t)
  BY <1>2
<1> QED BY <1>4, <1>5, <1>9, <1>10, <1>11
        DEF Role, RoleOf, Coroutines, Downloading, Streaming, Uploading, Cancelled, FitsCopy,
            Remote, LocalLabels, Finishing

\* An upload that was just started runs before the fetch of its task goes on.
LEMMA AloneInTurn ==
    ASSUME RInv, NEW t \in Tasks, Role(t), Turn(D(t)), pc[D(t)] = "fetch"
    PROVE  pc[U(t)] \in {"idle", "notify"}
<1>1. Peer(D(t)) = U(t)
  BY DEF Peer, D, U
<1> QED BY <1>1 DEF Turn, Role, RoleOf, Downloading

LEMMA RetryRole ==
    ASSUME RInv, Roles, NEW t \in Tasks, DownloadRetry(t)
    PROVE  Role(t)'
<1>1. row \in [Tasks -> Row] /\ pc \in [Workers -> Labels] /\ job \in [Workers -> Job]
  BY DEF RInv, TInv, TypeOK, Row
<1>2. /\ pc[D(t)] = "backoff" /\ job[D(t)].how = "local" /\ Role(t) /\ UNCHANGED <<file, job, cancelling>>
      /\ DownloadAttempt(t, job[D(t)].try) /\ job[D(t)].try \in 0..MaxRetries
  BY <1>1, Pair DEF DownloadRetry, Roles, commands, Job
<1>3. pc'[U(t)] = pc[U(t)]
  BY <1>1, <1>2, Pair DEF DownloadAttempt, Goto
<1>4. /\ row'[t].mode = row[t].mode /\ row'[t].cancel = row[t].cancel
      /\ \/ /\ Legal(t, "downloading") /\ row'[t].state = "downloading" /\ row'[t].lpath = "part"
            /\ part'[t] = "partial" /\ pc'[D(t)] = "fetch"
         \/ /\ ~ Legal(t, "downloading") /\ pc'[D(t)] \in {"idle", "notify"} /\ part'[t] = "absent"
            /\ \/ row'[t] = row[t]
               \/ Legal(t, "download_failed") /\ row'[t].state = "download_failed" /\ row'[t].lpath = "none"
  BY <1>2, AttemptEffect
<1>5. row[t].state \in {"downloading", "downloaded", "queued"}
  BY <1>2 DEF Role, RoleOf, Downloading
<1>6. row[t].state = "queued" <=> ~ Legal(t, "downloading")
  BY <1>5 DEF Legal, CanTransition, LegalTransitions, States
<1>7. row[t].state = "queued" => ~ Legal(t, "download_failed")
  BY Edges DEF Legal
<1> QED BY <1>2, <1>3, <1>4, <1>5, <1>6, <1>7
        DEF Role, RoleOf, Coroutines, Downloading, Streaming, Uploading, Cancelled, FitsCopy,
            Remote, LocalLabels, Finishing

\* A failed attempt of a download leaves everything where it was, or ends it.
LEMMA FailsRole ==
    ASSUME RInv, Roles, NEW t \in Tasks, NEW kind \in Kinds, DownloadFails(t, kind),
           pc[D(t)] \in {"fetch", "renaming"}, pc[U(t)] \in {"idle", "notify"}, UNCHANGED <<file, cancelling>>
    PROVE  Role(t)'
<1>1. row \in [Tasks -> Row] /\ pc \in [Workers -> Labels] /\ job \in [Workers -> Job]
  BY DEF RInv, TInv, TypeOK, Row
<1>2. Role(t) /\ pc[D(t)] \in InLoop
  BY DEF Roles, InLoop, Labels
<1>3. pc'[U(t)] = pc[U(t)] /\ job'[U(t)] = job[U(t)]
  BY <1>1, <1>2, Pair DEF DownloadFails, DownloadExhausted, Goto
<1>4. /\ row'[t].mode = row[t].mode /\ row'[t].cancel = row[t].cancel
      /\ job'[D(t)].how = job[D(t)].how /\ job'[D(t)].outside = job[D(t)].outside
      /\ \/ /\ row'[t].state = row[t].state /\ row'[t].lpath = row[t].lpath
            /\ pc'[D(t)] = "backoff" /\ part'[t] = part[t]
         \/ /\ part'[t] = "absent" /\ pc'[D(t)] \in {"idle", "notify"}
            /\ \/ row'[t].state = row[t].state /\ row'[t].lpath = row[t].lpath
               \/ /\ row'[t].state = "download_failed" /\ row'[t].lpath = "none"
                  /\ Legal(t, "download_failed")
  BY <1>2, FailsEffect
<1>5. row[t].state = "queued" => ~ Legal(t, "download_failed")
  BY Edges DEF Legal
<1> QED BY <1>2, <1>3, <1>4, <1>5
        DEF Role, RoleOf, Coroutines, Downloading, Streaming, Uploading, Cancelled, FitsCopy,
            Remote, LocalLabels, Finishing

LEMMA ArrivesRole ==
    ASSUME RInv, Roles, NEW t \in Tasks, DownloadArrives(t), Turn(D(t))
    PROVE  Role(t)'
<1> DEFINE r == [row[t] EXCEPT !.state = "downloaded", !.lpath = "file"]
<1>1. row \in [Tasks -> Row] /\ pc \in [Workers -> Labels] /\ job \in [Workers -> Job]
      /\ part \in [Tasks -> {"absent", "partial", "whole"}]
  BY DEF RInv, TInv, TypeOK
<1>2. pc[D(t)] = "fetch" /\ Role(t) /\ UNCHANGED <<file, cancelling>>
  BY DEF DownloadArrives, Roles, commands
<1>0. pc[U(t)] \in {"idle", "notify"}
  BY <1>2, Pair, AloneInTurn
<1>3. CASE part[t] = "partial" /\ Legal(t, "downloaded")
  <2>1. /\ part' = [part EXCEPT ![t] = "whole"] /\ Put(t, r) /\ Goto(D(t), "renaming") /\ UNCHANGED job
    BY <1>3 DEF DownloadArrives
  <2>2. r.state = "downloaded" /\ r.lpath = "file" /\ r.mode = row[t].mode /\ r.cancel = row[t].cancel
    BY <1>1 DEF Row
  <2>3. row[t].state = "downloading"
    BY <1>2, <1>3, Edges, Pair DEF Legal, Role, RoleOf, Downloading, CanTransition, LegalTransitions, States
  <2> HIDE DEF r
  <2>4. /\ row'[t] = r /\ part'[t] = "whole" /\ pc'[D(t)] = "renaming" /\ pc'[U(t)] = pc[U(t)]
    BY <1>1, <2>1, Pair DEF Put, Goto
  <2> QED BY <1>2, <2>1, <2>2, <2>3, <2>4, <1>0
          DEF Role, RoleOf, Coroutines, Downloading, Streaming, Uploading, Cancelled, FitsCopy,
            Remote, LocalLabels, Finishing
<1>4. CASE ~ (part[t] = "partial" /\ Legal(t, "downloaded"))
  BY <1>0, <1>2, <1>4, FailsRole DEF DownloadArrives, Kinds
<1> QED BY <1>3, <1>4

LEMMA LocalRole ==
    ASSUME RInv, Roles, NEW t \in Tasks,
           \/ DownloadRename(t) \/ DownloadRenameFails(t)
           \/ DownloadError(t) /\ Turn(D(t))
    PROVE  Role(t)'
<1>1. row \in [Tasks -> Row] /\ pc \in [Workers -> Labels] /\ job \in [Workers -> Job]
      /\ part \in [Tasks -> {"absent", "partial", "whole"}] /\ file \in [Tasks -> {"absent", "short", "whole"}]
  BY DEF RInv, TInv, TypeOK
<1>2. Role(t)
  BY DEF Roles
<1>3. CASE DownloadRename(t)
  <2>1. /\ pc[D(t)] = "renaming" /\ UNCHANGED <<row, job, cancelling>> /\ pc'[D(t)] = "renamed"
        /\ pc'[U(t)] = pc[U(t)] /\ file'[t] = "whole" /\ part'[t] = "absent"
    BY <1>1, <1>3, Pair DEF DownloadRename, Goto, commands
  <2>2. row[t].lpath = "file" /\ row[t].mode = "local"
    BY <2>1, <1>2 DEF Role, RoleOf, Downloading, Coroutines, LocalLabels
  <2> QED BY <1>2, <2>1, <2>2
          DEF Role, RoleOf, Coroutines, Downloading, Streaming, Uploading, Cancelled, FitsCopy,
            Remote, LocalLabels, Finishing
<1>4. CASE DownloadRenameFails(t)
  <2>1. pc[D(t)] = "renaming" /\ pc[U(t)] \in {"idle", "notify"}
    BY <1>2, <1>4 DEF DownloadRenameFails, Role, RoleOf, Downloading
  <2> QED BY <1>4, <2>1, FailsRole DEF DownloadRenameFails, Kinds, commands
<1>5. CASE DownloadError(t) /\ Turn(D(t))
  <2>1. pc[D(t)] = "fetch" /\ pc[U(t)] \in {"idle", "notify"}
    BY <1>2, <1>5, AloneInTurn DEF DownloadError
  <2> QED BY <1>5, <2>1, FailsRole, PipelineAssumption DEF DownloadError, commands
<1> QED BY <1>3, <1>4, <1>5

LEMMA RecordRole ==
    ASSUME RInv, Roles, NEW t \in Tasks, DownloadRecord(t)
    PROVE  Role(t)'
<1> DEFINE r == [row[t] EXCEPT !.state = "waiting_upload", !.lpath = "file", !.dtries = job[D(t)].try]
<1>1. row \in [Tasks -> Row] /\ pc \in [Workers -> Labels]
  BY DEF RInv, TInv, TypeOK
<1>2. /\ pc[D(t)] = "renamed" /\ Role(t) /\ UNCHANGED <<file, part, job, cancelling>> /\ Put(t, r)
      /\ Ends(D(t))
  BY DEF DownloadRecord, Roles, commands, files, Notice, Ends
<1>3. r.state = "waiting_upload" /\ r.lpath = "file" /\ r.mode = row[t].mode /\ r.cancel = row[t].cancel
  BY <1>1 DEF Row
<1> HIDE DEF r
<1>4. row'[t] = r /\ pc'[D(t)] \in {"idle", "notify"} /\ pc'[U(t)] = pc[U(t)]
  BY <1>1, <1>2, Pair DEF Put, Goto, Ends
<1>5. pc[U(t)] \in {"idle", "notify"} /\ row[t].mode = "local" /\ cancelling[t] = "idle"
  BY <1>2 DEF Role, RoleOf, Downloading, Cancelled, Coroutines, LocalLabels
<1> QED BY <1>2, <1>3, <1>4, <1>5
        DEF Role, RoleOf, Coroutines, Downloading, Streaming, Uploading, Cancelled, FitsCopy,
            Remote, LocalLabels, Finishing

LEMMA RefusedRole ==
    ASSUME RInv, Roles, NEW t \in Tasks, DownloadRefused(t), Turn(D(t))
    PROVE  Role(t)'
<1>1. row \in [Tasks -> Row] /\ pc \in [Workers -> Labels] /\ job \in [Workers -> Job]
      /\ part \in [Tasks -> {"absent", "partial", "whole"}]
  BY DEF RInv, TInv, TypeOK
<1>2. /\ pc[D(t)] = "fetch" /\ Role(t) /\ UNCHANGED <<file, job, cancelling>> /\ Ends(D(t))
  BY DEF DownloadRefused, Roles, commands, Notice, Ends
<1>3. pc[U(t)] \in {"idle", "notify"} /\ pc'[D(t)] \in {"idle", "notify"} /\ pc'[U(t)] \in {"idle", "notify"}
  BY <1>1, <1>2, AloneInTurn, Pair DEF Goto, Ends
<1>4. CASE UNCHANGED <<row, part>>
  BY <1>2, <1>3, <1>4
     DEF Role, RoleOf, Coroutines, Downloading, Streaming, Uploading, Cancelled, FitsCopy,
         Remote, LocalLabels, Finishing
<1>5. CASE ~ row[t].cancel /\ part' = [part EXCEPT ![t] = "absent"]
           /\ \/ Put(t, [row[t] EXCEPT !.state = "queued", !.lpath = "none",
                                       !.dtries = @ + 1, !.kind = "refused"])
              \/ \E kind \in {"access", "refused"} :
                    Put(t, [row[t] EXCEPT !.state = "download_failed", !.lpath = "none", !.kind = kind])
  <2>1. /\ row'[t].state \in {"queued", "download_failed"} /\ row'[t].lpath = "none"
        /\ row'[t].mode = row[t].mode /\ row'[t].cancel = row[t].cancel
    <3> DEFINE again == [row[t] EXCEPT !.state = "queued", !.lpath = "none",
                                       !.dtries = @ + 1, !.kind = "refused"]
               off(kind) == [row[t] EXCEPT !.state = "download_failed", !.lpath = "none", !.kind = kind]
    <3>1. again.state = "queued" /\ again.lpath = "none" /\ again.mode = row[t].mode
          /\ again.cancel = row[t].cancel
      BY <1>1 DEF Row
    <3>2. ASSUME NEW kind
          PROVE  off(kind).state = "download_failed" /\ off(kind).lpath = "none"
                 /\ off(kind).mode = row[t].mode /\ off(kind).cancel = row[t].cancel
      BY <1>1 DEF Row
    <3>3. Put(t, again) \/ \E kind : Put(t, off(kind))
      BY <1>5
    <3> HIDE DEF again, off
    <3> QED BY <1>1, <3>1, <3>2, <3>3 DEF Put
  <2>2. part'[t] = "absent"
    BY <1>1, <1>5
  <2>3. file[t] # "whole"
    BY <1>2 DEF Role, RoleOf, Downloading, Coroutines, LocalLabels
  <2> QED BY <1>2, <1>3, <1>5, <2>1, <2>2, <2>3
     DEF Role, RoleOf, Coroutines, Downloading, Streaming, Uploading, Cancelled, FitsCopy,
         Remote, LocalLabels, Finishing
<1> QED BY <1>4, <1>5 DEF DownloadRefused

LEMMA StartDownloadRole ==
    ASSUME RInv, Roles, NEW t \in Tasks, StartDownload(t), Turn(D(t))
    PROVE  Role(t)'
<1> DEFINE r == [row[t] EXCEPT !.state = "reserved", !.kind = "none",
                               !.mode = IF @ = "stream" \/ t \in Oversized THEN "stream" ELSE "local"]
<1>1. row \in [Tasks -> Row] /\ pc \in [Workers -> Labels]
  BY DEF RInv, TInv, TypeOK
<1>2. /\ row[t].state = "queued" /\ ~ row[t].cancel /\ pc[D(t)] = "idle" /\ Role(t)
      /\ UNCHANGED <<file, part, job, cancelling>> /\ Put(t, r) /\ Goto(D(t), "start")
  BY DEF StartDownload, Roles, commands, files, Active
<1>3. r.state = "reserved" /\ r.lpath = row[t].lpath /\ r.cancel = row[t].cancel
  BY <1>1 DEF Row
<1> HIDE DEF r
<1>4. row'[t] = r /\ pc'[D(t)] = "start" /\ pc'[U(t)] = pc[U(t)]
  BY <1>1, <1>2, Pair DEF Put, Goto
<1>5. Peer(D(t)) = U(t)
  BY DEF Peer, D, U
<1>6. pc[U(t)] \in {"idle", "notify", "start"} /\ file[t] # "whole"
  BY <1>2 DEF Role, RoleOf, Uploading, FitsCopy
<1>7. pc[U(t)] \in {"idle", "notify"}
  BY <1>2, <1>5, <1>6 DEF Turn
<1> QED BY <1>2, <1>3, <1>4, <1>6, <1>7
        DEF Role, RoleOf, Coroutines, Downloading, Streaming, Uploading, Cancelled, FitsCopy,
            Remote, LocalLabels, Finishing

LEMMA StartUploadRole ==
    ASSUME RInv, Roles, NEW t \in Tasks, StartUpload(t), Turn(U(t))
    PROVE  Role(t)'
<1>1. pc \in [Workers -> Labels]
  BY DEF RInv, TInv, TypeOK
<1>2. /\ row[t].state \in {"cleanup_pending", "waiting_upload", "downloaded"} /\ ~ row[t].cancel
      /\ pc[U(t)] \in {"idle", "notify"} /\ Role(t) /\ UNCHANGED <<row, file, part, job, cancelling>> /\ Goto(U(t), "start")
  BY DEF StartUpload, Roles, commands, files, Active
<1>3. pc'[U(t)] = "start" /\ pc'[D(t)] = pc[D(t)]
  BY <1>1, <1>2, Pair DEF Goto
<1>4. /\ pc[D(t)] \notin Synchronous /\ pc[D(t)] # "start"
  BY <1>2, Pair DEF Turn, Yielded, Role, RoleOf, Downloading
<1>5. pc[D(t)] \in {"idle", "notify", "fetch", "backoff"} /\ (pc[D(t)] = "backoff" => job[D(t)].how = "local")
  BY <1>2, <1>4, Pair DEF Role, RoleOf, Downloading, Streaming, Coroutines, Remote, Finishing, LocalLabels,
     Labels, Synchronous
<1> QED BY <1>2, <1>3, <1>5
        DEF Role, RoleOf, Coroutines, Downloading, Streaming, Uploading, Cancelled, FitsCopy,
            Remote, LocalLabels, Finishing

-------------------------------------------------------------------------------
(* _upload_one up to its first attempt *)

\* The fields of a row that the checks on the local copy leave alone.
Twin(q, r) ==
    /\ q.mode = r.mode /\ q.cancel = r.cancel /\ q.gen = r.gen
    /\ q.temp = r.temp /\ q.final = r.final /\ q.rpath = r.rpath
Kin(q, r) == Twin(q, r) /\ q.kind = r.kind

LEMMA CheckEffect ==
    ASSUME RInv, NEW t \in Tasks, NEW r \in Row, CheckLocal(U(t), r)
    PROVE  /\ Kin(row'[t], r)
           /\ file'[t] = "whole" => file[t] = "whole"
           /\ part'[t] \in {part[t], "absent"}
           /\ pc'[D(t)] = pc[D(t)] /\ job'[D(t)] = job[D(t)]
           /\ \/ /\ Copy(t) = "whole" /\ pc'[U(t)] = "resume" /\ row'[t] = r
                 /\ job'[U(t)].how = "upload" /\ ~ job'[U(t)].outside /\ job'[U(t)].loc = r.lpath
              \/ /\ pc'[U(t)] \in {"idle", "notify"}
                 /\ \/ row'[t] = r
                    \/ /\ Copy(t) # "whole" /\ CanTransition(r.state, "queued")
                       /\ row'[t].state = "queued" /\ row'[t].lpath = "none"
                    \/ /\ CanTransition(r.state, "verification_failed_retained") /\ Copy(t) # "whole"
                       /\ row'[t].state = "verification_failed_retained" /\ row'[t].lpath = r.lpath
                    \/ /\ CanTransition(r.state, "upload_failed_retained") /\ Copy(t) = "whole"
                       /\ row'[t].state = "upload_failed_retained" /\ row'[t].lpath = r.lpath
<1> DEFINE fresh == [NewJob EXCEPT !.how = "upload", !.loc = r.lpath, !.try = r.utries]
           down == Downloadable(r)
           held == [r EXCEPT !.state = "verification_failed_retained"]
           off == [r EXCEPT !.state = "upload_failed_retained"]
           outside == [job EXCEPT ![U(t)].outside = TRUE]
<1>1. row \in [Tasks -> Row] /\ pc \in [Workers -> Labels] /\ job \in [Workers -> Job]
      /\ part \in [Tasks -> {"absent", "partial", "whole"}] /\ file \in [Tasks -> {"absent", "short", "whole"}]
  BY DEF RInv, TInv, TypeOK
<1>2. /\ Kin(down, r) /\ down.state = "queued" /\ down.lpath = "none" /\ Kin(r, r)
      /\ Kin(held, r) /\ held.state = "verification_failed_retained" /\ held.lpath = r.lpath
      /\ Kin(off, r) /\ off.state = "upload_failed_retained" /\ off.lpath = r.lpath
  BY DEF Kin, Twin, Downloadable, Row
<1>3. fresh.how = "upload" /\ ~ fresh.outside /\ fresh.loc = r.lpath
  BY DEF NewJob
<1>4. outside[D(t)] = job[D(t)]
  BY <1>1, Pair
<1>5. /\ \/ Copy(t) \in {"absent", "short", "partial"} /\ job' = outside
            /\ Ends(U(t))
            /\ row' = [row EXCEPT ![t] = IF CanTransition(r.state, "queued") THEN down ELSE r]
         \/ Copy(t) \in {"absent", "short", "partial"} /\ job' = outside
            /\ Ends(U(t))
            /\ row' = [row EXCEPT ![t] = IF CanTransition(r.state, "verification_failed_retained") THEN held ELSE r]
         \/ Copy(t) = "whole" /\ row' = [row EXCEPT ![t] = r] /\ pc' = [pc EXCEPT ![U(t)] = "resume"]
            /\ job' = [job EXCEPT ![U(t)] = fresh]
         \/ Copy(t) = "whole" /\ Ends(U(t)) /\ job' = [job EXCEPT ![U(t)] = fresh]
            /\ row' = [row EXCEPT ![t] = IF CanTransition(r.state, "upload_failed_retained") THEN off ELSE r]
      /\ UNCHANGED file \/ file' = [file EXCEPT ![t] = "absent"]
      /\ UNCHANGED part \/ part' = [part EXCEPT ![t] = "absent"]
  <2>1. Notice \in {"idle", "notify"}
    BY DEF Notice
  <2>2. U(t)[2] = t
    BY Pair
  <2> QED BY <2>1, <2>2 DEF CheckLocal, Put, Goto, Ends, files
<1> DEFINE c == Copy(t)
<1>6. c \in {"absent", "short", "partial"} => c # "whole"
  OBVIOUS
<1> HIDE DEF fresh, down, held, off, outside, c
<1>7. file'[t] = "whole" => file[t] = "whole"
  BY <1>1, <1>5
<1>8. part'[t] \in {part[t], "absent"}
  BY <1>1, <1>5
<1>9. pc'[D(t)] = pc[D(t)] /\ job'[D(t)] = job[D(t)]
  BY <1>1, <1>4, <1>5, Pair DEF Ends, Goto
<1> QED BY <1>1, <1>2, <1>3, <1>5, <1>6, <1>7, <1>8, <1>9, Pair DEF c, Ends, Goto

LEMMA UploadBeginRole ==
    ASSUME RInv, Roles, NEW t \in Tasks, UploadBegin(t)
    PROVE  Role(t)'
<1> DEFINE first == [NewJob EXCEPT !.how = "upload", !.loc = row[t].lpath, !.outside = TRUE]
<1>1. row \in [Tasks -> Row] /\ pc \in [Workers -> Labels] /\ job \in [Workers -> Job]
  BY DEF RInv, TInv, TypeOK
<1>2. pc[U(t)] = "start" /\ Role(t) /\ UNCHANGED cancelling
  BY DEF UploadBegin, Roles, commands
<1>3. pc[D(t)] \in {"idle", "notify", "fetch", "backoff"} /\ (pc[D(t)] \in {"fetch", "backoff"} => job[D(t)].how = "local")
  BY <1>2, Pair DEF Role, RoleOf, Downloading, Streaming, Coroutines, Remote, Finishing, LocalLabels,
     Labels
<1>4. CASE Goto(U(t), "idle") /\ UNCHANGED <<row, files, job>>
  <2>1. pc'[U(t)] = "idle" /\ pc'[D(t)] = pc[D(t)]
    BY <1>1, <1>4, Pair DEF Goto
  <2> QED BY <1>2, <1>4, <2>1
        DEF Role, RoleOf, Coroutines, Downloading, Streaming, Uploading, Cancelled, FitsCopy,
            Remote, LocalLabels, Finishing, files
<1>5. CASE /\ ~ row[t].cancel /\ row[t].state = "cleanup_pending"
           /\ job' = [job EXCEPT ![U(t)] = first] /\ Goto(U(t), "recheck") /\ UNCHANGED <<row, files>>
  <2>1. first.how = "upload" /\ first.outside /\ first.loc = row[t].lpath
    BY DEF NewJob
  <2> HIDE DEF first
  <2>2. pc'[U(t)] = "recheck" /\ pc'[D(t)] = pc[D(t)] /\ job'[U(t)] = first /\ job'[D(t)] = job[D(t)]
    BY <1>1, <1>5, Pair DEF Goto
  <2> QED BY <1>2, <1>3, <1>5, <2>1, <2>2
        DEF Role, RoleOf, Coroutines, Downloading, Streaming, Uploading, Cancelled, FitsCopy,
            Remote, LocalLabels, Finishing, files
<1>6. CASE /\ ~ row[t].cancel /\ CheckLocal(U(t), row[t])
           /\ row[t].state \notin {"completed", "confirmed", "cancelled", "cleanup_pending"}
  <2>1. row[t].state \in {"waiting_upload", "downloaded", "downloading", "queued"}
    BY <1>2, <1>6 DEF Role, RoleOf, Uploading
  <2>2. /\ CanTransition(row[t].state, "queued")
        /\ CanTransition(row[t].state, "verification_failed_retained") => row[t].state = "waiting_upload"
        /\ CanTransition(row[t].state, "upload_failed_retained") => row[t].state = "waiting_upload"
    BY <2>1, Edges DEF CanTransition, LegalTransitions, States
  <2>3. /\ Copy(t) = "whole" => row[t].state \in {"waiting_upload", "downloaded"} /\ file[t] = "whole"
        /\ file[t] = "whole" => Copy(t) = "whole"
    BY <1>2, <2>1 DEF Copy, Role, RoleOf, FitsCopy
  <2>4. Copy(t) = "whole" => pc[D(t)] \in {"idle", "notify"}
    BY <1>2, <1>3, <2>3 DEF Role, RoleOf, Downloading
  <2>5. /\ Kin(row'[t], row[t])
        /\ file'[t] = "whole" => file[t] = "whole"
        /\ part'[t] \in {part[t], "absent"}
        /\ pc'[D(t)] = pc[D(t)] /\ job'[D(t)] = job[D(t)]
        /\ \/ /\ Copy(t) = "whole" /\ pc'[U(t)] = "resume" /\ row'[t] = row[t]
              /\ job'[U(t)].how = "upload" /\ ~ job'[U(t)].outside /\ job'[U(t)].loc = row[t].lpath
           \/ /\ pc'[U(t)] \in {"idle", "notify"}
              /\ \/ row'[t] = row[t]
                 \/ /\ Copy(t) # "whole" /\ CanTransition(row[t].state, "queued")
                    /\ row'[t].state = "queued" /\ row'[t].lpath = "none"
                 \/ /\ CanTransition(row[t].state, "verification_failed_retained") /\ Copy(t) # "whole"
                    /\ row'[t].state = "verification_failed_retained" /\ row'[t].lpath = row[t].lpath
                 \/ /\ CanTransition(row[t].state, "upload_failed_retained") /\ Copy(t) = "whole"
                    /\ row'[t].state = "upload_failed_retained" /\ row'[t].lpath = row[t].lpath
    BY <1>6, CheckEffect, Pair
  <2> QED BY <1>2, <1>3, <1>6, <2>1, <2>2, <2>3, <2>4, <2>5, Pair
        DEF Role, RoleOf, Coroutines, Downloading, Streaming, Uploading, Cancelled, FitsCopy, Kin, Twin,
            Remote, LocalLabels, Finishing
<1> QED BY <1>4, <1>5, <1>6 DEF UploadBegin

LEMMA RecheckRole ==
    ASSUME RInv, Roles, NEW t \in Tasks, Recheck(U(t))
    PROVE  Role(t)'
<1> DEFINE r == row[t]
           p == r.rpath
           held == [r EXCEPT !.state = "verification_failed_retained", !.kind = "conflict",
                             !.verified = FALSE]
           again == [r EXCEPT !.state = "queued", !.lpath = "none", !.verified = FALSE]
           waiting == [r EXCEPT !.state = "waiting_upload", !.rpath = NoPath,
                                !.final = NoPath, !.verified = FALSE]
<1>1. row \in [Tasks -> Row] /\ pc \in [Workers -> Labels] /\ job \in [Workers -> Job]
  BY DEF RInv, TInv, TypeOK
<1>2. pc[U(t)] = "recheck" /\ Role(t) /\ UNCHANGED cancelling /\ U(t)[2] = t
  BY Pair DEF Recheck, Roles, commands
<1>3. pc[D(t)] \in {"idle", "notify"} /\ row[t].state = "cleanup_pending" /\ job[U(t)].outside /\ ~ row[t].cancel
  BY <1>2 DEF Role, RoleOf, Downloading, Uploading, Cancelled
<1>4. /\ held.state = "verification_failed_retained" /\ held.lpath = r.lpath /\ held.mode = r.mode
      /\ held.cancel = r.cancel
      /\ again.state = "queued" /\ again.lpath = "none" /\ again.mode = r.mode /\ again.cancel = r.cancel
      /\ waiting.state = "waiting_upload" /\ waiting.lpath = r.lpath /\ waiting.mode = r.mode
      /\ waiting.cancel = r.cancel /\ waiting \in Row
  <2>1. r \in Row
    BY <1>1
  <2> HIDE DEF r
  <2>2. /\ held.state = "verification_failed_retained" /\ held.lpath = r.lpath /\ held.mode = r.mode
        /\ held.cancel = r.cancel
    BY <2>1 DEF Row
  <2>3. again.state = "queued" /\ again.lpath = "none" /\ again.mode = r.mode /\ again.cancel = r.cancel
    BY <2>1 DEF Row
  <2>4. waiting.state = "waiting_upload" /\ waiting.lpath = r.lpath /\ waiting.mode = r.mode
        /\ waiting.cancel = r.cancel
    BY <2>1 DEF Row
  <2>5. waiting \in Row
    BY <2>1 DEF Row, States
  <2> QED BY <2>2, <2>3, <2>4, <2>5
<1>5. \/ job' = [job EXCEPT ![U(t)].goal = p] /\ Goto(U(t), "complete") /\ UNCHANGED <<row, files>>
      \/ Put(t, held) /\ Goto(U(t), "idle") /\ UNCHANGED <<job, files>>
      \/ r.mode = "stream" /\ Put(t, again) /\ Goto(U(t), "idle") /\ UNCHANGED <<job, files>>
      \/ CheckLocal(U(t), waiting)
  BY <1>2 DEF Recheck
<1> HIDE DEF held, again, waiting
<1>6. CASE job' = [job EXCEPT ![U(t)].goal = p] /\ Goto(U(t), "complete") /\ UNCHANGED <<row, files>>
  <2>1. /\ job'[U(t)].how = job[U(t)].how /\ job'[U(t)].outside = job[U(t)].outside
        /\ job'[U(t)].loc = job[U(t)].loc
        /\ job'[D(t)] = job[D(t)]
    BY <1>1, <1>6, Pair DEF Job
  <2>2. pc'[U(t)] = "complete" /\ pc'[D(t)] = pc[D(t)]
    BY <1>1, <1>3, <1>6, Pair DEF Goto
  <2>3. job'[U(t)].how = "upload"
    BY <1>2, <2>1 DEF Role, RoleOf, Coroutines
  <2> QED BY <1>2, <1>3, <1>6, <2>1, <2>2, <2>3
        DEF Role, RoleOf, Coroutines, Downloading, Streaming, Uploading, Cancelled, FitsCopy,
            Remote, LocalLabels, Finishing, files
<1>7. CASE \/ Put(t, held) /\ Goto(U(t), "idle") /\ UNCHANGED <<job, files>>
           \/ r.mode = "stream" /\ Put(t, again) /\ Goto(U(t), "idle") /\ UNCHANGED <<job, files>>
  <2>1. /\ pc'[U(t)] = "idle" /\ pc'[D(t)] = pc[D(t)] /\ UNCHANGED <<job, file, part>>
        /\ row'[t] = held \/ (row'[t] = again /\ r.mode = "stream")
    BY <1>1, <1>3, <1>7, Pair DEF Goto, Put, files
  <2> QED BY <1>2, <1>3, <1>4, <2>1
        DEF Role, RoleOf, Coroutines, Downloading, Streaming, Uploading, Cancelled, FitsCopy,
            Remote, LocalLabels, Finishing, files
<1>8. CASE CheckLocal(U(t), waiting)
  <2>1. /\ CanTransition(waiting.state, "queued")
    BY <1>4 DEF CanTransition, LegalTransitions, States
  <2>2. file[t] = "whole" => Copy(t) = "whole"
    BY <1>2 DEF Copy, Role, RoleOf, FitsCopy
  <2>3. /\ Kin(row'[t], waiting)
        /\ file'[t] = "whole" => file[t] = "whole"
        /\ part'[t] \in {part[t], "absent"}
        /\ pc'[D(t)] = pc[D(t)] /\ job'[D(t)] = job[D(t)]
        /\ \/ /\ Copy(t) = "whole" /\ pc'[U(t)] = "resume" /\ row'[t] = waiting
              /\ job'[U(t)].how = "upload" /\ ~ job'[U(t)].outside /\ job'[U(t)].loc = waiting.lpath
           \/ /\ pc'[U(t)] \in {"idle", "notify"}
              /\ \/ row'[t] = waiting
                 \/ /\ Copy(t) # "whole" /\ CanTransition(waiting.state, "queued")
                    /\ row'[t].state = "queued" /\ row'[t].lpath = "none"
                 \/ /\ CanTransition(waiting.state, "verification_failed_retained") /\ Copy(t) # "whole"
                    /\ row'[t].state = "verification_failed_retained" /\ row'[t].lpath = waiting.lpath
                 \/ /\ CanTransition(waiting.state, "upload_failed_retained") /\ Copy(t) = "whole"
                    /\ row'[t].state = "upload_failed_retained" /\ row'[t].lpath = waiting.lpath
    BY <1>4, <1>8, CheckEffect
  <2> QED BY <1>2, <1>3, <1>4, <2>1, <2>2, <2>3, Pair
        DEF Role, RoleOf, Coroutines, Downloading, Streaming, Uploading, Cancelled, FitsCopy, Kin, Twin,
            Remote, LocalLabels, Finishing
<1> QED BY <1>5, <1>6, <1>7, <1>8

-------------------------------------------------------------------------------
(* What the remote half does to its task, value by value *)

SameJob(k, j) ==
    /\ k.how = j.how /\ k.outside = j.outside /\ k.loc = j.loc
    /\ k.path = j.path /\ k.goal = j.goal /\ k.k = j.k

\* The outcomes of Fail for one row.
FailedBy(w, kind) ==
    LET t == w[2]
        r == row[t]
        q == row'[t]
        failed == FailedState(w) IN
    /\ Twin(q, r) /\ SameJob(job'[w], job[w])
    /\ lock' = IF lock = w THEN NoWorker ELSE lock
    /\ q.lpath = r.lpath \/ (job[w].how = "stream" /\ q.lpath = "none")
    /\ \/ /\ job[w].outside /\ pc'[w] \in {"idle", "notify"} /\ q.state = r.state /\ q.kind = r.kind
       \/ /\ ~ job[w].outside /\ kind \in {"conflict", "refused"} /\ pc'[w] \in {"idle", "notify"}
          /\ \/ Legal(t, failed) /\ q.state = failed /\ q.kind = kind
             \/ ~ Legal(t, failed) /\ q = r
       \/ /\ ~ job[w].outside /\ kind = "transient" /\ pc'[w] = "backoff" /\ q.state = r.state
          /\ q.kind = kind
       \/ /\ ~ job[w].outside /\ kind = "transient" /\ pc'[w] \in {"idle", "notify"} /\ q.kind = kind
          /\ \/ Legal(t, failed) /\ q.state = failed
             \/ ~ Legal(t, failed) /\ q.state = r.state

LEMMA TriedFields ==
    ASSUME NEW w, NEW r \in Row, NEW n
    PROVE  /\ Twin(Tried(w, r, n), r) /\ Tried(w, r, n).state = r.state
           /\ Tried(w, r, n).kind = r.kind /\ Tried(w, r, n).lpath = r.lpath
<1>1. ASSUME NEW q, q = [r EXCEPT !.dtries = n] \/ q = [r EXCEPT !.utries = n]
      PROVE  Twin(q, r) /\ q.state = r.state /\ q.kind = r.kind /\ q.lpath = r.lpath
  BY <1>1 DEF Twin, Row
<1> QED BY <1>1 DEF Tried

LEMMA FailEffect ==
    ASSUME RInv, NEW w \in Workers, NEW kind \in Kinds, Fail(w, kind), pc[w] \in InLoop
    PROVE  FailedBy(w, kind)
<1> DEFINE t == w[2]
           r == row[t]
           failed == FailedState(w)
           n == job[w].try + 1
           plain == [r EXCEPT !.kind = kind]
           tried == Tried(w, plain, n)
           kept == IF job[w].how = "stream" THEN [tried EXCEPT !.lpath = "none"] ELSE tried
           unmarked == [r EXCEPT !.verified = FALSE]
           held == [r EXCEPT !.state = failed, !.kind = kind, !.verified = FALSE]
           off == [kept EXCEPT !.state = failed]
           next == [job[w] EXCEPT !.try = n]
<1>1. row \in [Tasks -> Row] /\ pc \in [Workers -> Labels] /\ job \in [Workers -> Job] /\ t \in Tasks
      /\ r \in Row /\ job[w] \in Job /\ Notice \in {"idle", "notify"}
  BY WorkerTypes DEF RInv, TInv, TypeOK, Notice
<1>2. n \in 0..MaxRetries \/ job[w].outside
  BY <1>1, PipelineAssumption DEF RInv, TInv, TryBound, Uncounted, Job
<1>3. ~ job[w].outside => tried \in Row
  <2>1. plain \in Row
    BY <1>1 DEF Row
  <2> HIDE DEF plain, n
  <2> QED BY <1>2, <2>1, TriedType
<1>4. Twin(plain, r) /\ plain.state = r.state /\ plain.lpath = r.lpath /\ plain.kind = kind /\ plain \in Row
  BY <1>1 DEF Row, Twin
<1>5. /\ Twin(unmarked, r) /\ unmarked.state = r.state /\ unmarked.lpath = r.lpath /\ unmarked.kind = r.kind
      /\ Twin(held, r) /\ held.state = failed /\ held.lpath = r.lpath /\ held.kind = kind
  BY <1>1 DEF Row, Twin
<1>6. Twin(tried, r) /\ tried.state = r.state /\ tried.lpath = r.lpath /\ tried.kind = kind
  <2> HIDE DEF plain, n, r
  <2> QED BY <1>4, TriedFields DEF Twin
<1>7. ~ job[w].outside =>
         /\ Twin(kept, r) /\ kept.state = r.state /\ kept.kind = kind
         /\ kept.lpath = r.lpath \/ (job[w].how = "stream" /\ kept.lpath = "none")
         /\ kept \in Row
  <2> HIDE DEF tried, r
  <2> QED BY <1>3, <1>6 DEF Twin, Row
<1>8. ~ job[w].outside =>
         /\ Twin(off, r) /\ off.state = failed /\ off.kind = kind
         /\ off.lpath = r.lpath \/ (job[w].how = "stream" /\ off.lpath = "none")
  <2> HIDE DEF kept, r
  <2> QED BY <1>7 DEF Twin, Row
<1>9. SameJob(next, job[w]) /\ SameJob(job[w], job[w]) /\ Twin(r, r)
  BY <1>1 DEF SameJob, Job, Twin
<1>10. /\ lock' = IF lock = w THEN NoWorker ELSE lock
       /\ \/ /\ job[w].outside /\ Put(t, unmarked) /\ Goto(w, "idle") /\ UNCHANGED job
          \/ /\ ~ job[w].outside /\ kind \in {"conflict", "refused"}
             /\ IF Legal(t, failed) THEN Put(t, held) ELSE UNCHANGED row
             /\ Ends(w) /\ UNCHANGED job
          \/ /\ ~ job[w].outside /\ kind = "transient"
             /\ Put(t, tried) /\ job' = [job EXCEPT ![w].try = n] /\ Goto(w, "backoff")
          \/ /\ ~ job[w].outside /\ kind = "transient"
             /\ IF Legal(t, failed) THEN Put(t, off) ELSE Put(t, tried)
             /\ Ends(w) /\ UNCHANGED job
  BY <1>1 DEF Fail, Unlock, Ends
<1>11. job' = [job EXCEPT ![w].try = n] => job'[w] = next
  BY <1>1
<1> HIDE DEF t, r, failed, n, plain, tried, kept, unmarked, held, off, next
<1>12. \A q : Put(t, q) => row'[t] = q
  BY <1>1 DEF Put
<1>13. \A l : Goto(w, l) => pc'[w] = l
  BY <1>1 DEF Goto
<1>14. CASE job[w].outside
  BY <1>5, <1>9, <1>10, <1>12, <1>13, <1>14 DEF FailedBy, t, r
<1>15. CASE ~ job[w].outside /\ kind \in {"conflict", "refused"}
  BY <1>5, <1>9, <1>10, <1>12, <1>13, <1>15 DEF Ends, FailedBy, t, r, failed
<1>16. CASE ~ job[w].outside /\ kind = "transient"
  BY <1>6, <1>8, <1>9, <1>10, <1>11, <1>12, <1>13, <1>16 DEF Ends, FailedBy, t, r, failed
<1> QED BY <1>10, <1>14, <1>15, <1>16

\* A step of the remote half leads on, to the receipt or out of the coroutine.
Carried(w) ==
    LET t == w[2]
        r == row[t]
        q == row'[t] IN
    /\ UNCHANGED <<part, file, cancelling>>
    /\ pc'[Peer(w)] = pc[Peer(w)] /\ job'[Peer(w)] = job[Peer(w)]
    /\ q.mode = r.mode /\ q.cancel = r.cancel
    /\ q.lpath = r.lpath \/ (job[w].how = "stream" /\ q.lpath = "none")
    /\ job'[w].how = job[w].how /\ job'[w].outside = job[w].outside /\ job'[w].loc = job[w].loc
    /\ \/ pc'[w] \in {"idle", "notify"} /\ q.state \in {r.state, FailedState(w)}
       \/ /\ pc'[w] \in (Remote \ ({"recheck"} \cup Finishing)) \cup {"backoff"}
          /\ pc'[w] = "head" => job[w].how = "stream"
          /\ q.state \in {r.state, WritingState(w), "verifying", "finalizing"}
          /\ ~ job[w].outside
       \/ pc'[w] = "receipt" /\ q.state = "cleanup_pending"

Remotely(w) == pc[w] \in Remote \ (Finishing \cup {"recheck"}) \/ (pc[w] = "backoff" /\ job[w].how # "local")

\* Which worker runs the remote half, and that its peer rests meanwhile.
LEMMA RemotePeer ==
    ASSUME RInv, Roles, NEW w \in Workers, Remotely(w)
    PROVE  LET t == w[2] IN
           /\ t \in Tasks /\ Role(t) /\ Peer(w) \in Workers /\ Peer(w) # w /\ Peer(Peer(w)) = w
           /\ pc[Peer(w)] \in {"idle", "notify"} /\ ~ row[t].cancel /\ cancelling[t] = "idle"
           /\ \/ /\ w = D(t) /\ Peer(w) = U(t) /\ w[1] = "download" /\ job[w].how = "stream" /\ ~ job[w].outside
                 /\ row[t].state \in {"reserved", "streaming", "verifying", "finalizing"}
                 /\ row[t].mode = "stream" /\ file[t] # "whole"
              \/ /\ w = U(t) /\ Peer(w) = D(t) /\ w[1] = "upload" /\ job[w].how = "upload"
                 /\ \/ /\ ~ job[w].outside
                       /\ row[t].state \in {"waiting_upload", "uploading", "verifying", "finalizing",
                                            "downloaded"}
                    \/ /\ job[w].outside /\ row[t].state = "cleanup_pending" /\ pc[w] = "complete"
<1> DEFINE t == w[2]
<1>1. t \in Tasks /\ Role(t) /\ (w = D(t) \/ w = U(t))
  BY WorkerTypes DEF Roles, D, U, Workers
<1>2. D(t) # U(t) /\ D(t) \in Workers /\ U(t) \in Workers /\ Peer(D(t)) = U(t) /\ Peer(U(t)) = D(t)
      /\ D(t)[1] = "download" /\ U(t)[1] = "upload"
  BY <1>1, WorkerTypes DEF Peer, D, U
<1>3. pc[w] \in Labels /\ job[w] \in Job /\ cancelling[t] \in {"idle", "asked", "purging"}
  BY <1>1 DEF RInv, TInv, TypeOK
<1> HIDE DEF t
<1>4. CASE w = D(t)
  BY <1>1, <1>2, <1>3, <1>4
     DEF Remotely, t, Role, RoleOf, Coroutines, Downloading, Streaming, Uploading, Cancelled, FitsCopy,
         Remote, LocalLabels, Finishing, Job
<1>5. CASE w = U(t)
  BY <1>1, <1>2, <1>3, <1>5
     DEF Remotely, t, Role, RoleOf, Coroutines, Downloading, Streaming, Uploading, Cancelled, FitsCopy,
         Remote, LocalLabels, Finishing, Job
<1> QED BY <1>1, <1>4, <1>5

LEMMA CarriedRole ==
    ASSUME RInv, Roles, NEW w \in Workers, Remotely(w), Carried(w)
    PROVE  Role(w[2])'
<1> DEFINE t == w[2]
<1>1. /\ t \in Tasks /\ Role(t) /\ Peer(w) \in Workers /\ Peer(w) # w
      /\ pc[Peer(w)] \in {"idle", "notify"} /\ ~ row[t].cancel /\ cancelling[t] = "idle"
      /\ \/ /\ w = D(t) /\ Peer(w) = U(t) /\ w[1] = "download" /\ job[w].how = "stream" /\ ~ job[w].outside
            /\ row[t].state \in {"reserved", "streaming", "verifying", "finalizing"}
            /\ row[t].mode = "stream" /\ file[t] # "whole"
         \/ /\ w = U(t) /\ Peer(w) = D(t) /\ w[1] = "upload" /\ job[w].how = "upload"
            /\ \/ /\ ~ job[w].outside
                  /\ row[t].state \in {"waiting_upload", "uploading", "verifying", "finalizing",
                                       "downloaded"}
               \/ /\ job[w].outside /\ row[t].state = "cleanup_pending" /\ pc[w] = "complete"
  BY RemotePeer
<1> HIDE DEF t
<1>2. CASE w = D(t)
  BY <1>1, <1>2
     DEF Carried, t, Role, RoleOf, Coroutines, Downloading, Streaming, Uploading, Cancelled, FitsCopy,
         Remote, LocalLabels, Finishing, FailedState, WritingState
<1>3. CASE w = U(t)
  <2>0. /\ w # D(t)
        /\ row[t].state \in {"waiting_upload", "uploading", "verifying", "finalizing", "downloaded", "cleanup_pending"}
    BY <1>1, <1>3, Pair
  <2>1. /\ pc'[D(t)] = pc[D(t)] /\ pc[D(t)] \in {"idle", "notify"} /\ job'[D(t)] = job[D(t)] /\ UNCHANGED <<part, file, cancelling>>
        /\ row'[t].mode = row[t].mode /\ row'[t].cancel = row[t].cancel /\ row'[t].lpath = row[t].lpath
        /\ job'[U(t)].how = "upload" /\ job'[U(t)].outside = job[U(t)].outside /\ job'[U(t)].loc = job[U(t)].loc
    BY <1>1, <1>3 DEF Carried, t
  <2>2. /\ job[U(t)].loc = row[t].lpath
        /\ Coroutines(pc[D(t)], pc[U(t)], job[D(t)], job[U(t)])
        /\ Streaming(row[t], pc[D(t)], pc[U(t)], job[D(t)])
    BY <1>1, <1>3 DEF Role, RoleOf, Uploading, Remotely, Remote, Finishing
  <2>3. \/ pc'[U(t)] \in {"idle", "notify"}
        \/ /\ pc'[U(t)] \in (Remote \ ({"recheck", "head"} \cup Finishing)) \cup {"backoff"}
           /\ row'[t].state \in {row[t].state, "uploading", "verifying", "finalizing"} /\ ~ job[U(t)].outside
        \/ pc'[U(t)] = "receipt" /\ row'[t].state = "cleanup_pending"
    BY <1>1, <1>3 DEF Carried, t, WritingState
  <2>4. row'[t].state \in {row[t].state, "uploading", "verifying", "finalizing", "cleanup_pending",
                           "upload_failed_retained"}
    BY <1>1, <1>3 DEF Carried, t, WritingState, FailedState
  <2>5. FitsCopy(row'[t], pc'[D(t)], pc'[U(t)], file'[t], part'[t])
    <3>1. FitsCopy(row[t], pc[D(t)], pc[U(t)], file[t], part[t])
      BY <1>1 DEF Role, RoleOf
    <3>2. pc'[U(t)] # "cleaned"
      BY <2>3 DEF Remote, Finishing
    <3>3. file'[t] = file[t] /\ part'[t] = part[t]
      BY <2>1
    <3>4. row'[t].state \notin {"queued", "reserved", "downloading"}
      BY <2>0, <2>4
    <3> QED BY <2>1, <3>1, <3>2, <3>3, <3>4 DEF FitsCopy
  <2>6. ~ job[U(t)].outside => row[t].state # "cleanup_pending"
    BY <1>1, <1>3, <2>0
  <2>7. Uploading(row'[t], pc'[U(t)], job'[U(t)])
    BY <2>0, <2>1, <2>2, <2>3, <2>6 DEF Uploading, Remote, Finishing
  <2>8. Coroutines(pc'[D(t)], pc'[U(t)], job'[D(t)], job'[U(t)])
    BY <2>1, <2>2, <2>3 DEF Coroutines, Remote, Finishing, LocalLabels
  <2>9. Downloading(row'[t], pc'[D(t)], pc'[U(t)], job'[D(t)], file'[t])
        /\ Streaming(row'[t], pc'[D(t)], pc'[U(t)], job'[D(t)])
    BY <2>1, <2>2 DEF Downloading, Streaming, Remote, Finishing
  <2>10. Cancelled(row'[t], pc'[D(t)], pc'[U(t)], cancelling'[t])
    BY <1>1, <2>1 DEF Cancelled
  <2> QED BY <2>5, <2>7, <2>8, <2>9, <2>10 DEF Role, RoleOf, t
<1> QED BY <1>1, <1>2, <1>3 DEF t

\* The row of a stream is marked as one when its write begins.
Marked(w, q, r) ==
    /\ q.cancel = r.cancel /\ q.gen = r.gen /\ q.kind = r.kind
    /\ IF w[1] = "download" THEN q.mode = "stream" /\ q.lpath = "none" ELSE q.mode = r.mode /\ q.lpath = r.lpath

Begins(w) ==
    LET t == w[2]
        r == row[t]
        q == row'[t]
        p == Staging(t, r.gen) IN
    /\ Backend = "clouddrive2" /\ Legal(t, WritingState(w)) /\ pc'[w] = "write" /\ lock' = lock
    /\ Marked(w, q, r) /\ q.state = WritingState(w) /\ q.rpath = p /\ q.temp = p /\ q.final = r.final
    /\ job'[w].path = p /\ job'[w].how = job[w].how /\ job'[w].outside = job[w].outside /\ job'[w].loc = job[w].loc
    /\ job'[w].goal = job[w].goal

Queues(w) == Backend = "openlist" /\ pc'[w] = "lock" /\ UNCHANGED <<row, job, lock>>

Claims(w, p) ==
    LET t == w[2]
        r == row[t]
        q == row'[t] IN
    /\ q.rpath = p /\ q.final = p /\ job'[w].goal = p
    /\ job'[w].how = job[w].how /\ job'[w].outside = job[w].outside /\ job'[w].loc = job[w].loc
    /\ \/ /\ Backend = "openlist" /\ Legal(t, WritingState(w)) /\ Marked(w, q, r) /\ q.state = WritingState(w)
          /\ q.temp = NoPath /\ job'[w].path = p /\ lock' = NoWorker /\ pc'[w] = "write"
       \/ /\ Backend = "clouddrive2" /\ Legal(t, "finalizing") /\ q.state = "finalizing" /\ q.cancel = r.cancel
          /\ q.gen = r.gen /\ q.kind = r.kind /\ q.mode = r.mode /\ q.lpath = r.lpath
          /\ q.temp = job[w].path /\ job'[w].path = job[w].path /\ lock' = lock /\ pc'[w] = "move"

\* What is known of a worker's own values wherever it stands.
LEMMA Mine ==
    ASSUME RInv, NEW w \in Workers
    PROVE  /\ row \in [Tasks -> Row] /\ pc \in [Workers -> Labels] /\ job \in [Workers -> Job] /\ w[2] \in Tasks
           /\ row[w[2]] \in Row /\ job[w] \in Job
           /\ \A q : Put(w[2], q) => row'[w[2]] = q
           /\ \A l : Goto(w, l) => pc'[w] = l
           /\ \A j : job' = [job EXCEPT ![w] = j] => job'[w] = j
BY WorkerTypes DEF RInv, TInv, TypeOK, Put, Goto

LEMMA BegunFields ==
    ASSUME NEW w, NEW r \in Row
    PROVE  LET q == Begun(w, r) IN
           /\ Marked(w, q, r) /\ q.state = r.state /\ q.temp = r.temp /\ q.final = r.final /\ q.rpath = r.rpath
BY DEF Begun, Marked, Row

LEMMA BeginWriteEffect ==
    ASSUME RInv, NEW w \in Workers, BeginWrite(w), pc[w] \in InLoop
    PROVE  Queues(w) \/ Begins(w) \/ FailedBy(w, "transient")
<1> DEFINE t == w[2]
           r == row[t]
           p == Staging(t, r.gen)
           q == [r EXCEPT !.state = WritingState(w), !.rpath = p, !.temp = p]
           b == Begun(w, q)
           j == [job[w] EXCEPT !.path = p]
<1>1. CASE Backend = "openlist"
  BY <1>1, Mine DEF BeginWrite, Queues
<1>2. CASE Backend # "openlist" /\ Legal(t, WritingState(w))
  <2>1. Put(t, b) /\ job' = [job EXCEPT ![w].path = p] /\ Goto(w, "write") /\ UNCHANGED lock
    BY <1>2 DEF BeginWrite
  <2>2. r \in Row /\ p \in Paths /\ WritingState(w) \in States
    BY Mine, PathTypes, StateTypes DEF Row
  <2>3. /\ q \in Row /\ q.cancel = r.cancel /\ q.gen = r.gen /\ q.kind = r.kind /\ q.mode = r.mode
        /\ q.lpath = r.lpath /\ q.state = WritingState(w) /\ q.rpath = p /\ q.temp = p /\ q.final = r.final
    <3> HIDE DEF r, p
    <3> QED BY <2>2 DEF Row
  <2>4. /\ j.path = p /\ j.how = job[w].how /\ j.outside = job[w].outside /\ j.loc = job[w].loc /\ j.goal = job[w].goal
    BY Mine DEF Job
  <2>5. job'[w] = j
    BY <2>1, Mine
  <2>6. Marked(w, b, r) /\ b.state = q.state /\ b.temp = q.temp /\ b.final = q.final /\ b.rpath = q.rpath
    <3> HIDE DEF q, r
    <3> QED BY <2>3, BegunFields DEF Marked
  <2>7. Backend = "clouddrive2"
    BY <1>2, PipelineAssumption
  <2> HIDE DEF j, q, b
  <2> QED BY <1>2, <2>1, <2>3, <2>4, <2>5, <2>6, <2>7, Mine DEF Begins
<1>3. CASE Backend # "openlist" /\ ~ Legal(t, WritingState(w))
  BY <1>3, FailEffect DEF BeginWrite, Kinds
<1> QED BY <1>1, <1>2, <1>3

LEMMA ClaimEffect ==
    ASSUME RInv, NEW w \in Workers, NEW p \in Paths \cup {NoPath}, Claim(w, p), pc[w] \in InLoop
    PROVE  Claims(w, p) \/ FailedBy(w, "transient")
<1> DEFINE t == w[2]
           r == row[t]
           state == IF Backend = "openlist" THEN WritingState(w) ELSE "finalizing"
           claimed == [r EXCEPT !.state = state, !.rpath = p, !.final = p]
           bare == [claimed EXCEPT !.temp = NoPath]
           b == Begun(w, bare)
           staged == [claimed EXCEPT !.temp = job[w].path]
           direct == [[job[w] EXCEPT !.path = p] EXCEPT !.goal = p]
           moved == [job[w] EXCEPT !.goal = p]
<1>1. CASE ~ Legal(t, state)
  BY <1>1, FailEffect DEF Claim, Kinds
<1>2. r \in Row /\ job[w] \in Job /\ state \in States /\ job[w].path \in Paths \cup {NoPath}
  <2>1. WritingState(w) \in States /\ "finalizing" \in States
    BY StateTypes DEF States
  <2> QED BY <2>1, Mine DEF Job
<1>3. /\ claimed \in Row /\ claimed.cancel = r.cancel /\ claimed.gen = r.gen /\ claimed.kind = r.kind
      /\ claimed.mode = r.mode /\ claimed.lpath = r.lpath /\ claimed.state = state /\ claimed.rpath = p
      /\ claimed.final = p
  <2> HIDE DEF r, state
  <2> QED BY <1>2 DEF Row
<1>4. CASE Legal(t, state) /\ Backend = "openlist"
  <2>1. Put(t, b) /\ job' = [job EXCEPT ![w].path = p, ![w].goal = p] /\ Goto(w, "write") /\ lock' = NoWorker
    BY <1>4 DEF Claim
  <2>2. /\ bare \in Row /\ bare.cancel = r.cancel /\ bare.gen = r.gen /\ bare.kind = r.kind
        /\ bare.mode = r.mode /\ bare.lpath = r.lpath /\ bare.state = state /\ bare.rpath = p
        /\ bare.final = p /\ bare.temp = NoPath
    <3> HIDE DEF r, state, claimed
    <3> QED BY <1>3 DEF Row
  <2>3. /\ direct.path = p /\ direct.goal = p /\ direct.how = job[w].how /\ direct.outside = job[w].outside /\ direct.loc = job[w].loc
    BY <1>2 DEF Job
  <2>4. job'[w] = direct
    BY <2>1, Mine
  <2>5. Marked(w, b, r) /\ b.state = state /\ b.temp = NoPath /\ b.final = p /\ b.rpath = p
    <3> HIDE DEF bare, r, state
    <3> QED BY <2>2, BegunFields DEF Marked
  <2>6. row'[t] = b /\ pc'[w] = "write"
    <3> HIDE DEF b
    <3> QED BY <2>1, Mine
  <2>7. state = WritingState(w)
    BY <1>4
  <2> HIDE DEF b, direct, state
  <2> QED BY <1>4, <2>1, <2>3, <2>4, <2>5, <2>6, <2>7 DEF Claims
<1>5. CASE Legal(t, state) /\ Backend # "openlist"
  <2>1. Put(t, staged) /\ job' = [job EXCEPT ![w].goal = p] /\ Goto(w, "move") /\ UNCHANGED lock
    BY <1>5 DEF Claim
  <2>2. /\ staged.cancel = r.cancel /\ staged.gen = r.gen /\ staged.kind = r.kind
        /\ staged.mode = r.mode /\ staged.lpath = r.lpath /\ staged.state = state /\ staged.rpath = p
        /\ staged.final = p /\ staged.temp = job[w].path
    <3> HIDE DEF r, state, claimed
    <3> QED BY <1>2, <1>3 DEF Row
  <2>3. /\ moved.goal = p /\ moved.path = job[w].path /\ moved.how = job[w].how /\ moved.outside = job[w].outside /\ moved.loc = job[w].loc
    BY <1>2 DEF Job
  <2>4. job'[w] = moved
    BY <2>1, Mine
  <2>5. state = "finalizing" /\ Backend = "clouddrive2"
    BY <1>5, PipelineAssumption
  <2>6. row'[t] = staged /\ pc'[w] = "move"
    <3> HIDE DEF staged
    <3> QED BY <2>1, Mine
  <2> HIDE DEF staged, moved, state
  <2> QED BY <1>5, <2>1, <2>2, <2>3, <2>4, <2>5, <2>6 DEF Claims
<1> QED BY <1>1, <1>4, <1>5

\* The local values of a worker with a new path, goal or number.
Aims(w, path, goal) ==
    /\ job'[w].path = path /\ job'[w].goal = goal
    /\ job'[w].how = job[w].how /\ job'[w].outside = job[w].outside /\ job'[w].loc = job[w].loc

LEMMA AimTypes ==
    ASSUME RInv, NEW w \in Workers
    PROVE  /\ \A p : job' = [job EXCEPT ![w].goal = p] => Aims(w, job[w].path, p)
           /\ \A p : job' = [job EXCEPT ![w].path = p] => Aims(w, p, job[w].goal)
           /\ \A n : job' = [job EXCEPT ![w].k = n] => Aims(w, job[w].path, job[w].goal) /\ job'[w].k = n
           /\ UNCHANGED job => Aims(w, job[w].path, job[w].goal)
BY Mine DEF Aims, Job

\* What NothingToResume leads to.
Nothing(w) ==
    \/ job[w].how = "stream" /\ pc'[w] = "head" /\ UNCHANGED <<row, job, lock>>
    \/ Queues(w)
    \/ job[w].how # "stream" /\ Begins(w)
    \/ FailedBy(w, "transient")

LEMMA NothingEffect ==
    ASSUME RInv, NEW w \in Workers, NothingToResume(w), pc[w] \in InLoop
    PROVE  Nothing(w)
BY BeginWriteEffect, Mine DEF NothingToResume, Nothing

ResumeDone(w) ==
    LET final == RecordedFinal(row[w[2]]) IN
    /\ pc[w] = "resume" /\ UNCHANGED <<retained, files, store, commands, spent>>
    /\ \/ Whole(final) /\ Aims(w, job[w].path, final) /\ pc'[w] = "complete" /\ UNCHANGED <<row, lock>>
       \/ Exists(final) /\ FailedBy(w, "conflict")
       \/ /\ ~ Exists(final) /\ RecordedTemp(row[w[2]]) # NoPath
          /\ pc'[w] = "resumeTemp" /\ UNCHANGED <<row, job, lock>>
       \/ ~ Exists(final) /\ RecordedTemp(row[w[2]]) = NoPath /\ Nothing(w)

LEMMA ResumeEffect ==
    ASSUME RInv, NEW w \in Workers, Resume(w)
    PROVE  ResumeDone(w)
<1>1. pc[w] \in InLoop /\ "conflict" \in Kinds
  BY DEF Resume, InLoop, Labels, Kinds
<1> QED BY <1>1, Mine, AimTypes, FailEffect, NothingEffect DEF Resume, ResumeDone

ResumeTempDone(w) ==
    LET temp == RecordedTemp(row[w[2]]) IN
    /\ pc[w] = "resumeTemp" /\ UNCHANGED <<retained, files, store, commands, spent>>
    /\ \/ /\ Whole(temp) /\ Backend = "clouddrive2" /\ Aims(w, temp, job[w].goal) /\ pc'[w] = "lock"
          /\ UNCHANGED <<row, lock>>
       \/ Exists(temp) /\ FailedBy(w, "conflict")
       \/ ~ Exists(temp) /\ Nothing(w)

LEMMA ResumeTempEffect ==
    ASSUME RInv, NEW w \in Workers, ResumeTemp(w)
    PROVE  ResumeTempDone(w)
<1>1. pc[w] \in InLoop /\ "conflict" \in Kinds
  BY DEF ResumeTemp, InLoop, Labels, Kinds
<1> QED BY <1>1, Mine, AimTypes, FailEffect, NothingEffect DEF ResumeTemp, ResumeTempDone

StreamHeadDone(w) ==
    /\ pc[w] = "head" /\ UNCHANGED <<retained, files, store, commands, spent>>
    /\ Queues(w) \/ Begins(w) \/ FailedBy(w, "transient")

LEMMA StreamHeadEffect ==
    ASSUME RInv, NEW w \in Workers, StreamHead(w)
    PROVE  StreamHeadDone(w)
<1>1. pc[w] \in InLoop
  BY DEF StreamHead, InLoop, Labels
<1> QED BY <1>1, BeginWriteEffect DEF StreamHead, StreamHeadDone

TakeLockDone(w) ==
    LET final == row[w[2]].final IN
    /\ pc[w] = "lock" /\ lock = NoWorker /\ lock' = w
    /\ UNCHANGED <<row, retained, files, store, commands, spent>>
    /\ \/ final # NoPath /\ Aims(w, job[w].path, final) /\ pc'[w] = "reserved"
       \/ /\ final = NoPath /\ Aims(w, job[w].path, job[w].goal) /\ pc'[w] = "exists"
          /\ FirstUnclaimed(w[2], 0, job'[w].k)

LEMMA TakeLockEffect ==
    ASSUME RInv, NEW w \in Workers, TakeLock(w)
    PROVE  TakeLockDone(w)
BY Mine, AimTypes DEF TakeLock, TakeLockDone, LockFree

ChooseFinalDone(w) ==
    LET p == Candidate(w[2], job[w].k) IN
    /\ pc[w] = "exists" /\ UNCHANGED <<retained, files, store, commands, spent>>
    /\ \/ /\ Exists(p) /\ Aims(w, job[w].path, job[w].goal) /\ UNCHANGED <<row, pc, lock>>
          /\ FirstUnclaimed(w[2], job[w].k + 1, job'[w].k)
       \/ ~ Exists(p) /\ (Claims(w, p) \/ FailedBy(w, "transient"))

LEMMA ChooseFinalEffect ==
    ASSUME RInv, NEW w \in Workers, ChooseFinal(w)
    PROVE  ChooseFinalDone(w)
<1>1. pc[w] \in InLoop
  BY DEF ChooseFinal, InLoop, Labels
<1>2. Candidate(w[2], job[w].k) \in Paths \cup {NoPath}
  BY Mine, PathTypes DEF Job
<1> QED BY <1>1, <1>2, Mine, AimTypes, ClaimEffect DEF ChooseFinal, ChooseFinalDone

ReuseFinalDone(w) ==
    LET p == job[w].goal IN
    /\ pc[w] = "reserved" /\ UNCHANGED <<retained, files, store, commands, spent>>
    /\ \/ Exists(p) /\ FailedBy(w, "conflict")
       \/ ~ Exists(p) /\ (Claims(w, p) \/ FailedBy(w, "transient"))

LEMMA ReuseFinalEffect ==
    ASSUME RInv, NEW w \in Workers, ReuseFinal(w)
    PROVE  ReuseFinalDone(w)
<1>1. pc[w] \in InLoop /\ "conflict" \in Kinds
  BY DEF ReuseFinal, InLoop, Labels, Kinds
<1>2. job[w].goal \in Paths \cup {NoPath}
  BY Mine DEF Job
<1> QED BY <1>1, <1>2, FailEffect, ClaimEffect DEF ReuseFinal, ReuseFinalDone

WriteStartsDone(w) ==
    LET t == w[2] IN
    /\ pc[w] = "write" /\ UNCHANGED <<retained, files, commands, spent>>
    /\ \/ w[1] = "upload" /\ FailedBy(w, "transient") /\ UNCHANGED store
       \/ /\ store' = [store EXCEPT ![job[w].path] = Object(t, FALSE)]
          /\ pc'[w] = "writing" /\ UNCHANGED <<row, job, lock>>

LEMMA WriteStartsEffect ==
    ASSUME RInv, NEW w \in Workers, WriteStarts(w)
    PROVE  WriteStartsDone(w)
<1>1. pc[w] \in InLoop /\ "transient" \in Kinds
  BY DEF WriteStarts, InLoop, Labels, Kinds
<1> QED BY <1>1, Mine, FailEffect DEF WriteStarts, WriteStartsDone

WriteEndsDone(w) ==
    LET t == w[2] IN
    /\ pc[w] = "writing" /\ UNCHANGED <<retained, files, commands, spent>>
    /\ store' = [store EXCEPT ![job[w].path] = Object(t, w[1] = "download" \/ file[t] = "whole")]
    /\ \/ /\ Legal(t, "verifying") /\ Kin(row'[t], row[t]) /\ row'[t].lpath = row[t].lpath
          /\ row'[t].state = "verifying" /\ pc'[w] = "verify" /\ UNCHANGED <<job, lock>>
       \/ FailedBy(w, "transient")

LEMMA WriteEndsEffect ==
    ASSUME RInv, NEW w \in Workers, WriteEnds(w)
    PROVE  WriteEndsDone(w)
<1> DEFINE q == [row[w[2]] EXCEPT !.state = "verifying"]
<1>1. pc[w] \in InLoop /\ "transient" \in Kinds
  BY DEF WriteEnds, InLoop, Labels, Kinds
<1>2. Kin(q, row[w[2]]) /\ q.lpath = row[w[2]].lpath /\ q.state = "verifying"
  BY Mine DEF Kin, Twin, Row
<1>3. /\ pc[w] = "writing" /\ UNCHANGED <<retained, files, commands, spent>>
      /\ store' = [store EXCEPT ![job[w].path] = Object(w[2], w[1] = "download" \/ file[w[2]] = "whole")]
      /\ \/ Legal(w[2], "verifying") /\ Put(w[2], q) /\ Goto(w, "verify") /\ UNCHANGED <<job, lock>>
         \/ Fail(w, "transient")
  BY DEF WriteEnds
<1> HIDE DEF q
<1> QED BY <1>1, <1>2, <1>3, Mine, FailEffect DEF WriteEndsDone

VerifyDone(w) ==
    LET p == job[w].path IN
    /\ pc[w] = "verify" /\ UNCHANGED <<retained, files, store, commands, spent>>
    /\ \/ /\ Whole(p) /\ UNCHANGED <<row, lock>>
          /\ \/ IsStaging(p) /\ Aims(w, p, NoPath) /\ pc'[w] = "lock"
             \/ ~ IsStaging(p) /\ Aims(w, p, p) /\ pc'[w] = "final"
       \/ Exists(p) /\ FailedBy(w, "conflict")
       \/ ~ Exists(p) /\ FailedBy(w, "transient")

LEMMA VerifyEffect ==
    ASSUME RInv, NEW w \in Workers, Verify(w)
    PROVE  VerifyDone(w)
<1>1. pc[w] \in InLoop /\ {"transient", "conflict"} \subseteq Kinds
  BY DEF Verify, InLoop, Labels, Kinds
<1> QED BY <1>1, Mine, AimTypes, FailEffect DEF Verify, VerifyDone

MoveToFinalDone(w) ==
    LET source == job[w].path IN
    /\ pc[w] = "move" /\ UNCHANGED <<retained, files, commands, spent>>
    /\ \/ /\ Exists(source) /\ store' = [store EXCEPT ![job[w].goal] = store[source], ![source] = Absent]
          /\ lock' = (IF lock = w THEN NoWorker ELSE lock) /\ pc'[w] = "final" /\ UNCHANGED <<row, job>>
       \/ ~ Exists(source) /\ FailedBy(w, "transient") /\ UNCHANGED store

LEMMA MoveToFinalEffect ==
    ASSUME RInv, NEW w \in Workers, MoveToFinal(w)
    PROVE  MoveToFinalDone(w)
<1>1. pc[w] \in InLoop /\ "transient" \in Kinds
  BY DEF MoveToFinal, InLoop, Labels, Kinds
<1> QED BY <1>1, Mine, FailEffect DEF MoveToFinal, MoveToFinalDone, Unlock

FinalCheckDone(w) ==
    LET p == job[w].goal IN
    /\ pc[w] = "final" /\ UNCHANGED <<retained, files, store, commands, spent>>
    /\ \/ Whole(p) /\ pc'[w] = "complete" /\ UNCHANGED <<row, job, lock>>
       \/ Exists(p) /\ FailedBy(w, "conflict")
       \/ ~ Exists(p) /\ FailedBy(w, "transient")

LEMMA FinalCheckEffect ==
    ASSUME RInv, NEW w \in Workers, FinalCheck(w)
    PROVE  FinalCheckDone(w)
<1>1. pc[w] \in InLoop /\ {"transient", "conflict"} \subseteq Kinds
  BY DEF FinalCheck, InLoop, Labels, Kinds
<1> QED BY <1>1, Mine, FailEffect DEF FinalCheck, FinalCheckDone

Receipted(q, r, p) ==
    /\ q.state = "cleanup_pending" /\ q.rpath = p /\ q.final = p /\ q.temp = NoPath
    /\ q.cancel = r.cancel /\ q.gen = r.gen /\ q.mode = r.mode /\ q.lpath = r.lpath /\ q.kind = "none"
    /\ q.verified

ReceiveDone(w) ==
    LET r == row[w[2]]
        p == job[w].goal IN
    /\ pc[w] = "complete" /\ UNCHANGED <<retained, files, commands, spent>>
    /\ store' = IF r.temp \in Paths \ {p} THEN [store EXCEPT ![r.temp] = Absent] ELSE store
    /\ \/ /\ Legal(w[2], "cleanup_pending") /\ Receipted(row'[w[2]], r, p) /\ pc'[w] = "receipt"
          /\ UNCHANGED <<job, lock>>
       \/ ~ Legal(w[2], "cleanup_pending") /\ FailedBy(w, "transient")

LEMMA ReceiveEffect ==
    ASSUME RInv, NEW w \in Workers, Receive(w)
    PROVE  ReceiveDone(w)
<1> DEFINE q == Receipt(row[w[2]], job[w].goal)
<1>1. pc[w] \in InLoop /\ "transient" \in Kinds
  BY DEF Receive, InLoop, Labels, Kinds
<1>2. Receipted(q, row[w[2]], job[w].goal)
  BY Mine DEF Receipted, Receipt, Row
<1>3. CASE Legal(w[2], "cleanup_pending")
  <2>1. /\ pc[w] = "complete" /\ UNCHANGED <<retained, files, commands, spent>>
        /\ store' = IF row[w[2]].temp \in Paths \ {job[w].goal} THEN [store EXCEPT ![row[w[2]].temp] = Absent] ELSE store
        /\ Put(w[2], q) /\ Goto(w, "receipt") /\ UNCHANGED <<job, lock>>
    BY <1>3 DEF Receive
  <2> HIDE DEF q
  <2> QED BY <1>2, <1>3, <2>1, Mine DEF ReceiveDone
<1>4. CASE ~ Legal(w[2], "cleanup_pending")
  BY <1>1, <1>4, FailEffect DEF Receive, ReceiveDone
<1> QED BY <1>3, <1>4

RemoteRetryDone(w) ==
    /\ pc[w] = "backoff" /\ job[w].how # "local" /\ pc'[w] = "resume"
    /\ Kin(row'[w[2]], row[w[2]]) /\ row'[w[2]].state = row[w[2]].state /\ row'[w[2]].lpath = row[w[2]].lpath
    /\ UNCHANGED <<retained, files, store, job, lock, commands, spent>>

LEMMA RemoteRetryEffect ==
    ASSUME RInv, NEW w \in Workers, RemoteRetry(w)
    PROVE  RemoteRetryDone(w)
<1> DEFINE r == row[w[2]]
           q == IF w[1] = "upload" THEN [r EXCEPT !.utries = job[w].try] ELSE r
<1>1. Kin(q, r) /\ q.state = r.state /\ q.lpath = r.lpath
  BY Mine DEF Kin, Twin, Row
<1>2. /\ pc[w] = "backoff" /\ job[w].how # "local" /\ Goto(w, "resume") /\ Put(w[2], q)
      /\ UNCHANGED <<retained, files, store, job, lock, commands, spent>>
  BY DEF RemoteRetry
<1> HIDE DEF q
<1> QED BY <1>1, <1>2, Mine DEF RemoteRetryDone

\* The remote half is cut short: by rclone, by the source of a stream, or by
\* the account the stream reads through.
CutShort(w) ==
    /\ pc[w] \in InLoop /\ UNCHANGED <<retained, files, commands>>
    /\ \/ pc[w] = "recheck" \/ Remotely(w)
    /\ \/ /\ pc[w] \in {"recheck", "resume", "resumeTemp", "reserved", "exists", "write", "writing", "verify",
                        "move", "final", "complete"}
          /\ store' \in {store, Landed({w})}
          /\ \E kind \in {"transient", "refused", "conflict"} : FailedBy(w, kind)
       \/ /\ UNCHANGED store /\ job[w].how = "stream"
          /\ \E kind \in SourceErrors \cap {"transient", "refused", "conflict"} : FailedBy(w, kind)
       \/ /\ UNCHANGED <<store, job, lock>> /\ job[w].how = "stream" /\ pc'[w] \in {"idle", "notify"}
          /\ Twin(row'[w[2]], row[w[2]])
          /\ \/ /\ row'[w[2]] = row[w[2]]
                /\ row[w[2]].cancel \/ row[w[2]].state \notin {"reserved", "streaming"}
             \/ /\ row[w[2]].state \in {"reserved", "streaming"}
                /\ row'[w[2]].state = "download_failed" /\ row'[w[2]].lpath = "none"
                /\ row'[w[2]].kind \in {"access", "refused"}

LEMMA CutShortEffect ==
    ASSUME RInv, NEW w \in Workers, RemoteError(w) \/ StreamError(w) \/ StreamRefused(w)
    PROVE  CutShort(w)
<1>1. pc[w] \in InLoop /\ (pc[w] = "recheck" \/ Remotely(w)) /\ {"transient", "refused", "conflict"} \subseteq Kinds
  BY DEF RemoteError, StreamError, StreamRefused, InLoop, Labels, Remotely, Remote, Finishing, Kinds
<1>2. CASE RemoteError(w)
  BY <1>1, <1>2, FailEffect DEF RemoteError, CutShort
<1>3. CASE StreamError(w)
  BY <1>1, <1>3, FailEffect DEF StreamError, CutShort
<1>4. CASE StreamRefused(w)
  <2> DEFINE off(kind) == [row[w[2]] EXCEPT !.state = "download_failed", !.lpath = "none", !.kind = kind]
  <2>1. ASSUME NEW kind
        PROVE  /\ Twin(off(kind), row[w[2]]) /\ off(kind).state = "download_failed"
               /\ off(kind).lpath = "none" /\ off(kind).kind = kind
    BY Mine DEF Twin, Row
  <2>2. /\ job[w].how = "stream" /\ UNCHANGED <<retained, files, store, job, lock, commands>> /\ Ends(w)
        /\ \/ UNCHANGED row /\ (row[w[2]].cancel \/ row[w[2]].state \notin {"reserved", "streaming"})
           \/ /\ row[w[2]].state \in {"reserved", "streaming"}
              /\ \E kind \in {"access", "refused"} : Put(w[2], off(kind))
    BY <1>4 DEF StreamRefused, Notice, Ends
  <2>3. Twin(row[w[2]], row[w[2]])
    BY DEF Twin
  <2> HIDE DEF off
  <2> QED BY <1>1, <2>1, <2>2, <2>3, Mine DEF CutShort, Ends
<1> QED BY <1>2, <1>3, <1>4

-------------------------------------------------------------------------------
(* The roles through the remote half *)

LEMMA RemoteStill ==
    ASSUME RInv, NEW w \in Workers, RemoteStep(w)
    PROVE  /\ Others(w) /\ UNCHANGED <<part, file, cancelling>>
           /\ pc'[Peer(w)] = pc[Peer(w)] /\ job'[Peer(w)] = job[Peer(w)]
<1>1. ControlStep(w)
  BY RemoteStepType DEF RInv, WorkerStep
<1>2. Others(w) /\ UNCHANGED <<files, commands>>
  BY <1>1, ControlOthers, RemoteFiles
<1>3. Peer(w) \in Workers \ {w}
  BY WorkerTypes DEF Peer, D, U
<1> QED BY <1>2, <1>3 DEF Others, files, commands

\* What is left to say of a step of the remote half.
Leads(w) ==
    LET r == row[w[2]]
        q == row'[w[2]] IN
    /\ q.mode = r.mode /\ q.cancel = r.cancel
    /\ q.lpath = r.lpath \/ (job[w].how = "stream" /\ q.lpath = "none")
    /\ job'[w].how = job[w].how /\ job'[w].outside = job[w].outside /\ job'[w].loc = job[w].loc
    /\ \/ pc'[w] \in {"idle", "notify"} /\ q.state \in {r.state, FailedState(w)}
       \/ /\ pc'[w] \in (Remote \ ({"recheck"} \cup Finishing)) \cup {"backoff"}
          /\ pc'[w] = "head" => job[w].how = "stream"
          /\ q.state \in {r.state, WritingState(w), "verifying", "finalizing"}
          /\ ~ job[w].outside
       \/ pc'[w] = "receipt" /\ q.state = "cleanup_pending"

LEMMA FailedLeads ==
    ASSUME NEW w \in Workers, NEW kind, FailedBy(w, kind)
    PROVE  Leads(w)
BY DEF FailedBy, Leads, Twin, SameJob

LEMMA BeginsLeads ==
    ASSUME RInv, Roles, NEW w \in Workers, Remotely(w), pc[w] # "complete", Begins(w) \/ Queues(w)
    PROVE  Leads(w)
BY RemotePeer DEF Begins, Queues, Leads, Marked, Remote, Finishing

LEMMA ClaimsLeads ==
    ASSUME RInv, Roles, NEW w \in Workers, Remotely(w), pc[w] # "complete", NEW p, Claims(w, p)
    PROVE  Leads(w)
BY RemotePeer DEF Claims, Leads, Marked, Remote, Finishing

LEMMA NothingLeads ==
    ASSUME RInv, Roles, NEW w \in Workers, Remotely(w), pc[w] # "complete", Nothing(w)
    PROVE  Leads(w)
<1>1. CASE FailedBy(w, "transient")
  BY <1>1, FailedLeads
<1>2. CASE Begins(w) \/ Queues(w)
  BY <1>2, BeginsLeads
<1>3. CASE job[w].how = "stream" /\ pc'[w] = "head" /\ UNCHANGED <<row, job, lock>>
  BY <1>3, RemotePeer DEF Leads, Remote, Finishing
<1> QED BY <1>1, <1>2, <1>3 DEF Nothing

\* What every step of the remote half leads to.
LEMMA RemoteLeads ==
    ASSUME RInv, Roles, NEW w \in Workers, RemoteStep(w), Remotely(w)
    PROVE  Leads(w)
<1>1. CASE Resume(w)
  <2>1. ResumeDone(w) /\ Remotely(w) /\ pc[w] # "complete"
    BY <1>1, ResumeEffect DEF Resume, Remotely, Remote, Finishing
  <2> QED BY <2>1, FailedLeads, NothingLeads, RemotePeer DEF ResumeDone, Leads, Aims, Remote, Finishing
<1>2. CASE ResumeTemp(w)
  <2>1. ResumeTempDone(w) /\ Remotely(w) /\ pc[w] # "complete"
    BY <1>2, ResumeTempEffect DEF ResumeTemp, Remotely, Remote, Finishing
  <2> QED BY <2>1, FailedLeads, NothingLeads, RemotePeer DEF ResumeTempDone, Leads, Aims, Remote, Finishing
<1>3. CASE StreamHead(w)
  <2>1. StreamHeadDone(w) /\ Remotely(w) /\ pc[w] # "complete"
    BY <1>3, StreamHeadEffect DEF StreamHead, Remotely, Remote, Finishing
  <2> QED BY <2>1, FailedLeads, BeginsLeads DEF StreamHeadDone
<1>4. CASE TakeLock(w)
  <2>1. TakeLockDone(w) /\ Remotely(w) /\ pc[w] # "complete"
    BY <1>4, TakeLockEffect DEF TakeLock, Remotely, Remote, Finishing
  <2> QED BY <2>1, RemotePeer DEF TakeLockDone, Leads, Aims, Remote, Finishing
<1>5. CASE ChooseFinal(w)
  <2>1. ChooseFinalDone(w) /\ Remotely(w) /\ pc[w] # "complete"
    BY <1>5, ChooseFinalEffect DEF ChooseFinal, Remotely, Remote, Finishing
  <2> QED BY <2>1, FailedLeads, ClaimsLeads, RemotePeer DEF ChooseFinalDone, Leads, Aims, Remote, Finishing
<1>6. CASE ReuseFinal(w)
  <2>1. ReuseFinalDone(w) /\ Remotely(w) /\ pc[w] # "complete"
    BY <1>6, ReuseFinalEffect DEF ReuseFinal, Remotely, Remote, Finishing
  <2> QED BY <2>1, FailedLeads, ClaimsLeads DEF ReuseFinalDone
<1>7. CASE WriteStarts(w)
  <2>1. WriteStartsDone(w) /\ Remotely(w) /\ pc[w] # "complete"
    BY <1>7, WriteStartsEffect DEF WriteStarts, Remotely, Remote, Finishing
  <2> QED BY <2>1, FailedLeads, RemotePeer DEF WriteStartsDone, Leads, Remote, Finishing
<1>8. CASE WriteEnds(w)
  <2>1. WriteEndsDone(w) /\ Remotely(w) /\ pc[w] # "complete"
    BY <1>8, WriteEndsEffect DEF WriteEnds, Remotely, Remote, Finishing
  <2> QED BY <2>1, FailedLeads, RemotePeer DEF WriteEndsDone, Leads, Kin, Twin, Remote, Finishing
<1>9. CASE Verify(w)
  <2>1. VerifyDone(w) /\ Remotely(w) /\ pc[w] # "complete"
    BY <1>9, VerifyEffect DEF Verify, Remotely, Remote, Finishing
  <2> QED BY <2>1, FailedLeads, RemotePeer DEF VerifyDone, Leads, Aims, Remote, Finishing
<1>10. CASE MoveToFinal(w)
  <2>1. MoveToFinalDone(w) /\ Remotely(w) /\ pc[w] # "complete"
    BY <1>10, MoveToFinalEffect DEF MoveToFinal, Remotely, Remote, Finishing
  <2> QED BY <2>1, FailedLeads, RemotePeer DEF MoveToFinalDone, Leads, Remote, Finishing
<1>11. CASE FinalCheck(w)
  <2>1. FinalCheckDone(w) /\ Remotely(w) /\ pc[w] # "complete"
    BY <1>11, FinalCheckEffect DEF FinalCheck, Remotely, Remote, Finishing
  <2> QED BY <2>1, FailedLeads, RemotePeer DEF FinalCheckDone, Leads, Remote, Finishing
<1>12. CASE Receive(w)
  <2>1. ReceiveDone(w) /\ Remotely(w)
    BY <1>12, ReceiveEffect DEF Receive, Remotely, Remote, Finishing
  <2> QED BY <2>1, FailedLeads, RemotePeer DEF ReceiveDone, Leads, Receipted, Remote, Finishing
<1>13. CASE RemoteRetry(w)
  <2>1. RemoteRetryDone(w) /\ Remotely(w)
    BY <1>13, RemoteRetryEffect DEF RemoteRetry, Remotely, Remote, Finishing
  <2> QED BY <2>1, RemotePeer DEF RemoteRetryDone, Leads, Kin, Twin, Remote, Finishing
<1>14. CASE RemoteError(w) \/ StreamError(w) \/ StreamRefused(w)
  <2>1. CutShort(w)
    BY <1>14, CutShortEffect
  <2> QED BY <2>1, FailedLeads, RemotePeer DEF CutShort, Leads, Twin, FailedState, Remotely, Remote, Finishing
<1>15. ~ Notified(w)
  BY DEF Notified, Remotely, Remote, Finishing
<1> QED BY <1>1, <1>2, <1>3, <1>4, <1>5, <1>6, <1>7, <1>8, <1>9, <1>10, <1>11, <1>12, <1>13, <1>14, <1>15 DEF RemoteStep

LEMMA RemoteRole ==
    ASSUME RInv, Roles, NEW w \in Workers, RemoteStep(w)
    PROVE  Role(w[2])'
<1>1. UNCHANGED <<part, file, cancelling>> /\ pc'[Peer(w)] = pc[Peer(w)] /\ job'[Peer(w)] = job[Peer(w)]
  BY RemoteStill
<1>2. CASE Remotely(w)
  <2>1. Carried(w)
    BY <1>1, <1>2, RemoteLeads DEF Leads, Carried
  <2> QED BY <1>2, <2>1, CarriedRole
<1>3. CASE Notified(w)
  <2>1. pc[w] = "notify" /\ w[2] \in Tasks /\ Role(w[2]) /\ (w = D(w[2]) \/ w = U(w[2]))
        /\ D(w[2]) # U(w[2])
    BY <1>3, Pair, WorkerTypes DEF Notified, Roles, D, U, Workers
  <2>2. pc'[w] = "idle" /\ UNCHANGED <<row, job>>
    BY <1>3, Mine DEF Notified
  <2>3. Peer(D(w[2])) = U(w[2]) /\ Peer(U(w[2])) = D(w[2])
    BY DEF Peer, D, U
  <2> QED BY <1>1, <2>1, <2>2, <2>3
          DEF Role, RoleOf, Coroutines, Downloading, Streaming, Uploading, Cancelled, FitsCopy,
              Remote, LocalLabels, Finishing
<1>4. CASE pc[w] = "recheck"
  <2>1. CutShort(w)
    BY <1>4, CutShortEffect
       DEF RemoteStep, Resume, ResumeTemp, StreamHead, TakeLock, ChooseFinal, ReuseFinal, WriteStarts, WriteEnds,
           Verify, MoveToFinal, FinalCheck, Receive, RemoteRetry, Notified
  <2>2. w[2] \in Tasks /\ Role(w[2]) /\ (w = D(w[2]) \/ w = U(w[2]))
    BY WorkerTypes DEF Roles, D, U, Workers
  <2>3. w = U(w[2]) /\ Peer(w) = D(w[2])
    BY <1>4, <2>2, Pair DEF Role, RoleOf, Coroutines, Peer
  <2>4. job[w].outside /\ job[w].how = "upload" /\ pc[D(w[2])] \in {"idle", "notify"}
    BY <1>4, <2>2, <2>3 DEF Role, RoleOf, Coroutines, Uploading, Downloading
  <2>5. PICK kind : FailedBy(w, kind)
    BY <2>1, <2>4 DEF CutShort
  <2>6. /\ pc'[w] \in {"idle", "notify"} /\ row'[w[2]].state = row[w[2]].state /\ Twin(row'[w[2]], row[w[2]])
        /\ row'[w[2]].lpath = row[w[2]].lpath /\ row'[w[2]].kind = row[w[2]].kind
    BY <2>4, <2>5 DEF FailedBy
  <2> QED BY <1>1, <1>4, <2>2, <2>3, <2>4, <2>6
          DEF Role, RoleOf, Coroutines, Downloading, Streaming, Uploading, Cancelled, FitsCopy, Twin,
              Remote, LocalLabels, Finishing
<1>5. Notified(w) \/ Remotely(w) \/ pc[w] = "recheck"
  BY DEF RemoteStep, Resume, ResumeTemp, StreamHead, TakeLock, ChooseFinal, ReuseFinal, WriteStarts, WriteEnds,
         Verify, MoveToFinal, FinalCheck, Receive, RemoteRetry, RemoteError, StreamError, StreamRefused,
         Remotely, Remote, Finishing
<1> QED BY <1>2, <1>3, <1>4, <1>5

-------------------------------------------------------------------------------
(* The roles through cleaning, cancelling, commands and restarts *)

\* The last steps of a coroutine run alone.
LEMMA FinishingPeer ==
    ASSUME RInv, Roles, NEW w \in Workers, pc[w] \in Finishing
    PROVE  LET t == w[2] IN
           /\ t \in Tasks /\ Role(t) /\ ~ row[t].cancel /\ row[t].state = "cleanup_pending"
           /\ cancelling[t] = "idle"
           /\ \/ w = D(t) /\ w # U(t) /\ pc[U(t)] \in {"idle", "notify"} /\ row[t].mode = "stream" /\ job[w].how = "stream"
              \/ w = U(t) /\ w # D(t) /\ pc[D(t)] \in {"idle", "notify"} /\ job[w].loc = row[t].lpath /\ job[w].how = "upload"
<1> DEFINE t == w[2]
<1>1. t \in Tasks /\ Role(t) /\ (w = D(t) \/ w = U(t))
  BY WorkerTypes DEF Roles, D, U, Workers
<1>2. /\ D(t) # U(t) /\ pc[D(t)] \in Labels /\ pc[U(t)] \in Labels
      /\ cancelling[t] \in {"idle", "asked", "purging"}
  BY <1>1, Pair DEF RInv, TInv, TypeOK
<1> HIDE DEF t
<1>3. CASE w = D(t)
  BY <1>1, <1>2, <1>3
     DEF t, Role, RoleOf, Coroutines, Downloading, Streaming, Cancelled, Remote, Finishing
<1>4. CASE w = U(t)
  BY <1>1, <1>2, <1>4
     DEF t, Role, RoleOf, Coroutines, Downloading, Uploading, Cancelled, Remote, Finishing
<1> QED BY <1>1, <1>3, <1>4

LEMMA CleanRole ==
    ASSUME RInv, Roles, NEW w \in Workers, Clean(w) \/ CleanFails(w) \/ Complete(w)
    PROVE  Role(w[2])'
<1> DEFINE t == w[2]
           done == [row[t] EXCEPT !.state = "completed", !.lpath = "none"]
<1>1. pc[w] \in Finishing
  BY DEF Clean, CleanFails, Complete, Finishing
<1>2. /\ t \in Tasks /\ Role(t) /\ ~ row[t].cancel /\ row[t].state = "cleanup_pending"
      /\ cancelling[t] = "idle"
      /\ \/ w = D(t) /\ w # U(t) /\ pc[U(t)] \in {"idle", "notify"} /\ row[t].mode = "stream" /\ job[w].how = "stream"
         \/ w = U(t) /\ w # D(t) /\ pc[D(t)] \in {"idle", "notify"} /\ job[w].loc = row[t].lpath /\ job[w].how = "upload"
  BY <1>1, FinishingPeer
<1>3. /\ pc \in [Workers -> Labels] /\ file \in [Tasks -> {"absent", "short", "whole"}]
      /\ part \in [Tasks -> {"absent", "partial", "whole"}] /\ row \in [Tasks -> Row]
  BY DEF RInv, TInv, TypeOK
<1>4. UNCHANGED <<job, cancelling>>
  BY DEF Clean, CleanFails, Complete, commands
<1>5. \A v \in Workers \ {w} : pc'[v] = pc[v]
  BY <1>3 DEF Clean, CleanFails, Complete, Goto
<1>6. file[t] = "whole" => row[t].lpath = "file" /\ row[t].mode = "local"
  BY <1>2 DEF Role, RoleOf, FitsCopy
<1>7. done.state = "completed" /\ done.lpath = "none" /\ done.mode = row[t].mode /\ done.cancel = row[t].cancel
  BY <1>2, <1>3 DEF Row
<1>8. /\ file'[t] = "whole" => file[t] = "whole"
      /\ part'[t] \in {part[t], "absent"}
      /\ \/ /\ pc'[w] = "cleaned" /\ row' = row /\ (job[w].loc = "file" => file'[t] # "whole")
         \/ /\ pc'[w] \in {"idle", "notify"} /\ row' = row
         \/ /\ pc'[w] \in {"idle", "notify"} /\ row'[t] = done /\ pc[w] = "cleaned"
  <2> HIDE DEF done
  <2>1. CASE Clean(w)
    BY <1>2, <1>3, <2>1, Mine DEF Clean
  <2>2. CASE CleanFails(w)
    BY <1>2, <1>3, <2>2, Mine DEF CleanFails, files
  <2>3. CASE Complete(w)
    <3>1. Put(t, done) /\ Ends(w) /\ pc[w] = "cleaned" /\ UNCHANGED <<file, part>>
      BY <2>3 DEF Complete, Notice, Ends, files, done
    <3> QED BY <3>1, Mine DEF Ends
  <2> QED BY <2>1, <2>2, <2>3
<1>9. pc[w] = "cleaned" => file[t] # "whole"
  BY <1>2 DEF Role, RoleOf, FitsCopy
<1> HIDE DEF t, done
<1>10. D(t) \in Workers /\ U(t) \in Workers /\ D(t) # U(t)
  BY <1>2, Pair
<1>11. CASE w = D(t)
  BY <1>2, <1>4, <1>5, <1>6, <1>7, <1>8, <1>9, <1>10, <1>11
     DEF t, Role, RoleOf, Coroutines, Downloading, Streaming, Uploading, Cancelled, FitsCopy, Remote, LocalLabels,
         Finishing
<1>12. CASE w = U(t)
  BY <1>2, <1>4, <1>5, <1>6, <1>7, <1>8, <1>9, <1>10, <1>12
     DEF t, Role, RoleOf, Coroutines, Downloading, Streaming, Uploading, Cancelled, FitsCopy, Remote, LocalLabels,
         Finishing
<1> QED BY <1>2, <1>11, <1>12

\* A cancelled coroutine moves the state and the local path only.
LEMMA InterruptedFacts ==
    ASSUME NEW w, NEW r \in Row
    PROVE  LET q == Interrupted(w, r) IN
           /\ Kin(q, r)
           /\ \/ q = r
              \/ /\ Handles(w, r) /\ w[1] = "upload" /\ CanTransition(r.state, "waiting_upload")
                 /\ q.state = "waiting_upload" /\ q.lpath = r.lpath
              \/ /\ Handles(w, r) /\ w[1] # "upload" /\ job[w].how = "local" /\ file[w[2]] = "whole"
                 /\ q.state = "waiting_upload" /\ q.lpath = "file" /\ CanTransition(r.state, "waiting_upload")
              \/ /\ Handles(w, r) /\ w[1] # "upload" /\ CanTransition(r.state, "queued")
                 /\ ~ (job[w].how = "local" /\ file[w[2]] = "whole")
                 /\ q.state = "queued" /\ q.lpath = "none"
           /\ Handles(w, r) /\ w[1] # "upload" /\ ~ (job[w].how = "local" /\ file[w[2]] = "whole")
                 /\ CanTransition(r.state, "queued") => q.state = "queued" /\ q.lpath = "none"
<1> DEFINE up == [r EXCEPT !.state = "waiting_upload"]
           kept == [r EXCEPT !.state = "waiting_upload", !.lpath = "file"]
           again == [r EXCEPT !.state = "queued", !.lpath = "none"]
<1>1. /\ Kin(r, r) /\ Kin(up, r) /\ up.state = "waiting_upload" /\ up.lpath = r.lpath
      /\ Kin(kept, r) /\ kept.state = "waiting_upload" /\ kept.lpath = "file"
      /\ Kin(again, r) /\ again.state = "queued" /\ again.lpath = "none"
  BY DEF Kin, Twin, Row
<1>2. Interrupted(w, r) =
        IF ~ Handles(w, r) THEN r
        ELSE IF w[1] = "upload" THEN (IF CanTransition(r.state, "waiting_upload") THEN up ELSE r)
        ELSE IF job[w].how = "local" /\ file[w[2]] = "whole"
        THEN IF CanTransition(r.state, "waiting_upload") THEN kept ELSE r
        ELSE IF CanTransition(r.state, "queued") THEN again ELSE r
  BY DEF Interrupted, Moved
<1> HIDE DEF up, kept, again
<1> QED BY <1>1, <1>2

\* What is left of the copy of a task whose coroutine was cancelled.
LEMMA InterruptedCopy ==
    ASSUME RInv, Roles, NEW t \in Tasks, NEW r \in Row, NEW w \in {D(t), U(t)},
           r.state = row[t].state, r.lpath = row[t].lpath, r.mode = row[t].mode
    PROVE  /\ FitsCopy(Interrupted(w, r), "idle", "idle", file[t], PartInterrupted(w, r))
           /\ PartInterrupted(w, r) \in {part[t], "absent"}
           /\ Interrupted(w, r).state \in {r.state, "queued", "waiting_upload"}
<1> DEFINE q == Interrupted(w, r)
           p == PartInterrupted(w, r)
<1>1. Role(t) /\ w[2] = t /\ w \in Workers /\ D(t) # U(t)
  BY Pair DEF Roles
<1>2. /\ Kin(q, r)
      /\ \/ q = r
         \/ /\ Handles(w, r) /\ w[1] = "upload" /\ CanTransition(r.state, "waiting_upload")
            /\ q.state = "waiting_upload" /\ q.lpath = r.lpath
         \/ /\ Handles(w, r) /\ w[1] # "upload" /\ job[w].how = "local" /\ file[t] = "whole"
            /\ q.state = "waiting_upload" /\ q.lpath = "file" /\ CanTransition(r.state, "waiting_upload")
         \/ /\ Handles(w, r) /\ w[1] # "upload" /\ CanTransition(r.state, "queued")
            /\ ~ (job[w].how = "local" /\ file[t] = "whole")
            /\ q.state = "queued" /\ q.lpath = "none"
  BY <1>1, InterruptedFacts
<1>3. p \in {part[t], "absent"}
  BY <1>1 DEF PartInterrupted
<1>4. FitsCopy(row[t], pc[D(t)], pc[U(t)], file[t], part[t])
  BY <1>1 DEF Role, RoleOf
<1>5. Handles(w, r) /\ w[1] # "upload" => w = D(t) /\ pc[D(t)] \notin {"idle", "start"}
  BY Pair DEF Handles
<1>6. pc[D(t)] \notin {"idle", "start"} /\ job[D(t)].how # "local" => row[t].mode = "stream"
  BY <1>1, Pair DEF Role, RoleOf, Coroutines, Streaming
<1> HIDE DEF q, p
<1>8. FitsCopy(q, "idle", "idle", file[t], p)
  BY <1>2, <1>3, <1>4, <1>5, <1>6 DEF FitsCopy, Kin, Twin
<1>9. q.state \in {r.state, "queued", "waiting_upload"}
  BY <1>2
<1> QED BY <1>3, <1>8, <1>9 DEF q, p

-------------------------------------------------------------------------------
(* The roles through cancelling *)

\* A step about one task leaves the others alone.
Apart(t) ==
    \A x \in Tasks \ {t} :
       /\ row'[x] = row[x] /\ file'[x] = file[x] /\ part'[x] = part[x]
       /\ cancelling'[x] = cancelling[x] /\ purge'[x] = purge[x]
       /\ \A w \in {D(x), U(x)} : pc'[w] = pc[w] /\ job'[w] = job[w]

LEMMA ApartRoles ==
    ASSUME Roles, NEW t \in Tasks, Apart(t), Role(t)'
    PROVE  Roles'
<1> SUFFICES ASSUME NEW x \in Tasks \ {t} PROVE Role(x)'
  BY DEF Roles
<1> QED BY DEF Apart, Roles, Role

\* The ways EndCancel leaves the row and the copies of its task.
EndedBy(t, r) ==
    /\ file'[t] \in {file[t], "absent"} /\ part'[t] \in {part[t], "absent"}
    /\ \A x \in Tasks \ {t} : row'[x] = row[x] /\ file'[x] = file[x] /\ part'[x] = part[x]
    /\ \/ /\ row'[t].state = "cancelled" /\ row'[t].lpath = "none" /\ ~ row'[t].cancel
          /\ row'[t].rpath = NoPath /\ row'[t].temp = NoPath /\ row'[t].final = NoPath
          /\ row'[t].mode = r.mode /\ row'[t].gen = r.gen /\ row'[t].kind = r.kind
          /\ CanTransition(r.state, "cancelled")
          /\ r.lpath = "file" => file'[t] = "absent"
          /\ part'[t] = "absent"
       \/ row'[t] = r

LEMMA EndCancelEffect ==
    ASSUME RInv, NEW t \in Tasks, NEW r \in Row, NEW used, EndCancel(t, r, used)
    PROVE  EndedBy(t, r)
<1> DEFINE ended == [r EXCEPT !.state = "cancelled", !.lpath = "none", !.rpath = NoPath,
                              !.temp = NoPath, !.final = NoPath, !.cancel = FALSE]
           cleared == IF r.lpath = "file" THEN [file EXCEPT ![t] = "absent"] ELSE file
<1>1. /\ row \in [Tasks -> Row] /\ file \in [Tasks -> {"absent", "short", "whole"}]
      /\ part \in [Tasks -> {"absent", "partial", "whole"}]
  BY DEF RInv, TInv, TypeOK
<1>2. /\ ended.state = "cancelled" /\ ended.lpath = "none" /\ ~ ended.cancel /\ ended.rpath = NoPath
      /\ ended.temp = NoPath /\ ended.final = NoPath /\ ended.mode = r.mode /\ ended.gen = r.gen
      /\ ended.kind = r.kind
  BY DEF Row
<1>3. \/ /\ file' = cleared /\ part' = [part EXCEPT ![t] = "absent"]
         /\ Put(t, IF CanTransition(r.state, "cancelled") THEN ended ELSE r)
      \/ /\ file' \in {file, cleared} /\ UNCHANGED part /\ Put(t, r)
  BY DEF EndCancel
<1>4. cleared[t] \in {file[t], "absent"} /\ (r.lpath = "file" => cleared[t] = "absent")
      /\ \A x \in Tasks \ {t} : cleared[x] = file[x]
  BY <1>1
<1> HIDE DEF ended, cleared
<1> QED BY <1>1, <1>2, <1>3, <1>4 DEF EndedBy, Put

\* ... and what SettleCancel adds to them.
SettledBy(t, r) ==
    /\ \A x \in Tasks \ {t} :
          /\ row'[x] = row[x] /\ file'[x] = file[x] /\ part'[x] = part[x]
          /\ cancelling'[x] = cancelling[x] /\ purge'[x] = purge[x]
    /\ \/ /\ NeedsReview(r) \/ r.state \in Ended
          /\ row'[t].state = r.state /\ row'[t].lpath = r.lpath /\ row'[t].mode = r.mode /\ row'[t].gen = r.gen
          /\ row'[t].kind = r.kind
          /\ row'[t].temp = r.temp /\ row'[t].final = r.final /\ row'[t].rpath = r.rpath /\ ~ row'[t].cancel
          /\ cancelling'[t] = "idle" /\ UNCHANGED <<file, part, purge>>
       \/ /\ ~ NeedsReview(r) /\ r.state \notin Ended /\ Recorded(r) = {}
          /\ EndedBy(t, r) /\ cancelling'[t] = "idle" /\ UNCHANGED purge
       \/ /\ ~ NeedsReview(r) /\ r.state \notin Ended /\ Recorded(r) # {} /\ row'[t] = r
          /\ cancelling'[t] = "purging" /\ purge'[t] = Recorded(r) /\ UNCHANGED <<file, part>>

LEMMA SettleCancelEffect ==
    ASSUME RInv, NEW t \in Tasks, NEW r \in Row, NEW used, SettleCancel(t, r, used)
    PROVE  SettledBy(t, r)
<1> DEFINE kept == [r EXCEPT !.cancel = FALSE]
<1>1. /\ row \in [Tasks -> Row] /\ cancelling \in [Tasks -> {"idle", "asked", "purging"}]
      /\ purge \in [Tasks -> SUBSET Paths]
  BY DEF RInv, TInv, TypeOK
<1>2. /\ kept.state = r.state /\ kept.lpath = r.lpath /\ kept.mode = r.mode /\ kept.gen = r.gen
      /\ kept.kind = r.kind
      /\ kept.temp = r.temp /\ kept.final = r.final /\ kept.rpath = r.rpath /\ ~ kept.cancel
  BY DEF Row
<1>3. CASE /\ NeedsReview(r) \/ r.state \in Ended
           /\ Put(t, kept) /\ cancelling' = [cancelling EXCEPT ![t] = "idle"] /\ UNCHANGED <<files, purge>>
  <2> HIDE DEF kept
  <2> QED BY <1>1, <1>2, <1>3 DEF SettledBy, Put, files
<1>4. CASE /\ ~ NeedsReview(r) /\ r.state \notin Ended /\ Recorded(r) = {} /\ EndCancel(t, r, used)
           /\ cancelling' = [cancelling EXCEPT ![t] = "idle"] /\ UNCHANGED purge
  <2>1. EndedBy(t, r)
    BY <1>4, EndCancelEffect
  <2>2. \A x \in Tasks \ {t} :
          /\ row'[x] = row[x] /\ file'[x] = file[x] /\ part'[x] = part[x]
          /\ cancelling'[x] = cancelling[x] /\ purge'[x] = purge[x]
    BY <1>1, <1>4, <2>1 DEF EndedBy
  <2> QED BY <1>1, <1>4, <2>1, <2>2 DEF SettledBy
<1>5. CASE /\ ~ NeedsReview(r) /\ r.state \notin Ended /\ Recorded(r) # {} /\ Put(t, r)
           /\ cancelling' = [cancelling EXCEPT ![t] = "purging"]
           /\ purge' = [purge EXCEPT ![t] = Recorded(r)] /\ UNCHANGED files
  BY <1>1, <1>5 DEF SettledBy, Put, files
<1> QED BY <1>3, <1>4, <1>5 DEF SettleCancel

\* The row of a task that is being cancelled, its download ended.
LEMMA SettledRole ==
    ASSUME RInv, Roles, NEW t \in Tasks, NEW r \in Row, r.cancel, SettledBy(t, r),
           r.state = row[t].state, r.lpath = row[t].lpath, r.mode = row[t].mode,
           pc[D(t)] = "idle", pc[U(t)] \in {"idle", "start"}, UNCHANGED <<pc, job>>
    PROVE  Role(t)'
<1>1. Role(t) /\ ~ job[D(t)].outside
  BY DEF Roles, Role, RoleOf, Coroutines
<1>2. FitsCopy(row'[t], "idle", pc[U(t)], file'[t], part'[t])
  BY <1>1, Pair DEF SettledBy, EndedBy, Role, RoleOf, FitsCopy
<1>3. Uploading(row'[t], pc'[U(t)], job'[U(t)])
  BY <1>1 DEF SettledBy, EndedBy, Role, RoleOf, Uploading
<1>4. cancelling'[t] \in {"idle", "purging"}
      /\ (cancelling'[t] = "purging" => row'[t].cancel /\ ~ NeedsReview(row'[t]) /\ row'[t].state \notin Ended)
  BY DEF SettledBy
<1> QED BY <1>1, <1>2, <1>3, <1>4
        DEF Role, RoleOf, Coroutines, Downloading, Streaming, Cancelled, Remote, LocalLabels, Finishing

\* While a coroutine may still send its last notice, nobody is cancelled.
LEMMA NoNotice ==
    ASSUME RInv, NoticesYield, Undisturbed, NEW e \in {"cancel", "disk"}, spent[e] < Limit[e], NEW w \in Workers
    PROVE  pc[w] # "notify"
BY PipelineAssumption DEF NoticesYield, Undisturbed, RInv, TInv, TypeOK, Events

LEMMA CancelAskRoles ==
    ASSUME RInv, Roles, NoticesYield, Undisturbed, NEW t \in Tasks, CancelAsk(t)
    PROVE  Roles'
<1> DEFINE asked == [row[t] EXCEPT !.cancel = TRUE]
           used == [spent EXCEPT !["cancel"] = @ + 1]
           w == IF Active(D(t)) THEN D(t) ELSE U(t)
<1>1. /\ row \in [Tasks -> Row] /\ cancelling \in [Tasks -> {"idle", "asked", "purging"}]
      /\ pc \in [Workers -> Labels] /\ part \in [Tasks -> {"absent", "partial", "whole"}] /\ Role(t)
  BY DEF RInv, TInv, TypeOK, Roles
<1>2. /\ asked \in Row /\ asked.cancel /\ asked.state = row[t].state /\ asked.lpath = row[t].lpath
      /\ asked.mode = row[t].mode
  BY <1>1 DEF Row
<1>3. \/ CancelRunning(t, asked, used) /\ UNCHANGED <<retained, job>>
      \/ /\ ~ Active(D(t)) /\ ~ Active(U(t)) /\ SettleCancel(t, asked, used)
         /\ UNCHANGED <<pc, job>>
  BY DEF CancelAsk
<1>7. pc[D(t)] # "notify" /\ pc[U(t)] # "notify"
  BY NoNotice, Pair DEF CancelAsk
<1>4. ASSUME NEW x \in Tasks \ {t}
      PROVE  D(x) \notin {D(t), U(t)} /\ U(x) \notin {D(t), U(t)} /\ D(x) \in Workers /\ U(x) \in Workers
  BY <1>4, Pair DEF D, U
<1>5. CASE /\ ~ Active(D(t)) /\ ~ Active(U(t)) /\ SettleCancel(t, asked, used)
           /\ UNCHANGED <<pc, job>>
  <2> HIDE DEF asked, used
  <2>1. SettledBy(t, asked)
    BY <1>2, <1>5, SettleCancelEffect
  <2>2. Role(t)'
    BY <1>2, <1>5, <2>1, SettledRole DEF Active
  <2>3. Apart(t)
    BY <1>5, <2>1 DEF Apart, SettledBy
  <2> QED BY <2>2, <2>3, ApartRoles
<1>6. CASE CancelRunning(t, asked, used) /\ UNCHANGED <<retained, job>>
  <2>1. /\ Active(w) /\ Put(t, Interrupted(w, asked)) /\ part' = [part EXCEPT ![t] = PartInterrupted(w, asked)]
        /\ Goto(w, "idle") /\ cancelling' = [cancelling EXCEPT ![t] = "asked"] /\ UNCHANGED <<file, purge, job>>
    BY <1>6 DEF CancelRunning
  <2>2. w \in {D(t), U(t)} /\ w \in Workers /\ (w = U(t) => pc[D(t)] = "idle")
    BY Pair DEF Active
  <2> HIDE DEF w, asked
  <2>3. /\ FitsCopy(Interrupted(w, asked), "idle", "idle", file[t], PartInterrupted(w, asked))
        /\ Interrupted(w, asked).state \in {asked.state, "queued", "waiting_upload"}
    BY <1>2, <2>2, InterruptedCopy
  <2>4. Interrupted(w, asked).cancel
    BY <1>2, InterruptedFacts DEF Kin, Twin
  <2>5. /\ row'[t] = Interrupted(w, asked) /\ part'[t] = PartInterrupted(w, asked) /\ file'[t] = file[t]
        /\ cancelling'[t] = "asked" /\ pc'[w] = "idle"
        /\ \A v \in Workers \ {w} : pc'[v] = pc[v]
    BY <1>1, <2>1, <2>2 DEF Put, Goto
  <2>6. pc'[D(t)] = "idle" /\ pc'[U(t)] \in {"idle", "start"} /\ (pc'[U(t)] = "start" => w = D(t) /\ pc[U(t)] = "start")
    BY <1>1, <1>7, <2>1, <2>2, <2>5, Pair DEF Active, Role, RoleOf, Downloading
  <2>7. Role(t)'
    <3>1. FitsCopy(row'[t], pc'[D(t)], pc'[U(t)], file'[t], part'[t])
      BY <2>3, <2>5, <2>6 DEF FitsCopy
    <3>2. Uploading(row'[t], pc'[U(t)], job'[U(t)])
      BY <1>1, <1>2, <2>3, <2>5, <2>6 DEF Role, RoleOf, Uploading
    <3> QED BY <1>1, <2>1, <2>4, <2>5, <2>6, <3>1, <3>2
            DEF Role, RoleOf, Coroutines, Downloading, Streaming, Cancelled, Remote, LocalLabels, Finishing
  <2>8. Apart(t)
    BY <1>1, <1>4, <2>1, <2>2, <2>5 DEF Apart, Put
  <2> QED BY <2>7, <2>8, ApartRoles
<1> QED BY <1>3, <1>5, <1>6

LEMMA CancelStepRoles ==
    ASSUME RInv, Roles, NEW t \in Tasks, CancelStep(t)
    PROVE  Roles'
<1>1. /\ row \in [Tasks -> Row] /\ cancelling \in [Tasks -> {"idle", "asked", "purging"}]
      /\ purge \in [Tasks -> SUBSET Paths] /\ row[t] \in Row
      /\ Role(t) /\ UNCHANGED <<pc, job>> /\ cancelling[t] # "idle"
  BY DEF RInv, TInv, TypeOK, Roles, CancelStep, CancelSettle, CancelPurge, CancelPurgeFails
<1>2. row[t].cancel /\ pc[D(t)] = "idle" /\ pc[U(t)] \in {"idle", "start"}
  BY <1>1 DEF Role, RoleOf, Cancelled
<1>3. CASE CancelSettle(t)
  <2>1. SettledBy(t, row[t])
    BY <1>1, <1>3, SettleCancelEffect DEF CancelSettle
  <2>2. Role(t)'
    BY <1>1, <1>2, <2>1, SettledRole
  <2>3. Apart(t)
    BY <1>1, <2>1 DEF Apart, SettledBy
  <2> QED BY <2>2, <2>3, ApartRoles
<1>4. CASE CancelPurge(t)
  <2>1. /\ \A x \in Tasks \ {t} : purge'[x] = purge[x]
        /\ \/ EndCancel(t, row[t], spent) /\ cancelling' = [cancelling EXCEPT ![t] = "idle"]
           \/ UNCHANGED <<row, files, cancelling>>
    BY <1>1, <1>4 DEF CancelPurge
  <2>2. CASE EndCancel(t, row[t], spent) /\ cancelling' = [cancelling EXCEPT ![t] = "idle"]
    <3>1. EndedBy(t, row[t]) /\ cancelling'[t] = "idle"
      BY <1>1, <2>2, EndCancelEffect
    <3>2. FitsCopy(row'[t], "idle", pc[U(t)], file'[t], part'[t])
      BY <1>1, <1>2, <3>1, Pair DEF EndedBy, Role, RoleOf, FitsCopy
    <3>3. Uploading(row'[t], pc'[U(t)], job'[U(t)])
      BY <1>1, <1>2, <3>1 DEF EndedBy, Role, RoleOf, Uploading
    <3>4. Role(t)'
      BY <1>1, <1>2, <3>1, <3>2, <3>3
         DEF Role, RoleOf, Coroutines, Downloading, Streaming, Cancelled, Remote, LocalLabels, Finishing
    <3>5. Apart(t)
      BY <1>1, <2>1, <2>2, <3>1 DEF Apart, EndedBy
    <3> QED BY <3>4, <3>5, ApartRoles
  <2>3. CASE UNCHANGED <<row, files, cancelling>>
    BY <1>1, <2>3 DEF Roles, Role, files
  <2> QED BY <2>1, <2>2, <2>3
<1>5. CASE CancelPurgeFails(t)
  <2>1. /\ cancelling'[t] = "idle" /\ UNCHANGED <<row, file, part>>
        /\ \A x \in Tasks \ {t} : cancelling'[x] = cancelling[x] /\ purge'[x] = purge[x]
    BY <1>1, <1>5 DEF CancelPurgeFails, files
  <2>2. Role(t)'
    BY <1>1, <1>2, <2>1
       DEF Role, RoleOf, Coroutines, Downloading, Streaming, Uploading, Cancelled, FitsCopy, Remote, LocalLabels, Finishing
  <2>3. Apart(t)
    BY <1>1, <2>1 DEF Apart
  <2> QED BY <2>2, <2>3, ApartRoles
<1> QED BY <1>3, <1>4, <1>5 DEF CancelStep

-------------------------------------------------------------------------------
(* The roles through commands and restarts *)

\* A step that changes one row, and perhaps the partial file, and nothing else.
RowOnly(t) ==
    /\ \A x \in Tasks \ {t} : row'[x] = row[x] /\ part'[x] = part[x]
    /\ UNCHANGED <<file, cancelling, purge, pc, job>>

LEMMA RowOnlyRoles ==
    ASSUME Roles, NEW t \in Tasks, RowOnly(t), Role(t)'
    PROVE  Roles'
<1>1. Apart(t)
  BY DEF RowOnly, Apart
<1> QED BY <1>1, ApartRoles

\* What TaskDB.recover makes of a row, `f` being what it knows of the files.
LEMMA RecoveredFacts ==
    ASSUME NEW t \in Tasks, NEW r \in Row, NEW stuck
    PROVE  LET q == Recovered(t, r, stuck) IN
           /\ Twin(q, r) /\ q.kind = r.kind
           /\ \/ q = r /\ LeftAlone(r)
              \/ /\ ~ LeftAlone(r)
                 /\ \/ r.mode = "stream" /\ q.state = "queued" /\ q.lpath = "none"
                    \/ file[t] = "whole" /\ q.state = "waiting_upload" /\ q.lpath = "file" /\ r.mode # "stream"
                    \/ file[t] # "whole" /\ q.state = "queued" /\ q.lpath = "none" /\ r.mode # "stream"
                    \/ /\ file[t] # "whole" /\ q.state = "download_failed" /\ q.lpath = r.lpath /\ r.mode # "stream"
                       /\ t \in stuck /\ r.state \notin FailedStates
<1> DEFINE streamed == [r EXCEPT !.state = "queued", !.lpath = "none", !.utries = 0]
           kept == [r EXCEPT !.state = "waiting_upload", !.lpath = "file", !.utries = 0]
           down == Downloadable(r)
           failed == [r EXCEPT !.state = "download_failed"]
           again == [r EXCEPT !.state = "queued", !.lpath = "none", !.utries = 0,
                              !.dtries = IF t \in Listened THEN @ ELSE 0]
<1>1. /\ Kin(r, r)
      /\ Kin(streamed, r) /\ streamed.state = "queued" /\ streamed.lpath = "none"
      /\ Kin(kept, r) /\ kept.state = "waiting_upload" /\ kept.lpath = "file"
      /\ Kin(down, r) /\ down.state = "queued" /\ down.lpath = "none"
      /\ Kin(failed, r) /\ failed.state = "download_failed" /\ failed.lpath = r.lpath
  BY DEF Kin, Twin, Row, Downloadable
<1>2. Kin(again, r) /\ again.state = "queued" /\ again.lpath = "none"
  BY DEF Kin, Twin, Row
<1>3. Recovered(t, r, stuck) =
        IF LeftAlone(r) THEN r
        ELSE IF r.mode = "stream" THEN streamed
        ELSE IF file[t] = "whole" THEN kept
        ELSE IF r.state \in FailedStates THEN down
        ELSE IF t \in stuck THEN failed ELSE again
  BY DEF Recovered
<1> HIDE DEF streamed, kept, down, failed, again
<1> QED BY <1>1, <1>2, <1>3 DEF Kin

\* A task that rests: only its copies matter.
Rests(t) == pc[D(t)] = "idle" /\ pc[U(t)] = "idle" /\ cancelling[t] = "idle"

LEMMA RestingRole ==
    ASSUME NEW t \in Tasks, Rests(t)', ~ job'[D(t)].outside,
           FitsCopy(row'[t], "idle", "idle", file'[t], part'[t])
    PROVE  Role(t)'
BY DEF Rests, Role, RoleOf, Coroutines, Downloading, Streaming, Uploading, Cancelled, Remote, LocalLabels,
   Finishing

LEMMA RecoveredCopy ==
    ASSUME NEW t \in Tasks, NEW r \in Row, NEW p, NEW stuck,
           FitsCopy(r, "idle", "idle", file[t], p)
    PROVE  FitsCopy(Recovered(t, r, stuck), "idle", "idle", file[t], PartRecovered(t, r, p, stuck))
<1> DEFINE q == Recovered(t, r, stuck)
           n == PartRecovered(t, r, p, stuck)
<1>1. /\ Twin(q, r)
      /\ \/ q = r
         \/ r.mode = "stream" /\ q.state = "queued" /\ q.lpath = "none"
         \/ file[t] = "whole" /\ q.state = "waiting_upload" /\ q.lpath = "file" /\ r.mode # "stream"
         \/ file[t] # "whole" /\ q.state = "queued" /\ q.lpath = "none" /\ r.mode # "stream"
         \/ file[t] # "whole" /\ q.state = "download_failed" /\ q.lpath = r.lpath /\ r.mode # "stream"
  BY RecoveredFacts
<1>2. n \in {p, "absent"}
  BY DEF PartRecovered
<1> HIDE DEF q, n
<1>3. q.mode = r.mode
  BY <1>1 DEF Twin
<1>4. FitsCopy(q, "idle", "idle", file[t], n)
  BY <1>1, <1>2, <1>3 DEF FitsCopy
<1> QED BY <1>4 DEF q, n

LEMMA RequeuedFacts ==
    ASSUME NEW t \in Tasks, NEW r \in Row
    PROVE  LET q == Requeued(t, r) IN
           /\ q.mode = r.mode /\ q.cancel = r.cancel /\ q.gen = r.gen + 1
           /\ q.temp = r.temp /\ q.final = r.final /\ q.rpath = r.rpath /\ q.kind = "none"
           /\ \/ r.lpath = "file" /\ file[t] = "whole" /\ q.state = "waiting_upload" /\ q.lpath = "file"
              \/ ~ (r.lpath = "file" /\ file[t] = "whole") /\ q.state = "queued" /\ q.lpath = "none"
<1> DEFINE complete == r.lpath = "file" /\ file[t] = "whole"
           s == IF complete THEN "waiting_upload" ELSE "queued"
           l == IF complete THEN "file" ELSE "none"
           g == r.gen + 1
           x == [r EXCEPT !.state = s, !.lpath = l, !.kind = "none", !.verified = FALSE,
                          !.dtries = 0, !.utries = 0, !.gen = g]
<1>1. Requeued(t, r) = x
  BY DEF Requeued
<1>2. /\ x.mode = r.mode /\ x.cancel = r.cancel /\ x.gen = g /\ x.temp = r.temp /\ x.final = r.final
      /\ x.rpath = r.rpath /\ x.kind = "none" /\ x.state = s /\ x.lpath = l
  <2> HIDE DEF s, l, g
  <2> QED BY DEF Row
<1>3. \/ complete /\ s = "waiting_upload" /\ l = "file"
      \/ ~ complete /\ s = "queued" /\ l = "none"
  OBVIOUS
<1> HIDE DEF x
<1> QED BY <1>1, <1>2, <1>3

\* What /retry stores: the row as it stands, recovered when a cancellation is
\* withdrawn, and requeued when it had failed.
LEMMA RetryEffect ==
    ASSUME RInv, NEW t \in Tasks, Retry(t)
    PROVE  LET asked == [row[t] EXCEPT !.cancel = FALSE]
               r == IF row[t].cancel THEN Recovered(t, asked, {}) ELSE row[t] IN
           /\ Rests(t) /\ RowOnly(t) /\ ~ NeedsReview(row[t]) /\ UNCHANGED <<retained, store, lock>>
           /\ spent'["command"] > spent["command"]
           /\ r \in Row /\ asked \in Row
           /\ \/ r.state \notin FailedStates /\ row'[t] = r /\ row[t].cancel
              \/ r.state \in FailedStates /\ r.gen < MaxRecoveries /\ row'[t] = Requeued(t, r)
           /\ part'[t] = IF row[t].cancel THEN PartRecovered(t, asked, part[t], {}) ELSE part[t]
<1> DEFINE asked == [row[t] EXCEPT !.cancel = FALSE]
           r == IF row[t].cancel THEN Recovered(t, asked, {}) ELSE row[t]
           np == IF row[t].cancel THEN PartRecovered(t, asked, part[t], {}) ELSE part[t]
<1>1. /\ row \in [Tasks -> Row] /\ part \in [Tasks -> {"absent", "partial", "whole"}]
      /\ spent \in [Events -> Nat] /\ "command" \in Events
  BY DEF RInv, TInv, TypeOK, Events
<1>2. asked \in Row
  BY <1>1 DEF Row
<1>3. r \in Row
  <2>1. Recovered(t, asked, {}) \in Row
    BY <1>2, RecoveredType
  <2> QED BY <1>1, <2>1
<1>4. /\ Unattended(t) /\ ~ NeedsReview(row[t]) /\ (row[t].cancel \/ r.state \in FailedStates)
      /\ Spend("command")
      /\ IF r.state \notin FailedStates THEN Put(t, r) ELSE r.gen < MaxRecoveries /\ Put(t, Requeued(t, r))
      /\ part' = [part EXCEPT ![t] = np]
      /\ UNCHANGED <<retained, file, store, pc, job, lock, commands>>
  BY <1>1 DEF Retry
<1>5. spent'["command"] > spent["command"]
  BY <1>1, <1>4 DEF Spend
<1> HIDE DEF asked, r, np
<1>6. Rests(t)
  BY <1>4 DEF Unattended, Active, Rests
<1>7. row'[t] = (IF r.state \notin FailedStates THEN r ELSE Requeued(t, r)) /\ part'[t] = np
      /\ \A x \in Tasks \ {t} : row'[x] = row[x] /\ part'[x] = part[x]
  BY <1>1, <1>4 DEF Put
<1>8. RowOnly(t)
  BY <1>4, <1>7 DEF RowOnly, commands
<1> QED BY <1>2, <1>3, <1>4, <1>5, <1>6, <1>7, <1>8 DEF asked, r, np

LEMMA RetryRoles ==
    ASSUME RInv, Roles, NEW t \in Tasks, Retry(t)
    PROVE  Roles'
<1> DEFINE asked == [row[t] EXCEPT !.cancel = FALSE]
           r == IF row[t].cancel THEN Recovered(t, asked, {}) ELSE row[t]
<1>1. /\ Rests(t) /\ RowOnly(t)
      /\ r \in Row /\ asked \in Row
      /\ row'[t] = r \/ row'[t] = Requeued(t, r)
      /\ part'[t] = IF row[t].cancel THEN PartRecovered(t, asked, part[t], {}) ELSE part[t]
  BY RetryEffect
<1>2. asked.state = row[t].state /\ asked.lpath = row[t].lpath /\ asked.mode = row[t].mode
  BY Pair DEF Row
<1>3. FitsCopy(row[t], "idle", "idle", file[t], part[t]) /\ ~ job[D(t)].outside
  BY <1>1 DEF Roles, Role, RoleOf, Rests, Coroutines
<1>4. FitsCopy(asked, "idle", "idle", file[t], part[t])
  BY <1>2, <1>3 DEF FitsCopy
<1>5. FitsCopy(r, "idle", "idle", file[t], part'[t])
  <2>1. CASE row[t].cancel
    <3>1. FitsCopy(Recovered(t, asked, {}), "idle", "idle", file[t], PartRecovered(t, asked, part[t], {}))
      BY <1>1, <1>4, RecoveredCopy
    <3> QED BY <1>1, <2>1, <3>1
  <2>2. CASE ~ row[t].cancel
    BY <1>1, <1>3, <2>2
  <2> QED BY <2>1, <2>2
<1> HIDE DEF r, asked
<1>6. FitsCopy(Requeued(t, r), "idle", "idle", file[t], part'[t])
  <2> DEFINE q == Requeued(t, r)
  <2>1. /\ q.mode = r.mode
        /\ \/ r.lpath = "file" /\ file[t] = "whole" /\ q.state = "waiting_upload" /\ q.lpath = "file"
           \/ ~ (r.lpath = "file" /\ file[t] = "whole") /\ q.state = "queued" /\ q.lpath = "none"
    BY <1>1, RequeuedFacts
  <2> HIDE DEF q
  <2> QED BY <1>5, <2>1 DEF FitsCopy, q
<1>7. Role(t)'
  <2>1. FitsCopy(row'[t], "idle", "idle", file'[t], part'[t])
    BY <1>1, <1>5, <1>6 DEF RowOnly
  <2>2. Rests(t)' /\ ~ job'[D(t)].outside
    BY <1>1, <1>3 DEF RowOnly, Rests
  <2> QED BY <2>1, <2>2, RestingRole
<1> QED BY <1>1, <1>7, RowOnlyRoles

\* /recover and /restart.
LEMMA RecoverFreshEffect ==
    ASSUME RInv, NEW t \in Tasks, RecoverFresh(t)
    PROVE  LET r == row[t]
               q == row'[t] IN
           /\ Rests(t) /\ RowOnly(t) /\ UNCHANGED <<part, store, lock>> /\ ~ r.cancel
           /\ spent'["command"] > spent["command"]
           /\ r.state \in FailedStates \cup {"cancelled"} /\ r.gen < MaxRecoveries
           /\ retained' = retained \cup Recorded(r)
           /\ q.mode = r.mode /\ ~ q.cancel /\ q.gen = r.gen + 1 /\ q.kind = "none"
           /\ q.temp = NoPath /\ q.final = NoPath /\ q.rpath = NoPath
           /\ \/ r.lpath = "file" /\ file[t] = "whole" /\ q.state = "waiting_upload" /\ q.lpath = "file"
              \/ ~ (r.lpath = "file" /\ file[t] = "whole") /\ q.state = "queued" /\ q.lpath = "none"
<1> DEFINE r == row[t]
           x == Requeued(t, r)
           y == [x EXCEPT !.temp = NoPath, !.final = NoPath, !.rpath = NoPath]
<1>1. row \in [Tasks -> Row] /\ r \in Row /\ spent \in [Events -> Nat] /\ "command" \in Events
  BY DEF RInv, TInv, TypeOK, Events
<1>2. /\ Unattended(t) /\ r.state \in FailedStates \cup {"cancelled"} /\ ~ r.cancel /\ r.gen < MaxRecoveries
      /\ Spend("command") /\ retained' = retained \cup Recorded(r) /\ Put(t, y)
      /\ UNCHANGED <<files, store, pc, job, lock, commands>>
  BY DEF RecoverFresh
<1> HIDE DEF r
<1>3. /\ x.mode = r.mode /\ x.cancel = r.cancel /\ x.gen = r.gen + 1 /\ x.kind = "none"
      /\ \/ r.lpath = "file" /\ file[t] = "whole" /\ x.state = "waiting_upload" /\ x.lpath = "file"
         \/ ~ (r.lpath = "file" /\ file[t] = "whole") /\ x.state = "queued" /\ x.lpath = "none"
  BY <1>1, RequeuedFacts
<1>4. x \in Row
  BY <1>1, <1>2, RequeuedType
<1> HIDE DEF x
<1>5. /\ y.mode = x.mode /\ y.cancel = x.cancel /\ y.gen = x.gen /\ y.kind = x.kind /\ y.state = x.state
      /\ y.lpath = x.lpath /\ y.temp = NoPath /\ y.final = NoPath /\ y.rpath = NoPath
  BY <1>4 DEF Row
<1> HIDE DEF y
<1>6. row'[t] = y /\ \A z \in Tasks \ {t} : row'[z] = row[z]
  BY <1>1, <1>2 DEF Put
<1>7. Rests(t) /\ RowOnly(t)
  BY <1>2, <1>6 DEF Unattended, Active, Rests, RowOnly, files, commands
<1>8. spent'["command"] > spent["command"]
  BY <1>1, <1>2 DEF Spend
<1> QED BY <1>2, <1>3, <1>5, <1>6, <1>7, <1>8 DEF r, files

LEMMA RecoverFreshRoles ==
    ASSUME RInv, Roles, NEW t \in Tasks, RecoverFresh(t)
    PROVE  Roles'
<1> DEFINE r == row[t]
           q == row'[t]
<1>1. /\ Rests(t) /\ RowOnly(t) /\ UNCHANGED part /\ q.mode = r.mode
      /\ \/ r.lpath = "file" /\ file[t] = "whole" /\ q.state = "waiting_upload" /\ q.lpath = "file"
         \/ ~ (r.lpath = "file" /\ file[t] = "whole") /\ q.state = "queued" /\ q.lpath = "none"
  BY RecoverFreshEffect
<1>2. FitsCopy(r, "idle", "idle", file[t], part[t]) /\ ~ job[D(t)].outside
  BY <1>1 DEF Roles, Role, RoleOf, Rests, Coroutines
<1> HIDE DEF r, q
<1>3. FitsCopy(q, "idle", "idle", file[t], part[t])
  BY <1>1, <1>2 DEF FitsCopy
<1>4. FitsCopy(row'[t], "idle", "idle", file'[t], part'[t])
  BY <1>1, <1>3 DEF RowOnly, q
<1>5. Rests(t)' /\ ~ job'[D(t)].outside
  BY <1>1, <1>2 DEF RowOnly, Rests
<1>6. Role(t)'
  BY <1>4, <1>5, RestingRole
<1> QED BY <1>1, <1>6, RowOnlyRoles

-------------------------------------------------------------------------------
(* The roles through the notes of the user, the world outside and restarts *)

LEMMA NoteRoles ==
    ASSUME RInv, Roles, NEW t \in Tasks, RequestStream(t) \/ Confirm(t)
    PROVE  Roles'
<1> DEFINE streamed == [row[t] EXCEPT !.state = "queued", !.mode = "stream", !.dtries = 0, !.utries = 0]
           confirmed == [row[t] EXCEPT !.state = "confirmed"]
<1>1. row \in [Tasks -> Row] /\ row[t] \in Row /\ Role(t)
  BY DEF RInv, TInv, TypeOK, Roles
<1>2. /\ streamed.state = "queued" /\ streamed.mode = "stream" /\ streamed.cancel = row[t].cancel
      /\ streamed.lpath = row[t].lpath
      /\ confirmed.state = "confirmed" /\ confirmed.mode = row[t].mode /\ confirmed.cancel = row[t].cancel
      /\ confirmed.lpath = row[t].lpath
  BY <1>1 DEF Row
<1>3. /\ UNCHANGED <<files, pc, job, commands>>
      /\ \/ /\ row[t].state \in {"queued", "download_failed"} /\ ~ row[t].cancel /\ row[t].lpath = "none"
            /\ Put(t, streamed)
         \/ row[t].state = "completed" /\ Put(t, confirmed)
  BY DEF RequestStream, Confirm
<1> HIDE DEF streamed, confirmed
<1>4. RowOnly(t)
  BY <1>1, <1>3 DEF RowOnly, Put, files, commands
<1>5. CASE /\ row[t].state \in {"queued", "download_failed"} /\ ~ row[t].cancel /\ row[t].lpath = "none"
           /\ row'[t] = streamed
  <2>1. file[t] # "whole"
    BY <1>1, <1>5 DEF Role, RoleOf, FitsCopy
  <2>2. /\ pc[D(t)] \in {"idle", "notify", "fetch", "backoff"} /\ pc[U(t)] \in {"idle", "notify", "start"}
        /\ pc[D(t)] \in {"fetch", "backoff"} => job[D(t)].how = "local"
    BY <1>1, <1>5, Pair
       DEF Role, RoleOf, Coroutines, Downloading, Streaming, Uploading, Remote, LocalLabels, Finishing, Labels
  <2> QED BY <1>1, <1>2, <1>4, <1>5, <2>1, <2>2, RowOnlyRoles
          DEF RowOnly, Role, RoleOf, Coroutines, Downloading, Streaming, Uploading, Cancelled, FitsCopy, Remote,
              LocalLabels, Finishing
<1>6. CASE row[t].state = "completed" /\ row'[t] = confirmed
  <2>1. pc[D(t)] \in {"idle", "notify"} /\ pc[U(t)] \in {"idle", "notify"}
    BY <1>1, <1>6, Pair
       DEF Role, RoleOf, Coroutines, Downloading, Streaming, Uploading, Remote, LocalLabels, Finishing, Labels
  <2>2. cancelling[t] # "purging"
    BY <1>1, <1>6 DEF Role, RoleOf, Cancelled, Ended
  <2>3. FitsCopy(confirmed, pc[D(t)], pc[U(t)], file[t], part[t])
    BY <1>1, <1>2, <1>6 DEF Role, RoleOf, FitsCopy
  <2>4. Cancelled(confirmed, pc[D(t)], pc[U(t)], cancelling[t])
    BY <1>1, <1>2, <1>6, <2>2 DEF Role, RoleOf, Cancelled
  <2>5. /\ row'[t] = confirmed /\ UNCHANGED <<pc, job, cancelling>>
        /\ file'[t] = file[t] /\ part'[t] = part[t]
    BY <1>3, <1>4, <1>6 DEF RowOnly, files
  <2>6. Role(t)'
    BY <1>1, <1>2, <2>1, <2>3, <2>4, <2>5
       DEF Role, RoleOf, Coroutines, Downloading, Streaming, Uploading, Remote, LocalLabels, Finishing
  <2> QED BY <1>4, <2>6, RowOnlyRoles
<1> QED BY <1>1, <1>3, <1>5, <1>6 DEF Put

LEMMA OutsideRoles ==
    ASSUME RInv, Roles, NEW t \in Tasks, LoseFile(t) \/ Drift(t)
    PROVE  Roles'
<1>1. /\ UNCHANGED <<row, part, pc, job, cancelling>>
      /\ \A x \in Tasks : file'[x] = "whole" => file[x] = "whole"
  BY DEF LoseFile, Drift, files, commands, RInv, TInv, TypeOK
<1> QED BY <1>1 DEF Roles, Role, RoleOf, Coroutines, Downloading, Streaming, Uploading, Cancelled, FitsCopy

\* What the next process finds, and what recover makes of it.
LEMMA RestartRoles ==
    ASSUME NEW rows, NEW parts, Restart(rows, parts),
           \A t \in Tasks : /\ rows[t] \in Row
                            /\ FitsCopy(rows[t], "idle", "idle", file[t], parts[t])
    PROVE  Roles'
<1>1. PICK stuck :
         /\ row' = [t \in Tasks |-> Recovered(t, rows[t], stuck)]
         /\ part' = [t \in Tasks |-> PartRecovered(t, rows[t], parts[t], stuck)]
  BY DEF Restart
<1> SUFFICES ASSUME NEW t \in Tasks PROVE Role(t)'
  BY DEF Roles
<1>2. FitsCopy(row'[t], "idle", "idle", file[t], part'[t])
  BY <1>1, RecoveredCopy
<1>3. Rests(t)' /\ ~ job'[D(t)].outside /\ file' = file
  BY WorkerTypes DEF Restart, Rests, NewJob
<1> QED BY <1>2, <1>3, RestingRole

LEMMA CrashRoles ==
    ASSUME RInv, Roles, Crash
    PROVE  Roles'
<1>1. \A t \in Tasks : row[t] \in Row /\ FitsCopy(row[t], "idle", "idle", file[t], part[t])
  BY DEF RInv, TInv, TypeOK, Roles, Role, RoleOf, FitsCopy
<1> QED BY <1>1, RestartRoles DEF Crash

\* A disk emergency ends every download; an upload of the same task is at most
\* about to find out that there is nothing to upload yet.
LEMMA DiskEmergencyRoles ==
    ASSUME RInv, Roles, NoticesYield, Undisturbed, DiskEmergency
    PROVE  Roles'
<1> SUFFICES ASSUME NEW t \in Tasks PROVE Role(t)'
  BY DEF Roles
<1> DEFINE q == Interrupted(D(t), row[t])
           p == PartInterrupted(D(t), row[t])
<1>1. Role(t) /\ row[t] \in Row /\ D(t) \in {D(t), U(t)}
  BY Pair DEF Roles
<1>2. pc[D(t)] # "notify" /\ pc[U(t)] # "notify"
  BY NoNotice, Pair DEF DiskEmergency, Spend
<1>3. /\ row'[t] = q /\ part'[t] = p /\ pc'[D(t)] = "idle" /\ pc'[U(t)] = pc[U(t)]
      /\ UNCHANGED <<file, job, cancelling>>
  BY Pair DEF DiskEmergency, commands
<1>4. CASE pc[D(t)] = "idle"
  <2>1. q = row[t] /\ p = part[t]
    BY <1>4, Pair DEF Interrupted, PartInterrupted, Handles
  <2> HIDE DEF q, p
  <2> QED BY <1>1, <1>3, <1>4, <2>1 DEF Role
<1>5. CASE pc[D(t)] # "idle"
  <2>1. /\ FitsCopy(q, "idle", "idle", file[t], p)
        /\ q.state \in {row[t].state, "queued", "waiting_upload"}
    BY <1>1, InterruptedCopy
  <2>2. Kin(q, row[t])
    BY <1>1, InterruptedFacts
  <2> HIDE DEF q, p
  <2>3. pc[U(t)] \in {"idle", "start"} /\ ~ row[t].cancel /\ cancelling[t] = "idle"
    BY <1>1, <1>2, <1>5, Pair DEF Role, RoleOf, Downloading, Cancelled, RInv, TInv, TypeOK
  <2> QED BY <1>1, <1>3, <2>1, <2>2, <2>3
          DEF Role, RoleOf, Coroutines, Downloading, Streaming, Uploading, Cancelled, FitsCopy, Kin, Twin,
              Remote, LocalLabels, Finishing
<1> QED BY <1>4, <1>5

LEMMA StopRoles ==
    ASSUME RInv, Roles, Stop
    PROVE  Roles'
<1> DEFINE rows == [t \in Tasks |-> Interrupted(U(t), Interrupted(D(t), row[t]))]
           parts == [t \in Tasks |-> PartInterrupted(D(t), row[t])]
<1>1. ASSUME NEW t \in Tasks
      PROVE  rows[t] \in Row /\ FitsCopy(rows[t], "idle", "idle", file[t], parts[t])
  <2> DEFINE d == Interrupted(D(t), row[t])
  <2>1. TInv /\ Role(t) /\ row[t] \in Row /\ D(t) \in Workers /\ U(t) \in Workers
    BY Pair DEF RInv, Roles
  <2>2. d \in Row /\ Interrupted(U(t), d) \in Row
    BY <2>1, InterruptedType
  <2>3. FitsCopy(d, "idle", "idle", file[t], parts[t])
    BY <2>1, InterruptedCopy
  <2> DEFINE q == Interrupted(U(t), d)
  <2> HIDE DEF d
  <2>4. /\ Kin(q, d)
        /\ q = d \/ (q.state = "waiting_upload" /\ q.lpath = d.lpath)
    BY <2>2, InterruptedFacts, Pair
  <2> HIDE DEF q
  <2>5. FitsCopy(q, "idle", "idle", file[t], parts[t])
    BY <2>3, <2>4 DEF FitsCopy, Kin, Twin
  <2> QED BY <2>2, <2>5 DEF q, d
<1>2. Restart(rows, parts)
  BY DEF Stop
<1> HIDE DEF rows, parts
<1> QED BY <1>1, <1>2, RestartRoles

-------------------------------------------------------------------------------
(* The roles hold *)

LEMMA WorkerRoles ==
    ASSUME RInv, Roles, NEW w \in Workers, WorkerStep(w), FilesOf(w[2]), UNCHANGED commands, Role(w[2])'
    PROVE  Roles'
BY ControlOthers, RoleFrame DEF WorkerStep

LEMMA StartSteps ==
    ASSUME RInv, NEW t \in Tasks
    PROVE  /\ StartDownload(t) => WorkerStep(D(t))
           /\ StartUpload(t) => WorkerStep(U(t))
<1>1. TInv /\ \E w \in Workers : TRUE
  BY WorkerTypes DEF RInv
<1>2. row \in [Tasks -> Row] /\ pc \in [Workers -> Labels] /\ D(t) # U(t)
  BY Pair DEF RInv, TInv, TypeOK
<1>3. ASSUME StartDownload(t) PROVE WorkerStep(D(t))
  <2>1. PICK w \in {D(t), U(t)} : WorkerStep(w)
    BY <1>1, <1>3, StartStep
  <2>2. pc[D(t)] = "idle" /\ pc' = [pc EXCEPT ![D(t)] = "start"]
    BY <1>3 DEF StartDownload, Goto, Active
  <2>3. \E l : pc' = [pc EXCEPT ![w] = l]
    BY <2>1 DEF WorkerStep, ControlStep
  <2>4. w = D(t)
    BY <1>2, <2>2, <2>3, Pair
  <2> QED BY <2>1, <2>4
<1>4. ASSUME StartUpload(t) PROVE WorkerStep(U(t))
  <2>1. PICK w \in {D(t), U(t)} : WorkerStep(w)
    BY <1>1, <1>4, StartStep
  <2>2. pc[U(t)] = "idle" /\ pc' = [pc EXCEPT ![U(t)] = "start"]
    BY <1>4 DEF StartUpload, Goto, Active
  <2>3. \E l : pc' = [pc EXCEPT ![w] = l]
    BY <2>1 DEF WorkerStep, ControlStep
  <2>4. w = U(t)
    BY <1>2, <2>2, <2>3, Pair
  <2> QED BY <2>1, <2>4
<1> QED BY <1>3, <1>4

LEMMA DownloadRoles ==
    ASSUME RInv, Roles, NEW t \in Tasks, Turn(D(t)), DownloadStep(t) \/ StartDownload(t)
    PROVE  Roles'
<1>1. WorkerStep(D(t)) /\ FilesOf(t) /\ UNCHANGED commands
  BY DownloadStepType, StartSteps, DownloadFiles DEF RInv
<1>2. Role(t)'
  BY BeginRole, RetryRole, ArrivesRole, LocalRole, RefusedRole, StartDownloadRole DEF DownloadStep
<1> QED BY <1>1, <1>2, Pair, WorkerRoles

LEMMA UploadRoles ==
    ASSUME RInv, Roles, NEW t \in Tasks, Turn(U(t)), UploadStep(t) \/ StartUpload(t)
    PROVE  Roles'
<1>1. WorkerStep(U(t)) /\ FilesOf(t) /\ UNCHANGED commands
  BY UploadBeginStep, RecheckStep, StartSteps, UploadFiles, Pair DEF RInv, UploadStep
<1>2. Role(t)'
  BY UploadBeginRole, RecheckRole, StartUploadRole DEF UploadStep
<1> QED BY <1>1, <1>2, Pair, WorkerRoles

LEMMA RemoteRoles ==
    ASSUME RInv, Roles, NEW w \in Workers, RemoteStep(w)
    PROVE  Roles'
BY RemoteStill, RemoteRole, RoleFrame

LEMMA SynchronousRoles ==
    ASSUME RInv, Roles, NEW w \in Workers, SynchronousStep(w)
    PROVE  Roles'
<1>1. w[2] \in Tasks /\ D(w[2]) \in Workers /\ D(w[2])[2] = w[2]
  BY WorkerTypes DEF D
<1>2. CASE DownloadRename(w[2]) \/ DownloadRenameFails(w[2]) \/ DownloadRecord(w[2])
  <2>1. WorkerStep(D(w[2]))
    BY <1>1, <1>2, DownloadRenameStep, DownloadRecordStep, DownloadErrorStep DEF RInv
  <2>2. FilesOf(w[2]) /\ UNCHANGED commands
    BY <1>1, <1>2, DownloadFiles
  <2>3. Role(w[2])'
    BY <1>1, <1>2, LocalRole, RecordRole
  <2> QED BY <1>1, <2>1, <2>2, <2>3, WorkerRoles
<1>3. CASE Clean(w) \/ CleanFails(w) \/ Complete(w)
  <2>1. WorkerStep(w)
    BY <1>3, CleanStep, CompleteStep DEF RInv
  <2>2. FilesOf(w[2]) /\ UNCHANGED commands
    BY <1>3, RemoteFiles
  <2>3. Role(w[2])'
    BY <1>3, CleanRole
  <2> QED BY <2>1, <2>2, <2>3, WorkerRoles
<1> QED BY <1>2, <1>3 DEF SynchronousStep

\* A step of one worker ends in a notice only where a notice may be sent.
Notifies(w) == UNCHANGED pc \/ \E l : Goto(w, l) /\ (l = "notify" => NotifyYields)

LEMMA NotifiesYield ==
    ASSUME RInv, NoticesYield, NEW w \in Workers, Notifies(w)
    PROVE  NoticesYield'
BY DEF Notifies, Goto, NoticesYield, RInv, TInv, TypeOK

LEMMA DownloadNotifies ==
    ASSUME NEW t \in Tasks,
           \/ DownloadStep(t) \/ StartDownload(t)
           \/ DownloadRename(t) \/ DownloadRenameFails(t) \/ DownloadRecord(t)
    PROVE  Notifies(D(t))
<1>1. Notice = "notify" => NotifyYields
  BY DEF Notice
<1>2. ASSUME NEW r, DownloadExhausted(t, r) PROVE Notifies(D(t))
  BY <1>1, <1>2 DEF DownloadExhausted, Notifies
<1>3. ASSUME NEW n, DownloadAttempt(t, n) PROVE Notifies(D(t))
  BY <1>3 DEF DownloadAttempt, Notifies
<1>4. ASSUME NEW kind, DownloadFails(t, kind) PROVE Notifies(D(t))
  BY <1>2, <1>4 DEF DownloadFails, Notifies
<1>5. CASE DownloadBegin(t)
  BY <1>1, <1>2, <1>3, <1>5 DEF DownloadBegin, Notifies
<1>6. CASE DownloadRetry(t) \/ DownloadArrives(t) \/ DownloadError(t) \/ DownloadRenameFails(t)
  BY <1>3, <1>4, <1>6 DEF DownloadRetry, DownloadArrives, DownloadError, DownloadRenameFails, Notifies
<1>7. CASE DownloadRefused(t) \/ StartDownload(t) \/ DownloadRename(t) \/ DownloadRecord(t)
  BY <1>1, <1>7 DEF DownloadRefused, StartDownload, DownloadRename, DownloadRecord, Notifies
<1> QED BY <1>5, <1>6, <1>7 DEF DownloadStep

LEMMA UploadNotifies ==
    ASSUME NEW t \in Tasks, UploadStep(t) \/ StartUpload(t)
    PROVE  Notifies(U(t))
<1>1. Notice = "notify" => NotifyYields
  BY DEF Notice
<1>2. ASSUME NEW r, CheckLocal(U(t), r) PROVE Notifies(U(t))
  BY <1>1, <1>2 DEF CheckLocal, Notifies
<1> QED BY <1>1, <1>2 DEF UploadStep, UploadBegin, Recheck, StartUpload, Notifies

LEMMA RemoteNotifies ==
    ASSUME NEW w \in Workers, RemoteStep(w) \/ Clean(w) \/ CleanFails(w) \/ Complete(w)
    PROVE  Notifies(w)
<1>1. Notice = "notify" => NotifyYields
  BY DEF Notice
<1>2. ASSUME NEW kind, Fail(w, kind) PROVE Notifies(w)
  BY <1>1, <1>2 DEF Fail, Notifies
<1>3. ASSUME BeginWrite(w) PROVE Notifies(w)
  BY <1>2, <1>3 DEF BeginWrite, Notifies
<1>4. ASSUME NothingToResume(w) PROVE Notifies(w)
  BY <1>3, <1>4 DEF NothingToResume, Notifies
<1>5. ASSUME NEW p, Claim(w, p) PROVE Notifies(w)
  BY <1>2, <1>5 DEF Claim, Notifies
<1>6. CASE Resume(w)
  BY <1>2, <1>4, <1>6 DEF Resume, Notifies
<1>7. CASE ResumeTemp(w)
  BY <1>2, <1>4, <1>7 DEF ResumeTemp, Notifies
<1>8. CASE StreamHead(w) \/ TakeLock(w)
  BY <1>3, <1>8 DEF StreamHead, TakeLock, Notifies
<1>9. CASE ChooseFinal(w) \/ ReuseFinal(w)
  BY <1>2, <1>5, <1>9 DEF ChooseFinal, ReuseFinal, Notifies
<1>10. CASE WriteStarts(w) \/ WriteEnds(w)
  <2>1. Goto(w, "writing") \/ Goto(w, "verify") \/ Fail(w, "transient")
    BY <1>10 DEF WriteStarts, WriteEnds
  <2> QED BY <1>2, <2>1 DEF Notifies
<1>11. CASE Verify(w) \/ MoveToFinal(w) \/ FinalCheck(w) \/ Receive(w)
  BY <1>2, <1>11 DEF Verify, MoveToFinal, FinalCheck, Receive, Notifies
<1>12. CASE RemoteRetry(w) \/ Notified(w) \/ RemoteError(w) \/ StreamError(w) \/ StreamRefused(w)
  BY <1>1, <1>2, <1>12 DEF RemoteRetry, Notified, RemoteError, StreamError, StreamRefused, Notifies
<1>13. CASE Clean(w) \/ CleanFails(w) \/ Complete(w)
  BY <1>1, <1>13 DEF Clean, CleanFails, Complete, Notifies
<1> QED BY <1>6, <1>7, <1>8, <1>9, <1>10, <1>11, <1>12, <1>13 DEF RemoteStep

LEMMA NextNotices ==
    ASSUME RInv, NoticesYield, [Next]_vars
    PROVE  NoticesYield'
<1>1. ASSUME NEW w \in Workers, SynchronousStep(w)
      PROVE  NoticesYield'
  <2>1. w[2] \in Tasks
    BY WorkerTypes
  <2>2. Notifies(D(w[2])) \/ Notifies(w)
    BY <1>1, <2>1, DownloadNotifies, RemoteNotifies DEF SynchronousStep
  <2> QED BY <2>1, <2>2, Pair, NotifiesYield
<1>2. ASSUME NEW w \in Workers, RemoteStep(w)
      PROVE  NoticesYield'
  BY <1>2, RemoteNotifies, NotifiesYield
<1>3. ASSUME NEW t \in Tasks, DownloadStep(t) \/ StartDownload(t) \/ UploadStep(t) \/ StartUpload(t)
      PROVE  NoticesYield'
  BY <1>3, Pair, DownloadNotifies, UploadNotifies, NotifiesYield
<1>4. ASSUME NEW t \in Tasks, CancelStep(t) \/ Command(t) \/ LoseFile(t) \/ Drift(t)
      PROVE  NoticesYield'
  <2>1. Notifies(D(t)) \/ Notifies(U(t))
    BY <1>4 DEF CancelStep, CancelSettle, CancelPurge, CancelPurgeFails, Command, CancelAsk, CancelRunning, Retry,
       RecoverFresh, RequestStream, Confirm, LoseFile, Drift, Notifies
  <2> QED BY <2>1, Pair, NotifiesYield
<1>5. CASE Crash \/ Stop \/ DiskEmergency
  BY <1>5 DEF Crash, Stop, Restart, DiskEmergency, NoticesYield
<1>6. CASE UNCHANGED vars
  BY <1>6 DEF vars, NoticesYield
<1> QED BY <1>1, <1>2, <1>3, <1>4, <1>5, <1>6 DEF Next

LEMMA NextRoles ==
    ASSUME RInv, Roles, NoticesYield, Undisturbed, [Next]_vars
    PROVE  Roles'
<1>1. CASE UNCHANGED vars
  BY <1>1 DEF vars, Roles, Role
<1>2. CASE \E w \in Workers : SynchronousStep(w)
  BY <1>2, SynchronousRoles
<1>3. CASE Crash
  BY <1>3, CrashRoles
<1>4. CASE \E w \in Workers : Turn(w) /\ RemoteStep(w)
  BY <1>4, RemoteRoles
<1>5. ASSUME NEW t \in Tasks, Turn(D(t)) /\ (DownloadStep(t) \/ StartDownload(t))
      PROVE  Roles'
  BY <1>5, DownloadRoles
<1>6. ASSUME NEW t \in Tasks, Turn(U(t)) /\ (UploadStep(t) \/ StartUpload(t))
      PROVE  Roles'
  BY <1>6, UploadRoles
<1>7. ASSUME NEW t \in Tasks, CancelStep(t) \/ Command(t) \/ LoseFile(t) \/ Drift(t)
      PROVE  Roles'
  BY <1>7, CancelStepRoles, CancelAskRoles, RetryRoles, RecoverFreshRoles, NoteRoles, OutsideRoles DEF Command
<1>8. CASE Stop
  BY <1>8, StopRoles
<1>9. CASE DiskEmergency
  BY <1>9, DiskEmergencyRoles
<1> QED BY <1>1, <1>2, <1>3, <1>4, <1>5, <1>6, <1>7, <1>8, <1>9 DEF Next

LEMMA InitRoles == Init => Roles /\ NoticesYield
<1>2. Init => NoticesYield
  BY DEF Init, NoticesYield
<1> SUFFICES ASSUME Init, NEW t \in Tasks PROVE Role(t)
  BY <1>2 DEF Roles
<1>1. /\ row[t] = NewRow /\ file[t] = "absent" /\ part[t] = "absent" /\ cancelling[t] = "idle"
      /\ pc[D(t)] = "idle" /\ pc[U(t)] = "idle" /\ job[D(t)] = NewJob
  BY WorkerTypes DEF Init
<1> QED BY <1>1 DEF Role, RoleOf, Coroutines, Downloading, Streaming, Uploading, Cancelled, FitsCopy, Remote,
                    LocalLabels, Finishing, NewRow, NewJob

\* What the coroutines of a task are doing follows from its row, as long as
\* none is cancelled while it still sends a notice.
THEOREM RolesAreKept ==
    ASSUME Undisturbed
    PROVE  Spec => [](RInv /\ NoticesYield /\ Roles)
<1>1. Init => RInv /\ NoticesYield /\ Roles
  BY InitInv, InitRoles
<1>2. RInv /\ NoticesYield /\ Roles /\ [Next]_vars => (RInv /\ NoticesYield /\ Roles)'
  BY NextInv, NextNotices, NextRoles
<1> QED BY <1>1, <1>2, PTL DEF Spec

-------------------------------------------------------------------------------
(* HeldUntilRecover *)

\* The steps of a local download, and those of a cleanup.
LocalStep(t) ==
    \/ DownloadStep(t) \/ StartDownload(t)
    \/ DownloadRename(t) \/ DownloadRenameFails(t) \/ DownloadRecord(t)
Cleaning(w) == Clean(w) \/ CleanFails(w) \/ Complete(w)

LEMMA NextSplit ==
    ASSUME RInv, Next
    PROVE  \/ \E t \in Tasks : LocalStep(t) /\ Others(D(t))
           \/ \E t \in Tasks : (UploadStep(t) \/ StartUpload(t)) /\ Others(U(t))
           \/ \E w \in Workers : RemoteStep(w) /\ Others(w)
           \/ \E w \in Workers : Cleaning(w) /\ Others(w)
           \/ \E t \in Tasks : CancelStep(t) \/ Command(t) \/ LoseFile(t) \/ Drift(t)
           \/ Crash \/ Stop \/ DiskEmergency
<1>0. TInv
  BY DEF RInv
<1>1. ASSUME NEW t \in Tasks, LocalStep(t)
      PROVE  Others(D(t))
  <2>1. WorkerStep(D(t))
    BY <1>0, <1>1, DownloadStepType, StartSteps, DownloadRenameStep, DownloadErrorStep, DownloadRecordStep
       DEF LocalStep
  <2>2. FilesOf(t) /\ UNCHANGED commands
    BY <1>1, DownloadFiles DEF LocalStep
  <2> QED BY <2>1, <2>2, Pair, ControlOthers DEF WorkerStep
<1>2. ASSUME NEW t \in Tasks, UploadStep(t) \/ StartUpload(t)
      PROVE  Others(U(t))
  <2>1. WorkerStep(U(t)) /\ FilesOf(t) /\ UNCHANGED commands
    BY <1>0, <1>2, UploadBeginStep, RecheckStep, StartSteps, UploadFiles, Pair DEF UploadStep
  <2> QED BY <2>1, Pair, ControlOthers DEF WorkerStep
<1>3. ASSUME NEW w \in Workers, RemoteStep(w)
      PROVE  Others(w)
  BY <1>3, RemoteStill
<1>4. ASSUME NEW w \in Workers, Cleaning(w)
      PROVE  Others(w)
  <2>1. WorkerStep(w)
    BY <1>0, <1>4, CleanStep, CompleteStep DEF Cleaning
  <2>2. FilesOf(w[2]) /\ UNCHANGED commands
    BY <1>4, RemoteFiles DEF Cleaning
  <2> QED BY <2>1, <2>2, ControlOthers DEF WorkerStep
<1>5. ASSUME NEW w \in Workers, SynchronousStep(w)
      PROVE  LocalStep(w[2]) \/ Cleaning(w)
  BY <1>5 DEF SynchronousStep, LocalStep, Cleaning
<1> QED BY <1>1, <1>2, <1>3, <1>4, <1>5, WorkerTypes DEF Next, LocalStep

\* Nor is one that does so stopped, which finding 2 is about.
Unstopped == NotifyYields => Limit["stop"] = 0

\* A failed task rests, save that a notice may still be on its way.
LEMMA FailedRests ==
    ASSUME RInv, NEW t \in Tasks, Role(t), row[t].state \in FailedStates
    PROVE  pc[D(t)] \in {"idle", "notify"} /\ pc[U(t)] \in {"idle", "notify"}
BY Pair DEF Role, RoleOf, Coroutines, Downloading, Streaming, Uploading, Remote, LocalLabels, Finishing, Labels,
            FailedStates

LEMMA HeldStep ==
    ASSUME RInv, Roles, NoticesYield, Undisturbed, Unstopped, Next, NEW t \in Tasks,
           NeedsReview(row[t]), row[t].state \in FailedStates, row'[t].state \notin FailedStates
    PROVE  spent'["command"] > spent["command"]
<1>0. /\ TypeOK /\ pc[D(t)] \in {"idle", "notify"} /\ pc[U(t)] \in {"idle", "notify"} /\ row[t].state \notin {"queued"} \cup Ended
      /\ "command" \in Events /\ cancelling[t] # "purging" /\ row[t].kind = "conflict"
      /\ LeftAlone(row[t])
  BY FailedRests DEF RInv, TInv, Roles, Role, RoleOf, Cancelled, FailedStates, Ended, Events, NeedsReview, LeftAlone
<1>1. ASSUME NEW x \in Tasks, LocalStep(x), Others(D(x))
      PROVE  FALSE
  <2>1. x = t
    BY <1>1, Pair DEF Others
  <2> QED BY <1>0, <1>1, <2>1
          DEF LocalStep, DownloadStep, DownloadBegin, DownloadRetry, DownloadArrives, DownloadError, DownloadRefused,
              StartDownload, DownloadRename, DownloadRenameFails, DownloadRecord
<1>2. ASSUME NEW x \in Tasks, UploadStep(x) \/ StartUpload(x), Others(U(x))
      PROVE  FALSE
  <2>1. x = t
    BY <1>2, Pair DEF Others
  <2> QED BY <1>0, <1>2, <2>1 DEF UploadStep, UploadBegin, Recheck, StartUpload
<1>3. ASSUME NEW w \in Workers, RemoteStep(w) \/ Cleaning(w), Others(w)
      PROVE  FALSE
  <2>1. w[2] = t
    BY <1>3 DEF Others
  <2>2. w = D(t) \/ w = U(t)
    BY <2>1, WorkerTypes DEF D, U
  <2>3. pc[w] \in {"idle", "notify"}
    BY <1>0, <2>2
  <2> QED BY <1>3, <2>3 DEF RemoteStep, Cleaning, Resume, ResumeTemp, StreamHead, TakeLock, ChooseFinal, ReuseFinal,
             WriteStarts, WriteEnds, Verify, MoveToFinal, FinalCheck, Receive, RemoteRetry, Notified, RemoteError,
             StreamError, StreamRefused, Clean, CleanFails, Complete
<1>4. ASSUME NEW x \in Tasks, CancelStep(x) \/ CancelAsk(x)
      PROVE  FALSE
  <2> DEFINE kept == [row[t] EXCEPT !.cancel = FALSE]
  <2>1. kept.state = row[t].state
    BY <1>0 DEF TypeOK, Row
  <2> HIDE DEF kept
  <2>2. CASE CancelSettle(x)
    <3>1. SettledBy(x, row[x])
      BY <1>0, <2>2, SettleCancelEffect DEF CancelSettle, TypeOK
    <3>2. x = t
      BY <3>1 DEF SettledBy
    <3>3. row'[t].state = row[t].state
      BY <3>1, <3>2 DEF SettledBy, NeedsReview
    <3> QED BY <3>3
  <2>3. CASE CancelPurge(x)
    <3>1. row' = row \/ EndedBy(x, row[x])
      BY <1>0, <2>3, EndCancelEffect DEF CancelPurge, TypeOK
    <3>2. x = t
      BY <3>1 DEF EndedBy
    <3> QED BY <1>0, <2>3, <3>2 DEF CancelPurge
  <2>4. CASE CancelPurgeFails(x)
    BY <2>4 DEF CancelPurgeFails
  <2>5. CASE CancelAsk(x)
    <3> DEFINE asked == [row[x] EXCEPT !.cancel = TRUE]
               used == [spent EXCEPT !["cancel"] = @ + 1]
    <3>1. x # t
      BY <2>5 DEF CancelAsk
    <3>2. asked \in Row
      <4>1. row[x] \in Row
        BY <1>0 DEF TypeOK
      <4> QED BY <4>1 DEF Row
    <3>3. CancelRunning(x, asked, used) \/ SettleCancel(x, asked, used)
      BY <2>5 DEF CancelAsk
    <3> HIDE DEF asked, used
    <3>4. row'[t] = row[t]
      BY <1>0, <3>1, <3>2, <3>3, SettleCancelEffect DEF CancelRunning, Put, SettledBy, TypeOK
    <3> QED BY <3>4
  <2> QED BY <1>4, <2>2, <2>3, <2>4, <2>5 DEF CancelStep
<1>5. ASSUME NEW x \in Tasks, Retry(x) \/ RecoverFresh(x) \/ RequestStream(x) \/ Confirm(x)
      PROVE  spent'["command"] > spent["command"]
  BY <1>0, <1>5 DEF Retry, RecoverFresh, RequestStream, Confirm, Spend, TypeOK
<1>6. ASSUME NEW x \in Tasks, LoseFile(x) \/ Drift(x)
      PROVE  FALSE
  BY <1>6 DEF LoseFile, Drift
<1>7. CASE Crash
  <2>1. \E stuck : row'[t] = Recovered(t, row[t], stuck)
    BY <1>7 DEF Crash, Restart
  <2>2. row'[t] = row[t]
    BY <1>0, <2>1 DEF Recovered
  <2> QED BY <2>2
<1>8. CASE Stop
  <2>1. pc[D(t)] = "idle" /\ pc[U(t)] = "idle"
    BY <1>0, <1>8, Pair, PipelineAssumption DEF Stop, Spend, Unstopped, NoticesYield, Events, TypeOK
  <2>2. Interrupted(U(t), Interrupted(D(t), row[t])) = row[t]
    BY <2>1 DEF Interrupted, Handles
  <2>3. \E stuck : row'[t] = Recovered(t, row[t], stuck)
    BY <1>8, <2>2 DEF Stop, Restart
  <2>4. row'[t] = row[t]
    BY <1>0, <2>3 DEF Recovered
  <2> QED BY <2>4
<1>9. CASE DiskEmergency
  <2>1. pc[D(t)] = "idle"
    BY <1>0, <1>9, NoNotice, Pair DEF DiskEmergency, Spend
  <2>2. Interrupted(D(t), row[t]) = row[t]
    BY <2>1 DEF Interrupted, Handles
  <2> QED BY <1>9, <2>2 DEF DiskEmergency
<1> QED BY <1>1, <1>2, <1>3, <1>4, <1>5, <1>6, <1>7, <1>8, <1>9, NextSplit DEF Command

\* A task held for review leaves its failed state by a command of the user only:
\* neither the scheduler, nor a coroutine, a cancellation or a restart moves it.
THEOREM ReviewIsHeld ==
    ASSUME Undisturbed, Unstopped
    PROVE  Spec => HeldUntilRecover
<1>1. RInv /\ NoticesYield /\ Roles /\ [Next]_vars =>
        [\A t \in Tasks :
          NeedsReview(row[t]) /\ row[t].state \in FailedStates /\ row'[t].state \notin FailedStates
             => spent'["command"] > spent["command"]]_vars
  BY HeldStep
<1> QED BY <1>1, RolesAreKept, PTL DEF Spec, HeldUntilRecover
===============================================================================
