--------------------------- MODULE TransferPipeline ---------------------------
(***************************************************************************)
(* The transfer pipeline of one Bot process: the durable task rows, the    *)
(* files in the download directory, the objects on the WebDAV side, and    *)
(* the coroutines that move a task from one to the next.                   *)
(*                                                                         *)
(* Coroutines interleave only where they await, so an action is the code   *)
(* from one await to the next.  Two stretches are split further because a  *)
(* crash inside them matters (the labels of Synchronous): no other         *)
(* coroutine runs there, but the process may die there.                    *)
(*                                                                         *)
(* Every task wants the same remote file name.  A size check is "whole or  *)
(* not".  External failures and user commands are drawn from the budgets   *)
(* of Limit.                                                               *)
(***************************************************************************)
EXTENDS TaskStates, Naturals, FiniteSets

CONSTANTS
    Tasks,           \* the task rows
    Oversized,       \* tasks larger than the local budget: always streamed
    Listened,        \* tasks read through a listener account, not the Bot
    Backend,         \* "clouddrive2" or "openlist"
    MaxRetries,      \* settings.max_retries
    MaxRecoveries,   \* bound: recoveries recorded per task
    MaxSuffix,       \* bound: last suffix tried for a remote file name
    SourceErrors,    \* failure kinds the media source may raise
    NotifyYields,    \* TRUE when sending a notification lets others run
    Limit            \* how often each kind of event may happen

Events == {"crash", "stop", "disk", "fault", "loss", "drift", "cancel", "command"}

Kinds == {"none", "transient", "access", "refused", "conflict"}

ASSUME PipelineAssumption ==
    /\ Oversized \subseteq Tasks /\ Listened \subseteq Tasks
    /\ Backend \in {"clouddrive2", "openlist"}
    /\ MaxRetries \in Nat \ {0} /\ MaxRecoveries \in Nat /\ MaxSuffix \in Nat \ {0}
    /\ SourceErrors \subseteq Kinds
    /\ NotifyYields \in BOOLEAN
    /\ Limit \in [Events -> Nat]
    /\ "nobody" \notin Tasks /\ "foreign" \notin Tasks

-------------------------------------------------------------------------------
(* Remote paths and objects *)

NoPath == <<"none", "nobody", 0>>

\* The names _choose_remote_final tries in turn: the plain name, which every
\* task shares, then the task's own suffixed names.
Candidate(t, k) == IF k = 0 THEN <<"final", "nobody", 0>> ELSE <<"final", t, k>>

\* Mutant: a staging name that every attempt of a task shares.
SharedStaging(t, g) == <<"staging", t, 0>>

\* The staging name carries the number of the task's last recovery.
Staging(t, g) == <<"staging", t, g>>

Finals == {Candidate(t, k) : t \in Tasks, k \in 0..MaxSuffix}
Stagings == {Staging(t, g) : t \in Tasks, g \in 0..MaxRecoveries}
Paths == Finals \cup Stagings

IsStaging(p) == p \in Stagings

Owners == Tasks \cup {"nobody", "foreign"}
Absent == [by |-> "nobody", whole |-> FALSE]
Object(t, w) == [by |-> t, whole |-> w]

-------------------------------------------------------------------------------
VARIABLES
    row,        \* the tasks table
    retained,   \* the retained_objects table
    part,       \* <download_dir>/<id>.part
    file,       \* <download_dir>/<id>-<name>
    store,      \* the objects on the WebDAV side
    pc,         \* where each worker coroutine stands
    job,        \* a worker's local variables
    lock,       \* holder of _finalize_lock
    cancelling, \* the /cancel coroutine of each task
    purge,      \* remote paths that /cancel has still to remove
    spent       \* events used up, bounded by Limit

vars == <<row, retained, part, file, store, pc, job, lock, cancelling, purge, spent>>

Workers == {"download", "upload"} \X Tasks
D(t) == <<"download", t>>
U(t) == <<"upload", t>>
NoWorker == <<"none", "nobody">>

Labels ==
    {"idle", "start", "fetch", "renaming", "renamed", "recheck", "resume", "resumeTemp", "head",
     "lock", "reserved", "exists", "write", "writing", "verify", "move", "final",
     "complete", "receipt", "cleaned", "backoff", "notify"}

\* Points inside a stretch without an await: only a crash comes between.
Synchronous == {"renaming", "renamed", "receipt", "cleaned"}

Row ==
    [state : States, mode : {"local", "stream"}, cancel : BOOLEAN, kind : Kinds,
     lpath : {"none", "part", "file"}, temp : Paths \cup {NoPath},
     final : Paths \cup {NoPath}, rpath : Paths \cup {NoPath}, verified : BOOLEAN,
     dtries : 0..MaxRetries, utries : 0..MaxRetries, gen : 0..MaxRecoveries]

Job ==
    [how : {"local", "stream", "upload"}, try : 0..MaxRetries, loc : {"none", "part", "file"},
     path : Paths \cup {NoPath}, goal : Paths \cup {NoPath}, k : 0..MaxSuffix,
     outside : BOOLEAN]   \* outside the attempt loop, whose handlers do not apply

TypeOK ==
    /\ row \in [Tasks -> Row]
    /\ retained \in SUBSET Paths
    /\ part \in [Tasks -> {"absent", "partial", "whole"}]
    /\ file \in [Tasks -> {"absent", "short", "whole"}]
    /\ store \in [Paths -> [by : Owners, whole : BOOLEAN]]
    /\ pc \in [Workers -> Labels]
    /\ job \in [Workers -> Job]
    /\ lock \in Workers \cup {NoWorker}
    /\ cancelling \in [Tasks -> {"idle", "asked", "purging"}]
    /\ purge \in [Tasks -> SUBSET Paths]
    /\ spent \in [Events -> Nat]

NewRow ==
    [state |-> "queued", mode |-> "local", cancel |-> FALSE, kind |-> "none",
     lpath |-> "none", temp |-> NoPath, final |-> NoPath, rpath |-> NoPath,
     verified |-> FALSE, dtries |-> 0, utries |-> 0, gen |-> 0]

NewJob ==
    [how |-> "local", try |-> 0, loc |-> "none", path |-> NoPath, goal |-> NoPath,
     k |-> 0, outside |-> FALSE]

\* The shared file name may already be taken by somebody else's object.
Init ==
    /\ row = [t \in Tasks |-> NewRow]
    /\ retained = {}
    /\ part = [t \in Tasks |-> "absent"]
    /\ file = [t \in Tasks |-> "absent"]
    /\ store \in {[p \in Paths |-> Absent],
                  [p \in Paths |-> IF p = <<"final", "nobody", 0>>
                                   THEN Object("foreign", TRUE) ELSE Absent]}
    /\ pc = [w \in Workers |-> "idle"]
    /\ job = [w \in Workers |-> NewJob]
    /\ lock = NoWorker
    /\ cancelling = [t \in Tasks |-> "idle"]
    /\ purge = [t \in Tasks |-> {}]
    /\ spent = [e \in Events |-> 0]

-------------------------------------------------------------------------------
(* Helpers *)

Active(w) == pc[w] # "idle"
NeedsReview(r) == r.kind = "conflict"
Exists(p) == p # NoPath /\ store[p] # Absent

\* Mutant: presence passes for the size check.
PresentIsWhole(p) == Exists(p)

Whole(p) == Exists(p) /\ store[p].whole

\* Mutant: only recovered objects protect their names.
ClaimedByRecovery(p, t) == p \in retained

\* TaskDB.remote_claimed
Claimed(p, t) ==
    \/ p \in retained
    \/ \E u \in Tasks \ {t} : row[u].final = p /\ row[u].state # "cancelled"

\* The first name from number k on that no other task and no recovery claims.
FirstUnclaimed(t, k, j) ==
    /\ j \in k..MaxSuffix
    /\ ~ Claimed(Candidate(t, j), t)
    /\ \A i \in k..(j - 1) : Claimed(Candidate(t, i), t)

Spend(e) == spent[e] < Limit[e] /\ spent' = [spent EXCEPT ![e] = @ + 1]
Put(t, r) == row' = [row EXCEPT ![t] = r]
Goto(w, l) == pc' = [pc EXCEPT ![w] = l]

\* Mutant: an error leaves the lock taken.
KeepLock(w) == lock' = lock

Unlock(w) == lock' = IF lock = w THEN NoWorker ELSE lock

\* Mutant: nobody waits for the finalize lock.
NoWaiting == TRUE

LockFree == lock = NoWorker

\* Mutant: one attempt too many.
OneMoreTry(n) == n <= MaxRetries

AttemptsLeft(n) == n < MaxRetries

\* Whether a notification is a point where others run.
Notice == IF NotifyYields THEN "notify" ELSE "idle"

\* TaskDB.transition raises, and changes nothing, unless the edge is legal.
Legal(t, s) == CanTransition(row[t].state, s)

FailedState(w) == IF w[1] = "download" THEN "download_failed" ELSE "upload_failed_retained"

Tried(w, r, n) == IF w[1] = "download" THEN [r EXCEPT !.dtries = n] ELSE [r EXCEPT !.utries = n]

\* Recorded paths as _resume_remote reads them: a legacy remote_path stands in
\* for whichever of the two columns it matches.
RecordedFinal(r) ==
    IF r.final # NoPath THEN r.final ELSE IF IsStaging(r.rpath) THEN NoPath ELSE r.rpath
RecordedTemp(r) ==
    IF r.temp # NoPath THEN r.temp ELSE IF IsStaging(r.rpath) THEN r.rpath ELSE NoPath

\* A complete local copy that _retry_task may reuse.
LocalComplete(t) == row[t].lpath = "file" /\ file[t] = "whole"

files == <<part, file>>
commands == <<cancelling, purge>>

-------------------------------------------------------------------------------
(* Failures inside a remote attempt *)

\* Review, credential and rate-limit failures stop automatic retries
\* (_hold_transfer_failure); a transient one is retried until the attempts are
\* used up.  While an accepted file is re-checked any error only drops the
\* verification mark, and the cleanup is tried again later.
Fail(w, kind) ==
    LET t == w[2]
        r == row[t]
        failed == FailedState(w)
        next == job[w].try + 1
        tried == Tried(w, [r EXCEPT !.kind = kind], next)
        kept == IF job[w].how = "stream" THEN [tried EXCEPT !.lpath = "none"] ELSE tried
    IN  /\ Unlock(w)
        /\ \/ /\ job[w].outside
              /\ Put(t, [r EXCEPT !.verified = FALSE])
              /\ Goto(w, "idle")
              /\ UNCHANGED job
           \/ /\ ~ job[w].outside /\ kind \in {"conflict", "refused"}
              /\ IF Legal(t, failed)
                 THEN Put(t, [r EXCEPT !.state = failed, !.kind = kind, !.verified = FALSE])
                      /\ Goto(w, Notice)
                 ELSE UNCHANGED row /\ Goto(w, "idle")
              /\ UNCHANGED job
           \/ /\ ~ job[w].outside /\ kind = "transient" /\ AttemptsLeft(next)
              /\ Put(t, tried)
              /\ job' = [job EXCEPT ![w].try = next]
              /\ Goto(w, "backoff")
           \/ /\ ~ job[w].outside /\ kind = "transient" /\ ~ AttemptsLeft(next)
              /\ IF Legal(t, failed)
                 THEN Put(t, [kept EXCEPT !.state = failed]) /\ Goto(w, Notice)
                 ELSE Put(t, tried) /\ Goto(w, "idle")
              /\ UNCHANGED job

\* The remote side when the calls of these workers took effect although their
\* callers never saw the answer.
Landed(ws) ==
    LET moved == {w \in ws : pc[w] = "move" /\ Exists(job[w].path)}
        written == {w \in ws : pc[w] = "writing"}
    IN  [p \in Paths |->
            IF \E w \in moved : job[w].goal = p
            THEN store[job[CHOOSE w \in moved : job[w].goal = p].path]
            ELSE IF \E w \in moved : job[w].path = p THEN Absent
            ELSE IF \E w \in written : job[w].path = p
            THEN Object((CHOOSE w \in written : job[w].path = p)[2], TRUE)
            ELSE store[p]]

\* Any rclone call may fail; a write or a move may also have taken effect when
\* its error is reported.
RemoteError(w) ==
    /\ pc[w] \in {"recheck", "resume", "resumeTemp", "reserved", "exists", "write", "writing", "verify",
                  "move", "final", "complete"}
    /\ Spend("fault")
    /\ \E kind \in {"transient", "refused", "conflict"} : Fail(w, kind)
    /\ store' \in {store, Landed({w})}
    /\ UNCHANGED <<retained, files, commands>>

-------------------------------------------------------------------------------
(* _download_one: Telegram to the download directory *)

\* After the last attempt the partial file is removed.
DownloadExhausted(t, r) ==
    /\ part' = [part EXCEPT ![t] = "absent"]
    /\ IF CanTransition(r.state, "download_failed")
       THEN Put(t, [r EXCEPT !.state = "download_failed", !.lpath = "none"])
            /\ Goto(D(t), Notice)
       ELSE Put(t, r) /\ Goto(D(t), "idle")

\* A refused "downloading" edge ends the coroutine through its outer handler.
DownloadAttempt(t, n) ==
    IF Legal(t, "downloading")
    THEN /\ Put(t, [row[t] EXCEPT !.state = "downloading", !.lpath = "part", !.dtries = n])
         /\ part' = [part EXCEPT ![t] = "partial"]
         /\ Goto(D(t), "fetch")
    ELSE /\ part' = [part EXCEPT ![t] = "absent"]
         /\ IF Legal(t, "download_failed")
            THEN Put(t, [row[t] EXCEPT !.state = "download_failed", !.lpath = "none"])
            ELSE UNCHANGED row
         /\ Goto(D(t), "idle")

DownloadBegin(t) ==
    LET how == IF row[t].mode = "stream" THEN "stream" ELSE "local"
        n == row[t].dtries
        begun == [NewJob EXCEPT !.how = how, !.try = n]
    IN  /\ pc[D(t)] = "start"
        /\ job' = [job EXCEPT ![D(t)] = begun]
        /\ \/ AttemptsLeft(n) /\ how = "local" /\ DownloadAttempt(t, n)
           \/ AttemptsLeft(n) /\ how = "stream" /\ Goto(D(t), "resume") /\ UNCHANGED <<row, part>>
           \/ ~ AttemptsLeft(n) /\ how = "local" /\ DownloadExhausted(t, row[t])
           \/ /\ ~ AttemptsLeft(n) /\ how = "stream" /\ UNCHANGED part
              /\ IF Legal(t, "download_failed")
                 THEN Put(t, [row[t] EXCEPT !.state = "download_failed", !.lpath = "none"])
                      /\ Goto(D(t), Notice)
                 ELSE UNCHANGED row /\ Goto(D(t), "idle")
        /\ UNCHANGED <<retained, file, store, lock, commands, spent>>

DownloadRetry(t) ==
    /\ pc[D(t)] = "backoff" /\ job[D(t)].how = "local"
    /\ DownloadAttempt(t, job[D(t)].try)
    /\ UNCHANGED <<retained, file, store, job, lock, commands, spent>>

\* A failed attempt keeps the row where it is; the failure kind stays in it.
DownloadFails(t, kind) ==
    LET next == job[D(t)].try + 1
        r == [row[t] EXCEPT !.dtries = next, !.kind = kind]
    IN  \/ /\ AttemptsLeft(next)
           /\ Put(t, r)
           /\ job' = [job EXCEPT ![D(t)].try = next]
           /\ Goto(D(t), "backoff")
           /\ UNCHANGED part
        \/ /\ ~ AttemptsLeft(next)
           /\ DownloadExhausted(t, r)
           /\ UNCHANGED job

\* The media arrived whole: the final path is recorded before the rename.
DownloadArrives(t) ==
    /\ pc[D(t)] = "fetch"
    /\ IF part[t] = "partial" /\ Legal(t, "downloaded")
       THEN /\ part' = [part EXCEPT ![t] = "whole"]
            /\ Put(t, [row[t] EXCEPT !.state = "downloaded", !.lpath = "file"])
            /\ Goto(D(t), "renaming")
            /\ UNCHANGED job
       ELSE DownloadFails(t, "transient")
    /\ UNCHANGED <<retained, file, store, lock, commands, spent>>

DownloadRename(t) ==
    /\ pc[D(t)] = "renaming"
    /\ file' = [file EXCEPT ![t] = "whole"]
    /\ part' = [part EXCEPT ![t] = "absent"]
    /\ Goto(D(t), "renamed")
    /\ UNCHANGED <<row, retained, store, job, lock, commands, spent>>

DownloadRecord(t) ==
    /\ pc[D(t)] = "renamed"
    /\ Put(t, [row[t] EXCEPT !.state = "waiting_upload", !.lpath = "file",
                             !.dtries = job[D(t)].try])
    /\ Goto(D(t), Notice)
    /\ UNCHANGED <<retained, files, store, job, lock, commands, spent>>

\* os.replace fails: the row stays in "downloaded" while the attempt backs off.
DownloadRenameFails(t) ==
    /\ pc[D(t)] = "renaming"
    /\ Spend("fault")
    /\ DownloadFails(t, "transient")
    /\ UNCHANGED <<retained, file, store, lock, commands>>

DownloadError(t) ==
    /\ pc[D(t)] = "fetch"
    /\ Spend("fault")
    /\ \E kind \in SourceErrors : DownloadFails(t, kind)
    /\ UNCHANGED <<retained, file, store, lock, commands>>

\* ListenerReadError: a bounded rate limit goes back to the queue, anything
\* else fails the task; nothing happens when the row has moved on meanwhile.
DownloadRefused(t) ==
    LET r == row[t]
        w == D(t)
    IN  /\ pc[w] = "fetch" /\ t \in Listened
        /\ Spend("fault")
        /\ \/ /\ r.cancel \/ r.state \notin {"reserved", "downloading"}
              /\ UNCHANGED <<row, part>> /\ Goto(w, "idle")
           \/ /\ ~ r.cancel /\ r.state \in {"reserved", "downloading"}
              /\ part' = [part EXCEPT ![t] = "absent"]
              /\ Goto(w, Notice)
              /\ \/ /\ r.mode = "local" /\ AttemptsLeft(r.dtries + 1) /\ r.dtries + 1 < 3
                    /\ {r.temp, r.final, r.rpath} = {NoPath}
                    /\ Put(t, [r EXCEPT !.state = "queued", !.lpath = "none",
                                        !.dtries = @ + 1, !.kind = "refused"])
                 \/ \E kind \in {"access", "refused"} :
                       Put(t, [r EXCEPT !.state = "download_failed", !.lpath = "none",
                                        !.kind = kind])
        /\ UNCHANGED <<retained, file, store, job, lock, commands>>

-------------------------------------------------------------------------------
(* The remote half, shared by _upload_one and _stream_one *)

WritingState(w) == IF w[1] = "download" THEN "streaming" ELSE "uploading"

\* Fields _stream_one passes along when it begins its write.
Begun(w, r) ==
    IF w[1] = "download"
    THEN [r EXCEPT !.mode = "stream", !.lpath = "none", !.dtries = job[w].try] ELSE r

\* CloudDrive2Commit.begin records the staging name and writes there;
\* OpenListCommit.begin queues for the finalize lock to reserve a final name.
BeginWrite(w) ==
    LET t == w[2]
        p == Staging(t, row[t].gen)
    IN  IF Backend = "openlist" THEN Goto(w, "lock") /\ UNCHANGED <<row, job, lock>>
        ELSE IF Legal(t, WritingState(w))
        THEN /\ Put(t, Begun(w, [row[t] EXCEPT !.state = WritingState(w), !.rpath = p, !.temp = p]))
             /\ job' = [job EXCEPT ![w].path = p]
             /\ Goto(w, "write")
             /\ UNCHANGED lock
        ELSE Fail(w, "transient")

\* A stream asks the source for its message before it begins to write.
NothingToResume(w) ==
    IF job[w].how = "stream" THEN Goto(w, "head") /\ UNCHANGED <<row, job, lock>>
    ELSE BeginWrite(w)

\* _resume_remote: a recorded final object decides first.
Resume(w) ==
    LET final == RecordedFinal(row[w[2]])
    IN  /\ pc[w] = "resume"
        /\ \/ /\ Whole(final)
              /\ job' = [job EXCEPT ![w].goal = final]
              /\ Goto(w, "complete")
              /\ UNCHANGED <<row, lock>>
           \/ /\ Exists(final) /\ ~ Whole(final)
              /\ Fail(w, "conflict")
           \/ /\ ~ Exists(final)
              /\ IF RecordedTemp(row[w[2]]) = NoPath THEN NothingToResume(w)
                 ELSE Goto(w, "resumeTemp") /\ UNCHANGED <<row, job, lock>>
        /\ UNCHANGED <<retained, files, store, commands, spent>>

\* Then a recorded staging object; OpenList never finalizes one by itself.
ResumeTemp(w) ==
    LET temp == RecordedTemp(row[w[2]])
    IN  /\ pc[w] = "resumeTemp"
        /\ \/ /\ Whole(temp) /\ Backend = "clouddrive2"
              /\ job' = [job EXCEPT ![w].path = temp]
              /\ Goto(w, "lock")
              /\ UNCHANGED <<row, lock>>
           \/ /\ Exists(temp) /\ (~ Whole(temp) \/ Backend = "openlist")
              /\ Fail(w, "conflict")
           \/ /\ ~ Exists(temp)
              /\ NothingToResume(w)
        /\ UNCHANGED <<retained, files, store, commands, spent>>

StreamHead(w) ==
    /\ pc[w] = "head"
    /\ BeginWrite(w)
    /\ UNCHANGED <<retained, files, store, commands, spent>>

\* Under the lock: a name recorded earlier must be free, otherwise a new one
\* is chosen; the claim is checked before the remote look-up is awaited.
TakeLock(w) ==
    LET t == w[2]
    IN  /\ pc[w] = "lock" /\ LockFree
        /\ lock' = w
        /\ \/ /\ row[t].final # NoPath
              /\ job' = [job EXCEPT ![w].goal = row[t].final]
              /\ Goto(w, "reserved")
           \/ /\ row[t].final = NoPath
              /\ \E k \in 0..MaxSuffix :
                    FirstUnclaimed(t, 0, k) /\ job' = [job EXCEPT ![w].k = k]
              /\ Goto(w, "exists")
        /\ UNCHANGED <<row, retained, files, store, commands, spent>>

\* The name is recorded in the row: by the staging writer just before its
\* move, by the direct writer before its first byte.
Claim(w, p) ==
    LET t == w[2]
        state == IF Backend = "openlist" THEN WritingState(w) ELSE "finalizing"
        r == [row[t] EXCEPT !.state = state, !.rpath = p, !.final = p]
    IN  IF ~ Legal(t, state) THEN Fail(w, "transient")
        ELSE IF Backend = "openlist"
        THEN /\ Put(t, Begun(w, [r EXCEPT !.temp = NoPath]))
             /\ job' = [job EXCEPT ![w].path = p, ![w].goal = p]
             /\ lock' = NoWorker
             /\ Goto(w, "write")
        ELSE /\ Put(t, [r EXCEPT !.temp = job[w].path])
             /\ job' = [job EXCEPT ![w].goal = p]
             /\ Goto(w, "move")
             /\ UNCHANGED lock

ChooseFinal(w) ==
    LET t == w[2]
        p == Candidate(t, job[w].k)
    IN  /\ pc[w] = "exists"
        /\ \/ /\ Exists(p)
              /\ \E k \in 0..MaxSuffix :
                    FirstUnclaimed(t, job[w].k + 1, k) /\ job' = [job EXCEPT ![w].k = k]
              /\ UNCHANGED <<row, pc, lock>>
           \/ /\ ~ Exists(p)
              /\ Claim(w, p)
        /\ UNCHANGED <<retained, files, store, commands, spent>>

ReuseFinal(w) ==
    LET p == job[w].goal
    IN  /\ pc[w] = "reserved"
        /\ IF Exists(p) THEN Fail(w, "conflict") ELSE Claim(w, p)
        /\ UNCHANGED <<retained, files, store, commands, spent>>

\* rclone creates the object and fills it; it replaces what is there.
WriteStarts(w) ==
    LET t == w[2]
    IN  /\ pc[w] = "write"
        /\ IF w[1] = "upload" /\ file[t] = "absent" THEN Fail(w, "transient") /\ UNCHANGED store
           ELSE /\ store' = [store EXCEPT ![job[w].path] = Object(t, FALSE)]
                /\ Goto(w, "writing")
                /\ UNCHANGED <<row, job, lock>>
        /\ UNCHANGED <<retained, files, commands, spent>>

WriteEnds(w) ==
    LET t == w[2]
    IN  /\ pc[w] = "writing"
        /\ store' = [store EXCEPT ![job[w].path] =
                        Object(t, w[1] = "download" \/ file[t] = "whole")]
        /\ IF Legal(t, "verifying")
           THEN /\ Put(t, [row[t] EXCEPT !.state = "verifying"])
                /\ Goto(w, "verify")
                /\ UNCHANGED <<job, lock>>
           ELSE Fail(w, "transient")
        /\ UNCHANGED <<retained, files, commands, spent>>

\* The size of what was written; a staging object goes on to be finalized, a
\* direct one to its second check.
Verify(w) ==
    LET p == job[w].path
    IN  /\ pc[w] = "verify"
        /\ \/ /\ Whole(p)
              /\ job' = [job EXCEPT ![w].goal = IF IsStaging(p) THEN NoPath ELSE p]
              /\ Goto(w, IF IsStaging(p) THEN "lock" ELSE "final")
              /\ UNCHANGED <<row, lock>>
           \/ Exists(p) /\ ~ Whole(p) /\ Fail(w, "conflict")
           \/ ~ Exists(p) /\ Fail(w, "transient")
        /\ UNCHANGED <<retained, files, store, commands, spent>>

\* The rename keeps the writer's object and gives the lock back.
MoveToFinal(w) ==
    LET source == job[w].path
    IN  /\ pc[w] = "move"
        /\ IF Exists(source)
           THEN /\ store' = [store EXCEPT ![job[w].goal] = store[source], ![source] = Absent]
                /\ Unlock(w)
                /\ Goto(w, "final")
                /\ UNCHANGED <<row, job>>
           ELSE Fail(w, "transient") /\ UNCHANGED store
        /\ UNCHANGED <<retained, files, commands, spent>>

FinalCheck(w) ==
    LET p == job[w].goal
    IN  /\ pc[w] = "final"
        /\ \/ Whole(p) /\ Goto(w, "complete") /\ UNCHANGED <<row, job, lock>>
           \/ Exists(p) /\ ~ Whole(p) /\ Fail(w, "conflict")
           \/ ~ Exists(p) /\ Fail(w, "transient")
        /\ UNCHANGED <<retained, files, store, commands, spent>>

\* The row of a task whose object is complete at path p.
Receipt(r, p) ==
    [r EXCEPT !.state = "cleanup_pending", !.rpath = p, !.final = p, !.temp = NoPath,
              !.verified = TRUE, !.kind = "none"]

\* _complete_cloud_receive: remove a leftover staging object, then record the
\* verified result while the local copy still exists ...
Receive(w) ==
    LET t == w[2]
        r == row[t]
        p == job[w].goal
    IN  /\ pc[w] = "complete"
        /\ store' = IF r.temp \in Paths \ {p} THEN [store EXCEPT ![r.temp] = Absent] ELSE store
        /\ IF Legal(t, "cleanup_pending")
           THEN /\ Put(t, Receipt(r, p))
                /\ Goto(w, "receipt")
                /\ UNCHANGED <<job, lock>>
           ELSE Fail(w, "transient")
        /\ UNCHANGED <<retained, files, commands, spent>>

\* ... and only then delete it; a failed deletion leaves the row for a later
\* cleanup pass.
Clean(w) ==
    LET t == w[2]
    IN  /\ pc[w] = "receipt"
        /\ file' = IF job[w].loc = "file" THEN [file EXCEPT ![t] = "absent"] ELSE file
        /\ part' = IF job[w].loc = "part" THEN [part EXCEPT ![t] = "absent"] ELSE part
        /\ Goto(w, "cleaned")
        /\ UNCHANGED <<row, retained, store, job, lock, commands, spent>>

Complete(w) ==
    /\ pc[w] = "cleaned"
    /\ Put(w[2], [row[w[2]] EXCEPT !.state = "completed", !.lpath = "none"])
    /\ Goto(w, Notice)
    /\ UNCHANGED <<retained, files, store, job, lock, commands, spent>>

CleanFails(w) ==
    /\ pc[w] = "receipt" /\ job[w].loc # "none"
    /\ Spend("fault")
    /\ Goto(w, "idle")
    /\ UNCHANGED <<row, retained, files, store, job, lock, commands>>

\* The source fails while a stream is read.
StreamError(w) ==
    /\ job[w].how = "stream" /\ pc[w] \in {"head", "writing"}
    /\ Spend("fault")
    /\ \E kind \in SourceErrors \cap {"transient", "refused", "conflict"} : Fail(w, kind)
    /\ UNCHANGED <<retained, files, store, commands>>

StreamRefused(w) ==
    LET t == w[2]
    IN  /\ job[w].how = "stream" /\ pc[w] \in {"head", "writing"} /\ t \in Listened
        /\ Spend("fault")
        /\ IF row[t].cancel \/ row[t].state \notin {"reserved", "streaming"}
           THEN UNCHANGED row /\ Goto(w, "idle")
           ELSE /\ \E kind \in {"access", "refused"} :
                      Put(t, [row[t] EXCEPT !.state = "download_failed", !.lpath = "none",
                                            !.kind = kind])
                /\ Goto(w, Notice)
        /\ UNCHANGED <<retained, files, store, job, lock, commands>>

RemoteRetry(w) ==
    LET t == w[2]
    IN  /\ pc[w] = "backoff" /\ job[w].how # "local"
        /\ Put(t, IF w[1] = "upload" THEN [row[t] EXCEPT !.utries = job[w].try] ELSE row[t])
        /\ Goto(w, "resume")
        /\ UNCHANGED <<retained, files, store, job, lock, commands, spent>>

\* A finished notification ends the coroutine.
Notified(w) ==
    /\ pc[w] = "notify"
    /\ Goto(w, "idle")
    /\ UNCHANGED <<row, retained, files, store, job, lock, commands, spent>>

-------------------------------------------------------------------------------
(* _upload_one up to its first attempt *)

\* The local copy a row points to.
Copy(t) == CASE row[t].lpath = "file" -> file[t]
             [] row[t].lpath = "part" -> part[t]
             [] OTHER -> "absent"

\* Where the checks send a task whose local copy is unusable.
Downloadable(r) ==
    [r EXCEPT !.state = "queued", !.lpath = "none", !.dtries = 0, !.utries = 0]

\* The checks on the local copy, for the row r; an illegal edge here ends the
\* coroutine with an exception no handler of its own sees.
CheckLocal(w, r) ==
    LET t == w[2]
        fresh == [NewJob EXCEPT !.how = "upload", !.loc = r.lpath, !.try = r.utries]
        requeued == IF CanTransition(r.state, "queued") THEN Downloadable(r) ELSE r
        outside == [job EXCEPT ![w].outside = TRUE]
    IN  \/ /\ Copy(t) = "absent"
           /\ Put(t, requeued) /\ Goto(w, "idle") /\ job' = outside
           /\ UNCHANGED <<files, spent>>
        \/ /\ Copy(t) \in {"short", "partial"}
           /\ file' = IF r.lpath = "file" THEN [file EXCEPT ![t] = "absent"] ELSE file
           /\ part' = IF r.lpath = "part" THEN [part EXCEPT ![t] = "absent"] ELSE part
           /\ Put(t, requeued) /\ job' = outside
           /\ Goto(w, IF requeued # r THEN Notice ELSE "idle")
           /\ UNCHANGED spent
        \/ /\ Copy(t) \in {"short", "partial"}     \* and it cannot be deleted
           /\ Spend("fault")
           /\ Put(t, IF CanTransition(r.state, "verification_failed_retained")
                     THEN [r EXCEPT !.state = "verification_failed_retained"] ELSE r)
           /\ Goto(w, "idle") /\ job' = outside
           /\ UNCHANGED files
        \/ /\ Copy(t) = "whole" /\ AttemptsLeft(r.utries)
           /\ Put(t, r) /\ Goto(w, "resume") /\ job' = [job EXCEPT ![w] = fresh]
           /\ UNCHANGED <<files, spent>>
        \/ /\ Copy(t) = "whole" /\ ~ AttemptsLeft(r.utries)
           /\ IF CanTransition(r.state, "upload_failed_retained")
              THEN Put(t, [r EXCEPT !.state = "upload_failed_retained"]) /\ Goto(w, Notice)
              ELSE Put(t, r) /\ Goto(w, "idle")
           /\ job' = [job EXCEPT ![w] = fresh]
           /\ UNCHANGED <<files, spent>>

UploadBegin(t) ==
    LET w == U(t)
        r == row[t]
    IN  /\ pc[w] = "start"
        /\ \/ /\ r.cancel \/ r.state \in {"completed", "confirmed", "cancelled"}
              /\ Goto(w, "idle")
              /\ UNCHANGED <<row, files, job, spent>>
           \/ /\ ~ r.cancel /\ r.state = "cleanup_pending"
              /\ job' = [job EXCEPT ![w] = [NewJob EXCEPT !.how = "upload", !.loc = r.lpath,
                                                          !.outside = TRUE]]
              /\ Goto(w, "recheck")
              /\ UNCHANGED <<row, files, spent>>
           \/ /\ ~ r.cancel
              /\ r.state \notin {"completed", "confirmed", "cancelled", "cleanup_pending"}
              /\ CheckLocal(w, r)
        /\ UNCHANGED <<retained, store, lock, commands>>

\* A file accepted earlier is looked up again before its local copy goes.
Recheck(w) ==
    LET t == w[2]
        r == row[t]
        p == r.rpath
        held == [r EXCEPT !.state = "verification_failed_retained", !.kind = "conflict",
                          !.verified = FALSE]
    IN  /\ pc[w] = "recheck"
        /\ \/ /\ Whole(p)
              /\ job' = [job EXCEPT ![w].goal = p]
              /\ Goto(w, "complete")
              /\ UNCHANGED <<row, files, spent>>
           \/ /\ Exists(p) /\ ~ Whole(p)
              /\ Put(t, held) /\ Goto(w, "idle")
              /\ UNCHANGED <<job, files, spent>>
           \/ /\ ~ Exists(p)
              /\ Copy(t) = "absent"
              /\ Put(t, IF r.mode = "stream"
                        THEN [r EXCEPT !.state = "queued", !.lpath = "none", !.verified = FALSE]
                        ELSE held)
              /\ Goto(w, "idle")
              /\ UNCHANGED <<job, files, spent>>
           \/ /\ ~ Exists(p)
              /\ Copy(t) # "absent"
              /\ CheckLocal(w, [r EXCEPT !.state = "waiting_upload", !.rpath = NoPath,
                                         !.final = NoPath, !.verified = FALSE])
        /\ UNCHANGED <<retained, store, lock, commands>>

-------------------------------------------------------------------------------
(* The scheduler *)

\* TaskDB.reserve clears an old failure; /stream and an oversized file stream.
StartDownload(t) ==
    /\ row[t].state = "queued" /\ ~ row[t].cancel /\ ~ Active(D(t))
    /\ Put(t, [row[t] EXCEPT !.state = "reserved", !.kind = "none",
                             !.mode = IF @ = "stream" \/ t \in Oversized
                                      THEN "stream" ELSE "local"])
    /\ Goto(D(t), "start")
    /\ UNCHANGED <<retained, files, store, job, lock, commands, spent>>

\* Only other uploads of the task are looked for, not its download.
StartUpload(t) ==
    /\ row[t].state \in {"cleanup_pending", "waiting_upload", "downloaded"}
    /\ ~ row[t].cancel /\ ~ Active(U(t))
    /\ Goto(U(t), "start")
    /\ UNCHANGED <<row, retained, files, store, job, lock, commands, spent>>

-------------------------------------------------------------------------------
(* Cancelled coroutines *)

Ended == {"cancelled", "completed", "confirmed", "cleanup_pending"}

\* Whether a CancelledError meets a handler: not before the first step of the
\* coroutine and not outside its try block.
Handles(w, r) ==
    pc[w] \notin {"idle", "start"} /\ ~ job[w].outside /\ r.state \notin Ended

Moved(r, s) == IF CanTransition(r.state, s) THEN [r EXCEPT !.state = s] ELSE r

\* The row r after worker w is cancelled.
Interrupted(w, r) ==
    IF ~ Handles(w, r) THEN r
    ELSE IF w[1] = "upload" THEN Moved(r, "waiting_upload")
    ELSE IF job[w].how = "local" /\ file[w[2]] = "whole"
    THEN IF CanTransition(r.state, "waiting_upload")
         THEN [r EXCEPT !.state = "waiting_upload", !.lpath = "file"] ELSE r
    ELSE IF CanTransition(r.state, "queued")
    THEN [r EXCEPT !.state = "queued", !.lpath = "none"] ELSE r

\* The partial download goes too, unless /cancel is going to remove it.
PartInterrupted(w, r) ==
    IF Handles(w, r) /\ w[1] = "download" /\ job[w].how = "local" /\ file[w[2]] # "whole"
       /\ ~ r.cancel
    THEN "absent" ELSE part[w[2]]

\* _enforce_disk_emergency cancels every running download.
DiskEmergency ==
    LET running == {t \in Tasks : Active(D(t))}
    IN  /\ running # {} /\ Spend("disk")
        /\ row' = [t \in Tasks |-> Interrupted(D(t), row[t])]
        /\ part' = [t \in Tasks |-> PartInterrupted(D(t), row[t])]
        /\ pc' = [w \in Workers |-> IF w[1] = "download" THEN "idle" ELSE pc[w]]
        /\ lock' = IF lock \in {D(t) : t \in Tasks} THEN NoWorker ELSE lock
        /\ \E ws \in SUBSET {D(t) : t \in running} : store' = Landed(ws)
        /\ UNCHANGED <<retained, file, job, commands>>

-------------------------------------------------------------------------------
(* Restarts: TaskDB.recover *)

\* Mutant: the rename is forgotten.
RecoverableButFinalizing ==
    {"reserved", "downloading", "downloaded", "waiting_upload", "uploading", "verifying",
     "streaming", "upload_failed_retained", "verification_failed_retained"}

Recoverable ==
    {"reserved", "downloading", "downloaded", "waiting_upload", "uploading", "verifying",
     "finalizing", "streaming", "upload_failed_retained", "verification_failed_retained"}

\* Mutant: a failure under review is recovered like any other.
OnlyCancelled(r) == r.state \notin Recoverable \/ r.cancel \/ r.kind = "refused"

\* A pending cancellation and a failure that waits for the user stay as they are.
LeftAlone(r) ==
    r.state \notin Recoverable \/ r.cancel \/ NeedsReview(r) \/ r.kind = "refused"

\* A complete local file decides, recorded or not; only then the partial
\* download is deleted, and `stuck` holds the tasks for which that fails.
Recovered(t, r, stuck) ==
    IF LeftAlone(r) THEN r
    ELSE IF r.mode = "stream"
    THEN [r EXCEPT !.state = "queued", !.lpath = "none", !.utries = 0]
    ELSE IF file[t] = "whole"
    THEN [r EXCEPT !.state = "waiting_upload", !.lpath = "file", !.utries = 0]
    ELSE IF r.state \in FailedStates THEN Downloadable(r)
    ELSE IF t \in stuck THEN [r EXCEPT !.state = "download_failed"]
    ELSE [r EXCEPT !.state = "queued", !.lpath = "none", !.utries = 0,
                   !.dtries = IF t \in Listened THEN @ ELSE 0]

PartRecovered(t, r, p, stuck) ==
    IF LeftAlone(r) \/ r.mode = "stream" \/ file[t] = "whole" \/ r.state \in FailedStates
       \/ t \in stuck
    THEN p ELSE "absent"

\* The next process starts from the rows and parts the last one left.
Restart(rows, parts) ==
    /\ \E stuck \in SUBSET {t \in Tasks : parts[t] # "absent"} :
          /\ stuck = {} \/ spent["fault"] < Limit["fault"]
          /\ row' = [t \in Tasks |-> Recovered(t, rows[t], stuck)]
          /\ part' = [t \in Tasks |-> PartRecovered(t, rows[t], parts[t], stuck)]
    /\ \E ws \in SUBSET {w \in Workers : pc[w] \in {"move", "writing"}} : store' = Landed(ws)
    /\ pc' = [w \in Workers |-> "idle"]
    /\ job' = [w \in Workers |-> NewJob]
    /\ lock' = NoWorker
    /\ cancelling' = [t \in Tasks |-> "idle"]
    /\ purge' = [t \in Tasks |-> {}]
    /\ UNCHANGED <<retained, file>>

Crash == Spend("crash") /\ Restart(row, part)

\* service.stop cancels the downloads, then the uploads, and waits for both.
Stop ==
    /\ Spend("stop")
    /\ Restart([t \in Tasks |-> Interrupted(U(t), Interrupted(D(t), row[t]))],
               [t \in Tasks |-> PartInterrupted(D(t), row[t])])

-------------------------------------------------------------------------------
(* /cancel *)

\* Mutant: only the final object is cleaned up.
RecordedFinalOnly(r) == {r.final} \ {NoPath}

Recorded(r) == {r.temp, r.final, r.rpath} \ {NoPath}

\* Everything recorded is gone from the remote side: remove the local files
\* and end the task.  A file that cannot be deleted leaves the intent pending.
\* `used` is the event budget spent so far in the step.
EndCancel(t, r, used) ==
    LET cleared == IF r.lpath = "file" THEN [file EXCEPT ![t] = "absent"] ELSE file
    IN  \/ /\ file' = cleared
           /\ part' = [part EXCEPT ![t] = "absent"]
           /\ Put(t, IF CanTransition(r.state, "cancelled")
                     THEN [r EXCEPT !.state = "cancelled", !.lpath = "none", !.rpath = NoPath,
                                    !.temp = NoPath, !.final = NoPath, !.cancel = FALSE]
                     ELSE r)
           /\ spent' = used
        \/ /\ used["fault"] < Limit["fault"]
           /\ \/ cleared # file /\ UNCHANGED file
              \/ part[t] # "absent" /\ file' = cleared
           /\ Put(t, r)
           /\ spent' = [used EXCEPT !["fault"] = @ + 1]
           /\ UNCHANGED part

\* The row is read again once the running coroutine has ended.
SettleCancel(t, r, used) ==
    \/ /\ NeedsReview(r) \/ r.state \in Ended
       /\ Put(t, [r EXCEPT !.cancel = FALSE])
       /\ cancelling' = [cancelling EXCEPT ![t] = "idle"]
       /\ spent' = used
       /\ UNCHANGED <<files, purge>>
    \/ /\ ~ NeedsReview(r) /\ r.state \notin Ended /\ Recorded(r) = {}
       /\ EndCancel(t, r, used)
       /\ cancelling' = [cancelling EXCEPT ![t] = "idle"]
       /\ UNCHANGED purge
    \/ /\ ~ NeedsReview(r) /\ r.state \notin Ended /\ Recorded(r) # {}
       /\ Put(t, r)
       /\ cancelling' = [cancelling EXCEPT ![t] = "purging"]
       /\ purge' = [purge EXCEPT ![t] = Recorded(r)]
       /\ spent' = used
       /\ UNCHANGED files

\* `running = download_tasks.get(id) or upload_tasks.get(id)`: one of the two.
CancelRunning(t, r, used) ==
    LET w == IF Active(D(t)) THEN D(t) ELSE U(t)
    IN  /\ Active(D(t)) \/ Active(U(t))
        /\ Put(t, Interrupted(w, r))
        /\ part' = [part EXCEPT ![t] = PartInterrupted(w, r)]
        /\ store' \in {store, Landed({w})}
        /\ Goto(w, "idle")
        /\ Unlock(w)
        /\ cancelling' = [cancelling EXCEPT ![t] = "asked"]
        /\ spent' = used
        /\ UNCHANGED <<file, purge>>

\* The intent is recorded first.  With nothing running there is no await
\* before the row is read again.
CancelAsk(t) ==
    LET asked == [row[t] EXCEPT !.cancel = TRUE]
        used == [spent EXCEPT !["cancel"] = @ + 1]
    IN  /\ cancelling[t] = "idle" /\ spent["cancel"] < Limit["cancel"]
        /\ ~ NeedsReview(row[t]) /\ row[t].state \notin Ended
        /\ \/ CancelRunning(t, asked, used)
           \/ /\ ~ Active(D(t)) /\ ~ Active(U(t))
              /\ SettleCancel(t, asked, used)
              /\ UNCHANGED <<store, pc, lock>>
        /\ UNCHANGED <<retained, job>>

CancelSettle(t) ==
    /\ cancelling[t] = "asked"
    /\ SettleCancel(t, row[t], spent)
    /\ UNCHANGED <<retained, store, pc, job, lock>>

\* Each recorded remote object is removed and looked up again.
CancelPurge(t) ==
    /\ cancelling[t] = "purging"
    /\ \E p \in purge[t] :
          /\ store' = [store EXCEPT ![p] = Absent]
          /\ purge' = [purge EXCEPT ![t] = @ \ {p}]
          /\ IF purge[t] = {p}
             THEN /\ EndCancel(t, row[t], spent)
                  /\ cancelling' = [cancelling EXCEPT ![t] = "idle"]
             ELSE UNCHANGED <<row, files, cancelling, spent>>
    /\ UNCHANGED <<retained, pc, job, lock>>

CancelPurgeFails(t) ==
    /\ cancelling[t] = "purging"
    /\ Spend("fault")
    /\ cancelling' = [cancelling EXCEPT ![t] = "idle"]
    /\ purge' = [purge EXCEPT ![t] = {}]
    /\ UNCHANGED <<row, retained, files, store, pc, job, lock>>

-------------------------------------------------------------------------------
(* Recovery commands *)

\* TaskDB.requeue keeps a complete local copy and records the recovery.
Requeued(t, r) ==
    LET complete == r.lpath = "file" /\ file[t] = "whole"
    IN  [r EXCEPT !.state = IF complete THEN "waiting_upload" ELSE "queued",
                  !.lpath = IF complete THEN "file" ELSE "none", !.kind = "none",
                  !.verified = FALSE, !.dtries = 0, !.utries = 0, !.gen = @ + 1]

Unattended(t) == cancelling[t] = "idle" /\ ~ Active(D(t)) /\ ~ Active(U(t))

\* /retry also withdraws a cancellation that never finished.
Retry(t) ==
    LET asked == [row[t] EXCEPT !.cancel = FALSE]
        r == IF row[t].cancel THEN Recovered(t, asked, {}) ELSE row[t]
    IN  /\ Unattended(t) /\ ~ NeedsReview(row[t])
        /\ row[t].cancel \/ r.state \in FailedStates
        /\ Spend("command")
        /\ IF r.state \notin FailedStates THEN Put(t, r)
           ELSE r.gen < MaxRecoveries /\ Put(t, Requeued(t, r))
        /\ part' = [part EXCEPT ![t] = IF row[t].cancel THEN PartRecovered(t, asked, @, {}) ELSE @]
        /\ UNCHANGED <<retained, file, store, pc, job, lock, commands>>

\* /recover and /restart, once confirmed: the recorded remote objects are
\* protected from now on and the task gets new names.
RecoverFresh(t) ==
    LET r == row[t]
    IN  /\ Unattended(t) /\ r.state \in FailedStates \cup {"cancelled"} /\ ~ r.cancel
        /\ r.gen < MaxRecoveries
        /\ Spend("command")
        /\ retained' = retained \cup Recorded(r)
        /\ Put(t, [Requeued(t, r) EXCEPT !.temp = NoPath, !.final = NoPath, !.rpath = NoPath])
        /\ UNCHANGED <<files, store, pc, job, lock, commands>>

\* /stream: neither the recorded paths nor the failure kind are cleared.
RequestStream(t) ==
    LET r == row[t]
    IN  /\ r.state \in {"queued", "download_failed"} /\ ~ r.cancel /\ r.lpath = "none"
        /\ Spend("command")
        /\ Put(t, [r EXCEPT !.state = "queued", !.mode = "stream", !.dtries = 0, !.utries = 0])
        /\ UNCHANGED <<retained, files, store, pc, job, lock, commands>>

Confirm(t) ==
    /\ row[t].state = "completed"
    /\ Spend("command")
    /\ Put(t, [row[t] EXCEPT !.state = "confirmed"])
    /\ UNCHANGED <<retained, files, store, pc, job, lock, commands>>

-------------------------------------------------------------------------------
(* The world outside *)

\* A finished local file disappears or shrinks, except while rclone reads it.
LoseFile(t) ==
    /\ file[t] = "whole" /\ pc[U(t)] \notin {"write", "writing"}
    /\ Spend("loss")
    /\ \E left \in {"absent", "short"} : file' = [file EXCEPT ![t] = left]
    /\ UNCHANGED <<row, retained, part, store, pc, job, lock, commands>>

\* An accepted object changes before the local copy is cleaned up.
Drift(t) ==
    /\ row[t].state = "cleanup_pending" /\ ~ Active(D(t)) /\ ~ Active(U(t))
    /\ Exists(row[t].rpath)
    /\ Spend("drift")
    /\ \E left \in {Absent, Object(t, FALSE)} : store' = [store EXCEPT ![row[t].rpath] = left]
    /\ UNCHANGED <<row, retained, files, pc, job, lock, commands>>

-------------------------------------------------------------------------------
(* The specification *)

DownloadStep(t) ==
    \/ DownloadBegin(t) \/ DownloadRetry(t) \/ DownloadArrives(t) \/ DownloadError(t)
    \/ DownloadRefused(t)

RemoteStep(w) ==
    \/ Resume(w) \/ ResumeTemp(w) \/ StreamHead(w) \/ TakeLock(w) \/ ChooseFinal(w)
    \/ ReuseFinal(w) \/ WriteStarts(w) \/ WriteEnds(w) \/ Verify(w) \/ MoveToFinal(w)
    \/ FinalCheck(w) \/ Receive(w) \/ RemoteRetry(w) \/ Notified(w)
    \/ RemoteError(w) \/ StreamError(w) \/ StreamRefused(w)

UploadStep(t) == UploadBegin(t) \/ Recheck(U(t))

\* The rest of a stretch without an await.
SynchronousStep(w) ==
    \/ DownloadRename(w[2]) \/ DownloadRenameFails(w[2]) \/ DownloadRecord(w[2])
    \/ Clean(w) \/ CleanFails(w) \/ Complete(w)

CancelStep(t) == CancelSettle(t) \/ CancelPurge(t) \/ CancelPurgeFails(t)

Command(t) == CancelAsk(t) \/ Retry(t) \/ RecoverFresh(t) \/ RequestStream(t) \/ Confirm(t)

Yielded == \A w \in Workers : pc[w] \notin Synchronous

\* A created coroutine runs in the next round of the event loop; the other
\* worker of the task takes at most the step it was already waiting for.
Peer(w) == IF w[1] = "download" THEN U(w[2]) ELSE D(w[2])
Turn(w) == Yielded /\ (pc[Peer(w)] = "start" => pc[w] \in {"start", "backoff", "notify"})

Next ==
    \/ \E w \in Workers : SynchronousStep(w)
    \/ Crash
    \/ \E w \in Workers : Turn(w) /\ RemoteStep(w)
    \/ \E t \in Tasks :
          \/ Turn(D(t)) /\ (DownloadStep(t) \/ StartDownload(t))
          \/ Turn(U(t)) /\ (UploadStep(t) \/ StartUpload(t))
    \/ /\ Yielded
       /\ \/ \E t \in Tasks : CancelStep(t) \/ Command(t) \/ LoseFile(t) \/ Drift(t)
          \/ DiskEmergency
          \/ Stop

Spec == Init /\ [][Next]_vars

\* The event loop runs every ready coroutine, rclone calls and downloads have
\* timeouts, the lock queue is fair, and the scheduler looks at every task once
\* a second; nothing is assumed about failures or users.
Fairness ==
    /\ \A w \in Workers :
          /\ WF_vars(SynchronousStep(w))
          /\ WF_vars(Turn(w) /\ RemoteStep(w) /\ pc[w] # "lock")
          /\ SF_vars(Turn(w) /\ TakeLock(w))
    /\ \A t \in Tasks :
          /\ WF_vars(Turn(D(t)) /\ DownloadStep(t))
          /\ WF_vars(Turn(U(t)) /\ UploadStep(t))
          /\ WF_vars(Yielded /\ CancelStep(t))
          /\ WF_vars(Turn(D(t)) /\ StartDownload(t))
          /\ WF_vars(Turn(U(t)) /\ StartUpload(t))

FairSpec == Spec /\ Fairness

-------------------------------------------------------------------------------
(* Properties *)

\* A complete local file goes only when the user cancels the task, when somebody
\* else deletes it, or when the task's own complete object is stored under the
\* recorded path (_complete_cloud_receive persists the receipt before unlink).
ReceiptBeforeRemoval ==
    [][\A t \in Tasks :
          file[t] = "whole" /\ file'[t] # "whole" =>
             \/ spent'["loss"] > spent["loss"]
             \/ row[t].cancel \/ spent'["cancel"] > spent["cancel"]
             \/ /\ row[t].state = "cleanup_pending" /\ row[t].verified
                /\ row[t].rpath # NoPath
                /\ store[row[t].rpath] = Object(t, TRUE)]_vars

\* The part of it that no race between coroutines can break: the receipt is on
\* record (cleanup_pending, verified) before the file goes, whoever runs.
RemovalNeedsReceipt ==
    [][\A t \in Tasks :
          file[t] = "whole" /\ file'[t] # "whole" =>
             \/ spent'["loss"] > spent["loss"]
             \/ row[t].cancel \/ spent'["cancel"] > spent["cancel"]
             \/ row[t].state = "cleanup_pending" /\ row[t].verified]_vars

\* A task reported as received has its own complete object at the recorded path.
CompletedIsStored ==
    \A t \in Tasks :
       row[t].state \in {"completed", "confirmed"} =>
          row[t].rpath # NoPath /\ store[row[t].rpath] = Object(t, TRUE)

\* No write, move, cleanup or cancellation touches an object of somebody else
\* (_choose_remote_final, remote_claimed and the lock keep names apart).
NoForeignOverwrite ==
    [][\A p \in Paths :
          store[p].by # "nobody" => store'[p].by \in {store[p].by, "nobody"}
                                    /\ (store[p].by = "foreign" => store'[p] = store[p])]_vars

\* What a recovery left behind for the user to inspect is never written,
\* moved or removed again (retained_objects).
RetainedNeverTouched ==
    [][\A p \in retained : p \in retained' /\ store'[p] = store[p]]_vars

\* Two live tasks never record the same final name: the claim is re-read
\* under _finalize_lock although the look-up in between is awaited.
UniqueClaim ==
    \A t, u \in Tasks :
       t # u /\ row[t].final # NoPath => row[t].final # row[u].final

\* A task held for review leaves its failed state only by a user's command:
\* needs_review stops recover, /retry and /cancel alike.
HeldUntilRecover ==
    [][\A t \in Tasks :
          NeedsReview(row[t]) /\ row[t].state \in FailedStates /\ row'[t].state \notin FailedStates
             => spent'["command"] > spent["command"]]_vars

\* A cancelled task that nobody works on left nothing of its own behind,
\* except what an earlier recovery retained.
CancelledIsClean ==
    \A t \in Tasks :
       row[t].state = "cancelled" =>
          /\ part[t] = "absent" /\ file[t] # "whole"
          /\ \A p \in Paths \ retained : store[p].by # t

\* A task in flight has a coroutine, or a cancellation waits to be finished.
InFlightHasWorker ==
    \A t \in Tasks :
       row[t].state \in {"reserved", "downloading", "streaming", "uploading", "verifying",
                         "finalizing"}
          => Active(D(t)) \/ Active(U(t)) \/ row[t].cancel

\* Once failures and commands stop, every task ends or waits for the user.
Settled(t) ==
    \/ row[t].state \in {"completed", "confirmed", "cancelled"} \cup FailedStates
    \/ row[t].cancel
Settles == \A t \in Tasks : <>[]Settled(t)

-------------------------------------------------------------------------------
(* The promise *)

\* What a state of a row means to its user: cleanup_pending has its receipt.
Fate(t) ==
    CASE row[t].state = "cleanup_pending" -> "accepted"
      [] row[t].state \in {"completed", "confirmed"} -> "received"
      [] row[t].state = "cancelled" -> "withdrawn"
      [] OTHER -> "open"

\* What a receipt stands for.
StoredWhole(t) == row[t].rpath # NoPath /\ store[row[t].rpath] = Object(t, TRUE)

\* What a finished cancellation should have removed.
Remains(t) == part[t] # "absent" \/ \E p \in Paths \ retained : store[p].by = t

Promise == INSTANCE Delivery WITH
    fate <- [t \in Tasks |-> Fate(t)],
    asked <- [t \in Tasks |-> row[t].cancel],
    copy <- [t \in Tasks |-> file[t] = "whole"],
    stored <- [t \in Tasks |-> StoredWhole(t)],
    left <- [t \in Tasks |-> Remains(t)],
    world <- spent

\* Seen task by task, the pipeline is the machine of Delivery: a task is accepted
\* with its whole object stored (_complete_cloud_receive), only then is its copy
\* given up, it is received with the object still there and keeps it, and what the
\* user asked to withdraw (/cancel) is neither stored behind his back nor ends
\* with anything left, over all retries, restarts (TaskDB.recover) and commands.
DeliversAsPromised == Promise!Spec

===============================================================================
