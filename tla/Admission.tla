------------------------------- MODULE Admission -------------------------------
(***************************************************************************)
(* Who may transfer now: the scheduler's two rounds (_start_uploads, then  *)
(* _start_downloads), TaskDB.reserve and admit_upload, the member quotas   *)
(* with their trigger, over the disk, the two windows and one member's     *)
(* limits.  How a transfer goes is TransferPipeline's subject; here it is  *)
(* the states that are counted, the bytes on disk and the bytes reported.  *)
(*                                                                         *)
(* Verifying and finalizing count as uploading or streaming; /cancel and a *)
(* restart are one step.  The rounds may stand still at any time (a stale  *)
(* sample, a destination that is not ready).                               *)
(***************************************************************************)
EXTENDS Integers, FiniteSets

CONSTANTS
    Tasks,       \* tasks of one member
    Size,        \* file_size of each task
    Capacity,    \* disk space the Bot's files share
    MinFree,     \* min_free_disk_bytes
    LocalBudget, \* local_budget_bytes
    DownWindow, UpWindow, \* the windows, at rest
    Limits,      \* possible member_quotas rows: daily, queued, active; 0: none
    MaxMishaps   \* bound: failures, commands, restarts

ASSUME AdmissionAssumption ==
    /\ IsFiniteSet(Tasks) /\ Size \in [Tasks -> Nat \ {0}] /\ MinFree <= Capacity
    /\ {Capacity, MinFree, LocalBudget, DownWindow, UpWindow, MaxMishaps} \subseteq Nat
    /\ Limits \subseteq [daily : Nat, queued : Nat, active : Nat]

VARIABLES
    row,      \* state, transfer_mode, downloaded_bytes, quota_ledger
    bytes,    \* of the task on disk
    loading,  \* download_tasks
    sending,  \* upload_tasks
    slots,    \* quota_slots
    turn,     \* where the scheduler is
    batch,    \* the rows it has read: mode per task, or none
    room,     \* its available_slots
    paused,
    limit,
    mishaps

work == <<row, bytes, loading, sending, slots>>
round == <<turn, batch, room>>
rest == <<paused, limit, mishaps>>
admissionVars == <<work, round, rest>>

Growing == {"reserved", "downloading"}
ActiveStates == Growing \cup {"streaming", "uploading"}
Local == Growing \cup {"waiting_upload", "uploading", "cleanup_pending", "retained"}
RowStates == Local \cup {"none", "queued", "streaming", "download_failed", "completed", "cancelled"}
NotRead == [t \in Tasks |-> "none"]

AdmissionTypeOK ==
    /\ row \in [Tasks -> [state : RowStates, mode : {"local", "stream"}, told : Nat,
                          ledger : {"none", "held", "today", "before", "released"}]]
    /\ \A t \in Tasks : row[t].told \in 0..Size[t] /\ bytes[t] \in 0..Size[t]
    /\ loading \subseteq Tasks /\ sending \subseteq Tasks /\ slots \subseteq Tasks
    /\ turn \in {"uploads", "uploadsRead", "sends", "downloads", "downloadsRead", "reserves"}
    /\ batch \in [Tasks -> {"none", "local", "stream"}] /\ room \in 0..(DownWindow + UpWindow)
    /\ paused \in BOOLEAN /\ limit \in Limits /\ mishaps \in 0..MaxMishaps

AdmissionInit ==
    /\ row = [t \in Tasks |-> [state |-> "none", mode |-> "local", told |-> 0, ledger |-> "none"]]
    /\ bytes = [t \in Tasks |-> 0] /\ loading = {} /\ sending = {} /\ slots = {}
    /\ turn = "uploads" /\ batch = NotRead /\ room = 0
    /\ paused = FALSE /\ limit \in Limits /\ mishaps = 0

-------------------------------------------------------------------------------
In(S) == {t \in Tasks : row[t].state \in S}
\* The sum of a number of bytes over tasks: one element for each byte.
Units(n, S) == UNION {{t} \X (1..n[t]) : t \in S}
Total(n, S) == Cardinality(Units(n, S))
FreeDisk == Capacity - Total(bytes, Tasks)

ToReport == [t \in Tasks |-> Size[t] - row[t].told]

\* Mutant: a reserved row that has not begun to grow is not counted.
StillToCome == Total(ToReport, {t \in In({"downloading"}) : row[t].mode = "local"})

PendingGrowth == Total(ToReport, {t \in In(Growing) : row[t].mode = "local"})
UsedLocal == Total(Size, {t \in In(Local) : row[t].mode = "local"})
StreamCount == Cardinality({t \in loading : row[t].mode = "stream"})

\* Mutant: a slot that was handed out counts only once the upload has begun.
ActiveByState == In(ActiveStates)

ActiveTasks == In(ActiveStates) \cup slots
SlotAvailable(t) == limit.active # 0 => Cardinality(ActiveTasks \ {t}) < limit.active

HoldsLedger(t) == row[t].ledger \in {"held", "today", "before"}
Charged == Total(Size, {t \in Tasks : row[t].ledger \in {"held", "today"}})

\* quotas.admit
Admits(t) ==
    /\ limit.daily # 0 /\ ~ HoldsLedger(t) => Charged + Size[t] <= limit.daily
    /\ limit.queued # 0 => Cardinality(In({"queued", "waiting_upload"})) < limit.queued

\* The trigger on tasks.state: what an unfinished task still reserves.
Held(l, s) == IF l \in {"today", "before"} THEN l
              ELSE IF s = "cancelled" THEN "released" ELSE "held"

Ledger(t, s) == IF s = "cleanup_pending" /\ row[t].ledger # "before" THEN "today"
                ELSE Held(row[t].ledger, s)

\* A write of the state, with the trigger.
Sets(t, s, mode, told) ==
    /\ row' = [row EXCEPT ![t] = [state |-> s, mode |-> mode, told |-> told, ledger |-> Ledger(t, s)]]
    /\ slots' = IF s \in ActiveStates THEN slots ELSE slots \ {t}

Moves(t, s) == Sets(t, s, row[t].mode, row[t].told)
Quiet == UNCHANGED <<round, paused, limit, mishaps>>
Mishap == mishaps < MaxMishaps /\ mishaps' = mishaps + 1 /\ UNCHANGED <<round, paused, limit>>

\* The loops of the two rounds do not await: nothing else runs meanwhile.
Others == turn \notin {"sends", "reserves"}

-------------------------------------------------------------------------------
(* The scheduler *)

\* Mutant: the upload round forgets the streams.
RoomBesideUploads == UpWindow - Cardinality(sending)

UploadRoom == UpWindow - Cardinality(sending) - StreamCount

ReadUploads ==
    /\ turn = "uploads"
    /\ IF UploadRoom <= 0
       THEN turn' = "downloads" /\ UNCHANGED <<batch, room>>
       ELSE /\ turn' = "uploadsRead" /\ room' = UploadRoom
            /\ batch' = [t \in Tasks |->
                 IF row[t].state \in {"cleanup_pending"} \cup (IF paused THEN {} ELSE {"waiting_upload"})
                 THEN row[t].mode ELSE "none"]
    /\ UNCHANGED <<work, rest>>

\* After the sleep(0).
Resumes(from, to) ==
    /\ turn = from /\ turn' = to
    /\ UNCHANGED <<work, batch, room, rest>>

RoundEnds(from, to) ==
    /\ turn = from
    /\ turn' = to /\ batch' = NotRead /\ room' = 0
    /\ UNCHANGED <<work, rest>>

\* admit_upload: a clean-up needs no slot.
Sends(t) ==
    /\ turn = "sends" /\ room > 0 /\ batch[t] # "none" /\ t \notin sending
    /\ row[t].state \in {"cleanup_pending", "waiting_upload"}
    /\ row[t].state = "waiting_upload" => ~ paused /\ SlotAvailable(t)
    /\ slots' = IF row[t].state = "waiting_upload" THEN slots \cup {t} ELSE slots
    /\ sending' = sending \cup {t}
    /\ room' = room - 1 /\ batch' = [batch EXCEPT ![t] = "none"]
    /\ UNCHANGED <<row, bytes, loading, turn, rest>>

ReadDownloads ==
    /\ turn = "downloads"
    /\ IF paused \/ FreeDisk <= MinFree \/ DownWindow <= Cardinality(loading)
       THEN turn' = "uploads" /\ UNCHANGED <<batch, room>>
       ELSE /\ turn' = "downloadsRead" /\ room' = DownWindow - Cardinality(loading)
            /\ batch' = [t \in Tasks |-> IF row[t].state = "queued" THEN row[t].mode ELSE "none"]
    /\ UNCHANGED <<work, rest>>

AsStream(t) == row[t].mode = "stream" \/ Size[t] > LocalBudget

\* The check before reserve goes by the row as it was read.
StreamRoom(t) ==
    batch[t] = "stream" \/ Size[t] > LocalBudget => Cardinality(sending) + StreamCount < UpWindow

Fits(t) ==
    /\ UsedLocal + Size[t] <= LocalBudget
    /\ FreeDisk >= PendingGrowth + Size[t] + MinFree

\* One task of the loop is admitted; those that are refused only get their
\* reason.
Reserves(t) ==
    /\ turn = "reserves" /\ ~ paused /\ room > 0 /\ batch[t] # "none" /\ t \notin loading
    /\ StreamRoom(t)
    /\ row[t].state = "queued" /\ SlotAvailable(t)
    /\ IF AsStream(t) THEN FreeDisk > MinFree ELSE Fits(t)
    /\ Sets(t, "reserved", IF AsStream(t) THEN "stream" ELSE "local", row[t].told)
    /\ loading' = loading \cup {t}
    /\ room' = room - 1 /\ batch' = [batch EXCEPT ![t] = "none"]
    /\ UNCHANGED <<bytes, sending, turn, rest>>

-------------------------------------------------------------------------------
(* What the coroutines do to the counted state *)

\* An attempt: the old .part file goes, the row starts from zero.
Attempts(t) ==
    /\ Others /\ t \in loading /\ row[t].state \in Growing
    /\ IF row[t].mode = "stream" THEN Moves(t, "streaming") /\ UNCHANGED bytes
       ELSE /\ Sets(t, "downloading", "local", 0)
            /\ bytes' = [bytes EXCEPT ![t] = 0]
    /\ row[t].state = "reserved" \/ bytes[t] # 0
    /\ Quiet /\ UNCHANGED <<loading, sending>>

\* The report of what has arrived is throttled.
Receives(t) ==
    /\ Others /\ t \in loading /\ row[t].state = "downloading" /\ bytes[t] < Size[t]
    /\ bytes' = [bytes EXCEPT ![t] = @ + 1]
    /\ \E n \in {row[t].told, bytes[t] + 1} : row' = [row EXCEPT ![t].told = n]
    /\ Quiet /\ UNCHANGED <<loading, sending, slots>>

Arrives(t) ==
    /\ Others /\ t \in loading /\ row[t].state = "downloading" /\ bytes[t] = Size[t]
    /\ Sets(t, "waiting_upload", "local", Size[t])
    /\ Quiet /\ UNCHANGED <<bytes, loading, sending>>

\* Out of attempts, or interrupted.
LoadStops(t) ==
    /\ Others /\ t \in loading /\ row[t].state \in Growing \cup {"streaming"}
    /\ Mishap
    /\ \/ Moves(t, "download_failed")
       \/ Sets(t, "queued", row[t].mode, 0)
    /\ bytes' = [bytes EXCEPT ![t] = 0]
    /\ UNCHANGED <<loading, sending>>

LoadEnds(t) ==
    /\ Others /\ t \in loading /\ row[t].state \notin Growing \cup {"streaming"}
    /\ row[t].mode = "stream" => row[t].state # "cleanup_pending"
    /\ loading' = loading \ {t}
    /\ Quiet /\ UNCHANGED <<row, bytes, sending, slots>>

Uploads(t) ==
    /\ Others /\ t \in sending /\ row[t].state = "waiting_upload"
    /\ Moves(t, "uploading")
    /\ Quiet /\ UNCHANGED <<bytes, loading, sending>>

\* Received and verified: from here on the task is charged.
Verified(t) ==
    /\ Others
    /\ \/ t \in sending /\ row[t].state = "uploading"
       \/ t \in loading /\ row[t].state = "streaming"
    /\ Moves(t, "cleanup_pending")
    /\ Quiet /\ UNCHANGED <<bytes, loading, sending>>

Cleans(t) ==
    /\ Others /\ row[t].state = "cleanup_pending"
    /\ t \in IF row[t].mode = "stream" THEN loading \cup sending ELSE sending
    /\ bytes' = [bytes EXCEPT ![t] = 0] /\ Moves(t, "completed")
    /\ Quiet /\ UNCHANGED <<loading, sending>>

\* The file cannot be removed, or the look at the object fails.
CleanFails(t) ==
    /\ Others /\ row[t].state = "cleanup_pending" /\ t \in loading \cup sending
    /\ Mishap
    /\ loading' = loading \ {t} /\ sending' = sending \ {t}
    /\ UNCHANGED <<row, bytes, slots>>

\* The object is gone when the clean-up looks again: the same coroutine goes
\* back to the upload, without a slot; a stream starts over.
ObjectGone(t) ==
    /\ Others /\ t \in sending /\ row[t].state = "cleanup_pending"
    /\ Mishap
    /\ IF bytes[t] = Size[t] THEN Moves(t, "waiting_upload")
       ELSE IF row[t].mode = "stream" THEN Sets(t, "queued", "stream", 0) ELSE Moves(t, "retained")
    /\ UNCHANGED <<bytes, loading, sending>>

UploadStops(t) ==
    /\ Others /\ t \in sending /\ row[t].state \in {"waiting_upload", "uploading"}
    /\ Mishap
    /\ \/ Moves(t, "retained") /\ UNCHANGED sending
       \/ Moves(t, "waiting_upload") /\ sending' = sending \ {t}
    /\ UNCHANGED <<bytes, loading>>

UploadEnds(t) ==
    /\ Others /\ t \in sending
    /\ row[t].state \in {"retained", "completed", "cancelled", "queued"}
    /\ sending' = sending \ {t}
    /\ Quiet /\ UNCHANGED <<row, bytes, loading, slots>>

-------------------------------------------------------------------------------
(* Commands *)

\* create_task
Submits(t) ==
    /\ Others /\ row[t].state = "none" /\ Admits(t)
    /\ Moves(t, "queued")
    /\ Quiet /\ UNCHANGED <<bytes, loading, sending>>

\* requeue: /retry, and the restart of a cancelled task.
Requeues(t) ==
    /\ Others /\ row[t].state \in {"download_failed", "retained", "cancelled"}
    /\ t \notin loading \cup sending /\ Admits(t) /\ Mishap
    /\ IF bytes[t] = Size[t] THEN Sets(t, "waiting_upload", row[t].mode, Size[t])
                             ELSE Sets(t, "queued", row[t].mode, 0)
    /\ UNCHANGED <<bytes, loading, sending>>

\* /stream
RequestsStream(t) ==
    /\ Others /\ row[t].state \in {"queued", "download_failed"} /\ row[t].mode = "local" /\ Mishap
    /\ Sets(t, "queued", "stream", 0)
    /\ UNCHANGED <<bytes, loading, sending>>

Cancels(t) ==
    /\ Others /\ row[t].state \notin {"none", "completed", "cancelled"} /\ Mishap
    /\ Moves(t, "cancelled")
    /\ bytes' = [bytes EXCEPT ![t] = 0]
    /\ loading' = loading \ {t} /\ sending' = sending \ {t}

Pauses ==
    /\ Others /\ mishaps < MaxMishaps /\ mishaps' = mishaps + 1
    /\ paused' = ~ paused
    /\ UNCHANGED <<work, round, limit>>

NewDay ==
    /\ Others /\ Mishap
    /\ row' = [t \in Tasks |-> [row[t] EXCEPT !.ledger = IF @ = "today" THEN "before" ELSE @]]
    /\ UNCHANGED <<bytes, loading, sending, slots>>

\* recover() at the next start.
Recovered(t) ==
    CASE row[t].state \in Growing \cup {"streaming", "uploading", "waiting_upload", "retained"} ->
            IF row[t].mode = "local" /\ bytes[t] = Size[t] /\ row[t].state \notin Growing
            THEN [row[t] EXCEPT !.state = "waiting_upload"]
            ELSE [row[t] EXCEPT !.state = "queued", !.told = 0]
      [] OTHER -> row[t]

Restarts ==
    /\ mishaps < MaxMishaps /\ mishaps' = mishaps + 1
    /\ row' = [t \in Tasks |-> Recovered(t)]
    /\ bytes' = [t \in Tasks |-> IF Recovered(t).state = "queued" THEN 0 ELSE bytes[t]]
    /\ loading' = {} /\ sending' = {} /\ slots' = {}
    /\ turn' = "uploads" /\ batch' = NotRead /\ room' = 0
    /\ UNCHANGED <<paused, limit>>

AdmissionNext ==
    \/ ReadUploads \/ ReadDownloads
    \/ Resumes("uploadsRead", "sends") \/ Resumes("downloadsRead", "reserves")
    \/ RoundEnds("sends", "downloads") \/ RoundEnds("reserves", "uploads")
    \/ \E t \in Tasks :
          \/ Sends(t) \/ Reserves(t) \/ Attempts(t) \/ Receives(t) \/ Arrives(t) \/ LoadStops(t)
          \/ LoadEnds(t) \/ Uploads(t) \/ Verified(t) \/ Cleans(t) \/ CleanFails(t) \/ ObjectGone(t)
          \/ UploadStops(t) \/ UploadEnds(t) \/ Submits(t) \/ Requeues(t) \/ RequestsStream(t)
          \/ Cancels(t)
    \/ Pauses \/ NewDay \/ Restarts

AdmissionSpec == AdmissionInit /\ [][AdmissionNext]_admissionVars

-------------------------------------------------------------------------------
(* Properties *)

\* The disk is never promised twice: what every admitted download may still
\* write leaves the safety line free, and the budget holds all local files.
NoOvercommit ==
    /\ FreeDisk >= MinFree
         + Total([t \in Tasks |-> Size[t] - bytes[t]], {t \in In(Growing) : row[t].mode = "local"})
    /\ UsedLocal <= LocalBudget

\* A member's tasks never hold more than his slots, over all phases (only an
\* upload repeated from a clean-up runs without one), and what he has used
\* today and still reserves stays within his day.
WithinLimits ==
    /\ limit.active # 0 =>
           Cardinality(ActiveTasks \ {t \in In({"uploading"}) : t \notin slots}) <= limit.active
    /\ limit.daily # 0 => Charged <= limit.daily

\* Both hold at every moment: the server's disk and the member's limits, admitted in one
\* transaction each (reserve, admit).
WithinBudgets == NoOvercommit /\ WithinLimits

\* An upload, or a stream that was read as one, starts only when uploads and
\* streams together leave room in the upload window.
WindowShared ==
    [][\A t \in Tasks :
          \/ t \in sending' \ sending
          \/ t \in loading' \ loading /\ row'[t].mode = "stream" /\ batch[t] = "stream"
          => Cardinality(sending)
               + Cardinality({x \in loading : row[x].mode = "stream" /\ row[x].state # "queued"})
                  < UpWindow]_admissionVars

===============================================================================
