------------------------------ MODULE TaskStates ------------------------------
(***************************************************************************)
(* The persisted life of one transfer task: the sixteen states of          *)
(* domain/states.py, the edges TaskDB.transition accepts and the state     *)
(* classes the other modules count by.                                     *)
(***************************************************************************)

States ==
    {"queued", "reserved", "downloading", "streaming", "downloaded", "waiting_upload",
     "uploading", "verifying", "finalizing", "cleanup_pending", "completed", "confirmed",
     "download_failed", "upload_failed_retained", "verification_failed_retained",
     "cancelled"}

\* States whose local file counts against the local budget.
LocalStates ==
    {"reserved", "downloading", "downloaded", "waiting_upload", "uploading", "verifying",
     "finalizing", "cleanup_pending", "upload_failed_retained",
     "verification_failed_retained"}

\* States whose local file may still grow.
GrowingStates == {"reserved", "downloading"}

FailedStates ==
    {"download_failed", "upload_failed_retained", "verification_failed_retained"}

LegalTransitions ==
    [s \in States |->
        CASE s = "queued" -> {"reserved", "cancelled"}
          [] s = "reserved" ->
                {"downloading", "streaming", "finalizing", "cleanup_pending", "queued",
                 "download_failed", "cancelled"}
          [] s = "downloading" ->
                {"downloaded", "waiting_upload", "queued", "download_failed", "cancelled"}
          [] s = "downloaded" ->
                {"downloading", "waiting_upload", "queued", "download_failed", "cancelled"}
          [] s = "waiting_upload" ->
                {"uploading", "finalizing", "cleanup_pending", "queued",
                 "upload_failed_retained", "verification_failed_retained", "cancelled"}
          [] s = "uploading" ->
                {"verifying", "finalizing", "cleanup_pending", "waiting_upload", "queued",
                 "upload_failed_retained", "verification_failed_retained", "cancelled"}
          [] s = "streaming" ->
                {"verifying", "finalizing", "cleanup_pending", "queued",
                 "download_failed", "cancelled"}
          [] s = "verifying" ->
                {"uploading", "streaming", "finalizing", "cleanup_pending",
                 "waiting_upload", "queued", "cancelled"} \cup FailedStates
          [] s = "finalizing" ->
                {"uploading", "streaming", "cleanup_pending", "waiting_upload", "queued",
                 "cancelled"} \cup FailedStates
          [] s = "cleanup_pending" ->
                {"completed", "waiting_upload", "queued", "verification_failed_retained",
                 "cancelled"}
          [] s = "download_failed" -> {"queued", "cancelled"}
          [] s \in {"upload_failed_retained", "verification_failed_retained"} ->
                {"waiting_upload", "queued", "cancelled"}
          [] s = "completed" -> {"confirmed"}
          [] s = "confirmed" -> {}
          [] s = "cancelled" -> {"queued", "waiting_upload"}]

\* A self-transition is always accepted: a retry may refresh fields.
CanTransition(old, new) == old = new \/ new \in LegalTransitions[old]

===============================================================================
