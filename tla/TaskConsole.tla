------------------------------ MODULE TaskConsole ------------------------------
(***************************************************************************)
(* What a user may do to a task that has gone wrong, by commands and by    *)
(* buttons that stay on old messages: ask for a recovery or a cancellation *)
(* and confirm it, repair a page of listener failures, find and remove the *)
(* temporary objects nothing claims.  Handlers run concurrently with the   *)
(* attempts of the pipeline, which are one "active" state here             *)
(* (telegram/commands.py, transfer/actions.py, listening/management.py).   *)
(***************************************************************************)
EXTENDS Naturals

CONSTANTS
    Jobs,        \* the tasks
    Untouched,   \* no path, no plan
    MaxPresses   \* bound on the commands sent and buttons pressed

ASSUME ConsoleAssumption == MaxPresses \in Nat /\ Untouched \notin Jobs /\ Untouched \notin Jobs \X Nat

VARIABLES
    job,        \* the task rows; `at` is updated_at, `gen` the recoveries recorded
    staged,     \* the temporary objects on the WebDAV side
    retained,   \* retained_objects
    offered,    \* _recovery_confirmations
    asking,     \* _cancel_confirmations
    cards,      \* the messages with a button, each pressed once
    ending,     \* _cancelling, and how far the cancellation is
    repair,     \* retry_confirmed: the snapshots left and the one being read
    planned,    \* _orphan_cleanup_plan
    sweep,      \* the handler that scans or removes temporary objects
    presses     \* how much of MaxPresses is used; also numbers the tokens

consoleVars == <<job, staged, retained, offered, asking, cards, ending, repair, planned, sweep,
                 presses>>
handlers == <<ending, repair, sweep>>
confirmations == <<offered, asking, planned>>

-----------------------------------------------------------------------------
\* Mutant: every attempt of a task writes to the same temporary object.
SharedStaging(t, gen) == <<t, 0>>
\* The temporary object of an attempt carries the number of the task's last recovery.
StagingOf(t, gen) == <<t, gen>>

NoOffer == [token |-> 0, at |-> 0, rename |-> FALSE]
NoRepair == [left |-> {}, reads |-> Untouched]
NoPlan == [token |-> 0, objects |-> {}]
NoSweep == [at |-> "idle", wants |-> {}, listing |-> {}, cleared |-> {}, removes |-> Untouched]

EndedJob == {"done", "cancelled"}
Presses == presses < MaxPresses /\ presses' = presses + 1
Wrote(t, r) == job' = [job EXCEPT ![t] = [r EXCEPT !.at = @ + 1]]
\* A message with a button: the rows it shows, with their revisions.
Card(op, t, token, shown) == [op |-> op, of |-> t, token |-> token, shown |-> shown]
Row(t) == <<t, job[t].at>>
\* A press replaces the message it was on.
Replaces(card, new) == cards' = (cards \ {card}) \cup new

-----------------------------------------------------------------------------
(* The attempts of the pipeline *)

Starts(t) ==
    /\ job[t].state = "queued" /\ ~job[t].cancel /\ ending[t] = "no"
    /\ Wrote(t, [job[t] EXCEPT !.state = "active", !.running = TRUE])
    /\ UNCHANGED <<staged, retained, confirmations, cards, handlers, presses>>
\* An attempt that finds the object of an earlier one goes to review, or writes its own.
Writes(t) ==
    /\ job[t].state = "active" /\ job[t].running /\ job[t].temp # StagingOf(t, job[t].gen)
    /\ IF job[t].temp \in staged
       THEN /\ Wrote(t, [job[t] EXCEPT !.state = "failed", !.running = FALSE, !.review = TRUE])
            /\ UNCHANGED staged
       ELSE /\ Wrote(t, [job[t] EXCEPT !.temp = StagingOf(t, job[t].gen)])
            /\ staged' = staged \cup {StagingOf(t, job[t].gen)}
    /\ UNCHANGED <<retained, confirmations, cards, handlers, presses>>
Fails(t) ==
    /\ job[t].state = "active" /\ job[t].running
    /\ \E review \in BOOLEAN :
          /\ review => job[t].temp # Untouched
          /\ Wrote(t, [job[t] EXCEPT !.state = "failed", !.running = FALSE, !.review = review])
    /\ UNCHANGED <<staged, retained, confirmations, cards, handlers, presses>>
Completes(t) ==
    /\ job[t].state = "active" /\ job[t].running /\ job[t].temp \in staged
    /\ Wrote(t, [job[t] EXCEPT !.state = "done", !.running = FALSE, !.temp = Untouched])
    /\ staged' = staged \ {job[t].temp}
    /\ UNCHANGED <<retained, confirmations, cards, handlers, presses>>

-----------------------------------------------------------------------------
(* Retries and recoveries *)

\* requeue: the row must be the one the caller saw, and ask for nothing else.
MayRequeue(t, at, fresh, restart) ==
    /\ job[t].state = IF restart THEN "cancelled" ELSE "failed"
    /\ job[t].at = at /\ ~job[t].cancel /\ (job[t].review => fresh)
\* A recovery under fresh names keeps the recorded objects from ever being touched again.
RequeuesJob(t, fresh) ==
    /\ Wrote(t, [job[t] EXCEPT !.state = "queued", !.gen = @ + 1, !.review = FALSE,
                               !.cancel = FALSE, !.temp = IF fresh THEN Untouched ELSE @])
    /\ retained' = IF fresh THEN retained \cup ({job[t].temp} \ {Untouched}) ELSE retained
    /\ UNCHANGED staged

Idle(t) == ending[t] = "no" /\ ~job[t].running
\* A quota may refuse; nothing is written then.
NotRequeued == UNCHANGED <<job, retained, staged>>

\* `_offer_recovery`: a token, kept with the revision of the row it was shown with.
OffersRecovery(t, rename) ==
    IF job[t].state = (IF rename THEN "failed" ELSE "cancelled") /\ ~job[t].cancel
       /\ ending[t] = "no"
    THEN /\ offered' = [offered EXCEPT ![t] = [token |-> presses', at |-> job[t].at,
                                              rename |-> rename]]
         /\ cards' = cards \cup {Card("recover", t, presses', {Row(t)})}
    ELSE UNCHANGED <<offered, cards>>
AsksToRecover(t, rename) ==
    /\ Presses /\ OffersRecovery(t, rename)
    /\ UNCHANGED <<job, staged, retained, asking, planned, handlers>>

\* Mutant: any confirmation of the task will do.
AnyOffer(t, card) == offered[t].token # 0
OfferStands(t, card) == offered[t].token = card.token
\* The confirmation is used up before anything is changed.
ConfirmsRecovery(card) ==
    LET t == card.of IN
    /\ card.op = "recover" /\ card \in cards /\ Presses
    /\ Replaces(card, {})
    /\ IF OfferStands(t, card)
       THEN /\ offered' = [offered EXCEPT ![t] = NoOffer]
            /\ \/ Idle(t) /\ MayRequeue(t, offered[t].at, TRUE, ~offered[t].rename)
                  /\ RequeuesJob(t, TRUE)
               \/ NotRequeued
       ELSE NotRequeued /\ UNCHANGED offered
    /\ UNCHANGED <<asking, planned, handlers>>

\* /retry: a cancelled task, or one under review, is offered a recovery instead; a cancellation
\* that never finished is withdrawn and its row recovered.
Retry(t) ==
    /\ Presses
    /\ IF job[t].state = "cancelled" \/ job[t].review
       THEN OffersRecovery(t, job[t].review) /\ NotRequeued
       ELSE /\ \/ Idle(t) /\ job[t].state = "failed" /\ RequeuesJob(t, FALSE)
               \/ /\ Idle(t) /\ job[t].cancel
                  /\ Wrote(t, [job[t] EXCEPT !.cancel = FALSE,
                                 !.state = IF @ = "active" THEN "queued" ELSE @])
                  /\ UNCHANGED <<retained, staged>>
               \/ ~(Idle(t) /\ job[t].cancel) /\ NotRequeued
            /\ UNCHANGED <<offered, cards>>
    /\ UNCHANGED <<asking, planned, handlers>>
\* /retry all: every failed task of the user that asks for nothing else.
RetryAll ==
    /\ Presses
    /\ LET again == {t \in Jobs : /\ job[t].state = "failed" /\ ~job[t].cancel
                                  /\ ~job[t].review /\ Idle(t)} IN
       job' = [t \in Jobs |-> IF t \in again
                              THEN [job[t] EXCEPT !.state = "queued", !.gen = @ + 1, !.at = @ + 1]
                              ELSE job[t]]
    /\ UNCHANGED <<staged, retained, confirmations, cards, handlers>>

-----------------------------------------------------------------------------
(* Cancelling *)

AsksToCancel(t) ==
    /\ Presses /\ job[t].state \notin EndedJob
    /\ asking' = [asking EXCEPT ![t] = presses']
    /\ cards' = cards \cup {Card("cancel", t, presses', {Row(t)})}
    /\ UNCHANGED <<job, staged, retained, offered, planned, handlers>>

\* What is left to do once nothing runs: give up, end at once, or remove what the row records.
SettlesCancel(t, r) ==
    IF r.review \/ r.state \in EndedJob
    THEN Wrote(t, [r EXCEPT !.cancel = FALSE]) /\ ending' = [ending EXCEPT ![t] = "no"]
    ELSE IF r.temp = Untouched
    THEN /\ Wrote(t, [r EXCEPT !.state = "cancelled", !.cancel = FALSE])
         /\ ending' = [ending EXCEPT ![t] = "no"]
    ELSE Wrote(t, r) /\ ending' = [ending EXCEPT ![t] = "removing"]
\* The intent first; a running attempt is interrupted and waited for.
CancelsJob(t) ==
    LET asked == [job[t] EXCEPT !.cancel = TRUE] IN
    IF ending[t] # "no" \/ job[t].review \/ job[t].state \in EndedJob THEN UNCHANGED <<job, ending>>
    ELSE IF job[t].running
    THEN Wrote(t, asked) /\ ending' = [ending EXCEPT ![t] = "waiting"]
    ELSE SettlesCancel(t, asked)
CancelCommand(t) ==
    /\ Presses /\ CancelsJob(t)
    /\ UNCHANGED <<staged, retained, confirmations, cards, repair, sweep>>
\* The confirmation counts whatever has become of the task since it was shown.
ConfirmsCancel(card, yes) ==
    LET t == card.of IN
    /\ card.op = "cancel" /\ card \in cards /\ Presses
    /\ Replaces(card, {})
    /\ IF asking[t] = card.token
       THEN /\ asking' = [asking EXCEPT ![t] = 0]
            /\ IF yes THEN CancelsJob(t) ELSE UNCHANGED <<job, ending>>
       ELSE UNCHANGED <<asking, job, ending>>
    /\ UNCHANGED <<staged, retained, offered, planned, repair, sweep>>
\* The attempt ends by being interrupted, or ended by itself meanwhile.
Interrupted(t) ==
    /\ ending[t] = "waiting"
    /\ SettlesCancel(t, [job[t] EXCEPT !.running = FALSE])
    /\ UNCHANGED <<staged, retained, confirmations, cards, repair, sweep, presses>>
\* The recorded object is removed and looked for again; a gateway that cannot tell leaves the
\* intent standing.
Removed(t) ==
    /\ ending[t] = "removing"
    /\ \/ /\ staged' = staged \ {job[t].temp}
          /\ Wrote(t, [job[t] EXCEPT !.state = "cancelled", !.cancel = FALSE, !.temp = Untouched])
       \/ staged' \in {staged, staged \ {job[t].temp}} /\ UNCHANGED job
    /\ ending' = [ending EXCEPT ![t] = "no"]
    /\ UNCHANGED <<retained, confirmations, cards, repair, sweep, presses>>

-----------------------------------------------------------------------------
(* The page of a source's failed downloads *)

\* recovery_reason: only a download that failed before anything was written.
Repairable(t) ==
    job[t].state = "failed" /\ ~job[t].cancel /\ ~job[t].review /\ job[t].temp = Untouched
ShowsFailures ==
    /\ Presses
    /\ cards' = cards \cup {Card("repair", Untouched, presses',
                                 {Row(t) : t \in {u \in Jobs : Repairable(u)}})}
    /\ UNCHANGED <<job, staged, retained, confirmations, handlers>>
ConfirmsRepair(card) ==
    /\ card.op = "repair" /\ card \in cards /\ Presses /\ repair = NoRepair
    /\ Replaces(card, {})
    /\ repair' = [left |-> card.shown, reads |-> Untouched]
    /\ UNCHANGED <<job, staged, retained, confirmations, ending, sweep>>
\* Each row is compared with its snapshot, its message read again, and the row requeued.
ReadsAgain ==
    /\ repair.reads = Untouched
    /\ \E e \in repair.left :
          repair' = [left |-> repair.left \ {e},
                     reads |-> IF Repairable(e[1]) /\ e = Row(e[1]) /\ ~job[e[1]].running
                               THEN e ELSE Untouched]
    /\ UNCHANGED <<job, staged, retained, confirmations, cards, ending, sweep, presses>>
\* Mutant: the row as it is after the read.
RowNow(e) == Row(e[1])[2]
SnapshotAt(e) == e[2]
Repairs ==
    /\ repair.reads # Untouched
    /\ \/ /\ MayRequeue(repair.reads[1], SnapshotAt(repair.reads), FALSE, FALSE)
          /\ RequeuesJob(repair.reads[1], FALSE)
       \/ NotRequeued
    /\ repair' = [repair EXCEPT !.reads = Untouched]
    /\ UNCHANGED <<confirmations, cards, ending, sweep, presses>>
\* A refused read, or a source that has changed, ends the batch.
RepairStops ==
    /\ repair.reads # Untouched
    /\ repair' = NoRepair
    /\ UNCHANGED <<job, staged, retained, confirmations, cards, ending, sweep, presses>>

-----------------------------------------------------------------------------
(* Temporary objects nothing claims *)

\* An unfinished task may be about to claim its name.
IsOrphan(p) ==
    p \notin retained /\ job[p[1]].temp # p /\ job[p[1]].state \in EndedJob

\* The listing takes its time; what it shows is judged when it has come.
Scans(wants) ==
    sweep' = [NoSweep EXCEPT !.at = "listing", !.wants = wants, !.listing = staged]
AsksToClean ==
    /\ Presses /\ sweep = NoSweep /\ Scans({})
    /\ UNCHANGED <<job, staged, retained, confirmations, cards, ending, repair>>
PlansCleaning ==
    LET found == {p \in sweep.listing : IsOrphan(p)} IN
    /\ sweep.at = "listing" /\ sweep.wants = {}
    /\ planned' = IF found = {} THEN planned ELSE [token |-> presses, objects |-> found]
    /\ cards' = IF found = {} THEN cards ELSE cards \cup {Card("clean", Untouched, presses, {})}
    /\ sweep' = NoSweep
    /\ UNCHANGED <<job, staged, retained, offered, asking, ending, repair, presses>>
\* The plan is used up, and everything looked at once more.
ConfirmsCleaning(card) ==
    /\ card.op = "clean" /\ card \in cards /\ Presses /\ sweep = NoSweep
    /\ Replaces(card, {})
    /\ IF planned.token = card.token
       THEN planned' = NoPlan /\ Scans(planned.objects)
       ELSE UNCHANGED <<planned, sweep>>
    /\ UNCHANGED <<job, staged, retained, offered, asking, ending, repair>>
CleaningBegins ==
    /\ sweep.at = "listing" /\ sweep.wants # {}
    /\ sweep' = [sweep EXCEPT !.at = "next",
                              !.cleared = {p \in sweep.listing : IsOrphan(p)}]
    /\ UNCHANGED <<job, staged, retained, confirmations, cards, ending, repair, presses>>
CleansNext ==
    /\ sweep.at = "next"
    /\ IF sweep.wants = {} THEN sweep' = NoSweep
       ELSE \E p \in sweep.wants :
              sweep' = IF p \in sweep.cleared /\ IsOrphan(p)
                       THEN [sweep EXCEPT !.wants = @ \ {p}, !.at = "removing", !.removes = p]
                       ELSE [sweep EXCEPT !.wants = @ \ {p}]
    /\ UNCHANGED <<job, staged, retained, confirmations, cards, ending, repair, presses>>
CleansOne ==
    /\ sweep.at = "removing"
    /\ staged' = staged \ {sweep.removes}
    /\ sweep' = [sweep EXCEPT !.at = "next", !.removes = Untouched]
    /\ UNCHANGED <<job, retained, confirmations, cards, ending, repair, presses>>
\* A scan that is not complete, or a removal that cannot be confirmed, stops everything.
CleaningStops ==
    /\ sweep.at \in {"listing", "removing"}
    /\ sweep' = NoSweep
    /\ UNCHANGED <<job, staged, retained, confirmations, cards, ending, repair, presses>>

-----------------------------------------------------------------------------
\* A task that waits, failed or was cancelled; an object that a lookup once missed may be left.
ConsoleInit ==
    /\ job \in [Jobs -> {[state |-> st, at |-> 0, cancel |-> FALSE, review |-> FALSE, gen |-> 0,
                         temp |-> Untouched, running |-> FALSE] :
                        st \in {"queued", "failed", "cancelled"}}]
    /\ staged \in SUBSET {StagingOf(t, 0) : t \in {u \in Jobs : job[u].state = "cancelled"}}
    /\ retained = {}
    /\ offered = [t \in Jobs |-> NoOffer] /\ asking = [t \in Jobs |-> 0]
    /\ cards = {} /\ planned = NoPlan
    /\ ending = [t \in Jobs |-> "no"] /\ repair = NoRepair /\ sweep = NoSweep
    /\ presses = 0

AttemptStep(t) == Starts(t) \/ Writes(t) \/ Fails(t) \/ Completes(t)
Command(t) ==
    \/ \E rename \in BOOLEAN : AsksToRecover(t, rename)
    \/ Retry(t) \/ AsksToCancel(t) \/ CancelCommand(t)
PressedCard(card) ==
    \/ ConfirmsRecovery(card) \/ ConfirmsRepair(card) \/ ConfirmsCleaning(card)
    \/ \E yes \in BOOLEAN : ConfirmsCancel(card, yes)
Handled ==
    \/ \E t \in Jobs : Interrupted(t) \/ Removed(t)
    \/ ReadsAgain \/ Repairs \/ RepairStops
    \/ PlansCleaning \/ CleaningBegins \/ CleansNext \/ CleansOne \/ CleaningStops
ConsoleNext ==
    \/ \E t \in Jobs : AttemptStep(t) \/ Command(t)
    \/ \E card \in cards : PressedCard(card)
    \/ RetryAll \/ ShowsFailures \/ AsksToClean
    \/ Handled

ConsoleTypeOK ==
    /\ \A t \in Jobs :
          /\ job[t].state \in {"queued", "active", "failed"} \cup EndedJob
          /\ job[t].gen \in Nat
          /\ job[t].temp \in {Untouched} \cup {StagingOf(t, g) : g \in 0 .. job[t].gen}
          /\ ending[t] \in {"no", "waiting", "removing"}
          /\ job[t].running => job[t].state = "active"
    /\ \A p \in staged \cup retained : p[1] \in Jobs
    /\ sweep.at \in {"idle", "listing", "next", "removing"}

\* A recovery or a repair that was confirmed starts a new attempt only of a task that has not
\* changed since the pressed button was shown (the revisions of _offer_recovery and failed_page).
ConfirmedAsShown ==
    [][\A t \in Jobs : job'[t].gen > job[t].gen =>
          /\ \A card \in cards \ cards' : Row(t) \in card.shown
          /\ repair' # repair => repair.reads = Row(t)]_consoleVars

\* Cleaning never takes an object that a row records or a recovery has retained, even if the
\* task was started again while the removal was under way (_confirm_orphan_cleanup).
CleaningSpares ==
    [][\A p \in staged \ staged' :
          sweep.removes = p /\ sweep' # sweep =>
             p \notin retained /\ \A t \in Jobs : job[t].temp # p]_consoleVars

ConsoleSpec == ConsoleInit /\ [][ConsoleNext]_consoleVars
===============================================================================
