----------------------------- MODULE ListenerInbox -----------------------------
(***************************************************************************)
(* One listened source: the poll that reads its messages, the decision     *)
(* kept for each (listener_events), the plan a matching message gets       *)
(* (transfer_plans), the task it becomes, and the cursor that says how far *)
(* the poll came.  Around it the administrator edits, pauses, deletes and  *)
(* re-adds the source, approves plans, registers older messages, switches  *)
(* the account, and the process dies.                                      *)
(*                                                                         *)
(* An action runs from one await to the next; where a crash could fall     *)
(* between two transactions it ends earlier (Synchronous).  A tick of the  *)
(* clock is long against a poll, so none passes during one, and while the  *)
(* source is listened to a tick passes only when the poll loop has nothing *)
(* left to do or was refused.                                              *)
(***************************************************************************)
EXTENDS Naturals, FiniteSets, Functions

CONSTANTS
    MaxMessage,     \* bound: messages ever posted
    MaxTime,        \* bound: last tick of the clock
    Batch,          \* BATCH, messages of one poll
    Lookback,       \* LOOKBACK in ticks
    Retention,      \* TTL in ticks
    QueueLimit,     \* tasks before their upload that stop the listener
    PendingLimit,   \* plans an owner may have pending
    EventLimit,     \* rows of listener_events
    Limit,          \* bound: how often each kind of event may happen
    Budget          \* bound: how many of them may happen in one behaviour

Causes == {"crash", "fault", "young", "account", "edit", "review", "history"}

ASSUME InboxAssumption ==
    /\ MaxMessage \in Nat \ {0} /\ MaxTime \in Nat
    /\ Batch \in Nat \ {0} /\ Lookback \in Nat \ {0}
    /\ Retention \in Nat /\ Retention > Lookback
    /\ QueueLimit \in Nat /\ PendingLimit \in Nat /\ EventLimit \in Nat
    /\ Limit \in [Causes -> Nat] /\ Budget \in Nat

VARIABLES
    now,        \* the clock
    posted,     \* when each message was posted
    newest,     \* the last message posted
    source,     \* the row of listener_sources
    account,    \* whether the listener account is enabled
    client,     \* the connected client, 0 when there is none
    clients,    \* clients made so far
    event,      \* listener_events
    plan,       \* transfer_plans
    task,       \* the task of a message
    poll,       \* the running poll
    rested,     \* the poll loop has nothing to do before time passes
    preview,    \* the history preview the administrator looks at
    spent       \* how often each kind of event happened

rows == <<source, event, plan, task>>
world == <<now, posted, newest>>
login == <<account, client, clients>>
vars == <<now, posted, newest, source, account, client, clients, event, plan, task, poll,
          rested, preview, spent>>

Messages == 1..MaxMessage

NoEvent == [result |-> "none", at |-> 0]
NoPlan == [status |-> "none", at |-> 0]
NoPoll == [at |-> "idle", rev |-> 0, client |-> 0, page |-> {}]
NoPreview == [rev |-> 0, client |-> 0, found |-> {}]

\* Between these and the next step no other coroutine runs, but a crash may fall.
Synchronous == {"submit", "advance"}

\* A source just enabled on a connected account.
Init ==
    /\ now = 0 /\ newest = 0 /\ posted = [m \in Messages |-> 0]
    /\ source \in [enabled : {TRUE}, deleted : {FALSE}, rev : {1}, wanted : {TRUE},
                   confirm : BOOLEAN, cursor : {0}, polled : {0}, gap : {FALSE}]
    /\ account = TRUE /\ client = 1 /\ clients = 1
    /\ event = [m \in Messages |-> NoEvent]
    /\ plan = [m \in Messages |-> NoPlan]
    /\ task = [m \in Messages |-> "none"]
    /\ poll = NoPoll /\ rested = FALSE /\ preview = NoPreview
    /\ spent = [c \in Causes |-> 0]

-------------------------------------------------------------------------------
(* Helpers *)

Spend(c) ==
    /\ spent[c] < Limit[c] /\ FoldFunction(+, 0, spent) < Budget
    /\ spent' = [spent EXCEPT ![c] = @ + 1]

First(S) == CHOOSE m \in S : \A k \in S : m <= k
FirstOf(n, S) == {m \in S : Cardinality({k \in S : k < m}) < n}

Old(m) == now - posted[m] > Lookback
Decided(m) == event[m].result # "none"
Expired(p) == p.status = "pending" /\ now - p.at > Retention

Queue == {m \in Messages : task[m] = "queued"}
Kept == {m \in Messages : Decided(m)}
Pending(ps) == {m \in Messages : ps[m].status = "pending"}

\* expire_pending
SetStatus(ps, ms, status) ==
    [m \in Messages |-> IF m \in ms THEN [ps[m] EXCEPT !.status = status] ELSE ps[m]]
Aged(ps) == SetStatus(ps, {m \in Messages : Expired(ps[m])}, "expired")

\* Mutant: the poll notices a pause but not an edit.
StillEnabled(rev, c) == client = c /\ source.enabled /\ ~ source.deleted /\ account

\* _poll_current, for a poll that started under revision rev with client c
Current(rev, c) ==
    /\ client = c /\ source.rev = rev
    /\ source.enabled /\ ~ source.deleted /\ account

\* Mutant: the preview's revision is not compared.
LiveNow(p) == source.enabled /\ ~ source.deleted /\ account /\ client = p.client

\* management.live, for what was previewed
Live(p) ==
    /\ source.enabled /\ ~ source.deleted /\ account
    /\ client = p.client /\ source.rev = p.rev

Idle == poll.at = "idle"
Yields == poll.at \notin Synchronous
Listening == source.enabled /\ ~ source.deleted /\ account /\ client # 0

Stop(rest) == poll' = NoPoll /\ rested' = rest
At(l) == poll' = [poll EXCEPT !.at = l]

-------------------------------------------------------------------------------
(* The poll (Listener.poll and receive) *)

PollStarts ==
    /\ Idle /\ Listening /\ ~ rested
    /\ poll' = [at |-> "verify", rev |-> source.rev, client |-> client, page |-> {}]
    /\ UNCHANGED <<rows, world, login, rested, preview, spent>>

\* The membership is verified; a long silence of the poll itself is a gap.
PollVerified ==
    /\ poll.at = "verify"
    /\ IF Current(poll.rev, poll.client)
         THEN /\ source' = [source EXCEPT !.gap = @ \/ now - source.polled > Lookback]
              /\ At("list") /\ UNCHANGED rested
         ELSE Stop(FALSE) /\ UNCHANGED source
    /\ UNCHANGED <<event, plan, task, world, login, preview, spent>>

\* Ascending messages after the cursor.  The request names a date as well as an
\* id, and the server may or may not leave out what is older.
PollLists ==
    /\ poll.at = "list"
    /\ LET after == {m \in 1..newest : m > source.cursor}
       IN  \E offered \in {after, {m \in after : ~ Old(m)}} :
              poll' = [poll EXCEPT !.at = "loop", !.page = FirstOf(Batch, offered)]
    /\ UNCHANGED <<rows, world, login, rested, preview, spent>>

\* The page is done, or its next message too young to be read with its album.
PollEnds ==
    /\ poll.at = "loop"
    /\ \/ poll.page = {} /\ UNCHANGED spent
       \/ poll.page # {} /\ posted[First(poll.page)] = now /\ Spend("young")
    /\ IF Current(poll.rev, poll.client)
         THEN /\ source' = [source EXCEPT !.polled = now]
              /\ Stop(\A m \in (source.cursor + 1)..newest : Old(m))
         ELSE Stop(FALSE) /\ UNCHANGED source
    /\ UNCHANGED <<event, plan, task, world, login, preview>>

\* Listener.journal: INSERT OR IGNORE
Journal(m, result) ==
    event' = IF Decided(m) THEN event ELSE [event EXCEPT ![m] = [result |-> result, at |-> now]]

\* Backpressure: the poll ends with the cursor where it is.
Limited == Stop(TRUE) /\ UNCHANGED rows

\* Plans.create: one plan and one event in one transaction.
CreatePlan(m) ==
    LET aged == Aged(plan)
    IN  IF Cardinality(Pending(aged)) >= PendingLimit THEN Limited
        ELSE /\ plan' = [aged EXCEPT ![m] = [status |-> "pending", at |-> now]]
             /\ event' = [event EXCEPT ![m] = [result |-> "waiting", at |-> now]]
             /\ \/ ~ source.confirm /\ At("submit")
                \/ source.confirm /\ At("notify")
                \/ source.confirm /\ At("advance")   \* notified less than a minute ago
             /\ UNCHANGED <<source, task, rested>>

\* The part of receive after its last await.
Receive(m) ==
    IF Decided(m) THEN At("advance") /\ UNCHANGED <<rows, rested>>
    ELSE IF Cardinality(Kept) >= EventLimit THEN Limited
    ELSE IF ~ source.wanted
      THEN Journal(m, "skipped") /\ At("advance") /\ UNCHANGED <<source, plan, task, rested>>
    ELSE IF Cardinality(Queue) >= QueueLimit THEN Limited
    ELSE CreatePlan(m)

\* One message of the page.
PollReads ==
    /\ poll.at = "loop" /\ poll.page # {}
    /\ LET m == First(poll.page)
       IN  IF ~ Current(poll.rev, poll.client) THEN Stop(FALSE) /\ UNCHANGED rows
           ELSE IF Old(m)
             THEN Journal(m, "gap") /\ At("advance") /\ UNCHANGED <<source, plan, task, rested>>
           ELSE \/ At("check") /\ UNCHANGED <<rows, rested>>   \* verified over ten seconds ago
                \/ Receive(m)
    /\ UNCHANGED <<world, login, preview, spent>>

\* receive after verifying the membership again: it drops a decision whose rules
\* changed meanwhile, and leaves the message to a later poll.
PollRechecked ==
    /\ poll.at = "check"
    /\ IF source.rev # poll.rev \/ ~ account \/ ~ source.enabled \/ source.deleted
         THEN At("advance") /\ UNCHANGED <<rows, rested>>
         ELSE Receive(First(poll.page))
    /\ UNCHANGED <<world, login, preview, spent>>

\* Plans.submit of an automatic source: task, plan and event in one transaction,
\* or the plan is held for the administrator (quota, directory).
SubmitNow(m) ==
    /\ plan' = [plan EXCEPT ![m].status = "submitted"]
    /\ task' = [task EXCEPT ![m] = "queued"]
    /\ event' = [event EXCEPT ![m].result = "queued"]

PollSubmits ==
    /\ poll.at = "submit"
    /\ LET m == First(poll.page)
       IN \/ SubmitNow(m) /\ UNCHANGED spent
          \/ /\ Spend("fault")
             /\ event' = [event EXCEPT ![m].result = "held"]
             /\ UNCHANGED <<plan, task>>
    /\ At("notify") \/ At("advance")
    /\ UNCHANGED <<source, world, login, rested, preview>>

PollNotified ==
    /\ poll.at = "notify" /\ At("advance")
    /\ UNCHANGED <<rows, world, login, rested, preview, spent>>

\* Only after the decision is persisted, and only for the source as the poll knew it.
PollAdvances ==
    /\ poll.at = "advance"
    /\ LET m == First(poll.page)
       IN  IF Current(poll.rev, poll.client)
             THEN /\ source' = [source EXCEPT !.cursor = IF @ < m THEN m ELSE @]
                  /\ poll' = [poll EXCEPT !.at = "loop", !.page = @ \ {m}]
                  /\ UNCHANGED rested
             ELSE Stop(FALSE) /\ UNCHANGED source
    /\ UNCHANGED <<event, plan, task, world, login, preview, spent>>

Awaiting == poll.at \in {"verify", "list", "check", "notify"}

\* source_failure: a timeout or a network failure waits; a refused access pauses
\* the source the poll knew; a revoked login stops the account.
PollFails ==
    /\ Awaiting /\ Spend("fault") /\ Stop(FALSE)
    /\ \/ UNCHANGED <<rows, login>>
       \/ /\ poll.at # "notify"
          /\ source' = IF source.rev = poll.rev /\ ~ source.deleted
                       THEN [source EXCEPT !.enabled = FALSE] ELSE source
          /\ UNCHANGED <<event, plan, task, login>>
       \/ /\ poll.at # "notify" /\ client = poll.client
          /\ account' = FALSE /\ client' = 0
          /\ UNCHANGED <<rows, clients>>
    /\ UNCHANGED <<world, preview>>

-------------------------------------------------------------------------------
(* Connection, maintenance, crash *)

\* The loop closes the client of a disabled account between two polls.
Closes ==
    /\ Idle /\ ~ account /\ client # 0
    /\ client' = 0
    /\ UNCHANGED <<rows, world, account, clients, poll, rested, preview, spent>>

\* Mutant: a closed client is not replaced.
ConnectsOnce == account /\ client = 0 /\ clients = 0

MayConnect == account /\ client = 0

Connects ==
    /\ Idle /\ MayConnect
    /\ client' = clients + 1 /\ clients' = clients + 1
    /\ rested' = FALSE
    /\ UNCHANGED <<rows, world, account, poll, preview, spent>>

\* The client ran out of reconnection attempts; or no client can be made, because
\* the login was refused or is not the account's, and the account is stopped.
ConnectionFails ==
    /\ Idle /\ account /\ Spend("fault")
    /\ \/ client # 0 /\ UNCHANGED account
       \/ client = 0 /\ account' = FALSE
    /\ client' = 0
    /\ UNCHANGED <<rows, world, clients, poll, rested, preview>>

\* Plans.expire: pending plans run out, and old decisions go unless a plan still
\* waits on them.
Maintains ==
    LET gone(m) == Decided(m) /\ now - event[m].at > Retention /\ Aged(plan)[m].status # "pending"
    IN  /\ Idle /\ \E m \in Messages : gone(m) \/ Expired(plan[m])
        /\ plan' = Aged(plan)
        /\ event' = [m \in Messages |-> IF gone(m) THEN NoEvent ELSE event[m]]
        /\ rested' = FALSE
        /\ UNCHANGED <<source, task, world, login, poll, preview, spent>>

Crash ==
    /\ Spend("crash")
    /\ Stop(FALSE) /\ client' = 0 /\ preview' = NoPreview
    /\ UNCHANGED <<rows, world, account, clients>>

-------------------------------------------------------------------------------
(* The administrator *)

SwitchAccount ==
    /\ Yields /\ Spend("account") /\ account' = ~ account
    /\ UNCHANGED <<rows, world, client, clients, poll, rested, preview>>

\* change_source: every change is a new revision.
Change(s) ==
    /\ Yields /\ Spend("edit") /\ ~ source.deleted
    /\ source' = [s EXCEPT !.rev = source.rev + 1]
    /\ rested' = FALSE
    /\ UNCHANGED <<world, login, event, task, poll, preview>>

Edits == /\ \/ Change([source EXCEPT !.wanted = ~ @])
            \/ Change([source EXCEPT !.confirm = ~ @])
         /\ UNCHANGED plan
Pauses == source.enabled /\ Change([source EXCEPT !.enabled = FALSE]) /\ UNCHANGED plan

\* Enabling starts from the newest message on purpose.
Enables ==
    /\ ~ source.enabled /\ client # 0
    /\ Change([source EXCEPT !.enabled = TRUE, !.cursor = newest, !.polled = now, !.gap = FALSE])
    /\ UNCHANGED plan

\* Mutant: a deleted source leaves its plans pending.
AllKept(ps) == ps

AllIgnored(ps) == SetStatus(ps, Pending(ps), "ignored")

Deletes ==
    /\ Change([source EXCEPT !.enabled = FALSE, !.deleted = TRUE])
    /\ plan' = AllIgnored(plan)

\* Listener.add of a source deleted before (save_source).
AddsAgain ==
    /\ Yields /\ source.deleted /\ client # 0 /\ Spend("edit")
    /\ source' = [source EXCEPT !.deleted = FALSE, !.enabled = FALSE, !.rev = @ + 1,
                                !.cursor = newest, !.polled = now, !.gap = FALSE]
    /\ rested' = FALSE
    /\ UNCHANGED <<world, login, event, plan, task, poll, preview>>

\* planning.submit: the message is verified once more, with no await before the
\* transaction; the plan may also be ignored.
Reviews(m) ==
    /\ plan[m].status = "pending" /\ ~ Expired(plan[m]) /\ Yields
    /\ Spend("review") /\ rested' = FALSE
    /\ \/ account /\ client # 0 /\ ~ source.deleted /\ SubmitNow(m)
       \/ plan' = [plan EXCEPT ![m].status = "ignored"] /\ UNCHANGED <<event, task>>
    /\ UNCHANGED <<source, world, login, poll, preview>>

\* history_preview: matching messages of the window without a decision.
Previews ==
    LET found == {m \in 1..newest : ~ Old(m) /\ ~ Decided(m) /\ source.wanted}
    IN  /\ Yields /\ Listening /\ found # {}
        /\ Spend("history")
        /\ preview' = [rev |-> source.rev, client |-> client, found |-> found]
        /\ UNCHANGED <<rows, world, login, poll, rested>>

\* Mutant: what was found is registered without looking again.
AllFound(p) == p.found

\* management.duplicate inside the transaction, and the same check of Plans.create
Fresh(p) == {m \in p.found : ~ Decided(m)}

\* register_history: all of them or none, always to be confirmed.
Registers ==
    LET fresh == Fresh(preview)
    IN  /\ Yields /\ preview # NoPreview /\ Live(preview)
        /\ preview' = NoPreview
        /\ IF \/ fresh = {} \/ Cardinality(Queue) >= QueueLimit
             \/ Cardinality(Kept) + Cardinality(fresh) > EventLimit
             \/ Cardinality(Pending(Aged(plan))) + Cardinality(fresh) > PendingLimit
             THEN UNCHANGED rows
             ELSE /\ plan' = [m \in Messages |->
                        IF m \in fresh THEN [status |-> "pending", at |-> now]
                                       ELSE Aged(plan)[m]]
                  /\ event' = [m \in Messages |->
                        IF m \in fresh THEN [result |-> "waiting", at |-> now] ELSE event[m]]
                  /\ UNCHANGED <<source, task>>
        /\ UNCHANGED <<world, login, poll, rested, spent>>

-------------------------------------------------------------------------------
(* The world *)

Posts ==
    /\ newest < MaxMessage
    /\ newest' = newest + 1 /\ posted' = [posted EXCEPT ![newest + 1] = now]
    /\ rested' = FALSE
    /\ UNCHANGED <<now, rows, login, poll, preview, spent>>

\* A queued task leaves the states the limit counts.
TaskMovesOn(m) ==
    /\ Yields /\ task[m] = "queued" /\ task' = [task EXCEPT ![m] = "done"]
    /\ rested' = FALSE
    /\ UNCHANGED <<source, event, plan, world, login, poll, preview, spent>>

\* A preview lives five minutes.
Tick ==
    /\ now < MaxTime /\ Idle /\ (Listening => rested)
    /\ now' = now + 1 /\ rested' = FALSE /\ preview' = NoPreview
    /\ UNCHANGED <<posted, newest, rows, login, poll, spent>>

-------------------------------------------------------------------------------
PollSteps ==
    \/ PollStarts \/ PollVerified \/ PollLists \/ PollReads \/ PollRechecked \/ PollSubmits
    \/ PollNotified \/ PollAdvances \/ PollEnds

Next ==
    \/ PollStarts \/ PollVerified \/ PollLists \/ PollReads \/ PollRechecked \/ PollSubmits
    \/ PollNotified \/ PollAdvances \/ PollEnds \/ PollFails
    \/ Closes \/ Connects \/ ConnectionFails \/ Maintains \/ Crash
    \/ SwitchAccount \/ Edits \/ Pauses \/ Enables \/ Deletes \/ AddsAgain
    \/ \E m \in Messages : Reviews(m)
    \/ Previews \/ Registers
    \/ Posts \/ (\E m \in Messages : TaskMovesOn(m)) \/ Tick

Spec == Init /\ [][Next]_vars

\* The loop runs every five seconds until the process stops, its requests have
\* timeouts, and a worker takes every queued task sooner or later.
Fairness ==
    /\ WF_vars(PollSteps) /\ WF_vars(Closes) /\ WF_vars(Connects)
    /\ \A m \in Messages : WF_vars(TaskMovesOn(m))

FairSpec == Spec /\ Fairness

-------------------------------------------------------------------------------
(* Properties *)

\* When the poll moves the cursor, every message it passes is decided, or too old
\* for the window: no edit, pause, crash, registration or full queue in the middle
\* of a page makes a message vanish.
NoMessageJumped ==
    [][poll.at = "advance" =>
         \A m \in (source.cursor + 1)..source'.cursor : Decided(m) \/ Old(m)]_vars

\* A message newly decided is decided by the rules in force: it gets a plan only
\* while the account and the source are on and the rules want it, and is skipped
\* only when they do not, whoever decides and whatever changed since it was read.
DecidedByRuleInForce ==
    [][\A m \in Messages : ~ Decided(m) /\ event'[m].result # "none" =>
         /\ account /\ source.enabled /\ ~ source.deleted
         /\ plan'[m].status = "pending" => source.wanted
         /\ event'[m].result = "skipped" => ~ source.wanted]_vars

\* A message decided once is never offered again: a plan submitted, ignored or run
\* out does not come back as pending, though history is registered while polls,
\* retries and reviews go on.
NeverReprocessed ==
    [][\A m \in Messages :
         plan[m].status \in {"submitted", "ignored", "expired"} => plan'[m].status # "pending"]_vars

\* No plan of a deleted source can still be approved, even when a poll, a preview
\* or a re-registration was under way when it was deleted.
DeletedHasNoPending == source.deleted => Pending(plan) = {}

CaughtUp == \A m \in (source.cursor + 1)..newest : Old(m)
Blocked ==
    \/ ~ source.enabled \/ source.deleted \/ ~ account
    \/ Cardinality(Pending(plan)) >= PendingLimit \/ Cardinality(Kept) >= EventLimit

\* A source that stays enabled reads all its messages, after crashes, failures,
\* reconnections and full queues, unless the administrator leaves too many plans
\* unreviewed or the records are full.
EventuallyCaughtUp == []<>(CaughtUp \/ Blocked)
================================================================================
