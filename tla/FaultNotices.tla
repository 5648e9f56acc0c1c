------------------------------ MODULE FaultNotices ------------------------------
(***************************************************************************)
(* notifications.tick: messages to the administrator about one kind of     *)
(* fault.  The attempt is recorded before the message is sent, the         *)
(* delivery after it is confirmed; the Bot may crash in between, and a     *)
(* message may arrive without a confirmation.  The kinds of fault have     *)
(* records of their own and are worked off one after the other: there is   *)
(* one.  The clock advances in steps between two ticks.                    *)
(***************************************************************************)
EXTENDS Integers

CONSTANTS
    Delay,      \* sustained_seconds or blocked_seconds
    Cooldown,   \* cooldown_seconds
    MaxTicks    \* bound: the clock

ASSUME NoticeAssumption == Delay \in Nat /\ Cooldown \in Nat \ {0} /\ MaxTicks \in Nat

VARIABLES
    time,
    prefs,      \* the feature settings
    incident,     \* the persisted record of the fault
    notice,     \* the message on its way
    phone       \* what the administrator has received

noticeVars == <<time, prefs, incident, notice, phone>>

\* The epoch lies far back: a record without an attempt never holds one up.
Never == -Cooldown

NoticeTypeOK ==
    /\ time \in 0..MaxTicks
    /\ prefs \in [on : BOOLEAN, recovery : BOOLEAN]
    /\ incident \in [active : BOOLEAN, since : 0..MaxTicks, attempt : Never..MaxTicks,
                   delivered : BOOLEAN]
    /\ notice \in {"none", "alert", "recovery", "delivered"}
    /\ phone \in [last : {"none", "alert", "recovery"}, alert : Never..MaxTicks]

NoticeInit ==
    /\ time = 0 /\ prefs = [on |-> TRUE, recovery |-> TRUE]
    /\ incident = [active |-> FALSE, since |-> 0, attempt |-> Never, delivered |-> FALSE]
    /\ notice = "none" /\ phone = [last |-> "none", alert |-> Never]

-------------------------------------------------------------------------------
First == IF incident.active THEN incident.since ELSE time

Emits(active) == active /\ time - First >= Delay /\ time - incident.attempt >= Cooldown

Recovery(active) == ~ active /\ incident.active /\ incident.delivered /\ prefs.recovery

\* Mutant: a delivery is remembered beyond the end of the fault.
Remembered(active) == incident.delivered

\* An alert that was delivered belongs to the fault that is still there.
Delivered(active) == active /\ incident.delivered

\* The attempt is reserved before Telegram is awaited.
Attempt(active) == IF Emits(active) \/ Recovery(active) THEN time ELSE incident.attempt

\* One tick up to the commit.  An unknown observation does nothing.
Observes(active) ==
    /\ notice = "none" /\ prefs.on
    /\ incident' = [active |-> active, since |-> First, attempt |-> Attempt(active),
                  delivered |-> Delivered(active)]
    /\ notice' = IF Emits(active) THEN "alert" ELSE IF Recovery(active) THEN "recovery" ELSE "none"
    /\ UNCHANGED <<time, prefs, phone>>

\* The message arrives or not; an arrival is confirmed or not.
Reaches(confirmed) ==
    /\ notice \in {"alert", "recovery"}
    /\ phone' = [last |-> notice, alert |-> IF notice = "alert" THEN time ELSE phone.alert]
    /\ notice' = IF confirmed /\ notice = "alert" THEN "delivered" ELSE "none"
    /\ UNCHANGED <<time, prefs, incident>>

FailsToArrive ==
    /\ notice \in {"alert", "recovery"}
    /\ notice' = "none"
    /\ UNCHANGED <<time, prefs, incident, phone>>

MarksDelivered ==
    /\ notice = "delivered"
    /\ incident' = [incident EXCEPT !.delivered = TRUE]
    /\ notice' = "none"
    /\ UNCHANGED <<time, prefs, phone>>

BotCrashes ==
    /\ notice # "none"
    /\ notice' = "none"
    /\ UNCHANGED <<time, prefs, incident, phone>>

ChangesPrefs(p) ==
    /\ prefs' = p
    /\ UNCHANGED <<time, incident, notice, phone>>

ClockAdvances ==
    /\ notice = "none" /\ time < MaxTicks
    /\ time' = time + 1
    /\ UNCHANGED <<prefs, incident, notice, phone>>

NoticeNext ==
    \/ \E active \in BOOLEAN : Observes(active)
    \/ \E confirmed \in BOOLEAN : Reaches(confirmed)
    \/ FailsToArrive \/ MarksDelivered \/ BotCrashes \/ ClockAdvances
    \/ \E p \in [on : BOOLEAN, recovery : BOOLEAN] : ChangesPrefs(p)

NoticeSpec == NoticeInit /\ [][NoticeNext]_noticeVars

-------------------------------------------------------------------------------
(* Properties *)

\* The administrator hears of a recovery only after an alert that has reached
\* them, and once; and two alerts lie a cooldown apart.  Neither a crash nor
\* a message without a confirmation changes that.
NoticesInOrder ==
    [][/\ notice' = "recovery" => phone'.last = "alert"
       /\ phone'.alert # phone.alert => phone'.alert - phone.alert >= Cooldown]_noticeVars

================================================================================
