---------------------------- MODULE DestinationWatch ----------------------------
(***************************************************************************)
(* Whether the OpenList side may be used, and how many transfers at once.  *)
(* The destination loop and the dashboard probe it, one at a time and      *)
(* never against a pause a gateway asked for; each turn of the resource    *)
(* loop moves the adaptive window by what it measures and by the last      *)
(* probe (transfer/destination.py, transfer/scheduler.py _resource_loop,   *)
(* monitoring/resources.py AdaptiveWindow).                                *)
(***************************************************************************)
EXTENDS Naturals

CONSTANTS
    Askers,         \* the destination loop and the dashboards that refresh it
    HealthInterval, \* settings.remote_health_interval
    Soon,           \* min(10, remote_health_interval)
    Refusal,        \* 300 s after a 401 or 403
    RateBase, RateTop, MaxStrikes,  \* 60, 900 s and 5, the pauses after a 429
    Grace,          \* how much longer than the interval a result counts (45 s)
    Ceiling,        \* transfers the free memory allows
    RampUp,         \* settings.ramp_up_step
    GrowthPause, TrialPause,        \* before the next growth, and after one that was undone
    MaxMoment       \* bound on the clock

ASSUME WatchAssumption ==
    /\ {HealthInterval, Soon, Refusal, RateBase, RateTop, Grace, MaxMoment} \subseteq Nat
    /\ {Ceiling, RampUp, MaxStrikes} \subseteq Nat \ {0} /\ {GrowthPause, TrialPause} \subseteq Nat

VARIABLES
    moment,
    asker,      \* where each caller of _probe_destination_once is
    probe,      \* destination_healthy, _last_checked, _next_probe_at and the 429s in a row
    win,        \* one AdaptiveWindow
    pause       \* the end of the last pause a gateway was promised

watchVars == <<moment, asker, probe, win, pause>>

-----------------------------------------------------------------------------
AtMost(m, n) == IF m <= n THEN m ELSE n
NotBelow(m, n) == IF m >= n THEN m ELSE n

Probing == \E a \in Askers : asker[a] = "probing"
\* The dashboard leaves a result alone that is still fresh; the loop does not look.
Asks(a) ==
    /\ asker[a] = "away"
    /\ asker' = [asker EXCEPT ![a] = "queued"]
    /\ UNCHANGED <<moment, probe, win, pause>>
\* Mutant: whoever has waited for the lock probes.
NotMerged == FALSE
\* Refreshes that waited for the lock are merged with the probe they waited for.
StillPaused == moment < probe.next
TakesTurn(a) ==
    /\ asker[a] = "queued" /\ ~Probing
    /\ asker' = [asker EXCEPT ![a] = IF StillPaused THEN "away" ELSE "probing"]
    /\ UNCHANGED <<moment, probe, win, pause>>

Kinds == {"fine", "rate_limited", "unauthorized", "permission", "other"}
Strikes(kind) == IF kind = "rate_limited" THEN AtMost(MaxStrikes, probe.strikes + 1) ELSE 0
PauseAfter(kind) ==
    CASE kind = "rate_limited" -> AtMost(RateTop, RateBase * 2 ^ (Strikes(kind) - 1))
      [] kind \in {"unauthorized", "permission"} -> Refusal
      [] kind = "fine" -> Soon
      [] kind = "other" -> HealthInterval
\* The listing of the target (or, if there is none yet, of the root), a time-out, an exception.
Probed(a, kind) ==
    /\ asker[a] = "probing"
    /\ asker' = [asker EXCEPT ![a] = "away"]
    /\ probe' = [healthy |-> kind = "fine", checked |-> moment, strikes |-> Strikes(kind),
                 next |-> moment + PauseAfter(kind)]
    /\ pause' = moment + PauseAfter(kind)
    /\ UNCHANGED <<moment, win>>
\* The coroutine is cancelled while it waits: nothing is known.
AskerStops(a) ==
    /\ asker[a] # "away"
    /\ asker' = [asker EXCEPT ![a] = "away"]
    /\ UNCHANGED <<moment, probe, win, pause>>

-----------------------------------------------------------------------------
\* A result that is too old does not count.
Ready == probe.healthy /\ moment - probe.checked <= HealthInterval + Grace

Loads == {"low", "even", "high", "pressed"}    \* of the processor, or too many errors
NoTrial == [from |-> 0, rate |-> 0]
Samples == [load : Loads, memory : {"short", "tight", "ample"}, rate : 0 .. 1, demand : BOOLEAN,
            room : BOOLEAN]   \* room: no errors, no backlog, the window is used up

Paused(s) == s.memory = "short" \/ ~Ready
\* A growth that did not raise the rate is undone once its time is up.
Judged(s) ==
    LET late == win.trial # NoTrial /\ moment >= win.grow
        idle == late /\ win.trial.rate > 0 /\ s.rate <= win.trial.rate IN
    [win EXCEPT !.value = IF idle THEN AtMost(@, win.trial.from) ELSE @,
                !.grow = IF idle THEN moment + TrialPause ELSE @,
                !.trial = IF late THEN NoTrial ELSE @,
                !.pressed = IF s.load = "pressed" THEN AtMost(2, @ + 1) ELSE 0]
MayGrow(s, w) ==
    s.load = "low" /\ s.room /\ moment >= w.grow /\ s.rate > 0 /\ s.rate >= w.rate
\* Two pressed turns halve the window, one that is loaded takes one off, a quiet one adds some.
Moved(s, w) ==
    IF w.pressed = 2
    THEN [w EXCEPT !.value = NotBelow(NotBelow(@, 1) \div 2, 1), !.trial = NoTrial,
                   !.grow = moment + GrowthPause]
    ELSE IF s.load = "high" \/ s.memory = "tight"
    THEN [w EXCEPT !.value = IF @ <= 2 THEN 1 ELSE @ - 1, !.trial = NoTrial,
                   !.grow = moment + GrowthPause]
    ELSE IF MayGrow(s, w)
    THEN [w EXCEPT !.trial = [from |-> NotBelow(w.value, 1), rate |-> s.rate],
                   !.value = @ + RampUp, !.grow = moment + GrowthPause]
    ELSE w
Measures(s) ==
    /\ win' = IF Paused(s) THEN [win EXCEPT !.value = 0, !.trial = NoTrial]
              ELSE IF ~s.demand THEN [win EXCEPT !.value = 1, !.trial = NoTrial]
              ELSE LET w == Moved(s, Judged(s)) IN
                   [w EXCEPT !.value = AtMost(NotBelow(@, 1), Ceiling), !.rate = s.rate]
    /\ UNCHANGED <<moment, asker, probe, pause>>

Ticks ==
    /\ moment < MaxMoment
    /\ moment' = moment + 1
    /\ UNCHANGED <<asker, probe, win, pause>>

-----------------------------------------------------------------------------
WatchInit ==
    /\ moment = 0 /\ pause = 0
    /\ asker = [a \in Askers |-> "away"]
    /\ probe = [healthy |-> FALSE, checked |-> 0, next |-> 0, strikes |-> 0]
    /\ win = [value |-> 1, rate |-> 0, pressed |-> 0, grow |-> 0, trial |-> NoTrial]

WatchNext ==
    \/ \E a \in Askers :
          Asks(a) \/ TakesTurn(a) \/ AskerStops(a) \/ (\E kind \in Kinds : Probed(a, kind))
    \/ \E s \in Samples : Measures(s)
    \/ Ticks

WatchTypeOK ==
    /\ asker \in [Askers -> {"away", "queued", "probing"}]
    /\ probe.strikes \in 0 .. MaxStrikes /\ probe.checked \in 0 .. MaxMoment
    /\ win.value \in 0 .. NotBelow(1, Ceiling)
    /\ win.trial # NoTrial => win.trial.from \in 1 .. NotBelow(1, Ceiling)

\* A probe starts only when no other one runs and the pause after the last one is over, however
\* many callers waited for its result (_probe_destination_once never bypasses a 401 or a 429).
ProbesApart ==
    [][\A a \in Askers : asker[a] # "probing" /\ asker'[a] = "probing" =>
          ~Probing /\ pause <= moment]_watchVars

WatchSpec == WatchInit /\ [][WatchNext]_watchVars
===============================================================================
