--------------------------------- MODULE Pacing ---------------------------------
(***************************************************************************)
(* How the listening account keeps to the waits Telegram announces.  Each  *)
(* running download sends one chunk request after another through          *)
(* ListeningClient._call; a wait announced to one of them holds all of the *)
(* same type at a shared gate.  Every wait also lowers the account's cap   *)
(* of concurrent downloads (DownloadBackoff), which the scheduler applies. *)
(*                                                                         *)
(* One step lasts from one await to the next.  The gates of the request    *)
(* types do not touch each other: there is one.  The resource window       *)
(* belongs to everybody's downloads and moves as it likes.                 *)
(***************************************************************************)
EXTENDS Integers, FiniteSets

CONSTANTS
    Readers,            \* downloads of the account
    Announced,          \* lengths of the waits Telegram asks for
    MaxWaits,           \* MAX_CHUNK_WAITS
    MaxWaited,          \* MAX_CHUNK_WAIT_SECONDS
    ReduceInterval, RecoverInterval,
    MaxWindow,          \* bound: the resource window
    MaxTime             \* bound: the clock

ASSUME PacingAssumption ==
    /\ Announced \subseteq Nat \ {0}
    /\ MaxWaits \in Nat /\ MaxWaited \in Nat
    /\ ReduceInterval \in Nat /\ RecoverInterval \in Nat
    /\ MaxWindow \in Nat \ {0} /\ MaxTime \in Nat

VARIABLES
    clock,
    gate,       \* the deadline in _premium_download_gates; 0: no entry
    reader,     \* the request of each download
    window,     \* download_window
    backoff,    \* DownloadBackoff; cap 0: none
    cooling,    \* the account's cooldown_until
    latest      \* the end of the longest wait Telegram has announced

pacingVars == <<clock, gate, reader, window, backoff, cooling, latest>>

\* The clock's instants and the ends of the waits announced at them.
Instants == UNION {0..(MaxTime + n) : n \in Announced \cup {0}}
NoRequest == [pc |-> "idle", saw |-> 0, waits |-> 0, waited |-> 0]

PacingTypeOK ==
    /\ clock \in 0..MaxTime /\ gate \in Instants /\ latest \in Instants /\ cooling \in Instants
    /\ reader \in [Readers -> [pc : {"idle", "sent", "asleep"}, saw : Instants,
                               waits : 0..MaxWaits, waited : 0..MaxWaited]]
    /\ window \in 0..MaxWindow
    /\ backoff \in [cap : 0..MaxWindow, reduced : -ReduceInterval..MaxTime,
                    recover : 0..(MaxTime + RecoverInterval)]

PacingInit ==
    /\ clock = 0 /\ gate = 0 /\ latest = 0 /\ cooling = 0
    /\ reader = [r \in Readers |-> NoRequest]
    /\ window \in 1..MaxWindow
    /\ backoff = [cap |-> 0, reduced |-> -ReduceInterval, recover |-> 0]

-------------------------------------------------------------------------------
AtLeast1(n) == IF n < 1 THEN 1 ELSE n
Smaller(m, n) == IF m <= n THEN m ELSE n
Larger(m, n) == IF m <= n THEN n ELSE m

\* Concurrent chunks report the same wait.
NewBurst == clock - backoff.reduced >= ReduceInterval

\* DownloadBackoff.limited
Limited ==
    LET current == IF backoff.cap = 0 THEN AtLeast1(window) ELSE Smaller(AtLeast1(window), backoff.cap)
        later == clock + RecoverInterval
    IN IF NewBurst
       THEN [cap |-> AtLeast1(current \div 2), reduced |-> clock, recover |-> later]
       ELSE [backoff EXCEPT !.recover = later]

\* DownloadBackoff.allowed: what it returns and what it leaves behind.
Recovers == backoff.cap # 0 /\ window # 0 /\ clock >= backoff.recover
Concurrent ==
    IF backoff.cap = 0 \/ window = 0 THEN window
    ELSE Smaller(window, IF Recovers THEN backoff.cap + 1 ELSE backoff.cap)

\* Mutant: the cap grows past the window.
NeverLifted ==
    IF ~ Recovers THEN backoff
    ELSE [backoff EXCEPT !.cap = @ + 1, !.recover = clock + RecoverInterval]

\* The cap grows by one per interval and is lifted once the window is reached.
AfterAllowed ==
    IF ~ Recovers THEN backoff
    ELSE IF backoff.cap + 1 >= window
    THEN [cap |-> 0, reduced |-> -ReduceInterval, recover |-> clock + RecoverInterval]
    ELSE [backoff EXCEPT !.cap = @ + 1, !.recover = clock + RecoverInterval]

Running == {r \in Readers : reader[r].pc # "idle"}

\* One turn of the loop in _call, with the gate at `g`: the request is sent,
\* or waits, or gives up and leaves the wait to the task's own cooldown.
Turn(r, g, waits, waited) ==
    LET remaining == Larger(0, g - clock) IN
    \/ /\ remaining = 0
       /\ reader' = [reader EXCEPT ![r] = [@ EXCEPT !.pc = "sent", !.waits = waits, !.waited = waited]]
       /\ UNCHANGED <<backoff, cooling>>
    \/ /\ remaining # 0
       /\ reader' = [reader EXCEPT ![r] =
             IF waits >= MaxWaits \/ waited + remaining > MaxWaited THEN NoRequest
             ELSE [pc |-> "asleep", saw |-> g, waits |-> waits + 1, waited |-> waited + remaining]]
       /\ backoff' = Limited
       /\ cooling' = Larger(cooling, clock + remaining)

\* _start_downloads admits one of the account's downloads.  The cap is looked
\* up, and may recover, whether or not the download is then admitted.
AdmitsReader(r) ==
    /\ reader[r].pc = "idle" /\ cooling <= clock
    /\ backoff' = AfterAllowed
    /\ IF Cardinality(Running) < Concurrent
       THEN reader' = [reader EXCEPT ![r] = [NoRequest EXCEPT !.pc = "sent"]]
       ELSE UNCHANGED reader
    /\ UNCHANGED <<clock, gate, window, cooling, latest>>

\* The answer: the end of the file or the next chunk, a request of its own.
EndsRead(r) ==
    /\ reader[r].pc = "sent"
    /\ reader' = [reader EXCEPT ![r] = NoRequest]
    /\ UNCHANGED <<clock, gate, window, backoff, cooling, latest>>

NextChunk(r) ==
    /\ reader[r].pc = "sent"
    /\ Turn(r, gate, 0, 0)
    /\ UNCHANGED <<clock, gate, window, latest>>

\* Kept when it ends no earlier than the one at the gate.
LongerWait(until) == IF until >= gate THEN until ELSE gate

\* FloodWaitError or FloodPremiumWaitError of n seconds.
Flooded(r, n) ==
    /\ reader[r].pc = "sent"
    /\ gate' = LongerWait(clock + n)
    /\ latest' = Larger(latest, clock + n)
    /\ Turn(r, gate', reader[r].waits, reader[r].waited)
    /\ UNCHANGED <<clock, window>>

\* Mutant: whoever wakes clears the gate.
ClearedAnyway(r) == 0

\* A newer, longer wait stays.
Cleared(r) == IF gate = reader[r].saw THEN 0 ELSE gate

Wakes(r) ==
    /\ reader[r].pc = "asleep" /\ clock >= reader[r].saw
    /\ gate' = Cleared(r)
    /\ Turn(r, gate', reader[r].waits, reader[r].waited)
    /\ UNCHANGED <<clock, window, latest>>

\* The task is cancelled, its coroutine ends, validate() refuses.
ReaderGivesUp(r) ==
    /\ reader[r].pc # "idle"
    /\ reader' = [reader EXCEPT ![r] = NoRequest]
    /\ UNCHANGED <<clock, gate, window, backoff, cooling, latest>>

WindowMoves(n) ==
    /\ window' = n
    /\ UNCHANGED <<clock, gate, reader, backoff, cooling, latest>>

TimePasses ==
    /\ clock < MaxTime
    /\ clock' = clock + 1
    /\ UNCHANGED <<gate, reader, window, backoff, cooling, latest>>

PacingNext ==
    \/ \E r \in Readers :
          \/ AdmitsReader(r) \/ EndsRead(r) \/ NextChunk(r) \/ Wakes(r) \/ ReaderGivesUp(r)
          \/ \E n \in Announced : Flooded(r, n)
    \/ \E n \in 0..MaxWindow : WindowMoves(n)
    \/ TimePasses

PacingSpec == PacingInit /\ [][PacingNext]_pacingVars

-------------------------------------------------------------------------------
(* Properties *)

\* No request starts before the longest wait announced so far is over, whoever
\* it was announced to and whatever shorter wait came after it.
WaitsHonoured ==
    [][\A r \in Readers :
          reader[r].pc # "sent" /\ reader'[r].pc = "sent" => latest <= clock]_pacingVars

================================================================================
