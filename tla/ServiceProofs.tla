----------------------------- MODULE ServiceProofs -----------------------------
(***************************************************************************)
(* Proofs about fault notices, shared flood waits, the probes of the       *)
(* destination, admission, the listener account and the family's grants,   *)
(* for any delays, callers, announced waits, tasks, limits, accounts,      *)
(* clients, members and requests, and about the composition MCService,     *)
(* whose machines keep what each alone was proved to keep.                 *)
(***************************************************************************)
EXTENDS MCService, DialogueProofs, FiniteSetTheorems, TLAPS

(* Fault notices *)

\* What the persisted record says of the administrator's phone: a delivery
\* that is marked, or about to be, was the last thing to arrive; so was it
\* when a recovery notice goes out, which no longer rests on the record.
Told ==
    /\ incident.delivered => phone.last = "alert"
    /\ notice = "delivered" => phone.last = "alert"
    /\ notice = "recovery" => ~ incident.delivered /\ phone.last = "alert"

\* No alert arrived after the last attempt; one under way was attempted now,
\* a cooldown after the last that arrived.
Spaced ==
    /\ phone.alert <= incident.attempt /\ incident.attempt <= time
    /\ notice = "alert" => incident.attempt = time /\ time - phone.alert >= Cooldown

NoticeInv == NoticeTypeOK /\ Told /\ Spaced

-------------------------------------------------------------------------------
LEMMA NoticeTimes == Cooldown \in Nat \ {0} /\ Never \in Int /\ Never <= -1 /\ 0 \in 0..MaxTicks
               /\ MaxTicks \in Nat /\ Delay \in Nat
BY NoticeAssumption DEF Never

LEMMA NoticeStarts == NoticeInit => NoticeInv
<1> SUFFICES ASSUME NoticeInit PROVE NoticeInv
  OBVIOUS
<1>1. Never \in Never..MaxTicks
  BY NoticeTimes
<1> QED BY <1>1, NoticeTimes DEF NoticeInit, NoticeInv, NoticeTypeOK, Told, Spaced

\* A tick: an attempt is recorded with the message it is for.
LEMMA ObservesInv ==
    ASSUME NoticeInv, NEW active \in BOOLEAN, Observes(active)
    PROVE  NoticeInv'
<1> USE DEF NoticeInv
<1>1. First \in 0..MaxTicks
  BY DEF First, NoticeTypeOK
<1>2. /\ Attempt(active) \in Never..MaxTicks
      /\ phone.alert <= Attempt(active) /\ Attempt(active) <= time
  <2>1. Attempt(active) \in {time, incident.attempt}
    BY DEF Attempt
  <2>2. time \in Never..MaxTicks /\ phone.alert <= incident.attempt /\ incident.attempt <= time
        /\ phone.alert \in Int /\ incident.attempt \in Never..MaxTicks
    BY NoticeTimes DEF NoticeTypeOK, Spaced
  <2>3. phone.alert <= time
    BY <2>2, NoticeTimes
  <2> QED BY <2>1, <2>2, <2>3, NoticeTimes
<1>3. NoticeTypeOK'
  BY <1>1, <1>2 DEF Observes, NoticeTypeOK, Delivered
<1>4. Told'
  BY DEF Observes, Told, Delivered, Recovery, Emits
<1>5. Spaced'
  <2>1. phone'.alert <= incident'.attempt /\ incident'.attempt <= time'
    BY <1>2 DEF Observes
  <2>2. ASSUME notice' = "alert" PROVE incident'.attempt = time' /\ time' - phone'.alert >= Cooldown
    <3>1. Emits(active)
      BY <2>2 DEF Observes
    <3>2. incident'.attempt = time /\ time' = time /\ phone' = phone
      BY <3>1 DEF Observes, Attempt
    <3>3. time - incident.attempt >= Cooldown /\ phone.alert <= incident.attempt
      BY <3>1 DEF Emits, Spaced
    <3>4. time \in Int /\ incident.attempt \in Int /\ phone.alert \in Int
      BY NoticeTimes DEF NoticeTypeOK
    <3>5. time - phone.alert >= Cooldown
      BY <3>3, <3>4, NoticeTimes
    <3> QED BY <3>2, <3>5
  <2> QED BY <2>1, <2>2 DEF Spaced
<1> QED BY <1>3, <1>4, <1>5

\* A message that arrives.
LEMMA ReachesInv ==
    ASSUME NoticeInv, NEW confirmed \in BOOLEAN, Reaches(confirmed)
    PROVE  NoticeInv'
<1> USE DEF NoticeInv
<1>1. time \in Never..MaxTicks
  BY NoticeTimes DEF NoticeTypeOK
<1>2. NoticeTypeOK'
  BY <1>1 DEF Reaches, NoticeTypeOK
<1>3. Told'
  BY DEF Reaches, Told, NoticeTypeOK
<1>4. Spaced'
  BY <1>1, NoticeTimes DEF Reaches, Spaced, NoticeTypeOK
<1> QED BY <1>2, <1>3, <1>4

LEMMA NoticeSteps == NoticeInv /\ [NoticeNext]_noticeVars => NoticeInv'
<1> SUFFICES ASSUME NoticeInv, [NoticeNext]_noticeVars PROVE NoticeInv'
  OBVIOUS
<1>1. CASE \E active \in BOOLEAN : Observes(active)
  BY <1>1, ObservesInv
<1>2. CASE \E confirmed \in BOOLEAN : Reaches(confirmed)
  BY <1>2, ReachesInv
<1>3. CASE FailsToArrive \/ BotCrashes
  BY <1>3 DEF FailsToArrive, BotCrashes, NoticeInv, NoticeTypeOK, Told, Spaced
<1>4. CASE MarksDelivered
  BY <1>4 DEF MarksDelivered, NoticeInv, NoticeTypeOK, Told, Spaced
<1>5. CASE ClockAdvances
  BY <1>5, NoticeTimes DEF ClockAdvances, NoticeInv, NoticeTypeOK, Told, Spaced
<1>6. CASE \E p \in [on : BOOLEAN, recovery : BOOLEAN] : ChangesPrefs(p)
  BY <1>6 DEF ChangesPrefs, NoticeInv, NoticeTypeOK, Told, Spaced
<1>7. CASE UNCHANGED noticeVars
  BY <1>7 DEF noticeVars, NoticeInv, NoticeTypeOK, Told, Spaced
<1> QED BY <1>1, <1>2, <1>3, <1>4, <1>5, <1>6, <1>7 DEF NoticeNext

\* The record of a fault and the administrator's phone never disagree in a
\* way that matters (notifications.tick, over crashes and lost confirmations).
THEOREM NoticeInvariant == NoticeSpec => []NoticeInv
BY NoticeStarts, NoticeSteps, PTL DEF NoticeSpec

LEMMA StepInOrder ==
    ASSUME NoticeInv, NoticeInv', [NoticeNext]_noticeVars
    PROVE  /\ notice' = "recovery" => phone'.last = "alert"
           /\ phone'.alert # phone.alert => phone'.alert - phone.alert >= Cooldown
<1>1. notice' = "recovery" => phone'.last = "alert"
  BY DEF NoticeInv, Told
<1>2. ASSUME phone'.alert # phone.alert PROVE phone'.alert - phone.alert >= Cooldown
  <2>1. PICK confirmed \in BOOLEAN : Reaches(confirmed)
    BY <1>2 DEF NoticeNext, noticeVars, Observes, FailsToArrive, MarksDelivered, BotCrashes,
                ClockAdvances, ChangesPrefs
  <2>2. notice = "alert" /\ phone'.alert = time
    BY <1>2, <2>1 DEF Reaches
  <2> QED BY <2>2 DEF NoticeInv, Spaced
<1> QED BY <1>1, <1>2

\* A recovery notice follows a delivered alert, and alerts that arrive lie a
\* cooldown apart, whatever crashes or goes unconfirmed (notifications.tick).
THEOREM NoticesOrdered == NoticeSpec => NoticesInOrder
<1>1. NoticeInv /\ NoticeInv' /\ [NoticeNext]_noticeVars
        => [/\ notice' = "recovery" => phone'.last = "alert"
            /\ phone'.alert # phone.alert => phone'.alert - phone.alert >= Cooldown]_noticeVars
  BY StepInOrder
<1> QED BY <1>1, NoticeInvariant, PTL DEF NoticeSpec, NoticesInOrder

-------------------------------------------------------------------------------
(* Flood waits that parallel chunk requests share *)

Requests == [pc : {"idle", "sent", "asleep"}, saw : Nat, waits : Nat, waited : Nat]

PacingShape ==
    /\ clock \in Nat /\ gate \in Nat /\ latest \in Nat /\ cooling \in Nat
    /\ reader \in [Readers -> Requests]

\* The longest wait is over, or the gate still holds the requests that run
\* and the account's cooldown those that might be started.
Guarded ==
    /\ latest <= clock \/ latest <= gate
    /\ latest <= clock \/ latest <= cooling

PacingInv == PacingShape /\ Guarded

-------------------------------------------------------------------------------
LEMMA PacingStarts == PacingInit => PacingInv
BY DEF PacingInit, PacingInv, PacingShape, Guarded, Requests, NoRequest

\* What a turn of the loop in _call does at a gate.
LEMMA TurnEffect ==
    ASSUME PacingShape, NEW r \in Readers, NEW g \in Nat, NEW waits \in Nat, NEW waited \in Nat,
           Turn(r, g, waits, waited)
    PROVE  /\ reader' \in [Readers -> Requests]
           /\ \A x \in Readers : x # r => reader'[x] = reader[x]
           /\ reader'[r].pc = "sent" => g <= clock
           /\ cooling' \in Nat /\ cooling' >= cooling
           /\ g > clock => cooling' >= g
<1> DEFINE remaining == Larger(0, g - clock)
<1>1. remaining \in Nat /\ (remaining = 0 <=> g <= clock) /\ (g > clock => remaining = g - clock)
  BY DEF PacingShape, Larger
<1>2. CASE remaining = 0
  <2> DEFINE next == [reader[r] EXCEPT !.pc = "sent", !.waits = waits, !.waited = waited]
  <2>1. reader' = [reader EXCEPT ![r] = next] /\ cooling' = cooling
    BY <1>2 DEF Turn
  <2>2. next \in Requests
    BY DEF PacingShape, Requests
  <2>3. reader' \in [Readers -> Requests] /\ \A x \in Readers : x # r => reader'[x] = reader[x]
    <3> HIDE DEF next
    <3> QED BY <2>1, <2>2 DEF PacingShape
  <2>4. g <= clock /\ cooling' \in Nat /\ cooling' >= cooling
    <3> HIDE DEF remaining
    <3> QED BY <1>1, <1>2, <2>1 DEF PacingShape
  <2>5. g > clock => cooling' >= g
    BY <2>4 DEF PacingShape
  <2> QED BY <2>3, <2>4, <2>5
<1>3. CASE remaining # 0
  <2> DEFINE sleeps == [pc |-> "asleep", saw |-> g, waits |-> waits + 1, waited |-> waited + remaining]
  <2>1. NoRequest \in Requests /\ sleeps \in Requests /\ NoRequest.pc # "sent" /\ sleeps.pc # "sent"
    BY <1>1 DEF Requests, NoRequest
  <2>2. PICK next \in {NoRequest, sleeps} : reader' = [reader EXCEPT ![r] = next]
    BY <1>3 DEF Turn
  <2>3. cooling' = Larger(cooling, clock + remaining)
    BY <1>3 DEF Turn
  <2>4. cooling' \in Nat /\ cooling' >= cooling /\ cooling' >= clock + remaining
    <3> HIDE DEF remaining
    <3> QED BY <1>1, <2>3 DEF Larger, PacingShape
  <2>5. g > clock => cooling' >= g
    <3> HIDE DEF remaining
    <3> QED BY <1>1, <2>4 DEF PacingShape
  <2>6. reader' \in [Readers -> Requests] /\ (\A x \in Readers : x # r => reader'[x] = reader[x])
        /\ reader'[r].pc # "sent"
    <3> HIDE DEF sleeps
    <3> QED BY <2>1, <2>2 DEF PacingShape
  <2> QED BY <2>4, <2>5, <2>6
<1> QED BY <1>2, <1>3

\* What every step keeps, and that a request starts only after the wait.
Kept ==
    /\ PacingInv'
    /\ \A r \in Readers : reader[r].pc # "sent" /\ reader'[r].pc = "sent" => latest <= clock

\* A wait of n seconds is announced; it holds at the gate and for the account.
LEMMA FloodedKept ==
    ASSUME PacingInv, NEW r \in Readers, NEW n \in Announced, Flooded(r, n)
    PROVE  Kept
<1> USE DEF PacingInv
<1>1. n \in Nat /\ n > 0
  BY PacingAssumption
<1>2. gate' \in Nat /\ gate' >= clock + n /\ gate' >= gate /\ gate' > clock
  BY <1>1 DEF Flooded, LongerWait, PacingShape
<1>3. latest' \in Nat /\ latest' <= gate' /\ clock' = clock
  BY <1>1, <1>2 DEF Flooded, Larger, PacingShape, Guarded
<1>4. reader[r].waits \in Nat /\ reader[r].waited \in Nat /\ reader[r].pc = "sent"
  BY DEF PacingShape, Requests, Flooded
<1>5. Turn(r, gate', reader[r].waits, reader[r].waited)
  BY DEF Flooded
<1>6. /\ reader' \in [Readers -> Requests] /\ cooling' \in Nat /\ cooling' >= gate'
      /\ \A x \in Readers : x # r => reader'[x] = reader[x]
  BY <1>2, <1>4, <1>5, TurnEffect
<1>7. PacingShape' /\ Guarded'
  BY <1>2, <1>3, <1>6 DEF PacingShape, Guarded
<1> QED BY <1>4, <1>6, <1>7 DEF Kept

\* A request that slept looks at the gate again and clears only what it saw.
LEMMA WakesKept ==
    ASSUME PacingInv, NEW r \in Readers, Wakes(r)
    PROVE  Kept
<1> USE DEF PacingInv
<1>1. reader[r].waits \in Nat /\ reader[r].waited \in Nat /\ reader[r].saw \in Nat
  BY DEF PacingShape, Requests
<1>2. gate' \in Nat /\ (gate' = gate \/ gate <= clock) /\ clock' = clock /\ latest' = latest
  BY <1>1 DEF Wakes, Cleared, PacingShape
<1>3. Turn(r, gate', reader[r].waits, reader[r].waited)
  BY DEF Wakes
<1>4. /\ reader' \in [Readers -> Requests] /\ cooling' \in Nat /\ cooling' >= cooling
      /\ reader'[r].pc = "sent" => gate' <= clock
      /\ \A x \in Readers : x # r => reader'[x] = reader[x]
  BY <1>1, <1>2, <1>3, TurnEffect
<1>5. PacingShape' /\ Guarded'
  BY <1>2, <1>4 DEF PacingShape, Guarded
<1>6. reader'[r].pc = "sent" => latest <= clock
  BY <1>2, <1>4 DEF PacingShape, Guarded
<1> QED BY <1>4, <1>5, <1>6 DEF Kept

LEMMA NextChunkKept ==
    ASSUME PacingInv, NEW r \in Readers, NextChunk(r)
    PROVE  Kept
<1> USE DEF PacingInv
<1>1. gate \in Nat /\ Turn(r, gate, 0, 0) /\ reader[r].pc = "sent"
      /\ UNCHANGED <<clock, gate, latest>>
  BY DEF NextChunk, PacingShape
<1>2. /\ reader' \in [Readers -> Requests] /\ cooling' \in Nat /\ cooling' >= cooling
      /\ \A x \in Readers : x # r => reader'[x] = reader[x]
  BY <1>1, TurnEffect
<1>3. PacingShape' /\ Guarded'
  BY <1>1, <1>2 DEF PacingShape, Guarded
<1> QED BY <1>1, <1>2, <1>3 DEF Kept

\* The scheduler starts a download only after the account's cooldown.
LEMMA AdmitsKept ==
    ASSUME PacingInv, NEW r \in Readers, AdmitsReader(r)
    PROVE  Kept
<1> USE DEF PacingInv
<1>1. reader' \in [Readers -> Requests]
  BY DEF AdmitsReader, PacingShape, Requests, NoRequest
<1>2. latest <= clock
  BY DEF AdmitsReader, PacingShape, Guarded
<1> QED BY <1>1, <1>2 DEF Kept, AdmitsReader, PacingShape, Guarded

\* Steps that start no request and touch neither gate nor cooldown.
LEMMA QuietKept ==
    ASSUME PacingInv, UNCHANGED <<gate, cooling, latest>>, clock' \in Nat, clock' >= clock,
           reader' \in [Readers -> Requests],
           \A r \in Readers : reader'[r].pc = "sent" => reader[r].pc = "sent"
    PROVE  Kept
BY DEF PacingInv, PacingShape, Guarded, Kept

LEMMA PacingSteps == PacingInv /\ [PacingNext]_pacingVars => Kept
<1> SUFFICES ASSUME PacingInv, [PacingNext]_pacingVars PROVE Kept
  OBVIOUS
<1>1. ASSUME NEW r \in Readers, EndsRead(r) \/ ReaderGivesUp(r) PROVE Kept
  <2>1. reader' = [reader EXCEPT ![r] = NoRequest] /\ UNCHANGED <<clock, gate, cooling, latest>>
    BY <1>1 DEF EndsRead, ReaderGivesUp
  <2>2. NoRequest \in Requests /\ NoRequest.pc # "sent"
    BY DEF Requests, NoRequest
  <2> QED BY <2>1, <2>2, QuietKept DEF PacingInv, PacingShape
<1>2. CASE \E n \in 0..MaxWindow : WindowMoves(n)
  BY <1>2, QuietKept DEF WindowMoves, PacingInv, PacingShape
<1>3. CASE TimePasses
  BY <1>3, QuietKept DEF TimePasses, PacingInv, PacingShape
<1>4. CASE UNCHANGED pacingVars
  BY <1>4, QuietKept DEF pacingVars, PacingInv, PacingShape
<1>5. CASE \E r \in Readers :
              \/ AdmitsReader(r) \/ EndsRead(r) \/ NextChunk(r) \/ Wakes(r) \/ ReaderGivesUp(r)
              \/ \E n \in Announced : Flooded(r, n)
  BY <1>1, <1>5, AdmitsKept, NextChunkKept, WakesKept, FloodedKept
<1> QED BY <1>2, <1>3, <1>4, <1>5 DEF PacingNext

\* A wait that is not over holds the running requests at the gate and the
\* downloads to come by the cooldown (ListeningClient._call, defer).
THEOREM PacingInvariant == PacingSpec => []PacingInv
<1>1. PacingInv /\ [PacingNext]_pacingVars => PacingInv'
  BY PacingSteps DEF Kept
<1> QED BY <1>1, PacingStarts, PTL DEF PacingSpec

\* No chunk request starts before the longest wait announced so far is over,
\* however many share the gate and in whatever order they wake.
THEOREM PacingHonoursWaits == PacingSpec => WaitsHonoured
<1>1. PacingInv /\ [PacingNext]_pacingVars
        => [\A r \in Readers : reader[r].pc # "sent" /\ reader'[r].pc = "sent" => latest <= clock]_pacingVars
  BY PacingSteps DEF Kept
<1> QED BY <1>1, PacingInvariant, PTL DEF PacingSpec, WaitsHonoured

-------------------------------------------------------------------------------
\* The waits leave the clock's range by no more than the longest of them.
LEMMA InstantsAre ==
    /\ Instants \subseteq Nat
    /\ 0..MaxTime \subseteq Instants
    /\ \A n \in Announced : 0..(MaxTime + n) \subseteq Instants
<1>1. MaxTime \in Nat /\ Announced \subseteq Nat
  BY PacingAssumption
<1>2. ASSUME NEW i \in Instants PROVE i \in Nat
  <2>1. PICK n \in Announced \cup {0} : i \in 0..(MaxTime + n)
    BY DEF Instants
  <2> QED BY <1>1, <2>1
<1>3. 0..(MaxTime + 0) \subseteq Instants
  BY DEF Instants
<1>4. \A n \in Announced : 0..(MaxTime + n) \subseteq Instants
  BY DEF Instants
<1> QED BY <1>1, <1>2, <1>3, <1>4

\* The request of a download, within what Telegram announces and _call tolerates.
ReaderRow == [pc : {"idle", "sent", "asleep"}, saw : Instants, waits : 0..MaxWaits,
              waited : 0..MaxWaited]
BackoffRow == [cap : 0..MaxWindow, reduced : -ReduceInterval..MaxTime,
               recover : 0..(MaxTime + RecoverInterval)]

LEMMA PacingNumbers ==
    /\ MaxTime \in Nat /\ MaxWindow \in Nat /\ MaxWindow >= 1 /\ ReduceInterval \in Nat
    /\ RecoverInterval \in Nat /\ MaxWaits \in Nat /\ MaxWaited \in Nat
    /\ 0 \in Instants /\ NoRequest \in ReaderRow
<1>1. /\ MaxTime \in Nat /\ MaxWindow \in Nat /\ MaxWindow >= 1 /\ ReduceInterval \in Nat
      /\ RecoverInterval \in Nat /\ MaxWaits \in Nat /\ MaxWaited \in Nat
  BY PacingAssumption
<1>2. 0 \in Instants
  <2>1. 0 \in 0..MaxTime
    BY <1>1
  <2> QED BY <2>1, InstantsAre
<1> QED BY <1>1, <1>2 DEF NoRequest, ReaderRow

\* A wait halves the cap, but leaves one download, and never lifts it above the
\* window's largest (DownloadBackoff.limited).
LEMMA LimitedType == ASSUME PacingTypeOK PROVE Limited \in BackoffRow
<1> DEFINE current == IF backoff.cap = 0 THEN AtLeast1(window) ELSE Smaller(AtLeast1(window), backoff.cap)
           later == clock + RecoverInterval
<1>1. /\ backoff.cap \in 0..MaxWindow /\ window \in 0..MaxWindow /\ clock \in 0..MaxTime
      /\ backoff \in BackoffRow
  BY DEF PacingTypeOK, BackoffRow
<1>2. current \in 1..MaxWindow
  BY <1>1, PacingNumbers DEF AtLeast1, Smaller
<1>3. AtLeast1(current \div 2) \in 1..MaxWindow
  <2> HIDE DEF current
  <2>1. current \div 2 \in 0..current
    BY <1>2, PacingNumbers
  <2> DEFINE half == current \div 2
  <2>2. half \in Int /\ half <= MaxWindow
    BY <1>2, <2>1, PacingNumbers
  <2> HIDE DEF half
  <2>3. AtLeast1(half) \in 1..MaxWindow
    BY <2>2, PacingNumbers DEF AtLeast1
  <2> QED BY <2>3 DEF half
<1>4. later \in 0..(MaxTime + RecoverInterval) /\ clock \in -ReduceInterval..MaxTime
  BY <1>1, PacingNumbers
<1>5. CASE NewBurst
  <2> DEFINE half == AtLeast1(current \div 2)
  <2>1. Limited = [cap |-> half, reduced |-> clock, recover |-> later]
    BY <1>5 DEF Limited
  <2>2. half \in 0..MaxWindow
    BY <1>3, PacingNumbers
  <2> HIDE DEF half, later
  <2> QED BY <1>4, <2>1, <2>2 DEF BackoffRow
<1>6. CASE ~ NewBurst
  <2>1. Limited = [backoff EXCEPT !.recover = later]
    BY <1>6 DEF Limited
  <2> HIDE DEF later
  <2> QED BY <1>1, <1>4, <2>1 DEF BackoffRow
<1> QED BY <1>5, <1>6

\* It recovers by one, and is lifted before it passes the window (DownloadBackoff.allowed).
LEMMA AfterAllowedType == ASSUME PacingTypeOK PROVE AfterAllowed \in BackoffRow
<1> DEFINE later == clock + RecoverInterval
<1>1. /\ backoff.cap \in 0..MaxWindow /\ window \in 0..MaxWindow /\ clock \in 0..MaxTime
      /\ backoff \in BackoffRow
  BY DEF PacingTypeOK, BackoffRow
<1>2. later \in 0..(MaxTime + RecoverInterval) /\ -ReduceInterval \in -ReduceInterval..MaxTime
  BY <1>1, PacingNumbers
<1>3. CASE ~ Recovers
  BY <1>1, <1>3 DEF AfterAllowed
<1>4. CASE Recovers /\ backoff.cap + 1 >= window
  <2>1. AfterAllowed = [cap |-> 0, reduced |-> -ReduceInterval, recover |-> later]
    BY <1>4 DEF AfterAllowed
  <2>2. 0 \in 0..MaxWindow
    BY PacingNumbers
  <2> HIDE DEF later
  <2> QED BY <1>2, <2>1, <2>2 DEF BackoffRow
<1>5. CASE Recovers /\ ~ (backoff.cap + 1 >= window)
  <2>1. AfterAllowed = [backoff EXCEPT !.cap = @ + 1, !.recover = later]
    BY <1>5 DEF AfterAllowed
  <2>2. backoff.cap + 1 \in 0..MaxWindow
    BY <1>1, <1>5, PacingNumbers
  <2> HIDE DEF later
  <2> QED BY <1>1, <1>2, <2>1, <2>2 DEF BackoffRow
<1> QED BY <1>3, <1>4, <1>5

LEMMA TurnTypes ==
    ASSUME PacingTypeOK, NEW r \in Readers, NEW g \in Instants, NEW waits \in 0..MaxWaits,
           NEW waited \in 0..MaxWaited, Turn(r, g, waits, waited)
    PROVE  reader' \in [Readers -> ReaderRow] /\ backoff' \in BackoffRow /\ cooling' \in Instants
<1> DEFINE remaining == Larger(0, g - clock)
<1>1. /\ reader \in [Readers -> ReaderRow] /\ backoff \in BackoffRow /\ cooling \in Instants
      /\ clock \in Nat /\ g \in Nat /\ cooling \in Nat
  BY InstantsAre, PacingNumbers DEF PacingTypeOK, ReaderRow, BackoffRow
<1>2. remaining \in Nat /\ (remaining # 0 => clock + remaining = g)
  BY <1>1 DEF Larger
<1>3. CASE remaining = 0
  <2> DEFINE next == [reader[r] EXCEPT !.pc = "sent", !.waits = waits, !.waited = waited]
  <2>1. reader' = [reader EXCEPT ![r] = next] /\ UNCHANGED <<backoff, cooling>>
    BY <1>3 DEF Turn
  <2>2. next \in ReaderRow
    BY <1>1 DEF ReaderRow
  <2> HIDE DEF next
  <2> QED BY <1>1, <2>1, <2>2
<1>4. CASE remaining # 0
  <2> DEFINE sleeps == [pc |-> "asleep", saw |-> g, waits |-> waits + 1, waited |-> waited + remaining]
             gives == waits >= MaxWaits \/ waited + remaining > MaxWaited
  <2>1. /\ reader' = [reader EXCEPT ![r] = IF gives THEN NoRequest ELSE sleeps]
        /\ backoff' = Limited /\ cooling' = Larger(cooling, clock + remaining)
    BY <1>4 DEF Turn
  <2>2. ~ gives => sleeps \in ReaderRow
    <3>1. ~ gives => waits + 1 \in 0..MaxWaits
      BY PacingNumbers
    <3>2. ~ gives => waited + remaining \in 0..MaxWaited
      <4> HIDE DEF remaining
      <4> QED BY <1>2, PacingNumbers
    <3> HIDE DEF remaining, gives
    <3> QED BY <3>1, <3>2 DEF ReaderRow
  <2>3. cooling' \in Instants
    <3> HIDE DEF remaining
    <3> QED BY <1>1, <1>2, <1>4, <2>1 DEF Larger
  <2>4. backoff' \in BackoffRow
    BY <2>1, LimitedType
  <2> HIDE DEF sleeps, gives
  <2> QED BY <1>1, <2>1, <2>2, <2>3, <2>4, PacingNumbers
<1> QED BY <1>3, <1>4

LEMMA PacingTypeStep ==
    ASSUME PacingTypeOK, [PacingNext]_pacingVars
    PROVE  PacingTypeOK'
<1>1. /\ clock \in 0..MaxTime /\ gate \in Instants /\ latest \in Instants /\ cooling \in Instants
      /\ reader \in [Readers -> ReaderRow] /\ window \in 0..MaxWindow /\ backoff \in BackoffRow
      /\ clock \in Nat /\ gate \in Nat /\ latest \in Nat
  BY InstantsAre, PacingNumbers DEF PacingTypeOK, ReaderRow, BackoffRow
<1>2. ASSUME NEW n \in Announced PROVE clock + n \in Instants /\ clock + n \in Nat
  <2>1. n \in Nat /\ clock + n \in 0..(MaxTime + n)
    BY <1>1, PacingNumbers, PacingAssumption
  <2> QED BY <2>1, InstantsAre
<1>3. 0 \in 0..MaxWaits /\ 0 \in 0..MaxWaited
  BY PacingNumbers
<1>4. ASSUME NEW r \in Readers
      PROVE  reader[r].waits \in 0..MaxWaits /\ reader[r].waited \in 0..MaxWaited
  BY <1>1 DEF ReaderRow
<1>5. ASSUME clock' = clock, gate' \in Instants, latest' \in Instants, cooling' \in Instants,
             reader' \in [Readers -> ReaderRow], window' = window, backoff' \in BackoffRow
      PROVE  PacingTypeOK'
  BY <1>1, <1>5 DEF PacingTypeOK, ReaderRow, BackoffRow
<1>6. ASSUME NEW r \in Readers, AdmitsReader(r) PROVE PacingTypeOK'
  <2>1. [NoRequest EXCEPT !.pc = "sent"] \in ReaderRow
    BY PacingNumbers DEF ReaderRow
  <2>2. reader' \in [Readers -> ReaderRow] /\ backoff' \in BackoffRow
    BY <1>1, <1>6, <2>1, AfterAllowedType DEF AdmitsReader
  <2> QED BY <1>1, <1>5, <1>6, <2>2 DEF AdmitsReader
<1>7. ASSUME NEW r \in Readers, EndsRead(r) \/ ReaderGivesUp(r) PROVE PacingTypeOK'
  BY <1>1, <1>5, <1>7, PacingNumbers DEF EndsRead, ReaderGivesUp
<1>8. ASSUME NEW r \in Readers, NextChunk(r) PROVE PacingTypeOK'
  <2>1. reader' \in [Readers -> ReaderRow] /\ backoff' \in BackoffRow /\ cooling' \in Instants
    BY <1>1, <1>3, <1>8, TurnTypes DEF NextChunk
  <2> QED BY <1>1, <1>5, <1>8, <2>1 DEF NextChunk
<1>9. ASSUME NEW r \in Readers, Wakes(r) PROVE PacingTypeOK'
  <2>1. gate' \in Instants
    BY <1>1, <1>9, PacingNumbers DEF Wakes, Cleared
  <2>2. reader' \in [Readers -> ReaderRow] /\ backoff' \in BackoffRow /\ cooling' \in Instants
    BY <1>4, <1>9, <2>1, TurnTypes DEF Wakes
  <2> QED BY <1>1, <1>5, <1>9, <2>1, <2>2 DEF Wakes
<1>10. ASSUME NEW r \in Readers, NEW n \in Announced, Flooded(r, n) PROVE PacingTypeOK'
  <2>1. gate' \in Instants /\ latest' \in Instants
    BY <1>1, <1>2, <1>10 DEF Flooded, LongerWait, Larger
  <2>2. reader' \in [Readers -> ReaderRow] /\ backoff' \in BackoffRow /\ cooling' \in Instants
    BY <1>4, <1>10, <2>1, TurnTypes DEF Flooded
  <2> QED BY <1>5, <1>10, <2>1, <2>2 DEF Flooded
<1>11. CASE \E n \in 0..MaxWindow : WindowMoves(n)
  BY <1>11 DEF WindowMoves, PacingTypeOK
<1>12. CASE TimePasses
  <2>1. clock' \in 0..MaxTime
    BY <1>1, <1>12, PacingNumbers DEF TimePasses
  <2> QED BY <1>12, <2>1 DEF TimePasses, PacingTypeOK
<1>13. CASE UNCHANGED pacingVars
  BY <1>13 DEF pacingVars, PacingTypeOK
<1> QED BY <1>6, <1>7, <1>8, <1>9, <1>10, <1>11, <1>12, <1>13 DEF PacingNext

\* However the waits fall, requests stay within the waits _call tolerates and the cap within
\* the largest window (DownloadBackoff).
LEMMA PacingTypes == PacingSpec => []PacingTypeOK
<1>1. PacingInit => PacingTypeOK
  <2> SUFFICES ASSUME PacingInit PROVE PacingTypeOK
    OBVIOUS
  <2>1. backoff \in BackoffRow
    BY PacingNumbers DEF PacingInit, BackoffRow
  <2>2. reader \in [Readers -> ReaderRow]
    BY PacingNumbers DEF PacingInit
  <2>3. clock \in 0..MaxTime /\ window \in 0..MaxWindow
    BY PacingNumbers DEF PacingInit
  <2> QED BY <2>1, <2>2, <2>3, PacingNumbers DEF PacingInit, PacingTypeOK, ReaderRow, BackoffRow
<1>2. PacingTypeOK /\ [PacingNext]_pacingVars => PacingTypeOK'
  BY PacingTypeStep
<1> QED BY <1>1, <1>2, PTL DEF PacingSpec

-------------------------------------------------------------------------------
(* Probes of the destination *)

Probe == [healthy : BOOLEAN, checked : Nat, next : Nat, strikes : 0..MaxStrikes]

\* The next probe is admitted when the pause promised to the gateway ends.
WatchInv ==
    /\ moment \in Nat /\ pause \in Nat
    /\ asker \in [Askers -> {"away", "queued", "probing"}]
    /\ probe \in Probe /\ probe.next = pause

LEMMA PowersOfTwo == ASSUME NEW n \in Nat PROVE 2 ^ n \in Nat
<1>1. IsFiniteSet(1..n) /\ Cardinality(1..n) = n
  BY FS_Interval
<1>2. Cardinality(SUBSET (1..n)) = 2 ^ n /\ IsFiniteSet(SUBSET (1..n))
  BY <1>1, FS_SUBSET
<1> QED BY <1>2, FS_CardinalityType

\* Every answer of a gateway asks for a pause of some length (probe_cooldown).
LEMMA PausesAreTimes ==
    ASSUME WatchInv, NEW kind \in Kinds
    PROVE  Strikes(kind) \in 0..MaxStrikes /\ PauseAfter(kind) \in Nat
<1>1. /\ MaxStrikes \in Nat \ {0} /\ RateBase \in Nat /\ RateTop \in Nat /\ Refusal \in Nat
      /\ Soon \in Nat /\ HealthInterval \in Nat
  BY WatchAssumption
<1>2. probe.strikes \in 0..MaxStrikes
  BY DEF WatchInv, Probe
<1>3. Strikes(kind) \in 0..MaxStrikes /\ (kind = "rate_limited" => Strikes(kind) - 1 \in Nat)
  BY <1>1, <1>2 DEF Strikes, AtMost
<1>4. CASE kind = "rate_limited"
  <2> DEFINE doubled == 2 ^ (Strikes(kind) - 1)
  <2>1. doubled \in Nat
    BY <1>3, <1>4, PowersOfTwo
  <2>2. PauseAfter(kind) = AtMost(RateTop, RateBase * doubled)
    BY <1>4 DEF PauseAfter
  <2> HIDE DEF doubled
  <2>3. RateBase * doubled \in Nat
    BY <1>1, <2>1
  <2> QED BY <1>1, <1>3, <2>2, <2>3 DEF AtMost
<1>5. CASE kind \in {"unauthorized", "permission"}
  BY <1>1, <1>3, <1>5 DEF PauseAfter
<1>6. CASE kind = "fine"
  BY <1>1, <1>3, <1>6 DEF PauseAfter
<1>7. CASE kind = "other"
  BY <1>1, <1>3, <1>7 DEF PauseAfter
<1> QED BY <1>4, <1>5, <1>6, <1>7 DEF Kinds

LEMMA WatchStarts == WatchInit => WatchInv
BY WatchAssumption DEF WatchInit, WatchInv, Probe

\* What every step keeps, and when a probe begins.
WatchKept ==
    /\ WatchInv'
    /\ \A y \in Askers : asker[y] # "probing" /\ asker'[y] = "probing" => ~ Probing /\ pause <= moment

LEMMA WatchSteps == WatchInv /\ [WatchNext]_watchVars => WatchKept
<1> SUFFICES ASSUME WatchInv, [WatchNext]_watchVars PROVE WatchKept
  OBVIOUS
<1>1. ASSUME NEW y \in Askers, Asks(y) \/ AskerStops(y) PROVE WatchKept
  BY <1>1 DEF Asks, AskerStops, WatchInv, WatchKept
<1>2. ASSUME NEW y \in Askers, TakesTurn(y) PROVE WatchKept
  <2>1. WatchInv'
    BY <1>2 DEF TakesTurn, WatchInv
  <2>2. ~ Probing
    BY <1>2 DEF TakesTurn
  <2>3. ASSUME ~ StillPaused PROVE pause <= moment
    BY <2>3 DEF WatchInv, StillPaused
  <2>4. ASSUME NEW z \in Askers, asker[z] # "probing", asker'[z] = "probing" PROVE ~ StillPaused
    BY <1>2, <2>4 DEF TakesTurn, WatchInv
  <2> QED BY <2>1, <2>2, <2>3, <2>4 DEF WatchKept
<1>3. ASSUME NEW y \in Askers, NEW kind \in Kinds, Probed(y, kind) PROVE WatchKept
  <2>1. Strikes(kind) \in 0..MaxStrikes /\ PauseAfter(kind) \in Nat /\ moment \in Nat
    BY PausesAreTimes DEF WatchInv
  <2>2. moment + PauseAfter(kind) \in Nat
    BY <2>1
  <2>3. probe' \in Probe /\ probe'.next = pause' /\ pause' \in Nat
    BY <1>3, <2>1, <2>2 DEF Probed, Probe
  <2> QED BY <1>3, <2>3 DEF Probed, WatchInv, WatchKept
<1>4. CASE \E s \in Samples : Measures(s)
  BY <1>4 DEF Measures, WatchInv, WatchKept
<1>5. CASE Ticks
  BY <1>5 DEF Ticks, WatchInv, WatchKept
<1>6. CASE UNCHANGED watchVars
  BY <1>6 DEF watchVars, WatchInv, WatchKept
<1> QED BY <1>1, <1>2, <1>3, <1>4, <1>5, <1>6 DEF WatchNext

LEMMA WatchInvariant == WatchSpec => []WatchInv
<1>1. WatchInv /\ [WatchNext]_watchVars => WatchInv'
  BY WatchSteps DEF WatchKept
<1> QED BY <1>1, WatchStarts, PTL DEF WatchSpec

\* However many callers wait for one probe, the next one starts only alone and
\* after the pause the last answer asked for (_probe_destination_once).
THEOREM WatchSpares == WatchSpec => ProbesApart
<1>1. WatchInv /\ [WatchNext]_watchVars
        => [\A a \in Askers : asker[a] # "probing" /\ asker'[a] = "probing" =>
              ~ Probing /\ pause <= moment]_watchVars
  BY WatchSteps DEF WatchKept
<1> QED BY <1>1, WatchInvariant, PTL DEF WatchSpec, ProbesApart, Probing

-------------------------------------------------------------------------------
\* The window itself: within the ceiling, and a growth that is on trial can be undone to
\* a window that was there.
WindowRow == [value : 0..Ceiling, rate : 0..1, pressed : 0..2, grow : Nat,
              trial : [from : 0..Ceiling, rate : 0..1]]
WindowSound ==
    /\ win \in WindowRow /\ (win.trial # NoTrial => win.trial.from >= 1)
    /\ moment \in 0..MaxMoment /\ probe.checked <= moment

LEMMA WatchNumbers ==
    /\ MaxMoment \in Nat /\ Ceiling \in Nat /\ Ceiling >= 1 /\ RampUp \in Nat /\ GrowthPause \in Nat
    /\ TrialPause \in Nat /\ NoTrial \in [from : 0..Ceiling, rate : 0..1]
BY WatchAssumption DEF NoTrial

LEMMA JudgedType ==
    ASSUME WindowSound, NEW s \in Samples
    PROVE  Judged(s) \in WindowRow /\ (Judged(s).trial # NoTrial => Judged(s).trial.from >= 1)
<1> DEFINE late == win.trial # NoTrial /\ moment >= win.grow
           idle == late /\ win.trial.rate > 0 /\ s.rate <= win.trial.rate
           value == IF idle THEN AtMost(win.value, win.trial.from) ELSE win.value
           grow == IF idle THEN moment + TrialPause ELSE win.grow
           trial == IF late THEN NoTrial ELSE win.trial
           pressed == IF s.load = "pressed" THEN AtMost(2, win.pressed + 1) ELSE 0
<1>1. /\ win \in WindowRow /\ win.value \in 0..Ceiling /\ win.pressed \in 0..2 /\ win.grow \in Nat
      /\ win.trial \in [from : 0..Ceiling, rate : 0..1] /\ win.trial.from \in 0..Ceiling
      /\ moment \in Nat
  BY WatchNumbers DEF WindowSound, WindowRow
<1>2. value \in 0..Ceiling /\ pressed \in 0..2
  BY <1>1, WatchNumbers DEF AtMost
<1>3. grow \in Nat
  BY <1>1, WatchNumbers
<1>4. trial \in [from : 0..Ceiling, rate : 0..1] /\ (trial # NoTrial => trial.from >= 1)
  BY <1>1, WatchNumbers DEF WindowSound
<1>5. Judged(s) = [win EXCEPT !.value = value, !.grow = grow, !.trial = trial, !.pressed = pressed]
  BY <1>1 DEF Judged, WindowRow
<1> HIDE DEF value, grow, trial, pressed
<1> QED BY <1>1, <1>2, <1>3, <1>4, <1>5 DEF WindowRow

\* A turn may leave the value above the ceiling until it is cut off.
WideRow == [value : Nat, rate : 0..1, pressed : 0..2, grow : Nat,
            trial : [from : 0..Ceiling, rate : 0..1]]
LEMMA MovedType ==
    ASSUME moment \in Nat, NEW s \in Samples, NEW w \in WindowRow, w.trial # NoTrial => w.trial.from >= 1
    PROVE  /\ Moved(s, w) \in WideRow
           /\ Moved(s, w).trial # NoTrial => Moved(s, w).trial.from >= 1
<1> DEFINE grow == moment + GrowthPause
<1>1. /\ w.value \in 0..Ceiling /\ w.value \in Nat /\ w \in WideRow /\ s.rate \in 0..1
      /\ grow \in Nat
  BY WatchNumbers DEF WindowRow, WideRow, Samples
<1> HIDE DEF grow
<1>2. CASE w.pressed = 2
  <2> DEFINE v == NotBelow(NotBelow(w.value, 1) \div 2, 1)
  <2>1. NotBelow(w.value, 1) \in Nat
    BY <1>1 DEF NotBelow
  <2>2. NotBelow(w.value, 1) \div 2 \in Nat
    BY <2>1
  <2>3. v \in Nat
    BY <2>2 DEF NotBelow
  <2>4. Moved(s, w) = [w EXCEPT !.value = v, !.trial = NoTrial, !.grow = grow]
    BY <1>2 DEF Moved, WindowRow, grow
  <2> HIDE DEF v
  <2>5. Moved(s, w).trial = NoTrial
    BY <2>4 DEF WindowRow
  <2>6. Moved(s, w) \in WideRow
    BY <1>1, <2>3, <2>4, WatchNumbers DEF WideRow
  <2> QED BY <2>5, <2>6
<1>3. CASE w.pressed # 2 /\ (s.load = "high" \/ s.memory = "tight")
  <2> DEFINE v == IF w.value <= 2 THEN 1 ELSE w.value - 1
  <2>1. v \in Nat
    BY <1>1
  <2>2. Moved(s, w) = [w EXCEPT !.value = v, !.trial = NoTrial, !.grow = grow]
    BY <1>3 DEF Moved, WindowRow, grow
  <2> HIDE DEF v
  <2> QED BY <1>1, <2>1, <2>2, WatchNumbers DEF WideRow
<1>4. CASE w.pressed # 2 /\ ~ (s.load = "high" \/ s.memory = "tight") /\ MayGrow(s, w)
  <2> DEFINE v == w.value + RampUp
             from == NotBelow(w.value, 1)
  <2>1. v \in Nat /\ from \in 1..Ceiling
    BY <1>1, WatchNumbers DEF NotBelow
  <2> DEFINE trial == [from |-> from, rate |-> s.rate]
  <2>2. Moved(s, w) = [w EXCEPT !.trial = trial, !.value = v, !.grow = grow]
    BY <1>4 DEF Moved, WindowRow, grow
  <2> HIDE DEF v, from
  <2>3. from \in 0..Ceiling /\ from >= 1
    BY <2>1, WatchNumbers
  <2>4. trial \in [from : 0..Ceiling, rate : 0..1] /\ trial.from >= 1
    BY <1>1, <2>3
  <2> HIDE DEF trial
  <2>5. Moved(s, w) \in WideRow
    BY <1>1, <2>1, <2>2, <2>4 DEF WideRow
  <2>6. Moved(s, w).trial = trial
    BY <1>1, <2>2 DEF WideRow
  <2> QED BY <2>4, <2>5, <2>6
<1>5. CASE w.pressed # 2 /\ ~ (s.load = "high" \/ s.memory = "tight") /\ ~ MayGrow(s, w)
  BY <1>1, <1>5 DEF Moved
<1> QED BY <1>2, <1>3, <1>4, <1>5

LEMMA MeasuresSound ==
    ASSUME WindowSound, NEW s \in Samples, Measures(s)
    PROVE  WindowSound'
<1>1. UNCHANGED <<moment, probe>> /\ win \in WindowRow /\ moment \in Nat
  BY WatchNumbers DEF Measures, WindowSound
<1>2. 0 \in 0..Ceiling /\ 1 \in 0..Ceiling
  BY WatchNumbers
<1>3. CASE Paused(s) \/ ~ s.demand
  <2>1. PICK v \in {0, 1} : win' = [win EXCEPT !.value = v, !.trial = NoTrial]
    BY <1>3 DEF Measures
  <2>2. win' \in WindowRow /\ win'.trial = NoTrial
    BY <1>1, <1>2, <2>1, WatchNumbers DEF WindowRow
  <2> QED BY <1>1, <2>2 DEF WindowSound
<1>4. CASE ~ (Paused(s) \/ ~ s.demand)
  <2> DEFINE w == Moved(s, Judged(s))
             v == AtMost(NotBelow(w.value, 1), Ceiling)
  <2>1. win' = [w EXCEPT !.value = v, !.rate = s.rate]
    BY <1>4 DEF Measures, Moved
  <2>2. w \in WideRow /\ (w.trial # NoTrial => w.trial.from >= 1)
    BY <1>1, JudgedType, MovedType
  <2> HIDE DEF w
  <2>3. v \in 0..Ceiling /\ s.rate \in 0..1
    BY <2>2, WatchNumbers DEF AtMost, NotBelow, Samples, WideRow
  <2> HIDE DEF v
  <2>4. win' \in WindowRow /\ (win'.trial # NoTrial => win'.trial.from >= 1)
    BY <2>1, <2>2, <2>3 DEF WindowRow, WideRow
  <2> QED BY <1>1, <2>4 DEF WindowSound
<1> QED BY <1>3, <1>4

LEMMA WindowStep ==
    ASSUME WatchInv, WindowSound, [WatchNext]_watchVars
    PROVE  WindowSound'
<1>0. moment \in 0..MaxMoment /\ moment \in Nat /\ probe.checked \in Nat /\ probe.checked <= moment
  BY WatchNumbers DEF WatchInv, WindowSound, Probe
<1>1. ASSUME NEW y \in Askers, Asks(y) \/ AskerStops(y) \/ TakesTurn(y) PROVE WindowSound'
  BY <1>1 DEF Asks, AskerStops, TakesTurn, WindowSound
<1>2. ASSUME NEW y \in Askers, NEW kind \in Kinds, Probed(y, kind) PROVE WindowSound'
  BY <1>0, <1>2 DEF Probed, WindowSound
<1>3. CASE \E s \in Samples : Measures(s)
  BY <1>3, MeasuresSound
<1>4. CASE Ticks
  BY <1>0, <1>4, WatchNumbers DEF Ticks, WindowSound
<1>5. CASE UNCHANGED watchVars
  BY <1>5 DEF watchVars, WindowSound
<1> QED BY <1>1, <1>2, <1>3, <1>4, <1>5 DEF WatchNext

\* Whatever is measured, the window neither passes the ceiling nor is put back to one that
\* never was (AdaptiveWindow.update).
LEMMA WatchTypes == WatchSpec => []WatchTypeOK
<1>1. WatchInit => WindowSound
  <2> SUFFICES ASSUME WatchInit PROVE WindowSound
    OBVIOUS
  <2>1. win \in WindowRow
    BY WatchNumbers DEF WatchInit, WindowRow
  <2> QED BY <2>1, WatchNumbers DEF WatchInit, WindowSound
<1>2. WatchInv /\ WindowSound /\ [WatchNext]_watchVars => WindowSound'
  BY WindowStep
<1>3. WatchInv /\ WindowSound => WatchTypeOK
  <2> SUFFICES ASSUME WatchInv, WindowSound PROVE WatchTypeOK
    OBVIOUS
  <2>1. probe.checked \in Nat /\ probe.checked <= moment /\ moment \in 0..MaxMoment
        /\ probe.strikes \in 0..MaxStrikes
    BY DEF WatchInv, WindowSound, Probe
  <2>2. NotBelow(1, Ceiling) = Ceiling
    BY WatchNumbers DEF NotBelow
  <2>3. win.value \in 0..Ceiling /\ win.trial.from \in 0..Ceiling
        /\ (win.trial # NoTrial => win.trial.from >= 1)
    BY DEF WindowSound, WindowRow
  <2> QED BY <2>1, <2>2, <2>3, WatchNumbers DEF WatchInv, WatchTypeOK
<1> QED BY <1>1, <1>2, <1>3, WatchInvariant, PTL DEF WatchSpec

-------------------------------------------------------------------------------
(* Admission: the disk, the budget, a member's slots and day, the windows *)

\* A row of the task database.
TaskRow == [state : RowStates, mode : {"local", "stream"}, told : Nat,
            ledger : {"none", "held", "today", "before", "released"}]

\* What a row r with b bytes on disk takes: of the disk, the budget, the day
\* and the slots.
Claims(t, r, b) == IF r.state \in Growing /\ r.mode = "local" THEN Size[t] ELSE b
Stored(r) == r.state \in Local /\ r.mode = "local"
Counted(r) == r.ledger \in {"held", "today"}
Begun(r) == r.state \in Growing \cup {"streaming"}
Streams(r) == r.mode = "stream" /\ r.state # "queued"

\* What a row and the bytes on disk tell of each other: bytes belong to a local
\* file, no less than reported while it grows and complete afterwards; whoever
\* was submitted is in the ledger.
RowSound(t, r, b) ==
    /\ r \in TaskRow /\ b \in Nat /\ b <= Size[t] /\ r.told <= Size[t]
    /\ b # 0 => Stored(r) /\ (r.state \in Growing \/ b = Size[t])
    /\ r.state \in {"none", "queued"} => r.told = 0
    /\ r.state \in Growing => r.told <= b
    /\ r.state = "downloading" => r.mode = "local"
    /\ r.state = "streaming" => r.mode = "stream"
    /\ r.state \notin {"none", "cancelled"} => r.ledger \in {"held", "today", "before"}

Claim == [t \in Tasks |-> Claims(t, row[t], bytes[t])]
StoredTasks == {t \in Tasks : Stored(row[t])}
CountedTasks == {t \in Tasks : Counted(row[t])}
SlotTasks == {t \in Tasks : Begun(row[t])} \cup slots
StreamTasks == {t \in loading : Streams(row[t])}

RowsSound ==
    /\ row \in [Tasks -> TaskRow] /\ bytes \in [Tasks -> Nat]
    /\ \A t \in Tasks : RowSound(t, row[t], bytes[t])
\* The upload round has counted no more room than there still is.
RoundSound ==
    /\ loading \subseteq Tasks /\ sending \subseteq Tasks /\ slots \subseteq Tasks
    /\ room \in Nat /\ limit \in Limits
    /\ turn \in {"uploadsRead", "sends"} =>
          Cardinality(sending) + Cardinality(StreamTasks) + room <= UpWindow
DayKept == limit.daily # 0 => Total(Size, CountedTasks) <= limit.daily
\* What the admissions have given away, of each limit.
Admitted ==
    /\ Total(Claim, Tasks) + MinFree <= Capacity
    /\ Total(Size, StoredTasks) <= LocalBudget
    /\ DayKept
    /\ limit.active # 0 => Cardinality(SlotTasks) <= limit.active
AdmInv == RowsSound /\ RoundSound /\ Admitted
-------------------------------------------------------------------------------
(* Sums over tasks *)

\* Which units there are: one for each byte of each task.
LEMMA UnitsAre ==
    ASSUME NEW n, NEW S
    PROVE  /\ \A t \in S : \A i \in 1..n[t] : <<t, i>> \in Units(n, S)
           /\ \A u \in Units(n, S) : u = <<u[1], u[2]>> /\ u[1] \in S /\ u[2] \in 1..n[u[1]]
BY DEF Units

\* The sum of a number of bytes over finitely many tasks is a natural number.
LEMMA UnitsFinite ==
    ASSUME NEW S, IsFiniteSet(S), NEW n, \A t \in S : n[t] \in Nat
    PROVE  IsFiniteSet(Units(n, S)) /\ Total(n, S) \in Nat
<1> DEFINE column(t) == {t} \X (1..n[t])
           columns == {column(t) : t \in S}
           f == [t \in S |-> column(t)]
<1>1. \A t \in S : IsFiniteSet(column(t))
  <2> TAKE t \in S
  <2>1. IsFiniteSet({t})
    BY FS_Singleton
  <2>2. IsFiniteSet(1..n[t])
    BY FS_Interval
  <2> QED BY <2>1, <2>2, FS_Product
<1>2. IsFiniteSet(columns)
  <2> HIDE DEF column
  <2>1. f \in Surjection(S, columns)
    BY DEF Surjection
  <2> HIDE DEF f, columns
  <2> QED BY <2>1, FS_Surjection
<1>3. \A c \in columns : IsFiniteSet(c)
  BY <1>1
<1>4. Units(n, S) = UNION columns
  BY DEF Units
<1> HIDE DEF columns
<1>5. IsFiniteSet(Units(n, S))
  BY <1>2, <1>3, <1>4, FS_UNION
<1> QED BY <1>5, FS_CardinalityType DEF Total

\* More tasks, each with at least as much, sum up to at least as much.
LEMMA TotalGrows ==
    ASSUME NEW T, IsFiniteSet(T), NEW S \in SUBSET T, NEW n, NEW m,
           \A t \in S : n[t] \in Nat, \A t \in T : m[t] \in Nat, \A t \in S : n[t] <= m[t]
    PROVE  Total(n, S) <= Total(m, T)
<1>1. Units(n, S) \subseteq Units(m, T)
  <2> SUFFICES ASSUME NEW u \in Units(n, S) PROVE u \in Units(m, T)
    OBVIOUS
  <2>1. u = <<u[1], u[2]>> /\ u[1] \in S /\ u[2] \in 1..n[u[1]]
    BY UnitsAre
  <2>2. u[2] \in 1..m[u[1]]
    BY <2>1
  <2> QED BY <2>1, <2>2, UnitsAre
<1> QED BY <1>1, UnitsFinite, FS_Subset DEF Total

\* One more task adds what it has.
LEMMA TotalAdds ==
    ASSUME NEW S, IsFiniteSet(S), NEW n, \A x \in S : n[x] \in Nat, NEW t, n[t] \in Nat
    PROVE  Total(n, S \cup {t}) <= Total(n, S) + n[t]
<1> DEFINE column == {t} \X (1..n[t])
<1>1. IsFiniteSet(column) /\ Cardinality(column) = n[t]
  <2>1. IsFiniteSet({t}) /\ Cardinality({t}) = 1
    BY FS_Singleton
  <2>2. IsFiniteSet(1..n[t]) /\ Cardinality(1..n[t]) = n[t]
    <3> DEFINE k == n[t]
    <3>1. k \in Nat
      OBVIOUS
    <3> HIDE DEF k
    <3>2. IsFiniteSet(1..k) /\ Cardinality(1..k) = IF 1 > k THEN 0 ELSE k - 1 + 1
      BY <3>1, FS_Interval
    <3>3. IsFiniteSet(1..k) /\ Cardinality(1..k) = k
      BY <3>1, <3>2
    <3> QED BY <3>3 DEF k
  <2>3. Cardinality(column) = Cardinality({t}) * Cardinality(1..n[t]) /\ IsFiniteSet(column)
    BY <2>1, <2>2, FS_Product
  <2> QED BY <2>1, <2>2, <2>3
<1>2. Units(n, S \cup {t}) = Units(n, S) \cup column
  BY DEF Units
<1> HIDE DEF column
<1>3. IsFiniteSet(Units(n, S)) /\ Total(n, S) \in Nat
  BY UnitsFinite
<1>4. Cardinality(Units(n, S) \cup column)
        = Total(n, S) + n[t] - Cardinality(Units(n, S) \cap column)
  BY <1>1, <1>3, FS_Union DEF Total
<1>5. Cardinality(Units(n, S) \cap column) \in Nat
  BY <1>3, FS_Intersection, FS_CardinalityType
<1>6. Total(n, S \cup {t}) = Cardinality(Units(n, S) \cup column)
  BY <1>2 DEF Total
<1> QED BY <1>3, <1>4, <1>5, <1>6

\* Two sums, the second over some of the tasks, are one.
LEMMA TotalJoins ==
    ASSUME NEW T, IsFiniteSet(T), NEW S \in SUBSET T, NEW n, NEW m, NEW both,
           \A t \in T : n[t] \in Nat, \A t \in S : m[t] \in Nat,
           \A t \in T : both[t] = IF t \in S THEN n[t] + m[t] ELSE n[t]
    PROVE  Total(n, T) + Total(m, S) = Total(both, T)
<1> DEFINE above == {u \in Units(both, T) : u[2] > n[u[1]]}
           f == [u \in Units(m, S) |-> <<u[1], n[u[1]] + u[2]>>]
<1>1. \A t \in T : both[t] \in Nat /\ n[t] <= both[t]
  OBVIOUS
<1>2. /\ IsFiniteSet(Units(n, T)) /\ IsFiniteSet(Units(both, T)) /\ IsFiniteSet(Units(m, S))
      /\ Total(n, T) \in Nat /\ Total(m, S) \in Nat
  <2>1. IsFiniteSet(S)
    BY FS_Subset
  <2> QED BY <1>1, <2>1, UnitsFinite
<1>3. Units(both, T) = Units(n, T) \cup above
  <2>1. ASSUME NEW u \in Units(n, T) PROVE u \in Units(both, T)
    <3>1. u = <<u[1], u[2]>> /\ u[1] \in T /\ u[2] \in 1..n[u[1]]
      BY UnitsAre
    <3>2. u[2] \in 1..both[u[1]]
      BY <1>1, <3>1
    <3> QED BY <3>1, <3>2, UnitsAre
  <2>2. ASSUME NEW u \in Units(both, T), u \notin above PROVE u \in Units(n, T)
    <3>1. u = <<u[1], u[2]>> /\ u[1] \in T /\ u[2] \in 1..both[u[1]]
      BY UnitsAre
    <3>2. u[2] \in 1..n[u[1]]
      BY <1>1, <2>2, <3>1
    <3> QED BY <3>1, <3>2, UnitsAre
  <2> QED BY <2>1, <2>2
<1>4. Units(n, T) \cap above = {}
  <2> SUFFICES ASSUME NEW u \in Units(n, T), u \in above PROVE FALSE
    OBVIOUS
  <2>1. u[1] \in T /\ u[2] \in 1..n[u[1]]
    BY UnitsAre
  <2> QED BY <2>1
<1>5. f \in Bijection(Units(m, S), above)
  <2>1. ASSUME NEW u \in Units(m, S)
        PROVE  f[u] \in above /\ f[u] = <<u[1], n[u[1]] + u[2]>> /\ n[u[1]] \in Nat
               /\ u = <<u[1], u[2]>> /\ u[2] \in Nat
    <3>1. u = <<u[1], u[2]>> /\ u[1] \in S /\ u[2] \in 1..m[u[1]]
      BY UnitsAre
    <3>2. n[u[1]] + u[2] \in 1..both[u[1]] /\ n[u[1]] + u[2] > n[u[1]]
      BY <3>1
    <3>3. <<u[1], n[u[1]] + u[2]>> \in Units(both, T)
      BY <3>1, <3>2, UnitsAre
    <3> QED BY <3>1, <3>2, <3>3
  <2>2. ASSUME NEW v \in above PROVE \E u \in Units(m, S) : f[u] = v
    <3>1. v = <<v[1], v[2]>> /\ v[1] \in T /\ v[2] \in 1..both[v[1]]
      BY UnitsAre
    <3>2. v[1] \in S /\ v[2] - n[v[1]] \in 1..m[v[1]] /\ n[v[1]] + (v[2] - n[v[1]]) = v[2]
      BY <3>1
    <3>3. <<v[1], v[2] - n[v[1]]>> \in Units(m, S)
      BY <3>2, UnitsAre
    <3>4. f[<<v[1], v[2] - n[v[1]]>>] = <<v[1], n[v[1]] + (v[2] - n[v[1]])>>
      BY <3>3
    <3> QED BY <3>1, <3>2, <3>3, <3>4
  <2>3. ASSUME NEW u \in Units(m, S), NEW v \in Units(m, S), f[u] = f[v] PROVE u = v
    <3>1. u[1] = v[1] /\ n[u[1]] + u[2] = n[v[1]] + v[2]
      BY <2>1, <2>3
    <3>2. n[u[1]] \in Nat /\ u[2] \in Nat /\ v[2] \in Nat
      BY <2>1
    <3>3. u[2] = v[2]
      BY <3>1, <3>2
    <3> QED BY <2>1, <3>1, <3>3
  <2> HIDE DEF above
  <2>4. f \in [Units(m, S) -> above]
    BY <2>1
  <2> HIDE DEF f
  <2> QED BY <2>2, <2>3, <2>4 DEF Bijection, Injection, Surjection, IsInjective
<1> HIDE DEF f, above
<1>6. IsFiniteSet(above) /\ Cardinality(above) = Total(m, S)
  BY <1>2, <1>5, FS_Bijection DEF ExistsBijection, Total
<1>7. Cardinality(Units(n, T) \cup above) = Total(n, T) + Total(m, S) - Cardinality({})
  BY <1>2, <1>4, <1>6, FS_Union DEF Total
<1> QED BY <1>2, <1>3, <1>7, FS_EmptySet DEF Total

\* The sum over no task is nothing.
LEMMA NoneIsNothing == ASSUME NEW n PROVE Total(n, {}) = 0
<1>1. Units(n, {}) = {}
  BY DEF Units
<1> QED BY <1>1, FS_EmptySet DEF Total
-------------------------------------------------------------------------------
(* How the limits are kept *)

\* A write that takes no disk, no budget and no slot.
Frees(t, r, b, q, c) ==
    /\ RowSound(t, q, c)
    /\ Claims(t, q, c) <= Claims(t, r, b)
    /\ (Stored(q) => Stored(r)) /\ (Begun(q) => Begun(r))
\* A round goes on with the room it has, or is over.
Onwards == /\ limit' = limit /\ loading' \subseteq loading /\ sending' \subseteq sending
           /\ room' \in Nat
           /\ turn' \in {"uploadsRead", "sends"} =>
                 turn \in {"uploadsRead", "sends"} /\ room' = room
WindowKept ==
    \A t \in Tasks :
          \/ t \in sending' \ sending
          \/ t \in loading' \ loading /\ row'[t].mode = "stream" /\ batch[t] = "stream"
          => Cardinality(sending)
               + Cardinality({x \in loading : row[x].mode = "stream" /\ row[x].state # "queued"})
                  < UpWindow
AdmKept == AdmInv' /\ WindowKept

\* The amounts that are compared are numbers, the sets that are counted finite.
LEMMA Amounts ==
    ASSUME AdmInv
    PROVE  /\ IsFiniteSet(Tasks) /\ Capacity \in Nat /\ MinFree \in Nat /\ LocalBudget \in Nat
           /\ UpWindow \in Nat /\ DownWindow \in Nat
           /\ limit.daily \in Nat /\ limit.active \in Nat /\ \A t \in Tasks : Size[t] \in Nat \ {0}
           /\ IsFiniteSet(loading) /\ IsFiniteSet(sending) /\ IsFiniteSet(SlotTasks)
           /\ IsFiniteSet(StreamTasks) /\ \A S \in SUBSET Tasks : IsFiniteSet(S)
<1>1. IsFiniteSet(Tasks) /\ \A S \in SUBSET Tasks : IsFiniteSet(S)
  BY AdmissionAssumption, FS_Subset
<1>2. StreamTasks \subseteq Tasks /\ SlotTasks \subseteq Tasks
  BY DEF AdmInv, RoundSound, StreamTasks, SlotTasks
<1>3. limit \in [daily : Nat, queued : Nat, active : Nat]
  BY AdmissionAssumption DEF AdmInv, RoundSound
<1> QED BY <1>1, <1>2, <1>3, AdmissionAssumption DEF AdmInv, RoundSound

LEMMA ClaimsAre ==
    ASSUME NEW t \in Tasks, NEW r, NEW b, RowSound(t, r, b)
    PROVE  Claims(t, r, b) \in Nat
BY AdmissionAssumption DEF RowSound, Claims

\* A step that charges no further task keeps the member within his day.
LEMMA CountedShrinks ==
    ASSUME AdmInv, limit' = limit, \A t \in Tasks : Counted(row'[t]) => Counted(row[t])
    PROVE  DayKept'
<1>1. CountedTasks' \subseteq CountedTasks /\ CountedTasks \subseteq Tasks
  BY DEF CountedTasks
<1>2. Total(Size, CountedTasks') <= Total(Size, CountedTasks)
  BY <1>1, Amounts, TotalGrows
<1>3. Total(Size, CountedTasks') \in Nat /\ Total(Size, CountedTasks) \in Nat
  BY <1>1, Amounts, UnitsFinite
<1> QED BY <1>2, <1>3, Amounts DEF DayKept, AdmInv, Admitted

\* A step in which every row is kept or gives back keeps all limits.
LEMMA FreesKept ==
    ASSUME AdmInv, row' \in [Tasks -> TaskRow], bytes' \in [Tasks -> Nat],
           \A t \in Tasks : Frees(t, row[t], bytes[t], row'[t], bytes'[t]),
           Onwards, slots' \subseteq slots,
           \A t \in loading' : Streams(row'[t]) => Streams(row[t]), DayKept'
    PROVE  AdmKept
<1>1. RowsSound'
  BY DEF Frees, RowsSound
<1>2. \A t \in Tasks : /\ Claim[t] \in Nat /\ Claim'[t] \in Nat /\ Claim'[t] <= Claim[t]
  BY ClaimsAre DEF AdmInv, RowsSound, Frees, Claim
<1>3. Total(Claim', Tasks) <= Total(Claim, Tasks)
  BY <1>2, Amounts, TotalGrows
<1>4. Total(Size, StoredTasks') <= Total(Size, StoredTasks)
  <2>1. StoredTasks' \subseteq StoredTasks /\ StoredTasks \subseteq Tasks
    BY DEF StoredTasks, Frees
  <2> QED BY <2>1, Amounts, TotalGrows
<1>6. Cardinality(SlotTasks') <= Cardinality(SlotTasks)
  <2>1. SlotTasks' \subseteq SlotTasks
    BY DEF SlotTasks, Frees
  <2> QED BY <2>1, Amounts, FS_Subset
<1>7. Cardinality(sending') <= Cardinality(sending)
      /\ Cardinality(StreamTasks') <= Cardinality(StreamTasks)
  <2>1. sending' \subseteq sending /\ StreamTasks' \subseteq StreamTasks
    BY DEF StreamTasks, Onwards
  <2> QED BY <2>1, Amounts, FS_Subset
<1>8. /\ Total(Claim', Tasks) \in Nat /\ Total(Claim, Tasks) \in Nat
      /\ Total(Size, StoredTasks') \in Nat /\ Total(Size, StoredTasks) \in Nat
  <2>1. StoredTasks \subseteq Tasks /\ StoredTasks' \subseteq Tasks
    BY DEF StoredTasks
  <2> QED BY <1>2, <2>1, Amounts, UnitsFinite
<1>9. /\ Cardinality(SlotTasks') \in Nat /\ Cardinality(SlotTasks) \in Nat
      /\ Cardinality(sending') \in Nat /\ Cardinality(sending) \in Nat
      /\ Cardinality(StreamTasks') \in Nat /\ Cardinality(StreamTasks) \in Nat
  <2>1. SlotTasks' \subseteq SlotTasks /\ sending' \subseteq sending /\ StreamTasks' \subseteq StreamTasks
    BY DEF SlotTasks, StreamTasks, Frees, Onwards
  <2> QED BY <2>1, Amounts, FS_Subset, FS_CardinalityType
<1>10. Admitted'
  BY <1>3, <1>4, <1>6, <1>8, <1>9, Amounts DEF AdmInv, Admitted, Onwards
<1>11. RoundSound'
  BY <1>7, <1>9, Amounts DEF AdmInv, RoundSound, Onwards
<1>12. WindowKept
  BY DEF WindowKept, Onwards
<1> QED BY <1>1, <1>10, <1>11, <1>12 DEF AdmInv, AdmKept

\* The same for a step that writes one row,
LEMMA WriteKept ==
    ASSUME AdmInv, NEW t \in Tasks, NEW q, NEW b, Frees(t, row[t], bytes[t], q, b),
           row' = [row EXCEPT ![t] = q], bytes' = [bytes EXCEPT ![t] = b],
           Onwards, slots' \subseteq slots, t \in loading' => (Streams(q) => Streams(row[t])), DayKept'
    PROVE  AdmKept
<1>1. row \in [Tasks -> TaskRow] /\ bytes \in [Tasks -> Nat] /\ q \in TaskRow /\ b \in Nat
  BY DEF AdmInv, RowsSound, Frees, RowSound
<1>2. row' \in [Tasks -> TaskRow] /\ bytes' \in [Tasks -> Nat]
  BY <1>1
<1>3. row'[t] = q /\ bytes'[t] = b /\ \A x \in Tasks \ {t} : row'[x] = row[x] /\ bytes'[x] = bytes[x]
  BY <1>1
<1>4. ASSUME NEW x \in Tasks PROVE Frees(x, row[x], bytes[x], row'[x], bytes'[x])
  <2>1. CASE x = t
    BY <1>3, <2>1
  <2>2. CASE x # t
    <3>1. RowSound(x, row[x], bytes[x]) /\ Claims(x, row[x], bytes[x]) \in Nat
      BY ClaimsAre DEF AdmInv, RowsSound
    <3> QED BY <1>3, <2>2, <3>1 DEF Frees
  <2> QED BY <2>1, <2>2
<1>5. \A x \in loading' : Streams(row'[x]) => Streams(row[x])
  BY <1>3 DEF Onwards, AdmInv, RoundSound
<1> QED BY <1>2, <1>4, <1>5, FreesKept

\* and for a step that writes none.
LEMMA RowsStillKept ==
    ASSUME AdmInv, row' = row, bytes' = bytes, Onwards, slots' \subseteq slots
    PROVE  AdmKept
<1>1. \A t \in Tasks : Frees(t, row[t], bytes[t], row'[t], bytes'[t])
  BY ClaimsAre DEF AdmInv, RowsSound, Frees
<1>2. DayKept'
  BY CountedShrinks DEF Onwards
<1> QED BY <1>1, <1>2, FreesKept DEF AdmInv, RowsSound

\* The trigger on tasks.state keeps what the task holds.
LEMMA LedgerHolds ==
    ASSUME AdmInv, NEW t \in Tasks, NEW s
    PROVE  /\ Ledger(t, s) \in {"held", "today", "before", "released"}
           /\ s # "cancelled" => Ledger(t, s) # "released"
           /\ row[t].state \notin {"none", "cancelled"} => HoldsLedger(t)
           /\ HoldsLedger(t) =>
                 (Ledger(t, s) \in {"held", "today"} => row[t].ledger \in {"held", "today"})
<1>1. /\ row[t].ledger \in {"none", "held", "today", "before", "released"}
      /\ row[t].state \notin {"none", "cancelled"} => row[t].ledger \in {"held", "today", "before"}
  BY DEF AdmInv, RowsSound, RowSound, TaskRow
<1> QED BY <1>1 DEF Ledger, Held, HoldsLedger

\* A write of the state of a task that was submitted, which takes nothing new.
Settable(t, s, mode, told, b) ==
    /\ s \in RowStates \ {"none"} /\ mode \in {"local", "stream"}
    /\ told \in Nat /\ b \in Nat /\ told <= Size[t] /\ b <= Size[t]
    /\ row[t].state \notin {"none", "cancelled"}
    /\ b # 0 => s \in Local /\ mode = "local" /\ (s \in Growing \/ b = Size[t])
    /\ s = "queued" => told = 0
    /\ s \in Growing => told <= b
    /\ s = "downloading" => mode = "local"
    /\ s = "streaming" => mode = "stream"
    /\ b <= bytes[t] \/ (row[t].state \in Growing /\ row[t].mode = "local")
    /\ s \in Growing /\ mode = "local" => row[t].state \in Growing /\ row[t].mode = "local"
    /\ s \in Local /\ mode = "local" => Stored(row[t])
    /\ s \in Growing \cup {"streaming"} => Begun(row[t])
    /\ t \in loading' /\ mode = "stream" /\ s # "queued" => Streams(row[t])

\* A Settable write of one task keeps all limits.
LEMMA SetsKept ==
    ASSUME AdmInv, NEW t \in Tasks, NEW s, NEW mode, NEW told, NEW b, Settable(t, s, mode, told, b),
           Sets(t, s, mode, told), bytes' = [bytes EXCEPT ![t] = b], Onwards
    PROVE  AdmKept
<1> DEFINE q == [state |-> s, mode |-> mode, told |-> told, ledger |-> Ledger(t, s)]
<1>1. row' = [row EXCEPT ![t] = q] /\ slots' \subseteq slots
  BY DEF Sets
<1>2. q.state = s /\ q.mode = mode /\ q.told = told /\ q.ledger = Ledger(t, s)
  OBVIOUS
<1>3. q \in TaskRow
  BY LedgerHolds DEF TaskRow, Settable
<1> HIDE DEF q
<1>4. RowSound(t, q, b)
  BY <1>2, <1>3, LedgerHolds DEF RowSound, Stored, Settable
<1>5. bytes[t] \in Nat /\ bytes[t] <= Size[t] /\ Size[t] \in Nat
  BY Amounts DEF AdmInv, RowsSound, RowSound
<1>6. Claims(t, q, b) <= Claims(t, row[t], bytes[t])
  BY <1>2, <1>5 DEF Claims, Settable
<1>7. (Stored(q) => Stored(row[t])) /\ (Begun(q) => Begun(row[t]))
  BY <1>2 DEF Stored, Begun, Settable
<1>8. t \in loading' => (Streams(q) => Streams(row[t]))
  BY <1>2 DEF Streams, Settable
<1>9. Frees(t, row[t], bytes[t], q, b)
  BY <1>4, <1>6, <1>7 DEF Frees
<1>10. DayKept'
  <2>1. Counted(q) => Counted(row[t])
    BY <1>2, LedgerHolds DEF Counted, Settable
  <2>2. \A x \in Tasks : Counted(row'[x]) => Counted(row[x])
    BY <1>1, <2>1 DEF AdmInv, RowsSound
  <2> QED BY <2>2, CountedShrinks DEF Onwards
<1> QED BY <1>1, <1>8, <1>9, <1>10, WriteKept

\* What a row is known to be.
LEMMA RowIs ==
    ASSUME AdmInv, NEW t \in Tasks
    PROVE  /\ row[t] \in TaskRow /\ bytes[t] \in Nat /\ row[t].told \in Nat
           /\ bytes[t] <= Size[t] /\ row[t].told <= Size[t] /\ Size[t] \in Nat \ {0}
           /\ row[t].state \in RowStates /\ row[t].mode \in {"local", "stream"}
           /\ bytes[t] # 0 => Stored(row[t]) /\ (row[t].state \in Growing \/ bytes[t] = Size[t])
           /\ row[t].state \in {"none", "queued"} => row[t].told = 0
           /\ row[t].state \in Growing => row[t].told <= bytes[t]
           /\ row[t].state = "downloading" => row[t].mode = "local"
           /\ row[t].state = "streaming" => row[t].mode = "stream"
           /\ bytes = [bytes EXCEPT ![t] = bytes[t]]
BY Amounts DEF AdmInv, RowsSound, RowSound, TaskRow

\* A coroutine or a command leaves the scheduler where it was.
LEMMA Goes ==
    ASSUME AdmInv, Quiet \/ Mishap, loading' \subseteq loading, sending' \subseteq sending
    PROVE  Onwards
BY DEF AdmInv, RoundSound, Onwards, Quiet, Mishap, round
-------------------------------------------------------------------------------
(* Coroutines and commands *)

LEMMA AttemptsKept == ASSUME AdmInv, NEW t \in Tasks, Attempts(t) PROVE AdmKept
<1>1. Onwards
  BY Goes DEF Attempts
<1>2. CASE row[t].mode = "stream"
  <2>1. /\ Sets(t, "streaming", "stream", row[t].told) /\ bytes' = [bytes EXCEPT ![t] = bytes[t]]
        /\ row[t].state \in Growing
    BY <1>2, RowIs DEF Attempts, Moves
  <2>2. Settable(t, "streaming", "stream", row[t].told, bytes[t])
    BY <1>2, <2>1, RowIs DEF Settable, Stored, RowStates, Begun, Streams, Growing, Local
  <2> QED BY <1>1, <2>1, <2>2, SetsKept
<1>3. CASE row[t].mode # "stream"
  <2>1. /\ Sets(t, "downloading", "local", 0) /\ bytes' = [bytes EXCEPT ![t] = 0]
        /\ row[t].state \in Growing /\ row[t].mode = "local"
    BY <1>3, RowIs DEF Attempts
  <2>2. Settable(t, "downloading", "local", 0, 0)
    BY <2>1, RowIs DEF Settable, Stored, RowStates, Begun, Growing, Local
  <2> QED BY <1>1, <2>1, <2>2, SetsKept
<1> QED BY <1>2, <1>3

LEMMA ReceivesKept == ASSUME AdmInv, NEW t \in Tasks, Receives(t) PROVE AdmKept
<1>1. PICK n \in {row[t].told, bytes[t] + 1} : row' = [row EXCEPT ![t].told = n]
  BY DEF Receives
<1> DEFINE q == [row[t] EXCEPT !.told = n]
           b == bytes[t] + 1
<1>2. /\ bytes' = [bytes EXCEPT ![t] = b] /\ row[t].state = "downloading" /\ bytes[t] < Size[t]
      /\ row' = [row EXCEPT ![t] = q] /\ row[t].mode = "local" /\ slots' = slots
  BY <1>1, RowIs DEF Receives
<1>3. /\ b \in Nat /\ b <= Size[t] /\ n \in Nat /\ n <= b /\ n <= Size[t]
  BY <1>1, <1>2, RowIs DEF Growing
<1>4. /\ q \in TaskRow /\ q.state = row[t].state /\ q.mode = row[t].mode /\ q.told = n
      /\ q.ledger = row[t].ledger
  BY <1>3, RowIs DEF TaskRow
<1>5. Onwards
  BY Goes DEF Receives
<1> HIDE DEF q, b
<1>6. RowSound(t, row[t], bytes[t])
  BY DEF AdmInv, RowsSound
<1>7. RowSound(t, q, b)
  BY <1>2, <1>3, <1>4, <1>6 DEF RowSound, Stored, Local, Growing
<1>8. Claims(t, q, b) <= Claims(t, row[t], bytes[t])
  BY <1>2, <1>4, RowIs DEF Claims, Growing
<1>9. Frees(t, row[t], bytes[t], q, b)
  BY <1>4, <1>7, <1>8 DEF Frees, Stored, Begun
<1>10. Streams(q) => Streams(row[t])
  BY <1>4 DEF Streams
<1>11. DayKept'
  <2>1. \A x \in Tasks : Counted(row'[x]) => Counted(row[x])
    BY <1>2, <1>4 DEF Counted, AdmInv, RowsSound
  <2> QED BY <1>5, <2>1, CountedShrinks DEF Onwards
<1> QED BY <1>2, <1>5, <1>9, <1>10, <1>11, WriteKept

LEMMA ArrivesKept == ASSUME AdmInv, NEW t \in Tasks, Arrives(t) PROVE AdmKept
<1>1. Onwards
  BY Goes DEF Arrives
<1>2. /\ Sets(t, "waiting_upload", "local", Size[t]) /\ bytes' = [bytes EXCEPT ![t] = bytes[t]]
      /\ row[t].state = "downloading" /\ bytes[t] = Size[t]
  BY RowIs DEF Arrives
<1>3. Settable(t, "waiting_upload", "local", Size[t], bytes[t])
  BY <1>2, RowIs DEF Settable, Stored, RowStates, Begun, Growing, Local
<1> QED BY <1>1, <1>2, <1>3, SetsKept

LEMMA LoadStopsKept == ASSUME AdmInv, NEW t \in Tasks, LoadStops(t) PROVE AdmKept
<1>1. Onwards /\ bytes' = [bytes EXCEPT ![t] = 0] /\ row[t].state \in Growing \cup {"streaming"}
  BY Goes DEF LoadStops
<1>2. CASE Moves(t, "download_failed")
  <2>1. Settable(t, "download_failed", row[t].mode, row[t].told, 0)
    BY <1>1, RowIs DEF Settable, Stored, RowStates, Begun, Streams, Growing, Local
  <2> QED BY <1>1, <1>2, <2>1, SetsKept DEF Moves
<1>3. CASE Sets(t, "queued", row[t].mode, 0)
  <2>1. Settable(t, "queued", row[t].mode, 0, 0)
    BY <1>1, RowIs DEF Settable, Stored, RowStates, Begun, Growing, Local
  <2> QED BY <1>1, <1>3, <2>1, SetsKept
<1> QED BY <1>2, <1>3 DEF LoadStops

LEMMA UploadsKept == ASSUME AdmInv, NEW t \in Tasks, Uploads(t) PROVE AdmKept
<1>1. /\ Onwards /\ Sets(t, "uploading", row[t].mode, row[t].told)
      /\ bytes' = [bytes EXCEPT ![t] = bytes[t]] /\ row[t].state = "waiting_upload"
  BY Goes, RowIs DEF Uploads, Moves
<1>2. Settable(t, "uploading", row[t].mode, row[t].told, bytes[t])
  BY <1>1, RowIs DEF Settable, Stored, RowStates, Begun, Streams, Growing, Local
<1> QED BY <1>1, <1>2, SetsKept

LEMMA VerifiedKept == ASSUME AdmInv, NEW t \in Tasks, Verified(t) PROVE AdmKept
<1>1. /\ Onwards /\ Sets(t, "cleanup_pending", row[t].mode, row[t].told)
      /\ bytes' = [bytes EXCEPT ![t] = bytes[t]] /\ row[t].state \in {"uploading", "streaming"}
  BY Goes, RowIs DEF Verified, Moves
<1>2. Settable(t, "cleanup_pending", row[t].mode, row[t].told, bytes[t])
  BY <1>1, RowIs DEF Settable, Stored, RowStates, Begun, Streams, Growing, Local
<1> QED BY <1>1, <1>2, SetsKept

LEMMA CleansKept == ASSUME AdmInv, NEW t \in Tasks, Cleans(t) PROVE AdmKept
<1>1. /\ Onwards /\ Sets(t, "completed", row[t].mode, row[t].told)
      /\ bytes' = [bytes EXCEPT ![t] = 0] /\ row[t].state = "cleanup_pending"
  BY Goes DEF Cleans, Moves
<1>2. Settable(t, "completed", row[t].mode, row[t].told, 0)
  BY <1>1, RowIs DEF Settable, Stored, RowStates, Begun, Streams, Growing, Local
<1> QED BY <1>1, <1>2, SetsKept

LEMMA ObjectGoneKept == ASSUME AdmInv, NEW t \in Tasks, ObjectGone(t) PROVE AdmKept
<1>1. Onwards /\ bytes' = [bytes EXCEPT ![t] = bytes[t]] /\ row[t].state = "cleanup_pending"
  BY Goes, RowIs DEF ObjectGone
<1>2. CASE Moves(t, "waiting_upload")
  <2>1. Settable(t, "waiting_upload", row[t].mode, row[t].told, bytes[t])
    BY <1>1, RowIs DEF Settable, Stored, RowStates, Begun, Streams, Growing, Local
  <2> QED BY <1>1, <1>2, <2>1, SetsKept DEF Moves
<1>3. CASE row[t].mode = "stream" /\ Sets(t, "queued", "stream", 0)
  <2>1. Settable(t, "queued", "stream", 0, bytes[t])
    BY <1>1, <1>3, RowIs DEF Settable, Stored, RowStates, Begun, Growing, Local
  <2> QED BY <1>1, <1>3, <2>1, SetsKept
<1>4. CASE Moves(t, "retained")
  <2>1. Settable(t, "retained", row[t].mode, row[t].told, bytes[t])
    BY <1>1, RowIs DEF Settable, Stored, RowStates, Begun, Streams, Growing, Local
  <2> QED BY <1>1, <1>4, <2>1, SetsKept DEF Moves
<1> QED BY <1>2, <1>3, <1>4 DEF ObjectGone

LEMMA UploadStopsKept == ASSUME AdmInv, NEW t \in Tasks, UploadStops(t) PROVE AdmKept
<1>1. /\ Onwards /\ bytes' = [bytes EXCEPT ![t] = bytes[t]]
      /\ row[t].state \in {"waiting_upload", "uploading"}
  BY Goes, RowIs DEF UploadStops
<1>2. \A s \in {"retained", "waiting_upload"} : Settable(t, s, row[t].mode, row[t].told, bytes[t])
  BY <1>1, RowIs DEF Settable, Stored, RowStates, Begun, Streams, Growing, Local
<1>3. PICK s \in {"retained", "waiting_upload"} : Sets(t, s, row[t].mode, row[t].told)
  BY DEF UploadStops, Moves
<1> QED BY <1>1, <1>2, <1>3, SetsKept

\* A coroutine that ends leaves its window and changes no row.
LEMMA EndsKept ==
    ASSUME AdmInv, NEW t \in Tasks, LoadEnds(t) \/ CleanFails(t) \/ UploadEnds(t)
    PROVE  AdmKept
<1>1. Onwards
  BY Goes DEF LoadEnds, CleanFails, UploadEnds
<1> QED BY <1>1, RowsStillKept DEF LoadEnds, CleanFails, UploadEnds

LEMMA RequestsStreamKept == ASSUME AdmInv, NEW t \in Tasks, RequestsStream(t) PROVE AdmKept
<1>1. /\ Onwards /\ Sets(t, "queued", "stream", 0) /\ bytes' = [bytes EXCEPT ![t] = bytes[t]]
      /\ row[t].state \in {"queued", "download_failed"}
  BY Goes, RowIs DEF RequestsStream
<1>2. Settable(t, "queued", "stream", 0, bytes[t])
  BY <1>1, RowIs DEF Settable, Stored, RowStates, Begun, Growing, Local
<1> QED BY <1>1, <1>2, SetsKept

LEMMA CancelsKeeps == ASSUME AdmInv, NEW t \in Tasks, Cancels(t) PROVE AdmKept
<1>1. /\ Onwards /\ Sets(t, "cancelled", row[t].mode, row[t].told)
      /\ bytes' = [bytes EXCEPT ![t] = 0] /\ row[t].state \notin {"none", "completed", "cancelled"}
      /\ t \notin loading'
  BY Goes DEF Cancels, Moves
<1>2. Settable(t, "cancelled", row[t].mode, row[t].told, 0)
  BY <1>1, RowIs DEF Settable, Stored, RowStates, Begun, Streams, Growing, Local
<1> QED BY <1>1, <1>2, SetsKept

LEMMA PausesKeeps == ASSUME AdmInv, Pauses PROVE AdmKept
<1>1. Onwards
  BY DEF Pauses, AdmInv, RoundSound, Onwards, work, round
<1> QED BY <1>1, RowsStillKept DEF Pauses, work

LEMMA NewDayKept == ASSUME AdmInv, NewDay PROVE AdmKept
<1> DEFINE aged(t) == [row[t] EXCEPT !.ledger = IF @ = "today" THEN "before" ELSE @]
<1>1. /\ row' = [t \in Tasks |-> aged(t)] /\ bytes' = bytes /\ slots' = slots /\ loading' = loading
      /\ Onwards
  BY Goes DEF NewDay
<1>2. ASSUME NEW t \in Tasks
      PROVE  /\ aged(t) \in TaskRow /\ aged(t).state = row[t].state /\ aged(t).mode = row[t].mode
             /\ aged(t).told = row[t].told
             /\ \/ aged(t).ledger = row[t].ledger
                \/ row[t].ledger = "today" /\ aged(t).ledger = "before"
  BY RowIs DEF TaskRow
<1> HIDE DEF aged
<1>3. ASSUME NEW t \in Tasks
      PROVE  Frees(t, row[t], bytes[t], aged(t), bytes[t])
             /\ (Streams(aged(t)) => Streams(row[t])) /\ (Counted(aged(t)) => Counted(row[t]))
  <2>1. RowSound(t, row[t], bytes[t]) /\ Claims(t, row[t], bytes[t]) \in Nat
    BY ClaimsAre DEF AdmInv, RowsSound
  <2>2. RowSound(t, aged(t), bytes[t])
    BY <1>2, <2>1 DEF RowSound, Stored
  <2> QED BY <1>2, <2>1, <2>2 DEF Frees, Claims, Stored, Counted, Begun, Streams
<1>4. row' \in [Tasks -> TaskRow] /\ bytes' \in [Tasks -> Nat]
  BY <1>1, <1>2 DEF AdmInv, RowsSound
<1>5. loading \subseteq Tasks
  BY DEF AdmInv, RoundSound
<1>6. DayKept'
  BY <1>1, <1>3, CountedShrinks DEF Onwards
<1> QED BY <1>1, <1>3, <1>4, <1>5, <1>6, FreesKept

LEMMA RestartsKept == ASSUME AdmInv, Restarts PROVE AdmKept
<1>1. /\ row' = [t \in Tasks |-> Recovered(t)]
      /\ bytes' = [t \in Tasks |-> IF Recovered(t).state = "queued" THEN 0 ELSE bytes[t]]
      /\ loading' = {} /\ Onwards /\ slots' \subseteq slots
  BY DEF Restarts, Onwards
<1>2. ASSUME NEW t \in Tasks
      PROVE  /\ Recovered(t) \in TaskRow
             /\ Frees(t, row[t], bytes[t], Recovered(t), bytes'[t])
             /\ bytes'[t] \in Nat /\ (Counted(Recovered(t)) => Counted(row[t]))
  <2>1. /\ bytes'[t] = IF Recovered(t).state = "queued" THEN 0 ELSE bytes[t]
        /\ RowSound(t, row[t], bytes[t]) /\ Claims(t, row[t], bytes[t]) \in Nat
    BY <1>1, ClaimsAre DEF AdmInv, RowsSound
  <2>2. CASE Recovered(t) = row[t] /\ row[t].state \notin Growing \cup {"streaming"}
    BY <2>1, <2>2, RowIs DEF RowSound, Frees, Claims, Counted, Growing
  <2>3. CASE /\ row[t].state \in {"uploading", "waiting_upload", "retained"} /\ row[t].mode = "local"
             /\ Recovered(t) = [row[t] EXCEPT !.state = "waiting_upload"]
    <3> DEFINE q == [row[t] EXCEPT !.state = "waiting_upload"]
    <3>1. /\ q \in TaskRow /\ q.state = "waiting_upload" /\ q.mode = "local" /\ q.told = row[t].told
          /\ q.ledger = row[t].ledger
      BY <2>3, RowIs DEF TaskRow, RowStates, Local
    <3>2. Recovered(t) = q
      BY <2>3
    <3> HIDE DEF q
    <3>3. RowSound(t, q, bytes[t])
      BY <2>1, <2>3, <3>1, RowIs DEF RowSound, Stored, Local, Growing
    <3>4. bytes'[t] = bytes[t] /\ Claims(t, q, bytes[t]) <= Claims(t, row[t], bytes[t])
      BY <2>1, <2>3, <3>1, <3>2, RowIs DEF Claims, Growing
    <3> QED BY <2>1, <2>3, <3>1, <3>2, <3>3, <3>4, RowIs DEF Frees, Stored, Counted, Begun, Local, Growing
  <2>4. CASE /\ row[t].state \in Growing \cup {"streaming", "uploading", "waiting_upload", "retained"}
             /\ Recovered(t) = [row[t] EXCEPT !.state = "queued", !.told = 0]
    <3> DEFINE q == [row[t] EXCEPT !.state = "queued", !.told = 0]
    <3>1. /\ q \in TaskRow /\ q.state = "queued" /\ q.told = 0 /\ q.mode = row[t].mode
          /\ q.ledger = row[t].ledger
      BY <2>4, RowIs DEF TaskRow, RowStates
    <3>2. Recovered(t) = q
      BY <2>4
    <3> HIDE DEF q
    <3>3. RowSound(t, q, 0)
      BY <2>1, <2>4, <3>1, RowIs DEF RowSound, Growing
    <3>4. bytes'[t] = 0 /\ Claims(t, q, 0) <= Claims(t, row[t], bytes[t])
      BY <2>1, <3>1, <3>2, RowIs DEF Claims, Growing
    <3> QED BY <3>1, <3>2, <3>3, <3>4 DEF Frees, Stored, Counted, Begun, Local, Growing
  <2>5. CASE row[t].state \in Growing \cup {"streaming", "uploading", "waiting_upload", "retained"}
    <3>1. Recovered(t) = IF /\ row[t].mode = "local" /\ bytes[t] = Size[t]
                            /\ row[t].state \notin Growing
                         THEN [row[t] EXCEPT !.state = "waiting_upload"]
                         ELSE [row[t] EXCEPT !.state = "queued", !.told = 0]
      BY <2>5 DEF Recovered
    <3>2. row[t].state # "streaming" \/ row[t].mode # "local"
      BY RowIs
    <3> QED BY <2>3, <2>4, <2>5, <3>1, <3>2
  <2>6. CASE row[t].state \notin Growing \cup {"streaming", "uploading", "waiting_upload", "retained"}
    <3>1. Recovered(t) = row[t]
      BY <2>6 DEF Recovered
    <3> QED BY <2>2, <2>6, <3>1
  <2> QED BY <2>5, <2>6
<1>3. row' \in [Tasks -> TaskRow] /\ bytes' \in [Tasks -> Nat]
  BY <1>1, <1>2
<1>4. DayKept'
  BY <1>1, <1>2, CountedShrinks DEF Onwards
<1> QED BY <1>1, <1>2, <1>3, <1>4, FreesKept

-------------------------------------------------------------------------------
(* Admissions *)

\* A task that begins to hold its size holds what quotas.admit has looked at.
LEMMA AdmittedKept ==
    ASSUME AdmInv, NEW t \in Tasks, Admits(t), NEW s \in {"queued", "waiting_upload"},
           NEW told \in Nat, told <= Size[t], s = "queued" => told = 0 /\ bytes[t] = 0,
           s = "waiting_upload" => bytes[t] = Size[t] /\ t \notin loading,
           Sets(t, s, row[t].mode, told), UNCHANGED <<bytes, loading, sending>>, Quiet \/ Mishap
    PROVE  AdmKept
<1> DEFINE q == [state |-> s, mode |-> row[t].mode, told |-> told, ledger |-> Ledger(t, s)]
<1>1. /\ q \in TaskRow /\ q.state = s /\ q.mode = row[t].mode /\ q.told = told
      /\ q.ledger = Ledger(t, s)
  BY RowIs, LedgerHolds DEF TaskRow, RowStates, Local
<1>2. row' = [row EXCEPT ![t] = q] /\ slots' \subseteq slots
  BY DEF Sets
<1> HIDE DEF q
<1>3. RowSound(t, q, bytes[t])
  BY <1>1, RowIs, LedgerHolds DEF RowSound, Stored, Local, Growing
<1>4. Claims(t, q, bytes[t]) <= Claims(t, row[t], bytes[t])
  BY <1>1, RowIs DEF Claims, Growing
<1>5. Frees(t, row[t], bytes[t], q, bytes[t])
  BY <1>1, <1>3, <1>4, RowIs DEF Frees, Stored, Begun, Growing, Local
<1>6. Onwards
  BY Goes
<1>7. DayKept'
  <2>1. \A x \in Tasks : x # t => row'[x] = row[x]
    BY <1>2 DEF AdmInv, RowsSound
  <2>2. row'[t] = q
    BY <1>2 DEF AdmInv, RowsSound
  <2>3. CASE HoldsLedger(t)
    <3>1. Counted(q) => Counted(row[t])
      BY <1>1, <2>3, LedgerHolds DEF Counted
    <3>2. \A x \in Tasks : Counted(row'[x]) => Counted(row[x])
      BY <2>1, <2>2, <3>1
    <3> QED BY <1>6, <3>2, CountedShrinks DEF Onwards
  <2>4. CASE ~ HoldsLedger(t)
    <3>1. CountedTasks' \subseteq CountedTasks \cup {t} /\ CountedTasks \cup {t} \subseteq Tasks
      BY <2>1 DEF CountedTasks
    <3>2. /\ Total(Size, CountedTasks') <= Total(Size, CountedTasks \cup {t})
          /\ Total(Size, CountedTasks \cup {t}) <= Total(Size, CountedTasks) + Size[t]
          /\ Total(Size, CountedTasks') \in Nat /\ Total(Size, CountedTasks) \in Nat
          /\ Total(Size, CountedTasks \cup {t}) \in Nat /\ Size[t] \in Nat
      <4>1. CountedTasks' \subseteq Tasks /\ CountedTasks \subseteq Tasks
        BY <3>1
      <4>2. Total(Size, CountedTasks') <= Total(Size, CountedTasks \cup {t})
        BY <3>1, Amounts, TotalGrows
      <4>3. Total(Size, CountedTasks \cup {t}) <= Total(Size, CountedTasks) + Size[t]
        BY <4>1, Amounts, TotalAdds
      <4> QED BY <3>1, <4>1, <4>2, <4>3, Amounts, UnitsFinite
    <3>3. limit.daily # 0 => Total(Size, CountedTasks) + Size[t] <= limit.daily
      BY <2>4 DEF Admits, Charged, CountedTasks, Counted
    <3>4. limit' = limit /\ limit.daily \in Nat
      BY <1>6, Amounts DEF Onwards
    <3> QED BY <3>2, <3>3, <3>4 DEF DayKept
  <2> QED BY <2>3, <2>4
<1>8. t \in loading' => (Streams(q) => Streams(row[t]))
  BY <1>1 DEF Streams
<1>9. bytes' = [bytes EXCEPT ![t] = bytes[t]]
  BY RowIs
<1> QED BY <1>2, <1>5, <1>6, <1>7, <1>8, <1>9, WriteKept

\* Submission and requeue, both after quotas.admit.
LEMMA SubmitsKept == ASSUME AdmInv, NEW t \in Tasks, Submits(t) \/ Requeues(t) PROVE AdmKept
<1>1. CASE Submits(t)
  <2>1. row[t].state = "none" /\ row[t].told = 0 /\ bytes[t] = 0 /\ 0 <= Size[t]
    BY <1>1, RowIs DEF Submits, Stored, Local, Growing
  <2>2. /\ Admits(t) /\ Sets(t, "queued", row[t].mode, 0) /\ Quiet
        /\ UNCHANGED <<bytes, loading, sending>>
    BY <1>1, <2>1 DEF Submits, Moves
  <2> QED BY <2>1, <2>2, AdmittedKept
<1>2. CASE Requeues(t)
  <2>1. /\ row[t].state \notin Growing /\ Admits(t) /\ t \notin loading
        /\ UNCHANGED <<bytes, loading, sending>> /\ Mishap /\ Size[t] \in Nat /\ 0 <= Size[t]
    BY <1>2, RowIs DEF Requeues, Growing
  <2>2. CASE bytes[t] = Size[t] /\ Sets(t, "waiting_upload", row[t].mode, Size[t])
    BY <2>1, <2>2, AdmittedKept
  <2>3. CASE bytes[t] # Size[t] /\ Sets(t, "queued", row[t].mode, 0)
    <3>1. bytes[t] = 0
      BY <2>1, <2>3, RowIs
    <3> QED BY <2>1, <2>3, <3>1, AdmittedKept
  <2> QED BY <1>2, <2>2, <2>3 DEF Requeues
<1> QED BY <1>1, <1>2

\* A member's slot is given only while others leave one.
LEMMA SlotGiven ==
    ASSUME AdmInv, NEW t \in Tasks, SlotAvailable(t), limit' = limit,
           SlotTasks' \subseteq SlotTasks \cup {t}
    PROVE  limit'.active # 0 => Cardinality(SlotTasks') <= limit'.active
<1> SUFFICES ASSUME limit.active # 0 PROVE Cardinality(SlotTasks') <= limit.active
  OBVIOUS
<1> DEFINE others == ActiveTasks \ {t}
<1>1. others \subseteq Tasks /\ SlotTasks' \subseteq others \cup {t}
  BY DEF ActiveTasks, SlotTasks, ActiveStates, In, Begun, AdmInv, RoundSound
<1>2. Cardinality(others) < limit.active /\ IsFiniteSet(others)
  BY <1>1, Amounts DEF SlotAvailable
<1> HIDE DEF others
<1>3. /\ IsFiniteSet(others \cup {t}) /\ Cardinality(others) \in Nat
      /\ Cardinality(others \cup {t}) <= Cardinality(others) + 1
      /\ Cardinality(others \cup {t}) \in Nat
  <2>1. IsFiniteSet(others \cup {t}) /\ Cardinality(others) \in Nat
    BY <1>2, FS_AddElement, FS_CardinalityType
  <2>2. Cardinality(others \cup {t}) \in Nat
    BY <2>1, FS_CardinalityType
  <2>3. Cardinality(others \cup {t})
          = IF t \in others THEN Cardinality(others) ELSE Cardinality(others) + 1
    BY <1>2, FS_AddElement
  <2> QED BY <2>1, <2>2, <2>3
<1>4. Cardinality(SlotTasks') <= Cardinality(others \cup {t}) /\ Cardinality(SlotTasks') \in Nat
  BY <1>1, <1>3, FS_Subset, FS_CardinalityType
<1> QED BY <1>2, <1>3, <1>4, Amounts

\* An admitted upload takes a place of the window and, unless it cleans up, a slot.
LEMMA SendsKept == ASSUME AdmInv, NEW t \in Tasks, Sends(t) PROVE AdmKept
<1>1. /\ turn = "sends" /\ turn' = turn /\ room > 0 /\ room' = room - 1 /\ t \notin sending
      /\ sending' = sending \cup {t} /\ row' = row /\ bytes' = bytes /\ loading' = loading
      /\ limit' = limit /\ slots' \subseteq slots \cup {t}
      /\ slots' # slots => SlotAvailable(t)
  BY DEF Sends, rest
<1>2. RowsSound' /\ Claim' = Claim /\ StoredTasks' = StoredTasks /\ CountedTasks' = CountedTasks
      /\ StreamTasks' = StreamTasks
  BY <1>1 DEF AdmInv, RowsSound, Claim, StoredTasks, CountedTasks, StreamTasks
<1>3. limit'.active # 0 => Cardinality(SlotTasks') <= limit'.active
  <2>1. CASE slots' = slots
    BY <1>1, <2>1 DEF SlotTasks, AdmInv, Admitted
  <2>2. CASE slots' # slots
    <3>1. SlotTasks' \subseteq SlotTasks \cup {t}
      BY <1>1 DEF SlotTasks
    <3> QED BY <1>1, <2>2, <3>1, SlotGiven
  <2> QED BY <2>1, <2>2
<1>4. Admitted'
  BY <1>1, <1>2, <1>3 DEF AdmInv, Admitted, DayKept
<1>5. /\ Cardinality(sending) \in Nat /\ Cardinality(sending') = Cardinality(sending) + 1
      /\ Cardinality(StreamTasks) \in Nat /\ room \in Nat
      /\ Cardinality(sending) + Cardinality(StreamTasks) + room <= UpWindow
  BY <1>1, Amounts, FS_AddElement, FS_CardinalityType DEF AdmInv, RoundSound
<1>6. RoundSound'
  <2>1. room' \in Nat /\ Cardinality(sending') + Cardinality(StreamTasks') + room' <= UpWindow
    BY <1>1, <1>2, <1>5, Amounts
  <2> QED BY <1>1, <2>1 DEF AdmInv, RoundSound
<1>7. WindowKept
  <2>1. Cardinality(sending) + Cardinality(StreamTasks) < UpWindow
    BY <1>1, <1>5, Amounts
  <2>2. StreamTasks = {x \in loading : row[x].mode = "stream" /\ row[x].state # "queued"}
    BY DEF StreamTasks, Streams
  <2> QED BY <2>1, <2>2 DEF WindowKept
<1> QED BY <1>2, <1>4, <1>6, <1>7 DEF AdmInv, AdmKept

\* The round starts with the room that uploads and streams leave.
LEMMA ReadUploadsKept == ASSUME AdmInv, ReadUploads PROVE AdmKept
<1>1. CASE turn' = "downloads" /\ room' = room
  <2>1. Onwards
    BY <1>1 DEF ReadUploads, Onwards, AdmInv, RoundSound, work, rest
  <2> QED BY <2>1, RowsStillKept DEF ReadUploads, work
<1>2. CASE UploadRoom > 0 /\ room' = UploadRoom /\ turn' = "uploadsRead"
  <2>1. /\ UNCHANGED <<row, bytes, loading, sending, slots, limit>>
    BY DEF ReadUploads, work, rest
  <2>2. RowsSound' /\ Admitted'
    BY <2>1 DEF AdmInv, RowsSound, Admitted, DayKept, Claim, StoredTasks, CountedTasks, SlotTasks
  <2> DEFINE streamed == {t \in loading : row[t].mode = "stream"}
  <2>3. /\ Cardinality(StreamTasks) <= Cardinality(streamed)
        /\ Cardinality(StreamTasks) \in Nat /\ Cardinality(streamed) \in Nat
        /\ Cardinality(sending) \in Nat
    <3>1. StreamTasks \subseteq streamed /\ streamed \subseteq loading
      BY DEF StreamTasks, Streams
    <3> QED BY <3>1, Amounts, FS_Subset, FS_CardinalityType
  <2>4. UploadRoom = UpWindow - Cardinality(sending) - Cardinality(streamed)
    BY DEF UploadRoom, StreamCount
  <2> HIDE DEF streamed
  <2>5. room' \in Nat /\ Cardinality(sending) + Cardinality(StreamTasks) + room' <= UpWindow
    BY <1>2, <2>3, <2>4, Amounts
  <2>6. RoundSound'
    BY <2>1, <2>5 DEF AdmInv, RoundSound, StreamTasks
  <2>7. WindowKept
    BY <2>1 DEF WindowKept
  <2> QED BY <2>2, <2>6, <2>7 DEF AdmInv, AdmKept
<1>3. UploadRoom \in Int
  BY Amounts, FS_Subset, FS_CardinalityType DEF UploadRoom, StreamCount
<1> QED BY <1>1, <1>2, <1>3 DEF ReadUploads

\* The scheduler's other steps: nothing is taken.
LEMMA RoundsKept ==
    ASSUME AdmInv,
           \/ ReadDownloads
           \/ Resumes("uploadsRead", "sends") \/ Resumes("downloadsRead", "reserves")
           \/ RoundEnds("sends", "downloads") \/ RoundEnds("reserves", "uploads")
           \/ UNCHANGED admissionVars
    PROVE  AdmKept
<1>1. UNCHANGED <<row, bytes, loading, sending, slots, limit>>
  BY DEF ReadDownloads, Resumes, RoundEnds, admissionVars, work, rest
<1>2. Cardinality(loading) \in Nat
  BY Amounts, FS_CardinalityType
<1>3. room' \in Nat
  <2>1. CASE ReadDownloads
    BY <1>2, <2>1, Amounts DEF ReadDownloads, AdmInv, RoundSound
  <2>2. CASE ~ ReadDownloads
    BY <2>2 DEF Resumes, RoundEnds, admissionVars, round, AdmInv, RoundSound
  <2> QED BY <2>1, <2>2
<1>4. turn' \in {"uploadsRead", "sends"} => turn \in {"uploadsRead", "sends"} /\ room' = room
  BY DEF ReadDownloads, Resumes, RoundEnds, admissionVars, round
<1>5. Onwards
  BY <1>1, <1>3, <1>4 DEF Onwards
<1> QED BY <1>1, <1>5, RowsStillKept

\* An admitted download takes its size, as far as it was still free: what
\* others have reported is on the disk already.
LEMMA DiskTaken ==
    ASSUME AdmInv, NEW t \in Tasks, Fits(t), \A x \in Tasks \ {t} : Claim'[x] = Claim[x],
           Claim'[t] = Size[t]
    PROVE  Total(Claim', Tasks) + MinFree <= Capacity
<1> DEFINE growing == {x \in In(Growing) : row[x].mode = "local"}
           sofar == [x \in Tasks |-> IF x \in growing THEN bytes[x] + ToReport[x] ELSE bytes[x]]
           after == [x \in Tasks |-> IF x \in {t} THEN sofar[x] + Size[x] ELSE sofar[x]]
<1>1. ASSUME NEW x \in Tasks
      PROVE  /\ bytes[x] \in Nat /\ ToReport[x] \in Nat /\ sofar[x] \in Nat /\ Size[x] \in Nat
             /\ after[x] \in Nat /\ Claim[x] \in Nat /\ Claim[x] <= sofar[x]
  BY RowIs DEF ToReport, Claim, Claims, In
<1>2. growing \subseteq Tasks
  BY DEF In
<1> HIDE DEF growing
<1>3. Total(bytes, Tasks) + Total(ToReport, growing) = Total(sofar, Tasks)
  <2>1. \A x \in Tasks : sofar[x] = IF x \in growing THEN bytes[x] + ToReport[x] ELSE bytes[x]
    OBVIOUS
  <2> HIDE DEF sofar
  <2> QED BY <1>1, <1>2, <2>1, Amounts, TotalJoins
<1>4. Total(sofar, Tasks) + Total(Size, {t}) = Total(after, Tasks)
  <2>1. \A x \in Tasks : after[x] = IF x \in {t} THEN sofar[x] + Size[x] ELSE sofar[x]
    OBVIOUS
  <2> HIDE DEF after, sofar
  <2> QED BY <1>1, <2>1, Amounts, TotalJoins
<1>5. \A x \in Tasks : Claim'[x] \in Nat /\ Claim'[x] <= after[x]
  <2>1. \A x \in Tasks : after[x] = IF x \in {t} THEN sofar[x] + Size[x] ELSE sofar[x]
    OBVIOUS
  <2> HIDE DEF after, sofar
  <2> QED BY <1>1, <2>1
<1> HIDE DEF after, sofar
<1>6. Total(Claim', Tasks) <= Total(after, Tasks)
  BY <1>1, <1>5, Amounts, TotalGrows
<1>7. Total(Size, {t}) <= Size[t] /\ Total(Size, {t}) \in Nat
  <2>1. Total(Size, {} \cup {t}) <= Total(Size, {}) + Size[t]
    BY <1>1, FS_EmptySet, TotalAdds
  <2>2. {} \cup {t} = {t}
    OBVIOUS
  <2>3. Total(Size, {}) = 0
    BY NoneIsNothing
  <2>4. IsFiniteSet({t}) /\ \A x \in {t} : Size[x] \in Nat
    BY <1>1, FS_Singleton
  <2>5. Total(Size, {t}) \in Nat
    BY <2>4, UnitsFinite
  <2> QED BY <1>1, <2>1, <2>2, <2>3, <2>5
<1>8. /\ Total(bytes, Tasks) \in Nat /\ Total(ToReport, growing) \in Nat
      /\ Total(sofar, Tasks) \in Nat /\ Total(after, Tasks) \in Nat /\ Total(Claim', Tasks) \in Nat
  BY <1>1, <1>2, <1>5, Amounts, UnitsFinite
<1>9. Capacity - Total(bytes, Tasks) >= Total(ToReport, growing) + Size[t] + MinFree
  BY DEF Fits, FreeDisk, PendingGrowth, growing
<1> QED BY <1>1, <1>3, <1>4, <1>6, <1>7, <1>8, <1>9, Amounts

\* A reservation: the only step that takes disk, budget and a place at once.
LEMMA ReservesKept == ASSUME AdmInv, NEW t \in Tasks, Reserves(t) PROVE AdmKept
<1> DEFINE m == IF AsStream(t) THEN "stream" ELSE "local"
           q == [state |-> "reserved", mode |-> m, told |-> row[t].told,
                 ledger |-> Ledger(t, "reserved")]
<1>1. /\ turn' = "reserves" /\ room \in Nat /\ room' \in Nat /\ StreamRoom(t) /\ SlotAvailable(t)
      /\ row[t].state = "queued" /\ row' = [row EXCEPT ![t] = q] /\ slots' = slots
      /\ loading' = loading \cup {t} /\ bytes' = bytes /\ sending' = sending /\ limit' = limit
  BY DEF Reserves, Sets, rest, AdmInv, RoundSound, ActiveStates, Growing
<1>2. /\ q \in TaskRow /\ q.state = "reserved" /\ q.mode = m /\ q.told = 0
      /\ q.ledger = Ledger(t, "reserved") /\ bytes[t] = 0 /\ m \in {"local", "stream"}
  BY <1>1, RowIs, LedgerHolds DEF TaskRow, RowStates, Local, Growing, Stored
<1> HIDE DEF q
<1>3. row'[t] = q /\ \A x \in Tasks \ {t} : row'[x] = row[x]
  BY <1>1 DEF AdmInv, RowsSound
<1>4. RowsSound'
  <2>1. RowSound(t, q, bytes[t])
    BY <1>1, <1>2, RowIs, LedgerHolds DEF RowSound, Growing
  <2> QED BY <1>1, <1>2, <1>3, <2>1 DEF AdmInv, RowsSound
<1>5. RoundSound'
  BY <1>1 DEF AdmInv, RoundSound
<1>6. \A x \in Tasks \ {t} : Claim'[x] = Claim[x]
  BY <1>1, <1>3 DEF Claim
<1>7. Total(Claim', Tasks) + MinFree <= Capacity
  <2>1. CASE AsStream(t)
    <3>1. Claim'[t] = Claim[t]
      BY <1>1, <1>2, <1>3, <2>1 DEF Claim, Claims, Growing
    <3>2. Claim' = Claim
      BY <1>6, <3>1 DEF Claim
    <3> QED BY <3>2 DEF AdmInv, Admitted
  <2>2. CASE ~ AsStream(t)
    <3>1. Fits(t)
      BY <2>2 DEF Reserves
    <3>2. Claim'[t] = Size[t]
      BY <1>1, <1>2, <1>3, <2>2 DEF Claim, Claims, Growing
    <3> QED BY <1>6, <3>1, <3>2, DiskTaken
  <2> QED BY <2>1, <2>2
<1>8. Total(Size, StoredTasks') <= LocalBudget
  <2>1. StoredTasks \subseteq Tasks /\ StoredTasks' \subseteq StoredTasks \cup {t}
    BY <1>3 DEF StoredTasks
  <2>2. Total(Size, StoredTasks) \in Nat /\ Total(Size, StoredTasks') \in Nat
        /\ Total(Size, StoredTasks \cup {t}) \in Nat /\ Size[t] \in Nat
    <3>1. StoredTasks' \subseteq Tasks /\ StoredTasks \cup {t} \subseteq Tasks
      BY <2>1
    <3> QED BY <2>1, <3>1, Amounts, UnitsFinite
  <2>3. CASE AsStream(t)
    <3>1. StoredTasks' \subseteq StoredTasks
      BY <1>2, <1>3, <2>3 DEF StoredTasks, Stored
    <3>2. Total(Size, StoredTasks') <= Total(Size, StoredTasks)
      BY <2>1, <3>1, Amounts, TotalGrows
    <3> QED BY <2>2, <3>2, Amounts DEF AdmInv, Admitted
  <2>4. CASE ~ AsStream(t)
    <3>1. {x \in In(Local) : row[x].mode = "local"} = StoredTasks
      BY DEF In, StoredTasks, Stored
    <3>2. Total(Size, StoredTasks) + Size[t] <= LocalBudget
      BY <2>4, <3>1 DEF Reserves, Fits, UsedLocal
    <3>3. Total(Size, StoredTasks') <= Total(Size, StoredTasks \cup {t})
      <4>1. StoredTasks \cup {t} \subseteq Tasks
        BY <2>1
      <4> QED BY <2>1, <4>1, Amounts, TotalGrows
    <3>4. Total(Size, StoredTasks \cup {t}) <= Total(Size, StoredTasks) + Size[t]
      BY <2>1, Amounts, TotalAdds
    <3> QED BY <2>2, <3>2, <3>3, <3>4, Amounts
  <2> QED BY <2>3, <2>4
<1>9. DayKept'
  <2>1. Counted(q) => Counted(row[t])
    BY <1>1, <1>2, LedgerHolds DEF Counted
  <2>2. \A x \in Tasks : Counted(row'[x]) => Counted(row[x])
    BY <1>3, <2>1
  <2> QED BY <1>1, <2>2, CountedShrinks
<1>10. limit'.active # 0 => Cardinality(SlotTasks') <= limit'.active
  <2>1. SlotTasks' \subseteq SlotTasks \cup {t}
    BY <1>1, <1>3 DEF SlotTasks
  <2> QED BY <1>1, <2>1, SlotGiven
<1>11. WindowKept
  <2> DEFINE now == {x \in loading : row[x].mode = "stream" /\ row[x].state # "queued"}
             streamed == {x \in loading : row[x].mode = "stream"}
  <2>1. SUFFICES ASSUME batch[t] = "stream" PROVE Cardinality(sending) + Cardinality(now) < UpWindow
    BY <1>1 DEF WindowKept
  <2>2. Cardinality(sending) + Cardinality(streamed) < UpWindow
    BY <1>1, <2>1 DEF StreamRoom, StreamCount
  <2>3. now \subseteq streamed /\ streamed \subseteq loading
    OBVIOUS
  <2> HIDE DEF now, streamed
  <2>4. /\ Cardinality(now) <= Cardinality(streamed) /\ Cardinality(now) \in Nat
        /\ Cardinality(streamed) \in Nat /\ Cardinality(sending) \in Nat
    BY <2>3, Amounts, FS_Subset, FS_CardinalityType
  <2> QED BY <2>2, <2>4, Amounts
<1> QED BY <1>4, <1>5, <1>7, <1>8, <1>9, <1>10, <1>11 DEF AdmInv, AdmKept, Admitted

\* At the start nothing is taken.
LEMMA AdmissionStarts == ASSUME AdmissionInit PROVE AdmInv
<1>1. /\ RowsSound /\ \A t \in Tasks : Claim[t] = 0
      /\ StoredTasks = {} /\ CountedTasks = {} /\ SlotTasks = {}
  BY AdmissionAssumption
     DEF AdmissionInit, RowsSound, RowSound, TaskRow, RowStates, Local, Growing, Claim, Claims,
         StoredTasks, Stored, CountedTasks, Counted, SlotTasks, Begun
<1>2. RoundSound
  BY DEF AdmissionInit, RoundSound
<1>3. limit \in [daily : Nat, queued : Nat, active : Nat]
  BY AdmissionAssumption DEF AdmissionInit
<1>4. Total(Claim, Tasks) = 0
  <2>1. Units(Claim, Tasks) = {}
    <3>1. ASSUME NEW u \in Units(Claim, Tasks) PROVE FALSE
      <4>1. u[1] \in Tasks /\ u[2] \in 1..Claim[u[1]]
        BY UnitsAre
      <4> QED BY <1>1, <4>1
    <3> QED BY <3>1
  <2> QED BY <2>1, FS_EmptySet DEF Total
<1>5. Total(Size, StoredTasks) = 0 /\ Total(Size, CountedTasks) = 0 /\ Cardinality(SlotTasks) = 0
  BY <1>1, NoneIsNothing, FS_EmptySet
<1>6. Admitted
  BY <1>3, <1>4, <1>5, AdmissionAssumption DEF Admitted, DayKept
<1> QED BY <1>1, <1>2, <1>6 DEF AdmInv

\* Every step keeps the limits.
LEMMA AdmissionStep == ASSUME AdmInv, [AdmissionNext]_admissionVars PROVE AdmKept
<1>1. CASE ReadUploads
  BY <1>1, ReadUploadsKept
<1>2. CASE \/ ReadDownloads
           \/ Resumes("uploadsRead", "sends") \/ Resumes("downloadsRead", "reserves")
           \/ RoundEnds("sends", "downloads") \/ RoundEnds("reserves", "uploads")
           \/ UNCHANGED admissionVars
  BY <1>2, RoundsKept
<1>3. ASSUME NEW t \in Tasks, Sends(t) \/ Reserves(t) \/ Submits(t) \/ Requeues(t) PROVE AdmKept
  BY <1>3, SendsKept, ReservesKept, SubmitsKept
<1>4. ASSUME NEW t \in Tasks, Attempts(t) \/ Receives(t) \/ Arrives(t) \/ LoadStops(t) PROVE AdmKept
  BY <1>4, AttemptsKept, ReceivesKept, ArrivesKept, LoadStopsKept
<1>5. ASSUME NEW t \in Tasks, Uploads(t) \/ Verified(t) \/ Cleans(t) \/ ObjectGone(t) PROVE AdmKept
  BY <1>5, UploadsKept, VerifiedKept, CleansKept, ObjectGoneKept
<1>6. ASSUME NEW t \in Tasks, LoadEnds(t) \/ CleanFails(t) \/ UploadStops(t) \/ UploadEnds(t)
      PROVE  AdmKept
  BY <1>6, EndsKept, UploadStopsKept
<1>7. ASSUME NEW t \in Tasks, RequestsStream(t) \/ Cancels(t) PROVE AdmKept
  BY <1>7, RequestsStreamKept, CancelsKeeps
<1>8. CASE Pauses \/ NewDay \/ Restarts
  BY <1>8, PausesKeeps, NewDayKept, RestartsKept
<1> QED BY <1>1, <1>2, <1>3, <1>4, <1>5, <1>6, <1>7, <1>8 DEF AdmissionNext

\* The budgets are what the invariant counts, in the code's own words.
LEMMA BudgetsFollow == ASSUME AdmInv PROVE WithinBudgets
<1> DEFINE growing == {x \in In(Growing) : row[x].mode = "local"}
           need == [t \in Tasks |-> Size[t] - bytes[t]]
<1>1. Total(bytes, Tasks) + Total(need, growing) = Total(Claim, Tasks)
  <2>1. ASSUME NEW x \in Tasks
        PROVE  /\ bytes[x] \in Nat /\ need[x] \in Nat
               /\ Claim[x] = IF x \in growing THEN bytes[x] + need[x] ELSE bytes[x]
    BY RowIs DEF Claim, Claims, In
  <2>2. growing \subseteq Tasks
    BY DEF In
  <2> HIDE DEF growing, need
  <2> QED BY <2>1, <2>2, Amounts, TotalJoins
<1>2. /\ Total(bytes, Tasks) \in Nat /\ Total(need, growing) \in Nat /\ Total(Claim, Tasks) \in Nat
  <2>1. growing \subseteq Tasks
    BY DEF In
  <2>2. ASSUME NEW x \in Tasks PROVE bytes[x] \in Nat /\ need[x] \in Nat /\ Claim[x] \in Nat
    BY RowIs DEF Claim, Claims
  <2> HIDE DEF growing, need
  <2> QED BY <2>1, <2>2, Amounts, UnitsFinite
<1>3. Capacity - Total(bytes, Tasks) >= MinFree + Total(need, growing)
  BY <1>1, <1>2, Amounts DEF AdmInv, Admitted
<1>4. UsedLocal <= LocalBudget
  <2>1. {x \in In(Local) : row[x].mode = "local"} = StoredTasks
    BY DEF In, StoredTasks, Stored
  <2> QED BY <2>1 DEF UsedLocal, AdmInv, Admitted
<1>5. NoOvercommit
  BY <1>3, <1>4 DEF NoOvercommit, FreeDisk
<1>6. limit.daily # 0 => Charged <= limit.daily
  <2>1. {t \in Tasks : row[t].ledger \in {"held", "today"}} = CountedTasks
    BY DEF CountedTasks, Counted
  <2> QED BY <2>1 DEF Charged, AdmInv, Admitted, DayKept
<1>7. ASSUME limit.active # 0
      PROVE Cardinality(ActiveTasks \ {t \in In({"uploading"}) : t \notin slots}) <= limit.active
  <2> DEFINE held == ActiveTasks \ {t \in In({"uploading"}) : t \notin slots}
  <2>1. held \subseteq SlotTasks
    BY DEF ActiveTasks, SlotTasks, ActiveStates, In, Begun, AdmInv, RoundSound
  <2> HIDE DEF held
  <2>2. /\ Cardinality(held) <= Cardinality(SlotTasks) /\ Cardinality(held) \in Nat
        /\ Cardinality(SlotTasks) \in Nat
    BY <2>1, Amounts, FS_Subset, FS_CardinalityType
  <2>3. Cardinality(held) <= limit.active
    BY <1>7, <2>2, Amounts DEF AdmInv, Admitted
  <2> QED BY <2>3 DEF held
<1> QED BY <1>5, <1>6, <1>7 DEF WithinBudgets, WithinLimits

\* Whatever is admitted, fails, is cancelled or interrupted: what the admitted
\* downloads may still write leaves the safety line of the disk free, the local
\* files fit their budget, and no member is above his slots or his day.
THEOREM BudgetsKept == AdmissionSpec => []WithinBudgets
<1>1. AdmissionInit => AdmInv
  BY AdmissionStarts
<1>2. AdmInv /\ [AdmissionNext]_admissionVars => AdmInv'
  BY AdmissionStep DEF AdmKept
<1>3. AdmInv => WithinBudgets
  BY BudgetsFollow
<1> QED BY <1>1, <1>2, <1>3, PTL DEF AdmissionSpec

\* An upload, or a stream that was read as one, starts only when uploads and
\* running streams together leave room in the upload window, however long ago
\* the scheduler counted.
THEOREM WindowsShared == AdmissionSpec => WindowShared
<1>1. AdmissionInit => AdmInv
  BY AdmissionStarts
<1>2. AdmInv /\ [AdmissionNext]_admissionVars => AdmInv'
  BY AdmissionStep DEF AdmKept
<1>3. AdmInv /\ [AdmissionNext]_admissionVars =>
        [\A t \in Tasks :
          \/ t \in sending' \ sending
          \/ t \in loading' \ loading /\ row'[t].mode = "stream" /\ batch[t] = "stream"
          => Cardinality(sending)
               + Cardinality({x \in loading : row[x].mode = "stream" /\ row[x].state # "queued"})
                  < UpWindow]_admissionVars
  BY AdmissionStep DEF AdmKept, WindowKept
<1> QED BY <1>1, <1>2, <1>3, PTL DEF AdmissionSpec, WindowShared

-------------------------------------------------------------------------------
\* Where the scheduler is, what it has read, and what it may still hand out in this round.
Turns == {"uploads", "uploadsRead", "sends", "downloads", "downloadsRead", "reserves"}
SchedulerSound ==
    /\ turn \in Turns /\ batch \in [Tasks -> {"none", "local", "stream"}]
    /\ room \in 0..(DownWindow + UpWindow) /\ paused \in BOOLEAN /\ mishaps \in 0..MaxMishaps

LEMMA SchedulerStep ==
    ASSUME AdmInv, SchedulerSound, [AdmissionNext]_admissionVars
    PROVE  SchedulerSound'
<1>1. DownWindow \in Nat /\ UpWindow \in Nat /\ MaxMishaps \in Nat /\ IsFiniteSet(Tasks)
  BY AdmissionAssumption
<1>2. /\ Cardinality(loading) \in Nat /\ Cardinality(sending) \in Nat /\ StreamCount \in Nat
  <2>1. loading \subseteq Tasks /\ sending \subseteq Tasks
    BY DEF AdmInv, RoundSound
  <2>2. IsFiniteSet(loading) /\ IsFiniteSet(sending)
        /\ IsFiniteSet({t \in loading : row[t].mode = "stream"})
    BY <1>1, <2>1, FS_Subset
  <2> QED BY <2>2, FS_CardinalityType DEF StreamCount
<1>3. \A t \in Tasks : row[t].mode \in {"local", "stream"}
  BY DEF AdmInv, RowsSound, TaskRow
<1>4. NotRead \in [Tasks -> {"none", "local", "stream"}] /\ 0 \in 0..(DownWindow + UpWindow)
  BY <1>1 DEF NotRead
<1>5. room \in 0..(DownWindow + UpWindow) /\ mishaps \in 0..MaxMishaps
      /\ batch \in [Tasks -> {"none", "local", "stream"}]
  BY DEF SchedulerSound
<1>6. ASSUME UNCHANGED <<round, paused>>, mishaps' \in {mishaps, mishaps + 1},
             mishaps' = mishaps \/ mishaps < MaxMishaps
      PROVE  SchedulerSound'
  <2>1. mishaps' \in 0..MaxMishaps
    BY <1>1, <1>5, <1>6
  <2> QED BY <1>6, <2>1 DEF SchedulerSound, round
<1>7. CASE ReadUploads
  <2>1. UploadRoom > 0 => UploadRoom \in 0..(DownWindow + UpWindow)
    BY <1>1, <1>2 DEF UploadRoom
  <2>2. ~ (UploadRoom <= 0) => UploadRoom > 0
    BY <1>1, <1>2 DEF UploadRoom
  <2>3. room' \in 0..(DownWindow + UpWindow)
    <3> HIDE DEF UploadRoom
    <3> QED BY <1>5, <1>7, <2>1, <2>2 DEF ReadUploads
  <2>4. batch' \in [Tasks -> {"none", "local", "stream"}] /\ turn' \in Turns
    BY <1>3, <1>5, <1>7 DEF ReadUploads, Turns
  <2> QED BY <1>7, <2>3, <2>4 DEF ReadUploads, SchedulerSound, rest
<1>8. CASE ReadDownloads
  <2>1. room' \in 0..(DownWindow + UpWindow)
    BY <1>1, <1>2, <1>5, <1>8 DEF ReadDownloads
  <2>2. batch' \in [Tasks -> {"none", "local", "stream"}] /\ turn' \in Turns
    BY <1>3, <1>5, <1>8 DEF ReadDownloads, Turns
  <2> QED BY <1>8, <2>1, <2>2 DEF ReadDownloads, SchedulerSound, rest
<1>9. CASE Resumes("uploadsRead", "sends") \/ Resumes("downloadsRead", "reserves")
  BY <1>9 DEF Resumes, SchedulerSound, Turns, rest
<1>10. CASE RoundEnds("sends", "downloads") \/ RoundEnds("reserves", "uploads")
  BY <1>4, <1>10 DEF RoundEnds, SchedulerSound, Turns, rest
<1>11. ASSUME NEW t \in Tasks, Sends(t) \/ Reserves(t) PROVE SchedulerSound'
  <2>1. room' = room - 1 /\ room > 0 /\ batch' = [batch EXCEPT ![t] = "none"] /\ UNCHANGED <<turn, rest>>
    BY <1>11 DEF Sends, Reserves
  <2>2. room' \in 0..(DownWindow + UpWindow)
    BY <1>1, <1>5, <2>1
  <2> QED BY <1>5, <2>1, <2>2 DEF SchedulerSound, rest
<1>12. ASSUME NEW t \in Tasks,
              \/ Attempts(t) \/ Receives(t) \/ Arrives(t) \/ LoadEnds(t) \/ Uploads(t) \/ Verified(t)
              \/ Cleans(t) \/ UploadEnds(t) \/ Submits(t)
       PROVE  SchedulerSound'
  BY <1>6, <1>12 DEF Attempts, Receives, Arrives, LoadEnds, Uploads, Verified, Cleans, UploadEnds, Submits,
     Quiet
<1>13. ASSUME NEW t \in Tasks,
              \/ LoadStops(t) \/ CleanFails(t) \/ ObjectGone(t) \/ UploadStops(t) \/ Requeues(t)
              \/ RequestsStream(t) \/ Cancels(t)
       PROVE  SchedulerSound'
  BY <1>6, <1>13 DEF LoadStops, CleanFails, ObjectGone, UploadStops, Requeues, RequestsStream, Cancels,
     Mishap
<1>14. CASE NewDay
  BY <1>6, <1>14 DEF NewDay, Mishap
<1>15. CASE Pauses \/ Restarts
  <2>1. mishaps' \in 0..MaxMishaps
    BY <1>1, <1>5, <1>15 DEF Pauses, Restarts
  <2>2. CASE Pauses
    BY <2>1, <2>2 DEF Pauses, SchedulerSound, round
  <2>3. CASE Restarts
    BY <1>4, <2>1, <2>3 DEF Restarts, SchedulerSound, Turns
  <2> QED BY <1>15, <2>2, <2>3
<1>16. CASE UNCHANGED admissionVars
  BY <1>16 DEF admissionVars, round, rest, SchedulerSound
<1> QED BY <1>7, <1>8, <1>9, <1>10, <1>11, <1>12, <1>13, <1>14, <1>15, <1>16 DEF AdmissionNext

\* Nothing is reported or stored beyond a task's size and no round hands out more than the
\* windows (_start_uploads, _start_downloads).
LEMMA AdmissionTypes == AdmissionSpec => []AdmissionTypeOK
<1>1. AdmissionInit => AdmInv /\ SchedulerSound
  <2> SUFFICES ASSUME AdmissionInit PROVE AdmInv /\ SchedulerSound
    OBVIOUS
  <2>1. DownWindow + UpWindow \in Nat /\ MaxMishaps \in Nat
    BY AdmissionAssumption
  <2>2. room \in 0..(DownWindow + UpWindow) /\ mishaps \in 0..MaxMishaps
    BY <2>1 DEF AdmissionInit
  <2> QED BY <2>2, AdmissionStarts DEF AdmissionInit, SchedulerSound, Turns, NotRead
<1>2. AdmInv /\ SchedulerSound /\ [AdmissionNext]_admissionVars => AdmInv' /\ SchedulerSound'
  BY AdmissionStep, SchedulerStep DEF AdmKept
<1>3. AdmInv /\ SchedulerSound => AdmissionTypeOK
  <2> SUFFICES ASSUME AdmInv, SchedulerSound PROVE AdmissionTypeOK
    OBVIOUS
  <2>1. /\ row \in [Tasks -> TaskRow]
        /\ loading \subseteq Tasks /\ sending \subseteq Tasks /\ slots \subseteq Tasks /\ limit \in Limits
    BY DEF AdmInv, RowsSound, RoundSound
  <2>2. ASSUME NEW t \in Tasks PROVE row[t].told \in 0..Size[t] /\ bytes[t] \in 0..Size[t]
    <3>1. /\ row[t].told \in Nat /\ row[t].told <= Size[t] /\ bytes[t] \in Nat /\ bytes[t] <= Size[t]
      BY DEF AdmInv, RowsSound, RowSound, TaskRow
    <3>2. Size[t] \in Nat
      BY AdmissionAssumption
    <3> QED BY <3>1, <3>2
  <2> QED BY <2>1, <2>2 DEF AdmissionTypeOK, SchedulerSound, Turns, TaskRow
<1> QED BY <1>1, <1>2, <1>3, PTL DEF AdmissionSpec


-------------------------------------------------------------------------------
(* The listener account: its session, the lock, the clients *)

\* The lock goes round one by one: the loop that connects, the client, the
\* one disconnect that gives it back, the terminal.
LockInv ==
    /\ client # 0 => lock = "bot"
    /\ kept => client # 0
    /\ loop.pc = "identity" => lock = "bot" /\ ~ kept
    /\ \A c \in closing :
          /\ c.verified => c.held
          /\ c.held => lock = "bot" /\ client = 0 /\ loop.pc # "identity"
          /\ \A d \in closing : c.held /\ d.held => c = d
    /\ login = "auth" => lock = "login"

\* A number is given to one client only, and a refusal seen for the current
\* client is true: nobody can have logged in since.
TruthInv ==
    /\ client <= made /\ loop.client <= made /\ read.client <= made
    /\ read.answer # "none" => read.client # 0
    /\ loop.pc \in {"poll", "ok", "denied", "limited"} => loop.client # 0
    /\ loop.pc = "denied" /\ client = loop.client => ~ session.valid
    /\ read.answer = "denied" /\ client = read.client => ~ session.valid
    /\ loop.pc = "identity" => client # 0 \/ ~ session.valid

AccountInv == AccountTypeOK /\ LockInv /\ TruthInv /\ LostIsTrue

LoopType == [pc : {"idle", "identity", "poll", "ok", "denied", "limited", "closing"}, value : Value,
             client : 0..MaxClients, then : {"nothing", "retry", "broken"}]
ClosingType == [client : 0..MaxClients, verified : BOOLEAN, held : BOOLEAN]

-------------------------------------------------------------------------------
LEMMA RestTypes == AtRest \in LoopType /\ NoRead \in [client : 0..MaxClients, answer : {"none", "ok", "denied"}]
BY AccountAssumption DEF AtRest, LoopType, NoRead, NoValue, Value, Statuses

LEMMA InitAccountInv == AccountInit => AccountInv
<1> SUFFICES ASSUME AccountInit PROVE AccountInv
  OBVIOUS
<1>1. NoValue \in Value
  BY DEF NoValue, Value, Statuses
<1>2. AccountTypeOK
  <2>1. 0 \in 0..MaxClients /\ 0 \in 0..MaxCommands
    BY AccountAssumption
  <2> QED BY <1>1, <2>1, RestTypes DEF AccountInit, AccountTypeOK, LoopType
<1>3. LockInv /\ TruthInv /\ LostIsTrue
  BY AccountAssumption DEF AccountInit, LockInv, TruthInv, LostIsTrue, NoValue, AtRest, NoRead
<1> QED BY <1>2, <1>3 DEF AccountInv

LEMMA WriteType ==
    ASSUME account \in Value, NEW enabled \in BOOLEAN, NEW status \in Statuses, NEW cool \in BOOLEAN,
           WriteState(enabled, status, cool)
    PROVE  /\ account' \in Value /\ account'.status = status /\ account'.account = account.account
BY DEF WriteState, Value

\* What is left after the Bot has let go of its client.
LEMMA Closed ==
    ASSUME AccountInv, NEW given \in BOOLEAN, CloseClient(given)
    PROVE  /\ client' = 0 /\ kept' = FALSE
           /\ lock' \in {lock, "free"} /\ closing' \subseteq ClosingType
           /\ closing \subseteq closing'
           /\ client = 0 => closing' = closing /\ (~ given => lock' = lock)
           /\ client # 0 => /\ lock' = lock
                            /\ closing' = closing \cup
                                 {[client |-> client, verified |-> kept, held |-> kept \/ given]}
BY DEF CloseClient, AccountInv, AccountTypeOK, ClosingType

LEMMA ClosedType ==
    ASSUME AccountInv, NEW given \in BOOLEAN, CloseClient(given), account' \in Value, loop' \in LoopType,
           read' \in [client : 0..MaxClients, answer : {"none", "ok", "denied"}],
           UNCHANGED <<session, made, login, commands>>
    PROVE  AccountTypeOK'
<1>1. client' = 0 /\ kept' = FALSE /\ lock' \in {lock, "free"} /\ closing' \subseteq ClosingType
  BY Closed
<1>2. lock \in {"free", "bot", "login"} /\ client' \in 0..MaxClients /\ kept' \in BOOLEAN
  <2>1. 0 \in 0..MaxClients
    BY AccountAssumption
  <2> QED BY <1>1, <2>1 DEF AccountInv, AccountTypeOK
<1>3. lock' \in {"free", "bot", "login"}
  BY <1>1, <1>2
<1> QED BY <1>1, <1>2, <1>3 DEF AccountInv, AccountTypeOK, LoopType, ClosingType

\* The lock after a close: `given` is set by the connecting loop alone, which
\* then goes on to wait.
LEMMA ClosedLock ==
    ASSUME AccountInv, NEW given \in BOOLEAN, CloseClient(given),
           given <=> loop.pc = "identity", loop'.pc # "identity", UNCHANGED login
    PROVE  LockInv'
<1>1. \A c \in closing : ~ (client # 0 /\ c.held) /\ ~ (given /\ c.held)
  BY DEF AccountInv, LockInv
<1>2. CASE client = 0
  <2>1. client' = 0 /\ kept' = FALSE /\ closing' = closing /\ lock' \in {lock, "free"}
        /\ (~ given => lock' = lock)
    BY <1>2, Closed
  <2>2. given => lock = "bot"
    BY DEF AccountInv, LockInv
  <2> QED BY <1>1, <2>1, <2>2 DEF AccountInv, LockInv
<1>3. CASE client # 0
  <2> DEFINE new == [client |-> client, verified |-> kept, held |-> kept \/ given]
  <2>1. client' = 0 /\ kept' = FALSE /\ closing' = closing \cup {new} /\ lock' = lock
    BY <1>3, Closed
  <2>2. (new.verified => new.held) /\ lock = "bot" /\ login # "auth"
    BY <1>3 DEF AccountInv, LockInv
  <2> HIDE DEF new
  <2> QED BY <1>1, <1>3, <2>1, <2>2 DEF AccountInv, LockInv
<1> QED BY <1>2, <1>3

\* How a loop that waits for a disconnect looks, and what a write of the
\* outcome may do.
LEMMA Awaits ==
    ASSUME AccountTypeOK, NEW then \in {"nothing", "retry", "broken"}, LoopAwaits(then)
    PROVE  loop' \in LoopType /\ loop'.pc = "closing" /\ loop'.client = client
BY DEF LoopAwaits, AccountTypeOK, LoopType

LEMMA StopsInv ==
    ASSUME AccountInv, Stops PROVE AccountInv'
<1>1. /\ loop.pc = "idle" /\ CloseClient(FALSE) /\ LoopAwaits("nothing")
      /\ UNCHANGED <<account, session, made, read, login, commands>>
  BY DEF Stops
<1>2. loop' \in LoopType /\ loop'.pc = "closing" /\ loop'.client = client
  BY <1>1, Awaits DEF AccountInv
<1>3. LockInv'
  BY <1>1, <1>2, ClosedLock
<1>4. /\ client' = 0 /\ kept' = FALSE /\ lock' \in {lock, "free"} /\ closing' \subseteq ClosingType
  BY <1>1, Closed
<1>5. AccountTypeOK'
  <2>1. account' \in Value /\ read' \in [client : 0..MaxClients, answer : {"none", "ok", "denied"}]
    BY <1>1 DEF AccountInv, AccountTypeOK
  <2> QED BY <1>1, <1>2, <2>1, ClosedType
<1>6. TruthInv' /\ LostIsTrue'
  BY <1>1, <1>2, <1>4 DEF AccountInv, TruthInv, LostIsTrue, AccountTypeOK
<1> QED BY <1>3, <1>5, <1>6 DEF AccountInv

LEMMA ResumesInv ==
    ASSUME AccountInv, LoopResumes PROVE AccountInv'
<1>1. loop' = AtRest /\ UNCHANGED <<session, client, kept, closing, lock, made, read, login, commands>>
  BY DEF LoopResumes, Holds
<1>2. account' \in Value /\ (account' = account \/ (account'.status # "lost"))
  <2>1. CASE loop.then = "nothing"
    BY <2>1 DEF LoopResumes, AccountInv, AccountTypeOK
  <2>2. CASE loop.then # "nothing"
    <3>1. WriteStateIf(loop.value, loop.value.enabled /\ loop.then = "retry", loop.then,
                       loop.then = "retry" \/ account.cool)
      BY <2>2 DEF LoopResumes
    <3>2. loop.then \in {"retry", "broken"} /\ loop.value.enabled \in BOOLEAN /\ account.cool \in BOOLEAN
          /\ account \in Value
      BY <2>2 DEF AccountInv, AccountTypeOK, Value
    <3>3. loop.then \in Statuses /\ loop.then # "lost"
      BY <3>2 DEF Statuses
    <3>4. (loop.value.enabled /\ loop.then = "retry") \in BOOLEAN
          /\ (loop.then = "retry" \/ account.cool) \in BOOLEAN
      BY <3>2
    <3> QED BY <3>1, <3>2, <3>3, <3>4, WriteType DEF WriteStateIf
  <2> QED BY <2>1, <2>2
<1>3. loop'.pc = "idle" /\ loop'.client = 0 /\ loop' \in LoopType
  BY <1>1, RestTypes DEF AtRest
<1>4. AccountTypeOK'
  BY <1>1, <1>2, <1>3 DEF AccountInv, AccountTypeOK, LoopType
<1>5. LockInv'
  BY <1>1, <1>3 DEF AccountInv, LockInv
<1>6. TruthInv'
  BY <1>1, <1>3 DEF AccountInv, TruthInv, AccountTypeOK
<1>7. LostIsTrue'
  BY <1>1, <1>2 DEF AccountInv, LostIsTrue
<1> QED BY <1>4, <1>5, <1>6, <1>7 DEF AccountInv

\* Writes of the record by the menu, the terminal and a loop that cannot open.
LEMMA RecordInv ==
    ASSUME AccountInv, account' \in Value, account'.account = account.account,
           account'.status # "lost" \/ account'.status = account.status,
           UNCHANGED <<session, client, kept, closing, lock, made, loop, read>>,
           login' \in {"idle", "locking", login}, commands' \in 0..MaxCommands
    PROVE  AccountInv'
<1>1. AccountTypeOK'
  BY DEF AccountInv, AccountTypeOK
<1>2. LockInv'
  BY DEF AccountInv, LockInv
<1>3. TruthInv' /\ LostIsTrue'
  BY DEF AccountInv, TruthInv, LostIsTrue
<1> QED BY <1>1, <1>2, <1>3 DEF AccountInv

LEMMA CommandsType ==
    ASSUME AccountInv, commands < MaxCommands, commands' = commands + 1
    PROVE  commands' \in 0..MaxCommands
<1>1. commands \in 0..MaxCommands /\ MaxCommands \in Nat
  BY AccountAssumption DEF AccountInv, AccountTypeOK
<1> QED BY <1>1

LEMMA RecordStep ==
    ASSUME AccountInv, CannotOpen \/ Enables \/ Disables \/ LoginStarts \/ CooldownEnds
    PROVE  AccountInv'
<1>0. account \in Value /\ account.cool \in BOOLEAN
  BY DEF AccountInv, AccountTypeOK, Value
<1>1. CASE CooldownEnds
  <2>1. account' \in Value /\ account'.account = account.account /\ account'.status = account.status
    BY <1>0, <1>1 DEF CooldownEnds, Value
  <2> QED BY <1>1, <2>1, RecordInv DEF CooldownEnds, Holds, AccountInv, AccountTypeOK
<1>2. CASE CannotOpen
  <2>1. WriteState(FALSE, "broken", account.cool) /\ "broken" \in Statuses
    BY <1>2 DEF CannotOpen, Statuses
  <2>2. account' \in Value /\ account'.account = account.account /\ account'.status = "broken"
    BY <1>0, <2>1, WriteType
  <2> QED BY <1>2, <2>2, RecordInv DEF CannotOpen, Holds, AccountInv, AccountTypeOK
<1>3. CASE Enables \/ Disables \/ LoginStarts
  <2>1. PICK on \in BOOLEAN, st \in {"asked", "off", "terminal"} : WriteState(on, st, account.cool)
    BY <1>3 DEF Enables, Disables, LoginStarts
  <2>2. account' \in Value /\ account'.account = account.account /\ account'.status # "lost"
    BY <1>0, <2>1, WriteType DEF Statuses
  <2>3. commands' \in 0..MaxCommands
    BY <1>3, CommandsType DEF Enables, Disables, LoginStarts, Commands
  <2> QED BY <1>3, <2>2, <2>3, RecordInv DEF Enables, Disables, LoginStarts, Commands, Holds
<1> QED BY <1>1, <1>2, <1>3

LEMMA ConnectsInv ==
    ASSUME AccountInv, Connects PROVE AccountInv'
<1>1. /\ lock = "free" /\ lock' = "bot" /\ made' = made + 1 /\ client' = made + 1 /\ made < MaxClients
      /\ loop' = [pc |-> "identity", value |-> account, client |-> made + 1, then |-> "nothing"]
      /\ loop.pc = "idle" /\ client = 0
      /\ UNCHANGED <<account, session, kept, closing, read, login, commands>>
  BY DEF Connects, MayConnectNow
<1>2. made \in 0..MaxClients /\ made + 1 \in 0..MaxClients /\ MaxClients \in Nat
  BY <1>1, AccountAssumption DEF AccountInv, AccountTypeOK
<1>3. AccountTypeOK'
  BY <1>1, <1>2 DEF AccountInv, AccountTypeOK
<1>4. ~ kept /\ \A c \in closing : ~ c.held
  BY <1>1 DEF AccountInv, LockInv
<1>5. LockInv'
  BY <1>1, <1>2, <1>4 DEF AccountInv, LockInv
<1>6. read.client # client' /\ TruthInv'
  BY <1>1, <1>2 DEF AccountInv, AccountTypeOK, TruthInv
<1> QED BY <1>1, <1>3, <1>5, <1>6 DEF AccountInv, LostIsTrue

LEMMA IdentityInv ==
    ASSUME AccountInv, Identified \/ ConnectionFails PROVE AccountInv'
<1>0. account \in Value /\ loop.pc = "identity" /\ UNCHANGED <<session, made, read, login, commands>>
  BY DEF Identified, ConnectionFails, AccountInv, AccountTypeOK
<1>1. CASE CloseClient(TRUE) /\ (\E then \in {"nothing", "retry", "broken"} : LoopAwaits(then))
           /\ UNCHANGED account
  <2>1. loop' \in LoopType /\ loop'.pc = "closing" /\ loop'.client = client
    BY <1>1, Awaits DEF AccountInv
  <2>2. LockInv'
    BY <1>0, <1>1, <2>1, ClosedLock
  <2>3. /\ client' = 0 /\ kept' = FALSE /\ lock' \in {lock, "free"} /\ closing' \subseteq ClosingType
    BY <1>1, Closed
  <2>4. AccountTypeOK'
    <3>1. account' \in Value /\ read' \in [client : 0..MaxClients, answer : {"none", "ok", "denied"}]
      BY <1>0, <1>1 DEF AccountInv, AccountTypeOK
    <3> QED BY <1>0, <1>1, <2>1, <3>1, ClosedType
  <2>5. TruthInv' /\ LostIsTrue'
    BY <1>0, <1>1, <2>1, <2>3 DEF AccountInv, TruthInv, LostIsTrue, AccountTypeOK
  <2> QED BY <2>2, <2>4, <2>5 DEF AccountInv
<1>2. CASE WriteState(TRUE, "ok", FALSE) /\ kept' = TRUE /\ loop' = AtRest /\ session.valid
           /\ UNCHANGED <<client, closing, lock>>
  <2>1. account' \in Value /\ account'.status = "ok"
    BY <1>0, <1>2, WriteType DEF Statuses
  <2>2. loop' \in LoopType /\ loop'.pc = "idle" /\ loop'.client = 0
    BY <1>2, RestTypes DEF AtRest
  <2>3. AccountTypeOK'
    BY <1>0, <1>2, <2>1, <2>2 DEF AccountInv, AccountTypeOK, LoopType
  <2>4. LockInv'
    <3>1. client # 0
      BY <1>0, <1>2 DEF AccountInv, TruthInv
    <3> QED BY <1>0, <1>2, <2>2, <3>1 DEF AccountInv, LockInv
  <2>5. TruthInv' /\ LostIsTrue'
    BY <1>0, <1>2, <2>1, <2>2 DEF AccountInv, TruthInv, LostIsTrue, AccountTypeOK
  <2> QED BY <2>3, <2>4, <2>5 DEF AccountInv
<1> QED BY <1>1, <1>2 DEF Identified, ConnectionFails

LEMMA PollInv ==
    ASSUME AccountInv, Polls \/ PollAnswered PROVE AccountInv'
<1>0. account \in Value /\ UNCHANGED <<session, client, kept, closing, lock, made, read, login, commands>>
  BY DEF Polls, PollAnswered, Holds, AccountInv, AccountTypeOK
<1>1. CASE Polls
  <2>1. /\ loop' = [pc |-> "poll", value |-> account, client |-> client, then |-> "nothing"]
        /\ client # 0
        /\ account' = account \/ WriteState(TRUE, "ok", FALSE)
    BY <1>1 DEF Polls
  <2>2. account' \in Value /\ (account' = account \/ account'.status = "ok")
    BY <1>0, <2>1, WriteType DEF Statuses
  <2>3. loop'.pc = "poll" /\ loop'.client = client /\ loop' \in LoopType
    BY <1>0, <2>1 DEF LoopType, AccountInv, AccountTypeOK
  <2>4. AccountTypeOK'
    BY <1>0, <2>2, <2>3 DEF AccountInv, AccountTypeOK, LoopType
  <2>5. LockInv' /\ TruthInv' /\ LostIsTrue'
    BY <1>0, <2>1, <2>2, <2>3 DEF AccountInv, LockInv, TruthInv, LostIsTrue
  <2> QED BY <2>4, <2>5 DEF AccountInv
<1>2. CASE PollAnswered
  <2>1. loop.pc = "poll" /\ UNCHANGED account
    BY <1>2 DEF PollAnswered
  <2>2. PICK a \in {"ok", "denied", "limited"} :
           /\ loop' = [loop EXCEPT !.pc = a]
           /\ a = "denied" => ~ session.valid
    BY <1>2 DEF PollAnswered, Answers
  <2>3. loop'.pc = a /\ loop'.client = loop.client /\ loop' \in LoopType
    BY <2>2 DEF LoopType, AccountInv, AccountTypeOK
  <2>4. AccountTypeOK'
    BY <1>0, <2>1, <2>3 DEF AccountInv, AccountTypeOK, LoopType
  <2>5. LockInv' /\ TruthInv' /\ LostIsTrue'
    BY <1>0, <2>1, <2>2, <2>3 DEF AccountInv, LockInv, TruthInv, LostIsTrue
  <2> QED BY <2>4, <2>5 DEF AccountInv
<1> QED BY <1>1, <1>2

LEMMA FailureInv ==
    ASSUME AccountInv, SourceFailure, ~ session.valid, loop.pc # "identity" \/ loop' = loop,
           loop'.pc # "identity" \/ loop' = loop,
           loop' \in LoopType, loop'.client <= made,
           loop'.pc \in {"poll", "ok", "denied", "limited"} => loop'.client # 0,
           read' \in {read, NoRead}, UNCHANGED <<session, made, login, commands>>
    PROVE  AccountInv'
<1>0. account \in Value /\ account.cool \in BOOLEAN
  BY DEF AccountInv, AccountTypeOK, Value
<1>1. account' \in Value
  BY <1>0, WriteType DEF SourceFailure, Statuses
<1>2. /\ client' = 0 /\ kept' = FALSE /\ lock' = lock
      /\ closing' \subseteq ClosingType
      /\ client = 0 => closing' = closing
      /\ client # 0 => closing' = closing \cup {[client |-> client, verified |-> kept, held |-> kept]}
  BY Closed DEF SourceFailure, AccountInv, AccountTypeOK
<1>3. read' \in [client : 0..MaxClients, answer : {"none", "ok", "denied"}]
  BY RestTypes DEF AccountInv, AccountTypeOK
<1>4. AccountTypeOK'
  BY <1>1, <1>3, ClosedType DEF SourceFailure
<1>5. LockInv'
  <2> DEFINE new == [client |-> client, verified |-> kept, held |-> kept]
  <2>1. (new.verified => new.held) /\ (new.held => lock = "bot" /\ loop.pc # "identity")
    BY DEF AccountInv, LockInv
  <2>2. client # 0 => \A c \in closing : ~ c.held
    BY DEF AccountInv, LockInv
  <2>3. client # 0 => closing' = closing \cup {new}
    BY <1>2
  <2> HIDE DEF new
  <2>4. loop'.pc = "identity" => loop.pc = "identity"
    OBVIOUS
  <2>5. new.held => loop'.pc # "identity"
    BY <2>1, <2>4
  <2> QED BY <1>2, <2>1, <2>2, <2>3, <2>4, <2>5 DEF AccountInv, LockInv
<1>6. TruthInv'
  BY <1>2 DEF AccountInv, TruthInv, AccountTypeOK, NoRead
<1> QED BY <1>4, <1>5, <1>6 DEF AccountInv, LostIsTrue

\* The loop comes to rest, possibly after it has written how the poll went.
LEMMA RestInv ==
    ASSUME AccountInv, account' \in Value, account' = account \/ account'.status # "lost", loop' = AtRest,
           UNCHANGED <<session, client, kept, closing, lock, made, read, login, commands>>
    PROVE  AccountInv'
<1>1. loop'.pc = "idle" /\ loop'.client = 0 /\ loop' \in LoopType
  BY RestTypes DEF AtRest
<1>2. AccountTypeOK'
  BY <1>1 DEF AccountInv, AccountTypeOK, LoopType
<1>3. LockInv'
  BY <1>1 DEF AccountInv, LockInv
<1>4. TruthInv'
  BY <1>1 DEF AccountInv, TruthInv, AccountTypeOK
<1>5. LostIsTrue'
  BY DEF AccountInv, LostIsTrue
<1> QED BY <1>2, <1>3, <1>4, <1>5 DEF AccountInv

LEMMA PollSeenInv ==
    ASSUME AccountInv, PollSeen PROVE AccountInv'
<1>0. account \in Value /\ loop.pc \in {"ok", "denied", "limited"} /\ UNCHANGED <<session, made, read, login, commands>>
  BY DEF PollSeen, AccountInv, AccountTypeOK
<1>1. AtRest \in LoopType /\ AtRest.pc = "idle" /\ AtRest.client = 0
  BY RestTypes DEF AtRest
<1>2. CASE loop.pc = "denied" /\ client = loop.client
  <2>1. SourceFailure /\ LoopAwaits("nothing") /\ ~ session.valid
    BY <1>2 DEF PollSeen, AccountInv, TruthInv
  <2>2. loop' \in LoopType /\ loop'.pc = "closing" /\ loop'.client = client
    BY <2>1, Awaits DEF AccountInv
  <2>3. loop'.client <= made
    BY <2>2 DEF AccountInv, TruthInv
  <2> QED BY <1>0, <2>1, <2>2, <2>3, FailureInv
<1>3. CASE loop.pc = "limited" /\ client = loop.client
  <2>1. WriteState(account.enabled, "cooling", TRUE) /\ loop' = AtRest
        /\ UNCHANGED <<client, kept, closing, lock>>
    BY <1>3 DEF PollSeen, Holds
  <2>2. account.enabled \in BOOLEAN /\ "cooling" \in Statuses
    BY <1>0 DEF Value, Statuses
  <2>3. account' \in Value /\ account'.status = "cooling"
    BY <1>0, <2>1, <2>2, WriteType
  <2> QED BY <1>0, <1>1, <2>1, <2>3, RestInv
<1>4. CASE ~ (loop.pc = "denied" /\ client = loop.client) /\ ~ (loop.pc = "limited" /\ client = loop.client)
  <2>1. loop' = AtRest /\ UNCHANGED <<account, client, kept, closing, lock>>
    BY <1>4 DEF PollSeen, Holds
  <2> QED BY <1>0, <1>1, <2>1, RestInv
<1> QED BY <1>2, <1>3, <1>4

LEMMA ReadInv ==
    ASSUME AccountInv, ReadStarts \/ ReadAnswered \/ ReadSeen PROVE AccountInv'
<1>0. read \in [client : 0..MaxClients, answer : {"none", "ok", "denied"}] /\ loop \in LoopType
      /\ client \in 0..MaxClients /\ UNCHANGED <<session, made, loop, login, commands>>
  BY DEF ReadStarts, ReadAnswered, ReadSeen, AccountInv, AccountTypeOK, LoopType
<1>1. ASSUME UNCHANGED <<account, client, kept, closing, lock>>,
             read' \in [client : 0..MaxClients, answer : {"none", "ok", "denied"}],
             read'.client \in {0, client, read.client},
             read'.answer # "none" => read'.client # 0,
             read'.answer = "denied" /\ client = read'.client => ~ session.valid
      PROVE  AccountInv'
  <2>1. AccountTypeOK'
    BY <1>0, <1>1 DEF AccountInv, AccountTypeOK
  <2>2. LockInv' /\ LostIsTrue'
    BY <1>0, <1>1 DEF AccountInv, LockInv, LostIsTrue
  <2>3. read'.client <= made
    <3>1. made \in Nat
      BY AccountAssumption DEF AccountInv, AccountTypeOK
    <3> QED BY <1>1, <3>1 DEF AccountInv, TruthInv
  <2>4. TruthInv'
    BY <1>0, <1>1, <2>3 DEF AccountInv, TruthInv
  <2> QED BY <2>1, <2>2, <2>4 DEF AccountInv
<1>2. CASE ReadStarts
  <2>1. read' = [client |-> client, answer |-> "none"] /\ UNCHANGED <<account, client, kept, closing, lock>>
    BY <1>2 DEF ReadStarts, Holds
  <2>2. read'.client = client /\ read'.answer = "none"
        /\ read' \in [client : 0..MaxClients, answer : {"none", "ok", "denied"}]
    BY <1>0, <2>1
  <2> QED BY <1>1, <2>1, <2>2
<1>3. CASE ReadAnswered
  <2>1. UNCHANGED <<account, client, kept, closing, lock>> /\ read.client # 0
    BY <1>3 DEF ReadAnswered, Holds
  <2>2. PICK a \in {"ok", "denied"} : read' = [read EXCEPT !.answer = a] /\ (a = "denied" => ~ session.valid)
    BY <1>3 DEF ReadAnswered, Answers
  <2>3. read'.client = read.client /\ read'.answer = a
        /\ read' \in [client : 0..MaxClients, answer : {"none", "ok", "denied"}]
    BY <1>0, <2>2
  <2> QED BY <1>1, <2>1, <2>2, <2>3
<1>4. CASE ReadSeen
  <2>1. CASE read.answer = "denied" /\ SameClient(read.client)
    <3>1. SourceFailure /\ read' = NoRead /\ ~ session.valid
      BY <1>4, <2>1 DEF ReadSeen, SameClient, AccountInv, TruthInv
    <3>2. loop.client <= made /\ (loop.pc \in {"poll", "ok", "denied", "limited"} => loop.client # 0)
      BY DEF AccountInv, TruthInv
    <3> QED BY <1>0, <3>1, <3>2, FailureInv
  <2>2. CASE ~ (read.answer = "denied" /\ SameClient(read.client))
    <3>1. read' = NoRead /\ UNCHANGED <<account, client, kept, closing, lock>>
      BY <1>4, <2>2 DEF ReadSeen, Holds
    <3>2. NoRead.client = 0 /\ NoRead.answer = "none"
      BY DEF NoRead
    <3> QED BY <1>1, <3>1, <3>2, RestTypes
  <2> QED BY <2>1, <2>2
<1> QED BY <1>2, <1>3, <1>4

LEMMA DisconnectedInv ==
    ASSUME AccountInv, NEW c \in closing, Disconnected(c) PROVE AccountInv'
<1>1. /\ closing' = closing \ {c} /\ lock' = (IF c.held THEN "free" ELSE lock)
      /\ UNCHANGED <<account, session, client, kept, made, loop, read, login, commands>>
  BY DEF Disconnected
<1>2. AccountTypeOK'
  <2>1. lock' \in {"free", "bot", "login"} /\ closing' \subseteq closing
    BY <1>1 DEF AccountInv, AccountTypeOK
  <2> QED BY <1>1, <2>1 DEF AccountInv, AccountTypeOK
<1>3. LockInv'
  <2>1. CASE c.held
    <3>1. client = 0 /\ lock = "bot" /\ loop.pc # "identity" /\ \A d \in closing' : ~ d.held
      BY <1>1, <2>1 DEF AccountInv, LockInv
    <3> QED BY <1>1, <3>1 DEF AccountInv, LockInv
  <2>2. CASE ~ c.held
    BY <1>1, <2>2 DEF AccountInv, LockInv
  <2> QED BY <2>1, <2>2
<1>4. TruthInv' /\ LostIsTrue'
  BY <1>1 DEF AccountInv, TruthInv, LostIsTrue
<1> QED BY <1>2, <1>3, <1>4 DEF AccountInv

LEMMA LoginInv ==
    ASSUME AccountInv, LoginLocks \/ LoginGivesUp PROVE AccountInv'
<1>1. /\ UNCHANGED <<account, session, client, kept, closing, made, loop, read, commands>>
      /\ \/ lock = "free" /\ lock' = "login" /\ login' = "auth"
         \/ login' = "idle" /\ lock' = (IF login = "auth" THEN "free" ELSE lock)
  BY DEF LoginLocks, LoginGivesUp
<1>2. AccountTypeOK'
  BY <1>1 DEF AccountInv, AccountTypeOK
<1>3. LockInv'
  BY <1>1 DEF AccountInv, LockInv
<1>4. TruthInv' /\ LostIsTrue'
  BY <1>1 DEF AccountInv, TruthInv, LostIsTrue
<1> QED BY <1>2, <1>3, <1>4 DEF AccountInv

\* The terminal has the lock, so the Bot has no client whose error could be
\* taken for one of the new session.
LEMMA LogsInInv ==
    ASSUME AccountInv, NEW a \in Accounts, LogsIn(a) PROVE AccountInv'
<1>1. /\ login = "auth" /\ session' = [who |-> a, valid |-> TRUE]
      /\ login' = "idle" /\ lock' = "free"
      /\ UNCHANGED <<client, kept, closing, made, loop, read, commands>>
  BY DEF LogsIn
<1>2. lock = "login" /\ client = 0 /\ loop.pc # "identity" /\ ~ kept
  BY <1>1 DEF AccountInv, LockInv
<1>3. account' \in Value /\ (account' = account \/ account'.status = "in")
      /\ (account' = account => account.account \in Accounts \ {a} \/ account.status = "in")
  <2>1. account \in Value
    BY DEF AccountInv, AccountTypeOK
  <2>2. CASE account.account \in {NoAccount, a}
    <3>1. account' = [account EXCEPT !.account = a, !.enabled = FALSE, !.status = "in"]
      BY <2>2 DEF LogsIn
    <3>2. account' \in Value /\ account'.status = "in"
      BY <2>1, <3>1 DEF Value, Statuses
    <3> QED BY <3>2
  <2>3. CASE account.account \notin {NoAccount, a}
    <3>1. account' = account
      BY <2>3 DEF LogsIn
    <3>2. account.account \in Accounts \ {a}
      BY <2>1, <2>3 DEF Value
    <3> QED BY <2>1, <3>1, <3>2
  <2> QED BY <2>2, <2>3
<1>4. AccountTypeOK'
  BY <1>1, <1>3 DEF AccountInv, AccountTypeOK
<1>5. LockInv'
  BY <1>1, <1>2 DEF AccountInv, LockInv
<1>6. TruthInv'
  BY <1>1, <1>2 DEF AccountInv, TruthInv
<1>7. LostIsTrue'
  BY <1>1, <1>3 DEF LostIsTrue
<1> QED BY <1>4, <1>5, <1>6, <1>7 DEF AccountInv

LEMMA WorldInv ==
    ASSUME AccountInv, Ends \/ BotRestarts PROVE AccountInv'
<1>1. commands' \in 0..MaxCommands /\ UNCHANGED <<account, made, login>>
  <2>1. commands < MaxCommands /\ commands' = commands + 1 /\ UNCHANGED <<account, made, login>>
    BY DEF Ends, BotRestarts, Commands
  <2> QED BY <2>1, CommandsType
<1>2. CASE Ends
  <2>1. session' = [session EXCEPT !.valid = FALSE] /\ UNCHANGED <<client, kept, closing, lock, loop, read>>
    BY <1>2 DEF Ends, Commands, Holds
  <2>2. ~ session'.valid /\ session' \in [who : Accounts \cup {NoAccount}, valid : BOOLEAN]
    BY <2>1 DEF AccountInv, AccountTypeOK
  <2>3. AccountTypeOK'
    BY <1>1, <2>1, <2>2 DEF AccountInv, AccountTypeOK
  <2>4. LockInv' /\ LostIsTrue'
    BY <1>1, <2>1, <2>2 DEF AccountInv, LockInv, LostIsTrue
  <2>5. TruthInv'
    BY <1>1, <2>1, <2>2 DEF AccountInv, TruthInv
  <2> QED BY <2>3, <2>4, <2>5 DEF AccountInv
<1>3. CASE BotRestarts
  <2>1. /\ client' = 0 /\ kept' = FALSE /\ closing' = {}
        /\ lock' = (IF lock = "bot" THEN "free" ELSE lock)
        /\ loop' = AtRest /\ read' = NoRead /\ UNCHANGED session
    BY <1>3 DEF BotRestarts, Commands
  <2>2. AtRest \in LoopType /\ AtRest.pc = "idle" /\ AtRest.client = 0 /\ NoRead.client = 0
        /\ NoRead.answer = "none" /\ NoRead \in [client : 0..MaxClients, answer : {"none", "ok", "denied"}]
    BY RestTypes DEF AtRest, NoRead
  <2>3. lock' \in {"free", "bot", "login"} /\ client' \in 0..MaxClients
    <3>1. 0 \in 0..MaxClients
      BY AccountAssumption
    <3> QED BY <2>1, <3>1 DEF AccountInv, AccountTypeOK
  <2>4. AccountTypeOK'
    BY <1>1, <2>1, <2>2, <2>3 DEF AccountInv, AccountTypeOK, LoopType
  <2>5. LockInv' /\ LostIsTrue'
    BY <1>1, <2>1, <2>2 DEF AccountInv, LockInv, LostIsTrue
  <2>6. TruthInv'
    <3>1. 0 <= made
      BY AccountAssumption DEF AccountInv, AccountTypeOK
    <3> QED BY <1>1, <2>1, <2>2, <3>1 DEF TruthInv
  <2> QED BY <2>4, <2>5, <2>6 DEF AccountInv
<1> QED BY <1>2, <1>3

LEMMA StepAccountInv ==
    ASSUME AccountInv, [AccountNext]_accountVars PROVE AccountInv'
<1>1. CASE UNCHANGED accountVars
  <2>1. AccountTypeOK'
    BY <1>1 DEF accountVars, AccountInv, AccountTypeOK
  <2>2. LockInv' /\ TruthInv' /\ LostIsTrue'
    BY <1>1 DEF accountVars, AccountInv, LockInv, TruthInv, LostIsTrue
  <2> QED BY <2>1, <2>2 DEF AccountInv
<1>2. ASSUME NEW c \in closing, Disconnected(c) PROVE AccountInv'
  BY <1>2, DisconnectedInv
<1>3. CASE LoopResumes \/ Stops \/ Connects \/ Identified \/ ConnectionFails
  BY <1>3, ResumesInv, StopsInv, ConnectsInv, IdentityInv
<1>4. CASE CannotOpen \/ Enables \/ Disables \/ LoginStarts \/ CooldownEnds
  BY <1>4, RecordStep
<1>5. CASE Polls \/ PollAnswered \/ PollSeen
  BY <1>5, PollInv, PollSeenInv
<1>6. CASE ReadStarts \/ ReadAnswered \/ ReadSeen
  BY <1>6, ReadInv
<1>7. CASE LoginLocks \/ LoginGivesUp
  BY <1>7, LoginInv
<1>8. ASSUME NEW a \in Accounts, LogsIn(a) PROVE AccountInv'
  BY <1>8, LogsInInv
<1>9. CASE Ends \/ BotRestarts
  BY <1>9, WorldInv
<1> QED BY <1>1, <1>2, <1>3, <1>4, <1>5, <1>6, <1>7, <1>8, <1>9 DEF AccountNext

THEOREM AccountInvariant == AccountSpec => []AccountInv
<1>1. AccountInit => AccountInv
  BY InitAccountInv
<1>2. AccountInv /\ [AccountNext]_accountVars => AccountInv'
  BY StepAccountInv
<1> QED BY <1>1, <1>2, PTL DEF AccountSpec

\* The lock in service.py and account.py keeps the terminal's login and the Bot
\* apart: close() returns it only after the disconnect, connect() takes it
\* before the client exists.
THEOREM AccountSession == AccountSpec => []SessionExclusive
<1>1. AccountInv => SessionExclusive
  <2> SUFFICES ASSUME AccountInv, login = "auth" PROVE client = 0 /\ \A c \in closing : ~ c.verified
    BY DEF SessionExclusive
  <2>1. lock = "login"
    BY DEF AccountInv, LockInv
  <2> QED BY <2>1 DEF AccountInv, LockInv
<1> QED BY <1>1, AccountInvariant, PTL

\* classify_error and poll compare the client of the failed request with the
\* current one, so a revoked session is reported only when it is revoked.
THEOREM AccountLostIsTrue == AccountSpec => []LostIsTrue
<1>1. AccountInv => LostIsTrue
  BY DEF AccountInv
<1> QED BY <1>1, AccountInvariant, PTL

-------------------------------------------------------------------------------
(* The family: grants, quotas and settings *)

Pages == [Members -> Standings] \cup {{}}
Wordings == Quotas \cup Settings \cup {""}
OrderKinds == GrantKinds \cup {"quota", "settings"}
Ids == Members \cup {"nobody"}
Orders == [kind : OrderKinds, id : Ids, revision : Nat, page : Pages, seen : Wordings,
           wants : Wordings]

\* What an order may rely on: its revision stands for what was shown with it.
Current(o) ==
    IF o.kind = "settings"
    THEN o.revision = options.revision => o.seen = options.value
    ELSE o.revision = grants.revision => o.page = grants.users

\* What it asks for.
Valid(o) ==
    /\ o.kind = "settings" => o.wants \in Settings
    /\ o.kind = "quota" => o.wants \in Quotas /\ o.id \in Members

\* A revision is never given twice: the number of a request that is still to
\* be carried out is nowhere yet.
Fresh(rq) ==
    /\ rq.number \in 1 .. orders
    /\ grants.revision # rq.number /\ options.revision # rq.number
    /\ \A t \in Terminals : terminal[t].at # "menu" => terminal[t].order.revision # rq.number
    /\ \A other \in requests :
          /\ other.order.revision # rq.number
          /\ other.number = rq.number => other = rq

FamilyShape ==
    /\ grants \in [revision : 0 .. MaxOrders, users : [Members -> Standings]]
    /\ quota \in [Members -> Quotas]
    /\ options \in [revision : 0 .. MaxOrders, value : Settings]
    /\ edition \in Terminals \cup {"free"}
    /\ orders \in 0 .. MaxOrders
    /\ terminal \in [Terminals -> [at : {"menu", "quota", "confirm", "sent"},
                                   order : Orders \cup {AtMenu.order}]]
    /\ requests \subseteq [by : Terminals, number : Nat, order : Orders]

\* What a terminal shows is an order it may rely on.
Shown(t) == terminal[t].at # "menu" =>
    /\ terminal[t].order \in Orders /\ Current(terminal[t].order)
    /\ terminal[t].order.revision <= orders
    /\ IF terminal[t].at = "quota" THEN terminal[t].order.kind = "quota"
                               ELSE Valid(terminal[t].order)

FamilyInv ==
    /\ FamilyShape
    /\ grants.revision <= orders /\ options.revision <= orders
    /\ \A t \in Terminals : Shown(t)
    /\ \A rq \in requests : Fresh(rq) /\ Current(rq.order) /\ Valid(rq.order) /\ rq.order.revision <= orders

-------------------------------------------------------------------------------
LEMMA InitFamilyInv == FamilyInit => FamilyInv
<1> SUFFICES ASSUME FamilyInit PROVE FamilyInv
  OBVIOUS
<1>1. FamilyShape
  BY FamilyAssumption DEF FamilyInit, FamilyShape, Standings, Quotas, Settings, AtMenu
<1>2. grants.revision = 0 /\ options.revision = 0 /\ orders = 0 /\ requests = {}
      /\ \A t \in Terminals : terminal[t].at = "menu"
  BY DEF FamilyInit, AtMenu
<1> QED BY <1>1, <1>2 DEF FamilyInv, Shown

LEMMA OrderType ==
    ASSUME NEW kind \in OrderKinds, NEW id \in Ids, NEW revision \in Nat, NEW page \in Pages,
           NEW seen \in Wordings, NEW wants \in Wordings
    PROVE  [kind |-> kind, id |-> id, revision |-> revision, page |-> page, seen |-> seen,
            wants |-> wants] \in Orders
BY DEF Orders

LEMMA NewOrder ==
    ASSUME FamilyInv, NEW kind \in GrantKinds \cup {"quota"}, NEW m \in Members
    PROVE  LET o == Order(kind, m, grants, grants.users, "", "") IN
           o \in Orders /\ Current(o) /\ o.revision <= orders /\ o.kind = kind
                        /\ \A rq \in requests : o.revision # rq.number
<1> DEFINE o == Order(kind, m, grants, grants.users, "", "")
<1>1. o = [kind |-> kind, id |-> m, revision |-> grants.revision, page |-> grants.users, seen |-> "",
           wants |-> ""]
  BY DEF Order
<1>2. grants.revision \in Nat /\ grants.users \in Pages /\ kind # "settings"
  BY DEF FamilyInv, FamilyShape, Pages, GrantKinds
<1>3. o \in Orders
  <2>1. "" \in Wordings /\ kind \in OrderKinds /\ m \in Ids
    BY DEF Wordings, OrderKinds, Ids
  <2> QED BY <1>1, <1>2, <2>1, OrderType, Zenon
<1> HIDE DEF o
<1>4. Current(o) /\ o.revision <= orders /\ o.kind = kind /\ \A rq \in requests : o.revision # rq.number
  BY <1>1, <1>2 DEF Current, FamilyInv, Fresh
<1> QED BY <1>3, <1>4 DEF o

LEMMA NewSetting ==
    ASSUME FamilyInv, NEW wants \in Settings
    PROVE  LET o == Order("settings", "nobody", options, {}, options.value, wants) IN
           o \in Orders /\ Current(o) /\ o.revision <= orders /\ Valid(o)
                        /\ \A rq \in requests : o.revision # rq.number
<1> DEFINE o == Order("settings", "nobody", options, {}, options.value, wants)
<1>1. o = [kind |-> "settings", id |-> "nobody", revision |-> options.revision, page |-> {},
           seen |-> options.value, wants |-> wants]
  BY DEF Order
<1>2. options.revision \in Nat /\ options.value \in Settings
  BY DEF FamilyInv, FamilyShape
<1>3. o \in Orders
  <2>1. options.value \in Wordings /\ wants \in Wordings /\ {} \in Pages
    BY <1>2 DEF Wordings, Pages
  <2>2. "settings" \in OrderKinds /\ "nobody" \in Ids
    BY DEF OrderKinds, Ids
  <2> QED BY <1>1, <1>2, <2>1, <2>2 DEF Orders
<1> HIDE DEF o
<1>4. Current(o) /\ o.revision <= orders /\ Valid(o) /\ \A rq \in requests : o.revision # rq.number
  BY <1>1, <1>2 DEF Current, Valid, FamilyInv, Fresh
<1> QED BY <1>3, <1>4 DEF o

\* A terminal that shows an order, takes it back or returns to its menu.
LEMMA TerminalInv ==
    ASSUME FamilyInv, NEW t \in Terminals, UNCHANGED <<records, requests, orders>>,
           edition' \in {edition, "free"},
           NEW next, terminal' = [terminal EXCEPT ![t] = next],
           next.at \in {"menu", "quota", "confirm", "sent"},
           next \in [at : {"menu", "quota", "confirm", "sent"}, order : Orders \cup {AtMenu.order}],
           next.at # "menu" => /\ next.order \in Orders /\ Current(next.order)
                               /\ next.order.revision <= orders
                               /\ next.at = "quota" => next.order.kind = "quota"
                               /\ next.at # "quota" => Valid(next.order)
                               /\ \A rq \in requests : next.order.revision # rq.number
    PROVE  FamilyInv'
<1>1. UNCHANGED <<grants, quota, options, requests, orders>>
  BY DEF records
<1>2. FamilyShape'
  BY <1>1 DEF FamilyInv, FamilyShape
<1>3. \A s \in Terminals : terminal'[s] = IF s = t THEN next ELSE terminal[s]
  BY DEF FamilyInv, FamilyShape
<1>4. (\A s \in Terminals : Shown(s))'
  <2> SUFFICES ASSUME NEW s \in Terminals PROVE Shown(s)'
    OBVIOUS
  <2>1. CASE s = t
    BY <1>1, <1>3, <2>1 DEF Current, Shown, Valid
  <2>2. CASE s # t
    BY <1>1, <1>3, <2>2 DEF Current, Shown, Valid, FamilyInv
  <2> QED BY <2>1, <2>2
<1>5. \A rq \in requests : Fresh(rq)'
  BY <1>1, <1>3 DEF Fresh, FamilyInv
<1> QED BY <1>1, <1>2, <1>4, <1>5 DEF FamilyInv, Current, Valid

LEMMA MenuInv ==
    ASSUME FamilyInv, NEW t \in Terminals,
           ChoosesGrant(t) \/ ChoosesMember(t) \/ ReadsQuota(t) \/ ChoosesSetting(t)
           \/ Declines(t) \/ StopsWaiting(t)
    PROVE  FamilyInv'
<1>0. /\ AtMenu \in [at : {"menu", "quota", "confirm", "sent"}, order : Orders \cup {AtMenu.order}]
      /\ AtMenu.at = "menu"
  BY DEF AtMenu
<1>1. CASE Declines(t) \/ StopsWaiting(t)
  <2>1. UNCHANGED <<records, requests, orders>> /\ edition' \in {edition, "free"}
        /\ terminal' = [terminal EXCEPT ![t] = AtMenu]
    BY <1>1 DEF Declines, StopsWaiting
  <2> QED BY <1>0, <2>1, TerminalInv
<1>2. CASE ChoosesGrant(t)
  <2>1. PICK kind \in GrantKinds, m \in Members :
           terminal' = [terminal EXCEPT ![t] =
              [at |-> "confirm", order |-> Order(kind, m, grants, grants.users, "", "")]]
    BY <1>2 DEF ChoosesGrant
  <2> DEFINE o == Order(kind, m, grants, grants.users, "", "")
  <2>2. /\ o \in Orders /\ Current(o) /\ o.revision <= orders /\ o.kind \in GrantKinds
        /\ \A rq \in requests : o.revision # rq.number
    BY NewOrder
  <2> HIDE DEF o
  <2> DEFINE next == [at |-> "confirm", order |-> o]
  <2>3. UNCHANGED <<records, requests, edition, orders>> /\ terminal' = [terminal EXCEPT ![t] = next]
    BY <1>2, <2>1 DEF ChoosesGrant, o
  <2>4. Valid(o)
    BY <2>2 DEF Valid, GrantKinds
  <2> QED BY <2>2, <2>3, <2>4, TerminalInv
<1>3. CASE ChoosesMember(t)
  <2>1. PICK m \in Members :
           terminal' = [terminal EXCEPT ![t] =
              [at |-> "quota", order |-> Order("quota", m, grants, grants.users, "", "")]]
    BY <1>3 DEF ChoosesMember, Registered
  <2> DEFINE o == Order("quota", m, grants, grants.users, "", "")
  <2>2. /\ o \in Orders /\ Current(o) /\ o.revision <= orders /\ o.kind = "quota"
        /\ \A rq \in requests : o.revision # rq.number
    BY NewOrder
  <2> HIDE DEF o
  <2> DEFINE next == [at |-> "quota", order |-> o]
  <2>3. UNCHANGED <<records, requests, edition, orders>> /\ terminal' = [terminal EXCEPT ![t] = next]
    BY <1>3, <2>1 DEF ChoosesMember, o
  <2> QED BY <2>2, <2>3, TerminalInv
<1>4. CASE ReadsQuota(t)
  <2> DEFINE old == terminal[t].order
             m == old.id
  <2>1. /\ terminal[t].at = "quota" /\ old \in Orders /\ old.kind = "quota" /\ Current(old)
        /\ old.revision <= orders /\ \A rq \in requests : old.revision # rq.number
    BY <1>4 DEF ReadsQuota, FamilyInv, Shown, Fresh
  <2>2. PICK wants \in Quotas :
           terminal' = [terminal EXCEPT ![t] =
              IF m \in Registered(grants.users)
              THEN [at |-> "confirm", order |-> [old EXCEPT !.seen = quota[m], !.wants = wants]]
              ELSE AtMenu]
    BY <1>4 DEF ReadsQuota
  <2>3. UNCHANGED <<records, requests, edition, orders>>
    BY <1>4 DEF ReadsQuota
  <2>4. CASE m \notin Registered(grants.users)
    BY <1>0, <2>2, <2>3, <2>4, TerminalInv
  <2>5. CASE m \in Registered(grants.users)
    <3> DEFINE o == [old EXCEPT !.seen = quota[m], !.wants = wants]
    <3>1. quota[m] \in Wordings /\ wants \in Wordings
      BY <2>5 DEF FamilyInv, FamilyShape, Registered, Wordings
    <3>2. o \in Orders /\ o.kind = old.kind /\ o.revision = old.revision /\ o.page = old.page
        /\ o.wants = wants /\ o.id = m
      <4> HIDE DEF old
      <4> QED BY <2>1, <3>1 DEF Orders
    <3>3. Current(o) /\ Valid(o)
      BY <2>1, <2>5, <3>2 DEF Current, Valid, Registered
    <3> HIDE DEF o
    <3> DEFINE next == [at |-> "confirm", order |-> o]
    <3>4. terminal' = [terminal EXCEPT ![t] = next]
      BY <2>2, <2>5 DEF o
    <3> QED BY <2>1, <2>3, <3>2, <3>3, <3>4, TerminalInv
  <2> QED BY <2>4, <2>5
<1>5. CASE ChoosesSetting(t)
  <2>1. PICK wants \in Settings :
           terminal' = [terminal EXCEPT ![t] =
              [at |-> "confirm",
               order |-> Order("settings", "nobody", options, {}, options.value, wants)]]
    BY <1>5 DEF ChoosesSetting
  <2> DEFINE o == Order("settings", "nobody", options, {}, options.value, wants)
  <2>2. o \in Orders /\ Current(o) /\ o.revision <= orders /\ Valid(o)
        /\ \A rq \in requests : o.revision # rq.number
    BY NewSetting
  <2> HIDE DEF o
  <2> DEFINE next == [at |-> "confirm", order |-> o]
  <2>3. UNCHANGED <<records, requests, edition, orders>> /\ terminal' = [terminal EXCEPT ![t] = next]
    BY <1>5, <2>1 DEF ChoosesSetting, o
  <2> QED BY <2>2, <2>3, TerminalInv
<1> QED BY <1>1, <1>2, <1>3, <1>4, <1>5

LEMMA ConfirmsInv ==
    ASSUME FamilyInv, NEW t \in Terminals, Confirms(t)
    PROVE  FamilyInv'
<1> DEFINE o == terminal[t].order
           rq == [by |-> t, number |-> orders', order |-> o]
<1>1. /\ orders' = orders + 1 /\ UNCHANGED <<grants, quota, options>>
      /\ o \in Orders /\ Current(o) /\ Valid(o) /\ o.revision <= orders
  BY DEF Confirms, records, FamilyInv, Shown
<1>2. orders' \in 0 .. MaxOrders /\ orders \in Nat
  BY <1>1, FamilyAssumption DEF Confirms, FamilyInv, FamilyShape
<1>3. \A q \in Terminals : terminal'[q].at # "menu" =>
          terminal[q].at # "menu" /\ terminal'[q].order = terminal[q].order
          /\ (terminal'[q].at = "quota" <=> terminal[q].at = "quota")
  BY DEF Confirms, FamilyInv, FamilyShape, AtMenu
<1>4. \A q \in Terminals : Shown(q)'
  BY <1>1, <1>2, <1>3 DEF FamilyInv, FamilyShape, Shown, Current, Valid, Orders
<1>5. terminal' \in [Terminals -> [at : {"menu", "quota", "confirm", "sent"},
                                   order : Orders \cup {AtMenu.order}]]
  BY DEF Confirms, FamilyInv, FamilyShape, AtMenu
<1>6. requests' \subseteq requests \cup {rq} /\ edition' \in Terminals \cup {"free"}
  BY DEF Confirms, FamilyInv, FamilyShape
<1>7. rq \in [by : Terminals, number : Nat, order : Orders]
  BY <1>1, <1>2
<1>8. FamilyShape'
  BY <1>1, <1>2, <1>5, <1>6, <1>7 DEF FamilyInv, FamilyShape
<1>9. \A old \in requests : old.number <= orders /\ old.number \in Nat /\ old.order.revision <= orders
                            /\ old.order.revision \in Nat
  BY DEF FamilyInv, FamilyShape, Fresh, Orders
<1>10. rq.number = orders + 1 /\ rq.order = o
  BY <1>1
<1> HIDE DEF rq
<1>11. ASSUME NEW r \in requests'
       PROVE  Fresh(r)' /\ Current(r.order)' /\ Valid(r.order) /\ r.order.revision <= orders'
  <2>1. CASE r = rq
    <3>1. r.number \in 1 .. orders' /\ grants.revision # r.number /\ options.revision # r.number
      BY <1>1, <1>2, <1>10, <2>1 DEF FamilyInv, FamilyShape
    <3>2. \A q \in Terminals : terminal'[q].at # "menu" => terminal'[q].order.revision # r.number
      BY <1>2, <1>3, <1>10, <2>1 DEF FamilyInv, Shown, Orders
    <3>3. \A x \in requests' : x.order.revision # r.number /\ (x.number = r.number => x = r)
      BY <1>1, <1>2, <1>6, <1>9, <1>10, <2>1 DEF Orders
    <3> QED BY <1>1, <1>2, <1>10, <2>1, <3>1, <3>2, <3>3 DEF Fresh, Current, Orders
  <2>2. CASE r \in requests
    <3>1. Fresh(r) /\ Current(r.order) /\ Valid(r.order) /\ r.order.revision <= orders /\ r.order.revision \in Nat
      BY <2>2, <1>9 DEF FamilyInv
    <3>2. \A q \in Terminals : terminal'[q].at # "menu" => terminal'[q].order.revision # r.number
      BY <1>3, <3>1 DEF Fresh
    <3>3. o.revision # r.number
      BY <2>2 DEF Confirms, FamilyInv, Fresh
    <3>4. \A x \in requests' : x.order.revision # r.number /\ (x.number = r.number => x = r)
      BY <1>2, <1>6, <1>9, <1>10, <2>2, <3>1, <3>3 DEF Fresh
    <3> QED BY <1>1, <1>2, <3>1, <3>2, <3>4 DEF Fresh, Current
  <2> QED BY <1>6, <2>1, <2>2
<1> QED BY <1>1, <1>2, <1>4, <1>8, <1>11 DEF FamilyInv, FamilyShape, Valid

\* The new record, if the order still stands for what was shown.
LEMMA Written ==
    ASSUME FamilyInv, NEW rq \in requests, CarriesOut(rq)
    PROVE  /\ \/ UNCHANGED grants
              \/ /\ rq.order.kind \in GrantKinds /\ rq.order.revision = grants.revision
                 /\ grants'.revision = rq.number
                 /\ grants' \in [revision : 0 .. MaxOrders, users : [Members -> Standings]]
           /\ \/ UNCHANGED quota
              \/ /\ rq.order.kind = "quota" /\ rq.order.revision = grants.revision
                 /\ rq.order.seen = quota[rq.order.id]
                 /\ quota' \in [Members -> Quotas]
           /\ \/ UNCHANGED options
              \/ /\ rq.order.kind = "settings" /\ rq.order.revision = options.revision
                 /\ options' = [revision |-> rq.number, value |-> rq.order.wants]
<1> DEFINE o == rq.order
<1>1. o \in Orders /\ Valid(o) /\ rq.number \in 1 .. orders /\ orders <= MaxOrders
      /\ orders \in Nat /\ MaxOrders \in Nat
  BY FamilyAssumption DEF FamilyInv, FamilyShape, Fresh
<1>2. \/ UNCHANGED grants
      \/ /\ o.kind \in GrantKinds /\ o.revision = grants.revision
         /\ grants'.revision = rq.number
         /\ grants' \in [revision : 0 .. MaxOrders, users : [Members -> Standings]]
  <2> SUFFICES ASSUME grants' # grants
               PROVE  /\ o.kind \in GrantKinds /\ o.revision = grants.revision
                      /\ grants'.revision = rq.number
                      /\ grants' \in [revision : 0 .. MaxOrders, users : [Members -> Standings]]
    OBVIOUS
  <2>1. /\ o.kind \in GrantKinds /\ o.revision = grants.revision
        /\ grants' = [revision |-> rq.number,
                      users |-> [grants.users EXCEPT ![o.id] = NextStanding(o.kind)]]
    BY DEF CarriesOut, ChangesGrant
  <2>2. NextStanding(o.kind) \in Standings
    BY <2>1 DEF NextStanding, GrantKinds, Standings
  <2>3. rq.number \in 0 .. MaxOrders
    BY <1>1
  <2> QED BY <2>1, <2>2, <2>3 DEF FamilyInv, FamilyShape
<1>3. \/ UNCHANGED quota
      \/ /\ o.kind = "quota" /\ o.revision = grants.revision /\ o.seen = quota[o.id]
         /\ quota' \in [Members -> Quotas]
  BY <1>1 DEF CarriesOut, ChangesQuota, QuotaAsShown, Valid, FamilyInv, FamilyShape
<1>4. \/ UNCHANGED options
      \/ /\ o.kind = "settings" /\ o.revision = options.revision
         /\ options' = [revision |-> rq.number, value |-> o.wants]
  BY DEF CarriesOut, ChangesSetting
<1> QED BY <1>2, <1>3, <1>4

LEMMA CarriesOutInv ==
    ASSUME FamilyInv, NEW rq \in requests, CarriesOut(rq)
    PROVE  FamilyInv'
<1>1. requests' = requests \ {rq} /\ UNCHANGED <<terminal, edition, orders>>
  BY DEF CarriesOut
<1>2. Fresh(rq) /\ Valid(rq.order) /\ rq.number \in 1 .. orders /\ orders \in 0 .. MaxOrders
  BY DEF FamilyInv, FamilyShape, Fresh
<1>3. \/ UNCHANGED grants
      \/ /\ grants'.revision = rq.number
         /\ grants' \in [revision : 0 .. MaxOrders, users : [Members -> Standings]]
  BY Written
<1>4. \/ UNCHANGED options
      \/ /\ options'.revision = rq.number
         /\ options' \in [revision : 0 .. MaxOrders, value : Settings]
  <2> SUFFICES ASSUME options' # options
               PROVE  /\ options'.revision = rq.number
                      /\ options' \in [revision : 0 .. MaxOrders, value : Settings]
    OBVIOUS
  <2>1. options' = [revision |-> rq.number, value |-> rq.order.wants] /\ rq.order.kind = "settings"
    BY Written
  <2>2. rq.order.wants \in Settings /\ rq.number \in 0 .. MaxOrders
    BY <1>2, <2>1, FamilyAssumption DEF Valid
  <2> QED BY <2>1, <2>2
<1>5. FamilyShape'
  BY <1>1, <1>3, <1>4, Written DEF FamilyInv, FamilyShape
<1>6. grants'.revision <= orders' /\ options'.revision <= orders'
  BY <1>1, <1>2, <1>3, <1>4 DEF FamilyInv
<1>7. ASSUME NEW o \in Orders, Current(o), o.revision # rq.number
      PROVE  Current(o)'
  BY <1>3, <1>4, <1>7 DEF Current
<1>8. ASSUME NEW t \in Terminals PROVE Shown(t)'
  <2>1. terminal[t].at # "menu" => terminal[t].order.revision # rq.number
    BY <1>2 DEF Fresh
  <2>2. Shown(t)
    BY DEF FamilyInv
  <2>3. terminal[t].at # "menu" => terminal[t].order \in Orders /\ Current(terminal[t].order)
    BY <2>2 DEF Shown
  <2>4. terminal[t].at # "menu" => Current(terminal[t].order)'
    BY <1>1, <1>3, <1>4, <2>1, <2>3 DEF Current
  <2> QED BY <1>1, <2>2, <2>4 DEF Shown, Valid
<1>9. ASSUME NEW r \in requests'
      PROVE  Fresh(r)' /\ Current(r.order)' /\ Valid(r.order) /\ r.order.revision <= orders'
  <2>1. /\ r \in requests /\ r # rq /\ r.order \in Orders /\ Fresh(r) /\ Current(r.order)
        /\ Valid(r.order) /\ r.order.revision <= orders
    BY <1>1 DEF FamilyInv, FamilyShape
  <2>2. r.order.revision # rq.number /\ r.number # rq.number
    BY <1>2, <2>1 DEF Fresh
  <2>3. Current(r.order)'
    BY <1>3, <1>4, <2>1, <2>2 DEF Current
  <2>4. Fresh(r)'
    BY <1>1, <1>3, <1>4, <2>1, <2>2 DEF Fresh
  <2> QED BY <1>1, <2>1, <2>3, <2>4
<1> QED BY <1>5, <1>6, <1>8, <1>9 DEF FamilyInv, Valid

LEMMA StepFamilyInv == FamilyInv /\ [FamilyNext]_familyVars => FamilyInv'
<1> SUFFICES ASSUME FamilyInv, [FamilyNext]_familyVars PROVE FamilyInv'
  OBVIOUS
<1>1. ASSUME NEW t \in Terminals, Confirms(t) PROVE FamilyInv'
  BY <1>1, ConfirmsInv
<1>2. ASSUME NEW t \in Terminals,
             ChoosesGrant(t) \/ ChoosesMember(t) \/ ReadsQuota(t) \/ ChoosesSetting(t)
             \/ Declines(t) \/ StopsWaiting(t)
      PROVE  FamilyInv'
  BY <1>2, MenuInv
<1>3. ASSUME NEW rq \in requests, CarriesOut(rq) PROVE FamilyInv'
  BY <1>3, CarriesOutInv
<1>4. ASSUME NEW rq \in requests, GetsLost(rq) PROVE FamilyInv'
  <2>1. requests' \subseteq requests /\ UNCHANGED <<grants, quota, options, terminal, edition, orders>>
    BY <1>4 DEF GetsLost, records
  <2> QED BY <2>1 DEF FamilyInv, FamilyShape, Shown, Current, Valid, Fresh
<1>5. CASE UNCHANGED familyVars
  BY <1>5 DEF familyVars, records, FamilyInv, FamilyShape, Shown, Current, Valid, Fresh
<1> QED BY <1>1, <1>2, <1>3, <1>4, <1>5 DEF FamilyNext

LEMMA FamilyInvariant == FamilySpec => []FamilyInv
<1>1. FamilyInit => FamilyInv
  BY InitFamilyInv
<1> QED BY <1>1, StepFamilyInv, PTL DEF FamilySpec

\* A change reaches the records only as its terminal showed it, however late
\* its request is carried out (users.change, control.handle, features.change).
THEOREM FamilyGrantsAsShown == FamilySpec => GrantsAsShown
<1>1. FamilyInv /\ [FamilyNext]_familyVars =>
        [\A rq \in requests \ requests' :
          /\ grants' # grants => rq.order.page = grants.users
          /\ quota' # quota => rq.order.page = grants.users /\ rq.order.seen = quota[rq.order.id]
          /\ options' # options => rq.order.seen = options.value]_familyVars
  <2> SUFFICES ASSUME FamilyInv, FamilyNext, NEW rq \in requests \ requests'
               PROVE  /\ grants' # grants => rq.order.page = grants.users
                      /\ quota' # quota => rq.order.page = grants.users
                                           /\ rq.order.seen = quota[rq.order.id]
                      /\ options' # options => rq.order.seen = options.value
    OBVIOUS
  <2>1. CarriesOut(rq) \/ GetsLost(rq)
    BY DEF FamilyNext, ChoosesGrant, ChoosesMember, ReadsQuota, ChoosesSetting, Confirms, Declines,
           StopsWaiting, CarriesOut, GetsLost
  <2>2. CASE CarriesOut(rq)
    <3>1. Current(rq.order)
      BY DEF FamilyInv
    <3> QED BY <2>2, <3>1, Written DEF Current, GrantKinds
  <2>3. CASE GetsLost(rq)
    BY <2>3 DEF GetsLost, records
  <2> QED BY <2>1, <2>2, <2>3
<1> QED BY <1>1, FamilyInvariant, PTL DEF FamilySpec, GrantsAsShown

-------------------------------------------------------------------------------
(* The Bot, one of whose machines is followed *)

\* A step of the composition is a step or a stutter of each machine.
LEMMA ServiceRefines ==
    ServiceSpec => /\ AdmissionSpec /\ AccountSpec /\ PacingSpec /\ NoticeSpec
                   /\ DialogueSpec /\ ConsoleSpec /\ FamilySpec /\ WatchSpec
<1>1. ServiceInit => /\ AdmissionInit /\ AccountInit /\ PacingInit /\ NoticeInit
                     /\ DialogueInit /\ ConsoleInit /\ FamilyInit /\ WatchInit
  BY DEF ServiceInit
<1>2. [ServiceNext]_serviceVars =>
        /\ [AdmissionNext]_admissionVars /\ [AccountNext]_accountVars /\ [PacingNext]_pacingVars
        /\ [NoticeNext]_noticeVars /\ [DialogueNext]_dialogueVars /\ [ConsoleNext]_consoleVars
  BY DEF ServiceNext, serviceVars, botVars
<1>3. [ServiceNext]_serviceVars => [FamilyNext]_familyVars /\ [WatchNext]_watchVars
  BY DEF ServiceNext, serviceVars
<1> QED BY <1>1, <1>2, <1>3, PTL DEF ServiceSpec, AdmissionSpec, AccountSpec, PacingSpec, NoticeSpec,
           DialogueSpec, ConsoleSpec, FamilySpec, WatchSpec

\* Both loops that pace requests honour the pauses they were asked for, in the
\* composition TLC checks (ListeningClient._call, _probe_destination_once).
THEOREM ServiceKeepsPauses == ServiceSpec => PausesKept
BY ServiceRefines, PacingHonoursWaits, WatchSpares DEF PausesKept

\* Whatever is pressed or confirmed, and in whatever order the handlers go on, is done only as
\* its reader saw it (planning.py and editor.py's cards, commands.py's recoveries and repairs).
THEOREM ServiceActsAsShown == ServiceSpec => ShownIsDone
BY ServiceRefines, CardsActAsShown, RestartsAreShown DEF ShownIsDone

\* Every row, window, cap, wait, lock and handler keeps to its type: nothing is stored beyond a
\* task's size, no cap passes the window, no window its ceiling, no request the waits that
\* are tolerated (the parts that MCService puts together).
THEOREM ServiceTypes == ServiceSpec => []ServiceTypeOK
<1>1. AccountInv => AccountTypeOK
  BY DEF AccountInv
<1>2. NoticeInv => NoticeTypeOK
  BY DEF NoticeInv
<1>3. FamilyInv => FamilyTypeOK
  BY DEF FamilyInv, FamilyShape, FamilyTypeOK
<1>4. ServiceTypeOK <=> /\ AdmissionTypeOK /\ AccountTypeOK /\ PacingTypeOK /\ NoticeTypeOK
                        /\ DialogueTypeOK /\ ConsoleTypeOK /\ FamilyTypeOK /\ WatchTypeOK
  BY DEF ServiceTypeOK
<1> QED BY <1>1, <1>2, <1>3, <1>4, ServiceRefines, AdmissionTypes, AccountInvariant, PacingTypes,
           NoticeInvariant, DialogueTypes, ConsoleTypes, FamilyInvariant, WatchTypes, PTL
================================================================================
