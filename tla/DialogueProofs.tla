----------------------------- MODULE DialogueProofs -----------------------------
(***************************************************************************)
(* Proofs about what users confirm, by commands and by the administrator's *)
(* cards, for any tasks, sources, plans, messages and handlers, and any    *)
(* number of commands and presses.                                         *)
(***************************************************************************)
EXTENDS Dialogue, TaskConsole, TLAPS

(* Commands: recoveries, cancellations, repairs and the clean-up *)

Snapshots == Jobs \X Nat
Staged == Jobs \X Nat
JobRow == [state : {"queued", "active", "failed"} \cup EndedJob, at : Nat, cancel : BOOLEAN,
           review : BOOLEAN, gen : Nat, temp : Staged \cup {Untouched}, running : BOOLEAN]
Message == [op : {"recover", "cancel", "repair", "clean"}, of : Jobs \cup {Untouched}, token : Nat,
            shown : SUBSET Snapshots]

\* A temporary object, those kept from every clean-up too, is one task's and of one of its
\* attempts so far.
Owned == \A t \in Jobs :
    job[t].temp # Untouched => job[t].temp[1] = t /\ job[t].temp[2] <= job[t].gen
Numbered == \A p \in staged \cup retained \cup sweep.listing \cup sweep.cleared :
    p \in Staged /\ p[2] <= job[p[1]].gen

\* What a clean-up is removing belongs to no attempt, and to none that could still begin.
Abandoned == sweep.at = "removing" =>
    /\ sweep.removes \in Staged /\ sweep.removes \notin retained
    /\ \A t \in Jobs : sweep.removes[1] = t =>
          /\ job[t].temp # sweep.removes /\ sweep.removes[2] <= job[t].gen
          /\ job[t].state \in EndedJob \/ sweep.removes[2] < job[t].gen

\* A token is on one message, which shows the row as the offer recorded it.
Confirmable ==
    /\ presses \in Nat /\ cards \subseteq Message
    /\ offered \in [Jobs -> [token : Nat, at : Nat, rename : BOOLEAN]]
    /\ \A t \in Jobs : offered[t].token <= presses
    /\ \A card \in cards :
          /\ card.op \in {"recover", "cancel"} => card.of \in Jobs
          /\ card.token <= presses
          /\ card.op = "recover" =>
                /\ card.token > 0
                /\ offered[card.of].token = card.token => card.shown = {<<card.of, offered[card.of].at>>}

Repairing == repair.left \subseteq Snapshots /\ repair.reads \in Snapshots \cup {Untouched}

ConsoleInv == /\ job \in [Jobs -> JobRow] /\ Owned /\ Numbered /\ Abandoned
              /\ Confirmable /\ Repairing

\* What the two properties say of a step.
RestartsShown ==
    \A t \in Jobs : job'[t].gen > job[t].gen =>
          /\ \A card \in cards \ cards' : Row(t) \in card.shown
          /\ repair' # repair => repair.reads = Row(t)
RemovesUnowned ==
    \A p \in staged \ staged' :
          sweep.removes = p /\ sweep' # sweep =>
             p \notin retained /\ \A t \in Jobs : job[t].temp # p
ConsoleKept == ConsoleInv' /\ RestartsShown /\ RemovesUnowned

\* How commands and attempts move rows and objects: a task that has ended
\* begins again only under a new number, and every object gets its number.
JobsMove ==
    /\ job' \in [Jobs -> JobRow]
    /\ \A t \in Jobs :
          /\ job[t].gen <= job'[t].gen
          /\ job[t].state \in EndedJob => job'[t].state \in EndedJob \/ job[t].gen < job'[t].gen
          /\ \/ job'[t].temp \in {job[t].temp, Untouched}
             \/ job'[t].temp = <<t, job[t].gen>> /\ job[t].state = "active"
    /\ \A p \in staged' : p \in staged \/ \E t \in Jobs : p = <<t, job[t].gen>>
    /\ \A p \in retained' : p \in retained \/ \E t \in Jobs : p = job[t].temp /\ p # Untouched

-------------------------------------------------------------------------------
LEMMA NothingMoves ==
    ASSUME ConsoleInv, UNCHANGED <<job, staged, retained>>
    PROVE  JobsMove
BY DEF ConsoleInv, JobsMove, JobRow

LEMMA MovesKeep ==
    ASSUME ConsoleInv, JobsMove
    PROVE  /\ Owned'
           /\ \A p \in staged \cup sweep.listing \cup sweep.cleared \cup staged' \cup retained' :
                 p \in Staged /\ p[2] <= job'[p[1]].gen
           /\ sweep' = sweep => Abandoned'
<1>1. ASSUME NEW t \in Jobs
      PROVE  job[t] \in JobRow /\ job'[t] \in JobRow /\ job[t].gen \in Nat /\ job'[t].gen \in Nat
  BY DEF ConsoleInv, JobsMove, JobRow
<1>2. Owned'
  <2> SUFFICES ASSUME NEW t \in Jobs, job'[t].temp # Untouched
               PROVE  job'[t].temp[1] = t /\ job'[t].temp[2] <= job'[t].gen
    BY DEF Owned
  <2>1. job[t].gen <= job'[t].gen /\ job[t].gen \in Nat /\ job'[t].gen \in Nat
    BY <1>1 DEF JobsMove
  <2>2. CASE job'[t].temp = <<t, job[t].gen>>
    BY <2>1, <2>2
  <2>3. CASE job'[t].temp = job[t].temp
    <3>1. job[t].temp \in Staged /\ job[t].temp[1] = t /\ job[t].temp[2] <= job[t].gen
      BY <1>1, <2>3 DEF ConsoleInv, Owned, JobRow
    <3>2. job[t].temp[2] \in Nat
      BY <3>1 DEF Staged
    <3> QED BY <2>1, <2>3, <3>1, <3>2
  <2> QED BY <2>2, <2>3 DEF JobsMove
<1>3. ASSUME NEW p \in staged \cup retained \cup sweep.listing \cup sweep.cleared
      PROVE  p \in Staged /\ p[2] <= job'[p[1]].gen
  <2>1. p \in Staged /\ p[2] <= job[p[1]].gen /\ p[1] \in Jobs /\ p[2] \in Nat
    BY DEF ConsoleInv, Numbered, Staged
  <2>2. job[p[1]].gen <= job'[p[1]].gen
    BY <2>1 DEF JobsMove
  <2> QED BY <1>1, <2>1, <2>2
<1>4. ASSUME NEW p \in staged', p \notin staged PROVE p \in Staged /\ p[2] <= job'[p[1]].gen
  <2>1. PICK t \in Jobs : p = <<t, job[t].gen>>
    BY <1>4 DEF JobsMove
  <2> QED BY <1>1, <2>1 DEF JobsMove, Staged
<1>5. ASSUME NEW p \in retained', p \notin retained PROVE p \in Staged /\ p[2] <= job'[p[1]].gen
  <2>1. PICK t \in Jobs : p = job[t].temp /\ p # Untouched
    BY <1>5 DEF JobsMove
  <2>2. p \in Staged /\ p[1] = t /\ p[2] <= job[t].gen
    BY <1>1, <2>1 DEF ConsoleInv, Owned, JobRow
  <2>3. p[2] \in Nat /\ job[t].gen <= job'[t].gen
    BY <2>2 DEF JobsMove, Staged
  <2> QED BY <1>1, <2>2, <2>3
<1>6. ASSUME sweep' = sweep, sweep.at = "removing" PROVE Abandoned'
  <2> DEFINE p == sweep.removes
  <2>1. p \in Staged /\ p \notin retained /\ sweep'.removes = p
    BY <1>6 DEF ConsoleInv, Abandoned
  <2>2. ASSUME NEW t \in Jobs PROVE job[t].temp # p
    BY <1>6, <2>1, ConsoleAssumption DEF ConsoleInv, Abandoned, Owned, Staged
  <2>3. p \notin retained'
    BY <2>1, <2>2 DEF JobsMove
  <2>4. ASSUME NEW t \in Jobs, p[1] = t
        PROVE  /\ job'[t].temp # p /\ p[2] <= job'[t].gen
               /\ job'[t].state \in EndedJob \/ p[2] < job'[t].gen
    <3>1. /\ p[2] <= job[t].gen /\ p[2] \in Nat
          /\ job[t].state \in EndedJob \/ p[2] < job[t].gen
      BY <1>6, <2>1, <2>4 DEF ConsoleInv, Abandoned, Staged
    <3>2. /\ job[t].gen <= job'[t].gen
          /\ job[t].state \in EndedJob => job'[t].state \in EndedJob \/ job[t].gen < job'[t].gen
          /\ \/ job'[t].temp \in {job[t].temp, Untouched}
             \/ job'[t].temp = <<t, job[t].gen>> /\ job[t].state = "active"
      BY DEF JobsMove
    <3>3. p[2] <= job'[t].gen /\ (job'[t].state \in EndedJob \/ p[2] < job'[t].gen)
      <4> HIDE DEF p
      <4> QED BY <1>1, <3>1, <3>2
    <3>4. CASE job'[t].temp \in {job[t].temp, Untouched}
      BY <2>1, <2>2, <3>3, <3>4, ConsoleAssumption DEF Staged
    <3>5. CASE job'[t].temp = <<t, job[t].gen>> /\ job[t].state = "active"
      <4>1. p[2] < job[t].gen
        BY <3>1, <3>5 DEF EndedJob
      <4>2. job'[t].temp # p
        <5> HIDE DEF p
        <5> QED BY <1>1, <3>1, <3>5, <4>1
      <4> QED BY <3>3, <4>2
    <3> QED BY <3>2, <3>4, <3>5
  <2> QED BY <1>6, <2>1, <2>3, <2>4 DEF Abandoned
<1>7. ASSUME sweep' = sweep, sweep.at # "removing" PROVE Abandoned'
  BY <1>7 DEF Abandoned
<1> QED BY <1>2, <1>3, <1>4, <1>6, <1>7, <1>5

LEMMA ConfirmsStill ==
    ASSUME ConsoleInv, offered' = offered, cards' \subseteq cards, presses' \in {presses, presses + 1}
    PROVE  Confirmable'
<1>1. presses \in Nat /\ presses' \in Nat /\ presses <= presses'
  BY DEF ConsoleInv, Confirmable
<1>2. cards' \subseteq Message /\ offered' \in [Jobs -> [token : Nat, at : Nat, rename : BOOLEAN]]
  BY DEF ConsoleInv, Confirmable
<1>3. ASSUME NEW t \in Jobs PROVE offered'[t].token <= presses'
  <2>1. offered[t].token \in Nat /\ offered[t].token <= presses /\ offered'[t] = offered[t]
    BY DEF ConsoleInv, Confirmable
  <2> QED BY <1>1, <2>1
<1>4. ASSUME NEW card \in cards'
      PROVE  /\ card.op \in {"recover", "cancel"} => card.of \in Jobs
             /\ card.token <= presses'
             /\ card.op = "recover" =>
                   /\ card.token > 0
                   /\ offered'[card.of].token = card.token =>
                         card.shown = {<<card.of, offered'[card.of].at>>}
  <2>1. card \in cards /\ card.token \in Nat /\ card.token <= presses
    BY DEF ConsoleInv, Confirmable, Message
  <2>2. card.token <= presses'
    BY <1>1, <2>1
  <2> QED BY <2>1, <2>2 DEF ConsoleInv, Confirmable
<1> QED BY <1>1, <1>2, <1>3, <1>4 DEF Confirmable

\* Steps in which nothing is pressed or cleaned away.
LEMMA OnlyJobs ==
    ASSUME ConsoleInv, JobsMove, UNCHANGED <<cards, offered, sweep, repair>>,
           presses' \in {presses, presses + 1}
    PROVE  ConsoleKept
<1>1. Owned' /\ Abandoned' /\ job' \in [Jobs -> JobRow]
  BY MovesKeep DEF JobsMove
<1>2. Numbered'
  BY MovesKeep DEF Numbered
<1>3. Confirmable' /\ Repairing'
  BY ConfirmsStill DEF ConsoleInv, Repairing
<1> QED BY <1>1, <1>2, <1>3 DEF ConsoleKept, ConsoleInv, RestartsShown, RemovesUnowned

\* A row is written, and its revision counted up.
LEMMA WroteEffect ==
    ASSUME ConsoleInv, NEW t \in Jobs, NEW r \in JobRow, Wrote(t, r)
    PROVE  /\ job' \in [Jobs -> JobRow] /\ \A y \in Jobs : y # t => job'[y] = job[y]
           /\ job'[t].state = r.state /\ job'[t].gen = r.gen /\ job'[t].temp = r.temp
<1> DEFINE w == [r EXCEPT !.at = @ + 1]
<1>1. job' = [job EXCEPT ![t] = w]
  BY DEF Wrote
<1>2. w \in JobRow /\ w.state = r.state /\ w.gen = r.gen /\ w.temp = r.temp
  BY DEF JobRow
<1> HIDE DEF w
<1> QED BY <1>1, <1>2 DEF ConsoleInv

LEMMA WroteMoves ==
    ASSUME ConsoleInv, NEW t \in Jobs, NEW r \in JobRow, Wrote(t, r),
           job[t].gen <= r.gen,
           job[t].state \in EndedJob => r.state \in EndedJob \/ job[t].gen < r.gen,
           \/ r.temp \in {job[t].temp, Untouched}
           \/ r.temp = <<t, job[t].gen>> /\ job[t].state = "active",
           \A p \in staged' : p \in staged \/ \E y \in Jobs : p = <<y, job[y].gen>>,
           \A p \in retained' : p \in retained \/ \E y \in Jobs : p = job[y].temp /\ p # Untouched
    PROVE  JobsMove
<1>1. \A y \in Jobs : job[y].gen \in Nat
  BY DEF ConsoleInv, JobRow
<1> QED BY <1>1, WroteEffect DEF JobsMove

-------------------------------------------------------------------------------
(* The attempts *)

LEMMA RowTypes ==
    ASSUME ConsoleInv, NEW t \in Jobs
    PROVE  /\ job[t] \in JobRow /\ job[t].gen \in Nat /\ job[t].gen <= job[t].gen
           /\ job[t].temp \in Staged \cup {Untouched} /\ <<t, job[t].gen>> \in Staged
           /\ job[t].at \in Nat /\ Row(t) \in Snapshots
<1>1. job[t] \in JobRow
  BY DEF ConsoleInv
<1>2. job[t].gen \in Nat /\ job[t].at \in Nat /\ job[t].temp \in Staged \cup {Untouched}
  BY <1>1 DEF JobRow
<1> QED BY <1>1, <1>2 DEF Staged, Snapshots, Row

LEMMA AttemptKept ==
    ASSUME ConsoleInv, NEW t \in Jobs, AttemptStep(t)
    PROVE  ConsoleKept
<1>1. ASSUME NEW r \in JobRow, Wrote(t, r), r.gen = job[t].gen, job[t].state \notin EndedJob,
             \/ r.temp \in {job[t].temp, Untouched}
             \/ r.temp = <<t, job[t].gen>> /\ job[t].state = "active",
             \A p \in staged' : p \in staged \/ p = <<t, job[t].gen>>,
             UNCHANGED <<retained, confirmations, cards, handlers, presses>>
      PROVE  ConsoleKept
  <2>1. JobsMove
    BY <1>1, RowTypes, WroteMoves
  <2> QED BY <1>1, <2>1, OnlyJobs DEF confirmations, handlers
<1>2. CASE Starts(t)
  <2> DEFINE r == [job[t] EXCEPT !.state = "active", !.running = TRUE]
  <2>1. r \in JobRow /\ r.gen = job[t].gen /\ r.temp = job[t].temp /\ Wrote(t, r)
    BY <1>2, RowTypes DEF Starts, JobRow
  <2>2. job[t].state \notin EndedJob
    BY <1>2 DEF Starts, EndedJob
  <2> HIDE DEF r
  <2> QED BY <1>1, <1>2, <2>1, <2>2 DEF Starts
<1>3. CASE Writes(t)
  <2> DEFINE r == [job[t] EXCEPT !.state = "failed", !.running = FALSE, !.review = TRUE]
             s == [job[t] EXCEPT !.temp = StagingOf(t, job[t].gen)]
  <2>1. /\ r \in JobRow /\ r.gen = job[t].gen /\ r.temp = job[t].temp
        /\ s \in JobRow /\ s.gen = job[t].gen /\ s.temp = <<t, job[t].gen>>
    BY RowTypes DEF JobRow, StagingOf
  <2>2. job[t].state \notin EndedJob /\ job[t].state = "active"
    BY <1>3 DEF Writes, EndedJob
  <2>3. \/ Wrote(t, r) /\ staged' = staged
        \/ Wrote(t, s) /\ staged' = staged \cup {<<t, job[t].gen>>}
    BY <1>3 DEF Writes, StagingOf
  <2> HIDE DEF r, s
  <2> QED BY <1>1, <1>3, <2>1, <2>2, <2>3 DEF Writes
<1>4. CASE Fails(t)
  <2>1. PICK review \in BOOLEAN :
             Wrote(t, [job[t] EXCEPT !.state = "failed", !.running = FALSE, !.review = review])
    BY <1>4 DEF Fails
  <2> DEFINE r == [job[t] EXCEPT !.state = "failed", !.running = FALSE, !.review = review]
  <2>2. r \in JobRow /\ r.gen = job[t].gen /\ r.temp = job[t].temp /\ Wrote(t, r)
    BY <2>1, RowTypes DEF JobRow
  <2>3. job[t].state \notin EndedJob
    BY <1>4 DEF Fails, EndedJob
  <2> HIDE DEF r
  <2> QED BY <1>1, <1>4, <2>2, <2>3 DEF Fails
<1>5. CASE Completes(t)
  <2> DEFINE r == [job[t] EXCEPT !.state = "done", !.running = FALSE, !.temp = Untouched]
  <2>1. r \in JobRow /\ r.gen = job[t].gen /\ r.temp = Untouched /\ Wrote(t, r)
    BY <1>5, RowTypes DEF Completes, JobRow, EndedJob
  <2>2. job[t].state \notin EndedJob
    BY <1>5 DEF Completes, EndedJob
  <2> HIDE DEF r
  <2> QED BY <1>1, <1>5, <2>1, <2>2 DEF Completes
<1> QED BY <1>2, <1>3, <1>4, <1>5 DEF AttemptStep

-------------------------------------------------------------------------------
(* Recoveries *)

\* A task begins again under a new number; the old object is kept, or goes on being its own.
LEMMA RequeuesMoves ==
    ASSUME ConsoleInv, NEW t \in Jobs, NEW fresh \in BOOLEAN, RequeuesJob(t, fresh)
    PROVE  /\ JobsMove /\ \A y \in Jobs : y # t => job'[y] = job[y]
<1> DEFINE left == IF fresh THEN Untouched ELSE job[t].temp
           r == [job[t] EXCEPT !.state = "queued", !.gen = @ + 1, !.review = FALSE,
                               !.cancel = FALSE, !.temp = left]
<1>1. Wrote(t, r) /\ staged' = staged
  BY RowTypes DEF RequeuesJob, JobRow
<1>2. left \in Staged \cup {Untouched} /\ left \in {job[t].temp, Untouched}
  BY RowTypes
<1> HIDE DEF left
<1>3. job[t].gen + 1 \in Nat /\ job[t].gen <= job[t].gen + 1 /\ job[t].gen < job[t].gen + 1
  <2>1. job[t].gen \in Nat
    BY RowTypes
  <2> QED BY <2>1
<1>4. r \in JobRow
  BY <1>2, <1>3, RowTypes DEF JobRow
<1>5. r.gen = job[t].gen + 1 /\ r.temp = left
  BY RowTypes DEF JobRow
<1>6. \A p \in retained' : p \in retained \/ \E y \in Jobs : p = job[y].temp /\ p # Untouched
  BY DEF RequeuesJob
<1> HIDE DEF r
<1> QED BY <1>1, <1>2, <1>3, <1>4, <1>5, <1>6, WroteMoves, WroteEffect

\* A new offer has a new token, and its message shows the row as it is.
LEMMA OfferConfirmable ==
    ASSUME ConsoleInv, NEW t \in Jobs, NEW rename \in BOOLEAN, OffersRecovery(t, rename),
           presses' = presses + 1
    PROVE  Confirmable' /\ cards \subseteq cards'
<1>1. CASE UNCHANGED <<offered, cards>>
  BY <1>1, ConfirmsStill
<1>2. CASE /\ offered' = [offered EXCEPT ![t] = [token |-> presses', at |-> job[t].at, rename |-> rename]]
           /\ cards' = cards \cup {Card("recover", t, presses', {Row(t)})}
  <2> DEFINE o == [token |-> presses', at |-> job[t].at, rename |-> rename]
             new == Card("recover", t, presses', {Row(t)})
  <2>1. presses \in Nat /\ presses' \in Nat /\ presses <= presses' /\ presses' > 0 /\ ~ (presses' <= presses)
    BY DEF ConsoleInv, Confirmable
  <2>2. o \in [token : Nat, at : Nat, rename : BOOLEAN] /\ o.token = presses' /\ o.at = job[t].at
    BY <2>1, RowTypes DEF JobRow
  <2>3. /\ new \in Message /\ new.op = "recover" /\ new.of = t /\ new.token = presses'
        /\ new.shown = {<<t, job[t].at>>}
    <3>1. {Row(t)} \in SUBSET Snapshots
      BY RowTypes
    <3>2. new \in Message
      BY <2>1, <3>1 DEF Message, Card
    <3> QED BY <3>2 DEF Card, Row
  <2>4. offered' = [offered EXCEPT ![t] = o] /\ cards' = cards \cup {new}
    BY <1>2
  <2> HIDE DEF o, new
  <2>5. /\ offered' \in [Jobs -> [token : Nat, at : Nat, rename : BOOLEAN]] /\ offered'[t] = o
        /\ \A y \in Jobs : y # t => offered'[y] = offered[y]
    BY <2>2, <2>4 DEF ConsoleInv, Confirmable
  <2>6. ASSUME NEW y \in Jobs PROVE offered'[y].token <= presses'
    <3>1. offered[y].token \in Nat /\ offered[y].token <= presses
      BY DEF ConsoleInv, Confirmable
    <3> QED BY <2>1, <2>2, <2>5, <3>1
  <2>7. ASSUME NEW card \in cards
        PROVE  /\ card.op \in {"recover", "cancel"} => card.of \in Jobs
               /\ card.token <= presses'
               /\ card.op = "recover" =>
                     /\ card.token > 0
                     /\ offered'[card.of].token = card.token =>
                           card.shown = {<<card.of, offered'[card.of].at>>}
    <3>1. card.token \in Nat /\ card.token <= presses
      BY DEF ConsoleInv, Confirmable, Message
    <3>2. card.token <= presses' /\ card.token # presses'
      BY <2>1, <3>1
    <3>3. card.op = "recover" => card.of \in Jobs
      BY DEF ConsoleInv, Confirmable
    <3> QED BY <2>2, <2>5, <3>2, <3>3 DEF ConsoleInv, Confirmable
  <2>8. cards' \subseteq Message
    BY <2>3, <2>4 DEF ConsoleInv, Confirmable
  <2>9. /\ new.op \in {"recover", "cancel"} => new.of \in Jobs
        /\ new.token <= presses' /\ new.token > 0
        /\ offered'[new.of].token = new.token => new.shown = {<<new.of, offered'[new.of].at>>}
    BY <2>1, <2>2, <2>3, <2>5
  <2> QED BY <2>1, <2>4, <2>5, <2>6, <2>7, <2>8, <2>9 DEF Confirmable
<1> QED BY <1>1, <1>2 DEF OffersRecovery

\* The clean-up goes on as it was while rows and messages move.
LEMMA StepKept ==
    ASSUME ConsoleInv, JobsMove, UNCHANGED sweep, Confirmable', Repairing', RestartsShown
    PROVE  ConsoleKept
<1>1. Owned' /\ Abandoned' /\ job' \in [Jobs -> JobRow]
  BY MovesKeep DEF JobsMove
<1>2. Numbered'
  BY MovesKeep DEF Numbered
<1> QED BY <1>1, <1>2 DEF ConsoleKept, ConsoleInv, RemovesUnowned

LEMMA NothingRestarts ==
    ASSUME ConsoleInv, \A t \in Jobs : job'[t].gen = job[t].gen
    PROVE  RestartsShown
<1>1. ASSUME NEW t \in Jobs PROVE ~ (job'[t].gen > job[t].gen)
  <2>1. job[t].gen \in Nat
    BY RowTypes
  <2> QED BY <2>1
<1> QED BY <1>1 DEF RestartsShown

\* A message of any other kind adds nothing to what a recovery depends on.
LEMMA AddsMessage ==
    ASSUME ConsoleInv, offered' = offered, presses' \in {presses, presses + 1}, NEW new \in Message,
           new.op # "recover", new.op = "cancel" => new.of \in Jobs, new.token <= presses',
           cards' \subseteq cards \cup {new}
    PROVE  Confirmable'
<1>1. presses \in Nat /\ presses' \in Nat /\ presses <= presses'
  BY DEF ConsoleInv, Confirmable
<1>2. cards' \subseteq Message /\ offered' \in [Jobs -> [token : Nat, at : Nat, rename : BOOLEAN]]
  BY DEF ConsoleInv, Confirmable
<1>3. ASSUME NEW t \in Jobs PROVE offered'[t].token <= presses'
  <2>1. offered[t].token \in Nat /\ offered[t].token <= presses /\ offered'[t] = offered[t]
    BY DEF ConsoleInv, Confirmable
  <2> QED BY <1>1, <2>1
<1>4. ASSUME NEW card \in cards'
      PROVE  /\ card.op \in {"recover", "cancel"} => card.of \in Jobs
             /\ card.token <= presses'
             /\ card.op = "recover" =>
                   /\ card.token > 0
                   /\ offered'[card.of].token = card.token =>
                         card.shown = {<<card.of, offered'[card.of].at>>}
  <2>1. CASE card = new
    BY <2>1
  <2>2. CASE card \in cards
    <3>1. card.token \in Nat /\ card.token <= presses
      BY <2>2 DEF ConsoleInv, Confirmable, Message
    <3>2. card.token <= presses'
      BY <1>1, <3>1
    <3> QED BY <2>2, <3>2 DEF ConsoleInv, Confirmable
  <2> QED BY <2>1, <2>2
<1> QED BY <1>1, <1>2, <1>3, <1>4 DEF Confirmable

\* An offer that is used up stands for no message.
LEMMA OfferUsed ==
    ASSUME ConsoleInv, NEW t \in Jobs, offered' = [offered EXCEPT ![t] = NoOffer],
           cards' \subseteq cards, presses' = presses + 1
    PROVE  Confirmable'
<1>1. presses \in Nat /\ presses' \in Nat /\ presses <= presses' /\ 0 <= presses'
  BY DEF ConsoleInv, Confirmable
<1>2. NoOffer \in [token : Nat, at : Nat, rename : BOOLEAN] /\ NoOffer.token = 0
  BY DEF NoOffer
<1>3. /\ offered' \in [Jobs -> [token : Nat, at : Nat, rename : BOOLEAN]] /\ offered'[t].token = 0
      /\ \A y \in Jobs : y # t => offered'[y] = offered[y]
  BY <1>2 DEF ConsoleInv, Confirmable
<1>4. ASSUME NEW y \in Jobs PROVE offered'[y].token <= presses'
  <2>1. offered[y].token \in Nat /\ offered[y].token <= presses
    BY DEF ConsoleInv, Confirmable
  <2> QED BY <1>1, <1>3, <2>1
<1>5. ASSUME NEW card \in cards'
      PROVE  /\ card.op \in {"recover", "cancel"} => card.of \in Jobs
             /\ card.token <= presses'
             /\ card.op = "recover" =>
                   /\ card.token > 0
                   /\ offered'[card.of].token = card.token =>
                         card.shown = {<<card.of, offered'[card.of].at>>}
  <2>1. card \in cards /\ card.token \in Nat /\ card.token <= presses
    BY DEF ConsoleInv, Confirmable, Message
  <2>2. card.token <= presses'
    BY <1>1, <2>1
  <2>3. ASSUME card.op = "recover"
        PROVE  /\ card.of \in Jobs /\ card.token > 0 /\ card.token # 0
               /\ offered[card.of].token = card.token =>
                     card.shown = {<<card.of, offered[card.of].at>>}
    <3>1. /\ card.of \in Jobs /\ card.token > 0
          /\ offered[card.of].token = card.token =>
                card.shown = {<<card.of, offered[card.of].at>>}
      BY <2>1, <2>3 DEF ConsoleInv, Confirmable
    <3>2. card.token # 0
      BY <2>1, <3>1
    <3> QED BY <3>1, <3>2
  <2>4. card.op = "cancel" => card.of \in Jobs
    BY <2>1 DEF ConsoleInv, Confirmable
  <2> QED BY <1>3, <2>2, <2>3, <2>4
<1> QED BY <1>1, <1>3, <1>4, <1>5 DEF Confirmable, ConsoleInv

LEMMA AsksToRecoverKept ==
    ASSUME ConsoleInv, NEW t \in Jobs, NEW rename \in BOOLEAN, AsksToRecover(t, rename)
    PROVE  ConsoleKept
<1>1. JobsMove /\ RestartsShown
  BY NothingMoves, NothingRestarts DEF AsksToRecover
<1>2. Confirmable'
  BY OfferConfirmable DEF AsksToRecover, Presses
<1> QED BY <1>1, <1>2, StepKept DEF AsksToRecover, handlers, ConsoleInv, Repairing

\* The button that confirms shows the row the offer was made for, which must not have changed.
LEMMA ConfirmsRecoveryKept ==
    ASSUME ConsoleInv, NEW card \in cards, ConfirmsRecovery(card)
    PROVE  ConsoleKept
<1> DEFINE t == card.of
<1>1. /\ card.op = "recover" /\ presses' = presses + 1 /\ cards' = cards \ {card}
      /\ repair' = repair /\ sweep' = sweep
  BY DEF ConfirmsRecovery, Presses, Replaces, handlers
<1>2. t \in Jobs
  BY <1>1 DEF ConsoleInv, Confirmable
<1>3. Repairing' /\ cards' \subseteq cards /\ cards \ cards' \subseteq {card}
  BY <1>1 DEF ConsoleInv, Repairing
<1>4. CASE UNCHANGED <<job, retained, staged>>
  <2>1. JobsMove /\ RestartsShown
    BY <1>4, NothingMoves, NothingRestarts
  <2>2. offered' = [offered EXCEPT ![t] = NoOffer] \/ offered' = offered
    BY DEF ConfirmsRecovery
  <2>3. Confirmable'
    BY <1>1, <1>2, <1>3, <2>2, OfferUsed, ConfirmsStill
  <2> QED BY <1>1, <1>3, <2>1, <2>3, StepKept
<1>5. CASE /\ OfferStands(t, card) /\ offered' = [offered EXCEPT ![t] = NoOffer]
           /\ MayRequeue(t, offered[t].at, TRUE, ~offered[t].rename) /\ RequeuesJob(t, TRUE)
  <2>1. JobsMove /\ \A y \in Jobs : y # t => job'[y] = job[y]
    BY <1>2, <1>5, RequeuesMoves
  <2>2. card.shown = {<<t, offered[t].at>>} /\ job[t].at = offered[t].at
    BY <1>1, <1>2, <1>5 DEF ConsoleInv, Confirmable, OfferStands, MayRequeue
  <2>3. Row(t) \in card.shown
    BY <2>2 DEF Row
  <2>4. ASSUME NEW y \in Jobs, job'[y].gen > job[y].gen PROVE y = t
    <3>1. job[y].gen \in Nat
      BY RowTypes
    <3>2. job'[y] # job[y]
      BY <2>4, <3>1
    <3> QED BY <2>1, <3>2
  <2>5. RestartsShown
    BY <1>1, <1>3, <2>3, <2>4 DEF RestartsShown
  <2>6. Confirmable'
    BY <1>1, <1>2, <1>3, <1>5, OfferUsed
  <2> QED BY <1>1, <1>3, <2>1, <2>5, <2>6, StepKept
<1> QED BY <1>4, <1>5 DEF ConfirmsRecovery, NotRequeued

LEMMA RetryKept ==
    ASSUME ConsoleInv, NEW t \in Jobs, Retry(t)
    PROVE  ConsoleKept
<1>1. presses' = presses + 1 /\ repair' = repair /\ sweep' = sweep /\ Repairing'
  BY DEF Retry, Presses, handlers, ConsoleInv, Repairing
<1>2. CASE OffersRecovery(t, job[t].review) /\ NotRequeued
  <2>1. JobsMove /\ RestartsShown
    BY <1>2, NothingMoves, NothingRestarts DEF NotRequeued
  <2>2. job[t].review \in BOOLEAN
    BY RowTypes DEF JobRow
  <2>3. Confirmable'
    BY <1>1, <1>2, <2>2, OfferConfirmable
  <2> QED BY <1>1, <2>1, <2>3, StepKept
<1>3. CASE UNCHANGED <<offered, cards>>
  <2>1. Confirmable' /\ cards \ cards' = {}
    BY <1>1, <1>3, ConfirmsStill
  <2>2. RestartsShown
    BY <1>1, <2>1 DEF RestartsShown
  <2>3. CASE RequeuesJob(t, FALSE)
    BY <1>1, <2>1, <2>2, <2>3, RequeuesMoves, StepKept
  <2>4. CASE /\ Wrote(t, [job[t] EXCEPT !.cancel = FALSE,
                                        !.state = IF @ = "active" THEN "queued" ELSE @])
             /\ UNCHANGED <<retained, staged>>
    <3> DEFINE state == IF job[t].state = "active" THEN "queued" ELSE job[t].state
               r == [job[t] EXCEPT !.cancel = FALSE, !.state = state]
    <3>1. Wrote(t, r)
      BY <2>4, RowTypes DEF JobRow
    <3>2. /\ state \in {"queued", "active", "failed"} \cup EndedJob
          /\ job[t].state \in EndedJob => state \in EndedJob
      BY RowTypes DEF JobRow, EndedJob
    <3> HIDE DEF state
    <3>3. r \in JobRow /\ r.state = state /\ r.gen = job[t].gen /\ r.temp = job[t].temp
      BY <3>2, RowTypes DEF JobRow
    <3> HIDE DEF r
    <3>4. JobsMove
      BY <2>4, <3>1, <3>2, <3>3, RowTypes, WroteMoves
    <3> QED BY <1>1, <2>1, <2>2, <3>4, StepKept
  <2>5. CASE NotRequeued
    BY <1>1, <2>1, <2>2, <2>5, NothingMoves, StepKept DEF NotRequeued
  <2> QED BY <1>3, <2>3, <2>4, <2>5 DEF Retry
<1> QED BY <1>2, <1>3 DEF Retry

LEMMA RetryAllKept ==
    ASSUME ConsoleInv, RetryAll
    PROVE  ConsoleKept
<1> DEFINE again == {t \in Jobs : /\ job[t].state = "failed" /\ ~job[t].cancel
                                  /\ ~job[t].review /\ Idle(t)}
<1>1. /\ job' = [t \in Jobs |-> IF t \in again
                                THEN [job[t] EXCEPT !.state = "queued", !.gen = @ + 1, !.at = @ + 1]
                                ELSE job[t]]
      /\ presses' = presses + 1 /\ UNCHANGED <<staged, retained, offered, cards, sweep, repair>>
  BY DEF RetryAll, Presses, confirmations, handlers
<1>2. ASSUME NEW t \in Jobs
      PROVE  /\ job'[t] \in JobRow /\ job[t].gen <= job'[t].gen
             /\ job[t].state \in EndedJob => job'[t].state \in EndedJob
             /\ job'[t].temp = job[t].temp
  <2> DEFINE r == [job[t] EXCEPT !.state = "queued", !.gen = job[t].gen + 1, !.at = job[t].at + 1]
  <2>1. job[t].gen + 1 \in Nat /\ job[t].at + 1 \in Nat /\ job[t].gen <= job[t].gen + 1
    <3>1. job[t].gen \in Nat /\ job[t].at \in Nat
      BY RowTypes
    <3> QED BY <3>1
  <2>2. r \in JobRow /\ r.gen = job[t].gen + 1 /\ r.temp = job[t].temp
    BY <2>1, RowTypes DEF JobRow
  <2>3. job'[t] = IF t \in again THEN r ELSE job[t]
    BY <1>1
  <2>4. t \in again => job[t].state \notin EndedJob
    BY DEF EndedJob
  <2> HIDE DEF again, r
  <2> QED BY <2>1, <2>2, <2>3, <2>4, RowTypes
<1>3. JobsMove
  <2>1. job' \in [Jobs -> JobRow]
    BY <1>1, <1>2
  <2> HIDE DEF again
  <2> QED BY <1>1, <1>2, <2>1 DEF JobsMove
<1> QED BY <1>1, <1>3, OnlyJobs

-------------------------------------------------------------------------------
(* Cancellations *)

\* What is settled for the row as cancelled: the same attempt, the same object, perhaps ended.
LEMMA SettlesMoves ==
    ASSUME ConsoleInv, NEW t \in Jobs, NEW r \in JobRow, SettlesCancel(t, r),
           r.state = job[t].state, r.gen = job[t].gen, r.temp = job[t].temp,
           UNCHANGED <<staged, retained>>
    PROVE  JobsMove /\ \A y \in Jobs : job'[y].gen = job[y].gen
<1> DEFINE withdrawn == [r EXCEPT !.cancel = FALSE]
           ended == [r EXCEPT !.state = "cancelled", !.cancel = FALSE]
<1>1. Wrote(t, withdrawn) \/ Wrote(t, ended) \/ Wrote(t, r)
  BY DEF SettlesCancel
<1>2. /\ withdrawn \in JobRow /\ withdrawn.state = r.state /\ withdrawn.gen = r.gen
      /\ withdrawn.temp = r.temp
  BY DEF JobRow
<1>3. /\ ended \in JobRow /\ ended.state \in EndedJob /\ ended.gen = r.gen /\ ended.temp = r.temp
  BY DEF JobRow, EndedJob
<1> HIDE DEF withdrawn, ended
<1>4. ASSUME NEW q \in JobRow, Wrote(t, q), q.state = r.state \/ q.state \in EndedJob,
             q.gen = r.gen, q.temp = r.temp
      PROVE  JobsMove /\ \A y \in Jobs : job'[y].gen = job[y].gen
  <2>1. JobsMove
    BY <1>4, RowTypes, WroteMoves
  <2> QED BY <1>4, <2>1, WroteEffect
<1> QED BY <1>1, <1>2, <1>3, <1>4

LEMMA CancelsMoves ==
    ASSUME ConsoleInv, NEW t \in Jobs, CancelsJob(t), UNCHANGED <<staged, retained>>
    PROVE  JobsMove /\ \A y \in Jobs : job'[y].gen = job[y].gen
<1> DEFINE r == [job[t] EXCEPT !.cancel = TRUE]
<1>1. r \in JobRow /\ r.state = job[t].state /\ r.gen = job[t].gen /\ r.temp = job[t].temp
  BY RowTypes DEF JobRow
<1>2. job' = job \/ Wrote(t, r) \/ SettlesCancel(t, r)
  BY DEF CancelsJob
<1> HIDE DEF r
<1>3. CASE job' = job
  BY <1>3, NothingMoves
<1>4. CASE Wrote(t, r)
  <2>1. JobsMove
    BY <1>1, <1>4, RowTypes, WroteMoves
  <2> QED BY <1>1, <1>4, <2>1, WroteEffect
<1>5. CASE SettlesCancel(t, r)
  BY <1>1, <1>5, SettlesMoves
<1> QED BY <1>2, <1>3, <1>4, <1>5

LEMMA AsksToCancelKept ==
    ASSUME ConsoleInv, NEW t \in Jobs, AsksToCancel(t)
    PROVE  ConsoleKept
<1> DEFINE new == Card("cancel", t, presses', {Row(t)})
<1>1. /\ presses' = presses + 1 /\ cards' = cards \cup {new} /\ presses \in Nat
      /\ UNCHANGED <<job, staged, retained, offered, repair, sweep>>
  BY DEF AsksToCancel, Presses, handlers, ConsoleInv, Confirmable
<1>2. {Row(t)} \in SUBSET Snapshots
  BY RowTypes
<1>3. new \in Message /\ new.op = "cancel" /\ new.of = t /\ new.token = presses'
  BY <1>1, <1>2 DEF Card, Message
<1> HIDE DEF new
<1>4. presses' <= presses'
  BY <1>1
<1>5. Confirmable'
  BY <1>1, <1>3, <1>4, AddsMessage
<1> QED BY <1>1, <1>5, NothingMoves, NothingRestarts, StepKept DEF ConsoleInv, Repairing

LEMMA CancelsKept ==
    ASSUME ConsoleInv, NEW t \in Jobs,
           CancelCommand(t) \/ Interrupted(t) \/ Removed(t)
    PROVE  ConsoleKept
<1>1. /\ presses' \in {presses, presses + 1}
      /\ UNCHANGED <<retained, offered, cards, sweep, repair>>
  BY DEF CancelCommand, Interrupted, Removed, Presses, confirmations
<1>2. CASE CancelCommand(t)
  BY <1>1, <1>2, CancelsMoves, OnlyJobs DEF CancelCommand
<1>3. CASE Interrupted(t)
  <2> DEFINE r == [job[t] EXCEPT !.running = FALSE]
  <2>1. r \in JobRow /\ r.state = job[t].state /\ r.gen = job[t].gen /\ r.temp = job[t].temp
    BY RowTypes DEF JobRow
  <2>2. SettlesCancel(t, r) /\ UNCHANGED <<staged, retained>>
    BY <1>3 DEF Interrupted
  <2> HIDE DEF r
  <2> QED BY <1>1, <2>1, <2>2, SettlesMoves, OnlyJobs
<1>4. CASE Removed(t)
  <2> DEFINE r == [job[t] EXCEPT !.state = "cancelled", !.cancel = FALSE, !.temp = Untouched]
  <2>1. r \in JobRow /\ r.state \in EndedJob /\ r.gen = job[t].gen /\ r.temp = Untouched
    BY RowTypes DEF JobRow, EndedJob
  <2>2. staged' \subseteq staged /\ (job' = job \/ Wrote(t, r))
    BY <1>4 DEF Removed
  <2> HIDE DEF r
  <2>3. CASE job' = job
    <3>1. JobsMove
      BY <1>1, <2>2, <2>3, RowTypes DEF JobsMove, ConsoleInv
    <3> QED BY <1>1, <3>1, OnlyJobs
  <2>4. CASE Wrote(t, r)
    <3>1. JobsMove
      BY <1>1, <2>1, <2>2, <2>4, RowTypes, WroteMoves
    <3> QED BY <1>1, <3>1, OnlyJobs
  <2> QED BY <2>2, <2>3, <2>4
<1> QED BY <1>2, <1>3, <1>4

\* The button of a cancellation may show a row that has moved on: no attempt begins by it.
LEMMA ConfirmsCancelKept ==
    ASSUME ConsoleInv, NEW card \in cards, NEW yes \in BOOLEAN, ConfirmsCancel(card, yes)
    PROVE  ConsoleKept
<1>1. /\ card.of \in Jobs /\ presses' = presses + 1 /\ cards' \subseteq cards
      /\ UNCHANGED <<staged, retained, offered, repair, sweep>>
  BY DEF ConfirmsCancel, Presses, Replaces, ConsoleInv, Confirmable
<1>2. job' = job \/ CancelsJob(card.of)
  BY DEF ConfirmsCancel
<1>3. JobsMove /\ \A y \in Jobs : job'[y].gen = job[y].gen
  BY <1>1, <1>2, NothingMoves, CancelsMoves
<1>4. Confirmable' /\ RestartsShown
  BY <1>1, <1>3, ConfirmsStill, NothingRestarts
<1> QED BY <1>1, <1>3, <1>4, StepKept DEF ConsoleInv, Repairing

-------------------------------------------------------------------------------
(* Repairs *)

LEMMA ShowsFailuresKept ==
    ASSUME ConsoleInv, ShowsFailures
    PROVE  ConsoleKept
<1> DEFINE shown == {Row(t) : t \in {u \in Jobs : Repairable(u)}}
           new == Card("repair", Untouched, presses', shown)
<1>1. /\ presses' = presses + 1 /\ cards' = cards \cup {new} /\ presses \in Nat
      /\ UNCHANGED <<job, staged, retained, offered, repair, sweep>>
  BY DEF ShowsFailures, Presses, handlers, confirmations, ConsoleInv, Confirmable
<1>2. shown \in SUBSET Snapshots
  BY RowTypes
<1> HIDE DEF shown
<1>3. new \in Message /\ new.op = "repair" /\ new.token = presses'
  BY <1>1, <1>2 DEF Card, Message
<1> HIDE DEF new
<1>4. presses' <= presses'
  BY <1>1
<1>5. Confirmable'
  BY <1>1, <1>3, <1>4, AddsMessage
<1> QED BY <1>1, <1>5, NothingMoves, NothingRestarts, StepKept DEF ConsoleInv, Repairing

LEMMA ConfirmsRepairKept ==
    ASSUME ConsoleInv, NEW card \in cards, ConfirmsRepair(card)
    PROVE  ConsoleKept
<1>1. /\ presses' = presses + 1 /\ cards' \subseteq cards
      /\ repair' = [left |-> card.shown, reads |-> Untouched]
      /\ UNCHANGED <<job, staged, retained, offered, sweep>>
  BY DEF ConfirmsRepair, Presses, Replaces, confirmations
<1>2. Repairing'
  BY <1>1 DEF Repairing, ConsoleInv, Confirmable, Message
<1> QED BY <1>1, <1>2, ConfirmsStill, NothingMoves, NothingRestarts, StepKept

LEMMA ReadsAgainKept ==
    ASSUME ConsoleInv, ReadsAgain \/ RepairStops
    PROVE  ConsoleKept
<1>1. UNCHANGED <<job, staged, retained, offered, cards, sweep, presses>>
  BY DEF ReadsAgain, RepairStops, confirmations
<1>2. Repairing'
  <2>1. CASE ReadsAgain
    BY <2>1 DEF ReadsAgain, Repairing, ConsoleInv
  <2>2. CASE RepairStops
    BY <2>2 DEF RepairStops, NoRepair, Repairing
  <2> QED BY <2>1, <2>2
<1> QED BY <1>1, <1>2, ConfirmsStill, NothingMoves, NothingRestarts, StepKept

\* The row must still be the one of the page once its message has been read again.
LEMMA RepairsKept ==
    ASSUME ConsoleInv, Repairs
    PROVE  ConsoleKept
<1> DEFINE t == repair.reads[1]
<1>1. /\ repair.reads # Untouched /\ repair' = [repair EXCEPT !.reads = Untouched]
      /\ UNCHANGED <<offered, cards, sweep, presses>>
  BY DEF Repairs, confirmations
<1>2. /\ t \in Jobs /\ repair.reads[2] \in Nat /\ repair.reads = <<t, repair.reads[2]>>
  BY <1>1 DEF ConsoleInv, Repairing, Snapshots
<1>3. Confirmable' /\ Repairing'
  BY <1>1, ConfirmsStill DEF ConsoleInv, Repairing
<1>4. CASE NotRequeued
  BY <1>1, <1>3, <1>4, NothingMoves, NothingRestarts, StepKept DEF NotRequeued
<1>5. CASE MayRequeue(t, SnapshotAt(repair.reads), FALSE, FALSE) /\ RequeuesJob(t, FALSE)
  <2>1. JobsMove /\ \A y \in Jobs : y # t => job'[y] = job[y]
    BY <1>2, <1>5, RequeuesMoves
  <2>2. repair.reads = Row(t)
    BY <1>2, <1>5 DEF MayRequeue, SnapshotAt, Row
  <2>3. ASSUME NEW y \in Jobs, job'[y].gen > job[y].gen PROVE y = t
    <3>1. job[y].gen \in Nat
      BY RowTypes
    <3>2. job'[y] # job[y]
      BY <2>3, <3>1
    <3> QED BY <2>1, <3>2
  <2>4. RestartsShown
    BY <1>1, <2>2, <2>3 DEF RestartsShown
  <2> QED BY <1>1, <1>3, <2>1, <2>4, StepKept
<1> QED BY <1>4, <1>5 DEF Repairs

-------------------------------------------------------------------------------
(* The clean-up *)

\* Steps of the clean-up move no row.
LEMMA SweepKept ==
    ASSUME ConsoleInv, UNCHANGED <<job, retained, offered, repair>>, staged' \subseteq staged,
           Confirmable', RemovesUnowned, Abandoned',
           \A p \in sweep'.listing \cup sweep'.cleared : p \in staged \cup sweep.listing \cup sweep.cleared
    PROVE  ConsoleKept
<1>1. Numbered' /\ Owned' /\ Repairing' /\ job' \in [Jobs -> JobRow]
  BY DEF ConsoleInv, Numbered, Owned, Repairing
<1>2. RestartsShown
  BY NothingRestarts
<1> QED BY <1>1, <1>2 DEF ConsoleKept, ConsoleInv

LEMMA CleaningConfirms ==
    ASSUME ConsoleInv, AsksToClean \/ PlansCleaning \/ \E card \in cards : ConfirmsCleaning(card)
    PROVE  ConsoleKept
<1>1. UNCHANGED <<job, staged, retained, offered, repair>>
  BY DEF AsksToClean, PlansCleaning, ConfirmsCleaning, confirmations
<1>2. RemovesUnowned
  BY <1>1 DEF RemovesUnowned
<1>3. \/ sweep' = sweep
      \/ /\ sweep'.at # "removing" /\ sweep'.cleared = {} /\ sweep'.listing \subseteq staged
  <2>1. ASSUME NEW wants, Scans(wants)
        PROVE  sweep'.at # "removing" /\ sweep'.cleared = {} /\ sweep'.listing = staged
    BY <2>1 DEF Scans, NoSweep
  <2>2. \/ sweep' = sweep \/ sweep' = NoSweep \/ Scans({}) \/ Scans(planned.objects)
    BY DEF AsksToClean, PlansCleaning, ConfirmsCleaning
  <2>3. sweep' = NoSweep =>
            sweep'.at # "removing" /\ sweep'.cleared = {} /\ sweep'.listing \subseteq staged
    BY DEF NoSweep
  <2> QED BY <2>1, <2>2, <2>3
<1>4. Abandoned' /\ \A p \in sweep'.listing \cup sweep'.cleared :
          p \in staged \cup sweep.listing \cup sweep.cleared
  <2>1. CASE sweep' = sweep
    BY <1>1, <2>1 DEF Abandoned, ConsoleInv
  <2>2. CASE sweep' # sweep
    BY <1>3, <2>2 DEF Abandoned
  <2> QED BY <2>1, <2>2
<1>5. Confirmable'
  <2>1. CASE PlansCleaning
    <3> DEFINE new == Card("clean", Untouched, presses, {})
    <3>1. presses' = presses /\ cards' \subseteq cards \cup {new} /\ presses \in Nat
      BY <2>1 DEF PlansCleaning, ConsoleInv, Confirmable
    <3>2. new \in Message /\ new.op = "clean" /\ new.token = presses
      BY <3>1 DEF Card, Message
    <3> HIDE DEF new
    <3>3. new.token <= presses'
      BY <3>1, <3>2
    <3> QED BY <1>1, <3>1, <3>2, <3>3, AddsMessage
  <2>2. CASE ~ PlansCleaning
    <3>1. presses' = presses + 1 /\ cards' \subseteq cards
      BY <2>2 DEF AsksToClean, ConfirmsCleaning, Presses, Replaces
    <3> QED BY <1>1, <3>1, ConfirmsStill
  <2> QED BY <2>1, <2>2
<1> QED BY <1>1, <1>2, <1>4, <1>5, SweepKept

\* What is looked at once more and found abandoned stays so until it has been removed.
LEMMA CleaningGoesOn ==
    ASSUME ConsoleInv, CleaningBegins \/ CleansNext \/ CleansOne \/ CleaningStops
    PROVE  ConsoleKept
<1>1. /\ UNCHANGED <<job, retained, offered, repair, cards, presses>>
      /\ staged' \subseteq staged
  BY DEF CleaningBegins, CleansNext, CleansOne, CleaningStops, confirmations
<1>2. Confirmable'
  BY <1>1, ConfirmsStill
<1>3. CASE CleaningBegins
  <2>1. /\ sweep'.at = "next" /\ sweep'.listing = sweep.listing /\ sweep'.cleared \subseteq sweep.listing
        /\ staged' = staged
    BY <1>3 DEF CleaningBegins
  <2> QED BY <1>1, <1>2, <2>1, SweepKept DEF Abandoned, RemovesUnowned
<1>4. CASE CleaningStops
  <2>1. sweep' = NoSweep /\ staged' = staged
    BY <1>4 DEF CleaningStops
  <2> QED BY <1>1, <1>2, <2>1, SweepKept DEF Abandoned, RemovesUnowned, NoSweep
<1>5. CASE CleansOne
  <2>1. /\ sweep.at = "removing" /\ staged' = staged \ {sweep.removes}
        /\ sweep'.at = "next" /\ sweep'.listing = sweep.listing /\ sweep'.cleared = sweep.cleared
    BY <1>5 DEF CleansOne
  <2>2. ASSUME NEW t \in Jobs PROVE job[t].temp # sweep.removes
    BY <2>1, ConsoleAssumption DEF ConsoleInv, Abandoned, Owned, Staged
  <2>3. RemovesUnowned
    BY <2>1, <2>2 DEF RemovesUnowned, ConsoleInv, Abandoned
  <2> QED BY <1>1, <1>2, <2>1, <2>3, SweepKept DEF Abandoned
<1>6. CASE CleansNext
  <2>1. staged' = staged /\ RemovesUnowned
    BY <1>6 DEF CleansNext, RemovesUnowned
  <2>2. CASE /\ sweep'.at # "removing" /\ sweep'.listing \subseteq sweep.listing
             /\ sweep'.cleared \subseteq sweep.cleared
    BY <1>1, <1>2, <2>1, <2>2, SweepKept DEF Abandoned
  <2>3. CASE \E p \in sweep.cleared :
                /\ IsOrphan(p) /\ sweep'.at = "removing" /\ sweep'.removes = p
                /\ sweep'.listing = sweep.listing /\ sweep'.cleared = sweep.cleared
    <3>1. PICK p \in sweep.cleared : IsOrphan(p) /\ sweep'.removes = p
      BY <2>3
    <3>2. p \in Staged /\ p[2] <= job[p[1]].gen /\ p \notin retained
          /\ job[p[1]].temp # p /\ job[p[1]].state \in EndedJob
      BY <3>1 DEF ConsoleInv, Numbered, IsOrphan
    <3>3. Abandoned'
      BY <1>1, <3>1, <3>2 DEF Abandoned
    <3> QED BY <1>1, <1>2, <2>1, <2>3, <3>3, SweepKept
  <2>4. CASE sweep.wants = {}
    BY <1>6, <2>2, <2>4 DEF CleansNext, NoSweep
  <2>5. CASE sweep.wants # {}
    <3>1. PICK p \in sweep.wants :
              sweep' = IF p \in sweep.cleared /\ IsOrphan(p)
                       THEN [sweep EXCEPT !.wants = @ \ {p}, !.at = "removing", !.removes = p]
                       ELSE [sweep EXCEPT !.wants = @ \ {p}]
      BY <1>6, <2>5 DEF CleansNext
    <3>2. CASE p \in sweep.cleared /\ IsOrphan(p)
      BY <2>3, <3>1, <3>2
    <3>3. CASE ~ (p \in sweep.cleared /\ IsOrphan(p))
      <4>1. sweep' = [sweep EXCEPT !.wants = sweep.wants \ {p}] /\ sweep.at = "next"
        BY <1>6, <3>1, <3>3 DEF CleansNext
      <4>2. sweep'.at = "next" /\ sweep'.listing = sweep.listing /\ sweep'.cleared = sweep.cleared
        BY <4>1
      <4> QED BY <2>2, <4>2
    <3> QED BY <3>2, <3>3
  <2> QED BY <2>4, <2>5
<1> QED BY <1>3, <1>4, <1>5, <1>6

-------------------------------------------------------------------------------
LEMMA ConsoleStarts == ASSUME ConsoleInit PROVE ConsoleInv
<1>1. job \in [Jobs -> JobRow] /\ \A t \in Jobs : job[t].temp = Untouched /\ job[t].gen = 0
  <2> DEFINE rows == {[state |-> st, at |-> 0, cancel |-> FALSE, review |-> FALSE, gen |-> 0,
                       temp |-> Untouched, running |-> FALSE] : st \in {"queued", "failed", "cancelled"}}
  <2>1. \A r \in rows : r \in JobRow /\ r.temp = Untouched /\ r.gen = 0
    <3> TAKE r \in rows
    <3>1. PICK st \in {"queued", "failed", "cancelled"} :
              r = [state |-> st, at |-> 0, cancel |-> FALSE, review |-> FALSE, gen |-> 0,
                   temp |-> Untouched, running |-> FALSE]
      OBVIOUS
    <3>2. st \in {"queued", "active", "failed"} \cup EndedJob /\ 0 \in Nat
      BY DEF EndedJob
    <3>3. r \in JobRow
      BY <3>1, <3>2 DEF JobRow
    <3> QED BY <3>1, <3>3
  <2>2. job \in [Jobs -> rows]
    BY DEF ConsoleInit
  <2> HIDE DEF rows
  <2> QED BY <2>1, <2>2
<1>2. Owned
  BY <1>1 DEF Owned
<1>3. Numbered
  BY <1>1 DEF ConsoleInit, Numbered, NoSweep, StagingOf, Staged
<1>4. Abandoned /\ Repairing
  BY DEF ConsoleInit, Abandoned, NoSweep, Repairing, NoRepair
<1>5. NoOffer \in [token : Nat, at : Nat, rename : BOOLEAN] /\ NoOffer.token = 0
  BY DEF NoOffer
<1>6. Confirmable
  BY <1>5 DEF ConsoleInit, Confirmable
<1> QED BY <1>1, <1>2, <1>3, <1>4, <1>6 DEF ConsoleInv

LEMMA ConsoleStep == ASSUME ConsoleInv, [ConsoleNext]_consoleVars PROVE ConsoleKept
<1>1. CASE UNCHANGED consoleVars
  BY <1>1, NothingMoves, OnlyJobs DEF consoleVars
<1>2. ASSUME NEW t \in Jobs, AttemptStep(t) \/ Command(t) PROVE ConsoleKept
  BY <1>2, AttemptKept, AsksToRecoverKept, RetryKept, AsksToCancelKept, CancelsKept DEF Command
<1>3. ASSUME NEW card \in cards, PressedCard(card) PROVE ConsoleKept
  BY <1>3, ConfirmsRecoveryKept, ConfirmsRepairKept, CleaningConfirms, ConfirmsCancelKept DEF PressedCard
<1>4. CASE RetryAll \/ ShowsFailures \/ AsksToClean
  BY <1>4, RetryAllKept, ShowsFailuresKept, CleaningConfirms
<1>5. CASE Handled
  BY <1>5, CancelsKept, ReadsAgainKept, RepairsKept, CleaningConfirms, CleaningGoesOn DEF Handled
<1> QED BY <1>1, <1>2, <1>3, <1>4, <1>5 DEF ConsoleNext

\* Every attempt's object is its own, what a clean-up removes was abandoned, and a
\* confirmation is of the row that its message shows (TaskConsole's rows, tokens and sweep).
THEOREM ConsoleInvariant == ConsoleSpec => []ConsoleInv
<1>1. ConsoleInit => ConsoleInv
  BY ConsoleStarts
<1>2. ConsoleInv /\ [ConsoleNext]_consoleVars => ConsoleInv'
  BY ConsoleStep DEF ConsoleKept
<1> QED BY <1>1, <1>2, PTL DEF ConsoleSpec

\* The clean-up of temporary objects (_confirm_orphan_cleanup) never removes one that a row
\* records or a recovery has retained, whatever is started or confirmed meanwhile.
THEOREM CleaningIsSafe == ConsoleSpec => CleaningSpares
<1>1. ConsoleInv /\ [ConsoleNext]_consoleVars =>
          [\A p \in staged \ staged' :
               sweep.removes = p /\ sweep' # sweep =>
                  p \notin retained /\ \A t \in Jobs : job[t].temp # p]_consoleVars
  BY ConsoleStep DEF ConsoleKept, RemovesUnowned
<1> QED BY <1>1, ConsoleInvariant, PTL DEF ConsoleSpec, CleaningSpares

\* A confirmed recovery or repair starts a task again only if its row is still the one that
\* the pressed button was shown with (_offer_recovery, failed_page, requeue).
THEOREM RestartsAreShown == ConsoleSpec => ConfirmedAsShown
<1>1. ConsoleInv /\ [ConsoleNext]_consoleVars =>
          [\A t \in Jobs : job'[t].gen > job[t].gen =>
               /\ \A card \in cards \ cards' : Row(t) \in card.shown
               /\ repair' # repair => repair.reads = Row(t)]_consoleVars
  BY ConsoleStep DEF ConsoleKept, RestartsShown
<1> QED BY <1>1, ConsoleInvariant, PTL DEF ConsoleSpec, ConfirmedAsShown

-------------------------------------------------------------------------------
(* The types of what commands and handlers leave *)

\* An attempt runs only in the state that says so, and no longer when a cancellation removes
\* what it has left; a cancellation and a clean-up are at one of their steps.
Attempting(t) ==
    /\ job[t].running => job[t].state = "active"
    /\ ending[t] = "removing" => ~ job[t].running
SweepRow == [at : {"idle", "listing", "next", "removing"}, wants : SUBSET Staged,
             listing : SUBSET Staged, cleared : SUBSET Staged, removes : Staged \cup {Untouched}]
HandlersSound ==
    /\ \A t \in Jobs : Attempting(t)
    /\ ending \in [Jobs -> {"no", "waiting", "removing"}]
    /\ sweep \in SweepRow /\ planned.objects \subseteq Staged

\* One row is written, to a state that fits it.
LEMMA WroteSound ==
    ASSUME ConsoleInv, HandlersSound, NEW t \in Jobs, NEW r \in JobRow, Wrote(t, r),
           r.running => r.state = "active", ending'[t] = "removing" => ~ r.running,
           \A y \in Jobs : y # t => ending'[y] = ending[y],
           ending' \in [Jobs -> {"no", "waiting", "removing"}], UNCHANGED <<sweep, planned>>
    PROVE  HandlersSound'
<1> DEFINE w == [r EXCEPT !.at = @ + 1]
<1>1. job' = [job EXCEPT ![t] = w] /\ job \in [Jobs -> JobRow]
  BY DEF Wrote, ConsoleInv
<1>2. w.running = r.running /\ w.state = r.state
  BY DEF JobRow
<1> HIDE DEF w
<1>3. ASSUME NEW y \in Jobs PROVE Attempting(y)'
  BY <1>1, <1>2 DEF Attempting, HandlersSound
<1> QED BY <1>3 DEF HandlersSound

\* Steps that write no row.
LEMMA NoRowSound ==
    ASSUME HandlersSound, job' = job, ending' = ending, sweep' \in SweepRow,
           planned'.objects \subseteq Staged
    PROVE  HandlersSound'
BY DEF HandlersSound, Attempting

LEMMA AttemptSound ==
    ASSUME ConsoleInv, HandlersSound, NEW t \in Jobs, AttemptStep(t)
    PROVE  HandlersSound'
<1>1. /\ job[t] \in JobRow /\ ending' = ending /\ UNCHANGED <<sweep, planned>>
      /\ ending' \in [Jobs -> {"no", "waiting", "removing"}]
      /\ Attempting(t)
  BY DEF ConsoleInv, HandlersSound, AttemptStep, Starts, Writes, Fails, Completes, handlers,
     confirmations
<1>2. CASE Starts(t)
  <2> DEFINE r == [job[t] EXCEPT !.state = "active", !.running = TRUE]
  <2>1. r \in JobRow /\ r.state = "active" /\ Wrote(t, r) /\ ending[t] = "no"
    BY <1>1, <1>2 DEF Starts, JobRow
  <2> HIDE DEF r
  <2> QED BY <1>1, <2>1, WroteSound
<1>3. CASE Writes(t)
  <2> DEFINE r == [job[t] EXCEPT !.state = "failed", !.running = FALSE, !.review = TRUE]
             s == [job[t] EXCEPT !.temp = StagingOf(t, job[t].gen)]
  <2>1. /\ r \in JobRow /\ s \in JobRow /\ ~ r.running /\ s.state = "active"
        /\ ending[t] # "removing"
    BY <1>1, <1>3 DEF JobRow, StagingOf, Writes, Staged, Attempting
  <2>2. Wrote(t, r) \/ Wrote(t, s)
    BY <1>3 DEF Writes
  <2> HIDE DEF r, s
  <2> QED BY <1>1, <2>1, <2>2, WroteSound
<1>4. CASE Fails(t)
  <2>1. PICK review \in BOOLEAN :
             Wrote(t, [job[t] EXCEPT !.state = "failed", !.running = FALSE, !.review = review])
    BY <1>4 DEF Fails
  <2> DEFINE r == [job[t] EXCEPT !.state = "failed", !.running = FALSE, !.review = review]
  <2>2. r \in JobRow /\ ~ r.running /\ Wrote(t, r)
    BY <1>1, <2>1 DEF JobRow
  <2> HIDE DEF r
  <2> QED BY <1>1, <2>2, WroteSound
<1>5. CASE Completes(t)
  <2> DEFINE r == [job[t] EXCEPT !.state = "done", !.running = FALSE, !.temp = Untouched]
  <2>1. r \in JobRow /\ ~ r.running /\ Wrote(t, r)
    BY <1>1, <1>5 DEF Completes, JobRow, EndedJob
  <2> HIDE DEF r
  <2> QED BY <1>1, <2>1, WroteSound
<1> QED BY <1>2, <1>3, <1>4, <1>5 DEF AttemptStep

\* Only a task that nothing runs for begins again.
LEMMA RequeuedSound ==
    ASSUME ConsoleInv, HandlersSound, NEW t \in Jobs, NEW fresh \in BOOLEAN, RequeuesJob(t, fresh),
           ~ job[t].running, ending' = ending, UNCHANGED <<sweep, planned>>
    PROVE  HandlersSound'
<1> DEFINE left == IF fresh THEN Untouched ELSE job[t].temp
           r == [job[t] EXCEPT !.state = "queued", !.gen = @ + 1, !.review = FALSE,
                               !.cancel = FALSE, !.temp = left]
<1>1. Wrote(t, r) /\ job[t] \in JobRow
  BY RowTypes DEF RequeuesJob, JobRow
<1>2. left \in Staged \cup {Untouched}
  BY RowTypes
<1>3. job[t].gen + 1 \in Nat
  <2>1. job[t].gen \in Nat
    BY RowTypes
  <2> QED BY <2>1
<1> HIDE DEF left
<1>4. r \in JobRow
  BY <1>1, <1>2, <1>3 DEF JobRow
<1>5. ~ r.running
  BY <1>1 DEF JobRow
<1>6. ending' \in [Jobs -> {"no", "waiting", "removing"}]
  BY DEF HandlersSound
<1> HIDE DEF r
<1> QED BY <1>1, <1>4, <1>5, <1>6, WroteSound

LEMMA RecoverySound ==
    ASSUME ConsoleInv, HandlersSound, NEW card \in cards, ConfirmsRecovery(card)
    PROVE  HandlersSound'
<1> DEFINE t == card.of
<1>1. t \in Jobs
  BY DEF ConfirmsRecovery, ConsoleInv, Confirmable
<1>2. ending' = ending /\ UNCHANGED <<sweep, planned>>
  BY DEF ConfirmsRecovery, handlers
<1>3. \/ Idle(t) /\ RequeuesJob(t, TRUE)
      \/ NotRequeued
  BY DEF ConfirmsRecovery
<1> HIDE DEF t
<1>4. CASE Idle(t) /\ RequeuesJob(t, TRUE)
  BY <1>1, <1>2, <1>4, RequeuedSound DEF Idle
<1>5. CASE NotRequeued
  BY <1>2, <1>5, NoRowSound DEF NotRequeued, HandlersSound
<1> QED BY <1>3, <1>4, <1>5

LEMMA RetrySound ==
    ASSUME ConsoleInv, HandlersSound, NEW t \in Jobs, Retry(t)
    PROVE  HandlersSound'
<1>1. /\ ending' = ending /\ UNCHANGED <<sweep, planned>> /\ job[t] \in JobRow
      /\ ending' \in [Jobs -> {"no", "waiting", "removing"}]
  BY DEF Retry, handlers, ConsoleInv, HandlersSound
<1> DEFINE state == IF job[t].state = "active" THEN "queued" ELSE job[t].state
           r == [job[t] EXCEPT !.cancel = FALSE, !.state = state]
<1>2. \/ NotRequeued
      \/ Idle(t) /\ RequeuesJob(t, FALSE)
      \/ Idle(t) /\ Wrote(t, r)
  BY <1>1 DEF Retry, JobRow
<1>3. r \in JobRow /\ r.running = job[t].running
  BY <1>1 DEF JobRow
<1> HIDE DEF r
<1>4. CASE NotRequeued
  BY <1>1, <1>4, NoRowSound DEF NotRequeued, HandlersSound
<1>5. CASE Idle(t) /\ RequeuesJob(t, FALSE)
  BY <1>1, <1>5, RequeuedSound DEF Idle
<1>6. CASE Idle(t) /\ Wrote(t, r)
  BY <1>1, <1>3, <1>6, WroteSound DEF Idle
<1> QED BY <1>2, <1>4, <1>5, <1>6

LEMMA RetryAllSound == ASSUME ConsoleInv, HandlersSound, RetryAll PROVE HandlersSound'
<1>1. ending' = ending /\ UNCHANGED <<sweep, planned>> /\ job \in [Jobs -> JobRow]
  BY DEF RetryAll, handlers, confirmations, ConsoleInv
<1>2. ASSUME NEW y \in Jobs PROVE Attempting(y)'
  <2> DEFINE r == [job[y] EXCEPT !.state = "queued", !.gen = @ + 1, !.at = @ + 1]
  <2>1. \/ job'[y] = job[y]
        \/ job'[y] = r /\ Idle(y)
    BY DEF RetryAll
  <2>2. r.running = job[y].running
    BY <1>1 DEF JobRow
  <2> HIDE DEF r
  <2> QED BY <1>1, <2>1, <2>2 DEF Idle, Attempting, HandlersSound
<1> QED BY <1>1, <1>2 DEF HandlersSound

\* A cancellation settles what no longer runs.
LEMMA SettlesSound ==
    ASSUME ConsoleInv, HandlersSound, NEW t \in Jobs, NEW r \in JobRow, ~ r.running,
           SettlesCancel(t, r), UNCHANGED <<sweep, planned>>
    PROVE  HandlersSound'
<1> DEFINE a == [r EXCEPT !.cancel = FALSE]
           b == [r EXCEPT !.state = "cancelled", !.cancel = FALSE]
<1>1. a \in JobRow /\ b \in JobRow /\ ~ a.running /\ ~ b.running
  BY DEF JobRow, EndedJob
<1>2. /\ Wrote(t, a) \/ Wrote(t, b) \/ Wrote(t, r)
      /\ ending' = [ending EXCEPT ![t] = "no"] \/ ending' = [ending EXCEPT ![t] = "removing"]
  BY DEF SettlesCancel
<1>3. ending' \in [Jobs -> {"no", "waiting", "removing"}]
  BY <1>2 DEF HandlersSound
<1>4. \A y \in Jobs : y # t => ending'[y] = ending[y]
  BY <1>2 DEF HandlersSound
<1> HIDE DEF a, b
<1> QED BY <1>1, <1>2, <1>3, <1>4, WroteSound

LEMMA CancelSound ==
    ASSUME ConsoleInv, HandlersSound, NEW t \in Jobs, CancelsJob(t), UNCHANGED <<sweep, planned>>
    PROVE  HandlersSound'
<1> DEFINE marked == [job[t] EXCEPT !.cancel = TRUE]
<1>1. /\ marked \in JobRow /\ marked.running = job[t].running /\ marked.state = job[t].state
      /\ job[t].running \in BOOLEAN
  BY DEF ConsoleInv, JobRow
<1>2. \/ UNCHANGED <<job, ending>>
      \/ job[t].running /\ Wrote(t, marked) /\ ending' = [ending EXCEPT ![t] = "waiting"]
      \/ ~ job[t].running /\ SettlesCancel(t, marked)
  BY DEF CancelsJob
<1> HIDE DEF marked
<1>3. CASE UNCHANGED <<job, ending>>
  BY <1>3, NoRowSound DEF HandlersSound
<1>4. CASE job[t].running /\ Wrote(t, marked) /\ ending' = [ending EXCEPT ![t] = "waiting"]
  <2>1. /\ marked.state = "active" /\ ending' \in [Jobs -> {"no", "waiting", "removing"}]
        /\ ending'[t] = "waiting" /\ \A y \in Jobs : y # t => ending'[y] = ending[y]
    BY <1>1, <1>4 DEF HandlersSound, Attempting
  <2> QED BY <1>1, <1>4, <2>1, WroteSound
<1>5. CASE ~ job[t].running /\ SettlesCancel(t, marked)
  BY <1>1, <1>5, SettlesSound
<1> QED BY <1>2, <1>3, <1>4, <1>5

LEMMA EndingSound ==
    ASSUME ConsoleInv, HandlersSound, NEW t \in Jobs, Interrupted(t) \/ Removed(t)
    PROVE  HandlersSound'
<1>1. UNCHANGED <<sweep, planned>> /\ job[t] \in JobRow
  BY DEF Interrupted, Removed, ConsoleInv, confirmations
<1>2. CASE Interrupted(t)
  <2> DEFINE r == [job[t] EXCEPT !.running = FALSE]
  <2>1. r \in JobRow /\ ~ r.running /\ SettlesCancel(t, r)
    BY <1>1, <1>2 DEF Interrupted, JobRow
  <2> HIDE DEF r
  <2> QED BY <1>1, <2>1, SettlesSound
<1>3. CASE Removed(t)
  <2> DEFINE r == [job[t] EXCEPT !.state = "cancelled", !.cancel = FALSE, !.temp = Untouched]
  <2>1. /\ ending' \in [Jobs -> {"no", "waiting", "removing"}] /\ ending'[t] = "no"
        /\ \A y \in Jobs : y # t => ending'[y] = ending[y]
    BY <1>3 DEF Removed, HandlersSound
  <2>2. UNCHANGED job \/ Wrote(t, r)
    BY <1>3 DEF Removed
  <2>3. CASE UNCHANGED job
    BY <1>1, <2>1, <2>3 DEF HandlersSound, Attempting
  <2>4. CASE Wrote(t, r)
    <3>1. r \in JobRow /\ r.running = job[t].running
      BY <1>1 DEF JobRow, EndedJob
    <3>2. ~ job[t].running
      BY <1>3 DEF Removed, HandlersSound, Attempting
    <3> HIDE DEF r
    <3> QED BY <1>1, <2>1, <2>4, <3>1, <3>2, WroteSound
  <2> QED BY <2>2, <2>3, <2>4
<1> QED BY <1>2, <1>3

\* A row of a batch that did not fail is left alone, and one that failed does not run.
LEMMA RepairsSound ==
    ASSUME ConsoleInv, HandlersSound, Repairs
    PROVE  HandlersSound'
<1> DEFINE t == repair.reads[1]
<1>1. ending' = ending /\ UNCHANGED <<sweep, planned>>
  BY DEF Repairs, confirmations
<1>2. repair.reads \in Snapshots
  BY DEF Repairs, ConsoleInv, Repairing
<1>3. t \in Jobs
  BY <1>2 DEF Snapshots
<1>4. CASE NotRequeued
  BY <1>1, <1>4, NoRowSound DEF NotRequeued, HandlersSound
<1>5. CASE MayRequeue(t, SnapshotAt(repair.reads), FALSE, FALSE) /\ RequeuesJob(t, FALSE)
  <2> HIDE DEF t
  <2>1. job[t].state = "failed" /\ (job[t].running => job[t].state = "active")
    BY <1>3, <1>5 DEF MayRequeue, HandlersSound, Attempting
  <2> QED BY <1>1, <1>3, <1>5, <2>1, RequeuedSound
<1> QED BY <1>4, <1>5 DEF Repairs

\* The clean-up goes from step to step; pages and offers write no row.
LEMMA CleaningSound ==
    ASSUME ConsoleInv, HandlersSound,
           \/ AsksToClean \/ PlansCleaning \/ CleaningBegins \/ CleansNext \/ CleansOne
           \/ CleaningStops \/ (\E card \in cards : ConfirmsCleaning(card))
    PROVE  HandlersSound'
<1>1. job' = job /\ ending' = ending
  BY DEF AsksToClean, PlansCleaning, CleaningBegins, CleansNext, CleansOne, CleaningStops,
     ConfirmsCleaning
<1>2. /\ staged \subseteq Staged /\ sweep \in SweepRow /\ planned.objects \subseteq Staged
      /\ sweep.listing \subseteq Staged /\ sweep.wants \subseteq Staged
  BY DEF ConsoleInv, Numbered, HandlersSound, SweepRow
<1>3. NoSweep \in SweepRow
  BY DEF NoSweep, SweepRow
<1>4. ASSUME NEW wants \in SUBSET Staged, Scans(wants) PROVE sweep' \in SweepRow
  <2>1. sweep' = [NoSweep EXCEPT !.at = "listing", !.wants = wants, !.listing = staged]
    BY <1>4 DEF Scans
  <2> QED BY <1>2, <1>3, <2>1 DEF SweepRow
<1>5. CASE AsksToClean
  <2>1. sweep' \in SweepRow /\ planned' = planned
    BY <1>4, <1>5 DEF AsksToClean, confirmations
  <2> QED BY <1>1, <1>2, <2>1, NoRowSound
<1>6. CASE PlansCleaning
  <2>1. planned'.objects \subseteq Staged
    BY <1>2, <1>6 DEF PlansCleaning
  <2> QED BY <1>1, <1>3, <1>6, <2>1, NoRowSound DEF PlansCleaning
<1>7. CASE CleaningStops
  BY <1>1, <1>2, <1>3, <1>7, NoRowSound DEF CleaningStops, confirmations
<1>8. CASE \E card \in cards : ConfirmsCleaning(card)
  <2>1. \/ planned' = NoPlan /\ Scans(planned.objects)
        \/ UNCHANGED <<planned, sweep>>
    BY <1>8 DEF ConfirmsCleaning
  <2>2. sweep' \in SweepRow /\ planned'.objects \subseteq Staged
    BY <1>2, <1>4, <2>1 DEF NoPlan
  <2> QED BY <1>1, <2>2, NoRowSound
<1>9. CASE CleaningBegins
  <2> DEFINE clear == {p \in sweep.listing : IsOrphan(p)}
  <2>1. sweep' = [sweep EXCEPT !.at = "next", !.cleared = clear] /\ planned' = planned
    BY <1>9 DEF CleaningBegins, confirmations
  <2>2. clear \in SUBSET Staged
    BY <1>2
  <2> HIDE DEF clear
  <2>3. sweep' \in SweepRow
    BY <1>2, <2>1, <2>2 DEF SweepRow
  <2> QED BY <1>1, <1>2, <2>1, <2>3, NoRowSound
<1>10. CASE CleansNext
  <2>1. ASSUME NEW p \in sweep.wants, NEW left, left = sweep.wants \ {p}
        PROVE  /\ [sweep EXCEPT !.wants = left, !.at = "removing", !.removes = p] \in SweepRow
               /\ [sweep EXCEPT !.wants = left] \in SweepRow
    <3>1. p \in Staged /\ left \in SUBSET Staged
      BY <1>2, <2>1
    <3> QED BY <1>2, <3>1 DEF SweepRow
  <2>2. \/ sweep' = NoSweep
        \/ \E p \in sweep.wants :
              \/ sweep' = [sweep EXCEPT !.wants = sweep.wants \ {p}, !.at = "removing", !.removes = p]
              \/ sweep' = [sweep EXCEPT !.wants = sweep.wants \ {p}]
    BY <1>2, <1>10 DEF CleansNext, SweepRow
  <2>3. sweep' \in SweepRow /\ planned' = planned
    BY <1>3, <1>10, <2>1, <2>2 DEF CleansNext, confirmations
  <2> QED BY <1>1, <1>2, <2>3, NoRowSound
<1>11. CASE CleansOne
  <2>1. sweep' \in SweepRow /\ planned' = planned
    BY <1>2, <1>11 DEF CleansOne, SweepRow, confirmations
  <2> QED BY <1>1, <1>2, <2>1, NoRowSound
<1> QED BY <1>5, <1>6, <1>7, <1>8, <1>9, <1>10, <1>11

LEMMA HandlersStep ==
    ASSUME ConsoleInv, HandlersSound, [ConsoleNext]_consoleVars
    PROVE  HandlersSound'
<1>1. ASSUME NEW t \in Jobs, AttemptStep(t) PROVE HandlersSound'
  BY <1>1, AttemptSound
<1>2. ASSUME NEW t \in Jobs, Command(t) PROVE HandlersSound'
  <2>1. CASE (\E rename \in BOOLEAN : AsksToRecover(t, rename)) \/ AsksToCancel(t)
    <3>1. UNCHANGED <<job, ending, sweep, planned>>
      BY <2>1 DEF AsksToRecover, AsksToCancel, handlers
    <3> QED BY <3>1, NoRowSound DEF HandlersSound
  <2>2. CASE CancelCommand(t)
    BY <2>2, CancelSound DEF CancelCommand, confirmations
  <2> QED BY <1>2, <2>1, <2>2, RetrySound DEF Command
<1>3. ASSUME NEW card \in cards, PressedCard(card) PROVE HandlersSound'
  <2>1. CASE ConfirmsRepair(card)
    BY <2>1, NoRowSound DEF ConfirmsRepair, confirmations, HandlersSound
  <2>2. CASE \E yes \in BOOLEAN : ConfirmsCancel(card, yes)
    <3>1. card.of \in Jobs /\ UNCHANGED <<sweep, planned>>
      BY <2>2 DEF ConfirmsCancel, ConsoleInv, Confirmable
    <3>2. CASE UNCHANGED <<job, ending>>
      BY <3>1, <3>2, NoRowSound DEF HandlersSound
    <3>3. CASE CancelsJob(card.of)
      BY <3>1, <3>3, CancelSound
    <3> QED BY <2>2, <3>2, <3>3 DEF ConfirmsCancel
  <2> QED BY <1>3, <2>1, <2>2, RecoverySound, CleaningSound DEF PressedCard
<1>4. CASE RetryAll
  BY <1>4, RetryAllSound
<1>5. CASE ShowsFailures
  BY <1>5, NoRowSound DEF ShowsFailures, handlers, confirmations, HandlersSound
<1>6. CASE AsksToClean
  BY <1>6, CleaningSound
<1>7. CASE Handled
  <2>1. CASE ReadsAgain \/ RepairStops
    BY <2>1, NoRowSound DEF ReadsAgain, RepairStops, confirmations, HandlersSound
  <2> QED BY <1>7, <2>1, EndingSound, RepairsSound, CleaningSound DEF Handled
<1>8. CASE UNCHANGED consoleVars
  BY <1>8, NoRowSound DEF consoleVars, HandlersSound
<1> QED BY <1>1, <1>2, <1>3, <1>4, <1>5, <1>6, <1>7, <1>8 DEF ConsoleNext

\* An object that a row records is of an attempt so far, and a task runs only while its row
\* says so, whatever is cancelled, retried or repaired (TaskConsole's rows).
LEMMA ConsoleTypes == ConsoleSpec => []ConsoleTypeOK
<1>1. ConsoleInit => HandlersSound
  <2> SUFFICES ASSUME ConsoleInit PROVE HandlersSound
    OBVIOUS
  <2>1. ASSUME NEW t \in Jobs PROVE Attempting(t) /\ ending[t] = "no"
    BY DEF ConsoleInit, Attempting
  <2> QED BY <2>1 DEF ConsoleInit, HandlersSound, NoSweep, NoPlan, SweepRow
<1>2. ConsoleInv /\ HandlersSound /\ [ConsoleNext]_consoleVars => HandlersSound'
  BY HandlersStep
<1>3. ConsoleInv /\ HandlersSound => ConsoleTypeOK
  <2> SUFFICES ASSUME ConsoleInv, HandlersSound PROVE ConsoleTypeOK
    OBVIOUS
  <2>1. ASSUME NEW t \in Jobs
        PROVE  /\ job[t].state \in {"queued", "active", "failed"} \cup EndedJob
               /\ job[t].gen \in Nat
               /\ job[t].temp \in {Untouched} \cup {StagingOf(t, g) : g \in 0 .. job[t].gen}
               /\ ending[t] \in {"no", "waiting", "removing"}
               /\ job[t].running => job[t].state = "active"
    <3>1. /\ job[t].state \in {"queued", "active", "failed"} \cup EndedJob /\ job[t].gen \in Nat
          /\ job[t].temp \in Staged \cup {Untouched}
      BY DEF ConsoleInv, JobRow
    <3>2. ASSUME job[t].temp # Untouched
          PROVE  job[t].temp \in {StagingOf(t, g) : g \in 0 .. job[t].gen}
      <4>1. job[t].temp \in Jobs \X Nat /\ job[t].temp[1] = t /\ job[t].temp[2] <= job[t].gen
        BY <3>1, <3>2 DEF ConsoleInv, Owned, Staged
      <4>2. job[t].temp = <<t, job[t].temp[2]>> /\ job[t].temp[2] \in 0 .. job[t].gen
        BY <3>1, <4>1
      <4> QED BY <4>2 DEF StagingOf
    <3> QED BY <3>1, <3>2 DEF HandlersSound, Attempting
  <2>2. ASSUME NEW p \in staged \cup retained PROVE p[1] \in Jobs
    BY DEF ConsoleInv, Numbered, Staged
  <2> QED BY <2>1, <2>2 DEF HandlersSound, SweepRow, ConsoleTypeOK
<1> QED BY <1>1, <1>2, <1>3, ConsoleInvariant, PTL DEF ConsoleSpec

-------------------------------------------------------------------------------
(* The administrator's cards *)

Config == [content : Contents \cup {"none"}, layout : Layouts \cup {"none"}]
FeedRow == [config : SourceConfig, revision : Nat, enabled : BOOLEAN, deleted : BOOLEAN,
            made : BOOLEAN, past : SUBSET SourceConfig]
OfferRow == [status : {"absent", "pending", "submitted", "ignored", "expired"}, revision : Nat,
             payload : Payload]
TemplateRow == [revision : Nat, content : Contents \cup {"none"}]
DraftRow == [id : Nat, version : Nat, of : Feeds \cup {Nobody}, revision : Nat,
             original : Config, config : Config]
Entry == [plan : Offers, revision : Nat, shown : Payload]
FeedOps == {"enable", "disable", "edit", "delete", "restore", "templates", "history", "make-folder",
            "restore-rule", "template-apply", "template-delete", "save-name", "history-commit"}
OfferOps == {"approve", "ignore", "rename", "directory", "batch", "choose-directory",
             "batch-approve", "batch-directory", "batch-set-directory"}
DraftOps == EditorOps \cup {"page"}
Page == [of : Feeds \cup Offers \cup {Nobody}, revision : Nat, shown : Config \cup Payload,
         wanted : Config, draft : Nat \X Nat, list : SUBSET Entry,
         left : SUBSET (FeedOps \cup OfferOps \cup DraftOps)]
Handling == [op : {"none", "enable", "restore-rule", "save", "add", "make-folder", "history",
                   "approve", "batch-approve", "recent"},
             at : {"idle", "chat", "folder", "newest", "scan", "check", "recent", "resolve", "replied"},
             on : Screens \cup {Nobody}, page : Page, seen : Nat]
Offering(page, ops) == page.left \cap ops # {}

\* What a page says of a source, of a plan, of the templates and of the draft
\* is still so if the version it carries is still the present one.
SourceTrue(page, f) ==
    Offering(page, FeedOps) =>
        /\ page.of \in Feeds /\ page.revision <= f[page.of].revision
        /\ page.revision = f[page.of].revision => page.shown = f[page.of].config
        /\ Offering(page, {"enable", "disable", "delete"}) => page.wanted = Blank
        /\ Offering(page, {"restore-rule"}) => page.wanted \in SourceConfig
        /\ Offering(page, {"history-commit"}) =>
              \A e \in page.list : FeedOf[e.plan] = page.of /\ e.shown.name = page.shown.content
EntryTrue(p, revision, shown, o) ==
    /\ o[p].status # "absent" /\ revision <= o[p].revision
    /\ revision = o[p].revision => shown = o[p].payload
OfferTrue(page, o) ==
    Offering(page, OfferOps) => page.of \in Offers /\ EntryTrue(page.of, page.revision, page.shown, o)
TemplateTrue(page, tm) ==
    Offering(page, {"template-apply"}) =>
        /\ page.wanted.layout = "none" /\ page.wanted.content # "none"
        /\ page.draft[2] <= tm.revision
        /\ page.draft[2] = tm.revision => page.wanted.content = tm.content
DraftTrue(page, d, n) ==
    Offering(page, DraftOps) =>
        /\ page.draft[1] # 0 /\ page.draft[1] <= n
        /\ page.draft[1] = d.id =>
              /\ page.draft[2] <= d.version
              /\ page.draft[2] = d.version =>
                    page.of = d.of /\ page.shown = d.original /\ page.wanted = d.config
PageTrue(page, f, o, tm, d, n) ==
    SourceTrue(page, f) /\ OfferTrue(page, o) /\ TemplateTrue(page, tm) /\ DraftTrue(page, d, n)

\* So with what a handler holds while it waits; before it enables a source, the folder was made.
HandlerTrue(h, f, o) ==
    /\ h.op \in MakesFolder \cup {"history"} => h.page.of \in Feeds
    /\ h.op = "enable" =>
          /\ h.page.revision <= f[h.page.of].revision /\ h.page.wanted = Blank
          /\ h.page.revision = f[h.page.of].revision =>
                /\ h.page.shown = f[h.page.of].config
                /\ h.at = "newest" /\ f[h.page.of].config.layout = "source_type" => f[h.page.of].made
    /\ h.op \in {"approve", "batch-approve"} =>
          \A e \in h.page.list : EntryTrue(e.plan, e.revision, e.shown, o)

DraftSound(d, f, n) ==
    d \in DraftRow /\ (d # NoDraft =>
        /\ d.of \in Feeds /\ d.id # 0 /\ d.id <= n /\ d.original \in SourceConfig
        /\ d.config \in SourceConfig /\ d.revision <= f[d.of].revision
        /\ d.revision = f[d.of].revision => d.original = f[d.of].config)
AnswerSound(a) == (a.op = "rename" => a.page.of \in Offers) /\ (a.op = "save-name" => a.page.of \in Feeds)
FoldersMade(f) == \A s \in Feeds : f[s].enabled /\ f[s].config.layout = "source_type" => f[s].made

StoresTyped == /\ feed \in [Feeds -> FeedRow] /\ offer \in [Offers -> OfferRow]
               /\ template \in TemplateRow /\ inputs \in Nat
CardsTrue == /\ screen \in [Screens -> Page]
             /\ \A m \in Screens : PageTrue(screen[m], feed, offer, template, draft, inputs)
HandlersTrue == /\ handler \in [Slots -> Handling]
                /\ \A k \in Slots : HandlerTrue(handler[k], feed, offer)
DialogueInv == /\ StoresTyped /\ FoldersMade(feed) /\ DraftSound(draft, feed, inputs) /\ AnswerSound(asked)
               /\ CardsTrue /\ HandlersTrue

\* How a step may change the stores: a version that stays tells of the same.
FeedMoves(f, g) ==
    /\ f \in [Feeds -> FeedRow] /\ g \in [Feeds -> FeedRow]
    /\ \A s \in Feeds :
          /\ f[s].revision <= g[s].revision /\ (f[s].made => g[s].made)
          /\ f[s].revision = g[s].revision => f[s].config = g[s].config
OfferMoves(o, u) ==
    /\ o \in [Offers -> OfferRow] /\ u \in [Offers -> OfferRow]
    /\ \A p \in Offers : o[p].status # "absent" =>
          /\ u[p].status # "absent" /\ o[p].revision <= u[p].revision
          /\ o[p].revision = u[p].revision => o[p].payload = u[p].payload
TemplateMoves(tm, um) ==
    /\ tm \in TemplateRow /\ um \in TemplateRow /\ tm.revision <= um.revision
    /\ tm.revision = um.revision => tm.content = um.content
DraftMoves(d, e, n, i) ==
    /\ d \in DraftRow /\ e \in DraftRow /\ n \in Nat /\ i \in Nat /\ n <= i
    /\ \/ e.id = 0 \/ e.id > n
       \/ e.id = d.id /\ d.version <= e.version /\ (d.version = e.version => d = e)

StoresMove ==
    /\ FeedMoves(feed, feed') /\ OfferMoves(offer, offer') /\ TemplateMoves(template, template')
    /\ DraftMoves(draft, draft', inputs, inputs')
    /\ FoldersMade(feed') /\ DraftSound(draft', feed', inputs') /\ AnswerSound(asked')

\* A page that is true before or after the step, and so after it.
PageHolds(page) ==
    /\ page \in Page
    /\ \/ PageTrue(page, feed, offer, template, draft, inputs)
       \/ PageTrue(page, feed', offer', template', draft', inputs')
HandlerHolds(h) == h \in Handling /\ (HandlerTrue(h, feed, offer) \/ HandlerTrue(h, feed', offer'))

-------------------------------------------------------------------------------
LEMMA PageStays ==
    ASSUME NEW page \in Page, NEW f, NEW g, NEW o, NEW u, NEW tm, NEW um, NEW d, NEW e, NEW n, NEW i,
           FeedMoves(f, g), OfferMoves(o, u), TemplateMoves(tm, um), DraftMoves(d, e, n, i),
           PageTrue(page, f, o, tm, d, n)
    PROVE  PageTrue(page, g, u, um, e, i)
<1>1. /\ page.revision \in Nat /\ page.draft[1] \in Nat /\ page.draft[2] \in Nat
  BY DEF Page
<1>2. ASSUME Offering(page, FeedOps)
      PROVE  /\ page.of \in Feeds /\ page.revision <= g[page.of].revision
             /\ page.revision = g[page.of].revision => page.shown = g[page.of].config
  <2>1. page.of \in Feeds /\ page.revision <= f[page.of].revision
        /\ (page.revision = f[page.of].revision => page.shown = f[page.of].config)
    BY <1>2 DEF PageTrue, SourceTrue
  <2>2. f[page.of].revision \in Nat /\ g[page.of].revision \in Nat
    BY <2>1 DEF FeedMoves, FeedRow
  <2>3. /\ f[page.of].revision <= g[page.of].revision
        /\ f[page.of].revision = g[page.of].revision => f[page.of].config = g[page.of].config
    BY <2>1 DEF FeedMoves
  <2>4. page.revision <= g[page.of].revision
    BY <1>1, <2>1, <2>2, <2>3
  <2>5. page.revision = g[page.of].revision => page.revision = f[page.of].revision
    BY <1>1, <2>1, <2>2, <2>3
  <2> QED BY <2>1, <2>3, <2>4, <2>5
<1>3. SourceTrue(page, g)
  BY <1>2 DEF PageTrue, SourceTrue
<1>4. OfferTrue(page, u)
  <2> SUFFICES ASSUME Offering(page, OfferOps)
               PROVE  page.of \in Offers /\ EntryTrue(page.of, page.revision, page.shown, u)
    BY DEF OfferTrue
  <2>1. page.of \in Offers /\ EntryTrue(page.of, page.revision, page.shown, o)
    BY DEF PageTrue, OfferTrue
  <2>2. o[page.of].revision \in Nat /\ u[page.of].revision \in Nat
    BY <2>1 DEF OfferMoves, OfferRow
  <2> QED BY <1>1, <2>1, <2>2 DEF OfferMoves, EntryTrue
<1>5. TemplateTrue(page, um)
  <2>1. tm.revision \in Nat /\ um.revision \in Nat
    BY DEF TemplateMoves, TemplateRow
  <2> QED BY <1>1, <2>1 DEF TemplateMoves, PageTrue, TemplateTrue
<1>6. DraftTrue(page, e, i)
  <2>1. d.version \in Nat /\ e.version \in Nat /\ e.id \in Nat /\ d.id \in Nat /\ n \in Nat /\ i \in Nat
        /\ n <= i
    BY DEF DraftMoves, DraftRow
  <2>2. \/ e.id = 0 \/ e.id > n
        \/ e.id = d.id /\ d.version <= e.version /\ (d.version = e.version => d = e)
    BY DEF DraftMoves
  <2> QED BY <1>1, <2>1, <2>2 DEF PageTrue, DraftTrue
<1> QED BY <1>3, <1>4, <1>5, <1>6 DEF PageTrue

LEMMA HandlerStays ==
    ASSUME NEW h \in Handling, NEW f, NEW g, NEW o, NEW u, FeedMoves(f, g), OfferMoves(o, u),
           HandlerTrue(h, f, o)
    PROVE  HandlerTrue(h, g, u)
<1> DEFINE s == h.page.of
<1>1. h.page \in Page
  BY DEF Handling
<1>2. h.page.revision \in Nat /\ \A e \in h.page.list : e.plan \in Offers /\ e.revision \in Nat
  BY <1>1 DEF Page, Entry
<1>3. ASSUME h.op = "enable"
      PROVE  /\ h.page.revision <= g[s].revision /\ h.page.wanted = Blank
             /\ h.page.revision = g[s].revision =>
                   /\ h.page.shown = g[s].config
                   /\ h.at = "newest" /\ g[s].config.layout = "source_type" => g[s].made
  <2>1. s \in Feeds
    BY <1>3 DEF HandlerTrue, MakesFolder
  <2>2. f[s].revision \in Nat /\ g[s].revision \in Nat
    BY <2>1 DEF FeedMoves, FeedRow
  <2>3. /\ f[s].revision <= g[s].revision /\ (f[s].made => g[s].made)
        /\ f[s].revision = g[s].revision => f[s].config = g[s].config
    BY <2>1 DEF FeedMoves
  <2>4. /\ h.page.revision <= f[s].revision /\ h.page.wanted = Blank
        /\ h.page.revision = f[s].revision =>
              /\ h.page.shown = f[s].config
              /\ h.at = "newest" /\ f[s].config.layout = "source_type" => f[s].made
    BY <1>3 DEF HandlerTrue
  <2>5. h.page.revision <= g[s].revision
    BY <1>2, <2>2, <2>3, <2>4
  <2>6. ASSUME h.page.revision = g[s].revision
        PROVE  h.page.revision = f[s].revision /\ f[s].revision = g[s].revision
    BY <1>2, <2>2, <2>3, <2>4, <2>6
  <2> QED BY <2>3, <2>4, <2>5, <2>6
<1>4. ASSUME h.op \in {"approve", "batch-approve"}, NEW e \in h.page.list
      PROVE  EntryTrue(e.plan, e.revision, e.shown, u)
  <2>1. e.plan \in Offers /\ e.revision \in Nat /\ EntryTrue(e.plan, e.revision, e.shown, o)
    BY <1>2, <1>4 DEF HandlerTrue
  <2>2. o[e.plan].revision \in Nat /\ u[e.plan].revision \in Nat
    BY <2>1 DEF OfferMoves, OfferRow
  <2> QED BY <2>1, <2>2 DEF OfferMoves, EntryTrue
<1> QED BY <1>3, <1>4 DEF HandlerTrue

LEMMA CardsKept ==
    ASSUME DialogueInv, StoresMove, screen' \in [Screens -> Page], handler' \in [Slots -> Handling],
           \A m \in Screens : PageHolds(screen'[m]), \A k \in Slots : HandlerHolds(handler'[k])
    PROVE  DialogueInv'
<1>1. StoresTyped'
  BY DEF StoresMove, FeedMoves, OfferMoves, TemplateMoves, DraftMoves, StoresTyped
<1>2. ASSUME NEW m \in Screens
      PROVE  PageTrue(screen'[m], feed', offer', template', draft', inputs')
  BY PageStays DEF PageHolds, StoresMove
<1>3. ASSUME NEW k \in Slots PROVE HandlerTrue(handler'[k], feed', offer')
  BY HandlerStays DEF HandlerHolds, StoresMove
<1>4. CardsTrue' /\ HandlersTrue'
  BY <1>2, <1>3 DEF CardsTrue, HandlersTrue
<1> QED BY <1>1, <1>4 DEF DialogueInv, StoresMove


-------------------------------------------------------------------------------
(* Where pages go *)

LEMMA NoPageHolds == PageHolds(NoPage)
<1>1. NoPage \in Page
  BY DEF NoPage, Page, Blank, Config
<1> QED BY <1>1 DEF PageHolds, PageTrue, SourceTrue, OfferTrue, TemplateTrue, DraftTrue, Offering, NoPage

LEMMA NoHandlerHolds == HandlerHolds(NoHandler)
<1>1. NoPage \in Page
  BY NoPageHolds DEF PageHolds
<1>2. NoHandler \in Handling
  BY <1>1 DEF NoHandler, Handling
<1>3. NoHandler.op = "none"
  BY DEF NoHandler
<1> QED BY <1>2, <1>3 DEF HandlerHolds, HandlerTrue, MakesFolder

LEMMA WhatStaysHolds ==
    ASSUME DialogueInv
    PROVE  /\ \A m \in Screens : PageHolds(screen[m])
           /\ \A k \in Slots : HandlerHolds(handler[k])
BY DEF DialogueInv, CardsTrue, HandlersTrue, PageHolds, HandlerHolds

\* A page that has lost a button.
LEMMA PageShrinks ==
    ASSUME NEW page \in Page, NEW op, PageTrue(page, feed, offer, template, draft, inputs)
    PROVE  PageHolds([page EXCEPT !.left = @ \ {op}])
<1> DEFINE less == [page EXCEPT !.left = @ \ {op}]
<1>1. less \in Page
  BY DEF Page
<1>2. /\ less.of = page.of /\ less.revision = page.revision /\ less.shown = page.shown
      /\ less.wanted = page.wanted /\ less.draft = page.draft /\ less.list = page.list
      /\ less.left \subseteq page.left
  BY DEF Page
<1> HIDE DEF less
<1>3. \A ops : Offering(less, ops) => Offering(page, ops)
  BY <1>2 DEF Offering
<1>4. SourceTrue(less, feed) /\ OfferTrue(less, offer)
  BY <1>2, <1>3 DEF PageTrue, SourceTrue, OfferTrue
<1>5. TemplateTrue(less, template) /\ DraftTrue(less, draft, inputs)
  BY <1>2, <1>3 DEF PageTrue, TemplateTrue, DraftTrue
<1>6. PageHolds(less)
  BY <1>1, <1>4, <1>5 DEF PageHolds, PageTrue
<1> QED BY <1>6 DEF less

LEMMA ShowsKept ==
    ASSUME DialogueInv, StoresMove, NEW m, NEW page, PageHolds(page), Shows(m, page)
    PROVE  DialogueInv'
<1>1. screen \in [Screens -> Page] /\ page \in Page
  BY DEF DialogueInv, CardsTrue, PageHolds
<1>2. screen' \in [Screens -> Page] /\ \A n \in Screens : screen'[n] \in {screen[n], page}
  BY <1>1 DEF Shows
<1>3. handler' = handler /\ handler' \in [Slots -> Handling]
  BY DEF Shows, DialogueInv, HandlersTrue
<1> QED BY <1>2, <1>3, WhatStaysHolds, CardsKept

LEMMA EndsOnKept ==
    ASSUME DialogueInv, StoresMove, NEW k, NEW page, PageHolds(page), EndsOn(k, page)
    PROVE  DialogueInv'
<1>1. screen \in [Screens -> Page] /\ page \in Page /\ handler \in [Slots -> Handling]
  BY DEF DialogueInv, CardsTrue, HandlersTrue, PageHolds
<1>2. screen' \in [Screens -> Page] /\ \A n \in Screens : screen'[n] \in {screen[n], page}
  BY <1>1 DEF EndsOn
<1>3. NoHandler \in Handling
  BY NoHandlerHolds DEF HandlerHolds
<1>4. handler' \in [Slots -> Handling] /\ \A j \in Slots : handler'[j] \in {handler[j], NoHandler}
  BY <1>1, <1>3 DEF EndsOn
<1> QED BY <1>2, <1>4, WhatStaysHolds, NoHandlerHolds, CardsKept

LEMMA WaitsKept ==
    ASSUME DialogueInv, StoresMove, NEW m \in Screens, NEW op, NEW at, NEW page, NEW seen,
           HandlerHolds([op |-> op, at |-> at, on |-> m, page |-> page, seen |-> seen]),
           Waits(m, op, at, page, seen)
    PROVE  DialogueInv'
<1> DEFINE h == [op |-> op, at |-> at, on |-> m, page |-> page, seen |-> seen]
           less == [screen[m] EXCEPT !.left = @ \ {op}]
<1>1. screen \in [Screens -> Page] /\ handler \in [Slots -> Handling] /\ h \in Handling
  BY DEF DialogueInv, CardsTrue, HandlersTrue, HandlerHolds
<1>2. PageHolds(less)
  BY <1>1, PageShrinks DEF DialogueInv, CardsTrue
<1>3. \E k \in Slots : handler' = [handler EXCEPT ![k] = h]
  BY DEF Waits
<1>4. screen' = [screen EXCEPT ![m] = less]
  BY DEF Waits
<1>5. less \in Page
  BY <1>2 DEF PageHolds
<1>6. HandlerHolds(h)
  OBVIOUS
<1> HIDE DEF h, less
<1>7. screen' \in [Screens -> Page] /\ \A n \in Screens : screen'[n] \in {screen[n], less}
  BY <1>1, <1>4, <1>5
<1>8. handler' \in [Slots -> Handling] /\ \A j \in Slots : handler'[j] \in {handler[j], h}
  BY <1>1, <1>3
<1> QED BY <1>2, <1>6, <1>7, <1>8, WhatStaysHolds, CardsKept

LEMMA MovesToKept ==
    ASSUME DialogueInv, StoresMove, NEW k \in Slots, NEW at, NEW seen,
           HandlerHolds([handler[k] EXCEPT !.at = at, !.seen = seen]), MovesTo(k, at, seen)
    PROVE  DialogueInv'
<1> DEFINE h == [handler[k] EXCEPT !.at = at, !.seen = seen]
<1>1. screen \in [Screens -> Page] /\ handler \in [Slots -> Handling] /\ h \in Handling
  BY DEF DialogueInv, CardsTrue, HandlersTrue, HandlerHolds
<1>2. handler' = [handler EXCEPT ![k] = h] /\ screen' = screen
  BY <1>1 DEF MovesTo, Handling
<1>3. HandlerHolds(h)
  OBVIOUS
<1> HIDE DEF h
<1>4. handler' \in [Slots -> Handling] /\ \A j \in Slots : handler'[j] \in {handler[j], h}
  BY <1>1, <1>2
<1> QED BY <1>1, <1>2, <1>3, <1>4, WhatStaysHolds, CardsKept


\* A source's page and what is made of it: its history, its templates, an earlier version.
LEMMA SourcePagesHold ==
    ASSUME NEW s \in Feeds, NEW page \in Page, page.of = s, page.revision = feed'[s].revision,
           page.shown = feed'[s].config, page.left \subseteq FeedOps, feed' \in [Feeds -> FeedRow],
           Offering(page, {"enable", "disable", "delete"}) => page.wanted = Blank,
           Offering(page, {"restore-rule"}) => page.wanted \in SourceConfig,
           Offering(page, {"history-commit"}) =>
              \A e \in page.list : FeedOf[e.plan] = s /\ e.shown.name = page.shown.content,
           Offering(page, {"template-apply"}) =>
              /\ page.wanted.layout = "none" /\ page.wanted.content # "none"
              /\ page.draft[2] = template'.revision /\ page.wanted.content = template'.content
    PROVE  PageHolds(page)
<1>1. page.revision \in Nat /\ page.draft[2] \in Nat
  BY DEF Page
<1>2. page.revision <= feed'[s].revision
  BY <1>1
<1>3. SourceTrue(page, feed')
  BY <1>2 DEF SourceTrue
<1>4. OfferTrue(page, offer') /\ DraftTrue(page, draft', inputs')
  BY DEF OfferTrue, DraftTrue, Offering, FeedOps, OfferOps, DraftOps, EditorOps
<1>5. TemplateTrue(page, template')
  BY <1>1 DEF TemplateTrue
<1> QED BY <1>3, <1>4, <1>5 DEF PageHolds, PageTrue

\* The cards as they are drawn, of a source and of a plan.
LEMMA SourceCardTrue ==
    ASSUME NEW f \in [Feeds -> FeedRow], NEW s \in Feeds, NEW o, NEW tm, NEW d, NEW n
    PROVE  /\ SourceCard(s, f[s]) \in Page /\ PageTrue(SourceCard(s, f[s]), f, o, tm, d, n)
           /\ SourceCard(s, f[s]).of = s
           /\ SourceCard(s, f[s]).revision = f[s].revision /\ SourceCard(s, f[s]).shown = f[s].config
           /\ SourceCard(s, f[s]).wanted = Blank /\ SourceCard(s, f[s]).list = {}
<1> DEFINE page == SourceCard(s, f[s])
           ops == {IF f[s].enabled THEN "disable" ELSE "enable",
                   "edit", "delete", "restore", "templates", "history"}
                  \cup IF f[s].config.layout = "source_type" /\ ~f[s].enabled
                       THEN {"make-folder"} ELSE {}
<1>1. ops \subseteq FeedOps
  BY DEF FeedOps
<1>2. page = [NoPage EXCEPT !.of = s, !.revision = f[s].revision, !.shown = f[s].config,
                            !.left = ops]
  BY DEF SourceCard
<1> HIDE DEF ops
<1>3. /\ page.of = s /\ page.revision = f[s].revision /\ page.shown = f[s].config
      /\ page.wanted = Blank /\ page.list = {} /\ page.left = ops /\ page.draft = <<0, 0>>
  BY <1>2 DEF NoPage
<1>4. page = [of |-> page.of, revision |-> page.revision, shown |-> page.shown,
              wanted |-> page.wanted, draft |-> page.draft, list |-> page.list, left |-> page.left]
  BY <1>2 DEF NoPage
<1>5. f[s].revision \in Nat /\ f[s].config \in Config
  BY DEF FeedRow, SourceConfig, Config
<1> HIDE DEF page
<1>6. page \in Page
  BY <1>1, <1>3, <1>4, <1>5 DEF Page, Blank, Config
<1>7. ~ Offering(page, {"restore-rule"}) /\ ~ Offering(page, {"history-commit"})
      /\ ~ Offering(page, {"template-apply"})
  BY <1>3 DEF Offering, ops
<1>8. page.revision <= f[s].revision
  BY <1>3, <1>5
<1>9. SourceTrue(page, f) /\ TemplateTrue(page, tm)
  BY <1>3, <1>7, <1>8 DEF SourceTrue, TemplateTrue
<1>10. OfferTrue(page, o) /\ DraftTrue(page, d, n)
  BY <1>1, <1>3 DEF OfferTrue, DraftTrue, Offering, FeedOps, OfferOps, DraftOps, EditorOps
<1> QED BY <1>3, <1>6, <1>9, <1>10 DEF page, PageTrue

LEMMA SourcePageHolds ==
    ASSUME NEW s \in Feeds, feed' \in [Feeds -> FeedRow]
    PROVE  /\ PageHolds(SourcePage(s)) /\ SourcePage(s).of = s
           /\ SourcePage(s).revision = feed'[s].revision /\ SourcePage(s).shown = feed'[s].config
           /\ SourcePage(s).wanted = Blank /\ SourcePage(s).list = {}
BY SourceCardTrue DEF SourcePage, PageHolds

LEMMA OfferCardTrue ==
    ASSUME NEW o \in [Offers -> OfferRow], NEW p \in Offers, NEW f, NEW tm, NEW d, NEW n
    PROVE  OfferCard(p, o[p]) \in Page /\ PageTrue(OfferCard(p, o[p]), f, o, tm, d, n)
<1> DEFINE page == OfferCard(p, o[p])
           ops == IF o[p].status = "pending"
                  THEN {"approve", "ignore", "rename", "directory", "batch"} ELSE {}
<1>1. ops \subseteq OfferOps /\ (ops # {} => o[p].status # "absent")
  BY DEF OfferOps
<1>2. page = [NoPage EXCEPT !.of = p, !.revision = o[p].revision, !.shown = o[p].payload,
                            !.left = ops]
  BY DEF OfferCard
<1> HIDE DEF ops
<1>3. /\ page.of = p /\ page.revision = o[p].revision /\ page.shown = o[p].payload
      /\ page.wanted = Blank /\ page.list = {} /\ page.left = ops /\ page.draft = <<0, 0>>
  BY <1>2 DEF NoPage
<1>4. page = [of |-> page.of, revision |-> page.revision, shown |-> page.shown,
              wanted |-> page.wanted, draft |-> page.draft, list |-> page.list, left |-> page.left]
  BY <1>2 DEF NoPage
<1>5. o[p].revision \in Nat /\ o[p].payload \in Payload
  BY DEF OfferRow
<1> HIDE DEF page
<1>6. page \in Page
  BY <1>1, <1>3, <1>4, <1>5 DEF Page, Blank, Config
<1>7. SourceTrue(page, f) /\ TemplateTrue(page, tm) /\ DraftTrue(page, d, n)
  BY <1>1, <1>3 DEF SourceTrue, TemplateTrue, DraftTrue, Offering, FeedOps, OfferOps, DraftOps, EditorOps
<1>8. OfferTrue(page, o)
  BY <1>1, <1>3, <1>5 DEF OfferTrue, Offering, EntryTrue
<1> QED BY <1>6, <1>7, <1>8 DEF page, PageTrue

LEMMA OfferPageHolds ==
    ASSUME NEW p \in Offers, offer' \in [Offers -> OfferRow]
    PROVE  PageHolds(OfferPage(p))
BY OfferCardTrue DEF OfferPage, PageHolds

LEMMA DraftPageHolds ==
    ASSUME draft' # NoDraft, DraftSound(draft', feed', inputs'), NEW ops \in SUBSET DraftOps
    PROVE  PageHolds(DraftPage(ops))
<1> DEFINE page == DraftPage(ops)
<1>1. page = [NoPage EXCEPT !.of = draft'.of, !.revision = draft'.revision, !.shown = draft'.original,
                   !.wanted = draft'.config, !.draft = <<draft'.id, draft'.version>>, !.left = ops]
  BY DEF DraftPage
<1>2. /\ page.of = draft'.of /\ page.revision = draft'.revision /\ page.shown = draft'.original
      /\ page.wanted = draft'.config /\ page.list = {} /\ page.left = ops
      /\ page.draft = <<draft'.id, draft'.version>>
  BY <1>1 DEF NoPage
<1>3. page = [of |-> page.of, revision |-> page.revision, shown |-> page.shown,
              wanted |-> page.wanted, draft |-> page.draft, list |-> page.list, left |-> page.left]
  BY <1>1 DEF NoPage
<1>4. /\ draft'.id \in Nat /\ draft'.version \in Nat /\ draft'.of \in Feeds /\ draft'.revision \in Nat
      /\ draft'.original \in Config /\ draft'.config \in Config /\ draft'.id # 0 /\ draft'.id <= inputs'
  BY DEF DraftSound, DraftRow
<1> HIDE DEF page
<1>5. page \in Page
  BY <1>2, <1>3, <1>4 DEF Page
<1>6. SourceTrue(page, feed') /\ TemplateTrue(page, template') /\ OfferTrue(page, offer')
  BY <1>2 DEF SourceTrue, TemplateTrue, OfferTrue, Offering, FeedOps, OfferOps, DraftOps, EditorOps
<1>7. DraftTrue(page, draft', inputs')
  BY <1>2, <1>4 DEF DraftTrue
<1>8. PageHolds(page)
  BY <1>5, <1>6, <1>7 DEF PageHolds, PageTrue
<1> QED BY <1>8 DEF page

LEMMA SorryHolds ==
    ASSUME DraftSound(draft', feed', inputs'), NEW page
    PROVE  PageHolds(Sorry(page))
<1>1. {"page"} \in SUBSET DraftOps
  BY DEF DraftOps
<1> QED BY <1>1, NoPageHolds, DraftPageHolds DEF Sorry

-------------------------------------------------------------------------------
(* What steps do to the stores *)

LEMMA FeedStill ==
    ASSUME DialogueInv, feed' = feed
    PROVE  FeedMoves(feed, feed') /\ FoldersMade(feed') /\ feed' \in [Feeds -> FeedRow]
<1>1. \A s \in Feeds : feed[s].revision \in Nat
  BY DEF DialogueInv, StoresTyped, FeedRow
<1> QED BY <1>1 DEF DialogueInv, StoresTyped, FeedMoves

LEMMA OfferStill ==
    ASSUME DialogueInv, offer' = offer
    PROVE  OfferMoves(offer, offer') /\ offer' \in [Offers -> OfferRow]
<1>1. \A p \in Offers : offer[p].revision \in Nat
  BY DEF DialogueInv, StoresTyped, OfferRow
<1> QED BY <1>1 DEF DialogueInv, StoresTyped, OfferMoves

LEMMA TemplateStill == ASSUME DialogueInv, template' = template PROVE TemplateMoves(template, template')
<1>1. template.revision \in Nat
  BY DEF DialogueInv, StoresTyped, TemplateRow
<1> QED BY <1>1 DEF DialogueInv, StoresTyped, TemplateMoves

LEMMA DraftStill ==
    ASSUME DialogueInv, FeedMoves(feed, feed'), draft' \in {draft, NoDraft},
           inputs' \in {inputs, inputs + 1}
    PROVE  DraftMoves(draft, draft', inputs, inputs') /\ DraftSound(draft', feed', inputs')
<1>1. inputs \in Nat /\ inputs' \in Nat /\ inputs <= inputs'
  BY DEF DialogueInv, StoresTyped
<1>2. NoDraft \in DraftRow /\ NoDraft.id = 0
  BY DEF NoDraft, DraftRow, Blank, Config
<1>3. draft \in DraftRow /\ draft.version \in Nat /\ draft.id \in Nat /\ draft.revision \in Nat
  BY DEF DialogueInv, DraftSound, DraftRow
<1>4. DraftMoves(draft, draft', inputs, inputs')
  BY <1>1, <1>2, <1>3 DEF DraftMoves
<1>5. ASSUME draft' = draft, draft # NoDraft
      PROVE  /\ draft.of \in Feeds /\ draft.id # 0 /\ draft.id <= inputs'
             /\ draft.original \in SourceConfig /\ draft.config \in SourceConfig
             /\ draft.revision <= feed'[draft.of].revision
             /\ draft.revision = feed'[draft.of].revision => draft.original = feed'[draft.of].config
  <2>1. /\ draft.of \in Feeds /\ draft.id # 0 /\ draft.id <= inputs /\ draft.original \in SourceConfig
        /\ draft.config \in SourceConfig /\ draft.revision <= feed[draft.of].revision
        /\ draft.revision = feed[draft.of].revision => draft.original = feed[draft.of].config
    BY <1>5 DEF DialogueInv, DraftSound
  <2>2. feed[draft.of].revision \in Nat /\ feed'[draft.of].revision \in Nat
    BY <2>1 DEF FeedMoves, FeedRow
  <2>3. /\ feed[draft.of].revision <= feed'[draft.of].revision
        /\ feed[draft.of].revision = feed'[draft.of].revision =>
              feed[draft.of].config = feed'[draft.of].config
    BY <2>1 DEF FeedMoves
  <2>4. draft.id <= inputs' /\ draft.revision <= feed'[draft.of].revision
    BY <1>1, <1>3, <2>1, <2>2, <2>3
  <2>5. draft.revision = feed'[draft.of].revision => draft.revision = feed[draft.of].revision
    BY <1>3, <2>1, <2>2, <2>3
  <2> QED BY <2>1, <2>3, <2>4, <2>5
<1>6. DraftSound(draft', feed', inputs')
  BY <1>2, <1>3, <1>5 DEF DraftSound
<1> QED BY <1>4, <1>6

\* The record of a source is written, with a new revision, and what was held is kept.
LEMMA ChangedEffect ==
    ASSUME DialogueInv, NEW s \in Feeds, NEW config \in SourceConfig, NEW enabled \in BOOLEAN,
           NEW deleted \in BOOLEAN,
           enabled /\ feed[s].config.layout = "source_type" => feed[s].made,
           feed' = [feed EXCEPT ![s] = Changed(s, config, enabled, deleted)]
    PROVE  /\ FeedMoves(feed, feed') /\ FoldersMade(feed') /\ feed' \in [Feeds -> FeedRow]
           /\ feed'[s].config = config /\ feed'[s].revision = feed[s].revision + 1
           /\ \A r \in Feeds : r # s => feed'[r] = feed[r]
<1> DEFINE pause == StaysEnabled(feed[s], config, enabled) /\ ~deleted
           past == feed[s].past \cup {feed[s].config}
           q == [feed[s] EXCEPT !.config = config, !.revision = @ + 1, !.enabled = pause,
                                !.deleted = deleted, !.past = past]
<1>1. feed \in [Feeds -> FeedRow] /\ feed[s] \in FeedRow /\ feed[s].revision \in Nat
  BY DEF DialogueInv, StoresTyped, FeedRow
<1>2. q = Changed(s, config, enabled, deleted)
  BY <1>1 DEF Changed, FeedRow
<1>3. past \in SUBSET SourceConfig /\ pause \in BOOLEAN /\ feed[s].revision + 1 \in Nat
  BY <1>1 DEF FeedRow, StaysEnabled
<1>4. pause => enabled /\ config.layout = feed[s].config.layout
  BY DEF StaysEnabled
<1> HIDE DEF pause, past
<1>5. q \in FeedRow
  BY <1>1, <1>3 DEF FeedRow
<1>6. /\ q.config = config /\ q.revision = feed[s].revision + 1 /\ q.enabled = pause
      /\ q.made = feed[s].made
  BY <1>1 DEF FeedRow
<1>7. feed' = [feed EXCEPT ![s] = q]
  BY <1>2
<1> HIDE DEF q
<1>8. feed' \in [Feeds -> FeedRow] /\ feed'[s] = q /\ \A r \in Feeds : r # s => feed'[r] = feed[r]
  BY <1>1, <1>5, <1>7
<1>9. FoldersMade(feed')
  BY <1>4, <1>6, <1>8 DEF FoldersMade, DialogueInv
<1>10. ASSUME NEW r \in Feeds
       PROVE  /\ feed[r].revision <= feed'[r].revision /\ (feed[r].made => feed'[r].made)
              /\ feed[r].revision = feed'[r].revision => feed[r].config = feed'[r].config
  <2>1. feed[r].revision \in Nat
    BY <1>1 DEF FeedRow
  <2> QED BY <1>1, <1>6, <1>8, <2>1
<1>11. FeedMoves(feed, feed')
  BY <1>1, <1>8, <1>10 DEF FeedMoves
<1> QED BY <1>6, <1>8, <1>9, <1>11


\* A source's folder or its right to receive is noted, under the revision it has.
LEMMA NotedEffect ==
    ASSUME DialogueInv, NEW s \in Feeds, NEW made \in BOOLEAN, NEW enabled \in BOOLEAN,
           feed[s].made => made, enabled => feed[s].enabled,
           feed' = [feed EXCEPT ![s] = [feed[s] EXCEPT !.made = made, !.enabled = enabled]]
    PROVE  /\ FeedMoves(feed, feed') /\ FoldersMade(feed') /\ feed' \in [Feeds -> FeedRow]
           /\ feed'[s].made = made /\ feed'[s].config = feed[s].config
           /\ \A r \in Feeds : feed'[r].revision = feed[r].revision
<1> DEFINE q == [feed[s] EXCEPT !.made = made, !.enabled = enabled]
<1>1. feed \in [Feeds -> FeedRow] /\ feed[s] \in FeedRow
  BY DEF DialogueInv, StoresTyped
<1>2. /\ q \in FeedRow /\ q.made = made /\ q.enabled = enabled /\ q.config = feed[s].config
      /\ q.revision = feed[s].revision
  BY <1>1 DEF FeedRow
<1>3. feed' = [feed EXCEPT ![s] = q]
  OBVIOUS
<1> HIDE DEF q
<1>4. feed' \in [Feeds -> FeedRow] /\ feed'[s] = q /\ \A r \in Feeds : r # s => feed'[r] = feed[r]
  BY <1>1, <1>2, <1>3
<1>5. FoldersMade(feed')
  BY <1>2, <1>4 DEF FoldersMade, DialogueInv
<1>6. ASSUME NEW r \in Feeds
      PROVE  /\ feed[r].revision <= feed'[r].revision /\ (feed[r].made => feed'[r].made)
             /\ feed'[r].revision = feed[r].revision /\ feed[r].config = feed'[r].config
  <2>1. feed[r].revision \in Nat
    BY <1>1 DEF FeedRow
  <2> QED BY <1>2, <1>4, <2>1
<1>7. FeedMoves(feed, feed')
  BY <1>1, <1>4, <1>6 DEF FeedMoves
<1> QED BY <1>2, <1>4, <1>5, <1>6, <1>7

LEMMA EditedTypes ==
    ASSUME DialogueInv, NEW p \in Offers, NEW payload \in Payload,
           NEW status \in {"pending", "submitted", "ignored", "expired"}
    PROVE  /\ Edited(p, payload, status) \in OfferRow
           /\ Edited(p, payload, status).status = status
           /\ Edited(p, payload, status).revision = offer[p].revision + 1
           /\ Edited(p, payload, status).payload = payload
           /\ offer[p] \in OfferRow /\ offer[p].revision \in Nat /\ offer[p].payload \in Payload
<1>1. offer[p] \in OfferRow /\ offer[p].revision \in Nat /\ offer[p].payload \in Payload
  BY DEF DialogueInv, StoresTyped, OfferRow
<1>2. offer[p].revision + 1 \in Nat
  BY <1>1
<1> QED BY <1>1, <1>2 DEF Edited, OfferRow

\* Plans are registered, or edited under a new revision.
LEMMA OffersMove ==
    ASSUME DialogueInv, DOMAIN offer' = Offers, offer' = [p \in Offers |-> offer'[p]],
           \A p \in Offers :
              \/ offer'[p] = offer[p]
              \/ offer[p].status = "absent" /\ offer'[p] \in OfferRow
              \/ \E payload \in Payload, status \in {"pending", "submitted", "ignored", "expired"} :
                    offer'[p] = Edited(p, payload, status)
    PROVE  OfferMoves(offer, offer') /\ offer' \in [Offers -> OfferRow]
<1>1. offer \in [Offers -> OfferRow]
  BY DEF DialogueInv, StoresTyped
<1>2. ASSUME NEW p \in Offers
      PROVE  /\ offer'[p] \in OfferRow
             /\ offer[p].status # "absent" =>
                   /\ offer'[p].status # "absent" /\ offer[p].revision <= offer'[p].revision
                   /\ offer[p].revision = offer'[p].revision => offer[p].payload = offer'[p].payload
  <2>1. offer[p] \in OfferRow /\ offer[p].revision \in Nat
    BY <1>1 DEF OfferRow
  <2>2. CASE offer'[p] = offer[p]
    BY <2>1, <2>2
  <2>3. CASE offer[p].status = "absent" /\ offer'[p] \in OfferRow
    BY <2>3
  <2>4. CASE \E payload \in Payload, status \in {"pending", "submitted", "ignored", "expired"} :
                offer'[p] = Edited(p, payload, status)
    <3>1. PICK payload \in Payload, status \in {"pending", "submitted", "ignored", "expired"} :
                 offer'[p] = Edited(p, payload, status)
      BY <2>4
    <3>2. offer'[p] \in OfferRow /\ offer'[p].status = status
          /\ offer'[p].revision = offer[p].revision + 1
      BY <3>1, EditedTypes
    <3> QED BY <2>1, <3>2
  <2> QED BY <2>2, <2>3, <2>4
<1>3. offer' \in [Offers -> OfferRow]
  BY <1>2
<1> QED BY <1>1, <1>2, <1>3 DEF OfferMoves

-------------------------------------------------------------------------------
(* What steps act on *)

Acting == {handler[k].page : k \in {j \in Slots : handler'[j] # handler[j]}}
          \cup {screen[m] : m \in {n \in Screens : screen'[n] # screen[n]}}
ActsShown ==
    /\ \A s \in Feeds : feed'[s].revision # feed[s].revision /\ ~feed[s].deleted =>
          \E page \in Acting :
             page.of = s /\ page.shown = feed[s].config /\ feed'[s].config = Outcome(page)
    /\ \A p \in Offers : offer'[p].status = "submitted" /\ offer[p].status # "submitted" =>
          \E page \in Acting : \E e \in page.list : e.plan = p /\ e.shown = offer[p].payload
    /\ \A p \in Offers : offer'[p].status = "pending" /\ offer[p].status = "absent" =>
          offer'[p].payload.name = feed[FeedOf[p]].config.content
OffersQuiet ==
    \A p \in Offers : /\ offer'[p].status = "submitted" => offer[p].status = "submitted"
                      /\ offer'[p].status = "pending" => offer[p].status # "absent"
DialogueKept == DialogueInv' /\ ActsShown

LEMMA NothingActs ==
    ASSUME OffersQuiet, \A s \in Feeds : feed'[s].revision = feed[s].revision \/ feed[s].deleted
    PROVE  ActsShown
BY DEF ActsShown, OffersQuiet

LEMMA OneActs ==
    ASSUME OffersQuiet, NEW s \in Feeds, \A r \in Feeds : r # s => feed'[r] = feed[r],
           NEW page \in Acting, page.of = s, page.shown = feed[s].config,
           feed'[s].config = Outcome(page)
    PROVE  ActsShown
BY DEF ActsShown, OffersQuiet

LEMMA QuietOffers == ASSUME DialogueInv, offer' = offer PROVE OffersQuiet
BY DEF OffersQuiet

\* Nothing is written.
LEMMA StoresStill ==
    ASSUME DialogueInv, UNCHANGED stores, draft' \in {draft, NoDraft},
           inputs' \in {inputs, inputs + 1}, AnswerSound(asked')
    PROVE  /\ StoresMove /\ ActsShown /\ DraftSound(draft', feed', inputs')
           /\ feed' \in [Feeds -> FeedRow] /\ offer' \in [Offers -> OfferRow]
<1>1. feed' = feed /\ offer' = offer /\ template' = template
  BY DEF stores
<1>2. ActsShown
  BY <1>1, QuietOffers, NothingActs
<1> QED BY <1>1, <1>2, FeedStill, OfferStill, TemplateStill, DraftStill DEF StoresMove

LEMMA AnswerStill == ASSUME DialogueInv, asked' \in {asked, NoAnswer} PROVE AnswerSound(asked')
<1>1. AnswerSound(NoAnswer)
  BY DEF AnswerSound, NoAnswer
<1> QED BY <1>1 DEF DialogueInv

LEMMA RefusesKept ==
    ASSUME DialogueInv, inputs' \in {inputs, inputs + 1}, NEW m, Refuses(m)
    PROVE  DialogueKept
<1>1. StoresMove /\ ActsShown /\ DraftSound(draft', feed', inputs')
  BY StoresStill, AnswerStill DEF Refuses
<1> QED BY <1>1, SorryHolds, ShowsKept DEF Refuses, DialogueKept

LEMMA RefusedKept ==
    ASSUME DialogueInv, UNCHANGED inputs, NEW k, Refused(k)
    PROVE  DialogueKept
<1>1. StoresMove /\ ActsShown /\ DraftSound(draft', feed', inputs')
  BY StoresStill, AnswerStill DEF Refused
<1> QED BY <1>1, SorryHolds, EndsOnKept DEF Refused, DialogueKept

\* What a page that is pressed says.
LEMMA FeedPressed ==
    ASSUME DialogueInv, NEW m \in Screens, NEW op \in FeedOps, Pressed(m, op)
    PROVE  /\ inputs' = inputs + 1 /\ screen[m] \in Page /\ op \in screen[m].left
           /\ screen[m].of \in Feeds /\ feed[screen[m].of] \in FeedRow
           /\ screen[m].revision <= feed[screen[m].of].revision
           /\ screen[m].revision = feed[screen[m].of].revision =>
                 screen[m].shown = feed[screen[m].of].config
           /\ op \in {"enable", "disable", "delete"} => screen[m].wanted = Blank
           /\ op = "restore-rule" => screen[m].wanted \in SourceConfig
           /\ op = "history-commit" => \A e \in screen[m].list :
                 FeedOf[e.plan] = screen[m].of /\ e.shown.name = screen[m].shown.content
<1>1. inputs' = inputs + 1 /\ op \in screen[m].left
  BY DEF Pressed
<1>2. screen[m] \in Page /\ SourceTrue(screen[m], feed)
  BY DEF DialogueInv, CardsTrue, PageTrue
<1>3. \A ops : op \in ops => Offering(screen[m], ops)
  BY <1>1 DEF Offering
<1> QED BY <1>1, <1>2, <1>3 DEF SourceTrue, DialogueInv, StoresTyped

LEMMA OfferPressed ==
    ASSUME DialogueInv, NEW m \in Screens, NEW op \in OfferOps, Pressed(m, op)
    PROVE  /\ inputs' = inputs + 1 /\ screen[m] \in Page /\ op \in screen[m].left
           /\ screen[m].of \in Offers /\ offer[screen[m].of] \in OfferRow
           /\ EntryTrue(screen[m].of, screen[m].revision, screen[m].shown, offer)
<1>1. inputs' = inputs + 1 /\ op \in screen[m].left
  BY DEF Pressed
<1>2. screen[m] \in Page /\ OfferTrue(screen[m], offer)
  BY DEF DialogueInv, CardsTrue, PageTrue
<1>3. Offering(screen[m], OfferOps)
  BY <1>1 DEF Offering
<1> QED BY <1>1, <1>2, <1>3 DEF OfferTrue, DialogueInv, StoresTyped

LEMMA DraftPressed ==
    ASSUME DialogueInv, NEW m \in Screens, NEW op \in DraftOps, Pressed(m, op)
    PROVE  /\ inputs' = inputs + 1 /\ screen[m] \in Page /\ op \in screen[m].left
           /\ draft # NoDraft /\ screen[m].draft = <<draft.id, draft.version>> => screen[m].of \in Feeds
           /\ Requires(screen[m]) => screen[m].of = draft.of /\ screen[m].of \in Feeds
                 /\ screen[m].shown = draft.original /\ screen[m].wanted = draft.config
                 /\ draft.original = feed[draft.of].config /\ draft.config \in SourceConfig
<1>1. inputs' = inputs + 1 /\ op \in screen[m].left
  BY DEF Pressed
<1>2. screen[m] \in Page /\ DraftTrue(screen[m], draft, inputs)
  BY DEF DialogueInv, CardsTrue, PageTrue
<1>3. Offering(screen[m], DraftOps)
  BY <1>1 DEF Offering
<1>4. ASSUME Requires(screen[m])
      PROVE  /\ screen[m].of = draft.of /\ screen[m].of \in Feeds
             /\ screen[m].shown = draft.original /\ screen[m].wanted = draft.config
             /\ draft.original = feed[draft.of].config /\ draft.config \in SourceConfig
  <2>1. draft # NoDraft /\ screen[m].draft = <<draft.id, draft.version>>
        /\ feed[draft.of].revision = draft.revision
    BY <1>4 DEF Requires
  <2>2. screen[m].of = draft.of /\ screen[m].shown = draft.original /\ screen[m].wanted = draft.config
    BY <1>2, <1>3, <2>1 DEF DraftTrue
  <2> QED BY <2>1, <2>2 DEF DialogueInv, DraftSound
<1>5. ASSUME draft # NoDraft, screen[m].draft = <<draft.id, draft.version>> PROVE screen[m].of \in Feeds
  BY <1>2, <1>3, <1>5 DEF DraftTrue, DialogueInv, DraftSound
<1> QED BY <1>1, <1>2, <1>4, <1>5

\* A page that is left by pressing it acts.
LEMMA PressActs ==
    ASSUME NEW m \in Screens, screen'[m] # screen[m]
    PROVE  screen[m] \in Acting
BY DEF Acting

LEMMA HandlerActs ==
    ASSUME NEW k \in Slots, handler'[k] # handler[k]
    PROVE  handler[k].page \in Acting
BY DEF Acting


-------------------------------------------------------------------------------
(* Sources *)

LEMMA OpensCardKept ==
    ASSUME DialogueInv, NEW m \in Screens, OpensCard(m)
    PROVE  DialogueKept
<1>1. /\ StoresMove /\ ActsShown /\ feed' \in [Feeds -> FeedRow] /\ offer' \in [Offers -> OfferRow]
  BY StoresStill, AnswerStill DEF OpensCard
<1> QED BY <1>1, SourcePageHolds, OfferPageHolds, ShowsKept DEF OpensCard, DialogueKept

\* A press that only waits: what its handler will need is on the page.
LEMMA EnablesSourceKept ==
    ASSUME DialogueInv, NEW m \in Screens, EnablesSource(m)
    PROVE  DialogueKept
<1> DEFINE h == [op |-> "enable", at |-> "chat", on |-> m, page |-> screen[m], seen |-> 0]
<1>1. "enable" \in FeedOps
  BY DEF FeedOps
<1>2. Pressed(m, "enable") /\ Waits(m, "enable", "chat", screen[m], 0) /\ UNCHANGED <<stores, draft, asked>>
  BY DEF EnablesSource
<1>3. /\ inputs' = inputs + 1 /\ screen[m] \in Page /\ screen[m].of \in Feeds
      /\ screen[m].revision <= feed[screen[m].of].revision /\ screen[m].wanted = Blank
      /\ screen[m].revision = feed[screen[m].of].revision => screen[m].shown = feed[screen[m].of].config
  BY <1>1, <1>2, FeedPressed
<1>4. StoresMove /\ ActsShown
  BY <1>2, <1>3, StoresStill, AnswerStill
<1>5. h \in Handling
  BY <1>3 DEF Handling
<1>6. h.op = "enable" /\ h.at = "chat" /\ h.page = screen[m]
  OBVIOUS
<1> HIDE DEF h
<1>7. HandlerHolds(h)
  BY <1>3, <1>5, <1>6 DEF HandlerHolds, HandlerTrue
<1> QED BY <1>2, <1>4, <1>7, WaitsKept DEF DialogueKept, h

\* What a handler that goes on knows of its source.
LEMMA FeedHandled ==
    ASSUME DialogueInv, NEW k \in Slots, handler[k].op \in MakesFolder \cup {"history"}
    PROVE  /\ handler[k] \in Handling /\ handler[k].page \in Page /\ handler[k].page.of \in Feeds
           /\ feed[handler[k].page.of] \in FeedRow /\ feed[handler[k].page.of].revision \in Nat
           /\ HandlerTrue(handler[k], feed, offer)
<1>1. handler[k] \in Handling /\ HandlerTrue(handler[k], feed, offer)
  BY DEF DialogueInv, HandlersTrue
<1>2. handler[k].page \in Page /\ handler[k].page.of \in Feeds
  BY <1>1 DEF Handling, HandlerTrue
<1> QED BY <1>1, <1>2 DEF DialogueInv, StoresTyped, FeedRow

LEMMA ChatVerifiedKept ==
    ASSUME DialogueInv, NEW k \in Slots, ChatVerified(k)
    PROVE  DialogueKept
<1> DEFINE s == handler[k].page.of
           at == IF feed[s].config.layout = "source_type" THEN "folder" ELSE "newest"
           h == [handler[k] EXCEPT !.at = at, !.seen = feed[s].revision]
<1>1. handler[k].op = "enable" /\ UNCHANGED inputs
  BY DEF ChatVerified, Continues
<1>2. /\ handler[k] \in Handling /\ s \in Feeds /\ feed[s].revision \in Nat
      /\ HandlerTrue(handler[k], feed, offer)
  BY <1>1, FeedHandled DEF MakesFolder
<1>3. CASE Refused(k)
  BY <1>1, <1>3, RefusedKept
<1>4. CASE MovesTo(k, at, feed[s].revision) /\ UNCHANGED <<stores, draft, asked>>
  <2>1. StoresMove /\ ActsShown
    BY <1>1, <1>4, StoresStill, AnswerStill
  <2>2. at \in {"folder", "newest"} /\ (at = "newest" => feed[s].config.layout # "source_type")
    OBVIOUS
  <2>3. /\ h \in Handling /\ h.op = handler[k].op /\ h.page = handler[k].page /\ h.at = at
    BY <1>2, <2>2 DEF Handling
  <2>4. HandlerTrue(h, feed, offer)
    <3> HIDE DEF h, at
    <3> QED BY <1>1, <1>2, <2>2, <2>3 DEF HandlerTrue
  <2>5. HandlerHolds(h)
    BY <2>3, <2>4 DEF HandlerHolds
  <2> HIDE DEF at
  <2> QED BY <1>4, <2>1, <2>5, MovesToKept DEF DialogueKept
<1> QED BY <1>3, <1>4 DEF ChatVerified

LEMMA FolderMadeKept ==
    ASSUME DialogueInv, NEW k \in Slots, FolderMade(k)
    PROVE  DialogueKept
<1> DEFINE h == handler[k]
           s == handler[k].page.of
           on == [handler[k] EXCEPT !.at = "newest", !.seen = handler[k].seen]
<1>1. h.op \in MakesFolder /\ inputs' = inputs /\ offer' = offer /\ template' = template
  BY DEF FolderMade, Continues
<1>2. /\ h \in Handling /\ s \in Feeds /\ feed[s] \in FeedRow /\ HandlerTrue(h, feed, offer)
  BY <1>1, FeedHandled
<1>3. feed' = [feed EXCEPT ![s].made = TRUE]
  BY DEF FolderMade
<1>4. feed' = [feed EXCEPT ![s] = [feed[s] EXCEPT !.made = TRUE, !.enabled = feed[s].enabled]]
  BY <1>2, <1>3 DEF FeedRow
<1>5. feed[s].enabled \in BOOLEAN
  BY <1>2 DEF FeedRow
<1>6. /\ FeedMoves(feed, feed') /\ FoldersMade(feed') /\ feed' \in [Feeds -> FeedRow]
      /\ feed'[s].made = TRUE /\ feed'[s].config = feed[s].config
      /\ \A r \in Feeds : feed'[r].revision = feed[r].revision
  BY <1>2, <1>4, <1>5, NotedEffect
<1>7. ActsShown
  BY <1>1, <1>6, QuietOffers, NothingActs
<1>8. \/ UNCHANGED <<draft, asked>> /\ EndsOn(k, Sorry(h.page))
      \/ h.op = "enable" /\ MovesTo(k, "newest", h.seen) /\ UNCHANGED <<draft, asked>>
      \/ EndsOn(k, SourcePage(s)) /\ UNCHANGED <<draft, asked>>
      \/ EndsOn(k, SourcePage(s)) /\ asked' = NoAnswer /\ UNCHANGED draft
      \/ EndsOn(k, NoPage) /\ draft' = NoDraft /\ asked' = NoAnswer
  BY <1>1 DEF FolderMade, MakesFolder
<1>9. draft' \in {draft, NoDraft} /\ asked' \in {asked, NoAnswer}
  BY <1>8
<1>10. DraftMoves(draft, draft', inputs, inputs') /\ DraftSound(draft', feed', inputs')
  BY <1>1, <1>6, <1>9, DraftStill
<1>11. StoresMove
  BY <1>1, <1>6, <1>9, <1>10, OfferStill, TemplateStill, AnswerStill DEF StoresMove
<1>12. CASE h.op = "enable" /\ MovesTo(k, "newest", h.seen)
  <2>1. /\ on \in Handling /\ on.op = h.op /\ on.page = h.page
    BY <1>2 DEF Handling
  <2>2. HandlerTrue(on, feed', offer')
    <3> HIDE DEF on
    <3> QED BY <1>1, <1>2, <1>6, <1>12, <2>1 DEF HandlerTrue
  <2>3. HandlerHolds(on)
    BY <2>1, <2>2 DEF HandlerHolds
  <2> QED BY <1>7, <1>11, <1>12, <2>3, MovesToKept DEF DialogueKept
<1> QED BY <1>2, <1>6, <1>7, <1>8, <1>10, <1>11, <1>12, SorryHolds, SourcePageHolds, NoPageHolds, EndsOnKept
        DEF DialogueKept

LEMMA FolderFailsKept ==
    ASSUME DialogueInv, NEW k \in Slots, FolderFails(k)
    PROVE  DialogueKept
<1> DEFINE h == handler[k]
           s == handler[k].page.of
           on == feed[s].enabled /\ ~Changeable(s, h.seen)
<1>1. h.op \in MakesFolder /\ inputs' = inputs /\ offer' = offer /\ template' = template
  BY DEF FolderFails, Continues
<1>2. /\ h \in Handling /\ s \in Feeds /\ feed[s] \in FeedRow
  BY <1>1, FeedHandled
<1>3. feed' = [feed EXCEPT ![s].enabled = on]
  BY DEF FolderFails
<1>4. on \in BOOLEAN /\ (on => feed[s].enabled) /\ feed[s].made \in BOOLEAN
  BY <1>2 DEF FeedRow, Changeable
<1> HIDE DEF on
<1>5. feed' = [feed EXCEPT ![s] = [feed[s] EXCEPT !.made = feed[s].made, !.enabled = on]]
  BY <1>2, <1>3 DEF FeedRow
<1>6. /\ FeedMoves(feed, feed') /\ FoldersMade(feed') /\ feed' \in [Feeds -> FeedRow]
      /\ \A r \in Feeds : feed'[r].revision = feed[r].revision
  BY <1>2, <1>4, <1>5, NotedEffect
<1>7. ActsShown
  BY <1>1, <1>6, QuietOffers, NothingActs
<1>8. /\ draft' \in {draft, NoDraft} /\ asked' \in {asked, NoAnswer}
      /\ EndsOn(k, SourcePage(s)) \/ EndsOn(k, NoPage)
  BY DEF FolderFails
<1>9. DraftMoves(draft, draft', inputs, inputs') /\ DraftSound(draft', feed', inputs')
  BY <1>1, <1>6, <1>8, DraftStill
<1>10. StoresMove
  BY <1>1, <1>6, <1>8, <1>9, OfferStill, TemplateStill, AnswerStill DEF StoresMove
<1> QED BY <1>2, <1>6, <1>7, <1>8, <1>10, SourcePageHolds, NoPageHolds, EndsOnKept DEF DialogueKept

\* The source that is enabled is the one the card showed, and its folder has been made.
LEMMA EnablesLateKept ==
    ASSUME DialogueInv, NEW k \in Slots, EnablesLate(k)
    PROVE  DialogueKept
<1> DEFINE s == handler[k].page.of
<1>1. handler[k].op = "enable" /\ handler[k].at = "newest" /\ UNCHANGED inputs
  BY DEF EnablesLate, Continues
<1>2. /\ handler[k] \in Handling /\ s \in Feeds /\ feed[s] \in FeedRow
      /\ HandlerTrue(handler[k], feed, offer)
  BY <1>1, FeedHandled DEF MakesFolder
<1>3. CASE Refused(k)
  BY <1>1, <1>3, RefusedKept
<1>4. CASE /\ Changeable(s, Basis(handler[k])) /\ ChangeSource(s, feed[s].config, TRUE)
           /\ EndsOn(k, SourcePage(s)) /\ UNCHANGED <<template, draft, asked>>
  <2>1. /\ handler[k].page.revision = feed[s].revision /\ handler[k].page.shown = feed[s].config
        /\ handler[k].page.wanted = Blank /\ (feed[s].config.layout = "source_type" => feed[s].made)
    BY <1>1, <1>2, <1>4 DEF Changeable, Basis, HandlerTrue
  <2>2. /\ feed' = [feed EXCEPT ![s] = Changed(s, feed[s].config, TRUE, FALSE)] /\ offer' = offer
        /\ feed[s].config \in SourceConfig
    BY <1>2, <1>4 DEF ChangeSource, FeedRow
  <2>3. /\ FeedMoves(feed, feed') /\ FoldersMade(feed') /\ feed' \in [Feeds -> FeedRow]
        /\ feed'[s].config = feed[s].config /\ \A r \in Feeds : r # s => feed'[r] = feed[r]
    BY <1>2, <2>1, <2>2, ChangedEffect
  <2>4. DraftMoves(draft, draft', inputs, inputs') /\ DraftSound(draft', feed', inputs')
    BY <1>1, <1>4, <2>3, DraftStill
  <2>5. StoresMove
    BY <1>4, <2>2, <2>3, <2>4, OfferStill, TemplateStill, AnswerStill DEF StoresMove
  <2>6. handler'[k] # handler[k]
    <3>1. handler \in [Slots -> Handling] /\ NoHandler.at = "idle"
      BY DEF DialogueInv, HandlersTrue, NoHandler
    <3>2. handler'[k] = NoHandler
      BY <1>4, <3>1 DEF EndsOn
    <3> QED BY <1>1, <3>1, <3>2
  <2>7. Outcome(handler[k].page) = handler[k].page.shown
    BY <2>1 DEF Outcome
  <2>8. ActsShown
    BY <1>2, <2>1, <2>2, <2>3, <2>6, <2>7, HandlerActs, QuietOffers, OneActs
  <2> QED BY <1>2, <1>4, <2>3, <2>5, <2>8, SourcePageHolds, EndsOnKept DEF DialogueKept
<1> QED BY <1>3, <1>4 DEF EnablesLate


LEMMA ReadFailsKept ==
    ASSUME DialogueInv, NEW k \in Slots, ReadFails(k)
    PROVE  DialogueKept
BY RefusedKept DEF ReadFails

\* A handler that waits for anything but the newest message, or an attachment, holds little.
LEMMA WaitingHolds ==
    ASSUME NEW op \in {"restore-rule", "save", "add", "make-folder", "history", "recent"},
           NEW at \in {"folder", "scan", "recent", "resolve"}, NEW m \in Screens, NEW page \in Page,
           NEW seen \in Nat, op # "recent" => page.of \in Feeds
    PROVE  HandlerHolds([op |-> op, at |-> at, on |-> m, page |-> page, seen |-> seen])
<1> DEFINE h == [op |-> op, at |-> at, on |-> m, page |-> page, seen |-> seen]
<1>1. h \in Handling /\ h.op = op /\ h.page = page
  BY DEF Handling
<1> HIDE DEF h
<1>2. HandlerTrue(h, feed, offer)
  BY <1>1 DEF HandlerTrue, MakesFolder
<1>3. HandlerHolds(h)
  BY <1>1, <1>2 DEF HandlerHolds
<1> QED BY <1>3 DEF h

LEMMA RetriesFolderKept ==
    ASSUME DialogueInv, NEW m \in Screens, RetriesFolder(m)
    PROVE  DialogueKept
<1> DEFINE s == screen[m].of
<1>1. "make-folder" \in FeedOps /\ Pressed(m, "make-folder")
  BY DEF FeedOps, RetriesFolder
<1>2. inputs' = inputs + 1 /\ screen[m] \in Page /\ s \in Feeds /\ feed[s] \in FeedRow
  BY <1>1, FeedPressed
<1>3. CASE Refuses(m)
  BY <1>2, <1>3, RefusesKept
<1>4. CASE /\ Waits(m, "make-folder", "folder", screen[m], feed[s].revision)
           /\ UNCHANGED <<stores, draft, asked>>
  <2>1. StoresMove /\ ActsShown
    BY <1>2, <1>4, StoresStill, AnswerStill
  <2>2. feed[s].revision \in Nat
    BY <1>2 DEF FeedRow
  <2> QED BY <1>2, <1>4, <2>1, <2>2, WaitingHolds, WaitsKept DEF DialogueKept
<1> QED BY <1>3, <1>4 DEF RetriesFolder

LEMMA SendsReferenceKept ==
    ASSUME DialogueInv, NEW m \in Screens, SendsReference(m)
    PROVE  DialogueKept
<1>1. AnswerSound(asked')
  BY DEF SendsReference, AnswerSound
<1>2. StoresMove /\ ActsShown
  BY <1>1, StoresStill DEF SendsReference
<1>3. PICK s \in Feeds : Waits(m, "add", "resolve", [NoPage EXCEPT !.of = s], 0)
  BY DEF SendsReference
<1> DEFINE page == [NoPage EXCEPT !.of = s]
<1>4. page \in Page /\ page.of = s
  BY DEF NoPage, Page, Blank, Config
<1> HIDE DEF page
<1>5. Waits(m, "add", "resolve", page, 0)
  BY <1>3 DEF page
<1> QED BY <1>2, <1>4, <1>5, WaitingHolds, WaitsKept DEF DialogueKept

\* A source that comes back had been deleted: no card of it acts.
LEMMA AddsAgainKept ==
    ASSUME DialogueInv, NEW k \in Slots, AddsAgain(k)
    PROVE  DialogueKept
<1> DEFINE s == handler[k].page.of
           config == [content |-> "plain", layout |-> "source_type"]
           q == [feed[s] EXCEPT !.config = config, !.revision = feed[s].revision + 1,
                                !.enabled = FALSE, !.deleted = FALSE]
<1>1. handler[k].op = "add" /\ UNCHANGED inputs
  BY DEF AddsAgain, Continues
<1>2. handler[k] \in Handling /\ s \in Feeds /\ feed[s] \in FeedRow /\ feed[s].revision \in Nat
  BY <1>1, FeedHandled DEF MakesFolder
<1>3. CASE Refused(k)
  BY <1>1, <1>3, RefusedKept
<1>4. CASE /\ feed[s].deleted /\ feed' = [feed EXCEPT ![s] = q]
           /\ MovesTo(k, "folder", feed'[s].revision) /\ UNCHANGED <<offer, template, draft, asked>>
  <2>1. config \in SourceConfig
    BY DEF SourceConfig, Contents, Layouts
  <2> HIDE DEF config
  <2>2. q \in FeedRow /\ q.revision = feed[s].revision + 1 /\ q.enabled = FALSE /\ q.made = feed[s].made
    <3>1. feed[s].revision + 1 \in Nat
      BY <1>2
    <3> QED BY <1>2, <2>1, <3>1 DEF FeedRow
  <2>3. feed \in [Feeds -> FeedRow]
    BY DEF DialogueInv, StoresTyped
  <2>4. feed' = [feed EXCEPT ![s] = q]
    BY <1>4
  <2> HIDE DEF q
  <2>5. feed' \in [Feeds -> FeedRow] /\ feed'[s] = q /\ \A r \in Feeds : r # s => feed'[r] = feed[r]
    BY <1>2, <2>2, <2>3, <2>4
  <2>6. FoldersMade(feed')
    BY <2>2, <2>5 DEF FoldersMade, DialogueInv
  <2>7. ASSUME NEW r \in Feeds
        PROVE  /\ feed[r].revision <= feed'[r].revision /\ (feed[r].made => feed'[r].made)
               /\ feed[r].revision = feed'[r].revision => feed[r].config = feed'[r].config
    <3>1. feed[r].revision \in Nat
      BY <2>3 DEF FeedRow
    <3> QED BY <1>2, <2>2, <2>5, <3>1
  <2>8. FeedMoves(feed, feed')
    BY <2>3, <2>5, <2>7 DEF FeedMoves
  <2>9. ActsShown
    BY <1>4, <2>5, QuietOffers, NothingActs
  <2>10. DraftMoves(draft, draft', inputs, inputs') /\ DraftSound(draft', feed', inputs')
    BY <1>1, <1>4, <2>8, DraftStill
  <2>11. StoresMove
    BY <1>4, <2>6, <2>8, <2>10, OfferStill, TemplateStill, AnswerStill DEF StoresMove
  <2> DEFINE h == [handler[k] EXCEPT !.at = "folder", !.seen = feed'[s].revision]
  <2>12. feed'[s].revision \in Nat
    BY <1>2, <2>5 DEF FeedRow
  <2>13. h \in Handling /\ h.op = "add" /\ h.page = handler[k].page
    BY <1>1, <1>2, <2>12 DEF Handling
  <2>14. HandlerTrue(h, feed, offer)
    <3> HIDE DEF h
    <3> QED BY <1>2, <2>13 DEF HandlerTrue
  <2>15. HandlerHolds(h)
    BY <2>13, <2>14 DEF HandlerHolds
  <2> QED BY <1>4, <2>9, <2>11, <2>15, MovesToKept DEF DialogueKept
<1>5. CASE ~ Refused(k)
  <2>1. /\ feed[s].deleted /\ MovesTo(k, "folder", feed'[s].revision)
        /\ feed' = [feed EXCEPT ![s].config = config, ![s].revision = @ + 1, ![s].enabled = FALSE,
                                ![s].deleted = FALSE]
        /\ UNCHANGED <<offer, template, draft, asked>>
    BY <1>5 DEF AddsAgain
  <2>2. feed' = [feed EXCEPT ![s] = q]
    BY <1>2, <2>1 DEF DialogueInv, StoresTyped, FeedRow
  <2> QED BY <1>4, <2>1, <2>2
<1> QED BY <1>3, <1>5

\* A configuration is written, and counts up the source's revision.
LEMMA ChangeMoves ==
    ASSUME DialogueInv, NEW s \in Feeds, NEW config \in SourceConfig,
           NEW enabled \in {FALSE, feed[s].enabled}, ChangeSource(s, config, enabled),
           UNCHANGED template, draft' \in {draft, NoDraft}, asked' \in {asked, NoAnswer},
           inputs' = inputs + 1
    PROVE  /\ StoresMove /\ OffersQuiet /\ feed' \in [Feeds -> FeedRow] /\ feed'[s].revision \in Nat
           /\ feed'[s].config = config /\ feed'[s].revision = feed[s].revision + 1
           /\ \A r \in Feeds : r # s => feed'[r] = feed[r]
           /\ DraftSound(draft', feed', inputs')
<1>1. /\ feed' = [feed EXCEPT ![s] = Changed(s, config, enabled, FALSE)] /\ offer' = offer
      /\ feed[s] \in FeedRow
  BY DEF ChangeSource, DialogueInv, StoresTyped
<1>2. enabled \in BOOLEAN /\ (enabled /\ feed[s].config.layout = "source_type" => feed[s].made)
  BY <1>1 DEF FeedRow, DialogueInv, FoldersMade
<1>3. /\ FeedMoves(feed, feed') /\ FoldersMade(feed') /\ feed' \in [Feeds -> FeedRow]
      /\ feed'[s].config = config /\ feed'[s].revision = feed[s].revision + 1
      /\ \A r \in Feeds : r # s => feed'[r] = feed[r]
  BY <1>1, <1>2, ChangedEffect
<1>4. DraftMoves(draft, draft', inputs, inputs') /\ DraftSound(draft', feed', inputs')
  BY <1>3, DraftStill
<1>5. StoresMove
  BY <1>1, <1>3, <1>4, OfferStill, TemplateStill, AnswerStill DEF StoresMove
<1>6. feed'[s].revision \in Nat
  BY <1>3 DEF FeedRow
<1> QED BY <1>1, <1>3, <1>4, <1>5, <1>6, QuietOffers

\* The page a source's change was pressed on is gone from its message.
LEMMA ChangeActs ==
    ASSUME DialogueInv, NEW m \in Screens, NEW s \in Feeds, OffersQuiet,
           screen'[m].left # screen[m].left \/ screen'[m].revision # screen[m].revision,
           \A r \in Feeds : r # s => feed'[r] = feed[r],
           screen[m].of = s, screen[m].shown = feed[s].config, feed'[s].config = Outcome(screen[m])
    PROVE  ActsShown
<1>1. screen[m] \in Acting
  BY PressActs
<1> QED BY <1>1, OneActs

\* What a message shows once a page or an answer has taken its place.
LEMMA ShownThere ==
    ASSUME DialogueInv, NEW m \in Screens, NEW page, Shows(m, page)
    PROVE  screen'[m] = page
BY DEF DialogueInv, CardsTrue, Shows

LEMMA WaitsThere ==
    ASSUME DialogueInv, NEW m \in Screens, NEW op, NEW at, NEW page, NEW seen,
           op \in screen[m].left, Waits(m, op, at, page, seen)
    PROVE  screen'[m].left # screen[m].left
<1> DEFINE less == [screen[m] EXCEPT !.left = @ \ {op}]
<1>1. screen \in [Screens -> Page] /\ screen' = [screen EXCEPT ![m].left = @ \ {op}]
  BY DEF Waits, DialogueInv, CardsTrue
<1>2. screen'[m] = less
  BY <1>1
<1>3. less.left = screen[m].left \ {op}
  BY <1>1 DEF Page
<1> QED BY <1>2, <1>3

LEMMA PausesSourceKept ==
    ASSUME DialogueInv, NEW m \in Screens, PausesSource(m)
    PROVE  DialogueKept
<1> DEFINE s == screen[m].of
<1>1. "disable" \in FeedOps /\ Pressed(m, "disable")
  BY DEF FeedOps, PausesSource
<1>2. /\ inputs' = inputs + 1 /\ screen[m] \in Page /\ s \in Feeds /\ feed[s] \in FeedRow
      /\ screen[m].wanted = Blank
      /\ screen[m].revision = feed[s].revision => screen[m].shown = feed[s].config
  BY <1>1, FeedPressed
<1>3. CASE Refuses(m)
  BY <1>2, <1>3, RefusesKept
<1>4. CASE /\ Changeable(s, screen[m].revision) /\ ChangeSource(s, feed[s].config, FALSE)
           /\ Shows(m, SourcePage(s)) /\ UNCHANGED <<template, draft, asked>>
  <2>1. feed[s].config \in SourceConfig /\ feed[s].revision \in Nat
    BY <1>2 DEF FeedRow
  <2>2. /\ StoresMove /\ OffersQuiet /\ feed' \in [Feeds -> FeedRow]
        /\ feed'[s].config = feed[s].config /\ feed'[s].revision = feed[s].revision + 1
        /\ \A r \in Feeds : r # s => feed'[r] = feed[r]
    BY <1>2, <1>4, <2>1, ChangeMoves
  <2>3. screen[m].shown = feed[s].config /\ Outcome(screen[m]) = feed[s].config
    BY <1>2, <1>4 DEF Changeable, Outcome
  <2>4. screen'[m] = SourcePage(s)
    BY <1>4, ShownThere
  <2>5. screen'[m].revision = feed'[s].revision
    BY <1>2, <2>2, <2>4, SourcePageHolds
  <2>6. screen'[m].revision # screen[m].revision
    BY <1>4, <2>1, <2>2, <2>5 DEF Changeable
  <2>7. ActsShown
    BY <1>2, <2>2, <2>3, <2>6, ChangeActs
  <2> QED BY <1>2, <1>4, <2>2, <2>7, SourcePageHolds, ShowsKept DEF DialogueKept
<1> QED BY <1>3, <1>4 DEF PausesSource


\* A deleted source takes its open plans with it.
LEMMA DeletesKept ==
    ASSUME DialogueInv, NEW m \in Screens, Deletes(m)
    PROVE  DialogueKept
<1> DEFINE s == screen[m].of
<1>1. "delete" \in FeedOps /\ Pressed(m, "delete")
  BY DEF FeedOps, Deletes
<1>2. /\ inputs' = inputs + 1 /\ screen[m] \in Page /\ "delete" \in screen[m].left /\ s \in Feeds
      /\ feed[s] \in FeedRow /\ screen[m].wanted = Blank
      /\ screen[m].revision = feed[s].revision => screen[m].shown = feed[s].config
  BY <1>1, FeedPressed
<1>3. CASE Refuses(m)
  BY <1>2, <1>3, RefusesKept
<1>4. CASE /\ Changeable(s, screen[m].revision)
           /\ feed' = [feed EXCEPT ![s] = Changed(s, feed[s].config, FALSE, TRUE)]
           /\ offer' = [p \in Offers |->
                           IF FeedOf[p] = s /\ offer[p].status = "pending"
                           THEN Edited(p, offer[p].payload, "ignored") ELSE offer[p]]
           /\ Shows(m, NoPage) /\ UNCHANGED <<template, draft, asked>>
  <2>1. feed[s].config \in SourceConfig
    BY <1>2 DEF FeedRow
  <2>2. /\ FeedMoves(feed, feed') /\ FoldersMade(feed') /\ feed'[s].config = feed[s].config
        /\ \A r \in Feeds : r # s => feed'[r] = feed[r]
    BY <1>2, <1>4, <2>1, ChangedEffect
  <2>3. \A p \in Offers :
            offer'[p] \in {offer[p], Edited(p, offer[p].payload, "ignored")}
            /\ offer[p].payload \in Payload
    <3> TAKE p \in Offers
    <3>1. offer[p].payload \in Payload
      BY DEF DialogueInv, StoresTyped, OfferRow
    <3> QED BY <1>4, <3>1
  <2>4. OfferMoves(offer, offer')
    BY <1>4, <2>3, OffersMove
  <2>5. OffersQuiet
    BY <2>3, EditedTypes DEF OffersQuiet
  <2>6. DraftMoves(draft, draft', inputs, inputs') /\ DraftSound(draft', feed', inputs')
    BY <1>2, <1>4, <2>2, DraftStill
  <2>7. StoresMove
    BY <1>4, <2>2, <2>4, <2>6, TemplateStill, AnswerStill DEF StoresMove
  <2>8. screen[m].shown = feed[s].config /\ Outcome(screen[m]) = feed[s].config
    BY <1>2, <1>4 DEF Changeable, Outcome
  <2>9. screen'[m].left # screen[m].left
    BY <1>2, <1>4, ShownThere DEF NoPage
  <2>10. ActsShown
    BY <1>2, <2>2, <2>5, <2>8, <2>9, ChangeActs
  <2> QED BY <1>4, <2>7, <2>10, NoPageHolds, ShowsKept DEF DialogueKept
<1> QED BY <1>3, <1>4 DEF Deletes

LEMMA RestoresKept ==
    ASSUME DialogueInv, NEW m \in Screens, Restores(m)
    PROVE  DialogueKept
<1> DEFINE s == screen[m].of
<1>1. "restore" \in FeedOps /\ Pressed(m, "restore")
  BY DEF FeedOps, Restores
<1>2. /\ inputs' = inputs + 1 /\ s \in Feeds /\ feed[s] \in FeedRow
  BY <1>1, FeedPressed
<1>3. CASE Refuses(m)
  BY <1>2, <1>3, RefusesKept
<1>4. ASSUME UNCHANGED <<stores, draft, asked>>, NEW old \in feed[s].past,
             Shows(m, [SourcePage(s) EXCEPT !.wanted = old, !.left = {"restore-rule"}])
      PROVE  DialogueKept
  <2>1. StoresMove /\ ActsShown /\ feed' \in [Feeds -> FeedRow]
    BY <1>2, <1>4, StoresStill, AnswerStill
  <2> DEFINE base == SourcePage(s)
             page == [base EXCEPT !.wanted = old, !.left = {"restore-rule"}]
  <2>2. /\ base \in Page /\ base.of = s /\ base.revision = feed'[s].revision
        /\ base.shown = feed'[s].config
    BY <1>2, <2>1, SourcePageHolds DEF PageHolds
  <2>3. old \in SourceConfig /\ old \in Config
    BY <1>2 DEF FeedRow, SourceConfig, Config
  <2> HIDE DEF base
  <2>4. {"restore-rule"} \subseteq FeedOps
    BY DEF FeedOps
  <2>5. /\ page \in Page /\ page.of = s /\ page.revision = feed'[s].revision
        /\ page.shown = feed'[s].config /\ page.wanted = old /\ page.left = {"restore-rule"}
    BY <2>2, <2>3, <2>4 DEF Page
  <2>6. Shows(m, page)
    BY <1>4 DEF base
  <2> HIDE DEF page
  <2>7. PageHolds(page)
    BY <1>2, <2>1, <2>3, <2>4, <2>5, SourcePagesHold DEF Offering
  <2> QED BY <2>1, <2>6, <2>7, ShowsKept DEF DialogueKept
<1> QED BY <1>3, <1>4 DEF Restores

LEMMA RestoresRuleKept ==
    ASSUME DialogueInv, NEW m \in Screens, RestoresRule(m)
    PROVE  DialogueKept
<1> DEFINE s == screen[m].of
           old == screen[m].wanted
<1>1. "restore-rule" \in FeedOps /\ Pressed(m, "restore-rule")
  BY DEF FeedOps, RestoresRule
<1>2. /\ inputs' = inputs + 1 /\ screen[m] \in Page /\ s \in Feeds /\ feed[s] \in FeedRow
      /\ "restore-rule" \in screen[m].left /\ old \in SourceConfig
      /\ screen[m].revision = feed[s].revision => screen[m].shown = feed[s].config
  BY <1>1, FeedPressed
<1>3. CASE Refuses(m)
  BY <1>2, <1>3, RefusesKept
<1>4. CASE /\ Changeable(s, screen[m].revision) /\ ChangeSource(s, old, feed[s].enabled)
           /\ \/ Waits(m, "restore-rule", "folder", screen[m], feed'[s].revision)
              \/ Shows(m, SourcePage(s))
           /\ UNCHANGED <<template, draft, asked>>
  <2>1. /\ StoresMove /\ OffersQuiet /\ feed' \in [Feeds -> FeedRow] /\ feed'[s].revision \in Nat
        /\ feed'[s].config = old /\ feed'[s].revision = feed[s].revision + 1
        /\ \A r \in Feeds : r # s => feed'[r] = feed[r]
    BY <1>2, <1>4, ChangeMoves
  <2>2. old # Blank /\ old.layout # "none"
    BY <1>2 DEF SourceConfig, Blank, Contents, Layouts
  <2>3. screen[m].shown = feed[s].config /\ Outcome(screen[m]) = old
    BY <1>2, <1>4, <2>2 DEF Changeable, Outcome
  <2>4. CASE Waits(m, "restore-rule", "folder", screen[m], feed'[s].revision)
    <3>1. screen'[m].left # screen[m].left
      BY <1>2, <2>4, WaitsThere
    <3>2. ActsShown
      BY <1>2, <2>1, <2>3, <3>1, ChangeActs
    <3> QED BY <1>2, <2>1, <2>4, <3>2, WaitingHolds, WaitsKept DEF DialogueKept
  <2>5. CASE Shows(m, SourcePage(s))
    <3>1. screen'[m].revision = feed'[s].revision
      BY <1>2, <2>1, <2>5, ShownThere, SourcePageHolds
    <3>2. feed[s].revision \in Nat
      BY <1>2 DEF FeedRow
    <3>3. screen'[m].revision # screen[m].revision
      BY <1>4, <2>1, <3>1, <3>2 DEF Changeable
    <3>4. ActsShown
      BY <1>2, <2>1, <2>3, <3>3, ChangeActs
    <3> QED BY <1>2, <2>1, <2>5, <3>4, SourcePageHolds, ShowsKept DEF DialogueKept
  <2> QED BY <1>4, <2>4, <2>5
<1> QED BY <1>3, <1>4 DEF RestoresRule

-------------------------------------------------------------------------------
(* Templates and the history of a source *)

LEMMA TemplatesKept ==
    ASSUME DialogueInv, NEW m \in Screens, Templates(m)
    PROVE  DialogueKept
<1> DEFINE s == screen[m].of
           base == SourcePage(s)
           wanted == [content |-> template.content, layout |-> "none"]
           ops == IF template.content = "none" THEN {"save-name"}
                  ELSE {"template-apply", "template-delete"}
           page == [base EXCEPT !.draft = <<0, template.revision>>, !.wanted = wanted, !.left = ops]
<1>1. "templates" \in FeedOps /\ Pressed(m, "templates") /\ UNCHANGED <<stores, draft, asked>>
  BY DEF FeedOps, Templates
<1>2. /\ inputs' = inputs + 1 /\ s \in Feeds
  BY <1>1, FeedPressed
<1>3. StoresMove /\ ActsShown /\ feed' \in [Feeds -> FeedRow]
  BY <1>1, <1>2, StoresStill, AnswerStill
<1>4. /\ base \in Page /\ base.of = s /\ base.revision = feed'[s].revision
      /\ base.shown = feed'[s].config
  BY <1>2, <1>3, SourcePageHolds DEF PageHolds
<1>5. /\ template.revision \in Nat /\ template.content \in Contents \cup {"none"}
      /\ template' = template
  BY <1>1 DEF DialogueInv, StoresTyped, TemplateRow, stores
<1>6. wanted \in Config /\ wanted.content = template.content /\ wanted.layout = "none"
  BY <1>5 DEF Config
<1>7. /\ ops \subseteq FeedOps /\ ops \subseteq {"save-name", "template-apply", "template-delete"}
      /\ "template-apply" \in ops => template.content # "none"
  BY DEF FeedOps
<1>8. Shows(m, page)
  BY DEF Templates
<1> HIDE DEF base, wanted, ops
<1>9. <<0, template.revision>> \in Nat \X Nat
  BY <1>5
<1>10. page \in Page
  BY <1>4, <1>6, <1>7, <1>9 DEF Page
<1>11. /\ page.of = s /\ page.revision = feed'[s].revision /\ page.shown = feed'[s].config
       /\ page.wanted = wanted /\ page.left = ops /\ page.draft = <<0, template.revision>>
  BY <1>4 DEF Page
<1> HIDE DEF page
<1>12. PageHolds(page)
  <2>1. ~ Offering(page, {"enable", "disable", "delete"}) /\ ~ Offering(page, {"restore-rule"})
        /\ ~ Offering(page, {"history-commit"})
    BY <1>7, <1>11 DEF Offering
  <2>2. Offering(page, {"template-apply"}) => page.wanted.content # "none"
    BY <1>6, <1>7, <1>11 DEF Offering
  <2>3. /\ page.draft[2] = template'.revision /\ page.wanted.layout = "none"
        /\ page.wanted.content = template'.content /\ page.left \subseteq FeedOps
    BY <1>5, <1>6, <1>7, <1>11
  <2> QED BY <1>2, <1>3, <1>10, <1>11, <2>1, <2>2, <2>3, SourcePagesHold
<1> QED BY <1>3, <1>8, <1>12, ShowsKept DEF DialogueKept

\* The rules that are applied are those of the template as the page named it.
LEMMA TemplateApplyKept ==
    ASSUME DialogueInv, NEW m \in Screens, TemplateApply(m)
    PROVE  DialogueKept
<1> DEFINE s == screen[m].of
           config == [feed[s].config EXCEPT !.content = template.content]
<1>1. "template-apply" \in FeedOps /\ Pressed(m, "template-apply")
  BY DEF FeedOps, TemplateApply
<1>2. /\ inputs' = inputs + 1 /\ screen[m] \in Page /\ s \in Feeds /\ feed[s] \in FeedRow
      /\ "template-apply" \in screen[m].left
      /\ screen[m].revision = feed[s].revision => screen[m].shown = feed[s].config
  BY <1>1, FeedPressed
<1>3. CASE Refuses(m)
  BY <1>2, <1>3, RefusesKept
<1>4. CASE /\ template.revision = screen[m].draft[2] /\ Changeable(s, screen[m].revision)
           /\ ChangeSource(s, config, feed[s].enabled)
           /\ Shows(m, NoPage) /\ UNCHANGED <<template, draft, asked>>
  <2>1. /\ screen[m].wanted.layout = "none" /\ screen[m].wanted.content # "none"
        /\ screen[m].wanted.content = template.content
    BY <1>2, <1>4 DEF DialogueInv, CardsTrue, PageTrue, TemplateTrue, Offering
  <2>2. template.content \in Contents
    BY <2>1 DEF DialogueInv, StoresTyped, TemplateRow
  <2>3. config \in SourceConfig
    BY <1>2, <2>2 DEF FeedRow, SourceConfig
  <2>4. screen[m].shown = feed[s].config /\ Outcome(screen[m]) = config
    BY <1>2, <1>4, <2>1 DEF Changeable, Outcome, Blank
  <2>5. ChangeSource(s, config, feed[s].enabled)
    BY <1>4
  <2> HIDE DEF config
  <2>6. /\ StoresMove /\ OffersQuiet /\ feed'[s].config = config
        /\ \A r \in Feeds : r # s => feed'[r] = feed[r]
    BY <1>2, <1>4, <2>3, <2>5, ChangeMoves
  <2>7. screen'[m].left # screen[m].left
    BY <1>2, <1>4, ShownThere DEF NoPage
  <2>8. ActsShown
    BY <1>2, <2>4, <2>6, <2>7, ChangeActs
  <2> QED BY <1>4, <2>6, <2>8, NoPageHolds, ShowsKept DEF DialogueKept
<1> QED BY <1>3, <1>4 DEF TemplateApply

\* A template is kept or dropped under a new revision.
LEMMA TemplateWritten ==
    ASSUME DialogueInv, NEW content \in Contents \cup {"none"}, feed' = feed, offer' = offer,
           template' = [revision |-> template.revision + 1, content |-> content],
           draft' = draft, asked' \in {asked, NoAnswer}, inputs' = inputs + 1
    PROVE  StoresMove /\ ActsShown
<1>1. template \in TemplateRow /\ template.revision \in Nat
  BY DEF DialogueInv, StoresTyped, TemplateRow
<1>2. template' \in TemplateRow /\ template'.revision = template.revision + 1
  BY <1>1 DEF TemplateRow
<1>3. TemplateMoves(template, template')
  BY <1>1, <1>2 DEF TemplateMoves
<1>4. FeedMoves(feed, feed') /\ FoldersMade(feed')
  BY FeedStill
<1>5. DraftMoves(draft, draft', inputs, inputs') /\ DraftSound(draft', feed', inputs')
  BY <1>4, DraftStill
<1>6. ActsShown
  BY QuietOffers, NothingActs
<1> QED BY <1>3, <1>4, <1>5, <1>6, OfferStill, AnswerStill DEF StoresMove

LEMMA TemplateDeleteKept ==
    ASSUME DialogueInv, NEW m \in Screens, TemplateDelete(m)
    PROVE  DialogueKept
<1>1. inputs' = inputs + 1
  BY DEF TemplateDelete, Pressed
<1>2. CASE Refuses(m)
  BY <1>1, <1>2, RefusesKept
<1>3. CASE ~ Refuses(m)
  <2>1. /\ template' = [revision |-> template.revision + 1, content |-> "none"] /\ Shows(m, NoPage)
        /\ UNCHANGED <<feed, offer, draft, asked>>
    BY <1>3 DEF TemplateDelete
  <2>2. StoresMove /\ ActsShown
    BY <1>1, <2>1, TemplateWritten
  <2> QED BY <2>1, <2>2, NoPageHolds, ShowsKept DEF DialogueKept
<1> QED BY <1>2, <1>3

LEMMA SavesTemplateKept ==
    ASSUME DialogueInv, NEW m \in Screens, SavesTemplate(m)
    PROVE  DialogueKept
<1>1. /\ inputs' = inputs + 1 /\ asked.op = "save-name"
      /\ UNCHANGED <<feed, offer, draft, screen, handler>>
  BY DEF SavesTemplate, TextFor
<1>2. screen' \in [Screens -> Page] /\ handler' \in [Slots -> Handling]
      /\ (\A n \in Screens : PageHolds(screen'[n])) /\ \A k \in Slots : HandlerHolds(handler'[k])
  BY <1>1, WhatStaysHolds DEF DialogueInv, CardsTrue, HandlersTrue
<1>3. CASE UNCHANGED <<template, asked>>
  <2>1. StoresMove /\ ActsShown
    BY <1>1, <1>3, StoresStill, AnswerStill DEF stores
  <2> QED BY <1>2, <2>1, CardsKept DEF DialogueKept
<1>4. CASE /\ template' = [revision |-> template.revision + 1,
                           content |-> feed[asked.page.of].config.content]
           /\ asked' = NoAnswer
  <2>1. feed[asked.page.of].config.content \in Contents
    BY <1>1 DEF DialogueInv, AnswerSound, StoresTyped, FeedRow, SourceConfig
  <2>2. StoresMove /\ ActsShown
    BY <1>1, <1>4, <2>1, TemplateWritten
  <2> QED BY <1>2, <2>2, CardsKept DEF DialogueKept
<1> QED BY <1>3, <1>4 DEF SavesTemplate

LEMMA HistoryPreviewKept ==
    ASSUME DialogueInv, NEW m \in Screens, HistoryPreview(m)
    PROVE  DialogueKept
<1> DEFINE s == screen[m].of
<1>1. "history" \in FeedOps /\ Pressed(m, "history")
  BY DEF FeedOps, HistoryPreview
<1>2. inputs' = inputs + 1 /\ screen[m] \in Page /\ s \in Feeds /\ feed[s] \in FeedRow
  BY <1>1, FeedPressed
<1>3. CASE Refuses(m)
  BY <1>2, <1>3, RefusesKept
<1>4. CASE /\ Waits(m, "history", "scan", screen[m], feed[s].revision)
           /\ UNCHANGED <<stores, draft, asked>>
  <2>1. StoresMove /\ ActsShown
    BY <1>2, <1>4, StoresStill, AnswerStill
  <2>2. feed[s].revision \in Nat
    BY <1>2 DEF FeedRow
  <2> QED BY <1>2, <1>4, <2>1, <2>2, WaitingHolds, WaitsKept DEF DialogueKept
<1> QED BY <1>3, <1>4 DEF HistoryPreview

LEMMA ScannedKept ==
    ASSUME DialogueInv, NEW k \in Slots, Scanned(k)
    PROVE  DialogueKept
<1> DEFINE s == handler[k].page.of
           base == SourcePage(s)
           found == Found(s)
           page == [base EXCEPT !.left = {"history-commit"}, !.list = found]
<1>1. handler[k].op = "history" /\ UNCHANGED inputs
  BY DEF Scanned, Continues
<1>2. s \in Feeds /\ feed[s] \in FeedRow
  BY <1>1, FeedHandled
<1>3. CASE Refused(k)
  BY <1>1, <1>3, RefusedKept
<1>4. CASE UNCHANGED <<stores, draft, asked>> /\ EndsOn(k, page)
  <2>1. StoresMove /\ ActsShown /\ feed' \in [Feeds -> FeedRow] /\ feed' = feed
    BY <1>1, <1>4, StoresStill, AnswerStill DEF stores
  <2>2. /\ base \in Page /\ base.of = s /\ base.revision = feed'[s].revision
        /\ base.shown = feed'[s].config /\ base.wanted = Blank
    BY <1>2, <2>1, SourcePageHolds DEF PageHolds
  <2>3. feed[s].config.content \in Contents /\ "plain" \in Contents /\ 0 \in Nat
    BY <1>2 DEF FeedRow, SourceConfig, Contents
  <2>4. ASSUME NEW e \in found
        PROVE  e \in Entry /\ FeedOf[e.plan] = s /\ e.shown.name = feed[s].config.content
    BY <2>3 DEF Found, Entry, Payload
  <2> HIDE DEF base, found
  <2>5. {"history-commit"} \subseteq FeedOps
    BY DEF FeedOps
  <2>6. /\ page \in Page /\ page.of = s /\ page.revision = feed'[s].revision
        /\ page.shown = feed'[s].config /\ page.left = {"history-commit"} /\ page.list = found
    BY <2>2, <2>4, <2>5 DEF Page
  <2>7. EndsOn(k, page)
    BY <1>4 DEF base, found
  <2> HIDE DEF page
  <2>8. PageHolds(page)
    BY <1>2, <2>1, <2>4, <2>5, <2>6, SourcePagesHold DEF Offering
  <2> QED BY <2>1, <2>7, <2>8, EndsOnKept DEF DialogueKept
<1> QED BY <1>3, <1>4 DEF Scanned

\* What is registered is what the page showed of the attachments no plan had been made for.
LEMMA RegisterHistoryKept ==
    ASSUME DialogueInv, NEW m \in Screens, RegisterHistory(m)
    PROVE  DialogueKept
<1> DEFINE fresh == {e \in screen[m].list : offer[e.plan].status = "absent"}
           s == screen[m].of
<1>1. "history-commit" \in FeedOps /\ Pressed(m, "history-commit")
  BY DEF FeedOps, RegisterHistory
<1>2. /\ inputs' = inputs + 1 /\ screen[m] \in Page /\ s \in Feeds /\ feed[s] \in FeedRow
      /\ screen[m].revision = feed[s].revision => screen[m].shown = feed[s].config
      /\ \A e \in screen[m].list : FeedOf[e.plan] = s /\ e.shown.name = screen[m].shown.content
  BY <1>1, FeedPressed
<1>3. CASE Refuses(m)
  BY <1>2, <1>3, RefusesKept
<1>4. CASE /\ Live(s, screen[m].revision)
           /\ offer' = [p \in Offers |->
                           IF \E e \in fresh : e.plan = p
                           THEN [status |-> "pending", revision |-> 0,
                                 payload |-> (CHOOSE e \in fresh : e.plan = p).shown]
                           ELSE offer[p]]
           /\ Shows(m, NoPage) /\ UNCHANGED <<feed, template, draft, asked>>
  <2>1. screen[m].shown = feed[s].config
    BY <1>2, <1>4 DEF Live, Changeable
  <2>2. ASSUME NEW e \in fresh
        PROVE  /\ e.plan \in Offers /\ offer[e.plan].status = "absent" /\ e.shown \in Payload
               /\ FeedOf[e.plan] = s /\ e.shown.name = feed[s].config.content
    BY <1>2, <2>1 DEF Page, Entry
  <2>3. ASSUME NEW p \in Offers
        PROVE  \/ offer'[p] = offer[p]
               \/ /\ offer[p].status = "absent" /\ offer'[p] \in OfferRow
                  /\ offer'[p].status = "pending"
                  /\ offer'[p].payload.name = feed[FeedOf[p]].config.content
    <3>1. CASE \E e \in fresh : e.plan = p
      <4> DEFINE e == CHOOSE x \in fresh : x.plan = p
      <4>1. e \in fresh /\ e.plan = p
        BY <3>1
      <4>2. offer'[p] = [status |-> "pending", revision |-> 0, payload |-> e.shown]
        BY <1>4, <3>1
      <4> HIDE DEF e
      <4>3. e.shown \in Payload /\ e.shown.name = feed[FeedOf[p]].config.content
            /\ offer[p].status = "absent"
        BY <2>2, <4>1
      <4>4. offer'[p] \in OfferRow
        BY <4>2, <4>3 DEF OfferRow
      <4> QED BY <4>2, <4>3, <4>4
    <3>2. CASE ~ \E e \in fresh : e.plan = p
      BY <1>4, <3>2
    <3> QED BY <3>1, <3>2
  <2>4. OfferMoves(offer, offer')
    BY <1>4, <2>3, OffersMove
  <2>5. FeedMoves(feed, feed') /\ FoldersMade(feed')
    BY <1>4, FeedStill
  <2>6. DraftMoves(draft, draft', inputs, inputs') /\ DraftSound(draft', feed', inputs')
    BY <1>2, <1>4, <2>5, DraftStill
  <2>7. StoresMove
    BY <1>4, <2>4, <2>5, <2>6, TemplateStill, AnswerStill DEF StoresMove
  <2>8. ActsShown
    <3> HIDE DEF fresh
    <3> QED BY <1>4, <2>3 DEF ActsShown
  <2> QED BY <1>4, <2>7, <2>8, NoPageHolds, ShowsKept DEF DialogueKept
<1> QED BY <1>3, <1>4 DEF RegisterHistory


-------------------------------------------------------------------------------
(* Plans *)

LEMMA OtherChoice == \A value : Other(value) \in Contents
<1>1. \A value : \E x \in Contents : x # value
  BY DEF Contents
<1> QED BY <1>1 DEF Other

LEMMA OfferEdited ==
    ASSUME DialogueInv, NEW p \in Offers, NEW payload \in Payload,
           NEW status \in {"pending", "submitted", "ignored", "expired"},
           offer' = [offer EXCEPT ![p] = Edited(p, payload, status)],
           UNCHANGED <<feed, template, draft>>, AnswerSound(asked'), inputs' \in {inputs, inputs + 1}
    PROVE  /\ StoresMove /\ offer' \in [Offers -> OfferRow]
           /\ offer'[p].status = status /\ \A q \in Offers : q # p => offer'[q] = offer[q]
           /\ status # "submitted" /\ offer[p].status # "absent" => ActsShown
<1>1. offer \in [Offers -> OfferRow]
  BY DEF DialogueInv, StoresTyped
<1>2. offer'[p] = Edited(p, payload, status) /\ \A q \in Offers : q # p => offer'[q] = offer[q]
  BY <1>1
<1>3. OfferMoves(offer, offer') /\ offer' \in [Offers -> OfferRow]
  <2>1. DOMAIN offer' = Offers /\ offer' = [q \in Offers |-> offer'[q]]
    BY <1>1
  <2> QED BY <1>2, <2>1, OffersMove
<1>4. offer'[p].status = status
  BY <1>2, EditedTypes
<1>5. FeedMoves(feed, feed') /\ FoldersMade(feed')
  BY FeedStill
<1>6. DraftMoves(draft, draft', inputs, inputs') /\ DraftSound(draft', feed', inputs')
  BY <1>5, DraftStill
<1>7. StoresMove
  BY <1>3, <1>5, <1>6, TemplateStill DEF StoresMove
<1>8. ASSUME status # "submitted", offer[p].status # "absent" PROVE ActsShown
  <2>1. OffersQuiet
    BY <1>2, <1>4, <1>8 DEF OffersQuiet
  <2> QED BY <2>1, NothingActs
<1> QED BY <1>2, <1>3, <1>4, <1>7, <1>8

\* A handler is given the plan as the card showed it, or the batch as it is now.
LEMMA ApprovesKept ==
    ASSUME DialogueInv, NEW m \in Screens, NEW op \in {"approve", "batch-approve"}, Approves(m, op)
    PROVE  DialogueKept
<1> DEFINE p == screen[m].of
           one == [plan |-> p, revision |-> screen[m].revision, shown |-> screen[m].shown]
           list == IF op = "batch-approve" THEN Listed(FeedOf[p]) ELSE {one}
           page == [screen[m] EXCEPT !.list = list]
           h == [op |-> op, at |-> "check", on |-> m, page |-> page, seen |-> 0]
<1>1. op \in OfferOps /\ Pressed(m, op)
  BY DEF OfferOps, Approves
<1>2. /\ inputs' = inputs + 1 /\ screen[m] \in Page /\ p \in Offers
      /\ EntryTrue(p, screen[m].revision, screen[m].shown, offer)
  BY <1>1, OfferPressed
<1>3. CASE Refuses(m)
  BY <1>2, <1>3, RefusesKept
<1>4. CASE /\ StillPending(p, screen[m].revision) /\ Waits(m, op, "check", page, 0)
           /\ UNCHANGED <<stores, draft, asked>>
  <2>1. StoresMove /\ ActsShown
    BY <1>2, <1>4, StoresStill, AnswerStill
  <2>2. \A q \in Offers : offer[q].revision \in Nat /\ offer[q].payload \in Payload
    BY DEF DialogueInv, StoresTyped, OfferRow
  <2>3. one \in Entry /\ EntryTrue(one.plan, one.revision, one.shown, offer)
    <3>1. screen[m].revision = offer[p].revision /\ screen[m].shown = offer[p].payload
      BY <1>2, <1>4 DEF StillPending, EntryTrue
    <3> QED BY <1>2, <2>2, <3>1 DEF Entry
  <2>4. ASSUME NEW e \in Listed(FeedOf[p])
        PROVE  e \in Entry /\ EntryTrue(e.plan, e.revision, e.shown, offer)
    <3>1. PICK q \in Offers : /\ offer[q].status = "pending"
                              /\ e = [plan |-> q, revision |-> offer[q].revision, shown |-> offer[q].payload]
      BY DEF Listed
    <3>2. offer[q].revision <= offer[q].revision
      BY <2>2
    <3> QED BY <2>2, <3>1, <3>2 DEF Entry, EntryTrue
  <2>5. \A e \in list : e \in Entry /\ EntryTrue(e.plan, e.revision, e.shown, offer)
    <3> HIDE DEF one
    <3> QED BY <2>3, <2>4
  <2> HIDE DEF list
  <2>6. page \in Page /\ page.list = list
    BY <1>2, <2>5 DEF Page
  <2> HIDE DEF page
  <2>7. h \in Handling /\ h.op = op /\ h.page = page
    BY <2>6 DEF Handling
  <2> HIDE DEF h
  <2>8. HandlerHolds(h)
    BY <2>5, <2>6, <2>7 DEF HandlerHolds, HandlerTrue, MakesFolder
  <2> QED BY <1>4, <2>1, <2>8, WaitsKept DEF DialogueKept, h
<1> QED BY <1>3, <1>4 DEF Approves

\* The plan that is submitted is still the one that was shown or listed.
LEMMA SubmitsOneKept ==
    ASSUME DialogueInv, NEW k \in Slots, SubmitsOne(k)
    PROVE  DialogueKept
<1> DEFINE page == handler[k].page
<1>1. /\ handler[k].op \in {"approve", "batch-approve"} /\ UNCHANGED <<inputs, feed, template, draft, asked>>
      /\ handler[k].at = "check"
  BY DEF SubmitsOne, Continues
<1>2. /\ handler \in [Slots -> Handling] /\ handler[k] \in Handling /\ page \in Page
      /\ HandlerTrue(handler[k], feed, offer)
  BY DEF DialogueInv, HandlersTrue, Handling
<1>3. PICK e \in page.list :
          /\ \/ /\ Submittable(e)
                /\ offer' = [offer EXCEPT ![e.plan] = Edited(e.plan, @.payload, "submitted")]
             \/ UNCHANGED offer
          /\ IF page.list = {e} THEN EndsOn(k, NoPage)
             ELSE /\ handler' = [handler EXCEPT ![k].page.list = @ \ {e}]
                  /\ UNCHANGED screen
  BY DEF SubmitsOne
<1>4. e \in Entry /\ EntryTrue(e.plan, e.revision, e.shown, offer)
  BY <1>1, <1>2 DEF HandlerTrue, Page
<1>5. e.plan \in Offers /\ offer[e.plan].payload \in Payload
  BY <1>4 DEF Entry, DialogueInv, StoresTyped, OfferRow
<1> DEFINE less == [page EXCEPT !.list = @ \ {e}]
           h == [handler[k] EXCEPT !.page = less]
<1>6. less \in Page /\ less.list = page.list \ {e}
  BY <1>2 DEF Page
<1>7. h \in Handling /\ h.op = handler[k].op /\ h.page = less
  <2> HIDE DEF less
  <2> QED BY <1>2, <1>6 DEF Handling
<1>8. HandlerHolds(h)
  <2>1. HandlerTrue(h, feed, offer)
    <3> HIDE DEF h, less
    <3> QED BY <1>1, <1>2, <1>6, <1>7 DEF HandlerTrue, MakesFolder
  <2> QED BY <1>7, <2>1 DEF HandlerHolds
<1>9. ASSUME page.list # {e}
      PROVE  handler' = [handler EXCEPT ![k] = h] /\ screen' = screen
  BY <1>2, <1>3, <1>9 DEF Handling, Page
<1>10. handler'[k] # handler[k]
  <2>1. CASE page.list = {e}
    BY <1>1, <1>2, <1>3, <2>1 DEF EndsOn, NoHandler
  <2>2. CASE page.list # {e}
    <3>1. handler'[k] = h /\ h.page.list # handler[k].page.list
      BY <1>2, <1>6, <1>7, <1>9, <2>2
    <3> QED BY <3>1
  <2> QED BY <2>1, <2>2
<1>11. StoresMove /\ ActsShown
  <2>1. CASE UNCHANGED offer
    BY <1>1, <2>1, StoresStill, AnswerStill DEF stores
  <2>2. CASE /\ Submittable(e)
             /\ offer' = [offer EXCEPT ![e.plan] = Edited(e.plan, offer[e.plan].payload, "submitted")]
    <3>1. /\ StoresMove /\ offer'[e.plan].status = "submitted"
          /\ \A q \in Offers : q # e.plan => offer'[q] = offer[q]
      BY <1>1, <1>5, <2>2, OfferEdited, AnswerStill
    <3>2. e.shown = offer[e.plan].payload
      BY <1>4, <2>2 DEF Submittable, StillPending, EntryTrue
    <3>3. page \in Acting
      BY <1>10, HandlerActs
    <3>4. ActsShown
      BY <1>1, <3>1, <3>2, <3>3 DEF ActsShown
    <3> QED BY <3>1, <3>4
  <2> QED BY <1>3, <2>1, <2>2
<1>12. CASE page.list = {e}
  BY <1>3, <1>11, <1>12, NoPageHolds, EndsOnKept DEF DialogueKept
<1>13. CASE page.list # {e}
  <2> HIDE DEF h
  <2>1. /\ handler' \in [Slots -> Handling] /\ \A j \in Slots : handler'[j] \in {handler[j], h}
        /\ screen' \in [Screens -> Page] /\ \A n \in Screens : screen'[n] = screen[n]
    BY <1>2, <1>7, <1>9, <1>13 DEF DialogueInv, CardsTrue
  <2> QED BY <1>8, <1>11, <2>1, WhatStaysHolds, CardsKept DEF DialogueKept
<1> QED BY <1>12, <1>13

LEMMA EditsOfferKept ==
    ASSUME DialogueInv, NEW m \in Screens, NEW op \in {"ignore", "choose-directory"}, EditsOffer(m, op)
    PROVE  DialogueKept
<1> DEFINE p == screen[m].of
           other == [offer[p].payload EXCEPT !.directory = Other(@)]
<1>1. op \in OfferOps /\ Pressed(m, op)
  BY DEF OfferOps, EditsOffer
<1>2. inputs' = inputs + 1 /\ p \in Offers /\ offer[p] \in OfferRow /\ offer[p].payload \in Payload
  BY <1>1, OfferPressed DEF OfferRow
<1>3. CASE Refuses(m)
  BY <1>2, <1>3, RefusesKept
<1>4. other \in Payload
  BY <1>2, OtherChoice DEF Payload
<1>5. ASSUME StillPending(p, screen[m].revision), NEW payload \in Payload, NEW status \in {"ignored", "pending"},
             offer' = [offer EXCEPT ![p] = Edited(p, payload, status)],
             Shows(m, OfferPage(p)), UNCHANGED <<feed, template, draft, asked>>
      PROVE  DialogueKept
  <2>1. offer[p].status = "pending"
    BY <1>5 DEF StillPending
  <2>2. StoresMove /\ offer' \in [Offers -> OfferRow] /\ ActsShown
    BY <1>2, <1>5, <2>1, OfferEdited, AnswerStill
  <2> QED BY <1>2, <1>5, <2>2, OfferPageHolds, ShowsKept DEF DialogueKept
<1>6. CASE ~ Refuses(m)
  <2>1. /\ StillPending(p, screen[m].revision)
        /\ offer' = [offer EXCEPT ![p] = IF op = "ignore" THEN Edited(p, offer[p].payload, "ignored")
                                         ELSE Edited(p, other, "pending")]
        /\ Shows(m, OfferPage(p)) /\ UNCHANGED <<feed, template, draft, asked>>
    BY <1>6 DEF EditsOffer
  <2>2. CASE op = "ignore"
    BY <1>2, <1>5, <2>1, <2>2
  <2>3. CASE op # "ignore"
    <3> HIDE DEF other
    <3> QED BY <1>4, <1>5, <2>1, <2>3
  <2> QED BY <2>2, <2>3
<1> QED BY <1>3, <1>6

LEMMA TurnsPageKept ==
    ASSUME DialogueInv, NEW m \in Screens, NEW op \in {"directory", "batch", "batch-directory"},
           TurnsPage(m, op)
    PROVE  DialogueKept
<1> DEFINE p == screen[m].of
           left == CASE op = "directory" -> {"choose-directory"}
                     [] op = "batch" -> {"batch-approve", "batch-directory"}
                     [] op = "batch-directory" -> {"batch-set-directory"}
           list == IF op = "batch-directory" THEN Listed(FeedOf[p]) ELSE {}
           page == [screen[m] EXCEPT !.left = left, !.list = list]
<1>1. op \in OfferOps /\ Pressed(m, op)
  BY DEF OfferOps, TurnsPage
<1>2. /\ inputs' = inputs + 1 /\ screen[m] \in Page /\ p \in Offers
      /\ EntryTrue(p, screen[m].revision, screen[m].shown, offer)
  BY <1>1, OfferPressed
<1>3. CASE Refuses(m)
  BY <1>2, <1>3, RefusesKept
<1>4. CASE Shows(m, page) /\ UNCHANGED <<stores, draft, asked>>
  <2>1. StoresMove /\ ActsShown
    BY <1>2, <1>4, StoresStill, AnswerStill
  <2>2. left \subseteq OfferOps
    <3>1. op = "directory" \/ op = "batch" \/ op = "batch-directory"
      OBVIOUS
    <3> QED BY <3>1 DEF OfferOps
  <2>3. \A q \in Offers : offer[q].revision \in Nat /\ offer[q].payload \in Payload
    BY DEF DialogueInv, StoresTyped, OfferRow
  <2>4. list \subseteq Entry
    BY <2>3 DEF Listed, Entry
  <2>5. Shows(m, page)
    BY <1>4
  <2> HIDE DEF left, list
  <2>6. /\ page \in Page /\ page.of = p /\ page.revision = screen[m].revision
        /\ page.shown = screen[m].shown /\ page.left = left
    BY <1>2, <2>2, <2>4 DEF Page
  <2> HIDE DEF page
  <2>7. /\ ~ Offering(page, FeedOps) /\ ~ Offering(page, {"template-apply"}) /\ ~ Offering(page, DraftOps)
    BY <2>2, <2>6 DEF Offering, OfferOps, FeedOps, DraftOps, EditorOps
  <2>8. PageTrue(page, feed, offer, template, draft, inputs)
    BY <1>2, <2>6, <2>7 DEF PageTrue, SourceTrue, OfferTrue, TemplateTrue, DraftTrue
  <2> QED BY <2>1, <2>5, <2>6, <2>8, ShowsKept DEF DialogueKept, PageHolds
<1> QED BY <1>3, <1>4 DEF TurnsPage

LEMMA BatchSetDirectoryKept ==
    ASSUME DialogueInv, NEW m \in Screens, BatchSetDirectory(m)
    PROVE  DialogueKept
<1> DEFINE list == screen[m].list
           other(p) == [offer[p].payload EXCEPT !.directory = Other(@)]
<1>1. inputs' = inputs + 1
  BY DEF BatchSetDirectory, Pressed
<1>2. CASE Refuses(m)
  BY <1>1, <1>2, RefusesKept
<1>3. CASE /\ \A e \in list : StillPending(e.plan, e.revision)
           /\ offer' = [p \in Offers |-> IF \E e \in list : e.plan = p
                                         THEN Edited(p, other(p), "pending") ELSE offer[p]]
           /\ Shows(m, NoPage) /\ UNCHANGED <<feed, template, draft, asked>>
  <2>1. ASSUME NEW p \in Offers
        PROVE  \/ offer'[p] = offer[p]
               \/ /\ offer[p].status = "pending" /\ other(p) \in Payload
                  /\ offer'[p] = Edited(p, other(p), "pending")
    <3>1. offer[p].payload \in Payload
      BY DEF DialogueInv, StoresTyped, OfferRow
    <3>2. other(p) \in Payload
      BY <3>1, OtherChoice DEF Payload
    <3> HIDE DEF other
    <3> QED BY <1>3, <3>2 DEF StillPending
  <2>2. DOMAIN offer' = Offers /\ offer' = [p \in Offers |-> offer'[p]]
    BY <1>3
  <2>3. OfferMoves(offer, offer')
    BY <2>1, <2>2, OffersMove
  <2>4. OffersQuiet
    BY <2>1, EditedTypes DEF OffersQuiet
  <2>5. FeedMoves(feed, feed') /\ FoldersMade(feed')
    BY <1>3, FeedStill
  <2>6. DraftMoves(draft, draft', inputs, inputs') /\ DraftSound(draft', feed', inputs')
    BY <1>1, <1>3, <2>5, DraftStill
  <2>7. StoresMove
    BY <1>3, <2>3, <2>5, <2>6, TemplateStill, AnswerStill DEF StoresMove
  <2>8. ActsShown
    BY <1>3, <2>4, NothingActs
  <2> QED BY <1>3, <2>7, <2>8, NoPageHolds, ShowsKept DEF DialogueKept
<1> QED BY <1>2, <1>3 DEF BatchSetDirectory

LEMMA ExpiresKept ==
    ASSUME DialogueInv, NEW p \in Offers, Expires(p)
    PROVE  DialogueKept
<1>1. /\ offer[p].status = "pending"
      /\ offer' = [offer EXCEPT ![p] = Edited(p, offer[p].payload, "expired")]
      /\ UNCHANGED <<feed, template, draft, asked, screen, handler, inputs>>
  BY DEF Expires
<1>2. offer[p].payload \in Payload
  BY DEF DialogueInv, StoresTyped, OfferRow
<1>3. StoresMove /\ ActsShown
  BY <1>1, <1>2, OfferEdited, AnswerStill
<1> QED BY <1>1, <1>3, WhatStaysHolds, CardsKept DEF DialogueKept, DialogueInv, CardsTrue, HandlersTrue


-------------------------------------------------------------------------------
(* The editor *)

LEMMA EditorStartKept ==
    ASSUME DialogueInv, NEW m \in Screens, EditorStart(m)
    PROVE  DialogueKept
<1> DEFINE s == screen[m].of
           d == [id |-> inputs', version |-> 1, of |-> s, revision |-> screen[m].revision,
                 original |-> feed[s].config, config |-> feed[s].config]
<1>1. "edit" \in FeedOps /\ Pressed(m, "edit")
  BY DEF FeedOps, EditorStart
<1>2. inputs' = inputs + 1 /\ screen[m] \in Page /\ s \in Feeds /\ feed[s] \in FeedRow
  BY <1>1, FeedPressed
<1>3. CASE Refuses(m)
  BY <1>2, <1>3, RefusesKept
<1>4. CASE /\ feed[s].revision = screen[m].revision /\ draft' = d /\ asked' = NoAnswer
           /\ Shows(m, DraftPage(EditorOps)) /\ UNCHANGED stores
  <2>1. feed' = feed /\ offer' = offer /\ template' = template
    BY <1>4 DEF stores
  <2>2. inputs \in Nat /\ inputs' \in Nat /\ inputs' > inputs /\ inputs' # 0 /\ inputs <= inputs'
        /\ inputs' <= inputs'
    BY <1>2 DEF DialogueInv, StoresTyped
  <2>3. feed[s].revision \in Nat /\ feed[s].config \in SourceConfig /\ feed[s].config \in Config
    BY <1>2 DEF FeedRow, SourceConfig, Config
  <2>4. d \in DraftRow
    BY <1>2, <1>4, <2>2, <2>3 DEF DraftRow
  <2>5. d.id = inputs' /\ d.of = s /\ d.revision = feed[s].revision /\ d.original = feed[s].config
        /\ d.config = feed[s].config
    BY <1>4
  <2>6. d # NoDraft
    BY <2>2, <2>5 DEF NoDraft
  <2>7. draft' = d
    BY <1>4
  <2> HIDE DEF d
  <2>8. DraftSound(draft', feed', inputs')
    BY <1>2, <2>1, <2>2, <2>3, <2>4, <2>5, <2>7 DEF DraftSound
  <2>9. DraftMoves(draft, draft', inputs, inputs')
    BY <2>2, <2>4, <2>5, <2>7 DEF DraftMoves, DialogueInv, DraftSound
  <2>10. StoresMove
    BY <1>4, <2>1, <2>8, <2>9, FeedStill, OfferStill, TemplateStill, AnswerStill DEF StoresMove
  <2>11. ActsShown
    BY <2>1, QuietOffers, NothingActs
  <2>12. EditorOps \in SUBSET DraftOps
    BY DEF DraftOps
  <2> QED BY <1>4, <2>6, <2>7, <2>8, <2>10, <2>11, <2>12, DraftPageHolds, ShowsKept DEF DialogueKept
<1> QED BY <1>3, <1>4 DEF EditorStart

\* A page more of the draft.
LEMMA DraftTurns ==
    ASSUME DialogueInv, draft # NoDraft, NEW config \in SourceConfig,
           draft' = [draft EXCEPT !.version = @ + 1, !.config = config],
           UNCHANGED stores, inputs' \in {inputs, inputs + 1}, AnswerSound(asked')
    PROVE  /\ StoresMove /\ ActsShown /\ draft' # NoDraft /\ DraftSound(draft', feed', inputs')
           /\ \A ops \in SUBSET DraftOps : PageHolds(DraftPage(ops))
<1>1. feed' = feed /\ offer' = offer /\ template' = template
  BY DEF stores
<1>2. inputs \in Nat /\ inputs' \in Nat /\ inputs <= inputs'
  BY DEF DialogueInv, StoresTyped
<1>3. /\ draft \in DraftRow /\ draft.of \in Feeds /\ draft.id # 0 /\ draft.id <= inputs
      /\ draft.original \in SourceConfig /\ draft.revision <= feed[draft.of].revision
      /\ draft.revision = feed[draft.of].revision => draft.original = feed[draft.of].config
  BY DEF DialogueInv, DraftSound
<1>4. draft.version \in Nat /\ draft.version + 1 \in Nat /\ draft.id \in Nat /\ config \in Config
  BY <1>3 DEF DraftRow, SourceConfig, Config
<1>5. /\ draft' \in DraftRow /\ draft'.id = draft.id /\ draft'.version = draft.version + 1
      /\ draft'.of = draft.of /\ draft'.revision = draft.revision /\ draft'.original = draft.original
      /\ draft'.config = config
  BY <1>3, <1>4 DEF DraftRow
<1>6. draft' # NoDraft
  BY <1>3, <1>5 DEF NoDraft
<1>7. draft'.id <= inputs'
  BY <1>2, <1>3, <1>4, <1>5
<1>8. DraftSound(draft', feed', inputs')
  BY <1>1, <1>3, <1>5, <1>7 DEF DraftSound
<1>9. DraftMoves(draft, draft', inputs, inputs')
  <2>1. draft.version <= draft'.version /\ draft.version # draft'.version
    BY <1>4, <1>5
  <2> QED BY <1>2, <1>3, <1>5, <2>1 DEF DraftMoves
<1>10. StoresMove /\ ActsShown
  BY <1>1, <1>8, <1>9, FeedStill, OfferStill, TemplateStill, QuietOffers, NothingActs DEF StoresMove
<1> QED BY <1>6, <1>8, <1>10, DraftPageHolds

LEMMA VariantsAre ==
    ASSUME NEW config \in SourceConfig
    PROVE  Variants(config) \subseteq SourceConfig
BY OtherChoice DEF Variants, SourceConfig, Layouts

LEMMA RedrawsHolds ==
    ASSUME DialogueInv, draft # NoDraft, NEW configs \in SUBSET SourceConfig, Redraws(configs),
           inputs' \in {inputs, inputs + 1}
    PROVE  StoresMove /\ ActsShown /\ \A page \in Drawn : PageHolds(page)
<1>1. PICK config \in configs : draft' = [draft EXCEPT !.version = @ + 1, !.config = config]
  BY DEF Redraws
<1>2. UNCHANGED stores /\ AnswerSound(asked')
  BY AnswerStill DEF Redraws
<1>3. config \in SourceConfig
  OBVIOUS
<1>4. StoresMove /\ ActsShown /\ \A ops \in SUBSET DraftOps : PageHolds(DraftPage(ops))
  BY <1>1, <1>2, <1>3, DraftTurns
<1> QED BY <1>4 DEF Drawn, DraftOps

LEMMA DraftConfig ==
    ASSUME DialogueInv, draft # NoDraft
    PROVE  draft.config \in SourceConfig /\ draft.of \in Feeds
BY DEF DialogueInv, DraftSound

LEMMA EditorChangeKept ==
    ASSUME DialogueInv, NEW m \in Screens, NEW op \in {"change", "page"}, EditorChange(m, op)
    PROVE  DialogueKept
<1>1. inputs' = inputs + 1
  BY DEF EditorChange, Pressed
<1>2. CASE Refuses(m)
  BY <1>1, <1>2, RefusesKept
<1>3. CASE ~ Refuses(m)
  <2> DEFINE configs == IF op = "change" THEN Variants(draft.config) ELSE {draft.config}
  <2>1. /\ draft # NoDraft /\ Redraws(configs) /\ \E page \in Drawn : Shows(m, page)
    BY <1>3 DEF EditorChange, Requires
  <2>2. configs \in SUBSET SourceConfig
    BY <2>1, DraftConfig, VariantsAre
  <2> HIDE DEF configs
  <2>3. StoresMove /\ ActsShown /\ \A page \in Drawn : PageHolds(page)
    BY <1>1, <2>1, <2>2, RedrawsHolds
  <2> QED BY <2>1, <2>3, ShowsKept DEF DialogueKept
<1> QED BY <1>2, <1>3

LEMMA EditorRecentKept ==
    ASSUME DialogueInv, NEW m \in Screens, EditorRecent(m)
    PROVE  DialogueKept
<1>1. inputs' = inputs + 1
  BY DEF EditorRecent, Pressed
<1>2. CASE Refuses(m)
  BY <1>1, <1>2, RefusesKept
<1>3. CASE Waits(m, "recent", "recent", screen[m], 0) /\ UNCHANGED <<stores, draft, asked>>
  <2>1. StoresMove /\ ActsShown
    BY <1>1, <1>3, StoresStill, AnswerStill
  <2>2. screen[m] \in Page /\ 0 \in Nat
    BY DEF DialogueInv, CardsTrue
  <2> QED BY <1>3, <2>1, <2>2, WaitingHolds, WaitsKept DEF DialogueKept
<1> QED BY <1>2, <1>3 DEF EditorRecent

LEMMA EditorTestedKept ==
    ASSUME DialogueInv, NEW k \in Slots, EditorTested(k)
    PROVE  DialogueKept
<1>1. UNCHANGED inputs
  BY DEF EditorTested, Continues
<1>2. CASE Refused(k)
  BY <1>1, <1>2, RefusedKept
<1>3. CASE ~ Refused(k)
  <2>1. /\ draft # NoDraft /\ Redraws({draft.config}) /\ \E page \in Drawn : EndsOn(k, page)
    BY <1>3 DEF EditorTested, Requires
  <2>2. {draft.config} \in SUBSET SourceConfig
    BY <2>1, DraftConfig
  <2>3. StoresMove /\ ActsShown /\ \A page \in Drawn : PageHolds(page)
    BY <1>1, <2>1, <2>2, RedrawsHolds
  <2> QED BY <2>1, <2>3, EndsOnKept DEF DialogueKept
<1> QED BY <1>2, <1>3

LEMMA EditorPromptKept ==
    ASSUME DialogueInv, NEW m \in Screens, EditorPrompt(m)
    PROVE  DialogueKept
<1>1. inputs' = inputs + 1
  BY DEF EditorPrompt, Pressed
<1>2. CASE Refuses(m)
  BY <1>1, <1>2, RefusesKept
<1>3. CASE ~ Refuses(m)
  <2>1. /\ draft # NoDraft /\ draft' = [draft EXCEPT !.version = @ + 1] /\ UNCHANGED stores
        /\ asked' = [op |-> "editor-input", page |-> DraftPage({})] /\ Shows(m, DraftPage({"page"}))
    BY <1>3 DEF EditorPrompt, Requires
  <2>2. draft' = [draft EXCEPT !.version = @ + 1, !.config = draft.config]
    BY <2>1 DEF DialogueInv, DraftSound, DraftRow
  <2>3. AnswerSound(asked')
    BY <2>1 DEF AnswerSound
  <2>4. {"page"} \in SUBSET DraftOps
    BY DEF DraftOps
  <2>5. StoresMove /\ ActsShown /\ PageHolds(DraftPage({"page"}))
    BY <1>1, <2>1, <2>2, <2>3, <2>4, DraftConfig, DraftTurns
  <2> QED BY <2>1, <2>5, ShowsKept DEF DialogueKept
<1> QED BY <1>2, <1>3

\* What is saved is the draft as the page showed it, over the configuration it was drawn from.
LEMMA EditorSaveKept ==
    ASSUME DialogueInv, NEW m \in Screens, EditorSave(m)
    PROVE  DialogueKept
<1> DEFINE s == screen[m].of
<1>1. "save" \in DraftOps /\ Pressed(m, "save")
  BY DEF DraftOps, EditorOps, EditorSave
<1>2. inputs' = inputs + 1 /\ screen[m] \in Page /\ "save" \in screen[m].left
  BY <1>1, DraftPressed
<1>3. CASE Refuses(m)
  BY <1>2, <1>3, RefusesKept
<1>4. CASE /\ Requires(screen[m]) /\ ChangeSource(s, draft.config, feed[s].enabled)
           /\ \/ /\ Waits(m, "save", "folder", screen[m], feed'[s].revision)
                 /\ UNCHANGED <<draft, asked>>
              \/ Shows(m, NoPage) /\ draft' = NoDraft /\ asked' = NoAnswer
           /\ UNCHANGED template
  <2>1. /\ s \in Feeds /\ screen[m].shown = feed[s].config /\ screen[m].wanted = draft.config
        /\ draft.config \in SourceConfig
    BY <1>1, <1>4, DraftPressed
  <2>2. /\ StoresMove /\ OffersQuiet /\ feed'[s].config = draft.config /\ feed'[s].revision \in Nat
        /\ \A r \in Feeds : r # s => feed'[r] = feed[r]
    BY <1>2, <1>4, <2>1, ChangeMoves
  <2>3. draft.config # Blank /\ draft.config.layout # "none"
    BY <2>1 DEF SourceConfig, Blank, Contents, Layouts
  <2>4. Outcome(screen[m]) = draft.config
    BY <2>1, <2>3 DEF Outcome
  <2>5. CASE Waits(m, "save", "folder", screen[m], feed'[s].revision)
    <3>1. screen'[m].left # screen[m].left
      BY <1>2, <2>5, WaitsThere
    <3>2. ActsShown
      BY <2>1, <2>2, <2>4, <3>1, ChangeActs
    <3> QED BY <1>2, <2>1, <2>2, <2>5, <3>2, WaitingHolds, WaitsKept DEF DialogueKept
  <2>6. CASE Shows(m, NoPage)
    <3>1. screen'[m].left # screen[m].left
      BY <1>2, <2>6, ShownThere DEF NoPage
    <3>2. ActsShown
      BY <2>1, <2>2, <2>4, <3>1, ChangeActs
    <3> QED BY <2>2, <2>6, <3>2, NoPageHolds, ShowsKept DEF DialogueKept
  <2> QED BY <1>4, <2>5, <2>6
<1> QED BY <1>3, <1>4 DEF EditorSave

LEMMA EditorCancelKept ==
    ASSUME DialogueInv, NEW m \in Screens, EditorCancel(m)
    PROVE  DialogueKept
<1>1. "cancel" \in DraftOps /\ Pressed(m, "cancel")
  BY DEF DraftOps, EditorOps, EditorCancel
<1>2. inputs' = inputs + 1
  BY <1>1, DraftPressed
<1>3. CASE Refuses(m)
  BY <1>2, <1>3, RefusesKept
<1>4. CASE ~ Refuses(m)
  <2>1. /\ draft # NoDraft /\ screen[m].draft = <<draft.id, draft.version>>
        /\ draft' = NoDraft /\ asked' = NoAnswer /\ UNCHANGED stores
        /\ Shows(m, SourcePage(screen[m].of))
    BY <1>4 DEF EditorCancel
  <2>2. screen[m].of \in Feeds
    BY <1>1, <2>1, DraftPressed
  <2>3. StoresMove /\ ActsShown /\ feed' \in [Feeds -> FeedRow]
    BY <1>2, <2>1, StoresStill, AnswerStill
  <2> QED BY <2>1, <2>2, <2>3, SourcePageHolds, ShowsKept DEF DialogueKept
<1> QED BY <1>3, <1>4

LEMMA EditorTextKept ==
    ASSUME DialogueInv, NEW m \in Screens, EditorText(m)
    PROVE  DialogueKept
<1>1. inputs' = inputs + 1
  BY DEF EditorText, TextFor
<1>2. CASE Requires(asked.page)
  <2>1. draft # NoDraft /\ Redraws(Variants(draft.config)) /\ \E page \in Drawn : Shows(m, page)
    BY <1>2 DEF EditorText, Requires
  <2>2. Variants(draft.config) \in SUBSET SourceConfig
    BY <2>1, DraftConfig, VariantsAre
  <2>3. StoresMove /\ ActsShown /\ \A page \in Drawn : PageHolds(page)
    BY <1>1, <2>1, <2>2, RedrawsHolds
  <2> QED BY <2>1, <2>3, ShowsKept DEF DialogueKept
<1>3. CASE ~ Requires(asked.page)
  <2>1. UNCHANGED <<stores, draft, asked>> /\ Shows(m, Sorry(asked.page))
    BY <1>3 DEF EditorText
  <2>2. StoresMove /\ ActsShown /\ DraftSound(draft', feed', inputs')
    BY <1>1, <2>1, StoresStill, AnswerStill
  <2> QED BY <2>1, <2>2, SorryHolds, ShowsKept DEF DialogueKept
<1> QED BY <1>2, <1>3

-------------------------------------------------------------------------------
(* Texts that answer *)

LEMMA AsksForKept ==
    ASSUME DialogueInv, NEW m \in Screens, NEW op \in {"save-name", "rename"}, AsksFor(m, op)
    PROVE  DialogueKept
<1>1. Pressed(m, op) /\ inputs' = inputs + 1
  BY DEF AsksFor, Pressed
<1>2. CASE Refuses(m)
  BY <1>1, <1>2, RefusesKept
<1>3. CASE /\ asked' = [op |-> op, page |-> screen[m]]
           /\ Shows(m, NoPage) /\ UNCHANGED <<stores, draft>>
  <2>1. op = "save-name" => screen[m].of \in Feeds
    BY <1>1, FeedPressed DEF FeedOps
  <2>2. op = "rename" => screen[m].of \in Offers
    BY <1>1, OfferPressed DEF OfferOps
  <2>3. AnswerSound(asked')
    BY <1>3, <2>1, <2>2 DEF AnswerSound
  <2>4. StoresMove /\ ActsShown
    BY <1>1, <1>3, <2>3, StoresStill
  <2> QED BY <1>3, <2>4, NoPageHolds, ShowsKept DEF DialogueKept
<1> QED BY <1>2, <1>3 DEF AsksFor

LEMMA RenamesKept ==
    ASSUME DialogueInv, NEW m \in Screens, NEW k \in Slots, Renames(k, m)
    PROVE  DialogueKept
<1> DEFINE p == asked.page.of
           renamed == [offer[p].payload EXCEPT !.name = Other(@)]
           replied == [NoHandler EXCEPT !.at = "replied"]
<1>1. /\ inputs' = inputs + 1 /\ UNCHANGED <<feed, template, draft, asked>> /\ p \in Offers
      /\ AnswerSound(asked')
  BY AnswerStill DEF Renames, TextFor, DialogueInv, AnswerSound
<1>2. screen \in [Screens -> Page] /\ handler \in [Slots -> Handling]
  BY DEF DialogueInv, CardsTrue, HandlersTrue
<1>3. CASE UNCHANGED <<offer, screen, handler>>
  <2>1. StoresMove /\ ActsShown
    BY <1>1, <1>3, StoresStill DEF stores
  <2> QED BY <1>2, <1>3, <2>1, WhatStaysHolds, CardsKept DEF DialogueKept
<1>4. CASE /\ StillPending(p, asked.page.revision)
           /\ offer' = [offer EXCEPT ![p] = Edited(p, renamed, "pending")]
           /\ screen' = [screen EXCEPT ![m] = OfferPage(p)]
           /\ handler' = [handler EXCEPT ![k] = replied]
  <2>1. offer[p].payload \in Payload /\ offer[p].status # "absent"
    BY <1>1, <1>4 DEF DialogueInv, StoresTyped, OfferRow, StillPending
  <2>2. renamed \in Payload
    BY <2>1, OtherChoice DEF Payload
  <2>3. offer' = [offer EXCEPT ![p] = Edited(p, renamed, "pending")]
    BY <1>4
  <2> HIDE DEF renamed
  <2>4. StoresMove /\ offer' \in [Offers -> OfferRow] /\ ActsShown
    BY <1>1, <2>1, <2>2, <2>3, OfferEdited
  <2>5. PageHolds(OfferPage(p))
    BY <1>1, <2>4, OfferPageHolds
  <2>6. replied \in Handling /\ replied.op = "none"
    BY NoPageHolds DEF Handling, NoHandler, PageHolds
  <2> HIDE DEF replied
  <2>7. HandlerHolds(replied)
    BY <2>6 DEF HandlerHolds, HandlerTrue, MakesFolder
  <2>8. handler' = [handler EXCEPT ![k] = replied]
    BY <1>4 DEF replied
  <2>9. /\ screen' \in [Screens -> Page] /\ \A n \in Screens : screen'[n] \in {screen[n], OfferPage(p)}
    BY <1>2, <1>4, <2>5 DEF PageHolds
  <2>10. /\ handler' \in [Slots -> Handling] /\ \A j \in Slots : handler'[j] \in {handler[j], replied}
    BY <1>2, <2>6, <2>8
  <2> QED BY <2>4, <2>5, <2>7, <2>9, <2>10, WhatStaysHolds, CardsKept DEF DialogueKept
<1> QED BY <1>3, <1>4 DEF Renames

LEMMA ForgetsKept ==
    ASSUME DialogueInv, NEW k \in Slots, Forgets(k)
    PROVE  DialogueKept
<1>1. /\ handler' = [handler EXCEPT ![k] = NoHandler] /\ asked' = NoAnswer
      /\ UNCHANGED <<stores, draft, screen, inputs>>
  BY DEF Forgets
<1>2. StoresMove /\ ActsShown
  BY <1>1, StoresStill, AnswerStill
<1>3. screen \in [Screens -> Page] /\ handler \in [Slots -> Handling] /\ NoHandler \in Handling
  BY NoHandlerHolds DEF DialogueInv, CardsTrue, HandlersTrue, HandlerHolds
<1>4. /\ handler' \in [Slots -> Handling] /\ \A j \in Slots : handler'[j] \in {handler[j], NoHandler}
  BY <1>1, <1>3
<1> QED BY <1>1, <1>2, <1>3, <1>4, WhatStaysHolds, NoHandlerHolds, CardsKept DEF DialogueKept

LEMMA DraftLapsesKept == ASSUME DialogueInv, DraftLapses \/ UNCHANGED dialogueVars PROVE DialogueKept
<1>1. /\ draft' \in {draft, NoDraft} /\ UNCHANGED <<stores, asked, screen, handler, inputs>>
  BY DEF DraftLapses, dialogueVars, stores
<1>2. StoresMove /\ ActsShown
  BY <1>1, StoresStill, AnswerStill
<1>3. screen' \in [Screens -> Page] /\ handler' \in [Slots -> Handling]
  BY <1>1 DEF DialogueInv, CardsTrue, HandlersTrue
<1> QED BY <1>1, <1>2, <1>3, WhatStaysHolds, CardsKept DEF DialogueKept

-------------------------------------------------------------------------------
LEMMA DialogueStep == ASSUME DialogueInv, [DialogueNext]_dialogueVars PROVE DialogueKept
<1>1. ASSUME NEW m \in Screens, FeedPress(m) PROVE DialogueKept
  BY <1>1, OpensCardKept, EnablesSourceKept, PausesSourceKept, DeletesKept, RestoresKept,
     RestoresRuleKept, TemplatesKept, TemplateApplyKept, TemplateDeleteKept, HistoryPreviewKept,
     RegisterHistoryKept, RetriesFolderKept, SendsReferenceKept DEF FeedPress
<1>2. ASSUME NEW m \in Screens, OfferPress(m) PROVE DialogueKept
  BY <1>2, ApprovesKept, EditsOfferKept, TurnsPageKept, BatchSetDirectoryKept DEF OfferPress
<1>3. ASSUME NEW m \in Screens, EditorPress(m) PROVE DialogueKept
  BY <1>3, EditorStartKept, EditorChangeKept, EditorRecentKept, EditorPromptKept, EditorSaveKept,
     EditorCancelKept DEF EditorPress
<1>4. ASSUME NEW m \in Screens, Texts(m) PROVE DialogueKept
  BY <1>4, AsksForKept, RenamesKept, SavesTemplateKept, EditorTextKept DEF Texts
<1>5. ASSUME NEW k \in Slots, Resumed(k) PROVE DialogueKept
  BY <1>5, ChatVerifiedKept, FolderMadeKept, FolderFailsKept, EnablesLateKept, AddsAgainKept,
     ScannedKept, SubmitsOneKept, EditorTestedKept, ForgetsKept, ReadFailsKept DEF Resumed
<1>6. ASSUME NEW p \in Offers, Expires(p) PROVE DialogueKept
  BY <1>6, ExpiresKept
<1>7. CASE DraftLapses \/ UNCHANGED dialogueVars
  BY <1>7, DraftLapsesKept
<1> QED BY <1>1, <1>2, <1>3, <1>4, <1>5, <1>6, <1>7 DEF DialogueNext


-------------------------------------------------------------------------------
LEMMA DialogueStarts == ASSUME DialogueInit PROVE DialogueInv
<1>1. feed \in [Feeds -> FeedRow] /\ \A s \in Feeds : feed[s].config.layout = "legacy"
  <2> DEFINE plain == [content |-> "plain", layout |-> "legacy"]
             strict == [content |-> "strict", layout |-> "source_type"]
             rows == {[config |-> plain, revision |-> 1, enabled |-> on, deleted |-> FALSE,
                       made |-> FALSE, past |-> {strict}] : on \in BOOLEAN}
  <2>1. plain \in SourceConfig /\ strict \in SourceConfig /\ plain.layout = "legacy"
    BY DEF SourceConfig, Contents, Layouts
  <2>2. feed \in [Feeds -> rows]
    BY DEF DialogueInit
  <2> HIDE DEF plain, strict
  <2>3. \A r \in rows : r \in FeedRow /\ r.config = plain
    <3> TAKE r \in rows
    <3>1. PICK on \in BOOLEAN : r = [config |-> plain, revision |-> 1, enabled |-> on,
                                     deleted |-> FALSE, made |-> FALSE, past |-> {strict}]
      OBVIOUS
    <3> QED BY <2>1, <3>1 DEF FeedRow
  <2> HIDE DEF rows
  <2> QED BY <2>1, <2>2, <2>3
<1>2. offer \in [Offers -> OfferRow]
  <2> DEFINE payload == [name |-> "plain", directory |-> "plain"]
             rows == {[status |-> st, revision |-> 0, payload |-> payload] : st \in {"absent", "pending"}}
  <2>1. payload \in Payload
    BY DEF Payload, Contents
  <2>2. offer \in [Offers -> rows]
    BY DEF DialogueInit
  <2> HIDE DEF payload
  <2>3. \A r \in rows : r \in OfferRow
    <3> TAKE r \in rows
    <3>1. PICK st \in {"absent", "pending"} : r = [status |-> st, revision |-> 0, payload |-> payload]
      OBVIOUS
    <3> QED BY <2>1, <3>1 DEF OfferRow
  <2> HIDE DEF rows
  <2> QED BY <2>2, <2>3
<1>3. StoresTyped /\ FoldersMade(feed)
  BY <1>1, <1>2 DEF DialogueInit, StoresTyped, TemplateRow, Contents, FoldersMade
<1>4. DraftSound(draft, feed, inputs)
  BY DEF DialogueInit, DraftSound, DraftRow, NoDraft, Blank, Config
<1>5. AnswerSound(asked)
  BY DEF DialogueInit, AnswerSound, NoAnswer
<1>6. CardsTrue
  <2>1. \A m \in Screens : \/ \E s \in Feeds : screen[m] = SourceCard(s, feed[s])
                           \/ \E p \in Offers : screen[m] = OfferCard(p, offer[p])
    BY DEF DialogueInit
  <2>2. \A m \in Screens : screen[m] \in Page /\ PageTrue(screen[m], feed, offer, template, draft, inputs)
    <3> TAKE m \in Screens
    <3>1. ASSUME NEW s \in Feeds, screen[m] = SourceCard(s, feed[s])
          PROVE  screen[m] \in Page /\ PageTrue(screen[m], feed, offer, template, draft, inputs)
      <4>1. feed \in [Feeds -> FeedRow]
        BY <1>1
      <4>2. /\ SourceCard(s, feed[s]) \in Page
            /\ PageTrue(SourceCard(s, feed[s]), feed, offer, template, draft, inputs)
        BY <4>1, SourceCardTrue
      <4> QED BY <3>1, <4>2
    <3>2. ASSUME NEW p \in Offers, screen[m] = OfferCard(p, offer[p])
          PROVE  screen[m] \in Page /\ PageTrue(screen[m], feed, offer, template, draft, inputs)
      BY <1>2, <3>2, OfferCardTrue
    <3> QED BY <2>1, <3>1, <3>2
  <2>3. screen \in [Screens -> {SourceCard(s, feed[s]) : s \in Feeds}
                               \cup {OfferCard(p, offer[p]) : p \in Offers}]
    BY DEF DialogueInit
  <2>4. screen \in [Screens -> Page]
    BY <2>2, <2>3
  <2> QED BY <2>2, <2>4 DEF CardsTrue
<1>7. HandlersTrue
  <2>1. NoHandler \in Handling /\ HandlerTrue(NoHandler, feed, offer)
    BY NoPageHolds DEF NoHandler, Handling, HandlerTrue, MakesFolder, PageHolds
  <2> QED BY <2>1 DEF DialogueInit, HandlersTrue
<1> QED BY <1>3, <1>4, <1>5, <1>6, <1>7 DEF DialogueInv

\* What every card, draft and waiting handler says of a source, a plan, the templates or a
\* draft is so as long as the version it carries is (Dialogue's pages, revisions and versions).
THEOREM DialogueInvariant == DialogueSpec => []DialogueInv
<1>1. DialogueInv /\ [DialogueNext]_dialogueVars => DialogueInv'
  BY DialogueStep DEF DialogueKept
<1> QED BY <1>1, DialogueStarts, PTL DEF DialogueSpec

\* A source that receives into a folder of its own has that folder, whichever handler enabled
\* it and whatever was changed while it waited (prepare_directory, change_source, set_enabled).
THEOREM SourcesAreReady == DialogueSpec => []EnabledIsReady
<1>1. DialogueInv => EnabledIsReady
  BY DEF DialogueInv, FoldersMade, EnabledIsReady
<1> QED BY <1>1, DialogueInvariant, PTL

\* A source is changed, a plan confirmed or registered only as the pressed card showed it,
\* at once or after the handler has waited (change_source, submit_listener_plans, editor_save).
THEOREM CardsActAsShown == DialogueSpec => ActsOnWhatWasShown
<1>1. DialogueInv /\ [DialogueNext]_dialogueVars =>
        [LET acting == {handler[k].page : k \in {j \in Slots : handler'[j] # handler[j]}}
                       \cup {screen[m] : m \in {n \in Screens : screen'[n] # screen[n]}} IN
       /\ \A s \in Feeds : feed'[s].revision # feed[s].revision /\ ~feed[s].deleted =>
             \E page \in acting :
                /\ page.of = s /\ page.shown = feed[s].config
                /\ feed'[s].config = Outcome(page)
       /\ \A p \in Offers : offer'[p].status = "submitted" /\ offer[p].status # "submitted" =>
             \E page \in acting : \E e \in page.list : e.plan = p /\ e.shown = offer[p].payload
       /\ \A p \in Offers : offer'[p].status = "pending" /\ offer[p].status = "absent" =>
             offer'[p].payload.name = feed[FeedOf[p]].config.content]_dialogueVars
  BY DialogueStep DEF DialogueKept, ActsShown, Acting
<1> QED BY <1>1, DialogueInvariant, PTL DEF DialogueSpec, ActsOnWhatWasShown

\* What the dialogue stores, and where its handlers are (editor.py, planning.py).
LEMMA DialogueTypes == DialogueSpec => []DialogueTypeOK
<1>1. DialogueInv => DialogueTypeOK
  <2> SUFFICES ASSUME DialogueInv PROVE DialogueTypeOK
    OBVIOUS
  <2>1. feed \in [Feeds -> FeedRow]
    BY DEF DialogueInv, StoresTyped
  <2>2. ASSUME NEW p \in Offers
        PROVE  /\ offer[p].status \in {"absent", "pending", "submitted", "ignored", "expired"}
               /\ offer[p].payload \in Payload
    BY DEF DialogueInv, StoresTyped, OfferRow
  <2>3. template.content \in Contents \cup {"none"}
    BY DEF DialogueInv, StoresTyped, TemplateRow
  <2>4. draft = NoDraft \/ (draft.of \in Feeds /\ draft.config \in SourceConfig)
    BY DEF DialogueInv, DraftSound
  <2>5. ASSUME NEW k \in Slots
        PROVE  handler[k].at \in {"idle", "chat", "folder", "newest", "scan", "check", "recent",
                                  "resolve", "replied"}
    BY DEF DialogueInv, HandlersTrue, Handling
  <2> QED BY <2>1, <2>2, <2>3, <2>4, <2>5 DEF DialogueTypeOK, FeedRow
<1> QED BY <1>1, DialogueInvariant, PTL
================================================================================
