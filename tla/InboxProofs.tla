------------------------------ MODULE InboxProofs ------------------------------
(***************************************************************************)
(* Proofs about ListenerInbox for any number of messages, any limits, page *)
(* size and window, and any number of edits, failures and crashes.         *)
(***************************************************************************)
EXTENDS ListenerInbox, FiniteSetTheorems, WellFoundedInduction, TLAPS

Results == {"none", "gap", "skipped", "waiting", "queued", "held"}
PlanStates == {"none", "pending", "submitted", "ignored", "expired"}
Labels == {"idle", "verify", "list", "loop", "check", "submit", "notify", "advance"}
SourceType == [enabled : BOOLEAN, deleted : BOOLEAN, rev : Nat, wanted : BOOLEAN,
               confirm : BOOLEAN, cursor : Nat, polled : Nat, gap : BOOLEAN]
EventType == [Messages -> [result : Results, at : Nat]]
PlanType == [Messages -> [status : PlanStates, at : Nat]]
PollType == [at : Labels, rev : Nat, client : Nat, page : SUBSET Messages]
PreviewType == [rev : Nat, client : Nat, found : SUBSET Messages]

Shape ==
    /\ now \in Nat /\ posted \in [Messages -> Nat] /\ newest \in 0..MaxMessage
    /\ source \in SourceType /\ event \in EventType /\ plan \in PlanType
    /\ account \in BOOLEAN /\ client \in Nat /\ clients \in Nat
    /\ poll \in PollType /\ preview \in PreviewType

\* A poll and a preview belong to this revision of the source or an earlier one.
Revisions == source.rev >= 1 /\ poll.rev <= source.rev /\ preview.rev <= source.rev

\* What the records say of a message: it was there when it was decided; a plan
\* that waits has a decision; a plan without one is of a message too old to be
\* read again.
Ledger ==
    \A m \in Messages :
        /\ posted[m] <= now
        /\ Decided(m) => m <= newest /\ posted[m] <= event[m].at
        /\ plan[m].status = "pending" => Decided(m) /\ ~ source.deleted
        /\ plan[m].status # "none" => Decided(m) \/ (m <= newest /\ Old(m))

\* What the poll relies on at each of its steps.
AtLabel ==
    /\ poll.at \in {"idle", "verify", "list"} => poll.page = {}
    /\ poll.at \in {"check", "submit", "notify", "advance"} => poll.page # {}
    /\ poll.at \in {"submit", "notify"} => Decided(First(poll.page))
    /\ poll.at = "check" => ~ Old(First(poll.page))
    /\ poll.at = "advance" =>
          \/ Decided(First(poll.page)) \/ Old(First(poll.page))
          \/ ~ Current(poll.rev, poll.client)

\* While the source is as the poll knew it, nothing lies between the cursor and
\* a message of the page but the page and what need not be read.
Covered ==
    /\ poll.page \subseteq 1..newest
    /\ source.rev = poll.rev =>
          \A p \in poll.page, k \in Messages :
              source.cursor < k /\ k <= p => k \in poll.page \/ Decided(k) \/ Old(k)

\* A preview shows young messages, and rules that want them if it is still live.
Offered ==
    /\ preview.found \subseteq 1..newest
    /\ \A m \in preview.found : ~ Old(m)
    /\ preview.rev = source.rev => source.wanted

InboxInv == Shape /\ Revisions /\ Ledger /\ AtLabel /\ Covered /\ Offered

\* What a step may do: the three action properties.
Jumps ==
    poll.at = "advance" => \A m \in (source.cursor + 1)..source'.cursor : Decided(m) \/ Old(m)
InForce ==
    \A m \in Messages : ~ Decided(m) /\ event'[m].result # "none" =>
        /\ account /\ source.enabled /\ ~ source.deleted
        /\ plan'[m].status = "pending" => source.wanted
        /\ event'[m].result = "skipped" => ~ source.wanted
NotAgain ==
    \A m \in Messages :
        plan[m].status \in {"submitted", "ignored", "expired"} => plan'[m].status # "pending"
Good == InboxInv' /\ Jumps /\ InForce /\ NotAgain

-------------------------------------------------------------------------------
(* Lemmas about the helpers *)

\* The first of a page is in it, and the smallest.
LEMMA FirstIsLeast ==
    ASSUME NEW S \in SUBSET Nat, S # {}
    PROVE  First(S) \in S /\ \A k \in S : First(S) <= k
<1> DEFINE R == OpToRel(<, Nat)
<1>1. \E m \in S : \A k \in S : ~ (<<k, m>> \in R)
  <2> HIDE DEF R
  <2>1. IsWellFoundedOn(R, Nat)
    BY NatLessThanWellFounded DEF R
  <2> QED BY <2>1, WFMin
<1>2. \A k \in S, m \in S : k < m => <<k, m>> \in R
  BY DEF OpToRel
<1>3. \E m \in S : \A k \in S : m <= k
  <2> HIDE DEF R
  <2>1. PICK m \in S : \A k \in S : ~ (<<k, m>> \in R)
    BY <1>1
  <2>2. \A k \in S : ~ (k < m) /\ k \in Nat /\ m \in Nat
    BY <1>2, <2>1
  <2> QED BY <2>2
<1> QED BY <1>3 DEF First

\* With a message of a full page come all smaller ones that were offered.
LEMMA FirstOfCloses ==
    ASSUME NEW n \in Nat, NEW hi \in Nat, NEW S \in SUBSET (1..hi),
           NEW p \in FirstOf(n, S), NEW k \in S, k <= p
    PROVE  k \in FirstOf(n, S)
<1> DEFINE below(x) == {y \in S : y < x}
<1>1. IsFiniteSet(1..hi)
  BY FS_Interval
<1>2. IsFiniteSet(S)
  BY <1>1, FS_Subset
<1>3. IsFiniteSet(below(p)) /\ IsFiniteSet(below(k))
  BY <1>2, FS_Subset
<1>4. below(k) \in SUBSET below(p)
  <2>1. p \in S
    BY DEF FirstOf
  <2>2. \A x \in S : x \in Nat
    OBVIOUS
  <2>3. \A x \in S : x < k => x < p
    BY <2>1, <2>2
  <2> QED BY <2>3
<1>5. Cardinality(below(k)) <= Cardinality(below(p))
  <2> HIDE DEF below
  <2> QED BY <1>3, <1>4, FS_Subset
<1>6. Cardinality(below(k)) \in Nat /\ Cardinality(below(p)) \in Nat
  <2> HIDE DEF below
  <2> QED BY <1>3, FS_CardinalityType
<1>7. Cardinality(below(p)) < n
  BY DEF FirstOf
<1>8. Cardinality(below(k)) < n
  <2> HIDE DEF below
  <2> QED BY <1>5, <1>6, <1>7
<1> QED BY <1>8 DEF FirstOf

\* The first message of the page is one that was posted.
LEMMA FirstPosted ==
    ASSUME InboxInv, poll.page # {}
    PROVE  /\ First(poll.page) \in poll.page /\ First(poll.page) \in Messages
           /\ First(poll.page) <= newest /\ \A k \in poll.page : First(poll.page) <= k
<1>1. poll.page \in SUBSET Nat /\ poll.page \subseteq Messages
  BY InboxAssumption DEF InboxInv, Shape, PollType, Messages
<1> QED BY <1>1, FirstIsLeast DEF InboxInv, Covered, Shape

\* expire_pending ends plans that wait and does nothing else.
LEMMA AgedEffect ==
    ASSUME plan \in PlanType
    PROVE  /\ Aged(plan) \in PlanType
           /\ \A m \in Messages :
                 /\ Aged(plan)[m].status = "pending" => plan[m].status = "pending"
                 /\ Aged(plan)[m].status = "none" <=> plan[m].status = "none"
BY DEF Aged, SetStatus, Expired, PlanType, PlanStates

-------------------------------------------------------------------------------
(* What steps of a kind keep *)

\* Nothing is decided and no plan begins to wait: the records stay in order.
LEMMA LedgerKept ==
    ASSUME InboxInv, UNCHANGED <<event, now, posted, newest>>, plan' \in PlanType,
           source'.deleted => source.deleted \/ \A m \in Messages : plan'[m].status # "pending",
           \A m \in Messages :
              /\ plan'[m].status = "pending" => plan[m].status = "pending"
              /\ plan'[m].status # "none" => plan[m].status # "none"
    PROVE  Ledger' /\ InForce /\ NotAgain
<1>1. Ledger'
  BY DEF InboxInv, Ledger, Decided, Old
<1>2. InForce
  BY DEF InForce, Decided
<1>3. NotAgain
  BY DEF NotAgain
<1> QED BY <1>1, <1>2, <1>3

\* A message is decided under the rules in force.
LEMMA LedgerGrows ==
    ASSUME InboxInv, UNCHANGED <<source, now, posted, newest>>,
           account, source.enabled, ~ source.deleted,
           NEW D \in SUBSET Messages,
           \A m \in D : m <= newest /\ ~ Decided(m) /\ event'[m].at = now,
           \A m \in Messages \ D : event'[m] = event[m],
           \A m \in D : event'[m].result = "skipped" => ~ source.wanted,
           plan' \in PlanType,
           \/ plan' = plan
           \/ /\ source.wanted
              /\ \A m \in D : ~ Old(m) /\ event'[m].result # "none"
              /\ \A m \in Messages \ D :
                    /\ plan'[m].status = "pending" => plan[m].status = "pending"
                    /\ plan'[m].status # "none" => plan[m].status # "none"
    PROVE  Ledger' /\ InForce /\ NotAgain
<1>1. ASSUME NEW m \in D PROVE plan[m].status # "pending" /\ m <= newest /\ posted[m] <= now
  BY <1>1 DEF InboxInv, Ledger
<1>2. Ledger'
  <2> SUFFICES ASSUME NEW m \in Messages
               PROVE  /\ posted[m] <= now
                      /\ event'[m].result # "none" => m <= newest /\ posted[m] <= event'[m].at
                      /\ plan'[m].status = "pending" => event'[m].result # "none" /\ ~ source.deleted
                      /\ plan'[m].status # "none" => event'[m].result # "none" \/ (m <= newest /\ Old(m))
    BY DEF Ledger, Decided, Old
  <2>1. CASE m \in D
    BY <1>1, <2>1 DEF InboxInv, Ledger, Decided
  <2>2. CASE m \notin D
    BY <2>2 DEF InboxInv, Ledger, Decided
  <2> QED BY <2>1, <2>2
<1>3. InForce
  <2> SUFFICES ASSUME NEW m \in Messages, ~ Decided(m), event'[m].result # "none"
               PROVE  /\ plan'[m].status = "pending" => source.wanted
                      /\ event'[m].result = "skipped" => ~ source.wanted
    BY DEF InForce
  <2>1. m \in D
    BY DEF Decided
  <2> QED BY <1>1, <2>1
<1>4. NotAgain
  <2> SUFFICES ASSUME NEW m \in Messages, plan[m].status \in {"submitted", "ignored", "expired"},
                      plan'[m].status = "pending"
               PROVE  FALSE
    BY DEF NotAgain
  <2>1. m \in D
    OBVIOUS
  <2> QED BY <1>1, <2>1 DEF InboxInv, Ledger
<1> QED BY <1>2, <1>3, <1>4

\* Decisions and ages stay as they are, or more is decided.
Stays ==
    /\ now' = now /\ newest' \in Nat /\ newest <= newest'
    /\ \A m \in 1..newest : posted'[m] = posted[m]
    /\ \A m \in Messages : Decided(m) => event'[m].result # "none"

\* The page goes on to another label with the same messages.
LEMMA PageKept ==
    ASSUME InboxInv, Stays, poll'.page = poll.page, poll'.rev = poll.rev,
           \/ source'.rev = source.rev /\ source'.cursor = source.cursor
           \/ source'.rev # poll.rev
    PROVE  Covered'
<1>1. poll.page \subseteq 1..newest /\ newest \in Nat /\ poll.page \subseteq Messages
  BY DEF InboxInv, Covered, Shape, PollType
<1>2. poll'.page \subseteq 1..newest'
  BY <1>1 DEF Stays
<1>3. ASSUME source'.rev = poll'.rev, NEW p \in poll.page, NEW k \in Messages,
             source'.cursor < k, k <= p
      PROVE  k \in poll.page \/ event'[k].result # "none" \/ now' - posted'[k] > Lookback
  <2>1. k \in poll.page \/ Decided(k) \/ Old(k)
    BY <1>3 DEF InboxInv, Covered
  <2>2. k \in 1..newest
    BY <1>1, <1>3 DEF Messages
  <2> QED BY <2>1, <2>2 DEF Stays, Old
<1> QED BY <1>2, <1>3 DEF Covered, Decided, Old

\* A poll that ends, or has not begun, has no page.
LEMMA NoPage ==
    ASSUME poll'.page = {}, poll'.at \in {"idle", "verify", "list", "loop"}
    PROVE  AtLabel' /\ Covered'
BY DEF AtLabel, Covered

\* Whatever else runs while the poll waits leaves its page alone.
LEMMA PollKept ==
    ASSUME InboxInv, Stays, poll' = poll,
           \/ source'.rev = source.rev /\ source'.cursor = source.cursor
           \/ source'.rev # poll.rev,
           poll.at = "advance" => UNCHANGED <<source, account, client>>
    PROVE  AtLabel' /\ Covered' /\ Jumps
<1>1. Covered'
  BY PageKept
<1>2. AtLabel'
  <2>1. CASE poll.page = {}
    BY <2>1 DEF InboxInv, AtLabel
  <2>2. CASE poll.page # {}
    <3> DEFINE m == First(poll.page)
    <3>1. m \in Messages /\ m \in 1..newest
      BY <2>2, FirstPosted DEF Messages, InboxInv, Shape
    <3>2. (Decided(m) => event'[m].result # "none") /\ (Old(m) <=> now' - posted'[m] > Lookback)
      <4> HIDE DEF m
      <4> QED BY <3>1 DEF Stays, Old
    <3>3. First(poll'.page) = m
      OBVIOUS
    <3>4. poll.at = "advance" /\ ~ Current(poll.rev, poll.client) => ~ Current(poll.rev, poll.client)'
      BY DEF Current
    <3> HIDE DEF m
    <3> QED BY <2>2, <3>2, <3>3, <3>4 DEF InboxInv, AtLabel, Decided, Old
  <2> QED BY <2>1, <2>2
<1>3. Jumps
  <2> SUFFICES ASSUME poll.at = "advance", NEW m \in (source.cursor + 1)..source'.cursor PROVE FALSE
    BY DEF Jumps
  <2>1. source'.cursor = source.cursor /\ source.cursor \in Nat
    BY DEF InboxInv, Shape, SourceType
  <2> QED BY <2>1
<1> QED BY <1>1, <1>2, <1>3

\* A step that leaves the source alone moves no cursor.
LEMMA NoJump ==
    ASSUME InboxInv, \/ source'.cursor = source.cursor \/ poll.at # "advance"
    PROVE  Jumps
<1>1. source.cursor \in Nat
  BY DEF InboxInv, Shape, SourceType
<1> QED BY <1>1 DEF Jumps

LEMMA PreviewKept ==
    ASSUME InboxInv, Stays, preview' = preview,
           \/ source'.rev = source.rev /\ source'.wanted = source.wanted
           \/ source'.rev # preview.rev
    PROVE  Offered'
<1>1. preview.found \subseteq 1..newest'
  BY DEF InboxInv, Offered, Stays, Shape
<1>2. \A m \in preview.found : ~ (now' - posted'[m] > Lookback)
  BY DEF InboxInv, Offered, Stays, Old
<1> QED BY <1>1, <1>2 DEF InboxInv, Offered, Old

-------------------------------------------------------------------------------
(* One lemma per action, or per group of actions that change the same *)

\* Connections, commands and failures that write no record of a message.
LEMMA QuietGood ==
    ASSUME InboxInv, UNCHANGED <<event, plan, world>>, source' \in SourceType,
           account' \in BOOLEAN, client' \in Nat, clients' \in Nat,
           source' = [source EXCEPT !.enabled = source'.enabled],
           \/ poll' = poll /\ (poll.at = "advance" => UNCHANGED <<source, account, client>>)
           \/ poll' = NoPoll,
           preview' = preview \/ preview' = NoPreview
    PROVE  Good
<1>1. Stays
  BY DEF Stays, world, InboxInv, Shape, Decided
<1>2. source'.rev = source.rev /\ source'.cursor = source.cursor /\ source'.wanted = source.wanted
      /\ source'.deleted = source.deleted
  BY DEF InboxInv, Shape, SourceType
<1>3. Ledger' /\ InForce /\ NotAgain
  BY <1>2, LedgerKept DEF world, InboxInv, Shape
<1>4. AtLabel' /\ Covered' /\ Jumps
  <2>1. CASE poll' = NoPoll
    BY <1>2, <2>1, NoPage, NoJump DEF NoPoll
  <2>2. CASE poll' = poll /\ (poll.at = "advance" => UNCHANGED <<source, account, client>>)
    BY <1>1, <1>2, <2>2, PollKept
  <2> QED BY <2>1, <2>2
<1>5. Offered'
  <2>1. CASE preview' = NoPreview
    BY <1>2, <2>1 DEF Offered, NoPreview, InboxInv, Revisions, Shape, SourceType
  <2>2. CASE preview' = preview
    BY <1>1, <1>2, <2>2, PreviewKept
  <2> QED BY <2>1, <2>2
<1>6. Shape' /\ Revisions'
  BY <1>2 DEF InboxInv, Shape, Revisions, world, NoPoll, NoPreview, PollType, PreviewType, Labels,
              SourceType
<1> QED BY <1>3, <1>4, <1>5, <1>6 DEF Good, InboxInv

\* A change of the source is a new revision.
LEMMA EditedGood ==
    ASSUME InboxInv, Yields, UNCHANGED <<event, world, login, poll, preview>>,
           source' \in SourceType, source'.rev = source.rev + 1,
           \/ plan' = plan /\ (source'.deleted => source.deleted)
           \/ plan' = AllIgnored(plan)
    PROVE  Good
<1>1. Stays
  BY DEF Stays, world, InboxInv, Shape, Decided
<1>2. source'.rev # poll.rev /\ source'.rev # preview.rev /\ source.rev \in Nat
  BY DEF InboxInv, Shape, Revisions, SourceType, PollType, PreviewType
<1>3. plan' \in PlanType /\ \A m \in Messages :
              /\ plan'[m].status = "pending" => plan[m].status = "pending"
              /\ plan'[m].status # "none" => plan[m].status # "none"
  BY DEF AllIgnored, SetStatus, Pending, InboxInv, Shape, PlanType, PlanStates
<1>4. source'.deleted => source.deleted \/ \A m \in Messages : plan'[m].status # "pending"
  BY DEF AllIgnored, SetStatus, Pending, InboxInv, Shape, PlanType
<1>5. Ledger' /\ InForce /\ NotAgain
  BY <1>3, <1>4, LedgerKept DEF world
<1>6. AtLabel' /\ Covered' /\ Jumps
  BY <1>1, <1>2, PollKept DEF Yields, Synchronous, login
<1>7. Offered'
  BY <1>1, <1>2, PreviewKept
<1>8. Shape' /\ Revisions'
  BY <1>2, <1>3 DEF InboxInv, Shape, Revisions, world, login, PollType, PreviewType, SourceType
<1> QED BY <1>5, <1>6, <1>7, <1>8 DEF Good, InboxInv

LEMMA AdministratorGood ==
    ASSUME InboxInv, Edits \/ Pauses \/ Enables \/ Deletes \/ AddsAgain
    PROVE  Good
<1>1. source \in SourceType /\ newest \in Nat /\ now \in Nat /\ source.rev \in Nat
  BY DEF SourceType, InboxInv, Shape
<1>2. CASE Edits
  <2>1. PICK s \in SourceType : /\ s.deleted = source.deleted /\ Change(s)
    <3>1. CASE Change([source EXCEPT !.wanted = ~ @])
      BY <1>1, <3>1 DEF SourceType
    <3>2. CASE Change([source EXCEPT !.confirm = ~ @])
      BY <1>1, <3>2 DEF SourceType
    <3> QED BY <1>2, <3>1, <3>2 DEF Edits
  <2>2. plan' = plan
    BY <1>2 DEF Edits
  <2> QED BY <1>1, <2>1, <2>2, EditedGood DEF Change, SourceType
<1>3. CASE Pauses
  <2> DEFINE s == [source EXCEPT !.enabled = FALSE]
  <2>1. s \in SourceType /\ s.deleted = source.deleted
    BY <1>1 DEF SourceType
  <2>2. Change(s) /\ plan' = plan
    BY <1>3 DEF Pauses
  <2> HIDE DEF s
  <2>3. source' \in SourceType /\ source'.rev = source.rev + 1 /\ source'.deleted = s.deleted
    BY <1>1, <2>1, <2>2 DEF Change, SourceType
  <2> QED BY <2>1, <2>2, <2>3, EditedGood DEF Change
<1>4. CASE Enables
  <2> DEFINE s == [source EXCEPT !.enabled = TRUE, !.cursor = newest, !.polled = now, !.gap = FALSE]
  <2>1. s \in SourceType /\ s.deleted = source.deleted
    BY <1>1 DEF SourceType
  <2>2. Change(s) /\ plan' = plan
    BY <1>4 DEF Enables
  <2> HIDE DEF s
  <2>3. source' \in SourceType /\ source'.rev = source.rev + 1 /\ source'.deleted = s.deleted
    BY <1>1, <2>1, <2>2 DEF Change, SourceType
  <2> QED BY <2>1, <2>2, <2>3, EditedGood DEF Change
<1>5. CASE Deletes
  <2> DEFINE s == [source EXCEPT !.enabled = FALSE, !.deleted = TRUE]
  <2>1. s \in SourceType /\ s.deleted = TRUE
    BY <1>1 DEF SourceType
  <2>2. Change(s) /\ plan' = AllIgnored(plan)
    BY <1>5 DEF Deletes
  <2> HIDE DEF s
  <2>3. source' \in SourceType /\ source'.rev = source.rev + 1 /\ source'.deleted = s.deleted
    BY <1>1, <2>1, <2>2 DEF Change, SourceType
  <2> QED BY <2>1, <2>2, <2>3, EditedGood DEF Change
<1>6. CASE AddsAgain
  <2> DEFINE s == [source EXCEPT !.deleted = FALSE, !.enabled = FALSE, !.cursor = newest,
                                 !.polled = now, !.gap = FALSE]
  <2>1. s \in SourceType /\ s.deleted = FALSE
    BY <1>1 DEF SourceType
  <2>2. source' = [s EXCEPT !.rev = source.rev + 1]
    BY <1>1, <1>6 DEF AddsAgain, SourceType
  <2> HIDE DEF s
  <2>3. source' \in SourceType /\ source'.rev = source.rev + 1 /\ source'.deleted = FALSE
    BY <1>1, <2>1, <2>2 DEF SourceType
  <2>4. Yields /\ UNCHANGED <<event, plan, world, login, poll, preview>>
    BY <1>6 DEF AddsAgain
  <2> QED BY <2>3, <2>4, EditedGood
<1> QED BY <1>2, <1>3, <1>4, <1>5, <1>6

LEMMA ConnectionGood ==
    ASSUME InboxInv,
           \/ Closes \/ Connects \/ ConnectionFails \/ Crash \/ SwitchAccount \/ PollFails
           \/ \E m \in Messages : TaskMovesOn(m)
    PROVE  Good
<1>1. source \in SourceType /\ account \in BOOLEAN /\ client \in Nat /\ clients \in Nat
      /\ source = [source EXCEPT !.enabled = source.enabled]
  BY DEF InboxInv, Shape, SourceType
<1>2. 0 \in Nat /\ clients + 1 \in Nat /\ TRUE \in BOOLEAN /\ FALSE \in BOOLEAN /\ (~ account) \in BOOLEAN
  BY <1>1
<1>3. CASE Closes
  BY <1>1, <1>2, <1>3, QuietGood DEF Closes, Idle, rows, world
<1>4. CASE Connects
  BY <1>1, <1>2, <1>4, QuietGood DEF Connects, Idle, rows, world
<1>5. CASE ConnectionFails
  BY <1>1, <1>2, <1>5, QuietGood DEF ConnectionFails, Idle, rows, world
<1>6. CASE Crash
  BY <1>1, <1>2, <1>6, QuietGood DEF Crash, Stop, rows, world
<1>7. CASE SwitchAccount
  BY <1>1, <1>2, <1>7, QuietGood DEF SwitchAccount, Yields, Synchronous, rows, world
<1>8. CASE PollFails
  <2>1. poll' = NoPoll /\ preview' = preview /\ UNCHANGED <<event, plan, world>>
    BY <1>8 DEF PollFails, Stop, rows, world
  <2>2. source' \in {source, [source EXCEPT !.enabled = FALSE]}
    BY <1>8 DEF PollFails, rows
  <2>3. account' \in BOOLEAN /\ client' \in Nat /\ clients' \in Nat
    BY <1>1, <1>2, <1>8 DEF PollFails, login
  <2>4. source' \in SourceType /\ source' = [source EXCEPT !.enabled = source'.enabled]
    BY <1>1, <2>2 DEF SourceType
  <2> QED BY <2>1, <2>3, <2>4, QuietGood
<1>9. CASE \E m \in Messages : TaskMovesOn(m)
  BY <1>1, <1>9, QuietGood DEF TaskMovesOn, Yields, Synchronous, login, world
<1> QED BY <1>3, <1>4, <1>5, <1>6, <1>7, <1>8, <1>9

\* An old decision is forgotten when no plan waits on it; its message is older
\* than the window by then (Plans.expire).
LEMMA MaintainsGood ==
    ASSUME InboxInv, Maintains
    PROVE  Good
<1> DEFINE gone(m) == Decided(m) /\ now - event[m].at > Retention /\ Aged(plan)[m].status # "pending"
<1>1. /\ plan' = Aged(plan)
      /\ event' = [m \in Messages |-> IF gone(m) THEN NoEvent ELSE event[m]]
      /\ poll.at = "idle" /\ UNCHANGED <<source, world, login, poll, preview>>
  BY DEF Maintains, Idle
<1>2. /\ plan' \in PlanType
      /\ \A m \in Messages : /\ plan'[m].status = "pending" => plan[m].status = "pending"
                             /\ plan'[m].status = "none" <=> plan[m].status = "none"
  BY <1>1, AgedEffect DEF InboxInv, Shape
<1>3. event' \in EventType
  BY <1>1 DEF InboxInv, Shape, EventType, NoEvent, Results
<1>4. ASSUME NEW m \in Messages, gone(m)
      PROVE  m <= newest /\ Old(m) /\ event'[m].result = "none" /\ plan'[m].status # "pending"
  <2>1. posted[m] <= event[m].at /\ m <= newest
    BY <1>4 DEF InboxInv, Ledger
  <2>2. posted[m] \in Nat /\ event[m].at \in Nat /\ now \in Nat
    BY DEF InboxInv, Shape, EventType
  <2>3. now - posted[m] > Lookback
    BY <1>4, <2>1, <2>2, InboxAssumption
  <2> QED BY <1>1, <1>4, <2>1, <2>3 DEF Old, NoEvent
<1>5. ASSUME NEW m \in Messages, ~ gone(m) PROVE event'[m] = event[m]
  BY <1>1, <1>5
<1> HIDE DEF gone
<1>6. Ledger'
  <2> SUFFICES ASSUME NEW m \in Messages
               PROVE  /\ posted[m] <= now
                      /\ event'[m].result # "none" => m <= newest /\ posted[m] <= event'[m].at
                      /\ plan'[m].status = "pending" => event'[m].result # "none" /\ ~ source.deleted
                      /\ plan'[m].status # "none" => event'[m].result # "none" \/ (m <= newest /\ Old(m))
    BY <1>1 DEF Ledger, Decided, Old, world
  <2>1. CASE gone(m)
    BY <1>4, <2>1 DEF InboxInv, Ledger
  <2>2. CASE ~ gone(m)
    BY <1>2, <1>5, <2>2 DEF InboxInv, Ledger, Decided
  <2> QED BY <2>1, <2>2
<1>7. InForce /\ NotAgain
  <2>1. \A m \in Messages : event'[m].result # "none" => Decided(m)
    BY <1>4, <1>5 DEF Decided
  <2> QED BY <1>2, <2>1 DEF InForce, NotAgain
<1>8. AtLabel' /\ Covered' /\ Jumps
  <2>1. poll.page = {}
    BY <1>1 DEF InboxInv, AtLabel
  <2> QED BY <1>1, <2>1, NoPage, NoJump
<1>9. Offered' /\ Revisions'
  BY <1>1 DEF InboxInv, Offered, Revisions, Old, world
<1>10. Shape'
  BY <1>1, <1>2, <1>3 DEF InboxInv, Shape, world, login
<1> QED BY <1>6, <1>7, <1>8, <1>9, <1>10 DEF Good, InboxInv

LEMMA PostsGood ==
    ASSUME InboxInv, Posts
    PROVE  Good
<1>1. /\ newest \in Nat /\ now \in Nat /\ newest + 1 \in Messages /\ newest' = newest + 1
      /\ posted' = [posted EXCEPT ![newest + 1] = now]
      /\ UNCHANGED <<now, rows, login, poll, preview>>
  BY InboxAssumption DEF Posts, InboxInv, Shape, Messages
<1>2. /\ posted' \in [Messages -> Nat] /\ posted'[newest + 1] = now
      /\ \A m \in Messages : m # newest + 1 => posted'[m] = posted[m]
  BY <1>1 DEF InboxInv, Shape
<1>3. newest' \in 0..MaxMessage
  BY <1>1, InboxAssumption DEF Messages
<1>4. Stays
  <2>1. \A m \in 1..newest : m \in Messages /\ m # newest + 1
    BY <1>1, InboxAssumption DEF Messages
  <2> QED BY <1>1, <1>2, <2>1 DEF Stays, rows, Decided
<1>5. Ledger'
  <2> SUFFICES ASSUME NEW m \in Messages
               PROVE  /\ posted'[m] <= now
                      /\ Decided(m) => m <= newest' /\ posted'[m] <= event[m].at
                      /\ plan[m].status = "pending" => Decided(m) /\ ~ source.deleted
                      /\ plan[m].status # "none" =>
                            Decided(m) \/ (m <= newest' /\ now - posted'[m] > Lookback)
    BY <1>1 DEF Ledger, Decided, Old, rows
  <2>1. m \in Nat
    BY DEF Messages
  <2>2. CASE m = newest + 1
    <3>1. ~ Decided(m) /\ plan[m].status = "none"
      BY <1>1, <2>1, <2>2 DEF InboxInv, Ledger
    <3> QED BY <1>1, <1>2, <2>2, <3>1 DEF InboxInv, Ledger
  <2>3. CASE m # newest + 1
    <3>1. posted'[m] = posted[m] /\ (m <= newest => m <= newest')
      BY <1>1, <1>2, <2>1, <2>3
    <3> QED BY <3>1 DEF InboxInv, Ledger, Old
  <2> QED BY <2>2, <2>3
<1>6. InForce /\ NotAgain
  BY <1>1 DEF InForce, NotAgain, Decided, rows
<1>7. AtLabel' /\ Covered' /\ Jumps
  BY <1>1, <1>4, PollKept DEF rows, login
<1>8. Offered'
  BY <1>1, <1>4, PreviewKept DEF rows
<1>9. Shape' /\ Revisions'
  BY <1>1, <1>2, <1>3 DEF InboxInv, Shape, Revisions, rows, login
<1> QED BY <1>5, <1>6, <1>7, <1>8, <1>9 DEF Good, InboxInv

\* Time passes between two polls; what is too old stays so.
LEMMA TickGood ==
    ASSUME InboxInv, Tick
    PROVE  Good
<1>1. /\ now \in Nat /\ now' = now + 1 /\ preview' = NoPreview /\ poll.at = "idle"
      /\ UNCHANGED <<posted, newest, rows, login, poll>>
  BY DEF Tick, Idle, InboxInv, Shape
<1>2. \A m \in Messages : posted[m] \in Nat /\ (Old(m) => now' - posted[m] > Lookback)
                          /\ (posted[m] <= now => posted[m] <= now')
  BY <1>1, InboxAssumption DEF InboxInv, Shape, Old
<1>3. Ledger' /\ InForce /\ NotAgain
  <2>1. Ledger'
    BY <1>1, <1>2 DEF InboxInv, Ledger, Decided, Old, rows
  <2> QED BY <1>1, <2>1 DEF InForce, NotAgain, Decided, rows
<1>4. AtLabel' /\ Covered' /\ Jumps
  <2>1. poll.page = {}
    BY <1>1 DEF InboxInv, AtLabel
  <2> QED BY <1>1, <2>1, NoPage, NoJump DEF rows
<1>5. Offered' /\ Revisions'
  BY <1>1 DEF InboxInv, Offered, Revisions, NoPreview, rows, Shape, SourceType
<1>6. Shape'
  BY <1>1 DEF InboxInv, Shape, rows, login, NoPreview, PreviewType
<1> QED BY <1>3, <1>4, <1>5, <1>6 DEF Good, InboxInv

LEMMA PreviewsGood ==
    ASSUME InboxInv, Previews
    PROVE  Good
<1> DEFINE found == {m \in 1..newest : ~ Old(m) /\ ~ Decided(m) /\ source.wanted}
<1>1. /\ found # {} /\ preview' = [rev |-> source.rev, client |-> client, found |-> found]
      /\ UNCHANGED <<rows, world, login, poll>>
  BY DEF Previews
<1>2. Stays
  BY <1>1 DEF Stays, rows, world, InboxInv, Shape, Decided
<1>3. Ledger' /\ InForce /\ NotAgain
  BY <1>1, LedgerKept DEF rows, world, InboxInv, Shape, Ledger
<1>4. AtLabel' /\ Covered' /\ Jumps
  BY <1>1, <1>2, PollKept DEF rows, login
<1>5. found \subseteq 1..newest /\ found \subseteq Messages /\ (\A m \in found : ~ Old(m)) /\ source.wanted
  <2>1. newest \in 0..MaxMessage
    BY DEF InboxInv, Shape
  <2>2. 1..newest \subseteq Messages
    BY <2>1, InboxAssumption DEF Messages
  <2>3. found \subseteq 1..newest /\ (\A m \in found : ~ Old(m)) /\ source.wanted
    BY <1>1
  <2> HIDE DEF found
  <2> QED BY <2>2, <2>3
<1>6. Offered'
  BY <1>1, <1>5 DEF Offered, Old, rows, world
<1>7. Shape' /\ Revisions'
  <2>1. source.rev \in Nat /\ client \in Nat
    BY DEF InboxInv, Shape, SourceType
  <2> HIDE DEF found
  <2>2. preview' \in PreviewType
    BY <1>1, <1>5, <2>1 DEF PreviewType
  <2> QED BY <1>1, <2>1, <2>2 DEF InboxInv, Shape, Revisions, rows, world, login
<1> QED BY <1>3, <1>4, <1>6, <1>7 DEF Good, InboxInv

\* The message of a plan is handed over, or the plan put aside.
LEMMA ReviewsGood ==
    ASSUME InboxInv, NEW m \in Messages, Reviews(m)
    PROVE  Good
<1>1. /\ plan[m].status = "pending" /\ Decided(m)
      /\ Yields /\ UNCHANGED <<source, world, login, poll, preview>>
  BY DEF Reviews, InboxInv, Ledger
<1>2. /\ plan' \in PlanType /\ plan'[m].status # "pending"
      /\ \A k \in Messages : k # m => plan'[k] = plan[k]
  <2>1. PICK st \in {"submitted", "ignored"} : plan' = [plan EXCEPT ![m].status = st]
    BY DEF Reviews, SubmitNow
  <2> QED BY <2>1 DEF InboxInv, Shape, PlanType, PlanStates
<1>3. /\ event' \in EventType /\ event'[m].at = event[m].at /\ event'[m].result # "none"
      /\ \A k \in Messages : k # m => event'[k] = event[k]
  <2>1. CASE event' = event
    BY <1>1, <2>1 DEF InboxInv, Shape, Decided
  <2>2. CASE event' = [event EXCEPT ![m].result = "queued"]
    BY <2>2 DEF InboxInv, Shape, EventType, Results
  <2> QED BY <2>1, <2>2 DEF Reviews, SubmitNow
<1>4. Stays
  BY <1>1, <1>3 DEF Stays, world, InboxInv, Shape, Decided
<1>5. Ledger'
  BY <1>1, <1>2, <1>3 DEF InboxInv, Ledger, Decided, Old, world
<1>6. InForce /\ NotAgain
  BY <1>1, <1>2, <1>3 DEF InForce, NotAgain, Decided
<1>7. AtLabel' /\ Covered' /\ Jumps
  BY <1>1, <1>4, PollKept DEF Yields, Synchronous
<1>8. Offered'
  BY <1>1, <1>4, PreviewKept
<1>9. Shape' /\ Revisions'
  BY <1>1, <1>2, <1>3 DEF InboxInv, Shape, Revisions, world, login
<1> QED BY <1>5, <1>6, <1>7, <1>8, <1>9 DEF Good, InboxInv

\* Messages of a preview that are still undecided get their plans together.
LEMMA RegistersGood ==
    ASSUME InboxInv, Registers
    PROVE  Good
<1> DEFINE D == Fresh(preview)
<1>1. /\ Yields /\ Live(preview) /\ preview' = NoPreview /\ UNCHANGED <<world, login, poll>>
      /\ \/ UNCHANGED rows
         \/ /\ plan' = [m \in Messages |-> IF m \in D THEN [status |-> "pending", at |-> now]
                                                    ELSE Aged(plan)[m]]
            /\ event' = [m \in Messages |-> IF m \in D THEN [result |-> "waiting", at |-> now]
                                                     ELSE event[m]]
            /\ UNCHANGED <<source, task>>
  BY DEF Registers
<1>2. CASE UNCHANGED rows
  <2>1. source = [source EXCEPT !.enabled = source.enabled] /\ source' = source
        /\ UNCHANGED <<event, plan, world, account, client, clients>> /\ source \in SourceType
    BY <1>1, <1>2 DEF rows, login, InboxInv, Shape, SourceType
  <2>2. account' \in BOOLEAN /\ client' \in Nat /\ clients' \in Nat
    BY <2>1 DEF InboxInv, Shape
  <2> QED BY <1>1, <2>1, <2>2, QuietGood
<1>3. CASE /\ plan' = [m \in Messages |-> IF m \in D THEN [status |-> "pending", at |-> now]
                                                   ELSE Aged(plan)[m]]
           /\ event' = [m \in Messages |-> IF m \in D THEN [result |-> "waiting", at |-> now]
                                                    ELSE event[m]]
           /\ UNCHANGED <<source, task>>
  <2>1. /\ D \subseteq Messages /\ \A m \in D : m <= newest /\ ~ Decided(m) /\ ~ Old(m)
        /\ account /\ source.enabled /\ ~ source.deleted /\ source.wanted
    BY <1>1 DEF Fresh, Live, InboxInv, Offered, Shape, PreviewType
  <2> HIDE DEF D
  <2>2. plan' \in PlanType /\ \A m \in Messages \ D :
              /\ plan'[m].status = "pending" => plan[m].status = "pending"
              /\ plan'[m].status # "none" => plan[m].status # "none"
    <3>1. Aged(plan) \in PlanType
      BY AgedEffect DEF InboxInv, Shape
    <3>2. plan' \in PlanType
      BY <1>3, <3>1 DEF PlanType, PlanStates, InboxInv, Shape
    <3> QED BY <1>3, <3>2, AgedEffect DEF InboxInv, Shape
  <2>3. /\ event' \in EventType
        /\ \A m \in D : event'[m].at = now /\ event'[m].result = "waiting"
        /\ \A m \in Messages \ D : event'[m] = event[m]
    BY <1>3, <2>1 DEF InboxInv, Shape, EventType, Results
  <2>4. Ledger' /\ InForce /\ NotAgain
    BY <1>1, <1>3, <2>1, <2>2, <2>3, LedgerGrows DEF world
  <2>5. Stays
    <3>1. \A m \in Messages : Decided(m) => event'[m].result # "none"
      BY <2>1, <2>3 DEF Decided
    <3> QED BY <1>1, <3>1 DEF Stays, world, InboxInv, Shape
  <2>6. AtLabel' /\ Covered' /\ Jumps
    BY <1>1, <1>3, <2>5, PollKept DEF Yields, Synchronous
  <2>7. Offered' /\ Revisions'
    BY <1>1, <1>3 DEF Offered, Revisions, NoPreview, InboxInv, Shape, SourceType
  <2>8. Shape'
    BY <1>1, <1>3, <2>2, <2>3 DEF InboxInv, Shape, world, login, NoPreview, PreviewType
  <2> QED BY <2>4, <2>6, <2>7, <2>8 DEF Good, InboxInv
<1> QED BY <1>1, <1>2, <1>3

-------------------------------------------------------------------------------
(* The poll *)

\* The poll ends, or goes on without a page.
LEMMA PollEndsGood ==
    ASSUME InboxInv, UNCHANGED <<event, plan, world, login, preview>>,
           source' \in SourceType, source'.rev = source.rev, source'.cursor = source.cursor,
           source'.wanted = source.wanted, source'.deleted = source.deleted,
           poll' \in PollType, poll'.page = {}, poll'.rev <= source.rev,
           poll'.at \in {"idle", "verify", "list"}
    PROVE  Good
<1>1. Stays
  BY DEF Stays, world, InboxInv, Shape, Decided
<1>2. Ledger' /\ InForce /\ NotAgain
  BY LedgerKept DEF world, InboxInv, Shape
<1>3. AtLabel' /\ Covered' /\ Jumps
  BY NoPage, NoJump
<1>4. Offered'
  BY <1>1, PreviewKept
<1>5. Shape' /\ Revisions'
  BY DEF InboxInv, Shape, Revisions, world, login
<1> QED BY <1>2, <1>3, <1>4, <1>5 DEF Good, InboxInv

LEMMA StopGood ==
    ASSUME InboxInv, NEW rest, Stop(rest), UNCHANGED <<rows, world, login, preview>>
    PROVE  Good
<1>1. poll' \in PollType /\ poll'.page = {} /\ poll'.rev = 0 /\ poll'.at = "idle"
  BY DEF Stop, NoPoll, PollType, Labels
<1>2. source \in SourceType /\ source.rev >= 0
  BY DEF InboxInv, Shape, SourceType
<1> QED BY <1>1, <1>2, PollEndsGood DEF rows

LEMMA BeginningGood ==
    ASSUME InboxInv, PollStarts \/ PollVerified \/ PollEnds
    PROVE  Good
<1>1. source \in SourceType /\ source.rev \in Nat /\ client \in Nat /\ now \in Nat
      /\ poll \in PollType /\ poll.rev <= source.rev
  BY DEF InboxInv, Shape, SourceType, Revisions
<1>2. NoPoll \in PollType /\ NoPoll.page = {} /\ NoPoll.rev <= source.rev /\ NoPoll.at = "idle"
  BY <1>1 DEF NoPoll, PollType, Labels
<1>3. CASE PollStarts
  <2>1. poll' \in PollType /\ poll'.page = {} /\ poll'.rev = source.rev /\ poll'.at = "verify"
    BY <1>1, <1>3 DEF PollStarts, PollType, Labels
  <2>2. UNCHANGED <<source, event, plan, world, login, preview>>
    BY <1>3 DEF PollStarts, rows
  <2> QED BY <1>1, <2>1, <2>2, PollEndsGood
<1>4. CASE PollVerified
  <2>1. UNCHANGED <<event, plan, world, login, preview>> /\ poll.page = {}
    BY <1>4 DEF PollVerified, InboxInv, AtLabel
  <2>2. CASE Current(poll.rev, poll.client)
    <3>1. source' = [source EXCEPT !.gap = source.gap \/ now - source.polled > Lookback]
          /\ poll' = [poll EXCEPT !.at = "list"]
      BY <1>4, <2>2 DEF PollVerified, At
    <3>2. /\ source' \in SourceType /\ source'.rev = source.rev /\ source'.cursor = source.cursor
          /\ source'.wanted = source.wanted /\ source'.deleted = source.deleted
      BY <1>1, <3>1 DEF SourceType
    <3>3. poll' \in PollType /\ poll'.page = {} /\ poll'.rev <= source.rev /\ poll'.at = "list"
      BY <1>1, <2>1, <3>1 DEF PollType, Labels
    <3> QED BY <2>1, <3>2, <3>3, PollEndsGood
  <2>3. CASE ~ Current(poll.rev, poll.client)
    BY <1>1, <1>2, <1>4, <2>1, <2>3, PollEndsGood DEF PollVerified, Stop
  <2> QED BY <2>2, <2>3
<1>5. CASE PollEnds
  <2>1. UNCHANGED <<event, plan, world, login, preview>> /\ poll' = NoPoll
    BY <1>5 DEF PollEnds, Stop
  <2>2. source' \in {source, [source EXCEPT !.polled = now]}
    BY <1>5 DEF PollEnds
  <2>3. /\ source' \in SourceType /\ source'.rev = source.rev /\ source'.cursor = source.cursor
        /\ source'.wanted = source.wanted /\ source'.deleted = source.deleted
    BY <1>1, <2>2 DEF SourceType
  <2> QED BY <1>2, <2>1, <2>3, PollEndsGood
<1> QED BY <1>3, <1>4, <1>5

\* A message of the page goes on to its next step, with the page as it is.
LEMMA LabelGood ==
    ASSUME InboxInv, NEW l \in {"check", "submit", "notify", "advance"},
           poll' = [poll EXCEPT !.at = l], poll.page # {}, poll.at # "advance",
           UNCHANGED <<source, world, login, preview>>,
           event' \in EventType, plan' \in PlanType,
           \A m \in Messages : Decided(m) => event'[m].result # "none",
           Ledger' /\ InForce /\ NotAgain,
           l \in {"submit", "notify"} => event'[First(poll.page)].result # "none",
           l = "check" => ~ Old(First(poll.page)),
           l = "advance" => \/ event'[First(poll.page)].result # "none"
                            \/ Old(First(poll.page))
                            \/ ~ Current(poll.rev, poll.client)
    PROVE  Good
<1>1. /\ poll' \in PollType /\ poll'.at = l /\ poll'.page = poll.page
      /\ poll'.rev = poll.rev /\ poll'.client = poll.client
  BY DEF InboxInv, Shape, PollType, Labels
<1>2. Stays
  BY DEF Stays, world, InboxInv, Shape
<1>3. Covered'
  BY <1>1, <1>2, PageKept
<1>4. AtLabel'
  <2> DEFINE m == First(poll.page)
  <2>1. First(poll'.page) = m
    BY <1>1
  <2>2. (client' = poll'.client /\ source'.rev = poll'.rev /\ source'.enabled /\ ~ source'.deleted
            /\ account') <=> Current(poll.rev, poll.client)
    BY <1>1 DEF Current, login
  <2>3. (now' - posted'[First(poll'.page)] > Lookback) <=> Old(m)
    BY <1>1 DEF Old, world
  <2>4. /\ poll'.at \in {"submit", "notify"} => event'[m].result # "none"
        /\ poll'.at = "check" => ~ Old(m)
        /\ poll'.at = "advance" =>
              event'[m].result # "none" \/ Old(m) \/ ~ Current(poll.rev, poll.client)
    BY <1>1
  <2>5. poll'.at \in {"check", "submit", "notify", "advance"} /\ poll'.page # {}
    BY <1>1
  <2> HIDE DEF m
  <2> QED BY <2>1, <2>2, <2>3, <2>4, <2>5 DEF AtLabel, Decided, Old, Current
<1>5. Jumps
  BY NoJump
<1>6. Offered'
  BY <1>2, PreviewKept
<1>7. Shape' /\ Revisions'
  BY <1>1 DEF InboxInv, Shape, Revisions, world, login
<1> QED BY <1>3, <1>4, <1>5, <1>6, <1>7 DEF Good, InboxInv

\* The page that is read holds what lies behind the cursor, from its start on.
LEMMA PollListsGood ==
    ASSUME InboxInv, PollLists
    PROVE  Good
<1> DEFINE after == {m \in 1..newest : m > source.cursor}
<1>1. PICK offered \in {after, {m \in after : ~ Old(m)}} :
          poll' = [poll EXCEPT !.at = "loop", !.page = FirstOf(Batch, offered)]
  BY DEF PollLists
<1>2. poll.at = "list" /\ UNCHANGED <<rows, world, login, preview>>
  BY DEF PollLists
<1>3. newest \in Nat /\ newest <= MaxMessage /\ Batch \in Nat /\ MaxMessage \in Nat
  BY InboxAssumption DEF InboxInv, Shape
<1>4. offered \in SUBSET (1..newest)
  OBVIOUS
<1>5. \A k \in 1..newest : source.cursor < k => k \in offered \/ Old(k)
  <2>1. source.cursor \in Nat
    BY DEF InboxInv, Shape, SourceType
  <2>2. \A k \in 1..newest : source.cursor < k => k \in after
    BY <2>1
  <2> HIDE DEF after
  <2> QED BY <1>1, <2>2
<1> HIDE DEF after
<1> DEFINE page == FirstOf(Batch, offered)
<1>6. page \subseteq offered /\ page \subseteq 1..newest /\ page \subseteq Messages
  <2>1. page \subseteq offered
    BY DEF FirstOf
  <2>2. 1..newest \subseteq Messages
    BY <1>3 DEF Messages
  <2> HIDE DEF page
  <2> QED BY <1>4, <2>1, <2>2
<1>7. ASSUME NEW p \in page, NEW k \in Messages, source.cursor < k, k <= p
      PROVE  k \in page \/ Old(k)
  <2>1. k \in 1..newest
    <3>1. p \in 1..newest
      BY <1>6
    <3> QED BY <1>3, <1>7, <3>1 DEF Messages
  <2>2. CASE k \in offered
    BY <1>3, <1>4, <1>7, <2>2, FirstOfCloses
  <2> QED BY <1>5, <1>7, <2>1, <2>2
<1> HIDE DEF page
<1>8. /\ poll' \in PollType /\ poll'.at = "loop" /\ poll'.page = page /\ poll'.rev = poll.rev
  BY <1>1, <1>6 DEF InboxInv, Shape, PollType, Labels, page
<1>9. AtLabel'
  BY <1>8 DEF AtLabel
<1>10. Covered'
  BY <1>2, <1>6, <1>7, <1>8 DEF Covered, rows, world, Old
<1>11. Ledger' /\ InForce /\ NotAgain
  BY <1>2, LedgerKept DEF rows, world, InboxInv, Shape
<1>12. Jumps /\ Offered'
  <2>1. Stays
    BY <1>2 DEF Stays, rows, world, InboxInv, Shape, Decided
  <2> QED BY <1>2, <2>1, NoJump, PreviewKept DEF rows
<1>13. Shape' /\ Revisions'
  BY <1>2, <1>8 DEF InboxInv, Shape, Revisions, rows, world, login
<1> QED BY <1>9, <1>10, <1>11, <1>12, <1>13 DEF Good, InboxInv

\* Without a change of the records a message only moves to another step.
LEMMA UnchangedGood ==
    ASSUME InboxInv, NEW l \in {"check", "submit", "notify", "advance"},
           At(l), poll.page # {}, poll.at # "advance",
           UNCHANGED <<rows, world, login, preview>>,
           l \in {"submit", "notify"} => Decided(First(poll.page)),
           l = "check" => ~ Old(First(poll.page)),
           l = "advance" => \/ Decided(First(poll.page)) \/ Old(First(poll.page))
                            \/ ~ Current(poll.rev, poll.client)
    PROVE  Good
<1>1. UNCHANGED <<source, event, plan, world, login, preview>> /\ poll' = [poll EXCEPT !.at = l]
  BY DEF rows, At
<1>2. Ledger' /\ InForce /\ NotAgain
  BY <1>1, LedgerKept DEF world, InboxInv, Shape, SourceType
<1>3. event' \in EventType /\ plan' \in PlanType
  BY <1>1 DEF InboxInv, Shape
<1>4. event' = event
  BY <1>1
<1> QED BY <1>1, <1>2, <1>3, <1>4, LabelGood DEF Decided

\* The first decision about a message is written (Listener.journal).
LEMMA JournalGood ==
    ASSUME InboxInv, NEW result \in {"gap", "skipped"}, poll.at \in {"loop", "check"},
           poll.page # {}, Journal(First(poll.page), result), At("advance"),
           UNCHANGED <<source, plan, task, world, login, preview>>,
           account, source.enabled, ~ source.deleted,
           result = "skipped" => ~ source.wanted
    PROVE  Good
<1> DEFINE m == First(poll.page)
<1>1. m \in Messages /\ m <= newest
  BY FirstPosted
<1>2. poll' = [poll EXCEPT !.at = "advance"] /\ plan \in PlanType /\ now \in Nat
      /\ event \in EventType
  BY DEF At, InboxInv, Shape
<1>3. Journal(m, result)
  OBVIOUS
<1>4. First(poll.page) = m
  OBVIOUS
<1> HIDE DEF m
<1>5. CASE Decided(m)
  <2>1. event' = event
    BY <1>3, <1>5 DEF Journal
  <2> QED BY <1>4, <1>5, <2>1, UnchangedGood DEF rows
<1>6. CASE ~ Decided(m)
  <2>1. event' = [event EXCEPT ![m] = [result |-> result, at |-> now]]
    BY <1>3, <1>6 DEF Journal
  <2>2. event' \in EventType /\ event'[m] = [result |-> result, at |-> now]
        /\ \A k \in Messages : k # m => event'[k] = event[k]
    BY <1>1, <1>2, <2>1 DEF EventType, Results
  <2>3. {m} \in SUBSET Messages
        /\ (\A k \in {m} : k <= newest /\ ~ Decided(k) /\ event'[k].at = now)
        /\ (\A k \in Messages \ {m} : event'[k] = event[k])
        /\ (\A k \in {m} : event'[k].result = "skipped" => ~ source.wanted)
    BY <1>1, <1>6, <2>2
  <2>4. Ledger' /\ InForce /\ NotAgain
    BY <1>2, <2>3, LedgerGrows DEF world
  <2>5. event'[m].result # "none" /\ \A k \in Messages : Decided(k) => event'[k].result # "none"
    BY <2>2 DEF Decided
  <2> QED BY <1>2, <1>4, <2>2, <2>4, <2>5, LabelGood
<1> QED BY <1>5, <1>6

\* A matching message gets its plan and its decision together (Plans.create).
LEMMA PlanGood ==
    ASSUME InboxInv, poll.at \in {"loop", "check"}, poll.page # {},
           CreatePlan(First(poll.page)), ~ Old(First(poll.page)), ~ Decided(First(poll.page)),
           UNCHANGED <<world, login, preview>>,
           account, source.enabled, ~ source.deleted, source.wanted
    PROVE  Good
<1> DEFINE m == First(poll.page)
<1>1. m \in Messages /\ m <= newest /\ ~ Old(m) /\ ~ Decided(m) /\ CreatePlan(m)
  BY FirstPosted
<1>2. First(poll.page) = m
  OBVIOUS
<1> HIDE DEF m
<1>3. plan \in PlanType /\ now \in Nat /\ event \in EventType /\ Aged(plan) \in PlanType
  BY AgedEffect DEF InboxInv, Shape
<1>4. CASE Limited
  BY <1>4, StopGood DEF Limited
<1>5. CASE /\ plan' = [Aged(plan) EXCEPT ![m] = [status |-> "pending", at |-> now]]
           /\ event' = [event EXCEPT ![m] = [result |-> "waiting", at |-> now]]
           /\ At("submit") \/ At("notify") \/ At("advance")
           /\ UNCHANGED source
  <2>1. event' \in EventType /\ event'[m] = [result |-> "waiting", at |-> now]
        /\ \A k \in Messages : k # m => event'[k] = event[k]
    BY <1>1, <1>3, <1>5 DEF EventType, Results
  <2>2. plan' \in PlanType /\ \A k \in Messages : k # m => plan'[k] = Aged(plan)[k]
    <3>1. [status |-> "pending", at |-> now] \in [status : PlanStates, at : Nat]
      BY <1>3 DEF PlanStates
    <3> QED BY <1>1, <1>3, <1>5, <3>1 DEF PlanType
  <2>3. \A k \in Messages \ {m} : /\ plan'[k].status = "pending" => plan[k].status = "pending"
                                  /\ plan'[k].status # "none" => plan[k].status # "none"
    BY <1>3, <2>2, AgedEffect
  <2>4. {m} \in SUBSET Messages
        /\ (\A k \in {m} : k <= newest /\ ~ Decided(k) /\ event'[k].at = now)
        /\ (\A k \in Messages \ {m} : event'[k] = event[k])
        /\ (\A k \in {m} : event'[k].result = "skipped" => ~ source.wanted)
        /\ (\A k \in {m} : ~ Old(k) /\ event'[k].result # "none")
    BY <1>1, <2>1
  <2>5. Ledger' /\ InForce /\ NotAgain
    BY <1>5, <2>2, <2>3, <2>4, LedgerGrows DEF world
  <2>6. event'[m].result # "none" /\ \A k \in Messages : Decided(k) => event'[k].result # "none"
    BY <2>1 DEF Decided
  <2>7. PICK l \in {"submit", "notify", "advance"} : poll' = [poll EXCEPT !.at = l]
    BY <1>5 DEF At
  <2> QED BY <1>2, <1>5, <2>1, <2>2, <2>5, <2>6, <2>7, LabelGood
<1> QED BY <1>1, <1>4, <1>5 DEF CreatePlan

\* The part of receive after its last await.
LEMMA ReceiveGood ==
    ASSUME InboxInv, poll.at \in {"loop", "check"}, poll.page # {},
           Receive(First(poll.page)), ~ Old(First(poll.page)),
           UNCHANGED <<world, login, preview>>,
           account, source.enabled, ~ source.deleted
    PROVE  Good
<1> DEFINE m == First(poll.page)
<1>1. CASE Decided(m)
  BY <1>1, UnchangedGood DEF Receive
<1>2. CASE Limited
  BY <1>2, StopGood DEF Limited
<1>3. CASE Journal(m, "skipped") /\ At("advance") /\ UNCHANGED <<source, plan, task>> /\ ~ source.wanted
  BY <1>3, JournalGood
<1>4. CASE CreatePlan(m) /\ source.wanted /\ ~ Decided(m)
  BY <1>4, PlanGood
<1> QED BY <1>1, <1>2, <1>3, <1>4 DEF Receive

LEMMA ReadsGood ==
    ASSUME InboxInv, PollReads \/ PollRechecked
    PROVE  Good
<1>1. UNCHANGED <<world, login, preview>>
  BY DEF PollReads, PollRechecked
<1>2. CASE PollReads
  <2>1. poll.at = "loop" /\ poll.page # {}
    BY <1>2 DEF PollReads
  <2>2. CASE ~ Current(poll.rev, poll.client)
    BY <1>1, <1>2, <2>2, StopGood DEF PollReads
  <2>3. CASE Current(poll.rev, poll.client)
    <3>1. source.enabled /\ ~ source.deleted /\ account
      BY <2>3 DEF Current
    <3>2. CASE Old(First(poll.page))
      BY <1>1, <1>2, <2>1, <2>3, <3>1, <3>2, JournalGood DEF PollReads
    <3>3. CASE ~ Old(First(poll.page))
      <4>1. CASE At("check") /\ UNCHANGED rows
        BY <1>1, <2>1, <3>3, <4>1, UnchangedGood
      <4>2. CASE Receive(First(poll.page))
        BY <1>1, <2>1, <3>1, <3>3, <4>2, ReceiveGood
      <4> QED BY <1>2, <2>3, <3>3, <4>1, <4>2 DEF PollReads
    <3> QED BY <3>2, <3>3
  <2> QED BY <2>2, <2>3
<1>3. CASE PollRechecked
  <2>1. poll.at = "check" /\ poll.page # {} /\ ~ Old(First(poll.page))
    BY <1>3 DEF PollRechecked, InboxInv, AtLabel
  <2>2. CASE source.rev # poll.rev \/ ~ account \/ ~ source.enabled \/ source.deleted
    <3>1. At("advance") /\ UNCHANGED rows /\ ~ Current(poll.rev, poll.client)
      BY <1>3, <2>2 DEF PollRechecked, Current
    <3> QED BY <1>1, <2>1, <3>1, UnchangedGood
  <2>3. CASE ~ (source.rev # poll.rev \/ ~ account \/ ~ source.enabled \/ source.deleted)
    BY <1>1, <1>3, <2>1, <2>3, ReceiveGood DEF PollRechecked
  <2> QED BY <2>2, <2>3
<1> QED BY <1>2, <1>3

\* The plan of a decided message is handed over or held (Plans.submit).
LEMMA SubmitsGood ==
    ASSUME InboxInv, PollSubmits
    PROVE  Good
<1> DEFINE m == First(poll.page)
<1>1. /\ poll.at = "submit" /\ poll.page # {} /\ Decided(m)
      /\ UNCHANGED <<source, world, login, preview>>
  BY DEF PollSubmits, InboxInv, AtLabel
<1>2. m \in Messages
  BY <1>1, FirstPosted
<1>3. First(poll.page) = m
  OBVIOUS
<1>4. \/ SubmitNow(m)
      \/ event' = [event EXCEPT ![m].result = "held"] /\ UNCHANGED plan
  BY DEF PollSubmits
<1>5. PICK l \in {"notify", "advance"} : poll' = [poll EXCEPT !.at = l]
  BY DEF PollSubmits, At
<1> HIDE DEF m
<1>6. /\ event' \in EventType /\ event'[m].result # "none" /\ event'[m].at = event[m].at
      /\ \A k \in Messages : k # m => event'[k] = event[k]
  <2>1. PICK x \in {"queued", "held"} : event' = [event EXCEPT ![m].result = x]
    BY <1>4 DEF SubmitNow
  <2> QED BY <1>2, <2>1 DEF InboxInv, Shape, EventType, Results
<1>7. /\ plan' \in PlanType
      /\ \A k \in Messages : plan'[k].status = "pending" => plan[k].status = "pending"
      /\ \A k \in Messages : k # m => plan'[k] = plan[k]
  <2>1. plan' = plan \/ plan' = [plan EXCEPT ![m].status = "submitted"]
    BY <1>4 DEF SubmitNow
  <2> QED BY <1>2, <2>1 DEF InboxInv, Shape, PlanType, PlanStates
<1>8. Ledger'
  BY <1>1, <1>6, <1>7 DEF InboxInv, Ledger, Decided, Old, world
<1>9. InForce /\ NotAgain
  BY <1>1, <1>6, <1>7 DEF InForce, NotAgain, Decided
<1>10. \A k \in Messages : Decided(k) => event'[k].result # "none"
  BY <1>6 DEF Decided
<1> QED BY <1>1, <1>3, <1>5, <1>6, <1>7, <1>8, <1>9, <1>10, LabelGood

LEMMA NotifiedGood ==
    ASSUME InboxInv, PollNotified
    PROVE  Good
<1>1. poll.at = "notify" /\ poll.page # {} /\ Decided(First(poll.page)) /\ At("advance")
      /\ UNCHANGED <<rows, world, login, preview>>
  BY DEF PollNotified, InboxInv, AtLabel
<1> QED BY <1>1, UnchangedGood

\* The cursor moves to a message whose decision is there, or that is too old,
\* and only while the source is as the poll knew it.
LEMMA AdvancesGood ==
    ASSUME InboxInv, PollAdvances
    PROVE  Good
<1> DEFINE m == First(poll.page)
           c == IF source.cursor < m THEN m ELSE source.cursor
<1>1. /\ poll.at = "advance" /\ poll.page # {}
      /\ UNCHANGED <<event, plan, task, world, login, preview>>
  BY DEF PollAdvances, InboxInv, AtLabel
<1>2. CASE ~ Current(poll.rev, poll.client)
  <2>1. Stop(FALSE) /\ UNCHANGED source
    BY <1>2 DEF PollAdvances
  <2> QED BY <1>1, <2>1, StopGood DEF rows
<1>3. CASE Current(poll.rev, poll.client)
  <2>1. /\ source' = [source EXCEPT !.cursor = c]
        /\ poll' = [poll EXCEPT !.at = "loop", !.page = poll.page \ {m}]
    BY <1>3 DEF PollAdvances
  <2>2. m \in poll.page /\ m \in Messages /\ m <= newest /\ \A k \in poll.page : m <= k
    BY <1>1, FirstPosted
  <2>3. Decided(m) \/ Old(m)
    BY <1>1, <1>3 DEF InboxInv, AtLabel
  <2>4. source.rev = poll.rev /\ source.cursor \in Nat /\ source \in SourceType
    BY <1>3 DEF Current, InboxInv, Shape, SourceType
  <2> HIDE DEF m
  <2>5. c \in Nat /\ source.cursor <= c /\ m <= c /\ (c = m \/ c = source.cursor) /\ m \in Nat
    BY <2>2, <2>4 DEF Messages
  <2>6. \A k \in Messages : k <= m /\ source.cursor < k => Decided(k) \/ Old(k)
    <3> SUFFICES ASSUME NEW k \in Messages, k <= m, source.cursor < k
                 PROVE  Decided(k) \/ Old(k)
      OBVIOUS
    <3>1. k \in poll.page \/ Decided(k) \/ Old(k)
      BY <2>2, <2>4 DEF InboxInv, Covered
    <3>2. k \in poll.page => k = m
      BY <2>2, <2>5 DEF Messages
    <3> QED BY <2>3, <3>1, <3>2
  <2> HIDE DEF c
  <2>7. /\ source' \in SourceType /\ source'.cursor = c /\ source'.rev = source.rev
        /\ source'.wanted = source.wanted /\ source'.deleted = source.deleted
    BY <2>1, <2>4, <2>5 DEF SourceType
  <2>8. /\ poll' \in PollType /\ poll'.at = "loop" /\ poll'.page = poll.page \ {m}
        /\ poll'.rev = poll.rev
    BY <2>1 DEF InboxInv, Shape, PollType, Labels
  <2>9. Jumps
    <3> SUFFICES ASSUME NEW k \in (source.cursor + 1)..c PROVE Decided(k) \/ Old(k)
      BY <2>7 DEF Jumps
    <3>1. k \in Nat /\ source.cursor < k /\ k <= c
      BY <2>4, <2>5
    <3>2. k <= m
      BY <2>4, <2>5, <3>1
    <3>3. k \in Messages
      BY <2>2, <2>4, <3>1, <3>2, InboxAssumption DEF Messages
    <3> QED BY <2>6, <3>1, <3>2, <3>3
  <2>10. AtLabel'
    BY <2>8 DEF AtLabel
  <2>11. Covered'
    <3>1. poll'.page \subseteq 1..newest'
      BY <1>1, <2>8 DEF InboxInv, Covered, world
    <3>2. ASSUME NEW p \in poll'.page, NEW k \in Messages, c < k, k <= p
          PROVE  k \in poll'.page \/ Decided(k) \/ Old(k)
      <4>1. k \in Nat /\ source.cursor < k /\ k # m /\ p \in poll.page
        BY <2>4, <2>5, <2>8, <3>2 DEF Messages
      <4>2. k \in poll.page \/ Decided(k) \/ Old(k)
        BY <2>4, <3>2, <4>1 DEF InboxInv, Covered
      <4> QED BY <2>8, <4>1, <4>2
    <3> QED BY <1>1, <2>7, <3>1, <3>2 DEF Covered, Decided, Old, world
  <2>12. Ledger' /\ InForce /\ NotAgain
    BY <1>1, <2>7, LedgerKept DEF world, InboxInv, Shape
  <2>13. Offered'
    <3>1. Stays
      BY <1>1 DEF Stays, world, InboxInv, Shape, Decided
    <3> QED BY <1>1, <2>7, <3>1, PreviewKept
  <2>14. Shape' /\ Revisions'
    BY <1>1, <2>7, <2>8 DEF InboxInv, Shape, Revisions, world, login
  <2> QED BY <2>9, <2>10, <2>11, <2>12, <2>13, <2>14 DEF Good, InboxInv
<1> QED BY <1>2, <1>3

-------------------------------------------------------------------------------
(* The specification *)

LEMMA InitInv == Init => InboxInv
<1> SUFFICES ASSUME Init PROVE InboxInv
  OBVIOUS
<1>1. Shape
  <2>1. source \in SourceType
    <3>1. source \in [enabled : {TRUE}, deleted : {FALSE}, rev : {1}, wanted : {TRUE},
                      confirm : BOOLEAN, cursor : {0}, polled : {0}, gap : {FALSE}]
      BY DEF Init
    <3>2. PICK b \in BOOLEAN :
              source = [enabled |-> TRUE, deleted |-> FALSE, rev |-> 1, wanted |-> TRUE,
                        confirm |-> b, cursor |-> 0, polled |-> 0, gap |-> FALSE]
      BY <3>1
    <3> QED BY <3>2 DEF SourceType
  <2>2. event \in EventType /\ plan \in PlanType
    BY DEF Init, EventType, PlanType, NoEvent, NoPlan, Results, PlanStates
  <2>3. poll \in PollType /\ preview \in PreviewType
    BY DEF Init, PollType, PreviewType, NoPoll, NoPreview, Labels
  <2> QED BY <2>1, <2>2, <2>3, InboxAssumption DEF Init, Shape
<1>2. Revisions
  BY DEF Init, Revisions, NoPoll, NoPreview
<1>3. Ledger
  BY DEF Init, Ledger, Decided, NoEvent, NoPlan
<1>4. AtLabel /\ Covered
  BY DEF Init, AtLabel, Covered, NoPoll
<1>5. Offered
  BY DEF Init, Offered, NoPreview
<1> QED BY <1>1, <1>2, <1>3, <1>4, <1>5 DEF InboxInv

\* Every step keeps the invariant and does what the action properties allow.
LEMMA StepGood ==
    ASSUME InboxInv, [Next]_vars
    PROVE  Good
<1>1. CASE UNCHANGED vars
  <2>1. UNCHANGED <<event, plan, world, source, account, client, clients, poll, preview>>
    BY <1>1 DEF vars, world
  <2>2. /\ source' \in SourceType /\ account' \in BOOLEAN /\ client' \in Nat /\ clients' \in Nat
        /\ source' = [source EXCEPT !.enabled = source'.enabled]
    BY <2>1 DEF InboxInv, Shape, SourceType
  <2> QED BY <2>1, <2>2, QuietGood
<1>2. CASE PollStarts \/ PollVerified \/ PollEnds
  BY <1>2, BeginningGood
<1>3. CASE PollLists
  BY <1>3, PollListsGood
<1>4. CASE PollReads \/ PollRechecked
  BY <1>4, ReadsGood
<1>5. CASE PollSubmits
  BY <1>5, SubmitsGood
<1>6. CASE PollNotified
  BY <1>6, NotifiedGood
<1>7. CASE PollAdvances
  BY <1>7, AdvancesGood
<1>8. CASE \/ Closes \/ Connects \/ ConnectionFails \/ Crash \/ SwitchAccount \/ PollFails
           \/ \E m \in Messages : TaskMovesOn(m)
  BY <1>8, ConnectionGood
<1>9. CASE Maintains
  BY <1>9, MaintainsGood
<1>10. CASE Edits \/ Pauses \/ Enables \/ Deletes \/ AddsAgain
  BY <1>10, AdministratorGood
<1>11. CASE \E m \in Messages : Reviews(m)
  BY <1>11, ReviewsGood
<1>12. CASE Previews
  BY <1>12, PreviewsGood
<1>13. CASE Registers
  BY <1>13, RegistersGood
<1>14. CASE Posts
  BY <1>14, PostsGood
<1>15. CASE Tick
  BY <1>15, TickGood
<1> QED BY <1>1, <1>2, <1>3, <1>4, <1>5, <1>6, <1>7, <1>8, <1>9, <1>10, <1>11, <1>12, <1>13,
           <1>14, <1>15 DEF Next

\* The records, the page and the preview fit together at every step.
THEOREM InboxInvariant == Spec => []InboxInv
<1>1. InboxInv /\ [Next]_vars => InboxInv'
  BY StepGood DEF Good
<1> QED BY <1>1, InitInv, PTL DEF Spec

\* No plan of a deleted source waits for an approval, whatever poll, preview or
\* registration was under way when it was deleted (change_source deleting the
\* source and its plans in one transaction; register_history and receive looking
\* at the source again before they write).
THEOREM DeletedHasNone == Spec => []DeletedHasNoPending
<1>1. InboxInv => DeletedHasNoPending
  BY DEF InboxInv, Ledger, DeletedHasNoPending, Pending
<1> QED BY <1>1, InboxInvariant, PTL

\* The cursor passes only messages that are decided or too old (the decision
\* is written before the cursor moves, and a cursor moves only under the revision
\* and client the page was read with), so a crash or an edit loses none.
THEOREM NothingJumped == Spec => NoMessageJumped
<1>1. InboxInv /\ [Next]_vars =>
         (poll.at = "advance" =>
            \A m \in (source.cursor + 1)..source'.cursor : Decided(m) \/ Old(m))
  BY StepGood DEF Good, Jumps
<1> QED BY <1>1, InboxInvariant, PTL DEF Spec, NoMessageJumped

\* Whoever decides about a message - poll, recheck or history registration -
\* decides by the source's rules of that moment.
THEOREM DecisionsInForce == Spec => DecidedByRuleInForce
<1>1. InboxInv /\ [Next]_vars =>
         (\A m \in Messages : ~ Decided(m) /\ event'[m].result # "none" =>
            /\ account /\ source.enabled /\ ~ source.deleted
            /\ plan'[m].status = "pending" => source.wanted
            /\ event'[m].result = "skipped" => ~ source.wanted)
  BY StepGood DEF Good, InForce
<1> QED BY <1>1, InboxInvariant, PTL DEF Spec, DecidedByRuleInForce

\* A plan that was submitted, ignored or has run out never waits again, though its
\* decision is forgotten after the retention (Plans.expire): by then its message
\* is outside the window of every poll and preview.
THEOREM NothingReprocessed == Spec => NeverReprocessed
<1>1. InboxInv /\ [Next]_vars =>
         (\A m \in Messages :
            plan[m].status \in {"submitted", "ignored", "expired"} => plan'[m].status # "pending")
  BY StepGood DEF Good, NotAgain
<1> QED BY <1>1, InboxInvariant, PTL DEF Spec, NeverReprocessed

================================================================================
