------------------------------ MODULE StoreProofs ------------------------------
(***************************************************************************)
(* Proofs about TransferPipeline: the names that tasks record on the       *)
(* remote side, and what lies under them. A claim is one task's, foreign   *)
(* and retained objects are left alone, a received task is stored whole    *)
(* and a cancelled one leaves nothing, and a local copy is removed only    *)
(* after the receipt. At the end, that every step is one of Delivery.      *)
(***************************************************************************)
EXTENDS RoleProofs

-------------------------------------------------------------------------------
(* Remote names *)

FinalsOf(t) == {Candidate(t, k) : k \in 0..MaxSuffix}
Received == {"cleanup_pending", "completed", "confirmed"}

\* What a row of task t may record, c and pu being the state of its /cancel.
Listed(t, r, c, pu) ==
    /\ r.temp \in {NoPath} \cup {Staging(t, g) : g \in 0..r.gen}
    /\ Backend = "openlist" => r.temp = NoPath
    /\ r.final \in {NoPath} \cup FinalsOf(t)
    /\ r.rpath \in {NoPath, r.temp, r.final}
    /\ r.state = "cancelled" => Recorded(r) = {}
    /\ r.state \in Received => r.final # NoPath /\ r.rpath = r.final /\ r.temp = NoPath
    /\ c = "purging" => pu \subseteq Recorded(r)

\* What is recorded belongs to the task and to no recovery.
Owned(t) ==
    /\ row[t].final # NoPath => store[row[t].final].by \in {t, "nobody"}
    /\ Recorded(row[t]) \cap retained = {}

Listing == \A t \in Tasks : Listed(t, row[t], cancelling[t], purge[t]) /\ Owned(t)

\* A staging name is used by its task only, and again only after a recovery.
OwnStaging ==
    /\ \A t \in Tasks, g \in 0..MaxRecoveries :
          /\ store[Staging(t, g)].by \in {t, "nobody"}
          /\ Staging(t, g) \in retained => g < row[t].gen
    /\ \A p \in Paths : store[p].by = "nobody" => store[p] = Absent

\* What a coroutine in the remote half holds: the name it works on is the one
\* on record, and the lock while a final name is being chosen.
Holds(w) ==
    LET r == row[w[2]]
        j == job[w]
        staged == Backend = "clouddrive2" IN
    /\ pc[w] \in {"lock", "exists", "reserved", "move"} /\ staged => j.path = r.temp /\ r.temp # NoPath
    /\ pc[w] \in {"write", "writing", "verify"} =>
          j.path = (IF staged THEN r.temp ELSE r.final) /\ j.path # NoPath
    /\ pc[w] \in {"exists", "reserved", "move"} => lock = w
    /\ pc[w] = "exists" => r.final = NoPath /\ ~ Claimed(Candidate(w[2], j.k), w[2])
    /\ pc[w] \in {"reserved", "move", "final", "complete"} => j.goal = r.final /\ r.final # NoPath
    /\ pc[w] = "move" => staged

NameInv == Listing /\ UniqueClaim /\ OwnStaging /\ \A w \in Workers : Holds(w)

\* What a row records, told apart.
LEMMA RecordedNames ==
    ASSUME RInv, Listing, NEW t \in Tasks, NEW p \in Recorded(row[t])
    PROVE  /\ p \in Paths
           /\ \/ p = row[t].temp /\ \E g \in 0..row[t].gen : p = Staging(t, g)
              \/ p = row[t].final /\ p \in FinalsOf(t)
<1>1. Listed(t, row[t], cancelling[t], purge[t]) /\ row[t] \in Row
  BY DEF Listing, RInv, TInv, TypeOK
<1>2. p \in {row[t].temp, row[t].final, row[t].rpath} /\ p # NoPath
  BY DEF Recorded
<1>3. p \in Paths
  BY <1>1, <1>2 DEF Row
<1> QED BY <1>1, <1>2, <1>3 DEF Listed

LEMMA NamesApart ==
    /\ \A t, u \in Tasks : \A g, h : Staging(t, g) = Staging(u, h) => t = u /\ g = h
    /\ \A t, u \in Tasks : \A g : Staging(t, g) \notin FinalsOf(u)
    /\ \A t \in Tasks : \A g : Staging(t, g) # NoPath
    /\ \A t \in Tasks : NoPath \notin FinalsOf(t)
<1>1. \A t, u \in Tasks : \A g, h : Staging(t, g) = Staging(u, h) => t = u /\ g = h
  BY DEF Staging
<1>2. \A t, u \in Tasks : \A g : Staging(t, g) \notin FinalsOf(u)
  BY DEF Staging, FinalsOf, Candidate
<1>3. \A t \in Tasks : \A g : Staging(t, g) # NoPath
  BY DEF Staging, NoPath
<1>4. \A t \in Tasks : NoPath \notin FinalsOf(t)
  BY DEF NoPath, FinalsOf, Candidate
<1> QED BY <1>1, <1>2, <1>3, <1>4

\* What two tasks record is different.
LEMMA RecordedApart ==
    ASSUME RInv, Listing, UniqueClaim, NEW t \in Tasks, NEW u \in Tasks, t # u
    PROVE  Recorded(row[t]) \cap Recorded(row[u]) = {}
<1> SUFFICES ASSUME NEW p \in Recorded(row[t]), p \in Recorded(row[u])
             PROVE  FALSE
  OBVIOUS
<1>1. \/ \E g : p = Staging(t, g)
      \/ p = row[t].final /\ p \in FinalsOf(t)
  BY RecordedNames
<1>2. \/ \E g : p = Staging(u, g)
      \/ p = row[u].final /\ p \in FinalsOf(u)
  BY RecordedNames
<1> QED BY <1>1, <1>2, NamesApart DEF UniqueClaim

-------------------------------------------------------------------------------
(* What a step may do to names and objects *)

\* A final name that nobody has, taken by the holder of the lock.
NewName(t) ==
    LET p == row'[t].final IN
    /\ p \in Paths \ retained /\ store[p] = Absent /\ lock \in {D(t), U(t)}
    /\ \A u \in Tasks \ {t} : row[u].final # p /\ row'[u].final = row[u].final

\* Objects change under the names their task has on record.
StoreOf(t) ==
    \A p \in Paths :
       \/ store'[p] = store[p]
       \/ p \in Recorded(row[t]) /\ (store'[p] = Absent \/ store'[p].by = t)
StoreMove ==
    \A p \in Paths :
       \/ store'[p] = store[p]
       \/ \E t \in Tasks : p \in Recorded(row[t]) /\ (store'[p] = Absent \/ store'[p].by = t)

\* A recovery gives its names away.
RetainedMove ==
    /\ retained \subseteq retained'
    /\ \A p \in retained' \ retained : \E t \in Tasks :
          p \in Recorded(row[t]) /\ row'[t].gen > row[t].gen /\ Recorded(row'[t]) = {}

RowMove(t) ==
    /\ Listed(t, row'[t], cancelling'[t], purge'[t])
    /\ row'[t].final \in {row[t].final, NoPath} \/ NewName(t)
    /\ row'[t].temp \in {row[t].temp, NoPath, Staging(t, row[t].gen)}
    /\ row'[t].gen >= row[t].gen

NamesMove == StoreMove /\ RetainedMove /\ \A t \in Tasks : RowMove(t)

\* Such a step keeps what is listed, owned and claimed.
LEMMA MoveKeepsOwned ==
    ASSUME RInv, Listing, UniqueClaim, OwnStaging, NamesMove, row' \in [Tasks -> Row], NEW t \in Tasks
    PROVE  Owned(t)'
<1>1. /\ Listed(t, row'[t], cancelling'[t], purge'[t]) /\ row[t] \in Row /\ row'[t] \in Row /\ Owned(t)
      /\ row'[t].final \in {row[t].final, NoPath} \/ NewName(t)
      /\ row'[t].temp \in {row[t].temp, NoPath, Staging(t, row[t].gen)}
  BY DEF NamesMove, RowMove, Listing, RInv, TInv, TypeOK
<1>2. ASSUME row'[t].final # NoPath
      PROVE  store'[row'[t].final].by \in {t, "nobody"}
  <2> DEFINE p == row'[t].final
  <2>1. p \in Paths
    BY <1>1, <1>2 DEF Row
  <2>2. store[p].by \in {t, "nobody"}
    <3>1. CASE p = row[t].final
      BY <1>1, <1>2, <3>1 DEF Owned
    <3>2. CASE NewName(t)
      BY <3>2 DEF NewName, Absent
    <3> QED BY <1>1, <1>2, <3>1, <3>2
  <2>3. CASE \E u \in Tasks : p \in Recorded(row[u]) /\ (store'[p] = Absent \/ store'[p].by = u)
    <3>1. PICK u \in Tasks : p \in Recorded(row[u]) /\ (store'[p] = Absent \/ store'[p].by = u)
      BY <2>3
    <3>2. \/ \E g : p = Staging(u, g)
          \/ p = row[u].final
      BY <3>1, RecordedNames
    <3>3. p \in FinalsOf(t)
      BY <1>1, <1>2 DEF Listed
    <3>4. p = row[u].final
      BY <3>2, <3>3, NamesApart
    <3>5. u = t
      BY <1>1, <1>2, <3>4 DEF UniqueClaim, NewName
    <3> QED BY <3>1, <3>5 DEF Absent
  <2> QED BY <2>1, <2>2, <2>3 DEF NamesMove, StoreMove
<1>3. ASSUME NEW p \in Recorded(row'[t]), p \in retained'
      PROVE  FALSE
  <2>1. p \in {row'[t].temp, row'[t].final} /\ p # NoPath
    BY <1>1, <1>3 DEF Listed, Recorded
  <2>2. p \notin retained
    <3>1. CASE p \in {row[t].temp, row[t].final}
      BY <1>1, <2>1, <3>1 DEF Owned, Recorded
    <3>2. CASE p = Staging(t, row[t].gen)
      BY <1>1, <3>2 DEF OwnStaging, Row
    <3>3. CASE NewName(t) /\ p = row'[t].final
      BY <3>3 DEF NewName
    <3> QED BY <1>1, <2>1, <3>1, <3>2, <3>3
  <2>3. PICK u \in Tasks : p \in Recorded(row[u]) /\ Recorded(row'[u]) = {}
    BY <1>3, <2>2 DEF NamesMove, RetainedMove
  <2>4. u # t
    BY <1>3, <2>3
  <2>5. \/ \E g : p = Staging(u, g)
        \/ p = row[u].final /\ p \in FinalsOf(u)
    BY <2>3, RecordedNames
  <2>6. CASE p = row'[t].final
    <3>1. p \in FinalsOf(t)
      BY <1>1, <2>1, <2>6 DEF Listed
    <3>2. p = row[u].final
      BY <2>5, <3>1, NamesApart
    <3> QED BY <1>1, <2>1, <2>4, <2>6, <3>2 DEF UniqueClaim, NewName
  <2>7. CASE p = row'[t].temp
    <3>1. \E g : p = Staging(t, g)
      BY <1>1, <2>1, <2>7 DEF Listed
    <3> QED BY <2>4, <2>5, <3>1, NamesApart
  <2> QED BY <2>1, <2>6, <2>7
<1> QED BY <1>2, <1>3 DEF Owned

LEMMA MoveKeepsNames ==
    ASSUME RInv, Listing, UniqueClaim, OwnStaging, NamesMove, row' \in [Tasks -> Row]
    PROVE  Listing' /\ UniqueClaim' /\ OwnStaging'
<1>1. Listing'
  BY MoveKeepsOwned DEF Listing, NamesMove, RowMove
<1>2. UniqueClaim'
  <2> SUFFICES ASSUME NEW t \in Tasks, NEW u \in Tasks, t # u, row'[t].final # NoPath,
                      row'[t].final = row'[u].final
               PROVE  FALSE
    BY DEF UniqueClaim
  <2>1. /\ row'[t].final = row[t].final \/ NewName(t)
        /\ row'[u].final = row[u].final \/ NewName(u)
    BY DEF NamesMove, RowMove
  <2> QED BY <2>1 DEF UniqueClaim, NewName
<1>3. ASSUME NEW t \in Tasks, NEW g \in 0..MaxRecoveries
      PROVE  /\ store'[Staging(t, g)].by \in {t, "nobody"}
             /\ Staging(t, g) \in retained' => g < row'[t].gen
  <2> DEFINE p == Staging(t, g)
  <2>1. p \in Paths
    BY PathTypes
  <2>2. ASSUME NEW u \in Tasks, p \in Recorded(row[u])
        PROVE  u = t /\ g \in 0..row[t].gen
    BY <2>2, RecordedNames, NamesApart
  <2>3. store'[p].by \in {t, "nobody"}
    BY <2>1, <2>2 DEF NamesMove, StoreMove, OwnStaging, Absent
  <2>4. row'[t].gen >= row[t].gen /\ row'[t].gen \in Nat /\ row[t].gen \in Nat
    BY PipelineAssumption DEF NamesMove, RowMove, RInv, TInv, TypeOK, Row
  <2>5. ASSUME p \in retained' PROVE g < row'[t].gen
    <3>1. CASE p \in retained
      BY <2>4, <3>1 DEF OwnStaging
    <3>2. CASE p \notin retained
      <4>1. PICK u \in Tasks : p \in Recorded(row[u]) /\ row'[u].gen > row[u].gen
        BY <2>5, <3>2 DEF NamesMove, RetainedMove
      <4> QED BY <2>2, <2>4, <4>1
    <3> QED BY <3>1, <3>2
  <2> QED BY <2>3, <2>5
<1>4. ASSUME NEW p \in Paths, store'[p].by = "nobody"
      PROVE  store'[p] = Absent
  BY <1>4, PipelineAssumption DEF NamesMove, StoreMove, OwnStaging
<1> QED BY <1>1, <1>2, <1>3, <1>4 DEF OwnStaging

\* What stays recorded.
Named(q, r) == q.temp = r.temp /\ q.final = r.final /\ q.rpath = r.rpath /\ q.gen = r.gen

\* A row keeps its names, and a state that tells about them is not new.
StillNamed(q, r) ==
    /\ Named(q, r)
    /\ q.state = "cancelled" => r.state = "cancelled"
    /\ q.state \in Received => r.state \in Received

LEMMA StillListed ==
    ASSUME NEW t, NEW r, NEW q, NEW c, NEW pu, NEW d, NEW pv,
           Listed(t, r, c, pu), StillNamed(q, r),
           d = "purging" => pv \subseteq Recorded(r)
    PROVE  Listed(t, q, d, pv) /\ Recorded(q) = Recorded(r)
BY DEF Listed, StillNamed, Named, Recorded

\* The step of one task.
OtherRows(t) ==
    \A x \in Tasks \ {t} :
       row'[x] = row[x] /\ cancelling'[x] = cancelling[x] /\ purge'[x] = purge[x]

LEMMA TaskNames ==
    ASSUME RInv, NameInv, NEW t \in Tasks, OtherRows(t), RowMove(t), StoreOf(t),
           \/ UNCHANGED retained
           \/ /\ retained' = retained \cup Recorded(row[t])
              /\ row'[t].gen > row[t].gen /\ Recorded(row'[t]) = {}
    PROVE  NamesMove
<1>1. ASSUME NEW x \in Tasks \ {t}
      PROVE  RowMove(x)
  <2>1. row[x].gen \in Nat
    BY PipelineAssumption DEF RInv, TInv, TypeOK, Row
  <2> QED BY <2>1 DEF OtherRows, RowMove, NameInv, Listing
<1>2. StoreMove
  BY DEF StoreMove, StoreOf
<1>3. RetainedMove
  BY DEF RetainedMove
<1> QED BY <1>1, <1>2, <1>3 DEF NamesMove

\* A coroutine that does not move keeps what it holds.
HeldLabels == {"lock", "exists", "reserved", "move", "write", "writing", "verify", "final", "complete"}

LEMMA HoldsStay ==
    ASSUME RInv, NameInv, NamesMove, NEW v \in Workers,
           pc'[v] = pc[v], job'[v] = job[v],
           row'[v[2]].temp = row[v[2]].temp, row'[v[2]].final = row[v[2]].final,
           lock = v => lock' = v
    PROVE  Holds(v)'
<1> DEFINE t == v[2]
           p == Candidate(t, job[v].k)
<1>1. Holds(v) /\ t \in Tasks /\ job[v] \in Job
  BY Mine DEF NameInv
<1>2. ASSUME pc[v] = "exists"
      PROVE  ~ Claimed(p, t)'
  <2>1. lock = v /\ row[t].final = NoPath /\ ~ Claimed(p, t)
    BY <1>1, <1>2 DEF Holds
  <2>2. p \in FinalsOf(t)
    BY <1>1 DEF FinalsOf, Job
  <2>3. ASSUME NEW u \in Tasks, p \in Recorded(row[u])
        PROVE  FALSE
    <3>1. p = row[u].final /\ p \in FinalsOf(u)
      BY <1>1, <2>2, <2>3, RecordedNames, NamesApart DEF NameInv
    <3>2. u # t
      BY <1>1, <2>1, <3>1, NamesApart
    <3>3. row[u].state = "cancelled"
      BY <2>1, <3>1, <3>2 DEF Claimed
    <3> QED BY <2>3, <3>3 DEF NameInv, Listing, Listed
  <2>4. p \notin retained'
    BY <2>1, <2>3 DEF NamesMove, RetainedMove, Claimed
  <2>5. ASSUME NEW u \in Tasks \ {t}, row'[u].final = p
        PROVE  FALSE
    <3>1. p # NoPath
      BY <1>1, <2>2, NamesApart
    <3>2. ~ NewName(u)
      BY <1>1, <2>1, <2>5, WorkerTypes DEF NewName, D, U
    <3>3. row[u].final = p
      BY <2>5, <3>1, <3>2 DEF NamesMove, RowMove
    <3> QED BY <2>3, <3>1, <3>3 DEF Recorded
  <2> QED BY <2>4, <2>5 DEF Claimed
<1> QED BY <1>1, <1>2 DEF Holds

LEMMA HoldsNothing ==
    ASSUME NEW v, pc'[v] \notin HeldLabels
    PROVE  Holds(v)'
BY DEF Holds, HeldLabels

\* Only the holder gives the lock away.
LockMove(w) == lock' = lock \/ lock = w \/ lock = NoWorker

\* Where one worker of a task holds names, the other one rests.
LEMMA HeldAlone ==
    ASSUME RInv, Roles, NEW t \in Tasks
    PROVE  /\ pc[D(t)] \in HeldLabels => pc[U(t)] \in {"idle", "notify"}
           /\ pc[U(t)] \in HeldLabels => pc[D(t)] \in {"idle", "notify"}
BY Pair DEF HeldLabels, Roles, Role, RoleOf, Coroutines, Downloading, Streaming, Remote, Finishing

LEMMA WorkerNames ==
    ASSUME RInv, Roles, NameInv, NEW w \in Workers, Others(w), RowMove(w[2]), StoreOf(w[2]), UNCHANGED retained,
           row' \in [Tasks -> Row], LockMove(w), Holds(w)',
           pc[w] \notin {"idle", "notify"} \/ Named(row'[w[2]], row[w[2]])
    PROVE  NamesMove /\ NameInv'
<1> DEFINE t == w[2]
<1>1. t \in Tasks /\ (w = D(t) \/ w = U(t)) /\ D(t) # U(t)
  BY WorkerTypes, Pair DEF D, U
<1>2. NamesMove
  <2>1. OtherRows(t)
    BY DEF Others, OtherRows, commands
  <2> QED BY <1>1, <2>1, TaskNames
<1>3. Listing' /\ UniqueClaim' /\ OwnStaging'
  BY <1>2, MoveKeepsNames DEF NameInv
<1>4. ASSUME NEW v \in Workers \ {w}
      PROVE  Holds(v)'
  <2>1. pc'[v] = pc[v] /\ job'[v] = job[v] /\ v[2] \in Tasks
    BY Mine DEF Others
  <2>2. lock = v => lock' = v
    BY WorkerTypes DEF LockMove, NoWorker, Workers
  <2>3. CASE v[2] # t
    BY <1>2, <2>1, <2>2, <2>3, HoldsStay DEF Others
  <2>4. CASE v[2] = t /\ pc[v] \notin HeldLabels
    BY <2>1, <2>4, HoldsNothing
  <2>5. CASE v[2] = t /\ pc[v] \in HeldLabels
    <3>1. v = D(t) \/ v = U(t)
      BY <2>5, WorkerTypes DEF D, U
    <3>2. pc[w] \in {"idle", "notify"}
      BY <1>1, <2>5, <3>1, HeldAlone
    <3> QED BY <1>2, <2>1, <2>2, <2>5, <3>2, HoldsStay DEF Named
  <2> QED BY <2>3, <2>4, <2>5
<1> QED BY <1>2, <1>3, <1>4 DEF NameInv

\* The usual step: the row keeps its names and the worker stops holding any.
LEMMA PlainNames ==
    ASSUME RInv, Roles, NameInv, NEW w \in Workers, Others(w), StillNamed(row'[w[2]], row[w[2]]), StoreOf(w[2]),
           UNCHANGED retained, row' \in [Tasks -> Row], LockMove(w), Holds(w)'
    PROVE  NamesMove /\ NameInv'
<1> DEFINE t == w[2]
<1>1. t \in Tasks /\ Listed(t, row[t], cancelling[t], purge[t]) /\ cancelling' = cancelling /\ purge' = purge
      /\ row[t].gen \in Nat
  BY Mine, PipelineAssumption DEF NameInv, Listing, Others, commands, Row
<1> HIDE DEF t
<1>2. Listed(t, row'[t], cancelling'[t], purge'[t])
  <2>1. cancelling'[t] = "purging" => purge'[t] \subseteq Recorded(row[t])
    BY <1>1 DEF Listed
  <2> QED BY <1>1, <2>1, StillListed DEF t
<1>3. RowMove(t) /\ Named(row'[t], row[t])
  BY <1>1, <1>2 DEF RowMove, StillNamed, Named, t
<1> QED BY <1>3, WorkerNames DEF t

-------------------------------------------------------------------------------
(* The names through the remote half *)

LEMMA WriteOwn ==
    ASSUME RInv, NEW t \in Tasks, NEW p \in Recorded(row[t]), NEW o, o = Absent \/ o.by = t,
           store' = [store EXCEPT ![p] = o]
    PROVE  StoreOf(t)
BY DEF StoreOf, RInv, TInv, TypeOK

LEMMA KeepStore == ASSUME UNCHANGED store, NEW t PROVE StoreOf(t)
BY DEF StoreOf

LEMMA FailedNames ==
    ASSUME NEW w \in Workers, NEW kind, FailedBy(w, kind)
    PROVE  StillNamed(row'[w[2]], row[w[2]]) /\ LockMove(w) /\ pc'[w] \in {"idle", "notify", "backoff"}
BY DEF FailedBy, StillNamed, Named, Twin, LockMove, FailedState, Received

LEMMA FailsNames ==
    ASSUME RInv, Roles, NameInv, NEW w \in Workers, NEW kind, FailedBy(w, kind), Others(w), StoreOf(w[2]),
           UNCHANGED retained, row' \in [Tasks -> Row]
    PROVE  NamesMove /\ NameInv'
BY FailedNames, HoldsNothing, PlainNames DEF HeldLabels

LEMMA BeginsNames ==
    ASSUME RInv, Roles, NameInv, NEW w \in Workers, Begins(w), Others(w), Remotely(w), UNCHANGED <<store, retained>>,
           row' \in [Tasks -> Row]
    PROVE  NamesMove /\ NameInv'
<1> DEFINE t == w[2]
           r == row[t]
           q == row'[t]
           p == Staging(t, r.gen)
<1>1. /\ t \in Tasks /\ Listed(t, r, cancelling[t], purge[t]) /\ cancelling'[t] = "idle" /\ r.gen \in 0..MaxRecoveries
      /\ pc[w] \notin {"idle", "notify"}
  BY Mine, RemotePeer DEF NameInv, Listing, Others, commands, Remotely, Remote, Finishing, Row
<1>2. /\ Backend = "clouddrive2" /\ pc'[w] = "write" /\ lock' = lock /\ job'[w].path = p
      /\ q.gen = r.gen /\ q.state \in {"streaming", "uploading"} /\ q.rpath = p /\ q.temp = p /\ q.final = r.final
  BY DEF Begins, Marked, WritingState
<1>3. p # NoPath
  BY <1>1, NamesApart
<1> HIDE DEF r, q, p
<1>4. Listed(t, q, cancelling'[t], purge'[t])
  BY <1>1, <1>2 DEF Listed, Received, p
<1>5. RowMove(t)
  BY <1>1, <1>2, <1>4 DEF RowMove, p, q, r
<1>6. Holds(w)'
  BY <1>2, <1>3 DEF Holds, q
<1>7. LockMove(w) /\ StoreOf(t)
  BY <1>2, KeepStore DEF LockMove
<1> QED BY <1>1, <1>5, <1>6, <1>7, WorkerNames

LEMMA ClaimsNames ==
    ASSUME RInv, Roles, NameInv, NEW w \in Workers, NEW p, Claims(w, p), Others(w), UNCHANGED <<store, retained>>,
           row' \in [Tasks -> Row],
           \/ pc[w] = "exists" /\ p = Candidate(w[2], job[w].k) /\ ~ Exists(p)
           \/ pc[w] = "reserved" /\ p = job[w].goal
    PROVE  NamesMove /\ NameInv'
<1> DEFINE t == w[2]
           r == row[t]
           q == row'[t]
<1>1. /\ t \in Tasks /\ Listed(t, r, cancelling[t], purge[t]) /\ cancelling'[t] = "idle" /\ r.gen \in Nat
      /\ Holds(w) /\ lock = w /\ job[w] \in Job /\ (w = D(t) \/ w = U(t))
  <2>1. Remotely(w)
    BY DEF Remotely, Remote, Finishing
  <2>2. cancelling[t] = "idle"
    BY <2>1, RemotePeer
  <2>3. row[t].gen \in Nat
    BY Mine, PipelineAssumption DEF Row
  <2>4. lock = w
    BY DEF NameInv, Holds
  <2>5. w = D(t) \/ w = U(t)
    BY WorkerTypes DEF D, U
  <2> QED BY <2>2, <2>3, <2>4, <2>5, Mine DEF NameInv, Listing, Others, commands
<1> HIDE DEF t, r, q
<1>2. /\ p \in FinalsOf(t)
      /\ p = r.final \/ NewName(t)
  <2>1. CASE pc[w] = "exists" /\ p = Candidate(t, job[w].k) /\ ~ Exists(p)
    <3>1. p \in FinalsOf(t) /\ p \in Paths /\ p # NoPath
      BY <1>1, <2>1, PathTypes, NamesApart DEF FinalsOf, Job
    <3>2. store[p] = Absent
      BY <2>1, <3>1 DEF Exists
    <3>3. ~ Claimed(p, t)
      BY <1>1, <2>1 DEF Holds, t
    <3>4. ASSUME NEW u \in Tasks \ {t}
          PROVE  row[u].final # p /\ row'[u].final = row[u].final
      <4>1. row'[u] = row[u]
        BY DEF Others, t
      <4>2. row[u].final = p => row[u].state = "cancelled" /\ Recorded(row[u]) # {}
        BY <3>1, <3>3 DEF Claimed, Recorded
      <4> QED BY <4>1, <4>2 DEF NameInv, Listing, Listed
    <3>5. q.final = p /\ p \notin retained
      BY <3>3 DEF Claims, Claimed, q, t
    <3> QED BY <1>1, <3>1, <3>2, <3>4, <3>5 DEF NewName, q
  <2>2. CASE pc[w] = "reserved" /\ p = job[w].goal
    BY <1>1, <2>2 DEF Holds, Listed, t, r
  <2> QED BY <2>1, <2>2 DEF t
<1>3. /\ q.rpath = p /\ q.final = p /\ job'[w].goal = p /\ q.gen = r.gen
      /\ q.state \in {"streaming", "uploading", "finalizing"}
      /\ \/ Backend = "openlist" /\ q.temp = NoPath /\ job'[w].path = p /\ lock' = NoWorker /\ pc'[w] = "write"
         \/ /\ Backend = "clouddrive2" /\ q.temp = job[w].path /\ job'[w].path = job[w].path /\ lock' = lock
            /\ pc'[w] = "move"
  BY DEF Claims, Marked, WritingState, t, r, q
<1>4. Backend = "clouddrive2" => job[w].path = r.temp /\ r.temp # NoPath
  BY <1>1 DEF Holds, r, t
<1>5. p # NoPath
  BY <1>1, <1>2, NamesApart
<1>6. Listed(t, q, cancelling'[t], purge'[t])
  BY <1>1, <1>2, <1>3, <1>4 DEF Listed, Received
<1>7. RowMove(t)
  BY <1>1, <1>2, <1>3, <1>4, <1>6 DEF RowMove, r, q
<1>8. Holds(w)'
  BY <1>1, <1>3, <1>4, <1>5 DEF Holds, q, t, r
<1>9. LockMove(w) /\ StoreOf(t) /\ pc[w] # "idle"
  BY <1>1, KeepStore DEF LockMove
<1> QED BY <1>7, <1>8, <1>9, WorkerNames DEF t

LEMMA QueuesNames ==
    ASSUME RInv, Roles, NameInv, NEW w \in Workers, Queues(w), Others(w), UNCHANGED <<store, retained>>,
           row' \in [Tasks -> Row]
    PROVE  NamesMove /\ NameInv'
<1>1. StillNamed(row'[w[2]], row[w[2]]) /\ LockMove(w) /\ StoreOf(w[2])
  BY KeepStore DEF Queues, StillNamed, Named, LockMove
<1>2. Holds(w)'
  BY DEF Queues, Holds
<1> QED BY <1>1, <1>2, PlainNames

LEMMA NothingNames ==
    ASSUME RInv, Roles, NameInv, NEW w \in Workers, Nothing(w), Others(w), Remotely(w),
           UNCHANGED <<store, retained>>, row' \in [Tasks -> Row]
    PROVE  NamesMove /\ NameInv'
<1>1. CASE job[w].how = "stream" /\ pc'[w] = "head" /\ UNCHANGED <<row, job, lock>>
  <2>1. StillNamed(row'[w[2]], row[w[2]]) /\ LockMove(w) /\ StoreOf(w[2]) /\ Holds(w)'
    BY <1>1, KeepStore, HoldsNothing DEF StillNamed, Named, LockMove, HeldLabels
  <2> QED BY <2>1, PlainNames
<1>2. CASE FailedBy(w, "transient")
  BY <1>2, KeepStore, FailsNames
<1> QED BY <1>1, <1>2, QueuesNames, BeginsNames DEF Nothing

\* The legacy column says nothing the other two do not.
LEMMA RecordedColumns ==
    ASSUME RInv, Listing, NEW t \in Tasks
    PROVE  RecordedFinal(row[t]) = row[t].final /\ RecordedTemp(row[t]) = row[t].temp
<1> DEFINE r == row[t]
<1>1. Listed(t, r, cancelling[t], purge[t]) /\ r.gen \in 0..MaxRecoveries
  BY DEF Listing, RInv, TInv, TypeOK, Row
<1>2. r.temp # NoPath => IsStaging(r.temp)
  BY <1>1, PipelineAssumption DEF Listed, IsStaging, Stagings
<1>3. r.final # NoPath => ~ IsStaging(r.final)
  BY <1>1, NamesApart DEF Listed, IsStaging, Stagings
<1>4. ~ IsStaging(NoPath)
  BY NamesApart DEF IsStaging, Stagings
<1>5. r.rpath \in {NoPath, r.temp, r.final}
  BY <1>1 DEF Listed
<1> HIDE DEF r
<1> QED BY <1>2, <1>3, <1>4, <1>5 DEF RecordedFinal, RecordedTemp, r

\* Where an object of the task stands under one of its names.
LEMMA Recorded3 ==
    ASSUME NEW r
    PROVE  /\ r.temp # NoPath => r.temp \in Recorded(r)
           /\ r.final # NoPath => r.final \in Recorded(r)
           /\ r.rpath # NoPath => r.rpath \in Recorded(r)
BY DEF Recorded

LEMMA ResumeNames ==
    ASSUME RInv, Roles, NameInv, NEW w \in Workers, Others(w), row' \in [Tasks -> Row],
           ResumeDone(w) \/ ResumeTempDone(w) \/ StreamHeadDone(w)
    PROVE  NamesMove /\ NameInv'
<1> DEFINE t == w[2]
           r == row[t]
<1>1. /\ RecordedFinal(r) = r.final /\ RecordedTemp(r) = r.temp
      /\ UNCHANGED <<store, retained>> /\ StoreOf(t) /\ Remotely(w)
  BY Mine, RecordedColumns, KeepStore
     DEF NameInv, ResumeDone, ResumeTempDone, StreamHeadDone, Remotely, Remote, Finishing
<1>2. UNCHANGED row => StillNamed(row'[t], r)
  BY DEF StillNamed, Named
<1>3. CASE \/ Nothing(w) \/ Queues(w) \/ Begins(w)
           \/ \E kind : FailedBy(w, kind)
  BY <1>1, <1>3, NothingNames, QueuesNames, BeginsNames, FailsNames
<1>4. CASE Whole(r.final) /\ Aims(w, job[w].path, r.final) /\ pc'[w] = "complete" /\ UNCHANGED <<row, lock>>
  <2>1. Holds(w)'
    BY <1>4 DEF Holds, Aims, Whole, Exists
  <2> QED BY <1>1, <1>2, <1>4, <2>1, PlainNames DEF LockMove
<1>5. CASE pc'[w] = "resumeTemp" /\ UNCHANGED <<row, job, lock>>
  BY <1>1, <1>2, <1>5, PlainNames, HoldsNothing DEF LockMove, HeldLabels
<1>6. CASE Whole(r.temp) /\ Aims(w, r.temp, job[w].goal) /\ pc'[w] = "lock" /\ UNCHANGED <<row, lock>>
  <2>1. Holds(w)'
    BY <1>6 DEF Holds, Aims, Whole, Exists
  <2> QED BY <1>1, <1>2, <1>6, <2>1, PlainNames DEF LockMove
<1> HIDE DEF r
<1> QED BY <1>1, <1>3, <1>4, <1>5, <1>6 DEF ResumeDone, ResumeTempDone, StreamHeadDone, r

LEMMA LockNames ==
    ASSUME RInv, Roles, NameInv, NEW w \in Workers, Others(w), row' \in [Tasks -> Row],
           TakeLockDone(w) \/ ChooseFinalDone(w) \/ ReuseFinalDone(w)
    PROVE  NamesMove /\ NameInv'
<1> DEFINE t == w[2]
           r == row[t]
<1>1. UNCHANGED <<store, retained>> /\ StoreOf(t) /\ Holds(w)
  BY KeepStore DEF NameInv, TakeLockDone, ChooseFinalDone, ReuseFinalDone
<1>2. UNCHANGED row => StillNamed(row'[t], r)
  BY DEF StillNamed, Named
<1>3. \A j, k : FirstUnclaimed(t, j, k) => ~ Claimed(Candidate(t, k), t)
  BY DEF FirstUnclaimed
<1>4. CASE TakeLockDone(w)
  <2>1. UNCHANGED <<row, retained>> /\ LockMove(w) /\ (UNCHANGED row => \A p : Claimed(p, t)' = Claimed(p, t))
    BY <1>4 DEF TakeLockDone, LockMove, Claimed
  <2>2. Holds(w)'
    BY <1>1, <1>3, <1>4, <2>1 DEF TakeLockDone, Holds, Aims
  <2> QED BY <1>1, <1>2, <2>1, <2>2, PlainNames
<1>5. CASE ChooseFinalDone(w)
  <2> DEFINE p == Candidate(t, job[w].k)
  <2>1. CASE /\ Aims(w, job[w].path, job[w].goal) /\ UNCHANGED <<row, pc, lock>>
             /\ FirstUnclaimed(t, job[w].k + 1, job'[w].k)
    <3>1. LockMove(w) /\ \A q : Claimed(q, t)' = Claimed(q, t)
      BY <1>1, <2>1 DEF LockMove, Claimed
    <3>2. Holds(w)'
      BY <1>1, <1>3, <1>5, <2>1, <3>1 DEF ChooseFinalDone, Holds, Aims
    <3> QED BY <1>1, <1>2, <2>1, <3>1, <3>2, PlainNames
  <2>2. CASE ~ Exists(p) /\ Claims(w, p)
    BY <1>1, <1>5, <2>2, ClaimsNames DEF ChooseFinalDone
  <2>3. CASE FailedBy(w, "transient")
    BY <1>1, <2>3, FailsNames
  <2> HIDE DEF p
  <2> QED BY <1>5, <2>1, <2>2, <2>3 DEF ChooseFinalDone, p
<1>6. CASE ReuseFinalDone(w)
  BY <1>1, <1>6, ClaimsNames, FailsNames DEF ReuseFinalDone
<1> QED BY <1>4, <1>5, <1>6

\* The object a worker writes, moves or checks stands under a recorded name.
LEMMA WritesOwn ==
    ASSUME RInv, NameInv, NEW w \in Workers, pc[w] \in {"write", "writing", "verify"}
    PROVE  LET r == row[w[2]]
               p == job[w].path IN
           /\ p = (IF Backend = "clouddrive2" THEN r.temp ELSE r.final) /\ p # NoPath
           /\ p \in Recorded(r) /\ (IsStaging(p) <=> Backend = "clouddrive2")
           /\ \A b : store' = [store EXCEPT ![p] = Object(w[2], b)] => StoreOf(w[2])
<1> DEFINE t == w[2]
           r == row[t]
           p == job[w].path
<1>1. /\ t \in Tasks /\ Holds(w) /\ Listed(t, r, cancelling[t], purge[t]) /\ r.gen \in 0..MaxRecoveries
  BY Mine DEF NameInv, Listing, Row
<1>2. /\ p = (IF Backend = "clouddrive2" THEN r.temp ELSE r.final) /\ p # NoPath
  BY <1>1 DEF Holds
<1>3. p \in Recorded(r) /\ (IsStaging(p) <=> Backend = "clouddrive2")
  BY <1>1, <1>2, NamesApart, PipelineAssumption DEF Recorded, IsStaging, Stagings, Listed
<1>4. \A b : store' = [store EXCEPT ![p] = Object(t, b)] => StoreOf(t)
  <2> TAKE b
  <2>1. Object(t, b).by = t
    BY DEF Object
  <2> HIDE DEF p, r
  <2> QED BY <1>1, <1>3, <2>1, WriteOwn DEF r
<1> QED BY <1>2, <1>3, <1>4

LEMMA MovesOwn ==
    ASSUME RInv, NameInv, NEW w \in Workers, pc[w] = "move", Exists(job[w].path),
           store' = [store EXCEPT ![job[w].goal] = store[job[w].path], ![job[w].path] = Absent]
    PROVE  StoreOf(w[2])
<1> DEFINE t == w[2]
           r == row[t]
           source == job[w].path
           goal == job[w].goal
<1>1. /\ t \in Tasks /\ Holds(w) /\ store \in [Paths -> [by : Owners, whole : BOOLEAN]]
      /\ OwnStaging /\ Listed(t, r, cancelling[t], purge[t]) /\ r.gen \in 0..MaxRecoveries
  BY Mine DEF NameInv, Listing, Row, RInv, TInv, TypeOK
<1>2. source = r.temp /\ r.temp # NoPath /\ goal = r.final /\ r.final # NoPath
  BY <1>1 DEF Holds
<1>3. source \in Recorded(r) /\ goal \in Recorded(r) /\ source \in Paths /\ goal \in Paths
  BY <1>1, <1>2, Recorded3, RecordedNames DEF NameInv
<1>4. store[source].by = t
  BY <1>1, <1>2, <1>3, PipelineAssumption DEF Exists, Listed, OwnStaging
<1>5. store' = [store EXCEPT ![goal] = store[source], ![source] = Absent]
  OBVIOUS
<1> HIDE DEF source, goal
<1> QED BY <1>1, <1>3, <1>4, <1>5 DEF StoreOf

LEMMA ReceivesOwn ==
    ASSUME RInv, NEW w \in Workers, ReceiveDone(w)
    PROVE  StoreOf(w[2])
<1> DEFINE t == w[2]
           r == row[t]
           p == job[w].goal
<1>1. t \in Tasks
  BY Mine
<1>2. CASE r.temp \in Paths \ {p}
  <2>1. store' = [store EXCEPT ![r.temp] = Absent]
    BY <1>2 DEF ReceiveDone
  <2>2. NoPath \notin Paths
    BY NamesApart DEF Paths, Finals, Stagings, FinalsOf
  <2> HIDE DEF r, p
  <2>3. r.temp \in Recorded(r)
    BY <1>2, <2>2, Recorded3
  <2> QED BY <1>1, <2>1, <2>3, WriteOwn DEF r
<1>3. CASE r.temp \notin Paths \ {p}
  BY <1>3, KeepStore DEF ReceiveDone
<1> QED BY <1>2, <1>3

LEMMA WriteNames ==
    ASSUME RInv, Roles, NameInv, NEW w \in Workers, Others(w), row' \in [Tasks -> Row],
           WriteStartsDone(w) \/ WriteEndsDone(w) \/ VerifyDone(w)
    PROVE  NamesMove /\ NameInv'
<1> DEFINE t == w[2]
           r == row[t]
           p == job[w].path
<1>1. pc[w] \in {"write", "writing", "verify"} /\ UNCHANGED retained
  BY DEF WriteStartsDone, WriteEndsDone, VerifyDone
<1>2. /\ p = (IF Backend = "clouddrive2" THEN r.temp ELSE r.final) /\ p # NoPath
      /\ p \in Recorded(r) /\ (IsStaging(p) <=> Backend = "clouddrive2")
  BY <1>1, WritesOwn
<1>3. IsStaging(p) <=> Backend = "clouddrive2"
  BY <1>2
<1>4. \A b : store' = [store EXCEPT ![p] = Object(t, b)] => StoreOf(t)
  BY <1>1, WritesOwn
<1>5. UNCHANGED row => StillNamed(row'[t], r)
  BY DEF StillNamed, Named
<1>6. CASE WriteStartsDone(w)
  <2>1. StoreOf(t)
    BY <1>4, <1>6, KeepStore DEF WriteStartsDone
  <2>2. CASE pc'[w] = "writing" /\ UNCHANGED <<row, job, lock>>
    <3>1. Holds(w)' /\ LockMove(w)
      BY <1>2, <2>2 DEF Holds, LockMove
    <3> QED BY <1>1, <1>5, <2>1, <2>2, <3>1, PlainNames
  <2>3. CASE FailedBy(w, "transient")
    BY <1>1, <2>1, <2>3, FailsNames
  <2> QED BY <1>6, <2>2, <2>3 DEF WriteStartsDone
<1>7. CASE WriteEndsDone(w)
  <2>1. StoreOf(t)
    BY <1>4, <1>7 DEF WriteEndsDone
  <2>2. CASE Kin(row'[t], r) /\ row'[t].state = "verifying" /\ pc'[w] = "verify" /\ UNCHANGED <<job, lock>>
    <3>1. StillNamed(row'[t], r)
      BY <2>2 DEF StillNamed, Named, Kin, Twin, Received
    <3>2. Holds(w)' /\ LockMove(w)
      BY <1>2, <2>2 DEF Holds, LockMove, Kin, Twin
    <3> QED BY <1>1, <2>1, <3>1, <3>2, PlainNames
  <2>3. CASE FailedBy(w, "transient")
    BY <1>1, <2>1, <2>3, FailsNames
  <2> QED BY <1>7, <2>2, <2>3 DEF WriteEndsDone
<1>8. CASE VerifyDone(w)
  <2>1. StoreOf(t)
    BY <1>8, KeepStore DEF VerifyDone
  <2>2. CASE /\ UNCHANGED <<row, lock>>
             /\ \/ IsStaging(p) /\ Aims(w, p, NoPath) /\ pc'[w] = "lock"
                \/ ~ IsStaging(p) /\ Aims(w, p, p) /\ pc'[w] = "final"
    <3>1. Holds(w)' /\ LockMove(w)
      BY <1>2, <1>3, <2>2, PipelineAssumption DEF Holds, LockMove, Aims
    <3> QED BY <1>1, <1>5, <2>1, <2>2, <3>1, PlainNames
  <2>3. CASE \E kind : FailedBy(w, kind)
    BY <1>1, <2>1, <2>3, FailsNames
  <2> HIDE DEF p, r
  <2> QED BY <1>8, <2>2, <2>3 DEF VerifyDone, p
<1> QED BY <1>6, <1>7, <1>8

LEMMA FinishNames ==
    ASSUME RInv, Roles, NameInv, NEW w \in Workers, Others(w), row' \in [Tasks -> Row],
           MoveToFinalDone(w) \/ FinalCheckDone(w) \/ RemoteRetryDone(w)
    PROVE  NamesMove /\ NameInv'
<1> DEFINE t == w[2]
           r == row[t]
<1>1. /\ t \in Tasks /\ Holds(w) /\ UNCHANGED retained /\ store \in [Paths -> [by : Owners, whole : BOOLEAN]]
      /\ OwnStaging /\ Listed(t, r, cancelling[t], purge[t]) /\ r.gen \in 0..MaxRecoveries
  BY Mine DEF NameInv, Listing, MoveToFinalDone, FinalCheckDone, RemoteRetryDone, Row, RInv, TInv, TypeOK
<1>2. UNCHANGED row => StillNamed(row'[t], r)
  BY DEF StillNamed, Named
<1>3. CASE MoveToFinalDone(w)
  <2> DEFINE source == job[w].path
             goal == job[w].goal
  <2>1. source = r.temp /\ r.temp # NoPath /\ goal = r.final /\ r.final # NoPath
    BY <1>1, <1>3 DEF MoveToFinalDone, Holds
  <2> HIDE DEF source, goal
  <2>4. CASE /\ Exists(source) /\ store' = [store EXCEPT ![goal] = store[source], ![source] = Absent]
             /\ lock' = (IF lock = w THEN NoWorker ELSE lock) /\ pc'[w] = "final" /\ UNCHANGED <<row, job>>
    <3>1. StoreOf(t)
      BY <1>3, <2>4, MovesOwn DEF source, goal, MoveToFinalDone
    <3>2. Holds(w)' /\ LockMove(w)
      BY <2>1, <2>4 DEF Holds, LockMove, goal
    <3> QED BY <1>1, <1>2, <2>4, <3>1, <3>2, PlainNames
  <2>5. CASE FailedBy(w, "transient") /\ UNCHANGED store
    BY <1>1, <2>5, KeepStore, FailsNames
  <2> QED BY <1>3, <2>4, <2>5 DEF MoveToFinalDone, source, goal
<1>4. CASE FinalCheckDone(w)
  <2>1. StoreOf(t)
    BY <1>4, KeepStore DEF FinalCheckDone
  <2>2. CASE pc'[w] = "complete" /\ UNCHANGED <<row, job, lock>>
    <3>1. Holds(w)' /\ LockMove(w)
      BY <1>1, <1>4, <2>2 DEF Holds, LockMove, FinalCheckDone
    <3> QED BY <1>1, <1>2, <2>1, <2>2, <3>1, PlainNames
  <2>3. CASE \E kind : FailedBy(w, kind)
    BY <1>1, <2>1, <2>3, FailsNames
  <2> QED BY <1>4, <2>2, <2>3 DEF FinalCheckDone
<1>5. CASE RemoteRetryDone(w)
  <2>1. StoreOf(t) /\ StillNamed(row'[t], r) /\ Holds(w)' /\ LockMove(w)
    BY <1>5, KeepStore, HoldsNothing DEF RemoteRetryDone, StillNamed, Named, Kin, Twin, LockMove, HeldLabels
  <2> QED BY <1>1, <2>1, PlainNames
<1> QED BY <1>3, <1>4, <1>5

\* The remote side when calls took effect unseen.
LEMMA LandedCut ==
    ASSUME RInv, NameInv, NEW ws \in SUBSET Workers, NEW p \in Paths
    PROVE  \/ Landed(ws)[p] = store[p]
           \/ \E w \in ws : /\ pc[w] \in {"move", "writing"} /\ p \in Recorded(row[w[2]])
                            /\ Landed(ws)[p] = Absent \/ Landed(ws)[p].by = w[2]
<1> DEFINE moved == {w \in ws : pc[w] = "move" /\ Exists(job[w].path)}
           written == {w \in ws : pc[w] = "writing"}
           goals(w) == job[w].goal = p
           m == CHOOSE w \in moved : job[w].goal = p
           n == CHOOSE w \in written : job[w].path = p
<1>1. Landed(ws)[p] =
        IF \E w \in moved : job[w].goal = p THEN store[job[m].path]
        ELSE IF \E w \in moved : job[w].path = p THEN Absent
        ELSE IF \E w \in written : job[w].path = p THEN Object(n[2], TRUE)
        ELSE store[p]
  BY DEF Landed
<1>2. ASSUME NEW w \in moved
      PROVE  /\ w \in ws /\ pc[w] = "move" /\ job[w].goal \in Recorded(row[w[2]]) /\ job[w].path \in Recorded(row[w[2]])
             /\ store[job[w].path].by = w[2]
  <2>1. w \in Workers /\ Holds(w) /\ pc[w] = "move" /\ Exists(job[w].path)
    BY <1>2 DEF NameInv
  <2>2. LET r == row[w[2]] IN
        /\ job[w].path = r.temp /\ r.temp # NoPath /\ job[w].goal = r.final /\ r.final # NoPath
    BY <2>1 DEF Holds
  <2>3. job[w].goal \in Recorded(row[w[2]]) /\ job[w].path \in Recorded(row[w[2]]) /\ w[2] \in Tasks
    BY <2>1, <2>2, Recorded3, WorkerTypes
  <2>4. job[w].path \in Paths /\ job[w].path \notin FinalsOf(w[2])
        /\ \E g \in 0..row[w[2]].gen : job[w].path = Staging(w[2], g)
    <3>1. Listed(w[2], row[w[2]], cancelling[w[2]], purge[w[2]])
      BY <2>3 DEF NameInv, Listing
    <3> QED BY <2>2, <2>3, <3>1, RecordedNames, NamesApart DEF NameInv, Listed
  <2>5. row[w[2]].gen \in 0..MaxRecoveries
    BY <2>3 DEF RInv, TInv, TypeOK, Row
  <2>6. store[job[w].path].by \in {w[2], "nobody"}
    BY <2>3, <2>4, <2>5, PipelineAssumption DEF NameInv, OwnStaging
  <2>7. store[job[w].path] # Absent
    BY <2>1 DEF Exists
  <2>8. store[job[w].path].by = w[2]
    BY <2>4, <2>6, <2>7 DEF NameInv, OwnStaging
  <2> QED BY <1>2, <2>1, <2>3, <2>8
<1>3. ASSUME NEW w \in written
      PROVE  w \in ws /\ pc[w] = "writing" /\ job[w].path \in Recorded(row[w[2]])
  <2>1. w \in Workers /\ Holds(w) /\ pc[w] = "writing"
    BY <1>3 DEF NameInv
  <2> QED BY <1>3, <2>1, Recorded3 DEF Holds
<1>4. (\E w \in moved : job[w].goal = p) => m \in moved /\ job[m].goal = p
  OBVIOUS
<1>5. (\E w \in written : job[w].path = p) => n \in written /\ job[n].path = p
  OBVIOUS
<1> HIDE DEF moved, written, m, n
<1>6. CASE \E w \in moved : job[w].goal = p
  BY <1>1, <1>2, <1>4, <1>6
<1>7. CASE ~ (\E w \in moved : job[w].goal = p) /\ \E w \in moved : job[w].path = p
  BY <1>1, <1>2, <1>7
<1>8. CASE /\ ~ (\E w \in moved : job[w].goal = p) /\ ~ \E w \in moved : job[w].path = p
           /\ \E w \in written : job[w].path = p
  <2>1. Landed(ws)[p].by = n[2]
    BY <1>1, <1>8 DEF Object
  <2> QED BY <1>3, <1>5, <1>8, <2>1
<1> QED BY <1>1, <1>6, <1>7, <1>8

LEMMA LandedOwn ==
    ASSUME RInv, NameInv, NEW ws \in SUBSET Workers, NEW p \in Paths
    PROVE  \/ Landed(ws)[p] = store[p]
           \/ \E w \in ws : p \in Recorded(row[w[2]]) /\ (Landed(ws)[p] = Absent \/ Landed(ws)[p].by = w[2])
BY LandedCut

LEMMA LandedOne ==
    ASSUME RInv, NameInv, NEW w \in Workers, store' \in {store, Landed({w})}
    PROVE  StoreOf(w[2])
<1>1. {w} \in SUBSET Workers
  OBVIOUS
<1> QED BY <1>1, LandedOwn DEF StoreOf

LEMMA CutNames ==
    ASSUME RInv, Roles, NameInv, NEW w \in Workers, Others(w), row' \in [Tasks -> Row], CutShort(w)
    PROVE  NamesMove /\ NameInv'
<1>1. UNCHANGED retained /\ StoreOf(w[2])
  BY LandedOne, KeepStore DEF CutShort
<1>2. CASE \E kind : FailedBy(w, kind)
  BY <1>1, <1>2, FailsNames
<1>3. CASE /\ UNCHANGED <<store, job, lock>> /\ pc'[w] \in {"idle", "notify"} /\ Twin(row'[w[2]], row[w[2]])
           /\ row'[w[2]] = row[w[2]] \/ row'[w[2]].state = "download_failed"
  <2>1. StillNamed(row'[w[2]], row[w[2]]) /\ LockMove(w) /\ Holds(w)'
    BY <1>3, HoldsNothing DEF StillNamed, Named, Twin, Received, LockMove, HeldLabels
  <2> QED BY <1>1, <2>1, PlainNames
<1> QED BY <1>2, <1>3 DEF CutShort

LEMMA ReceiveNames ==
    ASSUME RInv, Roles, NameInv, NEW w \in Workers, Others(w), row' \in [Tasks -> Row], ReceiveDone(w)
    PROVE  NamesMove /\ NameInv'
<1> DEFINE t == w[2]
           r == row[t]
           q == row'[t]
           p == job[w].goal
<1>1. /\ t \in Tasks /\ Holds(w) /\ pc[w] = "complete" /\ UNCHANGED retained
      /\ Listed(t, r, cancelling[t], purge[t]) /\ r.gen \in Nat
  BY Mine, PipelineAssumption DEF NameInv, Listing, ReceiveDone, Row
<1>2. p = r.final /\ r.final # NoPath
  BY <1>1 DEF Holds
<1>3. StoreOf(t)
  BY ReceivesOwn
<1>4. CASE Receipted(q, r, p) /\ pc'[w] = "receipt" /\ UNCHANGED <<job, lock>>
  <2>1. Remotely(w) /\ LockMove(w) /\ Holds(w)'
    BY <1>1, <1>4, HoldsNothing DEF Remotely, Remote, Finishing, LockMove, HeldLabels
  <2>2. cancelling'[t] = "idle"
    BY <2>1, RemotePeer DEF Others, commands
  <2>3. Listed(t, q, cancelling'[t], purge'[t])
    BY <1>1, <1>2, <1>4, <2>2 DEF Listed, Receipted
  <2>4. RowMove(t)
    BY <1>1, <1>2, <1>4, <2>3 DEF RowMove, Receipted
  <2> QED BY <1>1, <1>3, <2>1, <2>4, WorkerNames
<1>5. CASE FailedBy(w, "transient")
  BY <1>1, <1>3, <1>5, FailsNames
<1> QED BY <1>4, <1>5 DEF ReceiveDone

LEMMA RemoteNames ==
    ASSUME RInv, Roles, NameInv, NEW w \in Workers, RemoteStep(w), Others(w), row' \in [Tasks -> Row]
    PROVE  NamesMove /\ NameInv'
<1>1. CASE Resume(w) \/ ResumeTemp(w) \/ StreamHead(w)
  BY <1>1, ResumeEffect, ResumeTempEffect, StreamHeadEffect, ResumeNames
<1>2. CASE TakeLock(w) \/ ChooseFinal(w) \/ ReuseFinal(w)
  BY <1>2, TakeLockEffect, ChooseFinalEffect, ReuseFinalEffect, LockNames
<1>3. CASE WriteStarts(w) \/ WriteEnds(w) \/ Verify(w)
  BY <1>3, WriteStartsEffect, WriteEndsEffect, VerifyEffect, WriteNames
<1>4. CASE MoveToFinal(w) \/ FinalCheck(w) \/ RemoteRetry(w)
  BY <1>4, MoveToFinalEffect, FinalCheckEffect, RemoteRetryEffect, FinishNames
<1>5. CASE Receive(w)
  BY <1>5, ReceiveEffect, ReceiveNames
<1>6. CASE RemoteError(w) \/ StreamError(w) \/ StreamRefused(w)
  BY <1>6, CutShortEffect, CutNames
<1>7. CASE Notified(w)
  <2>1. Goto(w, "idle") /\ UNCHANGED <<row, retained, store, job, lock>>
    BY <1>7 DEF Notified
  <2>2. pc'[w] = "idle"
    BY <2>1, Mine
  <2>3. StillNamed(row'[w[2]], row[w[2]]) /\ LockMove(w) /\ Holds(w)' /\ StoreOf(w[2])
    BY <2>1, <2>2, HoldsNothing, KeepStore DEF StillNamed, Named, LockMove, HeldLabels
  <2> QED BY <2>1, <2>3, PlainNames
<1> QED BY <1>1, <1>2, <1>3, <1>4, <1>5, <1>6, <1>7 DEF RemoteStep

-------------------------------------------------------------------------------
(* The names through the local half *)

\* A row that keeps its names makes the move of a row.
LEMMA StillMoves ==
    ASSUME RInv, NameInv, NEW t \in Tasks, StillNamed(row'[t], row[t]),
           cancelling'[t] = "purging" => purge'[t] \subseteq Recorded(row[t])
    PROVE  RowMove(t)
<1>1. Listed(t, row[t], cancelling[t], purge[t]) /\ row[t].gen \in Nat
  BY PipelineAssumption DEF NameInv, Listing, RInv, TInv, TypeOK, Row
<1>2. Listed(t, row'[t], cancelling'[t], purge'[t])
  BY <1>1, StillListed
<1> QED BY <1>1, <1>2 DEF RowMove, StillNamed, Named

\* The states a local download moves through say nothing about names.
Plain == {"queued", "reserved", "downloading", "downloaded", "waiting_upload", "download_failed",
          "upload_failed_retained", "verification_failed_retained"}

LEMMA PlainStill ==
    ASSUME NEW q, NEW r, Named(q, r), q.state = r.state \/ q.state \in Plain
    PROVE  StillNamed(q, r)
BY DEF StillNamed, Plain, Received

\* Nor do they withdraw anything.
Goes(q, r) == Named(q, r) /\ q.cancel = r.cancel

LEMMA ExhaustedNames ==
    ASSUME RInv, NEW t \in Tasks, NEW r \in Row, DownloadExhausted(t, r)
    PROVE  /\ Goes(row'[t], r) /\ row'[t].state \in {r.state, "download_failed"}
           /\ pc'[D(t)] \in {"notify", "idle"}
<1> DEFINE off == [r EXCEPT !.state = "download_failed", !.lpath = "none"]
<1>1. row \in [Tasks -> Row] /\ pc \in [Workers -> Labels]
  BY DEF RInv, TInv, TypeOK
<1>2. off.state = "download_failed" /\ Goes(off, r) /\ Goes(r, r)
  BY DEF Row, Goes, Named
<1>3. \/ Put(t, off) /\ Goto(D(t), Notice)
      \/ Put(t, r) /\ Goto(D(t), "idle")
  BY DEF DownloadExhausted
<1> HIDE DEF off
<1> QED BY <1>1, <1>2, <1>3, Pair DEF Put, Goto, Notice

LEMMA AttemptNames ==
    ASSUME RInv, NEW t \in Tasks, NEW n, DownloadAttempt(t, n)
    PROVE  /\ Goes(row'[t], row[t]) /\ row'[t].state \in {row[t].state, "downloading", "download_failed"}
           /\ pc'[D(t)] \in {"fetch", "idle"}
<1> DEFINE on == [row[t] EXCEPT !.state = "downloading", !.lpath = "part", !.dtries = n]
           off == [row[t] EXCEPT !.state = "download_failed", !.lpath = "none"]
<1>1. row \in [Tasks -> Row] /\ pc \in [Workers -> Labels]
  BY DEF RInv, TInv, TypeOK
<1>2. on.state = "downloading" /\ Goes(on, row[t]) /\ off.state = "download_failed" /\ Goes(off, row[t])
      /\ Goes(row[t], row[t])
  BY <1>1 DEF Row, Goes, Named
<1>3. \/ Put(t, on) /\ Goto(D(t), "fetch")
      \/ (Put(t, off) \/ UNCHANGED row) /\ Goto(D(t), "idle")
  BY DEF DownloadAttempt
<1> HIDE DEF on, off
<1> QED BY <1>1, <1>2, <1>3, Pair DEF Put, Goto

LEMMA DownloadFailsNames ==
    ASSUME RInv, NEW t \in Tasks, NEW kind \in Kinds, DownloadFails(t, kind), pc[D(t)] \in InLoop
    PROVE  /\ Goes(row'[t], row[t]) /\ row'[t].state \in {row[t].state, "download_failed"}
           /\ pc'[D(t)] \in {"backoff", "notify", "idle"}
<1> DEFINE n == job[D(t)].try + 1
           r == [row[t] EXCEPT !.dtries = n, !.kind = kind]
<1>1. row \in [Tasks -> Row] /\ pc \in [Workers -> Labels] /\ job \in [Workers -> Job]
  BY DEF RInv, TInv, TypeOK
<1>2. ~ job[D(t)].outside \/ n \in 0..MaxRetries
  BY Pair, PipelineAssumption DEF RInv, TInv, TryBound, Uncounted, Job
<1>3. n \in 0..MaxRetries
  BY <1>2, Pair, PipelineAssumption DEF RInv, TInv, TryBound, Uncounted, Job
<1>4. r \in Row /\ Goes(r, row[t]) /\ r.state = row[t].state
  <2> HIDE DEF n
  <2> QED BY <1>1, <1>3 DEF Row, Goes, Named
<1>5. \/ Put(t, r) /\ Goto(D(t), "backoff")
      \/ DownloadExhausted(t, r)
  BY DEF DownloadFails
<1> HIDE DEF r, n
<1>6. CASE Put(t, r) /\ Goto(D(t), "backoff")
  BY <1>1, <1>4, <1>6, Pair DEF Put, Goto
<1>7. CASE DownloadExhausted(t, r)
  BY <1>4, <1>7, ExhaustedNames DEF Goes, Named
<1> QED BY <1>5, <1>6, <1>7

\* Where a step of a local download leads.
LocalStops == {"idle", "start", "fetch", "renaming", "renamed", "resume", "backoff", "notify"}

LEMMA LocalRow ==
    ASSUME RInv, NEW t \in Tasks, LocalStep(t)
    PROVE  /\ Named(row'[t], row[t]) /\ row'[t].cancel = row[t].cancel
           /\ (row'[t].state = row[t].state \/ row'[t].state \in Plain)
           /\ pc'[D(t)] \in LocalStops /\ UNCHANGED <<retained, store, lock>>
<1> DEFINE r == row[t]
           streamed == [r EXCEPT !.state = "download_failed", !.lpath = "none"]
           arrived == [r EXCEPT !.state = "downloaded", !.lpath = "file"]
           recorded == [r EXCEPT !.state = "waiting_upload", !.lpath = "file", !.dtries = job[D(t)].try]
           again == [r EXCEPT !.state = "queued", !.lpath = "none", !.dtries = @ + 1, !.kind = "refused"]
           refused(kind) == [r EXCEPT !.state = "download_failed", !.lpath = "none", !.kind = kind]
           reserved == [r EXCEPT !.state = "reserved", !.kind = "none",
                                 !.mode = IF @ = "stream" \/ t \in Oversized THEN "stream" ELSE "local"]
<1>1. row \in [Tasks -> Row] /\ pc \in [Workers -> Labels] /\ r \in Row
  BY DEF RInv, TInv, TypeOK
<1>2. /\ Goes(streamed, r) /\ streamed.state = "download_failed"
      /\ Goes(arrived, r) /\ arrived.state = "downloaded"
      /\ Goes(recorded, r) /\ recorded.state = "waiting_upload"
      /\ Goes(again, r) /\ again.state = "queued"
      /\ Goes(reserved, r) /\ reserved.state = "reserved" /\ Goes(r, r)
  <2> HIDE DEF r
  <2> QED BY <1>1 DEF Row, Goes, Named
<1>3. \A kind : Goes(refused(kind), r) /\ refused(kind).state = "download_failed"
  <2> HIDE DEF r
  <2> QED BY <1>1 DEF Row, Goes, Named
<1>4. UNCHANGED <<retained, store, lock>>
  BY DEF LocalStep, DownloadStep, DownloadBegin, DownloadRetry, DownloadArrives, DownloadError, DownloadRefused,
         StartDownload, DownloadRename, DownloadRenameFails, DownloadRecord
<1>5. \/ \E n : DownloadAttempt(t, n)
      \/ DownloadExhausted(t, r)
      \/ \E kind \in Kinds : DownloadFails(t, kind) /\ pc[D(t)] \in InLoop
      \/ UNCHANGED row /\ \E l \in {"resume", "idle", "renamed"} : Goto(D(t), l)
      \/ Put(t, streamed) /\ Goto(D(t), Notice)
      \/ Put(t, arrived) /\ Goto(D(t), "renaming")
      \/ Put(t, recorded) /\ Goto(D(t), Notice)
      \/ (Put(t, again) \/ \E kind : Put(t, refused(kind))) /\ Goto(D(t), Notice)
      \/ Put(t, reserved) /\ Goto(D(t), "start")
  <2>1. "transient" \in Kinds /\ SourceErrors \subseteq Kinds /\ {"fetch", "renaming"} \subseteq InLoop
    BY PipelineAssumption DEF Kinds, InLoop, Labels
  <2>2. CASE DownloadBegin(t)
    BY <2>2 DEF DownloadBegin
  <2>3. CASE DownloadRetry(t)
    BY <2>3 DEF DownloadRetry
  <2>4. CASE DownloadArrives(t)
    BY <2>1, <2>4 DEF DownloadArrives
  <2>5. CASE DownloadError(t)
    BY <2>1, <2>5 DEF DownloadError
  <2>6. CASE DownloadRefused(t)
    BY <2>6 DEF DownloadRefused
  <2>7. CASE StartDownload(t)
    BY <2>7 DEF StartDownload
  <2>8. CASE DownloadRename(t) \/ DownloadRecord(t)
    BY <2>8 DEF DownloadRename, DownloadRecord
  <2>9. CASE DownloadRenameFails(t)
    BY <2>1, <2>9 DEF DownloadRenameFails
  <2> QED BY <2>2, <2>3, <2>4, <2>5, <2>6, <2>7, <2>8, <2>9 DEF LocalStep, DownloadStep
<1>6. Notice \in {"notify", "idle"}
  BY DEF Notice
<1> HIDE DEF streamed, arrived, recorded, again, refused, reserved
<1>7. CASE (\E n : DownloadAttempt(t, n)) \/ DownloadExhausted(t, r)
  BY <1>1, <1>4, <1>6, <1>7, AttemptNames, ExhaustedNames DEF Plain, LocalStops, Goes
<1>8. CASE \E kind \in Kinds : DownloadFails(t, kind) /\ pc[D(t)] \in InLoop
  BY <1>4, <1>6, <1>8, DownloadFailsNames DEF Plain, LocalStops, Goes
<1>9. \A q : Put(t, q) => row'[t] = q
  BY <1>1 DEF Put
<1>10. \A l : Goto(D(t), l) => pc'[D(t)] = l
  BY <1>1, Pair DEF Goto
<1> HIDE DEF r
<1> QED BY <1>2, <1>3, <1>4, <1>5, <1>6, <1>7, <1>8, <1>9, <1>10 DEF Plain, LocalStops, Goes, r

LEMMA LocalNames ==
    ASSUME RInv, Roles, NameInv, NEW t \in Tasks, LocalStep(t), Others(D(t)), row' \in [Tasks -> Row]
    PROVE  NamesMove /\ NameInv'
<1>1. D(t) \in Workers /\ D(t)[2] = t
  BY Pair
<1>2. StillNamed(row'[t], row[t]) /\ StoreOf(t) /\ LockMove(D(t)) /\ Holds(D(t))' /\ UNCHANGED retained
  BY LocalRow, PlainStill, KeepStore, HoldsNothing DEF LockMove, LocalStops, HeldLabels
<1> QED BY <1>1, <1>2, PlainNames

LEMMA UploadNames ==
    ASSUME RInv, Roles, NameInv, NEW t \in Tasks, UploadStep(t) \/ StartUpload(t), Others(U(t)),
           row' \in [Tasks -> Row]
    PROVE  NamesMove /\ NameInv'
<1> DEFINE w == U(t)
           r == row[t]
           p == r.rpath
           held == [r EXCEPT !.state = "verification_failed_retained", !.kind = "conflict", !.verified = FALSE]
           again == [r EXCEPT !.state = "queued", !.lpath = "none", !.verified = FALSE]
           fresh == [r EXCEPT !.state = "waiting_upload", !.rpath = NoPath, !.final = NoPath, !.verified = FALSE]
<1>1. /\ w \in Workers /\ w[2] = t /\ r \in Row /\ Listed(t, r, cancelling[t], purge[t]) /\ Role(t) /\ r.gen \in Nat
  BY Pair, PipelineAssumption DEF NameInv, Listing, Roles, Row
<1>2. UNCHANGED <<retained, store, lock, commands>>
  BY DEF UploadStep, UploadBegin, Recheck, StartUpload
<1>3. StoreOf(t) /\ LockMove(w) /\ cancelling' = cancelling /\ purge' = purge
  BY <1>2, KeepStore DEF LockMove, commands
<1>4. /\ Named(held, r) /\ held.state = "verification_failed_retained"
      /\ Named(again, r) /\ again.state = "queued" /\ Named(r, r)
      /\ fresh \in Row /\ fresh.rpath = NoPath /\ fresh.final = NoPath /\ fresh.temp = r.temp /\ fresh.gen = r.gen
      /\ fresh.state = "waiting_upload"
  <2> HIDE DEF r
  <2> QED BY <1>1, StateTypes DEF Row, Named, States
<1>5. /\ \A q : Put(t, q) => row'[t] = q
      /\ \A l : Goto(w, l) => pc'[w] = l
  BY <1>1, Mine
<1>6. {"idle", "notify", "resume", "recheck", "start"} \cap HeldLabels = {}
  BY DEF HeldLabels
<1>7. ASSUME Named(row'[t], r), row'[t].state = r.state \/ row'[t].state \in Plain, Holds(w)'
      PROVE  NamesMove /\ NameInv'
  BY <1>1, <1>2, <1>3, <1>7, PlainStill, PlainNames
<1>8. CASE StartUpload(t)
  <2>1. UNCHANGED row /\ Goto(w, "start")
    BY <1>8 DEF StartUpload
  <2> QED BY <1>4, <1>5, <1>6, <1>7, <2>1, HoldsNothing
<1>9. CASE UploadBegin(t)
  <2>1. \/ UNCHANGED row /\ \E l \in {"idle", "recheck"} : Goto(w, l)
        \/ CheckLocal(w, r)
    BY <1>9 DEF UploadBegin
  <2>2. CASE CheckLocal(w, r)
    <3>1. /\ Kin(row'[t], r) /\ pc'[w] \in {"resume", "idle", "notify"}
          /\ row'[t] = r \/ row'[t].state \in Plain
      <4> HIDE DEF r
      <4> QED BY <1>1, <2>2, CheckEffect DEF Plain
    <3>2. Named(row'[t], r)
      BY <3>1 DEF Kin, Twin, Named
    <3> QED BY <1>6, <1>7, <3>1, <3>2, HoldsNothing
  <2> QED BY <1>4, <1>5, <1>6, <1>7, <2>1, <2>2, HoldsNothing
<1>10. CASE Recheck(w)
  <2>1. pc[w] = "recheck"
    BY <1>10 DEF Recheck
  <2>2. r.state = "cleanup_pending" /\ cancelling[t] = "idle"
    BY <1>1, <2>1, Pair DEF Role, RoleOf, Uploading, Cancelled, Finishing, RInv, TInv, TypeOK
  <2>3. r.final # NoPath /\ p = r.final /\ r.temp = NoPath
    BY <1>1, <2>2 DEF Listed, Received
  <2>4. \/ job' = [job EXCEPT ![w].goal = p] /\ Goto(w, "complete") /\ UNCHANGED row
        \/ (Put(t, held) \/ Put(t, again)) /\ Goto(w, "idle")
        \/ CheckLocal(w, fresh)
    BY <1>1, <1>10 DEF Recheck
  <2>5. CASE job' = [job EXCEPT ![w].goal = p] /\ Goto(w, "complete") /\ UNCHANGED row
    <3>1. pc'[w] = "complete" /\ Aims(w, job[w].path, p)
      BY <1>1, <1>5, <2>5, AimTypes
    <3>2. Holds(w)'
      BY <1>1, <2>3, <2>5, <3>1 DEF Holds, Aims
    <3> QED BY <1>4, <1>7, <2>5, <3>2
  <2> HIDE DEF held, again, fresh
  <2>6. CASE (Put(t, held) \/ Put(t, again)) /\ Goto(w, "idle")
    BY <1>4, <1>5, <1>6, <1>7, <2>6, HoldsNothing DEF Plain
  <2>7. CASE CheckLocal(w, fresh)
    <3>1. /\ Kin(row'[t], fresh) /\ pc'[w] \in {"resume", "idle", "notify"}
          /\ row'[t] = fresh \/ row'[t].state \in Plain
      BY <1>4, <2>7, CheckEffect DEF Plain
    <3>2. row'[t].temp = NoPath /\ row'[t].final = NoPath /\ row'[t].rpath = NoPath /\ row'[t].gen = r.gen
          /\ row'[t].state \in Plain
      BY <1>4, <2>3, <3>1 DEF Kin, Twin, Plain
    <3>3. Listed(t, row'[t], cancelling'[t], purge'[t])
      BY <1>1, <1>3, <2>2, <2>3, <3>2 DEF Listed, Plain, Received
    <3>4. RowMove(t)
      BY <1>1, <3>2, <3>3 DEF RowMove
    <3> QED BY <1>1, <1>2, <1>3, <1>6, <2>1, <3>1, <3>4, HoldsNothing, WorkerNames
  <2> QED BY <2>4, <2>5, <2>6, <2>7
<1> QED BY <1>8, <1>9, <1>10 DEF UploadStep

LEMMA CleaningNames ==
    ASSUME RInv, Roles, NameInv, NEW w \in Workers, Cleaning(w), Others(w), row' \in [Tasks -> Row]
    PROVE  NamesMove /\ NameInv'
<1> DEFINE t == w[2]
           done == [row[t] EXCEPT !.state = "completed", !.lpath = "none"]
<1>1. pc[w] \in Finishing
  BY DEF Cleaning, Clean, CleanFails, Complete, Finishing
<1>2. row[t].state = "cleanup_pending"
  BY <1>1, FinishingPeer
<1>3. Named(done, row[t]) /\ done.state = "completed" /\ Named(row[t], row[t])
  BY Mine DEF Named, Row
<1>4. /\ UNCHANGED <<retained, store, lock>>
      /\ Put(t, done) \/ UNCHANGED row
      /\ \E l \in {"cleaned", "idle", "notify"} : Goto(w, l)
  BY DEF Cleaning, Clean, CleanFails, Complete, Notice
<1> HIDE DEF done
<1>5. StillNamed(row'[t], row[t])
  BY <1>2, <1>3, <1>4, Mine DEF StillNamed, Received
<1>6. Holds(w)' /\ LockMove(w) /\ StoreOf(t)
  BY <1>4, Mine, HoldsNothing, KeepStore DEF HeldLabels, LockMove
<1> QED BY <1>4, <1>5, <1>6, PlainNames

-------------------------------------------------------------------------------
(* The names through cancellations, commands and restarts *)

\* A step of no coroutine keeps what is held, when the workers of its task hold
\* nothing or the row keeps its names.
LEMMA QuietNames ==
    ASSUME RInv, NameInv, NEW t \in Tasks, OtherRows(t), RowMove(t), StoreOf(t), row' \in [Tasks -> Row],
           \/ UNCHANGED retained
           \/ /\ retained' = retained \cup Recorded(row[t])
              /\ row'[t].gen > row[t].gen /\ Recorded(row'[t]) = {},
           UNCHANGED <<pc, job, lock>>,
           \/ row'[t].temp = row[t].temp /\ row'[t].final = row[t].final
           \/ pc[D(t)] \notin HeldLabels /\ pc[U(t)] \notin HeldLabels
    PROVE  NamesMove /\ NameInv'
<1>1. NamesMove
  BY TaskNames
<1>2. Listing' /\ UniqueClaim' /\ OwnStaging'
  BY <1>1, MoveKeepsNames DEF NameInv
<1>3. ASSUME NEW v \in Workers
      PROVE  Holds(v)'
  <2>1. v[2] \in Tasks /\ (v[2] = t => v = D(t) \/ v = U(t))
    BY WorkerTypes DEF D, U
  <2>2. CASE row'[v[2]].temp = row[v[2]].temp /\ row'[v[2]].final = row[v[2]].final
    BY <1>1, <2>2, HoldsStay
  <2>3. CASE ~ (row'[v[2]].temp = row[v[2]].temp /\ row'[v[2]].final = row[v[2]].final)
    <3>1. v[2] = t
      BY <2>1, <2>3 DEF OtherRows
    <3> QED BY <2>1, <2>3, <3>1, HoldsNothing
  <2> QED BY <2>2, <2>3
<1> QED BY <1>1, <1>2, <1>3 DEF NameInv

LEMMA SettledNames ==
    ASSUME RInv, Roles, NameInv, NEW t \in Tasks, NEW r \in Row, Named(r, row[t]), r.state = row[t].state,
           SettledBy(t, r), UNCHANGED <<retained, store, pc, job, lock>>, row' \in [Tasks -> Row],
           pc[D(t)] \notin HeldLabels, pc[U(t)] \notin HeldLabels
    PROVE  NamesMove /\ NameInv'
<1>1. OtherRows(t) /\ StoreOf(t)
  BY KeepStore DEF SettledBy, OtherRows
<1>2. Listed(t, row[t], cancelling[t], purge[t]) /\ row[t].gen \in Nat /\ r.gen = row[t].gen
  BY PipelineAssumption DEF NameInv, Listing, RInv, TInv, TypeOK, Row, Named
<1>3. Recorded(r) = Recorded(row[t])
  BY DEF Recorded, Named
<1>4. CASE StillNamed(row'[t], row[t]) /\ (cancelling'[t] = "purging" => purge'[t] \subseteq Recorded(row[t]))
  BY <1>1, <1>4, StillMoves, QuietNames
<1>5. CASE /\ row'[t].state = "cancelled" /\ row'[t].rpath = NoPath /\ row'[t].temp = NoPath
           /\ row'[t].final = NoPath /\ row'[t].gen = r.gen /\ cancelling'[t] = "idle"
  <2>1. Listed(t, row'[t], cancelling'[t], purge'[t])
    BY <1>5 DEF Listed, Recorded, Received
  <2>2. RowMove(t)
    BY <1>2, <1>5, <2>1 DEF RowMove
  <2> QED BY <1>1, <2>2, QuietNames
<1> QED BY <1>3, <1>4, <1>5 DEF SettledBy, EndedBy, StillNamed, Named

LEMMA CancelAskNames ==
    ASSUME RInv, Roles, NameInv, NEW t \in Tasks, CancelAsk(t), row' \in [Tasks -> Row]
    PROVE  NamesMove /\ NameInv'
<1> DEFINE asked == [row[t] EXCEPT !.cancel = TRUE]
           used == [spent EXCEPT !["cancel"] = @ + 1]
           w == IF Active(D(t)) THEN D(t) ELSE U(t)
<1>1. /\ row \in [Tasks -> Row] /\ cancelling \in [Tasks -> {"idle", "asked", "purging"}]
      /\ pc \in [Workers -> Labels]
  BY DEF RInv, TInv, TypeOK
<1>2. asked \in Row /\ Named(asked, row[t]) /\ asked.state = row[t].state
  <2>1. row[t] \in Row
    BY <1>1
  <2> QED BY <2>1 DEF Row, Named
<1>3. \/ CancelRunning(t, asked, used) /\ UNCHANGED <<retained, job>>
      \/ /\ ~ Active(D(t)) /\ ~ Active(U(t)) /\ SettleCancel(t, asked, used)
         /\ UNCHANGED <<retained, store, pc, job, lock>>
  BY DEF CancelAsk
<1>4. CASE /\ ~ Active(D(t)) /\ ~ Active(U(t)) /\ SettleCancel(t, asked, used)
           /\ UNCHANGED <<retained, store, pc, job, lock>>
  <2> HIDE DEF asked, used
  <2>1. SettledBy(t, asked)
    BY <1>2, <1>4, SettleCancelEffect
  <2>2. pc[D(t)] \notin HeldLabels /\ pc[U(t)] \notin HeldLabels
    BY <1>4 DEF Active, HeldLabels
  <2> QED BY <1>2, <1>4, <2>1, <2>2, SettledNames
<1>5. CASE CancelRunning(t, asked, used) /\ UNCHANGED <<retained, job>>
  <2>1. /\ Put(t, Interrupted(w, asked)) /\ store' \in {store, Landed({w})}
        /\ Goto(w, "idle") /\ Unlock(w) /\ cancelling' = [cancelling EXCEPT ![t] = "asked"] /\ UNCHANGED purge
    BY <1>5 DEF CancelRunning
  <2>2. w \in Workers /\ w[2] = t
    BY Pair
  <2> DEFINE q == Interrupted(w, asked)
  <2>3. /\ Kin(q, asked) /\ q.state \in {asked.state, "waiting_upload", "queued"}
    <3> HIDE DEF w, asked
    <3> QED BY <1>2, InterruptedFacts
  <2> HIDE DEF w, asked, q
  <2>4. StillNamed(q, row[t])
    BY <1>2, <2>3 DEF Kin, Twin, Named, StillNamed, Received
  <2>5. /\ row'[t] = q /\ cancelling'[t] = "asked" /\ OtherRows(t) /\ pc'[w] = "idle"
        /\ \A v \in Workers \ {w} : pc'[v] = pc[v]
    BY <1>1, <2>1, <2>2 DEF Put, Goto, OtherRows, q
  <2>6. RowMove(t) /\ StoreOf(t)
    BY <2>1, <2>2, <2>4, <2>5, StillMoves, LandedOne
  <2>7. NamesMove
    BY <1>5, <2>5, <2>6, TaskNames
  <2>8. Listing' /\ UniqueClaim' /\ OwnStaging'
    BY <2>7, MoveKeepsNames DEF NameInv
  <2>9. ASSUME NEW v \in Workers
        PROVE  Holds(v)'
    <3>1. CASE v = w
      BY <2>5, <3>1, HoldsNothing DEF HeldLabels
    <3>2. CASE v # w
      <4>1. row'[v[2]].temp = row[v[2]].temp /\ row'[v[2]].final = row[v[2]].final
        BY <2>4, <2>5, WorkerTypes DEF OtherRows, StillNamed, Named
      <4>2. pc'[v] = pc[v] /\ job'[v] = job[v] /\ (lock = v => lock' = v)
        BY <1>5, <2>1, <2>5, <3>2 DEF Unlock
      <4> QED BY <2>7, <4>1, <4>2, HoldsStay
    <3> QED BY <3>1, <3>2
  <2> QED BY <2>7, <2>8, <2>9 DEF NameInv
<1> QED BY <1>3, <1>4, <1>5

LEMMA CancelStepNames ==
    ASSUME RInv, Roles, NameInv, NEW t \in Tasks, CancelStep(t), row' \in [Tasks -> Row]
    PROVE  NamesMove /\ NameInv'
<1>1. /\ row \in [Tasks -> Row] /\ cancelling \in [Tasks -> {"idle", "asked", "purging"}]
      /\ purge \in [Tasks -> SUBSET Paths] /\ row[t] \in Row /\ Listed(t, row[t], cancelling[t], purge[t])
      /\ Role(t) /\ UNCHANGED <<pc, job, lock, retained>> /\ cancelling[t] # "idle" /\ row[t].gen \in Nat
  BY PipelineAssumption
     DEF RInv, TInv, TypeOK, Roles, NameInv, Listing, CancelStep, CancelSettle, CancelPurge, CancelPurgeFails, Row
<1>2. pc[D(t)] \notin HeldLabels /\ pc[U(t)] \notin HeldLabels
  BY <1>1 DEF Role, RoleOf, Cancelled, HeldLabels
<1>3. CASE CancelSettle(t)
  <2>1. SettledBy(t, row[t]) /\ UNCHANGED store
    BY <1>1, <1>3, SettleCancelEffect DEF CancelSettle
  <2> QED BY <1>1, <1>2, <2>1, SettledNames DEF Named
<1>4. CASE CancelPurge(t)
  <2>1. PICK p \in purge[t] :
          /\ store' = [store EXCEPT ![p] = Absent]
          /\ purge' = [purge EXCEPT ![t] = @ \ {p}]
          /\ \/ EndCancel(t, row[t], spent) /\ cancelling' = [cancelling EXCEPT ![t] = "idle"]
             \/ UNCHANGED <<row, files, cancelling>>
    BY <1>4 DEF CancelPurge
  <2>2. p \in Recorded(row[t]) /\ purge'[t] \subseteq Recorded(row[t])
    BY <1>1, <1>4, <2>1 DEF Listed, CancelPurge
  <2>3. StoreOf(t)
    BY <2>1, <2>2, WriteOwn
  <2>4. CASE EndCancel(t, row[t], spent) /\ cancelling' = [cancelling EXCEPT ![t] = "idle"]
    <3>1. EndedBy(t, row[t]) /\ cancelling'[t] = "idle"
      BY <1>1, <2>4, EndCancelEffect
    <3>2. OtherRows(t)
      BY <1>1, <2>1, <2>4, <3>1 DEF EndedBy, OtherRows
    <3>3. CASE row'[t] = row[t]
      BY <1>1, <1>2, <2>3, <3>1, <3>2, <3>3, StillMoves, QuietNames DEF StillNamed, Named
    <3>4. CASE /\ row'[t].state = "cancelled" /\ row'[t].rpath = NoPath /\ row'[t].temp = NoPath
               /\ row'[t].final = NoPath /\ row'[t].gen = row[t].gen
      <4>1. Listed(t, row'[t], cancelling'[t], purge'[t])
        BY <3>1, <3>4 DEF Listed, Recorded, Received
      <4>2. RowMove(t)
        BY <1>1, <3>4, <4>1 DEF RowMove
      <4> QED BY <1>1, <1>2, <2>3, <3>2, <4>2, QuietNames
    <3> QED BY <3>1, <3>3, <3>4 DEF EndedBy
  <2>5. CASE UNCHANGED <<row, files, cancelling>>
    <3>1. OtherRows(t)
      BY <1>1, <2>1, <2>5 DEF OtherRows
    <3> QED BY <1>1, <1>2, <2>2, <2>3, <2>5, <3>1, StillMoves, QuietNames DEF StillNamed, Named
  <2> QED BY <2>1, <2>4, <2>5
<1>5. CASE CancelPurgeFails(t)
  <2>1. cancelling'[t] = "idle" /\ UNCHANGED <<row, store>> /\ OtherRows(t)
    BY <1>1, <1>5 DEF CancelPurgeFails, OtherRows
  <2> QED BY <1>1, <1>2, <2>1, KeepStore, StillMoves, QuietNames DEF StillNamed, Named
<1> QED BY <1>3, <1>4, <1>5 DEF CancelStep

LEMMA RetryNames ==
    ASSUME RInv, NameInv, NEW t \in Tasks, Retry(t), row' \in [Tasks -> Row]
    PROVE  NamesMove /\ NameInv'
<1> DEFINE asked == [row[t] EXCEPT !.cancel = FALSE]
           r == IF row[t].cancel THEN Recovered(t, asked, {}) ELSE row[t]
           q == row'[t]
<1>1. /\ Rests(t) /\ RowOnly(t) /\ UNCHANGED <<retained, store, lock>>
      /\ r \in Row /\ asked \in Row
      /\ q = r \/ q = Requeued(t, r)
  BY RetryEffect
<1>2. row[t] \in Row /\ row[t].gen \in Nat /\ Listed(t, row[t], cancelling[t], purge[t])
  BY PipelineAssumption DEF RInv, TInv, TypeOK, NameInv, Listing, Row
<1>3. Named(asked, row[t]) /\ asked.state = row[t].state
  BY <1>2 DEF Named, Row
<1>4. Named(r, row[t]) /\ (r.state = row[t].state \/ r.state \in Plain)
  <2>1. LET x == Recovered(t, asked, {}) IN Twin(x, asked) /\ (x = asked \/ x.state \in Plain)
    <3> HIDE DEF asked
    <3> QED BY <1>1, RecoveredFacts DEF Plain
  <2> HIDE DEF asked
  <2> QED BY <1>3, <2>1 DEF Named, Twin
<1> HIDE DEF r
<1>5. OtherRows(t) /\ StoreOf(t) /\ UNCHANGED <<pc, job>> /\ cancelling'[t] = "idle"
      /\ pc[D(t)] \notin HeldLabels /\ pc[U(t)] \notin HeldLabels
  BY <1>1, KeepStore DEF RowOnly, OtherRows, Rests, HeldLabels
<1>6. CASE q = r
  BY <1>1, <1>4, <1>5, <1>6, PlainStill, StillMoves, QuietNames
<1>7. CASE q = Requeued(t, r)
  <2>1. q.gen = row[t].gen + 1 /\ q.temp = row[t].temp /\ q.final = row[t].final /\ q.rpath = row[t].rpath
        /\ q.state \in Plain
    BY <1>1, <1>4, <1>7, RequeuedFacts DEF Named, Plain
  <2>2. \A g \in 0..row[t].gen : g \in 0..q.gen
    BY <1>2, <2>1
  <2>3. Listed(t, q, cancelling'[t], purge'[t])
    <3> HIDE DEF q
    <3> QED BY <1>2, <1>5, <2>1, <2>2 DEF Listed, Plain, Received
  <2>4. RowMove(t)
    BY <1>2, <2>1, <2>3 DEF RowMove
  <2> QED BY <1>1, <1>5, <2>4, QuietNames
<1> QED BY <1>1, <1>6, <1>7

LEMMA RecoverFreshNames ==
    ASSUME RInv, NameInv, NEW t \in Tasks, RecoverFresh(t), row' \in [Tasks -> Row]
    PROVE  NamesMove /\ NameInv'
<1> DEFINE r == row[t]
           q == row'[t]
<1>1. /\ Rests(t) /\ RowOnly(t) /\ UNCHANGED <<store, lock>>
      /\ retained' = retained \cup Recorded(r) /\ q.gen = r.gen + 1
      /\ q.temp = NoPath /\ q.final = NoPath /\ q.rpath = NoPath
      /\ q.state \in {"waiting_upload", "queued"}
  BY RecoverFreshEffect
<1>2. r.gen \in Nat
  BY PipelineAssumption DEF RInv, TInv, TypeOK, Row
<1> HIDE DEF q, r
<1>3. q.gen > r.gen /\ Recorded(q) = {}
  BY <1>1, <1>2 DEF Recorded
<1>4. OtherRows(t) /\ StoreOf(t) /\ UNCHANGED <<pc, job>> /\ cancelling'[t] = "idle"
      /\ pc[D(t)] \notin HeldLabels /\ pc[U(t)] \notin HeldLabels
  BY <1>1, KeepStore DEF RowOnly, OtherRows, Rests, HeldLabels
<1>5. Listed(t, q, cancelling'[t], purge'[t])
  BY <1>1, <1>3, <1>4 DEF Listed, Received
<1>6. RowMove(t)
  BY <1>1, <1>2, <1>3, <1>5 DEF RowMove, q, r
<1> QED BY <1>1, <1>3, <1>4, <1>6, QuietNames DEF q, r

LEMMA NoteNames ==
    ASSUME RInv, NameInv, NEW t \in Tasks, RequestStream(t) \/ Confirm(t), row' \in [Tasks -> Row]
    PROVE  NamesMove /\ NameInv'
<1> DEFINE streamed == [row[t] EXCEPT !.state = "queued", !.mode = "stream", !.dtries = 0, !.utries = 0]
           confirmed == [row[t] EXCEPT !.state = "confirmed"]
<1>1. row \in [Tasks -> Row] /\ row[t] \in Row /\ Listed(t, row[t], cancelling[t], purge[t])
  BY DEF RInv, TInv, TypeOK, NameInv, Listing
<1>2. /\ Named(streamed, row[t]) /\ streamed.state = "queued"
      /\ Named(confirmed, row[t]) /\ confirmed.state = "confirmed"
  BY <1>1 DEF Row, Named
<1>3. /\ UNCHANGED <<retained, store, pc, job, lock, cancelling, purge>>
      /\ Put(t, streamed) \/ (row[t].state = "completed" /\ Put(t, confirmed))
  BY DEF RequestStream, Confirm, commands
<1> HIDE DEF streamed, confirmed
<1>4. StillNamed(row'[t], row[t])
  BY <1>1, <1>2, <1>3 DEF Put, StillNamed, Received
<1>5. OtherRows(t) /\ StoreOf(t)
  BY <1>1, <1>3, KeepStore DEF OtherRows, Put
<1>6. cancelling'[t] = "purging" => purge'[t] \subseteq Recorded(row[t])
  BY <1>1, <1>3 DEF Listed
<1> QED BY <1>3, <1>4, <1>5, <1>6, StillMoves, QuietNames DEF StillNamed, Named

LEMMA OutsideNames ==
    ASSUME RInv, NameInv, NEW t \in Tasks, LoseFile(t) \/ Drift(t), row' \in [Tasks -> Row]
    PROVE  NamesMove /\ NameInv'
<1>1. UNCHANGED <<row, retained, pc, job, lock, cancelling, purge>> /\ OtherRows(t)
  BY DEF LoseFile, Drift, commands, OtherRows
<1>2. StoreOf(t)
  <2>1. CASE LoseFile(t)
    BY <2>1, KeepStore DEF LoseFile
  <2>2. CASE Drift(t)
    <3>1. PICK left \in {Absent, Object(t, FALSE)} : store' = [store EXCEPT ![row[t].rpath] = left]
      BY <2>2 DEF Drift
    <3>2. row[t].rpath \in Recorded(row[t])
      BY <2>2, Recorded3 DEF Drift, Exists
    <3>3. left = Absent \/ left.by = t
      BY DEF Object
    <3> QED BY <3>1, <3>2, <3>3, WriteOwn
  <2> QED BY <2>1, <2>2
<1>3. cancelling'[t] = "purging" => purge'[t] \subseteq Recorded(row[t])
  BY <1>1 DEF NameInv, Listing, Listed
<1> QED BY <1>1, <1>2, <1>3, StillMoves, QuietNames DEF StillNamed, Named

\* What the next process finds: names and objects, and no coroutine.
LEMMA RestartNames ==
    ASSUME RInv, NameInv, NEW rows, NEW parts, Restart(rows, parts), row' \in [Tasks -> Row],
           \A t \in Tasks : /\ rows[t] \in Row /\ Named(rows[t], row[t])
                            /\ rows[t].state = row[t].state \/ rows[t].state \in Plain
    PROVE  NamesMove /\ NameInv'
<1>1. PICK stuck : row' = [t \in Tasks |-> Recovered(t, rows[t], stuck)]
  BY DEF Restart
<1>2. PICK ws \in SUBSET {w \in Workers : pc[w] \in {"move", "writing"}} : store' = Landed(ws)
  BY DEF Restart
<1>3. /\ \A w \in Workers : pc'[w] = "idle"
      /\ \A t \in Tasks : cancelling'[t] = "idle"
      /\ UNCHANGED retained
  BY DEF Restart
<1>4. ASSUME NEW t \in Tasks
      PROVE  RowMove(t)
  <2> DEFINE q == Recovered(t, rows[t], stuck)
  <2>1. Twin(q, rows[t]) /\ (q = rows[t] \/ q.state \in Plain)
    BY RecoveredFacts DEF Plain
  <2>2. row'[t] = q
    BY <1>1
  <2> HIDE DEF q
  <2>3. Named(row'[t], row[t]) /\ (row'[t].state = row[t].state \/ row'[t].state \in Plain)
    BY <2>1, <2>2 DEF Twin, Named
  <2> QED BY <1>3, <2>3, PlainStill, StillMoves
<1>5. StoreMove
  <2>1. ws \in SUBSET Workers
    BY <1>2
  <2> QED BY <1>2, <2>1, LandedOwn, WorkerTypes DEF StoreMove
<1>6. NamesMove
  BY <1>3, <1>4, <1>5 DEF NamesMove, RetainedMove
<1>7. Listing' /\ UniqueClaim' /\ OwnStaging'
  BY <1>6, MoveKeepsNames DEF NameInv
<1> QED BY <1>3, <1>6, <1>7, HoldsNothing DEF NameInv, HeldLabels

LEMMA RestartedNames ==
    ASSUME RInv, NameInv, Crash \/ Stop, row' \in [Tasks -> Row]
    PROVE  NamesMove /\ NameInv'
<1> DEFINE rows == [t \in Tasks |-> Interrupted(U(t), Interrupted(D(t), row[t]))]
           parts == [t \in Tasks |-> PartInterrupted(D(t), row[t])]
<1>1. \A t \in Tasks : row[t] \in Row
  BY DEF RInv, TInv, TypeOK
<1>2. CASE Crash
  BY <1>1, <1>2, RestartNames DEF Crash, Named
<1>3. CASE Stop
  <2>1. ASSUME NEW t \in Tasks
        PROVE  /\ rows[t] \in Row /\ Named(rows[t], row[t])
               /\ rows[t].state = row[t].state \/ rows[t].state \in Plain
    <3> DEFINE d == Interrupted(D(t), row[t])
               u == Interrupted(U(t), d)
    <3>1. TInv /\ row[t] \in Row /\ D(t) \in Workers /\ U(t) \in Workers
      BY Pair DEF RInv
    <3>2. d \in Row /\ u \in Row
      BY <3>1, InterruptedType
    <3>3. Kin(d, row[t]) /\ (d = row[t] \/ d.state \in Plain)
      BY <3>1, InterruptedFacts DEF Plain
    <3> HIDE DEF d
    <3>4. Kin(u, d) /\ (u = d \/ u.state \in Plain)
      BY <3>2, InterruptedFacts DEF Plain
    <3>5. rows[t] = u
      BY DEF d
    <3> HIDE DEF u, rows
    <3> QED BY <3>2, <3>3, <3>4, <3>5 DEF Kin, Twin, Named
  <2>2. Restart(rows, parts)
    BY <1>3 DEF Stop
  <2> HIDE DEF rows, parts
  <2> QED BY <2>1, <2>2, RestartNames
<1> QED BY <1>2, <1>3

\* The emergency ends the downloads only, and keeps every name.
LEMMA DiskEmergencyNames ==
    ASSUME RInv, NameInv, DiskEmergency, row' \in [Tasks -> Row]
    PROVE  NamesMove /\ NameInv'
<1>1. PICK ws \in SUBSET {D(t) : t \in Tasks} : store' = Landed(ws)
  BY DEF DiskEmergency
<1>2. ws \in SUBSET Workers /\ UNCHANGED <<retained, job, cancelling, purge>>
  BY <1>1, Pair DEF DiskEmergency, commands
<1>3. ASSUME NEW t \in Tasks
      PROVE  RowMove(t) /\ Named(row'[t], row[t])
  <2> DEFINE q == Interrupted(D(t), row[t])
  <2>1. row[t] \in Row
    BY DEF RInv, TInv, TypeOK
  <2>2. Kin(q, row[t]) /\ (q = row[t] \/ q.state \in Plain)
    BY <2>1, InterruptedFacts DEF Plain
  <2>3. row'[t] = q
    BY DEF DiskEmergency
  <2> HIDE DEF q
  <2>4. Named(row'[t], row[t]) /\ StillNamed(row'[t], row[t])
    BY <2>2, <2>3, PlainStill DEF Kin, Twin, Named
  <2>5. cancelling'[t] = "purging" => purge'[t] \subseteq Recorded(row[t])
    BY <1>2 DEF NameInv, Listing, Listed
  <2> QED BY <2>4, <2>5, StillMoves
<1>4. StoreMove
  <2>1. ws \in SUBSET Workers
    BY <1>2
  <2> QED BY <1>1, <2>1, LandedOwn, WorkerTypes DEF StoreMove
<1>5. NamesMove
  <2>1. RetainedMove
    BY <1>2 DEF RetainedMove
  <2> QED BY <1>3, <1>4, <2>1 DEF NamesMove
<1>6. Listing' /\ UniqueClaim' /\ OwnStaging'
  BY <1>5, MoveKeepsNames DEF NameInv
<1>7. ASSUME NEW v \in Workers
      PROVE  Holds(v)'
  <2>1. v[2] \in Tasks /\ (v = D(v[2]) \/ v = U(v[2]))
    BY WorkerTypes DEF D, U
  <2>2. CASE v[1] = "download"
    <3>1. pc'[v] = "idle"
      BY <2>2 DEF DiskEmergency
    <3> QED BY <3>1, HoldsNothing DEF HeldLabels
  <2>3. CASE v[1] # "download"
    <3>1. pc'[v] = pc[v] /\ v \notin {D(t) : t \in Tasks}
      BY <2>3 DEF DiskEmergency, D
    <3>2. lock = v => lock' = v
      BY <3>1 DEF DiskEmergency
    <3> QED BY <1>2, <1>3, <1>5, <2>1, <3>1, <3>2, HoldsStay DEF Named
  <2> QED BY <2>2, <2>3
<1> QED BY <1>5, <1>6, <1>7 DEF NameInv

-------------------------------------------------------------------------------
(* Names are kept apart *)

LEMMA NextNames ==
    ASSUME RInv, Roles, NameInv, Next
    PROVE  NamesMove /\ NameInv'
<1>0. row' \in [Tasks -> Row]
  <2>1. RInv'
    BY NextInv
  <2> QED BY <2>1 DEF RInv, TInv, TypeOK
<1>1. ASSUME NEW t \in Tasks, CancelStep(t) \/ Command(t) \/ LoseFile(t) \/ Drift(t)
      PROVE  NamesMove /\ NameInv'
  BY <1>0, <1>1, CancelStepNames, CancelAskNames, RetryNames, RecoverFreshNames, NoteNames, OutsideNames DEF Command
<1> QED BY <1>0, <1>1, NextSplit, LocalNames, UploadNames, RemoteNames, CleaningNames, RestartedNames,
             DiskEmergencyNames

LEMMA InitNames == Init => NameInv
<1> SUFFICES ASSUME Init PROVE NameInv
  OBVIOUS
<1>1. \A t \in Tasks : row[t] = NewRow /\ cancelling[t] = "idle"
  BY DEF Init
<1>2. NewRow.temp = NoPath /\ NewRow.final = NoPath /\ NewRow.rpath = NoPath /\ NewRow.state = "queued"
  BY DEF NewRow
<1>3. Listing
  BY <1>1, <1>2 DEF Listing, Listed, Owned, Recorded, Received
<1>4. UniqueClaim
  BY <1>1, <1>2 DEF UniqueClaim
<1>5. ASSUME NEW p \in Paths
      PROVE  /\ store[p] = Absent \/ store[p].by = "foreign"
             /\ store[p] # Absent => p = <<"final", "nobody", 0>>
  BY DEF Init, Object
<1>6. ASSUME NEW t \in Tasks, NEW g \in 0..MaxRecoveries
      PROVE  Staging(t, g) \in Paths /\ Staging(t, g) # <<"final", "nobody", 0>>
  BY PathTypes DEF Staging
<1>7. OwnStaging
  BY <1>5, <1>6 DEF OwnStaging, Absent, Init
<1>8. \A w \in Workers : Holds(w)
  BY DEF Init, Holds
<1> QED BY <1>3, <1>4, <1>7, <1>8 DEF NameInv

\* The remote names that rows, cancellations and coroutines have on record, and
\* the claims among them, belong to their task in every reachable state.
THEOREM NamesAreKept ==
    ASSUME Undisturbed
    PROVE  Spec => [](RInv /\ NoticesYield /\ Roles /\ NameInv)
<1>1. RInv /\ Roles /\ NameInv /\ [Next]_vars => NameInv'
  <2>1. CASE UNCHANGED vars
    BY <2>1 DEF vars, NameInv, Listing, Listed, Owned, UniqueClaim, OwnStaging, Holds, Claimed
  <2> QED BY <2>1, NextNames
<1> QED BY <1>1, InitNames, RolesAreKept, PTL DEF Spec

\* No two tasks have claimed the same remote name: the finalize lock covers the
\* choice of a free name and its record in the database.
THEOREM ClaimsAreUnique ==
    ASSUME Undisturbed
    PROVE  Spec => []UniqueClaim
<1>1. NameInv => UniqueClaim
  BY DEF NameInv
<1> QED BY <1>1, NamesAreKept, PTL

\* What /recover fresh leaves behind is never overwritten, moved or removed.
THEOREM RetainedIsLeft ==
    ASSUME Undisturbed
    PROVE  Spec => RetainedNeverTouched
<1>1. RInv /\ Roles /\ NameInv /\ [Next]_vars =>
        [\A p \in retained : p \in retained' /\ store'[p] = store[p]]_vars
  <2> SUFFICES ASSUME RInv, Roles, NameInv, Next, NEW p \in retained
               PROVE  p \in retained' /\ store'[p] = store[p]
    OBVIOUS
  <2>1. NamesMove
    BY NextNames
  <2>2. p \in Paths
    BY DEF RInv, TInv, TypeOK
  <2>3. \A t \in Tasks : p \notin Recorded(row[t])
    BY DEF NameInv, Listing, Owned
  <2> QED BY <2>1, <2>2, <2>3 DEF NamesMove, StoreMove, RetainedMove
<1> QED BY <1>1, NamesAreKept, PTL DEF Spec, RetainedNeverTouched

\* Nothing on the remote side that the task has not stored itself is overwritten
\* or removed, neither another task's object nor one that was there before.
THEOREM ForeignIsLeft ==
    ASSUME Undisturbed
    PROVE  Spec => NoForeignOverwrite
<1>1. RInv /\ Roles /\ NameInv /\ [Next]_vars =>
        [\A p \in Paths :
          store[p].by # "nobody" => store'[p].by \in {store[p].by, "nobody"}
                                    /\ (store[p].by = "foreign" => store'[p] = store[p])]_vars
  <2> SUFFICES ASSUME RInv, Roles, NameInv, Next, NEW p \in Paths, store[p].by # "nobody"
               PROVE  /\ store'[p].by \in {store[p].by, "nobody"}
                      /\ store[p].by = "foreign" => store'[p] = store[p]
    OBVIOUS
  <2>1. NamesMove
    BY NextNames
  <2>2. ASSUME NEW t \in Tasks, p \in Recorded(row[t])
        PROVE  store[p].by = t
    <3>1. Listed(t, row[t], cancelling[t], purge[t]) /\ Owned(t) /\ row[t].gen \in 0..MaxRecoveries
      BY DEF NameInv, Listing, RInv, TInv, TypeOK, Row
    <3>2. CASE \E g \in 0..row[t].gen : p = Staging(t, g)
      BY <3>1, <3>2, PipelineAssumption DEF NameInv, OwnStaging
    <3>3. CASE p = row[t].final
      BY <2>2, <3>1, <3>3 DEF Owned, Recorded
    <3> QED BY <2>2, <3>2, <3>3, RecordedNames DEF NameInv
  <2>3. CASE store'[p] = store[p]
    BY <2>3
  <2>4. ASSUME NEW t \in Tasks, p \in Recorded(row[t]), store'[p] = Absent \/ store'[p].by = t
        PROVE  store'[p].by \in {store[p].by, "nobody"} /\ store[p].by # "foreign"
    BY <2>2, <2>4, PipelineAssumption DEF Absent
  <2> QED BY <2>1, <2>3, <2>4 DEF NamesMove, StoreMove
<1> QED BY <1>1, NamesAreKept, PTL DEF Spec, NoForeignOverwrite

-------------------------------------------------------------------------------
(* What is kept *)

\* Everything of a task that lies on the remote side is on record, or was
\* handed over by a recovery.
OnRecord(t) == \A p \in Paths : store[p].by = t => p \in Recorded(row[t]) \cup retained

\* /cancel has removed what it no longer lists.
Purged(t) == cancelling[t] = "purging" => \A p \in Recorded(row[t]) \ purge[t] : store[p] = Absent

\* A task reported as received is stored whole, and nothing is left of the
\* copies of a cancelled one.
Stored(t) == row[t].state \in {"completed", "confirmed"} => store[row[t].final] = Object(t, TRUE)
Emptied(t) == row[t].state = "cancelled" => part[t] = "absent" /\ file[t] # "whole"

\* What a coroutine has found out about the recorded names and relies on.
Knows(w) ==
    LET r == row[w[2]] IN
    /\ pc[w] \in {"complete", "receipt", "cleaned"} => store[r.final] = Object(w[2], TRUE)
    /\ pc[w] = "head" \/ (pc[w] = "lock" /\ Backend = "openlist") => ~ Exists(r.temp) /\ ~ Exists(r.final)
    /\ pc[w] = "resumeTemp" => ~ Exists(r.final)

KeptTask(t) == OnRecord(t) /\ Purged(t) /\ Stored(t) /\ Emptied(t)
KeptInv == (\A t \in Tasks : KeptTask(t)) /\ \A w \in Workers : Knows(w)
-------------------------------------------------------------------------------
(* What the others keep *)

KnowingLabels == {"complete", "receipt", "cleaned", "head", "lock", "resumeTemp"}

LEMMA KnowsNothing ==
    ASSUME NEW v, pc'[v] \notin KnowingLabels
    PROVE  Knows(v)'
BY DEF Knows, KnowingLabels

\* Where one worker of a task relies on the names, the other one rests.
LEMMA KnowsAlone ==
    ASSUME RInv, Roles, NEW t \in Tasks
    PROVE  /\ pc[D(t)] \in KnowingLabels => pc[U(t)] \in {"idle", "notify"}
           /\ pc[U(t)] \in KnowingLabels => pc[D(t)] \in {"idle", "notify"}
BY Pair DEF KnowingLabels, Roles, Role, RoleOf, Coroutines, Downloading, Streaming, Remote, Finishing

\* What one task does leaves the objects of the others where they are.
LEMMA StoreApart ==
    ASSUME RInv, NameInv, NEW t \in Tasks, StoreOf(t), NEW u \in Tasks \ {t}
    PROVE  /\ \A p \in Recorded(row[u]) : store'[p] = store[p]
           /\ \A p \in Paths : store'[p].by = u => store[p].by = u
<1>1. \A p \in Recorded(row[u]) : p \in Paths
  BY RecordedNames DEF NameInv
<1>2. \A p \in Recorded(row[u]) : store'[p] = store[p]
  BY <1>1, RecordedApart DEF NameInv, StoreOf
<1>3. \A p \in Paths : store'[p].by = u => store[p].by = u
  BY PipelineAssumption DEF StoreOf, Absent
<1> QED BY <1>2, <1>3

Done == {"completed", "confirmed", "cancelled"}

\* A row that keeps its names and is done only if it was done before.
LEMMA StayKept ==
    ASSUME RInv, NameInv, KeptInv, NEW u \in Tasks, Named(row'[u], row[u]), retained \subseteq retained',
           row'[u].state \in {"completed", "confirmed"} => row[u].state \in {"completed", "confirmed"},
           row'[u].state = "cancelled" =>
              row[u].state = "cancelled" /\ part'[u] \in {part[u], "absent"} /\ (file'[u] = "whole" => file[u] = "whole"),
           cancelling'[u] = "purging" => cancelling[u] = "purging" /\ purge'[u] = purge[u],
           \A p \in Recorded(row[u]) : store'[p] = store[p],
           \A p \in Paths : store'[p].by = u => store[p].by = u
    PROVE  KeptTask(u)'
<1>1. KeptTask(u) /\ Recorded(row'[u]) = Recorded(row[u]) /\ row'[u].final = row[u].final
  BY DEF KeptInv, Named, Recorded
<1>2. OnRecord(u)'
  <2> SUFFICES ASSUME NEW p \in Paths, store'[p].by = u PROVE p \in Recorded(row'[u]) \cup retained'
    BY DEF OnRecord, Recorded
  <2> QED BY <1>1 DEF KeptTask, OnRecord
<1>3. Purged(u)'
  <2> SUFFICES ASSUME cancelling'[u] = "purging", NEW p \in Recorded(row'[u]) \ purge'[u] PROVE store'[p] = Absent
    BY DEF Purged, Recorded
  <2> QED BY <1>1 DEF KeptTask, Purged
<1>4. Stored(u)'
  <2>1. row[u].state \in {"completed", "confirmed"} => row[u].final \in Recorded(row[u])
    BY Recorded3 DEF NameInv, Listing, Listed, Received
  <2> QED BY <1>1, <2>1 DEF KeptTask, Stored
<1>5. Emptied(u)'
  BY <1>1 DEF KeptTask, Emptied
<1> QED BY <1>2, <1>3, <1>4, <1>5 DEF KeptTask

LEMMA OtherKept ==
    ASSUME RInv, NameInv, KeptInv, NEW t \in Tasks, StoreOf(t), OtherRows(t), retained \subseteq retained',
           NEW u \in Tasks \ {t}, part'[u] = part[u], file'[u] = file[u]
    PROVE  KeptTask(u)'
BY StoreApart, StayKept DEF OtherRows, Named

\* A task that is not done and not being purged keeps all its objects on record.
LEMMA OwnKept ==
    ASSUME KeptInv, NEW t \in Tasks, retained \subseteq retained', cancelling'[t] # "purging",
           row'[t].state \notin Done,
           \A p \in Paths : store'[p].by = t => store[p].by = t \/ p \in Recorded(row[t]),
           \A p \in Recorded(row[t]) : p \in Recorded(row'[t]) \cup retained' \/ store'[p].by # t
    PROVE  KeptTask(t)'
<1>1. KeptTask(t)
  BY DEF KeptInv
<1>2. OnRecord(t)'
  <2> SUFFICES ASSUME NEW p \in Paths, store'[p].by = t PROVE p \in Recorded(row'[t]) \cup retained'
    BY DEF OnRecord, Recorded
  <2> QED BY <1>1 DEF KeptTask, OnRecord
<1> QED BY <1>2 DEF KeptTask, Purged, Stored, Emptied, Done

\* A coroutine that does not move, while the names it relies on stay as they are.
LEMMA KnowsStay ==
    ASSUME RInv, Roles, NameInv, KeptInv, NEW v \in Workers, pc'[v] = pc[v], row'[v[2]].temp = row[v[2]].temp,
           row'[v[2]].final = row[v[2]].final, \A p \in Recorded(row[v[2]]) : store'[p] = store[p]
    PROVE  Knows(v)'
<1> DEFINE r == row[v[2]]
<1>1. Knows(v) /\ Holds(v) /\ v[2] \in Tasks
  BY WorkerTypes DEF KeptInv, NameInv
<1>2. /\ r.temp # NoPath => r.temp \in Recorded(r)
      /\ r.final # NoPath => r.final \in Recorded(r)
  BY Recorded3
<1>3. pc[v] \in {"complete", "receipt", "cleaned"} => r.final # NoPath
  <2>1. pc[v] = "complete" => r.final # NoPath
    BY <1>1 DEF Holds
  <2>2. pc[v] \in Finishing => r.final # NoPath
    BY <1>1, FinishingPeer DEF NameInv, Listing, Listed, Received
  <2> QED BY <2>1, <2>2 DEF Finishing
<1>4. pc[v] \in {"complete", "receipt", "cleaned"} => store'[r.final] = store[r.final]
  BY <1>2, <1>3
<1>5. /\ Exists(r.temp) <=> r.temp # NoPath /\ store'[r.temp] # Absent
      /\ Exists(r.final) <=> r.final # NoPath /\ store'[r.final] # Absent
  BY <1>2 DEF Exists
<1> QED BY <1>1, <1>4, <1>5 DEF Knows, Exists

\* The step of a worker that leaves no claim of its own unsupported.
LEMMA WorkerKept ==
    ASSUME RInv, Roles, NameInv, KeptInv, NEW w \in Workers, Others(w), StoreOf(w[2]), UNCHANGED retained,
           \/ pc[w] \notin {"idle", "notify"}
           \/ UNCHANGED store /\ Named(row'[w[2]], row[w[2]]),
           Knows(w)', KeptTask(w[2])'
    PROVE  KeptInv'
<1> DEFINE t == w[2]
<1>1. t \in Tasks /\ (w = D(t) \/ w = U(t)) /\ D(t) # U(t) /\ OtherRows(t)
  BY WorkerTypes, Pair DEF D, U, Others, OtherRows, commands
<1>2. ASSUME NEW u \in Tasks
      PROVE  KeptTask(u)'
  <2>1. CASE u # t
    <3>1. part'[u] = part[u] /\ file'[u] = file[u]
      BY <2>1 DEF Others, FilesOf
    <3> QED BY <1>1, <2>1, <3>1, OtherKept
  <2> QED BY <2>1
<1>3. ASSUME NEW v \in Workers \ {w}
      PROVE  Knows(v)'
  <2>1. pc'[v] = pc[v] /\ v[2] \in Tasks
    BY WorkerTypes DEF Others
  <2>2. CASE v[2] # t
    <3>1. row'[v[2]] = row[v[2]] /\ \A p \in Recorded(row[v[2]]) : store'[p] = store[p]
      BY <1>1, <2>1, <2>2, StoreApart DEF OtherRows
    <3> QED BY <2>1, <3>1, KnowsStay
  <2>3. CASE v[2] = t /\ pc[v] \notin KnowingLabels
    BY <2>1, <2>3, KnowsNothing
  <2>4. CASE v[2] = t /\ pc[v] \in KnowingLabels
    <3>1. v = D(t) \/ v = U(t)
      BY <2>4, WorkerTypes DEF D, U
    <3>2. pc[w] \in {"idle", "notify"}
      BY <1>1, <2>4, <3>1, KnowsAlone
    <3> QED BY <2>1, <2>4, <3>2, KnowsStay DEF Named
  <2> QED BY <2>2, <2>3, <2>4
<1> QED BY <1>2, <1>3 DEF KeptInv

\* The usual step: the task goes on, and what it strikes off is gone.
LEMMA GoesOn ==
    ASSUME RInv, Roles, NameInv, KeptInv, NEW w \in Workers, Others(w), StoreOf(w[2]), UNCHANGED retained,
           \/ pc[w] \notin {"idle", "notify"}
           \/ UNCHANGED store /\ Named(row'[w[2]], row[w[2]]),
           cancelling[w[2]] = "idle", row'[w[2]].state \notin Done, Knows(w)',
           \A p \in Recorded(row[w[2]]) : p \in Recorded(row'[w[2]]) \/ store'[p].by # w[2]
    PROVE  KeptInv'
<1>1. w[2] \in Tasks /\ cancelling'[w[2]] # "purging"
  BY WorkerTypes DEF Others, commands
<1>2. \A p \in Paths : store'[p].by = w[2] => store[p].by = w[2] \/ p \in Recorded(row[w[2]])
  BY DEF StoreOf
<1>3. KeptTask(w[2])'
  BY <1>1, <1>2, OwnKept
<1> QED BY <1>3, WorkerKept

-------------------------------------------------------------------------------
(* What is kept through the remote half *)

\* A whole object under the task's own final name is the task's.
LEMMA WholeMine ==
    ASSUME RInv, NameInv, NEW t \in Tasks, Whole(row[t].final)
    PROVE  store[row[t].final] = Object(t, TRUE)
<1> DEFINE p == row[t].final
<1>1. p # NoPath /\ store[p] # Absent /\ store[p].whole /\ p \in Paths
  BY DEF Whole, Exists, RInv, TInv, TypeOK, Row
<1>2. store[p].by = t
  BY <1>1 DEF NameInv, Listing, Owned, OwnStaging
<1>3. store[p] \in [by : Owners, whole : BOOLEAN]
  BY <1>1 DEF RInv, TInv, TypeOK
<1> HIDE DEF p
<1>4. store[p] = [by |-> store[p].by, whole |-> store[p].whole]
  BY <1>3
<1> QED BY <1>1, <1>2, <1>4 DEF Object, p

\* An absent object is nobody's.
LEMMA GoneIsNobodys ==
    ASSUME NEW t \in Tasks, NEW p, p # NoPath, ~ Exists(p)
    PROVE  store[p].by # t
BY PipelineAssumption DEF Exists, Absent

LEMMA RemotelyRuns ==
    ASSUME RInv, Roles, NEW w \in Workers, Remotely(w) \/ pc[w] = "recheck"
    PROVE  pc[w] \notin {"idle", "notify"} /\ cancelling[w[2]] = "idle" /\ row[w[2]].state \notin Done
<1>1. CASE Remotely(w)
  BY <1>1, RemotePeer DEF Remotely, Remote, Finishing, Done
<1>2. CASE pc[w] = "recheck"
  <2>1. w[2] \in Tasks /\ Role(w[2]) /\ (w = D(w[2]) \/ w = U(w[2]))
        /\ cancelling[w[2]] \in {"idle", "asked", "purging"}
    BY WorkerTypes DEF Roles, D, U, RInv, TInv, TypeOK
  <2>2. w = U(w[2])
    BY <1>2, <2>1 DEF Role, RoleOf, Coroutines
  <2> QED BY <1>2, <2>1, <2>2 DEF Role, RoleOf, Uploading, Cancelled, Finishing, Done
<1> QED BY <1>1, <1>2

\* A step of the remote half that keeps the names.
LEMMA RunsOn ==
    ASSUME RInv, Roles, NameInv, KeptInv, NEW w \in Workers, Remotely(w) \/ pc[w] = "recheck", Others(w),
           StoreOf(w[2]), UNCHANGED retained, Named(row'[w[2]], row[w[2]]), row'[w[2]].state \notin Done, Knows(w)'
    PROVE  KeptInv'
<1>1. Recorded(row'[w[2]]) = Recorded(row[w[2]])
  BY DEF Named, Recorded
<1> QED BY <1>1, RemotelyRuns, GoesOn

LEMMA FailsKept ==
    ASSUME RInv, Roles, NameInv, KeptInv, NEW w \in Workers, Remotely(w) \/ pc[w] = "recheck", Others(w),
           StoreOf(w[2]), UNCHANGED retained, NEW kind, FailedBy(w, kind)
    PROVE  KeptInv'
<1>1. Named(row'[w[2]], row[w[2]]) /\ pc'[w] \in {"idle", "notify", "backoff"}
      /\ row'[w[2]].state \in {row[w[2]].state, FailedState(w)}
  BY DEF FailedBy, Twin, Named
<1>2. Knows(w)' /\ row'[w[2]].state \notin Done
  BY <1>1, KnowsNothing, RemotelyRuns DEF KnowingLabels, FailedState, Done
<1> QED BY <1>1, <1>2, RunsOn

\* The write begins under a new name when nothing is left under the old one.
LEMMA BeginsKept ==
    ASSUME RInv, Roles, NameInv, KeptInv, NEW w \in Workers, Remotely(w), Others(w), UNCHANGED <<store, retained>>,
           Begins(w), ~ Exists(row[w[2]].temp)
    PROVE  KeptInv'
<1> DEFINE t == w[2]
           r == row[t]
           q == row'[t]
<1>1. t \in Tasks /\ Listed(t, r, cancelling[t], purge[t])
  BY WorkerTypes DEF NameInv, Listing
<1>2. q.temp = q.rpath /\ q.final = r.final /\ q.state \notin Done /\ pc'[w] = "write"
  BY DEF Begins, WritingState, Done
<1>3. ~ Exists(r.temp)
  OBVIOUS
<1> HIDE DEF t, r, q
<1>4. ASSUME NEW p \in Recorded(r), p \notin Recorded(q)
      PROVE  store'[p].by # t
  <2>1. p = r.temp /\ p # NoPath
    BY <1>1, <1>2, <1>4 DEF Recorded, Listed
  <2> QED BY <1>1, <1>3, <2>1, GoneIsNobodys
<1>5. Knows(w)' /\ StoreOf(w[2])
  BY <1>2, KnowsNothing, KeepStore DEF KnowingLabels
<1> QED BY <1>2, <1>4, <1>5, RemotelyRuns, GoesOn DEF t, r, q

LEMMA QueuesKept ==
    ASSUME RInv, Roles, NameInv, KeptInv, NEW w \in Workers, Remotely(w), Others(w), UNCHANGED <<store, retained>>,
           Queues(w), ~ Exists(row[w[2]].temp), ~ Exists(row[w[2]].final)
    PROVE  KeptInv'
<1>1. Knows(w)' /\ StoreOf(w[2])
  BY KeepStore DEF Queues, Knows, Exists
<1>2. Named(row'[w[2]], row[w[2]]) /\ row'[w[2]].state \notin Done
  BY RemotelyRuns DEF Queues, Named
<1> QED BY <1>1, <1>2, RunsOn

LEMMA NothingKept ==
    ASSUME RInv, Roles, NameInv, KeptInv, NEW w \in Workers, Remotely(w), Others(w), UNCHANGED <<store, retained>>,
           Nothing(w), ~ Exists(row[w[2]].temp), ~ Exists(row[w[2]].final)
    PROVE  KeptInv'
<1>1. CASE pc'[w] = "head" /\ UNCHANGED <<row, job, lock>>
  <2>1. Knows(w)' /\ StoreOf(w[2])
    BY <1>1, KeepStore DEF Knows, Exists
  <2>2. Named(row'[w[2]], row[w[2]]) /\ row'[w[2]].state \notin Done
    BY <1>1, RemotelyRuns DEF Named
  <2> QED BY <2>1, <2>2, RunsOn
<1>2. CASE FailedBy(w, "transient")
  BY <1>2, KeepStore, FailsKept
<1> QED BY <1>1, <1>2, QueuesKept, BeginsKept DEF Nothing

LEMMA ResumeKept ==
    ASSUME RInv, Roles, NameInv, KeptInv, NEW w \in Workers, Others(w),
           ResumeDone(w) \/ ResumeTempDone(w) \/ StreamHeadDone(w)
    PROVE  KeptInv'
<1> DEFINE t == w[2]
           r == row[t]
<1>1. /\ t \in Tasks /\ RecordedFinal(r) = r.final /\ RecordedTemp(r) = r.temp
      /\ UNCHANGED <<store, retained>> /\ StoreOf(t) /\ Remotely(w) /\ Knows(w)
  BY Mine, RecordedColumns, KeepStore
     DEF NameInv, KeptInv, ResumeDone, ResumeTempDone, StreamHeadDone, Remotely, Remote, Finishing
<1>2. UNCHANGED row => Named(row'[t], r) /\ row'[t].state \notin Done
  BY <1>1, RemotelyRuns DEF Named
<1>3. ASSUME NEW kind, FailedBy(w, kind)
      PROVE  KeptInv'
  BY <1>1, <1>3, FailsKept
<1>4. CASE Whole(r.final) /\ pc'[w] = "complete" /\ UNCHANGED row
  <2>1. Knows(w)'
    BY <1>1, <1>4, WholeMine DEF Knows
  <2> QED BY <1>1, <1>2, <1>4, <2>1, RunsOn
<1>5. CASE ~ Exists(r.final) /\ pc'[w] = "resumeTemp" /\ UNCHANGED row
  <2>1. Knows(w)'
    BY <1>1, <1>5 DEF Knows, Exists
  <2> QED BY <1>1, <1>2, <1>5, <2>1, RunsOn
<1>6. CASE Backend = "clouddrive2" /\ pc'[w] = "lock" /\ UNCHANGED row
  <2>1. Knows(w)'
    BY <1>6 DEF Knows
  <2> QED BY <1>1, <1>2, <1>6, <2>1, RunsOn
<1>7. CASE ResumeDone(w)
  <2>1. CASE ~ Exists(r.final) /\ r.temp = NoPath /\ Nothing(w)
    BY <1>1, <2>1, NothingKept DEF Exists
  <2> HIDE DEF r
  <2> QED BY <1>1, <1>3, <1>4, <1>5, <1>7, <2>1 DEF ResumeDone, r
<1>8. CASE ResumeTempDone(w)
  <2>1. CASE ~ Exists(r.temp) /\ Nothing(w)
    <3>1. ~ Exists(r.final)
      BY <1>1, <1>8 DEF Knows, ResumeTempDone
    <3> QED BY <1>1, <2>1, <3>1, NothingKept
  <2> HIDE DEF r
  <2> QED BY <1>1, <1>3, <1>6, <1>8, <2>1 DEF ResumeTempDone, r
<1>9. CASE StreamHeadDone(w)
  <2>1. ~ Exists(r.temp) /\ ~ Exists(r.final)
    BY <1>1, <1>9 DEF Knows, StreamHeadDone
  <2> QED BY <1>1, <1>3, <1>9, <2>1, QueuesKept, BeginsKept DEF StreamHeadDone
<1> QED BY <1>7, <1>8, <1>9

\* A name is claimed: nothing recorded is struck off.
LEMMA ClaimsKept ==
    ASSUME RInv, Roles, NameInv, KeptInv, NEW w \in Workers, Others(w), UNCHANGED <<store, retained>>, NEW p,
           Claims(w, p), pc[w] = "exists" \/ (pc[w] = "reserved" /\ p = job[w].goal)
    PROVE  KeptInv'
<1> DEFINE t == w[2]
           r == row[t]
           q == row'[t]
<1>1. t \in Tasks /\ Listed(t, r, cancelling[t], purge[t]) /\ Holds(w) /\ Remotely(w)
  BY WorkerTypes DEF NameInv, Listing, Remotely, Remote, Finishing
<1>2. /\ q.rpath = p /\ q.final = p /\ q.state \notin Done /\ pc'[w] \in {"write", "move"}
      /\ \/ Backend = "openlist" /\ q.temp = NoPath
         \/ Backend = "clouddrive2" /\ q.temp = job[w].path
  BY DEF Claims, WritingState, Done
<1>3. /\ r.final \in {NoPath, p}
      /\ Backend = "clouddrive2" => job[w].path = r.temp
  BY <1>1 DEF Holds
<1> HIDE DEF t, r, q
<1>4. \A x \in Recorded(r) : x \in Recorded(q)
  BY <1>1, <1>2, <1>3, PipelineAssumption DEF Recorded, Listed
<1>5. Knows(w)' /\ StoreOf(w[2])
  BY <1>2, KnowsNothing, KeepStore DEF KnowingLabels
<1> QED BY <1>1, <1>2, <1>4, <1>5, RemotelyRuns, GoesOn DEF t, r, q

LEMMA LockKept ==
    ASSUME RInv, Roles, NameInv, KeptInv, NEW w \in Workers, Others(w),
           TakeLockDone(w) \/ ChooseFinalDone(w) \/ ReuseFinalDone(w)
    PROVE  KeptInv'
<1> DEFINE t == w[2]
           r == row[t]
<1>1. UNCHANGED <<store, retained>> /\ StoreOf(t) /\ Remotely(w)
  BY KeepStore DEF TakeLockDone, ChooseFinalDone, ReuseFinalDone, Remotely, Remote, Finishing
<1>2. UNCHANGED row => Named(row'[t], r) /\ row'[t].state \notin Done
  BY <1>1, RemotelyRuns DEF Named
<1>3. ASSUME NEW kind, FailedBy(w, kind)
      PROVE  KeptInv'
  BY <1>1, <1>3, FailsKept
<1>4. CASE TakeLockDone(w)
  <2>1. Knows(w)' /\ UNCHANGED row
    BY <1>4, KnowsNothing DEF TakeLockDone, KnowingLabels
  <2> QED BY <1>1, <1>2, <2>1, RunsOn
<1>5. CASE ChooseFinalDone(w)
  <2>1. CASE UNCHANGED <<row, pc>>
    <3>1. Knows(w)'
      BY <1>5, <2>1, KnowsNothing DEF ChooseFinalDone, KnowingLabels
    <3> QED BY <1>1, <1>2, <2>1, <3>1, RunsOn
  <2>2. ASSUME NEW p, Claims(w, p)
        PROVE  KeptInv'
    BY <1>1, <1>5, <2>2, ClaimsKept DEF ChooseFinalDone
  <2> QED BY <1>3, <1>5, <2>1, <2>2 DEF ChooseFinalDone
<1>6. CASE ReuseFinalDone(w)
  BY <1>1, <1>3, <1>6, ClaimsKept DEF ReuseFinalDone
<1> QED BY <1>4, <1>5, <1>6

LEMMA WriteKept ==
    ASSUME RInv, Roles, NameInv, KeptInv, NEW w \in Workers, Others(w),
           WriteStartsDone(w) \/ WriteEndsDone(w) \/ VerifyDone(w)
    PROVE  KeptInv'
<1> DEFINE t == w[2]
           r == row[t]
           p == job[w].path
<1>1. pc[w] \in {"write", "writing", "verify"} /\ UNCHANGED retained /\ Remotely(w)
  BY DEF WriteStartsDone, WriteEndsDone, VerifyDone, Remotely, Remote, Finishing
<1>2. /\ IsStaging(p) => Backend = "clouddrive2"
      /\ \A b : store' = [store EXCEPT ![p] = Object(t, b)] => StoreOf(t)
  BY <1>1, WritesOwn
<1>3. UNCHANGED row => Named(row'[t], r) /\ row'[t].state \notin Done
  BY <1>1, RemotelyRuns DEF Named
<1>4. ASSUME NEW kind, FailedBy(w, kind), StoreOf(t)
      PROVE  KeptInv'
  BY <1>1, <1>4, FailsKept
<1>5. pc'[w] \in {"writing", "verify", "final"} => Knows(w)'
  BY KnowsNothing DEF KnowingLabels
<1>6. CASE WriteStartsDone(w)
  <2>1. StoreOf(t)
    BY <1>2, <1>6, KeepStore DEF WriteStartsDone
  <2>2. CASE pc'[w] = "writing" /\ UNCHANGED row
    BY <1>1, <1>3, <1>5, <2>1, <2>2, RunsOn
  <2> QED BY <1>4, <1>6, <2>1, <2>2 DEF WriteStartsDone
<1>7. CASE WriteEndsDone(w)
  <2>1. StoreOf(t)
    BY <1>2, <1>7 DEF WriteEndsDone
  <2>2. CASE Kin(row'[t], r) /\ row'[t].state = "verifying" /\ pc'[w] = "verify"
    <3>1. Named(row'[t], r) /\ row'[t].state \notin Done
      BY <2>2 DEF Named, Kin, Twin, Done
    <3> QED BY <1>1, <1>5, <2>1, <2>2, <3>1, RunsOn
  <2> QED BY <1>4, <1>7, <2>1, <2>2 DEF WriteEndsDone
<1>8. CASE VerifyDone(w)
  <2>1. StoreOf(t)
    BY <1>8, KeepStore DEF VerifyDone
  <2>2. CASE UNCHANGED row /\ (pc'[w] = "final" \/ (IsStaging(p) /\ pc'[w] = "lock"))
    <3>1. Knows(w)'
      BY <1>2, <1>5, <2>2 DEF Knows
    <3> QED BY <1>1, <1>3, <2>1, <2>2, <3>1, RunsOn
  <2> HIDE DEF r
  <2> QED BY <1>4, <1>8, <2>1, <2>2 DEF VerifyDone
<1> QED BY <1>6, <1>7, <1>8

LEMMA FinishKept ==
    ASSUME RInv, Roles, NameInv, KeptInv, NEW w \in Workers, Others(w),
           MoveToFinalDone(w) \/ FinalCheckDone(w) \/ RemoteRetryDone(w)
    PROVE  KeptInv'
<1> DEFINE t == w[2]
           r == row[t]
<1>1. t \in Tasks /\ Holds(w) /\ UNCHANGED retained /\ Remotely(w)
  BY Mine DEF NameInv, MoveToFinalDone, FinalCheckDone, RemoteRetryDone, Remotely, Remote, Finishing
<1>2. UNCHANGED row => Named(row'[t], r) /\ row'[t].state \notin Done
  BY <1>1, RemotelyRuns DEF Named
<1>3. ASSUME NEW kind, FailedBy(w, kind), UNCHANGED store
      PROVE  KeptInv'
  BY <1>1, <1>3, KeepStore, FailsKept
<1>4. CASE MoveToFinalDone(w)
  <2>1. CASE /\ Exists(job[w].path) /\ pc'[w] = "final" /\ UNCHANGED row
             /\ store' = [store EXCEPT ![job[w].goal] = store[job[w].path], ![job[w].path] = Absent]
    <3>1. StoreOf(t)
      BY <1>4, <2>1, MovesOwn DEF MoveToFinalDone
    <3>2. Knows(w)'
      BY <2>1, KnowsNothing DEF KnowingLabels
    <3> QED BY <1>1, <1>2, <2>1, <3>1, <3>2, RunsOn
  <2> QED BY <1>3, <1>4, <2>1 DEF MoveToFinalDone
<1>5. CASE FinalCheckDone(w)
  <2>1. UNCHANGED store /\ StoreOf(t) /\ job[w].goal = r.final
    BY <1>1, <1>5, KeepStore DEF FinalCheckDone, Holds
  <2>2. CASE Whole(r.final) /\ pc'[w] = "complete" /\ UNCHANGED row
    <3>1. Knows(w)'
      BY <1>1, <2>1, <2>2, WholeMine DEF Knows
    <3> QED BY <1>1, <1>2, <2>1, <2>2, <3>1, RunsOn
  <2> HIDE DEF r
  <2> QED BY <1>3, <1>5, <2>1, <2>2 DEF FinalCheckDone
<1>6. CASE RemoteRetryDone(w)
  <2>1. StoreOf(t) /\ Named(row'[t], r) /\ Knows(w)' /\ row'[t].state \notin Done
    BY <1>1, <1>6, KeepStore, KnowsNothing, RemotelyRuns DEF RemoteRetryDone, Named, Kin, Twin, KnowingLabels
  <2> QED BY <1>1, <2>1, RunsOn
<1> QED BY <1>4, <1>5, <1>6

LEMMA CutKept ==
    ASSUME RInv, Roles, NameInv, KeptInv, NEW w \in Workers, Others(w), CutShort(w)
    PROVE  KeptInv'
<1>1. UNCHANGED retained /\ StoreOf(w[2]) /\ (Remotely(w) \/ pc[w] = "recheck")
  BY LandedOne, KeepStore DEF CutShort
<1>2. CASE \E kind : FailedBy(w, kind)
  BY <1>1, <1>2, FailsKept
<1>3. CASE /\ pc'[w] \in {"idle", "notify"} /\ Twin(row'[w[2]], row[w[2]])
           /\ row'[w[2]] = row[w[2]] \/ row'[w[2]].state = "download_failed"
  <2>1. Named(row'[w[2]], row[w[2]]) /\ row'[w[2]].state \notin Done /\ Knows(w)'
    BY <1>1, <1>3, KnowsNothing, RemotelyRuns DEF Named, Twin, Done, KnowingLabels
  <2> QED BY <1>1, <2>1, RunsOn
<1> QED BY <1>2, <1>3 DEF CutShort

\* The receipt is recorded while the object it names stands.
LEMMA ReceiveKept ==
    ASSUME RInv, Roles, NameInv, KeptInv, NEW w \in Workers, Others(w), ReceiveDone(w)
    PROVE  KeptInv'
<1> DEFINE t == w[2]
           r == row[t]
           q == row'[t]
           p == job[w].goal
<1>1. /\ t \in Tasks /\ Holds(w) /\ Knows(w) /\ pc[w] = "complete" /\ UNCHANGED retained /\ Remotely(w)
      /\ Listed(t, r, cancelling[t], purge[t]) /\ r \in Row
  BY Mine DEF NameInv, KeptInv, Listing, ReceiveDone, Remotely, Remote, Finishing
<1>2. p = r.final /\ r.final # NoPath /\ store[r.final] = Object(t, TRUE) /\ r.final \in Paths
  BY <1>1 DEF Holds, Knows, Row
<1>3. StoreOf(t)
  BY ReceivesOwn
<1>4. CASE Receipted(q, r, p) /\ pc'[w] = "receipt"
  <2>1. store' = IF r.temp \in Paths \ {p} THEN [store EXCEPT ![r.temp] = Absent] ELSE store
    BY DEF ReceiveDone
  <2>2. store \in [Paths -> [by : Owners, whole : BOOLEAN]]
    BY DEF RInv, TInv, TypeOK
  <2>3. q.final = r.final /\ q.rpath = r.final /\ q.state \notin Done
    BY <1>2, <1>4 DEF Receipted, Done
  <2>4. store'[r.final] = store[r.final] /\ (r.temp \in Paths \ {p} => store'[r.temp] = Absent)
    <3> HIDE DEF r, p, q, t
    <3> QED BY <1>2, <2>1, <2>2
  <2>5. Knows(w)'
    BY <1>2, <1>4, <2>3, <2>4 DEF Knows
  <2>6. ASSUME NEW x \in Recorded(r)
        PROVE  x \in Recorded(q) \/ store'[x].by # t
    <3>1. x \in {r.temp, r.final} /\ x \in Paths
      BY <1>1, <2>6, RecordedNames DEF NameInv
    <3>2. CASE x = r.final
      BY <1>2, <2>3, <3>2 DEF Recorded
    <3>3. CASE x # r.final
      <4>1. store'[x] = Absent
        BY <1>2, <2>4, <3>1, <3>3
      <4> QED BY <1>1, <4>1, PipelineAssumption DEF Absent
    <3> QED BY <3>2, <3>3
  <2> HIDE DEF r, q
  <2> QED BY <1>1, <1>3, <2>3, <2>5, <2>6, RemotelyRuns, GoesOn DEF r, q
<1>5. CASE FailedBy(w, "transient")
  BY <1>1, <1>3, <1>5, FailsKept
<1> QED BY <1>4, <1>5 DEF ReceiveDone

LEMMA RemoteKept ==
    ASSUME RInv, Roles, NameInv, KeptInv, NEW w \in Workers, RemoteStep(w), Others(w)
    PROVE  KeptInv'
<1>1. CASE Resume(w) \/ ResumeTemp(w) \/ StreamHead(w)
  BY <1>1, ResumeEffect, ResumeTempEffect, StreamHeadEffect, ResumeKept
<1>2. CASE TakeLock(w) \/ ChooseFinal(w) \/ ReuseFinal(w)
  BY <1>2, TakeLockEffect, ChooseFinalEffect, ReuseFinalEffect, LockKept
<1>3. CASE WriteStarts(w) \/ WriteEnds(w) \/ Verify(w)
  BY <1>3, WriteStartsEffect, WriteEndsEffect, VerifyEffect, WriteKept
<1>4. CASE MoveToFinal(w) \/ FinalCheck(w) \/ RemoteRetry(w)
  BY <1>4, MoveToFinalEffect, FinalCheckEffect, RemoteRetryEffect, FinishKept
<1>5. CASE Receive(w)
  BY <1>5, ReceiveEffect, ReceiveKept
<1>6. CASE RemoteError(w) \/ StreamError(w) \/ StreamRefused(w)
  BY <1>6, CutShortEffect, CutKept
<1>7. CASE Notified(w)
  <2>1. Goto(w, "idle") /\ UNCHANGED <<row, retained, store>> /\ UNCHANGED files
    BY <1>7 DEF Notified
  <2>2. pc'[w] = "idle" /\ w[2] \in Tasks /\ Named(row'[w[2]], row[w[2]])
    BY <2>1, Mine DEF Named
  <2>3. Knows(w)' /\ StoreOf(w[2])
    BY <2>1, <2>2, KnowsNothing, KeepStore DEF KnowingLabels
  <2>4. KeptTask(w[2])'
    BY <2>1, <2>2, StayKept DEF Others, commands, files
  <2> QED BY <2>1, <2>2, <2>3, <2>4, WorkerKept
<1> QED BY <1>1, <1>2, <1>3, <1>4, <1>5, <1>6, <1>7 DEF RemoteStep

\* The copy goes, and the task ends, on the strength of the receipt.
LEMMA CleaningKept ==
    ASSUME RInv, Roles, NameInv, KeptInv, NEW w \in Workers, Cleaning(w), Others(w)
    PROVE  KeptInv'
<1> DEFINE t == w[2]
           done == [row[t] EXCEPT !.state = "completed", !.lpath = "none"]
<1>1. pc[w] \in Finishing /\ UNCHANGED <<retained, store, lock>>
  BY DEF Cleaning, Clean, CleanFails, Complete, Finishing
<1>2. /\ row[t].state = "cleanup_pending" /\ cancelling[t] = "idle" /\ t \in Tasks /\ StoreOf(t) /\ KeptTask(t)
      /\ cancelling' = cancelling /\ store[row[t].final] = Object(t, TRUE) /\ pc[w] \notin {"idle", "notify"}
  BY <1>1, FinishingPeer, KeepStore DEF Others, commands, KeptInv, Knows, Finishing
<1>3. Named(done, row[t]) /\ done.state = "completed" /\ Named(row[t], row[t])
  BY Mine DEF Named, Row
<1>4. \/ UNCHANGED row /\ \E l \in {"cleaned", "idle"} : Goto(w, l)
      \/ Put(t, done) /\ \E l \in {"idle", "notify"} : Goto(w, l)
  BY DEF Cleaning, Clean, CleanFails, Complete, Notice
<1> HIDE DEF done
<1>5. CASE UNCHANGED row /\ \E l \in {"cleaned", "idle"} : Goto(w, l)
  <2>1. pc'[w] \in {"cleaned", "idle"} /\ row'[t].state \notin Done
    BY <1>2, <1>5, Mine DEF Done
  <2>2. Knows(w)'
    BY <1>1, <1>2, <1>5, <2>1 DEF Knows
  <2> QED BY <1>1, <1>2, <1>5, <2>1, <2>2, GoesOn
<1>6. CASE Put(t, done) /\ \E l \in {"idle", "notify"} : Goto(w, l)
  <2>1. pc'[w] \in {"idle", "notify"} /\ row'[t] = done
    BY <1>6, Mine
  <2>2. Knows(w)'
    BY <2>1, KnowsNothing DEF KnowingLabels
  <2>3. KeptTask(t)'
    <3>1. Recorded(row'[t]) = Recorded(row[t]) /\ row'[t].final = row[t].final /\ row'[t].state = "completed"
      BY <1>3, <2>1 DEF Named, Recorded
    <3>2. OnRecord(t)'
      BY <1>1, <1>2, <3>1 DEF KeptTask, OnRecord
    <3>3. Stored(t)' /\ Emptied(t)' /\ Purged(t)'
      BY <1>1, <1>2, <3>1 DEF Stored, Emptied, Purged
    <3> QED BY <3>2, <3>3 DEF KeptTask
  <2> QED BY <1>1, <1>2, <2>2, <2>3, WorkerKept
<1> QED BY <1>4, <1>5, <1>6

-------------------------------------------------------------------------------
(* What is kept through the local half *)

\* A task in the local half is not done and not being cancelled.
LEMMA LocalState ==
    ASSUME RInv, Roles, NEW t \in Tasks, LocalStep(t)
    PROVE  row[t].state \notin Done /\ cancelling[t] = "idle"
<1>1. Role(t) /\ cancelling[t] \in {"idle", "asked", "purging"} /\ D(t) \in Workers
  BY Pair DEF Roles, RInv, TInv, TypeOK
<1>2. CASE StartDownload(t)
  BY <1>1, <1>2 DEF StartDownload, Role, RoleOf, Cancelled, Done
<1>3. CASE pc[D(t)] \in {"start", "fetch", "renaming", "renamed"}
  BY <1>1, <1>3 DEF Role, RoleOf, Downloading, Cancelled, Done
<1>4. CASE pc[D(t)] = "backoff" /\ job[D(t)].how = "local"
  BY <1>1, <1>4 DEF Role, RoleOf, Downloading, Cancelled, Done
<1> QED BY <1>2, <1>3, <1>4
        DEF LocalStep, DownloadStep, DownloadBegin, DownloadRetry, DownloadArrives, DownloadError, DownloadRefused,
            DownloadRename, DownloadRenameFails, DownloadRecord

LEMMA LocalKept ==
    ASSUME RInv, Roles, NameInv, KeptInv, NEW t \in Tasks, LocalStep(t), Others(D(t))
    PROVE  KeptInv'
<1> DEFINE w == D(t)
<1>1. w \in Workers /\ w[2] = t
  BY Pair
<1>2. /\ Named(row'[t], row[t]) /\ pc'[w] \in LocalStops /\ UNCHANGED <<retained, store>>
      /\ row'[t].state = row[t].state \/ row'[t].state \in Plain
  BY LocalRow
<1>3. row'[t].state \notin Done /\ cancelling[t] = "idle"
  BY <1>2, LocalState DEF Plain, Done
<1>4. Knows(w)' /\ StoreOf(t)
  BY <1>2, KnowsNothing, KeepStore DEF LocalStops, KnowingLabels
<1>5. Recorded(row'[t]) = Recorded(row[t])
  BY <1>2 DEF Named, Recorded
<1> HIDE DEF w
<1> QED BY <1>1, <1>2, <1>3, <1>4, <1>5, GoesOn DEF w

LEMMA UploadKept ==
    ASSUME RInv, Roles, NameInv, KeptInv, NEW t \in Tasks, UploadStep(t) \/ StartUpload(t), Others(U(t))
    PROVE  KeptInv'
<1> DEFINE w == U(t)
           r == row[t]
           p == r.rpath
           held == [r EXCEPT !.state = "verification_failed_retained", !.kind = "conflict", !.verified = FALSE]
           again == [r EXCEPT !.state = "queued", !.lpath = "none", !.verified = FALSE]
           fresh == [r EXCEPT !.state = "waiting_upload", !.rpath = NoPath, !.final = NoPath, !.verified = FALSE]
<1>1. /\ w \in Workers /\ w[2] = t /\ r \in Row /\ Listed(t, r, cancelling[t], purge[t]) /\ Role(t)
      /\ cancelling[t] \in {"idle", "asked", "purging"} /\ (~ r.cancel => cancelling[t] = "idle")
  BY Pair DEF NameInv, Listing, Roles, RInv, TInv, TypeOK, Role, RoleOf, Cancelled
<1>2. UNCHANGED <<retained, store, lock, commands>>
  BY DEF UploadStep, UploadBegin, Recheck, StartUpload
<1>3. StoreOf(t) /\ cancelling' = cancelling /\ purge' = purge
  BY <1>2, KeepStore DEF commands
<1>4. /\ Named(held, r) /\ held.state = "verification_failed_retained"
      /\ Named(again, r) /\ again.state = "queued" /\ Named(r, r)
      /\ fresh \in Row /\ fresh.rpath = NoPath /\ fresh.final = NoPath /\ fresh.temp = r.temp
      /\ fresh.state = "waiting_upload"
  <2> HIDE DEF r
  <2> QED BY <1>1, StateTypes DEF Row, Named, States
<1>5. /\ \A q : Put(t, q) => row'[t] = q
      /\ \A l : Goto(w, l) => pc'[w] = l
  BY <1>1, Mine
<1>6. pc'[w] \in {"idle", "notify", "resume", "recheck", "start"} => Knows(w)'
  BY KnowsNothing DEF KnowingLabels
<1>7. ASSUME Named(row'[t], r), row'[t].state \notin Done, cancelling[t] = "idle", Knows(w)'
      PROVE  KeptInv'
  <2>1. Recorded(row'[t]) = Recorded(r)
    BY <1>7 DEF Named, Recorded
  <2> HIDE DEF w, r
  <2> QED BY <1>1, <1>2, <1>3, <1>7, <2>1, GoesOn DEF w, r
<1>8. CASE StartUpload(t)
  <2>1. UNCHANGED row /\ pc'[w] = "start" /\ r.state \notin Done /\ ~ r.cancel
    BY <1>5, <1>8 DEF StartUpload, Done
  <2> QED BY <1>1, <1>4, <1>6, <1>7, <2>1
<1>9. CASE UploadBegin(t)
  <2>1. \/ UNCHANGED <<row, files>> /\ Goto(w, "idle")
        \/ UNCHANGED row /\ Goto(w, "recheck") /\ ~ r.cancel /\ r.state = "cleanup_pending"
        \/ CheckLocal(w, r) /\ ~ r.cancel /\ r.state \notin Done
    BY <1>9 DEF UploadBegin, Done
  <2>2. CASE CheckLocal(w, r) /\ ~ r.cancel /\ r.state \notin Done
    <3>1. /\ Kin(row'[t], r) /\ pc'[w] \in {"resume", "idle", "notify"}
          /\ row'[t] = r \/ row'[t].state \in Plain
      <4> HIDE DEF r
      <4> QED BY <1>1, <2>2, CheckEffect DEF Plain
    <3>2. Named(row'[t], r) /\ row'[t].state \notin Done
      BY <2>2, <3>1 DEF Kin, Twin, Named, Plain, Done
    <3> QED BY <1>1, <1>6, <1>7, <2>2, <3>1, <3>2
  <2>3. CASE UNCHANGED row /\ Goto(w, "recheck") /\ ~ r.cancel /\ r.state = "cleanup_pending"
    BY <1>1, <1>4, <1>5, <1>6, <1>7, <2>3 DEF Done
  <2>4. CASE UNCHANGED <<row, files>> /\ Goto(w, "idle")
    <3>1. KeptTask(t)'
      BY <1>2, <1>3, <1>4, <2>4, StayKept DEF files
    <3> HIDE DEF w
    <3> QED BY <1>1, <1>2, <1>3, <1>4, <1>5, <1>6, <2>4, <3>1, WorkerKept DEF w
  <2> QED BY <2>1, <2>2, <2>3, <2>4
<1>10. CASE Recheck(w)
  <2>1. pc[w] = "recheck"
    BY <1>10 DEF Recheck
  <2>2. r.state = "cleanup_pending" /\ cancelling[t] = "idle" /\ pc[w] \notin {"idle", "notify"}
    BY <1>1, <2>1, RemotelyRuns, Pair DEF Role, RoleOf, Uploading, Finishing
  <2>3. r.final # NoPath /\ p = r.final /\ r.temp = NoPath
    BY <1>1, <2>2 DEF Listed, Received
  <2>4. \/ Whole(p) /\ Goto(w, "complete") /\ UNCHANGED row
        \/ (Put(t, held) \/ Put(t, again)) /\ Goto(w, "idle")
        \/ ~ Exists(p) /\ CheckLocal(w, fresh)
    BY <1>1, <1>10 DEF Recheck
  <2>5. CASE Whole(p) /\ Goto(w, "complete") /\ UNCHANGED row
    <3>1. pc'[w] = "complete" /\ store[r.final] = Object(t, TRUE)
      BY <1>5, <2>3, <2>5, WholeMine
    <3>2. Knows(w)'
      BY <1>1, <1>2, <2>5, <3>1 DEF Knows
    <3> QED BY <1>4, <1>7, <2>2, <2>5, <3>2 DEF Done
  <2> HIDE DEF held, again, fresh
  <2>6. CASE (Put(t, held) \/ Put(t, again)) /\ Goto(w, "idle")
    BY <1>4, <1>5, <1>6, <1>7, <2>2, <2>6 DEF Done
  <2>7. CASE ~ Exists(p) /\ CheckLocal(w, fresh)
    <3>1. /\ Kin(row'[t], fresh) /\ pc'[w] \in {"resume", "idle", "notify"}
          /\ row'[t] = fresh \/ row'[t].state \in Plain
      BY <1>4, <2>7, CheckEffect DEF Plain
    <3>2. row'[t].state \notin Done
      BY <1>4, <3>1 DEF Plain, Done
    <3>3. ASSUME NEW x \in Recorded(r)
          PROVE  store'[x].by # t
      <4>1. x = p /\ x # NoPath
        BY <2>3, <3>3 DEF Recorded
      <4> QED BY <1>2, <2>7, <4>1, GoneIsNobodys
    <3> HIDE DEF w, r
    <3> QED BY <1>1, <1>2, <1>3, <1>6, <2>2, <3>1, <3>2, <3>3, GoesOn DEF w, r
  <2> QED BY <2>4, <2>5, <2>6, <2>7
<1> QED BY <1>8, <1>9, <1>10 DEF UploadStep

-------------------------------------------------------------------------------
(* What is kept through cancellations *)

\* A step of no coroutine keeps what is kept, when the workers of its task rely
\* on nothing or what they rely on stays.
LEMMA QuietKept ==
    ASSUME RInv, Roles, NameInv, KeptInv, NEW t \in Tasks, OtherRows(t), StoreOf(t), FilesOf(t),
           retained \subseteq retained', KeptTask(t)', \A v \in Workers : v[2] # t => pc'[v] = pc[v],
           \/ pc'[D(t)] \notin KnowingLabels /\ pc'[U(t)] \notin KnowingLabels
           \/ UNCHANGED <<pc, store>> /\ Named(row'[t], row[t])
    PROVE  KeptInv'
<1>1. ASSUME NEW u \in Tasks \ {t}
      PROVE  KeptTask(u)'
  <2>1. part'[u] = part[u] /\ file'[u] = file[u]
    BY DEF FilesOf
  <2> QED BY <2>1, OtherKept
<1>2. ASSUME NEW v \in Workers
      PROVE  Knows(v)'
  <2>1. v[2] \in Tasks /\ (v[2] = t => v = D(t) \/ v = U(t))
    BY WorkerTypes DEF D, U
  <2>2. CASE v[2] # t
    <3>1. pc'[v] = pc[v] /\ row'[v[2]] = row[v[2]] /\ \A p \in Recorded(row[v[2]]) : store'[p] = store[p]
      BY <2>1, <2>2, StoreApart DEF OtherRows
    <3> QED BY <3>1, KnowsStay
  <2>3. CASE v[2] = t /\ pc'[v] \notin KnowingLabels
    BY <2>3, KnowsNothing
  <2>4. CASE v[2] = t /\ UNCHANGED <<pc, store>> /\ Named(row'[t], row[t])
    BY <2>4, KnowsStay DEF Named
  <2> QED BY <2>1, <2>2, <2>3, <2>4
<1> QED BY <1>1, <1>2 DEF KeptInv

\* The end of a cancelled task: nothing of its own is left to record.
LEMMA EndsKept ==
    ASSUME RInv, Roles, NEW t \in Tasks, NEW r, r.lpath = row[t].lpath, row'[t].state = "cancelled",
           EndedBy(t, r), row'[t] # r, cancelling'[t] = "idle",
           \A p \in Paths : store'[p].by = t => p \in retained'
    PROVE  KeptTask(t)'
<1>1. FitsCopy(row[t], pc[D(t)], pc[U(t)], file[t], part[t])
  BY DEF Roles, Role, RoleOf
<1>2. part'[t] = "absent" /\ file'[t] # "whole"
  BY <1>1 DEF EndedBy, FitsCopy
<1>3. OnRecord(t)' /\ Purged(t)' /\ Stored(t)' /\ Emptied(t)'
  BY <1>2 DEF OnRecord, Purged, Stored, Emptied
<1> QED BY <1>3 DEF KeptTask

LEMMA SettledKept ==
    ASSUME RInv, Roles, NameInv, KeptInv, NEW t \in Tasks, NEW r \in Row, Named(r, row[t]), r.state = row[t].state,
           r.lpath = row[t].lpath, SettledBy(t, r), UNCHANGED <<retained, store, pc>>,
           pc[D(t)] \notin KnowingLabels, pc[U(t)] \notin KnowingLabels
    PROVE  KeptInv'
<1>1. OtherRows(t) /\ StoreOf(t) /\ FilesOf(t)
  BY KeepStore DEF SettledBy, OtherRows, FilesOf
<1>2. KeptTask(t) /\ Recorded(r) = Recorded(row[t])
  BY DEF KeptInv, Recorded, Named
<1>3. CASE /\ row'[t].state = r.state /\ Named(row'[t], r) /\ cancelling'[t] = "idle"
           /\ part'[t] \in {part[t], "absent"} /\ file'[t] \in {file[t], "absent"}
  <2>1. Named(row'[t], row[t])
    BY <1>3 DEF Named
  <2>2. KeptTask(t)'
    BY <1>3, <2>1, StayKept
  <2> QED BY <1>1, <2>2, QuietKept
<1>4. CASE EndedBy(t, r) /\ row'[t] # r /\ Recorded(r) = {} /\ cancelling'[t] = "idle"
  <2>1. row'[t].state = "cancelled" /\ \A p \in Paths : store'[p].by = t => p \in retained'
    BY <1>2, <1>4 DEF EndedBy, KeptTask, OnRecord
  <2>2. KeptTask(t)'
    BY <1>4, <2>1, EndsKept
  <2> QED BY <1>1, <2>2, QuietKept
<1>5. CASE row'[t] = r /\ purge'[t] = Recorded(r) /\ UNCHANGED <<file, part>>
  <2>1. KeptTask(t)'
    BY <1>2, <1>5 DEF KeptTask, OnRecord, Purged, Stored, Emptied, Recorded, Named
  <2> QED BY <1>1, <2>1, QuietKept
<1>6. Named(r, r)
  BY DEF Named
<1> QED BY <1>3, <1>4, <1>5, <1>6 DEF SettledBy, EndedBy, Named

LEMMA CancelAskKept ==
    ASSUME RInv, Roles, NameInv, KeptInv, NoticesYield, Undisturbed, NEW t \in Tasks, CancelAsk(t)
    PROVE  KeptInv'
<1> DEFINE asked == [row[t] EXCEPT !.cancel = TRUE]
           used == [spent EXCEPT !["cancel"] = @ + 1]
           w == IF Active(D(t)) THEN D(t) ELSE U(t)
<1>1. /\ row \in [Tasks -> Row] /\ cancelling \in [Tasks -> {"idle", "asked", "purging"}]
      /\ pc \in [Workers -> Labels] /\ part \in [Tasks -> {"absent", "partial", "whole"}]
      /\ row[t].state \notin Ended /\ Role(t)
  BY DEF RInv, TInv, TypeOK, CancelAsk, Roles
<1>0. pc[D(t)] # "notify" /\ pc[U(t)] # "notify"
  BY NoNotice, Pair DEF CancelAsk, Spend
<1>2. asked \in Row /\ Named(asked, row[t]) /\ asked.state = row[t].state /\ asked.lpath = row[t].lpath
  <2>1. row[t] \in Row
    BY <1>1
  <2> QED BY <2>1 DEF Row, Named
<1>3. \/ CancelRunning(t, asked, used) /\ UNCHANGED <<retained, job>>
      \/ /\ ~ Active(D(t)) /\ ~ Active(U(t)) /\ SettleCancel(t, asked, used)
         /\ UNCHANGED <<retained, store, pc, job, lock>>
  BY DEF CancelAsk
<1>4. CASE /\ ~ Active(D(t)) /\ ~ Active(U(t)) /\ SettleCancel(t, asked, used)
           /\ UNCHANGED <<retained, store, pc, job, lock>>
  <2> HIDE DEF asked, used
  <2>1. SettledBy(t, asked)
    BY <1>2, <1>4, SettleCancelEffect
  <2>2. pc[D(t)] \notin KnowingLabels /\ pc[U(t)] \notin KnowingLabels
    BY <1>4 DEF Active, KnowingLabels
  <2> QED BY <1>2, <1>4, <2>1, <2>2, SettledKept
<1>5. CASE CancelRunning(t, asked, used) /\ UNCHANGED <<retained, job>>
  <2> DEFINE q == Interrupted(w, asked)
             p == PartInterrupted(w, asked)
  <2>1. /\ Put(t, q) /\ store' \in {store, Landed({w})} /\ UNCHANGED <<file, purge>>
        /\ part' = [part EXCEPT ![t] = p]
        /\ Goto(w, "idle") /\ cancelling' = [cancelling EXCEPT ![t] = "asked"]
    BY <1>5 DEF CancelRunning
  <2>2. w \in Workers /\ w[2] = t /\ (w = D(t) \/ w = U(t))
    BY Pair
  <2>3. Kin(q, asked) /\ q.state \in {asked.state, "waiting_upload", "queued"}
    <3> HIDE DEF w, asked
    <3> QED BY <1>2, InterruptedFacts
  <2>4. \A v \in {D(t), U(t)} \ {w} : pc[v] \in {"idle", "start"}
    BY <1>0, <1>1, Pair DEF Active, Role, RoleOf, Downloading
  <2> HIDE DEF w, asked, q, p
  <2>5. Named(q, row[t]) /\ q.state \notin Done
    BY <1>1, <1>2, <2>3 DEF Kin, Twin, Named, Done, Ended
  <2>6. /\ row'[t] = q /\ cancelling'[t] = "asked" /\ OtherRows(t) /\ FilesOf(t) /\ pc'[w] = "idle"
        /\ \A v \in Workers \ {w} : pc'[v] = pc[v]
    BY <1>1, <2>1, <2>2 DEF Put, Goto, OtherRows, FilesOf
  <2>7. StoreOf(t)
    BY <2>1, <2>2, LandedOne
  <2>8. KeptTask(t)'
    <3>1. Recorded(row'[t]) = Recorded(row[t])
      BY <2>5, <2>6 DEF Named, Recorded
    <3>2. \A x \in Paths : store'[x].by = t => store[x].by = t \/ x \in Recorded(row[t])
      BY <2>7 DEF StoreOf
    <3> QED BY <1>5, <2>5, <2>6, <3>1, <3>2, OwnKept
  <2>9. pc'[D(t)] \notin KnowingLabels /\ pc'[U(t)] \notin KnowingLabels
    BY <2>2, <2>4, <2>6, Pair DEF KnowingLabels
  <2> QED BY <1>5, <2>2, <2>6, <2>7, <2>8, <2>9, QuietKept
<1> QED BY <1>3, <1>4, <1>5

LEMMA CancelStepKept ==
    ASSUME RInv, Roles, NameInv, KeptInv, NEW t \in Tasks, CancelStep(t)
    PROVE  KeptInv'
<1>1. /\ row \in [Tasks -> Row] /\ cancelling \in [Tasks -> {"idle", "asked", "purging"}]
      /\ purge \in [Tasks -> SUBSET Paths] /\ row[t] \in Row /\ Listed(t, row[t], cancelling[t], purge[t])
      /\ store \in [Paths -> [by : Owners, whole : BOOLEAN]]
      /\ Role(t) /\ UNCHANGED <<pc, retained>> /\ cancelling[t] # "idle" /\ KeptTask(t)
  BY DEF RInv, TInv, TypeOK, Roles, NameInv, Listing, CancelStep, CancelSettle, CancelPurge, CancelPurgeFails, KeptInv
<1>2. pc[D(t)] \notin KnowingLabels /\ pc[U(t)] \notin KnowingLabels
  BY <1>1 DEF Role, RoleOf, Cancelled, KnowingLabels
<1>3. CASE CancelSettle(t)
  <2>1. SettledBy(t, row[t]) /\ UNCHANGED store
    BY <1>1, <1>3, SettleCancelEffect DEF CancelSettle
  <2> QED BY <1>1, <1>2, <2>1, SettledKept DEF Named
<1>4. CASE CancelPurge(t)
  <2>1. PICK p \in purge[t] :
          /\ store' = [store EXCEPT ![p] = Absent]
          /\ purge' = [purge EXCEPT ![t] = @ \ {p}]
          /\ \/ /\ EndCancel(t, row[t], spent) /\ cancelling' = [cancelling EXCEPT ![t] = "idle"]
                /\ purge[t] = {p}
             \/ UNCHANGED <<row, files, cancelling>>
    BY <1>4 DEF CancelPurge
  <2>2. p \in Recorded(row[t]) /\ cancelling[t] = "purging" /\ p \in Paths
    BY <1>1, <1>4, <2>1 DEF Listed, CancelPurge
  <2>3. StoreOf(t)
    BY <2>1, <2>2, WriteOwn
  <2>4. \A x \in Recorded(row[t]) \ purge'[t] : store'[x] = Absent
    BY <1>1, <2>1, <2>2 DEF KeptTask, Purged
  <2>5. \A x \in Paths : store'[x].by = t => store[x].by = t /\ x # p
    BY <1>1, <2>1, <2>2, PipelineAssumption DEF Absent
  <2>6. row[t].state \notin Done /\ row[t].state \notin Ended
    BY <1>1, <2>2 DEF Role, RoleOf, Cancelled, Done, Ended
  <2>7. CASE EndCancel(t, row[t], spent) /\ cancelling' = [cancelling EXCEPT ![t] = "idle"] /\ purge[t] = {p}
    <3>1. EndedBy(t, row[t]) /\ cancelling'[t] = "idle" /\ purge'[t] = {}
      BY <1>1, <2>1, <2>7, EndCancelEffect
    <3>2. OtherRows(t) /\ FilesOf(t)
      BY <1>1, <2>1, <2>7, <3>1 DEF EndedBy, OtherRows, FilesOf
    <3>3. \A x \in Paths : store'[x].by = t => x \in retained' /\ x \in retained
      <4>1. \A x \in Recorded(row[t]) : store'[x].by # t
        BY <2>4, <3>1, PipelineAssumption DEF Absent
      <4> QED BY <1>1, <2>5, <4>1 DEF KeptTask, OnRecord
    <3>4. KeptTask(t)'
      <4>1. CASE row'[t] = row[t]
        BY <1>1, <2>5, <2>6, <3>1, <3>3, <4>1, OwnKept
      <4>2. CASE row'[t] # row[t]
        BY <3>1, <3>3, <4>2, EndsKept DEF EndedBy
      <4> QED BY <4>1, <4>2
    <3> QED BY <1>1, <1>2, <2>3, <3>2, <3>4, QuietKept
  <2>8. CASE UNCHANGED <<row, files, cancelling>>
    <3>1. OtherRows(t) /\ FilesOf(t)
      BY <1>1, <2>1, <2>8 DEF OtherRows, FilesOf, files
    <3>2. OnRecord(t)' /\ Purged(t)'
      BY <1>1, <2>4, <2>5, <2>8 DEF KeptTask, OnRecord, Purged, Recorded
    <3>3. Stored(t)' /\ Emptied(t)'
      BY <2>6, <2>8 DEF Stored, Emptied, Done
    <3> QED BY <1>1, <1>2, <2>3, <3>1, <3>2, <3>3, QuietKept DEF KeptTask
  <2> QED BY <2>1, <2>7, <2>8
<1>5. CASE CancelPurgeFails(t)
  <2>1. cancelling'[t] = "idle" /\ UNCHANGED <<row, store, files>> /\ OtherRows(t) /\ FilesOf(t)
    BY <1>1, <1>5 DEF CancelPurgeFails, OtherRows, FilesOf, files
  <2>2. KeptTask(t)'
    BY <1>1, <2>1, StayKept DEF Named, files
  <2> QED BY <1>1, <1>2, <2>1, <2>2, KeepStore, QuietKept
<1> QED BY <1>3, <1>4, <1>5 DEF CancelStep

-------------------------------------------------------------------------------
(* What is kept through commands, the world outside and restarts *)

LEMMA RetryKept ==
    ASSUME RInv, Roles, NameInv, KeptInv, NEW t \in Tasks, Retry(t)
    PROVE  KeptInv'
<1> DEFINE asked == [row[t] EXCEPT !.cancel = FALSE]
           r == IF row[t].cancel THEN Recovered(t, asked, {}) ELSE row[t]
           q == row'[t]
<1>1. /\ Rests(t) /\ RowOnly(t) /\ UNCHANGED <<retained, store>>
      /\ r \in Row /\ asked \in Row /\ row[t] \in Row
      /\ q = r \/ q = Requeued(t, r)
      /\ part'[t] = IF row[t].cancel THEN PartRecovered(t, asked, part[t], {}) ELSE part[t]
  BY RetryEffect, Pair
<1>2. part'[t] \in {part[t], "absent"}
  BY <1>1 DEF PartRecovered
<1>3. Named(asked, row[t]) /\ asked.state = row[t].state
  BY <1>1 DEF Named, Row
<1>4. Named(r, row[t]) /\ (r.state = row[t].state \/ r.state \in Plain)
  <2>1. LET x == Recovered(t, asked, {}) IN Twin(x, asked) /\ (x = asked \/ x.state \in Plain)
    <3> HIDE DEF asked
    <3> QED BY <1>1, RecoveredFacts DEF Plain
  <2> HIDE DEF asked
  <2> QED BY <1>3, <2>1 DEF Named, Twin
<1> HIDE DEF r
<1>5. /\ OtherRows(t) /\ FilesOf(t) /\ StoreOf(t) /\ cancelling'[t] = "idle" /\ UNCHANGED pc
      /\ pc'[D(t)] \notin KnowingLabels /\ pc'[U(t)] \notin KnowingLabels /\ file'[t] = file[t]
  BY <1>1, KeepStore DEF RowOnly, OtherRows, FilesOf, Rests, KnowingLabels
<1>6. KeptTask(t)'
  <2>1. CASE q = r
    BY <1>1, <1>2, <1>4, <1>5, <2>1, StayKept DEF Plain
  <2>2. CASE q = Requeued(t, r)
    <3>1. q.temp = row[t].temp /\ q.final = row[t].final /\ q.rpath = row[t].rpath /\ q.state \notin Done
      BY <1>1, <1>4, <2>2, RequeuedFacts DEF Named, Done
    <3>2. Recorded(q) = Recorded(row[t])
      BY <3>1 DEF Recorded
    <3> QED BY <1>1, <1>5, <3>1, <3>2, OwnKept
  <2> QED BY <1>1, <2>1, <2>2
<1> QED BY <1>1, <1>5, <1>6, QuietKept

LEMMA RecoverFreshKept ==
    ASSUME RInv, Roles, NameInv, KeptInv, NEW t \in Tasks, RecoverFresh(t)
    PROVE  KeptInv'
<1>1. /\ Rests(t) /\ RowOnly(t) /\ UNCHANGED store
      /\ retained' = retained \cup Recorded(row[t])
      /\ row'[t].state \in {"waiting_upload", "queued"}
  BY RecoverFreshEffect
<1>2. /\ OtherRows(t) /\ FilesOf(t) /\ StoreOf(t) /\ cancelling'[t] = "idle" /\ UNCHANGED pc
      /\ pc'[D(t)] \notin KnowingLabels /\ pc'[U(t)] \notin KnowingLabels
  BY <1>1, KeepStore DEF RowOnly, OtherRows, FilesOf, Rests, KnowingLabels
<1>3. KeptTask(t)'
  BY <1>1, <1>2, OwnKept DEF Done
<1> QED BY <1>1, <1>2, <1>3, QuietKept

LEMMA NoteKept ==
    ASSUME RInv, Roles, NameInv, KeptInv, NEW t \in Tasks, RequestStream(t) \/ Confirm(t)
    PROVE  KeptInv'
<1> DEFINE streamed == [row[t] EXCEPT !.state = "queued", !.mode = "stream", !.dtries = 0, !.utries = 0]
           confirmed == [row[t] EXCEPT !.state = "confirmed"]
<1>1. row \in [Tasks -> Row] /\ row[t] \in Row
  BY DEF RInv, TInv, TypeOK
<1>2. /\ Named(streamed, row[t]) /\ streamed.state = "queued"
      /\ Named(confirmed, row[t]) /\ confirmed.state = "confirmed"
  BY <1>1 DEF Row, Named
<1>3. /\ UNCHANGED <<retained, files, store, pc, cancelling, purge>>
      /\ Put(t, streamed) \/ (row[t].state = "completed" /\ Put(t, confirmed))
  BY DEF RequestStream, Confirm, commands
<1> HIDE DEF streamed, confirmed
<1>4. /\ Named(row'[t], row[t])
      /\ row'[t].state = "queued" \/ (row'[t].state = "confirmed" /\ row[t].state = "completed")
  BY <1>1, <1>2, <1>3 DEF Put
<1>5. OtherRows(t) /\ FilesOf(t) /\ StoreOf(t)
  BY <1>1, <1>3, KeepStore DEF OtherRows, FilesOf, Put, files
<1>6. KeptTask(t)'
  BY <1>3, <1>4, StayKept DEF files
<1> QED BY <1>3, <1>4, <1>5, <1>6, QuietKept

LEMMA OutsideKept ==
    ASSUME RInv, Roles, NameInv, KeptInv, NEW t \in Tasks, LoseFile(t) \/ Drift(t)
    PROVE  KeptInv'
<1>1. /\ UNCHANGED <<row, retained, part, pc, cancelling, purge>> /\ OtherRows(t) /\ Named(row'[t], row[t])
      /\ row[t] \in Row /\ file \in [Tasks -> {"absent", "short", "whole"}] /\ Role(t)
      /\ cancelling[t] \in {"idle", "asked", "purging"}
  BY DEF LoseFile, Drift, files, commands, OtherRows, Named, RInv, TInv, TypeOK, Roles
<1>2. CASE LoseFile(t)
  <2>1. UNCHANGED store /\ FilesOf(t) /\ file'[t] # "whole"
    BY <1>1, <1>2 DEF LoseFile, FilesOf
  <2>2. KeptTask(t)'
    BY <1>1, <2>1, StayKept
  <2> QED BY <1>1, <2>1, <2>2, KeepStore, QuietKept
<1>3. CASE Drift(t)
  <2>1. PICK left \in {Absent, Object(t, FALSE)} : store' = [store EXCEPT ![row[t].rpath] = left]
    BY <1>3 DEF Drift
  <2>2. row[t].rpath \in Recorded(row[t]) /\ row[t].state = "cleanup_pending" /\ UNCHANGED files
    BY <1>3, Recorded3 DEF Drift, Exists
  <2>3. left = Absent \/ left.by = t
    BY DEF Object
  <2>4. StoreOf(t) /\ FilesOf(t)
    BY <2>1, <2>2, <2>3, WriteOwn DEF FilesOf, files
  <2>5. cancelling'[t] # "purging" /\ row'[t].state \notin Done
    BY <1>1, <2>2 DEF Role, RoleOf, Cancelled, Ended, Done
  <2>6. \A x \in Paths : store'[x].by = t => store[x].by = t \/ x \in Recorded(row[t])
    BY <2>4 DEF StoreOf
  <2>7. KeptTask(t)'
    BY <1>1, <2>5, <2>6, OwnKept
  <2>8. pc'[D(t)] \notin KnowingLabels /\ pc'[U(t)] \notin KnowingLabels
    BY <1>1, <1>3 DEF Drift, Active, KnowingLabels
  <2> QED BY <1>1, <2>4, <2>7, <2>8, QuietKept
<1> QED BY <1>2, <1>3

\* What the calls cut short have done, a task that had none of them running does
\* not notice, and the others have it on record.
LEMMA LandedKept ==
    ASSUME RInv, Roles, NameInv, KeptInv, NEW ws \in SUBSET Workers, store' = Landed(ws), UNCHANGED <<retained, file>>,
           NEW t \in Tasks, Named(row'[t], row[t]), row'[t].state = row[t].state \/ row'[t].state \in Plain,
           part'[t] \in {part[t], "absent"}, cancelling'[t] \in {"idle", cancelling[t]},
           cancelling'[t] = "purging" => purge'[t] = purge[t]
    PROVE  KeptTask(t)'
<1> DEFINE cut == {w \in ws : pc[w] \in {"move", "writing"}}
<1>1. ASSUME NEW w \in cut
      PROVE  w[2] \in Tasks /\ row[w[2]].state \notin Done /\ cancelling[w[2]] = "idle"
  <2>1. w \in Workers /\ Remotely(w)
    BY <1>1 DEF Remotely, Remote, Finishing
  <2> QED BY <2>1, RemotelyRuns, WorkerTypes
<1>2. ASSUME NEW p \in Paths
      PROVE  \/ store'[p] = store[p]
             \/ \E w \in cut : p \in Recorded(row[w[2]]) /\ (store'[p] = Absent \/ store'[p].by = w[2])
  <2>1. \/ Landed(ws)[p] = store[p]
        \/ \E w \in ws : /\ pc[w] \in {"move", "writing"} /\ p \in Recorded(row[w[2]])
                         /\ Landed(ws)[p] = Absent \/ Landed(ws)[p].by = w[2]
    BY LandedCut
  <2>2. store'[p] = Landed(ws)[p]
    OBVIOUS
  <2> QED BY <2>1, <2>2
<1> HIDE DEF cut
<1>3. Recorded(row'[t]) = Recorded(row[t])
  BY DEF Named, Recorded
<1>4. CASE \A w \in cut : w[2] # t
  <2>1. ASSUME NEW p \in Recorded(row[t])
        PROVE  store'[p] = store[p]
    <3>1. p \in Paths /\ \A u \in Tasks \ {t} : p \notin Recorded(row[u])
      BY <2>1, RecordedNames, RecordedApart DEF NameInv
    <3> QED BY <1>1, <1>2, <1>4, <3>1
  <2>2. \A p \in Paths : store'[p].by = t => store[p].by = t
    BY <1>1, <1>2, <1>4, PipelineAssumption DEF Absent
  <2> QED BY <2>1, <2>2, StayKept DEF Plain
<1>5. CASE \E w \in cut : w[2] = t
  <2>1. row'[t].state \notin Done /\ cancelling'[t] # "purging"
    BY <1>1, <1>5 DEF Plain, Done
  <2>2. \A p \in Paths : store'[p].by = t => store[p].by = t \/ p \in Recorded(row[t])
    BY <1>1, <1>2, PipelineAssumption DEF Absent
  <2> QED BY <1>3, <2>1, <2>2, OwnKept
<1> QED BY <1>4, <1>5

\* What the next process finds, whatever the calls of the last one did.
LEMMA RestartKept ==
    ASSUME RInv, Roles, NameInv, KeptInv, NEW rows, NEW parts, Restart(rows, parts),
           \A t \in Tasks : /\ rows[t] \in Row /\ Named(rows[t], row[t])
                            /\ rows[t].state = row[t].state \/ rows[t].state \in Plain
                            /\ parts[t] \in {part[t], "absent"}
    PROVE  KeptInv'
<1>1. PICK stuck : /\ row' = [t \in Tasks |-> Recovered(t, rows[t], stuck)]
                   /\ part' = [t \in Tasks |-> PartRecovered(t, rows[t], parts[t], stuck)]
  BY DEF Restart
<1>2. PICK ws \in SUBSET {w \in Workers : pc[w] \in {"move", "writing"}} : store' = Landed(ws)
  BY DEF Restart
<1>3. /\ \A w \in Workers : pc'[w] = "idle"
      /\ \A t \in Tasks : cancelling'[t] = "idle"
      /\ UNCHANGED <<retained, file>>
  BY DEF Restart
<1>4. ws \in SUBSET Workers
  BY <1>2
<1>5. ASSUME NEW t \in Tasks
      PROVE  KeptTask(t)'
  <2> DEFINE q == Recovered(t, rows[t], stuck)
  <2>1. Twin(q, rows[t]) /\ (q = rows[t] \/ q.state \in Plain)
    BY RecoveredFacts DEF Plain
  <2>2. row'[t] = q /\ part'[t] \in {part[t], "absent"}
    BY <1>1 DEF PartRecovered
  <2> HIDE DEF q
  <2>3. Named(row'[t], row[t]) /\ (row'[t].state = row[t].state \/ row'[t].state \in Plain)
    BY <2>1, <2>2 DEF Twin, Named
  <2> QED BY <1>2, <1>3, <1>4, <2>2, <2>3, LandedKept
<1>6. \A v \in Workers : Knows(v)'
  BY <1>3, KnowsNothing DEF KnowingLabels
<1> QED BY <1>5, <1>6 DEF KeptInv

\* The emergency ends the downloads; what the uploads rely on stays.
LEMMA DiskEmergencyKept ==
    ASSUME RInv, Roles, NameInv, KeptInv, DiskEmergency
    PROVE  KeptInv'
<1>1. PICK ws \in SUBSET {D(t) : t \in Tasks} : store' = Landed(ws)
  BY DEF DiskEmergency
<1>2. ws \in SUBSET Workers /\ UNCHANGED <<retained, file, cancelling, purge>>
  BY <1>1, Pair DEF DiskEmergency, commands
<1>3. ASSUME NEW t \in Tasks
      PROVE  Named(row'[t], row[t]) /\ KeptTask(t)'
  <2> DEFINE q == Interrupted(D(t), row[t])
  <2>1. row[t] \in Row
    BY DEF RInv, TInv, TypeOK
  <2>2. Kin(q, row[t]) /\ (q = row[t] \/ q.state \in Plain)
    BY <2>1, InterruptedFacts DEF Plain
  <2>3. row'[t] = q /\ part'[t] \in {part[t], "absent"}
    BY Pair DEF DiskEmergency, PartInterrupted
  <2> HIDE DEF q
  <2>4. Named(row'[t], row[t]) /\ (row'[t].state = row[t].state \/ row'[t].state \in Plain)
    BY <2>2, <2>3 DEF Kin, Twin, Named
  <2> QED BY <1>1, <1>2, <2>3, <2>4, LandedKept
<1>4. ASSUME NEW v \in Workers
      PROVE  Knows(v)'
  <2>1. v[2] \in Tasks /\ (v = D(v[2]) \/ v = U(v[2]))
    BY WorkerTypes DEF D, U
  <2>2. CASE v[1] = "download"
    <3>1. pc'[v] = "idle"
      BY <2>2 DEF DiskEmergency
    <3> QED BY <3>1, KnowsNothing DEF KnowingLabels
  <2>3. CASE v[1] # "download" /\ pc[v] \notin KnowingLabels
    <3>1. pc'[v] = pc[v]
      BY <2>3 DEF DiskEmergency
    <3> QED BY <2>3, <3>1, KnowsNothing
  <2>4. CASE v[1] # "download" /\ pc[v] \in KnowingLabels
    <3> DEFINE t == v[2]
    <3>1. pc'[v] = pc[v] /\ v = U(t) /\ t \in Tasks
      BY <2>1, <2>4 DEF DiskEmergency, D
    <3> HIDE DEF t
    <3>2. pc[D(t)] \in {"idle", "notify"}
      BY <2>4, <3>1, KnowsAlone
    <3>3. ASSUME NEW p \in Recorded(row[t])
          PROVE  store'[p] = store[p]
      <4>1. p \in Paths /\ \A u \in Tasks \ {t} : p \notin Recorded(row[u])
        BY <3>1, <3>3, RecordedNames, RecordedApart DEF NameInv
      <4>2. \A w \in ws : w[2] \in Tasks /\ w = D(w[2])
        BY <1>1, Pair
      <4>3. \/ Landed(ws)[p] = store[p]
            \/ \E w \in ws : /\ pc[w] \in {"move", "writing"} /\ p \in Recorded(row[w[2]])
                             /\ Landed(ws)[p] = Absent \/ Landed(ws)[p].by = w[2]
        BY <1>2, <4>1, LandedCut
      <4> QED BY <1>1, <3>2, <4>1, <4>2, <4>3
    <3> QED BY <1>3, <3>1, <3>3, KnowsStay DEF Named, t
  <2> QED BY <2>2, <2>3, <2>4
<1> QED BY <1>3, <1>4 DEF KeptInv

LEMMA RestartedKept ==
    ASSUME RInv, Roles, NameInv, KeptInv, Crash \/ Stop
    PROVE  KeptInv'
<1> DEFINE rows == [t \in Tasks |-> Interrupted(U(t), Interrupted(D(t), row[t]))]
           parts == [t \in Tasks |-> PartInterrupted(D(t), row[t])]
<1>1. \A t \in Tasks : row[t] \in Row
  BY DEF RInv, TInv, TypeOK
<1>2. CASE Crash
  BY <1>1, <1>2, RestartKept DEF Crash, Named
<1>3. CASE Stop
  <2>1. ASSUME NEW t \in Tasks
        PROVE  /\ rows[t] \in Row /\ Named(rows[t], row[t])
               /\ rows[t].state = row[t].state \/ rows[t].state \in Plain
               /\ parts[t] \in {part[t], "absent"}
    <3> DEFINE d == Interrupted(D(t), row[t])
               u == Interrupted(U(t), d)
    <3>1. TInv /\ row[t] \in Row /\ D(t) \in Workers /\ U(t) \in Workers /\ D(t)[2] = t
      BY Pair DEF RInv
    <3>2. d \in Row /\ u \in Row
      BY <3>1, InterruptedType
    <3>3. Kin(d, row[t]) /\ (d = row[t] \/ d.state \in Plain)
      BY <3>1, InterruptedFacts DEF Plain
    <3> HIDE DEF d
    <3>4. Kin(u, d) /\ (u = d \/ u.state \in Plain)
      BY <3>2, InterruptedFacts DEF Plain
    <3>5. rows[t] = u
      BY DEF d
    <3>6. parts[t] \in {part[t], "absent"}
      BY <3>1 DEF PartInterrupted
    <3> HIDE DEF u, rows, parts
    <3> QED BY <3>2, <3>3, <3>4, <3>5, <3>6 DEF Kin, Twin, Named
  <2>2. Restart(rows, parts)
    BY <1>3 DEF Stop
  <2> HIDE DEF rows, parts
  <2> QED BY <2>1, <2>2, RestartKept
<1> QED BY <1>2, <1>3

-------------------------------------------------------------------------------
(* Contents are kept *)

LEMMA NextKept ==
    ASSUME RInv, Roles, NameInv, KeptInv, NoticesYield, Undisturbed, Next
    PROVE  KeptInv'
<1>1. ASSUME NEW t \in Tasks, CancelStep(t) \/ Command(t) \/ LoseFile(t) \/ Drift(t)
      PROVE  KeptInv'
  BY <1>1, CancelStepKept, CancelAskKept, RetryKept, RecoverFreshKept, NoteKept, OutsideKept DEF Command
<1> QED BY <1>1, NextSplit, LocalKept, UploadKept, RemoteKept, CleaningKept, RestartedKept,
             DiskEmergencyKept

LEMMA InitKept == Init => KeptInv
<1> SUFFICES ASSUME Init PROVE KeptInv
  OBVIOUS
<1>1. ASSUME NEW t \in Tasks
      PROVE  KeptTask(t)
  <2>1. row[t].state = "queued" /\ cancelling[t] = "idle"
    BY DEF Init, NewRow
  <2>2. \A p \in Paths : store[p].by # t
    BY PipelineAssumption DEF Init, Absent, Object
  <2> QED BY <2>1, <2>2 DEF KeptTask, OnRecord, Purged, Stored, Emptied
<1>2. \A w \in Workers : Knows(w)
  BY DEF Init, Knows
<1> QED BY <1>1, <1>2 DEF KeptInv

\* What the rows and the coroutines rely on is there, on both sides: the objects
\* of a task stand under the names it has on record, those of a received task
\* are whole, and a cancelled task has no copy left.
THEOREM ContentsAreKept ==
    ASSUME Undisturbed
    PROVE  Spec => [](RInv /\ NoticesYield /\ Roles /\ NameInv /\ KeptInv)
<1>1. RInv /\ NoticesYield /\ Roles /\ NameInv /\ KeptInv /\ [Next]_vars => KeptInv'
  <2>1. CASE UNCHANGED vars
    BY <2>1 DEF vars, KeptInv, KeptTask, OnRecord, Purged, Stored, Emptied, Knows, Exists, Recorded
  <2> QED BY <2>1, NextKept
<1> QED BY <1>1, InitKept, NamesAreKept, PTL DEF Spec

\* A task that _complete_cloud_receive has reported as received has its own
\* whole object under the recorded path, and keeps it: nothing that other tasks,
\* /cancel, a recovery or the next process does touches it any more.
THEOREM ReceivedIsStored ==
    ASSUME Undisturbed
    PROVE  Spec => []CompletedIsStored
<1>1. NameInv /\ KeptInv => CompletedIsStored
  <2> SUFFICES ASSUME NameInv, KeptInv, NEW t \in Tasks, row[t].state \in {"completed", "confirmed"}
               PROVE  row[t].rpath # NoPath /\ store[row[t].rpath] = Object(t, TRUE)
    BY DEF CompletedIsStored
  <2>1. row[t].final # NoPath /\ row[t].rpath = row[t].final
    BY DEF NameInv, Listing, Listed, Received
  <2>2. store[row[t].final] = Object(t, TRUE)
    BY DEF KeptInv, KeptTask, Stored
  <2> QED BY <2>1, <2>2
<1> QED BY <1>1, ContentsAreKept, PTL

\* A cancelled task has left nothing behind, neither in the download directory
\* nor under any remote name but those an earlier recovery retained (cancel_task
\* removes what is recorded, and nothing of the task lies anywhere else).
THEOREM CancelledLeavesNothing ==
    ASSUME Undisturbed
    PROVE  Spec => []CancelledIsClean
<1>1. NameInv /\ KeptInv => CancelledIsClean
  <2> SUFFICES ASSUME NameInv, KeptInv, NEW t \in Tasks, row[t].state = "cancelled"
               PROVE  /\ part[t] = "absent" /\ file[t] # "whole"
                      /\ \A p \in Paths \ retained : store[p].by # t
    BY DEF CancelledIsClean
  <2>1. Recorded(row[t]) = {}
    BY DEF NameInv, Listing, Listed
  <2>2. OnRecord(t) /\ Emptied(t)
    BY DEF KeptInv, KeptTask
  <2> QED BY <2>1, <2>2 DEF OnRecord, Emptied
<1> QED BY <1>1, ContentsAreKept, PTL

\* The finished local file goes only by a user's cancellation, by the hand of
\* somebody else, or while the task's own whole object stands under the path of
\* the receipt (_complete_cloud_receive records the receipt before it unlinks).
THEOREM ReceiptComesFirst ==
    ASSUME Undisturbed
    PROVE  Spec => ReceiptBeforeRemoval
<1> DEFINE Sure ==
             \A t \in Tasks :
                file[t] = "whole" /\ file'[t] # "whole" =>
                   \/ spent'["loss"] > spent["loss"]
                   \/ row[t].cancel \/ spent'["cancel"] > spent["cancel"]
                   \/ /\ row[t].state = "cleanup_pending" /\ row[t].verified
                      /\ row[t].rpath # NoPath
                      /\ store[row[t].rpath] = Object(t, TRUE)
<1>1. RInv /\ Roles /\ NameInv /\ KeptInv /\ [Next]_vars => [Sure]_vars
  <2> SUFFICES ASSUME RInv, NameInv, KeptInv, Next PROVE Sure
    BY DEF vars
  <2>1. CASE QuietStep
    BY <2>1 DEF QuietStep
  <2>2. ASSUME NEW w \in Workers, WorkerStep(w)
        PROVE  Sure
    <3> SUFFICES ASSUME NEW t \in Tasks, file[t] = "whole", file'[t] # "whole"
                 PROVE  /\ row[t].state = "cleanup_pending" /\ row[t].verified
                        /\ row[t].rpath # NoPath /\ store[row[t].rpath] = Object(t, TRUE)
      OBVIOUS
    <3>1. pc[w] = "receipt" /\ w[2] = t
      BY <2>2 DEF WorkerStep, WorldStep
    <3>2. row[t].state = "cleanup_pending" /\ row[t].verified
      BY <3>1 DEF RInv, ReceiptHeld
    <3>3. row[t].final # NoPath /\ row[t].rpath = row[t].final
      BY <3>2 DEF NameInv, Listing, Listed, Received
    <3>4. store[row[t].final] = Object(t, TRUE)
      BY <3>1 DEF KeptInv, Knows
    <3> QED BY <3>2, <3>3, <3>4
  <2> QED BY <2>1, <2>2, NextCases
<1> QED BY <1>1, ContentsAreKept, PTL DEF Spec, ReceiptBeforeRemoval

-------------------------------------------------------------------------------
(* Who attends to a task in flight *)

InFlight == {"reserved", "downloading", "streaming", "uploading", "verifying", "finalizing"}

\* Kinds that keep TaskDB.recover away from a row.
Barring == {"refused", "conflict"}
Running == InFlight \cup {"downloaded", "waiting_upload", "cleanup_pending"}

\* A row in flight has a coroutine that does more than look at it or report it.
Attended(t) ==
    row[t].state \in InFlight /\ ~ row[t].cancel =>
       pc[D(t)] \notin {"idle", "notify"} \/ pc[U(t)] \notin {"idle", "notify", "start"}

\* A row that the next process must take up again carries no kind that bars it.
Clear(t) == row[t].state \in Running => row[t].kind \notin Barring

\* What is being verified or renamed is there.
Stands(t) == Exists(row[t].temp) \/ Exists(row[t].final)
Written(t) == row[t].state \in {"verifying", "finalizing"} /\ ~ row[t].cancel => Stands(t)

\* A stream that writes says so, and who chooses a final name has written.
Streams(t) == pc[D(t)] \in {"write", "writing"} => row[t].state = "streaming"
Naming == {"lock", "exists", "reserved"}
Aboard(t) ==
    (pc[D(t)] \in Naming \/ pc[U(t)] \in Naming) /\ Backend = "clouddrive2" => Exists(row[t].temp)

FlightTask(t) == Attended(t) /\ Clear(t) /\ Written(t) /\ Streams(t) /\ Aboard(t)
FlightInv == \A t \in Tasks : FlightTask(t)

\* What one task does leaves the flight of the others as it is.
LEMMA FlightApart ==
    ASSUME RInv, NameInv, FlightInv, NEW t \in Tasks, OtherRows(t), StoreOf(t),
           \A v \in Workers : v[2] # t => pc'[v] = pc[v], FlightTask(t)'
    PROVE  FlightInv'
<1> SUFFICES ASSUME NEW u \in Tasks \ {t} PROVE FlightTask(u)'
  BY DEF FlightInv
<1>1. /\ FlightTask(u) /\ row'[u] = row[u] /\ pc'[D(u)] = pc[D(u)] /\ pc'[U(u)] = pc[U(u)]
  BY Pair DEF FlightInv, OtherRows
<1>2. /\ Exists(row[u].temp)' <=> Exists(row[u].temp)
      /\ Exists(row[u].final)' <=> Exists(row[u].final)
  BY <1>1, StoreApart, Recorded3 DEF Exists
<1> QED BY <1>1, <1>2 DEF FlightTask, Attended, Clear, Written, Stands, Streams, Aboard

\* The step of a worker of the task.
LEMMA FlightOthers ==
    ASSUME RInv, NameInv, FlightInv, NEW w \in Workers, Others(w), StoreOf(w[2]), FlightTask(w[2])'
    PROVE  FlightInv'
<1>1. w[2] \in Tasks /\ OtherRows(w[2]) /\ \A v \in Workers : v[2] # w[2] => pc'[v] = pc[v]
  BY WorkerTypes DEF Others, OtherRows, commands
<1> QED BY <1>1, FlightApart

-------------------------------------------------------------------------------
(* Flight through the remote half *)

LEMMA RemoteFlies ==
    ASSUME RInv, Roles, NameInv, FlightInv, NEW w \in Workers, Remotely(w), Others(w), StoreOf(w[2]),
           pc'[w] \notin {"idle", "notify", "start"} \/ row'[w[2]].state \notin InFlight,
           row'[w[2]].kind \in {row[w[2]].kind, "none", "transient"} \/ row'[w[2]].state \in FailedStates,
           row'[w[2]].state \in {"verifying", "finalizing"} => Stands(w[2])',
           w[1] = "download" /\ pc'[w] \in {"write", "writing"} => row'[w[2]].state = "streaming",
           pc'[w] \in Naming /\ Backend = "clouddrive2" => Exists(row[w[2]].temp)'
    PROVE  FlightInv'
<1> DEFINE t == w[2]
<1>1. /\ t \in Tasks /\ Peer(w) \in Workers /\ Peer(w) # w /\ pc[Peer(w)] \in {"idle", "notify"}
      /\ \/ w = D(t) /\ Peer(w) = U(t) /\ w[1] = "download"
         \/ w = U(t) /\ Peer(w) = D(t) /\ w[1] = "upload"
      /\ row[t].state \in Running
  BY RemotePeer DEF Running, InFlight
<1>2. pc'[Peer(w)] = pc[Peer(w)] /\ FlightTask(t)
  BY <1>1 DEF Others, FlightInv
<1> HIDE DEF t
<1>3. Clear(t)'
  BY <1>1, <1>2 DEF FlightTask, Clear, Barring, FailedStates, Running, InFlight, t
<1>4. Attended(t)' /\ Written(t)' /\ Streams(t)' /\ Aboard(t)'
  BY <1>1, <1>2 DEF Attended, Written, Streams, Aboard, Naming, t
<1> QED BY <1>3, <1>4, FlightOthers DEF FlightTask, t

\* A step that leaves the row and the objects as they are.
LEMMA PassFlies ==
    ASSUME RInv, Roles, NameInv, FlightInv, NEW w \in Workers, Remotely(w), Others(w), UNCHANGED <<row, store>>,
           pc'[w] \notin {"idle", "notify", "start"},
           w[1] = "download" /\ pc'[w] \in {"write", "writing"} => row[w[2]].state = "streaming",
           pc'[w] \in Naming /\ Backend = "clouddrive2" => Exists(row[w[2]].temp)
    PROVE  FlightInv'
<1>1. w[2] \in Tasks /\ ~ row[w[2]].cancel /\ FlightTask(w[2]) /\ StoreOf(w[2])
  BY RemotePeer, KeepStore DEF FlightInv
<1>2. row[w[2]].state \in {"verifying", "finalizing"} => Stands(w[2])'
  BY <1>1 DEF FlightTask, Written, Stands, Exists
<1>3. Exists(row[w[2]].temp) => Exists(row[w[2]].temp)'
  BY DEF Exists
<1> QED BY <1>1, <1>2, <1>3, RemoteFlies

\* A failed attempt backs off, or the failed edge is legal.
LEMMA FailsFly ==
    ASSUME RInv, Roles, NameInv, FlightInv, NEW w \in Workers, Remotely(w), Others(w), StoreOf(w[2]),
           NEW kind, FailedBy(w, kind),
           Stands(w[2]) => Stands(w[2])'
    PROVE  FlightInv'
<1> DEFINE t == w[2]
           r == row[t]
           q == row'[t]
<1>1. /\ t \in Tasks /\ ~ r.cancel /\ FlightTask(t)
      /\ \/ /\ w[1] = "download" /\ ~ job[w].outside
            /\ r.state \in {"reserved", "streaming", "verifying", "finalizing"}
         \/ /\ w[1] = "upload" /\ ~ job[w].outside
            /\ r.state \in {"waiting_upload", "uploading", "verifying", "finalizing", "downloaded"}
         \/ w[1] = "upload" /\ job[w].outside /\ r.state = "cleanup_pending"
  BY RemotePeer DEF FlightInv
<1>2. FailedState(w) \in FailedStates /\ (r.state \in InFlight /\ ~ job[w].outside => Legal(t, FailedState(w)))
  BY <1>1 DEF FailedState, FailedStates, InFlight, Legal, CanTransition, LegalTransitions, States
<1>3. /\ Twin(q, r) /\ pc'[w] \in {"backoff", "idle", "notify"}
      /\ q.state \in {r.state, FailedState(w)}
      /\ q.state # FailedState(w) => q.kind \in {r.kind, "transient"}
      /\ pc'[w] = "backoff" \/ q.state = FailedState(w) \/ r.state \notin InFlight
  BY <1>1, <1>2 DEF FailedBy, InFlight
<1>4. q.state \in {"verifying", "finalizing"} => Stands(t)'
  <2>1. q.temp = r.temp /\ q.final = r.final
    BY <1>3 DEF Twin
  <2>2. q.state \in {"verifying", "finalizing"} => Stands(t)
    BY <1>1, <1>2, <1>3 DEF FlightTask, Written, FailedStates
  <2> QED BY <2>1, <2>2 DEF Stands, Exists
<1>5. q.state \notin InFlight \/ pc'[w] = "backoff"
  BY <1>2, <1>3 DEF InFlight, FailedStates
<1> QED BY <1>2, <1>3, <1>4, <1>5, RemoteFlies DEF Naming

\* Where the objects stay, so does what the rows say of them.
LEMMA StillStands ==
    ASSUME NEW t \in Tasks, UNCHANGED store, row'[t].temp = row[t].temp, row'[t].final = row[t].final
    PROVE  Stands(t) => Stands(t)'
BY DEF Stands, Exists

LEMMA FailsHere ==
    ASSUME RInv, Roles, NameInv, FlightInv, NEW w \in Workers, Remotely(w), Others(w), UNCHANGED store,
           NEW kind, FailedBy(w, kind)
    PROVE  FlightInv'
<1>1. w[2] \in Tasks /\ row'[w[2]].temp = row[w[2]].temp /\ row'[w[2]].final = row[w[2]].final
  BY WorkerTypes DEF FailedBy, Twin
<1>2. StoreOf(w[2]) /\ (Stands(w[2]) => Stands(w[2])')
  BY <1>1, KeepStore, StillStands
<1> QED BY <1>2, FailsFly

LEMMA BeginsFly ==
    ASSUME RInv, Roles, NameInv, FlightInv, NEW w \in Workers, Remotely(w), Others(w), UNCHANGED store,
           Begins(w) \/ Queues(w)
    PROVE  FlightInv'
<1>1. CASE Begins(w)
  <2>1. /\ pc'[w] = "write" /\ row'[w[2]].kind = row[w[2]].kind
        /\ row'[w[2]].state \in {"streaming", "uploading"}
        /\ w[1] = "download" => row'[w[2]].state = "streaming"
    BY <1>1 DEF Begins, Marked, WritingState
  <2> QED BY <2>1, KeepStore, RemoteFlies DEF Naming
<1>2. CASE Queues(w)
  BY <1>2, PassFlies DEF Queues
<1> QED BY <1>1, <1>2

LEMMA NothingFlies ==
    ASSUME RInv, Roles, NameInv, FlightInv, NEW w \in Workers, Remotely(w), Others(w), UNCHANGED store,
           Nothing(w)
    PROVE  FlightInv'
<1>1. CASE pc'[w] = "head" /\ UNCHANGED <<row, job, lock>>
  BY <1>1, PassFlies DEF Naming
<1> QED BY <1>1, BeginsFly, FailsHere DEF Nothing

LEMMA ResumeFlies ==
    ASSUME RInv, Roles, NameInv, FlightInv, NEW w \in Workers, Others(w),
           ResumeDone(w) \/ ResumeTempDone(w) \/ StreamHeadDone(w)
    PROVE  FlightInv'
<1> DEFINE r == row[w[2]]
<1>1. /\ w[2] \in Tasks /\ RecordedTemp(r) = r.temp /\ UNCHANGED store /\ Remotely(w)
  BY Mine, RecordedColumns
     DEF NameInv, ResumeDone, ResumeTempDone, StreamHeadDone, Remotely, Remote, Finishing
<1>2. ASSUME NEW kind, FailedBy(w, kind)
      PROVE  FlightInv'
  BY <1>1, <1>2, FailsHere
<1>3. CASE UNCHANGED row /\ pc'[w] \in {"complete", "resumeTemp"}
  BY <1>1, <1>3, PassFlies DEF Naming
<1>4. CASE UNCHANGED row /\ pc'[w] = "lock" /\ Exists(r.temp)
  BY <1>1, <1>4, PassFlies
<1> HIDE DEF r
<1>5. CASE ResumeDone(w)
  BY <1>1, <1>2, <1>3, <1>5, NothingFlies DEF ResumeDone
<1>6. CASE ResumeTempDone(w)
  BY <1>1, <1>2, <1>4, <1>6, NothingFlies DEF ResumeTempDone, Whole, r
<1>7. CASE StreamHeadDone(w)
  BY <1>1, <1>2, <1>7, BeginsFly DEF StreamHeadDone
<1> QED BY <1>5, <1>6, <1>7

\* A name is claimed for what lies under the staging name.
LEMMA ClaimsFly ==
    ASSUME RInv, Roles, NameInv, FlightInv, NEW w \in Workers, Others(w), UNCHANGED store, NEW p, Claims(w, p),
           pc[w] \in {"exists", "reserved"}
    PROVE  FlightInv'
<1> DEFINE t == w[2]
           q == row'[t]
<1>1. /\ t \in Tasks /\ Holds(w) /\ Remotely(w) /\ FlightTask(t) /\ (w = D(t) \/ w = U(t))
  BY WorkerTypes DEF NameInv, Remotely, Remote, Finishing, FlightInv, D, U
<1>2. StoreOf(t)
  BY KeepStore
<1>3. CASE Backend = "openlist"
  <2>1. /\ pc'[w] = "write" /\ q.kind = row[t].kind
        /\ q.state \in {"streaming", "uploading"} /\ (w[1] = "download" => q.state = "streaming")
    BY <1>3 DEF Claims, Marked, WritingState
  <2> QED BY <1>1, <1>2, <2>1, RemoteFlies DEF Naming
<1>4. CASE Backend = "clouddrive2"
  <2>1. /\ pc'[w] = "move" /\ q.kind = row[t].kind /\ q.temp = job[w].path
    BY <1>4 DEF Claims
  <2>2. job[w].path = row[t].temp /\ Exists(row[t].temp)
    BY <1>1, <1>4 DEF Holds, FlightTask, Aboard, Naming
  <2>3. Stands(t)'
    BY <2>1, <2>2 DEF Stands, Exists
  <2> QED BY <1>1, <1>2, <2>1, <2>3, RemoteFlies DEF Naming
<1> QED BY <1>3, <1>4 DEF Claims

LEMMA LockFlies ==
    ASSUME RInv, Roles, NameInv, FlightInv, NEW w \in Workers, Others(w),
           TakeLockDone(w) \/ ChooseFinalDone(w) \/ ReuseFinalDone(w)
    PROVE  FlightInv'
<1>1. /\ UNCHANGED store /\ Remotely(w) /\ pc[w] \in Naming /\ w[2] \in Tasks
  BY WorkerTypes DEF TakeLockDone, ChooseFinalDone, ReuseFinalDone, Remotely, Remote, Finishing, Naming
<1>2. Backend = "clouddrive2" => Exists(row[w[2]].temp)
  <2>1. FlightTask(w[2]) /\ (w = D(w[2]) \/ w = U(w[2]))
    BY <1>1, WorkerTypes DEF FlightInv, D, U
  <2> QED BY <1>1, <2>1 DEF FlightTask, Aboard
<1>3. ASSUME NEW kind, FailedBy(w, kind)
      PROVE  FlightInv'
  BY <1>1, <1>3, FailsHere
<1>4. CASE UNCHANGED row /\ pc'[w] \in {"exists", "reserved"}
  BY <1>1, <1>2, <1>4, PassFlies
<1>5. CASE TakeLockDone(w)
  BY <1>4, <1>5 DEF TakeLockDone
<1>6. CASE ChooseFinalDone(w)
  BY <1>1, <1>3, <1>4, <1>6, ClaimsFly DEF ChooseFinalDone
<1>7. CASE ReuseFinalDone(w)
  BY <1>1, <1>3, <1>7, ClaimsFly DEF ReuseFinalDone
<1> QED BY <1>5, <1>6, <1>7

\* The writer's object stands where it writes.
LEMMA WriteFlies ==
    ASSUME RInv, Roles, NameInv, FlightInv, NEW w \in Workers, Others(w),
           WriteStartsDone(w) \/ WriteEndsDone(w) \/ VerifyDone(w)
    PROVE  FlightInv'
<1> DEFINE t == w[2]
           r == row[t]
           p == job[w].path
<1>1. /\ pc[w] \in {"write", "writing", "verify"} /\ Remotely(w) /\ t \in Tasks
      /\ (w = D(t) \/ w = U(t)) /\ FlightTask(t)
  BY WorkerTypes DEF WriteStartsDone, WriteEndsDone, VerifyDone, Remotely, Remote, Finishing, FlightInv, D, U
<1>2. /\ p = (IF Backend = "clouddrive2" THEN r.temp ELSE r.final) /\ p # NoPath
      /\ p \in Recorded(r) /\ (IsStaging(p) <=> Backend = "clouddrive2")
      /\ \A b : store' = [store EXCEPT ![p] = Object(t, b)] => StoreOf(t)
  BY <1>1, WritesOwn
<1>3. p \in Paths /\ \A b : Object(t, b) # Absent
  BY <1>1, <1>2, RecordedNames, PipelineAssumption DEF NameInv, Object, Absent
<1>4. ASSUME NEW b, store' = [store EXCEPT ![p] = Object(t, b)], row'[t].temp = r.temp, row'[t].final = r.final
      PROVE  StoreOf(t) /\ Stands(t)'
  <2>1. store'[p] # Absent
    BY <1>3, <1>4 DEF RInv, TInv, TypeOK
  <2>2. p \in {row'[t].temp, row'[t].final}
    BY <1>2, <1>4
  <2> HIDE DEF p, r
  <2> QED BY <1>2, <1>4, <2>1, <2>2 DEF Stands, Exists
<1>5. pc[w] \in {"write", "writing"} /\ w[1] = "download" => r.state = "streaming"
  BY <1>1 DEF FlightTask, Streams, U
<1>6. ASSUME NEW kind, FailedBy(w, kind)
      PROVE  row'[t].temp = r.temp /\ row'[t].final = r.final
  BY <1>6 DEF FailedBy, Twin
<1> HIDE DEF p
<1>7. CASE WriteStartsDone(w)
  <2>1. CASE FailedBy(w, "transient") /\ UNCHANGED store
    BY <1>1, <2>1, FailsHere
  <2>2. CASE store' = [store EXCEPT ![p] = Object(t, FALSE)] /\ pc'[w] = "writing" /\ UNCHANGED <<row, job, lock>>
    BY <1>1, <1>4, <1>5, <1>7, <2>2, RemoteFlies DEF Naming, WriteStartsDone
  <2> QED BY <1>7, <2>1, <2>2 DEF WriteStartsDone, p
<1>8. CASE WriteEndsDone(w)
  <2>1. \E b : store' = [store EXCEPT ![p] = Object(t, b)]
    BY <1>8 DEF WriteEndsDone, p
  <2>2. CASE FailedBy(w, "transient")
    BY <1>1, <1>4, <1>6, <2>1, <2>2, FailsFly
  <2>3. CASE Kin(row'[t], r) /\ row'[t].state = "verifying" /\ pc'[w] = "verify"
    <3>1. row'[t].kind = r.kind /\ row'[t].temp = r.temp /\ row'[t].final = r.final
      BY <2>3 DEF Kin, Twin
    <3>2. StoreOf(t) /\ Stands(t)'
      BY <1>4, <2>1, <3>1
    <3> HIDE DEF r
    <3> QED BY <1>1, <2>3, <3>1, <3>2, RemoteFlies DEF Naming, r
  <2> QED BY <1>8, <2>2, <2>3 DEF WriteEndsDone
<1>9. CASE VerifyDone(w)
  <2>1. CASE Whole(p) /\ UNCHANGED row /\ (pc'[w] = "final" \/ pc'[w] = "lock")
    <3>1. Backend = "clouddrive2" => Exists(r.temp)
      BY <1>2, <2>1 DEF Whole
    <3> QED BY <1>1, <1>9, <2>1, <3>1, PassFlies DEF VerifyDone, Naming
  <2> QED BY <1>1, <1>9, <2>1, FailsHere DEF VerifyDone, p
<1> QED BY <1>7, <1>8, <1>9

LEMMA FinishFlies ==
    ASSUME RInv, Roles, NameInv, FlightInv, NEW w \in Workers, Others(w),
           MoveToFinalDone(w) \/ FinalCheckDone(w) \/ RemoteRetryDone(w)
    PROVE  FlightInv'
<1> DEFINE t == w[2]
           r == row[t]
<1>1. t \in Tasks /\ Holds(w) /\ Remotely(w)
  BY Mine DEF NameInv, MoveToFinalDone, FinalCheckDone, RemoteRetryDone, Remotely, Remote, Finishing
<1>2. CASE MoveToFinalDone(w)
  <2> DEFINE source == job[w].path
             goal == job[w].goal
  <2>1. CASE /\ Exists(source) /\ store' = [store EXCEPT ![goal] = store[source], ![source] = Absent]
             /\ pc'[w] = "final" /\ UNCHANGED <<row, job>>
    <3>1. StoreOf(t)
      BY <1>2, <2>1, MovesOwn DEF MoveToFinalDone
    <3>2. goal = r.final /\ source = r.temp /\ r.final # NoPath /\ r.temp # NoPath
      BY <1>1, <1>2 DEF Holds, MoveToFinalDone
    <3>3. goal # source /\ goal \in Paths /\ source \in Paths
      <4>1. Listed(t, r, cancelling[t], purge[t]) /\ r.gen \in 0..MaxRecoveries
        BY <1>1 DEF NameInv, Listing, RInv, TInv, TypeOK, Row
      <4>2. r.final \in Recorded(r) /\ r.temp \in Recorded(r)
        BY <3>2, Recorded3
      <4> QED BY <1>1, <3>2, <4>1, <4>2, NamesApart, RecordedNames DEF Listed, NameInv
    <3>4. store'[goal] = store[source] /\ store[source] # Absent
      <4> HIDE DEF goal, source
      <4> QED BY <2>1, <3>3 DEF Exists, RInv, TInv, TypeOK
    <3>5. Stands(t)'
      BY <2>1, <3>2, <3>4 DEF Stands, Exists
    <3> HIDE DEF goal, source
    <3> QED BY <1>1, <2>1, <3>1, <3>5, RemoteFlies DEF Naming
  <2> QED BY <1>1, <1>2, <2>1, FailsHere DEF MoveToFinalDone
<1>3. CASE FinalCheckDone(w)
  <2>1. CASE UNCHANGED <<row, store>> /\ pc'[w] = "complete"
    BY <1>1, <2>1, PassFlies DEF Naming
  <2> QED BY <1>1, <1>3, <2>1, FailsHere DEF FinalCheckDone
<1>4. CASE RemoteRetryDone(w)
  <2>1. UNCHANGED store /\ pc'[w] = "resume" /\ Kin(row'[t], r) /\ row'[t].state = r.state
    BY <1>4 DEF RemoteRetryDone
  <2>2. ~ r.cancel /\ FlightTask(t) /\ (Stands(t) => Stands(t)')
    BY <1>1, <2>1, RemotePeer, StillStands DEF FlightInv, Kin, Twin
  <2>3. row'[t].state \in {"verifying", "finalizing"} => Stands(t)'
    BY <2>1, <2>2 DEF FlightTask, Written
  <2> QED BY <1>1, <2>1, <2>3, KeepStore, RemoteFlies DEF Kin, Naming
<1> QED BY <1>2, <1>3, <1>4

\* The receipt leaves the final object standing.
LEMMA ReceiveFlies ==
    ASSUME RInv, Roles, NameInv, KeptInv, FlightInv, NEW w \in Workers, Others(w), ReceiveDone(w)
    PROVE  FlightInv'
<1> DEFINE t == w[2]
           r == row[t]
           q == row'[t]
           p == job[w].goal
<1>1. /\ t \in Tasks /\ Holds(w) /\ Knows(w) /\ pc[w] = "complete" /\ Remotely(w)
      /\ r \in Row /\ StoreOf(t)
  BY Mine, ReceivesOwn DEF NameInv, KeptInv, ReceiveDone, Remotely, Remote, Finishing
<1>2. p = r.final /\ r.final # NoPath /\ store[r.final] = Object(t, TRUE) /\ r.final \in Paths
  BY <1>1 DEF Holds, Knows, Row
<1>3. Object(t, TRUE) # Absent
  BY <1>1, PipelineAssumption DEF Object, Absent
<1>4. store'[r.final] = store[r.final]
  <2>1. store' = IF r.temp \in Paths \ {p} THEN [store EXCEPT ![r.temp] = Absent] ELSE store
    BY DEF ReceiveDone
  <2>2. store \in [Paths -> [by : Owners, whole : BOOLEAN]]
    BY DEF RInv, TInv, TypeOK
  <2> HIDE DEF r, p, q, t
  <2> QED BY <1>2, <2>1, <2>2
<1>5. CASE Receipted(q, r, p) /\ pc'[w] = "receipt"
  BY <1>1, <1>5, RemoteFlies DEF Receipted, Naming, InFlight
<1>6. CASE FailedBy(w, "transient")
  <2>1. q.final = r.final
    BY <1>6 DEF FailedBy, Twin
  <2>2. Stands(t)'
    BY <1>2, <1>3, <1>4, <2>1 DEF Stands, Exists
  <2> QED BY <1>1, <1>6, <2>2, FailsFly
<1> QED BY <1>5, <1>6 DEF ReceiveDone

\* A call that took effect unseen leaves an object standing.
LEMMA LandedStands ==
    ASSUME RInv, NameInv, NEW w \in Workers, store' = Landed({w}),
           row'[w[2]].temp = row[w[2]].temp, row'[w[2]].final = row[w[2]].final, Stands(w[2])
    PROVE  Stands(w[2])'
<1> DEFINE t == w[2]
           r == row[t]
           moved == {v \in {w} : pc[v] = "move" /\ Exists(job[v].path)}
           written == {v \in {w} : pc[v] = "writing"}
<1>1. t \in Tasks /\ Holds(w) /\ r \in Row /\ r.temp \in Paths \cup {NoPath} /\ r.final \in Paths \cup {NoPath}
  BY Mine DEF NameInv, Row
<1>2. \A p \in Paths :
        store'[p] = IF \E v \in moved : job[v].goal = p
                    THEN store[job[CHOOSE v \in moved : job[v].goal = p].path]
                    ELSE IF \E v \in moved : job[v].path = p THEN Absent
                    ELSE IF \E v \in written : job[v].path = p
                    THEN Object((CHOOSE v \in written : job[v].path = p)[2], TRUE)
                    ELSE store[p]
  BY DEF Landed
<1>3. CASE w \in moved
  <2>1. pc[w] = "move" /\ Exists(job[w].path)
    BY <1>3
  <2>2. job[w].goal = r.final /\ r.final # NoPath /\ r.final \in Paths
    BY <1>1, <2>1 DEF Holds
  <2>3. (CHOOSE v \in moved : job[v].goal = r.final) = w
    BY <1>3, <2>2
  <2>4. store'[r.final] = store[job[w].path]
    <3> HIDE DEF moved, written
    <3> QED BY <1>2, <1>3, <2>2, <2>3
  <2> QED BY <2>1, <2>2, <2>4 DEF Stands, Exists
<1>4. CASE w \notin moved /\ w \in written
  <2>1. moved = {} /\ pc[w] = "writing"
    BY <1>4
  <2>2. job[w].path \in {r.temp, r.final} /\ job[w].path # NoPath
    BY <1>1, <2>1 DEF Holds
  <2>3. (CHOOSE v \in written : job[v].path = job[w].path) = w
    BY <1>4
  <2>4. store'[job[w].path] = Object(t, TRUE)
    <3> HIDE DEF moved, written
    <3> QED BY <1>1, <1>2, <1>4, <2>1, <2>2, <2>3
  <2>5. Object(t, TRUE) # Absent
    BY <1>1, PipelineAssumption DEF Object, Absent
  <2> QED BY <2>2, <2>4, <2>5 DEF Stands, Exists
<1>5. CASE w \notin moved /\ w \notin written
  <2>1. moved = {} /\ written = {}
    BY <1>5
  <2>2. \A p \in Paths : store'[p] = store[p]
    <3> HIDE DEF moved, written
    <3> QED BY <1>2, <2>1
  <2> QED BY <1>1, <2>2 DEF Stands, Exists
<1> QED BY <1>3, <1>4, <1>5

\* A failed check of an accepted file only drops its mark.
LEMMA RecheckFailsFly ==
    ASSUME RInv, Roles, NameInv, FlightInv, NEW w \in Workers, Others(w), StoreOf(w[2]), pc[w] = "recheck",
           NEW kind, FailedBy(w, kind)
    PROVE  FlightInv'
<1> DEFINE t == w[2]
<1>1. t \in Tasks /\ Role(t) /\ FlightTask(t) /\ (w = D(t) \/ w = U(t)) /\ D(t) # U(t) /\ D(t) \in Workers
  BY WorkerTypes, Pair DEF Roles, D, U, Workers, FlightInv
<1>2. w = U(t) /\ pc[D(t)] \in {"idle", "notify"} /\ job[w].outside /\ row[t].state = "cleanup_pending"
  BY <1>1 DEF Role, RoleOf, Coroutines, Uploading, Downloading, Finishing
<1>3. /\ pc'[U(t)] \in {"idle", "notify"} /\ pc'[D(t)] = pc[D(t)]
      /\ row'[t].state = "cleanup_pending" /\ row'[t].kind = row[t].kind
  BY <1>1, <1>2 DEF FailedBy, Others
<1>4. FlightTask(t)'
  BY <1>1, <1>2, <1>3
     DEF FlightTask, Attended, Clear, Written, Streams, Aboard, Naming, InFlight, Running
<1> HIDE DEF t
<1> QED BY <1>4, FlightOthers DEF t

LEMMA ErrorFlies ==
    ASSUME RInv, Roles, NameInv, FlightInv, NEW w \in Workers, Others(w), RemoteError(w) \/ StreamError(w)
    PROVE  FlightInv'
<1>1. store' \in {store, Landed({w})} /\ StoreOf(w[2]) /\ (Remotely(w) \/ pc[w] = "recheck")
  <2>1. store' \in {store, Landed({w})}
    BY DEF RemoteError, StreamError
  <2>2. Remotely(w) \/ pc[w] = "recheck"
    BY DEF RemoteError, StreamError, Remotely, Remote, Finishing
  <2> QED BY <2>1, <2>2, LandedOne
<1>2. PICK kind \in Kinds : FailedBy(w, kind)
  <2>1. pc[w] \in InLoop /\ {"transient", "refused", "conflict"} \subseteq Kinds
    BY DEF RemoteError, StreamError, InLoop, Labels, Kinds
  <2> QED BY <2>1, FailEffect DEF RemoteError, StreamError
<1>3. row'[w[2]].temp = row[w[2]].temp /\ row'[w[2]].final = row[w[2]].final /\ w[2] \in Tasks
  BY <1>2, WorkerTypes DEF FailedBy, Twin
<1>4. Stands(w[2]) => Stands(w[2])'
  BY <1>1, <1>3, LandedStands, StillStands
<1> QED BY <1>1, <1>2, <1>4, FailsFly, RecheckFailsFly

\* The account a stream reads through gives up: its row is one that may fail.
LEMMA RefusedFlies ==
    ASSUME RInv, Roles, NameInv, KeptInv, FlightInv, NEW w \in Workers, Others(w), StreamRefused(w)
    PROVE  FlightInv'
<1> DEFINE t == w[2]
           off(kind) == [row[t] EXCEPT !.state = "download_failed", !.lpath = "none", !.kind = kind]
<1>1. /\ pc[w] \in {"head", "writing"} /\ job[w].how = "stream" /\ UNCHANGED store /\ Remotely(w)
      /\ Ends(w)
      /\ \/ UNCHANGED row /\ (row[t].cancel \/ row[t].state \notin {"reserved", "streaming"})
         \/ \E kind : Put(t, off(kind))
  BY DEF StreamRefused, Remotely, Remote, Finishing, Notice, Ends
<1>2. /\ t \in Tasks /\ ~ row[t].cancel /\ w = D(t) /\ FlightTask(t) /\ Knows(w)
      /\ row[t].state \in {"reserved", "streaming", "verifying", "finalizing"}
  BY <1>1, RemotePeer DEF FlightInv, KeptInv
<1>3. row[t].state \in {"reserved", "streaming"}
  <2>1. CASE pc[w] = "head"
    BY <1>2, <2>1 DEF FlightTask, Written, Stands, Knows
  <2>2. CASE pc[w] = "writing"
    BY <1>2, <2>2 DEF FlightTask, Streams
  <2> QED BY <1>1, <2>1, <2>2
<1>4. PICK kind : Put(t, off(kind))
  BY <1>1, <1>2, <1>3
<1>5. off(kind).state = "download_failed"
  BY Mine DEF Row
<1> HIDE DEF off
<1>6. row'[t].state = "download_failed" /\ pc'[w] \in {"idle", "notify"}
  BY <1>1, <1>4, <1>5, Mine DEF Ends
<1> QED BY <1>1, <1>2, <1>6, KeepStore, RemoteFlies DEF InFlight, FailedStates, Naming

LEMMA RemoteFlightKept ==
    ASSUME RInv, Roles, NameInv, KeptInv, FlightInv, NEW w \in Workers, RemoteStep(w), Others(w)
    PROVE  FlightInv'
<1>1. CASE Resume(w) \/ ResumeTemp(w) \/ StreamHead(w)
  BY <1>1, ResumeEffect, ResumeTempEffect, StreamHeadEffect, ResumeFlies
<1>2. CASE TakeLock(w) \/ ChooseFinal(w) \/ ReuseFinal(w)
  BY <1>2, TakeLockEffect, ChooseFinalEffect, ReuseFinalEffect, LockFlies
<1>3. CASE WriteStarts(w) \/ WriteEnds(w) \/ Verify(w)
  BY <1>3, WriteStartsEffect, WriteEndsEffect, VerifyEffect, WriteFlies
<1>4. CASE MoveToFinal(w) \/ FinalCheck(w) \/ RemoteRetry(w)
  BY <1>4, MoveToFinalEffect, FinalCheckEffect, RemoteRetryEffect, FinishFlies
<1>5. CASE Receive(w)
  BY <1>5, ReceiveEffect, ReceiveFlies
<1>6. CASE RemoteError(w) \/ StreamError(w) \/ StreamRefused(w)
  BY <1>6, ErrorFlies, RefusedFlies
<1>7. CASE Notified(w)
  <2>1. /\ pc[w] = "notify" /\ pc'[w] = "idle" /\ UNCHANGED <<row, store>> /\ w[2] \in Tasks
        /\ (w = D(w[2]) \/ w = U(w[2])) /\ FlightTask(w[2])
    BY <1>7, Mine, WorkerTypes DEF Notified, D, U, FlightInv
  <2>2. \A v \in Workers \ {w} : pc'[v] = pc[v]
    BY DEF Others
  <2>3. FlightTask(w[2])'
    BY <2>1, <2>2, Pair
       DEF FlightTask, Attended, Clear, Written, Stands, Streams, Aboard, Exists, Naming
  <2> QED BY <2>1, <2>3, KeepStore, FlightOthers
<1> QED BY <1>1, <1>2, <1>3, <1>4, <1>5, <1>6, <1>7 DEF RemoteStep

\* The last steps of a coroutine concern no row in flight.
LEMMA CleaningFlies ==
    ASSUME RInv, Roles, NameInv, FlightInv, NEW w \in Workers, Cleaning(w), Others(w)
    PROVE  FlightInv'
<1> DEFINE t == w[2]
           done == [row[t] EXCEPT !.state = "completed", !.lpath = "none"]
<1>1. pc[w] \in Finishing /\ UNCHANGED store
  BY DEF Cleaning, Clean, CleanFails, Complete, Finishing
<1>2. /\ t \in Tasks /\ row[t].state = "cleanup_pending" /\ FlightTask(t)
      /\ \/ w = D(t) /\ w # U(t) /\ pc[U(t)] \in {"idle", "notify"}
         \/ w = U(t) /\ w # D(t) /\ pc[D(t)] \in {"idle", "notify"}
  BY <1>1, FinishingPeer DEF FlightInv
<1>3. \/ UNCHANGED row /\ \E l \in {"cleaned", "idle"} : Goto(w, l)
      \/ Put(t, done) /\ \E l \in {"idle", "notify"} : Goto(w, l)
  BY DEF Cleaning, Clean, CleanFails, Complete, Notice
<1>4. done.state = "completed"
  BY Mine DEF Row
<1> HIDE DEF done
<1>5. /\ row'[t] = row[t] \/ row'[t].state = "completed"
      /\ pc'[w] \in {"cleaned", "idle", "notify"} /\ \A v \in Workers \ {w} : pc'[v] = pc[v]
  BY <1>3, <1>4, Mine DEF Others
<1>6. FlightTask(t)'
  BY <1>2, <1>5, Pair
     DEF FlightTask, Attended, Clear, Written, Streams, Aboard, Naming, InFlight, Running
<1> HIDE DEF t
<1> QED BY <1>1, <1>6, KeepStore, FlightOthers DEF t

-------------------------------------------------------------------------------
(* Flight through the local half *)

\* An exhausted download fails where the edge is legal.
LEMMA ExhaustedFails ==
    ASSUME RInv, NEW t \in Tasks, NEW r \in Row, DownloadExhausted(t, r)
    PROVE  /\ row'[t].kind = r.kind
           /\ row'[t].state = "download_failed"
              \/ (row'[t].state = r.state /\ ~ CanTransition(r.state, "download_failed"))
<1> DEFINE off == [r EXCEPT !.state = "download_failed", !.lpath = "none"]
<1>1. row \in [Tasks -> Row]
  BY DEF RInv, TInv, TypeOK
<1>2. off.state = "download_failed" /\ off.kind = r.kind
  BY DEF Row
<1>3. \/ Put(t, off)
      \/ Put(t, r) /\ ~ CanTransition(r.state, "download_failed")
  BY DEF DownloadExhausted
<1> HIDE DEF off
<1> QED BY <1>1, <1>2, <1>3 DEF Put

LEMMA AttemptLeads ==
    ASSUME RInv, NEW t \in Tasks, NEW n, DownloadAttempt(t, n)
    PROVE  /\ row'[t].kind = row[t].kind
           /\ \/ row'[t].state = "downloading" /\ pc'[D(t)] = "fetch" /\ Legal(t, "downloading")
              \/ row'[t].state = "download_failed"
              \/ row'[t].state = row[t].state /\ ~ Legal(t, "download_failed")
<1> DEFINE on == [row[t] EXCEPT !.state = "downloading", !.lpath = "part", !.dtries = n]
           off == [row[t] EXCEPT !.state = "download_failed", !.lpath = "none"]
<1>1. row \in [Tasks -> Row] /\ pc \in [Workers -> Labels]
  BY DEF RInv, TInv, TypeOK
<1>2. /\ on.state = "downloading" /\ on.kind = row[t].kind
      /\ off.state = "download_failed" /\ off.kind = row[t].kind
  BY <1>1 DEF Row
<1>3. \/ Put(t, on) /\ Goto(D(t), "fetch") /\ Legal(t, "downloading")
      \/ Put(t, off)
      \/ UNCHANGED row /\ ~ Legal(t, "download_failed")
  BY DEF DownloadAttempt
<1> HIDE DEF on, off
<1> QED BY <1>1, <1>2, <1>3, Pair DEF Put, Goto

LEMMA FailureLeads ==
    ASSUME RInv, NEW t \in Tasks, NEW kind \in Kinds, DownloadFails(t, kind), pc[D(t)] \in InLoop
    PROVE  /\ row'[t].kind = kind
           /\ \/ row'[t].state = row[t].state /\ pc'[D(t)] = "backoff"
              \/ row'[t].state = "download_failed"
              \/ row'[t].state = row[t].state /\ ~ Legal(t, "download_failed")
<1> DEFINE n == job[D(t)].try + 1
           r == [row[t] EXCEPT !.dtries = n, !.kind = kind]
<1>1. row \in [Tasks -> Row] /\ pc \in [Workers -> Labels] /\ job \in [Workers -> Job]
  BY DEF RInv, TInv, TypeOK
<1>2. n \in 0..MaxRetries
  BY Pair, PipelineAssumption DEF RInv, TInv, TryBound, Uncounted, Job
<1>3. r \in Row /\ r.state = row[t].state /\ r.kind = kind
  <2> HIDE DEF n
  <2> QED BY <1>1, <1>2 DEF Row
<1>4. \/ Put(t, r) /\ Goto(D(t), "backoff")
      \/ DownloadExhausted(t, r)
  BY DEF DownloadFails
<1> HIDE DEF r, n
<1> QED BY <1>1, <1>3, <1>4, ExhaustedFails, Pair DEF Put, Goto, Legal

\* The failures of the source are none that bar a row from recovery. Finding 6
\* shows what happens otherwise.
Plainly == SourceErrors \cap Barring = {}

LocalLeads(t) ==
    /\ row'[t].state \notin {"verifying", "finalizing"}
    /\ pc'[D(t)] \notin {"idle", "notify"} \/ row'[t].state \notin InFlight
    /\ \/ row'[t].kind \notin Barring \/ row'[t].state \notin Running
       \/ row'[t].kind = row[t].kind /\ row[t].state \in Running

\* What a failed or a repeated attempt leaves, given where it may be.
LEMMA TriedLeads ==
    ASSUME RInv, NEW t \in Tasks,
           row[t].state \in {"reserved", "downloading", "downloaded", "queued"},
           \/ \E n : DownloadAttempt(t, n)
           \/ DownloadExhausted(t, row[t])
           \/ \E kind \in Kinds \ Barring : DownloadFails(t, kind) /\ pc[D(t)] \in InLoop
    PROVE  LocalLeads(t)
<1>1. /\ row[t] \in Row
      /\ IF row[t].state = "queued" THEN ~ Legal(t, "downloading") ELSE Legal(t, "download_failed")
  BY DEF RInv, TInv, TypeOK, Legal, CanTransition, LegalTransitions, States
<1>2. CASE \E n : DownloadAttempt(t, n)
  BY <1>1, <1>2, AttemptLeads DEF LocalLeads, InFlight, Running
<1>3. CASE DownloadExhausted(t, row[t])
  BY <1>1, <1>3, ExhaustedFails DEF LocalLeads, InFlight, Running, Legal
<1>4. CASE \E kind \in Kinds \ Barring : DownloadFails(t, kind) /\ pc[D(t)] \in InLoop
  BY <1>1, <1>4, FailureLeads DEF LocalLeads, InFlight, Running
<1> QED BY <1>2, <1>3, <1>4

LEMMA LocalSteps ==
    ASSUME RInv, Roles, Plainly, NEW t \in Tasks, LocalStep(t)
    PROVE  LocalLeads(t)
<1> DEFINE r == row[t]
           streamed == [r EXCEPT !.state = "download_failed", !.lpath = "none"]
           arrived == [r EXCEPT !.state = "downloaded", !.lpath = "file"]
           recorded == [r EXCEPT !.state = "waiting_upload", !.lpath = "file", !.dtries = job[D(t)].try]
           again == [r EXCEPT !.state = "queued", !.lpath = "none", !.dtries = @ + 1, !.kind = "refused"]
           refused(kind) == [r EXCEPT !.state = "download_failed", !.lpath = "none", !.kind = kind]
           reserved == [r EXCEPT !.state = "reserved", !.kind = "none",
                                 !.mode = IF @ = "stream" \/ t \in Oversized THEN "stream" ELSE "local"]
<1>1. /\ row \in [Tasks -> Row] /\ pc \in [Workers -> Labels] /\ r \in Row /\ Role(t)
      /\ D(t) \in Workers /\ Notice \in {"idle", "notify"}
      /\ "transient" \in Kinds \ Barring /\ SourceErrors \subseteq Kinds \ Barring
      /\ {"fetch", "renaming"} \subseteq InLoop
  BY Pair, PipelineAssumption DEF RInv, TInv, TypeOK, Roles, Notice, Kinds, Barring, Plainly, InLoop, Labels
<1>2. /\ streamed.state = "download_failed" /\ arrived.state = "downloaded" /\ arrived.kind = r.kind
      /\ recorded.state = "waiting_upload" /\ recorded.kind = r.kind /\ again.state = "queued"
      /\ reserved.state = "reserved" /\ reserved.kind = "none"
      /\ \A kind : refused(kind).state = "download_failed"
  <2> HIDE DEF r
  <2> QED BY <1>1 DEF Row
<1>3. /\ \A q : Put(t, q) => row'[t] = q
      /\ \A l : Goto(D(t), l) => pc'[D(t)] = l
  BY <1>1 DEF Put, Goto
<1> DEFINE Tries ==
             \/ \E n : DownloadAttempt(t, n)
             \/ DownloadExhausted(t, row[t])
             \/ \E kind \in Kinds \ Barring : DownloadFails(t, kind) /\ pc[D(t)] \in InLoop
<1>4. CASE DownloadBegin(t)
  <2>1. r.state = "reserved"
    BY <1>1, <1>4 DEF DownloadBegin, Role, RoleOf, Downloading
  <2>2. \/ Tries
        \/ Goto(D(t), "resume") /\ UNCHANGED row
        \/ Legal(t, "download_failed") /\ Put(t, streamed)
        \/ ~ Legal(t, "download_failed") /\ UNCHANGED row
    BY <1>4 DEF DownloadBegin
  <2>3. Legal(t, "download_failed")
    BY <2>1 DEF Legal, CanTransition, LegalTransitions, States
  <2> HIDE DEF Tries, streamed
  <2> QED BY <1>2, <1>3, <2>1, <2>2, <2>3, TriedLeads DEF Tries, LocalLeads, InFlight, Running
<1>5. CASE DownloadRetry(t)
  <2>1. r.state \in {"downloading", "downloaded", "queued"}
    BY <1>1, <1>5 DEF DownloadRetry, Role, RoleOf, Downloading
  <2> QED BY <1>5, <2>1, TriedLeads DEF DownloadRetry
<1>6. CASE pc[D(t)] = "fetch" /\ (DownloadArrives(t) \/ DownloadError(t))
  <2>1. r.state \in {"downloading", "queued"}
    BY <1>1, <1>6 DEF Role, RoleOf, Downloading
  <2>2. Tries \/ (Put(t, arrived) /\ Goto(D(t), "renaming") /\ Legal(t, "downloaded"))
    BY <1>1, <1>6 DEF DownloadArrives, DownloadError
  <2>3. Legal(t, "downloaded") => r.state = "downloading"
    BY <2>1 DEF Legal, CanTransition, LegalTransitions, States
  <2> HIDE DEF Tries, arrived
  <2> QED BY <1>2, <1>3, <2>1, <2>2, <2>3, TriedLeads DEF Tries, LocalLeads, InFlight, Running
<1>7. CASE DownloadRefused(t)
  <2>1. r.state \in {"downloading", "queued"} /\ (r.cancel => pc[D(t)] = "idle") /\ pc[D(t)] = "fetch"
    BY <1>1, <1>7 DEF DownloadRefused, Role, RoleOf, Downloading, Cancelled
  <2>2. \/ UNCHANGED row /\ (r.cancel \/ r.state \notin {"reserved", "downloading"})
        \/ Put(t, again) \/ \E kind : Put(t, refused(kind))
    BY <1>7 DEF DownloadRefused
  <2> HIDE DEF again, refused
  <2> QED BY <1>2, <1>3, <2>1, <2>2 DEF LocalLeads, InFlight, Running
<1>8. CASE StartDownload(t)
  <2>1. Put(t, reserved) /\ Goto(D(t), "start")
    BY <1>8 DEF StartDownload
  <2> HIDE DEF reserved
  <2> QED BY <1>2, <1>3, <2>1 DEF LocalLeads, Barring
<1>9. CASE DownloadRename(t) \/ DownloadRenameFails(t) \/ DownloadRecord(t)
  <2>1. r.state = "downloaded"
    BY <1>1, <1>9 DEF DownloadRename, DownloadRenameFails, DownloadRecord, Role, RoleOf, Downloading
  <2>2. \/ Tries
        \/ Goto(D(t), "renamed") /\ UNCHANGED row
        \/ Put(t, recorded)
    BY <1>1, <1>9 DEF DownloadRename, DownloadRenameFails, DownloadRecord
  <2> HIDE DEF Tries, recorded
  <2> QED BY <1>2, <1>3, <2>1, <2>2, TriedLeads DEF Tries, LocalLeads, InFlight, Running
<1> QED BY <1>4, <1>5, <1>6, <1>7, <1>8, <1>9 DEF LocalStep, DownloadStep, DownloadArrives, DownloadError

LEMMA LocalFlies ==
    ASSUME RInv, Roles, NameInv, FlightInv, Plainly, NEW t \in Tasks, LocalStep(t), Others(D(t))
    PROVE  FlightInv'
<1>1. /\ Named(row'[t], row[t]) /\ pc'[D(t)] \in LocalStops /\ UNCHANGED store
      /\ D(t) \in Workers /\ D(t)[2] = t /\ U(t) \in Workers /\ U(t) # D(t)
  BY LocalRow, Pair
<1>2. pc'[U(t)] = pc[U(t)] /\ FlightTask(t)
  BY <1>1 DEF Others, FlightInv
<1>3. LocalLeads(t)
  BY LocalSteps
<1>4. Exists(row[t].temp) => Exists(row[t].temp)'
  BY <1>1 DEF Exists, Named
<1>5. Attended(t)' /\ Clear(t)' /\ Written(t)'
  BY <1>2, <1>3 DEF FlightTask, LocalLeads, Attended, Clear, Written
<1>6. Streams(t)' /\ Aboard(t)'
  BY <1>1, <1>2, <1>4 DEF FlightTask, LocalStops, Streams, Aboard, Naming
<1> QED BY <1>1, <1>5, <1>6, KeepStore, FlightOthers DEF FlightTask

LEMMA UploadFlies ==
    ASSUME RInv, Roles, NameInv, FlightInv, NEW t \in Tasks, UploadStep(t) \/ StartUpload(t), Others(U(t))
    PROVE  FlightInv'
<1> DEFINE w == U(t)
           r == row[t]
           held == [r EXCEPT !.state = "verification_failed_retained", !.kind = "conflict", !.verified = FALSE]
           again == [r EXCEPT !.state = "queued", !.lpath = "none", !.verified = FALSE]
           fresh == [r EXCEPT !.state = "waiting_upload", !.rpath = NoPath, !.final = NoPath, !.verified = FALSE]
<1>1. /\ w \in Workers /\ w[2] = t /\ r \in Row /\ Role(t) /\ FlightTask(t)
      /\ D(t) \in Workers /\ D(t) # w /\ pc'[D(t)] = pc[D(t)]
  BY Pair DEF Roles, Others, FlightInv
<1>2. UNCHANGED store
  BY DEF UploadStep, UploadBegin, Recheck, StartUpload
<1>3. StoreOf(t)
  BY <1>2, KeepStore
<1>4. /\ held.state = "verification_failed_retained" /\ held.temp = r.temp
      /\ again.state = "queued" /\ again.temp = r.temp
      /\ fresh \in Row /\ fresh.state = "waiting_upload" /\ fresh.temp = r.temp /\ fresh.kind = r.kind
  <2> HIDE DEF r
  <2> QED BY <1>1 DEF Row, States
<1>5. /\ \A q : Put(t, q) => row'[t] = q
      /\ \A l : Goto(w, l) => pc'[w] = l
  BY <1>1, Mine
<1>6. ASSUME row'[t].temp = r.temp, pc'[w] \in {"idle", "notify", "resume", "recheck", "complete", "start"},
             pc[D(t)] \in {"write", "writing"} => row'[t].state = "streaming",
             \/ row'[t].state \notin Running
             \/ /\ row'[t].state = r.state /\ row'[t].kind = r.kind /\ row'[t].cancel = r.cancel
                /\ row'[t].final = r.final
                /\ pc[w] \in {"idle", "notify", "start"}
             \/ row'[t].state \notin InFlight /\ row'[t].kind \notin Barring
      PROVE  FlightInv'
  <2>1. Attended(t)' /\ Clear(t)' /\ Streams(t)'
    BY <1>1, <1>6 DEF FlightTask, Attended, Clear, Streams, Running, InFlight
  <2>2. Written(t)' /\ Aboard(t)'
    BY <1>1, <1>2, <1>6 DEF FlightTask, Written, Stands, Exists, Aboard, Naming, Running, InFlight
  <2> HIDE DEF w, r
  <2> QED BY <1>1, <1>3, <2>1, <2>2, FlightOthers DEF FlightTask, w
<1>7. CASE StartUpload(t)
  <2>1. UNCHANGED row /\ pc'[w] = "start" /\ pc[w] = "idle"
    BY <1>5, <1>7 DEF StartUpload, Active
  <2> QED BY <1>1, <1>6, <2>1 DEF FlightTask, Streams
<1>8. CASE UploadBegin(t)
  <2>1. /\ pc[w] = "start"
        /\ \/ UNCHANGED row /\ (Goto(w, "idle") \/ Goto(w, "recheck"))
           \/ CheckLocal(w, r)
    BY <1>8 DEF UploadBegin
  <2>2. r.state \notin {"streaming"} /\ pc[D(t)] \notin {"write", "writing"}
    BY <1>1, <2>1 DEF Role, RoleOf, Uploading, FlightTask, Streams
  <2>3. CASE UNCHANGED row /\ (Goto(w, "idle") \/ Goto(w, "recheck"))
    BY <1>1, <1>5, <1>6, <2>1, <2>2, <2>3
  <2>4. CASE CheckLocal(w, r)
    <3>1. /\ Kin(row'[t], r) /\ pc'[w] \in {"resume", "idle", "notify"}
          /\ row'[t] = r \/ row'[t].state \in FailedStates \cup {"queued"}
      <4> HIDE DEF r
      <4> QED BY <1>1, <2>4, CheckEffect DEF FailedStates
    <3>2. row'[t].state \in FailedStates \cup {"queued"} => row'[t].state \notin Running
      BY DEF FailedStates, Running, InFlight
    <3> QED BY <1>1, <1>6, <2>1, <2>2, <3>1, <3>2 DEF Kin, Twin
  <2> QED BY <2>1, <2>3, <2>4
<1>9. CASE Recheck(w)
  <2>1. pc[w] = "recheck"
    BY <1>9 DEF Recheck
  <2>2. r.state = "cleanup_pending" /\ pc[D(t)] \notin {"write", "writing"} /\ r.kind \notin Barring
    BY <1>1, <2>1 DEF Role, RoleOf, Uploading, Downloading, Finishing, FlightTask, Clear, Running
  <2>3. \/ Goto(w, "complete") /\ UNCHANGED row
        \/ (Put(t, held) \/ Put(t, again)) /\ Goto(w, "idle")
        \/ CheckLocal(w, fresh)
    BY <1>1, <1>9 DEF Recheck
  <2>4. CASE Goto(w, "complete") /\ UNCHANGED row
    BY <1>1, <1>5, <1>6, <2>2, <2>4 DEF InFlight
  <2> HIDE DEF held, again, fresh
  <2>5. CASE (Put(t, held) \/ Put(t, again)) /\ Goto(w, "idle")
    BY <1>4, <1>5, <1>6, <2>2, <2>5 DEF Running, InFlight
  <2>6. CASE CheckLocal(w, fresh)
    <3>1. /\ Kin(row'[t], fresh) /\ pc'[w] \in {"resume", "idle", "notify"}
          /\ row'[t] = fresh \/ row'[t].state \in FailedStates \cup {"queued"}
      BY <1>4, <2>6, CheckEffect DEF FailedStates
    <3>2. row'[t].state \notin InFlight /\ row'[t].kind = r.kind /\ row'[t].temp = r.temp
      BY <1>4, <3>1 DEF Kin, Twin, FailedStates, InFlight
    <3> QED BY <1>6, <2>2, <3>1, <3>2
  <2> QED BY <2>3, <2>4, <2>5, <2>6
<1> QED BY <1>7, <1>8, <1>9 DEF UploadStep

-------------------------------------------------------------------------------
(* Flight through cancellations and commands *)

\* A task whose coroutines are quiet is in flight only while a cancellation of
\* it is asked for.
LEMMA QuietFlies ==
    ASSUME RInv, NameInv, FlightInv, NEW t \in Tasks, OtherRows(t), StoreOf(t),
           \A v \in Workers : v[2] # t => pc'[v] = pc[v],
           pc'[D(t)] \in {"idle", "notify"}, pc'[U(t)] \in {"idle", "notify", "start"},
           row'[t].cancel \/ row'[t].state \notin InFlight, Clear(t)'
    PROVE  FlightInv'
<1>1. FlightTask(t)'
  BY DEF FlightTask, Attended, Written, Streams, Aboard, Naming, InFlight
<1> QED BY <1>1, FlightApart

\* A cancelled coroutine hands no barred row on.
LEMMA InterruptedClear ==
    ASSUME RInv, NEW t \in Tasks, Role(t), Clear(t), NEW w \in {D(t), U(t)}, pc[w] # "notify",
           NEW r \in Row, r.state = row[t].state, r.kind = row[t].kind
    PROVE  LET q == Interrupted(w, r) IN
           (q.state \in Running => q.kind \notin Barring) /\ (q = r \/ q.state \in {"waiting_upload", "queued"})
<1> DEFINE q == Interrupted(w, r)
<1>1. /\ Kin(q, r)
      /\ \/ q = r
         \/ Handles(w, r) /\ w[1] = "upload" /\ q.state = "waiting_upload"
         \/ Handles(w, r) /\ w[1] # "upload" /\ job[w].how = "local" /\ file[w[2]] = "whole" /\ q.state = "waiting_upload"
         \/ q.state = "queued"
  BY InterruptedFacts
<1> SUFFICES (q.state \in Running => q.kind \notin Barring) /\ (q = r \/ q.state \in {"waiting_upload", "queued"})
  OBVIOUS
<1> HIDE DEF q
<1>2. D(t)[1] = "download" /\ U(t)[1] = "upload" /\ D(t)[2] = t /\ pc[w] \in Labels
  BY Pair
<1>3. CASE Handles(w, r) /\ w[1] = "upload"
  <2>1. r.state \in Running
    BY <1>2, <1>3 DEF Handles, Role, RoleOf, Uploading, Running, InFlight
  <2> QED BY <1>1, <2>1 DEF Kin, Clear, Running
<1>4. CASE Handles(w, r) /\ w[1] # "upload" /\ job[w].how = "local" /\ file[w[2]] = "whole"
  <2>1. w = D(t) /\ pc[w] \notin {"idle", "start", "notify", "fetch", "renaming", "backoff"} /\ pc[w] \notin Remote
    BY <1>2, <1>4 DEF Handles, Role, RoleOf, Coroutines, Downloading
  <2>2. pc[w] = "renamed"
    BY <1>2, <2>1 DEF Labels, Remote
  <2>3. r.state \in Running
    BY <2>1, <2>2 DEF Role, RoleOf, Downloading, Running
  <2> QED BY <1>1, <2>3 DEF Kin, Clear
<1>5. CASE q = r
  BY <1>5 DEF Clear
<1>6. CASE q.state = "queued"
  BY <1>6 DEF Running, InFlight
<1> QED BY <1>1, <1>3, <1>4, <1>5, <1>6

LEMMA SettledFlies ==
    ASSUME RInv, NameInv, FlightInv, NEW t \in Tasks, NEW r \in Row, r.state = row[t].state, r.kind = row[t].kind,
           r.cancel, SettledBy(t, r), UNCHANGED <<store, pc>>,
           pc[D(t)] = "idle", pc[U(t)] \in {"idle", "start"}
    PROVE  FlightInv'
<1>1. OtherRows(t) /\ StoreOf(t) /\ Clear(t)
  BY KeepStore DEF SettledBy, OtherRows, FlightInv, FlightTask
<1>2. /\ row'[t].state = r.state \/ row'[t].state = "cancelled"
      /\ row'[t].kind = r.kind
      /\ row'[t].cancel \/ row'[t].state = "cancelled" \/ NeedsReview(r) \/ r.state \in Ended
  BY DEF SettledBy, EndedBy
<1>3. Clear(t)' /\ (row'[t].cancel \/ row'[t].state \notin InFlight)
  BY <1>1, <1>2 DEF Clear, NeedsReview, Ended, Running, InFlight, Barring
<1> QED BY <1>1, <1>3, QuietFlies

LEMMA CancelAskFlies ==
    ASSUME RInv, Roles, NameInv, FlightInv, NoticesYield, Undisturbed, NEW t \in Tasks, CancelAsk(t)
    PROVE  FlightInv'
<1> DEFINE asked == [row[t] EXCEPT !.cancel = TRUE]
           used == [spent EXCEPT !["cancel"] = @ + 1]
           w == IF Active(D(t)) THEN D(t) ELSE U(t)
<1>1. /\ row \in [Tasks -> Row] /\ cancelling \in [Tasks -> {"idle", "asked", "purging"}]
      /\ pc \in [Workers -> Labels] /\ row[t].state \notin Ended /\ Role(t) /\ FlightTask(t)
  BY DEF RInv, TInv, TypeOK, CancelAsk, Roles, FlightInv
<1>0. pc[D(t)] # "notify" /\ pc[U(t)] # "notify"
  BY NoNotice, Pair DEF CancelAsk, Spend
<1>2. asked \in Row /\ asked.cancel /\ asked.state = row[t].state /\ asked.kind = row[t].kind
  <2>1. row[t] \in Row
    BY <1>1
  <2> QED BY <2>1 DEF Row
<1>3. \/ CancelRunning(t, asked, used)
      \/ /\ ~ Active(D(t)) /\ ~ Active(U(t)) /\ SettleCancel(t, asked, used)
         /\ UNCHANGED <<store, pc>>
  BY DEF CancelAsk
<1>4. CASE /\ ~ Active(D(t)) /\ ~ Active(U(t)) /\ SettleCancel(t, asked, used)
           /\ UNCHANGED <<store, pc>>
  <2> HIDE DEF asked, used
  <2>1. SettledBy(t, asked) /\ pc[D(t)] = "idle" /\ pc[U(t)] = "idle"
    BY <1>2, <1>4, SettleCancelEffect DEF Active
  <2> QED BY <1>2, <1>4, <2>1, SettledFlies
<1>5. CASE CancelRunning(t, asked, used)
  <2> DEFINE q == Interrupted(w, asked)
  <2>1. /\ Put(t, q) /\ store' \in {store, Landed({w})} /\ UNCHANGED purge
        /\ Goto(w, "idle") /\ cancelling' = [cancelling EXCEPT ![t] = "asked"]
    BY <1>5 DEF CancelRunning
  <2>2. w \in Workers /\ w[2] = t /\ w \in {D(t), U(t)}
    BY Pair
  <2>3. Kin(q, asked) /\ (q.state \in Running => q.kind \notin Barring)
    <3> HIDE DEF w, asked
    <3> QED BY <1>0, <1>1, <1>2, <2>2, InterruptedFacts, InterruptedClear DEF FlightTask
  <2>4. \A v \in {D(t), U(t)} \ {w} : pc[v] \in {"idle", "start"} /\ (v = D(t) => pc[v] = "idle")
    BY <1>0, <1>1, Pair DEF Active, Role, RoleOf, Downloading
  <2> HIDE DEF w, asked, q
  <2>5. /\ row'[t] = q /\ OtherRows(t) /\ pc'[w] = "idle"
        /\ \A v \in Workers \ {w} : pc'[v] = pc[v]
    BY <1>1, <2>1, <2>2 DEF Put, Goto, OtherRows
  <2>6. StoreOf(t)
    BY <2>1, <2>2, LandedOne
  <2>7. Clear(t)' /\ row'[t].cancel
    BY <1>2, <2>3, <2>5 DEF Clear, Kin, Twin
  <2>8. pc'[D(t)] = "idle" /\ pc'[U(t)] \in {"idle", "start"} /\ \A v \in Workers : v[2] # t => pc'[v] = pc[v]
    BY <2>2, <2>4, <2>5, Pair
  <2> QED BY <2>5, <2>6, <2>7, <2>8, QuietFlies
<1> QED BY <1>3, <1>4, <1>5

LEMMA CancelStepFlies ==
    ASSUME RInv, Roles, NameInv, FlightInv, NEW t \in Tasks, CancelStep(t)
    PROVE  FlightInv'
<1>1. /\ row \in [Tasks -> Row] /\ cancelling \in [Tasks -> {"idle", "asked", "purging"}]
      /\ purge \in [Tasks -> SUBSET Paths] /\ row[t] \in Row /\ Listed(t, row[t], cancelling[t], purge[t])
      /\ Role(t) /\ UNCHANGED pc /\ cancelling[t] # "idle" /\ Clear(t)
  BY DEF RInv, TInv, TypeOK, Roles, NameInv, Listing, CancelStep, CancelSettle, CancelPurge, CancelPurgeFails,
         FlightInv, FlightTask
<1>2. row[t].cancel /\ pc[D(t)] = "idle" /\ pc[U(t)] \in {"idle", "start"}
  BY <1>1 DEF Role, RoleOf, Cancelled
<1>3. CASE CancelSettle(t)
  <2>1. SettledBy(t, row[t]) /\ UNCHANGED store
    BY <1>1, <1>3, SettleCancelEffect DEF CancelSettle
  <2> QED BY <1>1, <1>2, <2>1, SettledFlies
<1>4. CASE CancelPurge(t)
  <2>1. PICK p \in purge[t] :
          /\ store' = [store EXCEPT ![p] = Absent]
          /\ purge' = [purge EXCEPT ![t] = @ \ {p}]
          /\ \/ EndCancel(t, row[t], spent) /\ cancelling' = [cancelling EXCEPT ![t] = "idle"]
             \/ UNCHANGED <<row, cancelling>>
    BY <1>4 DEF CancelPurge
  <2>2. p \in Recorded(row[t]) /\ p \in Paths
    BY <1>1, <1>4, <2>1 DEF Listed, CancelPurge
  <2>3. StoreOf(t)
    BY <2>1, <2>2, WriteOwn
  <2>4. EndedBy(t, row[t]) \/ UNCHANGED row
    BY <1>1, <2>1, EndCancelEffect
  <2>5. OtherRows(t) /\ Clear(t)' /\ (row'[t].cancel \/ row'[t].state \notin InFlight)
    BY <1>1, <1>2, <2>1, <2>4 DEF EndedBy, OtherRows, Clear, Running, InFlight
  <2> QED BY <1>1, <1>2, <2>3, <2>5, QuietFlies
<1>5. CASE CancelPurgeFails(t)
  <2>1. OtherRows(t) /\ UNCHANGED <<row, store>> /\ StoreOf(t)
    BY <1>1, <1>5, KeepStore DEF CancelPurgeFails, OtherRows
  <2> QED BY <1>1, <1>2, <2>1, QuietFlies DEF Clear
<1> QED BY <1>3, <1>4, <1>5 DEF CancelStep

LEMMA RetryFlies ==
    ASSUME RInv, NameInv, FlightInv, NEW t \in Tasks, Retry(t)
    PROVE  FlightInv'
<1> DEFINE asked == [row[t] EXCEPT !.cancel = FALSE]
           r == IF row[t].cancel THEN Recovered(t, asked, {}) ELSE row[t]
           q == row'[t]
<1>1. /\ Rests(t) /\ RowOnly(t) /\ UNCHANGED store /\ ~ NeedsReview(row[t]) /\ Clear(t)
      /\ r \in Row /\ asked \in Row /\ row[t] \in Row
      /\ \/ r.state \notin FailedStates /\ q = r /\ row[t].cancel
         \/ q = Requeued(t, r)
  BY RetryEffect, Pair DEF FlightInv, FlightTask
<1>2. asked.state = row[t].state /\ asked.kind = row[t].kind /\ ~ asked.cancel
  BY <1>1 DEF Row
<1>3. /\ OtherRows(t) /\ StoreOf(t) /\ UNCHANGED pc /\ pc[D(t)] = "idle" /\ pc[U(t)] = "idle"
  BY <1>1, KeepStore DEF RowOnly, OtherRows, Rests
<1>4. CASE q = Requeued(t, r)
  <2>1. q.kind = "none" /\ q.state \in {"waiting_upload", "queued"}
    <3> HIDE DEF r
    <3> QED BY <1>1, <1>4, RequeuedFacts
  <2> QED BY <1>3, <2>1, QuietFlies DEF Clear, Barring, InFlight
<1>5. CASE q = r /\ row[t].cancel
  <2> DEFINE x == Recovered(t, asked, {})
  <2>1. /\ x.kind = asked.kind
        /\ \/ x = asked /\ LeftAlone(asked)
           \/ ~ LeftAlone(asked) /\ x.state \in {"queued", "waiting_upload", "download_failed"}
    <3> HIDE DEF asked
    <3> QED BY <1>1, RecoveredFacts
  <2>2. q = x
    BY <1>5
  <2> HIDE DEF asked, r, x
  <2>3. LeftAlone(asked) => asked.state \notin InFlight
    BY <1>1, <1>2 DEF LeftAlone, NeedsReview, Clear, Barring, Recoverable, InFlight, Running
  <2>4. ~ LeftAlone(asked) => asked.kind \notin Barring
    <3>1. SUFFICES ASSUME ~ LeftAlone(asked), asked.kind \in Barring PROVE FALSE
      OBVIOUS
    <3> QED BY <3>1 DEF LeftAlone, NeedsReview, Barring
  <2>5. Clear(t)' /\ row'[t].state \notin InFlight
    BY <1>1, <1>2, <2>1, <2>2, <2>3, <2>4 DEF Clear, InFlight
  <2> QED BY <1>3, <2>5, QuietFlies
<1> QED BY <1>1, <1>4, <1>5

LEMMA RecoverFreshFlies ==
    ASSUME RInv, NameInv, FlightInv, NEW t \in Tasks, RecoverFresh(t)
    PROVE  FlightInv'
<1>1. /\ Rests(t) /\ RowOnly(t) /\ UNCHANGED store
      /\ row'[t].state \in {"waiting_upload", "queued"} /\ row'[t].kind = "none"
  BY RecoverFreshEffect
<1>2. OtherRows(t) /\ StoreOf(t) /\ UNCHANGED pc /\ pc[D(t)] = "idle" /\ pc[U(t)] = "idle"
  BY <1>1, KeepStore DEF RowOnly, OtherRows, Rests
<1> QED BY <1>1, <1>2, QuietFlies DEF Clear, Barring, InFlight

LEMMA NoteFlies ==
    ASSUME RInv, NameInv, FlightInv, NEW t \in Tasks, RequestStream(t) \/ Confirm(t)
    PROVE  FlightInv'
<1> DEFINE streamed == [row[t] EXCEPT !.state = "queued", !.mode = "stream", !.dtries = 0, !.utries = 0]
           confirmed == [row[t] EXCEPT !.state = "confirmed"]
<1>1. row \in [Tasks -> Row] /\ row[t] \in Row /\ FlightTask(t)
  BY DEF RInv, TInv, TypeOK, FlightInv
<1>2. /\ Named(streamed, row[t]) /\ streamed.state = "queued"
      /\ Named(confirmed, row[t]) /\ confirmed.state = "confirmed"
  BY <1>1 DEF Row, Named
<1>3. /\ UNCHANGED <<store, pc, cancelling, purge>>
      /\ Put(t, streamed) \/ Put(t, confirmed)
      /\ row[t].state \in {"queued", "download_failed", "completed"}
  BY DEF RequestStream, Confirm, commands
<1> HIDE DEF streamed, confirmed
<1>4. /\ row'[t].state \in {"queued", "confirmed"} /\ row'[t].temp = row[t].temp
      /\ OtherRows(t) /\ StoreOf(t)
  BY <1>1, <1>2, <1>3, KeepStore DEF Put, OtherRows, Named
<1>5. pc[D(t)] \notin {"write", "writing"}
  BY <1>1, <1>3 DEF FlightTask, Streams
<1>6. FlightTask(t)'
  BY <1>1, <1>3, <1>4, <1>5
     DEF FlightTask, Attended, Clear, Written, Streams, Aboard, Exists, Running, InFlight
<1> QED BY <1>3, <1>4, <1>6, FlightApart

LEMMA OutsideFlies ==
    ASSUME RInv, NameInv, FlightInv, NEW t \in Tasks, LoseFile(t) \/ Drift(t)
    PROVE  FlightInv'
<1>1. /\ UNCHANGED <<row, pc, cancelling, purge>> /\ OtherRows(t) /\ FlightTask(t)
  BY DEF LoseFile, Drift, commands, OtherRows, FlightInv
<1>2. CASE LoseFile(t)
  <2>1. UNCHANGED store /\ StoreOf(t)
    BY <1>2, KeepStore DEF LoseFile
  <2>2. FlightTask(t)'
    BY <1>1, <2>1 DEF FlightTask, Attended, Clear, Written, Stands, Streams, Aboard, Exists
  <2> QED BY <1>1, <2>1, <2>2, FlightApart
<1>3. CASE Drift(t)
  <2>1. PICK left \in {Absent, Object(t, FALSE)} : store' = [store EXCEPT ![row[t].rpath] = left]
    BY <1>3 DEF Drift
  <2>2. row[t].rpath \in Recorded(row[t]) /\ row[t].state = "cleanup_pending"
    BY <1>3, Recorded3 DEF Drift, Exists
  <2>3. left = Absent \/ left.by = t
    BY DEF Object
  <2>4. StoreOf(t)
    BY <2>1, <2>2, <2>3, WriteOwn
  <2>5. pc'[D(t)] = "idle" /\ pc'[U(t)] = "idle" /\ row'[t].state \notin InFlight /\ Clear(t)'
    BY <1>1, <1>3, <2>2 DEF Drift, Active, InFlight, FlightTask, Clear
  <2> QED BY <1>1, <2>4, <2>5, QuietFlies
<1> QED BY <1>2, <1>3

-------------------------------------------------------------------------------
(* Flight through restarts *)

\* After a start no coroutine runs, and only a pending cancellation may have
\* left a row in flight: recover takes up the others, as no kind bars them.
LEMMA RestartFlies ==
    ASSUME NEW rows, NEW parts, Restart(rows, parts),
           \A t \in Tasks : rows[t] \in Row /\ (rows[t].state \in Running => rows[t].kind \notin Barring)
    PROVE  FlightInv'
<1>1. PICK stuck : row' = [t \in Tasks |-> Recovered(t, rows[t], stuck)]
  BY DEF Restart
<1>2. ASSUME NEW t \in Tasks
      PROVE  FlightTask(t)'
  <2> DEFINE q == Recovered(t, rows[t], stuck)
  <2>1. D(t) \in Workers /\ U(t) \in Workers
    BY DEF D, U, Workers
  <2>2. pc'[D(t)] = "idle" /\ pc'[U(t)] = "idle"
    BY <2>1 DEF Restart
  <2>3. /\ q.kind = rows[t].kind
        /\ \/ q = rows[t] /\ LeftAlone(rows[t])
           \/ ~ LeftAlone(rows[t]) /\ q.state \in {"queued", "waiting_upload", "download_failed"}
    BY RecoveredFacts
  <2>4. row'[t] = q
    BY <1>1
  <2> HIDE DEF q
  <2>5. q.state \in InFlight => q.cancel
    BY <2>3 DEF LeftAlone, NeedsReview, Recoverable, InFlight, Running, Barring
  <2>6. q.state \in Running => q.kind \notin Barring
    <3>1. CASE q = rows[t]
      BY <3>1
    <3>2. CASE ~ LeftAlone(rows[t])
      BY <2>3, <3>2 DEF LeftAlone, NeedsReview, Barring
    <3> QED BY <2>3, <3>1, <3>2
  <2> QED BY <2>2, <2>4, <2>5, <2>6
          DEF FlightTask, Attended, Clear, Written, Streams, Aboard, Naming, InFlight
<1> QED BY <1>2 DEF FlightInv

LEMMA RestartedFlies ==
    ASSUME RInv, Roles, NoticesYield, Unstopped, FlightInv, Crash \/ Stop
    PROVE  FlightInv'
<1> DEFINE rows == [t \in Tasks |-> Interrupted(U(t), Interrupted(D(t), row[t]))]
           parts == [t \in Tasks |-> PartInterrupted(D(t), row[t])]
<1>1. \A t \in Tasks : row[t] \in Row /\ Role(t) /\ Clear(t)
  BY DEF RInv, TInv, TypeOK, Roles, FlightInv, FlightTask
<1>2. CASE Crash
  BY <1>1, <1>2, RestartFlies DEF Crash, Clear
<1>3. CASE Stop
  <2>1. ASSUME NEW t \in Tasks
        PROVE  rows[t] \in Row /\ (rows[t].state \in Running => rows[t].kind \notin Barring)
    <3> DEFINE d == Interrupted(D(t), row[t])
               u == Interrupted(U(t), d)
    <3>1. /\ TInv /\ row[t] \in Row /\ D(t) \in Workers /\ U(t) \in Workers /\ D(t)[2] = t
          /\ U(t)[1] = "upload" /\ pc[D(t)] \in Labels
      BY Pair DEF RInv
    <3>2. d \in Row /\ u \in Row
      BY <3>1, InterruptedType
    <3>3. pc[D(t)] # "notify" /\ pc[U(t)] # "notify"
      BY <1>3, <3>1, PipelineAssumption DEF Stop, Spend, NoticesYield, Unstopped, RInv, TInv, TypeOK, Events
    <3>4. d.state \in Running => d.kind \notin Barring
      BY <1>1, <3>1, <3>3, InterruptedClear
    <3>5. Handles(U(t), d) => d = row[t]
      <4>1. Handles(U(t), d) => pc[D(t)] = "idle"
        BY <1>1, <3>3 DEF Handles, Role, RoleOf, Downloading
      <4>2. pc[D(t)] = "idle" => d = row[t]
        BY DEF Interrupted, Handles
      <4> QED BY <4>1, <4>2
    <3>6. u.state \in Running => u.kind \notin Barring
      <4>1. CASE d = row[t]
        <5>1. u = Interrupted(U(t), row[t])
          BY <4>1
        <5> HIDE DEF u, d
        <5> QED BY <1>1, <3>1, <3>3, <5>1, InterruptedClear
      <4>2. CASE ~ Handles(U(t), d)
        <5>1. u = d
          BY <4>2 DEF Interrupted
        <5> HIDE DEF u, d
        <5> QED BY <3>4, <5>1
      <4> HIDE DEF u, d
      <4> QED BY <3>5, <4>1, <4>2
    <3>7. rows[t] = u
      OBVIOUS
    <3> HIDE DEF u, d, rows, parts
    <3> QED BY <3>2, <3>6, <3>7
  <2>2. Restart(rows, parts)
    BY <1>3 DEF Stop
  <2> HIDE DEF rows, parts
  <2> QED BY <2>1, <2>2, RestartFlies
<1> QED BY <1>2, <1>3

-------------------------------------------------------------------------------
(* What is in flight is attended to *)

\* No emergency ends a download that has not yet begun, which finding 3 is about.
Steady == Limit["disk"] = 0

LEMMA NextFlies ==
    ASSUME RInv, Roles, NameInv, KeptInv, FlightInv, NoticesYield, Undisturbed, Unstopped, Plainly, Steady, Next
    PROVE  FlightInv'
<1>1. ASSUME NEW t \in Tasks, CancelStep(t) \/ Command(t) \/ LoseFile(t) \/ Drift(t)
      PROVE  FlightInv'
  BY <1>1, CancelStepFlies, CancelAskFlies, RetryFlies, RecoverFreshFlies, NoteFlies, OutsideFlies DEF Command
<1>2. ~ DiskEmergency
  BY DEF DiskEmergency, Spend, Steady, RInv, TInv, TypeOK, Events
<1> QED BY <1>1, <1>2, NextSplit, LocalFlies, UploadFlies, RemoteFlightKept, CleaningFlies, RestartedFlies

LEMMA InitFlies == Init => FlightInv
<1> SUFFICES ASSUME Init, NEW t \in Tasks PROVE FlightTask(t)
  BY DEF FlightInv
<1>1. D(t) \in Workers /\ U(t) \in Workers
  BY DEF D, U, Workers
<1>2. row[t].state = "queued" /\ pc[D(t)] = "idle" /\ pc[U(t)] = "idle"
  BY <1>1 DEF Init, NewRow
<1> QED BY <1>2 DEF FlightTask, Attended, Clear, Written, Streams, Aboard, Naming, Running, InFlight

\* No task is stranded: one that is being received has a coroutine that works on
\* it, or a cancellation of it waits to be finished, through every failure of
\* the remote side, every command and every restart (_download_one, _upload_one,
\* _stream_one and TaskDB.recover between them leave no row in flight behind).
THEOREM InFlightIsAttended ==
    ASSUME Undisturbed, Unstopped, Plainly, Steady
    PROVE  Spec => []InFlightHasWorker
<1>1. RInv /\ NoticesYield /\ Roles /\ NameInv /\ KeptInv /\ FlightInv /\ [Next]_vars => FlightInv'
  <2>1. CASE UNCHANGED vars
    BY <2>1 DEF vars, FlightInv, FlightTask, Attended, Clear, Written, Stands, Streams, Aboard, Exists
  <2> QED BY <2>1, NextFlies
<1>2. RInv /\ FlightInv => InFlightHasWorker
  BY Pair DEF FlightInv, FlightTask, Attended, InFlight, InFlightHasWorker, Active
<1> QED BY <1>1, <1>2, InitFlies, ContentsAreKept, PTL DEF Spec

-------------------------------------------------------------------------------
(* What the pipeline promises: what one step means to one task *)

\* What the abstract steps rely on before and after.
Fits(t) ==
    /\ row[t].state \in Ended => ~ row[t].cancel
    /\ row[t].state \in {"completed", "confirmed"} => StoredWhole(t)
    /\ row[t].state = "cancelled" => file[t] # "whole" /\ ~ Remains(t)

\* How a step may move the row on,
Turns(t) ==
    LET r == row[t].state
        q == row'[t].state IN
    \/ r \notin Ended /\ q \notin Ended
    \/ r \notin Ended /\ q = "cleanup_pending" /\ ~ row[t].cancel /\ StoredWhole(t)'
    \/ r \notin Ended /\ q = "cancelled" /\ ~ row'[t].cancel /\ (row[t].cancel \/ spent'["cancel"] > spent["cancel"])
    \/ r = "cleanup_pending" /\ q = r /\ (StoredWhole(t) => StoredWhole(t)' \/ spent'["drift"] > spent["drift"])
    \/ r = "cleanup_pending" /\ q \notin Ended /\ ~ StoredWhole(t)
    \/ r = "cleanup_pending" /\ q = "completed" /\ StoredWhole(t)
    \/ r \in {"completed", "confirmed"} /\ q \in {"completed", "confirmed"}
    \/ r = "cancelled" /\ q = r
    \/ r = "cancelled" /\ q \notin Ended /\ spent'["command"] > spent["command"]

\* when it may be marked as unwanted,
Asks(t) ==
    row'[t].cancel /\ ~ row[t].cancel =>
       row[t].state \notin Ended /\ row'[t].state \notin Ended /\ spent'["cancel"] > spent["cancel"]

\* and what becomes of the copies.
Copies(t) ==
    /\ file[t] = "whole" /\ file'[t] # "whole" =>
          \/ spent'["loss"] > spent["loss"] \/ row'[t].cancel \/ row'[t].state = "cancelled"
          \/ row[t].state = "cleanup_pending" /\ row'[t].state = "cleanup_pending" /\ StoredWhole(t)
    /\ row[t].cancel \/ row[t].state = "cancelled" => (file'[t] = "whole" => file[t] = "whole")
    /\ row[t].cancel /\ row'[t].cancel /\ StoredWhole(t)' => StoredWhole(t)

\* These three make a step of the machine of Delivery.
Deals(t) == Turns(t) /\ Asks(t) /\ Copies(t)

LEMMA FateOf ==
    ASSUME NEW t
    PROVE  /\ row[t].state \notin Ended => Fate(t) = "open"
           /\ row[t].state = "cleanup_pending" => Fate(t) = "accepted"
           /\ row[t].state \in {"completed", "confirmed"} => Fate(t) = "received"
           /\ row[t].state = "cancelled" => Fate(t) = "withdrawn"
BY DEF Fate, Ended

\* A row that is done with is not marked any more.
LEMMA DealKeepsUnmarked ==
    ASSUME NEW t \in Tasks, row[t].cancel \in BOOLEAN, row'[t].cancel \in BOOLEAN,
           row[t].state \in Ended => ~ row[t].cancel, Deals(t)
    PROVE  row'[t].state \in Ended => ~ row'[t].cancel
BY DEF Deals, Turns, Asks, Ended

\* A deal is a step of the promise.
LEMMA DealIsStep ==
    ASSUME NEW t \in Tasks, row[t].cancel \in BOOLEAN, row'[t].cancel \in BOOLEAN,
           Fits(t), Fits(t)', Deals(t)
    PROVE  Promise!Step(t)
<1> DEFINE fate == [u \in Tasks |-> Fate(u)]
           asked == [u \in Tasks |-> row[u].cancel]
           copy == [u \in Tasks |-> file[u] = "whole"]
           stored == [u \in Tasks |-> StoredWhole(u)]
           left == [u \in Tasks |-> Remains(u)]
           r == row[t].state
           q == row'[t].state
<1>1. /\ fate[t] = Fate(t) /\ fate'[t] = Fate(t)'
      /\ asked[t] = row[t].cancel /\ asked'[t] = row'[t].cancel
      /\ copy[t] = (file[t] = "whole") /\ copy'[t] = (file'[t] = "whole")
      /\ stored[t] = StoredWhole(t) /\ stored'[t] = StoredWhole(t)'
      /\ left[t] = Remains(t) /\ left'[t] = Remains(t)'
  OBVIOUS
<1>2. /\ r \notin Ended => fate[t] = "open"
      /\ r = "cleanup_pending" => fate[t] = "accepted"
      /\ r \in {"completed", "confirmed"} => fate[t] = "received"
      /\ r = "cancelled" => fate[t] = "withdrawn"
  BY <1>1 DEF Fate, Ended
<1>3. /\ q \notin Ended => fate'[t] = "open"
      /\ q = "cleanup_pending" => fate'[t] = "accepted"
      /\ q \in {"completed", "confirmed"} => fate'[t] = "received"
      /\ q = "cancelled" => fate'[t] = "withdrawn"
  BY <1>1 DEF Fate, Ended
<1>4. Promise!Happens("loss") <=> spent'["loss"] > spent["loss"]
  BY DEF Promise!Happens
<1>5. Promise!Happens("drift") <=> spent'["drift"] > spent["drift"]
  BY DEF Promise!Happens
<1>6. Promise!Happens("cancel") <=> spent'["cancel"] > spent["cancel"]
  BY DEF Promise!Happens
<1>7. Promise!Happens("command") <=> spent'["command"] > spent["command"]
  BY DEF Promise!Happens
<1>8. ~ row[t].cancel /\ ~ row'[t].cancel /\ q # "cancelled" /\ ~ (r = "cleanup_pending" /\ q = "cleanup_pending") =>
         Promise!Keeps(t)
  BY <1>1, <1>4 DEF Promise!Keeps, Deals, Copies
<1>9. Deals(t) /\ Turns(t) /\ Asks(t) /\ Copies(t)
  BY DEF Deals
<1>10. /\ r \in Ended => ~ row[t].cancel
       /\ q \in Ended => ~ row'[t].cancel
       /\ r \in {"completed", "confirmed"} => StoredWhole(t)
       /\ q \in {"completed", "confirmed"} => StoredWhole(t)'
       /\ r = "cancelled" => file[t] # "whole" /\ ~ Remains(t)
       /\ q = "cancelled" => file'[t] # "whole" /\ ~ Remains(t)'
  BY DEF Fits
<1>11. CASE r \notin Ended /\ q \notin Ended
  <2>1. fate[t] = "open" /\ fate'[t] = "open" /\ q # "cancelled" /\ r # "cleanup_pending"
    BY <1>2, <1>3, <1>11 DEF Ended
  <2>2. CASE ~ row[t].cancel /\ ~ row'[t].cancel
    <3>1. Promise!Work(t)
      BY <1>1, <1>8, <2>1, <2>2 DEF Promise!Work, Promise!Passes
    <3> QED BY <3>1 DEF Promise!Step
  <2>3. CASE ~ row[t].cancel /\ row'[t].cancel
    <3>1. Promise!Ask(t)
      BY <1>1, <1>6, <1>9, <2>1, <2>3 DEF Promise!Ask, Promise!Passes, Asks
    <3> QED BY <3>1 DEF Promise!Step
  <2>4. CASE row[t].cancel /\ row'[t].cancel
    <3>1. Promise!Withdrawing(t)
      BY <1>1, <1>9, <2>1, <2>4 DEF Promise!Withdrawing, Promise!Passes, Copies
    <3> QED BY <3>1 DEF Promise!Step
  <2>5. CASE row[t].cancel /\ ~ row'[t].cancel
    <3>1. Promise!Relent(t)
      BY <1>1, <1>4, <1>9, <2>1, <2>5 DEF Promise!Relent, Promise!Passes, Promise!Keeps, Copies
    <3> QED BY <3>1 DEF Promise!Step
  <2> QED BY <2>2, <2>3, <2>4, <2>5
<1>12. CASE r \notin Ended /\ q = "cleanup_pending" /\ ~ row[t].cancel /\ StoredWhole(t)'
  <2>1. ~ row'[t].cancel /\ Promise!Keeps(t)
    BY <1>8, <1>10, <1>12 DEF Ended
  <2>2. Promise!Accept(t)
    BY <1>1, <1>2, <1>3, <1>12, <2>1 DEF Promise!Accept, Promise!Passes
  <2> QED BY <2>2 DEF Promise!Step
<1>13. CASE r \notin Ended /\ q = "cancelled" /\ (row[t].cancel \/ spent'["cancel"] > spent["cancel"])
  <2>1. Promise!Withdraw(t)
    BY <1>1, <1>2, <1>3, <1>6, <1>10, <1>13 DEF Promise!Withdraw, Promise!Passes, Ended
  <2> QED BY <2>1 DEF Promise!Step
<1>14. CASE r = "cleanup_pending" /\ q = r /\ (StoredWhole(t) => StoredWhole(t)' \/ spent'["drift"] > spent["drift"])
  <2>1. ~ row'[t].cancel
    BY <1>10, <1>14 DEF Ended
  <2>2. copy[t] => copy'[t] \/ stored[t] \/ Promise!Happens("loss")
    BY <1>1, <1>4, <1>9, <1>14, <2>1 DEF Copies
  <2>3. Promise!Tidy(t)
    BY <1>1, <1>2, <1>3, <1>5, <1>14, <2>1, <2>2 DEF Promise!Tidy, Promise!Passes
  <2> QED BY <2>3 DEF Promise!Step
<1>15. CASE r = "cleanup_pending" /\ q \notin Ended /\ ~ StoredWhole(t)
  <2>1. ~ row[t].cancel /\ ~ row'[t].cancel
    BY <1>9, <1>10, <1>15 DEF Asks, Ended
  <2>2. Promise!Keeps(t)
    BY <1>8, <1>15, <2>1 DEF Ended
  <2>3. Promise!TakeBack(t)
    BY <1>1, <1>2, <1>3, <1>15, <2>1, <2>2 DEF Promise!TakeBack, Promise!Passes
  <2> QED BY <2>3 DEF Promise!Step
<1>16. CASE r = "cleanup_pending" /\ q = "completed" /\ StoredWhole(t)
  <2>1. ~ row[t].cancel /\ ~ row'[t].cancel /\ Promise!Keeps(t)
    BY <1>8, <1>10, <1>16 DEF Ended
  <2>2. Promise!Receive(t)
    BY <1>1, <1>2, <1>3, <1>10, <1>16, <2>1 DEF Promise!Receive, Promise!Passes
  <2> QED BY <2>2 DEF Promise!Step
<1>17. CASE r \in {"completed", "confirmed"} /\ q \in {"completed", "confirmed"}
  <2>1. ~ row[t].cancel /\ ~ row'[t].cancel /\ Promise!Keeps(t)
    BY <1>8, <1>10, <1>17 DEF Ended
  <2>2. Promise!Rest(t)
    BY <1>1, <1>2, <1>3, <1>10, <1>17, <2>1 DEF Promise!Rest, Promise!Passes
  <2> QED BY <2>2 DEF Promise!Step
<1>18. CASE r = "cancelled" /\ q = r
  <2>1. Promise!Bygone(t)
    BY <1>1, <1>2, <1>3, <1>10, <1>18 DEF Promise!Bygone, Promise!Passes, Ended
  <2> QED BY <2>1 DEF Promise!Step
<1>19. CASE r = "cancelled" /\ q \notin Ended /\ spent'["command"] > spent["command"]
  <2>1. ~ row[t].cancel /\ ~ row'[t].cancel
    BY <1>9, <1>10, <1>19 DEF Asks, Ended
  <2>2. file'[t] # "whole"
    BY <1>9, <1>10, <1>19 DEF Copies
  <2>3. Promise!Reopen(t)
    BY <1>1, <1>2, <1>3, <1>7, <1>19, <2>1, <2>2 DEF Promise!Reopen, Promise!Passes
  <2> QED BY <2>3 DEF Promise!Step
<1> QED
  BY <1>9, <1>11, <1>12, <1>13, <1>14, <1>15, <1>16, <1>17, <1>18, <1>19 DEF Turns

\* A row that is done with is not marked as cancelled by its user.
Unmarked == \A t \in Tasks : row[t].state \in Ended => ~ row[t].cancel

\* The invariants hold what the promise relies on.
AllFit == \A t \in Tasks : Fits(t)

LEMMA InvFits == NameInv /\ KeptInv /\ Unmarked => AllFit
<1> SUFFICES ASSUME NameInv, KeptInv, Unmarked, NEW t \in Tasks PROVE Fits(t)
  BY DEF AllFit
<1>1. Listed(t, row[t], cancelling[t], purge[t]) /\ KeptTask(t)
  BY DEF NameInv, Listing, KeptInv
<1>2. CASE row[t].state \in {"completed", "confirmed"}
  <2>1. row[t].final # NoPath /\ row[t].rpath = row[t].final /\ store[row[t].final] = Object(t, TRUE)
    BY <1>1, <1>2 DEF Listed, Received, KeptTask, Stored
  <2> QED BY <1>2, <2>1 DEF Fits, StoredWhole, Unmarked
<1>3. CASE row[t].state = "cancelled"
  <2>1. Recorded(row[t]) = {} /\ part[t] = "absent" /\ file[t] # "whole"
    BY <1>1, <1>3 DEF Listed, KeptTask, Emptied
  <2>2. ~ Remains(t)
    BY <1>1, <2>1 DEF KeptTask, OnRecord, Remains
  <2> QED BY <1>3, <2>1, <2>2 DEF Fits, Unmarked
<1> QED BY <1>2, <1>3 DEF Fits, Unmarked

\* The recorded object of a row that keeps its path.
LEMMA SameObject ==
    ASSUME NEW t \in Tasks, row'[t].rpath = row[t].rpath,
           \A p \in Recorded(row[t]) : store'[p] = store[p]
    PROVE  StoredWhole(t)' <=> StoredWhole(t)
BY Recorded3 DEF StoredWhole

\* A task that nothing happens to,
LEMMA SameDeals ==
    ASSUME NEW t \in Tasks, row'[t].state = row[t].state, row'[t].cancel = row[t].cancel, file'[t] = file[t],
           StoredWhole(t)' <=> StoredWhole(t)
    PROVE  Deals(t)
BY DEF Deals, Turns, Asks, Copies, Ended

LEMMA OtherDeals ==
    ASSUME RInv, NameInv, NEW t \in Tasks, StoreOf(t), NEW u \in Tasks \ {t}, row'[u] = row[u], file'[u] = file[u]
    PROVE  Deals(u)
BY StoreApart, SameObject, SameDeals

LEMMA TaskDeals ==
    ASSUME RInv, NameInv, NEW t \in Tasks, StoreOf(t), FilesOf(t), \A u \in Tasks \ {t} : row'[u] = row[u], Deals(t)
    PROVE  \A u \in Tasks : Deals(u)
BY OtherDeals DEF FilesOf

\* and one that is worked on.
LEMMA BusyDeals ==
    ASSUME NEW t \in Tasks, row[t].state \notin Ended, row'[t].state \notin Ended, ~ row[t].cancel, ~ row'[t].cancel,
           file[t] = "whole" => file'[t] = "whole"
    PROVE  Deals(t)
BY DEF Deals, Turns, Asks, Copies, Ended

\* One that turns out not to be stored after all.
LEMMA BackDeals ==
    ASSUME NEW t \in Tasks, row[t].state = "cleanup_pending", row'[t].state \notin Ended, ~ row[t].cancel,
           ~ row'[t].cancel, file[t] = "whole" => file'[t] = "whole", ~ StoredWhole(t)
    PROVE  Deals(t)
BY DEF Deals, Turns, Asks, Copies, Ended

-------------------------------------------------------------------------------
(* What the workers do to their tasks *)

LEMMA LocalBusy ==
    ASSUME RInv, Roles, NEW t \in Tasks, LocalStep(t)
    PROVE  row[t].state \notin Ended /\ ~ row[t].cancel
<1>1. Role(t) /\ D(t) \in Workers
  BY Pair DEF Roles
<1>2. CASE StartDownload(t)
  BY <1>1, <1>2 DEF StartDownload, Ended
<1>3. CASE pc[D(t)] \in {"start", "fetch", "renaming", "renamed"}
  BY <1>1, <1>3 DEF Role, RoleOf, Downloading, Cancelled, Ended
<1>4. CASE pc[D(t)] = "backoff" /\ job[D(t)].how = "local"
  BY <1>1, <1>4 DEF Role, RoleOf, Downloading, Cancelled, Ended
<1> QED BY <1>2, <1>3, <1>4
        DEF LocalStep, DownloadStep, DownloadBegin, DownloadRetry, DownloadArrives, DownloadError, DownloadRefused,
            DownloadRename, DownloadRenameFails, DownloadRecord

\* A download only adds a copy.
LEMMA LocalDeals ==
    ASSUME RInv, Roles, NEW t \in Tasks, LocalStep(t)
    PROVE  Deals(t) /\ StoreOf(t)
<1>1. /\ row'[t].cancel = row[t].cancel /\ UNCHANGED store
      /\ row'[t].state = row[t].state \/ row'[t].state \in Plain
  BY LocalRow
<1>2. row[t].state \notin Ended /\ row'[t].state \notin Ended /\ ~ row[t].cancel
  BY <1>1, LocalBusy DEF Plain, Ended
<1>3. file'[t] = file[t] \/ file'[t] = "whole"
  <2>1. file \in [Tasks -> {"absent", "short", "whole"}]
    BY DEF RInv, TInv, TypeOK
  <2> QED BY <2>1
          DEF LocalStep, DownloadStep, StartDownload, DownloadBegin, DownloadRetry, DownloadArrives, DownloadError,
              DownloadRefused, DownloadRename, DownloadRenameFails, DownloadRecord, files
<1> QED BY <1>1, <1>2, <1>3, BusyDeals, KeepStore

\* A finishing worker has its object on record.
LEMMA FinishingStored ==
    ASSUME RInv, Roles, NameInv, KeptInv, NEW w \in Workers, pc[w] \in Finishing
    PROVE  StoredWhole(w[2]) /\ row[w[2]].state = "cleanup_pending" /\ ~ row[w[2]].cancel /\ w[2] \in Tasks
<1> DEFINE t == w[2]
<1>1. t \in Tasks /\ ~ row[t].cancel /\ row[t].state = "cleanup_pending"
  BY FinishingPeer
<1>2. row[t].final # NoPath /\ row[t].rpath = row[t].final
  BY <1>1 DEF NameInv, Listing, Listed, Received
<1>3. store[row[t].final] = Object(t, TRUE)
  BY DEF KeptInv, Knows, Finishing
<1> QED BY <1>1, <1>2, <1>3 DEF StoredWhole

LEMMA CleaningDeals ==
    ASSUME RInv, Roles, NameInv, KeptInv, NEW w \in Workers, Cleaning(w)
    PROVE  Deals(w[2]) /\ StoreOf(w[2])
<1> DEFINE t == w[2]
<1>1. pc[w] \in Finishing /\ UNCHANGED store
  BY DEF Cleaning, Clean, CleanFails, Complete, Finishing
<1>2. StoredWhole(t) /\ row[t].state = "cleanup_pending" /\ ~ row[t].cancel /\ t \in Tasks
  BY <1>1, FinishingStored
<1>3. StoreOf(t)
  BY <1>1, KeepStore
<1>4. CASE UNCHANGED row
  <2>1. StoredWhole(t)'
    BY <1>1, <1>2, <1>4 DEF StoredWhole
  <2> QED BY <1>2, <1>3, <1>4, <2>1 DEF Deals, Turns, Asks, Copies, Ended
<1>5. CASE Complete(w)
  <2> DEFINE q == [row[t] EXCEPT !.state = "completed", !.lpath = "none"]
  <2>1. q.state = "completed" /\ ~ q.cancel
    BY <1>2, Mine DEF Row
  <2>2. row'[t] = q /\ UNCHANGED file
    BY <1>5, Mine DEF Complete, files
  <2> HIDE DEF q
  <2> QED BY <1>2, <1>3, <2>1, <2>2 DEF Deals, Turns, Asks, Copies, Ended
<1> QED BY <1>4, <1>5 DEF Cleaning, Clean, CleanFails

\* A worker in the remote half touches what its task has on record only.
LEMMA RemoteOwn ==
    ASSUME RInv, NameInv, NEW w \in Workers, RemoteStep(w)
    PROVE  StoreOf(w[2])
<1>1. CASE Resume(w) \/ ResumeTemp(w) \/ StreamHead(w) \/ TakeLock(w) \/ ChooseFinal(w) \/ ReuseFinal(w) \/ Verify(w)
           \/ FinalCheck(w) \/ RemoteRetry(w) \/ Notified(w) \/ StreamError(w) \/ StreamRefused(w)
  <2>1. UNCHANGED store
    BY <1>1 DEF Resume, ResumeTemp, StreamHead, TakeLock, ChooseFinal, ReuseFinal, Verify, FinalCheck, RemoteRetry,
                Notified, StreamError, StreamRefused
  <2> QED BY <2>1, KeepStore
<1>2. CASE WriteStarts(w)
  <2>1. WriteStartsDone(w)
    BY <1>2, WriteStartsEffect
  <2> QED BY <2>1, WritesOwn, KeepStore DEF WriteStartsDone
<1>3. CASE WriteEnds(w)
  <2>1. WriteEndsDone(w)
    BY <1>3, WriteEndsEffect
  <2>2. \E b : store' = [store EXCEPT ![job[w].path] = Object(w[2], b)]
    BY <2>1 DEF WriteEndsDone
  <2> QED BY <2>1, <2>2, WritesOwn DEF WriteEndsDone
<1>4. CASE MoveToFinal(w)
  <2>1. MoveToFinalDone(w)
    BY <1>4, MoveToFinalEffect
  <2> QED BY <2>1, MovesOwn, KeepStore DEF MoveToFinalDone
<1>5. CASE Receive(w)
  BY <1>5, ReceiveEffect, ReceivesOwn
<1>6. CASE RemoteError(w)
  <2>1. store' \in {store, Landed({w})}
    BY <1>6 DEF RemoteError
  <2> QED BY <2>1, LandedOne
<1> QED BY <1>1, <1>2, <1>3, <1>4, <1>5, <1>6 DEF RemoteStep

\* While a worker neither writes nor moves, no call of its can still land.
LEMMA NothingLands ==
    ASSUME RInv, NameInv, NEW w \in Workers, pc[w] \notin {"move", "writing"}, store' \in {store, Landed({w})},
           NEW p \in Paths
    PROVE  store'[p] = store[p]
<1>1. CASE store' = store
  BY <1>1
<1>2. CASE store' = Landed({w})
  <2>1. Landed({w})[p] = store[p]
    BY LandedCut
  <2> QED BY <1>2, <2>1
<1> QED BY <1>1, <1>2

\* A receipt finds the object where it records it.
LEMMA ReceiptStored ==
    ASSUME NameInv', KeptInv', NEW w \in Workers, w[2] \in Tasks, pc'[w] = "receipt",
           row'[w[2]].state = "cleanup_pending"
    PROVE  StoredWhole(w[2])'
<1> DEFINE t == w[2]
           q == row'[t]
<1>1. Listed(t, q, cancelling'[t], purge'[t])
  BY DEF NameInv, Listing
<1>2. q.final # NoPath /\ q.rpath = q.final
  BY <1>1 DEF Listed, Received
<1>3. store'[q.final] = Object(t, TRUE)
  BY DEF KeptInv, Knows
<1> QED BY <1>2, <1>3 DEF StoredWhole

\* An accepted file is looked at once more: an error leaves it accepted.
LEMMA CheckingDeals ==
    ASSUME RInv, Roles, NameInv, KeptInv, NameInv', KeptInv', NEW w \in Workers, RemoteStep(w), Others(w),
           w = U(w[2]), job[w].how = "upload", job[w].outside, row[w[2]].state = "cleanup_pending",
           ~ row[w[2]].cancel, pc[w] \in {"recheck", "complete"}
    PROVE  Deals(w[2])
<1> DEFINE t == w[2]
<1>1. t \in Tasks /\ UNCHANGED file
  BY Mine, RemoteStill
<1>2. Receive(w) \/ RemoteError(w)
  BY DEF RemoteStep, Resume, ResumeTemp, StreamHead, TakeLock, ChooseFinal, ReuseFinal, WriteStarts, WriteEnds, Verify,
         MoveToFinal, FinalCheck, RemoteRetry, Notified, StreamError, StreamRefused
<1>3. CASE Receive(w)
  <2>1. ReceiveDone(w) /\ Legal(t, "cleanup_pending")
    BY <1>3, ReceiveEffect DEF Legal, CanTransition
  <2>2. pc'[w] = "receipt" /\ row'[t].state = "cleanup_pending" /\ row'[t].cancel = row[t].cancel
    BY <2>1 DEF ReceiveDone, Receipted
  <2>3. StoredWhole(t)'
    BY <1>1, <2>2, ReceiptStored
  <2> QED BY <1>1, <2>2, <2>3 DEF Deals, Turns, Asks, Copies, Ended
<1>4. CASE RemoteError(w)
  <2>1. PICK kind \in {"transient", "refused", "conflict"} : Fail(w, kind)
    BY <1>4 DEF RemoteError
  <2>2. FailedBy(w, kind)
    <3>1. kind \in Kinds
      BY <2>1 DEF Kinds
    <3>2. pc[w] \in InLoop
      BY DEF InLoop, Labels
    <3> QED BY <2>1, <3>1, <3>2, FailEffect
  <2>3. row'[t].state = row[t].state /\ row'[t].cancel = row[t].cancel /\ row'[t].rpath = row[t].rpath
    BY <2>2 DEF FailedBy, Twin
  <2>4. \A p \in Recorded(row[t]) : p \in Paths
    BY <1>1, RecordedNames DEF NameInv
  <2>5. \A p \in Recorded(row[t]) : store'[p] = store[p]
    BY <1>4, <2>4, NothingLands DEF RemoteError
  <2> QED BY <1>1, <2>3, <2>5, SameObject, SameDeals
<1> QED BY <1>2, <1>3, <1>4

\* A worker in the remote half ends with a receipt or goes on.
LEMMA RemoteDeals ==
    ASSUME RInv, Roles, NameInv, KeptInv, NameInv', KeptInv', NEW w \in Workers, RemoteStep(w), Others(w)
    PROVE  Deals(w[2])
<1> DEFINE t == w[2]
<1>1. t \in Tasks /\ UNCHANGED file /\ Role(t)
  BY Mine, RemoteStill DEF Roles
<1>2. CASE Notified(w)
  <2>1. UNCHANGED <<row, store>>
    BY <1>2 DEF Notified
  <2> QED BY <1>1, <2>1, SameObject, SameDeals
<1>3. CASE pc[w] = "recheck"
  <2>1. w = D(t) \/ w = U(t)
    BY WorkerTypes DEF D, U
  <2>2. w = U(t) /\ job[w].how = "upload"
    BY <1>1, <1>3, <2>1 DEF Role, RoleOf, Coroutines
  <2>3. job[w].outside /\ row[t].state = "cleanup_pending" /\ ~ row[t].cancel
    BY <1>1, <1>3, <2>2 DEF Role, RoleOf, Uploading, Cancelled
  <2> QED BY <1>3, <2>2, <2>3, CheckingDeals
<1>4. CASE Remotely(w)
  <2>1. /\ ~ row[t].cancel
        /\ \/ row[t].state \in {"reserved", "streaming", "verifying", "finalizing", "waiting_upload", "uploading",
                                "downloaded"}
           \/ /\ w = U(t) /\ job[w].how = "upload" /\ job[w].outside /\ row[t].state = "cleanup_pending"
              /\ pc[w] = "complete"
    BY <1>4, RemotePeer
  <2>2. CASE row[t].state = "cleanup_pending"
    BY <2>1, <2>2, CheckingDeals
  <2>3. CASE row[t].state \notin Ended
    <3>1. Leads(w)
      BY <1>4, RemoteLeads
    <3>2. row'[t].cancel = row[t].cancel
      BY <3>1 DEF Leads
    <3>3. \/ row'[t].state \notin Ended
          \/ pc'[w] = "receipt" /\ row'[t].state = "cleanup_pending"
      BY <2>3, <3>1 DEF Leads, FailedState, WritingState, Ended
    <3>4. CASE row'[t].state \notin Ended
      BY <1>1, <2>1, <2>3, <3>2, <3>4, BusyDeals
    <3>5. CASE pc'[w] = "receipt" /\ row'[t].state = "cleanup_pending"
      <4>1. StoredWhole(t)'
        BY <1>1, <3>5, ReceiptStored
      <4> QED BY <1>1, <2>1, <2>3, <3>2, <3>5, <4>1 DEF Deals, Turns, Asks, Copies, Ended
    <3> QED BY <3>3, <3>4, <3>5
  <2> QED BY <2>1, <2>2, <2>3 DEF Ended
<1>5. Notified(w) \/ Remotely(w) \/ pc[w] = "recheck"
  BY DEF RemoteStep, Resume, ResumeTemp, StreamHead, TakeLock, ChooseFinal, ReuseFinal, WriteStarts, WriteEnds, Verify,
         MoveToFinal, FinalCheck, Receive, RemoteRetry, RemoteError, StreamError, StreamRefused, Remotely, Remote,
         Finishing
<1> QED BY <1>2, <1>3, <1>4, <1>5

\* The checks before an upload keep a whole copy and do not end the task.
LEMMA CheckDeals ==
    ASSUME RInv, NEW t \in Tasks, NEW r \in Row, CheckLocal(U(t), r), r.state \notin Ended
    PROVE  row'[t].state \notin Ended /\ row'[t].cancel = r.cancel
<1>1. /\ Kin(row'[t], r)
      /\ row'[t] = r \/ row'[t].state \in Plain
  BY CheckEffect DEF Plain
<1> QED BY <1>1 DEF Kin, Twin, Plain, Ended

LEMMA UploadDeals ==
    ASSUME RInv, Roles, NEW t \in Tasks, UploadStep(t) \/ StartUpload(t)
    PROVE  Deals(t) /\ StoreOf(t)
<1> DEFINE w == U(t)
           r == row[t]
           p == r.rpath
           held == [r EXCEPT !.state = "verification_failed_retained", !.kind = "conflict", !.verified = FALSE]
           again == [r EXCEPT !.state = "queued", !.lpath = "none", !.verified = FALSE]
           fresh == [r EXCEPT !.state = "waiting_upload", !.rpath = NoPath, !.final = NoPath, !.verified = FALSE]
<1>1. w \in Workers /\ w[2] = t /\ r \in Row /\ Role(t)
  BY Pair DEF Roles
<1>2. UNCHANGED store
  BY DEF UploadStep, UploadBegin, Recheck, StartUpload
<1>3. StoreOf(t)
  BY <1>2, KeepStore
<1>4. file[t] = "whole" => file'[t] = "whole"
  <2>1. CASE StartUpload(t)
    BY <2>1 DEF StartUpload, files
  <2>2. CASE UploadStep(t)
    <3>1. WorkerStep(w) /\ pc[w] # "receipt"
      BY <1>1, <2>2, UploadBeginStep, RecheckStep DEF UploadStep, UploadBegin, Recheck, RInv
    <3> QED BY <3>1 DEF WorkerStep, WorldStep
  <2> QED BY <2>1, <2>2
<1>5. CASE UNCHANGED <<row, file>>
  BY <1>2, <1>3, <1>5, SameObject, SameDeals
<1>6. \A q : Put(t, q) => row'[t] = q
  BY <1>1, Mine
<1>7. CASE CheckLocal(w, r) /\ ~ r.cancel /\ r.state \notin Ended
  <2> HIDE DEF r
  <2>1. row'[t].state \notin Ended /\ row'[t].cancel = r.cancel
    BY <1>1, <1>7, CheckDeals
  <2> QED BY <1>3, <1>4, <1>7, <2>1, BusyDeals DEF r
<1>8. CASE UploadBegin(t)
  <2>1. \/ UNCHANGED <<row, files>>
        \/ CheckLocal(w, r) /\ ~ r.cancel /\ r.state \notin Ended
    BY <1>8 DEF UploadBegin, Ended
  <2> QED BY <1>5, <1>7, <2>1 DEF files
<1>9. CASE Recheck(w)
  <2>1. pc[w] = "recheck"
    BY <1>9 DEF Recheck
  <2>2. r.state = "cleanup_pending" /\ ~ r.cancel
    BY <1>1, <2>1 DEF Role, RoleOf, Uploading, Cancelled, Finishing
  <2>3. /\ held.state \notin Ended /\ held.cancel = r.cancel
        /\ again.state \notin Ended /\ again.cancel = r.cancel
        /\ fresh \in Row /\ fresh.state \notin Ended /\ fresh.cancel = r.cancel
    <3> HIDE DEF r
    <3> QED BY <1>1, StateTypes DEF Row, States, Ended
  <2>4. \/ UNCHANGED <<row, files>>
        \/ ~ Whole(p) /\ (Put(t, held) \/ Put(t, again))
        \/ ~ Whole(p) /\ CheckLocal(w, fresh)
    BY <1>1, <1>9 DEF Recheck, Whole
  <2>5. CASE ~ Whole(p) /\ row'[t].state \notin Ended /\ row'[t].cancel = r.cancel
    <3>1. ~ StoredWhole(t)
      BY <2>5, PipelineAssumption DEF StoredWhole, Whole, Exists, Object, Absent
    <3> QED BY <1>3, <1>4, <2>2, <2>5, <3>1, BackDeals
  <2> HIDE DEF held, again, fresh
  <2>6. CASE ~ Whole(p) /\ CheckLocal(w, fresh)
    BY <2>3, <2>5, <2>6, CheckDeals
  <2> QED BY <1>5, <1>6, <2>3, <2>4, <2>5, <2>6 DEF files
<1>10. CASE StartUpload(t)
  BY <1>5, <1>10 DEF StartUpload, files
<1> QED BY <1>8, <1>9, <1>10 DEF UploadStep

-------------------------------------------------------------------------------
(* What calls may do that land after their caller is gone *)

\* No call of a task still runs that is done with or to be withdrawn.
LEMMA LandedStays ==
    ASSUME RInv, Roles, NameInv, NEW ws \in SUBSET Workers, NEW t \in Tasks, row[t].cancel \/ row[t].state \in Ended,
           NEW p \in Recorded(row[t])
    PROVE  Landed(ws)[p] = store[p]
<1>1. p \in Paths /\ \A u \in Tasks \ {t} : p \notin Recorded(row[u])
  BY RecordedNames, RecordedApart DEF NameInv
<1>2. ASSUME NEW w \in ws, pc[w] \in {"move", "writing"}
      PROVE  w[2] \in Tasks \ {t}
  <2>1. w \in Workers /\ Remotely(w) /\ pc[w] # "complete"
    BY <1>2 DEF Remotely, Remote, Finishing
  <2>2. w[2] \in Tasks /\ ~ row[w[2]].cancel /\ row[w[2]].state \notin Ended
    BY <2>1, RemotePeer DEF Ended
  <2> QED BY <2>2
<1> QED BY <1>1, <1>2, LandedCut

LEMMA LandedDeals ==
    ASSUME RInv, Roles, NameInv, NEW ws \in SUBSET Workers, store' = Landed(ws), NEW t \in Tasks, file'[t] = file[t],
           row'[t].cancel = row[t].cancel, row'[t].rpath = row[t].rpath,
           row'[t].state = row[t].state \/ (row[t].state \notin Ended /\ row'[t].state \in Plain)
    PROVE  Deals(t)
<1>1. row[t].cancel \in BOOLEAN
  BY Pair
<1>2. CASE row[t].cancel \/ row[t].state \in Ended
  <2>1. \A p \in Recorded(row[t]) : store'[p] = store[p]
    BY <1>2, LandedStays
  <2>2. StoredWhole(t)' <=> StoredWhole(t)
    BY <2>1, SameObject
  <2>3. CASE row'[t].state = row[t].state
    BY <2>2, <2>3, SameDeals
  <2>4. CASE row[t].state \notin Ended /\ row'[t].state \in Plain
    BY <1>1, <2>2, <2>4 DEF Deals, Turns, Asks, Copies, Plain, Ended
  <2> QED BY <2>3, <2>4
<1>3. CASE ~ row[t].cancel /\ row[t].state \notin Ended
  <2>1. row'[t].state \notin Ended
    BY <1>3 DEF Plain, Ended
  <2> QED BY <1>3, <2>1, BusyDeals
<1> QED BY <1>1, <1>2, <1>3

\* A restart takes rows up again that were being worked on.
LEMMA RestartDeals ==
    ASSUME RInv, Roles, NameInv, NEW rows, NEW parts, Restart(rows, parts),
           \A t \in Tasks : /\ rows[t] \in Row /\ Twin(rows[t], row[t])
                            /\ \/ rows[t].state = row[t].state
                               \/ row[t].state \notin Ended /\ rows[t].state \in Plain,
           NEW t \in Tasks
    PROVE  Deals(t)
<1>1. PICK stuck : row' = [u \in Tasks |-> Recovered(u, rows[u], stuck)]
  BY DEF Restart
<1>2. PICK ws \in SUBSET {w \in Workers : pc[w] \in {"move", "writing"}} : store' = Landed(ws)
  BY DEF Restart
<1>3. ws \in SUBSET Workers /\ file' = file
  BY <1>2 DEF Restart
<1> DEFINE q == Recovered(t, rows[t], stuck)
<1>4. Twin(q, rows[t]) /\ (q = rows[t] \/ (rows[t].state \notin Ended /\ q.state \in Plain))
  BY RecoveredFacts DEF Plain, LeftAlone, Recoverable, Ended
<1>5. row'[t] = q
  BY <1>1
<1> HIDE DEF q
<1>6. /\ row'[t].cancel = row[t].cancel /\ row'[t].rpath = row[t].rpath
      /\ row'[t].state = row[t].state \/ (row[t].state \notin Ended /\ row'[t].state \in Plain)
  BY <1>4, <1>5 DEF Twin, Plain, Ended
<1> QED BY <1>2, <1>3, <1>6, LandedDeals

\* A worker is cancelled only where its task is not done with.
LEMMA InterruptedDeals ==
    ASSUME NEW w, NEW r \in Row
    PROVE  LET q == Interrupted(w, r) IN
           Twin(q, r) /\ (q = r \/ (r.state \notin Ended /\ q.state \in Plain))
BY InterruptedFacts DEF Kin, Handles, Plain

LEMMA RestartedDeals ==
    ASSUME RInv, Roles, NameInv, Crash \/ Stop, NEW t \in Tasks
    PROVE  Deals(t)
<1>1. \A u \in Tasks : row[u] \in Row
  BY DEF RInv, TInv, TypeOK
<1>2. CASE Crash
  <2>1. \A u \in Tasks : row[u] \in Row /\ Twin(row[u], row[u])
    BY <1>1 DEF Twin
  <2>2. Restart(row, part)
    BY <1>2 DEF Crash
  <2> QED BY <2>1, <2>2, RestartDeals
<1>3. CASE Stop
  <2> DEFINE rows == [u \in Tasks |-> Interrupted(U(u), Interrupted(D(u), row[u]))]
             parts == [u \in Tasks |-> PartInterrupted(D(u), row[u])]
  <2>1. Restart(rows, parts)
    BY <1>3 DEF Stop
  <2>2. ASSUME NEW u \in Tasks
        PROVE  /\ rows[u] \in Row /\ Twin(rows[u], row[u])
               /\ \/ rows[u].state = row[u].state
                  \/ row[u].state \notin Ended /\ rows[u].state \in Plain
    <3> DEFINE one == Interrupted(D(u), row[u])
               two == Interrupted(U(u), one)
    <3>1. one \in Row /\ Twin(one, row[u]) /\ (one = row[u] \/ (row[u].state \notin Ended /\ one.state \in Plain))
      BY <1>1, Pair, InterruptedType, InterruptedDeals DEF RInv
    <3> HIDE DEF one
    <3>2. two \in Row /\ Twin(two, one) /\ (two = one \/ (one.state \notin Ended /\ two.state \in Plain))
      BY <3>1, Pair, InterruptedType, InterruptedDeals DEF RInv
    <3>3. rows[u] = two
      BY DEF one
    <3> HIDE DEF two, rows
    <3> QED BY <3>1, <3>2, <3>3 DEF Twin, Plain, Ended
  <2> HIDE DEF rows, parts
  <2> QED BY <2>1, <2>2, RestartDeals
<1> QED BY <1>2, <1>3

LEMMA DiskEmergencyDeals ==
    ASSUME RInv, Roles, NameInv, DiskEmergency, NEW t \in Tasks
    PROVE  Deals(t)
<1>1. PICK ws \in SUBSET {D(u) : u \in Tasks} : store' = Landed(ws)
  BY DEF DiskEmergency
<1>2. ws \in SUBSET Workers /\ UNCHANGED file
  BY <1>1, Pair DEF DiskEmergency
<1> DEFINE q == Interrupted(D(t), row[t])
<1>3. Twin(q, row[t]) /\ (q = row[t] \/ (row[t].state \notin Ended /\ q.state \in Plain))
  BY Pair, InterruptedDeals
<1>4. row'[t] = q
  BY DEF DiskEmergency
<1> HIDE DEF q
<1> QED BY <1>1, <1>2, <1>3, <1>4, LandedDeals DEF Twin

-------------------------------------------------------------------------------
(* What users and outsiders do *)

\* A withdrawal that is carried out, put off or dropped, r being the row as the
\* command reads it.
LEMMA SettledDeals ==
    ASSUME RInv, NameInv, NEW t \in Tasks, NEW r, SettledBy(t, r), UNCHANGED store,
           row[t].state \notin Ended, r.state = row[t].state, r.rpath = row[t].rpath, r.cancel = TRUE,
           row[t].cancel \/ (spent'["cancel"] > spent["cancel"] /\ ~ NeedsReview(r))
    PROVE  \A u \in Tasks : Deals(u)
<1>1. StoreOf(t) /\ FilesOf(t) /\ \A u \in Tasks \ {t} : row'[u] = row[u]
  BY KeepStore DEF SettledBy, FilesOf
<1>2. \/ row'[t].state = row[t].state /\ ~ row'[t].cancel /\ row[t].cancel /\ file' = file
      \/ EndedBy(t, r) \/ (row'[t] = r /\ file' = file)
  BY DEF SettledBy
<1>3. CASE row'[t].state = row[t].state /\ ~ row'[t].cancel /\ row[t].cancel /\ file' = file
  <2>1. Deals(t)
    BY <1>3 DEF Deals, Turns, Asks, Copies
  <2> QED BY <1>1, <2>1, TaskDeals
<1>4. CASE row'[t] = r /\ file'[t] \in {file[t], "absent"}
  <2>1. StoredWhole(t)' <=> StoredWhole(t)
    BY <1>4, SameObject
  <2>2. Deals(t)
    BY <1>4, <2>1 DEF Deals, Turns, Asks, Copies, Ended
  <2> QED BY <1>1, <2>2, TaskDeals
<1>5. CASE row'[t].state = "cancelled" /\ ~ row'[t].cancel /\ file'[t] \in {file[t], "absent"}
  <2>1. Deals(t)
    BY <1>5 DEF Deals, Turns, Asks, Copies, Ended
  <2> QED BY <1>1, <2>1, TaskDeals
<1> QED BY <1>2, <1>3, <1>4, <1>5 DEF EndedBy

LEMMA CancelAskDeals ==
    ASSUME RInv, Roles, NameInv, NEW t \in Tasks, CancelAsk(t)
    PROVE  \A u \in Tasks : Deals(u)
<1> DEFINE asked == [row[t] EXCEPT !.cancel = TRUE]
           used == [spent EXCEPT !["cancel"] = @ + 1]
           w == IF Active(D(t)) THEN D(t) ELSE U(t)
<1>1. /\ row \in [Tasks -> Row] /\ row[t] \in Row /\ spent \in [Events -> Nat] /\ row[t].state \notin Ended
      /\ cancelling[t] = "idle" /\ ~ NeedsReview(row[t])
  BY DEF RInv, TInv, TypeOK, CancelAsk
<1>2. /\ asked \in Row /\ asked.state = row[t].state /\ asked.rpath = row[t].rpath /\ asked.cancel = TRUE
      /\ ~ NeedsReview(asked)
  BY <1>1 DEF Row, NeedsReview
<1>3. used["cancel"] > spent["cancel"]
  BY <1>1 DEF Events
<1>4. \/ CancelRunning(t, asked, used)
      \/ SettleCancel(t, asked, used) /\ UNCHANGED store
  BY DEF CancelAsk
<1>5. CASE SettleCancel(t, asked, used) /\ UNCHANGED store
  <2>0. spent'["cancel"] = used["cancel"]
    <3>1. used \in [Events -> Nat]
      BY <1>1 DEF Events
    <3> HIDE DEF asked, used
    <3> QED BY <1>2, <1>5, <3>1, SettleCancelStep DEF RInv
  <2> HIDE DEF asked, used
  <2>1. SettledBy(t, asked)
    BY <1>2, <1>5, SettleCancelEffect
  <2> QED BY <1>1, <1>2, <1>3, <1>5, <2>0, <2>1, SettledDeals
<1>6. CASE CancelRunning(t, asked, used)
  <2> DEFINE q == Interrupted(w, asked)
  <2>1. /\ Put(t, q) /\ store' \in {store, Landed({w})} /\ UNCHANGED file /\ spent' = used
    BY <1>6 DEF CancelRunning
  <2>2. w \in Workers /\ w[2] = t
    BY Pair
  <2>3. q.cancel = TRUE /\ q.rpath = asked.rpath /\ q.state \notin Ended
    <3> HIDE DEF w, asked
    <3> QED BY <1>1, <1>2, InterruptedDeals DEF Twin, Plain, Ended
  <2> HIDE DEF w, asked, q, used
  <2>4. row'[t] = q /\ FilesOf(t) /\ \A u \in Tasks \ {t} : row'[u] = row[u]
    <3>1. part' = [part EXCEPT ![t] = PartInterrupted(w, asked)] /\ part \in [Tasks -> {"absent", "partial", "whole"}]
      BY <1>6 DEF CancelRunning, w, RInv, TInv, TypeOK
    <3> QED BY <1>1, <2>1, <3>1 DEF Put, FilesOf
  <2>5. StoreOf(t)
    BY <2>1, <2>2, LandedOne
  <2>6. row[t].cancel => (StoredWhole(t)' <=> StoredWhole(t))
    <3> SUFFICES ASSUME row[t].cancel PROVE StoredWhole(t)' <=> StoredWhole(t)
      OBVIOUS
    <3>1. \A p \in Recorded(row[t]) : store'[p] = store[p]
      BY <2>1, <2>2, LandedStays
    <3> QED BY <1>2, <2>3, <2>4, <3>1, SameObject
  <2>7. Deals(t)
    BY <1>1, <1>3, <2>1, <2>3, <2>4, <2>6 DEF Deals, Turns, Asks, Copies
  <2> QED BY <2>4, <2>5, <2>7, TaskDeals
<1> QED BY <1>4, <1>5, <1>6

LEMMA CancelStepDeals ==
    ASSUME RInv, Roles, NameInv, Unmarked, NEW t \in Tasks, CancelStep(t)
    PROVE  \A u \in Tasks : Deals(u)
<1>1. /\ row \in [Tasks -> Row] /\ purge \in [Tasks -> SUBSET Paths] /\ row[t] \in Row
      /\ Listed(t, row[t], cancelling[t], purge[t]) /\ store \in [Paths -> [by : Owners, whole : BOOLEAN]]
      /\ Role(t) /\ cancelling[t] # "idle"
  BY DEF RInv, TInv, TypeOK, Roles, NameInv, Listing, CancelStep, CancelSettle, CancelPurge, CancelPurgeFails
<1>2. row[t].cancel = TRUE /\ row[t].state \notin Ended
  BY <1>1 DEF Role, RoleOf, Cancelled, Unmarked, Row
<1>3. CASE CancelSettle(t)
  <2>1. SettledBy(t, row[t]) /\ UNCHANGED store
    BY <1>1, <1>3, SettleCancelEffect DEF CancelSettle
  <2> QED BY <1>2, <2>1, SettledDeals
<1>4. CASE CancelPurge(t)
  <2>1. PICK p \in purge[t] :
          /\ store' = [store EXCEPT ![p] = Absent]
          /\ EndCancel(t, row[t], spent) \/ UNCHANGED <<row, files>>
    BY <1>4 DEF CancelPurge
  <2>2. p \in Recorded(row[t]) /\ p \in Paths
    BY <1>1, <1>4, <2>1 DEF Listed, CancelPurge
  <2>3. StoreOf(t)
    BY <2>1, <2>2, WriteOwn
  <2>4. row'[t] = row[t] => (StoredWhole(t)' => StoredWhole(t))
    BY <1>1, <2>1, <2>2, Recorded3, PipelineAssumption DEF StoredWhole, Object, Absent
  <2>5. EndedBy(t, row[t]) \/ UNCHANGED <<row, files>>
    BY <1>1, <2>1, EndCancelEffect
  <2>6. FilesOf(t) /\ \A u \in Tasks \ {t} : row'[u] = row[u]
    BY <2>5 DEF EndedBy, FilesOf, files
  <2>7. /\ file'[t] \in {file[t], "absent"}
        /\ row'[t] = row[t] \/ (row'[t].state = "cancelled" /\ ~ row'[t].cancel)
    BY <2>5 DEF EndedBy, files
  <2>8. Deals(t)
    BY <1>2, <2>4, <2>7 DEF Deals, Turns, Asks, Copies, Ended
  <2> QED BY <2>3, <2>6, <2>8, TaskDeals
<1>5. CASE CancelPurgeFails(t)
  BY <1>5, SameDeals, SameObject DEF CancelPurgeFails, files
<1> QED BY <1>3, <1>4, <1>5 DEF CancelStep

\* What a command does to the row alone.
LEMMA RowDeals ==
    ASSUME RInv, NameInv, NEW t \in Tasks, RowOnly(t), UNCHANGED store, Deals(t)
    PROVE  \A u \in Tasks : Deals(u)
BY KeepStore, TaskDeals DEF RowOnly, FilesOf

LEMMA RetryDeals ==
    ASSUME RInv, NameInv, Unmarked, NEW t \in Tasks, Retry(t)
    PROVE  \A u \in Tasks : Deals(u)
<1> DEFINE asked == [row[t] EXCEPT !.cancel = FALSE]
           r == IF row[t].cancel THEN Recovered(t, asked, {}) ELSE row[t]
           q == row'[t]
<1>1. /\ RowOnly(t) /\ UNCHANGED store /\ r \in Row /\ asked \in Row /\ row[t] \in Row
      /\ \/ r.state \notin FailedStates /\ q = r /\ row[t].cancel
         \/ r.state \in FailedStates /\ q = Requeued(t, r)
  BY RetryEffect, Pair
<1>2. asked.state = row[t].state /\ ~ asked.cancel
  BY <1>1 DEF Row
<1>3. CASE row[t].cancel
  <2>1. row[t].state \notin Ended
    BY <1>3 DEF Unmarked
  <2>2. ~ r.cancel /\ r.state \notin Ended
    <3>1. LET x == Recovered(t, asked, {}) IN ~ x.cancel /\ x.state \notin Ended
      <4> HIDE DEF asked
      <4> QED BY <1>1, <1>2, <2>1, RecoveredFacts DEF Twin, Ended
    <3> QED BY <1>3, <3>1
  <2> HIDE DEF r
  <2>3. ~ q.cancel /\ q.state \notin Ended
    BY <1>1, <2>2, RequeuedFacts DEF Ended
  <2>4. Deals(t)
    BY <1>1, <2>1, <2>3 DEF RowOnly, Deals, Turns, Asks, Copies
  <2> QED BY <1>1, <2>4, RowDeals
<1>4. CASE ~ row[t].cancel
  <2>1. r = row[t] /\ row[t].state \notin Ended
    BY <1>1, <1>4 DEF FailedStates, Ended
  <2> HIDE DEF r
  <2>2. ~ q.cancel /\ q.state \notin Ended
    BY <1>1, <1>4, <2>1, RequeuedFacts DEF Ended
  <2>3. Deals(t)
    BY <1>1, <1>4, <2>1, <2>2, BusyDeals DEF RowOnly
  <2> QED BY <1>1, <2>3, RowDeals
<1> QED BY <1>3, <1>4

LEMMA RecoverFreshDeals ==
    ASSUME RInv, NameInv, NEW t \in Tasks, RecoverFresh(t)
    PROVE  \A u \in Tasks : Deals(u)
<1>1. /\ RowOnly(t) /\ UNCHANGED store /\ ~ row[t].cancel /\ ~ row'[t].cancel
      /\ spent'["command"] > spent["command"] /\ row[t].state \in FailedStates \cup {"cancelled"}
      /\ row'[t].state \in {"waiting_upload", "queued"}
  BY RecoverFreshEffect
<1>2. Deals(t)
  BY <1>1 DEF RowOnly, Deals, Turns, Asks, Copies, FailedStates, Ended
<1> QED BY <1>1, <1>2, RowDeals

LEMMA NoteDeals ==
    ASSUME RInv, NameInv, NEW t \in Tasks, RequestStream(t) \/ Confirm(t)
    PROVE  \A u \in Tasks : Deals(u)
<1> DEFINE r == row[t]
           streamed == [r EXCEPT !.state = "queued", !.mode = "stream", !.dtries = 0, !.utries = 0]
           noted == [r EXCEPT !.state = "confirmed"]
<1>1. r \in Row /\ row \in [Tasks -> Row]
  BY DEF RInv, TInv, TypeOK
<1>2. /\ streamed.state = "queued" /\ streamed.cancel = r.cancel
      /\ noted.state = "confirmed" /\ noted.cancel = r.cancel /\ noted.rpath = r.rpath
  BY <1>1 DEF Row
<1>3. \/ Put(t, streamed) /\ r.state \in {"queued", "download_failed"} /\ ~ r.cancel
      \/ Put(t, noted) /\ r.state = "completed"
  BY DEF RequestStream, Confirm
<1>4. UNCHANGED <<store, files, pc, job, commands>>
  BY DEF RequestStream, Confirm
<1> HIDE DEF streamed, noted
<1>5. RowOnly(t) /\ \A q : Put(t, q) => row'[t] = q
  BY <1>1, <1>3, <1>4 DEF Put, RowOnly, files, commands
<1>6. CASE row'[t] = streamed /\ r.state \in {"queued", "download_failed"} /\ ~ r.cancel
  <2>1. Deals(t)
    BY <1>2, <1>4, <1>6, BusyDeals DEF Ended, files
  <2> QED BY <1>4, <1>5, <2>1, RowDeals
<1>7. CASE row'[t] = noted /\ r.state = "completed"
  <2>1. StoredWhole(t)' <=> StoredWhole(t)
    BY <1>2, <1>4, <1>7, SameObject
  <2>2. Deals(t)
    BY <1>2, <1>4, <1>7, <2>1 DEF Deals, Turns, Asks, Copies, files
  <2> QED BY <1>4, <1>5, <2>2, RowDeals
<1> QED BY <1>3, <1>5, <1>6, <1>7

LEMMA OutsideDeals ==
    ASSUME RInv, NameInv, Unmarked, NEW t \in Tasks, LoseFile(t) \/ Drift(t)
    PROVE  \A u \in Tasks : Deals(u)
<1>1. /\ UNCHANGED <<row, part>> /\ spent \in [Events -> Nat] /\ file \in [Tasks -> {"absent", "short", "whole"}]
      /\ store \in [Paths -> [by : Owners, whole : BOOLEAN]]
  BY DEF LoseFile, Drift, files, RInv, TInv, TypeOK
<1>2. CASE LoseFile(t)
  <2>1. spent'["loss"] > spent["loss"] /\ UNCHANGED store
    BY <1>1, <1>2 DEF LoseFile, Spend, Events
  <2>2. FilesOf(t) /\ file'[t] # "whole"
    BY <1>1, <1>2 DEF LoseFile, FilesOf
  <2>3. StoredWhole(t)' <=> StoredWhole(t)
    BY <1>1, <2>1, SameObject
  <2>4. Deals(t)
    BY <1>1, <2>1, <2>2, <2>3 DEF Deals, Turns, Asks, Copies, Ended
  <2> QED BY <1>1, <2>1, <2>2, <2>4, KeepStore, TaskDeals
<1>3. CASE Drift(t)
  <2>1. spent'["drift"] > spent["drift"] /\ UNCHANGED file /\ row[t].state = "cleanup_pending" /\ ~ row[t].cancel
    BY <1>1, <1>3 DEF Drift, Spend, Events, files, Unmarked, Ended
  <2>2. PICK o \in {Absent, Object(t, FALSE)} : store' = [store EXCEPT ![row[t].rpath] = o]
    BY <1>3 DEF Drift
  <2>3. row[t].rpath \in Recorded(row[t])
    BY <1>3, Recorded3 DEF Drift, Exists
  <2>4. StoreOf(t)
    BY <2>2, <2>3, WriteOwn DEF Object
  <2>5. Deals(t)
    BY <1>1, <2>1 DEF Deals, Turns, Asks, Copies
  <2> QED BY <1>1, <2>1, <2>4, <2>5, TaskDeals DEF FilesOf
<1> QED BY <1>2, <1>3

-------------------------------------------------------------------------------
(* The promise is kept *)

LEMMA NextDeals ==
    ASSUME RInv, Roles, NameInv, KeptInv, Unmarked, NameInv', KeptInv', Next
    PROVE  \A t \in Tasks : Deals(t)
<1>1. ASSUME NEW w \in Workers, Others(w), StoreOf(w[2]), Deals(w[2])
      PROVE  \A t \in Tasks : Deals(t)
  BY <1>1, Mine, TaskDeals DEF Others
<1>2. ASSUME NEW t \in Tasks, LocalStep(t), Others(D(t))
      PROVE  \A u \in Tasks : Deals(u)
  BY <1>1, <1>2, LocalDeals, Pair
<1>3. ASSUME NEW t \in Tasks, UploadStep(t) \/ StartUpload(t), Others(U(t))
      PROVE  \A u \in Tasks : Deals(u)
  BY <1>1, <1>3, UploadDeals, Pair
<1>4. ASSUME NEW w \in Workers, RemoteStep(w), Others(w)
      PROVE  \A t \in Tasks : Deals(t)
  BY <1>1, <1>4, RemoteOwn, RemoteDeals
<1>5. ASSUME NEW w \in Workers, Cleaning(w), Others(w)
      PROVE  \A t \in Tasks : Deals(t)
  BY <1>1, <1>5, CleaningDeals
<1>6. ASSUME NEW t \in Tasks, CancelStep(t) \/ Command(t) \/ LoseFile(t) \/ Drift(t)
      PROVE  \A u \in Tasks : Deals(u)
  BY <1>6, CancelStepDeals, CancelAskDeals, RetryDeals, RecoverFreshDeals, NoteDeals, OutsideDeals DEF Command
<1> QED BY <1>2, <1>3, <1>4, <1>5, <1>6, RestartedDeals, DiskEmergencyDeals, NextSplit

LEMMA NextUnmarked ==
    ASSUME RInv, RInv', Roles, NameInv, KeptInv, Unmarked, NameInv', KeptInv', Next
    PROVE  Unmarked'
<1> SUFFICES ASSUME NEW t \in Tasks PROVE row'[t].state \in Ended => ~ row'[t].cancel
  BY DEF Unmarked, Ended
<1>1. Deals(t)
  BY NextDeals
<1>2. row[t].cancel \in BOOLEAN /\ row'[t].cancel \in BOOLEAN
  BY DEF RInv, TInv, TypeOK, Row
<1> QED BY <1>1, <1>2, DealKeepsUnmarked DEF Unmarked

LEMMA StepPromise ==
    ASSUME RInv, RInv', Roles, NameInv, KeptInv, Unmarked, NameInv', KeptInv', Unmarked', Next
    PROVE  Promise!Next
<1>1. ASSUME NEW t \in Tasks
      PROVE  Promise!Step(t)
  <2>1. Deals(t) /\ Fits(t)
    BY NextDeals, InvFits DEF AllFit
  <2>2. Fits(t)'
    <3>1. (NameInv /\ KeptInv /\ Unmarked => AllFit)'
      BY InvFits, PTL
    <3> QED BY <3>1 DEF AllFit
  <2>3. row[t].cancel \in BOOLEAN /\ row'[t].cancel \in BOOLEAN
    BY DEF RInv, TInv, TypeOK, Row
  <2> QED BY <2>1, <2>2, <2>3, DealIsStep
<1> QED BY <1>1 DEF Promise!Next

LEMMA InitPromise == Init => Promise!Init
<1> SUFFICES ASSUME Init PROVE Promise!Init
  OBVIOUS
<1>1. ASSUME NEW t \in Tasks
      PROVE  /\ Fate(t) = "open" /\ row[t].cancel = FALSE /\ (file[t] = "whole") = FALSE
             /\ StoredWhole(t) = FALSE /\ Remains(t) = FALSE
  <2>1. row[t].state = "queued" /\ row[t].cancel = FALSE /\ row[t].rpath = NoPath /\ file[t] # "whole" /\ part[t] = "absent"
    BY DEF Init, NewRow
  <2>2. \A p \in Paths : store[p].by # t
    BY PipelineAssumption DEF Init, Absent, Object
  <2> QED BY <2>1, <2>2 DEF Fate, StoredWhole, Remains
<1>2. \A e \in DOMAIN spent : spent[e] = 0
  BY DEF Init
<1> QED BY <1>1, <1>2 DEF Promise!Init, Promise!Nobody

\* What the proofs above have established of every state.
Keeping == RInv /\ NoticesYield /\ Roles /\ NameInv /\ KeptInv

\* The pipeline implements Delivery under the mapping of Promise: whatever
\* coroutines, cancellations, commands, failures and restarts do to a task is a
\* step of its promise (_complete_cloud_receive, the removal of the local copy,
\* the receipt checked again, /cancel, /retry, /recover, TaskDB.recover).
THEOREM PromiseIsKept ==
    ASSUME Undisturbed
    PROVE  Spec => DeliversAsPromised
<1>1. Init => Promise!Init /\ Unmarked
  <2>1. Init => Unmarked
    BY DEF Init, NewRow, Unmarked
  <2> QED BY <2>1, InitPromise
<1>2. Keeping /\ Keeping' /\ Unmarked /\ [Next]_vars => Unmarked'
  <2>1. CASE UNCHANGED vars
    BY <2>1 DEF vars, Unmarked
  <2> QED BY <2>1, NextUnmarked DEF Keeping
<1>3. Keeping /\ Keeping' /\ Unmarked /\ Unmarked' /\ [Next]_vars =>
        [Promise!Next]_<<[t \in Tasks |-> Fate(t)], [t \in Tasks |-> row[t].cancel], [t \in Tasks |-> file[t] = "whole"],
                         [t \in Tasks |-> StoredWhole(t)], [t \in Tasks |-> Remains(t)], spent>>
  <2>1. CASE UNCHANGED vars
    BY <2>1 DEF vars, Fate, StoredWhole, Remains
  <2> QED BY <2>1, StepPromise DEF Keeping
<1>4. Spec => []Keeping
  BY ContentsAreKept DEF Keeping
<1> QED BY <1>1, <1>2, <1>3, <1>4, PTL DEF Spec, DeliversAsPromised, Promise!Spec, Promise!vars

================================================================================
