------------------------------- MODULE HostProofs -------------------------------
(***************************************************************************)
(* Proofs about the tools of the host, for any editions, bundles, tools    *)
(* at work and accounts, and any number of operations, failures and kills. *)
(***************************************************************************)
EXTENDS MCDeploy, SiteProofs, FiniteSetTheorems, TLAPS

(* Installation and removal *)

Pcs == {"idle"} \cup InstallSteps \cup UninstallSteps \cup CleanupSteps
EditionPcs == {"record", "base", "start", "open"}
LifecyclePcs == {"candidate", "publish", "switch", "edition"} \cup EditionPcs
RemovalPcs == UninstallSteps \ {"shown"}
CleanupPcs == {"unlink", "tear", "rmdir"}

Plans == [gone : [Products -> SUBSET Containers], route : SUBSET Products, drop : BOOLEAN,
          backup : SUBSET Products]
DoingTask == [pc : Pcs, ed : SUBSET Products, bundle : SUBSET Bundles, lan : BOOLEAN,
          fresh : BOOLEAN, purge : BOOLEAN, plan : Plans]
Instance == [ctr : SUBSET Containers, dir : BOOLEAN, lan : BOOLEAN, backup : BOOLEAN]

\* What tool r holds at each step it makes under locks.
Owns(r, l) == held[l] = {r}
HoldsLocks(r) ==
    /\ doing[r].pc \in LifecyclePcs => Owns(r, "lifecycle")
    /\ doing[r].pc \in EditionPcs \cup RemovalPcs => \A p \in doing[r].ed : Owns(r, p)
    /\ doing[r].pc \in RemovalPcs => Owns(r, "proxy")
    /\ doing[r].pc \in CleanupPcs => \A l \in CleanupLocks : Owns(r, l)

\* A removal that drops the proxy was planned over all the routes there are.
DropsLast(r) == doing[r].plan.drop =>
    /\ doing[r].pc \in {"routes", "forget"} => routed \subseteq doing[r].ed
    /\ doing[r].pc \in {"containers", "landirs", "trees", "certs", "backups"} => routed = {}

\* The command is there before an edition is touched, and goes after the last.
CommandFirst(r) ==
    /\ doing[r].pc \in InstallSteps => doing[r].bundle # {}
    /\ doing[r].pc \in EditionPcs \cup {"edition"} => mgr.command # {}
    /\ doing[r].pc \in CleanupPcs => \A p \in Products : ~ inst[p].dir /\ inst[p].ctr = {}
    /\ doing[r].pc \in {"tear", "rmdir"} => mgr.command = {}

\* An installation works on one edition.
OneEdition(r) == doing[r].pc \in InstallSteps => \A x, y \in doing[r].ed : x = y

Fits(r) == HoldsLocks(r) /\ DropsLast(r) /\ CommandFirst(r) /\ OneEdition(r)

RemovalInv == RemovalTypeOK /\ (\A r \in Runs : Fits(r)) /\ UsedIsKept

-------------------------------------------------------------------------------
LEMMA RemovalTypes ==
    /\ RemovalTypeOK <=>
          /\ inst \in [Products -> Instance] /\ routed \subseteq Products
          /\ shared \in [ctr : {"none", "stopped", "up"}, files : BOOLEAN]
          /\ mgr \in [command : SUBSET Bundles, whole : SUBSET Bundles, torn : SUBSET Bundles,
                      litter : BOOLEAN]
          /\ held \in [HostLocks -> SUBSET Runs] /\ doing \in [Runs -> DoingTask]
          /\ hostSpent \in [runs : 0..MaxRuns, kills : 0..MaxKills]
    /\ {"lifecycle", "proxy"} \cup Products = HostLocks /\ CleanupLocks = HostLocks
BY DEF RemovalTypeOK, Instance, DoingTask, Pcs, Plans, HostLocks, CleanupLocks

\* A tool goes on to a step.
LEMMA ToEffect ==
    ASSUME RemovalTypeOK, NEW r \in Runs, NEW l \in Pcs, To(r, l)
    PROVE  /\ doing' \in [Runs -> DoingTask] /\ doing'[r].pc = l
           /\ doing'[r].ed = doing[r].ed /\ doing'[r].bundle = doing[r].bundle
           /\ doing'[r].plan = doing[r].plan
           /\ \A x \in Runs : x # r => doing'[x] = doing[x]
<1> DEFINE k == [doing[r] EXCEPT !.pc = l]
<1>1. doing \in [Runs -> DoingTask]
  BY RemovalTypes
<1>2. k \in DoingTask /\ k.pc = l /\ k.ed = doing[r].ed /\ k.bundle = doing[r].bundle
      /\ k.plan = doing[r].plan
  BY <1>1 DEF DoingTask
<1>3. doing' = [doing EXCEPT ![r] = k]
  BY DEF To
<1> HIDE DEF k
<1> QED BY <1>1, <1>2, <1>3

\* A tool ends, and its locks are free.
LEMMA LeaveEffect ==
    ASSUME RemovalTypeOK, NEW r \in Runs, Leave(r)
    PROVE  /\ doing' \in [Runs -> DoingTask] /\ doing'[r].pc = "idle" /\ ~ doing'[r].plan.drop
           /\ \A x \in Runs : x # r => doing'[x] = doing[x]
           /\ held' \in [HostLocks -> SUBSET Runs]
           /\ \A x \in Runs, l \in HostLocks : x # r /\ Owns(x, l) => held'[l] = {x}
<1>1. NoTask \in DoingTask /\ NoTask.pc = "idle" /\ ~ NoTask.plan.drop
  BY DEF NoTask, NoPlan, DoingTask, Pcs, Plans
<1>2. doing \in [Runs -> DoingTask] /\ held \in [HostLocks -> SUBSET Runs]
  BY RemovalTypes
<1>3. doing' = [doing EXCEPT ![r] = NoTask]
  BY DEF Leave
<1>4. held' = [l \in HostLocks |-> held[l] \ {r}]
  BY DEF Leave, Releases
<1>5. held' \in [HostLocks -> SUBSET Runs]
  BY <1>2, <1>4
<1>6. \A x \in Runs, l \in HostLocks : x # r /\ Owns(x, l) => held'[l] = {x}
  BY <1>4 DEF Owns
<1> QED BY <1>1, <1>2, <1>3, <1>5, <1>6

\* Locks that were free are taken; the others stay with who has them.
LEMMA TakesEffect ==
    ASSUME RemovalTypeOK, NEW r \in Runs, NEW ls \in SUBSET HostLocks, Unlocked(ls), Takes(r, ls)
    PROVE  /\ held' \in [HostLocks -> SUBSET Runs] /\ \A l \in ls : held'[l] = {r}
           /\ \A x \in Runs, l \in HostLocks : Owns(x, l) => held'[l] = {x}
<1>1. held \in [HostLocks -> SUBSET Runs]
  BY RemovalTypes
<1>2. held' = [l \in HostLocks |-> IF l \in ls THEN {r} ELSE held[l]]
  BY DEF Takes
<1>3. held' \in [HostLocks -> SUBSET Runs] /\ \A l \in ls : held'[l] = {r}
  BY <1>1, <1>2
<1>4. \A x \in Runs, l \in HostLocks : Owns(x, l) => held'[l] = {x}
  BY <1>2 DEF Owns, Unlocked
<1> QED BY <1>3, <1>4

\* A step of one tool leaves the others as they were: what it changes it changes
\* under a lock, and a lock is one tool's.
LEMMA OthersFit ==
    ASSUME RemovalInv, NEW r \in Runs, NEW x \in Runs, x # r,
           doing'[x] = doing[x],
           \A l \in HostLocks : Owns(x, l) => held'[l] = {x},
           routed' = routed \/ held["proxy"] \in {{}, {r}},
           mgr'.command = mgr.command \/ Owns(r, "lifecycle"),
           \A p \in Products : \/ (inst'[p].dir => inst[p].dir) /\ inst'[p].ctr \subseteq inst[p].ctr
                               \/ held[p] \in {{}, {r}}
    PROVE  Fits(x)'
<1> USE DEF RemovalInv
<1>1. Fits(x) /\ Products \subseteq HostLocks /\ "proxy" \in HostLocks /\ "lifecycle" \in HostLocks
      /\ CleanupLocks = HostLocks /\ doing[x].ed \subseteq Products
  BY RemovalTypes DEF DoingTask
<1>2. HoldsLocks(x)'
  BY <1>1 DEF Fits, HoldsLocks, Owns, CleanupLocks
<1>3. ~ (Owns(x, "proxy") /\ held["proxy"] \in {{}, {r}}) /\ ~ (Owns(x, "lifecycle") /\ Owns(r, "lifecycle"))
      /\ \A p \in Products : ~ (Owns(x, p) /\ held[p] \in {{}, {r}})
  BY DEF Owns
<1>4. DropsLast(x)'
  <2>1. {"routes", "forget", "containers", "landirs", "trees", "certs", "backups"} \subseteq RemovalPcs
    BY DEF RemovalPcs, UninstallSteps
  <2> QED BY <1>1, <1>3, <2>1 DEF Fits, HoldsLocks, DropsLast
<1>5. CommandFirst(x)'
  <2>1. EditionPcs \cup {"edition"} \subseteq LifecyclePcs /\ {"tear", "rmdir"} \subseteq CleanupPcs
    BY DEF LifecyclePcs, CleanupPcs
  <2>2. doing[x].pc \in CleanupPcs => Owns(x, "lifecycle") /\ \A p \in Products : Owns(x, p)
    BY <1>1 DEF Fits, HoldsLocks
  <2>3. doing[x].pc \in CleanupPcs => \A p \in Products : ~ inst'[p].dir /\ inst'[p].ctr = {}
    BY <1>1, <1>3, <2>2 DEF Fits, CommandFirst
  <2>4. mgr'.command = mgr.command \/ ~ Owns(x, "lifecycle")
    BY <1>3
  <2> QED BY <1>1, <2>1, <2>2, <2>3, <2>4 DEF Fits, CommandFirst, HoldsLocks
<1>6. OneEdition(x)'
  BY <1>1 DEF Fits, OneEdition
<1> QED BY <1>2, <1>4, <1>5, <1>6 DEF Fits

LEMMA RemovalKept ==
    ASSUME RemovalInv, NEW r \in Runs, RemovalTypeOK', Fits(r)', UsedIsKept',
           \A x \in Runs : x # r => doing'[x] = doing[x],
           \A x \in Runs, l \in HostLocks : x # r /\ Owns(x, l) => held'[l] = {x},
           routed' = routed \/ held["proxy"] \in {{}, {r}},
           mgr'.command = mgr.command \/ Owns(r, "lifecycle"),
           \A p \in Products : \/ (inst'[p].dir => inst[p].dir) /\ inst'[p].ctr \subseteq inst[p].ctr
                               \/ held[p] \in {{}, {r}}
    PROVE  RemovalInv'
<1>1. ASSUME NEW x \in Runs, x # r PROVE Fits(x)'
  BY <1>1, OthersFit
<1> QED BY <1>1 DEF RemovalInv

LEMMA RemovalInitInv == RemovalInit => RemovalInv
<1> SUFFICES ASSUME RemovalInit PROVE RemovalInv
  OBVIOUS
<1> PICK old \in SUBSET Products, b \in SUBSET Bundles :
        /\ Cardinality(b) = IF old = {} THEN 0 ELSE 1
        /\ inst = [p \in Products |-> [ctr |-> IF p \in old THEN Core ELSE {}, dir |-> p \in old,
                                       lan |-> FALSE, backup |-> FALSE]]
        /\ routed = old
        /\ shared = [ctr |-> IF old = {} THEN "none" ELSE "up", files |-> old # {}]
        /\ mgr = [command |-> b, whole |-> b, torn |-> {}, litter |-> FALSE]
        /\ held = [l \in HostLocks |-> {}] /\ doing = [r \in Runs |-> NoTask]
        /\ hostSpent = [runs |-> 0, kills |-> 0]
  BY DEF RemovalInit
<1>1. NoTask \in DoingTask /\ NoTask.pc = "idle" /\ ~ NoTask.plan.drop
  BY DEF NoTask, NoPlan, DoingTask, Pcs, Plans
<1>2. RemovalTypeOK
  <2>1. inst \in [Products -> Instance]
    BY DEF Instance, Core, Containers
  <2>2. hostSpent \in [runs : 0..MaxRuns, kills : 0..MaxKills]
    BY HostAssumption
  <2> QED BY <1>1, <2>1, <2>2, RemovalTypes
<1>3. ASSUME NEW r \in Runs PROVE Fits(r)
  <2>1. doing[r].pc = "idle" /\ ~ doing[r].plan.drop
    BY <1>1
  <2> QED BY <2>1 DEF Fits, HoldsLocks, DropsLast, CommandFirst, OneEdition, LifecyclePcs, EditionPcs, RemovalPcs,
                      CleanupPcs, InstallSteps, UninstallSteps
<1>4. UsedIsKept
  <2>1. ASSUME b = {} PROVE old = {}
    <3>1. Cardinality(b) = 0
      BY <2>1, FS_EmptySet
    <3> QED BY <3>1
  <2> QED BY <2>1 DEF UsedIsKept
<1> QED BY <1>2, <1>3, <1>4 DEF RemovalInv

\* Plans are made without a lock and change nothing.
LEMMA PlansStep ==
    ASSUME RemovalInv, NEW r \in Runs,
           \/ \E p \in Products, b \in Bundles, lan \in BOOLEAN : PlanInstall(r, p, b, lan)
           \/ \E ed \in SUBSET Products \ {{}}, purge \in BOOLEAN : PlanUninstall(r, ed, purge)
    PROVE  RemovalInv'
<1>1. PICK k \in DoingTask : /\ k.pc = "shown" \/ (k.pc = "asked" /\ k.bundle # {} /\ \A x, y \in k.ed : x = y)
                         /\ doing' = [doing EXCEPT ![r] = k]
  <2>1. NoTask \in DoingTask
    BY DEF NoTask, NoPlan, DoingTask, Pcs, Plans
  <2>2. ASSUME NEW p \in Products, NEW b \in Bundles, NEW lan \in BOOLEAN, PlanInstall(r, p, b, lan)
        PROVE  \E k \in DoingTask : /\ k.pc = "shown" \/ (k.pc = "asked" /\ k.bundle # {} /\ \A x, y \in k.ed : x = y)
                                /\ doing' = [doing EXCEPT ![r] = k]
    <3> DEFINE k == [NoTask EXCEPT !.pc = "asked", !.ed = {p}, !.bundle = {b}, !.lan = lan,
                                   !.fresh = Missing(p)]
    <3>1. doing' = [doing EXCEPT ![r] = k]
      BY <2>2 DEF PlanInstall, Begins
    <3>2. Missing(p) \in BOOLEAN
      BY DEF Missing
    <3>3. k \in DoingTask /\ k.pc = "asked" /\ k.bundle # {} /\ k.ed = {p}
      BY <2>1, <3>2 DEF DoingTask, Pcs, InstallSteps
    <3> HIDE DEF k
    <3> QED BY <3>1, <3>3
  <2>3. ASSUME NEW ed \in SUBSET Products, NEW purge \in BOOLEAN, PlanUninstall(r, ed, purge)
        PROVE  \E k \in DoingTask : /\ k.pc = "shown" \/ (k.pc = "asked" /\ k.bundle # {} /\ \A x, y \in k.ed : x = y)
                                /\ doing' = [doing EXCEPT ![r] = k]
    <3> DEFINE pl == PlanFor(ed, purge)
               k == [NoTask EXCEPT !.pc = "shown", !.ed = ed, !.purge = purge, !.plan = pl]
    <3>1. doing' = [doing EXCEPT ![r] = k]
      BY <2>3 DEF PlanUninstall, Begins
    <3>2. pl \in Plans
      <4>1. inst \in [Products -> Instance] /\ routed \subseteq Products
        BY RemovalTypes DEF RemovalInv
      <4>2. [p \in Products |-> IF p \in ed THEN inst[p].ctr ELSE {}] \in [Products -> SUBSET Containers]
        BY <4>1 DEF Instance
      <4> QED BY <4>1, <4>2 DEF PlanFor, Plans
    <3> HIDE DEF pl
    <3>3. k \in DoingTask /\ k.pc = "shown"
      BY <2>1, <3>2 DEF DoingTask, Pcs, UninstallSteps
    <3> HIDE DEF k
    <3> QED BY <3>1, <3>3
  <2> QED BY <2>2, <2>3
<1>2. UNCHANGED <<inst, routed, shared, mgr, held>> /\ hostSpent' \in [runs : 0..MaxRuns, kills : 0..MaxKills]
  <2>1. hostSpent' = [hostSpent EXCEPT !.runs = @ + 1] /\ hostSpent.runs < MaxRuns
    BY DEF PlanInstall, PlanUninstall, Begins
  <2>2. hostSpent' \in [runs : 0..MaxRuns, kills : 0..MaxKills]
    BY <2>1, RemovalTypes, HostAssumption DEF RemovalInv
  <2> QED BY <2>2 DEF PlanInstall, PlanUninstall
<1>3. doing' \in [Runs -> DoingTask] /\ doing'[r].pc \in {"asked", "shown"}
      /\ (doing'[r].pc = "asked" => doing'[r].bundle # {} /\ \A x, y \in doing'[r].ed : x = y)
      /\ \A x \in Runs : x # r => doing'[x] = doing[x]
  BY <1>1, RemovalTypes DEF RemovalInv
<1>4. RemovalTypeOK'
  BY <1>2, <1>3, RemovalTypes DEF RemovalInv, RemovalTypeOK, DoingTask, Pcs, Plans, Instance
<1>5. Fits(r)'
  BY <1>3 DEF Fits, HoldsLocks, DropsLast, CommandFirst, OneEdition, LifecyclePcs, EditionPcs, RemovalPcs,
              CleanupPcs, InstallSteps, UninstallSteps
<1>6. UsedIsKept'
  BY <1>2 DEF RemovalInv, UsedIsKept
<1>7. \A x \in Runs, l \in HostLocks : x # r /\ Owns(x, l) => held'[l] = {x}
  BY <1>2 DEF Owns
<1> QED BY <1>2, <1>3, <1>4, <1>5, <1>6, <1>7, RemovalKept

\* A tool ends: refused, failed, killed, or with its last step.
LEMMA EndsStep ==
    ASSUME RemovalInv, NEW r \in Runs, Leave(r),
           inst' \in [Products -> Instance], routed' \subseteq Products,
           shared' \in [ctr : {"none", "stopped", "up"}, files : BOOLEAN],
           mgr' \in [command : SUBSET Bundles, whole : SUBSET Bundles, torn : SUBSET Bundles,
                     litter : BOOLEAN],
           hostSpent' \in [runs : 0..MaxRuns, kills : 0..MaxKills],
           UsedIsKept', mgr'.command = mgr.command,
           routed' = routed \/ held["proxy"] \in {{}, {r}},
           \A p \in Products : \/ (inst'[p].dir => inst[p].dir) /\ inst'[p].ctr \subseteq inst[p].ctr
                               \/ held[p] \in {{}, {r}}
    PROVE  RemovalInv'
<1>1. /\ doing' \in [Runs -> DoingTask] /\ doing'[r].pc = "idle" /\ ~ doing'[r].plan.drop
      /\ \A x \in Runs : x # r => doing'[x] = doing[x]
      /\ held' \in [HostLocks -> SUBSET Runs]
      /\ \A x \in Runs, l \in HostLocks : x # r /\ Owns(x, l) => held'[l] = {x}
  BY LeaveEffect DEF RemovalInv
<1>2. RemovalTypeOK'
  BY <1>1 DEF RemovalTypeOK, DoingTask, Pcs, Plans, Instance
<1>3. Fits(r)'
  BY <1>1 DEF Fits, HoldsLocks, DropsLast, CommandFirst, OneEdition, LifecyclePcs, EditionPcs, RemovalPcs,
              CleanupPcs, InstallSteps, UninstallSteps
<1> QED BY <1>1, <1>2, <1>3, RemovalKept

LEMMA StopsStep ==
    ASSUME RemovalInv, NEW r \in Runs, ToolStops(r) \/ ToolKilled(r) \/ ForgetFails(r)
    PROVE  RemovalInv'
<1>1. Leave(r) /\ UNCHANGED <<inst, routed>>
  BY DEF ToolStops, ToolKilled, ForgetFails
<1>2. shared' \in {shared, [shared EXCEPT !.ctr = "up"]} /\ mgr' \in {mgr, [mgr EXCEPT !.litter = FALSE]}
      /\ hostSpent' \in [runs : 0..MaxRuns, kills : 0..MaxKills]
  <2>1. \/ hostSpent' = hostSpent
        \/ hostSpent' = [hostSpent EXCEPT !.kills = @ + 1] /\ hostSpent.kills < MaxKills
    BY DEF ToolStops, ToolKilled, ForgetFails
  <2>2. hostSpent' \in [runs : 0..MaxRuns, kills : 0..MaxKills]
    BY <2>1, RemovalTypes, HostAssumption DEF RemovalInv
  <2> QED BY <2>2 DEF ToolStops, ToolKilled, ForgetFails
<1>3. /\ inst' \in [Products -> Instance] /\ routed' \subseteq Products
      /\ shared' \in [ctr : {"none", "stopped", "up"}, files : BOOLEAN]
      /\ mgr' \in [command : SUBSET Bundles, whole : SUBSET Bundles, torn : SUBSET Bundles,
                   litter : BOOLEAN]
      /\ mgr'.command = mgr.command /\ mgr'.whole = mgr.whole
      /\ shared'.files = shared.files /\ (shared'.ctr = "none" => shared.ctr = "none")
  BY <1>1, <1>2, RemovalTypes DEF RemovalInv
<1>4. UsedIsKept'
  BY <1>1, <1>3 DEF RemovalInv, UsedIsKept
<1> QED BY <1>1, <1>2, <1>3, <1>4, EndsStep

\* A tool goes on to its next step.
LEMMA AdvanceStep ==
    ASSUME RemovalInv, NEW r \in Runs, NEW l \in Pcs, To(r, l), hostSpent' = hostSpent,
           inst' \in [Products -> Instance], routed' \subseteq Products,
           shared' \in [ctr : {"none", "stopped", "up"}, files : BOOLEAN],
           mgr' \in [command : SUBSET Bundles, whole : SUBSET Bundles, torn : SUBSET Bundles,
                     litter : BOOLEAN],
           held' \in [HostLocks -> SUBSET Runs],
           Fits(r)', UsedIsKept',
           \A x \in Runs, k \in HostLocks : x # r /\ Owns(x, k) => held'[k] = {x},
           routed' = routed \/ held["proxy"] \in {{}, {r}},
           mgr'.command = mgr.command \/ Owns(r, "lifecycle"),
           \A p \in Products : \/ (inst'[p].dir => inst[p].dir) /\ inst'[p].ctr \subseteq inst[p].ctr
                               \/ held[p] \in {{}, {r}}
    PROVE  RemovalInv'
<1>1. doing' \in [Runs -> DoingTask] /\ \A x \in Runs : x # r => doing'[x] = doing[x]
  BY ToEffect DEF RemovalInv
<1>2. RemovalTypeOK'
  BY <1>1 DEF RemovalInv, RemovalTypeOK, DoingTask, Pcs, Plans, Instance
<1> QED BY <1>1, <1>2, RemovalKept

\* The steps of an installation that only take a lock or write beside the bundles.
LEMMA LocksLifecycleStep ==
    ASSUME RemovalInv, NEW r \in Runs, LocksLifecycle(r)
    PROVE  RemovalInv'
<1>1. UNCHANGED <<inst, routed, shared, mgr, hostSpent>> /\ Unlocked({"lifecycle"})
      /\ Takes(r, {"lifecycle"}) /\ doing[r].pc = "asked"
  BY DEF LocksLifecycle, IsAt
<1>2. PICK l \in {"switch", "candidate"} : To(r, l)
  BY DEF LocksLifecycle
<1>3. l \in Pcs
  BY DEF Pcs, InstallSteps
<1>4. doing'[r].pc = l /\ doing'[r].bundle = doing[r].bundle /\ doing'[r].ed = doing[r].ed
      /\ doing'[r].plan = doing[r].plan
  BY <1>2, <1>3, ToEffect DEF RemovalInv
<1>5. {"lifecycle"} \in SUBSET HostLocks
  BY DEF HostLocks
<1>6. /\ held' \in [HostLocks -> SUBSET Runs] /\ held'["lifecycle"] = {r}
      /\ \A x \in Runs, k \in HostLocks : Owns(x, k) => held'[k] = {x}
  BY <1>1, <1>5, TakesEffect DEF RemovalInv
<1>7. Fits(r)'
  <2>1. doing'[r].bundle # {} /\ \A x, y \in doing'[r].ed : x = y
    BY <1>1, <1>4 DEF RemovalInv, Fits, CommandFirst, OneEdition, InstallSteps
  <2> QED BY <1>4, <1>6, <2>1 DEF Fits, HoldsLocks, DropsLast, CommandFirst, OneEdition, LifecyclePcs, EditionPcs,
                                  RemovalPcs, CleanupPcs, InstallSteps, UninstallSteps, Owns
<1>8. UsedIsKept'
  BY <1>1 DEF RemovalInv, UsedIsKept
<1>9. /\ inst' \in [Products -> Instance] /\ routed' \subseteq Products
      /\ shared' \in [ctr : {"none", "stopped", "up"}, files : BOOLEAN]
      /\ mgr' \in [command : SUBSET Bundles, whole : SUBSET Bundles, torn : SUBSET Bundles,
                   litter : BOOLEAN]
  BY <1>1, RemovalTypes DEF RemovalInv
<1> QED BY <1>1, <1>2, <1>3, <1>6, <1>7, <1>8, <1>9, AdvanceStep

\* Writing the code: the command points at whole code before and after.
LEMMA CodeStep ==
    ASSUME RemovalInv, NEW r \in Runs,
           WritesCandidate(r) \/ PublishesBundle(r) \/ SwitchesCommand(r)
    PROVE  RemovalInv'
<1>1. UNCHANGED <<inst, routed, shared, held, hostSpent>> /\ doing[r].pc \in {"candidate", "publish", "switch"}
  BY DEF WritesCandidate, PublishesBundle, SwitchesCommand, IsAt
<1>2. PICK l \in {"publish", "switch", "edition"} : To(r, l) /\ (l = "edition" => SwitchesCommand(r))
  BY DEF WritesCandidate, PublishesBundle, SwitchesCommand
<1>3. l \in Pcs
  BY DEF Pcs, InstallSteps
<1>4. doing'[r].pc = l /\ doing'[r].bundle = doing[r].bundle /\ doing'[r].ed = doing[r].ed
      /\ doing'[r].plan = doing[r].plan
  BY <1>2, <1>3, ToEffect DEF RemovalInv
<1>5. doing[r].bundle # {} /\ Owns(r, "lifecycle") /\ doing[r].bundle \in SUBSET Bundles
      /\ \A x, y \in doing[r].ed : x = y
  <2>1. doing[r].bundle \in SUBSET Bundles
    BY RemovalTypes DEF RemovalInv, DoingTask
  <2> QED BY <1>1, <2>1 DEF RemovalInv, Fits, CommandFirst, OneEdition, HoldsLocks, LifecyclePcs, InstallSteps
<1>6. mgr \in [command : SUBSET Bundles, whole : SUBSET Bundles, torn : SUBSET Bundles, litter : BOOLEAN]
  BY RemovalTypes DEF RemovalInv
<1>7. /\ mgr' \in [command : SUBSET Bundles, whole : SUBSET Bundles, torn : SUBSET Bundles, litter : BOOLEAN]
      /\ mgr.whole \subseteq mgr'.whole
      /\ \/ mgr'.command = mgr.command
         \/ mgr'.command = doing[r].bundle /\ doing[r].bundle \subseteq mgr.whole
      /\ (SwitchesCommand(r) => mgr'.command = doing[r].bundle)
  <2>1. CASE WritesCandidate(r)
    BY <1>1, <1>5, <1>6, <2>1 DEF WritesCandidate, SwitchesCommand, IsAt
  <2>2. CASE PublishesBundle(r)
    BY <1>1, <1>5, <1>6, <2>2 DEF PublishesBundle, SwitchesCommand, IsAt
  <2>3. CASE SwitchesCommand(r)
    BY <1>5, <1>6, <2>3 DEF SwitchesCommand
  <2> QED BY <2>1, <2>2, <2>3
<1>8. Fits(r)'
  <2>1. doing'[r].bundle # {} /\ (\A x, y \in doing'[r].ed : x = y) /\ held'["lifecycle"] = {r} /\ (doing'[r].pc = "edition" => mgr'.command # {})
    BY <1>1, <1>2, <1>4, <1>5, <1>7 DEF Owns
  <2> QED BY <1>4, <2>1 DEF Fits, HoldsLocks, DropsLast, CommandFirst, OneEdition, LifecyclePcs, EditionPcs,
                            RemovalPcs, CleanupPcs, InstallSteps, UninstallSteps, Owns
<1>9. UsedIsKept'
  BY <1>1, <1>5, <1>7 DEF RemovalInv, UsedIsKept
<1>10. inst' \in [Products -> Instance] /\ routed' \subseteq Products
       /\ shared' \in [ctr : {"none", "stopped", "up"}, files : BOOLEAN]
       /\ held' \in [HostLocks -> SUBSET Runs]
       /\ \A x \in Runs, k \in HostLocks : Owns(x, k) => held'[k] = {x}
  BY <1>1, RemovalTypes DEF RemovalInv, Owns
<1> QED BY <1>1, <1>2, <1>3, <1>5, <1>7, <1>8, <1>9, <1>10, AdvanceStep

\* The edition itself, under its own lock.
LEMMA LocksEditionStep ==
    ASSUME RemovalInv, NEW r \in Runs, NEW p \in doing[r].ed, LocksEdition(r, p)
    PROVE  RemovalInv'
<1>1. UNCHANGED <<inst, routed, shared, mgr, hostSpent>> /\ Unlocked({p})
      /\ Takes(r, {p}) /\ doing[r].pc = "edition"
  BY DEF LocksEdition, IsAt
<1>2. PICK l \in {"record", "base", "open"} : To(r, l)
  BY DEF LocksEdition
<1>3. l \in Pcs
  BY DEF Pcs, InstallSteps
<1>4. doing'[r].pc = l /\ doing'[r].bundle = doing[r].bundle /\ doing'[r].ed = doing[r].ed
      /\ doing'[r].plan = doing[r].plan
  BY <1>2, <1>3, ToEffect DEF RemovalInv
<1>5. {p} \in SUBSET HostLocks
  BY RemovalTypes DEF RemovalInv, DoingTask
<1>6. /\ held' \in [HostLocks -> SUBSET Runs] /\ held'[p] = {r}
      /\ \A x \in Runs, k \in HostLocks : Owns(x, k) => held'[k] = {x}
  BY <1>1, <1>5, TakesEffect DEF RemovalInv
<1>7. Fits(r)'
  <2>1. doing[r].bundle # {} /\ (\A q \in doing[r].ed : q = p) /\ Owns(r, "lifecycle") /\ mgr.command # {}
    BY <1>1 DEF RemovalInv, Fits, CommandFirst, OneEdition, HoldsLocks, LifecyclePcs, InstallSteps
  <2>2. "lifecycle" \in HostLocks
    BY DEF HostLocks
  <2>3. held'["lifecycle"] = {r} /\ \A q \in doing'[r].ed : held'[q] = {r}
    BY <1>4, <1>6, <2>1, <2>2
  <2> QED BY <1>1, <1>4, <2>1, <2>3 DEF Fits, HoldsLocks, DropsLast, CommandFirst, OneEdition, LifecyclePcs,
             EditionPcs, RemovalPcs, CleanupPcs, InstallSteps, UninstallSteps, Owns
<1>8. UsedIsKept'
  BY <1>1 DEF RemovalInv, UsedIsKept
<1>9. /\ inst' \in [Products -> Instance] /\ routed' \subseteq Products
      /\ shared' \in [ctr : {"none", "stopped", "up"}, files : BOOLEAN]
      /\ mgr' \in [command : SUBSET Bundles, whole : SUBSET Bundles, torn : SUBSET Bundles,
                   litter : BOOLEAN]
  BY <1>1, RemovalTypes DEF RemovalInv
<1> QED BY <1>1, <1>2, <1>3, <1>6, <1>7, <1>8, <1>9, AdvanceStep

\* It writes to one edition, and the command is there.
LEMMA EditionOwned ==
    ASSUME RemovalInv, NEW r \in Runs, NEW p \in doing[r].ed, doing[r].pc \in EditionPcs
    PROVE  /\ p \in Products /\ Owns(r, p) /\ Owns(r, "lifecycle") /\ mgr.command # {}
           /\ doing[r].bundle # {} /\ \A q \in doing[r].ed : q = p
<1>1. p \in Products
  BY RemovalTypes DEF RemovalInv, DoingTask
<1> QED BY <1>1 DEF RemovalInv, Fits, HoldsLocks, CommandFirst, OneEdition, LifecyclePcs, EditionPcs, InstallSteps

LEMMA WritesEditionStep ==
    ASSUME RemovalInv, NEW r \in Runs, NEW p \in doing[r].ed,
           RecordsLan(r, p) \/ InstallsFiles(r, p) \/ StartsCore(r, p)
    PROVE  RemovalInv'
<1>1. UNCHANGED <<routed, shared, mgr, held, hostSpent>> /\ doing[r].pc \in {"record", "base", "start"}
  BY DEF RecordsLan, InstallsFiles, StartsCore, IsAt
<1>2. PICK l \in {"base", "start", "open"} : To(r, l)
  BY DEF RecordsLan, InstallsFiles, StartsCore
<1>3. l \in Pcs
  BY DEF Pcs, InstallSteps
<1>4. doing'[r].pc = l /\ doing'[r].bundle = doing[r].bundle /\ doing'[r].ed = doing[r].ed
      /\ doing'[r].plan = doing[r].plan
  BY <1>2, <1>3, ToEffect DEF RemovalInv
<1>5. /\ p \in Products /\ Owns(r, p) /\ Owns(r, "lifecycle") /\ mgr.command # {}
      /\ doing[r].bundle # {} /\ \A q \in doing[r].ed : q = p
  BY <1>1, EditionOwned DEF EditionPcs
<1>6. PICK i \in Instance : inst' = [inst EXCEPT ![p] = i]
  <2>1. inst[p] \in Instance
    BY <1>5, RemovalTypes DEF RemovalInv
  <2>2. CASE RecordsLan(r, p)
    BY <2>1, <2>2 DEF RecordsLan, Instance
  <2>3. CASE InstallsFiles(r, p)
    BY <2>1, <2>3 DEF InstallsFiles, Instance
  <2>4. CASE StartsCore(r, p)
    <3> DEFINE i == [inst[p] EXCEPT !.ctr = @ \cup Core]
    <3>1. i \in Instance
      BY <2>1 DEF Instance, Core, Containers
    <3>2. inst' = [inst EXCEPT ![p] = i]
      BY <2>4 DEF StartsCore
    <3> HIDE DEF i
    <3> QED BY <3>1, <3>2
  <2> QED BY <2>2, <2>3, <2>4
<1>7. inst' \in [Products -> Instance] /\ \A q \in Products : q # p => inst'[q] = inst[q]
  BY <1>5, <1>6, RemovalTypes DEF RemovalInv
<1>8. Fits(r)'
  BY <1>1, <1>4, <1>5 DEF Fits, HoldsLocks, DropsLast, CommandFirst, OneEdition, LifecyclePcs,
     EditionPcs, RemovalPcs, CleanupPcs, InstallSteps, UninstallSteps, Owns
<1>9. UsedIsKept'
  BY <1>1, <1>5 DEF RemovalInv, UsedIsKept
<1>10. /\ routed' \subseteq Products
       /\ shared' \in [ctr : {"none", "stopped", "up"}, files : BOOLEAN]
       /\ mgr' \in [command : SUBSET Bundles, whole : SUBSET Bundles, torn : SUBSET Bundles,
                    litter : BOOLEAN]
       /\ held' \in [HostLocks -> SUBSET Runs]
       /\ \A x \in Runs, k \in HostLocks : Owns(x, k) => held'[k] = {x}
  BY <1>1, RemovalTypes DEF RemovalInv, Owns
<1>11. \A q \in Products : \/ (inst'[q].dir => inst[q].dir) /\ inst'[q].ctr \subseteq inst[q].ctr
                           \/ held[q] \in {{}, {r}}
  BY <1>5, <1>7 DEF Owns
<1> QED BY <1>1, <1>2, <1>3, <1>7, <1>8, <1>9, <1>10, <1>11, AdvanceStep

LEMMA OpensStep ==
    ASSUME RemovalInv, NEW r \in Runs, NEW p \in doing[r].ed, OpensLan(r, p) \/ OpensRoute(r, p)
    PROVE  RemovalInv'
<1>1. Leave(r) /\ UNCHANGED <<mgr, hostSpent>> /\ doing[r].pc = "open"
  BY DEF OpensLan, OpensRoute, IsAt
<1>2. p \in Products /\ Owns(r, p) /\ mgr.command # {}
  BY <1>1, EditionOwned DEF EditionPcs
<1>3. /\ inst \in [Products -> Instance] /\ routed \subseteq Products
      /\ shared \in [ctr : {"none", "stopped", "up"}, files : BOOLEAN]
      /\ mgr \in [command : SUBSET Bundles, whole : SUBSET Bundles, torn : SUBSET Bundles, litter : BOOLEAN]
      /\ hostSpent \in [runs : 0..MaxRuns, kills : 0..MaxKills]
  BY RemovalTypes DEF RemovalInv
<1>4. CASE OpensLan(r, p)
  <2> DEFINE i == [inst[p] EXCEPT !.ctr = @ \cup {"entry"}]
  <2>1. i \in Instance
    BY <1>2, <1>3 DEF Instance, Containers
  <2>2. inst' = [inst EXCEPT ![p] = i] /\ UNCHANGED <<routed, shared>>
    BY <1>4 DEF OpensLan
  <2> HIDE DEF i
  <2>3. inst' \in [Products -> Instance] /\ \A q \in Products : q # p => inst'[q] = inst[q]
    BY <1>2, <1>3, <2>1, <2>2
  <2>4. UsedIsKept'
    BY <1>1, <1>2, <2>2, <2>3 DEF RemovalInv, UsedIsKept
  <2>5. \A q \in Products : \/ (inst'[q].dir => inst[q].dir) /\ inst'[q].ctr \subseteq inst[q].ctr
                            \/ held[q] \in {{}, {r}}
    BY <1>2, <2>3 DEF Owns
  <2> QED BY <1>1, <1>3, <2>2, <2>3, <2>4, <2>5, EndsStep
<1>5. CASE OpensRoute(r, p)
  <2>1. /\ routed' = routed \cup {p} /\ shared' = [ctr |-> "up", files |-> TRUE]
        /\ inst' = inst /\ held["proxy"] = {}
    BY <1>5 DEF OpensRoute, Unlocked
  <2>2. UsedIsKept'
    BY <1>1, <2>1 DEF RemovalInv, UsedIsKept
  <2>3. routed' \subseteq Products /\ shared' \in [ctr : {"none", "stopped", "up"}, files : BOOLEAN]
    BY <1>2, <1>3, <2>1
  <2> QED BY <1>1, <1>3, <2>1, <2>2, <2>3, EndsStep
<1> QED BY <1>4, <1>5

\* A removal takes all its locks, and then looks at its plan again.
LEMMA LocksAllStep ==
    ASSUME RemovalInv, NEW r \in Runs, LocksAll(r)
    PROVE  RemovalInv'
<1> DEFINE ls == doing[r].ed \cup {"proxy"}
<1>1. UNCHANGED <<inst, routed, shared, mgr, hostSpent>> /\ Unlocked(ls) /\ Takes(r, ls)
      /\ To(r, "routes") /\ StillSo(r)
  BY DEF LocksAll
<1>2. "routes" \in Pcs
  BY DEF Pcs, UninstallSteps
<1>3. doing'[r].pc = "routes" /\ doing'[r].ed = doing[r].ed /\ doing'[r].plan = doing[r].plan
  BY <1>1, <1>2, ToEffect DEF RemovalInv
<1>4. ls \in SUBSET HostLocks
  BY RemovalTypes DEF RemovalInv, DoingTask
<1> HIDE DEF ls
<1>5. /\ held' \in [HostLocks -> SUBSET Runs] /\ \A l \in ls : held'[l] = {r}
      /\ \A x \in Runs, k \in HostLocks : Owns(x, k) => held'[k] = {x}
  BY <1>1, <1>4, TakesEffect DEF RemovalInv
<1>6. doing[r].plan.drop => routed \subseteq doing[r].ed
  <2>1. doing[r].plan.drop = PlanFor(doing[r].ed, doing[r].purge).drop
    BY <1>1 DEF StillSo
  <2>2. PlanFor(doing[r].ed, doing[r].purge).drop = (routed \subseteq doing[r].ed)
    BY DEF PlanFor
  <2> QED BY <2>1, <2>2, Zenon
<1>7. Fits(r)'
  <2>1. (\A q \in doing'[r].ed : held'[q] = {r}) /\ held'["proxy"] = {r}
    BY <1>3, <1>5 DEF ls
  <2> QED BY <1>1, <1>3, <1>6, <2>1 DEF Fits, HoldsLocks, DropsLast, CommandFirst, OneEdition, LifecyclePcs,
             EditionPcs, RemovalPcs, CleanupPcs, InstallSteps, UninstallSteps, Owns
<1>8. UsedIsKept'
  BY <1>1 DEF RemovalInv, UsedIsKept
<1>9. /\ inst' \in [Products -> Instance] /\ routed' \subseteq Products
      /\ shared' \in [ctr : {"none", "stopped", "up"}, files : BOOLEAN]
      /\ mgr' \in [command : SUBSET Bundles, whole : SUBSET Bundles, torn : SUBSET Bundles,
                   litter : BOOLEAN]
  BY <1>1, RemovalTypes DEF RemovalInv
<1> QED BY <1>1, <1>2, <1>5, <1>7, <1>8, <1>9, AdvanceStep

\* From then on nobody else adds a route or writes to its editions.
LEMMA RemovalOwned ==
    ASSUME RemovalInv, NEW r \in Runs, doing[r].pc \in RemovalPcs
    PROVE  /\ Owns(r, "proxy") /\ doing[r].ed \subseteq Products /\ \A p \in doing[r].ed : Owns(r, p)
           /\ DropsLast(r)
BY RemovalTypes DEF RemovalInv, Fits, HoldsLocks, DoingTask

\* A removal that goes on under its locks fits if it drops the proxy last.
LEMMA RemovalGoesOn ==
    ASSUME RemovalInv, NEW r \in Runs, NEW l \in RemovalPcs, doing[r].pc \in RemovalPcs, To(r, l),
           UNCHANGED <<mgr, held, hostSpent>>,
           inst' \in [Products -> Instance], routed' \subseteq routed,
           shared' \in [ctr : {"none", "stopped", "up"}, files : BOOLEAN],
           \A p \in Products : (inst'[p].dir => inst[p].dir) /\ inst'[p].ctr \subseteq inst[p].ctr,
           doing[r].plan.drop => (l \in {"routes", "forget"} => routed' \subseteq doing[r].ed)
                              /\ (l \notin {"routes", "forget"} => routed' = {}),
           routed' # {} => shared'.ctr # "none" /\ shared'.files
    PROVE  RemovalInv'
<1>1. l \in Pcs /\ l \notin LifecyclePcs \cup EditionPcs \cup CleanupPcs \cup InstallSteps
  BY DEF Pcs, UninstallSteps, RemovalPcs, LifecyclePcs, EditionPcs, CleanupPcs, InstallSteps
<1>2. doing'[r].pc = l /\ doing'[r].ed = doing[r].ed /\ doing'[r].plan = doing[r].plan
  BY <1>1, ToEffect DEF RemovalInv
<1>3. Owns(r, "proxy") /\ doing[r].ed \subseteq Products /\ \A p \in doing[r].ed : Owns(r, p)
  BY RemovalOwned
<1>4. Fits(r)'
  <2>1. HoldsLocks(r)'
    BY <1>1, <1>2, <1>3 DEF HoldsLocks, Owns
  <2>2. DropsLast(r)'
    BY <1>2 DEF DropsLast
  <2>3. CommandFirst(r)' /\ OneEdition(r)'
    BY <1>1, <1>2 DEF CommandFirst, OneEdition, LifecyclePcs, EditionPcs, CleanupPcs
  <2> QED BY <2>1, <2>2, <2>3 DEF Fits
<1>5. UsedIsKept'
  BY DEF RemovalInv, UsedIsKept
<1>6. /\ routed' \subseteq Products
      /\ mgr' \in [command : SUBSET Bundles, whole : SUBSET Bundles, torn : SUBSET Bundles,
                   litter : BOOLEAN]
      /\ held' \in [HostLocks -> SUBSET Runs]
      /\ \A x \in Runs, k \in HostLocks : Owns(x, k) => held'[k] = {x}
  BY RemovalTypes DEF RemovalInv, Owns
<1> QED BY <1>1, <1>3, <1>4, <1>5, <1>6, AdvanceStep DEF Owns

LEMMA RoutesStep ==
    ASSUME RemovalInv, NEW r \in Runs, StopsShared(r) \/ ForgetsRoutes(r) \/ RoutesGone(r)
    PROVE  RemovalInv'
<1>1. /\ routed \subseteq Products /\ inst \in [Products -> Instance]
      /\ shared \in [ctr : {"none", "stopped", "up"}, files : BOOLEAN]
  BY RemovalTypes DEF RemovalInv
<1>2. doing[r].pc \in RemovalPcs /\ {"routes", "forget", "containers"} \subseteq RemovalPcs
  BY DEF StopsShared, ForgetsRoutes, RoutesGone, IsAt, RemovalPcs, UninstallSteps
<1>3. DropsLast(r)
  BY <1>2, RemovalOwned
<1>4. CASE StopsShared(r)
  <2>1. /\ UNCHANGED <<inst, routed, mgr, held, hostSpent>> /\ To(r, "forget") /\ doing[r].pc = "routes"
        /\ shared' = [shared EXCEPT !.ctr = "stopped"]
    BY <1>4 DEF StopsShared, IsAt
  <2>2. shared' \in [ctr : {"none", "stopped", "up"}, files : BOOLEAN]
        /\ (routed # {} => shared'.ctr # "none" /\ shared'.files)
    BY <1>1, <2>1 DEF RemovalInv, UsedIsKept
  <2>3. doing[r].plan.drop => routed \subseteq doing[r].ed
    BY <1>3, <2>1 DEF DropsLast
  <2> QED BY <1>1, <1>2, <2>1, <2>2, <2>3, RemovalGoesOn
<1>5. CASE ForgetsRoutes(r)
  <2>1. UNCHANGED <<inst, shared, mgr, held, hostSpent>> /\ To(r, "containers") /\ routed' = {}
    BY <1>5 DEF ForgetsRoutes
  <2> QED BY <1>1, <1>2, <2>1, RemovalGoesOn
<1>6. CASE RoutesGone(r)
  <2>1. /\ UNCHANGED <<inst, routed, shared, mgr, held, hostSpent>> /\ To(r, "containers")
        /\ doing[r].pc = "routes" /\ doing[r].ed \cap routed = {}
    BY <1>6 DEF RoutesGone, IsAt
  <2>2. doing[r].plan.drop => routed = {}
    BY <1>3, <2>1 DEF DropsLast
  <2>3. routed # {} => shared.ctr # "none" /\ shared.files
    BY DEF RemovalInv, UsedIsKept
  <2> QED BY <1>1, <1>2, <2>1, <2>2, <2>3, RemovalGoesOn
<1> QED BY <1>4, <1>5, <1>6

\* The proxy's container and its certificates go when no route is left.
LEMMA SharedStep ==
    ASSUME RemovalInv, NEW r \in Runs, RemovesShared(r) \/ TreesGone(r) \/ RemovesCertificates(r)
    PROVE  RemovalInv'
<1>1. /\ routed \subseteq Products /\ inst \in [Products -> Instance]
      /\ shared \in [ctr : {"none", "stopped", "up"}, files : BOOLEAN]
  BY RemovalTypes DEF RemovalInv
<1>2. PICK l \in {"landirs", "certs", "backups"} : To(r, l)
  BY DEF RemovesShared, TreesGone, RemovesCertificates
<1>3. doing[r].pc \in RemovalPcs \ {"routes", "forget"} /\ l \in RemovalPcs
  BY DEF RemovesShared, TreesGone, RemovesCertificates, IsAt, RemovalPcs, UninstallSteps
<1>4. doing[r].plan.drop => routed = {}
  <2>1. DropsLast(r)
    BY <1>3, RemovalOwned
  <2> QED BY <2>1 DEF RemovesShared, TreesGone, RemovesCertificates, IsAt, DropsLast
<1>5. UNCHANGED <<inst, routed, mgr, held, hostSpent>>
  BY DEF RemovesShared, TreesGone, RemovesCertificates
<1>6. \/ shared' = shared
      \/ doing[r].plan.drop
         /\ shared' \in {[shared EXCEPT !.ctr = "none"], [shared EXCEPT !.files = FALSE]}
  BY DEF RemovesShared, TreesGone, RemovesCertificates
<1>7. shared' \in [ctr : {"none", "stopped", "up"}, files : BOOLEAN]
  BY <1>1, <1>6
<1>8. routed # {} => shared'.ctr # "none" /\ shared'.files
  BY <1>4, <1>6 DEF RemovalInv, UsedIsKept
<1> QED BY <1>1, <1>2, <1>3, <1>4, <1>5, <1>7, <1>8, RemovalGoesOn

\* Steps that take something from the host and stay where they are.
LEMMA TakesAwayStep ==
    ASSUME RemovalInv, NEW r \in Runs, NEW p \in doing[r].ed, NEW c \in Containers,
           RemovesRoute(r, p) \/ RemovesTree(r, p) \/ RemovesContainer(r, p, c)
    PROVE  RemovalInv'
<1>1. UNCHANGED <<shared, mgr, held, doing, hostSpent>> /\ doing[r].pc \in {"routes", "trees", "containers"}
  BY DEF RemovesRoute, RemovesTree, RemovesContainer, IsAt
<1>2. doing[r].pc \in RemovalPcs
  BY <1>1 DEF RemovalPcs, UninstallSteps
<1>3. p \in Products /\ inst \in [Products -> Instance] /\ Owns(r, "proxy")
  BY <1>2, RemovalOwned, RemovalTypes DEF RemovalInv
<1>4. \/ inst' = inst /\ routed' = routed \ {p}
      \/ routed' = routed /\ inst' = [inst EXCEPT ![p] = [inst[p] EXCEPT !.dir = FALSE]]
      \/ routed' = routed /\ inst' = [inst EXCEPT ![p] = [inst[p] EXCEPT !.ctr = inst[p].ctr \ {c}]]
  BY DEF RemovesRoute, RemovesTree, RemovesContainer
<1>5. /\ inst' \in [Products -> Instance]
      /\ \A q \in Products : (inst'[q].dir => inst[q].dir) /\ inst'[q].ctr \subseteq inst[q].ctr
  <2>1. \A i \in {[inst[p] EXCEPT !.dir = FALSE], [inst[p] EXCEPT !.ctr = inst[p].ctr \ {c}]} :
            i \in Instance /\ (i.dir => inst[p].dir) /\ i.ctr \subseteq inst[p].ctr
    BY <1>3 DEF Instance
  <2>2. inst' = inst \/ \E i \in Instance : /\ (i.dir => inst[p].dir) /\ i.ctr \subseteq inst[p].ctr
                                            /\ inst' = [inst EXCEPT ![p] = i]
    BY <1>4, <2>1
  <2> QED BY <1>3, <2>2
<1>6. RemovalTypeOK'
  <2>1. routed' \subseteq Products
    BY <1>4, RemovalTypes DEF RemovalInv
  <2> QED BY <1>1, <1>5, <2>1, RemovalTypes DEF RemovalInv, RemovalTypeOK, Instance
<1>7. routed' \subseteq routed
  BY <1>4
<1>8. Fits(r)'
  <2>1. HoldsLocks(r)' /\ OneEdition(r)'
    BY <1>1 DEF RemovalInv, Fits, HoldsLocks, OneEdition, Owns
  <2>2. DropsLast(r)'
    BY <1>1, <1>7 DEF RemovalInv, Fits, DropsLast
  <2>3. CommandFirst(r)'
    BY <1>1 DEF RemovalInv, Fits, CommandFirst, InstallSteps, EditionPcs, CleanupPcs
  <2> QED BY <2>1, <2>2, <2>3 DEF Fits
<1>9. UsedIsKept'
  BY <1>1, <1>5, <1>7 DEF RemovalInv, UsedIsKept
<1>10. \A x \in Runs, l \in HostLocks : x # r /\ Owns(x, l) => held'[l] = {x}
  BY <1>1 DEF Owns
<1> QED BY <1>1, <1>3, <1>5, <1>6, <1>8, <1>9, <1>10, RemovalKept DEF Owns

\* The last steps of a removal.
LEMMA RecordsOnly ==
    ASSUME RemovalInv, NEW ed, NEW fld \in {"lan", "backup"},
           inst' = IF fld = "lan" THEN [p \in Products |-> [inst[p] EXCEPT !.lan = @ /\ p \notin ed]]
                                  ELSE [p \in Products |-> [inst[p] EXCEPT !.backup = @ /\ p \notin ed]]
    PROVE  /\ inst' \in [Products -> Instance]
           /\ \A p \in Products : inst'[p].dir = inst[p].dir /\ inst'[p].ctr = inst[p].ctr
<1>1. inst \in [Products -> Instance]
  BY RemovalTypes DEF RemovalInv
<1>2. ASSUME NEW p \in Products, NEW v \in BOOLEAN, NEW i \in {[inst[p] EXCEPT !.lan = v], [inst[p] EXCEPT !.backup = v]}
      PROVE  i \in Instance /\ i.dir = inst[p].dir /\ i.ctr = inst[p].ctr
  <2>1. inst[p] \in Instance
    BY <1>1
  <2>2. CASE i = [inst[p] EXCEPT !.lan = v]
    BY <2>1, <2>2 DEF Instance
  <2>3. CASE i = [inst[p] EXCEPT !.backup = v]
    BY <2>1, <2>3 DEF Instance
  <2> QED BY <1>2, <2>2, <2>3
<1>3. ASSUME NEW p \in Products
      PROVE  \E v \in BOOLEAN : inst'[p] \in {[inst[p] EXCEPT !.lan = v], [inst[p] EXCEPT !.backup = v]}
  <2>1. inst[p] \in Instance
    BY <1>1
  <2>2. CASE fld = "lan"
    <3>1. inst'[p] = [inst[p] EXCEPT !.lan = inst[p].lan /\ p \notin ed]
      BY <2>2
    <3>2. (inst[p].lan /\ p \notin ed) \in BOOLEAN
      OBVIOUS
    <3> QED BY <3>1, <3>2, Zenon
  <2>3. CASE fld = "backup"
    <3>1. inst'[p] = [inst[p] EXCEPT !.backup = inst[p].backup /\ p \notin ed]
      BY <2>3
    <3>2. (inst[p].backup /\ p \notin ed) \in BOOLEAN
      OBVIOUS
    <3> QED BY <3>1, <3>2, Zenon
  <2> QED BY <2>2, <2>3
<1>4. inst' = [p \in Products |-> inst'[p]]
  OBVIOUS
<1>5. ASSUME NEW p \in Products
      PROVE  inst'[p] \in Instance /\ inst'[p].dir = inst[p].dir /\ inst'[p].ctr = inst[p].ctr
  <2> DEFINE new == inst'[p]
  <2>1. PICK v \in BOOLEAN : new \in {[inst[p] EXCEPT !.lan = v], [inst[p] EXCEPT !.backup = v]}
    BY <1>3
  <2> HIDE DEF new
  <2>2. new \in Instance /\ new.dir = inst[p].dir /\ new.ctr = inst[p].ctr
    BY <1>2, <2>1
  <2> QED BY <2>2 DEF new
<1>6. inst' \in [Products -> Instance]
  BY <1>4, <1>5, Zenon
<1> QED BY <1>5, <1>6

LEMMA LanDirsStep ==
    ASSUME RemovalInv, NEW r \in Runs, RemovesLanDirs(r)
    PROVE  RemovalInv'
<1>1. /\ inst' = [p \in Products |-> [inst[p] EXCEPT !.lan = @ /\ p \notin doing[r].ed]]
      /\ UNCHANGED <<routed, shared, mgr, hostSpent>> /\ doing[r].pc = "landirs"
      /\ (To(r, "trees") /\ held' = held) \/ Leave(r)
  BY DEF RemovesLanDirs, IsAt
<1>2. /\ inst' \in [Products -> Instance]
      /\ \A p \in Products : inst'[p].dir = inst[p].dir /\ inst'[p].ctr = inst[p].ctr
  BY <1>1, RecordsOnly
<1>3. doing[r].pc \in RemovalPcs /\ "trees" \in RemovalPcs
  BY <1>1 DEF RemovalPcs, UninstallSteps
<1>4. doing[r].plan.drop => routed = {}
  BY <1>1, <1>3, RemovalOwned DEF DropsLast
<1>5. /\ routed' \subseteq Products /\ routed' \subseteq routed
      /\ shared' \in [ctr : {"none", "stopped", "up"}, files : BOOLEAN]
      /\ mgr' \in [command : SUBSET Bundles, whole : SUBSET Bundles, torn : SUBSET Bundles, litter : BOOLEAN]
      /\ hostSpent' \in [runs : 0..MaxRuns, kills : 0..MaxKills]
  BY <1>1, RemovalTypes DEF RemovalInv
<1>6. UsedIsKept' /\ (routed' # {} => shared'.ctr # "none" /\ shared'.files)
  BY <1>1, <1>2 DEF RemovalInv, UsedIsKept
<1>7. CASE To(r, "trees") /\ held' = held
  BY <1>1, <1>2, <1>3, <1>4, <1>5, <1>6, <1>7, RemovalGoesOn
<1>8. CASE Leave(r)
  BY <1>1, <1>2, <1>5, <1>6, <1>8, EndsStep
<1> QED BY <1>1, <1>7, <1>8

LEMMA BackupsStep ==
    ASSUME RemovalInv, NEW r \in Runs, RemovesBackups(r)
    PROVE  RemovalInv'
<1>1. /\ inst' = [p \in Products |-> [inst[p] EXCEPT !.backup = @ /\ p \notin doing[r].ed]]
      /\ UNCHANGED <<routed, shared, mgr, hostSpent>> /\ doing[r].pc = "backups"
      /\ To(r, "cleanup") /\ held' = [l \in HostLocks |-> held[l] \ {r}]
  BY DEF RemovesBackups, IsAt, Releases
<1>2. /\ inst' \in [Products -> Instance]
      /\ \A p \in Products : inst'[p].dir = inst[p].dir /\ inst'[p].ctr = inst[p].ctr
  BY <1>1, RecordsOnly
<1>3. "cleanup" \in Pcs
  BY DEF Pcs, CleanupSteps
<1>4. doing'[r].pc = "cleanup"
  BY <1>1, <1>3, ToEffect DEF RemovalInv
<1>5. /\ routed' \subseteq Products
      /\ shared' \in [ctr : {"none", "stopped", "up"}, files : BOOLEAN]
      /\ mgr' \in [command : SUBSET Bundles, whole : SUBSET Bundles, torn : SUBSET Bundles, litter : BOOLEAN]
      /\ held \in [HostLocks -> SUBSET Runs]
  BY <1>1, RemovalTypes DEF RemovalInv
<1>6. held' \in [HostLocks -> SUBSET Runs]
      /\ \A x \in Runs, k \in HostLocks : x # r /\ Owns(x, k) => held'[k] = {x}
  BY <1>1, <1>5 DEF Owns
<1>7. UsedIsKept'
  BY <1>1, <1>2 DEF RemovalInv, UsedIsKept
<1>8. Fits(r)'
  BY <1>4 DEF Fits, HoldsLocks, DropsLast, CommandFirst, OneEdition, LifecyclePcs, EditionPcs,
              RemovalPcs, CleanupPcs, InstallSteps, UninstallSteps
<1> QED BY <1>1, <1>2, <1>3, <1>5, <1>6, <1>7, <1>8, AdvanceStep

\* The clean-up holds every lock, so nothing is installed while it works.
LEMMA LocksCleanupStep ==
    ASSUME RemovalInv, NEW r \in Runs, LocksCleanup(r)
    PROVE  RemovalInv'
<1>1. UNCHANGED <<inst, routed, shared, mgr, hostSpent>> /\ Unlocked(CleanupLocks)
      /\ Takes(r, CleanupLocks) /\ To(r, "unlink") /\ ~ InUse
  BY DEF LocksCleanup
<1>2. "unlink" \in Pcs
  BY DEF Pcs, CleanupSteps
<1>3. doing'[r].pc = "unlink"
  BY <1>1, <1>2, ToEffect DEF RemovalInv
<1>4. CleanupLocks \in SUBSET HostLocks
  BY RemovalTypes
<1>5. /\ held' \in [HostLocks -> SUBSET Runs] /\ \A l \in CleanupLocks : held'[l] = {r}
      /\ \A x \in Runs, k \in HostLocks : Owns(x, k) => held'[k] = {x}
  BY <1>1, <1>4, TakesEffect DEF RemovalInv
<1>6. Fits(r)'
  <2>1. \A p \in Products : ~ inst'[p].dir /\ inst'[p].ctr = {}
    BY <1>1 DEF InUse
  <2>2. "lifecycle" \in CleanupLocks
    BY DEF CleanupLocks
  <2>3. \A l \in CleanupLocks' : held'[l] = {r}
    BY <1>5 DEF CleanupLocks
  <2> QED BY <1>3, <2>1, <2>3 DEF Fits, HoldsLocks, DropsLast, CommandFirst, OneEdition, LifecyclePcs,
             EditionPcs, RemovalPcs, CleanupPcs, InstallSteps, UninstallSteps, Owns
<1>7. UsedIsKept'
  BY <1>1 DEF RemovalInv, UsedIsKept
<1>8. /\ inst' \in [Products -> Instance] /\ routed' \subseteq Products
      /\ shared' \in [ctr : {"none", "stopped", "up"}, files : BOOLEAN]
      /\ mgr' \in [command : SUBSET Bundles, whole : SUBSET Bundles, torn : SUBSET Bundles,
                   litter : BOOLEAN]
  BY <1>1, RemovalTypes DEF RemovalInv
<1> QED BY <1>1, <1>2, <1>5, <1>6, <1>7, <1>8, AdvanceStep

\* The command goes first, then the code, then the directory.
LEMMA CleanupStepKept ==
    ASSUME RemovalInv, NEW r \in Runs, UnlinksCommand(r) \/ UnlinksFiles(r) \/ RemovesRoot(r)
    PROVE  RemovalInv'
<1>1. doing[r].pc \in CleanupPcs /\ UNCHANGED <<inst, routed, shared, hostSpent>>
  BY DEF UnlinksCommand, UnlinksFiles, RemovesRoot, IsAt, CleanupPcs
<1>2. /\ \A l \in CleanupLocks : Owns(r, l)
      /\ \A p \in Products : ~ inst[p].dir /\ inst[p].ctr = {}
      /\ (doing[r].pc \in {"tear", "rmdir"} => mgr.command = {})
  BY <1>1 DEF RemovalInv, Fits, HoldsLocks, CommandFirst
<1>3. mgr \in [command : SUBSET Bundles, whole : SUBSET Bundles, torn : SUBSET Bundles, litter : BOOLEAN]
  BY RemovalTypes DEF RemovalInv
<1>4. /\ mgr' \in [command : SUBSET Bundles, whole : SUBSET Bundles, torn : SUBSET Bundles, litter : BOOLEAN]
      /\ mgr'.command = {}
  BY <1>2, <1>3 DEF UnlinksCommand, UnlinksFiles, RemovesRoot, IsAt
<1>5. UsedIsKept'
  BY <1>1, <1>2, <1>4 DEF RemovalInv, UsedIsKept
<1>6. /\ inst' \in [Products -> Instance] /\ routed' \subseteq Products
      /\ shared' \in [ctr : {"none", "stopped", "up"}, files : BOOLEAN]
      /\ hostSpent' \in [runs : 0..MaxRuns, kills : 0..MaxKills]
  BY <1>1, RemovalTypes DEF RemovalInv
<1>7. Owns(r, "lifecycle")
  BY <1>2 DEF CleanupLocks
<1>8. ASSUME NEW l \in {"tear", "rmdir"}, To(r, l), held' = held
      PROVE  RemovalInv'
  <2>1. l \in Pcs
    BY DEF Pcs, CleanupSteps
  <2>2. doing'[r].pc = l
    BY <1>8, <2>1, ToEffect DEF RemovalInv
  <2>3. \A k \in CleanupLocks' : held'[k] = {r}
    BY <1>2, <1>8 DEF CleanupLocks, Owns
  <2>4. Fits(r)'
    BY <1>1, <1>2, <1>4, <2>2, <2>3 DEF Fits, HoldsLocks, DropsLast, CommandFirst, OneEdition, LifecyclePcs,
             EditionPcs, RemovalPcs, CleanupPcs, InstallSteps, UninstallSteps, Owns
  <2>5. held' \in [HostLocks -> SUBSET Runs] /\ \A x \in Runs, k \in HostLocks : Owns(x, k) => held'[k] = {x}
    BY <1>8, RemovalTypes DEF RemovalInv, Owns
  <2> QED BY <1>1, <1>4, <1>5, <1>6, <1>7, <1>8, <2>1, <2>4, <2>5, AdvanceStep
<1>9. CASE RemovesRoot(r)
  <2>1. Leave(r) /\ mgr'.command = mgr.command
    BY <1>2, <1>4, <1>9 DEF RemovesRoot, IsAt
  <2> QED BY <1>1, <1>4, <1>5, <1>6, <2>1, EndsStep
<1> QED BY <1>8, <1>9 DEF UnlinksCommand, UnlinksFiles

LEMMA TakesBackupStep ==
    ASSUME RemovalInv, NEW p \in Products, TakesBackup(p)
    PROVE  RemovalInv'
<1>1. /\ UNCHANGED <<routed, shared, mgr, held, doing, hostSpent>>
      /\ inst' = [inst EXCEPT ![p] = [inst[p] EXCEPT !.backup = TRUE]]
  BY DEF TakesBackup
<1>2. inst \in [Products -> Instance]
  BY RemovalTypes DEF RemovalInv
<1>3. /\ inst' \in [Products -> Instance]
      /\ \A q \in Products : inst'[q].dir = inst[q].dir /\ inst'[q].ctr = inst[q].ctr
  <2> DEFINE i == [inst[p] EXCEPT !.backup = TRUE]
  <2>1. i \in Instance /\ i.dir = inst[p].dir /\ i.ctr = inst[p].ctr
    BY <1>2 DEF Instance
  <2>2. inst' = [inst EXCEPT ![p] = i]
    BY <1>1
  <2> HIDE DEF i
  <2> QED BY <1>2, <2>1, <2>2
<1>4. RemovalTypeOK'
  BY <1>1, <1>3, RemovalTypes DEF RemovalInv, RemovalTypeOK, Instance
<1>5. \A r \in Runs : Fits(r)'
  BY <1>1, <1>3 DEF RemovalInv, Fits, HoldsLocks, DropsLast, CommandFirst, OneEdition, Owns, InstallSteps,
                    EditionPcs, CleanupPcs, CleanupLocks
<1>6. UsedIsKept'
  BY <1>1, <1>3 DEF RemovalInv, UsedIsKept
<1> QED BY <1>4, <1>5, <1>6 DEF RemovalInv

LEMMA RemovalStep ==
    ASSUME RemovalInv, [RemovalNext]_removalVars
    PROVE  RemovalInv'
<1>1. ASSUME NEW r \in Runs, InstallStep(r) PROVE RemovalInv'
  BY <1>1, LocksLifecycleStep, CodeStep, LocksEditionStep, WritesEditionStep, OpensStep DEF InstallStep
<1>2. ASSUME NEW r \in Runs, UninstallStep(r) PROVE RemovalInv'
  <2>1. CASE \E p \in doing[r].ed : \/ RemovesRoute(r, p) \/ RemovesTree(r, p)
                                    \/ \E c \in Containers : RemovesContainer(r, p, c)
    <3>1. "bot" \in Containers
      BY DEF Containers
    <3> QED BY <2>1, <3>1, TakesAwayStep
  <2> QED BY <1>2, <2>1, LocksAllStep, RoutesStep, StopsStep, SharedStep, LanDirsStep, BackupsStep
          DEF UninstallStep
<1>3. ASSUME NEW r \in Runs, CleanupStep(r) PROVE RemovalInv'
  BY <1>3, LocksCleanupStep, CleanupStepKept DEF CleanupStep
<1>4. CASE UNCHANGED removalVars
  <2>1. RemovalTypeOK'
    BY <1>4 DEF RemovalInv, RemovalTypeOK, removalVars
  <2>2. \A r \in Runs : Fits(r)'
    BY <1>4 DEF RemovalInv, removalVars, Fits, HoldsLocks, DropsLast, CommandFirst, OneEdition, Owns,
                InstallSteps, EditionPcs, CleanupPcs, CleanupLocks
  <2>3. UsedIsKept'
    BY <1>4 DEF RemovalInv, removalVars, UsedIsKept
  <2> QED BY <2>1, <2>2, <2>3 DEF RemovalInv
<1> QED BY <1>1, <1>2, <1>3, <1>4, PlansStep, StopsStep, TakesBackupStep DEF RemovalNext

\* Each tool holds the locks of its step, a removal drops the shared proxy only
\* when every route was its own, and the command is there from before the first
\* edition until after the last.
THEOREM RemovalInvariant == RemovalSpec => []RemovalInv
<1>1. RemovalInv /\ [RemovalNext]_removalVars => RemovalInv'
  BY RemovalStep
<1> QED BY RemovalInitInv, <1>1, PTL DEF RemovalSpec

\* What another edition uses is left alone, whatever was true when the plan of a
\* removal was shown and wherever a tool failed or was killed (manager.py's
\* locks, the plan compared again under them, and cleanup_manager's order).
THEOREM UsedKept == RemovalSpec => []UsedIsKept
<1>1. RemovalInv => UsedIsKept
  BY DEF RemovalInv
<1> QED BY RemovalInvariant, <1>1, PTL

-------------------------------------------------------------------------------
(* The external WebDAV entry *)

Started(t) == Pc(t) \notin {"none", "lock"}
RoutinePcs == {"revoke", "route", "write", "apply", "done", "erase"}
AccountPcs == {"close", "open", "account"}
WaitingPcs == {"manual", "relock", "handler"}

\* What a tool works on.
Works(t) ==
    /\ Pc(t) # "none" => IF job[t].kind \in Routine THEN job[t].user \in Mains ELSE job[t].user \in Family
    /\ Pc(t) = "lock" /\ job[t].kind \in Routine \ {"configure"} => job[t].user = job[t].seen.main
    /\ Started(t) => IF job[t].kind \in Routine
                     THEN job[t].mine.phase = "pending" /\ job[t].mine.main = job[t].user
                     ELSE job[t].mine.members[job[t].user] = "pending"
    /\ Pc(t) \in RoutinePcs => job[t].kind \in Routine
    /\ Pc(t) \in AccountPcs => job[t].kind \notin Routine
    /\ Pc(t) \in WaitingPcs => job[t].kind \notin Routine \ {"configure"}
    /\ Pc(t) \in {"write", "apply"} => job[t].kind \in {"configure", "enable"}
    /\ Pc(t) = "route" => job[t].kind # "enable"
    /\ Pc(t) = "manual" => job[t].kind \notin Closing
    /\ Pc(t) = "erase" => job[t].kind = "uninstall"

\* A revision is one tool's.
Stamped(t) == Started(t) =>
    /\ 1 <= job[t].mine.rev /\ job[t].mine.rev <= revision
    /\ \A u \in Tools : Started(u) /\ u # t => job[u].mine.rev # job[t].mine.rev

\* Under the locks, and after them as long as the revision stands, the record is
\* the tool's own, and so are the accounts it has opened and closed.
Writing(t) ==
    /\ Pc(t) = "save" =>
          /\ record = job[t].seen /\ record.rev # job[t].mine.rev
          /\ job[t].kind \in Routine => job[t].mine.members = record.members
          /\ job[t].kind \notin Routine =>
                /\ job[t].mine.phase = record.phase /\ job[t].mine.main = record.main
                /\ \A f \in Family : f # job[t].user => job[t].mine.members[f] = record.members[f]
                /\ route = IF record.phase = "enabled" THEN "on" ELSE "off"
    /\ Pc(t) \in Locked \ {"save", "erase"} => record = job[t].mine
    /\ Pc(t) = "erase" => record.rev = job[t].mine.rev /\ auth = {}
    /\ Pc(t) \in WaitingPcs /\ record.rev = job[t].mine.rev => record = job[t].mine
    /\ Pc(t) = "route" => auth = {}
    /\ Pc(t) = "apply" => auth = {job[t].user}
    /\ Pc(t) = "done" => IF job[t].kind \in {"configure", "enable"} THEN auth = {job[t].user} /\ route = "on"
                                                                    ELSE auth = {}
    /\ Pc(t) \in {"manual", "relock", "write"} /\ job[t].kind = "configure" /\ record = job[t].mine => auth = {}
    /\ Pc(t) \in {"relock", "open", "account"} /\ job[t].kind \in Closing /\ record = job[t].mine =>
          job[t].user \notin auth

Keeps(t) == (Pc(t) \in Locked <=> holder = t) /\ Works(t) /\ Stamped(t) /\ Writing(t)

\* Who is out is out, at every moment.
Shut ==
    /\ record.phase \in {"none", "disabled", "needs_repair"} => record.main \notin auth
    /\ \A f \in Family : record.members[f] \in {"none", "disabled", "needs_repair"} => f \notin auth

\* Who can log in is recorded, or there is a tool that will see to it.
Told == tidy /\ (\A t \in Tools : Pc(t) \notin RoutinePcs) =>
    /\ record.main \in auth =>
          /\ route = "on"
          /\ \/ record.phase = "enabled"
             \/ \E t \in Tools : Pc(t) = "handler" /\ job[t].kind = "configure" /\ record.rev = job[t].mine.rev
    /\ \A f \in auth \cap Family :
          \/ record.members[f] = "enabled"
          \/ \E t \in Tools : /\ Pc(t) \in {"handler"} \cup AccountPcs
                              /\ job[t].kind \notin Routine /\ job[t].user = f

AccessInv == WebdavTypeOK /\ record.rev <= revision /\ (\A t \in Tools : Keeps(t)) /\ Shut /\ Told

Job == [pc : Locked \cup {"none", "lock", "manual", "relock", "handler"},
        kind : Routine \cup Opening \cup Closing, user : Mains \cup Family, seen : Record, mine : Record]

LEMMA AccessTypes ==
    /\ WebdavTypeOK <=>
          /\ record \in Record /\ auth \subseteq Mains \cup Family
          /\ route \in {"none", "off", "on"} /\ holder \in Tools \cup {NoTool}
          /\ job \in [Tools -> Job]
          /\ revision \in 0..MaxRevisions /\ cuts \in 0..MaxCuts /\ tidy \in BOOLEAN
    /\ NoTool \notin Tools /\ Mains \cap Family = {}
BY WebdavAssumption DEF WebdavTypeOK, Job

LEMMA NoRecordType == NoRecord \in Record /\ NoRecord.rev = 0 /\ NoJob \in Job /\ NoJob.pc = "none"
<1>1. (CHOOSE m \in Mains : TRUE) \in Mains
  BY WebdavAssumption
<1>2. NoMembers \in [Family -> Phases] /\ "none" \in Phases /\ 0 \in 0..MaxRevisions
  BY WebdavAssumption DEF NoMembers, Phases
<1>3. NoRecord \in Record /\ NoRecord.rev = 0
  BY <1>1, <1>2 DEF NoRecord, Record
<1> QED BY <1>1, <1>3 DEF NoJob, Job, Routine

LEMMA GoesEffect ==
    ASSUME WebdavTypeOK, NEW t \in Tools, NEW l \in Locked \cup {"none", "lock", "manual", "relock", "handler"},
           Goes(t, l)
    PROVE  /\ job' \in [Tools -> Job] /\ job'[t].pc = l
           /\ job'[t].kind = job[t].kind /\ job'[t].user = job[t].user
           /\ job'[t].seen = job[t].seen /\ job'[t].mine = job[t].mine
           /\ \A x \in Tools : x # t => job'[x] = job[x]
<1> DEFINE k == [job[t] EXCEPT !.pc = l]
<1>1. job \in [Tools -> Job]
  BY AccessTypes
<1>2. k \in Job /\ k.pc = l /\ k.kind = job[t].kind /\ k.user = job[t].user /\ k.seen = job[t].seen
      /\ k.mine = job[t].mine
  BY <1>1 DEF Job
<1>3. job' = [job EXCEPT ![t] = k]
  BY DEF Goes
<1> HIDE DEF k
<1> QED BY <1>1, <1>2, <1>3

LEMMA LeavesEffect ==
    ASSUME WebdavTypeOK, NEW t \in Tools, Leaves(t)
    PROVE  /\ job' \in [Tools -> Job] /\ job'[t].pc = "none"
           /\ \A x \in Tools : x # t => job'[x] = job[x]
BY NoRecordType, AccessTypes DEF Leaves

\* What tool t writes, it writes under the locks and with its own revision.
Mine(t) == \/ UNCHANGED <<record, auth, route>>
           \/ Started(t) /\ holder \in {NoTool, t} /\ record'.rev \in {job[t].mine.rev, 0}

LEMMA OthersKeep ==
    ASSUME AccessInv, NEW t \in Tools, NEW x \in Tools, x # t,
           \A y \in Tools : y # t => job'[y] = job[y], Mine(t),
           holder' = holder \/ (holder \in {NoTool, t} /\ holder' \in {NoTool, t}),
           revision \in Nat, revision' \in Nat, revision <= revision',
           Started(t)' => \/ Started(t) /\ job'[t].mine.rev = job[t].mine.rev
                          \/ job'[t].mine.rev > revision
    PROVE  Keeps(x)'
<1>1. Keeps(x) /\ job'[x] = job[x] /\ NoTool \notin Tools
  BY AccessTypes DEF AccessInv
<1>2. (Pc(x) \in Locked)' <=> holder' = x
  BY <1>1 DEF Keeps, Pc
<1>3. Works(x)'
  BY <1>1 DEF Keeps, Works, Pc, Started
<1>4. job[x].mine.rev \in Nat /\ job[t].mine.rev \in Nat
  BY AccessTypes, WebdavAssumption DEF AccessInv, Job, Record
<1>5. Stamped(x)'
  <2> SUFFICES ASSUME Started(x)'
               PROVE  /\ 1 <= job'[x].mine.rev /\ job'[x].mine.rev <= revision'
                      /\ \A u \in Tools : Started(u)' /\ u # x => job'[u].mine.rev # job'[x].mine.rev
    BY DEF Stamped
  <2>1. Started(x)
    BY <1>1 DEF Started, Pc
  <2>2. /\ 1 <= job[x].mine.rev /\ job[x].mine.rev <= revision
        /\ \A u \in Tools : Started(u) /\ u # x => job[u].mine.rev # job[x].mine.rev
    BY <1>1, <2>1 DEF Keeps, Stamped
  <2>3. ASSUME NEW u \in Tools, Started(u)', u # x
        PROVE  job'[u].mine.rev # job'[x].mine.rev
    <3>1. CASE u = t
      BY <1>1, <1>4, <2>2, <2>3, <3>1
    <3>2. CASE u # t
      BY <1>1, <2>2, <2>3, <3>2 DEF Started, Pc
    <3> QED BY <3>1, <3>2
  <2> QED BY <1>1, <1>4, <2>2, <2>3
<1>6. Writing(x)'
  <2>1. CASE UNCHANGED <<record, auth, route>>
    BY <1>1, <2>1 DEF Keeps, Writing, Pc, Started
  <2>2. CASE ~ UNCHANGED <<record, auth, route>>
    <3>1. Started(t) /\ holder \in {NoTool, t} /\ record'.rev \in {job[t].mine.rev, 0}
      BY <2>2 DEF Mine
    <3>2. Pc(x) \notin Locked
      BY <1>1, <3>1 DEF Keeps
    <3>3. Started(x) => record'.rev # job[x].mine.rev
      BY <1>1, <1>4, <3>1 DEF Keeps, Stamped
    <3>4. {"manual", "relock", "write"} \cap Locked = {"write"} /\ WaitingPcs \cap Locked = {}
          /\ {"save", "erase", "route", "apply", "done", "write", "open", "account"} \subseteq Locked
      BY DEF Locked, WaitingPcs
    <3>5. Pc(x) \in {"manual", "relock", "write", "handler", "open", "account"} => Started(x)
      BY DEF Started
    <3> QED BY <1>1, <3>2, <3>3, <3>4, <3>5 DEF Writing, Pc, WaitingPcs
  <2> QED BY <2>1, <2>2
<1> QED BY <1>2, <1>3, <1>5, <1>6 DEF Keeps

LEMMA AccessKept ==
    ASSUME AccessInv, NEW t \in Tools, WebdavTypeOK', record'.rev <= revision',
           \A y \in Tools : y # t => job'[y] = job[y], Mine(t),
           holder' = holder \/ (holder \in {NoTool, t} /\ holder' \in {NoTool, t}), revision <= revision',
           Started(t)' => \/ Started(t) /\ job'[t].mine.rev = job[t].mine.rev
                          \/ job'[t].mine.rev > revision,
           Keeps(t)', Shut', Told'
    PROVE  AccessInv'
<1>1. revision \in Nat /\ revision' \in Nat
  BY AccessTypes, WebdavAssumption DEF AccessInv, WebdavTypeOK
<1>2. ASSUME NEW x \in Tools, x # t PROVE Keeps(x)'
  BY <1>1, <1>2, OthersKeep
<1> QED BY <1>2 DEF AccessInv

\* Told and Shut, when nothing is written.
LEMMA TellsStill ==
    ASSUME AccessInv, NEW t \in Tools, UNCHANGED <<record, auth, route>>,
           \A y \in Tools : y # t => job'[y] = job[y],
           ~ tidy' \/ (tidy /\ Pc(t) \notin RoutinePcs \cup {"handler"} \cup AccountPcs)
    PROVE  Shut' /\ Told'
<1>1. Shut'
  BY DEF AccessInv, Shut
<1>2. CASE ~ tidy'
  BY <1>1, <1>2 DEF Told
<1>3. CASE tidy /\ Pc(t) \notin RoutinePcs \cup {"handler"} \cup AccountPcs
  <2> SUFFICES ASSUME \A x \in Tools : Pc(x)' \notin RoutinePcs
               PROVE  Told'
    BY <1>1 DEF Told
  <2>1. \A x \in Tools : Pc(x) \notin RoutinePcs
    BY <1>3 DEF Pc
  <2>2. ASSUME record.main \in auth
        PROVE  /\ route = "on"
               /\ \/ record.phase = "enabled"
                  \/ \E x \in Tools : Pc(x)' = "handler" /\ job'[x].kind = "configure"
                                      /\ record.rev = job'[x].mine.rev
    BY <1>3, <2>1, <2>2 DEF AccessInv, Told, Pc
  <2>3. ASSUME NEW f \in auth \cap Family
        PROVE  \/ record.members[f] = "enabled"
               \/ \E x \in Tools : /\ Pc(x)' \in {"handler"} \cup AccountPcs
                                   /\ job'[x].kind \notin Routine /\ job'[x].user = f
    BY <1>3, <2>1, <2>3 DEF AccessInv, Told, Pc
  <2> QED BY <2>2, <2>3 DEF Told
<1> QED BY <1>2, <1>3

LEMMA TellsNobody == auth' = {} => Shut' /\ Told'
BY DEF Shut, Told

LEMMA AccessInitInv == WebdavInit => AccessInv
<1> SUFFICES ASSUME WebdavInit PROVE AccessInv
  OBVIOUS
<1>1. WebdavTypeOK
  BY NoRecordType, AccessTypes, WebdavAssumption DEF WebdavInit
<1>2. Shut /\ Told
  BY DEF WebdavInit, Shut, Told
<1>3. ASSUME NEW t \in Tools PROVE Keeps(t)
  BY NoRecordType, AccessTypes DEF WebdavInit, Keeps, Works, Stamped, Writing, Started, Pc, Locked, RoutinePcs,
     AccountPcs, WaitingPcs
<1> QED BY <1>1, <1>2, <1>3, NoRecordType DEF WebdavInit, AccessInv

\* An operation ends, and whoever had the locks lets go of them.
LEMMA AccessEnds ==
    ASSUME AccessInv, NEW t \in Tools, Leaves(t), record' \in Record, auth' \subseteq Mains \cup Family,
           route' \in {"none", "off", "on"}, holder' = IF holder = t THEN NoTool ELSE holder,
           revision' = revision, cuts' \in 0..MaxCuts, tidy' \in BOOLEAN, record'.rev <= revision,
           Mine(t), Shut', Told'
    PROVE  AccessInv'
<1>1. /\ job' \in [Tools -> Job] /\ job'[t].pc = "none" /\ \A x \in Tools : x # t => job'[x] = job[x]
  BY LeavesEffect DEF AccessInv
<1>2. holder \in Tools \cup {NoTool} /\ NoTool \notin Tools /\ revision \in 0..MaxRevisions
  BY AccessTypes DEF AccessInv
<1>3. WebdavTypeOK'
  BY <1>1, <1>2 DEF WebdavTypeOK, Job
<1>4. Keeps(t)' /\ ~ Started(t)'
  BY <1>1, <1>2 DEF Keeps, Works, Stamped, Writing, Started, Pc, Locked, RoutinePcs, AccountPcs, WaitingPcs
<1>5. revision <= revision'
  BY <1>2, WebdavAssumption
<1>6. holder' = holder \/ (holder \in {NoTool, t} /\ holder' \in {NoTool, t})
  OBVIOUS
<1> QED BY <1>1, <1>3, <1>4, <1>5, <1>6, AccessKept

\* An operation goes on.
LEMMA AccessGoes ==
    ASSUME AccessInv, NEW t \in Tools, NEW l \in Locked \cup {"manual", "relock", "handler"}, Goes(t, l),
           Started(t), record' \in Record, auth' \subseteq Mains \cup Family,
           route' \in {"none", "off", "on"}, holder' = t <=> l \in Locked,
           holder' = holder \/ (holder \in {NoTool, t} /\ holder' \in {NoTool, t}),
           UNCHANGED <<revision, cuts>>, tidy' \in BOOLEAN, record'.rev <= revision,
           Mine(t), Works(t)', Writing(t)', Shut', Told'
    PROVE  AccessInv'
<1>1. /\ job' \in [Tools -> Job] /\ job'[t].pc = l /\ job'[t].mine = job[t].mine
      /\ \A x \in Tools : x # t => job'[x] = job[x]
  BY GoesEffect DEF AccessInv
<1>2. revision \in Nat /\ revision \in 0..MaxRevisions /\ cuts \in 0..MaxCuts
  BY AccessTypes, WebdavAssumption DEF AccessInv
<1>3. WebdavTypeOK'
  <2>1. holder' \in Tools \cup {NoTool}
    BY AccessTypes DEF AccessInv
  <2> QED BY <1>1, <1>2, <2>1 DEF WebdavTypeOK, Job
<1>4. Stamped(t)'
  BY <1>1 DEF AccessInv, Keeps, Stamped, Started, Pc
<1>5. Keeps(t)'
  BY <1>1, <1>4 DEF Keeps, Pc
<1> QED BY <1>1, <1>2, <1>3, <1>5, AccessKept

LEMMA AsksStep ==
    ASSUME AccessInv, NEW t \in Tools, NEW kind \in Routine \cup Opening \cup Closing,
           NEW u \in Mains \cup Family, Asks(t, kind, u)
    PROVE  AccessInv'
<1> DEFINE k == [pc |-> "lock", kind |-> kind, user |-> u, seen |-> record, mine |-> NoRecord]
<1>1. /\ UNCHANGED <<record, auth, route, holder, revision, cuts, tidy>> /\ Pc(t) = "none"
      /\ job' = [job EXCEPT ![t] = k]
  BY DEF Asks
<1>2. /\ record \in Record /\ job \in [Tools -> Job] /\ NoTool \notin Tools
      /\ revision \in Nat
  BY AccessTypes, WebdavAssumption DEF AccessInv
<1>3. k \in Job /\ k.pc = "lock" /\ k.kind = kind /\ k.user = u /\ k.seen = record
  BY <1>2, NoRecordType DEF Job
<1> HIDE DEF k
<1>4. job' \in [Tools -> Job] /\ job'[t] = k /\ \A y \in Tools : y # t => job'[y] = job[y]
  BY <1>1, <1>2, <1>3
<1>5. IF kind \in Routine THEN u \in Mains /\ (kind # "configure" => u = record.main) ELSE u \in Family
  <2>1. record.main \in Mains
    BY <1>2 DEF Record
  <2> QED BY <2>1 DEF Asks, Routine, Opening, Closing
<1>6. holder # t
  BY <1>1 DEF AccessInv, Keeps, Locked
<1>7. Keeps(t)' /\ ~ Started(t)'
  BY <1>1, <1>3, <1>4, <1>5, <1>6 DEF Keeps, Works, Stamped, Writing, Started, Pc, Locked, RoutinePcs,
     AccountPcs, WaitingPcs
<1>8. Shut' /\ Told'
  BY <1>1, <1>4, TellsStill DEF RoutinePcs, AccountPcs, AccessInv, WebdavTypeOK
<1>9. WebdavTypeOK'
  BY <1>1, <1>4 DEF AccessInv, WebdavTypeOK, Job
<1>10. Mine(t) /\ revision <= revision' /\ record'.rev <= revision'
  BY <1>1, <1>2 DEF Mine, AccessInv
<1> QED BY <1>1, <1>4, <1>7, <1>8, <1>9, <1>10, AccessKept

\* The revision handed out is new.
LEMMA LocksStep ==
    ASSUME AccessInv, NEW t \in Tools, Locks(t)
    PROVE  AccessInv'
<1> DEFINE mine == Pending(t)
           k == [job[t] EXCEPT !.pc = "save", !.mine = mine]
<1>1. /\ UNCHANGED <<record, auth, route, cuts, tidy>> /\ Pc(t) = "lock" /\ holder = NoTool
      /\ holder' = t /\ revision' = revision + 1 /\ revision < MaxRevisions /\ record = job[t].seen
      /\ job' = [job EXCEPT ![t] = k] /\ (job[t].kind \notin Routine => Checked)
  BY DEF Locks, Unchanged
<1>2. /\ record \in Record /\ job \in [Tools -> Job] /\ NoTool \notin Tools /\ Mains \cap Family = {}
      /\ revision \in Nat /\ MaxRevisions \in Nat /\ job[t].kind \in Routine \cup Opening \cup Closing
  BY AccessTypes, WebdavAssumption DEF AccessInv, Job
<1>3. Works(t)
  BY DEF AccessInv, Keeps
<1>4. /\ mine.rev = revision + 1 /\ mine \in Record
      /\ IF job[t].kind \in Routine THEN /\ mine.phase = "pending" /\ mine.members = record.members
                                         /\ mine.main = job[t].user
         ELSE /\ mine.phase = record.phase /\ mine.main = record.main
              /\ mine.members[job[t].user] = "pending"
              /\ \A f \in Family : f # job[t].user => mine.members[f] = record.members[f]
  <2>1. revision + 1 \in 0..MaxRevisions /\ "pending" \in Phases
    BY <1>1, <1>2 DEF Phases
  <2>2. CASE job[t].kind \in Routine
    <3>1. job[t].user \in Mains /\ (job[t].kind # "configure" => job[t].user = record.main)
      BY <1>1, <1>3, <2>2 DEF Works
    <3>2. mine = [record EXCEPT !.rev = revision + 1, !.phase = "pending", !.main = job[t].user]
      BY <1>2, <2>2, <3>1 DEF Pending, Record
    <3> QED BY <1>2, <2>1, <2>2, <3>1, <3>2 DEF Record
  <2>3. CASE job[t].kind \notin Routine
    <3>1. job[t].user \in Family
      BY <1>1, <1>3, <2>3 DEF Works
    <3>2. mine = [record EXCEPT !.rev = revision + 1, !.members = [record.members EXCEPT ![job[t].user] = "pending"]]
      BY <1>2, <2>3 DEF Pending, Record, Routine
    <3> DEFINE m == [record.members EXCEPT ![job[t].user] = "pending"]
    <3>3. m \in [Family -> Phases] /\ m[job[t].user] = "pending"
          /\ \A f \in Family : f # job[t].user => m[f] = record.members[f]
      BY <1>2, <2>1, <3>1 DEF Record
    <3>4. mine = [record EXCEPT !.rev = revision + 1, !.members = m]
      BY <3>2
    <3> HIDE DEF m
    <3> QED BY <1>2, <2>1, <2>3, <3>3, <3>4 DEF Record
  <2> QED BY <2>2, <2>3
<1> HIDE DEF mine
<1>5. /\ k \in Job /\ k.pc = "save" /\ k.kind = job[t].kind /\ k.user = job[t].user /\ k.seen = record
      /\ k.mine = mine
  <2>1. job[t] \in Job /\ "save" \in Locked
    BY <1>2 DEF Locked
  <2>2. mine \in Record
    BY <1>4
  <2>3. k \in Job
    BY <2>1, <2>2 DEF Job
  <2>4. k.pc = "save" /\ k.kind = job[t].kind /\ k.user = job[t].user /\ k.seen = job[t].seen /\ k.mine = mine
    BY <2>1 DEF Job
  <2> QED BY <1>1, <2>3, <2>4
<1> HIDE DEF k
<1>6. job' \in [Tools -> Job] /\ job'[t] = k /\ \A y \in Tools : y # t => job'[y] = job[y]
  BY <1>1, <1>2, <1>5
<1>7. record.rev <= revision /\ record.rev \in Nat
  BY <1>2, WebdavAssumption DEF AccessInv, Record
<1>8. Works(t)'
  BY <1>1, <1>3, <1>4, <1>5, <1>6 DEF Works, Pc, Started, RoutinePcs, AccountPcs, WaitingPcs
<1>9. Stamped(t)'
  <2>1. \A y \in Tools : Started(y) => job[y].mine.rev <= revision /\ job[y].mine.rev \in Nat
    BY <1>2, WebdavAssumption DEF AccessInv, Keeps, Stamped, Job, Record
  <2>2. ASSUME NEW y \in Tools, Started(y)', y # t PROVE job'[y].mine.rev # revision + 1
    BY <1>2, <1>6, <2>1, <2>2 DEF Started, Pc
  <2>3. 1 <= revision + 1 /\ job'[t].mine.rev = revision + 1 /\ revision' = revision + 1
    BY <1>1, <1>2, <1>4, <1>5, <1>6
  <2> QED BY <1>2, <2>2, <2>3 DEF Stamped
<1>10. Writing(t)'
  <2>1. job[t].kind \notin Routine => route = IF record.phase = "enabled" THEN "on" ELSE "off"
    BY <1>1 DEF Checked
  <2>2. record.rev # mine.rev
    BY <1>2, <1>4, <1>7
  <2> QED BY <1>1, <1>4, <1>5, <1>6, <2>1, <2>2 DEF Writing, Pc, WaitingPcs
<1>11. Keeps(t)'
  BY <1>1, <1>5, <1>6, <1>8, <1>9, <1>10 DEF Keeps, Pc, Locked
<1>12. Shut' /\ Told'
  <2>1. tidy' = tidy /\ Pc(t) \notin RoutinePcs \cup {"handler"} \cup AccountPcs /\ tidy \in BOOLEAN
    BY <1>1 DEF RoutinePcs, AccountPcs, AccessInv, WebdavTypeOK
  <2> QED BY <1>1, <1>6, <2>1, TellsStill
<1>13. revision + 1 \in 0..MaxRevisions /\ record.rev <= revision + 1 /\ revision <= revision + 1
       /\ revision + 1 > revision
  BY <1>1, <1>2, <1>7
<1>14. WebdavTypeOK'
  BY <1>1, <1>6, <1>13 DEF AccessInv, WebdavTypeOK, Job
<1>15. Mine(t) /\ holder \in {NoTool, t} /\ holder' \in {NoTool, t}
  BY <1>1 DEF Mine
<1> QED BY <1>1, <1>4, <1>5, <1>6, <1>11, <1>12, <1>13, <1>14, <1>15, AccessKept

LEMMA UnderLocks ==
    ASSUME AccessInv, NEW t \in Tools, Pc(t) \in Locked
    PROVE  /\ holder = t /\ Started(t) /\ Works(t) /\ Writing(t)
           /\ \A x \in Tools : x # t => Pc(x) \notin Locked
           /\ Pc(t) # "save" => record.rev = job[t].mine.rev
<1>1. holder = t /\ Works(t) /\ Writing(t) /\ \A x \in Tools : x # t => Pc(x) \notin Locked
  BY DEF AccessInv, Keeps
<1>2. Started(t)
  BY DEF Started, Locked
<1> QED BY <1>1, <1>2 DEF Writing

LEMMA AccessBasics ==
    ASSUME AccessInv
    PROVE  /\ record \in Record /\ auth \subseteq Mains \cup Family /\ route \in {"none", "off", "on"}
           /\ holder \in Tools \cup {NoTool} /\ job \in [Tools -> Job] /\ NoTool \notin Tools
           /\ revision \in Nat /\ cuts \in 0..MaxCuts /\ tidy \in BOOLEAN /\ record.rev <= revision
           /\ record.rev \in Nat
           /\ \A t \in Tools : /\ job[t].mine \in Record /\ job[t].mine.rev \in Nat
                               /\ Started(t) => job[t].mine.rev <= revision
<1>1. /\ record \in Record /\ job \in [Tools -> Job] /\ NoTool \notin Tools
  BY AccessTypes DEF AccessInv
<1>2. \A t \in Tools : job[t].mine \in Record
  BY <1>1 DEF Job
<1> QED BY <1>1, <1>2, AccessTypes, WebdavAssumption DEF AccessInv, Record, Keeps, Stamped

\* Ends that write nothing.
LEMMA QuietEndStep ==
    ASSUME AccessInv, NEW t \in Tools, GivesUp(t) \/ HandlerBusy(t) \/ Killed(t)
    PROVE  AccessInv'
<1>1. Leaves(t) /\ UNCHANGED <<record, auth, route, revision>>
  BY DEF GivesUp, HandlerBusy, Killed
<1>2. /\ (Pc(t) = "lock" /\ tidy' = tidy) \/ tidy' = FALSE
      /\ holder' = IF holder = t THEN NoTool ELSE holder
  <2>1. holder = t => Pc(t) \in Locked
    BY DEF AccessInv, Keeps
  <2>2. CASE Killed(t)
    BY <2>2 DEF Killed
  <2>3. CASE GivesUp(t)
    BY <2>1, <2>3 DEF GivesUp, Locked
  <2>4. CASE HandlerBusy(t)
    BY <2>1, <2>4 DEF HandlerBusy, Locked
  <2> QED BY <2>2, <2>3, <2>4
<1>3. cuts' \in 0..MaxCuts
  <2>1. cuts \in 0..MaxCuts /\ MaxCuts \in Nat
    BY AccessBasics, WebdavAssumption
  <2> QED BY <2>1 DEF GivesUp, HandlerBusy, Killed
<1>4. \A x \in Tools : x # t => job'[x] = job[x]
  BY <1>1, LeavesEffect DEF AccessInv
<1>5. Shut' /\ Told'
  <2>1. ~ tidy' \/ (tidy /\ Pc(t) \notin RoutinePcs \cup {"handler"} \cup AccountPcs)
    BY <1>2, AccessBasics DEF RoutinePcs, AccountPcs
  <2> QED BY <1>1, <1>4, <2>1, TellsStill
<1>6. Mine(t)
  BY <1>1 DEF Mine
<1> QED BY <1>1, <1>2, <1>3, <1>5, <1>6, AccessBasics, AccessEnds

LEMMA FailsPlainlyStep ==
    ASSUME AccessInv, NEW t \in Tools, FailsPlainly(t)
    PROVE  AccessInv'
<1>1. /\ Leaves(t) /\ holder' = NoTool /\ UNCHANGED <<record, auth, revision, cuts>>
      /\ route' \in {route, "off"} /\ tidy' = (tidy /\ Pc(t) # "revoke")
      /\ Pc(t) # "route" => route' = route
  BY DEF FailsPlainly, Free
<1>2. /\ \/ Pc(t) \in {"save", "revoke", "route", "erase"}
         \/ Pc(t) = "done" /\ job[t].kind \in {"disable", "uninstall"}
      /\ Pc(t) \in Locked
  BY DEF FailsPlainly, Locked
<1>3. holder = t /\ Started(t) /\ Writing(t) /\ (Pc(t) # "save" => record.rev = job[t].mine.rev)
  BY <1>2, UnderLocks
<1>4. \A x \in Tools : x # t => job'[x] = job[x]
  BY <1>1, LeavesEffect DEF AccessInv
<1>5. Shut' /\ Told'
  <2>1. CASE Pc(t) \in {"save", "revoke"}
    <3>1. route' = route /\ (~ tidy' \/ (tidy /\ Pc(t) \notin RoutinePcs \cup {"handler"} \cup AccountPcs))
      BY <1>1, <2>1, AccessBasics DEF RoutinePcs, AccountPcs
    <3> QED BY <1>1, <1>4, <3>1, TellsStill
  <2>2. CASE Pc(t) \notin {"save", "revoke"}
    BY <1>1, <1>2, <1>3, <2>2, TellsNobody DEF Writing
  <2> QED BY <2>1, <2>2
<1>6. Mine(t)
  <2>1. CASE Pc(t) = "save"
    BY <1>1, <2>1 DEF Mine
  <2> QED BY <1>1, <1>3, <2>1 DEF Mine
<1>7. tidy' \in BOOLEAN /\ route' \in {"none", "off", "on"}
  BY <1>1, AccessBasics
<1> QED BY <1>1, <1>3, <1>5, <1>6, <1>7, AccessBasics, AccessEnds

\* The record of the operation, with its revision, before anything else.
LEMMA SavesStep ==
    ASSUME AccessInv, NEW t \in Tools, Saves(t)
    PROVE  AccessInv'
<1>1. /\ Pc(t) = "save" /\ record' = job[t].mine
      /\ Goes(t, IF job[t].kind \in Routine THEN "revoke" ELSE "close")
      /\ UNCHANGED <<auth, route, holder, revision, cuts, tidy>>
  BY DEF Saves
<1> DEFINE l == IF job[t].kind \in Routine THEN "revoke" ELSE "close"
<1>2. l \in Locked /\ Pc(t) \in Locked
  BY <1>1 DEF Locked
<1>3. holder = t /\ Started(t) /\ Works(t) /\ Writing(t)
      /\ (\A x \in Tools : x # t => Pc(x) \notin Locked)
  BY <1>2, UnderLocks
<1>4. /\ job' \in [Tools -> Job] /\ job'[t].pc = l /\ job'[t].mine = job[t].mine
      /\ job'[t].kind = job[t].kind /\ job'[t].user = job[t].user
      /\ \A x \in Tools : x # t => job'[x] = job[x]
  BY <1>1, GoesEffect DEF AccessInv, Locked
<1>5. job[t].mine \in Record /\ job[t].mine.rev <= revision
  BY <1>3, AccessBasics
<1>6. Works(t)'
  BY <1>3, <1>4 DEF Works, Started, Pc, RoutinePcs, AccountPcs, WaitingPcs
<1>7. Writing(t)'
  BY <1>1, <1>4 DEF Writing, Pc, WaitingPcs
<1>8. Shut'
  <2>1. CASE job[t].kind \in Routine
    BY <1>1, <1>3, <2>1 DEF AccessInv, Shut, Works, Writing
  <2>2. CASE job[t].kind \notin Routine
    BY <1>1, <1>3, <2>2 DEF AccessInv, Shut, Works, Writing
  <2> QED BY <2>1, <2>2
<1>9. Told'
  <2>1. CASE job[t].kind \in Routine
    BY <1>4, <2>1 DEF Told, Pc, RoutinePcs
  <2>2. CASE job[t].kind \notin Routine
    <3> SUFFICES ASSUME tidy
                 PROVE  /\ record'.main \in auth => route = "on" /\ record'.phase = "enabled"
                        /\ \A f \in auth \cap Family :
                              \/ record'.members[f] = "enabled"
                              \/ \E x \in Tools : /\ Pc(x)' \in {"handler"} \cup AccountPcs
                                                  /\ job'[x].kind \notin Routine /\ job'[x].user = f
      BY <1>1 DEF Told
    <3>1. \A x \in Tools : Pc(x) \notin RoutinePcs
      BY <1>1, <1>3 DEF RoutinePcs, Locked
    <3>2. record'.main = record.main /\ record'.phase = record.phase
          /\ route = (IF record.phase = "enabled" THEN "on" ELSE "off")
          /\ \A f \in Family : f # job[t].user => record'.members[f] = record.members[f]
      BY <1>1, <1>3, <2>2 DEF Writing
    <3>3. ASSUME NEW f \in auth \cap Family
          PROVE  \/ record'.members[f] = "enabled"
                 \/ \E x \in Tools : /\ Pc(x)' \in {"handler"} \cup AccountPcs
                                     /\ job'[x].kind \notin Routine /\ job'[x].user = f
      <4>1. CASE f = job[t].user
        BY <1>4, <2>2, <4>1 DEF Pc, AccountPcs
      <4>2. CASE f # job[t].user
        <5>1. \/ record.members[f] = "enabled"
              \/ \E x \in Tools : /\ Pc(x) \in {"handler"} \cup AccountPcs
                                  /\ job[x].kind \notin Routine /\ job[x].user = f
          BY <3>1 DEF AccessInv, Told
        <5> QED BY <1>1, <1>4, <3>2, <4>2, <5>1 DEF Pc, AccountPcs
      <4> QED BY <4>1, <4>2
    <3>4. record.main \in auth => route = "on"
      BY <3>1 DEF AccessInv, Told
    <3> QED BY <3>2, <3>3, <3>4
  <2> QED BY <2>1, <2>2
<1>10. Mine(t)
  BY <1>1, <1>3 DEF Mine
<1> HIDE DEF l
<1> QED BY <1>1, <1>2, <1>3, <1>5, <1>6, <1>7, <1>8, <1>9, <1>10, AccessBasics, AccessGoes DEF l

\* The routine operations: accounts out, route, account in, route, record.
LEMMA RoutineGoes ==
    ASSUME AccessInv, NEW t \in Tools, Pc(t) \in {"revoke", "route", "write", "apply"},
           NEW l \in {"write", "route", "manual", "done", "apply"}, Goes(t, l),
           UNCHANGED <<record, revision, cuts, tidy>>, auth' \subseteq Mains \cup Family,
           route' \in {"none", "off", "on"}, holder' = (IF l = "manual" THEN NoTool ELSE holder),
           l \in {"write", "apply"} => job[t].kind \in {"configure", "enable"},
           l = "manual" => job[t].kind = "configure", l = "route" => job[t].kind # "enable",
           l \in {"route", "write", "manual"} => auth' = {}, l = "apply" => auth' = {job[t].user},
           l = "done" => IF job[t].kind \in {"configure", "enable"} THEN auth' = {job[t].user} /\ route' = "on"
                                                                   ELSE auth' = {}
    PROVE  AccessInv'
<1>1. Pc(t) \in Locked /\ l \in Locked \cup {"manual", "relock", "handler"} /\ (l \in Locked <=> l # "manual")
  BY DEF Locked
<1>2. holder = t /\ Started(t) /\ Works(t) /\ Writing(t) /\ record.rev = job[t].mine.rev /\ NoTool # t
      /\ job[t].kind \in Routine /\ record = job[t].mine /\ record.phase = "pending"
      /\ record.main = job[t].user /\ job[t].user \in Mains
  BY <1>1, UnderLocks, AccessBasics DEF Works, Writing, RoutinePcs
<1>3. /\ job' \in [Tools -> Job] /\ job'[t].pc = l /\ job'[t].mine = job[t].mine
      /\ job'[t].kind = job[t].kind /\ job'[t].user = job[t].user
      /\ \A x \in Tools : x # t => job'[x] = job[x]
  BY <1>1, GoesEffect DEF AccessInv
<1>4. Works(t)'
  BY <1>2, <1>3 DEF Works, Started, Pc, RoutinePcs, AccountPcs, WaitingPcs, Closing
<1>5. Writing(t)'
  BY <1>2, <1>3 DEF Writing, Pc, WaitingPcs, Routine, Closing
<1>6. Shut' /\ Told'
  <2>1. CASE l = "manual"
    BY <2>1, TellsNobody
  <2>2. CASE l # "manual"
    <3>1. Told'
      BY <1>3, <2>2 DEF Told, Pc, RoutinePcs
    <3>2. auth' = {} \/ auth' = {job[t].user}
      BY <2>2
    <3>3. Shut'
      BY <1>2, <3>2, AccessTypes DEF Shut
    <3> QED BY <3>1, <3>3
  <2> QED BY <2>1, <2>2
<1>7. Mine(t)
  BY <1>2 DEF Mine
<1>8. holder' \in {NoTool, t} /\ (holder' = t <=> l \in Locked)
  BY <1>1, <1>2
<1> QED BY <1>1, <1>2, <1>4, <1>5, <1>6, <1>7, <1>8, AccessBasics, AccessGoes

LEMMA RoutineStep ==
    ASSUME AccessInv, NEW t \in Tools, Revokes(t) \/ ClosesRoute(t) \/ Writes(t) \/ Activates(t)
    PROVE  AccessInv'
<1>1. Pc(t) \in {"revoke", "route", "write", "apply"} /\ Pc(t) \in Locked
  BY DEF Revokes, ClosesRoute, Writes, Activates, Locked
<1>2. Works(t) /\ Writing(t) /\ job[t].kind \in Routine /\ job[t].user \in Mains
  BY <1>1, UnderLocks DEF Works, RoutinePcs
<1>3. auth \subseteq Mains \cup Family /\ route \in {"none", "off", "on"}
  BY AccessBasics
<1>4. CASE Revokes(t)
  <2>1. PICK l \in {"write", "route"} : Goes(t, l) /\ (l = "write" <=> job[t].kind = "enable")
    BY <1>4 DEF Revokes
  <2>2. auth' = {} /\ UNCHANGED <<record, route, holder, revision, cuts, tidy>>
    BY <1>4 DEF Revokes
  <2> QED BY <1>1, <1>3, <2>1, <2>2, RoutineGoes
<1>5. CASE ClosesRoute(t)
  <2>1. PICK l \in {"manual", "done"} : /\ Goes(t, l) /\ (l = "manual" <=> job[t].kind = "configure")
                                        /\ holder' = IF l = "manual" THEN NoTool ELSE holder
    BY <1>5 DEF ClosesRoute, Free
  <2>2. UNCHANGED <<record, auth, revision, cuts, tidy>> /\ route' \in {"none", "off"} /\ auth = {}
    BY <1>2, <1>5 DEF ClosesRoute, Writing
  <2>3. job[t].kind # "enable"
    BY <1>2, <1>5 DEF ClosesRoute, Works
  <2> QED BY <1>1, <1>3, <2>1, <2>2, <2>3, RoutineGoes
<1>6. CASE Writes(t)
  <2>1. Goes(t, "apply") /\ auth' = {job[t].user} /\ UNCHANGED <<record, route, holder, revision, cuts, tidy>>
        /\ Pc(t) = "write"
    BY <1>6 DEF Writes
  <2>2. job[t].kind \in {"configure", "enable"}
    BY <1>2, <2>1 DEF Works
  <2> QED BY <1>1, <1>2, <1>3, <2>1, <2>2, RoutineGoes
<1>7. CASE Activates(t)
  <2>1. Goes(t, "done") /\ route' = "on" /\ UNCHANGED <<record, auth, holder, revision, cuts, tidy>>
        /\ Pc(t) = "apply"
    BY <1>7 DEF Activates
  <2>2. job[t].kind \in {"configure", "enable"} /\ auth = {job[t].user}
    BY <1>2, <2>1 DEF Works, Writing
  <2> QED BY <1>1, <1>2, <1>3, <2>1, <2>2, RoutineGoes
<1> QED BY <1>4, <1>5, <1>6, <1>7

\* Its end, as it was meant or in its own handler.
LEMMA AllOffType ==
    ASSUME NEW r \in Record
    PROVE  AllOff(r) \in [Family -> Phases] /\ \A f \in Family : AllOff(r)[f] \in {"none", "disabled"}
BY DEF AllOff, Phases

LEMMA DoneStep ==
    ASSUME AccessInv, NEW t \in Tools, Done(t)
    PROVE  AccessInv'
<1> DEFINE ph == IF job[t].kind \in {"configure", "enable"} THEN "enabled" ELSE "disabled"
           off == AllOff(job[t].mine)
<1>1. /\ Pc(t) = "done" /\ record' = [job[t].mine EXCEPT !.phase = ph, !.members = off]
      /\ tidy' = TRUE /\ UNCHANGED <<auth, route, revision, cuts>>
      /\ \/ job[t].kind = "uninstall" /\ Goes(t, "erase") /\ holder' = holder
         \/ job[t].kind # "uninstall" /\ Leaves(t) /\ holder' = NoTool
  BY DEF Done, Free
<1>2. Pc(t) \in Locked /\ "erase" \in Locked
  BY <1>1 DEF Locked
<1>3. holder = t /\ Started(t) /\ Works(t) /\ Writing(t) /\ record.rev = job[t].mine.rev
      /\ job[t].kind \in Routine /\ job[t].mine.main = job[t].user /\ job[t].user \in Mains
      /\ \A x \in Tools : x # t => Pc(x) \notin Locked
  BY <1>1, <1>2, UnderLocks DEF Works, RoutinePcs
<1>4. job[t].mine \in Record /\ off \in [Family -> Phases] /\ ph \in Phases
      /\ \A f \in Family : off[f] \in {"none", "disabled"}
  BY AccessBasics, AllOffType DEF Phases
<1> HIDE DEF off
<1>5. record' \in Record /\ record'.phase = ph /\ record'.members = off
      /\ record'.main = job[t].user /\ record'.rev = job[t].mine.rev
  BY <1>1, <1>3, <1>4 DEF Record
<1>6. IF job[t].kind \in {"configure", "enable"} THEN auth = {job[t].user} /\ route = "on" ELSE auth = {}
  BY <1>1, <1>3 DEF Writing
<1>7. auth \cap Family = {}
  BY <1>3, <1>6, AccessTypes
<1>8. Shut' /\ Told'
  BY <1>1, <1>3, <1>5, <1>6, <1>7 DEF Shut, Told
<1>9. Mine(t) /\ record'.rev <= revision
  BY <1>3, <1>5, AccessBasics DEF Mine
<1>10. CASE job[t].kind = "uninstall"
  <2>1. Goes(t, "erase") /\ holder' = t
    BY <1>1, <1>3, <1>10
  <2>2. /\ job' \in [Tools -> Job] /\ job'[t].pc = "erase" /\ job'[t].mine = job[t].mine
        /\ job'[t].kind = job[t].kind /\ job'[t].user = job[t].user
    BY <1>2, <2>1, GoesEffect DEF AccessInv
  <2>3. Works(t)'
    BY <1>3, <1>10, <2>2 DEF Works, Started, Pc, RoutinePcs, AccountPcs, WaitingPcs
  <2>4. Writing(t)'
    BY <1>1, <1>5, <1>6, <1>10, <2>2 DEF Writing, Pc, WaitingPcs
  <2> QED BY <1>1, <1>2, <1>3, <1>5, <1>8, <1>9, <2>1, <2>3, <2>4, AccessBasics, AccessGoes
<1>11. CASE job[t].kind # "uninstall"
  BY <1>1, <1>3, <1>5, <1>8, <1>9, <1>11, AccessBasics, AccessEnds
<1> QED BY <1>10, <1>11

LEMMA ErasesStep ==
    ASSUME AccessInv, NEW t \in Tools, Erases(t)
    PROVE  AccessInv'
<1>1. /\ Pc(t) = "erase" /\ auth' = {} /\ record' = NoRecord /\ Leaves(t) /\ holder' = NoTool
      /\ UNCHANGED <<route, revision, cuts, tidy>>
  BY DEF Erases, Free
<1>2. holder = t /\ Started(t)
  BY <1>1, UnderLocks DEF Locked
<1>3. Mine(t) /\ record' \in Record /\ record'.rev <= revision
  BY <1>1, <1>2, NoRecordType, AccessBasics DEF Mine
<1>4. Shut' /\ Told'
  BY <1>1, TellsNobody
<1> QED BY <1>1, <1>2, <1>3, <1>4, AccessBasics, AccessEnds

LEMMA EnableFailsStep ==
    ASSUME AccessInv, NEW t \in Tools, EnableFails(t)
    PROVE  AccessInv'
<1> DEFINE m == IF Pc(t) = "revoke" THEN job[t].mine.members ELSE AllOff(job[t].mine)
<1>1. /\ auth' = {} /\ Leaves(t) /\ holder' = NoTool /\ UNCHANGED <<revision, cuts, tidy>>
      /\ record' = [job[t].mine EXCEPT !.phase = "needs_repair", !.members = m]
      /\ route' \in {route, "off"} /\ Pc(t) \in {"revoke", "write", "apply", "done"}
  BY DEF EnableFails, Free
<1>2. holder = t /\ Started(t) /\ job[t].mine \in Record
  BY <1>1, UnderLocks, AccessBasics DEF Locked
<1>3. m \in [Family -> Phases] /\ "needs_repair" \in Phases
  BY <1>2, AllOffType DEF Record, Phases
<1> HIDE DEF m
<1>4. record' \in Record /\ record'.rev = job[t].mine.rev
  BY <1>1, <1>2, <1>3 DEF Record
<1>5. Mine(t) /\ record'.rev <= revision
  BY <1>2, <1>4, AccessBasics DEF Mine
<1>6. Shut' /\ Told'
  BY <1>1, TellsNobody
<1>7. route' \in {"none", "off", "on"} /\ auth' \subseteq Mains \cup Family
      /\ holder' = IF holder = t THEN NoTool ELSE holder
  BY <1>1, <1>2, AccessBasics
<1> QED BY <1>1, <1>4, <1>5, <1>6, <1>7, AccessBasics, AccessEnds

\* users.account, under the locks: the others' accounts are as recorded.
LEMMA AccountTold ==
    ASSUME AccessInv, NEW t \in Tools, Pc(t) \in AccountPcs, tidy
    PROVE  /\ record.main \in auth => route = "on" /\ record.phase = "enabled"
           /\ \A f \in auth \cap Family :
                 \/ record.members[f] = "enabled" \/ f = job[t].user
                 \/ \E x \in Tools : /\ x # t /\ Pc(x) = "handler"
                                     /\ job[x].kind \notin Routine /\ job[x].user = f
<1>1. Pc(t) \in Locked /\ Pc(t) \notin RoutinePcs /\ AccountPcs \subseteq Locked /\ RoutinePcs \subseteq Locked
      /\ Pc(t) # "save" /\ Pc(t) # "handler"
  BY DEF AccountPcs, RoutinePcs, Locked
<1>2. Started(t) /\ record.rev = job[t].mine.rev /\ \A x \in Tools : x # t => Pc(x) \notin Locked
  BY <1>1, UnderLocks
<1>3. ASSUME NEW x \in Tools, Pc(x) = "handler" PROVE record.rev # job[x].mine.rev
  BY <1>1, <1>2, <1>3 DEF AccessInv, Keeps, Stamped, Started
<1>4. \A x \in Tools : Pc(x) \notin RoutinePcs
  BY <1>1, <1>2
<1>5. record.main \in auth => route = "on" /\ record.phase = "enabled"
  BY <1>3, <1>4 DEF AccessInv, Told
<1>6. ASSUME NEW f \in auth \cap Family
      PROVE  \/ record.members[f] = "enabled" \/ f = job[t].user
             \/ \E x \in Tools : /\ x # t /\ Pc(x) = "handler"
                                 /\ job[x].kind \notin Routine /\ job[x].user = f
  BY <1>1, <1>2, <1>4 DEF AccessInv, Told
<1> QED BY <1>5, <1>6

LEMMA AccountFacts ==
    ASSUME AccessInv, NEW t \in Tools, Pc(t) \in AccountPcs
    PROVE  /\ holder = t /\ Started(t) /\ Works(t) /\ Writing(t) /\ record = job[t].mine
           /\ job[t].kind \in Opening \cup Closing /\ job[t].kind \notin Routine
           /\ job[t].user \in Family /\ record.members[job[t].user] = "pending" /\ record.main \notin Family
           /\ \A x \in Tools : x # t => Pc(x) \notin Locked
<1>1. Pc(t) \in Locked \ {"save", "erase"}
  BY DEF AccountPcs, Locked
<1>2. holder = t /\ Started(t) /\ Works(t) /\ Writing(t) /\ record = job[t].mine
      /\ \A x \in Tools : x # t => Pc(x) \notin Locked
  BY <1>1, UnderLocks DEF Writing
<1>3. job[t].kind \in Routine \cup Opening \cup Closing /\ record.main \in Mains
  BY AccessBasics DEF Job, Record
<1> QED BY <1>2, <1>3, AccessTypes DEF Works, Started

LEMMA ClosesStep ==
    ASSUME AccessInv, NEW t \in Tools, Closes(t) \/ Opens(t)
    PROVE  AccessInv'
<1>1. Pc(t) \in AccountPcs /\ UNCHANGED <<record, route, revision, cuts, tidy>>
  BY DEF Closes, Opens, AccountPcs
<1>2. /\ holder = t /\ Started(t) /\ Works(t) /\ Writing(t) /\ record = job[t].mine
      /\ job[t].kind \in Opening \cup Closing /\ job[t].kind \notin Routine
      /\ job[t].user \in Family /\ record.members[job[t].user] = "pending" /\ record.main \notin Family
  BY <1>1, AccountFacts
<1>3. PICK l \in {"manual", "relock", "account"} :
        /\ Goes(t, l) /\ holder' = (IF l = "account" THEN t ELSE NoTool)
        /\ l = "manual" => job[t].kind \in Opening
        /\ l = "account" => Opens(t)
        /\ l # "account" => auth' = auth \ {job[t].user}
  BY <1>2 DEF Closes, Opens, Free, Without
<1>4. l \in Locked \cup {"manual", "relock", "handler"} /\ (l \in Locked <=> l = "account")
  BY DEF Locked
<1>5. /\ job' \in [Tools -> Job] /\ job'[t].pc = l /\ job'[t].mine = job[t].mine
      /\ job'[t].kind = job[t].kind /\ job'[t].user = job[t].user
      /\ \A x \in Tools : x # t => job'[x] = job[x]
  BY <1>3, <1>4, GoesEffect DEF AccessInv
<1>6. /\ auth' \subseteq auth \cup {job[t].user} /\ (l # "account" => job[t].user \notin auth')
      /\ (job[t].kind \in Closing => auth' \subseteq auth)
  BY <1>3 DEF Opens, Opening, Closing
<1>7. auth' \subseteq Mains \cup Family
  BY <1>2, <1>6, AccessBasics
<1>8. Works(t)'
  BY <1>2, <1>3, <1>5 DEF Works, Started, Pc, RoutinePcs, AccountPcs, WaitingPcs, Opening, Closing
<1>9. Writing(t)'
  <2>1. job[t].kind \in Closing => job[t].user \notin auth'
    <3>1. CASE l = "account"
      BY <1>2, <1>3, <1>6, <3>1 DEF Opens, Writing
    <3> QED BY <1>6, <3>1
  <2> QED BY <1>1, <1>2, <1>5, <2>1 DEF Writing, Pc, WaitingPcs, Routine, Opening, Closing
<1>10. Shut'
  BY <1>1, <1>2, <1>6 DEF AccessInv, Shut
<1>11. Told'
  <2> SUFFICES ASSUME tidy
               PROVE  /\ record.main \in auth' => route = "on" /\ record.phase = "enabled"
                      /\ \A f \in auth' \cap Family :
                            \/ record.members[f] = "enabled"
                            \/ \E x \in Tools : /\ Pc(x)' \in {"handler"} \cup AccountPcs
                                                /\ job'[x].kind \notin Routine /\ job'[x].user = f
    BY <1>1 DEF Told
  <2>1. record.main \in auth' => route = "on" /\ record.phase = "enabled"
    BY <1>1, <1>2, <1>6, AccountTold
  <2>2. ASSUME NEW f \in auth' \cap Family
        PROVE  \/ record.members[f] = "enabled"
               \/ \E x \in Tools : /\ Pc(x)' \in {"handler"} \cup AccountPcs
                                   /\ job'[x].kind \notin Routine /\ job'[x].user = f
    <3>1. CASE f = job[t].user
      <4>1. l = "account"
        BY <1>6, <2>2, <3>1
      <4> QED BY <1>2, <1>5, <3>1, <4>1 DEF Pc, AccountPcs
    <3>2. CASE f # job[t].user
      <4>1. \/ record.members[f] = "enabled"
            \/ \E x \in Tools : /\ x # t /\ Pc(x) = "handler"
                                /\ job[x].kind \notin Routine /\ job[x].user = f
        BY <1>1, <1>6, <3>2, AccountTold
      <4> QED BY <1>5, <4>1 DEF Pc
    <3> QED BY <3>1, <3>2
  <2> QED BY <2>1, <2>2
<1>12. Mine(t)
  BY <1>1, <1>2 DEF Mine
<1>13. holder' \in {NoTool, t} /\ (holder' = t <=> l \in Locked)
  BY <1>3, <1>4, AccessBasics
<1> QED BY <1>1, <1>2, <1>3, <1>4, <1>7, <1>8, <1>9, <1>10, <1>11, <1>12, <1>13, AccessBasics, AccessGoes

LEMMA AccountDoneStep ==
    ASSUME AccessInv, NEW t \in Tools, AccountDone(t)
    PROVE  AccessInv'
<1>1. /\ Pc(t) = "account" /\ Pc(t) \in AccountPcs /\ Leaves(t) /\ holder' = NoTool
      /\ UNCHANGED <<auth, route, revision, cuts, tidy>>
  BY DEF AccountDone, AccountPcs, Free
<1>2. /\ holder = t /\ Started(t) /\ Writing(t) /\ record = job[t].mine
      /\ job[t].kind \in Opening \cup Closing
      /\ job[t].user \in Family /\ record \in Record
  BY <1>1, AccountFacts, AccessBasics
<1>3. PICK v \in {"enabled", "disabled", "none"} :
        /\ record' = [record EXCEPT !.members = [record.members EXCEPT ![job[t].user] = v]]
        /\ (v = "enabled" <=> job[t].kind \in Opening)
  <2> DEFINE v == CASE job[t].kind \in Opening -> "enabled" [] job[t].kind = "turn-off" -> "disabled"
                    [] OTHER -> "none"
  <2>1. v \in {"enabled", "disabled", "none"} /\ (v = "enabled" <=> job[t].kind \in Opening)
    <3>1. CASE job[t].kind \in Opening
      <4>1. v = "enabled"
        BY <3>1 DEF Opening
      <4> QED BY <3>1, <4>1
    <3>2. CASE job[t].kind = "turn-off"
      <4>1. v = "disabled" /\ job[t].kind \notin Opening
        BY <3>2 DEF Opening
      <4> QED BY <4>1
    <3>3. CASE job[t].kind \notin Opening /\ job[t].kind # "turn-off"
      <4>1. v = "none"
        BY <3>3
      <4> QED BY <3>3, <4>1
    <3> QED BY <3>1, <3>2, <3>3
  <2>2. record' = [job[t].mine EXCEPT !.members[job[t].user] = v]
    BY DEF AccountDone
  <2> HIDE DEF v
  <2>3. record' = [record EXCEPT !.members = [record.members EXCEPT ![job[t].user] = v]]
    BY <1>2, <2>2
  <2> QED BY <2>1, <2>3
<1> DEFINE m == [record.members EXCEPT ![job[t].user] = v]
<1>4. m \in [Family -> Phases] /\ m[job[t].user] = v /\ \A f \in Family : f # job[t].user => m[f] = record.members[f]
  BY <1>2 DEF Record, Phases
<1>5. record' = [record EXCEPT !.members = m]
  BY <1>3
<1> HIDE DEF m
<1>6. record' \in Record /\ record'.rev = record.rev /\ record'.phase = record.phase
      /\ record'.main = record.main /\ record'.members = m
  BY <1>2, <1>4, <1>5 DEF Record
<1>7. v # "enabled" => job[t].user \notin auth
  BY <1>1, <1>2, <1>3 DEF Writing
<1>8. Shut'
  BY <1>1, <1>4, <1>6, <1>7 DEF AccessInv, Shut
<1>9. \A x \in Tools : x # t => job'[x] = job[x]
  BY <1>1, LeavesEffect DEF AccessInv
<1>10. Told'
  <2> SUFFICES ASSUME tidy
               PROVE  /\ record'.main \in auth => route = "on" /\ record'.phase = "enabled"
                      /\ \A f \in auth \cap Family :
                            \/ record'.members[f] = "enabled"
                            \/ \E x \in Tools : /\ Pc(x)' \in {"handler"} \cup AccountPcs
                                                /\ job'[x].kind \notin Routine /\ job'[x].user = f
    BY <1>1 DEF Told
  <2>1. record'.main \in auth => route = "on" /\ record'.phase = "enabled"
    BY <1>1, <1>6, AccountTold
  <2>2. ASSUME NEW f \in auth \cap Family
        PROVE  \/ record'.members[f] = "enabled"
               \/ \E x \in Tools : /\ Pc(x)' \in {"handler"} \cup AccountPcs
                                   /\ job'[x].kind \notin Routine /\ job'[x].user = f
    <3>1. CASE f = job[t].user
      BY <1>4, <1>6, <1>7, <2>2, <3>1
    <3>2. CASE f # job[t].user
      <4>1. \/ record.members[f] = "enabled"
            \/ \E x \in Tools : /\ x # t /\ Pc(x) = "handler"
                                /\ job[x].kind \notin Routine /\ job[x].user = f
        BY <1>1, <3>2, AccountTold
      <4> QED BY <1>4, <1>6, <1>9, <3>2, <4>1 DEF Pc
    <3> QED BY <3>1, <3>2
  <2> QED BY <2>1, <2>2
<1>11. Mine(t) /\ record'.rev <= revision
  BY <1>2, <1>6, AccessBasics DEF Mine
<1> QED BY <1>1, <1>2, <1>6, <1>8, <1>10, <1>11, AccessBasics, AccessEnds

\* The operator's part, and the second time under the locks.
LEMMA SecondTimeStep ==
    ASSUME AccessInv, NEW t \in Tools, Confirms(t) \/ Relocks(t)
    PROVE  AccessInv'
<1>1. UNCHANGED <<record, auth, route, revision, cuts, tidy>> /\ Pc(t) \in {"manual", "relock"}
  BY DEF Confirms, Relocks
<1>2. PICK l \in {"relock", "write", "open"} :
        /\ Goes(t, l) /\ (l = "relock" => Pc(t) = "manual" /\ holder' = holder)
        /\ (l # "relock" => /\ Pc(t) = "relock" /\ holder = NoTool /\ holder' = t /\ record = job[t].mine
                            /\ (l = "write" <=> job[t].kind = "configure"))
  BY DEF Confirms, Relocks, Unchanged
<1>3. l \in Locked \cup {"manual", "relock", "handler"} /\ (l \in Locked <=> l # "relock") /\ Pc(t) \notin Locked
  BY <1>1 DEF Locked
<1>4. Works(t) /\ Writing(t) /\ Started(t) /\ holder # t /\ NoTool # t
  BY <1>1, <1>3, AccessBasics DEF AccessInv, Keeps, Started
<1>5. /\ job' \in [Tools -> Job] /\ job'[t].pc = l /\ job'[t].mine = job[t].mine
      /\ job'[t].kind = job[t].kind /\ job'[t].user = job[t].user
      /\ \A x \in Tools : x # t => job'[x] = job[x]
  BY <1>2, <1>3, GoesEffect DEF AccessInv
<1>6. Works(t)'
  BY <1>1, <1>2, <1>4, <1>5 DEF Works, Started, Pc, RoutinePcs, AccountPcs, WaitingPcs, Routine
<1>7. Writing(t)'
  <2>1. /\ record.rev = job[t].mine.rev => record = job[t].mine
        /\ job[t].kind = "configure" /\ record = job[t].mine => auth = {}
        /\ Pc(t) = "manual" => job[t].kind \notin Closing
        /\ Pc(t) = "relock" /\ job[t].kind \in Closing /\ record = job[t].mine => job[t].user \notin auth
    BY <1>1, <1>4 DEF Works, Writing, WaitingPcs
  <2>2. CASE l = "relock"
    BY <1>1, <1>2, <1>3, <1>5, <2>1, <2>2 DEF Writing, Pc, WaitingPcs
  <2>3. CASE l = "write"
    BY <1>1, <1>2, <1>3, <1>5, <2>1, <2>3 DEF Writing, Pc, WaitingPcs
  <2>4. CASE l = "open"
    BY <1>1, <1>2, <1>3, <1>5, <2>1, <2>4 DEF Writing, Pc, WaitingPcs
  <2> QED BY <2>2, <2>3, <2>4
<1>8. Shut' /\ Told'
  <2>1. ~ tidy' \/ (tidy /\ Pc(t) \notin RoutinePcs \cup {"handler"} \cup AccountPcs)
    BY <1>1, AccessBasics DEF RoutinePcs, AccountPcs
  <2> QED BY <1>1, <1>5, <2>1, TellsStill
<1>9. Mine(t)
  BY <1>1 DEF Mine
<1>10. holder' = t <=> l \in Locked
  BY <1>2, <1>3, <1>4
<1>11. holder' = holder \/ (holder \in {NoTool, t} /\ holder' \in {NoTool, t})
  BY <1>2
<1> QED BY <1>1, <1>2, <1>3, <1>4, <1>6, <1>7, <1>8, <1>9, <1>10, <1>11, AccessBasics, AccessGoes

\* A failure before the outer handler: the accounts are as they were, or fewer.
LEMMA FailsLateFacts ==
    ASSUME AccessInv, NEW t \in Tools, FailsLate(t)
    PROVE  /\ auth' \subseteq auth
           /\ Pc(t) \in {"manual", "relock"} => auth' = auth /\ route' = route
           /\ Pc(t) \in {"write", "apply", "done"} =>
                 /\ job[t].kind = "configure" /\ job[t].user \in Mains /\ auth' \subseteq {job[t].user}
                 /\ auth' # {} => route' = "on"
           /\ Pc(t) \in AccountPcs => route' = route
           /\ Pc(t) \notin {"manual", "relock"} => holder = t /\ record = job[t].mine
<1>1. /\ Pc(t) \in {"manual", "relock"} \cup {"write", "apply", "done"} \cup AccountPcs
      /\ Pc(t) \in {"write", "apply", "done"} => job[t].kind = "configure"
      /\ Pc(t) # "apply" => route' = route
  BY DEF FailsLate, AccountPcs
<1>2. CASE Pc(t) \in {"manual", "relock"}
  <2>1. auth' = auth
    BY <1>2 DEF FailsLate
  <2> QED BY <1>1, <1>2, <2>1 DEF AccountPcs
<1>3. CASE Pc(t) \in {"write", "apply", "done"}
  <2>1. holder = t /\ Works(t) /\ Writing(t) /\ record = job[t].mine
    <3>1. Pc(t) \in Locked \ {"save", "erase"}
      BY <1>3 DEF Locked
    <3> QED BY <3>1, UnderLocks DEF Writing
  <2>2. job[t].kind = "configure" /\ job[t].user \in Mains
    BY <1>1, <1>3, <2>1 DEF Works, Routine
  <2>3. CASE Pc(t) = "write"
    <3>1. auth' = auth /\ auth = {}
      BY <2>1, <2>2, <2>3 DEF FailsLate, Writing
    <3> QED BY <1>3, <2>1, <2>2, <2>3, <3>1 DEF AccountPcs
  <2>4. CASE Pc(t) = "apply"
    <3>1. auth' = {}
      BY <2>4 DEF FailsLate
    <3> QED BY <1>3, <2>1, <2>2, <2>4, <3>1 DEF AccountPcs
  <2>5. CASE Pc(t) = "done"
    <3>1. auth' \in {auth, {}}
      BY <2>5 DEF FailsLate
    <3>2. auth = {job[t].user} /\ route' = "on"
      BY <1>1, <2>1, <2>2, <2>5 DEF Writing
    <3> QED BY <1>3, <2>1, <2>2, <2>5, <3>1, <3>2 DEF AccountPcs
  <2> QED BY <1>3, <2>3, <2>4, <2>5
<1>4. CASE Pc(t) \in AccountPcs
  <2>1. auth' \in {auth, Without(job[t].user)}
    <3>1. CASE Pc(t) = "account"
      BY <3>1 DEF FailsLate
    <3>2. CASE Pc(t) \in {"close", "open"}
      BY <3>2 DEF FailsLate
    <3> QED BY <1>4, <3>1, <3>2 DEF AccountPcs
  <2>2. auth' \subseteq auth
    BY <2>1 DEF Without
  <2>3. Pc(t) \notin {"manual", "relock", "write", "apply", "done"}
    BY <1>4 DEF AccountPcs
  <2> QED BY <1>1, <1>4, <2>2, <2>3, AccountFacts
<1> QED BY <1>1, <1>2, <1>3, <1>4

LEMMA FailsLateStep ==
    ASSUME AccessInv, NEW t \in Tools, FailsLate(t)
    PROVE  AccessInv'
<1> DEFINE late == {"manual", "relock"}
           routine == {"write", "apply", "done"}
<1>1. /\ Goes(t, "handler") /\ UNCHANGED <<record, revision, cuts, tidy>>
      /\ holder' = IF holder = t THEN NoTool ELSE holder
      /\ Pc(t) \in late \cup routine \cup AccountPcs
  BY DEF FailsLate, AccountPcs
<1>2. /\ auth' \subseteq auth
      /\ Pc(t) \in late => auth' = auth /\ route' = route
      /\ Pc(t) \in routine => /\ job[t].kind = "configure" /\ job[t].user \in Mains
                              /\ auth' \subseteq {job[t].user}
                              /\ auth' # {} => route' = "on"
      /\ Pc(t) \in AccountPcs => route' = route
      /\ Pc(t) \notin late => holder = t /\ record = job[t].mine
  BY FailsLateFacts
<1>3. Started(t) /\ "handler" \notin Locked /\ NoTool # t /\ Works(t) /\ Writing(t)
      /\ NoTool \notin Tools /\ Mains \cap Family = {} /\ record.main \notin Family
  BY <1>1, AccessBasics, AccessTypes DEF Locked, Started, AccountPcs, AccessInv, Keeps, Record
<1>4. /\ job' \in [Tools -> Job] /\ job'[t].pc = "handler" /\ job'[t].mine = job[t].mine
      /\ job'[t].kind = job[t].kind /\ job'[t].user = job[t].user
      /\ \A x \in Tools : x # t => job'[x] = job[x]
  BY <1>1, GoesEffect DEF AccessInv
<1>5. Works(t)'
  <2>1. job[t].kind \notin Routine \ {"configure"}
    <3>1. CASE Pc(t) \in late
      BY <1>3, <3>1 DEF Works, WaitingPcs
    <3>2. CASE Pc(t) \in routine
      BY <1>2, <3>2
    <3>3. CASE Pc(t) \in AccountPcs
      BY <1>3, <3>3 DEF Works
    <3> QED BY <1>1, <3>1, <3>2, <3>3
  <2> QED BY <1>1, <1>3, <1>4, <2>1 DEF Works, Started, Pc, RoutinePcs, AccountPcs, WaitingPcs
<1>6. Writing(t)'
  <2>1. record.rev = job[t].mine.rev => record = job[t].mine
    BY <1>2, <1>3 DEF Writing, WaitingPcs
  <2> QED BY <1>1, <1>3, <1>4, <2>1 DEF Writing, Pc
<1>7. Shut'
  BY <1>1, <1>2 DEF AccessInv, Shut
<1>8. Told'
  <2> SUFFICES ASSUME tidy, \A x \in Tools : Pc(x)' \notin RoutinePcs
               PROVE  /\ record.main \in auth' =>
                            /\ route' = "on"
                            /\ \/ record.phase = "enabled"
                               \/ \E x \in Tools : /\ Pc(x)' = "handler" /\ job'[x].kind = "configure"
                                                   /\ record.rev = job'[x].mine.rev
                      /\ \A f \in auth' \cap Family :
                            \/ record.members[f] = "enabled"
                            \/ \E x \in Tools : /\ Pc(x)' \in {"handler"} \cup AccountPcs
                                                /\ job'[x].kind \notin Routine /\ job'[x].user = f
    BY <1>1 DEF Told
  <2>1. CASE Pc(t) \in late
    <3>1. \A x \in Tools : Pc(x) \notin RoutinePcs
      BY <1>4, <2>1 DEF Pc, RoutinePcs
    <3>2. auth' = auth /\ route' = route /\ Pc(t) \notin {"handler"} \cup AccountPcs
      BY <1>2, <2>1 DEF AccountPcs
    <3>3. ASSUME record.main \in auth'
          PROVE  /\ route' = "on"
                 /\ \/ record.phase = "enabled"
                    \/ \E x \in Tools : /\ Pc(x)' = "handler" /\ job'[x].kind = "configure"
                                        /\ record.rev = job'[x].mine.rev
      BY <1>4, <3>1, <3>2, <3>3 DEF AccessInv, Told, Pc
    <3>4. ASSUME NEW f \in auth' \cap Family
          PROVE  \/ record.members[f] = "enabled"
                 \/ \E x \in Tools : /\ Pc(x)' \in {"handler"} \cup AccountPcs
                                     /\ job'[x].kind \notin Routine /\ job'[x].user = f
      BY <1>4, <3>1, <3>2, <3>4 DEF AccessInv, Told, Pc
    <3> QED BY <3>3, <3>4
  <2>2. CASE Pc(t) \in routine
    <3>1. job'[t].kind = "configure" /\ record.rev = job'[t].mine.rev /\ Pc(t)' = "handler"
      BY <1>2, <1>4, <2>2 DEF Pc
    <3>2. auth' \cap Family = {} /\ (auth' # {} => route' = "on")
      BY <1>2, <1>3, <2>2
    <3> QED BY <3>1, <3>2
  <2>3. CASE Pc(t) \in AccountPcs
    <3>1. /\ record.main \in auth' => route' = "on" /\ record.phase = "enabled"
          /\ \A f \in auth' \cap Family :
                \/ record.members[f] = "enabled" \/ f = job[t].user
                \/ \E x \in Tools : /\ x # t /\ Pc(x) = "handler"
                                    /\ job[x].kind \notin Routine /\ job[x].user = f
      BY <1>2, <2>3, AccountTold
    <3>2. Pc(t)' = "handler" /\ job'[t].kind \notin Routine
      BY <1>4, <2>3, AccountFacts DEF Pc
    <3>3. ASSUME NEW f \in auth' \cap Family
          PROVE  \/ record.members[f] = "enabled"
                 \/ \E x \in Tools : /\ Pc(x)' \in {"handler"} \cup AccountPcs
                                     /\ job'[x].kind \notin Routine /\ job'[x].user = f
      BY <1>4, <3>1, <3>2, <3>3 DEF Pc
    <3> QED BY <3>1, <3>3
  <2> QED BY <1>1, <2>1, <2>2, <2>3
<1>9. Mine(t)
  BY <1>1, <1>2, <1>3 DEF Mine
<1>10. holder' # t /\ (holder' = holder \/ (holder \in {NoTool, t} /\ holder' \in {NoTool, t}))
  BY <1>1, <1>3
<1>11. auth' \subseteq Mains \cup Family /\ route' \in {"none", "off", "on"}
  <2>1. route' \in {route, "off"}
    BY DEF FailsLate
  <2> QED BY <1>2, <2>1, AccessBasics
<1> QED BY <1>1, <1>3, <1>5, <1>6, <1>7, <1>8, <1>9, <1>10, <1>11, AccessBasics, AccessGoes

\* The outer handler withdraws what is still its own, and otherwise leaves nothing
\* that is not known.
LEMMA HandlesStep ==
    ASSUME AccessInv, NEW t \in Tools, Handles(t)
    PROVE  AccessInv'
<1>1. /\ Pc(t) = "handler" /\ Pc(t) \in WaitingPcs /\ holder = NoTool /\ Leaves(t)
      /\ UNCHANGED <<route, holder, revision, cuts>>
      /\ tidy' = (tidy /\ (StillMine(t) \/ job[t].user \notin LeftOpen))
  BY DEF Handles, WaitingPcs
<1>2. /\ Started(t) /\ Works(t) /\ Writing(t) /\ NoTool # t /\ NoTool \notin Tools
      /\ job[t].mine \in Record /\ record \in Record
  BY <1>1, AccessBasics DEF Started, AccessInv, Keeps
<1>3. /\ job[t].kind \notin Routine \ {"configure"}
      /\ record.rev = job[t].mine.rev => record = job[t].mine
      /\ Pc(t) \notin RoutinePcs
  BY <1>1, <1>2 DEF Works, Writing, RoutinePcs
<1>4. \A x \in Tools : x # t => job'[x] = job[x]
  BY <1>1, LeavesEffect DEF AccessInv
<1>5. ASSUME \A x \in Tools : Pc(x)' \notin RoutinePcs
      PROVE  \A x \in Tools : Pc(x) \notin RoutinePcs
  BY <1>3, <1>4, <1>5 DEF Pc
<1>6. CASE StillMine(t) /\ job[t].kind = "configure"
  <2>1. auth' = {} /\ record' = [job[t].mine EXCEPT !.phase = "needs_repair"]
    BY <1>6 DEF Handles
  <2>2. record' \in Record /\ record'.rev = job[t].mine.rev
    BY <1>2, <2>1 DEF Record, Phases
  <2>3. Shut' /\ Told'
    BY <2>1, TellsNobody
  <2>4. Mine(t) /\ record'.rev <= revision
    BY <1>1, <1>2, <2>2, AccessBasics DEF Mine
  <2>5. tidy' \in BOOLEAN
    BY <1>1
  <2> QED BY <1>1, <1>2, <2>1, <2>2, <2>3, <2>4, <2>5, AccessBasics, AccessEnds
<1>7. CASE StillMine(t) /\ job[t].kind # "configure"
  <2> DEFINE u == job[t].user
             m == [record.members EXCEPT ![u] = "needs_repair"]
  <2>1. record = job[t].mine /\ job[t].kind \notin Routine /\ u \in Family
    BY <1>1, <1>2, <1>3, <1>7 DEF StillMine, Works
  <2>2. auth' = auth \ {u} /\ record' = [record EXCEPT !.members = m]
    BY <1>7, <2>1 DEF Handles, Without
  <2>3. m \in [Family -> Phases] /\ m[u] = "needs_repair" /\ \A f \in Family : f # u => m[f] = record.members[f]
    BY <1>2, <2>1 DEF Record, Phases
  <2> HIDE DEF m
  <2>4. record' \in Record /\ record'.rev = record.rev /\ record'.phase = record.phase
        /\ record'.main = record.main /\ record'.members = m
    BY <1>2, <2>2, <2>3 DEF Record
  <2>5. Shut'
    BY <2>2, <2>3, <2>4 DEF AccessInv, Shut
  <2>6. ASSUME NEW x \in Tools, x # t, Pc(x) = "handler"
        PROVE  record.rev # job[x].mine.rev
    BY <1>2, <2>1, <2>6 DEF AccessInv, Keeps, Stamped, Started
  <2>7. Told'
    <3> SUFFICES ASSUME tidy, \A x \in Tools : Pc(x) \notin RoutinePcs
                 PROVE  /\ record'.main \in auth' => route = "on" /\ record'.phase = "enabled"
                        /\ \A f \in auth' \cap Family :
                              \/ record'.members[f] = "enabled"
                              \/ \E x \in Tools : /\ Pc(x)' \in {"handler"} \cup AccountPcs
                                                  /\ job'[x].kind \notin Routine /\ job'[x].user = f
      BY <1>1, <1>5 DEF Told
    <3>1. record'.main \in auth' => route = "on" /\ record'.phase = "enabled"
      BY <1>7, <2>2, <2>4, <2>6 DEF AccessInv, Told
    <3>2. ASSUME NEW f \in auth' \cap Family
          PROVE  \/ record'.members[f] = "enabled"
                 \/ \E x \in Tools : /\ Pc(x)' \in {"handler"} \cup AccountPcs
                                     /\ job'[x].kind \notin Routine /\ job'[x].user = f
      <4>1. f # u /\ f \in auth \cap Family
        BY <2>2
      <4>2. \/ record.members[f] = "enabled"
            \/ \E x \in Tools : /\ Pc(x) \in {"handler"} \cup AccountPcs
                                /\ job[x].kind \notin Routine /\ job[x].user = f
        BY <4>1 DEF AccessInv, Told
      <4> QED BY <1>4, <2>3, <2>4, <4>1, <4>2 DEF Pc
    <3> QED BY <3>1, <3>2
  <2>8. Mine(t) /\ record'.rev <= revision
    BY <1>1, <1>2, <2>1, <2>4, AccessBasics DEF Mine
  <2>9. tidy' \in BOOLEAN /\ auth' \subseteq Mains \cup Family
    BY <1>1, <2>2, AccessBasics
  <2> QED BY <1>1, <1>2, <2>4, <2>5, <2>7, <2>8, <2>9, AccessBasics, AccessEnds
<1>8. CASE ~ StillMine(t)
  <2>1. UNCHANGED <<record, auth>> /\ Mine(t)
    BY <1>1, <1>8 DEF Handles, Mine
  <2>2. Shut'
    BY <2>1 DEF AccessInv, Shut
  <2>3. Told'
    <3> SUFFICES ASSUME tidy, job[t].user \notin LeftOpen, \A x \in Tools : Pc(x) \notin RoutinePcs
                 PROVE  /\ record.main \in auth =>
                              /\ route = "on"
                              /\ \/ record.phase = "enabled"
                                 \/ \E x \in Tools : /\ Pc(x)' = "handler" /\ job'[x].kind = "configure"
                                                     /\ record.rev = job'[x].mine.rev
                        /\ \A f \in auth \cap Family :
                              \/ record.members[f] = "enabled"
                              \/ \E x \in Tools : /\ Pc(x)' \in {"handler"} \cup AccountPcs
                                                  /\ job'[x].kind \notin Routine /\ job'[x].user = f
      BY <1>1, <1>5, <1>8, <2>1 DEF Told
    <3>1. ~ (job[t].kind = "configure" /\ record.rev = job[t].mine.rev)
      BY <1>2, <1>3, <1>8 DEF StillMine, Works, Routine
    <3>2. ASSUME record.main \in auth
          PROVE  /\ route = "on"
                 /\ \/ record.phase = "enabled"
                    \/ \E x \in Tools : /\ Pc(x)' = "handler" /\ job'[x].kind = "configure"
                                        /\ record.rev = job'[x].mine.rev
      BY <1>4, <3>1, <3>2 DEF AccessInv, Told, Pc
    <3>3. ASSUME NEW f \in auth \cap Family
          PROVE  \/ record.members[f] = "enabled"
                 \/ \E x \in Tools : /\ Pc(x)' \in {"handler"} \cup AccountPcs
                                     /\ job'[x].kind \notin Routine /\ job'[x].user = f
      <4>1. CASE f = job[t].user
        <5>1. record.members[f] \in Phases /\ record.members[f] # "pending"
          BY <1>2, <3>3, <4>1 DEF LeftOpen, Record
        <5> QED BY <3>3, <5>1 DEF AccessInv, Shut, Phases
      <4>2. CASE f # job[t].user
        BY <1>4, <3>3, <4>2 DEF AccessInv, Told, Pc
      <4> QED BY <4>1, <4>2
    <3> QED BY <3>2, <3>3
  <2>4. tidy' \in BOOLEAN /\ holder' = IF holder = t THEN NoTool ELSE holder
    BY <1>1, <1>2
  <2> QED BY <1>1, <2>1, <2>2, <2>3, <2>4, AccessBasics, AccessEnds
<1> QED BY <1>6, <1>7, <1>8

LEMMA AccessStep == AccessInv /\ [WebdavNext]_webdavVars => AccessInv'
<1> SUFFICES ASSUME AccessInv, [WebdavNext]_webdavVars PROVE AccessInv'
  OBVIOUS
<1>1. CASE UNCHANGED webdavVars
  <2>1. WebdavTypeOK' /\ (record.rev <= revision)'
    BY <1>1 DEF webdavVars, AccessInv, WebdavTypeOK
  <2>2. ASSUME NEW t \in Tools PROVE Keeps(t)'
    <3>1. Works(t)' /\ (Pc(t) \in Locked <=> holder = t)'
      BY <1>1 DEF webdavVars, AccessInv, Keeps, Works, Started, Pc
    <3>2. Stamped(t)'
      BY <1>1 DEF webdavVars, AccessInv, Keeps, Stamped, Started, Pc
    <3>3. Writing(t)'
      BY <1>1 DEF webdavVars, AccessInv, Keeps, Writing, Pc
    <3> QED BY <3>1, <3>2, <3>3 DEF Keeps
  <2>3. Shut' /\ Told'
    BY <1>1 DEF webdavVars, AccessInv, Shut, Told, Pc
  <2> QED BY <2>1, <2>2, <2>3 DEF AccessInv
<1>2. CASE WebdavNext
  <2> PICK t \in Tools :
        \/ \E k \in Routine \cup Opening \cup Closing, u \in Mains \cup Family : Asks(t, k, u)
        \/ Locks(t) \/ GivesUp(t) \/ Saves(t) \/ Revokes(t) \/ ClosesRoute(t) \/ Writes(t)
        \/ Activates(t) \/ Done(t) \/ Erases(t) \/ Closes(t) \/ Opens(t) \/ AccountDone(t)
        \/ Confirms(t) \/ Relocks(t) \/ FailsLate(t) \/ Handles(t) \/ HandlerBusy(t)
        \/ EnableFails(t) \/ FailsPlainly(t) \/ Killed(t)
    BY <1>2 DEF WebdavNext
  <2>1. CASE \E k \in Routine \cup Opening \cup Closing, u \in Mains \cup Family : Asks(t, k, u)
    BY <2>1, AsksStep
  <2>2. CASE Locks(t) \/ Saves(t)
    BY <2>2, LocksStep, SavesStep
  <2>3. CASE GivesUp(t) \/ HandlerBusy(t) \/ Killed(t)
    BY <2>3, QuietEndStep
  <2>4. CASE Revokes(t) \/ ClosesRoute(t) \/ Writes(t) \/ Activates(t)
    BY <2>4, RoutineStep
  <2>5. CASE Done(t) \/ Erases(t)
    BY <2>5, DoneStep, ErasesStep
  <2>6. CASE Closes(t) \/ Opens(t) \/ AccountDone(t)
    BY <2>6, ClosesStep, AccountDoneStep
  <2>7. CASE Confirms(t) \/ Relocks(t)
    BY <2>7, SecondTimeStep
  <2>8. CASE FailsLate(t) \/ Handles(t)
    BY <2>8, FailsLateStep, HandlesStep
  <2>9. CASE EnableFails(t) \/ FailsPlainly(t)
    BY <2>9, EnableFailsStep, FailsPlainlyStep
  <2> QED BY <2>1, <2>2, <2>3, <2>4, <2>5, <2>6, <2>7, <2>8, <2>9
<1> QED BY <1>1, <1>2

\* service.py and users.py: one tool at a time has the locks, the record under
\* them is that tool's own, a revision is one tool's, and what a tool has opened
\* and closed in the auth file agrees with the record it goes on with.
THEOREM AccessInvariant == WebdavSpec => []AccessInv
<1>1. WebdavInit => AccessInv
  BY AccessInitInv
<1> QED BY <1>1, AccessStep, PTL DEF WebdavSpec

\* Once the locks are free, an entry or a member that is closed lets nobody in,
\* and who can log in is recorded as verified, unless a tool was cut off or was
\* kept from clearing up (service.py's configure and maintain, users.account).
THEOREM EnterersKnown == WebdavSpec => []RecordTellsWhoEnters
<1>1. AccessInv => RecordTellsWhoEnters
  <2> SUFFICES ASSUME AccessInv, holder = NoTool PROVE RecordTellsWhoEnters
    BY DEF RecordTellsWhoEnters
  <2>1. \A t \in Tools : Pc(t) \notin Locked
    BY AccessBasics DEF AccessInv, Keeps
  <2>2. \A t \in Tools : Pc(t) \notin RoutinePcs /\ Pc(t) \notin AccountPcs
    BY <2>1 DEF Locked, RoutinePcs, AccountPcs
  <2> QED BY <2>2 DEF AccessInv, Shut, Told, RecordTellsWhoEnters
<1> QED BY <1>1, AccessInvariant, PTL


\* assert_record and the outer handlers' comparison of the revision: a tool that
\* has been overtaken writes neither the record nor an account.
THEOREM OvertakenQuiet == WebdavSpec => OvertakenWritesNothing
<1>1. ASSUME AccessInv, WebdavNext, record' # record \/ auth' # auth
      PROVE  \E t \in Tools : /\ job'[t] # job[t]
                              /\ record.rev \in {job[t].seen.rev, job[t].mine.rev}
  <2> PICK t \in Tools :
        \/ Saves(t) \/ Revokes(t) \/ Writes(t) \/ Done(t) \/ Erases(t) \/ Closes(t) \/ Opens(t)
        \/ AccountDone(t) \/ FailsLate(t) \/ Handles(t) \/ EnableFails(t)
    BY <1>1 DEF WebdavNext, Asks, Locks, GivesUp, ClosesRoute, Activates, Confirms, Relocks, HandlerBusy,
       FailsPlainly, Killed
  <2>1. CASE Handles(t)
    <3>1. StillMine(t) /\ Pc(t) = "handler" /\ Leaves(t)
      BY <1>1, <2>1 DEF Handles
    <3>2. job'[t].pc = "none"
      BY <1>1, <3>1, LeavesEffect DEF AccessInv
    <3> QED BY <3>1, <3>2 DEF StillMine, Pc
  <2>2. CASE FailsLate(t)
    <3>1. Pc(t) \notin {"manual", "relock"} /\ record = job[t].mine
      BY <1>1, <2>2, FailsLateFacts DEF FailsLate
    <3>2. Goes(t, "handler") /\ Pc(t) # "handler"
      BY <2>2 DEF FailsLate
    <3>3. job'[t].pc = "handler"
      BY <1>1, <3>2, GoesEffect DEF AccessInv
    <3> QED BY <3>1, <3>2, <3>3 DEF Pc
  <2>3. CASE /\ Pc(t) \in Locked
             /\ Leaves(t) \/ \E l \in Locked \cup {"manual", "relock"} : Goes(t, l) /\ l # Pc(t)
    <3>1. record.rev \in {job[t].seen.rev, job[t].mine.rev}
      BY <1>1, <2>3, UnderLocks DEF Writing
    <3>2. job'[t].pc # job[t].pc
      <4>1. CASE Leaves(t)
        BY <1>1, <2>3, <4>1, LeavesEffect DEF AccessInv, Pc, Locked
      <4>2. CASE \E l \in Locked \cup {"manual", "relock"} : Goes(t, l) /\ l # Pc(t)
        BY <1>1, <4>2, GoesEffect DEF AccessInv, Pc
      <4> QED BY <2>3, <4>1, <4>2
    <3> QED BY <3>1, <3>2
  <2>4. ASSUME Saves(t) \/ Revokes(t) \/ Writes(t) \/ Done(t) \/ Erases(t) \/ Closes(t) \/ Opens(t)
               \/ AccountDone(t) \/ EnableFails(t)
        PROVE  /\ Pc(t) \in Locked
               /\ Leaves(t) \/ \E l \in Locked \cup {"manual", "relock"} : Goes(t, l) /\ l # Pc(t)
    <3>1. CASE Saves(t)
      BY <3>1 DEF Saves, Locked
    <3>2. CASE Revokes(t)
      BY <3>2 DEF Revokes, Locked
    <3>3. CASE Writes(t)
      BY <3>3 DEF Writes, Locked
    <3>4. CASE Done(t)
      BY <3>4 DEF Done, Locked
    <3>5. CASE Erases(t) \/ AccountDone(t) \/ EnableFails(t)
      BY <3>5 DEF Erases, AccountDone, EnableFails, Locked
    <3>6. CASE Closes(t)
      BY <3>6 DEF Closes, Locked
    <3>7. CASE Opens(t)
      BY <3>7 DEF Opens, Locked
    <3> QED BY <2>4, <3>1, <3>2, <3>3, <3>4, <3>5, <3>6, <3>7
  <2> QED BY <2>1, <2>2, <2>3, <2>4
<1>2. AccessInv /\ [WebdavNext]_webdavVars =>
        [record' # record \/ auth' # auth =>
            \E t \in Tools : /\ job'[t] # job[t]
                             /\ record.rev \in {job[t].seen.rev, job[t].mine.rev}]_webdavVars
  BY <1>1 DEF webdavVars
<1> QED BY <1>2, AccessInvariant, PTL DEF WebdavSpec, OvertakenWritesNothing

-------------------------------------------------------------------------------
(* The shared proxy *)

\* Configuration c serves what routes s name; a route without a usable certificate may be down.
Serves(c, s, usable) == \A e \in Editions :
    /\ c.mgmt[e] = s.mgmt[e] \/ (c.mgmt[e] = NoDomain /\ s.mgmt[e] \notin usable)
    /\ c.dav[e] = s.dav[e]

\* Configuration c leaves the other routes as they were before operation o.
Spares(c, o, usable) ==
    /\ \A e \in Editions : \/ e = o.ed /\ o.kind # "apply"
                           \/ o.prev.mgmt[e] \notin usable \cup {NoDomain}
                           \/ c.mgmt[e] = o.prev.mgmt[e]
    /\ \A e \in Editions : e # o.ed \/ o.kind # "apply" => c.dav[e] = o.prev.dav[e]

\* What an operation works on: one route of one edition.
Aimed == op.pc # "idle" =>
    /\ op.who = "dav" <=> op.kind = "apply"
    /\ \A e \in Editions : e # op.ed \/ op.kind = "apply" => op.target.mgmt[e] = op.prev.mgmt[e]
    /\ \A e \in Editions : e # op.ed \/ op.kind # "apply" => op.target.dav[e] = op.prev.dav[e]
    /\ op.kind = "configure" =>
          /\ op.target.mgmt[op.ed] \in Domains
          /\ \A e \in Editions \ {op.ed} : op.prev.mgmt[e] # op.target.mgmt[op.ed]
    /\ op.repair => op.kind = "configure" /\ op.prev.mgmt[op.ed] = op.target.mgmt[op.ed]

\* Files are installed before Nginx is told, and before anything is recorded.
Installed ==
    /\ ~ conf.there => domains.routes = NoRoutes /\ conf.cfg = Off /\ running = Off
    /\ op.pc \in {"bootServe", "cert", "targetServe", "verify", "commit", "registry", "unfence",
                  "backServe", "backCommit"} => conf.there

\* Before an operation has touched anything, Nginx serves what is installed, and that is the record.
Rested == op.pc \in {"idle", "ensure"} /\ calm =>
    running = conf.cfg /\ (~ fence => Serves(conf.cfg, domains.routes, certs))

\* While one is under way, and whichever files a restart of the host would take.
Spared == op.pc # "idle" /\ calm => Spares(running, op, certs) /\ Spares(conf.cfg, op, certs)

\* How far it has got.
Reached ==
    /\ op.pc \in {"targetServe", "verify", "commit", "registry", "unfence"} => conf.cfg = Plain(op.target)
    /\ op.pc \in {"verify", "commit", "registry", "unfence", "backCommit"} => running = conf.cfg
    /\ op.pc \in {"registry", "unfence"} => domains.routes = op.target /\ fence
    /\ op.pc \notin {"idle", "registry", "unfence"} /\ op.who # "dav" /\ ~ fence => domains.routes = op.prev
    /\ op.pc = "backServe" => /\ Serves(conf.cfg, Fallback, certs)
                              /\ ~ HasRoutes(Fallback) => conf.cfg = Off
    /\ op.pc \in {"backServe", "backCommit"} /\ op.kind = "apply" => conf.cfg = Plain(Fallback)
    /\ op.pc = "backCommit" => op.kind = "apply"

ProxyInv == ProxyTypeOK /\ Aimed /\ Installed /\ Rested /\ Spared /\ Reached

OpPcs == Tried \cup {"idle", "ensure", "back", "backServe", "backCommit"}
Operation == [pc : OpPcs, who : {"script", "compose", "dav"}, ed : Editions,
              kind : {"configure", "remove", "apply"},
              prev : RouteState, target : RouteState, repair : BOOLEAN]

LEMMA ProxyTypes ==
    /\ ProxyTypeOK <=>
          /\ domains \in [there : BOOLEAN, routes : RouteState]
          /\ certs \subseteq Domains \cup Editions
          /\ conf \in [there : BOOLEAN, cfg : Config] /\ running \in Config
          /\ registry \in [Editions -> MaybeDomain]
          /\ fence \in BOOLEAN /\ calm \in BOOLEAN /\ op \in Operation
          /\ proxySpent \in [faults : 0..MaxProxyFaults, losses : 0..MaxLosses]
    /\ Domains \cap Editions = {} /\ NoDomain \notin Domains
BY ProxyAssumption DEF ProxyTypeOK, Operation, OpPcs

LEMMA PlainFacts ==
    ASSUME NEW s \in RouteState
    PROVE  /\ Plain(s) \in Config /\ Plain(s).mgmt = s.mgmt /\ Plain(s).dav = s.dav
           /\ \A k : Serves(Plain(s), s, k)
           /\ ~ HasRoutes(s) => Plain(s) = Off
<1>1. NoDomain \in MaybeDomain \cup Editions
  BY DEF MaybeDomain
<1>2. Plain(s) \in Config /\ Plain(s).mgmt = s.mgmt /\ Plain(s).dav = s.dav
  BY <1>1 DEF Plain, Config, RouteState
<1>3. \A k : Serves(Plain(s), s, k)
  BY <1>2 DEF Serves
<1>4. ASSUME ~ HasRoutes(s) PROVE Plain(s) = Off
  <2>1. \A e \in Editions : s.mgmt[e] = NoDomain /\ s.dav[e] = "none"
    BY <1>4 DEF HasRoutes, Names, Served
  <2>2. s.mgmt = [e \in Editions |-> NoDomain] /\ s.dav = [e \in Editions |-> "none"]
    BY <2>1 DEF RouteState
  <2> QED BY <2>2 DEF Off, Plain, NoRoutes
<1> QED BY <1>2, <1>3, <1>4

LEMMA OffFacts == NoRoutes \in RouteState /\ Off \in Config /\ Off = Plain(NoRoutes)
<1>1. NoRoutes \in RouteState
  BY DEF NoRoutes, RouteState, MaybeDomain
<1> QED BY <1>1, PlainFacts DEF Off

LEMMA NoOpFacts == NoOp \in Operation /\ NoOp.pc = "idle"
<1>1. (CHOOSE e \in Editions : TRUE) \in Editions
  BY ProxyAssumption
<1> QED BY <1>1, OffFacts DEF NoOp, Operation, OpPcs

\* A route an operation may withdraw is the one it works on; the rest is as before.
LEMMA FallbackFacts ==
    ASSUME op \in Operation
    PROVE  /\ Fallback \in RouteState /\ Fallback.mgmt = op.prev.mgmt
           /\ \A e \in Editions : e # op.ed \/ op.kind # "apply" => Fallback.dav[e] = op.prev.dav[e]
           /\ op.kind # "apply" => Fallback = op.prev
           /\ op.kind = "apply" => Fallback.dav[op.ed] # "on"
<1> DEFINE p == op.prev
           v == [p.dav EXCEPT ![op.ed] = "off"]
<1>1. p \in RouteState /\ op.ed \in Editions
  BY DEF Operation
<1>2. CASE op.kind = "apply" /\ p.dav[op.ed] # "none"
  <2>1. v \in [Editions -> {"none", "off", "on"}] /\ v[op.ed] = "off"
        /\ \A e \in Editions : e # op.ed => v[e] = p.dav[e]
    BY <1>1 DEF RouteState
  <2>2. Fallback = [p EXCEPT !.dav = v]
    BY <1>2 DEF Fallback
  <2> HIDE DEF v
  <2>3. Fallback \in RouteState /\ Fallback.mgmt = p.mgmt /\ Fallback.dav = v
    BY <1>1, <2>1, <2>2 DEF RouteState
  <2> QED BY <1>2, <2>1, <2>3
<1>3. CASE ~ (op.kind = "apply" /\ p.dav[op.ed] # "none")
  <2>1. Fallback = p
    BY <1>3 DEF Fallback
  <2> QED BY <1>1, <1>3, <2>1
<1> QED BY <1>2, <1>3

LEMMA ServesSpares ==
    ASSUME NEW c, NEW o, NEW k, Serves(c, o.prev, k)
    PROVE  Spares(c, o, k)
BY DEF Serves, Spares

LEMMA SparesMore ==
    ASSUME NEW c, NEW o, NEW p, NEW k, NEW j, Spares(c, o, k),
           p.ed = o.ed, p.kind = o.kind, p.prev = o.prev,
           \A e \in Editions : \/ o.prev.mgmt[e] \notin j \ k \/ o.prev.mgmt[e] = NoDomain
                               \/ e = o.ed /\ o.kind # "apply"
    PROVE  Spares(c, p, j)
BY DEF Spares

LEMMA OpToEffect ==
    ASSUME op \in Operation, NEW l \in OpPcs, OpTo(l)
    PROVE  /\ op' \in Operation /\ op'.pc = l /\ op'.who = op.who /\ op'.ed = op.ed /\ op'.kind = op.kind
           /\ op'.prev = op.prev /\ op'.target = op.target /\ op'.repair = op.repair
           /\ Fallback' = Fallback
<1>1. /\ op' \in Operation /\ op'.pc = l /\ op'.who = op.who /\ op'.ed = op.ed /\ op'.kind = op.kind
      /\ op'.prev = op.prev /\ op'.target = op.target /\ op'.repair = op.repair
  BY DEF OpTo, Operation
<1>2. Fallback' = Fallback
  BY <1>1 DEF Fallback
<1> QED BY <1>1, <1>2

LEMMA ProxyInitInv == ProxyInit => ProxyInv
<1> SUFFICES ASSUME ProxyInit PROVE ProxyInv
  OBVIOUS
<1>1. ProxyTypeOK
  <2>1. registry \in [Editions -> MaybeDomain]
    BY DEF ProxyInit, MaybeDomain
  <2>2. domains \in [there : BOOLEAN, routes : RouteState] /\ conf \in [there : BOOLEAN, cfg : Config]
    BY OffFacts DEF ProxyInit
  <2>3. proxySpent \in [faults : 0..MaxProxyFaults, losses : 0..MaxLosses]
    BY ProxyAssumption DEF ProxyInit
  <2> QED BY <2>1, <2>2, <2>3, OffFacts, NoOpFacts, ProxyTypes DEF ProxyInit
<1>2. Serves(conf.cfg, domains.routes, certs)
  BY OffFacts, PlainFacts DEF ProxyInit
<1> QED BY <1>1, <1>2, NoOpFacts DEF ProxyInit, ProxyInv, Aimed, Installed, Rested, Spared, Reached

\* Nothing is open between operations but what rests.
LEMMA ProxyIdle ==
    ASSUME ProxyTypeOK', op'.pc = "idle",
           ~ conf'.there => domains'.routes = NoRoutes /\ conf'.cfg = Off /\ running' = Off,
           calm' => running' = conf'.cfg /\ (~ fence' => Serves(conf'.cfg, domains'.routes, certs'))
    PROVE  ProxyInv'
BY DEF ProxyInv, Aimed, Installed, Rested, Spared, Reached

LEMMA BeginsStep ==
    ASSUME ProxyInv, NEW e \in Editions,
           NEW who \in {"script", "compose", "dav"}, NEW kind \in {"configure", "remove", "apply"},
           NEW target \in RouteState, NEW repair \in BOOLEAN, NEW l \in {"ensure", "target"},
           op.pc = "idle",
           UNCHANGED <<domains, certs, conf, running, registry, fence, calm, proxySpent>>,
           op' = [pc |-> l, who |-> who, ed |-> e, kind |-> kind, prev |-> domains.routes,
                  target |-> target, repair |-> repair],
           who = "dav" <=> kind = "apply",
           IF kind = "apply" THEN conf.there => conf.cfg = Plain(domains.routes) ELSE ~ fence,
           Aimed'
    PROVE  ProxyInv'
<1>1. /\ domains.routes \in RouteState /\ calm \in BOOLEAN
      /\ ~ conf.there => domains.routes = NoRoutes /\ conf.cfg = Off
      /\ calm => running = conf.cfg /\ (~ fence => Serves(conf.cfg, domains.routes, certs))
  BY ProxyTypes DEF ProxyInv, Installed, Rested
<1>2. op' \in Operation /\ op'.pc = l /\ op'.who = who /\ op'.kind = kind /\ op'.prev = domains.routes
  BY <1>1 DEF Operation, OpPcs, Tried
<1>3. ProxyTypeOK'
  BY <1>2, ProxyTypes DEF ProxyInv, ProxyTypeOK, Operation, OpPcs
<1>4. calm => Serves(conf.cfg, domains.routes, certs)
  <2>1. CASE kind = "apply"
    BY <1>1, <2>1, OffFacts, PlainFacts
  <2>2. CASE kind # "apply"
    BY <1>1, <2>2
  <2> QED BY <2>1, <2>2
<1>5. calm => Spares(conf.cfg, op', certs) /\ running = conf.cfg
  BY <1>1, <1>2, <1>4, ServesSpares
<1>6. Installed' /\ Rested' /\ Spared'
  BY <1>1, <1>2, <1>5 DEF ProxyInv, Installed, Rested, Spared
<1>7. Reached'
  BY <1>2 DEF Reached
<1> QED BY <1>3, <1>6, <1>7 DEF ProxyInv

LEMMA MgmtGone ==
    ASSUME NEW s \in RouteState, NEW e \in Editions, NEW r,
           r = [s EXCEPT !.mgmt = [s.mgmt EXCEPT ![e] = NoDomain]]
    PROVE  /\ r \in RouteState /\ r.dav = s.dav /\ r.mgmt[e] = NoDomain
           /\ \A x \in Editions : x # e => r.mgmt[x] = s.mgmt[x]
<1> DEFINE m == [s.mgmt EXCEPT ![e] = NoDomain]
<1>1. m \in [Editions -> MaybeDomain] /\ m[e] = NoDomain /\ \A x \in Editions : x # e => m[x] = s.mgmt[x]
  BY DEF RouteState, MaybeDomain
<1>2. r = [s EXCEPT !.mgmt = m]
  OBVIOUS
<1> HIDE DEF m
<1> QED BY <1>1, <1>2 DEF RouteState

LEMMA DavChange ==
    ASSUME NEW s \in RouteState, NEW e \in Editions, NEW v \in {"none", "off", "on"}, NEW r,
           r = [s EXCEPT !.dav = [s.dav EXCEPT ![e] = v]]
    PROVE  /\ r \in RouteState /\ r.mgmt = s.mgmt /\ r.dav[e] = v
           /\ \A x \in Editions : x # e => r.dav[x] = s.dav[x]
<1> DEFINE m == [s.dav EXCEPT ![e] = v]
<1>1. m \in [Editions -> {"none", "off", "on"}] /\ m[e] = v /\ \A x \in Editions : x # e => m[x] = s.dav[x]
  BY DEF RouteState
<1>2. r = [s EXCEPT !.dav = m]
  OBVIOUS
<1> HIDE DEF m
<1> QED BY <1>1, <1>2 DEF RouteState

LEMMA StartsStep ==
    ASSUME ProxyInv, NEW e \in Editions,
           \/ \E who \in {"script", "compose"} : Removes(who, e) \/ \E d \in Domains : Configures(who, e, d)
           \/ \E v \in {"none", "off", "on"} : Applies(e, v)
    PROVE  ProxyInv'
<1>1. domains.routes \in RouteState /\ NoDomain \in MaybeDomain /\ Domains \subseteq MaybeDomain
  BY ProxyTypes DEF ProxyInv, MaybeDomain
<1>2. ASSUME NEW who \in {"script", "compose"}, Removes(who, e) PROVE ProxyInv'
  <2> DEFINE t == WithoutRoute(domains.routes, e)
  <2>1. t \in RouteState /\ t.dav = domains.routes.dav
        /\ \A x \in Editions : x # e => t.mgmt[x] = domains.routes.mgmt[x]
    <3>1. t = [domains.routes EXCEPT !.mgmt = [domains.routes.mgmt EXCEPT ![e] = NoDomain]]
      BY DEF WithoutRoute
    <3> HIDE DEF t
    <3> QED BY <1>1, <3>1, MgmtGone
  <2>2. op' = [pc |-> "target", who |-> who, ed |-> e, kind |-> "remove", prev |-> domains.routes,
               target |-> t, repair |-> FALSE]
    BY <1>2 DEF Removes
  <2> HIDE DEF t
  <2>3. Aimed'
    BY <2>1, <2>2 DEF Aimed
  <2>4. ~ fence /\ op.pc = "idle"
        /\ UNCHANGED <<domains, certs, conf, running, registry, fence, calm, proxySpent>>
    BY <1>2 DEF Removes, MayOwn
  <2> QED BY <2>1, <2>2, <2>3, <2>4, BeginsStep
<1>3. ASSUME NEW who \in {"script", "compose"}, NEW d \in Domains, Configures(who, e, d) PROVE ProxyInv'
  <2> DEFINE t == WithRoute(domains.routes, e, d)
             r == domains.routes.mgmt[e] = d /\ d \notin certs
  <2>1. t \in RouteState /\ t.dav = domains.routes.dav /\ t.mgmt[e] = d
        /\ \A x \in Editions : x # e => t.mgmt[x] = domains.routes.mgmt[x]
    <3> DEFINE m == [domains.routes.mgmt EXCEPT ![e] = d]
    <3>1. m \in [Editions -> MaybeDomain] /\ m[e] = d /\ \A x \in Editions : x # e => m[x] = domains.routes.mgmt[x]
      BY <1>1 DEF RouteState
    <3>2. t = [domains.routes EXCEPT !.mgmt = m]
      BY DEF WithRoute
    <3> HIDE DEF m, t, r
    <3> QED BY <1>1, <3>1, <3>2 DEF RouteState
  <2>2. op' = [pc |-> "ensure", who |-> who, ed |-> e, kind |-> "configure", prev |-> domains.routes,
               target |-> t, repair |-> r]
    BY <1>3 DEF Configures
  <2>3. r \in BOOLEAN /\ (r => domains.routes.mgmt[e] = d)
    OBVIOUS
  <2> HIDE DEF t, r
  <2>4. ~ fence /\ op.pc = "idle" /\ (\A x \in Editions \ {e} : domains.routes.mgmt[x] # d)
        /\ UNCHANGED <<domains, certs, conf, running, registry, fence, calm, proxySpent>>
    BY <1>3 DEF Configures, MayOwn
  <2>5. Aimed'
    BY <2>1, <2>2, <2>3, <2>4 DEF Aimed
  <2> QED BY <2>1, <2>2, <2>3, <2>4, <2>5, BeginsStep
<1>4. ASSUME NEW v \in {"none", "off", "on"}, Applies(e, v) PROVE ProxyInv'
  <2> DEFINE t == [domains.routes EXCEPT !.dav[e] = v]
  <2>1. t \in RouteState /\ t.mgmt = domains.routes.mgmt
        /\ \A x \in Editions : x # e => t.dav[x] = domains.routes.dav[x]
    <3>1. t = [domains.routes EXCEPT !.dav = [domains.routes.dav EXCEPT ![e] = v]]
      OBVIOUS
    <3> HIDE DEF t
    <3> QED BY <1>1, <3>1, DavChange
  <2>2. op' = [pc |-> "ensure", who |-> "dav", ed |-> e, kind |-> "apply", prev |-> domains.routes,
               target |-> t, repair |-> FALSE]
    BY <1>4 DEF Applies
  <2> HIDE DEF t
  <2>3. Aimed'
    BY <2>1, <2>2 DEF Aimed
  <2>4. (conf.there => conf.cfg = Plain(domains.routes)) /\ op.pc = "idle"
        /\ UNCHANGED <<domains, certs, conf, running, registry, fence, calm, proxySpent>>
    BY <1>4 DEF Applies
  <2> QED BY <2>1, <2>2, <2>3, <2>4, BeginsStep
<1> QED BY <1>2, <1>3, <1>4

LEMMA ProxyFacts ==
    ASSUME ProxyInv
    PROVE  /\ domains \in [there : BOOLEAN, routes : RouteState] /\ domains.routes \in RouteState
           /\ conf \in [there : BOOLEAN, cfg : Config] /\ conf.cfg \in Config /\ op \in Operation
           /\ op.pc \in OpPcs /\ op.prev \in RouteState /\ op.target \in RouteState /\ op.ed \in Editions
BY ProxyTypes DEF ProxyInv, Operation

\* An operation goes on.
LEMMA ProxyGoes ==
    ASSUME ProxyInv, op.pc # "idle", NEW l \in OpPcs \ {"idle", "ensure"}, OpTo(l), calm' = calm,
           domains' \in [there : BOOLEAN, routes : RouteState], certs' \subseteq Domains \cup Editions,
           conf' \in [there : BOOLEAN, cfg : Config], running' \in Config,
           registry' \in [Editions -> MaybeDomain], fence' \in BOOLEAN,
           proxySpent' \in [faults : 0..MaxProxyFaults, losses : 0..MaxLosses],
           Installed',
           calm => Spares(running', op, certs') /\ Spares(conf'.cfg, op, certs'),
           Reached'
    PROVE  ProxyInv'
<1>1. /\ op' \in Operation /\ op'.pc = l /\ op'.who = op.who /\ op'.ed = op.ed /\ op'.kind = op.kind
      /\ op'.prev = op.prev /\ op'.target = op.target /\ op'.repair = op.repair
  BY ProxyFacts, OpToEffect
<1>2. ProxyTypeOK'
  BY <1>1, ProxyTypes DEF ProxyInv, ProxyTypeOK, Operation, OpPcs
<1>3. Aimed'
  BY <1>1 DEF ProxyInv, Aimed
<1>4. Rested'
  BY <1>1 DEF Rested
<1>5. Spared'
  BY <1>1, SparesMore DEF Spared
<1> QED BY <1>2, <1>3, <1>4, <1>5 DEF ProxyInv

LEMMA EnsuresStep ==
    ASSUME ProxyInv, Ensures
    PROVE  ProxyInv'
<1>1. PICK l \in {"boot", "target"} : OpTo(l)
  BY DEF Ensures
<1>2. /\ op.pc = "ensure" /\ domains' = [domains EXCEPT !.there = TRUE] /\ l \in OpPcs \ {"idle", "ensure"}
      /\ UNCHANGED <<certs, conf, running, registry, fence, calm, proxySpent>>
  BY DEF Ensures, OpPcs, Tried
<1>3. domains' \in [there : BOOLEAN, routes : RouteState] /\ domains'.routes = domains.routes
  BY <1>2, ProxyFacts
<1>4. op'.pc = l /\ op'.who = op.who /\ op'.prev = op.prev
  BY <1>1, <1>2, ProxyFacts, OpToEffect
<1>5. Installed' /\ Reached'
  BY <1>2, <1>3, <1>4 DEF ProxyInv, Installed, Reached
<1>6. calm => Spares(running, op, certs) /\ Spares(conf.cfg, op, certs)
  BY <1>2 DEF ProxyInv, Spared
<1> QED BY <1>1, <1>2, <1>3, <1>5, <1>6, ProxyTypes, ProxyGoes DEF ProxyInv

\* What an operation installs on its way spares the others.
LEMMA BootFacts ==
    ASSUME ProxyInv, op.pc # "idle"
    PROVE  /\ BootConfig \in Config
           /\ BootConfig.mgmt = BootState.mgmt /\ BootConfig.dav = op.prev.dav
           /\ BootState \in RouteState /\ BootState.dav = op.prev.dav
           /\ \A e \in Editions : e # op.ed \/ ~ op.repair => BootState.mgmt[e] = op.prev.mgmt[e]
           /\ op.repair => op.kind # "apply" /\ BootState.mgmt[op.ed] = NoDomain
           /\ Candidate \in Domains \cup Editions
           /\ Spares(BootConfig, op, certs) /\ Spares(Plain(op.target), op, certs)
<1>1. Candidate \in Domains \cup Editions
  BY ProxyFacts DEF Candidate, ProxyInv, Aimed
<1>2. /\ BootState \in RouteState /\ BootState.dav = op.prev.dav
      /\ \A e \in Editions : e # op.ed \/ ~ op.repair => BootState.mgmt[e] = op.prev.mgmt[e]
      /\ op.repair => BootState.mgmt[op.ed] = NoDomain
  <2>1. CASE op.repair
    <3> DEFINE m == [op.prev.mgmt EXCEPT ![op.ed] = NoDomain]
    <3>1. BootState = [op.prev EXCEPT !.mgmt = m]
      BY <2>1 DEF BootState, WithoutRoute
    <3>2. m \in [Editions -> MaybeDomain] /\ m[op.ed] = NoDomain
          /\ \A e \in Editions : e # op.ed => m[e] = op.prev.mgmt[e]
      BY ProxyFacts DEF RouteState, MaybeDomain
    <3> HIDE DEF m
    <3> QED BY <2>1, <3>1, <3>2, ProxyFacts DEF RouteState
  <2>2. CASE ~ op.repair
    BY <2>2, ProxyFacts DEF BootState
  <2> QED BY <2>1, <2>2
<1>3. BootConfig \in Config /\ BootConfig.mgmt = BootState.mgmt /\ BootConfig.dav = op.prev.dav
  <2> DEFINE b == IF Candidate \in Names(BootState) THEN NoDomain ELSE Candidate
             c == Plain(BootState)
  <2>1. b \in MaybeDomain \cup Editions
    BY <1>1 DEF MaybeDomain
  <2>2. BootConfig = [c EXCEPT !.boot = b]
    BY DEF BootConfig, Bootstrap
  <2>3. c \in Config /\ c.mgmt = BootState.mgmt /\ c.dav = BootState.dav
    BY <1>2, PlainFacts
  <2> HIDE DEF b, c
  <2> QED BY <1>2, <2>1, <2>2, <2>3 DEF Config
<1>4. op.repair => op.kind # "apply"
  BY DEF ProxyInv, Aimed
<1>5. Spares(BootConfig, op, certs)
  BY <1>2, <1>3, <1>4 DEF Spares
<1>6. Spares(Plain(op.target), op, certs)
  BY ProxyFacts, PlainFacts DEF Spares, ProxyInv, Aimed
<1> QED BY <1>1, <1>2, <1>3, <1>4, <1>5, <1>6

LEMMA InstallsStep ==
    ASSUME ProxyInv, InstallsBoot \/ InstallsTarget
    PROVE  ProxyInv'
<1>1. PICK l \in {"bootServe", "targetServe"} :
        /\ OpTo(l) /\ conf' = [there |-> TRUE, cfg |-> IF l = "bootServe" THEN BootConfig ELSE Plain(op.target)]
        /\ op.pc = IF l = "bootServe" THEN "boot" ELSE "target"
  BY DEF InstallsBoot, InstallsTarget, Installs
<1>2. /\ UNCHANGED <<domains, certs, running, registry, fence, calm, proxySpent>>
      /\ op.pc \notin {"idle", "registry", "unfence"} /\ l \in OpPcs \ {"idle", "ensure"}
  BY <1>1 DEF InstallsBoot, InstallsTarget, Installs, OpPcs, Tried
<1>3. /\ conf'.there /\ conf'.cfg \in Config /\ conf' \in [there : BOOLEAN, cfg : Config]
      /\ l = "targetServe" => conf'.cfg = Plain(op.target)
      /\ Spares(conf'.cfg, op, certs)
  BY <1>1, <1>2, ProxyFacts, BootFacts, PlainFacts
<1>4. op'.pc = l /\ op'.who = op.who /\ op'.prev = op.prev /\ op'.target = op.target /\ op'.kind = op.kind
  BY <1>1, <1>2, ProxyFacts, OpToEffect
<1>5. Installed'
  BY <1>3 DEF Installed
<1>6. Reached'
  BY <1>1, <1>2, <1>3, <1>4 DEF ProxyInv, Reached
<1>7. calm => Spares(running, op, certs)
  BY <1>2 DEF ProxyInv, Spared
<1> QED BY <1>1, <1>2, <1>3, <1>5, <1>6, <1>7, ProxyTypes, ProxyGoes DEF ProxyInv

\* Nginx is told of the files, and stopped with the last route.
LEMMA ServedStep ==
    ASSUME ProxyInv, BootServed \/ TargetServed
    PROVE  ProxyInv'
<1>1. PICK l \in {"cert", "verify"} : OpTo(l) /\ op.pc = (IF l = "cert" THEN "bootServe" ELSE "targetServe")
                                      /\ running' = conf.cfg
  <2>1. CASE BootServed
    BY <2>1 DEF BootServed
  <2>2. CASE TargetServed
    <3>1. op.pc = "targetServe" /\ running' = IF HasRoutes(op.target) THEN conf.cfg ELSE Off
      BY <2>2 DEF TargetServed
    <3>2. conf.cfg = Plain(op.target)
      BY <3>1 DEF ProxyInv, Reached
    <3> QED BY <2>2, <3>1, <3>2, ProxyFacts, PlainFacts DEF TargetServed
  <2> QED BY <2>1, <2>2
<1>2. /\ UNCHANGED <<domains, certs, conf, registry, fence, calm, proxySpent>>
      /\ op.pc \notin {"idle", "registry", "unfence"} /\ l \in OpPcs \ {"idle", "ensure"}
  BY <1>1 DEF BootServed, TargetServed, OpPcs, Tried
<1>3. op'.pc = l /\ op'.who = op.who /\ op'.prev = op.prev /\ op'.target = op.target /\ op'.kind = op.kind
  BY <1>1, <1>2, ProxyFacts, OpToEffect
<1>4. Installed' /\ conf.there
  BY <1>1, <1>2 DEF ProxyInv, Installed
<1>5. Reached'
  BY <1>1, <1>2, <1>3 DEF ProxyInv, Reached
<1>6. calm => Spares(conf.cfg, op, certs)
  BY <1>2 DEF ProxyInv, Spared
<1> QED BY <1>1, <1>2, <1>4, <1>5, <1>6, ProxyFacts, ProxyTypes, ProxyGoes DEF ProxyInv

\* A new certificate is not one that another edition's route was waiting for.
LEMMA ObtainsStep ==
    ASSUME ProxyInv, Obtains
    PROVE  ProxyInv'
<1>1. /\ op.pc = "cert" /\ certs' = certs \cup {Candidate} /\ OpTo("target")
      /\ UNCHANGED <<domains, conf, running, registry, fence, calm, proxySpent>>
      /\ "target" \in OpPcs \ {"idle", "ensure"}
  BY DEF Obtains, OpPcs, Tried
<1>2. \A e \in Editions : \/ op.prev.mgmt[e] # Candidate \/ op.prev.mgmt[e] = NoDomain
                          \/ e = op.ed /\ op.kind # "apply"
  <2>1. CASE op.kind = "configure"
    BY <1>1, <2>1 DEF Candidate, ProxyInv, Aimed
  <2>2. CASE op.kind # "configure"
    <3>1. Candidate \in Editions /\ \A e \in Editions : op.prev.mgmt[e] \in Domains \cup {NoDomain}
      BY <2>2, ProxyFacts DEF Candidate, RouteState, MaybeDomain
    <3> QED BY <3>1, ProxyTypes
  <2> QED BY <2>1, <2>2
<1>3. calm => Spares(running, op, certs') /\ Spares(conf.cfg, op, certs')
  <2>1. \A e \in Editions : \/ op.prev.mgmt[e] \notin certs' \ certs \/ op.prev.mgmt[e] = NoDomain
                            \/ e = op.ed /\ op.kind # "apply"
    BY <1>1, <1>2
  <2>2. calm => Spares(running, op, certs) /\ Spares(conf.cfg, op, certs)
    BY <1>1 DEF ProxyInv, Spared
  <2> QED BY <2>1, <2>2, SparesMore
<1>4. certs' \subseteq Domains \cup Editions
  BY <1>1, BootFacts, ProxyTypes DEF ProxyInv
<1>5. op'.pc = "target" /\ op'.who = op.who /\ op'.prev = op.prev
  BY <1>1, ProxyFacts, OpToEffect
<1>6. Installed' /\ Reached'
  BY <1>1, <1>5 DEF ProxyInv, Installed, Reached
<1> QED BY <1>1, <1>3, <1>4, <1>6, ProxyTypes, ProxyGoes DEF ProxyInv

LEMMA OnwardStep ==
    ASSUME ProxyInv, Verifies \/ Registers \/ Fails
    PROVE  ProxyInv'
<1>1. PICK l \in {"commit", "unfence", "back"} :
        /\ OpTo(l)
        /\ l = "commit" => op.pc = "verify"
        /\ l = "unfence" => op.pc = "registry"
        /\ l = "back" => op.pc \in Tried
  BY DEF Verifies, Registers, Fails
<1>2. /\ UNCHANGED <<domains, certs, conf, running, fence, calm>>
      /\ op.pc # "idle" /\ l \in OpPcs \ {"idle", "ensure"}
  BY <1>1 DEF Verifies, Registers, Fails, OpPcs, Tried
<1>3. registry' \in [Editions -> MaybeDomain]
  <2>1. registry \in [Editions -> MaybeDomain] /\ op.target.mgmt[op.ed] \in MaybeDomain
    BY ProxyTypes, ProxyFacts DEF ProxyInv, RouteState
  <2>2. registry' = registry \/ registry' = [registry EXCEPT ![op.ed] = op.target.mgmt[op.ed]]
    BY DEF Verifies, Registers, Fails
  <2> QED BY <2>1, <2>2
<1>4. proxySpent' \in [faults : 0..MaxProxyFaults, losses : 0..MaxLosses]
  <2>1. proxySpent \in [faults : 0..MaxProxyFaults, losses : 0..MaxLosses]
    BY ProxyTypes DEF ProxyInv
  <2>2. \/ proxySpent' = proxySpent
        \/ /\ proxySpent.faults < MaxProxyFaults
           /\ proxySpent' = [proxySpent EXCEPT !.faults = proxySpent.faults + 1]
    BY DEF Verifies, Registers, Fails
  <2> QED BY <2>1, <2>2, ProxyAssumption
<1>5. op'.pc = l /\ op'.who = op.who /\ op'.prev = op.prev /\ op'.target = op.target /\ op'.kind = op.kind
  BY <1>1, <1>2, ProxyFacts, OpToEffect
<1>6. Installed'
  BY <1>1, <1>2, <1>5 DEF ProxyInv, Installed
<1>7. Reached'
  BY <1>1, <1>2, <1>5 DEF ProxyInv, Reached
<1>8. calm => Spares(running, op, certs) /\ Spares(conf.cfg, op, certs)
  BY <1>2 DEF ProxyInv, Spared
<1> QED BY <1>1, <1>2, <1>3, <1>4, <1>6, <1>7, <1>8, ProxyTypes, ProxyGoes DEF ProxyInv

\* What is recorded at the end is what was installed and Nginx has read.
LEMMA CommitsStep ==
    ASSUME ProxyInv, Commits \/ LowersFence
    PROVE  ProxyInv'
<1>1. /\ op.pc \in {"commit", "unfence"} /\ UNCHANGED <<certs, conf, running, registry, proxySpent>>
      /\ domains'.routes = op.target /\ domains' \in [there : BOOLEAN, routes : RouteState]
  <2>1. CASE Commits
    BY <2>1, ProxyFacts DEF Commits
  <2>2. CASE LowersFence
    <3>1. op.pc = "unfence" /\ UNCHANGED <<domains, certs, conf, running, registry, proxySpent>>
      BY <2>2 DEF LowersFence
    <3>2. domains.routes = op.target
      BY <3>1 DEF ProxyInv, Reached
    <3> QED BY <3>1, <3>2, ProxyFacts
  <2> QED BY <2>1, <2>2
<1>2. conf.there /\ conf.cfg = Plain(op.target) /\ running = conf.cfg
  BY <1>1 DEF ProxyInv, Installed, Reached
<1>3. CASE op' = NoOp /\ calm' = TRUE /\ fence' \in BOOLEAN
  <2>1. ProxyTypeOK'
    BY <1>1, <1>3, NoOpFacts, ProxyTypes DEF ProxyInv, ProxyTypeOK, Operation, OpPcs
  <2>2. Serves(conf.cfg, op.target, certs)
    BY <1>2, ProxyFacts, PlainFacts
  <2> QED BY <1>1, <1>2, <1>3, <2>1, <2>2, NoOpFacts, ProxyIdle
<1>4. CASE OpTo("registry") /\ fence' = TRUE /\ calm' = calm /\ op.pc = "commit"
  <2>1. "registry" \in OpPcs \ {"idle", "ensure"} /\ op.pc # "idle"
    BY <1>1 DEF OpPcs, Tried
  <2>2. op'.pc = "registry" /\ op'.target = op.target
    BY <1>4, <2>1, ProxyFacts, OpToEffect
  <2>3. Installed' /\ Reached'
    BY <1>1, <1>2, <1>4, <2>2 DEF Installed, Reached
  <2>4. calm => Spares(running, op, certs) /\ Spares(conf.cfg, op, certs)
    BY <2>1 DEF ProxyInv, Spared
  <2> QED BY <1>1, <1>4, <2>1, <2>3, <2>4, ProxyTypes, ProxyGoes DEF ProxyInv
<1>5. (op' = NoOp /\ calm' = TRUE /\ fence' \in BOOLEAN)
      \/ (OpTo("registry") /\ fence' = TRUE /\ calm' = calm /\ op.pc = "commit")
  BY ProxyTypes DEF Commits, LowersFence, OpEnds, ProxyInv
<1> QED BY <1>3, <1>4, <1>5

\* An operation that ends without a word leaves what it had not touched.
LEMMA QuitsStep ==
    ASSUME ProxyInv, EnsureFails \/ CutOff \/ BackRefused
    PROVE  ProxyInv'
<1>1. /\ op' = NoOp /\ UNCHANGED <<domains, certs, conf, running, registry, fence>>
      /\ ~ calm' \/ (op.pc = "ensure" /\ calm' = calm)
      /\ calm' \in BOOLEAN
  BY ProxyTypes DEF EnsureFails, CutOff, BackRefused, OpEnds, ProxyInv
<1>2. proxySpent' \in [faults : 0..MaxProxyFaults, losses : 0..MaxLosses]
  <2>1. proxySpent \in [faults : 0..MaxProxyFaults, losses : 0..MaxLosses]
    BY ProxyTypes DEF ProxyInv
  <2>2. \/ proxySpent' = proxySpent
        \/ /\ proxySpent.faults < MaxProxyFaults
           /\ proxySpent' = [proxySpent EXCEPT !.faults = proxySpent.faults + 1]
    BY DEF EnsureFails, CutOff, BackRefused
  <2> QED BY <2>1, <2>2, ProxyAssumption
<1>3. ProxyTypeOK'
  BY <1>1, <1>2, NoOpFacts, ProxyTypes DEF ProxyInv, ProxyTypeOK, Operation, OpPcs
<1> QED BY <1>1, <1>3, NoOpFacts, ProxyIdle DEF ProxyInv, Installed, Rested

\* The way back: the old routes, or the page a repair started from.
LEMMA BackFacts ==
    ASSUME ProxyInv, op.pc # "idle", Accepts(BackConfig)
    PROVE  /\ BackConfig \in Config /\ Spares(BackConfig, op, certs) /\ Serves(BackConfig, Fallback, certs)
           /\ ~ HasRoutes(Fallback) => BackConfig = Off
           /\ op.kind = "apply" => BackConfig = Plain(Fallback)
<1>1. Fallback \in RouteState /\ Fallback.mgmt = op.prev.mgmt
      /\ (\A e \in Editions : e # op.ed \/ op.kind # "apply" => Fallback.dav[e] = op.prev.dav[e])
      /\ (op.kind # "apply" => Fallback = op.prev)
  BY ProxyFacts, FallbackFacts
<1>2. CASE op.repair /\ ~ Accepts(Plain(op.prev))
  <2>1. BackConfig = BootConfig
    BY <1>2 DEF BackConfig
  <2>2. /\ BootConfig.mgmt = BootState.mgmt /\ BootConfig.dav = op.prev.dav /\ BootConfig \in Config
        /\ Spares(BootConfig, op, certs) /\ op.kind # "apply"
        /\ \A e \in Editions : e # op.ed => BootState.mgmt[e] = op.prev.mgmt[e]
        /\ BootState.mgmt[op.ed] = NoDomain
    BY <1>2, BootFacts
  <2>3. op.prev.mgmt[op.ed] \in Domains
    BY <1>2 DEF ProxyInv, Aimed
  <2>4. op.prev.mgmt[op.ed] \notin certs
    <3>1. PICK n \in Names(Plain(op.prev)) : n \notin certs
      BY <1>2 DEF Accepts
    <3>2. n \in Names(op.prev)
      BY <3>1, ProxyFacts, PlainFacts DEF Names, Served
    <3>3. n \notin Names(BootConfig)
      BY <2>1, <3>1 DEF Accepts
    <3>4. \A e \in Editions : op.prev.dav[e] # "none" => e \in Names(BootConfig)
      BY <2>2 DEF Names
    <3>5. ASSUME NEW e \in Editions, e # op.ed, op.prev.mgmt[e] # NoDomain
          PROVE  op.prev.mgmt[e] \in Names(BootConfig)
      BY <2>2, <3>5 DEF Names, Served
    <3>6. n \in Served(op.prev)
      BY <3>2, <3>3, <3>4 DEF Names
    <3>7. PICK e \in Editions : n = op.prev.mgmt[e] /\ n # NoDomain
      BY <3>6 DEF Served
    <3>8. e = op.ed
      BY <3>3, <3>5, <3>7
    <3> QED BY <3>1, <3>7, <3>8
  <2>5. Serves(BootConfig, op.prev, certs)
    BY <2>2, <2>4 DEF Serves
  <2>6. HasRoutes(op.prev)
    BY <2>3, ProxyFacts, ProxyTypes DEF HasRoutes, Names, Served
  <2> QED BY <1>1, <2>1, <2>2, <2>5, <2>6
<1>3. CASE ~ (op.repair /\ ~ Accepts(Plain(op.prev)))
  <2>1. BackConfig = Plain(Fallback)
    BY <1>3 DEF BackConfig
  <2>2. Spares(Plain(Fallback), op, certs)
    BY <1>1, PlainFacts DEF Spares
  <2> QED BY <1>1, <2>1, <2>2, PlainFacts
<1> QED BY <1>2, <1>3

LEMMA InstallsBackStep ==
    ASSUME ProxyInv, InstallsBack
    PROVE  ProxyInv'
<1>1. /\ op.pc = "back" /\ Accepts(BackConfig) /\ OpTo("backServe")
      /\ conf' = [there |-> TRUE, cfg |-> BackConfig]
      /\ UNCHANGED <<domains, certs, running, registry, fence, calm, proxySpent>>
      /\ "backServe" \in OpPcs \ {"idle", "ensure"}
  BY DEF InstallsBack, Installs, OpPcs
<1>2. /\ BackConfig \in Config /\ Spares(BackConfig, op, certs) /\ Serves(BackConfig, Fallback, certs)
      /\ ~ HasRoutes(Fallback) => BackConfig = Off
      /\ op.kind = "apply" => BackConfig = Plain(Fallback)
  BY <1>1, BackFacts
<1>3. op'.pc = "backServe" /\ op'.who = op.who /\ op'.prev = op.prev /\ op'.kind = op.kind /\ Fallback' = Fallback
  BY <1>1, ProxyFacts, OpToEffect
<1>4. Reached'
  BY <1>1, <1>2, <1>3 DEF ProxyInv, Reached
<1>5. Installed' /\ conf' \in [there : BOOLEAN, cfg : Config]
  BY <1>1, <1>2 DEF Installed
<1>6. calm => Spares(running, op, certs)
  BY <1>1 DEF ProxyInv, Spared
<1> QED BY <1>1, <1>2, <1>4, <1>5, <1>6, ProxyTypes, ProxyGoes DEF ProxyInv

LEMMA BackServedStep ==
    ASSUME ProxyInv, BackServed
    PROVE  ProxyInv'
<1>1. /\ op.pc = "backServe" /\ UNCHANGED <<domains, certs, conf, registry, fence, proxySpent>>
      /\ running' = IF HasRoutes(Fallback) THEN conf.cfg ELSE Off
  BY DEF BackServed
<1>2. /\ running' = conf.cfg /\ conf.there /\ Serves(conf.cfg, Fallback, certs)
      /\ op.kind = "apply" => conf.cfg = Plain(Fallback)
  BY <1>1 DEF ProxyInv, Reached, Installed
<1>3. CASE op.kind = "apply"
  <2>1. OpTo("backCommit") /\ calm' = calm /\ "backCommit" \in OpPcs \ {"idle", "ensure"}
    BY <1>3 DEF BackServed, OpPcs
  <2>2. op'.pc = "backCommit" /\ op'.who = op.who /\ op'.prev = op.prev /\ op'.kind = op.kind /\ Fallback' = Fallback
    BY <2>1, ProxyFacts, OpToEffect
  <2>3. Installed' /\ Reached'
    BY <1>1, <1>2, <1>3, <2>2 DEF ProxyInv, Installed, Reached
  <2>4. calm => Spares(conf.cfg, op, certs)
    BY <1>1 DEF ProxyInv, Spared
  <2> QED BY <1>1, <1>2, <2>1, <2>3, <2>4, ProxyFacts, ProxyTypes, ProxyGoes DEF ProxyInv
<1>4. CASE op.kind # "apply"
  <2>1. op' = NoOp /\ calm' = TRUE
    BY <1>4 DEF BackServed, OpEnds
  <2>2. ProxyTypeOK'
    BY <1>1, <1>2, <2>1, NoOpFacts, ProxyFacts, ProxyTypes DEF ProxyInv, ProxyTypeOK, Operation, OpPcs
  <2>3. ~ fence => Fallback = domains.routes
    BY <1>1, <1>4, ProxyFacts, FallbackFacts DEF ProxyInv, Reached, Aimed
  <2> QED BY <1>1, <1>2, <2>1, <2>2, <2>3, NoOpFacts, ProxyIdle
<1> QED BY <1>3, <1>4

LEMMA BackCommitsStep ==
    ASSUME ProxyInv, BackCommits
    PROVE  ProxyInv'
<1>1. /\ op.pc = "backCommit" /\ UNCHANGED <<certs, conf, running, registry, fence, proxySpent>>
      /\ domains' = [there |-> TRUE, routes |-> Fallback] /\ op' = NoOp /\ calm' = TRUE
  BY DEF BackCommits, OpEnds
<1>2. conf.there /\ conf.cfg = Plain(Fallback) /\ running = conf.cfg
  BY <1>1 DEF ProxyInv, Installed, Reached
<1>3. Fallback \in RouteState
  BY ProxyFacts, FallbackFacts
<1>4. domains' \in [there : BOOLEAN, routes : RouteState] /\ domains'.routes = Fallback
  BY <1>1, <1>3
<1>5. ProxyTypeOK'
  BY <1>1, <1>4, NoOpFacts, ProxyTypes DEF ProxyInv, ProxyTypeOK, Operation, OpPcs
<1>6. Serves(conf.cfg, Fallback, certs)
  BY <1>2, <1>3, PlainFacts
<1> QED BY <1>1, <1>2, <1>4, <1>5, <1>6, NoOpFacts, ProxyIdle

\* A certificate goes, or the host comes back with the installed files.
LEMMA OutsideStep ==
    ASSUME ProxyInv, HostRestarts \/ \E d \in Domains \cup Editions : Loses(d)
    PROVE  ProxyInv'
<1>1. UNCHANGED <<domains, conf, registry, fence, op, calm>>
  BY DEF HostRestarts, Loses
<1>2. CASE HostRestarts
  <2>1. running # Off /\ running' = conf.cfg /\ UNCHANGED <<certs, proxySpent>>
    BY <1>2 DEF HostRestarts
  <2>2. conf.there
    BY <2>1 DEF ProxyInv, Installed
  <2>3. ProxyTypeOK'
    BY <1>1, <2>1, ProxyFacts, ProxyTypes DEF ProxyInv, ProxyTypeOK
  <2>4. Aimed' /\ Installed' /\ Rested' /\ Spared'
    BY <1>1, <2>1, <2>2 DEF ProxyInv, Aimed, Installed, Rested, Spared
  <2>5. Fallback' = Fallback
    BY <1>1 DEF Fallback
  <2>6. Reached'
    BY <1>1, <2>1, <2>5 DEF ProxyInv, Reached
  <2> QED BY <2>3, <2>4, <2>6 DEF ProxyInv
<1>3. CASE \E d \in Domains \cup Editions : Loses(d)
  <2>1. PICK d \in Domains \cup Editions : Loses(d)
    BY <1>3
  <2>2. /\ certs' \subseteq certs /\ running' = running /\ proxySpent.losses < MaxLosses
        /\ proxySpent' = [proxySpent EXCEPT !.losses = proxySpent.losses + 1]
    BY <2>1 DEF Loses
  <2>3. proxySpent' \in [faults : 0..MaxProxyFaults, losses : 0..MaxLosses]
    BY <2>2, ProxyTypes, ProxyAssumption DEF ProxyInv
  <2>4. ProxyTypeOK'
    BY <1>1, <2>2, <2>3, ProxyTypes DEF ProxyInv, ProxyTypeOK
  <2>5. Fallback' = Fallback
    BY <1>1 DEF Fallback
  <2>6. \A c, s : Serves(c, s, certs) => Serves(c, s, certs')
    BY <2>2 DEF Serves
  <2>7. \A c : Spares(c, op, certs) => Spares(c, op, certs')
    BY <2>2 DEF Spares
  <2>8. Rested' /\ Spared'
    BY <1>1, <2>2, <2>6, <2>7 DEF ProxyInv, Rested, Spared
  <2>9. Aimed' /\ Installed'
    BY <1>1, <2>2 DEF ProxyInv, Aimed, Installed
  <2>10. Reached'
    BY <1>1, <2>2, <2>5, <2>6 DEF ProxyInv, Reached
  <2> QED BY <2>4, <2>8, <2>9, <2>10 DEF ProxyInv
<1> QED BY <1>2, <1>3

LEMMA ProxyStep == ProxyInv /\ [ProxyNext]_proxyVars => ProxyInv'
<1> SUFFICES ASSUME ProxyInv, [ProxyNext]_proxyVars PROVE ProxyInv'
  OBVIOUS
<1>1. CASE UNCHANGED proxyVars
  <2>1. ProxyTypeOK' /\ Aimed' /\ Installed'
    BY <1>1 DEF proxyVars, ProxyInv, ProxyTypeOK, Aimed, Installed
  <2>2. Rested' /\ Spared'
    BY <1>1 DEF proxyVars, ProxyInv, Rested, Spared
  <2>3. Fallback' = Fallback
    BY <1>1 DEF proxyVars, Fallback
  <2>4. Reached'
    BY <1>1, <2>3 DEF proxyVars, ProxyInv, Reached
  <2> QED BY <2>1, <2>2, <2>4 DEF ProxyInv
<1>2. CASE ProxyNext
  <2>1. ASSUME NEW e \in Editions,
               \/ \E who \in {"script", "compose"} : Removes(who, e) \/ \E d \in Domains : Configures(who, e, d)
               \/ \E v \in {"none", "off", "on"} : Applies(e, v)
        PROVE  ProxyInv'
    BY <2>1, StartsStep
  <2>2. CASE Ensures \/ EnsureFails \/ CutOff \/ BackRefused
    BY <2>2, EnsuresStep, QuitsStep
  <2>3. CASE InstallsBoot \/ InstallsTarget \/ InstallsBack
    BY <2>3, InstallsStep, InstallsBackStep
  <2>4. CASE BootServed \/ TargetServed \/ BackServed \/ Obtains
    BY <2>4, ServedStep, BackServedStep, ObtainsStep
  <2>5. CASE Verifies \/ Registers \/ Fails \/ Commits \/ LowersFence \/ BackCommits
    BY <2>5, OnwardStep, CommitsStep, BackCommitsStep
  <2>6. CASE HostRestarts \/ \E d \in Domains \cup Editions : Loses(d)
    BY <2>6, OutsideStep
  <2> QED BY <1>2, <2>1, <2>2, <2>3, <2>4, <2>5, <2>6 DEF ProxyNext
<1> QED BY <1>1, <1>2

\* The one configuration of all editions: files are installed before Nginx reads
\* them and before anything is recorded, and what an operation installs on its
\* way, there and back, differs from the record in the one route it works on
\* (manager.py, compose/https.py, apply_shared_state_locked).
THEOREM ProxyInvariant == ProxySpec => []ProxyInv
<1>1. ProxyInit => ProxyInv
  BY ProxyInitInv
<1> QED BY <1>1, ProxyStep, PTL DEF ProxySpec

\* A change to one edition's route, finished or failed, leaves every edition
\* served as recorded, and the others served meanwhile (manager.py).
THEOREM ProxyServed == ProxySpec => []RoutesServed
<1>1. ProxyInv => RoutesServed
  <2> SUFFICES ASSUME ProxyInv PROVE RoutesServed
    OBVIOUS
  <2>1. RuntimeMatches
    BY DEF ProxyInv, Rested, Serves, RuntimeMatches
  <2>2. OthersServed
    BY DEF ProxyInv, Spared, Spares, OthersServed
  <2> QED BY <2>1, <2>2 DEF RoutesServed
<1> QED BY <1>1, ProxyInvariant, PTL

\* apply_shared_state_locked: when a change of an external route fails, the route
\* is closed, served and on record, before the add-on hears of it.
THEOREM ProxyNoReopen == ProxySpec => NoReopen
<1>1. ASSUME ProxyInv, ProxyNext,
             op.kind = "apply", op.pc \in {"back", "backServe", "backCommit"}, op'.pc = "idle", calm'
      PROVE  running'.dav[op.ed] # "on" /\ domains'.routes.dav[op.ed] # "on"
  <2>1. BackCommits
    <3>1. op.pc # "idle" /\ op' # op
      BY <1>1
    <3>2. ~ BackServed /\ ~ InstallsBack
      <4>1. ~ OpTo("backCommit") /\ ~ OpTo("backServe")
        BY <1>1, ProxyFacts DEF OpTo, Operation
      <4> QED BY <1>1, <4>1 DEF BackServed, InstallsBack, Installs
    <3>3. ~ CutOff /\ ~ BackRefused
      BY <1>1 DEF CutOff, BackRefused, OpEnds
    <3> QED BY <1>1, <3>1, <3>2, <3>3 DEF ProxyNext, Removes, Configures, Applies, Ensures, EnsureFails,
          InstallsBoot, InstallsTarget, Installs, BootServed, Obtains, TargetServed, Verifies, Commits, Registers,
          LowersFence, HostRestarts, Fails, Tried, Loses
  <2>2. domains' = [there |-> TRUE, routes |-> Fallback] /\ running' = running /\ op.pc = "backCommit"
    BY <2>1 DEF BackCommits
  <2>3. running = Plain(Fallback)
    BY <1>1, <2>2 DEF ProxyInv, Reached
  <2> QED BY <1>1, <2>2, <2>3, ProxyFacts, FallbackFacts, PlainFacts
<1>2. ProxyInv /\ [ProxyNext]_proxyVars =>
        [op.kind = "apply" /\ op.pc \in {"back", "backServe", "backCommit"} /\ op'.pc = "idle" /\ calm'
          => running'.dav[op.ed] # "on" /\ domains'.routes.dav[op.ed] # "on"]_proxyVars
  BY <1>1 DEF proxyVars
<1> QED BY <1>2, ProxyInvariant, PTL DEF ProxySpec, NoReopen


-------------------------------------------------------------------------------
(* The tools together *)

\* A step of the composition is a step or a stutter of each tool's machine.
LEMMA DeployRefines ==
    DeploySpec => SiteSpec /\ ProxySpec /\ WebdavSpec /\ InstanceSpec /\ RemovalSpec
<1>1. DeployInit => SiteInit /\ ProxyInit /\ WebdavInit /\ InstanceInit /\ RemovalInit
  BY DEF DeployInit
<1>2. [DeployNext]_deployVars =>
        [SiteNext]_siteVars /\ [ProxyNext]_proxyVars /\ [WebdavNext]_webdavVars
          /\ [InstanceNext]_instanceVars /\ [RemovalNext]_removalVars
  BY DEF DeployNext, deployVars
<1> QED BY <1>1, <1>2, PTL DEF DeploySpec, SiteSpec, ProxySpec, WebdavSpec, InstanceSpec, RemovalSpec

\* Whatever the tools do to records, routes, accounts, containers and locks, each
\* variable keeps to its type (the records the tools write and read back), for any
\* sites, editions, accounts, bundles and bounds.
THEOREM DeployTypes == DeploySpec => []DeployTypeOK
<1>1. SiteTypeOK /\ ProxyInv /\ AccessInv /\ InstanceInv /\ RemovalInv => DeployTypeOK
  BY DEF ProxyInv, AccessInv, InstanceInv, RemovalInv, DeployTypeOK
<1> QED BY <1>1, DeployRefines, SiteTypes, ProxyInvariant, AccessInvariant, InstanceInvariant, RemovalInvariant, PTL
===============================================================================
