------------------------------ MODULE HostRemoval ------------------------------
(***************************************************************************)
(* What an installation and a removal of the editions share on one host:   *)
(* the management command with its code, the shared proxy, and the locks.  *)
(* Each tool first makes a plan without a lock and shows it; it then takes *)
(* its locks, none of which waits, looks again and acts.  A tool may fail  *)
(* at any step, be refused, or be killed.                                  *)
(*                                                                         *)
(* An installation comes from the menu, so it brings the command.  The     *)
(* route transaction is one step here: SharedProxy has it in detail.       *)
(***************************************************************************)
EXTENDS FiniteSets, Naturals

CONSTANTS
    Products,   \* editions
    Bundles,    \* versions of the management code
    Runs,       \* tools at work
    MaxRuns,    \* bound: tools started
    MaxKills    \* bound: tools killed

ASSUME HostAssumption == MaxRuns \in Nat /\ MaxKills \in Nat

Containers == {"entry", "bot", "gateway"}
Core == {"bot", "gateway"}
HostLocks == {"lifecycle", "proxy"} \cup Products

VARIABLES
    inst,       \* per edition: containers, installation and LAN directory, backups
    routed,      \* editions with a committed HTTPS route
    shared,     \* the containers and the files of the shared proxy
    mgr,        \* the command and the code behind it
    held,       \* who holds which lock
    doing,        \* what each tool is doing
    hostSpent   \* tools started and killed

removalVars == <<inst, routed, shared, mgr, held, doing, hostSpent>>

NoPlan == [gone |-> [p \in Products |-> {}], route |-> {}, drop |-> FALSE, backup |-> {}]
NoTask == [pc |-> "idle", ed |-> {}, bundle |-> {}, lan |-> FALSE, fresh |-> FALSE,
           purge |-> FALSE, plan |-> NoPlan]

InstallSteps == {"asked", "candidate", "publish", "switch", "edition", "record", "base", "start", "open"}
UninstallSteps == {"shown", "routes", "forget", "containers", "landirs", "trees", "certs", "backups"}
CleanupSteps == {"cleanup", "unlink", "tear", "rmdir"}

\* `command` holds at most one bundle; `torn`: bundles half deleted;
\* `litter`: a candidate directory beside the bundles.
RemovalTypeOK ==
    /\ inst \in [Products -> [ctr : SUBSET Containers, dir : BOOLEAN, lan : BOOLEAN, backup : BOOLEAN]]
    /\ routed \subseteq Products
    /\ shared \in [ctr : {"none", "stopped", "up"}, files : BOOLEAN]
    /\ mgr \in [command : SUBSET Bundles, whole : SUBSET Bundles, torn : SUBSET Bundles,
                litter : BOOLEAN]
    /\ held \in [HostLocks -> SUBSET Runs]
    /\ doing \in [Runs -> [pc : {"idle"} \cup InstallSteps \cup UninstallSteps \cup CleanupSteps,
                         ed : SUBSET Products, bundle : SUBSET Bundles, lan : BOOLEAN,
                         fresh : BOOLEAN, purge : BOOLEAN,
                         plan : [gone : [Products -> SUBSET Containers], route : SUBSET Products,
                                 drop : BOOLEAN, backup : SUBSET Products]]]
    /\ hostSpent \in [runs : 0..MaxRuns, kills : 0..MaxKills]

\* Some editions are installed, with their routes, by an earlier run.
RemovalInit ==
    \E old \in SUBSET Products, b \in SUBSET Bundles :
        /\ Cardinality(b) = IF old = {} THEN 0 ELSE 1
        /\ inst = [p \in Products |-> [ctr |-> IF p \in old THEN Core ELSE {}, dir |-> p \in old,
                                       lan |-> FALSE, backup |-> FALSE]]
        /\ routed = old
        /\ shared = [ctr |-> IF old = {} THEN "none" ELSE "up", files |-> old # {}]
        /\ mgr = [command |-> b, whole |-> b, torn |-> {}, litter |-> FALSE]
        /\ held = [l \in HostLocks |-> {}] /\ doing = [r \in Runs |-> NoTask]
        /\ hostSpent = [runs |-> 0, kills |-> 0]

-------------------------------------------------------------------------------
IsAt(r, l) == doing[r].pc = l
To(r, l) == doing' = [doing EXCEPT ![r].pc = l]

\* The locks are not waited for; the end of the process frees them.
Unlocked(ls) == \A l \in ls : held[l] = {}
Takes(r, ls) == held' = [l \in HostLocks |-> IF l \in ls THEN {r} ELSE held[l]]
Releases(r) == held' = [l \in HostLocks |-> held[l] \ {r}]
Leave(r) == doing' = [doing EXCEPT ![r] = NoTask] /\ Releases(r)

Begins(r, task) ==
    /\ IsAt(r, "idle") /\ hostSpent.runs < MaxRuns
    /\ hostSpent' = [hostSpent EXCEPT !.runs = @ + 1]
    /\ doing' = [doing EXCEPT ![r] = task]

\* discover: both containers, or none of them and no residue.
Complete(p) == Core \subseteq inst[p].ctr
Missing(p) == inst[p].ctr \cap Core = {} /\ ~ inst[p].dir

\* check_destination
Destination == ~ mgr.litter /\ mgr.command \subseteq mgr.whole

-------------------------------------------------------------------------------
(* Installation, or the repair of an entrance *)

PlanInstall(r, p, b, lan) ==
    /\ Complete(p) \/ Missing(p)
    /\ lan => p \notin routed /\ (Complete(p) => inst[p].lan)
    /\ Destination
    /\ Begins(r, [NoTask EXCEPT !.pc = "asked", !.ed = {p}, !.bundle = {b}, !.lan = lan,
                                 !.fresh = Missing(p)])
    /\ UNCHANGED <<inst, routed, shared, mgr, held>>

LocksLifecycle(r) ==
    /\ IsAt(r, "asked") /\ Unlocked({"lifecycle"}) /\ Destination
    /\ Takes(r, {"lifecycle"})
    /\ To(r, IF doing[r].bundle \subseteq mgr.whole \cup mgr.torn THEN "switch" ELSE "candidate")
    /\ UNCHANGED <<inst, routed, shared, mgr, hostSpent>>

WritesCandidate(r) ==
    /\ IsAt(r, "candidate")
    /\ mgr' = [mgr EXCEPT !.litter = TRUE]
    /\ To(r, "publish")
    /\ UNCHANGED <<inst, routed, shared, held, hostSpent>>

\* The candidate is verified before it gets its name.
PublishesBundle(r) ==
    /\ IsAt(r, "publish")
    /\ mgr' = [mgr EXCEPT !.whole = @ \cup doing[r].bundle]
    /\ To(r, "switch")
    /\ UNCHANGED <<inst, routed, shared, held, hostSpent>>

\* The bundle is verified once more, then the command replaced by a rename.
SwitchesCommand(r) ==
    /\ IsAt(r, "switch") /\ doing[r].bundle \subseteq mgr.whole
    /\ mgr' = [mgr EXCEPT !.litter = FALSE, !.command = doing[r].bundle]
    /\ To(r, "edition")
    /\ UNCHANGED <<inst, routed, shared, held, hostSpent>>

\* The instance is discovered once more under the edition lock.
LocksEdition(r, p) ==
    /\ IsAt(r, "edition") /\ Unlocked({p})
    /\ IF doing[r].fresh THEN Missing(p) ELSE Complete(p)
    /\ doing[r].lan => p \notin routed
    /\ Takes(r, {p})
    /\ To(r, IF doing[r].lan THEN "record" ELSE IF doing[r].fresh THEN "base" ELSE "open")
    /\ UNCHANGED <<inst, routed, shared, mgr, hostSpent>>

\* save_state: the intent is recorded before the base installation.
RecordsLan(r, p) ==
    /\ IsAt(r, "record")
    /\ inst' = [inst EXCEPT ![p].lan = TRUE]
    /\ To(r, IF doing[r].fresh THEN "base" ELSE "open")
    /\ UNCHANGED <<routed, shared, mgr, held, hostSpent>>

InstallsFiles(r, p) ==
    /\ IsAt(r, "base")
    /\ inst' = [inst EXCEPT ![p].dir = TRUE]
    /\ To(r, "start")
    /\ UNCHANGED <<routed, shared, mgr, held, hostSpent>>

StartsCore(r, p) ==
    /\ IsAt(r, "start")
    /\ inst' = [inst EXCEPT ![p].ctr = @ \cup Core]
    /\ To(r, "open")
    /\ UNCHANGED <<routed, shared, mgr, held, hostSpent>>

OpensLan(r, p) ==
    /\ IsAt(r, "open") /\ doing[r].lan
    /\ inst' = [inst EXCEPT ![p].ctr = @ \cup {"entry"}]
    /\ Leave(r)
    /\ UNCHANGED <<routed, shared, mgr, hostSpent>>

\* configure(), inside its own hold of the proxy lock.
OpensRoute(r, p) ==
    /\ IsAt(r, "open") /\ ~ doing[r].lan /\ Unlocked({"proxy"})
    /\ routed' = routed \cup {p} /\ shared' = [ctr |-> "up", files |-> TRUE]
    /\ Leave(r)
    /\ UNCHANGED <<inst, mgr, hostSpent>>

InstallStep(r) ==
    \/ LocksLifecycle(r) \/ WritesCandidate(r) \/ PublishesBundle(r) \/ SwitchesCommand(r)
    \/ \E p \in doing[r].ed :
          LocksEdition(r, p) \/ RecordsLan(r, p) \/ InstallsFiles(r, p) \/ StartsCore(r, p)
          \/ OpensLan(r, p) \/ OpensRoute(r, p)

-------------------------------------------------------------------------------
(* Removal *)

\* other_edition_present
OthersPresent(ed) ==
    \E p \in Products \ ed : inst[p].ctr \cap Core # {} \/ inst[p].dir \/ inst[p].lan

\* build_plan
PlanFor(ed, purge) ==
    [gone |-> [p \in Products |-> IF p \in ed THEN inst[p].ctr ELSE {}],
     route |-> routed,
     drop |-> routed \subseteq ed,
     backup |-> IF purge THEN {p \in ed : inst[p].backup} ELSE {}]

PlanUninstall(r, ed, purge) ==
    /\ Begins(r, [NoTask EXCEPT !.pc = "shown", !.ed = ed, !.purge = purge,
                                 !.plan = PlanFor(ed, purge)])
    /\ UNCHANGED <<inst, routed, shared, mgr, held>>

\* Mutant: the plan that was shown is carried out as it is.
AsShown(r) == TRUE

StillSo(r) == doing[r].plan = PlanFor(doing[r].ed, doing[r].purge)

\* Several routes go at once when none remains, else one by one.
LocksAll(r) ==
    /\ IsAt(r, "shown") /\ Unlocked(doing[r].ed \cup {"proxy"}) /\ StillSo(r)
    /\ Takes(r, doing[r].ed \cup {"proxy"})
    /\ To(r, "routes")
    /\ UNCHANGED <<inst, routed, shared, mgr, hostSpent>>

AllAtOnce(r) == Cardinality(doing[r].plan.route) > 1 /\ doing[r].plan.drop

StopsShared(r) ==
    /\ IsAt(r, "routes") /\ AllAtOnce(r)
    /\ shared' = [shared EXCEPT !.ctr = "stopped"]
    /\ To(r, "forget")
    /\ UNCHANGED <<inst, routed, mgr, held, hostSpent>>

ForgetsRoutes(r) ==
    /\ IsAt(r, "forget")
    /\ routed' = {}
    /\ To(r, "containers")
    /\ UNCHANGED <<inst, shared, mgr, held, hostSpent>>

\* The routes as they were are activated again.
ForgetFails(r) ==
    /\ IsAt(r, "forget")
    /\ shared' = [shared EXCEPT !.ctr = "up"]
    /\ Leave(r)
    /\ UNCHANGED <<inst, routed, mgr, hostSpent>>

RemovesRoute(r, p) ==
    /\ IsAt(r, "routes") /\ ~ AllAtOnce(r) /\ p \in routed
    /\ routed' = routed \ {p}
    /\ UNCHANGED <<inst, shared, mgr, held, doing, hostSpent>>

RoutesGone(r) ==
    /\ IsAt(r, "routes") /\ ~ AllAtOnce(r) /\ doing[r].ed \cap routed = {}
    /\ To(r, "containers")
    /\ UNCHANGED <<inst, routed, shared, mgr, held, hostSpent>>

\* Entry, Bot, gateway: a container is stopped and removed by its id.
RemovesContainer(r, p, c) ==
    /\ IsAt(r, "containers") /\ c \in doing[r].plan.gone[p] \cap inst[p].ctr
    /\ c = "gateway" => "bot" \notin inst[p].ctr
    /\ c # "entry" => "entry" \notin inst[p].ctr
    /\ inst' = [inst EXCEPT ![p].ctr = @ \ {c}]
    /\ UNCHANGED <<routed, shared, mgr, held, doing, hostSpent>>

\* The proxy's containers are the last ones.
RemovesShared(r) ==
    /\ IsAt(r, "containers") /\ \A p \in doing[r].ed : doing[r].plan.gone[p] \cap inst[p].ctr = {}
    /\ shared' = IF doing[r].plan.drop THEN [shared EXCEPT !.ctr = "none"] ELSE shared
    /\ To(r, "landirs")
    /\ UNCHANGED <<inst, routed, mgr, held, hostSpent>>

RemovesLanDirs(r) ==
    /\ IsAt(r, "landirs")
    /\ inst' = [p \in Products |-> [inst[p] EXCEPT !.lan = @ /\ p \notin doing[r].ed]]
    /\ IF doing[r].purge THEN To(r, "trees") /\ UNCHANGED held ELSE Leave(r)
    /\ UNCHANGED <<routed, shared, mgr, hostSpent>>

\* Backups taken since the plan stop the deletion of data.
RemovesTree(r, p) ==
    /\ IsAt(r, "trees") /\ \A q \in doing[r].ed : inst[q].backup <=> q \in doing[r].plan.backup
    /\ inst[p].dir
    /\ inst' = [inst EXCEPT ![p].dir = FALSE]
    /\ UNCHANGED <<routed, shared, mgr, held, doing, hostSpent>>

TreesGone(r) ==
    /\ IsAt(r, "trees") /\ \A p \in doing[r].ed : ~ inst[p].dir
    /\ To(r, "certs")
    /\ UNCHANGED <<inst, routed, shared, mgr, held, hostSpent>>

\* Whether another edition is there is looked up once more.
RemovesCertificates(r) ==
    /\ IsAt(r, "certs")
    /\ shared' = IF doing[r].plan.drop /\ ~ OthersPresent(doing[r].ed)
                 THEN [shared EXCEPT !.files = FALSE] ELSE shared
    /\ To(r, "backups")
    /\ UNCHANGED <<inst, routed, mgr, held, hostSpent>>

\* The end of execute(); its locks are released before the clean-up.
RemovesBackups(r) ==
    /\ IsAt(r, "backups")
    /\ inst' = [p \in Products |-> [inst[p] EXCEPT !.backup = @ /\ p \notin doing[r].ed]]
    /\ To(r, "cleanup") /\ Releases(r)
    /\ UNCHANGED <<routed, shared, mgr, hostSpent>>

UninstallStep(r) ==
    \/ LocksAll(r) \/ StopsShared(r) \/ ForgetsRoutes(r) \/ ForgetFails(r) \/ RoutesGone(r)
    \/ RemovesShared(r) \/ RemovesLanDirs(r) \/ TreesGone(r) \/ RemovesCertificates(r)
    \/ RemovesBackups(r)
    \/ \E p \in doing[r].ed :
          \/ RemovesRoute(r, p) \/ RemovesTree(r, p)
          \/ \E c \in Containers : RemovesContainer(r, p, c)

-------------------------------------------------------------------------------
(* cleanup_manager, after the last edition *)

\* manager_in_use
InUse ==
    \/ routed # {} \/ shared.ctr # "none"
    \/ \E p \in Products : inst[p].ctr # {} \/ inst[p].dir \/ inst[p].lan \/ inst[p].backup

\* Mutant: an installation under way is kept out by the edition locks alone.
EditionsOnly == Products \cup {"proxy"}

CleanupLocks == Products \cup {"proxy", "lifecycle"}

\* Everything is verified before the first removal.
LocksCleanup(r) ==
    /\ IsAt(r, "cleanup") /\ mgr.command \cup mgr.whole \cup mgr.torn # {}
    /\ Unlocked(CleanupLocks) /\ ~ InUse /\ Destination /\ mgr.torn = {}
    /\ Takes(r, CleanupLocks)
    /\ To(r, "unlink")
    /\ UNCHANGED <<inst, routed, shared, mgr, hostSpent>>

UnlinksCommand(r) ==
    /\ IsAt(r, "unlink")
    /\ mgr' = [mgr EXCEPT !.command = {}]
    /\ To(r, "tear")
    /\ UNCHANGED <<inst, routed, shared, held, hostSpent>>

UnlinksFiles(r) ==
    /\ IsAt(r, "tear")
    /\ mgr' = [mgr EXCEPT !.whole = {}, !.torn = mgr.whole]
    /\ To(r, "rmdir")
    /\ UNCHANGED <<inst, routed, shared, held, hostSpent>>

RemovesRoot(r) ==
    /\ IsAt(r, "rmdir")
    /\ mgr' = [mgr EXCEPT !.torn = {}]
    /\ Leave(r)
    /\ UNCHANGED <<inst, routed, shared, hostSpent>>

CleanupStep(r) == LocksCleanup(r) \/ UnlinksCommand(r) \/ UnlinksFiles(r) \/ RemovesRoot(r)

-------------------------------------------------------------------------------
\* An error, a refusal, a lock that is taken: the candidate directory goes,
\* the rest stays as it is.
ToolStops(r) ==
    /\ doing[r].pc \notin {"idle", "forget"}
    /\ mgr' = IF doing[r].pc \in {"publish", "switch"} THEN [mgr EXCEPT !.litter = FALSE] ELSE mgr
    /\ Leave(r)
    /\ UNCHANGED <<inst, routed, shared, hostSpent>>

ToolKilled(r) ==
    /\ ~ IsAt(r, "idle") /\ hostSpent.kills < MaxKills
    /\ hostSpent' = [hostSpent EXCEPT !.kills = @ + 1]
    /\ Leave(r)
    /\ UNCHANGED <<inst, routed, shared, mgr>>

\* The instance backup, from the menu and under the edition lock.
TakesBackup(p) ==
    /\ Unlocked({p}) /\ Complete(p) /\ ~ inst[p].backup
    /\ inst' = [inst EXCEPT ![p].backup = TRUE]
    /\ UNCHANGED <<routed, shared, mgr, held, doing, hostSpent>>

RemovalNext ==
    \/ \E r \in Runs :
          \/ InstallStep(r) \/ UninstallStep(r) \/ CleanupStep(r) \/ ToolStops(r) \/ ToolKilled(r)
          \/ \E p \in Products, b \in Bundles, lan \in BOOLEAN : PlanInstall(r, p, b, lan)
          \/ \E ed \in SUBSET Products \ {{}}, purge \in BOOLEAN : PlanUninstall(r, ed, purge)
    \/ \E p \in Products : TakesBackup(p)

RemovalSpec == RemovalInit /\ [][RemovalNext]_removalVars

-------------------------------------------------------------------------------
(* Properties *)

\* What another edition uses is left alone, whatever was true when the plan was shown: the shared
\* proxy's container and certificates while a route is committed, and the command, which leads to
\* complete code at every moment, as long as an edition installed from the menu is there.
UsedIsKept ==
    /\ routed # {} => shared.ctr # "none" /\ shared.files
    /\ mgr.command \subseteq mgr.whole
    /\ \A p \in Products : inst[p].dir \/ inst[p].ctr # {} => mgr.command # {}

================================================================================
