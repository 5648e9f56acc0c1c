---------------------------- MODULE InstanceUpgrade ----------------------------
(***************************************************************************)
(* One installed edition on the host: the upgrade script with its roll-    *)
(* back, the instance snapshot, and people who start and stop containers.  *)
(* Upgrade and snapshot hold the edition lock; people do not.              *)
(*                                                                         *)
(* A step of the tool may fail, and the tool may be killed between any two *)
(* steps.  The candidate's own checks run before Begin and change nothing. *)
(* Only OpenList stops its gateway for a state archive; CloudDrive2 skips  *)
(* those two steps.                                                        *)
(***************************************************************************)
EXTENDS Naturals

VARIABLES
    files,      \* program files of the installation directory
    tag,        \* what the image tag of the Bot refers to
    bot,        \* the Bot container and the program in it
    gw,         \* the gateway container
    db,         \* schema of the database
    busy,       \* the database holds tasks in an active state
    run,        \* the operation that holds the edition lock
    ended,      \* how the last operation ended
    opLog,    \* the last operation-*.jsonl of the snapshots
    archive     \* the last snapshot archive

instanceVars == <<files, tag, bot, gw, db, busy, run, ended, opLog, archive>>

Progs == {"old", "new"}
Parts == {"bot", "gw"}

UpgradeSteps == {"stop", "copy", "gwstop", "gwtar", "remove", "install", "gwup", "build",
                 "botup", "health"}
RollbackSteps == {"images", "rmbot", "clear", "untar", "database", "gwback", "botback", "recheck"}
SnapshotSteps == {"stopbot", "stopgw", "quiet", "copying", "pack"}
RestoreSteps == {"regw", "rebot", "close"}

\* copy: the validated database copy.  found, stopped: running and stopped
\* containers of a snapshot.  same: containers nobody has replaced since.
\* touched: somebody else has acted since the operation began.
NoRun == [pc |-> "idle", copy |-> "none", found |-> {}, stopped |-> {}, same |-> Parts,
          failed |-> {}, copied |-> FALSE, done |-> FALSE, touched |-> FALSE]
NoArchive == [quiet |-> TRUE, idle |-> TRUE, touched |-> TRUE]

InstanceTypeOK ==
    /\ files \in Progs \cup {"none"} /\ tag \in Progs /\ db \in Progs /\ busy \in BOOLEAN
    /\ bot \in [st : {"absent", "stopped", "up"}, prog : Progs] /\ gw \in {"stopped", "up"}
    /\ run \in [pc : {"idle"} \cup UpgradeSteps \cup RollbackSteps \cup SnapshotSteps \cup RestoreSteps,
                copy : Progs \cup {"none"}, found : SUBSET Parts, stopped : SUBSET Parts,
                same : SUBSET Parts, failed : SUBSET Parts, copied : BOOLEAN, done : BOOLEAN,
                touched : BOOLEAN]
    /\ ended \in {"none", "upgraded", "restored", "cut", "completed", "failed", "review"}
    /\ opLog \in {"none", "open", "completed", "failed", "review"}
    /\ archive \in [quiet : BOOLEAN, idle : BOOLEAN, touched : BOOLEAN]

InstanceInit ==
    /\ files = "old" /\ tag = "old" /\ db = "old" /\ busy = FALSE
    /\ bot = [st |-> "up", prog |-> "old"] /\ gw = "up"
    /\ run = NoRun /\ ended = "none" /\ opLog = "none" /\ archive = NoArchive

-------------------------------------------------------------------------------
Doing(l) == run.pc = l
Go(l) == run' = [run EXCEPT !.pc = l]

\* A Bot that starts migrates the database; it refuses a newer one.
Migrated(prog) == IF prog = "new" THEN "new" ELSE db
Starts(prog) ==
    /\ bot' = [st |-> IF prog = "old" /\ db = "new" THEN "stopped" ELSE "up", prog |-> prog]
    /\ db' = Migrated(prog)
Stopped == IF bot.st = "up" THEN [bot EXCEPT !.st = "stopped"] ELSE bot

(* The upgrade.  discover() wants both containers, and a running Bot whose *)
(* code is the one on disk.  From here on a failure goes to the roll-back. *)

BeginUpgrade ==
    /\ Doing("idle") /\ files = "old" /\ bot.st # "absent"
    /\ bot.st = "up" => bot.prog = files
    /\ run' = [NoRun EXCEPT !.pc = "stop"] /\ ended' = "none"
    /\ UNCHANGED <<files, tag, bot, gw, db, busy, opLog, archive>>

UpgradeStopsBot ==
    /\ Doing("stop")
    /\ bot' = Stopped /\ Go("copy")
    /\ UNCHANGED <<files, tag, gw, db, busy, ended, opLog, archive>>

CopyDatabase ==
    /\ Doing("copy")
    /\ run' = [run EXCEPT !.copy = db, !.pc = "gwstop"]
    /\ UNCHANGED <<files, tag, bot, gw, db, busy, ended, opLog, archive>>

UpgradeStopsGateway ==
    /\ Doing("gwstop")
    /\ gw' = "stopped" /\ Go("gwtar")
    /\ UNCHANGED <<files, tag, bot, db, busy, ended, opLog, archive>>

GatewayArchived ==
    /\ Doing("gwtar")
    /\ gw' = "up" /\ Go("remove")
    /\ UNCHANGED <<files, tag, bot, db, busy, ended, opLog, archive>>

RemoveProgram ==
    /\ Doing("remove")
    /\ files' = "none" /\ Go("install")
    /\ UNCHANGED <<tag, bot, gw, db, busy, ended, opLog, archive>>

InstallProgram ==
    /\ Doing("install")
    /\ files' = "new" /\ Go("gwup")
    /\ UNCHANGED <<tag, bot, gw, db, busy, ended, opLog, archive>>

GatewayUp ==
    /\ Doing("gwup")
    /\ gw' = "up" /\ Go("build")
    /\ UNCHANGED <<files, tag, bot, db, busy, ended, opLog, archive>>

BuildImage ==
    /\ Doing("build")
    /\ tag' = files /\ Go("botup")
    /\ UNCHANGED <<files, bot, gw, db, busy, ended, opLog, archive>>

BotUp ==
    /\ Doing("botup")
    /\ Starts(tag) /\ Go("health")
    /\ UNCHANGED <<files, tag, gw, busy, ended, opLog, archive>>

Healthy ==
    /\ Doing("health") /\ bot.st = "up" /\ gw = "up" /\ bot.prog = files
    /\ run' = NoRun /\ ended' = IF run.touched THEN "none" ELSE "upgraded"
    /\ UNCHANGED <<files, tag, bot, gw, db, busy, opLog, archive>>

UpgradeFails ==
    /\ run.pc \in UpgradeSteps
    /\ Go("images")
    /\ UNCHANGED <<files, tag, bot, gw, db, busy, ended, opLog, archive>>

(* rollback_install *)

\* Mutant: the tag is left on the new image.
ImageLeft == tag

OldImage == "old"

ImagesBack ==
    /\ Doing("images")
    /\ tag' = OldImage /\ Go("rmbot")
    /\ UNCHANGED <<files, bot, gw, db, busy, ended, opLog, archive>>

\* `docker compose rm` works only where there is a Compose file.
RemoveBot ==
    /\ Doing("rmbot")
    /\ bot' = IF files = "none" THEN bot ELSE [bot EXCEPT !.st = "absent"]
    /\ Go("clear")
    /\ UNCHANGED <<files, tag, gw, db, busy, ended, opLog, archive>>

ClearProgram ==
    /\ Doing("clear")
    /\ files' = "none" /\ Go("untar")
    /\ UNCHANGED <<tag, bot, gw, db, busy, ended, opLog, archive>>

Untar ==
    /\ Doing("untar")
    /\ files' = "old" /\ Go("database")
    /\ UNCHANGED <<tag, bot, gw, db, busy, ended, opLog, archive>>

CopiedBack == IF run.copy = "none" THEN db ELSE run.copy

DatabaseBack ==
    /\ Doing("database")
    /\ db' = CopiedBack /\ Go("gwback")
    /\ UNCHANGED <<files, tag, bot, gw, busy, ended, opLog, archive>>

GatewayBack ==
    /\ Doing("gwback")
    /\ gw' = "up" /\ Go("botback")
    /\ UNCHANGED <<files, tag, bot, db, busy, ended, opLog, archive>>

BotBack ==
    /\ Doing("botback")
    /\ Starts(tag) /\ Go("recheck")
    /\ UNCHANGED <<files, tag, gw, busy, ended, opLog, archive>>

RolledBack ==
    /\ Doing("recheck") /\ bot.st = "up"
    /\ run' = NoRun /\ ended' = IF run.touched THEN "none" ELSE "restored"
    /\ UNCHANGED <<files, tag, bot, gw, db, busy, opLog, archive>>

-------------------------------------------------------------------------------
(* backup.create *)

RunningParts == (IF bot.st = "up" THEN {"bot"} ELSE {}) \cup (IF gw = "up" THEN {"gw"} ELSE {})

BeginSnapshot ==
    /\ Doing("idle") /\ ~ busy /\ bot.st # "absent" /\ files # "none"
    /\ bot.st = "up" => gw = "up"
    /\ opLog \notin {"open", "review"}
    /\ run' = [NoRun EXCEPT !.pc = "stopbot", !.found = RunningParts]
    /\ opLog' = "open" /\ ended' = "none"
    /\ UNCHANGED <<files, tag, bot, gw, db, busy, archive>>

\* Mutant: a container is noted once it is confirmed to have stopped.
NotedAfter(c, ok) == IF ok THEN run.stopped \cup {c} ELSE run.stopped

Noted(c, ok) == run.stopped \cup {c}

\* The container is still the one found; it is noted before it is stopped.
\* `ok`: the stop could be confirmed.
StopFound(c, ok) ==
    /\ c \in run.found /\ c \in RunningParts /\ c \in run.same
    /\ bot' = IF c = "bot" THEN Stopped ELSE bot
    /\ gw' = IF c = "gw" THEN "stopped" ELSE gw
    /\ run' = [run EXCEPT !.stopped = Noted(c, ok),
                          !.pc = IF ~ ok THEN "regw" ELSE IF c = "bot" THEN "stopgw" ELSE "quiet"]

SkipStopped(c) ==
    /\ c \notin run.found \cup RunningParts /\ c \in run.same
    /\ Go(IF c = "bot" THEN "stopgw" ELSE "quiet")
    /\ UNCHANGED <<bot, gw>>

SnapshotStops(c, ok) ==
    /\ Doing(IF c = "bot" THEN "stopbot" ELSE "stopgw")
    /\ StopFound(c, ok) \/ SkipStopped(c)
    /\ UNCHANGED <<files, tag, db, busy, ended, opLog, archive>>

\* Mutant: the tasks are not counted a second time.
Uncounted == TRUE

NoActiveTasks == ~ busy

CheckQuiet ==
    /\ Doing("quiet") /\ NoActiveTasks
    /\ Go("copying")
    /\ UNCHANGED <<files, tag, bot, gw, db, busy, ended, opLog, archive>>

CopyFiles ==
    /\ Doing("copying")
    /\ Go("pack")
    /\ UNCHANGED <<files, tag, bot, gw, db, busy, ended, opLog, archive>>

Pack ==
    /\ Doing("pack")
    /\ archive' = [quiet |-> RunningParts = {}, idle |-> ~ busy, touched |-> run.touched]
    /\ run' = [run EXCEPT !.pc = "regw", !.done = TRUE]
    /\ UNCHANGED <<files, tag, bot, gw, db, busy, ended, opLog>>

SnapshotFails ==
    /\ run.pc \in SnapshotSteps
    /\ Go("regw")
    /\ UNCHANGED <<files, tag, bot, gw, db, busy, ended, opLog, archive>>

\* The Bot is not started against a failed gateway.
GatewayRestarts(ok) ==
    /\ Doing("regw")
    /\ IF "gw" \notin run.stopped THEN Go("rebot") /\ UNCHANGED gw
       ELSE IF ok /\ "gw" \in run.same
       THEN Go("rebot") /\ gw' = "up"
       ELSE /\ run' = [run EXCEPT !.failed = @ \cup {"gw"}, !.pc = "close"]
            /\ UNCHANGED gw
    /\ UNCHANGED <<files, tag, bot, db, busy, ended, opLog, archive>>

BotRestartsAfter(ok) ==
    /\ Doing("rebot")
    /\ IF "bot" \notin run.stopped THEN Go("close") /\ UNCHANGED <<bot, db>>
       ELSE IF ok /\ "bot" \in run.same
       THEN Go("close") /\ (IF bot.st = "up" THEN UNCHANGED <<bot, db>> ELSE Starts(bot.prog))
       ELSE /\ run' = [run EXCEPT !.failed = @ \cup {"bot"}, !.pc = "close"]
            /\ UNCHANGED <<bot, db>>
    /\ UNCHANGED <<files, tag, gw, busy, ended, opLog, archive>>

CloseJournal ==
    /\ Doing("close")
    /\ opLog' = IF run.failed # {} THEN "review" ELSE IF run.done THEN "completed" ELSE "failed"
    /\ ended' = opLog'
    /\ run' = [NoRun EXCEPT !.found = run.found, !.touched = run.touched]
    /\ UNCHANGED <<files, tag, bot, gw, db, busy, archive>>

-------------------------------------------------------------------------------
(* Kills, failed roll-backs, people and the Bot at work *)

Cut ==
    /\ ~ Doing("idle")
    /\ run' = NoRun /\ ended' = "cut"
    /\ UNCHANGED <<files, tag, bot, gw, db, busy, opLog, archive>>

Meanwhile(replaced) ==
    /\ run' = [run EXCEPT !.touched = TRUE, !.same = @ \ replaced]
    /\ ended' = IF Doing("idle") /\ ended # "cut" THEN "none" ELSE ended

\* `docker start` and `docker stop` by hand; the menu's own start and stop take
\* the edition lock, so they come only between operations.
SomebodyStarts ==
    /\ \/ bot.st = "stopped" /\ Starts(bot.prog) /\ UNCHANGED gw
       \/ gw = "stopped" /\ gw' = "up" /\ UNCHANGED <<bot, db>>
    /\ Meanwhile({})
    /\ UNCHANGED <<files, tag, busy, opLog, archive>>

SomebodyStops ==
    /\ \/ bot.st = "up" /\ bot' = Stopped /\ UNCHANGED gw
       \/ gw = "up" /\ gw' = "stopped" /\ UNCHANGED bot
    /\ Meanwhile({})
    /\ UNCHANGED <<files, tag, db, busy, opLog, archive>>

\* `manage.sh start`: Compose creates what is missing and replaces a Bot whose
\* image is not the tagged one; the gateway's image does not change.
ComposeUp ==
    /\ files # "none"
    /\ gw' = "up" /\ Starts(tag)
    /\ Meanwhile(IF bot.st = "absent" \/ bot.prog # tag THEN {"bot"} ELSE {})
    /\ UNCHANGED <<files, tag, busy, opLog, archive>>

TaskStarts ==
    /\ bot.st = "up" /\ ~ busy
    /\ busy' = TRUE
    /\ UNCHANGED <<files, tag, bot, gw, db, run, ended, opLog, archive>>

TaskEnds ==
    /\ bot.st = "up" /\ busy
    /\ busy' = FALSE
    /\ UNCHANGED <<files, tag, bot, gw, db, run, ended, opLog, archive>>

InstanceNext ==
    \/ BeginUpgrade \/ UpgradeStopsBot \/ CopyDatabase \/ UpgradeStopsGateway \/ GatewayArchived
    \/ RemoveProgram \/ InstallProgram \/ GatewayUp \/ BuildImage \/ BotUp \/ Healthy \/ UpgradeFails
    \/ ImagesBack \/ RemoveBot \/ ClearProgram \/ Untar \/ DatabaseBack \/ GatewayBack \/ BotBack
    \/ RolledBack
    \/ BeginSnapshot \/ CheckQuiet \/ CopyFiles \/ Pack \/ SnapshotFails \/ CloseJournal
    \/ \E ok \in BOOLEAN : GatewayRestarts(ok) \/ BotRestartsAfter(ok)
    \/ \E c \in Parts, ok \in BOOLEAN : SnapshotStops(c, ok)
    \/ Cut \/ SomebodyStarts \/ SomebodyStops \/ ComposeUp \/ TaskStarts \/ TaskEnds

InstanceSpec == InstanceInit /\ [][InstanceNext]_instanceVars

-------------------------------------------------------------------------------
(* Properties *)

\* An upgrade that reports its end, as done or as taken back, leaves one
\* version: files, image, Bot and database belong together and both services
\* run (the OpenList scripts: their roll-back starts the gateway).  Only an
\* operation that was cut off may leave a mixture.
EndsWhole ==
    ended \in {"upgraded", "restored"} =>
        /\ files = tag /\ tag = bot.prog /\ bot.prog = db
        /\ bot.st = "up" /\ gw = "up"

\* A snapshot is taken from services at rest, without a task half-way, unless
\* somebody else acted during the maintenance.
QuietArchive == ~ archive.touched => archive.quiet /\ archive.idle

\* A snapshot that reports its end without asking for a review has put every
\* container back as it was, whether it succeeded or not.
ServicesAsFound ==
    ended \in {"completed", "failed"} /\ ~ run.touched => RunningParts = run.found

================================================================================
