------------------------------ MODULE WebdavAccess ------------------------------
(***************************************************************************)
(* The external WebDAV entry of one edition: Service.configure, maintain   *)
(* (enable, disable, uninstall) and users.account.  Several tools may run. *)
(* A tool reads the record, asks its questions, takes the two locks, finds *)
(* the record unchanged, and only then writes; configure and account drop  *)
(* the locks again while the operator works in the backend.  A lock that   *)
(* is taken fails at once.                                                 *)
(*                                                                         *)
(* Passwords are left out: an account is in the auth file or it is not.    *)
(* apply_shared_state_locked is one step here and detailed in SharedProxy. *)
(***************************************************************************)
EXTENDS Naturals

CONSTANTS
    Tools,       \* running management programs
    NoTool,
    Mains,       \* names the operator may give the main account
    Family,      \* names of family accounts
    MaxRevisions,\* bound: operations that write
    MaxCuts      \* bound: kills

ASSUME WebdavAssumption ==
    /\ NoTool \notin Tools /\ Mains # {} /\ Mains \cap Family = {}
    /\ MaxRevisions \in Nat /\ MaxCuts \in Nat

VARIABLES
    record,   \* config.json; phase none: no such file
    auth,     \* accounts in the .htpasswd file
    route,    \* the edition's entry in domains.json
    holder,   \* who has the edition lock and the proxy lock
    job,      \* per tool: the running operation
    revision, \* revisions handed out
    cuts,     \* kills so far
    tidy      \* since the last routine operation that ended well none was cut off, and
              \* no tool that failed was kept from closing its account again

webdavVars == <<record, auth, route, holder, job, revision, cuts, tidy>>

Phases == {"none", "pending", "enabled", "disabled", "needs_repair"}
Record == [phase : Phases, rev : 0..MaxRevisions, main : Mains, members : [Family -> Phases]]
NoMembers == [f \in Family |-> "none"]
NoRecord == [phase |-> "none", rev |-> 0, main |-> CHOOSE m \in Mains : TRUE, members |-> NoMembers]

Routine == {"configure", "enable", "disable", "uninstall"}
Opening == {"add", "turn-on", "rotate"}
Closing == {"turn-off", "remove"}
NoJob == [pc |-> "none", kind |-> "disable", user |-> CHOOSE m \in Mains : TRUE,
          seen |-> NoRecord, mine |-> NoRecord]

\* Steps made under the locks.
Locked == {"save", "revoke", "route", "write", "apply", "done", "erase", "close", "open", "account"}

WebdavTypeOK ==
    /\ record \in Record /\ auth \subseteq Mains \cup Family
    /\ route \in {"none", "off", "on"} /\ holder \in Tools \cup {NoTool}
    /\ job \in [Tools -> [pc : Locked \cup {"none", "lock", "manual", "relock", "handler"},
                          kind : Routine \cup Opening \cup Closing, user : Mains \cup Family,
                          seen : Record, mine : Record]]
    /\ revision \in 0..MaxRevisions /\ cuts \in 0..MaxCuts /\ tidy \in BOOLEAN

WebdavInit ==
    /\ record = NoRecord /\ auth = {} /\ route = "none"
    /\ holder = NoTool /\ job = [t \in Tools |-> NoJob]
    /\ revision = 0 /\ cuts = 0 /\ tidy = TRUE

-------------------------------------------------------------------------------
Allowed(r) == {r.main} \cup {f \in Family : r.members[f] \in {"enabled", "pending"}}
HasMembers(r) == r.members # NoMembers

\* Mutant: a phase read_record does not know.
AllOut(r) == [f \in Family |-> IF r.members[f] = "none" THEN "none" ELSE "closed"]

AllOff(r) == [f \in Family |-> IF r.members[f] = "none" THEN "none" ELSE "disabled"]

\* preflight: a route needs its record, and the auth file holds nobody the
\* record does not allow.
Preflight ==
    /\ route # "none" => record.phase # "none"
    /\ record.phase # "none" => auth \subseteq Allowed(record)
    /\ record.phase = "disabled" => auth = {}

\* checked(): the route also agrees with the record.
Checked == Preflight /\ route = (IF record.phase = "enabled" THEN "on" ELSE "off")

Pc(t) == job[t].pc
Goes(t, l) == job' = [job EXCEPT ![t].pc = l]
Leaves(t) == job' = [job EXCEPT ![t] = NoJob]
Free == holder' = NoTool

-------------------------------------------------------------------------------
(* Up to the first write *)

Asks(t, kind, u) ==
    /\ Pc(t) = "none" /\ revision < MaxRevisions /\ Preflight
    /\ CASE kind = "configure" -> u \in Mains /\ ~ HasMembers(record)
         [] kind = "enable" -> /\ u = record.main /\ record.phase # "none"
                               /\ ~ (HasMembers(record) /\ record.phase = "enabled")
         [] kind \in {"disable", "uninstall"} -> u = record.main /\ record.phase # "none"
         [] OTHER -> /\ u \in Family /\ Checked /\ record.phase # "none"
                     /\ kind \in Opening => record.phase = "enabled"
                     /\ (kind = "add") = (record.members[u] = "none")
    /\ job' = [job EXCEPT ![t] = [pc |-> "lock", kind |-> kind, user |-> u,
                                  seen |-> record, mine |-> NoRecord]]
    /\ UNCHANGED <<record, auth, route, holder, revision, cuts, tidy>>

\* The record an operation saves first.
Pending(t) ==
    [record EXCEPT
        !.rev = revision + 1,
        !.phase = IF job[t].kind \in Routine THEN "pending" ELSE @,
        !.main = IF job[t].kind = "configure" THEN job[t].user ELSE @,
        !.members = IF job[t].kind \in Routine THEN @ ELSE [@ EXCEPT ![job[t].user] = "pending"]]

\* Mutant: an operation goes on whatever has happened to the record.
Whatever(r) == TRUE

\* assert_record
Unchanged(r) == record = r

\* The locks are free and the record is the one that was shown.
Locks(t) ==
    /\ Pc(t) = "lock" /\ holder = NoTool /\ revision < MaxRevisions
    /\ Unchanged(job[t].seen) /\ Preflight
    /\ job[t].kind \notin Routine => Checked
    /\ holder' = t /\ revision' = revision + 1
    /\ job' = [job EXCEPT ![t].pc = "save", ![t].mine = Pending(t)]
    /\ UNCHANGED <<record, auth, route, cuts, tidy>>

\* Cancelled, the locks are taken, or the record has changed: nothing done.
GivesUp(t) ==
    /\ Pc(t) = "lock" /\ Leaves(t)
    /\ UNCHANGED <<record, auth, route, holder, revision, cuts, tidy>>

Saves(t) ==
    /\ Pc(t) = "save"
    /\ record' = job[t].mine
    /\ Goes(t, IF job[t].kind \in Routine THEN "revoke" ELSE "close")
    /\ UNCHANGED <<auth, route, holder, revision, cuts, tidy>>

-------------------------------------------------------------------------------
(* configure, enable, disable, uninstall *)

Revokes(t) ==
    /\ Pc(t) = "revoke"
    /\ auth' = {}
    /\ Goes(t, IF job[t].kind = "enable" THEN "write" ELSE "route")
    /\ UNCHANGED <<record, route, holder, revision, cuts, tidy>>

\* The route is closed before the operator's part, and for good by disable.
ClosesRoute(t) ==
    /\ Pc(t) = "route"
    /\ route' = IF route = "none" \/ job[t].kind = "uninstall" THEN "none" ELSE "off"
    /\ IF job[t].kind = "configure" THEN Free /\ Goes(t, "manual") ELSE Goes(t, "done") /\ UNCHANGED holder
    /\ UNCHANGED <<record, auth, revision, cuts, tidy>>

Writes(t) ==
    /\ Pc(t) = "write"
    /\ auth' = {job[t].user} /\ Goes(t, "apply")
    /\ UNCHANGED <<record, route, holder, revision, cuts, tidy>>

\* Activated and verified: certificate, login, listing.
Activates(t) ==
    /\ Pc(t) = "apply"
    /\ route' = "on" /\ Goes(t, "done")
    /\ UNCHANGED <<record, auth, holder, revision, cuts, tidy>>

Done(t) ==
    /\ Pc(t) = "done"
    /\ record' = [job[t].mine EXCEPT
            !.phase = IF job[t].kind \in {"configure", "enable"} THEN "enabled" ELSE "disabled",
            !.members = AllOff(job[t].mine)]
    /\ tidy' = TRUE
    /\ IF job[t].kind = "uninstall" THEN Goes(t, "erase") /\ UNCHANGED holder ELSE Leaves(t) /\ Free
    /\ UNCHANGED <<auth, route, revision, cuts>>

Erases(t) ==
    /\ Pc(t) = "erase"
    /\ auth' = {} /\ record' = NoRecord /\ Leaves(t) /\ Free
    /\ UNCHANGED <<route, revision, cuts, tidy>>

-------------------------------------------------------------------------------
(* users.account *)

Without(u) == auth \ {u}

Closes(t) ==
    /\ Pc(t) = "close"
    /\ auth' = Without(job[t].user) /\ Free
    /\ Goes(t, IF job[t].kind \in Opening THEN "manual" ELSE "relock")
    /\ UNCHANGED <<record, route, revision, cuts, tidy>>

Opens(t) ==
    /\ Pc(t) = "open"
    /\ auth' = IF job[t].kind \in Opening THEN auth \cup {job[t].user} ELSE auth
    /\ Goes(t, "account")
    /\ UNCHANGED <<record, route, holder, revision, cuts, tidy>>

AccountDone(t) ==
    /\ Pc(t) = "account"
    /\ record' = [job[t].mine EXCEPT !.members[job[t].user] =
            CASE job[t].kind \in Opening -> "enabled"
              [] job[t].kind = "turn-off" -> "disabled"
              [] OTHER -> "none"]
    /\ Leaves(t) /\ Free
    /\ UNCHANGED <<auth, route, revision, cuts, tidy>>

-------------------------------------------------------------------------------
(* The operator's part, and the second time under the locks *)

Confirms(t) ==
    /\ Pc(t) = "manual" /\ Goes(t, "relock")
    /\ UNCHANGED <<record, auth, route, holder, revision, cuts, tidy>>

Relocks(t) ==
    /\ Pc(t) = "relock" /\ holder = NoTool
    /\ Unchanged(job[t].mine) /\ Preflight
    /\ job[t].kind \notin Routine => Checked
    /\ holder' = t
    /\ Goes(t, IF job[t].kind = "configure" THEN "write" ELSE "open")
    /\ UNCHANGED <<record, auth, route, revision, cuts, tidy>>

-------------------------------------------------------------------------------
(* Failures *)

\* configure and account between and after their two locked parts.  A login
\* that does not work is taken out again before the lock is let go; if only
\* the record could not be saved, the handler does it.  A failed activation
\* leaves the route closed (apply_shared_state_locked).
FailsLate(t) ==
    /\ \/ Pc(t) \in {"manual", "relock"}
       \/ Pc(t) \in {"write", "apply", "done"} /\ job[t].kind = "configure"
       \/ Pc(t) \in {"close", "open", "account"}
    /\ auth' \in CASE Pc(t) = "apply" -> {{}}
                   [] Pc(t) = "done" -> {auth, {}}
                   [] Pc(t) = "account" /\ job[t].kind \in Opening -> {auth, Without(job[t].user)}
                   [] OTHER -> {auth}
    /\ route' = IF Pc(t) = "apply" /\ route # "none" THEN "off" ELSE route
    /\ holder' = IF holder = t THEN NoTool ELSE holder
    /\ Goes(t, "handler")
    /\ UNCHANGED <<record, revision, cuts, tidy>>

\* Mutant: the last failure writes, whoever came after.
NotWithdrawn(t) == TRUE

\* Nobody has started another operation since.
StillMine(t) ==
    /\ record.rev = job[t].mine.rev
    /\ job[t].kind = "configure" => record.phase = "pending"

\* Members who can log in although their account waits.
LeftOpen == {f \in auth \cap Family : record.members[f] = "pending"}

\* The outer handler, under the locks again.
Handles(t) ==
    /\ Pc(t) = "handler" /\ holder = NoTool
    /\ IF StillMine(t)
       THEN IF job[t].kind = "configure"
            THEN auth' = {} /\ record' = [job[t].mine EXCEPT !.phase = "needs_repair"]
            ELSE /\ auth' = Without(job[t].user)
                 /\ record' = [job[t].mine EXCEPT !.members[job[t].user] = "needs_repair"]
       ELSE UNCHANGED <<auth, record>>
    /\ tidy' = (tidy /\ (StillMine(t) \/ job[t].user \notin LeftOpen))
    /\ Leaves(t)
    /\ UNCHANGED <<route, holder, revision, cuts>>

\* Somebody else has the locks: the handler gives up.
HandlerBusy(t) ==
    /\ Pc(t) = "handler" /\ holder # NoTool
    /\ Leaves(t) /\ tidy' = FALSE
    /\ UNCHANGED <<record, auth, route, holder, revision, cuts>>

\* enable has its handler inside the lock.
EnableFails(t) ==
    /\ job[t].kind = "enable" /\ Pc(t) \in {"revoke", "write", "apply", "done"}
    /\ auth' = {} /\ route' = IF Pc(t) = "apply" /\ route # "none" THEN "off" ELSE route
    /\ record' = [job[t].mine EXCEPT !.phase = "needs_repair",
                                  !.members = IF Pc(t) = "revoke" THEN @ ELSE AllOff(job[t].mine)]
    /\ Leaves(t) /\ Free
    /\ UNCHANGED <<revision, cuts, tidy>>

\* disable, uninstall and the first part of configure have none.  A failed
\* revocation leaves the accounts as they were, under a pending record.
FailsPlainly(t) ==
    /\ \/ Pc(t) = "save"
       \/ job[t].kind # "enable" /\ Pc(t) = "revoke"
       \/ Pc(t) = "route"
       \/ job[t].kind \in {"disable", "uninstall"} /\ Pc(t) = "done"
       \/ Pc(t) = "erase"
    /\ route' = IF Pc(t) = "route" /\ route # "none" THEN "off" ELSE route
    /\ tidy' = (tidy /\ Pc(t) # "revoke")
    /\ Leaves(t) /\ Free
    /\ UNCHANGED <<record, auth, revision, cuts>>

Killed(t) ==
    /\ Pc(t) # "none" /\ cuts < MaxCuts
    /\ cuts' = cuts + 1 /\ tidy' = FALSE
    /\ Leaves(t) /\ holder' = IF holder = t THEN NoTool ELSE holder
    /\ UNCHANGED <<record, auth, route, revision>>

WebdavNext ==
    \E t \in Tools :
        \/ \E k \in Routine \cup Opening \cup Closing, u \in Mains \cup Family : Asks(t, k, u)
        \/ Locks(t) \/ GivesUp(t) \/ Saves(t) \/ Revokes(t) \/ ClosesRoute(t) \/ Writes(t)
        \/ Activates(t) \/ Done(t) \/ Erases(t) \/ Closes(t) \/ Opens(t) \/ AccountDone(t)
        \/ Confirms(t) \/ Relocks(t) \/ FailsLate(t) \/ Handles(t) \/ HandlerBusy(t)
        \/ EnableFails(t) \/ FailsPlainly(t) \/ Killed(t)

WebdavSpec == WebdavInit /\ [][WebdavNext]_webdavVars

-------------------------------------------------------------------------------
(* Properties *)

\* While nobody holds the locks, only accounts of the record can log in.
RegisteredOnly == holder = NoTool => record.phase = "none" \/ auth \subseteq Allowed(record)

\* An entry or a member that is closed, or waits for repair, lets nobody in; and unless a tool was
\* cut off, or is still at clearing up, who can log in has been verified and is recorded as enabled.
RecordTellsWhoEnters ==
    holder = NoTool =>
        /\ record.phase \in {"none", "disabled", "needs_repair"} => record.main \notin auth
        /\ \A f \in Family : record.members[f] \in {"none", "disabled", "needs_repair"} => f \notin auth
        /\ tidy /\ (\A t \in Tools : Pc(t) # "handler") =>
              /\ record.main \in auth => record.phase = "enabled" /\ route = "on"
              /\ \A f \in auth \cap Family : record.members[f] = "enabled"

\* A tool that has been overtaken writes neither record nor accounts.
OvertakenWritesNothing ==
    [][record' # record \/ auth' # auth =>
          \E t \in Tools : /\ job'[t] # job[t]
                           /\ record.rev \in {job[t].seen.rev, job[t].mine.rev}]_webdavVars

\* users.py:139-140 of an account that could not be opened: "a second user's update cannot inherit a
\* failed activation while CAS advances".
NoneInherited ==
    \A t \in Tools : Pc(t) = "save" /\ job[t].kind \notin Routine => LeftOpen \subseteq {job[t].user}

===============================================================================
