------------------------------- MODULE SiteEntry -------------------------------
(***************************************************************************)
(* Site files in the directory of a Docker Nginx that belongs to somebody  *)
(* else: ExternalEntry.transaction, the SiteTransaction journal and        *)
(* `proxy recover`.  One tool works at a time (the shared entry lock); it  *)
(* may fail, be interrupted or be killed between any two steps, and the    *)
(* owner of the directory, who takes no lock, may edit a file at any       *)
(* moment: also between the tool's look at a file and its replacement.     *)
(*                                                                         *)
(* Contents are names.  A new domain is first published with a bootstrap   *)
(* page that answers the ACME challenge, then with its final content.  The *)
(* phase field of the journal is left out: nothing reads it back.          *)
(***************************************************************************)
EXTENDS Naturals

CONSTANTS
    Sites,       \* tg2cloud-*.conf files
    Versions,    \* final contents of a site
    FirstRun,    \* TRUE: no transaction ever reached external-context.json
    MaxRev,      \* bound: transactions started
    MaxEdits,    \* bound: edits by others
    MaxFaults    \* bound: kills and failed roll-backs

ASSUME SiteAssumption ==
    /\ Versions \cap {"absent", "boot", "edited"} = {}
    /\ FirstRun \in BOOLEAN
    /\ MaxRev \in Nat \ {0} /\ MaxEdits \in Nat /\ MaxFaults \in Nat

Wanted == [Sites -> Versions \cup {"absent"}]
Content == Versions \cup {"absent", "boot", "edited"}
Nothing == [s \in Sites |-> "absent"]

VARIABLES
    entry,      \* domains.json: the committed files and their revision
    context,    \* revision in external-context.json; 0: no such file
    disk,       \* the site files
    served,     \* the contents Nginx read at its last reload
    journal,    \* external-transaction.json
    tool,       \* the running operation
    siteSpent   \* edits and faults so far

siteVars == <<entry, context, disk, served, journal, tool, siteSpent>>

NoJournal == [items |-> {}, before |-> Nothing, after |-> Nothing, mid |-> [s \in Sites |-> {}]]
Idle == [pc |-> "idle", target |-> Nothing, again |-> FALSE, todo |-> {}, seen |-> {}]

\* Steps that an error or an interruption sends to the roll-back.
Guarded == {"publish", "reload", "obtain", "final", "verify", "commit"}

SiteTypeOK ==
    /\ entry \in [files : Wanted, rev : 0..MaxRev]
    /\ context \in 0..MaxRev
    /\ disk \in [Sites -> Content] /\ served \in [Sites -> Content]
    /\ journal \in [items : SUBSET Sites, before : Wanted, after : [Sites -> Content],
                    mid : [Sites -> SUBSET Content]]
    /\ tool \in [pc : Guarded \cup {"idle", "context", "committed", "rollback", "finish"},
                 target : Wanted, again : BOOLEAN, todo : SUBSET Sites, seen : SUBSET Sites]
    /\ siteSpent \in [edits : 0..MaxEdits, faults : 0..MaxFaults]

SiteInit ==
    /\ entry = [files |-> Nothing, rev |-> 0]
    /\ context = IF FirstRun THEN 0 ELSE 1
    /\ disk = Nothing /\ served = Nothing
    /\ journal = NoJournal /\ tool = Idle
    /\ siteSpent = [edits |-> 0, faults |-> 0]

-------------------------------------------------------------------------------
At(l) == tool.pc = l
Move(l, todo) == tool' = [tool EXCEPT !.pc = l, !.todo = todo, !.seen = {}]

\* The comparison has let the tool through: what follows is the temporary file,
\* its fsync and, at last, os.replace or unlink.
Decides(s) == tool' = [tool EXCEPT !.seen = {s}]

\* Both preflight and the journal's constructor insist on this.
Undrifted(want) ==
    \A s \in Sites :
        /\ entry.files[s] # "absent" => disk[s] = entry.files[s]
        /\ entry.files[s] = "absent" /\ want[s] # "absent" => disk[s] = "absent"

\* transaction() up to the journal: `boot` are the sites whose certificate is
\* still missing, at most one; `again` whether a domain is being set up.
Begin(target, again, boot) ==
    LET want == [s \in Sites |-> IF s \in boot THEN "boot" ELSE target[s]] IN
    /\ At("idle") /\ journal = NoJournal /\ context < MaxRev
    /\ boot # {} => again /\ \A s \in boot : target[s] # "absent"
    /\ Undrifted(want)
    /\ journal' = [items |-> {s \in Sites : entry.files[s] # "absent" \/ want[s] # "absent"},
                   before |-> entry.files, after |-> want, mid |-> [s \in Sites |-> {}]]
    /\ tool' = [pc |-> "context", target |-> target, again |-> again, todo |-> {}, seen |-> {}]
    /\ UNCHANGED <<entry, context, disk, served, siteSpent>>

\* The commit token.  It is written outside the try block.
SaveContext ==
    /\ At("context")
    /\ context' = context + 1
    /\ Move("publish", journal.items)
    /\ UNCHANGED <<entry, disk, served, journal, siteSpent>>

\* Mutant: the look of the journal's constructor is taken to hold still.
LookedBefore(s) == TRUE

StillBefore(s) == disk[s] = journal.before[s]

PublishCompares(s) ==
    /\ At("publish") /\ s \in tool.todo /\ tool.seen = {}
    /\ StillBefore(s)
    /\ Decides(s)
    /\ UNCHANGED <<entry, context, disk, served, journal, siteSpent>>

Publish(s) ==
    /\ At("publish") /\ s \in tool.seen
    /\ disk' = [disk EXCEPT ![s] = journal.after[s]]
    /\ Move("publish", tool.todo \ {s})
    /\ UNCHANGED <<entry, context, served, journal, siteSpent>>

Published ==
    /\ At("publish") /\ tool.todo = {}
    /\ Move("reload", {})
    /\ UNCHANGED <<entry, context, disk, served, journal, siteSpent>>

Reload ==
    /\ At("reload")
    /\ served' = disk
    /\ Move(IF tool.again THEN "obtain" ELSE "verify", {})
    /\ UNCHANGED <<entry, context, disk, journal, siteSpent>>

\* The files that exist after the operation.
Kept == {s \in journal.items : tool.target[s] # "absent"}

\* The certificate is there; the journal is extended to the final contents
\* before the first of them is written.
Obtain ==
    /\ At("obtain")
    /\ \A s \in Kept : disk[s] = journal.after[s]
    /\ journal' = [journal EXCEPT
            !.mid = [s \in Sites |-> IF s \in Kept THEN @[s] \cup {journal.after[s]} ELSE @[s]],
            !.after = tool.target]
    /\ Move("final", Kept)
    /\ UNCHANGED <<entry, context, disk, served, siteSpent>>

Final(s) ==
    /\ At("final") /\ s \in tool.todo
    /\ disk' = [disk EXCEPT ![s] = tool.target[s]]
    /\ Move("final", tool.todo \ {s})
    /\ UNCHANGED <<entry, context, served, journal, siteSpent>>

FinalReload ==
    /\ At("final") /\ tool.todo = {}
    /\ served' = disk
    /\ Move("verify", {})
    /\ UNCHANGED <<entry, context, disk, journal, siteSpent>>

\* Pages, certificates and the other sites' answers are as expected, and the
\* files are still the candidate ones.  A removed file is not looked at.
Verify ==
    /\ At("verify")
    /\ \A s \in Kept : disk[s] = tool.target[s]
    /\ Move("commit", {})
    /\ UNCHANGED <<entry, context, disk, served, journal, siteSpent>>

Commit ==
    /\ At("commit")
    /\ entry' = [files |-> tool.target, rev |-> context]
    /\ Move("committed", {})
    /\ UNCHANGED <<context, disk, served, journal, siteSpent>>

\* The journal goes last, after a commit as well as after a roll-back.
Finish ==
    /\ At("committed") \/ At("finish")
    /\ journal' = NoJournal /\ tool' = Idle
    /\ UNCHANGED <<entry, context, disk, served, siteSpent>>

\* A failed check, a failed command, Ctrl-C.
Abort ==
    /\ tool.pc \in Guarded
    /\ Move("rollback", journal.items)
    /\ UNCHANGED <<entry, context, disk, served, journal, siteSpent>>

\* Mutant: the bootstrap page is taken for a foreign edit.
KnownFinalOnly(s) == disk[s] = journal.after[s]

\* Mutant: whatever is there is replaced.
KnownAll(s) == TRUE

\* Contents this transaction wrote itself.
Known(s) == disk[s] \in {journal.after[s]} \cup journal.mid[s]

\* Mutant: files that did not exist before stay.
KeepNew(s) == IF journal.before[s] = "absent" THEN disk[s] ELSE journal.before[s]

Restored(s) == journal.before[s]

\* A file that is as before is left alone.
RollbackCompares(s) ==
    /\ At("rollback") /\ s \in tool.todo /\ tool.seen = {}
    /\ \/ disk[s] = journal.before[s] /\ Move("rollback", tool.todo \ {s})
       \/ disk[s] # journal.before[s] /\ Known(s) /\ Decides(s)
    /\ UNCHANGED <<entry, context, disk, served, journal, siteSpent>>

Rollback(s) ==
    /\ At("rollback") /\ s \in tool.seen
    /\ disk' = [disk EXCEPT ![s] = Restored(s)]
    /\ Move("rollback", tool.todo \ {s})
    /\ UNCHANGED <<entry, context, served, journal, siteSpent>>

RollbackReload ==
    /\ At("rollback") /\ tool.todo = {}
    /\ served' = disk
    /\ Move("finish", {})
    /\ UNCHANGED <<entry, context, disk, journal, siteSpent>>

\* Somebody else's content is in the way: the tool leaves, the journal stays.
RollbackRefused(s) ==
    /\ At("rollback") /\ s \in tool.todo /\ tool.seen = {}
    /\ disk[s] # journal.before[s] /\ ~ Known(s)
    /\ tool' = Idle
    /\ UNCHANGED <<entry, context, disk, served, journal, siteSpent>>

\* Power loss or kill at any point, an error or Ctrl-C outside the try block,
\* or a reload that fails during the roll-back.
Kill ==
    /\ ~ At("idle") /\ siteSpent.faults < MaxFaults
    /\ siteSpent' = [siteSpent EXCEPT !.faults = @ + 1]
    /\ tool' = Idle
    /\ UNCHANGED <<entry, context, disk, served, journal>>

\* Mutant: equal files are taken for a finished commit.
SameFiles == [s \in Sites |-> IF s \in journal.items THEN journal.after[s] ELSE "absent"] = entry.files

CommittedAlready == journal.after = entry.files /\ entry.rev = context

\* `proxy recover`.  Without external-context.json it fails at once.
Recover ==
    /\ At("idle") /\ journal # NoJournal /\ context # 0
    /\ IF CommittedAlready
       THEN /\ \A s \in journal.items : journal.after[s] # "absent" => disk[s] = journal.after[s]
            /\ Move("finish", {})
       ELSE Move("rollback", journal.items)
    /\ UNCHANGED <<entry, context, disk, served, journal, siteSpent>>

EditSite(s) ==
    /\ siteSpent.edits < MaxEdits
    /\ siteSpent' = [siteSpent EXCEPT !.edits = @ + 1]
    /\ disk' = [disk EXCEPT ![s] = "edited"]
    /\ UNCHANGED <<entry, context, served, journal, tool>>

\* The owner restarts Nginx.
NginxRestart ==
    /\ served' = disk
    /\ UNCHANGED <<entry, context, disk, journal, tool, siteSpent>>

\* At most one site at a time waits for its first certificate.
Boots == {{}} \cup {{s} : s \in Sites}

ToolStep ==
    \/ SaveContext \/ Published \/ Reload \/ Obtain \/ FinalReload \/ Verify \/ Commit
    \/ Finish \/ RollbackReload \/ Recover
    \/ \E s \in Sites :
          PublishCompares(s) \/ Publish(s) \/ Final(s) \/ RollbackCompares(s) \/ Rollback(s)

SiteNext ==
    \/ \E t \in Wanted, g \in BOOLEAN, b \in Boots : Begin(t, g, b)
    \/ SaveContext \/ Published \/ Reload \/ Obtain \/ FinalReload \/ Verify \/ Commit
    \/ Finish \/ Abort \/ RollbackReload \/ Kill \/ Recover \/ NginxRestart
    \/ \E s \in Sites :
          \/ PublishCompares(s) \/ Publish(s) \/ Final(s)
          \/ RollbackCompares(s) \/ Rollback(s) \/ RollbackRefused(s) \/ EditSite(s)

SiteSpec == SiteInit /\ [][SiteNext]_siteVars

-------------------------------------------------------------------------------
(* Properties *)

\* Without a journal the files are the committed ones and Nginx serves them,
\* whatever happened before; only somebody else's edit may stand in between.
Settled ==
    journal = NoJournal =>
        \A s \in Sites :
            {disk[s], served[s]} \subseteq {entry.files[s], "edited"}

\* The files the tool has compared and not yet written.  The second publication
\* of a new domain compares all of them (Obtain) before it writes the first.
InHand == IF At("final") THEN tool.todo ELSE tool.seen

\* An edit of somebody else that the tool could see stays: the tool writes over
\* one only if it was made after the comparison with which the tool decided to
\* write that file, and it never decides so over an edit.  (An edit that falls
\* between that comparison and os.replace or unlink is lost.)
EditsSurvive ==
    [][\A s \in Sites : disk[s] = "edited" =>
          /\ disk'[s] = "edited" \/ s \in InHand
          /\ s \in InHand' => s \in InHand]_siteVars

\* The transaction implements AtomicChange: a commit finds all files written,
\* and a transaction that ends, by whatever way, has left all or nothing.
Promise ==
    INSTANCE AtomicChange
        WITH Names <- Sites, Contents <- Content, Edited <- "edited",
             cur <- entry.files, site <- disk, busy <- journal # NoJournal

KeepsPromise == Promise!Spec

\* A journal left behind is cleared by `proxy recover`, unless an edit of
\* somebody else stands against it.
Resolved ==
    (journal # NoJournal) ~> (journal = NoJournal \/ \E s \in Sites : disk[s] = "edited")

\* An operation that is not killed goes on, and the operator runs recover.
SiteFair == SiteSpec /\ WF_siteVars(ToolStep)

===============================================================================
