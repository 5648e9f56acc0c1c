------------------------------ MODULE SiteProofs ------------------------------
(***************************************************************************)
(* Proofs about SiteEntry for any sites, any contents and any number of    *)
(* transactions, edits and crashes; then about InstanceUpgrade, for any    *)
(* number of upgrades, snapshots, failures and kills of one edition.       *)
(***************************************************************************)
EXTENDS SiteEntry, InstanceUpgrade, TLAPS

\* An operation runs, or one that was cut short has left its journal.
InProgress == journal # NoJournal \/ ~ At("idle")

\* Files and Nginx agree with what is committed, save for edits by others.
Calm == \A s \in Sites : {disk[s], served[s]} \subseteq {entry.files[s], "edited"}

\* What may be found at a site half-way: the old content, the new one, one
\* the journal has noted in between, an edit by somebody else.
Possible(s) == {journal.before[s], journal.after[s], "edited"} \cup journal.mid[s]

\* The journal speaks of the sites it lists only, and never of an edit.
JournalShape ==
    /\ \A s \in Sites : journal.after[s] # "edited" /\ "edited" \notin journal.mid[s]
    /\ \A s \in Sites \ journal.items :
          journal.before[s] = "absent" /\ journal.after[s] = "absent" /\ journal.mid[s] = {}

\* The revision in domains.json tells what is committed: that of the context
\* when nothing was written or everything is.
Recorded ==
    /\ \A s \in Sites : {disk[s], served[s]} \subseteq Possible(s)
    /\ entry.rev # context => entry.files = journal.before
    /\ entry.rev = context => Calm /\ entry.files \in {journal.before, journal.after}

\* How far each step of the running operation has come.
Written(s) == disk[s] \in {journal.after[s], "edited"}
Read(s) == served[s] \in {journal.after[s], "edited"}
Before == {"context", "publish", "reload", "obtain"}
Position ==
    /\ At("context") => Calm /\ entry.files = journal.before /\ context < MaxRev
    /\ tool.pc \in Guarded => entry.rev # context
    /\ tool.pc \in Before =>
          \A s \in Sites : tool.target[s] = "absent" <=> journal.after[s] = "absent"
    /\ tool.pc \in {"context", "publish", "reload"} /\ ~ tool.again => journal.after = tool.target
    /\ tool.pc \in {"final", "verify", "commit"} => journal.after = tool.target
    /\ tool.pc \in {"publish", "final", "rollback"} => tool.todo \subseteq journal.items
    /\ tool.pc \in {"publish", "final"} => \A s \in Sites \ tool.todo : Written(s)
    /\ tool.pc \in {"reload", "obtain", "verify", "commit"} => \A s \in Sites : Written(s)
    /\ tool.pc \in {"obtain", "verify", "commit"} => \A s \in Sites : Read(s)
    /\ At("committed") => entry.rev = context
    /\ At("rollback") =>
          /\ entry.files = journal.before
          /\ \A s \in Sites \ tool.todo : disk[s] \in {journal.before[s], "edited"}
    /\ At("finish") => Calm

SiteInv ==
    /\ SiteTypeOK
    /\ entry.rev <= context
    /\ JournalShape
    /\ InProgress => Recorded
    /\ ~ InProgress => Calm
    /\ Position

-------------------------------------------------------------------------------
LEMMA Words ==
    /\ Nothing \in Wanted
    /\ \A f \in Wanted, s \in Sites : f[s] \in Content /\ f[s] # "edited" /\ f[s] # "boot"
    /\ {"absent", "boot", "edited"} \subseteq Content
    /\ Wanted \subseteq [Sites -> Content]
BY SiteAssumption DEF Wanted, Content, Nothing

LEMMA InitInv == SiteInit => SiteInv
<1> SUFFICES ASSUME SiteInit PROVE SiteInv
  OBVIOUS
<1>1. SiteTypeOK
  BY Words, SiteAssumption DEF SiteInit, SiteTypeOK, NoJournal, Idle, Nothing, Wanted
<1>2. entry.rev <= context
  BY SiteAssumption DEF SiteInit
<1>3. JournalShape
  BY DEF SiteInit, JournalShape, NoJournal, Nothing
<1>4. ~ InProgress /\ Calm
  BY DEF SiteInit, InProgress, Calm, At, Idle, Nothing
<1>5. Position
  BY DEF SiteInit, Position, At, Idle, Guarded, Before
<1> QED BY <1>1, <1>2, <1>3, <1>4, <1>5 DEF SiteInv

\* The step to the next label, field by field.
LEMMA Moved ==
    ASSUME SiteTypeOK, NEW l, NEW todo, Move(l, todo)
    PROVE  /\ tool'.pc = l /\ tool'.todo = todo
           /\ tool'.target = tool.target /\ tool'.again = tool.again
           /\ l \in Guarded \cup {"idle", "context", "committed", "rollback", "finish"}
                 /\ todo \in SUBSET Sites => tool' \in
                 [pc : Guarded \cup {"idle", "context", "committed", "rollback", "finish"},
                  target : Wanted, again : BOOLEAN, todo : SUBSET Sites, seen : SUBSET Sites]
           /\ tool'.seen = {}
BY DEF Move, SiteTypeOK

\* A comparison notes the file it looked at and changes nothing else.
LEMMA Decided ==
    ASSUME SiteTypeOK, NEW s \in Sites, Decides(s)
    PROVE  /\ tool'.pc = tool.pc /\ tool'.todo = tool.todo
           /\ tool'.target = tool.target /\ tool'.again = tool.again /\ tool'.seen = {s}
           /\ tool' \in
                 [pc : Guarded \cup {"idle", "context", "committed", "rollback", "finish"},
                  target : Wanted, again : BOOLEAN, todo : SUBSET Sites, seen : SUBSET Sites]
BY DEF Decides, SiteTypeOK

\* The new contents of a transaction that has just begun.
LEMMA BeginWants ==
    ASSUME SiteTypeOK, NEW target \in Wanted, NEW again \in BOOLEAN, NEW boot \in Boots
    PROVE  [s \in Sites |-> IF s \in boot THEN "boot" ELSE target[s]] \in [Sites -> Content]
BY Words

LEMMA BeginType ==
    ASSUME SiteTypeOK, NEW target \in Wanted, NEW again \in BOOLEAN, NEW boot \in Boots,
           Begin(target, again, boot)
    PROVE  SiteTypeOK'
<1> DEFINE want == [s \in Sites |-> IF s \in boot THEN "boot" ELSE target[s]]
<1>1. want \in [Sites -> Content]
  BY BeginWants
<1>2. journal' \in [items : SUBSET Sites, before : Wanted, after : [Sites -> Content],
                    mid : [Sites -> SUBSET Content]]
  <2> HIDE DEF want
  <2>1. journal' = [items |-> {s \in Sites : entry.files[s] # "absent" \/ want[s] # "absent"},
                    before |-> entry.files, after |-> want, mid |-> [s \in Sites |-> {}]]
    BY DEF Begin, want
  <2>2. [s \in Sites |-> {}] \in [Sites -> SUBSET Content]
    OBVIOUS
  <2> QED BY <1>1, <2>1, <2>2 DEF SiteTypeOK
<1>3. UNCHANGED <<entry, context, disk, served, siteSpent>>
      /\ tool' = [pc |-> "context", target |-> target, again |-> again, todo |-> {}, seen |-> {}]
  BY DEF Begin
<1> QED BY <1>2, <1>3 DEF SiteTypeOK

LEMMA ObtainType ==
    ASSUME SiteTypeOK, Obtain
    PROVE  SiteTypeOK'
<1> DEFINE mid == [s \in Sites |-> IF s \in Kept THEN journal.mid[s] \cup {journal.after[s]}
                                   ELSE journal.mid[s]]
<1>1. mid \in [Sites -> SUBSET Content]
  BY DEF SiteTypeOK
<1>2. journal' = [journal EXCEPT !.mid = mid, !.after = tool.target]
  BY DEF Obtain, SiteTypeOK
<1>3. journal' \in [items : SUBSET Sites, before : Wanted, after : [Sites -> Content],
                    mid : [Sites -> SUBSET Content]]
  <2> HIDE DEF mid
  <2> QED BY <1>1, <1>2, Words DEF SiteTypeOK
<1>4. Move("final", Kept) /\ Kept \in SUBSET Sites
      /\ UNCHANGED <<entry, context, disk, served, siteSpent>>
  BY DEF Obtain, Kept, SiteTypeOK
<1> QED BY <1>3, <1>4, Moved DEF SiteTypeOK, Guarded

LEMMA StepType ==
    ASSUME SiteTypeOK, At("context") => context < MaxRev, [SiteNext]_siteVars
    PROVE  SiteTypeOK'
<1>1. ASSUME NEW t \in Wanted, NEW g \in BOOLEAN, NEW b \in Boots, Begin(t, g, b)
      PROVE  SiteTypeOK'
  BY <1>1, BeginType
<1>2. CASE SaveContext
  <2>1. context' \in 0..MaxRev
    BY <1>2, SiteAssumption DEF SaveContext, SiteTypeOK
  <2> QED BY <1>2, <2>1, Moved DEF SaveContext, SiteTypeOK, Guarded
<1>3. CASE Published \/ Verify \/ FinalReload \/ RollbackReload \/ Abort \/ NginxRestart
  BY <1>3, Moved DEF Published, Verify, FinalReload, RollbackReload, Abort, NginxRestart,
                     SiteTypeOK, Guarded
<1>4. CASE Reload
  BY <1>4, Moved DEF Reload, SiteTypeOK, Guarded
<1>5. CASE Obtain
  BY <1>5, ObtainType
<1>6. CASE Commit
  <2>1. entry' \in [files : Wanted, rev : 0..MaxRev]
    BY <1>6 DEF Commit, SiteTypeOK
  <2> QED BY <1>6, <2>1, Moved DEF Commit, SiteTypeOK, Guarded
<1>7. CASE Finish
  BY <1>7, Words DEF Finish, SiteTypeOK, NoJournal, Idle
<1>8. CASE Kill
  <2>1. siteSpent' \in [edits : 0..MaxEdits, faults : 0..MaxFaults]
    BY <1>8, SiteAssumption DEF Kill, SiteTypeOK
  <2> QED BY <1>8, <2>1, Words DEF Kill, SiteTypeOK, Idle
<1>9. CASE Recover
  BY <1>9, Moved DEF Recover, SiteTypeOK, Guarded
<1>10. ASSUME NEW s \in Sites, Publish(s) \/ Final(s) \/ Rollback(s)
       PROVE  SiteTypeOK'
  <2>1. disk' \in [Sites -> Content]
    BY <1>10, Words DEF Publish, Final, Rollback, Restored, SiteTypeOK
  <2>2. UNCHANGED <<entry, context, served, journal, siteSpent>>
        /\ Move(tool.pc, tool.todo \ {s}) /\ tool.todo \ {s} \in SUBSET Sites
    BY <1>10 DEF Publish, Final, Rollback, SiteTypeOK, At
  <2> QED BY <2>1, <2>2, Moved DEF SiteTypeOK
<1>11. ASSUME NEW s \in Sites, RollbackRefused(s)
       PROVE  SiteTypeOK'
  BY <1>11, Words DEF RollbackRefused, SiteTypeOK, Idle
<1>12. ASSUME NEW s \in Sites, EditSite(s)
       PROVE  SiteTypeOK'
  <2>1. disk' \in [Sites -> Content] /\ siteSpent' \in [edits : 0..MaxEdits, faults : 0..MaxFaults]
    BY <1>12, Words, SiteAssumption DEF EditSite, SiteTypeOK
  <2> QED BY <1>12, <2>1 DEF EditSite, SiteTypeOK
<1>13. ASSUME NEW s \in Sites, PublishCompares(s) \/ RollbackCompares(s)
       PROVE  SiteTypeOK'
  <2>1. UNCHANGED <<entry, context, disk, served, journal, siteSpent>>
    BY <1>13 DEF PublishCompares, RollbackCompares
  <2>2. Decides(s) \/ (Move("rollback", tool.todo \ {s}) /\ tool.todo \ {s} \in SUBSET Sites)
    BY <1>13 DEF PublishCompares, RollbackCompares, SiteTypeOK
  <2> QED BY <2>1, <2>2, Moved, Decided DEF SiteTypeOK
<1>14. CASE UNCHANGED siteVars
  BY <1>14 DEF siteVars, SiteTypeOK
<1> QED
  BY <1>1, <1>2, <1>3, <1>4, <1>5, <1>6, <1>7, <1>8, <1>9, <1>10, <1>11, <1>12, <1>13, <1>14
     DEF SiteNext

-------------------------------------------------------------------------------
\* While an operation is under way its journal is empty only if it has no
\* site at all to change.
LEMMA EmptyJournal ==
    ASSUME SiteTypeOK, JournalShape
    PROVE  /\ journal = NoJournal <=> journal.items = {}
           /\ journal = NoJournal => journal.before = Nothing /\ journal.after = Nothing
<1>1. journal = NoJournal => /\ journal.items = {}
                             /\ journal.before = Nothing /\ journal.after = Nothing
  BY DEF NoJournal
<1>2. ASSUME journal.items = {} PROVE journal = NoJournal
  <2>1. journal.before = Nothing /\ journal.after = Nothing
    BY <1>2 DEF SiteTypeOK, JournalShape, Nothing, Wanted
  <2>2. journal.mid = [s \in Sites |-> {}]
    BY <1>2 DEF SiteTypeOK, JournalShape
  <2> QED BY <1>2, <2>1, <2>2 DEF SiteTypeOK, NoJournal
<1> QED BY <1>1, <1>2

LEMMA NothingOpen == NoJournal.items = {}
BY DEF NoJournal

LEMMA BeginInv ==
    ASSUME SiteInv, NEW target \in Wanted, NEW again \in BOOLEAN, NEW boot \in Boots,
           Begin(target, again, boot), SiteTypeOK'
    PROVE  SiteInv'
<1> DEFINE want == [s \in Sites |-> IF s \in boot THEN "boot" ELSE target[s]]
<1>1. /\ journal'.items = {s \in Sites : entry.files[s] # "absent" \/ want[s] # "absent"}
      /\ journal'.before = entry.files /\ journal'.after = want
      /\ journal'.mid = [s \in Sites |-> {}]
      /\ tool' = [pc |-> "context", target |-> target, again |-> again, todo |-> {}, seen |-> {}]
      /\ UNCHANGED <<entry, context, disk, served, siteSpent>>
      /\ At("idle") /\ journal = NoJournal /\ context < MaxRev
      /\ boot # {} => again /\ \A s \in boot : target[s] # "absent"
  BY DEF Begin
<1>2. Calm /\ Calm'
  BY <1>1 DEF SiteInv, InProgress, Calm
<1>3. \A s \in Sites : want[s] # "edited" /\ (target[s] = "absent" <=> want[s] = "absent")
  BY <1>1, Words
<1>4. ~ again => want = target
  <2> SUFFICES ASSUME ~ again PROVE want = target
    OBVIOUS
  <2>1. boot = {}
    BY <1>1
  <2> QED BY <2>1 DEF Wanted
<1> HIDE DEF want
<1>5. JournalShape'
  BY <1>1, <1>3 DEF JournalShape
<1>6. Recorded'
  <2>1. \A s \in Sites : {disk[s], served[s]}' \subseteq Possible(s)'
    BY <1>1, <1>2 DEF Calm, Possible
  <2> QED BY <1>1, <1>2, <2>1 DEF Recorded
<1>7. Position'
  BY <1>1, <1>2, <1>3, <1>4 DEF Position, At, Guarded, Before
<1>8. InProgress'
  BY <1>1 DEF InProgress, At
<1> QED BY <1>1, <1>5, <1>6, <1>7, <1>8 DEF SiteInv

LEMMA ContextInv ==
    ASSUME SiteInv, SaveContext, SiteTypeOK'
    PROVE  SiteInv'
<1>1. /\ At("context") /\ context' = context + 1 /\ Move("publish", journal.items)
      /\ UNCHANGED <<entry, disk, served, journal, siteSpent>>
  BY DEF SaveContext
<1>2. /\ tool'.pc = "publish" /\ tool'.todo = journal.items
      /\ tool'.target = tool.target /\ tool'.again = tool.again
  BY <1>1, Moved DEF SiteInv
<1>3. entry.rev <= context /\ entry.rev \in Nat /\ context \in Nat
  BY DEF SiteInv, SiteTypeOK
<1>4. entry'.rev <= context' /\ entry'.rev # context'
  BY <1>1, <1>3
<1>5. Calm /\ entry.files = journal.before /\ Recorded
  BY <1>1 DEF SiteInv, Position, InProgress, At
<1>6. Recorded'
  BY <1>1, <1>4, <1>5 DEF Recorded, Possible
<1>7. \A s \in Sites \ journal.items : Written(s)
  BY <1>5 DEF SiteInv, JournalShape, Calm, Written
<1>8. Position'
  BY <1>1, <1>2, <1>4, <1>7 DEF SiteInv, Position, At, Guarded, Before, Written
<1> QED BY <1>1, <1>2, <1>4, <1>6, <1>8 DEF SiteInv, JournalShape, InProgress, At

\* A step that leaves everything but the tool's position alone.
LEMMA ToolOnly ==
    ASSUME SiteInv, SiteTypeOK', NEW l, NEW todo, Move(l, todo), l # "idle", ~ At("idle"),
           UNCHANGED <<entry, context, disk, served, journal, siteSpent>>, Position'
    PROVE  SiteInv'
<1>1. tool'.pc = l
  BY Moved DEF SiteInv
<1>2. InProgress /\ InProgress'
  BY <1>1 DEF InProgress, At
<1>3. Recorded'
  BY <1>2 DEF SiteInv, Recorded, Possible, Calm
<1> QED BY <1>2, <1>3 DEF SiteInv, JournalShape

LEMMA PublishInv ==
    ASSUME SiteInv, NEW s \in Sites, Publish(s), SiteTypeOK'
    PROVE  SiteInv'
<1>1. /\ At("publish")
      /\ disk' = [disk EXCEPT ![s] = journal.after[s]]
      /\ Move("publish", tool.todo \ {s})
      /\ UNCHANGED <<entry, context, served, journal, siteSpent>>
  BY DEF Publish
<1>2. /\ tool'.pc = "publish" /\ tool'.todo = tool.todo \ {s}
      /\ tool'.target = tool.target /\ tool'.again = tool.again
  BY <1>1, Moved DEF SiteInv
<1>3. \A q \in Sites : disk'[q] = IF q = s THEN journal.after[s] ELSE disk[q]
  BY <1>1 DEF SiteInv, SiteTypeOK
<1>4. Recorded /\ entry.rev # context
  BY <1>1 DEF SiteInv, InProgress, Position, At, Guarded
<1>5. Recorded'
  BY <1>1, <1>3, <1>4 DEF Recorded, Possible
<1>6. Position'
  BY <1>1, <1>2, <1>3 DEF SiteInv, Position, At, Guarded, Before, Written
<1> QED BY <1>1, <1>2, <1>5, <1>6 DEF SiteInv, JournalShape, InProgress, At

\* A comparison writes nothing; one that finds the old content is done with it.
LEMMA CompareInv ==
    ASSUME SiteInv, NEW s \in Sites, PublishCompares(s) \/ RollbackCompares(s), SiteTypeOK'
    PROVE  SiteInv'
<1>1. /\ At("publish") \/ At("rollback")
      /\ UNCHANGED <<entry, context, disk, served, journal, siteSpent>>
  BY DEF PublishCompares, RollbackCompares
<1>2. /\ tool'.pc = tool.pc /\ tool'.target = tool.target /\ tool'.again = tool.again
      /\ \/ tool'.todo = tool.todo
         \/ At("rollback") /\ disk[s] = journal.before[s] /\ tool'.todo = tool.todo \ {s}
  <2>1. CASE Decides(s)
    BY <2>1, Decided DEF SiteInv
  <2>2. CASE At("rollback") /\ disk[s] = journal.before[s] /\ Move("rollback", tool.todo \ {s})
    BY <2>2, Moved DEF SiteInv, At
  <2> QED BY <2>1, <2>2 DEF PublishCompares, RollbackCompares
<1>3. InProgress /\ InProgress'
  BY <1>1, <1>2 DEF InProgress, At
<1>4. Recorded'
  BY <1>1, <1>3 DEF SiteInv, Recorded, Possible, Calm
<1>5. Position'
  BY <1>1, <1>2 DEF SiteInv, Position, At, Guarded, Before, Written, Read, Calm
<1> QED BY <1>1, <1>3, <1>4, <1>5 DEF SiteInv, JournalShape

LEMMA CheckInv ==
    ASSUME SiteInv, Published \/ Verify \/ Abort, SiteTypeOK'
    PROVE  SiteInv'
<1>1. PICK l \in {"reload", "commit", "rollback"}, todo \in {{}, journal.items} :
         /\ Move(l, todo)
         /\ l = "reload" => At("publish") /\ tool.todo = {}
         /\ l = "commit" => At("verify")
         /\ l = "rollback" => tool.pc \in Guarded /\ todo = journal.items
  BY DEF Published, Verify, Abort
<1>2. UNCHANGED <<entry, context, disk, served, journal, siteSpent>>
  BY DEF Published, Verify, Abort
<1>3. /\ tool'.pc = l /\ tool'.todo = todo
      /\ tool'.target = tool.target /\ tool'.again = tool.again
  BY <1>1, Moved DEF SiteInv
<1>4. ~ At("idle") /\ tool.pc \in Guarded
  BY <1>1 DEF At, Guarded
<1>5. Recorded /\ entry.rev # context
  BY <1>4 DEF SiteInv, InProgress, Position
<1>6. \A s \in Sites \ journal.items : disk[s] \in {journal.before[s], "edited"}
  BY <1>5 DEF SiteInv, JournalShape, Recorded, Possible
<1>7. Position'
  BY <1>1, <1>2, <1>3, <1>5, <1>6
     DEF SiteInv, Recorded, Position, At, Guarded, Before, Written, Read
<1> QED BY <1>1, <1>2, <1>4, <1>7, ToolOnly

LEMMA ReloadInv ==
    ASSUME SiteInv, Reload \/ FinalReload, SiteTypeOK'
    PROVE  SiteInv'
<1>1. /\ served' = disk /\ UNCHANGED <<entry, context, disk, journal, siteSpent>>
      /\ At("reload") \/ (At("final") /\ tool.todo = {})
  BY DEF Reload, FinalReload
<1>2. PICK l \in {"obtain", "verify"} : /\ Move(l, {})
                                        /\ l = "obtain" => At("reload")
                                        /\ l = "verify" => At("final") \/ ~ tool.again
  BY DEF Reload, FinalReload
<1>3. /\ tool'.pc = l /\ tool'.todo = {}
      /\ tool'.target = tool.target /\ tool'.again = tool.again
  BY <1>2, Moved DEF SiteInv
<1>4. Recorded /\ entry.rev # context
  BY <1>1 DEF SiteInv, InProgress, Position, At, Guarded
<1>5. \A s \in Sites : Written(s)
  BY <1>1 DEF SiteInv, Position, At
<1>6. Recorded'
  BY <1>1, <1>4 DEF Recorded, Possible
<1>7. \A s \in Sites : Written(s)' /\ Read(s)'
  BY <1>1, <1>5 DEF Written, Read
<1>8. l = "verify" => journal.after = tool.target
  BY <1>1, <1>2 DEF SiteInv, Position, At
<1>9. Position'
  BY <1>1, <1>2, <1>3, <1>4, <1>7, <1>8 DEF SiteInv, Position, At, Guarded, Before
<1> QED BY <1>1, <1>2, <1>3, <1>4, <1>6, <1>9 DEF SiteInv, JournalShape, InProgress, At

LEMMA ObtainInv ==
    ASSUME SiteInv, Obtain, SiteTypeOK'
    PROVE  SiteInv'
<1> DEFINE mid == [s \in Sites |-> IF s \in Kept THEN journal.mid[s] \cup {journal.after[s]}
                                   ELSE journal.mid[s]]
<1>1. /\ At("obtain") /\ Move("final", Kept)
      /\ UNCHANGED <<entry, context, disk, served, siteSpent>>
  BY DEF Obtain
<1>2. /\ journal'.items = journal.items /\ journal'.before = journal.before
      /\ journal'.after = tool.target /\ journal'.mid = mid
  BY DEF Obtain, SiteInv, SiteTypeOK
<1>3. /\ tool'.pc = "final" /\ tool'.todo = Kept
      /\ tool'.target = tool.target /\ tool'.again = tool.again
  BY <1>1, Moved DEF SiteInv
<1>4. \A s \in Sites : /\ s \in Kept => mid[s] = journal.mid[s] \cup {journal.after[s]}
                       /\ s \notin Kept => mid[s] = journal.mid[s]
  OBVIOUS
<1> HIDE DEF mid
<1>5. Recorded /\ entry.rev # context
  BY <1>1 DEF SiteInv, InProgress, Position, At, Guarded
<1>6. \A s \in Sites : /\ Written(s) /\ Read(s)
                       /\ tool.target[s] = "absent" <=> journal.after[s] = "absent"
  BY <1>1 DEF SiteInv, Position, At, Before
<1>7. \A s \in Sites \ Kept : journal.after[s] = tool.target[s] \/ s \notin journal.items
  BY <1>6 DEF Kept
<1>8. \A s \in Sites \ journal.items : tool.target[s] = "absent" /\ s \notin Kept
  BY <1>6 DEF SiteInv, JournalShape, Kept
<1>9. JournalShape'
  <2>1. \A s \in Sites : journal'.after[s] # "edited"
    BY <1>2, Words DEF SiteInv, SiteTypeOK
  <2>2. \A s \in Sites : "edited" \notin journal'.mid[s]
    BY <1>2, <1>4 DEF SiteInv, JournalShape
  <2>3. \A s \in Sites \ journal.items : mid[s] = {}
    BY <1>4, <1>8 DEF SiteInv, JournalShape
  <2> QED BY <1>2, <1>8, <2>1, <2>2, <2>3 DEF SiteInv, JournalShape
<1>10. \A s \in Sites \ Kept : disk[s] \in {tool.target[s], "edited"}
                               /\ served[s] \in {tool.target[s], "edited"}
  <2>1. \A s \in Sites \ Kept : journal.after[s] = tool.target[s]
    BY <1>7, <1>8 DEF SiteInv, JournalShape
  <2> QED BY <1>6, <2>1 DEF Written, Read
<1>11. Recorded'
  <2>1. ASSUME NEW s \in Sites
        PROVE  {disk[s], served[s]} \subseteq {tool.target[s], "edited"} \cup mid[s]
    <3>1. CASE s \in Kept
      BY <1>4, <1>6, <3>1 DEF Written, Read
    <3>2. CASE s \notin Kept
      BY <1>10, <3>2
    <3> QED BY <3>1, <3>2
  <2>2. \A s \in Sites : {disk[s], served[s]}' \subseteq Possible(s)'
    BY <1>1, <1>2, <2>1 DEF Possible
  <2> QED BY <1>1, <1>2, <1>5, <2>2 DEF Recorded
<1>12. Position'
  <2>1. Kept \subseteq journal.items
    BY DEF Kept
  <2>2. \A s \in Sites \ tool'.todo : Written(s)'
    BY <1>1, <1>2, <1>3, <1>10 DEF Written
  <2> QED BY <1>1, <1>2, <1>3, <1>5, <2>1, <2>2 DEF Position, At, Guarded, Before
<1> QED BY <1>1, <1>3, <1>9, <1>11, <1>12 DEF SiteInv, InProgress, At

LEMMA FinalInv ==
    ASSUME SiteInv, NEW s \in Sites, Final(s), SiteTypeOK'
    PROVE  SiteInv'
<1>1. /\ At("final") /\ s \in tool.todo
      /\ disk' = [disk EXCEPT ![s] = tool.target[s]]
      /\ Move("final", tool.todo \ {s})
      /\ UNCHANGED <<entry, context, served, journal, siteSpent>>
  BY DEF Final
<1>2. /\ tool'.pc = "final" /\ tool'.todo = tool.todo \ {s}
      /\ tool'.target = tool.target /\ tool'.again = tool.again
  BY <1>1, Moved DEF SiteInv
<1>3. journal.after = tool.target
  BY <1>1 DEF SiteInv, Position, At
<1>4. \A q \in Sites : disk'[q] = IF q = s THEN journal.after[s] ELSE disk[q]
  BY <1>1, <1>3 DEF SiteInv, SiteTypeOK
<1>5. Recorded /\ entry.rev # context
  BY <1>1 DEF SiteInv, InProgress, Position, At, Guarded
<1>6. Recorded'
  BY <1>1, <1>4, <1>5 DEF Recorded, Possible
<1>7. Position'
  BY <1>1, <1>2, <1>4 DEF SiteInv, Position, At, Guarded, Before, Written
<1> QED BY <1>1, <1>2, <1>6, <1>7 DEF SiteInv, JournalShape, InProgress, At

LEMMA CommitInv ==
    ASSUME SiteInv, Commit, SiteTypeOK'
    PROVE  SiteInv'
<1>1. /\ At("commit") /\ Move("committed", {})
      /\ entry'.files = tool.target /\ entry'.rev = context
      /\ UNCHANGED <<context, disk, served, journal, siteSpent>>
  BY DEF Commit
<1>2. tool'.pc = "committed"
  BY <1>1, Moved DEF SiteInv
<1>3. /\ journal.after = tool.target
      /\ \A s \in Sites : Written(s) /\ Read(s)
  BY <1>1 DEF SiteInv, Position, At
<1>4. Calm'
  BY <1>1, <1>3 DEF Calm, Written, Read
<1>5. Recorded'
  <2>1. Recorded
    BY <1>1 DEF SiteInv, InProgress, At
  <2> QED BY <1>1, <1>3, <1>4, <2>1 DEF Recorded, Possible
<1>6. entry'.rev <= context'
  BY <1>1 DEF SiteInv, SiteTypeOK
<1>7. Position'
  BY <1>1, <1>2 DEF Position, At, Guarded, Before
<1> QED BY <1>1, <1>2, <1>5, <1>6, <1>7 DEF SiteInv, JournalShape, InProgress, At

LEMMA FinishInv ==
    ASSUME SiteInv, Finish, SiteTypeOK'
    PROVE  SiteInv'
<1>1. /\ At("committed") \/ At("finish")
      /\ journal' = NoJournal /\ tool' = Idle
      /\ UNCHANGED <<entry, context, disk, served, siteSpent>>
  BY DEF Finish
<1>2. Calm
  BY <1>1 DEF SiteInv, InProgress, Position, Recorded, At
<1>3. Calm'
  BY <1>1, <1>2 DEF Calm
<1>4. JournalShape'
  BY <1>1 DEF JournalShape, NoJournal, Nothing
<1>5. ~ InProgress' /\ Position'
  BY <1>1 DEF InProgress, Position, At, Idle, Guarded, Before
<1> QED BY <1>1, <1>3, <1>4, <1>5 DEF SiteInv

LEMMA RollbackInv ==
    ASSUME SiteInv, NEW s \in Sites, Rollback(s), SiteTypeOK'
    PROVE  SiteInv'
<1>1. /\ At("rollback")
      /\ disk' = [disk EXCEPT ![s] = journal.before[s]]
      /\ Move("rollback", tool.todo \ {s})
      /\ UNCHANGED <<entry, context, served, journal, siteSpent>>
  BY DEF Rollback, Restored
<1>2. tool'.pc = "rollback" /\ tool'.todo = tool.todo \ {s}
  BY <1>1, Moved DEF SiteInv
<1>3. \A q \in Sites : disk'[q] = IF q = s THEN journal.before[s] ELSE disk[q]
  BY <1>1 DEF SiteInv, SiteTypeOK
<1>4. Recorded /\ entry.files = journal.before
  BY <1>1 DEF SiteInv, InProgress, Position, At
<1>5. Recorded'
  <2>1. Calm => Calm'
    BY <1>1, <1>3, <1>4 DEF Calm
  <2> QED BY <1>1, <1>3, <1>4, <2>1 DEF Recorded, Possible
<1>6. Position'
  BY <1>1, <1>2, <1>3 DEF SiteInv, Position, At, Guarded, Before
<1> QED BY <1>1, <1>2, <1>5, <1>6 DEF SiteInv, JournalShape, InProgress, At

LEMMA RollbackReloadInv ==
    ASSUME SiteInv, RollbackReload, SiteTypeOK'
    PROVE  SiteInv'
<1>1. /\ At("rollback") /\ tool.todo = {} /\ served' = disk /\ Move("finish", {})
      /\ UNCHANGED <<entry, context, disk, journal, siteSpent>>
  BY DEF RollbackReload
<1>2. tool'.pc = "finish"
  BY <1>1, Moved DEF SiteInv
<1>3. Recorded /\ entry.files = journal.before /\ \A s \in Sites : disk[s] \in {journal.before[s], "edited"}
  BY <1>1 DEF SiteInv, InProgress, Position, At
<1>4. Calm'
  BY <1>1, <1>3 DEF Calm
<1>5. Recorded'
  BY <1>1, <1>3, <1>4 DEF Recorded, Possible
<1>6. Position'
  BY <1>2, <1>4 DEF Position, At, Guarded, Before
<1> QED BY <1>1, <1>2, <1>5, <1>6 DEF SiteInv, JournalShape, InProgress, At

\* The tool is gone; what it leaves is told by the journal and the revision.
\* An operation with nothing to change leaves no journal and changed nothing.
LEMMA StopInv ==
    ASSUME SiteInv, ~ At("idle"), tool' = Idle, SiteTypeOK',
           UNCHANGED <<entry, context, disk, served, journal>>
    PROVE  SiteInv'
<1>1. InProgress /\ Recorded
  BY DEF SiteInv, InProgress
<1>2. Recorded'
  BY <1>1 DEF Recorded, Possible, Calm
<1>3. Position'
  BY DEF Position, At, Idle, Guarded, Before
<1>4. ASSUME journal = NoJournal PROVE Calm'
  <2>1. \A s \in Sites : journal.before[s] = "absent" /\ journal.after[s] = "absent" /\ journal.mid[s] = {}
    BY <1>4, NothingOpen DEF SiteInv, JournalShape
  <2>2. journal.before = journal.after
    BY <1>4 DEF NoJournal
  <2>3. entry.files = journal.before
    BY <1>1, <2>2 DEF Recorded
  <2> QED BY <1>1, <2>1, <2>3 DEF Recorded, Possible, Calm
<1> QED BY <1>2, <1>3, <1>4 DEF SiteInv, JournalShape, InProgress, At, Idle

LEMMA RecoverInv ==
    ASSUME SiteInv, Recover, SiteTypeOK'
    PROVE  SiteInv'
<1>1. /\ At("idle") /\ journal # NoJournal
      /\ UNCHANGED <<entry, context, disk, served, journal, siteSpent>>
  BY DEF Recover
<1>2. Recorded /\ Recorded' /\ InProgress'
  BY <1>1 DEF SiteInv, InProgress, Recorded, Possible, Calm
<1>3. CASE CommittedAlready
  <2>1. Move("finish", {})
    BY <1>3 DEF Recover
  <2>2. tool'.pc = "finish"
    BY <2>1, Moved DEF SiteInv
  <2>3. Calm'
    BY <1>1, <1>2, <1>3 DEF Recorded, Calm, CommittedAlready
  <2>4. Position'
    BY <2>2, <2>3 DEF Position, At, Guarded, Before
  <2> QED BY <1>1, <1>2, <2>4 DEF SiteInv, JournalShape
<1>4. CASE ~ CommittedAlready
  <2>1. Move("rollback", journal.items)
    BY <1>4 DEF Recover
  <2>2. tool'.pc = "rollback" /\ tool'.todo = journal.items
    BY <2>1, Moved DEF SiteInv
  <2>3. entry.files = journal.before
    BY <1>2, <1>4 DEF Recorded, CommittedAlready
  <2>4. \A s \in Sites \ journal.items : disk[s] \in {journal.before[s], "edited"}
    BY <1>2 DEF SiteInv, JournalShape, Recorded, Possible
  <2>5. Position'
    BY <1>1, <2>2, <2>3, <2>4 DEF Position, At, Guarded, Before
  <2> QED BY <1>1, <1>2, <2>5 DEF SiteInv, JournalShape
<1> QED BY <1>3, <1>4

LEMMA OthersInv ==
    ASSUME SiteInv, NginxRestart \/ (\E s \in Sites : EditSite(s)), SiteTypeOK'
    PROVE  SiteInv'
<1>1. UNCHANGED <<entry, context, journal, tool>>
  BY DEF NginxRestart, EditSite
<1>2. \A q \in Sites : disk'[q] \in {disk[q], "edited"} /\ served'[q] \in {served[q], disk[q]}
  BY DEF NginxRestart, EditSite, SiteInv, SiteTypeOK
<1>3. Calm => Calm'
  BY <1>1, <1>2 DEF Calm
<1>4. Recorded => Recorded'
  BY <1>1, <1>2, <1>3 DEF Recorded, Possible
<1>5. \A q \in Sites : (Written(q) => Written(q)') /\ (Written(q) /\ Read(q) => Read(q)')
  BY <1>1, <1>2 DEF Written, Read
<1>6. Position'
  BY <1>1, <1>2, <1>3, <1>5 DEF SiteInv, Position, At
<1> QED BY <1>1, <1>3, <1>4, <1>6 DEF SiteInv, JournalShape, InProgress, At

LEMMA StepInv == SiteInv /\ [SiteNext]_siteVars => SiteInv'
<1> SUFFICES ASSUME SiteInv, [SiteNext]_siteVars PROVE SiteInv'
  OBVIOUS
<1>1. SiteTypeOK'
  BY StepType DEF SiteInv, Position
<1>2. ASSUME NEW t \in Wanted, NEW g \in BOOLEAN, NEW b \in Boots, Begin(t, g, b)
      PROVE  SiteInv'
  BY <1>1, <1>2, BeginInv
<1>3. CASE SaveContext
  BY <1>1, <1>3, ContextInv
<1>4. CASE Published \/ Verify \/ Abort
  BY <1>1, <1>4, CheckInv
<1>5. CASE Reload \/ FinalReload
  BY <1>1, <1>5, ReloadInv
<1>6. CASE Obtain
  BY <1>1, <1>6, ObtainInv
<1>7. CASE Commit
  BY <1>1, <1>7, CommitInv
<1>8. CASE Finish
  BY <1>1, <1>8, FinishInv
<1>9. CASE RollbackReload
  BY <1>1, <1>9, RollbackReloadInv
<1>10. CASE Kill
  BY <1>1, <1>10, StopInv DEF Kill
<1>11. CASE Recover
  BY <1>1, <1>11, RecoverInv
<1>12. CASE NginxRestart
  BY <1>1, <1>12, OthersInv
<1>13. ASSUME NEW s \in Sites,
              \/ PublishCompares(s) \/ Publish(s) \/ Final(s)
              \/ RollbackCompares(s) \/ Rollback(s) \/ RollbackRefused(s) \/ EditSite(s)
       PROVE  SiteInv'
  <2>1. CASE Publish(s)
    BY <1>1, <2>1, PublishInv
  <2>2. CASE Final(s)
    BY <1>1, <2>2, FinalInv
  <2>3. CASE Rollback(s)
    BY <1>1, <2>3, RollbackInv
  <2>4. CASE RollbackRefused(s)
    BY <1>1, <2>4, StopInv DEF RollbackRefused, At
  <2>5. CASE EditSite(s)
    BY <1>1, <2>5, OthersInv
  <2>6. CASE PublishCompares(s) \/ RollbackCompares(s)
    BY <1>1, <2>6, CompareInv
  <2> QED BY <1>13, <2>1, <2>2, <2>3, <2>4, <2>5, <2>6
<1>14. CASE UNCHANGED siteVars
  BY <1>14 DEF siteVars, SiteInv, SiteTypeOK, InProgress, Recorded, Position, JournalShape, Calm,
               Possible, Written, Read, At
<1> QED
  BY <1>2, <1>3, <1>4, <1>5, <1>6, <1>7, <1>8, <1>9, <1>10, <1>11, <1>12, <1>13, <1>14 DEF SiteNext

LEMMA SiteInvariant == SiteSpec => []SiteInv
<1>1. SiteInit => SiteInv
  BY InitInv
<1> QED BY <1>1, StepInv, PTL DEF SiteSpec

-------------------------------------------------------------------------------
\* Every variable of the site transaction keeps to its type.
THEOREM SiteTypes == SiteSpec => []SiteTypeOK
BY SiteInvariant, PTL DEF SiteInv

\* Whatever was cut short, edited or repaired before: without a journal the
\* files are the committed ones and Nginx serves them (transaction, recover).
THEOREM SiteSettled == SiteSpec => []Settled
<1>1. SiteInv => Settled
  <2> SUFFICES ASSUME SiteInv, journal = NoJournal PROVE Calm
    BY DEF Settled, Calm
  <2>1. CASE At("idle")
    BY <2>1 DEF SiteInv, InProgress
  <2>2. CASE ~ At("idle")
    <3>1. Recorded
      BY <2>2 DEF SiteInv, InProgress
    <3>2. \A s \in Sites : journal.before[s] = "absent" /\ journal.after[s] = "absent" /\ journal.mid[s] = {}
      BY NothingOpen DEF SiteInv, JournalShape
    <3>3. entry.files = journal.before
      BY <3>1 DEF Recorded, NoJournal
    <3> QED BY <3>1, <3>2, <3>3 DEF Recorded, Possible, Calm
  <2> QED BY <2>1, <2>2
<1> QED BY <1>1, SiteInvariant, PTL

\* Only the steps that write change a file; each writes one it has compared.
LEMMA WritersCompared ==
    ASSUME SiteInv, SiteNext, NEW s \in Sites, disk[s] = "edited", disk'[s] # "edited"
    PROVE  s \in InHand
<1>1. PICK q \in Sites : Publish(q) \/ Final(q) \/ Rollback(q) \/ EditSite(q)
  BY DEF SiteNext, Begin, SaveContext, PublishCompares, Published, Reload, Obtain, FinalReload,
         Verify, Commit, Finish, Abort, RollbackCompares, RollbackReload, Kill, Recover,
         NginxRestart, RollbackRefused
<1>2. q = s /\ ~ EditSite(q)
  BY <1>1 DEF Publish, Final, Rollback, EditSite, SiteInv, SiteTypeOK
<1> QED BY <1>1, <1>2 DEF Publish, Final, Rollback, InHand, At

\* No comparison lets the tool write over an edit: the contents it looks for
\* are never one, and neither are those the journal knows.
LEMMA EditsAreSeen ==
    ASSUME SiteInv, SiteNext, NEW s \in Sites, disk[s] = "edited", s \in InHand'
    PROVE  s \in InHand
<1>1. journal.before[s] # "edited" /\ journal.after[s] # "edited" /\ ~ Known(s)
  BY Words DEF SiteInv, SiteTypeOK, JournalShape, Known
<1>2. ASSUME NEW l, NEW todo, l # "final", Move(l, todo)
      PROVE  FALSE
  BY <1>2, Moved DEF SiteInv, InHand, At
<1>3. tool' # Idle
  BY DEF InHand, At, Idle
<1>4. CASE UNCHANGED tool
  BY <1>4 DEF InHand, At
<1>5. CASE Obtain
  <2>1. Move("final", Kept) /\ s \notin Kept
    BY <1>1, <1>5 DEF Obtain
  <2> QED BY <2>1, Moved DEF SiteInv, InHand, At
<1>6. ASSUME NEW q \in Sites, Final(q)
      PROVE  s \in InHand
  <2>1. At("final") /\ Move("final", tool.todo \ {q})
    BY <1>6 DEF Final
  <2> QED BY <2>1, Moved DEF SiteInv, InHand, At
<1>7. ASSUME NEW q \in Sites, PublishCompares(q) \/ RollbackCompares(q)
      PROVE  s \in InHand
  <2>1. Decides(q) /\ q # s /\ ~ At("final")
    BY <1>1, <1>2, <1>7 DEF PublishCompares, RollbackCompares, StillBefore, At
  <2> QED BY <2>1, Decided DEF SiteInv, InHand, At
<1>8. ASSUME NEW q \in Sites, \/ Publish(q) \/ Rollback(q) \/ RollbackRefused(q) \/ EditSite(q)
      PROVE  s \in InHand
  BY <1>2, <1>3, <1>4, <1>8 DEF Publish, Rollback, RollbackRefused, EditSite
<1>9. ASSUME NEW t \in Wanted, NEW g \in BOOLEAN, NEW b \in Boots, Begin(t, g, b)
      PROVE  FALSE
  BY <1>9 DEF Begin, InHand, At
<1>10. CASE \/ SaveContext \/ Published \/ Reload \/ FinalReload \/ Verify \/ Commit \/ Abort
            \/ RollbackReload \/ Recover
  <2>1. \E l, todo : l # "final" /\ Move(l, todo)
    BY <1>10 DEF SaveContext, Published, Reload, FinalReload, Verify, Commit, Abort, RollbackReload,
                 Recover
  <2> QED BY <1>2, <2>1
<1>11. CASE Finish \/ Kill \/ NginxRestart
  BY <1>3, <1>4, <1>11 DEF Finish, Kill, NginxRestart
<1> QED BY <1>5, <1>6, <1>7, <1>8, <1>9, <1>10, <1>11 DEF SiteNext

\* An edit of the directory's owner is written over only if it was made after
\* the tool had compared that file and decided to write it; the tool never
\* decides so over an edit (publish, rollback, the second publication).
THEOREM SiteEditsSurvive == SiteSpec => EditsSurvive
<1>1. SiteInv /\ [SiteNext]_siteVars =>
        [\A s \in Sites : disk[s] = "edited" =>
            /\ disk'[s] = "edited" \/ s \in InHand
            /\ s \in InHand' => s \in InHand]_siteVars
  BY WritersCompared, EditsAreSeen
<1> QED BY <1>1, SiteInvariant, PTL DEF SiteSpec, EditsSurvive

\* What has been compared is still to do.
Listed == tool.seen \subseteq tool.todo

LEMMA ListedStep ==
    ASSUME SiteTypeOK, Listed, [SiteNext]_siteVars
    PROVE  Listed'
<1>1. ASSUME NEW l, NEW todo, Move(l, todo) PROVE Listed'
  BY <1>1, Moved DEF Listed
<1>2. ASSUME tool' = Idle PROVE Listed'
  BY <1>2 DEF Listed, Idle
<1>3. ASSUME UNCHANGED tool PROVE Listed'
  BY <1>3 DEF Listed
<1>4. ASSUME NEW s \in Sites, PublishCompares(s) \/ RollbackCompares(s)
      PROVE  Listed'
  <2>1. (Decides(s) /\ s \in tool.todo) \/ Move("rollback", tool.todo \ {s})
    BY <1>4 DEF PublishCompares, RollbackCompares
  <2> QED BY <1>1, <2>1, Decided DEF Listed
<1>5. ASSUME NEW s \in Sites, \/ Publish(s) \/ Final(s) \/ Rollback(s) \/ RollbackRefused(s)
                               \/ EditSite(s)
      PROVE  Listed'
  <2>1. \/ Move("publish", tool.todo \ {s}) \/ Move("final", tool.todo \ {s})
        \/ Move("rollback", tool.todo \ {s}) \/ tool' = Idle \/ UNCHANGED tool
    BY <1>5 DEF Publish, Final, Rollback, RollbackRefused, EditSite
  <2> QED BY <1>1, <1>2, <1>3, <2>1
<1>6. ASSUME NEW t \in Wanted, NEW g \in BOOLEAN, NEW b \in Boots, Begin(t, g, b)
      PROVE  Listed'
  BY <1>6 DEF Begin, Listed
<1>7. CASE \/ SaveContext \/ Published \/ Reload \/ Obtain \/ FinalReload \/ Verify \/ Commit \/ Abort
           \/ RollbackReload \/ Recover
  <2>1. \E l, todo : Move(l, todo)
    BY <1>7 DEF SaveContext, Published, Reload, Obtain, FinalReload, Verify, Commit, Abort,
                RollbackReload, Recover
  <2> QED BY <1>1, <2>1
<1>8. CASE Finish \/ Kill \/ NginxRestart \/ UNCHANGED siteVars
  BY <1>2, <1>3, <1>8 DEF Finish, Kill, NginxRestart, siteVars
<1> QED BY <1>4, <1>5, <1>6, <1>7, <1>8 DEF SiteNext

LEMMA ListedInvariant == SiteSpec => []Listed
<1>1. SiteInit => Listed
  BY DEF SiteInit, Idle, Listed
<1>2. SiteTypeOK /\ Listed /\ [SiteNext]_siteVars => Listed'
  BY ListedStep
<1>3. SiteSpec => []SiteTypeOK
  BY SiteInvariant, PTL DEF SiteInv
<1> QED BY <1>1, <1>2, <1>3, PTL DEF SiteSpec

LEMMA InitPromise == SiteInit => Promise!Init
<1> SUFFICES ASSUME SiteInit PROVE Promise!Init
  OBVIOUS
<1>1. entry.files = Nothing /\ disk = Nothing /\ journal = NoJournal
  BY DEF SiteInit
<1> QED BY <1>1, Words DEF Promise!Init

LEMMA StepPromise ==
    SiteInv /\ SiteInv' /\ Listed /\ [SiteNext]_siteVars =>
        [Promise!Next]_<<entry.files, disk, journal # NoJournal>>
<1> SUFFICES ASSUME SiteInv, SiteInv', Listed, [SiteNext]_siteVars
             PROVE  Promise!Next \/ UNCHANGED <<entry.files, disk, journal # NoJournal>>
  OBVIOUS
<1>1. disk' \in [Sites -> Content] /\ entry'.files \in [Sites -> Content]
  BY Words DEF SiteInv, SiteTypeOK
<1>2. Calm => Promise!Agree(entry.files)
  BY DEF Calm, Promise!Agree
<1>3. ASSUME NEW t \in Wanted, NEW g \in BOOLEAN, NEW b \in Boots, Begin(t, g, b)
      PROVE  Promise!Begin \/ UNCHANGED <<entry.files, disk, journal # NoJournal>>
  <2>1. journal = NoJournal /\ At("idle") /\ UNCHANGED <<entry, disk>>
    BY <1>3 DEF Begin
  <2>2. Promise!Agree(entry.files)
    BY <1>2, <2>1 DEF SiteInv, InProgress
  <2>3. CASE journal' = NoJournal
    BY <2>1, <2>3
  <2>4. CASE journal' # NoJournal
    BY <2>1, <2>2, <2>4 DEF Promise!Begin
  <2> QED BY <2>3, <2>4
<1>4. CASE SaveContext \/ Published \/ Reload \/ FinalReload \/ Verify \/ Abort \/ RollbackReload
           \/ Kill \/ Recover \/ NginxRestart \/ UNCHANGED siteVars
  BY <1>4 DEF SaveContext, Published, Reload, FinalReload, Verify, Abort, RollbackReload, Kill, Recover,
              NginxRestart, siteVars
<1>5. CASE Obtain
  <2>1. journal'.items = journal.items /\ UNCHANGED <<entry, disk>>
    BY <1>5 DEF Obtain, SiteInv, SiteTypeOK
  <2>2. journal = NoJournal <=> journal.items = {}
    BY EmptyJournal DEF SiteInv
  <2>3. journal' = NoJournal <=> journal'.items = {}
    <3>1. (SiteTypeOK /\ JournalShape => (journal = NoJournal <=> journal.items = {}))'
      BY EmptyJournal, PTL
    <3> QED BY <3>1 DEF SiteInv
  <2> QED BY <2>1, <2>2, <2>3
<1>6. CASE Commit
  <2>1. At("commit") /\ entry'.files = tool.target /\ UNCHANGED <<disk, journal>>
    BY <1>6 DEF Commit
  <2>2. Recorded /\ entry.rev # context /\ journal.after = tool.target /\ \A s \in Sites : Written(s)
    BY <2>1 DEF SiteInv, InProgress, Position, At, Guarded
  <2>3. CASE journal = NoJournal
    <3>1. entry.files = Nothing /\ tool.target = Nothing
      BY <2>2, <2>3 DEF Recorded, NoJournal
    <3> QED BY <2>1, <2>3, <3>1
  <2>4. CASE journal # NoJournal
    <3>1. Promise!Agree(entry'.files)
      BY <2>1, <2>2 DEF Promise!Agree, Written
    <3> QED BY <1>1, <2>1, <2>4, <3>1 DEF Promise!Commit, Promise!Next, Promise!Agree
  <2> QED BY <2>3, <2>4
<1>7. CASE Finish
  <2>1. At("committed") \/ At("finish")
    BY <1>7 DEF Finish
  <2>2. journal' = NoJournal /\ UNCHANGED <<entry, disk>>
    BY <1>7 DEF Finish
  <2>3. Promise!Agree(entry.files)
    BY <1>2, <2>1 DEF SiteInv, InProgress, Position, Recorded, At
  <2>4. CASE journal = NoJournal
    BY <2>2, <2>4
  <2>5. CASE journal # NoJournal
    BY <2>2, <2>3, <2>5 DEF Promise!Settle, Promise!Next
  <2> QED BY <2>4, <2>5
<1>8. ASSUME NEW s \in Sites, Publish(s) \/ Final(s) \/ Rollback(s)
      PROVE  Promise!Write
  <2>1. UNCHANGED <<entry, journal>> /\ s \in tool.todo /\ tool.pc \in {"publish", "final", "rollback"}
    BY <1>8 DEF Publish, Final, Rollback, Listed, At
  <2>2. journal # NoJournal
    BY <2>1, NothingOpen DEF SiteInv, Position
  <2> QED BY <1>1, <2>1, <2>2 DEF Promise!Write
<1>9. ASSUME NEW s \in Sites, EditSite(s)
      PROVE  Promise!Edit
  BY <1>9 DEF EditSite, Promise!Edit
<1>10. ASSUME NEW s \in Sites, PublishCompares(s) \/ RollbackCompares(s) \/ RollbackRefused(s)
       PROVE  UNCHANGED <<entry.files, disk, journal # NoJournal>>
  BY <1>10 DEF PublishCompares, RollbackCompares, RollbackRefused
<1> QED
  BY <1>3, <1>4, <1>5, <1>6, <1>7, <1>8, <1>9, <1>10 DEF SiteNext, Promise!Next

\* The transaction implements the atomic change of AtomicChange: to whoever
\* looks while no journal stands, all of it has happened or nothing.
THEOREM SiteKeepsPromise == SiteSpec => KeepsPromise
<1>1. SiteInit => Promise!Init
  BY InitPromise
<1>2. SiteInv /\ SiteInv' /\ Listed /\ [SiteNext]_siteVars =>
        [Promise!Next]_<<entry.files, disk, journal # NoJournal>>
  BY StepPromise
<1> QED BY <1>1, <1>2, SiteInvariant, ListedInvariant, PTL DEF SiteSpec, KeepsPromise, Promise!Spec

-------------------------------------------------------------------------------
(* One installed edition *)

\* Nobody but the operation has acted since it began.
Alone == ~ run.touched

\* The reports a property speaks of; none stands while an operation runs.
Ends == {"upgraded", "restored", "completed", "failed"}

\* A Bot at work understands its database; the copy is never newer than it.
BotFits ==
    /\ bot.st = "up" /\ bot.prog = "old" => db = "old"
    /\ ~ Doing("idle") /\ run.copy = "new" => db = "new"

\* What the upgrade and the roll-back have established at each of their steps.
UpgradePosition ==
    /\ run.pc \in {"gwup", "build", "botup", "health"} => files = "new"
    /\ run.pc \in {"botup", "health"} => tag = "new"
    /\ run.pc \in {"rmbot", "clear", "untar", "database", "gwback", "botback", "recheck"} => tag = "old"
    /\ run.pc \in {"database", "gwback", "botback", "recheck"} => files = "old"
    /\ Alone /\ run.pc = "health" => db = "new"
    /\ Alone /\ run.pc \in {"botback", "recheck"} => gw = "up"
    /\ Alone /\ run.pc = "recheck" => bot.prog = "old"

\* What a snapshot has put to rest, and what it still has to start again.
SnapshotPosition == Alone =>
    /\ ~ Doing("idle") => run.same = Parts
    /\ run.pc \in {"stopgw", "quiet", "copying", "pack"} => bot.st # "up"
    /\ run.pc \in {"quiet", "copying", "pack"} => gw = "stopped"
    /\ run.pc \in {"copying", "pack"} => ~ busy
    /\ run.pc \in SnapshotSteps \cup {"regw", "rebot"} =>
          /\ run.failed = {}
          /\ "bot" \in run.stopped => bot.st = "stopped" /\ (bot.prog = "old" => db = "old")
          /\ bot.st = "up" <=> "bot" \in run.found \ run.stopped
          /\ run.stopped \subseteq run.found
    /\ run.pc \in SnapshotSteps \cup {"regw"} => (gw = "up" <=> "gw" \in run.found \ run.stopped)
    /\ run.pc = "rebot" => (gw = "up" <=> "gw" \in run.found)
    /\ run.pc = "close" /\ run.failed = {} => RunningParts = run.found

\* The inductive invariant of the edition.
InstanceInv ==
    /\ InstanceTypeOK
    /\ ended \in Ends => Doing("idle")
    /\ BotFits /\ UpgradePosition /\ SnapshotPosition
    /\ EndsWhole /\ QuietArchive /\ ServicesAsFound

Steps == {"idle"} \cup UpgradeSteps \cup RollbackSteps \cup SnapshotSteps \cup RestoreSteps
Operations ==
    [pc : Steps, copy : Progs \cup {"none"}, found : SUBSET Parts, stopped : SUBSET Parts,
     same : SUBSET Parts, failed : SUBSET Parts, copied : BOOLEAN, done : BOOLEAN, touched : BOOLEAN]
Bots == [st : {"absent", "stopped", "up"}, prog : Progs]
Archives == [quiet : BOOLEAN, idle : BOOLEAN, touched : BOOLEAN]

\* The types, with a name for each kind of record.
LEMMA InstanceTypes ==
    InstanceTypeOK <=>
        /\ files \in Progs \cup {"none"} /\ tag \in Progs /\ db \in Progs /\ busy \in BOOLEAN
        /\ bot \in Bots /\ gw \in {"stopped", "up"} /\ run \in Operations
        /\ ended \in {"none", "upgraded", "restored", "cut", "completed", "failed", "review"}
        /\ opLog \in {"none", "open", "completed", "failed", "review"} /\ archive \in Archives
BY DEF InstanceTypeOK, Operations, Bots, Archives, Steps

\* An operation goes to its next step, or a note is taken on the way.
LEMMA OperationTypes ==
    ASSUME NEW r \in Operations
    PROVE  /\ \A l \in Steps : [r EXCEPT !.pc = l] \in Operations
           /\ \A l \in Steps, p \in Progs \cup {"none"} : [r EXCEPT !.copy = p, !.pc = l] \in Operations
           /\ \A l \in Steps, s \in SUBSET Parts : [r EXCEPT !.stopped = s, !.pc = l] \in Operations
           /\ \A l \in Steps, s \in SUBSET Parts : [r EXCEPT !.failed = s, !.pc = l] \in Operations
           /\ \A l \in Steps : [r EXCEPT !.pc = l, !.done = TRUE] \in Operations
           /\ \A s \in SUBSET Parts : [r EXCEPT !.touched = TRUE, !.same = s] \in Operations
           /\ r.stopped \in SUBSET Parts /\ r.failed \in SUBSET Parts /\ r.same \in SUBSET Parts
           /\ r.found \in SUBSET Parts /\ r.pc \in Steps /\ r.copy \in Progs \cup {"none"}
           /\ r.touched \in BOOLEAN
BY DEF Operations

\* An operation that ends leaves nothing behind, or what it found.
LEMMA FreshTypes ==
    /\ NoRun \in Operations
    /\ [NoRun EXCEPT !.pc = "stop"] \in Operations
    /\ \A s \in SUBSET Parts : [NoRun EXCEPT !.pc = "stopbot", !.found = s] \in Operations
    /\ \A s \in SUBSET Parts, b \in BOOLEAN : [NoRun EXCEPT !.found = s, !.touched = b] \in Operations
BY DEF NoRun, Operations, Steps, Parts, UpgradeSteps, RollbackSteps, SnapshotSteps, RestoreSteps

\* What becomes of the containers.
LEMMA BotTypes ==
    ASSUME bot \in Bots, db \in Progs
    PROVE  /\ Stopped \in Bots /\ [bot EXCEPT !.st = "absent"] \in Bots /\ bot.prog \in Progs
           /\ \A p \in Progs : Starts(p) => bot' \in Bots /\ db' \in Progs
           /\ RunningParts \in SUBSET Parts
BY DEF Bots, Stopped, Starts, Migrated, Progs, RunningParts, Parts

\* Every step keeps the types; the tag is set where program files are there.
LEMMA InstanceStepTypes ==
    ASSUME InstanceTypeOK, UpgradePosition, InstanceNext
    PROVE  InstanceTypeOK'
<1> USE DEF Doing, Go
<1>1. /\ files \in Progs \cup {"none"} /\ tag \in Progs /\ db \in Progs /\ busy \in BOOLEAN
      /\ bot \in Bots /\ gw \in {"stopped", "up"} /\ run \in Operations
      /\ ended \in {"none", "upgraded", "restored", "cut", "completed", "failed", "review"}
      /\ opLog \in {"none", "open", "completed", "failed", "review"} /\ archive \in Archives
  BY InstanceTypes
<1>2. {"idle", "stop", "copy", "gwstop", "gwtar", "remove", "install", "gwup", "build", "botup",
       "health", "images", "rmbot", "clear", "untar", "database", "gwback", "botback", "recheck",
       "stopbot", "stopgw", "quiet", "copying", "pack", "regw", "rebot", "close"} \subseteq Steps
  BY DEF Steps, UpgradeSteps, RollbackSteps, SnapshotSteps, RestoreSteps
<1>3. run' \in Operations
  <2>1. CASE \E l \in Steps : run' = [run EXCEPT !.pc = l]
    BY <2>1, <1>1, OperationTypes
  <2>2. CASE run' = run
    BY <2>2, <1>1
  <2>3. CASE BeginUpgrade \/ Healthy \/ RolledBack \/ Cut
    BY <2>3, FreshTypes DEF BeginUpgrade, Healthy, RolledBack, Cut
  <2>4. CASE BeginSnapshot
    BY <2>4, <1>1, FreshTypes, BotTypes DEF BeginSnapshot
  <2>5. CASE CloseJournal
    BY <2>5, <1>1, FreshTypes, OperationTypes DEF CloseJournal
  <2>6. CASE CopyDatabase
    <3>1. run' = [run EXCEPT !.copy = db, !.pc = "gwstop"]
      BY <2>6 DEF CopyDatabase
    <3> QED BY <3>1, <1>1, <1>2, OperationTypes
  <2>7. CASE Pack
    <3>1. run' = [run EXCEPT !.pc = "regw", !.done = TRUE]
      BY <2>7 DEF Pack
    <3> QED BY <3>1, <1>1, <1>2, OperationTypes
  <2>8. ASSUME NEW replaced \in SUBSET Parts, Meanwhile(replaced)
        PROVE  run' \in Operations
    <3>1. run' = [run EXCEPT !.touched = TRUE, !.same = run.same \ replaced]
      BY <2>8, <1>1 DEF Meanwhile, Operations
    <3>2. run.same \ replaced \in SUBSET Parts
      BY <1>1, OperationTypes
    <3> QED BY <3>1, <3>2, <1>1, OperationTypes
  <2>9. ASSUME NEW c \in Parts, NEW ok \in BOOLEAN, StopFound(c, ok)
        PROVE  run' \in Operations
    <3> DEFINE l == IF ~ ok THEN "regw" ELSE IF c = "bot" THEN "stopgw" ELSE "quiet"
    <3>1. run' = [run EXCEPT !.stopped = run.stopped \cup {c}, !.pc = l]
      BY <2>9 DEF StopFound, Noted
    <3>2. run.stopped \cup {c} \in SUBSET Parts /\ l \in Steps
      BY <1>1, <1>2, OperationTypes
    <3> HIDE DEF l
    <3> QED BY <3>1, <3>2, <1>1, OperationTypes
  <2>10. ASSUME NEW c \in Parts, run' = [run EXCEPT !.failed = @ \cup {c}, !.pc = "close"]
         PROVE  run' \in Operations
    <3>1. run' = [run EXCEPT !.failed = run.failed \cup {c}, !.pc = "close"]
      BY <2>10, <1>1 DEF Operations
    <3>2. run.failed \cup {c} \in SUBSET Parts
      BY <1>1, OperationTypes
    <3> QED BY <3>1, <3>2, <1>1, <1>2, OperationTypes
  <2>11. CASE SomebodyStarts \/ SomebodyStops \/ ComposeUp
    <3>1. {{}, {"bot"}} \subseteq SUBSET Parts
      BY DEF Parts
    <3> QED BY <2>11, <3>1, <2>8 DEF SomebodyStarts, SomebodyStops, ComposeUp
  <2>12. ASSUME NEW c \in Parts, NEW ok \in BOOLEAN, SnapshotStops(c, ok)
         PROVE  run' \in Operations
    <3>1. CASE StopFound(c, ok)
      BY <3>1, <2>9
    <3>2. CASE SkipStopped(c)
      BY <3>2, <1>2, <2>1 DEF SkipStopped
    <3> QED BY <2>12, <3>1, <3>2 DEF SnapshotStops
  <2>13. ASSUME NEW ok \in BOOLEAN, GatewayRestarts(ok) \/ BotRestartsAfter(ok)
         PROVE  run' \in Operations
    <3>1. "gw" \in Parts /\ "bot" \in Parts
      BY DEF Parts
    <3> QED BY <2>13, <3>1, <1>2, <2>1, <2>10 DEF GatewayRestarts, BotRestartsAfter
  <2>14. CASE \/ UpgradeStopsBot \/ UpgradeStopsGateway \/ GatewayArchived \/ RemoveProgram \/ InstallProgram
              \/ GatewayUp \/ BuildImage \/ BotUp \/ UpgradeFails
    BY <2>14, <1>2, <2>1 DEF UpgradeStopsBot, UpgradeStopsGateway, GatewayArchived, RemoveProgram,
         InstallProgram, GatewayUp, BuildImage, BotUp, UpgradeFails
  <2>15. CASE \/ ImagesBack \/ RemoveBot \/ ClearProgram \/ Untar \/ DatabaseBack \/ GatewayBack \/ BotBack
              \/ CheckQuiet \/ CopyFiles \/ SnapshotFails
    BY <2>15, <1>2, <2>1 DEF ImagesBack, RemoveBot, ClearProgram, Untar, DatabaseBack, GatewayBack,
         BotBack, CheckQuiet, CopyFiles, SnapshotFails
  <2>16. CASE TaskStarts \/ TaskEnds
    BY <2>16, <2>2 DEF TaskStarts, TaskEnds
  <2> QED
    BY <2>3, <2>4, <2>5, <2>6, <2>7, <2>11, <2>12, <2>13, <2>14, <2>15, <2>16 DEF InstanceNext
<1>4. bot' \in Bots /\ db' \in Progs
  <2>1. CASE UNCHANGED <<bot, db>>
    BY <2>1, <1>1
  <2>2. ASSUME NEW p \in Progs, Starts(p)
        PROVE  bot' \in Bots /\ db' \in Progs
    BY <2>2, <1>1, BotTypes
  <2>3. CASE BotUp \/ BotBack \/ ComposeUp
    BY <2>3, <2>2, <1>1 DEF BotUp, BotBack, ComposeUp
  <2>4. CASE SomebodyStarts \/ SomebodyStops
    BY <2>4, <2>1, <2>2, <1>1, BotTypes DEF SomebodyStarts, SomebodyStops
  <2>5. CASE RemoveBot \/ UpgradeStopsBot
    BY <2>5, <1>1, BotTypes DEF RemoveBot, UpgradeStopsBot
  <2>6. CASE DatabaseBack
    BY <2>6, <1>1, OperationTypes DEF DatabaseBack, CopiedBack
  <2>7. ASSUME NEW ok \in BOOLEAN, GatewayRestarts(ok) \/ BotRestartsAfter(ok)
        PROVE  bot' \in Bots /\ db' \in Progs
    BY <2>7, <1>1, <2>1, <2>2, BotTypes DEF GatewayRestarts, BotRestartsAfter
  <2>8. ASSUME NEW c \in Parts, NEW ok \in BOOLEAN, SnapshotStops(c, ok)
        PROVE  bot' \in Bots /\ db' \in Progs
    BY <2>8, <1>1, BotTypes DEF SnapshotStops, StopFound, SkipStopped
  <2>9. CASE \/ BeginUpgrade \/ CopyDatabase \/ UpgradeStopsGateway \/ GatewayArchived \/ RemoveProgram
             \/ InstallProgram \/ GatewayUp \/ BuildImage \/ Healthy \/ UpgradeFails
             \/ ImagesBack \/ ClearProgram \/ Untar \/ GatewayBack \/ RolledBack
    BY <2>9, <2>1 DEF BeginUpgrade, CopyDatabase, UpgradeStopsGateway, GatewayArchived,
       RemoveProgram,
         InstallProgram, GatewayUp, BuildImage, Healthy, UpgradeFails, ImagesBack, ClearProgram, Untar,
         GatewayBack, RolledBack
  <2>10. CASE \/ BeginSnapshot \/ CheckQuiet \/ CopyFiles \/ Pack \/ SnapshotFails \/ CloseJournal \/ Cut
              \/ TaskStarts \/ TaskEnds
    BY <2>10, <2>1 DEF BeginSnapshot, CheckQuiet, CopyFiles, Pack, SnapshotFails, CloseJournal, Cut,
         TaskStarts, TaskEnds
  <2> QED BY <2>3, <2>4, <2>5, <2>6, <2>7, <2>8, <2>9, <2>10 DEF InstanceNext
<1> DEFINE Rest ==
      /\ files \in Progs \cup {"none"} /\ tag \in Progs /\ busy \in BOOLEAN /\ gw \in {"stopped", "up"}
      /\ ended \in {"none", "upgraded", "restored", "cut", "completed", "failed", "review"}
      /\ opLog \in {"none", "open", "completed", "failed", "review"} /\ archive \in Archives
<1>5. Rest'
  <2>1. CASE \/ BeginUpgrade \/ UpgradeStopsBot \/ CopyDatabase \/ UpgradeStopsGateway
             \/ GatewayArchived \/ RemoveProgram \/ InstallProgram \/ GatewayUp
             \/ BuildImage \/ BotUp \/ Healthy \/ UpgradeFails
    BY <2>1, <1>1 DEF Progs, UpgradePosition, BeginUpgrade, UpgradeStopsBot, CopyDatabase,
       UpgradeStopsGateway, GatewayArchived,
         RemoveProgram, InstallProgram, GatewayUp, BuildImage, BotUp, Healthy, UpgradeFails
  <2>2. CASE \/ ImagesBack \/ RemoveBot \/ ClearProgram \/ Untar \/ DatabaseBack
             \/ GatewayBack \/ BotBack \/ RolledBack
    BY <2>2, <1>1 DEF Progs, ImagesBack, RemoveBot, ClearProgram, Untar, DatabaseBack,
       GatewayBack, BotBack,
         RolledBack, OldImage
  <2>3. CASE BeginSnapshot \/ CheckQuiet \/ CopyFiles \/ SnapshotFails \/ CloseJournal
    BY <2>3, <1>1 DEF BeginSnapshot, CheckQuiet, CopyFiles, SnapshotFails, CloseJournal
  <2>7. CASE Pack
    <3>1. run.touched \in BOOLEAN /\ (RunningParts = {}) \in BOOLEAN /\ (~ busy) \in BOOLEAN
      BY <1>1, OperationTypes
    <3>2. archive' \in Archives
      BY <2>7, <3>1 DEF Pack, Archives
    <3> QED BY <2>7, <1>1, <3>2 DEF Pack
  <2>4. CASE \/ Cut \/ SomebodyStarts \/ SomebodyStops \/ ComposeUp \/ TaskStarts
             \/ TaskEnds
    BY <2>4, <1>1 DEF Cut, SomebodyStarts, SomebodyStops, Meanwhile, ComposeUp, TaskStarts, TaskEnds
  <2>5. ASSUME NEW ok \in BOOLEAN, GatewayRestarts(ok) \/ BotRestartsAfter(ok)
        PROVE  Rest'
    BY <2>5, <1>1 DEF GatewayRestarts, BotRestartsAfter
  <2>6. ASSUME NEW c \in Parts, NEW ok \in BOOLEAN, SnapshotStops(c, ok)
        PROVE  Rest'
    BY <2>6, <1>1 DEF SnapshotStops, StopFound, SkipStopped
  <2> QED BY <2>1, <2>2, <2>3, <2>4, <2>5, <2>6, <2>7 DEF InstanceNext
<1> QED BY <1>3, <1>4, <1>5 DEF InstanceTypeOK, Operations, Bots, Archives, Steps

-------------------------------------------------------------------------------
\* What is so while an operation runs, and what holds of its report.
Standing == BotFits /\ UpgradePosition /\ SnapshotPosition
Reported == (ended \in Ends => Doing("idle")) /\ EndsWhole /\ QuietArchive /\ ServicesAsFound

\* The upgrade goes on, or turns back.
LEMMA UpgradeStands ==
    ASSUME InstanceInv,
           \/ BeginUpgrade \/ UpgradeStopsBot \/ CopyDatabase \/ UpgradeStopsGateway
           \/ GatewayArchived \/ RemoveProgram \/ InstallProgram \/ GatewayUp
           \/ BuildImage \/ BotUp \/ Healthy \/ UpgradeFails
    PROVE  Standing' /\ Reported'
<1> USE DEF InstanceInv, InstanceTypeOK, Standing, Reported, Alone, Ends, BotFits,
            UpgradePosition, SnapshotPosition, EndsWhole, QuietArchive, ServicesAsFound,
            RunningParts, Doing, Go, Parts, Progs, UpgradeSteps, RollbackSteps,
            SnapshotSteps, RestoreSteps
<1>1. CASE BeginUpgrade
  BY <1>1 DEF BeginUpgrade, NoRun
<1>2. CASE UpgradeStopsBot
  BY <1>2 DEF UpgradeStopsBot, Stopped
<1>3. CASE CopyDatabase
  BY <1>3 DEF CopyDatabase
<1>4. CASE UpgradeStopsGateway
  BY <1>4 DEF UpgradeStopsGateway
<1>5. CASE GatewayArchived
  BY <1>5 DEF GatewayArchived
<1>6. CASE RemoveProgram
  BY <1>6 DEF RemoveProgram
<1>7. CASE InstallProgram
  BY <1>7 DEF InstallProgram
<1>8. CASE GatewayUp
  BY <1>8 DEF GatewayUp
<1>9. CASE BuildImage
  BY <1>9 DEF BuildImage
<1>10. CASE BotUp
  BY <1>10 DEF BotUp, Starts, Migrated
<1>11. CASE Healthy
  BY <1>11 DEF Healthy, NoRun
<1>12. CASE UpgradeFails
  BY <1>12 DEF UpgradeFails
<1> QED BY <1>1, <1>2, <1>3, <1>4, <1>5, <1>6, <1>7, <1>8, <1>9, <1>10, <1>11, <1>12

\* The roll-back goes on.
LEMMA RollbackStands ==
    ASSUME InstanceInv,
           \/ ImagesBack \/ RemoveBot \/ ClearProgram \/ Untar \/ DatabaseBack
           \/ GatewayBack \/ BotBack \/ RolledBack
    PROVE  Standing' /\ Reported'
<1> USE DEF InstanceInv, InstanceTypeOK, Standing, Reported, Alone, Ends, BotFits,
            UpgradePosition, SnapshotPosition, EndsWhole, QuietArchive, ServicesAsFound,
            RunningParts, Doing, Go, Parts, Progs, UpgradeSteps, RollbackSteps,
            SnapshotSteps, RestoreSteps
<1>1. CASE ImagesBack
  BY <1>1 DEF ImagesBack, OldImage
<1>2. CASE RemoveBot
  BY <1>2 DEF RemoveBot
<1>3. CASE ClearProgram
  BY <1>3 DEF ClearProgram
<1>4. CASE Untar
  BY <1>4 DEF Untar
<1>5. CASE DatabaseBack
  BY <1>5 DEF DatabaseBack, CopiedBack
<1>6. CASE GatewayBack
  BY <1>6 DEF GatewayBack
<1>7. CASE BotBack
  BY <1>7 DEF BotBack, Starts, Migrated
<1>8. CASE RolledBack
  BY <1>8 DEF RolledBack, NoRun
<1> QED BY <1>1, <1>2, <1>3, <1>4, <1>5, <1>6, <1>7, <1>8

\* A snapshot is taken and closed.
LEMMA ArchiveStands ==
    ASSUME InstanceInv,
           \/ BeginSnapshot \/ CheckQuiet \/ CopyFiles \/ Pack \/ SnapshotFails
           \/ CloseJournal
    PROVE  Standing' /\ Reported'
<1> USE DEF InstanceInv, InstanceTypeOK, Standing, Reported, Alone, Ends, BotFits,
            UpgradePosition, SnapshotPosition, EndsWhole, QuietArchive, ServicesAsFound,
            RunningParts, Doing, Go, Parts, Progs, UpgradeSteps, RollbackSteps,
            SnapshotSteps, RestoreSteps
<1>1. CASE BeginSnapshot
  BY <1>1 DEF BeginSnapshot, NoRun
<1>2. CASE CheckQuiet
  BY <1>2 DEF CheckQuiet, NoActiveTasks
<1>3. CASE CopyFiles
  BY <1>3 DEF CopyFiles
<1>4. CASE Pack
  BY <1>4 DEF Pack
<1>5. CASE SnapshotFails
  BY <1>5 DEF SnapshotFails
<1>6. CASE CloseJournal
  BY <1>6 DEF CloseJournal, NoRun
<1> QED BY <1>1, <1>2, <1>3, <1>4, <1>5, <1>6

\* A kill, and the people and tasks of the instance.
LEMMA OthersStand ==
    ASSUME InstanceInv,
           \/ Cut \/ SomebodyStarts \/ SomebodyStops \/ ComposeUp \/ TaskStarts
           \/ TaskEnds
    PROVE  Standing' /\ Reported'
<1> USE DEF InstanceInv, InstanceTypeOK, Standing, Reported, Alone, Ends, BotFits,
            UpgradePosition, SnapshotPosition, EndsWhole, QuietArchive, ServicesAsFound,
            RunningParts, Doing, Go, Parts, Progs, UpgradeSteps, RollbackSteps,
            SnapshotSteps, RestoreSteps
<1>1. CASE Cut
  BY <1>1 DEF Cut, NoRun
<1>2. CASE SomebodyStarts
  BY <1>2 DEF SomebodyStarts, Starts, Migrated, Meanwhile
<1>3. CASE SomebodyStops
  BY <1>3 DEF SomebodyStops, Stopped, Meanwhile
<1>4. CASE ComposeUp
  BY <1>4 DEF ComposeUp, Starts, Migrated, Meanwhile
<1>5. CASE TaskStarts
  BY <1>5 DEF TaskStarts
<1>6. CASE TaskEnds
  BY <1>6 DEF TaskEnds
<1> QED BY <1>1, <1>2, <1>3, <1>4, <1>5, <1>6

\* A container of the snapshot is stopped; it is noted before.
LEMMA StopNotes ==
    ASSUME InstanceInv, NEW c \in Parts, NEW ok \in BOOLEAN, StopFound(c, ok)
    PROVE  /\ run'.stopped = run.stopped \cup {c} /\ run'.found = run.found /\ run'.same = run.same
           /\ run'.failed = run.failed /\ run'.touched = run.touched /\ run'.copy = run.copy
           /\ run'.pc = IF ~ ok THEN "regw" ELSE IF c = "bot" THEN "stopgw" ELSE "quiet"
BY InstanceTypes DEF InstanceInv, Operations, StopFound, Noted

\* The snapshot finds a container stopped, or stops it.
LEMMA SnapshotStands ==
    ASSUME InstanceInv, NEW c \in Parts, NEW ok \in BOOLEAN, SnapshotStops(c, ok)
    PROVE  Standing' /\ Reported'
<1>1. CASE StopFound(c, ok)
  <2>1. BotFits' /\ UpgradePosition' /\ Reported'
    BY <1>1, StopNotes DEF SnapshotStops, StopFound, Stopped, Standing, Reported, InstanceInv,
       Ends, Alone, Doing, Go, BotFits, UpgradePosition, EndsWhole, QuietArchive, ServicesAsFound,
       RunningParts, Parts, InstanceTypeOK
  <2>2. CASE c = "bot"
    <3>1. SnapshotPosition'
      BY <1>1, <2>2, StopNotes DEF SnapshotStops, StopFound, Stopped, InstanceInv, Alone, Doing,
         SnapshotPosition, SnapshotSteps, RunningParts, Parts, InstanceTypeOK, BotFits
    <3> QED BY <2>1, <3>1 DEF Standing
  <2>3. CASE c = "gw"
    <3>1. SnapshotPosition'
      BY <1>1, <2>3, StopNotes DEF SnapshotStops, StopFound, Stopped, InstanceInv, Alone, Doing,
         SnapshotPosition, SnapshotSteps, RunningParts, Parts, InstanceTypeOK
    <3> QED BY <2>1, <3>1 DEF Standing
  <2> QED BY <2>1, <2>2, <2>3 DEF Parts
<1>2. CASE SkipStopped(c)
  BY <1>2 DEF SnapshotStops, SkipStopped, Standing, Reported, InstanceInv, Ends, Alone, Doing, Go,
     SnapshotPosition, SnapshotSteps, RunningParts, Parts, InstanceTypeOK, BotFits,
     UpgradePosition, EndsWhole, QuietArchive, ServicesAsFound
<1> QED BY <1>1, <1>2 DEF SnapshotStops

\* A stopped container is started again, or the maintenance needs a review.
LEMMA RestartStands ==
    ASSUME InstanceInv, NEW ok \in BOOLEAN, GatewayRestarts(ok) \/ BotRestartsAfter(ok)
    PROVE  Standing' /\ Reported'
<1> USE DEF InstanceInv, InstanceTypeOK, Standing, Reported, Alone, Ends, BotFits,
   UpgradePosition, SnapshotPosition, EndsWhole, QuietArchive, ServicesAsFound, RunningParts,
   Doing, Go, Parts, Progs, SnapshotSteps
<1>1. run \in Operations
  BY InstanceTypes
<1> DEFINE Fails(c) == run' = [run EXCEPT !.failed = @ \cup {c}, !.pc = "close"]
<1>2. \A c \in Parts : Fails(c) =>
        /\ run'.pc = "close" /\ c \in run'.failed /\ run'.found = run.found
        /\ run'.touched = run.touched /\ run'.same = run.same /\ run'.copy = run.copy
  BY <1>1 DEF Operations
<1>3. CASE GatewayRestarts(ok)
  <2>1. Doing("regw") /\ UNCHANGED <<files, tag, bot, db, busy, ended, opLog, archive>>
    BY <1>3 DEF GatewayRestarts
  <2>2. CASE "gw" \notin run.stopped
    BY <2>1, <2>2, <1>3 DEF GatewayRestarts
  <2>3. CASE "gw" \in run.stopped /\ Go("rebot") /\ gw' = "up"
    BY <2>1, <2>3
  <2>4. CASE "gw" \in run.stopped /\ Fails("gw") /\ UNCHANGED gw
    BY <2>1, <2>4, <1>2
  <2> QED BY <1>3, <2>2, <2>3, <2>4 DEF GatewayRestarts
<1>4. CASE BotRestartsAfter(ok)
  <2>1. Doing("rebot") /\ UNCHANGED <<files, tag, gw, busy, ended, opLog, archive>>
    BY <1>4 DEF BotRestartsAfter
  <2>2. CASE "bot" \notin run.stopped
    BY <2>1, <2>2, <1>4 DEF BotRestartsAfter
  <2>3. CASE /\ "bot" \in run.stopped /\ Go("close")
             /\ IF bot.st = "up" THEN UNCHANGED <<bot, db>> ELSE Starts(bot.prog)
    BY <2>1, <2>3 DEF Starts, Migrated
  <2>4. CASE "bot" \in run.stopped /\ Fails("bot") /\ UNCHANGED <<bot, db>>
    BY <2>1, <2>4, <1>2
  <2> QED BY <1>4, <2>2, <2>3, <2>4 DEF BotRestartsAfter
<1> QED BY <1>3, <1>4

\* The invariant is inductive.
LEMMA InstanceStep ==
    ASSUME InstanceInv, [InstanceNext]_instanceVars
    PROVE  InstanceInv'
<1>1. CASE InstanceNext
  <2>1. InstanceTypeOK'
    BY <1>1, InstanceStepTypes DEF InstanceInv
  <2>2. Standing' /\ Reported'
    BY <1>1, UpgradeStands, RollbackStands, ArchiveStands, OthersStand, SnapshotStands, RestartStands
       DEF InstanceNext
  <2> QED BY <2>1, <2>2 DEF InstanceInv, Standing, Reported
<1>2. CASE UNCHANGED instanceVars
  BY <1>2 DEF instanceVars, InstanceInv, InstanceTypeOK, Standing, Reported, Alone, Ends, BotFits,
     UpgradePosition, SnapshotPosition, EndsWhole, QuietArchive, ServicesAsFound, RunningParts,
     Doing, Go, Parts, Progs
<1> QED BY <1>1, <1>2

\* It holds of the edition as it was installed.
LEMMA InstanceStart == InstanceInit => InstanceInv
<1> SUFFICES ASSUME InstanceInit PROVE InstanceInv
  OBVIOUS
<1>1. run \in Operations /\ bot \in Bots /\ archive \in Archives
  BY FreshTypes DEF InstanceInit, Bots, Archives, Progs, NoArchive
<1>2. InstanceTypeOK
  BY <1>1, InstanceTypes DEF InstanceInit, Progs
<1>3. run.pc = "idle" /\ run.copy = "none" /\ ended = "none" /\ archive.touched
  BY DEF InstanceInit, NoRun, NoArchive
<1> QED
  BY <1>2, <1>3 DEF InstanceInit, InstanceInv, Ends, BotFits, UpgradePosition, SnapshotPosition,
     SnapshotSteps, EndsWhole, QuietArchive, ServicesAsFound, Doing

\* The invariant holds of every run, whatever fails and whoever interferes.
THEOREM InstanceInvariant == InstanceSpec => []InstanceInv
<1> QED BY InstanceStart, InstanceStep, PTL DEF InstanceSpec

\* An upgrade that reports its end, as done or as taken back, leaves files,
\* image, Bot and database of one version, and both services running.
THEOREM UpgradeEndsWhole == InstanceSpec => []EndsWhole
<1>1. InstanceInv => EndsWhole
  BY DEF InstanceInv
<1> QED BY <1>1, InstanceInvariant, PTL

\* A snapshot nobody interfered with is taken from services at rest and
\* without a task half-way: the tasks are counted again once all has stopped.
THEOREM ArchivesAreQuiet == InstanceSpec => []QuietArchive
<1>1. InstanceInv => QuietArchive
  BY DEF InstanceInv
<1> QED BY <1>1, InstanceInvariant, PTL

\* A snapshot that ends without asking for a review has put every container
\* back as it found it, also when it failed or its stop was not confirmed.
THEOREM ServicesComeBack == InstanceSpec => []ServicesAsFound
<1>1. InstanceInv => ServicesAsFound
  BY DEF InstanceInv
<1> QED BY <1>1, InstanceInvariant, PTL

================================================================================
