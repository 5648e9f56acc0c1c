------------------------------- MODULE Dialogue -------------------------------
(***************************************************************************)
(* The administrator's conversation with the Bot: cards whose buttons      *)
(* carry the version they were drawn from, the draft of the visual editor, *)
(* the text it asks for, and the records those change - the listening      *)
(* sources, the plans waiting for a confirmation, the rule templates.      *)
(* Handlers run concurrently: each takes its button's token, then answers, *)
(* waits for the account or the gateway, and writes (telegram/planning.py, *)
(* editor.py, listening_tools.py, listening/management.py, persistence/    *)
(* plans.py).                                                              *)
(***************************************************************************)
EXTENDS Naturals

CONSTANTS
    Feeds,      \* the listening sources
    Offers,     \* the attachments a plan may be made for, all of one batch per source
    FeedOf,     \* the source of each plan
    Screens,    \* the chat messages that show a card
    Slots,      \* the handlers that may run at once
    Nobody,
    MaxInputs   \* bound on what the administrator presses, sends and opens

ASSUME DialogueAssumption ==
    /\ FeedOf \in [Offers -> Feeds] /\ Nobody \notin Feeds \cup Offers /\ MaxInputs \in Nat

VARIABLES
    feed,       \* listener_sources: configuration, revision, enabled, deleted, folder, history
    offer,      \* transfer_plans: status, revision, name and directory
    template,   \* the template store: its revision and the rules kept, if any
    draft,      \* _configuration_drafts of the administrator
    asked,      \* _plan_interactions: what the next text answers
    screen,     \* what each message shows and which of its buttons still hold a token
    handler,    \* the callbacks in flight
    inputs      \* how much of MaxInputs is used

dialogueVars == <<feed, offer, template, draft, asked, screen, handler, inputs>>
stores == <<feed, offer, template>>

-----------------------------------------------------------------------------
\* A configuration is its directory layout and the rest (rules, naming, confirmation).
Contents == {"plain", "strict"}
Layouts == {"legacy", "source_type"}
SourceConfig == [content : Contents, layout : Layouts]
Payload == [name : Contents, directory : Contents]
Blank == [content |-> "none", layout |-> "none"]
Other(value) == CHOOSE x \in Contents : x # value

NoPage == [of |-> Nobody, revision |-> 0, shown |-> Blank, wanted |-> Blank,
           draft |-> <<0, 0>>, list |-> {}, left |-> {}]
NoDraft == [id |-> 0, version |-> 0, of |-> Nobody, revision |-> 0, original |-> Blank,
            config |-> Blank]
NoAnswer == [op |-> "none", page |-> NoPage]
NoHandler == [op |-> "none", at |-> "idle", on |-> Nobody, page |-> NoPage, seen |-> 0]

\* What plans a batch holds at this moment, as the batch actions list them.
Listed(s) == {[plan |-> p, revision |-> offer[p].revision, shown |-> offer[p].payload] :
              p \in {q \in Offers : FeedOf[q] = s /\ offer[q].status = "pending"}}

SourceCard(s, f) ==
    [NoPage EXCEPT !.of = s, !.revision = f.revision, !.shown = f.config,
                   !.left = {IF f.enabled THEN "disable" ELSE "enable",
                             "edit", "delete", "restore", "templates", "history"}
                            \cup IF f.config.layout = "source_type" /\ ~f.enabled
                                 THEN {"make-folder"} ELSE {}]
SourcePage(s) == SourceCard(s, feed'[s])
OfferCard(p, o) ==
    [NoPage EXCEPT !.of = p, !.revision = o.revision, !.shown = o.payload,
                   !.left = IF o.status = "pending"
                            THEN {"approve", "ignore", "rename", "directory", "batch"} ELSE {}]
OfferPage(p) == OfferCard(p, offer'[p])
DraftPage(ops) ==
    [NoPage EXCEPT !.of = draft'.of, !.revision = draft'.revision, !.shown = draft'.original,
                   !.wanted = draft'.config, !.draft = <<draft'.id, draft'.version>>, !.left = ops]
EditorOps == {"change", "input", "recent", "save", "cancel"}
StillPending(p, revision) == offer[p].status = "pending" /\ offer[p].revision = revision
Edited(p, payload, status) ==
    [offer[p] EXCEPT !.payload = payload, !.status = status, !.revision = @ + 1]

-----------------------------------------------------------------------------
\* A press takes the button's token and is handled up to its first wait for the account or the
\* gateway; the message then shows the answer.
Pressed(m, op) ==
    /\ inputs < MaxInputs /\ op \in screen[m].left
    /\ inputs' = inputs + 1
Shows(m, page) == screen' = [screen EXCEPT ![m] = page] /\ UNCHANGED handler
Waits(m, op, at, page, seen) ==
    /\ \E k \in Slots :
          /\ handler[k] = NoHandler
          /\ handler' = [handler EXCEPT ![k] = [op |-> op, at |-> at, on |-> m, page |-> page,
                                                seen |-> seen]]
    /\ screen' = [screen EXCEPT ![m].left = @ \ {op}]
Continues(k, ops, at) == handler[k].op \in ops /\ handler[k].at = at /\ UNCHANGED inputs
MovesTo(k, at, seen) ==
    handler' = [handler EXCEPT ![k].at = at, ![k].seen = seen] /\ UNCHANGED screen
EndsOn(k, page) ==
    /\ handler' = [handler EXCEPT ![k] = NoHandler]
    /\ screen' = [screen EXCEPT ![handler[k].on] = page]
\* An error text takes the card's place; it has a way back into the draft if that still stands.
Sorry(page) == IF draft' # NoDraft /\ page.draft[1] = draft'.id THEN DraftPage({"page"}) ELSE NoPage
Refuses(m) == UNCHANGED <<stores, draft, asked>> /\ Shows(m, Sorry(screen[m]))
Refused(k) == UNCHANGED <<stores, draft, asked>> /\ EndsOn(k, Sorry(handler[k].page))

\* Mutant: a late write takes its revision from what it finds.
BasisNow(h) == feed[h.page.of].revision
\* The revision a late write is compared with: the card's.
Basis(h) == h.page.revision
Changeable(s, revision) == feed[s].revision = revision /\ ~feed[s].deleted

\* Mutant: the source keeps receiving.
AsBefore(old, config, enabled) == enabled
\* A changed layout pauses the source until it is enabled again.
StaysEnabled(old, config, enabled) == enabled /\ config.layout = old.config.layout
Changed(s, config, enabled, deleted) ==
    [feed[s] EXCEPT !.config = config, !.revision = @ + 1,
                    !.enabled = StaysEnabled(feed[s], config, enabled) /\ ~deleted,
                    !.deleted = deleted, !.past = @ \cup {feed[s].config}]
ChangeSource(s, config, enabled) ==
    /\ feed' = [feed EXCEPT ![s] = Changed(s, config, enabled, FALSE)]
    /\ UNCHANGED offer

-----------------------------------------------------------------------------
\* The administrator opens a card: the command, the list and the choice of an entry.
OpensCard(m) ==
    /\ inputs < MaxInputs /\ inputs' = inputs + 1
    /\ UNCHANGED <<stores, draft, asked>>
    /\ \/ \E s \in Feeds : ~feed[s].deleted /\ Shows(m, SourcePage(s))
       \/ \E p \in Offers : offer[p].status = "pending" /\ Shows(m, OfferPage(p))

\* Enabling: the chat is verified, the folder made, the newest message read, then the write.
EnablesSource(m) ==
    /\ Pressed(m, "enable") /\ Waits(m, "enable", "chat", screen[m], 0)
    /\ UNCHANGED <<stores, draft, asked>>
\* `prepare_directory` reads the source as it is now.
ChatVerified(k) ==
    /\ Continues(k, {"enable"}, "chat")
    /\ LET s == handler[k].page.of IN
       IF feed[s].deleted THEN Refused(k)
       ELSE /\ MovesTo(k, IF feed[s].config.layout = "source_type" THEN "folder" ELSE "newest",
                    feed[s].revision)
            /\ UNCHANGED <<stores, draft, asked>>
MakesFolder == {"enable", "restore-rule", "save", "add", "make-folder"}
\* The gateway has made the folder; the source it was made for must not have changed.
FolderMade(k) ==
    /\ Continues(k, MakesFolder, "folder")
    /\ LET h == handler[k]
           s == h.page.of IN
       /\ feed' = [feed EXCEPT ![s].made = TRUE]
       /\ IF ~Changeable(s, h.seen) THEN UNCHANGED <<draft, asked>> /\ EndsOn(k, Sorry(h.page))
          ELSE CASE h.op = "enable" -> MovesTo(k, "newest", h.seen) /\ UNCHANGED <<draft, asked>>
                 [] h.op \in {"restore-rule", "make-folder"} ->
                        EndsOn(k, SourcePage(s)) /\ UNCHANGED <<draft, asked>>
                 [] h.op = "add" ->
                        EndsOn(k, SourcePage(s)) /\ asked' = NoAnswer /\ UNCHANGED draft
                 [] h.op = "save" -> EndsOn(k, NoPage) /\ draft' = NoDraft /\ asked' = NoAnswer
    /\ UNCHANGED <<offer, template>>
\* The gateway refuses: the source is paused if it is still the one the folder was meant for.
FolderFails(k) ==
    /\ Continues(k, MakesFolder, "folder")
    /\ LET h == handler[k]
           s == h.page.of IN
       /\ feed' = [feed EXCEPT ![s].enabled = @ /\ ~Changeable(s, h.seen)]
       /\ IF h.op \in {"save", "add"}
          THEN /\ EndsOn(k, SourcePage(s)) /\ asked' = NoAnswer
               /\ draft' = IF h.op = "save" THEN NoDraft ELSE draft
          ELSE EndsOn(k, NoPage) /\ UNCHANGED <<draft, asked>>
    /\ UNCHANGED <<offer, template>>
EnablesLate(k) ==
    /\ Continues(k, {"enable"}, "newest")
    /\ LET s == handler[k].page.of IN
       IF Changeable(s, Basis(handler[k]))
       THEN /\ ChangeSource(s, feed[s].config, TRUE) /\ EndsOn(k, SourcePage(s))
            /\ UNCHANGED <<template, draft, asked>>
       ELSE Refused(k)
\* The account is lost or refused while the handler waits for it.
ReadFails(k) ==
    /\ handler[k].at \in {"chat", "newest", "scan", "check", "recent", "resolve"}
    /\ Refused(k) /\ UNCHANGED inputs

\* The folder that could not be made is tried again from the card.
RetriesFolder(m) ==
    /\ Pressed(m, "make-folder")
    /\ LET s == screen[m].of IN
       IF Changeable(s, screen[m].revision)
       THEN /\ Waits(m, "make-folder", "folder", screen[m], feed[s].revision)
            /\ UNCHANGED <<stores, draft, asked>>
       ELSE Refuses(m)
\* The reference of a chat, sent as the text that was asked for: Telegram resolves it first. A
\* source deleted before comes back paused, in its own folder, with the default rules.
SendsReference(m) ==
    /\ inputs < MaxInputs /\ inputs' = inputs + 1
    /\ asked' = [op |-> "add", page |-> NoPage]
    /\ \E s \in Feeds : Waits(m, "add", "resolve", [NoPage EXCEPT !.of = s], 0)
    /\ UNCHANGED <<stores, draft>>
AddsAgain(k) ==
    /\ Continues(k, {"add"}, "resolve")
    /\ LET s == handler[k].page.of IN
       IF feed[s].deleted
       THEN /\ feed' = [feed EXCEPT ![s].config = [content |-> "plain", layout |-> "source_type"],
                                    ![s].revision = @ + 1, ![s].enabled = FALSE,
                                    ![s].deleted = FALSE]
            /\ MovesTo(k, "folder", feed'[s].revision)
            /\ UNCHANGED <<offer, template, draft, asked>>
       ELSE Refused(k)

\* Pausing and deleting write at once; a deleted source's open plans are ignored.
PausesSource(m) ==
    /\ Pressed(m, "disable")
    /\ LET s == screen[m].of IN
       IF Changeable(s, screen[m].revision)
       THEN /\ ChangeSource(s, feed[s].config, FALSE) /\ Shows(m, SourcePage(s))
            /\ UNCHANGED <<template, draft, asked>>
       ELSE Refuses(m)
Deletes(m) ==
    /\ Pressed(m, "delete")
    /\ LET s == screen[m].of IN
       IF Changeable(s, screen[m].revision)
       THEN /\ feed' = [feed EXCEPT ![s] = Changed(s, feed[s].config, FALSE, TRUE)]
            /\ offer' = [p \in Offers |->
                           IF FeedOf[p] = s /\ offer[p].status = "pending"
                           THEN Edited(p, offer[p].payload, "ignored") ELSE offer[p]]
            /\ Shows(m, NoPage) /\ UNCHANGED <<template, draft, asked>>
       ELSE Refuses(m)

\* The history shows an earlier configuration beside the present one; it is restored like an edit.
Restores(m) ==
    /\ Pressed(m, "restore")
    /\ LET s == screen[m].of IN
       IF feed[s].past = {} THEN Refuses(m)
       ELSE /\ UNCHANGED <<stores, draft, asked>>
            /\ \E old \in feed[s].past :
                  Shows(m, [SourcePage(s) EXCEPT !.wanted = old, !.left = {"restore-rule"}])
RestoresRule(m) ==
    /\ Pressed(m, "restore-rule")
    /\ LET s == screen[m].of
           old == screen[m].wanted IN
       IF Changeable(s, screen[m].revision)
       THEN /\ ChangeSource(s, old, feed[s].enabled)
            /\ IF old.layout = "source_type"
               THEN Waits(m, "restore-rule", "folder", screen[m], feed'[s].revision)
               ELSE Shows(m, SourcePage(s))
            /\ UNCHANGED <<template, draft, asked>>
       ELSE Refuses(m)

-----------------------------------------------------------------------------
\* Templates keep the rules of one source and apply them to others, all or none.
Templates(m) ==
    /\ Pressed(m, "templates")
    /\ UNCHANGED <<stores, draft, asked>>
    /\ Shows(m, [SourcePage(screen[m].of) EXCEPT
                   !.draft = <<0, template.revision>>,
                   !.wanted = [content |-> template.content, layout |-> "none"],
                   !.left = IF template.content = "none" THEN {"save-name"}
                            ELSE {"template-apply", "template-delete"}])
TemplateApply(m) ==
    /\ Pressed(m, "template-apply")
    /\ LET s == screen[m].of IN
       IF template.revision = screen[m].draft[2] /\ Changeable(s, screen[m].revision)
       THEN /\ ChangeSource(s, [feed[s].config EXCEPT !.content = template.content],
                            feed[s].enabled)
            /\ Shows(m, NoPage) /\ UNCHANGED <<template, draft, asked>>
       ELSE Refuses(m)
TemplateDelete(m) ==
    /\ Pressed(m, "template-delete")
    /\ IF template.revision = screen[m].draft[2]
       THEN /\ template' = [revision |-> template.revision + 1, content |-> "none"]
            /\ Shows(m, NoPage) /\ UNCHANGED <<feed, offer, draft, asked>>
       ELSE Refuses(m)

\* A look at the last hours: read under one revision, shown, registered under the same one.
Live(s, revision) == Changeable(s, revision) /\ feed[s].enabled
Found(s) ==
    {[plan |-> p, revision |-> 0,
      shown |-> [name |-> feed[s].config.content, directory |-> "plain"]] :
     p \in {q \in Offers : FeedOf[q] = s /\ offer[q].status = "absent"}}
HistoryPreview(m) ==
    /\ Pressed(m, "history")
    /\ LET s == screen[m].of IN
       IF Live(s, feed[s].revision)
       THEN /\ Waits(m, "history", "scan", screen[m], feed[s].revision)
            /\ UNCHANGED <<stores, draft, asked>>
       ELSE Refuses(m)
Scanned(k) ==
    /\ Continues(k, {"history"}, "scan")
    /\ LET s == handler[k].page.of IN
       IF Live(s, handler[k].seen)
       THEN /\ UNCHANGED <<stores, draft, asked>>
            /\ EndsOn(k, [SourcePage(s) EXCEPT !.left = {"history-commit"}, !.list = Found(s)])
       ELSE Refused(k)
RegisterHistory(m) ==
    /\ Pressed(m, "history-commit")
    /\ LET fresh == {e \in screen[m].list : offer[e.plan].status = "absent"} IN
       IF Live(screen[m].of, screen[m].revision)
       THEN /\ offer' = [p \in Offers |->
                           IF \E e \in fresh : e.plan = p
                           THEN [status |-> "pending", revision |-> 0,
                                 payload |-> (CHOOSE e \in fresh : e.plan = p).shown]
                           ELSE offer[p]]
            /\ Shows(m, NoPage) /\ UNCHANGED <<feed, template, draft, asked>>
       ELSE Refuses(m)

-----------------------------------------------------------------------------
\* A single confirmation, or all that the batch holds now; each attachment is read first.
Approves(m, op) ==
    /\ Pressed(m, op)
    /\ LET p == screen[m].of
           one == [plan |-> p, revision |-> screen[m].revision, shown |-> screen[m].shown] IN
       IF StillPending(p, screen[m].revision)
       THEN /\ Waits(m, op, "check", [screen[m] EXCEPT !.list =
                        IF op = "batch-approve" THEN Listed(FeedOf[p]) ELSE {one}], 0)
            /\ UNCHANGED <<stores, draft, asked>>
       ELSE Refuses(m)
\* One attachment is still what its plan says, or (in a batch) is passed over.
Submittable(e) == StillPending(e.plan, e.revision) /\ ~feed[FeedOf[e.plan]].deleted
SubmitsOne(k) ==
    /\ Continues(k, {"approve", "batch-approve"}, "check")
    /\ \E e \in handler[k].page.list :
          /\ \/ /\ Submittable(e)
                /\ offer' = [offer EXCEPT ![e.plan] = Edited(e.plan, @.payload, "submitted")]
             \/ /\ Submittable(e) => handler[k].op = "batch-approve"
                /\ UNCHANGED offer
          /\ IF handler[k].page.list = {e} THEN EndsOn(k, NoPage)
             ELSE /\ handler' = [handler EXCEPT ![k].page.list = @ \ {e}]
                  /\ UNCHANGED screen
    /\ UNCHANGED <<feed, template, draft, asked>>

\* Ignoring, and choosing another directory, edit the plan at once.
EditsOffer(m, op) ==
    /\ Pressed(m, op)
    /\ LET p == screen[m].of
           old == offer[p].payload IN
       IF StillPending(p, screen[m].revision)
       THEN /\ offer' = [offer EXCEPT ![p] =
                   IF op = "ignore" THEN Edited(p, old, "ignored")
                   ELSE Edited(p, [old EXCEPT !.directory = Other(@)], "pending")]
            /\ Shows(m, OfferPage(p)) /\ UNCHANGED <<feed, template, draft, asked>>
       ELSE Refuses(m)
\* The pages between: the directories of a plan, the actions on its batch, the batch's list.
TurnsPage(m, op) ==
    /\ Pressed(m, op)
    /\ LET p == screen[m].of IN
       IF StillPending(p, screen[m].revision)
       THEN /\ Shows(m, [screen[m] EXCEPT
                    !.left = CASE op = "directory" -> {"choose-directory"}
                               [] op = "batch" -> {"batch-approve", "batch-directory"}
                               [] op = "batch-directory" -> {"batch-set-directory"},
                    !.list = IF op = "batch-directory" THEN Listed(FeedOf[p]) ELSE {}])
            /\ UNCHANGED <<stores, draft, asked>>
       ELSE Refuses(m)
\* A batch's directory is set in one transaction: on every plan as listed, or on none.
BatchSetDirectory(m) ==
    /\ Pressed(m, "batch-set-directory")
    /\ LET list == screen[m].list IN
       IF \A e \in list : StillPending(e.plan, e.revision)
       THEN /\ offer' = [p \in Offers |->
                           IF \E e \in list : e.plan = p
                           THEN Edited(p, [offer[p].payload EXCEPT !.directory = Other(@)],
                                       "pending")
                           ELSE offer[p]]
            /\ Shows(m, NoPage) /\ UNCHANGED <<feed, template, draft, asked>>
       ELSE Refuses(m)
Expires(p) ==
    /\ offer[p].status = "pending"
    /\ offer' = [offer EXCEPT ![p] = Edited(p, @.payload, "expired")]
    /\ UNCHANGED <<feed, template, draft, asked, screen, handler, inputs>>

-----------------------------------------------------------------------------
\* The editor. A press counts only on the page and the source revision it was drawn from.
Requires(page) ==
    /\ draft # NoDraft /\ page.draft = <<draft.id, draft.version>>
    /\ feed[draft.of].revision = draft.revision
\* A page that cannot be drawn (a condition of a group that is gone) leaves only the way back.
Drawn == {DraftPage(EditorOps), DraftPage({"page"})}

EditorStart(m) ==
    /\ Pressed(m, "edit")
    /\ LET s == screen[m].of IN
       IF feed[s].revision = screen[m].revision
       THEN /\ draft' = [id |-> inputs', version |-> 1, of |-> s, revision |-> screen[m].revision,
                         original |-> feed[s].config, config |-> feed[s].config]
            /\ asked' = NoAnswer
            /\ Shows(m, DraftPage(EditorOps)) /\ UNCHANGED stores
       ELSE Refuses(m)
\* What one press or one text may make of the draft; every page counts the version up.
Variants(config) == {[config EXCEPT !.content = Other(@)], [config EXCEPT !.layout = "source_type"],
                     [config EXCEPT !.layout = "legacy"]}
Redraws(configs) ==
    /\ \E config \in configs : draft' = [draft EXCEPT !.version = @ + 1, !.config = config]
    /\ asked' = NoAnswer
    /\ UNCHANGED stores
EditorChange(m, op) ==
    /\ Pressed(m, op)
    /\ IF Requires(screen[m])
       THEN /\ Redraws(IF op = "change" THEN Variants(draft.config) ELSE {draft.config})
            /\ \E page \in Drawn : Shows(m, page)
       ELSE Refuses(m)
\* A test on recent messages reads them first, and needs the same page afterwards.
EditorRecent(m) ==
    /\ Pressed(m, "recent")
    /\ IF Requires(screen[m])
       THEN Waits(m, "recent", "recent", screen[m], 0) /\ UNCHANGED <<stores, draft, asked>>
       ELSE Refuses(m)
EditorTested(k) ==
    /\ Continues(k, {"recent"}, "recent")
    /\ IF Requires(handler[k].page)
       THEN Redraws({draft.config}) /\ \E page \in Drawn : EndsOn(k, page)
       ELSE Refused(k)
EditorPrompt(m) ==
    /\ Pressed(m, "input")
    /\ IF Requires(screen[m])
       THEN /\ draft' = [draft EXCEPT !.version = @ + 1]
            /\ asked' = [op |-> "editor-input", page |-> DraftPage({})]
            /\ Shows(m, DraftPage({"page"})) /\ UNCHANGED stores
       ELSE Refuses(m)
EditorSave(m) ==
    /\ Pressed(m, "save")
    /\ LET s == screen[m].of IN
       IF Requires(screen[m])
       THEN /\ ChangeSource(s, draft.config, feed[s].enabled)
            /\ IF draft.config.layout = "source_type" /\ feed[s].config.layout = "legacy"
               THEN /\ Waits(m, "save", "folder", screen[m], feed'[s].revision)
                    /\ UNCHANGED <<draft, asked>>
               ELSE Shows(m, NoPage) /\ draft' = NoDraft /\ asked' = NoAnswer
            /\ UNCHANGED template
       ELSE Refuses(m)
EditorCancel(m) ==
    /\ Pressed(m, "cancel")
    /\ IF draft # NoDraft /\ screen[m].draft = <<draft.id, draft.version>>
       THEN /\ draft' = NoDraft /\ asked' = NoAnswer /\ UNCHANGED stores
            /\ Shows(m, SourcePage(screen[m].of))
       ELSE Refuses(m)

-----------------------------------------------------------------------------
\* A template's name and a plan's new name are asked for; the next text answers.
AsksFor(m, op) ==
    /\ Pressed(m, op)
    /\ IF op = "rename" => StillPending(screen[m].of, screen[m].revision)
       THEN /\ asked' = [op |-> op, page |-> screen[m]]
            /\ Shows(m, NoPage) /\ UNCHANGED <<stores, draft>>
       ELSE Refuses(m)
TextFor(m, op) ==
    /\ inputs < MaxInputs /\ asked.op = op
    /\ inputs' = inputs + 1
\* The answer to a rename forgets the question only after its card has been sent.
Renames(k, m) ==
    /\ TextFor(m, "rename") /\ handler[k] = NoHandler
    /\ LET p == asked.page.of IN
       IF StillPending(p, asked.page.revision)
       THEN /\ offer' = [offer EXCEPT ![p] =
                           Edited(p, [offer[p].payload EXCEPT !.name = Other(@)], "pending")]
            /\ screen' = [screen EXCEPT ![m] = OfferPage(p)]
            /\ handler' = [handler EXCEPT ![k] = [NoHandler EXCEPT !.at = "replied"]]
       ELSE UNCHANGED <<offer, screen, handler>>
    /\ UNCHANGED <<feed, template, draft, asked>>
Forgets(k) ==
    /\ handler[k].at = "replied"
    /\ handler' = [handler EXCEPT ![k] = NoHandler]
    /\ asked' = NoAnswer
    /\ UNCHANGED <<stores, draft, screen, inputs>>
SavesTemplate(m) ==
    /\ TextFor(m, "save-name")
    /\ IF Changeable(asked.page.of, asked.page.revision) /\ template.content = "none"
       THEN /\ template' = [revision |-> template.revision + 1,
                            content |-> feed[asked.page.of].config.content]
            /\ asked' = NoAnswer
       ELSE UNCHANGED <<template, asked>>
    /\ UNCHANGED <<feed, offer, draft, screen, handler>>
EditorText(m) ==
    /\ TextFor(m, "editor-input")
    /\ IF Requires(asked.page)
       THEN /\ Redraws(Variants(draft.config))
            /\ \E page \in Drawn : Shows(m, page)
       ELSE /\ UNCHANGED <<stores, draft, asked>>
            /\ Shows(m, Sorry(asked.page))

\* Five minutes without an answer, and the draft is gone; a button or a question that has lapsed
\* is one that is never pressed or answered again.
DraftLapses ==
    /\ draft # NoDraft
    /\ draft' = NoDraft
    /\ UNCHANGED <<stores, asked, screen, handler, inputs>>

-----------------------------------------------------------------------------
\* A source that was added with a folder of its own, which could not be made, and was then given
\* a directory of the list; it may be receiving, a template may have
\* been kept, and the messages show cards.
DialogueInit ==
    /\ feed \in [Feeds -> {[config |-> [content |-> "plain", layout |-> "legacy"], revision |-> 1,
                           enabled |-> on, deleted |-> FALSE, made |-> FALSE,
                           past |-> {[content |-> "strict", layout |-> "source_type"]}] :
                          on \in BOOLEAN}]
    /\ offer \in [Offers -> {[status |-> st, revision |-> 0,
                             payload |-> [name |-> "plain", directory |-> "plain"]] :
                            st \in {"absent", "pending"}}]
    /\ template \in {[revision |-> 0, content |-> "none"], [revision |-> 1, content |-> "strict"]}
    /\ draft = NoDraft /\ asked = NoAnswer
    /\ screen \in [Screens -> {SourceCard(s, feed[s]) : s \in Feeds}
                               \cup {OfferCard(p, offer[p]) : p \in Offers}]
    /\ handler = [k \in Slots |-> NoHandler]
    /\ inputs = 0

FeedPress(m) ==
    \/ OpensCard(m) \/ EnablesSource(m) \/ PausesSource(m) \/ Deletes(m) \/ Restores(m)
    \/ RestoresRule(m) \/ Templates(m) \/ TemplateApply(m) \/ TemplateDelete(m) \/ HistoryPreview(m)
    \/ RegisterHistory(m) \/ RetriesFolder(m) \/ SendsReference(m)
OfferPress(m) ==
    \/ \E op \in {"approve", "batch-approve"} : Approves(m, op)
    \/ \E op \in {"ignore", "choose-directory"} : EditsOffer(m, op)
    \/ \E op \in {"directory", "batch", "batch-directory"} : TurnsPage(m, op)
    \/ BatchSetDirectory(m)
EditorPress(m) ==
    \/ EditorStart(m) \/ (\E op \in {"change", "page"} : EditorChange(m, op))
    \/ EditorRecent(m) \/ EditorPrompt(m) \/ EditorSave(m) \/ EditorCancel(m)
Texts(m) ==
    \/ \E op \in {"save-name", "rename"} : AsksFor(m, op)
    \/ \E k \in Slots : Renames(k, m)
    \/ SavesTemplate(m) \/ EditorText(m)
Resumed(k) ==
    \/ ChatVerified(k) \/ FolderMade(k) \/ FolderFails(k) \/ EnablesLate(k) \/ AddsAgain(k)
    \/ Scanned(k)
    \/ SubmitsOne(k) \/ EditorTested(k) \/ Forgets(k) \/ ReadFails(k)
DialogueNext ==
    \/ \E m \in Screens : FeedPress(m) \/ OfferPress(m) \/ EditorPress(m) \/ Texts(m)
    \/ \E k \in Slots : Resumed(k)
    \/ \E p \in Offers : Expires(p)
    \/ DraftLapses

DialogueTypeOK ==
    /\ feed \in [Feeds -> [config : SourceConfig, revision : Nat, enabled : BOOLEAN,
                          deleted : BOOLEAN, made : BOOLEAN, past : SUBSET SourceConfig]]
    /\ \A p \in Offers :
          /\ offer[p].status \in {"absent", "pending", "submitted", "ignored", "expired"}
          /\ offer[p].payload \in Payload
    /\ template.content \in Contents \cup {"none"}
    /\ draft = NoDraft \/ (draft.of \in Feeds /\ draft.config \in SourceConfig)
    /\ \A k \in Slots : handler[k].at \in {"idle", "chat", "folder", "newest", "scan", "check",
                                          "recent", "resolve", "replied"}

\* What a page announces a press on it will make of the source.
Outcome(page) ==
    IF page.wanted = Blank THEN page.shown
    ELSE IF page.wanted.layout = "none" THEN [page.shown EXCEPT !.content = page.wanted.content]
    ELSE page.wanted

\* A source that receives files them under a folder of its own only once that folder was made
\* (the folder of prepare_directory; change_source pauses whenever the layout changes).
EnabledIsReady ==
    \A s \in Feeds : feed[s].enabled /\ feed[s].config.layout = "source_type" => feed[s].made

\* A press changes a source (one that was not deleted), registers or confirms a plan only as its card showed it: what is
\* written over is what was shown, and what a draft or a restored version writes is what the
\* pressed page showed, whatever other handlers did while this one waited.
ActsOnWhatWasShown ==
    [][LET acting == {handler[k].page : k \in {j \in Slots : handler'[j] # handler[j]}}
                       \cup {screen[m] : m \in {n \in Screens : screen'[n] # screen[n]}} IN
       /\ \A s \in Feeds : feed'[s].revision # feed[s].revision /\ ~feed[s].deleted =>
             \E page \in acting :
                /\ page.of = s /\ page.shown = feed[s].config
                /\ feed'[s].config = Outcome(page)
       /\ \A p \in Offers : offer'[p].status = "submitted" /\ offer[p].status # "submitted" =>
             \E page \in acting : \E e \in page.list : e.plan = p /\ e.shown = offer[p].payload
       /\ \A p \in Offers : offer'[p].status = "pending" /\ offer[p].status = "absent" =>
             offer'[p].payload.name = feed[FeedOf[p]].config.content]_dialogueVars

DialogueSpec == DialogueInit /\ [][DialogueNext]_dialogueVars
===============================================================================
