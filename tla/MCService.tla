-------------------------------- MODULE MCService --------------------------------
(***************************************************************************)
(* Parts of the running Bot that share no state here - admission, listener *)
(* account, pacing, fault notices, the administrator's dialogue, the       *)
(* recovery commands, the family's grants, the watch over the destination  *)
(* - each over its whole state space: a behaviour follows the one it has   *)
(* chosen.                                                                 *)
(***************************************************************************)
EXTENDS Admission, ListenerAccount, Pacing, FaultNotices, Dialogue, TaskConsole,
        FamilyControl, DestinationWatch, TLC

CONSTANTS task1, task2, task3, feed1, plan1, plan2, screen1

ServiceSize == (task1 :> 2 @@ task2 :> 1 @@ task3 :> 1)
ByDay == [daily |-> 2, queued |-> 0, active |-> 0]
ServiceLimits == {ByDay, [daily |-> 0, queued |-> 1, active |-> 1]}
OffersOf == (plan1 :> feed1 @@ plan2 :> feed1)

VARIABLE machine

Machines == {"admission", "account", "pacing", "notices", "dialogue", "console",
             "family", "probe"}

serviceVars == <<machine, admissionVars, accountVars, pacingVars, noticeVars, dialogueVars,
                 consoleVars, familyVars, watchVars>>

\* The initial states of a machine that is not followed do not matter: one is enough.
ServiceInit ==
    /\ machine \in Machines
    /\ AdmissionInit /\ AccountInit /\ PacingInit /\ NoticeInit /\ DialogueInit /\ ConsoleInit
    /\ FamilyInit /\ WatchInit
    /\ machine # "admission" => limit = ByDay
    /\ machine # "pacing" => window = 1
    /\ screen[screen1].of = feed1 /\ offer[plan1].status = "pending"
    /\ \A n \in Screens : screen[n].of # plan2
    /\ machine # "dialogue" => /\ ~feed[feed1].enabled /\ template.content = "none"
                               /\ offer[plan2].status = "pending" /\ \A n \in Screens : screen[n].of = feed1
    /\ machine # "family" => \A m \in Members : grants.users[m] = "none"
    /\ machine # "console" => staged = {} /\ \A t \in Jobs : job[t].state = "queued"

botVars == <<admissionVars, accountVars, pacingVars, noticeVars, dialogueVars, consoleVars>>

ServiceNext ==
    /\ UNCHANGED machine
    /\ \/ /\ machine = "admission" /\ AdmissionNext
          /\ UNCHANGED <<accountVars, pacingVars, noticeVars, dialogueVars, consoleVars,
                         familyVars, watchVars>>
       \/ /\ machine = "account" /\ AccountNext
          /\ UNCHANGED <<admissionVars, pacingVars, noticeVars, dialogueVars, consoleVars,
                         familyVars, watchVars>>
       \/ /\ machine = "pacing" /\ PacingNext
          /\ UNCHANGED <<admissionVars, accountVars, noticeVars, dialogueVars, consoleVars,
                         familyVars, watchVars>>
       \/ /\ machine = "notices" /\ NoticeNext
          /\ UNCHANGED <<admissionVars, accountVars, pacingVars, dialogueVars, consoleVars,
                         familyVars, watchVars>>
       \/ /\ machine = "dialogue" /\ DialogueNext
          /\ UNCHANGED <<admissionVars, accountVars, pacingVars, noticeVars, consoleVars,
                         familyVars, watchVars>>
       \/ /\ machine = "console" /\ ConsoleNext
          /\ UNCHANGED <<admissionVars, accountVars, pacingVars, noticeVars, dialogueVars,
                         familyVars, watchVars>>
       \/ /\ machine = "family" /\ FamilyNext /\ UNCHANGED <<botVars, watchVars>>
       \/ /\ machine = "probe" /\ WatchNext /\ UNCHANGED <<botVars, familyVars>>

ServiceSpec == ServiceInit /\ [][ServiceNext]_serviceVars

\* Every variable keeps to its type.
ServiceTypeOK ==
    /\ AdmissionTypeOK /\ AccountTypeOK /\ PacingTypeOK /\ NoticeTypeOK /\ DialogueTypeOK
    /\ ConsoleTypeOK /\ FamilyTypeOK /\ WatchTypeOK

\* What is asked for is done only as it was shown: a card of the dialogue and a confirmation of
\* a recovery command act on the state their reader saw.
ShownIsDone == ActsOnWhatWasShown /\ ConfirmedAsShown

\* Nobody acts before a pause Telegram or a gateway has asked for is over: not the chunk requests
\* that share a flood wait, not the callers that waited for one probe of the destination.
PausesKept == WaitsHonoured /\ ProbesApart
===============================================================================
