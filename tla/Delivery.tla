------------------------------- MODULE Delivery -------------------------------
(***************************************************************************)
(* What the transfer pipeline promises its users, task by task: a received *)
(* task is stored whole and stays so, a withdrawn one leaves nothing, and  *)
(* meanwhile its finished local copy is given up only for the stored       *)
(* object, for the user's sake or by somebody outside.  Which coroutines,  *)
(* names, retries and restarts bring this about is left open.              *)
(*                                                                         *)
(* One step may be a step of several tasks, as a restart is.               *)
(***************************************************************************)
EXTENDS Naturals

CONSTANT Tasks

VARIABLES
    fate,     \* "open", "accepted", "received" or "withdrawn"
    asked,    \* its user wants the task withdrawn
    copy,     \* its finished local copy is there
    stored,   \* its whole object is where the record says
    left,     \* something of it lies where nobody would look for it
    world     \* how often users and outsiders have done something so far

vars == <<fate, asked, copy, stored, left, world>>

Nobody == [t \in Tasks |-> FALSE]

Init ==
    /\ fate = [t \in Tasks |-> "open"]
    /\ asked = Nobody /\ copy = Nobody /\ stored = Nobody /\ left = Nobody
    /\ \A e \in DOMAIN world : world[e] = 0

Happens(e) == world'[e] > world[e]

\* A task passes from one fate to the next, or stays.
Passes(t, from, to) == fate[t] = from /\ fate'[t] = to

\* The local copy is not given up.
Keeps(t) == copy[t] => copy'[t] \/ Happens("loss")

Work(t) == Passes(t, "open", "open") /\ ~ asked[t] /\ ~ asked'[t] /\ Keeps(t)

\* The receipt: the object is there, and so is the local copy still.
Accept(t) ==
    /\ Passes(t, "open", "accepted") /\ ~ asked[t] /\ ~ asked'[t]
    /\ stored'[t] /\ Keeps(t)

\* Now the copy may go, as long as the object is there.
Tidy(t) ==
    /\ Passes(t, "accepted", "accepted") /\ ~ asked'[t]
    /\ stored[t] => stored'[t] \/ Happens("drift")
    /\ copy[t] => copy'[t] \/ stored[t] \/ Happens("loss")

\* The object was changed or taken away after all.
TakeBack(t) == Passes(t, "accepted", "open") /\ ~ stored[t] /\ ~ asked'[t] /\ Keeps(t)

Receive(t) ==
    /\ Passes(t, "accepted", "received") /\ ~ asked'[t]
    /\ stored[t] /\ stored'[t] /\ Keeps(t)

Rest(t) == Passes(t, "received", "received") /\ ~ asked'[t] /\ stored[t] /\ stored'[t] /\ Keeps(t)

Ask(t) == Passes(t, "open", "open") /\ asked'[t] /\ Happens("cancel")

\* What the user wants withdrawn is not delivered behind his back.
Withdrawing(t) ==
    /\ Passes(t, "open", "open") /\ asked[t] /\ asked'[t]
    /\ stored'[t] => stored[t]
    /\ copy'[t] => copy[t]

Withdraw(t) ==
    /\ Passes(t, "open", "withdrawn") /\ ~ asked'[t]
    /\ asked[t] \/ Happens("cancel")
    /\ ~ copy'[t] /\ ~ left'[t]

\* A retry, or a task that must be looked at first.
Relent(t) == Passes(t, "open", "open") /\ asked[t] /\ ~ asked'[t] /\ Keeps(t)

Bygone(t) == Passes(t, "withdrawn", "withdrawn") /\ ~ asked'[t] /\ ~ copy'[t] /\ ~ left'[t]

Reopen(t) ==
    /\ Passes(t, "withdrawn", "open") /\ ~ asked'[t] /\ ~ copy'[t]
    /\ Happens("command")

Step(t) ==
    \/ Work(t) \/ Accept(t) \/ Tidy(t) \/ TakeBack(t) \/ Receive(t) \/ Rest(t)
    \/ Ask(t) \/ Withdrawing(t) \/ Withdraw(t) \/ Relent(t) \/ Bygone(t) \/ Reopen(t)

Next == \A t \in Tasks : Step(t)

Spec == Init /\ [][Next]_vars

===============================================================================
