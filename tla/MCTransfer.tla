------------------------------ MODULE MCTransfer ------------------------------
(***************************************************************************)
(* Small instances of TransferPipeline: one task that meets every kind of  *)
(* event, and two tasks that want the same remote name.                    *)
(***************************************************************************)
EXTENDS TransferPipeline

CONSTANTS a, b   \* the tasks

JustA == {a}
JustB == {b}
Both == {a, b}
None == {}

Transient == {"transient"}
Refused == {"refused"}

\* An event that is not listed does not happen.
Budget(f) == [e \in Events |-> IF e \in DOMAIN f THEN f[e] ELSE 0]

\* Everything but a cancellation.
Storm == Budget([crash |-> 1, stop |-> 1, disk |-> 1, fault |-> 2, loss |-> 1,
                 drift |-> 1, command |-> 1])

\* What happens to the task of a listener account that its user may cancel; the
\* failures and commands stop at some time, and then every task must settle.
Withdrawn == Budget([crash |-> 1, stop |-> 1, fault |-> 2, loss |-> 1, cancel |-> 1,
                     command |-> 1])

\* Two tasks: their race is the point, one failure and one crash disturb it.
Race == Budget([crash |-> 1, fault |-> 1, cancel |-> 1, command |-> 1])

OneCancel == Budget([cancel |-> 1])
OneDisk == Budget([disk |-> 1])
HeldAndStopped == Budget([fault |-> 1, stop |-> 1])
FaultAndCrash == Budget([fault |-> 1, crash |-> 1])

===============================================================================
