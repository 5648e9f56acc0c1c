-------------------------------- MODULE MCInbox --------------------------------
(* Instances of ListenerInbox for TLC: how often each kind of event happens. *)
EXTENDS ListenerInbox

StormLimit == [c \in Causes |-> IF c = "edit" THEN 2 ELSE 1]
================================================================================
