----------------------------- MODULE AtomicChange -----------------------------
(***************************************************************************)
(* What a change of the site files promises: whoever looks at the files    *)
(* while nothing is in progress finds exactly the committed ones, save for *)
(* files somebody else has edited.  How the change gets there, and what    *)
(* happens to it half-way, is left open.                                   *)
(***************************************************************************)
CONSTANTS Names, Contents, Edited   \* Edited: the content of a foreign edit

VARIABLES cur,    \* the committed contents
          site,   \* the contents on disk
          busy    \* a change is in progress or interrupted

Agree(f) == \A n \in Names : site[n] \in {f[n], Edited}

Init ==
    /\ cur \in [Names -> Contents] /\ site = cur
    /\ busy = FALSE

Begin == ~ busy /\ Agree(cur) /\ busy' = TRUE /\ UNCHANGED <<cur, site>>

Write ==
    /\ busy /\ site' \in [Names -> Contents]
    /\ UNCHANGED <<cur, busy>>

\* The commit point: everything new is already on disk.
Commit == busy /\ cur' \in [Names -> Contents] /\ Agree(cur') /\ UNCHANGED <<site, busy>>

Settle == busy /\ Agree(cur) /\ busy' = FALSE /\ UNCHANGED <<cur, site>>

Edit ==
    /\ \E n \in Names : site' = [site EXCEPT ![n] = Edited]
    /\ UNCHANGED <<cur, busy>>

Next == Begin \/ Write \/ Commit \/ Settle \/ Edit

Spec == Init /\ [][Next]_<<cur, site, busy>>

===============================================================================
