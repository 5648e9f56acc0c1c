----------------------------- MODULE FamilyControl -----------------------------
(***************************************************************************)
(* The family's grants, quotas and the optional settings, as the terminals *)
(* of the server change them: a terminal shows what it has read, asks for  *)
(* a confirmation, and sends a request into the Bot's container.  A        *)
(* terminal that stops waiting does not stop its request                   *)
(* (deployment/users.py, feature_settings.py, persistence/users.py,        *)
(* control.py, features.py, quotas.py).                                    *)
(***************************************************************************)
EXTENDS Naturals, FiniteSets

CONSTANTS
    Members,    \* Telegram users other than the administrator
    MaxMembers, \* MAX_MEMBERS
    Terminals,
    MaxOrders   \* bound on the requests sent

ASSUME FamilyAssumption == MaxMembers \in Nat /\ MaxOrders \in Nat

VARIABLES
    grants,     \* the record family-users.v1: its revision and the members
    quota,      \* member_quotas
    options,    \* the record optional-features.v1
    terminal,   \* what each terminal has shown and is about to ask for
    requests,   \* in the container, not yet carried out
    edition,    \* the terminal that holds the edition's lock
    orders      \* how much of MaxOrders is used; also numbers the revisions

familyVars == <<grants, quota, options, terminal, requests, edition, orders>>
records == <<grants, quota, options>>

-----------------------------------------------------------------------------
Standings == {"none", "enabled", "disabled"}
Quotas == {"unlimited", "limited"}
Settings == {"off", "on"}
Order(kind, m, record, page, seen, wants) ==
    [kind |-> kind, id |-> m, revision |-> record.revision, page |-> page, seen |-> seen,
     wants |-> wants]
AtMenu == [at |-> "menu", order |-> [kind |-> "none"]]

Registered(users) == {m \in Members : users[m] # "none"}
NextStanding(kind) ==
    CASE kind = "add" -> "enabled" [] kind = "enable" -> "enabled"
      [] kind = "disable" -> "disabled" [] kind = "remove" -> "none"
GrantKinds == {"add", "enable", "disable", "remove"}

\* A page is read and a change of it chosen; a quota is read for itself a moment later.
ChoosesGrant(t) ==
    /\ terminal[t] = AtMenu
    /\ \E kind \in GrantKinds, m \in Members :
          /\ kind = "add" \/ m \in Registered(grants.users)
          /\ terminal' = [terminal EXCEPT ![t] =
                [at |-> "confirm", order |-> Order(kind, m, grants, grants.users, "", "")]]
    /\ UNCHANGED <<records, requests, edition, orders>>
ChoosesMember(t) ==
    /\ terminal[t] = AtMenu
    /\ \E m \in Registered(grants.users) :
          terminal' = [terminal EXCEPT ![t] =
             [at |-> "quota", order |-> Order("quota", m, grants, grants.users, "", "")]]
    /\ UNCHANGED <<records, requests, edition, orders>>
\* quota-read refuses a member who has gone; the new values are typed in.
ReadsQuota(t) ==
    LET m == terminal[t].order.id IN
    /\ terminal[t].at = "quota"
    /\ \E wants \in Quotas :
          terminal' = [terminal EXCEPT ![t] =
             IF m \in Registered(grants.users)
             THEN [at |-> "confirm", order |-> [@.order EXCEPT !.seen = quota[m], !.wants = wants]]
             ELSE AtMenu]
    /\ UNCHANGED <<records, requests, edition, orders>>
ChoosesSetting(t) ==
    /\ terminal[t] = AtMenu
    /\ \E wants \in Settings :
          terminal' = [terminal EXCEPT ![t] =
             [at |-> "confirm",
              order |-> Order("settings", "nobody", options, {}, options.value, wants)]]
    /\ UNCHANGED <<records, requests, edition, orders>>

\* Confirmed: under the edition's lock the instance is looked at again and the request sent.
Confirms(t) ==
    /\ terminal[t].at = "confirm" /\ edition = "free" /\ orders < MaxOrders
    /\ orders' = orders + 1
    /\ \/ /\ requests' = requests \cup {[by |-> t, number |-> orders', order |-> terminal[t].order]}
          /\ edition' = t
          /\ terminal' = [terminal EXCEPT ![t].at = "sent"]
       \/ /\ terminal' = [terminal EXCEPT ![t] = AtMenu]
          /\ UNCHANGED <<requests, edition>>
    /\ UNCHANGED records
Declines(t) ==
    /\ terminal[t].at \in {"confirm", "quota"}
    /\ terminal' = [terminal EXCEPT ![t] = AtMenu]
    /\ UNCHANGED <<records, requests, edition, orders>>
\* The answer has come, or the terminal has waited long enough (the request may still run).
StopsWaiting(t) ==
    /\ terminal[t].at = "sent"
    /\ terminal' = [terminal EXCEPT ![t] = AtMenu]
    /\ edition' = "free"
    /\ UNCHANGED <<records, requests, orders>>

-----------------------------------------------------------------------------
(* In the container: one transaction each *)

ChangesGrant(rq) ==
    LET o == rq.order IN
    IF /\ o.kind \in GrantKinds /\ o.revision = grants.revision
       /\ IF o.kind = "add"
          THEN /\ o.id \notin Registered(grants.users)
               /\ Cardinality(Registered(grants.users)) < MaxMembers
          ELSE o.id \in Registered(grants.users)
    THEN grants' = [revision |-> rq.number,
                    users |-> [grants.users EXCEPT ![o.id] = NextStanding(o.kind)]]
    ELSE UNCHANGED grants

\* Mutant: the grants' revision is enough.
AnyQuota(o) == TRUE
\* The quota is not part of the grants: what was shown of it is compared itself.
QuotaAsShown(o) == quota[o.id] = o.seen
ChangesQuota(rq) ==
    LET o == rq.order IN
    IF o.kind = "quota" /\ o.id \in Registered(grants.users) /\ o.revision = grants.revision
       /\ QuotaAsShown(o)
    THEN quota' = [quota EXCEPT ![o.id] = o.wants]
    ELSE UNCHANGED quota
ChangesSetting(rq) ==
    LET o == rq.order IN
    IF o.kind = "settings" /\ o.revision = options.revision
    THEN options' = [revision |-> rq.number, value |-> o.wants]
    ELSE UNCHANGED options
CarriesOut(rq) ==
    /\ rq \in requests
    /\ requests' = requests \ {rq}
    /\ ChangesGrant(rq) /\ ChangesQuota(rq) /\ ChangesSetting(rq)
    /\ UNCHANGED <<terminal, edition, orders>>
\* The container is stopped, the database busy for too long.
GetsLost(rq) ==
    /\ rq \in requests
    /\ requests' = requests \ {rq}
    /\ UNCHANGED <<records, terminal, edition, orders>>

-----------------------------------------------------------------------------
FamilyInit ==
    /\ grants \in {[revision |-> 0, users |-> u] : u \in [Members -> {"none", "enabled"}]}
    /\ quota = [m \in Members |-> "unlimited"]
    /\ options = [revision |-> 0, value |-> "off"]
    /\ terminal = [t \in Terminals |-> AtMenu]
    /\ requests = {} /\ edition = "free" /\ orders = 0

FamilyNext ==
    \/ \E t \in Terminals :
          \/ ChoosesGrant(t) \/ ChoosesMember(t) \/ ReadsQuota(t) \/ ChoosesSetting(t)
          \/ Confirms(t) \/ Declines(t) \/ StopsWaiting(t)
    \/ \E rq \in requests : CarriesOut(rq) \/ GetsLost(rq)

FamilyTypeOK ==
    /\ grants.users \in [Members -> Standings] /\ grants.revision \in 0 .. MaxOrders
    /\ quota \in [Members -> Quotas]
    /\ options.value \in Settings
    /\ edition \in Terminals \cup {"free"}

\* A change is made only to what its terminal showed when it was confirmed: the same members with
\* the same standing, the same quota, the same settings - even by a request that is carried out
\* after its terminal gave up and another one made changes.
GrantsAsShown ==
    [][\A rq \in requests \ requests' :
          /\ grants' # grants => rq.order.page = grants.users
          /\ quota' # quota => rq.order.page = grants.users /\ rq.order.seen = quota[rq.order.id]
          /\ options' # options => rq.order.seen = options.value]_familyVars

FamilySpec == FamilyInit /\ [][FamilyNext]_familyVars
===============================================================================
