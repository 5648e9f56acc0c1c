------------------------------ MODULE SharedProxy ------------------------------
(***************************************************************************)
(* The shared Nginx of one host: DomainProxyManager (deployment scripts),  *)
(* ComposeProxyManager (Compose deployments) and apply_shared_state_locked *)
(* (the external WebDAV add-on).  They take turns under one flock; each    *)
(* step of theirs may fail, and the tool may die between any two.          *)
(*                                                                         *)
(* A configuration is the management route and the WebDAV route of every   *)
(* edition and a domain served for its ACME challenge only.  The WebDAV    *)
(* route of an edition has a domain of its own, named like the edition.    *)
(***************************************************************************)
EXTENDS Naturals

CONSTANTS
    Editions,        \* product keys
    Domains,         \* management domains
    DavEditions,     \* editions the add-on is installed for
    NoDomain,
    MaxProxyFaults,  \* bound: kills, failed roll-backs and failed Compose commits
    MaxLosses        \* bound: certificates lost

ASSUME ProxyAssumption ==
    /\ Editions # {} /\ NoDomain \notin Domains
    /\ Domains \cap Editions = {} /\ DavEditions \subseteq Editions
    /\ MaxProxyFaults \in Nat /\ MaxLosses \in Nat

MaybeDomain == Domains \cup {NoDomain}

VARIABLES
    domains,     \* state/domains.json; there: the file exists
    certs,       \* domains with a usable certificate
    conf,        \* installed nginx/conf.d; there: it was ever installed
    running,     \* what Nginx serves; Off: the containers are stopped
    registry,    \* compose-instances.json: the domain registered per edition
    fence,       \* compose-transaction.json exists
    op,          \* the running operation
    calm,        \* no operation was cut off since the last one that ended
    proxySpent   \* faults and losses so far

proxyVars == <<domains, certs, conf, running, registry, fence, op, calm, proxySpent>>

RouteState == [mgmt : [Editions -> MaybeDomain], dav : [Editions -> {"none", "off", "on"}]]
Config == [mgmt : [Editions -> MaybeDomain], dav : [Editions -> {"none", "off", "on"}],
           boot : MaybeDomain \cup Editions]
NoRoutes == [mgmt |-> [e \in Editions |-> NoDomain], dav |-> [e \in Editions |-> "none"]]
Plain(s) == [mgmt |-> s.mgmt, dav |-> s.dav, boot |-> NoDomain]
Off == Plain(NoRoutes)

NoOp == [pc |-> "idle", who |-> "script", ed |-> CHOOSE e \in Editions : TRUE, kind |-> "remove",
         prev |-> NoRoutes, target |-> NoRoutes, repair |-> FALSE]

\* Steps inside the try block of the operation.
Tried == {"boot", "bootServe", "cert", "target", "targetServe", "verify", "commit", "registry", "unfence"}

ProxyTypeOK ==
    /\ domains \in [there : BOOLEAN, routes : RouteState]
    /\ certs \subseteq Domains \cup Editions
    /\ conf \in [there : BOOLEAN, cfg : Config] /\ running \in Config
    /\ registry \in [Editions -> MaybeDomain]
    /\ fence \in BOOLEAN /\ calm \in BOOLEAN
    /\ op \in [pc : Tried \cup {"idle", "ensure", "back", "backServe", "backCommit"},
               who : {"script", "compose", "dav"}, ed : Editions,
               kind : {"configure", "remove", "apply"},
               prev : RouteState, target : RouteState, repair : BOOLEAN]
    /\ proxySpent \in [faults : 0..MaxProxyFaults, losses : 0..MaxLosses]

ProxyInit ==
    /\ domains = [there |-> FALSE, routes |-> NoRoutes]
    /\ certs = {} /\ conf = [there |-> FALSE, cfg |-> Off] /\ running = Off
    /\ registry = [e \in Editions |-> NoDomain] /\ fence = FALSE
    /\ op = NoOp /\ calm = TRUE /\ proxySpent = [faults |-> 0, losses |-> 0]

-------------------------------------------------------------------------------
Served(s) == {s.mgmt[e] : e \in Editions} \ {NoDomain}
Names(s) == Served(s) \cup {e \in Editions : s.dav[e] # "none"}

\* Mutant: the add-on's routes do not count.
HasManagement(s) == Served(s) # {}

HasRoutes(s) == Names(s) # {}

\* nginx -t: a TLS route without its certificate is refused.
Accepts(c) == Names(c) \subseteq certs

WithRoute(s, e, d) == [s EXCEPT !.mgmt[e] = d]
WithoutRoute(s, e) == [s EXCEPT !.mgmt[e] = NoDomain]

\* Mutant: the bootstrap serves nothing else meanwhile.
BootstrapOnly(s, d) == [Off EXCEPT !.boot = d]

Bootstrap(s, d) == [Plain(s) EXCEPT !.boot = IF d \in Names(s) THEN NoDomain ELSE d]

\* Mutant: the certificate is always the one of the management domain.
ManagementCandidate == op.target.mgmt[op.ed]

\* The domain an operation needs a certificate for.
Candidate == IF op.kind = "configure" THEN op.target.mgmt[op.ed] ELSE op.ed
BootState == IF op.repair THEN WithoutRoute(op.prev, op.ed) ELSE op.prev
BootConfig == Bootstrap(BootState, Candidate)

\* Mutant: a failed change restores everything as it was.
FallbackAsBefore == op.prev

\* Where a failed operation goes back to: never to an open WebDAV route.
Fallback ==
    IF op.kind = "apply" /\ op.prev.dav[op.ed] # "none"
    THEN [op.prev EXCEPT !.dav[op.ed] = "off"]
    ELSE op.prev

RegistryAgrees == \A e \in Editions : registry[e] # NoDomain => registry[e] = domains.routes.mgmt[e]

\* _check_compose_owner of the scripts; validate_shared of Compose, which also
\* refuses files that are not the ones of the recorded state.
MayOwn(who, e) ==
    /\ ~ fence /\ RegistryAgrees
    /\ who = "script" => registry[e] = NoDomain
    /\ who = "compose" =>
          /\ domains.routes.mgmt[e] # NoDomain => registry[e] # NoDomain
          /\ conf.there => Names(conf.cfg) = Names(domains.routes) /\ conf.cfg.boot = NoDomain

OpTo(l) == op' = [op EXCEPT !.pc = l]
OpEnds(quiet) == op' = NoOp /\ calm' = quiet

-------------------------------------------------------------------------------
(* Operations begin: checks, then the marker file. *)

Configures(who, e, d) ==
    /\ op.pc = "idle" /\ who # "dav" /\ MayOwn(who, e)
    /\ \A x \in Editions \ {e} : domains.routes.mgmt[x] # d
    /\ op' = [pc |-> "ensure", who |-> who, ed |-> e, kind |-> "configure",
              prev |-> domains.routes, target |-> WithRoute(domains.routes, e, d),
              repair |-> domains.routes.mgmt[e] = d /\ d \notin certs]
    /\ UNCHANGED <<domains, certs, conf, running, registry, fence, calm, proxySpent>>

Removes(who, e) ==
    /\ op.pc = "idle" /\ who # "dav" /\ MayOwn(who, e)
    /\ domains.routes.mgmt[e] # NoDomain
    /\ op' = [pc |-> "target", who |-> who, ed |-> e, kind |-> "remove",
              prev |-> domains.routes, target |-> WithoutRoute(domains.routes, e), repair |-> FALSE]
    /\ UNCHANGED <<domains, certs, conf, running, registry, fence, calm, proxySpent>>

\* The add-on compares the installed files with the recorded state first.
Applies(e, v) ==
    /\ op.pc = "idle" /\ e \in DavEditions
    /\ conf.there => conf.cfg = Plain(domains.routes)
    /\ v # "on" => domains.routes.dav[e] # "none"
    /\ op' = [pc |-> "ensure", who |-> "dav", ed |-> e, kind |-> "apply",
              prev |-> domains.routes, target |-> [domains.routes EXCEPT !.dav[e] = v],
              repair |-> FALSE]
    /\ UNCHANGED <<domains, certs, conf, running, registry, fence, calm, proxySpent>>

NeedsBoot ==
    \/ op.kind = "configure"
    \/ op.kind = "apply" /\ op.target.dav[op.ed] = "on" /\ op.ed \notin certs

Ensures ==
    /\ op.pc = "ensure" /\ domains' = [domains EXCEPT !.there = TRUE]
    /\ OpTo(IF NeedsBoot THEN "boot" ELSE "target")
    /\ UNCHANGED <<certs, conf, running, registry, fence, calm, proxySpent>>

\* Refused or failed before the try block: nothing was touched.
EnsureFails ==
    /\ op.pc = "ensure" /\ OpEnds(calm)
    /\ UNCHANGED <<domains, certs, conf, running, registry, fence, proxySpent>>

-------------------------------------------------------------------------------
(* _activate: install the files, which nginx -t has accepted, then reload. *)

Installs(from, cfg, to) ==
    /\ op.pc = from /\ Accepts(cfg)
    /\ conf' = [there |-> TRUE, cfg |-> cfg]
    /\ OpTo(to)
    /\ UNCHANGED <<domains, certs, running, registry, fence, calm, proxySpent>>

InstallsBoot == Installs("boot", BootConfig, "bootServe")

\* The last route goes with the containers, not with a reload.
InstallsTarget == Installs("target", Plain(op.target), "targetServe")

BootServed ==
    /\ op.pc = "bootServe" /\ running' = conf.cfg /\ OpTo("cert")
    /\ UNCHANGED <<domains, certs, conf, registry, fence, calm, proxySpent>>

\* A certificate that is still valid is used as it is.
Obtains ==
    /\ op.pc = "cert" /\ certs' = certs \cup {Candidate} /\ OpTo("target")
    /\ UNCHANGED <<domains, conf, running, registry, fence, calm, proxySpent>>

TargetServed ==
    /\ op.pc = "targetServe"
    /\ running' = IF HasRoutes(op.target) THEN conf.cfg ELSE Off
    /\ OpTo("verify")
    /\ UNCHANGED <<domains, certs, conf, registry, fence, calm, proxySpent>>

\* Every route that is left answers as it should.
Verifies ==
    /\ op.pc = "verify" /\ OpTo("commit")
    /\ UNCHANGED <<domains, certs, conf, running, registry, fence, calm, proxySpent>>

\* Compose raises its fence before the state file and lowers it after the
\* registry.
Commits ==
    /\ op.pc = "commit"
    /\ domains' = [there |-> TRUE, routes |-> op.target]
    /\ IF op.who = "compose" THEN fence' = TRUE /\ OpTo("registry") /\ UNCHANGED calm
                             ELSE OpEnds(TRUE) /\ UNCHANGED fence
    /\ UNCHANGED <<certs, conf, running, registry, proxySpent>>

Registers ==
    /\ op.pc = "registry"
    /\ registry' = [registry EXCEPT ![op.ed] = op.target.mgmt[op.ed]]
    /\ OpTo("unfence")
    /\ UNCHANGED <<domains, certs, conf, running, fence, calm, proxySpent>>

LowersFence ==
    /\ op.pc = "unfence" /\ fence' = FALSE /\ OpEnds(TRUE)
    /\ UNCHANGED <<domains, certs, conf, running, registry, proxySpent>>

-------------------------------------------------------------------------------
(* Failures *)

\* A command or a check fails, or Ctrl-C: back to the old routes.  A Compose
\* commit that fails keeps its fence.
Fails ==
    /\ op.pc \in Tried
    /\ op.pc \in {"registry", "unfence"} => proxySpent.faults < MaxProxyFaults
    /\ proxySpent' = IF op.pc \in {"registry", "unfence"}
                     THEN [proxySpent EXCEPT !.faults = @ + 1] ELSE proxySpent
    /\ OpTo("back")
    /\ UNCHANGED <<domains, certs, conf, running, registry, fence, calm>>

\* The old certificate is still missing: a repair goes back to the bootstrap.
BackConfig ==
    IF op.repair /\ ~ Accepts(Plain(op.prev)) THEN BootConfig ELSE Plain(Fallback)

InstallsBack == Installs("back", BackConfig, "backServe")

BackServed ==
    /\ op.pc = "backServe"
    /\ running' = IF HasRoutes(Fallback) THEN conf.cfg ELSE Off
    /\ IF op.kind = "apply" THEN OpTo("backCommit") /\ UNCHANGED calm ELSE OpEnds(TRUE)
    /\ UNCHANGED <<domains, certs, conf, registry, fence, proxySpent>>

\* Only the add-on records its fallback.
BackCommits ==
    /\ op.pc = "backCommit"
    /\ domains' = [there |-> TRUE, routes |-> Fallback]
    /\ OpEnds(TRUE)
    /\ UNCHANGED <<certs, conf, running, registry, fence, proxySpent>>

\* The roll-back fails too, or the tool is killed anywhere.
CutOff ==
    /\ op.pc # "idle" /\ proxySpent.faults < MaxProxyFaults
    /\ proxySpent' = [proxySpent EXCEPT !.faults = @ + 1]
    /\ OpEnds(FALSE)
    /\ UNCHANGED <<domains, certs, conf, running, registry, fence>>

\* A roll-back whose old routes Nginx no longer accepts cannot succeed.
BackRefused ==
    /\ op.pc = "back" /\ ~ Accepts(BackConfig)
    /\ OpEnds(FALSE)
    /\ UNCHANGED <<domains, certs, conf, running, registry, fence, proxySpent>>

\* A certificate is deleted or can no longer be renewed.
Loses(d) ==
    /\ d \in certs /\ proxySpent.losses < MaxLosses
    /\ certs' = certs \ {d}
    /\ proxySpent' = [proxySpent EXCEPT !.losses = @ + 1]
    /\ UNCHANGED <<domains, conf, running, registry, fence, op, calm>>

\* The host restarts: the containers come back with the installed files.
HostRestarts ==
    /\ running # Off /\ Accepts(conf.cfg)
    /\ running' = conf.cfg
    /\ UNCHANGED <<domains, certs, conf, registry, fence, op, calm, proxySpent>>

ProxyNext ==
    \/ \E e \in Editions, who \in {"script", "compose"} :
          Removes(who, e) \/ \E d \in Domains : Configures(who, e, d)
    \/ \E e \in Editions, v \in {"none", "off", "on"} : Applies(e, v)
    \/ Ensures \/ EnsureFails \/ InstallsBoot \/ BootServed \/ Obtains \/ InstallsTarget \/ TargetServed
    \/ Verifies \/ Commits \/ Registers \/ LowersFence
    \/ HostRestarts \/ Fails \/ InstallsBack \/ BackServed \/ BackCommits \/ CutOff \/ BackRefused
    \/ \E d \in Domains \cup Editions : Loses(d)

ProxySpec == ProxyInit /\ [][ProxyNext]_proxyVars

-------------------------------------------------------------------------------
(* Properties *)

\* After every operation that was not cut off, failed ones included, Nginx
\* serves the recorded routes; a route whose certificate is gone may be down.
RuntimeMatches ==
    op.pc = "idle" /\ calm /\ ~ fence =>
        \A e \in Editions :
            /\ \/ running.mgmt[e] = domains.routes.mgmt[e]
               \/ running.mgmt[e] = NoDomain /\ domains.routes.mgmt[e] \notin certs
            /\ running.dav[e] = domains.routes.dav[e]

\* Whatever an operation on one edition does, the routes of the others that
\* were served go on being served.
OthersServed ==
    calm /\ op.pc # "idle" =>
        /\ \A e \in Editions :
              \/ e = op.ed /\ op.kind # "apply"
              \/ op.prev.mgmt[e] \notin certs \cup {NoDomain}
              \/ running.mgmt[e] = op.prev.mgmt[e]
        /\ \A e \in Editions :
              e # op.ed \/ op.kind # "apply" => running.dav[e] = op.prev.dav[e]

\* Whatever happens to one edition, each is served what its record names (or what it had before
\* an operation that is under way), by a manager that keeps one record for all (manager.py).
RoutesServed == RuntimeMatches /\ OthersServed

\* A change of a WebDAV route that fails leaves it closed, not as it was.
NoReopen ==
    [][op.kind = "apply" /\ op.pc \in {"back", "backServe", "backCommit"} /\ op'.pc = "idle" /\ calm'
          => running'.dav[op.ed] # "on" /\ domains'.routes.dav[op.ed] # "on"]_proxyVars

===============================================================================
