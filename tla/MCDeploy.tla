-------------------------------- MODULE MCDeploy --------------------------------
(***************************************************************************)
(* The tools of the host - site transaction, shared proxy, external        *)
(* access, upgrade and backup, removal - which share no state here, each   *)
(* over its whole state space: a behaviour follows the one it has chosen.  *)
(***************************************************************************)
EXTENDS SiteEntry, SharedProxy, WebdavAccess, InstanceUpgrade, HostRemoval

VARIABLE machine

Machines == {"site", "proxy", "webdav", "instance", "removal"}

deployVars == <<machine, siteVars, proxyVars, webdavVars, instanceVars, removalVars>>

\* The initial states of a machine that is not followed do not matter: one is enough.
DeployInit ==
    /\ machine \in Machines
    /\ SiteInit /\ ProxyInit /\ WebdavInit /\ InstanceInit /\ RemovalInit
    /\ machine # "removal" => routed = {} /\ mgr.command = {}

DeployNext ==
    /\ UNCHANGED machine
    /\ \/ /\ machine = "site" /\ SiteNext
          /\ UNCHANGED <<proxyVars, webdavVars, instanceVars, removalVars>>
       \/ /\ machine = "proxy" /\ ProxyNext
          /\ UNCHANGED <<siteVars, webdavVars, instanceVars, removalVars>>
       \/ /\ machine = "webdav" /\ WebdavNext
          /\ UNCHANGED <<siteVars, proxyVars, instanceVars, removalVars>>
       \/ /\ machine = "instance" /\ InstanceNext
          /\ UNCHANGED <<siteVars, proxyVars, webdavVars, removalVars>>
       \/ /\ machine = "removal" /\ RemovalNext
          /\ UNCHANGED <<siteVars, proxyVars, webdavVars, instanceVars>>

DeploySpec ==
    /\ DeployInit /\ [][DeployNext]_deployVars
    /\ WF_siteVars(machine = "site" /\ ToolStep)

\* Every variable keeps to its type.
DeployTypeOK ==
    /\ SiteTypeOK /\ ProxyTypeOK /\ WebdavTypeOK /\ InstanceTypeOK /\ RemovalTypeOK
===============================================================================
