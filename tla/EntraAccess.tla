----------------------------- MODULE EntraAccess -----------------------------
(***************************************************************************)
(* Applications, consents and roles in Entra and Fabric, set up by         *)
(* setup_cowork_mcp_entra.py and grant_agent_identity_access.py.  Both     *)
(* read what is there and write it back with their own entries added, one  *)
(* REST call at a time, while administrators go on adding to the same      *)
(* objects and taking from them.  A run may end at any call and is then    *)
(* run again.  Graph lists a new application only after a while.           *)
(***************************************************************************)
EXTENDS Naturals, Sequences, FiniteSets

CONSTANTS
  MaxApps,     \* bound: resource applications ever made
  MaxScripts,  \* bound: runs of the two scripts
  MaxEdits     \* bound: what administrators change meanwhile

ASSUME EntraAssumption == {MaxApps, MaxScripts, MaxEdits} \subseteq Nat

OurPermission == "noc.invoke"
Preauthorized == {"cowork client", "token store"}
Other == "entry of an administrator"

\* The consents in their order; Fabric's scopes are ensured one by one.
CoworkConsents ==
  << [grant |-> "cowork client on resource", scopes |-> {OurPermission}],
     [grant |-> "resource on Azure AI", scopes |-> {"user_impersonation"}],
     [grant |-> "resource on Fabric", scopes |-> {"DataAgent"}],
     [grant |-> "resource on Fabric", scopes |-> {"GraphInstance"}] >>
AgentConsents ==
  << [grant |-> "agent on Fabric", scopes |-> {"DataAgent", "GraphInstance"}],
     [grant |-> "agent on Graph", scopes |-> {"Mail.Read", "Sites.Read.All"}] >>
Consents == [cowork |-> CoworkConsents, agent |-> AgentConsents]
Grant == {"cowork client on resource", "resource on Azure AI", "resource on Fabric",
          "agent on Fabric", "agent on Graph"}

\* The roles of grant_agent_identity_access, step by step; all but the
\* first are optional.
Wanted == << [who |-> "agent user", role |-> "Contributor"],
             [who |-> "Teams users", role |-> "Viewer"],
             [who |-> "hosts", role |-> "Contributor"] >>
Optional == {2, 3}

VARIABLES
  resourceApps,  \* resource applications made
  unlisted,      \* those Graph does not list yet
  api,           \* api[a]: [scopes, preauthorized] of application a
  principals,    \* applications with a service principal
  trust,         \* applications that trust the MCP host's identity
  grants,        \* grants[g]: the scopes granted to [all] and to some [user]
  roles,         \* roles[p]: role of p in the Fabric workspace, or "none"
  script,        \* the run: [name, pc, step, app, read, optional]
  scripts,       \* runs so far
  edits,         \* changes of administrators so far
  editedApis,    \* ghost: applications edited since the run read the one it writes
  editedGrants,  \* ghost: grants edited since the run read the one it writes
  withdrawn,     \* ghost: where administrators took something since the run began
  assigned       \* ghost: principals whose role an administrator set

meanwhile == <<editedApis, editedGrants, withdrawn, assigned>>
bounds == <<scripts, edits>>
applications == <<resourceApps, unlisted, api, principals, trust>>
entraVars == <<applications, grants, roles, script, bounds, meanwhile>>

NoApi == [scopes |-> {}, preauthorized |-> {}]
Nowhere == [apps |-> {}, grants |-> {}, roles |-> {}]

EntraInit ==
  /\ resourceApps = {} /\ unlisted = {} /\ principals = {} /\ trust = {}
  /\ api = [a \in 1 .. MaxApps |-> NoApi]
  /\ grants = [g \in Grant |-> [all |-> {}, user |-> {}]]
  /\ roles = [i \in 1 .. Len(Wanted) |-> "none"]
  /\ script = [name |-> "cowork", pc |-> "idle", step |-> 1, app |-> 0, read |-> {},
               optional |-> {}]
  /\ scripts = 0 /\ edits = 0
  /\ editedApis = {} /\ editedGrants = {} /\ withdrawn = Nowhere /\ assigned = {}

Resting == script.pc \in {"idle", "done", "done without consent", "failed"}
Runs == Resting /\ scripts < MaxScripts /\ scripts' = scripts + 1
ScriptGoes(pc) == script' = [script EXCEPT !.pc = pc]

-----------------------------------------------------------------------------
(* setup_cowork_mcp_entra.py                                               *)

(* By its name: none listed makes a new one, two end the run.  The object  *)
(* read here is what both patches are built from.                          *)
EnsureApplication ==
  /\ Runs
  /\ LET found == resourceApps \ unlisted
         Read(a) == script' = [name |-> "cowork", pc |-> "permission", step |-> 1, app |-> a,
                               read |-> api[a], optional |-> {}]
     IN \/ \E a \in found :
             found = {a} /\ Read(a) /\ UNCHANGED <<resourceApps, unlisted>>
        \/ /\ found = {} /\ Cardinality(resourceApps) < MaxApps
           /\ LET a == Cardinality(resourceApps) + 1
              IN /\ resourceApps' = resourceApps \cup {a}
                 /\ unlisted' = unlisted \cup {a}
                 /\ Read(a)
        \/ /\ Cardinality(found) > 1
           /\ script' = [script EXCEPT !.name = "cowork", !.pc = "failed"]
           /\ UNCHANGED <<resourceApps, unlisted>>
  /\ editedApis' = {} /\ withdrawn' = Nowhere
  /\ UNCHANGED <<api, principals, trust, grants, roles, editedGrants, assigned, edits>>

\* Mutant of PatchPermission: the new permission replaces the others.
PatchPermissionOnly ==
  /\ script.pc = "permission"
  /\ api' = [api EXCEPT ![script.app] =
               [scopes |-> {OurPermission}, preauthorized |-> script.read.preauthorized]]
  /\ ScriptGoes("preauthorize")
  /\ UNCHANGED <<resourceApps, unlisted, principals, trust, grants, roles, meanwhile, bounds>>

(* The whole api object, permission added; with it identifiers, redirects  *)
(* and required access, merged in the same way.                            *)
PatchPermission ==
  /\ script.pc = "permission"
  /\ api' = [api EXCEPT ![script.app] =
               [script.read EXCEPT !.scopes = @ \cup {OurPermission}]]
  /\ ScriptGoes("preauthorize")
  /\ UNCHANGED <<resourceApps, unlisted, principals, trust, grants, roles, meanwhile, bounds>>

\* A second patch: a pre-authorization may only name a stored permission.
PatchPreauthorized ==
  /\ script.pc = "preauthorize"
  /\ api' = [api EXCEPT ![script.app] =
               [scopes |-> script.read.scopes \cup {OurPermission},
                preauthorized |-> script.read.preauthorized \cup Preauthorized]]
  /\ ScriptGoes("principal")
  /\ UNCHANGED <<resourceApps, unlisted, principals, trust, grants, roles, meanwhile, bounds>>

EnsureServicePrincipal ==
  /\ script.pc = "principal"
  /\ principals' = principals \cup {script.app}
  /\ ScriptGoes("federated")
  /\ UNCHANGED <<resourceApps, unlisted, api, trust, grants, roles, meanwhile, bounds>>

\* --skip-admin-consent ends the run here.
EnsureFederatedCredential ==
  /\ script.pc = "federated"
  /\ trust' = trust \cup {script.app}
  /\ \/ script' = [script EXCEPT !.pc = "read grant", !.step = 1]
     \/ ScriptGoes("done without consent")
  /\ UNCHANGED <<resourceApps, unlisted, api, principals, grants, roles, meanwhile, bounds>>

-----------------------------------------------------------------------------
(* Consents, of both scripts.                                              *)

\* .env names the optional principals, or leaves them out.
StartAgentAccess ==
  /\ Runs
  /\ \E optional \in SUBSET Optional :
       script' = [name |-> "agent", pc |-> "read grant", step |-> 1, app |-> 0, read |-> {},
                  optional |-> optional]
  /\ withdrawn' = Nowhere
  /\ UNCHANGED <<applications, grants, roles, editedApis, editedGrants, assigned, edits>>

Consent == Consents[script.name][script.step]

(* The Cowork script takes the tenant-wide grant of the pair, the agent's  *)
(* script the first of any kind.                                           *)
TargetGrants(g) ==
  LET present == {kind \in {"all", "user"} : grants[g][kind] # {}}
  IN IF script.name = "cowork" THEN {"all"}
     ELSE IF present = {} THEN {"all"} ELSE present

ReadGrant ==
  /\ script.pc = "read grant"
  /\ \E kind \in TargetGrants(Consent.grant) :
       script' = [script EXCEPT !.pc = "write grant",
                    !.read = [kind |-> kind, scopes |-> grants[Consent.grant][kind]]]
  /\ editedGrants' = {}
  /\ UNCHANGED <<applications, grants, roles, editedApis, withdrawn, assigned, bounds>>

AfterConsent ==
  CASE script.name = "agent" -> [script EXCEPT !.pc = "role"]
    [] script.name = "cowork" /\ script.step < Len(CoworkConsents) ->
         [script EXCEPT !.pc = "read grant", !.step = @ + 1]
    [] OTHER -> [script EXCEPT !.pc = "done"]

\* Mutant of WriteGrant: the scopes read are not written back.
WriteGrantOnly ==
  /\ script.pc = "write grant"
  /\ grants' = [grants EXCEPT ![Consent.grant][script.read.kind] = Consent.scopes]
  /\ script' = AfterConsent
  /\ UNCHANGED <<applications, roles, meanwhile, bounds>>

(* Nothing is written if nothing is missing, else the union of both.  A    *)
(* new grant is refused if there is one by now, a patch if there is none.  *)
WriteGrant ==
  /\ script.pc = "write grant"
  /\ LET target == grants[Consent.grant][script.read.kind]
         merged == script.read.scopes \cup Consent.scopes
     IN \/ merged = script.read.scopes /\ UNCHANGED grants
        \/ /\ merged # script.read.scopes
           /\ (script.read.scopes = {}) = (target = {})
           /\ grants' = [grants EXCEPT ![Consent.grant][script.read.kind] = merged]
  /\ script' = AfterConsent
  /\ UNCHANGED <<applications, roles, meanwhile, bounds>>

-----------------------------------------------------------------------------
(* grant_agent_identity_access.py: a role after each consent, then the     *)
(* optional ones.                                                          *)

Configured(i) == i \notin Optional \/ i \in script.optional

\* Any role the principal has is taken for the wanted one.
EnsureFabricWorkspaceRole ==
  /\ script.pc = "role"
  /\ roles' = IF Configured(script.step) /\ roles[script.step] = "none"
              THEN [roles EXCEPT ![script.step] = Wanted[script.step].role] ELSE roles
  /\ script' = CASE script.step = 1 -> [script EXCEPT !.pc = "read grant", !.step = 2]
                 [] script.step = 2 -> [script EXCEPT !.step = 3]
                 [] OTHER -> [script EXCEPT !.pc = "done"]
  /\ UNCHANGED <<applications, grants, meanwhile, bounds>>

ScriptEnds ==
  /\ ~Resting
  /\ ScriptGoes("failed")
  /\ UNCHANGED <<applications, grants, roles, meanwhile, bounds>>

-----------------------------------------------------------------------------
(* The world.                                                              *)

Listed(a) ==
  /\ a \in unlisted
  /\ unlisted' = unlisted \ {a}
  /\ UNCHANGED <<resourceApps, api, principals, trust, grants, roles, script, meanwhile, bounds>>

Edits == edits < MaxEdits /\ edits' = edits + 1

AdministratorEditsApi(a) ==
  /\ Edits /\ a \in resourceApps /\ Other \notin api[a].scopes
  /\ api' = [api EXCEPT ![a].scopes = @ \cup {Other}]
  /\ editedApis' = editedApis \cup {a}
  /\ UNCHANGED <<resourceApps, unlisted, principals, trust, grants, roles, script,
                 editedGrants, withdrawn, assigned, scripts>>

\* Tenant-wide, or by one user for himself.
AdministratorConsents(g) ==
  /\ Edits
  /\ \E kind \in {"all", "user"} :
       /\ Other \notin grants[g][kind]
       /\ grants' = [grants EXCEPT ![g][kind] = @ \cup {Other}]
  /\ editedGrants' = editedGrants \cup {g}
  /\ UNCHANGED <<applications, roles, script, editedApis, withdrawn, assigned, scripts>>

\* To a principal without a role, or in place of the one it has.
AdministratorAssigns(i) ==
  /\ Edits /\ roles[i] # "Viewer"
  /\ roles' = [roles EXCEPT ![i] = "Viewer"]
  /\ assigned' = assigned \cup {i}
  /\ UNCHANGED <<applications, grants, script, editedApis, editedGrants, withdrawn, scripts>>

\* The permission with its pre-authorizations, or the trust.
AdministratorWithdrawsApi(a) ==
  /\ Edits
  /\ \/ api[a] # NoApi /\ api' = [api EXCEPT ![a] = NoApi] /\ UNCHANGED trust
     \/ a \in trust /\ trust' = trust \ {a} /\ UNCHANGED api
  /\ withdrawn' = [withdrawn EXCEPT !.apps = @ \cup {a}]
  /\ UNCHANGED <<resourceApps, unlisted, principals, grants, roles, script,
                 editedApis, editedGrants, assigned, scripts>>

AdministratorRevokes(g) ==
  /\ Edits
  /\ \E kind \in {"all", "user"} :
       grants[g][kind] # {} /\ grants' = [grants EXCEPT ![g][kind] = {}]
  /\ withdrawn' = [withdrawn EXCEPT !.grants = @ \cup {g}]
  /\ UNCHANGED <<applications, roles, script, editedApis, editedGrants, assigned, scripts>>

AdministratorRemoves(i) ==
  /\ Edits /\ roles[i] # "none"
  /\ roles' = [roles EXCEPT ![i] = "none"]
  /\ withdrawn' = [withdrawn EXCEPT !.roles = @ \cup {i}]
  /\ UNCHANGED <<applications, grants, script, editedApis, editedGrants, assigned, scripts>>

EntraNext ==
  \/ EnsureApplication \/ PatchPermission \/ PatchPreauthorized \/ EnsureServicePrincipal
  \/ EnsureFederatedCredential \/ StartAgentAccess \/ ReadGrant \/ WriteGrant
  \/ EnsureFabricWorkspaceRole \/ ScriptEnds
  \/ \E a \in 1 .. MaxApps :
       Listed(a) \/ AdministratorEditsApi(a) \/ AdministratorWithdrawsApi(a)
  \/ \E g \in Grant : AdministratorConsents(g) \/ AdministratorRevokes(g)
  \/ \E i \in 1 .. Len(Wanted) : AdministratorAssigns(i) \/ AdministratorRemoves(i)

EntraSpec == EntraInit /\ [][EntraNext]_entraVars

-----------------------------------------------------------------------------
(* Properties.                                                             *)

(* What a run that reports success has set up, although earlier runs broke *)
(* off anywhere and administrators edit meanwhile, but for what they took  *)
(* away since it began: the permission, the two pre-authorizations,        *)
(* principal and trust of one application, and every consent tenant-wide;  *)
(* for the agent, every configured principal its role, if no administrator *)
(* gave it another, and every consent tenant-wide, or as an extension of   *)
(* one a user had given for himself.                                       *)
ApiIsComplete(a) ==
  /\ OurPermission \in api[a].scopes
  /\ Preauthorized \subseteq api[a].preauthorized
  /\ a \in trust

TenantWide(consent) == consent.scopes \subseteq grants[consent.grant].all
OfAUser(consent) == consent.scopes \cup {Other} \subseteq grants[consent.grant].user

AccessIsComplete ==
  /\ script.name = "cowork" /\ script.pc \in {"done", "done without consent"} =>
       /\ script.app \in principals
       /\ script.app \notin withdrawn.apps => ApiIsComplete(script.app)
  /\ script.name = "cowork" /\ script.pc = "done" =>
       \A i \in 1 .. Len(CoworkConsents) :
         CoworkConsents[i].grant \notin withdrawn.grants => TenantWide(CoworkConsents[i])
  /\ script.name = "agent" /\ script.pc = "done" =>
       /\ \A i \in 1 .. Len(Wanted) :
            Configured(i) /\ i \notin withdrawn.roles =>
              \/ roles[i] = Wanted[i].role
              \/ roles[i] # "none" /\ i \in assigned
       /\ \A i \in 1 .. Len(AgentConsents) :
            AgentConsents[i].grant \notin withdrawn.grants =>
              TenantWide(AgentConsents[i]) \/ OfAUser(AgentConsents[i])

(* No step of a run takes away a permission, pre-authorization or scope,   *)
(* but for one that was added after the run had read what it writes back.  *)
NothingIsDropped ==
  [][script' # script =>
       /\ \A a \in DOMAIN api :
            /\ api[a].scopes \ api'[a].scopes # {} => a \in editedApis
            /\ api[a].preauthorized \subseteq api'[a].preauthorized
       /\ \A g \in Grant, kind \in {"all", "user"} :
            grants[g][kind] \ grants'[g][kind] # {} => g \in editedGrants]_entraVars
=============================================================================
