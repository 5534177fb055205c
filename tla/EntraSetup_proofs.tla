-------------------------- MODULE EntraSetup_proofs --------------------------
(***************************************************************************)
(* Proofs about the Entra scripts, for any number of applications, secrets *)
(* and runs, broken-off ones included, and any edits of administrators: a  *)
(* run that reports success leaves one secret in all three places, what a  *)
(* successful access run leaves behind, and that no step drops an entry it *)
(* had read.                                                               *)
(***************************************************************************)
EXTENDS EntraAccess, WorkIqCredential, FiniteSetTheorems, TLAPS

-----------------------------------------------------------------------------
(* The access scripts, EntraAccess.                                        *)
USE EntraAssumption

Kind == {"all", "user"}

CoworkPcs == {"permission", "preauthorize", "principal", "federated"}
GrantPcs == {"read grant", "write grant"}
Pcs == {"idle", "done", "done without consent", "failed", "role"} \cup CoworkPcs \cup GrantPcs

(* Shapes of what the properties speak of; a user's grant is one he made,  *)
(* and a role that is not the wanted one comes from an administrator.      *)
Shapes ==
  /\ DOMAIN api = 1 .. MaxApps
  /\ \A a \in DOMAIN api : api[a] = [scopes |-> api[a].scopes, preauthorized |-> api[a].preauthorized]
  /\ resourceApps \subseteq DOMAIN api
  /\ DOMAIN grants = Grant
  /\ \A g \in Grant : grants[g] = [all |-> grants[g].all, user |-> grants[g].user]
  /\ DOMAIN roles = 1 .. 3
  /\ withdrawn = [apps |-> withdrawn.apps, grants |-> withdrawn.grants, roles |-> withdrawn.roles]

UsersOwn == \A g \in Grant : grants[g].user # {} => Other \in grants[g].user

RolesAreKnown ==
  \A i \in {1, 2, 3} : roles[i] = "none" \/ roles[i] = Wanted[i].role \/ i \in assigned

(* Where a run is.                                                         *)
ScriptShape ==
  script = [name |-> script.name, pc |-> script.pc, step |-> script.step,
            app |-> script.app, read |-> script.read, optional |-> script.optional]

Place ==
  /\ script.pc \in Pcs
  /\ script.name \in {"cowork", "agent"}
  /\ script.pc \in GrantPcs =>
       script.step \in {1, 2} \/ (script.name = "cowork" /\ script.step \in {3, 4})
  /\ script.pc = "role" => script.name = "agent" /\ script.step \in {1, 2, 3}

(* What the run is about to write back holds whatever nobody edited since. *)
ReadIsCurrent ==
  /\ script.pc \in {"permission", "preauthorize"} =>
       /\ script.app \in resourceApps
       /\ script.read = [scopes |-> script.read.scopes, preauthorized |-> script.read.preauthorized]
       /\ api[script.app].preauthorized \subseteq script.read.preauthorized
       /\ script.app \notin editedApis =>
            api[script.app].scopes \subseteq script.read.scopes \cup {OurPermission}
       /\ script.pc = "permission" /\ script.app \notin editedApis =>
            api[script.app].scopes \subseteq script.read.scopes
  /\ script.pc = "write grant" =>
       /\ script.read.kind \in Kind
       /\ script.read.kind = "user" => Other \in script.read.scopes
       /\ Consent.grant \notin withdrawn.grants =>
            script.read.scopes \subseteq grants[Consent.grant][script.read.kind]
       /\ Consent.grant \notin editedGrants =>
            grants[Consent.grant][script.read.kind] \subseteq script.read.scopes

(* The steps before step s.                                                *)
Before(s) == 1 .. s - 1

(* How far a run of the Cowork script has come, but for what was withdrawn *)
(* since it began: the application, then the consents in their order,      *)
(* those on the same grant included in what was read of it.                *)
CoworkGiven(i) ==
  CoworkConsents[i].grant \notin withdrawn.grants => TenantWide(CoworkConsents[i])

CoworkSoFar ==
  script.name = "cowork" =>
    /\ script.pc \in {"principal", "federated", "done", "done without consent"} \cup GrantPcs =>
         /\ script.app \in resourceApps
         /\ script.app \notin withdrawn.apps =>
              /\ OurPermission \in api[script.app].scopes
              /\ Preauthorized \subseteq api[script.app].preauthorized
    /\ script.pc \in {"federated", "done", "done without consent"} \cup GrantPcs =>
         script.app \in principals
    /\ script.pc \in {"done", "done without consent"} \cup GrantPcs =>
         (script.app \notin withdrawn.apps => script.app \in trust)
    /\ script.pc \in GrantPcs => \A i \in Before(script.step) : CoworkGiven(i)
    /\ script.pc = "write grant" =>
         /\ script.read.kind = "all"
         /\ \A i \in Before(script.step) :
              CoworkConsents[i].grant = Consent.grant /\ Consent.grant \notin withdrawn.grants =>
                CoworkConsents[i].scopes \subseteq script.read.scopes
    /\ script.pc = "done" => \A i \in {1, 2, 3, 4} : CoworkGiven(i)

(* The same for the agent's script, whose steps alternate with roles.      *)
ConsentGiven(i) ==
  AgentConsents[i].grant \notin withdrawn.grants =>
    TenantWide(AgentConsents[i]) \/ OfAUser(AgentConsents[i])

RoleGiven(i) == Configured(i) /\ i \notin withdrawn.roles => roles[i] # "none"

AgentSoFar ==
  script.name = "agent" =>
    /\ script.pc \in GrantPcs => \A i \in Before(script.step) : ConsentGiven(i) /\ RoleGiven(i)
    /\ script.pc = "role" =>
         /\ \A i \in {1, 2} : i <= script.step => ConsentGiven(i)
         /\ \A i \in Before(script.step) : RoleGiven(i)
    /\ script.pc = "done" =>
         (\A i \in {1, 2} : ConsentGiven(i)) /\ (\A i \in {1, 2, 3} : RoleGiven(i))

AccessInv ==
  /\ Shapes /\ UsersOwn /\ RolesAreKnown
  /\ ScriptShape /\ Place /\ ReadIsCurrent /\ CoworkSoFar /\ AgentSoFar

-----------------------------------------------------------------------------
(* The consents, spelled out.                                              *)
LEMMA Tables ==
  /\ Consents["cowork"] = CoworkConsents /\ Consents["agent"] = AgentConsents
  /\ Len(CoworkConsents) = 4 /\ Len(AgentConsents) = 2 /\ Len(Wanted) = 3
  /\ \A i \in {1, 2, 3, 4} : CoworkConsents[i].grant \in Grant
  /\ \A i \in {1, 2} : AgentConsents[i].grant \in Grant
  /\ AgentConsents[1].grant # AgentConsents[2].grant
  /\ \A i \in {1, 2, 3} : Wanted[i].role # "none"
<1>1. Consents["cowork"] = CoworkConsents /\ Consents["agent"] = AgentConsents
  BY DEF Consents
<1>2. Len(CoworkConsents) = 4 /\ Len(AgentConsents) = 2 /\ Len(Wanted) = 3
  BY DEF CoworkConsents, AgentConsents, Wanted
<1>3. /\ CoworkConsents[1].grant = "cowork client on resource"
      /\ CoworkConsents[2].grant = "resource on Azure AI"
      /\ CoworkConsents[3].grant = "resource on Fabric"
      /\ CoworkConsents[4].grant = "resource on Fabric"
  BY DEF CoworkConsents
<1>4. AgentConsents[1].grant = "agent on Fabric" /\ AgentConsents[2].grant = "agent on Graph"
  BY DEF AgentConsents
<1>5. Wanted[1].role # "none" /\ Wanted[2].role # "none" /\ Wanted[3].role # "none"
  BY DEF Wanted
<1>6. /\ \A i \in {1, 2, 3, 4} : i = 1 \/ i = 2 \/ i = 3 \/ i = 4
      /\ \A i \in {1, 2, 3} : i = 1 \/ i = 2 \/ i = 3
      /\ \A i \in {1, 2} : i = 1 \/ i = 2
  OBVIOUS
<1>7. \A i \in {1, 2, 3, 4} : CoworkConsents[i].grant \in Grant
  BY <1>3, <1>6, Zenon DEF Grant
<1>8. \A i \in {1, 2} : AgentConsents[i].grant \in Grant
  BY <1>4, <1>6, Zenon DEF Grant
<1>9. \A i \in {1, 2, 3} : Wanted[i].role # "none"
  BY <1>5, <1>6, Zenon
<1> QED
  BY <1>1, <1>2, <1>3, <1>4, <1>7, <1>8, <1>9

LEMMA Steps ==
  /\ Before(1) = {}
  /\ \A s \in {1, 2, 3} : Before(s + 1) = Before(s) \cup {s}
  BY DEF Before

LEMMA AccessInitially == EntraInit => AccessInv
<1> SUFFICES ASSUME EntraInit PROVE AccessInv
  OBVIOUS
<1>1. Shapes
  BY Tables DEF EntraInit, Shapes, NoApi, Nowhere
<1>5. UsersOwn /\ RolesAreKnown
  BY Tables DEF EntraInit, UsersOwn, RolesAreKnown
<1>2. ScriptShape
  BY DEF EntraInit, ScriptShape
<1>3. script.pc = "idle" /\ script.name = "cowork"
  BY DEF EntraInit
<1>4. Place /\ ReadIsCurrent /\ CoworkSoFar /\ AgentSoFar
  BY <1>3 DEF Place, ReadIsCurrent, CoworkSoFar, AgentSoFar, Pcs, CoworkPcs, GrantPcs
<1> QED
  BY <1>1, <1>2, <1>4, <1>5 DEF AccessInv

(* A new run reads the application it is going to patch.                   *)
LEMMA EnsureApplicationKeeps ==
  ASSUME AccessInv, EnsureApplication
  PROVE  AccessInv'
<1>1. UNCHANGED <<api, grants, roles, assigned>> /\ editedApis' = {} /\ withdrawn' = Nowhere
  BY DEF EnsureApplication
<1>7. (UsersOwn /\ RolesAreKnown)'
  BY <1>1 DEF AccessInv, UsersOwn, RolesAreKnown
<1>2. IsFiniteSet(resourceApps) /\ resourceApps \subseteq 1 .. MaxApps
  <2>1. MaxApps \in Int /\ 1 \in Int
    BY DEF EntraAssumption
  <2>2. resourceApps \subseteq 1 .. MaxApps
    BY DEF AccessInv, Shapes
  <2>3. IsFiniteSet(1 .. MaxApps)
    BY <2>1, FS_Interval
  <2> QED
    BY <2>2, <2>3, FS_Subset
<1>3. Cardinality(resourceApps) < MaxApps => Cardinality(resourceApps) + 1 \in 1 .. MaxApps
  BY <1>2, FS_CardinalityType DEF EntraAssumption
<1>4. \/ \E a \in 1 .. MaxApps :
           /\ script' = [name |-> "cowork", pc |-> "permission", step |-> 1, app |-> a,
                         read |-> api[a], optional |-> {}]
           /\ a \in resourceApps' /\ resourceApps' \subseteq resourceApps \cup {a}
      \/ /\ script' = [script EXCEPT !.name = "cowork", !.pc = "failed"]
         /\ resourceApps' = resourceApps
  BY <1>2, <1>3, Zenon DEF EnsureApplication
<1>5. CASE \E a \in 1 .. MaxApps :
             /\ script' = [name |-> "cowork", pc |-> "permission", step |-> 1, app |-> a,
                           read |-> api[a], optional |-> {}]
             /\ a \in resourceApps' /\ resourceApps' \subseteq resourceApps \cup {a}
  <2>1. PICK a \in 1 .. MaxApps :
          /\ script' = [name |-> "cowork", pc |-> "permission", step |-> 1, app |-> a,
                        read |-> api[a], optional |-> {}]
          /\ a \in resourceApps' /\ resourceApps' \subseteq resourceApps \cup {a}
    BY <1>5
  <2>2. ScriptShape'
    BY <2>1 DEF ScriptShape
  <2>3. script'.name = "cowork" /\ script'.pc = "permission" /\ script'.app = a
    BY <2>1
  <2>4. script'.read = api[a]
    BY <2>1
  <2>5. Shapes'
    BY <1>1, <2>1 DEF AccessInv, Shapes, Nowhere
  <2>6. Place' /\ CoworkSoFar' /\ AgentSoFar'
    BY <2>3 DEF Place, CoworkSoFar, AgentSoFar, Pcs, CoworkPcs, GrantPcs
  <2>7. ReadIsCurrent'
    BY <1>1, <2>1, <2>3, <2>4 DEF AccessInv, Shapes, ReadIsCurrent
  <2> QED
    BY <1>7, <2>2, <2>5, <2>6, <2>7 DEF AccessInv
<1>6. CASE /\ script' = [script EXCEPT !.name = "cowork", !.pc = "failed"]
           /\ resourceApps' = resourceApps
  <2>1. script' = [name |-> "cowork", pc |-> "failed", step |-> script.step,
                   app |-> script.app, read |-> script.read, optional |-> script.optional]
    BY <1>6 DEF AccessInv, ScriptShape
  <2>2. ScriptShape' /\ script'.pc = "failed" /\ script'.name = "cowork"
    BY <2>1 DEF ScriptShape
  <2>3. Shapes'
    BY <1>1, <1>6 DEF AccessInv, Shapes, Nowhere
  <2>4. Place' /\ ReadIsCurrent' /\ CoworkSoFar' /\ AgentSoFar'
    BY <2>2 DEF Place, ReadIsCurrent, CoworkSoFar, AgentSoFar, Pcs, CoworkPcs, GrantPcs
  <2> QED
    BY <1>7, <2>2, <2>3, <2>4 DEF AccessInv
<1> QED
  BY <1>4, <1>5, <1>6

(* The two patches write back what was read, with more in it.              *)
LEMMA PatchesKeep ==
  ASSUME AccessInv, PatchPermission \/ PatchPreauthorized
  PROVE  /\ AccessInv'
         /\ \A a \in DOMAIN api :
              /\ api[a].scopes \ api'[a].scopes # {} => a \in editedApis
              /\ api[a].preauthorized \subseteq api'[a].preauthorized
<1> DEFINE b == script.app
           scopes == script.read.scopes
           known == script.read.preauthorized
<1>1. /\ script.pc \in {"permission", "preauthorize"}
      /\ UNCHANGED <<resourceApps, principals, trust, grants, roles,
                     editedApis, editedGrants, withdrawn, assigned>>
  BY DEF PatchPermission, PatchPreauthorized, meanwhile
<1>2. /\ b \in DOMAIN api /\ b \in resourceApps
      /\ api[b].preauthorized \subseteq known
      /\ b \notin editedApis => api[b].scopes \subseteq scopes \cup {OurPermission}
      /\ script.pc = "permission" /\ b \notin editedApis => api[b].scopes \subseteq scopes
  BY <1>1 DEF AccessInv, Shapes, ReadIsCurrent
<1>3. script.read = [scopes |-> scopes, preauthorized |-> known]
  BY <1>1 DEF AccessInv, ReadIsCurrent
<1>4. \E more \in {{}, Preauthorized} :
        /\ api' = [api EXCEPT ![b] = [scopes |-> scopes \cup {OurPermission},
                                     preauthorized |-> known \cup more]]
        /\ script.pc = "permission" => more = {}
        /\ script.pc = "preauthorize" => more = Preauthorized
  <2>1. CASE PatchPermission
    <3>1. api' = [api EXCEPT ![b] = [script.read EXCEPT !.scopes = @ \cup {OurPermission}]]
      BY <2>1, Zenon DEF PatchPermission
    <3>2. [script.read EXCEPT !.scopes = @ \cup {OurPermission}]
            = [scopes |-> scopes \cup {OurPermission}, preauthorized |-> known]
      <4>1. \A s, q : [[scopes |-> s, preauthorized |-> q] EXCEPT !.scopes = @ \cup {OurPermission}]
                     = [scopes |-> s \cup {OurPermission}, preauthorized |-> q]
        OBVIOUS
      <4> HIDE DEF scopes, known
      <4> QED
        BY <1>3, <4>1
    <3>3. script.pc = "permission" /\ known \cup {} = known
      BY <2>1 DEF PatchPermission
    <3> HIDE DEF b, scopes, known
    <3> QED
      BY <3>1, <3>2, <3>3
  <2>2. CASE PatchPreauthorized
    BY <2>2 DEF PatchPreauthorized
  <2> QED
    BY <2>1, <2>2
<1>5. script' = [script EXCEPT !.pc = IF script.pc = "permission" THEN "preauthorize" ELSE "principal"]
  BY DEF PatchPermission, PatchPreauthorized, ScriptGoes
<1>6. /\ ScriptShape'
      /\ script'.name = script.name /\ script'.app = b /\ script'.read = script.read
      /\ script'.pc = IF script.pc = "permission" THEN "preauthorize" ELSE "principal"
  <2>1. script' = [name |-> script.name,
                   pc |-> IF script.pc = "permission" THEN "preauthorize" ELSE "principal",
                   step |-> script.step, app |-> script.app, read |-> script.read,
                   optional |-> script.optional]
    BY <1>5 DEF AccessInv, ScriptShape
  <2> QED
    BY <2>1 DEF ScriptShape
<1> HIDE DEF b, scopes, known
<1>7. /\ DOMAIN api' = DOMAIN api
      /\ \A a \in DOMAIN api \ {b} : api'[a] = api[a]
      /\ api'[b] = [scopes |-> api'[b].scopes, preauthorized |-> api'[b].preauthorized]
      /\ api'[b].scopes = scopes \cup {OurPermission}
      /\ script.pc = "permission" => api'[b].preauthorized = known
      /\ script.pc = "preauthorize" => api'[b].preauthorized = known \cup Preauthorized
  <2>1. PICK more \in {{}, Preauthorized} :
          /\ api' = [api EXCEPT ![b] = [scopes |-> scopes \cup {OurPermission},
                                       preauthorized |-> known \cup more]]
          /\ script.pc = "permission" => more = {}
          /\ script.pc = "preauthorize" => more = Preauthorized
    BY <1>4
  <2>2. /\ DOMAIN api' = DOMAIN api
        /\ \A a \in DOMAIN api \ {b} : api'[a] = api[a]
        /\ api'[b] = [scopes |-> scopes \cup {OurPermission}, preauthorized |-> known \cup more]
    BY <1>2, <2>1
  <2> QED
    BY <2>1, <2>2
<1>8. Shapes'
  BY <1>1, <1>7 DEF AccessInv, Shapes
<1>9. Place'
  BY <1>1, <1>6 DEF AccessInv, Place, Pcs, CoworkPcs, GrantPcs
<1>10. ReadIsCurrent'
  <2>1. script'.read.scopes = scopes /\ script'.read.preauthorized = known
    BY <1>6 DEF scopes, known
  <2>2. script'.read = [scopes |-> script'.read.scopes, preauthorized |-> script'.read.preauthorized]
    BY <1>3, <1>6, <2>1
  <2> QED
    BY <1>1, <1>2, <1>6, <1>7, <2>1, <2>2 DEF ReadIsCurrent
<1>11. CoworkSoFar' /\ AgentSoFar'
  BY <1>1, <1>2, <1>6, <1>7 DEF CoworkSoFar, AgentSoFar, GrantPcs
<1>12. \A a \in DOMAIN api :
         /\ api[a].scopes \ api'[a].scopes # {} => a \in editedApis
         /\ api[a].preauthorized \subseteq api'[a].preauthorized
  BY <1>1, <1>2, <1>7
<1> QED
  BY <1>1, <1>6, <1>8, <1>9, <1>10, <1>11, <1>12 DEF AccessInv, UsersOwn, RolesAreKnown

(* A step that moves the run on and perhaps takes the next consent.        *)
LEMMA ScriptMoves ==
  ASSUME ScriptShape, NEW p,
         script' = [script EXCEPT !.pc = p]
  PROVE  /\ ScriptShape'
         /\ script'.pc = p /\ script'.name = script.name /\ script'.step = script.step
         /\ script'.app = script.app /\ script'.read = script.read
         /\ script'.optional = script.optional
<1>1. script' = [name |-> script.name, pc |-> p, step |-> script.step,
                 app |-> script.app, read |-> script.read, optional |-> script.optional]
  BY DEF ScriptShape
<1> QED
  BY <1>1 DEF ScriptShape

LEMMA ScriptStepsTo ==
  ASSUME ScriptShape, NEW p, NEW s,
         script' = [script EXCEPT !.pc = p, !.step = s]
  PROVE  /\ ScriptShape'
         /\ script'.pc = p /\ script'.name = script.name /\ script'.step = s
         /\ script'.app = script.app /\ script'.read = script.read
         /\ script'.optional = script.optional
<1>1. script' = [name |-> script.name, pc |-> p, step |-> s,
                 app |-> script.app, read |-> script.read, optional |-> script.optional]
  BY DEF ScriptShape
<1> QED
  BY <1>1 DEF ScriptShape

(* Principal, trust, the start of the agent's script, and broken-off runs. *)
LEMMA RunStepsKeep ==
  ASSUME AccessInv,
         \/ EnsureServicePrincipal \/ EnsureFederatedCredential
         \/ StartAgentAccess \/ ScriptEnds
  PROVE  AccessInv'
<1>1. /\ UNCHANGED <<resourceApps, api, grants, roles, editedApis, editedGrants, assigned>>
      /\ withdrawn' \in {withdrawn, Nowhere}
  BY DEF EnsureServicePrincipal, EnsureFederatedCredential, StartAgentAccess, ScriptEnds,
         applications, meanwhile
<1>2. Shapes' /\ UsersOwn' /\ RolesAreKnown'
  BY <1>1 DEF AccessInv, Shapes, UsersOwn, RolesAreKnown, Nowhere
<1>3. ScriptShape
  BY DEF AccessInv
<1>4. CASE EnsureServicePrincipal
  <2>1. /\ ScriptShape' /\ script'.pc = "federated" /\ script'.name = script.name
        /\ script'.app = script.app
    BY <1>3, <1>4, ScriptMoves DEF EnsureServicePrincipal, ScriptGoes
  <2>2. /\ script.pc = "principal" /\ principals' = principals \cup {script.app}
        /\ UNCHANGED withdrawn
    BY <1>4 DEF EnsureServicePrincipal, meanwhile
  <2>3. Place' /\ ReadIsCurrent' /\ CoworkSoFar' /\ AgentSoFar'
    BY <1>1, <2>1, <2>2 DEF AccessInv, Place, ReadIsCurrent, CoworkSoFar, AgentSoFar,
       Pcs, CoworkPcs, GrantPcs
  <2> QED
    BY <1>2, <2>1, <2>3 DEF AccessInv
<1>5. CASE EnsureFederatedCredential
  <2>1. /\ script.pc = "federated" /\ trust' = trust \cup {script.app}
        /\ UNCHANGED <<principals, withdrawn>>
    BY <1>5 DEF EnsureFederatedCredential, meanwhile
  <2>2. /\ ScriptShape' /\ script'.name = script.name /\ script'.app = script.app
        /\ \/ script'.pc = "done without consent"
           \/ script'.pc = "read grant" /\ script'.step = 1
    <3>1. CASE script' = [script EXCEPT !.pc = "read grant", !.step = 1]
      BY <1>3, <3>1, ScriptStepsTo
    <3>2. CASE script' = [script EXCEPT !.pc = "done without consent"]
      BY <1>3, <3>2, ScriptMoves
    <3> QED
      BY <1>5, <3>1, <3>2 DEF EnsureFederatedCredential, ScriptGoes
  <2>3. Place'
    <3>1. /\ script'.pc \in {"done without consent", "read grant"}
          /\ script'.pc = "read grant" => script'.step \in {1, 2}
          /\ script'.name \in {"cowork", "agent"}
      BY <2>2 DEF AccessInv, Place
    <3> QED
      BY <3>1 DEF Place, Pcs, GrantPcs
  <2>6. ReadIsCurrent'
    BY <2>2 DEF ReadIsCurrent
  <2>4. script'.pc = "read grant" => Before(script'.step) = {}
    BY <2>2, Steps
  <2>5. CoworkSoFar' /\ AgentSoFar'
    BY <1>1, <2>1, <2>2, <2>4 DEF AccessInv, CoworkSoFar, AgentSoFar, GrantPcs
  <2> QED
    BY <1>2, <2>2, <2>3, <2>5, <2>6 DEF AccessInv
<1>6. CASE StartAgentAccess
  <2>1. ScriptShape' /\ script'.name = "agent" /\ script'.pc = "read grant" /\ script'.step = 1
    <3>1. PICK optional \in SUBSET Optional :
            script' = [name |-> "agent", pc |-> "read grant", step |-> 1, app |-> 0, read |-> {},
                       optional |-> optional]
      BY <1>6 DEF StartAgentAccess
    <3> QED
      BY <3>1 DEF ScriptShape
  <2>2. Place'
    <3>1. script'.step \in {1, 2}
      BY <2>1
    <3>2. script'.pc = "read grant" /\ script'.name = "agent"
      BY <2>1
    <3> QED
      BY <3>1, <3>2 DEF Place, Pcs, GrantPcs
  <2>6. ReadIsCurrent'
    BY <2>1 DEF ReadIsCurrent
  <2>5. CoworkSoFar'
    BY <2>1 DEF CoworkSoFar
  <2>3. Before(script'.step) = {}
    BY <2>1, Steps
  <2>4. AgentSoFar'
    BY <2>1, <2>3 DEF AgentSoFar, GrantPcs
  <2> QED
    BY <1>2, <2>1, <2>2, <2>4, <2>5, <2>6 DEF AccessInv
<1>7. CASE ScriptEnds
  <2>1. ScriptShape' /\ script'.pc = "failed" /\ script'.name = script.name
    BY <1>3, <1>7, ScriptMoves DEF ScriptEnds, ScriptGoes
  <2>2. Place' /\ ReadIsCurrent' /\ CoworkSoFar' /\ AgentSoFar'
    BY <2>1 DEF AccessInv, Place, ReadIsCurrent, CoworkSoFar, AgentSoFar, Pcs, CoworkPcs, GrantPcs
  <2> QED
    BY <1>2, <2>1, <2>2 DEF AccessInv
<1> QED
  BY <1>4, <1>5, <1>6, <1>7

(* The consent at hand.                                                    *)
LEMMA ConsentIs ==
  ASSUME Place, script.pc \in GrantPcs
  PROVE  /\ Consent.grant \in Grant
         /\ script.name = "cowork" =>
              script.step \in {1, 2, 3, 4} /\ Consent = CoworkConsents[script.step]
         /\ script.name = "agent" =>
              script.step \in {1, 2} /\ Consent = AgentConsents[script.step]
<1>1. /\ script.name = "cowork" => script.step \in {1, 2, 3, 4}
      /\ script.name = "agent" => script.step \in {1, 2}
      /\ script.name \in {"cowork", "agent"}
  BY DEF Place
<1>2. CASE script.name = "cowork"
  BY <1>1, <1>2, Tables DEF Consent
<1>3. CASE script.name = "agent"
  BY <1>1, <1>3, Tables DEF Consent
<1> QED
  BY <1>1, <1>2, <1>3

(* What is read of a grant is current.                                     *)
LEMMA ReadGrantKeeps ==
  ASSUME AccessInv, ReadGrant
  PROVE  AccessInv'
<1>1. /\ UNCHANGED <<resourceApps, api, principals, trust, grants, roles, editedApis,
                     withdrawn, assigned>>
      /\ editedGrants' = {} /\ script.pc = "read grant"
  BY DEF ReadGrant, applications
<1>2. ScriptShape /\ Place /\ Shapes
  BY DEF AccessInv
<1>3. PICK kind \in Kind :
        /\ script' = [script EXCEPT !.pc = "write grant",
                       !.read = [kind |-> kind, scopes |-> grants[Consent.grant][kind]]]
        /\ script.name = "cowork" => kind = "all"
        /\ kind = "user" => grants[Consent.grant][kind] # {}
  <2>1. PICK kind \in TargetGrants(Consent.grant) :
          script' = [script EXCEPT !.pc = "write grant",
                      !.read = [kind |-> kind, scopes |-> grants[Consent.grant][kind]]]
    BY Zenon DEF ReadGrant
  <2>2. \A k \in TargetGrants(Consent.grant) :
          /\ k \in Kind
          /\ script.name = "cowork" => k = "all"
          /\ k = "user" => grants[Consent.grant][k] # {}
    BY DEF TargetGrants, Kind
  <2> QED
    BY <2>1, <2>2
<1>4. script' = [name |-> script.name, pc |-> "write grant", step |-> script.step,
                 app |-> script.app,
                 read |-> [kind |-> kind, scopes |-> grants[Consent.grant][kind]],
                 optional |-> script.optional]
  BY <1>2, <1>3 DEF ScriptShape
<1>5. /\ ScriptShape' /\ script'.name = script.name /\ script'.step = script.step
      /\ script'.app = script.app /\ script'.pc = "write grant"
      /\ script'.read.kind = kind /\ script'.read.scopes = grants[Consent.grant][kind]
      /\ script'.optional = script.optional
  BY <1>4 DEF ScriptShape
<1>6. Consent' = Consent
  BY <1>5 DEF Consent
<1>7. Shapes' /\ UsersOwn' /\ RolesAreKnown'
  BY <1>1, <1>2 DEF AccessInv, Shapes, UsersOwn, RolesAreKnown
<1>8. Place'
  BY <1>1, <1>2, <1>5 DEF Place, Pcs, GrantPcs
<1>9. ReadIsCurrent'
  <2>1. Consent.grant \in Grant
    BY <1>1, <1>2, ConsentIs DEF GrantPcs
  <2>2. kind = "user" => Other \in grants[Consent.grant][kind]
    BY <1>3, <2>1 DEF AccessInv, UsersOwn
  <2> QED
    BY <1>1, <1>5, <1>6, <2>2 DEF ReadIsCurrent
<1>10. CoworkSoFar'
  <2> SUFFICES ASSUME script.name = "cowork" PROVE CoworkSoFar'
    BY <1>5 DEF CoworkSoFar
  <2>1. script'.read.kind = "all" /\ script'.read.scopes = grants[Consent.grant].all
    BY <1>3, <1>5
  <2>2. /\ script.app \in resourceApps /\ script.app \in principals
        /\ script.app \notin withdrawn.apps =>
             /\ OurPermission \in api[script.app].scopes
             /\ Preauthorized \subseteq api[script.app].preauthorized
             /\ script.app \in trust
        /\ \A i \in Before(script.step) : CoworkGiven(i)
    BY <1>1 DEF AccessInv, CoworkSoFar, GrantPcs
  <2>3. \A i \in Before(script.step) : CoworkGiven(i)'
    BY <1>1, <2>2 DEF CoworkGiven, TenantWide
  <2>4. \A i \in Before(script'.step) :
          CoworkConsents[i].grant = Consent'.grant /\ Consent'.grant \notin withdrawn'.grants =>
            CoworkConsents[i].scopes \subseteq script'.read.scopes
    BY <1>1, <1>5, <1>6, <2>1, <2>2 DEF CoworkGiven, TenantWide
  <2> QED
    BY <1>1, <1>5, <1>6, <2>1, <2>2, <2>3, <2>4 DEF CoworkSoFar, GrantPcs
<1>11. AgentSoFar'
  BY <1>1, <1>5 DEF AccessInv, AgentSoFar, GrantPcs, ConsentGiven, RoleGiven, Configured,
     TenantWide, OfAUser
<1> QED
  BY <1>5, <1>7, <1>8, <1>9, <1>10, <1>11 DEF AccessInv

(* What a write does to the grants: the one consent's, of the kind read.   *)
LEMMA GrantWritten ==
  ASSUME AccessInv, WriteGrant
  PROVE  /\ Consent.grant \in Grant /\ script.read.kind \in Kind
         /\ Shapes' /\ UsersOwn'
         /\ \A g \in Grant \ {Consent.grant} : grants'[g] = grants[g]
         /\ \A kind \in Kind \ {script.read.kind} :
              grants'[Consent.grant][kind] = grants[Consent.grant][kind]
         /\ Consent.grant \notin withdrawn.grants =>
              script.read.scopes \cup Consent.scopes
                \subseteq grants'[Consent.grant][script.read.kind]
         /\ Consent.grant \notin editedGrants =>
              grants[Consent.grant][script.read.kind]
                \subseteq grants'[Consent.grant][script.read.kind]
<1> DEFINE g == Consent.grant
           kind == script.read.kind
           merged == script.read.scopes \cup Consent.scopes
<1>1. script.pc = "write grant" /\ UNCHANGED <<resourceApps, api, roles, withdrawn, assigned>>
  BY DEF WriteGrant, applications, meanwhile
<1>2. /\ g \in Grant /\ kind \in Kind
      /\ kind = "user" => Other \in script.read.scopes
      /\ g \notin withdrawn.grants => script.read.scopes \subseteq grants[g][kind]
      /\ g \notin editedGrants => grants[g][kind] \subseteq script.read.scopes
  BY <1>1, ConsentIs DEF AccessInv, ReadIsCurrent, GrantPcs
<1>3. grants' = IF merged = script.read.scopes THEN grants
                ELSE [grants EXCEPT ![g][kind] = merged]
  BY Zenon DEF WriteGrant
<1>4. /\ DOMAIN grants = Grant
      /\ \A h \in Grant : grants[h] = [all |-> grants[h].all, user |-> grants[h].user]
  BY DEF AccessInv, Shapes
<1> HIDE DEF g, kind, merged
<1>5. /\ DOMAIN grants' = Grant
      /\ \A h \in Grant \ {g} : grants'[h] = grants[h]
      /\ grants'[g] = [all |-> grants'[g].all, user |-> grants'[g].user]
      /\ \A k \in Kind \ {kind} : grants'[g][k] = grants[g][k]
      /\ grants'[g][kind] = IF merged = script.read.scopes THEN grants[g][kind] ELSE merged
  <2>1. CASE merged = script.read.scopes
    BY <1>2, <1>3, <1>4, <2>1
  <2>2. CASE merged # script.read.scopes
    <3>1. grants' = [grants EXCEPT ![g] = [grants[g] EXCEPT ![kind] = merged]]
      BY <1>3, <2>2
    <3>2. CASE kind = "all"
      <4>1. [grants[g] EXCEPT ![kind] = merged] = [all |-> merged, user |-> grants[g].user]
        BY <1>2, <1>4, <3>2
      <4> QED
        BY <1>2, <1>4, <2>2, <3>1, <3>2, <4>1 DEF Kind
    <3>3. CASE kind = "user"
      <4>1. [grants[g] EXCEPT ![kind] = merged] = [all |-> grants[g].all, user |-> merged]
        BY <1>2, <1>4, <3>3
      <4> QED
        BY <1>2, <1>4, <2>2, <3>1, <3>3, <4>1 DEF Kind
    <3> QED
      BY <1>2, <3>2, <3>3 DEF Kind
  <2> QED
    BY <2>1, <2>2
<1>6. g \notin withdrawn.grants => merged \subseteq grants'[g][kind]
  BY <1>2, <1>5
<1>7. g \notin editedGrants => grants[g][kind] \subseteq grants'[g][kind]
  BY <1>2, <1>5 DEF merged
<1>8. Shapes'
  <2>1. \A h \in Grant : grants'[h] = [all |-> grants'[h].all, user |-> grants'[h].user]
    BY <1>4, <1>5
  <2> QED
    BY <1>1, <1>5, <2>1 DEF AccessInv, Shapes
<1>9. UsersOwn'
  <2>1. \A h \in Grant : grants[h].user # {} => Other \in grants[h].user
    BY DEF AccessInv, UsersOwn
  <2>2. grants'[g].user # {} => Other \in grants'[g].user
    <3>1. CASE kind = "user"
      BY <1>2, <1>5, <2>1, <3>1 DEF merged
    <3>2. CASE kind # "user"
      BY <1>2, <1>5, <2>1, <3>2 DEF Kind
    <3> QED
      BY <3>1, <3>2
  <2> QED
    BY <1>5, <2>1, <2>2 DEF UsersOwn
<1> QED
  BY <1>2, <1>5, <1>6, <1>7, <1>8, <1>9 DEF g, kind, merged

(* The consent is given; those given before stay.                          *)
LEMMA WriteGrantKeeps ==
  ASSUME AccessInv, WriteGrant
  PROVE  /\ AccessInv'
         /\ \A g \in Grant, kind \in Kind :
              grants[g][kind] \ grants'[g][kind] # {} => g \in editedGrants
<1>1. /\ script.pc = "write grant" /\ script' = AfterConsent
      /\ UNCHANGED <<resourceApps, api, principals, trust, roles, editedApis, editedGrants,
                     withdrawn, assigned>>
  BY DEF WriteGrant, applications, meanwhile
<1>2. ScriptShape /\ Place
  BY DEF AccessInv
<1>3. Shapes' /\ UsersOwn' /\ RolesAreKnown'
  BY <1>1, GrantWritten DEF AccessInv, RolesAreKnown
<1>4. ASSUME script.name = "cowork" PROVE AccessInv'
  <2>1. /\ script.read.kind = "all"
        /\ script.app \in resourceApps /\ script.app \in principals
        /\ script.app \notin withdrawn.apps =>
             /\ OurPermission \in api[script.app].scopes
             /\ Preauthorized \subseteq api[script.app].preauthorized
             /\ script.app \in trust
    BY <1>1, <1>4 DEF AccessInv, CoworkSoFar, GrantPcs
  <2>2. \A i \in Before(script.step) :
          /\ CoworkGiven(i)
          /\ CoworkConsents[i].grant = Consent.grant /\ Consent.grant \notin withdrawn.grants =>
               CoworkConsents[i].scopes \subseteq script.read.scopes
    BY <1>1, <1>4 DEF AccessInv, CoworkSoFar, GrantPcs
  <2>3. script.step \in {1, 2, 3, 4} /\ Consent = CoworkConsents[script.step]
    BY <1>1, <1>2, <1>4, ConsentIs DEF GrantPcs
  <2>4. Before(script.step) \cup {script.step} \subseteq {1, 2, 3, 4}
    BY <2>3 DEF Before
  <2>5. \A i \in Before(script.step) \cup {script.step} : CoworkGiven(i)'
    <3> SUFFICES ASSUME NEW i \in Before(script.step) \cup {script.step},
                        CoworkConsents[i].grant \notin withdrawn.grants
                 PROVE  CoworkConsents[i].scopes \subseteq grants'[CoworkConsents[i].grant].all
      BY <1>1 DEF CoworkGiven, TenantWide
    <3>1. CoworkConsents[i].grant \in Grant
      BY <2>4, Tables
    <3>2. CASE CoworkConsents[i].grant = Consent.grant
      <4>1. CoworkConsents[i].scopes \subseteq script.read.scopes \cup Consent.scopes
        BY <2>2, <2>3, <3>2
      <4>2. script.read.scopes \cup Consent.scopes \subseteq grants'[Consent.grant]["all"]
        BY <2>1, <3>2, GrantWritten
      <4> QED
        BY <3>2, <4>1, <4>2
    <3>3. CASE CoworkConsents[i].grant # Consent.grant
      <4>1. i \in Before(script.step)
        BY <2>3, <3>3
      <4>2. CoworkConsents[i].scopes \subseteq grants[CoworkConsents[i].grant].all
        BY <2>2, <4>1 DEF CoworkGiven, TenantWide
      <4> QED
        BY <3>1, <3>3, <4>2, GrantWritten
    <3> QED
      BY <3>2, <3>3
  <2>6. /\ ScriptShape' /\ script'.name = "cowork" /\ script'.app = script.app
        /\ \/ /\ script.step \in {1, 2, 3} /\ script'.pc = "read grant"
              /\ script'.step = script.step + 1
           \/ script.step = 4 /\ script'.pc = "done"
    <3>1. CASE script.step \in {1, 2, 3}
      <4>1. script.step < Len(CoworkConsents) /\ script.name # "agent"
        BY <1>4, <3>1, Tables
      <4>2. script' = [script EXCEPT !.pc = "read grant", !.step = script.step + 1]
        BY <1>1, <1>4, <4>1 DEF AfterConsent
      <4> QED
        BY <1>2, <1>4, <3>1, <4>2, ScriptStepsTo
    <3>2. CASE script.step = 4
      <4>1. ~(script.step < Len(CoworkConsents)) /\ script.name # "agent"
        BY <1>4, <3>2, Tables
      <4>2. script' = [script EXCEPT !.pc = "done"]
        BY <1>1, <1>4, <4>1 DEF AfterConsent
      <4> QED
        BY <1>2, <1>4, <3>2, <4>2, ScriptMoves
    <3> QED
      BY <2>3, <3>1, <3>2
  <2>7. /\ script'.pc = "read grant" =>
              /\ script'.step \in {2, 3, 4}
              /\ Before(script'.step) = Before(script.step) \cup {script.step}
        /\ script'.pc = "done" =>
              {1, 2, 3, 4} \subseteq Before(script.step) \cup {script.step}
    <3>1. Before(4) = {1, 2, 3}
      BY DEF Before
    <3>2. ASSUME NEW n \in {1, 2, 3}, script.step = n, script'.step = n + 1
          PROVE  /\ script'.step \in {2, 3, 4}
                 /\ Before(script'.step) = Before(script.step) \cup {script.step}
      BY <3>2, Steps
    <3> QED
      BY <2>6, <3>1, <3>2
  <2>8. script'.pc \in {"read grant", "done"}
    BY <2>6
  <2>9. Place'
    BY <2>6, <2>7, <2>8 DEF Place, Pcs, GrantPcs
  <2>10. ReadIsCurrent' /\ AgentSoFar'
    BY <2>6, <2>8 DEF ReadIsCurrent, AgentSoFar
  <2>11. CoworkSoFar'
    BY <1>1, <2>1, <2>5, <2>6, <2>7, <2>8 DEF CoworkSoFar, GrantPcs
  <2> QED
    BY <1>3, <2>6, <2>9, <2>10, <2>11 DEF AccessInv
<1>5. ASSUME script.name = "agent" PROVE AccessInv'
  <2>1. script' = [script EXCEPT !.pc = "role"]
    BY <1>1, <1>5 DEF AfterConsent
  <2>2. /\ ScriptShape' /\ script'.name = "agent" /\ script'.step = script.step
        /\ script'.pc = "role" /\ script'.optional = script.optional
    BY <1>2, <1>5, <2>1, ScriptMoves
  <2>3. script.step \in {1, 2} /\ Consent = AgentConsents[script.step]
    BY <1>1, <1>2, <1>5, ConsentIs DEF GrantPcs
  <2>4. ConsentGiven(script.step)'
    <3> SUFFICES ASSUME Consent.grant \notin withdrawn.grants
                 PROVE  (TenantWide(AgentConsents[script.step])
                           \/ OfAUser(AgentConsents[script.step]))'
      BY <1>1, <2>2, <2>3 DEF ConsentGiven
    <3>1. /\ script.read.scopes \cup Consent.scopes \subseteq grants'[Consent.grant][script.read.kind]
          /\ script.read.kind \in Kind
      BY GrantWritten
    <3>2. script.read.kind = "user" => Other \in script.read.scopes
      BY <1>1 DEF AccessInv, ReadIsCurrent
    <3> QED
      BY <2>2, <2>3, <3>1, <3>2 DEF TenantWide, OfAUser, Kind
  <2>5. Before(1) = {} /\ Before(2) = {1}
    BY DEF Before
  <2>6. \A i \in Before(script.step) : ConsentGiven(i)' /\ RoleGiven(i)'
    <3> SUFFICES ASSUME NEW i \in Before(script.step)
                 PROVE  ConsentGiven(i)' /\ RoleGiven(i)'
      OBVIOUS
    <3>1. i = 1 /\ script.step = 2
      BY <2>3, <2>5
    <3>2. ConsentGiven(i) /\ RoleGiven(i)
      BY <1>1, <1>5 DEF AccessInv, AgentSoFar, GrantPcs
    <3>3. AgentConsents[i].grant \in Grant \ {Consent.grant}
      BY <2>3, <3>1, Tables
    <3>4. grants'[AgentConsents[i].grant] = grants[AgentConsents[i].grant]
      BY <3>3, GrantWritten
    <3>5. ConsentGiven(i)'
      BY <1>1, <3>2, <3>4 DEF ConsentGiven, TenantWide, OfAUser
    <3>6. RoleGiven(i)'
      BY <1>1, <2>2, <3>2 DEF RoleGiven, Configured
    <3> QED
      BY <3>5, <3>6
  <2>7. AgentSoFar'
    <3>1. ASSUME NEW i \in {1, 2}, i <= script.step PROVE ConsentGiven(i)'
      <4>1. i = script.step \/ i \in Before(script.step)
        BY <2>3, <2>5, <3>1
      <4>2. ASSUME i = script.step PROVE ConsentGiven(i)'
        BY <2>2, <2>4, <4>2 DEF ConsentGiven
      <4> QED
        BY <2>6, <4>1, <4>2
    <3> QED
      BY <2>2, <2>6, <3>1 DEF AgentSoFar, GrantPcs
  <2>8. script'.step \in {1, 2, 3}
    BY <2>2, <2>3
  <2>9. Place'
    BY <2>2, <2>8 DEF Place, Pcs, GrantPcs
  <2>10. ReadIsCurrent' /\ CoworkSoFar'
    BY <2>2 DEF ReadIsCurrent, CoworkSoFar
  <2> QED
    BY <1>3, <2>2, <2>7, <2>9, <2>10 DEF AccessInv
<1>6. \A g \in Grant, kind \in Kind :
        grants[g][kind] \ grants'[g][kind] # {} => g \in editedGrants
  <2> SUFFICES ASSUME NEW g \in Grant, NEW kind \in Kind, g \notin editedGrants
               PROVE  grants[g][kind] \subseteq grants'[g][kind]
    OBVIOUS
  <2>1. CASE g # Consent.grant \/ kind # script.read.kind
    BY <2>1, GrantWritten
  <2>2. CASE g = Consent.grant /\ kind = script.read.kind
    BY <2>2, GrantWritten
  <2> QED
    BY <2>1, <2>2
<1> QED
  BY <1>2, <1>4, <1>5, <1>6 DEF Place

(* A role is assigned where there is none.                                 *)
LEMMA RoleKeeps ==
  ASSUME AccessInv, EnsureFabricWorkspaceRole
  PROVE  AccessInv'
<1>1. /\ script.pc = "role" /\ script.name = "agent" /\ script.step \in {1, 2, 3}
      /\ UNCHANGED <<resourceApps, api, grants, editedApis, editedGrants, withdrawn, assigned>>
  BY DEF EnsureFabricWorkspaceRole, AccessInv, Place, applications, meanwhile
<1>2. /\ Configured(script.step) => roles'[script.step] # "none"
      /\ roles'[script.step] \in {roles[script.step], Wanted[script.step].role}
      /\ \A i \in {1, 2, 3} \ {script.step} : roles'[i] = roles[i]
      /\ DOMAIN roles' = 1 .. 3
  <2>1. DOMAIN roles = 1 .. 3 /\ \A i \in {1, 2, 3} : i \in 1 .. 3
    BY DEF AccessInv, Shapes
  <2>2. roles' = IF Configured(script.step) /\ roles[script.step] = "none"
                 THEN [roles EXCEPT ![script.step] = Wanted[script.step].role] ELSE roles
    BY DEF EnsureFabricWorkspaceRole
  <2> QED
    BY <1>1, <2>1, <2>2, Tables
<1>3. Shapes' /\ UsersOwn' /\ RolesAreKnown'
  BY <1>1, <1>2 DEF AccessInv, Shapes, UsersOwn, RolesAreKnown
<1>4. /\ \A i \in {1, 2} : i <= script.step => ConsentGiven(i)
      /\ \A i \in Before(script.step) : RoleGiven(i)
  BY <1>1 DEF AccessInv, AgentSoFar, GrantPcs
<1>5. Before(1) = {} /\ Before(2) = {1} /\ Before(3) = {1, 2}
  BY DEF Before
<1>6. ScriptShape
  BY DEF AccessInv
<1>10. ASSUME NEW n \in {1, 2, 3}, script.step = n, UNCHANGED script.optional
       PROVE  /\ \A i \in {1, 2} : i <= n => ConsentGiven(i)'
              /\ \A i \in Before(n) \cup {n} : RoleGiven(i)'
  <2>1. ASSUME NEW i \in {1, 2}, i <= n PROVE ConsentGiven(i)'
    <3>1. ConsentGiven(i)
      BY <1>4, <1>10, <2>1
    <3> QED
      BY <1>1, <3>1 DEF ConsentGiven, TenantWide, OfAUser
  <2>2. \A i \in {1, 2, 3} : Configured(i)' = Configured(i)
    BY <1>10 DEF Configured
  <2>3. RoleGiven(n)'
    <3>1. Configured(n) => roles'[n] # "none"
      BY <1>2, <1>10
    <3> QED
      BY <2>2, <3>1 DEF RoleGiven
  <2>4. Before(n) \subseteq {1, 2, 3} \ {n}
    BY <1>5
  <2>5. ASSUME NEW i \in Before(n) PROVE RoleGiven(i)'
    <3>1. RoleGiven(i) /\ i \in {1, 2, 3} \ {n}
      BY <1>4, <1>10, <2>4, <2>5
    <3> QED
      BY <1>1, <1>2, <1>10, <2>2, <3>1 DEF RoleGiven
  <2> QED
    BY <2>1, <2>3, <2>5
<1>7. CASE script.step = 1
  <2>1. script' = [script EXCEPT !.pc = "read grant", !.step = 2]
    BY <1>7 DEF EnsureFabricWorkspaceRole
  <2>2. /\ ScriptShape' /\ script'.pc = "read grant" /\ script'.step = 2
        /\ script'.name = "agent" /\ script'.optional = script.optional
    BY <1>1, <1>6, <2>1, ScriptStepsTo
  <2>3. ConsentGiven(1)' /\ RoleGiven(1)'
    <3>1. /\ \A i \in {1, 2} : i <= 1 => ConsentGiven(i)'
          /\ \A i \in Before(1) \cup {1} : RoleGiven(i)'
      BY <1>7, <1>10, <2>2
    <3> QED
      BY <3>1
  <2>4. script'.step \in {1, 2} /\ Before(script'.step) = {1}
    BY <1>5, <2>2
  <2>5. Place'
    BY <2>2, <2>4 DEF Place, Pcs, GrantPcs
  <2>6. ReadIsCurrent' /\ CoworkSoFar' /\ AgentSoFar'
    BY <2>2, <2>3, <2>4 DEF ReadIsCurrent, CoworkSoFar, AgentSoFar, GrantPcs
  <2> QED
    BY <1>3, <2>2, <2>5, <2>6 DEF AccessInv
<1>8. CASE script.step = 2
  <2>1. script' = [script EXCEPT !.step = 3]
    BY <1>8 DEF EnsureFabricWorkspaceRole
  <2>2. /\ ScriptShape' /\ script'.pc = "role" /\ script'.step = 3 /\ script'.name = "agent"
        /\ script'.optional = script.optional
    <3>1. script' = [name |-> script.name, pc |-> script.pc, step |-> 3,
                     app |-> script.app, read |-> script.read, optional |-> script.optional]
      BY <1>6, <2>1 DEF ScriptShape
    <3> QED
      BY <1>1, <3>1 DEF ScriptShape
  <2>3. ConsentGiven(1)' /\ ConsentGiven(2)' /\ RoleGiven(1)' /\ RoleGiven(2)'
    BY <1>5, <1>8, <1>10, <2>2
  <2>4. script'.step \in {1, 2, 3} /\ Before(script'.step) = {1, 2}
    BY <1>5, <2>2
  <2>5. Place'
    BY <2>2, <2>4 DEF Place, Pcs, GrantPcs
  <2>6. ReadIsCurrent' /\ CoworkSoFar' /\ AgentSoFar'
    BY <2>2, <2>3, <2>4 DEF ReadIsCurrent, CoworkSoFar, AgentSoFar, GrantPcs
  <2> QED
    BY <1>3, <2>2, <2>5, <2>6 DEF AccessInv
<1>9. CASE script.step = 3
  <2>1. script' = [script EXCEPT !.pc = "done"]
    BY <1>9 DEF EnsureFabricWorkspaceRole
  <2>2. /\ ScriptShape' /\ script'.pc = "done" /\ script'.name = "agent"
        /\ script'.optional = script.optional
    BY <1>1, <1>6, <2>1, ScriptMoves
  <2>3. /\ ConsentGiven(1)' /\ ConsentGiven(2)'
        /\ RoleGiven(1)' /\ RoleGiven(2)' /\ RoleGiven(3)'
    BY <1>5, <1>9, <1>10, <2>2
  <2>4. Place' /\ ReadIsCurrent' /\ CoworkSoFar'
    BY <2>2 DEF Place, ReadIsCurrent, CoworkSoFar, Pcs, GrantPcs
  <2>5. AgentSoFar'
    BY <2>2, <2>3 DEF AgentSoFar, GrantPcs
  <2> QED
    BY <1>3, <2>2, <2>4, <2>5 DEF AccessInv
<1> QED
  BY <1>1, <1>7, <1>8, <1>9

(* A step of the world, marked where it adds or takes away.                *)
WorldSteps ==
  /\ UNCHANGED <<resourceApps, principals, script>>
  /\ DOMAIN api' = DOMAIN api /\ DOMAIN grants' = Grant /\ DOMAIN roles' = DOMAIN roles
  /\ editedApis \subseteq editedApis' /\ editedGrants \subseteq editedGrants'
  /\ assigned \subseteq assigned'
  /\ withdrawn' = [apps |-> withdrawn'.apps, grants |-> withdrawn'.grants,
                   roles |-> withdrawn'.roles]
  /\ withdrawn.apps \subseteq withdrawn'.apps /\ withdrawn.grants \subseteq withdrawn'.grants
  /\ withdrawn.roles \subseteq withdrawn'.roles
  /\ \A a \in DOMAIN api :
       /\ api'[a] = [scopes |-> api'[a].scopes, preauthorized |-> api'[a].preauthorized]
       /\ api'[a].preauthorized \subseteq api[a].preauthorized
       /\ a \notin editedApis' => api'[a].scopes \subseteq api[a].scopes
       /\ a \notin withdrawn'.apps =>
            /\ api[a].scopes \subseteq api'[a].scopes
            /\ api[a].preauthorized \subseteq api'[a].preauthorized
            /\ a \in trust => a \in trust'
  /\ \A g \in Grant :
       /\ grants'[g] = [all |-> grants'[g].all, user |-> grants'[g].user]
       /\ \A kind \in Kind :
            /\ g \notin editedGrants' => grants'[g][kind] \subseteq grants[g][kind]
            /\ g \notin withdrawn'.grants => grants[g][kind] \subseteq grants'[g][kind]
       /\ grants'[g].user \in {{}, grants[g].user, grants[g].user \cup {Other}}
  /\ \A i \in DOMAIN roles :
       /\ i \notin withdrawn'.roles /\ roles[i] # "none" => roles'[i] # "none"
       /\ roles'[i] \in {"none", roles[i]} \/ i \in assigned'

(* Small facts about records, for administrators' edits.                   *)
LEMMA ApiEdited ==
  ASSUME NEW r, r = [scopes |-> r.scopes, preauthorized |-> r.preauthorized], NEW t
  PROVE  [r EXCEPT !.scopes = t] = [scopes |-> t, preauthorized |-> r.preauthorized]
<1> DEFINE x == r.scopes
           y == r.preauthorized
<1>1. r = [scopes |-> x, preauthorized |-> y]
  OBVIOUS
<1> HIDE DEF x, y
<1>2. [r EXCEPT !.scopes = t] = [scopes |-> t, preauthorized |-> y]
  BY <1>1
<1> QED
  BY <1>2 DEF y

LEMMA WithdrawnMarks ==
  ASSUME Shapes, NEW x
  PROVE  /\ [withdrawn EXCEPT !.apps = @ \cup {x}]
               = [apps |-> withdrawn.apps \cup {x}, grants |-> withdrawn.grants,
                  roles |-> withdrawn.roles]
         /\ [withdrawn EXCEPT !.grants = @ \cup {x}]
               = [apps |-> withdrawn.apps, grants |-> withdrawn.grants \cup {x},
                  roles |-> withdrawn.roles]
         /\ [withdrawn EXCEPT !.roles = @ \cup {x}]
               = [apps |-> withdrawn.apps, grants |-> withdrawn.grants,
                  roles |-> withdrawn.roles \cup {x}]
<1> DEFINE a == withdrawn.apps
           g == withdrawn.grants
           i == withdrawn.roles
<1>1. withdrawn = [apps |-> a, grants |-> g, roles |-> i]
  BY DEF Shapes
<1> HIDE DEF a, g, i
<1>2. /\ [withdrawn EXCEPT !.apps = @ \cup {x}] = [apps |-> a \cup {x}, grants |-> g, roles |-> i]
      /\ [withdrawn EXCEPT !.grants = @ \cup {x}] = [apps |-> a, grants |-> g \cup {x}, roles |-> i]
      /\ [withdrawn EXCEPT !.roles = @ \cup {x}] = [apps |-> a, grants |-> g, roles |-> i \cup {x}]
  BY <1>1
<1> QED
  BY <1>2 DEF a, g, i

LEMMA GrantEdited ==
  ASSUME Shapes, NEW g \in Grant, NEW kind \in Kind, NEW t,
         grants' = [grants EXCEPT ![g][kind] = t]
  PROVE  /\ DOMAIN grants' = Grant /\ \A h \in Grant \ {g} : grants'[h] = grants[h]
         /\ grants'[g] = [all |-> IF kind = "all" THEN t ELSE grants[g].all,
                          user |-> IF kind = "user" THEN t ELSE grants[g].user]
<1>1. DOMAIN grants = Grant /\ grants[g] = [all |-> grants[g].all, user |-> grants[g].user]
  BY DEF Shapes
<1>2. grants' = [grants EXCEPT ![g] = [grants[g] EXCEPT ![kind] = t]]
  OBVIOUS
<1> DEFINE x == grants[g].all
           y == grants[g].user
<1>3. [grants[g] EXCEPT ![kind] = t]
        = [all |-> IF kind = "all" THEN t ELSE x, user |-> IF kind = "user" THEN t ELSE y]
  <2>1. grants[g] = [all |-> x, user |-> y]
    BY <1>1
  <2> HIDE DEF x, y
  <2> QED
    BY <2>1 DEF Kind
<1> QED
  BY <1>1, <1>2, <1>3

LEMMA AdministratorsStep ==
  ASSUME Shapes,
         \/ \E a \in 1 .. MaxApps :
              Listed(a) \/ AdministratorEditsApi(a) \/ AdministratorWithdrawsApi(a)
         \/ \E g \in Grant : AdministratorConsents(g) \/ AdministratorRevokes(g)
         \/ \E i \in 1 .. Len(Wanted) : AdministratorAssigns(i) \/ AdministratorRemoves(i)
  PROVE  WorldSteps
<1>1. /\ \A a \in DOMAIN api :
           api[a] = [scopes |-> api[a].scopes, preauthorized |-> api[a].preauthorized]
      /\ DOMAIN grants = Grant
      /\ \A g \in Grant : grants[g] = [all |-> grants[g].all, user |-> grants[g].user]
      /\ resourceApps \subseteq DOMAIN api
      /\ withdrawn = [apps |-> withdrawn.apps, grants |-> withdrawn.grants,
                      roles |-> withdrawn.roles]
      /\ DOMAIN api = 1 .. MaxApps
  BY DEF Shapes
<1>2. ASSUME NEW a \in 1 .. MaxApps, Listed(a) PROVE WorldSteps
  BY <1>1, <1>2 DEF Listed, meanwhile, WorldSteps
<1>3. ASSUME NEW a \in 1 .. MaxApps, AdministratorEditsApi(a) PROVE WorldSteps
  <2>1. /\ a \in DOMAIN api /\ editedApis' = editedApis \cup {a}
        /\ UNCHANGED <<resourceApps, principals, trust, script, grants, roles, editedGrants,
                       withdrawn, assigned>>
    BY <1>1, <1>3 DEF AdministratorEditsApi
  <2>2. api' = [api EXCEPT ![a] = [scopes |-> api[a].scopes \cup {Other},
                                   preauthorized |-> api[a].preauthorized]]
    <3>1. api' = [api EXCEPT ![a] = [api[a] EXCEPT !.scopes = api[a].scopes \cup {Other}]]
      BY <1>3 DEF AdministratorEditsApi
    <3> QED
      BY <1>1, <2>1, <3>1, ApiEdited
  <2> QED
    BY <1>1, <2>1, <2>2 DEF WorldSteps
<1>4. ASSUME NEW a \in 1 .. MaxApps, AdministratorWithdrawsApi(a) PROVE WorldSteps
  <2>1. /\ withdrawn' = [apps |-> withdrawn.apps \cup {a}, grants |-> withdrawn.grants,
                         roles |-> withdrawn.roles]
        /\ UNCHANGED <<resourceApps, principals, script, grants, roles, editedApis, editedGrants,
                       assigned>>
        /\ api' = api \/ api' = [api EXCEPT ![a] = [scopes |-> {}, preauthorized |-> {}]]
        /\ \A b \in DOMAIN api \ {a} : b \in trust => b \in trust'
    BY <1>4, WithdrawnMarks DEF AdministratorWithdrawsApi, NoApi
  <2>2. /\ DOMAIN api' = DOMAIN api /\ \A b \in DOMAIN api \ {a} : api'[b] = api[b]
        /\ a \in DOMAIN api
        /\ api'[a] = api[a] \/ api'[a] = [scopes |-> {}, preauthorized |-> {}]
    BY <1>1, <2>1
  <2>3. \A b \in DOMAIN api :
          /\ api'[b] = [scopes |-> api'[b].scopes, preauthorized |-> api'[b].preauthorized]
          /\ api'[b].preauthorized \subseteq api[b].preauthorized
          /\ api'[b].scopes \subseteq api[b].scopes
          /\ b \notin withdrawn'.apps =>
               /\ api[b].scopes \subseteq api'[b].scopes
               /\ api[b].preauthorized \subseteq api'[b].preauthorized
               /\ b \in trust => b \in trust'
    BY <1>1, <2>1, <2>2
  <2> QED
    BY <1>1, <2>1, <2>2, <2>3 DEF WorldSteps
<1>5. ASSUME NEW g \in Grant, AdministratorConsents(g) PROVE WorldSteps
  <2>1. /\ editedGrants' = editedGrants \cup {g}
        /\ UNCHANGED <<resourceApps, principals, trust, script, api, roles, editedApis,
                       withdrawn, assigned>>
    BY <1>5 DEF AdministratorConsents, applications
  <2>2. PICK kind \in Kind : grants' = [grants EXCEPT ![g][kind] = grants[g][kind] \cup {Other}]
    BY <1>5 DEF AdministratorConsents, Kind
  <2>3. /\ DOMAIN grants' = Grant /\ \A h \in Grant \ {g} : grants'[h] = grants[h]
        /\ grants'[g] = [all |-> IF kind = "all" THEN grants[g][kind] \cup {Other}
                                 ELSE grants[g].all,
                         user |-> IF kind = "user" THEN grants[g][kind] \cup {Other}
                                  ELSE grants[g].user]
    BY <2>2, GrantEdited
  <2> QED
    BY <1>1, <2>1, <2>3 DEF WorldSteps, Kind
<1>6. ASSUME NEW g \in Grant, AdministratorRevokes(g) PROVE WorldSteps
  <2>1. /\ withdrawn' = [apps |-> withdrawn.apps, grants |-> withdrawn.grants \cup {g},
                         roles |-> withdrawn.roles]
        /\ UNCHANGED <<resourceApps, principals, trust, script, api, roles, editedApis,
                       editedGrants, assigned>>
    BY <1>6, WithdrawnMarks DEF AdministratorRevokes, applications
  <2>2. PICK kind \in Kind : grants' = [grants EXCEPT ![g][kind] = {}]
    BY <1>6 DEF AdministratorRevokes, Kind
  <2>3. /\ DOMAIN grants' = Grant /\ \A h \in Grant \ {g} : grants'[h] = grants[h]
        /\ grants'[g] = [all |-> IF kind = "all" THEN {} ELSE grants[g].all,
                         user |-> IF kind = "user" THEN {} ELSE grants[g].user]
    BY <2>2, GrantEdited
  <2> QED
    BY <1>1, <2>1, <2>3 DEF WorldSteps, Kind
<1>7. ASSUME NEW i \in 1 .. Len(Wanted), AdministratorAssigns(i) PROVE WorldSteps
  BY <1>1, <1>7 DEF AdministratorAssigns, applications, WorldSteps
<1>8. ASSUME NEW i \in 1 .. Len(Wanted), AdministratorRemoves(i) PROVE WorldSteps
  <2>1. withdrawn' = [apps |-> withdrawn.apps, grants |-> withdrawn.grants,
                      roles |-> withdrawn.roles \cup {i}]
    BY <1>8, WithdrawnMarks DEF AdministratorRemoves
  <2>2. /\ roles' = [roles EXCEPT ![i] = "none"]
        /\ UNCHANGED <<resourceApps, principals, trust, script, api, grants, editedApis,
                       editedGrants, assigned>>
    BY <1>8 DEF AdministratorRemoves, applications
  <2>3. /\ DOMAIN roles' = DOMAIN roles
        /\ \A j \in DOMAIN roles : /\ roles'[j] \in {"none", roles[j]}
                                  /\ j # i => roles'[j] = roles[j]
    BY <2>2
  <2> QED
    BY <1>1, <2>1, <2>2, <2>3 DEF WorldSteps
<1> QED
  BY <1>2, <1>3, <1>4, <1>5, <1>6, <1>7, <1>8

LEMMA WorldKeeps ==
  ASSUME AccessInv, WorldSteps
  PROVE  AccessInv'
<1>1. UNCHANGED <<resourceApps, principals, script>>
  BY DEF WorldSteps
<1>2. Shapes'
  BY DEF AccessInv, Shapes, WorldSteps
<1>3. ScriptShape' /\ Place'
  BY <1>1 DEF AccessInv, ScriptShape, Place
<1>4. Consent' = Consent
  BY <1>1 DEF Consent
<1>5. UsersOwn' /\ RolesAreKnown'
  <2>1. DOMAIN roles = 1 .. 3 /\ \A i \in {1, 2, 3} : i \in 1 .. 3
    BY DEF AccessInv, Shapes
  <2>2. UsersOwn'
    BY DEF AccessInv, UsersOwn, WorldSteps
  <2>3. RolesAreKnown'
    BY <2>1 DEF AccessInv, RolesAreKnown, WorldSteps
  <2> QED
    BY <2>2, <2>3
<1>6. ReadIsCurrent'
  <2>1. ASSUME script.pc \in {"permission", "preauthorize"} PROVE ReadIsCurrent'
    <3>1. script.app \in DOMAIN api
      BY <2>1 DEF AccessInv, Shapes, ReadIsCurrent
    <3>2. /\ api'[script.app].preauthorized \subseteq api[script.app].preauthorized
          /\ script.app \notin editedApis' =>
               script.app \notin editedApis /\ api'[script.app].scopes \subseteq api[script.app].scopes
      BY <3>1 DEF WorldSteps
    <3> QED
      BY <1>1, <2>1, <3>2 DEF AccessInv, ReadIsCurrent
  <2>2. ASSUME script.pc = "write grant" PROVE ReadIsCurrent'
    <3>1. Consent.grant \in Grant
      BY <2>2, ConsentIs DEF AccessInv, GrantPcs
    <3> QED
      BY <1>1, <1>4, <2>2, <3>1 DEF AccessInv, ReadIsCurrent, WorldSteps
  <2> QED
    BY <1>1, <2>1, <2>2 DEF ReadIsCurrent
<1>7. \A g \in Grant : g \notin withdrawn'.grants =>
        /\ g \notin withdrawn.grants
        /\ grants[g].all \subseteq grants'[g].all
        /\ grants[g].user \subseteq grants'[g].user
  BY DEF WorldSteps, Kind
<1>8. \A i \in {1, 2, 3, 4} : CoworkGiven(i) => CoworkGiven(i)'
  BY <1>7, Tables DEF CoworkGiven, TenantWide
<1>9. \A i \in {1, 2} : ConsentGiven(i) => ConsentGiven(i)'
  BY <1>7, Tables DEF ConsentGiven, TenantWide, OfAUser
<1>10. \A i \in {1, 2, 3} : RoleGiven(i) => RoleGiven(i)'
  <2>1. DOMAIN roles = 1 .. 3 /\ \A i \in {1, 2, 3} : i \in 1 .. 3
    BY DEF AccessInv, Shapes
  <2>2. \A i \in {1, 2, 3} : Configured(i)' = Configured(i)
    BY <1>1 DEF Configured
  <2> QED
    BY <2>1, <2>2 DEF RoleGiven, WorldSteps
<1>11. /\ script.pc \in GrantPcs /\ script.name = "cowork" => Before(script.step) \subseteq {1, 2, 3, 4}
       /\ script.pc \in GrantPcs /\ script.name = "agent" => Before(script.step) \subseteq {1, 2}
       /\ script.pc = "role" => Before(script.step) \subseteq {1, 2}
  <2>1. /\ Before(1) = {} /\ Before(2) = {1} /\ Before(3) = {1, 2} /\ Before(4) = {1, 2, 3}
    BY DEF Before
  <2>2. /\ script.pc \in GrantPcs => script.step \in {1, 2, 3, 4}
        /\ script.pc \in GrantPcs /\ script.name = "agent" => script.step \in {1, 2}
        /\ script.pc = "role" => script.step \in {1, 2, 3}
    BY DEF AccessInv, Place
  <2> QED
    BY <2>1, <2>2
<1>12. CoworkSoFar'
  <2> SUFFICES ASSUME script.name = "cowork" PROVE CoworkSoFar'
    BY <1>1 DEF CoworkSoFar
  <2>1. script.app \in resourceApps /\ script.app \notin withdrawn'.apps =>
          /\ script.app \notin withdrawn.apps
          /\ api[script.app].scopes \subseteq api'[script.app].scopes
          /\ api[script.app].preauthorized \subseteq api'[script.app].preauthorized
          /\ script.app \in trust => script.app \in trust'
    BY DEF AccessInv, Shapes, WorldSteps
  <2>2. script.pc \in GrantPcs => \A i \in Before(script.step) : CoworkGiven(i)'
    BY <1>8, <1>11 DEF AccessInv, CoworkSoFar
  <2>3. script.pc = "done" => \A i \in {1, 2, 3, 4} : CoworkGiven(i)'
    BY <1>8 DEF AccessInv, CoworkSoFar
  <2>4. ASSUME script.pc = "write grant"
        PROVE  Consent.grant \notin withdrawn'.grants => Consent.grant \notin withdrawn.grants
    <3>1. Consent.grant \in Grant
      BY <2>4, ConsentIs DEF AccessInv, GrantPcs
    <3> QED
      BY <1>7, <3>1
  <2> QED
    BY <1>1, <1>4, <2>1, <2>2, <2>3, <2>4 DEF AccessInv, CoworkSoFar
<1>13. AgentSoFar'
  BY <1>1, <1>9, <1>10, <1>11 DEF AccessInv, AgentSoFar
<1> QED
  BY <1>2, <1>3, <1>5, <1>6, <1>12, <1>13 DEF AccessInv

(* What NothingIsDropped says of a step of the scripts.                    *)
Kept ==
  script' # script =>
    /\ \A a \in DOMAIN api :
         /\ api[a].scopes \ api'[a].scopes # {} => a \in editedApis
         /\ api[a].preauthorized \subseteq api'[a].preauthorized
    /\ \A g \in Grant, kind \in {"all", "user"} :
         grants[g][kind] \ grants'[g][kind] # {} => g \in editedGrants

LEMMA AccessStep ==
  ASSUME AccessInv, EntraNext
  PROVE  AccessInv' /\ Kept
<1>1. ASSUME UNCHANGED <<api, grants>> PROVE Kept
  BY <1>1 DEF Kept
<1>2. ASSUME EnsureApplication PROVE AccessInv' /\ Kept
  BY <1>1, <1>2, EnsureApplicationKeeps DEF EnsureApplication
<1>3. ASSUME PatchPermission \/ PatchPreauthorized PROVE AccessInv' /\ Kept
  <2>1. UNCHANGED grants
    BY <1>3 DEF PatchPermission, PatchPreauthorized
  <2> QED
    BY <1>3, <2>1, PatchesKeep DEF Kept
<1>4. ASSUME EnsureServicePrincipal \/ EnsureFederatedCredential \/ StartAgentAccess \/ ScriptEnds
      PROVE  AccessInv' /\ Kept
  <2>1. UNCHANGED <<api, grants>>
    BY <1>4 DEF EnsureServicePrincipal, EnsureFederatedCredential, StartAgentAccess, ScriptEnds,
       applications
  <2> QED
    BY <1>1, <1>4, <2>1, RunStepsKeep
<1>5. ASSUME ReadGrant PROVE AccessInv' /\ Kept
  <2>1. UNCHANGED <<api, grants>>
    BY <1>5 DEF ReadGrant, applications
  <2> QED
    BY <1>1, <1>5, <2>1, ReadGrantKeeps
<1>6. ASSUME WriteGrant PROVE AccessInv' /\ Kept
  <2>1. UNCHANGED api
    BY <1>6 DEF WriteGrant, applications
  <2> QED
    BY <1>6, <2>1, WriteGrantKeeps DEF Kept, Kind
<1>7. ASSUME EnsureFabricWorkspaceRole PROVE AccessInv' /\ Kept
  <2>1. UNCHANGED <<api, grants>>
    BY <1>7 DEF EnsureFabricWorkspaceRole, applications
  <2> QED
    BY <1>1, <1>7, <2>1, RoleKeeps
<1>8. ASSUME \/ \E a \in 1 .. MaxApps :
                  Listed(a) \/ AdministratorEditsApi(a) \/ AdministratorWithdrawsApi(a)
             \/ \E g \in Grant : AdministratorConsents(g) \/ AdministratorRevokes(g)
             \/ \E i \in 1 .. Len(Wanted) : AdministratorAssigns(i) \/ AdministratorRemoves(i)
      PROVE  AccessInv' /\ Kept
  <2>1. WorldSteps
    BY <1>8, AdministratorsStep DEF AccessInv
  <2>2. Kept
    BY <2>1 DEF WorldSteps, Kept
  <2> QED
    BY <2>1, <2>2, WorldKeeps
<1> QED
  BY <1>2, <1>3, <1>4, <1>5, <1>6, <1>7, <1>8 DEF EntraNext

LEMMA AccessStutter == AccessInv /\ UNCHANGED entraVars => AccessInv'
<1> SUFFICES ASSUME AccessInv, UNCHANGED entraVars PROVE AccessInv'
  OBVIOUS
<1>1. UNCHANGED <<resourceApps, principals, trust, api, grants, roles, script,
                  editedApis, editedGrants, withdrawn, assigned>>
  BY DEF entraVars, applications, meanwhile
<1>2. WorldSteps
  BY <1>1 DEF WorldSteps, AccessInv, Shapes
<1> QED
  BY <1>2, WorldKeeps

LEMMA AccessInvariant == EntraSpec => []AccessInv
<1>1. AccessInv /\ [EntraNext]_entraVars => AccessInv'
  BY AccessStep, AccessStutter
<1> QED
  BY <1>1, AccessInitially, PTL DEF EntraSpec

(* A run that reports success has set up everything it is for, whatever    *)
(* broke off before, whatever administrators added, and but for what they  *)
(* took away since it began: the wanted roles, unless one was assigned     *)
(* otherwise, and tenant-wide consent, unless a user's own was extended.   *)
THEOREM AccessComplete == EntraSpec => []AccessIsComplete
<1>1. AccessInv => AccessIsComplete
  <2> SUFFICES ASSUME AccessInv PROVE AccessIsComplete
    OBVIOUS
  <2>1. /\ 1 .. Len(CoworkConsents) = {1, 2, 3, 4} /\ 1 .. Len(AgentConsents) = {1, 2}
        /\ 1 .. Len(Wanted) = {1, 2, 3}
    BY Tables
  <2>2. script.name = "cowork" /\ script.pc \in {"done", "done without consent"} =>
          /\ script.app \in principals
          /\ script.app \notin withdrawn.apps => ApiIsComplete(script.app)
    BY DEF AccessInv, CoworkSoFar, ApiIsComplete
  <2>3. script.name = "cowork" /\ script.pc = "done" =>
          \A i \in 1 .. Len(CoworkConsents) :
            CoworkConsents[i].grant \notin withdrawn.grants => TenantWide(CoworkConsents[i])
    BY <2>1 DEF AccessInv, CoworkSoFar, CoworkGiven
  <2>4. script.name = "agent" /\ script.pc = "done" =>
          /\ \A i \in 1 .. Len(Wanted) :
               Configured(i) /\ i \notin withdrawn.roles =>
                 \/ roles[i] = Wanted[i].role
                 \/ roles[i] # "none" /\ i \in assigned
          /\ \A i \in 1 .. Len(AgentConsents) :
               AgentConsents[i].grant \notin withdrawn.grants =>
                 TenantWide(AgentConsents[i]) \/ OfAUser(AgentConsents[i])
    BY <2>1 DEF AccessInv, AgentSoFar, ConsentGiven, RoleGiven, RolesAreKnown
  <2> QED
    BY <2>2, <2>3, <2>4 DEF AccessIsComplete
<1> QED
  BY <1>1, AccessInvariant, PTL

(* No step of a run takes a permission, pre-authorization or scope away    *)
(* that was there when the run read what it writes back.                   *)
THEOREM NothingDropped == EntraSpec => NothingIsDropped
<1>1. AccessInv /\ [EntraNext]_entraVars => [Kept]_entraVars
  BY AccessStep
<1>2. EntraSpec => [][Kept]_entraVars
  BY <1>1, AccessInvariant, PTL DEF EntraSpec
<1> QED
  BY <1>2 DEF NothingIsDropped, Kept

-----------------------------------------------------------------------------
(* The credential of Work IQ, WorkIqCredential.                            *)
USE WorkIqAssumption

RotationShape(r) ==
  r = [pc |-> r.pc, app |-> r.app, secret |-> r.secret, key |-> r.key,
       expiry |-> r.expiry, rotated |-> r.rotated, listed |-> r.listed]

DotenvShape(d) ==
  d = [app |-> d.app, secret |-> d.secret, key |-> d.key, expiry |-> d.expiry]

(* Secrets and applications are numbered from 1 in the order they were     *)
(* made; everything that names one names one that was made, or none.       *)
Numbered ==
  /\ \E k \in Nat : DOMAIN issuedBy = 1 .. k
  /\ appsMade \in Nat
  /\ \A s \in DOMAIN issuedBy : issuedBy[s] \in 1 .. appsMade
  /\ liveSecrets \subseteq DOMAIN issuedBy
  /\ workIqApps \subseteq 1 .. appsMade
  /\ dotenv.app \in 0 .. appsMade
  /\ dotenv.key \in DOMAIN issuedBy \cup {NoSecret}
  /\ eclipsing \subseteq 1 .. appsMade /\ dotenv.app \notin eclipsing

CredentialShapes ==
  /\ RotationShape(rotation) /\ DotenvShape(dotenv)
  /\ connection = [app |-> connection.app, secret |-> connection.secret]
  /\ connection.app = NoApp => connection.secret = NoSecret

(* .env cannot make a run for this application keep its secret: the key is *)
(* not a live one of it, or the expiry is missing or near.  This never     *)
(* changes again while .env keeps key and expiry.                          *)
Dead(app) ==
  \/ dotenv.key \notin liveSecrets \/ issuedBy[dotenv.key] # app
  \/ dotenv.expiry = NoSecret \/ dotenv.expiry \in aging

Unusable == dotenv.secret = NoSecret \/ dotenv.app \notin workIqApps \/ Dead(dotenv.app)

Connected(app, secret) ==
  \/ connection.app = NoApp
  \/ connection.app = app /\ connection.secret = secret
  \/ connection.app \in eclipsing \ {app}

(* Whatever was broken off: .env holds one secret, the connection's, or no *)
(* run will keep what it holds.                                            *)
EnvSound ==
  /\ dotenv.app = NoApp => dotenv.secret = NoSecret
  /\ dotenv.secret = NoSecret => dotenv.key = NoSecret
  /\ Unusable \/ (dotenv.secret = dotenv.key /\ Connected(dotenv.app, dotenv.secret))

(* An application that is not the one in .env is new, the one in .env gone *)
(* or not listed, or .env has none.                                        *)
Found ==
  rotation.pc \in {"access", "secret"} =>
    /\ rotation.app \in 1 .. appsMade /\ rotation.rotated = FALSE
    /\ \/ rotation.app = dotenv.app \/ dotenv.app = NoApp
       \/ /\ dotenv.app \notin workIqApps \/ rotation.app \in eclipsing
          /\ \A s \in DOMAIN issuedBy : issuedBy[s] # rotation.app

ListedKeys ==
  rotation.pc = "secret" =>
    /\ \A s \in liveSecrets : issuedBy[s] = rotation.app => s \in rotation.listed
    /\ \A s \in rotation.listed : s \in DOMAIN issuedBy /\ issuedBy[s] = rotation.app
    /\ KeepsSecret => dotenv.secret = dotenv.key /\ Connected(dotenv.app, dotenv.secret)

Placing == {"put", "env app", "env secret", "env key", "env expiry", "redirect", "done"}

(* What a run is about to put is whole and this application's; .env is as  *)
(* far as the run has written it, and useless until the key is in it,      *)
(* unless it names another application that was not listed.                *)
Placed ==
  rotation.pc \in Placing =>
    /\ rotation.app \in 1 .. appsMade /\ rotation.secret = rotation.key
    /\ rotation.secret \in DOMAIN issuedBy /\ issuedBy[rotation.secret] = rotation.app
    /\ rotation.pc # "put" \/ ~rotation.rotated => Connected(rotation.app, rotation.secret)
    /\ ~rotation.rotated =>
         dotenv = [app |-> rotation.app, secret |-> rotation.secret,
                   key |-> rotation.key, expiry |-> rotation.expiry]
    /\ rotation.rotated /\ rotation.pc \in {"put", "env app"} =>
         Unusable \/ rotation.app \in eclipsing
    /\ rotation.rotated /\ rotation.pc \in {"put", "env app", "env secret", "env key"} =>
         Dead(rotation.app)
    /\ rotation.pc \notin {"put", "env app"} => dotenv.app = rotation.app
    /\ rotation.pc \notin {"put", "env app", "env secret"} => dotenv.secret = rotation.secret
    /\ rotation.pc \in {"env expiry", "redirect", "done"} => dotenv.key = rotation.key

CredInv == CredentialShapes /\ Numbered /\ EnvSound /\ Found /\ ListedKeys /\ Placed

LEMMA CredInitially == WorkIqInit => CredInv
<1> SUFFICES ASSUME WorkIqInit PROVE CredInv
  OBVIOUS
<1>1. DOMAIN issuedBy = {} /\ \E k \in Nat : DOMAIN issuedBy = 1 .. k
  <2>1. DOMAIN issuedBy = {}
    BY DEF WorkIqInit
  <2>2. 1 .. 0 = {} /\ 0 \in Nat
    OBVIOUS
  <2> QED
    BY <2>1, <2>2
<1>2. rotation.pc = "idle"
  BY DEF WorkIqInit, RotationOf
<1>3. CredentialShapes
  BY DEF WorkIqInit, RotationOf, CredentialShapes, RotationShape, DotenvShape
<1>4. Numbered
  BY <1>1 DEF WorkIqInit, Numbered, NoApp, NoSecret
<1>5. EnvSound
  BY DEF WorkIqInit, EnvSound, Unusable
<1> QED
  BY <1>2, <1>3, <1>4, <1>5 DEF CredInv, Found, ListedKeys, Placed, Placing

(* The world only takes away or ages.                                      *)
LEMMA TenantLoses ==
  ASSUME CredInv, workIqApps' \subseteq workIqApps, liveSecrets' \subseteq liveSecrets,
         aging \subseteq aging',
         UNCHANGED <<appsMade, issuedBy, dotenv, connection, rotation, eclipsing>>
  PROVE  CredInv'
<1> USE DEF CredInv
<1>1. CredentialShapes'
  BY DEF CredentialShapes
<1>2. Numbered'
  BY DEF Numbered
<1>3. \A app : Dead(app) => Dead(app)'
  BY DEF Dead
<1>4. Unusable => Unusable'
  BY <1>3 DEF Unusable
<1>5. EnvSound'
  BY <1>4 DEF EnvSound, Connected
<1>6. Found'
  BY DEF Found
<1>7. ListedKeys'
  BY DEF ListedKeys, KeepsSecret, Connected
<1>8. Placed'
  BY <1>3, <1>4 DEF Placed, Connected
<1> QED
  BY <1>1, <1>2, <1>5, <1>6, <1>7, <1>8

LEMMA TenantStepsKeep ==
  ASSUME CredInv, NEW x,
         SecretAges(x) \/ SecretGoes(x) \/ ApplicationListed(x) \/ ApplicationGoes(x)
  PROVE  CredInv'
<1>1. workIqApps' \subseteq workIqApps /\ liveSecrets' \subseteq liveSecrets
      /\ aging \subseteq aging'
      /\ UNCHANGED <<appsMade, issuedBy, dotenv, connection, rotation, eclipsing>>
  BY DEF SecretAges, SecretGoes, ApplicationListed, ApplicationGoes
<1> QED
  BY <1>1, TenantLoses

LEMMA ConnectionGoesKeeps ==
  ASSUME CredInv, ConnectionGoes
  PROVE  CredInv'
<1> USE DEF CredInv
<1>1. /\ connection' = [app |-> NoApp, secret |-> NoSecret]
      /\ UNCHANGED <<workIqApps, appsMade, issuedBy, liveSecrets, aging, dotenv, rotation,
                     eclipsing>>
  BY DEF ConnectionGoes, tenant
<1>2. connection'.app = NoApp
  BY <1>1
<1>3. CredentialShapes' /\ Numbered' /\ Found'
  BY <1>1 DEF CredentialShapes, Numbered, Found
<1>4. EnvSound' /\ ListedKeys'
  BY <1>1, <1>2 DEF EnvSound, ListedKeys, KeepsSecret, Connected, Unusable, Dead
<1>5. Placed'
  BY <1>1, <1>2 DEF Placed, Connected, Unusable, Dead
<1> QED
  BY <1>3, <1>4, <1>5

(* The script moves on.                                                    *)
LEMMA RotationMoves ==
  ASSUME CredentialShapes, NEW pc, RotationGoes(pc)
  PROVE  /\ rotation'.pc = pc /\ rotation'.app = rotation.app
         /\ rotation'.secret = rotation.secret /\ rotation'.key = rotation.key
         /\ rotation'.expiry = rotation.expiry /\ rotation'.rotated = rotation.rotated
         /\ rotation'.listed = rotation.listed
         /\ RotationShape(rotation')
  BY DEF CredentialShapes, RotationGoes, RotationShape

(* It ends, or its last call adds the redirect URI.                        *)
LEMMA RotationEndsKeeps ==
  ASSUME CredInv, RotationEnds \/ EnsureRedirectUri
  PROVE  CredInv'
<1> USE DEF CredInv
<1>1. UNCHANGED <<workIqApps, appsMade, issuedBy, liveSecrets, aging, dotenv, connection,
                  eclipsing>>
  BY DEF RotationEnds, EnsureRedirectUri, tenant
<1>2. RotationShape(rotation') /\ rotation'.pc \in {"failed", "done"}
  BY RotationMoves DEF RotationEnds, EnsureRedirectUri
<1>3. CredentialShapes' /\ Numbered' /\ EnvSound'
  BY <1>1, <1>2 DEF CredentialShapes, Numbered, EnvSound, Connected, Unusable, Dead
<1>4. Found' /\ ListedKeys'
  BY <1>2 DEF Found, ListedKeys
<1>5. Placed'
  <2>1. CASE RotationEnds
    <3>1. rotation'.pc = "failed"
      BY <2>1, RotationMoves DEF RotationEnds
    <3> QED
      BY <3>1 DEF Placed, Placing
  <2>2. CASE EnsureRedirectUri
    <3>1. /\ rotation.pc = "redirect" /\ rotation'.pc = "done"
          /\ rotation'.app = rotation.app
          /\ rotation'.secret = rotation.secret /\ rotation'.key = rotation.key
          /\ rotation'.expiry = rotation.expiry /\ rotation'.rotated = rotation.rotated
      BY <2>2, RotationMoves DEF EnsureRedirectUri
    <3> QED
      BY <1>1, <3>1 DEF Placed, Placing, Connected, Unusable, Dead
  <2> QED
    BY <2>1, <2>2
<1> QED
  BY <1>3, <1>4, <1>5

(* create_workiq_toolbox puts what .env holds.                             *)
LEMMA ToolboxKeeps ==
  ASSUME CredInv, CreateWorkIqToolbox
  PROVE  CredInv'
<1> USE DEF CredInv
<1>1. /\ UNCHANGED <<workIqApps, appsMade, issuedBy, liveSecrets, aging, dotenv, eclipsing>>
      /\ connection' = [app |-> dotenv.app, secret |-> dotenv.secret] /\ dotenv.app # NoApp
  BY DEF CreateWorkIqToolbox, PutWorkIqConnection, tenant
<1>2. RotationShape(rotation') /\ rotation'.pc = "idle"
  BY RotationMoves DEF CreateWorkIqToolbox
<1>3. connection'.app = dotenv.app /\ connection'.secret = dotenv.secret
  BY <1>1
<1>4. CredentialShapes' /\ Numbered'
  BY <1>1, <1>2, <1>3 DEF CredentialShapes, Numbered
<1>5. EnvSound'
  BY <1>1, <1>3 DEF EnvSound, Connected, Unusable, Dead
<1> QED
  BY <1>2, <1>4, <1>5 DEF Found, ListedKeys, Placed, Placing

LEMMA FreshRotation ==
  ASSUME NEW app, NEW pc, rotation' = RotationOf(app, pc)
  PROVE  RotationShape(rotation') /\ rotation'.pc = pc /\ rotation'.app = app
         /\ rotation'.rotated = FALSE
  BY DEF RotationOf, RotationShape

LEMMA CredentialApplicationKeeps ==
  ASSUME CredInv, EnsureWorkIqApplication
  PROVE  CredInv'
<1> USE DEF CredInv
<1> DEFINE listed == workIqApps \ delayed
           found == IF dotenv.app # NoApp THEN listed \cap {dotenv.app} ELSE listed
<1>1. UNCHANGED <<issuedBy, liveSecrets, aging, dotenv, connection>>
  BY DEF EnsureWorkIqApplication
<1>2. \/ /\ \E app \in found : rotation' = RotationOf(app, "access")
         /\ UNCHANGED <<workIqApps, appsMade, eclipsing>>
      \/ /\ found = {}
         /\ appsMade' = appsMade + 1
         /\ workIqApps' = workIqApps \cup {appsMade'}
         /\ eclipsing' = eclipsing \cup IF dotenv.app \in delayed THEN {appsMade'} ELSE {}
         /\ rotation' = RotationOf(appsMade', "access")
      \/ /\ RotationGoes("failed")
         /\ UNCHANGED <<workIqApps, appsMade, eclipsing>>
  BY Zenon DEF EnsureWorkIqApplication
<1>3. CASE /\ \E app \in found : rotation' = RotationOf(app, "access")
           /\ UNCHANGED <<workIqApps, appsMade, eclipsing>>
  <2>1. PICK app \in found : rotation' = RotationOf(app, "access")
    BY <1>3
  <2>2. RotationShape(rotation') /\ rotation'.pc = "access" /\ rotation'.app = app
        /\ rotation'.rotated = FALSE
    BY <2>1, FreshRotation
  <2>3. app \in 1 .. appsMade /\ (app = dotenv.app \/ dotenv.app = NoApp)
    BY <2>1 DEF Numbered
  <2>4. CredentialShapes' /\ Numbered' /\ EnvSound'
    BY <1>1, <1>3, <2>2 DEF CredentialShapes, Numbered, EnvSound, Connected, Unusable, Dead
  <2>5. Found'
    BY <1>1, <1>3, <2>2, <2>3 DEF Found
  <2> QED
    BY <2>2, <2>4, <2>5 DEF ListedKeys, Placed, Placing
<1>4. CASE /\ found = {}
           /\ appsMade' = appsMade + 1
           /\ workIqApps' = workIqApps \cup {appsMade'}
           /\ eclipsing' = eclipsing \cup IF dotenv.app \in delayed THEN {appsMade'} ELSE {}
           /\ rotation' = RotationOf(appsMade', "access")
  <2>1. RotationShape(rotation') /\ rotation'.pc = "access" /\ rotation'.app = appsMade'
        /\ rotation'.rotated = FALSE
    BY <1>4, FreshRotation
  <2>2. /\ appsMade' = appsMade + 1 /\ appsMade \in Nat
        /\ workIqApps' = workIqApps \cup {appsMade + 1}
    BY <1>4 DEF Numbered
  <2>3. dotenv.app # NoApp => dotenv.app \notin workIqApps \/ dotenv.app \in delayed
    BY <1>4
  <2>4. dotenv.app \in 0 .. appsMade /\ dotenv.app \notin eclipsing
        /\ eclipsing \subseteq 1 .. appsMade
    BY DEF Numbered
  <2>5. /\ eclipsing' \subseteq 1 .. (appsMade + 1) /\ dotenv.app \notin eclipsing'
        /\ eclipsing \subseteq eclipsing'
        /\ dotenv.app \in delayed => appsMade + 1 \in eclipsing'
        /\ dotenv.app \notin workIqApps /\ dotenv.app # NoApp => dotenv.app \notin workIqApps'
    BY <1>4, <2>2, <2>4
  <2>6. Numbered'
    BY <1>1, <2>2, <2>5 DEF Numbered
  <2>7. \A s \in DOMAIN issuedBy' : issuedBy'[s] # appsMade'
    BY <1>1, <2>2 DEF Numbered
  <2>8. Found'
    BY <1>1, <2>1, <2>2, <2>3, <2>5, <2>7 DEF Found
  <2>9. EnvSound'
    <3>1. Unusable => Unusable'
      BY <1>1, <2>2, <2>5 DEF Unusable, Dead, EnvSound, NoApp
    <3> QED
      BY <1>1, <2>5, <3>1 DEF EnvSound, Connected
  <2>10. CredentialShapes'
    BY <1>1, <2>1 DEF CredentialShapes
  <2> QED
    BY <2>1, <2>6, <2>8, <2>9, <2>10 DEF ListedKeys, Placed, Placing
<1>5. CASE RotationGoes("failed") /\ UNCHANGED <<workIqApps, appsMade, eclipsing>>
  <2>1. RotationShape(rotation') /\ rotation'.pc = "failed"
    BY <1>5, RotationMoves
  <2>2. CredentialShapes' /\ Numbered' /\ EnvSound'
    BY <1>1, <1>5, <2>1 DEF CredentialShapes, Numbered, EnvSound, Connected, Unusable, Dead
  <2> QED
    BY <2>1, <2>2 DEF Found, ListedKeys, Placed, Placing
<1> QED
  BY <1>2, <1>3, <1>4, <1>5

LEMMA EnsureConsentKeeps ==
  ASSUME CredInv, EnsureConsent
  PROVE  CredInv'
<1> USE DEF CredInv
<1> DEFINE L == {s \in liveSecrets : issuedBy[s] = rotation.app}
<1>1. /\ UNCHANGED <<workIqApps, appsMade, issuedBy, liveSecrets, aging, dotenv, connection,
                     eclipsing>>
      /\ rotation.pc = "access" /\ rotation.app \in workIqApps
  BY DEF EnsureConsent, tenant
<1>2. rotation' = [pc |-> "secret", app |-> rotation.app, secret |-> rotation.secret,
                   key |-> rotation.key, expiry |-> rotation.expiry,
                   rotated |-> rotation.rotated, listed |-> L]
  <2> DEFINE y == [rotation EXCEPT !.pc = "secret"]
  <2>1. rotation' = [y EXCEPT !.listed = L]
    BY DEF EnsureConsent
  <2>2. y = [pc |-> "secret", app |-> rotation.app, secret |-> rotation.secret,
             key |-> rotation.key, expiry |-> rotation.expiry,
             rotated |-> rotation.rotated, listed |-> rotation.listed]
    BY DEF CredentialShapes, RotationShape
  <2> HIDE DEF y, L
  <2> QED
    BY <2>1, <2>2
<1>3. /\ RotationShape(rotation') /\ rotation'.pc = "secret" /\ rotation'.app = rotation.app
      /\ rotation'.listed = L /\ rotation'.rotated = rotation.rotated
  BY <1>2 DEF RotationShape
<1>4. CredentialShapes' /\ Numbered' /\ EnvSound'
  BY <1>1, <1>3 DEF CredentialShapes, Numbered, EnvSound, Connected, Unusable, Dead
<1>5. Found'
  BY <1>1, <1>3 DEF Found
<1>6. ListedKeys'
  <2>1. (\A s \in liveSecrets : issuedBy[s] = rotation.app => s \in L)
        /\ (\A s \in L : s \in DOMAIN issuedBy /\ issuedBy[s] = rotation.app)
    BY DEF Numbered
  <2>2. ASSUME KeepsSecret'
        PROVE  dotenv.secret = dotenv.key /\ Connected(dotenv.app, dotenv.secret)
    <3>1. /\ dotenv.secret # NoSecret /\ dotenv.app = rotation.app /\ dotenv.key \in L
          /\ dotenv.expiry # NoSecret /\ dotenv.expiry \notin aging
      BY <1>1, <1>3, <2>2 DEF KeepsSecret
    <3>2. ~Unusable
      BY <1>1, <3>1 DEF Unusable, Dead
    <3> QED
      BY <3>2 DEF EnvSound
  <2> HIDE DEF L
  <2> QED
    BY <1>1, <1>3, <2>1, <2>2 DEF ListedKeys, Connected
<1> QED
  BY <1>3, <1>4, <1>5, <1>6 DEF Placed, Placing

(* The secret in .env is kept: it is whole, as ListedKeys says.                *)
LEMMA KeptSecret ==
  ASSUME CredInv, rotation.pc = "secret", KeepsSecret,
         rotation' = [rotation EXCEPT !.pc = "put", !.secret = dotenv.secret,
                                      !.key = dotenv.key, !.expiry = dotenv.expiry],
         UNCHANGED <<workIqApps, appsMade, issuedBy, liveSecrets, aging, dotenv, connection,
                     eclipsing>>
  PROVE  CredInv'
<1> USE DEF CredInv
<1> DEFINE r1 == [rotation EXCEPT !.pc = "put"]
           r2 == [r1 EXCEPT !.secret = dotenv.secret]
           r3 == [r2 EXCEPT !.key = dotenv.key]
           r4 == [r3 EXCEPT !.expiry = dotenv.expiry]
<1>1. rotation' = r4
  OBVIOUS
<1>2. r4 = [pc |-> "put", app |-> rotation.app, secret |-> dotenv.secret, key |-> dotenv.key,
            expiry |-> dotenv.expiry, rotated |-> rotation.rotated, listed |-> rotation.listed]
  <2>1. r1 = [pc |-> "put", app |-> rotation.app, secret |-> rotation.secret,
              key |-> rotation.key, expiry |-> rotation.expiry,
              rotated |-> rotation.rotated, listed |-> rotation.listed]
    BY DEF CredentialShapes, RotationShape
  <2> HIDE DEF r1
  <2>2. r2 = [pc |-> "put", app |-> rotation.app, secret |-> dotenv.secret,
              key |-> rotation.key, expiry |-> rotation.expiry,
              rotated |-> rotation.rotated, listed |-> rotation.listed]
    BY <2>1
  <2> HIDE DEF r2
  <2>3. r3 = [pc |-> "put", app |-> rotation.app, secret |-> dotenv.secret,
              key |-> dotenv.key, expiry |-> rotation.expiry,
              rotated |-> rotation.rotated, listed |-> rotation.listed]
    BY <2>2
  <2> HIDE DEF r3
  <2> QED
    BY <2>3
<1> HIDE DEF r4
<1>3. /\ RotationShape(rotation') /\ rotation'.pc = "put" /\ rotation'.app = rotation.app
      /\ rotation'.secret = dotenv.secret /\ rotation'.key = dotenv.key
      /\ rotation'.expiry = dotenv.expiry /\ rotation'.rotated = rotation.rotated
  BY <1>1, <1>2 DEF RotationShape
<1>4. CredentialShapes' /\ Numbered' /\ EnvSound'
  BY <1>3 DEF CredentialShapes, Numbered, EnvSound, Connected, Unusable, Dead
<1>5. /\ dotenv.secret = dotenv.key /\ Connected(dotenv.app, dotenv.secret)
      /\ dotenv.app = rotation.app
      /\ dotenv.key \in DOMAIN issuedBy /\ issuedBy[dotenv.key] = rotation.app
  BY DEF ListedKeys, KeepsSecret
<1>6. rotation.rotated = FALSE /\ rotation.app \in 1 .. appsMade
  BY DEF Found
<1>7. dotenv' = [app |-> rotation'.app, secret |-> rotation'.secret,
                 key |-> rotation'.key, expiry |-> rotation'.expiry]
  BY <1>3, <1>5 DEF CredentialShapes, DotenvShape
<1>8. Placed'
  BY <1>3, <1>5, <1>6, <1>7 DEF Placed, Connected
<1> QED
  BY <1>3, <1>4, <1>8 DEF Found, ListedKeys

LEMMA SecretTaken ==
  ASSUME CredentialShapes, NEW s, NEW yes,
         rotation' = [rotation EXCEPT !.pc = "put", !.secret = s, !.key = s,
                                      !.expiry = s, !.rotated = yes]
  PROVE  /\ RotationShape(rotation') /\ rotation'.pc = "put" /\ rotation'.app = rotation.app
         /\ rotation'.secret = s /\ rotation'.key = s
         /\ rotation'.expiry = s /\ rotation'.rotated = yes
<1> DEFINE r1 == [rotation EXCEPT !.pc = "put"]
           r2 == [r1 EXCEPT !.secret = s]
           r3 == [r2 EXCEPT !.key = s]
           r4 == [r3 EXCEPT !.expiry = s]
           r5 == [r4 EXCEPT !.rotated = yes]
<1>1. rotation' = r5
  OBVIOUS
<1>2. r1 = [pc |-> "put", app |-> rotation.app, secret |-> rotation.secret,
            key |-> rotation.key, expiry |-> rotation.expiry,
            rotated |-> rotation.rotated, listed |-> rotation.listed]
  BY DEF CredentialShapes, RotationShape
<1> HIDE DEF r1
<1>3. r2 = [pc |-> "put", app |-> rotation.app, secret |-> s,
            key |-> rotation.key, expiry |-> rotation.expiry,
            rotated |-> rotation.rotated, listed |-> rotation.listed]
  BY <1>2
<1> HIDE DEF r2
<1>4. r3 = [pc |-> "put", app |-> rotation.app, secret |-> s,
            key |-> s, expiry |-> rotation.expiry,
            rotated |-> rotation.rotated, listed |-> rotation.listed]
  BY <1>3
<1> HIDE DEF r3
<1>5. r4 = [pc |-> "put", app |-> rotation.app, secret |-> s,
            key |-> s, expiry |-> s,
            rotated |-> rotation.rotated, listed |-> rotation.listed]
  BY <1>4
<1> HIDE DEF r4
<1>6. r5 = [pc |-> "put", app |-> rotation.app, secret |-> s,
            key |-> s, expiry |-> s,
            rotated |-> yes, listed |-> rotation.listed]
  BY <1>5
<1> HIDE DEF r5
<1> QED
  BY <1>1, <1>6 DEF RotationShape

(* A new secret: no run for this application will keep what .env holds.    *)
LEMMA NewSecret ==
  ASSUME CredInv, rotation.pc = "secret", ~KeepsSecret,
         NEW s, s = Cardinality(DOMAIN issuedBy) + 1,
         issuedBy' = [k \in DOMAIN issuedBy \cup {s} |->
                        IF k = s THEN rotation.app ELSE issuedBy[k]],
         liveSecrets' = liveSecrets \cup {s},
         rotation' = [rotation EXCEPT !.pc = "put", !.secret = s, !.key = s,
                                      !.expiry = s, !.rotated = TRUE],
         UNCHANGED <<workIqApps, appsMade, aging, dotenv, connection, eclipsing>>
  PROVE  CredInv'
<1> USE DEF CredInv
<1>1. /\ RotationShape(rotation') /\ rotation'.pc = "put" /\ rotation'.app = rotation.app
      /\ rotation'.secret = s /\ rotation'.key = s
      /\ rotation'.expiry = s /\ rotation'.rotated = TRUE
  <2>1. \E yes : yes = TRUE
                 /\ rotation' = [rotation EXCEPT !.pc = "put", !.secret = s, !.key = s,
                                                 !.expiry = s, !.rotated = yes]
    OBVIOUS
  <2> QED
    BY <2>1, SecretTaken, Zenon
<1>2. PICK n \in Nat : DOMAIN issuedBy = 1 .. n
  BY DEF Numbered
<1>3. s = n + 1
  <2>1. Cardinality(1 .. n) = IF 1 > n THEN 0 ELSE n - 1 + 1
    BY ONLY <1>2, FS_Interval
  <2> QED
    BY <1>2, <2>1
<1>4. s \notin DOMAIN issuedBy /\ s # NoSecret
  BY <1>2, <1>3 DEF NoSecret
<1>5. /\ DOMAIN issuedBy' = DOMAIN issuedBy \cup {s}
      /\ issuedBy'[s] = rotation.app
      /\ \A k \in DOMAIN issuedBy : issuedBy'[k] = issuedBy[k]
  BY <1>4
<1>6. rotation.app \in 1 .. appsMade
  BY DEF Found
<1>7. Numbered'
  <2>1. DOMAIN issuedBy' = 1 .. (n + 1) /\ n + 1 \in Nat
    BY <1>2, <1>3, <1>5
  <2>2. \A k \in DOMAIN issuedBy' : issuedBy'[k] \in 1 .. appsMade'
    BY <1>5, <1>6 DEF Numbered
  <2> QED
    BY <1>5, <2>1, <2>2 DEF Numbered
<1>8. dotenv.key # s /\ (dotenv.key \in liveSecrets => dotenv.key \in DOMAIN issuedBy)
  BY <1>4 DEF Numbered
<1>9. \A app : Dead(app) => Dead(app)'
  BY <1>5, <1>8 DEF Dead
<1>10. Dead(rotation.app) /\ (Unusable \/ rotation.app \in eclipsing)
  <2>1. CASE dotenv.secret = NoSecret
    <3>1. dotenv.key \notin liveSecrets
      BY <2>1, <1>2 DEF EnvSound, Numbered, NoSecret
    <3> QED
      BY <2>1, <3>1 DEF Dead, Unusable
  <2>2. CASE dotenv.secret # NoSecret /\ dotenv.app # rotation.app
    <3>1. /\ dotenv.app \notin workIqApps \/ rotation.app \in eclipsing
          /\ \A k \in DOMAIN issuedBy : issuedBy[k] # rotation.app
      BY <2>2 DEF Found, EnvSound
    <3> QED
      BY <1>8, <3>1 DEF Dead, Unusable
  <2>3. CASE dotenv.secret # NoSecret /\ dotenv.app = rotation.app
    <3>1. Dead(rotation.app)
      BY <2>3 DEF KeepsSecret, ListedKeys, Dead
    <3> QED
      BY <2>3, <3>1 DEF Unusable
  <2> QED
    BY <2>1, <2>2, <2>3
<1>11. /\ Dead(rotation.app)' /\ (Unusable => Unusable')
       /\ Unusable' \/ rotation'.app \in eclipsing'
  <2>1. Dead(rotation.app)'
    BY <1>1, <1>9, <1>10 DEF Dead
  <2>2. Unusable => Unusable'
    BY <1>9 DEF Unusable
  <2> QED
    BY <1>1, <1>10, <2>1, <2>2
<1>12. CredentialShapes' /\ EnvSound'
  BY <1>1, <1>11 DEF CredentialShapes, EnvSound, Connected
<1>13. Placed'
  <2>1. rotation'.app \in 1 .. appsMade'
    BY <1>1, <1>6
  <2> QED
    BY <1>1, <1>5, <1>11, <2>1 DEF Placed
<1> QED
  BY <1>1, <1>7, <1>12, <1>13 DEF Found, ListedKeys

LEMMA EnsureSecretKeeps ==
  ASSUME CredInv, EnsureSecret
  PROVE  CredInv'
<1>1. /\ rotation.pc = "secret"
      /\ UNCHANGED <<workIqApps, appsMade, aging, dotenv, connection, eclipsing>>
  BY DEF EnsureSecret
<1>2. CASE /\ KeepsSecret
           /\ rotation' = [rotation EXCEPT !.pc = "put", !.secret = dotenv.secret,
                                            !.key = dotenv.key, !.expiry = dotenv.expiry]
           /\ UNCHANGED <<issuedBy, liveSecrets>>
  BY <1>1, <1>2, KeptSecret
<1>3. CASE ~KeepsSecret
  <2> DEFINE s == Cardinality(DOMAIN issuedBy) + 1
  <2>1. /\ issuedBy' = [k \in DOMAIN issuedBy \cup {s} |->
                          IF k = s THEN rotation.app ELSE issuedBy[k]]
        /\ liveSecrets' = liveSecrets \cup {s}
        /\ rotation' = [rotation EXCEPT !.pc = "put", !.secret = s, !.key = s,
                                         !.expiry = s, !.rotated = TRUE]
    BY <1>3, Zenon DEF EnsureSecret
  <2> QED
    BY <1>1, <1>3, <2>1, NewSecret
<1> QED
  BY <1>2, <1>3, Zenon DEF EnsureSecret

LEMMA PutRotatedKeeps ==
  ASSUME CredInv, PutRotated
  PROVE  CredInv'
<1> USE DEF CredInv
<1>1. /\ rotation.pc = "put"
      /\ UNCHANGED <<workIqApps, appsMade, issuedBy, liveSecrets, aging, dotenv, eclipsing>>
      /\ connection' = IF connection.app # NoApp /\ ~rotation.rotated THEN connection
                       ELSE [app |-> rotation.app, secret |-> rotation.secret]
  BY DEF PutRotated, PutWorkIqConnection, tenant
<1>2. /\ rotation'.pc = "env app" /\ rotation'.app = rotation.app
      /\ rotation'.secret = rotation.secret /\ rotation'.key = rotation.key
      /\ rotation'.expiry = rotation.expiry /\ rotation'.rotated = rotation.rotated
      /\ RotationShape(rotation')
  BY RotationMoves DEF PutRotated
<1>3. rotation.app # NoApp
  BY <1>1 DEF Placed, Placing, NoApp
<1>4. /\ connection' = [app |-> connection'.app, secret |-> connection'.secret]
      /\ connection'.app # NoApp /\ Connected(rotation.app, rotation.secret)'
      /\ rotation.rotated => connection'.app = rotation.app
  <2>1. CASE connection.app # NoApp /\ ~rotation.rotated
    BY <1>1, <1>2, <2>1 DEF CredentialShapes, Placed, Placing, Connected
  <2>2. CASE ~(connection.app # NoApp /\ ~rotation.rotated)
    BY <1>1, <1>2, <1>3, <2>2 DEF Connected
  <2> QED
    BY <2>1, <2>2
<1>5. CredentialShapes' /\ Numbered'
  BY <1>1, <1>2, <1>4 DEF CredentialShapes, Numbered
<1>6. EnvSound'
  <2>1. CASE rotation.rotated
    <3>1. Unusable \/ rotation.app \in eclipsing \ {dotenv.app}
      BY <1>1, <2>1 DEF Placed, Placing, Numbered
    <3>2. Unusable => Unusable'
      BY <1>1 DEF Unusable, Dead
    <3> QED
      BY <1>1, <1>4, <2>1, <3>1, <3>2 DEF EnvSound, Connected
  <2>2. CASE ~rotation.rotated
    <3>1. /\ dotenv.app = rotation.app /\ dotenv.secret = rotation.secret
          /\ dotenv.key = rotation.key /\ rotation.secret = rotation.key
      BY <1>1, <2>2 DEF Placed, Placing
    <3> QED
      BY <1>1, <1>2, <1>4, <3>1 DEF EnvSound, Connected
  <2> QED
    BY <2>1, <2>2
<1>7. Placed'
  <2>1. \A app : Dead(app) => Dead(app)'
    BY <1>1 DEF Dead
  <2>2. Unusable => Unusable'
    BY <1>1, <2>1 DEF Unusable
  <2> QED
    BY <1>1, <1>2, <1>4, <2>1, <2>2 DEF Placed, Placing, Connected
<1> QED
  BY <1>2, <1>5, <1>6, <1>7 DEF Found, ListedKeys

(* What each of the four writes leaves in .env.                            *)
LEMMA EnvWritten ==
  ASSUME CredentialShapes, Persist
  PROVE  /\ UNCHANGED <<workIqApps, appsMade, issuedBy, liveSecrets, aging, connection>>
         /\ DotenvShape(dotenv') /\ RotationShape(rotation')
         /\ rotation'.app = rotation.app
         /\ rotation'.secret = rotation.secret /\ rotation'.key = rotation.key
         /\ rotation'.expiry = rotation.expiry /\ rotation'.rotated = rotation.rotated
         /\ rotation.pc # "env app" => eclipsing' = eclipsing
         /\ \/ /\ rotation.pc = "env app" /\ rotation'.pc = "env secret"
               /\ dotenv'.app = rotation.app /\ dotenv'.secret = dotenv.secret
               /\ dotenv'.key = dotenv.key /\ dotenv'.expiry = dotenv.expiry
               /\ eclipsing' = eclipsing \ {rotation.app}
            \/ /\ rotation.pc = "env secret" /\ rotation'.pc = "env key"
               /\ dotenv'.app = dotenv.app /\ dotenv'.secret = rotation.secret
               /\ dotenv'.key = dotenv.key /\ dotenv'.expiry = dotenv.expiry
            \/ /\ rotation.pc = "env key" /\ rotation'.pc = "env expiry"
               /\ dotenv'.app = dotenv.app /\ dotenv'.secret = dotenv.secret
               /\ dotenv'.key = rotation.key /\ dotenv'.expiry = dotenv.expiry
            \/ /\ rotation.pc = "env expiry" /\ rotation'.pc = "redirect"
               /\ dotenv'.app = dotenv.app /\ dotenv'.secret = dotenv.secret
               /\ dotenv'.key = dotenv.key /\ dotenv'.expiry = rotation.expiry
<1>1. UNCHANGED <<workIqApps, appsMade, issuedBy, liveSecrets, aging, connection>>
  BY DEF Persist, tenant
<1>2. CASE rotation.pc = "env app"
  <2>1. /\ dotenv' = [dotenv EXCEPT !.app = rotation.app] /\ RotationGoes("env secret")
        /\ eclipsing' = eclipsing \ {rotation.app}
    BY <1>2 DEF Persist
  <2>2. dotenv' = [app |-> rotation.app, secret |-> dotenv.secret, key |-> dotenv.key,
                   expiry |-> dotenv.expiry]
    BY <2>1 DEF CredentialShapes, DotenvShape
  <2> QED
    BY <1>1, <1>2, <2>1, <2>2, RotationMoves DEF DotenvShape
<1>3. CASE rotation.pc = "env secret"
  <2>1. /\ dotenv' = [dotenv EXCEPT !.secret = rotation.secret] /\ RotationGoes("env key")
        /\ UNCHANGED eclipsing
    BY <1>3 DEF Persist
  <2>2. dotenv' = [app |-> dotenv.app, secret |-> rotation.secret, key |-> dotenv.key,
                   expiry |-> dotenv.expiry]
    BY <2>1 DEF CredentialShapes, DotenvShape
  <2> QED
    BY <1>1, <1>3, <2>1, <2>2, RotationMoves DEF DotenvShape
<1>4. CASE rotation.pc = "env key"
  <2>1. /\ dotenv' = [dotenv EXCEPT !.key = rotation.key] /\ RotationGoes("env expiry")
        /\ UNCHANGED eclipsing
    BY <1>4 DEF Persist
  <2>2. dotenv' = [app |-> dotenv.app, secret |-> dotenv.secret, key |-> rotation.key,
                   expiry |-> dotenv.expiry]
    BY <2>1 DEF CredentialShapes, DotenvShape
  <2> QED
    BY <1>1, <1>4, <2>1, <2>2, RotationMoves DEF DotenvShape
<1>5. CASE rotation.pc = "env expiry"
  <2>1. /\ dotenv' = [dotenv EXCEPT !.expiry = rotation.expiry] /\ RotationGoes("redirect")
        /\ UNCHANGED eclipsing
    BY <1>5 DEF Persist
  <2>2. dotenv' = [app |-> dotenv.app, secret |-> dotenv.secret, key |-> dotenv.key,
                   expiry |-> rotation.expiry]
    BY <2>1 DEF CredentialShapes, DotenvShape
  <2> QED
    BY <1>1, <1>5, <2>1, <2>2, RotationMoves DEF DotenvShape
<1> QED
  BY <1>2, <1>3, <1>4, <1>5 DEF Persist

LEMMA PersistKeeps ==
  ASSUME CredInv, Persist
  PROVE  CredInv'
<1> USE DEF CredInv
<1>1. /\ UNCHANGED <<workIqApps, appsMade, issuedBy, liveSecrets, aging, connection>>
      /\ DotenvShape(dotenv') /\ RotationShape(rotation')
      /\ rotation'.app = rotation.app
      /\ rotation'.secret = rotation.secret /\ rotation'.key = rotation.key
      /\ rotation'.expiry = rotation.expiry /\ rotation'.rotated = rotation.rotated
  BY EnvWritten
<1>e. eclipsing' \subseteq eclipsing /\ eclipsing \subseteq eclipsing' \cup {rotation.app}
      /\ dotenv'.app \notin eclipsing'
  BY EnvWritten DEF Numbered
<1>2. /\ rotation.app \in 1 .. appsMade /\ rotation.secret = rotation.key
      /\ rotation.secret \in DOMAIN issuedBy /\ issuedBy[rotation.secret] = rotation.app
      /\ Connected(rotation.app, rotation.secret)
  BY EnvWritten DEF Placed, Placing
<1>3. CredentialShapes'
  BY <1>1 DEF CredentialShapes
<1>4. Numbered'
  <2>1. dotenv'.app \in 0 .. appsMade /\ dotenv'.key \in DOMAIN issuedBy \cup {NoSecret}
    <3>1. dotenv'.app \in {dotenv.app, rotation.app} /\ dotenv'.key \in {dotenv.key, rotation.key}
      BY EnvWritten
    <3> QED
      BY <1>2, <3>1 DEF Numbered
  <2> QED
    BY <1>1, <1>e, <2>1 DEF Numbered
<1>5. rotation.app # NoApp /\ rotation.secret # NoSecret
  BY <1>2 DEF NoApp, NoSecret, Numbered
<1>6. Connected(rotation.app, rotation.secret)'
  BY <1>1, <1>2, <1>e DEF Connected
<1>7. CASE ~rotation.rotated
  <2>1. dotenv = [app |-> rotation.app, secret |-> rotation.secret,
                  key |-> rotation.key, expiry |-> rotation.expiry]
    BY <1>7, EnvWritten DEF Placed, Placing
  <2>2. /\ dotenv.app = rotation.app /\ dotenv.secret = rotation.secret
        /\ dotenv.key = rotation.key /\ dotenv.expiry = rotation.expiry
    BY <2>1
  <2>3. /\ dotenv'.app = rotation.app /\ dotenv'.secret = rotation.secret
        /\ dotenv'.key = rotation.key /\ dotenv'.expiry = rotation.expiry
        /\ rotation'.pc \in {"env secret", "env key", "env expiry", "redirect"}
    BY <2>2, EnvWritten
  <2>4. dotenv' = [app |-> rotation'.app, secret |-> rotation'.secret,
                   key |-> rotation'.key, expiry |-> rotation'.expiry]
    BY <1>1, <2>3 DEF DotenvShape
  <2>5. EnvSound'
    BY <1>1, <1>2, <1>5, <1>6, <2>3 DEF EnvSound, Connected
  <2>6. Placed'
    BY <1>1, <1>2, <1>6, <1>7, <2>3, <2>4 DEF Placed, Placing
  <2> QED
    BY <1>3, <1>4, <2>3, <2>5, <2>6 DEF Found, ListedKeys
<1>8. CASE rotation.rotated
  <2>1. CASE rotation.pc = "env app"
    <3>1. /\ rotation'.pc = "env secret"
          /\ dotenv'.app = rotation.app /\ dotenv'.secret = dotenv.secret
          /\ dotenv'.key = dotenv.key /\ dotenv'.expiry = dotenv.expiry
      BY <2>1, EnvWritten
    <3>2. Dead(rotation.app)
      BY <1>8, <2>1 DEF Placed, Placing
    <3>3. Dead(rotation.app)' /\ Dead(dotenv.app)'
      BY <1>1, <3>1, <3>2 DEF Dead
    <3>4. EnvSound'
      BY <1>5, <3>1, <3>3 DEF EnvSound, Unusable
    <3>5. Placed'
      BY <1>1, <1>2, <1>6, <1>8, <3>1, <3>3 DEF Placed, Placing
    <3> QED
      BY <1>3, <1>4, <3>1, <3>4, <3>5 DEF Found, ListedKeys
  <2>2. CASE rotation.pc = "env secret"
    <3>1. /\ rotation'.pc = "env key"
          /\ dotenv'.app = dotenv.app /\ dotenv'.secret = rotation.secret
          /\ dotenv'.key = dotenv.key /\ dotenv'.expiry = dotenv.expiry
      BY <2>2, EnvWritten
    <3>2. Dead(rotation.app) /\ dotenv.app = rotation.app
      BY <1>8, <2>2 DEF Placed, Placing
    <3>3. Dead(rotation.app)' /\ Dead(dotenv.app)'
      BY <1>1, <3>1, <3>2 DEF Dead
    <3>4. EnvSound'
      BY <1>5, <3>1, <3>2, <3>3 DEF EnvSound, Unusable
    <3>5. Placed'
      BY <1>1, <1>2, <1>6, <1>8, <3>1, <3>2, <3>3 DEF Placed, Placing
    <3> QED
      BY <1>3, <1>4, <3>1, <3>4, <3>5 DEF Found, ListedKeys
  <2>3. CASE rotation.pc \in {"env key", "env expiry"}
    <3>1. /\ rotation'.pc \in {"env expiry", "redirect"}
          /\ dotenv'.app = rotation.app /\ dotenv'.secret = rotation.secret
          /\ dotenv'.key = rotation.key
      BY <2>3, EnvWritten DEF Placed, Placing
    <3>2. EnvSound'
      BY <1>1, <1>2, <1>5, <1>6, <3>1 DEF EnvSound, Connected
    <3>3. Placed'
      BY <1>1, <1>2, <1>6, <1>8, <3>1 DEF Placed, Placing
    <3> QED
      BY <1>3, <1>4, <3>1, <3>2, <3>3 DEF Found, ListedKeys
  <2> QED
    BY <2>1, <2>2, <2>3, EnvWritten
<1> QED
  BY <1>7, <1>8

LEMMA CredAlways == WorkIqSpec => []CredInv
<1>1. CredInv /\ [WorkIqNext]_workIqVars => CredInv'
  <2> SUFFICES ASSUME CredInv, [WorkIqNext]_workIqVars PROVE CredInv'
    OBVIOUS
  <2>1. CASE \/ EnsureWorkIqApplication \/ EnsureConsent \/ EnsureSecret \/ PutRotated \/ Persist
    BY <2>1, CredentialApplicationKeeps, EnsureConsentKeeps, EnsureSecretKeeps,
       PutRotatedKeeps, PersistKeeps
  <2>2. CASE EnsureRedirectUri \/ RotationEnds \/ CreateWorkIqToolbox \/ ConnectionGoes
    BY <2>2, RotationEndsKeeps, ToolboxKeeps, ConnectionGoesKeeps
  <2>3. CASE \/ \E app \in 1 .. MaxWorkIqApps : ApplicationListed(app) \/ ApplicationGoes(app)
             \/ \E s \in Secret : SecretAges(s) \/ SecretGoes(s)
    BY <2>3, TenantStepsKeep, Zenon
  <2>4. CASE UNCHANGED workIqVars
    BY <2>4, TenantLoses DEF workIqVars, tenant
  <2> QED
    BY <2>1, <2>2, <2>3, <2>4, Zenon DEF WorkIqNext
<1> QED
  BY <1>1, CredInitially, PTL DEF WorkIqSpec

(* A run of setup_workiq_entra_app that reports success leaves one secret, *)
(* issued for its application, in .env and the connection, wherever        *)
(* earlier runs were broken off and whatever administrators deleted, but   *)
(* for a broken-off run that found the application in .env not listed yet. *)
THEOREM CredentialsMatch == WorkIqSpec => []CredentialsAgree
<1>1. CredInv => CredentialsAgree
  <2> SUFFICES ASSUME CredInv, rotation.pc = "done" PROVE CredentialsAgree
    BY DEF CredentialsAgree
  <2>1. /\ dotenv.app = rotation.app /\ dotenv.secret = rotation.secret
        /\ dotenv.key = rotation.secret
        /\ issuedBy[rotation.secret] = rotation.app
        /\ Connected(rotation.app, rotation.secret)
    BY DEF CredInv, Placed, Placing
  <2>2. \/ connection \in {[app |-> rotation.app, secret |-> rotation.secret],
                           [app |-> NoApp, secret |-> NoSecret]}
        \/ connection.app \in eclipsing \ {rotation.app}
    BY <2>1 DEF CredInv, CredentialShapes, Connected
  <2> QED
    BY <2>1, <2>2 DEF CredentialsAgree
<1> QED
  BY <1>1, CredAlways, PTL

=============================================================================
