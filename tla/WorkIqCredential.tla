-------------------------- MODULE WorkIqCredential --------------------------
(***************************************************************************)
(* The OAuth credential of Work IQ, held in three places: the Entra        *)
(* application (which secrets are live), Foundry's WorkIQ connection       *)
(* (which one it presents; reading it back is refused) and .env (which one *)
(* the operator has).  setup_workiq_entra_app.py rotates it,               *)
(* create_workiq_toolbox.py puts what .env holds into the connection.      *)
(* Graph lists a new application only after a while.  Secrets age, and     *)
(* administrators delete applications and secrets in the portal.  Either   *)
(* script may end at any call and be run again.                            *)
(***************************************************************************)
EXTENDS Naturals, FiniteSets

CONSTANTS
  MaxSecrets,   \* bound: secrets ever issued
  MaxWorkIqApps \* bound: applications ever made

ASSUME WorkIqAssumption == MaxSecrets \in Nat /\ MaxWorkIqApps \in Nat

NoSecret == 0
NoApp == 0
Secret == 1 .. MaxSecrets

VARIABLES
  workIqApps,   \* applications called noc-agent-workiq, by the order they were made
  delayed,      \* those of them that queries do not return yet
  appsMade,     \* how many were ever made
  issuedBy,     \* issuedBy[s]: the application secret s was issued for
  liveSecrets,  \* passwordCredentials, of all applications
  aging,        \* secrets with 30 days or less left
  dotenv,       \* .env: [app, secret, key, expiry], the last three named by secret
  connection,   \* Foundry's WorkIQ: [app, secret]; NoApp: there is none
  rotation,     \* setup_workiq_entra_app: [pc, app, secret, key, expiry, rotated, listed]
  eclipsing     \* history: applications made while the one in .env was not listed
                \*   yet, until .env names them

tenant == <<workIqApps, delayed, appsMade, issuedBy, liveSecrets, aging>>
workIqVars == <<tenant, dotenv, connection, rotation, eclipsing>>

RotationOf(app, pc) ==
  [pc |-> pc, app |-> app, secret |-> NoSecret, key |-> NoSecret, expiry |-> NoSecret,
   rotated |-> FALSE, listed |-> {}]

WorkIqInit ==
  /\ workIqApps = {} /\ delayed = {} /\ appsMade = 0
  /\ issuedBy = [s \in {} |-> NoApp]
  /\ liveSecrets = {} /\ aging = {}
  /\ dotenv = [app |-> NoApp, secret |-> NoSecret, key |-> NoSecret, expiry |-> NoSecret]
  /\ connection = [app |-> NoApp, secret |-> NoSecret]
  /\ rotation = RotationOf(NoApp, "idle")
  /\ eclipsing = {}

Idle == rotation.pc \in {"idle", "done", "failed"}
RotationGoes(pc) == rotation' = [rotation EXCEPT !.pc = pc]

-----------------------------------------------------------------------------
(* setup_workiq_entra_app.py                                               *)

(* By the application id in .env, or by name if .env has none.  Two listed *)
(* ones of that name end the run; none listed makes a new one, also when   *)
(* the one in .env is there but not listed yet.                            *)
EnsureWorkIqApplication ==
  /\ Idle
  /\ LET listed == workIqApps \ delayed
         found == IF dotenv.app # NoApp THEN listed \cap {dotenv.app} ELSE listed
     IN \/ /\ Cardinality(found) = 1
           /\ \E app \in found : rotation' = RotationOf(app, "access")
           /\ UNCHANGED <<workIqApps, delayed, appsMade, eclipsing>>
        \/ /\ found = {} /\ appsMade < MaxWorkIqApps
           /\ appsMade' = appsMade + 1
           /\ workIqApps' = workIqApps \cup {appsMade'} /\ delayed' = delayed \cup {appsMade'}
           /\ eclipsing' = eclipsing \cup IF dotenv.app \in delayed THEN {appsMade'} ELSE {}
           /\ rotation' = RotationOf(appsMade', "access")
        \/ /\ Cardinality(found) > 1
           /\ RotationGoes("failed")
           /\ UNCHANGED <<workIqApps, delayed, appsMade, eclipsing>>
  /\ UNCHANGED <<issuedBy, liveSecrets, aging, dotenv, connection>>

(* The permission is patched and the application read again, with the list *)
(* of its secrets (one not listed yet has none: this run just made it);    *)
(* service principal and consent are made if missing.                      *)
EnsureConsent ==
  /\ rotation.pc = "access" /\ rotation.app \in workIqApps
  /\ rotation' = [rotation EXCEPT !.pc = "secret",
                    !.listed = {s \in liveSecrets : issuedBy[s] = rotation.app}]
  /\ UNCHANGED <<tenant, dotenv, connection, eclipsing>>

KeepsSecret ==
  /\ dotenv.secret # NoSecret
  /\ dotenv.app = rotation.app
  /\ dotenv.key \in rotation.listed
  /\ dotenv.expiry # NoSecret /\ dotenv.expiry \notin aging

\* The secret in .env if it is this application's, live and not aging; else a new one.
EnsureSecret ==
  /\ rotation.pc = "secret"
  /\ \/ /\ KeepsSecret
        /\ rotation' = [rotation EXCEPT !.pc = "put", !.secret = dotenv.secret,
                                         !.key = dotenv.key, !.expiry = dotenv.expiry]
        /\ UNCHANGED <<issuedBy, liveSecrets>>
     \/ /\ ~KeepsSecret /\ rotation.app \in workIqApps
        /\ LET s == Cardinality(DOMAIN issuedBy) + 1
           IN /\ s \in Secret
              /\ issuedBy' = [k \in DOMAIN issuedBy \cup {s} |->
                                IF k = s THEN rotation.app ELSE issuedBy[k]]
              /\ liveSecrets' = liveSecrets \cup {s}
              /\ rotation' = [rotation EXCEPT !.pc = "put", !.secret = s, !.key = s,
                                               !.expiry = s, !.rotated = TRUE]
  /\ UNCHANGED <<workIqApps, delayed, appsMade, aging, dotenv, connection, eclipsing>>

(* put_workiq_connection: a connection that is there is left alone unless  *)
(* the update is forced, since its secret cannot be compared.              *)
PutWorkIqConnection(app, secret, forced) ==
  connection' = IF connection.app # NoApp /\ ~forced THEN connection
                ELSE [app |-> app, secret |-> secret]

\* Mutant of PutRotated: .env is written before the connection.
PutRotatedLast ==
  \/ /\ rotation.pc = "put"
     /\ dotenv' = [app |-> rotation.app, secret |-> rotation.secret,
                   key |-> rotation.key, expiry |-> rotation.expiry]
     /\ RotationGoes("put last")
     /\ eclipsing' = eclipsing \ {rotation.app}
     /\ UNCHANGED <<tenant, connection>>
  \/ /\ rotation.pc = "put last"
     /\ PutWorkIqConnection(rotation.app, rotation.secret, rotation.rotated)
     /\ RotationGoes("redirect")
     /\ UNCHANGED <<tenant, dotenv, eclipsing>>

PutRotated ==
  /\ rotation.pc = "put"
  /\ PutWorkIqConnection(rotation.app, rotation.secret, rotation.rotated)
  /\ RotationGoes("env app")
  /\ UNCHANGED <<tenant, dotenv, eclipsing>>

\* Four set_key calls, each a write of the file.
Persist ==
  /\ \/ /\ rotation.pc = "env app"
        /\ dotenv' = [dotenv EXCEPT !.app = rotation.app] /\ RotationGoes("env secret")
        /\ eclipsing' = eclipsing \ {rotation.app}
     \/ /\ \/ /\ rotation.pc = "env secret"
              /\ dotenv' = [dotenv EXCEPT !.secret = rotation.secret] /\ RotationGoes("env key")
           \/ /\ rotation.pc = "env key"
              /\ dotenv' = [dotenv EXCEPT !.key = rotation.key] /\ RotationGoes("env expiry")
           \/ /\ rotation.pc = "env expiry"
              /\ dotenv' = [dotenv EXCEPT !.expiry = rotation.expiry] /\ RotationGoes("redirect")
        /\ UNCHANGED eclipsing
  /\ UNCHANGED <<tenant, connection>>

(* The connection's redirect URI, where Foundry returned one, is added to  *)
(* the application's.                                                      *)
EnsureRedirectUri ==
  /\ rotation.pc = "redirect"
  /\ RotationGoes("done")
  /\ UNCHANGED <<tenant, dotenv, connection, eclipsing>>

RotationEnds ==
  /\ ~Idle
  /\ RotationGoes("failed")
  /\ UNCHANGED <<tenant, dotenv, connection, eclipsing>>

-----------------------------------------------------------------------------
(* create_workiq_toolbox.py and the world.                                 *)

\* Run on its own, or last by refresh_iq_connections: always forced.
CreateWorkIqToolbox ==
  /\ Idle /\ dotenv.app # NoApp /\ dotenv.secret # NoSecret
  /\ PutWorkIqConnection(dotenv.app, dotenv.secret, TRUE)
  /\ RotationGoes("idle")
  /\ UNCHANGED <<tenant, dotenv, eclipsing>>

ApplicationListed(app) ==
  /\ app \in delayed
  /\ delayed' = delayed \ {app}
  /\ UNCHANGED <<workIqApps, appsMade, issuedBy, liveSecrets, aging,
                 dotenv, connection, rotation, eclipsing>>

SecretAges(s) ==
  /\ s \in liveSecrets \ aging
  /\ aging' = aging \cup {s}
  /\ UNCHANGED <<workIqApps, delayed, appsMade, issuedBy, liveSecrets,
                 dotenv, connection, rotation, eclipsing>>

SecretGoes(s) ==
  /\ s \in liveSecrets
  /\ liveSecrets' = liveSecrets \ {s}
  /\ UNCHANGED <<workIqApps, delayed, appsMade, issuedBy, aging,
                 dotenv, connection, rotation, eclipsing>>

ApplicationGoes(app) ==
  /\ app \in workIqApps
  /\ workIqApps' = workIqApps \ {app} /\ delayed' = delayed \ {app}
  /\ liveSecrets' = {s \in liveSecrets : issuedBy[s] # app}
  /\ UNCHANGED <<appsMade, issuedBy, aging, dotenv, connection, rotation, eclipsing>>

\* A fresh Foundry project has no connection.
ConnectionGoes ==
  /\ connection.app # NoApp
  /\ connection' = [app |-> NoApp, secret |-> NoSecret]
  /\ UNCHANGED <<tenant, dotenv, rotation, eclipsing>>

WorkIqNext ==
  \/ EnsureWorkIqApplication \/ EnsureConsent \/ EnsureSecret \/ PutRotated \/ Persist
  \/ EnsureRedirectUri \/ RotationEnds \/ CreateWorkIqToolbox
  \/ ConnectionGoes
  \/ \E app \in 1 .. MaxWorkIqApps : ApplicationListed(app) \/ ApplicationGoes(app)
  \/ \E s \in Secret : SecretAges(s) \/ SecretGoes(s)

WorkIqSpec == WorkIqInit /\ [][WorkIqNext]_workIqVars

-----------------------------------------------------------------------------
(* Properties.                                                             *)

(* Whatever runs were broken off before, also between two keys of .env: a  *)
(* run that reports success leaves the application, the connection and     *)
(* .env with one and the same secret, issued for this application.  Unless *)
(* the connection was deleted meanwhile, or it presents an application     *)
(* that an earlier run made because the one in .env was not listed yet,    *)
(* that run being broken off before .env named the new one: the secret in  *)
(* .env is then still found good, so the connection is left alone.         *)
CredentialsAgree ==
  rotation.pc = "done" =>
    /\ dotenv.app = rotation.app /\ dotenv.secret = rotation.secret
    /\ dotenv.key = rotation.secret
    /\ issuedBy[rotation.secret] = rotation.app
    /\ \/ connection \in {[app |-> rotation.app, secret |-> rotation.secret],
                          [app |-> NoApp, secret |-> NoSecret]}
       \/ connection.app \in eclipsing \ {rotation.app}
=============================================================================
