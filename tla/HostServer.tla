----------------------------- MODULE HostServer -----------------------------
(***************************************************************************)
(* The agent's web host (host_agent_server.py): start-up in a background   *)
(* task while the port is already open, shutdown at any moment of it, and  *)
(* the proactive request that mails the stakeholder personas one after     *)
(* another (notify_incident, agent.py broadcast_incident_update,           *)
(* notifications.py broadcast).                                            *)
(***************************************************************************)
EXTENDS Naturals, Sequences

CONSTANTS
  Persona,        \* the four audiences
  Unconfigured,   \* personas without a recipient
  Misspelt,       \* a persona name PERSONAS does not know
  MaxPersonas     \* the longest list of personas a caller sends

ASSUME HostAssumption ==
  /\ Unconfigured \subseteq Persona /\ Misspelt \notin Persona
  /\ MaxPersonas \in Nat

VARIABLES
  monitoring,   \* monitor_config.enabled
  starting,     \* the initialization task
  agent,        \* agent_instance: none, made (not initialized), initialized, closed
  monitor,      \* incident_monitor: none, made, running, ended, stopped
  blobs,        \* the blob repository: open, closed
  stopping,     \* cleanup: how far it got
  notify,       \* the request: [pc, personas, sent, results, answer]
  mailed        \* personas whose mail Graph accepted

hostVars == <<monitoring, starting, agent, monitor, blobs, stopping, notify, mailed>>

HostInit ==
  /\ monitoring \in BOOLEAN
  /\ starting = "storage"
  /\ agent = "none" /\ monitor = "none" /\ blobs = "open"
  /\ stopping = "no"
  /\ notify = [pc |-> "idle", personas |-> <<>>, sent |-> 0,
                results |-> [p \in {} |-> FALSE], answer |-> "none"]
  /\ mailed = {}

-----------------------------------------------------------------------------
(* Start-up: initialize_agent up to its next await; a failure is kept for  *)
(* the 503 reply and never tried again.                                    *)

Failed == starting' = "failed" /\ UNCHANGED <<monitoring, blobs, stopping, notify, mailed>>

\* NocAgent.initialize has no await in it; it may raise.
StorageInitialized ==
  /\ starting = "storage"
  /\ \/ /\ agent' = "initialized"
        /\ IF monitoring THEN starting' = "monitor" /\ monitor' = "made"
                         ELSE starting' = "ready" /\ UNCHANGED monitor
        /\ UNCHANGED <<monitoring, blobs, stopping, notify, mailed>>
     \/ agent' = "made" /\ UNCHANGED monitor /\ Failed

MonitorStarted ==
  /\ starting = "monitor"
  /\ starting' = "ready" /\ monitor' = "running"
  /\ UNCHANGED <<monitoring, agent, blobs, stopping, notify, mailed>>

StartFails == starting \in {"storage", "monitor"} /\ Failed /\ UNCHANGED <<agent, monitor>>

\* A failing call ends the monitor's task for good: run() logs it.
MonitorEnds ==
  /\ monitor = "running"
  /\ monitor' = "ended"
  /\ UNCHANGED <<monitoring, starting, agent, blobs, stopping, notify, mailed>>

-----------------------------------------------------------------------------
(* cleanup: cancel the start-up, stop the monitor, close agent and blobs.  *)

\* Mutant of CancelStart: the start-up is left to finish by itself.
CancelStartNot ==
  /\ stopping = "no"
  /\ stopping' = "monitor"
  /\ UNCHANGED <<monitoring, starting, agent, monitor, blobs, notify, mailed>>

CancelStart ==
  /\ stopping = "no"
  /\ stopping' = "monitor"
  /\ starting' = IF starting \in {"storage", "monitor"} THEN "cancelled" ELSE starting
  /\ UNCHANGED <<monitoring, agent, monitor, blobs, notify, mailed>>

(* stop() cancels the task, awaits it and closes what it used: an error of *)
(* that closing is caught nowhere and breaks the cleanup off.              *)
StopMonitor ==
  /\ stopping = "monitor"
  /\ \/ stopping' = "agent"
     \/ stopping' = "broken" /\ monitor # "none"
  /\ monitor' = IF monitor = "none" THEN monitor ELSE "stopped"
  /\ UNCHANGED <<monitoring, starting, agent, blobs, notify, mailed>>

\* The agent's own cleanup has no await and its errors are swallowed.
CloseAgent ==
  /\ stopping = "agent"
  /\ stopping' = "done"
  /\ agent' = IF agent = "none" THEN agent ELSE "closed"
  /\ blobs' = "closed"
  /\ UNCHANGED <<monitoring, starting, monitor, notify, mailed>>

-----------------------------------------------------------------------------
(* Requests.                                                               *)

Answer(code) == notify' = [notify EXCEPT !.pc = "done", !.answer = code]

(* The conversation is resumed and the user's token exchanged, or not; the *)
(* personas are mailed in the order of the caller's list, which may name   *)
(* one more than once.                                                     *)
NotifyIncident ==
  /\ notify.pc = "idle"
  /\ IF agent = "none" THEN Answer("501")
     ELSE \/ \E n \in 1 .. MaxPersonas :
               \E personas \in [1 .. n -> Persona \cup {Misspelt}] :
                 notify' = [notify EXCEPT !.pc = "mailing", !.personas = personas]
          \/ Answer("404 conversation")
          \/ Answer("200")
  /\ UNCHANGED <<monitoring, starting, agent, monitor, blobs, stopping, mailed>>

\* The mail of the list's next persona; a second one's result replaces the first.
Current == notify.personas[notify.sent + 1]

Sending == notify.pc = "mailing" /\ notify.sent < Len(notify.personas)

Result(ok) ==
  notify' = [notify EXCEPT !.sent = @ + 1,
               !.results = [q \in DOMAIN @ \cup {Current} |->
                              IF q = Current THEN ok ELSE @[q]]]

\* Mutant of SendPersonaEmail: a persona without recipients counts as sent.
SendPersonaEmailSkipping ==
  /\ Sending
  /\ \/ Current = Misspelt /\ Answer("404 persona") /\ UNCHANGED mailed
     \/ Current \in Unconfigured /\ Result(TRUE) /\ UNCHANGED mailed
     \/ Current \in Persona \ Unconfigured /\ Result(TRUE) /\ mailed' = mailed \cup {Current}
  /\ UNCHANGED <<monitoring, starting, agent, monitor, blobs, stopping>>

(* One mail: skipped, accepted, refused, or a transport error that ends    *)
(* the request, whether or not Graph took the mail.  An unknown persona    *)
(* raises the KeyError the host takes for an unknown conversation.         *)
SendPersonaEmail ==
  /\ Sending
  /\ \/ Current = Misspelt /\ Answer("404 persona") /\ UNCHANGED mailed
     \/ Current \in Unconfigured /\ Result(FALSE) /\ UNCHANGED mailed
     \/ /\ Current \in Persona \ Unconfigured
        /\ \/ Result(TRUE) /\ mailed' = mailed \cup {Current}
           \/ Result(FALSE) /\ UNCHANGED mailed
           \/ Answer("500") /\ mailed' \in {mailed, mailed \cup {Current}}
  /\ UNCHANGED <<monitoring, starting, agent, monitor, blobs, stopping>>

AllMailed ==
  /\ notify.pc = "mailing" /\ notify.sent = Len(notify.personas)
  /\ Answer("200")
  /\ UNCHANGED <<monitoring, starting, agent, monitor, blobs, stopping, mailed>>

HostNext ==
  \/ StorageInitialized \/ MonitorStarted \/ StartFails \/ MonitorEnds
  \/ CancelStart \/ StopMonitor \/ CloseAgent
  \/ NotifyIncident \/ SendPersonaEmail \/ AllMailed

HostSpec == HostInit /\ [][HostNext]_hostVars

-----------------------------------------------------------------------------
(* Properties.                                                             *)

(* Wherever in the start-up a shutdown comes, once the cleanup is over or  *)
(* broken off neither start-up nor monitor runs or can be started again;   *)
(* unless it was broken off, agent and storage are closed.                 *)
ShutdownIsComplete ==
  /\ stopping \in {"done", "broken"} =>
       starting \notin {"storage", "monitor"} /\ monitor \notin {"made", "running"}
  /\ stopping = "done" => agent \in {"none", "closed"} /\ blobs = "closed"

\* The caller's list names the persona more than once.
Repeated(p) ==
  \E i, j \in 1 .. Len(notify.personas) :
    i # j /\ notify.personas[i] = p /\ notify.personas[j] = p

(* A request answered 200 reports no mail that Graph did not accept, and   *)
(* every mail it accepted, except that of a persona the list named again   *)
(* and whose later mail was refused.  One answered 501, or 404 for its     *)
(* conversation, sent none.  A 500, or the 404 of a misspelt persona, may  *)
(* follow mails that no answer reports.                                    *)
AnswersMatchMail ==
  /\ notify.answer = "200" =>
       /\ \A p \in DOMAIN notify.results : notify.results[p] => p \in mailed
       /\ \A p \in mailed : p \in DOMAIN notify.results /\ (notify.results[p] \/ Repeated(p))
  /\ notify.answer \in {"501", "404 conversation"} => mailed = {}
=============================================================================
