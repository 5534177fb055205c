------------------------------ MODULE AgentTurn ------------------------------
(***************************************************************************)
(* One turn of the NOC agent and its bookkeeping with the run ledger: a    *)
(* Teams message (agent.py process_user_message), a Cowork tool call       *)
(* through the orchestrator or straight to one specialist (mcp_server.py   *)
(* _invoke_noc_tool), or the monitor's fixed investigation (agent.py       *)
(* investigate_detected_incident).  Each model call sits in a bracket: ask *)
(* the ledger, call, emit a usage event, report to the ledger.  Requests   *)
(* to the ledger time out, get lost, or are processed after their sender   *)
(* gave up; a watchdog cancels the turn; provider threads outlive it.      *)
(***************************************************************************)
EXTENDS Integers, FiniteSets

CONSTANTS
  Specialist,      \* the persisted specialist agents
  DelegatedAgent,  \* specialists called as the user (fabric_iq, work_iq, rti_iq)
  GraphAgent,      \* specialists the live graph may answer for (fabric_iq)
  Root,            \* the turn's own bracket: orchestrator or synthesis
  MaxConcurrency,  \* specialists an investigation calls at a time
  Startup,         \* sets of specialists the start-up may have confirmed
  TurnKind         \* the kinds of turn to explore

ASSUME AgentAssumption ==
  /\ DelegatedAgent \subseteq Specialist /\ GraphAgent \subseteq Specialist
  /\ Root \notin Specialist /\ MaxConcurrency \in Nat \ {0}
  /\ Startup \subseteq SUBSET Specialist
  /\ TurnKind \subseteq {"teams", "cowork", "direct", "monitor"}

VARIABLES
  available, \* the specialists found once, when the process started
  kind,      \* what started the turn
  identity,  \* a user token was exchanged
  governed,  \* a run token was obtained: the ledger is asked
  turn,      \* the turn: new, running, cancelled by the watchdog, or its outcome
  calls,     \* bracket -> where its code is, what the ledger replied, its result
  ledger,    \* bracket -> its reservation at the ledger
  provider,  \* bracket -> its model call: charged (it answered) or failed
  reports,   \* bracket -> report kind -> whether it was sent and arrived
  events     \* brackets whose usage event was emitted

vars == <<available, kind, identity, governed, turn, calls, ledger, provider, reports, events>>

Bracket == Specialist \cup {Root}
Report == {"usage", "failed"}
Active == {"asking", "calling", "using", "failing"}
Ended == {"answered", "halted", "failed", "timedout", "retry"}
Cowork == kind \in {"cowork", "direct"}

Pc(b) == calls[b].pc
Busy == {s \in Specialist : Pc(s) \in Active}
Raised == {s \in Specialist : calls[s].result = "raised"}

NoCall == [pc |-> "idle", reply |-> "none", result |-> "none"]

Init ==
  /\ available \in Startup
  /\ kind \in TurnKind
  /\ identity \in IF kind = "teams" THEN BOOLEAN ELSE {TRUE}
  /\ governed = FALSE
  /\ turn = "new"
  /\ calls = [b \in Bracket |-> NoCall]
  /\ ledger = [b \in Bracket |-> "none"]
  /\ provider = [b \in Bracket |-> "none"]
  /\ reports = [b \in Bracket |-> [r \in Report |-> "none"]]
  /\ events = {}

-----------------------------------------------------------------------------
(* The bracket around a model call.                                        *)

\* The run token is best effort; the monitor's runs never ask for one.
CreateRun ==
  /\ turn = "new"
  /\ turn' = "running"
  /\ governed' \in IF kind = "monitor" THEN {FALSE} ELSE BOOLEAN
  /\ UNCHANGED <<available, kind, identity, calls, ledger, provider, reports, events>>

\* The exchange of the user's token failed: no turn without it.
NoIdentity ==
  /\ turn = "new" /\ kind # "teams"
  /\ turn' = "failed"
  /\ UNCHANGED <<available, kind, identity, governed, calls, ledger, provider, reports, events>>

Step(b, next) == calls' = [calls EXCEPT ![b] = next]

\* Straight to a specialist, the root bracket has no model call of its own.
CallProvider(b, reply) ==
  /\ Step(b, [pc |-> "calling", reply |-> reply, result |-> "none"])
  /\ provider' = IF b = Root /\ kind = "direct" THEN provider
                 ELSE [provider EXCEPT ![b] = "running"]

Enter(b) ==
  /\ IF governed
     THEN /\ Step(b, [calls[b] EXCEPT !.pc = "asking"])
          /\ ledger' = [ledger EXCEPT ![b] = "asked"]
          /\ UNCHANGED provider
     ELSE CallProvider(b, "none") /\ UNCHANGED ledger
  /\ UNCHANGED <<available, kind, identity, governed, turn, reports, events>>

(* The ledger decides when the request reaches it, which may be after the  *)
(* caller stopped waiting, or never.                                       *)
Precall(b) ==
  /\ ledger[b] = "asked"
  /\ \E d \in {"held", "refused"} : ledger' = [ledger EXCEPT ![b] = d]
  /\ UNCHANGED <<available, kind, identity, governed, turn, calls, provider, reports, events>>

\* Halt and queue raise _RunHaltedError, without a report.
Hear(b) ==
  /\ Pc(b) = "asking"
  /\ \/ ledger[b] = "held" /\ CallProvider(b, "held")
     \/ /\ ledger[b] = "refused"
        /\ Step(b, [pc |-> "done", reply |-> "refused", result |-> "raised"])
        /\ UNCHANGED provider
  /\ UNCHANGED <<available, kind, identity, governed, turn, ledger, reports, events>>

\* Timeout or error of the request: no opinion, the call goes ahead.
Unheard(b) ==
  /\ Pc(b) = "asking"
  /\ CallProvider(b, "lost")
  /\ UNCHANGED <<available, kind, identity, governed, turn, ledger, reports, events>>

(* The provider needs the answers of the tools it called.  A call whose     *)
(* answer is lost on its way back counts as failed here, although it may    *)
(* have been charged: that is RunLedger's ModelFails.                       *)
ProviderEnds(b) ==
  /\ provider[b] = "running"
  /\ b = Root => Busy = {}
  /\ \E e \in {"charged", "failed"} : provider' = [provider EXCEPT ![b] = e]
  /\ UNCHANGED <<available, kind, identity, governed, turn, calls, ledger, reports, events>>

(* _run_ledger_postcall: nothing is sent without a reservation.            *)
Send(b, r, result) ==
  IF calls[b].reply = "held"
  THEN /\ Step(b, [pc |-> IF r = "usage" THEN "using" ELSE "failing",
                   reply |-> "held", result |-> result])
       /\ reports' = [reports EXCEPT ![b][r] = "sent"]
  ELSE /\ Step(b, [pc |-> "done", reply |-> calls[b].reply, result |-> result])
       /\ UNCHANGED reports

(* The model call is over: the specialist's response, the orchestrator's   *)
(* last word, or the directly called specialist's text.                    *)
CallSucceeded(b) ==
  IF b = Root /\ kind = "direct"
  THEN Busy = {} /\ \E s \in Specialist : Pc(s) = "done" /\ calls[s].result # "raised"
  ELSE provider[b] = "charged"

CallFailed(b) ==
  \/ provider[b] = "failed"
  \/ b = Root /\ kind # "monitor" /\ Busy = {} /\ Raised # {}

\* The answer may carry a consent link; the Cowork root emits no event.
Emits(b) == b # Root \/ ~Cowork

\* Mutant of Returns: an answer that asks for consent leaves no event.
ReturnsUncounted(b) ==
  /\ Pc(b) = "calling" /\ CallSucceeded(b)
  /\ \E result \in IF b = Root THEN {"answer"} ELSE {"answer", "consent"} :
       /\ events' = IF Emits(b) /\ result = "answer" THEN events \cup {b} ELSE events
       /\ Send(b, "usage", result)
  /\ UNCHANGED <<available, kind, identity, governed, turn, ledger, provider>>

\* Mutant of Returns: a consent link is reported as a failed call.
ReturnsConsentFailed(b) ==
  /\ Pc(b) = "calling" /\ CallSucceeded(b)
  /\ events' = IF Emits(b) THEN events \cup {b} ELSE events
  /\ \E result \in IF b = Root THEN {"answer"} ELSE {"answer", "consent"} :
       Send(b, IF result = "consent" THEN "failed" ELSE "usage", result)
  /\ UNCHANGED <<available, kind, identity, governed, turn, ledger, provider>>

Returns(b) ==
  /\ Pc(b) = "calling" /\ CallSucceeded(b)
  /\ events' = IF Emits(b) THEN events \cup {b} ELSE events
  /\ \E result \in IF b = Root THEN {"answer"} ELSE {"answer", "consent"} :
       Send(b, "usage", result)
  /\ UNCHANGED <<available, kind, identity, governed, turn, ledger, provider>>

\* Mutant of Fails: a failed specialist degrades without a report.
FailsSilently(b) ==
  /\ Pc(b) = "calling" /\ CallFailed(b)
  /\ \/ b \in Specialist /\ Step(b, [calls[b] EXCEPT !.pc = "done", !.result = "unavailable"])
                         /\ UNCHANGED reports
     \/ b = Root /\ Send(b, "failed", "raised")
  /\ UNCHANGED <<available, kind, identity, governed, turn, ledger, provider, events>>

(* A specialist degrades to a text unless the gateway halted the run; the  *)
(* root's errors are raised.                                               *)
Fails(b) ==
  /\ Pc(b) = "calling" /\ CallFailed(b)
  /\ \E result \in IF b = Root THEN {"raised"} ELSE {"unavailable", "raised"} :
       Send(b, "failed", result)
  /\ UNCHANGED <<available, kind, identity, governed, turn, ledger, provider, events>>

(* A report reaches the ledger, the first one settles the reservation;     *)
(* its sender waits for the reply or for a timeout and ignores both.       *)
Postcall(b, r) ==
  /\ reports[b][r] = "sent"
  /\ reports' = [reports EXCEPT ![b][r] = "arrived"]
  /\ ledger' = [ledger EXCEPT ![b] =
                  IF @ # "held" THEN @ ELSE IF r = "usage" THEN "booked" ELSE "released"]
  /\ UNCHANGED <<available, kind, identity, governed, turn, calls, provider, events>>

LoseReport(b, r) ==
  /\ reports[b][r] = "sent"
  /\ reports' = [reports EXCEPT ![b][r] = "lost"]
  /\ UNCHANGED <<available, kind, identity, governed, turn, calls, ledger, provider, events>>

Reported(b) ==
  /\ Pc(b) \in {"using", "failing"}
  /\ Step(b, [calls[b] EXCEPT !.pc = "done"])
  /\ UNCHANGED <<available, kind, identity, governed, turn, ledger, provider, reports, events>>

-----------------------------------------------------------------------------
(* The turn.                                                               *)

\* Mutant of Complete: a specialist that asks for consent counts as evidence.
CompleteOrConsent == \A s \in Specialist : calls[s].result \in {"answer", "consent"}

Complete == \A s \in Specialist : calls[s].result = "answer"

(* The orchestrator first, or the synthesis once all families completed.   *)
StartRoot ==
  /\ turn = "running" /\ Pc(Root) = "idle"
  /\ kind = "monitor" => Busy = {} /\ Complete
  /\ Enter(Root)

MayStart(s) ==
  /\ turn = "running" /\ Pc(s) = "idle"
  /\ CASE kind = "monitor" -> Cardinality(Busy) < MaxConcurrency
       [] kind = "direct" -> Pc(Root) = "calling" /\ \A o \in Specialist : Pc(o) = "idle"
       [] OTHER -> Pc(Root) = "calling" /\ provider[Root] = "running" /\ s \in available

(* A specialist the start-up did not find raises KeyError, a delegated one *)
(* without the user's token PermissionError.                               *)
StartSpecialist(s) ==
  /\ MayStart(s)
  /\ IF s \notin available \/ (s \in DelegatedAgent /\ ~identity)
     THEN /\ Step(s, [pc |-> "done", reply |-> "none", result |-> "raised"])
          /\ UNCHANGED <<available, kind, identity, governed, turn, ledger, provider, reports, events>>
     ELSE Enter(s)

(* The live graph answers a blast-radius question without a model: a       *)
(* no_llm event, no bracket, and the service's identity.                   *)
AnswerFromGraph(s) ==
  /\ MayStart(s) /\ s \in GraphAgent
  /\ Step(s, [pc |-> "done", reply |-> "none", result |-> "answer"])
  /\ UNCHANGED <<available, kind, identity, governed, turn, ledger, provider, reports, events>>

\* Mutant of AfterCancel: any root cancelled while it reports, reports again.
AfterCancelReporting(b) ==
  IF Pc(b) \notin Active THEN calls[b]
  ELSE IF b = Root /\ (Pc(b) = "using" \/ (Cowork /\ Pc(b) = "calling")) /\ calls[b].reply = "held"
  THEN [pc |-> "failing", reply |-> "held", result |-> "raised"]
  ELSE [calls[b] EXCEPT !.pc = "cut"]

\* Mutant of AfterCancel: waiting for the ledger swallows the cancellation.
AfterCancelAsking(b) ==
  IF Pc(b) \notin Active \/ Pc(b) = "asking" THEN calls[b]
  ELSE [calls[b] EXCEPT !.pc = "cut"]

(* CancelledError passes every `except Exception`; only the Cowork root,   *)
(* once its call has started, reports before it lets go.                   *)
AfterCancel(b) ==
  IF Pc(b) \notin Active THEN calls[b]
  ELSE IF b = Root /\ Cowork /\ Pc(b) \in {"calling", "using"} /\ calls[b].reply = "held"
  THEN [pc |-> "failing", reply |-> "held", result |-> "raised"]
  ELSE [calls[b] EXCEPT !.pc = "cut"]

\* Mutant of Watchdog: a Teams turn waits for its orchestrator.
WatchdogMcpOnly ==
  /\ Cowork /\ turn \in {"new", "running"}
  /\ Pc(Root) # "done"
  /\ turn' = "closing"
  /\ calls' = [b \in Bracket |-> AfterCancel(b)]
  /\ reports' = [b \in Bracket |->
       IF calls'[b].pc = "failing" /\ Pc(b) \in {"calling", "using"}
       THEN [reports[b] EXCEPT !["failed"] = "sent"] ELSE reports[b]]
  /\ UNCHANGED <<available, kind, identity, governed, ledger, provider, events>>

(* The 90 s watchdog of a Teams turn or the 28 s of a Cowork call, which   *)
(* also runs while the run is created.  An idle root never starts.         *)
Watchdog ==
  /\ \/ kind = "teams" /\ turn = "running"
     \/ Cowork /\ turn \in {"new", "running"}
  /\ Pc(Root) # "done"
  /\ turn' = "closing"
  /\ calls' = [b \in Bracket |-> AfterCancel(b)]
  /\ reports' = [b \in Bracket |->
       IF calls'[b].pc = "failing" /\ Pc(b) \in {"calling", "using"}
       THEN [reports[b] EXCEPT !["failed"] = "sent"] ELSE reports[b]]
  /\ UNCHANGED <<available, kind, identity, governed, ledger, provider, events>>

(* The reply to the user or the tool result.  A TimeoutError from the call *)
(* itself is answered like the watchdog's.                                 *)
Outcome ==
  IF turn = "closing" THEN {"timedout"}
  ELSE IF calls[Root].result = "answer" THEN {"answered"}
  ELSE IF calls[Root].reply = "refused" THEN {"halted"}
  ELSE CASE kind = "teams"  -> {"failed", "halted"}
         [] kind = "cowork" -> {"failed", "timedout"}
         [] OTHER           -> {"failed"}

EndTurn ==
  /\ \/ turn = "running" /\ Pc(Root) = "done"
     \/ turn = "closing" /\ Pc(Root) \in {"idle", "done", "cut"}
  /\ turn' \in Outcome
  /\ UNCHANGED <<available, kind, identity, governed, calls, ledger, provider, reports, events>>

\* Some family did not complete: nothing is posted, the monitor tries again.
RetryLater ==
  /\ kind = "monitor" /\ turn = "running"
  /\ \A s \in Specialist : Pc(s) = "done"
  /\ ~Complete
  /\ turn' = "retry"
  /\ UNCHANGED <<available, kind, identity, governed, calls, ledger, provider, reports, events>>

Next ==
  \/ CreateRun \/ NoIdentity \/ StartRoot \/ Watchdog \/ EndTurn \/ RetryLater
  \/ \E s \in Specialist : StartSpecialist(s) \/ AnswerFromGraph(s)
  \/ \E b \in Bracket : \/ Precall(b) \/ Hear(b) \/ Unheard(b) \/ ProviderEnds(b)
                        \/ Returns(b) \/ Fails(b) \/ Reported(b)
  \/ \E b \in Bracket, r \in Report : Postcall(b, r) \/ LoseReport(b, r)

(* The event loop runs what is ready, timers fire, ledger requests carry a *)
(* timeout.  A provider may hang, except for the monitor's specialists,    *)
(* whose calls carry the deadline of the investigation; the synthesis runs *)
(* after that deadline was reset, without one.                             *)
Fairness ==
  /\ WF_vars(StartRoot) /\ WF_vars(Watchdog) /\ WF_vars(EndTurn) /\ WF_vars(RetryLater)
  /\ \A b \in Bracket : /\ WF_vars(Hear(b) \/ Unheard(b)) /\ WF_vars(Reported(b))
                        /\ WF_vars(Returns(b) \/ Fails(b))
                        /\ WF_vars(kind = "monitor" /\ b # Root /\ ProviderEnds(b))
  /\ \A s \in Specialist : WF_vars(kind = "monitor" /\ StartSpecialist(s))

Spec == Init /\ [][Next]_vars /\ Fairness

-----------------------------------------------------------------------------
(* Properties.                                                             *)

(* The variables stay in their types, a reservation exists only in a       *)
(* governed turn, and no report is sent for a bracket that holds none.     *)
TypeOK ==
  /\ kind \in TurnKind /\ governed \in BOOLEAN /\ events \subseteq Bracket
  /\ turn \in {"new", "running", "closing"} \cup Ended
  /\ calls \in [Bracket -> [pc : {"idle", "done", "cut"} \cup Active,
                            reply : {"none", "held", "refused", "lost"},
                            result : {"none", "answer", "consent", "unavailable", "raised"}]]
  /\ ledger \in [Bracket -> {"none", "asked", "held", "refused", "booked", "released"}]
  /\ provider \in [Bracket -> {"none", "running", "charged", "failed"}]
  /\ reports \in [Bracket -> [Report -> {"none", "sent", "arrived", "lost"}]]
  /\ \A b \in Bracket :
       /\ ledger[b] # "none" => governed
       /\ (\E r \in Report : reports[b][r] # "none") => ledger[b] \in {"held", "booked", "released"}

(* A reservation that stays open at the ledger has one of three reasons:   *)
(* its decision never reached the caller, the report was lost, or the      *)
(* bracket was cancelled (and is not a Cowork root that had begun its      *)
(* call, which reports even then).  Error paths and consent leak nothing.  *)
LeaksExplained ==
  \A b \in Bracket :
    /\ ledger[b] = "held" /\ Pc(b) \in {"done", "cut"}
    /\ \A r \in Report : reports[b][r] # "sent"
    => \/ calls[b].reply # "held"
       \/ \E r \in Report : reports[b][r] = "lost"
       \/ Pc(b) = "cut" /\ ~(b = Root /\ Cowork)

(* Only a Cowork root cancelled while it reports its usage reports twice,  *)
(* so Teams turns and specialists never meet the ledger's double-report    *)
(* race.                                                                   *)
SecondReportExplained ==
  \A b \in Bracket :
    (\A r \in Report : reports[b][r] # "none") =>
      b = Root /\ Cowork /\ turn \in {"closing", "timedout"}

(* What the ledger books was charged by the provider, or stands for a      *)
(* Cowork call that went straight to a specialist; what it releases was    *)
(* not charged, unless the bracket is a root whose tools raised or whose   *)
(* turn was cancelled.                                                     *)
BooksMatchCharges ==
  \A b \in Bracket :
    /\ ledger[b] = "booked" => provider[b] = "charged" \/ (b = Root /\ kind = "direct")
    /\ ledger[b] = "released" /\ provider[b] = "charged" =>
         b = Root /\ (Raised # {} \/ (Cowork /\ turn \in {"closing", "timedout"}))

(* Every charge is visible in the usage events the budgets are computed    *)
(* from, once its bracket has moved on, except the Cowork root's and those *)
(* of brackets that were cancelled or whose tools raised.                  *)
ChargesAreVisible ==
  \A b \in Bracket :
    provider[b] = "charged" /\ Pc(b) \notin {"calling", "cut"} =>
      \/ b \in events
      \/ b = Root /\ (Cowork \/ Raised # {})

(* The monitor's result is posted only if every family produced evidence,  *)
(* from a model call that was charged or from the live graph.              *)
PostsAreComplete ==
  kind = "monitor" /\ turn = "answered" =>
    \A s \in Specialist : /\ calls[s].result = "answer"
                          /\ provider[s] = "charged" \/ s \in GraphAgent

StartsNothing ==
  \A b \in Bracket : /\ provider[b] = "none" => provider'[b] = "none"
                     /\ b \notin events => b \notin events'

(* A cancelled turn starts no further model call and emits no event, even  *)
(* if the ledger's reply or the provider's answer arrives late.            *)
QuietAfterCancel == [][(turn \in {"closing", "timedout"}) => StartsNothing]_vars

\* The one call nothing bounds: the monitor's synthesis.
AwaitsSynthesis == kind = "monitor" /\ provider[Root] = "running"

(* A turn that runs gets its reply although providers may hang, unless it  *)
(* is the monitor's and its synthesis never returns.                       *)
TurnsEnd == []<>~AwaitsSynthesis => (turn = "running" ~> turn \in Ended)
=============================================================================
