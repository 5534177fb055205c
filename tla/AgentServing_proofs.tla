------------------------- MODULE AgentServing_proofs -------------------------
(***************************************************************************)
(* Proofs about the agent process, for any users, specialists, personas    *)
(* and kinds of turn.  The host: a shutdown is complete at whatever moment *)
(* it comes, and answers match the mails.  The memory turns share: a       *)
(* thread answers what it was asked, and no turn runs on a token that ends *)
(* too soon.  A turn: what stays open at the ledger, what it books and     *)
(* releases, which charges the usage events show, when the monitor's       *)
(* result is posted, and that a cancelled turn starts nothing.             *)
(***************************************************************************)
EXTENDS AgentTurn, Conversations, HostServer, TLAPS

-----------------------------------------------------------------------------
(* The host, HostServer.                                                   *)

(* Once the cleanup has cancelled the start-up, nothing starts any more.   *)
StoppedSo ==
  /\ stopping \in {"no", "monitor", "agent", "done", "broken"}
  /\ stopping # "no" => starting \notin {"storage", "monitor"}
  /\ stopping \in {"agent", "done", "broken"} => monitor \in {"none", "stopped"}
  /\ stopping = "done" => agent \in {"none", "closed"} /\ blobs = "closed"

(* While the request mails, every result is that of a persona whose turn   *)
(* in the list has come, a mail reported accepted was, and one accepted    *)
(* has a result, which is a refusal only if the list names it once more.   *)
MailedSo ==
  /\ \A p \in DOMAIN notify.results :
       /\ \E i \in 1 .. notify.sent : notify.personas[i] = p
       /\ notify.results[p] => p \in mailed
  /\ \A p \in mailed : p \in DOMAIN notify.results /\ (notify.results[p] \/ Repeated(p))

Mailing ==
  /\ notify = [pc |-> notify.pc, personas |-> notify.personas, sent |-> notify.sent,
               results |-> notify.results, answer |-> notify.answer]
  /\ notify.personas \in Seq(Persona \cup {Misspelt}) /\ notify.sent \in Nat
  /\ notify.pc \in {"idle", "mailing"} =>
       notify.answer = "none" /\ notify.sent <= Len(notify.personas) /\ MailedSo
  /\ notify.pc = "idle" => mailed = {} /\ notify.sent = 0 /\ DOMAIN notify.results = {}

HostInv == StoppedSo /\ Mailing /\ AnswersMatchMail

LEMMA HostInitially == HostInit => HostInv
<1> SUFFICES ASSUME HostInit PROVE HostInv
  OBVIOUS
<1>1. StoppedSo
  BY DEF HostInit, StoppedSo
<1>2. notify.results = [p \in {} |-> FALSE] /\ notify.answer = "none" /\ mailed = {}
  BY DEF HostInit
<1>3. DOMAIN notify.results = {}
  BY <1>2
<1>4. Mailing
  BY <1>2, <1>3 DEF HostInit, Mailing, MailedSo
<1>5. AnswersMatchMail
  BY <1>2 DEF AnswersMatchMail
<1> QED
  BY <1>1, <1>4, <1>5 DEF HostInv

(* What leaves the request alone keeps what is known of it.                *)
LEMMA MailsUntouched ==
  ASSUME HostInv, UNCHANGED <<notify, mailed>>
  PROVE  Mailing' /\ AnswersMatchMail'
<1>1. MailedSo' <=> MailedSo
  BY DEF MailedSo, Repeated
<1>2. \A q : Repeated(q)' <=> Repeated(q)
  BY DEF Repeated
<1>3. Mailing'
  BY <1>1 DEF HostInv, Mailing
<1>4. AnswersMatchMail'
  BY <1>2 DEF HostInv, AnswersMatchMail
<1> QED
  BY <1>3, <1>4

(* Start-up, the end of the monitor and the cleanup.                       *)
LEMMA StartAndStopKeep ==
  ASSUME HostInv,
         \/ StorageInitialized \/ MonitorStarted \/ StartFails \/ MonitorEnds
         \/ CancelStart \/ StopMonitor \/ CloseAgent
  PROVE  HostInv'
<1>1. UNCHANGED <<notify, mailed>>
  BY DEF StorageInitialized, MonitorStarted, StartFails, MonitorEnds,
     CancelStart, StopMonitor, CloseAgent, Failed
<1>2. Mailing' /\ AnswersMatchMail'
  BY <1>1, MailsUntouched
<1>3. StoppedSo'
  <2> USE DEF HostInv, StoppedSo
  <2>1. CASE StorageInitialized
    BY <2>1 DEF StorageInitialized, Failed
  <2>2. CASE MonitorStarted
    BY <2>2 DEF MonitorStarted
  <2>3. CASE StartFails
    BY <2>3 DEF StartFails, Failed
  <2>4. CASE MonitorEnds
    BY <2>4 DEF MonitorEnds
  <2>5. CASE CancelStart
    BY <2>5 DEF CancelStart
  <2>6. CASE StopMonitor
    BY <2>6 DEF StopMonitor
  <2>7. CASE CloseAgent
    BY <2>7 DEF CloseAgent
  <2> QED
    BY <2>1, <2>2, <2>3, <2>4, <2>5, <2>6, <2>7
<1> QED
  BY <1>2, <1>3 DEF HostInv

(* An answer ends the request and leaves list and results.                 *)
LEMMA AnswerGiven ==
  ASSUME Mailing, NEW code, Answer(code)
  PROVE  /\ notify'.pc = "done" /\ notify'.answer = code
         /\ notify'.personas = notify.personas /\ notify'.sent = notify.sent
         /\ notify'.results = notify.results
         /\ Mailing'
<1>1. notify' = [pc |-> "done", personas |-> notify.personas, sent |-> notify.sent,
                 results |-> notify.results, answer |-> code]
  BY DEF Mailing, Answer
<1> QED
  BY <1>1 DEF Mailing

(* The persona whose turn it is has a result only if the list named it     *)
(* before, so that a second result may be a refusal only if it repeats.    *)
LEMMA ResultNoted ==
  ASSUME Mailing, Sending, NEW ok \in BOOLEAN, Result(ok),
         mailed' = IF ok THEN mailed \cup {Current} ELSE mailed
  PROVE  Mailing' /\ notify'.answer = "none"
<1> DEFINE p == Current
           k == notify.sent + 1
           R == [q \in DOMAIN notify.results \cup {p} |->
                   IF q = p THEN ok ELSE notify.results[q]]
<1>1. notify' = [pc |-> notify.pc, personas |-> notify.personas, sent |-> k, results |-> R,
                 answer |-> notify.answer]
  <2> DEFINE y == [notify EXCEPT !.sent = @ + 1]
  <2>1. notify' = [y EXCEPT !.results = R]
    BY DEF Result
  <2>2. y = [pc |-> notify.pc, personas |-> notify.personas, sent |-> k,
             results |-> notify.results, answer |-> notify.answer]
    BY DEF Mailing
  <2> HIDE DEF y, R, k
  <2> QED
    BY <2>1, <2>2
<1>2. /\ notify.pc = "mailing" /\ notify.answer = "none" /\ MailedSo
      /\ notify.sent \in Nat /\ notify.sent < Len(notify.personas)
      /\ notify.personas \in Seq(Persona \cup {Misspelt})
  BY DEF Sending, Mailing
<1>3. /\ k \in Nat /\ k \in 1 .. Len(notify.personas) /\ k \in 1 .. k
      /\ 1 .. notify.sent \subseteq 1 .. k /\ k \notin 1 .. notify.sent
      /\ 1 .. notify.sent \subseteq 1 .. Len(notify.personas)
      /\ notify.personas[k] = p /\ k <= Len(notify.personas)
  BY <1>2 DEF Current
<1>4. /\ DOMAIN R = DOMAIN notify.results \cup {p} /\ R[p] = ok
      /\ \A q \in DOMAIN notify.results : q # p => R[q] = notify.results[q]
  OBVIOUS
<1> HIDE DEF k, p, R
<1>5. /\ notify'.personas = notify.personas /\ notify'.sent = k /\ notify'.results = R
      /\ notify'.pc = "mailing" /\ notify'.answer = "none"
      /\ notify' = [pc |-> notify'.pc, personas |-> notify'.personas, sent |-> notify'.sent,
                    results |-> notify'.results, answer |-> notify'.answer]
  BY <1>1, <1>2
<1>6. \A q : Repeated(q)' <=> Repeated(q)
  BY <1>5 DEF Repeated
<1>7. \A q \in DOMAIN R : (\E i \in 1 .. k : notify.personas[i] = q) /\ (R[q] => q \in mailed')
  <2> SUFFICES ASSUME NEW q \in DOMAIN R
               PROVE  (\E i \in 1 .. k : notify.personas[i] = q) /\ (R[q] => q \in mailed')
    OBVIOUS
  <2>1. CASE q = p
    BY <1>3, <1>4, <2>1 DEF p
  <2>2. CASE q # p
    BY <1>2, <1>3, <1>4, <2>2 DEF MailedSo
  <2> QED
    BY <2>1, <2>2
<1>8. \A q \in mailed' : q \in DOMAIN R /\ (R[q] \/ Repeated(q))
  <2> SUFFICES ASSUME NEW q \in mailed' PROVE q \in DOMAIN R /\ (R[q] \/ Repeated(q))
    OBVIOUS
  <2>1. CASE q # p
    BY <1>2, <1>4, <2>1 DEF MailedSo, p
  <2>2. CASE q = p /\ ~ok
    <3>1. q \in DOMAIN notify.results
      BY <1>2, <2>2 DEF MailedSo
    <3>2. PICK i \in 1 .. notify.sent : notify.personas[i] = q
      BY <1>2, <3>1 DEF MailedSo
    <3>3. Repeated(q)
      BY <1>3, <2>2, <3>2 DEF Repeated
    <3> QED
      BY <1>4, <2>2, <3>3
  <2> QED
    BY <1>4, <2>1, <2>2
<1>9. MailedSo'
  BY <1>5, <1>6, <1>7, <1>8 DEF MailedSo
<1> QED
  BY <1>2, <1>3, <1>5, <1>9 DEF Mailing

LEMMA RequestsKeep ==
  ASSUME HostInv, NotifyIncident \/ SendPersonaEmail \/ AllMailed
  PROVE  HostInv'
<1> USE DEF HostInv
<1>1. UNCHANGED <<monitoring, starting, agent, monitor, blobs, stopping>>
  BY DEF NotifyIncident, SendPersonaEmail, AllMailed
<1>2. StoppedSo'
  BY <1>1 DEF StoppedSo
<1>3. CASE NotifyIncident
  <2>1. notify.pc = "idle" /\ mailed = {} /\ mailed' = {} /\ notify.answer = "none"
        /\ notify.sent = 0 /\ DOMAIN notify.results = {}
    BY <1>3 DEF NotifyIncident, Mailing
  <2>2. ASSUME NEW code, Answer(code)
        PROVE  Mailing' /\ AnswersMatchMail'
    BY <2>1, <2>2, AnswerGiven DEF AnswersMatchMail
  <2>3. ASSUME NEW n \in 1 .. MaxPersonas,
               NEW personas \in [1 .. n -> Persona \cup {Misspelt}],
               notify' = [notify EXCEPT !.pc = "mailing", !.personas = personas]
        PROVE  Mailing' /\ AnswersMatchMail'
    <3>1. notify' = [pc |-> "mailing", personas |-> personas, sent |-> 0,
                     results |-> notify.results, answer |-> "none"]
      <4> DEFINE y == [notify EXCEPT !.pc = "mailing"]
      <4>1. notify' = [y EXCEPT !.personas = personas]
        BY <2>3
      <4>2. y = [pc |-> "mailing", personas |-> notify.personas, sent |-> notify.sent,
                 results |-> notify.results, answer |-> notify.answer]
        BY DEF Mailing
      <4> HIDE DEF y
      <4> QED
        BY <2>1, <4>1, <4>2
    <3>2. personas \in Seq(Persona \cup {Misspelt}) /\ Len(personas) \in Nat
      BY HostAssumption DEF HostAssumption
    <3>3. MailedSo'
      BY <2>1, <3>1 DEF MailedSo
    <3>4. AnswersMatchMail'
      BY <3>1 DEF AnswersMatchMail
    <3> QED
      BY <3>1, <3>2, <3>3, <3>4 DEF Mailing
  <2> QED
    BY <1>2, <1>3, <2>2, <2>3, Zenon DEF NotifyIncident
<1>4. CASE AllMailed
  <2>1. notify.pc = "mailing" /\ mailed' = mailed /\ Answer("200")
    BY <1>4 DEF AllMailed
  <2>2. /\ notify'.answer = "200" /\ notify'.personas = notify.personas
        /\ notify'.results = notify.results /\ Mailing'
    BY <2>1, AnswerGiven
  <2>3. MailedSo
    BY <2>1 DEF Mailing
  <2>4. \A q : Repeated(q)' <=> Repeated(q)
    BY <2>2 DEF Repeated
  <2>5. AnswersMatchMail'
    BY <2>1, <2>2, <2>3, <2>4 DEF MailedSo, AnswersMatchMail
  <2> QED
    BY <1>2, <2>2, <2>5
<1>5. CASE SendPersonaEmail
  <2>1. Sending
    BY <1>5 DEF SendPersonaEmail
  <2>2. CASE Answer("404 persona") \/ Answer("500")
    <3>1. PICK code \in {"404 persona", "500"} : Answer(code)
      BY <2>2
    <3>2. Mailing' /\ notify'.answer = code
      BY <3>1, AnswerGiven
    <3> QED
      BY <1>2, <3>2 DEF AnswersMatchMail
  <2>3. CASE \E ok \in BOOLEAN :
               Result(ok) /\ mailed' = IF ok THEN mailed \cup {Current} ELSE mailed
    <3>1. Mailing' /\ notify'.answer = "none"
      BY <2>1, <2>3, ResultNoted
    <3> QED
      BY <1>2, <3>1 DEF AnswersMatchMail
  <2>4. \/ Answer("404 persona") \/ Answer("500")
        \/ Result(FALSE) /\ mailed' = mailed
        \/ Result(TRUE) /\ mailed' = mailed \cup {Current}
    BY <1>5, Zenon DEF SendPersonaEmail
  <2>5. ASSUME Result(FALSE), mailed' = mailed PROVE HostInv'
    <3>1. \E ok \in BOOLEAN :
            Result(ok) /\ mailed' = IF ok THEN mailed \cup {Current} ELSE mailed
      BY <2>5, Zenon
    <3> QED
      BY <2>3, <3>1
  <2>6. ASSUME Result(TRUE), mailed' = mailed \cup {Current} PROVE HostInv'
    <3>1. \E ok \in BOOLEAN :
            Result(ok) /\ mailed' = IF ok THEN mailed \cup {Current} ELSE mailed
      BY <2>6, Zenon
    <3> QED
      BY <2>3, <3>1
  <2> QED
    BY <2>2, <2>4, <2>5, <2>6, Zenon
<1> QED
  BY <1>3, <1>4, <1>5

LEMMA HostAlways == HostSpec => []HostInv
<1>1. HostInv /\ [HostNext]_hostVars => HostInv'
  <2> SUFFICES ASSUME HostInv, [HostNext]_hostVars PROVE HostInv'
    OBVIOUS
  <2>1. CASE UNCHANGED hostVars
    BY <2>1, MailsUntouched DEF hostVars, HostInv, StoppedSo
  <2> QED
    BY <2>1, StartAndStopKeep, RequestsKeep, Zenon DEF HostNext
<1> QED
  BY <1>1, HostInitially, PTL DEF HostSpec

(* Wherever in initialize_agent the shutdown comes, once the cleanup is    *)
(* over neither start-up nor monitor runs or can be started again, and     *)
(* unless stop() raised, agent and storage are closed.                     *)
THEOREM ShutdownCompletes == HostSpec => []ShutdownIsComplete
<1>1. HostInv => ShutdownIsComplete
  BY DEF HostInv, StoppedSo, ShutdownIsComplete
<1> QED
  BY <1>1, HostAlways, PTL

(* notify_incident's 200 reports no mail Graph did not accept, and every   *)
(* one it accepted but those of personas named once more in the list.      *)
THEOREM AnswersMatch == HostSpec => []AnswersMatchMail
<1>1. HostInv => AnswersMatchMail
  BY DEF HostInv
<1> QED
  BY <1>1, HostAlways, PTL

-----------------------------------------------------------------------------
(* Threads and tokens, Conversations.                                      *)

Entry == {"user", "assistant"} \X Message

Inside == {"exchange", "opened", "running"}
HasList == {"opened", "running"}

TurnRec == [pc : {"idle", "exchange", "opened", "running", "over"},
            user : User \cup {0}, expiry : Nat, since : Nat,
            list : Nat, prompt : Seq(Entry)]

ConvType ==
  /\ clock \in Nat
  /\ lists \in Seq(Seq(Entry))
  /\ stored \in [User -> Nat]
  /\ \A u \in User : stored[u] <= Len(lists)
  /\ cached \in [User -> [until : Int, expiry : Nat]]
  /\ turns \in [Message -> TurnRec]
  /\ \A m \in Message :
       /\ turns[m].pc \in Inside => turns[m].user \in User
       /\ turns[m].pc \in HasList => turns[m].list \in 1 .. Len(lists)

(* No list belongs to two users.                                           *)
Owned ==
  /\ \A u, v \in User : stored[u] # 0 /\ stored[u] = stored[v] => u = v
  /\ \A m \in Message : turns[m].pc \in HasList =>
       /\ \A v \in User : stored[v] = turns[m].list => v = turns[m].user
       /\ \A n \in Message :
            turns[n].pc \in HasList /\ turns[n].list = turns[m].list =>
              turns[n].user = turns[m].user

(* Every answer stands right after its question.                           *)
Fits(s) ==
  \A i \in 1 .. Len(s) :
    s[i][1] = "assistant" => i > 1 /\ s[i - 1] = <<"user", s[i][2]>>

HasAnswer(s) == \E i \in 1 .. Len(s) : s[i][1] = "assistant"

Asks(s, m) == Len(s) > 0 /\ s[Len(s)] = <<"user", m>>

(* The memory of a user whose turns do not overlap.                        *)
Talk(u) ==
  /\ \A m, n \in InTurn(u) : m = n
  /\ \A m \in InTurn(u) : turns[m].pc \in HasList =>
       /\ stored[u] \in {0, turns[m].list}
       /\ Asks(lists[turns[m].list], m) /\ Fits(lists[turns[m].list])
       /\ turns[m].pc = "running" => turns[m].prompt = lists[turns[m].list]
  /\ stored[u] # 0 => Fits(lists[stored[u]]) /\ HasAnswer(lists[stored[u]])

TalkInv == \A u \in User \ overlapped : Talk(u)

-----------------------------------------------------------------------------
LEMMA FitsQuestion ==
  ASSUME NEW s \in Seq(Entry), NEW m \in Message
  PROVE  /\ Append(s, <<"user", m>>) \in Seq(Entry)
         /\ Asks(Append(s, <<"user", m>>), m)
         /\ Fits(s) => Fits(Append(s, <<"user", m>>))
         /\ HasAnswer(s) => HasAnswer(Append(s, <<"user", m>>))
<1> DEFINE e == <<"user", m>>
           t == Append(s, e)
<1>1. e \in Entry /\ e[1] = "user" BY DEF Entry
<1> HIDE DEF e
<1>2. /\ t \in Seq(Entry) /\ Len(s) \in Nat /\ Len(t) = Len(s) + 1
      /\ t[Len(s) + 1] = e /\ \A i \in 1 .. Len(s) : t[i] = s[i]
  BY <1>1
<1> HIDE DEF t
<1>3. Asks(t, m) BY <1>2 DEF Asks, e
<1>4. ASSUME Fits(s) PROVE Fits(t)
  <2> SUFFICES ASSUME NEW i \in 1 .. Len(t), t[i][1] = "assistant"
               PROVE  i > 1 /\ t[i - 1] = <<"user", t[i][2]>>
    BY DEF Fits
  <2>1. i # Len(s) + 1 BY <1>1, <1>2
  <2>2. i \in 1 .. Len(s) /\ t[i] = s[i] BY <1>2, <2>1
  <2>3. i > 1 /\ s[i - 1] = <<"user", s[i][2]>> BY <1>4, <2>2 DEF Fits
  <2>4. t[i - 1] = s[i - 1] BY <1>2, <2>2, <2>3
  <2> QED BY <2>2, <2>3, <2>4
<1>5. ASSUME HasAnswer(s) PROVE HasAnswer(t)
  <2>1. PICK i \in 1 .. Len(s) : s[i][1] = "assistant" BY <1>5 DEF HasAnswer
  <2>2. i \in 1 .. Len(t) /\ t[i] = s[i] BY <1>2
  <2> QED BY <2>1, <2>2 DEF HasAnswer
<1> QED BY <1>2, <1>3, <1>4, <1>5 DEF t, e

LEMMA FitsAnswer ==
  ASSUME NEW s \in Seq(Entry), NEW m \in Message
  PROVE  /\ Append(s, <<"assistant", m>>) \in Seq(Entry)
         /\ HasAnswer(Append(s, <<"assistant", m>>))
         /\ Asks(s, m) /\ Fits(s) => Fits(Append(s, <<"assistant", m>>))
<1> DEFINE e == <<"assistant", m>>
           t == Append(s, e)
<1>1. e \in Entry /\ e[1] = "assistant" /\ e[2] = m BY DEF Entry
<1> HIDE DEF e
<1>2. /\ t \in Seq(Entry) /\ Len(s) \in Nat /\ Len(t) = Len(s) + 1
      /\ t[Len(s) + 1] = e /\ \A i \in 1 .. Len(s) : t[i] = s[i]
  BY <1>1
<1> HIDE DEF t
<1>3. HasAnswer(t)
  <2>1. Len(s) + 1 \in 1 .. Len(t) BY <1>2
  <2> QED BY <1>1, <1>2, <2>1 DEF HasAnswer
<1>4. ASSUME Fits(s), Asks(s, m) PROVE Fits(t)
  <2> SUFFICES ASSUME NEW i \in 1 .. Len(t), t[i][1] = "assistant"
               PROVE  i > 1 /\ t[i - 1] = <<"user", t[i][2]>>
    BY DEF Fits
  <2>1. CASE i = Len(s) + 1
    <3>1. t[i - 1] = s[Len(s)] /\ i > 1 BY <1>2, <1>4, <2>1 DEF Asks
    <3>2. t[i][2] = m BY <1>1, <1>2, <2>1
    <3> QED BY <1>4, <3>1, <3>2 DEF Asks
  <2>2. CASE i # Len(s) + 1
    <3>1. i \in 1 .. Len(s) /\ t[i] = s[i] BY <1>2, <2>2
    <3>2. i > 1 /\ s[i - 1] = <<"user", s[i][2]>> BY <1>4, <3>1 DEF Fits
    <3>3. t[i - 1] = s[i - 1] BY <1>2, <3>1, <3>2
    <3> QED BY <3>1, <3>2, <3>3
  <2> QED BY <2>1, <2>2
<1> QED BY <1>2, <1>3, <1>4 DEF t, e

(* What opening a history does: the list l, which held `old`, grows by the *)
(* question, and the turn holds it.                                        *)
GrownList(m, u, l, old) ==
  /\ lists' \in Seq(Seq(Entry)) /\ Len(lists) <= Len(lists') /\ l \in 1 .. Len(lists')
  /\ stored[u] = 0 => l = Len(lists) + 1 /\ old = <<>>
  /\ stored[u] # 0 => l = stored[u] /\ old = lists[l]
  /\ lists'[l] = Append(old, <<"user", m>>)
  /\ \A k \in 1 .. Len(lists) : k # l => lists'[k] = lists[k]

OpenedTurn(m, u, x, l) ==
  /\ turns' = [turns EXCEPT ![m] = turns'[m]] /\ turns'[m] \in TurnRec
  /\ turns'[m].pc = "opened" /\ turns'[m].user = u /\ turns'[m].expiry = x
  /\ turns'[m].since = clock /\ turns'[m].list = l

LEMMA Opens ==
  ASSUME ConvType, NEW m \in Message, NEW u \in User, NEW x \in Nat,
         OpenHistory(m, u, x)
  PROVE  \E l \in Nat, old \in Seq(Entry) :
           GrownList(m, u, l, old) /\ OpenedTurn(m, u, x, l)
<1> DEFINE l == IF stored[u] = 0 THEN Len(lists) + 1 ELSE stored[u]
           old == IF stored[u] = 0 THEN <<>> ELSE lists[l]
           e == <<"user", m>>
           grown == Append(old, e)
<1>1. /\ lists \in Seq(Seq(Entry)) /\ Len(lists) \in Nat
      /\ stored[u] \in Nat /\ stored[u] <= Len(lists)
      /\ turns \in [Message -> TurnRec] /\ clock \in Nat
  BY DEF ConvType
<1>2. old \in Seq(Entry) BY <1>1
<1>3. grown \in Seq(Entry) BY <1>2, FitsQuestion
<1>4. /\ lists' = IF stored[u] = 0 THEN Append(lists, grown)
                  ELSE [lists EXCEPT ![l] = grown]
      /\ stored' = stored
      /\ turns' = [turns EXCEPT ![m] = [pc |-> "opened", user |-> u, expiry |-> x,
                                        since |-> clock, list |-> l, prompt |-> <<>>]]
  BY DEF OpenHistory
<1> HIDE DEF grown, old
<1>5. /\ lists' \in Seq(Seq(Entry)) /\ Len(lists) <= Len(lists')
      /\ l \in 1 .. Len(lists') /\ lists'[l] = grown
      /\ \A k \in 1 .. Len(lists) : k # l => lists'[k] = lists[k]
  <2>1. CASE stored[u] = 0
    <3>1. lists' = Append(lists, grown) /\ l = Len(lists) + 1 BY <1>4, <2>1
    <3> HIDE DEF l
    <3> QED BY <1>1, <1>3, <3>1
  <2>2. CASE stored[u] # 0
    <3>1. lists' = [lists EXCEPT ![l] = grown] /\ l \in 1 .. Len(lists)
      BY <1>1, <1>4, <2>2
    <3> HIDE DEF l
    <3> QED BY <1>1, <1>3, <3>1
  <2> QED BY <2>1, <2>2
<1>6. /\ stored[u] = 0 => l = Len(lists) + 1 /\ old = <<>>
      /\ stored[u] # 0 => l = stored[u] /\ old = lists[l]
  BY DEF old
<1> HIDE DEF l
<1>7. turns'[m] = [pc |-> "opened", user |-> u, expiry |-> x,
                   since |-> clock, list |-> l, prompt |-> <<>>]
  BY <1>1, <1>4
<1>8. turns' = [turns EXCEPT ![m] = turns'[m]] BY <1>4, <1>7
<1>9. /\ turns'[m].pc = "opened" /\ turns'[m].user = u /\ turns'[m].expiry = x
      /\ turns'[m].since = clock /\ turns'[m].list = l /\ turns'[m].prompt = <<>>
  BY <1>7
<1>10. turns'[m] \in TurnRec
  <2>1. l \in Nat /\ <<>> \in Seq(Entry) BY <1>1, <1>5
  <2> QED BY <1>1, <1>7, <2>1 DEF TurnRec
<1>11. OpenedTurn(m, u, x, l) BY <1>8, <1>9, <1>10 DEF OpenedTurn
<1>12. GrownList(m, u, l, old) BY <1>5, <1>6 DEF GrownList, grown
<1>13. l \in Nat BY <1>1, <1>5
<1> QED BY <1>2, <1>11, <1>12, <1>13

-----------------------------------------------------------------------------
(* A step that leaves a user's turns, list and their contents alone.       *)
LEMMA TalkFrame ==
  ASSUME ConvType, NEW v \in User, Talk(v), stored'[v] = stored[v],
         InTurn(v)' = InTurn(v),
         \A m \in InTurn(v) : turns'[m] = turns[m],
         stored[v] # 0 => lists'[stored[v]] = lists[stored[v]],
         \A m \in InTurn(v) : turns[m].pc \in HasList =>
           lists'[turns[m].list] = lists[turns[m].list]
  PROVE  Talk(v)'
<1>1. \A m, n \in InTurn(v)' : m = n BY DEF Talk
<1>2. ASSUME NEW m \in InTurn(v)', turns'[m].pc \in HasList
      PROVE  /\ stored'[v] \in {0, turns'[m].list}
             /\ Asks(lists'[turns'[m].list], m) /\ Fits(lists'[turns'[m].list])
             /\ turns'[m].pc = "running" => turns'[m].prompt = lists'[turns'[m].list]
  <2>1. m \in InTurn(v) /\ turns'[m] = turns[m] BY <1>2
  <2>2. lists'[turns'[m].list] = lists[turns[m].list] BY <1>2, <2>1
  <2> QED BY <1>2, <2>1, <2>2 DEF Talk
<1>3. stored'[v] # 0 => Fits(lists'[stored'[v]]) /\ HasAnswer(lists'[stored'[v]])
  BY DEF Talk
<1> QED BY <1>1, <1>2, <1>3 DEF Talk

(* Steps of one turn leave the turns of other users alone.                 *)
LEMMA OthersTurns ==
  ASSUME ConvType, NEW m \in Message, NEW v \in User,
         turns' = [turns EXCEPT ![m] = turns'[m]],
         turns[m].pc \in Inside => turns[m].user # v,
         turns'[m].pc \in Inside => turns'[m].user # v,
         turns'[m].pc \in {"idle", "exchange", "opened", "running", "over"}
  PROVE  InTurn(v)' = InTurn(v) /\ \A n \in InTurn(v) : turns'[n] = turns[n]
<1>1. /\ \A n \in Message : n # m => turns'[n] = turns[n]
      /\ turns[m].pc \in {"idle", "exchange", "opened", "running", "over"}
  <2>1. turns \in [Message -> TurnRec] BY DEF ConvType
  <2>2. turns[m] \in TurnRec BY <2>1
  <2> QED BY <2>1, <2>2 DEF TurnRec
<1>2. m \notin InTurn(v) /\ m \notin InTurn(v)'
  BY <1>1 DEF InTurn, Inside
<1>3. \A n \in Message : n # m => (n \in InTurn(v)' <=> n \in InTurn(v))
  BY <1>1 DEF InTurn
<1>4. InTurn(v) \subseteq Message /\ InTurn(v)' \subseteq Message
  BY DEF InTurn
<1>5. InTurn(v)' = InTurn(v) BY <1>2, <1>3, <1>4
<1> QED BY <1>1, <1>2, <1>4, <1>5

ConvInv == ConvType /\ Owned /\ TalkInv

LEMMA ConvInitially == ConvInit => ConvInv
<1> SUFFICES ASSUME ConvInit PROVE ConvInv OBVIOUS
<1>1. /\ turns = [m \in Message |-> Waiting] /\ lists = <<>>
      /\ stored = [u \in User |-> 0] /\ clock = 0
      /\ cached = [u \in User |-> [until |-> 0, expiry |-> 0]]
  BY DEF ConvInit
<1>2. \A m \in Message : turns[m] = Waiting /\ turns[m].pc = "idle"
  BY <1>1 DEF Waiting
<1>3. Waiting \in TurnRec
  BY DEF Waiting, TurnRec
<1>4. ConvType BY <1>1, <1>2, <1>3 DEF ConvType, Inside, HasList
<1>5. Owned BY <1>1, <1>2 DEF Owned, HasList
<1>6. \A u \in User : InTurn(u) = {} BY <1>2 DEF InTurn
<1>7. \A u \in User : Talk(u) BY <1>1, <1>6 DEF Talk
<1> QED BY <1>4, <1>5, <1>7 DEF ConvInv, TalkInv

(* A question is put into its user's history, by a turn that may have      *)
(* begun with this step or waited for its token before.                    *)
LEMMA OpenKeeps ==
  ASSUME ConvInv, NEW m \in Message, NEW u \in User, NEW x \in Nat,
         OpenHistory(m, u, x), turns[m].pc \in {"idle", "exchange"},
         turns[m].pc = "exchange" => turns[m].user = u,
         cached' \in [User -> [until : Int, expiry : Nat]], UNCHANGED clock,
         overlapped \subseteq overlapped',
         u \notin overlapped' => InTurn(u) \subseteq {m}
  PROVE  ConvInv'
<1>t. ConvType /\ Owned /\ TalkInv BY DEF ConvInv
<1>1. PICK l \in Nat, old \in Seq(Entry) :
        GrownList(m, u, l, old) /\ OpenedTurn(m, u, x, l)
  BY <1>t, Opens
<1>s. stored' = stored BY DEF OpenHistory
<1>l. /\ lists' \in Seq(Seq(Entry)) /\ Len(lists) <= Len(lists') /\ l \in 1 .. Len(lists')
      /\ stored[u] = 0 => l = Len(lists) + 1 /\ old = <<>>
      /\ stored[u] # 0 => l = stored[u] /\ old = lists[l]
  BY <1>1 DEF GrownList
<1>g. lists'[l] = Append(old, <<"user", m>>) BY <1>1 DEF GrownList
<1>k. \A k \in 1 .. Len(lists) : k # l => lists'[k] = lists[k]
  BY <1>1 DEF GrownList
<1>m. /\ turns'[m] \in TurnRec /\ turns'[m].pc = "opened" /\ turns'[m].user = u
      /\ turns'[m].list = l
  BY <1>1 DEF OpenedTurn
<1>e. turns' = [turns EXCEPT ![m] = turns'[m]] BY <1>1 DEF OpenedTurn
<1>n. \A n \in Message : n # m => turns'[n] = turns[n]
  BY <1>t, <1>e DEF ConvType
<1>2. /\ \A n \in Message : turns[n].pc \in HasList =>
           turns[n].list \in 1 .. Len(lists) /\ turns[n].user \in User
      /\ \A v \in User : stored[v] \in Nat /\ stored[v] <= Len(lists)
      /\ Len(lists) \in Nat
  BY <1>t DEF ConvType, HasList, Inside
<1>h. turns[m].pc \notin HasList BY DEF HasList
<1>i. Len(lists') \in Nat BY <1>l
<1>3. ConvType'
  <2>2. turns' \in [Message -> TurnRec] BY <1>t, <1>e, <1>m DEF ConvType
  <2>3. ASSUME NEW n \in Message
        PROVE  /\ turns'[n].pc \in Inside => turns'[n].user \in User
               /\ turns'[n].pc \in HasList => turns'[n].list \in 1 .. Len(lists')
    <3>1. CASE n = m BY <1>l, <1>m, <3>1
    <3>2. CASE n # m
      <4>1. turns'[n] = turns[n] BY <1>n, <3>2
      <4>2. turns[n].pc \in Inside => turns[n].user \in User BY <1>t DEF ConvType
      <4>3. turns[n].pc \in HasList => turns[n].list \in 1 .. Len(lists) BY <1>2
      <4>4. \A j \in 1 .. Len(lists) : j \in 1 .. Len(lists')
        BY ONLY <1>l, <1>i, <1>2
      <4> QED BY ONLY <4>1, <4>2, <4>3, <4>4
    <3> QED BY <3>1, <3>2
  <2>4. \A v \in User : stored'[v] <= Len(lists') BY ONLY <1>2, <1>i, <1>l, <1>s
  <2> QED BY <1>t, <1>l, <1>s, <2>2, <2>3, <2>4 DEF ConvType
(* The list that grew is the user's alone.                                 *)
<1>4. ASSUME NEW v \in User, v # u
      PROVE  /\ stored[v] # l
             /\ \A n \in Message : turns[n].pc \in HasList /\ turns[n].user = v =>
                  turns[n].list # l
  <2>1. CASE stored[u] = 0 BY <1>2, <1>l, <2>1
  <2>2. CASE stored[u] # 0 BY <1>t, <1>l, <1>4, <2>2 DEF Owned
  <2> QED BY <2>1, <2>2
<1>5. Owned'
  <2>1. \A v \in User : stored[v] = l => v = u BY <1>4
  <2>2. \A n \in Message : turns[n].pc \in HasList /\ turns[n].list = l =>
          turns[n].user = u
    BY <1>2, <1>4
  <2>3. \A n \in Message : turns'[n].pc \in HasList =>
           /\ \A v \in User : stored'[v] = turns'[n].list => v = turns'[n].user
           /\ \A o \in Message :
                turns'[o].pc \in HasList /\ turns'[o].list = turns'[n].list =>
                  turns'[o].user = turns'[n].user
    <3> SUFFICES ASSUME NEW n \in Message, turns'[n].pc \in HasList
                 PROVE /\ \A v \in User : stored'[v] = turns'[n].list => v = turns'[n].user
                       /\ \A o \in Message :
                         turns'[o].pc \in HasList /\ turns'[o].list = turns'[n].list =>
                           turns'[o].user = turns'[n].user
      OBVIOUS
    <3>1. CASE n = m
      <4>1. turns'[n].list = l /\ turns'[n].user = u BY <1>m, <3>1
      <4>2. ASSUME NEW o \in Message, turns'[o].pc \in HasList, turns'[o].list = l
            PROVE  turns'[o].user = u
        BY <1>m, <1>n, <2>2, <4>2
      <4> QED BY <1>s, <2>1, <4>1, <4>2
    <3>2. CASE n # m
      <4>1. \A v \in User : stored'[v] = turns'[n].list => v = turns'[n].user
        BY <1>t, <1>n, <1>s, <3>2 DEF Owned
      <4>2. ASSUME NEW o \in Message, turns'[o].pc \in HasList,
                   turns'[o].list = turns'[n].list
            PROVE  turns'[o].user = turns'[n].user
        <5>1. CASE o = m BY <1>m, <1>n, <2>2, <3>2, <4>2, <5>1
        <5>2. CASE o # m
          <6>1. turns'[o] = turns[o] /\ turns'[n] = turns[n] BY <1>n, <3>2, <5>2
          <6> QED BY <1>t, <4>2, <6>1 DEF Owned
        <5> QED BY <5>1, <5>2
      <4> QED BY <4>1, <4>2
    <3> QED BY <3>1, <3>2
  <2> QED BY <1>t, <1>s, <2>3 DEF Owned
<1>6. ASSUME NEW v \in User, v \notin overlapped', v # u PROVE Talk(v)'
  <2>1. Talk(v) BY <1>t, <1>6 DEF TalkInv
  <2>2. InTurn(v)' = InTurn(v) /\ \A n \in InTurn(v) : turns'[n] = turns[n]
    BY <1>t, <1>e, <1>m, <1>6, OthersTurns DEF Inside
  <2>3. stored[v] # 0 => lists'[stored[v]] = lists[stored[v]]
    BY <1>2, <1>k, <1>4, <1>6
  <2>4. \A n \in InTurn(v) : turns[n].pc \in HasList =>
          lists'[turns[n].list] = lists[turns[n].list]
    BY <1>2, <1>k, <1>4, <1>6 DEF InTurn
  <2> QED BY <1>t, <1>s, <2>1, <2>2, <2>3, <2>4, TalkFrame
<1>7. ASSUME u \notin overlapped' PROVE Talk(u)'
  <2>1. Talk(u) BY <1>t, <1>7 DEF TalkInv
  <2>2. InTurn(u)' \subseteq {m} BY <1>n, <1>7 DEF InTurn
  <2>3. Fits(old) /\ (stored[u] # 0 => HasAnswer(old))
    <3>1. CASE stored[u] = 0 BY <1>l, <3>1 DEF Fits
    <3>2. CASE stored[u] # 0 BY <1>l, <2>1, <3>2 DEF Talk
    <3> QED BY <3>1, <3>2
  <2>4. Asks(lists'[l], m) /\ Fits(lists'[l]) /\ (stored[u] # 0 => HasAnswer(lists'[l]))
    BY <1>g, <2>3, FitsQuestion
  <2>5. stored'[u] \in {0, l} BY <1>l, <1>s
  <2>6. stored'[u] # 0 => Fits(lists'[stored'[u]]) /\ HasAnswer(lists'[stored'[u]])
    BY <1>s, <2>4, <2>5
  <2>7. \A n \in InTurn(u)' : turns'[n].pc \in HasList =>
       /\ stored'[u] \in {0, turns'[n].list}
       /\ Asks(lists'[turns'[n].list], n) /\ Fits(lists'[turns'[n].list])
       /\ turns'[n].pc = "running" => turns'[n].prompt = lists'[turns'[n].list]
    BY <1>m, <2>2, <2>4, <2>5
  <2> QED BY <2>2, <2>6, <2>7 DEF Talk
<1>8. TalkInv' BY <1>6, <1>7 DEF TalkInv
<1> QED BY <1>3, <1>5, <1>8 DEF ConvInv

(* A turn that ends leaves no trace in the turns that go on.               *)
LEMMA OverTurns ==
  ASSUME ConvType, NEW m \in Message, Over(m)
  PROVE  /\ turns' \in [Message -> TurnRec] /\ turns' = [turns EXCEPT ![m] = turns'[m]]
         /\ turns'[m].pc = "over"
         /\ \A n \in Message : n # m => turns'[n] = turns[n]
         /\ \A n \in Message : turns'[n].pc \in Inside => n # m /\ turns'[n] = turns[n]
<1>1. turns \in [Message -> TurnRec] BY DEF ConvType
<1>2. turns' = [turns EXCEPT ![m] = [Waiting EXCEPT !.pc = "over"]] BY DEF Over
<1>3. [Waiting EXCEPT !.pc = "over"] \in TurnRec
  <2>1. [Waiting EXCEPT !.pc = "over"] =
          [pc |-> "over", user |-> 0, expiry |-> 0, since |-> 0, list |-> 0, prompt |-> <<>>]
    BY DEF Waiting
  <2>2. <<>> \in Seq(Entry) OBVIOUS
  <2>3. [pc |-> "over", user |-> 0, expiry |-> 0, since |-> 0, list |-> 0, prompt |-> <<>>]
          \in TurnRec
    BY <2>2 DEF TurnRec
  <2> QED BY <2>1, <2>3, Zenon
<1>4. [Waiting EXCEPT !.pc = "over"].pc = "over" BY DEF Waiting
<1> DEFINE w == [Waiting EXCEPT !.pc = "over"]
<1> HIDE DEF w
<1>5. turns' = [turns EXCEPT ![m] = w] /\ w \in TurnRec /\ w.pc = "over"
  BY <1>2, <1>3, <1>4 DEF w
<1>6. turns' \in [Message -> TurnRec] /\ turns'[m] = w BY <1>1, <1>5
<1>7. \A n \in Message : n # m => turns'[n] = turns[n] BY <1>1, <1>5
<1>8. \A n \in Message : turns'[n].pc \in Inside => n # m
  BY <1>5, <1>6 DEF Inside
<1> QED BY <1>5, <1>6, <1>7, <1>8

LEMMA AnsweredKeeps ==
  ASSUME ConvInv, NEW m \in Message, Answered(m)
  PROVE  ConvInv'
<1>t. ConvType /\ Owned /\ TalkInv BY DEF ConvInv
<1>u. PICK u : u = turns[m].user OBVIOUS
<1> DEFINE old == lists[turns[m].list]
           new == Append(old, <<"assistant", m>>)
<1>1. /\ turns[m].pc = "running" /\ Over(m)
      /\ lists' = Append(lists, new)
      /\ stored' = [stored EXCEPT ![u] = Len(lists) + 1]
      /\ UNCHANGED <<clock, cached, overlapped>>
  BY <1>u DEF Answered
<1>2. /\ u \in User /\ turns[m].list \in 1 .. Len(lists) /\ old \in Seq(Entry)
      /\ lists \in Seq(Seq(Entry)) /\ stored \in [User -> Nat]
  BY <1>t, <1>u, <1>1 DEF ConvType, Inside, HasList
<1>3. new \in Seq(Entry) /\ HasAnswer(new) /\ (Asks(old, m) /\ Fits(old) => Fits(new))
  BY <1>2, FitsAnswer
<1> HIDE DEF old, new
<1>l. /\ lists' \in Seq(Seq(Entry)) /\ Len(lists) \in Nat /\ Len(lists') = Len(lists) + 1
      /\ lists'[Len(lists) + 1] = new
  BY <1>1, <1>2, <1>3
<1>k. \A k \in 1 .. Len(lists) : lists'[k] = lists[k] BY <1>1, <1>2, <1>3
<1>s. /\ stored' \in [User -> Nat] /\ stored'[u] = Len(lists) + 1
      /\ \A v \in User : v # u => stored'[v] = stored[v]
  BY <1>1, <1>2, <1>l
<1>o. /\ turns' \in [Message -> TurnRec] /\ turns' = [turns EXCEPT ![m] = turns'[m]]
      /\ turns'[m].pc = "over"
      /\ \A n \in Message : n # m => turns'[n] = turns[n]
      /\ \A n \in Message : turns'[n].pc \in Inside => n # m /\ turns'[n] = turns[n]
  BY <1>t, <1>1, OverTurns
<1>b. /\ \A n \in Message : turns[n].pc \in HasList => turns[n].list \in 1 .. Len(lists)
      /\ \A n \in Message : turns[n].pc \in Inside => turns[n].user \in User
      /\ \A v \in User : stored[v] \in Nat /\ stored[v] <= Len(lists)
  BY <1>t DEF ConvType
<1>n. \A n \in Message : turns'[n].pc \in HasList => turns'[n] = turns[n] /\ turns[n].pc \in HasList
  BY <1>o DEF HasList, Inside
<1>4. ConvType'
  <2>1. \A v \in User : stored'[v] <= Len(lists') BY <1>b, <1>l, <1>s
  <2>2. \A n \in Message :
          /\ turns'[n].pc \in Inside => turns'[n].user \in User
          /\ turns'[n].pc \in HasList => turns'[n].list \in 1 .. Len(lists')
    BY <1>b, <1>l, <1>n, <1>o
  <2> QED BY <1>t, <1>1, <1>l, <1>s, <1>o, <2>1, <2>2 DEF ConvType
<1>5. Owned'
  <2>1. \A v, w \in User : stored'[v] # 0 /\ stored'[v] = stored'[w] => v = w
    BY <1>t, <1>b, <1>l, <1>s DEF Owned
  <2>2. ASSUME NEW n \in Message, turns'[n].pc \in HasList
        PROVE  /\ \A v \in User : stored'[v] = turns'[n].list => v = turns'[n].user
               /\ \A o \in Message :
                    turns'[o].pc \in HasList /\ turns'[o].list = turns'[n].list =>
                      turns'[o].user = turns'[n].user
    <3>1. turns'[n] = turns[n] /\ turns[n].pc \in HasList BY <1>n, <2>2
    <3>2. turns[n].list # Len(lists) + 1 BY <1>b, <1>l, <3>1
    <3>3. \A v \in User : stored'[v] = turns'[n].list => v = turns'[n].user
      BY <1>t, <1>s, <3>1, <3>2 DEF Owned
    <3>4. ASSUME NEW o \in Message, turns'[o].pc \in HasList,
                 turns'[o].list = turns'[n].list
          PROVE  turns'[o].user = turns'[n].user
      <4>1. turns'[o] = turns[o] /\ turns[o].pc \in HasList BY <1>n, <3>4
      <4> QED BY <1>t, <3>1, <3>4, <4>1 DEF Owned
    <3> QED BY <3>3, <3>4
  <2> QED BY <2>1, <2>2 DEF Owned
<1>6. ASSUME NEW v \in User, v \notin overlapped', v # u PROVE Talk(v)'
  <2>1. Talk(v) BY <1>t, <1>1, <1>6 DEF TalkInv
  <2>2. InTurn(v)' = InTurn(v) /\ \A n \in InTurn(v) : turns'[n] = turns[n]
    BY <1>t, <1>u, <1>o, <1>6, OthersTurns DEF Inside
  <2>3. stored[v] # 0 => lists'[stored[v]] = lists[stored[v]] BY <1>b, <1>k
  <2>4. \A n \in InTurn(v) : turns[n].pc \in HasList =>
          lists'[turns[n].list] = lists[turns[n].list]
    BY <1>b, <1>k DEF InTurn
  <2> QED BY <1>t, <1>s, <1>6, <2>1, <2>2, <2>3, <2>4, TalkFrame
<1>7. ASSUME u \notin overlapped' PROVE Talk(u)'
  <2>1. Talk(u) BY <1>t, <1>1, <1>2, <1>7 DEF TalkInv
  <2>2. m \in InTurn(u) /\ turns[m].pc \in HasList BY <1>t, <1>u, <1>1 DEF InTurn, HasList
  <2>3. Asks(old, m) /\ Fits(old) BY <2>1, <2>2 DEF Talk, old
  <2>4. InTurn(u)' = {}
    <3>1. InTurn(u) \subseteq {m} BY <2>1, <2>2 DEF Talk
    <3> QED BY <1>o, <3>1 DEF InTurn
  <2>5. Fits(lists'[stored'[u]]) /\ HasAnswer(lists'[stored'[u]])
    BY <1>3, <1>l, <1>s, <2>3
  <2> QED BY <2>4, <2>5 DEF Talk
<1>8. TalkInv' BY <1>6, <1>7 DEF TalkInv
<1> QED BY <1>4, <1>5, <1>8 DEF ConvInv

LEMMA DropKeeps ==
  ASSUME ConvInv, NEW m \in Message, Unanswered(m) \/ Forgets(m)
  PROVE  ConvInv'
<1>t. ConvType /\ Owned /\ TalkInv BY DEF ConvInv
<1>u. PICK u : u = turns[m].user OBVIOUS
<1>1. /\ turns[m].pc = "running" /\ Over(m)
      /\ UNCHANGED <<lists, clock, cached, overlapped>>
      /\ stored' = stored \/ stored' = [stored EXCEPT ![u] = 0]
  BY <1>u DEF Unanswered, Forgets
<1>2. u \in User /\ stored \in [User -> Nat] /\ lists \in Seq(Seq(Entry)) /\ Len(lists) \in Nat
  BY <1>t, <1>u, <1>1 DEF ConvType, Inside
<1>s. /\ stored' \in [User -> Nat]
      /\ \A v \in User : v # u => stored'[v] = stored[v]
      /\ stored'[u] \in {0, stored[u]}
  BY <1>1, <1>2
<1>o. /\ turns' \in [Message -> TurnRec] /\ turns' = [turns EXCEPT ![m] = turns'[m]]
      /\ turns'[m].pc = "over"
      /\ \A n \in Message : n # m => turns'[n] = turns[n]
      /\ \A n \in Message : turns'[n].pc \in Inside => n # m /\ turns'[n] = turns[n]
  BY <1>t, <1>1, OverTurns
<1>z. \A v \in User : stored'[v] \in {0, stored[v]} BY <1>s
<1>n. \A n \in Message : turns'[n].pc \in HasList => turns'[n] = turns[n] /\ turns[n].pc \in HasList
  BY <1>o DEF HasList, Inside
<1>b. /\ \A n \in Message : turns[n].pc \in HasList => turns[n].list \in 1 .. Len(lists)
      /\ \A n \in Message : turns[n].pc \in Inside => turns[n].user \in User
      /\ \A v \in User : stored[v] \in Nat /\ stored[v] <= Len(lists)
  BY <1>t DEF ConvType
<1>4. ConvType'
  <2>1. \A v \in User : stored'[v] <= Len(lists') BY <1>1, <1>2, <1>b, <1>z
  <2>2. \A n \in Message :
          /\ turns'[n].pc \in Inside => turns'[n].user \in User
          /\ turns'[n].pc \in HasList => turns'[n].list \in 1 .. Len(lists')
    BY <1>1, <1>b, <1>n, <1>o
  <2> QED BY <1>t, <1>1, <1>s, <1>o, <2>1, <2>2 DEF ConvType
<1>5. Owned'
  <2>1. \A v, w \in User : stored'[v] # 0 /\ stored'[v] = stored'[w] => v = w
    BY <1>t, <1>z DEF Owned
  <2>2. ASSUME NEW n \in Message, turns'[n].pc \in HasList
        PROVE  /\ \A v \in User : stored'[v] = turns'[n].list => v = turns'[n].user
               /\ \A o \in Message :
                    turns'[o].pc \in HasList /\ turns'[o].list = turns'[n].list =>
                      turns'[o].user = turns'[n].user
    <3>1. turns'[n] = turns[n] /\ turns[n].pc \in HasList BY <1>n, <2>2
    <3>2. turns[n].list # 0 BY <1>2, <1>b, <3>1
    <3>3. \A v \in User : stored'[v] = turns'[n].list => v = turns'[n].user
      BY <1>t, <1>z, <3>1, <3>2 DEF Owned
    <3>4. ASSUME NEW o \in Message, turns'[o].pc \in HasList,
                 turns'[o].list = turns'[n].list
          PROVE  turns'[o].user = turns'[n].user
      <4>1. turns'[o] = turns[o] /\ turns[o].pc \in HasList BY <1>n, <3>4
      <4> QED BY <1>t, <3>1, <3>4, <4>1 DEF Owned
    <3> QED BY <3>3, <3>4
  <2> QED BY <2>1, <2>2 DEF Owned
<1>6. ASSUME NEW v \in User, v \notin overlapped', v # u PROVE Talk(v)'
  <2>1. Talk(v) BY <1>t, <1>1, <1>6 DEF TalkInv
  <2>2. InTurn(v)' = InTurn(v) /\ \A n \in InTurn(v) : turns'[n] = turns[n]
    BY <1>t, <1>o, <1>6, <1>u, OthersTurns DEF Inside
  <2>3. lists' = lists BY <1>1
  <2> QED BY <1>t, <1>s, <1>6, <2>1, <2>2, <2>3, TalkFrame
<1>7. ASSUME u \notin overlapped' PROVE Talk(u)'
  <2>1. Talk(u) BY <1>t, <1>1, <1>2, <1>7 DEF TalkInv
  <2>2. m \in InTurn(u) BY <1>u, <1>1 DEF InTurn
  <2>3. InTurn(u)' = {}
    <3>1. InTurn(u) \subseteq {m} BY <2>1, <2>2 DEF Talk
    <3> QED BY <1>o, <3>1 DEF InTurn
  <2>4. stored'[u] # 0 => Fits(lists'[stored'[u]]) /\ HasAnswer(lists'[stored'[u]])
    BY <1>1, <1>s, <2>1 DEF Talk
  <2> QED BY <2>3, <2>4 DEF Talk
<1>8. TalkInv' BY <1>6, <1>7 DEF TalkInv
<1> QED BY <1>4, <1>5, <1>8 DEF ConvInv

LEMMA BeginCachedKeeps ==
  ASSUME ConvInv, NEW m \in Message, NEW u \in User, BeginCached(m, u)
  PROVE  ConvInv'
<1>1. /\ turns[m].pc = "idle" /\ OpenHistory(m, u, cached[u].expiry)
      /\ NoteOverlap(u) /\ UNCHANGED <<clock, cached>>
  BY DEF BeginCached
<1>2. cached \in [User -> [until : Int, expiry : Nat]] BY DEF ConvInv, ConvType
<1>3. PICK x \in Nat : x = cached[u].expiry BY <1>2
<1>4. /\ overlapped \subseteq overlapped'
      /\ u \notin overlapped' => InTurn(u) \subseteq {m}
  BY <1>1 DEF NoteOverlap
<1>5. OpenHistory(m, u, x) BY <1>1, <1>3
<1> QED BY <1>1, <1>2, <1>4, <1>5, OpenKeeps

LEMMA ExchangeEndsKeeps ==
  ASSUME ConvInv, NEW m \in Message, ExchangeEnds(m)
  PROVE  ConvInv'
<1>t. ConvType /\ Owned /\ TalkInv BY DEF ConvInv
<1>u. PICK u : u = turns[m].user OBVIOUS
<1>1. turns[m].pc = "exchange" /\ UNCHANGED <<clock, overlapped>>
  BY DEF ExchangeEnds
<1>2. /\ u \in User /\ clock \in Nat
      /\ cached \in [User -> [until : Int, expiry : Nat]]
  BY <1>t, <1>u, <1>1 DEF ConvType, Inside
<1>3. u \notin overlapped' => InTurn(u) \subseteq {m}
  BY <1>t, <1>u, <1>1, <1>2 DEF TalkInv, Talk, InTurn
<1>4. \E x \in Nat : /\ OpenHistory(m, u, x)
                     /\ cached' \in [User -> [until : Int, expiry : Nat]]
  <2>1. CASE OpenHistory(m, u, 0) /\ UNCHANGED cached BY <1>2, <2>1
  <2>2. ASSUME NEW life \in Lifetime, OpenHistory(m, u, clock + life),
               cached' = [cached EXCEPT ![u] =
                           [until |-> CacheUntil(clock + life), expiry |-> clock + life]]
        PROVE  \E x \in Nat : /\ OpenHistory(m, u, x)
                              /\ cached' \in [User -> [until : Int, expiry : Nat]]
    <3>1. clock + life \in Nat /\ CacheUntil(clock + life) \in Int
      BY <1>2, ConversationAssumption DEF CacheUntil
    <3>2. cached' \in [User -> [until : Int, expiry : Nat]]
      BY <1>2, <2>2, <3>1
    <3> QED BY <2>2, <3>1, <3>2
  <2> QED BY <1>u, <2>1, <2>2 DEF ExchangeEnds
<1> QED BY <1>u, <1>1, <1>2, <1>3, <1>4, OpenKeeps

LEMMA BeginExchangeKeeps ==
  ASSUME ConvInv, NEW m \in Message, NEW u \in User, BeginExchange(m, u)
  PROVE  ConvInv'
<1>t. ConvType /\ Owned /\ TalkInv BY DEF ConvInv
<1>1. /\ turns[m].pc = "idle" /\ NoteOverlap(u)
      /\ turns' = [turns EXCEPT ![m] = [Waiting EXCEPT !.pc = "exchange", !.user = u]]
      /\ UNCHANGED <<clock, lists, stored, cached>>
  BY DEF BeginExchange
<1>2. turns \in [Message -> TurnRec] BY <1>t DEF ConvType
<1>4. PICK q \in TurnRec : /\ turns' = [turns EXCEPT ![m] = q]
                           /\ q.pc = "exchange" /\ q.user = u
  <2>1. Waiting \in TurnRec
    <3>1. <<>> \in Seq(Entry) OBVIOUS
    <3> QED BY <3>1 DEF Waiting, TurnRec
  <2> DEFINE w == [Waiting EXCEPT !.pc = "exchange", !.user = u]
  <2>2. w \in TurnRec /\ w.pc = "exchange" /\ w.user = u BY <2>1 DEF TurnRec
  <2> QED BY <1>1, <2>2
<1>o. /\ turns' \in [Message -> TurnRec] /\ turns' = [turns EXCEPT ![m] = turns'[m]]
      /\ turns'[m].pc = "exchange" /\ turns'[m].user = u
      /\ \A n \in Message : n # m => turns'[n] = turns[n]
  BY <1>2, <1>4
<1>n. \A n \in Message : turns'[n].pc \in HasList => turns'[n] = turns[n] /\ n # m
  BY <1>o DEF HasList
<1>5. ConvType'
  <2>1. \A n \in Message :
          /\ turns'[n].pc \in Inside => turns'[n].user \in User
          /\ turns'[n].pc \in HasList => turns'[n].list \in 1 .. Len(lists')
    BY <1>t, <1>1, <1>n, <1>o DEF ConvType
  <2> QED BY <1>t, <1>1, <1>o, <2>1 DEF ConvType
<1>6. Owned'
  <2>1. \A v, w \in User : stored'[v] # 0 /\ stored'[v] = stored'[w] => v = w
    BY <1>t, <1>1 DEF Owned
  <2>2. ASSUME NEW n \in Message, turns'[n].pc \in HasList
        PROVE  /\ \A v \in User : stored'[v] = turns'[n].list => v = turns'[n].user
               /\ \A o \in Message :
                    turns'[o].pc \in HasList /\ turns'[o].list = turns'[n].list =>
                      turns'[o].user = turns'[n].user
    <3>1. turns'[n] = turns[n] BY <1>n, <2>2
    <3>2. ASSUME NEW o \in Message, turns'[o].pc \in HasList,
                 turns'[o].list = turns'[n].list
          PROVE  turns'[o].user = turns'[n].user
      <4>1. turns'[o] = turns[o] BY <1>n, <3>2
      <4> QED BY <1>t, <2>2, <3>1, <3>2, <4>1 DEF Owned
    <3>3. turns[n].pc \in HasList BY <2>2, <3>1
    <3>4. \A v \in User : stored[v] = turns[n].list => v = turns[n].user
      BY <1>t, <3>3 DEF Owned
    <3> QED BY <1>1, <3>1, <3>2, <3>4
  <2> QED BY <2>1, <2>2 DEF Owned
<1>7. overlapped \subseteq overlapped' /\ (u \notin overlapped' => InTurn(u) = {})
  BY <1>1 DEF NoteOverlap
<1>8. ASSUME NEW v \in User, v \notin overlapped', v # u PROVE Talk(v)'
  <2>1. Talk(v) BY <1>t, <1>7, <1>8 DEF TalkInv
  <2>2. InTurn(v)' = InTurn(v) /\ \A n \in InTurn(v) : turns'[n] = turns[n]
    BY <1>t, <1>o, <1>1, <1>8, OthersTurns DEF Inside
  <2> QED BY <1>t, <1>1, <2>1, <2>2, TalkFrame
<1>9. ASSUME u \notin overlapped' PROVE Talk(u)'
  <2>1. Talk(u) BY <1>t, <1>7, <1>9 DEF TalkInv
  <2>2. InTurn(u)' \subseteq {m}
    BY <1>o, <1>7, <1>9 DEF InTurn
  <2>3. \A n \in InTurn(u)' : turns'[n].pc \notin HasList
    BY <1>o, <2>2 DEF HasList
  <2> QED BY <1>1, <2>1, <2>2, <2>3 DEF Talk
<1> QED BY <1>5, <1>6, <1>8, <1>9 DEF ConvInv, TalkInv

LEMMA RunAgentKeeps ==
  ASSUME ConvInv, NEW m \in Message, RunAgent(m)
  PROVE  ConvInv'
<1>t. ConvType /\ Owned /\ TalkInv BY DEF ConvInv
<1>1. /\ turns[m].pc = "opened"
      /\ turns' = [turns EXCEPT ![m].pc = "running", ![m].prompt = lists[turns[m].list]]
      /\ UNCHANGED <<clock, lists, stored, cached, overlapped>>
  BY DEF RunAgent
<1>2. /\ turns \in [Message -> TurnRec] /\ turns[m].user \in User
      /\ turns[m].list \in 1 .. Len(lists) /\ lists[turns[m].list] \in Seq(Entry)
  BY <1>t, <1>1 DEF ConvType, Inside, HasList
<1>3. PICK w \in TurnRec : /\ turns' = [turns EXCEPT ![m] = w]
                           /\ w.pc = "running" /\ w.user = turns[m].user
                           /\ w.list = turns[m].list /\ w.prompt = lists[turns[m].list]
  <2> DEFINE w == [turns[m] EXCEPT !.pc = "running", !.prompt = lists[turns[m].list]]
  <2>1. turns[m] \in TurnRec BY <1>2
  <2>2. /\ w \in TurnRec /\ w.pc = "running" /\ w.user = turns[m].user
        /\ w.list = turns[m].list /\ w.prompt = lists[turns[m].list]
    BY <1>2, <2>1 DEF TurnRec
  <2>3. turns' = [turns EXCEPT ![m] = w] BY <1>1, <1>2
  <2> QED BY <2>2, <2>3
<1>o. /\ turns' \in [Message -> TurnRec] /\ turns' = [turns EXCEPT ![m] = turns'[m]]
      /\ turns'[m].pc = "running" /\ turns'[m].prompt = lists[turns[m].list]
      /\ \A n \in Message : n # m => turns'[n] = turns[n]
  BY <1>2, <1>3
<1>n. \A n \in Message : /\ turns'[n].user = turns[n].user /\ turns'[n].list = turns[n].list
                         /\ turns'[n].pc \in HasList <=> turns[n].pc \in HasList
                         /\ turns'[n].pc \in Inside <=> turns[n].pc \in Inside
  BY <1>1, <1>2, <1>3 DEF HasList, Inside
<1>5. ConvType' BY <1>t, <1>1, <1>n, <1>o DEF ConvType
<1>6. Owned'
  <2>1. stored' = stored BY <1>1
  <2>2. \A n \in Message : turns'[n].pc \in HasList =>
          /\ \A v \in User : stored[v] = turns'[n].list => v = turns'[n].user
          /\ \A o \in Message :
               turns'[o].pc \in HasList /\ turns'[o].list = turns'[n].list =>
                 turns'[o].user = turns'[n].user
    BY ONLY <1>t, <1>n DEF Owned
  <2> QED BY <1>t, <2>1, <2>2 DEF Owned
<1>7. ASSUME NEW v \in User, v \notin overlapped', v # turns[m].user PROVE Talk(v)'
  <2>1. Talk(v) BY <1>t, <1>1, <1>7 DEF TalkInv
  <2>2. InTurn(v)' = InTurn(v) /\ \A n \in InTurn(v) : turns'[n] = turns[n]
    BY <1>t, <1>o, <1>n, <1>7, OthersTurns DEF Inside
  <2> QED BY <1>t, <1>1, <2>1, <2>2, TalkFrame
<1>8. ASSUME NEW u \in User, u = turns[m].user, u \notin overlapped' PROVE Talk(u)'
  <2>1. Talk(u) BY <1>t, <1>1, <1>8 DEF TalkInv
  <2>2. m \in InTurn(u) /\ turns[m].pc \in HasList
    BY <1>1, <1>8 DEF InTurn, HasList
  <2>3. InTurn(u) \subseteq {m} BY <2>1, <2>2 DEF Talk
  <2>4. InTurn(u)' \subseteq {m} BY <1>o, <2>3 DEF InTurn
  <2>5. /\ stored[u] \in {0, turns[m].list}
        /\ Asks(lists[turns[m].list], m) /\ Fits(lists[turns[m].list])
    BY <2>1, <2>2 DEF Talk
  <2>6. \A n \in InTurn(u)' : turns'[n].pc \in HasList =>
          /\ stored'[u] \in {0, turns'[n].list}
          /\ Asks(lists'[turns'[n].list], n) /\ Fits(lists'[turns'[n].list])
          /\ turns'[n].pc = "running" => turns'[n].prompt = lists'[turns'[n].list]
    BY <1>1, <1>n, <1>o, <2>4, <2>5
  <2>7. stored'[u] # 0 => Fits(lists'[stored'[u]]) /\ HasAnswer(lists'[stored'[u]])
    BY <1>1, <2>1 DEF Talk
  <2> QED BY <2>4, <2>6, <2>7 DEF Talk
<1> QED BY <1>5, <1>6, <1>7, <1>8 DEF ConvInv, TalkInv

LEMMA ConvSteps == ConvInv /\ [ConvNext]_convVars => ConvInv'
<1> SUFFICES ASSUME ConvInv, [ConvNext]_convVars PROVE ConvInv' OBVIOUS
<1>1. CASE UNCHANGED <<lists, stored, cached, turns, overlapped>> /\ clock' \in Nat
  BY <1>1 DEF ConvInv, ConvType, Owned, TalkInv, Talk, InTurn
<1>2. CASE Tick
  <2>1. clock \in Nat BY DEF ConvInv, ConvType
  <2> QED BY <1>1, <1>2, <2>1 DEF Tick
<1>3. CASE UNCHANGED convVars
  <2>1. clock \in Nat BY DEF ConvInv, ConvType
  <2> QED BY <1>1, <1>3, <2>1 DEF convVars
<1> QED BY <1>2, <1>3, BeginCachedKeeps, BeginExchangeKeeps, ExchangeEndsKeeps, RunAgentKeeps,
           AnsweredKeeps, DropKeeps DEF ConvNext

-----------------------------------------------------------------------------
LEMMA ConvAlways == ConvSpec => []ConvInv
BY ConvInitially, ConvSteps, PTL DEF ConvSpec

LEMMA InvAnswers == ConvInv => AnswersFitQuestions
<1> SUFFICES ASSUME ConvInv, NEW u \in User \ overlapped
             PROVE  /\ \A m \in InTurn(u) :
                         turns[m].pc = "running" =>
                           /\ Last(turns[m].prompt) = <<"user", m>>
                           /\ stored[u] # 0 => turns[m].prompt = History(u)
                    /\ \A i \in DOMAIN History(u) :
                         History(u)[i][1] = "assistant" =>
                           i > 1 /\ History(u)[i - 1] = <<"user", History(u)[i][2]>>
                    /\ stored[u] # 0 => \E i \in DOMAIN History(u) : History(u)[i][1] = "assistant"
  BY DEF AnswersFitQuestions
<1>1. Talk(u) /\ ConvType BY DEF ConvInv, TalkInv
<1>2. stored[u] \in Nat /\ stored[u] <= Len(lists) /\ lists \in Seq(Seq(Entry))
  BY <1>1 DEF ConvType
<1>3. ASSUME NEW m \in InTurn(u), turns[m].pc = "running"
      PROVE  /\ Last(turns[m].prompt) = <<"user", m>>
             /\ stored[u] # 0 => turns[m].prompt = History(u)
  <2>1. turns[m].pc \in HasList BY <1>3 DEF HasList
  <2>2. /\ turns[m].prompt = lists[turns[m].list]
        /\ Asks(lists[turns[m].list], m) /\ stored[u] \in {0, turns[m].list}
    BY <1>1, <1>3, <2>1 DEF Talk
  <2> QED BY <2>2 DEF Asks, Last, History
<1>4. CASE stored[u] = 0
  <2>1. History(u) = <<>> BY <1>4 DEF History
  <2>2. DOMAIN History(u) = {} BY <2>1
  <2> QED BY <1>3, <1>4, <2>2
<1>5. CASE stored[u] # 0
  <2>1. /\ History(u) = lists[stored[u]] /\ lists[stored[u]] \in Seq(Entry)
    BY <1>2, <1>5 DEF History
  <2>2. DOMAIN History(u) = 1 .. Len(lists[stored[u]]) BY <2>1
  <2>3. Fits(lists[stored[u]]) /\ HasAnswer(lists[stored[u]]) BY <1>1, <1>5 DEF Talk
  <2> QED BY <1>3, <2>1, <2>2, <2>3 DEF Fits, HasAnswer
<1> QED BY <1>4, <1>5

(* The memory of a user whose turns never overlap is a conversation: every *)
(* answer is stored after the question it answers, and the model reads the *)
(* user's own latest question last (agent.py process_user_message).        *)
THEOREM AnswersFit == ConvSpec => []AnswersFitQuestions
BY ConvAlways, InvAnswers, PTL

-----------------------------------------------------------------------------
(* What the cache and the turns know of their tokens.                      *)
TokenInv ==
  /\ \A u \in User : cached[u].until > 0 => cached[u].expiry = cached[u].until + Margin
  /\ (\A life \in Lifetime : life > Margin) =>
       \A m \in Message : turns[m].pc \in HasList /\ turns[m].expiry # 0 =>
         turns[m].expiry > turns[m].since + Margin

LEMMA TokenSteps ==
  ConvInv /\ TokenInv /\ [ConvNext]_convVars => TokenInv'
<1> SUFFICES ASSUME ConvInv, TokenInv, [ConvNext]_convVars PROVE TokenInv' OBVIOUS
<1>t. /\ ConvType /\ clock \in Nat /\ turns \in [Message -> TurnRec]
      /\ cached \in [User -> [until : Int, expiry : Nat]]
  BY DEF ConvInv, ConvType
<1>1. ASSUME NEW m \in Message, UNCHANGED cached,
             \A n \in Message : n # m => turns'[n] = turns[n],
             turns'[m].pc \in HasList =>
               /\ turns[m].pc \in HasList
               /\ turns'[m].expiry = turns[m].expiry /\ turns'[m].since = turns[m].since
      PROVE  TokenInv'
  BY <1>1 DEF TokenInv
<1>2. ASSUME NEW m \in Message, NEW u \in User, NEW x \in Nat, OpenHistory(m, u, x),
             \A v \in User : cached'[v].until > 0 =>
               cached'[v].expiry = cached'[v].until + Margin,
             (\A life \in Lifetime : life > Margin) => x = 0 \/ x > clock + Margin
      PROVE  TokenInv'
  <2>1. PICK l \in Nat, old \in Seq(Entry) : OpenedTurn(m, u, x, l)
    BY <1>t, <1>2, Opens
  <2>2. turns' = [turns EXCEPT ![m] = turns'[m]] BY <2>1 DEF OpenedTurn
  <2>3. turns'[m].expiry = x /\ turns'[m].since = clock BY <2>1 DEF OpenedTurn
  <2>4. \A n \in Message : n # m => turns'[n] = turns[n] BY <1>t, <2>2
  <2>5. (\A life \in Lifetime : life > Margin) =>
          \A n \in Message : turns'[n].pc \in HasList /\ turns'[n].expiry # 0 =>
            turns'[n].expiry > turns'[n].since + Margin
    BY <1>2, <2>3, <2>4 DEF TokenInv
  <2> QED BY <1>2, <2>5 DEF TokenInv
<1>3. ASSUME NEW m \in Message, NEW u \in User, BeginCached(m, u) PROVE TokenInv'
  <2>1. /\ OpenHistory(m, u, cached[u].expiry) /\ UNCHANGED cached
        /\ cached[u].until > clock
    BY <1>3 DEF BeginCached
  <2>2. cached[u].until \in Int /\ cached[u].expiry \in Nat BY <1>t
  <2>3. cached[u].expiry = cached[u].until + Margin BY <1>t, <2>1, <2>2 DEF TokenInv
  <2>4. \A v \in User : cached'[v].until > 0 =>
          cached'[v].expiry = cached'[v].until + Margin
    BY <2>1 DEF TokenInv
  <2>5. cached[u].expiry > clock + Margin BY <1>t, <2>1, <2>2, <2>3, ConversationAssumption
  <2> QED BY <1>2, <2>1, <2>2, <2>4, <2>5
<1>4. ASSUME NEW m \in Message, NEW u \in User, BeginExchange(m, u) PROVE TokenInv'
  <2>1. /\ turns' = [turns EXCEPT ![m] = [Waiting EXCEPT !.pc = "exchange", !.user = u]]
        /\ UNCHANGED cached
    BY <1>4 DEF BeginExchange
  <2>2. turns'[m] = [Waiting EXCEPT !.pc = "exchange", !.user = u] BY <1>t, <2>1
  <2>3. turns'[m].pc = "exchange" BY <2>2 DEF Waiting
  <2>4. \A n \in Message : n # m => turns'[n] = turns[n] BY <1>t, <2>1
  <2> QED BY <1>1, <2>1, <2>3, <2>4 DEF HasList
<1>5. ASSUME NEW m \in Message, ExchangeEnds(m) PROVE TokenInv'
  <2>u. turns[m].user \in User BY <1>t, <1>5 DEF ExchangeEnds, ConvType, Inside
  <2>1. CASE OpenHistory(m, turns[m].user, 0) /\ UNCHANGED cached
    BY <1>2, <2>u, <2>1 DEF TokenInv
  <2>2. ASSUME NEW life \in Lifetime, OpenHistory(m, turns[m].user, clock + life),
               cached' = [cached EXCEPT ![turns[m].user] =
                           [until |-> CacheUntil(clock + life), expiry |-> clock + life]]
        PROVE  TokenInv'
    <3>1. clock \in Nat /\ life \in Nat /\ Margin \in Nat /\ clock + life \in Nat
      BY <1>t, ConversationAssumption
    <3>2. \A v \in User : cached'[v].until > 0 =>
            cached'[v].expiry = cached'[v].until + Margin
      BY <1>t, <2>u, <2>2, <3>1 DEF TokenInv, CacheUntil
    <3>3. (\A g \in Lifetime : g > Margin) => clock + life > clock + Margin
      BY ONLY <3>1, life \in Lifetime
    <3> QED BY <1>2, <2>u, <2>2, <3>1, <3>2, <3>3
  <2> QED BY <1>5, <2>1, <2>2 DEF ExchangeEnds
<1>6. ASSUME NEW m \in Message, RunAgent(m) PROVE TokenInv'
  <2>1. /\ turns' = [turns EXCEPT ![m].pc = "running", ![m].prompt = lists[turns[m].list]]
        /\ UNCHANGED cached /\ turns[m].pc \in HasList
    BY <1>6 DEF RunAgent, HasList
  <2>2. turns[m] \in TurnRec BY <1>t
  <2>3. turns'[m].expiry = turns[m].expiry /\ turns'[m].since = turns[m].since
    BY <1>t, <2>1, <2>2 DEF TurnRec
  <2>4. \A n \in Message : n # m => turns'[n] = turns[n] BY <1>t, <2>1
  <2> QED BY <1>1, <2>1, <2>3, <2>4
<1>7. ASSUME NEW m \in Message, Answered(m) \/ Unanswered(m) \/ Forgets(m) PROVE TokenInv'
  <2>1. Over(m) /\ UNCHANGED cached BY <1>7 DEF Answered, Unanswered, Forgets
  <2>2. turns'[m].pc = "over" /\ \A n \in Message : n # m => turns'[n] = turns[n]
    BY <1>t, <2>1, OverTurns
  <2> QED BY <1>1, <2>1, <2>2 DEF HasList
<1>8. CASE Tick \/ UNCHANGED convVars
  BY <1>8 DEF TokenInv, Tick, convVars
<1> QED BY <1>3, <1>4, <1>5, <1>6, <1>7, <1>8 DEF ConvNext

LEMMA TokenAlways == ConvSpec => []TokenInv
<1>1. ConvInit => TokenInv
  <2> SUFFICES ASSUME ConvInit PROVE TokenInv OBVIOUS
  <2>1. \A m \in Message : turns[m].pc = "idle" BY DEF ConvInit, Waiting
  <2>2. \A u \in User : cached[u].until = 0 BY DEF ConvInit
  <2> QED BY <2>1, <2>2 DEF TokenInv, HasList
<1> QED BY <1>1, TokenSteps, ConvAlways, PTL DEF ConvSpec

LEMMA InvTokens == ConvInv /\ TokenInv => TokensOutliveTheMargin
<1> SUFFICES ASSUME ConvInv, TokenInv, NEW m \in Message,
                    turns[m].pc = "running", turns[m].expiry # 0,
                    \A life \in Lifetime : life > Margin
             PROVE  clock - turns[m].since > Margin \/ turns[m].expiry > clock
  BY DEF TokensOutliveTheMargin
<1>1. turns[m] \in TurnRec /\ clock \in Nat BY DEF ConvInv, ConvType
<1>2. turns[m].since \in Nat /\ turns[m].expiry \in Nat BY <1>1 DEF TurnRec
<1>3. turns[m].expiry > turns[m].since + Margin BY DEF TokenInv, HasList
<1> QED BY <1>1, <1>2, <1>3, ConversationAssumption

(* If fresh tokens live longer than the margin, a token a turn works with  *)
(* is still valid while the turn is younger than the margin, whether it    *)
(* came from the cache or from the broker (agent.py _exchange_user_token). *)
THEOREM TokensOutlive == ConvSpec => []TokensOutliveTheMargin
BY ConvAlways, TokenAlways, InvTokens, PTL

-----------------------------------------------------------------------------
(* A turn and its bookkeeping, AgentTurn.                                  *)
USE AgentAssumption

(* The turn was cancelled by its watchdog.                                 *)
Cancelled == turn \in {"closing", "timedout"}

(* A root that reports a failure although its call may be charged.         *)
RootMayMisreport(b) == b = Root /\ (Raised # {} \/ (Cowork /\ Cancelled))

(* Before the call: nothing was charged, emitted or reported.              *)
BeforeCall(b) ==
  /\ Pc(b) = "idle" =>
       ledger[b] = "none" /\ calls[b].reply = "none" /\ calls[b].result = "none"
  /\ Pc(b) \in {"asking", "calling"} => calls[b].result = "none"
  /\ Pc(b) = "asking" => /\ calls[b].reply = "none"
                         /\ ledger[b] \in {"asked", "held", "refused"}
  /\ Pc(b) \in {"idle", "asking"} => provider[b] = "none"
  /\ Pc(b) \in {"idle", "asking", "calling"} =>
       b \notin events /\ \A r \in Report : reports[b][r] = "none"

(* Ledger and reports agree about the reservation.                         *)
Settling(b) ==
  /\ calls[b].reply = "held" => ledger[b] \in {"held", "booked", "released"}
  /\ \A r \in Report : reports[b][r] # "none" => calls[b].reply = "held"
  /\ \A r \in Report : reports[b][r] = "arrived" => ledger[b] \in {"booked", "released"}
  /\ ledger[b] = "booked" => reports[b]["usage"] = "arrived"
  /\ ledger[b] = "released" => reports[b]["failed"] = "arrived"
  /\ ledger[b] # "none" => governed

(* A bracket that got its reservation confirmed and moved on has reported. *)
Reporting(b) ==
  /\ calls[b].reply = "held" =>
       \/ Pc(b) = "calling"
       \/ Pc(b) = "cut" /\ ~(b = Root /\ Cowork)
       \/ \E r \in Report : reports[b][r] # "none"
  /\ Pc(b) = "using" => reports[b]["failed"] = "none"
  /\ (\A r \in Report : reports[b][r] # "none") => b = Root /\ Cowork /\ Cancelled

(* What the reports and results say about the provider.                    *)
Truthful(b) ==
  /\ reports[b]["usage"] # "none" => provider[b] = "charged" \/ (b = Root /\ kind = "direct")
  /\ reports[b]["failed"] # "none" => provider[b] = "failed" \/ RootMayMisreport(b)
  /\ Pc(b) \in {"using", "failing", "done"} =>
       provider[b] \in {"none", "failed"} \/ b \in events \/ (b = Root /\ (Cowork \/ Raised # {}))
  /\ b \in Specialist /\ calls[b].result = "answer" => provider[b] = "charged" \/ b \in GraphAgent

PerBracket(b) == BeforeCall(b) /\ Settling(b) /\ Reporting(b) /\ Truthful(b)

(* The turn as a whole: what is over stays quiet, the tools of a root's    *)
(* call end before it does, and a monitor's synthesis has all its evidence. *)
Whole ==
  /\ turn = "new" => ~governed
  /\ Cancelled => \A b \in Bracket : Pc(b) \notin {"asking", "calling", "using"}
  /\ kind # "monitor" /\ (Pc(Root) = "calling" => provider[Root] \in {"charged", "failed"})
       => Busy = {}
  /\ kind = "direct" => provider[Root] = "none"
  /\ kind = "monitor" /\ Pc(Root) # "idle" => Complete
  /\ turn = "answered" => Pc(Root) # "idle"

IInv == TypeOK /\ (\A b \in Bracket : PerBracket(b)) /\ Whole

LEMMA InitInv == Init => IInv
<1> SUFFICES ASSUME Init PROVE IInv
  OBVIOUS
<1>1. TypeOK
  BY DEF Init, TypeOK, NoCall, Ended, Report, Active
<1>2. \A b \in Bracket : PerBracket(b)
  BY DEF Init, PerBracket, BeforeCall, Settling, Reporting, Truthful, NoCall, Pc, Report, RootMayMisreport
<1>3. Whole
  BY DEF Init, NoCall, Pc, Bracket, Whole, Cancelled, Busy, Active
<1> QED
  BY <1>1, <1>2, <1>3 DEF IInv

-----------------------------------------------------------------------------
(* What the helpers of the bracket do to it.                               *)

Call == [pc : {"idle", "done", "cut"} \cup Active,
         reply : {"none", "held", "refused", "lost"},
         result : {"none", "answer", "consent", "unavailable", "raised"}]

(* A step of one bracket leaves the others' code where it is.              *)
LEMMA StepShape ==
  ASSUME calls \in [Bracket -> Call], NEW b \in Bracket, NEW next \in Call, Step(b, next)
  PROVE  /\ calls' \in [Bracket -> Call] /\ calls'[b] = next
         /\ \A c \in Bracket : c # b => calls'[c] = calls[c]
  BY DEF Step

LEMMA CallProviderShape ==
  ASSUME TypeOK, NEW b \in Bracket, NEW reply \in {"none", "held", "lost"},
         CallProvider(b, reply)
  PROVE  /\ calls' \in [Bracket -> Call]
         /\ calls'[b].pc = "calling" /\ calls'[b].reply = reply
         /\ calls'[b].result = "none"
         /\ \A c \in Bracket : c # b => calls'[c] = calls[c] /\ provider'[c] = provider[c]
         /\ provider' \in [Bracket -> {"none", "running", "charged", "failed"}]
         /\ provider'[b] = IF b = Root /\ kind = "direct" THEN provider[b] ELSE "running"
<1>1. calls \in [Bracket -> Call] /\ provider \in [Bracket -> {"none", "running", "charged", "failed"}]
  BY DEF TypeOK, Call
<1> DEFINE next == [pc |-> "calling", reply |-> reply, result |-> "none"]
<1>2. /\ next \in Call /\ next.pc = "calling" /\ next.reply = reply
      /\ next.result = "none"
  BY DEF Call, Active, Active
<1>3. Step(b, next)
  BY DEF CallProvider
<1>4. calls' \in [Bracket -> Call] /\ calls'[b] = next
      /\ \A c \in Bracket : c # b => calls'[c] = calls[c]
  BY <1>1, <1>2, <1>3, StepShape
<1> HIDE DEF next
<1> QED
  BY <1>1, <1>2, <1>4 DEF CallProvider

LEMMA SendShape ==
  ASSUME TypeOK, NEW b \in Bracket, NEW r \in Report,
         NEW result \in {"answer", "consent", "unavailable", "raised"}, Send(b, r, result)
  PROVE  /\ calls' \in [Bracket -> Call]
         /\ calls'[b].pc = IF calls[b].reply # "held" THEN "done"
                           ELSE IF r = "usage" THEN "using" ELSE "failing"
         /\ calls'[b].reply = calls[b].reply /\ calls'[b].result = result
         /\ \A c \in Bracket : c # b => calls'[c] = calls[c] /\ reports'[c] = reports[c]
         /\ reports' \in [Bracket -> [Report -> {"none", "sent", "arrived", "lost"}]]
         /\ \A q \in Report : reports'[b][q] =
               IF q = r /\ calls[b].reply = "held" THEN "sent" ELSE reports[b][q]
<1>1. calls \in [Bracket -> Call] /\ reports \in [Bracket -> [Report -> {"none", "sent", "arrived", "lost"}]]
  BY DEF TypeOK, Call
<1> DEFINE pc == IF calls[b].reply # "held" THEN "done"
                 ELSE IF r = "usage" THEN "using" ELSE "failing"
           next == [pc |-> pc, reply |-> calls[b].reply, result |-> result]
<1>2. /\ next \in Call /\ next.pc = pc /\ next.reply = calls[b].reply
      /\ next.result = result
  BY <1>1 DEF Call, Active
<1>3. Step(b, next)
  BY DEF Send
<1>4. calls' \in [Bracket -> Call] /\ calls'[b] = next
      /\ \A c \in Bracket : c # b => calls'[c] = calls[c]
  BY <1>1, <1>2, <1>3, StepShape
<1>5. /\ \A c \in Bracket : c # b => reports'[c] = reports[c]
      /\ reports' \in [Bracket -> [Report -> {"none", "sent", "arrived", "lost"}]]
      /\ \A q \in Report : reports'[b][q] =
            IF q = r /\ calls[b].reply = "held" THEN "sent" ELSE reports[b][q]
  BY <1>1 DEF Send
<1> HIDE DEF next
<1> QED
  BY <1>2, <1>4, <1>5

-----------------------------------------------------------------------------
(* Every action keeps it; the bracket that moves is treated apart.         *)

USE DEF PerBracket, BeforeCall, Settling, Reporting, Truthful, RootMayMisreport, Cancelled, Cowork, Pc, Report

LEMMA PostcallInv ==
  ASSUME IInv, NEW b \in Bracket, NEW r \in Report, Postcall(b, r)
  PROVE  IInv'
<1>1. TypeOK'
  BY DEF IInv, TypeOK, Postcall, Call, Active, Ended
<1>2. Raised # {} => Raised' # {}
  BY DEF IInv, TypeOK, Postcall, Raised, Bracket
<1>3. ASSUME NEW c \in Bracket PROVE PerBracket(c)'
  <2>1. CASE c = b
    BY <1>2, <2>1 DEF IInv, TypeOK, Postcall
  <2>2. CASE c # b
    BY <1>2, <2>2 DEF IInv, TypeOK, Postcall
  <2> QED
    BY <2>1, <2>2
<1>4. Whole'
  BY DEF IInv, TypeOK, Postcall, Whole, Complete, Bracket, Busy, Active
<1> QED
  BY <1>1, <1>3, <1>4 DEF IInv

LEMMA LoseReportInv ==
  ASSUME IInv, NEW b \in Bracket, NEW r \in Report, LoseReport(b, r)
  PROVE  IInv'
<1>1. TypeOK'
  BY DEF IInv, TypeOK, LoseReport, Call, Active, Ended
<1>2. Raised # {} => Raised' # {}
  BY DEF IInv, TypeOK, LoseReport, Raised, Bracket
<1>3. ASSUME NEW c \in Bracket PROVE PerBracket(c)'
  <2>1. CASE c = b
    BY <1>2, <2>1 DEF IInv, TypeOK, LoseReport
  <2>2. CASE c # b
    BY <1>2, <2>2 DEF IInv, TypeOK, LoseReport
  <2> QED
    BY <2>1, <2>2
<1>4. Whole'
  BY DEF IInv, TypeOK, LoseReport, Whole, Complete, Bracket, Busy, Active
<1> QED
  BY <1>1, <1>3, <1>4 DEF IInv

LEMMA PrecallInv ==
  ASSUME IInv, NEW b \in Bracket, Precall(b)
  PROVE  IInv'
<1>1. TypeOK'
  BY DEF IInv, TypeOK, Precall, Call, Active, Ended
<1>2. Raised # {} => Raised' # {}
  BY DEF IInv, TypeOK, Precall, Raised, Bracket
<1>3. ASSUME NEW c \in Bracket PROVE PerBracket(c)'
  <2>1. CASE c = b
    BY <1>2, <2>1 DEF IInv, TypeOK, Precall
  <2>2. CASE c # b
    BY <1>2, <2>2 DEF IInv, TypeOK, Precall
  <2> QED
    BY <2>1, <2>2
<1>4. Whole'
  BY DEF IInv, TypeOK, Precall, Whole, Complete, Bracket, Busy, Active
<1> QED
  BY <1>1, <1>3, <1>4 DEF IInv

LEMMA ProviderEndsInv ==
  ASSUME IInv, NEW b \in Bracket, ProviderEnds(b)
  PROVE  IInv'
<1>1. TypeOK'
  BY DEF IInv, TypeOK, ProviderEnds, Call, Active, Ended
<1>2. Raised # {} => Raised' # {}
  BY DEF IInv, TypeOK, ProviderEnds, Raised, Bracket
<1>3. ASSUME NEW c \in Bracket PROVE PerBracket(c)'
  <2>1. CASE c = b
    BY <1>2, <2>1 DEF IInv, TypeOK, ProviderEnds
  <2>2. CASE c # b
    BY <1>2, <2>2 DEF IInv, TypeOK, ProviderEnds
  <2> QED
    BY <2>1, <2>2
<1>4. Whole'
  BY DEF IInv, TypeOK, ProviderEnds, Whole, Complete, Bracket, Busy, Active
<1> QED
  BY <1>1, <1>3, <1>4 DEF IInv

LEMMA ReportedInv ==
  ASSUME IInv, NEW b \in Bracket, Reported(b)
  PROVE  IInv'
<1>1. TypeOK'
  BY DEF IInv, TypeOK, Reported, Call, Active, Ended, Step
<1>2. Raised # {} => Raised' # {}
  BY DEF IInv, TypeOK, Reported, Raised, Bracket, Step
<1>3. ASSUME NEW c \in Bracket PROVE PerBracket(c)'
  <2>1. CASE c = b
    BY <1>2, <2>1 DEF IInv, TypeOK, Reported, Step
  <2>2. CASE c # b
    BY <1>2, <2>2 DEF IInv, TypeOK, Reported, Step
  <2> QED
    BY <2>1, <2>2
<1>4. Whole'
  BY DEF IInv, TypeOK, Reported, Whole, Complete, Bracket, Busy, Active, Step
<1> QED
  BY <1>1, <1>3, <1>4 DEF IInv

(* A model call begins: without the ledger, on its word, or unheard.       *)
LEMMA CallStarts ==
  ASSUME IInv, NEW b \in Bracket, NEW reply \in {"none", "held", "lost"},
         CallProvider(b, reply), Pc(b) \in {"idle", "asking"}, ~Cancelled,
         reply = "held" => ledger[b] = "held",
         b = Root /\ kind = "monitor" => Complete,
         b \in Specialist /\ kind # "monitor" =>
           Pc(Root) = "calling" /\ provider[Root] \notin {"charged", "failed"},
         UNCHANGED <<kind, governed, turn, ledger, reports, events>>
  PROVE  IInv'
<1>0. /\ calls' \in [Bracket -> Call]
      /\ calls'[b].pc = "calling" /\ calls'[b].reply = reply /\ calls'[b].result = "none"
      /\ \A c \in Bracket : c # b => calls'[c] = calls[c] /\ provider'[c] = provider[c]
      /\ provider' \in [Bracket -> {"none", "running", "charged", "failed"}]
      /\ provider'[b] = IF b = Root /\ kind = "direct" THEN provider[b] ELSE "running"
  BY CallProviderShape DEF IInv
<1>1. TypeOK'
  BY <1>0 DEF IInv, TypeOK, Call, Active, Ended
<1>2. Raised # {} => Raised' # {}
  BY <1>0 DEF IInv, TypeOK, Raised, Bracket
<1>3. ASSUME NEW c \in Bracket PROVE PerBracket(c)'
  <2>1. CASE c = b
    BY <1>2, <2>1, <1>0 DEF IInv, TypeOK
  <2>2. CASE c # b
    BY <1>2, <2>2, <1>0 DEF IInv, TypeOK
  <2> QED
    BY <2>1, <2>2
<1>4. Whole'
  BY <1>0 DEF IInv, TypeOK, Whole, Complete, Bracket, Busy, Active
<1> QED
  BY <1>1, <1>3, <1>4 DEF IInv

LEMMA UnheardInv ==
  ASSUME IInv, NEW b \in Bracket, Unheard(b)
  PROVE  IInv'
<1>1. /\ ~Cancelled /\ (b = Root /\ kind = "monitor" => Complete)
      /\ (b \in Specialist /\ kind # "monitor" =>
            Pc(Root) = "calling" /\ provider[Root] \notin {"charged", "failed"})
  BY DEF IInv, Whole, Busy, Active, Bracket, Unheard
<1> QED
  BY <1>1, CallStarts DEF Unheard

(* A bracket ends before its call: refused, raised, or the graph answered. *)
LEMMA CallSkipped ==
  ASSUME IInv, NEW b \in Bracket, NEW reply \in {"none", "refused"},
         NEW result \in {"answer", "raised"},
         Step(b, [pc |-> "done", reply |-> reply, result |-> result]),
         Pc(b) \in {"idle", "asking"}, ~Cancelled,
         result = "answer" => b \in Specialist \cap GraphAgent,
         b = Root /\ kind = "monitor" => Complete,
         b \in Specialist /\ kind # "monitor" =>
           Pc(Root) = "calling" /\ provider[Root] \notin {"charged", "failed"},
         UNCHANGED <<kind, governed, turn, ledger, provider, reports, events>>
  PROVE  IInv'
<1> DEFINE next == [pc |-> "done", reply |-> reply, result |-> result]
<1>0. /\ calls' \in [Bracket -> Call]
      /\ calls'[b].pc = "done" /\ calls'[b].reply = reply /\ calls'[b].result = result
      /\ \A c \in Bracket : c # b => calls'[c] = calls[c]
  <2>1. next \in Call /\ next.pc = "done" /\ next.reply = reply /\ next.result = result
    BY DEF Call
  <2>2. calls \in [Bracket -> Call] /\ Step(b, next)
    BY DEF IInv, TypeOK, Call
  <2> HIDE DEF next
  <2> QED
    BY <2>1, <2>2, StepShape
<1> HIDE DEF next
<1>1. TypeOK'
  BY <1>0 DEF IInv, TypeOK, Call, Active, Ended
<1>2. Raised # {} => Raised' # {}
  BY <1>0 DEF IInv, TypeOK, Raised, Bracket
<1>3. ASSUME NEW c \in Bracket PROVE PerBracket(c)'
  <2>1. CASE c = b
    BY <1>2, <2>1, <1>0 DEF IInv, TypeOK
  <2>2. CASE c # b
    BY <1>2, <2>2, <1>0 DEF IInv, TypeOK
  <2> QED
    BY <2>1, <2>2
<1>4. Whole'
  BY <1>0 DEF IInv, TypeOK, Whole, Complete, Bracket, Busy, Active
<1> QED
  BY <1>1, <1>3, <1>4 DEF IInv

LEMMA HearInv ==
  ASSUME IInv, NEW b \in Bracket, Hear(b)
  PROVE  IInv'
<1>1. /\ ~Cancelled /\ (b = Root /\ kind = "monitor" => Complete)
      /\ (b \in Specialist /\ kind # "monitor" =>
            Pc(Root) = "calling" /\ provider[Root] \notin {"charged", "failed"})
  BY DEF IInv, Whole, Busy, Active, Bracket, Hear
<1>2. CASE ledger[b] = "held" /\ CallProvider(b, "held")
  BY <1>1, <1>2, CallStarts DEF Hear
<1>3. CASE /\ UNCHANGED provider
           /\ Step(b, [pc |-> "done", reply |-> "refused", result |-> "raised"])
  BY <1>1, <1>3, CallSkipped DEF Hear
<1> QED
  BY <1>2, <1>3 DEF Hear

(* The ledger is asked.                                                    *)
LEMMA AskStarts ==
  ASSUME IInv, NEW b \in Bracket, Step(b, [calls[b] EXCEPT !.pc = "asking"]),
         ledger' = [ledger EXCEPT ![b] = "asked"], governed, Pc(b) = "idle", ~Cancelled,
         b = Root /\ kind = "monitor" => Complete,
         b \in Specialist /\ kind # "monitor" =>
           Pc(Root) = "calling" /\ provider[Root] \notin {"charged", "failed"},
         UNCHANGED <<kind, governed, turn, provider, reports, events>>
  PROVE  IInv'
<1>1. TypeOK'
  BY DEF IInv, TypeOK, Call, Active, Ended, Step
<1>2. Raised # {} => Raised' # {}
  BY DEF IInv, TypeOK, Raised, Bracket, Step
<1>3. ASSUME NEW c \in Bracket PROVE PerBracket(c)'
  <2>1. CASE c = b
    BY <1>2, <2>1 DEF IInv, TypeOK, Step
  <2>2. CASE c # b
    BY <1>2, <2>2 DEF IInv, TypeOK, Step
  <2> QED
    BY <2>1, <2>2
<1>4. Whole'
  BY DEF IInv, TypeOK, Whole, Complete, Bracket, Busy, Active, Step
<1> QED
  BY <1>1, <1>3, <1>4 DEF IInv

LEMMA EnterInv ==
  ASSUME IInv, NEW b \in Bracket, Enter(b), Pc(b) = "idle", ~Cancelled,
         b = Root /\ kind = "monitor" => Complete,
         b \in Specialist /\ kind # "monitor" =>
           Pc(Root) = "calling" /\ provider[Root] \notin {"charged", "failed"}
  PROVE  IInv'
<1>1. CASE governed
  BY <1>1, AskStarts DEF Enter
<1>2. CASE ~governed
  BY <1>2, CallStarts DEF Enter
<1> QED
  BY <1>1, <1>2

LEMMA StartsInv ==
  ASSUME IInv,
         \/ StartRoot
         \/ \E s \in Specialist : StartSpecialist(s) \/ AnswerFromGraph(s)
  PROVE  IInv'
<1>1. CASE StartRoot
  BY <1>1, EnterInv DEF StartRoot, Bracket
<1>2. ASSUME NEW s \in Specialist, StartSpecialist(s) PROVE IInv'
  <2>1. /\ s \in Bracket /\ s # Root /\ Pc(s) = "idle" /\ ~Cancelled
        /\ kind # "monitor" => Pc(Root) = "calling" /\ provider[Root] \notin {"charged", "failed"}
    BY <1>2 DEF StartSpecialist, MayStart, Bracket, IInv, Whole
  <2>2. CASE s \notin available \/ (s \in DelegatedAgent /\ ~identity)
    BY <1>2, <2>1, <2>2, CallSkipped DEF StartSpecialist
  <2>3. CASE ~(s \notin available \/ (s \in DelegatedAgent /\ ~identity))
    BY <1>2, <2>1, <2>3, EnterInv DEF StartSpecialist
  <2> QED
    BY <2>2, <2>3
<1>3. ASSUME NEW s \in Specialist, AnswerFromGraph(s) PROVE IInv'
  BY <1>3, CallSkipped DEF AnswerFromGraph, MayStart, Bracket, IInv, Whole
<1> QED
  BY <1>1, <1>2, <1>3

(* The call succeeded and its usage is reported.                           *)
LEMMA UsageSent ==
  ASSUME IInv, NEW b \in Bracket, NEW result \in {"answer", "consent"},
         Send(b, "usage", result), Pc(b) = "calling",
         b = Root /\ kind # "monitor" => Busy = {},
         provider[b] = "charged" \/ (b = Root /\ kind = "direct"),
         events' = IF b # Root \/ ~Cowork THEN events \cup {b} ELSE events,
         UNCHANGED <<kind, governed, turn, ledger, provider>>
  PROVE  IInv'
<1>0. /\ calls' \in [Bracket -> Call]
      /\ calls'[b].pc = IF calls[b].reply # "held" THEN "done" ELSE "using"
      /\ calls'[b].reply = calls[b].reply /\ calls'[b].result = result
      /\ \A c \in Bracket : c # b => calls'[c] = calls[c] /\ reports'[c] = reports[c]
      /\ reports' \in [Bracket -> [Report -> {"none", "sent", "arrived", "lost"}]]
      /\ \A q \in Report : reports'[b][q] =
            IF q = "usage" /\ calls[b].reply = "held" THEN "sent" ELSE reports[b][q]
  BY SendShape, "usage" \in Report DEF IInv
<1>1. TypeOK'
  BY <1>0 DEF IInv, TypeOK, Call, Active, Ended
<1>2. Raised # {} => Raised' # {}
  BY <1>0 DEF IInv, TypeOK, Raised, Bracket
<1>3. ASSUME NEW c \in Bracket PROVE PerBracket(c)'
  <2>1. CASE c = b
    BY <1>2, <2>1, <1>0 DEF IInv, TypeOK
  <2>2. CASE c # b
    BY <1>2, <2>2, <1>0 DEF IInv, TypeOK
  <2> QED
    BY <2>1, <2>2
<1>4. Whole'
  BY <1>0 DEF IInv, TypeOK, Whole, Complete, Bracket, Busy, Active
<1> QED
  BY <1>1, <1>3, <1>4 DEF IInv

(* The call failed and its failure is reported.                            *)
LEMMA FailureSent ==
  ASSUME IInv, NEW b \in Bracket, NEW result \in {"unavailable", "raised"},
         Send(b, "failed", result), Pc(b) = "calling",
         b = Root /\ kind # "monitor" => Busy = {},
         provider[b] = "failed" \/ (b = Root /\ Raised # {}),
         UNCHANGED <<kind, governed, turn, ledger, provider, events>>
  PROVE  IInv'
<1>0. /\ calls' \in [Bracket -> Call]
      /\ calls'[b].pc = IF calls[b].reply # "held" THEN "done" ELSE "failing"
      /\ calls'[b].reply = calls[b].reply /\ calls'[b].result = result
      /\ \A c \in Bracket : c # b => calls'[c] = calls[c] /\ reports'[c] = reports[c]
      /\ reports' \in [Bracket -> [Report -> {"none", "sent", "arrived", "lost"}]]
      /\ \A q \in Report : reports'[b][q] =
            IF q = "failed" /\ calls[b].reply = "held" THEN "sent" ELSE reports[b][q]
  BY SendShape, "failed" \in Report DEF IInv
<1>1. TypeOK'
  BY <1>0 DEF IInv, TypeOK, Call, Active, Ended
<1>2. Raised # {} => Raised' # {}
  BY <1>0 DEF IInv, TypeOK, Raised, Bracket
<1>3. ASSUME NEW c \in Bracket PROVE PerBracket(c)'
  <2>1. CASE c = b
    BY <1>2, <2>1, <1>0 DEF IInv, TypeOK
  <2>2. CASE c # b
    BY <1>2, <2>2, <1>0 DEF IInv, TypeOK
  <2> QED
    BY <2>1, <2>2
<1>4. Whole'
  BY <1>0 DEF IInv, TypeOK, Whole, Complete, Bracket, Busy, Active
<1> QED
  BY <1>1, <1>3, <1>4 DEF IInv

LEMMA EndsInv ==
  ASSUME IInv, NEW b \in Bracket, Returns(b) \/ Fails(b)
  PROVE  IInv'
<1>1. CASE Returns(b)
  <2>1. provider[b] = "charged" \/ (b = Root /\ kind = "direct")
    BY <1>1 DEF Returns, CallSucceeded
  <2>0. b = Root /\ kind # "monitor" => Busy = {}
    BY <1>1 DEF Returns, CallSucceeded, IInv, Whole
  <2>2. PICK result \in {"answer", "consent"} : Send(b, "usage", result)
    BY <1>1 DEF Returns
  <2> QED
    BY <1>1, <2>0, <2>1, <2>2, UsageSent DEF Returns, Emits
<1>2. CASE Fails(b)
  <2>1. provider[b] = "failed" \/ (b = Root /\ Raised # {})
    BY <1>2 DEF Fails, CallFailed
  <2>0. b = Root /\ kind # "monitor" => Busy = {}
    BY <1>2 DEF Fails, CallFailed, IInv, Whole
  <2>2. PICK result \in {"unavailable", "raised"} : Send(b, "failed", result)
    BY <1>2 DEF Fails
  <2> QED
    BY <1>2, <2>0, <2>1, <2>2, FailureSent DEF Fails
<1> QED
  BY <1>1, <1>2

(* What the watchdog does to one bracket: nothing, a last report, or a cut. *)
LEMMA WatchdogShape ==
  ASSUME IInv, Watchdog, NEW c \in Bracket
  PROVE  /\ calls'[c] \in Call /\ reports'[c] \in [Report -> {"none", "sent", "arrived", "lost"}]
         /\ \/ /\ Pc(c) \notin Active
               /\ calls'[c] = calls[c] /\ reports'[c] = reports[c]
            \/ /\ c = Root /\ Cowork /\ Pc(c) \in {"calling", "using"} /\ calls[c].reply = "held"
               /\ calls'[c].pc = "failing" /\ calls'[c].reply = "held" /\ calls'[c].result = "raised"
               /\ reports'[c]["failed"] = "sent" /\ reports'[c]["usage"] = reports[c]["usage"]
            \/ /\ Pc(c) \in Active
               /\ ~(c = Root /\ Cowork /\ Pc(c) \in {"calling", "using"} /\ calls[c].reply = "held")
               /\ calls'[c].pc = "cut" /\ calls'[c].reply = calls[c].reply
               /\ calls'[c].result = calls[c].result /\ reports'[c] = reports[c]
<1>1. /\ calls[c] \in Call /\ calls'[c] = AfterCancel(c)
      /\ reports[c] \in [Report -> {"none", "sent", "arrived", "lost"}]
      /\ reports'[c] = IF calls'[c].pc = "failing" /\ Pc(c) \in {"calling", "using"}
                       THEN [reports[c] EXCEPT !["failed"] = "sent"] ELSE reports[c]
  BY DEF IInv, TypeOK, Call, Watchdog
<1>2. CASE Pc(c) \notin Active
  BY <1>1, <1>2 DEF AfterCancel, Active
<1>3. CASE /\ c = Root /\ Cowork /\ Pc(c) \in {"calling", "using"} /\ calls[c].reply = "held"
  <2>1. calls'[c] = [pc |-> "failing", reply |-> "held", result |-> "raised"]
    BY <1>1, <1>3 DEF AfterCancel, Active
  <2> QED
    BY <1>1, <1>3, <2>1 DEF Call, Active
<1>4. CASE /\ Pc(c) \in Active
           /\ ~(c = Root /\ Cowork /\ Pc(c) \in {"calling", "using"} /\ calls[c].reply = "held")
  <2>1. calls'[c] = [calls[c] EXCEPT !.pc = "cut"]
    BY <1>1, <1>4 DEF AfterCancel
  <2>2. calls'[c] \in Call /\ calls'[c].pc = "cut" /\ calls'[c].reply = calls[c].reply
        /\ calls'[c].result = calls[c].result
    BY <1>1, <2>1 DEF Call
  <2> QED
    BY <1>1, <1>4, <2>2
<1> QED
  BY <1>2, <1>3, <1>4

LEMMA WatchdogInv ==
  ASSUME IInv, Watchdog
  PROVE  IInv'
<1>1. TypeOK'
  <2>1. /\ calls' \in [Bracket -> Call]
        /\ reports' \in [Bracket -> [Report -> {"none", "sent", "arrived", "lost"}]]
    <3>1. calls' = [b \in Bracket |-> calls'[b]] /\ reports' = [b \in Bracket |-> reports'[b]]
      BY DEF Watchdog
    <3> QED
      BY <3>1, WatchdogShape
  <2>2. ASSUME NEW c \in Bracket
        PROVE  (\E r \in Report : reports'[c][r] # "none") => ledger[c] \in {"held", "booked", "released"}
    BY WatchdogShape DEF IInv, TypeOK
  <2>3. UNCHANGED <<kind, governed, ledger, provider, events>> /\ turn' = "closing"
    BY DEF Watchdog
  <2> QED
    BY <2>1, <2>2, <2>3 DEF IInv, TypeOK, Call
<1>2. Raised # {} => Raised' # {}
  BY WatchdogShape DEF Raised, Bracket
<1>3. UNCHANGED <<kind, governed, ledger, provider, events>> /\ turn' = "closing" /\ kind # "monitor"
  BY DEF Watchdog, Cowork
<1>4. ASSUME NEW c \in Bracket PROVE PerBracket(c)'
  <2>1. CASE Pc(c) \notin Active /\ calls'[c] = calls[c] /\ reports'[c] = reports[c]
    BY <1>2, <1>3, <2>1 DEF IInv, TypeOK
  <2>2. CASE /\ c = Root /\ Cowork /\ Pc(c) \in {"calling", "using"} /\ calls[c].reply = "held"
             /\ calls'[c].pc = "failing" /\ calls'[c].reply = "held" /\ calls'[c].result = "raised"
             /\ reports'[c]["failed"] = "sent" /\ reports'[c]["usage"] = reports[c]["usage"]
    BY <1>2, <1>3, <2>2 DEF IInv, TypeOK
  <2>3. CASE /\ Pc(c) \in Active
             /\ ~(c = Root /\ Cowork /\ Pc(c) \in {"calling", "using"} /\ calls[c].reply = "held")
             /\ calls'[c].pc = "cut" /\ calls'[c].reply = calls[c].reply
             /\ calls'[c].result = calls[c].result /\ reports'[c] = reports[c]
    BY <1>2, <1>3, <2>3 DEF IInv, TypeOK, Active
  <2> QED
    BY <2>1, <2>2, <2>3, WatchdogShape
<1>5. Whole'
  <2>1. \A c \in Bracket : Pc(c)' \notin {"asking", "calling", "using"}
    BY WatchdogShape DEF Active
  <2>2. Busy' = {}
    BY WatchdogShape DEF Busy, Active, Bracket
  <2> QED
    BY <1>3, <2>1, <2>2 DEF Whole, IInv
<1> QED
  BY <1>1, <1>4, <1>5 DEF IInv

(* The turn begins or ends; no bracket moves.                              *)
LEMMA TurnInv ==
  ASSUME IInv, CreateRun \/ NoIdentity \/ EndTurn \/ RetryLater
  PROVE  IInv'
<1>1. /\ UNCHANGED <<kind, calls, ledger, provider, reports, events>>
      /\ governed' \in BOOLEAN /\ (governed => governed')
      /\ Cancelled => Cancelled'
      /\ turn' \in {"running"} \cup Ended
      /\ Cancelled' => \A b \in Bracket : Pc(b) \notin {"asking", "calling", "using"}
      /\ turn' = "answered" => Pc(Root) # "idle"
  <2>1. CASE CreateRun
    BY <2>1 DEF CreateRun, IInv, TypeOK, Whole
  <2>2. CASE NoIdentity
    BY <2>2 DEF NoIdentity, IInv, TypeOK, Ended
  <2>3. CASE EndTurn
    <3>1. turn' \in Ended /\ (Cancelled => turn' = "timedout") /\ (turn' = "answered" => Pc(Root) # "idle")
      BY <2>3 DEF EndTurn, Outcome, Ended, IInv
    <3>2. CASE turn = "closing"
      BY <2>3, <3>1, <3>2 DEF EndTurn, IInv, Whole, TypeOK
    <3>3. CASE turn = "running" /\ Pc(Root) = "done"
      <4>1. turn' = "timedout" => kind # "monitor"
        BY <2>3, <3>3 DEF EndTurn, Outcome
      <4>2. kind # "monitor" => \A b \in Bracket : Pc(b) \notin {"asking", "calling", "using"}
        BY <3>3 DEF IInv, Whole, Busy, Active, Bracket
      <4> QED
        BY <2>3, <3>1, <3>3, <4>1, <4>2 DEF EndTurn, IInv, TypeOK, Ended
    <3> QED
      BY <2>3, <3>2, <3>3 DEF EndTurn
  <2>4. CASE RetryLater
    BY <2>4 DEF RetryLater, IInv, TypeOK, Ended
  <2> QED
    BY <2>1, <2>2, <2>3, <2>4
<1>2. TypeOK'
  BY <1>1 DEF IInv, TypeOK
<1>3. Raised' = Raised /\ Busy' = Busy /\ (Complete' <=> Complete)
  BY <1>1 DEF Raised, Complete, Busy
<1>4. ASSUME NEW c \in Bracket PROVE PerBracket(c)'
  BY <1>1, <1>3 DEF IInv, TypeOK
<1>5. Whole'
  BY <1>1, <1>3 DEF IInv, Whole, Ended
<1> QED
  BY <1>2, <1>4, <1>5 DEF IInv

LEMMA NextInv == IInv /\ [Next]_vars => IInv'
<1> SUFFICES ASSUME IInv, [Next]_vars PROVE IInv'
  OBVIOUS
<1>1. CASE UNCHANGED vars
  <2>1. Raised' = Raised /\ Busy' = Busy /\ (Complete' <=> Complete)
    BY <1>1 DEF vars, Raised, Busy, Complete
  <2>2. TypeOK' /\ Whole'
    BY <1>1, <2>1 DEF vars, IInv, TypeOK, Whole
  <2>3. ASSUME NEW c \in Bracket PROVE PerBracket(c)'
    BY <1>1, <2>1 DEF vars, IInv
  <2> QED
    BY <2>2, <2>3 DEF IInv
<1>2. CASE Next
  <2>1. CASE CreateRun \/ NoIdentity \/ EndTurn \/ RetryLater
    BY <2>1, TurnInv
  <2>2. CASE StartRoot \/ \E s \in Specialist : StartSpecialist(s) \/ AnswerFromGraph(s)
    BY <2>2, StartsInv
  <2>3. CASE Watchdog
    BY <2>3, WatchdogInv
  <2>4. CASE \E b \in Bracket : \/ Precall(b) \/ Hear(b) \/ Unheard(b) \/ ProviderEnds(b)
                                \/ Returns(b) \/ Fails(b) \/ Reported(b)
    BY <2>4, PrecallInv, HearInv, UnheardInv, ProviderEndsInv, EndsInv, ReportedInv
  <2>5. CASE \E b \in Bracket, r \in Report : Postcall(b, r) \/ LoseReport(b, r)
    BY <2>5, PostcallInv, LoseReportInv
  <2> QED
    BY <1>2, <2>1, <2>2, <2>3, <2>4, <2>5 DEF Next
<1> QED
  BY <1>1, <1>2

LEMMA Invariant == Spec => []IInv
<1>1. Init => IInv
  BY InitInv
<1>2. IInv /\ [Next]_vars => IInv'
  BY NextInv
<1> QED
  BY <1>1, <1>2, PTL DEF Spec

-----------------------------------------------------------------------------
(* What the invariant says.                                                *)

(* The brackets, the ledger's reservations and the reports keep their      *)
(* types, and no report exists without a reservation.                      *)
THEOREM TypeCorrect == Spec => []TypeOK
<1>1. IInv => TypeOK
  BY DEF IInv
<1> QED
  BY <1>1, Invariant, PTL

(* A reservation the ledger keeps open after its bracket ended was never   *)
(* confirmed to its caller, lost its report, or was cancelled.             *)
THEOREM OpenReservationsExplained == Spec => []LeaksExplained
<1>1. IInv => LeaksExplained
  BY DEF IInv, LeaksExplained, TypeOK
<1> QED
  BY <1>1, Invariant, PTL

(* Only a Cowork root that is cancelled reports twice.                     *)
THEOREM SecondReports == Spec => []SecondReportExplained
<1>1. IInv => SecondReportExplained
  BY DEF IInv, SecondReportExplained
<1> QED
  BY <1>1, Invariant, PTL

(* The ledger books what was charged and releases what was not, but for a  *)
(* root whose tools raised or whose turn was cancelled.                    *)
THEOREM Books == Spec => []BooksMatchCharges
<1>1. IInv => BooksMatchCharges
  BY DEF IInv, BooksMatchCharges
<1> QED
  BY <1>1, Invariant, PTL

(* A charge of a bracket that has moved on is in the usage events, but for *)
(* Cowork roots and roots whose tools raised.                              *)
THEOREM Charges == Spec => []ChargesAreVisible
<1>1. IInv => ChargesAreVisible
  BY DEF IInv, ChargesAreVisible, TypeOK, Active
<1> QED
  BY <1>1, Invariant, PTL

(* The monitor posts an investigation only with evidence of every family.  *)
THEOREM Posts == Spec => []PostsAreComplete
<1>1. IInv => PostsAreComplete
  BY DEF IInv, PostsAreComplete, Whole, Complete, Bracket
<1> QED
  BY <1>1, Invariant, PTL

(* A cancelled turn starts no model call and emits no usage event.         *)
THEOREM CancelledIsQuiet == Spec => QuietAfterCancel
<1>1. ASSUME IInv, Cancelled, [Next]_vars PROVE StartsNothing
  <2>1. \A b \in Bracket : Pc(b) \notin {"asking", "calling", "using"}
    BY <1>1 DEF IInv, Whole
  <2>2. CASE UNCHANGED <<provider, events>>
    BY <2>2 DEF StartsNothing
  <2>3. ASSUME NEW b \in Bracket, ProviderEnds(b) PROVE StartsNothing
    BY <1>1, <2>3 DEF ProviderEnds, StartsNothing, IInv, TypeOK
  <2>4. ASSUME NEW b \in Bracket, Hear(b) \/ Unheard(b) \/ Returns(b) \/ Fails(b) PROVE FALSE
    BY <2>1, <2>4 DEF Hear, Unheard, Returns, Fails
  <2>5. ~StartRoot /\ \A s \in Specialist : ~StartSpecialist(s) /\ ~AnswerFromGraph(s)
    BY <1>1 DEF StartRoot, StartSpecialist, AnswerFromGraph, MayStart
  <2>6. CASE UNCHANGED vars
    BY <2>2, <2>6 DEF vars
  <2>7. CASE Next
    <3>1. CASE CreateRun \/ NoIdentity \/ EndTurn \/ RetryLater \/ Watchdog
      BY <2>2, <3>1 DEF CreateRun, NoIdentity, EndTurn, RetryLater, Watchdog
    <3>2. CASE \E b \in Bracket : Precall(b) \/ Reported(b)
      BY <2>2, <3>2 DEF Precall, Reported
    <3>3. CASE \E b \in Bracket, r \in Report : Postcall(b, r) \/ LoseReport(b, r)
      BY <2>2, <3>3 DEF Postcall, LoseReport
    <3> QED
      BY <2>3, <2>4, <2>5, <2>7, <3>1, <3>2, <3>3 DEF Next
  <2> QED
    BY <1>1, <2>6, <2>7
<1>2. IInv /\ [Next]_vars => [Cancelled => StartsNothing]_vars
  BY <1>1
<1> QED
  BY <1>2, Invariant, PTL DEF Spec, QuietAfterCancel

=============================================================================
