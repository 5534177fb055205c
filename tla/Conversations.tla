---------------------------- MODULE Conversations ----------------------------
(***************************************************************************)
(* What one agent process remembers between turns (agent.py               *)
(* process_user_message and _exchange_user_token): each user's message     *)
(* history and user tokens, both in dictionaries that concurrent turns     *)
(* read, await, and write.  A history is a Python list: the turn appends   *)
(* its question to the stored list itself, and stores a new list with the  *)
(* answer.  Lists are therefore objects, and turns of one user that        *)
(* overlap hold the same one.                                              *)
(***************************************************************************)
EXTENDS Integers, Sequences, SequencesExt, FiniteSets, Functions

CONSTANTS
  User, Message,
  Margin,     \* seconds taken off a token's expiry when it is cached
  Lifetime,   \* how long a fresh token may live
  LastTime    \* bound on the clock

ASSUME ConversationAssumption ==
  /\ Margin \in Nat /\ LastTime \in Nat
  /\ Lifetime \subseteq Nat

VARIABLES
  clock,
  lists,     \* the list objects made so far: sequences of <<who, message>>
  stored,    \* user -> index of the history list, or 0
  cached,    \* user -> the cached token's expiry and until when to use it
  turns,     \* message -> its turn
  overlapped \* history: users two of whose turns ran at the same time

convVars == <<clock, lists, stored, cached, turns, overlapped>>

Waiting == [pc |-> "idle", user |-> 0, expiry |-> 0, since |-> 0, list |-> 0, prompt |-> <<>>]

ConvInit ==
  /\ clock = 0
  /\ lists = <<>>
  /\ stored = [u \in User |-> 0]
  /\ cached = [u \in User |-> [until |-> 0, expiry |-> 0]]
  /\ turns = [m \in Message |-> Waiting]
  /\ overlapped = {}

InTurn(u) == {m \in Message : turns[m].pc \notin {"idle", "over"} /\ turns[m].user = u}

(* _conversations.get(user, []).append(question): in place if stored, else *)
(* in a list nobody else holds yet.  The run token is awaited next.        *)
OpenHistory(m, u, expiry) ==
  LET l == IF stored[u] = 0 THEN Len(lists) + 1 ELSE stored[u]
      grown == Append(IF stored[u] = 0 THEN <<>> ELSE lists[l], <<"user", m>>)
  IN /\ lists' = IF stored[u] = 0 THEN Append(lists, grown) ELSE [lists EXCEPT ![l] = grown]
     /\ turns' = [turns EXCEPT ![m] = [pc |-> "opened", user |-> u, expiry |-> expiry,
                                       since |-> clock, list |-> l, prompt |-> <<>>]]
     /\ UNCHANGED stored

NoteOverlap(u) == overlapped' = IF InTurn(u) = {} THEN overlapped ELSE overlapped \cup {u}

(* A cached token is used without an await; otherwise the broker is asked. *)
BeginCached(m, u) ==
  /\ turns[m].pc = "idle" /\ cached[u].until > clock
  /\ OpenHistory(m, u, cached[u].expiry)
  /\ NoteOverlap(u)
  /\ UNCHANGED <<clock, cached>>

BeginExchange(m, u) ==
  /\ turns[m].pc = "idle" /\ cached[u].until <= clock
  /\ turns' = [turns EXCEPT ![m] = [Waiting EXCEPT !.pc = "exchange", !.user = u]]
  /\ NoteOverlap(u)
  /\ UNCHANGED <<clock, lists, stored, cached>>

\* Mutant of CacheUntil: the margin is added instead of taken off.
CacheUntilLater(expiry) == expiry + Margin

CacheUntil(expiry) == expiry - Margin

\* An empty or failed exchange leaves the turn without a token (expiry 0).
ExchangeEnds(m) ==
  /\ turns[m].pc = "exchange"
  /\ \/ \E life \in Lifetime :
          /\ OpenHistory(m, turns[m].user, clock + life)
          /\ cached' = [cached EXCEPT ![turns[m].user] =
                          [until |-> CacheUntil(clock + life), expiry |-> clock + life]]
     \/ OpenHistory(m, turns[m].user, 0) /\ UNCHANGED cached
  /\ UNCHANGED <<clock, overlapped>>

\* agent.run is given the list object; it reads what the list then holds.
RunAgent(m) ==
  /\ turns[m].pc = "opened"
  /\ turns' = [turns EXCEPT ![m].pc = "running",
                            ![m].prompt = lists[turns[m].list]]
  /\ UNCHANGED <<clock, lists, stored, cached, overlapped>>

Over(m) == turns' = [turns EXCEPT ![m] = [Waiting EXCEPT !.pc = "over"]]

\* Mutant of Answered: the answer is appended to the prompt, not the list.
AnsweredFromStored(m) ==
  /\ turns[m].pc = "running"
  /\ LET u == turns[m].user
         old == IF stored[u] = 0 THEN <<>> ELSE lists[stored[u]]
     IN /\ lists' = Append(lists, Append(old, <<"assistant", m>>))
        /\ stored' = [stored EXCEPT ![u] = Len(lists) + 1]
  /\ Over(m)
  /\ UNCHANGED <<clock, cached, overlapped>>

(* history + [answer]: a new list, of what the turn's list holds by now.   *)
Answered(m) ==
  /\ turns[m].pc = "running"
  /\ lists' = Append(lists, Append(lists[turns[m].list], <<"assistant", m>>))
  /\ stored' = [stored EXCEPT ![turns[m].user] = Len(lists) + 1]
  /\ Over(m)
  /\ UNCHANGED <<clock, cached, overlapped>>

\* A consent card, a halted run, the watchdog: nothing is stored.
Unanswered(m) ==
  /\ turns[m].pc = "running"
  /\ Over(m)
  /\ UNCHANGED <<clock, lists, stored, cached, overlapped>>

\* Any other error forgets the user's history.
Forgets(m) ==
  /\ turns[m].pc = "running"
  /\ stored' = [stored EXCEPT ![turns[m].user] = 0]
  /\ Over(m)
  /\ UNCHANGED <<clock, lists, cached, overlapped>>

Tick ==
  /\ clock < LastTime
  /\ clock' = clock + 1
  /\ UNCHANGED <<lists, stored, cached, turns, overlapped>>

ConvNext ==
  \/ \E m \in Message : \/ \E u \in User : BeginCached(m, u) \/ BeginExchange(m, u)
                        \/ ExchangeEnds(m) \/ RunAgent(m)
                        \/ Answered(m) \/ Unanswered(m) \/ Forgets(m)
  \/ Tick

ConvSpec == ConvInit /\ [][ConvNext]_convVars

-----------------------------------------------------------------------------
(* Properties.                                                             *)

History(u) == IF stored[u] = 0 THEN <<>> ELSE lists[stored[u]]

(* For a user whose turns never overlapped, the model reads the user's     *)
(* own latest question last, every answer in the history stands right      *)
(* after its question, and the history it starts from is the stored one.   *)
AnswersFitQuestions ==
  \A u \in User \ overlapped :
    /\ \A m \in InTurn(u) :
         turns[m].pc = "running" =>
           /\ Last(turns[m].prompt) = <<"user", m>>
           /\ stored[u] # 0 => turns[m].prompt = History(u)
    /\ \A i \in DOMAIN History(u) :
         History(u)[i][1] = "assistant" => i > 1 /\ History(u)[i - 1] = <<"user", History(u)[i][2]>>
    /\ stored[u] # 0 => \E i \in DOMAIN History(u) : History(u)[i][1] = "assistant"

(* A token lives for the margin at least from the moment a turn takes it   *)
(* up, cached or fresh, as long as fresh tokens do.  The watchdog lets     *)
(* turns run longer than that (90 s against 60 s).                         *)
TokensOutliveTheMargin ==
  \A m \in Message :
    /\ turns[m].pc = "running" /\ turns[m].expiry # 0
    /\ \A life \in Lifetime : life > Margin
    => clock - turns[m].since > Margin \/ turns[m].expiry > clock
=============================================================================
