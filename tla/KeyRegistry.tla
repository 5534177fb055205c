----------------------------- MODULE KeyRegistry -----------------------------
(***************************************************************************)
(* Consumers and their keys in the admin BFF: a key is an API Management   *)
(* subscription plus a mapping document in Cosmos; a consumer is its keys, *)
(* a registry document and a configuration document.  Handlers run in a    *)
(* thread pool and make one call to Azure at a time.  A call may fail, and *)
(* may have taken effect all the same.                                     *)
(***************************************************************************)
EXTENDS Integers, FiniteSets

CONSTANTS
  Client,        \* consumers an operator names
  Key,           \* identifiers uuid4 draws; none is drawn twice
  Group,         \* Entra groups
  NoGroup,       \* a registered consumer without a group
  None,          \* no subscription, no mapping, not registered
  Handler,       \* handlers that may run at the same time
  MaxCalls,      \* bound on the requests made
  MaxBreaks      \* bound on the Azure calls that fail

ASSUME RegistryAssumption ==
  /\ {MaxCalls, MaxBreaks} \subseteq Nat
  /\ NoGroup \notin Group /\ None \notin Group \cup Client \cup Key

VARIABLES
  live,        \* API Management: key -> consumer of an active subscription
  mapping,     \* mapping documents: key -> consumer
  registry,    \* registry documents: consumer -> its group
  configured,  \* consumers with a configuration document
  handler,     \* each handler: its next call and what it holds
  calls, breaks,
  drawn,       \* history: keys drawn
  told,        \* history: keys handed to an operator
  revoked,     \* history: keys an operator was told are revoked
  broken,      \* history: keys that met a failing call
  raced        \* history: consumers another handler wrote behind one's back

store == <<live, mapping, registry, configured>>
ghosts == <<drawn, told, revoked, broken, raced>>
keyVars == <<store, handler, calls, breaks, ghosts>>

Free == [pc |-> "free", consumer |-> None, key |-> None, group |-> None, owners |-> <<>>]

KeyInit ==
  /\ live = [k \in Key |-> None] /\ mapping = [k \in Key |-> None]
  /\ registry = [c \in Client |-> None]
  /\ configured \in SUBSET Client
  /\ handler = [h \in Handler |-> Free]
  /\ calls = 0 /\ breaks = 0
  /\ drawn = {} /\ told = {} /\ revoked = {} /\ broken = {} /\ raced = {}

At(h, pc) == handler[h].pc = pc

Becomes(h, pc) == handler' = [handler EXCEPT ![h].pc = pc]

Done(h) == handler' = [handler EXCEPT ![h] = Free]

Begin(h) == At(h, "free") /\ calls < MaxCalls /\ calls' = calls + 1

Others(h, pc) == {handler[g].consumer : g \in {g \in Handler \ {h} : At(g, pc)}}

-----------------------------------------------------------------------------
(* Issue and revoke keys: app.py create_key and delete_key, apim.py.       *)

(* create_or_update is the first of two calls of ApimKeys.create.          *)
Subscribe(h) ==
  /\ Begin(h)
  /\ \E c \in Client, k \in Key \ drawn :
       /\ drawn' = drawn \cup {k}
       /\ live' = [live EXCEPT ![k] = c]
       /\ handler' = [handler EXCEPT ![h] = [Free EXCEPT !.pc = "secrets", !.consumer = c, !.key = k]]
  /\ UNCHANGED <<mapping, registry, configured, breaks, told, revoked, broken, raced>>

ListSecrets(h) ==
  /\ At(h, "secrets") /\ Becomes(h, "record")
  /\ UNCHANGED <<store, calls, breaks, ghosts>>

Record(h) ==
  /\ At(h, "record")
  /\ LET c == handler[h].consumer  k == handler[h].key
     IN /\ mapping' = [mapping EXCEPT ![k] = c]
        /\ told' = told \cup {k}
        /\ raced' = raced \cup ((Others(h, "unregister") \cup Others(h, "unconfigure")) \cap {c})
  /\ Done(h)
  /\ UNCHANGED <<live, registry, configured, calls, breaks, drawn, revoked, broken>>

\* The mapping was not recorded: the subscription is deleted again.
Undo(h) ==
  /\ At(h, "undo")
  /\ live' = [live EXCEPT ![handler[h].key] = None]
  /\ Done(h)
  /\ UNCHANGED <<mapping, registry, configured, calls, breaks, ghosts>>

\* Mutant of Revoke: the mapping goes first, the subscription after it.
RevokeMappingFirst(h) ==
  /\ Begin(h)
  /\ \E k \in {k \in Key : live[k] # None \/ mapping[k] # None} :
       /\ mapping' = [mapping EXCEPT ![k] = None]
       /\ handler' = [handler EXCEPT ![h] = [Free EXCEPT !.pc = "undo", !.key = k]]
  /\ UNCHANGED <<live, registry, configured, breaks, ghosts>>

\* Mutant of Revoke: a subscription API Management fails to delete counts
\* as deleted.
RevokeSwallowing(h) ==
  /\ Begin(h)
  /\ \E k \in {k \in Key : live[k] # None \/ mapping[k] # None} :
       /\ live' \in {live, [live EXCEPT ![k] = None]}
       /\ handler' = [handler EXCEPT ![h] = [Free EXCEPT !.pc = "unmap", !.key = k]]
  /\ UNCHANGED <<mapping, registry, configured, breaks, ghosts>>

(* A key of either list: the subscription goes first, then the mapping.    *)
Revoke(h) ==
  /\ Begin(h)
  /\ \E k \in {k \in Key : live[k] # None \/ mapping[k] # None} :
       /\ live' = [live EXCEPT ![k] = None]
       /\ handler' = [handler EXCEPT ![h] = [Free EXCEPT !.pc = "unmap", !.key = k]]
  /\ UNCHANGED <<mapping, registry, configured, breaks, ghosts>>

Unmap(h) ==
  /\ At(h, "unmap")
  /\ mapping' = [mapping EXCEPT ![handler[h].key] = None]
  /\ revoked' = revoked \cup {handler[h].key}
  /\ Done(h)
  /\ UNCHANGED <<live, registry, configured, calls, breaks, drawn, told, broken, raced>>

-----------------------------------------------------------------------------
(* Register, change and delete consumers.                                  *)

(* create_consumer of a consumer not registered yet (else 409), or         *)
(* update_consumer, which keeps the group when the request names none.     *)
Register(h) ==
  /\ Begin(h)
  /\ \E c \in Client, g \in Group \cup {NoGroup} :
       LET kept == IF g = NoGroup /\ registry[c] # None THEN registry[c] ELSE g
       IN handler' = [handler EXCEPT ![h] = [Free EXCEPT !.pc = "owners", !.consumer = c, !.group = kept]]
  /\ UNCHANGED <<store, breaks, ghosts>>

(* group_index: one owner for each group.                                  *)
ReadOwners(h) ==
  /\ At(h, "owners")
  /\ LET Taken == {g \in Group : \E c \in Client : registry[c] = g}
     IN \E o \in [Taken -> Client] :
          /\ \A g \in Taken : registry[o[g]] = g
          /\ handler' = [handler EXCEPT ![h].pc = "register", ![h].owners = o]
  /\ UNCHANGED <<store, calls, breaks, ghosts>>

OwnedByOther(owners, g, c) == g \in DOMAIN owners /\ owners[g] # c

(* A group another consumer owns is a 400 and nothing is written.          *)
PutRegistry(h) ==
  /\ At(h, "register")
  /\ LET c == handler[h].consumer  g == handler[h].group
     IN IF OwnedByOther(handler[h].owners, g, c)
        THEN UNCHANGED <<registry, raced>>
        ELSE /\ registry' = [registry EXCEPT ![c] = g]
             /\ raced' = raced \cup Others(h, "register")
  /\ Done(h)
  /\ UNCHANGED <<live, mapping, configured, calls, breaks, drawn, told, revoked, broken>>

\* Mutant of KeysOf: only registered consumers have their keys counted.
KeysOfRegistered(c) == {k \in Key : mapping[k] = c /\ registry[c] # None}

KeysOf(c) == {k \in Key : mapping[k] = c}

(* delete_consumer: 409 while the consumer has keys.                       *)
CountKeys(h) ==
  /\ Begin(h)
  /\ \E c \in Client :
       IF KeysOf(c) # {} THEN UNCHANGED handler
       ELSE handler' = [handler EXCEPT ![h] = [Free EXCEPT !.pc = "unregister", !.consumer = c]]
  /\ UNCHANGED <<store, breaks, ghosts>>

Unregister(h) ==
  /\ At(h, "unregister")
  /\ registry' = [registry EXCEPT ![handler[h].consumer] = None]
  /\ Becomes(h, "unconfigure")
  /\ UNCHANGED <<live, mapping, configured, calls, breaks, ghosts>>

Unconfigure(h) ==
  /\ At(h, "unconfigure")
  /\ configured' = configured \ {handler[h].consumer}
  /\ Done(h)
  /\ UNCHANGED <<live, mapping, registry, calls, breaks, ghosts>>

-----------------------------------------------------------------------------
(* A call fails, with or without its effect, and the handler with it - but *)
(* a failing Record goes on to delete the subscription.                    *)

Effect(h) ==
  LET c == handler[h].consumer  k == handler[h].key
  IN [live |-> IF At(h, "undo") THEN [live EXCEPT ![k] = None] ELSE live,
      mapping |-> CASE At(h, "record") -> [mapping EXCEPT ![k] = c]
                    [] At(h, "unmap") -> [mapping EXCEPT ![k] = None]
                    [] OTHER -> mapping,
      registry |-> IF At(h, "unregister") THEN [registry EXCEPT ![c] = None] ELSE registry,
      configured |-> IF At(h, "unconfigure") THEN configured \ {c} ELSE configured]

CallFails(h) ==
  /\ ~At(h, "free") /\ ~At(h, "register")
  /\ breaks < MaxBreaks
  /\ breaks' = breaks + 1
  /\ \/ UNCHANGED store
     \/ /\ live' = Effect(h).live /\ mapping' = Effect(h).mapping
        /\ registry' = Effect(h).registry /\ configured' = Effect(h).configured
  /\ broken' = broken \cup ({handler[h].key} \ {None})
  /\ IF At(h, "record") THEN Becomes(h, "undo") ELSE Done(h)
  /\ UNCHANGED <<calls, drawn, told, revoked, raced>>

KeyNext ==
  \E h \in Handler :
    \/ Subscribe(h) \/ ListSecrets(h) \/ Record(h) \/ Undo(h) \/ Revoke(h) \/ Unmap(h)
    \/ Register(h) \/ ReadOwners(h) \/ PutRegistry(h)
    \/ CountKeys(h) \/ Unregister(h) \/ Unconfigure(h) \/ CallFails(h)

KeySpec == KeyInit /\ [][KeyNext]_keyVars

-----------------------------------------------------------------------------
(* Properties.                                                             *)

InHand(k) == \E h \in Handler : handler[h].key = k /\ ~At(h, "unmap")

(* A key that was handed out and still works has its mapping, whatever     *)
(* calls fail: it is listed with its consumer, and counts when the         *)
(* consumer is to be deleted.  A working key without a mapping is still    *)
(* being issued, or a failing call broke its issue off (app.py:147-165).   *)
WorkingKeysAreMapped ==
  \A k \in Key : live[k] # None =>
    \/ mapping[k] = live[k]
    \/ k \notin told /\ (InHand(k) \/ k \in broken)

(* A key that was reported revoked does not work any more, however issue,  *)
(* failing calls and a second revocation interleave (app.py:161-165).      *)
RevokedKeysAreDead == \A k \in revoked : live[k] = None

(* A configuration document is removed only when its consumer has no       *)
(* working key that an operator was handed (consumerconfig.py:67-69),      *)
(* unless that key was issued after the keys were counted.                 *)
ConfigOutlivesKeys ==
  [][\A c \in (configured \ configured') \ raced :
        ~\E k \in told : live[k] = c]_keyVars
=============================================================================
