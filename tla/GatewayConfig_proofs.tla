------------------------ MODULE GatewayConfig_proofs -------------------------
(***************************************************************************)
(* Proofs about the control plane of the gateway, for any numbers of       *)
(* handlers, requests, executions and failing calls, any price lists and   *)
(* any edits.  Keys: working keys are mapped, revoked keys are dead, and a *)
(* configuration outlives the keys handed out for its consumer.  Prices:   *)
(* what an operator pinned holds.  Consumer configuration: edits survive   *)
(* unless a stale copy was written, and a downgrade is lifted only for a   *)
(* reason.                                                                 *)
(***************************************************************************)
EXTENDS KeyRegistry, ConsumerConfig, Pricing, TLAPS

-----------------------------------------------------------------------------
(* Consumers and keys, KeyRegistry.                                        *)
USE RegistryAssumption

Pcs == {"free", "secrets", "record", "undo", "unmap", "owners", "register",
        "unregister", "unconfigure"}

Issuing(h) == handler[h].pc \in {"secrets", "record", "undo"}
Deleting(h) == handler[h].pc \in {"unregister", "unconfigure"}

(* What the properties speak of has its type.                              *)
Shapes ==
  /\ live \in [Key -> Client \cup {None}]
  /\ mapping \in [Key -> Client \cup {None}]
  /\ configured \subseteq Client
  /\ DOMAIN handler = Handler
  /\ \A h \in Handler :
       /\ handler[h] = [pc |-> handler[h].pc, consumer |-> handler[h].consumer,
                        key |-> handler[h].key, group |-> handler[h].group,
                        owners |-> handler[h].owners]
       /\ handler[h].pc \in Pcs
       /\ Issuing(h) => handler[h].consumer \in Client
       /\ Deleting(h) => handler[h].consumer \in Client
       /\ Issuing(h) \/ handler[h].pc = "unmap" => handler[h].key \in Key
       /\ ~Issuing(h) /\ handler[h].pc # "unmap" => handler[h].key = None

(* A key in use was drawn, and a drawn key is never drawn again.           *)
Drawn ==
  /\ drawn \subseteq Key
  /\ told \cup revoked \subseteq drawn
  /\ \A k \in Key : live[k] # None \/ mapping[k] # None => k \in drawn
  /\ \A h \in Handler : Issuing(h) \/ handler[h].pc = "unmap" => handler[h].key \in drawn

(* While a key is being issued it is at most its consumer's; once it is to *)
(* be unmapped it is dead.                                                 *)
InFlight ==
  \A h \in Handler :
    /\ Issuing(h) => live[handler[h].key] \in {None, handler[h].consumer}
    /\ handler[h].pc = "unmap" => live[handler[h].key] = None

(* A working key is mapped, or was not handed out and is being issued or   *)
(* met a failing call.                                                     *)
Mapped ==
  \A k \in Key : live[k] # None =>
    \/ mapping[k] = live[k]
    \/ k \notin told /\ ((\E h \in Handler : Issuing(h) /\ handler[h].key = k) \/ k \in broken)

(* A consumer about to lose its documents has no working key that was      *)
(* handed out, but for those issued behind the handler's back.             *)
Vacated ==
  \A h \in Handler :
    Deleting(h) /\ handler[h].consumer \notin raced =>
      ~\E k \in told : live[k] = handler[h].consumer

KeyInv == Shapes /\ Drawn /\ InFlight /\ Mapped /\ Vacated /\ RevokedKeysAreDead

LEMMA KeyInitially == KeyInit => KeyInv
  BY DEF KeyInit, KeyInv, Shapes, Drawn, InFlight, Mapped, Vacated, RevokedKeysAreDead,
         Issuing, Deleting, Free, Pcs

(* A step of one handler leaves the others' records alone.                 *)
LEMMA SubscribeKeeps ==
  ASSUME KeyInv, NEW h \in Handler, Subscribe(h)
  PROVE  KeyInv'
<1>1. PICK c \in Client, k \in Key \ drawn :
        /\ drawn' = drawn \cup {k}
        /\ live' = [live EXCEPT ![k] = c]
        /\ handler' = [handler EXCEPT ![h] = [Free EXCEPT !.pc = "secrets", !.consumer = c, !.key = k]]
  BY DEF Subscribe
<1>2. UNCHANGED <<mapping, registry, configured, told, revoked, broken, raced>>
  BY DEF Subscribe
<1>3. /\ handler'[h] = [pc |-> "secrets", consumer |-> c, key |-> k, group |-> None, owners |-> <<>>]
      /\ \A g \in Handler \ {h} : handler'[g] = handler[g]
      /\ DOMAIN handler' = Handler
  BY <1>1 DEF Free, KeyInv, Shapes
<1>4. handler[h].pc = "free"
  BY DEF Subscribe, Begin, At
<1>5. /\ live'[k] = c /\ live[k] = None /\ k \notin told
      /\ \A j \in Key \ {k} : live'[j] = live[j]
      /\ live' \in [Key -> Client \cup {None}]
  BY <1>1 DEF KeyInv, Shapes, Drawn
<1>6. Shapes'
  BY <1>2, <1>3, <1>5 DEF KeyInv, Shapes, Issuing, Deleting, Pcs
<1>7. Drawn'
  BY <1>1, <1>2, <1>3, <1>5 DEF KeyInv, Shapes, Drawn, Issuing
<1>8. InFlight'
  BY <1>1, <1>2, <1>3, <1>5 DEF KeyInv, Shapes, Drawn, InFlight, Issuing
<1>9. Mapped'
  <2> SUFFICES ASSUME NEW j \in Key, live'[j] # None
               PROVE  \/ mapping'[j] = live'[j]
                      \/ j \notin told' /\ ((\E g \in Handler : Issuing(g)' /\ handler'[g].key = j)
                                             \/ j \in broken')
    BY DEF Mapped
  <2>1. CASE j = k
    BY <2>1, <1>2, <1>3, <1>5 DEF Issuing
  <2>2. CASE j # k
    BY <2>2, <1>2, <1>3, <1>4, <1>5 DEF KeyInv, Mapped, Issuing
  <2> QED
    BY <2>1, <2>2
<1>10. Vacated'
  BY <1>1, <1>2, <1>3, <1>5 DEF KeyInv, Shapes, Drawn, Vacated, Deleting
<1>11. RevokedKeysAreDead'
  BY <1>1, <1>2, <1>5 DEF KeyInv, Drawn, RevokedKeysAreDead
<1> QED
  BY <1>6, <1>7, <1>8, <1>9, <1>10, <1>11 DEF KeyInv

(* A handler that only moves on or ends: nothing but its record changes.   *)
LEMMA MoveKeeps ==
  ASSUME KeyInv, NEW h \in Handler,
         UNCHANGED <<live, mapping, told, revoked, raced, drawn>>,
         configured' \subseteq Client, broken \subseteq broken',
         handler' = [handler EXCEPT ![h] = handler'[h]],
         handler'[h] = [pc |-> handler'[h].pc, consumer |-> handler'[h].consumer,
                        key |-> handler'[h].key, group |-> handler'[h].group,
                        owners |-> handler'[h].owners],
         handler'[h].pc \in Pcs,
         Issuing(h)' => Issuing(h) /\ handler'[h].key = handler[h].key
                        /\ handler'[h].consumer = handler[h].consumer,
         Issuing(h) => Issuing(h)' \/ handler[h].key \in broken',
         Deleting(h)' => /\ handler'[h].consumer \in Client
                         /\ \/ Deleting(h) /\ handler'[h].consumer = handler[h].consumer
                            \/ KeysOf(handler'[h].consumer) = {},
         handler'[h].pc # "unmap",
         ~Issuing(h)' => handler'[h].key = None
  PROVE  KeyInv'
<1>1. /\ \A g \in Handler \ {h} : handler'[g] = handler[g]
      /\ DOMAIN handler' = Handler
  BY DEF KeyInv, Shapes
<1>2. Shapes'
  BY <1>1 DEF KeyInv, Shapes, Issuing, Deleting
<1>3. Drawn' /\ InFlight' /\ RevokedKeysAreDead'
  BY <1>1 DEF KeyInv, Drawn, InFlight, RevokedKeysAreDead, Issuing
<1>4. Mapped'
  BY <1>1 DEF KeyInv, Mapped, Issuing
<1>5. Vacated'
  <2> SUFFICES ASSUME NEW g \in Handler, Deleting(g)', handler'[g].consumer \notin raced,
                      NEW k \in told, live[k] = handler'[g].consumer
               PROVE  FALSE
    BY DEF Vacated
  <2>1. g = h
    BY <1>1 DEF KeyInv, Vacated, Deleting
  <2>2. KeysOf(handler'[h].consumer) = {} /\ handler'[h].consumer \in Client
    BY <2>1 DEF KeyInv, Vacated
  <2>3. k \in Key /\ mapping[k] = live[k]
    BY <2>1, <2>2 DEF KeyInv, Mapped, Drawn
  <2> QED
    BY <2>1, <2>2, <2>3 DEF KeysOf
<1> QED
  BY <1>2, <1>3, <1>4, <1>5 DEF KeyInv

(* A step that takes the subscription or the mapping of key k away, once   *)
(* the subscription is gone.                                               *)
LEMMA RemovalKeeps ==
  ASSUME KeyInv, NEW h \in Handler, NEW k \in Key,
         k \in drawn,
         live' = [live EXCEPT ![k] = None],
         mapping' \in {mapping, [mapping EXCEPT ![k] = None]},
         revoked' \in {revoked, revoked \cup {k}},
         broken \subseteq broken',
         UNCHANGED <<configured, told, raced, drawn>>,
         handler' = [handler EXCEPT ![h] = handler'[h]],
         handler'[h] \in {Free, [pc |-> "unmap", consumer |-> None, key |-> k,
                                 group |-> None, owners |-> <<>>]},
         Issuing(h) => handler[h].key = k
  PROVE  KeyInv'
<1>1. /\ \A g \in Handler \ {h} : handler'[g] = handler[g]
      /\ DOMAIN handler' = Handler
      /\ handler'[h] \in {[pc |-> "free", consumer |-> None, key |-> None,
                           group |-> None, owners |-> <<>>],
                          [pc |-> "unmap", consumer |-> None, key |-> k,
                           group |-> None, owners |-> <<>>]}
  BY DEF KeyInv, Shapes, Free
<1>2. /\ live'[k] = None /\ live' \in [Key -> Client \cup {None}]
      /\ \A j \in Key \ {k} : live'[j] = live[j] /\ mapping'[j] = mapping[j]
      /\ mapping' \in [Key -> Client \cup {None}]
      /\ \A j \in Key : mapping'[j] # None => mapping[j] # None
  BY DEF KeyInv, Shapes
<1>3. Shapes'
  BY <1>1, <1>2 DEF KeyInv, Shapes, Issuing, Deleting, Pcs
<1>4. Drawn'
  BY <1>1, <1>2 DEF KeyInv, Shapes, Drawn, Issuing
<1>5. InFlight' /\ RevokedKeysAreDead'
  BY <1>1, <1>2 DEF KeyInv, Shapes, Drawn, InFlight, RevokedKeysAreDead, Issuing
<1>6. Mapped'
  BY <1>1, <1>2 DEF KeyInv, Mapped, Issuing
<1>7. Vacated'
  BY <1>1, <1>2 DEF KeyInv, Shapes, Drawn, Vacated, Deleting
<1> QED
  BY <1>3, <1>4, <1>5, <1>6, <1>7 DEF KeyInv

(* The mapping of an issued key is written, and perhaps the key told.      *)
LEMMA RecordKeeps ==
  ASSUME KeyInv, NEW h \in Handler, At(h, "record"),
         mapping' = [mapping EXCEPT ![handler[h].key] = handler[h].consumer],
         UNCHANGED <<live, configured, revoked, drawn>>,
         handler' = [handler EXCEPT ![h] = handler'[h]],
         \/ /\ told' = told \cup {handler[h].key}
            /\ raced' = raced \cup ((Others(h, "unregister") \cup Others(h, "unconfigure"))
                                      \cap {handler[h].consumer})
            /\ handler'[h] = Free /\ broken' = broken
         \/ /\ told' = told /\ raced' = raced
            /\ handler'[h] = [pc |-> "undo", consumer |-> handler[h].consumer,
                              key |-> handler[h].key, group |-> handler[h].group,
                              owners |-> handler[h].owners]
            /\ broken' = broken \cup {handler[h].key}
  PROVE  KeyInv'
<1> DEFINE k == handler[h].key
           c == handler[h].consumer
<1>1. /\ k \in Key /\ k \in drawn /\ c \in Client /\ live[k] \in {None, c} /\ Issuing(h)
      /\ ~Deleting(h)
  BY DEF At, KeyInv, Shapes, Drawn, InFlight, Issuing, Deleting
<1>2. /\ \A g \in Handler \ {h} : handler'[g] = handler[g]
      /\ DOMAIN handler' = Handler
  BY DEF KeyInv, Shapes
<1>3. /\ mapping'[k] = c /\ mapping' \in [Key -> Client \cup {None}]
      /\ \A j \in Key \ {k} : mapping'[j] = mapping[j]
  BY <1>1 DEF KeyInv, Shapes
<1>4. \/ handler'[h] = [pc |-> "free", consumer |-> None, key |-> None, group |-> None, owners |-> <<>>]
      \/ handler'[h] = [pc |-> "undo", consumer |-> c, key |-> k,
                        group |-> handler[h].group, owners |-> handler[h].owners]
  BY DEF Free
<1> HIDE DEF k, c
<1>5. Shapes'
  BY <1>1, <1>2, <1>3, <1>4 DEF KeyInv, Shapes, Issuing, Deleting, Pcs
<1>6. Drawn'
  BY <1>1, <1>2, <1>3, <1>4 DEF KeyInv, Drawn, Issuing, k
<1>7. InFlight' /\ RevokedKeysAreDead'
  BY <1>1, <1>2, <1>3, <1>4 DEF KeyInv, InFlight, RevokedKeysAreDead, Issuing
<1>8. Mapped'
  BY <1>1, <1>2, <1>3, <1>4 DEF KeyInv, Mapped, Issuing, k
<1>9. Vacated'
  <2> SUFFICES ASSUME NEW g \in Handler, Deleting(g)', handler'[g].consumer \notin raced',
                      NEW j \in told', live[j] = handler'[g].consumer
               PROVE  FALSE
    BY DEF Vacated
  <2>1. g # h /\ Deleting(g) /\ handler'[g] = handler[g] /\ handler[g].consumer \in Client
    BY <1>2, <1>4 DEF Deleting, KeyInv, Shapes
  <2>2. handler[g].consumer \notin raced
    BY <2>1
  <2>3. j \notin told
    BY <2>1, <2>2 DEF KeyInv, Vacated
  <2>4. j = k /\ handler[g].consumer = c
    BY <2>1, <2>3, <1>1 DEF k
  <2>5. handler[g].consumer \in Others(h, "unregister") \cup Others(h, "unconfigure")
    BY <2>1 DEF Others, At, Deleting
  <2> QED
    BY <2>1, <2>3, <2>4, <2>5 DEF c
<1> QED
  BY <1>5, <1>6, <1>7, <1>8, <1>9 DEF KeyInv

(* The steps that only move a handler on, consumers' documents included.   *)
LEMMA QuietKeeps ==
  ASSUME KeyInv, NEW h \in Handler,
         \/ ListSecrets(h) \/ Register(h) \/ ReadOwners(h) \/ CountKeys(h)
         \/ Unregister(h) \/ Unconfigure(h)
  PROVE  KeyInv'
<1>1. /\ handler[h] = [pc |-> handler[h].pc, consumer |-> handler[h].consumer,
                       key |-> handler[h].key, group |-> handler[h].group,
                       owners |-> handler[h].owners]
      /\ DOMAIN handler = Handler /\ configured \subseteq Client
  BY DEF KeyInv, Shapes
<1>2. CASE ListSecrets(h)
  <2>1. handler'[h] = [pc |-> "record", consumer |-> handler[h].consumer,
                       key |-> handler[h].key, group |-> handler[h].group,
                       owners |-> handler[h].owners]
    BY <1>1, <1>2 DEF ListSecrets, Becomes
  <2>2. handler' = [handler EXCEPT ![h] = handler'[h]]
    BY <1>1, <1>2 DEF ListSecrets, Becomes
  <2>3. UNCHANGED <<live, mapping, configured, told, revoked, raced, drawn, broken>>
    BY <1>2 DEF ListSecrets, store, ghosts
  <2>4. handler[h].pc = "secrets"
    BY <1>2 DEF ListSecrets, At
  <2> QED
    BY <1>1, <2>1, <2>2, <2>3, <2>4, MoveKeeps DEF Issuing, Deleting, Pcs
<1>3. CASE Register(h)
  <2>1. PICK c, g :
          handler' = [handler EXCEPT ![h] = [Free EXCEPT !.pc = "owners", !.consumer = c, !.group = g]]
    BY <1>3 DEF Register
  <2>2. handler'[h] = [pc |-> "owners", consumer |-> c, key |-> None, group |-> g, owners |-> <<>>]
    BY <1>1, <2>1 DEF Free
  <2>3. handler' = [handler EXCEPT ![h] = handler'[h]]
    BY <1>1, <2>1
  <2>4. UNCHANGED <<live, mapping, configured, told, revoked, raced, drawn, broken>>
    BY <1>3 DEF Register, store, ghosts
  <2>5. handler[h].pc = "free"
    BY <1>3 DEF Register, Begin, At
  <2> QED
    BY <1>1, <2>2, <2>3, <2>4, <2>5, MoveKeeps DEF Issuing, Deleting, Pcs
<1>4. CASE ReadOwners(h)
  <2>1. PICK o : handler' = [handler EXCEPT ![h].pc = "register", ![h].owners = o]
    BY <1>4 DEF ReadOwners
  <2>2. handler'[h] = [pc |-> "register", consumer |-> handler[h].consumer,
                       key |-> handler[h].key, group |-> handler[h].group, owners |-> o]
    BY <1>1, <2>1
  <2>3. handler' = [handler EXCEPT ![h] = handler'[h]]
    BY <1>1, <2>1
  <2>4. UNCHANGED <<live, mapping, configured, told, revoked, raced, drawn, broken>>
    BY <1>4 DEF ReadOwners, store, ghosts
  <2>5. handler[h].pc = "owners" /\ handler[h].key = None
    BY <1>4 DEF ReadOwners, At, KeyInv, Shapes, Issuing
  <2> QED
    BY <1>1, <2>2, <2>3, <2>4, <2>5, MoveKeeps DEF Issuing, Deleting, Pcs
<1>5. CASE CountKeys(h)
  <2>1. PICK c \in Client :
          IF KeysOf(c) # {} THEN UNCHANGED handler
          ELSE handler' = [handler EXCEPT ![h] = [Free EXCEPT !.pc = "unregister", !.consumer = c]]
    BY <1>5 DEF CountKeys
  <2>2. UNCHANGED <<live, mapping, configured, told, revoked, raced, drawn, broken>>
    BY <1>5 DEF CountKeys, store, ghosts
  <2>3. CASE KeysOf(c) # {}
    BY <2>1, <2>2, <2>3 DEF KeyInv, Shapes, Drawn, InFlight, Mapped, Vacated,
       RevokedKeysAreDead, Issuing, Deleting
  <2>4. CASE KeysOf(c) = {}
    <3>1. handler'[h] = [pc |-> "unregister", consumer |-> c, key |-> None,
                         group |-> None, owners |-> <<>>]
      BY <1>1, <2>1, <2>4 DEF Free
    <3>2. handler' = [handler EXCEPT ![h] = handler'[h]]
      BY <1>1, <2>1, <2>4
    <3>3. handler[h].pc = "free"
      BY <1>5 DEF CountKeys, Begin, At
    <3> QED
      BY <1>1, <2>2, <2>4, <3>1, <3>2, <3>3, MoveKeeps DEF Issuing, Deleting, Pcs
  <2> QED
    BY <2>3, <2>4
<1>6. CASE Unregister(h)
  <2>1. handler'[h] = [pc |-> "unconfigure", consumer |-> handler[h].consumer,
                       key |-> handler[h].key, group |-> handler[h].group,
                       owners |-> handler[h].owners]
    BY <1>1, <1>6 DEF Unregister, Becomes
  <2>2. handler' = [handler EXCEPT ![h] = handler'[h]]
    BY <1>1, <1>6 DEF Unregister, Becomes
  <2>3. UNCHANGED <<live, mapping, configured, told, revoked, raced, drawn, broken>>
    BY <1>6 DEF Unregister, ghosts
  <2>4. handler[h].pc = "unregister" /\ handler[h].key = None /\ handler[h].consumer \in Client
    BY <1>6 DEF Unregister, At, KeyInv, Shapes, Issuing, Deleting
  <2> QED
    BY <1>1, <2>1, <2>2, <2>3, <2>4, MoveKeeps DEF Issuing, Deleting, Pcs
<1>7. CASE Unconfigure(h)
  <2>1. handler'[h] = [pc |-> "free", consumer |-> None, key |-> None, group |-> None, owners |-> <<>>]
    BY <1>1, <1>7 DEF Unconfigure, Done, Free
  <2>2. handler' = [handler EXCEPT ![h] = handler'[h]]
    BY <1>1, <1>7 DEF Unconfigure, Done
  <2>3. UNCHANGED <<live, mapping, told, revoked, raced, drawn, broken>> /\ configured' \subseteq Client
    BY <1>1, <1>7 DEF Unconfigure, ghosts
  <2>4. handler[h].pc = "unconfigure"
    BY <1>7 DEF Unconfigure, At
  <2> QED
    BY <1>1, <2>1, <2>2, <2>3, <2>4, MoveKeeps DEF Issuing, Deleting, Pcs
<1> QED
  BY <1>2, <1>3, <1>4, <1>5, <1>6, <1>7

(* A registry document written or refused ends the handler.                *)
LEMMA PutRegistryKeeps ==
  ASSUME KeyInv, NEW h \in Handler, PutRegistry(h)
  PROVE  KeyInv'
<1>1. DOMAIN handler = Handler
  BY DEF KeyInv, Shapes
<1>2. handler'[h] = [pc |-> "free", consumer |-> None, key |-> None, group |-> None, owners |-> <<>>]
  BY <1>1 DEF PutRegistry, Done, Free
<1>3. /\ \A g \in Handler \ {h} : handler'[g] = handler[g]
      /\ DOMAIN handler' = Handler
  BY <1>1 DEF PutRegistry, Done
<1>4. /\ UNCHANGED <<live, mapping, configured, told, revoked, drawn, broken>>
      /\ raced \subseteq raced'
  BY DEF PutRegistry
<1>5. handler[h].pc = "register"
  BY DEF PutRegistry, At
<1>6. Shapes' /\ Drawn' /\ InFlight' /\ RevokedKeysAreDead'
  BY <1>2, <1>3, <1>4 DEF KeyInv, Shapes, Drawn, InFlight, RevokedKeysAreDead, Issuing, Deleting, Pcs
<1>7. Mapped'
  BY <1>2, <1>3, <1>4, <1>5 DEF KeyInv, Mapped, Issuing
<1>8. Vacated'
  BY <1>2, <1>3, <1>4 DEF KeyInv, Vacated, Deleting
<1> QED
  BY <1>6, <1>7, <1>8 DEF KeyInv

(* Recording, undoing, revoking and unmapping a key.                       *)
LEMMA KeyStepsKeep ==
  ASSUME KeyInv, NEW h \in Handler, Record(h) \/ Undo(h) \/ Revoke(h) \/ Unmap(h)
  PROVE  KeyInv'
<1>1. DOMAIN handler = Handler /\ live \in [Key -> Client \cup {None}]
  BY DEF KeyInv, Shapes
<1>2. CASE Record(h)
  <2>1. handler'[h] = Free /\ handler' = [handler EXCEPT ![h] = handler'[h]]
    BY <1>1, <1>2 DEF Record, Done
  <2> QED
    BY <1>2, <2>1, RecordKeeps DEF Record
<1>3. CASE Undo(h)
  <2>1. handler'[h] = Free /\ handler' = [handler EXCEPT ![h] = handler'[h]]
    BY <1>1, <1>3 DEF Undo, Done
  <2>2. handler[h].key \in Key /\ handler[h].key \in drawn
    BY <1>3 DEF Undo, At, KeyInv, Shapes, Drawn, Issuing
  <2>3. UNCHANGED <<mapping, configured, told, raced, drawn, revoked, broken>>
    BY <1>3 DEF Undo, ghosts
  <2>4. live' = [live EXCEPT ![handler[h].key] = None]
    BY <1>3 DEF Undo
  <2> QED
    BY <2>1, <2>2, <2>3, <2>4, RemovalKeeps
<1>4. CASE Revoke(h)
  <2>1. PICK k \in Key :
          /\ live[k] # None \/ mapping[k] # None
          /\ live' = [live EXCEPT ![k] = None]
          /\ handler' = [handler EXCEPT ![h] = [Free EXCEPT !.pc = "unmap", !.key = k]]
    BY <1>4 DEF Revoke
  <2>2. handler'[h] = [pc |-> "unmap", consumer |-> None, key |-> k, group |-> None, owners |-> <<>>]
    BY <1>1, <2>1 DEF Free
  <2>3. handler' = [handler EXCEPT ![h] = handler'[h]]
    BY <1>1, <2>1
  <2>4. UNCHANGED <<mapping, configured, told, raced, drawn, revoked, broken>>
    BY <1>4 DEF Revoke, ghosts
  <2>5. k \in drawn /\ ~Issuing(h)
    BY <1>4, <2>1 DEF KeyInv, Drawn, Revoke, Begin, At, Issuing
  <2>6. live' = [live EXCEPT ![k] = None]
    BY <2>1
  <2> QED
    BY <2>2, <2>3, <2>4, <2>5, <2>6, RemovalKeeps
<1>5. CASE Unmap(h)
  <2> DEFINE k == handler[h].key
  <2>1. handler'[h] = Free /\ handler' = [handler EXCEPT ![h] = handler'[h]]
    BY <1>1, <1>5 DEF Unmap, Done
  <2>2. k \in Key /\ k \in drawn /\ live[k] = None /\ ~Issuing(h)
    BY <1>5 DEF Unmap, At, KeyInv, Shapes, Drawn, InFlight, Issuing
  <2>3. live' = [live EXCEPT ![k] = None]
    BY <1>1, <1>5, <2>2 DEF Unmap
  <2>4. /\ mapping' = [mapping EXCEPT ![k] = None] /\ revoked' = revoked \cup {k}
        /\ UNCHANGED <<configured, told, raced, drawn, broken>>
    BY <1>5 DEF Unmap
  <2> HIDE DEF k
  <2> QED
    BY <2>1, <2>2, <2>3, <2>4, RemovalKeeps
<1> QED
  BY <1>2, <1>3, <1>4, <1>5

(* A failing call, with or without its effect.                             *)
LEMMA FailureKeeps ==
  ASSUME KeyInv, NEW h \in Handler, CallFails(h)
  PROVE  KeyInv'
<1> DEFINE k == handler[h].key
           c == handler[h].consumer
<1>1. /\ handler[h] = [pc |-> handler[h].pc, consumer |-> c, key |-> k,
                       group |-> handler[h].group, owners |-> handler[h].owners]
      /\ DOMAIN handler = Handler /\ configured \subseteq Client
      /\ live \in [Key -> Client \cup {None}]
  BY DEF KeyInv, Shapes
<1>2. /\ broken' = broken \cup ({k} \ {None})
      /\ UNCHANGED <<drawn, told, revoked, raced>>
      /\ handler[h].pc \in Pcs /\ handler[h].pc \notin {"free", "register"}
  BY DEF CallFails, At, KeyInv, Shapes
<1>3. \/ UNCHANGED <<live, mapping, configured>>
      \/ /\ live' = IF At(h, "undo") THEN [live EXCEPT ![k] = None] ELSE live
         /\ mapping' = CASE At(h, "record") -> [mapping EXCEPT ![k] = c]
                         [] At(h, "unmap") -> [mapping EXCEPT ![k] = None]
                         [] OTHER -> mapping
         /\ configured' = IF At(h, "unconfigure") THEN configured \ {c} ELSE configured
  BY DEF CallFails, Effect, store
<1>4. IF handler[h].pc = "record"
      THEN handler'[h] = [pc |-> "undo", consumer |-> c, key |-> k,
                          group |-> handler[h].group, owners |-> handler[h].owners]
      ELSE handler'[h] = [pc |-> "free", consumer |-> None, key |-> None,
                          group |-> None, owners |-> <<>>]
  BY <1>1 DEF CallFails, At, Becomes, Done, Free
<1>5. handler' = [handler EXCEPT ![h] = handler'[h]]
  BY <1>1 DEF CallFails, Becomes, Done
<1>6. Issuing(h) \/ handler[h].pc = "unmap" => k \in Key /\ k \in drawn /\ k # None
  BY DEF KeyInv, Shapes, Drawn
<1> HIDE DEF k, c
<1>7. CASE UNCHANGED <<live, mapping, configured>>
  <2>1. Issuing(h) => k \in broken'
    BY <1>2, <1>6
  <2> QED
    BY <1>1, <1>2, <1>4, <1>5, <1>7, <2>1, MoveKeeps DEF Issuing, Deleting, Pcs, k, c
<1>8. CASE handler[h].pc \in {"secrets", "owners", "unregister", "unconfigure"}
  <2>1. UNCHANGED <<live, mapping>> /\ configured' \subseteq Client
    BY <1>1, <1>3, <1>8 DEF At
  <2>2. Issuing(h) => k \in broken'
    BY <1>2, <1>6
  <2> QED
    BY <1>1, <1>2, <1>4, <1>5, <1>8, <2>1, <2>2, MoveKeeps DEF Issuing, Deleting, Pcs, k, c
<1>9. CASE handler[h].pc = "record" /\ ~UNCHANGED <<live, mapping, configured>>
  <2>1. UNCHANGED <<live, configured>> /\ mapping' = [mapping EXCEPT ![k] = c]
    BY <1>3, <1>9 DEF At
  <2>2. broken' = broken \cup {k}
    BY <1>2, <1>6, <1>9 DEF Issuing
  <2> QED
    BY <1>2, <1>4, <1>5, <1>9, <2>1, <2>2, RecordKeeps DEF At, k, c
<1>10. CASE handler[h].pc \in {"undo", "unmap"} /\ ~UNCHANGED <<live, mapping, configured>>
  <2>1. handler[h].pc = "unmap" => live = [live EXCEPT ![k] = None]
    BY <1>1, <1>6 DEF KeyInv, InFlight, k
  <2>2. /\ live' = [live EXCEPT ![k] = None] /\ configured' = configured
        /\ mapping' \in {mapping, [mapping EXCEPT ![k] = None]}
    BY <1>3, <1>10, <2>1 DEF At
  <2>3. k \in Key /\ k \in drawn
    BY <1>6, <1>10 DEF Issuing
  <2> QED
    BY <1>2, <1>4, <1>5, <1>10, <2>2, <2>3, RemovalKeeps DEF Free, k
<1> QED
  BY <1>2, <1>7, <1>8, <1>9, <1>10 DEF Pcs

LEMMA KeyInductive == KeyInv /\ [KeyNext]_keyVars => KeyInv'
<1>1. ASSUME KeyInv, KeyNext PROVE KeyInv'
  BY <1>1, SubscribeKeeps, QuietKeeps, PutRegistryKeeps, KeyStepsKeep, FailureKeeps DEF KeyNext
<1>2. ASSUME KeyInv, UNCHANGED keyVars PROVE KeyInv'
  BY <1>2 DEF keyVars, store, ghosts, KeyInv, Shapes, Drawn, InFlight, Mapped, Vacated,
     RevokedKeysAreDead, Issuing, Deleting
<1> QED
  BY <1>1, <1>2

LEMMA KeyInvariant == KeySpec => []KeyInv
  BY KeyInitially, KeyInductive, PTL DEF KeySpec

(* A key that was handed out and still works has its mapping, whatever     *)
(* calls fail.                                                             *)
THEOREM WorkingKeys == KeySpec => []WorkingKeysAreMapped
<1>1. KeyInv => WorkingKeysAreMapped
  BY DEF KeyInv, Mapped, WorkingKeysAreMapped, InHand, Issuing, At
<1> QED
  BY <1>1, KeyInvariant, PTL

(* A key that was reported revoked never works again.                      *)
THEOREM RevokedKeys == KeySpec => []RevokedKeysAreDead
<1>1. KeyInv => RevokedKeysAreDead
  BY DEF KeyInv
<1> QED
  BY <1>1, KeyInvariant, PTL

(* A configuration document goes only when no working key of its consumer  *)
(* was handed out, but for keys issued after they were counted.            *)
THEOREM ConfigOutlives == KeySpec => ConfigOutlivesKeys
<1> DEFINE Outlives == \A c \in (configured \ configured') \ raced :
                         ~\E k \in told : live[k] = c
<1>1. ASSUME KeyInv, KeyNext PROVE Outlives
  <2>1. PICK h \in Handler : 
          \/ configured' = configured
          \/ /\ Deleting(h)
             /\ configured' = configured \ {handler[h].consumer}
    BY <1>1 DEF KeyNext, Subscribe, ListSecrets, Record, Undo, Revoke, Unmap, Register,
       ReadOwners, PutRegistry, CountKeys, Unregister, Unconfigure, CallFails, Effect,
       At, Deleting, store
  <2> QED
    BY <1>1, <2>1 DEF KeyInv, Vacated
<1>2. KeyInv /\ [KeyNext]_keyVars => [Outlives]_keyVars
  BY <1>1
<1> QED
  BY <1>2, KeyInvariant, PTL DEF KeySpec, ConfigOutlivesKeys

-----------------------------------------------------------------------------
(* Model prices, Pricing.                                                  *)
USE PricingAssumption

(* A price list as the API returned it, or the empty one.                  *)
Base(r) == r \in Retail \/ r = NoRates

Kinds == {"none", "asked", "saved"}

AskRec(a) ==
  /\ a = [kind |-> a.kind, source |-> a.source, overrides |-> a.overrides,
           crossed |-> a.crossed]
  /\ a.kind \in Kinds /\ a.crossed \in BOOLEAN

AskType ==
  /\ asking = [q \in PriceRequest |-> asking[q]]
  /\ \A q \in PriceRequest : AskRec(asking[q])
  /\ synced \in BOOLEAN /\ crossed \in BOOLEAN /\ bare \in BOOLEAN
  /\ fetched \in Retail \cup {Absent}

(* While every save knew a list, the document holds a list of the API, or  *)
(* one with overrides over it, and so does every request.                  *)
ListDoc(doc) == doc.source = Absent /\ doc.models \in Retail
SavedDoc(doc) ==
  doc.source \in Retail /\ doc.models = ApplyOverrides(doc.source, doc.overrides)

Unmixed ==
  ~bare =>
    /\ pricing = NoPricing \/ ListDoc(pricing) \/ SavedDoc(pricing)
    /\ \A q \in PriceRequest : asking[q].kind = "asked" => Base(asking[q].source)
    /\ ~synced => \/ pricing = NoPricing
                  \/ ListDoc(pricing) /\ pinned = NoRates
                  \/ SavedDoc(pricing) /\ pricing.overrides = pinned

RatesOf(q) == ApplyOverrides(asking[q].source, asking[q].overrides)

(* Who has saved last and is not crossed binds what the document holds.    *)
Bound ==
  ~synced =>
    /\ \A q \in PriceRequest :
         asking[q].kind = "saved" /\ ~asking[q].crossed =>
           pricing = NoPricing \/ pricing.models = RatesOf(q)
    /\ ~crossed => \/ pricing = NoPricing \/ modelPrices = pricing.models
                   \/ \E q \in PriceRequest : asking[q].kind = "saved" /\ ~asking[q].crossed

PriceInv == AskType /\ (Model # {} => Unmixed) /\ Bound

LEMMA MadeRec ==
  ASSUME NEW k \in Kinds, NEW r, NEW o, NEW c \in BOOLEAN
  PROVE  AskRec([kind |-> k, source |-> r, overrides |-> o, crossed |-> c])
<1> DEFINE a == [kind |-> k, source |-> r, overrides |-> o, crossed |-> c]
<1>1. a.kind = k /\ a.source = r /\ a.overrides = o /\ a.crossed = c OBVIOUS
<1>2. a = [kind |-> a.kind, source |-> a.source, overrides |-> a.overrides,
           crossed |-> a.crossed]
  OBVIOUS
<1>3. a.kind \in Kinds /\ a.crossed \in BOOLEAN BY <1>1
<1> HIDE DEF a
<1>4. AskRec(a) BY <1>2, <1>3, Zenon DEF AskRec
<1> QED BY <1>4 DEF a

LEMMA QuietRec == AskRec(Quiet)
<1>1. "none" \in Kinds /\ FALSE \in BOOLEAN BY DEF Kinds
<1> QED BY <1>1, MadeRec DEF Quiet

LEMMA BaseKept ==
  ASSUME Model # {}, Unmixed, ~bare
  PROVE  Base(BaseRates(pricing))
<1>1. pricing = NoPricing \/ ListDoc(pricing) \/ SavedDoc(pricing) BY DEF Unmixed
<1>2. CASE pricing = NoPricing BY <1>2 DEF BaseRates, Base
<1>3. CASE pricing # NoPricing /\ ListDoc(pricing)
  BY <1>3 DEF BaseRates, Base, Known, ListDoc
<1>4. CASE pricing # NoPricing /\ SavedDoc(pricing)
  <2>1. pricing.source \in Retail BY <1>4 DEF SavedDoc
  <2>2. Known(pricing.source) BY <2>1 DEF Known
  <2> QED BY <1>4, <2>1, <2>2 DEF BaseRates, Base
<1> QED BY <1>1, <1>2, <1>3, <1>4

LEMMA PriceInitially == PriceInit => PriceInv
<1> SUFFICES ASSUME PriceInit PROVE PriceInv OBVIOUS
<1>1. /\ asking = [q \in PriceRequest |-> Quiet] /\ fetched = Absent
      /\ synced = FALSE /\ crossed = FALSE /\ bare = FALSE /\ pinned = NoRates
      /\ \/ pricing = NoPricing /\ modelPrices = NoRates
         \/ \E r \in Retail : /\ pricing = [source |-> Absent, overrides |-> Absent, models |-> r]
                              /\ modelPrices = r
  BY DEF PriceInit
<1>2. pricing = NoPricing \/ (ListDoc(pricing) /\ modelPrices = pricing.models)
  BY <1>1 DEF ListDoc
<1>3. AskType BY <1>1 DEF AskType, AskRec, Quiet, Kinds
<1>4. \A q \in PriceRequest : asking[q].kind = "none" BY <1>1 DEF Quiet
<1>5. Unmixed BY <1>1, <1>2, <1>4 DEF Unmixed
<1>6. Bound BY <1>2, <1>4 DEF Bound
<1> QED BY <1>3, <1>5, <1>6 DEF PriceInv

LEMMA PriceSteps == PriceInv /\ [PriceNext]_priceVars => PriceInv'
<1> SUFFICES ASSUME PriceInv, [PriceNext]_priceVars PROVE PriceInv' OBVIOUS
<1>t. AskType /\ (Model # {} => Unmixed) /\ Bound BY DEF PriceInv
<1>a. \A p \in PriceRequest : AskRec(asking[p]) BY <1>t DEF AskType
<1>b. /\ synced \in BOOLEAN /\ crossed \in BOOLEAN /\ bare \in BOOLEAN
      /\ fetched \in Retail \cup {Absent}
  BY <1>t DEF AskType
<1>1. CASE FetchPrices
  <2>1. /\ fetched' \in Retail
        /\ UNCHANGED <<pricing, modelPrices, asking, pinned, synced, crossed, bare>>
    BY <1>1 DEF FetchPrices
  <2> QED BY <1>t, <2>1 DEF PriceInv, AskType, Unmixed, Bound, RatesOf
<1>2. CASE WritePrices
  <2>1. /\ fetched \in Retail /\ pricing' = Synced(fetched) /\ fetched' = Absent /\ synced'
        /\ UNCHANGED <<modelPrices, asking, pinned, crossed, bare>>
    BY <1>b, <1>2 DEF WritePrices
  <2>2. ListDoc(pricing)' BY <2>1 DEF ListDoc, Synced
  <2>3. AskType'
    <3>1. synced' = TRUE BY <1>2 DEF WritePrices
    <3> QED BY <1>t, <2>1, <3>1 DEF AskType
  <2>4. Model # {} => Unmixed' BY <1>t, <2>1, <2>2 DEF Unmixed
  <2>5. Bound' BY <2>1 DEF Bound
  <2> QED BY <2>3, <2>4, <2>5 DEF PriceInv
<1>3. CASE RestartBff
  <2>1. /\ modelPrices' = pricing.models /\ asking' = [q \in PriceRequest |-> Quiet]
        /\ crossed' = FALSE
        /\ UNCHANGED <<pricing, fetched, pinned, synced, bare>>
    BY <1>3 DEF RestartBff
  <2>2. \A q \in PriceRequest : asking'[q] = Quiet BY <2>1
  <2>3. AskType' BY <1>t, <2>1 DEF AskType, AskRec, Quiet, Kinds
  <2>4. Model # {} => Unmixed' BY <1>t, <2>1, <2>2 DEF Unmixed, Quiet
  <2>5. Bound' BY <2>1, <2>2 DEF Bound, Quiet
  <2> QED BY <2>3, <2>4, <2>5 DEF PriceInv
<1>4. ASSUME NEW q \in PriceRequest, AskPrices(q) PROVE PriceInv'
  <2>1. /\ asking[q].kind = "none"
        /\ UNCHANGED <<pricing, modelPrices, fetched, pinned, synced, crossed, bare>>
    BY <1>4 DEF AskPrices
  <2>2. PICK o \in Override, r \in Retail \cup {BaseRates(pricing)} :
          asking' = [asking EXCEPT ![q] = [kind |-> "asked", source |-> r, overrides |-> o,
                                           crossed |-> FALSE]]
    BY <1>4 DEF AskPrices
  <2>3. asking'[q] = [kind |-> "asked", source |-> r, overrides |-> o, crossed |-> FALSE]
    BY <1>t, <2>2 DEF AskType
  <2>4. \A p \in PriceRequest : p # q => asking'[p] = asking[p] BY <1>t, <2>2 DEF AskType
  <2>5. AskType'
    <3>1. asking' = [p \in PriceRequest |-> asking'[p]] BY <1>t, <2>2 DEF AskType
    <3>2. ASSUME NEW p \in PriceRequest
          PROVE  AskRec(asking'[p])
      <4>1. CASE p = q
        <5>1. "asked" \in Kinds /\ FALSE \in BOOLEAN BY DEF Kinds
        <5>2. AskRec([kind |-> "asked", source |-> r, overrides |-> o, crossed |-> FALSE])
          BY <5>1, MadeRec
        <5> QED BY ONLY <2>3, <4>1, <5>2, Zenon
      <4>2. CASE p # q
        <5>1. asking'[p] = asking[p] BY <2>4, <4>2
        <5> QED BY ONLY <1>a, <5>1, Zenon
      <4> QED BY <4>1, <4>2
    <3> QED BY <1>b, <2>1, <3>1, <3>2 DEF AskType
  <2>6. ASSUME Model # {} PROVE Unmixed'
    <3>1. ~bare => Base(r) BY <1>t, <2>6, BaseKept DEF Base
    <3>2. ~bare => \A p \in PriceRequest : asking'[p].kind = "asked" => Base(asking'[p].source)
      BY <1>t, <2>3, <2>4, <2>6, <3>1 DEF Unmixed
    <3> QED BY <1>t, <2>1, <2>6, <3>2 DEF Unmixed
  <2>7. Bound'
    <3>1. \A p \in PriceRequest : asking'[p].kind = "saved" =>
            asking'[p] = asking[p] /\ RatesOf(p)' = RatesOf(p)
      BY <2>3, <2>4 DEF RatesOf
    <3>2. \A p \in PriceRequest : asking[p].kind = "saved" => asking'[p] = asking[p]
      BY <2>1, <2>4
    <3> QED BY <1>t, <2>1, <3>1, <3>2 DEF Bound
  <2> QED BY <2>5, <2>6, <2>7 DEF PriceInv
<1>5. ASSUME NEW q \in PriceRequest, SavePrices(q) PROVE PriceInv'
  <2> DEFINE new == [p \in PriceRequest |->
                  IF p = q THEN [asking[q] EXCEPT !.kind = "saved"]
                  ELSE [asking[p] EXCEPT !.crossed = asking[p].kind # "none"]]
  <2>1. /\ asking[q].kind = "asked" /\ pricing' = Saved(asking[q].source, asking[q].overrides)
        /\ pinned' = asking[q].overrides /\ synced' = FALSE
        /\ UNCHANGED <<modelPrices, fetched>>
    BY <1>5 DEF SavePrices
  <2>2. asking' = new BY <1>5 DEF SavePrices
  <2>3. crossed' = asking[q].crossed BY <1>5 DEF SavePrices
  <2>4. bare' = (bare \/ asking[q].source = NoRates) BY <1>5 DEF SavePrices
  <2>5. asking'[q] = [asking[q] EXCEPT !.kind = "saved"] BY <2>2
  <2>6. \A p \in PriceRequest : p # q =>
          asking'[p] = [asking[p] EXCEPT !.crossed = asking[p].kind # "none"]
    BY <2>2
  <2>a. \A p \in PriceRequest :
          /\ asking[p] = [kind |-> asking[p].kind, source |-> asking[p].source,
                          overrides |-> asking[p].overrides, crossed |-> asking[p].crossed]
          /\ asking[p].kind \in Kinds /\ asking[p].crossed \in BOOLEAN
    BY <1>a DEF AskRec
  <2>7. asking'[q] = [kind |-> "saved", source |-> asking[q].source,
                      overrides |-> asking[q].overrides, crossed |-> asking[q].crossed]
    BY <2>a, <2>5
  <2>8. ASSUME NEW p \in PriceRequest, p # q
        PROVE  /\ asking'[p] = [kind |-> asking[p].kind, source |-> asking[p].source,
                                overrides |-> asking[p].overrides,
                                crossed |-> asking[p].kind # "none"]
               /\ asking'[p].kind = asking[p].kind /\ asking'[p].source = asking[p].source
               /\ asking'[p].crossed <=> asking[p].kind # "none"
               /\ AskRec(asking'[p])
    <3>1. asking'[p] = [kind |-> asking[p].kind, source |-> asking[p].source,
                        overrides |-> asking[p].overrides,
                        crossed |-> asking[p].kind # "none"]
      BY <2>a, <2>6, <2>8
    <3>2. (asking[p].kind # "none") \in BOOLEAN /\ asking[p].kind \in Kinds BY <2>a
    <3>3. PICK c \in BOOLEAN : c = (asking[p].kind # "none") BY <3>2
    <3>4. asking'[p] = [kind |-> asking[p].kind, source |-> asking[p].source,
                        overrides |-> asking[p].overrides, crossed |-> c]
      BY <3>1, <3>3
    <3>5. AskRec(asking'[p]) BY <3>2, <3>4 DEF AskRec
    <3>6. asking'[p].kind = asking[p].kind /\ asking'[p].source = asking[p].source
      BY <3>4
    <3>7. asking'[p].crossed = c BY <3>4
    <3>8. asking'[p].crossed <=> asking[p].kind # "none" BY <3>3, <3>7
    <3> QED BY <3>1, <3>5, <3>6, <3>8
  <2>9. AskType'
    <3>1. asking' = [p \in PriceRequest |-> asking'[p]] BY <2>2
    <3>2. ASSUME NEW p \in PriceRequest
          PROVE  AskRec(asking'[p])
      <4>1. CASE p = q
        <5>1. "saved" \in Kinds /\ asking[q].crossed \in BOOLEAN BY <2>a DEF Kinds
        <5>2. AskRec([kind |-> "saved", source |-> asking[q].source,
                      overrides |-> asking[q].overrides, crossed |-> asking[q].crossed])
          BY <5>1, MadeRec
        <5> QED BY ONLY <2>7, <4>1, <5>2, Zenon
      <4>2. CASE p # q BY <2>8, <4>2
      <4> QED BY <4>1, <4>2
    <3>3. synced' \in BOOLEAN /\ crossed' \in BOOLEAN BY <2>1, <2>3, <2>a
    <3>4. bare' \in BOOLEAN BY <2>4
    <3> QED BY <1>b, <2>1, <3>1, <3>2, <3>3, <3>4 DEF AskType
  <2>10. ASSUME Model # {} PROVE Unmixed'
    <3>1. ASSUME ~bare' PROVE ~bare /\ asking[q].source \in Retail
      BY <1>t, <2>1, <2>4, <2>10, <3>1 DEF Unmixed, Base
    <3>2. ~bare' => SavedDoc(pricing)' /\ pricing'.overrides = pinned'
      BY <2>1, <3>1 DEF SavedDoc, Saved
    <3>3. ~bare' => \A p \in PriceRequest :
            asking'[p].kind = "asked" => Base(asking'[p].source)
      <4>1. asking'[q].kind = "saved" BY <2>7
      <4>2. ~bare' => \A p \in PriceRequest : asking[p].kind = "asked" => Base(asking[p].source)
        BY <1>t, <2>10, <3>1 DEF Unmixed
      <4>3. ASSUME ~bare', NEW p \in PriceRequest, asking'[p].kind = "asked"
            PROVE  Base(asking'[p].source)
        <5>1. p # q BY <4>1, <4>3
        <5>2. asking'[p].kind = asking[p].kind /\ asking'[p].source = asking[p].source
          BY <2>8, <5>1
        <5>3. Base(asking[p].source) BY <4>2, <4>3, <5>2
        <5> QED BY ONLY <5>2, <5>3, Zenon
      <4> QED BY <4>3
    <3> QED BY <3>2, <3>3 DEF Unmixed
  <2>11. Bound'
    <3>1. pricing'.models = RatesOf(q)' BY <2>1, <2>7 DEF Saved, RatesOf
    <3>2. \A p \in PriceRequest : asking'[p].kind = "saved" /\ ~asking'[p].crossed => p = q
      BY <2>8
    <3>3. ~crossed' => asking'[q].kind = "saved" /\ ~asking'[q].crossed
      BY <2>3, <2>7
    <3> QED BY <3>1, <3>2, <3>3 DEF Bound
  <2> QED BY <2>9, <2>10, <2>11 DEF PriceInv
<1>6. ASSUME NEW q \in PriceRequest, RebindPrices(q) PROVE PriceInv'
  <2>1. /\ asking[q].kind = "saved" /\ modelPrices' = RatesOf(q)
        /\ asking' = [asking EXCEPT ![q] = Quiet]
        /\ UNCHANGED <<pricing, fetched, pinned, synced, bare>>
    BY <1>6 DEF RebindPrices, RatesOf
  <2>2. crossed' = (crossed \/ asking[q].crossed) BY <1>6 DEF RebindPrices
  <2>3. /\ asking'[q] = Quiet /\ \A p \in PriceRequest : p # q => asking'[p] = asking[p]
        /\ asking' = [p \in PriceRequest |-> asking'[p]]
    BY <1>t, <2>1 DEF AskType
  <2>4. AskType'
    <3>2. ASSUME NEW p \in PriceRequest
          PROVE  AskRec(asking'[p])
      <4>1. CASE p = q BY ONLY <2>3, <4>1, QuietRec, Zenon
      <4>2. CASE p # q
        <5>1. asking'[p] = asking[p] BY <2>3, <4>2
        <5> QED BY ONLY <1>a, <5>1, Zenon
      <4> QED BY <4>1, <4>2
    <3>3. crossed' \in BOOLEAN BY <2>2
    <3> QED BY <1>b, <2>1, <2>3, <3>2, <3>3 DEF AskType
  <2>5. Model # {} => Unmixed' BY <1>t, <2>1, <2>3 DEF Unmixed, Quiet
  <2>6. Bound'
    <3>1. \A p \in PriceRequest : asking'[p].kind = "saved" =>
            asking'[p] = asking[p] /\ RatesOf(p)' = RatesOf(p)
      BY <2>3 DEF RatesOf, Quiet
    <3>2. ~crossed' => ~asking[q].crossed BY <2>2
    <3>3. ~synced' /\ ~crossed' => pricing' = NoPricing \/ modelPrices' = pricing'.models
      BY <1>t, <2>1, <3>2 DEF Bound
    <3> QED BY <1>t, <2>1, <3>1, <3>3 DEF Bound
  <2> QED BY <2>4, <2>5, <2>6 DEF PriceInv
<1>7. CASE UNCHANGED priceVars
  BY <1>t, <1>7 DEF priceVars, PriceInv, AskType, Unmixed, Bound, RatesOf
<1> QED BY <1>1, <1>2, <1>3, <1>4, <1>5, <1>6, <1>7 DEF PriceNext

LEMMA InvPinned == PriceInv => PinnedPricesHold
<1> SUFFICES ASSUME PriceInv, ~synced, ~bare
             PROVE  /\ \A m \in Model : Applied(m) =>
                         IF m \in DOMAIN pinned THEN pricing.models[m] = pinned[m]
                         ELSE \E r \in Retail : pricing.models[m] = r[m]
                    /\ ~crossed /\ (\A q \in PriceRequest : asking[q].kind = "none") =>
                         pricing = NoPricing \/ modelPrices = pricing.models
  BY DEF PinnedPricesHold
<1>1. AskType /\ (Model # {} => Unmixed) /\ Bound BY DEF PriceInv
<1>2. ~crossed /\ (\A q \in PriceRequest : asking[q].kind = "none") =>
        pricing = NoPricing \/ modelPrices = pricing.models
  BY <1>1 DEF Bound
<1>3. ASSUME NEW m \in Model, Applied(m)
      PROVE  IF m \in DOMAIN pinned THEN pricing.models[m] = pinned[m]
             ELSE \E r \in Retail : pricing.models[m] = r[m]
  <2>1. pricing # NoPricing /\ m \in DOMAIN pricing.models BY <1>3 DEF Applied
  <2>2. CASE ListDoc(pricing) /\ pinned = NoRates
    <3>1. DOMAIN NoRates = {} BY DEF NoRates
    <3> QED BY <2>2, <3>1 DEF ListDoc
  <2>3. CASE SavedDoc(pricing) /\ pricing.overrides = pinned
    <3>1. pricing.models = ApplyOverrides(pricing.source, pinned) /\ pricing.source \in Retail
      BY <2>3 DEF SavedDoc
    <3> QED BY <2>1, <3>1 DEF ApplyOverrides
  <2> QED BY <1>1, <2>1, <2>2, <2>3 DEF Unmixed
<1> QED BY <1>2, <1>3

(* However refreshes, saves, restarts and the job interleave, the rate in  *)
(* force is the pinned one where the operator pinned it and a price of the *)
(* API elsewhere, until the job writes the document (app.py pricing_put,   *)
(* pricing_refresh).                                                       *)
THEOREM PinnedHold == PriceSpec => []PinnedPricesHold
BY PriceInitially, PriceSteps, InvPinned, PTL DEF PriceSpec

-----------------------------------------------------------------------------
(* The documents and the job, ConsumerConfig.                              *)
USE ConfigAssumption

Field == OperatorField \cup {"level"}
Document == UNION {[F -> Nat] : F \in SUBSET Field}

DocLevel(d) == IF d = NoDoc THEN 0 ELSE Level(d)

(* Two documents the evaluation treats alike.                              *)
SameBudget(d, w) ==
  /\ Evaluated(d) <=> Evaluated(w)
  /\ Evaluated(d) => w["budget"] = d["budget"]

(* The level of a document does not exceed what a cost calls for.          *)
Owed(d, cost) == d # NoDoc /\ Evaluated(d) => Level(d) <= LevelFor(cost, d["budget"])

LEMMA DocFacts ==
  ASSUME NEW d \in Document
  PROVE  /\ DOMAIN d \subseteq Field /\ d \in [DOMAIN d -> Nat] /\ d # NoDoc
         /\ Level(d) \in Nat
<1>1. PICK F \in SUBSET Field : d \in [F -> Nat] BY DEF Document
<1>2. DOMAIN d = F BY <1>1
<1>3. d # NoDoc BY <1>1 DEF Field
<1> QED BY <1>1, <1>2, <1>3 DEF Level

LEMMA MadeDoc ==
  ASSUME NEW F \in SUBSET Field, NEW d \in [F -> Nat]
  PROVE  d \in Document
BY DEF Document

LEMMA NoDocIsNone == NoDoc \notin Document
BY DocFacts

LEMMA EditIs ==
  ASSUME NEW e \in Edit
  PROVE  /\ e \in Document /\ DOMAIN e \subseteq OperatorField /\ e \in [DOMAIN e -> Nat]
         /\ "level" \notin DOMAIN e
<1>1. DOMAIN e \subseteq OperatorField /\ e \in [DOMAIN e -> Nat] OBVIOUS
<1>2. e \in Document BY <1>1, MadeDoc DEF Field
<1> QED BY <1>1, <1>2 DEF OperatorField

\* What an operator may edit of a document.
Operators(d) == IF d = NoDoc THEN NoDoc ELSE Restrict(d, OperatorField \cap DOMAIN d)

LEMMA OperatorsOf ==
  ASSUME NEW d \in Document
  PROVE  /\ Operators(d) \in Document /\ Operators(d) # NoDoc
         /\ Operators(d) = [f \in OperatorField \cap DOMAIN d |-> d[f]]
<1>1. Operators(d) = [f \in OperatorField \cap DOMAIN d |-> d[f]]
  BY DocFacts DEF Operators, Restrict
<1>2. [f \in OperatorField \cap DOMAIN d |-> d[f]] \in [OperatorField \cap DOMAIN d -> Nat]
  BY DocFacts
<1>3. Operators(d) \in Document BY <1>1, <1>2, MadeDoc DEF Field
<1> QED BY <1>1, <1>3, NoDocIsNone

LEMMA SameSaid ==
  ASSUME NEW d \in Document, NEW w \in Document, Operators(d) = Operators(w),
         NEW f \in OperatorField
  PROVE  Said(d, f) = Said(w, f)
<1>1. /\ Operators(d) = [g \in OperatorField \cap DOMAIN d |-> d[g]]
      /\ Operators(w) = [g \in OperatorField \cap DOMAIN w |-> w[g]]
  BY OperatorsOf
<1>2. DOMAIN Operators(d) = OperatorField \cap DOMAIN d
      /\ DOMAIN Operators(w) = OperatorField \cap DOMAIN w
  BY <1>1
<1>3. f \in DOMAIN d <=> f \in DOMAIN w BY <1>2
<1>4. f \in DOMAIN d => d[f] = w[f] BY <1>1, <1>2, <1>3
<1> QED BY <1>3, <1>4, NoDocIsNone DEF Said

LEMMA WithLevelIs ==
  ASSUME NEW d \in Document, NEW n \in Nat
  PROVE  /\ WithLevel(d, n) \in Document
         /\ Level(WithLevel(d, n)) = n
         /\ Operators(WithLevel(d, n)) = Operators(d)
         /\ SameBudget(d, WithLevel(d, n))
<1> DEFINE F == (DOMAIN d \ {"level"}) \cup {f \in {"level"} : n > 0}
           w == [f \in F |-> IF f = "level" THEN n ELSE d[f]]
<1>1. WithLevel(d, n) = w BY DEF WithLevel
<1>2. DOMAIN d \subseteq Field /\ d \in [DOMAIN d -> Nat] BY DocFacts
<1>3. F \subseteq Field /\ w \in [F -> Nat] BY <1>2 DEF Field
<1>4. w \in Document BY <1>3, MadeDoc
<1>5. "level" \in F <=> n > 0 OBVIOUS
<1>6. DOMAIN w = F /\ \A f \in F : f # "level" => w[f] = d[f] OBVIOUS
<1>7. n > 0 => w["level"] = n BY <1>5
<1>8. \A f \in OperatorField : f # "level" /\ (f \in F <=> f \in DOMAIN d)
  BY DEF OperatorField
<1> HIDE DEF F, w
<1>9. Level(w) = n BY <1>5, <1>6, <1>7 DEF Level
<1>10. Operators(w) = Operators(d)
  <2>1. OperatorField \cap DOMAIN w = OperatorField \cap DOMAIN d BY <1>6, <1>8
  <2>2. \A f \in OperatorField \cap DOMAIN d : w[f] = d[f] BY <1>6, <1>8
  <2>3. [f \in OperatorField \cap DOMAIN d |-> w[f]] = [f \in OperatorField \cap DOMAIN d |-> d[f]]
    BY <2>2
  <2>4. Operators(w) = [f \in OperatorField \cap DOMAIN w |-> w[f]] BY <1>4, OperatorsOf
  <2>5. Operators(w) = [f \in OperatorField \cap DOMAIN d |-> w[f]] BY <2>1, <2>4
  <2>6. Operators(d) = [f \in OperatorField \cap DOMAIN d |-> d[f]] BY OperatorsOf
  <2> QED BY <2>3, <2>5, <2>6
<1>11. SameBudget(d, w)
  <2>1. {"budget", "ladder"} \subseteq OperatorField BY DEF OperatorField
  <2>2. {"budget", "ladder"} \subseteq DOMAIN w <=> {"budget", "ladder"} \subseteq DOMAIN d
    BY <1>6, <1>8, <2>1
  <2>3. {"budget", "ladder"} \subseteq DOMAIN d =>
          w["budget"] = d["budget"] /\ w["ladder"] = d["ladder"]
    BY <1>6, <1>8, <2>1
  <2> QED BY <2>2, <2>3 DEF SameBudget, Evaluated
<1> QED BY <1>1, <1>4, <1>9, <1>10, <1>11

LEMMA UpdatedIs ==
  ASSUME NEW d \in Document, NEW e \in Edit
  PROVE  /\ Updated(d, e) \in Document
         /\ Level(Updated(d, e)) = Level(d)
         /\ {"budget", "ladder"} \cap DOMAIN e = {} => SameBudget(d, Updated(d, e))
         /\ \A f : Said(Updated(d, e), f) = IF f \in DOMAIN e THEN {e[f]} ELSE Said(d, f)
<1> DEFINE m == Updated(d, e)
<1>1. /\ DOMAIN d \subseteq Field /\ d \in [DOMAIN d -> Nat]
      /\ DOMAIN e \subseteq OperatorField /\ e \in [DOMAIN e -> Nat] /\ "level" \notin DOMAIN e
  BY DocFacts, EditIs
<1>2. m = [f \in DOMAIN d \cup DOMAIN e |-> IF f \in DOMAIN e THEN e[f] ELSE d[f]]
  BY DEF Updated
<1>3. m \in [DOMAIN d \cup DOMAIN e -> Nat] BY <1>1, <1>2
<1>4. m \in Document BY <1>1, <1>3, MadeDoc DEF Field
<1>5. /\ DOMAIN m = DOMAIN d \cup DOMAIN e
      /\ \A f \in DOMAIN m : m[f] = IF f \in DOMAIN e THEN e[f] ELSE d[f]
  BY <1>2
<1> HIDE DEF m
<1>6. Level(m) = Level(d) BY <1>1, <1>5 DEF Level
<1>7. \A f : Said(m, f) = IF f \in DOMAIN e THEN {e[f]} ELSE Said(d, f)
  <2>1. m # NoDoc /\ d # NoDoc BY <1>4, NoDocIsNone
  <2> QED BY <1>5, <2>1 DEF Said
<1>8. {"budget", "ladder"} \cap DOMAIN e = {} => SameBudget(d, m)
  BY <1>5 DEF SameBudget, Evaluated
<1> QED BY <1>4, <1>6, <1>7, <1>8 DEF m

(* An edit that is written as it was merged.                               *)
LEMMA MergedIs ==
  ASSUME NEW d \in Document \cup {NoDoc}, NEW e \in Edit
  PROVE  /\ Merged(d, e) \in Document
         /\ \A f : Said(Merged(d, e), f) = IF f \in DOMAIN e THEN {e[f]} ELSE Said(d, f)
         /\ {"budget", "ladder"} \cap DOMAIN e = {} =>
              /\ DocLevel(Merged(d, e)) = DocLevel(d)
              /\ d = NoDoc => ~Evaluated(Merged(d, e))
              /\ d # NoDoc => SameBudget(d, Merged(d, e))
<1>1. CASE d = NoDoc
  <2>1. Merged(d, e) = e BY <1>1 DEF Merged
  <2>2. e \in Document /\ DOMAIN e \subseteq OperatorField /\ e \in [DOMAIN e -> Nat]
        /\ "level" \notin DOMAIN e
    BY EditIs
  <2>3. \A f : Said(e, f) = IF f \in DOMAIN e THEN {e[f]} ELSE Said(d, f)
    BY <1>1, <2>2, NoDocIsNone DEF Said
  <2>4. DocLevel(e) = 0 /\ DocLevel(d) = 0 BY <1>1, <2>2 DEF DocLevel, Level
  <2>5. {"budget", "ladder"} \cap DOMAIN e = {} => ~Evaluated(e) BY DEF Evaluated
  <2> QED BY <1>1, <2>1, <2>2, <2>3, <2>4, <2>5
<1>2. CASE d # NoDoc
  <2>1. Merged(d, e) = Updated(d, e) /\ d \in Document BY <1>2 DEF Merged
  <2>3. Updated(d, e) \in Document /\ Updated(d, e) # NoDoc BY <2>1, UpdatedIs, NoDocIsNone
  <2> QED BY <1>2, <2>1, <2>3, UpdatedIs DEF DocLevel
<1> QED BY <1>1, <1>2

LEMMA LevelForIs ==
  ASSUME NEW x \in Nat, NEW y \in Nat, NEW b \in Nat
  PROVE  /\ LevelFor(x, b) \in Nat
         /\ x <= y => LevelFor(x, b) <= LevelFor(y, b)
BY DEF LevelFor

LEMMA OwedGrows ==
  ASSUME NEW d \in Document \cup {NoDoc}, NEW x \in Nat, NEW y \in Nat, x <= y, Owed(d, x)
  PROVE  Owed(d, y)
<1> SUFFICES ASSUME d # NoDoc, Evaluated(d) PROVE Level(d) <= LevelFor(y, d["budget"])
  BY DEF Owed
<1>1. d \in Document /\ Level(d) \in Nat BY DocFacts
<1>2. d["budget"] \in Nat BY <1>1, DocFacts DEF Evaluated
<1>3. Level(d) <= LevelFor(x, d["budget"]) BY DEF Owed
<1> QED BY <1>1, <1>2, <1>3, LevelForIs

LEMMA OwedMoves ==
  ASSUME NEW d \in Document, NEW w \in Document, NEW x, SameBudget(d, w),
         Level(w) = Level(d), Owed(d, x)
  PROVE  Owed(w, x)
BY DocFacts DEF Owed, SameBudget

LEMMA BundledIs ==
  ASSUME NEW d \in Document
  PROVE  /\ Restrict(d, BundleField \cap DOMAIN d) \in Document
         /\ Level(Restrict(d, BundleField \cap DOMAIN d)) = Level(d)
<1>1. DOMAIN d \subseteq Field /\ d \in [DOMAIN d -> Nat] BY DocFacts
<1> DEFINE w == Restrict(d, BundleField \cap DOMAIN d)
<1>2. w = [f \in BundleField \cap DOMAIN d |-> d[f]] BY DEF Restrict
<1>3. w \in [BundleField \cap DOMAIN d -> Nat] BY <1>1, <1>2
<1>4. w \in Document BY <1>1, <1>3, MadeDoc
<1>5. Level(w) = Level(d) BY <1>2 DEF Level, BundleField
<1> QED BY <1>4, <1>5

-----------------------------------------------------------------------------
JobPc == {"idle", "global", "seed", "named", "usage", "docs", "levels", "bundle", "publish"}

DocMap == UNION {[C -> Document] : C \in SUBSET Consumer}

\* Of the configuration and the fields left only that they are something.
JobOf(C, F) ==
  [pc : JobPc, config : C, fields : F, usage : [Consumer -> Nat],
   writes : DocMap, entries : DocMap, stale : SUBSET (Consumer \cup {"global"})]

JobRec(j) == \E C, F : j \in JobOf(C, F)

PutRec ==
  [pc : {"idle", "write"}, consumer : Consumer \cup {NoDoc}, body : Edit \cup {<<>>},
   merged : Document \cup {<<>>}, stale : BOOLEAN]

StoreType ==
  /\ docs \in [Consumer -> Document \cup {NoDoc}]
  /\ bundle \in DocMap /\ spend \in [Consumer -> Nat]
  /\ intent = [d \in Consumer \cup {"global"} |-> intent[d]]
  /\ \A c \in Consumer : intent[c] \in Document \cup {NoDoc}
  /\ doubtful \in [Consumer -> SUBSET OperatorField]
  /\ relieved \subseteq Consumer

ActorType ==
  /\ job = [x \in Execution |-> job[x]] /\ \A x \in Execution : JobRec(job[x])
  /\ put \in [Request -> PutRec]
  /\ \A r \in Request : put[r].pc = "write" =>
       put[r].consumer \in Consumer /\ put[r].body \in Edit /\ put[r].merged \in Document

(* The fields an operator saved are the ones that stand, the doubtful ones *)
(* aside, and whoever holds a copy nobody wrote over since would write the *)
(* same fields.                                                            *)
DocKept(c) ==
  c \notin clobbered =>
    \A f \in OperatorField \ doubtful[c] : Said(docs[c], f) = Said(intent[c], f)

GlobalKept ==
  "global" \notin clobbered /\ intent["global"] # NoDoc => global = intent["global"]

HeldByJob(x) ==
  /\ \A c \in Consumer : job[x].pc = "levels" /\ c \in DOMAIN job[x].writes /\ c \notin job[x].stale
       => docs[c] # NoDoc /\ Operators(job[x].writes[c]) = Operators(docs[c])
  /\ job[x].pc = "seed" /\ "global" \notin job[x].stale =>
       "global" \in clobbered \/ intent["global"] = NoDoc

HeldByPut(r) ==
  put[r].pc = "write" /\ ~put[r].stale =>
    put[r].merged = Merged(docs[put[r].consumer], put[r].body)

ConfigInv ==
  /\ StoreType /\ ActorType
  /\ (\A c \in Consumer : DocKept(c)) /\ GlobalKept
  /\ \A x \in Execution : HeldByJob(x)
  /\ \A r \in Request : HeldByPut(r)

-----------------------------------------------------------------------------
(* What a write of document d leaves of the copies others hold.            *)
SameJob(y, d) ==
  /\ JobRec(job'[y]) /\ job'[y].pc = job[y].pc
  /\ job'[y].usage = job[y].usage /\ job'[y].writes = job[y].writes
  /\ job'[y].entries = job[y].entries
  /\ job[y].stale \subseteq job'[y].stale
  /\ Holds(y, d) => d \in job'[y].stale

SamePut(r, d) ==
  /\ put'[r] \in PutRec /\ put'[r].pc = put[r].pc
  /\ put'[r].consumer = put[r].consumer
  /\ put'[r].body = put[r].body /\ put'[r].merged = put[r].merged
  /\ put'[r].stale <=> put[r].stale \/ put[r].consumer = d

LEMMA MapIs ==
  ASSUME NEW w \in DocMap
  PROVE  DOMAIN w \subseteq Consumer /\ \A c \in DOMAIN w : w[c] \in Document
BY DEF DocMap

LEMMA MadeMap ==
  ASSUME NEW C \in SUBSET Consumer, NEW w \in [C -> Document]
  PROVE  w \in DocMap
BY DEF DocMap

LEMMA RecIs ==
  ASSUME NEW j, JobRec(j)
  PROVE  /\ j.pc \in JobPc /\ j.usage \in [Consumer -> Nat]
         /\ j.writes \in DocMap /\ j.entries \in DocMap
         /\ j.stale \subseteq Consumer \cup {"global"}
<1>1. PICK C, F : j \in JobOf(C, F) BY DEF JobRec
<1> QED BY <1>1 DEF JobOf

LEMMA JobAfterWrite ==
  ASSUME ActorType, NEW y \in Execution, NEW d \in Consumer \cup {"global"},
         job'[y] = JobsAfterWrite(d)[y]
  PROVE  SameJob(y, d)
<1> DEFINE new == job[y].stale \cup IF Holds(y, d) THEN {d} ELSE {}
<1>1. JobRec(job[y]) BY DEF ActorType
<1>2. PICK C, F : job[y] \in JobOf(C, F) BY <1>1 DEF JobRec
<1>3. job'[y] = [job[y] EXCEPT !.stale = new] BY DEF JobsAfterWrite
<1>4. /\ job[y].stale \subseteq new /\ (Holds(y, d) => d \in new)
      /\ new \subseteq Consumer \cup {"global"}
  BY <1>1, RecIs
<1> HIDE DEF new
<1>5. /\ job'[y] \in JobOf(C, F)
      /\ job'[y].pc = job[y].pc /\ job'[y].usage = job[y].usage
      /\ job'[y].writes = job[y].writes /\ job'[y].entries = job[y].entries
      /\ job'[y].stale = new
  BY <1>2, <1>3, <1>4 DEF JobOf
<1>6. JobRec(job'[y]) BY <1>5 DEF JobRec
<1> QED BY <1>4, <1>5, <1>6 DEF SameJob

LEMMA PutAfterWrite ==
  ASSUME ActorType, NEW r \in Request, NEW d, put'[r] = PutsAfterWrite(d)[r]
  PROVE  SamePut(r, d)
<1>1. put[r] \in PutRec BY DEF ActorType
<1>2. PICK b \in BOOLEAN : b = (put[r].stale \/ put[r].consumer = d) OBVIOUS
<1>3. put'[r] = [put[r] EXCEPT !.stale = b] BY <1>2 DEF PutsAfterWrite
<1>4. /\ put'[r] \in PutRec /\ put'[r].pc = put[r].pc /\ put'[r].consumer = put[r].consumer
      /\ put'[r].body = put[r].body /\ put'[r].merged = put[r].merged /\ put'[r].stale = b
  BY <1>1, <1>3 DEF PutRec
<1> QED BY <1>2, <1>4 DEF SamePut

-----------------------------------------------------------------------------
(* What the steps of the job make of its record.                           *)
LEMMA IdleIs ==
  IdleJob \in JobOf({NoDoc}, {<<>>}) /\ IdleJob.pc = "idle" /\ IdleJob.usage \in [Consumer -> Nat]
<1>1. <<>> \in DocMap
  <2>1. <<>> \in [{} -> Document] OBVIOUS
  <2> QED BY <2>1, MadeMap
<1>2. "idle" \in JobPc BY DEF JobPc
<1>3. IdleJob = [pc |-> "idle", config |-> NoDoc, fields |-> <<>>,
                 usage |-> [c \in Consumer |-> 0], writes |-> <<>>,
                 entries |-> <<>>, stale |-> {}]
  BY DEF IdleJob
<1> QED BY <1>1, <1>2, <1>3 DEF JobOf

Moved(x) ==
  /\ JobRec(job'[x]) /\ \A y \in Execution : y # x => job'[y] = job[y]
  /\ job' = [y \in Execution |-> job'[y]]

LEMMA MovedTo ==
  ASSUME ActorType, NEW x \in Execution, NEW next, JobStep(x, next), JobRec(next)
  PROVE  Moved(x) /\ job'[x] = next
BY DEF ActorType, JobStep, Moved

(* A record with another pc, configuration and list of fields.             *)
LEMMA Retarget ==
  ASSUME NEW C, NEW F, NEW j \in JobOf(C, F), NEW pc \in JobPc, NEW config, NEW fields,
         NEW k, k = [j EXCEPT !.pc = pc, !.config = config, !.fields = fields]
  PROVE  /\ JobRec(k) /\ k \in JobOf({config}, {fields}) /\ k.pc = pc /\ k.usage = j.usage
         /\ k.writes = j.writes /\ k.entries = j.entries /\ k.stale = j.stale
<1>1. /\ k \in JobOf({config}, {fields}) /\ k.pc = pc /\ k.usage = j.usage
      /\ k.writes = j.writes /\ k.entries = j.entries /\ k.stale = j.stale
  BY DEF JobOf
<1> QED BY <1>1 DEF JobRec

LEMMA GoesTo ==
  ASSUME NEW C, NEW F, NEW j \in JobOf(C, F), NEW pc \in JobPc,
         NEW k, k = [j EXCEPT !.pc = pc]
  PROVE  /\ JobRec(k) /\ k.pc = pc /\ k.usage = j.usage
         /\ k.writes = j.writes /\ k.entries = j.entries /\ k.stale = j.stale
<1>1. /\ k \in JobOf(C, F) /\ k.pc = pc /\ k.usage = j.usage
      /\ k.writes = j.writes /\ k.entries = j.entries /\ k.stale = j.stale
  BY DEF JobOf
<1> QED BY <1>1 DEF JobRec

LEMMA StartIs ==
  ASSUME ActorType, NEW x \in Execution, StartExecution(x)
  PROVE  Moved(x) /\ job'[x].pc = "global"
<1> DEFINE k == [IdleJob EXCEPT !.pc = "global"]
<1>1. JobStep(x, k) /\ "global" \in JobPc BY DEF StartExecution, JobPc
<1>2. JobRec(k) /\ k.pc = "global" BY <1>1, IdleIs, GoesTo
<1> HIDE DEF k
<1> QED BY <1>1, <1>2, MovedTo

LEMMA EndIs ==
  ASSUME ActorType, NEW x \in Execution, Publish(x) \/ ExecutionFails(x)
  PROVE  Moved(x) /\ job'[x].pc = "idle"
<1>1. JobStep(x, IdleJob) BY DEF Publish, ExecutionFails
<1>2. JobRec(IdleJob) BY IdleIs DEF JobRec
<1> QED BY <1>1, <1>2, IdleIs, MovedTo

LEMMA AfterNamedIs ==
  ASSUME NEW C, NEW F, NEW j \in JobOf(C, F), NEW k, k = AfterNamed(j)
  PROVE  /\ JobRec(k) /\ k.pc \in {"usage", "named"} /\ k.usage = j.usage
         /\ k.writes = j.writes /\ k.entries = j.entries /\ k.stale = j.stale
<1>1. "usage" \in JobPc /\ "named" \in JobPc BY DEF JobPc
<1>2. CASE j.fields = <<>>
  <2>1. k = [j EXCEPT !.pc = "usage", !.config = NoDoc] BY <1>2 DEF AfterNamed
  <2>2. /\ k \in JobOf({NoDoc}, F) /\ k.pc = "usage" /\ k.usage = j.usage
        /\ k.writes = j.writes /\ k.entries = j.entries /\ k.stale = j.stale
    BY <1>1, <2>1 DEF JobOf
  <2> QED BY <2>2 DEF JobRec
<1>3. CASE j.fields # <<>>
  <2>1. k = [j EXCEPT !.pc = "named"] BY <1>3 DEF AfterNamed
  <2> QED BY <1>1, <2>1, GoesTo
<1> QED BY <1>2, <1>3

LEMMA ReadGlobalIs ==
  ASSUME ActorType, NEW x \in Execution, ReadGlobal(x)
  PROVE  /\ Moved(x) /\ job'[x].pc \in {"seed", "usage", "named"}
         /\ job'[x].pc = "seed" => global = NoDoc
<1>1. PICK C, F : job[x] \in JobOf(C, F) BY DEF ActorType, JobRec
<1>2. CASE global = NoDoc
  <2> DEFINE k == [job[x] EXCEPT !.pc = "seed"]
  <2>1. JobStep(x, k) /\ "seed" \in JobPc BY <1>2 DEF ReadGlobal, JobPc
  <2>2. JobRec(k) /\ k.pc = "seed" BY <1>1, <2>1, GoesTo
  <2> HIDE DEF k
  <2> QED BY <1>2, <2>1, <2>2, MovedTo
<1>3. CASE global # NoDoc
  <2> DEFINE j == [job[x] EXCEPT !.config = global, !.fields = FieldsOf(global)]
             k == AfterNamed(j)
  <2>1. JobStep(x, k) BY <1>3 DEF ReadGlobal
  <2>2. j \in JobOf({global}, {FieldsOf(global)}) BY <1>1 DEF JobOf
  <2> HIDE DEF j
  <2>3. JobRec(k) /\ k.pc \in {"usage", "named"} BY <2>2, AfterNamedIs
  <2> HIDE DEF k
  <2> QED BY <1>3, <2>1, <2>3, MovedTo
<1> QED BY <1>2, <1>3

LEMMA WriteNamedIs ==
  ASSUME ActorType, NEW x \in Execution, WriteNamed(x)
  PROVE  Moved(x) /\ job'[x].pc \in {"usage", "named"}
<1> DEFINE j == [job[x] EXCEPT !.fields = Tail(@)]
           k == AfterNamed(j)
<1>1. PICK C, F : job[x] \in JobOf(C, F) BY DEF ActorType, JobRec
<1>2. JobStep(x, k) BY DEF WriteNamed
<1>3. j \in JobOf(C, {Tail(job[x].fields)}) BY <1>1 DEF JobOf
<1> HIDE DEF j
<1>4. JobRec(k) /\ k.pc \in {"usage", "named"} BY <1>3, AfterNamedIs
<1> HIDE DEF k
<1> QED BY <1>2, <1>4, MovedTo

(* What the usage query returns for consumers nobody relieves, and who is  *)
(* fresh from then on.                                                     *)
LEMMA QueryIs ==
  ASSUME ActorType, StoreType, NEW x \in Execution, QueryUsage(x)
  PROVE  /\ Moved(x) /\ job'[x].pc \in {"docs", "bundle"}
         /\ relieved \subseteq relieved' /\ relieved' \subseteq Consumer
         /\ job'[x].pc = "docs" =>
              \A c \in Consumer \ relieved' : job'[x].usage[c] = spend[c]
         /\ \/ fresh' = {}
            \/ fresh' = Consumer /\ Alone(x) /\ job'[x].pc = "docs" /\ job'[x].usage = spend
<1>1. spend \in [Consumer -> Nat] /\ relieved \subseteq Consumer BY DEF StoreType
<1>r. PICK C, F : job[x] \in JobOf(C, F) BY DEF ActorType, JobRec
<1>2. ASSUME NEW u \in [Consumer -> Nat],
             JobStep(x, [job[x] EXCEPT !.pc = "docs", !.usage = u])
      PROVE  Moved(x) /\ job'[x].pc = "docs" /\ job'[x].usage = u
  <2> DEFINE k == [job[x] EXCEPT !.pc = "docs", !.usage = u]
  <2>1. JobStep(x, k) /\ "docs" \in JobPc BY <1>2 DEF JobPc
  <2>2. k \in JobOf(C, F) /\ k.pc = "docs" /\ k.usage = u BY <1>2, <1>r, <2>1 DEF JobOf
  <2> HIDE DEF k
  <2>3. JobRec(k) BY <2>2 DEF JobRec
  <2> QED BY <2>1, <2>2, <2>3, MovedTo
<1>3. CASE /\ JobStep(x, [job[x] EXCEPT !.pc = "docs", !.usage = spend])
           /\ fresh' = (IF Alone(x) THEN Consumer ELSE {}) /\ UNCHANGED relieved
  <2>1. Moved(x) /\ job'[x].pc = "docs" /\ job'[x].usage = spend BY <1>1, <1>2, <1>3
  <2> QED BY <1>1, <1>3, <2>1
<1>4. ASSUME NEW u \in [Consumer -> Cost], \A c \in Consumer : u[c] <= spend[c],
             JobStep(x, [job[x] EXCEPT !.pc = "docs", !.usage = u]), fresh' = {},
             relieved' = relieved \cup {c \in Consumer : u[c] < spend[c]}
      PROVE  /\ Moved(x) /\ job'[x].pc = "docs"
             /\ relieved \subseteq relieved' /\ relieved' \subseteq Consumer
             /\ \A c \in Consumer \ relieved' : job'[x].usage[c] = spend[c]
  <2>1. u \in [Consumer -> Nat] BY <1>4
  <2>2. Moved(x) /\ job'[x].pc = "docs" /\ job'[x].usage = u BY <1>2, <1>4, <2>1
  <2>3. \A c \in Consumer \ relieved' : u[c] = spend[c] BY <1>1, <1>4, <2>1
  <2> QED BY <1>1, <1>4, <2>2, <2>3
<1>5. CASE JobStep(x, [job[x] EXCEPT !.pc = "bundle"]) /\ UNCHANGED relieved /\ fresh' = {}
  <2> DEFINE k == [job[x] EXCEPT !.pc = "bundle"]
  <2>2. JobStep(x, k) /\ "bundle" \in JobPc BY <1>5 DEF JobPc
  <2>3. JobRec(k) /\ k.pc = "bundle" BY <1>r, <2>2, GoesTo
  <2> HIDE DEF k
  <2> QED BY <1>1, <1>5, <2>2, <2>3, MovedTo
<1>6. \/ /\ JobStep(x, [job[x] EXCEPT !.pc = "docs", !.usage = spend])
         /\ fresh' = (IF Alone(x) THEN Consumer ELSE {}) /\ UNCHANGED relieved
      \/ \E u \in [Consumer -> Cost] :
           /\ fresh' = {}
           /\ \A c \in Consumer : u[c] <= spend[c]
           /\ JobStep(x, [job[x] EXCEPT !.pc = "docs", !.usage = u])
           /\ relieved' = relieved \cup {c \in Consumer : u[c] < spend[c]}
      \/ JobStep(x, [job[x] EXCEPT !.pc = "bundle"]) /\ UNCHANGED relieved /\ fresh' = {}
  BY DEF QueryUsage
<1> QED BY <1>3, <1>4, <1>5, <1>6

LEMMA NextWriteIs ==
  ASSUME NEW C, NEW F, NEW j \in JobOf(C, F), NEW k, k = NextWrite(j)
  PROVE  /\ JobRec(k) /\ k.pc \in {"bundle", "levels"} /\ k.usage = j.usage
         /\ k.writes = j.writes /\ k.entries = j.entries /\ k.stale = j.stale
         /\ k.pc = "bundle" => DOMAIN k.writes = {}
<1>1. PICK pc \in {"bundle", "levels"} :
        k = [j EXCEPT !.pc = pc] /\ (pc = "bundle" => j.writes = <<>>)
  BY DEF NextWrite
<1>2. pc \in JobPc BY <1>1 DEF JobPc
<1>3. /\ JobRec(k) /\ k.pc = pc /\ k.usage = j.usage
      /\ k.writes = j.writes /\ k.entries = j.entries /\ k.stale = j.stale
  BY <1>1, <1>2, GoesTo
<1>4. DOMAIN <<>> = {} OBVIOUS
<1> QED BY <1>1, <1>3, <1>4

(* The documents the evaluation wants written.                             *)
LEMMA DowngradesIs ==
  ASSUME StoreType, NEW usage \in [Consumer -> Nat]
  PROVE  /\ Downgrades(usage) \in DocMap
         /\ \A c \in DOMAIN Downgrades(usage) :
              /\ docs[c] # NoDoc /\ docs[c] \in Document /\ Evaluated(docs[c])
              /\ Downgrades(usage)[c] = WithLevel(docs[c], LevelFor(usage[c], docs[c]["budget"]))
              /\ LevelFor(usage[c], docs[c]["budget"]) \in Nat
         /\ \A c \in Consumer \ DOMAIN Downgrades(usage) :
              docs[c] # NoDoc /\ Evaluated(docs[c]) =>
                Level(docs[c]) = LevelFor(usage[c], docs[c]["budget"])
<1>1. docs \in [Consumer -> Document \cup {NoDoc}] BY DEF StoreType
<1> DEFINE NewLevel(c) == LevelFor(usage[c], docs[c]["budget"])
           Changed == {c \in Docs : Evaluated(docs[c]) /\ NewLevel(c) # Level(docs[c])}
<1>2. Downgrades(usage) = [c \in Changed |-> WithLevel(docs[c], NewLevel(c))]
  BY DEF Downgrades
<1>3. ASSUME NEW c \in Changed
      PROVE  /\ c \in Consumer /\ docs[c] # NoDoc /\ docs[c] \in Document /\ Evaluated(docs[c])
             /\ NewLevel(c) \in Nat /\ WithLevel(docs[c], NewLevel(c)) \in Document
  <2>1. c \in Consumer /\ docs[c] # NoDoc /\ Evaluated(docs[c]) BY DEF Docs
  <2>2. docs[c] \in Document BY <1>1, <2>1
  <2>3. docs[c]["budget"] \in Nat BY <2>1, <2>2, DocFacts DEF Evaluated
  <2>4. NewLevel(c) \in Nat BY <2>1, <2>3, LevelForIs
  <2> HIDE DEF NewLevel
  <2> QED BY <2>1, <2>2, <2>4, WithLevelIs
<1>4. DOMAIN Downgrades(usage) = Changed
      /\ \A c \in Changed : Downgrades(usage)[c] = WithLevel(docs[c], NewLevel(c))
  BY <1>2
<1>5. Downgrades(usage) \in [Changed -> Document] BY <1>2, <1>3
<1>6. Changed \subseteq Consumer BY DEF Docs
<1>7. ASSUME NEW c \in Consumer \ Changed, docs[c] # NoDoc, Evaluated(docs[c])
      PROVE  Level(docs[c]) = NewLevel(c)
  <2>1. c \in Docs BY <1>7 DEF Docs
  <2> HIDE DEF NewLevel
  <2> QED BY <1>7, <2>1
<1> HIDE DEF Changed
<1> QED BY <1>3, <1>4, <1>5, <1>6, <1>7, MadeMap

LEMMA ReadDocsIs ==
  ASSUME ActorType, StoreType, NEW x \in Execution, ReadDocs(x)
  PROVE  /\ Moved(x) /\ job'[x].pc \in {"bundle", "levels"}
         /\ job'[x].writes = Downgrades(job[x].usage)
         /\ job'[x].pc = "bundle" => DOMAIN job'[x].writes = {}
<1>1. PICK C, F : job[x] \in JobOf(C, F) BY DEF ActorType, JobRec
<1> DEFINE w == Downgrades(job[x].usage)
           j == [job[x] EXCEPT !.writes = w, !.usage = IdleJob.usage]
           k == NextWrite(j)
<1>2. JobStep(x, k) BY DEF ReadDocs
<1>3. w \in DocMap
  <2>1. job[x].usage \in [Consumer -> Nat] BY <1>1 DEF JobOf
  <2> QED BY <2>1, DowngradesIs
<1> HIDE DEF w
<1>4. j \in JobOf(C, F) /\ j.writes = w BY <1>1, <1>3, IdleIs DEF JobOf
<1> HIDE DEF j
<1>6. /\ JobRec(k) /\ k.pc \in {"bundle", "levels"} /\ k.writes = w
      /\ k.pc = "bundle" => DOMAIN k.writes = {}
  BY <1>4, NextWriteIs
<1> HIDE DEF k
<1> QED BY <1>2, <1>6, MovedTo DEF w

LEMMA ReadBundleIs ==
  ASSUME ActorType, StoreType, NEW x \in Execution, ReadBundle(x)
  PROVE  Moved(x) /\ job'[x].pc = "publish" /\ job'[x].entries = Bundle
<1>1. PICK C, F : job[x] \in JobOf(C, F) BY DEF ActorType, JobRec
<1>2. Bundle \in DocMap
  <2>1. docs \in [Consumer -> Document \cup {NoDoc}] BY DEF StoreType
  <2>2. Docs \subseteq Consumer /\ \A c \in Docs : docs[c] \in Document BY <2>1 DEF Docs
  <2>3. \A c \in Docs : Restrict(docs[c], BundleField \cap DOMAIN docs[c]) \in Document
    BY <2>2, BundledIs
  <2>4. Bundle \in [Docs -> Document] BY <2>3 DEF Bundle
  <2> QED BY <2>2, <2>4, MadeMap
<1> DEFINE k == [job[x] EXCEPT !.pc = "publish", !.entries = Bundle]
<1>3. JobStep(x, k) /\ "publish" \in JobPc BY DEF ReadBundle, JobPc
<1>4. k \in JobOf(C, F) /\ k.pc = "publish" /\ k.entries = Bundle BY <1>1, <1>2, <1>3 DEF JobOf
<1> HIDE DEF k
<1>5. JobRec(k) BY <1>4 DEF JobRec
<1> QED BY <1>3, <1>4, <1>5, MovedTo

-----------------------------------------------------------------------------
(* A step of one execution that writes no document.                        *)
LEMMA QuietStepKeeps ==
  ASSUME ConfigInv, NEW x \in Execution, Moved(x), HeldByJob(x)',
         UNCHANGED <<docs, global, intent, doubtful, clobbered, put, spend>>,
         bundle' \in DocMap, relieved' \subseteq Consumer
  PROVE  ConfigInv'
<1>1. StoreType' BY DEF ConfigInv, StoreType
<1>2. ActorType' BY DEF ConfigInv, ActorType, Moved
<1>3. (\A c \in Consumer : DocKept(c))' /\ GlobalKept'
  BY DEF ConfigInv, DocKept, GlobalKept
<1>4. ASSUME NEW y \in Execution PROVE HeldByJob(y)'
  <2>1. CASE y = x BY <2>1
  <2>2. CASE y # x
    <3>1. job'[y] = job[y] BY <2>2 DEF Moved
    <3> QED BY <3>1 DEF ConfigInv, HeldByJob
  <2> QED BY <2>1, <2>2
<1>5. ASSUME NEW r \in Request PROVE HeldByPut(r)'
  BY DEF ConfigInv, HeldByPut
<1> QED BY <1>1, <1>2, <1>3, <1>4, <1>5 DEF ConfigInv

LEMMA HoldsNothing ==
  ASSUME NEW x \in Execution, job'[x].pc \notin {"levels", "seed"}
  PROVE  HeldByJob(x)'
BY DEF HeldByJob

LEMMA JobStepsKeep ==
  ASSUME ConfigInv, NEW x \in Execution,
         \/ StartExecution(x) \/ ReadGlobal(x) \/ WriteNamed(x) \/ QueryUsage(x)
         \/ ReadDocs(x) \/ ReadBundle(x) \/ Publish(x) \/ ExecutionFails(x)
  PROVE  ConfigInv'
<1>t. ActorType /\ StoreType BY DEF ConfigInv
<1>s. bundle \in DocMap /\ relieved \subseteq Consumer BY <1>t DEF StoreType
<1>1. CASE StartExecution(x)
  <2>1. Moved(x) /\ job'[x].pc = "global" BY <1>t, <1>1, StartIs
  <2>2. /\ UNCHANGED <<docs, global, intent, doubtful, clobbered, put, spend, bundle>>
        /\ relieved' \subseteq Consumer
    BY <1>s, <1>1 DEF StartExecution, stores, edits, Relieve
  <2> QED BY <1>s, <2>1, <2>2, HoldsNothing, QuietStepKeeps
<1>2. CASE ReadGlobal(x)
  <2>1. Moved(x) /\ job'[x].pc \in {"seed", "usage", "named"} /\ (job'[x].pc = "seed" => global = NoDoc)
    BY <1>t, <1>2, ReadGlobalIs
  <2>2. UNCHANGED <<docs, global, intent, doubtful, clobbered, put, spend, bundle, relieved>>
    BY <1>2 DEF ReadGlobal, stores, edits, levels
  <2>3. HeldByJob(x)'
    <3>1. job'[x].pc = "seed" => "global" \in clobbered \/ intent["global"] = NoDoc
      BY <2>1 DEF ConfigInv, GlobalKept
    <3> QED BY <2>1, <2>2, <3>1 DEF HeldByJob
  <2> QED BY <1>s, <2>1, <2>2, <2>3, QuietStepKeeps
<1>3. CASE WriteNamed(x)
  <2>1. Moved(x) /\ job'[x].pc \in {"usage", "named"} BY <1>t, <1>3, WriteNamedIs
  <2>2. UNCHANGED <<docs, global, intent, doubtful, clobbered, put, spend, bundle, relieved>>
    BY <1>3 DEF WriteNamed, edits, levels
  <2> QED BY <1>s, <2>1, <2>2, HoldsNothing, QuietStepKeeps
<1>4. CASE QueryUsage(x)
  <2>1. Moved(x) /\ job'[x].pc \in {"docs", "bundle"} /\ relieved' \subseteq Consumer
    BY <1>t, <1>4, QueryIs
  <2>2. UNCHANGED <<docs, global, intent, doubtful, clobbered, put, spend, bundle>>
    BY <1>4 DEF QueryUsage, stores, edits
  <2> QED BY <1>s, <2>1, <2>2, HoldsNothing, QuietStepKeeps
<1>5. CASE ReadDocs(x)
  <2>1. /\ Moved(x) /\ job'[x].pc \in {"bundle", "levels"}
        /\ job'[x].writes = Downgrades(job[x].usage)
    BY <1>t, <1>5, ReadDocsIs
  <2>2. UNCHANGED <<docs, global, intent, doubtful, clobbered, put, spend, bundle, relieved>>
    BY <1>5 DEF ReadDocs, stores, edits, levels
  <2>3. job[x].usage \in [Consumer -> Nat] BY <1>t, RecIs DEF ActorType
  <2>4. ASSUME NEW c \in Consumer, c \in DOMAIN job'[x].writes
        PROVE  docs[c] # NoDoc /\ Operators(job'[x].writes[c]) = Operators(docs[c])
    <3>1. c \in DOMAIN Downgrades(job[x].usage) BY <2>1, <2>4
    <3>2. PICK n \in Nat : /\ docs[c] # NoDoc /\ docs[c] \in Document
                           /\ Downgrades(job[x].usage)[c] = WithLevel(docs[c], n)
      BY <1>t, <2>3, <3>1, DowngradesIs
    <3> QED BY <2>1, <3>2, WithLevelIs
  <2>5. HeldByJob(x)' BY <2>1, <2>2, <2>4 DEF HeldByJob
  <2> QED BY <1>s, <2>1, <2>2, <2>5, QuietStepKeeps
<1>6. CASE ReadBundle(x)
  <2>1. Moved(x) /\ job'[x].pc = "publish" BY <1>t, <1>6, ReadBundleIs
  <2>2. UNCHANGED <<docs, global, intent, doubtful, clobbered, put, spend, bundle, relieved>>
    BY <1>6 DEF ReadBundle, stores, edits, levels
  <2> QED BY <1>s, <2>1, <2>2, HoldsNothing, QuietStepKeeps
<1>7. CASE Publish(x)
  <2>1. Moved(x) /\ job'[x].pc = "idle" BY <1>t, <1>7, EndIs
  <2>2. UNCHANGED <<docs, global, intent, doubtful, clobbered, put, spend>>
        /\ bundle' = job[x].entries /\ relieved' \subseteq relieved
    BY <1>7 DEF Publish, edits
  <2>3. job[x].entries \in DocMap BY <1>t, RecIs DEF ActorType
  <2> QED BY <1>s, <2>1, <2>2, <2>3, HoldsNothing, QuietStepKeeps
<1>8. CASE ExecutionFails(x)
  <2>1. Moved(x) /\ job'[x].pc = "idle" BY <1>t, <1>8, EndIs
  <2>2. UNCHANGED <<docs, global, intent, doubtful, clobbered, put, spend, bundle, relieved>>
    BY <1>8 DEF ExecutionFails, stores, edits
  <2> QED BY <1>s, <2>1, <2>2, HoldsNothing, QuietStepKeeps
<1> QED BY <1>1, <1>2, <1>3, <1>4, <1>5, <1>6, <1>7, <1>8

-----------------------------------------------------------------------------
(* The steps that write a document.                                        *)
LEMMA WriteLevelIs ==
  ASSUME ActorType, NEW x \in Execution, WriteLevel(x)
  PROVE  \E c \in Consumer :
           /\ job[x].pc = "levels" /\ c \in DOMAIN job[x].writes
           /\ job[x].writes[c] \in Document
           /\ docs' = [docs EXCEPT ![c] = job[x].writes[c]]
           /\ clobbered' = clobbered \cup (job[x].stale \cap {c})
           /\ put' = PutsAfterWrite(c)
           /\ job' = [y \in Execution |-> job'[y]]
           /\ \A y \in Execution : y # x => SameJob(y, c)
           /\ JobRec(job'[x]) /\ job'[x].pc \in {"bundle", "levels"}
           /\ \A e \in DOMAIN job'[x].writes :
                e # c /\ e \in DOMAIN job[x].writes /\ job'[x].writes[e] = job[x].writes[e]
           /\ DOMAIN job'[x].writes = DOMAIN job[x].writes \ {c}
           /\ job'[x].pc = "bundle" => DOMAIN job'[x].writes = {}
           /\ job'[x].stale = job[x].stale \ {c}
<1>1. PICK c \in DOMAIN job[x].writes :
        /\ docs' = [docs EXCEPT ![c] = job[x].writes[c]]
        /\ clobbered' = clobbered \cup (job[x].stale \cap {c})
        /\ job' = [JobsAfterWrite(c) EXCEPT ![x] =
                     NextWrite([job[x] EXCEPT !.writes = Without(@, {c}), !.stale = @ \ {c}])]
        /\ put' = PutsAfterWrite(c)
  BY DEF WriteLevel
<1>2. job[x].pc = "levels" BY DEF WriteLevel, Running
<1>3. PICK C, F : job[x] \in JobOf(C, F) BY DEF ActorType, JobRec
<1>4. job[x].writes \in DocMap /\ job[x].stale \subseteq Consumer \cup {"global"}
  BY <1>3 DEF JobOf
<1>5. c \in Consumer /\ job[x].writes[c] \in Document BY <1>4, MapIs
<1>6. PICK w : w = Without(job[x].writes, {c}) OBVIOUS
<1>7. w = [e \in DOMAIN job[x].writes \ {c} |-> job[x].writes[e]]
  BY <1>6 DEF Without, Restrict
<1>8. w \in DocMap
  <2>1. DOMAIN job[x].writes \ {c} \in SUBSET Consumer BY <1>4, MapIs
  <2>2. w \in [DOMAIN job[x].writes \ {c} -> Document] BY <1>4, <1>7, MapIs
  <2> QED BY <2>1, <2>2, MadeMap
<1> DEFINE j == [job[x] EXCEPT !.writes = w, !.stale = @ \ {c}]
           k == NextWrite(j)
<1>9. j \in JobOf(C, F) /\ j.writes = w /\ j.stale = job[x].stale \ {c}
  BY <1>3, <1>4, <1>8 DEF JobOf
<1>10. job' = [JobsAfterWrite(c) EXCEPT ![x] = k] BY <1>1, <1>6
<1> HIDE DEF j
<1>11. /\ JobRec(k) /\ k.pc \in {"bundle", "levels"}
       /\ k.writes = w /\ k.stale = job[x].stale \ {c}
       /\ k.pc = "bundle" => DOMAIN k.writes = {}
  BY <1>9, NextWriteIs
<1> HIDE DEF k
<1>12. /\ job' = [y \in Execution |-> job'[y]] /\ job'[x] = k
       /\ \A y \in Execution : y # x => job'[y] = JobsAfterWrite(c)[y]
  BY <1>10 DEF JobsAfterWrite
<1>13. \A y \in Execution : y # x => SameJob(y, c) BY <1>5, <1>12, JobAfterWrite
<1>14. /\ \A e \in DOMAIN w : e # c /\ e \in DOMAIN job[x].writes /\ w[e] = job[x].writes[e]
       /\ DOMAIN w = DOMAIN job[x].writes \ {c}
  BY <1>7
<1> QED BY <1>1, <1>2, <1>5, <1>11, <1>12, <1>13, <1>14


(* What others hold of the documents when one of them, c, is written.      *)
LEMMA JobKept ==
  ASSUME NEW y \in Execution, HeldByJob(y), NEW c \in Consumer, SameJob(y, c),
         \A e \in Consumer : e # c => docs'[e] = docs[e],
         clobbered \subseteq clobbered', intent'["global"] = intent["global"]
  PROVE  HeldByJob(y)'
<1>1. c # "global" OBVIOUS
<1>2. ASSUME NEW e \in Consumer, job'[y].pc = "levels", e \in DOMAIN job'[y].writes,
             e \notin job'[y].stale
      PROVE  docs'[e] # NoDoc /\ Operators(job'[y].writes[e]) = Operators(docs'[e])
  <2>1. /\ job[y].pc = "levels" /\ e \in DOMAIN job[y].writes /\ e \notin job[y].stale
        /\ job'[y].writes = job[y].writes
    BY <1>2 DEF SameJob
  <2>2. e # c BY <1>1, <1>2, <2>1 DEF SameJob, Holds
  <2>3. docs[e] # NoDoc /\ Operators(job[y].writes[e]) = Operators(docs[e])
    BY <2>1 DEF HeldByJob
  <2> QED BY <2>1, <2>2, <2>3
<1>3. ASSUME job'[y].pc = "seed", "global" \notin job'[y].stale
      PROVE  "global" \in clobbered' \/ intent'["global"] = NoDoc
  BY <1>3 DEF SameJob, HeldByJob
<1> QED BY <1>2, <1>3 DEF HeldByJob

LEMMA PutKept ==
  ASSUME ActorType, NEW r \in Request, HeldByPut(r), NEW c \in Consumer, SamePut(r, c),
         \A e \in Consumer : e # c => docs'[e] = docs[e]
  PROVE  HeldByPut(r)'
<1> SUFFICES ASSUME put'[r].pc = "write", ~put'[r].stale
             PROVE  put'[r].merged = Merged(docs'[put'[r].consumer], put'[r].body)
  BY DEF HeldByPut
<1>1. /\ put[r].pc = "write" /\ ~put[r].stale /\ put[r].consumer # c
      /\ put'[r].consumer = put[r].consumer /\ put'[r].body = put[r].body
      /\ put'[r].merged = put[r].merged
  BY DEF SamePut
<1>2. put[r].consumer \in Consumer BY <1>1 DEF ActorType
<1>3. docs'[put[r].consumer] = docs[put[r].consumer] BY <1>1, <1>2
<1>4. put[r].merged = Merged(docs[put[r].consumer], put[r].body) BY <1>1 DEF HeldByPut
<1> QED BY <1>1, <1>3, <1>4

LEMMA PutTyped ==
  ASSUME ActorType, NEW r \in Request, NEW c, SamePut(r, c)
  PROVE  /\ put'[r] \in PutRec
         /\ put'[r].pc = "write" =>
              put'[r].consumer \in Consumer /\ put'[r].body \in Edit /\ put'[r].merged \in Document
<1>1. put'[r] \in PutRec /\ put'[r].pc = put[r].pc /\ put'[r].consumer = put[r].consumer
      /\ put'[r].body = put[r].body /\ put'[r].merged = put[r].merged
  BY DEF SamePut
<1> QED BY <1>1 DEF ActorType

(* All the document writers leave of the invariant, once the actors' own   *)
(* records are known.                                                      *)
LEMMA RewriteKeeps ==
  ASSUME ConfigInv, NEW c \in Consumer, NEW d \in Document \cup {NoDoc},
         docs' = [docs EXCEPT ![c] = d], DocKept(c)', ActorType',
         \A y \in Execution : SameJob(y, c) \/ HeldByJob(y)',
         \A r \in Request : SamePut(r, c) \/ HeldByPut(r)',
         clobbered \subseteq clobbered', clobbered' \subseteq clobbered \cup {c},
         intent' = [intent EXCEPT ![c] = intent'[c]], intent'[c] \in Document \cup {NoDoc},
         doubtful' = [doubtful EXCEPT ![c] = doubtful'[c]], doubtful'[c] \subseteq OperatorField,
         relieved' \subseteq Consumer, UNCHANGED <<global, bundle, spend>>
  PROVE  ConfigInv'
<1>1. docs \in [Consumer -> Document \cup {NoDoc}]
      /\ intent = [e \in Consumer \cup {"global"} |-> intent[e]]
      /\ \A e \in Consumer : intent[e] \in Document \cup {NoDoc}
      /\ doubtful \in [Consumer -> SUBSET OperatorField]
  BY DEF ConfigInv, StoreType
<1>2. /\ docs' \in [Consumer -> Document \cup {NoDoc}]
      /\ \A e \in Consumer : e # c => docs'[e] = docs[e]
  BY <1>1
<1>3. /\ intent' = [e \in Consumer \cup {"global"} |-> intent'[e]]
      /\ \A e \in Consumer \cup {"global"} : e # c => intent'[e] = intent[e]
  BY <1>1
<1>4. intent'["global"] = intent["global"] BY <1>3
<1>5. /\ doubtful' \in [Consumer -> SUBSET OperatorField]
       /\ \A e \in Consumer : e # c => doubtful'[e] = doubtful[e]
  BY <1>1
<1>6. \A e \in Consumer : intent'[e] \in Document \cup {NoDoc} BY <1>1, <1>3
<1>7. StoreType' BY <1>2, <1>3, <1>5, <1>6 DEF ConfigInv, StoreType
<1>8. ASSUME NEW e \in Consumer PROVE DocKept(e)'
  <2>1. CASE e = c BY <2>1
  <2>2. CASE e # c
    <3>1. docs'[e] = docs[e] /\ intent'[e] = intent[e] /\ doubtful'[e] = doubtful[e]
      BY <1>2, <1>3, <1>5, <2>2
    <3>2. DocKept(e) BY DEF ConfigInv
    <3> QED BY <3>1, <3>2 DEF DocKept
  <2> QED BY <2>1, <2>2
<1>9. GlobalKept'
  <2>1. "global" \notin clobbered' => "global" \notin clobbered OBVIOUS
  <2> QED BY <1>4, <2>1 DEF ConfigInv, GlobalKept
<1>10. ASSUME NEW y \in Execution PROVE HeldByJob(y)'
  BY <1>2, <1>4, JobKept DEF ConfigInv
<1>11. ASSUME NEW r \in Request PROVE HeldByPut(r)'
  BY <1>2, PutKept DEF ConfigInv
<1> QED BY <1>7, <1>8, <1>9, <1>10, <1>11 DEF ConfigInv

LEMMA WriteLevelKeeps ==
  ASSUME ConfigInv, NEW x \in Execution, WriteLevel(x)
  PROVE  ConfigInv'
<1>t. ActorType /\ StoreType BY DEF ConfigInv
<1>1. PICK c \in Consumer :
           /\ job[x].pc = "levels" /\ c \in DOMAIN job[x].writes
           /\ job[x].writes[c] \in Document
           /\ docs' = [docs EXCEPT ![c] = job[x].writes[c]]
           /\ clobbered' = clobbered \cup (job[x].stale \cap {c})
           /\ put' = PutsAfterWrite(c)
           /\ job' = [y \in Execution |-> job'[y]]
           /\ \A y \in Execution : y # x => SameJob(y, c)
           /\ JobRec(job'[x]) /\ job'[x].pc \in {"bundle", "levels"}
           /\ \A e \in DOMAIN job'[x].writes :
                e # c /\ e \in DOMAIN job[x].writes /\ job'[x].writes[e] = job[x].writes[e]
           /\ job'[x].stale = job[x].stale \ {c}
  BY <1>t, WriteLevelIs
<1>2. /\ UNCHANGED <<global, bundle, spend, intent, doubtful, relieved>>
      /\ relieved \subseteq Consumer
      /\ intent = [e \in Consumer \cup {"global"} |-> intent[e]]
      /\ intent[c] \in Document \cup {NoDoc}
      /\ doubtful \in [Consumer -> SUBSET OperatorField]
      /\ docs \in [Consumer -> Document \cup {NoDoc}]
  BY <1>t DEF WriteLevel, StoreType, levels
<1>3. HeldByJob(x) /\ DocKept(c) BY DEF ConfigInv
<1>4. \A e \in Consumer : e # c => docs'[e] = docs[e] BY <1>1, <1>2
<1>5. docs'[c] = job[x].writes[c] BY <1>1, <1>2
<1>6. DocKept(c)'
  <2> SUFFICES ASSUME c \notin clobbered', NEW f \in OperatorField \ doubtful[c]
               PROVE  Said(docs'[c], f) = Said(intent[c], f)
    BY <1>2 DEF DocKept
  <2>1. c \notin clobbered /\ c \notin job[x].stale BY <1>1
  <2>2. docs[c] # NoDoc /\ Operators(job[x].writes[c]) = Operators(docs[c])
    BY <1>1, <1>3, <2>1 DEF HeldByJob
  <2>3. docs[c] \in Document BY <1>2, <2>2
  <2>4. Said(docs'[c], f) = Said(docs[c], f) BY <1>1, <1>5, <2>2, <2>3, SameSaid
  <2>5. Said(docs[c], f) = Said(intent[c], f) BY <1>3, <2>1 DEF DocKept
  <2> QED BY <2>4, <2>5
<1>7. HeldByJob(x)'
  <2>1. ASSUME NEW e \in Consumer, e \in DOMAIN job'[x].writes, e \notin job'[x].stale
        PROVE  docs'[e] # NoDoc /\ Operators(job'[x].writes[e]) = Operators(docs'[e])
    <3>1. e # c /\ e \in DOMAIN job[x].writes /\ job'[x].writes[e] = job[x].writes[e]
          /\ e \notin job[x].stale
      BY <1>1, <2>1
    <3>2. docs[e] # NoDoc /\ Operators(job[x].writes[e]) = Operators(docs[e])
      BY <1>1, <1>3, <3>1 DEF HeldByJob
    <3> QED BY <1>4, <3>1, <3>2
  <2> QED BY <1>1, <2>1 DEF HeldByJob
<1>8. \A r \in Request : SamePut(r, c) BY <1>t, <1>1, PutAfterWrite
<1>9. ActorType'
  <2>1. put' \in [Request -> PutRec]
    <3>1. put' = [r \in Request |-> put'[r]] BY <1>1 DEF PutsAfterWrite
    <3>2. \A r \in Request : put'[r] \in PutRec BY <1>8 DEF SamePut
    <3> QED BY <3>1, <3>2
  <2>2. \A y \in Execution : JobRec(job'[y]) BY <1>1 DEF SameJob
  <2>3. \A r \in Request : put'[r].pc = "write" =>
          put'[r].consumer \in Consumer /\ put'[r].body \in Edit /\ put'[r].merged \in Document
    BY <1>t, <1>8, PutTyped
  <2> QED BY <1>1, <2>1, <2>2, <2>3 DEF ActorType
<1>10. \A y \in Execution : SameJob(y, c) \/ HeldByJob(y)' BY <1>1, <1>7
<1>11. /\ intent' = [intent EXCEPT ![c] = intent'[c]] /\ intent'[c] \in Document \cup {NoDoc}
       /\ doubtful' = [doubtful EXCEPT ![c] = doubtful'[c]] /\ doubtful'[c] \subseteq OperatorField
  BY <1>2
<1>12. clobbered \subseteq clobbered' /\ clobbered' \subseteq clobbered \cup {c} BY <1>1
<1> QED BY <1>1, <1>2, <1>6, <1>8, <1>9, <1>10, <1>11, <1>12, RewriteKeeps

(* Everybody's records after a write of document d.                        *)
LEMMA AllAfterWrite ==
  ASSUME ActorType, NEW d \in Consumer \cup {"global"}, job' = JobsAfterWrite(d)
  PROVE  /\ \A y \in Execution : SameJob(y, d)
         /\ job' = [y \in Execution |-> job'[y]] /\ \A y \in Execution : JobRec(job'[y])
<1>1. job' = [y \in Execution |-> job'[y]] BY DEF JobsAfterWrite
<1>2. \A y \in Execution : SameJob(y, d) BY JobAfterWrite
<1> QED BY <1>1, <1>2 DEF SameJob

LEMMA PutRecIdle ==
  IdlePut \in PutRec /\ IdlePut.pc = "idle"
BY DEF IdlePut, PutRec

\* Some request says so: the edit is acknowledged, or doubtful from now on.
Acknowledges(c, e) ==
  /\ intent' = [intent EXCEPT ![c] = IF @ = NoDoc THEN e ELSE Updated(@, e)]
  /\ doubtful' = [doubtful EXCEPT ![c] = @ \ DOMAIN e]

Doubts(c, e) ==
  intent' = intent /\ doubtful' = [doubtful EXCEPT ![c] = @ \cup DOMAIN e]

\* An upsert that took effect, acknowledged or not.
Writes(r) ==
  /\ put[r].pc = "write" /\ Overwrite(r)
  /\ Acknowledges(put[r].consumer, put[r].body) \/ Doubts(put[r].consumer, put[r].body)
  /\ UNCHANGED <<global, bundle, spend>>

\* The request that failed without effect.
PutLost(r) ==
  /\ put' = [put EXCEPT ![r] = IdlePut]
  /\ UNCHANGED <<docs, global, bundle, spend, job, intent, doubtful, clobbered, levels>>

LEMMA PutFailsIs ==
  ASSUME NEW r \in Request
  PROVE  /\ PutWrites(r) => Writes(r)
         /\ PutFails(r) => Writes(r) \/ PutLost(r)
<1>1. PutWrites(r) => Writes(r)
  BY DEF PutWrites, Writes, Acknowledges
<1>2. PutFails(r) => Writes(r) \/ PutLost(r)
  BY DEF PutFails, Writes, PutLost, Doubts
<1> QED BY <1>1, <1>2

LEMMA OverwriteIs ==
  ASSUME ActorType, StoreType, NEW r \in Request, Writes(r)
  PROVE  \E c \in Consumer, e \in Edit, d \in Document :
           /\ put[r].pc = "write" /\ c = put[r].consumer /\ e = put[r].body /\ d = put[r].merged
           /\ docs' = [docs EXCEPT ![c] = d]
           /\ \A y \in Execution : SameJob(y, c)
           /\ \A s \in Request : s # r => SamePut(s, c)
           /\ put'[r].pc = "idle"
           /\ ActorType'
           /\ Acknowledges(c, e) \/ Doubts(c, e)
           /\ clobbered' = clobbered \cup IF put[r].stale THEN {c} ELSE {}
           /\ Relieve(IF put[r].stale \/ {"budget", "ladder"} \cap DOMAIN e # {} THEN {c} ELSE {})
<1>1. PICK c, e, d : c = put[r].consumer /\ e = put[r].body /\ d = put[r].merged OBVIOUS
<1>2. put[r].pc = "write" BY DEF Writes
<1>3. c \in Consumer /\ e \in Edit /\ d \in Document BY <1>1, <1>2 DEF ActorType
<1>4. /\ docs' = [docs EXCEPT ![c] = d]
      /\ job' = JobsAfterWrite(c)
      /\ put' = [PutsAfterWrite(c) EXCEPT ![r] = IdlePut]
      /\ clobbered' = clobbered \cup IF put[r].stale THEN {c} ELSE {}
      /\ Relieve(IF put[r].stale \/ {"budget", "ladder"} \cap DOMAIN e # {} THEN {c} ELSE {})
      /\ Acknowledges(c, e) \/ Doubts(c, e)
  BY <1>1 DEF Writes, Overwrite
<1>5. /\ \A y \in Execution : SameJob(y, c)
      /\ job' = [y \in Execution |-> job'[y]] /\ \A y \in Execution : JobRec(job'[y])
  BY <1>3, <1>4, AllAfterWrite
<1>6. \A s \in Request : s # r => SamePut(s, c)
  <2> SUFFICES ASSUME NEW s \in Request, s # r PROVE SamePut(s, c) OBVIOUS
  <2>1. put'[s] = PutsAfterWrite(c)[s] BY <1>4 DEF PutsAfterWrite
  <2> QED BY <2>1, PutAfterWrite
<1>7. put'[r] = IdlePut BY <1>4 DEF PutsAfterWrite
<1>8. ActorType'
  <2>1. put' = [s \in Request |-> put'[s]] BY <1>4 DEF PutsAfterWrite
  <2>2. \A s \in Request : put'[s] \in PutRec BY <1>6, <1>7, PutRecIdle DEF SamePut
  <2>3. put' \in [Request -> PutRec] BY <2>1, <2>2
  <2>4. \A s \in Request : put'[s].pc = "write" =>
          put'[s].consumer \in Consumer /\ put'[s].body \in Edit /\ put'[s].merged \in Document
    BY <1>6, <1>7, PutRecIdle, PutTyped
  <2> QED BY <1>5, <2>3, <2>4 DEF ActorType
<1>11. put'[r].pc = "idle" BY <1>7, PutRecIdle
<1> c \in Consumer /\ e \in Edit /\ d \in Document BY <1>3
<1>12. WITNESS c \in Consumer, e \in Edit, d \in Document
<1> QED BY ONLY <1>1, <1>2, <1>4, <1>5, <1>6, <1>8, <1>11

(* An acknowledged edit is in the document and in the intent, one that is  *)
(* not leaves only its own fields in doubt.                                *)
LEMMA OverwriteKeeps ==
  ASSUME ConfigInv, NEW r \in Request, Writes(r)
  PROVE  ConfigInv'
<1>t. ActorType /\ StoreType BY DEF ConfigInv
<1>1. PICK c \in Consumer, e \in Edit, d \in Document :
           /\ put[r].pc = "write" /\ c = put[r].consumer /\ e = put[r].body /\ d = put[r].merged
           /\ docs' = [docs EXCEPT ![c] = d]
           /\ \A y \in Execution : SameJob(y, c)
           /\ \A s \in Request : s # r => SamePut(s, c)
           /\ put'[r].pc = "idle"
           /\ ActorType'
           /\ Acknowledges(c, e) \/ Doubts(c, e)
           /\ clobbered' = clobbered \cup IF put[r].stale THEN {c} ELSE {}
           /\ Relieve(IF put[r].stale \/ {"budget", "ladder"} \cap DOMAIN e # {} THEN {c} ELSE {})
  BY <1>t, OverwriteIs
<1>2. /\ UNCHANGED <<global, bundle, spend>> /\ relieved \subseteq Consumer
      /\ docs \in [Consumer -> Document \cup {NoDoc}]
      /\ intent = [z \in Consumer \cup {"global"} |-> intent[z]]
      /\ intent[c] \in Document \cup {NoDoc}
      /\ doubtful \in [Consumer -> SUBSET OperatorField]
      /\ DOMAIN e \subseteq OperatorField
  BY <1>t, EditIs DEF Writes, StoreType
<1>3. PICK n : n = IF intent[c] = NoDoc THEN e ELSE Updated(intent[c], e) OBVIOUS
<1>4. /\ n \in Document
      /\ \A f : Said(n, f) = IF f \in DOMAIN e THEN {e[f]} ELSE Said(intent[c], f)
  <2>1. n = Merged(intent[c], e) BY <1>3 DEF Merged
  <2> QED BY <1>2, <2>1, MergedIs
<1>5. /\ intent' = [intent EXCEPT ![c] = intent'[c]] /\ intent'[c] \in Document \cup {NoDoc}
      /\ doubtful' = [doubtful EXCEPT ![c] = doubtful'[c]] /\ doubtful'[c] \subseteq OperatorField
      /\ \/ intent'[c] = n /\ doubtful'[c] = doubtful[c] \ DOMAIN e
         \/ intent'[c] = intent[c] /\ doubtful'[c] = doubtful[c] \cup DOMAIN e
  <2>1. CASE Acknowledges(c, e)
    <3>1. intent' = [intent EXCEPT ![c] = n] BY <1>3, <2>1 DEF Acknowledges
    <3>2. intent'[c] = n BY <1>2, <3>1
    <3>3. intent' = [intent EXCEPT ![c] = intent'[c]] BY <3>1, <3>2
    <3>4. doubtful' = [doubtful EXCEPT ![c] = doubtful[c] \ DOMAIN e]
      BY <2>1 DEF Acknowledges
    <3>5. doubtful'[c] = doubtful[c] \ DOMAIN e BY <1>2, <3>4
    <3> QED BY <1>2, <1>4, <3>2, <3>3, <3>4, <3>5
  <2>2. CASE Doubts(c, e)
    <3>1. doubtful' = [doubtful EXCEPT ![c] = doubtful[c] \cup DOMAIN e] /\ intent' = intent
      BY <2>2 DEF Doubts
    <3>2. doubtful'[c] = doubtful[c] \cup DOMAIN e BY <1>2, <3>1
    <3>3. intent' = [intent EXCEPT ![c] = intent'[c]] BY <1>2, <3>1
    <3> QED BY <1>2, <3>1, <3>2, <3>3
  <2> QED BY <1>1, <2>1, <2>2
<1>6. DocKept(c)'
  <2> SUFFICES ASSUME c \notin clobbered', NEW f \in OperatorField \ doubtful'[c]
               PROVE  Said(docs'[c], f) = Said(intent'[c], f)
    BY DEF DocKept
  <2>1. ~put[r].stale /\ c \notin clobbered BY <1>1
  <2>2. d = Merged(docs[c], e) BY <1>1, <2>1 DEF ConfigInv, HeldByPut
  <2>3. docs'[c] = d BY <1>1, <1>2
  <2>4. Said(docs'[c], f) = IF f \in DOMAIN e THEN {e[f]} ELSE Said(docs[c], f)
    BY <1>2, <2>2, <2>3, MergedIs
  <2>5. f \notin DOMAIN e => Said(docs[c], f) = Said(intent[c], f)
    BY <1>5, <2>1 DEF ConfigInv, DocKept
  <2>6. f \notin DOMAIN e => Said(docs'[c], f) = Said(intent[c], f) BY <2>4, <2>5
  <2>7. CASE intent'[c] = n
    <3>1. Said(n, f) = IF f \in DOMAIN e THEN {e[f]} ELSE Said(intent[c], f) BY <1>4
    <3>2. CASE f \in DOMAIN e BY ONLY <2>4, <2>7, <3>1, <3>2
    <3>3. CASE f \notin DOMAIN e BY ONLY <2>6, <2>7, <3>1, <3>3
    <3> QED BY <3>2, <3>3
  <2>8. CASE intent'[c] = intent[c] /\ doubtful'[c] = doubtful[c] \cup DOMAIN e
    <3>1. f \notin DOMAIN e BY <2>8
    <3> QED BY ONLY <2>6, <2>8, <3>1
  <2> QED BY <1>5, <2>7, <2>8
<1>7. \A s \in Request : SamePut(s, c) \/ HeldByPut(s)' BY <1>1 DEF HeldByPut
<1>8. /\ clobbered \subseteq clobbered' /\ clobbered' \subseteq clobbered \cup {c}
      /\ relieved' \subseteq Consumer
  BY <1>1, <1>2 DEF Relieve
<1> QED BY <1>1, <1>2, <1>5, <1>6, <1>7, <1>8, RewriteKeeps

LEMMA DeleteKeeps ==
  ASSUME ConfigInv, NEW c \in Consumer, DeleteConfig(c)
  PROVE  ConfigInv'
<1>t. ActorType /\ StoreType BY DEF ConfigInv
<1>1. /\ docs' = [docs EXCEPT ![c] = NoDoc]
      /\ job' = JobsAfterWrite(c) /\ put' = PutsAfterWrite(c)
      /\ relieved' = relieved \cup {c} /\ UNCHANGED <<global, bundle, spend, clobbered>>
      /\ \/ /\ intent' = [intent EXCEPT ![c] = NoDoc]
            /\ doubtful' = [doubtful EXCEPT ![c] = {}]
         \/ intent' = intent /\ doubtful' = [doubtful EXCEPT ![c] = OperatorField]
  BY DEF DeleteConfig, Relieve
<1>2. /\ \A y \in Execution : SameJob(y, c)
      /\ job' = [y \in Execution |-> job'[y]] /\ \A y \in Execution : JobRec(job'[y])
  BY <1>t, <1>1, AllAfterWrite
<1>3. \A r \in Request : SamePut(r, c) BY <1>t, <1>1, PutAfterWrite
<1>4. ActorType'
  <2>1. put' = [r \in Request |-> put'[r]] BY <1>1 DEF PutsAfterWrite
  <2>2. \A r \in Request : put'[r] \in PutRec BY <1>3 DEF SamePut
  <2>3. put' \in [Request -> PutRec] BY <2>1, <2>2
  <2>4. \A r \in Request : put'[r].pc = "write" =>
          put'[r].consumer \in Consumer /\ put'[r].body \in Edit /\ put'[r].merged \in Document
    BY <1>t, <1>3, PutTyped
  <2> QED BY <1>2, <2>3, <2>4 DEF ActorType
<1>5. /\ docs'[c] = NoDoc /\ relieved' \subseteq Consumer
      /\ intent' = [intent EXCEPT ![c] = intent'[c]] /\ intent'[c] \in Document \cup {NoDoc}
      /\ doubtful' = [doubtful EXCEPT ![c] = doubtful'[c]]
      /\ doubtful'[c] \subseteq OperatorField
      /\ (intent'[c] = NoDoc /\ doubtful'[c] = {}) \/ doubtful'[c] = OperatorField
  BY <1>t, <1>1 DEF StoreType
<1>6. DocKept(c)' BY <1>5 DEF DocKept, Said
<1> QED BY <1>1, <1>2, <1>3, <1>4, <1>5, <1>6, RewriteKeeps

-----------------------------------------------------------------------------
(* The steps that write the global document, and the rest.                 *)
LEMMA GlobalJobKept ==
  ASSUME NEW y \in Execution, HeldByJob(y), SameJob(y, "global"), UNCHANGED docs
  PROVE  HeldByJob(y)'
<1>1. ASSUME NEW e \in Consumer, job'[y].pc = "levels", e \in DOMAIN job'[y].writes,
             e \notin job'[y].stale
      PROVE  docs'[e] # NoDoc /\ Operators(job'[y].writes[e]) = Operators(docs'[e])
  BY <1>1 DEF SameJob, HeldByJob
<1>2. job'[y].pc = "seed" => "global" \in job'[y].stale BY DEF SameJob, Holds
<1> QED BY <1>1, <1>2 DEF HeldByJob

LEMMA SeedGlobalIs ==
  ASSUME ActorType, NEW x \in Execution, SeedGlobal(x)
  PROVE  /\ job[x].pc = "seed" /\ clobbered' = clobbered \cup job[x].stale
         /\ job[x].stale \subseteq Consumer \cup {"global"}
         /\ \A y \in Execution : y # x => SameJob(y, "global")
         /\ job'[x].pc \in {"usage", "named"}
         /\ job' = [y \in Execution |-> job'[y]] /\ \A y \in Execution : JobRec(job'[y])
<1>1. PICK C, F : job[x] \in JobOf(C, F) BY DEF ActorType, JobRec
<1> DEFINE j == [job[x] EXCEPT !.config = DefaultGlobal, !.stale = {},
                               !.fields = FieldsOf(DefaultGlobal)]
           k == AfterNamed(j)
<1>2. /\ job' = [JobsAfterWrite("global") EXCEPT ![x] = k]
      /\ job[x].pc = "seed" /\ clobbered' = clobbered \cup job[x].stale
  BY DEF SeedGlobal, Running
<1>3. /\ j \in JobOf({DefaultGlobal}, {FieldsOf(DefaultGlobal)})
      /\ job[x].stale \subseteq Consumer \cup {"global"}
  BY <1>1 DEF JobOf
<1> HIDE DEF j
<1>4. JobRec(k) /\ k.pc \in {"usage", "named"} BY <1>3, AfterNamedIs
<1> HIDE DEF k
<1>5. /\ job' = [y \in Execution |-> job'[y]] /\ job'[x] = k
      /\ \A y \in Execution : y # x => job'[y] = JobsAfterWrite("global")[y]
  BY <1>2 DEF JobsAfterWrite
<1>6. \A y \in Execution : y # x => SameJob(y, "global") BY <1>5, JobAfterWrite
<1> QED BY <1>2, <1>3, <1>4, <1>5, <1>6 DEF SameJob

LEMMA SeedGlobalKeeps ==
  ASSUME ConfigInv, NEW x \in Execution, SeedGlobal(x)
  PROVE  ConfigInv'
<1>t. ActorType BY DEF ConfigInv
<1>1. /\ job[x].pc = "seed" /\ clobbered' = clobbered \cup job[x].stale
      /\ \A y \in Execution : y # x => SameJob(y, "global")
      /\ job'[x].pc \in {"usage", "named"}
      /\ job' = [y \in Execution |-> job'[y]] /\ \A y \in Execution : JobRec(job'[y])
  BY <1>t, SeedGlobalIs
<1>2. UNCHANGED <<docs, bundle, spend, put, intent, doubtful, relieved>>
  BY DEF SeedGlobal, levels
<1>3. StoreType' BY <1>2 DEF ConfigInv, StoreType
<1>4. ActorType' BY <1>1, <1>2 DEF ConfigInv, ActorType
<1>5. \A c \in Consumer : DocKept(c)' BY <1>1, <1>2 DEF ConfigInv, DocKept
<1>6. GlobalKept'
  <2>1. "global" \notin job[x].stale => "global" \in clobbered \/ intent["global"] = NoDoc
    BY <1>1 DEF ConfigInv, HeldByJob
  <2> QED BY <1>1, <1>2, <2>1 DEF GlobalKept
<1>7. HeldByJob(x)' BY <1>1 DEF HeldByJob
<1>8. \A y \in Execution : HeldByJob(y)' BY <1>1, <1>2, <1>7, GlobalJobKept DEF ConfigInv
<1>9. \A r \in Request : HeldByPut(r)' BY <1>2 DEF ConfigInv, HeldByPut
<1> QED BY <1>3, <1>4, <1>5, <1>6, <1>8, <1>9 DEF ConfigInv

LEMMA EditGlobalKeeps ==
  ASSUME ConfigInv, EditGlobal
  PROVE  ConfigInv'
<1>t. ActorType BY DEF ConfigInv
<1>1. /\ \A y \in Execution : SameJob(y, "global")
      /\ job' = [y \in Execution |-> job'[y]] /\ \A y \in Execution : JobRec(job'[y])
  BY <1>t, AllAfterWrite DEF EditGlobal
<1>2. PICK g \in GlobalEdit : global' = g /\ intent' = [intent EXCEPT !["global"] = g]
  BY DEF EditGlobal
<1>3. UNCHANGED <<docs, bundle, spend, put, doubtful, clobbered, relieved>>
  BY DEF EditGlobal, levels
<1>4. /\ intent' = [d \in Consumer \cup {"global"} |-> intent'[d]] /\ intent'["global"] = g
      /\ \A c \in Consumer : intent'[c] = intent[c]
  BY <1>2 DEF ConfigInv, StoreType
<1>5. StoreType' BY <1>3, <1>4 DEF ConfigInv, StoreType
<1>6. ActorType' BY <1>1, <1>3 DEF ConfigInv, ActorType
<1>7. \A c \in Consumer : DocKept(c)' BY <1>3, <1>4 DEF ConfigInv, DocKept
<1>8. GlobalKept' BY <1>2, <1>4 DEF GlobalKept
<1>9. \A y \in Execution : HeldByJob(y)' BY <1>1, <1>3, GlobalJobKept DEF ConfigInv
<1>10. \A r \in Request : HeldByPut(r)' BY <1>3 DEF ConfigInv, HeldByPut
<1> QED BY <1>5, <1>6, <1>7, <1>8, <1>9, <1>10 DEF ConfigInv

LEMMA SameDocsKeep ==
  ASSUME ConfigInv, UNCHANGED <<docs, global, bundle, job, intent, doubtful, clobbered>>,
         spend' \in [Consumer -> Nat], relieved' \subseteq Consumer, ActorType',
         \A r \in Request : HeldByPut(r)'
  PROVE  ConfigInv'
<1>1. StoreType' BY DEF ConfigInv, StoreType
<1>2. (\A c \in Consumer : DocKept(c))' /\ GlobalKept' BY DEF ConfigInv, DocKept, GlobalKept
<1>3. \A y \in Execution : HeldByJob(y)' BY DEF ConfigInv, HeldByJob
<1> QED BY <1>1, <1>2, <1>3 DEF ConfigInv

LEMMA RequestsKeep ==
  ASSUME ConfigInv, NEW r \in Request, PutReads(r) \/ PutLost(r)
  PROVE  ConfigInv'
<1>1. /\ UNCHANGED <<docs, global, bundle, spend, job, intent, doubtful, clobbered, relieved>>
      /\ spend \in [Consumer -> Nat] /\ relieved \subseteq Consumer
      /\ docs \in [Consumer -> Document \cup {NoDoc}] /\ put \in [Request -> PutRec]
  BY DEF PutReads, PutLost, stores, edits, levels, ConfigInv, StoreType, ActorType
<1>2. PICK p : put' = [put EXCEPT ![r] = p] /\
        \/ p = IdlePut
        \/ \E c \in Consumer, e \in Edit :
             p = [pc |-> "write", consumer |-> c, body |-> e,
                  merged |-> Merged(docs[c], e), stale |-> FALSE]
  BY DEF PutReads, PutLost
<1>3. /\ p \in PutRec
      /\ p.pc = "write" => /\ p.consumer \in Consumer /\ p.body \in Edit /\ p.merged \in Document
                           /\ p.merged = Merged(docs[p.consumer], p.body)
  <2>1. CASE p = IdlePut BY <2>1, PutRecIdle
  <2>2. ASSUME NEW c \in Consumer, NEW e \in Edit,
               p = [pc |-> "write", consumer |-> c, body |-> e,
                    merged |-> Merged(docs[c], e), stale |-> FALSE]
        PROVE  /\ p \in PutRec
               /\ p.consumer \in Consumer /\ p.body \in Edit /\ p.merged \in Document
               /\ p.merged = Merged(docs[p.consumer], p.body)
    <3>1. Merged(docs[c], e) \in Document BY <1>1, MergedIs
    <3> QED BY <2>2, <3>1 DEF PutRec
  <2> QED BY <1>2, <2>1, <2>2
<1>4. put' \in [Request -> PutRec] /\ put'[r] = p /\ \A s \in Request : s # r => put'[s] = put[s]
  BY <1>1, <1>2, <1>3
<1>5. ActorType' BY <1>1, <1>3, <1>4 DEF ConfigInv, ActorType
<1>6. ASSUME NEW s \in Request PROVE HeldByPut(s)'
  BY <1>1, <1>3, <1>4 DEF ConfigInv, HeldByPut
<1> QED BY <1>1, <1>5, <1>6, SameDocsKeep

LEMMA WorldKeeps ==
  ASSUME ConfigInv, NewDay \/ Reprice \/ \E c \in Consumer : Spend(c)
  PROVE  ConfigInv'
<1>1. UNCHANGED <<docs, global, bundle, job, put, intent, doubtful, clobbered>>
  BY DEF NewDay, Reprice, Spend, edits
<1>t. spend \in [Consumer -> Nat] /\ relieved \subseteq Consumer BY DEF ConfigInv, StoreType
<1>2. spend' \in [Consumer -> Nat] /\ relieved' \subseteq Consumer
  <2>1. CASE NewDay BY <1>t, <2>1 DEF NewDay, Relieve
  <2>2. CASE Reprice BY <1>t, <2>2 DEF Reprice, Relieve
  <2>3. CASE \E c \in Consumer : Spend(c) BY <1>t, <2>3 DEF Spend, levels
  <2> QED BY <2>1, <2>2, <2>3
<1>3. ActorType' BY <1>1 DEF ConfigInv, ActorType
<1>4. \A r \in Request : HeldByPut(r)' BY <1>1 DEF ConfigInv, HeldByPut
<1> QED BY <1>1, <1>2, <1>3, <1>4, SameDocsKeep

LEMMA ConfigInit == Init => ConfigInv
<1> SUFFICES ASSUME Init PROVE ConfigInv OBVIOUS
<1>1. \A d \in FirstDoc \ {NoDoc} :
        d \in Document /\ DOMAIN d \subseteq OperatorField /\ Operators(d) = d
  <2> SUFFICES ASSUME NEW d \in FirstDoc \ {NoDoc}
               PROVE  d \in Document /\ DOMAIN d \subseteq OperatorField /\ Operators(d) = d
    OBVIOUS
  <2>1. DOMAIN d \subseteq OperatorField /\ d \in [DOMAIN d -> Nat] OBVIOUS
  <2>2. d \in Document BY <2>1, MadeDoc DEF Field
  <2>3. Operators(d) = [f \in OperatorField \cap DOMAIN d |-> d[f]] BY <2>2, OperatorsOf
  <2>4. OperatorField \cap DOMAIN d = DOMAIN d BY <2>1
  <2> QED BY <2>1, <2>2, <2>3, <2>4
<1>2. docs \in [Consumer -> Document \cup {NoDoc}] BY <1>1 DEF Init
<1>3. <<>> \in DocMap BY IdleIs DEF JobOf, IdleJob
<1>4. /\ intent = [d \in Consumer \cup {"global"} |-> intent[d]]
      /\ intent["global"] = NoDoc /\ \A c \in Consumer : intent[c] = docs[c]
      /\ doubtful \in [Consumer -> SUBSET OperatorField]
  BY DEF Init
<1>5. StoreType BY <1>2, <1>3, <1>4 DEF Init, StoreType
<1>6. /\ job = [x \in Execution |-> job[x]] /\ put = [r \in Request |-> put[r]]
      /\ \A x \in Execution : job[x] = IdleJob
      /\ \A r \in Request : put[r] = IdlePut
  BY DEF Init
<1>7. JobRec(IdleJob) BY IdleIs DEF JobRec
<1>8. ActorType BY <1>6, <1>7, PutRecIdle DEF ActorType
<1>9. \A c \in Consumer : DocKept(c) BY <1>4 DEF DocKept
<1>10. GlobalKept BY <1>4 DEF GlobalKept
<1>11. \A x \in Execution : HeldByJob(x) BY <1>6, IdleIs DEF HeldByJob
<1>12. \A r \in Request : HeldByPut(r) BY <1>6, PutRecIdle DEF HeldByPut
<1> QED BY <1>5, <1>8, <1>9, <1>10, <1>11, <1>12 DEF ConfigInv

LEMMA ConfigStep == ConfigInv /\ [Next]_vars => ConfigInv'
<1> SUFFICES ASSUME ConfigInv, [Next]_vars PROVE ConfigInv' OBVIOUS
<1>1. CASE UNCHANGED vars
  <2>1. UNCHANGED <<docs, global, bundle, spend, job, put, intent, doubtful, clobbered, relieved>>
    BY <1>1 DEF vars, stores, edits, levels
  <2> QED BY <2>1 DEF ConfigInv, StoreType, ActorType, DocKept, GlobalKept, HeldByJob, HeldByPut
<1>2. ASSUME NEW x \in Execution, ExecutionStep(x) \/ ExecutionFails(x) PROVE ConfigInv'
  BY <1>2, JobStepsKeep, SeedGlobalKeeps, WriteLevelKeeps DEF ExecutionStep
<1>3. ASSUME NEW r \in Request, PutReads(r) \/ PutWrites(r) \/ PutFails(r) PROVE ConfigInv'
  BY <1>3, RequestsKeep, OverwriteKeeps, PutFailsIs
<1>4. ASSUME NEW c \in Consumer, DeleteConfig(c) \/ Spend(c) PROVE ConfigInv'
  BY <1>4, DeleteKeeps, WorldKeeps
<1>5. CASE EditGlobal \/ Reprice \/ NewDay BY <1>5, EditGlobalKeeps, WorldKeeps
<1> QED BY <1>1, <1>2, <1>3, <1>4, <1>5 DEF Next

(* What an operator was told is saved stays as saved unless somebody wrote *)
(* the document from a copy read before the edit, or a request said to     *)
(* have failed changed the field.                                          *)
THEOREM EditsHold == Spec => []EditsSurvive
<1>1. ConfigInv => EditsSurvive BY DEF ConfigInv, DocKept, GlobalKept, EditsSurvive
<1> QED BY <1>1, ConfigInit, ConfigStep, PTL DEF Spec

-----------------------------------------------------------------------------
(* Levels.  For a consumer nobody relieved, the level only climbs on its   *)
(* way from the usage through the document to the bundle, because one      *)
(* execution runs and every level on the way is called for by the spend.   *)
EntryLevel(x, c) == IF c \in DOMAIN job[x].entries THEN Level(job[x].entries[c]) ELSE 0

Raises(d, w, cost) ==
  d # NoDoc /\ SameBudget(d, w) /\ Level(d) <= Level(w) /\ Owed(w, cost)

Along(x, c) ==
  /\ job[x].pc = "docs" => Owed(docs[c], job[x].usage[c]) /\ job[x].usage[c] <= spend[c]
  /\ job[x].pc = "levels" /\ c \in DOMAIN job[x].writes =>
       Raises(docs[c], job[x].writes[c], spend[c])
  /\ job[x].pc = "publish" =>
       PublishedLevel(c) <= EntryLevel(x, c) /\ EntryLevel(x, c) <= DocLevel(docs[c])

Calm(c) ==
  /\ PublishedLevel(c) <= DocLevel(docs[c]) /\ Owed(docs[c], spend[c])
  /\ \A x \in Execution : Along(x, c)

OneRuns == \A x, y \in Execution : job[x].pc # "idle" /\ job[y].pc # "idle" => x = y

CalmInv == \A c \in Consumer \ relieved : OneRuns /\ Calm(c)

(* What an execution that evaluated the whole usage, and was not disturbed *)
(* since, has got right so far, whatever was published before it.          *)
Ahead(x, c) ==
  /\ job[x].pc = "docs" => job[x].usage[c] <= spend[c]
  /\ job[x].pc = "levels" /\ c \in DOMAIN job[x].writes => Owed(job[x].writes[c], spend[c])
  /\ \/ job[x].pc = "levels" /\ c \notin DOMAIN job[x].writes
     \/ job[x].pc \in {"bundle", "publish"}
     => Owed(docs[c], spend[c])
  /\ job[x].pc = "publish" => EntryLevel(x, c) <= DocLevel(docs[c])

FreshInv ==
  /\ fresh \subseteq Consumer
  /\ \A c \in fresh : OneRuns /\ \A x \in Execution : Ahead(x, c)

LevelInv == CalmInv /\ FreshInv

(* Documents that stand at the same level and are evaluated alike.         *)
Alike(d, w) ==
  /\ DocLevel(w) = DocLevel(d)
  /\ d = NoDoc => w = NoDoc \/ ~Evaluated(w)
  /\ d # NoDoc => w # NoDoc /\ SameBudget(d, w)

LEMMA AlikeMoves ==
  ASSUME NEW d \in Document \cup {NoDoc}, NEW e \in Document \cup {NoDoc}, Alike(d, e)
  PROVE  /\ \A cost : Owed(d, cost) => Owed(e, cost)
         /\ \A w, cost : Raises(d, w, cost) => Raises(e, w, cost)
<1>1. CASE d = NoDoc
  BY <1>1 DEF Alike, Owed, Raises
<1>2. CASE d # NoDoc
  <2>1. e # NoDoc /\ SameBudget(d, e) /\ Level(d) = Level(e)
    BY <1>2 DEF Alike, DocLevel
  <2>2. \A cost : Owed(d, cost) => Owed(e, cost) BY <1>2, <2>1 DEF Owed, SameBudget
  <2>3. \A w : SameBudget(d, w) => SameBudget(e, w) BY <2>1 DEF SameBudget
  <2>4. \A w, cost : Raises(d, w, cost) => Raises(e, w, cost)
    BY <2>1, <2>3 DEF Raises
  <2> QED BY <2>2, <2>4
<1> QED BY <1>1, <1>2

LEMMA LevelsAreNat ==
  ASSUME StoreType, ActorType, NEW c \in Consumer
  PROVE  /\ PublishedLevel(c) \in Nat /\ DocLevel(docs[c]) \in Nat /\ spend[c] \in Nat
         /\ docs[c] \in Document \cup {NoDoc}
         /\ \A x \in Execution : EntryLevel(x, c) \in Nat /\ job[x].usage[c] \in Nat
<1>1. PublishedLevel(c) \in Nat BY MapIs, DocFacts DEF StoreType, PublishedLevel
<1>2. DocLevel(docs[c]) \in Nat BY DocFacts DEF StoreType, DocLevel
<1>3. ASSUME NEW x \in Execution PROVE EntryLevel(x, c) \in Nat /\ job[x].usage[c] \in Nat
  <2>1. job[x].entries \in DocMap /\ job[x].usage \in [Consumer -> Nat] BY RecIs DEF ActorType
  <2> QED BY <2>1, MapIs, DocFacts DEF EntryLevel
<1> QED BY <1>1, <1>2, <1>3 DEF StoreType

(* What a job's copy keeps when its record stays but for what is stale.    *)
SameRun(y) ==
  /\ job'[y].pc = job[y].pc /\ job'[y].usage = job[y].usage
  /\ job'[y].writes = job[y].writes /\ job'[y].entries = job[y].entries

LEMMA AlikeCalm ==
  ASSUME StoreType, StoreType', NEW c \in Consumer, Calm(c), OneRuns, Alike(docs[c], docs'[c]),
         UNCHANGED bundle, spend'[c] = spend[c], \A y \in Execution : SameRun(y)
  PROVE  OneRuns' /\ Calm(c)'
<1>1. docs[c] \in Document \cup {NoDoc} /\ docs'[c] \in Document \cup {NoDoc}
  BY DEF StoreType
<1>2. /\ PublishedLevel(c)' = PublishedLevel(c) /\ spend'[c] = spend[c]
      /\ DocLevel(docs'[c]) = DocLevel(docs[c])
  BY DEF PublishedLevel, Alike
<1>3. OneRuns' BY DEF OneRuns, SameRun
<1>4. Owed(docs'[c], spend'[c]) BY <1>1, <1>2, AlikeMoves DEF Calm
<1>5. ASSUME NEW y \in Execution PROVE Along(y, c)'
  <2>1. Along(y, c) /\ SameRun(y) BY DEF Calm
  <2>2. job'[y].pc = "docs" => Owed(docs'[c], job'[y].usage[c]) /\ job'[y].usage[c] <= spend'[c]
    BY <1>1, <1>2, <2>1, AlikeMoves DEF Along, SameRun
  <2>3. job'[y].pc = "levels" /\ c \in DOMAIN job'[y].writes =>
          Raises(docs'[c], job'[y].writes[c], spend'[c])
    BY <1>1, <1>2, <2>1, AlikeMoves DEF Along, SameRun
  <2>4. EntryLevel(y, c)' = EntryLevel(y, c) BY <2>1 DEF EntryLevel, SameRun
  <2> QED BY <1>2, <2>1, <2>2, <2>3, <2>4 DEF Along, SameRun
<1> QED BY <1>2, <1>3, <1>4, <1>5 DEF Calm

LEMMA QuietCalm ==
  ASSUME NEW x \in Execution, NEW c \in Consumer, Calm(c), OneRuns, Moved(x), Along(x, c)',
         UNCHANGED <<docs, bundle, spend>>,
         job[x].pc # "idle" \/ \A y \in Execution : y # x => job[y].pc = "idle"
  PROVE  OneRuns' /\ Calm(c)'
<1>1. \A y \in Execution : y # x => job'[y] = job[y] BY DEF Moved
<1>2. OneRuns' BY <1>1 DEF OneRuns
<1>3. ASSUME NEW y \in Execution PROVE Along(y, c)'
  <2>1. CASE y = x BY <2>1
  <2>2. CASE y # x
    <3>1. Along(y, c) /\ job'[y] = job[y] BY <1>1, <2>2 DEF Calm
    <3> QED BY <3>1 DEF Along, EntryLevel, PublishedLevel
  <2> QED BY <2>1, <2>2
<1>4. PublishedLevel(c)' <= DocLevel(docs'[c]) /\ Owed(docs'[c], spend'[c])
  BY DEF Calm, PublishedLevel
<1> QED BY <1>2, <1>3, <1>4 DEF Calm

LEMMA BundleLevel ==
  ASSUME StoreType, NEW x, NEW c \in Consumer, job'[x].entries = Bundle
  PROVE  EntryLevel(x, c)' = DocLevel(docs[c])
<1>1. DOMAIN Bundle = Docs /\ (c \in Docs <=> docs[c] # NoDoc) BY DEF Bundle, Docs
<1>2. docs[c] \in Document \cup {NoDoc} BY DEF StoreType
<1>3. CASE docs[c] = NoDoc BY <1>1, <1>3 DEF EntryLevel, DocLevel
<1>4. CASE docs[c] # NoDoc
  <2>1. Bundle[c] = Restrict(docs[c], BundleField \cap DOMAIN docs[c])
    BY <1>1, <1>4 DEF Bundle
  <2>2. Level(Bundle[c]) = Level(docs[c]) BY <1>2, <1>4, <2>1, BundledIs
  <2> QED BY <1>1, <1>4, <2>2 DEF EntryLevel, DocLevel
<1> QED BY <1>3, <1>4

LEMMA NotAlong ==
  ASSUME NEW x \in Execution, NEW c, job'[x].pc \notin {"docs", "levels", "publish"}
  PROVE  Along(x, c)'
BY DEF Along

LEMMA JobStepsCalm ==
  ASSUME ConfigInv, CalmInv, NEW x \in Execution, NEW c \in Consumer \ relieved',
         \/ StartExecution(x) \/ ReadGlobal(x) \/ WriteNamed(x) \/ QueryUsage(x)
         \/ ReadDocs(x) \/ ReadBundle(x) \/ ExecutionFails(x)
  PROVE  OneRuns' /\ Calm(c)'
<1>t. ActorType /\ StoreType BY DEF ConfigInv
<1>n. /\ PublishedLevel(c) \in Nat /\ DocLevel(docs[c]) \in Nat /\ spend[c] \in Nat
      /\ docs[c] \in Document \cup {NoDoc}
      /\ \A y \in Execution : EntryLevel(y, c) \in Nat /\ job[y].usage[c] \in Nat
  BY <1>t, LevelsAreNat
<1>u. /\ UNCHANGED <<docs, bundle, spend>> /\ c \in Consumer \ relieved
      /\ StartExecution(x) \/ job[x].pc # "idle"
  <2>1. CASE StartExecution(x) BY <2>1 DEF StartExecution, Relieve, stores
  <2>2. CASE QueryUsage(x)
    <3>1. relieved \subseteq relieved' BY <1>t, <2>2, QueryIs
    <3> QED BY <2>2, <3>1 DEF QueryUsage, stores, Running
  <2>3. CASE ReadGlobal(x) \/ WriteNamed(x) \/ ReadDocs(x) \/ ReadBundle(x) \/ ExecutionFails(x)
    BY <2>3 DEF ReadGlobal, WriteNamed, ReadDocs, ReadBundle, ExecutionFails, stores, levels,
                Running
  <2> QED BY <2>1, <2>2, <2>3
<1>c. OneRuns /\ Calm(c) BY <1>u DEF CalmInv
<1>1. CASE StartExecution(x)
  <2>1. Moved(x) /\ job'[x].pc = "global" BY <1>t, <1>1, StartIs
  <2>2. \A y \in Execution : y # x => job[y].pc = "idle"
    BY <1>1 DEF StartExecution, Relieve, Alone, Running
  <2> QED BY <1>u, <1>c, <2>1, <2>2, NotAlong, QuietCalm
<1>2. CASE ReadGlobal(x)
  <2>1. Moved(x) /\ job'[x].pc \in {"seed", "usage", "named"} /\ job[x].pc # "idle"
    BY <1>t, <1>2, ReadGlobalIs DEF ReadGlobal, Running
  <2> QED BY <1>u, <1>c, <2>1, NotAlong, QuietCalm
<1>3. CASE WriteNamed(x)
  <2>1. Moved(x) /\ job'[x].pc \in {"usage", "named"} /\ job[x].pc # "idle"
    BY <1>t, <1>3, WriteNamedIs DEF WriteNamed, Running
  <2> QED BY <1>u, <1>c, <2>1, NotAlong, QuietCalm
<1>4. CASE QueryUsage(x)
  <2>1. /\ Moved(x) /\ job'[x].pc \in {"docs", "bundle"}
        /\ job'[x].pc = "docs" => job'[x].usage[c] = spend[c]
    BY <1>t, <1>4, QueryIs
  <2>2. job[x].pc # "idle" BY <1>4 DEF QueryUsage, Running
  <2>3. Along(x, c)' BY <1>n, <1>u, <1>c, <2>1 DEF Along, Calm
  <2> QED BY <1>u, <1>c, <2>1, <2>2, <2>3, QuietCalm
<1>5. CASE ReadDocs(x)
  <2>1. /\ Moved(x) /\ job'[x].pc \in {"bundle", "levels"}
        /\ job'[x].writes = Downgrades(job[x].usage)
    BY <1>t, <1>5, ReadDocsIs
  <2>2. job[x].pc = "docs" BY <1>5 DEF ReadDocs, Running
  <2>3. job[x].usage \in [Consumer -> Nat] BY <1>t, RecIs DEF ActorType
  <2>4. Owed(docs[c], job[x].usage[c]) /\ job[x].usage[c] <= spend[c]
    BY <1>c, <2>2 DEF Calm, Along
  <2>5. ASSUME c \in DOMAIN job'[x].writes
        PROVE  Raises(docs[c], job'[x].writes[c], spend[c])
    <3>1. c \in DOMAIN Downgrades(job[x].usage) BY <2>1, <2>5
    <3>2. PICK n \in Nat :
            /\ docs[c] # NoDoc /\ docs[c] \in Document /\ Evaluated(docs[c])
            /\ n = LevelFor(job[x].usage[c], docs[c]["budget"])
            /\ job'[x].writes[c] = WithLevel(docs[c], n)
      BY <1>t, <2>1, <2>3, <3>1, DowngradesIs
    <3>3. PICK d, w, b : d = docs[c] /\ w = job'[x].writes[c] /\ b = docs[c]["budget"] OBVIOUS
    <3>4. d \in Document /\ w = WithLevel(d, n) BY <3>2, <3>3
    <3>5. w \in Document /\ Level(w) = n /\ SameBudget(d, w) BY <3>4, WithLevelIs
    <3>6. b \in Nat BY <3>2, <3>3, DocFacts DEF Evaluated
    <3>7. Level(d) <= n BY <2>4, <3>2, <3>3 DEF Owed
    <3>8. n <= LevelFor(spend[c], b) BY <1>n, <2>4, <3>2, <3>3, <3>6, LevelForIs
    <3>9. Evaluated(w) => w["budget"] = b BY <3>3, <3>5 DEF SameBudget
    <3>10. Owed(w, spend[c]) BY <3>5, <3>8, <3>9 DEF Owed
    <3> QED BY <3>2, <3>3, <3>5, <3>7, <3>10 DEF Raises
  <2>6. Along(x, c)' BY <1>u, <2>1, <2>5 DEF Along
  <2> QED BY <1>u, <1>c, <2>1, <2>2, <2>6, QuietCalm
<1>6. CASE ReadBundle(x)
  <2>1. Moved(x) /\ job'[x].pc = "publish" /\ job'[x].entries = Bundle /\ job[x].pc # "idle"
    BY <1>t, <1>6, ReadBundleIs DEF ReadBundle, Running
  <2>2. EntryLevel(x, c)' = DocLevel(docs[c]) BY <1>t, <2>1, BundleLevel
  <2>3. PublishedLevel(c)' = PublishedLevel(c) BY <1>u DEF PublishedLevel
  <2>4. Along(x, c)' BY <1>n, <1>u, <1>c, <2>1, <2>2, <2>3 DEF Along, Calm
  <2> QED BY <1>u, <1>c, <2>1, <2>4, QuietCalm
<1>7. CASE ExecutionFails(x)
  <2>1. Moved(x) /\ job'[x].pc = "idle" /\ job[x].pc # "idle"
    BY <1>t, <1>7, EndIs DEF ExecutionFails, Running
  <2> QED BY <1>u, <1>c, <2>1, NotAlong, QuietCalm
<1> QED BY <1>1, <1>2, <1>3, <1>4, <1>5, <1>6, <1>7

(* The publishing of a bundle lifts no downgrade, and is the only step     *)
(* that touches what is published.                                         *)
LEMMA PublishCalm ==
  ASSUME ConfigInv, NEW x \in Execution, Publish(x), NEW c \in Consumer, OneRuns, Calm(c)
  PROVE  /\ PublishedLevel(c)' >= PublishedLevel(c)
         /\ OneRuns' /\ Calm(c)'
<1>t. ActorType /\ StoreType BY DEF ConfigInv
<1>1. Moved(x) /\ job'[x].pc = "idle" BY <1>t, EndIs
<1>2. job[x].pc = "publish" /\ bundle' = job[x].entries /\ UNCHANGED <<docs, spend>>
  BY DEF Publish, Running
<1>3. \A y \in Execution : y # x => job[y].pc = "idle" /\ job'[y].pc = "idle"
  BY <1>1, <1>2 DEF OneRuns, Moved
<1>4. PublishedLevel(c)' = EntryLevel(x, c) BY <1>2 DEF PublishedLevel, EntryLevel
<1>5. PublishedLevel(c) <= EntryLevel(x, c) /\ EntryLevel(x, c) <= DocLevel(docs[c])
  BY <1>2 DEF Calm, Along
<1>6. PublishedLevel(c) \in Nat /\ EntryLevel(x, c) \in Nat BY <1>t, LevelsAreNat
<1>7. OneRuns' BY <1>1, <1>3 DEF OneRuns
<1>8. \A y \in Execution : Along(y, c)' BY <1>1, <1>3, NotAlong
<1>9. PublishedLevel(c)' <= DocLevel(docs'[c]) /\ Owed(docs'[c], spend'[c])
  BY <1>2, <1>4, <1>5 DEF Calm
<1> QED BY <1>4, <1>5, <1>6, <1>7, <1>8, <1>9 DEF Calm

LEMMA AlikeItself ==
  ASSUME NEW d PROVE Alike(d, d)
BY DEF Alike, SameBudget

LEMMA SameJobRuns ==
  ASSUME NEW y, NEW d, SameJob(y, d) PROVE SameRun(y)
BY DEF SameJob, SameRun

LEMMA WriteLevelCalm ==
  ASSUME ConfigInv, ConfigInv', NEW x \in Execution, WriteLevel(x), NEW c \in Consumer,
         OneRuns, Calm(c)
  PROVE  OneRuns' /\ Calm(c)'
<1>t. ActorType /\ StoreType /\ StoreType' BY DEF ConfigInv
<1>1. PICK e \in Consumer :
           /\ job[x].pc = "levels" /\ e \in DOMAIN job[x].writes
           /\ job[x].writes[e] \in Document
           /\ docs' = [docs EXCEPT ![e] = job[x].writes[e]]
           /\ \A y \in Execution : y # x => SameJob(y, e)
           /\ job'[x].pc \in {"bundle", "levels"}
           /\ \A f \in DOMAIN job'[x].writes :
                f # e /\ f \in DOMAIN job[x].writes /\ job'[x].writes[f] = job[x].writes[f]
  BY <1>t, WriteLevelIs
<1>2. UNCHANGED <<bundle, spend>> BY DEF WriteLevel
<1>3. \A y \in Execution : y # x => job[y].pc = "idle" /\ job'[y].pc = "idle"
  BY <1>1 DEF OneRuns, SameJob
<1>4. OneRuns' BY <1>3 DEF OneRuns
<1>5. /\ docs'[e] = job[x].writes[e] /\ \A f \in Consumer : f # e => docs'[f] = docs[f]
      /\ PublishedLevel(c)' = PublishedLevel(c)
  BY <1>t, <1>1, <1>2 DEF StoreType, PublishedLevel
<1>n. /\ PublishedLevel(c) \in Nat /\ DocLevel(docs[c]) \in Nat
      /\ docs[c] \in Document \cup {NoDoc}
  BY <1>t, LevelsAreNat
<1>6. PublishedLevel(c)' <= DocLevel(docs'[c]) /\ Owed(docs'[c], spend'[c])
  <2>1. CASE c # e BY <1>2, <1>5, <2>1 DEF Calm
  <2>2. CASE c = e
    <3>1. Raises(docs[c], job[x].writes[c], spend[c]) BY <1>1, <2>2 DEF Calm, Along
    <3>2. /\ docs'[c] = job[x].writes[c] /\ docs'[c] \in Document /\ docs'[c] # NoDoc
          /\ Level(docs'[c]) \in Nat
      BY <1>1, <1>5, <2>2, DocFacts
    <3>3. DocLevel(docs[c]) <= DocLevel(docs'[c]) BY <3>1, <3>2 DEF Raises, DocLevel
    <3>4. DocLevel(docs'[c]) \in Nat BY <3>2 DEF DocLevel
    <3>5. PublishedLevel(c) <= DocLevel(docs[c]) BY DEF Calm
    <3>6. PublishedLevel(c)' <= DocLevel(docs'[c]) BY <1>n, <1>5, <3>3, <3>4, <3>5
    <3>7. Owed(docs'[c], spend'[c]) BY <1>2, <3>1, <3>2 DEF Raises
    <3> QED BY <3>6, <3>7
  <2> QED BY <2>1, <2>2
<1>7. Along(x, c)'
  <2>1. ASSUME c \in DOMAIN job'[x].writes
        PROVE  Raises(docs'[c], job'[x].writes[c], spend'[c])
    <3>1. c # e /\ c \in DOMAIN job[x].writes /\ job'[x].writes[c] = job[x].writes[c]
      BY <1>1, <2>1
    <3>2. Raises(docs[c], job[x].writes[c], spend[c]) BY <1>1, <3>1 DEF Calm, Along
    <3> QED BY <1>2, <1>5, <3>1, <3>2
  <2> QED BY <1>1, <2>1 DEF Along
<1>8. \A y \in Execution : Along(y, c)' BY <1>3, <1>7, NotAlong
<1> QED BY <1>4, <1>6, <1>8 DEF Calm

LEMMA SpendCalm ==
  ASSUME ConfigInv, NEW e \in Consumer, Spend(e), NEW c \in Consumer, OneRuns, Calm(c)
  PROVE  OneRuns' /\ Calm(c)'
<1>t. ActorType /\ StoreType BY DEF ConfigInv
<1>1. UNCHANGED <<docs, bundle, job>> BY DEF Spend
<1>2. spend[c] \in Nat /\ spend'[c] \in Nat /\ spend[c] <= spend'[c]
  BY <1>t DEF Spend, StoreType
<1>3. /\ docs[c] \in Document \cup {NoDoc} /\ PublishedLevel(c)' = PublishedLevel(c)
      /\ \A x \in Execution : job[x].usage[c] \in Nat
  BY <1>t, <1>1, LevelsAreNat DEF PublishedLevel
<1>4. Owed(docs'[c], spend'[c]) BY <1>1, <1>2, <1>3, OwedGrows DEF Calm
<1>5. ASSUME NEW x \in Execution PROVE Along(x, c)'
  <2>1. Along(x, c) BY DEF Calm
  <2>2. job[x].pc = "docs" => job[x].usage[c] <= spend'[c] BY <1>2, <1>3, <2>1 DEF Along
  <2>3. ASSUME job[x].pc = "levels", c \in DOMAIN job[x].writes
        PROVE  Raises(docs[c], job[x].writes[c], spend'[c])
    <3>1. job[x].writes \in DocMap BY <1>t, RecIs DEF ActorType
    <3>2. job[x].writes[c] \in Document BY <2>3, <3>1, MapIs
    <3>3. Raises(docs[c], job[x].writes[c], spend[c]) BY <2>1, <2>3 DEF Along
    <3>4. Owed(job[x].writes[c], spend'[c]) BY <1>2, <3>2, <3>3, OwedGrows DEF Raises
    <3> QED BY <3>3, <3>4 DEF Raises
  <2> QED BY <1>1, <1>3, <2>1, <2>2, <2>3 DEF Along, EntryLevel
<1> QED BY <1>1, <1>3, <1>4, <1>5 DEF Calm, OneRuns

LEMMA LevelInit == Init => LevelInv
<1> SUFFICES ASSUME Init, NEW c \in Consumer PROVE OneRuns /\ Calm(c)
  BY DEF Init, LevelInv, CalmInv, FreshInv
<1>1. \A x \in Execution : job[x].pc = "idle" BY DEF Init, IdleJob
<1>2. PublishedLevel(c) = 0 /\ spend[c] = 0 BY DEF Init, PublishedLevel
<1>3. docs[c] # NoDoc => docs[c] \in Document /\ Level(docs[c]) = 0
  <2> SUFFICES ASSUME docs[c] # NoDoc PROVE docs[c] \in Document /\ Level(docs[c]) = 0
    OBVIOUS
  <2>1. PICK d \in FirstDoc \ {NoDoc} : d = docs[c] BY DEF Init
  <2>2. DOMAIN d \subseteq OperatorField /\ d \in [DOMAIN d -> Nat] OBVIOUS
  <2>3. d \in Document BY <2>2, MadeDoc DEF Field
  <2>4. Level(d) = 0 BY <2>2 DEF Level, OperatorField
  <2> QED BY <2>1, <2>3, <2>4
<1>4. DocLevel(docs[c]) = 0 BY <1>3 DEF DocLevel
<1>5. Owed(docs[c], spend[c])
  <2> SUFFICES ASSUME docs[c] # NoDoc, Evaluated(docs[c])
               PROVE  Level(docs[c]) <= LevelFor(spend[c], docs[c]["budget"])
    BY DEF Owed
  <2>1. docs[c]["budget"] \in Nat BY <1>3, DocFacts DEF Evaluated
  <2>2. LevelFor(spend[c], docs[c]["budget"]) \in Nat BY <1>2, <2>1, LevelForIs
  <2> QED BY <1>3, <2>2
<1>6. \A x \in Execution : Along(x, c) BY <1>1 DEF Along
<1> QED BY <1>1, <1>2, <1>4, <1>5, <1>6 DEF Calm, OneRuns

LEMMA SeedGlobalCalm ==
  ASSUME ConfigInv, NEW x \in Execution, SeedGlobal(x), NEW c \in Consumer,
         OneRuns, Calm(c)
  PROVE  OneRuns' /\ Calm(c)'
<1>t. ActorType BY DEF ConfigInv
<1>1. /\ job[x].pc = "seed" /\ \A y \in Execution : y # x => SameJob(y, "global")
      /\ job'[x].pc \in {"usage", "named"}
  BY <1>t, SeedGlobalIs
<1>2. UNCHANGED <<docs, bundle, spend>> BY DEF SeedGlobal
<1>3. \A y \in Execution : y # x => job[y].pc = "idle" /\ job'[y].pc = "idle"
  BY <1>1 DEF OneRuns, SameJob
<1>4. OneRuns' BY <1>3 DEF OneRuns
<1>5. \A y \in Execution : Along(y, c)' BY <1>1, <1>3, NotAlong
<1>6. PublishedLevel(c)' <= DocLevel(docs'[c]) /\ Owed(docs'[c], spend'[c])
  BY <1>2 DEF Calm, PublishedLevel
<1> QED BY <1>4, <1>5, <1>6 DEF Calm

-----------------------------------------------------------------------------
(* What holds of the consumers evaluated last, until they are relieved.    *)
LEMMA NotAhead ==
  ASSUME NEW x \in Execution, NEW c,
         job'[x].pc \notin {"docs", "levels", "bundle", "publish"}
  PROVE  Ahead(x, c)'
BY DEF Ahead

LEMMA QuietAhead ==
  ASSUME NEW x \in Execution, NEW c \in Consumer, OneRuns, \A y \in Execution : Ahead(y, c),
         Moved(x), Ahead(x, c)', UNCHANGED <<docs, spend>>,
         job[x].pc # "idle" \/ \A y \in Execution : y # x => job[y].pc = "idle"
  PROVE  OneRuns' /\ \A y \in Execution : Ahead(y, c)'
<1>1. \A y \in Execution : y # x => job'[y] = job[y] BY DEF Moved
<1>2. OneRuns' BY <1>1 DEF OneRuns
<1>3. ASSUME NEW y \in Execution, y # x PROVE Ahead(y, c)'
  <2>1. Ahead(y, c) /\ job'[y] = job[y] BY <1>1, <1>3
  <2> QED BY <2>1 DEF Ahead, EntryLevel
<1> QED BY <1>2, <1>3

LEMMA AlikeAhead ==
  ASSUME StoreType, StoreType', NEW c \in Consumer, OneRuns,
         \A y \in Execution : Ahead(y, c) /\ SameRun(y),
         Alike(docs[c], docs'[c]), spend'[c] = spend[c]
  PROVE  OneRuns' /\ \A y \in Execution : Ahead(y, c)'
<1>1. docs[c] \in Document \cup {NoDoc} /\ docs'[c] \in Document \cup {NoDoc}
  BY DEF StoreType
<1>2. DocLevel(docs'[c]) = DocLevel(docs[c]) BY DEF Alike
<1>3. Owed(docs[c], spend[c]) => Owed(docs'[c], spend[c]) BY <1>1, AlikeMoves
<1>4. OneRuns' BY DEF OneRuns, SameRun
<1>5. ASSUME NEW y \in Execution PROVE Ahead(y, c)'
  <2>1. Ahead(y, c) /\ SameRun(y) OBVIOUS
  <2>2. EntryLevel(y, c)' = EntryLevel(y, c) BY <2>1 DEF EntryLevel, SameRun
  <2> QED BY <1>2, <1>3, <2>1, <2>2 DEF Ahead, SameRun
<1> QED BY <1>4, <1>5

(* A step that leaves the documents, the spend and the executions as they  *)
(* are but for the consumers it relieves.                                  *)
LEMMA AlikeKeeps ==
  ASSUME StoreType, StoreType', LevelInv, NEW C, Relieve(C), UNCHANGED bundle,
         \A y \in Execution : SameRun(y),
         \A c \in Consumer \ C : Alike(docs[c], docs'[c]) /\ spend'[c] = spend[c]
  PROVE  LevelInv'
<1>1. relieved' = relieved \cup C /\ fresh' = fresh \ C BY DEF Relieve
<1>2. ASSUME NEW c \in Consumer \ relieved' PROVE OneRuns' /\ Calm(c)'
  <2>1. c \in Consumer \ C /\ OneRuns /\ Calm(c) BY <1>1, <1>2 DEF LevelInv, CalmInv
  <2> QED BY <2>1, AlikeCalm
<1>3. ASSUME NEW c \in fresh' PROVE OneRuns' /\ \A y \in Execution : Ahead(y, c)'
  <2>1. c \in Consumer \ C /\ OneRuns /\ \A y \in Execution : Ahead(y, c)
    BY <1>1, <1>3 DEF LevelInv, FreshInv
  <2> QED BY <2>1, AlikeAhead
<1> QED BY <1>1, <1>2, <1>3 DEF LevelInv, CalmInv, FreshInv

LEMMA ReadDocsAhead ==
  ASSUME ConfigInv, NEW x \in Execution, ReadDocs(x), NEW c \in Consumer, Ahead(x, c)
  PROVE  Ahead(x, c)'
<1>t. ActorType /\ StoreType BY DEF ConfigInv
<1>1. /\ job'[x].pc \in {"bundle", "levels"} /\ job'[x].writes = Downgrades(job[x].usage)
      /\ job'[x].pc = "bundle" => DOMAIN job'[x].writes = {}
  BY <1>t, ReadDocsIs
<1>2. job[x].pc = "docs" /\ UNCHANGED <<docs, spend>> BY DEF ReadDocs, Running, stores
<1>3. PICK u \in Nat : u = job[x].usage[c] /\ job[x].usage \in [Consumer -> Nat]
  BY <1>t, RecIs DEF ActorType
<1>4. u <= spend[c] /\ spend[c] \in Nat BY <1>t, <1>2, <1>3, LevelsAreNat DEF Ahead
<1>5. PICK d, b : d = docs[c] /\ b = docs[c]["budget"] OBVIOUS
<1>6. d \in Document \cup {NoDoc} BY <1>t, <1>5 DEF StoreType
<1>7. d # NoDoc /\ Evaluated(d) =>
        b \in Nat /\ LevelFor(u, b) \in Nat /\ LevelFor(spend[c], b) \in Nat
                  /\ LevelFor(u, b) <= LevelFor(spend[c], b)
  <2> SUFFICES ASSUME d # NoDoc, Evaluated(d)
               PROVE  b \in Nat /\ LevelFor(u, b) \in Nat /\ LevelFor(spend[c], b) \in Nat
                                /\ LevelFor(u, b) <= LevelFor(spend[c], b)
    OBVIOUS
  <2>1. b \in Nat BY <1>5, <1>6, DocFacts DEF Evaluated
  <2> QED BY <1>4, <2>1, LevelForIs
<1>8. ASSUME c \in DOMAIN job'[x].writes PROVE Owed(job'[x].writes[c], spend[c])
  <2>1. c \in DOMAIN Downgrades(job[x].usage) BY <1>1, <1>8
  <2>2. PICK n \in Nat : /\ d # NoDoc /\ d \in Document /\ Evaluated(d) /\ n = LevelFor(u, b)
                         /\ job'[x].writes[c] = WithLevel(d, n)
    BY <1>t, <1>1, <1>3, <1>5, <2>1, DowngradesIs
  <2>3. PICK w : w = job'[x].writes[c] OBVIOUS
  <2>4. w \in Document /\ Level(w) = n /\ SameBudget(d, w) BY <2>2, <2>3, WithLevelIs
  <2>5. Evaluated(w) => w["budget"] = b BY <1>5, <2>4 DEF SameBudget
  <2> QED BY <1>7, <2>2, <2>3, <2>4, <2>5 DEF Owed
<1>9. ASSUME c \notin DOMAIN job'[x].writes PROVE Owed(docs[c], spend[c])
  <2>1. c \in Consumer \ DOMAIN Downgrades(job[x].usage) BY <1>1, <1>9
  <2>2. d # NoDoc /\ Evaluated(d) => Level(d) = LevelFor(u, b)
    BY <1>t, <1>3, <1>5, <2>1, DowngradesIs
  <2> QED BY <1>5, <1>7, <2>2 DEF Owed
<1> QED BY <1>1, <1>2, <1>8, <1>9 DEF Ahead

LEMMA ReadBundleAhead ==
  ASSUME ConfigInv, NEW x \in Execution, ReadBundle(x), NEW c \in Consumer, Ahead(x, c)
  PROVE  Ahead(x, c)'
<1>t. ActorType /\ StoreType BY DEF ConfigInv
<1>1. /\ job'[x].pc = "publish" /\ EntryLevel(x, c)' = DocLevel(docs[c])
  BY <1>t, BundleLevel, ReadBundleIs
<1>2. job[x].pc = "bundle" /\ UNCHANGED <<docs, spend>> BY DEF ReadBundle, Running, stores
<1>3. DocLevel(docs[c]) \in Nat BY <1>t, LevelsAreNat
<1> QED BY <1>1, <1>2, <1>3 DEF Ahead

LEMMA WriteLevelAhead ==
  ASSUME ConfigInv, NEW x \in Execution, WriteLevel(x), NEW c \in Consumer,
         OneRuns, \A y \in Execution : Ahead(y, c)
  PROVE  OneRuns' /\ \A y \in Execution : Ahead(y, c)'
<1>t. ActorType /\ StoreType BY DEF ConfigInv
<1>1. PICK e \in Consumer :
           /\ job[x].pc = "levels" /\ e \in DOMAIN job[x].writes
           /\ docs' = [docs EXCEPT ![e] = job[x].writes[e]]
           /\ \A y \in Execution : y # x => SameJob(y, e)
           /\ job'[x].pc \in {"bundle", "levels"}
           /\ \A f \in DOMAIN job'[x].writes :
                f # e /\ f \in DOMAIN job[x].writes /\ job'[x].writes[f] = job[x].writes[f]
           /\ DOMAIN job'[x].writes = DOMAIN job[x].writes \ {e}
           /\ job'[x].pc = "bundle" => DOMAIN job'[x].writes = {}
  BY <1>t, WriteLevelIs
<1>2. UNCHANGED spend BY DEF WriteLevel
<1>3. docs'[e] = job[x].writes[e] /\ \A f \in Consumer : f # e => docs'[f] = docs[f]
  BY <1>t, <1>1 DEF StoreType
<1>4. \A y \in Execution : y # x => job[y].pc = "idle" /\ job'[y].pc = "idle"
  BY <1>1 DEF OneRuns, SameJob
<1>5. OneRuns' BY <1>4 DEF OneRuns
<1>6. Ahead(x, c) OBVIOUS
<1>7. ASSUME c \notin DOMAIN job'[x].writes PROVE Owed(docs'[c], spend'[c])
  <2>1. CASE c = e BY <1>1, <1>2, <1>3, <1>6, <2>1 DEF Ahead
  <2>2. CASE c # e BY <1>1, <1>2, <1>3, <1>6, <1>7, <2>2 DEF Ahead
  <2> QED BY <2>1, <2>2
<1>8. c \in DOMAIN job'[x].writes => Owed(job'[x].writes[c], spend'[c])
  BY <1>1, <1>2, <1>6 DEF Ahead
<1>9. Ahead(x, c)' BY <1>1, <1>7, <1>8 DEF Ahead
<1> QED BY <1>4, <1>5, <1>9, NotAhead

(* Only an execution that runs alone makes consumers fresh, and the end of *)
(* it, or the start of another, unmakes them.                              *)
LEMMA JobStepsFresh ==
  ASSUME ConfigInv, FreshInv, NEW x \in Execution,
         ExecutionStep(x) \/ ExecutionFails(x)
  PROVE  FreshInv'
<1>t. ActorType /\ StoreType BY DEF ConfigInv
<1>f. ASSUME NEW c \in fresh
      PROVE  c \in Consumer /\ OneRuns /\ \A y \in Execution : Ahead(y, c)
  BY DEF FreshInv
<1>0. CASE fresh' = {} BY <1>0 DEF FreshInv
<1>1. CASE StartExecution(x) /\ fresh' # {}
  <2>1. Moved(x) /\ job'[x].pc = "global" BY <1>t, <1>1, StartIs
  <2>2. Alone(x) /\ fresh' = fresh BY <1>1 DEF StartExecution, Relieve, FreshInv
  <2>3. \A y \in Execution : y # x => job[y].pc = "idle" BY <2>2 DEF Alone, Running
  <2>4. UNCHANGED <<docs, spend>> BY <1>1 DEF StartExecution, stores
  <2>5. ASSUME NEW c \in fresh PROVE OneRuns' /\ \A y \in Execution : Ahead(y, c)'
    BY <1>f, <2>1, <2>3, <2>4, NotAhead, QuietAhead
  <2> QED BY <2>2, <2>5 DEF FreshInv
<1>2. CASE ReadGlobal(x) \/ WriteNamed(x)
  <2>1. Moved(x) /\ job'[x].pc \in {"seed", "usage", "named"} /\ job[x].pc # "idle"
    BY <1>t, <1>2, ReadGlobalIs, WriteNamedIs DEF ReadGlobal, WriteNamed, Running
  <2>2. UNCHANGED <<docs, spend, fresh>> BY <1>2 DEF ReadGlobal, WriteNamed, stores, levels
  <2>3. ASSUME NEW c \in fresh PROVE OneRuns' /\ \A y \in Execution : Ahead(y, c)'
    BY <1>f, <2>1, <2>2, NotAhead, QuietAhead
  <2> QED BY <2>2, <2>3 DEF FreshInv
<1>3. CASE SeedGlobal(x)
  <2>1. /\ job[x].pc = "seed" /\ \A y \in Execution : y # x => SameJob(y, "global")
        /\ job'[x].pc \in {"usage", "named"}
    BY <1>t, <1>3, SeedGlobalIs
  <2>2. UNCHANGED fresh BY <1>3 DEF SeedGlobal, levels
  <2>3. ASSUME NEW c \in fresh PROVE OneRuns' /\ \A y \in Execution : Ahead(y, c)'
    <3>1. \A y \in Execution : y # x => job[y].pc = "idle" /\ job'[y].pc = "idle"
      BY <1>f, <2>1 DEF OneRuns, SameJob
    <3> QED BY <2>1, <3>1, NotAhead DEF OneRuns
  <2> QED BY <2>2, <2>3 DEF FreshInv
<1>4. CASE QueryUsage(x) /\ fresh' # {}
  <2>1. /\ Moved(x) /\ fresh' = Consumer /\ Alone(x)
        /\ job'[x].pc = "docs" /\ job'[x].usage = spend
    BY <1>t, <1>4, QueryIs
  <2>2. \A y \in Execution : y # x => job'[y].pc = "idle"
    BY <2>1 DEF Moved, Alone, Running
  <2>3. UNCHANGED spend BY <1>4 DEF QueryUsage, stores
  <2>4. ASSUME NEW c \in Consumer PROVE \A y \in Execution : Ahead(y, c)'
    <3>1. spend[c] \in Nat BY <1>t, LevelsAreNat
    <3>2. Ahead(x, c)' BY <2>1, <2>3, <3>1 DEF Ahead
    <3> QED BY <2>2, <3>2, NotAhead
  <2> QED BY <2>1, <2>2, <2>4 DEF FreshInv, OneRuns
<1>5. CASE ReadDocs(x) \/ ReadBundle(x)
  <2>1. Moved(x) /\ job[x].pc # "idle"
    BY <1>t, <1>5, ReadDocsIs, ReadBundleIs DEF ReadDocs, ReadBundle, Running
  <2>2. UNCHANGED <<docs, spend, fresh>> BY <1>5 DEF ReadDocs, ReadBundle, stores, levels
  <2>3. ASSUME NEW c \in fresh PROVE OneRuns' /\ \A y \in Execution : Ahead(y, c)'
    <3>1. Ahead(x, c)' BY <1>f, <1>5, ReadDocsAhead, ReadBundleAhead
    <3> QED BY <1>f, <2>1, <2>2, <3>1, QuietAhead
  <2> QED BY <2>2, <2>3 DEF FreshInv
<1>6. CASE WriteLevel(x)
  <2>1. UNCHANGED fresh BY <1>6 DEF WriteLevel, levels
  <2>2. ASSUME NEW c \in fresh PROVE OneRuns' /\ \A y \in Execution : Ahead(y, c)'
    BY <1>f, <1>6, WriteLevelAhead
  <2> QED BY <2>1, <2>2 DEF FreshInv
<1>7. CASE Publish(x) \/ ExecutionFails(x)
  <2>1. fresh' = {} BY <1>7 DEF Publish, ExecutionFails
  <2> QED BY <1>0, <2>1
<1> QED BY <1>0, <1>1, <1>2, <1>3, <1>4, <1>5, <1>6, <1>7 DEF ExecutionStep

(* What the undisturbed execution publishes is right from then on.         *)
LEMMA PublishFresh ==
  ASSUME ConfigInv, FreshInv, NEW x \in Execution, Publish(x), NEW c \in fresh
  PROVE  OneRuns' /\ Calm(c)'
<1>t. ActorType /\ StoreType BY DEF ConfigInv
<1>c. c \in Consumer /\ OneRuns /\ Ahead(x, c) BY DEF FreshInv
<1>1. Moved(x) /\ job'[x].pc = "idle" BY <1>t, EndIs
<1>2. job[x].pc = "publish" /\ bundle' = job[x].entries /\ UNCHANGED <<docs, spend>>
  BY DEF Publish, Running
<1>3. \A y \in Execution : job'[y].pc = "idle" BY <1>c, <1>1, <1>2 DEF OneRuns, Moved
<1>4. PublishedLevel(c)' = EntryLevel(x, c) BY <1>2 DEF PublishedLevel, EntryLevel
<1>5. PublishedLevel(c)' <= DocLevel(docs'[c]) /\ Owed(docs'[c], spend'[c])
  BY <1>c, <1>2, <1>4 DEF Ahead
<1>6. \A y \in Execution : Along(y, c)' BY <1>3, NotAlong
<1> QED BY <1>3, <1>5, <1>6 DEF Calm, OneRuns

LEMMA SpendFresh ==
  ASSUME ConfigInv, FreshInv, NEW e \in Consumer, Spend(e)
  PROVE  FreshInv'
<1>t. ActorType /\ StoreType BY DEF ConfigInv
<1>1. UNCHANGED <<docs, job, fresh>> BY DEF Spend, levels
<1>2. ASSUME NEW c \in fresh, NEW x \in Execution PROVE Ahead(x, c)'
  <2>1. c \in Consumer /\ Ahead(x, c) BY DEF FreshInv
  <2>2. spend[c] \in Nat /\ spend'[c] \in Nat /\ spend[c] <= spend'[c]
    BY <1>t, <2>1 DEF Spend, StoreType
  <2>3. docs[c] \in Document \cup {NoDoc} /\ job[x].usage[c] \in Nat
    BY <1>t, <2>1, LevelsAreNat
  <2>4. Owed(docs[c], spend[c]) => Owed(docs[c], spend'[c]) BY <2>2, <2>3, OwedGrows
  <2>5. ASSUME c \in DOMAIN job[x].writes, Owed(job[x].writes[c], spend[c])
        PROVE  Owed(job[x].writes[c], spend'[c])
    <3>1. job[x].writes \in DocMap BY <1>t, RecIs DEF ActorType
    <3>2. job[x].writes[c] \in Document BY <2>5, <3>1, MapIs
    <3> QED BY <2>2, <2>5, <3>2, OwedGrows
  <2> QED BY <1>1, <2>1, <2>2, <2>3, <2>4, <2>5 DEF Ahead, EntryLevel
<1> QED BY <1>1, <1>2 DEF FreshInv, OneRuns

-----------------------------------------------------------------------------
(* The steps of requests and of the world: each relieves whom it disturbs. *)
LEMMA WritesAlike ==
  ASSUME ConfigInv, NEW r \in Request, Writes(r)
  PROVE  \E C \in SUBSET Consumer :
           /\ Relieve(C) /\ \A y \in Execution : SameRun(y)
           /\ \A c \in Consumer \ C : Alike(docs[c], docs'[c])
<1>t. ActorType /\ StoreType BY DEF ConfigInv
<1>1. PICK z \in Consumer, e \in Edit, d \in Document :
           /\ put[r].pc = "write" /\ z = put[r].consumer /\ e = put[r].body /\ d = put[r].merged
           /\ docs' = [docs EXCEPT ![z] = d]
           /\ \A y \in Execution : SameJob(y, z)
           /\ \A s \in Request : s # r => SamePut(s, z)
           /\ put'[r].pc = "idle"
           /\ ActorType'
           /\ Acknowledges(z, e) \/ Doubts(z, e)
           /\ clobbered' = clobbered \cup IF put[r].stale THEN {z} ELSE {}
           /\ Relieve(IF put[r].stale \/ {"budget", "ladder"} \cap DOMAIN e # {} THEN {z} ELSE {})
  BY <1>t, OverwriteIs
<1>2. PICK C : C = IF put[r].stale \/ {"budget", "ladder"} \cap DOMAIN e # {} THEN {z} ELSE {}
  OBVIOUS
<1>3. docs'[z] = d /\ \A f \in Consumer : f # z => docs'[f] = docs[f]
  BY <1>t, <1>1 DEF StoreType
<1>4. ASSUME NEW c \in Consumer \ C PROVE Alike(docs[c], docs'[c])
  <2>1. CASE c # z BY <1>3, <2>1, AlikeItself
  <2>2. CASE c = z
    <3>1. ~put[r].stale /\ {"budget", "ladder"} \cap DOMAIN e = {} BY <1>2, <2>2
    <3>2. d = Merged(docs[c], e) BY <1>1, <2>2, <3>1 DEF ConfigInv, HeldByPut
    <3>3. docs[c] \in Document \cup {NoDoc} BY <1>t DEF StoreType
    <3>4. docs'[c] = d /\ d # NoDoc BY <1>3, <2>2, DocFacts
    <3>5. /\ DocLevel(d) = DocLevel(docs[c])
          /\ docs[c] = NoDoc => ~Evaluated(d)
          /\ docs[c] # NoDoc => SameBudget(docs[c], d)
      BY <3>1, <3>2, <3>3, MergedIs
    <3> QED BY <3>4, <3>5 DEF Alike
  <2> QED BY <2>1, <2>2
<1>5. \A y \in Execution : SameRun(y) BY <1>1, SameJobRuns
<1>6. C \in SUBSET Consumer /\ Relieve(C) BY <1>1, <1>2
<1> QED BY <1>4, <1>5, <1>6

LEMMA OthersStep ==
  ASSUME ConfigInv, ConfigInv', LevelInv,
         \/ UNCHANGED vars
         \/ \E r \in Request : PutReads(r) \/ PutWrites(r) \/ PutFails(r)
         \/ \E c \in Consumer : DeleteConfig(c)
         \/ EditGlobal \/ Reprice \/ NewDay
  PROVE  LevelInv' /\ UNCHANGED bundle
<1>t. ActorType /\ StoreType /\ StoreType' BY DEF ConfigInv
<1>r. levels' = levels => Relieve({}) BY DEF levels, Relieve
<1>1. ASSUME UNCHANGED <<docs, bundle, spend, levels>>, \A y \in Execution : SameRun(y)
      PROVE  LevelInv' /\ UNCHANGED bundle
  BY <1>t, <1>r, <1>1, AlikeItself, AlikeKeeps
<1>2. ASSUME UNCHANGED job PROVE \A y \in Execution : SameRun(y) BY <1>2 DEF SameRun
<1>3. CASE UNCHANGED vars BY <1>1, <1>2, <1>3 DEF vars, stores
<1>4. ASSUME NEW r \in Request, PutReads(r) \/ PutLost(r) PROVE LevelInv' /\ UNCHANGED bundle
  BY <1>1, <1>2, <1>4 DEF PutReads, PutLost, stores
<1>5. ASSUME NEW r \in Request, Writes(r) PROVE LevelInv' /\ UNCHANGED bundle
  <2>1. PICK C \in SUBSET Consumer :
           /\ Relieve(C) /\ \A y \in Execution : SameRun(y)
           /\ \A c \in Consumer \ C : Alike(docs[c], docs'[c])
    BY <1>5, WritesAlike
  <2>2. UNCHANGED <<bundle, spend>> BY <1>5 DEF Writes
  <2> QED BY <1>t, <2>1, <2>2, AlikeKeeps
<1>6. ASSUME NEW e \in Consumer, DeleteConfig(e) PROVE LevelInv' /\ UNCHANGED bundle
  <2>1. /\ docs' = [docs EXCEPT ![e] = NoDoc] /\ job' = JobsAfterWrite(e)
        /\ Relieve({e}) /\ UNCHANGED <<bundle, spend>>
    BY <1>6 DEF DeleteConfig
  <2>2. \A y \in Execution : SameRun(y) BY <1>t, <2>1, AllAfterWrite, SameJobRuns
  <2>3. \A c \in Consumer \ {e} : Alike(docs[c], docs'[c])
    BY <1>t, <2>1, AlikeItself DEF StoreType
  <2> QED BY <1>t, <2>1, <2>2, <2>3, AlikeKeeps
<1>7. CASE EditGlobal
  <2>1. UNCHANGED <<docs, bundle, spend, levels>> BY <1>7 DEF EditGlobal
  <2>2. \A y \in Execution : SameRun(y) BY <1>t, <1>7, AllAfterWrite, SameJobRuns DEF EditGlobal
  <2> QED BY <1>1, <2>1, <2>2
<1>8. CASE Reprice
  <2>1. PICK s \in [Consumer -> Cost] :
          /\ \A c \in Consumer : s[c] <= spend[c]
          /\ spend' = s /\ Relieve({c \in Consumer : s[c] < spend[c]})
    BY <1>8 DEF Reprice
  <2>2. PICK C : C = {c \in Consumer : s[c] < spend[c]} OBVIOUS
  <2>3. UNCHANGED <<docs, bundle, job>> BY <1>8 DEF Reprice
  <2>4. \A c \in Consumer \ C : spend'[c] = spend[c]
    <3> SUFFICES ASSUME NEW c \in Consumer \ C PROVE s[c] = spend[c] BY <2>1
    <3>1. spend[c] \in Nat /\ s[c] \in Nat BY <1>t DEF StoreType
    <3> QED BY <2>1, <2>2, <3>1
  <2>5. \A c \in Consumer \ C : Alike(docs[c], docs'[c]) BY <2>3, AlikeItself
  <2> QED BY <1>t, <1>2, <2>1, <2>2, <2>3, <2>4, <2>5, AlikeKeeps
<1>9. CASE NewDay
  <2>1. Relieve(Consumer) /\ UNCHANGED <<docs, bundle, job>> BY <1>9 DEF NewDay
  <2> QED BY <1>t, <1>2, <2>1, AlikeKeeps
<1> QED BY <1>3, <1>4, <1>5, <1>6, <1>7, <1>8, <1>9, PutFailsIs

LEMMA LevelStep ==
  ASSUME ConfigInv, ConfigInv', LevelInv, [Next]_vars
  PROVE  /\ LevelInv'
         /\ \A c \in Consumer \ relieved : PublishedLevel(c)' >= PublishedLevel(c)
<1>t. ActorType /\ StoreType BY DEF ConfigInv
<1>i. CalmInv /\ FreshInv BY DEF LevelInv
<1>n. \A c \in Consumer : PublishedLevel(c) \in Nat BY <1>t, LevelsAreNat
<1>b. UNCHANGED bundle => \A c \in Consumer : PublishedLevel(c)' >= PublishedLevel(c)
  BY <1>n DEF PublishedLevel
<1>1. ASSUME NEW x \in Execution,
             \/ StartExecution(x) \/ ReadGlobal(x) \/ WriteNamed(x) \/ QueryUsage(x)
             \/ ReadDocs(x) \/ ReadBundle(x) \/ ExecutionFails(x)
      PROVE  LevelInv' /\ UNCHANGED bundle
  <2>1. CalmInv' BY <1>i, <1>1, JobStepsCalm DEF CalmInv
  <2>2. FreshInv' BY <1>i, <1>1, JobStepsFresh DEF ExecutionStep
  <2>3. UNCHANGED bundle
    BY <1>1 DEF StartExecution, ReadGlobal, WriteNamed, QueryUsage, ReadDocs, ReadBundle,
                ExecutionFails, stores
  <2> QED BY <2>1, <2>2, <2>3 DEF LevelInv
<1>2. ASSUME NEW x \in Execution, Publish(x)
      PROVE  LevelInv' /\ \A c \in Consumer \ relieved : PublishedLevel(c)' >= PublishedLevel(c)
  <2>1. relieved' = relieved \ fresh BY <1>2 DEF Publish
  <2>2. ASSUME NEW c \in Consumer \ relieved
        PROVE  PublishedLevel(c)' >= PublishedLevel(c) /\ OneRuns' /\ Calm(c)'
    BY <1>i, <1>2, PublishCalm DEF CalmInv
  <2>3. ASSUME NEW c \in fresh PROVE OneRuns' /\ Calm(c)' BY <1>i, <1>2, PublishFresh
  <2>4. CalmInv' BY <2>1, <2>2, <2>3 DEF CalmInv
  <2>5. FreshInv' BY <1>i, <1>2, JobStepsFresh DEF ExecutionStep
  <2> QED BY <2>2, <2>4, <2>5 DEF LevelInv
<1>3. ASSUME NEW x \in Execution, WriteLevel(x) \/ SeedGlobal(x)
      PROVE  LevelInv' /\ UNCHANGED bundle
  <2>1. UNCHANGED <<relieved, bundle>> BY <1>3 DEF WriteLevel, SeedGlobal, levels
  <2>2. CalmInv' BY <1>i, <1>3, <2>1, WriteLevelCalm, SeedGlobalCalm DEF CalmInv
  <2>3. FreshInv' BY <1>i, <1>3, JobStepsFresh DEF ExecutionStep
  <2> QED BY <2>1, <2>2, <2>3 DEF LevelInv
<1>4. ASSUME NEW e \in Consumer, Spend(e) PROVE LevelInv' /\ UNCHANGED bundle
  <2>1. UNCHANGED <<relieved, bundle>> BY <1>4 DEF Spend, levels
  <2>2. CalmInv' BY <1>i, <1>4, <2>1, SpendCalm DEF CalmInv
  <2>3. FreshInv' BY <1>i, <1>4, SpendFresh
  <2> QED BY <2>1, <2>2, <2>3 DEF LevelInv
<1>5. CASE \/ UNCHANGED vars
           \/ \E r \in Request : PutReads(r) \/ PutWrites(r) \/ PutFails(r)
           \/ \E c \in Consumer : DeleteConfig(c)
           \/ EditGlobal \/ Reprice \/ NewDay
  BY <1>b, <1>5, OthersStep
<1> QED BY <1>b, <1>1, <1>2, <1>3, <1>4, <1>5 DEF Next, ExecutionStep

(* A downgrade in force is lifted only for a reason that came up since the *)
(* last undisturbed execution published.                                   *)
THEOREM DowngradesStand == Spec => DowngradesHold
<1>1. ConfigInv /\ ConfigInv' /\ LevelInv /\ [Next]_vars =>
        LevelInv' /\ [\A c \in Consumer \ relieved : PublishedLevel(c)' >= PublishedLevel(c)]_vars
  BY LevelStep
<1> QED BY <1>1, ConfigInit, ConfigStep, LevelInit, PTL DEF Spec, DowngradesHold

=============================================================================
