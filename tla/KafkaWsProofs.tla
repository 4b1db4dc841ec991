---------------------------- MODULE KafkaWsProofs ----------------------------
(***************************************************************************)
(* What kafka-ws guarantees for every number of sessions, topics, tenants  *)
(* and tickets: tickets are used once per issue, the shared resources      *)
(* follow the sessions, no tenant hears another, and no armed expiration   *)
(* outlives its session but by the known leaks.                            *)
(***************************************************************************)
EXTENDS KafkaWs, FiniteSetTheorems, SequenceTheorems, TLAPS

-----------------------------------------------------------------------------
(* The inductive invariant *)

\* A ticket that Redis holds has an issue nobody has used.
TicketInv == \A k \in Tickets : used[k] <= issued[k] /\ (k \in stored => used[k] < issued[k])

\* A session has its handler once its request is worked off; one that closed without is
\* marked, and one that has it while open was allowed on its topic.
SessionInv(s) ==
    /\ stage[s] # "none" => ws[s] # "none"
    /\ s \in handler => stage[s] = "done"
    /\ s \in early => ws[s] = "closed"
    /\ ws[s] = "closed" /\ s \notin handler => s \in early
    /\ s \in handler /\ ws[s] = "open" => Allowed(s)

SessionsInv == IsFiniteSet(handler) /\ \A s \in Sessions : SessionInv(s)

KwInv ==
    /\ KwTypeOK /\ TicketInv /\ SessionsInv
    /\ SharingFollowsSessions /\ TenantIsolation /\ NoStaleExpiration

-----------------------------------------------------------------------------
(* Lemmas about the sessions a topic serves *)

\* The sessions of a topic are finitely many, with or without a rule.
LEMMA ServedFinite ==
    ASSUME KwTypeOK, SessionsInv, NEW t \in Topics
    PROVE  /\ IsFiniteSet(Served(t))
           /\ \A r : IsFiniteSet({s \in Served(t) : sess[s].rule = r})
<1>1. Served(t) \subseteq handler
    BY DEF Served
<1>2. IsFiniteSet(Served(t))
    BY <1>1, FS_Subset DEF SessionsInv
<1>3. ASSUME NEW r
      PROVE  IsFiniteSet({s \in Served(t) : sess[s].rule = r})
    <2>1. {s \in Served(t) : sess[s].rule = r} \subseteq Served(t)
        OBVIOUS
    <2> QED
        BY <1>2, <2>1, FS_Subset
<1> QED
    BY <1>2, <1>3

\* A step that neither subscribes nor ends a session keeps what is shared.
LEMMA SharingKept ==
    ASSUME KwInv, UNCHANGED <<sess, handler, early, subsVars>>,
           \A s \in Sessions : ws'[s] = "closed" <=> ws[s] = "closed"
    PROVE  SharingFollowsSessions'
<1>1. handler \subseteq Sessions
    BY DEF KwInv, KwTypeOK
<1>2. \A t : Served(t)' = Served(t)
    BY <1>1 DEF Served
<1> QED
    BY <1>2 DEF KwInv, SharingFollowsSessions, subsVars

-----------------------------------------------------------------------------
(* Sessions *)

\* What may happen to a websocket while its session is not ended.
LEMMA CloseType ==
    ASSUME KwTypeOK, NEW s \in Sessions, Close(s)
    PROVE  /\ ws' \in [Sessions -> {"none", "open", "closing", "closed"}]
           /\ \A q \in Sessions : /\ ws'[q] = ws[q] \/ (q = s /\ ws[q] = "open" /\ ws'[q] = "closing")
           /\ ws'[s] # "open"
BY DEF Close, KwTypeOK

\* Steps that change nothing but websockets, in the direction of their end.
LEMMA ClosesKeep ==
    ASSUME KwInv, NEW s \in Sessions, Close(s) \/ UNCHANGED ws,
           UNCHANGED <<stage, sess, handler, early, subsVars, received>>,
           expirationMap' = expirationMap, missed' = missed
    PROVE  SessionsInv' /\ SharingFollowsSessions' /\ TenantIsolation' /\ NoStaleExpiration'
<1>1. \A q \in Sessions : ws'[q] = ws[q] \/ (ws[q] = "open" /\ ws'[q] = "closing")
    BY CloseType DEF KwInv
<1>2. SessionsInv'
    BY <1>1 DEF KwInv, SessionsInv, SessionInv, Allowed
<1>3. SharingFollowsSessions'
    BY <1>1, SharingKept
<1>4. TenantIsolation'
    BY DEF KwInv, TenantIsolation
<1>5. NoStaleExpiration'
    BY <1>1 DEF KwInv, NoStaleExpiration, KwTypeOK
<1> QED
    BY <1>2, <1>3, <1>4, <1>5

LEMMA AdmitInv ==
    ASSUME KwInv, NEW s \in Sessions, Admit(s)
    PROVE  KwInv'
<1> USE DEF KwInv
<1>1. /\ ws[s] = "none" /\ ws' = [ws EXCEPT ![s] = "open"] /\ stage' = [stage EXCEPT ![s] = "admitted"]
      /\ UNCHANGED <<ticketVars, sess, handler, early, subsVars, expireVars, linkVars, received>>
    BY DEF Admit
<1>2. KwTypeOK'
    BY <1>1 DEF KwTypeOK, ticketVars, subsVars, expireVars, linkVars
<1>3. stage[s] = "none" /\ s \notin handler
    BY <1>1 DEF SessionsInv, SessionInv
<1>4. SessionsInv'
    BY <1>1, <1>3 DEF SessionsInv, SessionInv, KwTypeOK, Allowed
<1>5. SharingFollowsSessions'
    BY <1>1, SharingKept DEF KwTypeOK
<1>6. TicketInv' /\ TenantIsolation' /\ NoStaleExpiration'
    BY <1>1 DEF TicketInv, TenantIsolation, NoStaleExpiration, KwTypeOK, ticketVars, expireVars
<1> QED
    BY <1>2, <1>4, <1>5, <1>6

LEMMA RedeemInv ==
    ASSUME KwInv, NEW s \in Sessions, Redeem(s)
    PROVE  KwInv'
<1> USE DEF KwInv
<1> DEFINE k == sess[s].ticket
<1>1. PICK valid \in BOOLEAN : Introspect(s, k, valid)
    BY DEF Redeem
<1>2. /\ stage[s] = "admitted" /\ stored' = stored \ {k}
      /\ UNCHANGED <<issued, sess, handler, early, subsVars, expireVars, linkVars, received>>
    BY DEF Redeem
<1>3. k \in Tickets
    BY DEF KwTypeOK, SessRequest
<1> HIDE DEF k
<1>4. \/ k \in stored /\ used' = [used EXCEPT ![k] = @ + 1] /\ UNCHANGED ws
      \/ Close(s) /\ UNCHANGED used
    BY <1>1 DEF Introspect
<1>5. stage' = [stage EXCEPT ![s] = "redeemed"] \/ stage' = [stage EXCEPT ![s] = "done"]
    BY <1>1 DEF Introspect
<1>6. /\ ws' \in [Sessions -> {"none", "open", "closing", "closed"}]
      /\ \A q \in Sessions : ws'[q] = ws[q] \/ (ws[q] = "open" /\ ws'[q] = "closing")
    BY <1>4, CloseType DEF KwTypeOK
<1>7. used' \in [Tickets -> Nat] /\ TicketInv'
    BY <1>2, <1>3, <1>4 DEF TicketInv, KwTypeOK
<1>8. stage' \in [Sessions -> {"none", "admitted", "redeemed", "done"}]
    BY <1>5 DEF KwTypeOK
<1>9. KwTypeOK'
    BY <1>2, <1>6, <1>7, <1>8 DEF KwTypeOK, subsVars, expireVars, linkVars
<1>10. s \notin handler /\ ws[s] # "none"
    BY <1>2 DEF SessionsInv, SessionInv
<1>11. SessionsInv'
    BY <1>2, <1>5, <1>6, <1>10 DEF SessionsInv, SessionInv, KwTypeOK, Allowed
<1>12. SharingFollowsSessions'
    BY <1>2, <1>6, SharingKept
<1>13. TenantIsolation' /\ NoStaleExpiration'
    BY <1>2, <1>6 DEF TenantIsolation, NoStaleExpiration, KwTypeOK, expireVars
<1> QED
    BY <1>7, <1>9, <1>11, <1>12, <1>13

\* What a session that is connected adds to the sessions its topic serves, and to nothing else.
LEMMA ServedGrows ==
    ASSUME KwInv, NEW s \in Sessions, Connect(s), sess[s].wellFormed
    PROVE  /\ s \notin Served(sess[s].topic)
           /\ \A t \in Topics : Served(t)' = IF t = sess[s].topic THEN Served(t) \cup {s} ELSE Served(t)
<1> USE DEF KwInv
<1>1. handler' = handler \cup {s} /\ UNCHANGED <<sess, early>> /\ stage[s] = "redeemed"
    BY DEF Connect
<1>2. s \notin handler /\ (ws[s] = "closed" => s \in early) /\ handler \subseteq Sessions
    BY <1>1 DEF SessionsInv, SessionInv, KwTypeOK
<1>3. \A q \in Sessions : ws'[q] = "closed" <=> ws[q] = "closed"
    BY CloseType DEF Connect
<1> HIDE DEF KwInv
<1>4. ASSUME NEW t, NEW q \in Sessions
      PROVE  q \in Served(t)' <=> q \in Served(t) \/ (q = s /\ t = sess[s].topic)
    BY <1>1, <1>2, <1>3, <1>4 DEF Served
<1>5. \A t : Served(t) \subseteq Sessions /\ Served(t)' \subseteq Sessions
    BY <1>1, <1>2 DEF Served
<1>6. s \notin Served(sess[s].topic)
    BY <1>2 DEF Served
<1>7. ASSUME NEW t \in Topics
      PROVE  Served(t)' = IF t = sess[s].topic THEN Served(t) \cup {s} ELSE Served(t)
    BY <1>4, <1>5
<1> QED
    BY <1>6, <1>7

\* A session that ends with its handler is served no more, and was until then.
LEMMA ServedShrinks ==
    ASSUME KwInv, NEW s \in Sessions, CloseEvent(s), s \in handler
    PROVE  /\ s \in Served(sess[s].topic)
           /\ \A t \in Topics : Served(t)' = IF t = sess[s].topic THEN Served(t) \ {s} ELSE Served(t)
<1> USE DEF KwInv
<1>1. UNCHANGED <<sess, early, handler>> /\ ws[s] = "closing" /\ ws' = [ws EXCEPT ![s] = "closed"]
    BY DEF CloseEvent
<1>2. s \notin early /\ handler \subseteq Sessions
    BY <1>1 DEF SessionsInv, SessionInv, KwTypeOK
<1>3. ws'[s] = "closed" /\ \A q \in Sessions \ {s} : ws'[q] = ws[q]
    BY <1>1 DEF KwTypeOK
<1> HIDE DEF KwInv
<1>4. ASSUME NEW t, NEW q \in Sessions
      PROVE  q \in Served(t)' <=> q \in Served(t) /\ ~(q = s /\ t = sess[s].topic)
    BY <1>1, <1>2, <1>3 DEF Served
<1>5. \A t : Served(t) \subseteq Sessions /\ Served(t)' \subseteq Sessions
    BY <1>1, <1>2 DEF Served
<1>6. s \in Served(sess[s].topic)
    BY <1>1 DEF Served
<1>7. ASSUME NEW t \in Topics
      PROVE  Served(t)' = IF t = sess[s].topic THEN Served(t) \ {s} ELSE Served(t)
    BY <1>4, <1>5
<1> QED
    BY <1>6, <1>7

\* The sessions of a topic that share a rule.
Users(t, r) == {q \in Served(t) : sess[q].rule = r}

\* The count of a rule follows a session that comes ...
LEMMA CountGrows ==
    ASSUME KwInv, UNCHANGED sess, NEW t \in Topics, NEW r \in Rules, NEW s, s \notin Served(t),
           Served(t)' = Served(t) \cup {s}
    PROVE  Cardinality(Users(t, r))' =
               IF sess[s].rule = r THEN Cardinality(Users(t, r)) + 1 ELSE Cardinality(Users(t, r))
<1>1. IsFiniteSet(Users(t, r)) /\ s \notin Users(t, r)
    BY ServedFinite DEF Users, KwInv
<1>2. CASE sess[s].rule = r
    <2>1. Users(t, r)' = Users(t, r) \cup {s}
        BY <1>2 DEF Users
    <2> QED
        BY <1>1, <1>2, <2>1, FS_AddElement
<1>3. CASE sess[s].rule # r
    <2>1. Users(t, r)' = Users(t, r)
        BY <1>3 DEF Users
    <2> QED
        BY <1>3, <2>1
<1> QED
    BY <1>2, <1>3

\* ... and one that goes, which it counted.
LEMMA CountShrinks ==
    ASSUME KwInv, UNCHANGED sess, NEW t \in Topics, NEW r \in Rules, NEW s \in Served(t),
           Served(t)' = Served(t) \ {s}
    PROVE  /\ Cardinality(Users(t, r))' =
                  IF sess[s].rule = r THEN Cardinality(Users(t, r)) - 1 ELSE Cardinality(Users(t, r))
           /\ sess[s].rule = r => Cardinality(Users(t, r)) > 0
<1>1. IsFiniteSet(Users(t, r))
    BY ServedFinite DEF Users, KwInv
<1>2. CASE sess[s].rule = r
    <2>1. Users(t, r)' = Users(t, r) \ {s} /\ s \in Users(t, r)
        BY <1>2 DEF Users
    <2>2. Cardinality(Users(t, r)) \in Nat /\ Cardinality(Users(t, r)) # 0
        BY <1>1, <2>1, FS_CardinalityType, FS_EmptySet
    <2>3. Cardinality(Users(t, r) \ {s}) = Cardinality(Users(t, r)) - 1
        BY <1>1, <2>1, FS_RemoveElement
    <2>4. Cardinality(Users(t, r))' = Cardinality(Users(t, r)) - 1
        BY <2>1, <2>3
    <2> QED
        BY <1>2, <2>2, <2>4
<1>3. CASE sess[s].rule # r
    <2>1. Users(t, r)' = Users(t, r)
        BY <1>3 DEF Users
    <2> QED
        BY <1>3, <2>1
<1> QED
    BY <1>2, <1>3

\* A rule of the topics is counted for its topic.
LEMMA RuleOf ==
    ASSUME KwTypeOK, NEW s \in Sessions
    PROVE  sess[s].topic \in Topics /\ sess[s].rule \in Rules
BY DEF KwTypeOK, SessRequest

LEMMA ConnectSharing ==
    ASSUME KwInv, NEW s \in Sessions, Connect(s)
    PROVE  SharingFollowsSessions' /\ rules' \in [Topics \X Rules -> Nat]
<1> USE DEF KwInv
<1>1. CASE ~sess[s].wellFormed
    <2>1. UNCHANGED <<sess, handler, early, subsVars>>
        BY <1>1 DEF Connect
    <2>2. \A q \in Sessions : ws'[q] = "closed" <=> ws[q] = "closed"
        BY CloseType DEF Connect
    <2> QED
        BY <2>1, <2>2, SharingKept DEF KwTypeOK, subsVars
<1>2. CASE sess[s].wellFormed
    <2> DEFINE t == sess[s].topic
               u == sess[s].rule
    <2>1. t \in Topics /\ u \in Rules
        BY RuleOf
    <2>2. /\ rules' = [rules EXCEPT ![<<t, u>>] = @ + 1] /\ registered' = registered \cup {t}
          /\ topicMap' = [topicMap EXCEPT ![t] = @ \cup {s}] /\ UNCHANGED sess
        BY <1>2 DEF Connect, Subscribe
    <2>3. /\ s \notin Served(t)
          /\ \A o \in Topics : Served(o)' = IF o = t THEN Served(o) \cup {s} ELSE Served(o)
        BY <1>2, <2>2, ServedGrows
    <2>0. sess[s].rule = u
        OBVIOUS
    <2> HIDE DEF t, u
    <2>4. rules' \in [Topics \X Rules -> Nat]
        BY <2>1, <2>2 DEF KwTypeOK
    <2>5. ASSUME NEW o \in Topics
          PROVE  topicMap'[o] = Served(o)' /\ (o \in registered' <=> Served(o)' # {})
        <3>1. topicMap[o] = Served(o) /\ (o \in registered <=> Served(o) # {})
            BY DEF SharingFollowsSessions
        <3>2. topicMap'[o] = IF o = t THEN topicMap[o] \cup {s} ELSE topicMap[o]
            BY <2>1, <2>2 DEF KwTypeOK
        <3>3. o \in registered' <=> o \in registered \/ o = t
            BY <2>1, <2>2 DEF KwTypeOK
        <3> QED
            BY <2>1, <2>3, <3>1, <3>2, <3>3
    <2>6. ASSUME NEW o \in Topics, NEW r \in Rules
          PROVE  rules'[<<o, r>>] = Cardinality(Users(o, r))'
        <3>1. rules[<<o, r>>] = Cardinality(Users(o, r)) /\ Cardinality(Users(o, r)) \in Nat
            BY ServedFinite, FS_CardinalityType DEF SharingFollowsSessions, Users
        <3>2. CASE o = t
            <4>1. Cardinality(Users(o, r))' = IF u = r THEN Cardinality(Users(o, r)) + 1 ELSE Cardinality(Users(o, r))
                BY <2>0, <2>2, <2>3, <3>2, CountGrows
            <4>2. rules'[<<o, r>>] = IF u = r THEN rules[<<o, r>>] + 1 ELSE rules[<<o, r>>]
                BY <2>1, <2>2, <3>2 DEF KwTypeOK
            <4> QED
                BY <3>1, <4>1, <4>2
        <3>3. CASE o # t
            <4>1. Users(o, r)' = Users(o, r)
                BY <2>2, <2>3, <3>3 DEF Users
            <4>2. rules'[<<o, r>>] = rules[<<o, r>>]
                BY <2>1, <2>2, <3>3 DEF KwTypeOK
            <4> QED
                BY <3>1, <4>1, <4>2
        <3> QED
            BY <3>2, <3>3
    <2> QED
        BY <2>4, <2>5, <2>6 DEF SharingFollowsSessions, Users
<1> QED
    BY <1>1, <1>2

LEMMA CloseEventSharing ==
    ASSUME KwInv, NEW s \in Sessions, CloseEvent(s)
    PROVE  SharingFollowsSessions' /\ rules' \in [Topics \X Rules -> Nat]
<1> USE DEF KwInv
<1>1. CASE s \notin handler
    <2>1. /\ UNCHANGED <<sess, handler, subsVars>> /\ early' = early \cup {s}
          /\ ws' = [ws EXCEPT ![s] = "closed"] /\ handler \subseteq Sessions
        BY <1>1 DEF CloseEvent, KwTypeOK
    <2>2. \A q \in handler : /\ (ws'[q] = "closed" <=> ws[q] = "closed")
                             /\ (q \in early' <=> q \in early)
        BY <1>1, <2>1 DEF KwTypeOK
    <2>3. \A t : Served(t)' = Served(t)
        BY <2>1, <2>2 DEF Served
    <2> QED
        BY <2>1, <2>3 DEF SharingFollowsSessions, KwTypeOK, subsVars
<1>2. CASE s \in handler
    <2> DEFINE t == sess[s].topic
               u == sess[s].rule
    <2>1. t \in Topics /\ u \in Rules
        BY RuleOf
    <2>2. /\ rules' = [rules EXCEPT ![<<t, u>>] = @ - 1] /\ UNCHANGED sess
          /\ registered' = IF topicMap[t] \ {s} = {} THEN registered \ {t} ELSE registered
          /\ topicMap' = [topicMap EXCEPT ![t] = topicMap[t] \ {s}]
        BY <1>2 DEF CloseEvent, Unsubscribe
    <2>3. /\ s \in Served(t)
          /\ \A o \in Topics : Served(o)' = IF o = t THEN Served(o) \ {s} ELSE Served(o)
        BY <1>2, <2>2, ServedShrinks
    <2>0. sess[s].rule = u
        OBVIOUS
    <2> HIDE DEF t, u
    <2>4. ASSUME NEW o \in Topics
          PROVE  topicMap'[o] = Served(o)' /\ (o \in registered' <=> Served(o)' # {})
        <3>1. topicMap[o] = Served(o) /\ (o \in registered <=> Served(o) # {})
            BY DEF SharingFollowsSessions
        <3>2. topicMap'[o] = IF o = t THEN topicMap[o] \ {s} ELSE topicMap[o]
            BY <2>1, <2>2 DEF KwTypeOK
        <3>3. o \in registered' <=> o \in registered /\ (o = t => topicMap[o] \ {s} # {})
            BY <2>1, <2>2 DEF KwTypeOK
        <3> QED
            BY <2>1, <2>3, <3>1, <3>2, <3>3
    <2>5. ASSUME NEW o \in Topics, NEW r \in Rules
          PROVE  /\ rules'[<<o, r>>] = Cardinality(Users(o, r))'
                 /\ o = t /\ r = u => rules[<<o, r>>] > 0
        <3>1. rules[<<o, r>>] = Cardinality(Users(o, r)) /\ Cardinality(Users(o, r)) \in Nat
            BY ServedFinite, FS_CardinalityType DEF SharingFollowsSessions, Users
        <3>2. CASE o = t
            <4>1. /\ Cardinality(Users(o, r))' = IF u = r THEN Cardinality(Users(o, r)) - 1 ELSE Cardinality(Users(o, r))
                  /\ u = r => Cardinality(Users(o, r)) > 0
                BY <2>0, <2>2, <2>3, <3>2, CountShrinks
            <4>2. rules'[<<o, r>>] = IF u = r THEN rules[<<o, r>>] - 1 ELSE rules[<<o, r>>]
                BY <2>1, <2>2, <3>2 DEF KwTypeOK
            <4> QED
                BY <3>1, <4>1, <4>2
        <3>3. CASE o # t
            <4>1. Users(o, r)' = Users(o, r)
                BY <2>2, <2>3, <3>3 DEF Users
            <4>2. rules'[<<o, r>>] = rules[<<o, r>>]
                BY <2>1, <2>2, <3>3 DEF KwTypeOK
            <4> QED
                BY <3>1, <3>3, <4>1, <4>2
        <3> QED
            BY <3>2, <3>3
    <2>6. rules' \in [Topics \X Rules -> Nat]
        <3>1. rules[<<t, u>>] \in Nat /\ rules[<<t, u>>] > 0
            BY <2>1, <2>5 DEF KwTypeOK
        <3> QED
            BY <2>1, <2>2, <3>1 DEF KwTypeOK
    <2> QED
        BY <2>4, <2>5, <2>6 DEF SharingFollowsSessions, Users
<1> QED
    BY <1>1, <1>2

LEMMA ConnectInv ==
    ASSUME KwInv, NEW s \in Sessions, Connect(s)
    PROVE  KwInv'
<1> USE DEF KwInv
<1>1. /\ stage[s] = "redeemed" /\ stage' = [stage EXCEPT ![s] = "done"]
      /\ handler' = (IF sess[s].wellFormed THEN handler \cup {s} ELSE handler)
      /\ UNCHANGED <<ticketVars, sess, early, linkVars, received, notices>>
      /\ Close(s) \/ (Allowed(s) /\ UNCHANGED ws)
    BY DEF Connect, ArmExpiration
<1>2. /\ ws' \in [Sessions -> {"none", "open", "closing", "closed"}]
      /\ \A q \in Sessions : ws'[q] = ws[q] \/ (ws[q] = "open" /\ ws'[q] = "closing")
      /\ ws'[s] = "open" => Allowed(s)
    BY <1>1, CloseType DEF KwTypeOK
<1>3. expirationMap' \in {expirationMap, expirationMap \cup {s}} /\ missed \subseteq missed'
    BY DEF Connect, ArmExpiration
<1>4. s \notin handler /\ (ws[s] = "closed" => s \in early) /\ ws[s] # "none"
    BY <1>1 DEF SessionsInv, SessionInv
<1>5. KwTypeOK'
    <2>1. stage' \in [Sessions -> {"none", "admitted", "redeemed", "done"}]
        BY <1>1 DEF KwTypeOK
    <2>2. /\ keys' \in [Sessions -> {"none", "set", "expired"}]
          /\ missed' \subseteq Sessions /\ expirationMap' \subseteq Sessions
        BY DEF Connect, ArmExpiration, KwTypeOK
    <2>3. topicMap' \in [Topics -> SUBSET Sessions] /\ registered' \subseteq Topics
        BY RuleOf DEF Connect, Subscribe, subsVars, KwTypeOK
    <2> QED
        BY <1>1, <1>2, <2>1, <2>2, <2>3, ConnectSharing DEF KwTypeOK, ticketVars, linkVars
<1>6. SessionsInv'
    <2>1. IsFiniteSet(handler')
        BY <1>1, FS_AddElement DEF SessionsInv
    <2>2. ASSUME NEW q \in Sessions
          PROVE  SessionInv(q)'
        BY <1>1, <1>2, <1>4, <2>2 DEF SessionsInv, SessionInv, KwTypeOK, Allowed
    <2> QED
        BY <2>1, <2>2 DEF SessionsInv
<1>7. TicketInv' /\ TenantIsolation'
    BY <1>1 DEF TicketInv, TenantIsolation, ticketVars
<1>8. NoStaleExpiration'
    BY <1>1, <1>2, <1>3, <1>4 DEF NoStaleExpiration, KwTypeOK
<1> QED
    BY <1>5, <1>6, <1>7, <1>8, ConnectSharing

LEMMA CloseEventInv ==
    ASSUME KwInv, NEW s \in Sessions, CloseEvent(s)
    PROVE  KwInv'
<1> USE DEF KwInv
<1>1. /\ ws[s] = "closing" /\ ws' = [ws EXCEPT ![s] = "closed"]
      /\ UNCHANGED <<ticketVars, stage, sess, handler, linkVars, received, notices>>
      /\ early' = (IF s \in handler THEN early ELSE early \cup {s})
    BY DEF CloseEvent, DisarmExpiration, expireVars
<1>2. /\ ws' \in [Sessions -> {"none", "open", "closing", "closed"}] /\ ws'[s] = "closed"
      /\ \A q \in Sessions \ {s} : ws'[q] = ws[q]
    BY <1>1 DEF KwTypeOK
<1>3. /\ expirationMap' \subseteq expirationMap /\ missed \subseteq missed'
      /\ s \in expirationMap' => s \in early' \cup missed'
    BY <1>1 DEF CloseEvent, DisarmExpiration, expireVars
<1>4. KwTypeOK'
    <2>1. /\ keys' \in [Sessions -> {"none", "set", "expired"}]
          /\ missed' \subseteq Sessions /\ early' \subseteq Sessions
        BY <1>1 DEF CloseEvent, DisarmExpiration, expireVars, KwTypeOK
    <2>2. topicMap' \in [Topics -> SUBSET Sessions] /\ registered' \subseteq Topics
        BY RuleOf DEF CloseEvent, Unsubscribe, subsVars, KwTypeOK
    <2> QED
        BY <1>1, <1>2, <1>3, <2>1, <2>2, CloseEventSharing DEF KwTypeOK, ticketVars, linkVars
<1>5. SessionsInv'
    BY <1>1, <1>2 DEF SessionsInv, SessionInv, Allowed
<1>6. TicketInv' /\ TenantIsolation'
    BY <1>1 DEF TicketInv, TenantIsolation, ticketVars
<1>7. NoStaleExpiration'
    BY <1>1, <1>2, <1>3 DEF NoStaleExpiration, KwTypeOK
<1> QED
    BY <1>4, <1>5, <1>6, <1>7, CloseEventSharing

-----------------------------------------------------------------------------
(* Tickets, messages, expirations and connections *)

LEMMA TicketsInv ==
    ASSUME KwInv, NEW k \in Tickets, IssueTicket(k) \/ TicketExpires(k)
    PROVE  KwInv'
<1> USE DEF KwInv
<1>1. UNCHANGED <<used, sessVars, subsVars, expireVars, linkVars, received>>
    BY DEF IssueTicket, TicketExpires
<1>2. KwTypeOK' /\ TicketInv'
    BY <1>1 DEF IssueTicket, TicketExpires, KwTypeOK, TicketInv, sessVars, subsVars, expireVars, linkVars
<1>3. SessionsInv' /\ TenantIsolation' /\ NoStaleExpiration'
    BY <1>1 DEF SessionsInv, SessionInv, Allowed, TenantIsolation, NoStaleExpiration, sessVars, expireVars
<1>4. SharingFollowsSessions'
    BY <1>1, SharingKept DEF sessVars
<1> QED
    BY <1>2, <1>3, <1>4

LEMMA ClosesInv ==
    ASSUME KwInv, NEW s \in Sessions, ClientCloses(s) \/ OnExpired(s)
    PROVE  KwInv'
<1> USE DEF KwInv
<1>1. /\ Close(s) \/ UNCHANGED ws
      /\ UNCHANGED <<ticketVars, stage, sess, handler, early, subsVars, expirationMap, keys, missed, linkVars, received>>
      /\ notices' \subseteq notices
    BY DEF ClientCloses, OnExpired, expireVars
<1>2. ws' \in [Sessions -> {"none", "open", "closing", "closed"}]
    BY <1>1, CloseType DEF KwTypeOK
<1>3. KwTypeOK' /\ TicketInv'
    BY <1>1, <1>2 DEF KwTypeOK, TicketInv, ticketVars, subsVars, linkVars
<1> QED
    BY <1>1, <1>3, ClosesKeep

\* A message is sent to sessions that are open, and so were allowed on their topic.
LEMMA DeliverInv ==
    ASSUME KwInv, NEW t \in Topics, NEW M \in SUBSET Rules, Deliver(t, M)
    PROVE  KwInv'
<1> USE DEF KwInv
<1>1. UNCHANGED <<ticketVars, sessVars, subsVars, expireVars, linkVars>>
    BY DEF Deliver
<1>2. \A s \in Sessions :
        \/ received'[s] = received[s]
        \/ received'[s] = received[s] \cup {t} /\ s \in topicMap[t] /\ ws[s] = "open"
    BY DEF Deliver, KwTypeOK
<1>3. \A s \in topicMap[t] : ws[s] = "open" => TenantOf[t] = HolderOf[sess[s].ticket]
    BY DEF SharingFollowsSessions, Served, SessionsInv, SessionInv, Allowed, KwTypeOK
<1>4. TenantIsolation'
    BY <1>1, <1>2, <1>3 DEF TenantIsolation, sessVars
<1>5. received' \in [Sessions -> SUBSET Topics]
    BY DEF Deliver, KwTypeOK
<1>6. KwTypeOK' /\ TicketInv'
    BY <1>1, <1>5 DEF KwTypeOK, TicketInv, ticketVars, sessVars, subsVars, expireVars, linkVars
<1>7. SessionsInv' /\ NoStaleExpiration'
    BY <1>1 DEF SessionsInv, SessionInv, Allowed, NoStaleExpiration, sessVars, expireVars
<1>8. SharingFollowsSessions'
    BY <1>1, SharingKept DEF sessVars
<1> QED
    BY <1>4, <1>6, <1>7, <1>8

\* What happens to keys and connections while nothing happens to sessions.
LEMMA LinksInv ==
    ASSUME KwInv, UNCHANGED <<ticketVars, sessVars, subsVars, expirationMap, received>>,
           missed \subseteq missed', missed' \subseteq Sessions, notices' \subseteq Sessions,
           keys' \in [Sessions -> {"none", "set", "expired"}],
           pub' \in {"down", "up"}, sub' \in {"down", "connected", "up"},
           isKafkaAvailable' \in BOOLEAN, faults' \in Nat
    PROVE  KwInv'
<1> USE DEF KwInv
<1>1. KwTypeOK' /\ TicketInv'
    BY DEF KwTypeOK, TicketInv, ticketVars, sessVars, subsVars
<1>2. SessionsInv' /\ TenantIsolation' /\ NoStaleExpiration'
    BY DEF SessionsInv, SessionInv, Allowed, TenantIsolation, NoStaleExpiration, sessVars
<1>3. SharingFollowsSessions'
    BY SharingKept DEF sessVars
<1> QED
    BY <1>1, <1>2, <1>3

-----------------------------------------------------------------------------

LEMMA KwInvInit == KwInit => KwInv
<1> SUFFICES ASSUME KwInit
             PROVE  KwInv
    OBVIOUS
<1>1. KwTypeOK
    BY DEF KwInit, KwTypeOK
<1>2. TicketInv /\ TenantIsolation /\ NoStaleExpiration
    BY DEF KwInit, TicketInv, TenantIsolation, NoStaleExpiration
<1>3. SessionsInv
    BY FS_EmptySet DEF KwInit, SessionsInv, SessionInv
<1>4. SharingFollowsSessions
    <2>1. \A t : Served(t) = {}
        BY DEF KwInit, Served
    <2>2. \A t, r : {s \in Served(t) : sess[s].rule = r} = {}
        BY <2>1
    <2> QED
        BY <2>1, <2>2, FS_EmptySet DEF KwInit, SharingFollowsSessions
<1> QED
    BY <1>1, <1>2, <1>3, <1>4 DEF KwInv

LEMMA KwInvStep == KwInv /\ [KwNext]_kwVars => KwInv'
<1> SUFFICES ASSUME KwInv, [KwNext]_kwVars
             PROVE  KwInv'
    OBVIOUS
<1>1. ASSUME NEW k \in Tickets, IssueTicket(k) \/ TicketExpires(k)
      PROVE  KwInv'
    BY <1>1, TicketsInv
<1>2. ASSUME NEW s \in Sessions, Admit(s) \/ Redeem(s) \/ Connect(s) \/ ClientCloses(s) \/ CloseEvent(s) \/ OnExpired(s)
      PROVE  KwInv'
    BY <1>2, AdmitInv, RedeemInv, ConnectInv, ClosesInv, CloseEventInv
<1>3. ASSUME NEW s \in Sessions, KeyExpires(s)
      PROVE  KwInv'
    BY <1>3, LinksInv DEF KeyExpires, KwInv, KwTypeOK, linkVars
<1>4. ASSUME NEW t \in Topics, NEW M \in SUBSET Rules, Deliver(t, M)
      PROVE  KwInv'
    BY <1>4, DeliverInv
<1>5. CASE LosesPub \/ PubConnects \/ SubConnects \/ LosesKafka \/ KafkaRecovers
    <2>1. UNCHANGED <<ticketVars, sessVars, subsVars, expirationMap, received, missed, notices, keys>>
        BY <1>5 DEF LosesPub, PubConnects, SubConnects, LosesKafka, KafkaRecovers, expireVars
    <2>2. /\ pub' \in {pub, "down", "up"} /\ pub \in {"down", "up"}
          /\ sub' \in {sub, "connected", "up"} /\ sub \in {"down", "connected", "up"}
        <3>1. pub' \in {pub, "down", "up"}
            BY <1>5 DEF LosesPub, PubConnects, SubConnects, LosesKafka, KafkaRecovers
        <3>2. sub' \in {sub, "connected", "up"}
            <4>1. CASE SubConnects
                BY <4>1 DEF SubConnects
            <4>2. CASE LosesPub \/ PubConnects \/ LosesKafka \/ KafkaRecovers
                BY <4>2 DEF LosesPub, PubConnects, LosesKafka, KafkaRecovers
            <4> QED
                BY <1>5, <4>1, <4>2
        <3> QED
            BY <3>1, <3>2 DEF KwInv, KwTypeOK
    <2>3. isKafkaAvailable' \in BOOLEAN /\ faults' \in Nat
        <3>1. CASE LosesPub \/ PubConnects \/ SubConnects
            BY <3>1 DEF LosesPub, PubConnects, SubConnects, KwInv, KwTypeOK
        <3>2. CASE LosesKafka \/ KafkaRecovers
            <4>1. isKafkaAvailable' \in BOOLEAN
                BY <3>2, Zenon DEF LosesKafka, KafkaRecovers
            <4>2. faults' \in {faults, faults + 1} /\ faults \in Nat
                BY <3>2 DEF LosesKafka, KafkaRecovers, KwInv, KwTypeOK
            <4> QED
                BY <4>1, <4>2
        <3> QED
            BY <1>5, <3>1, <3>2
    <2>4. /\ missed \subseteq missed' /\ missed' \subseteq Sessions /\ notices' \subseteq Sessions
          /\ keys' \in [Sessions -> {"none", "set", "expired"}]
        BY <2>1 DEF KwInv, KwTypeOK
    <2> QED
        BY <2>1, <2>2, <2>3, <2>4, LinksInv
<1>6. CASE LosesSub
    BY <1>6, LinksInv DEF LosesSub, KwInv, KwTypeOK
<1>7. CASE UNCHANGED kwVars
    BY <1>7, LinksInv DEF kwVars, expireVars, linkVars, KwInv, KwTypeOK
<1> QED
    BY <1>1, <1>2, <1>3, <1>4, <1>5, <1>6, <1>7 DEF KwNext

LEMMA KwInvAlways == KwSpec => []KwInv
BY KwInvInit, KwInvStep, PTL DEF KwSpec

\* The state of kafka-ws keeps its shape; in particular no count of a rule's users goes below
\* zero, which needs that a session leaves only the rule it shares.
THEOREM KwTypeCorrect == KwSpec => []KwTypeOK
BY KwInvAlways, PTL DEF KwInv

\* No interleaving of requests opens more sessions with a ticket than it was issued.
THEOREM SingleUse == KwSpec => []TicketsAreSingleUse
<1>1. KwInv => TicketsAreSingleUse
    BY DEF KwInv, TicketInv, TicketsAreSingleUse
<1> QED
    BY <1>1, KwInvAlways, PTL

\* The Kafka callback of a topic and the counts of its rules follow the sessions that need them.
THEOREM SharingIsSound == KwSpec => []SharingFollowsSessions
BY KwInvAlways, PTL DEF KwInv

\* Though a session on a foreign topic is subscribed, it is sent nothing.
THEOREM TenantsAreIsolated == KwSpec => []TenantIsolation
BY KwInvAlways, PTL DEF KwInv

\* An armed expiration outlives its session only by a 'close' without a handler or an outage.
THEOREM ExpirationsEnd == KwSpec => []NoStaleExpiration
BY KwInvAlways, PTL DEF KwInv
=============================================================================
