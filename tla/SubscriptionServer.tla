-------------------------- MODULE SubscriptionServer --------------------------
(***************************************************************************)
(* The server's half of the subscription protocol: PacketDispatcher with   *)
(* its cache of responses, SubscriptionManager, and Publisher reduced to   *)
(* the packets it sends.  All of it runs on the Qt main thread, one        *)
(* datagram, timer or frame at a time.                                     *)
(*                                                                         *)
(* There is no clock here.  A subscription lives for thirty seconds after  *)
(* its last renewal, and here may expire at any time.  The cache keeps an  *)
(* answer for ten seconds, while a request is repeated for four: here it   *)
(* may drop an answer once no copy of the request is in flight.  That the  *)
(* oldest of more than 1024 answers goes earlier is not modelled.          *)
(***************************************************************************)
EXTENDS LiveWire

CONSTANT MaxRestarts   (* bound: how often the server is stopped and started *)

ASSUME ServerAssumption == MaxRestarts \in Nat

VARIABLES
  subscriptions,   (* SubscriptionManager::m_subscriptions                 *)
  nextId,          (* SubscriptionManager::m_nextId                        *)
  responses,       (* PacketDispatcher::m_responseCache                    *)
  known,           (* selections whose signals the configuration defines   *)
  restarts,        (* how often the server was restarted                   *)
  issued           (* history: the ids given for requests still in flight  *)

serverVars == <<subscriptions, nextId, responses, known, restarts, issued>>

\* count, the packets sent so far, belongs to no object of the program.
Subscriptions ==
  [id : Ids, to : Ports, selection : Selections, sequence : Ids, count : Nat]
CacheEntries == [request : Requests, response : Answers]

-----------------------------------------------------------------------------
\* tryCachedResponse(): the entry with q's endpoint, type and request id.
CachedFor_Nothing(q) == {}
CachedFor(q) ==
  {e \in responses : /\ e.request.from = q.from
                     /\ e.request.type = q.type
                     /\ e.request.requestId = q.requestId}

\* What is sent for a request found in the cache: the same answer to the same
\* request, an error to a different one under the same number.
Repeated_Anything(e, q) == e.response
Repeated(e, q) ==
  IF e.request = q THEN e.response
  ELSE [type |-> "ErrorResponse", to |-> q.from, code |-> "InvalidRequest"]

\* The subscription a request may act on: the one with its id, for its endpoint.
Addressed_ByIdAlone(q) == {s \in subscriptions : s.id = q.id}
Addressed(q) == {s \in subscriptions : s.id = q.id /\ s.to = q.from}

\* SubscriptionManager::m_nextId of the server that is started next.
FirstId == 1

\* reply(): the answer is kept for the request and sent.
Reply(q, answer) ==
  /\ responses' = responses \cup {[request |-> q, response |-> answer]}
  /\ toClient' = toClient \cup {answer}

SubscribeResponse(q, result, id) ==
  [type |-> "SubscribeResponse", to |-> q.from, requestId |-> q.requestId,
   result |-> result, id |-> id]

UnsubscribeResponse(q, result) ==
  [type |-> "UnsubscribeResponse", to |-> q.from, requestId |-> q.requestId,
   result |-> result]

-----------------------------------------------------------------------------
ServerInit ==
  /\ subscriptions = {} /\ nextId = FirstId /\ responses = {}
  /\ known = Selections /\ restarts = 0 /\ issued = {}

\* dispatch() of a request whose answer is in the cache.
AnswerFromCache(q) ==
  /\ \E e \in CachedFor(q) : toClient' = toClient \cup {Repeated(e, q)}
  /\ UNCHANGED <<toServer, serverVars>>

\* cleanupResponseCache().
DropCachedResponse(e) ==
  /\ e.request \notin toServer
  /\ responses' = responses \ {e}
  /\ issued' = {i \in issued : i.request # e.request}
  /\ UNCHANGED <<wireVars, subscriptions, nextId, known, restarts>>

NewSubscription(q) ==
  [id |-> nextId, to |-> q.from, selection |-> q.selection, sequence |-> 0, count |-> 0]

\* processSubscribeList(): a subscription is created, or refused because the
\* configuration does not define a signal.
Subscribe(q) ==
  /\ q.type = "Subscribe"
  /\ CachedFor(q) = {}
  /\ IF q.selection \in known
     THEN /\ nextId <= MaxIds
          /\ subscriptions' = subscriptions \cup {NewSubscription(q)}
          /\ issued' = issued \cup {[request |-> q, id |-> nextId]}
          /\ nextId' = nextId + 1
          /\ Reply(q, SubscribeResponse(q, "Ok", nextId))
     ELSE /\ Reply(q, SubscribeResponse(q, "InvalidSignal", NoId))
          /\ UNCHANGED <<subscriptions, issued, nextId>>
  /\ UNCHANGED <<toServer, known, restarts>>

\* processUnsubscribe().
Unsubscribe(q) ==
  /\ q.type = "Unsubscribe"
  /\ CachedFor(q) = {}
  /\ subscriptions' = subscriptions \ Addressed(q)
  /\ Reply(q, UnsubscribeResponse(q, IF Addressed(q) = {} THEN "InvalidId" ELSE "Ok"))
  /\ UNCHANGED <<toServer, nextId, known, restarts, issued>>

\* cleanupExpiredSubscriptions(): the renewals of s were lost, or its client has
\* gone.
Expire(s) ==
  /\ subscriptions' = subscriptions \ {s}
  /\ UNCHANGED <<wireVars, nextId, responses, known, restarts, issued>>

\* The number after n: zero is reserved.
NextSequence(n) == IF (n + 1) % SequenceSpan = 0 THEN 1 ELSE (n + 1) % SequenceSpan

\* The packet published next for s.
NextPacket(s) ==
  [type |-> "LiveData", to |-> s.to, id |-> s.id, sequence |-> NextSequence(s.sequence),
   count |-> s.count + 1, valuesOf |-> s.selection]

\* A packet that is no longer in flight when p is published.
Outlived(m, p) ==
  m.type = "LiveData" /\ m.to = p.to /\ m.id = p.id /\ m.count + Lifetime <= p.count

\* Publisher::publishSubscription() of a frame for s.
PublishData(s) ==
  LET p == NextPacket(s)
  IN /\ p.count <= MaxSequence[s.id]
     /\ subscriptions' =
          (subscriptions \ {s}) \cup {[s EXCEPT !.sequence = p.sequence, !.count = p.count]}
     /\ toClient' = {m \in toClient : ~Outlived(m, p)} \cup {p}
     /\ UNCHANGED <<toServer, nextId, responses, known, restarts, issued>>

\* ServerController stops the server and starts another, perhaps with another
\* configuration.  Nothing in flight outlives the seconds this takes; a monitor
\* that waits for an answer repeats its request.
RestartServer ==
  /\ restarts < MaxRestarts
  /\ restarts' = restarts + 1
  /\ known' \in SUBSET Selections
  /\ subscriptions' = {} /\ responses' = {} /\ nextId' = FirstId
  /\ toServer' = {} /\ toClient' = {} /\ issued' = {}

ServerNext ==
  \/ \E q \in toServer : AnswerFromCache(q) \/ Subscribe(q) \/ Unsubscribe(q)
  \/ \E s \in subscriptions : Expire(s) \/ PublishData(s)
  \/ \E e \in responses : DropCachedResponse(e)
  \/ RestartServer

ServerTypeOK ==
  /\ subscriptions \subseteq Subscriptions
  /\ nextId \in Ids
  /\ responses \subseteq CacheEntries
  /\ known \subseteq Selections
  /\ restarts \in 0..MaxRestarts
  /\ issued \subseteq [request : SubscribeRequests, id : Ids]
==============================================================================
