-------------------------- MODULE LiveSession_proofs --------------------------
(***************************************************************************)
(* Proofs about LiveSession for any number of monitors, ports, selections, *)
(* retries and restarts.                                                   *)
(*                                                                         *)
(* Two facts about the server make the invariants of the window inductive: *)
(* an answer that accepts a subscription carries an id, and the cache      *)
(* remembers every request in flight that was given one.                   *)
(*                                                                         *)
(* That no monitor shows the values of other signals rests on a second     *)
(* invariant, DInv: request numbers are not shared, no answer outlives its *)
(* request, and what is promised under an id, by a subscription, a packet  *)
(* of data or an answer still in flight, is one endpoint's one selection.  *)
(***************************************************************************)
EXTENDS LiveSession, TLAPS

-----------------------------------------------------------------------------
(* The inductive invariant. *)

AcceptsWithId(m) == m.type = "SubscribeResponse" /\ m.result = "Ok" => m.id # NoId

\* An answer on its way, or in the cache, that accepts a subscription names it.
AnswersHaveIds ==
  /\ nextId # NoId
  /\ \A m \in toClient : AcceptsWithId(m)
  /\ \A e \in responses : AcceptsWithId(e.response)

\* A request that was given an id is remembered.
Remembered == \A i \in issued : \E e \in responses : e.request = i.request

HasSignals(k) == k.id # NoId \/ k.reconnecting => k.signals # NoSelection

\* A monitor that holds or seeks a subscription knows the signals of it.
SignalsAreKept == \A c \in Clients : HasSignals(clients[c])

IInv ==
  /\ TypeOK
  /\ AnswersHaveIds
  /\ Remembered
  /\ OneSubscriptionPerRequest
  /\ MonitorMatchesConnection
  /\ RecoveryGoesOn
  /\ SignalsAreKept

-----------------------------------------------------------------------------
(* The state of one monitor. *)

\* What the invariant says of one monitor.
Good(k) == k \in ClientStates /\ Matches(k) /\ GoesOn(k) /\ HasSignals(k)

\* Requests and NoRequest are told apart by their type.
LEMMA PendingType ==
  ASSUME NEW k \in ClientStates
  PROVE  /\ k.pending.type \in {"None", "Subscribe", "Unsubscribe"}
         /\ k.pending = NoRequest <=> k.pending.type = "None"
         /\ k.pending # NoRequest => k.pending \in Requests
         /\ k.pending.type = "Subscribe" => k.pending \in SubscribeRequests
BY DEF ClientStates, Requests, SubscribeRequests, UnsubscribeRequests, NoRequest

\* What an idle monitor holds is in the types of its fields.
LEMMA Idle ==
  /\ NoPort \notin Ports /\ NoId \in Ids /\ 0 \in Ids /\ 1 \in Ids
  /\ 0 \in 0..MaxRequestRetries
  /\ NoRequest.type = "None"
BY WireAssumption, ClientAssumption DEF NoPort, NoId, Ids, NoRequest

\* What the elementary operations do to the type of a monitor.
LEMMA Types ==
  ASSUME NEW k \in ClientStates
  PROVE  /\ RequestDone(k) \in ClientStates
         /\ Error(k) \in ClientStates
         /\ Closed(k) \in ClientStates
         /\ FailedRecovery(k) \in ClientStates
<1>1. RequestDone(k) \in ClientStates
  BY Idle DEF RequestDone, ClientStates
<1>2. Error(k) \in ClientStates
  BY DEF Error, ClientStates, MonitorStates
<1>3. Closed(k) \in ClientStates
  BY Idle DEF Closed, ClientStates
<1> QED
  BY <1>1, <1>2, <1>3 DEF FailedRecovery

\* What they do to the fields the invariant speaks of.
LEMMA Effects ==
  ASSUME NEW k \in ClientStates
  PROVE  /\ LET d == RequestDone(k)
            IN /\ d.pending = NoRequest /\ d.port = k.port /\ d.id = k.id
               /\ d.reconnecting = k.reconnecting /\ d.monitor = k.monitor
               /\ d.reconnectTimer = k.reconnectTimer /\ d.signals = k.signals
         /\ LET e == Error(k)
            IN /\ e.pending = k.pending /\ e.port = k.port /\ e.id = k.id
               /\ e.reconnecting = k.reconnecting /\ e.reconnectTimer = k.reconnectTimer
               /\ e.signals = k.signals
               /\ k.monitor = "Stopped" => e.monitor = "Stopped"
               /\ k.monitor = "Subscribing" => e.monitor = "Stopped"
               /\ k.monitor = "Unsubscribing" => e.monitor = "Running"
               /\ k.monitor = "Running" =>
                    e.monitor = IF k.port = NoPort THEN "Stopped" ELSE "Running"
         /\ LET z == Closed(k)
            IN /\ z.pending = NoRequest /\ z.port = NoPort /\ z.id = NoId
               /\ ~z.reconnecting /\ z.monitor = k.monitor
<1>1. LET d == RequestDone(k)
      IN /\ d.pending = NoRequest /\ d.port = k.port /\ d.id = k.id
         /\ d.reconnecting = k.reconnecting /\ d.monitor = k.monitor
         /\ d.reconnectTimer = k.reconnectTimer /\ d.signals = k.signals
  BY DEF RequestDone, ClientStates
<1>2. LET e == Error(k)
      IN /\ e.pending = k.pending /\ e.port = k.port /\ e.id = k.id
         /\ e.reconnecting = k.reconnecting /\ e.reconnectTimer = k.reconnectTimer
               /\ e.signals = k.signals
         /\ k.monitor = "Stopped" => e.monitor = "Stopped"
         /\ k.monitor = "Subscribing" => e.monitor = "Stopped"
         /\ k.monitor = "Unsubscribing" => e.monitor = "Running"
         /\ k.monitor = "Running" =>
              e.monitor = IF k.port = NoPort THEN "Stopped" ELSE "Running"
  BY DEF Error, ClientStates
<1>3. LET z == Closed(k)
      IN /\ z.pending = NoRequest /\ z.port = NoPort /\ z.id = NoId
         /\ ~z.reconnecting /\ z.monitor = k.monitor
  BY DEF Closed, ClientStates
<1> QED
  BY <1>1, <1>2, <1>3

\* A monitor just started is good.
LEMMA FreshIsGood ==
  /\ Good(Fresh)
  /\ \A mixed \in BOOLEAN : Good([Fresh EXCEPT !.mixed = mixed])
<1>1. Fresh \in ClientStates
  BY Idle DEF Fresh, ClientStates, MonitorStates
<1>2. Matches(Fresh) /\ GoesOn(Fresh) /\ HasSignals(Fresh)
  BY DEF Fresh, Matches, GoesOn, HasSignals
<1>3. ASSUME NEW mixed \in BOOLEAN
      PROVE  Good([Fresh EXCEPT !.mixed = mixed])
  <2> DEFINE r == [Fresh EXCEPT !.mixed = mixed]
  <2>1. r \in ClientStates
    BY <1>1 DEF ClientStates
  <2>2. Matches(r) /\ GoesOn(r) /\ HasSignals(r)
    BY DEF Fresh, Matches, GoesOn, HasSignals
  <2> QED
    BY <2>1, <2>2 DEF Good
<1> QED
  BY <1>1, <1>2, <1>3 DEF Good

\* Closing a stopped connection, binding it to a port, and stopping a monitor
\* by closing its connection.
LEMMA ClosedIsGood ==
  ASSUME NEW k \in ClientStates
  PROVE  /\ k.monitor = "Stopped" => Good(Closed(k))
         /\ \A p \in Ports : k.monitor = "Stopped" => Good([Closed(k) EXCEPT !.port = p])
         /\ Good([Closed(k) EXCEPT !.monitor = "Stopped"])
<1> DEFINE z == Closed(k)
<1>1. z \in ClientStates
  BY Types
<1>2. /\ z.pending = NoRequest /\ z.port = NoPort /\ z.id = NoId
      /\ ~z.reconnecting /\ z.monitor = k.monitor
  BY Effects
<1> HIDE DEF z
<1>3. k.monitor = "Stopped" => Good(z)
  BY <1>1, <1>2 DEF Good, Matches, GoesOn, HasSignals
<1>4. ASSUME NEW p \in Ports, k.monitor = "Stopped"
      PROVE  Good([z EXCEPT !.port = p])
  <2>1. [z EXCEPT !.port = p] \in ClientStates
    BY <1>1 DEF ClientStates
  <2> QED
    BY <1>1, <1>2, <1>4, <2>1 DEF Good, ClientStates, Matches, GoesOn, HasSignals
<1>5. Good([z EXCEPT !.monitor = "Stopped"])
  <2>1. [z EXCEPT !.monitor = "Stopped"] \in ClientStates
    BY <1>1 DEF ClientStates, MonitorStates
  <2> QED
    BY <1>1, <1>2, <2>1 DEF Good, ClientStates, Matches, GoesOn, HasSignals
<1> QED
  BY <1>3, <1>4, <1>5 DEF z

\* A request given up leaves a good monitor.
LEMMA GivenUpIsGood ==
  ASSUME NEW k, Good(k), k.pending # NoRequest
  PROVE  Good(GivenUp(k))
<1> DEFINE d == RequestDone(k)
<1>1. k \in ClientStates /\ d \in ClientStates /\ Error(d) \in ClientStates
  BY Types DEF Good
<1>2. /\ d.pending = NoRequest /\ d.port = k.port /\ d.id = k.id
      /\ d.reconnecting = k.reconnecting /\ d.monitor = k.monitor /\ d.signals = k.signals
  BY <1>1, Effects
<1>3. k.monitor \in MonitorStates /\ k.reconnecting \in BOOLEAN
  BY <1>1 DEF ClientStates
<1>4. k.pending.type # "None"
  BY <1>1, PendingType
<1> HIDE DEF d
<1>5. CASE k.reconnecting
  <2> DEFINE t == [d EXCEPT !.reconnectTimer = TRUE]
  <2>1. t \in ClientStates
    BY <1>1 DEF ClientStates
  <2>2. /\ t.pending = NoRequest /\ t.id = k.id /\ t.reconnecting /\ t.monitor = k.monitor
        /\ t.signals = k.signals /\ t.reconnectTimer = TRUE
    BY <1>1, <1>2, <1>5 DEF ClientStates
  <2>3. k.monitor = "Running" /\ k.id = NoId
    BY <1>3, <1>5 DEF Good, Matches, MonitorStates
  <2>4. GivenUp(k) = t
    BY <1>5 DEF GivenUp, d
  <2> HIDE DEF t
  <2> QED
    BY <2>1, <2>2, <2>3, <2>4, Idle DEF Good, Matches, GoesOn, HasSignals
<1>6. CASE ~k.reconnecting
  <2> DEFINE e == Error(d)
  <2>1. /\ e.pending = NoRequest /\ e.id = k.id /\ ~e.reconnecting /\ e.signals = k.signals
        /\ k.monitor = "Subscribing" => e.monitor = "Stopped"
        /\ k.monitor = "Unsubscribing" => e.monitor = "Running"
    BY <1>1, <1>2, <1>6, Effects
  <2>2. \/ k.monitor = "Subscribing" /\ k.id = NoId
        \/ k.monitor = "Unsubscribing" /\ k.id # NoId
    BY <1>3, <1>6 DEF Good, Matches, MonitorStates
  <2>3. GivenUp(k) = e
    BY <1>6 DEF GivenUp, d
  <2> HIDE DEF e
  <2> QED
    BY <1>1, <2>1, <2>2, <2>3 DEF Good, Matches, GoesOn, HasSignals, e
<1> QED
  BY <1>5, <1>6

\* An unsubscription given up or rejected leaves a monitor that runs.
LEMMA StillSubscribed ==
  ASSUME NEW k, Good(k), k.pending.type = "Unsubscribe"
  PROVE  /\ Good(Error([RequestDone(k) EXCEPT !.dataTimer = TRUE]))
         /\ Good(Error(RequestDone(k)))
<1> DEFINE d == RequestDone(k)
           t == [d EXCEPT !.dataTimer = TRUE]
<1>1. k \in ClientStates /\ d \in ClientStates /\ Error(d) \in ClientStates
  BY Types DEF Good
<1>2. t \in ClientStates /\ Error(t) \in ClientStates
  <2>1. t \in ClientStates
    BY <1>1 DEF ClientStates
  <2> QED
    BY <2>1, Types
<1>3. /\ t.pending = NoRequest /\ t.id = k.id /\ t.reconnecting = k.reconnecting
      /\ t.monitor = k.monitor /\ t.signals = k.signals
  BY <1>1, Effects DEF ClientStates
<1>4. k.monitor = "Unsubscribing" /\ k.id # NoId /\ ~k.reconnecting
  BY <1>1, PendingType DEF Good, Matches, ClientStates, MonitorStates, NoRequest
<1>5. /\ d.pending = NoRequest /\ d.id = k.id /\ d.reconnecting = k.reconnecting
      /\ d.monitor = k.monitor /\ d.signals = k.signals
  BY <1>1, Effects
<1> HIDE DEF d
<1>6. Good(Error(d))
  <2> DEFINE e == Error(d)
  <2>1. /\ e.pending = NoRequest /\ e.id = k.id /\ ~e.reconnecting /\ e.monitor = "Running"
        /\ e.signals = k.signals
    BY <1>1, <1>4, <1>5, Effects
  <2> HIDE DEF e
  <2> QED
    BY <1>1, <1>4, <2>1 DEF Good, Matches, GoesOn, HasSignals, e
<1>7. Good(Error(t))
  <2> HIDE DEF t
  <2> QED
    BY <1>2, <1>3, <1>4, Effects DEF Good, Matches, GoesOn, HasSignals
<1> QED
  BY <1>6, <1>7 DEF d

\* What a failed attempt to send a request leaves.
LEMMA NotSentEffects ==
  ASSUME NEW k \in ClientStates, k.nextRequestId <= MaxRequests
  PROVE  LET n == NotSent(k)
         IN /\ n \in ClientStates
            /\ n.pending = k.pending /\ n.id = k.id /\ n.reconnecting = k.reconnecting
            /\ n.signals = k.signals /\ n.reconnectTimer = k.reconnectTimer
            /\ k.monitor = "Stopped" => n.monitor = "Stopped"
            /\ k.monitor = "Running" /\ k.port # NoPort => n.monitor = "Running"
<1> DEFINE x == [k EXCEPT !.retries = 0, !.nextRequestId = @ + 1]
<1>1. k.nextRequestId + 1 \in Ids
  BY WireAssumption DEF ClientStates, Ids
<1>2. x \in ClientStates
  BY <1>1, Idle DEF ClientStates
<1>3. /\ x.pending = k.pending /\ x.id = k.id /\ x.reconnecting = k.reconnecting
      /\ x.signals = k.signals /\ x.reconnectTimer = k.reconnectTimer
      /\ x.monitor = k.monitor /\ x.port = k.port
  BY DEF ClientStates
<1>4. NotSent(k) = Error(x)
  BY DEF NotSent
<1> HIDE DEF x
<1>5. /\ Error(x) \in ClientStates
      /\ Error(x).pending = x.pending /\ Error(x).id = x.id
      /\ Error(x).reconnecting = x.reconnecting /\ Error(x).signals = x.signals
      /\ Error(x).reconnectTimer = x.reconnectTimer
      /\ x.monitor = "Stopped" => Error(x).monitor = "Stopped"
      /\ x.monitor = "Running" /\ x.port # NoPort => Error(x).monitor = "Running"
  <2>1. Error(x) \in ClientStates
    BY <1>2, Types
  <2> QED
    BY <1>2, <2>1, Effects
<1> QED
  BY <1>3, <1>4, <1>5

\* What sending a request leaves.
LEMMA RequestingEffects ==
  ASSUME NEW k \in ClientStates, k.nextRequestId <= MaxRequests, NEW q \in Requests
  PROVE  LET r == Requesting(k, q)
         IN /\ r \in ClientStates
            /\ r.pending = q /\ r.id = k.id /\ r.reconnecting = k.reconnecting
            /\ r.signals = k.signals /\ r.reconnectTimer = k.reconnectTimer
            /\ r.monitor = k.monitor
<1>1. k.nextRequestId + 1 \in Ids
  BY WireAssumption DEF ClientStates, Ids
<1> QED
  BY <1>1, Idle DEF Requesting, ClientStates

\* The requests a monitor builds are requests.
LEMMA WellFormedRequests ==
  ASSUME NEW k \in ClientStates, k.port # NoPort
  PROVE  /\ \A s \in Selections : SubscribeRequest(k, s) \in Requests
         /\ \A s : SubscribeRequest(k, s).type = "Subscribe"
         /\ UnsubscribeRequest(k) \in Requests
         /\ UnsubscribeRequest(k).type = "Unsubscribe"
BY DEF ClientStates, SubscribeRequest, UnsubscribeRequest, Requests, SubscribeRequests,
       UnsubscribeRequests

-----------------------------------------------------------------------------
(* The steps of a monitor. *)

\* A step that leaves one monitor good and the network well formed.
Fine(c) ==
  /\ \E k : Good(k) /\ Become(c, k)
  /\ toServer' \subseteq Requests
  /\ toClient' \subseteq toClient

\* Every monitor is good.
LEMMA GoodNow == IInv => \A c \in Clients : Good(clients[c])
BY DEF IInv, TypeOK, ClientTypeOK, Good, MonitorMatchesConnection, RecoveryGoesOn, SignalsAreKept

\* The operator opens a connection or restarts the monitor.
LEMMA OpenIsFine ==
  ASSUME IInv, NEW c \in Clients, OpenConnection(c) \/ RestartMonitor(c)
  PROVE  Fine(c)
<1> DEFINE k == clients[c]
<1>1. k \in ClientStates
  BY GoodNow DEF Good
<1>2. toServer \subseteq Requests
  BY DEF IInv, TypeOK, WireTypeOK
<1>3. CASE OpenConnection(c)
  BY <1>1, <1>2, <1>3, ClosedIsGood DEF OpenConnection, Fine, wireVars
<1>4. CASE RestartMonitor(c)
  <2>1. k.mixed \in BOOLEAN
    BY <1>1 DEF ClientStates
  <2> QED
    BY <1>2, <1>4, <2>1, FreshIsGood DEF RestartMonitor, Fine, wireVars
<1> QED
  BY <1>3, <1>4

\* The operator starts to monitor.
LEMMA StartIsFine ==
  ASSUME IInv, NEW c \in Clients, StartMonitoring(c)
  PROVE  Fine(c)
<1> DEFINE k == clients[c]
<1>1. Good(k) /\ k \in ClientStates
  BY GoodNow DEF Good
<1>2. toServer \subseteq Requests
  BY DEF IInv, TypeOK, WireTypeOK
<1>3. /\ k.monitor = "Stopped" /\ k.port # NoPort /\ k.id = NoId /\ k.pending = NoRequest
      /\ k.nextRequestId <= MaxRequests /\ ~k.reconnecting
  BY <1>1 DEF StartMonitoring, CanSubscribe, Good, Matches
<1>4. CASE Become(c, NotSent(k)) /\ UNCHANGED <<toServer, toClient>>
  <2> DEFINE n == NotSent(k)
  <2>1. /\ n \in ClientStates /\ n.pending = NoRequest /\ n.id = NoId
        /\ ~n.reconnecting /\ n.monitor = "Stopped"
    BY <1>1, <1>3, NotSentEffects
  <2>2. Good(n)
    <3> HIDE DEF n
    <3> QED
      BY <2>1 DEF Good, Matches, GoesOn, HasSignals
  <2> QED
    BY <1>2, <1>4, <2>2 DEF Fine
<1>5. ASSUME NEW s \in Selections,
             Become(c, [Requesting(k, SubscribeRequest(k, s)) EXCEPT !.monitor = "Subscribing"]),
             toServer' = toServer \cup {SubscribeRequest(k, s)}, UNCHANGED toClient
      PROVE  Fine(c)
  <2> DEFINE q == SubscribeRequest(k, s)
             r == Requesting(k, q)
             x == [r EXCEPT !.monitor = "Subscribing"]
  <2>1. q \in Requests /\ q.type = "Subscribe"
    BY <1>1, <1>3, WellFormedRequests
  <2>2. /\ r \in ClientStates /\ r.pending = q /\ r.id = NoId /\ ~r.reconnecting
    <3> HIDE DEF q
    <3> QED
      BY <1>1, <1>3, <2>1, RequestingEffects
  <2>3. Good(x)
    <3> HIDE DEF r, q
    <3>1. x \in ClientStates
      BY <2>2 DEF ClientStates, MonitorStates
    <3> QED
      BY <2>1, <2>2, <3>1 DEF Good, ClientStates, Matches, GoesOn, HasSignals
  <2> QED
    BY <1>2, <1>5, <2>1, <2>3 DEF Fine
<1> QED
  BY <1>4, <1>5 DEF StartMonitoring

\* The operator stops monitoring.
LEMMA StopIsFine ==
  ASSUME IInv, NEW c \in Clients, StopMonitoring(c)
  PROVE  Fine(c)
<1> DEFINE k == clients[c]
           q == UnsubscribeRequest(k)
<1>1. Good(k) /\ k \in ClientStates
  BY GoodNow DEF Good
<1>2. toServer \subseteq Requests
  BY DEF IInv, TypeOK, WireTypeOK
<1>3. k.monitor = "Running" /\ UNCHANGED toClient
  BY DEF StopMonitoring
<1>4. CASE k.reconnecting /\ Become(c, [Closed(k) EXCEPT !.monitor = "Stopped"])
           /\ UNCHANGED toServer
  BY <1>1, <1>2, <1>3, <1>4, ClosedIsGood DEF Fine
<1>5. CASE ~k.reconnecting /\ CanUnsubscribe(k) /\ k.nextRequestId <= MaxRequests
  <2>1. k.port # NoPort /\ k.id # NoId /\ k.pending = NoRequest /\ k.signals # NoSelection
    BY <1>1, <1>5 DEF CanUnsubscribe, Good, HasSignals
  <2>2. CASE Become(c, NotSent(k)) /\ UNCHANGED toServer
    <3> DEFINE n == NotSent(k)
    <3>1. /\ n \in ClientStates /\ n.pending = NoRequest /\ n.id = k.id
          /\ ~n.reconnecting /\ n.monitor = "Running" /\ n.signals = k.signals
      BY <1>1, <1>3, <1>5, <2>1, NotSentEffects
    <3>2. Good(n)
      <4> HIDE DEF n
      <4> QED
        BY <2>1, <3>1 DEF Good, Matches, GoesOn, HasSignals
    <3> QED
      BY <1>2, <1>3, <2>2, <3>2 DEF Fine
  <2>3. CASE /\ Become(c, [Requesting(k, q) EXCEPT !.dataTimer = FALSE,
                                                   !.monitor = "Unsubscribing"])
             /\ toServer' = toServer \cup {q}
    <3> DEFINE r == Requesting(k, q)
               x == [r EXCEPT !.dataTimer = FALSE, !.monitor = "Unsubscribing"]
    <3>1. q \in Requests /\ q.type = "Unsubscribe"
      BY <1>1, <2>1, WellFormedRequests
    <3>2. /\ r \in ClientStates /\ r.pending = q /\ r.id = k.id /\ ~r.reconnecting
          /\ r.signals = k.signals
      <4> HIDE DEF q
      <4> QED
        BY <1>1, <1>5, <2>1, <3>1, RequestingEffects
    <3>3. Good(x)
      <4> HIDE DEF r, q
      <4>1. x \in ClientStates
        BY <3>2 DEF ClientStates, MonitorStates
      <4> QED
        BY <2>1, <3>1, <3>2, <4>1 DEF Good, ClientStates, Matches, GoesOn, HasSignals
    <3> QED
      BY <1>2, <1>3, <2>3, <3>1, <3>3 DEF Fine
  <2> QED
    BY <1>3, <1>5, <2>2, <2>3 DEF StopMonitoring
<1> QED
  BY <1>3, <1>4, <1>5 DEF StopMonitoring

\* The request timer fires.
LEMMA RequestTimeoutIsFine ==
  ASSUME IInv, NEW c \in Clients, RequestTimeout(c)
  PROVE  Fine(c)
<1> DEFINE k == clients[c]
<1>1. Good(k) /\ k \in ClientStates
  BY GoodNow DEF Good
<1>2. toServer \subseteq Requests
  BY DEF IInv, TypeOK, WireTypeOK
<1>3. k.pending # NoRequest /\ k.pending \in Requests /\ UNCHANGED toClient
  BY <1>1, PendingType DEF RequestTimeout
<1>4. CASE /\ MayRetry(k) /\ Become(c, [k EXCEPT !.retries = @ + 1])
           /\ toServer' = toServer \cup {k.pending}
  <2> DEFINE x == [k EXCEPT !.retries = @ + 1]
  <2>1. k.retries + 1 \in 0..MaxRequestRetries
    BY <1>1, <1>4, ClientAssumption DEF ClientStates, MayRetry
  <2>2. /\ x \in ClientStates /\ x.pending = k.pending /\ x.id = k.id
        /\ x.reconnecting = k.reconnecting /\ x.reconnectTimer = k.reconnectTimer
        /\ x.monitor = k.monitor /\ x.signals = k.signals
    BY <1>1, <2>1 DEF ClientStates
  <2>3. Good(x)
    <3> HIDE DEF x
    <3> QED
      BY <1>1, <2>2 DEF Good, Matches, GoesOn, HasSignals
  <2> QED
    BY <1>2, <1>3, <1>4, <2>3 DEF Fine
<1>5. CASE Become(c, GivenUp(k)) /\ UNCHANGED toServer
  BY <1>1, <1>2, <1>3, <1>5, GivenUpIsGood DEF Fine
<1>6. CASE /\ k.pending.type # "Subscribe" /\ UNCHANGED toServer
           /\ Become(c, Error([RequestDone(k) EXCEPT !.dataTimer = TRUE]))
  <2>1. k.pending.type = "Unsubscribe"
    BY <1>1, <1>3, <1>6, PendingType
  <2> QED
    BY <1>1, <1>2, <1>3, <1>6, <2>1, StillSubscribed DEF Fine
<1> QED
  BY <1>4, <1>5, <1>6 DEF RequestTimeout

\* The data timer fires.
LEMMA DataTimeoutIsFine ==
  ASSUME IInv, NEW c \in Clients, DataTimeout(c)
  PROVE  Fine(c)
<1> DEFINE k == clients[c]
           r == Recovering(k)
           x == [k EXCEPT !.dataTimer = FALSE]
<1>1. Good(k) /\ k \in ClientStates
  BY GoodNow DEF Good
<1>2. toServer \subseteq Requests /\ UNCHANGED wireVars
  BY DEF IInv, TypeOK, WireTypeOK, DataTimeout
<1>3. CASE k.id # NoId /\ k.pending = NoRequest
  <2>1. /\ r \in ClientStates /\ r.pending = NoRequest /\ r.id = NoId
        /\ r.reconnecting = TRUE /\ r.reconnectTimer = TRUE
        /\ r.monitor = k.monitor /\ r.signals = k.signals
    BY <1>1, <1>3, Idle DEF Recovering, ClientStates
  <2>2. k.monitor = "Running" /\ k.signals # NoSelection
    BY <1>1, <1>3, Idle DEF Good, Matches, HasSignals, ClientStates, MonitorStates
  <2>3. Good(r)
    <3> HIDE DEF r
    <3> QED
      BY <2>1, <2>2, Idle DEF Good, Matches, GoesOn, HasSignals
  <2> QED
    BY <1>2, <1>3, <2>3 DEF Fine, DataTimeout, wireVars
<1>4. CASE ~(k.id # NoId /\ k.pending = NoRequest)
  <2>1. /\ x \in ClientStates /\ x.pending = k.pending /\ x.id = k.id
        /\ x.reconnecting = k.reconnecting /\ x.reconnectTimer = k.reconnectTimer
        /\ x.monitor = k.monitor /\ x.signals = k.signals
    BY <1>1 DEF ClientStates
  <2>2. Good(x)
    <3> HIDE DEF x
    <3> QED
      BY <1>1, <2>1 DEF Good, Matches, GoesOn, HasSignals
  <2> QED
    BY <1>2, <1>4, <2>2 DEF Fine, DataTimeout, wireVars
<1> QED
  BY <1>3, <1>4

\* The reconnection timer fires.
LEMMA ReconnectTimeoutIsFine ==
  ASSUME IInv, NEW c \in Clients, ReconnectTimeout(c)
  PROVE  Fine(c)
<1> DEFINE j == clients[c]
           k == [j EXCEPT !.reconnectTimer = FALSE]
           q == SubscribeRequest(k, k.signals)
           r == Requesting(k, q)
           n == NotSent(k)
           x == [n EXCEPT !.reconnectTimer = TRUE]
<1>1. Good(j) /\ j \in ClientStates
  BY GoodNow DEF Good
<1>2. toServer \subseteq Requests /\ UNCHANGED toClient
  BY DEF IInv, TypeOK, WireTypeOK, ReconnectTimeout
<1>3. /\ k \in ClientStates /\ k.pending = j.pending /\ k.id = j.id
      /\ k.reconnecting = j.reconnecting /\ k.monitor = j.monitor /\ k.signals = j.signals
      /\ k.reconnectTimer = FALSE
  BY <1>1 DEF ClientStates
<1>4. /\ k.port # NoPort /\ k.pending = NoRequest /\ k.id = NoId /\ k.reconnecting
      /\ k.nextRequestId <= MaxRequests
      /\ \/ Become(c, r) /\ toServer' = toServer \cup {q}
         \/ Become(c, x) /\ UNCHANGED toServer
  BY DEF ReconnectTimeout, CanSubscribe
<1> HIDE DEF k
<1>5. k.monitor = "Running" /\ k.signals \in Selections /\ k.reconnecting = TRUE
  BY <1>1, <1>3, <1>4 DEF Good, Matches, HasSignals, ClientStates, MonitorStates
<1>6. q \in Requests /\ q.type = "Subscribe"
  BY <1>3, <1>4, <1>5, WellFormedRequests
<1>7. Good(r)
  <2> HIDE DEF q
  <2>1. /\ r \in ClientStates /\ r.pending = q /\ r.id = NoId /\ r.reconnecting = TRUE
        /\ r.signals = k.signals /\ r.reconnectTimer = FALSE /\ r.monitor = "Running"
    BY <1>3, <1>4, <1>5, <1>6, RequestingEffects
  <2>2. q # NoRequest /\ k.signals # NoSelection
    BY <1>5, <1>6, Idle, ClientAssumption
  <2> HIDE DEF r
  <2> QED
    BY <1>6, <2>1, <2>2 DEF Good, Matches, GoesOn, HasSignals
<1>8. Good(x)
  <2>1. /\ n \in ClientStates /\ n.pending = NoRequest /\ n.id = NoId /\ n.reconnecting = TRUE
        /\ n.signals = k.signals /\ n.monitor = "Running"
    BY <1>3, <1>4, <1>5, NotSentEffects
  <2> HIDE DEF n
  <2>2. /\ x \in ClientStates /\ x.pending = NoRequest /\ x.id = NoId /\ x.reconnecting = TRUE
        /\ x.signals = k.signals /\ x.monitor = "Running" /\ x.reconnectTimer = TRUE
    BY <2>1 DEF ClientStates
  <2> HIDE DEF x
  <2> QED
    BY <1>5, <2>2, Idle, ClientAssumption DEF Good, Matches, GoesOn, HasSignals
<1> QED
  BY <1>2, <1>4, <1>6, <1>7, <1>8 DEF Fine

\* The answer to a subscription arrives.
LEMMA SubscribeResponseIsFine ==
  ASSUME IInv, NEW c \in Clients, NEW m \in toClient, ReceiveSubscribeResponse(c, m)
  PROVE  Fine(c)
<1> DEFINE k == clients[c]
           d == RequestDone(k)
           u == Subscribed(k, m.id)
           f == FailedRecovery(d)
<1>1. Good(k) /\ k \in ClientStates
  BY GoodNow DEF Good
<1>2. toServer \subseteq Requests /\ UNCHANGED wireVars
  BY DEF IInv, TypeOK, WireTypeOK, ReceiveSubscribeResponse
<1>3. /\ k.pending.type = "Subscribe" /\ k.pending \in SubscribeRequests /\ k.id = NoId
      /\ k.monitor = "Subscribing" \/ (k.monitor = "Running" /\ k.reconnecting)
  <2>1. k.pending.type = "Subscribe" /\ k.pending \in SubscribeRequests /\ k.pending # NoRequest
    BY <1>1, PendingType, Idle DEF ReceiveSubscribeResponse
  <2> QED
    BY <1>1, <2>1, Idle DEF Good, Matches, ClientStates, MonitorStates
<1>4. m \in SubscribeResponses
  BY DEF IInv, TypeOK, WireTypeOK, ReceiveSubscribeResponse, Answers, SubscribeResponses,
         UnsubscribeResponses, LiveData, ErrorResponses
<1>5. CASE m.result = "Ok"
  <2>1. m.id \in Ids /\ m.id # NoId /\ k.pending.selection \in Selections
    BY <1>3, <1>4, <1>5
    DEF SubscribeResponses, SubscribeRequests, IInv, AnswersHaveIds, AcceptsWithId,
        ReceiveSubscribeResponse
  <2>2. /\ d \in ClientStates /\ d.pending = NoRequest
    BY <1>1, Types, Effects
  <2> HIDE DEF d
  <2>3. /\ u \in ClientStates /\ u.pending = NoRequest /\ u.id = m.id /\ ~u.reconnecting
        /\ u.monitor = "Running" /\ u.signals = k.pending.selection
    BY <2>1, <2>2, Idle DEF Subscribed, ClientStates, MonitorStates, d
  <2> HIDE DEF u
  <2>4. Good(u)
    BY <2>1, <2>3, ClientAssumption DEF Good, Matches, GoesOn, HasSignals
  <2> QED
    BY <1>2, <1>5, <2>4 DEF Fine, ReceiveSubscribeResponse, wireVars, u
<1>6. CASE m.result # "Ok"
  <2>1. /\ d \in ClientStates /\ d.pending = NoRequest /\ d.id = NoId
        /\ d.reconnecting = k.reconnecting /\ d.monitor = k.monitor
    BY <1>1, <1>3, Types, Effects
  <2> HIDE DEF d
  <2>2. /\ f \in ClientStates /\ f.pending = NoRequest /\ f.id = NoId /\ ~f.reconnecting
        /\ f.monitor = k.monitor /\ (k.monitor = "Running" => f.port = NoPort)
    <3>1. CASE k.reconnecting
      <4>1. f = Closed(d)
        BY <2>1, <3>1 DEF FailedRecovery
      <4> QED
        BY <2>1, <4>1, Types, Effects
    <3>2. CASE ~k.reconnecting
      <4>1. f = d
        BY <2>1, <3>2 DEF FailedRecovery
      <4> QED
        BY <1>3, <2>1, <3>2, <4>1
    <3> QED
      BY <3>1, <3>2
  <2> HIDE DEF f
  <2>3. /\ Error(f) \in ClientStates /\ Error(f).pending = NoRequest /\ Error(f).id = NoId
        /\ ~Error(f).reconnecting /\ Error(f).monitor = "Stopped"
    <3>1. Error(f) \in ClientStates
      BY <2>2, Types
    <3> QED
      BY <1>3, <2>2, <3>1, Effects
  <2>4. Good(Error(f))
    BY <2>3 DEF Good, Matches, GoesOn, HasSignals
  <2> QED
    BY <1>2, <1>6, <2>4 DEF Fine, ReceiveSubscribeResponse, wireVars, f, d
<1> QED
  BY <1>5, <1>6

\* The answer to an unsubscription arrives.
LEMMA UnsubscribeResponseIsFine ==
  ASSUME IInv, NEW c \in Clients, NEW m \in toClient, ReceiveUnsubscribeResponse(c, m)
  PROVE  Fine(c)
<1> DEFINE k == clients[c]
           d == RequestDone(k)
           u == Unsubscribed(k)
<1>1. Good(k) /\ k \in ClientStates /\ k.pending.type = "Unsubscribe"
  BY GoodNow DEF Good, ReceiveUnsubscribeResponse
<1>2. toServer \subseteq Requests /\ UNCHANGED wireVars
  BY DEF IInv, TypeOK, WireTypeOK, ReceiveUnsubscribeResponse
<1>3. ~k.reconnecting
  BY <1>1, Idle DEF Good, Matches, ClientStates, MonitorStates
<1>4. d \in ClientStates /\ d.pending = NoRequest /\ d.reconnecting = k.reconnecting
  BY <1>1, Types, Effects
<1> HIDE DEF d
<1>5. /\ u \in ClientStates /\ u.pending = NoRequest /\ u.id = NoId /\ ~u.reconnecting
      /\ u.monitor = "Stopped"
  BY <1>3, <1>4, Idle DEF Unsubscribed, ClientStates, MonitorStates, d
<1> HIDE DEF u
<1>6. Good(u)
  BY <1>5 DEF Good, Matches, GoesOn, HasSignals
<1>7. Good(Error(d))
  BY <1>1, StillSubscribed DEF d
<1> QED
  BY <1>2, <1>6, <1>7 DEF Fine, ReceiveUnsubscribeResponse, wireVars, u, d

\* A packet of data arrives.
LEMMA LiveDataIsFine ==
  ASSUME IInv, NEW c \in Clients, NEW m \in toClient, ReceiveLiveData(c, m)
  PROVE  Fine(c)
<1> DEFINE k == clients[c]
           x == [k EXCEPT !.lastSequence = m.sequence, !.dataTimer = TRUE,
                          !.mixed = @ \/ m.valuesOf # k.signals, !.taken = m.count]
<1>1. Good(k) /\ k \in ClientStates
  BY GoodNow DEF Good
<1>2. toServer \subseteq Requests /\ UNCHANGED wireVars /\ Become(c, x)
  BY DEF IInv, TypeOK, WireTypeOK, ReceiveLiveData
<1>3. m.sequence \in Ids /\ m.count \in Nat
  BY DEF IInv, TypeOK, WireTypeOK, ReceiveLiveData, TakesData, IsDataFor, Answers,
         SubscribeResponses, UnsubscribeResponses, LiveData, ErrorResponses
<1>4. (k.mixed \/ m.valuesOf # k.signals) \in BOOLEAN
  OBVIOUS
<1>5. /\ x \in ClientStates /\ x.pending = k.pending /\ x.id = k.id
      /\ x.reconnecting = k.reconnecting /\ x.reconnectTimer = k.reconnectTimer
      /\ x.monitor = k.monitor /\ x.signals = k.signals
  BY <1>1, <1>3, <1>4 DEF ClientStates
<1> HIDE DEF x
<1>6. Good(x)
  BY <1>1, <1>5 DEF Good, Matches, GoesOn, HasSignals
<1> QED
  BY <1>2, <1>6 DEF Fine, wireVars

\* An error arrives.
LEMMA ErrorResponseIsFine ==
  ASSUME IInv, NEW c \in Clients, NEW m \in toClient, ReceiveErrorResponse(c, m)
  PROVE  Fine(c)
<1> DEFINE k == clients[c]
           d == RequestDone(k)
           z == Closed(k)
<1>1. Good(k) /\ k \in ClientStates
  BY GoodNow DEF Good
<1>2. toServer \subseteq Requests /\ UNCHANGED wireVars
  BY DEF IInv, TypeOK, WireTypeOK, ReceiveErrorResponse
<1>3. k.port # NoPort
  BY Idle
  DEF IInv, TypeOK, WireTypeOK, ReceiveErrorResponse, Answers, SubscribeResponses,
      UnsubscribeResponses, LiveData, ErrorResponses
<1>4. k.monitor \in MonitorStates
  BY <1>1 DEF ClientStates
<1>5. CASE ~k.reconnecting
  <2>1. /\ d \in ClientStates /\ d.pending = NoRequest /\ d.id = k.id /\ d.port = k.port
        /\ d.reconnecting = k.reconnecting /\ d.monitor = k.monitor /\ d.signals = k.signals
    BY <1>1, Types, Effects
  <2> HIDE DEF d
  <2>2. /\ Error(d) \in ClientStates /\ Error(d).pending = NoRequest /\ Error(d).id = k.id
        /\ ~Error(d).reconnecting /\ Error(d).signals = k.signals
        /\ Error(d).monitor = IF k.monitor \in {"Running", "Unsubscribing"}
                               THEN "Running" ELSE "Stopped"
    <3>1. Error(d) \in ClientStates
      BY <2>1, Types
    <3> QED
      BY <1>3, <1>4, <1>5, <2>1, <3>1, Effects DEF MonitorStates
  <2>3. Good(Error(d))
    BY <1>1, <1>4, <1>5, <2>2 DEF Good, Matches, GoesOn, HasSignals, MonitorStates
  <2> QED
    BY <1>2, <1>5, <2>3 DEF Fine, ReceiveErrorResponse, wireVars, d
<1>6. CASE k.reconnecting /\ m.code = "InvalidState"
  <2>1. Good(GivenUp(k))
    <3>1. CASE k.pending # NoRequest
      BY <1>1, <3>1, GivenUpIsGood
    <3>2. CASE k.pending = NoRequest
      <4>1. /\ d \in ClientStates /\ d.pending = NoRequest /\ d.id = k.id
            /\ d.reconnecting = k.reconnecting /\ d.monitor = k.monitor
            /\ d.signals = k.signals
        BY <1>1, Types, Effects
      <4> HIDE DEF d
      <4> DEFINE t == [d EXCEPT !.reconnectTimer = TRUE]
      <4>2. /\ t \in ClientStates /\ t.pending = NoRequest /\ t.id = k.id
            /\ t.reconnecting = k.reconnecting /\ t.monitor = k.monitor
            /\ t.signals = k.signals /\ t.reconnectTimer = TRUE
        BY <4>1 DEF ClientStates
      <4>3. GivenUp(k) = t
        BY <1>6 DEF GivenUp, d
      <4> HIDE DEF t
      <4> QED
        BY <1>1, <1>4, <1>6, <3>2, <4>2, <4>3, Idle
        DEF Good, Matches, GoesOn, HasSignals, MonitorStates
    <3> QED
      BY <3>1, <3>2
  <2> QED
    BY <1>2, <1>6, <2>1 DEF Fine, ReceiveErrorResponse, wireVars
<1>7. CASE k.reconnecting /\ m.code # "InvalidState"
  <2>1. /\ z \in ClientStates /\ z.pending = NoRequest /\ z.id = NoId /\ ~z.reconnecting
        /\ z.monitor = k.monitor /\ z.port = NoPort
    BY <1>1, Types, Effects
  <2>2. k.monitor = "Running"
    BY <1>1, <1>4, <1>7 DEF Good, Matches, MonitorStates
  <2>3. FailedRecovery(k) = z
    BY <1>7 DEF FailedRecovery
  <2> HIDE DEF z
  <2>4. /\ Error(z) \in ClientStates /\ Error(z).pending = NoRequest /\ Error(z).id = NoId
        /\ ~Error(z).reconnecting /\ Error(z).monitor = "Stopped"
    <3>1. Error(z) \in ClientStates
      BY <2>1, Types
    <3> QED
      BY <2>1, <2>2, <3>1, Effects
  <2>5. Good(Error(z))
    BY <2>4 DEF Good, Matches, GoesOn, HasSignals
  <2> QED
    BY <1>2, <1>7, <2>3, <2>5 DEF Fine, ReceiveErrorResponse, wireVars
<1> QED
  BY <1>5, <1>6, <1>7

-----------------------------------------------------------------------------
(* The steps of the server. *)

\* What the invariant says of the server and of the packets on their way.
ServerGood ==
  WireTypeOK /\ ServerTypeOK /\ AnswersHaveIds /\ Remembered /\ OneSubscriptionPerRequest

\* The answers the server composes have their types.
LEMMA AnswerTypes ==
  ASSUME NEW q \in Requests, NEW id \in Ids, NEW r \in {"Ok", "InvalidSignal"},
         NEW u \in {"Ok", "InvalidId"}
  PROVE  /\ SubscribeResponse(q, r, id) \in Answers
         /\ SubscribeResponse(q, r, id).type = "SubscribeResponse"
         /\ SubscribeResponse(q, r, id).result = r
         /\ SubscribeResponse(q, r, id).id = id
         /\ UnsubscribeResponse(q, u) \in Answers
         /\ UnsubscribeResponse(q, u).type = "UnsubscribeResponse"
<1>1. q.from \in Ports /\ q.requestId \in Ids
  BY DEF Requests, SubscribeRequests, UnsubscribeRequests
<1> QED
  BY <1>1 DEF SubscribeResponse, UnsubscribeResponse, Answers, SubscribeResponses,
             UnsubscribeResponses

\* A repeated request gets its answer again, or an error.
LEMMA AnswerFromCacheIsGood ==
  ASSUME ServerGood, NEW q \in toServer, AnswerFromCache(q)
  PROVE  ServerGood'
<1>1. PICK e \in CachedFor(q) : toClient' = toClient \cup {Repeated(e, q)}
  BY DEF AnswerFromCache
<1>2. e \in responses /\ e.response \in Answers /\ AcceptsWithId(e.response)
  BY <1>1 DEF CachedFor, ServerGood, ServerTypeOK, CacheEntries, AnswersHaveIds
<1>3. q.from \in Ports
  BY DEF ServerGood, WireTypeOK, Requests, SubscribeRequests, UnsubscribeRequests
<1>4. Repeated(e, q) \in Answers /\ AcceptsWithId(Repeated(e, q))
  BY <1>2, <1>3 DEF Repeated, Answers, ErrorResponses, AcceptsWithId
<1>5. UNCHANGED <<toServer, serverVars>>
  BY DEF AnswerFromCache
<1> QED
  BY <1>1, <1>4, <1>5
  DEF ServerGood, WireTypeOK, ServerTypeOK, AnswersHaveIds, Remembered,
      OneSubscriptionPerRequest, serverVars

\* What is kept when a request that was not in the cache is answered.
LEMMA ReplyIsGood ==
  ASSUME ServerGood, NEW q \in toServer, NEW a \in Answers, AcceptsWithId(a), Reply(q, a),
         UNCHANGED toServer
  PROVE  /\ WireTypeOK'
         /\ responses' \subseteq CacheEntries
         /\ \A m \in toClient' : AcceptsWithId(m)
         /\ \A e \in responses' : AcceptsWithId(e.response)
         /\ responses \subseteq responses'
         /\ \E e \in responses' : e.request = q
<1>1. q \in Requests
  BY DEF ServerGood, WireTypeOK
<1> DEFINE n == [request |-> q, response |-> a]
<1>2. n \in CacheEntries /\ n.response = a /\ n.request = q
  BY <1>1 DEF CacheEntries
<1>3. responses' = responses \cup {n} /\ toClient' = toClient \cup {a}
  BY DEF Reply
<1> HIDE DEF n
<1> QED
  BY <1>2, <1>3 DEF ServerGood, WireTypeOK, ServerTypeOK, AnswersHaveIds

\* A request that is not in the cache was given no id: its subscription is the
\* only one.
LEMMA SubscribeIsGood ==
  ASSUME ServerGood, NEW q \in toServer, Subscribe(q)
  PROVE  ServerGood'
<1>1. q \in Requests /\ q \in SubscribeRequests
  BY DEF ServerGood, WireTypeOK, Subscribe, Requests, SubscribeRequests, UnsubscribeRequests
<1>2. UNCHANGED <<toServer, known, restarts>>
  BY DEF Subscribe
<1>3. NoId \in Ids /\ nextId \in Ids
  BY Idle DEF ServerGood, ServerTypeOK
<1>4. CASE q.selection \in known
  <2> DEFINE a == SubscribeResponse(q, "Ok", nextId)
             i == [request |-> q, id |-> nextId]
             s == NewSubscription(q)
  <2>1. /\ nextId <= MaxIds /\ nextId' = nextId + 1 /\ Reply(q, a)
        /\ subscriptions' = subscriptions \cup {s} /\ issued' = issued \cup {i}
    BY <1>4 DEF Subscribe
  <2>2. a \in Answers /\ AcceptsWithId(a)
    BY <1>1, <1>3, AnswerTypes DEF AcceptsWithId, ServerGood, AnswersHaveIds
  <2> HIDE DEF a
  <2>3. nextId' \in Ids /\ nextId' # NoId
    BY <1>3, <2>1, WireAssumption DEF Ids, NoId
  <2>4. s \in Subscriptions
    BY <1>1, <1>3, Idle DEF Subscriptions, SubscribeRequests, NewSubscription
  <2>5. i \in [request : SubscribeRequests, id : Ids] /\ i.request = q
    BY <1>1, <1>3
  <2> HIDE DEF i, s
  <2>6. /\ WireTypeOK' /\ responses' \subseteq CacheEntries
        /\ \A m \in toClient' : AcceptsWithId(m)
        /\ \A e \in responses' : AcceptsWithId(e.response)
        /\ responses \subseteq responses'
        /\ \E e \in responses' : e.request = q
    BY <1>2, <2>1, <2>2, ReplyIsGood
  <2>7. \A b \in issued : ~(b.request.from = q.from /\ b.request.requestId = q.requestId)
    <3>1. SUFFICES ASSUME NEW b \in issued,
                          b.request.from = q.from, b.request.requestId = q.requestId
                   PROVE  FALSE
      OBVIOUS
    <3>2. PICK e \in responses : e.request = b.request
      BY <3>1 DEF ServerGood, Remembered
    <3>3. b.request.type = "Subscribe" /\ q.type = "Subscribe"
      BY <1>1, <3>1 DEF ServerGood, ServerTypeOK, SubscribeRequests
    <3>4. e \in CachedFor(q)
      BY <3>1, <3>2, <3>3 DEF CachedFor
    <3> QED
      BY <3>4 DEF Subscribe
  <2>8. ServerTypeOK'
    BY <1>2, <2>1, <2>3, <2>4, <2>5, <2>6 DEF ServerGood, ServerTypeOK
  <2>9. OneSubscriptionPerRequest'
    BY <2>1, <2>5, <2>7 DEF ServerGood, OneSubscriptionPerRequest
  <2>10. Remembered'
    BY <2>1, <2>5, <2>6 DEF ServerGood, Remembered
  <2> QED
    BY <2>3, <2>6, <2>8, <2>9, <2>10 DEF ServerGood, AnswersHaveIds
<1>5. CASE q.selection \notin known
  <2> DEFINE a == SubscribeResponse(q, "InvalidSignal", NoId)
  <2>1. Reply(q, a) /\ UNCHANGED <<subscriptions, issued, nextId>>
    BY <1>5 DEF Subscribe
  <2>2. a \in Answers /\ AcceptsWithId(a)
    BY <1>1, <1>3, AnswerTypes DEF AcceptsWithId
  <2> HIDE DEF a
  <2>3. /\ WireTypeOK' /\ responses' \subseteq CacheEntries
        /\ \A m \in toClient' : AcceptsWithId(m)
        /\ \A e \in responses' : AcceptsWithId(e.response)
        /\ responses \subseteq responses'
    BY <1>2, <2>1, <2>2, ReplyIsGood
  <2> QED
    BY <1>2, <2>1, <2>3
    DEF ServerGood, ServerTypeOK, AnswersHaveIds, Remembered, OneSubscriptionPerRequest
<1> QED
  BY <1>4, <1>5

\* An unsubscription gives no ids.
LEMMA UnsubscribeIsGood ==
  ASSUME ServerGood, NEW q \in toServer, Unsubscribe(q)
  PROVE  ServerGood'
<1> DEFINE r == IF Addressed(q) = {} THEN "InvalidId" ELSE "Ok"
           a == UnsubscribeResponse(q, r)
<1>1. q \in Requests /\ NoId \in Ids /\ r \in {"Ok", "InvalidId"}
  BY Idle DEF ServerGood, WireTypeOK
<1> HIDE DEF r
<1>2. a \in Answers /\ AcceptsWithId(a)
  BY <1>1, AnswerTypes DEF AcceptsWithId
<1>3. /\ Reply(q, a) /\ UNCHANGED <<toServer, nextId, known, restarts, issued>>
      /\ subscriptions' \subseteq subscriptions
  BY DEF Unsubscribe, r
<1> HIDE DEF a
<1>4. /\ WireTypeOK' /\ responses' \subseteq CacheEntries
      /\ \A m \in toClient' : AcceptsWithId(m)
      /\ \A e \in responses' : AcceptsWithId(e.response)
      /\ responses \subseteq responses'
  BY <1>2, <1>3, ReplyIsGood
<1> QED
  BY <1>3, <1>4
  DEF ServerGood, ServerTypeOK, AnswersHaveIds, Remembered, OneSubscriptionPerRequest

\* The number after a number is one, and never zero.
LEMMA NextSequenceType ==
  ASSUME NEW n \in Ids
  PROVE  NextSequence(n) \in Ids /\ NextSequence(n) # 0
<1>1. SequenceSpan \in Nat /\ SequenceSpan > 1 /\ n \in Nat
  BY WireAssumption DEF Ids
<1>2. (n + 1) % SequenceSpan \in 0..(SequenceSpan - 1)
  BY <1>1
<1> QED
  BY <1>1, <1>2 DEF NextSequence, Ids

\* A packet of data is published.
LEMMA PublishDataIsGood ==
  ASSUME ServerGood, NEW s \in subscriptions, PublishData(s)
  PROVE  ServerGood'
<1> DEFINE m == NextPacket(s)
           t == [s EXCEPT !.sequence = m.sequence, !.count = m.count]
<1>1. s \in Subscriptions
  BY DEF ServerGood, ServerTypeOK
<1>2. /\ subscriptions' = (subscriptions \ {s}) \cup {t}
      /\ toClient' \subseteq toClient \cup {m}
      /\ UNCHANGED <<toServer, nextId, responses, known, restarts, issued>>
  BY DEF PublishData
<1>3. NextSequence(s.sequence) \in Ids /\ s.count + 1 \in Nat
  BY <1>1, NextSequenceType DEF Subscriptions
<1>4. t \in Subscriptions
  BY <1>1, <1>3 DEF Subscriptions, NextPacket
<1>5. m \in Answers /\ AcceptsWithId(m)
  BY <1>1, <1>3 DEF Subscriptions, NextPacket, Answers, LiveData, AcceptsWithId
<1> HIDE DEF t, m
<1> QED
  BY <1>2, <1>4, <1>5
  DEF ServerGood, WireTypeOK, ServerTypeOK, AnswersHaveIds, Remembered,
      OneSubscriptionPerRequest

\* Every step of the server keeps its part of the invariant.
LEMMA ServerStepIsGood ==
  ASSUME ServerGood, ServerNext
  PROVE  ServerGood'
<1>1. ASSUME NEW s \in subscriptions, Expire(s)
      PROVE  ServerGood'
  BY <1>1
  DEF Expire, ServerGood, WireTypeOK, ServerTypeOK, AnswersHaveIds, Remembered,
      OneSubscriptionPerRequest, wireVars
<1>2. ASSUME NEW e \in responses, DropCachedResponse(e)
      PROVE  ServerGood'
  <2>1. /\ responses' = responses \ {e} /\ issued' = {i \in issued : i.request # e.request}
        /\ UNCHANGED <<wireVars, subscriptions, nextId, known, restarts>>
    BY <1>2 DEF DropCachedResponse
  <2>2. Remembered'
    BY <2>1 DEF ServerGood, Remembered
  <2> QED
    BY <2>1, <2>2
    DEF ServerGood, WireTypeOK, ServerTypeOK, AnswersHaveIds, OneSubscriptionPerRequest,
        wireVars
<1>3. CASE RestartServer
  <2>1. FirstId \in Ids /\ FirstId # NoId
    BY Idle DEF FirstId, NoId
  <2>2. restarts' \in 0..MaxRestarts
    BY <1>3, ServerAssumption DEF RestartServer, ServerGood, ServerTypeOK
  <2> QED
    BY <1>3, <2>1, <2>2
    DEF RestartServer, ServerGood, WireTypeOK, ServerTypeOK, AnswersHaveIds, Remembered,
        OneSubscriptionPerRequest
<1> QED
  BY <1>1, <1>2, <1>3, AnswerFromCacheIsGood, SubscribeIsGood, UnsubscribeIsGood,
     PublishDataIsGood
  DEF ServerNext

-----------------------------------------------------------------------------
(* The theorems. *)

\* What the invariant says of the monitors.
ClientsGood == clients \in [Clients -> ClientStates] /\ \A c \in Clients : Good(clients[c])

\* The invariant is what it says of the server and what it says of the monitors.
LEMMA TwoHalves == IInv <=> ServerGood /\ ClientsGood
BY DEF IInv, TypeOK, ClientTypeOK, MonitorMatchesConnection, RecoveryGoesOn, SignalsAreKept,
       ServerGood, ClientsGood, Good

\* The same of the state after a step.
LEMMA TwoHalvesAfter == IInv' <=> ServerGood' /\ ClientsGood'
BY DEF IInv, TypeOK, ClientTypeOK, MonitorMatchesConnection, RecoveryGoesOn, SignalsAreKept,
       ServerGood, ClientsGood, Good, Matches, GoesOn, HasSignals

\* A step of a monitor changes that monitor only, into a good one.
LEMMA ClientStepIsFine ==
  ASSUME IInv, NEW c \in Clients, ClientNext(c)
  PROVE  Fine(c)
BY OpenIsFine, StartIsFine, StopIsFine, RequestTimeoutIsFine,
   DataTimeoutIsFine, ReconnectTimeoutIsFine, SubscribeResponseIsFine,
   UnsubscribeResponseIsFine, LiveDataIsFine, ErrorResponseIsFine
DEF ClientNext

\* A fine step keeps the invariant.
LEMMA FineStepsKeep ==
  ASSUME IInv, NEW c \in Clients, Fine(c), UNCHANGED serverVars
  PROVE  IInv'
<1>1. PICK k : Good(k) /\ Become(c, k) /\ toServer' \subseteq Requests
               /\ toClient' \subseteq toClient
  BY DEF Fine
<1>2. ServerGood /\ ClientsGood
  BY TwoHalves
<1>3. ServerGood'
  BY <1>1, <1>2
  DEF ServerGood, WireTypeOK, ServerTypeOK, AnswersHaveIds, Remembered,
      OneSubscriptionPerRequest, serverVars
<1>4. /\ clients' \in [Clients -> ClientStates]
      /\ \A d \in Clients : clients'[d] = IF d = c THEN k ELSE clients[d]
  BY <1>1, <1>2 DEF Become, ClientsGood, Good
<1>5. \A d \in Clients : Good(clients'[d])
  BY <1>1, <1>2, <1>4 DEF ClientsGood
<1>6. ClientsGood'
  BY <1>4, <1>5 DEF ClientsGood, Good, Matches, GoesOn, HasSignals
<1> QED
  BY <1>3, <1>6, TwoHalvesAfter

\* The initial states.
LEMMA InitIInv == Init => IInv
<1> SUFFICES ASSUME Init PROVE ServerGood /\ ClientsGood
  BY TwoHalves
<1>1. ServerGood
  <2>1. FirstId \in Ids /\ FirstId # NoId
    BY Idle DEF FirstId, NoId
  <2>2. 0 \in 0..MaxRestarts
    BY ServerAssumption
  <2> QED
    BY <2>1, <2>2
    DEF Init, ServerInit, ServerGood, WireTypeOK, ServerTypeOK, AnswersHaveIds, Remembered,
        OneSubscriptionPerRequest
<1>2. ClientsGood
  BY FreshIsGood DEF Init, ClientInit, ClientsGood, Good
<1> QED
  BY <1>1, <1>2

\* Every step keeps the invariant.
LEMMA NextIInv == IInv /\ [Next]_vars => IInv'
<1> SUFFICES ASSUME IInv, [Next]_vars PROVE IInv'
  OBVIOUS
<1>1. CASE ServerNext /\ UNCHANGED clients
  <2>1. ServerGood'
    BY <1>1, TwoHalves, ServerStepIsGood
  <2>2. ClientsGood'
    BY <1>1, TwoHalves DEF ClientsGood, Good, Matches, GoesOn, HasSignals
  <2> QED
    BY <2>1, <2>2, TwoHalvesAfter
<1>2. ASSUME NEW c \in Clients, ClientNext(c), UNCHANGED serverVars
      PROVE  IInv'
  BY <1>2, ClientStepIsFine, FineStepsKeep
<1>3. CASE UNCHANGED vars
  <2>1. ServerGood'
    BY <1>3, TwoHalves
    DEF vars, wireVars, serverVars, ServerGood, WireTypeOK, ServerTypeOK, AnswersHaveIds,
        Remembered, OneSubscriptionPerRequest
  <2>2. ClientsGood'
    BY <1>3, TwoHalves DEF vars, ClientsGood, Good, Matches, GoesOn, HasSignals
  <2> QED
    BY <2>1, <2>2, TwoHalvesAfter
<1> QED
  BY <1>1, <1>2, <1>3 DEF Next

\* The inductive invariant holds in every reachable state of the protocol.
THEOREM IInvHolds == Spec => []IInv
BY InitIInv, NextIInv, PTL DEF Spec

\* The network, the server and every monitor stay in their types.
THEOREM SessionTypes == Spec => []TypeOK
<1>1. IInv => TypeOK
  BY DEF IInv
<1> QED
  BY <1>1, IInvHolds, PTL

\* The cache of responses makes a subscription request take effect at most
\* once, however often the network delivers it.
THEOREM SubscribedOnce == Spec => []OneSubscriptionPerRequest
<1>1. IInv => OneSubscriptionPerRequest
  BY DEF IInv
<1> QED
  BY <1>1, IInvHolds, PTL

\* The state of the window and the state of its connection agree, whatever
\* datagrams arrive, in whatever order, and whichever timers fire.
THEOREM WindowTellsTheTruth == Spec => []MonitorMatchesConnection
<1>1. IInv => MonitorMatchesConnection
  BY DEF IInv
<1> QED
  BY <1>1, IInvHolds, PTL

\* A recovery that has begun always has an attempt pending or a timer running
\* for the next one.
THEOREM RecoveryNeverStalls == Spec => []RecoveryGoesOn
<1>1. IInv => RecoveryGoesOn
  BY DEF IInv
<1> QED
  BY <1>1, IInvHolds, PTL

\* A monitor ends no other monitor's subscription: the server checks the
\* endpoint of the request, and no other step of it that touches the cache of
\* responses removes a subscription it does not create again.
THEOREM OwnersOnly == Spec => OnlyTheOwnerCancels
<1> DEFINE Cancelled(s) ==
      restarts' = restarts /\ responses' # responses /\ s \notin subscriptions'
        => \E q \in toServer : q.type = "Unsubscribe" /\ q.from = s.to /\ q.id = s.id
<1>1. IInv /\ [Next]_vars => [\A s \in subscriptions : Cancelled(s)]_vars
  <2> SUFFICES ASSUME IInv, [Next]_vars, NEW s \in subscriptions,
                      restarts' = restarts, responses' # responses, s \notin subscriptions'
               PROVE  \E q \in toServer : q.type = "Unsubscribe" /\ q.from = s.to /\ q.id = s.id
    OBVIOUS
  <2>1. ServerNext
    BY DEF Next, vars, serverVars
  <2>2. ASSUME NEW q \in toServer, Unsubscribe(q)
        PROVE  q.type = "Unsubscribe" /\ q.from = s.to /\ q.id = s.id
    BY <2>2 DEF Unsubscribe, Addressed
  <2>3. ASSUME NEW q \in toServer, AnswerFromCache(q)
        PROVE  FALSE
    BY <2>3 DEF AnswerFromCache, serverVars
  <2>4. ASSUME NEW q \in toServer, Subscribe(q)
        PROVE  FALSE
    BY <2>4 DEF Subscribe
  <2>5. ASSUME NEW t \in subscriptions, Expire(t) \/ PublishData(t)
        PROVE  FALSE
    BY <2>5 DEF Expire, PublishData
  <2>6. ASSUME NEW e \in responses, DropCachedResponse(e)
        PROVE  FALSE
    BY <2>6 DEF DropCachedResponse
  <2>7. ~RestartServer
    BY DEF RestartServer, IInv, TypeOK, ServerTypeOK
  <2> QED
    BY <2>1, <2>2, <2>3, <2>4, <2>5, <2>6, <2>7 DEF ServerNext
<1> QED
  BY <1>1, IInvHolds, PTL DEF Spec, OnlyTheOwnerCancels

-----------------------------------------------------------------------------
(* What keeps the values of other signals away from a monitor. *)

SameNumber(a, b) == a.from = b.from /\ a.requestId = b.requestId

\* Answer m accepts request q.
Accepts(m, q) ==
  /\ m.type = "SubscribeResponse" /\ m.result = "Ok"
  /\ q.type = "Subscribe" /\ q.from = m.to /\ q.requestId = m.requestId

\* Every id a monitor might still be told, or be sent data under, with the endpoint
\* and the selection it was issued for.
Promises ==
  {[id |-> s.id, to |-> s.to, selection |-> s.selection] : s \in subscriptions}
  \cup {[id |-> m.id, to |-> m.to, selection |-> m.valuesOf] :
          m \in {d \in toClient : d.type = "LiveData"}}
  \cup {[id |-> x[1].id, to |-> x[1].to, selection |-> x[2].selection] :
          x \in {y \in toClient \X toServer : Accepts(y[1], y[2])}}
  \cup {[id |-> e.response.id, to |-> e.request.from, selection |-> e.request.selection] :
          e \in {f \in responses : Accepts(f.response, f.request)}}

PortsAreDistinct ==
  \A c, d \in Clients :
    c # d /\ clients[c].port # NoPort => clients[c].port # clients[d].port

\* The requests of a monitor, the pending one and those in flight, have numbers of
\* their own, below the next one it will use.
Numbered(k) ==
  /\ k.pending # NoRequest =>
       /\ k.pending.from = k.port
       /\ k.pending.requestId < k.nextRequestId
       /\ \A q \in toServer : SameNumber(q, k.pending) => q = k.pending
  /\ \A q \in toServer : q.from = k.port => q.requestId < k.nextRequestId

RequestsAreNumbered ==
  /\ \A a, b \in toServer : SameNumber(a, b) => a = b
  /\ \A c \in Clients : Numbered(clients[c])

Accepting(m) == m.type = "SubscribeResponse" /\ m.result = "Ok"

\* No answer outlives its request.
AnswersHaveRequests ==
  /\ \A m \in toClient : Accepting(m) => \E q \in toServer : Accepts(m, q)
  /\ \A e \in responses : /\ Accepting(e.response) => Accepts(e.response, e.request)
                          /\ e.response.type # "LiveData"

\* One run of the server gives an id away once.
OnePromisePerId ==
  /\ \A a \in Promises : a.id < nextId
  /\ \A a, b \in Promises : a.id = b.id => a = b

\* What is promised under the id of a monitor's subscription is what it asked for; an
\* id of an earlier run of the server, which this one is still to give away, goes to
\* another endpoint.
Served(k) ==
  /\ k.id # NoId =>
       \A a \in Promises : a.id = k.id /\ a.to = k.port => a.selection = k.signals
  /\ k.id >= nextId => \A q \in toServer : q.type = "Subscribe" => q.from # k.port

PromisesAreKept == OnePromisePerId /\ \A c \in Clients : Served(clients[c])

DInv ==
  /\ PortsAreDistinct
  /\ RequestsAreNumbered
  /\ AnswersHaveRequests
  /\ PromisesAreKept
  /\ DataBelongsToSubscription

-----------------------------------------------------------------------------
(* What a step does to a monitor, in five kinds. *)

\* Monitor x is monitor k, which may have let go of its request, of its
\* subscription or of its port.
LetsGo(k, x) ==
  /\ x.mixed = k.mixed
  /\ x.pending \in {k.pending, NoRequest}
  /\ \/ x.port = k.port /\ x.nextRequestId >= k.nextRequestId
     \/ x.port = NoPort /\ x.pending = NoRequest /\ x.id = NoId
  /\ \/ x.id = NoId
     \/ x.id = k.id /\ x.signals = k.signals /\ x.lastSequence = k.lastSequence
        /\ x.taken = k.taken

\* Nothing reaches the monitor, and it sends at most its request once more.
Quiet(c, x) ==
  /\ LetsGo(clients[c], x)
  /\ toServer' = toServer \/ (/\ clients[c].pending # NoRequest
                              /\ toServer' = toServer \cup {clients[c].pending})
  /\ toClient' = toClient

\* It opens a port.
Opens(c, x, p) ==
  /\ \A d \in Clients \ {c} : clients[d].port # p
  /\ x.port = p /\ x.id = NoId /\ x.pending = NoRequest /\ x.mixed = clients[c].mixed
  /\ toServer' = {q \in toServer : q.from # p}
  /\ toClient' = {m \in toClient : m.to # p}

\* It sends a new request.
Sends(c, x, q) ==
  LET k == clients[c]
  IN /\ q \in Requests /\ q.from = k.port /\ q.requestId = k.nextRequestId
     /\ q.type = "Subscribe" => k.id = NoId
     /\ x.pending = q /\ x.nextRequestId = k.nextRequestId + 1
     /\ x.port = k.port /\ x.id = k.id /\ x.signals = k.signals
     /\ x.lastSequence = k.lastSequence /\ x.taken = k.taken /\ x.mixed = k.mixed
     /\ toServer' = toServer \cup {q} /\ toClient' = toClient

\* It learns the id of its subscription.
Learns(c, x, m) ==
  LET k == clients[c]
  IN /\ Accepting(m) /\ m.to = k.port
     /\ k.pending # NoRequest /\ k.pending.type = "Subscribe"
     /\ m.requestId = k.pending.requestId
     /\ x.id = m.id /\ x.signals = k.pending.selection /\ x.pending = NoRequest
     /\ x.lastSequence = 0 /\ x.taken = 0
     /\ x.port = k.port /\ x.nextRequestId = k.nextRequestId /\ x.mixed = k.mixed
     /\ UNCHANGED wireVars

\* It takes a packet of data.
Takes(c, x, m) ==
  LET k == clients[c]
  IN /\ TakesData(k, m)
     /\ x = [k EXCEPT !.lastSequence = m.sequence, !.dataTimer = TRUE,
                      !.mixed = @ \/ m.valuesOf # k.signals, !.taken = m.count]
     /\ UNCHANGED wireVars

OneOfFive(c, x) ==
  \/ Quiet(c, x)
  \/ \E p \in Ports : Opens(c, x, p)
  \/ \E q \in Requests : Sends(c, x, q)
  \/ \E m \in toClient : Learns(c, x, m) \/ Takes(c, x, m)

\* Letting go is reflexive and transitive.
LEMMA LetsGoComposes ==
  ASSUME NEW k \in ClientStates, NEW x \in ClientStates, NEW y \in ClientStates
  PROVE  /\ LetsGo(k, k)
         /\ LetsGo(k, x) /\ LetsGo(x, y) => LetsGo(k, y)
<1>1. k.nextRequestId \in Int /\ x.nextRequestId \in Int /\ y.nextRequestId \in Int
  BY WireAssumption DEF ClientStates, Ids
<1>2. LetsGo(k, k)
  BY <1>1 DEF LetsGo
<1>3. LetsGo(k, x) /\ LetsGo(x, y) => LetsGo(k, y)
  BY <1>1 DEF LetsGo
<1> QED
  BY <1>2, <1>3

\* The timers and counters of a monitor are no matter.
LEMMA TimersLetGo ==
  ASSUME NEW k \in ClientStates
  PROVE  /\ LetsGo(k, [k EXCEPT !.dataTimer = FALSE])
         /\ LetsGo(k, [k EXCEPT !.dataTimer = TRUE])
         /\ LetsGo(k, [k EXCEPT !.reconnectTimer = FALSE])
         /\ LetsGo(k, [k EXCEPT !.reconnectTimer = TRUE])
         /\ LetsGo(k, [k EXCEPT !.retries = @ + 1])
         /\ LetsGo(k, [k EXCEPT !.monitor = "Stopped"])
         /\ k.nextRequestId <= MaxRequests =>
              LetsGo(k, [k EXCEPT !.retries = 0, !.nextRequestId = @ + 1])
<1>1. k.nextRequestId \in Int
  BY WireAssumption DEF ClientStates, Ids
<1> QED
  BY <1>1 DEF LetsGo, ClientStates

\* The operations let go of something, or change nothing that matters here.
LEMMA OperationsLetGo ==
  ASSUME NEW k \in ClientStates
  PROVE  /\ LetsGo(k, RequestDone(k))
         /\ LetsGo(k, Error(k))
         /\ LetsGo(k, Closed(k))
         /\ LetsGo(k, FailedRecovery(k))
         /\ LetsGo(k, Recovering(k))
<1>1. k.nextRequestId \in Int
  BY WireAssumption DEF ClientStates, Ids
<1>2. LetsGo(k, RequestDone(k))
  BY <1>1 DEF LetsGo, ClientStates, RequestDone
<1>3. LetsGo(k, Error(k))
  BY <1>1 DEF LetsGo, ClientStates, Error
<1>4. LetsGo(k, Closed(k))
  BY <1>1 DEF LetsGo, ClientStates, Closed
<1>5. LetsGo(k, Recovering(k))
  BY <1>1 DEF LetsGo, ClientStates, Recovering
<1> QED
  BY <1>2, <1>3, <1>4, <1>5, LetsGoComposes DEF FailedRecovery

\* A step of monitor c is of one of the five kinds.
Kind(c) == \E x : Become(c, x) /\ OneOfFive(c, x)

\* A request given up is let go of.
LEMMA GivenUpLetsGo ==
  ASSUME NEW k \in ClientStates
  PROVE  LetsGo(k, GivenUp(k))
<1> DEFINE d == RequestDone(k)
           t == [d EXCEPT !.reconnectTimer = TRUE]
<1>1. d \in ClientStates /\ Error(d) \in ClientStates /\ LetsGo(k, d)
  BY Types, OperationsLetGo
<1> HIDE DEF d
<1>2. t \in ClientStates /\ LetsGo(d, t)
  BY <1>1, TimersLetGo DEF ClientStates
<1>3. LetsGo(d, Error(d))
  BY <1>1, OperationsLetGo
<1>4. GivenUp(k) = t \/ GivenUp(k) = Error(d)
  BY DEF GivenUp, d
<1> HIDE DEF t
<1> QED
  BY <1>1, <1>2, <1>3, <1>4, LetsGoComposes

\* An unsubscription given up.
LEMMA DoneLetsGo ==
  ASSUME NEW k \in ClientStates
  PROVE  /\ LetsGo(k, Error([RequestDone(k) EXCEPT !.dataTimer = TRUE]))
         /\ LetsGo(k, Error(RequestDone(k)))
         /\ LetsGo(k, Error(FailedRecovery(k)))
         /\ LetsGo(k, Error(FailedRecovery(RequestDone(k))))
<1> DEFINE d == RequestDone(k)
           t == [d EXCEPT !.dataTimer = TRUE]
<1>1. d \in ClientStates /\ LetsGo(k, d)
  BY Types, OperationsLetGo
<1> HIDE DEF d
<1>2. t \in ClientStates /\ LetsGo(d, t)
  BY <1>1, TimersLetGo DEF ClientStates
<1> HIDE DEF t
<1>3. /\ FailedRecovery(k) \in ClientStates /\ LetsGo(k, FailedRecovery(k))
      /\ FailedRecovery(d) \in ClientStates /\ LetsGo(d, FailedRecovery(d))
  BY <1>1, Types, OperationsLetGo
<1>4. LetsGo(k, t) /\ LetsGo(k, FailedRecovery(d))
  BY <1>1, <1>2, <1>3, LetsGoComposes
<1>5. ASSUME NEW x \in ClientStates, LetsGo(k, x)
      PROVE  LetsGo(k, Error(x))
  <2>1. Error(x) \in ClientStates /\ LetsGo(x, Error(x))
    BY Types, OperationsLetGo
  <2> QED
    BY <1>5, <2>1, LetsGoComposes
<1> QED
  BY <1>1, <1>2, <1>3, <1>4, <1>5 DEF d, t

\* A request that could not be sent.
LEMMA NotSentLetsGo ==
  ASSUME NEW k \in ClientStates, k.nextRequestId <= MaxRequests
  PROVE  /\ NotSent(k) \in ClientStates
         /\ LetsGo(k, NotSent(k))
<1> DEFINE x == [k EXCEPT !.retries = 0, !.nextRequestId = @ + 1]
<1>1. x \in ClientStates
  <2>1. k.nextRequestId + 1 \in Ids
    BY WireAssumption DEF ClientStates, Ids
  <2> QED
    BY <2>1, Idle DEF ClientStates
<1>2. LetsGo(k, x)
  BY TimersLetGo
<1>3. NotSent(k) = Error(x)
  BY DEF NotSent
<1> HIDE DEF x
<1>4. Error(x) \in ClientStates /\ LetsGo(x, Error(x))
  BY <1>1, Types, OperationsLetGo
<1> QED
  BY <1>1, <1>2, <1>3, <1>4, LetsGoComposes

\* A new request is sent, and what is set besides.
LEMMA RequestingSends ==
  ASSUME NEW c \in Clients, NEW q \in Requests, clients[c] \in ClientStates,
         NEW k \in ClientStates, LetsGo(clients[c], k),
         k.port = clients[c].port, k.id = clients[c].id, k.signals = clients[c].signals,
         k.lastSequence = clients[c].lastSequence, k.taken = clients[c].taken,
         k.nextRequestId = clients[c].nextRequestId,
         q.from = k.port, q.requestId = k.nextRequestId, q.type = "Subscribe" => k.id = NoId,
         toServer' = toServer \cup {q}, toClient' = toClient
  PROVE  /\ Sends(c, Requesting(k, q), q)
         /\ Sends(c, [Requesting(k, q) EXCEPT !.monitor = "Subscribing"], q)
         /\ Sends(c, [Requesting(k, q) EXCEPT !.dataTimer = FALSE,
                                              !.monitor = "Unsubscribing"], q)
<1>1. k.mixed = clients[c].mixed
  BY DEF LetsGo
<1>2. Sends(c, Requesting(k, q), q)
  BY <1>1 DEF Sends, Requesting, ClientStates
<1>3. Sends(c, [Requesting(k, q) EXCEPT !.monitor = "Subscribing"], q)
  BY <1>1 DEF Sends, Requesting, ClientStates
<1>4. Sends(c, [Requesting(k, q) EXCEPT !.dataTimer = FALSE, !.monitor = "Unsubscribing"], q)
  BY <1>1 DEF Sends, Requesting, ClientStates
<1> QED
  BY <1>2, <1>3, <1>4

-----------------------------------------------------------------------------
\* The operator opens a connection or restarts the monitor.
LEMMA OpenKind ==
  ASSUME IInv, NEW c \in Clients, OpenConnection(c) \/ RestartMonitor(c)
  PROVE  Kind(c)
<1> DEFINE k == clients[c]
           z == Closed(k)
<1>1. k \in ClientStates /\ z \in ClientStates /\ LetsGo(k, z)
  BY GoodNow, Types, OperationsLetGo DEF Good
<1>2. z.pending = NoRequest /\ z.id = NoId /\ z.mixed = k.mixed
  BY <1>1 DEF Closed, ClientStates
<1> HIDE DEF z
<1>3. CASE Become(c, z) /\ UNCHANGED wireVars
  BY <1>1, <1>3 DEF Kind, OneOfFive, Quiet, wireVars
<1>4. ASSUME NEW p \in Ports, \A d \in Clients \ {c} : clients[d].port # p,
             Become(c, [z EXCEPT !.port = p]),
             toServer' = {q \in toServer : q.from # p},
             toClient' = {m \in toClient : m.to # p}
      PROVE  Kind(c)
  <2> DEFINE x == [z EXCEPT !.port = p]
  <2>1. x.port = p /\ x.id = NoId /\ x.pending = NoRequest /\ x.mixed = k.mixed
    BY <1>1, <1>2 DEF ClientStates
  <2> HIDE DEF x
  <2>2. Opens(c, x, p)
    BY <1>4, <2>1 DEF Opens
  <2> QED
    BY <1>4, <2>2 DEF Kind, OneOfFive, x
<1>5. CASE RestartMonitor(c)
  <2> DEFINE x == [Fresh EXCEPT !.mixed = k.mixed]
  <2>1. LetsGo(k, x)
    BY <1>1 DEF LetsGo, Fresh, ClientStates
  <2> QED
    BY <1>5, <2>1 DEF RestartMonitor, Kind, OneOfFive, Quiet, wireVars
<1> QED
  BY <1>3, <1>4, <1>5 DEF OpenConnection, z

\* The operator starts to monitor.
LEMMA StartKind ==
  ASSUME IInv, NEW c \in Clients, StartMonitoring(c)
  PROVE  Kind(c)
<1> DEFINE k == clients[c]
<1>1. k \in ClientStates /\ LetsGo(k, k)
  BY GoodNow, LetsGoComposes DEF Good
<1>2. k.port # NoPort /\ k.id = NoId /\ k.nextRequestId <= MaxRequests
  BY DEF StartMonitoring, CanSubscribe
<1>3. CASE Become(c, NotSent(k)) /\ UNCHANGED <<toServer, toClient>>
  <2>1. LetsGo(k, NotSent(k))
    BY <1>1, <1>2, NotSentLetsGo
  <2> QED
    BY <1>3, <2>1 DEF Kind, OneOfFive, Quiet
<1>4. ASSUME NEW s \in Selections,
             Become(c, [Requesting(k, SubscribeRequest(k, s)) EXCEPT !.monitor = "Subscribing"]),
             toServer' = toServer \cup {SubscribeRequest(k, s)}, UNCHANGED toClient
      PROVE  Kind(c)
  <2> DEFINE q == SubscribeRequest(k, s)
             x == [Requesting(k, q) EXCEPT !.monitor = "Subscribing"]
  <2>1. q \in Requests
    BY <1>1, <1>2, WellFormedRequests
  <2>2. q.from = k.port /\ q.requestId = k.nextRequestId
    BY DEF SubscribeRequest
  <2> HIDE DEF q
  <2>3. Sends(c, x, q)
    BY <1>1, <1>2, <1>4, <2>1, <2>2, RequestingSends DEF q
  <2> HIDE DEF x
  <2> QED
    BY <1>4, <2>1, <2>3 DEF Kind, OneOfFive, x, q
<1> QED
  BY <1>3, <1>4 DEF StartMonitoring

\* The operator stops monitoring.
LEMMA StopKind ==
  ASSUME IInv, NEW c \in Clients, StopMonitoring(c)
  PROVE  Kind(c)
<1> DEFINE k == clients[c]
           z == Closed(k)
           q == UnsubscribeRequest(k)
<1>1. k \in ClientStates /\ LetsGo(k, k)
  BY GoodNow, LetsGoComposes DEF Good
<1>2. UNCHANGED toClient
  BY DEF StopMonitoring
<1>3. CASE Become(c, [z EXCEPT !.monitor = "Stopped"]) /\ UNCHANGED toServer
  <2>1. z \in ClientStates /\ LetsGo(k, z)
    BY <1>1, Types, OperationsLetGo
  <2> HIDE DEF z
  <2> DEFINE x == [z EXCEPT !.monitor = "Stopped"]
  <2>2. x \in ClientStates /\ LetsGo(z, x)
    BY <2>1, TimersLetGo DEF ClientStates, MonitorStates
  <2> HIDE DEF x
  <2>3. LetsGo(k, x)
    BY <1>1, <2>1, <2>2, LetsGoComposes
  <2> QED
    BY <1>2, <1>3, <2>3 DEF Kind, OneOfFive, Quiet, x
<1>4. CASE CanUnsubscribe(k) /\ k.nextRequestId <= MaxRequests
           /\ Become(c, NotSent(k)) /\ UNCHANGED toServer
  <2>1. LetsGo(k, NotSent(k))
    BY <1>1, <1>4, NotSentLetsGo
  <2> QED
    BY <1>2, <1>4, <2>1 DEF Kind, OneOfFive, Quiet
<1>5. CASE /\ CanUnsubscribe(k) /\ k.nextRequestId <= MaxRequests
           /\ Become(c, [Requesting(k, q) EXCEPT !.dataTimer = FALSE,
                                                 !.monitor = "Unsubscribing"])
           /\ toServer' = toServer \cup {q}
  <2>1. q \in Requests /\ q.type = "Unsubscribe"
    BY <1>1, <1>5, WellFormedRequests DEF CanUnsubscribe
  <2>2. q.from = k.port /\ q.requestId = k.nextRequestId
    BY DEF UnsubscribeRequest
  <2> HIDE DEF q
  <2> DEFINE x == [Requesting(k, q) EXCEPT !.dataTimer = FALSE, !.monitor = "Unsubscribing"]
  <2>3. Sends(c, x, q)
    BY <1>1, <1>2, <1>5, <2>1, <2>2, RequestingSends
  <2> HIDE DEF x
  <2> QED
    BY <1>5, <2>1, <2>3 DEF Kind, OneOfFive, x
<1> QED
  BY <1>2, <1>3, <1>4, <1>5 DEF StopMonitoring

\* A timer fires.
LEMMA TimerKind ==
  ASSUME IInv, NEW c \in Clients, RequestTimeout(c) \/ DataTimeout(c) \/ ReconnectTimeout(c)
  PROVE  Kind(c)
<1> DEFINE k == clients[c]
<1>1. k \in ClientStates /\ LetsGo(k, k)
  BY GoodNow, LetsGoComposes DEF Good
<1>2. CASE RequestTimeout(c)
  <2>1. k.pending # NoRequest /\ UNCHANGED toClient
    BY <1>2 DEF RequestTimeout
  <2>2. /\ LetsGo(k, GivenUp(k))
        /\ LetsGo(k, Error([RequestDone(k) EXCEPT !.dataTimer = TRUE]))
        /\ LetsGo(k, [k EXCEPT !.retries = @ + 1])
    BY <1>1, GivenUpLetsGo, DoneLetsGo, TimersLetGo
  <2>3. \/ Become(c, [k EXCEPT !.retries = @ + 1]) /\ toServer' = toServer \cup {k.pending}
        \/ Become(c, GivenUp(k)) /\ UNCHANGED toServer
        \/ /\ Become(c, Error([RequestDone(k) EXCEPT !.dataTimer = TRUE]))
           /\ UNCHANGED toServer
    BY <1>2 DEF RequestTimeout
  <2> QED
    BY <2>1, <2>2, <2>3 DEF Kind, OneOfFive, Quiet
<1>3. CASE DataTimeout(c)
  <2>1. LetsGo(k, Recovering(k)) /\ LetsGo(k, [k EXCEPT !.dataTimer = FALSE])
    BY <1>1, OperationsLetGo, TimersLetGo
  <2> QED
    BY <1>3, <2>1 DEF DataTimeout, Kind, OneOfFive, Quiet, wireVars
<1>4. CASE ReconnectTimeout(c)
  <2> DEFINE j == [k EXCEPT !.reconnectTimer = FALSE]
             q == SubscribeRequest(j, j.signals)
             n == NotSent(j)
             x == [n EXCEPT !.reconnectTimer = TRUE]
  <2>1. /\ j \in ClientStates /\ LetsGo(k, j)
        /\ j.port = k.port /\ j.id = k.id /\ j.signals = k.signals
        /\ j.lastSequence = k.lastSequence /\ j.taken = k.taken
        /\ j.nextRequestId = k.nextRequestId
        /\ j.reconnecting = k.reconnecting
    BY <1>1, TimersLetGo DEF ClientStates
  <2>2. /\ j.port # NoPort /\ j.id = NoId /\ j.nextRequestId <= MaxRequests /\ j.reconnecting
        /\ UNCHANGED toClient
        /\ \/ Become(c, Requesting(j, q)) /\ toServer' = toServer \cup {q}
           \/ Become(c, x) /\ UNCHANGED toServer
    BY <1>4 DEF ReconnectTimeout, CanSubscribe
  <2> HIDE DEF j
  <2>3. j.signals \in Selections
    BY <1>1, <2>1, <2>2, GoodNow DEF Good, HasSignals, ClientStates
  <2>4. CASE Become(c, Requesting(j, q)) /\ toServer' = toServer \cup {q}
    <3>1. q \in Requests /\ q.from = j.port /\ q.requestId = j.nextRequestId
      <4>1. q \in Requests
        BY <2>1, <2>2, <2>3, WellFormedRequests
      <4> QED
        BY <4>1 DEF SubscribeRequest
    <3> HIDE DEF q
    <3>2. Sends(c, Requesting(j, q), q)
      BY <1>1, <2>1, <2>2, <2>4, <3>1, RequestingSends
    <3> QED
      BY <2>4, <3>1, <3>2 DEF Kind, OneOfFive
  <2>5. CASE Become(c, x) /\ UNCHANGED toServer
    <3>1. n \in ClientStates /\ LetsGo(j, n)
      BY <2>1, <2>2, NotSentLetsGo
    <3> HIDE DEF n
    <3>2. x \in ClientStates /\ LetsGo(n, x)
      BY <3>1, TimersLetGo DEF ClientStates
    <3> HIDE DEF x
    <3>3. LetsGo(k, x)
      BY <1>1, <2>1, <3>1, <3>2, LetsGoComposes
    <3> QED
      BY <2>2, <2>5, <3>3 DEF Kind, OneOfFive, Quiet
  <2> QED
    BY <2>2, <2>4, <2>5
<1> QED
  BY <1>2, <1>3, <1>4

\* A datagram arrives.
LEMMA DatagramKind ==
  ASSUME IInv, NEW c \in Clients, NEW m \in toClient,
         \/ ReceiveSubscribeResponse(c, m) \/ ReceiveUnsubscribeResponse(c, m)
         \/ ReceiveLiveData(c, m) \/ ReceiveErrorResponse(c, m)
  PROVE  Kind(c)
<1> DEFINE k == clients[c]
           d == RequestDone(k)
<1>1. k \in ClientStates /\ UNCHANGED wireVars
  BY GoodNow DEF Good, ReceiveSubscribeResponse, ReceiveUnsubscribeResponse, ReceiveLiveData,
                 ReceiveErrorResponse
<1>2. ASSUME NEW x, Become(c, x), LetsGo(k, x)
      PROVE  Kind(c)
  BY <1>1, <1>2 DEF Kind, OneOfFive, Quiet, wireVars
<1>3. /\ LetsGo(k, Error(d)) /\ LetsGo(k, Error(FailedRecovery(d)))
      /\ LetsGo(k, Error(FailedRecovery(k))) /\ LetsGo(k, GivenUp(k))
  BY <1>1, DoneLetsGo, GivenUpLetsGo
<1>4. CASE ReceiveSubscribeResponse(c, m) /\ m.result = "Ok"
  <2>1. Become(c, Subscribed(k, m.id)) /\ Accepting(m)
    BY <1>4 DEF ReceiveSubscribeResponse, Accepting
  <2>2. d \in ClientStates /\ d.port = k.port /\ d.pending = NoRequest
        /\ d.nextRequestId = k.nextRequestId /\ d.mixed = k.mixed
    BY <1>1, Types DEF RequestDone, ClientStates
  <2> HIDE DEF d
  <2> DEFINE x == Subscribed(k, m.id)
  <2>3. /\ x.id = m.id /\ x.signals = k.pending.selection /\ x.pending = NoRequest
        /\ x.lastSequence = 0 /\ x.taken = 0
        /\ x.port = k.port /\ x.nextRequestId = k.nextRequestId /\ x.mixed = k.mixed
    BY <2>2 DEF Subscribed, ClientStates, d
  <2> HIDE DEF x
  <2>4. Learns(c, x, m)
    BY <1>1, <1>4, <2>1, <2>3 DEF Learns, ReceiveSubscribeResponse, Awaited
  <2> QED
    BY <2>1, <2>4 DEF Kind, OneOfFive, x
<1>5. CASE ReceiveSubscribeResponse(c, m) /\ m.result # "Ok"
  BY <1>2, <1>3, <1>5 DEF ReceiveSubscribeResponse
<1>6. CASE ReceiveUnsubscribeResponse(c, m)
  <2>1. LetsGo(k, Unsubscribed(k))
    <3>1. k.nextRequestId \in Int
      BY <1>1, WireAssumption DEF ClientStates, Ids
    <3> QED
      BY <1>1, <3>1 DEF LetsGo, Unsubscribed, RequestDone, ClientStates
  <2> QED
    BY <1>2, <1>3, <1>6, <2>1 DEF ReceiveUnsubscribeResponse
<1>7. CASE ReceiveLiveData(c, m)
  BY <1>1, <1>7 DEF ReceiveLiveData, Kind, OneOfFive, Takes
<1>8. CASE ReceiveErrorResponse(c, m)
  BY <1>2, <1>3, <1>8 DEF ReceiveErrorResponse
<1> QED
  BY <1>4, <1>5, <1>6, <1>7, <1>8

\* Every step of a monitor is of one of the five kinds.
LEMMA ClientStepKind ==
  ASSUME IInv, NEW c \in Clients, ClientNext(c)
  PROVE  Kind(c)
BY OpenKind, StartKind, StopKind, TimerKind, DatagramKind DEF ClientNext

-----------------------------------------------------------------------------
(* The steps keep what is promised. *)

\* Something is promised by a subscription, a packet of data, an answer to a request
\* still in flight, or an answer in the cache.
Promised(a) ==
  \/ \E s \in subscriptions : a = [id |-> s.id, to |-> s.to, selection |-> s.selection]
  \/ \E m \in toClient :
       m.type = "LiveData" /\ a = [id |-> m.id, to |-> m.to, selection |-> m.valuesOf]
  \/ \E m \in toClient, q \in toServer :
       Accepts(m, q) /\ a = [id |-> m.id, to |-> m.to, selection |-> q.selection]
  \/ \E e \in responses :
       /\ Accepts(e.response, e.request)
       /\ a = [id |-> e.response.id, to |-> e.request.from, selection |-> e.request.selection]

LEMMA PromisesAre == \A a : a \in Promises <=> Promised(a)
<1> SUFFICES ASSUME NEW a PROVE a \in Promises <=> Promised(a)
  OBVIOUS
<1>1. ASSUME a \in {[id |-> x[1].id, to |-> x[1].to, selection |-> x[2].selection] :
                      x \in {y \in toClient \X toServer : Accepts(y[1], y[2])}}
      PROVE  \E m \in toClient, q \in toServer :
               Accepts(m, q) /\ a = [id |-> m.id, to |-> m.to, selection |-> q.selection]
  BY <1>1
<1>2. ASSUME NEW m \in toClient, NEW q \in toServer, Accepts(m, q),
             a = [id |-> m.id, to |-> m.to, selection |-> q.selection]
      PROVE  a \in {[id |-> x[1].id, to |-> x[1].to, selection |-> x[2].selection] :
                      x \in {y \in toClient \X toServer : Accepts(y[1], y[2])}}
  <2>1. <<m, q>> \in {y \in toClient \X toServer : Accepts(y[1], y[2])}
    BY <1>2
  <2> QED
    BY <1>2, <2>1
<1> QED
  BY <1>1, <1>2 DEF Promises, Promised

\* The same of the state after a step.
LEMMA PromisesAreAfter == \A a : a \in Promises' <=> Promised(a)'
<1> SUFFICES ASSUME NEW a PROVE a \in Promises' <=> Promised(a)'
  OBVIOUS
<1>1. ASSUME a \in {[id |-> x[1].id, to |-> x[1].to, selection |-> x[2].selection] :
                      x \in {y \in toClient' \X toServer' : Accepts(y[1], y[2])}}
      PROVE  \E m \in toClient', q \in toServer' :
               Accepts(m, q) /\ a = [id |-> m.id, to |-> m.to, selection |-> q.selection]
  BY <1>1
<1>2. ASSUME NEW m \in toClient', NEW q \in toServer', Accepts(m, q),
             a = [id |-> m.id, to |-> m.to, selection |-> q.selection]
      PROVE  a \in {[id |-> x[1].id, to |-> x[1].to, selection |-> x[2].selection] :
                      x \in {y \in toClient' \X toServer' : Accepts(y[1], y[2])}}
  <2>1. <<m, q>> \in {y \in toClient' \X toServer' : Accepts(y[1], y[2])}
    BY <1>2
  <2> QED
    BY <1>2, <2>1
<1> QED
  BY <1>1, <1>2 DEF Promises, Promised, Accepts

\* The types of what the invariant compares.
LEMMA SessionFacts ==
  ASSUME IInv
  PROVE  /\ nextId \in Nat /\ nextId # NoId
         /\ \A q \in toServer : q \in Requests
         /\ \A q \in Requests : q.from \in Ports /\ q.requestId \in Int /\ q # NoRequest
         /\ \A m \in toClient : m \in Answers
         /\ \A c \in Clients : /\ clients[c] \in ClientStates
                               /\ clients[c].id \in Nat /\ clients[c].nextRequestId \in Int
                               /\ clients[c].pending # NoRequest =>
                                    clients[c].pending \in Requests
                               /\ clients[c].pending.type = "Subscribe" => clients[c].id = NoId
<1>1. nextId \in Nat /\ nextId # NoId
  BY WireAssumption DEF IInv, TypeOK, ServerTypeOK, Ids, AnswersHaveIds
<1>2. \A q \in toServer : q \in Requests
  BY DEF IInv, TypeOK, WireTypeOK
<1>3. \A q \in Requests : q.from \in Ports /\ q.requestId \in Int /\ q # NoRequest
  BY WireAssumption DEF Requests, SubscribeRequests, UnsubscribeRequests, NoRequest, Ids
<1>4. \A m \in toClient : m \in Answers
  BY DEF IInv, TypeOK, WireTypeOK
<1>5. ASSUME NEW c \in Clients
      PROVE  /\ clients[c] \in ClientStates
             /\ clients[c].id \in Nat /\ clients[c].nextRequestId \in Int
             /\ clients[c].pending # NoRequest => clients[c].pending \in Requests
             /\ clients[c].pending.type = "Subscribe" => clients[c].id = NoId
  <2>1. Good(clients[c]) /\ clients[c] \in ClientStates
    BY GoodNow DEF Good
  <2>2. clients[c].id \in Nat /\ clients[c].nextRequestId \in Int
    BY <2>1, WireAssumption DEF ClientStates, Ids
  <2>3. clients[c].pending # NoRequest => clients[c].pending \in Requests
    BY <2>1, PendingType
  <2>4. clients[c].pending.type = "Subscribe" => clients[c].id = NoId
    BY <2>1, Idle DEF Good, Matches, ClientStates, MonitorStates
  <2> QED
    BY <2>1, <2>2, <2>3, <2>4
<1> QED
  BY <1>1, <1>2, <1>3, <1>4, <1>5

\* A step of a monitor that sends at most its own request once more.
LEMMA QuietKeeps ==
  ASSUME IInv, DInv, NEW c \in Clients, NEW x \in ClientStates, Become(c, x), Quiet(c, x),
         UNCHANGED serverVars
  PROVE  DInv'
<1> DEFINE k == clients[c]
<1>1. \A d \in Clients : clients'[d] = IF d = c THEN x ELSE clients[d]
  BY DEF Become, IInv, TypeOK, ClientTypeOK
<1>2. /\ nextId' = nextId /\ subscriptions' = subscriptions /\ responses' = responses
      /\ toClient' = toClient
  BY DEF serverVars, Quiet
<1>3. \A q \in toServer' : q \in toServer \/ (k.pending # NoRequest /\ q = k.pending)
  BY DEF Quiet
<1>4. toServer \subseteq toServer'
  BY DEF Quiet
<1>5. Numbered(k)
  BY DEF DInv, RequestsAreNumbered
<1>6. PortsAreDistinct'
  BY <1>1 DEF DInv, PortsAreDistinct, Quiet, LetsGo
<1>7. k.pending # NoRequest => /\ k.pending \in Requests /\ k.pending.from = k.port
                               /\ k.port # NoPort
                               /\ \A d \in Clients \ {c} : clients[d].port # k.port
  BY <1>5, SessionFacts, Idle DEF Numbered, DInv, PortsAreDistinct
<1>8. RequestsAreNumbered'
  <2>1. ASSUME NEW a \in toServer', NEW b \in toServer', SameNumber(a, b)
        PROVE  a = b
    BY <1>3, <1>5, <2>1 DEF DInv, RequestsAreNumbered, Numbered, SameNumber
  <2>2. Numbered(x)'
    <3>1. k.nextRequestId \in Int /\ \A q \in Requests : q.from \in Ports /\ q.requestId \in Int
      BY SessionFacts
    <3>2. \A q \in toServer' : q \in Requests
      BY <1>3, SessionFacts
    <3>3. CASE x.port = k.port /\ x.nextRequestId >= k.nextRequestId
      <4>1. x.nextRequestId \in Int /\ x.pending \in {k.pending, NoRequest}
        BY WireAssumption DEF Quiet, LetsGo, ClientStates, Ids
      <4>2. ASSUME NEW q \in toServer', q.from = x.port
            PROVE  q.requestId < x.nextRequestId
        BY <1>3, <1>5, <1>7, <3>1, <3>2, <3>3, <4>1, <4>2 DEF Numbered
      <4>3. ASSUME x.pending # NoRequest, NEW q \in toServer', SameNumber(q, x.pending)
            PROVE  q = x.pending
        BY <1>3, <1>5, <4>1, <4>3 DEF Numbered
      <4>4. x.pending # NoRequest =>
              x.pending.from = x.port /\ x.pending.requestId < x.nextRequestId
        BY <1>5, <1>7, <3>1, <3>3, <4>1 DEF Numbered
      <4> QED
        BY <4>2, <4>3, <4>4 DEF Numbered, SameNumber
    <3>4. CASE x.port = NoPort /\ x.pending = NoRequest
      BY <3>1, <3>2, <3>4, Idle DEF Numbered
    <3> QED
      BY <3>3, <3>4 DEF Quiet, LetsGo
  <2>3. ASSUME NEW d \in Clients, d # c
        PROVE  Numbered(clients[d])'
    <3>1. Numbered(clients[d])
      BY DEF DInv, RequestsAreNumbered
    <3> QED
      BY <1>1, <1>3, <1>7, <2>3, <3>1 DEF Numbered, SameNumber
  <2> QED
    BY <1>1, <2>1, <2>2, <2>3 DEF RequestsAreNumbered, Numbered, SameNumber
<1>9. AnswersHaveRequests'
  BY <1>2, <1>4 DEF DInv, AnswersHaveRequests, Accepts, Accepting
<1>10. Promises' \subseteq Promises
  <2>1. SUFFICES ASSUME NEW a, Promised(a)' PROVE Promised(a)
    BY PromisesAre, PromisesAreAfter
  <2>2. ASSUME NEW m \in toClient, NEW q \in toServer', Accepts(m, q)
        PROVE  q \in toServer
    <3>1. PICK p \in toServer : Accepts(m, p)
      BY <2>2 DEF DInv, AnswersHaveRequests, Accepts, Accepting
    <3>2. SameNumber(p, q)
      BY <2>2, <3>1 DEF Accepts, SameNumber
    <3> QED
      BY <1>3, <1>5, <3>1, <3>2 DEF Numbered
  <2> QED
    BY <1>2, <2>1, <2>2 DEF Promised, Accepts
<1>12. OnePromisePerId'
  BY <1>2, <1>10 DEF DInv, PromisesAreKept, OnePromisePerId
<1>13. ASSUME NEW d \in Clients
       PROVE  Served(clients[d])'
  <2>1. Served(clients[d]) /\ Served(k)
    BY DEF DInv, PromisesAreKept
  <2>2. nextId \in Nat \ {0} /\ \A q \in toServer' : q.from \in Ports
    BY <1>3, SessionFacts DEF NoId
  <2>3. CASE d # c
    <3>1. \A q \in toServer' : q.from = clients[d].port => q \in toServer
      BY <1>3, <1>7, <2>3
    <3> QED
      BY <1>1, <1>2, <1>10, <2>1, <2>3, <3>1 DEF Served
  <2>4. CASE d = c /\ x.id = NoId
    BY <1>1, <1>2, <2>2, <2>4 DEF Served, NoId
  <2>5. CASE d = c /\ x.id = k.id /\ x.signals = k.signals /\ x.id # NoId
    <3>1. x.port = k.port
      BY <2>5 DEF Quiet, LetsGo
    <3>2. \A q \in toServer' : q.type = "Subscribe" => q \in toServer
      BY <1>3, <2>5, SessionFacts
    <3> QED
      BY <1>1, <1>2, <1>10, <2>1, <2>5, <3>1, <3>2 DEF Served
  <2> QED
    BY <2>3, <2>4, <2>5 DEF Quiet, LetsGo
<1>14. DataBelongsToSubscription'
  BY <1>1 DEF DInv, DataBelongsToSubscription, Quiet, LetsGo
<1> QED
  BY <1>6, <1>8, <1>9, <1>12, <1>13, <1>14 DEF DInv, PromisesAreKept, Served

\* A port that is opened is one nobody listens to, and nothing is in flight for it.
LEMMA OpensKeeps ==
  ASSUME IInv, DInv, NEW c \in Clients, NEW x \in ClientStates, NEW p \in Ports,
         Become(c, x), Opens(c, x, p), UNCHANGED serverVars
  PROVE  DInv'
<1>1. \A d \in Clients : clients'[d] = IF d = c THEN x ELSE clients[d]
  BY DEF Become, IInv, TypeOK, ClientTypeOK
<1>2. nextId' = nextId /\ subscriptions' = subscriptions /\ responses' = responses
  BY DEF serverVars
<1>3. /\ toServer' = {q \in toServer : q.from # p}
      /\ toClient' = {m \in toClient : m.to # p}
      /\ x.port = p /\ x.id = NoId /\ x.pending = NoRequest /\ x.mixed = clients[c].mixed
  BY DEF Opens
<1>4. PortsAreDistinct'
  BY <1>1 DEF DInv, PortsAreDistinct, Opens
<1>5. RequestsAreNumbered'
  <2>1. \A d \in Clients : Numbered(clients[d])
    BY DEF DInv, RequestsAreNumbered
  <2>2. \A d \in Clients : Numbered(clients[d])'
    BY <1>1, <1>3, <2>1 DEF Numbered
  <2> QED
    BY <1>3, <2>2 DEF DInv, RequestsAreNumbered, Numbered, SameNumber
<1>6. AnswersHaveRequests'
  BY <1>2, <1>3 DEF DInv, AnswersHaveRequests, Accepts, Accepting
<1>7. Promises' \subseteq Promises
  <2>1. SUFFICES ASSUME NEW a, Promised(a)' PROVE Promised(a)
    BY PromisesAre, PromisesAreAfter
  <2> QED
    BY <1>2, <1>3, <2>1 DEF Promised, Accepts
<1>8. OnePromisePerId'
  BY <1>2, <1>7 DEF DInv, PromisesAreKept, OnePromisePerId
<1>9. ASSUME NEW d \in Clients
      PROVE  Served(clients[d])'
  <2>1. Served(clients[d])
    BY DEF DInv, PromisesAreKept
  <2>2. nextId \in Nat \ {0}
    BY SessionFacts DEF NoId
  <2>3. CASE d # c
    BY <1>1, <1>2, <1>3, <1>7, <2>1, <2>3 DEF Served
  <2>4. CASE d = c
    BY <1>1, <1>2, <1>3, <2>2, <2>4 DEF Served, NoId
  <2> QED
    BY <2>3, <2>4
<1>10. DataBelongsToSubscription'
  BY <1>1, <1>3 DEF DInv, DataBelongsToSubscription
<1> QED
  BY <1>4, <1>5, <1>6, <1>8, <1>9, <1>10 DEF DInv, PromisesAreKept, Served

\* A new request has a number no answer in flight carries.
LEMMA SendsKeeps ==
  ASSUME IInv, DInv, NEW c \in Clients, NEW x \in ClientStates, NEW q \in Requests,
         Become(c, x), Sends(c, x, q), UNCHANGED serverVars
  PROVE  DInv'
<1> DEFINE k == clients[c]
<1>1. \A d \in Clients : clients'[d] = IF d = c THEN x ELSE clients[d]
  BY DEF Become, IInv, TypeOK, ClientTypeOK
<1>2. nextId' = nextId /\ subscriptions' = subscriptions /\ responses' = responses
  BY DEF serverVars
<1>3. /\ q.from = k.port /\ q.requestId = k.nextRequestId
      /\ q.type = "Subscribe" => k.id = NoId
      /\ x.pending = q /\ x.nextRequestId = k.nextRequestId + 1
      /\ x.port = k.port /\ x.id = k.id /\ x.signals = k.signals /\ x.mixed = k.mixed
      /\ toServer' = toServer \cup {q} /\ toClient' = toClient
  BY DEF Sends
<1>4. k.nextRequestId \in Int /\ q.from \in Ports /\ k.port # NoPort
  BY <1>3, SessionFacts, Idle
<1>5. Numbered(k) /\ \A r \in toServer : r.requestId \in Int
  BY SessionFacts DEF DInv, RequestsAreNumbered
<1>6. \A r \in toServer : ~SameNumber(r, q)
  BY <1>3, <1>4, <1>5 DEF Numbered, SameNumber
<1>7. PortsAreDistinct'
  BY <1>1, <1>3 DEF DInv, PortsAreDistinct
<1>8. \A d \in Clients \ {c} : clients[d].port # k.port
  BY <1>4 DEF DInv, PortsAreDistinct
<1>9. RequestsAreNumbered'
  <2>1. ASSUME NEW a \in toServer', NEW b \in toServer', SameNumber(a, b)
        PROVE  a = b
    BY <1>3, <1>6, <2>1 DEF DInv, RequestsAreNumbered, SameNumber
  <2>2. Numbered(x)'
    <3>1. \A r \in toServer' : r.from = x.port => r.requestId < x.nextRequestId
      BY <1>3, <1>4, <1>5 DEF Numbered
    <3>2. \A r \in toServer' : SameNumber(r, q) => r = q
      BY <1>3, <1>6
    <3> QED
      BY <1>3, <1>4, <3>1, <3>2 DEF Numbered, SameNumber
  <2>3. ASSUME NEW d \in Clients, d # c
        PROVE  Numbered(clients[d])'
    <3>1. Numbered(clients[d])
      BY DEF DInv, RequestsAreNumbered
    <3> QED
      BY <1>1, <1>3, <1>8, <2>3, <3>1 DEF Numbered, SameNumber
  <2> QED
    BY <1>1, <2>1, <2>2, <2>3 DEF RequestsAreNumbered, Numbered, SameNumber
<1>10. AnswersHaveRequests'
  BY <1>2, <1>3 DEF DInv, AnswersHaveRequests, Accepts, Accepting
<1>11. Promises' \subseteq Promises
  <2>1. SUFFICES ASSUME NEW a, Promised(a)' PROVE Promised(a)
    BY PromisesAre, PromisesAreAfter
  <2>2. \A m \in toClient : ~Accepts(m, q)
    BY <1>6 DEF DInv, AnswersHaveRequests, Accepts, Accepting, SameNumber
  <2> QED
    BY <1>2, <1>3, <2>1, <2>2 DEF Promised, Accepts
<1>12. OnePromisePerId'
  BY <1>2, <1>11 DEF DInv, PromisesAreKept, OnePromisePerId
<1>13. ASSUME NEW d \in Clients
       PROVE  Served(clients[d])'
  <2>1. Served(clients[d])
    BY DEF DInv, PromisesAreKept
  <2>2. nextId \in Nat \ {0}
    BY SessionFacts DEF NoId
  <2>3. CASE d # c
    BY <1>1, <1>2, <1>3, <1>8, <1>11, <2>1, <2>3 DEF Served
  <2>4. CASE d = c /\ k.id = NoId
    BY <1>1, <1>2, <1>3, <2>2, <2>4 DEF Served, NoId
  <2>5. CASE d = c /\ k.id # NoId
    BY <1>1, <1>2, <1>3, <1>11, <2>1, <2>5 DEF Served
  <2> QED
    BY <2>3, <2>4, <2>5
<1>14. DataBelongsToSubscription'
  BY <1>1, <1>3 DEF DInv, DataBelongsToSubscription
<1> QED
  BY <1>7, <1>9, <1>10, <1>12, <1>13, <1>14 DEF DInv, PromisesAreKept, Served

\* The answer a monitor takes is to the request that is pending: there is no other
\* request with that number.
LEMMA LearnsKeeps ==
  ASSUME IInv, DInv, NEW c \in Clients, NEW x \in ClientStates, NEW m \in toClient,
         Become(c, x), Learns(c, x, m), UNCHANGED serverVars
  PROVE  DInv'
<1> DEFINE k == clients[c]
           t == [id |-> m.id, to |-> m.to, selection |-> k.pending.selection]
<1>1. \A d \in Clients : clients'[d] = IF d = c THEN x ELSE clients[d]
  BY DEF Become, IInv, TypeOK, ClientTypeOK
<1>2. UNCHANGED <<wireVars, serverVars>>
  BY DEF Learns
<1>3. /\ Accepting(m) /\ m.to = k.port
      /\ k.pending # NoRequest /\ m.requestId = k.pending.requestId
      /\ x.id = m.id /\ x.signals = k.pending.selection /\ x.pending = NoRequest
      /\ x.port = k.port /\ x.nextRequestId = k.nextRequestId /\ x.mixed = k.mixed
  BY DEF Learns
<1>4. Numbered(k)
  BY DEF DInv, RequestsAreNumbered
<1>5. t \in Promises
  <2>1. PICK q \in toServer : Accepts(m, q)
    BY <1>3 DEF DInv, AnswersHaveRequests
  <2>2. q = k.pending
    BY <1>3, <1>4, <2>1 DEF Numbered, Accepts, SameNumber
  <2> QED
    BY <1>3, <2>1, <2>2, PromisesAre DEF Promised
<1>6. PortsAreDistinct'
  BY <1>1, <1>3 DEF DInv, PortsAreDistinct
<1>7. RequestsAreNumbered'
  <2>1. \A d \in Clients : Numbered(clients[d])'
    BY <1>1, <1>2, <1>3, <1>4 DEF DInv, RequestsAreNumbered, Numbered, wireVars
  <2> QED
    BY <1>2, <2>1 DEF DInv, RequestsAreNumbered, Numbered, SameNumber, wireVars
<1>8. AnswersHaveRequests'
  BY <1>2 DEF DInv, AnswersHaveRequests, Accepts, Accepting, wireVars, serverVars
<1>9. Promises' = Promises
  BY <1>2 DEF Promises, Accepts, wireVars, serverVars
<1>10. OnePromisePerId'
  BY <1>2, <1>9 DEF DInv, PromisesAreKept, OnePromisePerId, serverVars
<1>11. ASSUME NEW d \in Clients
       PROVE  Served(clients[d])'
  <2>1. CASE d # c
    BY <1>1, <1>2, <1>9, <2>1 DEF DInv, PromisesAreKept, Served, wireVars, serverVars
  <2>2. CASE d = c
    <3>1. m.id < nextId /\ nextId \in Nat
      BY <1>5, SessionFacts DEF DInv, PromisesAreKept, OnePromisePerId
    <3>2. m.id \in Nat
      BY <1>1, <1>3, WireAssumption DEF ClientStates, Ids
    <3>3. ~(x.id >= nextId)
      BY <1>3, <3>1, <3>2
    <3>4. \A a \in Promises : a.id = x.id => a.selection = x.signals
      BY <1>3, <1>5 DEF DInv, PromisesAreKept, OnePromisePerId
    <3> QED
      BY <1>1, <1>2, <1>9, <2>2, <3>3, <3>4 DEF Served, wireVars, serverVars
  <2> QED
    BY <2>1, <2>2
<1>12. DataBelongsToSubscription'
  BY <1>1, <1>3 DEF DInv, DataBelongsToSubscription
<1> QED
  BY <1>6, <1>7, <1>8, <1>10, <1>11, <1>12 DEF DInv, PromisesAreKept, Served

\* A packet of data that a monitor takes was promised to it.
LEMMA TakesKeeps ==
  ASSUME IInv, DInv, NEW c \in Clients, NEW x \in ClientStates, NEW m \in toClient,
         Become(c, x), Takes(c, x, m), UNCHANGED serverVars
  PROVE  DInv'
<1> DEFINE k == clients[c]
           t == [id |-> m.id, to |-> m.to, selection |-> m.valuesOf]
<1>1. \A d \in Clients : clients'[d] = IF d = c THEN x ELSE clients[d]
  BY DEF Become, IInv, TypeOK, ClientTypeOK
<1>2. UNCHANGED <<wireVars, serverVars>> /\ m.type = "LiveData" /\ m.to = k.port /\ m.id = k.id
      /\ k.id # NoId
  BY DEF Takes, TakesData, IsDataFor
<1>3. m.valuesOf = k.signals
  <2>1. t \in Promises
    BY <1>2, PromisesAre DEF Promised
  <2> QED
    BY <1>2, <2>1 DEF DInv, PromisesAreKept, Served
<1>4. ~k.mixed
  BY DEF DInv, DataBelongsToSubscription
<1>5. /\ ~x.mixed /\ x.port = k.port /\ x.id = k.id /\ x.signals = k.signals
      /\ x.pending = k.pending /\ x.nextRequestId = k.nextRequestId
  BY <1>3, <1>4, SessionFacts DEF Takes, ClientStates
<1>6. PortsAreDistinct'
  BY <1>1, <1>5 DEF DInv, PortsAreDistinct
<1>7. RequestsAreNumbered'
  <2>1. \A d \in Clients : Numbered(clients[d])'
    BY <1>1, <1>2, <1>5 DEF DInv, RequestsAreNumbered, Numbered, wireVars, SameNumber
  <2> QED
    BY <1>2, <2>1 DEF DInv, RequestsAreNumbered, Numbered, SameNumber, wireVars
<1>8. AnswersHaveRequests'
  BY <1>2 DEF DInv, AnswersHaveRequests, Accepts, Accepting, wireVars, serverVars
<1>9. Promises' = Promises
  BY <1>2 DEF Promises, Accepts, wireVars, serverVars
<1>10. OnePromisePerId'
  BY <1>2, <1>9 DEF DInv, PromisesAreKept, OnePromisePerId, serverVars
<1>11. \A d \in Clients : Served(clients[d])'
  BY <1>1, <1>2, <1>5, <1>9 DEF DInv, PromisesAreKept, Served, wireVars, serverVars
<1>12. DataBelongsToSubscription'
  BY <1>1, <1>5 DEF DInv, DataBelongsToSubscription
<1> QED
  BY <1>6, <1>7, <1>8, <1>10, <1>11, <1>12 DEF DInv, PromisesAreKept, Served

-----------------------------------------------------------------------------
(* The steps of the server keep what is promised. *)

\* The ids that are promised are numbers.
LEMMA PromisesHaveIds == IInv => \A a \in Promises : a.id \in Nat
<1> SUFFICES ASSUME IInv, NEW a, Promised(a) PROVE a.id \in Nat
  BY PromisesAre
<1>1. \A i \in Ids : i \in Nat
  BY WireAssumption DEF Ids
<1>2. \A m \in Answers : m.type = "LiveData" \/ m.type = "SubscribeResponse" => m.id \in Ids
  BY DEF Answers, SubscribeResponses, UnsubscribeResponses, LiveData, ErrorResponses
<1>3. \A s \in subscriptions : s.id \in Ids
  BY DEF IInv, TypeOK, ServerTypeOK, Subscriptions
<1>4. toClient \subseteq Answers /\ \A e \in responses : e.response \in Answers
  BY DEF IInv, TypeOK, WireTypeOK, ServerTypeOK, CacheEntries
<1> QED
  BY <1>1, <1>2, <1>3, <1>4 DEF Promised, Accepts

\* A step of the server that promises nothing.
LEMMA ServerKeeps ==
  ASSUME IInv, DInv, UNCHANGED <<clients, toServer>>, nextId' = nextId,
         AnswersHaveRequests',
         \A a : Promised(a)' => Promised(a)
  PROVE  DInv'
<1>1. Promises' \subseteq Promises
  BY PromisesAre, PromisesAreAfter
<1>2. PortsAreDistinct' /\ DataBelongsToSubscription'
  BY DEF DInv, PortsAreDistinct, DataBelongsToSubscription
<1>3. RequestsAreNumbered'
  BY DEF DInv, RequestsAreNumbered, Numbered, SameNumber
<1>4. PromisesAreKept'
  BY <1>1 DEF DInv, PromisesAreKept, OnePromisePerId, Served
<1> QED
  BY <1>2, <1>3, <1>4 DEF DInv

\* An answer from the cache to the same request was promised already.
LEMMA AnswerFromCacheKeeps ==
  ASSUME IInv, DInv, NEW q \in toServer, AnswerFromCache(q), UNCHANGED clients
  PROVE  DInv'
<1>1. PICK e \in CachedFor(q) : toClient' = toClient \cup {Repeated(e, q)}
  BY DEF AnswerFromCache
<1>2. UNCHANGED <<toServer, serverVars>>
  BY DEF AnswerFromCache
<1>3. e \in responses
  BY <1>1 DEF CachedFor
<1>4. AnswersHaveRequests'
  <2>1. Accepting(Repeated(e, q)) => Accepts(Repeated(e, q), q)
    BY <1>3 DEF Repeated, Accepting, DInv, AnswersHaveRequests
  <2> QED
    BY <1>1, <1>2, <2>1 DEF DInv, AnswersHaveRequests, Accepts, Accepting, serverVars
<1>5. ASSUME NEW a, Promised(a)'
      PROVE  Promised(a)
  <2>1. Repeated(e, q).type # "LiveData"
    BY <1>3 DEF Repeated, DInv, AnswersHaveRequests
  <2>2. ASSUME NEW r \in toServer, Accepts(Repeated(e, q), r)
        PROVE  /\ Repeated(e, q) = e.response /\ e.request = q /\ r = q
               /\ Accepts(e.response, e.request)
    <3>1. e.request = q /\ Repeated(e, q) = e.response
      BY <2>2 DEF Repeated, Accepts
    <3>2. Accepts(e.response, e.request)
      BY <1>3, <2>2, <3>1 DEF DInv, AnswersHaveRequests, Accepts, Accepting
    <3>3. r = q
      BY <2>2, <3>1, <3>2 DEF DInv, RequestsAreNumbered, SameNumber, Accepts
    <3> QED
      BY <3>1, <3>2, <3>3
  <2>3. ASSUME NEW r \in toServer, Accepts(Repeated(e, q), r),
               a = [id |-> Repeated(e, q).id, to |-> Repeated(e, q).to,
                    selection |-> r.selection]
        PROVE  Promised(a)
    <3>1. a = [id |-> e.response.id, to |-> e.request.from, selection |-> e.request.selection]
      BY <2>2, <2>3 DEF Accepts
    <3> QED
      BY <1>3, <2>2, <2>3, <3>1 DEF Promised
  <2> QED
    BY <1>1, <1>2, <1>5, <2>1, <2>3 DEF Promised, Accepts, serverVars
<1> QED
  BY <1>2, <1>4, <1>5, ServerKeeps DEF serverVars

\* A subscription is promised under an id that was not given away yet.
LEMMA SubscribeKeeps ==
  ASSUME IInv, DInv, NEW q \in toServer, Subscribe(q), UNCHANGED clients
  PROVE  DInv'
<1>1. q \in Requests /\ q.type = "Subscribe" /\ UNCHANGED <<toServer, clients>>
  BY SessionFacts DEF Subscribe
<1>2. CASE q.selection \in known
  <2> DEFINE a == SubscribeResponse(q, "Ok", nextId)
             n == [request |-> q, response |-> a]
             s == NewSubscription(q)
             t == [id |-> nextId, to |-> q.from, selection |-> q.selection]
  <2>1. /\ nextId' = nextId + 1 /\ responses' = responses \cup {n}
        /\ toClient' = toClient \cup {a} /\ subscriptions' = subscriptions \cup {s}
    BY <1>2 DEF Subscribe, Reply
  <2>2. /\ Accepts(a, q) /\ Accepting(a) /\ a.id = nextId /\ a.to = q.from
        /\ n.request = q /\ n.response = a
    BY <1>1 DEF Accepts, Accepting, SubscribeResponse
  <2>3. s.id = nextId /\ s.to = q.from /\ s.selection = q.selection
    BY DEF NewSubscription
  <2> HIDE DEF a, n, s
  <2>4. AnswersHaveRequests'
    <3>1. a.type # "LiveData"
      BY <2>2 DEF Accepting
    <3> QED
      BY <1>1, <2>1, <2>2, <3>1 DEF DInv, AnswersHaveRequests, Accepts, Accepting
  <2>5. ASSUME NEW b, Promised(b)'
        PROVE  Promised(b) \/ b = t
    <3>1. \A r \in toServer : Accepts(a, r) => r = q
      BY <2>2 DEF DInv, RequestsAreNumbered, SameNumber, Accepts
    <3>2. a.type # "LiveData"
      BY <2>2 DEF Accepting
    <3> QED
      BY <1>1, <2>1, <2>2, <2>3, <2>5, <3>1, <3>2 DEF Promised, Accepts
  <2>6. Promises' \subseteq Promises \cup {t}
    BY <2>5, PromisesAre, PromisesAreAfter
  <2>7. nextId \in Nat /\ t.id = nextId /\ t.to = q.from
    BY SessionFacts
  <2> HIDE DEF t
  <2>8. OnePromisePerId'
    <3>1. \A b \in Promises : b.id < nextId /\ b.id \in Int
      BY PromisesHaveIds DEF DInv, PromisesAreKept, OnePromisePerId
    <3> QED
      BY <2>1, <2>6, <2>7, <3>1 DEF DInv, PromisesAreKept, OnePromisePerId
  <2>9. ASSUME NEW c \in Clients
        PROVE  Served(clients[c])'
    <3>1. Served(clients[c]) /\ clients[c].id \in Nat
      BY SessionFacts DEF DInv, PromisesAreKept
    <3>2. ~(clients[c].id = nextId /\ clients[c].port = q.from)
      BY <1>1, <2>7, <3>1 DEF Served
    <3> QED
      BY <1>1, <2>1, <2>6, <2>7, <3>1, <3>2 DEF Served
  <2>10. PortsAreDistinct' /\ DataBelongsToSubscription'
    BY <1>1 DEF DInv, PortsAreDistinct, DataBelongsToSubscription
  <2>11. RequestsAreNumbered'
    BY <1>1 DEF DInv, RequestsAreNumbered, Numbered, SameNumber
  <2> QED
    BY <2>4, <2>8, <2>9, <2>10, <2>11 DEF DInv, PromisesAreKept, Served
<1>3. CASE q.selection \notin known
  <2> DEFINE a == SubscribeResponse(q, "InvalidSignal", NoId)
             n == [request |-> q, response |-> a]
  <2>1. /\ nextId' = nextId /\ responses' = responses \cup {n}
        /\ toClient' = toClient \cup {a} /\ subscriptions' = subscriptions
    BY <1>3 DEF Subscribe, Reply
  <2>2. ~Accepting(a) /\ a.type # "LiveData" /\ n.response = a
    BY DEF Accepting, SubscribeResponse
  <2> HIDE DEF a, n
  <2>3. AnswersHaveRequests'
    BY <1>1, <2>1, <2>2 DEF DInv, AnswersHaveRequests, Accepts, Accepting
  <2>4. \A b : Promised(b)' => Promised(b)
    BY <1>1, <2>1, <2>2 DEF Promised, Accepts, Accepting
  <2> QED
    BY <1>1, <2>1, <2>3, <2>4, ServerKeeps
<1> QED
  BY <1>2, <1>3

\* The other steps of the server only take promises back, or keep one.
LEMMA OtherServerStepsKeep ==
  ASSUME IInv, DInv, UNCHANGED clients,
         \/ \E q \in toServer : Unsubscribe(q)
         \/ \E s \in subscriptions : Expire(s) \/ PublishData(s)
         \/ \E e \in responses : DropCachedResponse(e)
         \/ RestartServer
  PROVE  DInv'
<1>1. ASSUME NEW q \in toServer, Unsubscribe(q)
      PROVE  DInv'
  <2> DEFINE a == UnsubscribeResponse(q, IF Addressed(q) = {} THEN "InvalidId" ELSE "Ok")
             n == [request |-> q, response |-> a]
  <2>1. /\ UNCHANGED <<toServer, nextId>> /\ responses' = responses \cup {n}
        /\ toClient' = toClient \cup {a} /\ subscriptions' \subseteq subscriptions
    BY <1>1 DEF Unsubscribe, Reply
  <2>2. a.type = "UnsubscribeResponse" /\ n.response = a
    BY DEF UnsubscribeResponse
  <2> HIDE DEF a, n
  <2>3. AnswersHaveRequests'
    BY <2>1, <2>2 DEF DInv, AnswersHaveRequests, Accepts, Accepting
  <2>4. \A b : Promised(b)' => Promised(b)
    BY <2>1, <2>2 DEF Promised, Accepts
  <2> QED
    BY <2>1, <2>3, <2>4, ServerKeeps
<1>2. ASSUME NEW s \in subscriptions, Expire(s)
      PROVE  DInv'
  <2>1. UNCHANGED <<wireVars, nextId, responses>> /\ subscriptions' \subseteq subscriptions
    BY <1>2 DEF Expire
  <2>2. AnswersHaveRequests'
    BY <2>1 DEF DInv, AnswersHaveRequests, Accepts, Accepting, wireVars
  <2>3. \A b : Promised(b)' => Promised(b)
    BY <2>1 DEF Promised, Accepts, wireVars
  <2> QED
    BY <2>1, <2>2, <2>3, ServerKeeps DEF wireVars
<1>3. ASSUME NEW s \in subscriptions, PublishData(s)
      PROVE  DInv'
  <2> DEFINE m == NextPacket(s)
             t == [s EXCEPT !.sequence = m.sequence, !.count = m.count]
  <2>1. /\ UNCHANGED <<toServer, nextId, responses>> /\ toClient' \subseteq toClient \cup {m}
        /\ subscriptions' = (subscriptions \ {s}) \cup {t}
    BY <1>3 DEF PublishData
  <2>2. s \in Subscriptions
    BY DEF IInv, TypeOK, ServerTypeOK
  <2>3. /\ t.id = s.id /\ t.to = s.to /\ t.selection = s.selection
        /\ m.type = "LiveData" /\ m.id = s.id /\ m.to = s.to /\ m.valuesOf = s.selection
    BY <2>2 DEF Subscriptions, NextPacket
  <2> HIDE DEF m, t
  <2>4. AnswersHaveRequests'
    BY <2>1, <2>3 DEF DInv, AnswersHaveRequests, Accepts, Accepting
  <2>5. \A b : Promised(b)' => Promised(b)
    BY <2>1, <2>3 DEF Promised, Accepts
  <2> QED
    BY <2>1, <2>4, <2>5, ServerKeeps
<1>4. ASSUME NEW e \in responses, DropCachedResponse(e)
      PROVE  DInv'
  <2>1. UNCHANGED <<wireVars, nextId, subscriptions>> /\ responses' \subseteq responses
    BY <1>4 DEF DropCachedResponse
  <2>2. AnswersHaveRequests'
    BY <2>1 DEF DInv, AnswersHaveRequests, Accepts, Accepting, wireVars
  <2>3. \A b : Promised(b)' => Promised(b)
    BY <2>1 DEF Promised, Accepts, wireVars
  <2> QED
    BY <2>1, <2>2, <2>3, ServerKeeps DEF wireVars
<1>5. CASE RestartServer
  <2>1. subscriptions' = {} /\ responses' = {} /\ toServer' = {} /\ toClient' = {}
    BY <1>5 DEF RestartServer
  <2>2. \A a : ~Promised(a)'
    BY <2>1 DEF Promised
  <2>3. Promises' = {}
    BY <2>2, PromisesAreAfter
  <2>4. PortsAreDistinct' /\ DataBelongsToSubscription'
    BY DEF DInv, PortsAreDistinct, DataBelongsToSubscription
  <2>5. RequestsAreNumbered'
    BY <2>1 DEF DInv, RequestsAreNumbered, Numbered
  <2>6. AnswersHaveRequests'
    BY <2>1 DEF AnswersHaveRequests
  <2>7. PromisesAreKept'
    BY <2>1, <2>3 DEF PromisesAreKept, OnePromisePerId, Served
  <2> QED
    BY <2>4, <2>5, <2>6, <2>7 DEF DInv
<1> QED
  BY <1>1, <1>2, <1>3, <1>4, <1>5

\* The state of a monitor after a step of it is in its type.
LEMMA TypedKind ==
  ASSUME IInv, NEW c \in Clients, ClientNext(c)
  PROVE  \E x \in ClientStates : Become(c, x) /\ OneOfFive(c, x)
<1>1. PICK x : Become(c, x) /\ OneOfFive(c, x)
  BY ClientStepKind DEF Kind
<1>2. PICK k : Good(k) /\ Become(c, k)
  BY ClientStepIsFine DEF Fine
<1>3. clients' = [clients EXCEPT ![c] = x] /\ clients' = [clients EXCEPT ![c] = k]
  BY <1>1, <1>2 DEF Become
<1>4. x = k
  BY <1>3 DEF IInv, TypeOK, ClientTypeOK
<1> QED
  BY <1>1, <1>2, <1>4 DEF Good

\* Initially nothing is promised and no monitor has a port.
LEMMA InitDInv == Init => DInv
<1> SUFFICES ASSUME Init PROVE DInv
  OBVIOUS
<1>1. /\ toServer = {} /\ toClient = {} /\ subscriptions = {} /\ responses = {}
      /\ nextId = 1
      /\ \A c \in Clients : clients[c] = Fresh
  BY DEF Init, ServerInit, ClientInit, FirstId
<1>2. Promises = {}
  BY <1>1, PromisesAre DEF Promised
<1>3. Fresh.port = NoPort /\ Fresh.id = 0 /\ Fresh.pending = NoRequest /\ ~Fresh.mixed
  BY DEF Fresh, NoId
<1>4. PortsAreDistinct /\ DataBelongsToSubscription /\ AnswersHaveRequests
  BY <1>1, <1>3 DEF PortsAreDistinct, DataBelongsToSubscription, AnswersHaveRequests
<1>5. RequestsAreNumbered
  BY <1>1, <1>3 DEF RequestsAreNumbered, Numbered
<1>6. PromisesAreKept
  BY <1>1, <1>2, <1>3 DEF PromisesAreKept, OnePromisePerId, Served
<1> QED
  BY <1>4, <1>5, <1>6 DEF DInv

\* Every step keeps the invariant.
LEMMA NextDInv == IInv /\ DInv /\ [Next]_vars => DInv'
<1> SUFFICES ASSUME IInv, DInv, [Next]_vars PROVE DInv'
  OBVIOUS
<1>1. CASE ServerNext /\ UNCHANGED clients
  BY <1>1, AnswerFromCacheKeeps, SubscribeKeeps, OtherServerStepsKeep DEF ServerNext
<1>2. ASSUME NEW c \in Clients, ClientNext(c), UNCHANGED serverVars
      PROVE  DInv'
  <2>1. PICK x \in ClientStates : Become(c, x) /\ OneOfFive(c, x)
    BY <1>2, TypedKind
  <2> QED
    BY <1>2, <2>1, QuietKeeps, OpensKeeps, SendsKeeps, LearnsKeeps, TakesKeeps DEF OneOfFive
<1>3. CASE UNCHANGED vars
  <2>1. AnswersHaveRequests'
    BY <1>3 DEF vars, wireVars, serverVars, DInv, AnswersHaveRequests, Accepts, Accepting
  <2>2. \A a : Promised(a)' => Promised(a)
    BY <1>3 DEF vars, wireVars, serverVars, Promised, Accepts
  <2> QED
    BY <1>3, <2>1, <2>2, ServerKeeps DEF vars, wireVars, serverVars
<1> QED
  BY <1>1, <1>2, <1>3 DEF Next

\* The invariant on what is promised holds in every reachable state.
THEOREM DInvHolds == Spec => []DInv
<1>1. Init => DInv
  BY InitDInv
<1>2. IInv /\ DInv /\ [Next]_vars => DInv'
  BY NextDInv
<1> QED
  BY <1>1, <1>2, IInvHolds, PTL DEF Spec

\* No monitor ever shows the values of signals it did not subscribe to, whatever
\* the network loses, repeats or reorders, and however often the server starts
\* its ids anew.
THEOREM NoForeignValues == Spec => []DataBelongsToSubscription
<1>1. DInv => DataBelongsToSubscription
  BY DEF DInv
<1> QED
  BY <1>1, DInvHolds, PTL

-----------------------------------------------------------------------------
(* The order of the data. *)

\* w is the number of packet n of a subscription, counted from one; zero stands for
\* none.  The numbers begin again after SequenceSpan - 1 packets.
IsNumberOf(w, n) ==
  \/ n = 0 /\ w = 0
  \/ w \in 1..(SequenceSpan - 1) /\ \E k \in Nat : n = k * (SequenceSpan - 1) + w

\* Every number, also the one a monitor has seen last, is that of the packet it is
\* taken for.
NumbersCount ==
  /\ \A s \in subscriptions : IsNumberOf(s.sequence, s.count)
  /\ \A m \in toClient :
       m.type = "LiveData" => m.count # 0 /\ IsNumberOf(m.sequence, m.count)
  /\ \A c \in Clients :
       clients[c].id # NoId => IsNumberOf(clients[c].lastSequence, clients[c].taken)

OneSubscriptionPerId == \A a, b \in subscriptions : a.id = b.id => a = b

SameStream(l, m) == l.id = m.id /\ l.to = m.to

\* No packet in flight was followed by Lifetime others.
PacketsAreRecent ==
  /\ \A l, m \in toClient :
       l.type = "LiveData" /\ m.type = "LiveData" /\ SameStream(l, m)
         => l.count < m.count + Lifetime
  /\ \A m \in toClient, s \in subscriptions :
       m.type = "LiveData" /\ SameStream(m, s) => m.count <= s.count

\* Nor was it when compared with what a monitor has taken.
TakenIsRecent(k) ==
  k.id # NoId =>
    /\ \A m \in toClient : IsDataFor(k, m) => k.taken < m.count + Lifetime
    /\ \A s \in subscriptions : s.id = k.id /\ s.to = k.port => k.taken <= s.count

OInv ==
  /\ NumbersCount
  /\ OneSubscriptionPerId
  /\ PacketsAreRecent
  /\ \A c \in Clients : TakenIsRecent(clients[c])

\* The number after that of a packet is that of the next one.
LEMMA NextNumber ==
  ASSUME NEW n \in Nat, NEW w, IsNumberOf(w, n)
  PROVE  IsNumberOf(NextSequence(w), n + 1)
<1> DEFINE p == SequenceSpan - 1
<1>1. SequenceSpan \in Nat /\ p \in Nat /\ p >= 1 /\ SequenceSpan = p + 1
  BY WireAssumption
<1> HIDE DEF p
<1>2. CASE n = 0 /\ w = 0
  <2>1. NextSequence(w) = 1
    BY <1>1, <1>2 DEF NextSequence
  <2>2. n + 1 = 0 * p + 1 /\ 0 \in Nat /\ 1 \in 1..p
    BY <1>1, <1>2
  <2> QED
    BY <2>1, <2>2 DEF IsNumberOf, p
<1>3. ASSUME w \in 1..p, NEW k \in Nat, n = k * p + w
      PROVE  IsNumberOf(NextSequence(w), n + 1)
  <2>1. CASE w = p
    <3>1. NextSequence(w) = 1
      <4>1. w + 1 = SequenceSpan
        BY <1>1, <2>1
      <4>2. (w + 1) % SequenceSpan = 0
        BY <1>1, <4>1
      <4> QED
        BY <4>2 DEF NextSequence
    <3>2. (k + 1) * p = k * p + p /\ k * p \in Nat
      BY <1>1
    <3>3. n + 1 = (k + 1) * p + 1 /\ k + 1 \in Nat /\ 1 \in 1..p
      BY <1>1, <1>3, <2>1, <3>2
    <3> QED
      BY <3>1, <3>3 DEF IsNumberOf, p
  <2>2. CASE w # p
    <3>1. w + 1 \in 1..p
      BY <1>1, <1>3, <2>2
    <3>2. (w + 1) % SequenceSpan = w + 1
      BY <1>1, <3>1
    <3>3. NextSequence(w) = w + 1
      BY <1>1, <3>1, <3>2 DEF NextSequence
    <3>4. n + 1 = k * p + (w + 1)
      <4>1. k * p \in Nat
        BY <1>1
      <4> QED
        BY <1>1, <1>3, <4>1
    <3> QED
      BY <3>1, <3>3, <3>4 DEF IsNumberOf, p
  <2> QED
    BY <2>1, <2>2
<1> QED
  BY <1>2, <1>3 DEF IsNumberOf, p

\* What a multiple of p can be.
LEMMA MultipleCases ==
  ASSUME NEW q \in Int, NEW p \in Nat
  PROVE  /\ q * p \in Int
         /\ q >= 2 => q * p >= p + p
         /\ q = 1 => q * p = p
         /\ q = 0 => q * p = 0
         /\ q = -1 => q * p = -p
         /\ q <= -2 => q * p <= -(p + p)
<1>1. q >= 2 => q * p >= p + p
  <2> SUFFICES ASSUME q >= 2 PROVE q * p >= p + p
    OBVIOUS
  <2>1. PICK r \in Nat : q = r + 2
    <3>1. q - 2 \in Nat
      OBVIOUS
    <3> QED
      BY <3>1
  <2>2. q * p = r * p + p + p /\ r * p >= 0 /\ r * p \in Int
    BY <2>1
  <2> QED
    BY <2>2
<1>2. q <= -2 => q * p <= -(p + p)
  <2> SUFFICES ASSUME q <= -2 PROVE q * p <= -(p + p)
    OBVIOUS
  <2>1. PICK r \in Nat : q = -r - 2
    <3>1. -q - 2 \in Nat
      OBVIOUS
    <3> QED
      BY <3>1
  <2>2. q * p = -(r * p) - p - p /\ r * p >= 0 /\ r * p \in Int
    BY <2>1
  <2> QED
    BY <2>2
<1> QED
  BY <1>1, <1>2

\* A difference of numbers on the circle.
LEMMA Remainders ==
  ASSUME NEW x \in Int, -SequenceSpan < x, x < SequenceSpan
  PROVE  x % SequenceSpan = IF x >= 0 THEN x ELSE x + SequenceSpan
<1>1. SequenceSpan \in Nat /\ SequenceSpan > 1
  BY WireAssumption
<1>2. CASE x >= 0
  BY <1>1, <1>2
<1>3. CASE x < 0
  <2>1. x + SequenceSpan \in 0..(SequenceSpan - 1)
    BY <1>1, <1>3
  <2> QED
    BY <1>1, <1>3, <2>1
<1> QED
  BY <1>2, <1>3

\* Newer on the circle is later in the stream for packets within half a circle of
\* each other, and a packet that follows by less is newer.
LEMMA CircleOrder ==
  ASSUME NEW i \in Nat, NEW j \in Nat, NEW v, NEW w,
         IsNumberOf(v, i), IsNumberOf(w, j), i # 0, j # 0
  PROVE  /\ IsNewerSequence(v, w) /\ j < i + SequenceSpan \div 2 => i > j
         /\ i > j /\ i - j < SequenceSpan \div 2 - 1 => IsNewerSequence(v, w)
<1> DEFINE p == SequenceSpan - 1
           h == SequenceSpan \div 2
<1>1. /\ SequenceSpan \in Nat /\ p \in Nat /\ p >= 1 /\ SequenceSpan = p + 1
      /\ h \in Nat /\ 2 * h <= SequenceSpan /\ h <= p /\ h >= 1
  BY WireAssumption
<1>2. v \in 1..p /\ w \in 1..p
  BY DEF IsNumberOf
<1>3. PICK a \in Nat : i = a * p + v
  BY DEF IsNumberOf
<1>4. PICK b \in Nat : j = b * p + w
  BY DEF IsNumberOf
<1>5. IsNewerSequence(v, w) <=> (v - w) % SequenceSpan # 0 /\ (v - w) % SequenceSpan < h
  BY DEF IsNewerSequence
<1> HIDE DEF p, h
<1> DEFINE x == v - w
           q == a - b
           r == x % SequenceSpan
<1>6. /\ x \in Int /\ x <= p - 1 /\ x >= 1 - p /\ q \in Int
      /\ -SequenceSpan < x /\ x < SequenceSpan
  BY <1>1, <1>2
<1>7. i - j = q * p + x
  BY <1>1, <1>2, <1>3, <1>4
<1>8. r = IF x >= 0 THEN x ELSE x + SequenceSpan
  BY <1>6, Remainders
<1>9. /\ q * p \in Int
      /\ q >= 2 => q * p >= p + p
      /\ q = 1 => q * p = p
      /\ q = 0 => q * p = 0
      /\ q = -1 => q * p = -p
      /\ q <= -2 => q * p <= -(p + p)
  BY <1>1, <1>6, MultipleCases
<1>10. IsNewerSequence(v, w) <=> r # 0 /\ r < h
  BY <1>5
<1> DEFINE g == q * p
<1> HIDE DEF x, q, r, g
<1>11. /\ g \in Int /\ i - j = g + x
       /\ q >= 2 => g >= p + p
       /\ q = 1 => g = p
       /\ q = 0 => g = 0
       /\ q = -1 => g = -p
       /\ q <= -2 => g <= -(p + p)
  BY <1>7, <1>9 DEF g
<1>12. ASSUME r # 0, r < h, j < i + h, i <= j PROVE FALSE
  <2>1. q = 0 \/ q = -1
    BY <1>1, <1>6, <1>11, <1>12
  <2> QED
    BY <1>1, <1>6, <1>8, <1>11, <1>12, <2>1
<1>13. ASSUME i > j, i - j < h - 1 PROVE r # 0 /\ r < h
  <2>1. q = 0 \/ q = 1
    BY <1>1, <1>6, <1>11, <1>13
  <2> QED
    BY <1>1, <1>6, <1>8, <1>11, <1>13, <2>1
<1> QED
  BY <1>10, <1>12, <1>13 DEF h

\* The types of what is compared.
LEMMA OrderFacts ==
  ASSUME IInv
  PROVE  /\ Lifetime \in Nat /\ Lifetime >= 1
         /\ \A s \in subscriptions : s \in Subscriptions /\ s.count \in Nat
         /\ \A m \in toClient : m.type = "LiveData" => m.count \in Nat
         /\ \A c \in Clients : clients[c].taken \in Nat
<1>1. \A s \in subscriptions : s \in Subscriptions /\ s.count \in Nat
  BY DEF IInv, TypeOK, ServerTypeOK, Subscriptions
<1>2. \A m \in Answers : m.type = "LiveData" => m.count \in Nat
  BY DEF Answers, SubscribeResponses, UnsubscribeResponses, LiveData, ErrorResponses
<1>3. \A c \in Clients : clients[c].taken \in Nat
  BY SessionFacts DEF ClientStates
<1> QED
  BY <1>1, <1>2, <1>3, SessionFacts, WireAssumption

\* A step of a monitor keeps the order: the packet it takes is as recent as the
\* others of its stream, and a new subscription has taken none.
LEMMA MonitorsKeepOrder ==
  ASSUME IInv, OInv, NEW c \in Clients, ClientNext(c), UNCHANGED serverVars
  PROVE  OInv'
<1> DEFINE k == clients[c]
<1>1. PICK x \in ClientStates : Become(c, x) /\ OneOfFive(c, x)
  BY TypedKind
<1>2. \A d \in Clients : clients'[d] = IF d = c THEN x ELSE clients[d]
  BY <1>1 DEF Become, IInv, TypeOK, ClientTypeOK
<1>3. toClient' \subseteq toClient /\ subscriptions' = subscriptions
  BY <1>1 DEF OneOfFive, Quiet, Opens, Sends, Learns, Takes, wireVars, serverVars
<1>4. \/ x.id = NoId
      \/ x.id = k.id /\ x.port = k.port /\ x.taken = k.taken
         /\ x.lastSequence = k.lastSequence
      \/ x.taken = 0 /\ x.lastSequence = 0
      \/ \E m \in toClient : Takes(c, x, m)
  BY <1>1 DEF OneOfFive, Quiet, Opens, Sends, Learns, LetsGo
<1>5. x.id # NoId => IsNumberOf(x.lastSequence, x.taken) /\ TakenIsRecent(x)
  <2>1. CASE x.id = k.id /\ x.port = k.port /\ x.taken = k.taken
             /\ x.lastSequence = k.lastSequence
    BY <2>1 DEF OInv, NumbersCount, TakenIsRecent, IsDataFor
  <2>2. CASE x.taken = 0 /\ x.lastSequence = 0
    BY <2>2, OrderFacts DEF IsNumberOf, TakenIsRecent, IsDataFor
  <2>3. ASSUME NEW m \in toClient, Takes(c, x, m)
        PROVE  IsNumberOf(x.lastSequence, x.taken) /\ TakenIsRecent(x)
    <3>1. /\ x.id = m.id /\ x.port = m.to /\ x.taken = m.count
          /\ x.lastSequence = m.sequence /\ m.type = "LiveData"
      BY <2>3, SessionFacts DEF Takes, TakesData, IsDataFor, ClientStates
    <3> QED
      BY <3>1 DEF OInv, NumbersCount, PacketsAreRecent, SameStream, TakenIsRecent, IsDataFor
  <2> QED
    BY <1>4, <2>1, <2>2, <2>3
<1>6. NumbersCount'
  <2>1. \A d \in Clients : clients'[d].id # NoId =>
          IsNumberOf(clients'[d].lastSequence, clients'[d].taken)
    BY <1>2, <1>5 DEF OInv, NumbersCount
  <2> QED
    BY <1>3, <2>1 DEF OInv, NumbersCount, IsNumberOf
<1>7. OneSubscriptionPerId' /\ PacketsAreRecent'
  BY <1>3 DEF OInv, OneSubscriptionPerId, PacketsAreRecent, SameStream
<1>8. \A d \in Clients : TakenIsRecent(clients[d])'
  BY <1>2, <1>3, <1>5 DEF OInv, TakenIsRecent, IsDataFor
<1> QED
  BY <1>6, <1>7, <1>8 DEF OInv

\* What takes subscriptions and packets away keeps the order, and so does an answer.
LEMMA FewerKeepOrder ==
  ASSUME OInv, UNCHANGED clients, subscriptions' \subseteq subscriptions,
         \A m \in toClient' : m \in toClient \/ m.type # "LiveData"
  PROVE  OInv'
<1>1. NumbersCount' /\ OneSubscriptionPerId'
  BY DEF OInv, NumbersCount, OneSubscriptionPerId, IsNumberOf
<1>2. PacketsAreRecent'
  BY DEF OInv, PacketsAreRecent, SameStream
<1>3. \A c \in Clients : TakenIsRecent(clients[c])'
  BY DEF OInv, TakenIsRecent, IsDataFor
<1> QED
  BY <1>1, <1>2, <1>3 DEF OInv

\* A new subscription has an id under which nothing is in flight, and which no monitor
\* of its endpoint holds.
LEMMA SubscribeKeepsOrder ==
  ASSUME IInv, DInv, OInv, UNCHANGED clients, NEW q \in toServer, Subscribe(q)
  PROVE  OInv'
<1> DEFINE s == NewSubscription(q)
<1>1. CASE q.selection \notin known
  <2>1. /\ subscriptions' = subscriptions
        /\ toClient' = toClient \cup {SubscribeResponse(q, "InvalidSignal", NoId)}
    BY <1>1 DEF Subscribe, Reply
  <2> QED
    BY <2>1, FewerKeepOrder DEF SubscribeResponse
<1>2. CASE q.selection \in known
  <2>1. /\ subscriptions' = subscriptions \cup {s}
        /\ toClient' = toClient \cup {SubscribeResponse(q, "Ok", nextId)}
        /\ q.type = "Subscribe"
    BY <1>2 DEF Subscribe, Reply
  <2>2. \A m \in toClient' : m \in toClient \/ m.type # "LiveData"
    BY <2>1 DEF SubscribeResponse
  <2>3. s.id = nextId /\ s.to = q.from /\ s.sequence = 0 /\ s.count = 0
    BY DEF NewSubscription
  <2> HIDE DEF s
  <2>4. \A m \in toClient : m.type = "LiveData" => m.id # nextId
    <3>1. ASSUME NEW m \in toClient, m.type = "LiveData" PROVE m.id # nextId
      <4> DEFINE a == [id |-> m.id, to |-> m.to, selection |-> m.valuesOf]
      <4>1. a \in Promises
        BY <3>1, PromisesAre DEF Promised
      <4> QED
        BY <4>1, SessionFacts DEF DInv, PromisesAreKept, OnePromisePerId
    <3> QED
      BY <3>1
  <2>5. \A t \in subscriptions : t.id # nextId
    <3>1. ASSUME NEW t \in subscriptions PROVE t.id # nextId
      <4> DEFINE a == [id |-> t.id, to |-> t.to, selection |-> t.selection]
      <4>1. a \in Promises
        BY PromisesAre DEF Promised
      <4> QED
        BY <4>1, SessionFacts DEF DInv, PromisesAreKept, OnePromisePerId
    <3> QED
      BY <3>1
  <2>6. \A c \in Clients : clients[c].id = nextId => clients[c].port # q.from
    BY <2>1, SessionFacts DEF DInv, PromisesAreKept, Served
  <2>7. NumbersCount'
    BY <2>1, <2>2, <2>3 DEF OInv, NumbersCount, IsNumberOf
  <2>8. OneSubscriptionPerId'
    BY <2>1, <2>3, <2>5 DEF OInv, OneSubscriptionPerId
  <2>9. PacketsAreRecent'
    BY <2>1, <2>2, <2>3, <2>4 DEF OInv, PacketsAreRecent, SameStream
  <2>10. \A c \in Clients : TakenIsRecent(clients[c])'
    BY <2>1, <2>2, <2>3, <2>6 DEF OInv, TakenIsRecent, IsDataFor
  <2> QED
    BY <2>7, <2>8, <2>9, <2>10 DEF OInv
<1> QED
  BY <1>1, <1>2

\* A packet published has the next number, and those in flight too long are gone.
LEMMA PublishKeepsOrder ==
  ASSUME IInv, OInv, UNCHANGED clients, NEW s \in subscriptions, PublishData(s)
  PROVE  OInv'
<1> DEFINE p == NextPacket(s)
           t == [s EXCEPT !.sequence = p.sequence, !.count = p.count]
<1>1. /\ subscriptions' = (subscriptions \ {s}) \cup {t}
      /\ toClient' = {m \in toClient : ~Outlived(m, p)} \cup {p}
  BY DEF PublishData
<1>2. s \in Subscriptions /\ s.count \in Nat
  BY OrderFacts
<1>3. /\ p.type = "LiveData" /\ p.id = s.id /\ p.to = s.to /\ p.count = s.count + 1
      /\ p.sequence = NextSequence(s.sequence)
  BY DEF NextPacket
<1>4. t.id = s.id /\ t.to = s.to /\ t.count = p.count /\ t.sequence = p.sequence
  BY <1>2 DEF Subscriptions
<1>5. p.count # 0 /\ IsNumberOf(p.sequence, p.count)
  BY <1>2, <1>3, NextNumber DEF OInv, NumbersCount
<1> HIDE DEF p, t
<1>6. ASSUME NEW m \in toClient', m.type = "LiveData", SameStream(m, p)
      PROVE  m.count \in Nat /\ m.count <= p.count /\ p.count < m.count + Lifetime
  <2>1. CASE m = p
    BY <1>2, <1>3, <2>1, OrderFacts
  <2>2. CASE m \in toClient /\ ~Outlived(m, p)
    <3>1. m.count \in Nat /\ m.count <= s.count
      BY <1>3, <1>6, <2>2, OrderFacts DEF OInv, PacketsAreRecent, SameStream
    <3> QED
      BY <1>2, <1>3, <1>6, <2>2, <3>1, OrderFacts DEF Outlived, SameStream
  <2> QED
    BY <1>1, <2>1, <2>2
<1>7. NumbersCount'
  BY <1>1, <1>4, <1>5 DEF OInv, NumbersCount, IsNumberOf
<1>8. OneSubscriptionPerId'
  BY <1>1, <1>4 DEF OInv, OneSubscriptionPerId
<1>9. PacketsAreRecent'
  <2>1. ASSUME NEW l \in toClient', NEW m \in toClient', l.type = "LiveData",
               m.type = "LiveData", SameStream(l, m)
        PROVE  l.count < m.count + Lifetime
    <3>1. CASE SameStream(m, p)
      <4>1. SameStream(l, p)
        BY <2>1, <3>1 DEF SameStream
      <4> QED
        BY <1>2, <1>3, <1>6, <2>1, <3>1, <4>1, OrderFacts
    <3>2. CASE ~SameStream(m, p)
      <4>1. l \in toClient /\ m \in toClient
        BY <1>1, <2>1, <3>2 DEF SameStream
      <4> QED
        BY <2>1, <4>1 DEF OInv, PacketsAreRecent
    <3> QED
      BY <3>1, <3>2
  <2>2. ASSUME NEW m \in toClient', NEW u \in subscriptions', m.type = "LiveData",
               SameStream(m, u)
        PROVE  m.count <= u.count
    <3>1. CASE u = t
      BY <1>3, <1>4, <1>6, <2>2, <3>1 DEF SameStream
    <3>2. CASE u \in subscriptions /\ u # s
      <4>1. u.id # s.id
        BY <3>2 DEF OInv, OneSubscriptionPerId
      <4>2. m \in toClient
        BY <1>1, <1>3, <2>2, <4>1 DEF SameStream
      <4> QED
        BY <2>2, <3>2, <4>2 DEF OInv, PacketsAreRecent
    <3> QED
      BY <1>1, <3>1, <3>2
  <2> QED
    BY <2>1, <2>2 DEF PacketsAreRecent, SameStream
<1>10. ASSUME NEW c \in Clients
       PROVE  TakenIsRecent(clients[c])'
  <2> DEFINE k == clients[c]
  <2>1. TakenIsRecent(k) /\ k.taken \in Nat
    BY OrderFacts DEF OInv
  <2>2. ASSUME k.id # NoId, NEW m \in toClient', IsDataFor(k, m)
        PROVE  k.taken < m.count + Lifetime
    <3>1. CASE m \in toClient
      BY <2>1, <2>2, <3>1 DEF TakenIsRecent
    <3>2. CASE m = p
      BY <1>2, <1>3, <2>1, <2>2, <3>2, OrderFacts DEF TakenIsRecent, IsDataFor
    <3> QED
      BY <1>1, <3>1, <3>2
  <2>3. ASSUME k.id # NoId, NEW u \in subscriptions', u.id = k.id, u.to = k.port
        PROVE  k.taken <= u.count
    BY <1>1, <1>2, <1>3, <1>4, <2>1, <2>3 DEF TakenIsRecent
  <2> QED
    BY <2>2, <2>3 DEF TakenIsRecent, IsDataFor
<1> QED
  BY <1>7, <1>8, <1>9, <1>10 DEF OInv

\* The invariant holds at the start.
LEMMA InitOInv == Init => OInv
BY DEF Init, ServerInit, ClientInit, OInv, NumbersCount, OneSubscriptionPerId,
       PacketsAreRecent, TakenIsRecent, Fresh, NoId

\* Every step keeps it.
LEMMA NextOInv == IInv /\ DInv /\ OInv /\ [Next]_vars => OInv'
<1> SUFFICES ASSUME IInv, DInv, OInv, [Next]_vars PROVE OInv'
  OBVIOUS
<1>1. CASE ServerNext /\ UNCHANGED clients
  <2>1. ASSUME NEW q \in toServer, AnswerFromCache(q)
        PROVE  OInv'
    <3>1. PICK e \in responses : toClient' = toClient \cup {Repeated(e, q)}
      BY <2>1 DEF AnswerFromCache, CachedFor
    <3>2. Repeated(e, q).type # "LiveData"
      BY DEF Repeated, DInv, AnswersHaveRequests
    <3>3. subscriptions' = subscriptions
      BY <2>1 DEF AnswerFromCache, serverVars
    <3> QED
      BY <1>1, <3>1, <3>2, <3>3, FewerKeepOrder
  <2>2. ASSUME NEW q \in toServer, Unsubscribe(q)
        PROVE  OInv'
    BY <1>1, <2>2, FewerKeepOrder DEF Unsubscribe, Reply, UnsubscribeResponse
  <2>3. ASSUME NEW s \in subscriptions, Expire(s)
        PROVE  OInv'
    BY <1>1, <2>3, FewerKeepOrder DEF Expire, wireVars
  <2>4. ASSUME NEW e \in responses, DropCachedResponse(e)
        PROVE  OInv'
    BY <1>1, <2>4, FewerKeepOrder DEF DropCachedResponse, wireVars
  <2>5. CASE RestartServer
    BY <1>1, <2>5, FewerKeepOrder DEF RestartServer
  <2> QED
    BY <1>1, <2>1, <2>2, <2>3, <2>4, <2>5, SubscribeKeepsOrder, PublishKeepsOrder
    DEF ServerNext
<1>2. ASSUME NEW c \in Clients, ClientNext(c), UNCHANGED serverVars
      PROVE  OInv'
  BY <1>2, MonitorsKeepOrder
<1>3. CASE UNCHANGED vars
  BY <1>3, FewerKeepOrder DEF vars, wireVars, serverVars
<1> QED
  BY <1>1, <1>2, <1>3 DEF Next

\* A monitor takes the packets of a subscription in the order of their publication,
\* each at most once, and takes what follows, however often the numbers of 32 bits
\* begin again: for a packet that is not in flight while half a circle of later ones
\* is published (WireAssumption), newer on the circle is later.
THEOREM InOrder == Spec => []DataInOrder
<1>1. IInv /\ OInv => DataInOrder
  <2> SUFFICES ASSUME IInv, OInv, NEW c \in Clients, NEW m \in toClient,
                      IsDataFor(clients[c], m)
               PROVE  /\ TakesData(clients[c], m) => m.count > clients[c].taken
                      /\ Follows(m, clients[c]) => TakesData(clients[c], m)
    BY DEF DataInOrder, TakesData
  <2> DEFINE k == clients[c]
             h == SequenceSpan \div 2
  <2>1. m.type = "LiveData" /\ k.id # NoId
    BY DEF IsDataFor
  <2>2. /\ m.count \in Nat /\ k.taken \in Nat /\ m.count # 0
        /\ IsNumberOf(m.sequence, m.count) /\ IsNumberOf(k.lastSequence, k.taken)
        /\ k.taken < m.count + Lifetime
    BY <2>1, OrderFacts DEF OInv, NumbersCount, TakenIsRecent
  <2>3. h \in Nat /\ Lifetime \in Nat /\ Lifetime <= h
    BY WireAssumption
  <2>4. /\ m.sequence # 0
        /\ k.lastSequence = 0 <=> k.taken = 0
    <3>1. \A w, n : IsNumberOf(w, n) => (w = 0 <=> n = 0)
      <4>1. ASSUME NEW w \in 1..(SequenceSpan - 1), NEW j \in Nat
            PROVE  w # 0 /\ j * (SequenceSpan - 1) + w # 0
        <5>1. j * (SequenceSpan - 1) >= 0 /\ j * (SequenceSpan - 1) \in Int
          BY WireAssumption
        <5> QED
          BY <5>1, WireAssumption
      <4> QED
        BY <4>1 DEF IsNumberOf
    <3> QED
      BY <2>2, <3>1
  <2>5. CASE k.taken = 0
    BY <2>2, <2>4, <2>5 DEF TakesData
  <2>6. CASE k.taken # 0
    <3>1. /\ IsNewerSequence(m.sequence, k.lastSequence) /\ k.taken < m.count + h
               => m.count > k.taken
          /\ m.count > k.taken /\ m.count - k.taken < h - 1
               => IsNewerSequence(m.sequence, k.lastSequence)
      BY <2>2, <2>6, CircleOrder
    <3>2. k.taken < m.count + h
      BY <2>2, <2>3
    <3> QED
      BY <2>4, <2>6, <3>1, <3>2 DEF TakesData, Follows
  <2> QED
    BY <2>5, <2>6
<1> QED
  BY <1>1, InitOInv, NextOInv, IInvHolds, DInvHolds, PTL DEF Spec
==============================================================================
