------------------------------ MODULE LiveSession ------------------------------
(***************************************************************************)
(* The subscription protocol as a whole: one server, which may be stopped  *)
(* and started again, its monitors, and the network between them.          *)
(***************************************************************************)
EXTENDS SubscriptionServer, ClientConnection

vars == <<wireVars, serverVars, clients>>

Init ==
  /\ toServer = {} /\ toClient = {}
  /\ ServerInit
  /\ ClientInit

Next ==
  \/ ServerNext /\ UNCHANGED clients
  \/ \E c \in Clients : ClientNext(c) /\ UNCHANGED serverVars

Spec == Init /\ [][Next]_vars

\* The timers of a monitor fire.
FairSpec ==
  /\ Spec
  /\ \A c \in Clients : /\ WF_vars(RequestTimeout(c) /\ UNCHANGED serverVars)
                        /\ WF_vars(DataTimeout(c) /\ UNCHANGED serverVars)

-----------------------------------------------------------------------------
(* Invariants. *)

\* Every variable stays in its type.
TypeOK == WireTypeOK /\ ServerTypeOK /\ ClientTypeOK

\* The server creates at most one subscription under one number of a client's
\* requests, however often a request is repeated, duplicated or delayed, and
\* even after the subscription has been cancelled or has expired.
OneSubscriptionPerRequest ==
  \A a, b \in issued :
    a.request.from = b.request.from /\ a.request.requestId = b.request.requestId => a = b

\* What a monitor shows was measured on the signals it subscribed to: neither a
\* reused id, nor a late packet, nor the answer to another request brings the
\* values of other signals under their names.
DataBelongsToSubscription == \A c \in Clients : ~clients[c].mixed

Matches(k) ==
  CASE k.monitor = "Stopped" -> k.id = NoId /\ k.pending = NoRequest /\ ~k.reconnecting
    [] k.monitor = "Subscribing" ->
         k.id = NoId /\ k.pending.type = "Subscribe" /\ ~k.reconnecting
    [] k.monitor = "Unsubscribing" ->
         k.id # NoId /\ k.pending.type = "Unsubscribe" /\ ~k.reconnecting
    [] k.monitor = "Running" ->
         IF k.reconnecting THEN k.id = NoId /\ k.pending.type # "Unsubscribe"
         ELSE k.id # NoId /\ k.pending = NoRequest

\* The window never waits for something the connection is not doing, and never
\* shows a stopped monitor that still holds or seeks a subscription.
MonitorMatchesConnection == \A c \in Clients : Matches(clients[c])

\* Packet m follows the last one taken by less than half a circle of numbers.
Follows(m, k) == k.taken < m.count /\ m.count - k.taken < SequenceSpan \div 2 - 1

\* A monitor that compares numbers of 32 bits takes the packets of a subscription in
\* the order in which they were published and each at most once: whatever is in
\* flight, a packet it would take is later than the last one it took, also when
\* the numbers have begun again in between.  And it takes what follows: the new
\* beginning does not make it ignore the data from then on.
DataInOrder ==
  \A c \in Clients, m \in toClient :
    LET k == clients[c]
    IN /\ TakesData(k, m) => m.count > k.taken
       /\ IsDataFor(k, m) /\ Follows(m, k) => TakesData(k, m)

GoesOn(k) == k.reconnecting => (k.reconnectTimer <=> k.pending = NoRequest)

\* A recovery is always under way: an attempt is pending or the timer of the
\* next one runs, never both, whatever fails in between.
RecoveryGoesOn == \A c \in Clients : GoesOn(clients[c])

-----------------------------------------------------------------------------
(* Action properties. *)

\* A monitor never ends or changes another monitor's subscription: it goes only
\* by its expiry, by the restart of the server, or by a request of its owner.
OnlyTheOwnerCancels ==
  [][\A s \in subscriptions :
       restarts' = restarts /\ responses' # responses /\ s \notin subscriptions'
         => \E q \in toServer : q.type = "Unsubscribe" /\ q.from = s.to /\ q.id = s.id]_vars

-----------------------------------------------------------------------------
(* Liveness. *)

\* The server does not serve the subscription the monitor believes in.
Unserved(c) ==
  /\ clients[c].id # NoId
  /\ \A s \in subscriptions : ~(s.id = clients[c].id /\ s.to = clients[c].port)

\* A monitor whose subscription is gone finds out.
LossIsDetected == \A c \in Clients : Unserved(c) ~> ~Unserved(c)

\* It does if its data timer runs, unless the operator starts to unsubscribe.
LossIsDetectedWhileWatching ==
  \A c \in Clients :
    Unserved(c) /\ clients[c].dataTimer
      ~> ~Unserved(c) \/ clients[c].monitor = "Unsubscribing"
==============================================================================
