--------------------------- MODULE ClientConnection ---------------------------
(***************************************************************************)
(* A monitor: ClientConnection, the client's half of the subscription      *)
(* protocol, and the MonitorState of the window that drives it.  The       *)
(* signals of the connection are delivered to the window's slots directly, *)
(* so that a handler and the slots it triggers are one step.               *)
(*                                                                         *)
(* The state of one monitor is a record.  The functions of the class that  *)
(* change it are operators from record to record, composed the way the     *)
(* code calls them.  The request timer runs exactly while a request is     *)
(* pending, and the renewal timer exactly while there is a subscription,   *)
(* so neither has a field.                                                 *)
(***************************************************************************)
EXTENDS LiveWire

CONSTANTS
  Clients,             (* the monitors                                     *)
  NoSelection,         (* an empty list of signals                         *)
  MaxRequestRetries    (* ClientConnection::MaxRequestRetries              *)

ASSUME ClientAssumption ==
  /\ NoSelection \notin Selections
  /\ MaxRequestRetries \in Nat

VARIABLE clients       (* for every monitor, its state                     *)

NoPort == 0
NoRequest == [type |-> "None"]

MonitorStates == {"Stopped", "Subscribing", "Running", "Unsubscribing"}

\* A monitor that has just been started.
Fresh ==
  [ port |-> NoPort,             (* m_socket: bound to, or NoPort            *)
    id |-> NoId,                 (* m_subscriptionId                         *)
    signals |-> NoSelection,     (* m_signals                                *)
    pending |-> NoRequest,       (* m_pendingPacket and what belongs to it   *)
    retries |-> 0,               (* m_retryCount                             *)
    nextRequestId |-> 1,         (* m_nextRequestId                          *)
    reconnecting |-> FALSE,      (* m_reconnecting                           *)
    lastSequence |-> 0,          (* m_lastSequence, 0 when there is none     *)
    dataTimer |-> FALSE,         (* m_dataTimer is active                    *)
    reconnectTimer |-> FALSE,    (* m_reconnectTimer is active               *)
    monitor |-> "Stopped",       (* MainWindow::m_monitorState               *)
    mixed |-> FALSE,             (* history: shown values of other signals   *)
    taken |-> 0 ]                (* history: count of the packet last taken  *)

ClientStates ==
  [ port : Ports \cup {NoPort}, id : Ids, signals : Selections \cup {NoSelection},
    pending : Requests \cup {NoRequest}, retries : 0..MaxRequestRetries,
    nextRequestId : Ids, reconnecting : BOOLEAN, lastSequence : Ids,
    dataTimer : BOOLEAN, reconnectTimer : BOOLEAN, monitor : MonitorStates,
    mixed : BOOLEAN, taken : Nat ]

ClientInit == clients = [c \in Clients |-> Fresh]
ClientTypeOK == clients \in [Clients -> ClientStates]

-----------------------------------------------------------------------------
(* What the member functions and the slots do to the state of a monitor.    *)

Become(c, k) == clients' = [clients EXCEPT ![c] = k]

Closed(k) ==
  [k EXCEPT !.port = NoPort, !.id = NoId, !.signals = NoSelection, !.pending = NoRequest,
            !.retries = 0, !.reconnecting = FALSE, !.dataTimer = FALSE,
            !.reconnectTimer = FALSE]

RequestDone(k) == [k EXCEPT !.pending = NoRequest, !.retries = 0]

\* failRecovery(): a recovery that cannot succeed closes the connection.
FailedRecovery_StaysOpen(k) == [k EXCEPT !.reconnecting = FALSE]
FailedRecovery(k) == IF k.reconnecting THEN Closed(k) ELSE k

\* emit errorOccurred(), and the slot connected to it.
Error(k) ==
  [k EXCEPT !.monitor = IF @ = "Subscribing" \/ (@ = "Running" /\ k.port = NoPort)
                        THEN "Stopped"
                        ELSE IF @ = "Unsubscribing" THEN "Running" ELSE @]

\* A request that could not be sent or was given up: a recovery goes on later.
GivenUp_NoTimer(k) == Error(RequestDone(k))
GivenUp(k) ==
  IF k.reconnecting THEN [RequestDone(k) EXCEPT !.reconnectTimer = TRUE]
  ELSE Error(RequestDone(k))

\* isNewerSequence(): more recent on the circle of sequence numbers.
IsNewerSequence_OrEqual(sequence, previous) ==
  (sequence - previous) % SequenceSpan < SequenceSpan \div 2
IsNewerSequence(sequence, previous) ==
  LET difference == (sequence - previous) % SequenceSpan
  IN difference # 0 /\ difference < SequenceSpan \div 2

CanSubscribe(k) == k.port # NoPort /\ k.pending = NoRequest /\ k.id = NoId
CanUnsubscribe(k) == k.port # NoPort /\ k.pending = NoRequest /\ k.id # NoId

SubscribeRequest(k, s) ==
  [type |-> "Subscribe", from |-> k.port, requestId |-> k.nextRequestId, selection |-> s]
UnsubscribeRequest(k) ==
  [type |-> "Unsubscribe", from |-> k.port, requestId |-> k.nextRequestId, id |-> k.id]

Requesting(k, q) == [k EXCEPT !.pending = q, !.retries = 0, !.nextRequestId = @ + 1]
NotSent(k) == Error([k EXCEPT !.retries = 0, !.nextRequestId = @ + 1])

\* Whether a request that got no answer is sent once more.
MayRetry_OneMore(k) == k.retries <= MaxRequestRetries
MayRetry(k) == k.retries < MaxRequestRetries

\* Which answers belong to the pending request.
Awaited_AnyRequest(k, m) == k.pending # NoRequest
Awaited(k, m) == k.pending # NoRequest /\ m.requestId = k.pending.requestId

Subscribed(k, id) ==
  [RequestDone(k) EXCEPT !.id = id, !.signals = k.pending.selection, !.lastSequence = 0,
                         !.taken = 0, !.reconnecting = FALSE, !.reconnectTimer = FALSE,
                         !.dataTimer = TRUE, !.monitor = "Running"]

Unsubscribed(k) ==
  [RequestDone(k) EXCEPT !.id = NoId, !.signals = NoSelection, !.dataTimer = FALSE,
                         !.monitor = "Stopped"]

Recovering_KeepsId(k) ==
  [k EXCEPT !.reconnecting = TRUE, !.dataTimer = FALSE, !.reconnectTimer = TRUE]
Recovering(k) ==
  [k EXCEPT !.reconnecting = TRUE, !.id = NoId, !.dataTimer = FALSE, !.reconnectTimer = TRUE]

-----------------------------------------------------------------------------
(* The operator of a monitor. *)

\* openConnection(): the socket is bound anew, to a port nobody else uses, or
\* that fails.  The system chooses the port, and takes one again only when
\* nothing is in flight for it.
OpenConnection(c) ==
  LET k == Closed(clients[c])
  IN /\ clients[c].monitor = "Stopped"
     /\ \/ Become(c, k) /\ UNCHANGED wireVars
        \/ \E p \in Ports :
             /\ \A d \in Clients \ {c} : clients[d].port # p
             /\ Become(c, [k EXCEPT !.port = p])
             /\ toServer' = {q \in toServer : q.from # p}
             /\ toClient' = {m \in toClient : m.to # p}

\* startMonitoring() of an open connection: subscribe() sends the request, or
\* fails to.
StartMonitoring(c) ==
  LET k == clients[c]
  IN /\ k.monitor = "Stopped" /\ CanSubscribe(k) /\ k.nextRequestId <= MaxRequests
     /\ \/ \E s \in Selections :
             LET q == SubscribeRequest(k, s)
             IN /\ Become(c, [Requesting(k, q) EXCEPT !.monitor = "Subscribing"])
                /\ toServer' = toServer \cup {q}
        \/ Become(c, NotSent(k)) /\ UNCHANGED toServer
     /\ UNCHANGED toClient

\* stopMonitoring(): a recovery is cancelled; otherwise unsubscribe() sends the
\* request, or fails to.
StopMonitoring(c) ==
  LET k == clients[c]
      q == UnsubscribeRequest(k)
  IN /\ k.monitor = "Running"
     /\ \/ /\ k.reconnecting
           /\ Become(c, [Closed(k) EXCEPT !.monitor = "Stopped"])
           /\ UNCHANGED toServer
        \/ /\ ~k.reconnecting /\ CanUnsubscribe(k) /\ k.nextRequestId <= MaxRequests
           /\ \/ /\ Become(c, [Requesting(k, q) EXCEPT !.dataTimer = FALSE,
                                                       !.monitor = "Unsubscribing"])
                 /\ toServer' = toServer \cup {q}
              \/ Become(c, NotSent(k)) /\ UNCHANGED toServer
     /\ UNCHANGED toClient

\* The monitor is closed, or dies, and is started again.
RestartMonitor(c) ==
  /\ clients[c] # Fresh
  /\ Become(c, [Fresh EXCEPT !.mixed = clients[c].mixed])
  /\ UNCHANGED wireVars

-----------------------------------------------------------------------------
(* The timers of a monitor. *)

\* onRequestTimeout(): the same packet is sent again, or the request given up.
RequestTimeout(c) ==
  LET k == clients[c]
  IN /\ k.pending # NoRequest
     /\ \/ /\ MayRetry(k)
           /\ \/ /\ Become(c, [k EXCEPT !.retries = @ + 1])
                 /\ toServer' = toServer \cup {k.pending}
              \/ Become(c, GivenUp(k)) /\ UNCHANGED toServer
        \/ /\ ~MayRetry(k)
           /\ Become(c, IF k.pending.type = "Subscribe" THEN GivenUp(k)
                        ELSE Error([RequestDone(k) EXCEPT !.dataTimer = TRUE]))
           /\ UNCHANGED toServer
     /\ UNCHANGED toClient

\* onDataTimeout(): nothing arrived for three seconds.
DataTimeout(c) ==
  LET k == clients[c]
  IN /\ k.dataTimer
     /\ Become(c, IF k.id # NoId /\ k.pending = NoRequest THEN Recovering(k)
                  ELSE [k EXCEPT !.dataTimer = FALSE])
     /\ UNCHANGED wireVars

\* onReconnectTimeout(): the recovery subscribes to the same signals again.
ReconnectTimeout(c) ==
  LET k == [clients[c] EXCEPT !.reconnectTimer = FALSE]
      q == SubscribeRequest(k, k.signals)
  IN /\ clients[c].reconnectTimer /\ k.reconnecting
     /\ CanSubscribe(k) /\ k.nextRequestId <= MaxRequests
     /\ \/ Become(c, Requesting(k, q)) /\ toServer' = toServer \cup {q}
        \/ Become(c, [NotSent(k) EXCEPT !.reconnectTimer = TRUE]) /\ UNCHANGED toServer
     /\ UNCHANGED toClient

-----------------------------------------------------------------------------
(* onReadyRead(): one datagram for the port of the monitor. *)

ReceiveSubscribeResponse(c, m) ==
  LET k == clients[c]
  IN /\ m.type = "SubscribeResponse" /\ m.to = k.port
     /\ k.pending # NoRequest /\ k.pending.type = "Subscribe" /\ Awaited(k, m)
     /\ Become(c, IF m.result = "Ok" THEN Subscribed(k, m.id)
                  ELSE Error(FailedRecovery(RequestDone(k))))
     /\ UNCHANGED wireVars

ReceiveUnsubscribeResponse(c, m) ==
  LET k == clients[c]
  IN /\ m.type = "UnsubscribeResponse" /\ m.to = k.port
     /\ k.pending # NoRequest /\ k.pending.type = "Unsubscribe" /\ Awaited(k, m)
     /\ Become(c, IF m.result = "Ok" THEN Unsubscribed(k) ELSE Error(RequestDone(k)))
     /\ UNCHANGED wireVars

\* A packet of data under the id of the subscription.
IsDataFor(k, m) == m.type = "LiveData" /\ m.to = k.port /\ k.id # NoId /\ m.id = k.id

\* A repeated or outdated one is ignored.
TakesData(k, m) ==
  /\ IsDataFor(k, m)
  /\ m.sequence # 0
  /\ k.lastSequence # 0 => IsNewerSequence(m.sequence, k.lastSequence)

ReceiveLiveData(c, m) ==
  LET k == clients[c]
  IN /\ TakesData(k, m)
     /\ Become(c, [k EXCEPT !.lastSequence = m.sequence, !.dataTimer = TRUE,
                            !.mixed = @ \/ m.valuesOf # k.signals, !.taken = m.count])
     /\ UNCHANGED wireVars

\* An error names no request: it ends whatever is pending.  During a recovery
\* a temporary error leads to another attempt.
ReceiveErrorResponse(c, m) ==
  LET k == clients[c]
  IN /\ m.type = "ErrorResponse" /\ m.to = k.port
     /\ Become(c, IF ~k.reconnecting THEN Error(RequestDone(k))
                  ELSE IF m.code = "InvalidState" THEN GivenUp(k)
                  ELSE Error(FailedRecovery(k)))
     /\ UNCHANGED wireVars

ClientNext(c) ==
  \/ OpenConnection(c) \/ StartMonitoring(c) \/ StopMonitoring(c) \/ RestartMonitor(c)
  \/ RequestTimeout(c) \/ DataTimeout(c) \/ ReconnectTimeout(c)
  \/ \E m \in toClient : \/ ReceiveSubscribeResponse(c, m)
                         \/ ReceiveUnsubscribeResponse(c, m)
                         \/ ReceiveLiveData(c, m)
                         \/ ReceiveErrorResponse(c, m)
==============================================================================
