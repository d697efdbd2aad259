------------------------------- MODULE LiveWire -------------------------------
(***************************************************************************)
(* The UDP exchange between DataServer and its monitors: the packets of    *)
(* DataProtocol that carry the subscription protocol, and the network.     *)
(*                                                                         *)
(* A packet once sent may be received at any later time, any number of     *)
(* times and in any order, or never: the network is the set of everything  *)
(* sent, and receiving takes nothing out of it.  Only the binding of an    *)
(* endpoint's socket anew empties the network of what was in flight for it *)
(* or from it, and a packet of data does not stay in flight while Lifetime *)
(* later ones of its subscription are published.                           *)
(***************************************************************************)
EXTENDS Integers

CONSTANTS
  Ports,          (* client endpoints: address and UDP port                *)
  Selections,     (* lists of signals a monitor may subscribe to           *)
  SequenceSpan,   (* 2^32: the width of PublishHeader::sequence            *)
  Lifetime,       (* later packets a data packet in flight may see         *)
  MaxRequests,    (* bound: request ids one client process uses            *)
  MaxIds,         (* bound: subscription ids one server issues             *)
  MaxSequence     (* bound: data packets of the subscription of each id    *)

ASSUME WireAssumption ==
  /\ Ports \subseteq Nat \ {0}
  /\ SequenceSpan \in Nat /\ SequenceSpan > 1
  /\ MaxRequests \in Nat /\ MaxRequests < SequenceSpan - 1
  /\ MaxIds \in Nat /\ MaxIds < SequenceSpan - 1
  /\ Lifetime \in Nat \ {0} /\ Lifetime <= SequenceSpan \div 2
  /\ MaxSequence \in [1..MaxIds -> Nat]

VARIABLES toServer, toClient

wireVars == <<toServer, toClient>>

NoId == 0          (* SubscriptionId{} and RequestId{}                      *)
Ids == 0..(SequenceSpan - 1)

\* The requests.  A request id identifies a request of one client process.
SubscribeRequests ==
  [type : {"Subscribe"}, from : Ports, requestId : Ids, selection : Selections]
UnsubscribeRequests ==
  [type : {"Unsubscribe"}, from : Ports, requestId : Ids, id : Ids]
Requests == SubscribeRequests \cup UnsubscribeRequests

\* The answers and the data.  The values of a data packet are the values of the
\* signals of some selection, which the packet does not name; nor does it say how
\* many packets of its subscription it is (`count`), of which its number is what
\* 32 bits keep.
SubscribeResponses ==
  [type : {"SubscribeResponse"}, to : Ports, requestId : Ids,
   result : {"Ok", "InvalidSignal"}, id : Ids]
UnsubscribeResponses ==
  [type : {"UnsubscribeResponse"}, to : Ports, requestId : Ids,
   result : {"Ok", "InvalidId"}]
LiveData ==
  [type : {"LiveData"}, to : Ports, id : Ids, sequence : Ids, count : Nat,
   valuesOf : Selections]
ErrorResponses ==
  [type : {"ErrorResponse"}, to : Ports, code : {"InvalidRequest", "InvalidState"}]

Answers == SubscribeResponses \cup UnsubscribeResponses \cup LiveData \cup ErrorResponses

WireTypeOK == toServer \subseteq Requests /\ toClient \subseteq Answers
==============================================================================
