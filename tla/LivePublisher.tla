----------------------------- MODULE LivePublisher -----------------------------
(***************************************************************************)
(* Publisher: which frames of the live stream go to which subscription,    *)
(* and under which sequence number.  The frames reach publish() with       *)
(* growing numbers and with gaps, because BufferManager keeps only the     *)
(* newest one; sending a datagram may fail; subscriptions come and go      *)
(* (SubscriptionManager) between two frames.                               *)
(*                                                                         *)
(* The variables under "what was sent" belong to no object of the program: *)
(* they record what a receiver of the packets could have counted.          *)
(***************************************************************************)
EXTENDS Integers

CONSTANTS
  Subscriptions,   (* every subscription the manager may hold               *)
  Rate,            (* Subscription::rate of each, in Hz                     *)
  FrameRate,       (* BaseFrameFrequency, in Hz                             *)
  SequenceSpan,    (* 2^32: the width of Subscription::sequence             *)
  MaxFrame         (* bound: the last frame number                          *)

ASSUME PublisherAssumption ==
  /\ Rate \in [Subscriptions -> Nat]
  /\ FrameRate \in Nat \ {0}
  /\ SequenceSpan \in Nat /\ SequenceSpan > 1
  /\ MaxFrame \in Nat

VARIABLES
  frame,       (* number of the last frame passed to publish(), or -1      *)
  live,        (* SubscriptionManager::m_subscriptions                     *)
  started,     (* Subscription::publishStarted                             *)
  next,        (* Subscription::nextPublishFrame                           *)
  sequence,    (* Subscription::sequence                                   *)
  \* what was sent
  first,       (* frame of the first packet; before it, of the addition    *)
  last,        (* frame of the last packet                                 *)
  count,       (* number of packets                                        *)
  owed         (* the send for the last frame that was due has failed      *)

schedule == <<started, next, sequence>>
history  == <<first, last, count, owed>>
vars     == <<frame, live, schedule, history>>

-----------------------------------------------------------------------------
\* shouldPublish() serves a rate that divides the frame rate, and no other.
Served(s) == Rate[s] # 0 /\ Rate[s] <= FrameRate /\ FrameRate % Rate[s] = 0

Period(s) == FrameRate \div Rate[s]

ShouldPublish_Late(f, s) == Served(s) /\ (~started[s] \/ f > next[s])
ShouldPublish(f, s) == Served(s) /\ (~started[s] \/ f >= next[s])

\* The number of the next packet: zero is reserved.
NextSequence_Zero(s) == (sequence[s] + 1) % SequenceSpan
NextSequence_Wide(s) == sequence[s] + 1
NextSequence(s) ==
  IF (sequence[s] + 1) % SequenceSpan = 0 THEN 1 ELSE (sequence[s] + 1) % SequenceSpan

\* updateSchedule(): the frame at which s is due again after frame f.  The first
\* packet fixes a grid; the loop moves along it to the first point past f.
DueAgain_OneStep(f, s) == IF started[s] THEN next[s] + Period(s) ELSE f + Period(s)
DueAgain(f, s) ==
  IF started[s]
  THEN next[s] + ((f - next[s]) \div Period(s) + 1) * Period(s)
  ELSE f + Period(s)

\* What a failed send leaves in the subscription.
NextAfterFailure_Moved(s) == next[s] + Period(s)
NextAfterFailure(s) == next[s]
SequenceAfterFailure_Counted(s) == NextSequence(s)
SequenceAfterFailure(s) == sequence[s]

-----------------------------------------------------------------------------
Init ==
  /\ frame = -1
  /\ live = {}
  /\ started = [s \in Subscriptions |-> FALSE]
  /\ next = [s \in Subscriptions |-> 0]
  /\ sequence = [s \in Subscriptions |-> 0]
  /\ first = [s \in Subscriptions |-> 0]
  /\ last = [s \in Subscriptions |-> 0]
  /\ count = [s \in Subscriptions |-> 0]
  /\ owed = [s \in Subscriptions |-> FALSE]

\* SubscriptionManager::add of a fresh Subscription.
Add(s) ==
  /\ s \notin live
  /\ live' = live \cup {s}
  /\ started' = [started EXCEPT ![s] = FALSE]
  /\ next' = [next EXCEPT ![s] = 0]
  /\ sequence' = [sequence EXCEPT ![s] = 0]
  /\ first' = [first EXCEPT ![s] = frame]
  /\ last' = [last EXCEPT ![s] = 0]
  /\ count' = [count EXCEPT ![s] = 0]
  /\ owed' = [owed EXCEPT ![s] = FALSE]
  /\ UNCHANGED frame

\* SubscriptionManager::remove, removeExpired.
Remove(s) ==
  /\ s \in live
  /\ live' = live \ {s}
  /\ UNCHANGED <<frame, schedule, history>>

\* Publisher::publish(frame f): each live subscription that is due is sent a
\* packet; the sends to those in lost fail.
Publish(f, lost) ==
  LET due  == {s \in live : ShouldPublish(f, s)}
      sent == due \ lost
  IN /\ f > frame
     /\ lost \subseteq due
     /\ frame' = f
     /\ started' = [s \in Subscriptions |-> s \in sent \/ started[s]]
     /\ next' = [s \in Subscriptions |->
                   IF s \in sent THEN DueAgain(f, s)
                   ELSE IF s \in lost THEN NextAfterFailure(s) ELSE next[s]]
     /\ sequence' = [s \in Subscriptions |->
                       IF s \in sent THEN NextSequence(s)
                       ELSE IF s \in lost THEN SequenceAfterFailure(s) ELSE sequence[s]]
     /\ first' = [s \in Subscriptions |-> IF s \in sent /\ count[s] = 0 THEN f ELSE first[s]]
     /\ last' = [s \in Subscriptions |-> IF s \in sent THEN f ELSE last[s]]
     /\ count' = [s \in Subscriptions |-> IF s \in sent THEN count[s] + 1 ELSE count[s]]
     /\ owed' = [s \in Subscriptions |->
                   IF s \in lost THEN TRUE ELSE IF s \in sent THEN FALSE ELSE owed[s]]
     /\ UNCHANGED live

Next ==
  \/ \E s \in Subscriptions : Add(s) \/ Remove(s)
  \/ \E f \in 0..MaxFrame, lost \in SUBSET Subscriptions : Publish(f, lost)

Spec == Init /\ [][Next]_vars

-----------------------------------------------------------------------------
\* Every variable stays in its type; sequence numbers fit their field.
TypeOK ==
  /\ frame \in Int
  /\ live \subseteq Subscriptions
  /\ started \in [Subscriptions -> BOOLEAN]
  /\ next \in [Subscriptions -> Nat]
  /\ sequence \in [Subscriptions -> 0..(SequenceSpan - 1)]
  /\ first \in [Subscriptions -> Int]
  /\ last \in [Subscriptions -> Nat]
  /\ count \in [Subscriptions -> Nat]
  /\ owed \in [Subscriptions -> BOOLEAN]

\* After a packet a subscription is due at the next point of the grid fixed by
\* its first packet: not earlier, however many frames were lost in between, and
\* never more than a period away.
DueWithinAPeriod ==
  \A s \in live : started[s] =>
    /\ last[s] < next[s] /\ next[s] <= last[s] + Period(s)
    /\ \E k \in 1..(next[s] + 1) : next[s] = first[s] + k * Period(s)

\* Nothing is skipped: a served subscription that is still due once a frame has
\* gone by (any frame, before its first packet) is one whose last send failed.
DueOnlyAfterAFailure ==
  \A s \in live :
    Served(s) /\ (IF started[s] THEN frame >= next[s] ELSE frame > first[s]) => owed[s]

\* The receiver can count on the numbers: up to the wraps of the field, which
\* skip zero, the number of the last packet is the number of packets sent,
\* whether or not sends failed in between.
SequenceCountsPackets ==
  \A s \in live :
    /\ sequence[s] = 0 <=> count[s] = 0
    /\ \E wraps \in 0..count[s] : count[s] = wraps * (SequenceSpan - 1) + sequence[s]

-----------------------------------------------------------------------------
\* The rate is never exceeded: two packets of a subscription never fall into the
\* same period of its grid, whichever frames were lost before them.
OnePacketPerPeriod ==
  [][\A s \in live :
       count'[s] > count[s] /\ count[s] > 0 =>
         (last'[s] - first[s]) \div Period(s) > (last[s] - first[s]) \div Period(s)]_vars
==============================================================================
