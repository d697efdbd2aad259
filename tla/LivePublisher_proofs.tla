------------------------- MODULE LivePublisher_proofs -------------------------
(***************************************************************************)
(* Proofs about LivePublisher for any subscriptions, any rates, any width  *)
(* of the sequence number and any pattern of lost frames and failed sends. *)
(*                                                                         *)
(* Scheduled is the inductive invariant.  It says where on its grid a      *)
(* subscription stands and that its last packet lies before the next due   *)
(* frame; the properties of the runs follow from it.                       *)
(***************************************************************************)
EXTENDS LivePublisher, TLAPS

-----------------------------------------------------------------------------
(* Arithmetic of the grid. *)

\* Division, as the prover understands it: what \div returns for a positive divisor.
LEMMA Division ==
  ASSUME NEW d \in Nat, NEW p \in Nat \ {0}
  PROVE  d \div p \in Nat /\ (d \div p) * p <= d /\ d < (d \div p + 1) * p
OBVIOUS

\* A larger multiplier gives a multiple that is larger by at least the factor.
LEMMA Multiples ==
  ASSUME NEW j \in Int, NEW k \in Int, NEW p \in Nat, j < k
  PROVE  (j + 1) * p <= k * p
OBVIOUS

\* A distance short of k periods spans fewer than k whole periods.
LEMMA FewerPeriods ==
  ASSUME NEW d \in Nat, NEW p \in Nat \ {0}, NEW k \in Nat, d < k * p
  PROVE  d \div p < k
<1>1. d \div p \in Nat /\ (d \div p) * p <= d
  BY Division
<1>2. ASSUME k <= d \div p PROVE FALSE
  <2>1. k * p <= (d \div p) * p
    BY <1>1, <1>2
  <2>2. k * p \in Int /\ (d \div p) * p \in Int
    BY <1>1
  <2> QED
    BY <1>1, <2>1, <2>2
<1> QED
  BY <1>1, <1>2

\* A distance of k periods or more spans at least k whole periods.
LEMMA MorePeriods ==
  ASSUME NEW d \in Nat, NEW p \in Nat \ {0}, NEW k \in Nat, k * p <= d
  PROVE  k <= d \div p
<1>1. d \div p \in Nat /\ d < (d \div p + 1) * p
  BY Division
<1>2. ASSUME d \div p < k PROVE FALSE
  <2>1. (d \div p + 1) * p <= k * p
    BY <1>1, <1>2
  <2>2. k * p \in Int /\ (d \div p + 1) * p \in Int
    BY <1>1
  <2> QED
    BY <1>1, <2>1, <2>2
<1> QED
  BY <1>1, <1>2

\* The period of a served rate is at least one frame.
LEMMA PeriodIsPositive ==
  ASSUME NEW s \in Subscriptions, Served(s)
  PROVE  Period(s) \in Nat \ {0}
<1>1. Rate[s] \in Nat \ {0} /\ FrameRate \in Nat \ {0} /\ Rate[s] <= FrameRate
  BY PublisherAssumption DEF PublisherAssumption, Served
<1>2. 1 * Rate[s] <= FrameRate
  BY <1>1
<1>3. 1 <= FrameRate \div Rate[s] /\ FrameRate \div Rate[s] \in Nat
  BY <1>1, <1>2, MorePeriods, Division
<1> QED
  BY <1>3 DEF Period

-----------------------------------------------------------------------------
(* The inductive invariant. *)

\* What holds of a live subscription that has been published.
OnSchedule(s) ==
  /\ Served(s)
  /\ 0 <= first[s] /\ first[s] <= last[s] /\ last[s] <= frame
  /\ last[s] < next[s] /\ next[s] <= last[s] + Period(s)
  /\ \E k \in Nat \ {0} : next[s] = first[s] + k * Period(s)
  /\ frame < next[s] \/ owed[s]

\* What holds of a live subscription that has not been published yet.
Waiting(s) ==
  /\ first[s] <= frame
  /\ Served(s) /\ first[s] < frame => owed[s]

Scheduled ==
  \A s \in live : /\ started[s] <=> count[s] # 0
                  /\ IF started[s] THEN OnSchedule(s) ELSE Waiting(s)

IInv == TypeOK /\ frame >= -1 /\ Scheduled /\ SequenceCountsPackets

\* The initial states satisfy the invariant.
LEMMA InitIInv == Init => IInv
BY PublisherAssumption
DEF Init, IInv, TypeOK, Scheduled, SequenceCountsPackets, PublisherAssumption

-----------------------------------------------------------------------------
(* What publish(f) does to one live subscription. *)

\* A subscription that is sent a packet moves to the first point of its grid
\* past the frame.
LEMMA SentMovesAlongTheGrid ==
  ASSUME IInv, NEW s \in live, NEW f \in Nat, f > frame, ShouldPublish(f, s)
  PROVE  /\ DueAgain(f, s) \in Nat
         /\ f < DueAgain(f, s) /\ DueAgain(f, s) <= f + Period(s)
         /\ \E k \in Nat \ {0} :
              DueAgain(f, s) = (IF started[s] THEN first[s] ELSE f) + k * Period(s)
<1> DEFINE p == Period(s)
<1>1. s \in Subscriptions /\ Served(s)
  BY DEF IInv, TypeOK, ShouldPublish
<1>2. p \in Nat \ {0}
  BY <1>1, PeriodIsPositive
<1> HIDE DEF p
<1>3. CASE ~started[s]
  <2>1. DueAgain(f, s) = f + p
    BY <1>3 DEF DueAgain, p
  <2>2. f + p = f + 1 * p
    BY <1>2
  <2> QED
    BY <1>2, <1>3, <2>1, <2>2 DEF p
<1>4. CASE started[s]
  <2> DEFINE q == (f - next[s]) \div p
  <2>1. next[s] \in Nat /\ next[s] <= f /\ f - next[s] \in Nat
    BY <1>1, <1>4 DEF IInv, TypeOK, ShouldPublish
  <2>2. q \in Nat /\ q * p <= f - next[s] /\ f - next[s] < (q + 1) * p
    BY <1>2, <2>1, Division
  <2>3. DueAgain(f, s) = next[s] + (q + 1) * p
    BY <1>4 DEF DueAgain, p
  <2>4. PICK k \in Nat \ {0} : next[s] = first[s] + k * p
    BY <1>4 DEF IInv, Scheduled, OnSchedule, p
  <2>5. first[s] \in Int
    BY <1>1 DEF IInv, TypeOK
  <2> HIDE DEF q
  <2>6. (q + 1) * p = q * p + p /\ q * p \in Nat /\ (q + 1) * p \in Nat
    BY <1>2, <2>2
  <2>7. first[s] + k * p + (q + 1) * p = first[s] + (k + (q + 1)) * p
    BY <1>2, <2>2, <2>5
  <2>8. k + (q + 1) \in Nat \ {0}
    BY <2>2
  <2>9. DueAgain(f, s) = first[s] + (k + (q + 1)) * p
    BY <2>3, <2>4, <2>7
  <2>10. DueAgain(f, s) \in Nat /\ f < DueAgain(f, s) /\ DueAgain(f, s) <= f + p
    BY <1>2, <2>1, <2>2, <2>3, <2>6
  <2> QED
    BY <1>4, <2>8, <2>9, <2>10 DEF p
<1> QED
  BY <1>3, <1>4

\* The next number is in range, not zero, and one packet further on.
LEMMA NextNumber ==
  ASSUME IInv, NEW s \in live
  PROVE  /\ NextSequence(s) \in 1..(SequenceSpan - 1)
         /\ \E wraps \in 0..(count[s] + 1) :
              count[s] + 1 = wraps * (SequenceSpan - 1) + NextSequence(s)
<1>1. /\ SequenceSpan \in Nat /\ SequenceSpan > 1
      /\ sequence[s] \in 0..(SequenceSpan - 1) /\ count[s] \in Nat
  BY PublisherAssumption DEF PublisherAssumption, IInv, TypeOK
<1>2. PICK wraps \in 0..count[s] : count[s] = wraps * (SequenceSpan - 1) + sequence[s]
  BY DEF IInv, SequenceCountsPackets
<1>3. (sequence[s] + 1) % SequenceSpan =
        IF sequence[s] = SequenceSpan - 1 THEN 0 ELSE sequence[s] + 1
  BY <1>1
<1>4. CASE sequence[s] = SequenceSpan - 1
  <2>1. NextSequence(s) = 1
    BY <1>1, <1>3, <1>4 DEF NextSequence
  <2>2. (wraps + 1) * (SequenceSpan - 1) = wraps * (SequenceSpan - 1) + (SequenceSpan - 1)
    BY <1>1, <1>2
  <2>3. wraps + 1 \in 0..(count[s] + 1)
    BY <1>1, <1>2
  <2>4. count[s] + 1 = (wraps + 1) * (SequenceSpan - 1) + 1
    BY <1>1, <1>2, <1>4, <2>2
  <2> QED
    BY <1>1, <2>1, <2>3, <2>4
<1>5. CASE sequence[s] # SequenceSpan - 1
  <2>1. NextSequence(s) = sequence[s] + 1
    BY <1>1, <1>3, <1>5 DEF NextSequence
  <2>2. count[s] + 1 = wraps * (SequenceSpan - 1) + (sequence[s] + 1)
    BY <1>1, <1>2
  <2> QED
    BY <1>1, <1>2, <1>5, <2>1, <2>2
<1> QED
  BY <1>4, <1>5

-----------------------------------------------------------------------------
(* Every action preserves the invariant. *)

\* A new subscription waits for its first frame.
LEMMA AddKeepsIInv ==
  ASSUME IInv, NEW s \in Subscriptions, Add(s)
  PROVE  IInv'
<1> USE DEF IInv, Add
<1>1. TypeOK' /\ frame' >= -1
  BY PublisherAssumption DEF TypeOK, PublisherAssumption
<1>2. ASSUME NEW t \in live', t # s
      PROVE  /\ t \in live /\ t \in Subscriptions
             /\ started'[t] = started[t] /\ next'[t] = next[t] /\ sequence'[t] = sequence[t]
             /\ first'[t] = first[t] /\ last'[t] = last[t] /\ count'[t] = count[t]
             /\ owed'[t] = owed[t]
  BY <1>2 DEF TypeOK
<1>3. /\ started'[s] = FALSE /\ sequence'[s] = 0 /\ count'[s] = 0 /\ first'[s] = frame
  BY DEF TypeOK
<1>4. Scheduled'
  BY <1>1, <1>2, <1>3 DEF Scheduled, OnSchedule, Waiting, TypeOK, Served, Period
<1>5. SequenceCountsPackets'
  BY <1>2, <1>3, PublisherAssumption DEF SequenceCountsPackets, PublisherAssumption
<1> QED
  BY <1>1, <1>4, <1>5

\* The subscriptions that remain are untouched.
LEMMA RemoveKeepsIInv ==
  ASSUME IInv, NEW s \in Subscriptions, Remove(s)
  PROVE  IInv'
BY DEF IInv, Remove, schedule, history, TypeOK, Scheduled, OnSchedule, Waiting,
       SequenceCountsPackets, Served, Period

\* The values publish() leaves in a live subscription, by what became of it.
LEMMA PublishOne ==
  ASSUME IInv, NEW f \in 0..MaxFrame, NEW lost \in SUBSET Subscriptions, Publish(f, lost),
         NEW s \in live
  PROVE  /\ frame' = f /\ f > frame /\ live' = live
         /\ \/ /\ ShouldPublish(f, s)
               /\ started'[s] = TRUE /\ next'[s] = DueAgain(f, s)
               /\ sequence'[s] = NextSequence(s) /\ count'[s] = count[s] + 1
               /\ first'[s] = (IF count[s] = 0 THEN f ELSE first[s]) /\ last'[s] = f
               /\ owed'[s] = FALSE
            \/ /\ IF ShouldPublish(f, s) THEN owed'[s] ELSE owed'[s] = owed[s]
               /\ started'[s] = started[s] /\ next'[s] = next[s]
               /\ sequence'[s] = sequence[s] /\ count'[s] = count[s]
               /\ first'[s] = first[s] /\ last'[s] = last[s]
<1> DEFINE due == {t \in live : ShouldPublish(f, t)}
           sent == due \ lost
<1>1. s \in Subscriptions /\ frame' = f /\ f > frame /\ live' = live /\ lost \subseteq due
  BY DEF IInv, TypeOK, Publish
<1>2. CASE s \in sent
  <2>1. started'[s] = TRUE /\ owed'[s] = FALSE
    BY <1>1, <1>2 DEF Publish
  <2>2. /\ next'[s] = DueAgain(f, s) /\ sequence'[s] = NextSequence(s)
        /\ count'[s] = count[s] + 1 /\ last'[s] = f
        /\ first'[s] = (IF count[s] = 0 THEN f ELSE first[s])
    BY <1>1, <1>2 DEF Publish
  <2> QED
    BY <1>1, <1>2, <2>1, <2>2
<1>3. CASE s \notin sent
  <2>1. started'[s] = started[s]
    BY <1>1, <1>3 DEF Publish, IInv, TypeOK
  <2>2. IF ShouldPublish(f, s) THEN owed'[s] ELSE owed'[s] = owed[s]
    BY <1>1, <1>3 DEF Publish
  <2>3. /\ next'[s] = next[s] /\ sequence'[s] = sequence[s]
        /\ count'[s] = count[s] /\ first'[s] = first[s] /\ last'[s] = last[s]
    BY <1>1, <1>3 DEF Publish, NextAfterFailure, SequenceAfterFailure
  <2> QED
    BY <1>1, <2>1, <2>2, <2>3
<1> QED
  BY <1>2, <1>3

\* The types of what publish() writes.
LEMMA PublishKeepsTypes ==
  ASSUME IInv, NEW f \in 0..MaxFrame, NEW lost \in SUBSET Subscriptions, Publish(f, lost)
  PROVE  TypeOK'
<1>1. f \in Nat /\ f > frame
  BY PublisherAssumption DEF PublisherAssumption, Publish
<1>2. \A s \in live : ShouldPublish(f, s) => DueAgain(f, s) \in Nat
  BY <1>1, SentMovesAlongTheGrid
<1>3. \A s \in live : NextSequence(s) \in 0..(SequenceSpan - 1)
  BY NextNumber, PublisherAssumption DEF PublisherAssumption
<1>4. next' \in [Subscriptions -> Nat]
  BY <1>2 DEF IInv, TypeOK, Publish, NextAfterFailure
<1>5. sequence' \in [Subscriptions -> 0..(SequenceSpan - 1)]
  BY <1>3 DEF IInv, TypeOK, Publish, SequenceAfterFailure
<1>6. started' \in [Subscriptions -> BOOLEAN] /\ owed' \in [Subscriptions -> BOOLEAN]
  BY DEF IInv, TypeOK, Publish
<1>7. /\ first' \in [Subscriptions -> Int] /\ last' \in [Subscriptions -> Nat]
      /\ count' \in [Subscriptions -> Nat]
      /\ frame' \in Int /\ live' \subseteq Subscriptions
  BY <1>1 DEF IInv, TypeOK, Publish
<1> QED
  BY <1>4, <1>5, <1>6, <1>7 DEF TypeOK

\* Every live subscription is on its schedule, or waits, after the frame too.
LEMMA PublishKeepsSchedule ==
  ASSUME IInv, NEW f \in 0..MaxFrame, NEW lost \in SUBSET Subscriptions, Publish(f, lost)
  PROVE  Scheduled'
<1>1. f \in Nat /\ f > frame /\ frame' = f /\ live' = live
  BY PublisherAssumption DEF PublisherAssumption, Publish
<1> SUFFICES ASSUME NEW s \in live
             PROVE  /\ started'[s] <=> count'[s] # 0
                    /\ IF started'[s] THEN OnSchedule(s)' ELSE Waiting(s)'
  BY <1>1 DEF Scheduled
<1>2. /\ s \in Subscriptions
      /\ started[s] \in BOOLEAN /\ owed[s] \in BOOLEAN /\ next[s] \in Nat
      /\ count[s] \in Nat /\ first[s] \in Int /\ last[s] \in Nat /\ frame \in Int
  BY DEF IInv, TypeOK
<1>3. /\ started[s] <=> count[s] # 0
      /\ IF started[s] THEN OnSchedule(s) ELSE Waiting(s)
  BY DEF IInv, Scheduled
<1>4. CASE /\ ShouldPublish(f, s)
           /\ started'[s] = TRUE /\ next'[s] = DueAgain(f, s)
           /\ count'[s] = count[s] + 1
           /\ first'[s] = (IF count[s] = 0 THEN f ELSE first[s]) /\ last'[s] = f
  <2>1. /\ DueAgain(f, s) \in Nat
        /\ f < DueAgain(f, s) /\ DueAgain(f, s) <= f + Period(s)
        /\ \E k \in Nat \ {0} :
             DueAgain(f, s) = (IF started[s] THEN first[s] ELSE f) + k * Period(s)
    BY <1>1, <1>4, SentMovesAlongTheGrid
  <2>2. Served(s)' /\ Period(s)' = Period(s)
    BY <1>4 DEF ShouldPublish, Served, Period
  <2>3. /\ 0 <= first'[s] /\ first'[s] <= last'[s]
        /\ first'[s] = IF started[s] THEN first[s] ELSE f
    BY <1>1, <1>2, <1>3, <1>4 DEF OnSchedule
  <2> QED
    BY <1>1, <1>2, <1>4, <2>1, <2>2, <2>3 DEF OnSchedule
<1>5. CASE /\ IF ShouldPublish(f, s) THEN owed'[s] ELSE owed'[s] = owed[s]
           /\ started'[s] = started[s] /\ next'[s] = next[s] /\ count'[s] = count[s]
           /\ first'[s] = first[s] /\ last'[s] = last[s]
  <2>1. CASE started[s]
    <3>1. f < next[s] \/ owed'[s]
      BY <1>1, <1>2, <1>3, <1>5, <2>1 DEF OnSchedule, ShouldPublish
    <3> QED
      BY <1>1, <1>2, <1>3, <1>5, <2>1, <3>1 DEF OnSchedule, Served, Period
  <2>2. CASE ~started[s]
    <3>1. Served(s) => owed'[s]
      BY <1>5, <2>2 DEF ShouldPublish
    <3> QED
      BY <1>1, <1>2, <1>3, <1>5, <2>2, <3>1 DEF Waiting, Served
  <2> QED
    BY <2>1, <2>2
<1> QED
  BY <1>4, <1>5, PublishOne

\* The numbers keep counting the packets.
LEMMA PublishKeepsCount ==
  ASSUME IInv, NEW f \in 0..MaxFrame, NEW lost \in SUBSET Subscriptions, Publish(f, lost)
  PROVE  SequenceCountsPackets'
<1> SUFFICES ASSUME NEW s \in live
             PROVE  /\ sequence'[s] = 0 <=> count'[s] = 0
                    /\ \E wraps \in 0..count'[s] :
                         count'[s] = wraps * (SequenceSpan - 1) + sequence'[s]
  BY DEF Publish, SequenceCountsPackets
<1>1. /\ sequence[s] = 0 <=> count[s] = 0
      /\ \E wraps \in 0..count[s] : count[s] = wraps * (SequenceSpan - 1) + sequence[s]
      /\ count[s] \in Nat
  BY DEF IInv, TypeOK, SequenceCountsPackets
<1>2. /\ NextSequence(s) \in 1..(SequenceSpan - 1)
      /\ \E wraps \in 0..(count[s] + 1) :
           count[s] + 1 = wraps * (SequenceSpan - 1) + NextSequence(s)
  BY NextNumber
<1>3. \/ sequence'[s] = NextSequence(s) /\ count'[s] = count[s] + 1
      \/ sequence'[s] = sequence[s] /\ count'[s] = count[s]
  BY PublishOne
<1>4. CASE sequence'[s] = NextSequence(s) /\ count'[s] = count[s] + 1
  <2>1. sequence'[s] # 0 /\ count'[s] # 0
    BY <1>1, <1>2, <1>4
  <2> QED
    BY <1>2, <1>4, <2>1
<1>5. CASE sequence'[s] = sequence[s] /\ count'[s] = count[s]
  BY <1>1, <1>5
<1> QED
  BY <1>3, <1>4, <1>5

\* Every step keeps the invariant.
LEMMA NextIInv == IInv /\ [Next]_vars => IInv'
<1> SUFFICES ASSUME IInv, [Next]_vars PROVE IInv'
  OBVIOUS
<1>1. CASE \E s \in Subscriptions : Add(s) \/ Remove(s)
  BY <1>1, AddKeepsIInv, RemoveKeepsIInv
<1>2. ASSUME NEW f \in 0..MaxFrame, NEW lost \in SUBSET Subscriptions, Publish(f, lost)
      PROVE  IInv'
  <2>1. frame' >= -1
    BY <1>2, PublisherAssumption DEF Publish, PublisherAssumption
  <2> QED
    BY <1>2, <2>1, PublishKeepsTypes, PublishKeepsSchedule, PublishKeepsCount DEF IInv
<1>3. CASE UNCHANGED vars
  BY <1>3 DEF vars, schedule, history, IInv, TypeOK, Scheduled, OnSchedule, Waiting,
              SequenceCountsPackets, Served, Period
<1> QED
  BY <1>1, <1>2, <1>3 DEF Next

-----------------------------------------------------------------------------
(* Theorems. *)

\* The inductive invariant holds of every execution.
THEOREM IInvHolds == Spec => []IInv
BY InitIInv, NextIInv, PTL DEF Spec

\* Type correctness of the publisher: the sequence number stays in its field.
THEOREM PublisherTypes == Spec => []TypeOK
BY IInvHolds, PTL DEF IInv

\* The numbers a receiver sees count the packets, for any width of the field.
THEOREM NumbersCount == Spec => []SequenceCountsPackets
BY IInvHolds, PTL DEF IInv

\* A subscription is due at the next point of its grid, for any rate that divides
\* the frame rate and any frames lost on the way.
THEOREM DueOnTheGrid == Spec => []DueWithinAPeriod
<1>1. IInv => DueWithinAPeriod
  <2> SUFFICES ASSUME IInv, NEW s \in live, started[s]
               PROVE  /\ last[s] < next[s] /\ next[s] <= last[s] + Period(s)
                      /\ \E k \in 1..(next[s] + 1) : next[s] = first[s] + k * Period(s)
    BY DEF DueWithinAPeriod
  <2>1. OnSchedule(s)
    BY DEF IInv, Scheduled
  <2>2. PICK k \in Nat \ {0} : next[s] = first[s] + k * Period(s)
    BY <2>1 DEF OnSchedule
  <2>3. /\ s \in Subscriptions
        /\ first[s] \in Int /\ 0 <= first[s] /\ next[s] \in Nat
    BY <2>1 DEF IInv, TypeOK, OnSchedule
  <2>4. Period(s) \in Nat \ {0}
    BY <2>1, <2>3, PeriodIsPositive DEF OnSchedule
  <2>5. k <= k * Period(s) /\ k * Period(s) \in Nat
    BY <2>4
  <2>6. k \in 1..(next[s] + 1)
    BY <2>2, <2>3, <2>5
  <2> QED
    BY <2>1, <2>2, <2>6 DEF OnSchedule
<1> QED
  BY IInvHolds, <1>1, PTL

\* No packet is withheld: a subscription still due after a frame is owed a retry.
THEOREM NothingWithheld == Spec => []DueOnlyAfterAFailure
<1>1. IInv => DueOnlyAfterAFailure
  BY DEF IInv, TypeOK, Scheduled, OnSchedule, Waiting, DueOnlyAfterAFailure
<1> QED
  BY IInvHolds, <1>1, PTL

\* The rate of a subscription is never exceeded, for any rate and any gaps.
THEOREM RateIsRespected == Spec => OnePacketPerPeriod
<1>1. ASSUME IInv, [Next]_vars, NEW s \in live, count'[s] > count[s], count[s] > 0
      PROVE  (last'[s] - first[s]) \div Period(s) > (last[s] - first[s]) \div Period(s)
  <2>1. /\ s \in Subscriptions /\ count[s] \in Nat /\ started[s] /\ OnSchedule(s)
        /\ next[s] \in Nat /\ first[s] \in Int /\ last[s] \in Nat
    BY <1>1 DEF IInv, TypeOK, Scheduled
  <2>2. \A t \in Subscriptions : ~Add(t) \/ t # s
    BY DEF Add
  <2>3. ~UNCHANGED count
    BY <1>1, <2>1
  <2>4. PICK f \in 0..MaxFrame, lost \in SUBSET Subscriptions : Publish(f, lost)
    <3>1. ASSUME NEW t \in Subscriptions, Add(t) PROVE FALSE
      <4>1. t # s /\ count' = [count EXCEPT ![t] = 0]
        BY <2>2, <3>1 DEF Add
      <4>2. count'[s] = count[s]
        BY <4>1, <2>1 DEF IInv, TypeOK
      <4> QED
        BY <1>1, <2>1, <4>2
    <3>2. ASSUME NEW t \in Subscriptions, Remove(t) PROVE FALSE
      BY <2>3, <3>2 DEF Remove, history
    <3> QED
      BY <1>1, <2>3, <3>1, <3>2 DEF Next, vars, history
  <2>5. /\ ShouldPublish(f, s) /\ last'[s] = f /\ f \in Nat
    <3>1. (ShouldPublish(f, s) /\ last'[s] = f) \/ count'[s] = count[s]
      BY <1>1, <2>4, PublishOne
    <3> QED
      BY <1>1, <2>1, <3>1, PublisherAssumption DEF PublisherAssumption
  <2>6. next[s] <= f
    BY <2>1, <2>5 DEF ShouldPublish
  <2>7. PICK k \in Nat \ {0} : next[s] = first[s] + k * Period(s)
    BY <2>1 DEF OnSchedule
  <2>8. Period(s) \in Nat \ {0}
    BY <2>1, PeriodIsPositive DEF OnSchedule
  <2>9. k * Period(s) \in Nat /\ last[s] - first[s] \in Nat /\ f - first[s] \in Nat
    BY <2>1, <2>5, <2>6, <2>7, <2>8 DEF OnSchedule
  <2>10. last[s] - first[s] < k * Period(s) /\ k * Period(s) <= f - first[s]
    BY <2>1, <2>5, <2>6, <2>7, <2>9 DEF OnSchedule
  <2>11. (last[s] - first[s]) \div Period(s) < k
    BY <2>8, <2>9, <2>10, FewerPeriods
  <2>12. k <= (f - first[s]) \div Period(s)
    BY <2>8, <2>9, <2>10, MorePeriods
  <2>13. /\ (last[s] - first[s]) \div Period(s) \in Nat
         /\ (f - first[s]) \div Period(s) \in Nat
    BY <2>8, <2>9, Division
  <2> QED
    BY <2>5, <2>11, <2>12, <2>13
<1>2. IInv /\ [Next]_vars =>
        [\A s \in live :
           count'[s] > count[s] /\ count[s] > 0 =>
             (last'[s] - first[s]) \div Period(s) > (last[s] - first[s]) \div Period(s)]_vars
  BY <1>1
<1> QED
  BY IInvHolds, <1>2, PTL DEF Spec, OnePacketPerPeriod
==============================================================================
