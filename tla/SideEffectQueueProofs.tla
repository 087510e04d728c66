------------------------ MODULE SideEffectQueueProofs ------------------------
(***************************************************************************)
(* Proofs about SideEffectQueue for every set of side effects and          *)
(* aggregates, every number of tries and any number of crashes.            *)
(***************************************************************************)
EXTENDS SideEffectQueue, FiniteSetTheorems, TLAPS

Data == INSTANCE DataLemmas

-----------------------------------------------------------------------------
(* The inductive invariant. *)

MessageOK(m) == m.effect \in Effects /\ m.try \in Nat

CountersOK == /\ registered \subseteq Effects
              /\ called \subseteq Effects
              /\ tries \in [Effects -> Nat]
              /\ reports \in [Effects -> Nat]
              /\ log \in [Effects -> [Groups -> Nat]]

\* A message has counted no more tries than there were.
InTransit == \A m \in sending \cup queue \cup acking :
                 MessageOK(m) /\ m.try <= tries[m.effect]

IsDelivery(d) == DOMAIN d = {"message", "stage", "open"}

DeliveryOK(d) == /\ IsDelivery(d)
                 /\ MessageOK(d.message)
                 /\ d.open \subseteq Groups
                 /\ d.open # {} => d.stage = "emit"

\* The try of a delivery has begun; its report comes after the last one; and
\* the appends that it does not await any more have happened.
UnderWay == \A d \in deliveries :
                LET e == d.message.effect
                IN  /\ DeliveryOK(d)
                    /\ d.message.try < tries[e]
                    /\ d.stage = "report" => MaxTries <= tries[e]
                    /\ d.stage = "emit" =>
                          \A g \in Groups \ d.open : log[e][g] > 0

LeftBehind == \A a \in late : a.message.effect \in Effects /\ a.group \in Groups

QueueInv == CountersOK /\ InTransit /\ UnderWay /\ LeftBehind
-----------------------------------------------------------------------------
(* Lemmas about messages and deliveries. *)

\* What queue publishes is a message of the effect, with the number of tries it
\* is given.
LEMMA NewMessageIs ==
    ASSUME NEW e \in Effects, NEW t \in Nat
    PROVE  /\ MessageOK(NewMessage(e, t))
           /\ NewMessage(e, t).effect = e
           /\ NewMessage(e, t).try = t
  BY DEF NewMessage, MessageOK

\* An append raises one counter and keeps the others.
LEMMA AppendRaises ==
    ASSUME CountersOK, NEW e \in Effects, NEW g \in Groups, Append(e, g)
    PROVE  /\ log' \in [Effects -> [Groups -> Nat]]
           /\ \A f \in Effects, h \in Groups : log'[f][h] >= log[f][h]
           /\ log'[e][g] > 0
  BY DEF CountersOK, Append

\* The catch of the callback: either the last try has failed and the delivery
\* goes on to its report, or it is over and a message with one more try is on
\* its way.
LEMMA CatchIs ==
    ASSUME QueueInv, NEW d \in deliveries, Catch(d)
    PROVE  LET e == d.message.effect
               t == d.message.try + 1
           IN  /\ e \in Effects /\ t \in Nat /\ t <= tries[e]
               /\ \/ \E next : /\ IsDelivery(next)
                               /\ next.message = d.message
                               /\ next.stage = "report" /\ next.open = {}
                               /\ MaxTries <= tries[e]
                               /\ deliveries' = (deliveries \ {d}) \cup {next}
                               /\ sending' = sending /\ acking' = acking
                  \/ /\ t < MaxTries
                     /\ deliveries' = deliveries \ {d}
                     /\ sending' = sending \cup {NewMessage(e, t)}
                     /\ acking' = acking \cup {d.message}
<1> DEFINE e == d.message.effect
           t == d.message.try + 1
           next == [d EXCEPT !.stage = "report", !.open = {}]
<1>1. /\ IsDelivery(d)
      /\ e \in Effects /\ d.message.try \in Nat
      /\ d.message.try < tries[e] /\ tries[e] \in Nat
  BY DEF QueueInv, UnderWay, DeliveryOK, MessageOK, CountersOK
<1>2. e \in Effects /\ t \in Nat /\ t <= tries[e]
  BY <1>1
<1>3. CASE Exhausted(t)
  <2>1. /\ IsDelivery(next) /\ next.message = d.message
        /\ next.stage = "report" /\ next.open = {}
    BY <1>1 DEF IsDelivery
  <2>2. MaxTries <= tries[e]
    BY <1>1, <1>3, SideEffectQueueAssumption DEF Exhausted
  <2>3. /\ deliveries' = (deliveries \ {d}) \cup {next}
        /\ sending' = sending /\ acking' = acking
    BY <1>3 DEF Catch, NextTry
  <2> QED
    BY <1>2, <2>1, <2>2, <2>3
<1>4. CASE ~Exhausted(t)
  <2>1. /\ deliveries' = deliveries \ {d}
        /\ sending' = sending \cup {NewMessage(e, t)}
        /\ acking' = acking \cup {d.message}
    BY <1>4 DEF Catch, NextTry
  <2>2. t < MaxTries
    BY <1>2, <1>4, SideEffectQueueAssumption DEF Exhausted
  <2> QED
    BY <1>2, <2>1, <2>2
<1> QED
  BY <1>3, <1>4
-----------------------------------------------------------------------------
(* QueueInv is inductive. *)

LEMMA QueueInvInit == Init => QueueInv
  BY DEF Init, QueueInv, CountersOK, InTransit, UnderWay, LeftBehind

\* The steps between the projection, the broker and the callback.
LEMMA QueueInvTransport ==
    ASSUME QueueInv,
           \/ \E e \in Effects : Queue(e)
           \/ \E m \in sending : Arrive(m)
           \/ \E m \in acking : AckArrives(m)
           \/ \E m \in queue : Deliver(m) \/ Ignore(m)
    PROVE  QueueInv'
<1>1. CASE \E e \in Effects : Queue(e)
  <2>1. PICK e \in Effects : Queue(e)
    BY <1>1
  <2>2. /\ MessageOK(NewMessage(e, 0))
        /\ NewMessage(e, 0).effect = e /\ NewMessage(e, 0).try = 0
    BY NewMessageIs
  <2>3. CountersOK' /\ UnderWay' /\ LeftBehind'
    BY <2>1 DEF Queue, storeVars, QueueInv, CountersOK, UnderWay, LeftBehind
  <2>4. InTransit'
    BY <2>1, <2>2 DEF Queue, QueueInv, InTransit, CountersOK
  <2> QED
    BY <2>3, <2>4 DEF QueueInv
<1>2. CASE \/ \E m \in sending : Arrive(m)
           \/ \E m \in acking : AckArrives(m)
           \/ \E m \in queue : Ignore(m)
  BY <1>2 DEF Arrive, AckArrives, Ignore, storeVars, historyVars, QueueInv,
              CountersOK, InTransit, UnderWay, LeftBehind
<1>3. CASE \E m \in queue : Deliver(m)
  <2>1. PICK m \in queue : Deliver(m)
    BY <1>3
  <2> DEFINE new == [message |-> m, stage |-> "call", open |-> {}]
  <2>2. MessageOK(m) /\ m.try <= tries[m.effect] /\ tries[m.effect] \in Nat
    BY DEF QueueInv, InTransit, CountersOK, MessageOK
  <2>3. /\ tries' \in [Effects -> Nat]
        /\ \A e \in Effects : tries'[e] >= tries[e]
        /\ tries'[m.effect] > m.try
    BY <2>1, <2>2 DEF Deliver, QueueInv, CountersOK, MessageOK
  <2>4. CountersOK' /\ LeftBehind'
    BY <2>1, <2>3 DEF Deliver, storeVars, QueueInv, CountersOK, LeftBehind
  <2>5. InTransit'
    BY <2>1, <2>3 DEF Deliver, QueueInv, CountersOK, InTransit, MessageOK
  <2>6. UnderWay'
    <3> SUFFICES ASSUME NEW d \in deliveries'
                 PROVE  LET e == d.message.effect
                        IN  /\ DeliveryOK(d)
                            /\ d.message.try < tries'[e]
                            /\ d.stage = "report" => MaxTries <= tries'[e]
                            /\ d.stage = "emit" =>
                                 \A g \in Groups \ d.open : log'[e][g] > 0
      BY DEF UnderWay, DeliveryOK, MessageOK, IsDelivery
    <3>1. CASE d = new
      BY <2>2, <2>3, <3>1 DEF DeliveryOK, IsDelivery, MessageOK
    <3>2. CASE d \in deliveries
      BY <2>1, <2>3, <3>2, SideEffectQueueAssumption
      DEF Deliver, storeVars, QueueInv, UnderWay, DeliveryOK, MessageOK,
          CountersOK
    <3> QED
      BY <2>1, <3>1, <3>2 DEF Deliver
  <2> QED
    BY <2>4, <2>5, <2>6 DEF QueueInv
<1> QED
  BY <1>1, <1>2, <1>3

\* The catch leaves the invariant intact, whatever was appended before it.
LEMMA QueueInvCatch ==
    ASSUME QueueInv, NEW d \in deliveries, Catch(d),
           log' \in [Effects -> [Groups -> Nat]],
           \A e \in Effects, g \in Groups : log'[e][g] >= log[e][g],
           UNCHANGED <<registered, queue, called, tries, reports>>
    PROVE  CountersOK' /\ InTransit' /\ UnderWay'
<1> DEFINE e == d.message.effect
           t == d.message.try + 1
<1>1. /\ e \in Effects /\ t \in Nat /\ t <= tries[e]
      /\ \/ \E next : /\ IsDelivery(next)
                      /\ next.message = d.message
                      /\ next.stage = "report" /\ next.open = {}
                      /\ MaxTries <= tries[e]
                      /\ deliveries' = (deliveries \ {d}) \cup {next}
                      /\ sending' = sending /\ acking' = acking
         \/ /\ deliveries' = deliveries \ {d}
            /\ sending' = sending \cup {NewMessage(e, t)}
            /\ acking' = acking \cup {d.message}
  BY CatchIs
<1>2. DeliveryOK(d) /\ MessageOK(d.message) /\ d.message.try < tries[e]
  BY DEF QueueInv, UnderWay, DeliveryOK
<1>3. CountersOK'
  BY DEF QueueInv, CountersOK
<1>4. ASSUME NEW x \in deliveries
      PROVE  /\ DeliveryOK(x)
             /\ x.message.try < tries'[x.message.effect]
             /\ x.stage = "report" => MaxTries <= tries'[x.message.effect]
             /\ x.stage = "emit" =>
                   \A g \in Groups \ x.open : log'[x.message.effect][g] > 0
  BY DEF QueueInv, UnderWay, DeliveryOK, MessageOK, CountersOK
<1>5. CASE \E next : /\ IsDelivery(next)
                     /\ next.message = d.message
                     /\ next.stage = "report" /\ next.open = {}
                     /\ MaxTries <= tries[e]
                     /\ deliveries' = (deliveries \ {d}) \cup {next}
                     /\ sending' = sending /\ acking' = acking
  <2>1. UnderWay'
    BY <1>2, <1>4, <1>5
    DEF UnderWay, DeliveryOK, MessageOK, IsDelivery
  <2>2. InTransit'
    BY <1>5 DEF QueueInv, InTransit, MessageOK
  <2> QED
    BY <1>3, <2>1, <2>2
<1>6. CASE /\ deliveries' = deliveries \ {d}
           /\ sending' = sending \cup {NewMessage(e, t)}
           /\ acking' = acking \cup {d.message}
  <2>1. UnderWay'
    BY <1>4, <1>6 DEF UnderWay, DeliveryOK, MessageOK, IsDelivery
  <2>2. /\ MessageOK(NewMessage(e, t))
        /\ NewMessage(e, t).effect = e /\ NewMessage(e, t).try = t
    BY <1>1, NewMessageIs
  <2>3. InTransit'
    BY <1>1, <1>2, <1>6, <2>2
    DEF QueueInv, InTransit, MessageOK, CountersOK
  <2> QED
    BY <1>3, <2>1, <2>3
<1> QED
  BY <1>1, <1>3, <1>5, <1>6

\* The steps of a callback, and of the appends it has left behind.
LEMMA QueueInvCallback ==
    ASSUME QueueInv,
           \/ \E d \in deliveries :
                 \/ Throw(d)
                 \/ Emit(d)
                 \/ \E g \in d.open : Appended(d, g) \/ AppendRejected(d, g)
                 \/ Report(d)
           \/ \E a \in late : AppendedLate(a)
    PROVE  QueueInv'
<1>1. ASSUME NEW d \in deliveries
      PROVE  /\ DeliveryOK(d) /\ IsDelivery(d) /\ d.open \subseteq Groups
             /\ d.message.effect \in Effects /\ d.message.try \in Nat
             /\ d.message.try < tries[d.message.effect]
             /\ tries[d.message.effect] \in Nat
  BY DEF QueueInv, UnderWay, DeliveryOK, MessageOK, CountersOK
<1>2. ASSUME NEW d \in deliveries, Throw(d) PROVE QueueInv'
  <2>1. CountersOK' /\ InTransit' /\ UnderWay'
    BY <1>2, QueueInvCatch
    DEF Throw, storeVars, historyVars, QueueInv, CountersOK
  <2> QED
    BY <1>2, <2>1 DEF Throw, QueueInv, LeftBehind
<1>3. ASSUME NEW d \in deliveries, Emit(d) PROVE QueueInv'
  <2> DEFINE next == [d EXCEPT !.stage = "emit", !.open = Groups]
  <2>1. /\ IsDelivery(next) /\ next.message = d.message
        /\ next.stage = "emit" /\ next.open = Groups
    BY <1>1 DEF IsDelivery
  <2>2. deliveries' = (deliveries \ {d}) \cup {next}
    BY <1>3 DEF Emit
  <2> HIDE DEF next
  <2>3. UnderWay'
    BY <1>1, <1>3, <2>1, <2>2
    DEF Emit, storeVars, historyVars, QueueInv, UnderWay, DeliveryOK,
        MessageOK, IsDelivery
  <2>4. CountersOK' /\ InTransit' /\ LeftBehind'
    BY <1>3 DEF Emit, brokerVars, storeVars, historyVars, QueueInv, CountersOK,
                InTransit, LeftBehind, MessageOK
  <2> QED
    BY <2>3, <2>4 DEF QueueInv
<1>4. ASSUME NEW d \in deliveries, NEW g \in d.open, Appended(d, g)
      PROVE  QueueInv'
  <2> DEFINE e == d.message.effect
  <2>1. /\ log' \in [Effects -> [Groups -> Nat]]
        /\ \A f \in Effects, h \in Groups : log'[f][h] >= log[f][h]
        /\ log'[e][g] > 0
    BY <1>1, <1>4, AppendRaises DEF Appended, QueueInv
  <2>2. CountersOK'
    BY <1>4, <2>1 DEF Appended, QueueInv, CountersOK
  <2>3. ASSUME NEW x \in deliveries
        PROVE  /\ DeliveryOK(x)
               /\ x.message.try < tries'[x.message.effect]
               /\ x.stage = "report" => MaxTries <= tries'[x.message.effect]
               /\ x.stage = "emit" =>
                     \A h \in Groups \ x.open : log'[x.message.effect][h] > 0
    BY <1>4, <2>1
    DEF Appended, QueueInv, UnderWay, DeliveryOK, MessageOK, CountersOK
  <2>4. CASE AllAppended(d, g)
    <3>1. /\ deliveries' = deliveries \ {d}
          /\ acking' = acking \cup {d.message}
          /\ late' = late \cup {[message |-> d.message, group |-> h] :
                                    h \in d.open \ {g}}
      BY <1>4, <2>4 DEF Appended, Abandon
    <3>2. UnderWay'
      BY <2>3, <3>1 DEF UnderWay, DeliveryOK, MessageOK, IsDelivery
    <3>3. InTransit' /\ LeftBehind'
      BY <1>1, <1>4, <3>1
      DEF Appended, QueueInv, InTransit, LeftBehind, MessageOK
    <3> QED
      BY <2>2, <3>2, <3>3 DEF QueueInv
  <2>5. CASE ~AllAppended(d, g)
    <3> DEFINE next == [d EXCEPT !.open = @ \ {g}]
    <3>1. /\ IsDelivery(next) /\ next.message = d.message
          /\ next.stage = d.stage /\ next.open = d.open \ {g}
      BY <1>1 DEF IsDelivery
    <3>2. deliveries' = (deliveries \ {d}) \cup {next}
      BY <1>4, <2>5 DEF Appended
    <3> HIDE DEF next
    <3>3. UnderWay'
      BY <1>1, <2>1, <2>3, <3>1, <3>2
      DEF UnderWay, DeliveryOK, MessageOK, IsDelivery
    <3>4. InTransit' /\ LeftBehind'
      BY <1>4, <2>5 DEF Appended, QueueInv, InTransit, LeftBehind, MessageOK
    <3> QED
      BY <2>2, <3>3, <3>4 DEF QueueInv
  <2> QED
    BY <2>4, <2>5
<1>5. ASSUME NEW d \in deliveries, NEW g \in d.open, AppendRejected(d, g)
      PROVE  QueueInv'
  <2>1. /\ log' \in [Effects -> [Groups -> Nat]]
        /\ \A f \in Effects, h \in Groups : log'[f][h] >= log[f][h]
    <3>1. CASE UNCHANGED log
      BY <3>1 DEF QueueInv, CountersOK
    <3>2. CASE Append(d.message.effect, g)
      BY <1>1, <3>2, AppendRaises DEF QueueInv
    <3> QED
      BY <1>5, <3>1, <3>2 DEF AppendRejected
  <2>2. CountersOK' /\ InTransit' /\ UnderWay'
    BY <1>5, <2>1, QueueInvCatch DEF AppendRejected, historyVars
  <2>3. LeftBehind'
    BY <1>1, <1>5 DEF AppendRejected, Abandon, QueueInv, LeftBehind
  <2> QED
    BY <2>2, <2>3 DEF QueueInv
<1>6. ASSUME NEW d \in deliveries, Report(d) PROVE QueueInv'
  BY <1>1, <1>6
  DEF Report, historyVars, QueueInv, CountersOK, InTransit, UnderWay,
      LeftBehind, DeliveryOK, MessageOK, IsDelivery
<1>7. ASSUME NEW a \in late, AppendedLate(a) PROVE QueueInv'
  <2>1. /\ log' \in [Effects -> [Groups -> Nat]]
        /\ \A f \in Effects, h \in Groups : log'[f][h] >= log[f][h]
    <3>1. CASE UNCHANGED log
      BY <3>1 DEF QueueInv, CountersOK
    <3>2. CASE Append(a.message.effect, a.group)
      BY <3>2, AppendRaises DEF QueueInv, LeftBehind
    <3> QED
      BY <1>7, <3>1, <3>2 DEF AppendedLate
  <2>2. CountersOK' /\ InTransit' /\ LeftBehind'
    BY <1>7, <2>1 DEF AppendedLate, brokerVars, historyVars, QueueInv,
                      CountersOK, InTransit, LeftBehind, MessageOK
  <2>3. UnderWay'
    BY <1>7, <2>1 DEF AppendedLate, historyVars, QueueInv, UnderWay,
                      DeliveryOK, MessageOK, IsDelivery, CountersOK
  <2> QED
    BY <2>2, <2>3 DEF QueueInv
<1> QED
  BY <1>2, <1>3, <1>4, <1>5, <1>6, <1>7

\* The end of a process gives back to the broker what is not acknowledged.
LEMMA QueueInvEnd ==
    ASSUME QueueInv, NEW back \in SUBSET Unacknowledged, End(back),
           reports' \in [Effects -> Nat]
    PROVE  QueueInv'
  BY DEF Unacknowledged, End, QueueInv, CountersOK, InTransit, UnderWay,
         LeftBehind, DeliveryOK, MessageOK

LEMMA QueueInvNext == QueueInv /\ [Next]_vars => QueueInv'
<1> SUFFICES ASSUME QueueInv, [Next]_vars
             PROVE  QueueInv'
  OBVIOUS
<1>1. CASE (\E e \in Effects : Queue(e)) \/ Transport \/ Callback
  BY <1>1, QueueInvTransport, QueueInvCallback DEF Transport, Callback
<1>2. ASSUME NEW d \in deliveries, ReportRejected(d) PROVE QueueInv'
  <2>1. d.message.effect \in Effects
    BY DEF QueueInv, UnderWay, DeliveryOK, MessageOK
  <2>2. reports' \in [Effects -> Nat]
    BY <1>2, <2>1 DEF ReportRejected, QueueInv, CountersOK
  <2>3. \/ End(Unacknowledged)
        \/ End(Unacknowledged \ {d.message})
    BY <1>2 DEF ReportRejected
  <2> QED
    BY <2>2, <2>3, QueueInvEnd
<1>3. CASE Crash
  BY <1>3, QueueInvEnd DEF Crash, QueueInv, CountersOK
<1>4. CASE Restart
  BY <1>4 DEF Restart, brokerVars, storeVars, historyVars, QueueInv,
              CountersOK, InTransit, UnderWay, LeftBehind, DeliveryOK,
              MessageOK, IsDelivery
<1>5. CASE UNCHANGED vars
  BY <1>5 DEF vars, brokerVars, storeVars, historyVars, QueueInv,
              CountersOK, InTransit, UnderWay, LeftBehind, DeliveryOK,
              MessageOK, IsDelivery
<1> QED
  BY <1>1, <1>2, <1>3, <1>4, <1>5 DEF Next

LEMMA QueueInvHolds == Spec => []QueueInv
  BY QueueInvInit, QueueInvNext, PTL DEF Spec
-----------------------------------------------------------------------------
(* The report comes after all tries. *)

LEMMA ReportedNext ==
    QueueInv /\ ReportedAfterAllTries /\ [Next]_vars => ReportedAfterAllTries'
<1> SUFFICES ASSUME QueueInv, ReportedAfterAllTries, [Next]_vars
             PROVE  ReportedAfterAllTries'
  OBVIOUS
<1> USE DEF ReportedAfterAllTries
<1>1. CountersOK /\ MaxTries \in Nat
  BY SideEffectQueueAssumption DEF QueueInv
<1>2. ASSUME NEW d \in deliveries, d.stage = "report"
      PROVE  /\ d.message.effect \in Effects
             /\ MaxTries <= tries[d.message.effect]
  BY <1>2 DEF QueueInv, UnderWay, DeliveryOK, MessageOK
<1>3. CASE UNCHANGED <<tries, reports>>
  BY <1>3
<1>4. ASSUME NEW m \in queue, Deliver(m) PROVE ReportedAfterAllTries'
  BY <1>1, <1>4 DEF Deliver, storeVars, CountersOK
<1>5. ASSUME NEW d \in deliveries, Report(d) PROVE ReportedAfterAllTries'
  BY <1>1, <1>2, <1>5 DEF Report, historyVars, CountersOK
<1>6. ASSUME NEW d \in deliveries, ReportRejected(d)
      PROVE  ReportedAfterAllTries'
  BY <1>1, <1>2, <1>6 DEF ReportRejected, End, CountersOK
<1> QED
  BY <1>3, <1>4, <1>5, <1>6
  DEF Next, Transport, Callback, Queue, Arrive, AckArrives, Ignore, Throw,
      Emit, Appended, AppendRejected, AppendedLate, Crash, End, Restart,
      storeVars, historyVars, vars

\* Whatever is delivered twice, lost or given up, a SideEffectFailed event is
\* appended only after the function was called maxTries times: every message has
\* counted the calls that led to it.
THEOREM ReportsFollowAllTries == Spec => []ReportedAfterAllTries
<1>1. Init => ReportedAfterAllTries
  BY DEF Init, ReportedAfterAllTries
<1> QED
  BY <1>1, ReportedNext, QueueInvHolds, PTL DEF Spec
-----------------------------------------------------------------------------
(* No side effect is forgotten. *)

\* Where an effect is, or how it has ended.
OnItsWay(e) ==
    \/ \E m \in sending \cup queue : m.effect = e
    \/ \E d \in deliveries : d.message.effect = e

Accounted(e) == \/ \A g \in Groups : log[e][g] > 0
                \/ reports[e] > 0
                \/ e \in dropped \cup ignored \cup unreported

LEMMA ForgottenOrNot ==
    NothingForgotten <=> \A e \in called : OnItsWay(e) \/ Accounted(e)
  BY DEF NothingForgotten, OnItsWay, Accounted

\* What an effect has come to stays so.
LEMMA AccountedStays ==
    ASSUME QueueInv, [Next]_vars, NEW e \in Effects, Accounted(e)
    PROVE  Accounted(e)'
<1>1. CountersOK /\ CountersOK'
  BY QueueInvNext DEF QueueInv
<1>2. ASSUME NEW f \in Effects, NEW g \in Groups, Append(f, g)
      PROVE  \A h \in Groups : log'[e][h] >= log[e][h]
  BY <1>1, <1>2, AppendRaises
<1>3. \A h \in Groups : log'[e][h] >= log[e][h]
  <2>1. CASE UNCHANGED log
    BY <1>1, <2>1 DEF CountersOK
  <2>2. CASE \E d \in deliveries : \E g \in d.open :
               Appended(d, g) \/ AppendRejected(d, g)
    <3> PICK d \in deliveries : \E g \in d.open :
            Appended(d, g) \/ AppendRejected(d, g)
      BY <2>2
    <3>1. PICK g \in d.open : Appended(d, g) \/ AppendRejected(d, g)
      OBVIOUS
    <3>2. d.message.effect \in Effects /\ g \in Groups
      BY DEF QueueInv, UnderWay, DeliveryOK, MessageOK
    <3> QED
      BY <1>2, <2>1, <3>1, <3>2 DEF Appended, AppendRejected
  <2>3. CASE \E a \in late : AppendedLate(a)
    BY <1>2, <2>1, <2>3 DEF AppendedLate, QueueInv, LeftBehind
  <2> QED
    BY <2>1, <2>2, <2>3
    DEF Next, Transport, Callback, Queue, Arrive, AckArrives, Deliver, Ignore,
        Throw, Emit, Report, ReportRejected, Crash, End, Restart, storeVars,
        vars
<1>4. reports'[e] >= reports[e]
  <2>1. CASE UNCHANGED reports
    BY <1>1, <2>1 DEF CountersOK
  <2>2. CASE \E d \in deliveries : Report(d) \/ ReportRejected(d)
    <3>1. PICK d \in deliveries : Report(d) \/ ReportRejected(d)
      BY <2>2
    <3>2. \/ UNCHANGED reports
          \/ reports' = [reports EXCEPT ![d.message.effect] = @ + 1]
      BY <3>1 DEF Report, ReportRejected
    <3> QED
      BY <1>1, <2>1, <3>2 DEF CountersOK
  <2> QED
    BY <2>1, <2>2
    DEF Next, Transport, Callback, Queue, Arrive, AckArrives, Deliver, Ignore,
        Throw, Emit, Appended, AppendRejected, AppendedLate, Crash, Restart,
        storeVars, vars
<1>5. dropped \cup ignored \cup unreported
        \subseteq dropped' \cup ignored' \cup unreported'
  BY DEF Next, Transport, Callback, Queue, Arrive, AckArrives, Deliver, Ignore,
         Throw, Emit, Appended, AppendRejected, AppendedLate, Report,
         ReportRejected, Crash, End, Restart, historyVars, vars
<1> QED
  BY <1>1, <1>3, <1>4, <1>5 DEF Accounted, CountersOK

\* An effect with a message in the broker, or on its way there, stays on its
\* way unless a release ignores it or the message ends with the process.
LEMMA MessageStays ==
    ASSUME QueueInv, [Next]_vars, NEW m \in sending \cup queue
    PROVE  OnItsWay(m.effect)' \/ Accounted(m.effect)'
<1>1. CASE \E d \in deliveries : \/ Throw(d)
                                  \/ \E g \in d.open : AppendRejected(d, g)
  <2>1. sending \subseteq sending' /\ queue' = queue
    BY <1>1, CatchIs DEF Throw, AppendRejected
  <2> QED
    BY <2>1 DEF OnItsWay
<1>2. CASE \E n \in queue : Deliver(n)
  <2> PICK n \in queue : Deliver(n)
    BY <1>2
  <2> DEFINE new == [message |-> n, stage |-> "call", open |-> {}]
  <2>1. new \in deliveries' /\ new.message = n
    BY DEF Deliver
  <2>2. sending' = sending /\ queue' = queue \ {n}
    BY DEF Deliver
  <2> QED
    BY <2>1, <2>2 DEF OnItsWay
<1>3. CASE \E n \in queue : Ignore(n)
  BY <1>3 DEF Ignore, OnItsWay, Accounted
<1>4. CASE Crash \/ \E d \in deliveries : ReportRejected(d)
  BY <1>4 DEF Crash, ReportRejected, End, OnItsWay, Accounted
<1>5. CASE \E n \in sending : Arrive(n)
  BY <1>5 DEF Arrive, OnItsWay
<1>6. CASE sending \subseteq sending' /\ queue' = queue
  BY <1>6 DEF OnItsWay
<1> QED
  BY <1>1, <1>2, <1>3, <1>4, <1>5, <1>6
  DEF Next, Transport, Callback, Queue, AckArrives, Emit, Appended, Report,
      AppendedLate, Restart, brokerVars, vars

\* An effect whose callback is under way stays on its way, until all its appends
\* have happened, or its report has or was rejected.
LEMMA DeliveryStays ==
    ASSUME QueueInv, [Next]_vars, NEW d \in deliveries
    PROVE  OnItsWay(d.message.effect)' \/ Accounted(d.message.effect)'
<1> DEFINE e == d.message.effect
<1>1. /\ DeliveryOK(d) /\ IsDelivery(d)
      /\ e \in Effects /\ d.message.try \in Nat /\ d.open \subseteq Groups
      /\ d.stage = "emit" => \A g \in Groups \ d.open : log[e][g] > 0
  BY DEF QueueInv, UnderWay, DeliveryOK, MessageOK
<1>2. CountersOK
  BY DEF QueueInv
<1>3. ASSUME Catch(d) PROVE OnItsWay(e)'
  <2>1. \/ \E next : /\ next.message = d.message
                     /\ deliveries' = (deliveries \ {d}) \cup {next}
        \/ sending' = sending \cup {NewMessage(e, d.message.try + 1)}
    BY <1>3, CatchIs
  <2>2. NewMessage(e, d.message.try + 1).effect = e
    BY <1>1, NewMessageIs
  <2> QED
    BY <2>1, <2>2 DEF OnItsWay
<1>4. ASSUME Emit(d) PROVE OnItsWay(e)'
  <2> DEFINE next == [d EXCEPT !.stage = "emit", !.open = Groups]
  <2>1. next.message = d.message
    BY <1>1 DEF IsDelivery
  <2>2. next \in deliveries'
    BY <1>4 DEF Emit
  <2> QED
    BY <2>1, <2>2 DEF OnItsWay
<1>5. ASSUME NEW g \in d.open, Appended(d, g)
      PROVE  OnItsWay(e)' \/ Accounted(e)'
  <2>1. CASE AllAppended(d, g)
    <3>1. d.stage = "emit"
      BY <1>1 DEF DeliveryOK
    <3>2. /\ \A h \in Groups : log'[e][h] >= log[e][h]
          /\ log'[e][g] > 0
      BY <1>1, <1>2, <1>5, AppendRaises DEF Appended
    <3>3. log' \in [Effects -> [Groups -> Nat]]
      BY <1>1, <1>2, <1>5, AppendRaises DEF Appended
    <3>4. \A h \in Groups : log'[e][h] > 0
      BY <1>1, <1>2, <2>1, <3>1, <3>2, <3>3 DEF AllAppended, CountersOK
    <3> QED
      BY <3>4 DEF Accounted
  <2>2. CASE ~AllAppended(d, g)
    <3> DEFINE next == [d EXCEPT !.open = @ \ {g}]
    <3>1. next.message = d.message
      BY <1>1 DEF IsDelivery
    <3>2. next \in deliveries'
      BY <1>5, <2>2 DEF Appended
    <3> QED
      BY <3>1, <3>2 DEF OnItsWay
  <2> QED
    BY <2>1, <2>2
<1>6. ASSUME Report(d) PROVE Accounted(e)'
  BY <1>1, <1>2, <1>6 DEF Report, Accounted, CountersOK
<1>7. ASSUME NEW x \in deliveries, ReportRejected(x)
      PROVE  OnItsWay(e)' \/ Accounted(e)'
  <2>1. CASE x.message = d.message
    BY <1>1, <1>2, <1>7, <2>1
    DEF ReportRejected, End, Accounted, CountersOK
  <2>2. CASE x.message # d.message
    BY <1>7, <2>2 DEF ReportRejected, End, Unacknowledged, OnItsWay
  <2> QED
    BY <2>1, <2>2
<1>8. CASE Crash
  BY <1>8 DEF Crash, End, Unacknowledged, OnItsWay
<1>9. CASE d \in deliveries'
  BY <1>9 DEF OnItsWay
<1>10. ASSUME NEW x \in deliveries, x # d,
              \/ Throw(x)
              \/ Emit(x)
              \/ \E g \in x.open : Appended(x, g) \/ AppendRejected(x, g)
              \/ Report(x)
       PROVE  d \in deliveries'
  BY <1>10, CatchIs DEF Throw, Emit, Appended, AppendRejected, Report
<1>11. ASSUME \/ Throw(d)
              \/ Emit(d)
              \/ \E g \in d.open : Appended(d, g) \/ AppendRejected(d, g)
              \/ Report(d)
       PROVE  OnItsWay(e)' \/ Accounted(e)'
  BY <1>3, <1>4, <1>5, <1>6, <1>11 DEF Throw, AppendRejected
<1> QED
  BY <1>7, <1>8, <1>9, <1>10, <1>11
  DEF Next, Transport, Callback, Queue, Arrive, AckArrives, Deliver, Ignore,
      AppendedLate, Restart, vars

LEMMA ForgottenNext ==
    QueueInv /\ NothingForgotten /\ [Next]_vars => NothingForgotten'
<1> SUFFICES ASSUME QueueInv, NothingForgotten, [Next]_vars
             PROVE  NothingForgotten'
  OBVIOUS
<1>1. SUFFICES ASSUME NEW e \in called' PROVE OnItsWay(e)' \/ Accounted(e)'
  BY DEF NothingForgotten, OnItsWay, Accounted
<1>2. CASE e \in called /\ OnItsWay(e)
  BY <1>2, MessageStays, DeliveryStays DEF OnItsWay
<1>3. CASE e \in called /\ Accounted(e) /\ e \in Effects
  BY <1>3, AccountedStays
<1>4. CASE e \notin called
  <2>1. PICK x \in Effects : Queue(x)
    <3>1. called' # called
      BY <1>4
    <3> QED
      BY <3>1
      DEF Next, Transport, Callback, Arrive, AckArrives, Deliver, Ignore,
          Throw, Emit, Appended, AppendRejected, AppendedLate, Report,
          ReportRejected, Crash, End, Restart, historyVars, vars
  <2>2. e = x /\ sending' = sending \cup {NewMessage(e, 0)}
    BY <1>4, <2>1 DEF Queue
  <2>3. NewMessage(e, 0).effect = e
    BY <2>2, NewMessageIs
  <2> QED
    BY <2>2, <2>3 DEF OnItsWay
<1> QED
  BY <1>2, <1>3, <1>4, ForgottenOrNot DEF QueueInv, CountersOK

\* A side effect that was called is under way until all its events are in their
\* streams or its failure is reported, whatever fails on the way, and however
\* often: only a message that ends with its process, one that a release does not
\* know and a report that is rejected are excepted.
THEOREM SideEffectsAreNotForgotten == Spec => []NothingForgotten
<1>1. Init => NothingForgotten
  BY DEF Init, NothingForgotten
<1> QED
  BY <1>1, ForgottenNext, QueueInvHolds, PTL DEF Spec
-----------------------------------------------------------------------------
(* A side effect is resolved in one way, and one time. *)

Messages(e) == {m \in sending \cup queue : m.effect = e}

Callbacks(e) == {d \in deliveries : d.message.effect = e}

Open(e) == e \in called /\ reports[e] = 0 /\ e \notin succeeded

\* The stages of a side effect as long as the process lives.  Its message has
\* counted all of its tries, and its callback is the last one that was begun.
NotQueued(e) == /\ Messages(e) = {} /\ Callbacks(e) = {}
                /\ e \notin called /\ reports[e] = 0 /\ e \notin succeeded
                /\ tries[e] = 0

Queued(e) == /\ Open(e) /\ Callbacks(e) = {}
             /\ \E m \in sending \cup queue :
                   /\ Messages(e) = {m}
                   /\ m.try = tries[e] /\ m.try < MaxTries

Running(e) == /\ Open(e) /\ Messages(e) = {}
              /\ \E d \in deliveries :
                    /\ Callbacks(e) = {d}
                    /\ d.message.try + 1 = tries[e] /\ tries[e] <= MaxTries

Over(e) == /\ Messages(e) = {} /\ Callbacks(e) = {}
           /\ e \in called
           /\ tries[e] <= MaxTries
           /\ reports[e] <= IF e \in succeeded THEN 0 ELSE 1

OneWay(e) == NotQueued(e) \/ Queued(e) \/ Running(e) \/ Over(e)

\* What has arrived at the broker is not on its way to it.
Apart == sending \cap queue = {}

OneWayInv == /\ crashes \in Nat
             /\ crashes = 0 => Apart /\ \A e \in Effects : OneWay(e)

\* A step that keeps what an effect consists of keeps its stage.
LEMMA StageIsKept ==
    ASSUME NEW e \in Effects, OneWay(e),
           Messages(e)' = Messages(e), Callbacks(e)' = Callbacks(e),
           tries'[e] = tries[e], reports'[e] = reports[e],
           e \in succeeded' <=> e \in succeeded,
           e \in called' <=> e \in called
    PROVE  OneWay(e)'
<1>1. CASE NotQueued(e)
  BY <1>1 DEF OneWay, NotQueued
<1>2. CASE Queued(e)
  <2>1. PICK m \in sending \cup queue :
              Messages(e) = {m} /\ m.try = tries[e] /\ m.try < MaxTries
    BY <1>2 DEF Queued
  <2>2. m \in sending' \cup queue'
    BY <2>1 DEF Messages
  <2>3. Queued(e)'
    BY <1>2, <2>1, <2>2 DEF Queued, Open
  <2> QED
    BY <2>3 DEF OneWay
<1>3. CASE Running(e)
  <2>1. PICK d \in deliveries : /\ Callbacks(e) = {d}
                                /\ d.message.try + 1 = tries[e]
                                /\ tries[e] <= MaxTries
    BY <1>3 DEF Running
  <2>2. d \in deliveries'
    BY <2>1 DEF Callbacks
  <2>3. Running(e)'
    BY <1>3, <2>1, <2>2 DEF Running, Open
  <2> QED
    BY <2>3 DEF OneWay
<1>4. CASE Over(e)
  BY <1>4 DEF OneWay, Over
<1> QED
  BY <1>1, <1>2, <1>3, <1>4 DEF OneWay

\* An effect with a message is queued, one with a callback is running, and there
\* is no other message or callback of it.
LEMMA StageOfMessage ==
    ASSUME NEW e \in Effects, OneWay(e), NEW m \in Messages(e)
    PROVE  /\ Open(e) /\ Callbacks(e) = {} /\ Messages(e) = {m}
           /\ m.try = tries[e] /\ m.try < MaxTries
  BY DEF OneWay, NotQueued, Queued, Running, Over

LEMMA StageOfCallback ==
    ASSUME NEW e \in Effects, OneWay(e), NEW d \in Callbacks(e)
    PROVE  /\ Open(e) /\ Messages(e) = {} /\ Callbacks(e) = {d}
           /\ d.message.try + 1 = tries[e] /\ tries[e] <= MaxTries
  BY DEF OneWay, NotQueued, Queued, Running, Over

\* From the projection to the callback.
LEMMA OneWayToCallback ==
    ASSUME QueueInv, Apart, \A e \in Effects : OneWay(e),
           \/ \E e \in Effects : Queue(e)
           \/ \E m \in queue : Deliver(m) \/ Ignore(m)
    PROVE  Apart' /\ \A e \in Effects : OneWay(e)'
<1>0. Apart'
  <2>1. ASSUME NEW x \in Effects, Queue(x) PROVE Apart'
    <3>1. NewMessage(x, 0).effect = x
      BY NewMessageIs
    <3>2. Messages(x) = {}
      BY <2>1 DEF Queue, OneWay, NotQueued, Queued, Running, Over, Open
    <3> QED
      BY <2>1, <3>1, <3>2 DEF Queue, Messages, Apart
  <2>2. CASE \E m \in queue : Deliver(m) \/ Ignore(m)
    BY <2>2 DEF Deliver, Ignore, Apart
  <2> QED
    BY <2>1, <2>2
<1> SUFFICES ASSUME NEW e \in Effects PROVE OneWay(e)'
  BY <1>0
<1>1. ASSUME NEW x \in Effects, Queue(x) PROVE OneWay(e)'
  <2> DEFINE new == NewMessage(x, 0)
  <2>1. new.effect = x /\ new.try = 0
    BY NewMessageIs
  <2>2. /\ sending' = sending \cup {new} /\ queue' = queue
        /\ deliveries' = deliveries /\ called' = called \cup {x}
        /\ x \notin called
        /\ UNCHANGED <<tries, reports, succeeded>>
    BY <1>1 DEF Queue, storeVars
  <2> HIDE DEF new
  <2>3. CASE e = x
    <3>1. NotQueued(e)
      BY <2>2, <2>3 DEF OneWay, Queued, Running, Over, Open
    <3>2. Messages(e)' = {new} /\ Callbacks(e)' = {}
      BY <2>1, <2>2, <2>3, <3>1 DEF NotQueued, Messages, Callbacks
    <3>3. new \in sending' \cup queue' /\ new.try = tries'[e]
          /\ new.try < MaxTries
      BY <2>1, <2>2, <3>1, SideEffectQueueAssumption DEF NotQueued
    <3>4. Open(e)'
      BY <2>2, <2>3, <3>1 DEF NotQueued, Open
    <3> QED
      BY <3>2, <3>3, <3>4 DEF OneWay, Queued
  <2>4. CASE e # x
    <3>1. Messages(e)' = Messages(e) /\ Callbacks(e)' = Callbacks(e)
      BY <2>1, <2>2, <2>4 DEF Messages, Callbacks
    <3> QED
      BY <2>2, <2>4, <3>1, StageIsKept
  <2> QED
    BY <2>3, <2>4
<1>2. ASSUME NEW m \in queue, Deliver(m) PROVE OneWay(e)'
  <2> DEFINE new == [message |-> m, stage |-> "call", open |-> {}]
  <2>1. new.message = m
    OBVIOUS
  <2>2. /\ sending' = sending /\ queue' = queue \ {m}
        /\ deliveries' = deliveries \cup {new}
        /\ tries' = [tries EXCEPT ![m.effect] = @ + 1]
        /\ UNCHANGED <<called, reports, succeeded>>
    BY <1>2 DEF Deliver, storeVars
  <2>3. tries \in [Effects -> Nat] /\ m.effect \in Effects
    BY DEF QueueInv, CountersOK, InTransit, MessageOK
  <2> HIDE DEF new
  <2>4. CASE e = m.effect
    <3>1. /\ Open(e) /\ Callbacks(e) = {} /\ Messages(e) = {m}
          /\ m.try = tries[e] /\ m.try < MaxTries
      <4>1. m \in Messages(e)
        BY <2>4 DEF Messages
      <4> QED
        BY <4>1, StageOfMessage
    <3>2. Messages(e)' = {}
      BY <2>2, <3>1 DEF Messages, Apart
    <3>3. Callbacks(e)' = {new}
      BY <2>1, <2>2, <2>4, <3>1 DEF Callbacks
    <3>4. new.message.try + 1 = tries'[e] /\ tries'[e] <= MaxTries
      BY <2>1, <2>2, <2>3, <2>4, <3>1, SideEffectQueueAssumption
    <3>5. Open(e)' /\ new \in deliveries'
      BY <2>2, <3>1 DEF Open
    <3> QED
      BY <3>2, <3>3, <3>4, <3>5 DEF OneWay, Running
  <2>5. CASE e # m.effect
    <3>1. Messages(e)' = Messages(e) /\ Callbacks(e)' = Callbacks(e)
      BY <2>1, <2>2, <2>5 DEF Messages, Callbacks
    <3>2. tries'[e] = tries[e]
      BY <2>2, <2>3, <2>5
    <3> QED
      BY <2>2, <3>1, <3>2, StageIsKept
  <2> QED
    BY <2>4, <2>5
<1>3. ASSUME NEW m \in queue, Ignore(m) PROVE OneWay(e)'
  <2>1. /\ sending' = sending /\ queue' = queue \ {m}
        /\ deliveries' = deliveries
        /\ UNCHANGED <<called, tries, reports, succeeded>>
    BY <1>3 DEF Ignore, storeVars
  <2>2. CASE e = m.effect
    <3>1. /\ Open(e) /\ Callbacks(e) = {} /\ Messages(e) = {m}
          /\ m.try = tries[e] /\ m.try < MaxTries
      <4>1. m \in Messages(e)
        BY <2>2 DEF Messages
      <4> QED
        BY <4>1, StageOfMessage
    <3>2. Messages(e)' = {} /\ Callbacks(e)' = {}
      BY <2>1, <3>1 DEF Messages, Callbacks, Apart
    <3>3. tries'[e] <= MaxTries
      BY <2>1, <3>1, SideEffectQueueAssumption DEF QueueInv, CountersOK
    <3>4. Over(e)'
      BY <2>1, <3>1, <3>2, <3>3 DEF Over, Open
    <3> QED
      BY <3>4 DEF OneWay
  <2>3. CASE e # m.effect
    <3>1. Messages(e)' = Messages(e) /\ Callbacks(e)' = Callbacks(e)
      BY <2>1, <2>3 DEF Messages, Callbacks
    <3> QED
      BY <2>1, <3>1, StageIsKept
  <2> QED
    BY <2>2, <2>3
<1> QED
  BY <1>1, <1>2, <1>3

\* What a callback does to its own effect, and to no other one.
LEMMA OneWayOfCallback ==
    ASSUME QueueInv, Apart, \A e \in Effects : OneWay(e), NEW d \in deliveries,
           \/ Throw(d)
           \/ Emit(d)
           \/ \E g \in d.open : Appended(d, g) \/ AppendRejected(d, g)
           \/ Report(d)
    PROVE  Apart' /\ \A e \in Effects : OneWay(e)'
<1> DEFINE own == d.message.effect
           t == d.message.try + 1
<1>1. /\ own \in Effects /\ IsDelivery(d) /\ t \in Nat
      /\ reports \in [Effects -> Nat]
  BY DEF QueueInv, CountersOK, UnderWay, DeliveryOK, MessageOK
<1>2. /\ Open(own) /\ Messages(own) = {} /\ Callbacks(own) = {d}
      /\ t = tries[own] /\ tries[own] <= MaxTries
  <2>1. d \in Callbacks(own)
    BY DEF Callbacks
  <2> QED
    BY <1>1, <2>1, StageOfCallback
<1>0. Apart'
  <2>1. CASE UNCHANGED <<sending, queue>>
    BY <2>1 DEF Apart
  <2>2. CASE UNCHANGED queue /\ sending' = sending \cup {NewMessage(own, t)}
    <3>1. NewMessage(own, t).effect = own
      BY <1>1, NewMessageIs
    <3> QED
      BY <1>2, <2>2, <3>1 DEF Messages, Apart
  <2> QED
    BY <2>1, <2>2, CatchIs
    DEF Throw, Emit, Appended, AppendRejected, Report, brokerVars
<1> SUFFICES ASSUME NEW e \in Effects PROVE OneWay(e)'
  BY <1>0
\* The callback goes on.
<1>3. ASSUME NEW next, next.message = d.message,
             deliveries' = (deliveries \ {d}) \cup {next},
             UNCHANGED <<sending, queue, called, tries, reports, succeeded>>
      PROVE  OneWay(e)'
  <2>1. CASE e = own
    <3>1. Messages(e)' = {} /\ Callbacks(e)' = {next}
      BY <1>2, <1>3, <2>1 DEF Messages, Callbacks
    <3>2. /\ next.message.try + 1 = tries'[e] /\ tries'[e] <= MaxTries
          /\ next \in deliveries'
      BY <1>2, <1>3, <2>1
    <3>3. Open(e)'
      BY <1>2, <1>3, <2>1 DEF Open
    <3> QED
      BY <3>1, <3>2, <3>3 DEF OneWay, Running
  <2>2. CASE e # own
    <3>1. Messages(e)' = Messages(e) /\ Callbacks(e)' = Callbacks(e)
      BY <1>3, <2>2 DEF Messages, Callbacks
    <3> QED
      BY <1>3, <3>1, StageIsKept
  <2> QED
    BY <2>1, <2>2
\* The callback is over, and the effect is tried again.
<1>4. ASSUME t < MaxTries, deliveries' = deliveries \ {d},
             sending' = sending \cup {NewMessage(own, t)},
             UNCHANGED <<queue, called, tries, reports, succeeded>>
      PROVE  OneWay(e)'
  <2> DEFINE new == NewMessage(own, t)
  <2>1. new.effect = own /\ new.try = t
    BY <1>1, NewMessageIs
  <2>2. sending' = sending \cup {new}
    BY <1>4
  <2> HIDE DEF new
  <2>3. CASE e = own
    <3>1. Messages(e)' = {new}
      BY <1>2, <1>4, <2>1, <2>2, <2>3 DEF Messages
    <3>2. Callbacks(e)' = {}
      BY <1>2, <1>4, <2>3 DEF Callbacks
    <3>3. /\ new \in sending' \cup queue'
          /\ new.try = tries'[e] /\ new.try < MaxTries
      BY <1>2, <1>4, <2>1, <2>2, <2>3
    <3>4. Open(e)'
      BY <1>2, <1>4, <2>3 DEF Open
    <3> QED
      BY <3>1, <3>2, <3>3, <3>4 DEF OneWay, Queued
  <2>4. CASE e # own
    <3>1. Messages(e)' = Messages(e) /\ Callbacks(e)' = Callbacks(e)
      BY <1>4, <2>1, <2>2, <2>4 DEF Messages, Callbacks
    <3> QED
      BY <1>4, <3>1, StageIsKept
  <2> QED
    BY <2>3, <2>4
\* The callback is over, and so is the effect.
<1>5. ASSUME deliveries' = deliveries \ {d},
             UNCHANGED <<sending, queue, called, tries>>,
             \/ reports' = reports /\ succeeded' = succeeded \cup {own}
             \/ /\ reports' = [reports EXCEPT ![own] = @ + 1]
                /\ succeeded' = succeeded
      PROVE  OneWay(e)'
  <2>1. CASE e = own
    <3>1. Messages(e)' = {} /\ Callbacks(e)' = {}
      BY <1>2, <1>5, <2>1 DEF Messages, Callbacks
    <3>2. e \in called' /\ tries'[e] <= MaxTries
      BY <1>2, <1>5, <2>1 DEF Open
    <3>3. reports'[e] <= IF e \in succeeded' THEN 0 ELSE 1
      BY <1>1, <1>2, <1>5, <2>1 DEF Open
    <3> QED
      BY <3>1, <3>2, <3>3 DEF OneWay, Over
  <2>2. CASE e # own
    <3>1. Messages(e)' = Messages(e) /\ Callbacks(e)' = Callbacks(e)
      BY <1>5, <2>2 DEF Messages, Callbacks
    <3>2. /\ reports'[e] = reports[e]
          /\ e \in succeeded' <=> e \in succeeded
      BY <1>1, <1>5, <2>2
    <3> QED
      BY <1>5, <3>1, <3>2, StageIsKept
  <2> QED
    BY <2>1, <2>2
<1>6. ASSUME Catch(d), UNCHANGED <<queue, called, tries, reports, succeeded>>
      PROVE  OneWay(e)'
  <2>1. CASE \E next : /\ next.message = d.message
                       /\ deliveries' = (deliveries \ {d}) \cup {next}
                       /\ sending' = sending
    <3>1. PICK next : /\ next.message = d.message
                      /\ deliveries' = (deliveries \ {d}) \cup {next}
                      /\ sending' = sending
      BY <2>1
    <3> QED
      BY <1>3, <1>6, <3>1
  <2>2. CASE /\ t < MaxTries /\ deliveries' = deliveries \ {d}
             /\ sending' = sending \cup {NewMessage(own, t)}
    BY <1>4, <1>6, <2>2
  <2> QED
    BY <1>6, <2>1, <2>2, CatchIs
<1>7. CASE Throw(d)
  BY <1>6, <1>7 DEF Throw, storeVars, historyVars
<1>8. CASE \E g \in d.open : AppendRejected(d, g)
  BY <1>6, <1>8 DEF AppendRejected, historyVars
<1>9. CASE Emit(d)
  <2> DEFINE next == [d EXCEPT !.stage = "emit", !.open = Groups]
  <2>1. next.message = d.message
    BY <1>1 DEF IsDelivery
  <2>2. /\ deliveries' = (deliveries \ {d}) \cup {next}
        /\ UNCHANGED <<sending, queue, called, tries, reports, succeeded>>
    BY <1>9 DEF Emit, brokerVars, storeVars, historyVars
  <2> QED
    BY <1>3, <2>1, <2>2
<1>10. ASSUME NEW g \in d.open, Appended(d, g) PROVE OneWay(e)'
  <2>1. UNCHANGED <<sending, queue, called, tries, reports>>
    BY <1>10 DEF Appended
  <2>2. CASE AllAppended(d, g)
    <3>1. /\ deliveries' = deliveries \ {d}
          /\ succeeded' = succeeded \cup {own}
      BY <1>10, <2>2 DEF Appended
    <3> QED
      BY <1>5, <2>1, <3>1
  <2>3. CASE ~AllAppended(d, g)
    <3> DEFINE next == [d EXCEPT !.open = @ \ {g}]
    <3>1. next.message = d.message
      BY <1>1 DEF IsDelivery
    <3>2. deliveries' = (deliveries \ {d}) \cup {next} /\ UNCHANGED succeeded
      BY <1>10, <2>3 DEF Appended
    <3> QED
      BY <1>3, <2>1, <3>1, <3>2
  <2> QED
    BY <2>2, <2>3
<1>11. CASE Report(d)
  BY <1>5, <1>11 DEF Report, historyVars
<1> QED
  BY <1>7, <1>8, <1>9, <1>10, <1>11

LEMMA OneWayNext == QueueInv /\ OneWayInv /\ [Next]_vars => OneWayInv'
<1> SUFFICES ASSUME QueueInv, OneWayInv, [Next]_vars
             PROVE  OneWayInv'
  OBVIOUS
<1>1. CASE Crash \/ \E d \in deliveries : ReportRejected(d)
  <2>1. crashes' = crashes + 1
    BY <1>1 DEF Crash, ReportRejected, End
  <2> QED
    BY <2>1 DEF OneWayInv
<1>2. ASSUME crashes' = crashes,
             crashes = 0 => Apart' /\ \A e \in Effects : OneWay(e)'
      PROVE  OneWayInv'
  BY <1>2 DEF OneWayInv
<1>3. CASE \/ \E e \in Effects : Queue(e)
           \/ \E m \in queue : Deliver(m) \/ Ignore(m)
  <2>1. crashes' = crashes
    BY <1>3 DEF Queue, Deliver, Ignore
  <2>2. crashes = 0 => Apart' /\ \A e \in Effects : OneWay(e)'
    BY <1>3, OneWayToCallback DEF OneWayInv
  <2> QED
    BY <1>2, <2>1, <2>2
<1>4. CASE \E d \in deliveries :
             \/ Throw(d)
             \/ Emit(d)
             \/ \E g \in d.open : Appended(d, g) \/ AppendRejected(d, g)
             \/ Report(d)
  <2>1. crashes' = crashes
    BY <1>4 DEF Throw, Emit, Appended, AppendRejected, Report
  <2>2. crashes = 0 => Apart' /\ \A e \in Effects : OneWay(e)'
    BY <1>4, OneWayOfCallback DEF OneWayInv
  <2> QED
    BY <1>2, <2>1, <2>2
\* A message that arrives is still the message of its effect.
<1>5. CASE \/ \E m \in sending : Arrive(m)
           \/ \E m \in acking : AckArrives(m)
           \/ \E a \in late : AppendedLate(a)
           \/ Restart
           \/ UNCHANGED vars
  <2>1. /\ sending' \cup queue' = sending \cup queue
        /\ UNCHANGED <<deliveries, called, tries, reports, succeeded, crashes>>
    BY <1>5 DEF Arrive, AckArrives, AppendedLate, Restart, brokerVars,
                storeVars, historyVars, vars
  <2>2. ASSUME NEW e \in Effects
        PROVE  Messages(e)' = Messages(e) /\ Callbacks(e)' = Callbacks(e)
    BY <2>1 DEF Messages, Callbacks
  <2>3. Apart => Apart'
    BY <1>5 DEF Arrive, AckArrives, AppendedLate, Restart, brokerVars, vars,
                Apart
  <2>4. crashes = 0 => Apart' /\ \A e \in Effects : OneWay(e)'
    BY <2>1, <2>2, <2>3, StageIsKept DEF OneWayInv
  <2> QED
    BY <1>2, <2>1, <2>4
<1> QED
  BY <1>1, <1>3, <1>4, <1>5 DEF Next, Transport, Callback

\* As long as the process lives, a side effect is tried maxTries times at most,
\* has one message or one callback at a time, and either succeeds or is
\* reported as failed, once.
THEOREM SideEffectsAreResolvedOnce == Spec => []ResolvedOnce
<1>1. Init => OneWayInv
  BY DEF Init, OneWayInv, OneWay, NotQueued, Messages, Callbacks, Apart
<1>2. QueueInv /\ OneWayInv => ResolvedOnce
  <2> SUFFICES ASSUME QueueInv, OneWayInv, crashes = 0, NEW e \in Effects
               PROVE  /\ tries[e] <= MaxTries
                      /\ reports[e] <= IF e \in succeeded THEN 0 ELSE 1
                      /\ Cardinality(Messages(e))
                           + Cardinality(Callbacks(e)) <= 1
    BY DEF ResolvedOnce, Messages, Callbacks
  <2>1. Cardinality({}) = 0
    BY FS_EmptySet
  <2>2. OneWay(e) /\ tries[e] \in Nat /\ MaxTries \in Nat
    BY SideEffectQueueAssumption DEF OneWayInv, QueueInv, CountersOK
  <2>3. CASE NotQueued(e) \/ Over(e)
    BY <2>1, <2>2, <2>3 DEF NotQueued, Over
  <2>4. CASE Queued(e)
    <3>1. PICK m : /\ Messages(e) = {m}
                   /\ m.try = tries[e] /\ m.try < MaxTries
      BY <2>4 DEF Queued
    <3>2. Cardinality({m}) = 1
      BY FS_Singleton
    <3> QED
      BY <2>1, <2>2, <2>4, <3>1, <3>2 DEF Queued, Open
  <2>5. CASE Running(e)
    <3>1. PICK d : Callbacks(e) = {d} /\ tries[e] <= MaxTries
      BY <2>5 DEF Running
    <3>2. Cardinality({d}) = 1
      BY FS_Singleton
    <3>3. Messages(e) = {} /\ reports[e] = 0 /\ e \notin succeeded
      BY <2>5 DEF Running, Open
    <3>4. Cardinality(Messages(e)) = 0 /\ Cardinality(Callbacks(e)) = 1
      BY <2>1, <3>1, <3>2, <3>3
    <3> QED
      BY <3>1, <3>3, <3>4
  <2> QED
    BY <2>2, <2>3, <2>4, <2>5 DEF OneWay
<1> QED
  BY <1>1, <1>2, OneWayNext, QueueInvHolds, PTL DEF Spec
-----------------------------------------------------------------------------
(* The types. *)

\* A number that is in use is never chosen again, because only finitely many
\* messages are known.
FinitelyMany == /\ IsFiniteSet(sending) /\ IsFiniteSet(queue)
                /\ IsFiniteSet(deliveries) /\ IsFiniteSet(acking)
                /\ IsFiniteSet(late)

TypeInv == TypeOK /\ FinitelyMany

\* The least number that is not used is one of the first ones.
LEMMA UnusedNumber ==
    ASSUME NEW used, IsFiniteSet(used)
    PROVE  Min((1..(Cardinality(used) + 1)) \ used) \in Nat \ {0}
<1> DEFINE n == Cardinality(used)
           free == (1..(n + 1)) \ used
<1>1. n \in Nat
  BY FS_CardinalityType
<1>2. IsFiniteSet(1..(n + 1)) /\ Cardinality(1..(n + 1)) = n + 1
  <2>1. 1 \in Int /\ n + 1 \in Int /\ 1 <= n + 1
    BY <1>1
  <2> QED
    BY <2>1, FS_Interval
<1>3. ~ ((1..(n + 1)) \subseteq used)
  BY <1>1, <1>2, FS_Subset
<1>4. free \in SUBSET Nat /\ free # {}
  BY <1>1, <1>3
<1> HIDE DEF free
<1>5. \E m \in free : \A i \in free : m <= i
  BY <1>4, Data!SmallestExists
<1>6. Min(free) \in free
  BY <1>5 DEF Min
<1> QED
  BY <1>1, <1>6 DEF free

CallbackType == [message : Message, stage : Stage, open : SUBSET Groups]

LEMMA NewMessageIsOne ==
    ASSUME TypeInv, NEW e \in Effects, NEW t \in Nat
    PROVE  NewMessage(e, t) \in Message
<1> DEFINE same == {k \in Known : k.effect = e /\ k.try = t}
           used == {m.nth : m \in same}
<1>1. IsFiniteSet({d.message : d \in deliveries})
  <2> DEFINE F == [d \in deliveries |-> d.message]
             R == {d.message : d \in deliveries}
  <2>1. F \in Surjection(deliveries, R)
    BY DEF Surjection
  <2>2. IsFiniteSet(deliveries)
    BY DEF TypeInv, FinitelyMany
  <2> HIDE DEF F, R
  <2>3. IsFiniteSet(R)
    BY <2>1, <2>2, FS_Surjection
  <2> QED
    BY <2>3 DEF R
<1>2. IsFiniteSet({a.message : a \in late})
  <2> DEFINE F == [a \in late |-> a.message]
             R == {a.message : a \in late}
  <2>1. F \in Surjection(late, R)
    BY DEF Surjection
  <2>2. IsFiniteSet(late)
    BY DEF TypeInv, FinitelyMany
  <2> HIDE DEF F, R
  <2>3. IsFiniteSet(R)
    BY <2>1, <2>2, FS_Surjection
  <2> QED
    BY <2>3 DEF R
<1>3. IsFiniteSet(Known)
  BY <1>1, <1>2, FS_Union DEF TypeInv, FinitelyMany, Known
<1>4. IsFiniteSet(same)
  BY <1>3, FS_Subset
<1>5. IsFiniteSet(used)
  <2> HIDE DEF same
  <2> DEFINE F == [m \in same |-> m.nth]
  <2>1. F \in Surjection(same, used)
    BY DEF Surjection
  <2> HIDE DEF F, used
  <2> QED
    BY <1>4, <2>1, FS_Surjection
<1>6. Min((1..(Cardinality(used) + 1)) \ used) \in Nat \ {0}
  <2> HIDE DEF used
  <2> QED
    BY <1>5, UnusedNumber
<1> QED
  BY <1>6 DEF NewMessage, Message

\* A set of deliveries, of which one is taken out and one may come instead.
LEMMA StillDeliveries ==
    ASSUME TypeInv, NEW d \in deliveries,
           \/ deliveries' = deliveries \ {d}
           \/ \E next \in CallbackType :
                deliveries' = (deliveries \ {d}) \cup {next}
    PROVE  deliveries' \subseteq CallbackType /\ IsFiniteSet(deliveries')
<1>1. deliveries \subseteq CallbackType /\ IsFiniteSet(deliveries)
  BY DEF TypeInv, TypeOK, FinitelyMany, CallbackType
<1>2. IsFiniteSet(deliveries \ {d})
  BY <1>1, FS_Subset
<1>3. ASSUME NEW next \in CallbackType,
             deliveries' = (deliveries \ {d}) \cup {next}
      PROVE  deliveries' \subseteq CallbackType /\ IsFiniteSet(deliveries')
  BY <1>1, <1>2, <1>3, FS_AddElement
<1> QED
  BY <1>1, <1>2, <1>3

\* The appends that are left to themselves are finitely many.
LEMMA StillAppends ==
    ASSUME TypeInv, NEW d \in deliveries, NEW g, Abandon(d, g)
    PROVE  late' \subseteq [message : Message, group : Groups]
           /\ IsFiniteSet(late')
<1> DEFINE rest == d.open \ {g}
           f == [h \in rest |-> [message |-> d.message, group |-> h]]
           left == {[message |-> d.message, group |-> h] : h \in rest}
<1>1. d.message \in Message /\ d.open \subseteq Groups
  BY DEF TypeInv, TypeOK
<1>2. IsFiniteSet(rest)
  <2>1. rest \subseteq Groups
    BY <1>1
  <2> HIDE DEF rest
  <2> QED
    BY <2>1, FS_Subset, SideEffectQueueAssumption
<1>3. IsFiniteSet(left)
  <2> HIDE DEF rest
  <2>1. f \in Surjection(rest, left)
    BY DEF Surjection
  <2> HIDE DEF f, left
  <2> QED
    BY <1>2, <2>1, FS_Surjection
<1>4. late' = late \cup left
  BY DEF Abandon
<1>5. left \subseteq [message : Message, group : Groups]
  BY <1>1
<1>6. late \subseteq [message : Message, group : Groups] /\ IsFiniteSet(late)
  BY DEF TypeInv, TypeOK, FinitelyMany
<1> QED
  <2> HIDE DEF left
  <2> QED
    BY <1>3, <1>4, <1>5, <1>6, FS_Union

\* A message more or less.
LEMMA StillMessages ==
    ASSUME NEW M, M \subseteq Message, IsFiniteSet(M), NEW m
    PROVE  /\ M \ {m} \subseteq Message /\ IsFiniteSet(M \ {m})
           /\ m \in Message => M \cup {m} \subseteq Message
           /\ IsFiniteSet(M \cup {m})
<1>1. IsFiniteSet(M \ {m})
  BY FS_Subset
<1>2. IsFiniteSet(M \cup {m})
  BY FS_AddElement
<1> QED
  BY <1>1, <1>2

\* What a callback that is under way may become.
LEMMA NextStageIsOne ==
    ASSUME TypeInv, NEW d \in deliveries, NEW stage \in Stage,
           NEW open \in SUBSET Groups
    PROVE  [d EXCEPT !.stage = stage, !.open = open] \in CallbackType
<1>1. d \in CallbackType
  BY DEF TypeInv, TypeOK, CallbackType
<1> QED
  BY <1>1 DEF CallbackType

\* The catch of the callback keeps the types of what it hands over.
LEMMA CatchTypes ==
    ASSUME TypeInv, NEW d \in deliveries, Catch(d)
    PROVE  /\ deliveries' \subseteq CallbackType /\ IsFiniteSet(deliveries')
           /\ sending' \subseteq Message /\ IsFiniteSet(sending')
           /\ acking' \subseteq Message /\ IsFiniteSet(acking')
<1> DEFINE m == d.message
           t == NextTry(m.try)
           new == NewMessage(m.effect, t)
           next == [d EXCEPT !.stage = "report", !.open = {}]
<1>1. /\ sending \subseteq Message /\ acking \subseteq Message
      /\ IsFiniteSet(sending) /\ IsFiniteSet(acking)
  BY DEF TypeInv, TypeOK, FinitelyMany
<1>2. m \in Message /\ m.effect \in Effects /\ t \in Nat
  BY DEF TypeInv, TypeOK, Message, NextTry
<1>3. CASE Exhausted(t)
  <2>1. /\ deliveries' = (deliveries \ {d}) \cup {next}
        /\ sending' = sending /\ acking' = acking
    BY <1>3 DEF Catch
  <2>2. next \in CallbackType
    BY NextStageIsOne DEF Stage
  <2> QED
    BY <1>1, <2>1, <2>2, StillDeliveries
<1>4. CASE ~Exhausted(t)
  <2>1. /\ deliveries' = deliveries \ {d}
        /\ sending' = sending \cup {new}
        /\ acking' = acking \cup {m}
    BY <1>4 DEF Catch
  <2>2. new \in Message
    BY <1>2, NewMessageIsOne
  <2> HIDE DEF new, m
  <2>3. sending' \subseteq Message /\ IsFiniteSet(sending')
    BY <1>1, <2>1, <2>2, StillMessages
  <2>4. acking' \subseteq Message /\ IsFiniteSet(acking')
    BY <1>1, <1>2, <2>1, StillMessages
  <2> QED
    BY <2>1, <2>3, <2>4, StillDeliveries
<1> QED
  BY <1>3, <1>4

\* Between the projection, the broker and the callback.
LEMMA TypeOfTransport ==
    ASSUME TypeInv,
           \/ \E e \in Effects : Queue(e)
           \/ Transport
           \/ \E m \in queue : Deliver(m) \/ Ignore(m)
    PROVE  TypeInv'
<1>1. /\ sending \subseteq Message /\ IsFiniteSet(sending)
      /\ queue \subseteq Message /\ IsFiniteSet(queue)
      /\ acking \subseteq Message /\ IsFiniteSet(acking)
      /\ deliveries \subseteq CallbackType /\ IsFiniteSet(deliveries)
  BY DEF TypeInv, TypeOK, FinitelyMany, CallbackType
<1>2. ASSUME NEW e \in Effects, Queue(e) PROVE TypeInv'
  <2>1. NewMessage(e, 0) \in Message
    BY NewMessageIsOne
  <2>2. sending' \subseteq Message /\ IsFiniteSet(sending')
    BY <1>1, <1>2, <2>1, StillMessages DEF Queue
  <2> QED
    BY <1>2, <2>2 DEF Queue, storeVars, TypeInv, TypeOK, FinitelyMany
<1>3. ASSUME NEW m \in sending, Arrive(m) PROVE TypeInv'
  <2>1. /\ sending' \subseteq Message /\ IsFiniteSet(sending')
        /\ queue' \subseteq Message /\ IsFiniteSet(queue')
    BY <1>1, <1>3, StillMessages DEF Arrive
  <2> QED
    BY <1>3, <2>1
    DEF Arrive, storeVars, historyVars, TypeInv, TypeOK, FinitelyMany
<1>4. ASSUME NEW m \in acking, AckArrives(m) PROVE TypeInv'
  <2>1. acking' \subseteq Message /\ IsFiniteSet(acking')
    BY <1>1, <1>4, StillMessages DEF AckArrives
  <2> QED
    BY <1>4, <2>1
    DEF AckArrives, storeVars, historyVars, TypeInv, TypeOK, FinitelyMany
<1>5. ASSUME NEW m \in queue, Deliver(m) PROVE TypeInv'
  <2> DEFINE new == [message |-> m, stage |-> "call", open |-> {}]
  <2>1. queue' \subseteq Message /\ IsFiniteSet(queue')
    BY <1>1, <1>5, StillMessages DEF Deliver
  <2>2. new \in CallbackType
    BY <1>1 DEF CallbackType, Stage
  <2>3. deliveries' = deliveries \cup {new}
    BY <1>5 DEF Deliver
  <2> HIDE DEF new
  <2>4. deliveries' \subseteq CallbackType /\ IsFiniteSet(deliveries')
    BY <1>1, <2>2, <2>3, FS_AddElement
  <2> QED
    BY <1>5, <2>1, <2>4
    DEF Deliver, storeVars, TypeInv, TypeOK, FinitelyMany, CallbackType
<1>6. ASSUME NEW m \in queue, Ignore(m) PROVE TypeInv'
  <2>1. /\ queue' \subseteq Message /\ IsFiniteSet(queue')
        /\ acking' \subseteq Message /\ IsFiniteSet(acking')
    BY <1>1, <1>6, StillMessages DEF Ignore
  <2> QED
    BY <1>6, <2>1 DEF Ignore, storeVars, TypeInv, TypeOK, FinitelyMany
<1> QED
  BY <1>2, <1>3, <1>4, <1>5, <1>6 DEF Transport

\* Within the callback.
LEMMA TypeOfCallback ==
    ASSUME TypeInv, NEW d \in deliveries,
           \/ Throw(d)
           \/ Emit(d)
           \/ \E g \in d.open : Appended(d, g) \/ AppendRejected(d, g)
           \/ Report(d)
    PROVE  TypeInv'
<1>1. /\ sending \subseteq Message /\ IsFiniteSet(sending)
      /\ queue \subseteq Message /\ IsFiniteSet(queue)
      /\ acking \subseteq Message /\ IsFiniteSet(acking)
      /\ d.message \in Message /\ d.message.effect \in Effects
      /\ d.open \subseteq Groups /\ d.stage \in Stage
      /\ d \in CallbackType
      /\ log \in [Effects -> [Groups -> Nat]]
      /\ reports \in [Effects -> Nat]
  BY DEF TypeInv, TypeOK, FinitelyMany, Message, CallbackType
<1>2. ASSUME NEW g \in Groups, Append(d.message.effect, g)
      PROVE  log' \in [Effects -> [Groups -> Nat]]
  BY <1>1, <1>2 DEF Append
<1>3. CASE Throw(d)
  BY <1>3, CatchTypes
  DEF Throw, storeVars, historyVars, TypeInv, TypeOK, FinitelyMany,
      CallbackType
<1>4. CASE Emit(d)
  <2> DEFINE next == [d EXCEPT !.stage = "emit", !.open = Groups]
  <2>1. next \in CallbackType
    BY NextStageIsOne DEF Stage
  <2>2. deliveries' = (deliveries \ {d}) \cup {next}
    BY <1>4 DEF Emit
  <2> HIDE DEF next
  <2>3. deliveries' \subseteq CallbackType /\ IsFiniteSet(deliveries')
    BY <2>1, <2>2, StillDeliveries
  <2> QED
    BY <1>4, <2>3 DEF Emit, brokerVars, storeVars, historyVars, TypeInv,
                      TypeOK, FinitelyMany, CallbackType
<1>5. ASSUME NEW g \in d.open, Appended(d, g) PROVE TypeInv'
  <2>1. log' \in [Effects -> [Groups -> Nat]]
    BY <1>1, <1>2, <1>5 DEF Appended
  <2>2. CASE AllAppended(d, g)
    <3>1. deliveries' = deliveries \ {d} /\ acking' = acking \cup {d.message}
          /\ Abandon(d, g)
      BY <1>5, <2>2 DEF Appended
    <3>2. deliveries' \subseteq CallbackType /\ IsFiniteSet(deliveries')
      BY <3>1, StillDeliveries
    <3>3. acking' \subseteq Message /\ IsFiniteSet(acking')
      BY <1>1, <3>1, StillMessages
    <3>4. late' \subseteq [message : Message, group : Groups]
          /\ IsFiniteSet(late')
      BY <3>1, StillAppends
    <3> QED
      BY <1>5, <2>1, <3>2, <3>3, <3>4
      DEF Appended, TypeInv, TypeOK, FinitelyMany, CallbackType
  <2>3. CASE ~AllAppended(d, g)
    <3> DEFINE next == [d EXCEPT !.open = @ \ {g}]
    <3>1. next \in CallbackType
      BY <1>1 DEF CallbackType
    <3>2. deliveries' = (deliveries \ {d}) \cup {next}
      BY <1>5, <2>3 DEF Appended
    <3> HIDE DEF next
    <3>3. deliveries' \subseteq CallbackType /\ IsFiniteSet(deliveries')
      BY <3>1, <3>2, StillDeliveries
    <3>4. UNCHANGED <<late, acking>>
      BY <1>5, <2>3 DEF Appended
    <3> QED
      BY <1>5, <2>1, <3>3, <3>4
      DEF Appended, TypeInv, TypeOK, FinitelyMany, CallbackType
  <2> QED
    BY <2>2, <2>3
<1>6. ASSUME NEW g \in d.open, AppendRejected(d, g) PROVE TypeInv'
  <2>1. log' \in [Effects -> [Groups -> Nat]]
    BY <1>1, <1>2, <1>6 DEF AppendRejected
  <2>2. late' \subseteq [message : Message, group : Groups]
        /\ IsFiniteSet(late')
    BY <1>6, StillAppends DEF AppendRejected
  <2>3. /\ deliveries' \subseteq CallbackType /\ IsFiniteSet(deliveries')
        /\ sending' \subseteq Message /\ IsFiniteSet(sending')
        /\ acking' \subseteq Message /\ IsFiniteSet(acking')
    BY <1>6, CatchTypes DEF AppendRejected
  <2> QED
    BY <1>6, <2>1, <2>2, <2>3
    DEF AppendRejected, historyVars, TypeInv, TypeOK, FinitelyMany,
        CallbackType
<1>7. CASE Report(d)
  <2>1. deliveries' \subseteq CallbackType /\ IsFiniteSet(deliveries')
    BY <1>7, StillDeliveries DEF Report
  <2>2. acking' \subseteq Message /\ IsFiniteSet(acking')
    BY <1>1, <1>7, StillMessages DEF Report
  <2>3. reports' \in [Effects -> Nat]
    BY <1>1, <1>7 DEF Report
  <2> QED
    BY <1>7, <2>1, <2>2, <2>3
    DEF Report, historyVars, TypeInv, TypeOK, FinitelyMany, CallbackType
<1> QED
  BY <1>3, <1>4, <1>5, <1>6, <1>7

\* The end of a process: finitely many messages go back to the broker.
LEMMA TypeOfEnd ==
    ASSUME TypeInv, NEW back \in SUBSET Unacknowledged, End(back),
           reports' \in [Effects -> Nat]
    PROVE  TypeInv'
<1>1. Unacknowledged \subseteq Message /\ IsFiniteSet(Unacknowledged)
  <2> DEFINE F == [d \in deliveries |-> d.message]
             R == {d.message : d \in deliveries}
  <2>1. F \in Surjection(deliveries, R)
    BY DEF Surjection
  <2>2. IsFiniteSet(deliveries) /\ IsFiniteSet(acking)
    BY DEF TypeInv, FinitelyMany
  <2>3. R \subseteq Message /\ acking \subseteq Message
    BY DEF TypeInv, TypeOK
  <2>4. Unacknowledged = acking \cup R
    BY DEF Unacknowledged
  <2> HIDE DEF F, R
  <2>5. IsFiniteSet(R)
    BY <2>1, <2>2, FS_Surjection
  <2> QED
    BY <2>2, <2>3, <2>4, <2>5, FS_Union
<1>2. IsFiniteSet(back)
  BY <1>1, FS_Subset
<1>3. queue' \subseteq Message /\ IsFiniteSet(queue')
  BY <1>1, <1>2, FS_Union DEF End, TypeInv, TypeOK, FinitelyMany
<1>4. IsFiniteSet({})
  BY FS_EmptySet
<1> QED
  BY <1>3, <1>4 DEF End, TypeInv, TypeOK, FinitelyMany

LEMMA TypeNext == TypeInv /\ [Next]_vars => TypeInv'
<1> SUFFICES ASSUME TypeInv, [Next]_vars
             PROVE  TypeInv'
  OBVIOUS
<1>1. CASE \/ \E e \in Effects : Queue(e)
           \/ Transport
           \/ \E m \in queue : Deliver(m) \/ Ignore(m)
  BY <1>1, TypeOfTransport
<1>2. CASE \E d \in deliveries :
             \/ Throw(d)
             \/ Emit(d)
             \/ \E g \in d.open : Appended(d, g) \/ AppendRejected(d, g)
             \/ Report(d)
  BY <1>2, TypeOfCallback
<1>3. ASSUME NEW a \in late, AppendedLate(a) PROVE TypeInv'
  <2>1. IsFiniteSet(late') /\ late' \subseteq late
    BY <1>3, FS_Subset DEF AppendedLate, TypeInv, FinitelyMany
  <2>2. log' \in [Effects -> [Groups -> Nat]]
    <3>1. a.message.effect \in Effects /\ a.group \in Groups
      BY DEF TypeInv, TypeOK, Message
    <3>2. log \in [Effects -> [Groups -> Nat]]
      BY DEF TypeInv, TypeOK
    <3>3. CASE Append(a.message.effect, a.group)
      BY <3>1, <3>2, <3>3 DEF Append
    <3> QED
      BY <1>3, <3>2, <3>3 DEF AppendedLate
  <2> QED
    BY <1>3, <2>1, <2>2
    DEF AppendedLate, brokerVars, historyVars, TypeInv, TypeOK, FinitelyMany
<1>4. CASE Crash
  BY <1>4, TypeOfEnd DEF Crash, TypeInv, TypeOK
<1>5. ASSUME NEW d \in deliveries, ReportRejected(d) PROVE TypeInv'
  <2>1. d.message.effect \in Effects
    BY DEF TypeInv, TypeOK, Message
  <2>2. reports' \in [Effects -> Nat]
    BY <1>5, <2>1 DEF ReportRejected, TypeInv, TypeOK
  <2>3. \/ End(Unacknowledged)
        \/ End(Unacknowledged \ {d.message})
    BY <1>5 DEF ReportRejected
  <2> QED
    BY <2>2, <2>3, TypeOfEnd
<1>6. CASE Restart \/ UNCHANGED vars
  BY <1>6 DEF Restart, brokerVars, storeVars, historyVars, vars, TypeInv,
              TypeOK, FinitelyMany
<1> QED
  BY <1>1, <1>2, <1>3, <1>4, <1>5, <1>6 DEF Next, Callback

\* The types of what is published, delivered and left behind.  A message always
\* gets a number, because those that are known are finitely many.
THEOREM TypeCorrect == Spec => []TypeOK
<1>1. Init => TypeInv
  <2>1. IsFiniteSet({})
    BY FS_EmptySet
  <2> QED
    BY <2>1 DEF Init, TypeInv, TypeOK, FinitelyMany
<1>2. TypeInv => TypeOK
  BY DEF TypeInv
<1> QED
  BY <1>1, <1>2, TypeNext, PTL DEF Spec
=============================================================================
