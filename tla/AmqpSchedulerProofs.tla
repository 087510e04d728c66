------------------------ MODULE AmqpSchedulerProofs ------------------------
(***************************************************************************)
(* Proofs about AmqpScheduler for every number of processes, commands,     *)
(* calls of start and lost connections.                                    *)
(***************************************************************************)
EXTENDS AmqpScheduler, DataLemmas
-----------------------------------------------------------------------------
(* What the steps do to the calls, the consumers and the deliveries. *)

DeliveryType == [message : Message, setup : Setup, live : BOOLEAN]

\* The calls of one kind.
OfKind(set, kind) == {call \in set : call.kind = kind}

\* How a call that is made or answered changes the number of calls.
LEMMA CallsCounted ==
    ASSUME NEW set, IsFiniteSet(set), NEW call, NEW kind
    PROVE  /\ IsFiniteSet(set \cup {call}) /\ IsFiniteSet(set \ {call})
           /\ Cardinality(OfKind(set, kind)) \in Nat
           /\ call.kind # kind =>
                /\ OfKind(set \cup {call}, kind) = OfKind(set, kind)
                /\ OfKind(set \ {call}, kind) = OfKind(set, kind)
           /\ Cardinality(OfKind(set \cup {call}, kind)) \in Nat
           /\ Cardinality(OfKind(set \cup {call}, kind)) <=
                Cardinality(OfKind(set, kind)) + 1
<1>1. IsFiniteSet(set \cup {call}) /\ IsFiniteSet(set \ {call})
  BY FS_AddElement, FS_RemoveElement
<1>2. IsFiniteSet(OfKind(set, kind))
  <2>1. OfKind(set, kind) \in SUBSET set
    BY DEF OfKind
  <2> QED
    BY <2>1, FS_Subset
<1>3. Cardinality(OfKind(set, kind)) \in Nat
  BY <1>2, FS_CardinalityType
<1>4. ASSUME call.kind # kind
      PROVE  /\ OfKind(set \cup {call}, kind) = OfKind(set, kind)
             /\ OfKind(set \ {call}, kind) = OfKind(set, kind)
  BY <1>4 DEF OfKind
<1>5. ASSUME call.kind = kind
      PROVE  OfKind(set \cup {call}, kind) = OfKind(set, kind) \cup {call}
  BY <1>5 DEF OfKind
<1>6. \/ Cardinality(OfKind(set, kind) \cup {call}) =
           Cardinality(OfKind(set, kind))
      \/ Cardinality(OfKind(set, kind) \cup {call}) =
           Cardinality(OfKind(set, kind)) + 1
  BY <1>2, FS_AddElement
<1>7. /\ Cardinality(OfKind(set \cup {call}, kind)) \in Nat
      /\ Cardinality(OfKind(set \cup {call}, kind)) <=
           Cardinality(OfKind(set, kind)) + 1
  <2>1. CASE call.kind # kind
    BY <1>3, <1>4, <2>1
  <2>2. CASE call.kind = kind
    <3>1. OfKind(set \cup {call}, kind) = OfKind(set, kind) \cup {call}
      BY <1>5, <2>2
    <3>2. \/ Cardinality(OfKind(set \cup {call}, kind)) =
               Cardinality(OfKind(set, kind))
          \/ Cardinality(OfKind(set \cup {call}, kind)) =
               Cardinality(OfKind(set, kind)) + 1
      BY <1>6, <3>1, Zenon
    <3> QED
      BY <1>3, <3>2
  <2> QED
    BY <2>1, <2>2
<1> QED
  BY <1>1, <1>3, <1>4, <1>7

\* A call that is answered is one less.
LEMMA CallAnswered ==
    ASSUME NEW set, IsFiniteSet(set), NEW call \in set
    PROVE  Cardinality(OfKind(set \ {call}, call.kind)) =
             Cardinality(OfKind(set, call.kind)) - 1
<1>1. IsFiniteSet(OfKind(set, call.kind))
  <2>1. OfKind(set, call.kind) \in SUBSET set
    BY DEF OfKind
  <2> QED
    BY <2>1, FS_Subset
<1>2. /\ OfKind(set \ {call}, call.kind) = OfKind(set, call.kind) \ {call}
      /\ call \in OfKind(set, call.kind)
  BY DEF OfKind
<1>3. Cardinality(OfKind(set, call.kind) \ {call}) =
        Cardinality(OfKind(set, call.kind)) - 1
  BY <1>1, <1>2, FS_RemoveElement
<1> QED
  BY <1>2, <1>3, Zenon

\* A call that has made a step.
Moved(call, step) ==
    [kind |-> call.kind, setup |-> call.setup, step |-> step]

\* A call that makes a step is replaced, and remains of its kind.
LEMMA CallProceeds ==
    ASSUME TypeOK, NEW p \in Processes, NEW call \in calls[p],
           NEW step \in {"bind", "consume", "note"},
           call.step \in {"bind", "consume", "note"},
           Proceed(p, call, step)
    PROVE  /\ call.kind # "stop" /\ call.setup \in Setup
           /\ Moved(call, step) \in Call
           /\ calls' \in [Processes -> SUBSET Call]
           /\ calls'[p] = (calls[p] \ {call}) \cup {Moved(call, step)}
           /\ \A o \in Processes \ {p} : calls'[o] = calls[o]
<1>1. /\ call \in [kind : {"start", "setup"}, setup : Setup,
                   step : {"bind", "consume", "note"}]
      /\ calls \in [Processes -> SUBSET Call]
  BY DEF TypeOK, Call
<1>2. [call EXCEPT !.step = step] = Moved(call, step)
  BY <1>1 DEF Moved
<1>3. Moved(call, step) \in Call
  BY <1>1 DEF Moved, Call
<1>4. calls' = [calls EXCEPT ![p] = (@ \ {call}) \cup {Moved(call, step)}]
  BY <1>2 DEF Proceed
<1> QED
  BY <1>1, <1>3, <1>4

\* There are no more calls of a kind when one of them has made a step.
LEMMA MovedCounted ==
    ASSUME NEW set, IsFiniteSet(set), NEW call \in set, NEW moved,
           moved.kind = call.kind, NEW kind
    PROVE  LET new == (set \ {call}) \cup {moved}
           IN  /\ IsFiniteSet(new)
               /\ Cardinality(OfKind(new, kind)) \in Nat
               /\ Cardinality(OfKind(new, kind)) <=
                    Cardinality(OfKind(set, kind))
<1> DEFINE rest == set \ {call}
<1>1. IsFiniteSet(rest) /\ Cardinality(OfKind(set, kind)) \in Nat
  BY CallsCounted
<1>2. /\ IsFiniteSet(rest \cup {moved})
      /\ Cardinality(OfKind(rest \cup {moved}, kind)) \in Nat
      /\ Cardinality(OfKind(rest \cup {moved}, kind)) <=
           Cardinality(OfKind(rest, kind)) + 1
      /\ Cardinality(OfKind(rest, kind)) \in Nat
      /\ moved.kind # kind =>
           OfKind(rest \cup {moved}, kind) = OfKind(rest, kind)
  <2> HIDE DEF rest
  <2> QED
    BY <1>1, CallsCounted
<1>3. CASE call.kind = kind
  <2>1. Cardinality(OfKind(rest, kind)) = Cardinality(OfKind(set, kind)) - 1
    BY <1>3, CallAnswered, Zenon
  <2> HIDE DEF rest
  <2> QED
    BY <1>1, <1>2, <2>1 DEF rest
<1>4. CASE call.kind # kind
  <2>1. OfKind(rest, kind) = OfKind(set, kind)
    BY <1>4, CallsCounted
  <2> HIDE DEF rest
  <2> QED
    BY <1>1, <1>2, <1>4, <2>1 DEF rest
<1> QED
  BY <1>3, <1>4

\* The broker has a consumer for a setup that had none.
LEMMA ConsumerAdded ==
    ASSUME TypeOK, NEW p \in Processes, NEW call \in calls[p], Consume(p, call)
    PROVE  /\ call.setup \in Setup
           /\ consumers' \in [Queues -> Seq(Setup)]
           /\ \A q \in Queues :
                /\ ToSet(consumers'[q]) =
                     IF q = call.setup.queue
                     THEN ToSet(consumers[q]) \cup {call.setup}
                     ELSE ToSet(consumers[q])
                /\ /\ IsInjective(consumers[q])
                   /\ call.setup \notin ToSet(consumers[q])
                   => IsInjective(consumers'[q])
<1>1. call.setup \in Setup /\ call.setup.queue \in Queues
  BY DEF TypeOK, Call, Setup
<1> DEFINE queue == call.setup.queue
           one == <<call.setup>>
           list == consumers[queue] \o one
<1>2. consumers[queue] \in Seq(Setup)
  BY <1>1 DEF TypeOK
<1>3. Append(consumers[queue], call.setup) = list
  BY <1>1, <1>2, AppendIsConcat
<1>4. one \in Seq(Setup) /\ Len(one) = 1 /\ one[1] = call.setup
  BY <1>1
<1>5. ToSet(one) = {call.setup} /\ IsInjective(one)
  <2>1. /\ \A k \in 1..Len(one) : one[k] \in ToSet(one)
        /\ \A x \in ToSet(one) : \E k \in 1..Len(one) : x = one[k]
        /\ DOMAIN one = 1..Len(one)
    BY <1>4, ElementsOfList
  <2> HIDE DEF one
  <2> QED
    BY <1>4, <2>1 DEF IsInjective
<1> HIDE DEF one
<1>6. /\ list \in Seq(Setup)
      /\ ToSet(list) = ToSet(consumers[queue]) \cup {call.setup}
      /\ /\ IsInjective(consumers[queue])
         /\ call.setup \notin ToSet(consumers[queue])
         => IsInjective(list)
  BY <1>2, <1>4, <1>5, ConcatenatedElements
<1>7. consumers' = [consumers EXCEPT ![queue] = list]
  BY <1>3 DEF Consume
<1> HIDE DEF list
<1> QED
  BY <1>1, <1>6, <1>7 DEF TypeOK

\* What was delivered on a channel and not acknowledged, by queue.
Returned(p, q) ==
    {d.message : d \in {e \in Of(p) : e.live /\ e.setup.queue = q}}

\* A channel that is lost takes the consumers of its process with it.
LEMMA ChannelClosed ==
    ASSUME TypeOK, NEW p \in Processes, CloseChannel(p)
    PROVE  /\ consumers' \in [Queues -> Seq(Setup)]
           /\ \A q \in Queues :
                /\ ToSet(consumers'[q]) =
                     {s \in ToSet(consumers[q]) : s.process # p}
                /\ IsInjective(consumers[q]) => IsInjective(consumers'[q])
           /\ ready' \in [Queues -> SUBSET Message]
           /\ \A q \in Queues : ready'[q] = ready[q] \cup Returned(p, q)
<1>1. ASSUME NEW q \in Queues
      PROVE  LET list == KeepOnly(consumers[q], {s \in Setup : s.process # p})
             IN  /\ list \in Seq(Setup)
                 /\ ToSet(list) = {s \in ToSet(consumers[q]) : s.process # p}
                 /\ IsInjective(consumers[q]) => IsInjective(list)
  <2> DEFINE others == {s \in Setup : s.process # p}
  <2>1. consumers[q] \in Seq(Setup)
    BY DEF TypeOK
  <2>2. ToSet(consumers[q]) \subseteq Setup
    BY <2>1, ElementsOfList
  <2>3. ToSet(consumers[q]) \cap others =
          {s \in ToSet(consumers[q]) : s.process # p}
    BY <2>2
  <2> HIDE DEF others
  <2>4. LET list == KeepOnly(consumers[q], others)
        IN  /\ list \in Seq(Setup)
            /\ ToSet(list) = ToSet(consumers[q]) \cap others
            /\ IsInjective(consumers[q]) => IsInjective(list)
    BY <2>1, KeepOnlyKeeps
  <2> QED
    BY <2>3, <2>4 DEF others
<1>2. consumers' = [q \in Queues |->
                      KeepOnly(consumers[q], {s \in Setup : s.process # p})]
  BY DEF CloseChannel
<1>3. ready' = [q \in Queues |-> ready[q] \cup Returned(p, q)]
  BY DEF CloseChannel, Returned
<1>4. \A q \in Queues : Returned(p, q) \subseteq Message
  BY DEF Returned, Of, TypeOK
<1> QED
  BY <1>1, <1>2, <1>3, <1>4 DEF TypeOK

\* A call of stop cancels the consumer whose tag it has, if its channel is still
\* there, and no other one.
LEMMA ConsumerCancelled ==
    ASSUME TypeOK, NEW p \in Processes, NEW call \in calls[p],
           Unsubscribed(p, call)
    PROVE  /\ call \in Call
           /\ consumers' \in [Queues -> Seq(Setup)]
           /\ \A q \in Queues :
                /\ ToSet(consumers'[q]) =
                     IF call.step = "cancel" /\ q = call.setup.queue
                     THEN ToSet(consumers[q]) \ {call.setup}
                     ELSE ToSet(consumers[q])
                /\ IsInjective(consumers[q]) => IsInjective(consumers'[q])
<1>1. call \in Call /\ call.setup \in Setup /\ call.setup.queue \in Queues
  BY DEF TypeOK, Call, Setup
<1> DEFINE queue == call.setup.queue
           list == KeepOnly(consumers[queue], Setup \ {call.setup})
<1>2. consumers' = IF call.step = "cancel"
                   THEN [consumers EXCEPT ![queue] = list]
                   ELSE consumers
  BY DEF Unsubscribed
<1>3. consumers[queue] \in Seq(Setup)
  BY <1>1 DEF TypeOK
<1>4. ToSet(consumers[queue]) \subseteq Setup
  BY <1>3, ElementsOfList
<1>5. /\ list \in Seq(Setup)
      /\ ToSet(list) = ToSet(consumers[queue]) \cap (Setup \ {call.setup})
      /\ IsInjective(consumers[queue]) => IsInjective(list)
  BY <1>3, KeepOnlyKeeps
<1>6. ToSet(list) = ToSet(consumers[queue]) \ {call.setup}
  BY <1>4, <1>5
<1> HIDE DEF list
<1> QED
  BY <1>1, <1>2, <1>5, <1>6 DEF TypeOK

\* A setup that a new channel runs anew.
SetupCall(s) == [kind |-> "setup", setup |-> s, step |-> "bind"]

\* A new channel has one call for each of the setups that were kept.
LEMMA SetupsRerun ==
    ASSUME TypeOK, NEW p \in Processes, Connect(p)
    PROVE  /\ calls' \in [Processes -> SUBSET Call]
           /\ calls'[p] = {SetupCall(s) : s \in setups[p]}
           /\ \A o \in Processes \ {p} : calls'[o] = calls[o]
<1>1. calls' = [calls EXCEPT ![p] = {SetupCall(s) : s \in setups[p]}]
  BY DEF Connect, Reruns, SetupCall
<1>2. \A s \in Setup : SetupCall(s) \in Call
  BY DEF SetupCall, Call
<1> QED
  BY <1>1, <1>2 DEF TypeOK

\* They are as many as the setups.
LEMMA FiniteSetups ==
    ASSUME NEW set, IsFiniteSet(set)
    PROVE  IsFiniteSet({SetupCall(s) : s \in set})
<1> DEFINE f == [s \in set |-> SetupCall(s)]
           image == {SetupCall(s) : s \in set}
<1>1. f \in Surjection(set, image)
  BY DEF Surjection
<1> QED
  BY <1>1, FS_Surjection
-----------------------------------------------------------------------------
(* Type correctness. *)

\* What TypeOK does not say: counters, and sets that are read in some order.
Counters ==
    /\ copies \in [Commands -> Nat]
    /\ scheduled \subseteq Commands
    /\ cuts \in Nat
    /\ starts \in 0..MaxStarts
    /\ faults \in 0..MaxFaults
    /\ \A p \in Processes : IsFiniteSet(calls[p]) /\ IsFiniteSet(setups[p])

\* consumerCount counts no more than the calls of start, and no less than the
\* calls of stop, which follow them.
CountIsBounded ==
    \A p \in Processes :
        /\ consumerCount[p] + Cardinality(OfKind(calls[p], "start")) <= starts
        /\ (IF running[p] THEN 1 ELSE 0) - starts
             <= consumerCount[p] - Cardinality(OfKind(calls[p], "stop"))

\* A command waits in one outbox, and reaches the exchange again only after a
\* connection was lost.
CopiesAreBounded ==
    /\ \A p \in Processes : sent[p] \subseteq outbox[p]
    /\ \A p, o \in Processes : p # o => outbox[p] \cap outbox[o] = {}
    /\ \A c \in Commands : copies[c] <= faults + 1
    /\ \A p \in Processes : \A c \in outbox[p] \ sent[p] : copies[c] <= faults
    /\ \A p \in Processes : \A c \in sent[p] : copies[c] > 0
    /\ \A c \in scheduled : copies[c] > 0

\* The inductive invariant behind TypeOK.
Bounded == /\ TypeOK
           /\ Counters
           /\ CountIsBounded
           /\ CopiesAreBounded

\* The initial states satisfy it.
LEMMA BoundedInit == Init => Bounded
<1> SUFFICES ASSUME Init PROVE Bounded
  OBVIOUS
<1>1. /\ TypeOK
      /\ starts \in 0..MaxStarts
      /\ faults \in 0..MaxFaults
  BY AmqpSchedulerAssumption, EmptySeq DEF Init, TypeOK, Queues
<1>2. \A kind : Cardinality(OfKind({}, kind)) = 0
  BY FS_EmptySet DEF OfKind
<1>3. Counters
  BY <1>1, FS_EmptySet DEF Init, Counters
<1>4. CountIsBounded
  BY <1>2 DEF Init, CountIsBounded
<1>5. CopiesAreBounded
  BY DEF Init, CopiesAreBounded
<1> QED
  BY <1>1, <1>3, <1>4, <1>5 DEF Bounded

\* The ways a step can be taken, seen from one process.
LEMMA Steps ==
    ASSUME [Next]_vars
    PROVE  \/ \E p \in Processes : Start(p)
           \/ \E p \in Processes : Stop(p)
           \/ \E p \in Processes : \E call \in calls[p] : Bind(p, call)
           \/ \E p \in Processes : \E call \in calls[p] : Consume(p, call)
           \/ \E p \in Processes : \E call \in calls[p] : Subscribed(p, call)
           \/ \E p \in Processes : \E call \in calls[p] : Unsubscribed(p, call)
           \/ \E p \in Processes : Connect(p)
           \/ \E p \in Processes : Lose(p)
           \/ \E p \in Processes : Crash(p)
           \/ \E d \in deliveries : AcknowledgeTooLate(d)
           \/ \E p \in Processes, c \in Commands : Schedule(p, c)
           \/ \E p \in Processes, c \in Commands : Arrive(p, c)
           \/ \E p \in Processes, c \in Commands : Confirm(p, c)
           \/ \E m \in exchange : Route(m)
           \/ \E q \in Queues : \E m \in ready[q] : Deliver(q, m)
           \/ \E d \in deliveries : Acknowledge(d)
           \/ UNCHANGED vars
  BY DEF Next, Answer, Publish, Settle

\* The setup of a call of start, and the calls that await the broker.
NewSetup(p) == [process |-> p, nth |-> starts + 1, queue |-> consumerCount[p]]
StartCall(s) == [kind |-> "start", setup |-> s, step |-> "bind"]
StopCall(p) == [kind |-> "stop", setup |-> tags[p],
                step |-> IF p \in fresh THEN "cancel" ELSE "skip"]

\* What is in them.
LEMMA CallFields ==
    /\ \A s : /\ StartCall(s).kind = "start" /\ StartCall(s).setup = s
              /\ s \in Setup => StartCall(s) \in Call
    /\ \A p : /\ StopCall(p).kind = "stop" /\ StopCall(p).setup = tags[p]
              /\ tags[p] \in Setup => StopCall(p) \in Call
  BY DEF StartCall, StopCall, Call

\* A call of start takes the number of its queue from consumerCount.
LEMMA Started ==
    ASSUME TypeOK, Counters, NEW p \in Processes, Start(p)
    PROVE  /\ NewSetup(p) \in Setup
           /\ starts + 1 <= MaxStarts
           /\ setups' \in [Processes -> SUBSET Setup]
           /\ calls' \in [Processes -> SUBSET Call]
           /\ \A o \in Processes \ {p} :
                /\ setups'[o] = setups[o]
                /\ calls'[o] = calls[o]
                /\ consumerCount'[o] = consumerCount[o]
           /\ setups'[p] = setups[p] \cup {NewSetup(p)}
           /\ \/ /\ connected[p]
                 /\ calls'[p] = calls[p] \cup {StartCall(NewSetup(p))}
                 /\ consumerCount'[p] = consumerCount[p]
              \/ /\ ~ connected[p]
                 /\ calls'[p] = calls[p]
                 /\ consumerCount'[p] = consumerCount[p] + 1
<1>1. starts < MaxStarts /\ starts \in Nat /\ MaxStarts \in Nat
  BY AmqpSchedulerAssumption DEF Start, Counters
<1>2. NewSetup(p) \in Setup
  BY <1>1 DEF NewSetup, Setup, TypeOK
<1>3. starts + 1 <= MaxStarts /\ StartCall(NewSetup(p)) \in Call
  BY <1>1, <1>2, CallFields
<1>4. /\ setups \in [Processes -> SUBSET Setup]
      /\ calls \in [Processes -> SUBSET Call]
      /\ consumerCount \in [Processes -> Queues]
  BY DEF TypeOK
<1>5. /\ setups' = [setups EXCEPT ![p] = @ \cup {NewSetup(p)}]
      /\ \/ /\ connected[p]
            /\ calls' = [calls EXCEPT ![p] = @ \cup {StartCall(NewSetup(p))}]
            /\ consumerCount' = consumerCount
         \/ /\ ~ connected[p]
            /\ calls' = calls
            /\ consumerCount' = [consumerCount EXCEPT ![p] = @ + 1]
  BY DEF Start, NewSetup, QueueName, StartCall
<1>6. /\ setups' \in [Processes -> SUBSET Setup]
      /\ setups'[p] = setups[p] \cup {NewSetup(p)}
      /\ \A o \in Processes \ {p} : setups'[o] = setups[o]
  BY <1>2, <1>4, <1>5
<1>7. CASE connected[p]
  BY <1>2, <1>3, <1>4, <1>5, <1>6, <1>7
<1>8. CASE ~ connected[p]
  BY <1>2, <1>3, <1>4, <1>5, <1>6, <1>8
<1> QED
  BY <1>7, <1>8

\* A call of stop either changes nothing or takes the setup out that was noted.
LEMMA StoppedCases ==
    ASSUME TypeOK, NEW p \in Processes, Stop(p)
    PROVE  \/ /\ tags[p] = NoSetup
              /\ UNCHANGED <<setups, calls, consumerCount>>
           \/ /\ tags[p] \in Setup
              /\ setups' \in [Processes -> SUBSET Setup]
              /\ calls' \in [Processes -> SUBSET Call]
              /\ \A o \in Processes \ {p} :
                   /\ setups'[o] = setups[o]
                   /\ calls'[o] = calls[o]
                   /\ consumerCount'[o] = consumerCount[o]
              /\ setups'[p] = setups[p] \ {tags[p]}
              /\ \/ /\ connected[p]
                    /\ calls'[p] = calls[p] \cup {StopCall(p)}
                    /\ consumerCount'[p] = consumerCount[p]
                 \/ /\ ~ connected[p]
                    /\ calls'[p] = calls[p]
                    /\ consumerCount'[p] = consumerCount[p] - 1
<1>1. CASE tags[p] = NoSetup
  BY <1>1 DEF Stop
<1>2. CASE tags[p] # NoSetup
  <2>1. tags[p] \in Setup /\ StopCall(p) \in Call
    BY <1>2, CallFields DEF TypeOK
  <2>2. /\ setups \in [Processes -> SUBSET Setup]
        /\ calls \in [Processes -> SUBSET Call]
        /\ consumerCount \in [Processes -> Queues]
    BY DEF TypeOK
  <2>3. /\ setups' = [setups EXCEPT ![p] = @ \ {tags[p]}]
        /\ \/ /\ connected[p]
              /\ calls' = [calls EXCEPT ![p] = @ \cup {StopCall(p)}]
              /\ consumerCount' = consumerCount
           \/ /\ ~ connected[p]
              /\ calls' = calls
              /\ consumerCount' = [consumerCount EXCEPT ![p] = @ - 1]
    BY <1>2 DEF Stop, RemoveSetup, StopCall
  <2>4. /\ setups' \in [Processes -> SUBSET Setup]
        /\ setups'[p] = setups[p] \ {tags[p]}
        /\ \A o \in Processes \ {p} : setups'[o] = setups[o]
    BY <2>2, <2>3
  <2>5. CASE connected[p]
    BY <2>1, <2>2, <2>3, <2>4, <2>5
  <2>6. CASE ~ connected[p]
    BY <2>1, <2>2, <2>3, <2>4, <2>6
  <2> QED
    BY <2>5, <2>6
<1> QED
  BY <1>1, <1>2

\* consumerCount stays within its bounds.
LEMMA CountStep ==
    ASSUME Bounded, [Next]_vars
    PROVE  CountIsBounded' /\ consumerCount' \in [Processes -> Int]
<1> USE DEF Bounded
<1>1. \A p \in Processes : consumerCount[p] \in Int
  BY AmqpSchedulerAssumption DEF TypeOK, Queues
<1>2. ASSUME NEW p \in Processes, NEW call, NEW kind
      PROVE  /\ Cardinality(OfKind(calls[p], kind)) \in Nat
             /\ call.kind # kind =>
                  /\ OfKind(calls[p] \cup {call}, kind) = OfKind(calls[p], kind)
                  /\ OfKind(calls[p] \ {call}, kind) = OfKind(calls[p], kind)
             /\ Cardinality(OfKind(calls[p] \cup {call}, kind)) \in Nat
             /\ Cardinality(OfKind(calls[p] \cup {call}, kind)) <=
                  Cardinality(OfKind(calls[p], kind)) + 1
             /\ call \in calls[p] /\ call.kind = kind =>
                  Cardinality(OfKind(calls[p] \ {call}, kind)) =
                    Cardinality(OfKind(calls[p], kind)) - 1
  <2>1. IsFiniteSet(calls[p])
    BY DEF Counters
  <2>2. call \in calls[p] /\ call.kind = kind =>
          Cardinality(OfKind(calls[p] \ {call}, kind)) =
            Cardinality(OfKind(calls[p], kind)) - 1
    BY <2>1, CallAnswered, Zenon
  <2> QED
    BY <2>1, <2>2, CallsCounted
<1>3. starts \in Nat
  BY AmqpSchedulerAssumption DEF Counters
<1>4. ASSUME UNCHANGED <<calls, consumerCount, starts>>,
             \A p \in Processes : running'[p] = running[p]
      PROVE  CountIsBounded' /\ consumerCount' \in [Processes -> Int]
  BY <1>1, <1>4 DEF CountIsBounded, OfKind, TypeOK
<1>5. ASSUME NEW p \in Processes, Start(p)
      PROVE  CountIsBounded' /\ consumerCount' \in [Processes -> Int]
  <2>1. /\ starts' = starts + 1
        /\ running' = [running EXCEPT ![p] = TRUE]
        /\ ~ running[p]
        /\ running \in [Processes -> BOOLEAN]
    BY <1>5 DEF Start, TypeOK
  <2> DEFINE call == StartCall(NewSetup(p))
  <2>2. call.kind = "start"
    BY CallFields
  <2>3. /\ \A o \in Processes \ {p} : /\ calls'[o] = calls[o]
                                       /\ consumerCount'[o] = consumerCount[o]
        /\ \/ /\ connected[p]
              /\ calls'[p] = calls[p] \cup {call}
              /\ consumerCount'[p] = consumerCount[p]
           \/ /\ ~ connected[p]
              /\ calls'[p] = calls[p]
              /\ consumerCount'[p] = consumerCount[p] + 1
        /\ consumerCount' = [o \in Processes |-> consumerCount'[o]]
    <3>1. TypeOK /\ Counters
      OBVIOUS
    <3>2. consumerCount' = [o \in Processes |-> consumerCount'[o]]
      BY <1>5 DEF Start, TypeOK
    <3> QED
      BY <1>5, <3>1, <3>2, Started
  <2> HIDE DEF call
  <2>4. ASSUME NEW o \in Processes
        PROVE  /\ consumerCount'[o] \in Int
               /\ consumerCount'[o] +
                    Cardinality(OfKind(calls'[o], "start")) <= starts'
               /\ (IF running'[o] THEN 1 ELSE 0) - starts' <=
                    consumerCount'[o] - Cardinality(OfKind(calls'[o], "stop"))
    <3>1. /\ consumerCount[o] + Cardinality(OfKind(calls[o], "start")) <= starts
          /\ (IF running[o] THEN 1 ELSE 0) - starts
               <= consumerCount[o] - Cardinality(OfKind(calls[o], "stop"))
          /\ Cardinality(OfKind(calls[o], "start")) \in Nat
          /\ Cardinality(OfKind(calls[o], "stop")) \in Nat
          /\ consumerCount[o] \in Int
      BY <1>1, <1>2 DEF CountIsBounded
    <3>2. CASE o # p
      BY <1>3, <2>1, <2>3, <3>1, <3>2
    <3>3. CASE o = p /\ ~ connected[p]
      BY <1>3, <2>1, <2>3, <3>1, <3>3
    <3>4. CASE o = p /\ connected[p]
      <4>1. /\ calls'[o] = calls[o] \cup {call}
            /\ consumerCount'[o] = consumerCount[o]
        BY <2>3, <3>4
      <4>2. OfKind(calls'[o], "stop") = OfKind(calls[o], "stop")
        BY <2>2, <4>1 DEF OfKind
      <4>3. /\ Cardinality(OfKind(calls'[o], "start")) \in Nat
            /\ Cardinality(OfKind(calls'[o], "start")) <=
                 Cardinality(OfKind(calls[o], "start")) + 1
        BY <1>2, <4>1
      <4> QED
        BY <1>3, <2>1, <3>1, <3>4, <4>1, <4>2, <4>3
    <3> QED
      BY <3>2, <3>3, <3>4
  <2> QED
    BY <2>3, <2>4 DEF CountIsBounded
<1>6. ASSUME NEW p \in Processes, Stop(p)
      PROVE  CountIsBounded' /\ consumerCount' \in [Processes -> Int]
  <2>1. /\ starts' = starts
        /\ running' = [running EXCEPT ![p] = FALSE]
        /\ running[p]
        /\ running \in [Processes -> BOOLEAN]
    BY <1>6 DEF Stop, TypeOK
  <2> DEFINE call == StopCall(p)
  <2>2. call.kind = "stop"
    BY CallFields
  <2>3. /\ \A o \in Processes \ {p} : /\ calls'[o] = calls[o]
                                       /\ consumerCount'[o] = consumerCount[o]
        /\ \/ /\ calls'[p] = calls[p] \cup {call}
              /\ consumerCount'[p] = consumerCount[p]
           \/ /\ calls'[p] = calls[p]
              /\ consumerCount'[p] \in {consumerCount[p], consumerCount[p] - 1}
        /\ consumerCount' = [o \in Processes |-> consumerCount'[o]]
    <3>1. TypeOK
      OBVIOUS
    <3>2. consumerCount' = [o \in Processes |-> consumerCount'[o]]
      BY <1>6 DEF Stop, TypeOK
    <3> QED
      BY <1>6, <3>1, <3>2, StoppedCases
  <2> HIDE DEF call
  <2>4. ASSUME NEW o \in Processes
        PROVE  /\ consumerCount'[o] \in Int
               /\ consumerCount'[o] +
                    Cardinality(OfKind(calls'[o], "start")) <= starts'
               /\ (IF running'[o] THEN 1 ELSE 0) - starts' <=
                    consumerCount'[o] - Cardinality(OfKind(calls'[o], "stop"))
    <3>1. /\ consumerCount[o] + Cardinality(OfKind(calls[o], "start")) <= starts
          /\ (IF running[o] THEN 1 ELSE 0) - starts
               <= consumerCount[o] - Cardinality(OfKind(calls[o], "stop"))
          /\ Cardinality(OfKind(calls[o], "start")) \in Nat
          /\ Cardinality(OfKind(calls[o], "stop")) \in Nat
          /\ consumerCount[o] \in Int
      BY <1>1, <1>2 DEF CountIsBounded
    <3>2. CASE o # p
      BY <1>3, <2>1, <2>3, <3>1, <3>2
    <3>3. CASE o = p /\ calls'[o] = calls[o]
      <4>1. running[o] /\ ~ running'[o] /\ starts' = starts
        BY <2>1, <3>3
      <4>2. consumerCount'[o] \in {consumerCount[o], consumerCount[o] - 1}
        BY <2>3, <3>3
      <4> QED
        BY <1>3, <3>1, <3>3, <4>1, <4>2
    <3>4. CASE /\ o = p
               /\ calls'[o] = calls[o] \cup {call}
               /\ consumerCount'[o] = consumerCount[o]
      <4>1. OfKind(calls'[o], "start") = OfKind(calls[o], "start")
        BY <2>2, <3>4 DEF OfKind
      <4>2. /\ Cardinality(OfKind(calls'[o], "stop")) \in Nat
            /\ Cardinality(OfKind(calls'[o], "stop")) <=
                 Cardinality(OfKind(calls[o], "stop")) + 1
        BY <1>2, <3>4
      <4>3. consumerCount'[o] = consumerCount[o]
        BY <2>3, <3>4
      <4> QED
        BY <1>3, <2>1, <3>1, <3>4, <4>1, <4>2, <4>3
    <3> QED
      BY <2>3, <3>2, <3>3, <3>4
  <2> QED
    BY <2>3, <2>4 DEF CountIsBounded
<1>proceeded. ASSUME NEW p \in Processes, NEW call \in calls[p],
             Bind(p, call) \/ Consume(p, call)
      PROVE  CountIsBounded' /\ consumerCount' \in [Processes -> Int]
  <2>1. /\ UNCHANGED <<starts, running, consumerCount>>
        /\ \E step : calls'[p] = (calls[p] \ {call}) \cup {Moved(call, step)}
        /\ \A o \in Processes \ {p} : calls'[o] = calls[o]
    BY <1>proceeded, CallProceeds DEF Bind, Consume
  <2>2. ASSUME NEW o \in Processes, NEW kind
        PROVE  /\ Cardinality(OfKind(calls'[o], kind)) \in Nat
               /\ Cardinality(OfKind(calls'[o], kind)) <=
                    Cardinality(OfKind(calls[o], kind))
    <3>1. CASE o # p
      <4>1. Cardinality(OfKind(calls[o], kind)) \in Nat
        BY <1>2
      <4>2. calls'[o] = calls[o]
        BY <2>1, <3>1
      <4> QED
        BY <4>1, <4>2
    <3>2. CASE o = p
      <4>1. PICK step :
              calls'[p] = (calls[p] \ {call}) \cup {Moved(call, step)}
        BY <2>1
      <4>2. IsFiniteSet(calls[p]) /\ Moved(call, step).kind = call.kind
        BY DEF Counters, Moved
      <4> QED
        BY <3>2, <4>1, <4>2, MovedCounted
    <3> QED
      BY <3>1, <3>2
  <2>3. ASSUME NEW o \in Processes
        PROVE  /\ consumerCount[o] +
                    Cardinality(OfKind(calls'[o], "start")) <= starts
               /\ (IF running[o] THEN 1 ELSE 0) - starts <=
                    consumerCount[o] - Cardinality(OfKind(calls'[o], "stop"))
    <3>1. /\ consumerCount[o] + Cardinality(OfKind(calls[o], "start")) <= starts
          /\ (IF running[o] THEN 1 ELSE 0) - starts
               <= consumerCount[o] - Cardinality(OfKind(calls[o], "stop"))
          /\ Cardinality(OfKind(calls[o], "start")) \in Nat
          /\ Cardinality(OfKind(calls[o], "stop")) \in Nat
          /\ consumerCount[o] \in Int
      BY <1>1, <1>2 DEF CountIsBounded
    <3> DEFINE one == IF running[o] THEN 1 ELSE 0
    <3>2. one \in Int
      OBVIOUS
    <3> HIDE DEF one
    <3>3. /\ consumerCount[o] +
               Cardinality(OfKind(calls'[o], "start")) <= starts
          /\ one - starts <=
               consumerCount[o] - Cardinality(OfKind(calls'[o], "stop"))
      BY <1>3, <2>2, <3>1, <3>2 DEF one
    <3> QED
      BY <3>3 DEF one
  <2>4. consumerCount' \in [Processes -> Int]
    BY <1>1, <2>1 DEF TypeOK
  <2> QED
    BY <2>1, <2>3, <2>4 DEF CountIsBounded
<1>connected. ASSUME NEW p \in Processes, Connect(p)
      PROVE  CountIsBounded' /\ consumerCount' \in [Processes -> Int]
  <2>1. /\ UNCHANGED <<starts, running, consumerCount>>
        /\ calls'[p] = {SetupCall(s) : s \in setups[p]}
        /\ \A o \in Processes \ {p} : calls'[o] = calls[o]
    BY <1>connected, SetupsRerun DEF Connect
  <2>2. /\ OfKind(calls'[p], "start") = {}
        /\ OfKind(calls'[p], "stop") = {}
    BY <2>1 DEF OfKind, SetupCall
  <2>3. ASSUME NEW o \in Processes
        PROVE  /\ consumerCount[o] +
                    Cardinality(OfKind(calls'[o], "start")) <= starts
               /\ (IF running[o] THEN 1 ELSE 0) - starts <=
                    consumerCount[o] - Cardinality(OfKind(calls'[o], "stop"))
    <3>1. /\ consumerCount[o] + Cardinality(OfKind(calls[o], "start")) <= starts
          /\ (IF running[o] THEN 1 ELSE 0) - starts
               <= consumerCount[o] - Cardinality(OfKind(calls[o], "stop"))
          /\ Cardinality(OfKind(calls[o], "start")) \in Nat
          /\ Cardinality(OfKind(calls[o], "stop")) \in Nat
          /\ consumerCount[o] \in Int
      BY <1>1, <1>2 DEF CountIsBounded
    <3>2. CASE o # p
      BY <2>1, <3>1, <3>2
    <3>3. CASE o = p
      BY <1>3, <2>2, <3>1, <3>3, FS_EmptySet
    <3> QED
      BY <3>2, <3>3
  <2>4. consumerCount' \in [Processes -> Int]
    BY <1>1, <2>1 DEF TypeOK
  <2> QED
    BY <2>1, <2>3, <2>4 DEF CountIsBounded
<1>7. ASSUME NEW p \in Processes, NEW call \in calls[p],
             Subscribed(p, call) \/ Unsubscribed(p, call)
      PROVE  CountIsBounded' /\ consumerCount' \in [Processes -> Int]
  <2>1. /\ starts' = starts /\ running' = running
        /\ calls' = [calls EXCEPT ![p] = @ \ {call}]
        /\ \/ /\ call.kind = "start"
              /\ consumerCount' = [consumerCount EXCEPT ![p] = @ + 1]
           \/ /\ call.kind = "setup"
              /\ consumerCount' = consumerCount
           \/ /\ call.kind = "stop"
              /\ consumerCount' = [consumerCount EXCEPT ![p] = @ - 1]
    <3>1. call \in Call
      BY DEF TypeOK
    <3>2. call.step = "note" => call.kind \in {"start", "setup"}
      BY <3>1 DEF Call
    <3> QED
      BY <1>7, <3>2 DEF Subscribed, Unsubscribed
  <2>2. ASSUME NEW o \in Processes
        PROVE  /\ consumerCount'[o] \in Int
               /\ consumerCount'[o] +
                    Cardinality(OfKind(calls'[o], "start")) <= starts'
               /\ (IF running'[o] THEN 1 ELSE 0) - starts' <=
                    consumerCount'[o] - Cardinality(OfKind(calls'[o], "stop"))
    <3>1. /\ consumerCount[o] + Cardinality(OfKind(calls[o], "start")) <= starts
          /\ (IF running[o] THEN 1 ELSE 0) - starts
               <= consumerCount[o] - Cardinality(OfKind(calls[o], "stop"))
          /\ Cardinality(OfKind(calls[o], "start")) \in Nat
          /\ Cardinality(OfKind(calls[o], "stop")) \in Nat
          /\ consumerCount[o] \in Int
      BY <1>1, <1>2 DEF CountIsBounded
    <3>2. CASE o # p
      <4>1. calls'[o] = calls[o] /\ consumerCount'[o] = consumerCount[o]
        BY <2>1, <3>2 DEF TypeOK
      <4> QED
        BY <2>1, <3>1, <4>1
    <3>3. CASE o = p /\ call.kind = "start"
      <4>1. /\ calls'[o] = calls[o] \ {call}
            /\ consumerCount'[o] = consumerCount[o] + 1
        BY <2>1, <3>3 DEF TypeOK
      <4>2. /\ OfKind(calls'[o], "stop") = OfKind(calls[o], "stop")
            /\ Cardinality(OfKind(calls'[o], "start")) =
                 Cardinality(OfKind(calls[o], "start")) - 1
        BY <1>2, <3>3, <4>1
      <4> QED
        BY <1>3, <2>1, <3>1, <4>1, <4>2
    <3>4. CASE o = p /\ call.kind = "stop"
      <4>1. /\ calls'[o] = calls[o] \ {call}
            /\ consumerCount'[o] = consumerCount[o] - 1
        BY <2>1, <3>4 DEF TypeOK
      <4>2. /\ OfKind(calls'[o], "start") = OfKind(calls[o], "start")
            /\ Cardinality(OfKind(calls'[o], "stop")) =
                 Cardinality(OfKind(calls[o], "stop")) - 1
        BY <1>2, <3>4, <4>1
      <4> QED
        BY <1>3, <2>1, <3>1, <4>1, <4>2
    <3>5. CASE o = p /\ call.kind = "setup"
      <4>1. /\ calls'[o] = calls[o] \ {call}
            /\ consumerCount'[o] = consumerCount[o]
        BY <2>1, <3>5 DEF TypeOK
      <4>2. /\ OfKind(calls'[o], "start") = OfKind(calls[o], "start")
            /\ OfKind(calls'[o], "stop") = OfKind(calls[o], "stop")
        BY <1>2, <3>5, <4>1
      <4> QED
        BY <1>3, <2>1, <3>1, <4>1, <4>2
    <3> QED
      BY <2>1, <3>2, <3>3, <3>4, <3>5
  <2>3. consumerCount' \in [Processes -> Int]
    BY <1>1, <2>1 DEF TypeOK
  <2> QED
    BY <2>2, <2>3 DEF CountIsBounded
<1>8. ASSUME NEW p \in Processes, CloseChannel(p), starts' = starts,
             \/ UNCHANGED <<running, consumerCount>>
             \/ /\ running' = running
                /\ consumerCount' =
                     [consumerCount EXCEPT ![p] =
                        @ + Cardinality(OfKind(calls[p], "start"))
                          - Cardinality(OfKind(calls[p], "stop"))]
             \/ /\ running' = [running EXCEPT ![p] = FALSE]
                /\ consumerCount' = [consumerCount EXCEPT ![p] = 0]
      PROVE  CountIsBounded' /\ consumerCount' \in [Processes -> Int]
  <2>1. calls' = [calls EXCEPT ![p] = {}]
    BY <1>8 DEF CloseChannel
  <2>2. \A kind : Cardinality(OfKind({}, kind)) = 0
    BY FS_EmptySet DEF OfKind
  <2>3. ASSUME NEW o \in Processes
        PROVE  /\ consumerCount'[o] \in Int
               /\ consumerCount'[o] +
                    Cardinality(OfKind(calls'[o], "start")) <= starts'
               /\ (IF running'[o] THEN 1 ELSE 0) - starts' <=
                    consumerCount'[o] - Cardinality(OfKind(calls'[o], "stop"))
    <3>1. /\ consumerCount[o] + Cardinality(OfKind(calls[o], "start")) <= starts
          /\ (IF running[o] THEN 1 ELSE 0) - starts
               <= consumerCount[o] - Cardinality(OfKind(calls[o], "stop"))
          /\ Cardinality(OfKind(calls[o], "start")) \in Nat
          /\ Cardinality(OfKind(calls[o], "stop")) \in Nat
          /\ consumerCount[o] \in Int
      BY <1>1, <1>2 DEF CountIsBounded
    <3>2. CASE o # p
      <4>1. calls'[o] = calls[o] /\ consumerCount'[o] = consumerCount[o]
            /\ running'[o] = running[o]
        BY <1>8, <2>1, <3>2 DEF TypeOK
      <4> QED
        BY <1>3, <1>8, <3>1, <4>1
    <3>3. CASE o = p
      <4>1. \/ /\ consumerCount'[o] = consumerCount[o]
               /\ running'[o] = running[o]
            \/ /\ consumerCount'[o] =
                    consumerCount[o] + Cardinality(OfKind(calls[o], "start"))
                      - Cardinality(OfKind(calls[o], "stop"))
               /\ running'[o] = running[o]
            \/ consumerCount'[o] = 0 /\ running'[o] = FALSE
        BY <1>8, <3>3 DEF TypeOK
      <4>2. /\ Cardinality(OfKind(calls'[o], "start")) = 0
            /\ Cardinality(OfKind(calls'[o], "stop")) = 0
        BY <2>1, <2>2, <3>3 DEF TypeOK
      <4> DEFINE one == IF running[o] THEN 1 ELSE 0
                 started == Cardinality(OfKind(calls[o], "start"))
                 stopped == Cardinality(OfKind(calls[o], "stop"))
      <4>3. one \in 0..1 /\ (IF running'[o] THEN 1 ELSE 0) \in {0, one}
        BY <4>1
      <4>4. /\ started \in Nat /\ stopped \in Nat
            /\ consumerCount[o] + started <= starts
            /\ one - starts <= consumerCount[o] - stopped
        BY <3>1
      <4>5. consumerCount'[o] \in
              {consumerCount[o], consumerCount[o] + started - stopped, 0}
        BY <4>1
      <4>6. starts' = starts /\ consumerCount[o] \in Int
        BY <1>8, <3>1
      <4> HIDE DEF one, started, stopped
      <4>7. /\ consumerCount'[o] \in Int
            /\ consumerCount'[o] <= starts
            /\ one - starts <= consumerCount'[o] \/ consumerCount'[o] = 0
        BY <1>3, <4>3, <4>4, <4>5, <4>6
      <4>8. consumerCount'[o] = 0 =>
              \/ (IF running'[o] THEN 1 ELSE 0) - starts <= 0
              \/ one - starts <= consumerCount'[o]
        BY <1>3, <4>1, <4>3, <4>4, <4>5, <4>6
      <4>9. (IF running'[o] THEN 1 ELSE 0) - starts <= consumerCount'[o]
        BY <1>3, <4>3, <4>7, <4>8
      <4> QED
        BY <1>3, <4>2, <4>6, <4>7, <4>9
    <3> QED
      BY <3>2, <3>3
  <2>4. consumerCount' \in [Processes -> Int]
    <3>1. consumerCount' = [o \in Processes |-> consumerCount'[o]]
      BY <1>8 DEF TypeOK
    <3> QED
      BY <2>3, <3>1
  <2> QED
    BY <2>3, <2>4 DEF CountIsBounded
<1>9. ASSUME \/ \E p \in Processes : Lose(p) \/ Crash(p)
             \/ \E d \in deliveries : AcknowledgeTooLate(d)
      PROVE  CountIsBounded' /\ consumerCount' \in [Processes -> Int]
  <2>1. \A d \in deliveries : d.setup.process \in Processes
    BY DEF TypeOK, Setup
  <2>2. PICK p \in Processes : Lose(p) \/ End(p)
    BY <1>9, <2>1 DEF Crash, AcknowledgeTooLate
  <2> QED
    BY <1>8, <2>2 DEF Lose, End, Number, OfKind
<1>10. CASE \/ \E p \in Processes, c \in Commands :
                 Schedule(p, c) \/ Arrive(p, c) \/ Confirm(p, c)
            \/ \E m \in exchange : Route(m)
            \/ \E q \in Queues : \E m \in ready[q] : Deliver(q, m)
            \/ \E d \in deliveries : Acknowledge(d)
            \/ UNCHANGED vars
  <2>1. UNCHANGED <<calls, consumerCount, starts, running>>
    BY <1>10
    DEF Schedule, Arrive, Confirm, Route, Deliver, Acknowledge, vars,
        processVars
  <2> QED
    BY <1>4, <2>1
<1> QED
  BY <1>5, <1>6, <1>proceeded, <1>connected, <1>7, <1>9, <1>10, Steps

\* A set that gains or loses one element stays finite.
LEMMA OneMoreOrLess ==
    ASSUME NEW S, IsFiniteSet(S), NEW x, NEW T,
           T = S \/ T = S \cup {x} \/ T = S \ {x}
    PROVE  IsFiniteSet(T)
<1>1. IsFiniteSet(S \cup {x}) /\ IsFiniteSet(S \ {x})
  BY FS_AddElement, FS_RemoveElement
<1>2. CASE T = S
  BY <1>2
<1>3. CASE T = S \cup {x}
  BY <1>1, <1>3, Zenon
<1>4. CASE T = S \ {x}
  BY <1>1, <1>4, Zenon
<1> QED
  BY <1>2, <1>3, <1>4

\* The counters stay numbers, and the sets finite.
LEMMA CountersStep ==
    ASSUME Bounded, [Next]_vars
    PROVE  Counters'
<1>typed. TypeOK /\ Counters
  BY DEF Bounded
<1>finite. \A o \in Processes : IsFiniteSet(calls[o]) /\ IsFiniteSet(setups[o])
  BY <1>typed DEF Counters
<1> USE AmqpSchedulerAssumption DEF Bounded, Counters
<1>1. ASSUME NEW p \in Processes, Start(p) PROVE Counters'
  <2>1. /\ starts' = starts + 1 /\ starts' \in 0..MaxStarts
        /\ UNCHANGED <<copies, scheduled, cuts, faults>>
    BY <1>1 DEF Start, senderVars
  <2>2. ASSUME NEW o \in Processes
        PROVE  /\ \/ setups'[o] = setups[o]
                  \/ setups'[o] = setups[o] \cup {NewSetup(p)}
               /\ \/ calls'[o] = calls[o]
                  \/ calls'[o] = calls[o] \cup {StartCall(NewSetup(p))}
    BY <1>typed, <1>1, Started
  <2>3. ASSUME NEW o \in Processes
        PROVE  IsFiniteSet(calls'[o]) /\ IsFiniteSet(setups'[o])
    <3>1. IsFiniteSet(calls'[o])
      BY <1>finite, <2>2, OneMoreOrLess
    <3>2. IsFiniteSet(setups'[o])
      BY <1>finite, <2>2, OneMoreOrLess
    <3> QED
      BY <3>1, <3>2
  <2>4. \A o \in Processes : IsFiniteSet(calls'[o]) /\ IsFiniteSet(setups'[o])
    BY <2>3
  <2> QED
    BY <2>1, <2>4
<1>2. ASSUME NEW p \in Processes, Stop(p) PROVE Counters'
  <2>1. UNCHANGED <<copies, scheduled, cuts, starts, faults>>
    BY <1>2 DEF Stop, senderVars
  <2>2. ASSUME NEW o \in Processes
        PROVE  /\ \/ setups'[o] = setups[o]
                  \/ setups'[o] = setups[o] \ {tags[p]}
               /\ \/ calls'[o] = calls[o]
                  \/ calls'[o] = calls[o] \cup {StopCall(p)}
    BY <1>typed, <1>2, StoppedCases
  <2>3. ASSUME NEW o \in Processes
        PROVE  IsFiniteSet(calls'[o]) /\ IsFiniteSet(setups'[o])
    <3>1. IsFiniteSet(calls'[o])
      BY <1>finite, <2>2, OneMoreOrLess
    <3>2. IsFiniteSet(setups'[o])
      BY <1>finite, <2>2, OneMoreOrLess
    <3> QED
      BY <3>1, <3>2
  <2>4. \A o \in Processes : IsFiniteSet(calls'[o]) /\ IsFiniteSet(setups'[o])
    BY <2>3
  <2> QED
    BY <2>1, <2>4
<1>3. ASSUME NEW p \in Processes, NEW call \in calls[p],
             Subscribed(p, call) \/ Unsubscribed(p, call)
      PROVE  Counters'
  <2>1. /\ UNCHANGED <<copies, scheduled, cuts, starts, faults, setups>>
        /\ calls' = [calls EXCEPT ![p] = @ \ {call}]
    BY <1>3 DEF Subscribed, Unsubscribed, senderVars
  <2>2. \A o \in Processes : \/ calls'[o] = calls[o]
                              \/ calls'[o] = calls[o] \ {call}
    BY <2>1 DEF TypeOK
  <2>3. ASSUME NEW o \in Processes PROVE IsFiniteSet(calls'[o])
    BY <1>finite, <2>2, OneMoreOrLess
  <2> QED
    BY <2>1, <2>3
<1>proceeded. ASSUME NEW p \in Processes, NEW call \in calls[p],
             Bind(p, call) \/ Consume(p, call)
      PROVE  Counters'
  <2>1. /\ UNCHANGED <<copies, scheduled, cuts, starts, faults, setups>>
        /\ \E step : calls'[p] = (calls[p] \ {call}) \cup {Moved(call, step)}
        /\ \A o \in Processes \ {p} : calls'[o] = calls[o]
    BY <1>typed, <1>proceeded, CallProceeds DEF Bind, Consume, senderVars
  <2>2. IsFiniteSet(calls'[p])
    <3>1. PICK step : calls'[p] = (calls[p] \ {call}) \cup {Moved(call, step)}
      BY <2>1
    <3>2. Moved(call, step).kind = call.kind
      BY DEF Moved
    <3> DEFINE new == (calls[p] \ {call}) \cup {Moved(call, step)}
    <3>3. IsFiniteSet(calls[p])
      BY <1>finite
    <3>4. /\ IsFiniteSet(new)
          /\ Cardinality(OfKind(new, "start")) <=
               Cardinality(OfKind(calls[p], "start"))
      BY <3>2, <3>3, MovedCounted
    <3> QED
      BY <3>1, <3>4
  <2>3. \A o \in Processes : IsFiniteSet(calls'[o])
    BY <1>finite, <2>1, <2>2
  <2> QED
    BY <2>1, <2>3
<1>connected. ASSUME NEW p \in Processes, Connect(p)
      PROVE  Counters'
  <2>1. /\ UNCHANGED <<copies, scheduled, cuts, starts, faults, setups>>
        /\ calls'[p] = {SetupCall(s) : s \in setups[p]}
        /\ \A o \in Processes \ {p} : calls'[o] = calls[o]
    BY <1>typed, <1>connected, SetupsRerun DEF Connect, senderVars
  <2>2. IsFiniteSet(calls'[p])
    BY <1>finite, <2>1, FiniteSetups
  <2>3. \A o \in Processes : IsFiniteSet(calls'[o])
    BY <1>finite, <2>1, <2>2
  <2> QED
    BY <2>1, <2>3
<1>4. ASSUME NEW p \in Processes, CloseChannel(p),
             setups' = setups \/ setups' = [setups EXCEPT ![p] = {}],
             UNCHANGED <<copies, scheduled, starts>>, faults' \in 0..MaxFaults
      PROVE  Counters'
  <2>1. cuts' \in Nat
    BY <1>4 DEF CloseChannel
  <2>2. \A o \in Processes : /\ calls'[o] = calls[o] \/ calls'[o] = {}
                             /\ setups'[o] = setups[o] \/ setups'[o] = {}
    BY <1>4 DEF CloseChannel, TypeOK
  <2>3. \A o \in Processes : IsFiniteSet(calls'[o]) /\ IsFiniteSet(setups'[o])
    BY <2>2, FS_EmptySet
  <2> QED
    BY <1>4, <2>1, <2>3
<1>5. ASSUME \/ \E p \in Processes : Lose(p) \/ Crash(p)
             \/ \E d \in deliveries : AcknowledgeTooLate(d)
      PROVE  Counters'
  <2>1. \A d \in deliveries : d.setup.process \in Processes
    BY DEF TypeOK, Setup
  <2>2. PICK p \in Processes : Lose(p) \/ End(p)
    BY <1>5, <2>1 DEF Crash, AcknowledgeTooLate
  <2>3. \/ faults' = faults
        \/ faults' = faults + 1 /\ faults < MaxFaults
    BY <1>5 DEF Lose, Crash, AcknowledgeTooLate
  <2>4. faults' \in 0..MaxFaults
    BY <2>3
  <2> QED
    BY <1>4, <2>2, <2>4 DEF Lose, End
<1>6. ASSUME NEW p \in Processes, NEW c \in Commands,
             Schedule(p, c) \/ Arrive(p, c) \/ Confirm(p, c)
      PROVE  Counters'
  <2>1. UNCHANGED <<cuts, starts, faults, calls, setups>>
    BY <1>6 DEF Schedule, Arrive, Confirm, processVars
  <2>2. copies' \in [Commands -> Nat] /\ scheduled' \subseteq Commands
    BY <1>6 DEF Schedule, Arrive, Confirm
  <2> QED
    BY <2>1, <2>2
<1>7. CASE \/ \E m \in exchange : Route(m)
           \/ \E q \in Queues : \E m \in ready[q] : Deliver(q, m)
           \/ \E d \in deliveries : Acknowledge(d)
           \/ UNCHANGED vars
  <2>1. UNCHANGED <<calls, setups, copies, scheduled, cuts, starts, faults>>
    BY <1>7
    DEF Route, Deliver, Acknowledge, vars, processVars, senderVars
  <2> QED
    BY <2>1
<1> QED
  BY <1>1, <1>2, <1>3, <1>proceeded, <1>connected, <1>5, <1>6, <1>7, Steps

\* A command is published again at most once for a connection that was lost.
LEMMA CopiesStep ==
    ASSUME Bounded, [Next]_vars
    PROVE  CopiesAreBounded'
<1> USE DEF Bounded, CopiesAreBounded
<1>1. /\ faults \in Nat /\ \A c \in Commands : copies[c] \in Nat
      /\ scheduled \subseteq Commands
      /\ \A p \in Processes : outbox[p] \subseteq Commands
      /\ outbox \in [Processes -> SUBSET Commands]
      /\ sent \in [Processes -> SUBSET Commands]
      /\ copies \in [Commands -> Nat]
  BY AmqpSchedulerAssumption DEF Counters, TypeOK
<1>2. ASSUME NEW p \in Processes, CloseChannel(p),
             UNCHANGED <<copies, scheduled>>,
             \/ outbox' = outbox /\ faults' = faults + 1
             \/ /\ outbox' = [outbox EXCEPT ![p] = {}]
                /\ faults' \in {faults, faults + 1}
      PROVE  CopiesAreBounded'
  <2>1. sent' = [sent EXCEPT ![p] = {}]
    BY <1>2 DEF CloseChannel
  <2>2. \A o \in Processes : /\ outbox'[o] \subseteq outbox[o]
                             /\ o = p => sent'[o] = {}
                             /\ o # p => sent'[o] = sent[o]
                             /\ o # p => outbox'[o] = outbox[o]
    BY <1>2, <2>1 DEF TypeOK
  <2>3. faults' \in {faults, faults + 1}
    BY <1>2
  <2>4. \A c \in Commands : copies[c] <= faults' + 1
    BY <1>1, <2>3
  <2>5. ASSUME NEW o \in Processes, NEW c \in outbox'[o] \ sent'[o]
        PROVE  copies[c] <= faults'
    <3>1. CASE o = p
      <4>1. outbox'[p] = {} \/ faults' = faults + 1
        BY <1>2 DEF TypeOK
      <4>2. c \in Commands
        BY <1>1, <2>2, <2>5
      <4> QED
        BY <1>1, <2>5, <3>1, <4>1, <4>2
    <3>2. CASE o # p
      <4>1. c \in outbox[o] \ sent[o] /\ c \in Commands
        BY <1>1, <2>2, <2>5, <3>2
      <4>2. copies[c] <= faults
        BY <4>1
      <4> QED
        BY <1>1, <2>3, <4>1, <4>2
    <3> QED
      BY <3>1, <3>2
  <2>6. /\ \A o \in Processes : sent'[o] \subseteq outbox'[o]
        /\ \A o, n \in Processes : o # n => outbox'[o] \cap outbox'[n] = {}
    BY <2>2
  <2> QED
    BY <1>2, <2>2, <2>4, <2>5, <2>6
<1>3. ASSUME \/ \E p \in Processes : Lose(p) \/ Crash(p)
             \/ \E d \in deliveries : AcknowledgeTooLate(d)
      PROVE  CopiesAreBounded'
  <2>1. \A d \in deliveries : d.setup.process \in Processes
    BY DEF TypeOK, Setup
  <2>2. PICK p \in Processes : \/ Lose(p) /\ faults' = faults + 1
                               \/ End(p) /\ faults' \in {faults, faults + 1}
    BY <1>3, <2>1 DEF Lose, Crash, AcknowledgeTooLate
  <2> QED
    BY <1>2, <2>2 DEF Lose, End
<1>4. ASSUME NEW p \in Processes, NEW c \in Commands, Schedule(p, c)
      PROVE  CopiesAreBounded'
  <2>1. /\ copies[c] = 0
        /\ \A o \in Processes : c \notin outbox[o]
        /\ UNCHANGED <<sent, copies, scheduled, faults>>
        /\ outbox'[p] = outbox[p] \cup {c}
        /\ \A o \in Processes \ {p} : outbox'[o] = outbox[o]
    BY <1>1, <1>4 DEF Schedule
  <2> QED
    BY <1>1, <2>1
<1>5. ASSUME NEW p \in Processes, NEW c \in Commands, Arrive(p, c)
      PROVE  CopiesAreBounded'
  <2>1. /\ c \in outbox[p] \ sent[p]
        /\ UNCHANGED <<outbox, scheduled, faults>>
        /\ sent'[p] = sent[p] \cup {c}
        /\ \A o \in Processes \ {p} : sent'[o] = sent[o]
        /\ copies'[c] = copies[c] + 1
        /\ \A d \in Commands \ {c} : copies'[d] = copies[d]
    BY <1>1, <1>5 DEF Arrive
  <2>2. copies[c] <= faults /\ copies[c] \in Nat
    BY <1>1, <2>1
  <2>3. \A d \in Commands : copies'[d] <= faults' + 1
    BY <1>1, <2>1, <2>2
  <2>4. \A o \in Processes : \A d \in outbox'[o] \ sent'[o] :
           copies'[d] <= faults'
    <3> SUFFICES ASSUME NEW o \in Processes, NEW d \in outbox[o], d \notin sent'[o]
                 PROVE  copies'[d] <= faults
      BY <2>1
    <3>1. d # c /\ d \in outbox[o] \ sent[o] /\ d \in Commands
      BY <1>1, <2>1
    <3> QED
      BY <2>1, <3>1
  <2>5. \A o \in Processes : \A d \in sent'[o] : copies'[d] > 0
    <3> SUFFICES ASSUME NEW o \in Processes, NEW d \in sent'[o]
                 PROVE  copies'[d] > 0
      OBVIOUS
    <3>1. d = c \/ d \in sent[o]
      BY <2>1
    <3>2. d \in Commands
      BY <1>1, <3>1
    <3> QED
      BY <1>1, <2>1, <2>2, <3>1, <3>2
  <2>6. \A d \in scheduled' : copies'[d] > 0
    BY <1>1, <2>1
  <2> QED
    BY <2>1, <2>3, <2>4, <2>5, <2>6
<1>6. ASSUME NEW p \in Processes, NEW c \in Commands, Confirm(p, c)
      PROVE  CopiesAreBounded'
  <2>1. /\ c \in sent[p]
        /\ UNCHANGED <<copies, faults>>
        /\ scheduled' = scheduled \cup {c}
        /\ sent'[p] = sent[p] \ {c}
        /\ outbox'[p] = outbox[p] \ {c}
        /\ \A o \in Processes \ {p} : /\ outbox'[o] = outbox[o]
                                       /\ sent'[o] = sent[o]
    BY <1>1, <1>6 DEF Confirm
  <2> QED
    BY <2>1
<1>answered. ASSUME NEW p \in Processes, NEW call \in calls[p],
                    \/ Bind(p, call)
                    \/ Consume(p, call)
                    \/ Subscribed(p, call)
                    \/ Unsubscribed(p, call)
             PROVE  CopiesAreBounded'
  <2>1. UNCHANGED <<outbox, sent, copies, scheduled, faults>>
    BY <1>answered DEF Bind, Consume, Subscribed, Unsubscribed, senderVars
  <2> QED
    BY <2>1
<1>7. CASE \/ \E p \in Processes : \/ Start(p) \/ Stop(p) \/ Connect(p)
           \/ \E m \in exchange : Route(m)
           \/ \E q \in Queues : \E m \in ready[q] : Deliver(q, m)
           \/ \E d \in deliveries : Acknowledge(d)
           \/ UNCHANGED vars
  <2>1. UNCHANGED <<outbox, sent, copies, scheduled, faults>>
    BY <1>7
    DEF Start, Stop, Connect, Route, Deliver, Acknowledge, vars, senderVars
  <2> QED
    BY <2>1
<1> QED
  BY <1>3, <1>4, <1>5, <1>6, <1>answered, <1>7, Steps

\* The callbacks of a channel that is lost go on without it.
LEMMA ChannelLost ==
    ASSUME TypeOK, NEW p \in Processes, Lose(p)
    PROVE  /\ deliveries' \subseteq DeliveryType
           /\ \A d \in deliveries' : d.live => d \in deliveries \ Of(p)
           /\ \A d \in deliveries' : \E e \in deliveries :
                d.message = e.message /\ d.setup = e.setup
           /\ \A d \in deliveries \ Of(p) : d \in deliveries'
<1>1. ASSUME NEW d \in deliveries
      PROVE  LET e == [d EXCEPT !.live = FALSE]
             IN  /\ e \in DeliveryType
                 /\ e.live = FALSE
                 /\ e.message = d.message
                 /\ e.setup = d.setup
  BY DEF TypeOK, DeliveryType
<1>2. /\ deliveries' = (deliveries \ Of(p))
                         \cup {[d EXCEPT !.live = FALSE] : d \in Of(p)}
      /\ Of(p) \subseteq deliveries
      /\ deliveries \subseteq DeliveryType
  BY DEF Lose, Of, TypeOK, DeliveryType
<1> QED
  BY <1>1, <1>2

\* Every step keeps the types.
LEMMA TypeStep ==
    ASSUME Bounded, [Next]_vars
    PROVE  TypeOK'
<1> USE AmqpSchedulerAssumption DEF Bounded
<1>1. TypeOK /\ Counters
  OBVIOUS
<1>typed. /\ setups \in [Processes -> SUBSET Setup]
      /\ calls \in [Processes -> SUBSET Call]
      /\ outbox \in [Processes -> SUBSET Commands]
      /\ sent \in [Processes -> SUBSET Commands]
  BY DEF TypeOK
<1>2. consumerCount' \in [Processes -> Queues]
  <2>1. Counters' /\ CountIsBounded' /\ consumerCount' \in [Processes -> Int]
    BY CountersStep, CountStep
  <2>2. ASSUME NEW p \in Processes PROVE consumerCount'[p] \in Queues
    <3>1. /\ Cardinality(OfKind(calls'[p], "start")) \in Nat
          /\ Cardinality(OfKind(calls'[p], "stop")) \in Nat
      <4>1. IsFiniteSet(calls'[p])
        BY <2>1 DEF Counters
      <4>2. \A kind : OfKind(calls'[p], kind) \in SUBSET (calls'[p])
        BY DEF OfKind
      <4> QED
        BY <4>1, <4>2, FS_Subset, FS_CardinalityType
    <3>2. /\ starts' \in 0..MaxStarts
          /\ consumerCount'[p] \in Int
          /\ consumerCount'[p] + Cardinality(OfKind(calls'[p], "start"))
               <= starts'
          /\ (IF running'[p] THEN 1 ELSE 0) - starts' <=
               consumerCount'[p] - Cardinality(OfKind(calls'[p], "stop"))
      BY <2>1 DEF Counters, CountIsBounded
    <3> QED
      BY <3>1, <3>2 DEF Queues
  <2> QED
    BY <2>1, <2>2
<1>3. ASSUME NEW p \in Processes, Start(p) PROVE TypeOK'
  <2>1. setups' \in [Processes -> SUBSET Setup]
    BY <1>1, <1>3, Started
  <2>2. calls' \in [Processes -> SUBSET Call]
    BY <1>1, <1>3, Started
  <2>3. running' \in [Processes -> BOOLEAN]
    BY <1>3 DEF Start, TypeOK
  <2>4. UNCHANGED <<tags, fresh, connected, senderVars, brokerVars>>
    BY <1>3 DEF Start
  <2> QED
    BY <1>2, <2>1, <2>2, <2>3, <2>4 DEF TypeOK, Call, senderVars, brokerVars
<1>4. ASSUME NEW p \in Processes, Stop(p) PROVE TypeOK'
  <2>1. setups' \in [Processes -> SUBSET Setup]
    BY <1>typed, <1>1, <1>4, StoppedCases
  <2>2. calls' \in [Processes -> SUBSET Call]
    BY <1>typed, <1>1, <1>4, StoppedCases
  <2>3. running' \in [Processes -> BOOLEAN]
    BY <1>4 DEF Stop, TypeOK
  <2>4. UNCHANGED <<tags, fresh, connected, senderVars, brokerVars>>
    BY <1>4 DEF Stop
  <2> QED
    BY <1>2, <2>1, <2>2, <2>3, <2>4 DEF TypeOK, Call, senderVars, brokerVars
<1>bound. ASSUME NEW p \in Processes, NEW call \in calls[p], Bind(p, call)
      PROVE  TypeOK'
  <2>1. /\ call.setup \in Setup
        /\ calls' \in [Processes -> SUBSET Call]
    BY <1>1, <1>bound, CallProceeds DEF Bind
  <2>2. bound' \subseteq Queues
    BY <1>1, <1>bound, <2>1 DEF Bind, TypeOK, Setup
  <2>3. UNCHANGED <<running, setups, tags, fresh, connected, outbox, sent,
                    exchange, ready, consumers, deliveries>>
    BY <1>bound DEF Bind, senderVars
  <2> QED
    BY <1>2, <2>1, <2>2, <2>3 DEF TypeOK
<1>consumed. ASSUME NEW p \in Processes, NEW call \in calls[p],
                    Consume(p, call)
      PROVE  TypeOK'
  <2>1. calls' \in [Processes -> SUBSET Call]
    BY <1>1, <1>consumed, CallProceeds DEF Consume
  <2>2. consumers' \in [Queues -> Seq(Setup)]
    BY <1>1, <1>consumed, ConsumerAdded
  <2>3. UNCHANGED <<running, setups, tags, fresh, connected, outbox, sent,
                    exchange, bound, ready, deliveries>>
    BY <1>consumed DEF Consume, senderVars
  <2> QED
    BY <1>2, <2>1, <2>2, <2>3 DEF TypeOK
<1>5. ASSUME NEW p \in Processes, NEW call \in calls[p], Subscribed(p, call)
      PROVE  TypeOK'
  <2>1. call.setup \in Setup
    BY DEF TypeOK, Call
  <2>2. /\ tags' \in [Processes -> Setup \cup {NoSetup}]
        /\ fresh' \subseteq Processes
        /\ calls' \in [Processes -> SUBSET Call]
    BY <1>typed, <1>5, <2>1 DEF Subscribed, TypeOK
  <2>3. UNCHANGED <<running, setups, connected, outbox, sent, exchange, bound,
                    ready, consumers, deliveries>>
    BY <1>5 DEF Subscribed, senderVars, brokerVars
  <2> QED
    BY <1>2, <2>2, <2>3 DEF TypeOK
<1>6. ASSUME NEW p \in Processes, NEW call \in calls[p], Unsubscribed(p, call)
      PROVE  TypeOK'
  <2>1. consumers' \in [Queues -> Seq(Setup)]
    BY <1>1, <1>6, ConsumerCancelled
  <2>2. calls' \in [Processes -> SUBSET Call]
    BY <1>typed, <1>6 DEF Unsubscribed
  <2>3. UNCHANGED <<running, setups, tags, fresh, connected, outbox, sent,
                    exchange, bound, ready, deliveries>>
    BY <1>6 DEF Unsubscribed, senderVars
  <2> QED
    BY <1>2, <2>1, <2>2, <2>3 DEF TypeOK
<1>7. ASSUME NEW p \in Processes, Connect(p) PROVE TypeOK'
  <2>1. calls' \in [Processes -> SUBSET Call]
    BY <1>1, <1>7, SetupsRerun
  <2>2. connected' \in [Processes -> BOOLEAN]
    BY <1>7 DEF Connect, TypeOK
  <2>3. UNCHANGED <<running, setups, tags, fresh, outbox, sent, brokerVars>>
    BY <1>7 DEF Connect, senderVars
  <2> QED
    BY <1>2, <2>1, <2>2, <2>3 DEF TypeOK, brokerVars
<1>8. ASSUME NEW p \in Processes, CloseChannel(p)
      PROVE  /\ consumers' \in [Queues -> Seq(Setup)]
             /\ ready' \in [Queues -> SUBSET Message]
             /\ connected' \in [Processes -> BOOLEAN]
             /\ fresh' \subseteq Processes
             /\ calls' \in [Processes -> SUBSET Call]
             /\ sent' \in [Processes -> SUBSET Commands]
  <2>1. /\ consumers' \in [Queues -> Seq(Setup)]
        /\ ready' \in [Queues -> SUBSET Message]
    BY <1>1, <1>8, ChannelClosed
  <2> QED
    BY <1>8, <2>1 DEF CloseChannel, TypeOK, Call
<1>9. ASSUME NEW p \in Processes, Lose(p) PROVE TypeOK'
  <2>1. deliveries' \subseteq DeliveryType
    BY <1>1, <1>9, ChannelLost
  <2>2. UNCHANGED <<running, setups, tags, outbox, exchange, bound>>
        /\ CloseChannel(p)
    BY <1>9 DEF Lose
  <2> QED
    BY <1>2, <1>8, <2>1, <2>2 DEF TypeOK, Call, DeliveryType
<1>10. ASSUME NEW p \in Processes, End(p) PROVE TypeOK'
  <2>1. /\ CloseChannel(p)
        /\ deliveries' \subseteq deliveries
        /\ running' \in [Processes -> BOOLEAN]
        /\ setups' \in [Processes -> SUBSET Setup]
        /\ tags' \in [Processes -> Setup \cup {NoSetup}]
        /\ outbox' \in [Processes -> SUBSET Commands]
        /\ UNCHANGED <<exchange, bound>>
    BY <1>10 DEF End, TypeOK
  <2> QED
    BY <1>2, <1>8, <2>1 DEF TypeOK, Call
<1>11. ASSUME \/ \E p \in Processes : Crash(p)
              \/ \E d \in deliveries : AcknowledgeTooLate(d)
       PROVE  TypeOK'
  <2>1. \A d \in deliveries : d.setup.process \in Processes
    BY DEF TypeOK, Setup
  <2> QED
    BY <1>10, <1>11, <2>1 DEF Crash, AcknowledgeTooLate
<1>12. ASSUME NEW p \in Processes, NEW c \in Commands,
              Schedule(p, c) \/ Confirm(p, c)
       PROVE  TypeOK'
  <2>1. /\ outbox' \in [Processes -> SUBSET Commands]
        /\ sent' \in [Processes -> SUBSET Commands]
    BY <1>typed, <1>12 DEF Schedule, Confirm
  <2>2. UNCHANGED <<processVars, brokerVars>>
    BY <1>12 DEF Schedule, Confirm
  <2> QED
    BY <2>1, <2>2 DEF TypeOK, processVars, brokerVars
<1>13. ASSUME NEW p \in Processes, NEW c \in Commands, Arrive(p, c)
       PROVE  TypeOK'
  <2>1. copies[c] \in Nat /\ copies[c] <= faults /\ faults \in 0..MaxFaults
    BY <1>13 DEF Arrive, Counters, CopiesAreBounded
  <2>2. [command |-> c, copy |-> copies[c] + 1] \in Message
    BY <2>1 DEF Message
  <2>3. exchange' \subseteq Message
    BY <1>13, <2>2 DEF Arrive, TypeOK
  <2>4. sent' \in [Processes -> SUBSET Commands]
    BY <1>13 DEF Arrive, TypeOK
  <2>5. UNCHANGED <<processVars, outbox, bound, ready, consumers, deliveries>>
    BY <1>13 DEF Arrive
  <2> QED
    BY <2>3, <2>4, <2>5 DEF TypeOK, processVars
<1>14. ASSUME NEW m \in exchange, Route(m) PROVE TypeOK'
  <2>1. m \in Message
    BY DEF TypeOK
  <2>2. ready' \in [Queues -> SUBSET Message] /\ exchange' \subseteq Message
    BY <1>14, <2>1 DEF Route, TypeOK
  <2>3. UNCHANGED <<processVars, senderVars, bound, consumers, deliveries>>
    BY <1>14 DEF Route
  <2> QED
    BY <2>2, <2>3 DEF TypeOK, processVars, senderVars
<1>15. ASSUME NEW q \in Queues, NEW m \in ready[q], Deliver(q, m) PROVE TypeOK'
  <2>1. m \in Message /\ consumers[q] \in Seq(Setup) /\ consumers[q] # <<>>
    BY <1>15 DEF Deliver, TypeOK
  <2>2. Head(consumers[q]) \in Setup
    BY <2>1, HeadTailProperties
  <2>3. Delivery(m, Head(consumers[q])) \in DeliveryType
    BY <2>1, <2>2 DEF Delivery, DeliveryType
  <2>4. /\ deliveries' \subseteq DeliveryType
        /\ ready' \in [Queues -> SUBSET Message]
    BY <1>15, <2>3 DEF Deliver, TypeOK, DeliveryType
  <2>5. UNCHANGED <<processVars, senderVars, exchange, bound, consumers>>
    BY <1>15 DEF Deliver
  <2> QED
    BY <2>4, <2>5 DEF TypeOK, DeliveryType, processVars, senderVars
<1>16. ASSUME NEW d \in deliveries, Acknowledge(d) PROVE TypeOK'
  BY <1>16 DEF Acknowledge, TypeOK, processVars, senderVars
<1>17. CASE UNCHANGED vars
  BY <1>17 DEF vars, TypeOK, processVars, senderVars, brokerVars
<1> QED
  BY <1>3, <1>4, <1>bound, <1>consumed, <1>5, <1>6, <1>7, <1>9, <1>11, <1>12, <1>13, <1>14, <1>15,
     <1>16, <1>17, Steps

\* Every step keeps the invariant.
LEMMA BoundedStep == Bounded /\ [Next]_vars => Bounded'
  BY CountStep, CountersStep, CopiesStep, TypeStep DEF Bounded

\* The counters and the names of the queues stay within the bounds.
THEOREM BoundedInvariant == Spec => []Bounded
  BY BoundedInit, BoundedStep, PTL DEF Spec

\* The types of the calls, the queues and the messages.
THEOREM TypeCorrect == Spec => []TypeOK
<1>1. Bounded => TypeOK
  BY DEF Bounded
<1> QED
  BY <1>1, BoundedInvariant, PTL
-----------------------------------------------------------------------------
(* No command is lost. *)

\* A consumer consumes from its own queue, which was bound before and stays
\* bound.
ConsumersAreBound ==
    /\ \A q \in Queues : \A s \in ToSet(consumers[q]) :
          s.queue = q /\ q \in bound
    /\ \A d \in deliveries : d.setup.queue \in bound
    /\ \A p \in Processes : \A call \in calls[p] :
          call.step \in {"consume", "note"} => call.setup.queue \in bound

\* The broker holds a message, or its callback has settled, or it had no queue.
Tracked(m) == \/ m \in exchange \cup settled \cup unrouted
              \/ \E q \in bound : m \in ready[q]
              \/ \E d \in deliveries : d.message = m /\ d.live

\* Every copy of a command that reached the exchange is one of these.
CopiesAreTracked ==
    \A c \in Commands : \A n \in 1..copies[c] :
        Tracked([command |-> c, copy |-> n])

\* A list has elements, its first one among them, unless it is the empty one.
LEMMA FirstOfList ==
    ASSUME NEW S, NEW list \in Seq(S)
    PROVE  /\ list = <<>> => ToSet(list) = {}
           /\ list # <<>> => Head(list) \in ToSet(list)
<1>1. /\ Len(list) \in Nat
      /\ \A k \in 1..Len(list) : list[k] \in ToSet(list)
      /\ \A x \in ToSet(list) : \E k \in 1..Len(list) : x = list[k]
  BY ElementsOfList
<1>2. CASE list = <<>>
  <2>1. Len(list) = 0
    BY <1>2, EmptySeq
  <2> QED
    BY <1>1, <1>2, <2>1
<1>3. CASE list # <<>>
  <2>1. Len(list) # 0 /\ Head(list) = list[1]
    BY <1>3, EmptySeq, HeadTailProperties
  <2> QED
    BY <1>1, <1>3, <2>1
<1> QED
  BY <1>2, <1>3

\* The inductive invariant behind NothingLost.
Held == Bounded /\ ConsumersAreBound /\ CopiesAreTracked

\* The initial states satisfy it.
LEMMA HeldInit == Init => Held
<1> SUFFICES ASSUME Init PROVE Held
  OBVIOUS
<1>1. \A q \in Queues : ToSet(consumers[q]) = {}
  <2>1. \A q \in Queues : consumers[q] = <<>>
    BY DEF Init
  <2>2. <<>> \in Seq(Setup)
    BY EmptySeq
  <2> QED
    BY <2>1, <2>2, FirstOfList
<1>2. ConsumersAreBound
  BY <1>1 DEF Init, ConsumersAreBound
<1>3. CopiesAreTracked
  BY DEF Init, CopiesAreTracked
<1> QED
  BY <1>2, <1>3, BoundedInit DEF Held

\* A channel that is closed gives back what it has not acknowledged.
LEMMA ClosedChannelIsBound ==
    ASSUME TypeOK, ConsumersAreBound, NEW p \in Processes, CloseChannel(p),
           UNCHANGED <<exchange, bound, settled, unrouted>>,
           \A d \in deliveries' : \E e \in deliveries : d.setup = e.setup,
           \A d \in deliveries \ Of(p) : d \in deliveries'
    PROVE  /\ ConsumersAreBound'
           /\ \A m : Tracked(m) => Tracked(m)'
<1>1. \A q \in Queues :
         /\ ToSet(consumers'[q]) = {s \in ToSet(consumers[q]) : s.process # p}
         /\ ready'[q] = ready[q] \cup Returned(p, q)
  BY ChannelClosed
<1>2. ConsumersAreBound'
  <2>1. \A o \in Processes : calls'[o] \subseteq calls[o]
    BY DEF CloseChannel, TypeOK
  <2> QED
    BY <1>1, <2>1 DEF ConsumersAreBound
<1>3. bound \subseteq Queues
  BY DEF TypeOK
<1>4. ASSUME NEW m, NEW d \in deliveries, d.message = m, d.live
      PROVE  Tracked(m)'
  <2>1. CASE d \in Of(p)
    <3>1. d.setup.queue \in bound /\ m \in Returned(p, d.setup.queue)
      BY <1>4, <2>1 DEF ConsumersAreBound, Returned
    <3> QED
      BY <1>1, <1>3, <3>1 DEF Tracked
  <2>2. CASE d \notin Of(p)
    BY <1>4, <2>2 DEF Tracked
  <2> QED
    BY <2>1, <2>2
<1>5. ASSUME NEW m, NEW q \in bound, m \in ready[q]
      PROVE  Tracked(m)'
  BY <1>1, <1>3, <1>5 DEF Tracked
<1> QED
  BY <1>2, <1>4, <1>5 DEF Tracked

\* Every step keeps the invariant.
LEMMA HeldStep ==
    ASSUME Held, [Next]_vars
    PROVE  Held'
<1> DEFINE Goal == /\ ConsumersAreBound'
                   /\ \A m : Tracked(m) => Tracked(m)'
<1> USE DEF Held
<1>1. TypeOK /\ Counters /\ Bounded'
  BY BoundedStep DEF Bounded
<1>2. \A d \in deliveries : d.setup.process \in Processes
  BY <1>1 DEF TypeOK, Setup
<1>bound. ASSUME NEW p \in Processes, NEW call \in calls[p], Bind(p, call)
      PROVE  Goal
  <2>1. /\ bound' = bound \cup {call.setup.queue}
        /\ UNCHANGED <<exchange, ready, consumers, deliveries, settled,
                       unrouted>>
    BY <1>bound DEF Bind, historyVars
  <2>2. /\ calls'[p] = (calls[p] \ {call}) \cup {Moved(call, "consume")}
        /\ \A o \in Processes \ {p} : calls'[o] = calls[o]
    BY <1>1, <1>bound, CallProceeds DEF Bind
  <2>3. Moved(call, "consume").setup = call.setup
    BY DEF Moved
  <2>4. ConsumersAreBound'
    BY <2>1, <2>2, <2>3 DEF ConsumersAreBound
  <2> QED
    BY <2>1, <2>4 DEF Tracked
<1>3. ASSUME NEW p \in Processes, NEW call \in calls[p], Consume(p, call)
      PROVE  Goal
  <2>1. /\ UNCHANGED <<exchange, bound, ready, deliveries, settled, unrouted>>
        /\ call.step = "consume"
    BY <1>3 DEF Consume, historyVars
  <2>2. /\ calls'[p] = (calls[p] \ {call}) \cup {Moved(call, "note")}
        /\ \A o \in Processes \ {p} : calls'[o] = calls[o]
    BY <1>1, <1>3, CallProceeds DEF Consume
  <2>3. Moved(call, "note").setup = call.setup
    BY DEF Moved
  <2>4. \A q \in Queues : ToSet(consumers'[q]) =
           IF q = call.setup.queue THEN ToSet(consumers[q]) \cup {call.setup}
           ELSE ToSet(consumers[q])
    BY <1>1, <1>3, ConsumerAdded
  <2>5. call.setup.queue \in bound
    BY <2>1 DEF ConsumersAreBound
  <2>6. ASSUME NEW q \in Queues, NEW s \in ToSet(consumers'[q])
        PROVE  s.queue = q /\ q \in bound
    <3>1. \/ s \in ToSet(consumers[q])
          \/ q = call.setup.queue /\ s = call.setup
      BY <2>4, <2>6
    <3> QED
      BY <2>5, <3>1 DEF ConsumersAreBound
  <2>7. \A o \in Processes : \A other \in calls'[o] :
           other.step \in {"consume", "note"} => other.setup.queue \in bound
    BY <2>2, <2>3, <2>5 DEF ConsumersAreBound
  <2>8. ConsumersAreBound'
    BY <2>1, <2>6, <2>7 DEF ConsumersAreBound
  <2> QED
    BY <2>1, <2>8 DEF Tracked
<1>4. ASSUME NEW p \in Processes,
             \/ Connect(p)
             \/ \E call \in calls[p] : Subscribed(p, call)
             \/ Start(p)
             \/ Stop(p)
      PROVE  Goal
  <2>1. UNCHANGED <<exchange, bound, ready, consumers, deliveries, settled,
                    unrouted>>
    BY <1>4 DEF Connect, Subscribed, Start, Stop, brokerVars, historyVars
  <2>2. \A o \in Processes : \A call \in calls'[o] \ calls[o] :
           call.step \notin {"consume", "note"}
    <3>1. CASE Connect(p)
      BY <1>1, <3>1, SetupsRerun DEF SetupCall
    <3>2. CASE \E call \in calls[p] : Subscribed(p, call)
      BY <1>1, <3>2 DEF Subscribed, TypeOK
    <3>3. CASE Start(p)
      BY <1>1, <3>3, Started DEF StartCall
    <3>4. CASE Stop(p)
      BY <1>1, <3>4, StoppedCases DEF StopCall
    <3> QED
      BY <1>4, <3>1, <3>2, <3>3, <3>4
  <2> QED
    BY <2>1, <2>2 DEF ConsumersAreBound, Tracked
<1>5. ASSUME NEW p \in Processes, NEW call \in calls[p], Unsubscribed(p, call)
      PROVE  Goal
  <2>1. \A q \in Queues : ToSet(consumers'[q]) \subseteq ToSet(consumers[q])
    BY <1>1, <1>5, ConsumerCancelled
  <2>2. /\ UNCHANGED <<exchange, bound, ready, deliveries, settled, unrouted>>
        /\ \A o \in Processes : calls'[o] \subseteq calls[o]
    BY <1>1, <1>5 DEF Unsubscribed, historyVars, TypeOK
  <2> QED
    BY <2>1, <2>2 DEF ConsumersAreBound, Tracked
<1>6. ASSUME NEW p \in Processes, Lose(p)
      PROVE  Goal
  <2>1. /\ \A d \in deliveries' : \E e \in deliveries : d.setup = e.setup
        /\ \A d \in deliveries \ Of(p) : d \in deliveries'
    BY <1>1, <1>6, ChannelLost
  <2>2. CloseChannel(p) /\ UNCHANGED <<exchange, bound, settled, unrouted>>
    BY <1>6 DEF Lose, historyVars
  <2> QED
    BY <1>1, <2>1, <2>2, ClosedChannelIsBound
<1>7. ASSUME NEW p \in Processes, End(p)
      PROVE  Goal
  <2>1. /\ \A d \in deliveries' : \E e \in deliveries : d.setup = e.setup
        /\ \A d \in deliveries \ Of(p) : d \in deliveries'
        /\ CloseChannel(p)
        /\ UNCHANGED <<exchange, bound, settled, unrouted>>
    BY <1>7 DEF End, historyVars
  <2> QED
    BY <1>1, <2>1, ClosedChannelIsBound
<1>8. ASSUME NEW p \in Processes, NEW c \in Commands, Arrive(p, c)
      PROVE  Goal
  <2>1. UNCHANGED <<bound, ready, consumers, deliveries, settled, unrouted,
                    calls>>
        /\ exchange \subseteq exchange'
    BY <1>8 DEF Arrive, historyVars, processVars
  <2> QED
    BY <2>1 DEF ConsumersAreBound, Tracked
<1>9. ASSUME NEW m \in exchange, Route(m)
      PROVE  Goal
  <2>1. /\ exchange' = exchange \ {m}
        /\ \A q \in bound : ready'[q] = ready[q] \cup {m}
        /\ UNCHANGED <<bound, consumers, deliveries, settled, calls>>
        /\ unrouted' = IF bound = {} THEN unrouted \cup {m} ELSE unrouted
    BY <1>1, <1>9 DEF Route, TypeOK, processVars
  <2>2. Tracked(m)'
    BY <2>1 DEF Tracked
  <2>3. \A n : n # m /\ Tracked(n) => Tracked(n)'
    BY <2>1 DEF Tracked
  <2>4. ConsumersAreBound'
    BY <2>1 DEF ConsumersAreBound
  <2> QED
    BY <2>2, <2>3, <2>4
<1>10. ASSUME NEW q \in Queues, NEW m \in ready[q], Deliver(q, m)
       PROVE  Goal
  <2> DEFINE d == Delivery(m, Head(consumers[q]))
  <2>1. consumers[q] \in Seq(Setup) /\ consumers[q] # <<>>
    BY <1>1, <1>10 DEF Deliver, TypeOK
  <2>2. Head(consumers[q]) \in ToSet(consumers[q])
    BY <2>1, FirstOfList
  <2>3. /\ d.setup.queue \in bound
        /\ d.message = m
        /\ d.live
    BY <2>2 DEF ConsumersAreBound, Delivery
  <2>4. /\ deliveries' = deliveries \cup {d}
        /\ UNCHANGED <<exchange, bound, consumers, settled, unrouted, calls>>
        /\ \A o \in Queues : ready[o] \ {m} \subseteq ready'[o]
        /\ bound \subseteq Queues
    BY <1>1, <1>10 DEF Deliver, TypeOK, processVars
  <2> HIDE DEF d
  <2>5. ConsumersAreBound'
    BY <2>3, <2>4 DEF ConsumersAreBound
  <2>6. Tracked(m)'
    BY <2>3, <2>4 DEF Tracked
  <2>7. \A n : n # m /\ Tracked(n) => Tracked(n)'
    BY <2>4 DEF Tracked
  <2> QED
    BY <2>5, <2>6, <2>7
<1>11. ASSUME NEW d \in deliveries, Acknowledge(d)
       PROVE  Goal
  <2>1. /\ deliveries' = deliveries \ {d}
        /\ settled' = settled \cup {d.message}
        /\ UNCHANGED <<exchange, bound, ready, consumers, unrouted, calls>>
    BY <1>11 DEF Acknowledge, processVars
  <2> QED
    BY <2>1 DEF ConsumersAreBound, Tracked
<1>12. ASSUME \/ \E p \in Processes, c \in Commands :
                   Schedule(p, c) \/ Confirm(p, c)
              \/ UNCHANGED vars
       PROVE  Goal
  <2>1. UNCHANGED <<exchange, bound, ready, consumers, deliveries, settled,
                    unrouted, calls>>
    BY <1>12
    DEF Schedule, Confirm, vars, brokerVars, historyVars, processVars
  <2> QED
    BY <2>1 DEF ConsumersAreBound, Tracked
<1>13. Goal
  <2>1. ASSUME \E p \in Processes : Crash(p)
        PROVE  Goal
    BY <1>7, <2>1 DEF Crash
  <2>2. ASSUME \E d \in deliveries : AcknowledgeTooLate(d)
        PROVE  Goal
    BY <1>2, <1>7, <2>2 DEF AcknowledgeTooLate
  <2> HIDE DEF Goal
  <2> QED
    BY <1>bound, <1>3, <1>4, <1>5, <1>6, <1>8, <1>9, <1>10, <1>11, <1>12,
       <2>1, <2>2, Steps
<1>14. \/ copies' = copies
       \/ \E p \in Processes, c \in Commands : Arrive(p, c)
  <2>1. ASSUME \/ \E p \in Processes : Crash(p)
               \/ \E d \in deliveries : AcknowledgeTooLate(d)
        PROVE  copies' = copies
    BY <2>1 DEF Crash, AcknowledgeTooLate, End
  <2>2. ASSUME \/ \E p \in Processes : \/ Start(p) \/ Stop(p) \/ Connect(p)
                                       \/ Lose(p)
               \/ \E p \in Processes, c \in Commands :
                    Schedule(p, c) \/ Confirm(p, c)
               \/ \E m \in exchange : Route(m)
               \/ \E q \in Queues : \E m \in ready[q] : Deliver(q, m)
               \/ \E d \in deliveries : Acknowledge(d)
               \/ UNCHANGED vars
        PROVE  copies' = copies
    BY <2>2
    DEF Start, Stop, Connect, Lose, Schedule, Confirm, Route, Deliver,
        Acknowledge, vars, senderVars
  <2>3. ASSUME \E p \in Processes : \E call \in calls[p] :
                 \/ Bind(p, call)
                 \/ Consume(p, call)
                 \/ Subscribed(p, call)
                 \/ Unsubscribed(p, call)
        PROVE  copies' = copies
    BY <2>3 DEF Bind, Consume, Subscribed, Unsubscribed, senderVars
  <2> QED
    BY <2>1, <2>2, <2>3, Steps
<1>15. CopiesAreTracked'
  <2>1. CASE copies' = copies
    BY <1>13, <2>1 DEF CopiesAreTracked
  <2>2. ASSUME NEW p \in Processes, NEW c \in Commands, Arrive(p, c)
        PROVE  CopiesAreTracked'
    <3>1. PICK m : m = [command |-> c, copy |-> copies[c] + 1]
      OBVIOUS
    <3>2. /\ copies'[c] = copies[c] + 1
          /\ \A b \in Commands \ {c} : copies'[b] = copies[b]
          /\ \A b \in Commands : copies[b] \in Nat
          /\ m \in exchange'
      BY <1>1, <2>2, <3>1 DEF Arrive, Counters
    <3>3. ASSUME NEW b \in Commands, NEW n \in 1..copies'[b]
          PROVE  Tracked([command |-> b, copy |-> n])'
      <4>1. CASE n \in 1..copies[b]
        BY <1>13, <4>1 DEF CopiesAreTracked
      <4>2. CASE n \notin 1..copies[b]
        <5>1. b = c /\ n = copies[c] + 1
          BY <3>2, <4>2
        <5>2. [command |-> b, copy |-> n] = m
          BY <3>1, <5>1
        <5> QED
          BY <3>2, <5>2 DEF Tracked
      <4> QED
        BY <4>1, <4>2
    <3> QED
      BY <3>3 DEF CopiesAreTracked
  <2> QED
    BY <1>14, <2>1, <2>2
<1> QED
  BY <1>1, <1>13, <1>15

\* The broker holds every command whose schedule has returned until its callback
\* has settled, unless it was due before any process had ever subscribed.
THEOREM NothingIsLost == Spec => []NothingLost
<1>1. Held => NothingLost
  <2> SUFFICES ASSUME Held, NEW c \in scheduled
               PROVE  \E n \in 1..copies[c] :
                        Tracked([command |-> c, copy |-> n])
    BY DEF NothingLost, Tracked
  <2>1. c \in Commands /\ copies[c] \in Nat /\ copies[c] > 0
    BY DEF Held, Bounded, Counters, CopiesAreBounded
  <2>2. 1 \in 1..copies[c]
    BY <2>1
  <2> QED
    BY <2>1, <2>2 DEF Held, CopiesAreTracked
<1>2. Held /\ [Next]_vars => Held'
  BY HeldStep
<1> QED
  BY <1>1, <1>2, HeldInit, PTL DEF Spec
-----------------------------------------------------------------------------
(* A calm process is served once. *)

\* A setup belongs to the process that made it, with one of its calls of start.
OwnedBy(s, p) == s.process = p /\ s.nth <= starts

SetupsAreOwned ==
    \A p \in Processes :
        /\ \A s \in setups[p] : OwnedBy(s, p)
        /\ \A call \in calls[p] : OwnedBy(call.setup, p)
        /\ tags[p] # NoSetup => OwnedBy(tags[p], p)

\* A setup that is under way, of a call of start or of a new channel.
Subscribing(call) == call.kind # "stop"

\* A setup is under way at most once, and nothing is without a channel.
SetupsRunOnce ==
    \A p \in Processes :
        /\ ~ connected[p] => /\ calls[p] = {}
                             /\ p \notin fresh
                             /\ p \notin overtaken
        /\ \A a, b \in calls[p] :
             Subscribing(a) /\ Subscribing(b) /\ a.setup = b.setup => a = b

\* A setup consumes at most once, on a channel that is there, and not before it
\* has come that far.
ConsumersAreSingle ==
    \A q \in Queues : IsInjective(consumers[q])

ConsumersAreConnected ==
    \A q \in Queues : \A s \in ToSet(consumers[q]) :
        /\ connected[s.process]
        /\ s.nth <= starts
        /\ \A call \in calls[s.process] :
             Subscribing(call) /\ call.setup = s => call.step = "note"

\* The consumers of a process.
Consuming(p) == {s \in Setup : s.process = p /\ s \in ToSet(consumers[s.queue])}

\* The setups that use the first queue.
Shared == {s \in Setup : s.queue = 0}

\* What a calm process has consumed from since it was stopped while its setups
\* ran anew.
LeftOver(p) == IF p \in overtaken THEN {{s} : s \in Shared} ELSE {{}}

\* A call or a setup, and its consumer, which is there before it is noted.
At(kind, s, step) == [kind |-> kind, setup |-> s, step |-> step]
Made(s, step) == IF step = "note" THEN {s} ELSE {}

\* The states of a process whose calls never overlapped or were cut.
Phase(p, run, awaited, kept, count, consuming) ==
    /\ running[p] <=> run
    /\ calls[p] = awaited
    /\ setups[p] = kept
    /\ consumerCount[p] = count
    /\ Consuming(p) = consuming

IsStopped(p, left) == Phase(p, FALSE, {}, {}, 0, left)

IsStarting(p, s, step, left) ==
    Phase(p, TRUE, {At("start", s, step)}, {s}, 0, left \cup Made(s, step))

IsServing(p, s, left) ==
    /\ Phase(p, TRUE, {}, {s}, 1, IF connected[p] THEN left \cup {s} ELSE {})
    /\ connected[p] => tags[p] = s /\ p \in fresh

IsStopping(p, s, left) ==
    Phase(p, FALSE, {At("stop", s, "cancel")}, {}, 1, left \cup {s})

\* The setup runs anew on a new channel.
IsSettingUp(p, s, step) ==
    /\ Phase(p, TRUE, {At("setup", s, step)}, {s}, 1, Made(s, step))
    /\ p \notin fresh
    /\ p \notin overtaken

\* It is stopped meanwhile, and skips its consumer once the setup has run.
IsOvertaken(p, s, step) ==
    /\ Phase(p, FALSE, {At("setup", s, step), At("stop", s, "skip")}, {}, 1,
             Made(s, step))
    /\ p \in overtaken

IsSkipping(p, s) ==
    /\ Phase(p, FALSE, {At("stop", s, "skip")}, {}, 1, {s})
    /\ p \in overtaken

Orderly(p) ==
    \/ \E left \in LeftOver(p) : IsStopped(p, left)
    \/ \E s \in Shared : \E left \in LeftOver(p) :
         /\ s \notin left
         /\ \/ \E step \in {"bind", "consume", "note"} :
                 IsStarting(p, s, step, left)
            \/ IsServing(p, s, left)
            \/ IsStopping(p, s, left)
    \/ \E s \in Shared :
         \/ \E step \in {"bind", "consume", "note"} :
              IsSettingUp(p, s, step) \/ IsOvertaken(p, s, step)
         \/ IsSkipping(p, s)

CalmIsOrderly == \A p \in Processes \ troubled : Orderly(p)

\* The inductive invariant behind CalmServesOnce.
Calm == /\ Held
        /\ SetupsAreOwned
        /\ SetupsRunOnce
        /\ ConsumersAreSingle
        /\ ConsumersAreConnected
        /\ CalmIsOrderly

\* The initial states satisfy it.
LEMMA CalmInit == Init => Calm
<1> SUFFICES ASSUME Init PROVE Calm
  OBVIOUS
<1>1. Held /\ TypeOK
  BY HeldInit DEF Held, Bounded
<1>2. \A q \in Queues : consumers[q] = <<>> /\ ToSet(consumers[q]) = {}
  <2>1. \A q \in Queues : consumers[q] = <<>>
    BY DEF Init
  <2>2. <<>> \in Seq(Setup)
    BY EmptySeq
  <2> QED
    BY <2>1, <2>2, FirstOfList
<1>3. SetupsAreOwned /\ SetupsRunOnce
  BY DEF Init, SetupsAreOwned, SetupsRunOnce
<1>4. ConsumersAreSingle
  BY <1>2, EmptySeq DEF ConsumersAreSingle, IsInjective
<1>5. ConsumersAreConnected
  BY <1>2 DEF ConsumersAreConnected
<1>6. ASSUME NEW p \in Processes PROVE Orderly(p)
  <2>1. \A s \in Setup : s.queue \in Queues
    BY DEF Setup
  <2>2. Consuming(p) = {}
    BY <1>2, <2>1 DEF Consuming
  <2>3. IsStopped(p, {}) /\ {} \in LeftOver(p)
    BY <2>2 DEF Init, IsStopped, Phase, LeftOver
  <2> QED
    BY <2>3 DEF Orderly
<1> QED
  BY <1>1, <1>3, <1>4, <1>5, <1>6 DEF Calm, CalmIsOrderly

\* Every step keeps a setup with its process.
LEMMA OwnedStep ==
    ASSUME Calm, [Next]_vars
    PROVE  SetupsAreOwned'
<1>1. TypeOK /\ Counters /\ SetupsAreOwned /\ starts \in Nat
  BY AmqpSchedulerAssumption DEF Calm, Held, Bounded, Counters
<1>2. ASSUME starts' = starts,
             \A o \in Processes :
               /\ setups'[o] \subseteq setups[o]
               /\ \A x \in calls'[o] :
                    \/ \E call \in calls[o] : x.setup = call.setup
                    \/ x.setup \in setups[o]
               /\ \/ tags'[o] = NoSetup
                  \/ tags'[o] = tags[o]
                  \/ \E call \in calls[o] : tags'[o] = call.setup
      PROVE  SetupsAreOwned'
  BY <1>1, <1>2 DEF SetupsAreOwned, OwnedBy
<1>3. ASSUME NEW p \in Processes, Start(p) PROVE SetupsAreOwned'
  <2> DEFINE s == NewSetup(p)
  <2>1. /\ s.process = p /\ s.nth = starts + 1
        /\ starts' = starts + 1
        /\ tags' = tags
    BY <1>3 DEF NewSetup, Start
  <2>2. StartCall(s).setup = s
    BY CallFields
  <2>3. /\ \A o \in Processes \ {p} : /\ setups'[o] = setups[o]
                                       /\ calls'[o] = calls[o]
        /\ setups'[p] = setups[p] \cup {s}
        /\ calls'[p] = calls[p] \/ calls'[p] = calls[p] \cup {StartCall(s)}
    BY <1>1, <1>3, Started
  <2>4. ASSUME NEW o \in Processes
        PROVE  /\ \A x \in setups'[o] : x \in setups[o] \/ (o = p /\ x = s)
               /\ \A x \in calls'[o] :
                    x \in calls[o] \/ (o = p /\ x = StartCall(s))
    <3> HIDE DEF s
    <3>1. CASE o = p
      BY <2>3, <3>1
    <3>2. CASE o # p
      BY <2>3, <3>2
    <3> QED
      BY <3>1, <3>2
  <2>5. ASSUME NEW o \in Processes
        PROVE  /\ \A x \in setups[o] : x \in Setup /\ OwnedBy(x, o)
               /\ \A call \in calls[o] : call.setup \in Setup
                                         /\ OwnedBy(call.setup, o)
               /\ tags[o] # NoSetup => tags[o] \in Setup /\ OwnedBy(tags[o], o)
    BY <1>1 DEF TypeOK, Call, SetupsAreOwned
  <2> HIDE DEF s
  <2>6. \A n \in Nat : n <= starts => n <= starts'
    BY <1>1, <2>1
  <2>7. s.nth <= starts' /\ \A x \in Setup : x.nth \in Nat
    BY <1>1, <2>1 DEF Setup
  <2> QED
    BY <2>1, <2>2, <2>4, <2>5, <2>6, <2>7 DEF SetupsAreOwned, OwnedBy
<1>4. ASSUME NEW p \in Processes, Stop(p) PROVE SetupsAreOwned'
  <2>1. starts' = starts /\ tags' = tags
    BY <1>4 DEF Stop
  <2>2. CASE UNCHANGED <<setups, calls>>
    BY <1>1, <2>1, <2>2 DEF SetupsAreOwned, OwnedBy
  <2>3. CASE /\ tags[p] # NoSetup
             /\ \A o \in Processes \ {p} : /\ setups'[o] = setups[o]
                                            /\ calls'[o] = calls[o]
             /\ setups'[p] \subseteq setups[p]
             /\ \A x \in calls'[p] : x \in calls[p] \/ x = StopCall(p)
    <3>1. StopCall(p).setup = tags[p]
      BY CallFields
    <3>2. ASSUME NEW o \in Processes
          PROVE  /\ setups'[o] \subseteq setups[o]
                 /\ \A x \in calls'[o] :
                      x \in calls[o] \/ (o = p /\ x = StopCall(p))
      BY <2>3
    <3>3. OwnedBy(tags[p], p)
      BY <1>1, <2>3 DEF SetupsAreOwned
    <3> QED
      BY <1>1, <2>1, <3>1, <3>2, <3>3 DEF SetupsAreOwned, OwnedBy
  <2>4. tags[p] \in Setup => tags[p] # NoSetup
    BY DEF Setup, NoSetup
  <2> QED
    BY <1>1, <1>4, <2>2, <2>3, <2>4, StoppedCases
<1>5. ASSUME NEW p \in Processes, NEW call \in calls[p],
             Bind(p, call) \/ Consume(p, call)
      PROVE  SetupsAreOwned'
  <2>1. /\ UNCHANGED <<setups, tags, starts>>
        /\ call.step \in {"bind", "consume", "note"}
        /\ \E step \in {"bind", "consume", "note"} : Proceed(p, call, step)
    BY <1>5 DEF Bind, Consume
  <2>2. PICK step \in {"bind", "consume", "note"} : Proceed(p, call, step)
    BY <2>1
  <2>3. /\ calls'[p] = (calls[p] \ {call}) \cup {Moved(call, step)}
        /\ \A o \in Processes \ {p} : calls'[o] = calls[o]
    BY <1>1, <2>1, <2>2, CallProceeds
  <2>4. Moved(call, step).setup = call.setup
    BY DEF Moved
  <2>5. ASSUME NEW o \in Processes, NEW x \in calls'[o]
        PROVE  \E c \in calls[o] : x.setup = c.setup
    BY <2>3, <2>4
  <2> QED
    BY <1>2, <2>1, <2>5
<1>6. ASSUME NEW p \in Processes, NEW call \in calls[p], Subscribed(p, call)
      PROVE  SetupsAreOwned'
  <2>1. /\ UNCHANGED <<setups, starts>>
        /\ calls' = [calls EXCEPT ![p] = @ \ {call}]
        /\ tags' = [tags EXCEPT ![p] = call.setup]
    BY <1>6 DEF Subscribed
  <2> QED
    BY <1>1, <1>2, <2>1 DEF TypeOK
<1>7. ASSUME NEW p \in Processes, NEW call \in calls[p], Unsubscribed(p, call)
      PROVE  SetupsAreOwned'
  <2>1. /\ UNCHANGED <<setups, tags, starts>>
        /\ calls' = [calls EXCEPT ![p] = @ \ {call}]
    BY <1>7 DEF Unsubscribed
  <2> QED
    BY <1>1, <1>2, <2>1 DEF TypeOK
<1>8. ASSUME NEW p \in Processes, Connect(p) PROVE SetupsAreOwned'
  <2>1. UNCHANGED <<setups, tags, starts>>
    BY <1>8 DEF Connect
  <2>2. /\ calls'[p] = {SetupCall(s) : s \in setups[p]}
        /\ \A o \in Processes \ {p} : calls'[o] = calls[o]
        /\ \A s : SetupCall(s).setup = s
    BY <1>1, <1>8, SetupsRerun DEF SetupCall
  <2>3. ASSUME NEW o \in Processes, NEW x \in calls'[o]
        PROVE  x \in calls[o] \/ x.setup \in setups[o]
    BY <2>2
  <2> QED
    BY <1>2, <2>1, <2>3
<1>9. ASSUME NEW p \in Processes, Lose(p) \/ End(p) PROVE SetupsAreOwned'
  <2>1. /\ starts' = starts
        /\ calls' = [calls EXCEPT ![p] = {}]
        /\ setups' = setups \/ setups' = [setups EXCEPT ![p] = {}]
        /\ tags' = tags \/ tags' = [tags EXCEPT ![p] = NoSetup]
    BY <1>9 DEF Lose, End, CloseChannel
  <2>2. ASSUME NEW o \in Processes
        PROVE  /\ setups'[o] \subseteq setups[o]
               /\ calls'[o] \subseteq calls[o]
               /\ tags'[o] = NoSetup \/ tags'[o] = tags[o]
    BY <1>1, <2>1 DEF TypeOK
  <2> QED
    BY <1>2, <2>1, <2>2
<1>10. ASSUME \/ \E p \in Processes : Crash(p)
              \/ \E d \in deliveries : AcknowledgeTooLate(d)
       PROVE  SetupsAreOwned'
  <2>1. \A d \in deliveries : d.setup.process \in Processes
    BY <1>1 DEF TypeOK, Setup
  <2> QED
    BY <1>9, <1>10, <2>1 DEF Crash, AcknowledgeTooLate
<1>11. CASE \/ \E p \in Processes, c \in Commands :
                 Schedule(p, c) \/ Arrive(p, c) \/ Confirm(p, c)
            \/ \E m \in exchange : Route(m)
            \/ \E q \in Queues : \E m \in ready[q] : Deliver(q, m)
            \/ \E d \in deliveries : Acknowledge(d)
            \/ UNCHANGED vars
  <2>1. UNCHANGED <<setups, calls, tags, starts>>
    BY <1>11
    DEF Schedule, Arrive, Confirm, Route, Deliver, Acknowledge, vars,
        processVars
  <2> QED
    BY <1>2, <2>1
<1> QED
  BY <1>3, <1>4, <1>5, <1>6, <1>7, <1>8, <1>9, <1>10, <1>11, Steps

\* Every step keeps the setups that are under way apart.
LEMMA RunOnceStep ==
    ASSUME Calm, [Next]_vars
    PROVE  SetupsRunOnce'
<1>1. /\ TypeOK /\ Counters /\ SetupsAreOwned /\ SetupsRunOnce
      /\ starts \in Nat
  BY AmqpSchedulerAssumption DEF Calm, Held, Bounded, Counters
<1>2. ASSUME NEW p \in Processes,
             \A o \in Processes \ {p} : calls'[o] = calls[o],
             \A o \in Processes \ {p} : connected'[o] = connected[o],
             fresh' \subseteq fresh \cup {p},
             overtaken' \subseteq overtaken \cup {p},
             ~ connected'[p] => /\ calls'[p] = {}
                                /\ p \notin fresh'
                                /\ p \notin overtaken',
             \A a, b \in calls'[p] :
               Subscribing(a) /\ Subscribing(b) /\ a.setup = b.setup => a = b
      PROVE  SetupsRunOnce'
  <2>1. ASSUME NEW o \in Processes \ {p}
        PROVE  /\ ~ connected'[o] => /\ calls'[o] = {}
                                     /\ o \notin fresh'
                                     /\ o \notin overtaken'
               /\ \A a, b \in calls'[o] :
                    Subscribing(a) /\ Subscribing(b) /\ a.setup = b.setup
                      => a = b
    <3>1. calls'[o] = calls[o] /\ connected'[o] = connected[o]
      BY <1>2
    <3>2. (o \in fresh' => o \in fresh) /\ (o \in overtaken' => o \in overtaken)
      BY <1>2
    <3> QED
      BY <1>1, <3>1, <3>2 DEF SetupsRunOnce
  <2> QED
    BY <1>2, <2>1 DEF SetupsRunOnce, Subscribing
<1>3. ASSUME NEW p \in Processes, Start(p) PROVE SetupsRunOnce'
  <2>1. /\ \A o \in Processes \ {p} : calls'[o] = calls[o]
        /\ \/ calls'[p] = calls[p]
           \/ /\ connected[p]
              /\ calls'[p] = calls[p] \cup {StartCall(NewSetup(p))}
    BY <1>1, <1>3, Started
  <2>2. UNCHANGED <<connected, fresh, overtaken>>
    BY <1>3 DEF Start
  <2>3. StartCall(NewSetup(p)).setup.nth = starts + 1
    BY CallFields DEF NewSetup
  <2>4. \A a \in calls[p] : a.setup.nth \in Nat /\ a.setup.nth <= starts
    BY <1>1 DEF TypeOK, Call, Setup, SetupsAreOwned, OwnedBy
  <2>5. \A a \in calls[p] : a.setup # StartCall(NewSetup(p)).setup
    BY <1>1, <2>3, <2>4
  <2>6. \A a, b \in calls'[p] :
           Subscribing(a) /\ Subscribing(b) /\ a.setup = b.setup => a = b
    BY <1>1, <2>1, <2>5 DEF SetupsRunOnce
  <2> QED
    BY <1>1, <1>2, <2>1, <2>2, <2>6 DEF SetupsRunOnce
<1>4. ASSUME NEW p \in Processes, Stop(p) PROVE SetupsRunOnce'
  <2>1. /\ \A o \in Processes \ {p} : calls'[o] = calls[o]
        /\ \/ calls'[p] = calls[p]
           \/ connected[p] /\ calls'[p] = calls[p] \cup {StopCall(p)}
    BY <1>1, <1>4, StoppedCases
  <2>2. /\ UNCHANGED <<connected, fresh>>
        /\ overtaken' = IF SettingUp(p) # {} THEN overtaken \cup {p}
                        ELSE overtaken
    BY <1>4 DEF Stop
  <2>3. ~ Subscribing(StopCall(p))
    BY CallFields DEF Subscribing
  <2>4. \A a, b \in calls'[p] :
           Subscribing(a) /\ Subscribing(b) /\ a.setup = b.setup => a = b
    BY <1>1, <2>1, <2>3 DEF SetupsRunOnce
  <2>5. ~ connected[p] => /\ calls'[p] = {} /\ SettingUp(p) = {}
                          /\ p \notin fresh /\ p \notin overtaken
    BY <1>1, <2>1 DEF SetupsRunOnce, SettingUp
  <2> QED
    BY <1>1, <1>2, <2>1, <2>2, <2>4, <2>5
<1>5. ASSUME NEW p \in Processes, NEW call \in calls[p],
             Bind(p, call) \/ Consume(p, call)
      PROVE  SetupsRunOnce'
  <2>1. /\ UNCHANGED <<connected, fresh, overtaken>>
        /\ call.step \in {"bind", "consume", "note"}
        /\ \E step \in {"bind", "consume", "note"} : Proceed(p, call, step)
    BY <1>5 DEF Bind, Consume
  <2>2. PICK step \in {"bind", "consume", "note"} : Proceed(p, call, step)
    BY <2>1
  <2>3. /\ calls'[p] = (calls[p] \ {call}) \cup {Moved(call, step)}
        /\ \A o \in Processes \ {p} : calls'[o] = calls[o]
        /\ Subscribing(call)
    BY <1>1, <2>1, <2>2, CallProceeds DEF Subscribing
  <2>4. Moved(call, step).setup = call.setup
    BY DEF Moved
  <2>5. ASSUME NEW a \in calls[p] \ {call}, Subscribing(a)
        PROVE  a.setup # call.setup
    BY <1>1, <2>3, <2>5 DEF SetupsRunOnce
  <2>6. \A a, b \in calls'[p] :
           Subscribing(a) /\ Subscribing(b) /\ a.setup = b.setup => a = b
    BY <1>1, <2>3, <2>4, <2>5 DEF SetupsRunOnce
  <2>7. connected[p]
    BY <1>1 DEF SetupsRunOnce
  <2> QED
    BY <1>2, <2>1, <2>3, <2>6, <2>7
<1>6. ASSUME NEW p \in Processes, NEW call \in calls[p],
             Subscribed(p, call) \/ Unsubscribed(p, call)
      PROVE  SetupsRunOnce'
  <2>1. /\ UNCHANGED <<connected, overtaken>>
        /\ fresh' \subseteq fresh \cup {p}
        /\ calls' = [calls EXCEPT ![p] = @ \ {call}]
    BY <1>6 DEF Subscribed, Unsubscribed
  <2>2. /\ connected[p]
        /\ calls'[p] \subseteq calls[p]
        /\ \A o \in Processes \ {p} : calls'[o] = calls[o]
    BY <1>1, <2>1 DEF SetupsRunOnce, TypeOK
  <2>3. \A a, b \in calls'[p] :
           Subscribing(a) /\ Subscribing(b) /\ a.setup = b.setup => a = b
    BY <1>1, <2>2 DEF SetupsRunOnce
  <2> QED
    BY <1>2, <2>1, <2>2, <2>3
<1>7. ASSUME NEW p \in Processes, Connect(p) PROVE SetupsRunOnce'
  <2>1. /\ connected' = [connected EXCEPT ![p] = TRUE]
        /\ UNCHANGED <<fresh, overtaken>>
    BY <1>7 DEF Connect
  <2>2. /\ connected'[p]
        /\ \A o \in Processes \ {p} : connected'[o] = connected[o]
    BY <1>1, <2>1 DEF TypeOK
  <2>3. /\ calls'[p] = {SetupCall(s) : s \in setups[p]}
        /\ \A o \in Processes \ {p} : calls'[o] = calls[o]
    BY <1>1, <1>7, SetupsRerun
  <2>4. \A s : SetupCall(s).setup = s
    BY DEF SetupCall
  <2>5. \A a, b \in calls'[p] : a.setup = b.setup => a = b
    BY <2>3, <2>4
  <2> QED
    BY <1>2, <2>1, <2>2, <2>3, <2>5
<1>8. ASSUME NEW p \in Processes, CloseChannel(p) PROVE SetupsRunOnce'
  <2>1. /\ calls' = [calls EXCEPT ![p] = {}]
        /\ connected' = [connected EXCEPT ![p] = FALSE]
        /\ fresh' = fresh \ {p} /\ overtaken' = overtaken \ {p}
    BY <1>8 DEF CloseChannel
  <2>2. /\ calls'[p] = {}
        /\ \A o \in Processes \ {p} : /\ calls'[o] = calls[o]
                                      /\ connected'[o] = connected[o]
    BY <1>1, <2>1 DEF TypeOK
  <2> QED
    BY <1>2, <2>1, <2>2
<1>9. ASSUME \/ \E p \in Processes : Lose(p) \/ Crash(p)
             \/ \E d \in deliveries : AcknowledgeTooLate(d)
      PROVE  SetupsRunOnce'
  <2>1. \A d \in deliveries : d.setup.process \in Processes
    BY <1>1 DEF TypeOK, Setup
  <2> QED
    BY <1>8, <1>9, <2>1 DEF Lose, Crash, AcknowledgeTooLate, End
<1>10. CASE \/ \E p \in Processes, c \in Commands :
                 Schedule(p, c) \/ Arrive(p, c) \/ Confirm(p, c)
            \/ \E m \in exchange : Route(m)
            \/ \E q \in Queues : \E m \in ready[q] : Deliver(q, m)
            \/ \E d \in deliveries : Acknowledge(d)
            \/ UNCHANGED vars
  <2>1. UNCHANGED <<calls, connected, fresh, overtaken>>
    BY <1>10
    DEF Schedule, Arrive, Confirm, Route, Deliver, Acknowledge, vars,
        processVars
  <2> QED
    BY <1>1, <2>1 DEF SetupsRunOnce, Subscribing
<1> QED
  BY <1>3, <1>4, <1>5, <1>6, <1>7, <1>9, <1>10, Steps

\* Every step keeps the consumers single and on a channel that is there.
LEMMA ConsumersStep ==
    ASSUME Calm, [Next]_vars
    PROVE  ConsumersAreSingle' /\ ConsumersAreConnected'
<1>1. /\ TypeOK /\ Counters /\ SetupsAreOwned /\ SetupsRunOnce
      /\ starts \in Nat
      /\ ConsumersAreSingle /\ ConsumersAreConnected /\ ConsumersAreBound
  BY AmqpSchedulerAssumption DEF Calm, Held, Bounded, Counters
<1>2. \A q \in Queues : \A s \in ToSet(consumers[q]) :
         /\ s \in Setup /\ s.process \in Processes
         /\ s.nth \in Nat
  <2>1. \A q \in Queues : ToSet(consumers[q]) \subseteq Setup
    BY <1>1, ElementsOfList DEF TypeOK
  <2> QED
    BY <2>1 DEF Setup
<1>3. ASSUME \A q \in Queues : /\ ToSet(consumers'[q]) \subseteq ToSet(consumers[q])
                               /\ IsInjective(consumers'[q]),
             starts' = starts,
             \A p \in Processes : /\ calls'[p] \subseteq calls[p]
                                  /\ connected'[p] = connected[p]
      PROVE  ConsumersAreSingle' /\ ConsumersAreConnected'
  <2>1. ASSUME NEW q \in Queues, NEW s \in ToSet(consumers'[q])
        PROVE  /\ connected'[s.process] /\ s.nth <= starts'
               /\ \A call \in calls'[s.process] :
                    Subscribing(call) /\ call.setup = s => call.step = "note"
    BY <1>1, <1>2, <1>3 DEF ConsumersAreConnected
  <2> QED
    BY <1>3, <2>1 DEF ConsumersAreSingle, ConsumersAreConnected, Subscribing
<1>4. ASSUME NEW p \in Processes, consumers' = consumers,
             \A o \in Processes : connected[o] => connected'[o],
             starts' \in {starts, starts + 1},
             \A o \in Processes \ {p} : calls'[o] = calls[o],
             \A x \in calls'[p] :
               \/ x \in calls[p]
               \/ \A q \in Queues : \A s \in ToSet(consumers[q]) :
                    s.process = p => ~ Subscribing(x) \/ x.setup # s
      PROVE  ConsumersAreSingle' /\ ConsumersAreConnected'
  <2>1. ASSUME NEW q \in Queues, NEW s \in ToSet(consumers[q])
        PROVE  /\ connected'[s.process] /\ s.nth <= starts'
               /\ \A call \in calls'[s.process] :
                    Subscribing(call) /\ call.setup = s => call.step = "note"
    <3>1. /\ s.process \in Processes /\ s.nth \in Nat
          /\ connected[s.process] /\ s.nth <= starts
          /\ \A call \in calls[s.process] :
               Subscribing(call) /\ call.setup = s => call.step = "note"
      BY <1>1, <1>2 DEF ConsumersAreConnected
    <3>2. s.nth <= starts'
      BY <1>1, <1>4, <3>1
    <3> QED
      BY <1>4, <3>1, <3>2
  <2> QED
    BY <1>1, <1>4, <2>1
    DEF ConsumersAreSingle, ConsumersAreConnected, Subscribing
<1>5. ASSUME NEW p \in Processes, Start(p)
      PROVE  ConsumersAreSingle' /\ ConsumersAreConnected'
  <2>1. /\ \A o \in Processes \ {p} : calls'[o] = calls[o]
        /\ \A x \in calls'[p] : x \in calls[p] \/ x = StartCall(NewSetup(p))
    BY <1>1, <1>5, Started
  <2>2. consumers' = consumers /\ connected' = connected /\ starts' = starts + 1
    BY <1>5 DEF Start, brokerVars
  <2>3. NewSetup(p).nth = starts + 1
    BY DEF NewSetup
  <2>4. \A q \in Queues : \A s \in ToSet(consumers[q]) : s # NewSetup(p)
    BY <1>1, <1>2, <2>3 DEF ConsumersAreConnected
  <2> QED
    BY <1>4, <2>1, <2>2, <2>4, CallFields
<1>6. ASSUME NEW p \in Processes, Stop(p)
      PROVE  ConsumersAreSingle' /\ ConsumersAreConnected'
  <2>1. /\ \A o \in Processes \ {p} : calls'[o] = calls[o]
        /\ \A x \in calls'[p] : x \in calls[p] \/ x = StopCall(p)
    BY <1>1, <1>6, StoppedCases
  <2>2. consumers' = consumers /\ connected' = connected /\ starts' = starts
    BY <1>6 DEF Stop, brokerVars
  <2>3. ~ Subscribing(StopCall(p))
    BY CallFields DEF Subscribing
  <2> QED
    BY <1>4, <2>1, <2>2, <2>3
<1>7. ASSUME NEW p \in Processes, NEW call \in calls[p], Bind(p, call)
      PROVE  ConsumersAreSingle' /\ ConsumersAreConnected'
  <2>1. /\ call.step = "bind" /\ Proceed(p, call, "consume")
        /\ UNCHANGED <<consumers, connected, starts>>
    BY <1>7 DEF Bind
  <2>2. /\ calls'[p] = (calls[p] \ {call}) \cup {Moved(call, "consume")}
        /\ \A o \in Processes \ {p} : calls'[o] = calls[o]
        /\ Subscribing(call)
    BY <1>1, <2>1, CallProceeds DEF Subscribing
  <2>3. ASSUME NEW q \in Queues, NEW s \in ToSet(consumers[q]), s.process = p
        PROVE  call.setup # s
    BY <1>1, <2>1, <2>2, <2>3 DEF ConsumersAreConnected
  <2>4. Moved(call, "consume").setup = call.setup
    BY DEF Moved
  <2> QED
    BY <1>4, <2>1, <2>2, <2>3, <2>4
<1>8. ASSUME NEW p \in Processes, NEW call \in calls[p], Consume(p, call)
      PROVE  ConsumersAreSingle' /\ ConsumersAreConnected'
  <2> DEFINE s == call.setup
  <2>1. /\ call.step = "consume" /\ Proceed(p, call, "note")
        /\ UNCHANGED <<connected, starts>>
    BY <1>8 DEF Consume
  <2>2. /\ calls'[p] = (calls[p] \ {call}) \cup {Moved(call, "note")}
        /\ \A o \in Processes \ {p} : calls'[o] = calls[o]
        /\ Subscribing(call)
    BY <1>1, <2>1, CallProceeds DEF Subscribing
  <2>3. connected[p] /\ s.process = p /\ s.nth <= starts
    BY <1>1 DEF SetupsRunOnce, SetupsAreOwned, OwnedBy
  <2>4. \A q \in Queues : s \notin ToSet(consumers[q])
    BY <1>1, <2>1, <2>2, <2>3 DEF ConsumersAreConnected
  <2>5. \A q \in Queues :
           /\ \A x \in ToSet(consumers'[q]) : x \in ToSet(consumers[q]) \/ x = s
           /\ IsInjective(consumers'[q])
    BY <1>1, <1>8, <2>4, ConsumerAdded DEF ConsumersAreSingle
  <2>6. /\ Moved(call, "note").setup = s
        /\ Moved(call, "note").step = "note"
    BY DEF Moved
  <2>7. \A a \in calls[p] \ {call} : Subscribing(a) => a.setup # s
    BY <1>1, <2>2 DEF SetupsRunOnce
  <2> HIDE DEF s
  <2>8. ASSUME NEW q \in Queues, NEW x \in ToSet(consumers'[q])
        PROVE  /\ connected'[x.process] /\ x.nth <= starts'
               /\ \A a \in calls'[x.process] :
                    Subscribing(a) /\ a.setup = x => a.step = "note"
    <3>1. CASE x = s
      BY <2>1, <2>2, <2>3, <2>6, <2>7, <3>1
    <3>2. CASE x \in ToSet(consumers[q]) /\ x # s
      <4>1. /\ x.process \in Processes /\ connected[x.process]
            /\ x.nth <= starts
            /\ \A a \in calls[x.process] :
                 Subscribing(a) /\ a.setup = x => a.step = "note"
        BY <1>1, <1>2, <3>2 DEF ConsumersAreConnected
      <4>2. \A a \in calls'[x.process] :
               a \in calls[x.process] \/ a = Moved(call, "note")
        BY <2>2, <4>1
      <4> QED
        BY <2>1, <2>6, <3>2, <4>1, <4>2
    <3> QED
      BY <2>5, <3>1, <3>2
  <2> QED
    BY <2>5, <2>8 DEF ConsumersAreSingle, ConsumersAreConnected, Subscribing
<1>9. ASSUME NEW p \in Processes, NEW call \in calls[p],
             Subscribed(p, call) \/ Unsubscribed(p, call)
      PROVE  ConsumersAreSingle' /\ ConsumersAreConnected'
  <2>1. \A q \in Queues :
           /\ ToSet(consumers'[q]) \subseteq ToSet(consumers[q])
           /\ IsInjective(consumers'[q])
    <3>1. CASE Subscribed(p, call)
      <4>1. consumers' = consumers
        BY <3>1 DEF Subscribed, brokerVars
      <4> QED
        BY <1>1, <4>1 DEF ConsumersAreSingle
    <3>2. CASE Unsubscribed(p, call)
      BY <1>1, <3>2, ConsumerCancelled DEF ConsumersAreSingle
    <3> QED
      BY <1>9, <3>1, <3>2
  <2>2. /\ starts' = starts /\ connected' = connected
        /\ calls' = [calls EXCEPT ![p] = @ \ {call}]
    BY <1>9 DEF Subscribed, Unsubscribed
  <2>3. \A o \in Processes : calls'[o] \subseteq calls[o]
    BY <1>1, <2>2 DEF TypeOK
  <2> QED
    BY <1>3, <2>1, <2>2, <2>3
<1>10. ASSUME NEW p \in Processes, Connect(p)
       PROVE  ConsumersAreSingle' /\ ConsumersAreConnected'
  <2>1. /\ ~ connected[p]
        /\ UNCHANGED <<consumers, starts>>
        /\ connected' = [connected EXCEPT ![p] = TRUE]
    BY <1>10 DEF Connect, brokerVars
  <2>2. \A o \in Processes : connected[o] => connected'[o]
    BY <1>1, <2>1 DEF TypeOK
  <2>3. \A o \in Processes \ {p} : calls'[o] = calls[o]
    BY <1>1, <1>10, SetupsRerun
  <2>4. \A q \in Queues : \A s \in ToSet(consumers[q]) : s.process # p
    BY <1>1, <2>1 DEF ConsumersAreConnected
  <2> QED
    BY <1>4, <2>1, <2>2, <2>3, <2>4
<1>11. ASSUME NEW p \in Processes, CloseChannel(p), starts' = starts
       PROVE  ConsumersAreSingle' /\ ConsumersAreConnected'
  <2>1. \A q \in Queues :
           /\ ToSet(consumers'[q]) = {s \in ToSet(consumers[q]) : s.process # p}
           /\ IsInjective(consumers[q]) => IsInjective(consumers'[q])
    BY <1>1, <1>11, ChannelClosed
  <2>2. \A o \in Processes \ {p} : /\ calls'[o] = calls[o]
                                   /\ connected'[o] = connected[o]
    BY <1>1, <1>11 DEF CloseChannel, TypeOK
  <2>3. ASSUME NEW q \in Queues, NEW x \in ToSet(consumers'[q])
        PROVE  /\ connected'[x.process] /\ x.nth <= starts'
               /\ \A a \in calls'[x.process] :
                    Subscribing(a) /\ a.setup = x => a.step = "note"
    <3>1. x \in ToSet(consumers[q]) /\ x.process # p
      BY <2>1
    <3> QED
      BY <1>1, <1>2, <1>11, <2>2, <3>1 DEF ConsumersAreConnected
  <2> QED
    BY <1>1, <2>1, <2>3
    DEF ConsumersAreSingle, ConsumersAreConnected, Subscribing
<1>12. ASSUME \/ \E p \in Processes : Lose(p) \/ Crash(p)
              \/ \E d \in deliveries : AcknowledgeTooLate(d)
       PROVE  ConsumersAreSingle' /\ ConsumersAreConnected'
  <2>1. \A d \in deliveries : d.setup.process \in Processes
    BY <1>1 DEF TypeOK, Setup
  <2> QED
    BY <1>11, <1>12, <2>1 DEF Lose, Crash, AcknowledgeTooLate, End
<1>13. CASE \/ \E p \in Processes, c \in Commands :
                 Schedule(p, c) \/ Arrive(p, c) \/ Confirm(p, c)
            \/ \E m \in exchange : Route(m)
            \/ \E q \in Queues : \E m \in ready[q] : Deliver(q, m)
            \/ \E d \in deliveries : Acknowledge(d)
            \/ UNCHANGED vars
  <2>1. UNCHANGED <<calls, connected, starts, consumers>>
    BY <1>13
    DEF Schedule, Arrive, Confirm, Route, Deliver, Acknowledge, vars,
        processVars, brokerVars
  <2> QED
    BY <1>1, <1>3, <2>1 DEF ConsumersAreSingle
<1> QED
  BY <1>5, <1>6, <1>7, <1>8, <1>9, <1>10, <1>12, <1>13, Steps

\* What is in a call.
LEMMA AtFields ==
    /\ \A kind, s, step : /\ At(kind, s, step).kind = kind
                          /\ At(kind, s, step).setup = s
                          /\ At(kind, s, step).step = step
    /\ \A s : /\ StartCall(s) = At("start", s, "bind")
              /\ SetupCall(s) = At("setup", s, "bind")
    /\ \A p : StopCall(p) = At("stop", tags[p],
                               IF p \in fresh THEN "cancel" ELSE "skip")
    /\ \A call, step : Moved(call, step) = At(call.kind, call.setup, step)
  BY DEF At, StartCall, SetupCall, StopCall, Moved

\* What a process is waiting for and what it has stays as it is.
SameFor(o) == /\ running'[o] = running[o]
              /\ calls'[o] = calls[o]
              /\ setups'[o] = setups[o]
              /\ consumerCount'[o] = consumerCount[o]
              /\ tags'[o] = tags[o]
              /\ connected'[o] = connected[o]
              /\ (o \in fresh' <=> o \in fresh)
              /\ (o \in overtaken' <=> o \in overtaken)
              /\ Consuming(o)' = Consuming(o)

\* A process that is orderly stays so.
LEMMA OrderlyStays ==
    ASSUME NEW o \in Processes, Orderly(o), SameFor(o)
    PROVE  Orderly(o)'
<1>1. LeftOver(o)' = LeftOver(o)
  BY DEF SameFor, LeftOver
<1>2. \A run, awaited, kept, count, consuming :
         Phase(o, run, awaited, kept, count, consuming)
           => Phase(o, run, awaited, kept, count, consuming)'
  BY DEF SameFor, Phase
<1>3. ASSUME NEW left
      PROVE  IsStopped(o, left) => IsStopped(o, left)'
  BY <1>2 DEF IsStopped
<1>4. ASSUME NEW s \in Shared, NEW left
      PROVE  /\ \A step : IsStarting(o, s, step, left)
                            => IsStarting(o, s, step, left)'
             /\ IsServing(o, s, left) => IsServing(o, s, left)'
             /\ IsStopping(o, s, left) => IsStopping(o, s, left)'
  BY <1>2 DEF IsStarting, IsServing, IsStopping, SameFor
<1>5. ASSUME NEW s \in Shared
      PROVE  /\ \A step : IsSettingUp(o, s, step) => IsSettingUp(o, s, step)'
             /\ \A step : IsOvertaken(o, s, step) => IsOvertaken(o, s, step)'
             /\ IsSkipping(o, s) => IsSkipping(o, s)'
  BY <1>2 DEF IsSettingUp, IsOvertaken, IsSkipping, SameFor
<1> QED
  BY <1>1, <1>3, <1>4, <1>5 DEF Orderly

\* It is enough that a step keeps the process orderly that takes it.
LEMMA OrderlyForOne ==
    ASSUME CalmIsOrderly, NEW p \in Processes, troubled \subseteq troubled',
           \A o \in Processes \ {p} : SameFor(o),
           p \notin troubled' => Orderly(p)'
    PROVE  CalmIsOrderly'
<1>1. ASSUME NEW o \in Processes, o \notin troubled', o # p
      PROVE  Orderly(o)'
  BY <1>1, OrderlyStays DEF CalmIsOrderly
<1>2. \A o \in Processes : o \notin troubled' => Orderly(o)'
  BY <1>1
<1> QED
  BY <1>2 DEF CalmIsOrderly

\* A setup that has come as far as its consumer adds it to those of its process.
LEMMA SetupConsumes ==
    ASSUME TypeOK, NEW p \in Processes, NEW call \in calls[p],
           Consume(p, call), call.setup.process = p
    PROVE  /\ \A o \in Processes \ {p} : Consuming(o)' = Consuming(o)
           /\ Consuming(p)' = Consuming(p) \cup {call.setup}
<1>1. /\ call.setup \in Setup
      /\ \A q \in Queues : ToSet(consumers'[q]) =
                             IF q = call.setup.queue
                             THEN ToSet(consumers[q]) \cup {call.setup}
                             ELSE ToSet(consumers[q])
  BY ConsumerAdded
<1>2. \A s \in Setup : s \in ToSet(consumers'[s.queue])
                         <=> s \in ToSet(consumers[s.queue]) \/ s = call.setup
  <2> TAKE s \in Setup
  <2>1. s.queue \in Queues
    BY DEF Setup
  <2>2. CASE s.queue = call.setup.queue
    BY <1>1, <2>1, <2>2
  <2>3. CASE s.queue # call.setup.queue
    BY <1>1, <2>1, <2>3
  <2> QED
    BY <2>2, <2>3
<1> QED
  BY <1>1, <1>2 DEF Consuming

\* A channel that is closed leaves its process without consumers.
LEMMA ClosedChannelConsumes ==
    ASSUME TypeOK, NEW p \in Processes, CloseChannel(p)
    PROVE  /\ \A o \in Processes \ {p} : Consuming(o)' = Consuming(o)
           /\ Consuming(p)' = {}
<1>1. \A q \in Queues : ToSet(consumers'[q]) =
                          {s \in ToSet(consumers[q]) : s.process # p}
  BY ChannelClosed
<1>2. \A s \in Setup : s \in ToSet(consumers'[s.queue])
                         <=> s \in ToSet(consumers[s.queue]) /\ s.process # p
  BY <1>1 DEF Setup
<1> QED
  BY <1>2 DEF Consuming

\* A consumer that is cancelled is no longer among those of its process; a call
\* of stop with the tag of another channel cancels none.
LEMMA CancelledConsumes ==
    ASSUME TypeOK, NEW p \in Processes, NEW call \in calls[p],
           Unsubscribed(p, call), call.setup.process = p
    PROVE  /\ \A o \in Processes \ {p} : Consuming(o)' = Consuming(o)
           /\ Consuming(p)' = IF call.step = "cancel"
                              THEN Consuming(p) \ {call.setup}
                              ELSE Consuming(p)
<1>1. \A q \in Queues :
         ToSet(consumers'[q]) =
           IF call.step = "cancel" /\ q = call.setup.queue
           THEN ToSet(consumers[q]) \ {call.setup}
           ELSE ToSet(consumers[q])
  BY ConsumerCancelled
<1>2. \A s \in Setup : s \in ToSet(consumers'[s.queue])
                         <=> /\ s \in ToSet(consumers[s.queue])
                             /\ call.step = "cancel" => s # call.setup
  <2> TAKE s \in Setup
  <2>1. s.queue \in Queues
    BY DEF Setup
  <2>2. CASE s.queue = call.setup.queue
    BY <1>1, <2>1, <2>2
  <2>3. CASE s.queue # call.setup.queue
    BY <1>1, <2>1, <2>3
  <2> QED
    BY <2>2, <2>3
<1>3. CASE call.step = "cancel"
  BY <1>2, <1>3 DEF Consuming
<1>4. CASE call.step # "cancel"
  BY <1>2, <1>4 DEF Consuming
<1> QED
  BY <1>3, <1>4

\* What is known of a calm process in any state, and of one without a channel.
LEMMA CalmFacts ==
    ASSUME Calm, NEW p \in Processes
    PROVE  /\ TypeOK /\ Counters /\ SetupsAreOwned /\ SetupsRunOnce
           /\ ConsumersAreConnected /\ CalmIsOrderly
           /\ p \notin troubled => Orderly(p)
           /\ ~ connected[p] => /\ calls[p] = {}
                                /\ p \notin fresh
                                /\ p \notin overtaken
                                /\ LeftOver(p) = {{}}
           /\ setups \in [Processes -> SUBSET Setup]
           /\ calls \in [Processes -> SUBSET Call]
           /\ consumerCount \in [Processes -> Queues]
           /\ running \in [Processes -> BOOLEAN]
           /\ connected \in [Processes -> BOOLEAN]
           /\ tags \in [Processes -> Setup \cup {NoSetup}]
           /\ \A call \in calls[p] : call.setup.process = p
BY DEF Calm, Held, Bounded, CalmIsOrderly, SetupsRunOnce, LeftOver, TypeOK,
       SetupsAreOwned, OwnedBy

\* What a process waits for in its states.
LEMMA PhaseCalls ==
    ASSUME NEW p, Orderly(p)
    PROVE  /\ calls[p] = {} =>
                \/ \E left \in LeftOver(p) : IsStopped(p, left)
                \/ \E s \in Shared : \E left \in LeftOver(p) :
                     s \notin left /\ IsServing(p, s, left)
           /\ SettingUp(p) # {} =>
                \E s \in Shared, step \in {"bind", "consume", "note"} :
                    IsSettingUp(p, s, step) \/ IsOvertaken(p, s, step)
           /\ Awaited(p) = {} =>
                \/ \E left \in LeftOver(p) : IsStopped(p, left)
                \/ \E s \in Shared : \E left \in LeftOver(p) :
                     s \notin left /\ IsServing(p, s, left)
                \/ \E s \in Shared, step \in {"bind", "consume", "note"} :
                     IsSettingUp(p, s, step)
<1>1. ASSUME NEW left, IsStopped(p, left) PROVE calls[p] = {}
  BY <1>1 DEF IsStopped, Phase
<1>2. ASSUME NEW s, NEW left, IsServing(p, s, left) PROVE calls[p] = {}
  BY <1>2 DEF IsServing, Phase
<1>3. ASSUME NEW s, NEW step, NEW left,
             IsStarting(p, s, step, left) \/ IsStopping(p, s, left)
      PROVE  calls[p] # {} /\ SettingUp(p) = {} /\ Awaited(p) # {}
  <2>1. PICK call : calls[p] = {call} /\ call.kind # "setup"
    BY <1>3, AtFields DEF IsStarting, IsStopping, Phase
  <2> QED
    BY <2>1 DEF SettingUp, Awaited
<1>4. ASSUME NEW s, NEW step, IsOvertaken(p, s, step)
      PROVE  calls[p] # {} /\ Awaited(p) # {}
  <2>1. PICK call \in calls[p] : call.kind = "stop"
    BY <1>4, AtFields DEF IsOvertaken, Phase
  <2> QED
    BY <2>1 DEF SettingUp, Awaited
<1>5. ASSUME NEW s, IsSkipping(p, s)
      PROVE  calls[p] # {} /\ SettingUp(p) = {} /\ Awaited(p) # {}
  <2>1. PICK call : calls[p] = {call} /\ call.kind # "setup"
    BY <1>5, AtFields DEF IsSkipping, Phase
  <2> QED
    BY <2>1 DEF SettingUp, Awaited
<1>6. ASSUME NEW s, NEW step, IsSettingUp(p, s, step) PROVE calls[p] # {}
  BY <1>6 DEF IsSettingUp, Phase
<1>7. calls[p] = {} => SettingUp(p) = {}
  BY DEF SettingUp
<1> QED
  BY <1>1, <1>2, <1>3, <1>4, <1>5, <1>6, <1>7 DEF Orderly

\* A stopped process is started.
LEMMA StartIsOrderly ==
    ASSUME Calm, NEW p \in Processes, Start(p)
    PROVE  CalmIsOrderly'
<1> PICK s : s = NewSetup(p)
  OBVIOUS
<1>1. /\ s \in Setup /\ s.queue = consumerCount[p] /\ s.nth = starts + 1
      /\ \A o \in Processes \ {p} :
           /\ setups'[o] = setups[o]
           /\ calls'[o] = calls[o]
           /\ consumerCount'[o] = consumerCount[o]
      /\ setups'[p] = setups[p] \cup {s}
      /\ \/ /\ connected[p]
            /\ calls'[p] = calls[p] \cup {At("start", s, "bind")}
            /\ consumerCount'[p] = consumerCount[p]
         \/ /\ ~ connected[p]
            /\ calls'[p] = calls[p]
            /\ consumerCount'[p] = consumerCount[p] + 1
  <2>1. s.queue = consumerCount[p] /\ s.nth = starts + 1
    BY DEF NewSetup
  <2> QED
    BY <2>1, CalmFacts, Started, AtFields
<1>2. /\ ~ running[p]
      /\ running' = [running EXCEPT ![p] = TRUE]
      /\ UNCHANGED <<tags, connected, fresh, overtaken, consumers>>
      /\ troubled' = IF Awaited(p) # {} THEN troubled \cup {p} ELSE troubled
  BY DEF Start, brokerVars
<1>3. \A o : /\ Consuming(o)' = Consuming(o)
             /\ LeftOver(o)' = LeftOver(o)
  BY <1>2 DEF Consuming, LeftOver
<1>4. \A x \in Consuming(p) : x.nth <= starts
  BY CalmFacts DEF Consuming, ConsumersAreConnected, Setup
<1>5. \A o \in Processes \ {p} : SameFor(o)
  BY <1>1, <1>2, <1>3, CalmFacts DEF SameFor
<1>6. ASSUME p \notin troubled' PROVE Orderly(p)'
  <2>1. Orderly(p) /\ Awaited(p) = {}
    BY <1>2, <1>6, CalmFacts
  <2>2. PICK left \in LeftOver(p) : IsStopped(p, left)
    BY <1>2, <2>1, PhaseCalls DEF IsServing, IsSettingUp, Phase
  <2>3. /\ running'[p] /\ Consuming(p)' = left /\ setups'[p] = {s}
        /\ calls[p] = {} /\ consumerCount[p] = 0 /\ left \in LeftOver(p)'
        /\ connected'[p] = connected[p]
    BY <1>1, <1>2, <1>3, <2>2, CalmFacts DEF IsStopped, Phase
  <2>4. s \in Shared
    BY <1>1, <2>3 DEF Shared
  <2>5. s \notin left
    <3>1. starts \in Nat
      BY AmqpSchedulerAssumption, CalmFacts DEF Counters
    <3>2. \A x \in left : x.nth <= starts
      BY <1>3, <1>4, <2>3
    <3> QED
      BY <1>1, <3>1, <3>2
  <2>6. CASE connected[p]
    <3>1. /\ calls'[p] = {At("start", s, "bind")}
          /\ consumerCount'[p] = 0
      BY <1>1, <2>3, <2>6
    <3>2. IsStarting(p, s, "bind", left)'
      BY <2>3, <3>1 DEF IsStarting, Phase, Made
    <3> QED
      BY <2>3, <2>4, <2>5, <3>2 DEF Orderly
  <2>7. CASE ~ connected[p]
    <3>1. calls'[p] = {} /\ consumerCount'[p] = 1 /\ left = {}
      BY <1>1, <2>3, <2>7, CalmFacts
    <3>2. IsServing(p, s, left)'
      BY <2>3, <2>7, <3>1 DEF IsServing, Phase
    <3> QED
      BY <2>3, <2>4, <2>5, <3>2 DEF Orderly
  <2> QED
    BY <2>6, <2>7
<1>7. troubled \subseteq troubled'
  BY <1>2
<1> QED
  BY <1>5, <1>6, <1>7, CalmFacts, OrderlyForOne

\* A process that serves is stopped, or one whose setup runs anew.
LEMMA StopIsOrderly ==
    ASSUME Calm, NEW p \in Processes, Stop(p)
    PROVE  CalmIsOrderly'
<1>1. /\ running[p]
      /\ running' = [running EXCEPT ![p] = FALSE]
      /\ UNCHANGED <<tags, connected, fresh, consumers>>
      /\ troubled' = IF Settled(p) THEN troubled ELSE troubled \cup {p}
      /\ overtaken' = IF SettingUp(p) # {} THEN overtaken \cup {p}
                      ELSE overtaken
  BY DEF Stop, brokerVars
<1>2. tags[p] \in Setup => tags[p] # NoSetup
  BY DEF Setup, NoSetup
<1>3. /\ \A o \in Processes \ {p} :
           /\ setups'[o] = setups[o]
           /\ calls'[o] = calls[o]
           /\ consumerCount'[o] = consumerCount[o]
      /\ tags[p] \in Setup =>
           /\ setups'[p] = setups[p] \ {tags[p]}
           /\ \/ /\ connected[p]
                 /\ calls'[p] = calls[p] \cup {StopCall(p)}
                 /\ consumerCount'[p] = consumerCount[p]
              \/ /\ ~ connected[p]
                 /\ calls'[p] = calls[p]
                 /\ consumerCount'[p] = consumerCount[p] - 1
  BY <1>2, CalmFacts, StoppedCases
<1>4. \A o : Consuming(o)' = Consuming(o)
  BY <1>1 DEF Consuming
<1>5. \A o \in Processes \ {p} : SameFor(o)
  BY <1>1, <1>3, <1>4, CalmFacts DEF SameFor
<1>6. ASSUME p \notin troubled' PROVE Orderly(p)'
  <2>1. /\ Orderly(p) /\ Awaited(p) = {} /\ tags[p] \in setups[p]
        /\ tags[p] \in Setup
    BY <1>1, <1>6, CalmFacts DEF Settled
  <2>2. /\ ~ running'[p] /\ Consuming(p)' = Consuming(p)
        /\ connected'[p] = connected[p]
    BY <1>1, <1>4, CalmFacts
  <2>3. ASSUME NEW s \in Shared, NEW left \in LeftOver(p), s \notin left,
               IsServing(p, s, left)
        PROVE  Orderly(p)'
    <3>1. /\ tags[p] = s /\ setups'[p] = {} /\ calls[p] = {}
          /\ consumerCount[p] = 1
      BY <1>3, <2>1, <2>3 DEF IsServing, Phase
    <3>2. /\ SettingUp(p) = {}
          /\ left \in LeftOver(p)'
      BY <1>1, <3>1 DEF SettingUp, LeftOver
    <3>3. CASE connected[p]
      <4>1. /\ calls'[p] = {At("stop", s, "cancel")} /\ consumerCount'[p] = 1
            /\ Consuming(p)' = left \cup {s}
        BY <1>3, <2>1, <2>2, <2>3, <3>1, <3>3, AtFields DEF IsServing, Phase
      <4>2. IsStopping(p, s, left)'
        BY <2>2, <3>1, <4>1 DEF IsStopping, Phase
      <4> QED
        BY <2>3, <3>2, <4>2 DEF Orderly
    <3>4. CASE ~ connected[p]
      <4>1. /\ calls'[p] = {} /\ consumerCount'[p] = 0
            /\ Consuming(p)' = {} /\ left = {}
        BY <1>3, <2>1, <2>2, <2>3, <3>1, <3>4, CalmFacts DEF IsServing, Phase
      <4>2. IsStopped(p, left)'
        BY <2>2, <3>1, <4>1 DEF IsStopped, Phase
      <4> QED
        BY <3>2, <4>2 DEF Orderly
    <3> QED
      BY <3>3, <3>4
  <2>4. ASSUME NEW s \in Shared, NEW step \in {"bind", "consume", "note"},
               IsSettingUp(p, s, step)
        PROVE  Orderly(p)'
    <3>1. /\ tags[p] = s /\ setups'[p] = {} /\ p \notin fresh
          /\ calls[p] = {At("setup", s, step)}
          /\ consumerCount[p] = 1
          /\ Consuming(p)' = Made(s, step)
      BY <1>3, <2>1, <2>2, <2>4 DEF IsSettingUp, Phase
    <3>2. connected[p] /\ SettingUp(p) # {}
      BY <3>1, CalmFacts, AtFields DEF SettingUp
    <3>3. /\ calls'[p] = {At("setup", s, step), At("stop", s, "skip")}
          /\ consumerCount'[p] = 1
      BY <1>3, <2>1, <3>1, <3>2, AtFields
    <3>4. IsOvertaken(p, s, step)'
      BY <1>1, <2>2, <3>1, <3>2, <3>3 DEF IsOvertaken, Phase
    <3> QED
      BY <3>4 DEF Orderly
  <2>5. ~ \E left \in LeftOver(p) : IsStopped(p, left)
    BY <1>1 DEF IsStopped, Phase
  <2> QED
    BY <2>1, <2>3, <2>4, <2>5, PhaseCalls
<1>7. troubled \subseteq troubled'
  BY <1>1
<1> QED
  BY <1>5, <1>6, <1>7, CalmFacts, OrderlyForOne

\* A setup that is under way in a calm process.
LEMMA PhaseSetup ==
    ASSUME NEW p, Orderly(p), NEW call \in calls[p], Subscribing(call)
    PROVE  \E s \in Shared, step \in {"bind", "consume", "note"} :
             /\ call.setup = s /\ call.step = step
             /\ \/ \E left \in LeftOver(p) :
                     /\ s \notin left
                     /\ call = At("start", s, step)
                     /\ IsStarting(p, s, step, left)
                \/ /\ call = At("setup", s, step)
                   /\ IsSettingUp(p, s, step) \/ IsOvertaken(p, s, step)
<1>1. \A s, left : IsStopped(p, left) \/ IsServing(p, s, left) => FALSE
  BY DEF IsStopped, IsServing, Phase
<1>2. \A s, left : ~ IsStopping(p, s, left) /\ ~ IsSkipping(p, s)
  BY AtFields DEF IsStopping, IsSkipping, Phase, Subscribing
<1>3. ASSUME NEW s, NEW step, NEW left, IsStarting(p, s, step, left)
      PROVE  call = At("start", s, step)
  BY <1>3 DEF IsStarting, Phase
<1>4. ASSUME NEW s, NEW step, IsSettingUp(p, s, step) \/ IsOvertaken(p, s, step)
      PROVE  call = At("setup", s, step)
  BY <1>4, AtFields DEF IsSettingUp, IsOvertaken, Phase, Subscribing
<1>5. \/ \E s \in Shared : \E left \in LeftOver(p) :
           \E step \in {"bind", "consume", "note"} :
             s \notin left /\ IsStarting(p, s, step, left)
      \/ \E s \in Shared : \E step \in {"bind", "consume", "note"} :
             IsSettingUp(p, s, step) \/ IsOvertaken(p, s, step)
  BY <1>1, <1>2 DEF Orderly
<1> QED
  BY <1>3, <1>4, <1>5, AtFields

\* A setup that comes one step further.
LEMMA ProceedIsOrderly ==
    ASSUME Calm, NEW p \in Processes, NEW call \in calls[p],
           Bind(p, call) \/ Consume(p, call)
    PROVE  CalmIsOrderly'
<1>1. /\ UNCHANGED <<running, consumerCount, setups, tags, fresh, connected,
                     troubled, overtaken>>
      /\ \/ /\ call.step = "bind" /\ Proceed(p, call, "consume")
            /\ consumers' = consumers
         \/ call.step = "consume" /\ Proceed(p, call, "note")
  BY DEF Bind, Consume
<1>2. PICK next \in {"consume", "note"} :
         /\ Proceed(p, call, next)
         /\ \/ call.step = "bind" /\ next = "consume" /\ consumers' = consumers
            \/ call.step = "consume" /\ next = "note"
  BY <1>1
<1>3. /\ calls'[p] = (calls[p] \ {call}) \cup {At(call.kind, call.setup, next)}
      /\ \A o \in Processes \ {p} : calls'[o] = calls[o]
      /\ Subscribing(call)
  BY <1>2, CalmFacts, CallProceeds, AtFields DEF Subscribing
<1>4. /\ \A o \in Processes \ {p} : Consuming(o)' = Consuming(o)
      /\ Consuming(p)' = Consuming(p) \cup Made(call.setup, next)
  <2>1. CASE consumers' = consumers /\ next = "consume"
    BY <2>1 DEF Consuming, Made
  <2>2. CASE call.step = "consume" /\ next = "note"
    <3>1. Consume(p, call)
      BY <2>2 DEF Bind
    <3> QED
      BY <2>2, <3>1, CalmFacts, SetupConsumes DEF Made
  <2> QED
    BY <1>2, <2>1, <2>2
<1>5. \A o \in Processes \ {p} : SameFor(o)
  BY <1>1, <1>3, <1>4 DEF SameFor
<1>6. ASSUME p \notin troubled PROVE Orderly(p)'
  <2>1. PICK s \in Shared, step \in {"bind", "consume", "note"} :
           /\ call.setup = s /\ call.step = step
           /\ \/ \E left \in LeftOver(p) :
                   /\ s \notin left
                   /\ call = At("start", s, step)
                   /\ IsStarting(p, s, step, left)
              \/ /\ call = At("setup", s, step)
                 /\ IsSettingUp(p, s, step) \/ IsOvertaken(p, s, step)
    BY <1>3, <1>6, CalmFacts, PhaseSetup
  <2>2. /\ running'[p] = running[p] /\ setups'[p] = setups[p]
        /\ consumerCount'[p] = consumerCount[p]
        /\ (p \in fresh' <=> p \in fresh)
        /\ (p \in overtaken' <=> p \in overtaken)
        /\ LeftOver(p)' = LeftOver(p)
        /\ Consuming(p)' = Consuming(p) \cup Made(s, next)
        /\ Made(s, step) = {}
    BY <1>1, <1>2, <1>4, <2>1 DEF LeftOver, Made
  <2>3. ASSUME NEW left \in LeftOver(p), s \notin left,
               call = At("start", s, step), IsStarting(p, s, step, left)
        PROVE  Orderly(p)'
    <3>1. calls'[p] = {At("start", s, next)}
      BY <1>3, <2>3, AtFields DEF IsStarting, Phase
    <3>2. IsStarting(p, s, next, left)'
      BY <2>2, <2>3, <3>1 DEF IsStarting, Phase
    <3> QED
      BY <2>2, <2>3, <3>2 DEF Orderly
  <2>4. ASSUME call = At("setup", s, step), IsSettingUp(p, s, step)
        PROVE  Orderly(p)'
    <3>1. calls'[p] = {At("setup", s, next)}
      BY <1>3, <2>4, AtFields DEF IsSettingUp, Phase
    <3>2. IsSettingUp(p, s, next)'
      BY <2>2, <2>4, <3>1 DEF IsSettingUp, Phase
    <3> QED
      BY <3>2 DEF Orderly
  <2>5. ASSUME call = At("setup", s, step), IsOvertaken(p, s, step)
        PROVE  Orderly(p)'
    <3>1. calls'[p] = {At("setup", s, next), At("stop", s, "skip")}
      BY <1>3, <2>5, AtFields DEF IsOvertaken, Phase
    <3>2. IsOvertaken(p, s, next)'
      BY <2>2, <2>5, <3>1 DEF IsOvertaken, Phase
    <3> QED
      BY <3>2 DEF Orderly
  <2> QED
    BY <2>1, <2>3, <2>4, <2>5
<1> QED
  BY <1>1, <1>5, <1>6, CalmFacts, OrderlyForOne

\* A setup whose consumer is noted.
LEMMA SubscribedIsOrderly ==
    ASSUME Calm, NEW p \in Processes, NEW call \in calls[p],
           Subscribed(p, call)
    PROVE  CalmIsOrderly'
<1>1. /\ UNCHANGED <<running, setups, connected, consumers, troubled,
                     overtaken>>
      /\ call.step = "note"
      /\ tags' = [tags EXCEPT ![p] = call.setup]
      /\ fresh' = fresh \cup {p}
      /\ calls' = [calls EXCEPT ![p] = @ \ {call}]
      /\ consumerCount' = IF call.kind = "start"
                          THEN [consumerCount EXCEPT ![p] = @ + 1]
                          ELSE consumerCount
  BY DEF Subscribed, brokerVars
<1>2. Subscribing(call)
  BY <1>1, CalmFacts DEF Subscribing, Call
<1>3. \A o : Consuming(o)' = Consuming(o) /\ LeftOver(o)' = LeftOver(o)
  BY <1>1 DEF Consuming, LeftOver
<1>4. \A o \in Processes \ {p} : SameFor(o)
  BY <1>1, <1>3, CalmFacts DEF SameFor
<1>5. ASSUME p \notin troubled PROVE Orderly(p)'
  <2>1. PICK s \in Shared, step \in {"bind", "consume", "note"} :
           /\ call.setup = s /\ call.step = step
           /\ \/ \E left \in LeftOver(p) :
                   /\ s \notin left
                   /\ call = At("start", s, step)
                   /\ IsStarting(p, s, step, left)
              \/ /\ call = At("setup", s, step)
                 /\ IsSettingUp(p, s, step) \/ IsOvertaken(p, s, step)
    BY <1>2, <1>5, CalmFacts, PhaseSetup
  <2>2. /\ connected[p] /\ connected'[p] = connected[p]
        /\ tags'[p] = s /\ p \in fresh'
        /\ running'[p] = running[p] /\ setups'[p] = setups[p]
        /\ calls'[p] = calls[p] \ {call}
        /\ (p \in overtaken' <=> p \in overtaken)
        /\ Consuming(p)' = Consuming(p) /\ LeftOver(p)' = LeftOver(p)
        /\ Made(s, step) = {s}
    BY <1>1, <1>3, <2>1, CalmFacts DEF Made
  <2>3. ASSUME NEW left \in LeftOver(p), s \notin left,
               call = At("start", s, step), IsStarting(p, s, step, left)
        PROVE  Orderly(p)'
    <3>1. consumerCount'[p] = 1
      BY <1>1, <2>3, AtFields, CalmFacts DEF IsStarting, Phase
    <3>2. IsServing(p, s, left)'
      BY <2>2, <2>3, <3>1 DEF IsStarting, IsServing, Phase
    <3> QED
      BY <2>2, <2>3, <3>2 DEF Orderly
  <2>4. ASSUME call = At("setup", s, step), IsSettingUp(p, s, step)
        PROVE  Orderly(p)'
    <3>1. consumerCount'[p] = 1 /\ {} \in LeftOver(p)'
      BY <1>1, <2>2, <2>4, AtFields DEF IsSettingUp, Phase, LeftOver
    <3>2. IsServing(p, s, {})'
      BY <2>2, <2>4, <3>1 DEF IsSettingUp, IsServing, Phase
    <3> QED
      BY <3>1, <3>2 DEF Orderly
  <2>5. ASSUME call = At("setup", s, step), IsOvertaken(p, s, step)
        PROVE  Orderly(p)'
    <3>1. consumerCount'[p] = 1
      BY <1>1, <2>5, AtFields DEF IsOvertaken, Phase
    <3>2. calls'[p] = {At("stop", s, "skip")}
      BY <2>2, <2>5, AtFields DEF IsOvertaken, Phase
    <3>3. IsSkipping(p, s)'
      BY <2>2, <2>5, <3>1, <3>2 DEF IsOvertaken, IsSkipping, Phase
    <3> QED
      BY <3>3 DEF Orderly
  <2> QED
    BY <2>1, <2>3, <2>4, <2>5
<1> QED
  BY <1>1, <1>4, <1>5, CalmFacts, OrderlyForOne

\* A call of stop that ends, with its consumer or without it.
LEMMA UnsubscribedIsOrderly ==
    ASSUME Calm, NEW p \in Processes, NEW call \in calls[p],
           Unsubscribed(p, call)
    PROVE  CalmIsOrderly'
<1>1. /\ UNCHANGED <<running, setups, tags, fresh, connected, troubled,
                     overtaken>>
      /\ calls' = [calls EXCEPT ![p] = @ \ {call}]
      /\ consumerCount' = [consumerCount EXCEPT ![p] = @ - 1]
      /\ call.kind = "stop"
      /\ SettingUp(p) = {}
  BY DEF Unsubscribed, HasTurn
<1>2. /\ \A o \in Processes \ {p} : Consuming(o)' = Consuming(o)
      /\ Consuming(p)' = IF call.step = "cancel"
                         THEN Consuming(p) \ {call.setup}
                         ELSE Consuming(p)
  BY CalmFacts, CancelledConsumes
<1>3. \A o \in Processes \ {p} : SameFor(o)
  BY <1>1, <1>2, CalmFacts DEF SameFor
<1>4. ASSUME p \notin troubled PROVE Orderly(p)'
  <2>1. Orderly(p)
    BY <1>4, CalmFacts
  <2>2. \/ \E s \in Shared : \E left \in LeftOver(p) :
             s \notin left /\ IsStopping(p, s, left)
        \/ \E s \in Shared : IsSkipping(p, s)
    <3>1. \A s, left : ~ IsStopped(p, left) /\ ~ IsServing(p, s, left)
      BY DEF IsStopped, IsServing, Phase
    <3>2. \A s, step, left : ~ IsStarting(p, s, step, left)
      BY <1>1, AtFields DEF IsStarting, Phase
    <3>3. \A s, step : ~ IsSettingUp(p, s, step) /\ ~ IsOvertaken(p, s, step)
      BY <1>1, AtFields DEF IsSettingUp, IsOvertaken, Phase, SettingUp
    <3> QED
      BY <2>1, <3>1, <3>2, <3>3 DEF Orderly
  <2>3. /\ running'[p] = running[p] /\ setups'[p] = setups[p]
        /\ calls'[p] = calls[p] \ {call}
        /\ consumerCount'[p] = consumerCount[p] - 1
        /\ (p \in overtaken' <=> p \in overtaken)
        /\ LeftOver(p)' = LeftOver(p)
    BY <1>1, CalmFacts DEF LeftOver
  <2>4. ASSUME NEW s \in Shared, NEW left \in LeftOver(p), s \notin left,
               IsStopping(p, s, left)
        PROVE  Orderly(p)'
    <3>1. call = At("stop", s, "cancel")
      BY <2>4 DEF IsStopping, Phase
    <3>2. /\ calls'[p] = {} /\ consumerCount'[p] = 0
          /\ Consuming(p)' = left
      BY <1>2, <2>3, <2>4, <3>1, AtFields DEF IsStopping, Phase
    <3>3. IsStopped(p, left)'
      BY <2>3, <2>4, <3>2 DEF IsStopping, IsStopped, Phase
    <3> QED
      BY <2>3, <3>3 DEF Orderly
  <2>5. ASSUME NEW s \in Shared, IsSkipping(p, s)
        PROVE  Orderly(p)'
    <3>1. call = At("stop", s, "skip")
      BY <2>5 DEF IsSkipping, Phase
    <3>2. /\ calls'[p] = {} /\ consumerCount'[p] = 0
          /\ Consuming(p)' = {s} /\ {s} \in LeftOver(p)'
      BY <1>2, <2>3, <2>5, <3>1, AtFields DEF IsSkipping, Phase, LeftOver
    <3>3. IsStopped(p, {s})'
      BY <2>3, <2>5, <3>2 DEF IsSkipping, IsStopped, Phase
    <3> QED
      BY <3>2, <3>3 DEF Orderly
  <2> QED
    BY <2>2, <2>4, <2>5
<1> QED
  BY <1>1, <1>3, <1>4, CalmFacts, OrderlyForOne

\* A new channel runs the setup anew.
LEMMA ConnectIsOrderly ==
    ASSUME Calm, NEW p \in Processes, Connect(p)
    PROVE  CalmIsOrderly'
<1>1. /\ ~ connected[p]
      /\ connected' = [connected EXCEPT ![p] = TRUE]
      /\ UNCHANGED <<running, consumerCount, setups, tags, fresh, consumers,
                     troubled, overtaken>>
  BY DEF Connect, brokerVars
<1>2. /\ calls'[p] = {SetupCall(s) : s \in setups[p]}
      /\ \A o \in Processes \ {p} : calls'[o] = calls[o]
  BY CalmFacts, SetupsRerun
<1>3. \A o : Consuming(o)' = Consuming(o) /\ LeftOver(o)' = LeftOver(o)
  BY <1>1 DEF Consuming, LeftOver
<1>4. \A o \in Processes \ {p} : SameFor(o)
  BY <1>1, <1>2, <1>3, CalmFacts DEF SameFor
<1>5. ASSUME p \notin troubled PROVE Orderly(p)'
  <2>1. /\ Orderly(p) /\ calls[p] = {} /\ LeftOver(p) = {{}}
        /\ p \notin fresh' /\ p \notin overtaken'
    BY <1>1, <1>5, CalmFacts
  <2>2. CASE \E left \in LeftOver(p) : IsStopped(p, left)
    <3>1. IsStopped(p, {})
      BY <2>1, <2>2
    <3>2. calls'[p] = {}
      BY <1>2, <3>1 DEF IsStopped, Phase
    <3>3. IsStopped(p, {})'
      BY <1>1, <1>3, <3>1, <3>2 DEF IsStopped, Phase
    <3> QED
      BY <1>3, <2>1, <3>3 DEF Orderly
  <2>3. CASE \E s \in Shared : \E left \in LeftOver(p) : IsServing(p, s, left)
    <3>1. PICK s \in Shared : IsServing(p, s, {})
      BY <2>1, <2>3
    <3>2. calls'[p] = {At("setup", s, "bind")}
      BY <1>2, <3>1, AtFields DEF IsServing, Phase
    <3>3. IsSettingUp(p, s, "bind")'
      BY <1>1, <1>3, <2>1, <3>1, <3>2
      DEF IsServing, IsSettingUp, Phase, Made
    <3> QED
      BY <3>3 DEF Orderly
  <2> QED
    BY <2>1, <2>2, <2>3, PhaseCalls
<1> QED
  BY <1>1, <1>4, <1>5, CalmFacts, OrderlyForOne

\* What a channel that is closed leaves of a process.
LEMMA ClosedChannel ==
    ASSUME Calm, NEW p \in Processes, CloseChannel(p)
    PROVE  /\ \A o \in Processes \ {p} :
                /\ Consuming(o)' = Consuming(o)
                /\ calls'[o] = calls[o]
                /\ connected'[o] = connected[o]
                /\ (o \in fresh' <=> o \in fresh)
                /\ (o \in overtaken' <=> o \in overtaken)
           /\ Consuming(p)' = {} /\ calls'[p] = {} /\ ~ connected'[p]
           /\ {} \in LeftOver(p)'
BY CalmFacts, ClosedChannelConsumes DEF CloseChannel, LeftOver

\* A lost channel ends what runs anew on it, and what waits for that.
LEMMA LoseIsOrderly ==
    ASSUME Calm, NEW p \in Processes, Lose(p)
    PROVE  CalmIsOrderly'
<1>1. /\ CloseChannel(p)
      /\ UNCHANGED <<running, setups, tags>>
      /\ consumerCount' =
           IF SettingUp(p) = {} THEN consumerCount
           ELSE [consumerCount EXCEPT ![p] = @ + Number(p, "start")
                                               - Number(p, "stop")]
      /\ troubled' = IF calls[p] # {} /\ SettingUp(p) = {}
                     THEN troubled \cup {p} ELSE troubled
  BY DEF Lose
<1>2. \A o \in Processes \ {p} : SameFor(o)
  BY <1>1, CalmFacts, ClosedChannel DEF SameFor
<1>3. /\ running'[p] = running[p] /\ setups'[p] = setups[p]
      /\ calls'[p] = {} /\ Consuming(p)' = {} /\ ~ connected'[p]
      /\ {} \in LeftOver(p)'
  BY <1>1, ClosedChannel
<1>4. ASSUME NEW s \in Shared, running[p], setups[p] = {s},
             consumerCount'[p] = 1
      PROVE  Orderly(p)'
  <2>1. IsServing(p, s, {})'
    BY <1>3, <1>4 DEF IsServing, Phase
  <2> QED
    BY <1>3, <2>1 DEF Orderly
<1>5. ASSUME ~ running[p], setups[p] = {}, consumerCount'[p] = 0
      PROVE  Orderly(p)'
  <2>1. IsStopped(p, {})'
    BY <1>3, <1>5 DEF IsStopped, Phase
  <2> QED
    BY <1>3, <2>1 DEF Orderly
<1>6. ASSUME p \notin troubled' PROVE Orderly(p)'
  <2>1. Orderly(p) /\ (calls[p] = {} \/ SettingUp(p) # {})
    BY <1>1, <1>6, CalmFacts
  <2>2. CASE calls[p] = {}
    <3>1. SettingUp(p) = {} /\ consumerCount'[p] = consumerCount[p]
      BY <1>1, <2>2 DEF SettingUp
    <3>2. \/ \E left \in LeftOver(p) : IsStopped(p, left)
          \/ \E s \in Shared : \E left \in LeftOver(p) : IsServing(p, s, left)
      BY <2>1, <2>2, PhaseCalls
    <3> QED
      BY <1>4, <1>5, <3>1, <3>2 DEF IsStopped, IsServing, Phase
  <2>3. CASE SettingUp(p) # {}
    <3>1. consumerCount'[p] = consumerCount[p] + Number(p, "start")
                                               - Number(p, "stop")
      BY <1>1, <2>3, CalmFacts
    <3>2. PICK s \in Shared, step \in {"bind", "consume", "note"} :
             IsSettingUp(p, s, step) \/ IsOvertaken(p, s, step)
      BY <2>1, <2>3, PhaseCalls
    <3>3. CASE IsSettingUp(p, s, step)
      <4>1. /\ {call \in calls[p] : call.kind = "start"} = {}
            /\ {call \in calls[p] : call.kind = "stop"} = {}
        BY <3>3, AtFields DEF IsSettingUp, Phase
      <4>2. Number(p, "start") = 0 /\ Number(p, "stop") = 0
        BY <4>1, FS_EmptySet DEF Number
      <4>3. consumerCount'[p] = 1
        BY <3>1, <3>3, <4>2 DEF IsSettingUp, Phase
      <4> QED
        BY <1>4, <3>3, <4>3 DEF IsSettingUp, Phase
    <3>4. CASE IsOvertaken(p, s, step)
      <4>1. /\ {call \in calls[p] : call.kind = "start"} = {}
            /\ {call \in calls[p] : call.kind = "stop"} =
                 {At("stop", s, "skip")}
        BY <3>4, AtFields DEF IsOvertaken, Phase
      <4>2. Number(p, "start") = 0 /\ Number(p, "stop") = 1
        BY <4>1, FS_EmptySet, FS_Singleton DEF Number
      <4>3. consumerCount'[p] = 0
        BY <3>1, <3>4, <4>2 DEF IsOvertaken, Phase
      <4> QED
        BY <1>5, <3>4, <4>3 DEF IsOvertaken, Phase
    <3> QED
      BY <3>2, <3>3, <3>4
  <2> QED
    BY <2>1, <2>2, <2>3
<1>7. troubled \subseteq troubled'
  BY <1>1
<1> QED
  BY <1>2, <1>6, <1>7, CalmFacts, OrderlyForOne

\* A process that ends begins anew.
LEMMA EndIsOrderly ==
    ASSUME Calm, NEW p \in Processes, End(p)
    PROVE  CalmIsOrderly'
<1>1. /\ CloseChannel(p)
      /\ running' = [running EXCEPT ![p] = FALSE]
      /\ consumerCount' = [consumerCount EXCEPT ![p] = 0]
      /\ setups' = [setups EXCEPT ![p] = {}]
      /\ tags' = [tags EXCEPT ![p] = NoSetup]
      /\ troubled' = troubled
  BY DEF End
<1>2. \A o \in Processes \ {p} : SameFor(o)
  BY <1>1, CalmFacts, ClosedChannel DEF SameFor
<1>3. IsStopped(p, {})' /\ {} \in LeftOver(p)'
  BY <1>1, CalmFacts, ClosedChannel DEF IsStopped, Phase
<1> QED
  BY <1>1, <1>2, <1>3, CalmFacts, OrderlyForOne DEF Orderly

\* A step of a process that stays calm leads from one of its states to the next.
LEMMA OrderlyStep ==
    ASSUME Calm, [Next]_vars
    PROVE  CalmIsOrderly'
<1>1. \A d \in deliveries : d.setup.process \in Processes
  BY DEF Calm, Held, Bounded, TypeOK, Setup
<1>2. ASSUME \/ \E p \in Processes : Lose(p) \/ Crash(p)
             \/ \E d \in deliveries : AcknowledgeTooLate(d)
      PROVE  CalmIsOrderly'
  BY <1>1, <1>2, LoseIsOrderly, EndIsOrderly DEF Crash, AcknowledgeTooLate
<1>3. CASE \/ \E p \in Processes, c \in Commands :
                 Schedule(p, c) \/ Arrive(p, c) \/ Confirm(p, c)
           \/ \E m \in exchange : Route(m)
           \/ \E q \in Queues : \E m \in ready[q] : Deliver(q, m)
           \/ \E d \in deliveries : Acknowledge(d)
           \/ UNCHANGED vars
  <2>1. UNCHANGED <<processVars, consumers, troubled, overtaken>>
    BY <1>3
    DEF Schedule, Arrive, Confirm, Route, Deliver, Acknowledge, vars,
        processVars, brokerVars
  <2>2. \A o : Consuming(o)' = Consuming(o)
    BY <2>1 DEF Consuming
  <2>3. \A o \in Processes : SameFor(o)
    BY <2>1, <2>2 DEF SameFor, processVars
  <2>4. \A o \in Processes \ troubled' : Orderly(o)'
    BY <2>1, <2>3, OrderlyStays DEF Calm, CalmIsOrderly
  <2> QED
    BY <2>4 DEF CalmIsOrderly
<1> QED
  BY <1>2, <1>3, StartIsOrderly, StopIsOrderly, ProceedIsOrderly,
     SubscribedIsOrderly, UnsubscribedIsOrderly, ConnectIsOrderly, Steps

\* Every step keeps the invariant.
LEMMA CalmStep == Calm /\ [Next]_vars => Calm'
<1> SUFFICES ASSUME Calm, [Next]_vars PROVE Calm'
  OBVIOUS
<1>1. Held'
  BY HeldStep DEF Calm
<1> QED
  BY <1>1, OwnedStep, RunOnceStep, ConsumersStep, OrderlyStep DEF Calm

\* Each consumer has one place, in its own queue.
LEMMA PlacesCounted ==
    ASSUME TypeOK, ConsumersAreBound, ConsumersAreSingle, NEW p \in Processes,
           IsFiniteSet(Consuming(p))
    PROVE  /\ \A place \in Places(p) :
                \E s \in Consuming(p) : place[1] = s.queue
           /\ Cardinality(Places(p)) = Cardinality(Consuming(p))
<1>1. ASSUME NEW q \in Queues
      PROVE  /\ DOMAIN consumers[q] = 1..Len(consumers[q])
             /\ \A k \in DOMAIN consumers[q] :
                  /\ consumers[q][k] \in Setup
                  /\ consumers[q][k] \in ToSet(consumers[q])
                  /\ consumers[q][k].queue = q
             /\ \A s \in ToSet(consumers[q]) :
                  \E k \in DOMAIN consumers[q] : consumers[q][k] = s
             /\ \A j, k \in DOMAIN consumers[q] :
                  consumers[q][j] = consumers[q][k] => j = k
  <2>1. consumers[q] \in Seq(Setup)
    BY DEF TypeOK
  <2> QED
    BY <2>1, ElementsOfList
    DEF ConsumersAreBound, ConsumersAreSingle, IsInjective
<1>2. \A place \in Places(p) :
         \E q \in Queues : \E k \in DOMAIN consumers[q] :
            /\ place = <<q, k>>
            /\ consumers[q][k].process = p
  BY DEF Places
<1>3. ASSUME NEW q \in Queues, NEW k \in DOMAIN consumers[q],
             consumers[q][k].process = p
      PROVE  <<q, k>> \in Places(p) /\ consumers[q][k] \in Consuming(p)
  BY <1>1, <1>3 DEF Places, Consuming
<1> DEFINE Place(s) == CHOOSE k \in DOMAIN consumers[s.queue] :
                       consumers[s.queue][k] = s
           place == [s \in Consuming(p) |-> <<s.queue, Place(s)>>]
<1>4. ASSUME NEW s \in Consuming(p)
      PROVE  /\ s.queue \in Queues /\ s.process = p
             /\ Place(s) \in DOMAIN consumers[s.queue]
             /\ consumers[s.queue][Place(s)] = s
  <2>1. /\ s \in Setup /\ s.process = p /\ s.queue \in Queues
        /\ s \in ToSet(consumers[s.queue])
    BY DEF Consuming, Setup
  <2> QED
    BY <1>1, <2>1
<1> HIDE DEF Place
<1>5. place \in Injection(Consuming(p), Places(p))
  <2>1. \A s \in Consuming(p) : <<s.queue, Place(s)>> \in Places(p)
    BY <1>3, <1>4
  <2>2. \A s, t \in Consuming(p) : place[s] = place[t] => s = t
    BY <1>4
  <2>3. place \in [Consuming(p) -> Places(p)] /\ IsInjective(place)
    BY <2>1, <2>2 DEF IsInjective
  <2> HIDE DEF place
  <2> QED
    BY <2>3 DEF Injection
<1>6. ASSUME NEW t \in Places(p)
      PROVE  \E s \in Consuming(p) : place[s] = t
  <2>1. PICK q \in Queues : \E k \in DOMAIN consumers[q] :
           t = <<q, k>> /\ consumers[q][k].process = p
    BY <1>2
  <2>2. PICK k \in DOMAIN consumers[q] :
           t = <<q, k>> /\ consumers[q][k].process = p
    BY <2>1
  <2>3. PICK s \in Consuming(p) : s = consumers[q][k] /\ s.queue = q
    BY <1>1, <1>3, <2>2
  <2>4. Place(s) = k
    BY <1>1, <1>4, <2>3
  <2> QED
    BY <2>2, <2>3, <2>4
<1>7. place \in Surjection(Consuming(p), Places(p))
  BY <1>5, <1>6 DEF Surjection, Injection
<1>8. Cardinality(Places(p)) = Cardinality(Consuming(p))
  <2>1. ExistsBijection(Consuming(p), Places(p))
    BY <1>5, <1>7 DEF ExistsBijection, Bijection
  <2> QED
    BY <2>1, FS_Bijection
<1> QED
  BY <1>1, <1>2, <1>3, <1>8

\* A process whose calls never overlapped or were cut counts its subscription
\* right, consumes once and from the shared queue while it is started and
\* connected, and when it is stopped only what it was stopped with while its
\* setups ran anew, until that channel is gone.
THEOREM CalmIsServedOnce == Spec => []CalmServesOnce
<1>1. Calm => CalmServesOnce
  <2> SUFFICES ASSUME Calm, NEW p \in Processes, p \notin troubled,
                      calls[p] = {}
               PROVE  /\ consumerCount[p] = IF running[p] THEN 1 ELSE 0
                      /\ Cardinality(Places(p)) =
                           (IF running[p] /\ connected[p] THEN 1 ELSE 0)
                             + (IF p \in overtaken THEN 1 ELSE 0)
                      /\ \A s \in Places(p) : s[1] = 0
    BY DEF CalmServesOnce
  <2>1. /\ TypeOK /\ ConsumersAreBound /\ ConsumersAreSingle
        /\ Orderly(p)
    BY DEF Calm, Held, Bounded, CalmIsOrderly
  <2>2. ASSUME IsFiniteSet(Consuming(p)),
               \A s \in Consuming(p) : s.queue = 0
        PROVE  /\ Cardinality(Places(p)) = Cardinality(Consuming(p))
               /\ \A s \in Places(p) : s[1] = 0
    BY <2>1, <2>2, PlacesCounted
  <2>3. ASSUME NEW left \in LeftOver(p)
        PROVE  /\ IsFiniteSet(left)
               /\ Cardinality(left) = IF p \in overtaken THEN 1 ELSE 0
               /\ \A s \in left : s.queue = 0
    <3>1. CASE p \in overtaken
      <4>1. PICK s \in Shared : left = {s}
        BY <2>3, <3>1 DEF LeftOver
      <4> QED
        BY <3>1, <4>1, FS_Singleton DEF Shared
    <3>2. CASE p \notin overtaken
      BY <2>3, <3>2, FS_EmptySet DEF LeftOver
    <3> QED
      BY <3>1, <3>2
  <2>4. CASE \E left \in LeftOver(p) : IsStopped(p, left)
    BY <2>2, <2>3, <2>4 DEF IsStopped, Phase
  <2>5. CASE \E s \in Shared : \E left \in LeftOver(p) :
               s \notin left /\ IsServing(p, s, left)
    <3>1. PICK s \in Shared, left \in LeftOver(p) :
             s \notin left /\ IsServing(p, s, left)
      BY <2>5
    <3>2. CASE connected[p]
      <4>1. Consuming(p) = left \cup {s}
        BY <3>1, <3>2 DEF IsServing, Phase
      <4>2. /\ IsFiniteSet(left \cup {s})
            /\ Cardinality(left \cup {s}) = Cardinality(left) + 1
        BY <2>3, <3>1, FS_AddElement
      <4>3. \A t \in Consuming(p) : t.queue = 0
        BY <2>3, <4>1 DEF Shared
      <4> QED
        BY <2>2, <2>3, <3>1, <3>2, <4>1, <4>2, <4>3 DEF IsServing, Phase
    <3>3. CASE ~ connected[p]
      <4>1. Consuming(p) = {} /\ p \notin overtaken
        BY <3>1, <3>3, CalmFacts DEF IsServing, Phase
      <4> QED
        BY <2>2, <3>1, <3>3, <4>1, FS_EmptySet DEF IsServing, Phase
    <3> QED
      BY <3>2, <3>3
  <2> QED
    BY <2>1, <2>4, <2>5, PhaseCalls
<1> QED
  BY <1>1, CalmInit, CalmStep, PTL DEF Spec
-----------------------------------------------------------------------------
(* A command is executed again only for what a fault has left unanswered. *)

\* Processes that are calm bind one queue, and it alone gets messages.
OneQueue == /\ bound \subseteq {0}
            /\ \A q \in Queues \ {0} : ready[q] = {}

\* A message is in one place, and no copy of it is yet to come.
Placed(m) == \/ m \in exchange \cup ready[0]
             \/ \E d \in deliveries : d.live /\ d.message = m

MessagesApart ==
    /\ exchange \cap ready[0] = {}
    /\ \A d \in deliveries : d.live => d.message \notin exchange \cup ready[0]
    /\ \A d, e \in deliveries :
          d.live /\ e.live /\ d.message = e.message => d = e
    /\ \A m : Placed(m) => m.copy <= copies[m.command]

\* Each copy of a command is executed once, and once more for each channel that
\* is lost afterwards: the n-th one reaches the exchange after n - 1 of them.
Waiting(c) == {m \in exchange \cup ready[0] : m.command = c}

ExecutionsCounted ==
    \A c \in Commands :
        2 * (executed[c] + Cardinality(Waiting(c))) <=
          copies[c] * (2 * cuts + 3 - copies[c])

\* The inductive invariant behind OnceUnlessFault.
Once == /\ Calm
        /\ executed \in [Commands -> Nat]
        /\ faults <= cuts
        /\ troubled = {} => /\ OneQueue
                            /\ MessagesApart
                            /\ ExecutionsCounted

\* There are no more messages of a command than copies of it.
LEMMA CopiesCounted ==
    ASSUME NEW S \in SUBSET Message, NEW c, NEW k \in Nat,
           \A m \in S : m.command = c /\ m.copy <= k
    PROVE  /\ IsFiniteSet(S)
           /\ Cardinality(S) \in Nat
           /\ Cardinality(S) <= k
<1> DEFINE f == [m \in S |-> m.copy]
<1>1. IsFiniteSet(1..k) /\ Cardinality(1..k) = k
  BY FS_Interval
<1>2. f \in Injection(S, 1..k)
  <2>1. \A m \in S : m.copy \in 1..k
    BY AmqpSchedulerAssumption DEF Message
  <2>2. f \in [S -> 1..k]
    BY <2>1
  <2>3. ASSUME NEW m \in S, NEW n \in S, f[m] = f[n]
        PROVE  m = n
    BY <2>3 DEF Message
  <2> QED
    BY <2>2, <2>3 DEF Injection, IsInjective
<1> HIDE DEF f
<1>3. IsFiniteSet(S) /\ Cardinality(S) <= Cardinality(1..k)
  BY <1>1, <1>2, FS_Injection
<1> QED
  BY <1>1, <1>3, FS_CardinalityType

\* The messages that wait are finitely many.
LEMMA WaitingIsFinite ==
    ASSUME TypeOK, Counters, MessagesApart, NEW c \in Commands
    PROVE  /\ IsFiniteSet(Waiting(c))
           /\ Cardinality(Waiting(c)) \in Nat
<1>1. Waiting(c) \in SUBSET Message
  BY AmqpSchedulerAssumption DEF Waiting, TypeOK, Queues
<1>2. \A m \in Waiting(c) : m.command = c /\ m.copy <= copies[c]
  BY DEF Waiting, MessagesApart, Placed
<1>3. copies[c] \in Nat
  BY DEF Counters
<1> QED
  BY <1>1, <1>2, <1>3, CopiesCounted

\* The initial states satisfy the invariant.
LEMMA OnceInit == Init => Once
<1> SUFFICES ASSUME Init PROVE Once
  OBVIOUS
<1>1. 0 \in Queues
  BY AmqpSchedulerAssumption DEF Queues
<1>2. OneQueue /\ MessagesApart
  BY <1>1 DEF Init, OneQueue, MessagesApart, Placed
<1>3. ExecutionsCounted
  <2>1. \A c : Waiting(c) = {}
    BY <1>1 DEF Init, Waiting
  <2>2. \A c : Cardinality(Waiting(c)) = 0
    BY <2>1, FS_EmptySet
  <2> QED
    BY <2>2 DEF Init, ExecutionsCounted
<1>4. executed \in [Commands -> Nat] /\ faults <= cuts
  BY DEF Init
<1> QED
  BY <1>2, <1>3, <1>4, CalmInit DEF Once

\* The steps of starts, stops and new channels.
Calling ==
    \E p \in Processes :
        \/ Start(p) \/ Stop(p) \/ Connect(p)
        \/ \E call \in calls[p] : \/ Bind(p, call) \/ Consume(p, call)
                                  \/ Subscribed(p, call)
                                  \/ Unsubscribed(p, call)

\* They leave the messages alone, and where they have been.
LEMMA CallingLeaves ==
    ASSUME Calling
    PROVE  /\ UNCHANGED <<senderVars, exchange, ready, deliveries, historyVars,
                           cuts, faults>>
           /\ bound \subseteq bound'
           /\ troubled' = {} => troubled = {}
<1>1. ASSUME NEW p \in Processes, Start(p) \/ Stop(p) \/ Connect(p)
      PROVE  /\ UNCHANGED <<senderVars, brokerVars, historyVars, cuts, faults>>
             /\ troubled' = {} => troubled = {}
  BY <1>1 DEF Start, Stop, Connect
<1>2. ASSUME NEW p \in Processes, NEW call \in calls[p],
             Bind(p, call) \/ Consume(p, call)
      PROVE  /\ UNCHANGED <<senderVars, exchange, ready, deliveries, historyVars,
                             cuts, faults, troubled>>
             /\ bound \subseteq bound'
  BY <1>2 DEF Bind, Consume
<1>3. ASSUME NEW p \in Processes, NEW call \in calls[p],
             Subscribed(p, call) \/ Unsubscribed(p, call)
      PROVE  /\ UNCHANGED <<senderVars, exchange, ready, deliveries, historyVars,
                             cuts, faults, troubled>>
             /\ bound' = bound
  BY <1>3 DEF Subscribed, Unsubscribed, brokerVars
<1> QED
  BY <1>1, <1>2, <1>3 DEF Calling, brokerVars

\* What every step does to the history.
LEMMA HistoryStep ==
    ASSUME Once, [Next]_vars
    PROVE  /\ executed' \in [Commands -> Nat]
           /\ faults' <= cuts'
           /\ troubled' = {} => troubled = {}
<1>1. /\ TypeOK /\ faults \in Nat /\ cuts \in Nat /\ faults <= cuts
      /\ executed \in [Commands -> Nat]
  BY AmqpSchedulerAssumption DEF Once, Calm, Held, Bounded, Counters
<1>2. ASSUME Calling
      PROVE  /\ UNCHANGED <<executed, faults, cuts>>
             /\ troubled' = {} => troubled = {}
  BY <1>2, CallingLeaves DEF historyVars
<1>3. ASSUME NEW p \in Processes, Lose(p)
      PROVE  /\ executed' = executed
             /\ faults' = faults + 1 /\ cuts' = cuts + 1
             /\ troubled' = {} => troubled = {}
  BY <1>3 DEF Lose, CloseChannel, historyVars
<1>4. ASSUME NEW p \in Processes, End(p)
      PROVE  /\ executed' = executed /\ cuts' = cuts + 1
             /\ troubled' = troubled
  BY <1>4 DEF End, CloseChannel, historyVars
<1>5. ASSUME \/ \E p \in Processes : Crash(p)
             \/ \E d \in deliveries : AcknowledgeTooLate(d)
      PROVE  /\ executed' = executed /\ cuts' = cuts + 1
             /\ faults' \in {faults, faults + 1}
             /\ troubled' = troubled
  <2>1. \A d \in deliveries : d.setup.process \in Processes
    BY <1>1 DEF TypeOK, Setup
  <2> QED
    BY <1>4, <1>5, <2>1 DEF Crash, AcknowledgeTooLate
<1>6. ASSUME NEW q \in Queues, NEW m \in ready[q], Deliver(q, m)
      PROVE  /\ executed' \in [Commands -> Nat]
             /\ UNCHANGED <<faults, cuts, troubled>>
  BY <1>1, <1>6 DEF Deliver, TypeOK, Message
<1>7. CASE \/ \E p \in Processes, c \in Commands :
                Schedule(p, c) \/ Arrive(p, c) \/ Confirm(p, c)
           \/ \E m \in exchange : Route(m)
           \/ \E d \in deliveries : Acknowledge(d)
           \/ UNCHANGED vars
  <2>1. UNCHANGED <<executed, faults, cuts, troubled>>
    BY <1>7
    DEF Schedule, Arrive, Confirm, Route, Acknowledge, vars, historyVars
  <2> QED
    BY <1>1, <2>1
<1> QED
  BY <1>1, <1>2, <1>3, <1>5, <1>6, <1>7, Steps DEF Calling

\* What a channel that is closed leaves unacknowledged was delivered on it.
LEMMA ReturnedMessages ==
    ASSUME TypeOK, ConsumersAreBound, NEW p \in Processes, NEW q \in Queues,
           NEW m \in Returned(p, q)
    PROVE  /\ \E d \in Of(p) : d.live /\ d.message = m /\ d.setup.queue = q
           /\ q \in bound
           /\ m \in Message
  BY DEF Returned, Of, ConsumersAreBound, TypeOK

\* A setup of a process that is calm consumes from the first queue.
LEMMA OneQueueOfCalm ==
    ASSUME Calm, troubled = {}, NEW p \in Processes,
           NEW call \in calls[p], Subscribing(call)
    PROVE  call.setup.queue = 0
<1>1. Orderly(p)
  BY CalmFacts
<1> QED
  BY <1>1, PhaseSetup DEF Shared

\* Every step of calm processes keeps them at one queue.
LEMMA OneQueueStep ==
    ASSUME Once, [Next]_vars, troubled = {}
    PROVE  OneQueue'
<1>1. /\ TypeOK /\ Counters /\ Calm /\ OneQueue /\ ConsumersAreBound
  BY DEF Once, Calm, Held, Bounded
<1>2. ASSUME bound' = bound, \A q \in Queues : ready'[q] \subseteq ready[q]
      PROVE  OneQueue'
  BY <1>1, <1>2 DEF OneQueue
<1>3. ASSUME NEW p \in Processes, NEW call \in calls[p], Bind(p, call)
      PROVE  OneQueue'
  <2>1. /\ call.step = "bind" /\ ready' = ready
        /\ bound' = bound \cup {call.setup.queue}
    BY <1>3 DEF Bind
  <2>2. Subscribing(call)
    BY <1>1, <2>1, CalmFacts DEF Subscribing, Call
  <2> QED
    BY <1>1, <2>1, <2>2, OneQueueOfCalm DEF OneQueue
<1>4. ASSUME NEW p \in Processes, NEW call \in calls[p],
             Consume(p, call) \/ Subscribed(p, call) \/ Unsubscribed(p, call)
      PROVE  OneQueue'
  BY <1>2, <1>4 DEF Consume, Subscribed, Unsubscribed, brokerVars
<1>5. ASSUME NEW p \in Processes, CloseChannel(p), bound' = bound
      PROVE  OneQueue'
  <2>1. \A q \in Queues : ready'[q] = ready[q] \cup Returned(p, q)
    BY <1>1, <1>5, ChannelClosed
  <2>2. \A q \in Queues \ {0} : Returned(p, q) = {}
    BY <1>1, ReturnedMessages DEF OneQueue
  <2> QED
    BY <1>1, <1>5, <2>1, <2>2 DEF OneQueue
<1>6. ASSUME \/ \E p \in Processes : Lose(p) \/ Crash(p)
             \/ \E d \in deliveries : AcknowledgeTooLate(d)
      PROVE  OneQueue'
  <2>1. \A d \in deliveries : d.setup.process \in Processes
    BY <1>1 DEF TypeOK, Setup
  <2> QED
    BY <1>5, <1>6, <2>1 DEF Lose, Crash, AcknowledgeTooLate, End
<1>7. ASSUME NEW m \in exchange, Route(m) PROVE OneQueue'
  <2>1. \A q \in Queues : q \notin bound => ready'[q] = ready[q]
    BY <1>7 DEF Route
  <2>2. bound' = bound
    BY <1>7 DEF Route
  <2> QED
    BY <1>1, <2>1, <2>2 DEF OneQueue
<1>8. ASSUME NEW q \in Queues, NEW m \in ready[q], Deliver(q, m)
      PROVE  OneQueue'
  <2>1. \A o \in Queues : ready'[o] \subseteq ready[o]
    BY <1>1, <1>8 DEF Deliver, TypeOK
  <2>2. bound' = bound
    BY <1>8 DEF Deliver
  <2> QED
    BY <1>1, <2>1, <2>2 DEF OneQueue
<1>9. CASE \/ \E p \in Processes : Start(p) \/ Stop(p) \/ Connect(p)
           \/ \E p \in Processes, c \in Commands :
                Schedule(p, c) \/ Arrive(p, c) \/ Confirm(p, c)
           \/ \E d \in deliveries : Acknowledge(d)
           \/ UNCHANGED vars
  <2>1. UNCHANGED <<bound, ready>>
    BY <1>9
    DEF Start, Stop, Connect, Schedule, Arrive, Confirm, Acknowledge, vars,
        brokerVars
  <2> QED
    BY <1>2, <2>1
<1> QED
  BY <1>3, <1>4, <1>6, <1>7, <1>8, <1>9, Steps

\* Every step of calm processes keeps a message in one place.
LEMMA MessagesStep ==
    ASSUME Once, [Next]_vars, troubled = {}
    PROVE  MessagesApart'
<1>1. /\ TypeOK /\ Counters /\ OneQueue /\ ConsumersAreBound /\ MessagesApart
      /\ 0 \in Queues
      /\ copies \in [Commands -> Nat]
      /\ exchange \subseteq Message
      /\ \A q \in Queues : ready[q] \subseteq Message
      /\ \A d \in deliveries : d.message \in Message
  BY AmqpSchedulerAssumption
  DEF Once, Calm, Held, Bounded, TypeOK, Counters, Queues
<1>2. ASSUME UNCHANGED <<exchange, ready, deliveries, copies>>
      PROVE  MessagesApart'
  BY <1>1, <1>2 DEF MessagesApart, Placed
<1>3. ASSUME NEW p \in Processes, NEW c \in Commands, Arrive(p, c)
      PROVE  MessagesApart'
  <2>1. PICK new : new = [command |-> c, copy |-> copies[c] + 1]
    OBVIOUS
  <2>2. /\ exchange' = exchange \cup {new}
        /\ UNCHANGED <<ready, deliveries>>
        /\ copies' = [copies EXCEPT ![c] = @ + 1]
    BY <1>3, <2>1 DEF Arrive
  <2>3. new.command = c /\ new.copy = copies[c] + 1
    BY <2>1
  <2>4. ~ Placed(new)
    BY <1>1, <2>3 DEF MessagesApart
  <2>5. \A m : Placed(m) => m \in Message
    BY <1>1 DEF Placed
  <2>6. ASSUME NEW m, Placed(m)' PROVE m.copy <= copies'[m.command]
    <3>1. CASE m = new
      BY <1>1, <2>2, <2>3, <3>1
    <3>2. CASE m # new
      <4>1. Placed(m)
        BY <2>2, <2>6, <3>2 DEF Placed
      <4>2. /\ m.copy <= copies[m.command] /\ m.command \in Commands
            /\ m.copy \in Nat
        BY <1>1, <2>5, <4>1, AmqpSchedulerAssumption DEF MessagesApart, Message
      <4>3. copies'[m.command] \in {copies[m.command], copies[m.command] + 1}
        BY <1>1, <2>2, <4>2
      <4> QED
        BY <1>1, <4>2, <4>3
    <3> QED
      BY <3>1, <3>2
  <2> QED
    BY <1>1, <2>2, <2>4, <2>6 DEF MessagesApart, Placed
<1>4. ASSUME NEW m \in exchange, Route(m) PROVE MessagesApart'
  <2>1. /\ exchange' = exchange \ {m}
        /\ ready'[0] = ready[0] \/ ready'[0] = ready[0] \cup {m}
        /\ UNCHANGED <<deliveries, copies>>
    BY <1>1, <1>4 DEF Route, senderVars
  <2> QED
    BY <1>1, <2>1 DEF MessagesApart, Placed
<1>5. ASSUME NEW q \in Queues, NEW m \in ready[q], Deliver(q, m)
      PROVE  MessagesApart'
  <2>1. q = 0
    BY <1>1 DEF OneQueue
  <2>2. PICK d : d = Delivery(m, Head(consumers[q]))
    OBVIOUS
  <2>3. /\ d.message = m
        /\ deliveries' = deliveries \cup {d}
        /\ ready'[0] = ready[0] \ {m}
        /\ UNCHANGED <<exchange, copies>>
    BY <1>1, <1>5, <2>1, <2>2 DEF Deliver, Delivery, TypeOK, senderVars
  <2>4. /\ m \in ready[0] /\ m \notin exchange
        /\ \A e \in deliveries : e.live => e.message # m
    BY <1>1, <2>1 DEF MessagesApart
  <2> QED
    BY <1>1, <2>3, <2>4 DEF MessagesApart, Placed
<1>6. ASSUME NEW d \in deliveries, Acknowledge(d) PROVE MessagesApart'
  <2>1. /\ deliveries' = deliveries \ {d}
        /\ UNCHANGED <<exchange, ready, copies>>
    BY <1>6 DEF Acknowledge, senderVars
  <2> QED
    BY <1>1, <2>1 DEF MessagesApart, Placed
<1>7. ASSUME NEW p \in Processes, CloseChannel(p),
             UNCHANGED <<exchange, copies>>,
             \A d \in deliveries' : d.live => d \in deliveries \ Of(p)
      PROVE  MessagesApart'
  <2>1. ready'[0] = ready[0] \cup Returned(p, 0)
    BY <1>1, <1>7, ChannelClosed
  <2>2. \A m \in Returned(p, 0) :
           \E e \in Of(p) : e.live /\ e.message = m
    BY <1>1, ReturnedMessages
  <2>3. Of(p) \subseteq deliveries
    BY DEF Of
  <2>4. exchange' \cap ready'[0] = {}
    BY <1>1, <1>7, <2>1, <2>2, <2>3 DEF MessagesApart
  <2>5. \A d \in deliveries' : d.live =>
           d.message \notin exchange' \cup ready'[0]
    BY <1>1, <1>7, <2>1, <2>2, <2>3 DEF MessagesApart
  <2>6. \A d, e \in deliveries' :
           d.live /\ e.live /\ d.message = e.message => d = e
    BY <1>1, <1>7 DEF MessagesApart
  <2>7. \A m : Placed(m)' => Placed(m)
    BY <1>7, <2>1, <2>2, <2>3 DEF Placed
  <2>8. \A m : Placed(m)' => m.copy <= copies'[m.command]
    BY <1>1, <1>7, <2>7 DEF MessagesApart
  <2> QED
    BY <2>4, <2>5, <2>6, <2>8 DEF MessagesApart, Placed
<1>8. ASSUME NEW p \in Processes, Lose(p) PROVE MessagesApart'
  <2>1. \A d \in deliveries' : d.live => d \in deliveries \ Of(p)
    BY <1>1, <1>8, ChannelLost
  <2>2. CloseChannel(p) /\ UNCHANGED <<exchange, copies>>
    BY <1>8 DEF Lose
  <2> QED
    BY <1>7, <2>1, <2>2
<1>9. ASSUME NEW p \in Processes, End(p) PROVE MessagesApart'
  <2>1. /\ \A d \in deliveries' : d.live => d \in deliveries \ Of(p)
        /\ CloseChannel(p)
        /\ UNCHANGED <<exchange, copies>>
    BY <1>9 DEF End
  <2> QED
    BY <1>7, <2>1
<1>10. ASSUME \/ \E p \in Processes : Crash(p)
              \/ \E d \in deliveries : AcknowledgeTooLate(d)
       PROVE  MessagesApart'
  <2>1. \A d \in deliveries : d.setup.process \in Processes
    BY <1>1 DEF TypeOK, Setup
  <2> QED
    BY <1>9, <1>10, <2>1 DEF Crash, AcknowledgeTooLate
<1>11. CASE \/ Calling
            \/ \E p \in Processes, c \in Commands :
                 Schedule(p, c) \/ Confirm(p, c)
            \/ UNCHANGED vars
  <2>1. UNCHANGED <<exchange, ready, deliveries, copies>>
    BY <1>11, CallingLeaves
    DEF Schedule, Confirm, vars, brokerVars, senderVars
  <2> QED
    BY <1>2, <2>1
<1> QED
  BY <1>3, <1>4, <1>5, <1>6, <1>8, <1>10, <1>11, Steps DEF Calling

\* One more copy may be executed once for each channel that is still to be lost.
LEMMA CopyAllowance ==
    ASSUME NEW w \in Nat, NEW v \in Nat, NEW k \in Nat, NEW n \in Nat,
           v <= w + 1, k <= n, 2 * w <= k * (2 * n + 3 - k)
    PROVE  2 * v <= (k + 1) * (2 * n + 3 - (k + 1))
<1>1. (k + 1) * (2 * n + 3 - (k + 1)) = k * (2 * n + 3 - k) + 2 * (n - k) + 2
  OBVIOUS
<1>2. k * (2 * n + 3 - k) \in Int
  OBVIOUS
<1> QED
  BY <1>1, <1>2

\* A channel that is lost allows every copy that was delivered once more.
LEMMA CutAllowance ==
    ASSUME NEW w \in Nat, NEW v \in Nat, NEW k \in Nat, NEW n \in Nat,
           v <= w + k, 2 * w <= k * (2 * n + 3 - k)
    PROVE  2 * v <= k * (2 * (n + 1) + 3 - k)
<1>1. k * (2 * (n + 1) + 3 - k) = k * (2 * n + 3 - k) + 2 * k
  OBVIOUS
<1>2. k * (2 * n + 3 - k) \in Int
  OBVIOUS
<1> QED
  BY <1>1, <1>2

\* The allowance for all copies.
LEMMA WholeAllowance ==
    ASSUME NEW e \in Nat, NEW w \in Nat, NEW k \in Nat, NEW n \in Nat,
           k <= n + 1, 2 * (e + w) <= k * (2 * n + 3 - k)
    PROVE  e <= ((n + 1) * (n + 2)) \div 2
<1> DEFINE a == n + 1 - k
           all == (n + 1) * (n + 2)
           some == k * (2 * n + 3 - k)
<1>1. a \in Nat /\ a * (a + 1) >= 0
  OBVIOUS
<1>2. all = some + a * (a + 1)
  OBVIOUS
<1>3. all \in Int /\ some \in Int /\ a * (a + 1) \in Int
  OBVIOUS
<1>4. 2 * e <= some
  <2>1. 2 * (e + w) = 2 * e + 2 * w
    OBVIOUS
  <2> QED
    BY <1>3, <2>1
<1> HIDE DEF a, some, all
<1>5. 2 * e <= all
  BY <1>1, <1>2, <1>3, <1>4
<1>6. \A x \in Int : 2 * e <= x => e <= x \div 2
  OBVIOUS
<1>7. e <= all \div 2
  BY <1>3, <1>5, <1>6
<1> QED
  BY <1>7 DEF all

\* Every step of calm processes keeps the executions within the allowance.
LEMMA ExecutionsStep ==
    ASSUME Once, [Next]_vars, troubled = {}
    PROVE  ExecutionsCounted'
<1>1. /\ TypeOK /\ Counters /\ OneQueue /\ ConsumersAreBound /\ MessagesApart
      /\ ExecutionsCounted
      /\ 0 \in Queues
      /\ cuts \in Nat
      /\ executed \in [Commands -> Nat]
      /\ copies \in [Commands -> Nat]
  BY AmqpSchedulerAssumption
  DEF Once, Calm, Held, Bounded, Counters, Queues
<1>2. \A c \in Commands : /\ IsFiniteSet(Waiting(c))
                          /\ Cardinality(Waiting(c)) \in Nat
  BY <1>1, WaitingIsFinite
<1>3. ASSUME NEW c \in Commands, executed'[c] = executed[c],
             copies'[c] = copies[c], cuts' = cuts,
             Waiting(c)' \subseteq Waiting(c)
      PROVE  2 * (executed'[c] + Cardinality(Waiting(c)'))
               <= copies'[c] * (2 * cuts' + 3 - copies'[c])
  <2>1. PICK next : next = Waiting(c)'
    OBVIOUS
  <2>2. next \in SUBSET Waiting(c)
    BY <1>3, <2>1
  <2>3. /\ Cardinality(next) \in Nat
        /\ Cardinality(next) <= Cardinality(Waiting(c))
    BY <1>2, <2>2, FS_Subset, FS_CardinalityType
  <2>4. PICK allowance \in Int :
           allowance = copies[c] * (2 * cuts + 3 - copies[c])
    BY <1>1
  <2>5. 2 * (executed[c] + Cardinality(Waiting(c))) <= allowance
    BY <1>1, <2>4 DEF ExecutionsCounted
  <2>6. 2 * (executed[c] + Cardinality(next)) <= allowance
    BY <1>1, <1>2, <2>3, <2>5
  <2> QED
    BY <1>3, <2>1, <2>4, <2>6
<1>4. ASSUME \A c \in Commands :
               2 * (executed'[c] + Cardinality(Waiting(c)'))
                 <= copies'[c] * (2 * cuts' + 3 - copies'[c])
      PROVE  ExecutionsCounted'
  BY <1>4 DEF ExecutionsCounted, Waiting
<1>5. ASSUME UNCHANGED <<executed, copies, cuts>>,
             exchange' \subseteq exchange, ready' = ready
      PROVE  ExecutionsCounted'
  <2>1. \A c \in Commands : Waiting(c)' \subseteq Waiting(c)
    BY <1>5 DEF Waiting
  <2> QED
    BY <1>3, <1>4, <1>5, <2>1
<1>6. ASSUME NEW p \in Processes, NEW c \in Commands, Arrive(p, c)
      PROVE  ExecutionsCounted'
  <2>1. PICK new : new = [command |-> c, copy |-> copies[c] + 1]
    OBVIOUS
  <2>2. /\ exchange' = exchange \cup {new}
        /\ copies' = [copies EXCEPT ![c] = @ + 1]
        /\ UNCHANGED <<executed, cuts, ready>>
    BY <1>6, <2>1 DEF Arrive, historyVars
  <2>3. new.command = c
    BY <2>1
  <2>4. \A b \in Commands \ {c} : /\ Waiting(b)' \subseteq Waiting(b)
                                  /\ copies'[b] = copies[b]
    BY <1>1, <2>2, <2>3 DEF Waiting
  <2>5. PICK next : next = Waiting(c)'
    OBVIOUS
  <2>6. next = Waiting(c) \cup {new}
    BY <2>2, <2>3, <2>5 DEF Waiting
  <2>7. /\ Cardinality(next) \in Nat
        /\ Cardinality(next) <= Cardinality(Waiting(c)) + 1
    <3>1. IsFiniteSet(Waiting(c) \cup {new})
      BY <1>2, FS_AddElement
    <3>2. \/ Cardinality(Waiting(c) \cup {new}) = Cardinality(Waiting(c))
          \/ Cardinality(Waiting(c) \cup {new}) = Cardinality(Waiting(c)) + 1
      BY <1>2, FS_AddElement
    <3>3. Cardinality(next) \in Nat
      BY <2>6, <3>1, FS_CardinalityType
    <3>4. \/ Cardinality(next) = Cardinality(Waiting(c))
          \/ Cardinality(next) = Cardinality(Waiting(c)) + 1
      BY <2>6, <3>2, Zenon
    <3> QED
      BY <1>2, <3>3, <3>4
  <2>8. copies[c] <= cuts
    <3>1. /\ copies[c] <= faults /\ faults \in Nat
          /\ faults <= cuts
      BY <1>6, AmqpSchedulerAssumption
      DEF Arrive, Once, Calm, Held, Bounded, CopiesAreBounded, Counters
    <3> QED
      BY <1>1, <3>1
  <2>9. 2 * (executed'[c] + Cardinality(Waiting(c)'))
          <= copies'[c] * (2 * cuts' + 3 - copies'[c])
    <3>1. PICK w \in Nat : w = executed[c] + Cardinality(Waiting(c))
      BY <1>1, <1>2
    <3>2. PICK v \in Nat : v = executed[c] + Cardinality(next)
      BY <1>1, <2>7
    <3>3. PICK k \in Nat, n \in Nat : k = copies[c] /\ n = cuts
      BY <1>1
    <3>4. v <= w + 1 /\ k <= n
      BY <1>1, <1>2, <2>7, <2>8, <3>1, <3>2, <3>3
    <3>5. 2 * w <= k * (2 * n + 3 - k)
      BY <1>1, <3>1, <3>3 DEF ExecutionsCounted
    <3>6. 2 * v <= (k + 1) * (2 * n + 3 - (k + 1))
      BY <3>4, <3>5, CopyAllowance
    <3>7. copies'[c] = k + 1 /\ cuts' = n /\ executed'[c] = executed[c]
      BY <1>1, <2>2, <3>3
    <3> QED
      BY <2>5, <3>2, <3>6, <3>7
  <2>10. \A b \in Commands \ {c} :
            executed'[b] = executed[b] /\ cuts' = cuts
    BY <2>2
  <2> QED
    BY <1>3, <1>4, <2>4, <2>9, <2>10
<1>7. ASSUME NEW m \in exchange, Route(m) PROVE ExecutionsCounted'
  <2>1. /\ UNCHANGED <<executed, copies, cuts>>
        /\ exchange' \subseteq exchange
        /\ ready'[0] \subseteq ready[0] \cup {m}
    BY <1>1, <1>7 DEF Route, senderVars
  <2>2. \A c \in Commands : Waiting(c)' \subseteq Waiting(c)
    BY <2>1 DEF Waiting
  <2> QED
    BY <1>3, <1>4, <2>1, <2>2
<1>8. ASSUME NEW q \in Queues, NEW m \in ready[q], Deliver(q, m)
      PROVE  ExecutionsCounted'
  <2> DEFINE c == m.command
  <2>1. q = 0 /\ c \in Commands /\ m \notin exchange
    BY <1>1 DEF OneQueue, MessagesApart, TypeOK, Message
  <2>2. /\ ready'[0] = ready[0] \ {m}
        /\ UNCHANGED <<exchange, copies, cuts>>
        /\ executed' = [executed EXCEPT ![c] = @ + 1]
    BY <1>1, <1>8, <2>1 DEF Deliver, TypeOK, senderVars
  <2>3. \A b \in Commands \ {c} : /\ Waiting(b)' \subseteq Waiting(b)
                                  /\ executed'[b] = executed[b]
                                  /\ copies'[b] = copies[b]
    BY <1>1, <2>2 DEF Waiting
  <2>4. PICK next : next = Waiting(c)'
    OBVIOUS
  <2>5. next = Waiting(c) \ {m} /\ m \in Waiting(c)
    BY <2>1, <2>2, <2>4 DEF Waiting
  <2>6. PICK w \in Nat : w = Cardinality(Waiting(c))
    BY <1>2, <2>1
  <2> HIDE DEF c
  <2>7. Cardinality(next) = w - 1
    <3>1. Cardinality(Waiting(c) \ {m}) = Cardinality(Waiting(c)) - 1
      BY <1>2, <2>1, <2>5, FS_RemoveElement
    <3>2. Cardinality(next) = Cardinality(Waiting(c)) - 1
      BY <2>5, <3>1, Zenon
    <3> QED
      BY <2>6, <3>2
  <2>8. executed'[c] + Cardinality(Waiting(c)') = executed[c] + w
    BY <1>1, <2>1, <2>2, <2>4, <2>6, <2>7
  <2>9. 2 * (executed'[c] + Cardinality(Waiting(c)'))
          <= copies'[c] * (2 * cuts' + 3 - copies'[c])
    BY <1>1, <2>1, <2>2, <2>6, <2>8 DEF ExecutionsCounted
  <2> QED
    BY <1>3, <1>4, <2>2, <2>3, <2>9
<1>9. ASSUME NEW p \in Processes, CloseChannel(p),
             UNCHANGED <<exchange, copies, executed>>
      PROVE  ExecutionsCounted'
  <2>1. ready'[0] = ready[0] \cup Returned(p, 0) /\ cuts' = cuts + 1
    <3>1. ready'[0] = ready[0] \cup Returned(p, 0)
      BY <1>1, <1>9, ChannelClosed
    <3> QED
      BY <1>9, <3>1 DEF CloseChannel
  <2>2. ASSUME NEW c \in Commands
        PROVE  2 * (executed'[c] + Cardinality(Waiting(c)'))
                 <= copies'[c] * (2 * cuts' + 3 - copies'[c])
    <3> DEFINE returned == {m \in Returned(p, 0) : m.command = c}
    <3>1. PICK next : next = Waiting(c)'
      OBVIOUS
    <3>2. next = Waiting(c) \cup returned
      BY <1>9, <2>1, <3>1 DEF Waiting
    <3>3. PICK k \in Nat, n \in Nat : k = copies[c] /\ n = cuts
      BY <1>1
    <3>4. /\ IsFiniteSet(returned)
          /\ Cardinality(returned) \in Nat
          /\ Cardinality(returned) <= k
      <4>1. returned \in SUBSET Message
        BY <1>1, ReturnedMessages
      <4>2. \A m \in Returned(p, 0) : Placed(m)
        BY <1>1, ReturnedMessages DEF Placed, Of
      <4>3. \A m \in returned : m.command = c /\ m.copy <= k
        BY <1>1, <3>3, <4>2 DEF MessagesApart
      <4> HIDE DEF returned
      <4> QED
        BY <4>1, <4>3, CopiesCounted
    <3> HIDE DEF returned
    <3>5. /\ Cardinality(next) \in Nat
          /\ Cardinality(next) <= Cardinality(Waiting(c)) + k
      <4>1. /\ IsFiniteSet(Waiting(c) \cup returned)
            /\ Cardinality(Waiting(c) \cup returned) =
                 Cardinality(Waiting(c)) + Cardinality(returned)
                   - Cardinality(Waiting(c) \cap returned)
        BY <1>2, <3>4, FS_Union
      <4>2. Cardinality(Waiting(c) \cap returned) \in Nat
        <5>1. Waiting(c) \cap returned \in SUBSET returned
          OBVIOUS
        <5> QED
          BY <3>4, <5>1, FS_Subset, FS_CardinalityType
      <4>3. /\ Cardinality(Waiting(c) \cup returned) \in Nat
            /\ Cardinality(Waiting(c) \cup returned) <=
                 Cardinality(Waiting(c)) + k
        <5>1. Cardinality(Waiting(c) \cup returned) \in Nat
          BY <4>1, FS_CardinalityType
        <5> QED
          BY <1>2, <3>4, <4>1, <4>2, <5>1
      <4> QED
        BY <3>2, <4>3, Zenon
    <3>6. PICK w \in Nat : w = executed[c] + Cardinality(Waiting(c))
      BY <1>1, <1>2
    <3>7. PICK v \in Nat : v = executed[c] + Cardinality(next)
      BY <1>1, <3>5
    <3>8. v <= w + k
      BY <1>1, <1>2, <3>5, <3>6, <3>7
    <3>9. 2 * w <= k * (2 * n + 3 - k)
      BY <1>1, <3>3, <3>6 DEF ExecutionsCounted
    <3>10. 2 * v <= k * (2 * (n + 1) + 3 - k)
      BY <3>8, <3>9, CutAllowance
    <3> QED
      BY <1>9, <2>1, <3>1, <3>3, <3>7, <3>10
  <2> QED
    BY <1>4, <2>2
<1>10. ASSUME \/ \E p \in Processes : Lose(p) \/ Crash(p)
              \/ \E d \in deliveries : AcknowledgeTooLate(d)
       PROVE  ExecutionsCounted'
  <2>1. \A d \in deliveries : d.setup.process \in Processes
    BY <1>1 DEF TypeOK, Setup
  <2> QED
    BY <1>9, <1>10, <2>1
    DEF Lose, Crash, AcknowledgeTooLate, End, historyVars
<1>11. CASE \/ Calling
            \/ \E p \in Processes, c \in Commands :
                 Schedule(p, c) \/ Confirm(p, c)
            \/ \E d \in deliveries : Acknowledge(d)
            \/ UNCHANGED vars
  <2>1. UNCHANGED <<executed, copies, cuts, exchange, ready>>
    BY <1>11, CallingLeaves
    DEF Schedule, Confirm, Acknowledge, vars, brokerVars, senderVars,
        historyVars
  <2> QED
    BY <1>5, <2>1
<1> QED
  BY <1>6, <1>7, <1>8, <1>10, <1>11, Steps DEF Calling

\* Every step keeps the invariant.
LEMMA OnceStep == Once /\ [Next]_vars => Once'
<1> SUFFICES ASSUME Once, [Next]_vars PROVE Once'
  OBVIOUS
<1>1. Calm'
  BY CalmStep DEF Once
<1>2. /\ executed' \in [Commands -> Nat]
      /\ faults' <= cuts'
      /\ troubled' = {} => troubled = {}
  BY HistoryStep
<1>3. troubled = {} => OneQueue' /\ MessagesApart' /\ ExecutionsCounted'
  BY OneQueueStep, MessagesStep, ExecutionsStep
<1> QED
  BY <1>1, <1>2, <1>3 DEF Once

\* While no calls of start and stop overlap or are cut, a command is executed
\* once, and repeated only for what lost channels have left without an answer.
THEOREM OnceUnlessAFault == Spec => []OnceUnlessFault
<1>1. Once => OnceUnlessFault
  <2> SUFFICES ASSUME Once, troubled = {}, NEW c \in Commands
               PROVE  executed[c] <= ((cuts + 1) * (cuts + 2)) \div 2
    BY DEF OnceUnlessFault
  <2>1. /\ TypeOK /\ Counters /\ MessagesApart /\ ExecutionsCounted
        /\ CopiesAreBounded /\ faults <= cuts /\ faults \in Nat
        /\ executed[c] \in Nat /\ copies[c] \in Nat /\ cuts \in Nat
    BY AmqpSchedulerAssumption DEF Once, Calm, Held, Bounded, Counters
  <2>2. Cardinality(Waiting(c)) \in Nat
    BY <2>1, WaitingIsFinite
  <2>3. copies[c] <= cuts + 1
    BY <2>1 DEF CopiesAreBounded
  <2>4. 2 * (executed[c] + Cardinality(Waiting(c))) <=
          copies[c] * (2 * cuts + 3 - copies[c])
    BY <2>1 DEF ExecutionsCounted
  <2> QED
    BY <2>1, <2>2, <2>3, <2>4, WholeAllowance
<1> QED
  BY <1>1, OnceInit, OnceStep, PTL DEF Spec
-----------------------------------------------------------------------------
(* What the processes and their broker implement. *)

\* A message that was due: it waits in a queue or was handed to a consumer.
Routed(m) == \/ \E q \in Queues : m \in ready[q]
             \/ \E d \in deliveries : d.message = m

\* A message is routed once, to queues that are bound, and is a copy of its
\* command; and what a consumer was given was executed.
RoutedOnce ==
    /\ \A q \in Queues \ bound : ready[q] = {}
    /\ \A m : Routed(m) => m \notin exchange
    /\ \A m : Routed(m) \/ m \in exchange => m.copy <= copies[m.command]
    /\ executed \in [Commands -> Nat]
    /\ \A d \in deliveries : executed[d.message.command] > 0

\* A command whose schedule has returned is published no more.
ConfirmedOnce == \A c \in scheduled : \A p \in Processes : c \notin outbox[p]

\* The inductive invariant behind DeferredSpec.
Answering == Held /\ RoutedOnce /\ ConfirmedOnce

\* The initial states satisfy it.
LEMMA AnsweringInit == Init => Answering
<1> SUFFICES ASSUME Init PROVE Answering
  OBVIOUS
<1>1. \A m : ~ Routed(m)
  BY DEF Init, Routed
<1> QED
  BY <1>1, HeldInit DEF Init, Answering, RoutedOnce, ConfirmedOnce

\* Messages stay where they are or are given back to their queue.
LEMMA MessagesStay ==
    ASSUME Answering,
           UNCHANGED <<exchange, copies, executed>>,
           bound \subseteq bound',
           \A q \in Queues \ bound' : ready'[q] = {},
           \A q \in Queues : \A m \in ready'[q] : Routed(m),
           \A d \in deliveries' : \E e \in deliveries : d.message = e.message
    PROVE  RoutedOnce'
<1>1. \A m : Routed(m)' => Routed(m)
  BY DEF Routed
<1>2. \A d \in deliveries' : executed[d.message.command] > 0
  BY DEF Answering, RoutedOnce
<1> QED
  BY <1>1, <1>2 DEF Answering, RoutedOnce

\* The broker takes a channel away and gives back what was not acknowledged.
LEMMA MessagesReturned ==
    ASSUME Answering, NEW p \in Processes, CloseChannel(p),
           UNCHANGED <<exchange, copies, executed, bound>>,
           \A d \in deliveries' : \E e \in deliveries : d.message = e.message
    PROVE  RoutedOnce'
<1>1. TypeOK /\ ConsumersAreBound
  BY DEF Answering, Held, Bounded
<1>2. \A q \in Queues : ready'[q] = ready[q] \cup Returned(p, q)
  BY <1>1, ChannelClosed
<1>3. \A q \in Queues : \A m \in Returned(p, q) : q \in bound /\ Routed(m)
  BY <1>1, ReturnedMessages DEF Of, Routed
<1>4. \A q \in Queues \ bound' : ready'[q] = {}
  BY <1>2, <1>3 DEF Answering, RoutedOnce
<1>5. \A q \in Queues : \A m \in ready'[q] : Routed(m)
  BY <1>2, <1>3 DEF Routed
<1> QED
  BY <1>4, <1>5, MessagesStay

\* A message is routed once.
LEMMA RoutedOnceStep ==
    ASSUME Answering, [Next]_vars
    PROVE  RoutedOnce'
<1> USE DEF Answering
<1>1. /\ TypeOK /\ ConsumersAreBound /\ RoutedOnce
      /\ copies \in [Commands -> Nat]
      /\ exchange \subseteq Message
      /\ \A q \in Queues : ready[q] \subseteq Message
      /\ \A d \in deliveries : d.message \in Message
  BY DEF Held, Bounded, TypeOK, Counters
<1>2. \A q \in Queues : \A m \in ready[q] : Routed(m)
  BY DEF Routed
<1>3. ASSUME UNCHANGED <<exchange, ready, copies, executed>>,
             bound \subseteq bound',
             deliveries' \subseteq deliveries
      PROVE  RoutedOnce'
  BY <1>1, <1>2, <1>3, MessagesStay DEF RoutedOnce
<1>4. CASE \/ Calling
           \/ \E p \in Processes, c \in Commands :
                Schedule(p, c) \/ Confirm(p, c)
           \/ \E d \in deliveries : Acknowledge(d)
           \/ UNCHANGED vars
  <2>1. /\ UNCHANGED <<exchange, ready, copies, executed>>
        /\ bound \subseteq bound'
        /\ deliveries' \subseteq deliveries
    BY <1>4, CallingLeaves
    DEF Schedule, Confirm, Acknowledge, vars, brokerVars, senderVars,
        historyVars
  <2> QED
    BY <1>3, <2>1
<1>5. ASSUME NEW p \in Processes, Lose(p) PROVE RoutedOnce'
  <2>1. \A d \in deliveries' : \E e \in deliveries : d.message = e.message
    BY <1>1, <1>5, ChannelLost
  <2>2. CloseChannel(p) /\ UNCHANGED <<exchange, copies, executed, bound>>
    BY <1>5 DEF Lose, historyVars
  <2> QED
    BY <2>1, <2>2, MessagesReturned
<1>6. ASSUME NEW p \in Processes, End(p) PROVE RoutedOnce'
  <2>1. /\ \A d \in deliveries' : \E e \in deliveries : d.message = e.message
        /\ CloseChannel(p)
        /\ UNCHANGED <<exchange, copies, executed, bound>>
    BY <1>6 DEF End, historyVars
  <2> QED
    BY <2>1, MessagesReturned
<1>7. ASSUME \/ \E p \in Processes : Crash(p)
             \/ \E d \in deliveries : AcknowledgeTooLate(d)
      PROVE  RoutedOnce'
  <2>1. \A d \in deliveries : d.setup.process \in Processes
    BY <1>1 DEF TypeOK, Setup
  <2> QED
    BY <1>6, <1>7, <2>1 DEF Crash, AcknowledgeTooLate
<1>8. ASSUME NEW p \in Processes, NEW c \in Commands, Arrive(p, c)
      PROVE  RoutedOnce'
  <2>1. PICK new : new = [command |-> c, copy |-> copies[c] + 1]
    OBVIOUS
  <2>2. /\ exchange' = exchange \cup {new}
        /\ UNCHANGED <<ready, deliveries, bound, executed>>
        /\ copies' = [copies EXCEPT ![c] = @ + 1]
    BY <1>8, <2>1 DEF Arrive, historyVars
  <2>3. new.command = c /\ new.copy = copies[c] + 1
    BY <2>1
  <2>4. ~ Routed(new)
    BY <1>1, <2>3 DEF RoutedOnce
  <2>5. \A m : Routed(m)' <=> Routed(m)
    BY <2>2 DEF Routed
  <2>6. ASSUME NEW m, Routed(m) \/ m \in exchange \cup {new}
        PROVE  m.copy <= copies'[m.command]
    <3>1. CASE m = new
      BY <1>1, <2>2, <2>3, <3>1
    <3>2. CASE Routed(m) \/ m \in exchange
      <4>1. m \in Message
        BY <1>1, <3>2 DEF Routed
      <4>2. /\ m.copy <= copies[m.command]
            /\ m.command \in Commands
            /\ m.copy \in Nat
        BY <1>1, <3>2, <4>1, AmqpSchedulerAssumption DEF RoutedOnce, Message
      <4>3. copies'[m.command] \in {copies[m.command], copies[m.command] + 1}
        BY <1>1, <2>2, <4>2
      <4> QED
        BY <1>1, <4>2, <4>3
    <3> QED
      BY <2>6, <3>1, <3>2
  <2> QED
    BY <1>1, <2>2, <2>4, <2>5, <2>6 DEF RoutedOnce
<1>9. ASSUME NEW m \in exchange, Route(m) PROVE RoutedOnce'
  <2>1. /\ exchange' = exchange \ {m}
        /\ \A q \in Queues : ready'[q] = IF q \in bound THEN ready[q] \cup {m}
                                         ELSE ready[q]
        /\ UNCHANGED <<deliveries, copies, bound, executed>>
    BY <1>1, <1>9 DEF Route, senderVars
  <2>2. \A n : Routed(n)' => Routed(n) \/ n = m
    BY <2>1 DEF Routed
  <2> QED
    BY <1>1, <2>1, <2>2 DEF RoutedOnce
<1>10. ASSUME NEW q \in Queues, NEW m \in ready[q], Deliver(q, m)
       PROVE  RoutedOnce'
  <2>1. PICK d : d = Delivery(m, Head(consumers[q]))
    OBVIOUS
  <2>2. /\ d.message = m
        /\ deliveries' = deliveries \cup {d}
        /\ \A o \in Queues : ready'[o] \subseteq ready[o]
        /\ UNCHANGED <<exchange, copies, bound>>
    BY <1>1, <1>10, <2>1 DEF Deliver, Delivery, TypeOK, senderVars
  <2>3. \A n : Routed(n)' => Routed(n)
    BY <2>2 DEF Routed
  <2>4. /\ m.command \in Commands
        /\ \A c \in Commands : executed'[c] = IF c = m.command
                                              THEN executed[c] + 1
                                              ELSE executed[c]
        /\ executed' \in [Commands -> Nat]
    BY <1>1, <1>10 DEF Deliver, RoutedOnce, Message
  <2>5. \A e \in deliveries : e.message.command \in Commands
    BY <1>1 DEF Message
  <2>6. \A e \in deliveries' : executed'[e.message.command] > 0
    <3>1. \A c \in Commands : executed[c] \in Nat
      BY <1>1 DEF RoutedOnce
    <3>2. executed'[d.message.command] > 0
      BY <2>2, <2>4, <3>1
    <3>3. \A e \in deliveries : executed'[e.message.command] > 0
      BY <1>1, <2>4, <2>5, <3>1 DEF RoutedOnce
    <3> QED
      BY <2>2, <3>2, <3>3
  <2> QED
    BY <1>1, <2>2, <2>3, <2>4, <2>6 DEF RoutedOnce
<1> QED
  BY <1>4, <1>5, <1>7, <1>8, <1>9, <1>10, Steps DEF Calling

\* What a process waits for is published by this process alone.
LEMMA ConfirmedOnceStep ==
    ASSUME Answering, [Next]_vars
    PROVE  ConfirmedOnce'
<1> USE DEF Answering, ConfirmedOnce
<1>1. /\ TypeOK /\ Counters /\ CopiesAreBounded
  BY DEF Held, Bounded
<1>2. ASSUME scheduled' = scheduled,
             \A p \in Processes : outbox'[p] \subseteq outbox[p]
      PROVE  ConfirmedOnce'
  BY <1>2
<1>3. ASSUME NEW p \in Processes, End(p) PROVE ConfirmedOnce'
  <2>1. /\ scheduled' = scheduled
        /\ \A o \in Processes : outbox'[o] \subseteq outbox[o]
    BY <1>1, <1>3 DEF End, TypeOK
  <2> QED
    BY <1>2, <2>1
<1>4. ASSUME \/ \E p \in Processes : Crash(p)
             \/ \E d \in deliveries : AcknowledgeTooLate(d)
      PROVE  ConfirmedOnce'
  <2>1. \A d \in deliveries : d.setup.process \in Processes
    BY <1>1 DEF TypeOK, Setup
  <2> QED
    BY <1>3, <1>4, <2>1 DEF Crash, AcknowledgeTooLate
<1>5. CASE \/ Calling
           \/ \E p \in Processes : Lose(p)
           \/ \E p \in Processes, c \in Commands : Arrive(p, c)
           \/ \E m \in exchange : Route(m)
           \/ \E q \in Queues : \E m \in ready[q] : Deliver(q, m)
           \/ \E d \in deliveries : Acknowledge(d)
           \/ UNCHANGED vars
  <2>1. UNCHANGED <<scheduled, outbox>>
    BY <1>5, CallingLeaves
    DEF Lose, Arrive, Route, Deliver, Acknowledge, vars, senderVars
  <2> QED
    BY <1>2, <2>1
<1>6. ASSUME NEW p \in Processes, NEW c \in Commands, Schedule(p, c)
      PROVE  ConfirmedOnce'
  <2>1. /\ scheduled' = scheduled
        /\ \A o \in Processes : outbox'[o] \subseteq outbox[o] \cup {c}
    BY <1>1, <1>6 DEF Schedule, TypeOK
  <2>2. c \notin scheduled
    BY <1>1, <1>6 DEF Schedule, CopiesAreBounded, Counters
  <2> QED
    BY <2>1, <2>2
<1>7. ASSUME NEW p \in Processes, NEW c \in Commands, Confirm(p, c)
      PROVE  ConfirmedOnce'
  <2>1. /\ scheduled' = scheduled \cup {c}
        /\ \A o \in Processes : outbox'[o] = IF o = p THEN outbox[p] \ {c}
                                             ELSE outbox[o]
        /\ c \in sent[p]
    BY <1>1, <1>7 DEF Confirm, TypeOK
  <2>2. \A o \in Processes \ {p} : c \notin outbox[o]
    BY <1>1, <2>1 DEF CopiesAreBounded
  <2> QED
    BY <2>1, <2>2
<1> QED
  BY <1>4, <1>5, <1>6, <1>7, Steps DEF Calling

\* The invariant holds for every number of processes.
LEMMA AnsweringInvariant == Spec => []Answering
<1>1. Answering /\ [Next]_vars => Answering'
  <2> SUFFICES ASSUME Answering, [Next]_vars PROVE Answering'
    OBVIOUS
  <2> QED
    BY HeldStep, RoutedOnceStep, ConfirmedOnceStep DEF Answering
<1> QED
  BY <1>1, AnsweringInit, PTL DEF Spec

\* What the broker keeps was kept before, but for what has just arrived.
LEMMA KeptBefore ==
    ASSUME Answering, [Next]_vars, NEW m, Kept(m)'
    PROVE  Kept(m) \/ \E p \in Processes, c \in Commands :
                         Arrive(p, c) /\ m.command = c
<1> USE DEF Answering
<1>1. /\ TypeOK /\ ConsumersAreBound /\ RoutedOnce /\ bound \subseteq Queues
  BY DEF Held, Bounded, TypeOK
<1>2. ASSUME exchange' \subseteq exchange,
             bound' \subseteq Queues,
             \A q \in Queues : ready'[q] \subseteq ready[q],
             deliveries' \subseteq deliveries
      PROVE  Kept(m)
  BY <1>1, <1>2 DEF Kept, RoutedOnce
<1>3. bound' \subseteq Queues
  <2>1. Held'
    BY HeldStep
  <2> QED
    BY <2>1 DEF Held, Bounded, TypeOK
<1>4. CASE \/ Calling
           \/ \E p \in Processes, c \in Commands :
                Schedule(p, c) \/ Confirm(p, c)
           \/ \E d \in deliveries : Acknowledge(d)
           \/ UNCHANGED vars
  <2>1. UNCHANGED <<exchange, ready>> /\ deliveries' \subseteq deliveries
    BY <1>4, CallingLeaves
    DEF Schedule, Confirm, Acknowledge, vars, brokerVars
  <2> QED
    BY <1>2, <1>3, <2>1
<1>5. ASSUME NEW p \in Processes, CloseChannel(p),
             UNCHANGED <<exchange, bound>>,
             \A d \in deliveries' : d.live => d \in deliveries
      PROVE  Kept(m)
  <2>1. \A q \in Queues : ready'[q] = ready[q] \cup Returned(p, q)
    BY <1>1, <1>5, ChannelClosed
  <2>2. \A q \in Queues : \A n \in Returned(p, q) : Kept(n)
    BY <1>1, ReturnedMessages DEF Of, Kept
  <2> QED
    BY <1>1, <1>5, <2>1, <2>2 DEF Kept
<1>6. ASSUME NEW p \in Processes, Lose(p) PROVE Kept(m)
  <2>1. \A d \in deliveries' : d.live => d \in deliveries
    BY <1>1, <1>6, ChannelLost
  <2>2. CloseChannel(p) /\ UNCHANGED <<exchange, bound>>
    BY <1>6 DEF Lose
  <2> QED
    BY <1>5, <2>1, <2>2
<1>7. ASSUME \/ \E p \in Processes : Crash(p)
             \/ \E d \in deliveries : AcknowledgeTooLate(d)
      PROVE  Kept(m)
  <2>1. \A d \in deliveries : d.setup.process \in Processes
    BY <1>1 DEF TypeOK, Setup
  <2>2. PICK p \in Processes : End(p)
    BY <1>7, <2>1 DEF Crash, AcknowledgeTooLate
  <2>3. /\ CloseChannel(p) /\ UNCHANGED <<exchange, bound>>
        /\ \A d \in deliveries' : d.live => d \in deliveries
    BY <2>2 DEF End
  <2> QED
    BY <1>5, <2>3
<1>8. ASSUME NEW p \in Processes, NEW c \in Commands, Arrive(p, c)
      PROVE  Kept(m) \/ m.command = c
  <2>1. PICK new : new = [command |-> c, copy |-> copies[c] + 1]
    OBVIOUS
  <2>2. /\ exchange' = exchange \cup {new}
        /\ UNCHANGED <<ready, deliveries, bound>>
        /\ new.command = c
    BY <1>8, <2>1 DEF Arrive
  <2> QED
    BY <2>2 DEF Kept
<1>9. ASSUME NEW n \in exchange, Route(n) PROVE Kept(m)
  <2>1. /\ exchange' = exchange \ {n}
        /\ \A q \in Queues : ready'[q] \subseteq ready[q] \cup {n}
        /\ UNCHANGED <<deliveries, bound>>
    BY <1>1, <1>9 DEF Route
  <2> QED
    BY <1>1, <2>1 DEF Kept
<1>10. ASSUME NEW q \in Queues, NEW n \in ready[q], Deliver(q, n)
       PROVE  Kept(m)
  <2>1. PICK d : d = Delivery(n, Head(consumers[q]))
    OBVIOUS
  <2>2. /\ d.message = n
        /\ deliveries' = deliveries \cup {d}
        /\ \A o \in Queues : ready'[o] \subseteq ready[o]
        /\ UNCHANGED <<exchange, bound>>
    BY <1>1, <1>10, <2>1 DEF Deliver, Delivery, TypeOK
  <2>3. Kept(n)
    BY <1>1 DEF Kept, RoutedOnce
  <2> QED
    BY <1>1, <2>2, <2>3 DEF Kept
<1> QED
  BY <1>4, <1>6, <1>7, <1>8, <1>9, <1>10, Steps DEF Calling

\* The broker lets go of what was answered or had no queue, in any step.
LEMMA ReleaseStep ==
    ASSUME Answering, Answering', [Next]_vars
    PROVE  Deferred!Release
<1> DEFINE released == {c \in scheduled : \A m \in Copies(c) : ~Kept(m)}
<1>1. /\ copies \in [Commands -> Nat] /\ scheduled \subseteq Commands
      /\ copies' \in [Commands -> Nat] /\ scheduled' \subseteq Commands
  BY DEF Answering, Held, Bounded, Counters
<1>2. scheduled \subseteq scheduled'
      /\ \A c \in Commands : copies'[c] = copies[c] \/ \E p \in Processes :
                                                          Arrive(p, c)
  <2>1. CASE UNCHANGED <<copies, scheduled>>
    BY <2>1
  <2>2. ASSUME NEW p \in Processes, NEW c \in Commands, Confirm(p, c)
        PROVE  scheduled \subseteq scheduled' /\ copies' = copies
    BY <2>2 DEF Confirm
  <2>3. ASSUME NEW p \in Processes, NEW c \in Commands, Arrive(p, c)
        PROVE  /\ scheduled' = scheduled
               /\ \A b \in Commands \ {c} : copies'[b] = copies[b]
    BY <1>1, <2>3 DEF Arrive
  <2>4. ASSUME \/ \E p \in Processes : Crash(p)
               \/ \E d \in deliveries : AcknowledgeTooLate(d)
        PROVE  UNCHANGED <<copies, scheduled>>
    BY <2>4 DEF Crash, AcknowledgeTooLate, End
  <2>5. ASSUME \/ Calling
               \/ \E p \in Processes : Lose(p)
               \/ \E p \in Processes, c \in Commands : Schedule(p, c)
               \/ \E m \in exchange : Route(m)
               \/ \E q \in Queues : \E m \in ready[q] : Deliver(q, m)
               \/ \E d \in deliveries : Acknowledge(d)
               \/ UNCHANGED vars
        PROVE  UNCHANGED <<copies, scheduled>>
    BY <2>5, CallingLeaves
    DEF Lose, Schedule, Route, Deliver, Acknowledge, vars, senderVars
  <2> QED
    BY <2>1, <2>2, <2>3, <2>4, <2>5, Steps DEF Calling
<1>3. \A p \in Processes, c \in Commands : Arrive(p, c) => c \notin scheduled
  BY DEF Arrive, Answering, ConfirmedOnce
<1>4. released \subseteq released'
  <2> SUFFICES ASSUME NEW c \in released PROVE c \in released'
    OBVIOUS
  <2>1. /\ c \in scheduled /\ c \in scheduled' /\ c \in Commands
        /\ copies'[c] = copies[c]
    BY <1>1, <1>2, <1>3
  <2>2. Copies(c)' = Copies(c) /\ \A m \in Copies(c) : m.command = c
    BY <2>1 DEF Copies
  <2>3. ASSUME NEW m \in Copies(c), Kept(m)' PROVE FALSE
    <3>1. ~ Kept(m) /\ m.command = c
      BY <2>2
    <3> QED
      BY <1>3, <2>1, <2>3, <3>1, KeptBefore
  <2> QED
    BY <2>1, <2>2, <2>3
<1>5. ASSUME NEW c \in released'
      PROVE  c \in {m.command : m \in settled'} \cup {m.command : m \in unrouted'}
  <2>1. /\ c \in scheduled' /\ c \in Commands
        /\ \A m \in Copies(c)' : ~Kept(m)'
    BY <1>1, <1>5
  <2>2. 1 \in 1..copies'[c]
    BY <1>1, <2>1 DEF Answering, Held, Bounded, CopiesAreBounded
  <2>3. PICK m : m = [command |-> c, copy |-> 1]
    OBVIOUS
  <2>4. m \in Copies(c)' /\ m.command = c
    BY <2>2, <2>3 DEF Copies
  <2>5. Tracked(m)'
    BY <2>1, <2>2, <2>3 DEF Answering, Held, CopiesAreTracked
  <2>6. m \in settled' \cup unrouted'
    BY <2>1, <2>4, <2>5 DEF Tracked, Kept
  <2> QED
    BY <2>4, <2>6
<1> QED
  BY <1>4, <1>5 DEF Deferred!Release

\* The commands that are due: a copy of them has left the exchange.
Ripe == {c \in Commands : ~(Copies(c) \subseteq exchange)}

\* Every step is a step of DeferredCommands or leaves it unchanged.
LEMMA DeferredStep ==
    ASSUME Answering, Answering', [Next]_vars
    PROVE  [Deferred!Next]_Deferred!vars
<1>1. /\ TypeOK /\ Counters /\ ConsumersAreBound /\ RoutedOnce
      /\ copies \in [Commands -> Nat]
      /\ exchange \subseteq Message
      /\ \A q \in Queues : ready[q] \subseteq Message
      /\ \A d \in deliveries : d.message \in Message
  BY DEF Answering, Held, Bounded, TypeOK, Counters
<1>2. Deferred!Release
  BY ReleaseStep
<1>3. ASSUME Ripe \subseteq Ripe',
             (bound # {})' = (bound # {}),
             UNCHANGED <<scheduled, executed, settled, unrouted>>
      PROVE  Deferred!Next
  <2>1. PICK C \in SUBSET Commands : C = Ripe'
    BY DEF Ripe
  <2>2. Ripe' = Ripe \cup C
    BY <1>3, <2>1
  <2>3. Deferred!Ripen(C)
    BY <1>3, <2>2 DEF Deferred!Ripen, Ripe
  <2> QED
    BY <1>2, <2>3 DEF Deferred!Next
<1>4. ASSUME (bound # {})' = (bound # {}),
             UNCHANGED <<scheduled, executed, settled, unrouted, exchange,
                         copies>>
      PROVE  Deferred!Next
  <2>1. Ripe \subseteq Ripe'
    BY <1>4 DEF Ripe, Copies
  <2> QED
    BY <1>3, <1>4, <2>1
<1>5. CASE \/ \E p \in Processes : Lose(p)
           \/ \E p \in Processes, c \in Commands : Schedule(p, c)
  <2>1. UNCHANGED <<bound, scheduled, executed, settled, unrouted, exchange,
                    copies>>
    BY <1>5
    DEF Lose, Schedule, brokerVars, historyVars
  <2> QED
    BY <1>4, <2>1
<1>6. ASSUME \/ \E p \in Processes : Crash(p)
             \/ \E d \in deliveries : AcknowledgeTooLate(d)
      PROVE  Deferred!Next
  <2>1. UNCHANGED <<bound, scheduled, executed, settled, unrouted, exchange,
                    copies>>
    BY <1>6 DEF Crash, AcknowledgeTooLate, End, historyVars
  <2> QED
    BY <1>4, <2>1
<1>7. ASSUME Calling PROVE Deferred!Next
  <2>1. /\ UNCHANGED <<scheduled, executed, settled, unrouted, exchange, copies>>
        /\ bound \subseteq bound'
    BY <1>7, CallingLeaves DEF senderVars, historyVars
  <2>2. CASE (bound # {})' = (bound # {})
    BY <1>4, <2>1, <2>2
  <2>3. CASE bound = {} /\ bound' # {}
    <3>1. Deferred!Serve
      BY <2>1, <2>3 DEF Deferred!Serve, Copies
    <3> QED
      BY <1>2, <3>1 DEF Deferred!Next
  <2> QED
    BY <2>1, <2>2, <2>3
<1>8. ASSUME NEW p \in Processes, NEW c \in Commands, Arrive(p, c)
      PROVE  Deferred!Next
  <2>1. PICK new : new = [command |-> c, copy |-> copies[c] + 1]
    OBVIOUS
  <2>2. /\ exchange' = exchange \cup {new}
        /\ UNCHANGED <<bound, scheduled, executed, settled, unrouted>>
        /\ \A b \in Commands : copies'[b] = IF b = c THEN copies[c] + 1
                                            ELSE copies[b]
        /\ new.command = c /\ new.copy = copies[c] + 1
    BY <1>1, <1>8, <2>1 DEF Arrive, historyVars
  <2>3. ASSUME NEW b \in Commands
        PROVE  Copies(b)' \subseteq exchange' <=> Copies(b) \subseteq exchange
    <3>1. new \notin Copies(b)
      BY <1>1, <2>2 DEF Copies
    <3>2. Copies(b) \subseteq Copies(b)'
      BY <1>1, <2>2 DEF Copies
    <3>3. Copies(b)' \subseteq Copies(b) \cup {new}
      <4> SUFFICES ASSUME NEW m \in Copies(b)', m \notin Copies(b)
                   PROVE  m = new
        OBVIOUS
      <4>1. /\ m \in [command : {b}, copy : 1..copies'[b]]
            /\ m \notin [command : {b}, copy : 1..copies[b]]
        BY DEF Copies
      <4>2. /\ m.command = b /\ m.copy \in 1..copies'[b]
            /\ m = [command |-> m.command, copy |-> m.copy]
        BY <4>1
      <4>3. m.copy \notin 1..copies[b]
        BY <4>1, <4>2
      <4>4. b = c /\ m.copy = copies[c] + 1
        BY <1>1, <2>2, <4>2, <4>3
      <4> QED
        BY <2>1, <4>2, <4>4
    <3> QED
      BY <2>2, <3>1, <3>2, <3>3
  <2>4. Ripe \subseteq Ripe'
    BY <2>3 DEF Ripe
  <2> QED
    BY <1>3, <2>2, <2>4
<1>9. ASSUME NEW p \in Processes, NEW c \in Commands, Confirm(p, c)
      PROVE  Deferred!Next
  <2>1. UNCHANGED <<bound, executed, settled, unrouted, exchange, copies>>
        /\ scheduled' = scheduled \cup {c}
    BY <1>9 DEF Confirm, brokerVars, historyVars
  <2>2. Deferred!Accept(c)
    BY <2>1 DEF Deferred!Accept, Copies
  <2> QED
    BY <1>2, <2>2 DEF Deferred!Next
<1>10. ASSUME NEW m \in exchange, Route(m) PROVE Deferred!Next
  <2>1. /\ exchange' = exchange \ {m}
        /\ UNCHANGED <<bound, scheduled, executed, settled, copies>>
        /\ unrouted' = IF bound = {} THEN unrouted \cup {m} ELSE unrouted
    BY <1>10 DEF Route, senderVars
  <2>2. m.command \in Commands /\ m \in Copies(m.command)
    <3>1. m \in Message /\ m.copy <= copies[m.command]
      BY <1>1 DEF RoutedOnce
    <3>2. /\ m.command \in Commands
          /\ m.copy \in Nat \ {0}
          /\ m = [command |-> m.command, copy |-> m.copy]
      BY <3>1, AmqpSchedulerAssumption DEF Message
    <3>3. m.copy \in 1..copies[m.command]
      BY <1>1, <3>1, <3>2
    <3> QED
      BY <3>2, <3>3 DEF Copies
  <2>3. \A c \in Commands : /\ Copies(c)' = Copies(c)
                            /\ m \in Copies(c) => c = m.command
    BY <2>1 DEF Copies
  <2>4. Ripe' = Ripe \cup {m.command}
    BY <2>1, <2>2, <2>3 DEF Ripe
  <2>5. CASE bound # {}
    BY <1>3, <2>1, <2>4, <2>5
  <2>6. CASE bound = {}
    <3>1. PICK C \in SUBSET Commands : C = {m.command}
      BY <2>2
    <3>2. {n.command : n \in unrouted'} = {n.command : n \in unrouted} \cup C
      BY <2>1, <2>6, <3>1
    <3>3. Deferred!Miss(C)
      BY <2>1, <2>4, <2>6, <3>1, <3>2 DEF Deferred!Miss, Ripe
    <3> QED
      BY <1>2, <3>3 DEF Deferred!Next
  <2> QED
    BY <2>5, <2>6
<1>11. ASSUME NEW q \in Queues, NEW m \in ready[q], Deliver(q, m)
       PROVE  Deferred!Next
  <2>1. /\ UNCHANGED <<bound, scheduled, settled, unrouted, exchange, copies>>
        /\ m.command \in Commands
        /\ \A c \in Commands : executed'[c] = IF c = m.command
                                              THEN executed[c] + 1
                                              ELSE executed[c]
        /\ executed' \in [Commands -> Nat]
    BY <1>1, <1>11 DEF Deliver, RoutedOnce, Message, senderVars
  <2>2. bound # {} /\ Kept(m)
    BY <1>1 DEF RoutedOnce, Kept
  <2>3. m \in Copies(m.command) /\ m \notin exchange
    <3>1. m \in Message /\ m.copy <= copies[m.command] /\ m \notin exchange
      BY <1>1 DEF RoutedOnce, Routed
    <3>2. /\ m.command \in Commands
          /\ m.copy \in Nat \ {0}
          /\ m = [command |-> m.command, copy |-> m.copy]
      BY <3>1, AmqpSchedulerAssumption DEF Message
    <3>3. m.copy \in 1..copies[m.command]
      BY <1>1, <3>1, <3>2
    <3> QED
      BY <3>1, <3>2, <3>3 DEF Copies
  <2>4. PICK C \in SUBSET Commands : C = {m.command}
    BY <2>1
  <2>5. C \subseteq Ripe
    BY <2>1, <2>3, <2>4 DEF Ripe
  <2>6. C \cap {c \in scheduled : \A n \in Copies(c) : ~Kept(n)} = {}
    BY <2>2, <2>3, <2>4
  <2>7. executed' = [c \in Commands |-> IF c \in C THEN executed[c] + 1
                                        ELSE executed[c]]
    BY <2>1, <2>4
  <2>8. UNCHANGED Ripe
    BY <2>1 DEF Ripe, Copies
  <2>9. Deferred!Execute(C)
    BY <2>1, <2>2, <2>5, <2>6, <2>7, <2>8 DEF Deferred!Execute, Ripe
  <2> QED
    BY <1>2, <2>9 DEF Deferred!Next
<1>12. ASSUME NEW d \in deliveries, Acknowledge(d) PROVE Deferred!Next
  <2>1. /\ settled' = settled \cup {d.message}
        /\ UNCHANGED <<bound, scheduled, executed, unrouted, exchange, copies>>
    BY <1>12 DEF Acknowledge, senderVars
  <2>2. PICK c \in Commands : c = d.message.command
    BY <1>1 DEF Message
  <2>3. executed[c] > 0
    BY <1>1, <2>2 DEF RoutedOnce
  <2>4. {m.command : m \in settled'} = {m.command : m \in settled} \cup {c}
    BY <2>1, <2>2
  <2>5. Deferred!Answer(c)
    BY <2>1, <2>3, <2>4 DEF Deferred!Answer, Copies
  <2> QED
    BY <1>2, <2>5 DEF Deferred!Next
<1>13. CASE UNCHANGED vars
  <2>1. UNCHANGED <<exchange, bound, ready, deliveries, copies, scheduled,
                    executed, settled, unrouted>>
    BY <1>13 DEF vars, senderVars, brokerVars, historyVars
  <2> QED
    BY <2>1 DEF Deferred!vars, Copies, Kept
<1> QED
  BY <1>5, <1>6, <1>7, <1>8, <1>9, <1>10, <1>11, <1>12, <1>13, Steps
  DEF Calling

\* The processes, the exchange and its queues implement DeferredCommands: a
\* command is executed when it is due and not before, the broker lets go of it
\* only when its callback has settled or no process had ever subscribed, and
\* what has settled and is nowhere in the broker is executed no more, whatever
\* connections are lost and whichever processes end.
THEOREM CommandsAreDeferred == Spec => DeferredSpec
<1>1. Init => Deferred!Init
  <2> SUFFICES ASSUME Init PROVE Deferred!Init
    OBVIOUS
  <2>1. \A c \in Commands : Copies(c) = {}
    BY DEF Init, Copies
  <2> QED
    BY <2>1 DEF Init, Deferred!Init
<1>2. Answering /\ Answering' /\ [Next]_vars => [Deferred!Next]_Deferred!vars
  BY DeferredStep
<1> QED
  BY <1>1, <1>2, AnsweringInvariant, PTL DEF Spec, DeferredSpec, Deferred!Spec
=============================================================================
