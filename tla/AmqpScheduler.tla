---------------------------- MODULE AmqpScheduler ----------------------------
(***************************************************************************)
(* The scheduler of packages/scheduler-amqp with the CommandScheduler that *)
(* starts and stops it, in several processes that share one exchange.      *)
(*                                                                         *)
(* Commands wait in a delayed exchange, which copies each of them to every *)
(* bound queue when it is due.  A queue has one active consumer at a time. *)
(* The broker and amqp-connection-manager, which connects again and then   *)
(* runs the setups of its channel anew, are external.  When a command is   *)
(* due is left open.                                                       *)
(***************************************************************************)
EXTENDS Integers, FiniteSets, SequencesExt, Lists

CONSTANTS Processes,  \* processes with a Woltage instance each
          Commands,   \* the commands that are scheduled
          MaxStarts,  \* bound on the calls of start
          MaxFaults   \* bound on lost connections and ended processes

ASSUME AmqpSchedulerAssumption ==
    /\ IsFiniteSet(Processes)
    /\ IsFiniteSet(Commands)
    /\ MaxStarts \in Nat
    /\ MaxFaults \in Nat

\* queuePrefix_<n>: the number is whatever consumerCount was.
Queues == (-MaxStarts)..MaxStarts

\* What subscribe hands to addSetup: a closure with the name of its queue.
Setup == [process : Processes, nth : 1..MaxStarts, queue : Queues]
NoSetup == [process |-> "none"]

\* A command is published again when its confirmation was lost.
Message == [command : Commands, copy : 1..(MaxFaults + 1)]

VARIABLES
    running,        \* CommandScheduler.#isRunning
    calls,          \* calls and setups that await the broker
    consumerCount,  \* AMQPScheduler.consumerCount
    setups,         \* the setups of the channel wrapper
    tags,           \* AMQPScheduler.consumerSetups: the last setup that ran
    fresh,          \* processes whose noted consumer is of the present channel
    connected,      \* the channel wrapper has a channel
    outbox,         \* published and not confirmed
    sent,           \* the part of it that was sent on this channel
    exchange,       \* (broker) messages that wait until they are due
    bound,          \* (broker) queues that are bound to the exchange
    ready,          \* (broker) messages of a queue that wait for a consumer
    consumers,      \* (broker) consumers of a queue; the first one is active
    deliveries,     \* messages whose callback is under way
    copies,         \* (history) how often a command reached the exchange
    scheduled,      \* (history) commands whose call of schedule has returned
    executed,       \* (history) how often the callback was called
    settled,        \* (history) messages acknowledged after their callback
    unrouted,       \* (history) messages that were due without a queue
    troubled,       \* (history) processes whose calls overlapped or were cut
    overtaken,      \* (history) processes stopped while their setups ran anew
    cuts,           \* (history) channels that were lost or ended
    starts, faults  \* (bounds)

processVars == <<running, calls, consumerCount, setups, tags, fresh, connected>>
senderVars == <<outbox, sent, copies, scheduled>>
brokerVars == <<exchange, bound, ready, consumers, deliveries>>
historyVars == <<executed, settled, unrouted>>
vars == <<processVars, senderVars, brokerVars, historyVars, troubled,
          overtaken, cuts, starts, faults>>

Init == /\ running = [p \in Processes |-> FALSE]
        /\ calls = [p \in Processes |-> {}]
        /\ consumerCount = [p \in Processes |-> 0]
        /\ setups = [p \in Processes |-> {}]
        /\ tags = [p \in Processes |-> NoSetup]
        /\ fresh = {}
        /\ connected = [p \in Processes |-> FALSE]
        /\ outbox = [p \in Processes |-> {}]
        /\ sent = [p \in Processes |-> {}]
        /\ exchange = {}
        /\ bound = {}
        /\ ready = [q \in Queues |-> {}]
        /\ consumers = [q \in Queues |-> <<>>]
        /\ deliveries = {}
        /\ copies = [c \in Commands |-> 0]
        /\ scheduled = {}
        /\ executed = [c \in Commands |-> 0]
        /\ settled = {}
        /\ unrouted = {}
        /\ troubled = {}
        /\ overtaken = {}
        /\ cuts = 0
        /\ starts = 0
        /\ faults = 0
-----------------------------------------------------------------------------
(* start and subscribe. *)

\* What awaits the broker: a call of start or of stop, or a setup that a new
\* channel runs anew, with what it does next.
Call == [kind : {"start", "setup"}, setup : Setup,
         step : {"bind", "consume", "note"}]
          \cup [kind : {"stop"}, setup : Setup, step : {"cancel", "skip"}]

\* The setups of a new channel (_settingUp of its wrapper).
SettingUp(p) == {call \in calls[p] : call.kind = "setup"}

\* The calls of start and stop that have not returned.
Awaited(p) == calls[p] \ SettingUp(p)

\* addSetup and removeSetup wait until the setups of a new channel have run.
HasTurn(p, call) == call.kind = "setup" \/ SettingUp(p) = {}

\* Mutant: every subscription has a queue of its own.
OwnQueue(p) == starts

QueueName(p) == consumerCount[p]

\* addSetup runs the setup if there is a channel, and leaves it to the next
\* connect otherwise.
Start(p) ==
    LET setup == [process |-> p, nth |-> starts + 1, queue |-> QueueName(p)]
    IN  /\ ~running[p]
        /\ starts < MaxStarts
        /\ starts' = starts + 1
        /\ running' = [running EXCEPT ![p] = TRUE]
        /\ setups' = [setups EXCEPT ![p] = @ \cup {setup}]
        /\ IF connected[p]
           THEN /\ calls' = [calls EXCEPT ![p] = @ \cup
                       {[kind |-> "start", setup |-> setup, step |-> "bind"]}]
                /\ UNCHANGED consumerCount
           ELSE /\ consumerCount' = [consumerCount EXCEPT ![p] = @ + 1]
                /\ UNCHANGED calls
        /\ troubled' = IF Awaited(p) # {} THEN troubled \cup {p} ELSE troubled
        /\ UNCHANGED <<tags, fresh, connected, senderVars, brokerVars,
                       historyVars, overtaken, cuts, faults>>

\* A setup has a step for each of its awaits, and others go on in between.
Proceed(p, call, step) ==
    calls' = [calls EXCEPT ![p] =
                (@ \ {call}) \cup {[call EXCEPT !.step = step]}]

\* Its queue is asserted and bound.
Bind(p, call) ==
    /\ call \in calls[p]
    /\ call.step = "bind"
    /\ HasTurn(p, call)
    /\ bound' = bound \cup {call.setup.queue}
    /\ Proceed(p, call, "consume")
    /\ UNCHANGED <<running, consumerCount, setups, tags, fresh, connected,
                   senderVars, exchange, ready, consumers, deliveries,
                   historyVars, troubled, overtaken, cuts, starts, faults>>

\* The broker has a consumer for it.
Consume(p, call) ==
    /\ call \in calls[p]
    /\ call.step = "consume"
    /\ consumers' = [consumers EXCEPT ![call.setup.queue] =
                       Append(@, call.setup)]
    /\ Proceed(p, call, "note")
    /\ UNCHANGED <<running, consumerCount, setups, tags, fresh, connected,
                   senderVars, exchange, bound, ready, deliveries, historyVars,
                   troubled, overtaken, cuts, starts, faults>>

\* The tag of the consumer is noted; a call of start then counts it.
Subscribed(p, call) ==
    /\ call \in calls[p]
    /\ call.step = "note"
    /\ tags' = [tags EXCEPT ![p] = call.setup]
    /\ fresh' = fresh \cup {p}
    /\ calls' = [calls EXCEPT ![p] = @ \ {call}]
    /\ consumerCount' = IF call.kind = "start"
                        THEN [consumerCount EXCEPT ![p] = @ + 1]
                        ELSE consumerCount
    /\ UNCHANGED <<running, setups, connected, senderVars, brokerVars,
                   historyVars, troubled, overtaken, cuts, starts, faults>>
-----------------------------------------------------------------------------
(* stop and unsubscribe. *)

\* Mutant: the consumer is cancelled, and its setup kept.
KeepSetup(p) == UNCHANGED setups

RemoveSetup(p) == setups' = [setups EXCEPT ![p] = @ \ {tags[p]}]

\* The setup noted last is that of the last start, and nothing is awaited.
Settled(p) == /\ Awaited(p) = {}
              /\ tags[p] \in setups[p]
              /\ \A s \in setups[p] : s.nth <= tags[p].nth

\* unsubscribe returns early when no setup has run yet.  The consumer tag it
\* will cancel is the one noted now: while the setups of a new channel run, that
\* of the lost one.
Stop(p) ==
    /\ running[p]
    /\ running' = [running EXCEPT ![p] = FALSE]
    /\ IF tags[p] = NoSetup
       THEN UNCHANGED <<setups, calls, consumerCount>>
       ELSE /\ RemoveSetup(p)
            /\ IF connected[p]
               THEN /\ calls' = [calls EXCEPT ![p] = @ \cup
                            {[kind |-> "stop", setup |-> tags[p],
                              step |-> IF p \in fresh THEN "cancel"
                                       ELSE "skip"]}]
                    /\ UNCHANGED consumerCount
               ELSE /\ consumerCount' = [consumerCount EXCEPT ![p] = @ - 1]
                    /\ UNCHANGED calls
    /\ troubled' = IF Settled(p) THEN troubled ELSE troubled \cup {p}
    /\ overtaken' = IF SettingUp(p) # {} THEN overtaken \cup {p} ELSE overtaken
    /\ UNCHANGED <<tags, fresh, connected, senderVars, brokerVars, historyVars,
                   cuts, starts, faults>>

\* The consumer with the tag is cancelled, if its channel is still there; its
\* binding and its queue are kept.
Unsubscribed(p, call) ==
    /\ call \in calls[p]
    /\ call.kind = "stop"
    /\ HasTurn(p, call)
    /\ consumers' = IF call.step = "cancel"
                    THEN [consumers EXCEPT ![call.setup.queue] =
                            KeepOnly(@, Setup \ {call.setup})]
                    ELSE consumers
    /\ calls' = [calls EXCEPT ![p] = @ \ {call}]
    /\ consumerCount' = [consumerCount EXCEPT ![p] = @ - 1]
    /\ UNCHANGED <<running, setups, tags, fresh, connected, senderVars,
                   exchange, bound, ready, deliveries, historyVars, troubled,
                   overtaken, cuts, starts, faults>>
-----------------------------------------------------------------------------
(* The connection. *)

\* Mutant: a new channel starts without the setups of the last one.
Forgotten(p) == {}

Reruns(p) == setups[p]

\* The setups run anew, all at the same time.
Connect(p) ==
    /\ ~connected[p]
    /\ connected' = [connected EXCEPT ![p] = TRUE]
    /\ calls' = [calls EXCEPT ![p] =
                   {[kind |-> "setup", setup |-> s, step |-> "bind"] :
                      s \in Reruns(p)}]
    /\ UNCHANGED <<running, consumerCount, setups, tags, fresh, senderVars,
                   brokerVars, historyVars, troubled, overtaken, cuts, starts,
                   faults>>

Of(p) == {d \in deliveries : d.setup.process = p}

\* The broker takes the consumers of a channel away and puts what they have not
\* acknowledged back to its queue.
CloseChannel(p) ==
    /\ consumers' = [q \in Queues |->
                       KeepOnly(consumers[q], {s \in Setup : s.process # p})]
    /\ ready' = [q \in Queues |->
                   ready[q] \cup {d.message : d \in {e \in Of(p) :
                                       e.live /\ e.setup.queue = q}}]
    /\ connected' = [connected EXCEPT ![p] = FALSE]
    /\ calls' = [calls EXCEPT ![p] = {}]
    /\ fresh' = fresh \ {p}
    /\ sent' = [sent EXCEPT ![p] = {}]
    /\ overtaken' = overtaken \ {p}
    /\ cuts' = cuts + 1

Number(p, kind) == Cardinality({call \in calls[p] : call.kind = kind})

\* Calls that await the broker are rejected, those that wait for the setups of
\* the channel return without it, and a setup that is cut will run again.
\* Callbacks go on, and messages that were not confirmed will be sent again.
Lose(p) ==
    /\ connected[p]
    /\ faults < MaxFaults
    /\ faults' = faults + 1
    /\ CloseChannel(p)
    /\ deliveries' = (deliveries \ Of(p))
                        \cup {[d EXCEPT !.live = FALSE] : d \in Of(p)}
    /\ consumerCount' =
         IF SettingUp(p) = {} THEN consumerCount
         ELSE [consumerCount EXCEPT ![p] = @ + Number(p, "start")
                                             - Number(p, "stop")]
    /\ troubled' = IF calls[p] # {} /\ SettingUp(p) = {} THEN troubled \cup {p}
                   ELSE troubled
    /\ UNCHANGED <<running, setups, tags, outbox, copies, scheduled, exchange,
                   bound, historyVars, starts>>

\* The process ends and a new one takes its place.
End(p) ==
    /\ CloseChannel(p)
    /\ deliveries' = deliveries \ Of(p)
    /\ running' = [running EXCEPT ![p] = FALSE]
    /\ consumerCount' = [consumerCount EXCEPT ![p] = 0]
    /\ setups' = [setups EXCEPT ![p] = {}]
    /\ tags' = [tags EXCEPT ![p] = NoSetup]
    /\ outbox' = [outbox EXCEPT ![p] = {}]
    /\ UNCHANGED <<copies, scheduled, exchange, bound, historyVars, troubled,
                   starts>>

Crash(p) == /\ faults < MaxFaults
            /\ faults' = faults + 1
            /\ End(p)
-----------------------------------------------------------------------------
(* schedule. *)

Schedule(p, c) ==
    /\ copies[c] = 0
    /\ \A o \in Processes : c \notin outbox[o]
    /\ outbox' = [outbox EXCEPT ![p] = @ \cup {c}]
    /\ UNCHANGED <<processVars, sent, copies, scheduled, brokerVars,
                   historyVars, troubled, overtaken, cuts,
                   starts, faults>>

Arrive(p, c) ==
    /\ connected[p]
    /\ c \in outbox[p] \ sent[p]
    /\ sent' = [sent EXCEPT ![p] = @ \cup {c}]
    /\ copies' = [copies EXCEPT ![c] = @ + 1]
    /\ exchange' = exchange \cup {[command |-> c, copy |-> copies[c] + 1]}
    /\ UNCHANGED <<processVars, outbox, scheduled, bound, ready, consumers,
                   deliveries, historyVars, troubled, overtaken, cuts,
                   starts, faults>>

Confirm(p, c) ==
    /\ c \in sent[p]
    /\ sent' = [sent EXCEPT ![p] = @ \ {c}]
    /\ outbox' = [outbox EXCEPT ![p] = @ \ {c}]
    /\ scheduled' = scheduled \cup {c}
    /\ UNCHANGED <<processVars, copies, brokerVars, historyVars, troubled,
                   overtaken, cuts, starts, faults>>
-----------------------------------------------------------------------------
(* Execution. *)

\* A message is due: every bound queue gets a copy, and without one the message
\* is gone.
Route(m) ==
    /\ m \in exchange
    /\ exchange' = exchange \ {m}
    /\ ready' = [q \in Queues |-> IF q \in bound THEN ready[q] \cup {m}
                                  ELSE ready[q]]
    /\ unrouted' = IF bound = {} THEN unrouted \cup {m} ELSE unrouted
    /\ UNCHANGED <<processVars, senderVars, bound, consumers, deliveries,
                   executed, settled, troubled, overtaken, cuts, starts,
                   faults>>

\* Mutant: the broker need not wait for an acknowledgement (noAck).
Unacknowledged(m, s) == [message |-> m, setup |-> s, live |-> FALSE]

\* A delivery is live as long as its channel is there to acknowledge it.
Delivery(m, s) == [message |-> m, setup |-> s, live |-> TRUE]

\* The active consumer gets a message, and calls its callback; there is no
\* limit to the messages it is given at a time.
Deliver(q, m) ==
    /\ consumers[q] # <<>>
    /\ m \in ready[q]
    /\ ready' = [ready EXCEPT ![q] = @ \ {m}]
    /\ deliveries' = deliveries \cup {Delivery(m, Head(consumers[q]))}
    /\ executed' = [executed EXCEPT ![m.command] = @ + 1]
    /\ UNCHANGED <<processVars, senderVars, exchange, bound, consumers,
                   settled, unrouted, troubled, overtaken, cuts, starts,
                   faults>>

\* The callback of Woltage catches what the command throws, so the message is
\* acknowledged.  On a channel that was lost this throws, and the process ends.
Acknowledge(d) ==
    /\ d \in deliveries
    /\ d.live
    /\ deliveries' = deliveries \ {d}
    /\ settled' = settled \cup {d.message}
    /\ UNCHANGED <<processVars, senderVars, exchange, bound, ready, consumers,
                   executed, unrouted, troubled, overtaken, cuts, starts,
                   faults>>

AcknowledgeTooLate(d) ==
    /\ d \in deliveries
    /\ ~d.live
    /\ End(d.setup.process)
    /\ UNCHANGED faults

Answer(p) == \E call \in calls[p] : \/ Bind(p, call)
                                     \/ Consume(p, call)
                                     \/ Subscribed(p, call)
                                     \/ Unsubscribed(p, call)
Publish(p) == \E c \in Commands : Arrive(p, c) \/ Confirm(p, c)
Settle == \E d \in deliveries : Acknowledge(d) \/ AcknowledgeTooLate(d)

Next == \/ \E p \in Processes :
             \/ Start(p)
             \/ Stop(p)
             \/ Answer(p)
             \/ Connect(p)
             \/ Lose(p)
             \/ Crash(p)
             \/ \E c \in Commands : Schedule(p, c)
             \/ Publish(p)
        \/ \E m \in exchange : Route(m)
        \/ \E q \in Queues : \E m \in ready[q] : Deliver(q, m)
        \/ Settle

Spec == Init /\ [][Next]_vars

\* The broker answers, routes and delivers, and connections are opened again.
FairSpec ==
    /\ Spec
    /\ \A p \in Processes : /\ WF_vars(Answer(p))
                            /\ WF_vars(Connect(p))
                            /\ WF_vars(Publish(p))
    /\ WF_vars(\E m \in exchange : Route(m))
    /\ \A q \in Queues : WF_vars(\E m \in ready[q] : Deliver(q, m))
-----------------------------------------------------------------------------
(* Properties *)

TypeOK == /\ running \in [Processes -> BOOLEAN]
          /\ calls \in [Processes -> SUBSET Call]
          /\ consumerCount \in [Processes -> Queues]
          /\ setups \in [Processes -> SUBSET Setup]
          /\ tags \in [Processes -> Setup \cup {NoSetup}]
          /\ fresh \subseteq Processes
          /\ connected \in [Processes -> BOOLEAN]
          /\ outbox \in [Processes -> SUBSET Commands]
          /\ sent \in [Processes -> SUBSET Commands]
          /\ exchange \subseteq Message
          /\ bound \subseteq Queues
          /\ ready \in [Queues -> SUBSET Message]
          /\ consumers \in [Queues -> Seq(Setup)]
          /\ deliveries \subseteq [message : Message, setup : Setup,
                                   live : BOOLEAN]

\* A command whose schedule has returned is not lost, whatever crashes, is cut
\* off or is stopped: the broker holds it until its callback has settled, unless
\* it was due before any process had ever subscribed.
NothingLost ==
    \A c \in scheduled :
        \E n \in 1..copies[c] :
            LET m == [command |-> c, copy |-> n]
            IN  \/ m \in exchange \cup settled \cup unrouted
                \/ \E q \in bound : m \in ready[q]
                \/ \E d \in deliveries : d.message = m /\ d.live

\* The broker keeps a message in the exchange, in a bound queue, or unacknowledged
\* by a consumer whose channel is there.
Kept(m) == \/ m \in exchange
           \/ \E q \in bound : m \in ready[q]
           \/ \E d \in deliveries : d.message = m /\ d.live

Copies(c) == [command : {c}, copy : 1..copies[c]]

\* What all processes and their broker implement: a command is not executed before
\* it is due, the broker does not let go of it before its callback has settled,
\* and it is not executed afterwards, unless it was due before any process had
\* ever subscribed.
Deferred == INSTANCE DeferredCommands
            WITH due <- {c \in Commands : ~(Copies(c) \subseteq exchange)},
                 answered <- {m.command : m \in settled},
                 missed <- {m.command : m \in unrouted},
                 released <- {c \in scheduled : \A m \in Copies(c) : ~Kept(m)},
                 served <- bound # {}

DeferredSpec == Deferred!Spec

\* Processes share one queue (queuePrefix and consumerCount): however many of
\* them start and stop, a command is executed once, and repeated only for what a
\* lost connection or an ended process has left without an answer.
OnceUnlessFault ==
    troubled = {} =>
        \A c \in Commands : executed[c] <= ((cuts + 1) * (cuts + 2)) \div 2

\* Where a process has consumers.
Places(p) ==
    {s \in UNION {{q} \X DOMAIN consumers[q] : q \in Queues} :
       consumers[s[1]][s[2]].process = p}

\* A process whose calls of start and stop never overlapped or were cut counts
\* its subscription right, and never takes a second queue.  It has one consumer
\* while it is started, and when it is stopped one only if it was stopped while
\* the setups of its channel ran anew: that one stays until the channel is gone.
CalmServesOnce ==
    \A p \in Processes \ troubled :
        calls[p] = {} =>
            /\ consumerCount[p] = IF running[p] THEN 1 ELSE 0
            /\ Cardinality(Places(p)) =
                 (IF running[p] /\ connected[p] THEN 1 ELSE 0)
                   + (IF p \in overtaken THEN 1 ELSE 0)
            /\ \A s \in Places(p) : s[1] = 0

\* "To execute a command of an aggregate at a specific time in the future"
\* (README.md:844): a command that waits for its time, with a queue to go to, is
\* executed, unless no process is left that is started.
DueIsExecuted ==
    \A c \in Commands :
        bound # {} /\ (\E m \in exchange : m.command = c)
        ~> \/ executed[c] > 0
           \/ \A p \in Processes : ~running[p]
           \/ troubled # {}
=============================================================================
