--------------------------- MODULE SideEffectQueue ---------------------------
(***************************************************************************)
(* Side effects that are not executed by the projection but put in a       *)
(* queue, and tried again when they fail: the SideEffectHelper of          *)
(* examples/side-effect-custom-handling, with emit as the side effect and  *)
(* the event store it appends to.                                          *)
(*                                                                         *)
(* The helper publishes on one channel and acknowledges on another, and    *)
(* awaits neither: what it has handed over is on its way (sending, acking) *)
(* until it reaches the broker.  How long the broker delays a message is   *)
(* left open.                                                              *)
(***************************************************************************)
EXTENDS Integers, FiniteSets, FiniteSetsExt

CONSTANTS Effects,       \* the side effects, called once each
          Groups,        \* the aggregates to which a side effect emits
          MaxTries,      \* SideEffectHelper.maxTries
          PublishFails,  \* an append may happen and be rejected all the same
          MaxCrashes     \* bound on the ends of the process

ASSUME SideEffectQueueAssumption ==
    /\ IsFiniteSet(Effects)
    /\ IsFiniteSet(Groups) /\ Groups # {}
    /\ MaxTries \in Nat \ {0}
    /\ PublishFails \in BOOLEAN
    /\ MaxCrashes \in Nat

\* Two messages of an effect may have the same number of tries: nth tells them
\* apart.
Message == [effect : Effects, try : Nat, nth : Nat \ {0}]

Stage == {"call", "emit", "report"}

VARIABLES
    up,          \* the process runs
    registered,  \* the functions this release has registered
    sending,     \* published, not yet at the broker
    queue,       \* (broker) the exchange and its queue
    deliveries,  \* callbacks under way: message, stage, appends awaited
    acking,      \* acknowledged, which the broker does not know yet
    late,        \* appends that go on after their callback has failed
    log,         \* how often the events of an effect are in a stream
    reports,     \* SideEffectFailed events of an effect
    called,      \* (history) effects that a projection has called
    tries,       \* (history) how often the function was called
    succeeded,   \* (history) effects whose function has returned
    dropped,     \* (history) effects whose message ended with the process
    ignored,     \* (history) effects that a release did not know
    unreported,  \* (history) effects whose report was rejected
    crashes      \* (bound) ends of the process

brokerVars == <<sending, queue, acking>>
storeVars == <<log, reports>>
historyVars == <<called, tries, succeeded, dropped, ignored, unreported>>
vars == <<up, registered, brokerVars, deliveries, late, storeVars,
          historyVars, crashes>>

Init == /\ up = TRUE
        /\ registered = Effects
        /\ sending = {}
        /\ queue = {}
        /\ deliveries = {}
        /\ acking = {}
        /\ late = {}
        /\ log = [e \in Effects |-> [g \in Groups |-> 0]]
        /\ reports = [e \in Effects |-> 0]
        /\ called = {}
        /\ tries = [e \in Effects |-> 0]
        /\ succeeded = {}
        /\ dropped = {}
        /\ ignored = {}
        /\ unreported = {}
        /\ crashes = 0

Known == sending \cup queue \cup acking
           \cup {d.message : d \in deliveries} \cup {a.message : a \in late}

\* The message that queue publishes.
NewMessage(e, t) ==
    LET used == {m.nth : m \in {k \in Known : k.effect = e /\ k.try = t}}
    IN  [effect |-> e, try |-> t,
         nth |-> Min((1..(Cardinality(used) + 1)) \ used)]
-----------------------------------------------------------------------------
(* The projection, and the way to the broker and back. *)

\* The function that customSideEffect returns: it is wrapped in sideEffect, so
\* that a replay does not call it.
Queue(e) ==
    /\ up
    /\ e \in registered \ called
    /\ called' = called \cup {e}
    /\ sending' = sending \cup {NewMessage(e, 0)}
    /\ UNCHANGED <<up, registered, queue, acking, deliveries, late, storeVars,
                   tries, succeeded, dropped, ignored, unreported, crashes>>

Arrive(m) ==
    /\ m \in sending
    /\ sending' = sending \ {m}
    /\ queue' = queue \cup {m}
    /\ UNCHANGED <<up, registered, acking, deliveries, late, storeVars,
                   historyVars, crashes>>

AckArrives(m) ==
    /\ m \in acking
    /\ acking' = acking \ {m}
    /\ UNCHANGED <<up, registered, sending, queue, deliveries, late, storeVars,
                   historyVars, crashes>>

\* The callback is called; the queue has no limit to the calls at a time.
Deliver(m) ==
    /\ up
    /\ m \in queue
    /\ m.effect \in registered
    /\ queue' = queue \ {m}
    /\ deliveries' = deliveries \cup
         {[message |-> m, stage |-> "call", open |-> {}]}
    /\ tries' = [tries EXCEPT ![m.effect] = @ + 1]
    /\ UNCHANGED <<up, registered, sending, acking, late, storeVars, called,
                   succeeded, dropped, ignored, unreported, crashes>>

\* No function is registered under the origin of the message.
Ignore(m) ==
    /\ up
    /\ m \in queue
    /\ m.effect \notin registered
    /\ queue' = queue \ {m}
    /\ acking' = acking \cup {m}
    /\ ignored' = ignored \cup {m.effect}
    /\ UNCHANGED <<up, registered, sending, deliveries, late, storeVars,
                   called, tries, succeeded, dropped, unreported, crashes>>
-----------------------------------------------------------------------------
(* The callback. *)

NextTry(t) == t + 1

\* Mutant: the last try is not made.
ExhaustedEarly(t) == t + 1 >= MaxTries

Exhausted(t) == t >= MaxTries

\* Mutant: after the retry the report is sent all the same (no return).
CatchAll(d) ==
    LET m == d.message
        t == NextTry(m.try)
    IN  /\ deliveries' = (deliveries \ {d})
              \cup {[d EXCEPT !.stage = "report", !.open = {}]}
        /\ sending' = IF Exhausted(t) THEN sending
                      ELSE sending \cup {NewMessage(m.effect, t)}
        /\ UNCHANGED acking

\* The function has thrown.  The message is published anew and acknowledged,
\* or, after the last try, the failure is to be reported.
Catch(d) ==
    LET m == d.message
        t == NextTry(m.try)
    IN  IF Exhausted(t)
        THEN /\ deliveries' = (deliveries \ {d})
                   \cup {[d EXCEPT !.stage = "report", !.open = {}]}
             /\ UNCHANGED <<sending, acking>>
        ELSE /\ sending' = sending \cup {NewMessage(m.effect, t)}
             /\ acking' = acking \cup {m}
             /\ deliveries' = deliveries \ {d}

\* The function throws before it emits anything.
Throw(d) ==
    /\ d \in deliveries
    /\ d.stage = "call"
    /\ Catch(d)
    /\ UNCHANGED <<up, registered, queue, late, storeVars, historyVars,
                   crashes>>

\* emit: one append for each aggregate, all at the same time.
Emit(d) ==
    /\ d \in deliveries
    /\ d.stage = "call"
    /\ deliveries' = (deliveries \ {d})
         \cup {[d EXCEPT !.stage = "emit", !.open = Groups]}
    /\ UNCHANGED <<up, registered, brokerVars, late, storeVars, historyVars,
                   crashes>>

\* Mutant: the first append that succeeds ends the function.
AnyAppended(d, g) == TRUE

\* Mutant: whether it was the last append is asked too early.
NoneLeft(d, g) == d.open = {}

AllAppended(d, g) == d.open = {g}

Append(e, g) == log' = [log EXCEPT ![e][g] = @ + 1]

\* The appends that the callback does not await any more.
Abandon(d, g) == late' = late \cup {[message |-> d.message, group |-> h] :
                                      h \in d.open \ {g}}

Appended(d, g) ==
    LET m == d.message
    IN  /\ d \in deliveries
        /\ g \in d.open
        /\ Append(m.effect, g)
        /\ IF AllAppended(d, g)
           THEN /\ deliveries' = deliveries \ {d}
                /\ Abandon(d, g)
                /\ acking' = acking \cup {m}
                /\ succeeded' = succeeded \cup {m.effect}
           ELSE /\ deliveries' = (deliveries \ {d})
                     \cup {[d EXCEPT !.open = @ \ {g}]}
                /\ UNCHANGED <<late, acking, succeeded>>
        /\ UNCHANGED <<up, registered, sending, queue, reports, called, tries,
                       dropped, ignored, unreported, crashes>>

\* Promise.all rejects with the first append that does; the others go on.  The
\* composed event store rejects an append it has made if its bus fails: a
\* catch() without a handler catches nothing.
AppendRejected(d, g) ==
    /\ d \in deliveries
    /\ g \in d.open
    /\ \/ UNCHANGED log
       \/ PublishFails /\ Append(d.message.effect, g)
    /\ Catch(d)
    /\ Abandon(d, g)
    /\ UNCHANGED <<up, registered, queue, reports, historyVars, crashes>>

AppendedLate(a) ==
    /\ a \in late
    /\ late' = late \ {a}
    /\ \/ Append(a.message.effect, a.group)
       \/ UNCHANGED log
    /\ UNCHANGED <<up, registered, brokerVars, deliveries, reports,
                   historyVars, crashes>>

Report(d) ==
    /\ d \in deliveries
    /\ d.stage = "report"
    /\ reports' = [reports EXCEPT ![d.message.effect] = @ + 1]
    /\ deliveries' = deliveries \ {d}
    /\ acking' = acking \cup {d.message}
    /\ UNCHANGED <<up, registered, sending, queue, late, log, historyVars,
                   crashes>>
-----------------------------------------------------------------------------
(* The process. *)

\* What was on its way is gone, and the broker delivers anew what it has not
\* seen acknowledged.
End(unacknowledged) ==
    /\ up' = FALSE
    /\ sending' = {}
    /\ queue' = queue \cup unacknowledged
    /\ deliveries' = {}
    /\ acking' = {}
    /\ late' = {}
    /\ dropped' = dropped \cup {m.effect : m \in sending}
    /\ crashes < MaxCrashes
    /\ crashes' = crashes + 1
    /\ UNCHANGED <<registered, log, called, tries, succeeded, ignored>>

Unacknowledged == acking \cup {d.message : d \in deliveries}

Crash == /\ up
         /\ End(Unacknowledged)
         /\ UNCHANGED <<reports, unreported>>

\* The report is rejected, which nobody catches: the message is acknowledged
\* and the process ends, maybe before that has reached the broker.
ReportRejected(d) ==
    /\ d \in deliveries
    /\ d.stage = "report"
    /\ \/ End(Unacknowledged) \/ End(Unacknowledged \ {d.message})
    /\ \/ /\ UNCHANGED reports
          /\ unreported' = unreported \cup {d.message.effect}
       \/ /\ PublishFails
          /\ reports' = [reports EXCEPT ![d.message.effect] = @ + 1]
          /\ UNCHANGED unreported

\* The next release may have moved the file of a side effect, which is the
\* origin it is registered under.
Restart == /\ ~up
           /\ up' = TRUE
           /\ registered' \in SUBSET Effects
           /\ UNCHANGED <<brokerVars, deliveries, late, storeVars,
                          historyVars, crashes>>

Transport == \/ \E m \in sending : Arrive(m)
             \/ \E m \in acking : AckArrives(m)

Callback == \/ \E m \in queue : Deliver(m) \/ Ignore(m)
            \/ \E d \in deliveries :
                 \/ Throw(d)
                 \/ Emit(d)
                 \/ \E g \in d.open : Appended(d, g) \/ AppendRejected(d, g)
                 \/ Report(d)
            \/ \E a \in late : AppendedLate(a)

Next == \/ \E e \in Effects : Queue(e)
        \/ Transport
        \/ Callback
        \/ \E d \in deliveries : ReportRejected(d)
        \/ Crash
        \/ Restart

Spec == Init /\ [][Next]_vars

\* The broker and the event store answer, the function returns or throws, and a
\* process that has ended is started again.  Crashes are never forced.
FairSpec == Spec /\ WF_vars(Transport) /\ WF_vars(Callback) /\ WF_vars(Restart)
-----------------------------------------------------------------------------
(* Properties *)

TypeOK == /\ up \in BOOLEAN
          /\ registered \subseteq Effects
          /\ sending \subseteq Message
          /\ queue \subseteq Message
          /\ deliveries \subseteq [message : Message, stage : Stage,
                                   open : SUBSET Groups]
          /\ acking \subseteq Message
          /\ late \subseteq [message : Message, group : Groups]
          /\ log \in [Effects -> [Groups -> Nat]]
          /\ reports \in [Effects -> Nat]

\* A side effect that was called is under way somewhere until all its events
\* are in their streams or its failure is reported, whatever fails on the way.
\* Three things escape the helper: a message that is still in the process when
\* this ends, one that a release does not know, and a report that is rejected.
NothingForgotten ==
    \A e \in called :
        \/ \E m \in sending \cup queue \cup {d.message : d \in deliveries} :
             m.effect = e
        \/ \A g \in Groups : log[e][g] > 0
        \/ reports[e] > 0
        \/ e \in dropped \cup ignored \cup unreported

\* As long as the process lives, an effect has one message, is tried maxTries
\* times at most, and ends in one of two ways: it succeeds, or its failure is
\* reported once.
ResolvedOnce ==
    crashes = 0 =>
        \A e \in Effects :
            /\ tries[e] <= MaxTries
            /\ reports[e] <= IF e \in succeeded THEN 0 ELSE 1
            /\ Cardinality({m \in sending \cup queue : m.effect = e})
                 + Cardinality({d \in deliveries : d.message.effect = e}) <= 1

\* Whatever is delivered twice or lost, a failure is reported only after the
\* function was called maxTries times: its message has counted every one of the
\* calls that led to it.
ReportedAfterAllTries ==
    \A e \in Effects : reports[e] > 0 => tries[e] >= MaxTries

\* A side effect that was called comes to an end: the retries end, and no
\* message circles for good.
EventuallyResolved ==
    \A e \in Effects :
        e \in called ~> \/ e \in succeeded
                        \/ reports[e] > 0
                        \/ e \in dropped \cup ignored \cup unreported
=============================================================================
