---------------------------- MODULE ProjectionRun ----------------------------
(***************************************************************************)
(* A projection following the event store: init, the handler of its        *)
(* subscription, the side effects its event handlers call, the position it *)
(* stores after every event, stop, crashes and restarts.                   *)
(*                                                                         *)
(* Only the events that match the projector's filter are visible to it, so *)
(* an event is its position.  A process that adds a projection it already  *)
(* has gets the existing object and initialises it again; Inits are the    *)
(* calls of init one process makes.                                        *)
(***************************************************************************)
EXTENDS Integers, FiniteSets

CONSTANTS Inits,            \* calls of Projection.init in one process
          MaxEvents,        \* bound on the events ever appended
          MaxRestarts,      \* bound on the ends of a process
          Erasable,         \* positions in streams that may be tombstoned
          PositionSurvives, \* the store gives positions back as bigint
          None              \* no subscription yet

ASSUME ProjectionRunAssumption ==
    /\ Inits # {}
    /\ None \notin Inits
    /\ MaxEvents \in Nat
    /\ MaxRestarts \in Nat
    /\ PositionSurvives \in BOOLEAN
    /\ Erasable \subseteq Nat

Position == 0..(MaxEvents - 1)

Nowhere == -1               \* no event, no stored position, START

Phase == {"project", "effect", "save", "finish"}

Handler == [by : Inits, position : Position, isReplaying : BOOLEAN,
            phase : Phase]

VARIABLES
    log,             \* the positions of the events in the event store
    next,            \* the position of the next event
    stored,          \* the position in the projection's store
    projected,       \* how often the handler of an event changed the store
    effects,         \* how often a side effect of an event was executed
    isActive,        \* the projection is the active one of its name
    up,              \* the process runs
    restarts,        \* how often it has ended
    pc,              \* the await at which a call of init is suspended
    isReplaying,     \* Projection.#isReplaying
    isLiveTracking,  \* Projection.#isLiveTracking
    latestPosition,  \* Projection.#latestPosition
    subscription,    \* Projection.#subscription
    open,            \* the subscriptions that are not destroyed
    cursor,          \* the last position a subscription delivered
    paused,          \* the subscription is paused
    handlers,        \* the runs of the 'data' handler that are under way
    closed,          \* the store of the projection is closed
    replayUntil      \* (history) the latest event when init looked for it

durableVars == <<log, next, stored, projected, effects, isActive>>
processVars == <<up, restarts>>
projectionVars == <<isReplaying, isLiveTracking, latestPosition>>
streamVars == <<subscription, open, cursor, paused>>
vars == <<durableVars, processVars, pc, projectionVars, streamVars, handlers,
          closed, replayUntil>>

\* A process that does not run has no projection.
Fresh ==
    /\ pc = [i \in Inits |-> "idle"]
    /\ isReplaying = TRUE
    /\ isLiveTracking = FALSE
    /\ latestPosition = Nowhere
    /\ subscription = None
    /\ open = {}
    /\ cursor = [i \in Inits |-> Nowhere]
    /\ paused = [i \in Inits |-> FALSE]
    /\ handlers = {}
    /\ closed = FALSE

Forget ==
    /\ pc' = [i \in Inits |-> "idle"]
    /\ isReplaying' = TRUE
    /\ isLiveTracking' = FALSE
    /\ latestPosition' = Nowhere
    /\ subscription' = None
    /\ open' = {}
    /\ cursor' = [i \in Inits |-> Nowhere]
    /\ paused' = [i \in Inits |-> FALSE]
    /\ handlers' = {}
    /\ closed' = FALSE

Init == /\ next \in 0..MaxEvents
        /\ log = 0..(next - 1)
        /\ stored = Nowhere
        /\ projected = [p \in Position |-> 0]
        /\ effects = [p \in Position |-> 0]
        /\ isActive \in BOOLEAN
        /\ up = FALSE
        /\ restarts = 0
        /\ replayUntil = Nowhere
        /\ Fresh
-----------------------------------------------------------------------------
(* The event store. *)

AppendEvent == /\ next < MaxEvents
               /\ log' = log \cup {next}
               /\ next' = next + 1
               /\ UNCHANGED <<stored, projected, effects, isActive, processVars,
                              pc, projectionVars, streamVars, handlers, closed,
                              replayUntil>>

\* The events of a tombstoned stream disappear.
Scavenge(p) == /\ p \in Erasable
               /\ log' = log \ {p}
               /\ UNCHANGED <<next, stored, projected, effects, isActive,
                              processVars, pc, projectionVars, streamVars,
                              handlers, closed, replayUntil>>

Latest == IF log = {} THEN Nowhere
          ELSE CHOOSE p \in log : \A q \in log : q <= p
-----------------------------------------------------------------------------
(* The life of the process. *)

Boot(i) == /\ ~up
           /\ up' = TRUE
           /\ pc' = [pc EXCEPT ![i] = "latest"]
           /\ UNCHANGED <<durableVars, restarts, projectionVars, streamVars,
                          handlers, closed, replayUntil>>

\* addProjection finds the projection and initialises it once more.
AddAgain(i) == /\ up
               /\ ~closed
               /\ pc[i] = "idle"
               /\ pc' = [pc EXCEPT ![i] = "latest"]
               /\ UNCHANGED <<durableVars, processVars, projectionVars,
                              streamVars, handlers, closed, replayUntil>>

\* The process crashes, is killed, or exits after stop; an event handler that
\* throws ends it too.
End == /\ up
       /\ restarts < MaxRestarts
       /\ up' = FALSE
       /\ restarts' = restarts + 1
       /\ Forget
       /\ UNCHANGED <<durableVars, replayUntil>>

\* Projection.stop destroys the subscription it knows of.
Stop == /\ up
        /\ ~closed
        /\ restarts < MaxRestarts
        /\ closed' = TRUE
        /\ open' = open \ {subscription}
        /\ UNCHANGED <<durableVars, processVars, pc, projectionVars,
                       subscription, cursor, paused, handlers, replayUntil>>

\* Another version of the projection becomes active, or this one again.
SwitchActive == /\ up
                /\ isActive' = ~isActive
                /\ UNCHANGED <<log, next, stored, projected, effects,
                               processVars, pc, projectionVars, streamVars,
                               handlers, closed, replayUntil>>
-----------------------------------------------------------------------------
(* Projection.init. *)

\* A closed store rejects the read of the position that follows.
GetLatestPosition(i) ==
    /\ pc[i] = "latest"
    /\ latestPosition' = Latest
    /\ replayUntil' = Latest
    /\ pc' = [pc EXCEPT ![i] = IF closed THEN "failed" ELSE "start"]
    /\ UNCHANGED <<durableVars, processVars, isReplaying, isLiveTracking,
                   streamVars, handlers, closed>>

\* Position 0 counts as no position, here and in the event store; the text of
\* it does not.
Known(position) == position > (IF PositionSurvives THEN 0 ELSE Nowhere)

\* Mutant: a projection that is one event behind counts as up to date.
AlmostUpToDate == \/ Known(stored) /\ stored + 1 >= latestPosition
                  \/ latestPosition < 0

UpToDate == \/ Known(stored) /\ stored >= latestPosition
            \/ latestPosition < 0

OnReplayed == /\ isReplaying' = FALSE
              /\ isLiveTracking' = TRUE

\* Mutant: the stored position is not used.
StartsOver(position) == Nowhere

\* A position that came back as a string is taken for the name of a constant.
StartOf(position) ==
    IF Known(position) /\ PositionSurvives THEN position ELSE Nowhere

Subscribe(i) ==
    /\ pc[i] = "start"
    /\ IF UpToDate
       THEN OnReplayed
       ELSE UNCHANGED <<isReplaying, isLiveTracking>>
    /\ subscription' = i
    /\ open' = open \cup {i}
    /\ cursor' = [cursor EXCEPT ![i] = StartOf(stored)]
    /\ pc' = [pc EXCEPT ![i] = "done"]
    /\ UNCHANGED <<durableVars, processVars, latestPosition, paused, handlers,
                   closed, replayUntil>>
-----------------------------------------------------------------------------
(* The handler of the subscription's 'data' event. *)

Ahead(i) == {p \in log : p > cursor[i]}

\* Mutant: the subscription is not paused while an event is handled.
DeliverUnpaused(i) ==
    /\ i \in open
    /\ \E p \in Ahead(i) :
         /\ \A q \in Ahead(i) : p <= q
         /\ cursor' = [cursor EXCEPT ![i] = p]
         /\ handlers' = handlers \cup
              {[by |-> i, position |-> p, isReplaying |-> isReplaying,
                phase |-> "project"]}
    /\ UNCHANGED <<durableVars, processVars, pc, projectionVars, subscription,
                   open, paused, closed, replayUntil>>

Deliver(i) ==
    /\ i \in open
    /\ ~paused[i]
    /\ \E p \in Ahead(i) :
         /\ \A q \in Ahead(i) : p <= q
         /\ cursor' = [cursor EXCEPT ![i] = p]
         /\ handlers' = handlers \cup
              {[by |-> i, position |-> p, isReplaying |-> isReplaying,
                phase |-> "project"]}
    /\ paused' = [paused EXCEPT ![subscription] = TRUE]
    /\ UNCHANGED <<durableVars, processVars, pc, projectionVars, subscription,
                   open, closed, replayUntil>>

Enter(h, phase) ==
    handlers' = (handlers \ {h}) \cup {[h EXCEPT !.phase = phase]}

\* The event handler changes the tables of the projection.
Project(h) ==
    /\ h.phase = "project"
    /\ ~closed
    /\ projected' = [projected EXCEPT ![h.position] = @ + 1]
    /\ Enter(h, "effect")
    /\ UNCHANGED <<log, next, stored, effects, isActive, processVars, pc,
                   projectionVars, streamVars, closed, replayUntil>>

\* Mutant: side effects are executed in a replay too.
EffectInReplay(h) ==
    /\ h.phase = "effect"
    /\ effects' = IF isActive
                  THEN [effects EXCEPT ![h.position] = @ + 1]
                  ELSE effects
    /\ Enter(h, "save")
    /\ UNCHANGED <<log, next, stored, projected, isActive, processVars, pc,
                   projectionVars, streamVars, closed, replayUntil>>

\* The event handler calls a function wrapped by sideEffect.
SideEffect(h) ==
    /\ h.phase = "effect"
    /\ effects' = IF ~h.isReplaying /\ isActive
                  THEN [effects EXCEPT ![h.position] = @ + 1]
                  ELSE effects
    /\ Enter(h, "save")
    /\ UNCHANGED <<log, next, stored, projected, isActive, processVars, pc,
                   projectionVars, streamVars, closed, replayUntil>>

SavePosition(h) ==
    /\ h.phase = "save"
    /\ ~closed
    /\ stored' = h.position
    /\ Enter(h, "finish")
    /\ UNCHANGED <<log, next, projected, effects, isActive, processVars, pc,
                   projectionVars, streamVars, closed, replayUntil>>

\* Mutant: the replay ends only with an event after the latest one.
FinishStrictly(h) ==
    /\ h.phase = "finish"
    /\ IF h.position > latestPosition /\ isReplaying
       THEN OnReplayed
       ELSE UNCHANGED <<isReplaying, isLiveTracking>>
    /\ latestPosition' = h.position
    /\ paused' = [paused EXCEPT ![subscription] = FALSE]
    /\ handlers' = handlers \ {h}
    /\ UNCHANGED <<durableVars, processVars, pc, subscription, open, cursor,
                   closed, replayUntil>>

\* Mutant: the subscription is not resumed.
FinishPaused(h) ==
    /\ h.phase = "finish"
    /\ IF h.position >= latestPosition /\ isReplaying
       THEN OnReplayed
       ELSE UNCHANGED <<isReplaying, isLiveTracking>>
    /\ latestPosition' = h.position
    /\ handlers' = handlers \ {h}
    /\ UNCHANGED <<durableVars, processVars, pc, streamVars, closed,
                   replayUntil>>

\* updatePosition, then the subscription goes on.
Finish(h) ==
    /\ h.phase = "finish"
    /\ IF h.position >= latestPosition /\ isReplaying
       THEN OnReplayed
       ELSE UNCHANGED <<isReplaying, isLiveTracking>>
    /\ latestPosition' = h.position
    /\ paused' = [paused EXCEPT ![subscription] = FALSE]
    /\ handlers' = handlers \ {h}
    /\ UNCHANGED <<durableVars, processVars, pc, subscription, open, cursor,
                   closed, replayUntil>>

Handle(h) == Project(h) \/ SideEffect(h) \/ SavePosition(h) \/ Finish(h)

Next == \/ AppendEvent
        \/ \E p \in log : Scavenge(p)
        \/ \E i \in Inits : \/ Boot(i)
                            \/ AddAgain(i)
                            \/ GetLatestPosition(i)
                            \/ Subscribe(i)
                            \/ Deliver(i)
        \/ End
        \/ Stop
        \/ SwitchActive
        \/ \E h \in handlers : Handle(h)

Spec == Init /\ [][Next]_vars

\* The process is started again when it has ended, and a running one makes
\* progress: the stores answer and the event store delivers.
FairSpec ==
    /\ Spec
    /\ WF_vars(\E i \in Inits : Boot(i))
    /\ WF_vars(closed /\ End)
    /\ \A i \in Inits :
          WF_vars(GetLatestPosition(i) \/ Subscribe(i) \/ Deliver(i))
    /\ WF_vars(\E h \in handlers : Handle(h))
-----------------------------------------------------------------------------
(* Properties *)

TypeOK == /\ log \subseteq Position
          /\ next \in 0..MaxEvents
          /\ stored \in Position \cup {Nowhere}
          /\ projected \in [Position -> Nat]
          /\ effects \in [Position -> Nat]
          /\ isActive \in BOOLEAN
          /\ up \in BOOLEAN
          /\ restarts \in 0..MaxRestarts
          /\ pc \in [Inits -> {"idle", "latest", "start", "failed", "done"}]
          /\ isReplaying \in BOOLEAN
          /\ isLiveTracking \in BOOLEAN
          /\ latestPosition \in Position \cup {Nowhere}
          /\ subscription \in Inits \cup {None}
          /\ open \subseteq Inits
          /\ cursor \in [Inits -> Position \cup {Nowhere}]
          /\ paused \in [Inits -> BOOLEAN]
          /\ handlers \subseteq Handler
          /\ closed \in BOOLEAN
          /\ replayUntil \in Position \cup {Nowhere}

\* However often the process crashes between the steps of an event and is
\* started again, a side effect of an event is executed at most once: an event
\* that is delivered again is delivered in replay (README.md:681).
EffectsAtMostOnce == \A p \in Position : effects[p] <= 1

\* Whatever was projected before, by this process or an earlier one, causes no
\* side effect: "the side effect will not execute your function during a replay"
\* (README.md:681).
ReplayHasNoEffects ==
    [][\A p \in Position : effects'[p] > effects[p] => projected[p] = 1]_vars

\* No event is skipped: when a position is stored, every event up to it that
\* still exists has been projected.
NothingSkipped ==
    \A p \in log : p <= stored => projected[p] > 0

\* "As soon as a projection was added, it will start to replay all existing
\* events (the projection is in replay mode while doing this), and then waits
\* for new events" (README.md:579): a projection that tracks live events has
\* projected every event that existed when it was initialised.
LiveMeansReplayed ==
    isLiveTracking => \A p \in log : p <= replayUntil => projected[p] > 0

\* The end of a process makes the next one repeat at most one event.  Position 0
\* is left out: what is stored for it does not count as a position.
RepeatsOnePerRestart ==
    \A p, q \in Position \ {0} :
        p # q => projected[p] + projected[q] <= 2 + restarts

\* Every event is projected in the end, or it disappears.
EventuallyProjected ==
    \A p \in Position : p \in log ~> projected[p] > 0 \/ p \notin log

\* Every replay ends, unless an event disappears that it waits for.
ReplayEnds ==
    up /\ isReplaying ~> ~isReplaying \/ ~up \/ log # 0..(next - 1)
=============================================================================
