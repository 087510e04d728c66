------------------------ MODULE ProjectionRunProofs ------------------------
(***************************************************************************)
(* Proofs about ProjectionRun for every number of events and restarts, and *)
(* about StoreTable, the handler of an event that ProjectionRun runs again *)
(* after a crash, for every handler and set of fields.                     *)
(*                                                                         *)
(* The types hold for every set of calls of init.  What the projection     *)
(* promises of the order of events and of its side effects is proved for a *)
(* process that initialises it once, which is what Woltage does: a second  *)
(* call makes a second subscription that shares the projection's fields.   *)
(***************************************************************************)
EXTENDS ProjectionRun, StoreTable, DataLemmas
-----------------------------------------------------------------------------
(* Type correctness. *)

\* The latest position of a log is one of the log, and no event is after it.
LEMMA LatestIsLargest ==
    ASSUME log \subseteq Position
    PROVE  /\ Latest \in Position \cup {Nowhere}
           /\ log = {} => Latest = Nowhere
           /\ log # {} => Latest \in log
           /\ \A p \in log : p <= Latest
<1>1. CASE log = {}
  BY <1>1 DEF Latest
<1>2. CASE log # {}
  <2>1. log \in SUBSET (0..MaxEvents) /\ MaxEvents \in Nat
    BY ProjectionRunAssumption DEF Position
  <2>2. \E m \in log : \A q \in log : q <= m
    BY <1>2, <2>1, LargestExists
  <2>3. Latest \in log /\ \A q \in log : q <= Latest
    BY <1>2, <2>2 DEF Latest
  <2> QED
    BY <1>2, <2>3
<1> QED
  BY <1>1, <1>2

\* The state the process starts from has the types.
LEMMA TypeInit == Init => TypeOK
<1> SUFFICES ASSUME Init PROVE TypeOK
  OBVIOUS
<1>1. log \subseteq Position /\ next \in 0..MaxEvents /\ restarts \in 0..MaxRestarts
  BY ProjectionRunAssumption DEF Init, Position
<1>2. /\ pc \in [Inits -> {"idle", "latest", "start", "failed", "done"}]
      /\ cursor \in [Inits -> Position \cup {Nowhere}]
      /\ paused \in [Inits -> BOOLEAN]
  BY DEF Init, Fresh
<1>3. /\ projected \in [Position -> Nat]
      /\ effects \in [Position -> Nat]
  BY DEF Init
<1> QED
  BY <1>1, <1>2, <1>3 DEF Init, Fresh, TypeOK

\* Every step keeps the types.
LEMMA TypeStep == TypeOK /\ [Next]_vars => TypeOK'
<1> SUFFICES ASSUME TypeOK, [Next]_vars PROVE TypeOK'
  OBVIOUS
<1> USE ProjectionRunAssumption DEF TypeOK
<1>1. CASE AppendEvent
  BY <1>1 DEF AppendEvent, processVars, projectionVars, streamVars, Position
<1>2. ASSUME NEW p \in log, Scavenge(p) PROVE TypeOK'
  BY <1>2 DEF Scavenge, processVars, projectionVars, streamVars
<1>3. ASSUME NEW i \in Inits, Boot(i) PROVE TypeOK'
  BY <1>3 DEF Boot, durableVars, projectionVars, streamVars
<1>4. ASSUME NEW i \in Inits, AddAgain(i) PROVE TypeOK'
  BY <1>4 DEF AddAgain, durableVars, processVars, projectionVars, streamVars
<1>5. ASSUME NEW i \in Inits, GetLatestPosition(i) PROVE TypeOK'
  <2>1. Latest \in Position \cup {Nowhere}
    BY LatestIsLargest
  <2> QED
    BY <1>5, <2>1 DEF GetLatestPosition, durableVars, processVars, streamVars
<1>6. ASSUME NEW i \in Inits, Subscribe(i) PROVE TypeOK'
  BY <1>6 DEF Subscribe, OnReplayed, StartOf, durableVars, processVars
<1>7. ASSUME NEW i \in Inits, Deliver(i) PROVE TypeOK'
  <2>1. PICK p \in Ahead(i) :
           /\ cursor' = [cursor EXCEPT ![i] = p]
           /\ handlers' = handlers \cup
                {[by |-> i, position |-> p, isReplaying |-> isReplaying,
                  phase |-> "project"]}
    BY <1>7 DEF Deliver
  <2>2. p \in Position
    BY DEF Ahead
  <2>3. handlers' \subseteq Handler
    BY <2>1, <2>2 DEF Handler, Phase
  <2>4. cursor' \in [Inits -> Position \cup {Nowhere}]
    BY <2>1, <2>2
  <2> QED
    BY <1>7, <2>3, <2>4
    DEF Deliver, durableVars, processVars, projectionVars
<1>8. CASE End
  <2>1. restarts' \in 0..MaxRestarts
    BY <1>8 DEF End
  <2>2. /\ pc' \in [Inits -> {"idle", "latest", "start", "failed", "done"}]
        /\ cursor' \in [Inits -> Position \cup {Nowhere}]
        /\ paused' \in [Inits -> BOOLEAN]
    BY <1>8 DEF End, Forget
  <2> QED
    BY <1>8, <2>1, <2>2 DEF End, Forget, durableVars
<1>9. CASE Stop
  BY <1>9 DEF Stop, durableVars, processVars, projectionVars
<1>10. CASE SwitchActive
  BY <1>10 DEF SwitchActive, processVars, projectionVars, streamVars
<1>11. ASSUME NEW h \in handlers, NEW phase \in Phase, Enter(h, phase)
       PROVE  handlers' \subseteq Handler
  BY <1>11 DEF Enter, Handler
<1>12. ASSUME NEW h \in handlers PROVE h.position \in Position
  BY DEF Handler
<1>13. ASSUME NEW h \in handlers, Project(h) PROVE TypeOK'
  BY <1>11, <1>12, <1>13
  DEF Project, Phase, processVars, projectionVars, streamVars
<1>14. ASSUME NEW h \in handlers, SideEffect(h) PROVE TypeOK'
  BY <1>11, <1>12, <1>14
  DEF SideEffect, Phase, processVars, projectionVars, streamVars
<1>15. ASSUME NEW h \in handlers, SavePosition(h) PROVE TypeOK'
  BY <1>11, <1>12, <1>15
  DEF SavePosition, Phase, processVars, projectionVars, streamVars
<1>16. ASSUME NEW h \in handlers, Finish(h) PROVE TypeOK'
  BY <1>12, <1>16 DEF Finish, OnReplayed, durableVars, processVars
<1>17. CASE UNCHANGED vars
  BY <1>17 DEF vars, durableVars, processVars, projectionVars, streamVars
<1> QED
  BY <1>1, <1>2, <1>3, <1>4, <1>5, <1>6, <1>7, <1>8, <1>9, <1>10, <1>13,
     <1>14, <1>15, <1>16, <1>17 DEF Next, Handle

\* The types of what a projection, its subscription and the stores keep.
THEOREM TypeCorrect == Spec => []TypeOK
  BY TypeInit, TypeStep, PTL DEF Spec
-----------------------------------------------------------------------------
(* No event is skipped. *)

\* A process calls init once for a projection.
OneInit == \A i, j \in Inits : i = j

\* Nothing is known of an event that was not appended yet.
KnownEvents ==
    /\ log \subseteq 0..(next - 1)
    /\ stored < next
    /\ \A p \in Position : projected[p] > 0 => p < next
    /\ \A i \in Inits : cursor[i] < next

\* Before init is done there is no subscription and nothing is handled.
BeforeDone ==
    \A i \in Inits :
        pc[i] # "done" => handlers = {} /\ open = {} /\ isReplaying

\* The subscription is paused while an event of it is handled, and only one is.
OneHandler ==
    /\ ~up => \A i \in Inits : pc[i] = "idle"
    /\ up => \A i \in Inits : pc[i] # "idle"
    /\ \A i \in open : subscription = i
    /\ \A h \in handlers : /\ pc[h.by] = "done"
                           /\ subscription = h.by
                           /\ paused[h.by]
                           /\ cursor[h.by] = h.position
    /\ \A g, h \in handlers : g = h

\* What a subscription has delivered is projected, but for the event under way.
DeliveredIsProjected ==
    /\ \A i \in Inits : pc[i] = "done" =>
         \A p \in log : p <= cursor[i] =>
            \/ projected[p] > 0
            \/ \E h \in handlers : h.position = p /\ h.phase = "project"
    /\ \A h \in handlers : h.phase # "project" => projected[h.position] > 0

\* The inductive invariant behind NothingSkipped.
InOrder == /\ TypeOK
           /\ KnownEvents
           /\ BeforeDone
           /\ OneHandler
           /\ DeliveredIsProjected
           /\ NothingSkipped

\* The initial states satisfy it.
LEMMA InOrderInit == Init => InOrder
<1> SUFFICES ASSUME Init PROVE InOrder
  OBVIOUS
<1>1. TypeOK
  BY TypeInit
<1> QED
  BY <1>1, ProjectionRunAssumption
  DEF Init, Fresh, InOrder, KnownEvents, BeforeDone, OneHandler,
      DeliveredIsProjected, NothingSkipped, Nowhere, Position

\* A handler goes from one step to the next: it is still the only one, for the
\* same event.
LEMMA OnlyHandler ==
    ASSUME TypeOK, OneHandler, NEW h \in handlers, NEW phase \in Phase,
           Enter(h, phase)
    PROVE  /\ handlers = {h}
           /\ h.by \in Inits
           /\ h.position \in Position
           /\ h.isReplaying \in BOOLEAN
           /\ \E g \in Handler : /\ handlers' = {g}
                                 /\ g.by = h.by
                                 /\ g.position = h.position
                                 /\ g.isReplaying = h.isReplaying
                                 /\ g.phase = phase
<1>1. handlers = {h} /\ h \in Handler
  BY DEF OneHandler, TypeOK
<1> DEFINE g == [h EXCEPT !.phase = phase]
<1>2. /\ g \in Handler
      /\ g.by = h.by
      /\ g.position = h.position
      /\ g.isReplaying = h.isReplaying
      /\ g.phase = phase
  BY <1>1 DEF Handler
<1>3. handlers' = {g}
  BY <1>1 DEF Enter
<1> QED
  BY <1>1, <1>2, <1>3 DEF Handler

\* A step of the subscription hands over the first event ahead of it.
LEMMA OnlyDelivery ==
    ASSUME TypeOK, BeforeDone, OneHandler, NEW i \in Inits, Deliver(i), OneInit
    PROVE  /\ handlers = {}
           /\ pc[i] = "done"
           /\ subscription = i
           /\ \E p \in log :
                /\ p > cursor[i]
                /\ \A q \in log : q > cursor[i] => p <= q
                /\ cursor' = [cursor EXCEPT ![i] = p]
                /\ \E g \in Handler : /\ handlers' = {g}
                                      /\ g.by = i
                                      /\ g.position = p
                                      /\ g.isReplaying = isReplaying
                                      /\ g.phase = "project"
<1>1. handlers = {}
  <2>1. ASSUME NEW h \in handlers PROVE FALSE
    <3>1. h.by = i /\ paused[h.by]
      BY DEF OneHandler, OneInit, TypeOK, Handler
    <3> QED
      BY <3>1 DEF Deliver
  <2> QED
    BY <2>1
<1>2. pc[i] = "done" /\ subscription = i
  BY DEF Deliver, BeforeDone, OneHandler
<1>3. PICK p \in Ahead(i) :
         /\ \A q \in Ahead(i) : p <= q
         /\ cursor' = [cursor EXCEPT ![i] = p]
         /\ handlers' = handlers \cup
              {[by |-> i, position |-> p, isReplaying |-> isReplaying,
                phase |-> "project"]}
  BY DEF Deliver
<1> DEFINE g == [by |-> i, position |-> p, isReplaying |-> isReplaying,
                 phase |-> "project"]
<1>4. handlers' = {g} /\ g \in Handler
  BY <1>1, <1>3 DEF Handler, Phase, Ahead, TypeOK
<1>5. p \in log /\ p > cursor[i] /\ \A q \in log : q > cursor[i] => p <= q
  BY <1>3 DEF Ahead
<1>6. \E k \in Handler : /\ handlers' = {k}
                         /\ k.by = i
                         /\ k.position = p
                         /\ k.isReplaying = isReplaying
                         /\ k.phase = "project"
  BY <1>4
<1> QED
  BY <1>1, <1>2, <1>3, <1>5, <1>6

\* Nothing gets known of an event that was not appended.
LEMMA KnownEventsStep ==
    ASSUME OneInit, InOrder, TypeOK', [Next]_vars
    PROVE  KnownEvents'
<1> USE DEF InOrder, TypeOK, KnownEvents
<1>1. CASE AppendEvent
  <2>1. log' \subseteq 0..(next' - 1)
    <3>1. \A p \in log : p \in 0..(next - 1)
      OBVIOUS
    <3> QED
      BY <1>1, <3>1 DEF AppendEvent
  <2>2. stored' < next' /\ \A i \in Inits : cursor'[i] < next'
    BY <1>1 DEF AppendEvent, streamVars, Nowhere, Position
  <2>3. \A p \in Position : projected'[p] > 0 => p < next'
    BY <1>1 DEF AppendEvent, Position
  <2> QED
    BY <2>1, <2>2, <2>3
<1>2. ASSUME NEW p \in log, Scavenge(p) PROVE KnownEvents'
  BY <1>2 DEF Scavenge, streamVars
<1>3. ASSUME NEW i \in Inits, Boot(i) \/ AddAgain(i) \/ GetLatestPosition(i)
      PROVE  KnownEvents'
  BY <1>3 DEF Boot, AddAgain, GetLatestPosition, durableVars, streamVars
<1>4. ASSUME NEW i \in Inits, Subscribe(i) PROVE KnownEvents'
  BY <1>4 DEF Subscribe, StartOf, Nowhere, durableVars
<1>5. ASSUME NEW i \in Inits, Deliver(i) PROVE KnownEvents'
  <2>1. PICK p \in log : cursor' = [cursor EXCEPT ![i] = p]
    BY <1>5, OnlyDelivery
  <2>2. p < next
    OBVIOUS
  <2> QED
    BY <1>5, <2>1, <2>2 DEF Deliver, durableVars
<1>6. CASE End
  BY <1>6 DEF End, Forget, Nowhere, durableVars
<1>7. CASE Stop \/ SwitchActive \/ UNCHANGED vars
  BY <1>7 DEF Stop, SwitchActive, vars, durableVars, streamVars
<1>8. ASSUME NEW h \in handlers, Project(h) PROVE KnownEvents'
  <2>1. h.position < next /\ h.position \in Position
    BY DEF OneHandler, Handler
  <2> QED
    BY <1>8, <2>1 DEF Project, streamVars
<1>9. ASSUME NEW h \in handlers, SideEffect(h) \/ Finish(h)
      PROVE  KnownEvents'
  BY <1>9 DEF SideEffect, Finish, durableVars, streamVars
<1>10. ASSUME NEW h \in handlers, SavePosition(h) PROVE KnownEvents'
  <2>1. h.position < next
    BY DEF OneHandler, Handler
  <2> QED
    BY <1>10, <2>1 DEF SavePosition, streamVars
<1> QED
  BY <1>1, <1>2, <1>3, <1>4, <1>5, <1>6, <1>7, <1>8, <1>9, <1>10
  DEF Next, Handle

\* There is no subscription before init is done with it.
LEMMA BeforeDoneStep ==
    ASSUME OneInit, InOrder, TypeOK', [Next]_vars
    PROVE  BeforeDone'
<1> USE DEF InOrder, TypeOK, BeforeDone, OneInit
<1>1. CASE AppendEvent \/ Stop \/ SwitchActive \/ UNCHANGED vars
  BY <1>1
  DEF AppendEvent, Stop, SwitchActive, vars, processVars, projectionVars,
      streamVars
<1>2. ASSUME NEW p \in log, Scavenge(p) PROVE BeforeDone'
  BY <1>2 DEF Scavenge, projectionVars, streamVars
<1>3. ASSUME NEW i \in Inits, Boot(i) \/ AddAgain(i) \/ GetLatestPosition(i)
      PROVE  BeforeDone'
  BY <1>3
  DEF Boot, AddAgain, GetLatestPosition, OneHandler, projectionVars, streamVars
<1>4. ASSUME NEW i \in Inits, Subscribe(i) PROVE BeforeDone'
  BY <1>4 DEF Subscribe
<1>5. ASSUME NEW i \in Inits, Deliver(i) PROVE BeforeDone'
  BY <1>5, OnlyDelivery DEF Deliver, projectionVars
<1>6. CASE End
  BY <1>6 DEF End, Forget
<1>7. ASSUME NEW h \in handlers PROVE \A i \in Inits : pc[i] = "done"
  BY DEF OneHandler, Handler
<1>8. ASSUME NEW h \in handlers, Handle(h) PROVE BeforeDone'
  BY <1>7, <1>8
  DEF Handle, Project, SideEffect, SavePosition, Finish
<1> QED
  BY <1>1, <1>2, <1>3, <1>4, <1>5, <1>6, <1>8 DEF Next

\* An event is handled while the subscription is paused, one at a time.
LEMMA OneHandlerStep ==
    ASSUME OneInit, InOrder, TypeOK', [Next]_vars
    PROVE  OneHandler'
<1> USE DEF InOrder, TypeOK, OneHandler, OneInit
<1>1. CASE AppendEvent \/ Stop \/ SwitchActive \/ UNCHANGED vars
  BY <1>1
  DEF AppendEvent, Stop, SwitchActive, vars, processVars, streamVars
<1>2. ASSUME NEW p \in log, Scavenge(p) PROVE OneHandler'
  BY <1>2 DEF Scavenge, processVars, streamVars
<1>3. ASSUME NEW i \in Inits, Boot(i) \/ AddAgain(i) \/ GetLatestPosition(i)
      PROVE  OneHandler'
  BY <1>3
  DEF Boot, AddAgain, GetLatestPosition, BeforeDone, processVars, streamVars
<1>4. ASSUME NEW i \in Inits, Subscribe(i) PROVE OneHandler'
  BY <1>4 DEF Subscribe, BeforeDone, processVars
<1>5. ASSUME NEW i \in Inits, Deliver(i) PROVE OneHandler'
  <2>1. PICK p \in log, g \in Handler :
           /\ cursor' = [cursor EXCEPT ![i] = p]
           /\ handlers' = {g}
           /\ g.by = i
           /\ g.position = p
    BY <1>5, OnlyDelivery
  <2>2. pc[i] = "done" /\ subscription = i
    BY <1>5, OnlyDelivery
  <2> QED
    BY <1>5, <2>1, <2>2 DEF Deliver, processVars
<1>6. CASE End
  BY <1>6 DEF End, Forget
<1>7. ASSUME NEW h \in handlers, NEW phase \in Phase, Enter(h, phase),
             UNCHANGED <<processVars, pc, streamVars>>
      PROVE  OneHandler'
  <2>1. PICK g \in Handler : /\ handlers' = {g}
                             /\ g.by = h.by
                             /\ g.position = h.position
    BY <1>7, OnlyHandler
  <2> QED
    BY <1>7, <2>1 DEF processVars, streamVars
<1>8. ASSUME NEW h \in handlers,
             Project(h) \/ SideEffect(h) \/ SavePosition(h)
      PROVE  OneHandler'
  BY <1>7, <1>8 DEF Project, SideEffect, SavePosition, Phase
<1>9. ASSUME NEW h \in handlers, Finish(h) PROVE OneHandler'
  BY <1>9 DEF Finish, processVars
<1> QED
  BY <1>1, <1>2, <1>3, <1>4, <1>5, <1>6, <1>8, <1>9 DEF Next, Handle

\* Whatever the subscription delivered is projected before the next delivery.
LEMMA DeliveredIsProjectedStep ==
    ASSUME OneInit, InOrder, TypeOK', [Next]_vars
    PROVE  DeliveredIsProjected'
<1> USE DEF InOrder, TypeOK, DeliveredIsProjected, OneInit
<1>1. CASE AppendEvent
  <2>1. \A i \in Inits : ~ (next <= cursor[i])
    BY DEF KnownEvents, Position, Nowhere
  <2> QED
    BY <1>1, <2>1 DEF AppendEvent, streamVars
<1>2. ASSUME NEW p \in log, Scavenge(p) PROVE DeliveredIsProjected'
  BY <1>2 DEF Scavenge, streamVars
<1>3. ASSUME NEW i \in Inits, Boot(i) \/ AddAgain(i) \/ GetLatestPosition(i)
      PROVE  DeliveredIsProjected'
  BY <1>3 DEF Boot, AddAgain, GetLatestPosition, durableVars, streamVars
<1>4. ASSUME NEW i \in Inits, Subscribe(i) PROVE DeliveredIsProjected'
  <2>1. StartOf(stored) = stored \/ StartOf(stored) = Nowhere
    BY DEF StartOf
  <2>2. \A p \in log : p <= StartOf(stored) => projected[p] > 0
    BY <2>1 DEF NothingSkipped, Nowhere, Position
  <2>3. handlers = {}
    BY <1>4 DEF Subscribe, BeforeDone
  <2> QED
    BY <1>4, <2>2, <2>3 DEF Subscribe, durableVars
<1>5. ASSUME NEW i \in Inits, Deliver(i) PROVE DeliveredIsProjected'
  <2>1. PICK p \in log, g \in Handler :
           /\ \A q \in log : q > cursor[i] => p <= q
           /\ cursor' = [cursor EXCEPT ![i] = p]
           /\ handlers' = {g}
           /\ g.position = p
           /\ g.phase = "project"
    BY <1>5, OnlyDelivery
  <2>2. handlers = {} /\ pc[i] = "done"
    BY <1>5, OnlyDelivery
  <2>3. \A q \in log : q < p => projected[q] > 0
    BY <2>1, <2>2 DEF Position, Nowhere
  <2>4. \A q \in log : q <= p => q < p \/ q = p
    BY DEF Position
  <2> QED
    BY <1>5, <2>1, <2>3, <2>4 DEF Deliver, durableVars
<1>6. CASE End
  BY <1>6 DEF End, Forget
<1>7. CASE Stop \/ SwitchActive \/ UNCHANGED vars
  BY <1>7 DEF Stop, SwitchActive, vars, durableVars, streamVars
<1>8. ASSUME NEW h \in handlers, Project(h) PROVE DeliveredIsProjected'
  <2>1. PICK g \in Handler : /\ handlers = {h}
                             /\ handlers' = {g}
                             /\ g.position = h.position
                             /\ h.position \in Position
    BY <1>8, OnlyHandler DEF Project, Phase
  <2>2. projected'[h.position] > 0
    BY <1>8, <2>1 DEF Project
  <2>3. \A p \in Position : projected[p] > 0 => projected'[p] > 0
    BY <1>8, <2>1 DEF Project
  <2> QED
    BY <1>8, <2>1, <2>2, <2>3 DEF Project, streamVars
<1>9. ASSUME NEW h \in handlers, SideEffect(h) \/ SavePosition(h)
      PROVE  DeliveredIsProjected'
  <2>1. PICK g \in Handler : /\ handlers = {h}
                             /\ handlers' = {g}
                             /\ g.position = h.position
    BY <1>9, OnlyHandler DEF SideEffect, SavePosition, Phase
  <2>2. h.phase # "project"
    BY <1>9 DEF SideEffect, SavePosition
  <2> QED
    BY <1>9, <2>1, <2>2 DEF SideEffect, SavePosition, streamVars
<1>10. ASSUME NEW h \in handlers, Finish(h) PROVE DeliveredIsProjected'
  BY <1>10 DEF Finish, durableVars
<1> QED
  BY <1>1, <1>2, <1>3, <1>4, <1>5, <1>6, <1>7, <1>8, <1>9, <1>10
  DEF Next, Handle

\* A position is stored when the event at it and those before are projected.
LEMMA NothingSkippedStep ==
    ASSUME OneInit, InOrder, TypeOK', [Next]_vars
    PROVE  NothingSkipped'
<1> USE DEF InOrder, TypeOK, NothingSkipped, OneInit
<1>1. CASE AppendEvent
  BY <1>1 DEF AppendEvent, KnownEvents, Position, Nowhere
<1>2. ASSUME NEW p \in log, Scavenge(p) PROVE NothingSkipped'
  BY <1>2 DEF Scavenge
<1>3. ASSUME UNCHANGED <<log, stored, projected>> PROVE NothingSkipped'
  BY <1>3
<1>4. ASSUME NEW i \in Inits,
             \/ Boot(i) \/ AddAgain(i) \/ GetLatestPosition(i)
             \/ Subscribe(i) \/ Deliver(i)
      PROVE  NothingSkipped'
  BY <1>3, <1>4
  DEF Boot, AddAgain, GetLatestPosition, Subscribe, Deliver, durableVars
<1>5. CASE End \/ Stop \/ SwitchActive \/ UNCHANGED vars
  BY <1>3, <1>5 DEF End, Stop, SwitchActive, vars, durableVars
<1>6. ASSUME NEW h \in handlers, Project(h) PROVE NothingSkipped'
  <2>1. h.position \in Position
    BY DEF Handler
  <2>2. \A p \in Position : projected[p] > 0 => projected'[p] > 0
    BY <1>6, <2>1 DEF Project
  <2> QED
    BY <1>6, <2>2 DEF Project
<1>7. ASSUME NEW h \in handlers, SavePosition(h) PROVE NothingSkipped'
  <2>1. handlers = {h} /\ h.phase = "save" /\ h.by \in Inits
    BY <1>7 DEF SavePosition, OneHandler, Handler
  <2>2. cursor[h.by] = h.position /\ pc[h.by] = "done"
    BY DEF OneHandler
  <2>3. \A p \in log : p <= h.position => projected[p] > 0
    BY <2>1, <2>2 DEF DeliveredIsProjected
  <2> QED
    BY <1>7, <2>3 DEF SavePosition
<1>8. ASSUME NEW h \in handlers, SideEffect(h) \/ Finish(h)
      PROVE  NothingSkipped'
  BY <1>3, <1>8 DEF SideEffect, Finish, durableVars
<1> QED
  BY <1>1, <1>2, <1>4, <1>5, <1>6, <1>7, <1>8 DEF Next, Handle

\* Every step keeps the invariant.
LEMMA InOrderStep == OneInit /\ InOrder /\ [Next]_vars => InOrder'
<1> SUFFICES ASSUME OneInit, InOrder, [Next]_vars PROVE InOrder'
  OBVIOUS
<1>1. TypeOK'
  BY TypeStep DEF InOrder
<1> QED
  BY <1>1, KnownEventsStep, BeforeDoneStep, OneHandlerStep,
     DeliveredIsProjectedStep, NothingSkippedStep
  DEF InOrder

\* The invariant holds of a process that initialises the projection once.
THEOREM OrderInvariant ==
    ASSUME OneInit
    PROVE  Spec => []InOrder
  BY InOrderInit, InOrderStep, PTL DEF Spec

\* When a position is stored, every event up to it that still exists has been
\* projected, whatever crashed, restarted, was appended or scavenged in between.
THEOREM NothingIsSkipped ==
    ASSUME OneInit
    PROVE  Spec => []NothingSkipped
<1>1. InOrder => NothingSkipped
  BY DEF InOrder
<1> QED
  BY <1>1, OrderInvariant, PTL
-----------------------------------------------------------------------------
(* Side effects: no event that was projected before is handled as a live one. *)

\* Of what was projected and not stored there is only the first event that
\* follows the stored position.
OnlyTheNextIsAhead ==
    \A p, q \in log :
        p > stored /\ projected[p] > 0 /\ q > stored => p <= q

\* Where the subscription is, compared with the stored position.
CursorFollowsStored ==
    /\ \A i \in Inits : pc[i] = "done" /\ handlers = {} =>
         \/ cursor[i] = stored
         \/ cursor[i] = Nowhere /\ stored <= 0
    /\ \A h \in handlers :
         IF h.phase = "finish"
         THEN stored = h.position
         ELSE /\ stored <= h.position
              /\ \A p \in log : p > stored => h.position <= p

\* The events the subscription will deliver again.
AgainAt(i) == {p \in log : projected[p] > 0 /\ p > cursor[i]}

\* init knows a position after which nothing was projected; once live, nothing
\* is delivered again.
ReplayCoversRepeats ==
    /\ \A i \in Inits : pc[i] = "start" =>
         \A p \in log : projected[p] > 0 => p <= latestPosition
    /\ \A i \in Inits : pc[i] = "done" =>
         IF isReplaying
         THEN \A p \in AgainAt(i) : \/ p <= latestPosition
                                    \/ handlers = {} /\ cursor[i] = 0
         ELSE AgainAt(i) = {}
    /\ \A h \in handlers : AgainAt(h.by) # {} => h.position = 0

\* A handler that is not in replay is the first one of its event.
LiveIsFirst ==
    /\ \A p \in Position : effects[p] > 0 => projected[p] > 0
    /\ \A h \in handlers : ~h.isReplaying =>
         /\ h.phase = "project" => projected[h.position] = 0
         /\ h.phase = "effect" => /\ projected[h.position] = 1
                                  /\ effects[h.position] = 0

\* The inductive invariant behind EffectsAtMostOnce and ReplayHasNoEffects.
LiveOnce == /\ InOrder
            /\ OnlyTheNextIsAhead
            /\ CursorFollowsStored
            /\ ReplayCoversRepeats
            /\ LiveIsFirst
            /\ EffectsAtMostOnce

\* The initial states satisfy it.
LEMMA LiveOnceInit == Init => LiveOnce
<1> SUFFICES ASSUME Init PROVE LiveOnce
  OBVIOUS
<1>1. InOrder
  BY InOrderInit
<1>2. \A p \in log : p \in Position /\ projected[p] = 0
  BY <1>1 DEF InOrder, TypeOK, Init
<1> QED
  BY <1>1, <1>2
  DEF Init, Fresh, LiveOnce, OnlyTheNextIsAhead, CursorFollowsStored,
      ReplayCoversRepeats, AgainAt, LiveIsFirst, EffectsAtMostOnce

\* Nothing but the event that follows the stored position is ahead of it.
LEMMA OnlyTheNextIsAheadStep ==
    ASSUME OneInit, LiveOnce, [Next]_vars
    PROVE  OnlyTheNextIsAhead'
<1> USE DEF LiveOnce, InOrder, TypeOK, OnlyTheNextIsAhead, OneInit
<1>1. CASE AppendEvent
  <2>1. \A p \in log : p <= next /\ p \in Position
    BY DEF KnownEvents
  <2>2. next' \in Nat /\ next \in Position /\ projected[next] = 0
    BY <1>1, ProjectionRunAssumption DEF AppendEvent, KnownEvents, Position
  <2> QED
    BY <1>1, <2>1, <2>2 DEF AppendEvent
<1>2. ASSUME NEW p \in log, Scavenge(p) PROVE OnlyTheNextIsAhead'
  BY <1>2 DEF Scavenge
<1>3. ASSUME UNCHANGED <<log, stored, projected>> PROVE OnlyTheNextIsAhead'
  BY <1>3
<1>4. ASSUME NEW i \in Inits,
             \/ Boot(i) \/ AddAgain(i) \/ GetLatestPosition(i)
             \/ Subscribe(i) \/ Deliver(i)
      PROVE  OnlyTheNextIsAhead'
  BY <1>3, <1>4
  DEF Boot, AddAgain, GetLatestPosition, Subscribe, Deliver, durableVars
<1>5. CASE End \/ Stop \/ SwitchActive \/ UNCHANGED vars
  BY <1>3, <1>5 DEF End, Stop, SwitchActive, vars, durableVars
<1>6. ASSUME NEW h \in handlers, Project(h) PROVE OnlyTheNextIsAhead'
  <2>1. \A q \in log : q > stored => h.position <= q
    BY <1>6 DEF Project, CursorFollowsStored
  <2>2. \A p \in Position : p # h.position => projected'[p] = projected[p]
    BY <1>6 DEF Project
  <2> QED
    BY <1>6, <2>1, <2>2 DEF Project
<1>7. ASSUME NEW h \in handlers, SavePosition(h) PROVE OnlyTheNextIsAhead'
  <2>1. stored <= h.position /\ h.position \in Position
    BY <1>7 DEF SavePosition, CursorFollowsStored, Handler
  <2> QED
    BY <1>7, <2>1 DEF SavePosition, Position, Nowhere
<1>8. ASSUME NEW h \in handlers, SideEffect(h) \/ Finish(h)
      PROVE  OnlyTheNextIsAhead'
  BY <1>3, <1>8 DEF SideEffect, Finish, durableVars
<1> QED
  BY <1>1, <1>2, <1>4, <1>5, <1>6, <1>7, <1>8 DEF Next, Handle

\* The subscription starts where the last process stored its position, and is
\* at most one event ahead of the stored position from then on.
LEMMA CursorFollowsStoredStep ==
    ASSUME OneInit, PositionSurvives, LiveOnce, TypeOK', [Next]_vars
    PROVE  CursorFollowsStored'
<1> USE DEF LiveOnce, InOrder, TypeOK, CursorFollowsStored, OneInit
<1>1. CASE AppendEvent
  <2>1. \A h \in handlers : h.position < next /\ h.position \in Position
    BY DEF KnownEvents, OneHandler, Handler
  <2> QED
    BY <1>1, <2>1 DEF AppendEvent, streamVars, Position
<1>2. ASSUME NEW p \in log, Scavenge(p) PROVE CursorFollowsStored'
  BY <1>2 DEF Scavenge, streamVars
<1>3. ASSUME NEW i \in Inits, Boot(i) \/ AddAgain(i) \/ GetLatestPosition(i)
      PROVE  CursorFollowsStored'
  <2>1. handlers = {}
    BY <1>3 DEF Boot, AddAgain, GetLatestPosition, BeforeDone, OneHandler
  <2> QED
    BY <1>3, <2>1
    DEF Boot, AddAgain, GetLatestPosition, durableVars, streamVars
<1>4. ASSUME NEW i \in Inits, Subscribe(i) PROVE CursorFollowsStored'
  <2>1. \/ StartOf(stored) = stored
        \/ StartOf(stored) = Nowhere /\ stored <= 0
    BY DEF StartOf, Known, Position, Nowhere
  <2>2. handlers = {}
    BY <1>4 DEF Subscribe, BeforeDone
  <2> QED
    BY <1>4, <2>1, <2>2 DEF Subscribe, durableVars
<1>5. ASSUME NEW i \in Inits, Deliver(i) PROVE CursorFollowsStored'
  <2>1. PICK p \in log, g \in Handler :
           /\ p > cursor[i]
           /\ \A q \in log : q > cursor[i] => p <= q
           /\ handlers' = {g}
           /\ g.position = p
           /\ g.phase = "project"
    BY <1>5, OnlyDelivery
  <2>2. \/ cursor[i] = stored
        \/ cursor[i] = Nowhere /\ stored <= 0
    BY <1>5, OnlyDelivery
  <2>3. stored <= p /\ \A q \in log : q > stored => p <= q
    BY <2>1, <2>2 DEF Position, Nowhere
  <2> QED
    BY <1>5, <2>1, <2>3 DEF Deliver, durableVars
<1>6. CASE End
  BY <1>6 DEF End, Forget
<1>7. CASE Stop \/ SwitchActive \/ UNCHANGED vars
  BY <1>7 DEF Stop, SwitchActive, vars, durableVars, streamVars
<1>8. ASSUME NEW h \in handlers, Project(h) \/ SideEffect(h)
      PROVE  CursorFollowsStored'
  <2>1. PICK g \in Handler : /\ handlers' = {g}
                             /\ g.position = h.position
                             /\ g.phase # "finish"
    <3>1. CASE Project(h)
      BY <3>1, OnlyHandler DEF Project, Phase
    <3>2. CASE SideEffect(h)
      BY <3>2, OnlyHandler DEF SideEffect, Phase
    <3> QED
      BY <1>8, <3>1, <3>2
  <2>2. h.phase # "finish"
    BY <1>8 DEF Project, SideEffect
  <2> QED
    BY <1>8, <2>1, <2>2 DEF Project, SideEffect
<1>9. ASSUME NEW h \in handlers, SavePosition(h) PROVE CursorFollowsStored'
  <2>1. PICK g \in Handler : /\ handlers' = {g}
                             /\ g.position = h.position
                             /\ g.phase = "finish"
    BY <1>9, OnlyHandler DEF SavePosition, Phase
  <2> QED
    BY <1>9, <2>1 DEF SavePosition
<1>10. ASSUME NEW h \in handlers, Finish(h) PROVE CursorFollowsStored'
  <2>1. handlers = {h} /\ stored = h.position /\ cursor[h.by] = h.position
        /\ h.by \in Inits
    BY <1>10 DEF Finish, OneHandler, Handler
  <2> QED
    BY <1>10, <2>1 DEF Finish, durableVars
<1> QED
  BY <1>1, <1>2, <1>3, <1>4, <1>5, <1>6, <1>7, <1>8, <1>9, <1>10
  DEF Next, Handle

\* What will be delivered again is at most what follows the stored position: a
\* subscription that delivers an event leaves nothing to repeat behind it, but
\* for an event at position 0.
LEMMA RepeatsAreDelivered ==
    ASSUME OneInit, LiveOnce, NEW i \in Inits, Deliver(i),
           NEW q \in log, projected[q] > 0, q > cursor'[i]
    PROVE  cursor'[i] = 0
<1> USE DEF LiveOnce, InOrder, TypeOK, OneInit
<1>1. PICK p \in log :
         /\ p > cursor[i]
         /\ \A r \in log : r > cursor[i] => p <= r
         /\ cursor' = [cursor EXCEPT ![i] = p]
  BY OnlyDelivery
<1>2. \/ cursor[i] = stored
      \/ cursor[i] = Nowhere /\ stored <= 0
  BY OnlyDelivery DEF CursorFollowsStored
<1>3. p \in Position /\ q \in Position /\ q > p
  BY <1>1
<1>4. CASE p > stored
  <2>1. q > stored
    BY <1>3, <1>4 DEF Position, Nowhere
  <2>2. q <= p
    BY <1>4, <2>1 DEF OnlyTheNextIsAhead
  <2> QED
    BY <1>3, <2>2 DEF Position
<1>5. CASE ~ (p > stored)
  BY <1>1, <1>2, <1>3, <1>5 DEF Position, Nowhere
<1> QED
  BY <1>4, <1>5

\* Whatever will be delivered again is delivered in replay.
LEMMA ReplayCoversRepeatsStep ==
    ASSUME OneInit, PositionSurvives, LiveOnce, TypeOK', [Next]_vars
    PROVE  ReplayCoversRepeats'
<1> USE DEF LiveOnce, InOrder, TypeOK, ReplayCoversRepeats, AgainAt, OneInit
<1>1. CASE AppendEvent
  <2>1. next \in Position /\ projected[next] = 0
    BY <1>1, ProjectionRunAssumption DEF AppendEvent, KnownEvents, Position
  <2> QED
    BY <1>1, <2>1 DEF AppendEvent, projectionVars, streamVars
<1>2. ASSUME NEW p \in log, Scavenge(p) PROVE ReplayCoversRepeats'
  BY <1>2 DEF Scavenge, projectionVars, streamVars
<1>3. ASSUME NEW i \in Inits, Boot(i) \/ AddAgain(i)
      PROVE  ReplayCoversRepeats'
  BY <1>3
  DEF Boot, AddAgain, BeforeDone, OneHandler, durableVars, projectionVars,
      streamVars
<1>4. ASSUME NEW i \in Inits, GetLatestPosition(i) PROVE ReplayCoversRepeats'
  <2>1. \A p \in log : p <= Latest
    BY LatestIsLargest
  <2>2. handlers = {}
    BY <1>4 DEF GetLatestPosition, BeforeDone
  <2> QED
    BY <1>4, <2>1, <2>2
    DEF GetLatestPosition, durableVars, streamVars
<1>5. ASSUME NEW i \in Inits, Subscribe(i) PROVE ReplayCoversRepeats'
  <2>1. isReplaying /\ handlers = {}
    BY <1>5 DEF Subscribe, BeforeDone
  <2>2. \A p \in log : projected[p] > 0 => p <= latestPosition
    BY <1>5 DEF Subscribe
  <2>3. UpToDate => \A p \in log : projected[p] > 0 => ~ (p > StartOf(stored))
    BY <2>2 DEF UpToDate, StartOf, Known, Position, Nowhere
  <2>4. UpToDate \/ isReplaying' = isReplaying
    BY <1>5 DEF Subscribe
  <2>5. UpToDate => ~isReplaying'
    BY <1>5 DEF Subscribe, OnReplayed
  <2>6. /\ UNCHANGED <<log, projected, latestPosition, handlers>>
        /\ \A j \in Inits : pc'[j] = "done" /\ cursor'[j] = StartOf(stored)
    BY <1>5 DEF Subscribe, durableVars
  <2> QED
    BY <2>1, <2>2, <2>3, <2>4, <2>5, <2>6
<1>6. ASSUME NEW i \in Inits, Deliver(i) PROVE ReplayCoversRepeats'
  <2>1. PICK p \in log, g \in Handler :
           /\ p > cursor[i]
           /\ cursor' = [cursor EXCEPT ![i] = p]
           /\ handlers' = {g}
           /\ g.by = i
           /\ g.position = p
    BY <1>6, OnlyDelivery
  <2>2. pc[i] = "done" /\ p \in Position
    BY <1>6, OnlyDelivery
  <2>3. \A q \in log : q > p => q > cursor[i]
    BY <2>1, <2>2 DEF Position, Nowhere
  <2>4. ASSUME NEW q \in log, projected[q] > 0, q > p
        PROVE  p = 0 /\ q > cursor[i]
    BY <1>6, <2>1, <2>3, <2>4, RepeatsAreDelivered
  <2>5. ASSUME isReplaying, NEW q \in log, projected[q] > 0, q > p
        PROVE  q <= latestPosition
    <3>1. SUFFICES ASSUME cursor[i] = 0 PROVE FALSE
      BY <2>2, <2>4, <2>5
    <3>2. p = 0
      BY <2>4, <2>5
    <3> QED
      BY <2>1, <3>1, <3>2
  <2> QED
    BY <1>6, <2>1, <2>2, <2>4, <2>5
    DEF Deliver, durableVars, projectionVars
<1>7. CASE End
  BY <1>7 DEF End, Forget
<1>8. CASE Stop \/ SwitchActive \/ UNCHANGED vars
  BY <1>8
  DEF Stop, SwitchActive, vars, durableVars, projectionVars, streamVars
<1>9. ASSUME NEW h \in handlers
      PROVE  /\ handlers = {h}
             /\ h.by \in Inits
             /\ h.position \in Position
             /\ \A i \in Inits : /\ i = h.by
                                 /\ pc[i] = "done"
                                 /\ cursor[i] = h.position
  BY DEF OneHandler, Handler
<1>10. ASSUME NEW h \in handlers, Project(h) PROVE ReplayCoversRepeats'
  <2>1. PICK g \in Handler : /\ handlers' = {g}
                             /\ g.by = h.by
                             /\ g.position = h.position
    BY <1>10, OnlyHandler DEF Project, Phase
  <2>2. \A q \in Position : q > h.position => projected'[q] = projected[q]
    BY <1>9, <1>10 DEF Project, Position
  <2>3. UNCHANGED <<log, pc, isReplaying, latestPosition, cursor>>
    BY <1>10 DEF Project, projectionVars, streamVars
  <2>4. \A q \in log : q > h.position =>
           (projected'[q] > 0 <=> projected[q] > 0)
    BY <1>9, <2>2
  <2>5. /\ \A i \in Inits : pc'[i] = "done" /\ cursor'[i] = h.position
        /\ log' = log
        /\ \A k \in handlers' : k.position = h.position /\ k.by \in Inits
    BY <1>9, <2>1, <2>3
  <2>6. CASE isReplaying
    <3>1. \A q \in log : projected[q] > 0 /\ q > h.position =>
             q <= latestPosition /\ h.position = 0
      BY <1>9, <2>6
    <3> QED
      BY <2>3, <2>4, <2>5, <2>6, <3>1
  <2>7. CASE ~isReplaying
    <3>1. \A q \in log : ~ (projected[q] > 0 /\ q > h.position)
      BY <1>9, <2>7
    <3> QED
      BY <2>3, <2>4, <2>5, <2>7, <3>1
  <2> QED
    BY <2>6, <2>7
<1>11. ASSUME NEW h \in handlers, SideEffect(h) \/ SavePosition(h)
       PROVE  ReplayCoversRepeats'
  <2>1. PICK g \in Handler : /\ handlers' = {g}
                             /\ g.by = h.by
                             /\ g.position = h.position
    BY <1>11, OnlyHandler DEF SideEffect, SavePosition, Phase
  <2> QED
    BY <1>9, <1>11, <2>1
    DEF SideEffect, SavePosition, projectionVars, streamVars
<1>12. ASSUME NEW h \in handlers, Finish(h) PROVE ReplayCoversRepeats'
  <2>1. AgainAt(h.by) # {} => h.position = 0
    OBVIOUS
  <2>2. CASE isReplaying'
    BY <1>9, <1>12, <2>1, <2>2 DEF Finish, durableVars
  <2>3. CASE ~isReplaying /\ ~isReplaying'
    BY <1>9, <1>12, <2>3 DEF Finish, durableVars
  <2>4. CASE isReplaying /\ ~isReplaying'
    <3>1. h.position >= latestPosition
      BY <1>12, <2>4 DEF Finish
    <3>2. \A q \in AgainAt(h.by) : q <= latestPosition
      BY <1>9, <2>4
    <3>3. ASSUME NEW q \in AgainAt(h.by) PROVE FALSE
      <4>1. q \in Position /\ q > h.position /\ q <= latestPosition
        BY <1>9, <3>2
      <4> QED
        BY <1>9, <3>1, <4>1 DEF Position, Nowhere
    <3> QED
      BY <1>9, <1>12, <2>4, <3>3 DEF Finish, durableVars
  <2> QED
    BY <2>2, <2>3, <2>4
<1> QED
  BY <1>1, <1>2, <1>3, <1>4, <1>5, <1>6, <1>7, <1>8, <1>10, <1>11, <1>12
  DEF Next, Handle

\* A handler out of replay is the first to project its event and to execute
\* the side effect of it.
LEMMA LiveIsFirstStep ==
    ASSUME OneInit, LiveOnce, TypeOK', [Next]_vars
    PROVE  LiveIsFirst'
<1> USE DEF LiveOnce, InOrder, TypeOK, LiveIsFirst, OneInit
<1>1. ASSUME UNCHANGED <<projected, effects, handlers>> PROVE LiveIsFirst'
  BY <1>1
<1>2. ASSUME NEW p \in log, Scavenge(p) PROVE LiveIsFirst'
  BY <1>1, <1>2 DEF Scavenge
<1>3. ASSUME NEW i \in Inits,
             Boot(i) \/ AddAgain(i) \/ GetLatestPosition(i) \/ Subscribe(i)
      PROVE  LiveIsFirst'
  BY <1>1, <1>3
  DEF Boot, AddAgain, GetLatestPosition, Subscribe, durableVars
<1>4. ASSUME NEW i \in Inits, Deliver(i) PROVE LiveIsFirst'
  <2>1. PICK p \in log, g \in Handler :
           /\ p > cursor[i]
           /\ handlers' = {g}
           /\ g.position = p
           /\ g.isReplaying = isReplaying
           /\ g.phase = "project"
    BY <1>4, OnlyDelivery
  <2>2. pc[i] = "done"
    BY <1>4, OnlyDelivery
  <2>3. ~isReplaying => projected[p] = 0
    BY <2>1, <2>2 DEF ReplayCoversRepeats, AgainAt
  <2> QED
    BY <1>4, <2>1, <2>3 DEF Deliver, durableVars
<1>5. CASE AppendEvent \/ Stop \/ SwitchActive \/ UNCHANGED vars
  BY <1>1, <1>5 DEF AppendEvent, Stop, SwitchActive, vars, durableVars
<1>6. CASE End
  BY <1>6 DEF End, Forget, durableVars
<1>7. ASSUME NEW h \in handlers, Project(h) PROVE LiveIsFirst'
  <2>1. PICK g \in Handler : /\ handlers' = {g}
                             /\ g.position = h.position
                             /\ g.isReplaying = h.isReplaying
                             /\ g.phase = "effect"
                             /\ h.position \in Position
    BY <1>7, OnlyHandler DEF Project, Phase
  <2>2. projected' = [projected EXCEPT ![h.position] = @ + 1]
        /\ effects' = effects /\ h.phase = "project"
    BY <1>7 DEF Project
  <2>3. \A p \in Position : projected[p] > 0 => projected'[p] > 0
    BY <2>1, <2>2
  <2>4. ~h.isReplaying => projected'[h.position] = 1 /\ effects[h.position] = 0
    <3>1. ~h.isReplaying => projected[h.position] = 0
      BY <2>2
    <3>2. projected[h.position] = 0 => effects[h.position] = 0
      BY <2>1
    <3> QED
      BY <2>1, <2>2, <3>1, <3>2
  <2> QED
    BY <2>1, <2>2, <2>3, <2>4
<1>8. ASSUME NEW h \in handlers, SideEffect(h) PROVE LiveIsFirst'
  <2>1. PICK g \in Handler : /\ handlers' = {g}
                             /\ g.phase = "save"
                             /\ h.position \in Position
    BY <1>8, OnlyHandler DEF SideEffect, Phase
  <2>2. projected[h.position] > 0
    BY <1>8 DEF SideEffect, DeliveredIsProjected
  <2>3. \A p \in Position : p # h.position => effects'[p] = effects[p]
    BY <1>8 DEF SideEffect
  <2> QED
    BY <1>8, <2>1, <2>2, <2>3 DEF SideEffect
<1>9. ASSUME NEW h \in handlers, SavePosition(h) PROVE LiveIsFirst'
  <2>1. PICK g \in Handler : handlers' = {g} /\ g.phase = "finish"
    BY <1>9, OnlyHandler DEF SavePosition, Phase
  <2> QED
    BY <1>9, <2>1 DEF SavePosition
<1>10. ASSUME NEW h \in handlers, Finish(h) PROVE LiveIsFirst'
  BY <1>10 DEF Finish, durableVars
<1> QED
  BY <1>2, <1>3, <1>4, <1>5, <1>6, <1>7, <1>8, <1>9, <1>10 DEF Next, Handle

\* A side effect is executed by a handler out of replay only, which is the first
\* one of its event.
LEMMA EffectsGrow ==
    ASSUME OneInit, LiveOnce, [Next]_vars, NEW p \in Position,
           effects'[p] # effects[p]
    PROVE  effects[p] = 0 /\ effects'[p] = 1 /\ projected[p] = 1
<1> USE DEF LiveOnce, InOrder, TypeOK
<1>1. PICK h \in handlers : SideEffect(h)
  BY DEF Next, Handle, AppendEvent, Scavenge, Boot, AddAgain, GetLatestPosition,
         Subscribe, Deliver, End, Stop, SwitchActive, Project, SavePosition,
         Finish, vars, durableVars
<1>2. h.phase = "effect" /\ ~h.isReplaying /\ p = h.position
      /\ effects' = [effects EXCEPT ![h.position] = @ + 1]
  BY <1>1 DEF SideEffect
<1> QED
  BY <1>2 DEF LiveIsFirst

\* Every step keeps the invariant.
LEMMA LiveOnceStep ==
    OneInit /\ PositionSurvives /\ LiveOnce /\ [Next]_vars => LiveOnce'
<1> SUFFICES ASSUME OneInit, PositionSurvives, LiveOnce, [Next]_vars
             PROVE  LiveOnce'
  OBVIOUS
<1>1. InOrder' /\ TypeOK'
  BY InOrderStep DEF LiveOnce, InOrder
<1>2. EffectsAtMostOnce'
  <2>1. ASSUME NEW p \in Position PROVE effects'[p] <= 1
    <3>1. CASE effects'[p] = effects[p]
      BY <3>1 DEF LiveOnce, EffectsAtMostOnce
    <3>2. CASE effects'[p] # effects[p]
      BY <3>2, EffectsGrow
    <3> QED
      BY <3>1, <3>2
  <2> QED
    BY <2>1 DEF EffectsAtMostOnce
<1> QED
  BY <1>1, <1>2, OnlyTheNextIsAheadStep, CursorFollowsStoredStep,
     ReplayCoversRepeatsStep, LiveIsFirstStep
  DEF LiveOnce

\* The invariant holds of a process that initialises the projection once, over
\* a store whose positions are bigints.
THEOREM ReplayInvariant ==
    ASSUME OneInit, PositionSurvives
    PROVE  Spec => []LiveOnce
  BY LiveOnceInit, LiveOnceStep, PTL DEF Spec

\* However often the process ends between the steps of an event and is started
\* again, a side effect of the event is executed at most once.
THEOREM EffectsHappenAtMostOnce ==
    ASSUME OneInit, PositionSurvives
    PROVE  Spec => []EffectsAtMostOnce
<1>1. LiveOnce => EffectsAtMostOnce
  BY DEF LiveOnce
<1> QED
  BY <1>1, ReplayInvariant, PTL

\* No step executes a side effect of an event that was projected before: what
\* an earlier process projected is delivered in replay.
THEOREM ReplaysHaveNoEffects ==
    ASSUME OneInit, PositionSurvives
    PROVE  Spec => ReplayHasNoEffects
<1>1. LiveOnce /\ [Next]_vars =>
        [\A p \in Position : effects'[p] > effects[p] => projected[p] = 1]_vars
  <2> SUFFICES ASSUME LiveOnce, [Next]_vars, NEW p \in Position,
                      effects'[p] > effects[p]
               PROVE  projected[p] = 1
    OBVIOUS
  <2>1. effects'[p] # effects[p]
    BY DEF LiveOnce, InOrder, TypeOK
  <2> QED
    BY <2>1, EffectsGrow
<1> QED
  BY <1>1, ReplayInvariant, PTL DEF Spec, ReplayHasNoEffects
-----------------------------------------------------------------------------
(* Repetitions: one for every end of a process. *)

\* How often an event counts as projected: an event that was not counts once.
Count(p) == IF projected[p] = 0 THEN 1 ELSE projected[p]

\* An event after position 0 may still be projected again by this process.
Owed == \/ \E i \in Inits : IF pc[i] = "done"
                            THEN \E p \in AgainAt(i) : p > 0
                            ELSE restarts > 0
        \/ \E h \in handlers : /\ h.phase = "project"
                               /\ h.position > 0
                               /\ projected[h.position] > 0

RepeatsCounted ==
    /\ \A p, q \in Position \ {0} : p # q =>
         /\ Count(p) + Count(q) <= 2 + restarts
         /\ Owed => Count(p) + Count(q) <= 1 + restarts
    /\ restarts = 0 => \A i \in Inits : pc[i] # "done" =>
         \A p \in Position : projected[p] = 0

\* The inductive invariant behind RepeatsOnePerRestart.
RepeatsBounded == LiveOnce /\ RepeatsCounted

\* Counts are positive.
LEMMA CountPositive ==
    ASSUME TypeOK, NEW p \in Position
    PROVE  /\ Count(p) \in Nat \ {0}
           /\ projected[p] <= Count(p)
           /\ projected[p] > 0 => Count(p) = projected[p]
  BY DEF TypeOK, Count

\* The initial states satisfy it.
LEMMA RepeatsBoundedInit == Init => RepeatsBounded
<1> SUFFICES ASSUME Init PROVE RepeatsBounded
  OBVIOUS
<1>1. LiveOnce
  BY LiveOnceInit
<1>2. ~Owed
  BY DEF Init, Fresh, Owed
<1>3. \A p \in Position : projected[p] = 0 /\ Count(p) = 1
  BY DEF Init, Count
<1> QED
  BY <1>1, <1>2, <1>3 DEF RepeatsBounded, RepeatsCounted, Init

\* A step that projects nothing and ends no process keeps the count when it
\* brings no new repetition.
LEMMA CountKept ==
    ASSUME RepeatsCounted, UNCHANGED <<projected, restarts>>, Owed' => Owed,
           restarts = 0 => \A i \in Inits : pc'[i] # "done" =>
                              \A p \in Position : projected[p] = 0
    PROVE  RepeatsCounted'
  BY DEF RepeatsCounted, Count

\* An event that is projected again was owed, and the debt is paid by it.
LEMMA ProjectPaysTheDebt ==
    ASSUME OneInit, PositionSurvives, RepeatsBounded, TypeOK',
           NEW h \in handlers, Project(h)
    PROVE  RepeatsCounted'
<1> USE DEF RepeatsBounded, LiveOnce, InOrder, TypeOK
<1>1. PICK g \in Handler : /\ handlers = {h}
                           /\ handlers' = {g}
                           /\ g.phase = "effect"
                           /\ h.position \in Position
  BY OnlyHandler DEF Project, Phase
<1>2. \A i \in Inits : pc[i] = "done" /\ cursor[i] = h.position
  BY <1>1 DEF OneHandler, OneInit, Handler
<1>3. /\ UNCHANGED <<log, pc, cursor, restarts>>
      /\ projected' = [projected EXCEPT ![h.position] = @ + 1]
      /\ h.phase = "project"
  BY DEF Project, processVars, streamVars
<1>4. \A p \in Position : p # h.position =>
         projected'[p] = projected[p] /\ Count(p)' = Count(p)
  BY <1>1, <1>3 DEF Count
<1>5. /\ projected[h.position] = 0 => Count(h.position)' = Count(h.position)
      /\ projected[h.position] > 0 =>
           Count(h.position)' = Count(h.position) + 1
  BY <1>1, <1>3 DEF Count
<1>6. Owed' => \E p \in log : /\ p > h.position
                              /\ p > 0
                              /\ projected'[p] > 0
  BY <1>1, <1>2, <1>3 DEF Owed, AgainAt
<1>7. \A p \in log : p > h.position => p # h.position /\ p \in Position
  BY <1>1 DEF Position
<1>8. Owed' => Owed
  <2>1. SUFFICES ASSUME NEW p \in log, p > h.position, p > 0,
                        projected'[p] > 0
                 PROVE  Owed
    BY <1>6
  <2>2. projected[p] > 0
    BY <1>4, <1>7, <2>1
  <2>3. h.by \in Inits
    BY <1>1 DEF Handler
  <2> QED
    BY <1>2, <2>1, <2>2, <2>3 DEF Owed, AgainAt
<1>9. \A p \in Position : Count(p) \in Nat
  BY CountPositive
<1>10. CASE projected[h.position] = 0 \/ h.position = 0
  <2>1. \A p \in Position \ {0} : Count(p)' = Count(p)
    BY <1>4, <1>5, <1>10
  <2> QED
    BY <1>2, <1>3, <1>8, <2>1 DEF RepeatsCounted
<1>11. CASE projected[h.position] > 0 /\ h.position > 0
  <2>1. Owed
    BY <1>1, <1>3, <1>11 DEF Owed
  <2>2. ~Owed'
    <3>1. SUFFICES ASSUME NEW p \in log, p > h.position, projected'[p] > 0
                   PROVE  FALSE
      BY <1>6
    <3>2. projected[p] > 0 /\ cursor[h.by] = h.position
      BY <1>1, <1>2, <1>4, <1>7, <3>1 DEF Handler
    <3>3. h.position = 0
      BY <3>1, <3>2 DEF ReplayCoversRepeats, AgainAt
    <3> QED
      BY <1>11, <3>3
  <2>3. \A p, q \in Position \ {0} : p # q =>
           Count(p)' + Count(q)' <= 2 + restarts
    <3> SUFFICES ASSUME NEW p \in Position \ {0}, NEW q \in Position \ {0},
                        p # q
                 PROVE  Count(p)' + Count(q)' <= 2 + restarts
      OBVIOUS
    <3>1. Count(p) + Count(q) <= 1 + restarts
      BY <2>1 DEF RepeatsCounted
    <3>2. Count(p)' + Count(q)' <= Count(p) + Count(q) + 1
      BY <1>4, <1>5, <1>9, <1>11
    <3>3. /\ Count(p) \in Nat /\ Count(q) \in Nat
          /\ Count(p)' \in Nat /\ Count(q)' \in Nat
      BY <1>4, <1>5, <1>9, <1>11
    <3> QED
      BY <3>1, <3>2, <3>3
  <2> QED
    BY <1>2, <1>3, <2>2, <2>3 DEF RepeatsCounted
<1> QED
  BY <1>1, <1>10, <1>11 DEF Position

\* The end of a process pays for one repetition by the next one.
LEMMA RepeatsCountedStep ==
    ASSUME OneInit, PositionSurvives, RepeatsBounded, TypeOK', [Next]_vars
    PROVE  RepeatsCounted'
<1> USE DEF RepeatsBounded, LiveOnce, InOrder, TypeOK
<1>1. CASE AppendEvent
  <2>1. next \in Position /\ projected[next] = 0
    BY <1>1, ProjectionRunAssumption DEF AppendEvent, KnownEvents, Position
  <2>2. Owed' => Owed
    BY <1>1, <2>1
    DEF AppendEvent, Owed, AgainAt, processVars, streamVars
  <2> QED
    BY <1>1, <2>2, CountKept DEF AppendEvent, processVars, RepeatsCounted
<1>2. ASSUME NEW p \in log, Scavenge(p) PROVE RepeatsCounted'
  <2>1. Owed' => Owed
    BY <1>2 DEF Scavenge, Owed, AgainAt, processVars, streamVars
  <2> QED
    BY <1>2, <2>1, CountKept DEF Scavenge, processVars, RepeatsCounted
<1>3. ASSUME NEW i \in Inits, Boot(i) \/ AddAgain(i) \/ GetLatestPosition(i)
      PROVE  RepeatsCounted'
  <2>1. \A j \in Inits : pc[j] # "done" /\ pc'[j] # "done"
    BY <1>3 DEF Boot, AddAgain, GetLatestPosition, OneHandler, OneInit
  <2>2. UNCHANGED <<projected, restarts, handlers>>
    BY <1>3
    DEF Boot, AddAgain, GetLatestPosition, durableVars, processVars
  <2>3. Owed' => Owed
    BY <2>1, <2>2 DEF Owed
  <2> QED
    BY <2>1, <2>2, <2>3, CountKept DEF RepeatsCounted
<1>4. ASSUME NEW i \in Inits, Subscribe(i) PROVE RepeatsCounted'
  <2>1. /\ UNCHANGED <<log, projected, restarts, handlers>>
        /\ \A j \in Inits : pc[j] # "done" /\ pc'[j] = "done"
    BY <1>4 DEF Subscribe, OneInit, durableVars, processVars
  <2>2. Owed' => Owed
    <3>1. CASE restarts = 0
      <4>1. \A p \in log : projected[p] = 0 /\ handlers = {}
        BY <1>4, <2>1, <3>1 DEF RepeatsCounted, BeforeDone
      <4> QED
        BY <2>1, <4>1 DEF Owed, AgainAt, BeforeDone
    <3>2. CASE restarts # 0
      BY <1>4, <2>1, <3>2 DEF Owed
    <3> QED
      BY <3>1, <3>2
  <2> QED
    BY <2>1, <2>2, CountKept
<1>5. ASSUME NEW i \in Inits, Deliver(i) PROVE RepeatsCounted'
  <2>1. PICK p \in log, g \in Handler :
           /\ p > cursor[i]
           /\ cursor' = [cursor EXCEPT ![i] = p]
           /\ handlers' = {g}
           /\ g.position = p
    BY <1>5, OnlyDelivery
  <2>2. pc[i] = "done" /\ handlers = {}
    BY <1>5, OnlyDelivery
  <2>3. UNCHANGED <<log, projected, restarts, pc>>
    BY <1>5 DEF Deliver, durableVars, processVars
  <2>4. \A q \in log : q > p => q > cursor[i]
    BY <2>1 DEF Position, Nowhere
  <2>5. Owed' => \E q \in log : /\ q > cursor[i]
                                /\ q > 0
                                /\ projected[q] > 0
    BY <2>1, <2>2, <2>3, <2>4 DEF Owed, AgainAt, OneInit
  <2>6. Owed' => Owed
    BY <2>2, <2>5 DEF Owed, AgainAt
  <2> QED
    BY <2>2, <2>3, <2>6, CountKept DEF RepeatsCounted
<1>6. CASE End
  <2>1. /\ restarts' = restarts + 1
        /\ \A p \in Position : projected'[p] = projected[p]
                                 /\ Count(p)' = Count(p)
    BY <1>6 DEF End, durableVars, Count
  <2>2. \A p \in Position : Count(p) \in Nat
    BY CountPositive
  <2> QED
    BY <2>1, <2>2 DEF RepeatsCounted
<1>7. CASE Stop \/ SwitchActive \/ UNCHANGED vars
  <2>1. UNCHANGED <<log, projected, restarts, pc, cursor, handlers>>
    BY <1>7
    DEF Stop, SwitchActive, vars, durableVars, processVars, streamVars
  <2> QED
    BY <2>1 DEF RepeatsCounted, Owed, AgainAt, Count
<1>8. ASSUME NEW h \in handlers, SideEffect(h) \/ SavePosition(h)
      PROVE  RepeatsCounted'
  <2>1. PICK g \in Handler : handlers' = {g} /\ g.phase # "project"
    <3>1. CASE SideEffect(h)
      BY <3>1, OnlyHandler DEF SideEffect, Phase
    <3>2. CASE SavePosition(h)
      BY <3>2, OnlyHandler DEF SavePosition, Phase
    <3> QED
      BY <1>8, <3>1, <3>2
  <2>2. UNCHANGED <<log, projected, restarts, pc, cursor>>
    BY <1>8 DEF SideEffect, SavePosition, processVars, streamVars
  <2>3. Owed' => Owed
    BY <2>1, <2>2 DEF Owed, AgainAt
  <2> QED
    BY <2>2, <2>3, CountKept DEF RepeatsCounted
<1>9. ASSUME NEW h \in handlers, Finish(h) PROVE RepeatsCounted'
  <2>1. /\ UNCHANGED <<log, projected, restarts, pc, cursor>>
        /\ handlers' \subseteq handlers
    BY <1>9 DEF Finish, durableVars, processVars
  <2>2. Owed' => Owed
    BY <2>1 DEF Owed, AgainAt
  <2> QED
    BY <2>1, <2>2, CountKept DEF RepeatsCounted
<1> QED
  BY <1>1, <1>2, <1>3, <1>4, <1>5, <1>6, <1>7, <1>8, <1>9, ProjectPaysTheDebt
  DEF Next, Handle

\* Every step keeps the invariant.
LEMMA RepeatsBoundedStep ==
    OneInit /\ PositionSurvives /\ RepeatsBounded /\ [Next]_vars
      => RepeatsBounded'
<1> SUFFICES ASSUME OneInit, PositionSurvives, RepeatsBounded, [Next]_vars
             PROVE  RepeatsBounded'
  OBVIOUS
<1>1. LiveOnce' /\ TypeOK'
  BY LiveOnceStep DEF RepeatsBounded, LiveOnce, InOrder
<1> QED
  BY <1>1, RepeatsCountedStep DEF RepeatsBounded

\* The end of a process makes the next one repeat at most one event.
THEOREM RepeatsAreOnePerRestart ==
    ASSUME OneInit, PositionSurvives
    PROVE  Spec => []RepeatsOnePerRestart
<1>1. Spec => []RepeatsBounded
  BY RepeatsBoundedInit, RepeatsBoundedStep, PTL DEF Spec
<1>2. RepeatsBounded => RepeatsOnePerRestart
  <2> SUFFICES ASSUME RepeatsBounded,
                      NEW p \in Position \ {0}, NEW q \in Position \ {0},
                      p # q
               PROVE  projected[p] + projected[q] <= 2 + restarts
    BY DEF RepeatsOnePerRestart
  <2>1. TypeOK
    BY DEF RepeatsBounded, LiveOnce, InOrder
  <2>2. Count(p) + Count(q) <= 2 + restarts
    BY DEF RepeatsBounded, RepeatsCounted
  <2>3. projected[p] <= Count(p) /\ projected[q] <= Count(q)
    BY <2>1, CountPositive
  <2>4. /\ projected[p] \in Nat /\ projected[q] \in Nat
        /\ Count(p) \in Nat /\ Count(q) \in Nat
        /\ restarts \in Nat
    BY <2>1, CountPositive, ProjectionRunAssumption DEF TypeOK
  <2> QED
    BY <2>2, <2>3, <2>4
<1> QED
  BY <1>1, <1>2, PTL
-----------------------------------------------------------------------------
(* An event whose position is stored is not projected again. *)

\* The event that is handled is behind the stored position, until its own is
\* stored.  Position 0 counts as no position.
HandledIsAhead ==
    \A h \in handlers : h.phase # "finish" => stored < h.position \/ h.position = 0

\* Every step keeps this.
LEMMA HandledIsAheadStep ==
    ASSUME OneInit, LiveOnce, HandledIsAhead, [Next]_vars
    PROVE  HandledIsAhead'
<1> USE DEF LiveOnce, InOrder, TypeOK, HandledIsAhead, OneInit
<1>1. CASE AppendEvent \/ Stop \/ SwitchActive \/ UNCHANGED vars
  BY <1>1 DEF AppendEvent, Stop, SwitchActive, vars, durableVars
<1>2. ASSUME NEW p \in log, Scavenge(p) PROVE HandledIsAhead'
  BY <1>2 DEF Scavenge
<1>3. ASSUME NEW i \in Inits,
             Boot(i) \/ AddAgain(i) \/ GetLatestPosition(i) \/ Subscribe(i)
      PROVE  HandledIsAhead'
  BY <1>3 DEF Boot, AddAgain, GetLatestPosition, Subscribe, durableVars
<1>4. ASSUME NEW i \in Inits, Deliver(i) PROVE HandledIsAhead'
  <2>1. PICK p \in log, g \in Handler :
           p > cursor[i] /\ handlers' = {g} /\ g.position = p
    BY <1>4, OnlyDelivery
  <2>2. \/ cursor[i] = stored
        \/ cursor[i] = Nowhere /\ stored <= 0
    BY <1>4, OnlyDelivery DEF CursorFollowsStored
  <2>3. stored < p \/ p = 0
    BY <2>1, <2>2 DEF Position, Nowhere
  <2> QED
    BY <1>4, <2>1, <2>3 DEF Deliver, durableVars
<1>5. CASE End
  BY <1>5 DEF End, Forget
<1>6. ASSUME NEW h \in handlers, Project(h) \/ SideEffect(h)
      PROVE  HandledIsAhead'
  <2>1. PICK g \in Handler : handlers' = {g} /\ g.position = h.position
    <3>1. CASE Project(h)
      BY <3>1, OnlyHandler DEF Project, Phase
    <3>2. CASE SideEffect(h)
      BY <3>2, OnlyHandler DEF SideEffect, Phase
    <3> QED
      BY <1>6, <3>1, <3>2
  <2>2. h.phase # "finish"
    BY <1>6 DEF Project, SideEffect
  <2> QED
    BY <1>6, <2>1, <2>2 DEF Project, SideEffect
<1>7. ASSUME NEW h \in handlers, SavePosition(h) PROVE HandledIsAhead'
  <2>1. PICK g \in Handler : handlers' = {g} /\ g.phase = "finish"
    BY <1>7, OnlyHandler DEF SavePosition, Phase
  <2> QED
    BY <2>1
<1>8. ASSUME NEW h \in handlers, Finish(h) PROVE HandledIsAhead'
  BY <1>8 DEF Finish, durableVars
<1> QED
  BY <1>1, <1>2, <1>3, <1>4, <1>5, <1>6, <1>7, <1>8 DEF Next, Handle

\* The invariant of the steps of an event.
LEMMA AheadInvariant ==
    ASSUME OneInit, PositionSurvives
    PROVE  Spec => [](LiveOnce /\ HandledIsAhead)
<1>1. Init => HandledIsAhead
  BY DEF Init, Fresh, HandledIsAhead
<1>2. LiveOnce /\ HandledIsAhead /\ [Next]_vars => HandledIsAhead'
  BY HandledIsAheadStep
<1> QED
  BY <1>1, <1>2, ReplayInvariant, PTL DEF Spec

\* However often the process ends, the handler of an event is run only as long
\* as the position of the event is not stored (but for the event at position 0):
\* what ends the runs that StoreTable has of a handler.
THEOREM StoredIsNotProjectedAgain ==
    ASSUME OneInit, PositionSurvives
    PROVE  Spec => [][\A p \in Position \ {0} :
                         projected'[p] > projected[p] => stored < p]_vars
<1>1. LiveOnce /\ HandledIsAhead /\ [Next]_vars =>
        [\A p \in Position \ {0} :
            projected'[p] > projected[p] => stored < p]_vars
  <2> SUFFICES ASSUME LiveOnce, HandledIsAhead, [Next]_vars,
                      NEW p \in Position \ {0}, projected'[p] > projected[p]
               PROVE  stored < p
    OBVIOUS
  <2> USE DEF LiveOnce, InOrder, TypeOK
  <2>1. projected' # projected
    OBVIOUS
  <2>2. PICK h \in handlers : Project(h)
    BY <2>1 DEF Next, Handle, AppendEvent, Scavenge, Boot, AddAgain,
       GetLatestPosition, Subscribe, Deliver, End, Stop, SwitchActive,
       SideEffect, SavePosition, Finish, vars, durableVars
  <2>3. p = h.position
    <3>1. projected' = [projected EXCEPT ![h.position] = @ + 1]
      BY <2>2 DEF Project
    <3>2. CASE p # h.position
      <4>1. projected'[p] = projected[p]
        BY <3>1, <3>2
      <4> QED
        BY <4>1
    <3> QED
      BY <3>2
  <2> QED
    BY <2>2, <2>3 DEF Project, HandledIsAhead
<1> QED
  BY <1>1, AheadInvariant, PTL DEF Spec

\* The stored position never goes back.
THEOREM StoredPositionGrows ==
    ASSUME OneInit, PositionSurvives
    PROVE  Spec => [][stored' >= stored]_vars
<1>1. LiveOnce /\ [Next]_vars => [stored' >= stored]_vars
  <2> SUFFICES ASSUME LiveOnce, [Next]_vars, stored' # stored
               PROVE  stored' >= stored
    BY DEF LiveOnce, InOrder, TypeOK, Position, Nowhere
  <2>1. PICK h \in handlers : SavePosition(h)
    BY DEF Next, Handle, AppendEvent, Scavenge, Boot, AddAgain,
       GetLatestPosition, Subscribe, Deliver, End, Stop, SwitchActive,
       Project, SideEffect, Finish, vars, durableVars
  <2>2. h.phase = "save" /\ stored' = h.position
    BY <2>1 DEF SavePosition
  <2>3. stored <= h.position
    BY <2>2 DEF LiveOnce, CursorFollowsStored
  <2> QED
    BY <2>2, <2>3 DEF LiveOnce, InOrder, TypeOK, Handler, Position, Nowhere
<1> QED
  BY <1>1, ReplayInvariant, PTL DEF Spec
-----------------------------------------------------------------------------
(* The row that a handler leaves behind. *)

\* The stores and the handlers of which RerunConverges and SomeOrder speak.
Atomic == AsInTests /\ (awaited \/ adapter # "redis")

HandlerFields(n) == DOMAIN handler[n].values

\* What is there after the latest operation of an order that does not update
\* what it finds, the one at place l; 0 if there is none.
Base(order, l) == IF l = 0 THEN before
                  ELSE IF handler[order[l]].kind = "set"
                       THEN handler[order[l]].values
                       ELSE Absent

\* The operations that are done, in the order in which they took effect: that
\* of the handler if it awaits them.  l is the place of the latest one that is
\* no update.
EffectOrder(order, k, l) ==
    /\ order \in [1..k -> DOMAIN handler]
    /\ \A i, j \in 1..k : order[i] = order[j] => i = j
    /\ \A n \in DOMAIN handler :
          progress[n] = "done" <=> \E i \in 1..k : order[i] = n
    /\ awaited => \A i \in 1..k : order[i] = i
    /\ l > 0 => handler[order[l]].kind # "update"
    /\ \A i \in (l + 1)..k : handler[order[i]].kind = "update"

\* The operations that are not among the first l of the order.
Later(order, l) ==
    {n \in DOMAIN handler : \A i \in 1..l : order[i] # n}

\* The row as the operations of the order make it of the base.  A field that
\* later operations write may have been written by an earlier run of the
\* handler.
Made(order, k, l) ==
    LET base == Base(order, l)
    IN  /\ base = Absent => row = Absent
        /\ base # Absent =>
             /\ row # Absent
             /\ DOMAIN base \subseteq DOMAIN row
             /\ \A f \in DOMAIN row \ DOMAIN base :
                  \E n \in Later(order, l) : f \in HandlerFields(n)
             /\ \A f \in DOMAIN base :
                  (\A n \in Later(order, l) : f \notin HandlerFields(n)) =>
                    row[f] = base[f]
             /\ \A i \in (l + 1)..k : \A f \in HandlerFields(order[i]) :
                  (\A j \in (i + 1)..k : f \notin HandlerFields(order[j])) =>
                    f \in DOMAIN row /\ row[f] = order[i]

\* An operation is still to come that does not ask for the row.
OverwrittenLater(l) ==
    l = 0 /\ \E n \in DOMAIN handler : handler[n].kind # "update"

RowMade == \E k \in Nat : \E order \in [1..k -> DOMAIN handler], l \in 0..k :
              /\ EffectOrder(order, k, l)
              /\ OverwrittenLater(l) \/ Made(order, k, l)

\* The row is one of the table or there is none.
RowShape == \/ row = Absent
            \/ /\ DOMAIN row \subseteq Fields
               /\ row = [f \in DOMAIN row |-> row[f]]

\* An operation that is awaited begins after those before it.
InTurn == awaited => \A n \in DOMAIN handler, m \in DOMAIN handler :
                        m < n /\ progress[n] # "todo" => progress[m] = "done"

\* What an update of Redis has read is the row still.
ReadIsCurrent == \A n \in DOMAIN handler :
                    progress[n] = "read" =>
                      /\ awaited
                      /\ handler[n].kind = "update"
                      /\ row # Absent
                      /\ entry[n] = row

\* There is an entry for each operation.
EntryShape == entry = [n \in DOMAIN handler |-> entry[n]]

\* Nothing is left to do once the position is saved.
SavedIsDone == saved => \A n \in DOMAIN handler : progress[n] = "done"

Converging == /\ RowTypeOK
              /\ EntryShape
              /\ SavedIsDone
              /\ InTurn
              /\ Atomic => RowShape /\ ReadIsCurrent /\ RowMade

\* A handler is a list of at most MaxLength operations.  The values of the n-th
\* are n, and an update has one.
LEMMA HandlerShape ==
    ASSUME NEW h \in Handlers
    PROVE  \E N \in 1..MaxLength :
              /\ h = [n \in 1..N |-> h[n]]
              /\ DOMAIN h = 1..N
              /\ \A n \in 1..N :
                   /\ h[n].kind \in {"set", "update", "remove"}
                   /\ DOMAIN h[n].values \subseteq Fields
                   /\ h[n].values = [f \in DOMAIN h[n].values |-> n]
                   /\ h[n].kind = "update" => DOMAIN h[n].values # {}
<1>1. PICK N \in 1..MaxLength :
             h \in {g \in [1..N -> UNION {Operations(m) : m \in 1..N}] :
                      \A m \in 1..N : g[m] \in Operations(m)}
  BY DEF Handlers
<1>2. h = [n \in 1..N |-> h[n]] /\ DOMAIN h = 1..N
  BY <1>1
<1>3. ASSUME NEW n \in 1..N
      PROVE  /\ h[n].kind \in {"set", "update", "remove"}
             /\ DOMAIN h[n].values \subseteq Fields
             /\ h[n].values = [f \in DOMAIN h[n].values |-> n]
             /\ h[n].kind = "update" => DOMAIN h[n].values # {}
  <2>1. h[n] \in Operations(n)
    BY <1>1
  <2>2. ASSUME NEW e \in Entries(n)
        PROVE  DOMAIN e \subseteq Fields /\ e = [f \in DOMAIN e |-> n]
    <3>1. PICK fs \in SUBSET Fields : e \in [fs -> {n}]
      BY DEF Entries
    <3> QED
      BY <3>1
  <2>3. ASSUME NEW e \in Entries(n), DOMAIN e = {} PROVE e = Empty
    BY <2>2, <2>3 DEF Empty
  <2>4. Empty \in Entries(n)
    <3>1. Empty \in [{} -> {n}]
      BY DEF Empty
    <3>2. {} \in SUBSET Fields
      OBVIOUS
    <3> QED
      BY <3>1, <3>2 DEF Entries
  <2>5. CASE h[n] \in [kind : {"set"}, values : Entries(n)]
    <3>1. h[n].kind = "set" /\ h[n].values \in Entries(n)
      BY <2>5
    <3> QED
      BY <3>1, <2>2
  <2>6. CASE h[n] \in [kind : {"update"}, values : Entries(n) \ {Empty}]
    <3>1. h[n].kind = "update" /\ h[n].values \in Entries(n) \ {Empty}
      BY <2>6
    <3> QED
      BY <3>1, <2>2, <2>3
  <2>7. CASE h[n] = [kind |-> "remove", values |-> Empty]
    BY <2>7, <2>4, <2>2
  <2> QED
    BY <2>1, <2>5, <2>6, <2>7 DEF Operations
<1> QED
  BY <1>1, <1>2, <1>3

\* An entry that an operation has written is no missing row.
LEMMA WrittenIsNotAbsent ==
    ASSUME NEW n \in Nat \ {0}, NEW e, NEW f \in DOMAIN e, e[f] = n
    PROVE  e # Absent
BY DEF Absent
-----------------------------------------------------------------------------
\* An operation that is done now takes effect behind those that were.
Longer(order, k, n) == [i \in 1..(k + 1) |-> IF i <= k THEN order[i] ELSE n]

\* The place of the latest operation that is no update, once one more is done.
PlaceAfter(k, l, n) == IF handler[n].kind = "update" THEN l ELSE k + 1

\* The order of the effects with one more operation.
LEMMA EffectOrderGrows ==
    ASSUME RowTypeOK, InTurn,
           NEW k \in Nat, NEW order \in [1..k -> DOMAIN handler],
           NEW l \in 0..k, EffectOrder(order, k, l),
           NEW n \in DOMAIN handler, progress[n] # "done", Turn(n),
           progress' = [progress EXCEPT ![n] = "done"],
           UNCHANGED handlerVars,
           NEW longer, longer = Longer(order, k, n),
           NEW at, at = PlaceAfter(k, l, n)
    PROVE  /\ longer \in [1..(k + 1) -> DOMAIN handler]
           /\ at \in 0..(k + 1)
           /\ EffectOrder(longer, k + 1, at)'
<1>1. PICK N \in 1..MaxLength : DOMAIN handler = 1..N
  BY HandlerShape DEF RowTypeOK
<1>2. N \in Nat
  BY <1>1, StoreTableAssumption
<1>3. longer \in [1..(k + 1) -> DOMAIN handler]
  BY DEF Longer
<1>4. /\ \A i \in 1..k : longer[i] = order[i]
      /\ longer[k + 1] = n
  BY DEF Longer
<1>5. at \in 0..(k + 1)
  BY DEF PlaceAfter
<1>6. handler' = handler /\ awaited' = awaited
  BY DEF handlerVars
<1>7. \A m \in DOMAIN handler : progress[m] = "done" <=> \E i \in 1..k : order[i] = m
  BY DEF EffectOrder
<1>8. \A i, j \in 1..(k + 1) : longer[i] = longer[j] => i = j
  <2>1. \A i \in 1..k : order[i] # n
    BY <1>7
  <2>2. \A i \in 1..(k + 1) : i \in 1..k \/ i = k + 1
    OBVIOUS
  <2>3. \A i, j \in 1..k : order[i] = order[j] => i = j
    BY DEF EffectOrder
  <2> QED
    BY <1>4, <2>1, <2>2, <2>3
<1>9. \A m \in DOMAIN handler :
         progress'[m] = "done" <=> \E i \in 1..(k + 1) : longer[i] = m
  <2>1. \A m \in DOMAIN handler : progress'[m] = IF m = n THEN "done" ELSE progress[m]
    BY DEF RowTypeOK
  <2>2. \A i \in 1..(k + 1) : i \in 1..k \/ i = k + 1
    OBVIOUS
  <2>3. k + 1 \in 1..(k + 1) /\ \A i \in 1..k : i \in 1..(k + 1)
    OBVIOUS
  <2> QED
    BY <1>4, <1>7, <2>1, <2>2, <2>3
<1>10. ASSUME awaited PROVE \A i \in 1..(k + 1) : longer[i] = i
  <2>1. \A i \in 1..k : order[i] = i
    BY <1>10 DEF EffectOrder
  <2>2. \A m \in 1..N : progress[m] = "done" <=> m \in 1..k
    BY <1>1, <1>7, <2>1
  <2>3. n \in 1..N /\ n \notin 1..k
    BY <1>1, <2>2
  <2>4. \A m \in 1..(n - 1) : progress[m] = "done"
    BY <1>10 DEF Turn
  <2>5. n = k + 1
    <3>1. CASE k + 1 < n
      <4>1. k + 1 \in 1..(n - 1) /\ k + 1 \in 1..N
        BY <3>1, <2>3, <1>2
      <4>2. k + 1 \in 1..k
        BY <4>1, <2>2, <2>4
      <4> QED
        BY <4>2
    <3> QED
      BY <3>1, <2>3, <1>2
  <2> QED
    BY <1>4, <2>1, <2>5
<1>11. at > 0 => handler[longer[at]].kind # "update"
  <2>1. CASE handler[n].kind = "update"
    <3>1. at = l
      BY <2>1 DEF PlaceAfter
    <3>2. l > 0 => longer[l] = order[l]
      BY <1>4
    <3> QED
      BY <3>1, <3>2 DEF EffectOrder
  <2>2. CASE handler[n].kind # "update"
    BY <2>2, <1>4 DEF PlaceAfter
  <2> QED
    BY <2>1, <2>2
<1>12. ASSUME NEW i \in (at + 1)..(k + 1)
       PROVE  handler[longer[i]].kind = "update"
  <2>1. CASE handler[n].kind = "update"
    <3>1. at = l
      BY <2>1 DEF PlaceAfter
    <3>2. i = k + 1 \/ (i \in (l + 1)..k /\ i \in 1..k)
      BY <3>1
    <3>3. \A j \in (l + 1)..k : handler[order[j]].kind = "update"
      BY DEF EffectOrder
    <3> QED
      BY <2>1, <3>2, <3>3, <1>4
  <2>2. CASE handler[n].kind # "update"
    BY <2>2 DEF PlaceAfter
  <2> QED
    BY <2>1, <2>2
<1>13. EffectOrder(longer, k + 1, at)'
  <2>1. \A m \in DOMAIN handler' :
           progress'[m] = "done" <=> \E i \in 1..(k + 1) : longer[i] = m
    BY <1>6, <1>9
  <2>2. \A i \in (at + 1)..(k + 1) : handler'[longer[i]].kind = "update"
    BY <1>6, <1>12
  <2>3. longer \in [1..(k + 1) -> DOMAIN handler']
    BY <1>3, <1>6
  <2> QED
    BY <1>6, <1>8, <1>10, <1>11, <2>1, <2>2, <2>3 DEF EffectOrder
<1> QED
  BY <1>3, <1>5, <1>13

\* A set or a remove that is done makes the row what it says, whatever was
\* there.
LEMMA MadeByOverwriting ==
    ASSUME RowTypeOK,
           NEW k \in Nat, NEW order \in [1..k -> DOMAIN handler],
           NEW n \in DOMAIN handler, handler[n].kind # "update",
           row' = IF handler[n].kind = "set" THEN handler[n].values ELSE Absent,
           UNCHANGED handlerVars,
           NEW longer, longer = Longer(order, k, n)
    PROVE  Made(longer, k + 1, k + 1)'
<1>1. PICK N \in 1..MaxLength :
         /\ DOMAIN handler = 1..N
         /\ handler[n].values = [f \in DOMAIN handler[n].values |-> n]
  BY HandlerShape DEF RowTypeOK
<1>2. handler' = handler /\ before' = before
  BY DEF handlerVars
<1>3. longer[k + 1] = n
  BY DEF Longer
<1>4. k + 1 # 0 /\ (k + 1 + 1)..(k + 1) = {}
  OBVIOUS
<1>5. Base(longer, k + 1)' = row'
  BY <1>2, <1>3, <1>4 DEF Base
<1> QED
  BY <1>4, <1>5 DEF Made

\* An update that is done changes the fields it names of a row that is there.
LEMMA MadeByUpdating ==
    ASSUME RowTypeOK,
           NEW k \in Nat, NEW order \in [1..k -> DOMAIN handler],
           NEW l \in 0..k, EffectOrder(order, k, l), Made(order, k, l),
           NEW n \in DOMAIN handler, progress[n] # "done",
           handler[n].kind = "update",
           row' = IF row = Absent THEN Absent
                  ELSE Merged(row, handler[n].values),
           UNCHANGED handlerVars,
           NEW longer, longer = Longer(order, k, n)
    PROVE  Made(longer, k + 1, l)'
<1>1. PICK N \in 1..MaxLength :
         /\ DOMAIN handler = 1..N
         /\ handler[n].values = [f \in DOMAIN handler[n].values |-> n]
         /\ DOMAIN handler[n].values # {}
  BY HandlerShape DEF RowTypeOK
<1>2. handler' = handler /\ before' = before
  BY DEF handlerVars
<1>3. /\ \A i \in 1..k : longer[i] = order[i]
      /\ longer[k + 1] = n
  BY DEF Longer
<1>4. \A i \in 1..l : longer[i] = order[i]
  BY <1>3
<1>5. PICK base : base = Base(order, l)
  OBVIOUS
<1>6. Base(longer, l)' = base
  <2>1. l = 0 \/ longer[l] = order[l]
    BY <1>4
  <2> QED
    BY <1>2, <1>5, <2>1 DEF Base
<1>7. PICK later : later = Later(order, l)
  OBVIOUS
<1>8. Later(longer, l)' = later
  BY <1>2, <1>4, <1>7 DEF Later
<1>9. n \in later
  <2>1. \A i \in 1..l : i \in 1..k
    OBVIOUS
  <2>2. \A i \in 1..k : order[i] # n
    BY DEF EffectOrder
  <2> QED
    BY <1>7, <2>1, <2>2 DEF Later
<1>10. CASE base = Absent
  BY <1>5, <1>6, <1>10 DEF Made
<1>11. CASE base # Absent
  <2>1. /\ row # Absent
        /\ DOMAIN base \subseteq DOMAIN row
        /\ \A f \in DOMAIN row \ DOMAIN base :
             \E m \in later : f \in HandlerFields(m)
        /\ \A f \in DOMAIN base :
             (\A m \in later : f \notin HandlerFields(m)) => row[f] = base[f]
        /\ \A i \in (l + 1)..k : \A f \in HandlerFields(order[i]) :
             (\A j \in (i + 1)..k : f \notin HandlerFields(order[j])) =>
               f \in DOMAIN row /\ row[f] = order[i]
    BY <1>5, <1>7, <1>11 DEF Made
  <2>2. /\ DOMAIN row' = DOMAIN row \cup HandlerFields(n)
        /\ \A f \in HandlerFields(n) : row'[f] = n
        /\ \A f \in DOMAIN row \ HandlerFields(n) : row'[f] = row[f]
    BY <1>1, <2>1 DEF Merged, HandlerFields
  <2>3. row' # Absent
    <3>1. PICK f \in HandlerFields(n) : TRUE
      BY <1>1 DEF HandlerFields
    <3>2. f \in DOMAIN row' /\ row'[f] = n
      BY <2>2
    <3>3. n # 0
      BY <1>1
    <3> QED
      BY <3>2, <3>3 DEF Absent
  <2>4. DOMAIN base \subseteq DOMAIN row'
    BY <2>1, <2>2
  <2>5. \A f \in DOMAIN row' \ DOMAIN base :
           \E m \in later : f \in HandlerFields(m)
    BY <1>9, <2>1, <2>2
  <2>6. \A f \in DOMAIN base :
           (\A m \in later : f \notin HandlerFields(m)) => row'[f] = base[f]
    BY <1>9, <2>1, <2>2
  <2>7. ASSUME NEW i \in (l + 1)..(k + 1), NEW f \in HandlerFields(longer[i]),
               \A j \in (i + 1)..(k + 1) : f \notin HandlerFields(longer[j])
        PROVE  f \in DOMAIN row' /\ row'[f] = longer[i]
    <3>1. CASE i = k + 1
      BY <2>2, <2>7, <3>1, <1>3
    <3>2. CASE i # k + 1
      <4>1. i \in (l + 1)..k /\ i \in 1..k /\ k + 1 \in (i + 1)..(k + 1)
        BY <3>2
      <4>2. f \notin HandlerFields(n) /\ f \in HandlerFields(order[i])
        BY <2>7, <4>1, <1>3
      <4>3. \A j \in (i + 1)..k : j \in 1..k /\ j \in (i + 1)..(k + 1)
        BY <4>1
      <4>4. \A j \in (i + 1)..k : f \notin HandlerFields(order[j])
        BY <2>7, <4>3, <1>3
      <4>5. f \in DOMAIN row /\ row[f] = order[i]
        BY <2>1, <4>1, <4>2, <4>4
      <4> QED
        BY <2>2, <4>1, <4>2, <4>5, <1>3
    <3> QED
      BY <3>1, <3>2
  <2> QED
    <3>1. \A f \in DOMAIN row' \ DOMAIN Base(longer, l)' :
             \E m \in Later(longer, l)' : f \in HandlerFields(m)'
      BY <1>2, <1>6, <1>8, <2>5 DEF HandlerFields
    <3>2. \A f \in DOMAIN Base(longer, l)' :
             (\A m \in Later(longer, l)' : f \notin HandlerFields(m)') =>
               row'[f] = Base(longer, l)'[f]
      BY <1>2, <1>6, <1>8, <2>6 DEF HandlerFields
    <3>3. \A i \in (l + 1)..(k + 1) : \A f \in HandlerFields(longer[i])' :
             (\A j \in (i + 1)..(k + 1) : f \notin HandlerFields(longer[j])') =>
               f \in DOMAIN row' /\ row'[f] = longer[i]
      BY <1>2, <2>7 DEF HandlerFields
    <3>4. DOMAIN Base(longer, l)' \subseteq DOMAIN row'
      BY <1>6, <2>4
    <3>5. Base(longer, l)' # Absent
      BY <1>6, <1>11
    <3> QED
      BY <2>3, <3>1, <3>2, <3>3, <3>4, <3>5 DEF Made
<1> QED
  BY <1>10, <1>11
-----------------------------------------------------------------------------
(* The steps of the handler. *)

\* The types hold at first.
LEMMA RowTypeInit == RowInit => RowTypeOK
<1> SUFFICES ASSUME RowInit PROVE RowTypeOK
  OBVIOUS
<1>1. /\ adapter \in Adapters
      /\ awaited \in BOOLEAN
      /\ handler \in Handlers
      /\ before \in Entries(0) \cup {Absent}
      /\ saved \in BOOLEAN
  BY DEF RowInit
<1>2. progress \in [DOMAIN handler -> {"todo", "read", "done"}]
  BY DEF RowInit
<1>3. crashes \in 0..MaxCrashes
  BY StoreTableAssumption DEF RowInit
<1> QED
  BY <1>1, <1>2, <1>3 DEF RowTypeOK

\* What every request does but to the row and to what it has read.
Requested(n, to) ==
    /\ n \in DOMAIN handler
    /\ progress[n] # "done"
    /\ to \in {"read", "done"}
    /\ Turn(n)
    /\ progress' = [progress EXCEPT ![n] = to]
    /\ UNCHANGED <<handlerVars, saved, crashes>>

\* Every request of a handler is one of these, which makes the row in the way of
\* the operation, if the store is one of those that RerunConverges and SomeOrder
\* speak of.
LEMMA RequestsOfAHandler ==
    ASSUME Converging, NEW n \in 1..MaxLength, Operate(n)
    PROVE  /\ \E to \in {"read", "done"} : Requested(n, to)
           /\ EntryShape'
           /\ Atomic =>
                \/ /\ Requested(n, "read")
                   /\ awaited
                   /\ handler[n].kind = "update"
                   /\ row # Absent
                   /\ row' = row
                   /\ entry' = [entry EXCEPT ![n] = row]
                \/ /\ Requested(n, "done")
                   /\ handler[n].kind = "update"
                   /\ row' = IF row = Absent THEN Absent
                             ELSE Merged(row, handler[n].values)
                   /\ entry' = entry \/ entry' = [entry EXCEPT ![n] = row]
                \/ /\ Requested(n, "done")
                   /\ handler[n].kind # "update"
                   /\ row' = IF handler[n].kind = "set" THEN handler[n].values
                             ELSE Absent
                   /\ entry' = entry
<1>1. n \in DOMAIN handler
  BY DEF Operate, Set, RemoveRow, ReadEntry, WriteEntry, UpdateOne,
         UpdateNothing, Request
<1>2. PICK N \in 1..MaxLength :
         /\ DOMAIN handler = 1..N
         /\ DOMAIN handler[n].values \subseteq Fields
         /\ handler[n].values = [f \in DOMAIN handler[n].values |-> n]
  BY <1>1, HandlerShape DEF Converging, RowTypeOK
<1>3. handlerVars' = handlerVars /\ handler' = handler
  BY DEF Operate, Set, RemoveRow, ReadEntry, WriteEntry, UpdateOne,
         UpdateNothing, Request, handlerVars
<1>4. ASSUME entry' = entry \/ entry' = [entry EXCEPT ![n] = row]
      PROVE  EntryShape'
  <2>1. CASE entry' = entry
    BY <1>3, <2>1 DEF Converging, EntryShape
  <2>2. CASE entry' = [entry EXCEPT ![n] = row]
    <3>1. entry' = [[m \in DOMAIN handler |-> entry[m]] EXCEPT ![n] = row]
      BY <2>2 DEF Converging, EntryShape
    <3> QED
      BY <1>3, <3>1 DEF EntryShape
  <2> QED
    BY <1>4, <2>1, <2>2
<1>5. CASE Set(n)
  <2>1. Requested(n, "done") /\ handler[n].kind = "set" /\ entry' = entry
    BY <1>5 DEF Set, Request, Requested
  <2>2. ASSUME Atomic PROVE row' = handler[n].values
    <3>1. row' = Inserted(handler[n].values)
      BY <1>5 DEF Set
    <3>2. CASE adapter = "redis" \/ row = Absent
      BY <3>1, <3>2 DEF Inserted
    <3>3. CASE ~(adapter = "redis" \/ row = Absent)
      <4>1. DOMAIN handler[n].values = Fields
        BY <2>1, <2>2, <3>3, <1>1 DEF Atomic, AsInTests
      <4>2. DOMAIN row \subseteq Fields
        BY <2>2, <3>3 DEF Converging, RowShape
      <4>3. row' = Merged(row, handler[n].values)
        BY <3>1, <3>3 DEF Inserted
      <4>4. DOMAIN row \cup DOMAIN handler[n].values = DOMAIN handler[n].values
        BY <4>1, <4>2
      <4>5. row' = [f \in DOMAIN handler[n].values |-> handler[n].values[f]]
        BY <4>3, <4>4 DEF Merged
      <4> QED
        BY <4>5, <1>2
    <3> QED
      BY <3>2, <3>3
  <2> QED
    BY <2>1, <2>2, <1>4
<1>6. CASE RemoveRow(n)
  <2>1. Requested(n, "done") /\ handler[n].kind = "remove" /\ entry' = entry
    BY <1>6 DEF RemoveRow, Request, Requested
  <2> QED
    BY <1>6, <2>1, <1>4 DEF RemoveRow
<1>7. CASE ReadEntry(n)
  <2>1. /\ handler[n].kind = "update"
        /\ row' = row
        /\ entry' = [entry EXCEPT ![n] = row]
        /\ adapter = "redis"
    BY <1>7 DEF ReadEntry, Request
  <2>2. Atomic => awaited
    BY <2>1 DEF Atomic
  <2>3. CASE row = Absent
    <3>1. Requested(n, "done")
      BY <1>7, <2>3 DEF ReadEntry, Request, Requested
    <3> QED
      BY <2>1, <2>3, <3>1, <1>4
  <2>4. CASE row # Absent
    <3>1. Requested(n, "read")
      BY <1>7, <2>4 DEF ReadEntry, Request, Requested
    <3> QED
      BY <2>1, <2>2, <2>4, <3>1, <1>4
  <2> QED
    BY <2>3, <2>4
<1>8. CASE WriteEntry(n)
  <2>1. /\ Requested(n, "done")
        /\ handler[n].kind = "update"
        /\ progress[n] = "read"
        /\ entry' = entry
    BY <1>8 DEF WriteEntry, Request, Requested
  <2>2. ASSUME Atomic
        PROVE  row # Absent /\ row' = Merged(row, handler[n].values)
    <3>1. row # Absent /\ entry[n] = row
      BY <2>1, <2>2, <1>1 DEF Converging, ReadIsCurrent
    <3> QED
      BY <1>8, <3>1 DEF WriteEntry
  <2> QED
    BY <2>1, <2>2, <1>4
<1>9. CASE UpdateOne(n)
  <2>1. /\ Requested(n, "done")
        /\ handler[n].kind = "update"
        /\ entry' = entry
    BY <1>9 DEF UpdateOne, Request, Requested
  <2> QED
    BY <1>9, <2>1, <1>4 DEF UpdateOne, Updated
<1>10. CASE UpdateNothing(n)
  <2>1. /\ Requested(n, "done")
        /\ handler[n].kind = "update"
        /\ adapter = "postgres"
        /\ entry' = entry
    BY <1>10 DEF UpdateNothing, Request, Requested
  <2>2. ~Atomic
    BY <2>1, <1>1 DEF Atomic, AsInTests
  <2> QED
    BY <2>1, <2>2, <1>4
<1> QED
  BY <1>5, <1>6, <1>7, <1>8, <1>9, <1>10 DEF Operate

\* The types hold after every step.
LEMMA RowTypeStep == Converging /\ [RowNext]_rowVars => RowTypeOK'
<1> SUFFICES ASSUME Converging, [RowNext]_rowVars PROVE RowTypeOK'
  OBVIOUS
<1>1. RowTypeOK
  BY DEF Converging
<1> USE StoreTableAssumption DEF RowTypeOK
<1>2. ASSUME NEW n \in 1..MaxLength, Operate(n) PROVE RowTypeOK'
  <2>1. PICK to \in {"read", "done"} : Requested(n, to)
    BY <1>2, RequestsOfAHandler
  <2>2. progress' \in [DOMAIN handler -> {"todo", "read", "done"}]
    BY <1>1, <2>1 DEF Requested
  <2> QED
    BY <1>1, <2>1, <2>2 DEF Requested, handlerVars
<1>3. CASE MarkSaved
  BY <1>1, <1>3 DEF MarkSaved, handlerVars
<1>4. CASE Crash
  <2>1. progress' \in [DOMAIN handler -> {"todo", "read", "done"}]
    BY <1>4 DEF Crash
  <2>2. crashes' \in 0..MaxCrashes
    BY <1>1, <1>4 DEF Crash
  <2> QED
    BY <1>1, <1>4, <2>1, <2>2 DEF Crash, handlerVars
<1>5. CASE UNCHANGED rowVars
  BY <1>1, <1>5 DEF rowVars, handlerVars
<1> QED
  BY <1>2, <1>3, <1>4, <1>5 DEF RowNext

\* The entries stay one for each operation.
LEMMA EntryShapeStep == Converging /\ [RowNext]_rowVars => EntryShape'
<1> SUFFICES ASSUME Converging, [RowNext]_rowVars PROVE EntryShape'
  OBVIOUS
<1>1. EntryShape
  BY DEF Converging
<1>2. ASSUME NEW n \in 1..MaxLength, Operate(n) PROVE EntryShape'
  BY <1>2, RequestsOfAHandler
<1>3. CASE MarkSaved
  BY <1>1, <1>3 DEF MarkSaved, EntryShape, handlerVars
<1>4. CASE Crash
  BY <1>4 DEF Crash, EntryShape, handlerVars
<1>5. CASE UNCHANGED rowVars
  BY <1>1, <1>5 DEF rowVars, handlerVars, EntryShape
<1> QED
  BY <1>2, <1>3, <1>4, <1>5 DEF RowNext

\* No request follows the save, and the save follows them all.
LEMMA SavedIsDoneStep == Converging /\ [RowNext]_rowVars => SavedIsDone'
<1> SUFFICES ASSUME Converging, [RowNext]_rowVars PROVE SavedIsDone'
  OBVIOUS
<1>1. SavedIsDone
  BY DEF Converging
<1>2. ASSUME NEW n \in 1..MaxLength, Operate(n) PROVE SavedIsDone'
  <2>1. PICK to \in {"read", "done"} : Requested(n, to)
    BY <1>2, RequestsOfAHandler
  <2> QED
    BY <1>1, <2>1 DEF Requested, SavedIsDone
<1>3. CASE MarkSaved
  BY <1>3 DEF MarkSaved, SavedIsDone, handlerVars
<1>4. CASE Crash
  BY <1>4 DEF Crash, SavedIsDone
<1>5. CASE UNCHANGED rowVars
  BY <1>1, <1>5 DEF rowVars, handlerVars, SavedIsDone
<1> QED
  BY <1>2, <1>3, <1>4, <1>5 DEF RowNext

\* Operations that are awaited stay in turn.
LEMMA InTurnStep == Converging /\ [RowNext]_rowVars => InTurn'
<1> SUFFICES ASSUME Converging, [RowNext]_rowVars PROVE InTurn'
  OBVIOUS
<1>1. InTurn /\ RowTypeOK
  BY DEF Converging
<1>2. ASSUME NEW n \in 1..MaxLength, Operate(n) PROVE InTurn'
  <2>1. PICK to \in {"read", "done"} : Requested(n, to)
    BY <1>2, RequestsOfAHandler
  <2>2. PICK N \in 1..MaxLength : DOMAIN handler = 1..N
    BY <1>1, HandlerShape DEF RowTypeOK
  <2>3. handler' = handler /\ awaited' = awaited
    BY <2>1 DEF Requested, handlerVars
  <2> SUFFICES ASSUME awaited, NEW i \in DOMAIN handler, NEW j \in DOMAIN handler,
                      j < i, progress'[i] # "todo"
               PROVE  progress'[j] = "done"
    BY <2>3 DEF InTurn
  <2>4. \A m \in DOMAIN handler : progress'[m] = IF m = n THEN to ELSE progress[m]
    BY <1>1, <2>1 DEF Requested, RowTypeOK
  <2>5. progress[j] = "done"
    <3>1. CASE i = n
      <4>1. \A m \in 1..(n - 1) : progress[m] = "done"
        BY <2>1 DEF Requested, Turn
      <4>2. j \in 1..(n - 1)
        BY <2>2, <3>1
      <4> QED
        BY <4>1, <4>2
    <3>2. CASE i # n
      BY <1>1, <2>4, <3>2 DEF InTurn
    <3> QED
      BY <3>1, <3>2
  <2>6. j # n
    BY <2>1, <2>5 DEF Requested
  <2> QED
    BY <2>4, <2>5, <2>6
<1>3. CASE MarkSaved
  BY <1>1, <1>3 DEF MarkSaved, InTurn, handlerVars
<1>4. CASE Crash
  BY <1>4 DEF Crash, InTurn, handlerVars
<1>5. CASE UNCHANGED rowVars
  BY <1>1, <1>5 DEF rowVars, handlerVars, InTurn
<1> QED
  BY <1>2, <1>3, <1>4, <1>5 DEF RowNext

\* What is assumed of the store and the handler does not change.
LEMMA AtomicIsFixed == [RowNext]_rowVars => (Atomic' <=> Atomic)
<1> SUFFICES ASSUME [RowNext]_rowVars PROVE Atomic' <=> Atomic
  OBVIOUS
<1>1. handlerVars' = handlerVars
  BY DEF RowNext, Operate, Set, RemoveRow, ReadEntry, WriteEntry, UpdateOne,
         UpdateNothing, Request, MarkSaved, Crash, rowVars, handlerVars
<1> QED
  BY <1>1 DEF Atomic, AsInTests, handlerVars

\* The row stays one of the table.
LEMMA RowShapeStep ==
    Converging /\ [RowNext]_rowVars /\ Atomic => RowShape'
<1> SUFFICES ASSUME Converging, [RowNext]_rowVars, Atomic PROVE RowShape'
  OBVIOUS
<1>1. RowShape
  BY DEF Converging
<1>2. ASSUME NEW n \in 1..MaxLength, Operate(n) PROVE RowShape'
  <2>1. /\ n \in DOMAIN handler
        /\ \/ row' = row
           \/ row' = IF row = Absent THEN Absent ELSE Merged(row, handler[n].values)
           \/ row' = IF handler[n].kind = "set" THEN handler[n].values ELSE Absent
    BY <1>2, RequestsOfAHandler DEF Requested
  <2>2. /\ DOMAIN handler[n].values \subseteq Fields
        /\ handler[n].values = [f \in DOMAIN handler[n].values |-> n]
    BY <2>1, HandlerShape DEF Converging, RowTypeOK
  <2>3. ASSUME row # Absent
        PROVE  LET merged == Merged(row, handler[n].values)
               IN  /\ DOMAIN merged \subseteq Fields
                   /\ merged = [f \in DOMAIN merged |-> merged[f]]
    BY <1>1, <2>2, <2>3 DEF Merged, RowShape
  <2>4. CASE row' = row
    BY <1>1, <2>4 DEF RowShape
  <2>5. CASE row' = IF row = Absent THEN Absent
                    ELSE Merged(row, handler[n].values)
    BY <2>3, <2>5 DEF RowShape
  <2>6. CASE row' = IF handler[n].kind = "set" THEN handler[n].values ELSE Absent
    BY <2>2, <2>6 DEF RowShape
  <2> QED
    BY <2>1, <2>4, <2>5, <2>6
<1>3. CASE row' = row
  BY <1>1, <1>3 DEF RowShape
<1>4. (MarkSaved \/ Crash \/ UNCHANGED rowVars) => row' = row
  BY DEF MarkSaved, Crash, rowVars
<1> QED
  BY <1>2, <1>3, <1>4 DEF RowNext

\* What an update of Redis has read stays the row until it is written: no other
\* operation has its turn.
LEMMA ReadIsCurrentStep ==
    Converging /\ [RowNext]_rowVars /\ Atomic => ReadIsCurrent'
<1> SUFFICES ASSUME Converging, [RowNext]_rowVars, Atomic PROVE ReadIsCurrent'
  OBVIOUS
<1>1. ReadIsCurrent /\ InTurn /\ RowTypeOK /\ EntryShape
  BY DEF Converging
<1>2. ASSUME NEW n \in 1..MaxLength, Operate(n) PROVE ReadIsCurrent'
  <2>1. PICK to \in {"read", "done"} : Requested(n, to)
    BY <1>2, RequestsOfAHandler
  <2>2. PICK N \in 1..MaxLength : DOMAIN handler = 1..N
    BY <1>1, HandlerShape DEF RowTypeOK
  <2>3. handler' = handler /\ awaited' = awaited /\ n \in DOMAIN handler
    BY <2>1 DEF Requested, handlerVars
  <2> SUFFICES ASSUME NEW m \in DOMAIN handler, progress'[m] = "read"
               PROVE  /\ awaited
                      /\ handler[m].kind = "update"
                      /\ row' # Absent
                      /\ entry'[m] = row'
    BY <2>3 DEF ReadIsCurrent
  <2>4. CASE m = n
    <3>1. ~Requested(n, "done")
      BY <1>1, <2>4 DEF Requested, RowTypeOK
    <3>2. /\ awaited
          /\ handler[n].kind = "update"
          /\ row # Absent
          /\ row' = row
          /\ entry' = [entry EXCEPT ![n] = row]
      BY <1>2, <3>1, RequestsOfAHandler
    <3>3. entry' = [[i \in DOMAIN handler |-> entry[i]] EXCEPT ![n] = row]
      BY <1>1, <3>2 DEF EntryShape
    <3> QED
      BY <2>3, <2>4, <3>2, <3>3
  <2>5. CASE m # n
    <3>1. progress[m] = "read"
      BY <1>1, <2>1, <2>5 DEF Requested, RowTypeOK
    <3>2. awaited
      BY <1>1, <3>1 DEF ReadIsCurrent
    <3>3. CASE m < n
      <4>1. m \in 1..(n - 1)
        BY <2>2, <3>3
      <4>2. \A i \in 1..(n - 1) : progress[i] = "done"
        BY <2>1, <3>2 DEF Requested, Turn
      <4> QED
        BY <3>1, <4>1, <4>2
    <3>4. CASE n < m
      <4>1. progress[n] = "done"
        BY <1>1, <2>3, <3>1, <3>2, <3>4 DEF InTurn
      <4> QED
        BY <2>1, <4>1 DEF Requested
    <3> QED
      BY <2>2, <2>3, <2>5, <3>3, <3>4
  <2> QED
    BY <2>4, <2>5
<1>3. CASE MarkSaved
  BY <1>1, <1>3 DEF MarkSaved, ReadIsCurrent, handlerVars
<1>4. CASE Crash
  BY <1>4 DEF Crash, ReadIsCurrent, handlerVars
<1>5. CASE UNCHANGED rowVars
  BY <1>1, <1>5 DEF rowVars, handlerVars, ReadIsCurrent
<1> QED
  BY <1>2, <1>3, <1>4, <1>5 DEF RowNext

\* As long as the row and the operations that are done stay, so does the order
\* in which they took effect.
LEMMA RowMadeKept ==
    ASSUME RowMade, UNCHANGED <<handlerVars, row>>,
           \A n \in DOMAIN handler : progress'[n] = "done" <=> progress[n] = "done"
    PROVE  RowMade'
<1>1. handler' = handler /\ awaited' = awaited /\ before' = before /\ row' = row
  BY DEF handlerVars
<1>2. PICK k \in Nat : \E order \in [1..k -> DOMAIN handler], l \in 0..k :
           EffectOrder(order, k, l) /\ (OverwrittenLater(l) \/ Made(order, k, l))
  BY DEF RowMade
<1>3. PICK order \in [1..k -> DOMAIN handler], l \in 0..k :
           EffectOrder(order, k, l) /\ (OverwrittenLater(l) \/ Made(order, k, l))
  BY <1>2
<1>4. EffectOrder(order, k, l)'
  BY <1>1, <1>3 DEF EffectOrder
<1>5. OverwrittenLater(l) => OverwrittenLater(l)'
  BY <1>1 DEF OverwrittenLater
<1>6. Made(order, k, l) => Made(order, k, l)'
  BY <1>1 DEF Made, Base, Later, HandlerFields
<1> QED
  BY <1>1, <1>3, <1>4, <1>5, <1>6 DEF RowMade

\* One more operation is done.
LEMMA RowMadeGrows ==
    ASSUME Converging, Atomic, NEW n, Requested(n, "done"),
           \/ /\ handler[n].kind = "update"
              /\ row' = IF row = Absent THEN Absent
                        ELSE Merged(row, handler[n].values)
           \/ /\ handler[n].kind # "update"
              /\ row' = IF handler[n].kind = "set" THEN handler[n].values
                        ELSE Absent
    PROVE  RowMade'
<1>1. RowTypeOK /\ InTurn /\ RowMade
  BY DEF Converging
<1>2. /\ n \in DOMAIN handler
      /\ progress[n] # "done"
      /\ Turn(n)
      /\ progress' = [progress EXCEPT ![n] = "done"]
      /\ UNCHANGED handlerVars
      /\ handler' = handler
  BY DEF Requested, handlerVars
<1>3. PICK k \in Nat : \E order \in [1..k -> DOMAIN handler], l \in 0..k :
           EffectOrder(order, k, l) /\ (OverwrittenLater(l) \/ Made(order, k, l))
  BY <1>1 DEF RowMade
<1>4. PICK order \in [1..k -> DOMAIN handler], l \in 0..k :
           EffectOrder(order, k, l) /\ (OverwrittenLater(l) \/ Made(order, k, l))
  BY <1>3
<1>5. PICK longer : longer = Longer(order, k, n)
  OBVIOUS
<1>6. PICK at : at = PlaceAfter(k, l, n)
  OBVIOUS
<1>7. /\ longer \in [1..(k + 1) -> DOMAIN handler']
      /\ at \in 0..(k + 1)
      /\ EffectOrder(longer, k + 1, at)'
  BY <1>1, <1>2, <1>4, <1>5, <1>6, EffectOrderGrows
<1>8. OverwrittenLater(at)' \/ Made(longer, k + 1, at)'
  <2>1. CASE handler[n].kind # "update"
    <3>1. at = k + 1
      BY <1>6, <2>1 DEF PlaceAfter
    <3>2. Made(longer, k + 1, k + 1)'
      BY <1>1, <1>2, <1>5, <2>1, MadeByOverwriting
    <3> QED
      BY <3>1, <3>2
  <2>2. CASE handler[n].kind = "update"
    <3>1. at = l
      BY <1>6, <2>2 DEF PlaceAfter
    <3>2. CASE OverwrittenLater(l)
      BY <1>2, <3>1, <3>2 DEF OverwrittenLater
    <3>3. CASE Made(order, k, l)
      <4>1. Made(longer, k + 1, l)'
        BY <1>1, <1>2, <1>4, <1>5, <2>2, <3>3, MadeByUpdating
      <4> QED
        BY <3>1, <4>1
    <3> QED
      BY <1>4, <3>2, <3>3
  <2> QED
    BY <2>1, <2>2
<1>9. k + 1 \in Nat
  OBVIOUS
<1> QED
  BY <1>7, <1>8, <1>9 DEF RowMade

\* Before an operation is done, whatever an earlier run of the handler has made
\* of the row will be overwritten, or was made by updates alone.
Begun == \/ \E n \in DOMAIN handler : handler[n].kind # "update"
         \/ /\ before = Absent => row = Absent
            /\ before # Absent =>
                 /\ row # Absent
                 /\ DOMAIN before \subseteq DOMAIN row
                 /\ \A f \in DOMAIN row \ DOMAIN before :
                      \E n \in DOMAIN handler : f \in HandlerFields(n)
                 /\ \A f \in DOMAIN before :
                      (\A n \in DOMAIN handler : f \notin HandlerFields(n)) =>
                        row[f] = before[f]

NothingDone == \A n \in DOMAIN handler : progress[n] # "done"

\* That is so in whatever order the operations that were done took effect.
LEMMA RowMadeIsBegun == RowMade => Begun
<1> SUFFICES ASSUME RowMade, \A n \in DOMAIN handler : handler[n].kind = "update"
             PROVE  Begun
  BY DEF Begun
<1>1. PICK k \in Nat : \E order \in [1..k -> DOMAIN handler], l \in 0..k :
           EffectOrder(order, k, l) /\ (OverwrittenLater(l) \/ Made(order, k, l))
  BY DEF RowMade
<1>2. PICK order \in [1..k -> DOMAIN handler], l \in 0..k :
           EffectOrder(order, k, l) /\ (OverwrittenLater(l) \/ Made(order, k, l))
  BY <1>1
<1>3. l = 0
  <2>1. l > 0 => handler[order[l]].kind # "update" /\ order[l] \in DOMAIN handler
    BY <1>2 DEF EffectOrder
  <2> QED
    BY <2>1
<1>4. Made(order, k, 0)
  BY <1>2, <1>3 DEF OverwrittenLater
<1>5. Base(order, 0) = before /\ Later(order, 0) = DOMAIN handler
  <2>1. 1..0 = {}
    OBVIOUS
  <2> QED
    BY <2>1 DEF Base, Later
<1> QED
  BY <1>4, <1>5 DEF Made, Begun

\* The order of no operation is the empty one.
LEMMA RowMadeByNone == NothingDone /\ Begun => RowMade
<1> SUFFICES ASSUME NothingDone, Begun PROVE RowMade
  OBVIOUS
<1>1. PICK nothing : nothing = [i \in 1..0 |-> 1]
  OBVIOUS
<1>2. 1..0 = {} /\ (0 + 1)..0 = {} /\ 0 \in Nat /\ 0 \in 0..0
  OBVIOUS
<1>3. nothing \in [1..0 -> DOMAIN handler]
  BY <1>1, <1>2
<1>4. EffectOrder(nothing, 0, 0)
  BY <1>2, <1>3 DEF EffectOrder, NothingDone
<1>5. Base(nothing, 0) = before
  BY DEF Base
<1>6. Later(nothing, 0) = DOMAIN handler
  BY <1>2 DEF Later
<1>7. OverwrittenLater(0) \/ Made(nothing, 0, 0)
  BY <1>2, <1>5, <1>6 DEF OverwrittenLater, Made, Begun
<1> QED
  BY <1>2, <1>3, <1>4, <1>7 DEF RowMade

\* The same of the state after a step.
LEMMA RowMadeByNoneNext == (NothingDone /\ Begun => RowMade)'
BY RowMadeByNone, PTL

\* The row stays what the operations that are done have made it.
LEMMA RowMadeStep ==
    Converging /\ [RowNext]_rowVars /\ Atomic => RowMade'
<1> SUFFICES ASSUME Converging, [RowNext]_rowVars, Atomic PROVE RowMade'
  OBVIOUS
<1>1. RowTypeOK /\ RowMade
  BY DEF Converging
<1>2. ASSUME NEW n \in 1..MaxLength, Operate(n) PROVE RowMade'
  <2>1. CASE Requested(n, "read") /\ row' = row
    <3>1. UNCHANGED <<handlerVars, row>>
      BY <2>1 DEF Requested
    <3>2. \A m \in DOMAIN handler : progress'[m] = "done" <=> progress[m] = "done"
      BY <1>1, <2>1 DEF Requested, RowTypeOK
    <3> QED
      BY <1>1, <3>1, <3>2, RowMadeKept
  <2>2. CASE /\ Requested(n, "done")
             /\ \/ /\ handler[n].kind = "update"
                   /\ row' = IF row = Absent THEN Absent
                             ELSE Merged(row, handler[n].values)
                \/ /\ handler[n].kind # "update"
                   /\ row' = IF handler[n].kind = "set" THEN handler[n].values
                             ELSE Absent
    BY <2>2, RowMadeGrows
  <2> QED
    BY <1>2, <2>1, <2>2, RequestsOfAHandler
<1>3. CASE MarkSaved
  BY <1>1, <1>3, RowMadeKept DEF MarkSaved
<1>4. CASE Crash
  <2>1. /\ handler' = handler /\ before' = before /\ row' = row
        /\ progress' = [n \in DOMAIN handler |-> "todo"]
    BY <1>4 DEF Crash, handlerVars
  <2>2. NothingDone'
    BY <2>1 DEF NothingDone
  <2>3. Begun
    BY <1>1, RowMadeIsBegun
  <2>4. Begun'
    BY <2>1, <2>3 DEF Begun, HandlerFields
  <2> QED
    BY <2>2, <2>4, RowMadeByNoneNext
<1>5. CASE UNCHANGED rowVars
  BY <1>1, <1>5, RowMadeKept DEF rowVars
<1> QED
  BY <1>2, <1>3, <1>4, <1>5 DEF RowNext

\* Initially the row is that of before the event.
LEMMA ConvergingInit == RowInit => Converging
<1> SUFFICES ASSUME RowInit PROVE Converging
  OBVIOUS
<1>1. RowTypeOK
  BY RowTypeInit
<1>2. EntryShape /\ SavedIsDone /\ InTurn /\ ReadIsCurrent
  BY DEF RowInit, EntryShape, SavedIsDone, InTurn, ReadIsCurrent
<1>3. RowShape
  <2>1. row \in Entries(0) \cup {Absent}
    BY DEF RowInit
  <2>2. CASE row \in Entries(0)
    <3>1. PICK fs \in SUBSET Fields : row \in [fs -> {0}]
      BY <2>2 DEF Entries
    <3> QED
      BY <3>1 DEF RowShape
  <2> QED
    BY <2>1, <2>2 DEF RowShape
<1>4. RowMade
  <2>1. NothingDone
    BY DEF RowInit, NothingDone
  <2>2. Begun
    BY DEF RowInit, Begun
  <2> QED
    BY <2>1, <2>2, RowMadeByNone
<1> QED
  BY <1>1, <1>2, <1>3, <1>4 DEF Converging

\* Every step keeps the invariant.
LEMMA ConvergingStep == Converging /\ [RowNext]_rowVars => Converging'
<1> SUFFICES ASSUME Converging, [RowNext]_rowVars PROVE Converging'
  OBVIOUS
<1>1. RowTypeOK' /\ EntryShape' /\ SavedIsDone' /\ InTurn'
  BY RowTypeStep, EntryShapeStep, SavedIsDoneStep, InTurnStep
<1>2. Atomic' => RowShape' /\ ReadIsCurrent' /\ RowMade'
  BY AtomicIsFixed, RowShapeStep, ReadIsCurrentStep, RowMadeStep
<1> QED
  BY <1>1, <1>2 DEF Converging

\* It holds in every state.
LEMMA ConvergingInvariant == RowSpec => []Converging
<1>1. RowInit => Converging
  BY ConvergingInit
<1>2. Converging /\ [RowNext]_rowVars => Converging'
  BY ConvergingStep
<1> QED
  BY <1>1, <1>2, PTL DEF RowSpec
-----------------------------------------------------------------------------
(* What the operations make of the row in the end. *)

\* The largest number of a set of places is what LatestOf returns, 0 if there is
\* none.
LEMMA LatestOfPlaces ==
    ASSUME NEW N \in Nat, NEW places \in SUBSET (1..N)
    PROVE  /\ places = {} => LatestOf(places) = 0
           /\ places # {} => /\ LatestOf(places) \in places
                             /\ \A n \in places : n <= LatestOf(places)
           /\ \A m \in places : (\A n \in places : n <= m) => LatestOf(places) = m
<1>1. CASE places = {}
  BY <1>1 DEF LatestOf
<1>2. CASE places # {}
  <2>1. \E m \in places : \A n \in places : n <= m
    <3>1. places \in SUBSET (0..N)
      OBVIOUS
    <3> QED
      BY <1>2, <3>1, LargestExists
  <2>2. /\ LatestOf(places) \in places
        /\ \A n \in places : n <= LatestOf(places)
    BY <1>2, <2>1 DEF LatestOf
  <2>3. ASSUME NEW m \in places, \A n \in places : n <= m
        PROVE  LatestOf(places) = m
    <3>1. m <= LatestOf(places) /\ LatestOf(places) <= m
      BY <2>2, <2>3
    <3>2. m \in 1..N /\ LatestOf(places) \in 1..N
      BY <2>2, <2>3
    <3> QED
      BY <3>1, <3>2
  <2> QED
    BY <1>2, <2>2, <2>3
<1> QED
  BY <1>1, <1>2

\* A list that holds every element of a set once is as long as the set is large.
LEMMA ListOfAll ==
    ASSUME NEW T, NEW k \in Nat, NEW order \in [1..k -> T],
           \A i, j \in 1..k : order[i] = order[j] => i = j,
           \A n \in T : \E i \in 1..k : order[i] = n
    PROVE  Cardinality(T) = k /\ order \in SetToSeqs(T)
<1>1. IsFiniteSet(1..k) /\ Cardinality(1..k) = k
  BY FS_Interval
<1>2. order \in Bijection(1..k, T)
  BY DEF Bijection, Injection, Surjection, IsInjective
<1>3. Cardinality(T) = k
  <2>1. ExistsBijection(1..k, T)
    BY <1>2 DEF ExistsBijection
  <2> QED
    BY <1>1, <2>1, FS_Bijection
<1> QED
  BY <1>3 DEF SetToSeqs

\* Once the position is saved, the row is what the operations leave in the order
\* in which they took effect.
LEMMA OutcomeOfSomeOrder ==
    ASSUME Converging, Atomic, saved
    PROVE  \E order \in SetToSeqs(DOMAIN handler) :
              /\ awaited => \A n \in DOMAIN handler : order[n] = n
              /\ row = Outcome([n \in DOMAIN handler |-> handler[order[n]]])
<1>1. RowTypeOK /\ SavedIsDone /\ RowMade /\ RowShape
  BY DEF Converging
<1>2. PICK N \in 1..MaxLength :
         /\ DOMAIN handler = 1..N
         /\ \A n \in 1..N :
              /\ handler[n].values = [f \in DOMAIN handler[n].values |-> n]
              /\ handler[n].kind \in {"set", "update", "remove"}
  BY <1>1, HandlerShape DEF RowTypeOK
<1>3. N \in Nat
  BY <1>2, StoreTableAssumption
<1>4. PICK k \in Nat : \E order \in [1..k -> DOMAIN handler], l \in 0..k :
           EffectOrder(order, k, l) /\ (OverwrittenLater(l) \/ Made(order, k, l))
  BY <1>1 DEF RowMade
<1>5. PICK order \in [1..k -> DOMAIN handler], l \in 0..k :
           EffectOrder(order, k, l) /\ (OverwrittenLater(l) \/ Made(order, k, l))
  BY <1>4
<1>6. \A n \in 1..N : \E i \in 1..k : order[i] = n
  BY <1>1, <1>2, <1>5 DEF EffectOrder, SavedIsDone
<1>7. k = N /\ order \in SetToSeqs(1..N)
  <2>1. \A i, j \in 1..k : order[i] = order[j] => i = j
    BY <1>5 DEF EffectOrder
  <2>2. \A n \in DOMAIN handler : \E i \in 1..k : order[i] = n
    BY <1>2, <1>6
  <2>3. /\ Cardinality(DOMAIN handler) = k
        /\ order \in SetToSeqs(DOMAIN handler)
    BY <2>1, <2>2, ListOfAll
  <2>4. Cardinality(1..N) = N
    BY <1>3, FS_Interval
  <2> QED
    BY <1>2, <2>3, <2>4
<1>8. /\ \A n \in 1..N : order[n] \in 1..N
      /\ l \in 0..N
      /\ l > 0 => l \in 1..N
  BY <1>2, <1>5, <1>7
<1>9. PICK g : g = [n \in 1..N |-> handler[order[n]]]
  OBVIOUS
<1>10. /\ DOMAIN g = 1..N
       /\ \A n \in 1..N : g[n] = handler[order[n]]
  BY <1>9
<1> SUFFICES row = Outcome(g)
  <2>1. awaited => \A n \in DOMAIN handler : order[n] = n
    BY <1>2, <1>5, <1>7 DEF EffectOrder
  <2>2. [n \in DOMAIN handler |-> handler[order[n]]] = g
    BY <1>2, <1>9
  <2>3. order \in SetToSeqs(DOMAIN handler)
    BY <1>2, <1>7
  <2> QED
    BY <2>1, <2>2, <2>3
<1>11. /\ l > 0 => g[l].kind # "update"
       /\ \A i \in (l + 1)..N : g[i].kind = "update"
  <2>1. \A i \in (l + 1)..N : i \in 1..N
    BY <1>8
  <2>2. /\ l > 0 => handler[order[l]].kind # "update"
        /\ \A i \in (l + 1)..N : handler[order[i]].kind = "update"
    BY <1>5, <1>7 DEF EffectOrder
  <2>3. l > 0 => g[l] = handler[order[l]]
    BY <1>8, <1>10
  <2> QED
    BY <1>10, <2>1, <2>2, <2>3
<1>12. \A n \in 1..N : g[n].kind # "update" => n <= l
  <2>1. \A n \in 1..N : n <= l \/ n \in (l + 1)..N
    BY <1>3, <1>8
  <2> QED
    BY <1>11, <2>1
<1>13. Made(order, N, l)
  <2>1. ~OverwrittenLater(l)
    <3> SUFFICES ASSUME l = 0, NEW n \in DOMAIN handler,
                        handler[n].kind # "update"
                 PROVE  FALSE
      BY DEF OverwrittenLater
    <3>1. PICK i \in 1..N : order[i] = n
      BY <1>2, <1>6, <1>7
    <3>2. g[i].kind # "update"
      BY <3>1, <1>10
    <3>3. i <= 0
      BY <3>2, <1>12
    <3> QED
      BY <3>3, <1>3
  <2> QED
    BY <1>5, <1>7, <2>1
<1>14. LatestOf({n \in DOMAIN g : g[n].kind # "update"}) = l
  <2> DEFINE places == {n \in DOMAIN g : g[n].kind # "update"}
  <2>1. places \in SUBSET (1..N)
    BY <1>10
  <2>2. CASE l = 0
    <3>1. places = {}
      <4>1. \A n \in places : n \in 1..N /\ n <= 0
        BY <1>10, <1>12, <2>2
      <4>2. \A n \in 1..N : ~(n <= 0)
        BY <1>3
      <4> QED
        BY <4>1, <4>2
    <3> QED
      BY <1>3, <2>1, <2>2, <3>1, LatestOfPlaces
  <2>3. CASE l > 0
    <3>1. l \in places /\ \A n \in places : n <= l
      BY <1>8, <1>10, <1>11, <1>12, <2>3
    <3> QED
      BY <1>3, <2>1, <3>1, LatestOfPlaces
  <2> QED
    BY <1>8, <2>2, <2>3
<1>15. PICK base : base = Base(order, l)
  OBVIOUS
<1>16. base = IF l = 0 THEN before
              ELSE IF g[l].kind = "set" THEN g[l].values
              ELSE Absent
  BY <1>8, <1>10, <1>15 DEF Base
<1>17. PICK updates : updates = {n \in DOMAIN g : n > l}
  OBVIOUS
<1>18. updates = (l + 1)..N
  BY <1>3, <1>8, <1>10, <1>17
<1>19. PICK fields :
          fields = DOMAIN base \cup UNION {DOMAIN g[n].values : n \in updates}
  OBVIOUS
<1>20. Outcome(g) =
         IF base = Absent THEN Absent
         ELSE [f \in fields |->
                 LET n == LatestOf({m \in updates : f \in DOMAIN g[m].values})
                 IN  IF n = 0 THEN base[f] ELSE g[n].values[f]]
  BY <1>14, <1>16, <1>17, <1>19 DEF Outcome
<1>21. CASE base = Absent
  <2>1. row = Absent
    BY <1>13, <1>15, <1>21 DEF Made
  <2> QED
    BY <1>20, <1>21, <2>1
<1>22. CASE base # Absent
  <2>1. /\ row # Absent
        /\ DOMAIN base \subseteq DOMAIN row
        /\ \A f \in DOMAIN row \ DOMAIN base :
             \E n \in Later(order, l) : f \in HandlerFields(n)
        /\ \A f \in DOMAIN base :
             (\A n \in Later(order, l) : f \notin HandlerFields(n)) =>
               row[f] = base[f]
        /\ \A i \in (l + 1)..N : \A f \in HandlerFields(order[i]) :
             (\A j \in (i + 1)..N : f \notin HandlerFields(order[j])) =>
               f \in DOMAIN row /\ row[f] = order[i]
    BY <1>13, <1>15, <1>22 DEF Made
  <2>2. \A n \in updates :
           n \in 1..N /\ HandlerFields(order[n]) = DOMAIN g[n].values
    BY <1>8, <1>10, <1>18 DEF HandlerFields
  <2>3. \A n \in Later(order, l) : \E i \in updates : order[i] = n
    <3> SUFFICES ASSUME NEW n \in Later(order, l)
                 PROVE  \E i \in updates : order[i] = n
      OBVIOUS
    <3>1. n \in 1..N /\ \A i \in 1..l : order[i] # n
      BY <1>2 DEF Later
    <3>2. PICK i \in 1..N : order[i] = n
      BY <1>6, <1>7, <3>1
    <3>3. i \in (l + 1)..N
      BY <1>8, <3>1, <3>2
    <3> QED
      BY <1>18, <3>2, <3>3
  <2>4. ASSUME NEW f
        PROVE  LET n == LatestOf({m \in updates : f \in DOMAIN g[m].values})
               IN  /\ f \in fields => f \in DOMAIN row
                   /\ f \in fields =>
                        row[f] = IF n = 0 THEN base[f] ELSE g[n].values[f]
    <3> DEFINE writers == {m \in updates : f \in DOMAIN g[m].values}
    <3>1. writers \in SUBSET (1..N)
      BY <2>2
    <3>2. PICK n : n = LatestOf(writers)
      OBVIOUS
    <3>3. CASE writers = {}
      <4>1. n = 0
        BY <1>3, <3>1, <3>2, <3>3, LatestOfPlaces
      <4>2. \A m \in Later(order, l) : f \notin HandlerFields(m)
        BY <2>2, <2>3, <3>3
      <4>3. f \in fields => f \in DOMAIN base
        BY <1>19, <3>3
      <4> QED
        BY <2>1, <3>2, <4>1, <4>2, <4>3
    <3>4. CASE writers # {}
      <4>1. n \in writers /\ \A m \in writers : m <= n
        BY <1>3, <3>1, <3>2, <3>4, LatestOfPlaces
      <4>2. n \in updates /\ n \in 1..N /\ f \in HandlerFields(order[n])
        BY <2>2, <4>1
      <4>3. ASSUME NEW j \in (n + 1)..N PROVE f \notin HandlerFields(order[j])
        <5>1. j \in updates /\ ~(j <= n)
          BY <1>8, <1>18, <4>2, <4>3
        <5> QED
          BY <2>2, <4>1, <5>1
      <4>4. f \in DOMAIN row /\ row[f] = order[n]
        BY <1>18, <2>1, <4>2, <4>3
      <4>5. g[n].values[f] = order[n]
        <5>1. g[n] = handler[order[n]] /\ order[n] \in 1..N
          BY <1>8, <1>10, <4>2
        <5>2. f \in DOMAIN handler[order[n]].values
          BY <4>2 DEF HandlerFields
        <5>3. PICK m \in 1..N : m = order[n]
          BY <5>1
        <5>4. handler[m].values = [e \in DOMAIN handler[m].values |-> m]
          BY <1>2
        <5> QED
          BY <5>1, <5>2, <5>3, <5>4
      <4>6. n # 0
        BY <1>3, <4>2
      <4> QED
        BY <3>2, <4>4, <4>5, <4>6
    <3> QED
      BY <3>3, <3>4
  <2>5. DOMAIN row = fields
    <3>1. ASSUME NEW f \in DOMAIN row PROVE f \in fields
      BY <1>19, <2>1, <2>2, <2>3
    <3> QED
      BY <2>4, <3>1
  <2>6. row = [f \in DOMAIN row |-> row[f]]
    BY <1>1, <2>1 DEF RowShape
  <2> QED
    BY <1>20, <1>22, <2>4, <2>5, <2>6
<1> QED
  BY <1>21, <1>22

\* However often the process ends while a handler is run that awaits its
\* operations, and whatever an earlier run has left behind: once the position is
\* saved, the row is what one run of the handler makes of the row before the
\* event.
THEOREM RerunsConverge == RowSpec => []RerunConverges
<1>1. Converging => RerunConverges
  <2> SUFFICES ASSUME Converging, saved, awaited, AsInTests
               PROVE  row = Outcome(handler)
    BY DEF RerunConverges
  <2>1. Atomic
    BY DEF Atomic
  <2>2. PICK order \in SetToSeqs(DOMAIN handler) :
           /\ \A n \in DOMAIN handler : order[n] = n
           /\ row = Outcome([n \in DOMAIN handler |-> handler[order[n]]])
    BY <2>1, OutcomeOfSomeOrder
  <2>3. handler = [n \in DOMAIN handler |-> handler[n]]
    BY HandlerShape DEF Converging, RowTypeOK
  <2>4. [n \in DOMAIN handler |-> handler[order[n]]] = handler
    BY <2>2, <2>3
  <2> QED
    BY <2>2, <2>4
<1> QED
  BY <1>1, ConvergingInvariant, PTL

\* Operations that are made at once take effect in some order in a store with
\* atomic updates, also when an earlier run of the handler has left some of them
\* behind.
THEOREM EffectsHaveAnOrder == RowSpec => []SomeOrder
<1>1. Converging => SomeOrder
  <2> SUFFICES ASSUME Converging, saved, adapter # "redis", AsInTests
               PROVE  \E order \in SetToSeqs(DOMAIN handler) :
                        row = Outcome([n \in DOMAIN handler |->
                                         handler[order[n]]])
    BY DEF SomeOrder
  <2>1. Atomic
    BY DEF Atomic
  <2> QED
    BY <2>1, OutcomeOfSomeOrder
<1> QED
  BY <1>1, ConvergingInvariant, PTL

\* The types of the row's variables hold in every state.
THEOREM RowTypesHold == RowSpec => []RowTypeOK
<1>1. Converging => RowTypeOK
  BY DEF Converging
<1> QED
  BY <1>1, ConvergingInvariant, PTL
=============================================================================
