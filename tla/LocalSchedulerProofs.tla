------------------------ MODULE LocalSchedulerProofs ------------------------
(***************************************************************************)
(* Proofs about LocalScheduler for every set of invocations, every limit   *)
(* of the retries and every number of failures and restarts.               *)
(***************************************************************************)
EXTENDS LocalScheduler, DataLemmas
-----------------------------------------------------------------------------
(* Times, the timer and the list. *)

\* A timer never fires later than at the time it was set for, or at once when
\* that time has passed.
LEMMA TimerOf ==
    ASSUME now \in Time, NEW t \in Time
    PROVE  /\ now + Lesser(Greater(t - now, 0), MaxTimeout) \in Time
           /\ now + Lesser(Greater(t - now, 0), MaxTimeout) <= Greater(t, now)
  BY LocalSchedulerAssumption DEF Time, Lesser, Greater

\* How many invocations at the front of the list are due: those are, and the
\* next one is not.
LEMMA DueIsFront ==
    ASSUME TypeOK
    PROVE  /\ Due \in 0..Len(pending)
           /\ \A k \in 1..Due : executeAt[pending[k]] <= now
<1> DEFINE I == {k \in 1..Len(pending) : executeAt[pending[k]] > now}
<1>1. pending \in Seq(Invocations) /\ Len(pending) \in Nat
  BY LenProperties DEF TypeOK
<1>2. \A k \in 1..Len(pending) : executeAt[pending[k]] \in Int /\ now \in Int
  BY <1>1, ElementsOfList DEF TypeOK, Time
<1>3. Due = IF (IF I # {} THEN Min(I) ELSE 0) = 0 THEN Len(pending)
            ELSE (IF I # {} THEN Min(I) ELSE 0) - 1
  BY DEF Due, SelectInSeq
<1>4. CASE I = {}
  BY <1>1, <1>2, <1>3, <1>4
<1>5. CASE I # {}
  <2>1. Min(I) \in I /\ \A k \in I : Min(I) <= k
    <3>1. I \in SUBSET Nat
      BY <1>1
    <3> HIDE DEF I
    <3> QED
      BY <1>5, <3>1, MinIsSmallest
  <2>2. Due = Min(I) - 1 /\ Min(I) \in 1..Len(pending)
    BY <1>3, <1>5, <2>1
  <2>3. \A k \in 1..Due : k \in 1..Len(pending) /\ k \notin I
    BY <1>1, <2>1, <2>2
  <2> QED
    BY <1>1, <1>2, <2>2, <2>3
<1> QED
  BY <1>4, <1>5

\* The place of a new invocation is after those that are not later, and before
\* one that is.
LEMMA AfterIsPlace ==
    ASSUME TypeOK, NEW t \in Time
    PROVE  /\ After(t) \in 1..(Len(pending) + 1)
           /\ \A k \in 1..Len(pending) :
                k < After(t) => executeAt[pending[k]] <= t
           /\ After(t) <= Len(pending) => executeAt[pending[After(t)]] > t
<1> DEFINE I == {k \in 1..Len(pending) : executeAt[pending[k]] > t}
<1>1. pending \in Seq(Invocations) /\ Len(pending) \in Nat
  BY LenProperties DEF TypeOK
<1>2. \A k \in 1..Len(pending) : executeAt[pending[k]] \in Int /\ t \in Int
  BY <1>1, ElementsOfList DEF TypeOK, Time
<1>3. After(t) = IF (IF I # {} THEN Min(I) ELSE 0) = 0 THEN Len(pending) + 1
                 ELSE (IF I # {} THEN Min(I) ELSE 0)
  BY DEF After, SelectInSeq
<1>4. CASE I = {}
  BY <1>1, <1>2, <1>3, <1>4
<1>5. CASE I # {}
  <2>1. Min(I) \in I /\ \A k \in I : Min(I) <= k
    <3>1. I \in SUBSET Nat
      BY <1>1
    <3> HIDE DEF I
    <3> QED
      BY <1>5, <3>1, MinIsSmallest
  <2>2. After(t) = Min(I)
    BY <1>3, <1>5, <2>1
  <2>3. \A k \in 1..Len(pending) : k < Min(I) => k \notin I
    BY <1>1, <2>1
  <2> QED
    BY <1>1, <1>2, <2>1, <2>2, <2>3
<1> QED
  BY <1>4, <1>5
-----------------------------------------------------------------------------
(* Type correctness. *)

\* The state a scheduler is created in has the types.
LEMMA TypeInit == Init => TypeOK
  BY LocalSchedulerAssumption, EmptySeq
  DEF Init, TypeOK, Time, Mode, Unset

\* What the list is turned into by the runs of #invoke.
LEMMA ConcludedLists ==
    ASSUME TypeOK, NEW r \in runs, NEW again \in SUBSET Invocations
    PROVE  /\ KeepOnly(r.batch, again) \in Seq(Invocations)
           /\ ToSet(KeepOnly(r.batch, again)) = ToSet(r.batch) \cap again
           /\ KeepOnly(r.batch, Invocations \ again) \in Seq(Invocations)
           /\ ToSet(KeepOnly(r.batch, Invocations \ again)) =
                ToSet(r.batch) \ again
           /\ KeepOnly(r.batch, again) \o pending \in Seq(Invocations)
           /\ ToSet(KeepOnly(r.batch, again) \o pending) =
                (ToSet(r.batch) \cap again) \cup ToSet(pending)
<1>1. r.batch \in Seq(Invocations) /\ pending \in Seq(Invocations)
  BY DEF TypeOK, Run
<1>2. ToSet(r.batch) \subseteq Invocations
  BY <1>1, ElementsOfList
<1> QED
  BY <1>1, <1>2, KeepOnlyKeeps, ConcatenatedElements

\* Every step keeps the types.
LEMMA TypeStep == TypeOK /\ [Next]_vars => TypeOK'
<1> SUFFICES ASSUME TypeOK, [Next]_vars PROVE TypeOK'
  OBVIOUS
<1> USE LocalSchedulerAssumption
<1>1. CASE Tick
  BY <1>1 DEF Tick, TypeOK, Time, timerVars, outcomeVars, boundVars
<1>2. ASSUME NEW t \in Time, SetTimer(t)
      PROVE  nextInvocationAt' \in Time /\ timer' \in Time \cup {Unset}
  BY <1>2, TimerOf DEF SetTimer, TypeOK
<1>3. ASSUME NEW list \in Seq(Invocations), OnInvocationHandled(list)
      PROVE  nextInvocationAt' \in Time /\ timer' \in Time \cup {Unset}
  <2>1. CASE list = <<>>
    BY <1>3, <2>1 DEF OnInvocationHandled, timerVars, TypeOK
  <2>2. CASE list # <<>>
    <3>1. list[1] \in Invocations
      BY <2>2, EmptySeq, ElementsOfList
    <3> QED
      BY <1>2, <1>3, <2>2, <3>1 DEF OnInvocationHandled, TypeOK
  <2> QED
    BY <2>1, <2>2
<1>4. CASE Subscribe
  BY <1>4
  DEF Subscribe, TypeOK, Mode, timerVars, outcomeVars, boundVars
<1>5. CASE Load
  <2>1. PICK list \in SetToSeqs(storage) :
           pending' = list /\ OnInvocationHandled(list)
    BY <1>5 DEF Load
  <2>2. IsFiniteSet(storage) /\ storage \subseteq Invocations
    BY FS_Subset DEF TypeOK
  <2>3. list \in Seq(storage)
    BY <2>2, OrdersOfASet
  <2>4. list \in Seq(Invocations)
    BY <2>2, <2>3, SeqMonotonic
  <2>5. retryCount' \in [Invocations -> Nat]
    BY <1>5 DEF Load, TypeOK
  <2> QED
    BY <1>3, <1>5, <2>1, <2>4, <2>5
    DEF Load, TypeOK, Mode, outcomeVars, boundVars
<1>6. CASE Unsubscribe
  BY <1>6
  DEF Unsubscribe, TypeOK, Mode, timerVars, outcomeVars, boundVars
<1>7. CASE Restart
  BY <1>7, EmptySeq
  DEF Restart, TypeOK, Mode, Time, outcomeVars
<1>8. ASSUME NEW i \in Invocations, NEW t \in 1..MaxTime, Schedule(i, t)
      PROVE  TypeOK'
  <2>1. t \in Time
    BY DEF Time
  <2>2. pending' \in Seq(Invocations)
    BY <1>8, <2>1, AfterIsPlace, InsertAtPlace DEF Schedule, TypeOK
  <2> QED
    BY <1>8, <2>1, <2>2
    DEF Schedule, TypeOK, timerVars, outcomeVars, boundVars
<1>9. ASSUME NEW i \in Invocations, Saved(i) PROVE TypeOK'
  <2>1. nextInvocationAt' \in Time /\ timer' \in Time \cup {Unset}
    BY <1>2, <1>9 DEF Saved, TypeOK, timerVars
  <2> QED
    BY <1>9, <2>1 DEF Saved, TypeOK, boundVars
<1>10. CASE Fire
  <2>1. CASE Wait
    BY <1>2, <1>10, <2>1 DEF Fire, Wait, TypeOK, boundVars
  <2>2. CASE Take
    <3> DEFINE batch == SubSeq(pending, 1, Due)
               called == IF mode = "subscribed" THEN ToSet(batch) ELSE {}
    <3>1. /\ batch \in Seq(Invocations)
          /\ pending' \in Seq(Invocations)
      BY <2>2, DueIsFront, CutElements DEF Take, TakeOut, TypeOK
    <3>2. ToSet(batch) \subseteq Invocations /\ called \subseteq Invocations
      BY <3>1, ElementsOfList
    <3>3. runs' = runs \cup {[batch |-> batch, open |-> called,
                              failed |-> {}, phase |-> "execute"]}
      BY <2>2 DEF Take
    <3>4. runs' \subseteq Run
      <4>1. [batch |-> batch, open |-> called, failed |-> {},
             phase |-> "execute"] \in Run
        BY <3>1, <3>2 DEF Run
      <4> QED
        BY <3>3, <4>1 DEF TypeOK
    <3>5. executed' \in [Invocations -> Nat]
      BY <2>2 DEF Take, TypeOK
    <3>6. missed' \subseteq Invocations
      BY <2>2, <3>2 DEF Take, TypeOK
    <3> QED
      BY <1>10, <2>2, <3>1, <3>4, <3>5, <3>6
      DEF Fire, Take, TypeOK, boundVars
  <2> QED
    BY <1>10, <2>1, <2>2 DEF Fire
<1>11. ASSUME NEW r \in runs, NEW i \in r.open
       PROVE  r \in Run /\ i \in Invocations /\ r.open \subseteq Invocations
              /\ r.failed \subseteq Invocations
  BY DEF TypeOK, Run
<1>12. ASSUME NEW r \in runs, NEW i \in r.open, Fulfil(r, i) PROVE TypeOK'
  <2>1. [r EXCEPT !.open = @ \ {i}] \in Run
    BY <1>11 DEF Run
  <2> QED
    BY <1>11, <1>12, <2>1 DEF Fulfil, TypeOK, timerVars, boundVars
<1>13. ASSUME NEW r \in runs, NEW i \in r.open, Reject(r, i) PROVE TypeOK'
  <2>1. [r EXCEPT !.open = @ \ {i}, !.failed = @ \cup {i}] \in Run
    BY <1>11 DEF Run
  <2> QED
    BY <1>11, <1>13, <2>1 DEF Reject, TypeOK, timerVars
<1>14. ASSUME NEW r \in runs, Conclude(r) PROVE TypeOK'
  <2> DEFINE again == {i \in r.failed : ~GivenUp(i)}
  <2>1. again \in SUBSET Invocations
    BY DEF TypeOK, Run
  <2> HIDE DEF again
  <2>2. /\ pending' = IF Retries THEN KeepOnly(r.batch, again) \o pending
                      ELSE pending
        /\ runs' = (runs \ {r})
             \cup {[batch |-> KeepOnly(r.batch, Invocations \ again),
                    open |-> {}, failed |-> {}, phase |-> "delete"]}
    BY <1>14 DEF Conclude, again
  <2>3. pending' \in Seq(Invocations)
    BY <2>1, <2>2, ConcludedLists DEF TypeOK
  <2>4. runs' \subseteq Run
    <3>1. [batch |-> KeepOnly(r.batch, Invocations \ again), open |-> {},
           failed |-> {}, phase |-> "delete"] \in Run
      BY <2>1, ConcludedLists DEF Run
    <3> QED
      BY <2>2, <3>1 DEF TypeOK
  <2>5. retryCount' \in [Invocations -> Nat]
    BY <1>14 DEF Conclude, CountUp, TypeOK
  <2> QED
    BY <1>14, <2>3, <2>4, <2>5
    DEF Conclude, TypeOK, timerVars, outcomeVars, boundVars
<1>15. ASSUME NEW r \in runs, Deleted(r) PROVE TypeOK'
  <2>1. nextInvocationAt' \in Time /\ timer' \in Time \cup {Unset}
    BY <1>3, <1>15 DEF Deleted, TypeOK
  <2> QED
    BY <1>15, <2>1 DEF Deleted, TypeOK, outcomeVars, boundVars
<1>16. CASE UNCHANGED vars
  BY <1>16 DEF vars, TypeOK, timerVars, outcomeVars, boundVars
<1> QED
  BY <1>1, <1>4, <1>5, <1>6, <1>7, <1>8, <1>9, <1>10, <1>12, <1>13, <1>14,
     <1>15, <1>16 DEF Next, Invoke

\* The types of the list, the timer, the runs of #invoke and the storage.
THEOREM TypeCorrect == Spec => []TypeOK
  BY TypeInit, TypeStep, PTL DEF Spec
-----------------------------------------------------------------------------
(* What the steps do to the list and the runs. *)

\* An invocation is not executed before its time: whatever a run takes out of
\* the list is due, however late the timer fired and whatever is earlier.
THEOREM NothingIsEarly == Spec => NeverEarly
<1>1. TypeOK /\ [Next]_vars =>
        [\A i \in Invocations :
           executed'[i] > executed[i] => executeAt[i] <= now]_vars
  <2> SUFFICES ASSUME TypeOK, [Next]_vars, NEW i \in Invocations,
                      executed'[i] > executed[i]
               PROVE  executeAt[i] <= now
    OBVIOUS
  <2>1. executed' # executed
    BY DEF TypeOK
  <2>2. Fire /\ Take
    BY <2>1
    DEF Next, Invoke, Tick, Subscribe, Load, Unsubscribe, Restart, Schedule,
        Saved, Conclude, Deleted, Fulfil, Reject, Fire, Wait, vars
  <2>3. i \in ToSet(SubSeq(pending, 1, Due))
    BY <2>2 DEF Take, TypeOK
  <2>4. pending \in Seq(Invocations) /\ Due \in 0..Len(pending)
    BY DueIsFront DEF TypeOK
  <2>5. ToSet(SubSeq(pending, 1, Due)) = {pending[k] : k \in 1..Due}
    BY <2>4, CutElements
  <2>6. PICK k \in 1..Due : i = pending[k]
    BY <2>3, <2>5
  <2> QED
    BY <2>6, DueIsFront
<1> QED
  BY <1>1, TypeCorrect, PTL DEF Spec, NeverEarly

Batch == SubSeq(pending, 1, Due)
Called == IF mode = "subscribed" THEN ToSet(Batch) ELSE {}

\* A run takes the due invocations out of the list.
LEMMA Taken ==
    ASSUME TypeOK, Take
    PROVE  /\ ToSet(pending) = ToSet(Batch) \cup ToSet(pending')
           /\ ToSet(Batch) \subseteq Invocations
           /\ Called \subseteq ToSet(Batch)
           /\ IsInjective(pending) => /\ IsInjective(Batch)
                                      /\ IsInjective(pending')
                                      /\ ToSet(Batch) \cap ToSet(pending') = {}
           /\ \A i \in ToSet(Batch) : executeAt[i] <= now
           /\ \A k \in DOMAIN pending' : /\ k + Due \in DOMAIN pending
                                         /\ pending'[k] = pending[k + Due]
           /\ \E n \in Run : /\ runs' = runs \cup {n}
                             /\ n.batch = Batch
                             /\ n.open = Called
                             /\ n.failed = {}
                             /\ n.phase = "execute"
<1>1. /\ pending \in Seq(Invocations)
      /\ Len(pending) \in Nat
      /\ DOMAIN pending = 1..Len(pending)
      /\ Due \in 0..Len(pending)
  BY DueIsFront, ElementsOfList DEF TypeOK
<1>2. /\ Batch \in Seq(Invocations)
      /\ ToSet(Batch) = {pending[k] : k \in 1..Due}
      /\ DOMAIN pending' = 1..(Len(pending) - Due)
      /\ \A k \in 1..(Len(pending) - Due) : pending'[k] = pending[Due + k]
      /\ ToSet(pending) = ToSet(Batch) \cup ToSet(pending')
      /\ IsInjective(pending) => /\ IsInjective(Batch)
                                 /\ IsInjective(pending')
                                 /\ ToSet(Batch) \cap ToSet(pending') = {}
  <2> DEFINE rest == SubSeq(pending, Due + 1, Len(pending))
  <2>1. pending' = rest
    BY DEF Take, TakeOut
  <2>2. /\ Batch \in Seq(Invocations)
        /\ ToSet(Batch) = {pending[k] : k \in 1..Due}
        /\ DOMAIN rest = 1..(Len(pending) - Due)
        /\ \A k \in 1..(Len(pending) - Due) : rest[k] = pending[Due + k]
        /\ ToSet(pending) = ToSet(Batch) \cup ToSet(rest)
        /\ IsInjective(pending) => /\ IsInjective(Batch)
                                   /\ IsInjective(rest)
                                   /\ ToSet(Batch) \cap ToSet(rest) = {}
    BY <1>1, CutElements DEF Batch
  <2> QED
    BY <2>1, <2>2
<1>3. \A i \in ToSet(Batch) : executeAt[i] <= now
  BY <1>2, DueIsFront
<1>4. ASSUME NEW k \in DOMAIN pending'
      PROVE  k + Due \in DOMAIN pending /\ pending'[k] = pending[k + Due]
  BY <1>1, <1>2
<1>5. ToSet(Batch) \subseteq Invocations /\ Called \subseteq ToSet(Batch)
  BY <1>2, ElementsOfList DEF Called
<1> DEFINE n == [batch |-> Batch, open |-> Called, failed |-> {},
                 phase |-> "execute"]
<1>6. n \in Run
  BY <1>2, <1>5 DEF Run
<1>7. runs' = runs \cup {n}
  BY DEF Take, Batch, Called
<1>8. \E m \in Run : /\ runs' = runs \cup {m}
                     /\ m.batch = Batch
                     /\ m.open = Called
                     /\ m.failed = {}
                     /\ m.phase = "execute"
  BY <1>6, <1>7
<1> QED
  BY <1>2, <1>3, <1>4, <1>5, <1>8

\* What has failed and is not given up.
Again(r) == {i \in r.failed : ~GivenUp(i)}

\* The end of a run puts it back in front of the list; the rest of the batch is
\* left to delete.
LEMMA Concluded ==
    ASSUME TypeOK, NEW r \in runs, Conclude(r)
    PROVE  /\ \E n \in Run : /\ runs' = (runs \ {r}) \cup {n}
                             /\ ToSet(n.batch) = ToSet(r.batch) \ Again(r)
                             /\ IsInjective(r.batch) => IsInjective(n.batch)
                             /\ n.open = {}
                             /\ n.failed = {}
                             /\ n.phase = "delete"
           /\ pending' = IF Retries
                         THEN KeepOnly(r.batch, Again(r)) \o pending
                         ELSE pending
           /\ KeepOnly(r.batch, Again(r)) \in Seq(Invocations)
           /\ ToSet(KeepOnly(r.batch, Again(r))) =
                ToSet(r.batch) \cap Again(r)
           /\ ToSet(pending') = IF Retries
                                THEN (ToSet(r.batch) \cap Again(r))
                                       \cup ToSet(pending)
                                ELSE ToSet(pending)
           /\ /\ IsInjective(pending)
              /\ IsInjective(r.batch)
              /\ Again(r) \cap ToSet(pending) = {}
              => IsInjective(pending')
<1>1. /\ r.batch \in Seq(Invocations)
      /\ pending \in Seq(Invocations)
      /\ Again(r) \in SUBSET Invocations
  BY DEF TypeOK, Run, Again
<1>2. /\ KeepOnly(r.batch, Again(r)) \in Seq(Invocations)
      /\ ToSet(KeepOnly(r.batch, Again(r))) = ToSet(r.batch) \cap Again(r)
      /\ KeepOnly(r.batch, Invocations \ Again(r)) \in Seq(Invocations)
      /\ ToSet(KeepOnly(r.batch, Invocations \ Again(r))) =
           ToSet(r.batch) \ Again(r)
      /\ ToSet(KeepOnly(r.batch, Again(r)) \o pending) =
           (ToSet(r.batch) \cap Again(r)) \cup ToSet(pending)
  BY <1>1, ConcludedLists
<1>3. IsInjective(r.batch) =>
        /\ IsInjective(KeepOnly(r.batch, Again(r)))
        /\ IsInjective(KeepOnly(r.batch, Invocations \ Again(r)))
  BY <1>1, KeepOnlyKeeps
<1>4. /\ pending' = IF Retries
                    THEN KeepOnly(r.batch, Again(r)) \o pending
                    ELSE pending
      /\ runs' = (runs \ {r})
           \cup {[batch |-> KeepOnly(r.batch, Invocations \ Again(r)),
                  open |-> {}, failed |-> {}, phase |-> "delete"]}
  BY DEF Conclude, Again
<1> DEFINE n == [batch |-> KeepOnly(r.batch, Invocations \ Again(r)),
                 open |-> {}, failed |-> {}, phase |-> "delete"]
<1>5. n \in Run
  BY <1>2 DEF Run
<1>6. \E m \in Run : /\ runs' = (runs \ {r}) \cup {m}
                     /\ ToSet(m.batch) = ToSet(r.batch) \ Again(r)
                     /\ IsInjective(r.batch) => IsInjective(m.batch)
                     /\ m.open = {}
                     /\ m.failed = {}
                     /\ m.phase = "delete"
  <2>1. /\ runs' = (runs \ {r}) \cup {n}
        /\ ToSet(n.batch) = ToSet(r.batch) \ Again(r)
        /\ IsInjective(r.batch) => IsInjective(n.batch)
        /\ n.open = {}
        /\ n.failed = {}
        /\ n.phase = "delete"
    BY <1>2, <1>3, <1>4
  <2> QED
    BY <1>5, <2>1
<1>7. ASSUME IsInjective(pending), IsInjective(r.batch),
             Again(r) \cap ToSet(pending) = {}
      PROVE  IsInjective(pending')
  BY <1>1, <1>2, <1>3, <1>4, <1>7, ConcatenatedElements
<1> QED
  BY <1>2, <1>4, <1>6, <1>7

\* The callback of one invocation settles in a run.
LEMMA SettledOne ==
    ASSUME TypeOK, NEW r \in runs, NEW i \in r.open,
           Fulfil(r, i) \/ Reject(r, i)
    PROVE  /\ r \in Run /\ i \in Invocations
           /\ \E n \in Run :
                /\ runs' = (runs \ {r}) \cup {n}
                /\ n.batch = r.batch
                /\ n.open = r.open \ {i}
                /\ \/ Fulfil(r, i) /\ n.failed = r.failed
                   \/ Reject(r, i) /\ n.failed = r.failed \cup {i}
                /\ n.phase = r.phase
<1>1. r \in Run /\ i \in Invocations
  BY DEF TypeOK, Run
<1>2. CASE Fulfil(r, i)
  <2> DEFINE n == [r EXCEPT !.open = @ \ {i}]
  <2>1. /\ n \in Run
        /\ n.batch = r.batch
        /\ n.open = r.open \ {i}
        /\ n.failed = r.failed
        /\ n.phase = r.phase
    BY <1>1 DEF Run
  <2>2. runs' = (runs \ {r}) \cup {n}
    BY <1>2 DEF Fulfil
  <2> QED
    BY <1>1, <1>2, <2>1, <2>2
<1>3. CASE Reject(r, i)
  <2> DEFINE n == [r EXCEPT !.open = @ \ {i}, !.failed = @ \cup {i}]
  <2>1. /\ n \in Run
        /\ n.batch = r.batch
        /\ n.open = r.open \ {i}
        /\ n.failed = r.failed \cup {i}
        /\ n.phase = r.phase
    BY <1>1 DEF Run
  <2>2. runs' = (runs \ {r}) \cup {n}
    BY <1>3 DEF Reject
  <2> QED
    BY <1>1, <1>3, <2>1, <2>2
<1> QED
  BY <1>2, <1>3

\* The list that is loaded has the invocations of the storage, each once.
LEMMA Loaded ==
    ASSUME TypeOK, Load
    PROVE  /\ ToSet(pending') \subseteq storage
           /\ IsInjective(pending')
           /\ pending' \in Seq(Invocations)
           /\ StorageIsSorted => InOrder(pending')
           /\ OnInvocationHandled(pending')
<1>1. PICK list \in SetToSeqs(storage) : /\ pending' = list
                                         /\ OnInvocationHandled(list)
                                         /\ StorageIsSorted => InOrder(list)
  BY DEF Load
<1>2. IsFiniteSet(storage) /\ storage \subseteq Invocations
  BY LocalSchedulerAssumption, FS_Subset DEF TypeOK
<1>3. list \in Seq(storage) /\ IsInjective(list)
  BY <1>2, OrdersOfASet
<1>4. ToSet(list) \subseteq storage /\ list \in Seq(Invocations)
  BY <1>2, <1>3, ElementsOfList, SeqMonotonic
<1> QED
  BY <1>1, <1>3, <1>4

\* A new invocation is inserted into the list.
LEMMA Inserted ==
    ASSUME TypeOK, NEW i \in Invocations, NEW t \in 1..MaxTime, Schedule(i, t)
    PROVE  /\ t \in Time
           /\ ToSet(pending') = ToSet(pending) \cup {i}
           /\ IsInjective(pending) /\ i \notin ToSet(pending) =>
                IsInjective(pending')
  BY AfterIsPlace, InsertedElements, LocalSchedulerAssumption
  DEF Schedule, TypeOK, Time
-----------------------------------------------------------------------------
(* An invocation is at one place. *)

\* Whatever waits, is stored or is executed was scheduled; what was not
\* scheduled was not executed.
OnlyScheduled ==
    /\ \A i \in ToSet(pending) \cup saving \cup storage : executeAt[i] # 0
    /\ \A r \in runs : \A i \in ToSet(r.batch) : executeAt[i] # 0
    /\ \A i \in Invocations :
         executeAt[i] = 0 => executed[i] = 0 /\ retryCount[i] = 0

\* What a run still has to do with an invocation of its batch.
Held(r) == r.open \cup r.failed

\* The list has an invocation once, and so do the runs that will call it,
\* await it or put it back; none of them shares it with another or the list.
OnePlace ==
    /\ IsInjective(pending)
    /\ \A r \in runs : /\ IsInjective(r.batch)
                       /\ Held(r) \subseteq ToSet(r.batch)
                       /\ r.open \cap r.failed = {}
                       /\ Held(r) \cap ToSet(pending) = {}
    /\ \A r, s \in runs : r # s => Held(r) \cap Held(s) = {}

\* Until the storage is loaded, no callback is called.
NothingCalledYet ==
    mode \in {"created", "loading"} => \A r \in runs : Held(r) = {}

\* The inductive invariant behind OneAtATime.
Places == /\ TypeOK
          /\ OnlyScheduled
          /\ OnePlace
          /\ NothingCalledYet

\* The initial states satisfy it.
LEMMA PlacesInit == Init => Places
  BY TypeInit
  DEF Init, Places, OnlyScheduled, OnePlace, NothingCalledYet, IsInjective,
      ToSet

\* Nothing gets to a place without being scheduled.
LEMMA OnlyScheduledStep ==
    ASSUME Places, [Next]_vars
    PROVE  OnlyScheduled'
<1> USE DEF Places, OnlyScheduled
<1>1. CASE Tick \/ Subscribe \/ Unsubscribe \/ UNCHANGED vars
  BY <1>1
  DEF Tick, Subscribe, Unsubscribe, vars, timerVars, outcomeVars, boundVars
<1>2. CASE Load
  <2>1. ToSet(pending') \subseteq storage
    BY <1>2, Loaded
  <2>2. \A i \in Invocations : executeAt[i] = 0 =>
           retryCount'[i] = 0 /\ executed'[i] = 0
    BY <1>2 DEF Load
  <2> QED
    BY <1>2, <2>1, <2>2 DEF Load
<1>3. CASE Restart
  BY <1>3 DEF Restart, ToSet
<1>4. ASSUME NEW i \in Invocations, NEW t \in 1..MaxTime, Schedule(i, t)
      PROVE  OnlyScheduled'
  <2>1. ToSet(pending') = ToSet(pending) \cup {i}
    BY <1>4, Inserted
  <2>2. \A j \in Invocations :
           executeAt'[j] = (IF j = i THEN t ELSE executeAt[j])
    BY <1>4 DEF Schedule, TypeOK
  <2>3. /\ ToSet(pending) \subseteq Invocations
        /\ saving \subseteq Invocations /\ storage \subseteq Invocations
        /\ \A r \in runs : ToSet(r.batch) \subseteq Invocations
    BY ElementsOfList DEF TypeOK, Run
  <2>4. t # 0
    OBVIOUS
  <2>5. /\ runs' = runs /\ storage' = storage /\ saving' = saving \cup {i}
        /\ executed' = executed /\ retryCount' = retryCount
    BY <1>4 DEF Schedule
  <2> QED
    BY <2>1, <2>2, <2>3, <2>4, <2>5
<1>5. ASSUME NEW i \in Invocations, Saved(i) PROVE OnlyScheduled'
  BY <1>5 DEF Saved
<1>6. CASE Fire
  <2>1. CASE Wait
    BY <1>6, <2>1 DEF Fire, Wait
  <2>2. CASE Take
    <3>1. /\ ToSet(pending) = ToSet(Batch) \cup ToSet(pending')
          /\ Called \subseteq ToSet(Batch)
          /\ ToSet(Batch) \subseteq Invocations
      BY <2>2, Taken
    <3>2. PICK n \in Run : runs' = runs \cup {n} /\ n.batch = Batch
      BY <2>2, Taken
    <3>3. \A i \in Invocations : executeAt[i] = 0 => executed'[i] = executed[i]
      BY <2>2, <3>1 DEF Take, Batch, Called
    <3> QED
      BY <1>6, <2>2, <3>1, <3>2, <3>3 DEF Fire
  <2> QED
    BY <1>6, <2>1, <2>2 DEF Fire
<1>7. ASSUME NEW r \in runs, NEW i \in r.open, Fulfil(r, i) \/ Reject(r, i)
      PROVE  OnlyScheduled'
  <2>1. PICK n \in Run : runs' = (runs \ {r}) \cup {n} /\ n.batch = r.batch
    BY <1>7, SettledOne
  <2> QED
    BY <1>7, <2>1 DEF Fulfil, Reject
<1>8. ASSUME NEW r \in runs, Conclude(r) PROVE OnlyScheduled'
  <2>1. PICK n \in Run : /\ runs' = (runs \ {r}) \cup {n}
                         /\ ToSet(n.batch) \subseteq ToSet(r.batch)
    BY <1>8, Concluded
  <2>2. ToSet(pending') \subseteq ToSet(r.batch) \cup ToSet(pending)
    BY <1>8, Concluded
  <2>3. r.failed \subseteq ToSet(r.batch)
    BY DEF OnePlace, Held
  <2>4. \A i \in Invocations : executeAt[i] = 0 => retryCount'[i] = 0
    BY <1>8, <2>3 DEF Conclude
  <2> QED
    BY <1>8, <2>1, <2>2, <2>4 DEF Conclude
<1>9. ASSUME NEW r \in runs, Deleted(r) PROVE OnlyScheduled'
  BY <1>9 DEF Deleted
<1> QED
  BY <1>1, <1>2, <1>3, <1>4, <1>5, <1>6, <1>7, <1>8, <1>9 DEF Next, Invoke

\* Every step keeps an invocation at one place.
LEMMA OnePlaceStep ==
    ASSUME Places, [Next]_vars
    PROVE  OnePlace'
<1> USE DEF Places, OnePlace
<1>1. CASE Tick \/ Subscribe \/ Unsubscribe \/ UNCHANGED vars
  BY <1>1
  DEF Tick, Subscribe, Unsubscribe, vars, timerVars, outcomeVars, boundVars,
      Held
<1>2. CASE Load
  <2>1. IsInjective(pending')
    BY <1>2, Loaded
  <2>2. \A r \in runs : Held(r) = {}
    BY <1>2 DEF Load, NothingCalledYet
  <2>3. runs' = runs
    BY <1>2 DEF Load
  <2> QED
    BY <2>1, <2>2, <2>3 DEF Held
<1>3. CASE Restart
  BY <1>3 DEF Restart, IsInjective
<1>4. ASSUME NEW i \in Invocations, NEW t \in 1..MaxTime, Schedule(i, t)
      PROVE  OnePlace'
  <2>1. executeAt[i] = 0 /\ runs' = runs
    BY <1>4 DEF Schedule
  <2>2. i \notin ToSet(pending) /\ \A r \in runs : i \notin Held(r)
    BY <2>1 DEF OnlyScheduled
  <2>3. ToSet(pending') = ToSet(pending) \cup {i} /\ IsInjective(pending')
    BY <1>4, <2>2, Inserted
  <2> QED
    BY <2>1, <2>2, <2>3 DEF Held
<1>5. ASSUME NEW i \in Invocations, Saved(i) PROVE OnePlace'
  BY <1>5 DEF Saved, Held
<1>6. CASE Fire
  <2>1. CASE Wait
    BY <1>6, <2>1 DEF Fire, Wait, Held
  <2>2. CASE Take
    <3>1. /\ ToSet(pending) = ToSet(Batch) \cup ToSet(pending')
          /\ Called \subseteq ToSet(Batch)
          /\ IsInjective(Batch) /\ IsInjective(pending')
          /\ ToSet(Batch) \cap ToSet(pending') = {}
      BY <2>2, Taken
    <3>2. PICK n \in Run : /\ runs' = runs \cup {n}
                           /\ n.batch = Batch
                           /\ n.open = Called
                           /\ n.failed = {}
      BY <2>2, Taken
    <3>3. Held(n) = Called
      BY <3>2 DEF Held
    <3>4. \A r \in runs : Held(r) \cap Called = {}
      BY <3>1
    <3> QED
      BY <3>1, <3>2, <3>3, <3>4 DEF Held
  <2> QED
    BY <1>6, <2>1, <2>2 DEF Fire
<1>7. ASSUME NEW r \in runs, NEW i \in r.open, Fulfil(r, i) \/ Reject(r, i)
      PROVE  OnePlace'
  <2>1. PICK n \in Run : /\ runs' = (runs \ {r}) \cup {n}
                         /\ n.batch = r.batch
                         /\ n.open = r.open \ {i}
                         /\ \/ n.failed = r.failed
                            \/ n.failed = r.failed \cup {i}
    BY <1>7, SettledOne
  <2>2. Held(n) \subseteq Held(r) /\ n.open \cap n.failed = {}
    BY <2>1 DEF Held
  <2>3. pending' = pending
    BY <1>7 DEF Fulfil, Reject
  <2> QED
    BY <2>1, <2>2, <2>3 DEF Held
<1>8. ASSUME NEW r \in runs, Conclude(r) PROVE OnePlace'
  <2>1. PICK n \in Run : /\ runs' = (runs \ {r}) \cup {n}
                         /\ IsInjective(n.batch)
                         /\ n.open = {}
                         /\ n.failed = {}
    BY <1>8, Concluded
  <2>2. Again(r) \subseteq Held(r)
    BY DEF Again, Held
  <2>3. IsInjective(pending')
    BY <1>8, <2>2, Concluded
  <2>4. ToSet(pending') \subseteq Held(r) \cup ToSet(pending)
    BY <1>8, <2>2, Concluded
  <2>5. Held(n) = {}
    BY <2>1 DEF Held
  <2> QED
    BY <2>1, <2>3, <2>4, <2>5 DEF Held
<1>9. ASSUME NEW r \in runs, Deleted(r) PROVE OnePlace'
  BY <1>9 DEF Deleted, Held
<1> QED
  BY <1>1, <1>2, <1>3, <1>4, <1>5, <1>6, <1>7, <1>8, <1>9 DEF Next, Invoke

\* A run that starts before the storage is loaded calls nobody.
LEMMA NothingCalledYetStep ==
    ASSUME Places, [Next]_vars
    PROVE  NothingCalledYet'
<1> USE DEF Places, NothingCalledYet
<1>1. ASSUME runs' = runs, mode' \in {"created", "loading"} =>
                             mode \in {"created", "loading"}
      PROVE  NothingCalledYet'
  BY <1>1 DEF Held
<1>2. CASE \/ Tick \/ Subscribe \/ Load \/ Unsubscribe \/ UNCHANGED vars
           \/ \E i \in Invocations : \/ \E t \in 1..MaxTime : Schedule(i, t)
                                     \/ Saved(i)
  BY <1>1, <1>2
  DEF Tick, Subscribe, Load, Unsubscribe, Schedule, Saved, vars
<1>3. CASE Restart
  BY <1>3 DEF Restart
<1>4. CASE Fire
  <2>1. CASE Wait
    BY <1>1, <1>4, <2>1 DEF Fire, Wait
  <2>2. CASE Take
    <3>1. PICK n \in Run : /\ runs' = runs \cup {n}
                           /\ n.open = Called
                           /\ n.failed = {}
      BY <2>2, Taken
    <3>2. mode' = mode
      BY <1>4 DEF Fire
    <3> QED
      BY <3>1, <3>2 DEF Held, Called
  <2> QED
    BY <1>4, <2>1, <2>2 DEF Fire
<1>5. ASSUME NEW r \in runs, NEW i \in r.open, Fulfil(r, i) \/ Reject(r, i)
      PROVE  NothingCalledYet'
  BY <1>5 DEF Fulfil, Reject, Held
<1>6. ASSUME NEW r \in runs, Conclude(r) PROVE NothingCalledYet'
  <2>1. PICK n \in Run : /\ runs' = (runs \ {r}) \cup {n}
                         /\ n.open = {}
                         /\ n.failed = {}
    BY <1>6, Concluded
  <2> QED
    BY <1>6, <2>1 DEF Conclude, Held
<1>7. ASSUME NEW r \in runs, Deleted(r) PROVE NothingCalledYet'
  BY <1>7 DEF Deleted, Held
<1> QED
  BY <1>2, <1>3, <1>4, <1>5, <1>6, <1>7 DEF Next, Invoke

\* Every step keeps the invariant.
LEMMA PlacesStep == Places /\ [Next]_vars => Places'
<1> SUFFICES ASSUME Places, [Next]_vars PROVE Places'
  OBVIOUS
<1>1. TypeOK'
  BY TypeStep DEF Places
<1> QED
  BY <1>1, OnlyScheduledStep, OnePlaceStep, NothingCalledYetStep DEF Places

\* The invariant holds for every scheduler.
THEOREM PlacesInvariant == Spec => []Places
  BY PlacesInit, PlacesStep, PTL DEF Spec

\* However runs of #invoke overlap, the command of an invocation is not executed
\* concurrently with itself, and is not in the list while it is executed.
THEOREM CommandsRunOneAtATime == Spec => []OneAtATime
<1>1. Places => OneAtATime
  BY DEF Places, OnePlace, OneAtATime, Held
<1> QED
  BY <1>1, PlacesInvariant, PTL
-----------------------------------------------------------------------------
(* Retries, and what the storage forgets. *)

\* What became of the invocations of a batch: none was called less often than
\* it was counted as failed, and those that are deleted were fulfilled, or given
\* up, or nobody was there to call.
BatchesAccounted ==
    /\ \A i \in Invocations : retryCount[i] <= executed[i]
    /\ \A r \in runs : \A i \in Held(r) : retryCount[i] < executed[i]
    /\ \A r \in runs : r.phase = "execute" =>
         ToSet(r.batch) \subseteq Held(r) \cup fulfilled \cup missed
    /\ \A r \in runs : r.phase = "delete" =>
         \A i \in ToSet(r.batch) : \/ i \in fulfilled \cup missed
                                   \/ Counted /\ executed[i] > RetryLimit
    /\ \A i \in accepted \ storage : \/ i \in fulfilled \cup missed
                                     \/ Counted /\ executed[i] > RetryLimit

\* How often a process executes an invocation, when there is a limit.
Attempts == Greater(RetryLimit, 0) + 1

\* The executions that the earlier processes may not have had.
Spent(i) == executed[i] - restarts * Attempts

\* The executions by this process are counted by retryCount, and an invocation
\* that is in the list or in a run has attempts left.
AttemptsCounted ==
    /\ ~Counted => \A i \in Invocations : retryCount[i] = 0
    /\ mode \in {"created", "loading"} => \A i \in Invocations : Spent(i) <= 0
    /\ \A i \in ToSet(pending) : /\ Spent(i) <= retryCount[i]
                                 /\ retryCount[i] < Attempts
    /\ \A r \in runs : \A i \in Held(r) : /\ Spent(i) <= retryCount[i] + 1
                                          /\ retryCount[i] < Attempts
    /\ \A i \in Invocations : Spent(i) <= Attempts

\* The inductive invariant behind TriedBeforeForgotten.
Accounts == /\ Places
            /\ BatchesAccounted
            /\ RetryLimit # Unlimited => AttemptsCounted

\* What the bound on the executions is made of.
LEMMA SpentFacts ==
    ASSUME TypeOK
    PROVE  /\ Attempts \in Nat \ {0}
           /\ Counted => Attempts = RetryLimit + 1
           /\ ~Counted => Attempts = 1
           /\ restarts \in Nat
           /\ restarts * Attempts \in Nat
           /\ (restarts + 1) * Attempts = restarts * Attempts + Attempts
           /\ \A i \in Invocations : Spent(i) \in Int
<1>1. /\ Attempts \in Nat \ {0}
      /\ Counted => Attempts = RetryLimit + 1
      /\ ~Counted => Attempts = 1
  BY LocalSchedulerAssumption
  DEF Attempts, Greater, Counted, NoRetry, Unlimited
<1>2. restarts \in Nat
  BY LocalSchedulerAssumption DEF TypeOK
<1> HIDE DEF Attempts
<1>3. /\ restarts * Attempts \in Nat
      /\ (restarts + 1) * Attempts = restarts * Attempts + Attempts
  BY <1>1, <1>2
<1> QED
  BY <1>1, <1>2, <1>3 DEF Spent, TypeOK

\* The initial states satisfy it.
LEMMA AccountsInit == Init => Accounts
<1> SUFFICES ASSUME Init PROVE Accounts
  OBVIOUS
<1>1. Places /\ TypeOK
  BY PlacesInit, TypeInit
<1>2. \A i \in Invocations : Spent(i) = 0
  <2>1. 0 * Attempts = 0
    BY <1>1, SpentFacts
  <2> QED
    BY <2>1 DEF Init, Spent
<1>3. ToSet(pending) = {} /\ Attempts \in Nat
  BY <1>1, SpentFacts DEF Init, ToSet
<1> QED
  BY <1>1, <1>2, <1>3 DEF Init, Accounts, BatchesAccounted, AttemptsCounted

\* What a step of a run does to the counts: a run that is concluded counts its
\* failures, and they are held by no other run and not in the list.
LEMMA CountedUp ==
    ASSUME Places, NEW r \in runs, Conclude(r)
    PROVE  /\ \A i \in Invocations \ r.failed : retryCount'[i] = retryCount[i]
           /\ \A i \in r.failed : retryCount'[i] = IF Counted
                                                   THEN retryCount[i] + 1
                                                   ELSE retryCount[i]
           /\ \A s \in runs \ {r} : r.failed \cap Held(s) = {}
           /\ r.failed \cap ToSet(pending) = {}
           /\ r.failed \subseteq Invocations
           /\ Held(r) = r.failed
           /\ Again(r) \subseteq r.failed
<1>1. r.failed \subseteq Invocations /\ r.open = {}
  BY DEF Places, TypeOK, Run, Conclude
<1>2. /\ \A i \in Invocations \ r.failed : retryCount'[i] = retryCount[i]
      /\ \A i \in r.failed : retryCount'[i] = IF Counted
                                              THEN retryCount[i] + 1
                                              ELSE retryCount[i]
  BY <1>1 DEF Conclude, CountUp
<1> QED
  BY <1>1, <1>2 DEF Places, OnePlace, Held, Again

\* The batches stay accounted for.
LEMMA BatchesAccountedStep ==
    ASSUME Accounts, [Next]_vars
    PROVE  BatchesAccounted'
<1> USE DEF Accounts, BatchesAccounted
<1>1. TypeOK /\ OnePlace
  BY DEF Places
<1>2. \A i \in Invocations : executed[i] \in Nat /\ retryCount[i] \in Nat
  BY <1>1 DEF TypeOK
<1>3. /\ \A r \in runs : Held(r) \subseteq Invocations
      /\ \A r \in runs : ToSet(r.batch) \subseteq Invocations
      /\ accepted \subseteq Invocations
  BY <1>1, ElementsOfList DEF TypeOK, Run, Held
<1>4. CASE Tick \/ Subscribe \/ Unsubscribe \/ Restart \/ UNCHANGED vars
  BY <1>4
  DEF Tick, Subscribe, Unsubscribe, Restart, vars, outcomeVars, Held
<1>5. CASE Load
  <2>1. \A r \in runs : Held(r) = {}
    BY <1>5 DEF Load, Places, NothingCalledYet
  <2>2. \A i \in Invocations : retryCount'[i] <= executed[i]
    BY <1>2, <1>5 DEF Load
  <2> QED
    BY <1>5, <2>1, <2>2 DEF Load, outcomeVars, Held
<1>6. ASSUME NEW i \in Invocations, NEW t \in 1..MaxTime, Schedule(i, t)
      PROVE  BatchesAccounted'
  BY <1>6 DEF Schedule, outcomeVars, Held
<1>7. ASSUME NEW i \in Invocations, Saved(i) PROVE BatchesAccounted'
  BY <1>7 DEF Saved, Held
<1>8. CASE Fire
  <2>1. CASE Wait
    BY <1>8, <2>1 DEF Fire, Wait, Held
  <2>2. CASE Take
    <3>1. PICK n \in Run : /\ runs' = runs \cup {n}
                           /\ n.batch = Batch
                           /\ n.open = Called
                           /\ n.failed = {}
                           /\ n.phase = "execute"
      BY <1>1, <2>2, Taken
    <3>2. Called \subseteq ToSet(Batch) /\ ToSet(Batch) \subseteq Invocations
      BY <1>1, <2>2, Taken
    <3>3. /\ missed' = missed \cup (ToSet(Batch) \ Called)
          /\ \A i \in Called : executed'[i] = executed[i] + 1
          /\ \A i \in Invocations \ Called : executed'[i] = executed[i]
      BY <2>2, <3>2 DEF Take, Batch, Called
    <3>4. \A i \in Invocations : executed[i] <= executed'[i]
      BY <1>2, <3>3
    <3>5. UNCHANGED <<retryCount, fulfilled, accepted, storage>>
      BY <1>8 DEF Fire
    <3>6. Held(n) = Called
      BY <3>1 DEF Held
    <3>7. \A i \in Called : retryCount[i] < executed'[i]
      BY <1>2, <3>2, <3>3
    <3>8. \A i \in Invocations : executed'[i] \in Nat
      BY <1>2, <3>2, <3>3
    <3>9. \A i \in Invocations :
             /\ retryCount[i] < executed[i] => retryCount[i] < executed'[i]
             /\ retryCount[i] <= executed'[i]
             /\ Counted /\ executed[i] > RetryLimit => executed'[i] > RetryLimit
      BY <1>2, <3>4, <3>8 DEF Counted
    <3>10. \A r \in runs' : \A i \in Held(r) : retryCount[i] < executed'[i]
      BY <1>3, <3>1, <3>6, <3>7, <3>9
    <3>11. \A r \in runs' : r.phase = "execute" =>
              ToSet(r.batch) \subseteq Held(r) \cup fulfilled \cup missed'
      BY <3>1, <3>3, <3>6
    <3>12. \A r \in runs' : r.phase = "delete" =>
              \A i \in ToSet(r.batch) :
                 \/ i \in fulfilled \cup missed'
                 \/ Counted /\ executed'[i] > RetryLimit
      BY <1>3, <3>1, <3>3, <3>9
    <3>13. \A i \in accepted \ storage :
              \/ i \in fulfilled \cup missed'
              \/ Counted /\ executed'[i] > RetryLimit
      BY <1>3, <3>3, <3>9
    <3> QED
      BY <3>5, <3>9, <3>10, <3>11, <3>12, <3>13 DEF Held
  <2> QED
    BY <1>8, <2>1, <2>2 DEF Fire
<1>9. ASSUME NEW r \in runs, NEW i \in r.open, Fulfil(r, i) \/ Reject(r, i)
      PROVE  BatchesAccounted'
  <2>1. PICK n \in Run : /\ runs' = (runs \ {r}) \cup {n}
                         /\ n.batch = r.batch
                         /\ n.open = r.open \ {i}
                         /\ \/ Fulfil(r, i) /\ n.failed = r.failed
                            \/ Reject(r, i) /\ n.failed = r.failed \cup {i}
                         /\ n.phase = r.phase
    BY <1>1, <1>9, SettledOne
  <2>2. /\ UNCHANGED <<retryCount, executed, accepted, storage, missed>>
        /\ fulfilled \subseteq fulfilled'
        /\ Fulfil(r, i) => i \in fulfilled'
    BY <1>9 DEF Fulfil, Reject, outcomeVars
  <2>3. /\ Held(n) \subseteq Held(r)
        /\ Held(r) \subseteq Held(n) \cup fulfilled'
    BY <2>1, <2>2 DEF Held
  <2> QED
    BY <2>1, <2>2, <2>3 DEF Held
<1>10. ASSUME NEW r \in runs, Conclude(r) PROVE BatchesAccounted'
  <2>1. PICK n \in Run : /\ runs' = (runs \ {r}) \cup {n}
                         /\ ToSet(n.batch) = ToSet(r.batch) \ Again(r)
                         /\ n.open = {}
                         /\ n.failed = {}
                         /\ n.phase = "delete"
    BY <1>1, <1>10, Concluded
  <2>2. UNCHANGED <<executed, accepted, storage, missed, fulfilled>>
    BY <1>10 DEF Conclude, outcomeVars
  <2>3. \A i \in ToSet(r.batch) \ Again(r) :
           \/ i \in fulfilled \cup missed
           \/ Counted /\ executed[i] > RetryLimit
    <3> SUFFICES ASSUME NEW i \in ToSet(r.batch), i \notin Again(r),
                        i \notin fulfilled \cup missed
                 PROVE  Counted /\ executed[i] > RetryLimit
      OBVIOUS
    <3>1. i \in Held(r) /\ i \in r.failed
      BY <1>10 DEF Conclude, Held
    <3>2. Counted /\ retryCount[i] >= RetryLimit
      BY <3>1 DEF Again, GivenUp
    <3>3. retryCount[i] < executed[i] /\ i \in Invocations
      BY <1>3, <3>1
    <3> QED
      BY <1>2, <3>2, <3>3 DEF Counted
  <2>4. /\ \A i \in Invocations \ r.failed : retryCount'[i] = retryCount[i]
        /\ \A i \in r.failed : retryCount'[i] \in
             {retryCount[i], retryCount[i] + 1}
        /\ \A s \in runs \ {r} : r.failed \cap Held(s) = {}
        /\ r.failed \subseteq Held(r)
    BY <1>10, CountedUp
  <2>5. \A i \in Invocations : retryCount'[i] <= executed[i]
    BY <1>2, <1>3, <2>4
  <2>6. \A s \in runs \ {r} : \A i \in Held(s) : retryCount'[i] < executed[i]
    BY <1>3, <2>4
  <2>7. Held(n) = {}
    BY <2>1 DEF Held
  <2> QED
    BY <2>1, <2>2, <2>3, <2>5, <2>6, <2>7 DEF Held
<1>11. ASSUME NEW r \in runs, Deleted(r) PROVE BatchesAccounted'
  BY <1>11 DEF Deleted, outcomeVars, Held
<1> QED
  BY <1>4, <1>5, <1>6, <1>7, <1>8, <1>9, <1>10, <1>11 DEF Next, Invoke

\* A process executes an invocation no more often than it may retry it, once
\* more.
LEMMA AttemptsCountedStep ==
    ASSUME Accounts, RetryLimit # Unlimited, TypeOK', [Next]_vars
    PROVE  AttemptsCounted'
<1> USE DEF Accounts, AttemptsCounted
<1>1. TypeOK /\ OnePlace
  BY DEF Places
<1>2. /\ Attempts \in Nat \ {0}
      /\ Counted => Attempts = RetryLimit + 1
      /\ ~Counted => Attempts = 1
      /\ restarts * Attempts \in Nat
      /\ (restarts + 1) * Attempts = restarts * Attempts + Attempts
      /\ \A i \in Invocations : Spent(i) \in Int
  BY <1>1, SpentFacts
<1>3. \A i \in Invocations : executed[i] \in Nat /\ retryCount[i] \in Nat
  BY <1>1 DEF TypeOK
<1>4. /\ ToSet(pending) \subseteq Invocations
      /\ storage \subseteq Invocations
      /\ \A r \in runs : Held(r) \subseteq Invocations
  BY <1>1, ElementsOfList DEF TypeOK, Run, Held
<1> HIDE DEF Attempts
<1>5. CASE Tick \/ Subscribe \/ Unsubscribe \/ UNCHANGED vars
  BY <1>5
  DEF Tick, Subscribe, Unsubscribe, vars, boundVars, outcomeVars, Spent, Held,
      Attempts
<1>6. CASE Load
  <2>1. ToSet(pending') \subseteq storage
    BY <1>1, <1>6, Loaded
  <2>2. /\ runs' = runs /\ mode' = "subscribed" /\ mode = "loading"
        /\ \A i \in Invocations : Spent(i)' = Spent(i)
        /\ \A i \in Invocations : retryCount'[i] =
             (IF i \in storage THEN 0 ELSE retryCount[i])
    BY <1>6 DEF Load, boundVars, Spent, Attempts
  <2>3. \A r \in runs : Held(r) = {}
    BY <2>2 DEF Places, NothingCalledYet
  <2>4. \A i \in Invocations : Spent(i) <= 0
    BY <2>2
  <2>5. Attempts' = Attempts
    BY DEF Attempts
  <2> QED
    BY <1>2, <1>3, <1>4, <2>1, <2>2, <2>3, <2>4, <2>5 DEF Held
<1>7. CASE Restart
  <2>1. /\ \A i \in Invocations : Spent(i)' = Spent(i) - Attempts
        /\ retryCount' = retryCount
    <3>1. restarts' = restarts + 1 /\ executed' = executed
          /\ retryCount' = retryCount
      BY <1>7 DEF Restart
    <3>2. Attempts' = Attempts
      BY DEF Attempts
    <3> QED
      BY <1>2, <1>3, <3>1, <3>2 DEF Spent
  <2>2. ToSet(pending') = {} /\ runs' = {}
    BY <1>7 DEF Restart, ToSet
  <2>3. \A i \in Invocations : Spent(i)' <= 0 /\ Spent(i)' <= Attempts
    BY <1>2, <2>1
  <2>4. Attempts' = Attempts
    BY DEF Attempts
  <2> QED
    BY <2>1, <2>2, <2>3, <2>4
<1>8. ASSUME NEW i \in Invocations, NEW t \in 1..MaxTime, Schedule(i, t)
      PROVE  AttemptsCounted'
  <2>1. ToSet(pending') = ToSet(pending) \cup {i}
    BY <1>1, <1>8, Inserted
  <2>2. /\ UNCHANGED <<mode, runs, retryCount>>
        /\ \A j \in Invocations : Spent(j)' = Spent(j)
        /\ executeAt[i] = 0
    BY <1>8 DEF Schedule, boundVars, Spent, Attempts
  <2>3. executed[i] = 0 /\ retryCount[i] = 0
    BY <2>2 DEF Places, OnlyScheduled
  <2>4. Spent(i) <= 0
    BY <1>2, <2>3 DEF Spent
  <2>5. Attempts' = Attempts
    BY DEF Attempts
  <2> QED
    BY <1>2, <1>4, <2>1, <2>2, <2>3, <2>4, <2>5 DEF Held
<1>9. ASSUME NEW i \in Invocations, Saved(i) PROVE AttemptsCounted'
  BY <1>9 DEF Saved, boundVars, Spent, Held, Attempts
<1>10. CASE Fire
  <2>1. CASE Wait
    BY <1>10, <2>1 DEF Fire, Wait, boundVars, Spent, Held, Attempts
  <2>2. CASE Take
    <3>1. /\ ToSet(pending) = ToSet(Batch) \cup ToSet(pending')
          /\ ToSet(Batch) \cap ToSet(pending') = {}
          /\ Called \subseteq ToSet(Batch)
      BY <1>1, <2>2, Taken DEF OnePlace
    <3>2. PICK n \in Run : /\ runs' = runs \cup {n}
                           /\ n.open = Called
                           /\ n.failed = {}
      BY <1>1, <2>2, Taken
    <3>3. UNCHANGED <<mode, retryCount, restarts>> /\ Attempts' = Attempts
      BY <1>10 DEF Fire, boundVars, Attempts
    <3>4. /\ \A i \in Called : Spent(i)' = Spent(i) + 1
          /\ \A i \in Invocations \ Called : Spent(i)' = Spent(i)
      <4>1. \A i \in Invocations : executed'[i] = IF i \in Called
                                                  THEN executed[i] + 1
                                                  ELSE executed[i]
        BY <2>2 DEF Take, Called, Batch
      <4> QED
        BY <1>2, <1>3, <1>4, <3>1, <3>3, <4>1 DEF Spent
    <3>5. \A i \in Called : /\ i \in Invocations
                            /\ Spent(i) <= retryCount[i]
                            /\ retryCount[i] < Attempts
      BY <1>4, <3>1
    <3>6. \A i \in Called : Spent(i)' <= retryCount[i] + 1
                            /\ Spent(i)' <= Attempts
      BY <1>2, <1>3, <3>4, <3>5
    <3>7. \A r \in runs : Held(r) \cap Called = {}
      BY <1>1, <3>1 DEF OnePlace
    <3>8. Held(n) = Called
      BY <3>2 DEF Held
    <3>9. \A r \in runs' : \A i \in Held(r) : /\ Spent(i)' <= retryCount[i] + 1
                                              /\ retryCount[i] < Attempts
      <4>1. ASSUME NEW r \in runs, NEW i \in Held(r)
            PROVE  Spent(i)' <= retryCount[i] + 1 /\ retryCount[i] < Attempts
        BY <1>4, <3>4, <3>7
      <4> QED
        BY <3>2, <3>5, <3>6, <3>8, <4>1
    <3>10. \A i \in ToSet(pending') : /\ Spent(i)' <= retryCount[i]
                                      /\ retryCount[i] < Attempts
      BY <1>4, <3>1, <3>4
    <3>11. \A i \in Invocations : Spent(i)' <= Attempts
      BY <3>4, <3>6
    <3>12. mode \in {"created", "loading"} => Called = {}
      BY DEF Called
    <3> QED
      BY <3>3, <3>4, <3>9, <3>10, <3>11, <3>12 DEF Held
  <2> QED
    BY <1>10, <2>1, <2>2 DEF Fire
<1>11. ASSUME NEW r \in runs, NEW i \in r.open, Fulfil(r, i) \/ Reject(r, i)
       PROVE  AttemptsCounted'
  <2>1. PICK n \in Run : /\ runs' = (runs \ {r}) \cup {n}
                         /\ n.open = r.open \ {i}
                         /\ \/ n.failed = r.failed
                            \/ n.failed = r.failed \cup {i}
    BY <1>1, <1>11, SettledOne
  <2>2. UNCHANGED <<retryCount, executed, mode, pending, restarts>>
    BY <1>11 DEF Fulfil, Reject, boundVars
  <2>3. Held(n) \subseteq Held(r)
    BY <2>1 DEF Held
  <2> QED
    BY <2>1, <2>2, <2>3 DEF Held, Spent, Attempts
<1>12. ASSUME NEW r \in runs, Conclude(r) PROVE AttemptsCounted'
  <2>1. PICK n \in Run : /\ runs' = (runs \ {r}) \cup {n}
                         /\ n.open = {}
                         /\ n.failed = {}
    BY <1>1, <1>12, Concluded
  <2>2. /\ UNCHANGED <<executed, mode, restarts>>
        /\ \A i \in Invocations : Spent(i)' = Spent(i)
        /\ Attempts' = Attempts
    BY <1>12 DEF Conclude, boundVars, Spent, Attempts
  <2>3. /\ \A i \in Invocations \ r.failed : retryCount'[i] = retryCount[i]
        /\ \A i \in r.failed : retryCount'[i] = IF Counted
                                                THEN retryCount[i] + 1
                                                ELSE retryCount[i]
        /\ \A s \in runs \ {r} : r.failed \cap Held(s) = {}
        /\ r.failed \cap ToSet(pending) = {}
        /\ r.failed \subseteq Invocations
        /\ Held(r) = r.failed
        /\ Again(r) \subseteq r.failed
    BY <1>12, CountedUp
  <2>4. ToSet(pending') \subseteq IF Retries THEN Again(r) \cup ToSet(pending)
                                  ELSE ToSet(pending)
    BY <1>1, <1>12, Concluded
  <2>5. ASSUME Retries, NEW i \in Again(r)
        PROVE  Spent(i) <= retryCount'[i] /\ retryCount'[i] < Attempts
    <3>1. Counted
      BY <2>5, LocalSchedulerAssumption DEF Retries, Counted, NoRetry, Unlimited
    <3>2. ~ (retryCount[i] >= RetryLimit) /\ i \in r.failed /\ i \in Invocations
      BY <2>3, <3>1 DEF Again, GivenUp
    <3>3. retryCount'[i] = retryCount[i] + 1 /\ Spent(i) <= retryCount[i] + 1
      BY <2>3, <3>1, <3>2
    <3> QED
      BY <1>2, <1>3, <3>1, <3>2, <3>3 DEF Counted
  <2>6. \A i \in ToSet(pending') : /\ Spent(i) <= retryCount'[i]
                                   /\ retryCount'[i] < Attempts
    BY <1>4, <2>3, <2>4, <2>5
  <2>7. \A s \in runs \ {r} : \A i \in Held(s) : retryCount'[i] = retryCount[i]
    BY <1>4, <2>3
  <2>8. ~Counted => \A i \in Invocations : retryCount'[i] = 0
    BY <2>3
  <2>9. Held(n) = {}
    BY <2>1 DEF Held
  <2>10. \A i \in ToSet(pending') : i \in Invocations
    BY <1>4, <2>3, <2>4
  <2> QED
    BY <1>4, <2>1, <2>2, <2>6, <2>7, <2>8, <2>9, <2>10 DEF Held
<1>13. ASSUME NEW r \in runs, Deleted(r) PROVE AttemptsCounted'
  BY <1>13 DEF Deleted, boundVars, Held, Spent, Attempts
<1> QED
  BY <1>5, <1>6, <1>7, <1>8, <1>9, <1>10, <1>11, <1>12, <1>13
  DEF Next, Invoke

\* Every step keeps the invariant.
LEMMA AccountsStep == Accounts /\ [Next]_vars => Accounts'
<1> SUFFICES ASSUME Accounts, [Next]_vars PROVE Accounts'
  OBVIOUS
<1>1. Places' /\ TypeOK'
  BY PlacesStep DEF Accounts, Places
<1> QED
  BY <1>1, BatchesAccountedStep, AttemptsCountedStep DEF Accounts

\* The storage forgets an invocation it has taken only when its callback has
\* fulfilled, or has failed once more than it may be retried, or nobody was
\* subscribed; and a process executes it no more often than that.
THEOREM NothingIsForgottenUntried == Spec => []TriedBeforeForgotten
<1>1. Spec => []Accounts
  BY AccountsInit, AccountsStep, PTL DEF Spec
<1>2. Accounts => TriedBeforeForgotten
  <2> SUFFICES ASSUME Accounts PROVE TriedBeforeForgotten
    OBVIOUS
  <2>1. TypeOK
    BY DEF Accounts, Places
  <2>2. ASSUME RetryLimit # Unlimited, NEW i \in Invocations
        PROVE  executed[i] <= (restarts + 1) * (Greater(RetryLimit, 0) + 1)
    <3>1. Spent(i) <= Attempts
      BY <2>2 DEF Accounts, AttemptsCounted
    <3>2. /\ Attempts \in Nat
          /\ restarts * Attempts \in Nat
          /\ (restarts + 1) * Attempts = restarts * Attempts + Attempts
          /\ executed[i] \in Nat
      BY <2>1, SpentFacts DEF TypeOK
    <3>3. executed[i] <= restarts * Attempts + Attempts
      BY <3>1, <3>2 DEF Spent
    <3> QED
      BY <3>2, <3>3 DEF Attempts
  <2> QED
    BY <2>2 DEF Accounts, BatchesAccounted, TriedBeforeForgotten
<1> QED
  BY <1>1, <1>2, PTL
-----------------------------------------------------------------------------
(* What the list, the storage and the runs implement. *)

\* The invocations whose callback has settled.
Settled == fulfilled \cup rejected

\* What a run is done with, although it is still in its batch.
Over(r) == ToSet(r.batch) \ Held(r)

\* What the storage or a run is done with.
Finished == (accepted \ storage) \cup UNION {Over(r) : r \in runs}

\* What is taken by the storage was scheduled, and is saved once.
SavedOnce == /\ \A i \in accepted : executeAt[i] # 0
             /\ saving \cap accepted = {}

\* What has settled was executed, and what is done with has settled or was
\* missed; a run that deletes its batch holds nothing of it.
FinishedHasSettled ==
    /\ \A i \in Settled : executed[i] > 0
    /\ \A r \in runs : /\ r.failed \subseteq rejected
                       /\ r.phase = "delete" => Held(r) = {}
    /\ Finished \subseteq Settled \cup missed

\* What is done with is nowhere to be executed from, unless it was missed: that
\* is still in the storage and may be loaded.
FinishedIsGone ==
    /\ \A i \in Finished \ missed : /\ i \notin ToSet(pending)
                                    /\ \A r \in runs : i \notin Held(r)
    /\ mode \in {"created", "loading"} =>
         \A r \in runs : ToSet(r.batch) \subseteq missed

\* The inductive invariant behind DeferredSpec.
Finality == /\ Accounts
            /\ SavedOnce
            /\ FinishedHasSettled
            /\ FinishedIsGone

\* The initial states satisfy it.
LEMMA FinalityInit == Init => Finality
<1> SUFFICES ASSUME Init PROVE Finality
  OBVIOUS
<1>1. Accounts
  BY AccountsInit
<1>2. Finished = {} /\ Settled = {}
  BY DEF Init, Finished, Settled
<1> QED
  BY <1>1, <1>2
  DEF Init, Finality, SavedOnce, FinishedHasSettled, FinishedIsGone

\* What is accepted was scheduled and is saved no more.
LEMMA SavedOnceStep ==
    ASSUME Finality, [Next]_vars
    PROVE  SavedOnce'
<1> USE DEF Finality, SavedOnce
<1>1. TypeOK /\ OnlyScheduled
  BY DEF Accounts, Places
<1>2. CASE UNCHANGED <<executeAt, saving, accepted>>
  BY <1>2
<1>3. CASE Restart
  BY <1>3 DEF Restart, outcomeVars
<1>4. ASSUME NEW i \in Invocations, NEW t \in 1..MaxTime, Schedule(i, t)
      PROVE  SavedOnce'
  <2>1. /\ executeAt[i] = 0 /\ saving' = saving \cup {i}
        /\ accepted' = accepted
        /\ \A j \in Invocations :
             executeAt'[j] = (IF j = i THEN t ELSE executeAt[j])
    BY <1>1, <1>4 DEF Schedule, TypeOK, outcomeVars
  <2>2. accepted \subseteq Invocations /\ t # 0
    BY <1>1 DEF TypeOK
  <2> QED
    BY <2>1, <2>2
<1>5. ASSUME NEW i \in Invocations, Saved(i) PROVE SavedOnce'
  BY <1>1, <1>5 DEF Saved, OnlyScheduled
<1> QED
  BY <1>2, <1>3, <1>4, <1>5
  DEF Next, Invoke, Tick, Subscribe, Load, Unsubscribe, Fire, Wait, Take,
      Fulfil, Reject, Conclude, Deleted, outcomeVars, vars

\* What a step does to the runs, for what they are done with.
LEMMA FinishedOf ==
    ASSUME NEW i
    PROVE  i \in Finished <=> \/ i \in accepted \ storage
                              \/ \E r \in runs : i \in Over(r)
  BY DEF Finished

\* The same of the next state.
LEMMA FinishedNext ==
    \A i : i \in Finished' <=> \/ i \in accepted' \ storage'
                               \/ \E r \in runs' : i \in Over(r)
  BY DEF Finished, Over, Held

\* A run is replaced by one that is done with what it was done with and with D.
LEMMA RunReplaced ==
    ASSUME NEW r \in runs, NEW n, NEW D,
           runs' = (runs \ {r}) \cup {n},
           Over(n) = Over(r) \cup D,
           UNCHANGED <<accepted, storage>>
    PROVE  Finished' = Finished \cup D
  BY FinishedOf, FinishedNext

\* What is done with has settled, and is gone, after every step.
LEMMA FinishedStep ==
    ASSUME Finality, [Next]_vars
    PROVE  FinishedHasSettled' /\ FinishedIsGone'
<1> USE DEF Finality, FinishedHasSettled, FinishedIsGone
<1> DEFINE Goal == FinishedHasSettled' /\ FinishedIsGone'
<1>1. /\ TypeOK /\ OnlyScheduled /\ OnePlace /\ NothingCalledYet
      /\ Places /\ BatchesAccounted
  BY DEF Accounts, Places
<1>2. /\ \A r \in runs : Held(r) \subseteq Invocations
      /\ \A i \in Invocations : executed[i] \in Nat
      /\ Settled \subseteq Invocations
  BY <1>1 DEF TypeOK, Run, Held, Settled
<1>3. \A r \in runs : \A i \in Held(r) : executed[i] > 0
  <2>1. \A i \in Invocations : retryCount[i] \in Nat
    BY <1>1 DEF TypeOK
  <2> QED
    BY <1>1, <1>2, <2>1 DEF BatchesAccounted
<1>4. \A i \in Finished : executeAt[i] # 0
  BY <1>1, FinishedOf DEF SavedOnce, OnlyScheduled, Over
<1>5. ASSUME UNCHANGED <<runs, accepted, storage>>
      PROVE  /\ Finished' = Finished
             /\ \A r \in runs' : Held(r)' = Held(r) /\ r \in runs
  <2>1. Finished' = Finished
    BY <1>5, FinishedOf, FinishedNext
  <2> QED
    BY <1>5, <2>1 DEF Held
<1>6. ASSUME UNCHANGED <<runs, accepted, storage, fulfilled, rejected, missed,
                         executed>>,
             mode' \in {"created", "loading"} => mode \in {"created", "loading"},
             \A i \in Finished \ missed : i \notin ToSet(pending')
      PROVE  Goal
  <2>1. Finished' = Finished /\ \A r \in runs' : Held(r)' = Held(r)
    BY <1>5, <1>6
  <2>2. Settled' = Settled
    BY <1>6 DEF Settled
  <2> QED
    BY <1>6, <2>1, <2>2 DEF Held
<1>7. CASE Tick \/ Subscribe \/ Unsubscribe \/ UNCHANGED vars
  BY <1>6, <1>7 DEF Tick, Subscribe, Unsubscribe, vars, outcomeVars
<1>8. CASE Load
  <2>1. ToSet(pending') \subseteq storage
    BY <1>1, <1>8, Loaded
  <2>2. \A i \in Finished \ missed : i \notin storage
    BY <1>8, FinishedOf DEF Load, Over
  <2> QED
    BY <1>6, <1>8, <2>1, <2>2 DEF Load, outcomeVars
<1>9. CASE Restart
  <2>1. /\ runs' = {} /\ ToSet(pending') = {}
        /\ UNCHANGED <<accepted, storage, fulfilled, rejected, missed, executed>>
    BY <1>9 DEF Restart, outcomeVars, ToSet
  <2>2. Finished' \subseteq Finished /\ Settled' = Settled
    BY <2>1, FinishedOf, FinishedNext DEF Settled
  <2> QED
    BY <2>1, <2>2
<1>10. ASSUME NEW i \in Invocations, NEW t \in 1..MaxTime, Schedule(i, t)
       PROVE  Goal
  <2>1. ToSet(pending') = ToSet(pending) \cup {i} /\ executeAt[i] = 0
    BY <1>1, <1>10, Inserted DEF Schedule
  <2>2. \A j \in Finished \ missed : j \notin ToSet(pending')
    BY <1>4, <2>1
  <2> QED
    BY <1>6, <1>10, <2>2 DEF Schedule, outcomeVars
<1>11. ASSUME NEW i \in Invocations, Saved(i) PROVE Goal
  <2>1. /\ UNCHANGED <<runs, fulfilled, rejected, missed, executed, mode,
                       pending>>
        /\ accepted' \ storage' \subseteq accepted \ storage
    BY <1>11 DEF Saved
  <2>2. Finished' \subseteq Finished /\ Settled' = Settled
    BY <2>1, FinishedOf, FinishedNext DEF Settled
  <2> QED
    BY <2>1, <2>2 DEF Held
<1>12. CASE Fire
  <2>1. UNCHANGED <<accepted, storage, fulfilled, rejected, mode>>
    BY <1>12 DEF Fire
  <2>2. CASE Wait
    BY <1>6, <2>1, <2>2 DEF Wait
  <2>3. CASE Take
    <3>1. PICK n \in Run : /\ runs' = runs \cup {n}
                           /\ n.batch = Batch
                           /\ n.open = Called
                           /\ n.failed = {}
                           /\ n.phase = "execute"
      BY <1>1, <2>3, Taken
    <3>2. /\ ToSet(pending) = ToSet(Batch) \cup ToSet(pending')
          /\ Called \subseteq ToSet(Batch)
          /\ ToSet(Batch) \subseteq Invocations
      BY <1>1, <2>3, Taken
    <3>3. /\ missed' = missed \cup (ToSet(Batch) \ Called)
          /\ \A i \in Invocations : executed'[i] = IF i \in Called
                                                   THEN executed[i] + 1
                                                   ELSE executed[i]
      BY <2>3 DEF Take, Batch, Called
    <3>4. Held(n) = Called /\ Over(n) = ToSet(Batch) \ Called
      BY <3>1 DEF Held, Over
    <3>5. Finished' = Finished \cup (ToSet(Batch) \ Called)
      BY <2>1, <3>1, <3>4, FinishedOf, FinishedNext
    <3>6. Settled' = Settled
      BY <2>1 DEF Settled
    <3>7. \A i \in Settled : executed'[i] > 0
      BY <1>2, <3>3
    <3>8. FinishedHasSettled'
      BY <2>1, <3>1, <3>3, <3>4, <3>5, <3>6, <3>7 DEF Held
    <3>9. ASSUME NEW i \in Finished' \ missed'
          PROVE  i \notin ToSet(pending') /\ \A r \in runs' : i \notin Held(r)
      <4>1. i \in Finished \ missed
        BY <3>3, <3>5
      <4> QED
        BY <3>1, <3>2, <3>4, <4>1
    <3>10. ASSUME mode \in {"created", "loading"}, NEW r \in runs'
           PROVE  ToSet(r.batch) \subseteq missed'
      <4>1. Called = {}
        BY <3>10 DEF Called
      <4> QED
        BY <3>1, <3>3, <3>10, <4>1
    <3> QED
      BY <2>1, <3>8, <3>9, <3>10 DEF Held
  <2> QED
    BY <1>12, <2>2, <2>3 DEF Fire
<1>13. ASSUME NEW r \in runs, NEW i \in r.open, Fulfil(r, i) \/ Reject(r, i)
       PROVE  Goal
  <2>1. PICK n \in Run : /\ runs' = (runs \ {r}) \cup {n}
                         /\ n.batch = r.batch
                         /\ n.open = r.open \ {i}
                         /\ \/ Fulfil(r, i) /\ n.failed = r.failed
                            \/ Reject(r, i) /\ n.failed = r.failed \cup {i}
                         /\ n.phase = r.phase
    BY <1>1, <1>13, SettledOne
  <2>2. /\ UNCHANGED <<accepted, storage, missed, executed, mode, pending>>
        /\ Settled' = Settled \cup {i}
        /\ rejected \subseteq rejected'
        /\ Reject(r, i) => i \in rejected'
    BY <1>13 DEF Fulfil, Reject, Settled
  <2>3. /\ i \in Held(r) /\ i \in ToSet(r.batch)
        /\ Held(n) \subseteq Held(r)
        /\ r.open \cap r.failed = {}
    BY <1>1, <2>1 DEF OnePlace, Held
  <2>4. \E D \in SUBSET {i} : /\ Over(n) = Over(r) \cup D
                              /\ D \cap Held(n) = {}
    <3>1. CASE n.failed = r.failed
      <4>1. Over(n) = Over(r) \cup {i} /\ i \notin Held(n)
        BY <2>1, <2>3, <3>1 DEF Over, Held
      <4>2. {i} \in SUBSET {i} /\ {i} \cap Held(n) = {}
        BY <4>1
      <4> QED
        BY <4>1, <4>2
    <3>2. CASE n.failed = r.failed \cup {i}
      <4>1. Over(n) = Over(r)
        BY <2>1, <2>3, <3>2 DEF Over, Held
      <4>2. {} \in SUBSET {i} /\ Over(n) = Over(r) \cup {}
            /\ {} \cap Held(n) = {}
        BY <4>1
      <4> QED
        BY <4>2
    <3> QED
      BY <2>1, <3>1, <3>2
  <2>5. PICK D \in SUBSET {i} : /\ Over(n) = Over(r) \cup D
                                /\ D \cap Held(n) = {}
    BY <2>4
  <2>6. Finished' = Finished \cup D
    BY <2>1, <2>2, <2>5, RunReplaced
  <2>7. \A j \in Settled' : executed'[j] > 0
    BY <1>3, <2>2, <2>3
  <2>8. n.failed \subseteq rejected' /\ (n.phase = "delete" => Held(n) = {})
    BY <2>1, <2>2, <2>3
  <2>9. FinishedHasSettled'
    BY <2>1, <2>2, <2>5, <2>6, <2>7, <2>8 DEF Held
  <2>10. \A s \in runs \ {r} : i \notin Held(s)
    BY <1>1, <2>3 DEF OnePlace
  <2>11. i \notin ToSet(pending)
    BY <1>1, <2>3 DEF OnePlace
  <2>12. ASSUME NEW j \in Finished' \ missed'
         PROVE  j \notin ToSet(pending') /\ \A s \in runs' : j \notin Held(s)
    <3>1. CASE j \in Finished
      BY <2>1, <2>2, <2>3, <2>12, <3>1
    <3>2. CASE j \in D
      BY <2>1, <2>2, <2>5, <2>10, <2>11, <3>2
    <3> QED
      BY <2>6, <3>1, <3>2
  <2>13. mode' \in {"created", "loading"} =>
           \A s \in runs' : ToSet(s.batch) \subseteq missed'
    BY <2>1, <2>2
  <2> QED
    BY <2>9, <2>12, <2>13 DEF Held
<1>14. ASSUME NEW r \in runs, Conclude(r) PROVE Goal
  <2>1. PICK n \in Run : /\ runs' = (runs \ {r}) \cup {n}
                         /\ ToSet(n.batch) = ToSet(r.batch) \ Again(r)
                         /\ n.open = {}
                         /\ n.failed = {}
                         /\ n.phase = "delete"
    BY <1>1, <1>14, Concluded
  <2>2. /\ UNCHANGED <<accepted, storage, fulfilled, rejected, missed,
                       executed, mode>>
        /\ Settled' = Settled
    BY <1>14 DEF Conclude, outcomeVars, Settled
  <2>3. /\ Held(r) = r.failed /\ Again(r) \subseteq r.failed
        /\ \A s \in runs \ {r} : r.failed \cap Held(s) = {}
        /\ r.failed \cap ToSet(pending) = {}
        /\ r.failed \subseteq ToSet(r.batch)
    BY <1>1, <1>14, CountedUp DEF OnePlace
  <2> DEFINE D == r.failed \ Again(r)
  <2>4. Held(n) = {} /\ Over(n) = Over(r) \cup D
    BY <2>1, <2>3 DEF Over, Held
  <2>5. Finished' = Finished \cup D
    BY <2>1, <2>2, <2>4, RunReplaced
  <2>6. D \subseteq rejected
    OBVIOUS
  <2>7. FinishedHasSettled'
    BY <2>1, <2>2, <2>4, <2>5, <2>6 DEF Held, Settled
  <2>8. ToSet(pending') \subseteq Again(r) \cup ToSet(pending)
    BY <1>1, <1>14, Concluded
  <2>9. ASSUME NEW j \in Finished' \ missed'
        PROVE  j \notin ToSet(pending') /\ \A s \in runs' : j \notin Held(s)
    <3>1. CASE j \in Finished
      BY <2>1, <2>2, <2>3, <2>4, <2>8, <2>9, <3>1
    <3>2. CASE j \in D
      BY <2>1, <2>3, <2>4, <2>8, <3>2
    <3> QED
      BY <2>5, <3>1, <3>2
  <2>10. mode' \in {"created", "loading"} =>
           \A s \in runs' : ToSet(s.batch) \subseteq missed'
    BY <2>1, <2>2
  <2> QED
    BY <2>7, <2>9, <2>10 DEF Held
<1>15. ASSUME NEW r \in runs, Deleted(r) PROVE Goal
  <2>1. /\ runs' = runs \ {r} /\ storage' = storage \ ToSet(r.batch)
        /\ UNCHANGED <<accepted, fulfilled, rejected, missed, executed, mode,
                       pending>>
        /\ r.phase = "delete"
    BY <1>15 DEF Deleted, outcomeVars
  <2>2. Over(r) = ToSet(r.batch)
    BY <2>1 DEF Over
  <2>3. Finished' \subseteq Finished /\ Settled' = Settled
    BY <2>1, <2>2, FinishedOf, FinishedNext DEF Settled
  <2> QED
    BY <2>1, <2>3 DEF Held
<1> QED
  BY <1>7, <1>8, <1>9, <1>10, <1>11, <1>12, <1>13, <1>14, <1>15
  DEF Next, Invoke

\* The invariant holds for every scheduler.
LEMMA FinalityInvariant == Spec => []Finality
<1>1. Finality /\ [Next]_vars => Finality'
  <2> SUFFICES ASSUME Finality, [Next]_vars PROVE Finality'
    OBVIOUS
  <2> QED
    BY AccountsStep, SavedOnceStep, FinishedStep DEF Finality
<1> QED
  BY <1>1, FinalityInit, PTL DEF Spec

\* The commands that are due: their time is past.
Ripe == {i \in Invocations : executeAt[i] \in 1..now}

\* What the storage lets go of, in any step, has settled or was missed.
LEMMA ReleaseStep ==
    ASSUME Finality, Finality', [Next]_vars
    PROVE  Deferred!Release
<1> DEFINE released == accepted \ storage
<1>1. released \subseteq released'
  <2>1. CASE UNCHANGED <<accepted, storage>>
    BY <2>1
  <2>2. ASSUME NEW i \in Invocations, Saved(i)
        PROVE  released \subseteq released'
    <3>1. i \notin accepted
      BY <2>2 DEF Saved, Finality, SavedOnce
    <3> QED
      BY <2>2, <3>1 DEF Saved
  <2>3. ASSUME NEW r \in runs, Deleted(r)
        PROVE  released \subseteq released'
    BY <2>3 DEF Deleted, outcomeVars
  <2> QED
    BY <2>1, <2>2, <2>3
    DEF Next, Invoke, Tick, Subscribe, Load, Unsubscribe, Restart, Schedule,
        Fire, Fulfil, Reject, Conclude, outcomeVars, vars
<1>2. released' \subseteq fulfilled' \cup rejected' \cup missed'
  <2>1. FinishedHasSettled'
    BY DEF Finality
  <2>2. \A i : i \in released' => i \in Finished'
    BY FinishedNext
  <2> QED
    BY <2>1, <2>2 DEF FinishedHasSettled, Settled
<1> QED
  BY <1>1, <1>2 DEF Deferred!Release

\* Every step is a step of DeferredCommands or leaves it unchanged.
LEMMA DeferredStep ==
    ASSUME Finality, Finality', [Next]_vars
    PROVE  [Deferred!Next]_Deferred!vars
<1>1. /\ TypeOK /\ OnlyScheduled /\ OnePlace
      /\ now \in Nat /\ \A i \in Invocations : executeAt[i] \in Nat
  BY DEF Finality, Accounts, Places, TypeOK, Time
<1>2. Deferred!Release
  BY ReleaseStep
<1>3. ASSUME UNCHANGED <<now, executeAt, outcomeVars, executed, storage>>,
             (mode = "subscribed")' = (mode = "subscribed")
      PROVE  UNCHANGED Deferred!vars
  BY <1>3 DEF Deferred!vars, outcomeVars
<1>4. ASSUME NEW C \in SUBSET Invocations, Ripe' = Ripe \cup C,
             UNCHANGED <<outcomeVars, executed, mode>>
      PROVE  Deferred!Next
  <2>1. Deferred!Ripen(C)
    BY <1>4 DEF Deferred!Ripen, Ripe, outcomeVars
  <2> QED
    BY <1>2, <2>1 DEF Deferred!Next
<1>5. ASSUME (mode = "subscribed")' = ~ (mode = "subscribed"),
             UNCHANGED <<now, executeAt, outcomeVars, executed>>
      PROVE  Deferred!Next
  <2>1. Deferred!Serve
    BY <1>5 DEF Deferred!Serve, outcomeVars
  <2> QED
    BY <1>2, <2>1 DEF Deferred!Next
<1>6. CASE Tick
  <2>1. now' = now + 1 /\ UNCHANGED <<executeAt, outcomeVars, executed, mode>>
    BY <1>6 DEF Tick
  <2>2. Ripe' = Ripe \cup Ripe' /\ Ripe' \in SUBSET Invocations
    BY <1>1, <2>1 DEF Ripe
  <2> QED
    BY <1>4, <2>1, <2>2
<1>7. CASE Subscribe
  BY <1>3, <1>7 DEF Subscribe
<1>8. CASE Load \/ Unsubscribe
  BY <1>5, <1>8 DEF Load, Unsubscribe
<1>9. CASE Restart
  <2>1. /\ UNCHANGED <<now, executeAt, outcomeVars, executed, storage>>
        /\ mode' # "subscribed"
    BY <1>9 DEF Restart
  <2>2. CASE mode = "subscribed"
    BY <1>5, <2>1, <2>2
  <2>3. CASE mode # "subscribed"
    BY <1>3, <2>1, <2>3
  <2> QED
    BY <2>2, <2>3
<1>10. ASSUME NEW i \in Invocations, NEW t \in 1..MaxTime, Schedule(i, t)
       PROVE  Deferred!Next
  <2>1. /\ executeAt[i] = 0
        /\ \A j \in Invocations :
             executeAt'[j] = (IF j = i THEN t ELSE executeAt[j])
        /\ UNCHANGED <<now, outcomeVars, executed, mode>>
    BY <1>1, <1>10 DEF Schedule, TypeOK
  <2>2. Ripe' = Ripe \cup Ripe' /\ Ripe' \in SUBSET Invocations
    BY <1>1, <2>1 DEF Ripe
  <2> QED
    BY <1>4, <2>1, <2>2
<1>11. ASSUME NEW i \in Invocations, Saved(i) PROVE Deferred!Next
  <2>1. Deferred!Accept(i)
    BY <1>11 DEF Saved, Deferred!Accept
  <2> QED
    BY <1>2, <2>1 DEF Deferred!Next
<1>12. CASE Fire
  <2>1. UNCHANGED <<now, executeAt, storage, mode, accepted, fulfilled,
                    rejected>>
    BY <1>12 DEF Fire
  <2>2. CASE Wait
    BY <1>3, <2>1, <2>2 DEF Wait, outcomeVars
  <2>3. CASE Take
    <3>1. /\ ToSet(Batch) \subseteq ToSet(pending)
          /\ ToSet(Batch) \subseteq Invocations
          /\ Called \subseteq ToSet(Batch)
          /\ \A i \in ToSet(Batch) : executeAt[i] <= now
      BY <1>1, <2>3, Taken
    <3>2. /\ executed' = [i \in Invocations |-> IF i \in Called
                                                THEN executed[i] + 1
                                                ELSE executed[i]]
          /\ missed' = missed \cup (ToSet(Batch) \ Called)
      BY <2>3 DEF Take, Batch, Called
    <3>3. ToSet(Batch) \subseteq Ripe
      BY <1>1, <3>1 DEF Ripe, OnlyScheduled
    <3>4. CASE mode = "subscribed"
      <4>1. Called = ToSet(Batch) /\ missed' = missed
        BY <3>2, <3>4 DEF Called
      <4>2. Called \cap (accepted \ storage) \subseteq missed
        <5>1. \A i \in accepted \ storage : i \in Finished
          BY FinishedOf
        <5> QED
          BY <3>1, <5>1 DEF Finality, FinishedIsGone
      <4>3. Deferred!Execute(Called)
        BY <2>1, <3>1, <3>2, <3>3, <3>4, <4>1, <4>2
        DEF Deferred!Execute, Ripe
      <4>4. Called \in SUBSET Invocations
        BY <3>1
      <4> QED
        BY <1>2, <4>3, <4>4 DEF Deferred!Next
    <3>5. CASE mode # "subscribed"
      <4>1. Called = {} /\ missed' = missed \cup ToSet(Batch)
        BY <3>2, <3>5 DEF Called
      <4>2. executed' = executed
        BY <1>1, <3>2, <4>1 DEF TypeOK
      <4>3. PICK C \in SUBSET Invocations : C = ToSet(Batch)
        BY <3>1
      <4>4. Deferred!Miss(C)
        BY <2>1, <3>3, <3>5, <4>1, <4>2, <4>3 DEF Deferred!Miss, Ripe
      <4> QED
        BY <1>2, <4>4 DEF Deferred!Next
    <3> QED
      BY <3>4, <3>5
  <2> QED
    BY <1>12, <2>2, <2>3 DEF Fire
<1>13. ASSUME NEW r \in runs, NEW i \in r.open, Fulfil(r, i) \/ Reject(r, i)
       PROVE  Deferred!Next
  <2>1. i \in Invocations
    BY <1>1 DEF TypeOK, Run
  <2>2. executed[i] > 0
    <3>1. /\ retryCount[i] < executed[i]
          /\ executed[i] \in Nat /\ retryCount[i] \in Nat
      BY <1>1, <2>1
      DEF Finality, Accounts, BatchesAccounted, Held, TypeOK
    <3> QED
      BY <3>1
  <2>3. (fulfilled \cup rejected)' = (fulfilled \cup rejected) \cup {i}
    BY <1>13 DEF Fulfil, Reject
  <2>4. Deferred!Answer(i)
    BY <1>13, <2>2, <2>3 DEF Fulfil, Reject, Deferred!Answer
  <2> QED
    BY <1>2, <2>1, <2>4 DEF Deferred!Next
<1>14. ASSUME NEW r \in runs, Conclude(r) PROVE UNCHANGED Deferred!vars
  BY <1>3, <1>14 DEF Conclude
<1>15. ASSUME NEW r \in runs, Deleted(r) PROVE Deferred!Next
  BY <1>4, <1>15 DEF Deleted, Ripe
<1>16. CASE UNCHANGED vars
  BY <1>3, <1>16 DEF vars, outcomeVars
<1> QED
  BY <1>6, <1>7, <1>8, <1>9, <1>10, <1>11, <1>12, <1>13, <1>14, <1>15, <1>16
  DEF Next, Invoke

\* The list, the storage, the timer and the overlapping runs of #invoke
\* implement DeferredCommands: a command is executed when it is due and not
\* before, the storage lets go of it only when its callback has settled or
\* nobody was subscribed, and what has settled and has left the storage is
\* executed no more, by a run that is still under way or by the next process.
THEOREM CommandsAreDeferred == Spec => DeferredSpec
<1>1. Init => Deferred!Init
  <2> SUFFICES ASSUME Init PROVE Deferred!Init
    OBVIOUS
  <2> QED
    BY DEF Init, Deferred!Init
<1>2. Finality /\ Finality' /\ [Next]_vars => [Deferred!Next]_Deferred!vars
  BY DeferredStep
<1> QED
  BY <1>1, <1>2, FinalityInvariant, PTL DEF Spec, DeferredSpec, Deferred!Spec
-----------------------------------------------------------------------------
(* The timer is not late. *)

\* What a run executes or may put back is due.
RunsAreDue == \A r \in runs : \A i \in Held(r) : executeAt[i] <= now

\* The list is in the order of the times, but for what is due: a run puts that
\* back in front of whatever was scheduled meanwhile.
DueInOrder ==
    \A m, n \in DOMAIN pending :
        m < n => executeAt[pending[m]] <= Greater(executeAt[pending[n]], now)

\* The timer fires by #nextInvocationAt, which is past when no timer is armed;
\* until a timer is set, nothing of the list is saved.
TimerIsNear ==
    /\ timer # Unset => timer <= Greater(nextInvocationAt, now)
    /\ timer = Unset => nextInvocationAt <= now
    /\ nextInvocationAt = 0 => /\ timer = Unset
                               /\ runs = {}
                               /\ ToSet(pending) \subseteq saving

\* #nextInvocationAt is the earliest time of what is saved.
NextIsEarliest ==
    runs = {} /\ timer # Unset =>
        \A i \in ToSet(pending) \ saving :
            nextInvocationAt <= Greater(executeAt[i], now)

\* The inductive invariant behind NotLate.
Timely == /\ Places
          /\ RunsAreDue
          /\ DueInOrder
          /\ TimerIsNear
          /\ NextIsEarliest

\* The initial states satisfy it.
LEMMA TimelyInit == Init => Timely
<1> SUFFICES ASSUME Init PROVE Timely
  OBVIOUS
<1>1. Places
  BY PlacesInit
<1>2. pending = <<>> /\ runs = {} /\ timer = Unset /\ now = 1
      /\ nextInvocationAt = 0
  BY DEF Init
<1>3. ToSet(pending) = {} /\ DOMAIN pending = {}
  BY <1>2 DEF ToSet
<1> QED
  BY <1>1, <1>2, <1>3
  DEF Timely, RunsAreDue, DueInOrder, TimerIsNear, NextIsEarliest

\* Times of the invocations and of the clock.
LEMMA Times ==
    ASSUME Places
    PROVE  /\ now \in Nat
           /\ nextInvocationAt \in Nat
           /\ timer \in Int
           /\ ToSet(pending) \subseteq Invocations
           /\ pending \in Seq(Invocations)
           /\ Len(pending) \in Nat
           /\ DOMAIN pending = 1..Len(pending)
           /\ \A k \in DOMAIN pending : pending[k] \in ToSet(pending)
           /\ \A i \in Invocations : executeAt[i] \in Nat
           /\ \A i \in ToSet(pending) \cup saving : executeAt[i] \in Nat \ {0}
           /\ \A r \in runs : Held(r) \subseteq Invocations
<1>1. TypeOK /\ OnlyScheduled
  BY DEF Places
<1>2. /\ ToSet(pending) \subseteq Invocations
      /\ pending \in Seq(Invocations)
      /\ Len(pending) \in Nat
      /\ DOMAIN pending = 1..Len(pending)
      /\ \A k \in DOMAIN pending : pending[k] \in ToSet(pending)
  BY <1>1, ElementsOfList DEF TypeOK
<1>3. /\ now \in Nat
      /\ nextInvocationAt \in Nat
      /\ timer \in Int
      /\ saving \subseteq Invocations
      /\ \A i \in Invocations : executeAt[i] \in Nat
  BY <1>1, LocalSchedulerAssumption DEF TypeOK, Time, Unset
<1>4. \A r \in runs : Held(r) \subseteq Invocations
  BY <1>1 DEF TypeOK, Run, Held
<1> QED
  BY <1>1, <1>2, <1>3, <1>4 DEF OnlyScheduled

\* The steps that set the timer set it for the time they name.
LEMMA TimerSet ==
    ASSUME TypeOK, NEW t \in Time, SetTimer(t)
    PROVE  /\ nextInvocationAt' = t
           /\ timer' \in Time
           /\ timer' # Unset
           /\ timer' <= Greater(t, now)
  BY TimerOf DEF SetTimer, TypeOK, Time, Unset

\* Only scheduling changes a time, and it does so for a new invocation.
LEMMA TimesStay ==
    ASSUME Places, [Next]_vars
    PROVE  /\ now' \in Nat /\ now <= now'
           /\ \/ executeAt' = executeAt
              \/ \E i \in Invocations, t \in 1..MaxTime :
                   /\ Schedule(i, t)
                   /\ \A j \in Invocations :
                        executeAt'[j] = IF j = i THEN t ELSE executeAt[j]
<1>1. now \in Nat
  BY Times
<1>2. CASE Tick
  BY <1>1, <1>2 DEF Tick
<1>3. ASSUME NEW i \in Invocations, NEW t \in 1..MaxTime, Schedule(i, t)
      PROVE  /\ now' = now
             /\ \A j \in Invocations :
                  executeAt'[j] = IF j = i THEN t ELSE executeAt[j]
  BY <1>3 DEF Schedule, Places, TypeOK
<1>4. CASE ~ Tick /\ ~ \E i \in Invocations, t \in 1..MaxTime : Schedule(i, t)
  <2>1. UNCHANGED <<now, executeAt>>
    BY <1>4
    DEF Next, Invoke, Subscribe, Load, Unsubscribe, Restart, Saved, Fire,
        Fulfil, Reject, Conclude, Deleted, vars
  <2> QED
    BY <1>1, <2>1
<1> QED
  BY <1>1, <1>2, <1>3, <1>4

\* What a run holds stays due.
LEMMA RunsAreDueStep ==
    ASSUME Timely, [Next]_vars
    PROVE  RunsAreDue'
<1> USE DEF Timely, RunsAreDue
<1>1. /\ now \in Nat /\ now' \in Nat /\ now <= now'
      /\ \A i \in Invocations : executeAt[i] \in Nat
      /\ \A r \in runs : Held(r) \subseteq Invocations
  BY Times, TimesStay
<1>2. TypeOK
  BY DEF Places
<1>3. ASSUME NEW r \in runs, NEW i \in Held(r)
      PROVE  executeAt'[i] = executeAt[i] /\ executeAt'[i] <= now'
  <2>1. i \in Invocations /\ executeAt[i] # 0
    BY <1>1, <1>3 DEF Places, OnePlace, OnlyScheduled
  <2>2. executeAt'[i] = executeAt[i]
    BY <2>1, TimesStay DEF Schedule
  <2>3. executeAt[i] <= now
    BY <1>3
  <2> QED
    BY <1>1, <2>1, <2>2, <2>3
<1>4. CASE \/ Tick \/ Subscribe \/ Load \/ Unsubscribe \/ UNCHANGED vars
           \/ \E i \in Invocations : \/ \E t \in 1..MaxTime : Schedule(i, t)
                                     \/ Saved(i)
  <2>1. runs' = runs
    BY <1>4 DEF Tick, Subscribe, Load, Unsubscribe, Schedule, Saved, vars
  <2> QED
    BY <1>3, <2>1 DEF Held
<1>5. CASE Restart
  BY <1>5 DEF Restart
<1>6. CASE Fire
  <2>1. CASE Wait
    BY <1>3, <2>1 DEF Wait, Held
  <2>2. CASE Take
    <3>1. PICK n \in Run : /\ runs' = runs \cup {n}
                           /\ n.open = Called
                           /\ n.failed = {}
      BY <1>2, <2>2, Taken
    <3>2. \A i \in Called : executeAt[i] <= now
      BY <1>2, <2>2, Taken
    <3>3. Held(n) = Called
      BY <3>1 DEF Held
    <3>4. UNCHANGED <<executeAt, now>>
      BY <1>6 DEF Fire
    <3> QED
      BY <1>3, <3>1, <3>2, <3>3, <3>4 DEF Held
  <2> QED
    BY <1>6, <2>1, <2>2 DEF Fire
<1>7. ASSUME NEW r \in runs, NEW i \in r.open, Fulfil(r, i) \/ Reject(r, i)
      PROVE  RunsAreDue'
  <2>1. PICK n \in Run : /\ runs' = (runs \ {r}) \cup {n}
                         /\ n.open = r.open \ {i}
                         /\ \/ n.failed = r.failed
                            \/ n.failed = r.failed \cup {i}
    BY <1>2, <1>7, SettledOne
  <2>2. Held(n) \subseteq Held(r)
    BY <2>1 DEF Held
  <2> QED
    BY <1>3, <2>1, <2>2 DEF Held
<1>8. ASSUME NEW r \in runs, Conclude(r) PROVE RunsAreDue'
  <2>1. PICK n \in Run : /\ runs' = (runs \ {r}) \cup {n}
                         /\ n.open = {}
                         /\ n.failed = {}
    BY <1>2, <1>8, Concluded
  <2> QED
    BY <1>3, <2>1 DEF Held
<1>9. ASSUME NEW r \in runs, Deleted(r) PROVE RunsAreDue'
  <2>1. runs' = runs \ {r}
    BY <1>9 DEF Deleted
  <2> QED
    BY <1>3, <2>1 DEF Held
<1> QED
  BY <1>4, <1>5, <1>6, <1>7, <1>8, <1>9 DEF Next, Invoke

\* The list stays in order, however it is loaded, inserted into, cut or put back
\* to.
LEMMA DueInOrderStep ==
    ASSUME Timely, StorageIsSorted, [Next]_vars
    PROVE  DueInOrder'
<1> USE DEF Timely
<1>1. /\ now \in Nat /\ now' \in Nat /\ now <= now'
      /\ \A i \in Invocations : executeAt[i] \in Nat
      /\ ToSet(pending) \subseteq Invocations
      /\ pending \in Seq(Invocations)
      /\ Len(pending) \in Nat
      /\ DOMAIN pending = 1..Len(pending)
      /\ \A k \in DOMAIN pending : pending[k] \in ToSet(pending)
      /\ \A r \in runs : Held(r) \subseteq Invocations
  BY Times, TimesStay
<1>2. TypeOK
  BY DEF Places
<1>3. ASSUME NEW m \in DOMAIN pending, NEW n \in DOMAIN pending, m < n
      PROVE  executeAt[pending[m]] <= Greater(executeAt[pending[n]], now)
  BY <1>3 DEF DueInOrder
<1>4. ASSUME UNCHANGED <<pending, executeAt>> PROVE DueInOrder'
  <2> SUFFICES ASSUME NEW m \in DOMAIN pending, NEW n \in DOMAIN pending, m < n
               PROVE  executeAt[pending[m]] <=
                        Greater(executeAt[pending[n]], now')
    BY <1>4 DEF DueInOrder, Greater
  <2>1. executeAt[pending[m]] \in Nat /\ executeAt[pending[n]] \in Nat
    BY <1>1
  <2> QED
    BY <1>1, <1>3, <2>1 DEF Greater
<1>5. CASE \/ Tick \/ Subscribe \/ Unsubscribe \/ UNCHANGED vars
           \/ \E i \in Invocations : Saved(i)
  BY <1>4, <1>5 DEF Tick, Subscribe, Unsubscribe, Saved, vars
<1>6. CASE Load
  <2>1. InOrder(pending') /\ pending' \in Seq(Invocations)
    BY <1>2, <1>6, Loaded
  <2>2. \A n \in DOMAIN pending' : pending'[n] \in Invocations
    BY <2>1, ElementsOfList
  <2>3. UNCHANGED <<executeAt, now>>
    BY <1>6 DEF Load
  <2> QED
    BY <1>1, <2>1, <2>2, <2>3 DEF DueInOrder, InOrder, Greater
<1>7. CASE Restart
  <2>1. DOMAIN pending' = {}
    BY <1>7 DEF Restart
  <2> QED
    BY <2>1 DEF DueInOrder
<1>8. ASSUME NEW i \in Invocations, NEW t \in 1..MaxTime, Schedule(i, t)
      PROVE  DueInOrder'
  <2> DEFINE place == After(t)
             time(k) == executeAt'[pending'[k]]
  <2>1. /\ pending' = InsertAt(pending, place, i)
        /\ executeAt[i] = 0
        /\ executeAt' = [executeAt EXCEPT ![i] = t]
        /\ now' = now
    BY <1>8 DEF Schedule
  <2>2. /\ place \in 1..(Len(pending) + 1)
        /\ \A k \in 1..Len(pending) :
             k < place => executeAt[pending[k]] <= t
        /\ place <= Len(pending) => executeAt[pending[place]] > t
    <3>1. t \in Time
      BY LocalSchedulerAssumption DEF Time
    <3> QED
      BY <1>2, <3>1, AfterIsPlace
  <2> HIDE DEF place
  <2>3. /\ pending' \in Seq(Invocations)
        /\ Len(pending') = Len(pending) + 1
        /\ \A k \in 1..(Len(pending) + 1) :
             pending'[k] = IF k < place THEN pending[k]
                           ELSE IF k = place THEN i
                           ELSE pending[k - 1]
    <3>1. /\ InsertAt(pending, place, i) \in Seq(Invocations)
          /\ Len(InsertAt(pending, place, i)) = Len(pending) + 1
          /\ \A k \in 1..(Len(pending) + 1) :
               InsertAt(pending, place, i)[k] = IF k < place THEN pending[k]
                                                ELSE IF k = place THEN i
                                                ELSE pending[k - 1]
      BY <1>1, <2>2, InsertAtPlace
    <3> QED
      BY <2>1, <3>1
  <2>4. DOMAIN pending' = 1..(Len(pending) + 1)
    BY <2>3, ElementsOfList
  <2>5. \A k \in 1..Len(pending) :
           /\ pending[k] \in Invocations /\ pending[k] # i
           /\ executeAt[pending[k]] \in Nat
           /\ executeAt'[pending[k]] = executeAt[pending[k]]
    <3>1. i \notin ToSet(pending)
      BY <2>1 DEF Places, OnlyScheduled
    <3>2. \A j \in Invocations :
             executeAt'[j] = IF j = i THEN t ELSE executeAt[j]
      BY <1>2, <2>1 DEF TypeOK
    <3> QED
      BY <1>1, <3>1, <3>2
  <2>6. executeAt'[i] = t
    BY <1>2, <2>1 DEF TypeOK
  <2>7. ASSUME NEW k \in 1..(Len(pending) + 1)
        PROVE  /\ k < place => /\ k \in 1..Len(pending)
                               /\ time(k) = executeAt[pending[k]]
               /\ k = place => time(k) = t
               /\ k > place => /\ k - 1 \in 1..Len(pending)
                               /\ time(k) = executeAt[pending[k - 1]]
    <3>1. CASE k < place
      BY <1>1, <2>2, <2>3, <2>5, <3>1
    <3>2. CASE k = place
      BY <2>3, <2>6, <3>2
    <3>3. CASE k > place
      <4>1. k - 1 \in 1..Len(pending)
        BY <1>1, <2>2, <3>3
      <4>2. pending'[k] = pending[k - 1]
        BY <2>2, <2>3, <3>3
      <4> QED
        BY <2>2, <2>5, <3>3, <4>1, <4>2
    <3> QED
      BY <2>2, <3>1, <3>2, <3>3
  <2> HIDE DEF time
  <2>8. ASSUME NEW m \in 1..(Len(pending) + 1),
               NEW n \in 1..(Len(pending) + 1), m < n
        PROVE  time(m) <= Greater(time(n), now)
    <3>1. CASE n < place
      <4>1. m < place
        BY <2>2, <2>8, <3>1
      <4> QED
        BY <1>1, <1>3, <2>7, <2>8, <3>1, <4>1
    <3>2. CASE n = place
      <4>1. m \in 1..Len(pending) /\ time(m) = executeAt[pending[m]]
        BY <2>7, <2>8, <3>2
      <4>2. time(m) <= t /\ time(m) \in Nat
        BY <2>2, <2>5, <2>8, <3>2, <4>1
      <4> QED
        BY <1>1, <2>7, <3>2, <4>2 DEF Greater
    <3>3. CASE n > place /\ m < place
      <4>1. m \in 1..Len(pending) /\ n - 1 \in 1..Len(pending) /\ m < n - 1
        BY <2>2, <2>7, <3>3
      <4>2. executeAt[pending[m]] <= Greater(executeAt[pending[n - 1]], now)
        BY <1>1, <1>3, <4>1
      <4> QED
        BY <2>7, <3>3, <4>2
    <3>4. CASE n > place /\ m = place
      <4>1. n - 1 \in 1..Len(pending) /\ place \in 1..Len(pending)
            /\ place <= n - 1
        BY <1>1, <2>2, <2>7, <3>4
      <4>2. /\ executeAt[pending[place]] \in Nat
            /\ executeAt[pending[n - 1]] \in Nat
            /\ executeAt[pending[place]] > t
        BY <2>2, <2>5, <4>1
      <4>3. executeAt[pending[place]] <=
              Greater(executeAt[pending[n - 1]], now)
        <5>1. CASE place = n - 1
          BY <1>1, <4>2, <5>1 DEF Greater
        <5>2. CASE place < n - 1
          BY <1>1, <1>3, <4>1, <5>2
        <5> QED
          BY <4>1, <5>1, <5>2
      <4> QED
        BY <1>1, <2>7, <3>4, <4>2, <4>3 DEF Greater
    <3>5. CASE n > place /\ m > place
      <4>1. m - 1 \in 1..Len(pending) /\ n - 1 \in 1..Len(pending)
            /\ m - 1 < n - 1
        BY <2>7, <2>8, <3>5
      <4>2. executeAt[pending[m - 1]] <=
              Greater(executeAt[pending[n - 1]], now)
        BY <1>1, <1>3, <4>1
      <4> QED
        BY <2>7, <3>5, <4>2
    <3> QED
      BY <2>2, <3>1, <3>2, <3>3, <3>4, <3>5
  <2> QED
    BY <2>1, <2>4, <2>8 DEF DueInOrder, time, Greater
<1>9. CASE Fire
  <2>1. CASE Wait
    BY <1>4, <1>9, <2>1 DEF Fire, Wait
  <2>2. CASE Take
    <3>1. \A k \in DOMAIN pending' : /\ k + Due \in DOMAIN pending
                                     /\ pending'[k] = pending[k + Due]
      BY <1>2, <2>2, Taken
    <3>2. Due \in Nat /\ DOMAIN pending' \subseteq Nat
      <4>1. Due \in Nat
        BY <1>1, <1>2, DueIsFront
      <4>2. pending' \in Seq(Invocations)
        BY <1>2, TypeStep DEF TypeOK
      <4> QED
        BY <4>1, <4>2, ElementsOfList
    <3>3. UNCHANGED <<executeAt, now>>
      BY <1>9 DEF Fire
    <3>4. ASSUME NEW m \in DOMAIN pending', NEW n \in DOMAIN pending', m < n
          PROVE  executeAt[pending'[m]] <= Greater(executeAt[pending'[n]], now)
      <4>1. m + Due < n + Due
        BY <3>2, <3>4
      <4> QED
        BY <1>3, <3>1, <4>1
    <3> QED
      BY <3>3, <3>4 DEF DueInOrder, Greater
  <2> QED
    BY <1>9, <2>1, <2>2 DEF Fire
<1>10. ASSUME NEW r \in runs, NEW i \in r.open, Fulfil(r, i) \/ Reject(r, i)
       PROVE  DueInOrder'
  BY <1>4, <1>10 DEF Fulfil, Reject
<1>11. ASSUME NEW r \in runs, Conclude(r) PROVE DueInOrder'
  <2> DEFINE front == KeepOnly(r.batch, Again(r))
  <2>1. /\ pending' = (IF Retries THEN front \o pending ELSE pending)
        /\ front \in Seq(Invocations)
        /\ ToSet(front) = ToSet(r.batch) \cap Again(r)
    BY <1>2, <1>11, Concluded
  <2> HIDE DEF front
  <2>2. UNCHANGED <<executeAt, now>>
    BY <1>11 DEF Conclude
  <2>3. CASE ~ Retries
    BY <1>4, <2>1, <2>2, <2>3
  <2>4. CASE Retries
    <3> DEFINE list == front \o pending
    <3>1. /\ Len(front) \in Nat
          /\ DOMAIN front = 1..Len(front)
          /\ \A k \in 1..Len(front) : front[k] \in ToSet(front)
      BY <2>1, ElementsOfList
    <3>2. /\ list \in Seq(Invocations)
          /\ Len(list) = Len(front) + Len(pending)
          /\ \A k \in 1..(Len(front) + Len(pending)) :
               list[k] = IF k <= Len(front) THEN front[k]
                         ELSE pending[k - Len(front)]
      BY <1>1, <2>1, ConcatProperties
    <3> HIDE DEF list
    <3>3. DOMAIN list = 1..(Len(front) + Len(pending))
      BY <3>2, ElementsOfList
    <3>4. \A k \in 1..Len(front) : /\ front[k] \in Invocations
                                   /\ executeAt[front[k]] <= now
      <4>1. Again(r) \subseteq Held(r)
        BY DEF Again, Held
      <4> QED
        BY <1>1, <2>1, <3>1, <4>1 DEF RunsAreDue
    <3>5. ASSUME NEW m \in 1..(Len(front) + Len(pending)),
                 NEW n \in 1..(Len(front) + Len(pending)), m < n
          PROVE  executeAt[list[m]] <= Greater(executeAt[list[n]], now)
      <4>1. CASE m <= Len(front)
        <5>1. list[n] \in Invocations
          BY <3>2, <3>3, ElementsOfList
        <5>2. m \in 1..Len(front) /\ list[m] = front[m]
          BY <3>1, <3>2, <4>1
        <5>3. executeAt[list[m]] <= now /\ executeAt[list[m]] \in Nat
          BY <1>1, <3>4, <5>2
        <5>4. executeAt[list[n]] \in Nat
          BY <1>1, <5>1
        <5> QED
          BY <1>1, <5>3, <5>4 DEF Greater
      <4>2. CASE m > Len(front)
        <5>1. /\ m - Len(front) \in 1..Len(pending)
              /\ n - Len(front) \in 1..Len(pending)
              /\ m - Len(front) < n - Len(front)
          BY <1>1, <3>1, <3>5, <4>2
        <5>2. list[m] = pending[m - Len(front)]
              /\ list[n] = pending[n - Len(front)]
          BY <3>1, <3>2, <3>5, <4>2
        <5> QED
          BY <1>1, <1>3, <5>1, <5>2
      <4> QED
        BY <3>1, <4>1, <4>2
    <3>6. pending' = list
      BY <2>1, <2>4 DEF list
    <3> QED
      BY <2>2, <3>3, <3>5, <3>6 DEF DueInOrder, Greater
  <2> QED
    BY <2>3, <2>4
<1>12. ASSUME NEW r \in runs, Deleted(r) PROVE DueInOrder'
  BY <1>4, <1>12 DEF Deleted
<1> QED
  BY <1>5, <1>6, <1>7, <1>8, <1>9, <1>10, <1>11, <1>12 DEF Next, Invoke

\* Whoever handles the list sets the timer for its first invocation.
LEMMA Handled ==
    ASSUME TypeOK, TypeOK', OnlyScheduled', DueInOrder',
           UNCHANGED <<executeAt, now>>, OnInvocationHandled(pending')
    PROVE  \/ /\ pending' = <<>>
              /\ ToSet(pending') = {}
              /\ UNCHANGED timerVars
           \/ /\ nextInvocationAt' \in Nat \ {0}
              /\ timer' # Unset
              /\ timer' <= Greater(nextInvocationAt', now)
              /\ \A i \in ToSet(pending') :
                   nextInvocationAt' <= Greater(executeAt[i], now)
<1>1. CASE pending' = <<>>
  BY <1>1 DEF OnInvocationHandled, ToSet
<1>2. CASE pending' # <<>>
  <2>1. /\ Len(pending') \in Nat
        /\ DOMAIN pending' = 1..Len(pending')
        /\ \A k \in 1..Len(pending') : /\ pending'[k] \in Invocations
                                       /\ pending'[k] \in ToSet(pending')
        /\ \A x \in ToSet(pending') : \E k \in 1..Len(pending') : x = pending'[k]
    <3>1. pending' \in Seq(Invocations)
      BY DEF TypeOK
    <3> QED
      BY <3>1, ElementsOfList
  <2>2. 1 \in 1..Len(pending')
    <3>1. pending' \in Seq(Invocations)
      BY DEF TypeOK
    <3>2. Len(pending') # 0
      BY <1>2, <3>1, EmptySeq
    <3> QED
      BY <2>1, <3>2
  <2>3. pending'[1] \in Invocations /\ executeAt[pending'[1]] \in Time
    BY <2>1, <2>2 DEF TypeOK
  <2>4. /\ nextInvocationAt' = executeAt[pending'[1]]
        /\ timer' # Unset
        /\ timer' <= Greater(executeAt[pending'[1]], now)
    BY <1>2, <2>3, TimerSet DEF OnInvocationHandled
  <2>5. executeAt[pending'[1]] # 0
    BY <2>1, <2>2 DEF OnlyScheduled
  <2>6. ASSUME NEW i \in ToSet(pending')
        PROVE  executeAt[pending'[1]] <= Greater(executeAt[i], now)
    <3>1. PICK k \in 1..Len(pending') : i = pending'[k]
      BY <2>1
    <3>2. CASE k = 1
      <4>1. executeAt[i] = executeAt[pending'[1]] /\ executeAt[i] \in Int
            /\ now \in Int
        BY <2>3, <3>1, <3>2 DEF TypeOK, Time
      <4> QED
        BY <4>1 DEF Greater
    <3>3. CASE 1 < k
      BY <2>1, <2>2, <3>1, <3>3 DEF DueInOrder, Greater
    <3> QED
      BY <3>1, <3>2, <3>3
  <2> QED
    BY <2>3, <2>4, <2>5, <2>6 DEF Time
<1> QED
  BY <1>1, <1>2

\* The timer stays near, and set for the earliest time.
LEMMA TimerStep ==
    ASSUME Timely, Places', DueInOrder', [Next]_vars
    PROVE  TimerIsNear' /\ NextIsEarliest'
<1> USE DEF Timely
<1>1. /\ now \in Nat /\ now' \in Nat /\ now <= now'
      /\ nextInvocationAt \in Nat
      /\ timer \in Int
      /\ \A i \in Invocations : executeAt[i] \in Nat
      /\ ToSet(pending) \subseteq Invocations
      /\ \A i \in ToSet(pending) \cup saving : executeAt[i] \in Nat \ {0}
  BY Times, TimesStay
<1>2. TypeOK /\ TypeOK' /\ OnlyScheduled'
  BY DEF Places
<1>3. \A i \in ToSet(pending) \cup saving : i \in Invocations
  BY <1>1, <1>2 DEF TypeOK
<1>4. Unset \in Int /\ Unset < 0
  BY DEF Unset
<1>5. ASSUME UNCHANGED <<timerVars, runs, pending, saving, executeAt>>
      PROVE  TimerIsNear' /\ NextIsEarliest'
  BY <1>1, <1>3, <1>5 DEF TimerIsNear, NextIsEarliest, timerVars, Greater
<1>6. CASE Tick \/ Subscribe \/ Unsubscribe \/ UNCHANGED vars
  BY <1>5, <1>6 DEF Tick, Subscribe, Unsubscribe, vars
<1>7. CASE Load
  <2>1. OnInvocationHandled(pending')
    BY <1>2, <1>7, Loaded
  <2>2. UNCHANGED <<executeAt, now, saving, runs>>
    BY <1>7 DEF Load
  <2>3. \/ /\ ToSet(pending') = {}
           /\ UNCHANGED timerVars
        \/ /\ nextInvocationAt' \in Nat \ {0}
           /\ timer' # Unset
           /\ timer' <= Greater(nextInvocationAt', now)
           /\ \A i \in ToSet(pending') :
                nextInvocationAt' <= Greater(executeAt[i], now)
    BY <1>2, <2>1, <2>2, Handled
  <2> QED
    BY <2>2, <2>3 DEF TimerIsNear, NextIsEarliest, timerVars, Greater
<1>8. CASE Restart
  <2>1. ToSet(pending') = {} /\ timer' = Unset /\ nextInvocationAt' = 0
        /\ runs' = {} /\ now' = now
    BY <1>8 DEF Restart, ToSet
  <2> QED
    BY <1>1, <2>1 DEF TimerIsNear, NextIsEarliest
<1>9. ASSUME NEW i \in Invocations, NEW t \in 1..MaxTime, Schedule(i, t)
      PROVE  TimerIsNear' /\ NextIsEarliest'
  <2>1. ToSet(pending') = ToSet(pending) \cup {i}
    BY <1>2, <1>9, Inserted
  <2>2. UNCHANGED <<timerVars, runs, now>> /\ saving' = saving \cup {i}
    BY <1>9 DEF Schedule
  <2>3. \A j \in ToSet(pending') \ saving' :
           j \in ToSet(pending) \ saving /\ executeAt'[j] = executeAt[j]
    <3>1. \A j \in Invocations :
             executeAt'[j] = IF j = i THEN t ELSE executeAt[j]
      BY <1>2, <1>9 DEF Schedule, TypeOK
    <3> QED
      BY <1>3, <2>1, <2>2, <3>1
  <2> QED
    BY <2>1, <2>2, <2>3 DEF TimerIsNear, NextIsEarliest, timerVars, Greater
<1>10. ASSUME NEW i \in Invocations, Saved(i)
       PROVE  TimerIsNear' /\ NextIsEarliest'
  <2>1. /\ saving' = saving \ {i}
        /\ i \in saving
        /\ executeAt[i] \in Nat \ {0}
        /\ UNCHANGED <<now, executeAt, pending, runs>>
    BY <1>1, <1>10 DEF Saved
  <2>2. CASE nextInvocationAt = 0 \/ executeAt[i] < nextInvocationAt
    <3>1. /\ nextInvocationAt' = executeAt[i]
          /\ timer' # Unset
          /\ timer' <= Greater(executeAt[i], now)
      <4>1. executeAt[i] \in Time /\ SetTimer(executeAt[i])
        BY <1>2, <1>10, <2>2 DEF Saved, TypeOK
      <4> QED
        BY <1>2, <4>1, TimerSet
    <3>2. ASSUME runs = {}, NEW j \in ToSet(pending) \ saving'
          PROVE  executeAt[i] <= Greater(executeAt[j], now)
      <4>1. executeAt[j] \in Nat
        BY <1>1
      <4>2. CASE j = i
        BY <1>1, <4>1, <4>2 DEF Greater
      <4>3. CASE j # i
        <5>1. j \in ToSet(pending) \ saving
          BY <2>1, <3>2, <4>3
        <5>2. nextInvocationAt # 0 /\ executeAt[i] < nextInvocationAt
          BY <2>2, <5>1 DEF TimerIsNear
        <5>3. CASE timer = Unset
          BY <1>1, <2>1, <4>1, <5>2, <5>3 DEF TimerIsNear, Greater
        <5>4. CASE timer # Unset
          BY <1>1, <2>1, <3>2, <4>1, <5>1, <5>2, <5>4
          DEF NextIsEarliest, Greater
        <5> QED
          BY <5>3, <5>4
      <4> QED
        BY <4>2, <4>3
    <3> QED
      BY <2>1, <3>1, <3>2 DEF TimerIsNear, NextIsEarliest, Greater
  <2>3. CASE ~ (nextInvocationAt = 0 \/ executeAt[i] < nextInvocationAt)
    <3>1. UNCHANGED timerVars /\ nextInvocationAt # 0
          /\ nextInvocationAt <= executeAt[i]
      BY <1>1, <1>10, <2>1, <2>3 DEF Saved
    <3>2. nextInvocationAt <= Greater(executeAt[i], now)
      BY <1>1, <2>1, <3>1 DEF Greater
    <3> QED
      BY <2>1, <3>1, <3>2 DEF TimerIsNear, NextIsEarliest, timerVars, Greater
  <2> QED
    BY <2>2, <2>3
<1>11. CASE Fire
  <2>1. UNCHANGED <<now, executeAt, saving>> /\ timer # Unset
    BY <1>11 DEF Fire
  <2>2. CASE Wait
    <3>1. SetTimer(nextInvocationAt) /\ nextInvocationAt > now
          /\ UNCHANGED <<pending, runs>>
      BY <2>2 DEF Wait
    <3>2. /\ nextInvocationAt' = nextInvocationAt
          /\ timer' # Unset
          /\ timer' <= Greater(nextInvocationAt, now)
      BY <1>2, <3>1, TimerSet DEF TypeOK
    <3> QED
      BY <1>1, <2>1, <3>1, <3>2 DEF TimerIsNear, NextIsEarliest, Greater
  <2>3. CASE Take
    <3>1. timer' = Unset /\ nextInvocationAt' = nextInvocationAt
          /\ nextInvocationAt <= now
      BY <2>3 DEF Take
    <3>2. nextInvocationAt # 0
      BY <2>1 DEF TimerIsNear
    <3> QED
      BY <2>1, <3>1, <3>2 DEF TimerIsNear, NextIsEarliest
  <2> QED
    BY <1>11, <2>2, <2>3 DEF Fire
<1>12. ASSUME NEW r \in runs, runs' # {}, UNCHANGED <<now, timerVars>>
       PROVE  TimerIsNear' /\ NextIsEarliest'
  <2>1. nextInvocationAt # 0
    BY <1>12 DEF TimerIsNear
  <2> QED
    BY <1>12, <2>1 DEF TimerIsNear, NextIsEarliest, timerVars, Greater
<1>13. ASSUME NEW r \in runs, NEW i \in r.open, Fulfil(r, i) \/ Reject(r, i)
       PROVE  TimerIsNear' /\ NextIsEarliest'
  <2>1. runs' # {} /\ UNCHANGED <<now, timerVars>>
    BY <1>13 DEF Fulfil, Reject
  <2> QED
    BY <1>12, <2>1
<1>14. ASSUME NEW r \in runs, Conclude(r) PROVE TimerIsNear' /\ NextIsEarliest'
  <2>1. runs' # {} /\ UNCHANGED <<now, timerVars>>
    BY <1>14 DEF Conclude
  <2> QED
    BY <1>12, <2>1
<1>15. ASSUME NEW r \in runs, Deleted(r) PROVE TimerIsNear' /\ NextIsEarliest'
  <2>1. /\ UNCHANGED <<executeAt, now, saving, pending>>
        /\ OnInvocationHandled(pending')
    BY <1>15 DEF Deleted, OnInvocationHandled, SetTimer
  <2>2. \/ /\ ToSet(pending') = {}
           /\ UNCHANGED timerVars
        \/ /\ nextInvocationAt' \in Nat \ {0}
           /\ timer' # Unset
           /\ timer' <= Greater(nextInvocationAt', now)
           /\ \A i \in ToSet(pending') :
                nextInvocationAt' <= Greater(executeAt[i], now)
    BY <1>2, <2>1, Handled
  <2>3. nextInvocationAt # 0
    BY <1>15 DEF TimerIsNear
  <2> QED
    BY <2>1, <2>2, <2>3 DEF TimerIsNear, NextIsEarliest, timerVars, Greater
<1> QED
  BY <1>6, <1>7, <1>8, <1>9, <1>10, <1>11, <1>13, <1>14, <1>15 DEF Next, Invoke

\* Every step keeps the invariant.
LEMMA TimelyStep ==
    ASSUME StorageIsSorted
    PROVE  Timely /\ [Next]_vars => Timely'
<1> SUFFICES ASSUME Timely, [Next]_vars PROVE Timely'
  OBVIOUS
<1>1. Places'
  BY PlacesStep DEF Timely
<1>2. RunsAreDue' /\ DueInOrder'
  BY RunsAreDueStep, DueInOrderStep
<1> QED
  BY <1>1, <1>2, TimerStep DEF Timely

\* With a storage that returns the invocations by their time, the timer that is
\* armed fires by the time the earliest saved invocation of the list is due,
\* whatever order they were scheduled in, also when retries were put in front.
THEOREM NothingIsLate ==
    ASSUME StorageIsSorted
    PROVE  Spec => []NotLate
<1>1. Timely => NotLate
  <2> SUFFICES ASSUME Timely, timer # Unset, runs = {},
                      NEW i \in ToSet(pending) \ saving
               PROVE  timer <= Greater(executeAt[i], now)
    BY DEF NotLate
  <2>1. /\ now \in Nat /\ nextInvocationAt \in Nat /\ timer \in Int
        /\ executeAt[i] \in Nat
    BY Times DEF Timely
  <2> QED
    BY <2>1 DEF Timely, TimerIsNear, NextIsEarliest, Greater
<1> QED
  BY <1>1, TimelyInit, TimelyStep, PTL DEF Spec
=============================================================================
