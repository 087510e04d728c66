----------------------- MODULE CommandExecutionProofs -----------------------
(***************************************************************************)
(* Proofs about CommandExecution for every set of calls, every batch size  *)
(* and every snapshot configuration.                                       *)
(***************************************************************************)
EXTENDS CommandExecution, SequenceTheorems, TLAPS

-----------------------------------------------------------------------------
(* Batches, statuses and prefixes of the stream. *)

\* Every batch is a nonempty sequence of events of its call.
LEMMA BatchType ==
    ASSUME NEW c \in Commands, NEW batch \in Batches(c)
    PROVE  /\ batch \in Seq(Event)
           /\ Len(batch) \in Nat \ {0}
           /\ \A i \in 1..Len(batch) : batch[i].by = c
<1> DEFINE Own == [by : {c}, tomb : BOOLEAN]
<1>1. PICK n \in 1..MaxBatch : batch \in [1..n -> Own]
  BY DEF Batches
<1>2. n \in Nat \ {0}
  BY CommandExecutionAssumption
<1>3. \A e \in Own : e \in Event /\ e.by = c
  BY DEF Event
<1>4. batch \in Seq(Own)
  <2>1. batch \in UNION {[1..k -> Own] : k \in Nat}
    BY <1>1, <1>2
  <2> QED
    BY <2>1, SeqDef
<1>5. Len(batch) = n
  BY <1>1, <1>2, <1>4, LenProperties
<1>6. batch \in Seq(Event)
  <2>1. Own \subseteq Event
    BY <1>3
  <2> QED
    BY <1>4, <2>1, SeqMonotonic
<1>7. \A i \in 1..Len(batch) : batch[i].by = c
  BY <1>1, <1>3, <1>5
<1> QED
  BY <1>2, <1>5, <1>6, <1>7

\* The status every hydration starts from has the type of a status.
LEMMA InitialStatusType ==
    ASSUME NEW c \in Commands
    PROVE  InitialStatus(c) \in Status
  BY CommandExecutionAssumption, EmptySeq
  DEF InitialStatus, Status, State, StateNew

\* Counting an event and handling it keep the type of a status.
LEMMA HandledType ==
    ASSUME NEW s \in Status, NEW r \in Nat, NEW e \in Event
    PROVE  /\ Counted(s, r) \in Status
           /\ Handled(Counted(s, r), e) \in Status
<1>1. Counted(s, r) \in Status
  BY DEF Counted, Status
<1>2. Append(Counted(s, r).state.events, e) \in Seq(Event)
  BY <1>1, AppendProperties DEF Status, State
<1> QED
  BY <1>1, <1>2 DEF Handled, Status, State

\* What an append does to the stream: it keeps the events in their places, and
\* the batch follows them.
LEMMA Concatenation ==
    ASSUME NEW s \in Seq(Event), NEW t \in Seq(Event)
    PROVE  /\ Len(s) \in Nat
           /\ Len(s \o t) = Len(s) + Len(t)
           /\ \A i \in 1..Len(s) : (s \o t)[i] = s[i]
           /\ \A i \in (Len(s) + 1)..Len(s \o t) :
                /\ i - Len(s) \in 1..Len(t)
                /\ (s \o t)[i] = t[i - Len(s)]
<1>1. Len(s) \in Nat /\ Len(t) \in Nat
  BY LenProperties
<1>2. /\ Len(s \o t) = Len(s) + Len(t)
      /\ \A i \in 1..(Len(s) + Len(t)) :
           (s \o t)[i] = IF i <= Len(s) THEN s[i] ELSE t[i - Len(s)]
  BY ConcatProperties
<1>3. ASSUME NEW i \in 1..Len(s) PROVE (s \o t)[i] = s[i]
  BY <1>1, <1>2
<1>4. ASSUME NEW i \in (Len(s) + 1)..Len(s \o t)
      PROVE  /\ i - Len(s) \in 1..Len(t)
             /\ (s \o t)[i] = t[i - Len(s)]
  BY <1>1, <1>2
<1> QED
  BY <1>1, <1>2, <1>3, <1>4

\* A prefix of a sequence is a prefix of whatever extends the sequence.
LEMMA PrefixKept ==
    ASSUME NEW S, NEW s \in Seq(S), NEW t \in Seq(S), NEW n \in 0..Len(s)
    PROVE  SubSeq(s \o t, 1, n) = SubSeq(s, 1, n)
<1>1. /\ s \o t \in Seq(S)
      /\ Len(s) \in Nat
      /\ Len(t) \in Nat
      /\ \A i \in 1..n : (s \o t)[i] = s[i] /\ s[i] \in S
  BY ConcatProperties, LenProperties, ElementOfSeq
<1>2. /\ SubSeq(s \o t, 1, n) \in Seq(S)
      /\ Len(SubSeq(s \o t, 1, n)) = n
      /\ \A i \in 1..n : SubSeq(s \o t, 1, n)[i] = (s \o t)[i]
  BY <1>1, SubSeqProperties
<1>3. /\ SubSeq(s, 1, n) \in Seq(S)
      /\ Len(SubSeq(s, 1, n)) = n
      /\ \A i \in 1..n : SubSeq(s, 1, n)[i] = s[i]
  BY <1>1, SubSeqProperties
<1> QED
  BY <1>1, <1>2, <1>3, SeqEqual

\* Handling the next event turns a prefix into the next longer one.
LEMMA PrefixGrows ==
    ASSUME NEW S, NEW s \in Seq(S), NEW n \in 0..(Len(s) - 1)
    PROVE  Append(SubSeq(s, 1, n), s[n + 1]) = SubSeq(s, 1, n + 1)
<1>1. /\ Len(s) \in Nat
      /\ n + 1 \in 1..Len(s)
      /\ \A i \in 1..(n + 1) : s[i] \in S
  BY LenProperties, ElementOfSeq
<1>2. SubSeq(s, 1, n + 1) = SubSeq(s, 1, n) \o <<s[n + 1]>>
  BY <1>1, SubSeqRecursiveSecond
<1>3. SubSeq(s, 1, n) \in Seq(S)
  BY <1>1, SubSeqProperties
<1> QED
  BY <1>1, <1>2, <1>3, AppendIsConcat
-----------------------------------------------------------------------------
(* Type correctness. *)

\* A call on its way to the event store carries an update of its own.
UpdateInHand ==
    \A c \in Commands :
        pc[c] \in {"append", "tombstone"} =>
            update[c] \in [force : BOOLEAN, batch : Batches(c)]

\* A pending promise of a snapshot carries one.
SnapshotInHand ==
    \A c \in Commands : saving[c] = "pending" => toSave[c] \in Snapshot

TypeInv == TypeOK /\ UpdateInHand /\ SnapshotInHand

\* Where a call goes next keeps the types of pc and outcome.
LEMMA MoveType ==
    ASSUME TypeOK, NEW c \in Commands
    PROVE  /\ \A step \in Step : Goto(c, step) =>
                 /\ pc' \in [Commands -> Step]
                 /\ outcome' \in [Commands -> Outcome]
           /\ \A how \in Outcome : Finish(c, how) =>
                 /\ pc' \in [Commands -> Step]
                 /\ outcome' \in [Commands -> Outcome]
  BY DEF TypeOK, Goto, Finish, Step

\* What hydrateStatus does at its end keeps the types of what it changes.
LEMMA HydratedType ==
    ASSUME TypeOK, NEW c \in Commands, NEW s \in Status, Hydrated(c, s)
    PROVE  /\ pc' \in [Commands -> Step]
           /\ outcome' \in [Commands -> Outcome]
           /\ saving' \in [Commands -> Saving]
           /\ toSave' \in [Commands -> Snapshot \cup {None}]
<1>1. [projectorVersion |-> Version[c], status |-> s] \in Snapshot
  BY CommandExecutionAssumption DEF Snapshot
<1>2. Goto(c, "decide")
  BY DEF Hydrated
<1>3. /\ saving' \in [Commands -> Saving]
      /\ toSave' \in [Commands -> Snapshot \cup {None}]
  BY <1>1 DEF TypeOK, Hydrated, Saving, saveVars
<1> QED
  BY <1>2, <1>3, MoveType DEF Step

\* The status after the first events of the stream is one.
LEMMA FoldOfType ==
    ASSUME log \in Seq(Event), NEW n \in 0..Len(log), NEW projector \in Nat
    PROVE  FoldOf(n, projector) \in Status
<1>1. Len(log) \in Nat
  BY LenProperties
<1>2. SubSeq(log, 1, n) \in Seq(Event)
  <2>1. \A i \in 1..n : log[i] \in Event
    BY <1>1, ElementOfSeq
  <2> QED
    BY <1>1, <2>1, SubSeqProperties
<1>3. n \in Nat /\ n - 1 \in Nat \cup {StateNew}
  BY <1>1 DEF StateNew
<1> QED
  BY <1>2, <1>3 DEF FoldOf, Status, State

\* The initial states are type correct.
LEMMA TypeInit == Init => TypeOK
<1> SUFFICES ASSUME Init PROVE TypeOK
  OBVIOUS
<1>1. log \in Seq(Event)
  <2>1. log \in Seq(Earlier) /\ Earlier \subseteq Event
    BY CommandExecutionAssumption DEF Init, Event
  <2> QED
    BY <2>1, SeqMonotonic
<1>2. status \in [Commands -> Status]
  BY InitialStatusType DEF Init
<1>3. /\ pc \in [Commands -> Step]
      /\ outcome \in [Commands -> Outcome]
      /\ saving \in [Commands -> Saving]
  BY DEF Init, Step, Outcome, Saving
<1>4. /\ cursor \in [Commands -> Nat]
      /\ snapshotUsed \in [Commands -> BOOLEAN]
      /\ deleted \in BOOLEAN
  BY DEF Init
<1>6. expected \in [Commands -> Int]
  <2>1. StateNew \in Int
    BY DEF StateNew
  <2> QED
    BY <2>1 DEF Init
<1>5. /\ update \in [Commands -> Update \cup {None}]
      /\ toSave \in [Commands -> Snapshot \cup {None}]
  BY DEF Init
<1>7. snapshot \in Snapshot \cup {None}
  <2> SUFFICES ASSUME NEW v \in Releases, NEW n \in 0..Len(log)
               PROVE  [projectorVersion |-> v, status |-> FoldOf(n, v)]
                        \in Snapshot
    BY DEF Init, StoredBefore
  <2>1. v \in Nat
    BY CommandExecutionAssumption
  <2> QED
    BY <1>1, <2>1, FoldOfType DEF Snapshot
<1> QED
  BY <1>1, <1>2, <1>3, <1>4, <1>5, <1>6, <1>7 DEF TypeOK

\* Every step of a call keeps the types.
LEMMA TypeStep == TypeInv /\ [Next]_vars => TypeOK'
<1> SUFFICES ASSUME TypeInv, [Next]_vars PROVE TypeOK'
  OBVIOUS
<1>0. TypeOK /\ UpdateInHand /\ SnapshotInHand
  BY DEF TypeInv
<1> USE DEF storeVars, readVars, writeVars, saveVars
<1>1. ASSUME NEW c \in Commands, Execute(c) PROVE TypeOK'
  <2>1. /\ pc' \in [Commands -> Step]
        /\ outcome' \in [Commands -> Outcome]
    BY <1>0, <1>1, MoveType DEF Execute, Step, Outcome
  <2> QED
    BY <1>0, <1>1, <2>1 DEF Execute, TypeOK
<1>2. ASSUME NEW c \in Commands, LoadSnapshot(c) PROVE TypeOK'
  <2>1. /\ pc' \in [Commands -> Step]
        /\ outcome' \in [Commands -> Outcome]
    BY <1>0, <1>2, MoveType DEF LoadSnapshot, Step
  <2>2. CASE Usable(c)
    <3>1. snapshot \in Snapshot
      BY <1>0, <2>2 DEF TypeOK, Usable
    <3>2. snapshot.status \in Status
      BY <3>1 DEF Snapshot
    <3>3. FromRevision(snapshot.status.revision) \in Nat
      <4>1. snapshot.status.revision \in Nat \cup {StateNew}
        BY <3>2 DEF Status
      <4> QED
        BY <4>1 DEF FromRevision
    <3>4. /\ status' \in [Commands -> Status]
          /\ cursor' \in [Commands -> Nat]
      BY <1>0, <1>2, <2>2, <3>2, <3>3 DEF LoadSnapshot, TypeOK
    <3>5. snapshotUsed' \in [Commands -> BOOLEAN]
      BY <1>0, <1>2, <2>2 DEF LoadSnapshot, TypeOK
    <3> QED
      BY <1>0, <1>2, <2>1, <3>4, <3>5 DEF LoadSnapshot, TypeOK
  <2>3. CASE ~Usable(c)
    BY <1>0, <1>2, <2>1, <2>3 DEF LoadSnapshot, TypeOK
  <2> QED
    BY <2>2, <2>3
<1>3. ASSUME NEW c \in Commands, LoadSnapshotFails(c) PROVE TypeOK'
  <2>1. /\ pc' \in [Commands -> Step]
        /\ outcome' \in [Commands -> Outcome]
    BY <1>0, <1>3, MoveType DEF LoadSnapshotFails, Outcome
  <2> QED
    BY <1>0, <1>3, <2>1 DEF LoadSnapshotFails, TypeOK
<1>4. ASSUME NEW c \in Commands, Hydrate(c) PROVE TypeOK'
  <2>1. cursor[c] \in Nat /\ cursor[c] + 1 \in 1..Len(log)
    BY <1>0, <1>4, LenProperties DEF TypeOK, Hydrate, NextEvent
  <2>2. log[cursor[c] + 1] \in Event
    BY <1>0, <2>1, ElementOfSeq DEF TypeOK
  <2>3. Handled(Counted(status[c], cursor[c]), log[cursor[c] + 1]) \in Status
    BY <1>0, <2>1, <2>2, HandledType DEF TypeOK
  <2> QED
    BY <1>0, <1>4, <2>1, <2>3 DEF Hydrate, TypeOK
<1>5. ASSUME NEW c \in Commands, HydrationThrows(c) PROVE TypeOK'
  <2>1. CASE snapshotUsed[c]
    <3>0. InitialStatus(c) \in Status
      BY InitialStatusType
    <3>1. /\ status' \in [Commands -> Status]
          /\ cursor' \in [Commands -> Nat]
      <4>1. /\ status' = [status EXCEPT ![c] = InitialStatus(c)]
            /\ cursor' = [cursor EXCEPT ![c] = 0]
        BY <1>5, <2>1 DEF HydrationThrows
      <4>2. status' \in [Commands -> Status]
        BY <1>0, <3>0, <4>1 DEF TypeOK
      <4>3. cursor' \in [Commands -> Nat]
        BY <1>0, <4>1 DEF TypeOK
      <4> QED
        BY <4>2, <4>3
    <3>2. snapshotUsed' \in [Commands -> BOOLEAN]
      BY <1>0, <1>5, <2>1 DEF HydrationThrows, TypeOK
    <3> QED
      BY <1>0, <1>5, <2>1, <3>1, <3>2 DEF HydrationThrows, TypeOK
  <2>2. CASE ~snapshotUsed[c]
    <3>1. /\ pc' \in [Commands -> Step]
          /\ outcome' \in [Commands -> Outcome]
      BY <1>0, <1>5, <2>2, MoveType DEF HydrationThrows, Outcome
    <3> QED
      BY <1>0, <1>5, <2>2, <3>1 DEF HydrationThrows, TypeOK
  <2> QED
    BY <2>1, <2>2
<1>6. ASSUME NEW c \in Commands, EndOfStream(c) PROVE TypeOK'
  <2>1. status[c] \in Status /\ Hydrated(c, status[c])
    BY <1>0, <1>6 DEF TypeOK, EndOfStream
  <2> QED
    BY <1>0, <1>6, <2>1, HydratedType DEF EndOfStream, Hydrated, TypeOK
<1>7. ASSUME NEW c \in Commands, HandlerNotFound(c) PROVE TypeOK'
  <2>1. Counted(status[c], cursor[c]) \in Status
    BY <1>0, <1>7 DEF HandlerNotFound, NextEvent, TypeOK, Counted, Status
  <2>2. /\ Hydrated(c, Counted(status[c], cursor[c]))
        /\ status' = [status EXCEPT ![c] = Counted(status[c], cursor[c])]
    BY <1>0, <1>7 DEF HandlerNotFound
  <2> QED
    BY <1>0, <2>1, <2>2, HydratedType DEF Hydrated, TypeOK
<1>8. ASSUME NEW c \in Commands, Decide(c) PROVE TypeOK'
  <2>1. /\ pc' \in [Commands -> Step]
        /\ outcome' \in [Commands -> Outcome]
    BY <1>0, <1>8, MoveType DEF Decide, Step, Outcome
  <2>2. update' \in [Commands -> Update \cup {None}]
    <3>1. \A force \in BOOLEAN, batch \in Batches(c) :
             [force |-> force, batch |-> batch] \in Update
      BY BatchType DEF Update
    <3>2. CASE UNCHANGED update
      BY <1>0, <3>2 DEF TypeOK
    <3>3. CASE \E force \in BOOLEAN, batch \in Batches(c) :
                 update' = [update EXCEPT
                              ![c] = [force |-> force, batch |-> batch]]
      BY <1>0, <3>1, <3>3 DEF TypeOK
    <3> QED
      BY <1>0, <1>8, <3>2, <3>3 DEF Decide
  <2> QED
    BY <1>0, <1>8, <2>1, <2>2 DEF Decide, TypeOK
<1>9. ASSUME NEW c \in Commands, AppendEvents(c) PROVE TypeOK'
  <2>1. /\ pc' \in [Commands -> Step]
        /\ outcome' \in [Commands -> Outcome]
    BY <1>0, <1>9, MoveType DEF AppendEvents, AfterAppend, Step, Outcome
  <2>2. update[c].batch \in Seq(Event)
    BY <1>0, <1>9, BatchType DEF UpdateInHand, AppendEvents
  <2>3. log' \in Seq(Event)
    BY <1>0, <1>9, <2>2, ConcatProperties DEF AppendEvents, Batch, TypeOK
  <2>4. expected' \in [Commands -> Int]
    BY <1>0, <1>9, <2>2, LenProperties DEF AppendEvents, Batch, TypeOK
  <2> QED
    BY <1>0, <1>9, <2>1, <2>3, <2>4 DEF AppendEvents, TypeOK
<1>10. ASSUME NEW c \in Commands, AppendRefused(c) PROVE TypeOK'
  <2>1. /\ pc' \in [Commands -> Step]
        /\ outcome' \in [Commands -> Outcome]
    BY <1>0, <1>10, MoveType DEF AppendRefused, Outcome
  <2> QED
    BY <1>0, <1>10, <2>1 DEF AppendRefused, TypeOK
<1>11. ASSUME NEW c \in Commands, Tombstone(c) PROVE TypeOK'
  <2>1. /\ pc' \in [Commands -> Step]
        /\ outcome' \in [Commands -> Outcome]
    BY <1>0, <1>11, MoveType DEF Tombstone, Step, Outcome
  <2> QED
    BY <1>0, <1>11, <2>1 DEF Tombstone, TypeOK
<1>12. ASSUME NEW c \in Commands, TombstoneRefused(c) PROVE TypeOK'
  <2>1. /\ pc' \in [Commands -> Step]
        /\ outcome' \in [Commands -> Outcome]
    BY <1>0, <1>12, MoveType DEF TombstoneRefused, Outcome
  <2> QED
    BY <1>0, <1>12, <2>1 DEF TombstoneRefused, TypeOK
<1>13. ASSUME NEW c \in Commands, Settle(c) PROVE TypeOK'
  <2>1. /\ pc' \in [Commands -> Step]
        /\ outcome' \in [Commands -> Outcome]
    BY <1>0, <1>13, MoveType DEF Settle, Outcome
  <2> QED
    BY <1>0, <1>13, <2>1 DEF Settle, TypeOK
<1>14. ASSUME NEW c \in Commands, Save(c) PROVE TypeOK'
  <2>1. toSave[c] \in Snapshot
    BY <1>0, <1>14 DEF Save, SnapshotInHand
  <2>2. snapshot' \in Snapshot \cup {None}
    BY <1>0, <1>14, <2>1 DEF Save, TypeOK
  <2>3. saving' \in [Commands -> Saving]
    BY <1>0, <1>14 DEF Save, Saving, TypeOK
  <2> QED
    BY <1>0, <1>14, <2>2, <2>3 DEF Save, TypeOK
<1>15. ASSUME NEW c \in Commands, Crash(c) PROVE TypeOK'
  <2>1. /\ pc' \in [Commands -> Step]
        /\ outcome' \in [Commands -> Outcome]
    BY <1>0, <1>15, MoveType DEF Crash, Outcome
  <2> QED
    BY <1>0, <1>15, <2>1 DEF Crash, TypeOK
<1>16. CASE UNCHANGED vars
  BY <1>0, <1>16 DEF vars, TypeOK
<1> QED
  BY <1>1, <1>2, <1>3, <1>4, <1>5, <1>6, <1>7, <1>8, <1>9, <1>10, <1>11,
     <1>12, <1>13, <1>14, <1>15, <1>16 DEF Next, Advance

\* A call that is about to append or to tombstone has a batch in hand.
LEMMA InHandStep ==
    TypeInv /\ [Next]_vars => UpdateInHand' /\ SnapshotInHand'
<1> SUFFICES ASSUME TypeInv, [Next]_vars
             PROVE  UpdateInHand' /\ SnapshotInHand'
  OBVIOUS
<1>0. TypeOK /\ UpdateInHand /\ SnapshotInHand
  BY DEF TypeInv
<1> USE DEF storeVars, readVars, writeVars, saveVars
\* Only Decide and AppendEvents lead to an await of the event store.
<1>1. UpdateInHand'
  <2>1. ASSUME NEW c \in Commands, Decide(c) PROVE UpdateInHand'
    BY <1>0, <2>1 DEF Decide, Goto, Finish, UpdateInHand, TypeOK
  <2>2. ASSUME NEW c \in Commands, AppendEvents(c) PROVE UpdateInHand'
    <3>1. UNCHANGED update /\ \A d \in Commands : d # c => pc'[d] = pc[d]
      BY <1>0, <2>2 DEF AppendEvents, Goto, Finish, TypeOK
    <3>2. update[c] \in [force : BOOLEAN, batch : Batches(c)]
      BY <1>0, <2>2 DEF AppendEvents, UpdateInHand
    <3> QED
      BY <1>0, <3>1, <3>2 DEF UpdateInHand
  <2>3. ASSUME NEW c \in Commands,
               \/ Execute(c) \/ LoadSnapshot(c) \/ LoadSnapshotFails(c)
               \/ Hydrate(c) \/ HydrationThrows(c) \/ EndOfStream(c)
               \/ HandlerNotFound(c) \/ AppendRefused(c) \/ Tombstone(c)
               \/ TombstoneRefused(c) \/ Settle(c) \/ Save(c) \/ Crash(c)
        PROVE  UpdateInHand'
    <3>1. UNCHANGED update
      BY <2>3
      DEF Execute, LoadSnapshot, LoadSnapshotFails, Hydrate, HydrationThrows,
          EndOfStream, HandlerNotFound, Hydrated, AppendRefused, Tombstone,
          TombstoneRefused, Settle, Save, Crash
    <3>2. /\ \A d \in Commands \ {c} : pc'[d] = pc[d]
          /\ pc'[c] \in {"append", "tombstone"} => pc'[c] = pc[c]
      BY <1>0, <2>3
      DEF Execute, LoadSnapshot, LoadSnapshotFails, Hydrate, HydrationThrows,
          EndOfStream, HandlerNotFound, Hydrated, AppendRefused, Tombstone,
          TombstoneRefused, Settle, Save, Crash, Goto, Finish, TypeOK
    <3> QED
      BY <1>0, <3>1, <3>2 DEF UpdateInHand
  <2>4. CASE UNCHANGED vars
    BY <1>0, <2>4 DEF vars, UpdateInHand
  <2> QED
    BY <2>1, <2>2, <2>3, <2>4 DEF Next, Advance
\* Only the end of a hydration makes a promise.
<1>2. SnapshotInHand'
  <2>1. ASSUME NEW c \in Commands, NEW s \in Status, Hydrated(c, s)
        PROVE  SnapshotInHand'
    <3>1. [projectorVersion |-> Version[c], status |-> s] \in Snapshot
      BY CommandExecutionAssumption DEF Snapshot
    <3> QED
      BY <1>0, <2>1, <3>1 DEF Hydrated, SnapshotInHand, TypeOK
  <2>2. ASSUME NEW c \in Commands, EndOfStream(c) PROVE SnapshotInHand'
    BY <1>0, <2>1, <2>2 DEF EndOfStream, TypeOK
  <2>3. ASSUME NEW c \in Commands, HandlerNotFound(c) PROVE SnapshotInHand'
    <3>1. Counted(status[c], cursor[c]) \in Status
      BY <1>0, <2>3 DEF HandlerNotFound, NextEvent, TypeOK, Counted, Status
    <3> QED
      BY <2>1, <2>3, <3>1 DEF HandlerNotFound
  <2>4. ASSUME NEW c \in Commands, Save(c) PROVE SnapshotInHand'
    BY <1>0, <2>4 DEF Save, SnapshotInHand, TypeOK
  <2>5. ASSUME NEW c \in Commands,
               \/ Execute(c) \/ LoadSnapshot(c) \/ LoadSnapshotFails(c)
               \/ Hydrate(c) \/ HydrationThrows(c) \/ Decide(c)
               \/ AppendEvents(c) \/ AppendRefused(c) \/ Tombstone(c)
               \/ TombstoneRefused(c) \/ Settle(c) \/ Crash(c)
        PROVE  SnapshotInHand'
    <3>1. UNCHANGED saveVars
      BY <2>5
      DEF Execute, LoadSnapshot, LoadSnapshotFails, Hydrate, HydrationThrows,
          Decide, AppendEvents, AppendRefused, Tombstone, TombstoneRefused,
          Settle, Crash
    <3> QED
      BY <1>0, <3>1 DEF SnapshotInHand
  <2>6. CASE UNCHANGED vars
    BY <1>0, <2>6 DEF vars, SnapshotInHand
  <2> QED
    BY <2>2, <2>3, <2>4, <2>5, <2>6 DEF Next, Advance
<1> QED
  BY <1>1, <1>2

\* The variables always have their types, for every number of calls, in every
\* snapshot configuration, whatever handlers throw and stores give back.
THEOREM TypeCorrect == Spec => []TypeOK
<1>1. Init => TypeInv
  BY TypeInit DEF Init, TypeInv, UpdateInHand, SnapshotInHand
<1>2. TypeInv /\ [Next]_vars => TypeInv'
  BY TypeStep, InHandStep DEF TypeInv
<1>3. TypeInv => TypeOK
  BY DEF TypeInv
<1> QED
  BY <1>1, <1>2, <1>3, PTL DEF Spec
-----------------------------------------------------------------------------
(* Optimistic concurrency control. *)

\* The snapshot store gives revisions back as they were, and NotFoundErrors
\* come from the event store alone.
Exact == BigintSurvives /\ ~NotFoundHandlers

\* Every status, whatever its call is doing, is the state of a prefix.
StatusIsFold == \A c \in Commands : IsFold(status[c], Version[c])

\* A read goes on right behind the prefix its status stands for.
ReadPosition ==
    \A c \in Commands :
        pc[c] \in {"idle", "snapshot", "read"} =>
            cursor[c] = status[c].aggregateVersion

\* So is every snapshot whose write is under way.
PendingIsFold ==
    \A c \in Commands :
        saving[c] = "pending" =>
            IsFold(toSave[c].status, toSave[c].projectorVersion)

\* A call that has not appended yet has no event in the stream.
NothingYet ==
    \A c \in Commands :
        pc[c] \in {"idle", "snapshot", "read", "decide", "append"} =>
            \A i \in 1..Len(log) : log[i].by # c

FoldInv == SnapshotIsFold /\ StatusIsFold /\ ReadPosition /\ PendingIsFold

ConcurrencyInv == TypeInv /\ FoldInv /\ NothingYet /\ DecidedOnCurrentState

\* The initial status is the state of the empty prefix.
LEMMA InitialStatusIsFold ==
    ASSUME TypeOK, NEW c \in Commands
    PROVE  IsFold(InitialStatus(c), Version[c])
<1>1. SubSeq(log, 1, 0) = <<>>
  BY SubSeqEmpty
<1>2. Len(log) \in Nat
  BY LenProperties DEF TypeOK
<1> QED
  BY <1>1, <1>2 DEF IsFold, FoldOf, InitialStatus, StateNew

\* Appending events leaves the state of every prefix what it was.
LEMMA FoldKept ==
    ASSUME TypeOK, NEW batch \in Seq(Event), log' = log \o batch,
           NEW s, NEW projector, IsFold(s, projector)
    PROVE  IsFold(s, projector)'
<1>1. Len(log) \in Nat /\ Len(batch) \in Nat
  BY LenProperties DEF TypeOK
<1>2. Len(log') = Len(log) + Len(batch)
  BY ConcatProperties DEF TypeOK
<1>3. s.aggregateVersion \in 0..Len(log)
  BY DEF IsFold, FoldOf
<1>4. SubSeq(log', 1, s.aggregateVersion) = SubSeq(log, 1, s.aggregateVersion)
  BY <1>3, PrefixKept DEF TypeOK
<1>5. /\ s.aggregateVersion \in 0..Len(log')
      /\ s.revision = s.aggregateVersion - 1
  BY <1>1, <1>2, <1>3 DEF IsFold, FoldOf
<1>6. s.state = [projector |-> projector,
                 events |-> SubSeq(log', 1, s.aggregateVersion)]
  BY <1>4 DEF IsFold, FoldOf
<1> QED
  BY <1>5, <1>6 DEF IsFold, FoldOf

\* Handling the event behind a prefix gives the state of the longer prefix.
LEMMA FoldGrows ==
    ASSUME TypeOK, NEW s \in Status, NEW projector, IsFold(s, projector),
           s.aggregateVersion < Len(log)
    PROVE  IsFold(Handled(Counted(s, s.aggregateVersion),
                          log[s.aggregateVersion + 1]), projector)
<1> DEFINE n == s.aggregateVersion
<1>1. n \in 0..(Len(log) - 1) /\ Len(log) \in Nat
  BY LenProperties DEF TypeOK, IsFold, FoldOf
<1>2. Append(SubSeq(log, 1, n), log[n + 1]) = SubSeq(log, 1, n + 1)
  BY <1>1, PrefixGrows DEF TypeOK
<1>3. s.state = [projector |-> projector, events |-> SubSeq(log, 1, n)]
  BY DEF IsFold, FoldOf
<1> DEFINE counted == Counted(s, n)
           handled == Handled(counted, log[n + 1])
<1>4. counted = [revision |-> n, aggregateVersion |-> n + 1,
                 state |-> [projector |-> projector,
                            events |-> SubSeq(log, 1, n)]]
  BY <1>3 DEF Counted
<1>5. /\ handled.revision = n
      /\ handled.aggregateVersion = n + 1
      /\ handled.state = [projector |-> counted.state.projector,
                           events |-> Append(counted.state.events, log[n + 1])]
  BY <1>4 DEF Handled
<1>6. handled.state = [projector |-> projector,
                       events |-> SubSeq(log, 1, n + 1)]
  <2>1. /\ counted.state.projector = projector
        /\ counted.state.events = SubSeq(log, 1, n)
    BY <1>4
  <2> QED
    BY <1>2, <1>5, <2>1
<1>7. handled = [revision |-> n, aggregateVersion |-> n + 1,
                 state |-> handled.state]
  BY <1>4 DEF Handled
<1>8. handled = FoldOf(n + 1, projector)
  <2>1. (n + 1) - 1 = n
    BY <1>1
  <2>2. FoldOf(n + 1, projector) =
          [revision |-> n, aggregateVersion |-> n + 1,
           state |-> handled.state]
    BY <1>6, <2>1 DEF FoldOf
  <2> HIDE DEF handled
  <2> QED
    BY <1>7, <2>2
<1> QED
  BY <1>1, <1>5, <1>8 DEF IsFold

\* Steps that leave the stream alone keep the folds they do not touch.
LEMMA FoldInvKept ==
    ASSUME FoldInv, UNCHANGED <<log, snapshot>>, NEW c \in Commands,
           \A d \in Commands \ {c} :
             /\ status'[d] = status[d]
             /\ cursor'[d] = cursor[d]
             /\ pc'[d] = pc[d]
             /\ saving'[d] = saving[d]
             /\ toSave'[d] = toSave[d],
           IsFold(status'[c], Version[c]),
           pc'[c] \in {"idle", "snapshot", "read"} =>
             cursor'[c] = status'[c].aggregateVersion,
           saving'[c] = "pending" =>
             IsFold(toSave'[c].status, toSave'[c].projectorVersion)
    PROVE  FoldInv'
<1>1. \A s, projector : IsFold(s, projector) <=> IsFold(s, projector)'
  BY DEF IsFold, FoldOf
<1>2. SnapshotIsFold'
  BY <1>1 DEF FoldInv, SnapshotIsFold, IsFold, FoldOf
<1>3. StatusIsFold'
  BY <1>1 DEF FoldInv, StatusIsFold, IsFold, FoldOf
<1>4. ReadPosition'
  BY DEF FoldInv, ReadPosition
<1>5. PendingIsFold'
  BY <1>1 DEF FoldInv, PendingIsFold, IsFold, FoldOf
<1> QED
  BY <1>2, <1>3, <1>4, <1>5 DEF FoldInv

\* Every step keeps all statuses and snapshots folds of the stream.
LEMMA FoldStep ==
    ASSUME Exact
    PROVE  TypeInv /\ FoldInv /\ [Next]_vars => FoldInv'
<1> SUFFICES ASSUME TypeInv, FoldInv, [Next]_vars PROVE FoldInv'
  OBVIOUS
<1>0. TypeOK /\ UpdateInHand /\ SnapshotInHand
  BY DEF TypeInv
<1> USE DEF storeVars, readVars, writeVars, saveVars
<1>1. ASSUME NEW c \in Commands,
             \/ Execute(c) \/ LoadSnapshotFails(c) \/ Decide(c)
             \/ AppendRefused(c) \/ Tombstone(c) \/ TombstoneRefused(c)
             \/ Settle(c) \/ Crash(c)
      PROVE  FoldInv'
  <2>1. UNCHANGED <<log, snapshot, readVars, saveVars>>
    BY <1>1
    DEF Execute, LoadSnapshotFails, Decide, AppendRefused, Tombstone,
        TombstoneRefused, Settle, Crash
  <2>2. /\ \A d \in Commands \ {c} : pc'[d] = pc[d]
        /\ pc'[c] \in {"idle", "snapshot", "read"} =>
             pc[c] \in {"idle", "snapshot", "read"}
    BY <1>0, <1>1
    DEF Execute, LoadSnapshotFails, Decide, AppendRefused, Tombstone,
        TombstoneRefused, Settle, Crash, Goto, Finish, TypeOK
  <2> QED
    BY <2>1, <2>2
    DEF FoldInv, SnapshotIsFold, StatusIsFold, ReadPosition, PendingIsFold,
        IsFold, FoldOf
\* The snapshot is the state of a prefix, and the read goes on behind it.
<1>2. ASSUME NEW c \in Commands, LoadSnapshot(c) PROVE FoldInv'
  <2>1. UNCHANGED <<log, snapshot, saveVars>>
    BY <1>2 DEF LoadSnapshot
  <2>2. \A d \in Commands \ {c} : /\ status'[d] = status[d]
                                  /\ cursor'[d] = cursor[d]
                                  /\ pc'[d] = pc[d]
    BY <1>0, <1>2 DEF LoadSnapshot, Goto, TypeOK
  <2>3. /\ IsFold(status'[c], Version[c])
        /\ cursor'[c] = status'[c].aggregateVersion
    <3>1. CASE Usable(c)
      <4>1. /\ status'[c] = snapshot.status
            /\ cursor'[c] = FromRevision(snapshot.status.revision)
        BY <1>0, <1>2, <3>1 DEF LoadSnapshot, TypeOK
      <4>2. IsFold(snapshot.status, Version[c])
        BY <3>1 DEF FoldInv, SnapshotIsFold, Usable
      <4>3. FromRevision(snapshot.status.revision) =
              snapshot.status.aggregateVersion
        BY <1>0, <4>2, LenProperties
        DEF FromRevision, IsFold, FoldOf, StateNew, Exact, TypeOK
      <4> QED
        BY <4>1, <4>2, <4>3
    <3>2. CASE ~Usable(c)
      <4>1. UNCHANGED readVars /\ pc[c] = "snapshot"
        BY <1>2, <3>2 DEF LoadSnapshot
      <4> QED
        BY <4>1 DEF FoldInv, StatusIsFold, ReadPosition
    <3> QED
      BY <3>1, <3>2
  <2>4. saving'[c] = "pending" =>
          IsFold(toSave'[c].status, toSave'[c].projectorVersion)
    BY <2>1 DEF FoldInv, PendingIsFold
  <2> QED
    BY <2>1, <2>2, <2>3, <2>4, FoldInvKept
<1>3. ASSUME NEW c \in Commands, Hydrate(c) PROVE FoldInv'
  <2>1. UNCHANGED <<log, snapshot, pc, saveVars>>
    BY <1>3 DEF Hydrate
  <2>2. \A d \in Commands \ {c} : /\ status'[d] = status[d]
                                  /\ cursor'[d] = cursor[d]
    BY <1>0, <1>3 DEF Hydrate, TypeOK
  <2>3. /\ IsFold(status'[c], Version[c])
        /\ cursor'[c] = status'[c].aggregateVersion
    <3> DEFINE n == status[c].aggregateVersion
    <3>1. /\ cursor[c] = n
          /\ n < Len(log)
          /\ IsFold(status[c], Version[c])
          /\ status[c] \in Status
      BY <1>0, <1>3
      DEF Hydrate, NextEvent, FoldInv, ReadPosition, StatusIsFold, TypeOK
    <3>2. /\ status'[c] = Handled(Counted(status[c], n), log[n + 1])
          /\ cursor'[c] = n + 1
      BY <1>0, <1>3, <3>1 DEF Hydrate, TypeOK
    <3>3. IsFold(status'[c], Version[c])
      BY <1>0, <3>1, <3>2, FoldGrows
    <3>4. status'[c].aggregateVersion = n + 1
      BY <3>1, <3>2 DEF Handled, Counted
    <3> QED
      BY <3>2, <3>3, <3>4
  <2>4. saving'[c] = "pending" =>
          IsFold(toSave'[c].status, toSave'[c].projectorVersion)
    BY <2>1 DEF FoldInv, PendingIsFold
  <2> QED
    BY <2>1, <2>2, <2>3, <2>4, FoldInvKept
\* A second attempt starts from the empty prefix.
<1>4. ASSUME NEW c \in Commands, HydrationThrows(c) PROVE FoldInv'
  <2>1. UNCHANGED <<log, snapshot, saveVars>>
    BY <1>4 DEF HydrationThrows
  <2>2. \A d \in Commands \ {c} : /\ status'[d] = status[d]
                                  /\ cursor'[d] = cursor[d]
                                  /\ pc'[d] = pc[d]
    BY <1>0, <1>4 DEF HydrationThrows, Finish, TypeOK
  <2>3. /\ IsFold(status'[c], Version[c])
        /\ cursor'[c] = status'[c].aggregateVersion
    <3>1. CASE snapshotUsed[c]
      <4>1. status'[c] = InitialStatus(c) /\ cursor'[c] = 0
        BY <1>0, <1>4, <3>1 DEF HydrationThrows, TypeOK
      <4>2. InitialStatus(c).aggregateVersion = 0
        BY DEF InitialStatus
      <4> QED
        BY <1>0, <4>1, <4>2, InitialStatusIsFold
    <3>2. CASE ~snapshotUsed[c]
      <4>1. UNCHANGED readVars /\ pc[c] = "read"
        BY <1>4, <3>2 DEF HydrationThrows
      <4> QED
        BY <4>1 DEF FoldInv, StatusIsFold, ReadPosition
    <3> QED
      BY <3>1, <3>2
  <2>4. saving'[c] = "pending" =>
          IsFold(toSave'[c].status, toSave'[c].projectorVersion)
    BY <2>1 DEF FoldInv, PendingIsFold
  <2> QED
    BY <2>1, <2>2, <2>3, <2>4, FoldInvKept
\* What is to be stored is the status itself.
<1>5. ASSUME NEW c \in Commands, EndOfStream(c) PROVE FoldInv'
  <2>1. Hydrated(c, status[c]) /\ UNCHANGED status
    BY <1>5 DEF EndOfStream
  <2>2. UNCHANGED <<log, snapshot, status, cursor>>
    BY <2>1 DEF Hydrated
  <2>3. /\ pc'[c] = "decide"
        /\ \A d \in Commands \ {c} : /\ pc'[d] = pc[d]
                                     /\ saving'[d] = saving[d]
                                     /\ toSave'[d] = toSave[d]
    BY <1>0, <2>1 DEF Hydrated, Goto, TypeOK
  <2>4. IsFold(status'[c], Version[c])
    BY <2>2 DEF FoldInv, StatusIsFold
  <2>5. saving'[c] = "pending" =>
          IsFold(toSave'[c].status, toSave'[c].projectorVersion)
    <3>1. CASE toSave' = [toSave EXCEPT
                   ![c] = [projectorVersion |-> Version[c],
                           status |-> status[c]]]
      <4>1. toSave'[c] = [projectorVersion |-> Version[c],
                          status |-> status[c]]
        BY <1>0, <3>1 DEF TypeOK
      <4> QED
        BY <2>2, <2>4, <4>1
    <3>2. CASE UNCHANGED saveVars
      BY <3>2 DEF FoldInv, PendingIsFold
    <3> QED
      BY <2>1, <3>1, <3>2 DEF Hydrated
  <2> QED
    BY <2>2, <2>3, <2>4, <2>5, FoldInvKept
\* A longer stream has all the prefixes it had.
<1>6. ASSUME NEW c \in Commands, AppendEvents(c) PROVE FoldInv'
  <2>1. log' = log \o update[c].batch /\ update[c].batch \in Seq(Event)
    BY <1>0, <1>6, BatchType DEF AppendEvents, Batch, UpdateInHand
  <2>2. \A s, projector : IsFold(s, projector) => IsFold(s, projector)'
    BY <1>0, <2>1, FoldKept
  <2>3. UNCHANGED <<snapshot, readVars, saveVars>>
    BY <1>6 DEF AppendEvents
  <2>4. \A d \in Commands : pc'[d] \in {"idle", "snapshot", "read"} =>
          pc'[d] = pc[d]
    BY <1>0, <1>6 DEF AppendEvents, AfterAppend, Goto, Finish, TypeOK
  <2>5. SnapshotIsFold'
    BY <2>2, <2>3 DEF FoldInv, SnapshotIsFold
  <2>6. StatusIsFold'
    BY <2>2, <2>3 DEF FoldInv, StatusIsFold
  <2>7. ReadPosition'
    BY <2>3, <2>4 DEF FoldInv, ReadPosition
  <2>8. PendingIsFold'
    BY <2>2, <2>3 DEF FoldInv, PendingIsFold
  <2> QED
    BY <2>5, <2>6, <2>7, <2>8 DEF FoldInv
\* Whichever pending snapshot arrives, it is the state of some prefix.
<1>7. ASSUME NEW c \in Commands, Save(c) PROVE FoldInv'
  <2>1. UNCHANGED <<log, pc, readVars, toSave>>
    BY <1>7 DEF Save
  <2>2. \A s, projector : IsFold(s, projector) <=> IsFold(s, projector)'
    BY <2>1 DEF IsFold, FoldOf
  <2>3. SnapshotIsFold'
    <3>1. CASE snapshot' = toSave[c]
      BY <1>7, <2>2, <3>1 DEF Save, FoldInv, PendingIsFold, SnapshotIsFold
    <3>2. CASE UNCHANGED snapshot
      BY <2>2, <3>2 DEF FoldInv, SnapshotIsFold
    <3> QED
      BY <1>7, <3>1, <3>2 DEF Save
  <2>4. StatusIsFold' /\ ReadPosition'
    BY <2>1, <2>2 DEF FoldInv, StatusIsFold, ReadPosition
  <2>5. PendingIsFold'
    <3>1. \A d \in Commands : saving'[d] = "pending" => saving[d] = "pending"
      BY <1>0, <1>7 DEF Save, TypeOK
    <3> QED
      BY <2>1, <2>2, <3>1 DEF FoldInv, PendingIsFold
  <2> QED
    BY <2>3, <2>4, <2>5 DEF FoldInv
<1>8. ASSUME NEW c \in Commands, HandlerNotFound(c) PROVE FoldInv'
  BY <1>8 DEF HandlerNotFound, Exact
<1>9. CASE UNCHANGED vars
  BY <1>9
  DEF vars, FoldInv, SnapshotIsFold, StatusIsFold, ReadPosition,
      PendingIsFold, IsFold, FoldOf
<1> QED
  BY <1>1, <1>2, <1>3, <1>4, <1>5, <1>6, <1>7, <1>8, <1>9 DEF Next, Advance

\* A call that is not behind its append has nothing in the stream.
LEMMA NothingYetStep == TypeInv /\ NothingYet /\ [Next]_vars => NothingYet'
<1> SUFFICES ASSUME TypeInv, NothingYet, [Next]_vars PROVE NothingYet'
  OBVIOUS
<1>0. TypeOK /\ UpdateInHand
  BY DEF TypeInv
<1> USE DEF storeVars, readVars, writeVars, saveVars
<1>1. ASSUME NEW c \in Commands,
             \/ Execute(c) \/ LoadSnapshot(c) \/ LoadSnapshotFails(c)
             \/ Hydrate(c) \/ HydrationThrows(c) \/ EndOfStream(c)
             \/ HandlerNotFound(c) \/ Decide(c) \/ AppendRefused(c)
             \/ Tombstone(c) \/ TombstoneRefused(c) \/ Settle(c)
             \/ Save(c) \/ Crash(c)
      PROVE  NothingYet'
  <2>1. UNCHANGED log /\ \A d \in Commands \ {c} : pc'[d] = pc[d]
    BY <1>0, <1>1
    DEF Execute, LoadSnapshot, LoadSnapshotFails, Hydrate, HydrationThrows,
        EndOfStream, HandlerNotFound, Hydrated, Decide, AppendRefused,
        Tombstone, TombstoneRefused, Settle, Save, Crash, Goto, Finish, TypeOK
  <2>2. \/ pc[c] \in {"idle", "snapshot", "read", "decide"}
        \/ pc'[c] = pc[c]
        \/ pc'[c] \in {"settle", "done"}
    BY <1>0, <1>1
    DEF Execute, LoadSnapshot, LoadSnapshotFails, Hydrate, HydrationThrows,
        EndOfStream, HandlerNotFound, NextEvent, Decide, AppendRefused,
        Tombstone, TombstoneRefused, Settle, Save, Crash, Goto, Finish, TypeOK
  <2> QED
    BY <2>1, <2>2 DEF NothingYet
<1>2. ASSUME NEW c \in Commands, AppendEvents(c) PROVE NothingYet'
  <2> DEFINE batch == update[c].batch
  <2>1. /\ log' = log \o batch
        /\ batch \in Seq(Event)
        /\ \A i \in 1..Len(batch) : batch[i].by = c
    BY <1>0, <1>2, BatchType DEF AppendEvents, Batch, UpdateInHand
  <2>2. /\ Len(log) \in Nat
        /\ Len(log') = Len(log) + Len(batch)
        /\ \A i \in 1..Len(log) : log'[i] = log[i]
        /\ \A i \in (Len(log) + 1)..Len(log') : log'[i].by = c
    <3>1. log \in Seq(Event)
      BY <1>0 DEF TypeOK
    <3> QED
      BY <2>1, <3>1, Concatenation
  <2>3. /\ pc'[c] \in {"tombstone", "settle", "done"}
        /\ \A d \in Commands \ {c} : pc'[d] = pc[d]
    BY <1>0, <1>2 DEF AppendEvents, AfterAppend, Goto, Finish, TypeOK
  <2> SUFFICES ASSUME NEW d \in Commands, NEW i \in 1..Len(log'),
                      pc'[d] \in {"idle", "snapshot", "read", "decide", "append"}
               PROVE  log'[i].by # d
    BY DEF NothingYet
  <2>4. d # c /\ pc'[d] = pc[d]
    BY <2>3
  <2>5. CASE i \in 1..Len(log)
    BY <2>2, <2>4, <2>5 DEF NothingYet
  <2>6. CASE i \in (Len(log) + 1)..Len(log')
    BY <2>2, <2>4, <2>6
  <2> QED
    BY <2>2, <2>5, <2>6
<1>3. CASE UNCHANGED vars
  BY <1>3 DEF vars, NothingYet
<1> QED
  BY <1>1, <1>2, <1>3 DEF Next, Advance

\* Every step keeps the agreement of a batch with what it was decided on.
LEMMA ConcurrencyStep ==
    ASSUME Exact
    PROVE  ConcurrencyInv /\ [Next]_vars => DecidedOnCurrentState'
<1> SUFFICES ASSUME ConcurrencyInv, [Next]_vars
             PROVE  DecidedOnCurrentState'
  OBVIOUS
<1>0. /\ TypeInv /\ TypeOK /\ UpdateInHand
      /\ FoldInv /\ StatusIsFold
      /\ NothingYet /\ DecidedOnCurrentState
  BY DEF ConcurrencyInv, TypeInv, FoldInv
<1> USE DEF storeVars, readVars, writeVars, saveVars
\* A step that does not append: a call whose events are in the stream has
\* its status and its update behind it.
<1>1. ASSUME NEW c \in Commands,
             \/ Execute(c) \/ LoadSnapshot(c) \/ LoadSnapshotFails(c)
             \/ Hydrate(c) \/ HydrationThrows(c) \/ EndOfStream(c)
             \/ HandlerNotFound(c) \/ Decide(c) \/ AppendRefused(c)
             \/ Tombstone(c) \/ TombstoneRefused(c) \/ Settle(c)
             \/ Save(c) \/ Crash(c)
      PROVE  DecidedOnCurrentState'
  <2>1. /\ UNCHANGED log
        /\ \A d \in Commands \ {c} : /\ status'[d] = status[d]
                                     /\ update'[d] = update[d]
    BY <1>0, <1>1
    DEF Execute, LoadSnapshot, LoadSnapshotFails, Hydrate, HydrationThrows,
        EndOfStream, HandlerNotFound, Hydrated, Decide, AppendRefused,
        Tombstone, TombstoneRefused, Settle, Save, Crash, Goto, Finish, TypeOK
  <2>2. \/ pc[c] \in {"idle", "snapshot", "read", "decide"}
        \/ status'[c] = status[c] /\ update'[c] = update[c]
    BY <1>0, <1>1
    DEF Execute, LoadSnapshot, LoadSnapshotFails, Hydrate, HydrationThrows,
        EndOfStream, HandlerNotFound, NextEvent, Decide, AppendRefused,
        Tombstone, TombstoneRefused, Settle, Save, Crash, Goto, Finish, TypeOK
  <2> SUFFICES ASSUME NEW d \in Commands, NEW i \in 1..Len(log),
                      StartsBatch(i, d), ~update'[d].force
               PROVE  /\ status'[d].aggregateVersion = i - 1
                      /\ IsFold(status'[d], Version[d])
    BY <2>1 DEF DecidedOnCurrentState, StartsBatch, IsFold, FoldOf
  <2>3. log[i].by = d
    BY DEF StartsBatch
  <2>4. status'[d] = status[d] /\ update'[d] = update[d]
    BY <1>0, <2>1, <2>2, <2>3 DEF NothingYet
  <2> QED
    BY <1>0, <2>4 DEF DecidedOnCurrentState
\* The batch starts where the stream ended, which is where the status of an
\* unforced call ends.
<1>2. ASSUME NEW c \in Commands, AppendEvents(c)
      PROVE  DecidedOnCurrentState'
  <2> DEFINE batch == update[c].batch
  <2>1. /\ log' = log \o batch
        /\ batch \in Seq(Event)
        /\ Len(batch) \in Nat \ {0}
        /\ \A i \in 1..Len(batch) : batch[i].by = c
    BY <1>0, <1>2, BatchType DEF AppendEvents, Batch, UpdateInHand
  <2>2. /\ Len(log) \in Nat
        /\ Len(log') = Len(log) + Len(batch)
        /\ \A i \in 1..Len(log) : log'[i] = log[i]
        /\ \A i \in (Len(log) + 1)..Len(log') : log'[i].by = c
    <3>1. log \in Seq(Event)
      BY <1>0 DEF TypeOK
    <3> QED
      BY <2>1, <3>1, Concatenation
  <2>3. /\ UNCHANGED <<status, update>>
        /\ pc[c] = "append"
    BY <1>0, <1>2 DEF AppendEvents, AfterAppend, Goto, Finish, TypeOK
  <2> SUFFICES ASSUME NEW d \in Commands, NEW i \in 1..Len(log'),
                      StartsBatch(i, d)', ~update[d].force
               PROVE  /\ status[d].aggregateVersion = i - 1
                      /\ IsFold(status[d], Version[d])'
    BY <2>3 DEF DecidedOnCurrentState, IsFold, FoldOf
  <2>4. IsFold(status[d], Version[d])'
    <3>1. \A s, projector : IsFold(s, projector) => IsFold(s, projector)'
      BY <1>0, <2>1, FoldKept
    <3> QED
      BY <1>0, <2>3, <3>1 DEF StatusIsFold
  <2>5. CASE i \in 1..Len(log)
    <3>1. StartsBatch(i, d)
      BY <2>2, <2>5 DEF StartsBatch
    <3> QED
      BY <1>0, <2>4, <2>5, <3>1 DEF DecidedOnCurrentState
  <2>6. CASE i \in (Len(log) + 1)..Len(log')
    <3>1. d = c
      BY <2>2, <2>6 DEF StartsBatch
    <3>2. i = Len(log) + 1
      BY <2>2, <2>6, <3>1 DEF StartsBatch
    <3>3. status[c].revision = Len(log) - 1
      BY <1>2, <3>1 DEF AppendEvents, AsExpected, LastRevision
    <3>4. /\ status[c].revision = status[c].aggregateVersion - 1
          /\ status[c].aggregateVersion \in 0..Len(log)
      <4>1. IsFold(status[c], Version[c])
        BY <1>0 DEF StatusIsFold
      <4> QED
        BY <4>1 DEF IsFold, FoldOf
    <3> QED
      BY <2>2, <2>4, <3>1, <3>2, <3>3, <3>4
  <2> QED
    BY <2>2, <2>5, <2>6
<1>3. CASE UNCHANGED vars
  BY <1>0, <1>3
  DEF vars, DecidedOnCurrentState, StartsBatch, IsFold, FoldOf
<1> QED
  BY <1>1, <1>2, <1>3 DEF Next, Advance

\* The initial states satisfy the strengthened invariant.
LEMMA ConcurrencyInit == Init => ConcurrencyInv
<1> SUFFICES ASSUME Init PROVE ConcurrencyInv
  OBVIOUS
<1>1. TypeOK /\ TypeInv
  BY TypeInit DEF Init, TypeInv, UpdateInHand, SnapshotInHand
<1>2. \A c \in Commands : \A i \in 1..Len(log) : log[i].by # c
  <2>1. log \in Seq(Earlier)
    BY CommandExecutionAssumption DEF Init
  <2>2. \A i \in 1..Len(log) : log[i] \in Earlier
    BY <2>1, ElementOfSeq
  <2> QED
    BY <2>2, CommandExecutionAssumption DEF Earlier
<1>3. FoldInv
  <2>1. \A c \in Commands : status[c] = InitialStatus(c)
    BY DEF Init
  <2>2. StatusIsFold
    BY <1>1, <2>1, InitialStatusIsFold DEF StatusIsFold
  <2>3. ReadPosition
    BY <2>1 DEF Init, ReadPosition, InitialStatus
  <2>4. SnapshotIsFold
    <3> SUFFICES ASSUME NEW v \in Releases, NEW n \in 0..Len(log)
                 PROVE  IsFold(FoldOf(n, v), v)
      BY DEF Init, StoredBefore, SnapshotIsFold
    <3> QED
      BY DEF IsFold, FoldOf
  <2> QED
    BY <2>2, <2>3, <2>4 DEF Init, FoldInv, PendingIsFold
<1> QED
  BY <1>1, <1>2, <1>3
  DEF ConcurrencyInv, NothingYet, DecidedOnCurrentState, StartsBatch

\* The inductive invariant of optimistic concurrency control.
THEOREM ConcurrencyInvariant ==
    ASSUME Exact
    PROVE  Spec => []ConcurrencyInv
<1>1. Init => ConcurrencyInv
  BY ConcurrencyInit
<1>2. ConcurrencyInv /\ [Next]_vars => ConcurrencyInv'
  BY TypeStep, InHandStep, FoldStep, NothingYetStep, ConcurrencyStep
  DEF ConcurrencyInv, TypeInv
<1> QED
  BY <1>1, <1>2, PTL DEF Spec

\* A snapshot is always the state of a prefix of the stream, however many
\* calls store theirs at once and whichever arrives last.
THEOREM SnapshotsAreFolds ==
    ASSUME Exact
    PROVE  Spec => []SnapshotIsFold
<1>1. ConcurrencyInv => SnapshotIsFold
  BY DEF ConcurrencyInv, FoldInv
<1> QED
  BY <1>1, ConcurrencyInvariant, PTL

\* Every unforced batch was decided on exactly the events before it.
THEOREM CommandsDecideOnCurrentState ==
    ASSUME Exact
    PROVE  Spec => []DecidedOnCurrentState
<1>1. ConcurrencyInv => DecidedOnCurrentState
  BY DEF ConcurrencyInv
<1> QED
  BY <1>1, ConcurrencyInvariant, PTL
-----------------------------------------------------------------------------
(* Deleting the stream. *)

\* A call about to tombstone the stream has its tombstone event in it, at the
\* revision it expects.
TombstonePlaced ==
    \A c \in Commands :
        pc[c] = "tombstone" =>
            /\ expected[c] + 1 \in 1..Len(log)
            /\ log[expected[c] + 1].by = c
            /\ log[expected[c] + 1].tomb

DeletionInv ==
    TypeInv /\ NothingYet /\ TombstonePlaced /\ DeletionErasesNothingNew

\* Every step keeps the tombstone event of such a call in its place.
LEMMA TombstonePlacedStep ==
    DeletionInv /\ [Next]_vars => TombstonePlaced'
<1> SUFFICES ASSUME DeletionInv, [Next]_vars PROVE TombstonePlaced'
  OBVIOUS
<1>0. TypeOK /\ UpdateInHand /\ TombstonePlaced
  BY DEF DeletionInv, TypeInv
<1> USE DEF storeVars, readVars, writeVars, saveVars
<1>1. ASSUME NEW c \in Commands,
             \/ Execute(c) \/ LoadSnapshot(c) \/ LoadSnapshotFails(c)
             \/ Hydrate(c) \/ HydrationThrows(c) \/ EndOfStream(c)
             \/ HandlerNotFound(c) \/ Decide(c) \/ AppendRefused(c)
             \/ Tombstone(c) \/ TombstoneRefused(c) \/ Settle(c)
             \/ Save(c) \/ Crash(c)
      PROVE  TombstonePlaced'
  <2>1. UNCHANGED <<log, expected>>
    BY <1>1
    DEF Execute, LoadSnapshot, LoadSnapshotFails, Hydrate, HydrationThrows,
        EndOfStream, HandlerNotFound, Hydrated, Decide, AppendRefused,
        Tombstone, TombstoneRefused, Settle, Save, Crash
  <2>2. \A d \in Commands : pc'[d] = "tombstone" => pc[d] = "tombstone"
    BY <1>0, <1>1
    DEF Execute, LoadSnapshot, LoadSnapshotFails, Hydrate, HydrationThrows,
        EndOfStream, HandlerNotFound, Hydrated, Decide, AppendRefused,
        Tombstone, TombstoneRefused, Settle, Save, Crash, Goto, Finish, TypeOK
  <2> QED
    BY <1>0, <2>1, <2>2 DEF TombstonePlaced
<1>2. ASSUME NEW c \in Commands, AppendEvents(c) PROVE TombstonePlaced'
  <2> DEFINE batch == update[c].batch
  <2>1. /\ log' = log \o batch
        /\ batch \in Seq(Event)
        /\ Len(batch) \in Nat \ {0}
        /\ \A i \in 1..Len(batch) : batch[i].by = c
    BY <1>0, <1>2, BatchType DEF AppendEvents, Batch, UpdateInHand
  <2>2. /\ Len(log) \in Nat
        /\ Len(log') = Len(log) + Len(batch)
        /\ \A i \in 1..Len(log) : log'[i] = log[i]
        /\ log'[Len(log')] = batch[Len(batch)]
    BY <1>0, <2>1, Concatenation DEF TypeOK
  <2>3. /\ expected'[c] = Len(log') - 1
        /\ \A d \in Commands \ {c} : /\ expected'[d] = expected[d]
                                     /\ pc'[d] = pc[d]
    BY <1>0, <1>2, <2>2 DEF AppendEvents, Batch, Goto, Finish, TypeOK
  <2>4. pc'[c] = "tombstone" => batch[Len(batch)].tomb
    BY <1>0, <1>2
    DEF AppendEvents, AfterAppend, EndsInTombstone, Batch, Goto, Finish, TypeOK
  <2> SUFFICES ASSUME NEW d \in Commands, pc'[d] = "tombstone"
               PROVE  /\ expected'[d] + 1 \in 1..Len(log')
                      /\ log'[expected'[d] + 1].by = d
                      /\ log'[expected'[d] + 1].tomb
    BY DEF TombstonePlaced
  <2>5. CASE d = c
    <3>1. Len(log') \in Nat \ {0}
      BY <2>1, <2>2
    <3>2. expected'[d] + 1 = Len(log')
      BY <2>3, <2>5, <3>1
    <3>3. /\ log'[Len(log')].by = d
          /\ log'[Len(log')].tomb
      BY <2>1, <2>2, <2>4, <2>5
    <3> QED
      BY <3>1, <3>2, <3>3
  <2>6. CASE d # c
    <3>1. /\ expected[d] + 1 \in 1..Len(log)
          /\ log[expected[d] + 1].by = d
          /\ log[expected[d] + 1].tomb
      BY <1>0, <2>3, <2>6 DEF TombstonePlaced
    <3> QED
      BY <2>1, <2>2, <2>3, <2>6, <3>1
  <2> QED
    BY <2>5, <2>6
<1>3. CASE UNCHANGED vars
  BY <1>0, <1>3 DEF vars, TombstonePlaced
<1> QED
  BY <1>1, <1>2, <1>3 DEF Next, Advance

\* Every step keeps the strengthened invariant of deletion.
LEMMA DeletionStep ==
    DeletionInv /\ [Next]_vars => DeletionErasesNothingNew'
<1> SUFFICES ASSUME DeletionInv, [Next]_vars
             PROVE  DeletionErasesNothingNew'
  OBVIOUS
<1>0. /\ TypeOK /\ UpdateInHand /\ NothingYet
      /\ TombstonePlaced /\ DeletionErasesNothingNew
  BY DEF DeletionInv, TypeInv
<1> USE DEF storeVars, readVars, writeVars, saveVars
<1> SUFFICES ASSUME deleted',
                    \A i \in 1..Len(log') :
                      log'[i].tomb => ~update'[log'[i].by].force
             PROVE  log' # <<>> /\ log'[Len(log')].tomb
  BY DEF DeletionErasesNothingNew
<1>1. ASSUME NEW c \in Commands, Tombstone(c)
      PROVE  log' # <<>> /\ log'[Len(log')].tomb
  <2>1. UNCHANGED <<log, update>>
    BY <1>1 DEF Tombstone
  <2>2. /\ expected[c] + 1 \in 1..Len(log)
        /\ log[expected[c] + 1].by = c
        /\ log[expected[c] + 1].tomb
    BY <1>0, <1>1 DEF Tombstone, TombstonePlaced
  <2>3. ~update[c].force
    BY <2>1, <2>2
  <2>4. expected[c] = Len(log) - 1
    BY <1>1, <2>3 DEF Tombstone, AsExpected, LastRevision
  <2>5. Len(log) \in Nat /\ expected[c] + 1 = Len(log)
    BY <1>0, <2>4, LenProperties DEF TypeOK
  <2>6. log # <<>>
    BY <2>2, <2>5
  <2> QED
    BY <2>1, <2>2, <2>5, <2>6
<1>2. ASSUME NEW c \in Commands,
             \/ Execute(c) \/ LoadSnapshot(c) \/ LoadSnapshotFails(c)
             \/ Hydrate(c) \/ HydrationThrows(c) \/ EndOfStream(c)
             \/ HandlerNotFound(c) \/ Decide(c) \/ AppendRefused(c)
             \/ TombstoneRefused(c) \/ Settle(c) \/ Save(c) \/ Crash(c)
      PROVE  log' # <<>> /\ log'[Len(log')].tomb
  <2>1. UNCHANGED <<log, deleted>>
    BY <1>2
    DEF Execute, LoadSnapshot, LoadSnapshotFails, Hydrate, HydrationThrows,
        EndOfStream, HandlerNotFound, Hydrated, Decide, AppendRefused,
        TombstoneRefused, Settle, Save, Crash
  <2>2. \A d \in Commands : (\E i \in 1..Len(log) : log[i].by = d) =>
          update'[d] = update[d]
    <3>1. CASE UNCHANGED update
      BY <3>1
    <3>2. CASE Decide(c)
      <4>1. \A i \in 1..Len(log) : log[i].by # c
        BY <1>0, <3>2 DEF Decide, NothingYet
      <4>2. \A d \in Commands : d # c => update'[d] = update[d]
        BY <1>0, <3>2 DEF Decide, TypeOK
      <4> QED
        BY <4>1, <4>2
    <3> QED
      BY <1>2, <3>1, <3>2
      DEF Execute, LoadSnapshot, LoadSnapshotFails, Hydrate, HydrationThrows,
          EndOfStream, HandlerNotFound, Hydrated, AppendRefused,
          TombstoneRefused, Settle, Save, Crash
  <2>3. \A i \in 1..Len(log) : log[i].tomb => log[i].by \in Commands
    <3>1. \A i \in 1..Len(log) : log[i] \in Event
      BY <1>0, ElementOfSeq DEF TypeOK
    <3> QED
      BY <3>1 DEF Event, Earlier
  <2> QED
    BY <1>0, <2>1, <2>2, <2>3 DEF DeletionErasesNothingNew
<1>3. ASSUME NEW c \in Commands, AppendEvents(c)
      PROVE  log' # <<>> /\ log'[Len(log')].tomb
  BY <1>3 DEF AppendEvents
<1>4. CASE UNCHANGED vars
  BY <1>0, <1>4 DEF vars, DeletionErasesNothingNew
<1> QED
  BY <1>1, <1>2, <1>3, <1>4 DEF Next, Advance

\* The strengthened invariant of deletion (append and tombstoneStream are two
\* requests) holds in every reachable state.
THEOREM DeletionInvariant == Spec => []DeletionInv
<1>1. Init => DeletionInv
  BY ConcurrencyInit
  DEF Init, ConcurrencyInv, DeletionInv, TombstonePlaced,
      DeletionErasesNothingNew
<1>2. DeletionInv /\ [Next]_vars => DeletionInv'
  BY TypeStep, InHandStep, NothingYetStep, TombstonePlacedStep, DeletionStep
  DEF DeletionInv, TypeInv
<1> QED
  BY <1>1, <1>2, PTL DEF Spec

\* Unless a tombstone is forced, deleting the stream erases no event that was
\* appended behind the tombstone event.
THEOREM DeletionIsExact == Spec => []DeletionErasesNothingNew
<1>1. DeletionInv => DeletionErasesNothingNew
  BY DEF DeletionInv
<1> QED
  BY <1>1, DeletionInvariant, PTL
-----------------------------------------------------------------------------
(* What a call reports. *)

\* A call reports once, when it is done; it has no update before it decides; and
\* only one that ends in a tombstone event goes on to tombstone the stream.
Undecided ==
    \A c \in Commands :
        /\ outcome[c] # "none" => pc[c] = "done"
        /\ pc[c] \in {"idle", "snapshot", "read", "decide"} => update[c] = None
        /\ pc[c] = "tombstone" => EndsInTombstone(c)

\* The store has accepted the batch and the call has not failed since.
Sent(c) == \/ pc[c] = "tombstone"
           \/ (pc[c] = "settle" \/ outcome[c] = "ok") /\ update[c] # None

\* The batch of the call stands in the stream, and nothing else of the call.
PlacedAt(c, k) ==
    /\ k + Len(Batch(c)) <= Len(log)
    /\ \A j \in 1..Len(Batch(c)) : log[k + j] = Batch(c)[j]
    /\ \A i \in 1..Len(log) :
          log[i].by = c => i \in k + 1 .. k + Len(Batch(c))

Placed(c) == \E k \in 0..Len(log) : PlacedAt(c, k)

SentIsPlaced == \A c \in Commands : Sent(c) => Placed(c)

SentIsTombstoned ==
    \A c \in Commands :
        Sent(c) /\ pc[c] # "tombstone" /\ EndsInTombstone(c) => deleted

ReportInv == /\ TypeInv
             /\ NothingYet
             /\ Undecided
             /\ SentIsPlaced
             /\ SentIsTombstoned
             /\ RefusedLeavesNothing

\* A part of a sequence that agrees with another sequence is that sequence.
LEMMA PartIsSequence ==
    ASSUME NEW S, NEW s \in Seq(S), NEW t \in Seq(S), NEW k \in Nat,
           k + Len(t) <= Len(s), \A j \in 1..Len(t) : s[k + j] = t[j]
    PROVE  SubSeq(s, k + 1, k + Len(t)) = t
<1>1. Len(s) \in Nat /\ Len(t) \in Nat
  BY LenProperties
<1>2. \A i \in (k + 1)..(k + Len(t)) : s[i] \in S
  BY <1>1, ElementOfSeq
<1>3. /\ SubSeq(s, k + 1, k + Len(t)) \in Seq(S)
      /\ Len(SubSeq(s, k + 1, k + Len(t))) = Len(t)
      /\ \A i \in 1..Len(t) : SubSeq(s, k + 1, k + Len(t))[i] = s[k + i]
  <2>1. /\ SubSeq(s, k + 1, k + Len(t)) \in Seq(S)
        /\ Len(SubSeq(s, k + 1, k + Len(t))) =
             IF k + 1 <= k + Len(t) THEN k + Len(t) - (k + 1) + 1 ELSE 0
        /\ \A i \in 1 .. k + Len(t) - (k + 1) + 1 :
             SubSeq(s, k + 1, k + Len(t))[i] = s[(k + 1) + i - 1]
    BY <1>1, <1>2, SubSeqProperties
  <2> QED
    BY <1>1, <2>1
<1> QED
  BY <1>3, SeqEqual

\* Every step that appends nothing keeps what calls report true.
LEMMA ReportKept ==
    ASSUME ReportInv, NEW c \in Commands,
           \/ Execute(c) \/ LoadSnapshot(c) \/ LoadSnapshotFails(c)
           \/ Hydrate(c) \/ HydrationThrows(c) \/ EndOfStream(c)
           \/ HandlerNotFound(c) \/ Decide(c) \/ AppendRefused(c)
           \/ Tombstone(c) \/ TombstoneRefused(c) \/ Settle(c)
           \/ Save(c) \/ Crash(c)
    PROVE  Undecided' /\ SentIsPlaced' /\ SentIsTombstoned' /\ RefusedLeavesNothing'
<1>0. /\ TypeOK /\ UpdateInHand /\ NothingYet /\ Undecided
      /\ SentIsPlaced /\ SentIsTombstoned /\ RefusedLeavesNothing
  BY DEF ReportInv, TypeInv
<1> USE DEF storeVars, readVars, writeVars, saveVars
<1>1. /\ UNCHANGED log
      /\ deleted => deleted'
      /\ \A d \in Commands \ {c} : /\ pc'[d] = pc[d]
                                   /\ outcome'[d] = outcome[d]
                                   /\ update'[d] = update[d]
  BY <1>0
  DEF Execute, LoadSnapshot, LoadSnapshotFails, Hydrate, HydrationThrows,
      EndOfStream, HandlerNotFound, NextEvent, Hydrated, Decide,
      AppendRefused, Tombstone, TombstoneRefused, Settle, Save, Crash, Goto,
      Finish, TypeOK
<1>2. \A d \in Commands \ {c} :
        /\ Sent(d)' <=> Sent(d)
        /\ Placed(d)' <=> Placed(d)
        /\ EndsInTombstone(d)' <=> EndsInTombstone(d)
  BY <1>1 DEF Sent, Placed, PlacedAt, EndsInTombstone, Batch
<1>3. CASE Decide(c)
  <2>1. /\ pc[c] = "decide" /\ outcome[c] = "none" /\ update[c] = None
        /\ \A i \in 1..Len(log) : log[i].by # c
    BY <1>0, <1>3 DEF Decide, Undecided, NothingYet
  <2>2. /\ pc'[c] \in {"append", "settle", "done"}
        /\ outcome'[c] \in {"none", "failed"}
        /\ outcome'[c] = "failed" => pc'[c] = "done"
        /\ pc'[c] = "settle" => update'[c] = None
    BY <1>0, <1>3, <2>1 DEF Decide, Goto, Finish, TypeOK
  <2> QED
    BY <1>0, <1>1, <1>2, <2>1, <2>2
    DEF Undecided, SentIsPlaced, SentIsTombstoned, Sent, RefusedLeavesNothing
<1>4. CASE UNCHANGED update
  <2>1. /\ Placed(c)' <=> Placed(c)
        /\ EndsInTombstone(c)' <=> EndsInTombstone(c)
    BY <1>1, <1>4 DEF Placed, PlacedAt, EndsInTombstone, Batch
  <2>2. Undecided'
    BY <1>0, <1>1, <1>2, <1>4, <2>1
    DEF Undecided, Execute, LoadSnapshot, LoadSnapshotFails, Hydrate,
        HydrationThrows, EndOfStream, HandlerNotFound, NextEvent, Hydrated,
        Decide, AppendRefused, Tombstone, TombstoneRefused, Settle, Save, Crash,
        Goto, Finish, TypeOK
  <2>3. Sent(c)' => Sent(c) /\ (pc[c] = "tombstone" => pc'[c] = "tombstone" \/ deleted')
    BY <1>0, <1>4
    DEF Sent, Undecided, Execute, LoadSnapshot, LoadSnapshotFails, Hydrate,
        HydrationThrows, EndOfStream, HandlerNotFound, NextEvent, Hydrated,
        Decide, AppendRefused, Tombstone, TombstoneRefused, Settle, Save, Crash,
        Goto, Finish, TypeOK
  <2>4. SentIsPlaced' /\ SentIsTombstoned'
    BY <1>0, <1>1, <1>2, <2>1, <2>3 DEF SentIsPlaced, SentIsTombstoned
  <2>5. outcome'[c] \in {"rejected", "conflict", "gone"} =>
          \/ outcome'[c] = outcome[c]
          \/ pc[c] \in {"idle", "append"}
          \/ pc[c] = "tombstone"
    BY <1>0, <1>4
    DEF Execute, LoadSnapshot, LoadSnapshotFails, Hydrate, HydrationThrows,
        EndOfStream, HandlerNotFound, NextEvent, Hydrated, Decide,
        AppendRefused, Tombstone, TombstoneRefused, Settle, Save, Crash, Goto,
        Finish, TypeOK
  <2>6. pc[c] = "tombstone" => update[c] # None /\ EndsInTombstone(c)
    <3>1. pc[c] = "tombstone" => update[c] \in Update
      BY <1>0, BatchType DEF UpdateInHand, Update
    <3> QED
      BY <1>0, <3>1, CommandExecutionAssumption DEF Undecided
  <2>7. RefusedLeavesNothing'
    BY <1>0, <1>1, <1>2, <1>4, <2>1, <2>5, <2>6
    DEF RefusedLeavesNothing, NothingYet
  <2> QED
    BY <2>2, <2>4, <2>7
<1> QED
  BY <1>3, <1>4
  DEF Execute, LoadSnapshot, LoadSnapshotFails, Hydrate, HydrationThrows,
      EndOfStream, HandlerNotFound, Hydrated, AppendRefused, Tombstone,
      TombstoneRefused, Settle, Save, Crash

\* An append puts the batch behind the stream and moves no other batch.
LEMMA ReportOfAppend ==
    ASSUME ReportInv, NEW c \in Commands, AppendEvents(c)
    PROVE  Undecided' /\ SentIsPlaced' /\ SentIsTombstoned' /\ RefusedLeavesNothing'
<1>0. /\ TypeOK /\ UpdateInHand /\ NothingYet /\ Undecided
      /\ SentIsPlaced /\ SentIsTombstoned /\ RefusedLeavesNothing
  BY DEF ReportInv, TypeInv
<1>1. /\ UNCHANGED <<deleted, update>>
      /\ pc[c] = "append" /\ outcome[c] = "none"
      /\ \A d \in Commands \ {c} : pc'[d] = pc[d] /\ outcome'[d] = outcome[d]
  BY <1>0 DEF AppendEvents, Goto, Finish, TypeOK, Undecided
<1>2. \/ pc'[c] = AfterAppend(c) /\ outcome'[c] = "none"
      \/ pc'[c] = "done" /\ outcome'[c] = "failed"
  BY <1>0, <1>1 DEF AppendEvents, Goto, Finish, TypeOK
<1>3. /\ log' = log \o Batch(c)
      /\ Batch(c) \in Seq(Event)
      /\ \A i \in 1..Len(Batch(c)) : Batch(c)[i].by = c
  BY <1>0, <1>1, BatchType DEF AppendEvents, Batch, UpdateInHand
<1>4. /\ Len(log) \in Nat /\ Len(Batch(c)) \in Nat
      /\ Len(log') = Len(log) + Len(Batch(c))
      /\ \A i \in 1..Len(log) : log'[i] = log[i]
      /\ \A i \in (Len(log) + 1)..Len(log') :
           /\ i - Len(log) \in 1..Len(Batch(c))
           /\ log'[i] = Batch(c)[i - Len(log)]
  <2>1. log \in Seq(Event)
    BY <1>0 DEF TypeOK
  <2> QED
    BY <1>3, <2>1, Concatenation, LenProperties
<1>5. \A d \in Commands : /\ Batch(d)' = Batch(d)
                          /\ EndsInTombstone(d)' <=> EndsInTombstone(d)
  BY <1>1 DEF Batch, EndsInTombstone
<1>6. \A i \in (Len(log) + 1)..Len(log') : log'[i].by = c
  BY <1>3, <1>4
<1>7. Undecided'
  BY <1>0, <1>1, <1>2, <1>5 DEF Undecided, AfterAppend
<1>8. Placed(c)'
  <2>1. PICK n \in Nat : n = Len(log)
    BY <1>4
  <2>2. \A j \in 1..Len(Batch(c)) : log'[n + j] = Batch(c)[j]
    BY <1>4, <2>1
  <2>3. \A i \in 1..Len(log') :
          log'[i].by = c => i \in n + 1 .. n + Len(Batch(c))
    BY <1>0, <1>1, <1>4, <2>1 DEF NothingYet
  <2>4. PlacedAt(c, n)'
    BY <1>4, <1>5, <2>1, <2>2, <2>3 DEF PlacedAt
  <2> QED
    BY <1>4, <2>1, <2>4 DEF Placed
<1>9. SentIsPlaced'
  <2> SUFFICES ASSUME NEW d \in Commands, Sent(d)' PROVE Placed(d)'
    BY DEF SentIsPlaced
  <2>1. CASE d = c
    BY <1>8, <2>1
  <2>2. CASE d # c
    <3>1. PICK k \in 0..Len(log) : PlacedAt(d, k)
      BY <1>0, <1>1, <2>2 DEF SentIsPlaced, Sent, Placed
    <3>2. Batch(d) \in Seq(Event)
      <4>1. update[d] \in Update
        BY <1>0, <1>1, <2>2, BatchType DEF Sent, UpdateInHand, Update, TypeOK
      <4> QED
        BY <4>1 DEF Batch, Update
    <3>3. Len(Batch(d)) \in Nat
      BY <3>2, LenProperties
    <3>4. k + Len(Batch(d)) <= Len(log')
      BY <1>4, <3>1, <3>3 DEF PlacedAt
    <3>5. \A j \in 1..Len(Batch(d)) : log'[k + j] = Batch(d)[j]
      <4> SUFFICES ASSUME NEW j \in 1..Len(Batch(d))
                   PROVE  log'[k + j] = Batch(d)[j]
        OBVIOUS
      <4>1. k + Len(Batch(d)) <= Len(log) /\ log[k + j] = Batch(d)[j]
        BY <3>1 DEF PlacedAt
      <4>2. k + j \in 1..Len(log)
        BY <1>4, <3>3, <4>1
      <4> QED
        BY <1>4, <4>1, <4>2
    <3>6. \A i \in 1..Len(log') :
            log'[i].by = d => i \in k + 1 .. k + Len(Batch(d))
      BY <1>4, <1>6, <2>2, <3>1 DEF PlacedAt
    <3>7. PlacedAt(d, k)'
      BY <1>5, <3>4, <3>5, <3>6 DEF PlacedAt
    <3> QED
      BY <1>4, <3>1, <3>7 DEF Placed
  <2> QED
    BY <2>1, <2>2
<1>10. SentIsTombstoned'
  BY <1>0, <1>1, <1>2, <1>5 DEF SentIsTombstoned, Sent, AfterAppend
<1>11. RefusedLeavesNothing'
  <2> SUFFICES ASSUME NEW d \in Commands,
                      outcome'[d] \in {"rejected", "conflict", "gone"},
                      update'[d] # None => ~EndsInTombstone(d)',
                      NEW i \in 1..Len(log')
               PROVE  log'[i].by # d
    BY DEF RefusedLeavesNothing
  <2>1. d # c
    BY <1>2
  <2>2. \A j \in 1..Len(log) : log[j].by # d
    BY <1>0, <1>1, <1>5, <2>1 DEF RefusedLeavesNothing
  <2> QED
    BY <1>4, <1>6, <2>1, <2>2
<1> QED
  BY <1>7, <1>9, <1>10, <1>11

\* What a call reports is true, in every reachable state.
THEOREM ReportInvariant == Spec => []ReportInv
<1>1. Init => ReportInv
  <2> SUFFICES ASSUME Init PROVE ReportInv
    OBVIOUS
  <2>1. TypeInv /\ NothingYet
    BY ConcurrencyInit DEF ConcurrencyInv
  <2>2. \A c \in Commands : /\ pc[c] = "idle" /\ outcome[c] = "none"
                            /\ update[c] = None
    BY DEF Init
  <2> QED
    BY <2>1, <2>2
    DEF ReportInv, Undecided, SentIsPlaced, SentIsTombstoned, Sent,
        RefusedLeavesNothing
<1>2. ReportInv /\ [Next]_vars => ReportInv'
  <2> SUFFICES ASSUME ReportInv, [Next]_vars PROVE ReportInv'
    OBVIOUS
  <2>1. TypeInv' /\ NothingYet'
    BY TypeStep, InHandStep, NothingYetStep DEF ReportInv, TypeInv
  <2>2. CASE UNCHANGED vars
    BY <2>1, <2>2
    DEF ReportInv, vars, storeVars, readVars, writeVars, saveVars, Undecided,
        SentIsPlaced, SentIsTombstoned, Sent, Placed, PlacedAt, Batch,
        EndsInTombstone, RefusedLeavesNothing
  <2> QED
    BY <2>1, <2>2, ReportKept, ReportOfAppend DEF Next, Advance, ReportInv
<1> QED
  BY <1>1, <1>2, PTL DEF Spec

\* A call that ends in a conflict, a gone error or a rejection has left nothing
\* in the stream, unless its batch ended in a tombstone event.
THEOREM RefusedCallsLeaveNothing == Spec => []RefusedLeavesNothing
<1>1. ReportInv => RefusedLeavesNothing
  BY DEF ReportInv
<1> QED
  BY <1>1, ReportInvariant, PTL

\* A call that succeeds has its whole batch in the stream, once and in one piece,
\* and has deleted the stream if it said so.
THEOREM SuccessfulCallsAreComplete == Spec => []SuccessIsComplete
<1>1. ReportInv => SuccessIsComplete
  <2> SUFFICES ASSUME ReportInv, NEW c \in Commands,
                      outcome[c] = "ok", update[c] # None
               PROVE  /\ EndsInTombstone(c) => deleted
                      /\ \E k \in 0..Len(log) :
                           /\ SubSeq(log, k + 1, k + Len(Batch(c))) = Batch(c)
                           /\ \A i \in 1..Len(log) :
                                log[i].by = c => i \in k + 1 .. k + Len(Batch(c))
    BY DEF SuccessIsComplete
  <2>1. Sent(c) /\ pc[c] = "done"
    BY DEF Sent, ReportInv, Undecided
  <2>2. PICK k \in 0..Len(log) : PlacedAt(c, k)
    BY <2>1 DEF ReportInv, SentIsPlaced, Placed
  <2>3. log \in Seq(Event) /\ Batch(c) \in Seq(Event)
    BY DEF ReportInv, TypeInv, TypeOK, Update, Batch
  <2>4. k \in Nat
    BY <2>3, LenProperties
  <2>5. SubSeq(log, k + 1, k + Len(Batch(c))) = Batch(c)
    BY <2>2, <2>3, <2>4, PartIsSequence DEF PlacedAt
  <2> QED
    BY <2>1, <2>2, <2>5 DEF ReportInv, SentIsTombstoned, PlacedAt
<1> QED
  BY <1>1, ReportInvariant, PTL
-----------------------------------------------------------------------------
(* Calls are atomic. *)

Seen == [c \in Commands |->
           IF Appended(c) THEN status[c].state.events ELSE None]

Forced == [c \in Commands |->
             IF Appended(c) THEN update[c].force ELSE FALSE]

\* Both specifications have the same batches.
LEMMA BatchesAgree ==
    ASSUME NEW c \in Commands
    PROVE  Batches(c) = Atomic!Batches(c)
  BY DEF Batches, Atomic!Batches, Atomic!Event

\* Every step of the calls is a step of AtomicCommands or leaves it unchanged.
LEMMA AtomicStep ==
    ASSUME Exact
    PROVE  ConcurrencyInv /\ DeletionInv /\ [Next]_vars
             => [Atomic!Next]_Atomic!vars
<1> SUFFICES ASSUME ConcurrencyInv, DeletionInv, [Next]_vars
             PROVE  [Atomic!Next]_Atomic!vars
  OBVIOUS
<1>0. /\ TypeOK /\ UpdateInHand /\ NothingYet
      /\ TombstonePlaced /\ StatusIsFold
  BY DEF DeletionInv, ConcurrencyInv, TypeInv, FoldInv
<1> USE DEF storeVars, readVars, writeVars, saveVars
\* What a call has seen is settled once its events are in the stream.
<1>1. ASSUME NEW c \in Commands,
             \/ Execute(c) \/ LoadSnapshot(c) \/ LoadSnapshotFails(c)
             \/ Hydrate(c) \/ HydrationThrows(c) \/ EndOfStream(c)
             \/ HandlerNotFound(c) \/ Decide(c) \/ AppendRefused(c)
             \/ Tombstone(c) \/ TombstoneRefused(c) \/ Settle(c)
             \/ Save(c) \/ Crash(c)
      PROVE  UNCHANGED <<log, Seen, Forced>>
  <2>1. UNCHANGED log
    BY <1>1
    DEF Execute, LoadSnapshot, LoadSnapshotFails, Hydrate, HydrationThrows,
        EndOfStream, HandlerNotFound, Hydrated, Decide, AppendRefused,
        Tombstone, TombstoneRefused, Settle, Save, Crash
  <2>2. \A d \in Commands : Appended(d)' <=> Appended(d)
    BY <2>1 DEF Appended
  <2>3. \A d \in Commands :
          Appended(d) => status'[d] = status[d] /\ update'[d] = update[d]
    <3>1. \A d \in Commands \ {c} :
            status'[d] = status[d] /\ update'[d] = update[d]
      BY <1>0, <1>1
      DEF Execute, LoadSnapshot, LoadSnapshotFails, Hydrate, HydrationThrows,
          EndOfStream, HandlerNotFound, Hydrated, Decide, AppendRefused,
          Tombstone, TombstoneRefused, Settle, Save, Crash, TypeOK
    <3>2. pc[c] \in {"idle", "snapshot", "read", "decide"} => ~Appended(c)
      BY <1>0 DEF NothingYet, Appended
    <3>3. pc[c] \in {"idle", "snapshot", "read", "decide"}
          \/ UNCHANGED <<status, update>>
      BY <1>1
      DEF Execute, LoadSnapshot, LoadSnapshotFails, Hydrate, HydrationThrows,
          EndOfStream, HandlerNotFound, NextEvent, Decide, AppendRefused,
          Tombstone, TombstoneRefused, Settle, Save, Crash
    <3> QED
      BY <3>1, <3>2, <3>3
  <2> QED
    BY <2>1, <2>2, <2>3 DEF Seen, Forced
<1>2. ASSUME NEW c \in Commands,
             \/ Execute(c) \/ LoadSnapshot(c) \/ LoadSnapshotFails(c)
             \/ Hydrate(c) \/ HydrationThrows(c) \/ EndOfStream(c)
             \/ HandlerNotFound(c) \/ Decide(c) \/ AppendRefused(c)
             \/ TombstoneRefused(c) \/ Settle(c) \/ Save(c) \/ Crash(c)
      PROVE  UNCHANGED Atomic!vars
  <2>1. UNCHANGED deleted
    BY <1>2
    DEF Execute, LoadSnapshot, LoadSnapshotFails, Hydrate, HydrationThrows,
        EndOfStream, HandlerNotFound, Hydrated, Decide, AppendRefused,
        TombstoneRefused, Settle, Save, Crash
  <2> QED
    BY <1>1, <1>2, <2>1 DEF Atomic!vars, Seen, Forced
<1>3. ASSUME NEW c \in Commands, Tombstone(c) PROVE Atomic!Erase
  <2>1. UNCHANGED <<log, Seen, Forced>>
    BY <1>1, <1>3
  <2>2. \E i \in 1..Len(log) : log[i].tomb
    BY <1>0, <1>3 DEF Tombstone, TombstonePlaced
  <2> QED
    BY <1>3, <2>1, <2>2 DEF Tombstone, Atomic!Erase, Seen, Forced
\* The append is the instant at which the call takes effect.
<1>4. ASSUME NEW c \in Commands, AppendEvents(c)
      PROVE  Atomic!Commit(c) \/ Atomic!CommitForced(c)
  <2> DEFINE batch == update[c].batch
             n == status[c].aggregateVersion
  <2>0. batch \in Batches(c)
    BY <1>0, <1>4 DEF AppendEvents, UpdateInHand
  <2>1. /\ log' = log \o batch
        /\ batch \in Seq(Event)
        /\ Len(batch) \in Nat \ {0}
        /\ \A i \in 1..Len(batch) : batch[i].by = c
    BY <1>4, <2>0, BatchType DEF AppendEvents, Batch
  <2>2. /\ Len(log) \in Nat
        /\ Len(log') = Len(log) + Len(batch)
        /\ \A i \in 1..Len(log) : log'[i] = log[i]
        /\ \A i \in (Len(log) + 1)..Len(log') : log'[i].by = c
    BY <1>0, <2>1, Concatenation DEF TypeOK
  <2>3. /\ UNCHANGED <<deleted, status, update>>
        /\ ~deleted
        /\ ~Appended(c)
    BY <1>0, <1>4 DEF AppendEvents, NothingYet, Appended
  <2>4. \A d \in Commands : Appended(d)' <=> (d = c \/ Appended(d))
    <3>1. Appended(c)'
      <4>1. Len(log) + 1 \in (Len(log) + 1)..Len(log')
        BY <2>1, <2>2
      <4> QED
        BY <2>2, <4>1 DEF Appended
    <3>2. ASSUME NEW d \in Commands, d # c
          PROVE  Appended(d)' <=> Appended(d)
      <4>1. 1..Len(log') = 1..Len(log) \cup (Len(log) + 1)..Len(log')
        BY <2>1, <2>2
      <4> QED
        BY <2>2, <3>2, <4>1 DEF Appended
    <3> QED
      BY <3>1, <3>2
  <2>5. /\ status[c].state.events = SubSeq(log, 1, n)
        /\ n \in 0..Len(log)
        /\ status[c].revision = n - 1
    <3>1. IsFold(status[c], Version[c])
      BY <1>0 DEF StatusIsFold
    <3> QED
      BY <3>1 DEF IsFold, FoldOf
  <2>6. Seen' = [Seen EXCEPT ![c] = SubSeq(log, 1, n)]
    BY <2>3, <2>4, <2>5 DEF Seen
  <2>10. \A d \in Commands \ {c} : Forced'[d] = Forced[d]
    BY <2>3, <2>4 DEF Forced
  <2>11. Forced[c] = FALSE /\ Forced'[c] = update[c].force
    BY <2>3, <2>4 DEF Forced
  <2>7. Atomic!Extend(c)
    <3>1. Seen[c] = None
      BY <2>3 DEF Seen
    <3>2. \E b \in Atomic!Batches(c) : log' = log \o b
      BY <2>0, <2>1, BatchesAgree
    <3> QED
      BY <2>3, <3>1, <3>2 DEF Atomic!Extend, Seen
  <2>8. CASE update[c].force
    <3>1. Forced' = [Forced EXCEPT ![c] = TRUE]
      BY <2>8, <2>10, <2>11 DEF Forced
    <3> QED
      BY <2>5, <2>6, <2>7, <3>1 DEF Atomic!CommitForced, Seen, Forced
  <2>9. CASE ~update[c].force
    <3>1. n = Len(log)
      BY <1>4, <2>2, <2>5, <2>9 DEF AppendEvents, AsExpected, LastRevision
    <3>2. SubSeq(log, 1, n) = log
      BY <1>0, <3>1, SubSeqFull DEF TypeOK
    <3>3. UNCHANGED Forced
      <4>1. update[c].force \in BOOLEAN
        BY <1>0, <1>4 DEF AppendEvents, UpdateInHand, TypeOK, Update
      <4>2. Forced'[c] = FALSE
        BY <2>9, <2>11, <4>1
      <4> QED
        BY <2>10, <2>11, <4>2 DEF Forced
    <3> QED
      BY <2>6, <2>7, <3>2, <3>3 DEF Atomic!Commit, Seen, Forced
  <2> QED
    BY <2>8, <2>9
<1>5. CASE UNCHANGED vars
  BY <1>5 DEF vars, Atomic!vars, Appended
<1> QED
  BY <1>2, <1>3, <1>4, <1>5 DEF Next, Advance, Atomic!Next

\* The detailed calls implement the atomic ones: each call that appends takes
\* effect at its append, decided on the whole history unless it was forced.
THEOREM CommandsAreAtomic ==
    ASSUME Exact
    PROVE  Spec => AtomicSpec
<1>1. Init => Atomic!Init
  <2> SUFFICES ASSUME Init PROVE Atomic!Init
    OBVIOUS
  <2>1. \A c \in Commands : ~Appended(c)
    <3>1. NothingYet
      BY ConcurrencyInit DEF ConcurrencyInv
    <3> QED
      BY <3>1 DEF Init, NothingYet, Appended
  <2> QED
    BY <2>1 DEF Init, Atomic!Init
<1>2. ConcurrencyInv /\ DeletionInv /\ [Next]_vars => [Atomic!Next]_Atomic!vars
  BY AtomicStep
<1> QED
  BY <1>1, <1>2, ConcurrencyInvariant, DeletionInvariant, PTL
  DEF Spec, AtomicSpec, Atomic!Spec
=============================================================================
