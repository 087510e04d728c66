-------------------------- MODULE CommandExecution --------------------------
(***************************************************************************)
(* Calls of Aggregate.executeCommand that meet on one aggregate: each one  *)
(* rebuilds the state of the aggregate from a snapshot and the events that *)
(* follow it, lets the command decide, and appends what it decided with    *)
(* optimistic concurrency control.  The calls may run in one process or in *)
(* many, interleave at every await, and may be cut short by a crash.       *)
(*                                                                         *)
(* The state of the aggregate is the sequence of the events its handlers   *)
(* have been applied to, with the version of the projector they belong to: *)
(* two histories the handlers could tell apart are two states here.        *)
(***************************************************************************)
EXTENDS Integers, Sequences

CONSTANTS Commands,         \* the calls of executeCommand
          Version,          \* options.projectorVersion where the call runs
          InitialLogs,      \* what the event stream may hold at the start
          Releases,         \* projector versions that ran before
          MaxBatch,         \* the most events one command emits
          EventCount,       \* SnapshotConfig.eventCount, 0 if it is not set
          Duration,         \* SnapshotConfig.duration is set
          BigintSurvives,   \* the snapshot store gives revisions back as bigint
          NotFoundHandlers, \* some handler or fallback throws a NotFoundError
          None              \* no snapshot, no update

StateNew == -1              \* revision of a stream that does not exist yet

\* Events that were there before the calls are nobody's, and no tombstones.
Earlier == [by : {None}, tomb : {FALSE}]

Event == Earlier \cup [by : Commands, tomb : BOOLEAN]

Batches(c) ==
    UNION {[1..n -> [by : {c}, tomb : BOOLEAN]] : n \in 1..MaxBatch}

State == [projector : Nat, events : Seq(Event)]

\* AggregateStatus, the part of it that changes.
Status == [revision : Nat \cup {StateNew}, aggregateVersion : Nat, state : State]

Snapshot == [projectorVersion : Nat, status : Status]

Update == [force : BOOLEAN, batch : Seq(Event)]

Step == {"idle", "snapshot", "read", "decide", "append", "tombstone",
         "settle", "done"}

Outcome == {"none", "ok", "rejected", "failed", "conflict", "gone", "crashed"}

Saving == {"none", "pending", "stored", "lost"}

ASSUME CommandExecutionAssumption ==
    /\ None \notin Commands
    /\ None \notin Update
    /\ Version \in [Commands -> Nat]
    /\ MaxBatch \in Nat
    /\ EventCount \in Nat
    /\ Duration \in BOOLEAN
    /\ BigintSurvives \in BOOLEAN
    /\ NotFoundHandlers \in BOOLEAN
    /\ InitialLogs \subseteq Seq(Earlier)
    /\ Releases \subseteq Nat

VARIABLES
    log,          \* the events of the aggregate's stream
    deleted,      \* the event store has executed tombstoneStream
    snapshot,     \* the aggregate's row of the snapshots table, or None
    pc,           \* the await at which the call is suspended
    outcome,      \* how the call ended
    status,       \* the status the call hydrates and decides on
    cursor,       \* the revision its read of the stream is about to deliver
    snapshotUsed, \* snapshotUsed of hydrateStatus
    update,       \* what the command returned, or None
    expected,     \* the revision its tombstoneStream expects
    saving,       \* the state of its postHydrationPromise
    toSave        \* the snapshot that promise stores

storeVars == <<log, deleted, snapshot>>
readVars == <<status, cursor, snapshotUsed>>
writeVars == <<update, expected>>
saveVars == <<saving, toSave>>
vars == <<storeVars, pc, outcome, readVars, writeVars, saveVars>>

SnapshotsOn == EventCount # 0 \/ Duration

InitialStatus(c) ==
    [revision |-> StateNew, aggregateVersion |-> 0,
     state |-> [projector |-> Version[c], events |-> <<>>]]

\* The status after the first n events, computed by that projector version.
FoldOf(n, projector) ==
    [revision |-> n - 1, aggregateVersion |-> n,
     state |-> [projector |-> projector, events |-> SubSeq(log, 1, n)]]

\* Snapshots that earlier calls may have stored.
StoredBefore ==
    {[projectorVersion |-> v, status |-> FoldOf(n, v)] :
        v \in Releases, n \in 0..Len(log)}

Init == /\ log \in InitialLogs
        /\ deleted = FALSE
        /\ snapshot \in StoredBefore \cup {None}
        /\ pc = [c \in Commands |-> "idle"]
        /\ outcome = [c \in Commands |-> "none"]
        /\ status = [c \in Commands |-> InitialStatus(c)]
        /\ cursor = [c \in Commands |-> 0]
        /\ snapshotUsed = [c \in Commands |-> FALSE]
        /\ update = [c \in Commands |-> None]
        /\ expected = [c \in Commands |-> StateNew]
        /\ saving = [c \in Commands |-> "none"]
        /\ toSave = [c \in Commands |-> None]
-----------------------------------------------------------------------------
Goto(c, step) == /\ pc' = [pc EXCEPT ![c] = step]
                 /\ UNCHANGED outcome

Finish(c, how) == /\ pc' = [pc EXCEPT ![c] = "done"]
                  /\ outcome' = [outcome EXCEPT ![c] = how]

\* The validation of the payload passes, or the call is rejected.
Execute(c) == /\ pc[c] = "idle"
              /\ \/ Goto(c, IF SnapshotsOn THEN "snapshot" ELSE "read")
                 \/ Finish(c, "rejected")
              /\ UNCHANGED <<storeVars, readVars, writeVars, saveVars>>

\* Mutant: the projector version of the snapshot is not compared.
UsableAnyVersion(c) == snapshot # None

Usable(c) == /\ snapshot # None
             /\ snapshot.projectorVersion = Version[c]

\* A revision that came back as a number fails the typeof check of the
\* hydrator, and the stream is read from its start.
FromRevision(revision) ==
    IF revision # StateNew /\ BigintSurvives THEN revision + 1 ELSE 0

LoadSnapshot(c) ==
    /\ pc[c] = "snapshot"
    /\ IF Usable(c)
       THEN /\ status' = [status EXCEPT ![c] = snapshot.status]
            /\ cursor' = [cursor EXCEPT
                            ![c] = FromRevision(snapshot.status.revision)]
            /\ snapshotUsed' = [snapshotUsed EXCEPT ![c] = TRUE]
       ELSE UNCHANGED readVars
    /\ Goto(c, "read")
    /\ UNCHANGED <<storeVars, writeVars, saveVars>>

LoadSnapshotFails(c) ==
    /\ pc[c] = "snapshot"
    /\ Finish(c, "failed")
    /\ UNCHANGED <<storeVars, readVars, writeVars, saveVars>>
-----------------------------------------------------------------------------
\* The status counts the event before its handler has run.
Counted(s, revision) ==
    [revision |-> revision,
     aggregateVersion |-> s.aggregateVersion + 1,
     state |-> s.state]

Handled(s, event) ==
    [revision |-> s.revision,
     aggregateVersion |-> s.aggregateVersion,
     state |-> [projector |-> s.state.projector,
                events |-> Append(s.state.events, event)]]

NextEvent(c) == /\ pc[c] = "read"
                /\ ~deleted
                /\ cursor[c] < Len(log)

Hydrate(c) ==
    /\ NextEvent(c)
    /\ status' = [status EXCEPT
                    ![c] = Handled(Counted(@, cursor[c]), log[cursor[c] + 1])]
    /\ cursor' = [cursor EXCEPT ![c] = @ + 1]
    /\ UNCHANGED <<storeVars, pc, outcome, snapshotUsed, writeVars, saveVars>>

\* Mutant: the second attempt is taken for one with a snapshot again.
HydrationRetriesForever(c) ==
    /\ pc[c] = "read"
    /\ IF snapshotUsed[c]
       THEN /\ status' = [status EXCEPT ![c] = InitialStatus(c)]
            /\ cursor' = [cursor EXCEPT ![c] = 0]
            /\ UNCHANGED <<pc, outcome, snapshotUsed>>
       ELSE /\ Finish(c, "failed")
            /\ UNCHANGED readVars
    /\ UNCHANGED <<storeVars, writeVars, saveVars>>

\* Casting or handling the event throws, or the read of the stream does.
HydrationThrows(c) ==
    /\ pc[c] = "read"
    /\ IF snapshotUsed[c]
       THEN /\ status' = [status EXCEPT ![c] = InitialStatus(c)]
            /\ cursor' = [cursor EXCEPT ![c] = 0]
            /\ snapshotUsed' = [snapshotUsed EXCEPT ![c] = FALSE]
            /\ UNCHANGED <<pc, outcome>>
       ELSE /\ Finish(c, "failed")
            /\ UNCHANGED readVars
    /\ UNCHANGED <<storeVars, writeVars, saveVars>>

SaveDue(s) == EventCount # 0 /\ s.aggregateVersion % EventCount = 0

\* hydrateStatus starts to store the snapshot and does not wait for it.
Hydrated(c, s) ==
    /\ \/ /\ SaveDue(s) \/ Duration
          /\ saving' = [saving EXCEPT ![c] = "pending"]
          /\ toSave' = [toSave EXCEPT
                          ![c] = [projectorVersion |-> Version[c], status |-> s]]
       \/ /\ ~SaveDue(s)
          /\ UNCHANGED saveVars
    /\ Goto(c, "decide")
    /\ UNCHANGED <<storeVars, cursor, snapshotUsed, writeVars>>

\* The stream is read to its end, or does not exist, or was tombstoned.
EndOfStream(c) == /\ pc[c] = "read"
                  /\ cursor[c] >= Len(log) \/ deleted
                  /\ Hydrated(c, status[c])
                  /\ UNCHANGED status

\* A NotFoundError of a handler is taken for the end of the stream.
HandlerNotFound(c) ==
    /\ NotFoundHandlers
    /\ NextEvent(c)
    /\ LET s == Counted(status[c], cursor[c])
       IN  /\ status' = [status EXCEPT ![c] = s]
           /\ Hydrated(c, s)
-----------------------------------------------------------------------------
\* The command emits events, or returns nothing, or throws.
Decide(c) ==
    /\ pc[c] = "decide"
    /\ \/ /\ \E force \in BOOLEAN, batch \in Batches(c) :
               update' = [update EXCEPT ![c] = [force |-> force, batch |-> batch]]
          /\ Goto(c, "append")
       \/ /\ Goto(c, "settle")
          /\ UNCHANGED update
       \/ /\ Finish(c, "failed")
          /\ UNCHANGED update
    /\ UNCHANGED <<storeVars, readVars, expected, saveVars>>

Batch(c) == update[c].batch

TombstoneLast(c) ==
    \A i \in 1..Len(Batch(c)) : Batch(c)[i].tomb => i = Len(Batch(c))

EndsInTombstone(c) ==
    Batch(c)[Len(Batch(c))].tomb

LastRevision == Len(log) - 1

\* Mutant: the expected revision is never passed on.
ExpectsNothing(c, revision) == TRUE

AsExpected(c, revision) == update[c].force \/ revision = LastRevision

\* Mutant: the stream is never tombstoned.
SkipTombstone(c) == "settle"

AfterAppend(c) == IF EndsInTombstone(c) THEN "tombstone" ELSE "settle"

\* Mutant: an append whose reply is lost is sent again and meets its own events.
AppendRetried(c) ==
    /\ pc[c] = "append"
    /\ TombstoneLast(c)
    /\ ~deleted
    /\ AsExpected(c, status[c].revision)
    /\ log' = log \o Batch(c)
    /\ expected' = [expected EXCEPT ![c] = Len(log) + Len(Batch(c)) - 1]
    /\ Goto(c, AfterAppend(c)) \/ Finish(c, "conflict")
    /\ UNCHANGED <<deleted, snapshot, readVars, update, saveVars>>

\* The append takes effect; its reply may be lost.
AppendEvents(c) ==
    /\ pc[c] = "append"
    /\ TombstoneLast(c)
    /\ ~deleted
    /\ AsExpected(c, status[c].revision)
    /\ log' = log \o Batch(c)
    /\ expected' = [expected EXCEPT ![c] = Len(log) + Len(Batch(c)) - 1]
    /\ Goto(c, AfterAppend(c)) \/ Finish(c, "failed")
    /\ UNCHANGED <<deleted, snapshot, readVars, update, saveVars>>

AppendRefused(c) ==
    /\ pc[c] = "append"
    /\ \/ /\ ~TombstoneLast(c)
          /\ Finish(c, "conflict")
       \/ /\ TombstoneLast(c)
          /\ deleted
          /\ Finish(c, "gone")
       \/ /\ TombstoneLast(c)
          /\ ~deleted
          /\ ~AsExpected(c, status[c].revision)
          /\ Finish(c, "conflict")
       \/ Finish(c, "failed")
    /\ UNCHANGED <<storeVars, readVars, writeVars, saveVars>>

\* tombstoneStream is a second request to the event store.
Tombstone(c) ==
    /\ pc[c] = "tombstone"
    /\ ~deleted
    /\ AsExpected(c, expected[c])
    /\ deleted' = TRUE
    /\ Goto(c, "settle") \/ Finish(c, "failed")
    /\ UNCHANGED <<log, snapshot, readVars, writeVars, saveVars>>

TombstoneRefused(c) ==
    /\ pc[c] = "tombstone"
    /\ \/ deleted /\ Finish(c, "gone")
       \/ /\ ~deleted
          /\ ~AsExpected(c, expected[c])
          /\ Finish(c, "conflict")
       \/ Finish(c, "failed")
    /\ UNCHANGED <<storeVars, readVars, writeVars, saveVars>>

\* The call waits for its snapshot and fails with it.
Settle(c) ==
    /\ pc[c] = "settle"
    /\ saving[c] # "pending"
    /\ Finish(c, IF saving[c] = "lost" THEN "failed" ELSE "ok")
    /\ UNCHANGED <<storeVars, readVars, writeVars, saveVars>>
-----------------------------------------------------------------------------
\* The store answers the write of a snapshot, whatever became of the call.
Save(c) ==
    /\ saving[c] = "pending"
    /\ \/ /\ snapshot' = toSave[c]
          /\ saving' = [saving EXCEPT ![c] = "stored"]
       \/ /\ saving' = [saving EXCEPT ![c] = "lost"]
          /\ UNCHANGED snapshot
    /\ UNCHANGED <<log, deleted, pc, outcome, readVars, writeVars, toSave>>

\* The process of the call stops; a request already sent may still arrive.
Crash(c) ==
    /\ pc[c] \notin {"idle", "done"}
    /\ Finish(c, "crashed")
    /\ UNCHANGED <<storeVars, readVars, writeVars, saveVars>>

Advance(c) ==
    \/ LoadSnapshot(c)
    \/ LoadSnapshotFails(c)
    \/ Hydrate(c)
    \/ HydrationThrows(c)
    \/ EndOfStream(c)
    \/ HandlerNotFound(c)
    \/ Decide(c)
    \/ AppendEvents(c)
    \/ AppendRefused(c)
    \/ Tombstone(c)
    \/ TombstoneRefused(c)
    \/ Settle(c)

Next == \E c \in Commands : \/ Execute(c)
                            \/ Advance(c)
                            \/ Save(c)
                            \/ Crash(c)

Spec == Init /\ [][Next]_vars

\* A started call goes on as long as the stores answer it.
FairSpec == /\ Spec
            /\ \A c \in Commands : WF_vars(Advance(c)) /\ WF_vars(Save(c))
-----------------------------------------------------------------------------
(* Properties *)

TypeOK == /\ log \in Seq(Event)
          /\ deleted \in BOOLEAN
          /\ snapshot \in Snapshot \cup {None}
          /\ pc \in [Commands -> Step]
          /\ outcome \in [Commands -> Outcome]
          /\ status \in [Commands -> Status]
          /\ cursor \in [Commands -> Nat]
          /\ snapshotUsed \in [Commands -> BOOLEAN]
          /\ update \in [Commands -> Update \cup {None}]
          /\ expected \in [Commands -> Int]
          /\ saving \in [Commands -> Saving]
          /\ toSave \in [Commands -> Snapshot \cup {None}]

\* s is what handlers of that version make of the first events of the stream.
IsFold(s, projector) ==
    /\ s.aggregateVersion \in 0..Len(log)
    /\ s = FoldOf(s.aggregateVersion, projector)

\* A snapshot is always the state its projector version computes from a prefix
\* of the stream, and carries the revision and version of that prefix, in
\* whatever order the concurrent hydrations store theirs (Snapshotter.set runs
\* beside the command and beside other calls).
SnapshotIsFold ==
    snapshot # None => IsFold(snapshot.status, snapshot.projectorVersion)

StartsBatch(i, c) == log[i].by = c /\ (i = 1 \/ log[i - 1].by # c)

\* Whatever else ran between reading and appending, the events a call appended
\* without `force` were decided on the state of exactly the events before them,
\* computed by the projector version of the call (optimistic concurrency
\* control of executeCommand, with or without a snapshot).
DecidedOnCurrentState ==
    \A c \in Commands : \A i \in 1..Len(log) :
        StartsBatch(i, c) /\ ~update[c].force =>
            /\ status[c].aggregateVersion = i - 1
            /\ IsFold(status[c], Version[c])

\* A call that ends in a conflict, a gone error or a rejection has appended
\* nothing and may be retried, unless its batch ended in a tombstone event.
RefusedLeavesNothing ==
    \A c \in Commands :
        /\ outcome[c] \in {"rejected", "conflict", "gone"}
        /\ update[c] # None => ~EndsInTombstone(c)
        => \A i \in 1..Len(log) : log[i].by # c

\* A call that succeeds has all its events in the stream, next to one another
\* and once, and if they end in a tombstone event the stream is deleted.
SuccessIsComplete ==
    \A c \in Commands :
        outcome[c] = "ok" /\ update[c] # None =>
            /\ EndsInTombstone(c) => deleted
            /\ \E k \in 0..Len(log) :
                 /\ SubSeq(log, k + 1, k + Len(Batch(c))) = Batch(c)
                 /\ \A i \in 1..Len(log) :
                      log[i].by = c => i \in k + 1 .. k + Len(Batch(c))

\* Unless a call forces its tombstone, deleting the stream never erases an
\* event that was appended after the tombstone event (the second request of
\* append expects the revision the first one reached).
DeletionErasesNothingNew ==
    /\ deleted
    /\ \A i \in 1..Len(log) : log[i].tomb => ~update[log[i].by].force
    => log # <<>> /\ log[Len(log)].tomb

\* Every call that starts ends, if the stores answer.
StartedCallEnds ==
    \A c \in Commands : pc[c] # "idle" ~> pc[c] = "done"

Appended(c) == \E i \in 1..Len(log) : log[i].by = c

Atomic == INSTANCE AtomicCommands WITH
            events <- log,
            erased <- deleted,
            seen <- [c \in Commands |->
                       IF Appended(c) THEN status[c].state.events ELSE None],
            forced <- [c \in Commands |->
                         IF Appended(c) THEN update[c].force ELSE FALSE]

\* Calls of executeCommand are atomic: each takes effect at one instant, and
\* unless it was forced it has decided on the history as it is at that instant.
AtomicSpec == Atomic!Spec
=============================================================================
