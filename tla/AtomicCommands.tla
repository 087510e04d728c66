--------------------------- MODULE AtomicCommands ---------------------------
(***************************************************************************)
(* What executing commands on one aggregate promises to its callers: each  *)
(* call takes effect at one instant, at which its batch of events is added *)
(* to the history of the aggregate.  A call that did not switch optimistic *)
(* concurrency control off has decided on the whole history as it is at    *)
(* that instant; a forced call has decided on some earlier part of it.     *)
(* Nothing is added once the aggregate is erased, and only a history that  *)
(* holds a tombstone event is ever erased.                                 *)
(***************************************************************************)
EXTENDS Naturals, Sequences

CONSTANTS Commands,      \* the calls of executeCommand
          InitialLogs,   \* the histories the aggregate may have at the start
          MaxBatch,      \* the most events one call emits
          None           \* the call has not taken effect

VARIABLES events,        \* the history of the aggregate
          erased,        \* the aggregate has been erased
          seen,          \* what the call had seen when it took effect, or None
          forced         \* the call took effect without concurrency control

vars == <<events, erased, seen, forced>>

Event(c) == [by : {c}, tomb : BOOLEAN]

Batches(c) == UNION {[1..n -> Event(c)] : n \in 1..MaxBatch}

Init == /\ events \in InitialLogs
        /\ erased = FALSE
        /\ seen = [c \in Commands |-> None]
        /\ forced = [c \in Commands |-> FALSE]

Extend(c) == /\ ~erased
             /\ seen[c] = None
             /\ \E batch \in Batches(c) : events' = events \o batch
             /\ UNCHANGED erased

Commit(c) == /\ Extend(c)
             /\ seen' = [seen EXCEPT ![c] = events]
             /\ UNCHANGED forced

CommitForced(c) == /\ Extend(c)
                   /\ \E n \in 0..Len(events) :
                        seen' = [seen EXCEPT ![c] = SubSeq(events, 1, n)]
                   /\ forced' = [forced EXCEPT ![c] = TRUE]

Erase == /\ ~erased
         /\ \E i \in 1..Len(events) : events[i].tomb
         /\ erased' = TRUE
         /\ UNCHANGED <<events, seen, forced>>

Next == \/ \E c \in Commands : Commit(c) \/ CommitForced(c)
        \/ Erase

Spec == Init /\ [][Next]_vars
=============================================================================
