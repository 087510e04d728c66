----------------------------- MODULE StoreTable -----------------------------
(***************************************************************************)
(* One row of a table of a projection, in each of the three stores, and    *)
(* the event handler that changes it with set, update and remove.  The     *)
(* process may end between any two requests, before the position of the    *)
(* event is saved; the handler is then run anew.  A handler awaits its     *)
(* requests one after the other, or makes all of them at once.             *)
(*                                                                         *)
(* The databases are external, and a request of theirs is atomic (for the  *)
(* upsert of MongoDB, of a row that is there or has a unique key).  Values *)
(* stand for those that a store gives back as they were; the key of the    *)
(* row is a text.                                                          *)
(*                                                                         *)
(* The handler is one that ProjectionRun runs.  The proofs are about both  *)
(* modules, so that their names differ.                                    *)
(***************************************************************************)
EXTENDS Integers, FiniteSets, SequencesExt

CONSTANTS Fields,     \* the fields of the row beside its key
          MaxLength,  \* bound on the operations of a handler
          MaxCrashes  \* bound on the ends of the process

ASSUME StoreTableAssumption == /\ IsFiniteSet(Fields)
                               /\ MaxLength \in Nat
                               /\ MaxCrashes \in Nat

Adapters == {"redis", "mongodb", "postgres"}

\* The n-th operation writes the value n, so that it is known whose a value is.
Entries(n) == UNION {[fs -> {n}] : fs \in SUBSET Fields}

Empty == [f \in {} |-> 0]
Absent == [f \in {"absent"} |-> 0]

\* A field that is optional may be missing from the entry that is set.
Operations(n) == [kind : {"set"}, values : Entries(n)]
                   \cup [kind : {"update"}, values : Entries(n) \ {Empty}]
                   \cup {[kind |-> "remove", values |-> Empty]}

Handlers == UNION {{h \in [1..n -> UNION {Operations(m) : m \in 1..n}] :
                      \A m \in 1..n : h[m] \in Operations(m)} :
                   n \in 1..MaxLength}

VARIABLES
    adapter,   \* the store
    awaited,   \* whether the handler awaits an operation before the next one
    handler,   \* its operations
    before,    \* the row before the event
    row,       \* the row
    progress,  \* of each operation: "todo", "read", "done"
    entry,     \* what the update of Redis has read
    saved,     \* the position of the event is saved
    crashes    \* (bound) ends of the process

handlerVars == <<adapter, awaited, handler, before>>
rowVars == <<handlerVars, row, progress, entry, saved, crashes>>

RowInit == /\ adapter \in Adapters
           /\ awaited \in BOOLEAN
           /\ handler \in Handlers
           /\ before \in Entries(0) \cup {Absent}
           /\ row = before
           /\ progress = [n \in DOMAIN handler |-> "todo"]
           /\ entry = [n \in DOMAIN handler |-> Absent]
           /\ saved = FALSE
           /\ crashes = 0
-----------------------------------------------------------------------------
(* What the requests do to the row. *)

\* Values of the second take the place of those of the first.
Merged(old, new) == [f \in DOMAIN old \cup DOMAIN new |->
                       IF f \in DOMAIN new THEN new[f] ELSE old[f]]

\* Mutant: an update creates the row that is missing.
Upserted(values) == IF row = Absent THEN values ELSE Merged(row, values)

Updated(values) == IF row = Absent THEN Absent ELSE Merged(row, values)

\* HSET writes the whole entry; the upserts of MongoDB and PostgreSQL change
\* the fields of the entry and leave others of an existing row as they are.
Inserted(values) ==
    IF adapter = "redis" \/ row = Absent THEN values ELSE Merged(row, values)
-----------------------------------------------------------------------------
(* The operations of the handler. *)

Turn(n) == awaited => \A m \in 1..(n - 1) : progress[m] = "done"

\* The next request of the n-th operation.
Request(n, kind, from, to) ==
    /\ n \in DOMAIN handler
    /\ handler[n].kind = kind
    /\ progress[n] = from
    /\ Turn(n)
    /\ progress' = [progress EXCEPT ![n] = to]
    /\ UNCHANGED <<handlerVars, saved, crashes>>

Set(n) == /\ Request(n, "set", "todo", "done")
          /\ row' = Inserted(handler[n].values)
          /\ UNCHANGED entry

RemoveRow(n) == /\ Request(n, "remove", "todo", "done")
                /\ row' = Absent
                /\ UNCHANGED entry

\* The update of Redis reads the entry and, if there is one, sets it whole.
ReadEntry(n) == /\ adapter = "redis"
                /\ Request(n, "update", "todo",
                           IF row = Absent THEN "done" ELSE "read")
                /\ entry' = [entry EXCEPT ![n] = row]
                /\ UNCHANGED row

WriteEntry(n) == /\ adapter = "redis"
                 /\ Request(n, "update", "read", "done")
                 /\ row' = Merged(entry[n], handler[n].values)
                 /\ UNCHANGED entry

\* Mutant: the update of MongoDB reads first, as that of Redis does.
ReadFirst(n) ==
    /\ adapter = "mongodb"
    /\ \/ /\ Request(n, "update", "todo",
                     IF row = Absent THEN "done" ELSE "read")
          /\ entry' = [entry EXCEPT ![n] = row]
          /\ UNCHANGED row
       \/ /\ Request(n, "update", "read", "done")
          /\ row' = Merged(entry[n], handler[n].values)
          /\ UNCHANGED entry

UpdateOne(n) == /\ adapter = "mongodb"
                /\ Request(n, "update", "todo", "done")
                /\ row' = Updated(handler[n].values)
                /\ UNCHANGED entry

\* The update of PostgreSQL hands over the values of the key as one array,
\* where the first of them is expected: no key of a row is equal to it.
UpdateNothing(n) == /\ adapter = "postgres"
                    /\ Request(n, "update", "todo", "done")
                    /\ UNCHANGED <<row, entry>>

Operate(n) == \/ Set(n)
              \/ RemoveRow(n)
              \/ ReadEntry(n)
              \/ WriteEntry(n)
              \/ UpdateOne(n)
              \/ UpdateNothing(n)
-----------------------------------------------------------------------------
(* The projection that runs the handler. *)

MarkSaved == /\ ~saved
             /\ \A n \in DOMAIN handler : progress[n] = "done"
             /\ saved' = TRUE
             /\ UNCHANGED <<handlerVars, row, progress, entry, crashes>>

\* The process ends and the next one handles the event again.
Crash == /\ ~saved
         /\ crashes < MaxCrashes
         /\ crashes' = crashes + 1
         /\ progress' = [n \in DOMAIN handler |-> "todo"]
         /\ entry' = [n \in DOMAIN handler |-> Absent]
         /\ UNCHANGED <<handlerVars, row, saved>>

RowNext == \/ \E n \in 1..MaxLength : Operate(n)
           \/ MarkSaved
           \/ Crash

RowSpec == RowInit /\ [][RowNext]_rowVars
-----------------------------------------------------------------------------
(* Properties *)

RowTypeOK == /\ adapter \in Adapters
             /\ awaited \in BOOLEAN
             /\ handler \in Handlers
             /\ before \in Entries(0) \cup {Absent}
             /\ progress \in [DOMAIN handler -> {"todo", "read", "done"}]
             /\ saved \in BOOLEAN
             /\ crashes \in 0..MaxCrashes

\* The last one of the numbers, 0 if there is none.
LatestOf(numbers) == IF numbers = {} THEN 0
                     ELSE CHOOSE n \in numbers : \A m \in numbers : m <= n

\* What the operations of h are to leave, as the store of the tests has it: a
\* set replaces the row, a remove ends it, and of the updates behind the last of
\* these the latest one of each field counts, if there is a row.
Outcome(h) ==
    LET last == LatestOf({n \in DOMAIN h : h[n].kind # "update"})
        base == IF last = 0 THEN before
                ELSE IF h[last].kind = "set" THEN h[last].values
                ELSE Absent
        updates == {n \in DOMAIN h : n > last}
        fields == DOMAIN base \cup UNION {DOMAIN h[n].values : n \in updates}
    IN  IF base = Absent THEN Absent
        ELSE [f \in fields |->
                LET n == LatestOf({m \in updates : f \in DOMAIN h[m].values})
                IN  IF n = 0 THEN base[f] ELSE h[n].values[f]]

\* In MongoDB and PostgreSQL an entry that lacks a field keeps the old value of
\* it, and in PostgreSQL an update does nothing: both differ from the store of
\* the tests, and are left out.
AsInTests ==
    \/ adapter = "redis"
    \/ /\ \A n \in DOMAIN handler :
            handler[n].kind = "set" => DOMAIN handler[n].values = Fields
       /\ adapter = "postgres" =>
            \A n \in DOMAIN handler : handler[n].kind # "update"

\* However often the process ends within a handler that awaits its operations,
\* which is then run again on what it has left behind, also between the two
\* requests of an update of Redis: once the position is saved, the row is what
\* one run of the handler makes of the row before the event.
RerunConverges == saved /\ awaited /\ AsInTests => row = Outcome(handler)

\* Operations that are made at once take effect in some order, none of them
\* partly or on an old state of the row, in a store with atomic updates.  (Redis
\* has none: one of two updates is lost, or a removed row comes back.)
SomeOrder ==
    saved /\ ~awaited /\ adapter # "redis" /\ AsInTests =>
        \E order \in SetToSeqs(DOMAIN handler) :
            row = Outcome([n \in DOMAIN handler |-> handler[order[n]]])
=============================================================================
