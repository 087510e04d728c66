--------------------------- MODULE LocalScheduler ---------------------------
(***************************************************************************)
(* The scheduler of packages/scheduler-local: a list of invocations kept   *)
(* in memory and in a storage, one timer, and the runs of #invoke that the *)
(* timer starts.  Runs overlap: a timer set while a run awaits its         *)
(* callbacks fires before that run ends.                                   *)
(*                                                                         *)
(* One callback is subscribed, the one of the CommandScheduler, and a      *)
(* process subscribes it once.  Time passes in steps; a timer may fire     *)
(* late.                                                                   *)
(***************************************************************************)
EXTENDS Integers, FiniteSets, SequencesExt, Lists

CONSTANTS Invocations,     \* the ids of the invocations
          MaxTime,         \* bound on the clock
          MaxTimeout,      \* MAX_TIMEOUT
          RetryLimit,      \* retryFailedInvocations: NoRetry, Unlimited or n
          MaxFailures,     \* bound on the callbacks that fail
          MaxRestarts,     \* bound on the ends of a process
          StorageIsSorted  \* load returns the invocations by their time

NoRetry == -1
Unlimited == -2

ASSUME LocalSchedulerAssumption ==
    /\ IsFiniteSet(Invocations)
    /\ MaxTime \in Nat \ {0}
    /\ MaxTimeout \in Nat \ {0}
    /\ RetryLimit \in Nat \cup {NoRetry, Unlimited}
    /\ MaxFailures \in Nat
    /\ MaxRestarts \in Nat
    /\ StorageIsSorted \in BOOLEAN

Time == 0..MaxTime

Unset == -1                \* no timer

Mode == {"down", "created", "loading", "subscribed", "unsubscribed"}

Run == [batch : Seq(Invocations), open : SUBSET Invocations,
        failed : SUBSET Invocations, phase : {"execute", "delete"}]

VARIABLES
    now,               \* Date.now()
    executeAt,         \* the time of an invocation, 0 before it is scheduled
    storage,           \* the invocations in the storage
    mode,              \* the process and the subscription of its callback
    pending,           \* #invocations
    nextInvocationAt,  \* #nextInvocationAt
    timer,             \* when #timeout fires
    saving,            \* the calls of schedule that await storage.save
    runs,              \* the runs of #invoke
    retryCount,        \* Invocation.retryCount
    executed,          \* (history) how often the callback was called
    accepted,          \* (history) invocations whose save has returned
    fulfilled,         \* (history) invocations whose callback has fulfilled
    rejected,          \* (history) invocations whose callback has failed
    missed,            \* (history) invocations taken while nobody subscribed
    failures,          \* (bound) callbacks that failed
    restarts           \* (bound) ends of a process

timerVars == <<nextInvocationAt, timer>>
outcomeVars == <<accepted, fulfilled, rejected, missed>>
boundVars == <<failures, restarts>>
vars == <<now, executeAt, storage, mode, pending, timerVars, saving, runs,
          retryCount, executed, outcomeVars, boundVars>>

Init == /\ now = 1
        /\ executeAt = [i \in Invocations |-> 0]
        /\ storage = {}
        /\ mode = "created"
        /\ pending = <<>>
        /\ nextInvocationAt = 0
        /\ timer = Unset
        /\ saving = {}
        /\ runs = {}
        /\ retryCount = [i \in Invocations |-> 0]
        /\ executed = [i \in Invocations |-> 0]
        /\ accepted = {}
        /\ fulfilled = {}
        /\ rejected = {}
        /\ missed = {}
        /\ failures = 0
        /\ restarts = 0

Lesser(a, b) == IF a < b THEN a ELSE b
Greater(a, b) == IF a > b THEN a ELSE b
-----------------------------------------------------------------------------
(* The timer. *)

SetTimer(timestamp) ==
    /\ nextInvocationAt' = timestamp
    /\ timer' = now + Lesser(Greater(timestamp - now, 0), MaxTimeout)

\* Mutant: a run of #invoke does not set the timer for what is left.
LeavesTheTimer(list) == UNCHANGED timerVars

\* #onInvocationHandled, with the list that it finds.
OnInvocationHandled(list) ==
    IF list = <<>> THEN UNCHANGED timerVars ELSE SetTimer(executeAt[list[1]])

Tick == /\ now < MaxTime
        /\ now' = now + 1
        /\ UNCHANGED <<executeAt, storage, mode, pending, timerVars, saving,
                       runs, retryCount, executed, outcomeVars, boundVars>>
-----------------------------------------------------------------------------
(* subscribe and unsubscribe, by CommandScheduler.start and stop. *)

Subscribe == /\ mode = "created"
             /\ mode' = "loading"
             /\ UNCHANGED <<now, executeAt, storage, pending, timerVars, saving,
                            runs, retryCount, executed, outcomeVars,
                            boundVars>>

InOrder(list) ==
    \A m, n \in DOMAIN list : m < n => executeAt[list[m]] <= executeAt[list[n]]

\* What storage.load returns replaces the list in memory.
Load == /\ mode = "loading"
        /\ mode' = "subscribed"
        /\ \E list \in SetToSeqs(storage) :
             /\ StorageIsSorted => InOrder(list)
             /\ pending' = list
             /\ OnInvocationHandled(list)
        /\ retryCount' = [i \in Invocations |->
                            IF i \in storage THEN 0 ELSE retryCount[i]]
        /\ UNCHANGED <<now, executeAt, storage, saving, runs, executed,
                       outcomeVars, boundVars>>

Unsubscribe == /\ mode = "subscribed"
               /\ mode' = "unsubscribed"
               /\ UNCHANGED <<now, executeAt, storage, pending, timerVars,
                              saving, runs, retryCount, executed, outcomeVars,
                              boundVars>>

\* The process ends, by a crash or after stop, and a new one begins.
Restart == /\ restarts < MaxRestarts
           /\ restarts' = restarts + 1
           /\ mode' = "created"
           /\ pending' = <<>>
           /\ nextInvocationAt' = 0
           /\ timer' = Unset
           /\ saving' = {}
           /\ runs' = {}
           /\ UNCHANGED <<now, executeAt, storage, retryCount, executed,
                          outcomeVars, failures>>
-----------------------------------------------------------------------------
(* schedule. *)

\* Mutant: a new invocation goes to the end of the list.
AtTheEnd(timestamp) == Len(pending) + 1

\* The place of a new invocation: before the first one that is later.
After(timestamp) ==
    LET later == SelectInSeq(pending, LAMBDA i : executeAt[i] > timestamp)
    IN  IF later = 0 THEN Len(pending) + 1 ELSE later

Schedule(i, timestamp) ==
    /\ executeAt[i] = 0
    /\ executeAt' = [executeAt EXCEPT ![i] = timestamp]
    /\ pending' = InsertAt(pending, After(timestamp), i)
    /\ saving' = saving \cup {i}
    /\ UNCHANGED <<now, storage, mode, timerVars, runs, retryCount, executed,
                   outcomeVars, boundVars>>

Saved(i) ==
    /\ i \in saving
    /\ saving' = saving \ {i}
    /\ storage' = storage \cup {i}
    /\ accepted' = accepted \cup {i}
    /\ IF nextInvocationAt = 0 \/ executeAt[i] < nextInvocationAt
       THEN SetTimer(executeAt[i])
       ELSE UNCHANGED timerVars
    /\ UNCHANGED <<now, executeAt, mode, pending, runs, retryCount, executed,
                   fulfilled, rejected, missed, boundVars>>
-----------------------------------------------------------------------------
(* #invoke. *)

\* Mutant: whatever is in the list counts as due.
AllDue == Len(pending)

\* How many invocations at the front of the list are due.
Due == LET future == SelectInSeq(pending, LAMBDA i : executeAt[i] > now)
       IN  IF future = 0 THEN Len(pending) ELSE future - 1

\* The delay was cut to MAX_TIMEOUT: wait for the rest of it.
Wait == /\ nextInvocationAt > now
        /\ SetTimer(nextInvocationAt)
        /\ UNCHANGED <<pending, runs, executed, missed>>

\* Mutant: the batch stays in the list while it is executed.
KeepInList(count) == pending' = pending

TakeOut(count) == pending' = SubSeq(pending, count + 1, Len(pending))

\* Without a callback there is nothing to await.
Take == LET batch == SubSeq(pending, 1, Due)
            called == IF mode = "subscribed" THEN ToSet(batch) ELSE {}
        IN  /\ nextInvocationAt <= now
            /\ TakeOut(Due)
            /\ runs' = runs \cup {[batch |-> batch, open |-> called,
                                   failed |-> {}, phase |-> "execute"]}
            /\ executed' = [i \in Invocations |->
                              IF i \in called THEN executed[i] + 1
                              ELSE executed[i]]
            /\ missed' = missed \cup (ToSet(batch) \ called)
            /\ timer' = Unset
            /\ UNCHANGED nextInvocationAt

Fire == /\ timer # Unset
        /\ timer <= now
        /\ Wait \/ Take
        /\ UNCHANGED <<now, executeAt, storage, mode, saving, retryCount,
                       accepted, fulfilled, rejected, boundVars>>

\* The callback of an invocation settles.
Fulfil(r, i) ==
    /\ i \in r.open
    /\ runs' = (runs \ {r}) \cup {[r EXCEPT !.open = @ \ {i}]}
    /\ fulfilled' = fulfilled \cup {i}
    /\ UNCHANGED <<now, executeAt, storage, mode, pending, timerVars, saving,
                   retryCount, executed, accepted, rejected, missed,
                   boundVars>>

Reject(r, i) ==
    /\ i \in r.open
    /\ failures < MaxFailures
    /\ failures' = failures + 1
    /\ rejected' = rejected \cup {i}
    /\ runs' = (runs \ {r})
                 \cup {[r EXCEPT !.open = @ \ {i}, !.failed = @ \cup {i}]}
    /\ UNCHANGED <<now, executeAt, storage, mode, pending, timerVars, saving,
                   retryCount, executed, accepted, fulfilled, missed,
                   restarts>>

Counted == RetryLimit \in Nat
Retries == RetryLimit \notin {NoRetry, 0}

\* Mutant: one more retry than the limit.
GivenUpLate(i) == Counted /\ retryCount[i] > RetryLimit

GivenUp(i) == Counted /\ retryCount[i] >= RetryLimit

CountUp(i) == retryCount[i] + 1

\* All callbacks of a run have settled: what has failed and is not given up is
\* put back, and the rest is deleted from the storage.
Conclude(r) ==
    LET again == {i \in r.failed : ~GivenUp(i)}
        done == KeepOnly(r.batch, Invocations \ again)
    IN  /\ r.phase = "execute"
        /\ r.open = {}
        /\ retryCount' = [i \in Invocations |->
                            IF Counted /\ i \in r.failed THEN CountUp(i)
                            ELSE retryCount[i]]
        /\ pending' = IF Retries
                      THEN KeepOnly(r.batch, again) \o pending
                      ELSE pending
        /\ runs' = (runs \ {r}) \cup {[batch |-> done, open |-> {},
                                       failed |-> {}, phase |-> "delete"]}
        /\ UNCHANGED <<now, executeAt, storage, mode, timerVars, saving,
                       executed, outcomeVars, boundVars>>

Deleted(r) ==
    /\ r.phase = "delete"
    /\ storage' = storage \ ToSet(r.batch)
    /\ runs' = runs \ {r}
    /\ OnInvocationHandled(pending)
    /\ UNCHANGED <<now, executeAt, mode, pending, saving, retryCount, executed,
                   outcomeVars, boundVars>>

Invoke == \/ Fire
          \/ \E r \in runs : Conclude(r) \/ Deleted(r)
          \/ \E r \in runs : \E i \in r.open : Fulfil(r, i)

Next == \/ Tick
        \/ Subscribe
        \/ Load
        \/ Unsubscribe
        \/ Restart
        \/ \E i \in Invocations : \/ \E t \in 1..MaxTime : Schedule(i, t)
                                  \/ Saved(i)
        \/ Invoke
        \/ \E r \in runs : \E i \in r.open : Reject(r, i)

Spec == Init /\ [][Next]_vars

\* Time passes, the storage and the callbacks answer, and timers fire.
FairSpec == /\ Spec
            /\ WF_vars(Tick)
            /\ WF_vars(Subscribe \/ Load)
            /\ \A i \in Invocations : WF_vars(Saved(i))
            /\ WF_vars(Invoke)
-----------------------------------------------------------------------------
(* Properties *)

TypeOK == /\ now \in Time
          /\ executeAt \in [Invocations -> Time]
          /\ storage \subseteq Invocations
          /\ mode \in Mode
          /\ pending \in Seq(Invocations)
          /\ nextInvocationAt \in Time
          /\ timer \in Time \cup {Unset}
          /\ saving \subseteq Invocations
          /\ runs \subseteq Run
          /\ retryCount \in [Invocations -> Nat]
          /\ executed \in [Invocations -> Nat]
          /\ accepted \subseteq Invocations
          /\ fulfilled \subseteq Invocations
          /\ rejected \subseteq Invocations
          /\ missed \subseteq Invocations
          /\ failures \in 0..MaxFailures
          /\ restarts \in 0..MaxRestarts

\* "To execute a command of an aggregate at a specific time in the future"
\* (README.md:844): it is not executed before that time, also when the delay
\* exceeds MAX_TIMEOUT or an earlier invocation is due.
NeverEarly ==
    [][\A i \in Invocations :
         executed'[i] > executed[i] => executeAt[i] <= now]_vars

\* What the list, the storage and the runs implement: no invocation is executed
\* before its time ("at a specific time in the future", README.md:844), whatever
\* is cut to MAX_TIMEOUT or is earlier; none leaves the storage whose callback
\* has not settled, unless nobody was subscribed; and what has left it is
\* executed no more, also by the next process and by runs still under way.
Deferred == INSTANCE DeferredCommands
            WITH Commands <- Invocations,
                 due <- {i \in Invocations : executeAt[i] \in 1..now},
                 scheduled <- accepted,
                 answered <- fulfilled \cup rejected,
                 released <- accepted \ storage,
                 served <- mode = "subscribed"

DeferredSpec == Deferred!Spec

\* The timer that is armed fires by the time the earliest saved invocation of
\* the list is due, whatever order they were scheduled in; while a run of
\* #invoke is under way it is that run that sets the timer anew.
NotLate ==
    mode = "subscribed" /\ timer # Unset /\ runs = {} =>
        \A i \in ToSet(pending) \ saving : timer <= Greater(executeAt[i], now)

\* However runs of #invoke overlap, the command of an invocation is not executed
\* concurrently with itself, and is not still in the list while it is executed.
OneAtATime ==
    \A r \in runs : \A i \in r.open :
        /\ i \notin ToSet(pending)
        /\ \A s \in runs \ {r} : i \notin s.open

\* The storage forgets an invocation it has taken only when its callback has
\* fulfilled or has failed once more than it may be retried, whatever crashes or
\* overlaps; and a process executes it no more often than that.  What is due
\* while nobody is subscribed, before start or after stop, is lost (missed).
TriedBeforeForgotten ==
    /\ \A i \in accepted \ storage :
          \/ i \in fulfilled \cup missed
          \/ Counted /\ executed[i] > RetryLimit
    /\ RetryLimit # Unlimited =>
          \A i \in Invocations :
              executed[i] <= (restarts + 1) * (Greater(RetryLimit, 0) + 1)

\* An invocation of the list is executed as long as a timer is armed or a run of
\* #invoke is under way, unless the process stops.
PendingIsExecuted ==
    \A i \in Invocations :
        /\ mode = "subscribed"
        /\ i \in ToSet(pending)
        /\ timer # Unset \/ runs # {}
        ~> executed[i] > 0 \/ mode # "subscribed"
=============================================================================
