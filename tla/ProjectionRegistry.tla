------------------------- MODULE ProjectionRegistry -------------------------
(***************************************************************************)
(* The projections of one name that a Woltage instance knows: the calls of *)
(* addProjection, setProjectionActive and removeProjection, the map in     *)
(* memory they change at their awaits, and the configuration they persist  *)
(* for the next start.                                                     *)
(*                                                                         *)
(* A projection object is an instance of its version; every await of a     *)
(* call is a place where the steps of other calls may come in between.     *)
(***************************************************************************)
EXTENDS Naturals, FiniteSets

CONSTANTS Callers,       \* who calls, each one call at a time
          Versions,      \* the versions of the projection
          MaxInstances,  \* bound on the projection objects of one process
          MaxCalls,      \* bound on the calls in all
          MaxRestarts,   \* bound on the ends of the process
          None           \* no projection

Instance == [version : Versions, serial : 1..MaxInstances]

ASSUME ProjectionRegistryAssumption ==
    /\ None \notin Versions \cup Instance
    /\ MaxInstances \in Nat \ {0}
    /\ MaxCalls \in Nat
    /\ MaxRestarts \in Nat

Operation == [kind : {"add", "setActive", "remove"}, version : Versions,
              force : BOOLEAN]

\* What #saveProjections stores.
Configuration == [versions : SUBSET Versions, active : Versions \cup {None}]

VARIABLES
    persisted,   \* the row 'status' of the internal store
    mode,        \* the life of the process
    idMap,       \* ProjectionMap.idMap
    active,      \* ProjectionMap.activeProjections, its entry for the name
    flagged,     \* the projections with isActive set
    abandoned,   \* (history) those of them that were removed by force
    initialised, \* the projections whose init was called
    live,        \* the projections with isLiveTracking set
    stopped,     \* the projections whose stop has ended
    instances,   \* how many projection objects were made
    pc,          \* the await at which a call is suspended
    call,        \* the call of a caller
    projection,  \* the projection it is about
    toWrite,     \* the configuration it stores
    outcome,     \* how the last call of a caller ended
    cache,       \* #activeProjectionsSnapshot
    cacheValid,  \* #activeProjectionsSnapshotGen is #activeProjectionsGen
    calls,       \* (bound) calls begun
    restarts     \* (bound) ends of the process

flagVars == <<flagged, abandoned>>
mapVars == <<idMap, active, flagVars>>
runVars == <<initialised, live, stopped, instances>>
callVars == <<pc, call, projection, toWrite, outcome>>
cacheVars == <<cache, cacheValid>>
boundVars == <<calls, restarts>>
vars == <<persisted, mode, mapVars, runVars, callVars, cacheVars, boundVars>>

Idle == [c \in Callers |-> "idle"]
Empty == [v \in Versions |-> None]
Nobody == [c \in Callers |-> None]

Init == /\ persisted = [versions |-> {}, active |-> None]
        /\ mode = "down"
        /\ idMap = Empty
        /\ active = None
        /\ flagged = {}
        /\ abandoned = {}
        /\ initialised = {}
        /\ live = {}
        /\ stopped = {}
        /\ instances = 0
        /\ pc = Idle
        /\ call = Nobody
        /\ projection = Nobody
        /\ toWrite = Nobody
        /\ outcome = [c \in Callers |-> "none"]
        /\ cache = None
        /\ cacheValid = FALSE
        /\ calls = 0
        /\ restarts = 0

Registered == {idMap[v] : v \in Versions} \ {None}

First(v) == [version |-> v, serial |-> 1]
-----------------------------------------------------------------------------
(* The life of the process. *)

\* #loadProjections; setActive throws when the active version is not there.
Load == /\ mode = "down"
        /\ idMap' = [v \in Versions |->
                       IF v \in persisted.versions THEN First(v) ELSE None]
        /\ instances' = 1
        /\ CASE persisted.active = None ->
                  /\ mode' = "loaded"
                  /\ UNCHANGED <<active, flagged>>
             [] persisted.active \in persisted.versions ->
                  /\ mode' = "loaded"
                  /\ active' = First(persisted.active)
                  /\ flagged' = {First(persisted.active)}
             [] OTHER ->
                  /\ mode' = "broken"
                  /\ UNCHANGED <<active, flagged>>
        /\ UNCHANGED <<persisted, abandoned, initialised, live, stopped,
                       callVars, cacheVars, boundVars>>

\* ProjectionMap.init.
Start == /\ mode = "loaded"
         /\ mode' = "running"
         /\ initialised' = initialised \cup Registered
         /\ UNCHANGED <<persisted, mapVars, live, stopped, instances, callVars,
                        cacheVars, boundVars>>

\* The process ends; what it has in memory is gone.
End == /\ mode \in {"loaded", "running"}
       /\ restarts < MaxRestarts
       /\ restarts' = restarts + 1
       /\ mode' = "down"
       /\ idMap' = Empty
       /\ active' = None
       /\ flagged' = {}
       /\ abandoned' = {}
       /\ initialised' = {}
       /\ live' = {}
       /\ stopped' = {}
       /\ instances' = 0
       /\ pc' = Idle
       /\ call' = Nobody
       /\ projection' = Nobody
       /\ toWrite' = Nobody
       /\ outcome' = [c \in Callers |-> "none"]
       /\ cache' = None
       /\ cacheValid' = FALSE
       /\ UNCHANGED <<persisted, calls>>

\* The replay of a projection comes to its end.
BecomeLive(p) == /\ p \in initialised \ live
                 /\ live' = live \cup {p}
                 /\ UNCHANGED <<persisted, mode, mapVars, initialised, stopped,
                                instances, callVars, cacheVars, boundVars>>
-----------------------------------------------------------------------------
(* Calls. *)

Begin(c, kind, v, force) ==
    /\ mode \in {"loaded", "running"}
    /\ pc[c] = "idle"
    /\ calls < MaxCalls
    /\ calls' = calls + 1
    /\ call' = [call EXCEPT
                  ![c] = [kind |-> kind, version |-> v, force |-> force]]
    /\ UNCHANGED <<persisted, mode, restarts>>

Goto(c, step) == /\ pc' = [pc EXCEPT ![c] = step]
                 /\ UNCHANGED <<toWrite, outcome>>

Return(c, how) == /\ pc' = [pc EXCEPT ![c] = "idle"]
                  /\ outcome' = [outcome EXCEPT ![c] = how]
                  /\ UNCHANGED toWrite

ConfigurationOf(map, activeOne) ==
    [versions |-> {v \in Versions : map[v] # None},
     active |-> IF activeOne = None THEN None ELSE activeOne.version]

\* Mutant: the configuration is put together before the change.
SaveTheOld(c, map, activeOne) ==
    /\ toWrite' = [toWrite EXCEPT ![c] = ConfigurationOf(idMap, active)]
    /\ pc' = [pc EXCEPT ![c] = "write"]
    /\ UNCHANGED outcome

\* #saveProjections, up to its await.  It throws when there is an active
\* projection but none of its name in the map.
Save(c, map, activeOne) ==
    IF activeOne # None /\ map = Empty
    THEN Return(c, "rejected")
    ELSE /\ toWrite' = [toWrite EXCEPT ![c] = ConfigurationOf(map, activeOne)]
         /\ pc' = [pc EXCEPT ![c] = "write"]
         /\ UNCHANGED outcome

\* Mutant: the projection that was active keeps its flag.
FlagBoth(p) == flagged' = flagged \cup {p}

Flag(p) == flagged' = (flagged \ {active}) \cup {p}

\* Mutant: the snapshot of the active projections stays valid.
ActivateQuietly(p) == /\ active' = p
                      /\ Flag(p)
                      /\ abandoned' = abandoned \ {p}
                      /\ UNCHANGED <<idMap, cacheVars>>

\* ProjectionMap.setActive, when it does not throw.
Activate(p) == /\ active' = p
               /\ Flag(p)
               /\ abandoned' = abandoned \ {p}
               /\ cacheValid' = FALSE
               /\ UNCHANGED <<idMap, cache>>

KeepMap == UNCHANGED <<mapVars, cacheVars>>

\* addProjection: the projection is there, or it is made and its store connects.
BeginAdd(c, v, force) ==
    /\ Begin(c, "add", v, force)
    /\ IF idMap[v] # None
       THEN /\ projection' = [projection EXCEPT ![c] = idMap[v]]
            /\ UNCHANGED instances
       ELSE /\ instances < MaxInstances
            /\ projection' = [projection EXCEPT
                 ![c] = [version |-> v, serial |-> instances + 1]]
            /\ instances' = instances + 1
    /\ Goto(c, "connect")
    /\ KeepMap
    /\ UNCHANGED <<initialised, live, stopped>>

\* ProjectionMap.add, up to the await of init.
Register(c) ==
    /\ pc[c] = "connect"
    /\ idMap' = [idMap EXCEPT ![call[c].version] = projection[c]]
    /\ initialised' = IF mode = "running"
                      THEN initialised \cup {projection[c]} ELSE initialised
    /\ Goto(c, "init")
    /\ UNCHANGED <<persisted, mode, active, flagVars, live, stopped, instances,
                   call, projection, cacheVars, boundVars>>

\* The projection is initialised; the forced activation looks it up again.
Added(c) ==
    /\ pc[c] = "init"
    /\ LET p == idMap[call[c].version]
       IN  CASE ~call[c].force -> Save(c, idMap, active) /\ KeepMap
             [] call[c].force /\ p # None -> Save(c, idMap, p) /\ Activate(p)
             [] OTHER -> Return(c, "rejected") /\ KeepMap
    /\ UNCHANGED <<persisted, mode, runVars, call, projection, boundVars>>

\* setProjectionActive, up to the await of the write.
SetActive(c, v, force) ==
    /\ Begin(c, "setActive", v, force)
    /\ IF idMap[v] # None /\ (force \/ idMap[v] \in live)
       THEN Activate(idMap[v]) /\ Save(c, idMap, idMap[v])
       ELSE KeepMap /\ Return(c, "rejected")
    /\ UNCHANGED <<runVars, projection>>

\* Mutant: no projection counts as active.
NeverActive(p) == FALSE

IsActive(p) == p # None /\ p = active

\* removeProjection, up to the await of stop.  The flag of the projection stays.
BeginRemove(c, v, force) ==
    /\ Begin(c, "remove", v, force)
    /\ projection' = [projection EXCEPT ![c] = idMap[v]]
    /\ CASE idMap[v] = None -> Save(c, idMap, active) /\ KeepMap
         [] idMap[v] # None /\ ~IsActive(idMap[v]) -> Goto(c, "stop") /\ KeepMap
         [] IsActive(idMap[v]) /\ force ->
              /\ Goto(c, "stop")
              /\ active' = None
              /\ abandoned' = abandoned \cup {active}
              /\ cacheValid' = FALSE
              /\ UNCHANGED <<idMap, flagged, cache>>
         [] OTHER -> Return(c, "rejected") /\ KeepMap
    /\ UNCHANGED runVars

\* The projection has stopped; its id is deleted from the map.
Unregister(c) ==
    /\ pc[c] = "stop"
    /\ stopped' = stopped \cup {projection[c]}
    /\ idMap' = [idMap EXCEPT ![call[c].version] = None]
    /\ Save(c, idMap', active)
    /\ UNCHANGED <<persisted, mode, active, flagVars, initialised, live,
                   instances, call, projection, cacheVars, boundVars>>

Written(c) ==
    /\ pc[c] = "write"
    /\ persisted' = toWrite[c]
    /\ Return(c, "ok")
    /\ UNCHANGED <<mode, mapVars, runVars, call, projection, cacheVars,
                   boundVars>>

\* A store cannot connect, init or stop fails, or the write does.
Fail(c) ==
    /\ \/ pc[c] = "connect" /\ projection[c] \notin Registered
       \/ pc[c] = "init" /\ projection[c] \in initialised
       \/ pc[c] \in {"stop", "write"}
    /\ Return(c, "rejected")
    /\ UNCHANGED <<persisted, mode, mapVars, runVars, call, projection,
                   cacheVars, boundVars>>

\* getActiveProjections, when a command or a query is executed.
Query == /\ mode \in {"loaded", "running"}
         /\ ~cacheValid
         /\ cache' = active
         /\ cacheValid' = TRUE
         /\ UNCHANGED <<persisted, mode, mapVars, runVars, callVars, boundVars>>

Next == \/ Load
        \/ Start
        \/ End
        \/ \E p \in initialised : BecomeLive(p)
        \/ \E c \in Callers : \/ \E v \in Versions, force \in BOOLEAN :
                                    \/ BeginAdd(c, v, force)
                                    \/ SetActive(c, v, force)
                                    \/ BeginRemove(c, v, force)
                              \/ Register(c)
                              \/ Added(c)
                              \/ Unregister(c)
                              \/ Written(c)
                              \/ Fail(c)
        \/ Query

Spec == Init /\ [][Next]_vars
-----------------------------------------------------------------------------
(* Properties *)

TypeOK == /\ persisted \in Configuration
          /\ mode \in {"down", "loaded", "running", "broken"}
          /\ idMap \in [Versions -> Instance \cup {None}]
          /\ active \in Instance \cup {None}
          /\ flagged \subseteq Instance
          /\ abandoned \subseteq Instance
          /\ initialised \subseteq Instance
          /\ live \subseteq initialised
          /\ stopped \subseteq Instance
          /\ instances \in 0..MaxInstances
          /\ pc \in [Callers ->
                      {"idle", "connect", "init", "stop", "write"}]
          /\ call \in [Callers -> Operation \cup {None}]
          /\ projection \in [Callers -> Instance \cup {None}]
          /\ toWrite \in [Callers -> Configuration \cup {None}]
          /\ outcome \in [Callers -> {"none", "ok", "rejected"}]
          /\ cache \in Instance \cup {None}
          /\ cacheValid \in BOOLEAN
          /\ calls \in 0..MaxCalls
          /\ restarts \in 0..MaxRestarts

\* Whenever the process ends, the configuration it leaves behind can be loaded:
\* the next start does not fail because the active version is missing.
StartsAgain == mode # "broken"

\* A call that succeeds is durable: what is persisted then is what the process
\* has in memory.
AcknowledgedIsDurable ==
    [][\A c \in Callers :
         pc[c] = "write" /\ pc'[c] = "idle" /\ outcome'[c] = "ok" =>
            persisted' = ConfigurationOf(idMap', active')]_vars

\* The active projection, which read models query, is registered and has not
\* been stopped, and it alone is flagged: side effects are executed by it and by
\* no other version, except one that was removed by force, whose flag nobody
\* takes back, also if it could not be stopped.
ActiveIsThere ==
    /\ active # None => active \in Registered \ stopped
    /\ flagged \ abandoned = {active} \ {None}

\* A command or query sees the active projection, not one that was replaced or
\* removed before it began.
QueriesSeeActive == cacheValid => cache = active
=============================================================================
