---------------------- MODULE ProjectionRegistryProofs ----------------------
(***************************************************************************)
(* Proofs about ProjectionRegistry for every set of versions and any       *)
(* number of calls and ends of the process.  Where the calls matter, they  *)
(* are those of one caller, who awaits each of them: with two callers the  *)
(* statements are false, as the code has it.                               *)
(***************************************************************************)
EXTENDS ProjectionRegistry, TLAPS

OneCaller == \A c, d \in Callers : c = d
-----------------------------------------------------------------------------
(* Type correctness. *)

\* What #saveProjections puts together is a configuration.
LEMMA ConfigurationType ==
    ASSUME NEW map \in [Versions -> Instance \cup {None}],
           NEW one \in Instance \cup {None}
    PROVE  ConfigurationOf(map, one) \in Configuration
  BY DEF ConfigurationOf, Configuration, Instance

\* The first projection object of a version.
LEMMA FirstType ==
    ASSUME NEW v \in Versions
    PROVE  First(v) \in Instance /\ First(v).version = v /\ First(v).serial = 1
  BY ProjectionRegistryAssumption DEF First, Instance

CallTypes == /\ pc \in [Callers ->
                         {"idle", "connect", "init", "stop", "write"}]
             /\ call \in [Callers -> Operation \cup {None}]
             /\ projection \in [Callers -> Instance \cup {None}]
             /\ toWrite \in [Callers -> Configuration \cup {None}]
             /\ outcome \in [Callers -> {"none", "ok", "rejected"}]

\* The end of a call, or its next await, keeps the types of the calls.
LEMMA GotoType ==
    ASSUME CallTypes, NEW c \in Callers,
           NEW step \in {"connect", "init", "stop"}, Goto(c, step)
    PROVE  CallTypes' <=> /\ call' \in [Callers -> Operation \cup {None}]
                          /\ projection' \in [Callers -> Instance \cup {None}]
  BY DEF CallTypes, Goto

LEMMA ReturnType ==
    ASSUME CallTypes, NEW c \in Callers, NEW how \in {"ok", "rejected"},
           Return(c, how)
    PROVE  CallTypes' <=> /\ call' \in [Callers -> Operation \cup {None}]
                          /\ projection' \in [Callers -> Instance \cup {None}]
  BY DEF CallTypes, Return

LEMMA SaveType ==
    ASSUME CallTypes, NEW c \in Callers,
           NEW map \in [Versions -> Instance \cup {None}],
           NEW one \in Instance \cup {None}, Save(c, map, one)
    PROVE  CallTypes' <=> /\ call' \in [Callers -> Operation \cup {None}]
                          /\ projection' \in [Callers -> Instance \cup {None}]
<1>1. CASE Return(c, "rejected")
  BY <1>1, ReturnType
<1>2. CASE /\ toWrite' = [toWrite EXCEPT ![c] = ConfigurationOf(map, one)]
           /\ pc' = [pc EXCEPT ![c] = "write"]
           /\ UNCHANGED outcome
  BY <1>2, ConfigurationType DEF CallTypes
<1> QED
  BY <1>1, <1>2 DEF Save

LEMMA BeginType ==
    ASSUME CallTypes, calls \in 0..MaxCalls, NEW c \in Callers,
           NEW kind \in {"add", "setActive", "remove"}, NEW v \in Versions,
           NEW force \in BOOLEAN, Begin(c, kind, v, force)
    PROVE  /\ calls' \in 0..MaxCalls
           /\ call' \in [Callers -> Operation \cup {None}]
           /\ call'[c] = [kind |-> kind, version |-> v, force |-> force]
           /\ call'[c] \in Operation
<1>1. [kind |-> kind, version |-> v, force |-> force] \in Operation
  BY DEF Operation
<1>2. call' = [call EXCEPT
                 ![c] = [kind |-> kind, version |-> v, force |-> force]]
  BY DEF Begin
<1>3. calls' \in 0..MaxCalls
  BY ProjectionRegistryAssumption DEF Begin
<1> QED
  BY <1>1, <1>2, <1>3 DEF CallTypes

LEMMA TypeSplit ==
    TypeOK <=> /\ CallTypes
               /\ persisted \in Configuration
               /\ mode \in {"down", "loaded", "running", "broken"}
               /\ idMap \in [Versions -> Instance \cup {None}]
               /\ active \in Instance \cup {None}
               /\ flagged \subseteq Instance
               /\ abandoned \subseteq Instance
               /\ initialised \subseteq Instance
               /\ live \subseteq initialised
               /\ stopped \subseteq Instance
               /\ instances \in 0..MaxInstances
               /\ cache \in Instance \cup {None}
               /\ cacheValid \in BOOLEAN
               /\ calls \in 0..MaxCalls
               /\ restarts \in 0..MaxRestarts
  BY DEF TypeOK, CallTypes

LEMMA TypeInit == Init => TypeOK
<1> SUFFICES ASSUME Init PROVE TypeOK
  OBVIOUS
<1>1. CallTypes
  BY DEF Init, CallTypes, Idle, Nobody
<1>2. persisted \in Configuration
  BY DEF Init, Configuration
<1>3. idMap \in [Versions -> Instance \cup {None}]
  BY DEF Init, Empty
<1>4. instances \in 0..MaxInstances /\ calls \in 0..MaxCalls
      /\ restarts \in 0..MaxRestarts
  BY ProjectionRegistryAssumption DEF Init
<1> QED
  BY <1>1, <1>2, <1>3, <1>4, TypeSplit DEF Init

\* A call that is suspended has what it goes on with: its arguments, its
\* projection, or the configuration it writes.
InHand == \A c \in Callers :
              /\ pc[c] # "idle" => call[c] \in Operation
              /\ pc[c] \in {"connect", "stop"} => projection[c] \in Instance
              /\ pc[c] = "write" => toWrite[c] \in Configuration

\* Activation of a projection of the map keeps the types.
LEMMA ActivateType ==
    ASSUME TypeOK, NEW p \in Instance, Activate(p)
    PROVE  /\ idMap' = idMap /\ active' = p
           /\ flagged' \subseteq Instance /\ abandoned' \subseteq Instance
           /\ cache' = cache /\ cacheValid' = FALSE
  BY DEF TypeOK, Activate, Flag

LEMMA TypeNext == TypeOK /\ InHand /\ [Next]_vars => TypeOK'
<1> SUFFICES ASSUME TypeOK, InHand, [Next]_vars
             PROVE  TypeOK'
  OBVIOUS
<1> USE ProjectionRegistryAssumption
<1>1. CallTypes /\ calls \in 0..MaxCalls
  BY TypeSplit
<1>2. CASE Load
  <2>1. persisted.versions \subseteq Versions
    BY DEF TypeOK, Configuration
  <2>2. idMap' \in [Versions -> Instance \cup {None}]
    BY <1>2, FirstType DEF Load
  <2>3. CASE mode' = "loaded" /\ active' = First(persisted.active)
             /\ flagged' = {First(persisted.active)}
             /\ persisted.active \in Versions
    BY <1>2, <2>2, <2>3, FirstType
    DEF Load, TypeOK, callVars, cacheVars, boundVars
  <2>4. CASE mode' \in {"loaded", "broken"} /\ UNCHANGED <<active, flagged>>
    BY <1>2, <2>2, <2>4 DEF Load, TypeOK, callVars, cacheVars, boundVars
  <2> QED
    BY <1>2, <2>1, <2>3, <2>4 DEF Load
<1>3. CASE Start
  BY <1>3 DEF Start, Registered, TypeOK, mapVars, flagVars, callVars,
              cacheVars, boundVars
<1>4. CASE End
  <2>1. CallTypes'
    BY <1>4 DEF End, CallTypes, Idle, Nobody
  <2>2. /\ idMap' \in [Versions -> Instance \cup {None}]
        /\ restarts' \in 0..MaxRestarts
    BY <1>4 DEF End, Empty, TypeOK
  <2>3. instances' \in 0..MaxInstances /\ calls' \in 0..MaxCalls
    BY <1>4 DEF End, TypeOK
  <2>4. /\ mode' = "down" /\ active' = None /\ cache' = None
        /\ flagged' = {} /\ abandoned' = {} /\ initialised' = {}
        /\ live' = {} /\ stopped' = {} /\ cacheValid' = FALSE
        /\ persisted' = persisted
    BY <1>4 DEF End
  <2>5. persisted' \in Configuration
    BY <2>4 DEF TypeOK
  <2> QED
    BY <2>1, <2>2, <2>3, <2>4, <2>5 DEF CallTypes, TypeOK
<1>5. CASE \E p \in initialised : BecomeLive(p)
  BY <1>5 DEF BecomeLive, TypeOK, mapVars, flagVars, callVars, cacheVars,
              boundVars
<1>6. ASSUME NEW c \in Callers, NEW v \in Versions, NEW force \in BOOLEAN,
             BeginAdd(c, v, force)
      PROVE  TypeOK'
  <2>1. /\ calls' \in 0..MaxCalls
        /\ call' \in [Callers -> Operation \cup {None}]
    BY <1>1, <1>6, BeginType DEF BeginAdd
  <2>2. /\ projection' \in [Callers -> Instance \cup {None}]
        /\ instances' \in 0..MaxInstances
    <3>1. CASE idMap[v] # None
      BY <1>6, <3>1 DEF BeginAdd, TypeOK
    <3>2. CASE idMap[v] = None
      <4>1. [version |-> v, serial |-> instances + 1] \in Instance
        BY <1>6, <3>2 DEF BeginAdd, TypeOK, Instance
      <4> QED
        BY <1>6, <3>2, <4>1 DEF BeginAdd, TypeOK
    <3> QED
      BY <3>1, <3>2
  <2>3. CallTypes'
    BY <1>1, <1>6, <2>1, <2>2, GotoType DEF BeginAdd
  <2> QED
    BY <1>6, <2>1, <2>2, <2>3
    DEF CallTypes, TypeOK, BeginAdd, Begin, KeepMap, mapVars, flagVars, cacheVars
<1>7. ASSUME NEW c \in Callers, NEW v \in Versions, NEW force \in BOOLEAN,
             SetActive(c, v, force)
      PROVE  TypeOK'
  <2>1. /\ calls' \in 0..MaxCalls
        /\ call' \in [Callers -> Operation \cup {None}]
        /\ projection' \in [Callers -> Instance \cup {None}]
    <3>1. Begin(c, "setActive", v, force)
      BY <1>7 DEF SetActive
    <3>2. projection' = projection
      BY <1>7 DEF SetActive, runVars
    <3>3. /\ calls' \in 0..MaxCalls
          /\ call' \in [Callers -> Operation \cup {None}]
      BY <1>1, <3>1, BeginType
    <3> QED
      BY <3>2, <3>3 DEF TypeOK
  <2>2. CASE idMap[v] # None /\ (force \/ idMap[v] \in live)
    <3>1. idMap[v] \in Instance
      BY <2>2 DEF TypeOK
    <3>2. CallTypes'
      BY <1>1, <1>7, <2>1, <2>2, <3>1, SaveType DEF SetActive, TypeOK
    <3>3. /\ idMap' = idMap /\ active' = idMap[v]
          /\ flagged' \subseteq Instance /\ abandoned' \subseteq Instance
          /\ cache' = cache /\ cacheValid' = FALSE
      BY <1>7, <2>2, <3>1, ActivateType DEF SetActive
    <3> QED
      BY <1>7, <2>1, <3>1, <3>2, <3>3
    DEF CallTypes, TypeOK, SetActive, Begin, runVars
  <2>3. CASE ~(idMap[v] # None /\ (force \/ idMap[v] \in live))
    <3>1. CallTypes'
      BY <1>1, <1>7, <2>1, <2>3, ReturnType DEF SetActive
    <3> QED
      BY <1>7, <2>1, <2>3, <3>1
    DEF CallTypes, TypeOK, SetActive, Begin, KeepMap, mapVars, flagVars, cacheVars, runVars
  <2> QED
    BY <2>2, <2>3
<1>8. ASSUME NEW c \in Callers, NEW v \in Versions, NEW force \in BOOLEAN,
             BeginRemove(c, v, force)
      PROVE  TypeOK'
  <2>1. /\ calls' \in 0..MaxCalls
        /\ call' \in [Callers -> Operation \cup {None}]
        /\ projection' \in [Callers -> Instance \cup {None}]
    <3>1. Begin(c, "remove", v, force)
      BY <1>8 DEF BeginRemove
    <3>2. projection' = [projection EXCEPT ![c] = idMap[v]]
      BY <1>8 DEF BeginRemove
    <3>3. /\ calls' \in 0..MaxCalls
          /\ call' \in [Callers -> Operation \cup {None}]
      BY <1>1, <3>1, BeginType
    <3> QED
      BY <3>2, <3>3 DEF TypeOK
  <2>2. \/ Save(c, idMap, active) /\ KeepMap
        \/ Goto(c, "stop") /\ KeepMap
        \/ /\ IsActive(idMap[v])
           /\ Goto(c, "stop")
           /\ active' = None
           /\ abandoned' = abandoned \cup {active}
           /\ cacheValid' = FALSE
           /\ UNCHANGED <<idMap, flagged, cache>>
        \/ Return(c, "rejected") /\ KeepMap
    BY <1>8 DEF BeginRemove
  <2>3. CallTypes'
    BY <1>1, <2>1, <2>2, SaveType, GotoType, ReturnType DEF TypeOK
  <2>4. /\ idMap' = idMap /\ active' \in Instance \cup {None}
        /\ flagged' = flagged /\ abandoned' \subseteq Instance
        /\ cache' = cache /\ cacheValid' \in BOOLEAN
    BY <2>2 DEF TypeOK, KeepMap, IsActive, mapVars, flagVars, cacheVars
  <2> QED
    BY <1>8, <2>1, <2>3, <2>4
    DEF CallTypes, TypeOK, BeginRemove, Begin, runVars
<1>9. ASSUME NEW c \in Callers, Register(c) PROVE TypeOK'
  <2>1. projection[c] \in Instance
    BY <1>9 DEF Register, InHand
  <2>2. idMap' \in [Versions -> Instance \cup {None}]
    BY <1>9, <2>1 DEF Register, TypeOK
  <2>3. initialised' \subseteq Instance /\ initialised \subseteq initialised'
    BY <1>9, <2>1 DEF Register, TypeOK
  <2>4. CallTypes'
    BY <1>1, <1>9, GotoType DEF Register, CallTypes
  <2> QED
    BY <1>9, <2>2, <2>3, <2>4
    DEF CallTypes, TypeOK, Register, flagVars, cacheVars, boundVars
<1>10. ASSUME NEW c \in Callers, Added(c) PROVE TypeOK'
  <2> DEFINE p == idMap[call[c].version]
  <2>1. call[c].version \in Versions
    BY <1>10 DEF Added, InHand, Operation
  <2>2. call' = call /\ projection' = projection
    BY <1>10 DEF Added
  <2>3. CASE Save(c, idMap, active) /\ KeepMap
    <3>1. CallTypes'
      BY <1>1, <2>2, <2>3, SaveType DEF TypeOK
    <3> QED
      BY <1>10, <2>3, <3>1
    DEF CallTypes, TypeOK, Added, KeepMap, mapVars, flagVars, cacheVars, runVars, boundVars
  <2>4. CASE p # None /\ Save(c, idMap, p) /\ Activate(p)
    <3>1. p \in Instance
      BY <2>1, <2>4 DEF TypeOK
    <3>2. CallTypes'
      BY <1>1, <2>2, <2>4, <3>1, SaveType DEF TypeOK
    <3>3. /\ idMap' = idMap /\ active' = p
          /\ flagged' \subseteq Instance /\ abandoned' \subseteq Instance
          /\ cache' = cache /\ cacheValid' = FALSE
      BY <2>4, <3>1, ActivateType
    <3> QED
      BY <1>10, <3>1, <3>2, <3>3
    DEF CallTypes, TypeOK, Added, runVars, boundVars
  <2>5. CASE Return(c, "rejected") /\ KeepMap
    <3>1. CallTypes'
      BY <1>1, <2>2, <2>5, ReturnType DEF CallTypes
    <3> QED
      BY <1>10, <2>5, <3>1
    DEF CallTypes, TypeOK, Added, KeepMap, mapVars, flagVars, cacheVars, runVars, boundVars
  <2> QED
    BY <1>10, <2>3, <2>4, <2>5 DEF Added
<1>11. ASSUME NEW c \in Callers, Unregister(c) PROVE TypeOK'
  <2>1. projection[c] \in Instance
    BY <1>11 DEF Unregister, InHand
  <2>2. idMap' \in [Versions -> Instance \cup {None}]
    BY <1>11 DEF Unregister, TypeOK
  <2>3. CallTypes'
    BY <1>1, <1>11, <2>2, SaveType DEF Unregister, TypeOK
  <2> QED
    BY <1>11, <2>1, <2>2, <2>3
    DEF CallTypes, TypeOK, Unregister, flagVars, cacheVars, boundVars
<1>12. ASSUME NEW c \in Callers, Written(c) PROVE TypeOK'
  <2>1. toWrite[c] \in Configuration
    BY <1>12 DEF Written, InHand
  <2>2. CallTypes'
    BY <1>1, <1>12, ReturnType DEF Written, CallTypes
  <2> QED
    BY <1>12, <2>1, <2>2
    DEF CallTypes, TypeOK, Written, mapVars, flagVars, runVars, cacheVars, boundVars
<1>13. ASSUME NEW c \in Callers, Fail(c) PROVE TypeOK'
  <2>1. CallTypes'
    BY <1>1, <1>13, ReturnType DEF Fail, CallTypes
  <2> QED
    BY <1>13, <2>1
    DEF CallTypes, TypeOK, Fail, mapVars, flagVars, runVars, cacheVars, boundVars
<1>14. CASE Query
  BY <1>14 DEF Query, TypeOK, mapVars, flagVars, runVars, callVars, boundVars
<1>15. CASE UNCHANGED vars
  BY <1>15 DEF vars, TypeOK, mapVars, flagVars, runVars, callVars, cacheVars,
               boundVars
<1> QED
  BY <1>2, <1>3, <1>4, <1>5, <1>6, <1>7, <1>8, <1>9, <1>10, <1>11, <1>12,
     <1>13, <1>14, <1>15 DEF Next

\* What the end of a call, or its next await, does to InHand.
LEMMA GotoInHand ==
    ASSUME TypeOK, InHand, NEW c \in Callers,
           NEW step \in {"connect", "init", "stop"}, Goto(c, step),
           call' \in [Callers -> Operation \cup {None}],
           \A d \in Callers \ {c} :
               call'[d] = call[d] /\ projection'[d] = projection[d],
           call'[c] \in Operation,
           step # "init" => projection'[c] \in Instance
    PROVE  InHand'
  BY DEF InHand, Goto, TypeOK

LEMMA ReturnInHand ==
    ASSUME TypeOK, InHand, NEW c \in Callers,
           NEW how \in {"ok", "rejected"}, Return(c, how),
           \A d \in Callers \ {c} :
               call'[d] = call[d] /\ projection'[d] = projection[d]
    PROVE  InHand'
  BY DEF InHand, Return, TypeOK

LEMMA SaveInHand ==
    ASSUME TypeOK, InHand, NEW c \in Callers,
           NEW map \in [Versions -> Instance \cup {None}],
           NEW one \in Instance \cup {None}, Save(c, map, one),
           \A d \in Callers \ {c} :
               call'[d] = call[d] /\ projection'[d] = projection[d],
           call'[c] \in Operation
    PROVE  InHand'
<1>1. CASE Return(c, "rejected")
  BY <1>1, ReturnInHand
<1>2. CASE /\ toWrite' = [toWrite EXCEPT ![c] = ConfigurationOf(map, one)]
           /\ pc' = [pc EXCEPT ![c] = "write"]
  BY <1>2, ConfigurationType DEF InHand, TypeOK
<1> QED
  BY <1>1, <1>2 DEF Save

LEMMA InHandNext == TypeOK /\ InHand /\ [Next]_vars => InHand'
<1> SUFFICES ASSUME TypeOK, InHand, [Next]_vars
             PROVE  InHand'
  OBVIOUS
<1> USE ProjectionRegistryAssumption
<1>1. CallTypes /\ calls \in 0..MaxCalls
  BY TypeSplit
<1>2. CASE UNCHANGED callVars
  BY <1>2 DEF callVars, InHand
<1>3. CASE End
  BY <1>3 DEF End, Idle, InHand
<1>4. ASSUME NEW c \in Callers, NEW kind \in {"add", "setActive", "remove"},
             NEW v \in Versions, NEW force \in BOOLEAN,
             Begin(c, kind, v, force)
      PROVE  /\ call' \in [Callers -> Operation \cup {None}]
             /\ call'[c] \in Operation
             /\ \A d \in Callers \ {c} : call'[d] = call[d]
  <2>1. /\ call' \in [Callers -> Operation \cup {None}]
        /\ call'[c] \in Operation
    BY <1>1, <1>4, BeginType
  <2> QED
    BY <1>4, <2>1 DEF Begin, TypeOK
<1>5. ASSUME NEW c \in Callers, NEW v \in Versions, NEW force \in BOOLEAN,
             BeginAdd(c, v, force)
      PROVE  InHand'
  <2>1. Begin(c, "add", v, force) /\ Goto(c, "connect")
    BY <1>5 DEF BeginAdd
  <2>2. projection'[c] \in Instance
    <3>1. CASE idMap[v] # None
      BY <1>5, <3>1 DEF BeginAdd, TypeOK
    <3>2. CASE idMap[v] = None
      <4>1. [version |-> v, serial |-> instances + 1] \in Instance
        BY <1>5, <3>2 DEF BeginAdd, TypeOK, Instance
      <4> QED
        BY <1>5, <3>2, <4>1 DEF BeginAdd, TypeOK
    <3> QED
      BY <3>1, <3>2
  <2>3. \A d \in Callers \ {c} : projection'[d] = projection[d]
    BY <1>5 DEF BeginAdd, TypeOK
  <2> QED
    BY <1>4, <2>1, <2>2, <2>3, GotoInHand
<1>6. ASSUME NEW c \in Callers, NEW v \in Versions, NEW force \in BOOLEAN,
             SetActive(c, v, force)
      PROVE  InHand'
  <2>1. Begin(c, "setActive", v, force) /\ projection' = projection
    BY <1>6 DEF SetActive, runVars
  <2>2. CASE idMap[v] # None /\ (force \/ idMap[v] \in live)
    <3>1. Save(c, idMap, idMap[v]) /\ idMap[v] \in Instance
      BY <1>6, <2>2 DEF SetActive, TypeOK
    <3> QED
      BY <1>4, <2>1, <3>1, SaveInHand DEF TypeOK
  <2>3. CASE ~(idMap[v] # None /\ (force \/ idMap[v] \in live))
    BY <1>4, <1>6, <2>1, <2>3, ReturnInHand DEF SetActive
  <2> QED
    BY <2>2, <2>3
<1>7. ASSUME NEW c \in Callers, NEW v \in Versions, NEW force \in BOOLEAN,
             BeginRemove(c, v, force)
      PROVE  InHand'
  <2>1. /\ Begin(c, "remove", v, force)
        /\ projection' = [projection EXCEPT ![c] = idMap[v]]
    BY <1>7 DEF BeginRemove
  <2>2. \/ Save(c, idMap, active)
        \/ Goto(c, "stop") /\ idMap[v] # None
        \/ Return(c, "rejected")
    BY <1>7 DEF BeginRemove, IsActive
  <2>3. projection'[c] = idMap[v]
    BY <2>1 DEF TypeOK
  <2>4. \A d \in Callers \ {c} : projection'[d] = projection[d]
    BY <2>1 DEF TypeOK
  <2>5. CASE Save(c, idMap, active)
    BY <1>4, <2>1, <2>4, <2>5, SaveInHand DEF TypeOK
  <2>6. CASE Goto(c, "stop") /\ idMap[v] # None
    <3>1. projection'[c] \in Instance
      BY <2>3, <2>6 DEF TypeOK
    <3> QED
      BY <1>4, <2>1, <2>4, <2>6, <3>1, GotoInHand
  <2>7. CASE Return(c, "rejected")
    BY <1>4, <2>1, <2>4, <2>7, ReturnInHand
  <2> QED
    BY <2>2, <2>5, <2>6, <2>7
<1>8. ASSUME NEW c \in Callers, Register(c) PROVE InHand'
  BY <1>8, GotoInHand DEF Register, InHand, TypeOK
<1>9. ASSUME NEW c \in Callers, Added(c) PROVE InHand'
  <2> DEFINE p == idMap[call[c].version]
  <2>1. call' = call /\ projection' = projection /\ call[c] \in Operation
    BY <1>9 DEF Added, InHand
  <2>2. \/ Save(c, idMap, active)
        \/ p # None /\ Save(c, idMap, p)
        \/ Return(c, "rejected")
    BY <1>9 DEF Added
  <2>3. p \in Instance \cup {None}
    BY <2>1 DEF TypeOK, Operation
  <2> QED
    BY <2>1, <2>2, <2>3, SaveInHand, ReturnInHand DEF TypeOK
<1>10. ASSUME NEW c \in Callers, Unregister(c) PROVE InHand'
  <2>1. call' = call /\ projection' = projection /\ call[c] \in Operation
    BY <1>10 DEF Unregister, InHand
  <2>2. idMap' \in [Versions -> Instance \cup {None}]
    BY <1>10 DEF Unregister, TypeOK
  <2> QED
    BY <1>10, <2>1, <2>2, SaveInHand DEF Unregister, TypeOK
<1>11. ASSUME NEW c \in Callers, Written(c) \/ Fail(c) PROVE InHand'
  BY <1>11, ReturnInHand DEF Written, Fail
<1> QED
  BY <1>2, <1>3, <1>5, <1>6, <1>7, <1>8, <1>9, <1>10, <1>11
  DEF Next, Load, Start, BecomeLive, Query, vars, callVars

\* What is persisted, mapped and suspended has its type.  TypeOK alone is not
\* inductive: a call that goes on needs what it holds (InHand).
THEOREM RegistryTypes == Spec => []TypeOK
<1>1. Init => TypeOK /\ InHand
  BY TypeInit DEF Init, InHand, Idle
<1> QED
  BY <1>1, TypeNext, InHandNext, PTL DEF Spec
-----------------------------------------------------------------------------
(* Queries. *)

\* A process that has ended has no snapshot of the active projections.
NothingCached == mode = "down" => ~cacheValid

\* Every change of the active projection makes the cached snapshot invalid, by
\* whatever calls, so that commands and queries see the present one.
THEOREM CacheIsCurrent == Spec => []QueriesSeeActive
<1> DEFINE CacheInv == QueriesSeeActive /\ NothingCached
<1>1. Init => CacheInv
  BY DEF Init, QueriesSeeActive, NothingCached
<1>2. CacheInv /\ [Next]_vars => CacheInv'
  <2> SUFFICES ASSUME CacheInv, [Next]_vars PROVE CacheInv'
    OBVIOUS
  <2> USE DEF QueriesSeeActive, NothingCached
  <2>1. CASE UNCHANGED <<active, cacheVars>> /\ mode' # "down"
    BY <2>1 DEF cacheVars
  <2>2. CASE Load
    BY <2>2 DEF Load, cacheVars
  <2>3. CASE End \/ Query
    BY <2>3 DEF End, Query, mapVars
  <2>4. ASSUME NEW p, Activate(p) PROVE ~cacheValid'
    BY <2>4 DEF Activate
  <2>5. CASE \E c \in Callers, v \in Versions, force \in BOOLEAN :
               \/ BeginAdd(c, v, force)
               \/ SetActive(c, v, force)
               \/ BeginRemove(c, v, force)
    BY <2>4, <2>5 DEF BeginAdd, SetActive, BeginRemove, Begin, KeepMap,
                      mapVars, cacheVars
  <2>6. CASE \E c \in Callers : Added(c)
    BY <2>4, <2>6 DEF Added, KeepMap, mapVars, cacheVars
  <2>7. CASE \E c \in Callers : \/ Register(c)
                                \/ Unregister(c)
                                \/ Written(c)
                                \/ Fail(c)
    BY <2>7 DEF Register, Unregister, Written, Fail, mapVars, cacheVars
  <2>8. CASE Start \/ (\E p \in initialised : BecomeLive(p)) \/ UNCHANGED vars
    BY <2>8 DEF Start, BecomeLive, mapVars, cacheVars, vars
  <2> QED
    BY <2>2, <2>3, <2>5, <2>6, <2>7, <2>8 DEF Next
<1>3. CacheInv => QueriesSeeActive
  OBVIOUS
<1> QED
  BY <1>1, <1>2, <1>3, PTL DEF Spec
-----------------------------------------------------------------------------
(* Calls that are awaited one after the other. *)

\* A process that is down has nothing in memory.
NothingInMemory ==
    mode = "down" => /\ active = None /\ flagged = {} /\ abandoned = {}
                     /\ stopped = {} /\ pc = Idle

\* A projection has its place in the map, and one that has been stopped has none.
MapInv ==
    /\ \A v \in Versions :
          idMap[v] # None => /\ idMap[v].version = v
                             /\ idMap[v].serial <= instances
                             /\ idMap[v] \notin stopped
    /\ \A p \in stopped : p.serial <= instances

\* What a call relies on behind its await: its version has no other projection,
\* the one it removes is not the active one, and what it writes is up to date.
CallInv ==
    \A c \in Callers :
        LET v == call[c].version
            p == projection[c]
        IN  /\ pc[c] = "connect" =>
                  /\ p.version = v /\ p.serial <= instances /\ p \notin stopped
                  /\ idMap[v] \in {None, p}
            /\ pc[c] = "stop" => idMap[v] = p /\ p # active
            /\ pc[c] = "write" => toWrite[c] = ConfigurationOf(idMap, active)

Loadable(configuration) ==
    configuration.active \in configuration.versions \cup {None}

RegistryInv == /\ NothingInMemory
               /\ MapInv
               /\ CallInv
               /\ Loadable(persisted)
               /\ StartsAgain
               /\ ActiveIsThere

\* The active projection is found under its version.
LEMMA ActiveHasPlace ==
    ASSUME TypeOK, MapInv, ActiveIsThere, active # None
    PROVE  /\ active.version \in Versions
           /\ idMap[active.version] = active
<1>1. PICK v \in Versions : idMap[v] = active
  BY DEF ActiveIsThere, Registered
<1> QED
  BY <1>1 DEF MapInv

\* A configuration whose active projection has its place can be loaded.
LEMMA ConfigurationLoads ==
    ASSUME NEW map, NEW one,
           one # None => one.version \in Versions /\ map[one.version] # None
    PROVE  Loadable(ConfigurationOf(map, one))
  BY DEF Loadable, ConfigurationOf

\* The two ways in which Save goes on.
LEMMA SaveIs ==
    ASSUME TypeOK, NEW c \in Callers, NEW map, NEW one, Save(c, map, one)
    PROVE  \/ pc'[c] = "idle"
           \/ pc'[c] = "write" /\ toWrite'[c] = ConfigurationOf(map, one)
  BY DEF Save, Return, TypeOK

LEMMA RegistryInvInit == Init => RegistryInv
<1> SUFFICES ASSUME Init PROVE RegistryInv
  OBVIOUS
<1>1. MapInv /\ CallInv /\ NothingInMemory
  BY DEF Init, MapInv, CallInv, NothingInMemory, Idle, Empty
<1>2. Loadable(persisted) /\ StartsAgain /\ ActiveIsThere
  BY DEF Init, Loadable, StartsAgain, ActiveIsThere
<1> QED
  BY <1>1, <1>2 DEF RegistryInv

\* The life of the process.
LEMMA RegistryInvLife ==
    ASSUME TypeOK, RegistryInv,
           \/ Load \/ Start \/ End \/ Query
           \/ \E p \in initialised : BecomeLive(p)
           \/ UNCHANGED vars
    PROVE  RegistryInv'
<1> USE ProjectionRegistryAssumption
<1>1. CASE Load
  <2>1. /\ active = None /\ flagged = {} /\ abandoned = {} /\ stopped = {}
        /\ pc = Idle
    BY <1>1 DEF Load, RegistryInv, NothingInMemory
  <2>2. /\ persisted' = persisted /\ abandoned' = {} /\ stopped' = {}
        /\ pc' = Idle /\ instances' = 1
    BY <1>1, <2>1 DEF Load, callVars
  <2>3. \A v \in Versions :
           idMap'[v] = IF v \in persisted.versions THEN First(v) ELSE None
    BY <1>1 DEF Load
  <2>4. /\ mode' = "loaded"
        /\ \/ active' = None /\ flagged' = {}
           \/ /\ persisted.active \in persisted.versions
              /\ active' = First(persisted.active)
              /\ flagged' = {First(persisted.active)}
    BY <1>1, <2>1 DEF Load, RegistryInv, Loadable
  <2>5. MapInv'
    BY <2>2, <2>3, FirstType DEF MapInv
  <2>6. ActiveIsThere'
    <3>1. CASE active' = None
      BY <2>1, <2>2, <2>4, <3>1, FirstType DEF ActiveIsThere, TypeOK,
                                               Configuration
    <3>2. CASE active' # None
      <4>1. /\ persisted.active \in Versions
            /\ active' = First(persisted.active)
            /\ flagged' = {active'}
            /\ idMap'[persisted.active] = active'
        BY <2>3, <2>4, <3>2 DEF TypeOK, Configuration
      <4> QED
        BY <2>2, <3>2, <4>1 DEF ActiveIsThere, Registered
    <3> QED
      BY <3>1, <3>2
  <2>7. CallInv' /\ NothingInMemory' /\ StartsAgain' /\ Loadable(persisted)'
    BY <2>2, <2>4 DEF CallInv, NothingInMemory, StartsAgain, RegistryInv,
                      Loadable, Idle
  <2> QED
    BY <2>5, <2>6, <2>7 DEF RegistryInv
<1>2. CASE End
  <2>1. MapInv' /\ CallInv' /\ NothingInMemory'
    BY <1>2 DEF End, MapInv, CallInv, NothingInMemory, Idle, Empty
  <2>2. Loadable(persisted)' /\ StartsAgain' /\ ActiveIsThere'
    BY <1>2 DEF End, RegistryInv, Loadable, StartsAgain, ActiveIsThere
  <2> QED
    BY <2>1, <2>2 DEF RegistryInv
<1>3. ASSUME UNCHANGED <<persisted, mapVars, stopped, instances, callVars>>,
             mode' = mode \/ mode' = "running"
      PROVE  RegistryInv'
  BY <1>3 DEF RegistryInv, NothingInMemory, MapInv, CallInv, Loadable,
              StartsAgain, ActiveIsThere, Registered, ConfigurationOf,
              mapVars, flagVars, callVars
<1> QED
  BY <1>1, <1>2, <1>3 DEF Start, Query, BecomeLive, vars, runVars

\* Activation: the flag goes from the active projection to the new one.
LEMMA ActivateActive ==
    ASSUME TypeOK, RegistryInv, NEW v \in Versions, idMap[v] # None,
           Activate(idMap[v]), stopped' = stopped, instances' = instances
    PROVE  /\ ActiveIsThere' /\ MapInv'
           /\ idMap' = idMap /\ active' = idMap[v]
<1>1. /\ idMap' = idMap /\ active' = idMap[v]
      /\ flagged' = (flagged \ {active}) \cup {idMap[v]}
      /\ abandoned' = abandoned \ {idMap[v]}
  BY DEF Activate, Flag
<1>2. idMap[v] \in Registered \ stopped
  BY DEF RegistryInv, MapInv, Registered
<1>3. flagged \ abandoned = {active} \ {None}
  BY DEF RegistryInv, ActiveIsThere
<1>4. flagged' \ abandoned' = {active'} \ {None}
  BY <1>1, <1>3
<1>5. ActiveIsThere'
  BY <1>1, <1>2, <1>4 DEF ActiveIsThere, Registered
<1>6. MapInv'
  BY <1>1 DEF RegistryInv, MapInv
<1> QED
  BY <1>1, <1>5, <1>6

\* The first steps of the calls.
LEMMA RegistryInvBegin ==
    ASSUME TypeOK, InHand, RegistryInv, OneCaller, NEW c \in Callers,
           NEW v \in Versions, NEW force \in BOOLEAN,
           \/ BeginAdd(c, v, force)
           \/ SetActive(c, v, force)
           \/ BeginRemove(c, v, force)
    PROVE  RegistryInv'
<1> USE ProjectionRegistryAssumption
<1>1. CallTypes /\ calls \in 0..MaxCalls /\ \A d \in Callers : d = c
  BY TypeSplit DEF OneCaller
<1>2. ASSUME NEW kind \in {"add", "setActive", "remove"},
             Begin(c, kind, v, force)
      PROVE  /\ call'[c].version = v
             /\ persisted' = persisted /\ mode' = mode /\ mode # "down"
  BY <1>1, <1>2, BeginType DEF Begin
<1>3. Loadable(persisted) /\ StartsAgain /\ ActiveIsThere /\ MapInv
  BY DEF RegistryInv
<1>4. CASE BeginAdd(c, v, force)
  <2>1. /\ call'[c].version = v
        /\ persisted' = persisted /\ mode' = mode /\ mode # "down"
    BY <1>2, <1>4 DEF BeginAdd
  <2>2. /\ idMap' = idMap /\ active' = active /\ flagged' = flagged
        /\ abandoned' = abandoned /\ stopped' = stopped
        /\ pc'[c] = "connect"
    BY <1>4 DEF BeginAdd, KeepMap, mapVars, flagVars, Goto, TypeOK
  <2>3. CASE idMap[v] # None
    <3>1. projection'[c] = idMap[v] /\ instances' = instances
      BY <1>4, <2>3 DEF BeginAdd, TypeOK
    <3>2. MapInv' /\ CallInv'
      BY <1>1, <1>3, <2>1, <2>2, <2>3, <3>1 DEF MapInv, CallInv
    <3> QED
      BY <1>3, <2>1, <2>2, <3>2
      DEF RegistryInv, NothingInMemory, Loadable, StartsAgain, ActiveIsThere,
          Registered
  <2>4. CASE idMap[v] = None
    <3> DEFINE new == [version |-> v, serial |-> instances + 1]
    <3>1. projection'[c] = new /\ instances' = instances + 1
      BY <1>4, <2>4 DEF BeginAdd, TypeOK
    <3>2. instances \in Nat /\ new.serial = instances + 1 /\ new.version = v
      BY DEF TypeOK
    <3>3. \A p \in stopped : p.serial <= instances /\ p.serial \in Nat
      BY <1>3 DEF MapInv, TypeOK, Instance
    <3>4. new \notin stopped
      BY <3>2, <3>3
    <3>5. \A w \in Versions : idMap[w] # None => idMap[w].serial \in Nat
      BY DEF TypeOK, Instance
    <3>6. MapInv'
      BY <1>3, <2>2, <3>1, <3>2, <3>3, <3>5 DEF MapInv
    <3> HIDE DEF new
    <3>7. CallInv'
      BY <1>1, <2>1, <2>2, <2>4, <3>1, <3>2, <3>4 DEF CallInv
    <3> QED
      BY <1>3, <2>1, <2>2, <3>6, <3>7
      DEF RegistryInv, NothingInMemory, Loadable, StartsAgain, ActiveIsThere,
          Registered
  <2> QED
    BY <2>3, <2>4
<1>5. CASE SetActive(c, v, force)
  <2>1. Begin(c, "setActive", v, force)
    BY <1>5 DEF SetActive
  <2>2. /\ call'[c].version = v
        /\ persisted' = persisted /\ mode' = mode /\ mode # "down"
    BY <1>2, <2>1
  <2>3. stopped' = stopped /\ instances' = instances
    BY <1>5 DEF SetActive, runVars
  <2>4. CASE idMap[v] # None /\ (force \/ idMap[v] \in live)
    <3>1. Activate(idMap[v]) /\ Save(c, idMap, idMap[v])
      BY <1>5, <2>4 DEF SetActive
    <3>2. /\ ActiveIsThere' /\ MapInv'
          /\ idMap' = idMap /\ active' = idMap[v]
      BY <2>3, <2>4, <3>1, ActivateActive
    <3>3. CallInv'
      BY <1>1, <3>1, <3>2, SaveIs DEF CallInv
    <3> QED
      BY <1>3, <2>2, <3>2, <3>3
      DEF RegistryInv, NothingInMemory, Loadable, StartsAgain
  <2>5. CASE ~(idMap[v] # None /\ (force \/ idMap[v] \in live))
    <3>1. KeepMap /\ Return(c, "rejected")
      BY <1>5, <2>5 DEF SetActive
    <3>2. UNCHANGED mapVars /\ pc'[c] = "idle"
      BY <3>1 DEF KeepMap, Return, TypeOK
    <3> QED
      BY <1>1, <1>3, <2>2, <2>3, <3>2
      DEF RegistryInv, NothingInMemory, MapInv, CallInv, Loadable, StartsAgain,
          ActiveIsThere, Registered, mapVars, flagVars
  <2> QED
    BY <2>4, <2>5
<1>6. CASE BeginRemove(c, v, force)
  <2>1. Begin(c, "remove", v, force)
    BY <1>6 DEF BeginRemove
  <2>2. /\ call'[c].version = v
        /\ persisted' = persisted /\ mode' = mode /\ mode # "down"
    BY <1>2, <2>1
  <2>3. /\ stopped' = stopped /\ instances' = instances
        /\ projection'[c] = idMap[v]
    BY <1>6 DEF BeginRemove, runVars, TypeOK
  <2>4. \/ Save(c, idMap, active) /\ KeepMap
        \/ Goto(c, "stop") /\ KeepMap /\ ~IsActive(idMap[v]) /\ idMap[v] # None
        \/ /\ IsActive(idMap[v])
           /\ Goto(c, "stop")
           /\ active' = None
           /\ abandoned' = abandoned \cup {active}
           /\ UNCHANGED <<idMap, flagged>>
        \/ Return(c, "rejected") /\ KeepMap
    BY <1>6 DEF BeginRemove
  <2>5. CASE IsActive(idMap[v]) /\ Goto(c, "stop") /\ active' = None
             /\ abandoned' = abandoned \cup {active}
             /\ UNCHANGED <<idMap, flagged>>
    <3>1. idMap[v] # None /\ pc'[c] = "stop"
      BY <2>5 DEF IsActive, Goto, TypeOK
    <3>2. ActiveIsThere'
      BY <1>3, <2>5 DEF ActiveIsThere
    <3>3. CallInv' /\ MapInv'
      BY <1>1, <1>3, <2>2, <2>3, <2>5, <3>1 DEF CallInv, MapInv
    <3> QED
      BY <1>3, <2>2, <3>2, <3>3
      DEF RegistryInv, NothingInMemory, Loadable, StartsAgain
  <2>6. CASE KeepMap
    <3>1. /\ idMap' = idMap /\ active' = active /\ flagged' = flagged
          /\ abandoned' = abandoned
      BY <2>6 DEF KeepMap, mapVars, flagVars
    <3>2. CallInv'
      <4>1. CASE Save(c, idMap, active)
        BY <1>1, <3>1, <4>1, SaveIs DEF CallInv
      <4>2. CASE Goto(c, "stop") /\ ~IsActive(idMap[v]) /\ idMap[v] # None
        <5>1. pc'[c] = "stop"
          BY <4>2 DEF Goto, TypeOK
        <5> QED
          BY <1>1, <2>2, <2>3, <3>1, <4>2, <5>1 DEF CallInv, IsActive
      <4>3. CASE Return(c, "rejected")
        <5>1. pc'[c] = "idle"
          BY <4>3 DEF Return, TypeOK
        <5> QED
          BY <1>1, <5>1 DEF CallInv
      <4>4. CASE IsActive(idMap[v]) /\ active' = None
        BY <3>1, <4>4 DEF IsActive
      <4> QED
        BY <2>4, <4>1, <4>2, <4>3, <4>4
    <3> QED
      BY <1>3, <2>2, <2>3, <3>1, <3>2
      DEF RegistryInv, NothingInMemory, MapInv, Loadable, StartsAgain,
          ActiveIsThere, Registered
  <2> QED
    BY <2>4, <2>5, <2>6
<1> QED
  BY <1>4, <1>5, <1>6

\* The steps of the calls behind an await.
LEMMA RegistryInvGoOn ==
    ASSUME TypeOK, InHand, RegistryInv, OneCaller, NEW c \in Callers,
           \/ Register(c) \/ Added(c) \/ Unregister(c) \/ Written(c) \/ Fail(c)
    PROVE  RegistryInv'
<1> USE ProjectionRegistryAssumption
<1> DEFINE v == call[c].version
           p == projection[c]
<1>1. \A d \in Callers : d = c
  BY DEF OneCaller
<1>2. Loadable(persisted) /\ StartsAgain /\ ActiveIsThere /\ MapInv /\ CallInv
  BY DEF RegistryInv
<1>3. /\ v \in Versions /\ pc[c] # "idle"
      /\ pc[c] \in {"connect", "stop"} => p \in Instance
      /\ mode # "down"
  <2>1. pc[c] # "idle"
    BY DEF Register, Added, Unregister, Written, Fail
  <2>2. call[c] \in Operation
    BY <2>1 DEF InHand
  <2>3. mode # "down"
    BY <2>1 DEF RegistryInv, NothingInMemory, Idle
  <2> QED
    BY <2>1, <2>2, <2>3 DEF InHand, Operation
<1>4. active # None =>
          active.version \in Versions /\ idMap[active.version] = active
  BY <1>2, ActiveHasPlace
<1>5. CASE Register(c)
  <2>1. /\ p.version = v /\ p.serial <= instances /\ p \notin stopped
        /\ idMap[v] \in {None, p} /\ p \in Instance
    BY <1>2, <1>3, <1>5 DEF Register, CallInv
  <2>2. /\ idMap' = [idMap EXCEPT ![v] = p] /\ pc'[c] = "init"
        /\ UNCHANGED <<persisted, mode, active, flagged, abandoned, stopped,
                       instances>>
    BY <1>5 DEF Register, Goto, flagVars, TypeOK
  <2>3. MapInv'
    BY <1>2, <1>3, <2>1, <2>2 DEF MapInv, TypeOK
  <2>4. active # None => idMap'[active.version] = active
    BY <1>3, <1>4, <2>1, <2>2 DEF TypeOK
  <2>5. ActiveIsThere'
    BY <1>2, <1>4, <2>2, <2>4 DEF ActiveIsThere, Registered
  <2>6. CallInv'
    BY <1>1, <2>2 DEF CallInv
  <2> QED
    BY <1>2, <1>3, <2>2, <2>3, <2>5, <2>6
    DEF RegistryInv, NothingInMemory, Loadable, StartsAgain
<1>6. CASE Added(c)
  <2>1. /\ UNCHANGED <<persisted, mode, stopped, instances, call, projection>>
        /\ \/ Save(c, idMap, active) /\ KeepMap
           \/ idMap[v] # None /\ Save(c, idMap, idMap[v]) /\ Activate(idMap[v])
           \/ Return(c, "rejected") /\ KeepMap
    BY <1>6 DEF Added, runVars
  <2>2. CASE idMap[v] # None /\ Save(c, idMap, idMap[v]) /\ Activate(idMap[v])
    <3>1. /\ ActiveIsThere' /\ MapInv'
          /\ idMap' = idMap /\ active' = idMap[v]
      BY <1>3, <2>1, <2>2, ActivateActive
    <3>2. CallInv'
      BY <1>1, <2>2, <3>1, SaveIs DEF CallInv
    <3> QED
      BY <1>2, <1>3, <2>1, <3>1, <3>2
      DEF RegistryInv, NothingInMemory, Loadable, StartsAgain
  <2>3. CASE KeepMap /\ (Save(c, idMap, active) \/ Return(c, "rejected"))
    <3>1. /\ idMap' = idMap /\ active' = active /\ flagged' = flagged
          /\ abandoned' = abandoned
      BY <2>3 DEF KeepMap, mapVars, flagVars
    <3>2. CASE Save(c, idMap, active)
      <4>1. CallInv'
        BY <1>1, <3>1, <3>2, SaveIs DEF CallInv
      <4> QED
        BY <1>2, <1>3, <2>1, <3>1, <4>1
        DEF RegistryInv, NothingInMemory, MapInv, Loadable, StartsAgain,
            ActiveIsThere, Registered
    <3>3. CASE Return(c, "rejected")
      <4>1. pc'[c] = "idle"
        BY <3>3 DEF Return, TypeOK
      <4>2. CallInv'
        BY <1>1, <4>1 DEF CallInv
      <4> QED
        BY <1>2, <1>3, <2>1, <3>1, <4>2
        DEF RegistryInv, NothingInMemory, MapInv, Loadable, StartsAgain,
            ActiveIsThere, Registered
    <3> QED
      BY <2>3, <3>2, <3>3
  <2> QED
    BY <2>1, <2>2, <2>3
<1>7. CASE Unregister(c)
  <2>1. idMap[v] = p /\ p # active /\ p \in Instance
    BY <1>2, <1>3, <1>7 DEF Unregister, CallInv
  <2>2. /\ idMap' = [idMap EXCEPT ![v] = None]
        /\ stopped' = stopped \cup {p}
        /\ Save(c, idMap', active)
        /\ UNCHANGED <<persisted, mode, active, flagged, abandoned, instances>>
    BY <1>7 DEF Unregister, flagVars
  <2>3. \A w \in Versions \ {v} : idMap[w] # None => idMap[w] # p
    BY <1>2, <1>3, <2>1 DEF MapInv
  <2>4. MapInv'
    BY <1>2, <1>3, <2>1, <2>2, <2>3 DEF MapInv, TypeOK
  <2>5. active # None => idMap'[active.version] = active
    BY <1>3, <1>4, <2>1, <2>2 DEF TypeOK
  <2>6. ActiveIsThere'
    BY <1>2, <1>4, <2>1, <2>2, <2>5 DEF ActiveIsThere, Registered
  <2>7. CallInv'
    BY <1>1, <2>2, SaveIs DEF CallInv
  <2> QED
    BY <1>2, <1>3, <2>2, <2>4, <2>6, <2>7
    DEF RegistryInv, NothingInMemory, Loadable, StartsAgain
<1>8. CASE Written(c)
  <2>1. persisted' = ConfigurationOf(idMap, active)
    BY <1>2, <1>8 DEF Written, CallInv
  <2>2. active # None =>
            active.version \in Versions /\ idMap[active.version] # None
    BY <1>4
  <2>3. Loadable(persisted')
    BY <2>1, <2>2, ConfigurationLoads
  <2>4. /\ UNCHANGED <<mode, idMap, active, flagged, abandoned, stopped,
                       instances>>
        /\ pc'[c] = "idle"
    BY <1>8 DEF Written, Return, mapVars, flagVars, runVars, TypeOK
  <2>5. CallInv'
    BY <1>1, <2>4 DEF CallInv
  <2> QED
    BY <1>2, <1>3, <2>3, <2>4, <2>5
    DEF RegistryInv, NothingInMemory, MapInv, Loadable, StartsAgain,
        ActiveIsThere, Registered
<1>9. CASE Fail(c)
  <2>1. /\ UNCHANGED <<persisted, mode, idMap, active, flagged, abandoned,
                       stopped, instances>>
        /\ pc'[c] = "idle"
    BY <1>9 DEF Fail, Return, mapVars, flagVars, runVars, TypeOK
  <2>2. CallInv'
    BY <1>1, <2>1 DEF CallInv
  <2> QED
    BY <1>2, <1>3, <2>1, <2>2
    DEF RegistryInv, NothingInMemory, MapInv, Loadable, StartsAgain,
        ActiveIsThere, Registered
<1> QED
  BY <1>5, <1>6, <1>7, <1>8, <1>9

LEMMA RegistryInvNext ==
    OneCaller => (TypeOK /\ InHand /\ RegistryInv /\ [Next]_vars => RegistryInv')
  BY RegistryInvLife, RegistryInvBegin, RegistryInvGoOn DEF Next

LEMMA RegistryInvHolds ==
    ASSUME OneCaller
    PROVE  Spec => [](TypeOK /\ InHand /\ RegistryInv)
<1>1. Init => TypeOK /\ InHand /\ RegistryInv
  BY TypeInit, RegistryInvInit DEF Init, InHand, Idle
<1>2. TypeOK /\ InHand /\ RegistryInv /\ [Next]_vars
        => (TypeOK /\ InHand /\ RegistryInv)'
  BY TypeNext, InHandNext, RegistryInvNext
<1> QED
  BY <1>1, <1>2, PTL DEF Spec

\* However a process ends, the configuration it has persisted can be loaded: its
\* active version is one of those it lists.
THEOREM ConfigurationCanBeLoaded ==
    ASSUME OneCaller
    PROVE  Spec => []StartsAgain
<1>1. RegistryInv => StartsAgain
  BY DEF RegistryInv
<1> QED
  BY <1>1, RegistryInvHolds, PTL

\* The active projection is registered, has not been stopped, and is the only one
\* that is flagged to execute side effects, but for those removed by force.
THEOREM ActiveProjectionIsThere ==
    ASSUME OneCaller
    PROVE  Spec => []ActiveIsThere
<1>1. RegistryInv => ActiveIsThere
  BY DEF RegistryInv
<1> QED
  BY <1>1, RegistryInvHolds, PTL

\* A call that succeeds has persisted what the process has in memory then.
THEOREM AcknowledgedCallsAreDurable ==
    ASSUME OneCaller
    PROVE  Spec => AcknowledgedIsDurable
<1> DEFINE Durable ==
      \A c \in Callers :
         pc[c] = "write" /\ pc'[c] = "idle" /\ outcome'[c] = "ok" =>
            persisted' = ConfigurationOf(idMap', active')
<1>1. TypeOK /\ InHand /\ RegistryInv /\ [Next]_vars => Durable
  <2> SUFFICES ASSUME TypeOK, RegistryInv, [Next]_vars, NEW c \in Callers,
                      pc[c] = "write", pc'[c] = "idle", outcome'[c] = "ok"
               PROVE  persisted' = ConfigurationOf(idMap', active')
    OBVIOUS
  <2>1. \A d \in Callers : d = c
    BY DEF OneCaller
  <2>2. CASE Written(c)
    BY <2>2 DEF Written, RegistryInv, CallInv, mapVars, ConfigurationOf
  <2>3. ~Fail(c)
    BY DEF Fail, Return, TypeOK
  <2>4. ~End
    BY DEF End
  <2>5. pc' # pc
    OBVIOUS
  <2> QED
    BY <2>1, <2>2, <2>3, <2>4, <2>5
    DEF Next, Load, Start, BecomeLive, Query, BeginAdd, SetActive, BeginRemove,
        Begin, Register, Added, Unregister, callVars, vars
<1> QED
  BY <1>1, RegistryInvHolds, PTL DEF Spec, AcknowledgedIsDurable
=============================================================================
