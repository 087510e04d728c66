--------------------------- MODULE HookedCallProofs ---------------------------
(***************************************************************************)
(* Proofs about HookedCall for every number of plugins and every           *)
(* assignment of strategies to them.                                       *)
(***************************************************************************)
EXTENDS HookedCall, TLAPS

-----------------------------------------------------------------------------
(* The inductive invariants. *)

\* The stages up to the handler, and those up to the append: nothing leads back
\* from a stage to an earlier one.
UpToHandler == {"beforeValidation", "validate", "onValidationError", "hydrate",
                "beforeExecution", "handle"}
UpToAppend == UpToHandler \cup {"onExecutionError", "afterExecution", "append"}

\* What an error hook is called with is an error.
ErrorInHand == pc \in ErrorStages => chain.error \in Error

Typed == TypeOK /\ ErrorInHand

\* What has not begun has left nothing.
Order == /\ pc \in UpToHandler => handled = None
         /\ pc \in UpToAppend => ~appended
         /\ pc # "thrown" => error = None

\* An error that a hook has returned is still in the chain of its stage, or the
\* call has left the way to the handler and the append for good.
Objected(stage) == pc = stage /\ chain.error # None

Objections ==
    /\ "beforeValidation" \in objected =>
          Objected("beforeValidation") \/ pc = "thrown"
    /\ \A stage \in {"beforeExecution", "afterExecution"} \cap objected :
          \/ Objected(stage)
          \/ pc \in {"onError", "thrown"}
          \/ pc = "returned" /\ "onError" \in suppressed
    /\ "beforeExecution" \in objected => handled = None
    /\ objected \cap {"beforeValidation", "beforeExecution"} # {} =>
          handled = None
    /\ objected \cap {"beforeValidation", "beforeExecution", "afterExecution"}
          # {} => ~appended

\* As long as nothing excuses it, the input that is on its way to the handler is
\* the one that the schema has accepted.
Inputs ==
    hasSchema /\ excused = {} =>
        /\ pc \in {"hydrate", "beforeExecution", "handle"} =>
              input.valid /\ input.parsed
        /\ pc = "beforeExecution" => chain.value = input
        /\ handled # None => handled.valid /\ handled.parsed

\* Quiet plugins leave the chain as it was begun, so that the only error there
\* is is the last one of the call.
Quiet ==
    ~touched =>
        /\ pc \in HookStages => chain.flag = "no"
        /\ pc \in {"beforeValidation", "beforeExecution"} => chain.value = input
        /\ pc = "afterExecution" => chain.value = output
        /\ pc \in HookStages \ ErrorStages => chain.error = None
        /\ pc \in ErrorStages => raised = chain.error
        /\ pc \notin ErrorStages \cup {"thrown"} => raised = None
        /\ pc = "thrown" => raised = error /\ error # None
        /\ pc \in {"hydrate", "beforeExecution", "handle"} /\ hasSchema =>
              input.parsed
        /\ handled # None /\ hasSchema => handled.parsed
        /\ pc \in {"settle", "returned"} =>
              (appended <=> kind = "command" /\ output = "something")

\* A failure of the call was suppressed, has ended the call, or is on its way
\* through hooks that may suppress it.
Failures ==
    raised # None =>
        \/ pc = "thrown"
        \/ raised.proper /\ pc \in Guards(raised.from)
        \/ raised.proper /\ Guards(raised.from) \cap suppressed # {}

CallInv == Typed /\ Order /\ Objections /\ Inputs /\ Quiet /\ Failures
-----------------------------------------------------------------------------
(* Where the steps lead. *)

\* A chain of hooks as it is begun.
Begun(e, value) == [error |-> e, flag |-> "no", value |-> value]

\* The call enters a stage with this chain, and has thrown nothing by it.
Enters(stage, hooks) ==
    pc' = stage /\ at' = 1 /\ chain' = hooks /\ error' = error

LEMMA EnterStages ==
    ASSUME NEW stage, NEW value
    PROVE  /\ Goto(stage) <=> Enters(stage, Begun(None, None))
           /\ Run(stage, value) <=> Enters(stage, Begun(None, value))
           /\ Return <=> Enters("returned", Begun(None, None))
  BY DEF Goto, Run, Return, Enter, Enters, EmptyChain, Begun

\* An error is handed over to the hooks of the catch block, or leaves the call.
Fails(stage, e) == e.proper /\ Enters(stage, Begun(e, None))

Thrown(e) == /\ pc' = "thrown" /\ at' = 1 /\ chain' = Begun(None, None)
             /\ error' = e

LEMMA FailStages ==
    ASSUME NEW stage, NEW e
    PROVE  /\ Throw(e) <=> Thrown(e)
           /\ HandleError(stage, e) <=> Fails(stage, e)
           /\ Fail(e) => Fails("onError", e) \/ (~e.proper /\ Thrown(e))
           /\ FailExecution(e) => \/ Fails("onExecutionError", e)
                                  \/ ~e.proper /\ Thrown(e)
           /\ Leave(stage, e) =>
                 \/ Thrown(e)
                 \/ /\ stage \notin {"beforeValidation", "onValidationError",
                                     "onError"}
                    /\ Fails("onError", e)
  BY DEF Throw, HandleError, Fail, FailExecution, Leave, Enter, Enters,
         EmptyChain, Begun, Fails, Thrown

\* The parts of the type: the stage with its chain, and the rest.
StageOK ==
    /\ pc \in HookStages \cup WorkStages \cup Ended
    /\ at \in 1..(PluginCount + 1)
    /\ chain = [error |-> chain.error, flag |-> chain.flag,
                value |-> chain.value]
    /\ chain.error \in Error \cup {None}
    /\ chain.flag \in {"yes", "no"}
    /\ pc \in {"beforeValidation", "beforeExecution"} => chain.value \in Input
    /\ pc = "afterExecution" => chain.value \in Output
    /\ pc \notin {"beforeValidation", "beforeExecution", "afterExecution"} =>
          chain.value = None

RestOK ==
    /\ kind \in {"command", "query"} /\ hasSchema \in BOOLEAN
    /\ strategy \in [Plugins -> Strategy]
    /\ input \in Input /\ output \in Output
    /\ error \in Error \cup {None} /\ appended \in BOOLEAN
    /\ handled \in Input \cup {None} /\ raised \in Error \cup {None}
    /\ objected \subseteq HookStages /\ suppressed \subseteq ErrorStages
    /\ excused \subseteq {"skipped", "suppressed", "replaced"}
    /\ touched \in BOOLEAN

LEMMA TypeParts == TypeOK <=> StageOK /\ RestOK
<1> DEFINE V == CASE pc \in {"beforeValidation", "beforeExecution"} -> Input
                  [] pc = "afterExecution" -> Output
                  [] OTHER -> {None}
<1>1. /\ pc \in {"beforeValidation", "beforeExecution"} => V = Input
      /\ pc = "afterExecution" => V = Output
      /\ pc \notin {"beforeValidation", "beforeExecution", "afterExecution"} =>
            V = {None}
  OBVIOUS
<1> HIDE DEF V
<1>2. chain \in [error : Error \cup {None}, flag : {"yes", "no"}, value : V] <=>
        /\ chain = [error |-> chain.error, flag |-> chain.flag,
                    value |-> chain.value]
        /\ chain.error \in Error \cup {None}
        /\ chain.flag \in {"yes", "no"}
        /\ chain.value \in V
  OBVIOUS
<1>3. chain.value \in V <=>
        /\ pc \in {"beforeValidation", "beforeExecution"} =>
              chain.value \in Input
        /\ pc = "afterExecution" => chain.value \in Output
        /\ pc \notin {"beforeValidation", "beforeExecution", "afterExecution"} =>
              chain.value = None
  BY <1>1
<1> QED
  BY <1>2, <1>3 DEF TypeOK, V, StageOK, RestOK

LEMMA TypePartsNext == TypeOK' <=> StageOK' /\ RestOK'
  BY TypeParts, PTL

\* The chain of a stage that is entered has the type of the stage.
LEMMA EnteredStage ==
    ASSUME NEW stage \in HookStages \cup WorkStages \cup Ended,
           pc' = stage, at' = 1,
           NEW e \in Error \cup {None}, NEW value, chain' = Begun(e, value),
           stage \in {"beforeValidation", "beforeExecution"} => value \in Input,
           stage = "afterExecution" => value \in Output,
           stage \notin {"beforeValidation", "beforeExecution",
                         "afterExecution"} => value = None,
           stage \in ErrorStages => e # None
    PROVE  StageOK' /\ ErrorInHand'
<1>1. /\ chain' = [error |-> chain'.error, flag |-> chain'.flag,
                   value |-> chain'.value]
      /\ chain'.error = e /\ chain'.flag = "no" /\ chain'.value = value
  BY DEF Begun
<1>2. at' \in 1..(PluginCount + 1)
  BY HookedCallAssumption
<1> QED
  BY <1>1, <1>2 DEF StageOK, ErrorInHand

\* An error that leaves for its hooks, or for the caller.
LEMMA FailedStage ==
    ASSUME NEW e \in Error, NEW stage \in ErrorStages,
           Thrown(e) \/ Fails(stage, e)
    PROVE  StageOK' /\ ErrorInHand'
<1>1. e # None
  BY HookedCallAssumption
<1>2. CASE Thrown(e)
  <2>1. /\ pc' = "thrown" /\ at' = 1 /\ chain' = Begun(None, None)
        /\ "thrown" \in HookStages \cup WorkStages \cup Ended
        /\ "thrown" \notin ErrorStages
    BY <1>2 DEF Thrown, Ended, ErrorStages
  <2> QED
    BY <2>1, EnteredStage
<1>3. CASE Fails(stage, e)
  <2>1. /\ pc' = stage /\ at' = 1 /\ chain' = Begun(e, None)
        /\ stage \in HookStages \cup WorkStages \cup Ended
        /\ stage \notin {"beforeValidation", "beforeExecution",
                         "afterExecution"}
    BY <1>3 DEF Fails, Enters, HookStages, ErrorStages
  <2> QED
    BY <1>1, <2>1, EnteredStage
<1> QED
  BY <1>2, <1>3
-----------------------------------------------------------------------------
(* CallInv holds at the start. *)

LEMMA CallInvInit == Init => CallInv
<1> SUFFICES ASSUME Init PROVE CallInv
  OBVIOUS
<1>1. input \in Input
  BY DEF Init, Input
<1>2. chain = Begun(None, IF hasSchema THEN input ELSE None)
  BY DEF Init, EmptyChain, Begun
<1>3. /\ chain = [error |-> chain.error, flag |-> chain.flag,
                  value |-> chain.value]
      /\ chain.error = None /\ chain.flag = "no"
      /\ chain.value = IF hasSchema THEN input ELSE None
  BY <1>2 DEF Begun
<1>4. /\ hasSchema \in BOOLEAN
      /\ pc = IF hasSchema THEN "beforeValidation" ELSE "hydrate"
      /\ at \in 1..(PluginCount + 1)
  BY HookedCallAssumption DEF Init
<1>5. TypeOK
  BY <1>1, <1>3, <1>4, TypeParts
  DEF Init, StageOK, RestOK, HookStages, WorkStages, ErrorStages, Output
<1> QED
  BY <1>2, <1>5 DEF Init, CallInv, Typed, ErrorInHand, Order, Objections,
                    Inputs, Quiet, Failures, Begun, HookStages, ErrorStages
-----------------------------------------------------------------------------
(* CallInv is inductive: the hooks. *)

LEMMA HookThrowsKeeps ==
    ASSUME CallInv, HookThrows
    PROVE  CallInv'
<1> USE DEF CallInv, Typed
<1>1. /\ UNCHANGED <<callVars, dataVars, raised, objected, suppressed, excused>>
      /\ pc \in HookStages /\ at \in Plugins /\ strategy[at] \in Strategy
  BY TypeParts DEF HookThrows, RestOK
<1>2. CASE Propagates(at)
  <2>1. touched'
    BY <1>2 DEF HookThrows, Propagates
  <2>2. PICK p \in BOOLEAN : Leave(pc, [from |-> pc, proper |-> p])
    BY <1>2 DEF HookThrows
  <2> DEFINE e == [from |-> pc, proper |-> p]
  <2>3. e \in Error
    BY <1>1 DEF Error
  <2> HIDE DEF e
  <2>4. \/ Thrown(e)
        \/ /\ pc \notin {"beforeValidation", "onValidationError", "onError"}
           /\ Fails("onError", e)
    BY <2>2, FailStages DEF e
  <2>5. Typed'
    <3>1. StageOK' /\ ErrorInHand'
      BY <2>3, <2>4, FailedStage DEF ErrorStages
    <3>2. RestOK'
      BY <1>1, <2>1, <2>3, <2>4, TypeParts
      DEF RestOK, Thrown, Fails, Enters, callVars, dataVars
    <3> QED
      BY <3>1, <3>2, TypePartsNext
  <2>6. Order'
    BY <1>1, <2>4 DEF Order, Thrown, Fails, Enters, dataVars, HookStages,
                      ErrorStages, UpToHandler, UpToAppend
  <2>7. Objections'
    <3>1. pc' \in {"onError", "thrown"}
      BY <2>4 DEF Thrown, Fails, Enters
    <3>2. "beforeValidation" \in objected => pc' = "thrown"
      BY <1>1, <2>4 DEF Objections, Objected, Thrown, HookStages,
                        ErrorStages
    <3> QED
      BY <1>1, <3>1, <3>2 DEF Objections, dataVars
  <2>8. Inputs'
    BY <1>1, <2>4 DEF Inputs, Thrown, Fails, Enters, callVars, dataVars
  <2>9. Quiet'
    BY <2>1 DEF Quiet
  <2>10. Failures'
    BY <1>1, <2>4 DEF Failures, Thrown, Fails, Enters, Guards, HookStages,
                      ErrorStages
  <2> QED
    BY <2>5, <2>6, <2>7, <2>8, <2>9, <2>10
<1>3. CASE ~Propagates(at)
  <2>1. at' = at + 1 /\ UNCHANGED <<pc, chain, error, touched>>
    BY <1>3, TypeParts DEF HookThrows, Propagates, RestOK
  <2>2. at' \in 1..(PluginCount + 1)
    BY <1>1, <2>1, HookedCallAssumption DEF Plugins
  <2>3. Typed'
    BY <1>1, <2>1, <2>2, TypeParts, TypePartsNext
    DEF StageOK, RestOK, ErrorInHand, callVars, dataVars
  <2>4. Order' /\ Objections' /\ Inputs' /\ Quiet' /\ Failures'
    BY <1>1, <2>1 DEF Order, Objections, Objected, Inputs, Quiet, Failures,
                      callVars, dataVars
  <2> QED
    BY <2>3, <2>4
<1> QED
  BY <1>2, <1>3

\* A chain takes over what a hook returns, and forgets no error.
LEMMA Collected ==
    ASSUME NEW r
    PROVE  /\ Collect(r) = [error |-> Collect(r).error,
                            flag |-> Collect(r).flag,
                            value |-> Collect(r).value]
           /\ Collect(r).error = IF r.error THEN Proper(pc) ELSE chain.error
           /\ Collect(r).flag = IF r.flag = "unset" THEN chain.flag ELSE r.flag
           /\ Collect(r).value = IF r.value = None THEN chain.value ELSE r.value
  BY DEF Collect

\* The values of hooks have the type of the value they replace.
LEMMA ResultType ==
    ASSUME pc \in HookStages, NEW r \in HookResult(pc)
    PROVE  /\ r.error \in BOOLEAN /\ r.breakChain \in BOOLEAN
           /\ r = [breakChain |-> r.breakChain, error |-> r.error,
                   value |-> r.value, flag |-> r.flag]
           /\ r.flag \in {"unset", "yes", "no"}
           /\ pc \in {"beforeValidation", "beforeExecution"} =>
                 r.value \in Input \cup {None}
           /\ pc = "afterExecution" => r.value \in Output \cup {None}
           /\ pc \in ErrorStages => r.value = None
<1>1. /\ r.value \in Values(pc) /\ r.flag \in Flags(pc)
      /\ r.error \in BOOLEAN /\ r.breakChain \in BOOLEAN
      /\ r = [breakChain |-> r.breakChain, error |-> r.error,
              value |-> r.value, flag |-> r.flag]
  BY DEF HookResult
<1>2. r.flag \in {"unset", "yes", "no"}
  BY <1>1 DEF Flags
<1>3. /\ pc \in {"beforeValidation", "beforeExecution"} =>
            r.value \in Input \cup {None}
      /\ pc = "afterExecution" => r.value \in Output \cup {None}
      /\ pc \in ErrorStages => r.value = None
  <2>1. CASE pc \in {"beforeValidation", "beforeExecution"}
    BY <1>1, <2>1 DEF Values, Input, ErrorStages
  <2>2. CASE pc = "afterExecution"
    BY <1>1, <2>2 DEF Values, ErrorStages
  <2>3. CASE pc \in ErrorStages
    BY <1>1, <2>3 DEF Values, ErrorStages
  <2> QED
    BY <2>1, <2>2, <2>3 DEF HookStages
<1> QED
  BY <1>1, <1>2, <1>3

LEMMA HookReturnsKeeps ==
    ASSUME CallInv, NEW r \in HookResult(pc), HookReturns(r)
    PROVE  CallInv'
<1> USE DEF CallInv, Typed
<1>1. /\ pc \in HookStages /\ at \in Plugins
      /\ UNCHANGED <<callVars, pc, dataVars, error, raised, suppressed>>
      /\ chain' = Collect(r)
      /\ objected' = IF r.error THEN objected \cup {pc} ELSE objected
      /\ excused' = IF pc = "beforeExecution" /\ r.value # None
                    THEN excused \cup {"replaced"} ELSE excused
      /\ touched' = (touched \/ r # Nothing)
  BY DEF HookReturns
<1>2. at' \in 1..(PluginCount + 1)
  BY <1>1, HookedCallAssumption DEF HookReturns, Plugins
<1>3. /\ r.error \in BOOLEAN
      /\ r.flag \in {"unset", "yes", "no"}
      /\ pc \in {"beforeValidation", "beforeExecution"} =>
            r.value \in Input \cup {None}
      /\ pc = "afterExecution" => r.value \in Output \cup {None}
      /\ pc \in ErrorStages => r.value = None
  BY <1>1, ResultType
<1>4. /\ chain' = [error |-> chain'.error, flag |-> chain'.flag,
                   value |-> chain'.value]
      /\ chain'.error = IF r.error THEN Proper(pc) ELSE chain.error
      /\ chain'.flag = IF r.flag = "unset" THEN chain.flag ELSE r.flag
      /\ chain'.value = IF r.value = None THEN chain.value ELSE r.value
  BY <1>1, Collected
<1>5. Proper(pc) \in Error /\ Proper(pc) # None
  <2>1. Proper(pc) \in Error
    BY <1>1 DEF Proper, Error
  <2> QED
    BY <2>1, HookedCallAssumption
<1>6. Typed'
  <2>1. pc \notin {"beforeValidation", "beforeExecution", "afterExecution"} =>
           pc \in ErrorStages
    BY <1>1 DEF HookStages
  <2>2. /\ pc \in {"beforeValidation", "beforeExecution"} =>
              chain'.value \in Input
        /\ pc = "afterExecution" => chain'.value \in Output
        /\ pc \in ErrorStages => chain'.value = None
    BY <1>3, <1>4, TypeParts DEF StageOK, ErrorStages
  <2>3. chain'.error \in Error \cup {None} /\ chain'.flag \in {"yes", "no"}
    BY <1>3, <1>4, <1>5, TypeParts DEF StageOK
  <2>4. ErrorInHand'
    BY <1>1, <1>4, <1>5 DEF ErrorInHand
  <2>5. StageOK'
    BY <1>1, <1>2, <1>4, <2>1, <2>2, <2>3, TypeParts DEF StageOK
  <2>6. RestOK'
    BY <1>1, TypeParts DEF RestOK, callVars, dataVars
  <2> QED
    BY <2>4, <2>5, <2>6, TypePartsNext
<1>7. Order'
  BY <1>1 DEF Order, dataVars
<1>8. Objections'
  BY <1>1, <1>4, <1>5 DEF Objections, Objected, Order, dataVars, UpToHandler,
                          UpToAppend
<1>9. Inputs'
  BY <1>1, <1>4 DEF Inputs, callVars, dataVars
<1>10. Quiet'
  <2> SUFFICES ASSUME ~touched' PROVE Quiet'
    BY DEF Quiet
  <2>1. r = Nothing
    BY <1>1
  <2>2. /\ chain'.error = chain.error /\ chain'.flag = chain.flag
        /\ chain'.value = chain.value
    BY <1>4, <2>1 DEF Nothing
  <2> QED
    BY <1>1, <2>2 DEF Quiet, callVars, dataVars
<1>11. Failures'
  BY <1>1 DEF Failures
<1> QED
  BY <1>6, <1>7, <1>8, <1>9, <1>10, <1>11
-----------------------------------------------------------------------------
(* CallInv is inductive: the ends of the chains. *)

LEMMA BeforeValidationEndsKeeps ==
    ASSUME CallInv, BeforeValidationEnds
    PROVE  CallInv'
<1> USE DEF CallInv, Typed
<1>1. /\ pc = "beforeValidation"
      /\ UNCHANGED <<callVars, output, appended, handled, raised, objected,
                     suppressed, touched>>
  BY DEF BeforeValidationEnds
<1>2. /\ chain.value \in Input /\ chain.error \in Error \cup {None}
  BY <1>1, TypeParts DEF StageOK
<1>3. CASE chain.error # None
  <2>1. Thrown(chain.error) /\ UNCHANGED <<input, excused>>
    BY <1>3, FailStages DEF BeforeValidationEnds
  <2>2. StageOK' /\ ErrorInHand'
    BY <1>2, <1>3, <2>1, FailedStage DEF ErrorStages
  <2>3. RestOK'
    BY <1>1, <1>2, <2>1, TypeParts DEF RestOK, Thrown, callVars
  <2>4. Order' /\ Objections' /\ Inputs' /\ Failures'
    BY <1>1, <2>1 DEF Order, Objections, Inputs, Failures, Thrown, callVars,
                      UpToHandler, UpToAppend
  <2>5. Quiet'
    BY <1>1, <1>3, <2>1 DEF Quiet, Thrown, callVars, HookStages, ErrorStages
  <2> QED
    BY <2>2, <2>3, <2>4, <2>5, TypePartsNext
<1>4. CASE chain.error = None
  <2> DEFINE stage == IF Skips THEN "hydrate" ELSE "validate"
  <2>1. /\ Enters(stage, Begun(None, None))
        /\ input' = chain.value
        /\ excused' = IF chain.flag = "yes" THEN {"skipped"} ELSE {}
    BY <1>4, EnterStages DEF BeforeValidationEnds
  <2>2. StageOK' /\ ErrorInHand'
    <3>1. /\ stage \in HookStages \cup WorkStages \cup Ended
          /\ stage \notin {"beforeValidation", "beforeExecution",
                           "afterExecution"} \cup ErrorStages
      BY DEF WorkStages, ErrorStages
    <3> QED
      BY <2>1, <3>1, EnteredStage DEF Enters
  <2>3. RestOK'
    BY <1>1, <1>2, <2>1, TypeParts DEF RestOK, Enters, callVars
  <2>4. Order'
    BY <1>1, <2>1 DEF Order, Enters, UpToHandler, UpToAppend
  <2>5. "beforeValidation" \notin objected
    BY <1>1, <1>4 DEF Objections, Objected
  <2>6. Objections'
    BY <1>1, <2>1, <2>5 DEF Objections, Objected, Enters
  <2>7. Inputs'
    BY <1>1, <2>1 DEF Inputs, Order, UpToHandler, Enters, Skips, callVars
  <2>8. Quiet'
    <3>1. ~touched => chain.flag = "no" /\ raised = None
      BY <1>1 DEF Quiet, HookStages, ErrorStages
    <3>2. pc' = stage /\ (~touched => pc' = "validate")
      BY <2>1, <3>1 DEF Enters, Skips
    <3> QED
      BY <1>1, <3>1, <3>2 DEF Quiet, Order, UpToHandler, HookStages, ErrorStages
  <2>9. Failures'
    <3>1. raised # None =>
             raised.proper /\ Guards(raised.from) \cap suppressed # {}
      BY <1>1 DEF Failures, Guards
    <3> QED
      BY <1>1, <3>1 DEF Failures
  <2> QED
    BY <2>2, <2>3, <2>4, <2>6, <2>7, <2>8, <2>9, TypePartsNext
<1> QED
  BY <1>3, <1>4

LEMMA BeforeExecutionEndsKeeps ==
    ASSUME CallInv, BeforeExecutionEnds
    PROVE  CallInv'
<1> USE DEF CallInv, Typed
<1>1. /\ pc = "beforeExecution"
      /\ UNCHANGED <<callVars, output, appended, handled, historyVars>>
  BY DEF BeforeExecutionEnds
<1>2. /\ chain.value \in Input /\ chain.error \in Error \cup {None}
  BY <1>1, TypeParts DEF StageOK
<1>3. raised # None =>
         raised.proper /\ Guards(raised.from) \cap suppressed # {}
  BY <1>1 DEF Failures, Guards
<1>4. CASE chain.error # None
  <2>1. /\ Fails("onError", chain.error) \/ Thrown(chain.error)
        /\ UNCHANGED input
    BY <1>4, FailStages DEF BeforeExecutionEnds
  <2>2. StageOK' /\ ErrorInHand'
    BY <1>2, <1>4, <2>1, FailedStage DEF ErrorStages
  <2>3. RestOK'
    BY <1>1, <1>2, <1>4, <2>1, TypeParts
    DEF RestOK, Thrown, Fails, Enters, callVars, historyVars
  <2>4. pc' \in {"onError", "thrown"}
    BY <2>1 DEF Thrown, Fails, Enters
  <2>5. Order'
    BY <1>1, <2>1, <2>4 DEF Order, Thrown, Fails, Enters, UpToHandler,
                            UpToAppend
  <2>6. "beforeValidation" \notin objected
    BY <1>1 DEF Objections, Objected
  <2>7. Objections'
    BY <1>1, <2>4, <2>6 DEF Objections, historyVars
  <2>8. Inputs' /\ Failures'
    BY <1>1, <1>3, <2>4 DEF Inputs, Failures, callVars, historyVars
  <2>9. Quiet'
    BY <1>1, <1>4 DEF Quiet, HookStages, ErrorStages, historyVars
  <2> QED
    BY <2>2, <2>3, <2>5, <2>7, <2>8, <2>9, TypePartsNext
<1>5. CASE chain.error = None
  <2>1. Enters("handle", Begun(None, None)) /\ input' = chain.value
    BY <1>5, EnterStages DEF BeforeExecutionEnds
  <2>2. StageOK' /\ ErrorInHand'
    <3>1. /\ "handle" \in HookStages \cup WorkStages \cup Ended
          /\ "handle" \notin {"beforeValidation", "beforeExecution",
                              "afterExecution"} \cup ErrorStages
      BY DEF WorkStages, ErrorStages
    <3> QED
      BY <2>1, <3>1, EnteredStage DEF Enters
  <2>3. RestOK'
    BY <1>1, <1>2, <2>1, TypeParts DEF RestOK, Enters, callVars, historyVars
  <2>4. Order'
    BY <1>1, <2>1 DEF Order, Enters, UpToHandler, UpToAppend
  <2>5. objected \cap {"beforeValidation", "beforeExecution"} = {}
    BY <1>1, <1>5 DEF Objections, Objected
  <2>6. Objections'
    BY <1>1, <2>1, <2>5 DEF Objections, Objected, Enters, historyVars
  <2>7. Inputs'
    BY <1>1, <2>1 DEF Inputs, Enters, callVars, historyVars
  <2>8. Quiet'
    BY <1>1, <2>1 DEF Quiet, Enters, HookStages, ErrorStages, callVars,
                      historyVars
  <2>9. Failures'
    BY <1>1, <1>3 DEF Failures, historyVars
  <2> QED
    BY <2>2, <2>3, <2>4, <2>6, <2>7, <2>8, <2>9, TypePartsNext
<1> QED
  BY <1>4, <1>5

LEMMA AfterExecutionEndsKeeps ==
    ASSUME CallInv, AfterExecutionEnds
    PROVE  CallInv'
<1> USE DEF CallInv, Typed
<1>1. /\ pc = "afterExecution"
      /\ UNCHANGED <<callVars, input, appended, handled, historyVars>>
  BY DEF AfterExecutionEnds
<1>2. /\ chain.value \in Output /\ chain.error \in Error \cup {None}
  BY <1>1, TypeParts DEF StageOK
<1>3. raised # None =>
         raised.proper /\ Guards(raised.from) \cap suppressed # {}
  BY <1>1 DEF Failures, Guards
<1>4. CASE chain.error # None
  <2>1. /\ Fails("onError", chain.error) \/ Thrown(chain.error)
        /\ UNCHANGED output
    BY <1>4, FailStages DEF AfterExecutionEnds
  <2>2. StageOK' /\ ErrorInHand'
    BY <1>2, <1>4, <2>1, FailedStage DEF ErrorStages
  <2>3. RestOK'
    BY <1>1, <1>2, <1>4, <2>1, TypeParts
    DEF RestOK, Thrown, Fails, Enters, callVars, historyVars
  <2>4. pc' \in {"onError", "thrown"}
    BY <2>1 DEF Thrown, Fails, Enters
  <2>5. Order'
    BY <1>1, <2>1, <2>4 DEF Order, Thrown, Fails, Enters, UpToHandler,
                            UpToAppend
  <2>6. "beforeValidation" \notin objected
    BY <1>1 DEF Objections, Objected
  <2>7. Objections'
    BY <1>1, <2>4, <2>6 DEF Objections, historyVars
  <2>8. Inputs' /\ Failures'
    BY <1>1, <1>3, <2>4 DEF Inputs, Failures, callVars, historyVars
  <2>9. Quiet'
    BY <1>1, <1>4 DEF Quiet, HookStages, ErrorStages, historyVars
  <2> QED
    BY <2>2, <2>3, <2>5, <2>7, <2>8, <2>9, TypePartsNext
<1>5. CASE chain.error = None
  <2>1. Enters("append", Begun(None, None)) /\ output' = chain.value
    BY <1>5, EnterStages DEF AfterExecutionEnds
  <2>2. StageOK' /\ ErrorInHand'
    <3>1. /\ "append" \in HookStages \cup WorkStages \cup Ended
          /\ "append" \notin {"beforeValidation", "beforeExecution",
                              "afterExecution"} \cup ErrorStages
      BY DEF WorkStages, ErrorStages
    <3> QED
      BY <2>1, <3>1, EnteredStage DEF Enters
  <2>3. RestOK'
    BY <1>1, <1>2, <2>1, TypeParts DEF RestOK, Enters, callVars, historyVars
  <2>4. Order'
    BY <1>1, <2>1 DEF Order, Enters, UpToHandler, UpToAppend
  <2>5. /\ objected \cap {"beforeValidation", "beforeExecution",
                          "afterExecution"} = {}
    BY <1>1, <1>5 DEF Objections, Objected
  <2>6. Objections'
    BY <1>1, <2>1, <2>5 DEF Objections, Objected, Enters, historyVars
  <2>7. Inputs'
    BY <1>1, <2>1 DEF Inputs, Enters, callVars, historyVars
  <2>8. Quiet'
    BY <1>1, <2>1 DEF Quiet, Enters, HookStages, ErrorStages, callVars,
                      historyVars
  <2>9. Failures'
    BY <1>1, <1>3 DEF Failures, historyVars
  <2> QED
    BY <2>2, <2>3, <2>4, <2>6, <2>7, <2>8, <2>9, TypePartsNext
<1> QED
  BY <1>4, <1>5

LEMMA ErrorHooksEndKeeps ==
    ASSUME CallInv, ErrorHooksEnd
    PROVE  CallInv'
<1> USE DEF CallInv, Typed
<1>1. /\ pc \in ErrorStages
      /\ UNCHANGED <<callVars, input, appended, handled, raised, objected,
                     touched>>
  BY DEF ErrorHooksEnd
<1>2. chain.error \in Error /\ chain.error # None
  BY <1>1, HookedCallAssumption DEF ErrorInHand
<1>3. CASE chain.flag = "yes"
  <2>1. /\ pc = "onValidationError" =>
              Enters("hydrate", Begun(None, None))
        /\ pc = "onExecutionError" =>
              Enters("afterExecution", Begun(None, output))
        /\ pc = "onError" => Enters("returned", Begun(None, None))
        /\ output' = IF pc = "onError" THEN "nothing" ELSE output
        /\ suppressed' = suppressed \cup {pc}
        /\ excused' = IF pc = "onValidationError"
                      THEN excused \cup {"suppressed"} ELSE excused
    BY <1>3, EnterStages DEF ErrorHooksEnd
  <2>2. RestOK'
    <3>1. output' \in Output
      BY <2>1, TypeParts DEF RestOK, Output
    <3>2. error' = error
      BY <1>1, <2>1 DEF Enters, ErrorStages
    <3> QED
      BY <1>1, <2>1, <3>1, <3>2, TypeParts DEF RestOK, callVars
  <2>3. touched
    BY <1>1, <1>3 DEF Quiet, HookStages
  <2>4. Quiet'
    BY <1>1, <2>3 DEF Quiet
  <2>5. Failures'
    BY <1>1, <2>1 DEF Failures, ErrorStages
  <2>6. "beforeValidation" \notin objected
    BY <1>1 DEF Objections, Objected, ErrorStages
  <2>7. CASE pc = "onValidationError"
    <3>1. /\ Enters("hydrate", Begun(None, None))
          /\ "hydrate" \in HookStages \cup WorkStages \cup Ended
          /\ "hydrate" \notin {"beforeValidation", "beforeExecution",
                               "afterExecution"} \cup ErrorStages
      BY <2>1, <2>7 DEF WorkStages, ErrorStages
    <3>2. StageOK' /\ ErrorInHand'
      BY <3>1, EnteredStage DEF Enters
    <3>3. Order'
      BY <1>1, <2>7, <3>1 DEF Order, Enters, UpToHandler, UpToAppend
    <3>4. Objections'
      BY <1>1, <2>1, <2>6, <2>7, <3>1 DEF Objections, Objected, Enters
    <3>5. Inputs'
      BY <1>1, <2>1, <2>7 DEF Inputs
    <3> QED
      BY <2>2, <2>4, <2>5, <3>2, <3>3, <3>4, <3>5, TypePartsNext
  <2>8. CASE pc = "onExecutionError"
    <3>1. /\ Enters("afterExecution", Begun(None, output))
          /\ "afterExecution" \in HookStages \cup WorkStages \cup Ended
          /\ "afterExecution" \notin {"beforeValidation", "beforeExecution"}
                                       \cup ErrorStages
          /\ output \in Output
      BY <2>1, <2>8, TypeParts DEF HookStages, ErrorStages, RestOK
    <3>2. StageOK' /\ ErrorInHand'
      BY <3>1, EnteredStage DEF Enters
    <3>3. Order'
      BY <1>1, <2>8, <3>1 DEF Order, Enters, UpToHandler, UpToAppend
    <3>4. Objections'
      BY <1>1, <2>1, <2>6, <2>8, <3>1 DEF Objections, Objected, Enters
    <3>5. Inputs'
      BY <1>1, <2>1, <2>8, <3>1 DEF Inputs, Enters, callVars
    <3> QED
      BY <2>2, <2>4, <2>5, <3>2, <3>3, <3>4, <3>5, TypePartsNext
  <2>9. CASE pc = "onError"
    <3>1. /\ Enters("returned", Begun(None, None))
          /\ "returned" \in HookStages \cup WorkStages \cup Ended
          /\ "returned" \notin {"beforeValidation", "beforeExecution",
                                "afterExecution"} \cup ErrorStages
      BY <2>1, <2>9 DEF Ended, ErrorStages
    <3>2. StageOK' /\ ErrorInHand'
      BY <3>1, EnteredStage DEF Enters
    <3>3. Order'
      BY <1>1, <2>9, <3>1 DEF Order, Enters, UpToHandler, UpToAppend
    <3>4. Objections'
      BY <1>1, <2>1, <2>6, <2>9, <3>1 DEF Objections, Objected, Enters
    <3>5. Inputs'
      BY <1>1, <2>1, <2>9, <3>1 DEF Inputs, Enters, callVars
    <3> QED
      BY <2>2, <2>4, <2>5, <3>2, <3>3, <3>4, <3>5, TypePartsNext
  <2> QED
    BY <1>1, <2>7, <2>8, <2>9 DEF ErrorStages
<1>4. CASE chain.flag # "yes"
  <2>1. /\ \/ Thrown(chain.error)
           \/ pc = "onExecutionError" /\ Fails("onError", chain.error)
        /\ UNCHANGED <<output, suppressed, excused>>
    <3>1. Leave(pc, chain.error) /\ UNCHANGED <<output, suppressed, excused>>
      BY <1>4 DEF ErrorHooksEnd
    <3> QED
      BY <1>1, <3>1, FailStages DEF ErrorStages
  <2>2. StageOK' /\ ErrorInHand'
    BY <1>2, <2>1, FailedStage DEF ErrorStages
  <2>3. RestOK'
    BY <1>1, <1>2, <2>1, TypeParts DEF RestOK, Thrown, Fails, Enters, callVars
  <2>4. \/ pc' = "thrown"
        \/ pc = "onExecutionError" /\ pc' = "onError"
    BY <2>1 DEF Thrown, Fails, Enters
  <2>5. Order'
    BY <1>1, <2>1, <2>4 DEF Order, Thrown, Fails, Enters, UpToHandler,
                            UpToAppend
  <2>6. Objections'
    BY <1>1, <2>1, <2>4 DEF Objections, Objected, ErrorStages
  <2>7. Inputs'
    BY <1>1, <2>1, <2>4 DEF Inputs, callVars
  <2>8. Quiet'
    <3> SUFFICES ASSUME ~touched' PROVE Quiet'
      BY DEF Quiet
    <3>1. ~touched /\ raised = chain.error
      BY <1>1 DEF Quiet
    <3>2. handled # None /\ hasSchema => handled.parsed
      BY <3>1 DEF Quiet
    <3>3. CASE Thrown(chain.error)
      BY <1>1, <1>2, <3>1, <3>2, <3>3
      DEF Quiet, Thrown, callVars, HookStages, ErrorStages
    <3>4. CASE Fails("onError", chain.error)
      <4>1. pc' = "onError" /\ chain'.flag = "no"
            /\ chain'.error = chain.error
        BY <3>4 DEF Fails, Enters, Begun
      <4> QED
        BY <1>1, <3>1, <3>2, <4>1
        DEF Quiet, callVars, HookStages, ErrorStages
    <3> QED
      BY <2>1, <3>3, <3>4
  <2>9. Failures'
    BY <1>1, <2>1, <2>4 DEF Failures, Guards
  <2> QED
    BY <2>2, <2>3, <2>5, <2>6, <2>7, <2>8, <2>9, TypePartsNext
<1> QED
  BY <1>3, <1>4
-----------------------------------------------------------------------------
(* CallInv is inductive: the call itself. *)

\* An error of the call goes to the hooks that guard its stage, or to the caller.
LEMMA CallFails ==
    ASSUME CallInv, pc \in WorkStages, NEW e \in Error, e.from = pc,
           NEW stage \in Guards(pc),
           Fails(stage, e) \/ (~e.proper /\ Thrown(e)),
           pc = "validate" <=> stage = "onValidationError",
           stage \in ErrorStages,
           raised' = e,
           handled' = handled \/ (pc = "handle" /\ handled' = input),
           UNCHANGED <<callVars, input, output, appended, objected, suppressed,
                       excused, touched>>
    PROVE  CallInv'
<1> USE DEF CallInv, Typed
<1>1. e # None
  BY HookedCallAssumption
<1>2. StageOK' /\ ErrorInHand'
  BY FailedStage
<1>3. RestOK'
  BY TypeParts DEF RestOK, Fails, Thrown, Enters, callVars
<1>4. /\ pc' \in {stage, "thrown"}
      /\ pc' = "thrown" => error' = e
      /\ pc' # "thrown" => error' = error
      /\ pc' = stage => e.proper /\ chain'.error = e /\ chain'.flag = "no"
  BY DEF Fails, Thrown, Enters, Begun, ErrorStages
<1>5. stage \in {"onValidationError", "onExecutionError", "onError"}
  BY DEF ErrorStages
<1>6. stage = "onExecutionError" => pc = "handle"
  BY DEF Guards
<1>7. Order'
  BY <1>4, <1>5, <1>6 DEF Order, UpToHandler, UpToAppend, WorkStages
<1>8. Objections'
  <2>1. \A x \in {"beforeValidation", "beforeExecution", "afterExecution"} :
           x \notin objected
    BY DEF Objections, Objected, WorkStages
  <2> QED
    BY <2>1 DEF Objections
<1>9. Inputs'
  BY <1>4, <1>5 DEF Inputs, callVars
<1>10. Quiet'
  <2> SUFFICES ASSUME ~touched' PROVE Quiet'
    BY DEF Quiet
  <2>1. ~touched
    OBVIOUS
  <2>2. handled' # None /\ hasSchema' => handled'.parsed
    BY <2>1 DEF Quiet, callVars
  <2>3. CASE pc' = stage
    BY <1>4, <1>5, <2>2, <2>3 DEF Quiet, HookStages, ErrorStages
  <2>4. CASE pc' = "thrown"
    BY <1>1, <1>4, <2>2, <2>4 DEF Quiet, HookStages, ErrorStages
  <2> QED
    BY <1>4, <2>3, <2>4
<1>11. Failures'
  BY <1>4 DEF Failures
<1> QED
  BY <1>2, <1>3, <1>7, <1>8, <1>9, <1>10, <1>11, TypePartsNext

LEMMA ProperErrors ==
    ASSUME NEW stage \in HookStages \cup WorkStages, NEW p \in BOOLEAN
    PROVE  /\ [from |-> stage, proper |-> p] \in Error
           /\ Proper(stage) \in Error
           /\ Proper(stage).from = stage /\ Proper(stage).proper
  BY DEF Error, Proper

LEMMA ValidateKeeps ==
    ASSUME CallInv, Validate
    PROVE  CallInv'
<1> USE DEF CallInv, Typed
<1>1. /\ pc = "validate" /\ pc \in WorkStages
      /\ UNCHANGED <<callVars, output, appended, handled, objected, suppressed,
                     excused, touched>>
      /\ input \in Input
  BY TypeParts DEF Validate, WorkStages, RestOK
<1>2. CASE input.valid
  <2>1. /\ input' = [input EXCEPT !.parsed = TRUE]
        /\ Enters("hydrate", Begun(None, None))
        /\ raised' = raised
    BY <1>2, EnterStages DEF Validate
  <2>2. input' \in Input /\ input'.valid /\ input'.parsed
    BY <1>1, <1>2, <2>1 DEF Input
  <2>3. StageOK' /\ ErrorInHand'
    <3>1. /\ "hydrate" \in HookStages \cup WorkStages \cup Ended
          /\ "hydrate" \notin {"beforeValidation", "beforeExecution",
                               "afterExecution"} \cup ErrorStages
      BY DEF WorkStages, ErrorStages
    <3> QED
      BY <2>1, <3>1, EnteredStage DEF Enters
  <2>4. RestOK'
    BY <1>1, <2>1, <2>2, TypeParts DEF RestOK, Enters, callVars
  <2>5. Order' /\ Objections'
    BY <1>1, <2>1 DEF Order, Objections, Objected, Enters, UpToHandler,
                      UpToAppend
  <2>6. Inputs'
    BY <1>1, <2>1, <2>2 DEF Inputs, Order, UpToHandler, Enters, callVars
  <2>7. Quiet'
    BY <1>1, <2>1, <2>2 DEF Quiet, Enters, HookStages, ErrorStages, callVars
  <2>8. Failures'
    BY <1>1, <2>1 DEF Failures, Guards
  <2> QED
    BY <2>3, <2>4, <2>5, <2>6, <2>7, <2>8, TypePartsNext
<1>3. CASE ~input.valid
  <2>1. /\ Fails("onValidationError", Proper("validate"))
        /\ raised' = Proper("validate") /\ UNCHANGED input
    BY <1>3, FailStages DEF Validate
  <2>2. "onValidationError" \in Guards(pc) \cap ErrorStages
    BY <1>1 DEF Guards, ErrorStages
  <2>3. Proper("validate") \in Error /\ Proper("validate").from = pc
    BY <1>1, ProperErrors
  <2> QED
    BY <1>1, <2>1, <2>2, <2>3, CallFails
<1> QED
  BY <1>2, <1>3

LEMMA HydrateKeeps ==
    ASSUME CallInv, Hydrate
    PROVE  CallInv'
<1> USE DEF CallInv, Typed
<1>1. /\ pc = "hydrate" /\ pc \in WorkStages
      /\ UNCHANGED <<callVars, dataVars, objected, suppressed, excused, touched>>
      /\ input \in Input
  BY TypeParts DEF Hydrate, WorkStages, RestOK
<1>2. CASE Run("beforeExecution", input) /\ UNCHANGED raised
  <2>1. Enters("beforeExecution", Begun(None, input))
    BY <1>2, EnterStages
  <2>2. StageOK' /\ ErrorInHand'
    <3>1. /\ "beforeExecution" \in HookStages \cup WorkStages \cup Ended
          /\ "beforeExecution" \notin {"afterExecution"} \cup ErrorStages
      BY DEF HookStages, ErrorStages
    <3> QED
      BY <1>1, <2>1, <3>1, EnteredStage DEF Enters
  <2>3. /\ chain'.flag = "no" /\ chain'.error = None
        /\ chain'.value = input /\ pc' = "beforeExecution"
    BY <2>1 DEF Enters, Begun
  <2>4. RestOK'
    BY <1>1, <1>2, <2>1, TypeParts DEF RestOK, Enters, callVars, dataVars
  <2>5. Order' /\ Objections'
    BY <1>1, <2>1, <2>3 DEF Order, Objections, Objected, Enters, UpToHandler,
                            UpToAppend, dataVars
  <2>6. Inputs'
    BY <1>1, <2>3 DEF Inputs, callVars, dataVars
  <2>7. Quiet'
    BY <1>1, <1>2, <2>3 DEF Quiet, HookStages, ErrorStages, callVars, dataVars
  <2>8. Failures'
    BY <1>1, <1>2 DEF Failures, Guards
  <2> QED
    BY <2>2, <2>4, <2>5, <2>6, <2>7, <2>8, TypePartsNext
<1>3. CASE Fail(Proper("hydrate")) /\ raised' = Proper("hydrate")
  <2>1. \/ Fails("onError", Proper("hydrate"))
        \/ ~Proper("hydrate").proper /\ Thrown(Proper("hydrate"))
    BY <1>3, FailStages
  <2>2. "onError" \in Guards(pc) \cap ErrorStages
    BY <1>1 DEF Guards, ErrorStages
  <2>3. Proper("hydrate") \in Error /\ Proper("hydrate").from = pc
    BY <1>1, ProperErrors
  <2> QED
    BY <1>1, <1>3, <2>1, <2>2, <2>3, CallFails DEF dataVars
<1> QED
  BY <1>2, <1>3 DEF Hydrate

LEMMA HandleKeeps ==
    ASSUME CallInv, Handle
    PROVE  CallInv'
<1> USE DEF CallInv, Typed
<1>1. /\ pc = "handle" /\ pc \in WorkStages /\ handled' = input
      /\ UNCHANGED <<callVars, input, appended, objected, suppressed, excused,
                     touched>>
      /\ input \in Input /\ input # None
  BY TypeParts, HookedCallAssumption DEF Handle, WorkStages, RestOK
<1>2. CASE /\ output' \in Output
           /\ Run("afterExecution", output')
           /\ UNCHANGED raised
  <2>1. Enters("afterExecution", Begun(None, output'))
    BY <1>2 DEF Run, Enter, Enters, EmptyChain, Begun
  <2>2. StageOK' /\ ErrorInHand'
    <3>1. PICK value \in Output : value = output'
      BY <1>2
    <3>2. /\ "afterExecution" \in HookStages \cup WorkStages \cup Ended
          /\ "afterExecution" \notin {"beforeValidation", "beforeExecution"}
                                       \cup ErrorStages
      BY DEF HookStages, ErrorStages
    <3>3. /\ pc' = "afterExecution" /\ at' = 1
          /\ chain' = Begun(None, value)
      BY <2>1, <3>1 DEF Enters
    <3> QED
      BY <3>2, <3>3, EnteredStage
  <2>3. /\ chain'.flag = "no" /\ chain'.error = None
        /\ chain'.value = output' /\ pc' = "afterExecution" /\ error' = error
    BY <2>1 DEF Enters, Begun
  <2>4. RestOK'
    BY <1>1, <1>2, <2>3, TypeParts DEF RestOK, callVars
  <2>5. Order'
    BY <1>1, <2>3 DEF Order, UpToHandler, UpToAppend
  <2>6. Objections'
    BY <1>1, <2>3 DEF Objections, Objected
  <2>7. Inputs'
    BY <1>1, <2>3 DEF Inputs, callVars
  <2>8. Quiet'
    BY <1>1, <1>2, <2>3 DEF Quiet, HookStages, ErrorStages, callVars
  <2>9. Failures'
    BY <1>1, <1>2 DEF Failures, Guards
  <2> QED
    BY <2>2, <2>4, <2>5, <2>6, <2>7, <2>8, <2>9, TypePartsNext
<1>3. CASE /\ \E p \in BOOLEAN :
                LET e == [from |-> "handle", proper |-> p]
                IN  raised' = e /\ FailExecution(e)
           /\ UNCHANGED output
  <2>1. PICK p \in BOOLEAN :
           /\ raised' = [from |-> "handle", proper |-> p]
           /\ FailExecution([from |-> "handle", proper |-> p])
    BY <1>3
  <2> DEFINE e == [from |-> "handle", proper |-> p]
  <2>2. e \in Error /\ e.from = pc
    BY <1>1, ProperErrors
  <2> HIDE DEF e
  <2>3. Fails("onExecutionError", e) \/ (~e.proper /\ Thrown(e))
    BY <2>1, FailStages DEF e
  <2>4. "onExecutionError" \in Guards(pc) \cap ErrorStages
    BY <1>1 DEF Guards, ErrorStages
  <2>5. raised' = e
    BY <2>1 DEF e
  <2> QED
    BY <1>1, <1>3, <2>2, <2>3, <2>4, <2>5, CallFails
<1> QED
  BY <1>2, <1>3 DEF Handle

\* A step behind the handler that succeeds.
LEMMA GoesOn ==
    ASSUME CallInv, NEW stage \in {"settle", "returned"},
           Enters(stage, Begun(None, None)),
           \/ /\ pc = "append"
              /\ appended' \in BOOLEAN
              /\ appended' <=> kind = "command" /\ output = "something"
           \/ pc = "settle" /\ appended' = appended,
           UNCHANGED <<callVars, input, output, handled, historyVars>>
    PROVE  CallInv'
<1> USE DEF CallInv, Typed
<1>1. StageOK' /\ ErrorInHand'
  <2>1. /\ stage \in HookStages \cup WorkStages \cup Ended
        /\ stage \notin {"beforeValidation", "beforeExecution",
                         "afterExecution"} \cup ErrorStages
    BY DEF WorkStages, ErrorStages, Ended
  <2> QED
    BY <2>1, EnteredStage DEF Enters
<1>2. RestOK'
  BY TypeParts DEF RestOK, Enters, callVars, historyVars
<1>3. pc' = stage /\ error' = error /\ pc \in {"append", "settle"}
  BY DEF Enters
<1>4. Order'
  BY <1>3 DEF Order, UpToHandler, UpToAppend, historyVars
<1>5. Objections'
  <2>1. \A x \in {"beforeValidation", "beforeExecution", "afterExecution"} :
           x \notin objected
    BY <1>3 DEF Objections, Objected
  <2> QED
    BY <2>1 DEF Objections, historyVars
<1>6. Inputs'
  BY <1>3 DEF Inputs, callVars, historyVars
<1>7. Quiet'
  BY <1>3 DEF Quiet, HookStages, ErrorStages, callVars, historyVars
<1>8. Failures'
  BY <1>3 DEF Failures, Guards, historyVars
<1> QED
  BY <1>1, <1>2, <1>4, <1>5, <1>6, <1>7, <1>8, TypePartsNext

LEMMA AppendKeeps ==
    ASSUME CallInv, Append
    PROVE  CallInv'
<1>1. /\ pc = "append" /\ pc \in WorkStages
      /\ UNCHANGED <<callVars, input, output, handled, objected, suppressed,
                     excused, touched>>
      /\ ~appended /\ appended \in BOOLEAN
  BY TypeParts DEF Append, WorkStages, CallInv, Typed, RestOK, Order,
                   UpToAppend
<1>2. CASE /\ Goto("settle") /\ UNCHANGED raised
           /\ appended' \in BOOLEAN
           /\ appended' <=> kind = "command" /\ output = "something"
  <2>1. Enters("settle", Begun(None, None)) /\ "settle" \in {"settle", "returned"}
    BY <1>2, EnterStages
  <2>2. UNCHANGED <<callVars, input, output, handled, historyVars>>
    BY <1>1, <1>2 DEF historyVars
  <2> QED
    BY <1>1, <1>2, <2>1, <2>2, GoesOn
<1>3. CASE /\ Fail(Proper("append")) /\ raised' = Proper("append")
           /\ UNCHANGED appended
  <2>1. \/ Fails("onError", Proper("append"))
        \/ ~Proper("append").proper /\ Thrown(Proper("append"))
    BY <1>3, FailStages
  <2>2. "onError" \in Guards(pc) \cap ErrorStages
    BY <1>1 DEF Guards, ErrorStages
  <2>3. Proper("append") \in Error /\ Proper("append").from = pc
    BY <1>1, ProperErrors
  <2> QED
    BY <1>1, <1>3, <2>1, <2>2, <2>3, CallFails
<1> QED
  BY <1>1, <1>2, <1>3 DEF Append

LEMMA SettleKeeps ==
    ASSUME CallInv, Settle
    PROVE  CallInv'
<1>1. /\ pc = "settle" /\ pc \in WorkStages
      /\ UNCHANGED <<callVars, dataVars, objected, suppressed, excused, touched>>
  BY DEF Settle, WorkStages
<1>2. CASE Return /\ UNCHANGED raised
  <2>1. Enters("returned", Begun(None, None))
    BY <1>2, EnterStages
  <2> QED
    BY <1>1, <1>2, <2>1, GoesOn DEF historyVars, dataVars
<1>3. CASE Fail(Proper("settle")) /\ raised' = Proper("settle")
  <2>1. \/ Fails("onError", Proper("settle"))
        \/ ~Proper("settle").proper /\ Thrown(Proper("settle"))
    BY <1>3, FailStages
  <2>2. "onError" \in Guards(pc) \cap ErrorStages
    BY <1>1 DEF Guards, ErrorStages
  <2>3. Proper("settle") \in Error /\ Proper("settle").from = pc
    BY <1>1, ProperErrors
  <2> QED
    BY <1>1, <1>3, <2>1, <2>2, <2>3, CallFails DEF dataVars
<1> QED
  BY <1>2, <1>3 DEF Settle

LEMMA CallInvNext == CallInv /\ [Next]_vars => CallInv'
<1> SUFFICES ASSUME CallInv, [Next]_vars PROVE CallInv'
  OBVIOUS
<1>1. CASE UNCHANGED vars
  BY <1>1, TypeParts, TypePartsNext
  DEF vars, callVars, dataVars, historyVars, CallInv, Typed, StageOK, RestOK,
      ErrorInHand, Order, Objections, Objected, Inputs, Quiet, Failures
<1>2. CASE HookThrows
  BY <1>2, HookThrowsKeeps
<1>3. CASE \E r \in HookResult(pc) : HookReturns(r)
  BY <1>3, HookReturnsKeeps
<1>4. CASE \/ BeforeValidationEnds \/ BeforeExecutionEnds
           \/ AfterExecutionEnds \/ ErrorHooksEnd
  BY <1>4, BeforeValidationEndsKeeps, BeforeExecutionEndsKeeps,
     AfterExecutionEndsKeeps, ErrorHooksEndKeeps
<1>5. CASE Validate \/ Hydrate \/ Handle \/ Append \/ Settle
  BY <1>5, ValidateKeeps, HydrateKeeps, HandleKeeps, AppendKeeps, SettleKeeps
<1> QED
  BY <1>1, <1>2, <1>3, <1>4, <1>5 DEF Next
-----------------------------------------------------------------------------
(* The properties. *)

\* What a call is, at every stage of it and in every chain of hooks.
THEOREM CallInvariant == Spec => []CallInv
  BY CallInvInit, CallInvNext, PTL DEF Spec

\* The types of the call, its chains and its errors.
THEOREM TypeCorrect == Spec => []TypeOK
<1>1. CallInv => TypeOK
  BY DEF CallInv, Typed
<1> QED
  BY <1>1, CallInvariant, PTL

\* An error that a hook returns before the handler keeps the handler from being
\* called, and one that it returns before the append keeps the call from
\* appending, whatever the hooks after it return or throw, and whatever error
\* hooks suppress.
THEOREM ObjectionsHold == Spec => []ObjectionHolds
<1>1. CallInv => ObjectionHolds
  BY DEF CallInv, Objections, Objected, ObjectionHolds
<1> QED
  BY <1>1, CallInvariant, PTL

\* A handler with a schema is called with what its schema has accepted, unless a
\* plugin has skipped the validation, suppressed its error, or replaced the
\* input afterwards.
THEOREM HandlersSeeValidInput == Spec => []HandlerSeesValidInput
<1>1. CallInv => HandlerSeesValidInput
  BY DEF CallInv, Inputs, HandlerSeesValidInput
<1> QED
  BY <1>1, CallInvariant, PTL

\* However many plugins there are: if all of their hooks return nothing, or throw
\* what is only logged or ignored, the call ends as it would without them.
THEOREM QuietPluginsAreHarmless == Spec => []QuietPluginsChangeNothing
<1>1. CallInv => QuietPluginsChangeNothing
  <2> SUFFICES ASSUME CallInv, ~touched PROVE QuietPluginsChangeNothing
    BY DEF QuietPluginsChangeNothing
  <2>1. pc = "returned" => error = None
    BY DEF CallInv, Order
  <2> QED
    BY <2>1 DEF CallInv, Quiet, QuietPluginsChangeNothing, Ended, HookStages,
                ErrorStages
<1> QED
  BY <1>1, CallInvariant, PTL

\* A call that has failed returns only if that very failure was suppressed by
\* the hooks that guard its stage.
THEOREM FailuresEndTheCall == Spec => []FailuresAreNotSwallowed
<1>1. CallInv => FailuresAreNotSwallowed
  BY DEF CallInv, Failures, Objections, Objected, FailuresAreNotSwallowed,
         Guards
<1> QED
  BY <1>1, CallInvariant, PTL
=============================================================================
