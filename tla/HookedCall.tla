----------------------------- MODULE HookedCall -----------------------------
(***************************************************************************)
(* One call with plugins: a command (Aggregate.executeCommand) or a query  *)
(* (ReadModel.call) with the chains of hooks that PluginRegistry calls     *)
(* before, after and around its validation and its handler.                *)
(*                                                                         *)
(* Both kinds of calls have the same stages; a query has no event store.   *)
(* Every plugin has every hook: one that is not registered is one that     *)
(* returns nothing.  Of a payload or query only its validity is modelled,  *)
(* of a state update or result only whether there is one.                  *)
(***************************************************************************)
EXTENDS Integers

CONSTANTS
    PluginCount,    \* the number of plugins, called in this order
    None            \* no value, no error

Plugins == 1..PluginCount

Strategy == {"log", "throw", "ignore"}      \* Plugin.errorStrategy

ErrorStages == {"onValidationError", "onExecutionError", "onError"}
HookStages == {"beforeValidation", "beforeExecution", "afterExecution"} \cup ErrorStages
WorkStages == {"validate", "hydrate", "handle", "append", "settle"}
Ended == {"returned", "thrown"}

\* valid: the schema accepts it; parsed: it is what validate has returned.
Input == [valid : BOOLEAN, parsed : BOOLEAN]
Output == {"nothing", "something"}

\* from: the stage that threw, or the hook stage in which it was returned;
\* proper: it is an instance of Error, so that error hooks are called.
Error == [from : HookStages \cup WorkStages, proper : BOOLEAN]
Proper(stage) == [from |-> stage, proper |-> TRUE]

ASSUME HookedCallAssumption ==
    /\ PluginCount \in Nat \ {0}
    /\ None \notin Input /\ None \notin Output /\ None \notin Error

\* What a hook may return, apart from nothing, and what it may throw.
Values(stage) ==
    CASE stage \in {"beforeValidation", "beforeExecution"} -> {None} \cup [valid : BOOLEAN, parsed : {FALSE}]
      [] stage = "afterExecution" -> {None} \cup Output
      [] OTHER -> {None}

\* flag is skip or suppress, where undefined is "unset".
Flags(stage) ==
    IF stage \in ErrorStages \cup {"beforeValidation"} THEN {"unset", "yes", "no"} ELSE {"unset"}

HookResult(stage) ==
    [breakChain : BOOLEAN, error : BOOLEAN, value : Values(stage), flag : Flags(stage)]

Nothing == [breakChain |-> FALSE, error |-> FALSE, value |-> None, flag |-> "unset"]

VARIABLES
    kind,        \* "command" or "query"
    hasSchema,   \* the input is validated
    strategy,    \* the error strategy of each plugin
    pc,          \* the stage
    at,          \* the plugin whose hook is called next
    chain,       \* the variables of the executor of the current chain of hooks
    input,       \* payload or query
    output,      \* state update or result, and then what the call returns
    error,       \* what the call has thrown
    appended,    \* the events of the state update are in the event store
    handled,     \* (history) the input the handler was called with
    raised,      \* (history) the last error of the call itself
    objected,    \* (history) stages in which a hook has returned an error
    suppressed,  \* (history) stages whose hooks have suppressed an error
    excused,     \* (history) why the input of the handler may be unparsed
    touched      \* (history) a hook has returned or thrown something

callVars == <<kind, hasSchema, strategy>>
dataVars == <<input, output, appended, handled>>
historyVars == <<raised, objected, suppressed, excused, touched>>
vars == <<callVars, pc, at, chain, dataVars, error, historyVars>>

EmptyChain == [error |-> None, flag |-> "no", value |-> None]   \* out of their scope

Init ==
    /\ kind \in {"command", "query"}
    /\ hasSchema \in BOOLEAN
    /\ strategy \in [Plugins -> Strategy]
    /\ \E v \in BOOLEAN : input = [valid |-> v, parsed |-> FALSE]
    /\ pc = IF hasSchema THEN "beforeValidation" ELSE "hydrate"
    /\ at = 1
    /\ chain = [EmptyChain EXCEPT !.value = IF hasSchema THEN input ELSE None]
    /\ output = "nothing"
    /\ error = None
    /\ appended = FALSE
    /\ handled = None
    /\ raised = None
    /\ objected = {} /\ suppressed = {} /\ excused = {}
    /\ touched = FALSE
-----------------------------------------------------------------------------
(* From one stage to the next. *)

Enter(stage, hooks) == pc' = stage /\ at' = 1 /\ chain' = hooks

Goto(stage) == Enter(stage, EmptyChain) /\ UNCHANGED error

\* run: the first hook of a chain is called with this value.
Run(stage, value) == Enter(stage, [EmptyChain EXCEPT !.value = value]) /\ UNCHANGED error

Throw(e) == Enter("thrown", EmptyChain) /\ error' = e

Return == Goto("returned")

\* Mutant: error hooks are called with whatever was thrown.
HandleAnyError(stage, e) ==
    /\ Enter(stage, [EmptyChain EXCEPT !.error = e])
    /\ UNCHANGED error

\* handleError: what is no Error is thrown again, around the hooks.
HandleError(stage, e) ==
    /\ e.proper
    /\ Enter(stage, [EmptyChain EXCEPT !.error = e])
    /\ UNCHANGED error

\* The catch block around everything behind the validation.
Fail(e) == HandleError("onError", e) \/ (~e.proper /\ Throw(e))

\* The catch block around the handler, inside of it.
FailExecution(e) == HandleError("onExecutionError", e) \/ (~e.proper /\ Fail(e))

\* An error that leaves a chain of hooks.
Leave(stage, e) ==
    IF stage \in {"beforeValidation", "onValidationError", "onError"} THEN Throw(e) ELSE Fail(e)
-----------------------------------------------------------------------------
(* PluginRegistry: #callHooks and the processors of its results. *)

\* Mutant: what is logged is thrown as well.
PropagatesLogged(i) == strategy[i] # "ignore"

Propagates(i) == strategy[i] = "throw"

\* A hook that throws fails the call only if its plugin wants that.
HookThrows ==
    /\ pc \in HookStages /\ at \in Plugins
    /\ IF Propagates(at)
       THEN \E p \in BOOLEAN : Leave(pc, [from |-> pc, proper |-> p])
       ELSE at' = at + 1 /\ UNCHANGED <<pc, chain, error>>
    /\ touched' = (touched \/ strategy[at] = "throw")
    /\ UNCHANGED <<callVars, dataVars, raised, objected, suppressed, excused>>

\* Mutant: only the error of the last result counts.
CollectLast(r) ==
    [error |-> IF r.error THEN Proper(pc) ELSE IF pc \in ErrorStages THEN chain.error ELSE None,
     flag |-> IF r.flag = "unset" THEN chain.flag ELSE r.flag,
     value |-> IF r.value = None THEN chain.value ELSE r.value]

\* The chain of hooks, when one of them has returned r.
Collect(r) ==
    [error |-> IF r.error THEN Proper(pc) ELSE chain.error,
     flag |-> IF r.flag = "unset" THEN chain.flag ELSE r.flag,
     value |-> IF r.value = None THEN chain.value ELSE r.value]

HookReturns(r) ==
    /\ pc \in HookStages /\ at \in Plugins
    /\ r \in HookResult(pc)
    /\ chain' = Collect(r)
    /\ at' = IF r.breakChain THEN PluginCount + 1 ELSE at + 1
    /\ objected' = IF r.error THEN objected \cup {pc} ELSE objected
    /\ excused' = IF pc = "beforeExecution" /\ r.value # None
                  THEN excused \cup {"replaced"} ELSE excused
    /\ touched' = (touched \/ r # Nothing)
    /\ UNCHANGED <<callVars, pc, dataVars, error, raised, suppressed>>

ChainEnds == pc \in HookStages /\ at > PluginCount

\* Mutant: an input that a hook has replaced is not validated.
SkipsReplaced == chain.flag = "yes" \/ chain.value # input

\* What the chain before the validation decides.
Skips == chain.flag = "yes"

BeforeValidationEnds ==
    /\ ChainEnds /\ pc = "beforeValidation"
    /\ IF chain.error # None
       THEN Throw(chain.error) /\ UNCHANGED <<input, excused>>
       ELSE /\ input' = chain.value
            /\ Goto(IF Skips THEN "hydrate" ELSE "validate")
            /\ excused' = IF chain.flag = "yes" THEN {"skipped"} ELSE {}
    /\ UNCHANGED <<callVars, output, appended, handled, raised, objected, suppressed, touched>>

BeforeExecutionEnds ==
    /\ ChainEnds /\ pc = "beforeExecution"
    /\ IF chain.error # None
       THEN Fail(chain.error) /\ UNCHANGED input
       ELSE input' = chain.value /\ Goto("handle")
    /\ UNCHANGED <<callVars, output, appended, handled, historyVars>>

AfterExecutionEnds ==
    /\ ChainEnds /\ pc = "afterExecution"
    /\ IF chain.error # None
       THEN Fail(chain.error) /\ UNCHANGED output
       ELSE output' = chain.value /\ Goto("append")
    /\ UNCHANGED <<callVars, input, appended, handled, historyVars>>

\* errorHookExecutor: the call goes on behind the stage that failed, or ends.
ErrorHooksEnd ==
    /\ ChainEnds /\ pc \in ErrorStages
    /\ IF chain.flag = "yes"
       THEN /\ CASE pc = "onValidationError" -> Goto("hydrate")
                 [] pc = "onExecutionError" -> Run("afterExecution", output)
                 [] pc = "onError" -> Return
            /\ output' = IF pc = "onError" THEN "nothing" ELSE output
            /\ suppressed' = suppressed \cup {pc}
            /\ excused' = IF pc = "onValidationError" THEN excused \cup {"suppressed"} ELSE excused
       ELSE Leave(pc, chain.error) /\ UNCHANGED <<output, suppressed, excused>>
    /\ UNCHANGED <<callVars, input, appended, handled, raised, objected, touched>>
-----------------------------------------------------------------------------
(* The call itself. *)

Validate ==
    /\ pc = "validate"
    /\ IF input.valid
       THEN input' = [input EXCEPT !.parsed = TRUE] /\ Goto("hydrate") /\ UNCHANGED raised
       ELSE /\ HandleError("onValidationError", Proper("validate"))
            /\ raised' = Proper("validate")
            /\ UNCHANGED input
    /\ UNCHANGED <<callVars, output, appended, handled, objected, suppressed, excused, touched>>

\* The status of the aggregate; a query needs none.
Hydrate ==
    /\ pc = "hydrate"
    /\ \/ Run("beforeExecution", input) /\ UNCHANGED raised
       \/ /\ kind = "command"
          /\ Fail(Proper("hydrate"))
          /\ raised' = Proper("hydrate")
    /\ UNCHANGED <<callVars, dataVars, objected, suppressed, excused, touched>>

Handle ==
    /\ pc = "handle"
    /\ handled' = input
    /\ \/ /\ output' \in Output
          /\ Run("afterExecution", output')
          /\ UNCHANGED raised
       \/ /\ \E p \in BOOLEAN :
               LET e == [from |-> "handle", proper |-> p] IN raised' = e /\ FailExecution(e)
          /\ UNCHANGED output
    /\ UNCHANGED <<callVars, input, appended, objected, suppressed, excused, touched>>

Append ==
    /\ pc = "append"
    /\ IF kind = "command" /\ output = "something"
       THEN \/ Goto("settle") /\ appended' = TRUE /\ UNCHANGED raised
            \/ Fail(Proper("append")) /\ raised' = Proper("append") /\ UNCHANGED appended
       ELSE Goto("settle") /\ UNCHANGED <<appended, raised>>
    /\ UNCHANGED <<callVars, input, output, handled, objected, suppressed, excused, touched>>

\* The snapshot of a command is stored before it ends.
Settle ==
    /\ pc = "settle"
    /\ \/ Return /\ UNCHANGED raised
       \/ kind = "command" /\ Fail(Proper("settle")) /\ raised' = Proper("settle")
    /\ UNCHANGED <<callVars, dataVars, objected, suppressed, excused, touched>>

Next ==
    \/ HookThrows
    \/ \E r \in HookResult(pc) : HookReturns(r)
    \/ BeforeValidationEnds \/ BeforeExecutionEnds \/ AfterExecutionEnds \/ ErrorHooksEnd
    \/ Validate \/ Hydrate \/ Handle \/ Append \/ Settle

Spec == Init /\ [][Next]_vars
-----------------------------------------------------------------------------

(* Properties. *)

TypeOK ==
    /\ kind \in {"command", "query"}
    /\ hasSchema \in BOOLEAN
    /\ strategy \in [Plugins -> Strategy]
    /\ pc \in HookStages \cup WorkStages \cup Ended
    /\ at \in 1..(PluginCount + 1)
    /\ chain \in [error : Error \cup {None},
                  flag : {"yes", "no"},
                  value : CASE pc \in {"beforeValidation", "beforeExecution"} -> Input
                            [] pc = "afterExecution" -> Output
                            [] OTHER -> {None}]
    /\ input \in Input
    /\ output \in Output
    /\ error \in Error \cup {None}
    /\ appended \in BOOLEAN
    /\ handled \in Input \cup {None}
    /\ raised \in Error \cup {None}
    /\ objected \subseteq HookStages
    /\ suppressed \subseteq ErrorStages
    /\ excused \subseteq {"skipped", "suppressed", "replaced"}
    /\ touched \in BOOLEAN

\* "Return an error to be thrown after calling the registered hooks for the
\* current event regardless of the specified errorStrategy"
\* (PluginRegistry.ts:15): whatever the hooks after it do, the call goes no
\* further than the stage in which a hook has returned an error: the handler is
\* not called behind the hooks that run before it, and nothing is appended
\* behind those that run after it.
ObjectionHolds ==
    /\ objected \cap {"beforeValidation", "beforeExecution"} # {} => handled = None
    /\ objected \cap {"beforeValidation", "beforeExecution", "afterExecution"} # {} => ~appended
    /\ "beforeValidation" \in objected => pc # "returned"

\* A handler with a schema is called with what its schema has accepted, unless a
\* plugin has asked for something else: it has skipped the validation,
\* suppressed its error or replaced the input afterwards. A hook that replaces
\* the input before the validation, or that throws, is no way around it.
HandlerSeesValidInput ==
    handled # None /\ hasSchema /\ excused = {} => handled.valid /\ handled.parsed

\* "Errors will be logged to the console, but execution will continue"
\* (Plugin.errorStrategy): plugins whose hooks return nothing, or throw under the
\* strategies log and ignore, change nothing of a call. It throws exactly its own
\* last error, it appends all or nothing, and its handler sees the parsed input.
QuietPluginsChangeNothing ==
    ~touched =>
        /\ pc \in Ended => error = raised
        /\ pc \in Ended => (pc = "thrown" <=> raised # None)
        /\ pc = "returned" => (appended <=> kind = "command" /\ output = "something")
        /\ handled # None /\ hasSchema => handled.parsed

\* The error hooks that a stage runs through when it fails.
Guards(stage) ==
    CASE stage = "validate" -> {"onValidationError"}
      [] stage = "handle" -> {"onExecutionError", "onError"}
      [] OTHER -> {"onError"}

\* A call that has failed returns only if a plugin has suppressed that very
\* failure: neither a hook that throws, nor an error that replaces another one,
\* nor the suppression of an earlier error makes it one that has succeeded. And
\* nobody can suppress what is not an Error (handleError).
FailuresAreNotSwallowed ==
    pc = "returned" =>
        /\ raised # None => raised.proper /\ Guards(raised.from) \cap suppressed # {}
        /\ objected \cap {"beforeExecution", "afterExecution"} # {} => "onError" \in suppressed
=============================================================================
