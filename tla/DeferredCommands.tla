-------------------------- MODULE DeferredCommands --------------------------
(***************************************************************************)
(* What a scheduler promises of the commands that are scheduled with it,   *)
(* whether it keeps them in a list of its own or leaves them to a broker:  *)
(* a command is executed when it is due and not before; the scheduler lets *)
(* go of it when its callback has settled, and executes it no more after   *)
(* that; and only what is due while nobody is served is let go untried.    *)
(* Until it is let go, a command may be executed any number of times.      *)
(***************************************************************************)
EXTENDS Naturals

CONSTANT Commands

VARIABLES due,        \* commands whose time has come
          scheduled,  \* commands whose call of schedule has returned
          executed,   \* how often the callback was called
          answered,   \* commands whose callback has settled
          missed,     \* commands that were due while nobody was served
          released,   \* scheduled commands that were let go
          served      \* somebody is there to execute commands

vars == <<due, scheduled, executed, answered, missed, released, served>>

Init == /\ due = {}
        /\ scheduled = {}
        /\ executed = [c \in Commands |-> 0]
        /\ answered = {}
        /\ missed = {}
        /\ released = {}
        /\ served = FALSE

\* What was answered or missed may be let go with any step.
Release == /\ released \subseteq released'
           /\ released' \subseteq scheduled'
           /\ released' \ released \subseteq answered' \cup missed'

Ripen(C) == /\ due' = due \cup C
            /\ UNCHANGED <<scheduled, executed, answered, missed, served>>

Accept(c) == /\ scheduled' = scheduled \cup {c}
             /\ UNCHANGED <<due, executed, answered, missed, served>>

Execute(C) == /\ served
              /\ C \subseteq due
              /\ C \cap released \subseteq missed
              /\ executed' = [c \in Commands |-> IF c \in C THEN executed[c] + 1
                                                 ELSE executed[c]]
              /\ UNCHANGED <<due, scheduled, answered, missed, served>>

Answer(c) == /\ executed[c] > 0
             /\ answered' = answered \cup {c}
             /\ UNCHANGED <<due, scheduled, executed, missed, served>>

Miss(C) == /\ ~served
           /\ due' = due \cup C
           /\ missed' = missed \cup C
           /\ UNCHANGED <<scheduled, executed, answered, served>>

Serve == /\ served' = ~served
         /\ UNCHANGED <<due, scheduled, executed, answered, missed>>

Next == /\ Release
        /\ \/ \E C \in SUBSET Commands : Ripen(C) \/ Execute(C) \/ Miss(C)
           \/ \E c \in Commands : Accept(c) \/ Answer(c)
           \/ Serve

Spec == Init /\ [][Next]_vars
=============================================================================
