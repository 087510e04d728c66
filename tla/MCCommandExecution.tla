------------------------- MODULE MCCommandExecution -------------------------
(***************************************************************************)
(* Small instances of CommandExecution.                                    *)
(***************************************************************************)
EXTENDS CommandExecution, TLC

CONSTANTS c1, c2

\* Calls of two releases of the program: c2 has a newer projector.
OneUpgraded == [c \in Commands |-> IF c = c2 THEN 1 ELSE 0]

\* Calls of one release, the second one.
SameVersion == [c \in Commands |-> 1]

\* Calls of one release are interchangeable.
Symmetric == Permutations(Commands)

\* A stream that does not exist yet, and one with an event in it.
NewOrUsed == {<<>>, <<[by |-> None, tomb |-> FALSE]>>}

Used == {<<[by |-> None, tomb |-> FALSE]>>}
=============================================================================
