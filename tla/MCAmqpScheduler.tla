--------------------------- MODULE MCAmqpScheduler ---------------------------
(***************************************************************************)
(* A small instance of AmqpScheduler.                                      *)
(***************************************************************************)
EXTENDS AmqpScheduler

CONSTANTS p1, p2, c1

\* A bound: once a process is troubled, no command is published again.  It is
\* troubled from then on, so that OnceUnlessFault and DueIsExecuted ask nothing
\* of what is left out.
TroubledPublishesOnce == troubled # {} => \A c \in Commands : copies[c] <= 1
=============================================================================
