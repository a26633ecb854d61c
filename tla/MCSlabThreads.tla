--------------------------- MODULE MCSlabThreads ---------------------------
(* The instance of SlabAlloc and Threads that TLC checks.  Neither touches  *)
(* the variables of the other, so one of them moves and the other rests at  *)
(* its start: every behaviour of each is a behaviour of the instance.       *)
EXTENDS SlabAlloc, Threads

VARIABLE moving

SlabMoves == moving = "slab" /\ Next /\ UNCHANGED <<threadVars, moving>>
ThreadsMove == moving = "threads" /\ ThreadNext /\ UNCHANGED <<vars, moving>>

\* Who is named as the starter of a record before its first start makes no
\* difference: no caller has a record then.
EitherInit ==
  /\ moving \in {"slab", "threads"}
  /\ Init /\ ThreadInit
  /\ starter = [s \in Slot |-> CHOOSE c \in Callers : TRUE]

EitherSpec ==
  /\ EitherInit
  /\ [][SlabMoves \/ ThreadsMove]_<<vars, threadVars, moving>>
  /\ \A t \in Threads : WF_vars(HoldingStep(t))
  /\ \A s \in Slot : WF_threadVars(DriverOwnStep(s))
=============================================================================
