--------------------------- MODULE SupervisionLock --------------------------
(***************************************************************************)
(* The three threads of Supervision share the mutex the way CancelLock     *)
(* says: the refinement mapping from where a thread stands in its loop to  *)
(* its phase with respect to the mutex.                                    *)
(***************************************************************************)
EXTENDS Supervision

PhaseOf(t) ==
  CASE pc[t] = "done" -> "ended"
    [] pc[t] = "lock" -> "wait"
    [] InCS(t)        -> "in"
    [] OTHER          -> "out"

AbstractLock ==
  INSTANCE CancelLock WITH Thread   <- Workers,
                           NoThread <- "none",
                           owner    <- mutex,
                           phase    <- [t \in Workers |-> PhaseOf(t)]

(* Every step of the program is a step of the abstract lock or leaves it   *)
(* alone: no loop locks twice, unlocks what it does not hold, or leaves    *)
(* its critical section in another way than by unlocking or ending.        *)
ImplementsLock == AbstractLock!LockSpec
=============================================================================
