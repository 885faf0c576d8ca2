----------------------------- MODULE CancelLock -----------------------------
(***************************************************************************)
(* What the mutex of src/src/message.c promises to the threads that share  *)
(* it when any of them can be cancelled: one thread at a time is inside,   *)
(* and a thread that ends inside takes the mutex with it.  A thread that   *)
(* waits cannot end: pthread_mutex_lock is no cancellation point.          *)
(***************************************************************************)
CONSTANTS
  Thread,    \* the threads that share the mutex
  NoThread   \* owner of a mutex that is free, not a thread

VARIABLES
  owner,   \* the thread that locked the mutex last and has not unlocked it
  phase    \* of each thread: outside, waiting, inside, or ended

lockVars == <<owner, phase>>
Phase == {"out", "wait", "in", "ended"}

LockTypeOK ==
  /\ owner \in Thread \cup {NoThread}
  /\ phase \in [Thread -> Phase]

LockInit ==
  /\ owner = NoThread
  /\ phase = [t \in Thread |-> "out"]

Move(t, from, to) == phase[t] = from /\ phase' = [phase EXCEPT ![t] = to]

Request(t) == Move(t, "out", "wait") /\ UNCHANGED owner

Acquire(t) ==
  /\ Move(t, "wait", "in")
  /\ owner = NoThread
  /\ owner' = t

Release(t) ==
  /\ Move(t, "in", "out")
  /\ owner' = NoThread

End(t) ==
  /\ phase[t] \in {"out", "in"}
  /\ phase' = [phase EXCEPT ![t] = "ended"]
  /\ UNCHANGED owner

LockNext == \E t \in Thread : Request(t) \/ Acquire(t) \/ Release(t) \/ End(t)

LockSpec == LockInit /\ [][LockNext]_lockVars
-----------------------------------------------------------------------------
Lost == owner \in Thread /\ phase[owner] = "ended"

(* Only the owner is inside, so two threads never are; and whoever owns    *)
(* the mutex is inside or has ended there.                                 *)
OnlyOwnerInside ==
  /\ \A t \in Thread : phase[t] = "in" => owner = t
  /\ owner \in Thread => phase[owner] \in {"in", "ended"}

(* A mutex once lost stays lost: from then on no thread gets in.           *)
StaysLost   == Lost => owner' = owner /\ Lost' /\ \A t \in Thread : phase'[t] # "in"
LostForGood == [][StaysLost]_lockVars
=============================================================================
