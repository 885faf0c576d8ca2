-------------------------- MODULE CancelLockProofs --------------------------
(***************************************************************************)
(* Proofs about CancelLock, for any set of threads.                        *)
(***************************************************************************)
EXTENDS CancelLock, TLAPS

LockInv == LockTypeOK /\ OnlyOwnerInside

LEMMA LockInvStep ==
  ASSUME NoThread \notin Thread
  PROVE  LockInv /\ [LockNext]_lockVars => LockInv'
<1>. SUFFICES ASSUME LockInv, [LockNext]_lockVars PROVE LockInv'
  OBVIOUS
<1>. USE DEF LockInv, LockTypeOK, OnlyOwnerInside, Phase, Move
<1>1. ASSUME NEW t \in Thread, Request(t) PROVE LockInv'
  BY <1>1 DEF Request
<1>2. ASSUME NEW t \in Thread, Acquire(t) PROVE LockInv'
  BY <1>2 DEF Acquire
<1>3. ASSUME NEW t \in Thread, Release(t) PROVE LockInv'
  BY <1>3 DEF Release
<1>4. ASSUME NEW t \in Thread, End(t) PROVE LockInv'
  BY <1>4 DEF End
<1>5. CASE UNCHANGED lockVars
  BY <1>5 DEF lockVars
<1>. QED
  BY <1>1, <1>2, <1>3, <1>4, <1>5 DEF LockNext

LEMMA LockInvariant ==
  ASSUME NoThread \notin Thread
  PROVE  LockSpec => []LockInv
<1>1. LockInit => LockInv
  BY DEF LockInit, LockInv, LockTypeOK, OnlyOwnerInside, Phase
<1>. QED
  BY <1>1, LockInvStep, PTL DEF LockSpec

(* Two threads are never inside together, and a locked mutex is held       *)
(* inside or was lost there.                                               *)
THEOREM LockExcludes ==
  ASSUME NoThread \notin Thread
  PROVE  LockSpec => []OnlyOwnerInside
<1>1. LockInv => OnlyOwnerInside
  BY DEF LockInv
<1>. QED
  BY <1>1, LockInvariant, PTL

(* A mutex lost with a thread that ended inside is lost for good: whoever  *)
(* waits for it waits for ever.                                            *)
THEOREM LostMutexStaysLost ==
  ASSUME NoThread \notin Thread
  PROVE  LockSpec => LostForGood
<1>1. ASSUME LockInv, LockInv', LockNext, Lost
      PROVE  owner' = owner /\ Lost' /\ \A t \in Thread : phase'[t] # "in"
  <2>. USE DEF LockInv, LockTypeOK, OnlyOwnerInside, Phase, Lost, Move
  <2>1. PICK t \in Thread : Request(t) \/ Acquire(t) \/ Release(t) \/ End(t)
    BY <1>1 DEF LockNext
  <2>2. ~Acquire(t) /\ ~Release(t)
    BY <1>1 DEF Acquire, Release
  <2>3. owner' = owner /\ phase'[owner] = "ended"
    BY <1>1, <2>1, <2>2 DEF Request, End
  <2>. QED
    BY <1>1, <2>3
<1>2. LockInv /\ LockInv' /\ [LockNext]_lockVars => [StaysLost]_lockVars
  BY <1>1 DEF StaysLost
<1>. QED
  BY <1>2, LockInvariant, PTL DEF LockSpec, LostForGood
=============================================================================
