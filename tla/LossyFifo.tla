------------------------------ MODULE LossyFifo -----------------------------
(***************************************************************************)
(* What the temperature task may rely on when it asks something of the     *)
(* light task in src/src/message.c: a request, and the response that       *)
(* answers it, travel through several queues that may drop them, but       *)
(* nothing is answered that was not asked, nothing is answered twice, and  *)
(* answers are written in the order of the requests.                       *)
(***************************************************************************)
EXTENDS Naturals, Sequences, SequencesExt

CONSTANT Item    \* what may be asked

VARIABLES
  asking,     \* the asker is about to ask, and does so in its next step
  inFlight,   \* what was asked and is neither answered nor lost
  out         \* the request that has just been answered, or none

fifoVars == <<asking, inFlight, out>>

FifoInit == ~asking /\ inFlight = << >> /\ out = << >>

(* An answer is seen until the next thing happens to the file. *)
Unanswered == out' \in {out, << >>}

Prepare == asking' /\ Unanswered /\ UNCHANGED inFlight

Ask ==
  /\ asking /\ ~asking'
  /\ \E x \in Item : inFlight' = Append(inFlight, x)
  /\ Unanswered

(* Lost on the way, or before it was sent. *)
Lose ==
  /\ \/ \E i \in 1 .. Len(inFlight) : inFlight' = RemoveAt(inFlight, i) /\ UNCHANGED asking
     \/ asking /\ ~asking' /\ UNCHANGED inFlight
  /\ Unanswered

Deliver ==
  /\ inFlight # << >>
  /\ out' = <<Head(inFlight)>>
  /\ inFlight' = Tail(inFlight)
  /\ UNCHANGED asking

Forget == out' = << >> /\ UNCHANGED <<asking, inFlight>>

FifoNext == Prepare \/ Ask \/ Lose \/ Deliver \/ Forget

FifoSpec == FifoInit /\ [][FifoNext]_fifoVars
=============================================================================
