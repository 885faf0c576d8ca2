---------------------------- MODULE MessageQueue ----------------------------
(***************************************************************************)
(* The POSIX message queues of the program, as src/src/message.c uses      *)
(* them: opened O_NONBLOCK with mq_maxmsg slots (main, open_queues), every *)
(* message sent with priority 1, so a queue is a FIFO that refuses a       *)
(* message when it is full (mq_send returns -1, the sender prints "Unable  *)
(* to send" and goes on) and an empty one never blocks its reader.         *)
(***************************************************************************)
EXTENDS Naturals, Sequences

CONSTANT MaxMsg    \* attr.mq_maxmsg, 10 in main()

ASSUME MaxMsgAssumption == MaxMsg \in Nat \ {0}

(* MUTANT: mq_send() to a queue of unlimited length. *)
SentUnbounded(q, m) == Append(q, m)

(* What q holds after mq_send(q, m): m is lost when there is no room. *)
Sent(q, m) == IF Len(q) < MaxMsg THEN Append(q, m) ELSE q

(* What q holds after mq_receive(q), and whether there was a message. *)
HasMessage(q) == q # << >>
Received(q) == Tail(q)

(* The contents of a queue of messages from S. *)
Queue(S) == {q \in Seq(S) : Len(q) <= MaxMsg}
=============================================================================
