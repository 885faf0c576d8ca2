------------------------- MODULE MessageQueueProofs ------------------------
(***************************************************************************)
(* Facts about the queues of MessageQueue, for every length and every set  *)
(* of messages.                                                            *)
(***************************************************************************)
EXTENDS MessageQueue, TLAPS

(* mq_send keeps a queue within its MaxMsg slots. *)
LEMMA SentType ==
  ASSUME NEW S, NEW q \in Queue(S), NEW m \in S
  PROVE  Sent(q, m) \in Queue(S)
  BY MaxMsgAssumption DEF Sent, Queue

(* mq_receive takes a message of the queue's kind and leaves such a queue. *)
LEMMA ReceivedType ==
  ASSUME NEW S, NEW q \in Queue(S), HasMessage(q)
  PROVE  Received(q) \in Queue(S) /\ Head(q) \in S
  BY MaxMsgAssumption DEF Received, HasMessage, Queue

LEMMA ReceivedShorter ==
  ASSUME NEW S, NEW q \in Queue(S), HasMessage(q)
  PROVE  Received(q) # q
<1>1. q \in Seq(S) /\ q # << >>
  BY DEF HasMessage, Queue
<1>2. Len(Tail(q)) = Len(q) - 1 /\ Len(q) \in Nat
  BY <1>1
<1>. QED
  BY <1>2 DEF Received

(* A destroyed queue is an empty one. *)
LEMMA EmptyType ==
  ASSUME NEW S
  PROVE  << >> \in Queue(S)
  BY MaxMsgAssumption DEF Queue
=============================================================================
