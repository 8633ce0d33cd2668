-------------------------------- MODULE Demo --------------------------------
(***************************************************************************)
(* The two demo applications, src/demo/publish.c and src/demo/subscribe.c, *)
(* on one channel: the publisher sends all requests and then reads the     *)
(* replies, the subscriber sends all its data messages and then answers    *)
(* every request with an acknowledgement.                                  *)
(*                                                                         *)
(* The unit is the ring slot: a message of n bytes takes as many slots as  *)
(* axivc_message_try_write makes of it, a write blocks while its ring is   *)
(* full, and a read, once it has started, blocks until its message is      *)
(* complete (module Transfer).  Each side has its own timers, which know   *)
(* nothing of the other side: the driver's 30 s for a write that finds     *)
(* the ring full or a read that finds it empty in mid-message, and the     *)
(* polls the programs count while no message comes.  A guest may stop at   *)
(* any moment and leave what it has put into the rings.                    *)
(***************************************************************************)
EXTENDS Integers, Sequences

CONSTANTS
  RingCapacity,      \* AXIVC_RING_CAPACITY
  FragmentCapacity,  \* AXIVC_FRAGMENT_CAPACITY
  RequestLengths,    \* ivc_app_request_lengths
  DataLengths,       \* ivc_app_data_lengths
  AckLength,         \* IVC_APP_HEADER_LEN plus the length of ACK_BODY
  MaxEmptyPolls,     \* MAX_EMPTY_POLLS
  Publishers         \* the publishers tried: "publish.c", or "draining", one
                     \* that reads replies while it sends, as the comments of
                     \* subscribe.c assume

ASSUME DemoAssumption ==
  /\ RingCapacity \in Nat \ {0}
  /\ FragmentCapacity \in Nat \ {0}
  /\ RequestLengths \in Seq(Nat \ {0}) /\ RequestLengths # <<>>
  /\ DataLengths \in Seq(Nat \ {0}) /\ DataLengths # <<>>
  /\ AckLength \in 1 .. FragmentCapacity
  /\ MaxEmptyPolls \in Nat
  /\ Publishers \subseteq {"publish.c", "draining"}

VARIABLES
  requests,   \* the publisher-to-subscriber ring
  replies,    \* the subscriber-to-publisher ring
  pubTx,      \* the publisher's writes: message and slots of it sent
  pub,        \* the publisher's phase, expected sequence numbers, read
  subTx,      \* the subscriber's writes
  sub,        \* the subscriber's phase, number of requests answered, read
  publisher,  \* which publisher it is; it does not change
  early       \* history: a timer ran out while a program could still go on

vars == <<requests, replies, pubTx, pub, subTx, sub, publisher, early>>

RequestCount == Len(RequestLengths)
DataCount == Len(DataLengths)

(* ivc_app_encode_header: kind, sequence and length.                       *)
Message(kind, seq, len) == [kind |-> kind, seq |-> seq, len |-> len]

(* What each side writes, in order.                                        *)
Request(i) == Message("REQUEST", i, RequestLengths[i])
Data(i) == Message("DATA", i, DataLengths[i])
Ack(i) == Message("ACK", i, AckLength)

(* The number of slots a message takes.                                    *)
Slots(m) == (m.len + FragmentCapacity - 1) \div FragmentCapacity

Full(ring) == Len(ring) >= RingCapacity
LastSlot(m, sent) == sent + 1 = Slots(m)
SlotOf(m, sent) ==
  [message |-> m, last |-> LastSlot(m, sent), abort |-> FALSE]
AbortOf(m) == [message |-> m, last |-> FALSE, abort |-> TRUE]

(* struct ivc_app_message, and the slots that carry it.                    *)
Msg == [kind : {"REQUEST", "DATA", "ACK"}, seq : Nat, len : Nat]
Slot == [message : Msg, last : BOOLEAN, abort : BOOLEAN]

(* "abort": in axivc_abort_send;  "stopped": the guest is gone;  "pass":   *)
(* both loops are through, what main does then is in module DemoMain.      *)
(* inside: a read has part of a message;  polls: empty_polls.              *)
Publisher ==
  [pc : {"running", "abort", "pass", "fail", "invalid", "stopped"},
   ack : 1 .. (RequestCount + 1), data : 1 .. (DataCount + 1),
   inside : BOOLEAN, polls : 0 .. MaxEmptyPolls]

Subscriber ==
  [pc : {"data", "receive", "ack", "abort", "pass", "fail", "invalid",
         "stopped"},
   received : 0 .. RequestCount, inside : BOOLEAN, polls : 0 .. MaxEmptyPolls]

TypeOK ==
  /\ requests \in Seq(Slot) /\ Len(requests) <= RingCapacity
  /\ replies \in Seq(Slot) /\ Len(replies) <= RingCapacity
  /\ pubTx \in [next : 1 .. (RequestCount + 1), sent : Nat]
  /\ pub \in Publisher
  /\ subTx \in [next : 1 .. (DataCount + 1), sent : Nat]
  /\ sub \in Subscriber
  /\ publisher \in Publishers
  /\ early \in BOOLEAN

Init ==
  /\ requests = <<>>
  /\ replies = <<>>
  /\ pubTx = [next |-> 1, sent |-> 0]
  /\ pub = [pc |-> "running", ack |-> 1, data |-> 1, inside |-> FALSE,
            polls |-> 0]
  /\ subTx = [next |-> 1, sent |-> 0]
  /\ sub = [pc |-> "data", received |-> 0, inside |-> FALSE, polls |-> 0]
  /\ publisher \in Publishers
  /\ early = FALSE

-----------------------------------------------------------------------------
(* Who can go on without waiting for the other side.                       *)

(* send_requests is inside a write.                                        *)
PubSending == pub.pc = "running" /\ pubTx.next <= RequestCount

\* Mutant: a publisher that drains replies only when it has sent everything.
PubReadingLate ==
  pub.pc = "running" /\ pub.ack <= RequestCount /\ ~PubSending

(* receive_replies reads the reply ring: after send_requests, unless the   *)
(* publisher is one that drains concurrently.                              *)
PubReading ==
  /\ pub.pc = "running"
  /\ pub.ack <= RequestCount
  /\ publisher = "draining" \/ ~PubSending

PubCanMove ==
  \/ PubSending /\ ~Full(requests)
  \/ PubReading /\ replies # <<>>
  \/ pub.pc = "running" /\ ~PubSending /\ pub.ack > RequestCount

SubCanMove ==
  \/ sub.pc \in {"data", "ack"} /\ ~Full(replies)
  \/ sub.pc = "receive" /\ requests # <<>>

PubDone == pub.pc \notin {"running", "abort"}
SubDone == sub.pc \notin {"data", "receive", "ack", "abort"}

(* The history of a timer that runs out now.                               *)
TimerEnds == early' = (early \/ PubCanMove \/ SubCanMove)

-----------------------------------------------------------------------------
(* publish.c.                                                              *)

(* The writer's position after one more slot of message m went out.        *)
Advance(tx, m) ==
  IF LastSlot(m, tx.sent) THEN [next |-> tx.next + 1, sent |-> 0]
                          ELSE [tx EXCEPT !.sent = @ + 1]

\* One slot of ivc_publisher_send.
PubSend ==
  LET m == Request(pubTx.next)
  IN  /\ PubSending
      /\ ~Full(requests)
      /\ requests' = Append(requests, SlotOf(m, pubTx.sent))
      /\ pubTx' = Advance(pubTx, m)
      /\ UNCHANGED <<replies, pub, subTx, sub, publisher, early>>

\* The ring stays full until the deadline of the write.
PubWriteTimeout ==
  /\ PubSending
  /\ Full(requests)
  /\ pub' = [pub EXCEPT !.pc = "abort"]
  /\ TimerEnds
  /\ UNCHANGED <<requests, replies, pubTx, subTx, sub, publisher>>

\* axivc_abort_send, and the failed write ends the program: nothing of the
\* message is out, or ABORT goes out, or the ring stays full.
PubAbort ==
  /\ pub.pc = "abort"
  /\ requests' = IF pubTx.sent = 0 \/ Full(requests) THEN requests
                 ELSE Append(requests, AbortOf(Request(pubTx.next)))
  /\ pub' = [pub EXCEPT !.pc = "fail"]
  /\ UNCHANGED <<replies, pubTx, subTx, sub, publisher, early>>

(* receive_replies accepts message m: acknowledgements and data count up   *)
(* separately, and the data are complete before the last acknowledgement.  *)
ReplyOK(m) ==
  \/ /\ m.kind = "ACK"
     /\ m.seq = pub.ack
     /\ pub.ack = RequestCount => pub.data = DataCount + 1
  \/ /\ m.kind = "DATA"
     /\ pub.data <= DataCount
     /\ m = Data(pub.data)

(* The publisher after a slot: ABORT fails the read, the last slot hands   *)
(* over the message, which ends the wait.                                  *)
PubAfter(slot) ==
  LET m == slot.message
      through == [pub EXCEPT !.inside = FALSE, !.polls = 0]
  IN  IF slot.abort THEN [pub EXCEPT !.pc = "fail"]
      ELSE IF ~slot.last THEN [pub EXCEPT !.inside = TRUE]
      ELSE IF ~ReplyOK(m) THEN [pub EXCEPT !.pc = "invalid"]
      ELSE IF m.kind = "ACK" THEN [through EXCEPT !.ack = @ + 1]
      ELSE [through EXCEPT !.data = @ + 1]

\* One slot of ivc_publisher_recv.
PubTake ==
  /\ PubReading
  /\ replies # <<>>
  /\ replies' = Tail(replies)
  /\ pub' = PubAfter(Head(replies))
  /\ UNCHANGED <<requests, pubTx, subTx, sub, publisher, early>>

\* No message: receive_replies polls again, or has polled often enough.
PubPoll ==
  /\ PubReading
  /\ replies = <<>>
  /\ ~pub.inside
  /\ IF pub.polls < MaxEmptyPolls
     THEN pub' = [pub EXCEPT !.polls = @ + 1] /\ UNCHANGED early
     ELSE pub' = [pub EXCEPT !.pc = "fail"] /\ TimerEnds
  /\ UNCHANGED <<requests, replies, pubTx, subTx, sub, publisher>>

\* The ring stays empty in mid-message until the deadline of the read.
PubReadTimeout ==
  /\ PubReading
  /\ replies = <<>>
  /\ pub.inside
  /\ pub' = [pub EXCEPT !.pc = "fail"]
  /\ TimerEnds
  /\ UNCHANGED <<requests, replies, pubTx, subTx, sub, publisher>>

\* Mutant: the loop ends with the last reply still to come.
PubPassShort ==
  /\ pub.pc = "running"
  /\ ~PubSending
  /\ pub.ack >= RequestCount
  /\ pub' = [pub EXCEPT !.pc = "pass"]
  /\ UNCHANGED <<requests, replies, pubTx, subTx, sub, publisher, early>>

\* Both loops are through, on the way to "linux ivc publisher pass".
PubPass ==
  /\ pub.pc = "running"
  /\ ~PubSending
  /\ pub.ack > RequestCount
  /\ pub' = [pub EXCEPT !.pc = "pass"]
  /\ UNCHANGED <<requests, replies, pubTx, subTx, sub, publisher, early>>

\* The publisher's guest stops.
PubStop ==
  /\ ~PubDone
  /\ pub' = [pub EXCEPT !.pc = "stopped"]
  /\ UNCHANGED <<requests, replies, pubTx, subTx, sub, publisher, early>>

-----------------------------------------------------------------------------
(* subscribe.c.                                                            *)

\* Mutant: the last data message is left out.
SubSendDataShort ==
  LET m == Data(subTx.next)
      tx == Advance(subTx, m)
  IN  /\ sub.pc = "data"
      /\ ~Full(replies)
      /\ replies' = Append(replies, SlotOf(m, subTx.sent))
      /\ subTx' = tx
      /\ sub' = [sub EXCEPT !.pc = IF tx.next >= DataCount THEN "receive"
                                                           ELSE "data"]
      /\ UNCHANGED <<requests, pubTx, pub, publisher, early>>

\* One slot of ivc_subscriber_send in send_data_messages.
SubSendData ==
  LET m == Data(subTx.next)
      tx == Advance(subTx, m)
  IN  /\ sub.pc = "data"
      /\ ~Full(replies)
      /\ replies' = Append(replies, SlotOf(m, subTx.sent))
      /\ subTx' = tx
      /\ sub' = [sub EXCEPT !.pc = IF tx.next > DataCount THEN "receive"
                                                          ELSE "data"]
      /\ UNCHANGED <<requests, pubTx, pub, publisher, early>>

\* The ring stays full until the deadline of a write.
SubWriteTimeout ==
  /\ sub.pc \in {"data", "ack"}
  /\ Full(replies)
  /\ sub' = [sub EXCEPT !.pc = "abort"]
  /\ TimerEnds
  /\ UNCHANGED <<requests, replies, pubTx, pub, subTx, publisher>>

\* axivc_abort_send.  An acknowledgement is one slot: nothing of it is out.
SubAbort ==
  /\ sub.pc = "abort"
  /\ replies' = IF subTx.sent = 0 \/ Full(replies) THEN replies
                ELSE Append(replies, AbortOf(Data(subTx.next)))
  /\ sub' = [sub EXCEPT !.pc = "fail"]
  /\ UNCHANGED <<requests, pubTx, pub, subTx, publisher, early>>

(* The subscriber after a slot; the last one hands over the message, which *)
(* must be the next request.                                               *)
SubAfter(slot) ==
  IF slot.abort THEN [sub EXCEPT !.pc = "fail"]
  ELSE IF ~slot.last THEN [sub EXCEPT !.inside = TRUE]
  ELSE IF slot.message # Request(sub.received + 1)
       THEN [sub EXCEPT !.pc = "invalid"]
  ELSE [sub EXCEPT !.pc = "ack", !.inside = FALSE, !.polls = 0]

\* One slot of ivc_subscriber_recv in receive_requests.
SubTake ==
  /\ sub.pc = "receive"
  /\ requests # <<>>
  /\ requests' = Tail(requests)
  /\ sub' = SubAfter(Head(requests))
  /\ UNCHANGED <<replies, pubTx, pub, subTx, publisher, early>>

\* Mutant: the count of empty polls starts again with every poll.
SubPollReset ==
  /\ sub.pc = "receive"
  /\ requests = <<>>
  /\ ~sub.inside
  /\ sub' = [sub EXCEPT !.polls = 0]
  /\ UNCHANGED <<requests, replies, pubTx, pub, subTx, publisher, early>>

\* No message: receive_requests polls again, or has polled often enough.
SubPoll ==
  /\ sub.pc = "receive"
  /\ requests = <<>>
  /\ ~sub.inside
  /\ IF sub.polls < MaxEmptyPolls
     THEN sub' = [sub EXCEPT !.polls = @ + 1] /\ UNCHANGED early
     ELSE sub' = [sub EXCEPT !.pc = "fail"] /\ TimerEnds
  /\ UNCHANGED <<requests, replies, pubTx, pub, subTx, publisher>>

\* The ring stays empty in mid-message until the deadline of the read.
SubReadTimeout ==
  /\ sub.pc = "receive"
  /\ requests = <<>>
  /\ sub.inside
  /\ sub' = [sub EXCEPT !.pc = "fail"]
  /\ TimerEnds
  /\ UNCHANGED <<requests, replies, pubTx, pub, subTx, publisher>>

\* send_ack; with the last one both loops are through.
SubAck ==
  LET n == sub.received + 1
  IN  /\ sub.pc = "ack"
      /\ ~Full(replies)
      /\ replies' = Append(replies, SlotOf(Ack(n), 0))
      /\ sub' = [sub EXCEPT !.pc = IF n = RequestCount THEN "pass"
                                                       ELSE "receive",
                           !.received = n]
      /\ UNCHANGED <<requests, pubTx, pub, subTx, publisher, early>>

\* The subscriber's guest stops.
SubStop ==
  /\ ~SubDone
  /\ sub' = [sub EXCEPT !.pc = "stopped"]
  /\ UNCHANGED <<requests, replies, pubTx, pub, subTx, publisher, early>>

-----------------------------------------------------------------------------
PubStep ==
  \/ PubSend
  \/ PubWriteTimeout
  \/ PubAbort
  \/ PubTake
  \/ PubPoll
  \/ PubReadTimeout
  \/ PubPass

SubStep ==
  \/ SubSendData
  \/ SubWriteTimeout
  \/ SubAbort
  \/ SubTake
  \/ SubPoll
  \/ SubReadTimeout
  \/ SubAck

Next ==
  \/ PubStep
  \/ SubStep
  \/ PubStop
  \/ SubStop
  \/ PubDone /\ SubDone /\ UNCHANGED vars

(* Each program keeps running, on its own, until it ends or is stopped.    *)
Spec == Init /\ [][Next]_vars /\ WF_vars(PubStep) /\ WF_vars(SubStep)

-----------------------------------------------------------------------------
(* The two applications never wait for each other: subscribe.c:179 says    *)
(* that the data messages go out "while the peer concurrently drains the   *)
(* reply ring. This proves full-duplex progress and ring backpressure".    *)
FullDuplexProgress ==
  pub.pc = "running" /\ sub.pc \in {"data", "receive", "ack"} =>
    PubCanMove \/ SubCanMove

(* Neither application ever sees a message it does not expect, although    *)
(* data and acknowledgements share the reply ring and either side may give *)
(* up in mid-message (publish.c:77-154, subscribe.c:86-115).               *)
OnlyExpectedMessages == TypeOK /\ pub.pc # "invalid" /\ sub.pc # "invalid"

(* "linux ivc publisher pass" (publish.c:216) vouches for both programs:   *)
(* the subscriber has had and answered every request and is through with   *)
(* its loops too, whatever timers ran out and whoever was stopped.         *)
PassIsMutual == pub.pc = "pass" => sub.pc = "pass"

(* Whatever the other side does, also if it stops in mid-message, each     *)
(* application comes to an end: a full or an empty ring only delays it     *)
(* until one of its own timers runs out (publish.c:63-75,                  *)
(* subscribe.c:91-104, ivc.c:527, ivc.c:611).                              *)
BothEnd == <>(PubDone /\ SubDone)

(* With a draining publisher the demo ends with both sides reporting       *)
(* success, unless a guest stops or a timer is too short for a side that   *)
(* could still go on: neither side's blocking writes keep it from the      *)
(* reads the other waits for (subscribe.c:179).                            *)
BothPass ==
  publisher = "draining" ~>
    \/ pub.pc = "pass" /\ sub.pc = "pass"
    \/ early
    \/ "stopped" \in {pub.pc, sub.pc}
=============================================================================
