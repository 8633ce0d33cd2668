------------------------------ MODULE LibivcIo ------------------------------
(***************************************************************************)
(* Sending and receiving through libivc (src/userspace/ivc/ivc_ulib.c) and *)
(* the Python binding: what the applications at the two ends of one        *)
(* direction are told.  The kernel's side is the MessageChannel that       *)
(* Transfer is shown to implement.  The sizes are of three widths: size_t  *)
(* for a buffer, int for a result, and at most MaxRw bytes for one         *)
(* read(2) or write(2), which the kernel cuts without an error             *)
(* (MAX_RW_COUNT, a page less than 2^31).                                  *)
(***************************************************************************)
EXTENDS Integers, Sequences

CONSTANTS
  IntMax,     \* INT_MAX
  MaxRw,      \* MAX_RW_COUNT
  Counts,     \* the sizes of the applications' buffers
  MaxCalls    \* bound on the calls of send

ASSUME LibivcIoAssumption ==
  /\ IntMax \in Nat /\ MaxRw \in 1 .. (IntMax - 1)
  /\ Counts \subseteq Nat
  /\ MaxCalls \in Nat

VARIABLES
  accepted, delivered, writable, readable,   \* the channel
  sends,            \* the calls of send so far: buffer size and result
  bytes_sent,       \* of the sending endpoint
  bytes_received    \* of the receiving endpoint

channel == <<accepted, delivered, writable, readable>>
ioVars == <<channel, sends, bytes_sent, bytes_received>>

(* The first len bytes of the buffer of the n-th send.                     *)
Message == [n : 1 .. MaxCalls, len : 1 .. MaxRw]

Channel == INSTANCE MessageChannel

Cap(count) == IF count > MaxRw THEN MaxRw ELSE count

(* (int) of a size_t.                                                      *)
ToInt(x) ==
  LET low == x % (2 * IntMax + 2)
  IN  IF low > IntMax THEN low - (2 * IntMax + 2) ELSE low

IoTypeOK ==
  /\ accepted \in Seq(Message) /\ delivered \in Seq(Message)
  /\ writable \in BOOLEAN /\ readable \in BOOLEAN
  /\ sends \in Seq([count : Counts, result : -1 .. IntMax])
  /\ bytes_sent \in Nat
  /\ bytes_received \in Nat

IoInit ==
  /\ Channel!Init
  /\ sends = <<>>
  /\ bytes_sent = 0
  /\ bytes_received = 0

-----------------------------------------------------------------------------
(* ivc_publisher_send and ivc_subscriber_send                              *)

Returns(count, result) ==
  sends' = Append(sends, [count |-> count, result |-> result])

\* Mutant: only the empty message is refused.
SendRefusesEmpty(count) == count = 0

(* EOPNOTSUPP, EMSGSIZE                                                    *)
SendRefuses(count) == count = 0 \/ count > IntMax

\* Refused, or write failed and maybe broke the sending end.
SendError(count) ==
  /\ Len(sends) < MaxCalls
  /\ \/ UNCHANGED channel
     \/ ~SendRefuses(count) /\ Channel!BreakWriter
  /\ Returns(count, -1)
  /\ UNCHANGED <<bytes_sent, bytes_received>>

\* write succeeded; a short one is EIO and not retried.
SendWrite(count) ==
  /\ Len(sends) < MaxCalls /\ ~SendRefuses(count)
  /\ Channel!Accept([n |-> Len(sends) + 1, len |-> Cap(count)])
  /\ IF Cap(count) = ToInt(count)
     THEN bytes_sent' = bytes_sent + Cap(count) /\ Returns(count, Cap(count))
     ELSE bytes_sent' = bytes_sent /\ Returns(count, -1)
  /\ UNCHANGED bytes_received

-----------------------------------------------------------------------------
(* ivc_publisher_recv and ivc_subscriber_recv.  A call that finds no       *)
(* message (0), a message too long for the buffer, or a size it refuses    *)
(* changes nothing.                                                        *)

RecvRefuses(count) == count = 0 \/ count > IntMax

\* Mutant: the buffer must be longer than the message.
FitsWithRoom(count) ==
  /\ Len(delivered) < Len(accepted)
  /\ accepted[Len(delivered) + 1].len < Cap(count)

Fits(count) ==
  /\ Len(delivered) < Len(accepted)
  /\ accepted[Len(delivered) + 1].len <= Cap(count)

Recv(count) ==
  /\ ~RecvRefuses(count) /\ Fits(count)
  /\ Channel!Deliver
  /\ bytes_received' = bytes_received + ToInt(accepted[Len(delivered) + 1].len)
  /\ UNCHANGED <<sends, bytes_sent>>

\* The binding raises ValueError before it allocates a buffer.
PyRecvRejects(max_bytes) == max_bytes = 0 \/ max_bytes > IntMax

PyRecv(max_bytes) == ~PyRecvRejects(max_bytes) /\ Recv(max_bytes)

\* read failed for good.
RecvError ==
  /\ readable
  /\ Channel!BreakReader
  /\ UNCHANGED <<sends, bytes_sent, bytes_received>>

-----------------------------------------------------------------------------
IoNext ==
  \/ \E count \in Counts :
       SendError(count) \/ SendWrite(count) \/ Recv(count) \/ PyRecv(count)
  \/ RecvError

IoSpec ==
  IoInit /\ [][IoNext]_ioVars /\ WF_ioVars(\E count \in Counts : Recv(count))

-----------------------------------------------------------------------------
Total(s) ==
  LET sum[k \in 0 .. Len(s)] == IF k = 0 THEN 0 ELSE sum[k - 1] + s[k]
  IN  sum[Len(s)]

(* The accepted messages' lengths: 0 for the delivered, for the uncut.      *)
OnTheWay ==
  [k \in 1 .. Len(accepted) |->
     IF k > Len(delivered) THEN accepted[k].len ELSE 0]
Cut ==
  [k \in 1 .. Len(accepted) |->
     IF sends[accepted[k].n].result = -1 THEN accepted[k].len ELSE 0]

(* The byte counters of the two ends agree up to what is on the way and    *)
(* what was cut.                                                           *)
CountersAgree == bytes_received + Total(OnTheWay) = bytes_sent + Total(Cut)

(* A send that reports success has put one message of exactly the buffer's *)
(* size into the channel.  A message whose send reported failure is one    *)
(* that the kernel has cut; the cast of the result to int never takes a    *)
(* cut message for a whole one, and the byte counters do not count it      *)
(* (ivc_ulib.c:177, 193-225, 354, 369-401).                                *)
ReportIsTrue ==
  /\ IoTypeOK
  /\ \A n \in DOMAIN sends : sends[n].result # -1 =>
       /\ sends[n].result = sends[n].count
       /\ \E k \in DOMAIN accepted :
            {j \in DOMAIN accepted : accepted[j].n = n} = {k}
  /\ \A k \in DOMAIN accepted :
       accepted[k].len # sends[accepted[k].n].count =>
         sends[accepted[k].n].result = -1 /\ accepted[k].len = MaxRw
  /\ CountersAgree

(* Whatever send lets through, a receiver that keeps trying buffers up to  *)
(* INT_MAX can take, unless its end breaks (ivc_ulib.c:163, 340).          *)
SentIsReceivable ==
  \A k \in 1 .. MaxCalls :
    Len(accepted) >= k ~> Len(delivered) >= k \/ ~readable
=============================================================================
