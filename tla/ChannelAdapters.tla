-------------------------- MODULE ChannelAdapters --------------------------
(***************************************************************************)
(* syncx.UnorderedChannel and OrderedChannel: a goroutine that forwards    *)
(* the values of in to out so that the sender does not wait for the        *)
(* receiver, and RingQueue, the growing buffer of the second.              *)
(*                                                                         *)
(* External: in and out are Go channels without a buffer.  offer says that *)
(* the sender is blocked in a send of the next value, wants that the       *)
(* receiver is blocked in a receive; a value passes when the forwarder     *)
(* meets either.  The values are 1, 2, 3, ... in the order sent, 0 is the  *)
(* zero value of T.                                                        *)
(*                                                                         *)
(* at is "recv" before the receive or the select that receives, "select"   *)
(* before UnorderedChannel's select, "drain" in the loop after in has been *)
(* closed, "send" before OrderedChannel's last send, "end" after close.    *)
(***************************************************************************)
EXTENDS Naturals, Sequences

CONSTANTS
  Size,        (* DefaultBuffSize, a power of two                          *)
  MaxValues    (* bound: values sent                                       *)

VARIABLES
  ordered,         (* the adapter in use                                   *)
  sent, offer,     (* the sender: values taken from it; is it blocked      *)
  inClosed,        (* has the sender closed in                             *)
  received, wants, (* the receiver: the values it got; is it blocked       *)
  outClosed,       (* has the forwarder closed out                         *)
  at, hand,        (* the forwarder: control point; the value it holds     *)
  buf,             (* UnorderedChannel: the slice                          *)
  ring             (* OrderedChannel: the RingQueue                        *)

vars == <<ordered, sent, offer, inClosed, received, wants, outClosed, at, hand,
          buf, ring>>
-----------------------------------------------------------------------------
(* RingQueue as a record; mask + 1 is the length of arr. *)

zero == 0
NewRingQueue ==
  [arr |-> [i \in 0 .. Size - 1 |-> zero], head |-> 0, tail |-> 0, size |-> 0,
   mask |-> Size - 1]

(* Mutant: the second half is copied over the start of the first. *)
GrowShort(q) ==
  LET cap == q.mask + 1
  IN  [arr  |-> [i \in 0 .. 2 * cap - 1 |->
                   IF q.head + i < cap THEN q.arr[q.head + i] ELSE zero],
       head |-> 0, tail |-> q.size, size |-> q.size, mask |-> 2 * cap - 1]
(* The half from head comes first, the half before tail behind it. *)
Grow(q) ==
  LET cap == q.mask + 1
      n   == cap - q.head
  IN  [arr  |-> [i \in 0 .. 2 * cap - 1 |->
                   IF i < n THEN q.arr[q.head + i]
                   ELSE IF i - n < q.tail THEN q.arr[i - n] ELSE zero],
       head |-> 0, tail |-> q.size, size |-> q.size, mask |-> 2 * cap - 1]

Push(q, x) ==
  LET r == IF q.size = q.mask + 1 THEN Grow(q) ELSE q
  IN  [r EXCEPT !.arr[r.tail] = x, !.tail = (@ + 1) % (r.mask + 1), !.size = @ + 1]
Peek(q) == q.arr[q.head]
(* Mutant: head is not masked. *)
PopUnmasked(q) ==
  [q EXCEPT !.arr[q.head] = zero, !.head = @ + 1, !.size = @ - 1]
Pop(q) ==
  [q EXCEPT !.arr[q.head] = zero, !.head = (@ + 1) % (q.mask + 1), !.size = @ - 1]

Contents(q) == [i \in 1 .. q.size |-> q.arr[(q.head + i - 1) % (q.mask + 1)]]
-----------------------------------------------------------------------------
Init ==
  /\ ordered \in BOOLEAN
  /\ sent = 0 /\ offer = FALSE /\ inClosed = FALSE
  /\ received = <<>> /\ wants = FALSE /\ outClosed = FALSE
  /\ at = "recv" /\ hand = zero /\ buf = <<>> /\ ring = NewRingQueue

Goto(from, to) == at = from /\ at' = to /\ UNCHANGED ordered

(* v, ok := <-in with ok *)
Take == offer /\ offer' = FALSE /\ sent' = sent + 1
(* out <- x *)
Give(x) == wants /\ wants' = FALSE /\ received' = Append(received, x)

Sender   == <<sent, offer, inClosed>>
Receiver == <<received, wants>>

(* UnorderedChannel, the body of its first loop. *)
Range ==
  /\ ~ordered /\ Goto("recv", "select") /\ Take /\ hand' = sent'
  /\ UNCHANGED <<inClosed, Receiver, outClosed, buf, ring>>
(* Mutant: a select without its default. *)
SendOrWait ==
  /\ Goto("select", "recv")
  /\ hand' = zero
  /\ Give(hand)
  /\ UNCHANGED <<Sender, outClosed, buf, ring>>
SendOrKeep ==
  /\ Goto("select", "recv")
  /\ hand' = zero
  /\ \/ Give(hand) /\ UNCHANGED buf
     \/ ~wants /\ buf' = Append(buf, hand) /\ UNCHANGED Receiver
  /\ UNCHANGED <<Sender, outClosed, ring>>
(* for _, v := range buf { out <- v } *)
Flush ==
  /\ ~ordered /\ buf # <<>> /\ Goto("drain", "drain") /\ Give(Head(buf))
  /\ buf' = Tail(buf)
  /\ UNCHANGED <<Sender, outClosed, hand, ring>>

(* OrderedChannel, the two cases of its select. *)
Receive ==
  /\ ordered /\ Goto("recv", "recv") /\ Take
  /\ ring' = Push(ring, sent')
  /\ UNCHANGED <<inClosed, Receiver, outClosed, hand, buf>>
(* Mutant: sendCh is out even if the queue is empty. *)
SendAlways ==
  /\ ordered /\ Goto("recv", "recv") /\ Give(Peek(ring))
  /\ ring' = IF ring.size = 0 THEN ring ELSE Pop(ring)
  /\ UNCHANGED <<Sender, outClosed, hand, buf>>
(* sendCh is nil, and the case never ready, while the queue is empty. *)
Send ==
  /\ ordered /\ ring.size > 0 /\ Goto("recv", "recv") /\ Give(Peek(ring))
  /\ ring' = Pop(ring)
  /\ UNCHANGED <<Sender, outClosed, hand, buf>>
PopLast ==
  /\ ordered /\ ring.size > 0 /\ Goto("drain", "send")
  /\ hand' = Peek(ring) /\ ring' = Pop(ring)
  /\ UNCHANGED <<Sender, Receiver, outClosed, buf>>
SendLast ==
  /\ Goto("send", "drain") /\ Give(hand) /\ hand' = zero
  /\ UNCHANGED <<Sender, outClosed, buf, ring>>

(* in is closed. *)
InputEnds ==
  /\ inClosed /\ Goto("recv", "drain")
  /\ UNCHANGED <<Sender, Receiver, outClosed, hand, buf, ring>>
(* close(out); the defer of OrderedChannel *)
CloseOut ==
  /\ buf = <<>> /\ ring.size = 0 /\ Goto("drain", "end") /\ outClosed' = TRUE
  /\ UNCHANGED <<Sender, Receiver, hand, buf, ring>>

Forward == \/ Range \/ SendOrKeep \/ Flush
           \/ Receive \/ Send \/ PopLast \/ SendLast
           \/ InputEnds \/ CloseOut

(* External: the sender and the receiver. *)
Offer ==
  /\ ~offer /\ ~inClosed /\ sent < MaxValues
  /\ offer' = TRUE
  /\ UNCHANGED <<ordered, sent, inClosed, Receiver, outClosed, at, hand, buf, ring>>
CloseIn ==
  /\ ~offer /\ ~inClosed /\ inClosed' = TRUE
  /\ UNCHANGED <<ordered, sent, offer, Receiver, outClosed, at, hand, buf, ring>>
Want ==
  /\ ~wants /\ ~outClosed /\ wants' = TRUE
  /\ UNCHANGED <<ordered, Sender, received, outClosed, at, hand, buf, ring>>
(* The receive returns the zero value and false. *)
ReceiveClosed ==
  /\ wants /\ outClosed /\ wants' = FALSE
  /\ UNCHANGED <<ordered, Sender, received, outClosed, at, hand, buf, ring>>

Next == Forward \/ Offer \/ CloseIn \/ Want \/ ReceiveClosed
Work == Forward \/ ReceiveClosed
Spec == Init /\ [][Next]_vars /\ WF_vars(Work)
-----------------------------------------------------------------------------
(* The values on their way, oldest first for OrderedChannel. *)
InHand    == IF at \in {"select", "send"} THEN <<hand>> ELSE <<>>
InTransit == IF ordered THEN InHand \o Contents(ring) ELSE buf \o InHand

TypeOK ==
  /\ sent \in 0 .. MaxValues /\ received \in Seq(1 .. sent)
  /\ {ordered, offer, inClosed, wants, outClosed} \subseteq BOOLEAN
  /\ at \in {"recv", "select", "drain", "send", "end"}
  /\ hand \in 0 .. sent /\ buf \in Seq(1 .. sent)
  /\ ring.arr \in [0 .. ring.mask -> 0 .. sent]
  /\ {ring.head, ring.tail} \subseteq 0 .. ring.mask
  /\ ring.size \in 0 .. ring.mask + 1
  /\ ring.tail = (ring.head + ring.size) % (ring.mask + 1)

(* Nothing is lost, duplicated or invented on the way, OrderedChannel      *)
(* keeps the order (channel_test.go:89), also when its ring grows after it *)
(* has wrapped, and out is closed only behind the last value.              *)
Conserved ==
  LET all == received \o InTransit
  IN  /\ Len(all) = sent
      /\ \A k \in 1 .. sent : \E i \in 1 .. sent : all[i] = k
      /\ ordered => \A i \in 1 .. sent : all[i] = i
      /\ outClosed => inClosed /\ InTransit = <<>>

(* The sender is never left blocked, whether or not anybody receives       *)
(* (channel_test.go:119), and the receiver only while there is nothing to  *)
(* receive.  UnorderedChannel gives the values it has kept only after in   *)
(* has been closed: until then its receiver may wait beside them.          *)
Settled ==
  /\ ~offer
  /\ wants => ~inClosed /\ (ordered => InTransit = <<>>)
=============================================================================
