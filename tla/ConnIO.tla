------------------------------- MODULE ConnIO --------------------------------
(***************************************************************************)
(* One established connection of a MsgNetwork: the worker's socket         *)
(* callbacks _send_data and _recv_data with their masking of events, the   *)
(* framing in on_read, the bounded queue to the user's thread and the poll *)
(* timer that retries a full queue.  A worker step is one iteration of one *)
(* of the loops, so that the user's thread and the network run in between. *)
(* The TLS variants of the callbacks differ in the calls that move bytes.  *)
(***************************************************************************)
EXTENDS Naturals, Sequences, SequencesExt

CONSTANTS
  Inbound,      \* messages to receive: a sequence of [len, ok]; ok says if the checksum matches
  Outbound,     \* the sizes of the messages the user sends, a sequence
  HeaderSize, ChunkSize, MaxRecv, MaxMsgSize, QueueCap,
  KernelOut     \* bytes the socket takes before it blocks

VARIABLES
  arrived, got, \* bytes that reached the socket; bytes recv has returned
  recv_buffer, msg_state, msg, msg_sleep, poll,   \* poll: ev_enqueue_poll is set
  incoming, handled,                              \* queue to the user; messages the handlers got
  pushed, send_buffer, notified, sent, flight,    \* flight: bytes sent that the peer has not taken
  mask, ready_send, ready_recv,                   \* mask: what ev_socket waits for
  pc,                                             \* the callback the worker is in
  guarded                                         \* it is the callback of ev_socket, which catches exceptions
in == <<arrived, got, recv_buffer, msg_state, msg, msg_sleep, poll>>
queue == <<incoming, handled>>
out == <<pushed, send_buffer, notified, sent, flight>>
vars == <<in, queue, out, mask, ready_send, ready_recv, pc, guarded>>

-----------------------------------------------------------------------------
(* SegBuffer: bytes kept in the segments they came in.                    *)

\* The bytes of a buffer, in order.
Bytes(buf) == FlattenSeq(buf)
Size(buf) == Len(Bytes(buf))
\* len(): the number of segments.
SegCount(buf) == Len(buf)

Push(buf, data) == Append(buf, data)
Rewind(buf, data) == <<data>> \o buf

\* pop(len): takes len bytes off the front, or all there are; a segment goes
\* when it is used up, and only its offset moves when it is not.
RECURSIVE Pop(_, _)
Pop(buf, n) ==
  IF n = 0 \/ buf = <<>> THEN [data |-> <<>>, rest |-> buf]
  ELSE LET seg == Head(buf)
           k == IF Len(seg) < n THEN Len(seg) ELSE n
           more == IF k = Len(seg) THEN Pop(Tail(buf), n - k)
                   ELSE [data |-> <<>>, rest |-> <<SubSeq(seg, k + 1, Len(seg))>> \o Tail(buf)]
       IN [data |-> SubSeq(seg, 1, k) \o more.data, rest |-> more.rest]
-----------------------------------------------------------------------------
\* The stream of bytes 1..Total that the inbound messages make.
FrameStart[i \in 1..Len(Inbound) + 1] ==
  IF i = 1 THEN 1 ELSE FrameStart[i - 1] + HeaderSize + Inbound[i - 1].len
Total == FrameStart[Len(Inbound) + 1] - 1
Interval(a, n) == [j \in 1..n |-> a + j - 1]
\* What a message's bytes mean to the parser; bytes that are not a header read as garbage.
FrameAt(hdr) == {i \in 1..Len(Inbound) : hdr = Interval(FrameStart[i], HeaderSize)}
LengthOf(hdr) == IF FrameAt(hdr) = {} THEN 0 ELSE Inbound[CHOOSE i \in FrameAt(hdr) : TRUE].len
ChecksumOk(hdr, payload) ==
  \E i \in FrameAt(hdr) : Inbound[i].ok /\ payload = Interval(FrameStart[i] + HeaderSize, Inbound[i].len)

\* The bytes of outbound message i, numbered over all of them.
OutStart[i \in 1..Len(Outbound) + 1] == IF i = 1 THEN 1 ELSE OutStart[i - 1] + Outbound[i - 1]
OutBytes(i) == Interval(OutStart[i], Outbound[i])
OutTotal == OutStart[Len(Outbound) + 1] - 1

Init ==
  /\ arrived = 0 /\ got = 0 /\ recv_buffer = <<>> /\ msg_state = "HEADER" /\ msg = [hdr |-> <<>>, payload |-> <<>>]
  /\ msg_sleep = FALSE /\ poll = FALSE /\ incoming = <<>> /\ handled = <<>>
  /\ pushed = 0 /\ send_buffer = <<>> /\ notified = FALSE /\ sent = <<>> /\ flight = 0
  /\ mask = {"READ", "WRITE"}   \* the call update_conn makes when the connection is set up
  /\ ready_send = FALSE /\ ready_recv = FALSE /\ pc = "loop" /\ guarded = FALSE

\* The network and the peer (outside the program).
Arrive == /\ arrived < Total /\ \E n \in 1..(Total - arrived) : arrived' = arrived + n
          /\ UNCHANGED <<got, recv_buffer, msg_state, msg, msg_sleep, poll, queue, out, mask, ready_send, ready_recv, pc, guarded>>
Drain == /\ flight > 0 /\ flight' = 0
         /\ UNCHANGED <<in, queue, pushed, send_buffer, notified, sent, mask, ready_send, ready_recv, pc, guarded>>

\* The user's thread: write, and the handler of incoming_msgs.
Write ==
  /\ pushed < Len(Outbound) /\ pushed' = pushed + 1
  /\ send_buffer' = Push(send_buffer, OutBytes(pushed + 1)) /\ notified' = TRUE
  /\ UNCHANGED <<in, queue, sent, flight, mask, ready_send, ready_recv, pc, guarded>>
Handle ==
  /\ incoming # <<>> /\ handled' = Append(handled, Head(incoming)) /\ incoming' = Tail(incoming)
  /\ UNCHANGED <<in, out, mask, ready_send, ready_recv, pc, guarded>>

-----------------------------------------------------------------------------
Readable == got < arrived
\* The callback of ev_socket: READ goes before WRITE.
ReadEvent == /\ pc = "loop" /\ "READ" \in mask /\ Readable /\ pc' = "recv" /\ guarded' = TRUE
             /\ UNCHANGED <<in, queue, out, mask, ready_send, ready_recv>>
WriteEvent == /\ pc = "loop" /\ "WRITE" \in mask /\ flight < KernelOut /\ ~("READ" \in mask /\ Readable)
              /\ pc' = "send" /\ UNCHANGED <<in, queue, out, mask, ready_send, ready_recv, guarded>>

\* The handler of the send queue.
QueueEvent ==
  /\ pc = "loop" /\ notified /\ notified' = FALSE
  /\ IF ready_send
     THEN mask' = (IF ready_recv THEN {} ELSE {"READ"}) \cup {"WRITE"} /\ pc' = "send"
     ELSE UNCHANGED <<mask, pc>>
  /\ UNCHANGED <<in, queue, pushed, send_buffer, sent, flight, ready_send, ready_recv, guarded>>

\* One round of the loop of _send_data; the socket takes k bytes.
SendStep ==
  /\ pc = "send" /\ send_buffer # <<>>
  /\ LET seg == Head(send_buffer) IN
     \E k \in 0..Len(seg) :
       /\ flight + k <= KernelOut /\ (k < Len(seg) => flight + k = KernelOut)
       /\ flight' = flight + k /\ sent' = sent \o SubSeq(seg, 1, k)
       /\ IF k = Len(seg) THEN send_buffer' = Tail(send_buffer) /\ UNCHANGED <<ready_send, pc>>
          ELSE /\ send_buffer' = Rewind(Tail(send_buffer), SubSeq(seg, k + 1, Len(seg)))
               /\ ready_send' = FALSE /\ pc' = "loop"
  /\ UNCHANGED <<in, queue, pushed, notified, mask, ready_recv, guarded>>

\* Nothing is left to send: WRITE is masked.
SendDone ==
  /\ pc = "send" /\ send_buffer = <<>>
  /\ mask' = (IF ready_recv THEN {} ELSE {"READ"}) /\ ready_send' = TRUE /\ pc' = "loop"
  /\ UNCHANGED <<in, queue, out, ready_recv, guarded>>

\* recv_buffer is full: READ is masked, and on_read is not called.
RecvFull ==
  /\ pc = "recv" /\ SegCount(recv_buffer) >= MaxRecv
  /\ mask' = (IF ready_send THEN {} ELSE {"WRITE"}) /\ ready_recv' = TRUE /\ pc' = "loop"
  /\ UNCHANGED <<in, queue, out, ready_send, guarded>>

\* One round of the loop of _recv_data: a full chunk goes round again, a short
\* one or none goes on to on_read.
RecvChunk ==
  /\ pc = "recv" /\ SegCount(recv_buffer) < MaxRecv
  /\ LET n == IF arrived - got < ChunkSize THEN arrived - got ELSE ChunkSize IN
     /\ recv_buffer' = IF n = 0 THEN recv_buffer ELSE Push(recv_buffer, Interval(got + 1, n))
     /\ got' = got + n
     /\ IF n = ChunkSize THEN UNCHANGED <<pc, ready_recv>>
        ELSE ready_recv' = FALSE /\ pc' = (IF msg_sleep THEN "loop" ELSE "read")
  /\ UNCHANGED <<arrived, msg_state, msg, msg_sleep, poll, queue, out, mask, ready_send, guarded>>

-----------------------------------------------------------------------------
\* The end of on_read: reading goes on if it had been masked and there is room.
Resume(buf) ==
  IF ready_recv /\ SegCount(buf) < MaxRecv
  THEN mask' = {"READ"} \cup (IF ready_send THEN {} ELSE {"WRITE"}) /\ pc' = "recv"
  ELSE pc' = "loop" /\ UNCHANGED mask

\* A header is there; the exception of an oversized
\* message ends the connection, or the worker's thread if nothing catches it.
ReadHeader ==
  /\ pc = "read" /\ msg_state = "HEADER"
  /\ IF Size(recv_buffer) < HeaderSize
     THEN Resume(recv_buffer) /\ UNCHANGED <<recv_buffer, msg, msg_state>>
     ELSE LET p == Pop(recv_buffer, HeaderSize) IN
          /\ msg' = [hdr |-> p.data, payload |-> <<>>] /\ recv_buffer' = p.rest
          /\ msg_state' = "PAYLOAD" /\ UNCHANGED mask
          /\ pc' = IF LengthOf(p.data) <= MaxMsgSize THEN pc ELSE IF guarded THEN "terminated" ELSE "crashed"
  /\ UNCHANGED <<arrived, got, msg_sleep, poll, queue, out, ready_send, ready_recv, guarded>>

\* The message of a full queue is forgotten.
MutReadPayload ==
  /\ pc = "read" /\ msg_state = "PAYLOAD"
  /\ LET len == LengthOf(msg.hdr) p == Pop(recv_buffer, len) m == [msg EXCEPT !.payload = p.data] IN
     IF Size(recv_buffer) < len
     THEN Resume(recv_buffer) /\ UNCHANGED <<recv_buffer, msg, msg_state, incoming, msg_sleep, poll>>
     ELSE /\ recv_buffer' = p.rest /\ msg' = m /\ msg_state' = "HEADER"
          /\ IF ~ChecksumOk(m.hdr, m.payload) THEN Resume(p.rest) /\ UNCHANGED <<incoming, msg_sleep, poll>>
             ELSE IF Len(incoming) < QueueCap
             THEN incoming' = Append(incoming, m) /\ UNCHANGED <<msg_sleep, poll, pc, mask>>
             ELSE UNCHANGED <<incoming, msg_sleep, poll, pc, mask>>
  /\ UNCHANGED <<arrived, got, handled, out, ready_send, ready_recv, guarded>>

\* The payload is there: a wrong checksum ends the loop; a full queue puts the
\* connection to sleep.
ReadPayload ==
  /\ pc = "read" /\ msg_state = "PAYLOAD"
  /\ LET len == LengthOf(msg.hdr) p == Pop(recv_buffer, len) m == [msg EXCEPT !.payload = p.data] IN
     IF Size(recv_buffer) < len
     THEN Resume(recv_buffer) /\ UNCHANGED <<recv_buffer, msg, msg_state, incoming, msg_sleep, poll>>
     ELSE /\ recv_buffer' = p.rest /\ msg' = m /\ msg_state' = "HEADER"
          /\ IF ~ChecksumOk(m.hdr, m.payload) THEN Resume(p.rest) /\ UNCHANGED <<incoming, msg_sleep, poll>>
             ELSE IF Len(incoming) < QueueCap
             THEN incoming' = Append(incoming, m) /\ UNCHANGED <<msg_sleep, poll, pc, mask>>
             ELSE msg_sleep' = TRUE /\ poll' = TRUE /\ pc' = "loop" /\ UNCHANGED <<incoming, mask>>
  /\ UNCHANGED <<arrived, got, handled, out, ready_send, ready_recv, guarded>>

\* The poll timer is not set again.
MutPollTimer ==
  /\ pc = "loop" /\ poll /\ poll' = FALSE
  /\ IF Len(incoming) < QueueCap
     THEN incoming' = Append(incoming, msg) /\ msg_sleep' = FALSE /\ pc' = "read"
     ELSE msg_sleep' = TRUE /\ UNCHANGED <<incoming, pc>>
  /\ UNCHANGED <<arrived, got, recv_buffer, msg_state, msg, handled, out, mask, ready_send, ready_recv, guarded>>

PollTimer ==
  /\ pc = "loop" /\ poll
  /\ IF Len(incoming) < QueueCap
     THEN incoming' = Append(incoming, msg) /\ msg_sleep' = FALSE /\ poll' = FALSE /\ pc' = "read"
     ELSE UNCHANGED <<incoming, msg_sleep, poll, pc>>
  /\ guarded' = FALSE
  /\ UNCHANGED <<arrived, got, recv_buffer, msg_state, msg, handled, out, mask, ready_send, ready_recv>>

Next == \/ Arrive \/ Drain \/ Write \/ Handle \/ ReadEvent \/ WriteEvent \/ QueueEvent \/ SendStep \/ SendDone
        \/ RecvFull \/ RecvChunk \/ ReadHeader \/ ReadPayload \/ PollTimer
Spec == Init /\ [][Next]_vars

-----------------------------------------------------------------------------
Frame(i) == [hdr |-> Interval(FrameStart[i], HeaderSize), payload |-> Interval(FrameStart[i] + HeaderSize, Inbound[i].len)]
Good == SelectSeq([i \in 1..Len(Inbound) |-> i], LAMBDA i : Inbound[i].ok /\ Inbound[i].len <= MaxMsgSize)
GoodFrames == [i \in 1..Len(Good) |-> Frame(Good[i])]

\* The handlers get the messages that were sent, whole, in order and each once,
\* whatever the sizes of the reads and however often the queue was full
\* (network.h:649-702, 139-149).
FramesInOrder ==
  LET seen == handled \o incoming \o (IF msg_sleep THEN <<msg>> ELSE <<>>) IN
  IsPrefix(seen, GoodFrames)

\* The bytes go out in the order of the messages, also when the socket takes a
\* part of one (conn.cpp:63-105).
SentInOrder == sent = Interval(1, Len(sent))

\* The worker does not wait for nothing: what is left to send has either a
\* WRITE event or a notification to come (conn.cpp:96-104, conn.h:270-283).
SendHasEvent == pc = "loop" /\ send_buffer # <<>> => "WRITE" \in mask \/ notified

\* Everything written is sent; everything received is handled.
SentAll == pushed = Len(Outbound) => Len(sent) = OutTotal
HandledAll == handled = GoodFrames
\* READ is masked by a full buffer and nothing will call on_read, which would put
\* it back (conn.cpp:117-124, network.h:649-712): the rest is never received.
Stalled ==
  /\ pc = "loop" /\ ready_recv /\ "READ" \notin mask /\ ~poll
  /\ SegCount(recv_buffer) >= MaxRecv
=============================================================================
