--------------------------- MODULE StreamDecoder ---------------------------
(***************************************************************************)
(* The decoder that turns a byte stream into packets.                      *)
(*                                                                         *)
(* EncoderSink writes each message with a length prefix; DecoderStream     *)
(* reads chunks of any size and cuts them at message boundaries.  Small    *)
(* messages are buffered until they are complete, forwards are handed on   *)
(* chunk by chunk, invalid and oversized messages are discarded.  Bytes    *)
(* are counted, not represented: the position of a byte in the stream says *)
(* to which message it belongs.                                            *)
(***************************************************************************)
EXTENDS Integers, Sequences

CONSTANTS
    OneByte,      \* the first number a varint writes in two bytes, 128
    HeaderSize,   \* Forward::header_size()
    Limit,        \* size of the largest message that is parsed
    MaxChunk,     \* largest chunk of the underlying stream
    Messages,     \* what may be sent, [kind, size]
    MaxMessages   \* bound: messages of a stream

Kinds == {"packet", "forward", "invalid"}

ASSUME CodecAssumption ==
    /\ OneByte \in Nat \ {0} /\ HeaderSize \in Nat \ {0}
    /\ Limit \in Nat \ {0} /\ MaxChunk \in Nat \ {0} /\ MaxMessages \in Nat
    /\ Messages \subseteq [kind : Kinds, size : Nat \ {0}]
    /\ \A m \in Messages : m.kind = "forward" => m.size >= HeaderSize

VARIABLES
    sent,       \* the messages that were sent
    begin,      \* where each of them begins in the stream, and where the last one ends
    received,   \* bytes of the stream that have been read
    position,   \* bytes that have left the buffer
    state,      \* DecoderStream::state
    poll,       \* what poll_next does next: "buffer", "stream"
    delivered   \* bytes of each message that were handed on

streamVars == <<sent, begin>>
vars == <<sent, begin, received, position, state, poll, delivered>>

\* write_size: the bytes of a length prefix.
Prefix(size) ==
    IF size < OneByte THEN 1 ELSE IF size < OneByte * OneByte THEN 2 ELSE 3

PrefixOf(i) == Prefix(sent[i].size)

Total == begin[Len(sent) + 1]

\* The message whose prefix is at the front of the buffer.
Current == {i \in 1..Len(sent) : begin[i] = position}

Buffered == received - position

State(name, left) == [name |-> name, left |-> left, read |-> 0]

Awaiting == State("prefix", 0)

Least(a, b) == IF a < b THEN a ELSE b

Init ==
    /\ sent = <<>>
    /\ begin = <<0>>
    /\ received = 0
    /\ position = 0
    /\ state = Awaiting
    /\ poll = "stream"
    /\ delivered = <<>>

\* start_send: the prefix and the message follow what was written before.
Send(m) ==
    /\ Len(sent) < MaxMessages
    /\ sent' = Append(sent, m)
    /\ begin' = Append(begin, Total + Prefix(m.size) + m.size)
    /\ delivered' = Append(delivered, 0)
    /\ UNCHANGED <<received, position, state, poll>>

\* The rest of poll_next: the buffer first, unless it is empty.
PollAgain == poll' = IF position' < received THEN "buffer" ELSE "stream"

(***************************************************************************)
(* read_bytes: what the front of the buffer holds of message i.            *)
(***************************************************************************)
Available(i) == Least(sent[i].size, Buffered - PrefixOf(i))

Left(i) == sent[i].size - Available(i)

\* read_bytes_inner: tag 0, or a message that is too long to be parsed.
Skipped(i) ==
    \/ sent[i].kind = "invalid"
    \/ sent[i].kind = "packet" /\ sent[i].size > Limit

Advance(i) == position' = position + PrefixOf(i) + Available(i)

ReadPrefix ==
    /\ poll = "buffer" /\ state.name = "prefix"
    /\ \E i \in Current :
        LET m == sent[i] IN
        \/ \* the prefix, the tag or the header of a forward is not there yet
           /\ \/ Buffered <= PrefixOf(i)
              \/ m.kind = "forward" /\ Buffered < PrefixOf(i) + HeaderSize
           /\ poll' = "stream"
           /\ UNCHANGED <<position, state, delivered>>
        \/ \* PayloadInvalid, PayloadTooLong
           /\ Buffered > PrefixOf(i) /\ Skipped(i)
           /\ Advance(i)
           /\ state' = State("discarding", Left(i))
           /\ poll' = "stream"
           /\ UNCHANGED delivered
        \/ \* Forward
           /\ m.kind = "forward" /\ Buffered >= PrefixOf(i) + HeaderSize
           /\ Advance(i)
           /\ state' = IF Left(i) > 0 THEN State("forwarding", Left(i)) ELSE Awaiting
           /\ delivered' = [delivered EXCEPT ![i] = Available(i)]
           /\ PollAgain
        \/ \* a whole packet
           /\ m.kind = "packet" /\ ~Skipped(i) /\ Buffered >= PrefixOf(i) + m.size
           /\ Advance(i)
           /\ delivered' = [delivered EXCEPT ![i] = m.size]
           /\ PollAgain
           /\ UNCHANGED state
        \/ \* PayloadTooShort
           /\ m.kind = "packet" /\ ~Skipped(i)
           /\ Buffered > PrefixOf(i) /\ Buffered < PrefixOf(i) + m.size
           /\ state' = State("buffering", Left(i))
           /\ poll' = "stream"
           /\ UNCHANGED <<position, delivered>>
    /\ UNCHANGED <<streamVars, received>>

\* Fault: the message that is complete now is left in the buffer until more bytes arrive.
BufferingWaits ==
    LET left == state.left - state.read IN
    /\ poll = "buffer" /\ state.name = "buffering"
    /\ state' = IF left = 0 THEN Awaiting ELSE State("buffering", left)
    /\ poll' = "stream"
    /\ UNCHANGED <<streamVars, received, position, delivered>>

\* A message that is complete now is read at once, without waiting for the stream.
Buffering ==
    LET left == state.left - state.read IN
    /\ poll = "buffer" /\ state.name = "buffering"
    /\ IF left = 0
       THEN state' = Awaiting /\ UNCHANGED poll
       ELSE state' = State("buffering", left) /\ poll' = "stream"
    /\ UNCHANGED <<streamVars, received, position, delivered>>

\* Fault: a forward that is complete takes the whole buffer with it.
ForwardAll ==
    LET left == state.left - state.read IN
    /\ poll = "buffer" /\ state.name = "forwarding"
    /\ position' = received
    /\ delivered' = [i \in 1..Len(sent) |->
                        IF begin[i] < position /\ position < begin[i + 1]
                        THEN delivered[i] + state.read ELSE delivered[i]]
    /\ state' = IF left = 0 THEN Awaiting ELSE State("forwarding", left)
    /\ PollAgain
    /\ UNCHANGED <<streamVars, received>>

\* The next chunk of a forward is handed on.
Forwarding ==
    LET left == state.left - state.read IN
    /\ poll = "buffer" /\ state.name = "forwarding"
    /\ state' = IF state.read > 0 /\ left = 0 THEN Awaiting ELSE State("forwarding", left)
    /\ position' = position + state.read
    /\ delivered' = [i \in 1..Len(sent) |->
                        IF begin[i] < position /\ position < begin[i + 1]
                        THEN delivered[i] + state.read ELSE delivered[i]]
    /\ IF state.read > 0 THEN PollAgain ELSE poll' = "stream"
    /\ UNCHANGED <<streamVars, received>>

Discarding ==
    LET left == state.left - state.read IN
    /\ poll = "buffer" /\ state.name = "discarding"
    /\ position' = position + state.read
    /\ IF state.read > 0 /\ left = 0
       THEN state' = Awaiting /\ PollAgain
       ELSE state' = State("discarding", left) /\ poll' = "stream"
    /\ UNCHANGED <<streamVars, received, delivered>>

\* A chunk of n bytes is read from the stream; State::read counts what belongs to the message.
Receive(n) ==
    /\ poll = "stream" /\ received + n <= Total
    /\ received' = received + n
    /\ state' = IF state.name = "prefix" THEN state
                ELSE [state EXCEPT !.read = Least(state.left, @ + n)]
    /\ poll' = "buffer"
    /\ UNCHANGED <<streamVars, position, delivered>>

Next ==
    \/ \E m \in Messages : Send(m)
    \/ ReadPrefix \/ Buffering \/ Forwarding \/ Discarding
    \/ \E n \in 1..MaxChunk : Receive(n)

Spec == Init /\ [][Next]_vars

-----------------------------------------------------------------------------
(***************************************************************************)
(* Types.                                                                  *)
(***************************************************************************)
TypeOK ==
    /\ sent \in Seq(Messages) /\ begin \in Seq(Nat) /\ Len(begin) = Len(sent) + 1
    /\ position \in 0..received /\ received \in 0..Total
    /\ state \in [name : {"prefix", "buffering", "forwarding", "discarding"},
                  left : Nat, read : Nat]
    /\ poll \in {"buffer", "stream"}
    /\ delivered \in Seq(Nat) /\ Len(delivered) = Len(sent)

(***************************************************************************)
(* The decoder reads a length prefix only where a message begins, however  *)
(* the stream is cut into chunks: it never takes payload for a prefix.     *)
(***************************************************************************)
InSync ==
    state.name \in {"prefix", "buffering"} /\ position < Total =>
        Current # {}

(***************************************************************************)
(* A message that lies behind the decoder was handed on whole, each byte   *)
(* once, or was one to skip, of which nothing was handed on.               *)
(***************************************************************************)
WholeOrSkipped ==
    \A i \in 1..Len(sent) :
        begin[i + 1] <= position =>
            delivered[i] = IF Skipped(i) THEN 0 ELSE sent[i].size

\* The decoder waits for the stream, which has no more bytes.
Drained == poll = "stream" /\ received = Total

(***************************************************************************)
(* Once the whole stream is read, the packets and forwards in it have been *)
(* handed on; of streams without a message to skip.                        *)
(***************************************************************************)
AllArrive ==
    Drained /\ (\A i \in 1..Len(sent) : ~Skipped(i)) =>
        \A i \in 1..Len(sent) : delivered[i] = sent[i].size

=============================================================================
