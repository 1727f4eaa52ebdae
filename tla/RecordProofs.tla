------------------------- MODULE RecordProofs -------------------------------
(***************************************************************************)
(* Proofs about the two components that put records into a sequence of     *)
(* bytes and take them out again: the slot table with its file             *)
(* (SlotManager), for any number of nodes and any sizes of records and     *)
(* buffers, and the decoder of a TCP stream (StreamDecoder), for messages, *)
(* limits and chunks of any size. The slot table stays a bijection and its *)
(* slots resolve after a restart; the decoder keeps to message boundaries, *)
(* hands every message on whole and once, and does not wait for bytes that *)
(* it has.                                                                 *)
(***************************************************************************)
EXTENDS SlotManager, StreamDecoder, SequenceTheorems, TLAPS

-----------------------------------------------------------------------------
(* The decoder *)

-----------------------------------------------------------------------------
(***************************************************************************)
(* The inductive invariant.                                                *)
(***************************************************************************)

\* The messages lie one behind the other.
Offsets ==
    /\ begin[1] = 0
    /\ \A i \in 1..Len(sent) : begin[i + 1] = begin[i] + PrefixOf(i) + sent[i].size
    /\ \A i, j \in 1..Len(begin) : i < j => begin[i] < begin[j]

\* What has been handed on of message i, given the position of the decoder.
Handed(i) ==
    IF Skipped(i) \/ position <= begin[i] THEN 0
    ELSE IF begin[i + 1] <= position THEN sent[i].size
    ELSE position - begin[i] - PrefixOf(i)

AllHanded == \A i \in 1..Len(sent) : delivered[i] = Handed(i)


AtPrefix == \E i \in 1..Len(begin) : begin[i] = position

InPacket(i) ==
    /\ begin[i] = position /\ sent[i].kind = "packet" /\ ~Skipped(i)
    /\ state.left > 0
    /\ IF state.read < state.left
       THEN Buffered + state.left - state.read = PrefixOf(i) + sent[i].size
       ELSE Buffered >= PrefixOf(i) + sent[i].size

InRest(i) ==
    /\ begin[i] < position /\ position + state.left = begin[i + 1]
    /\ Buffered >= state.read
    /\ state.read < state.left => Buffered = state.read

\* Where the decoder is.
Place ==
    /\ state.read <= state.left
    /\ state.name = "prefix" => state = Awaiting /\ AtPrefix
    /\ state.name = "buffering" => \E i \in 1..Len(sent) : InPacket(i)
    /\ state.name = "forwarding" =>
         state.left > 0 /\ \E i \in 1..Len(sent) : InRest(i) /\ sent[i].kind = "forward"
    /\ state.name = "discarding" => \E i \in 1..Len(sent) : InRest(i) /\ Skipped(i)

\* poll_next turns to the stream only when it can do nothing with what it has.
Waiting ==
    poll = "stream" =>
      /\ state.read = 0
      /\ state.name = "prefix" => \A i \in Current : Buffered < PrefixOf(i) + sent[i].size

Framing == Offsets /\ AllHanded /\ Place /\ Waiting

-----------------------------------------------------------------------------
(* Facts about the stream *)

\* A length prefix has a byte at least.
LEMMA PrefixTyped == \A size \in Nat : Prefix(size) \in Nat \ {0}
  BY DEF Prefix

\* The types of what was sent, and of the positions in it.
LEMMA SequenceTyped ==
    ASSUME TypeOK
    PROVE  /\ Len(sent) \in Nat /\ Len(begin) = Len(sent) + 1 /\ Len(delivered) = Len(sent)
           /\ \A k \in 1..Len(sent) : sent[k] \in Messages /\ delivered[k] \in Nat
           /\ \A k \in 1..Len(sent) + 1 : begin[k] \in Nat
           /\ Total \in Nat /\ received \in Nat /\ position \in Nat
           /\ position <= received /\ received <= Total
  <1>1. /\ sent \in Seq(Messages) /\ begin \in Seq(Nat) /\ delivered \in Seq(Nat)
        /\ Len(begin) = Len(sent) + 1 /\ Len(delivered) = Len(sent)
    BY DEF TypeOK
  <1>2. Len(sent) \in Nat
    BY <1>1
  <1>3. \A k \in 1..Len(sent) : sent[k] \in Messages
    BY <1>1, ElementOfSeq
  <1>4. \A k \in 1..Len(delivered) : delivered[k] \in Nat
    BY <1>1, ElementOfSeq
  <1>5. \A k \in 1..Len(begin) : begin[k] \in Nat
    BY <1>1, ElementOfSeq
  <1>6. Total \in Nat
    BY <1>1, <1>2, <1>5 DEF Total
  <1>7. position \in 0..received /\ received \in 0..Total
    BY DEF TypeOK
  <1> QED BY <1>1, <1>2, <1>3, <1>4, <1>5, <1>6, <1>7

\* What is known of a message that was sent.
Message(i) ==
    /\ sent[i].kind \in Kinds /\ sent[i].size \in Nat \ {0}
    /\ sent[i].kind = "forward" => sent[i].size >= HeaderSize
    /\ PrefixOf(i) \in Nat \ {0}
    /\ begin[i] \in Nat /\ begin[i + 1] \in Nat /\ Total \in Nat
    /\ begin[i + 1] = begin[i] + PrefixOf(i) + sent[i].size
    /\ begin[i] < begin[i + 1] /\ begin[i + 1] <= Total

\* Every message lies between its offset and the next one.
LEMMA Messaging ==
    ASSUME TypeOK, Offsets, NEW i \in 1..Len(sent)
    PROVE  Message(i)
  <1>1. sent[i] \in Messages /\ Len(sent) \in Nat /\ Len(begin) = Len(sent) + 1
    BY SequenceTyped
  <1>2. sent[i].kind \in Kinds /\ sent[i].size \in Nat \ {0}
    BY <1>1, CodecAssumption
  <1>3. sent[i].kind = "forward" => sent[i].size >= HeaderSize
    BY <1>1, CodecAssumption
  <1>4. PrefixOf(i) \in Nat \ {0}
    BY <1>2, PrefixTyped, Zenon DEF PrefixOf
  <1>5. begin[i] \in Nat /\ begin[i + 1] \in Nat /\ Total \in Nat
    BY <1>1, SequenceTyped
  <1>6. begin[i + 1] <= Total
    <2>1. CASE i = Len(sent)
      BY <2>1, <1>5 DEF Total
    <2>2. CASE i # Len(sent)
      BY <2>2, <1>1, <1>5, SMTT(30) DEF Offsets, Total
    <2> QED BY <2>1, <2>2
  <1>7. begin[i + 1] = begin[i] + PrefixOf(i) + sent[i].size
    BY DEF Offsets
  <1>8. begin[i] < begin[i + 1]
    BY <1>2, <1>4, <1>5, <1>7
  <1> QED BY <1>2, <1>3, <1>4, <1>5, <1>6, <1>7, <1>8 DEF Message

\* Messages do not overlap.
LEMMA Apart ==
    ASSUME TypeOK, Offsets, NEW i \in 1..Len(sent), NEW j \in 1..Len(sent), i # j
    PROVE  begin[j + 1] <= begin[i] \/ begin[i + 1] <= begin[j]
  <1>1. /\ Len(sent) \in Nat /\ Len(begin) = Len(sent) + 1
        /\ \A k \in 1..Len(sent) + 1 : begin[k] \in Nat
    BY SequenceTyped
  <1>2. CASE j < i
    <2>1. i \in 1..Len(begin) /\ j + 1 \in 1..Len(begin) /\ (j + 1 = i \/ j + 1 < i)
      BY <1>1, <1>2
    <2>2. j + 1 = i \/ begin[j + 1] < begin[i]
      BY <2>1 DEF Offsets
    <2> QED BY <1>1, <2>1, <2>2
  <1>3. CASE i < j
    <2>1. j \in 1..Len(begin) /\ i + 1 \in 1..Len(begin) /\ (i + 1 = j \/ i + 1 < j)
      BY <1>1, <1>3
    <2>2. i + 1 = j \/ begin[i + 1] < begin[j]
      BY <2>1 DEF Offsets
    <2> QED BY <1>1, <2>1, <2>2
  <1> QED BY <1>1, <1>2, <1>3

\* The position of the decoder, when it is at a prefix, is that of one message.
LEMMA OneCurrent ==
    ASSUME TypeOK, Offsets, NEW i \in 1..Len(sent), begin[i] = position
    PROVE  Current = {i}
  <1>1. ASSUME NEW j \in 1..Len(sent), begin[j] = position, j # i
        PROVE  FALSE
    <2>1. begin[j + 1] <= begin[i] \/ begin[i + 1] <= begin[j]
      BY <1>1, Apart
    <2>2. /\ begin[i] \in Nat /\ begin[i + 1] \in Nat /\ begin[i] < begin[i + 1]
          /\ begin[j] \in Nat /\ begin[j + 1] \in Nat /\ begin[j] < begin[j + 1]
      BY Messaging DEF Message
    <2> QED BY <1>1, <2>1, <2>2
  <1> QED BY <1>1 DEF Current

\* While the decoder moves inside message i, what is handed on of the others stays.
LEMMA MoveInside ==
    ASSUME TypeOK, Offsets, AllHanded, UNCHANGED streamVars,
           NEW i \in 1..Len(sent), position' \in Nat,
           begin[i] <= position, position <= position', position' <= begin[i + 1],
           \A j \in 1..Len(sent) : j # i => delivered'[j] = delivered[j],
           delivered'[i] = Handed(i)'
    PROVE  AllHanded'
  <1>1. ASSUME NEW j \in 1..Len(sent), j # i
        PROVE  delivered'[j] = Handed(j)'
    <2>1. delivered'[j] = Handed(j)
      BY <1>1 DEF AllHanded
    <2>2. (Skipped(j)' <=> Skipped(j)) /\ sent' = sent /\ begin' = begin /\ PrefixOf(j)' = PrefixOf(j)
      BY DEF streamVars, Skipped, PrefixOf
    <2>3. position \in Nat
      BY SequenceTyped
    <2>4. /\ begin[i] \in Nat /\ begin[i + 1] \in Nat
          /\ begin[j] \in Nat /\ begin[j + 1] \in Nat /\ begin[j] < begin[j + 1]
      BY Messaging DEF Message
    <2>5. begin[j + 1] <= begin[i] \/ begin[i + 1] <= begin[j]
      BY <1>1, Apart
    <2>6. ASSUME begin[j + 1] <= begin[i] PROVE Handed(j)' = Handed(j)
      <3>1. /\ begin[j + 1] <= position /\ begin[j + 1] <= position'
            /\ ~(position <= begin[j]) /\ ~(position' <= begin[j])
        BY <2>3, <2>4, <2>6
      <3> QED BY <2>2, <3>1 DEF Handed
    <2>7. ASSUME begin[i + 1] <= begin[j] PROVE Handed(j)' = Handed(j)
      <3>1. position <= begin[j] /\ position' <= begin[j]
        BY <2>3, <2>4, <2>7
      <3> QED BY <2>2, <3>1 DEF Handed
    <2>8. Handed(j)' = Handed(j)
      BY <2>5, <2>6, <2>7
    <2> QED BY <2>1, <2>8
  <1> QED BY <1>1 DEF AllHanded, streamVars

-----------------------------------------------------------------------------
(***************************************************************************)
(* One lemma per action.                                                   *)
(***************************************************************************)
Inv == TypeOK /\ Framing

\* Sending changes nothing about the messages before.
LEMMA SendGrows ==
    ASSUME TypeOK, NEW m \in Messages, Send(m)
    PROVE  /\ sent' \in Seq(Messages) /\ begin' \in Seq(Nat) /\ delivered' \in Seq(Nat)
           /\ Len(sent') = Len(sent) + 1 /\ Len(begin') = Len(sent) + 2
           /\ Len(delivered') = Len(sent) + 1
           /\ \A k \in 1..Len(sent) : sent'[k] = sent[k] /\ delivered'[k] = delivered[k]
           /\ sent'[Len(sent) + 1] = m /\ delivered'[Len(sent) + 1] = 0
           /\ \A k \in 1..Len(sent) + 1 : begin'[k] = begin[k]
           /\ begin'[Len(sent) + 2] = Total + Prefix(m.size) + m.size
           /\ m.size \in Nat \ {0} /\ Prefix(m.size) \in Nat \ {0}
  <1>1. /\ sent \in Seq(Messages) /\ begin \in Seq(Nat) /\ delivered \in Seq(Nat)
        /\ Len(begin) = Len(sent) + 1 /\ Len(delivered) = Len(sent) /\ Len(sent) \in Nat
    BY DEF TypeOK
  <1>2. m.size \in Nat \ {0} /\ Prefix(m.size) \in Nat \ {0}
    BY CodecAssumption, PrefixTyped
  <1>3. Total + Prefix(m.size) + m.size \in Nat
    BY <1>2, SequenceTyped
  <1>4. /\ sent' \in Seq(Messages) /\ Len(sent') = Len(sent) + 1
        /\ \A k \in 1..Len(sent) : sent'[k] = sent[k]
        /\ sent'[Len(sent) + 1] = m
    BY <1>1, AppendProperties DEF Send
  <1>5. /\ delivered' \in Seq(Nat) /\ Len(delivered') = Len(delivered) + 1
        /\ \A k \in 1..Len(delivered) : delivered'[k] = delivered[k]
        /\ delivered'[Len(delivered) + 1] = 0
    BY <1>1, AppendProperties DEF Send
  <1>6. /\ begin' \in Seq(Nat) /\ Len(begin') = Len(begin) + 1
        /\ \A k \in 1..Len(begin) : begin'[k] = begin[k]
        /\ begin'[Len(begin) + 1] = Total + Prefix(m.size) + m.size
    <2> DEFINE end == Total + Prefix(m.size) + m.size
    <2>1. begin' = Append(begin, end) /\ end \in Nat
      BY <1>3 DEF Send
    <2> HIDE DEF end
    <2>2. /\ begin' \in Seq(Nat) /\ Len(begin') = Len(begin) + 1
          /\ \A k \in 1..Len(begin) : begin'[k] = begin[k]
          /\ begin'[Len(begin) + 1] = end
      BY <1>1, <2>1, AppendProperties
    <2> QED BY <2>2 DEF end
  <1>7. Len(begin') = Len(sent) + 2 /\ Len(begin) + 1 = Len(sent) + 2
    BY <1>1, <1>6
  <1> QED BY <1>1, <1>2, <1>4, <1>5, <1>6, <1>7

\* A message is added at the end of the stream.
LEMMA SendTyped ==
    ASSUME TypeOK, NEW m \in Messages, Send(m)
    PROVE  TypeOK' /\ Total' = Total + Prefix(m.size) + m.size /\ begin'[Len(sent) + 1] = Total
  <1>1. /\ Total \in Nat /\ Len(sent) \in Nat /\ received \in Nat /\ received <= Total
        /\ UNCHANGED <<received, position, state, poll>>
    BY SequenceTyped DEF Send
  <1>2. /\ Len(sent') = Len(sent) + 1 /\ Len(begin') = Len(sent) + 2
        /\ begin'[Len(sent) + 2] = Total + Prefix(m.size) + m.size
        /\ \A k \in 1..Len(sent) + 1 : begin'[k] = begin[k]
        /\ m.size \in Nat \ {0} /\ Prefix(m.size) \in Nat \ {0}
    BY SendGrows
  <1>3. begin'[Len(sent) + 1] = Total
    BY <1>1, <1>2 DEF Total
  <1>4. Len(sent') + 1 = Len(sent) + 2
    BY <1>1, <1>2
  <1>5. Total' = Total + Prefix(m.size) + m.size
    BY <1>2, <1>4 DEF Total
  <1>6. received' \in 0..Total' /\ position' \in 0..received'
    BY <1>1, <1>2, <1>5, SMTT(30) DEF TypeOK
  <1>7. sent' \in Seq(Messages) /\ begin' \in Seq(Nat) /\ Len(begin') = Len(sent') + 1
    BY SendGrows, <1>1, <1>4
  <1>8. delivered' \in Seq(Nat) /\ Len(delivered') = Len(sent')
    BY SendGrows
  <1> QED BY <1>1, <1>3, <1>5, <1>6, <1>7, <1>8 DEF TypeOK

\* So the framing of what was sent before is kept.
LEMMA SendKeeps ==
    ASSUME Inv, NEW m \in Messages, Send(m)
    PROVE  Inv'
  <1> USE DEF Inv
  <1>0. PICK L \in Nat : L = Len(sent)
    BY SequenceTyped
  <1>1. TypeOK' /\ Total' = Total + Prefix(m.size) + m.size /\ begin'[L + 1] = Total
    BY <1>0, SendTyped
  <1>2. /\ Len(sent') = L + 1 /\ Len(begin') = L + 2
        /\ \A k \in 1..L : sent'[k] = sent[k] /\ delivered'[k] = delivered[k]
        /\ sent'[L + 1] = m /\ delivered'[L + 1] = 0
        /\ \A k \in 1..L + 1 : begin'[k] = begin[k]
        /\ begin'[L + 2] = Total + Prefix(m.size) + m.size
        /\ m.size \in Nat \ {0} /\ Prefix(m.size) \in Nat \ {0}
    BY <1>0, SendGrows, Zenon
  <1>3. /\ L \in Nat /\ Total \in Nat /\ received \in Nat /\ position \in Nat
        /\ position <= received /\ received <= Total /\ Len(begin) = L + 1
        /\ \A k \in 1..L + 1 : begin[k] \in Nat
        /\ UNCHANGED <<received, position, state, poll>>
    BY <1>0, SequenceTyped DEF Send
  <1>4. /\ \A k \in 1..L : begin'[k + 1] = begin[k + 1] /\ begin'[k] = begin[k]
        /\ \A k \in 1..L : PrefixOf(k)' = PrefixOf(k) /\ (Skipped(k)' <=> Skipped(k))
    BY <1>0, <1>2, <1>3 DEF PrefixOf, Skipped
  <1>5. PrefixOf(L + 1)' = Prefix(m.size)
    BY <1>0, <1>2 DEF PrefixOf
  <1>6. Offsets /\ AllHanded /\ Place /\ Waiting
    BY DEF Framing
  <1>7. Offsets'
    <2>1. begin'[1] = 0
      BY <1>0, <1>2, <1>3, <1>6 DEF Offsets
    <2>2. ASSUME NEW i \in 1..Len(sent')
          PROVE  begin'[i + 1] = begin'[i] + PrefixOf(i)' + sent'[i].size
      <3>1. CASE i \in 1..L
        BY <1>0, <3>1, <1>2, <1>4, <1>6 DEF Offsets
      <3>2. CASE i = L + 1
        <4>1. i + 1 = L + 2
          BY <1>0, <3>2, <1>3
        <4> QED BY <1>0, <3>2, <4>1, <1>1, <1>2, <1>5
      <3> QED BY <1>0, <3>1, <3>2, <1>2, <1>3, SMTT(30)
    <2>3. ASSUME NEW i \in 1..Len(begin'), NEW j \in 1..Len(begin'), i < j
          PROVE  begin'[i] < begin'[j]
      <3>1. i \in 1..L + 1 /\ begin'[i] = begin[i] /\ begin[i] \in Nat
        BY <1>0, <2>3, <1>2, <1>3
      <3>2. CASE j \in 1..L + 1
        BY <1>0, <2>3, <3>1, <3>2, <1>2, <1>3, <1>6 DEF Offsets
      <3>3. CASE j = L + 2
        <4>1. begin[i] <= Total
          <5>1. CASE i = L + 1
            BY <1>0, <5>1, <1>3 DEF Total
          <5>2. CASE i # L + 1
            <6>1. begin[i] < begin[L + 1]
              BY <1>0, <5>2, <3>1, <1>3, <1>6 DEF Offsets
            <6> QED BY <1>0, <6>1, <3>1, <1>3 DEF Total
          <5> QED BY <1>0, <5>1, <5>2
        <4> QED BY <1>0, <4>1, <3>1, <3>3, <1>2, <1>3
      <3> QED BY <1>0, <3>2, <3>3, <1>2, <1>3
    <2> QED BY <1>0, <2>1, <2>2, <2>3 DEF Offsets
  <1>8. AllHanded'
    <2>1. ASSUME NEW i \in 1..L
          PROVE  delivered'[i] = Handed(i)'
      <3>1. Handed(i)' = Handed(i)
        BY <1>0, <1>2, <1>3, <1>4, ZenonT(40) DEF Handed
      <3> QED BY <1>0, <3>1, <1>2, <1>6 DEF AllHanded
    <2>2. Handed(L + 1)' = 0
      <3>1. position' <= begin'[L + 1]
        BY <1>0, <1>1, <1>3
      <3> QED BY <1>0, <3>1 DEF Handed
    <2>3. \A i \in 1..Len(sent') : i \in 1..L \/ i = L + 1
      BY <1>0, <1>2, <1>3, SMTT(30)
    <2> QED BY <1>0, <2>1, <2>2, <2>3, <1>2 DEF AllHanded
  <1>9. Place'
    <2>1. ASSUME NEW i \in 1..L
          PROVE  /\ i \in 1..Len(sent') /\ sent'[i] = sent[i]
                 /\ InPacket(i) => InPacket(i)'
                 /\ InRest(i) => InRest(i)'
      <3>1. i \in 1..Len(sent') /\ sent'[i] = sent[i]
        BY <1>0, <1>2, <1>3
      <3>2. InPacket(i) => InPacket(i)'
        BY <1>0, <1>2, <1>3, <1>4, ZenonT(40) DEF InPacket, Buffered
      <3>3. InRest(i) => InRest(i)'
        BY <1>0, <1>2, <1>3, <1>4, ZenonT(40) DEF InRest, Buffered
      <3> QED BY <1>0, <3>1, <3>2, <3>3
    <2>2. AtPrefix => AtPrefix'
      BY <1>0, <1>2, <1>3 DEF AtPrefix
    <2>3. state.name = "prefix" => state' = Awaiting /\ AtPrefix'
      BY <1>0, <2>2, <1>3, <1>6 DEF Place
    <2>4. state.name = "buffering" => \E i \in 1..Len(sent') : InPacket(i)'
      BY <1>0, <2>1, <1>6 DEF Place
    <2>5. state.name = "forwarding" =>
             state.left > 0 /\ \E i \in 1..Len(sent') : InRest(i)' /\ sent'[i].kind = "forward"
      BY <1>0, <2>1, <1>6 DEF Place
    <2>6. state.name = "discarding" => \E i \in 1..Len(sent') : InRest(i)' /\ Skipped(i)'
      BY <1>0, <2>1, <1>4, <1>6 DEF Place
    <2>7. state.read <= state.left
      BY <1>0, <1>6 DEF Place
    <2> QED BY <1>0, <2>3, <2>4, <2>5, <2>6, <2>7, <1>3 DEF Place, Awaiting, State
  <1>10. Waiting'
    <2>1. ASSUME poll = "stream", state.name = "prefix", NEW i \in Current'
          PROVE  (Buffered < PrefixOf(i) + sent[i].size)'
      <3>1. i \in 1..Len(sent') /\ begin'[i] = position
        BY <1>0, <1>3 DEF Current
      <3>2. CASE i \in 1..L
        <4>1. i \in Current
          BY <1>0, <3>1, <3>2, <1>2, <1>3 DEF Current
        <4> QED BY <1>0, <2>1, <4>1, <3>2, <1>2, <1>3, <1>4, <1>6, ZenonT(40) DEF Waiting, Buffered
      <3>3. CASE i = L + 1
        <4>1. Buffered' <= 0 /\ Buffered' \in Int
          BY <1>0, <3>1, <3>3, <1>1, <1>3 DEF Buffered
        <4>2. sent'[i].size = m.size /\ PrefixOf(i)' = Prefix(m.size)
          BY <1>0, <3>3, <1>2, <1>5
        <4> QED BY <1>0, <4>1, <4>2, <1>2
      <3> QED BY <1>0, <3>1, <3>2, <3>3, <1>2, <1>3
    <2>2. poll = "stream" => state.read = 0
      BY <1>0, <1>6 DEF Waiting
    <2> QED BY <1>0, <2>1, <2>2, <1>3 DEF Waiting
  <1> QED BY <1>0, <1>1, <1>7, <1>8, <1>9, <1>10 DEF Framing

\* What the steps of the decoder leave alone.
LEMMA StreamStays ==
    ASSUME TypeOK, Offsets, UNCHANGED streamVars
    PROVE  /\ Offsets' /\ Total' = Total /\ sent' = sent /\ begin' = begin
           /\ \A i \in 1..Len(sent) : PrefixOf(i)' = PrefixOf(i) /\ (Skipped(i)' <=> Skipped(i))
  <1>1. sent' = sent /\ begin' = begin
    BY DEF streamVars
  <1> QED BY <1>1 DEF Offsets, Total, PrefixOf, Skipped

\* With an empty buffer the decoder may wait for the stream.
LEMMA EmptyBuffer ==
    ASSUME TypeOK, Offsets, UNCHANGED streamVars, Buffered' = 0, state'.read = 0
    PROVE  Waiting'
  <1>1. ASSUME NEW i \in Current'
        PROVE  (Buffered < PrefixOf(i) + sent[i].size)'
    <2>1. i \in 1..Len(sent) /\ sent' = sent /\ PrefixOf(i)' = PrefixOf(i)
      BY StreamStays DEF Current
    <2>2. PrefixOf(i) \in Nat \ {0} /\ sent[i].size \in Nat \ {0}
      BY <2>1, Messaging DEF Message
    <2> QED BY <2>1, <2>2
  <1> QED BY <1>1 DEF Waiting

\* The end of a message is where the next one begins.
LEMMA AtTheEnd ==
    ASSUME TypeOK, Offsets, UNCHANGED streamVars, state' = Awaiting,
           NEW i \in 1..Len(sent), position' = begin[i + 1]
    PROVE  Place'
  <1>1. i + 1 \in 1..Len(begin') /\ begin'[i + 1] = position'
    BY SequenceTyped, StreamStays
  <1>2. AtPrefix'
    BY <1>1 DEF AtPrefix
  <1> QED BY <1>2 DEF Place, Awaiting, State

\* A chunk arrives while the decoder waits for one.
LEMMA ReceiveKeeps ==
    ASSUME Inv, NEW n \in 1..MaxChunk, Receive(n)
    PROVE  Inv'
  <1> USE DEF Inv
  <1>1. /\ poll = "stream" /\ received + n <= Total /\ received' = received + n
        /\ state' = IF state.name = "prefix" THEN state
                    ELSE [state EXCEPT !.read = Least(state.left, @ + n)]
        /\ poll' = "buffer" /\ UNCHANGED streamVars
        /\ position' = position /\ delivered' = delivered
    BY DEF Receive
  <1>2. Offsets /\ AllHanded /\ Place /\ Waiting
    BY DEF Framing
  <1>3. /\ Offsets' /\ Total' = Total /\ sent' = sent /\ begin' = begin
        /\ \A i \in 1..Len(sent) : PrefixOf(i)' = PrefixOf(i) /\ (Skipped(i)' <=> Skipped(i))
    BY <1>1, <1>2, StreamStays
  <1>4. /\ n \in Nat \ {0} /\ received \in Nat /\ position \in Nat /\ position <= received
        /\ Total \in Nat
    BY SequenceTyped, CodecAssumption
  <1>5. state \in [name : {"prefix", "buffering", "forwarding", "discarding"},
                   left : Nat, read : Nat] /\ state.read = 0
    BY <1>1, <1>2 DEF TypeOK, Waiting
  <1>6. state.name # "prefix" =>
          /\ state'.name = state.name /\ state'.left = state.left /\ state'.read \in Nat
          /\ state'.read = Least(state.left, n)
          /\ state' \in [name : {"prefix", "buffering", "forwarding", "discarding"},
                         left : Nat, read : Nat]
    BY <1>1, <1>4, <1>5 DEF Least
  <1>7. TypeOK'
    <2>1. received' \in 0..Total' /\ position' \in 0..received'
      BY <1>1, <1>3, <1>4
    <2>2. state' \in [name : {"prefix", "buffering", "forwarding", "discarding"},
                      left : Nat, read : Nat]
      BY <1>1, <1>5, <1>6
    <2> QED BY <2>1, <2>2, <1>1, <1>3 DEF TypeOK
  <1>8. AllHanded'
    BY <1>1, <1>2, <1>3 DEF AllHanded, Handed
  <1>9. Waiting'
    BY <1>1 DEF Waiting
  <1>10. Buffered' = Buffered + n /\ Buffered \in Nat
    BY <1>1, <1>4 DEF Buffered
  <1>11. CASE state.name = "prefix"
    <2>1. Place'
      BY <1>1, <1>2, <1>3, <1>11 DEF Place, AtPrefix, Awaiting, State
    <2> QED BY <2>1, <1>3, <1>7, <1>8, <1>9 DEF Framing
  <1>12. CASE state.name # "prefix"
    <2>1. state'.name = state.name /\ state'.left = state.left /\ state'.read <= state'.left
      BY <1>5, <1>6, <1>4, <1>12 DEF Least
    <2>2. ASSUME NEW i \in 1..Len(sent), InPacket(i)
          PROVE  InPacket(i)'
      <3>1. PrefixOf(i) \in Nat /\ sent[i].size \in Nat
        BY <1>2, Messaging DEF Message
      <3>2. state.left > 0 /\ Buffered + state.left = PrefixOf(i) + sent[i].size
        BY <2>2, <1>5, <1>10 DEF InPacket
      <3>3. IF state'.read < state'.left
            THEN Buffered' + state'.left - state'.read = PrefixOf(i) + sent[i].size
            ELSE Buffered' >= PrefixOf(i) + sent[i].size
        <4>1. state.left \in Nat /\ state'.left = state.left
          BY <1>5, <1>6, <1>12
        <4>2. CASE n < state.left
          <5>1. state'.read = n
            BY <4>1, <4>2, <1>4, <1>6, <1>12 DEF Least
          <5> QED BY <3>1, <3>2, <4>1, <4>2, <5>1, <1>4, <1>10
        <4>3. CASE ~(n < state.left)
          <5>1. state'.read = state.left
            BY <4>1, <4>3, <1>4, <1>6, <1>12 DEF Least
          <5> QED BY <3>1, <3>2, <4>1, <4>3, <5>1, <1>4, <1>10
        <4> QED BY <4>2, <4>3
      <3> QED BY <2>2, <3>2, <3>3, <1>1, <1>3, <2>1 DEF InPacket
    <2>3. ASSUME NEW i \in 1..Len(sent), InRest(i)
          PROVE  InRest(i)'
      <3>1. Buffered' >= state'.read /\ (state'.read < state'.left => Buffered' = state'.read)
        BY <2>3, <1>4, <1>5, <1>6, <1>10, <1>12 DEF Least, InRest
      <3> QED BY <2>3, <3>1, <1>1, <1>3, <2>1 DEF InRest
    <2>4. Place'
      BY <2>1, <2>2, <2>3, <1>2, <1>3, <1>12 DEF Place
    <2> QED BY <2>4, <1>3, <1>7, <1>8, <1>9 DEF Framing
  <1> QED BY <1>11, <1>12

\* The message in the buffer is complete, or the decoder waits for the rest of it.
LEMMA BufferingKeeps ==
    ASSUME Inv, Buffering
    PROVE  Inv'
  <1> USE DEF Inv
  <1>1. /\ poll = "buffer" /\ state.name = "buffering" /\ UNCHANGED streamVars
        /\ received' = received /\ position' = position /\ delivered' = delivered
        /\ IF state.left - state.read = 0
           THEN state' = Awaiting /\ poll' = poll
           ELSE state' = State("buffering", state.left - state.read) /\ poll' = "stream"
    BY DEF Buffering
  <1>2. Offsets /\ AllHanded /\ Place /\ Waiting
    BY DEF Framing
  <1>3. /\ Offsets' /\ Total' = Total /\ sent' = sent /\ begin' = begin
        /\ \A i \in 1..Len(sent) : PrefixOf(i)' = PrefixOf(i) /\ (Skipped(i)' <=> Skipped(i))
    BY <1>1, <1>2, StreamStays
  <1>4. state.left \in Nat /\ state.read \in Nat /\ state.read <= state.left
    BY <1>2 DEF TypeOK, Place
  <1>5. PICK i \in 1..Len(sent) : InPacket(i)
    BY <1>1, <1>2 DEF Place
  <1>6. AllHanded'
    BY <1>1, <1>2, <1>3 DEF AllHanded, Handed
  <1>7. TypeOK'
    BY <1>1, <1>3, <1>4, SMTT(30) DEF TypeOK, Awaiting, State
  <1>8. received \in Nat /\ position \in Nat /\ position <= received
    BY SequenceTyped
  <1>9. CASE state.left - state.read = 0
    <2>1. begin[i] = position /\ i \in 1..Len(begin)
      BY <1>5, SequenceTyped DEF InPacket
    <2>2. Place'
      BY <1>1, <1>3, <1>9, <2>1 DEF Place, AtPrefix, Awaiting, State
    <2>3. Waiting'
      BY <1>1, <1>9 DEF Waiting
    <2> QED BY <2>2, <2>3, <1>3, <1>6, <1>7 DEF Framing
  <1>10. CASE state.left - state.read # 0
    <2>1. state' = State("buffering", state.left - state.read) /\ state.read < state.left
      BY <1>1, <1>4, <1>10
    <2>2. /\ state'.name = "buffering" /\ state'.left = state.left - state.read
          /\ state'.read = 0 /\ state'.left > 0 /\ state'.left \in Nat
      BY <2>1, <1>4 DEF State
    <2>3. PrefixOf(i) \in Nat /\ sent[i].size \in Nat /\ Buffered' = Buffered /\ Buffered \in Nat
      BY <1>1, <1>2, <1>8, Messaging DEF Message, Buffered
    <2>4. Buffered + state'.left - state'.read = PrefixOf(i) + sent[i].size
      BY <1>5, <2>1, <2>2, <2>3, <1>4 DEF InPacket
    <2>5. InPacket(i)'
      BY <1>1, <1>3, <1>5, <2>2, <2>3, <2>4 DEF InPacket
    <2>6. Place'
      BY <2>2, <2>5, <1>3 DEF Place
    <2>7. Waiting'
      BY <2>2 DEF Waiting
    <2> QED BY <2>6, <2>7, <1>3, <1>6, <1>7 DEF Framing
  <1> QED BY <1>9, <1>10

\* The decoder moves through the rest of message i; n bytes of it are in the buffer.
LEMMA RestOf ==
    ASSUME Inv, NEW i \in 1..Len(sent), InRest(i)
    PROVE  /\ state.left \in Nat /\ state.read \in Nat /\ state.read <= state.left
           /\ begin[i] \in Nat /\ begin[i + 1] \in Nat
           /\ received \in Nat /\ position \in Nat
           /\ begin[i] < position /\ position + state.left = begin[i + 1]
           /\ position + state.read <= received
           /\ state.read < state.left => position + state.read = received
  <1> USE DEF Inv
  <1>1. state.left \in Nat /\ state.read \in Nat /\ state.read <= state.left
    BY DEF TypeOK, Place, Framing
  <1>2. begin[i] \in Nat /\ begin[i + 1] \in Nat
    BY Messaging DEF Framing, Message
  <1>3. received \in Nat /\ position \in Nat
    BY SequenceTyped
  <1> QED BY <1>1, <1>2, <1>3 DEF InRest, Buffered

\* The bytes that are there have left the buffer, and more of the message is to come.
LEMMA RestGoesOn ==
    ASSUME Inv, NEW i \in 1..Len(sent), InRest(i), UNCHANGED streamVars,
           position' = position + state.read, received' = received,
           state'.left = state.left - state.read, state'.read = 0
    PROVE  InRest(i)'
  <1>1. sent' = sent /\ begin' = begin
    BY DEF streamVars
  <1>2. /\ state.left \in Nat /\ state.read \in Nat /\ state.read <= state.left
        /\ begin[i] \in Nat /\ begin[i + 1] \in Nat
        /\ received \in Nat /\ position \in Nat
        /\ begin[i] < position /\ position + state.left = begin[i + 1]
        /\ position + state.read <= received
        /\ state.read < state.left => position + state.read = received
    BY RestOf
  <1>3. begin[i] < position' /\ position' + state'.left = begin[i + 1]
    <2>1. PICK l \in Nat, r \in Nat, p \in Nat : l = state.left /\ r = state.read /\ p = position
      BY <1>2
    <2>2. position' = p + r /\ state'.left = l - r /\ begin[i] < p /\ p + l = begin[i + 1]
      BY <2>1, <1>2
    <2>3. p + r + (l - r) = p + l /\ begin[i] < p + r
      BY <2>2, <1>2, SMTT(30)
    <2> QED BY <2>2, <2>3
  <1>4. Buffered' >= state'.read /\ (state'.read < state'.left => Buffered' = state'.read)
    BY <1>2, SMTT(30) DEF Buffered
  <1> QED BY <1>1, <1>3, <1>4 DEF InRest

\* What belongs to a message to skip leaves the buffer.
LEMMA DiscardingKeeps ==
    ASSUME Inv, Discarding
    PROVE  Inv'
  <1> USE DEF Inv
  <1>1. /\ state.name = "discarding" /\ UNCHANGED streamVars
        /\ received' = received /\ delivered' = delivered
        /\ position' = position + state.read
        /\ IF state.read > 0 /\ state.left - state.read = 0
           THEN state' = Awaiting /\ PollAgain
           ELSE state' = State("discarding", state.left - state.read) /\ poll' = "stream"
    BY DEF Discarding
  <1>2. Offsets /\ AllHanded /\ Place /\ Waiting
    BY DEF Framing
  <1>3. /\ Offsets' /\ Total' = Total /\ sent' = sent /\ begin' = begin
        /\ \A i \in 1..Len(sent) : PrefixOf(i)' = PrefixOf(i) /\ (Skipped(i)' <=> Skipped(i))
    BY <1>1, <1>2, StreamStays
  <1>4. PICK i \in 1..Len(sent) : InRest(i) /\ Skipped(i)
    BY <1>1, <1>2 DEF Place
  <1>5. /\ state.left \in Nat /\ state.read \in Nat /\ state.read <= state.left
        /\ begin[i] \in Nat /\ begin[i + 1] \in Nat
        /\ received \in Nat /\ position \in Nat
        /\ begin[i] < position /\ position + state.left = begin[i + 1]
        /\ position + state.read <= received
    BY <1>4, RestOf
  <1>6. TypeOK'
    <2>1. position' \in 0..received' /\ received' \in 0..Total'
      <3>1. Total \in Nat /\ received <= Total
        BY SequenceTyped
      <3> QED BY <3>1, <1>1, <1>3, <1>5, SMTT(30)
    <2>2. poll' \in {"buffer", "stream"}
      BY <1>1 DEF PollAgain
    <2>3. state' \in [name : {"prefix", "buffering", "forwarding", "discarding"},
                      left : Nat, read : Nat]
      BY <1>1, <1>5, SMTT(30) DEF Awaiting, State
    <2> QED BY <2>1, <2>2, <2>3, <1>1, <1>3 DEF TypeOK
  <1>7. AllHanded'
    <2>1. Handed(i)' = 0 /\ Handed(i) = 0
      BY <1>3, <1>4 DEF Handed
    <2>2. delivered'[i] = Handed(i)'
      BY <2>1, <1>1, <1>2 DEF AllHanded
    <2>3. /\ position' \in Nat /\ begin[i] <= position
          /\ position <= position' /\ position' <= begin[i + 1]
      BY <1>1, <1>5, SMTT(30)
    <2> QED BY <2>2, <2>3, <1>1, <1>2, MoveInside
  <1>8. CASE state.read > 0 /\ state.left - state.read = 0
    <2>1. state' = Awaiting /\ PollAgain /\ position' = begin[i + 1]
      BY <1>1, <1>5, <1>8
    <2>2. Place'
      BY <2>1, <1>1, <1>2, AtTheEnd, Zenon
    <2>3. Waiting'
      <3>1. CASE position' < received
        BY <2>1, <3>1 DEF PollAgain, Waiting
      <3>2. CASE ~(position' < received)
        <4>1. Buffered' = 0
          BY <3>2, <1>1, <1>5 DEF Buffered
        <4> QED BY <4>1, <2>1, <1>1, <1>2, EmptyBuffer DEF Awaiting, State
      <3> QED BY <3>1, <3>2
    <2> QED BY <2>2, <2>3, <1>3, <1>6, <1>7 DEF Framing
  <1>9. CASE ~(state.read > 0 /\ state.left - state.read = 0)
    <2>1. state'.name = "discarding" /\ state'.left = state.left - state.read /\ state'.read = 0
      BY <1>1, <1>9 DEF State
    <2>2. InRest(i)'
      BY <2>1, <1>1, <1>4, RestGoesOn
    <2>3. state'.read <= state'.left
      BY <2>1, <1>5
    <2>4. Place'
      BY <2>1, <2>2, <2>3, <1>3, <1>4 DEF Place
    <2>5. Waiting'
      BY <2>1 DEF Waiting
    <2> QED BY <2>4, <2>5, <1>3, <1>6, <1>7 DEF Framing
  <1> QED BY <1>8, <1>9

\* Only the forward that the decoder is in is handed on.
LEMMA ForwardingHands ==
    ASSUME Inv, Forwarding, NEW i \in 1..Len(sent), InRest(i), sent[i].kind = "forward",
           state.left > 0
    PROVE  /\ delivered' \in Seq(Nat) /\ Len(delivered') = Len(sent)
           /\ delivered'[i] = delivered[i] + state.read
           /\ \A j \in 1..Len(sent) : j # i => delivered'[j] = delivered[j]
  <1> USE DEF Inv
  <1>1. delivered' = [j \in 1..Len(sent) |->
                        IF begin[j] < position /\ position < begin[j + 1]
                        THEN delivered[j] + state.read ELSE delivered[j]]
    BY DEF Forwarding
  <1>2. Len(sent) \in Nat /\ \A j \in 1..Len(sent) : delivered[j] \in Nat
    BY SequenceTyped
  <1>3. /\ state.left \in Nat /\ state.read \in Nat
        /\ begin[i] \in Nat /\ begin[i + 1] \in Nat /\ position \in Nat
        /\ begin[i] < position /\ position + state.left = begin[i + 1]
    BY RestOf
  <1>4. delivered' \in [1..Len(sent) -> Nat]
    BY <1>1, <1>2, <1>3, SMTT(30)
  <1>5. delivered' \in Seq(Nat) /\ Len(delivered') = Len(sent)
    BY <1>2, <1>4
  <1>6. position < begin[i + 1]
    BY <1>3
  <1>7. delivered'[i] = delivered[i] + state.read
    BY <1>1, <1>3, <1>6
  <1>8. ASSUME NEW j \in 1..Len(sent), j # i
        PROVE  delivered'[j] = delivered[j]
    <2>1. begin[j + 1] <= begin[i] \/ begin[i + 1] <= begin[j]
      BY <1>8, Apart DEF Framing
    <2>2. begin[j] \in Nat /\ begin[j + 1] \in Nat
      BY Messaging DEF Framing, Message
    <2>3. ~(begin[j] < position /\ position < begin[j + 1])
      BY <2>1, <2>2, <1>3, <1>6, SMTT(30)
    <2> QED BY <2>3, <1>1
  <1> QED BY <1>5, <1>7, <1>8

\* The next chunk of a forward is handed on and leaves the buffer.
LEMMA ForwardingKeeps ==
    ASSUME Inv, Forwarding
    PROVE  Inv'
  <1> USE DEF Inv
  <1>1. /\ state.name = "forwarding" /\ UNCHANGED streamVars
        /\ received' = received /\ position' = position + state.read
        /\ state' = IF state.read > 0 /\ state.left - state.read = 0
                    THEN Awaiting ELSE State("forwarding", state.left - state.read)
        /\ IF state.read > 0 THEN PollAgain ELSE poll' = "stream"
    BY DEF Forwarding
  <1>2. Offsets /\ AllHanded /\ Place /\ Waiting
    BY DEF Framing
  <1>3. /\ Offsets' /\ Total' = Total /\ sent' = sent /\ begin' = begin
        /\ \A i \in 1..Len(sent) : PrefixOf(i)' = PrefixOf(i) /\ (Skipped(i)' <=> Skipped(i))
    BY <1>1, <1>2, StreamStays
  <1>4. PICK i \in 1..Len(sent) : InRest(i) /\ sent[i].kind = "forward" /\ state.left > 0
    BY <1>1, <1>2 DEF Place
  <1>5. /\ state.left \in Nat /\ state.read \in Nat /\ state.read <= state.left
        /\ begin[i] \in Nat /\ begin[i + 1] \in Nat
        /\ received \in Nat /\ position \in Nat
        /\ begin[i] < position /\ position + state.left = begin[i + 1]
        /\ position + state.read <= received
        /\ state.read < state.left => position + state.read = received
    BY <1>4, RestOf
  <1>6. /\ delivered' \in Seq(Nat) /\ Len(delivered') = Len(sent)
        /\ delivered'[i] = delivered[i] + state.read
        /\ \A j \in 1..Len(sent) : j # i => delivered'[j] = delivered[j]
    BY <1>4, ForwardingHands
  <1>7. TypeOK'
    <2>1. position' \in 0..received' /\ received' \in 0..Total'
      <3>1. Total \in Nat /\ received <= Total
        BY SequenceTyped
      <3> QED BY <3>1, <1>1, <1>3, <1>5, SMTT(30)
    <2>2. poll' \in {"buffer", "stream"}
      BY <1>1 DEF PollAgain
    <2>3. state' \in [name : {"prefix", "buffering", "forwarding", "discarding"},
                      left : Nat, read : Nat]
      BY <1>1, <1>5 DEF Awaiting, State
    <2> QED BY <2>1, <2>2, <2>3, <1>3, <1>6 DEF TypeOK
  <1>8. AllHanded'
    <2>1. /\ PrefixOf(i) \in Nat /\ sent[i].size \in Nat
          /\ begin[i + 1] = begin[i] + PrefixOf(i) + sent[i].size
      BY <1>2, Messaging DEF Message
    <2>2. ~Skipped(i)
      BY <1>4 DEF Skipped
    <2>3. delivered[i] = position - begin[i] - PrefixOf(i)
      <3>1. ~(position <= begin[i]) /\ ~(begin[i + 1] <= position)
        BY <1>4, <1>5, SMTT(30)
      <3> QED BY <3>1, <2>2, <1>2 DEF AllHanded, Handed
    <2>4. PICK l \in Nat, r \in Nat, p \in Nat, b \in Nat, e \in Nat, h \in Nat, z \in Nat :
            /\ l = state.left /\ r = state.read /\ p = position
            /\ b = begin[i] /\ e = begin[i + 1] /\ h = PrefixOf(i) /\ z = sent[i].size
      BY <2>1, <1>5, Zenon
    <2>5. /\ position' = p + r /\ r <= l /\ b < p /\ p + l = e /\ e = b + h + z
          /\ delivered'[i] = p - b - h + r
      BY <2>1, <2>3, <2>4, <1>1, <1>5, <1>6
    <2>6. /\ p + r \in Nat /\ b <= p /\ p <= p + r /\ p + r <= e /\ ~(p + r <= b)
          /\ p - b - h + r = p + r - b - h
          /\ e <= p + r => p - b - h + r = z
      BY <2>5
    <2>7. /\ position' \in Nat /\ begin[i] <= position /\ position <= position'
          /\ position' <= begin[i + 1] /\ ~(position' <= begin[i])
          /\ delivered'[i] = position' - begin[i] - PrefixOf(i)
          /\ begin[i + 1] <= position' => delivered'[i] = sent[i].size
      <3>1. position' \in Nat
        BY <2>5, <2>6
      <3>2. begin[i] <= position /\ position <= position'
        BY <2>4, <2>5, <2>6
      <3>3. position' <= begin[i + 1] /\ ~(position' <= begin[i])
        BY <2>4, <2>5, <2>6
      <3>4. delivered'[i] = position' - begin[i] - PrefixOf(i)
        <4>1. delivered'[i] = p + r - b - h
          BY <2>5, <2>6
        <4>2. position' = p + r /\ begin[i] = b /\ PrefixOf(i) = h
          BY <2>4, <2>5
        <4> QED BY <4>1, <4>2
      <3>5. begin[i + 1] <= position' => delivered'[i] = sent[i].size
        BY <2>4, <2>5, <2>6
      <3> QED BY <3>1, <3>2, <3>3, <3>4, <3>5
    <2>8. delivered'[i] = Handed(i)'
      BY <2>2, <2>7, <1>3 DEF Handed
    <2> QED BY <2>7, <2>8, <1>1, <1>2, <1>6, MoveInside, Zenon
  <1>9. Waiting'
    <2>1. state'.read = 0
      BY <1>1 DEF Awaiting, State
    <2>2. CASE position' < received
      <3>1. CASE state.read > 0
        BY <2>2, <3>1, <1>1 DEF PollAgain, Waiting
      <3>2. CASE ~(state.read > 0)
        BY <2>1, <3>2, <1>1, <1>5 DEF Waiting, Awaiting, State
      <3> QED BY <3>1, <3>2
    <2>3. CASE ~(position' < received)
      <3>1. Buffered' = 0
        BY <2>3, <1>1, <1>5 DEF Buffered
      <3> QED BY <3>1, <2>1, <1>1, <1>2, EmptyBuffer
    <2> QED BY <2>2, <2>3
  <1>10. CASE state.read > 0 /\ state.left - state.read = 0
    <2>1. state' = Awaiting /\ position' = begin[i + 1]
      BY <1>1, <1>5, <1>10, SMTT(30)
    <2>2. Place'
      BY <2>1, <1>1, <1>2, AtTheEnd, Zenon
    <2> QED BY <2>2, <1>3, <1>7, <1>8, <1>9 DEF Framing
  <1>11. CASE ~(state.read > 0 /\ state.left - state.read = 0)
    <2>1. /\ state'.name = "forwarding" /\ state'.left = state.left - state.read
          /\ state'.read = 0
      BY <1>1, <1>11 DEF State
    <2>2. InRest(i)'
      BY <2>1, <1>1, <1>4, RestGoesOn
    <2>3. state'.left > 0 /\ state'.read <= state'.left
      BY <2>1, <1>4, <1>5, <1>11, SMTT(30)
    <2>4. Place'
      BY <2>1, <2>2, <2>3, <1>3, <1>4 DEF Place
    <2> QED BY <2>4, <1>3, <1>7, <1>8, <1>9 DEF Framing
  <1> QED BY <1>10, <1>11

\* What read_bytes finds when the front of the buffer is the prefix of message i.
LEMMA Front ==
    ASSUME Inv, NEW i \in Current, Buffered > PrefixOf(i)
    PROVE  /\ i \in 1..Len(sent) /\ begin[i] = position
           /\ Available(i) \in Nat \ {0} /\ Left(i) \in Nat
           /\ Available(i) <= sent[i].size /\ Available(i) + PrefixOf(i) <= Buffered
           /\ Left(i) = sent[i].size - Available(i)
           /\ Left(i) > 0 => Available(i) = Buffered - PrefixOf(i)
           /\ Buffered >= PrefixOf(i) + sent[i].size =>
                Available(i) = sent[i].size /\ Left(i) = 0
           /\ Buffered < PrefixOf(i) + sent[i].size =>
                Left(i) > 0 /\ Buffered + Left(i) = PrefixOf(i) + sent[i].size
  <1> USE DEF Inv
  <1>1. i \in 1..Len(sent) /\ begin[i] = position
    BY DEF Current
  <1>2. PrefixOf(i) \in Nat /\ sent[i].size \in Nat \ {0}
    BY <1>1, Messaging DEF Framing, Message
  <1>3. Buffered \in Nat
    BY SequenceTyped DEF Buffered
  <1>4. PICK h \in Nat, z \in Nat \ {0}, f \in Nat :
          h = PrefixOf(i) /\ z = sent[i].size /\ f = Buffered
    BY <1>2, <1>3
  <1>5. /\ Available(i) = Least(z, f - h) /\ Left(i) = z - Least(z, f - h) /\ f > h
    BY <1>4 DEF Available, Left
  <1>6. /\ Least(z, f - h) \in Nat \ {0} /\ Least(z, f - h) <= z /\ Least(z, f - h) + h <= f
        /\ z - Least(z, f - h) > 0 => Least(z, f - h) = f - h
        /\ f >= h + z => Least(z, f - h) = z
        /\ f < h + z => Least(z, f - h) < z /\ f + (z - Least(z, f - h)) = h + z
    BY <1>5 DEF Least
  <1>7. Left(i) \in Nat /\ (f >= h + z => Left(i) = 0) /\ (f < h + z => Left(i) > 0)
    BY <1>5, <1>6
  <1> QED BY <1>1, <1>4, <1>5, <1>6, <1>7

\* The prefix and what there is of message i leave the buffer.
LEMMA Advances ==
    ASSUME Inv, NEW i \in Current, Buffered > PrefixOf(i), Advance(i),
           UNCHANGED streamVars, received' = received
    PROVE  /\ position' \in 0..received' /\ received' \in 0..Total'
           /\ begin[i] < position' /\ position' <= begin[i + 1]
           /\ position' + Left(i) = begin[i + 1]
           /\ position' - begin[i] - PrefixOf(i) = Available(i)
           /\ Left(i) > 0 => Buffered' = 0
           /\ Buffered' \in Nat
           /\ ~(position' < received) => Buffered' = 0
  <1> USE DEF Inv
  <1>1. /\ i \in 1..Len(sent) /\ begin[i] = position
        /\ Available(i) \in Nat \ {0} /\ Left(i) \in Nat
        /\ Available(i) <= sent[i].size /\ Available(i) + PrefixOf(i) <= Buffered
        /\ Left(i) = sent[i].size - Available(i)
        /\ Left(i) > 0 => Available(i) = Buffered - PrefixOf(i)
    BY Front
  <1>2. /\ PrefixOf(i) \in Nat /\ sent[i].size \in Nat /\ begin[i] \in Nat
        /\ begin[i + 1] = begin[i] + PrefixOf(i) + sent[i].size
    BY <1>1, Messaging DEF Framing, Message
  <1>3. received \in Nat /\ position \in Nat /\ Total \in Nat /\ received <= Total /\ Total' = Total
    BY SequenceTyped, StreamStays DEF Framing
  <1>4. PICK h \in Nat, z \in Nat, a \in Nat \ {0}, l \in Nat, b \in Nat, r \in Nat :
          /\ h = PrefixOf(i) /\ z = sent[i].size /\ a = Available(i) /\ l = Left(i)
          /\ b = begin[i] /\ r = received
    BY <1>1, <1>2, <1>3, Zenon
  <1>5. /\ position' = b + h + a /\ begin[i + 1] = b + h + z /\ l = z - a /\ a <= z
        /\ a + h <= r - b
        /\ l > 0 => a = r - b - h
    BY <1>1, <1>2, <1>4 DEF Advance, Buffered
  <1>6. /\ b + h + a \in Nat /\ b + h + a <= r /\ b < b + h + a /\ b + h + a <= b + h + z
        /\ b + h + a + l = b + h + z /\ b + h + a - b - h = a
        /\ l > 0 => r - (b + h + a) = 0
    BY <1>5
  <1>7. position' \in 0..received' /\ received' \in 0..Total'
    BY <1>3, <1>4, <1>5, <1>6
  <1>8. begin[i] < position' /\ position' <= begin[i + 1] /\ position' + Left(i) = begin[i + 1]
    BY <1>4, <1>5, <1>6
  <1>9. position' - begin[i] - PrefixOf(i) = Available(i)
    <2>1. position' = b + h + a /\ begin[i] = b /\ PrefixOf(i) = h /\ Available(i) = a
      BY <1>4, <1>5
    <2> QED BY <2>1, <1>6
  <1>10. Left(i) > 0 => Buffered' = 0
    BY <1>4, <1>5, <1>6 DEF Buffered
  <1>11. Buffered' \in Nat
    BY <1>4, <1>5, <1>6 DEF Buffered
  <1>12. ~(position' < received) => Buffered' = 0
    BY <1>4, <1>5, <1>6 DEF Buffered
  <1> QED BY <1>7, <1>8, <1>9, <1>10, <1>11, <1>12

\* What there is of message i is handed on.
LEMMA HandOver ==
    ASSUME Inv, NEW i \in Current, Buffered > PrefixOf(i), ~Skipped(i), Advance(i),
           UNCHANGED streamVars, received' = received,
           delivered' = [delivered EXCEPT ![i] = Available(i)]
    PROVE  AllHanded' /\ delivered' \in Seq(Nat) /\ Len(delivered') = Len(sent)
  <1> USE DEF Inv
  <1>1. /\ i \in 1..Len(sent) /\ begin[i] = position
        /\ Available(i) \in Nat /\ Left(i) = sent[i].size - Available(i)
    BY Front
  <1>2. /\ position' \in Nat /\ begin[i] < position' /\ position' <= begin[i + 1]
        /\ position' + Left(i) = begin[i + 1]
        /\ position' - begin[i] - PrefixOf(i) = Available(i)
    BY Advances
  <1>3. delivered \in Seq(Nat) /\ Len(delivered) = Len(sent)
    BY DEF TypeOK
  <1>4. /\ delivered' \in Seq(Nat) /\ Len(delivered') = Len(sent)
        /\ delivered'[i] = Available(i)
        /\ \A j \in 1..Len(sent) : j # i => delivered'[j] = delivered[j]
    BY <1>1, <1>3, ExceptSeq
  <1>5. /\ begin[i] \in Nat /\ begin[i + 1] \in Nat /\ sent[i].size \in Nat
        /\ sent' = sent /\ begin' = begin /\ PrefixOf(i)' = PrefixOf(i) /\ ~Skipped(i)'
    BY <1>1, Messaging, StreamStays DEF Framing, Message
  <1>6. begin[i + 1] <= position' => Available(i) = sent[i].size
    BY <1>1, <1>2, <1>5, SMTT(30)
  <1>7. delivered'[i] = Handed(i)'
    <2>1. ~(position' <= begin[i])
      BY <1>2, <1>5
    <2> QED BY <2>1, <1>2, <1>4, <1>5, <1>6 DEF Handed
  <1>8. begin[i] <= position /\ position <= position'
    BY <1>1, <1>2, <1>5, SMTT(30)
  <1> QED BY <1>1, <1>2, <1>4, <1>7, <1>8, MoveInside DEF Framing

\* read_bytes on the front of the buffer: nothing yet, skip, forward, whole packet, part of one.
LEMMA ReadPrefixKeeps ==
    ASSUME Inv, ReadPrefix
    PROVE  Inv'
  <1> USE DEF Inv
  <1>1. poll = "buffer" /\ state.name = "prefix" /\ UNCHANGED streamVars /\ received' = received
    BY ZenonT(40) DEF ReadPrefix
  <1>2. Offsets /\ AllHanded /\ Place /\ Waiting /\ state = Awaiting
    BY <1>1, Zenon DEF Framing, Place
  <1>3. /\ Offsets' /\ Total' = Total /\ sent' = sent /\ begin' = begin
        /\ \A i \in 1..Len(sent) : PrefixOf(i)' = PrefixOf(i) /\ (Skipped(i)' <=> Skipped(i))
    BY <1>1, <1>2, StreamStays, ZenonT(40)
  <1>4. PICK i \in Current :
          \/ /\ \/ Buffered <= PrefixOf(i)
                \/ sent[i].kind = "forward" /\ Buffered < PrefixOf(i) + HeaderSize
             /\ poll' = "stream"
             /\ UNCHANGED <<position, state, delivered>>
          \/ /\ Buffered > PrefixOf(i) /\ Skipped(i)
             /\ Advance(i)
             /\ state' = State("discarding", Left(i))
             /\ poll' = "stream"
             /\ UNCHANGED delivered
          \/ /\ sent[i].kind = "forward" /\ Buffered >= PrefixOf(i) + HeaderSize
             /\ Advance(i)
             /\ state' = IF Left(i) > 0 THEN State("forwarding", Left(i)) ELSE Awaiting
             /\ delivered' = [delivered EXCEPT ![i] = Available(i)]
             /\ PollAgain
          \/ /\ sent[i].kind = "packet" /\ ~Skipped(i)
             /\ Buffered >= PrefixOf(i) + sent[i].size
             /\ Advance(i)
             /\ delivered' = [delivered EXCEPT ![i] = sent[i].size]
             /\ PollAgain
             /\ UNCHANGED state
          \/ /\ sent[i].kind = "packet" /\ ~Skipped(i)
             /\ Buffered > PrefixOf(i) /\ Buffered < PrefixOf(i) + sent[i].size
             /\ state' = State("buffering", Left(i))
             /\ poll' = "stream"
             /\ UNCHANGED <<position, delivered>>
    BY DEF ReadPrefix
  <1>5. i \in 1..Len(sent) /\ begin[i] = position /\ Current = {i}
    BY <1>2, OneCurrent DEF Current
  <1>6. Message(i)
    BY <1>2, <1>5, Messaging
  <1>7. /\ PrefixOf(i) \in Nat \ {0} /\ sent[i].size \in Nat \ {0}
        /\ begin[i] \in Nat /\ begin[i + 1] \in Nat /\ begin[i] < begin[i + 1]
        /\ begin[i + 1] = begin[i] + PrefixOf(i) + sent[i].size
        /\ sent[i].kind = "forward" => sent[i].size >= HeaderSize
    BY <1>6 DEF Message
  <1>8. /\ received \in Nat /\ position \in Nat /\ Buffered \in Nat /\ HeaderSize \in Nat \ {0}
        /\ delivered \in Seq(Nat) /\ Len(delivered) = Len(sent)
    BY SequenceTyped, CodecAssumption DEF TypeOK, Buffered
  <1>9. CASE /\ \/ Buffered <= PrefixOf(i)
                \/ sent[i].kind = "forward" /\ Buffered < PrefixOf(i) + HeaderSize
             /\ poll' = "stream"
             /\ UNCHANGED <<position, state, delivered>>
    <2>1. TypeOK'
      BY <1>1, <1>3, <1>9, ZenonT(40) DEF TypeOK
    <2>2. AllHanded' /\ Place'
      BY <1>1, <1>2, <1>3, <1>9 DEF AllHanded, Handed, Place, AtPrefix, Awaiting, State
    <2>3. Buffered < PrefixOf(i) + sent[i].size
      BY <1>7, <1>8, <1>9, SMTT(30)
    <2>4. Current' = {i} /\ Buffered' = Buffered /\ state'.read = 0
      BY <1>1, <1>2, <1>3, <1>5, <1>9 DEF Current, Buffered, Awaiting, State
    <2>5. Waiting'
      BY <2>3, <2>4, <1>3, <1>5 DEF Waiting
    <2> QED BY <2>1, <2>2, <2>5, <1>3 DEF Framing
  <1>10. CASE /\ Buffered > PrefixOf(i) /\ Skipped(i)
              /\ Advance(i)
              /\ state' = State("discarding", Left(i))
              /\ poll' = "stream"
              /\ UNCHANGED delivered
    <2>1. /\ position' \in 0..received' /\ received' \in 0..Total'
          /\ begin[i] < position' /\ position' <= begin[i + 1]
          /\ position' + Left(i) = begin[i + 1]
          /\ Left(i) > 0 => Buffered' = 0
          /\ Buffered' \in Nat
      BY <1>1, <1>10, Advances, ZenonT(40)
    <2>2. Left(i) \in Nat
      BY <1>10, Front
    <2>3. state'.name = "discarding" /\ state'.left = Left(i) /\ state'.read = 0
      BY <1>10 DEF State
    <2>4. TypeOK'
      BY <1>3, <1>10, <2>1, <2>2 DEF TypeOK, State
    <2>5. AllHanded'
      <3>1. Handed(i)' = 0 /\ Handed(i) = 0
        BY <1>3, <1>5, <1>10 DEF Handed
      <3>2. delivered'[i] = Handed(i)'
        BY <3>1, <1>2, <1>5, <1>10 DEF AllHanded
      <3>3. /\ position' \in Nat /\ begin[i] <= position
            /\ position <= position' /\ position' <= begin[i + 1]
        BY <2>1, <1>1, <1>5, <1>7, <1>8, SMTT(30)
      <3> QED BY <3>2, <3>3, <1>1, <1>2, <1>5, <1>10, MoveInside
    <2>6. InRest(i)'
      BY <2>1, <2>2, <2>3, <1>3 DEF InRest
    <2>7. Place'
      BY <2>2, <2>3, <2>6, <1>3, <1>5, <1>10 DEF Place
    <2>8. Waiting'
      BY <2>3 DEF Waiting
    <2> QED BY <2>4, <2>5, <2>7, <2>8, <1>3 DEF Framing
  <1>11. CASE /\ sent[i].kind = "forward" /\ Buffered >= PrefixOf(i) + HeaderSize
              /\ Advance(i)
              /\ state' = IF Left(i) > 0 THEN State("forwarding", Left(i)) ELSE Awaiting
              /\ delivered' = [delivered EXCEPT ![i] = Available(i)]
              /\ PollAgain
    <2>1. Buffered > PrefixOf(i) /\ ~Skipped(i)
      BY <1>7, <1>8, <1>11, SMTT(30) DEF Skipped
    <2>2. /\ position' \in 0..received' /\ received' \in 0..Total'
          /\ begin[i] < position' /\ position' + Left(i) = begin[i + 1]
          /\ Left(i) > 0 => Buffered' = 0
          /\ Buffered' \in Nat
          /\ ~(position' < received) => Buffered' = 0
      BY <1>1, <1>11, <2>1, Advances, ZenonT(40)
    <2>3. Left(i) \in Nat
      BY <2>1, Front
    <2>4. AllHanded' /\ delivered' \in Seq(Nat) /\ Len(delivered') = Len(sent)
      BY <1>1, <1>11, <2>1, HandOver, Zenon
    <2>5. TypeOK'
      BY <1>3, <1>11, <2>2, <2>3, <2>4 DEF TypeOK, State, Awaiting, PollAgain
    <2>6. Waiting'
      <3>1. CASE position' < received
        BY <3>1, <1>11 DEF PollAgain, Waiting
      <3>2. CASE ~(position' < received)
        <4>1. Buffered' = 0
          BY <3>2, <2>2
        <4>2. state'.read = 0
          BY <1>11 DEF State, Awaiting
        <4> QED BY <4>1, <4>2, <1>1, <1>2, EmptyBuffer
      <3> QED BY <3>1, <3>2
    <2>7. CASE Left(i) > 0
      <3>1. /\ state'.name = "forwarding" /\ state'.left = Left(i) /\ state'.read = 0
        BY <2>7, <1>11 DEF State
      <3>2. InRest(i)'
        BY <3>1, <2>2, <2>3, <1>3, SMTT(30) DEF InRest
      <3>3. Place'
        BY <3>1, <3>2, <2>3, <2>7, <1>3, <1>5, <1>11, SMTT(30) DEF Place
      <3> QED BY <3>3, <2>4, <2>5, <2>6, <1>3, ZenonT(40) DEF Framing
    <2>8. CASE ~(Left(i) > 0)
      <3>1. state' = Awaiting /\ position' = begin[i + 1]
        BY <2>2, <2>3, <2>8, <1>1, <1>7, <1>8, <1>11
      <3>2. Place'
        BY <3>1, <1>1, <1>2, <1>5, AtTheEnd
      <3> QED BY <3>2, <2>4, <2>5, <2>6, <1>3 DEF Framing
    <2> QED BY <2>7, <2>8
  <1>12. CASE /\ sent[i].kind = "packet" /\ ~Skipped(i)
              /\ Buffered >= PrefixOf(i) + sent[i].size
              /\ Advance(i)
              /\ delivered' = [delivered EXCEPT ![i] = sent[i].size]
              /\ PollAgain
              /\ UNCHANGED state
    <2>1. Buffered > PrefixOf(i) /\ Available(i) = sent[i].size /\ Left(i) = 0
      <3>1. Buffered > PrefixOf(i)
        BY <1>7, <1>8, <1>12, SMTT(30)
      <3> QED BY <3>1, <1>12, Front
    <2>2. /\ position' \in 0..received' /\ received' \in 0..Total'
          /\ position' + Left(i) = begin[i + 1]
          /\ ~(position' < received) => Buffered' = 0
      BY <1>1, <1>12, <2>1, Advances
    <2>3. position' = begin[i + 1]
      BY <2>1, <2>2, <1>1, <1>8, SMTT(30)
    <2>4. AllHanded' /\ delivered' \in Seq(Nat) /\ Len(delivered') = Len(sent)
      BY <1>1, <1>12, <2>1, HandOver, ZenonT(40)
    <2>5. TypeOK'
      BY <1>3, <1>12, <2>2, <2>4 DEF TypeOK, PollAgain
    <2>6. Waiting'
      <3>1. CASE position' < received
        BY <3>1, <1>12 DEF PollAgain, Waiting
      <3>2. CASE ~(position' < received)
        <4>1. Buffered' = 0
          BY <3>2, <2>2, ZenonT(40)
        <4>2. state'.read = 0
          BY <1>2, <1>12, ZenonT(40) DEF State, Awaiting
        <4> QED BY <4>1, <4>2, <1>1, <1>2, EmptyBuffer
      <3> QED BY <3>1, <3>2
    <2>7. Place'
      BY <2>3, <1>1, <1>2, <1>5, <1>12, AtTheEnd, ZenonT(40)
    <2> QED BY <2>4, <2>5, <2>6, <2>7, <1>3, ZenonT(40) DEF Framing
  <1>13. CASE /\ sent[i].kind = "packet" /\ ~Skipped(i)
              /\ Buffered > PrefixOf(i) /\ Buffered < PrefixOf(i) + sent[i].size
              /\ state' = State("buffering", Left(i))
              /\ poll' = "stream"
              /\ UNCHANGED <<position, delivered>>
    <2>1. /\ Left(i) \in Nat \ {0}
          /\ Buffered + Left(i) = PrefixOf(i) + sent[i].size
      BY <1>13, Front
    <2>2. state'.name = "buffering" /\ state'.left = Left(i) /\ state'.read = 0
      BY <1>13 DEF State
    <2>3. TypeOK'
      BY <1>1, <1>3, <1>13, <2>1, ZenonT(40) DEF TypeOK, State
    <2>4. AllHanded'
      BY <1>2, <1>3, <1>13 DEF AllHanded, Handed
    <2>5. InPacket(i)'
      <3>1. Buffered' = Buffered
        BY <1>1, <1>13, ZenonT(40) DEF Buffered
      <3> QED BY <3>1, <2>1, <2>2, <1>3, <1>5, <1>8, <1>13 DEF InPacket
    <2>6. Place'
      BY <2>1, <2>2, <2>5, <1>3, <1>5 DEF Place
    <2>7. Waiting'
      BY <2>2 DEF Waiting
    <2> QED BY <2>3, <2>4, <2>6, <2>7, <1>3 DEF Framing
  <1> QED BY <1>4, <1>9, <1>10, <1>11, <1>12, <1>13

-----------------------------------------------------------------------------
(***************************************************************************)
(* The theorems.                                                           *)
(***************************************************************************)

\* The decoder starts at the beginning of a message.
LEMMA InitKeeps == Init => Inv
  <1> SUFFICES ASSUME Init PROVE Inv
    OBVIOUS
  <1>1. /\ sent = <<>> /\ begin = <<0>> /\ received = 0 /\ position = 0 /\ state = Awaiting
        /\ poll = "stream" /\ delivered = <<>>
    BY DEF Init
  <1>2. Len(sent) = 0 /\ Len(begin) = 1 /\ begin[1] = 0 /\ Len(delivered) = 0 /\ Total = 0
    BY <1>1 DEF Total
  <1>3. sent \in Seq(Messages) /\ begin \in Seq(Nat) /\ delivered \in Seq(Nat)
    BY <1>1
  <1>4. TypeOK
    BY <1>1, <1>2, <1>3 DEF TypeOK, Awaiting, State
  <1>5. Offsets
    BY <1>2 DEF Offsets
  <1>6. AllHanded
    BY <1>2 DEF AllHanded
  <1>7. Place
    BY <1>1, <1>2 DEF Place, AtPrefix, Awaiting, State
  <1>8. Waiting
    BY <1>1, <1>2 DEF Waiting, Current, Awaiting, State
  <1> QED BY <1>4, <1>5, <1>6, <1>7, <1>8 DEF Inv, Framing

\* Every step of the sender, of the network and of DecoderStream keeps the framing.
LEMMA StepKeeps == Inv /\ [Next]_vars => Inv'
  <1> SUFFICES ASSUME Inv, [Next]_vars PROVE Inv'
    OBVIOUS
  <1>1. ASSUME NEW m \in Messages, Send(m) PROVE Inv'
    BY <1>1, SendKeeps
  <1>2. CASE ReadPrefix
    BY <1>2, ReadPrefixKeeps
  <1>3. CASE Buffering
    BY <1>3, BufferingKeeps
  <1>4. CASE Forwarding
    BY <1>4, ForwardingKeeps
  <1>5. CASE Discarding
    BY <1>5, DiscardingKeeps
  <1>6. ASSUME NEW n \in 1..MaxChunk, Receive(n) PROVE Inv'
    BY <1>6, ReceiveKeeps, ZenonT(40)
  <1>7. CASE UNCHANGED vars
    BY <1>7, ZenonT(40) DEF vars, Inv, TypeOK, Total, Framing, Offsets, PrefixOf, AllHanded, Handed, Skipped,
              Place, AtPrefix, InPacket, InRest, Buffered, Waiting, Current
  <1> QED BY <1>1, <1>2, <1>3, <1>4, <1>5, <1>6, <1>7 DEF Next

(***************************************************************************)
(* The invariant, in every state.                                          *)
(***************************************************************************)
THEOREM InvCorrect == Spec => []Inv
  BY InitKeeps, StepKeeps, PTL DEF Spec

(***************************************************************************)
(* What is left of a message and what was read of it never go below zero,  *)
(* and bytes do not leave the buffer before they are in it (DecoderStream).*)
(***************************************************************************)
THEOREM TypeCorrect == Spec => []TypeOK
  <1>1. Inv => TypeOK
    BY DEF Inv
  <1> QED BY <1>1, InvCorrect, PTL

(***************************************************************************)
(* However the stream is cut, poll_next reads a length prefix only where a *)
(* message begins.                                                         *)
(***************************************************************************)
THEOREM InSyncCorrect == Spec => []InSync
  <1>1. Inv => InSync
    <2> SUFFICES ASSUME Inv, state.name \in {"prefix", "buffering"}, position < Total
                 PROVE  Current # {}
      BY DEF InSync
    <2>1. CASE state.name = "buffering"
      BY <2>1 DEF Inv, Framing, Place, InPacket, Current
    <2>2. CASE state.name = "prefix"
      <3>1. PICK i \in 1..Len(begin) : begin[i] = position
        BY <2>2 DEF Inv, Framing, Place, AtPrefix
      <3>2. /\ Len(begin) = Len(sent) + 1 /\ Len(sent) \in Nat
            /\ position \in Nat /\ Total \in Nat /\ Total = begin[Len(sent) + 1]
        BY SequenceTyped DEF Inv, Total
      <3>3. i # Len(sent) + 1
        BY <3>1, <3>2
      <3> QED BY <3>1, <3>2, <3>3 DEF Current
    <2> QED BY <2>1, <2>2
  <1> QED BY <1>1, InvCorrect, PTL

(***************************************************************************)
(* Every packet and forward behind the decoder was handed on whole, each   *)
(* byte once; of the messages to skip nothing was (poll_next, read_bytes). *)
(***************************************************************************)
THEOREM WholeOrSkippedCorrect == Spec => []WholeOrSkipped
  <1>1. Inv => WholeOrSkipped
    <2> SUFFICES ASSUME Inv, NEW i \in 1..Len(sent), begin[i + 1] <= position
                 PROVE  delivered[i] = IF Skipped(i) THEN 0 ELSE sent[i].size
      BY DEF WholeOrSkipped
    <2>1. begin[i] \in Nat /\ begin[i + 1] \in Nat /\ begin[i] < begin[i + 1] /\ position \in Nat
      BY Messaging, SequenceTyped DEF Inv, Framing, Message
    <2>2. ~(position <= begin[i])
      BY <2>1
    <2> QED BY <2>2 DEF Inv, Framing, AllHanded, Handed
  <1> QED BY <1>1, InvCorrect, PTL

(***************************************************************************)
(* When the whole stream is read and poll_next waits for more, nothing of  *)
(* it is held back: the stream ends where a message ends, so the decoder   *)
(* is at that end.                                                         *)
(***************************************************************************)
LEMMA DrainedAtTheEnd ==
    ASSUME Inv, Drained, \A i \in 1..Len(sent) : ~Skipped(i)
    PROVE  position = Total
  <1> USE DEF Inv
  <1>1. /\ received = Total /\ received \in Nat /\ position \in Nat /\ position <= received
        /\ Total \in Nat /\ Len(sent) \in Nat /\ Len(begin) = Len(sent) + 1
        /\ poll = "stream" /\ Buffered = Total - position
    BY SequenceTyped DEF Drained, Buffered
  <1>2. Offsets /\ Place /\ Waiting /\ state.read = 0 /\ state.left \in Nat
    BY <1>1 DEF Framing, Waiting, TypeOK
  <1>3. ASSUME NEW i \in 1..Len(sent)
        PROVE  /\ begin[i] \in Nat /\ begin[i + 1] \in Nat /\ begin[i + 1] <= Total
               /\ begin[i + 1] = begin[i] + PrefixOf(i) + sent[i].size
               /\ PrefixOf(i) \in Nat /\ sent[i].size \in Nat
    BY <1>2, Messaging DEF Message
  <1>4. CASE state.name = "prefix"
    <2>1. PICK i \in 1..Len(begin) : begin[i] = position
      BY <1>2, <1>4 DEF Place, AtPrefix
    <2>2. CASE i = Len(sent) + 1
      BY <2>1, <2>2 DEF Total
    <2>3. CASE i # Len(sent) + 1
      <3>1. i \in 1..Len(sent) /\ i \in Current
        BY <2>1, <2>3, <1>1 DEF Current
      <3>2. Buffered < PrefixOf(i) + sent[i].size
        BY <3>1, <1>1, <1>2, <1>4 DEF Waiting
      <3> QED BY <3>1, <3>2, <2>1, <1>1, <1>3, SMTT(30)
    <2> QED BY <2>2, <2>3
  <1>5. CASE state.name = "buffering"
    <2>1. PICK i \in 1..Len(sent) : InPacket(i)
      BY <1>2, <1>5 DEF Place
    <2>2. Buffered + state.left = PrefixOf(i) + sent[i].size /\ state.left > 0 /\ begin[i] = position
      BY <2>1, <1>1, <1>2 DEF InPacket
    <2>3. PICK h \in Nat, z \in Nat, b \in Nat, t \in Nat, l \in Nat :
            /\ h = PrefixOf(i) /\ z = sent[i].size /\ b = begin[i] /\ t = Total
            /\ l = state.left
      BY <1>1, <1>2, <1>3, Zenon
    <2>4. t - b + l = h + z /\ l > 0 /\ b + h + z <= t
      BY <2>2, <2>3, <1>1, <1>3, Zenon
    <2> QED BY <2>4
  <1>6. CASE state.name = "forwarding"
    <2>1. PICK i \in 1..Len(sent) : InRest(i) /\ state.left > 0
      BY <1>2, <1>6 DEF Place
    <2>2. position + state.left = begin[i + 1] /\ Buffered = 0
      BY <2>1, <1>2 DEF InRest
    <2> QED BY <2>1, <2>2, <1>1, <1>2, <1>3
  <1>7. CASE state.name = "discarding"
    BY <1>2, <1>7 DEF Place
  <1> QED BY <1>4, <1>5, <1>6, <1>7 DEF TypeOK

(***************************************************************************)
(* A stream of packets and forwards that is read to its end has been       *)
(* handed on in full: poll_next leaves no complete message in the buffer.  *)
(***************************************************************************)
THEOREM AllArriveCorrect == Spec => []AllArrive
  <1>1. Inv => AllArrive
    <2> SUFFICES ASSUME Inv, Drained, \A i \in 1..Len(sent) : ~Skipped(i),
                        NEW i \in 1..Len(sent)
                 PROVE  delivered[i] = sent[i].size
      BY DEF AllArrive
    <2>1. position = Total
      BY DrainedAtTheEnd
    <2>2. /\ begin[i] \in Nat /\ begin[i + 1] \in Nat /\ begin[i] < begin[i + 1]
          /\ begin[i + 1] <= Total /\ Total \in Nat
      BY Messaging DEF Inv, Framing, Message
    <2>3. ~(position <= begin[i]) /\ begin[i + 1] <= position
      BY <2>1, <2>2
    <2> QED BY <2>3 DEF Inv, Framing, AllHanded, Handed
  <1> QED BY <1>1, InvCorrect, PTL

-----------------------------------------------------------------------------
(* The slot table *)

\* Loading numbers the nodes of a file by their position.
LEMMA NumberingCorrect ==
    ASSUME NEW r \in Seq(NodeIds), Distinct(r)
    PROVE  /\ DOMAIN Numbering(r) = {r[i] : i \in 1..Len(r)}
           /\ Numbering(r) \in [DOMAIN Numbering(r) -> Nat]
           /\ DOMAIN Numbering(r) \subseteq NodeIds
           /\ \A i \in 1..Len(r) : Numbering(r)[r[i]] = i - 1
  <1> DEFINE Last(n, i) == r[i] = n /\ \A j \in 1..Len(r) : r[j] = n => j <= i
  <1> DEFINE Pick(n) == CHOOSE i \in 1..Len(r) : Last(n, i)
  <1>1. ASSUME NEW i \in 1..Len(r)
        PROVE  Pick(r[i]) = i
    <2>1. Last(r[i], i)
      BY DEF Distinct
    <2>2. \A j \in 1..Len(r) : Last(r[i], j) => j = i
      BY DEF Distinct
    <2> HIDE DEF Last
    <2> QED BY <2>1, <2>2
  <1>2. Numbering(r) = [n \in {r[i] : i \in 1..Len(r)} |-> Pick(n) - 1]
    BY DEF Numbering
  <1> HIDE DEF Pick
  <1>3. DOMAIN Numbering(r) = {r[i] : i \in 1..Len(r)}
    BY <1>2
  <1>4. \A i \in 1..Len(r) : Numbering(r)[r[i]] = i - 1
    BY <1>1, <1>2
  <1>5. \A n \in DOMAIN Numbering(r) : Numbering(r)[n] \in Nat
    BY <1>3, <1>4
  <1>6. Numbering(r) = [n \in DOMAIN Numbering(r) |-> Numbering(r)[n]]
    BY <1>2, <1>3
  <1> QED BY <1>3, <1>4, <1>5, <1>6

\* What a load reads are different nodes.
LEMMA LoadedTableCorrect ==
    ASSUME SlotTypeOK, SlotInvariant
    PROVE  LoadedTable \in Seq(NodeIds) /\ Distinct(LoadedTable)
  <1>1. NewTable \in Seq(NodeIds) /\ Distinct(NewTable)
    BY SlotAssumption DEF NewTable, Distinct
  <1>2. file \in Seq(NodeIds) /\ Distinct(file)
    BY DEF SlotTypeOK, SlotInvariant, FileInvariant
  <1> QED BY <1>1, <1>2 DEF LoadedTable

\* A buffer holds a record at least.
LEMMA PerBufferPositive == PerBuffer \in Nat \ {0}
  BY SlotAssumption, Z3 DEF PerBuffer

\* The slot manager starts with inverse maps.
LEMMA InitCorrect == SlotInit => SlotTypeOK /\ SlotInvariant
  <1> SUFFICES ASSUME SlotInit
               PROVE  SlotTypeOK /\ SlotInvariant
    OBVIOUS
  <1>1. slots \in Seq(NodeIds) /\ Distinct(slots)
    BY SlotAssumption DEF SlotInit, NewTable, Distinct
  <1>2. nodes = Numbering(slots)
    BY DEF SlotInit
  <1>3. SlotBijection
    BY <1>1, <1>2, NumberingCorrect, Zenon DEF SlotBijection
  <1>4. SlotTypeOK
    <2>1. DOMAIN nodes \subseteq NodeIds /\ nodes \in [DOMAIN nodes -> Nat]
      BY <1>1, <1>2, NumberingCorrect, Zenon
    <2>2. <<>> \in Seq(NodeIds)
      OBVIOUS
    <2> QED BY <1>1, <2>1, <2>2, Zenon DEF SlotInit, SlotTypeOK, Phases
  <1>5. FileInvariant
    BY DEF SlotInit, FileInvariant, Distinct
  <1> QED BY <1>3, <1>4, <1>5 DEF SlotInvariant

\* What slot(n) does to the table.
LEMMA SlotStep ==
    ASSUME SlotTypeOK, SlotInvariant, NEW n \in NodeIds, Slot(n)
    PROVE  /\ slots' \in Seq(NodeIds)
           /\ DOMAIN nodes' \subseteq NodeIds
           /\ nodes' \in [DOMAIN nodes' -> Nat]
           /\ SlotBijection'
           /\ n \in DOMAIN nodes'
           /\ Len(slots) <= Len(slots')
           /\ \A i \in 1..Len(slots) : slots'[i] = slots[i]
           /\ phase = "writing" => slots' = slots
  <1>1. CASE n \in DOMAIN nodes
    BY <1>1 DEF Slot, table, SlotTypeOK, SlotInvariant, SlotBijection
  <1>2. CASE n \notin DOMAIN nodes
    <2>1. /\ slots' = Append(slots, n)
          /\ nodes' = [m \in DOMAIN nodes \cup {n} |-> IF m = n THEN Len(slots) ELSE nodes[m]]
          /\ phase # "writing"
      BY <1>2 DEF Slot
    <2>2. /\ slots' \in Seq(NodeIds) /\ Len(slots') = Len(slots) + 1
          /\ slots'[Len(slots) + 1] = n
          /\ \A i \in 1..Len(slots) : slots'[i] = slots[i]
      BY <2>1 DEF SlotTypeOK
    <2>3. \A i \in 1..Len(slots) : slots[i] \in DOMAIN nodes
      BY DEF SlotInvariant, SlotBijection
    <2>4. DOMAIN nodes' = DOMAIN nodes \cup {n} /\ nodes'[n] = Len(slots)
          /\ \A m \in DOMAIN nodes : nodes'[m] = nodes[m]
      BY <2>1, <1>2
    <2>5. DOMAIN nodes' = {slots'[i] : i \in 1..Len(slots')}
      <3>1. 1..Len(slots') = (1..Len(slots)) \cup {Len(slots) + 1}
        BY <2>2 DEF SlotTypeOK
      <3> QED BY <3>1, <2>2, <2>4 DEF SlotInvariant, SlotBijection
    <2>6. \A i \in 1..Len(slots') : nodes'[slots'[i]] = i - 1
      <3>1. ASSUME NEW i \in 1..Len(slots)
            PROVE  nodes'[slots'[i]] = i - 1
        BY <2>2, <2>3, <2>4, Zenon DEF SlotInvariant, SlotBijection
      <3>2. nodes'[slots'[Len(slots) + 1]] = (Len(slots) + 1) - 1
        BY <2>2, <2>4 DEF SlotTypeOK
      <3> QED BY <3>1, <3>2, <2>2 DEF SlotTypeOK
    <2>7. nodes' \in [DOMAIN nodes' -> Nat]
      BY <2>1, <2>4 DEF SlotTypeOK
    <2>8. SlotBijection'
      BY <2>5, <2>6 DEF SlotBijection
    <2>9. DOMAIN nodes' \subseteq NodeIds /\ n \in DOMAIN nodes'
      BY <2>4 DEF SlotTypeOK
    <2>10. Len(slots) <= Len(slots')
      BY <2>2 DEF SlotTypeOK
    <2> QED BY <2>1, <2>2, <2>7, <2>8, <2>9, <2>10
  <1> QED BY <1>1, <1>2

\* SlotManager::slot keeps the maps inverse.
LEMMA SlotCorrect ==
    ASSUME SlotTypeOK, SlotInvariant, NEW n \in NodeIds, Slot(n)
    PROVE  SlotTypeOK' /\ SlotInvariant'
  <1>1. UNCHANGED <<phase, exists, file, out>> /\ given' = given \cup {<<n, nodes'[n]>>}
    BY DEF Slot
  <1>2. <<n, nodes'[n]>> \in NodeIds \X Nat
    BY SlotStep
  <1>3. SlotTypeOK'
    BY <1>1, <1>2, SlotStep DEF SlotTypeOK
  <1>4. FileInvariant'
    <2>1. FileInvariant
      BY DEF SlotInvariant
    <2>2. /\ Len(slots) \in Nat /\ Len(slots') \in Nat /\ Len(out) \in Nat
          /\ Len(slots) <= Len(slots')
          /\ \A i \in 1..Len(slots) : slots'[i] = slots[i]
          /\ phase = "writing" => slots' = slots
      BY SlotStep DEF SlotTypeOK
    <2>3. Distinct(out)' /\ Distinct(file)'
      BY <1>1, <2>1 DEF FileInvariant, Distinct
    <2>4. phase \in {"writing", "flushing", "leaving"} =>
            /\ Len(out) <= Len(slots')
            /\ \A i \in 1..Len(out) : slots'[i] = out[i]
      BY <2>1, <2>2 DEF FileInvariant
    <2> QED BY <1>1, <2>1, <2>2, <2>3, <2>4 DEF FileInvariant
  <1> QED BY <1>3, <1>4, SlotStep DEF SlotInvariant

\* Saving, and what interrupts it, leaves the maps alone and writes different nodes.
LEMMA SaveCorrect ==
    ASSUME SlotTypeOK, SlotInvariant,
           Interrupt \/ WriteBuffer \/ LoopEnd \/ Flush \/ Exit \/ Crash
    PROVE  SlotTypeOK' /\ SlotInvariant'
  <1>1. UNCHANGED table
    BY DEF Interrupt, WriteBuffer, LoopEnd, Flush, Exit, Crash
  <1>2. SlotBijection' /\ Distinct(slots)
    <2>1. SlotBijection
      BY DEF SlotInvariant
    <2>2. slots' = slots /\ nodes' = nodes
      BY <1>1 DEF table
    <2>3. SlotBijection'
      BY <2>1, <2>2 DEF SlotBijection
    <2>4. Distinct(slots)
      <3>1. SUFFICES ASSUME NEW i \in 1..Len(slots), NEW j \in 1..Len(slots),
                            slots[i] = slots[j]
                     PROVE  i = j
        BY DEF Distinct
      <3>2. nodes[slots[i]] = i - 1 /\ nodes[slots[j]] = j - 1
        BY <2>1, Zenon DEF SlotBijection
      <3> QED
        BY <3>1, <3>2
    <2> QED
      BY <2>3, <2>4
  <1>3. CASE Interrupt
    BY <1>1, <1>2, <1>3 DEF Interrupt, table, SlotTypeOK, Phases, SlotInvariant, FileInvariant, Distinct
  <1>4. CASE WriteBuffer
    <2> DEFINE k == Len(file) + PerBuffer
    <2>1. k \in Nat /\ k < Len(out)
      BY <1>4, PerBufferPositive DEF WriteBuffer, SlotTypeOK
    <2>2. file' = SubSeq(out, 1, k)
      BY <1>4 DEF WriteBuffer
    <2> HIDE DEF k
    <2>3. file' \in Seq(NodeIds) /\ Len(file') = k /\ \A i \in 1..k : file'[i] = out[i]
      BY <2>1, <2>2 DEF SlotTypeOK
    <2>4. Distinct(file')
      <3>1. Distinct(out) /\ Len(out) \in Nat
        BY DEF SlotInvariant, FileInvariant, SlotTypeOK
      <3> SUFFICES ASSUME NEW i \in 1..k, NEW j \in 1..k, file'[i] = file'[j]
                   PROVE  i = j
        BY <2>3 DEF Distinct
      <3>2. i \in 1..Len(out) /\ j \in 1..Len(out) /\ out[i] = out[j]
        BY <2>1, <2>3, <3>1
      <3> QED BY <3>1, <3>2 DEF Distinct
    <2> QED BY <1>1, <1>2, <1>4, <2>3, <2>4
            DEF WriteBuffer, table, SlotTypeOK, SlotInvariant, FileInvariant
  <1>5. CASE LoopEnd
    BY <1>1, <1>2, <1>5 DEF LoopEnd, table, SlotTypeOK, Phases, SlotInvariant, FileInvariant
  <1>6. CASE Flush
    BY <1>1, <1>2, <1>6 DEF Flush, table, SlotTypeOK, Phases, SlotInvariant, FileInvariant
  <1>7. CASE Exit
    BY <1>1, <1>2, <1>7 DEF Exit, table, SlotTypeOK, Phases, SlotInvariant, FileInvariant
  <1>8. CASE Crash
    BY <1>1, <1>2, <1>8 DEF Crash, table, SlotTypeOK, Phases, SlotInvariant, FileInvariant
  <1> QED BY <1>3, <1>4, <1>5, <1>6, <1>7, <1>8

\* A start with the saved file has inverse maps.
LEMMA StartCorrect ==
    ASSUME SlotTypeOK, SlotInvariant, Start
    PROVE  SlotTypeOK' /\ SlotInvariant'
  <1>1. slots' = LoadedTable /\ nodes' = Numbering(slots')
    BY DEF Start
  <1>2. slots' \in Seq(NodeIds) /\ Distinct(slots')
    BY <1>1, LoadedTableCorrect
  <1>3. SlotBijection' /\ nodes' \in [DOMAIN nodes' -> Nat] /\ DOMAIN nodes' \subseteq NodeIds
    BY <1>1, <1>2, NumberingCorrect, Zenon DEF SlotBijection
  <1>4. SlotTypeOK'
    BY <1>2, <1>3 DEF Start, SlotTypeOK, Phases
  <1>5. FileInvariant'
    BY DEF Start, SlotInvariant, FileInvariant, Distinct
  <1> QED BY <1>3, <1>4, <1>5 DEF SlotInvariant

\* Every step keeps the maps inverse.
LEMMA NextCorrect == SlotTypeOK /\ SlotInvariant /\ [SlotNext]_slotVars => SlotTypeOK' /\ SlotInvariant'
  <1> SUFFICES ASSUME SlotTypeOK, SlotInvariant, [SlotNext]_slotVars
               PROVE  SlotTypeOK' /\ SlotInvariant'
    OBVIOUS
  <1>1. CASE UNCHANGED slotVars
    BY <1>1 DEF slotVars, SlotTypeOK, SlotInvariant, SlotBijection, FileInvariant, Distinct
  <1>2. CASE SlotNext
    BY <1>2, SlotCorrect, SaveCorrect, StartCorrect DEF SlotNext
  <1> QED BY <1>1, <1>2

(***************************************************************************)
(* The variables of the slot table keep their types.                       *)
(***************************************************************************)
THEOREM SlotTypeCorrect == SlotSpec => []SlotTypeOK
  <1>1. SlotSpec => [](SlotTypeOK /\ SlotInvariant)
    BY InitCorrect, NextCorrect, PTL DEF SlotSpec
  <1> QED BY <1>1, PTL

(***************************************************************************)
(* The two maps of SlotManager are inverse in every reachable state, with  *)
(* any interleaving of requests, saves, crashes and loads.                 *)
(***************************************************************************)
THEOREM SlotInvariantCorrect == SlotSpec => []SlotInvariant
  <1>1. SlotSpec => [](SlotTypeOK /\ SlotInvariant)
    BY InitCorrect, NextCorrect, PTL DEF SlotSpec
  <1> QED BY <1>1, PTL

(***************************************************************************)
(* A running server never gives a slot to another node.                    *)
(***************************************************************************)
THEOREM SlotsAreStableCorrect == SlotSpec => SlotsAreStable
  <1> DEFINE Stable == Running /\ Running' =>
                         \A i \in 1..Len(slots) : i <= Len(slots') /\ slots'[i] = slots[i]
  <1>1. SlotTypeOK /\ SlotInvariant /\ [SlotNext]_slotVars => [Stable]_slotVars
    <2> SUFFICES ASSUME SlotTypeOK, SlotInvariant, [SlotNext]_slotVars
                 PROVE  Stable \/ UNCHANGED slotVars
      OBVIOUS
    <2>1. ASSUME NEW n \in NodeIds, Slot(n)
          PROVE  Stable
      BY <2>1, SlotStep DEF SlotTypeOK
    <2>2. CASE Interrupt \/ WriteBuffer \/ LoopEnd \/ Flush \/ Exit \/ Crash
      BY <2>2 DEF Interrupt, WriteBuffer, LoopEnd, Flush, Exit, Crash, table, SlotTypeOK
    <2>3. CASE Start
      BY <2>3 DEF Start, Running
    <2> QED BY <2>1, <2>2, <2>3 DEF SlotNext
  <1>2. SlotSpec => [](SlotTypeOK /\ SlotInvariant)
    BY InitCorrect, NextCorrect, PTL DEF SlotSpec
  <1> QED BY <1>1, <1>2, PTL DEF SlotSpec, SlotsAreStable

\* A node keeps the slot it was given, when records fill buffers exactly.
LEMMA GivenStep ==
    ASSUME BufferSize % RecordSize = 0,
           SlotTypeOK, SlotInvariant, GivenInvariant, [SlotNext]_slotVars
    PROVE  GivenInvariant'
  <1> DEFINE In(g, t) == g[2] + 1 <= Len(t) /\ t[g[2] + 1] = g[1]
  <1>0. \A g \in given : g[2] \in Nat
    BY DEF SlotTypeOK
  <1>1. ASSUME NEW n \in NodeIds, Slot(n)
        PROVE  GivenInvariant'
    <2>1. Running /\ Running'
      BY <1>1 DEF Slot, Running
    <2>2. /\ SlotBijection' /\ slots' \in Seq(NodeIds) /\ n \in DOMAIN nodes'
          /\ Len(slots) <= Len(slots') /\ \A i \in 1..Len(slots) : slots'[i] = slots[i]
      BY <1>1, SlotStep
    <2>3. PICK i \in 1..Len(slots') : slots'[i] = n
      BY <2>2 DEF SlotBijection
    <2>4. nodes'[n] = i - 1
      BY <2>2, <2>3 DEF SlotBijection
    <2>5. In(<<n, nodes'[n]>>, slots')
      BY <2>2, <2>3, <2>4
    <2>6. ASSUME NEW g \in given
          PROVE  In(g, slots')
      <3>1. g[2] + 1 \in 1..Len(slots) /\ slots[g[2] + 1] = g[1]
        BY <1>0, <2>1 DEF GivenInvariant, GivenSlotsResolve, SlotTypeOK
      <3> QED BY <3>1, <2>2 DEF SlotTypeOK
    <2>7. given' = given \cup {<<n, nodes'[n]>>}
      BY <1>1 DEF Slot
    <2> QED BY <2>1, <2>5, <2>6, <2>7 DEF GivenInvariant, GivenSlotsResolve
  <1>2. CASE Interrupt \/ WriteBuffer \/ LoopEnd \/ Flush
    BY <1>2 DEF Interrupt, WriteBuffer, LoopEnd, Flush, table, Running, GivenInvariant,
                GivenSlotsResolve
  <1>3. CASE Exit
    <2>1. /\ ~Running' /\ Running /\ exists' /\ file' = out
          /\ given' = {g \in given : g[2] < Len(out)}
          /\ Len(out) <= Len(slots) /\ \A i \in 1..Len(out) : slots[i] = out[i]
      BY <1>3 DEF Exit, Running, SlotInvariant, FileInvariant
    <2>2. ASSUME NEW g \in given'
          PROVE  In(g, out)
      <3>1. g \in given /\ g[2] + 1 \in 1..Len(out)
        BY <2>1, <1>0 DEF SlotTypeOK
      <3> QED BY <3>1, <2>1 DEF GivenInvariant, GivenSlotsResolve, SlotTypeOK
    <2> QED BY <2>1, <2>2 DEF GivenInvariant, GivenSlotsResolve
  <1>4. CASE Crash
    BY <1>4 DEF Crash, Running, GivenInvariant, GivenSlotsResolve
  <1>5. CASE Start
    <2>1. ~Running /\ Running' /\ given' = given /\ slots' = LoadedTable
      BY <1>5 DEF Start, Running
    <2>2. exists => LoadedTable = file
      BY DEF LoadedTable, ShortRead
    <2> QED BY <2>1, <2>2 DEF GivenInvariant, GivenSlotsResolve
  <1>6. CASE UNCHANGED slotVars
    BY <1>6 DEF slotVars, Running, GivenInvariant, GivenSlotsResolve
  <1> QED BY <1>1, <1>2, <1>3, <1>4, <1>5, <1>6 DEF SlotNext

(***************************************************************************)
(* If a buffer held a whole number of records, every slot that a client    *)
(* was told would resolve to the same node until the server crashes, also  *)
(* across orderly restarts.  (The sizes in the code are 8192 and 20.)      *)
(***************************************************************************)
THEOREM GivenSlotsResolveCorrect ==
    ASSUME BufferSize % RecordSize = 0
    PROVE  SlotSpec => []GivenSlotsResolve
  <1>1. SlotInit => GivenInvariant
    BY DEF SlotInit, GivenInvariant, GivenSlotsResolve, Running
  <1>2. SlotTypeOK /\ SlotInvariant /\ GivenInvariant /\ [SlotNext]_slotVars => GivenInvariant'
    BY GivenStep
  <1>3. GivenInvariant => GivenSlotsResolve
    BY DEF GivenInvariant
  <1>4. SlotSpec => [](SlotTypeOK /\ SlotInvariant)
    BY InitCorrect, NextCorrect, PTL DEF SlotSpec
  <1> QED BY <1>1, <1>2, <1>3, <1>4, PTL DEF SlotSpec


=============================================================================
