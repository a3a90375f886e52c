------------------------- MODULE WebSocketFramesProofs -------------------------
(***************************************************************************)
(* For every set of frames, every way to cut their bytes up and every      *)
(* number of them: the reader's types, its array bounds, that it never     *)
(* reads a size of more than 7 bits, and that it keeps the bytes in order  *)
(* until it puts fragments together.                                       *)
(***************************************************************************)
EXTENDS WebSocketFrames, WellFoundedInduction, SequenceTheorems, TLAPS

Content == Nat \X Nat
Plain == Content \cup {Garbage}
KeyByte == Content \cup {NoKey}
Byte == [hi: BOOLEAN, lo: 0..127, plain: Plain, key: KeyByte]

\* What the peer sent and the reader has not read.
PeerInv ==
  /\ count \in 0..MaxFrames
  /\ sent \in Seq(Seq(Content)) /\ frag \in Seq(Content) /\ whole \in BOOLEAN
  /\ wire \in Seq(Byte) /\ incomingDataBuffer \in Seq(Byte)

FlagsInv ==
  /\ connected \in BOOLEAN /\ finalized \in BOOLEAN /\ running \in BOOLEAN
  /\ processingIncomingData \in BOOLEAN /\ task \in {"none", "queued", "inside", "leaving"}
  /\ aborted \in BOOLEAN /\ overrun \in BOOLEAN /\ told \in Nat

ReachableStates == WebSocketStates \ {"WS_READ_16BIT_SIZE", "WS_READ_64BIT_SIZE"}

ReaderInv ==
  /\ webSocketState \in ReachableStates
  /\ ws_fin \in BOOLEAN
  /\ ws_packSize \in 0..125 /\ ws_tempIndex \in Nat /\ ws_totalPayload \in Nat
  /\ ws_mask \in [0..3 -> KeyByte]
  /\ ws_packPayload \in Seq(Plain)

\* IndexInBounds, and that the buffer always has as many bytes as the index says.
BoundsInv ==
  /\ webSocketState = "WS_READING_MASK_KEY" => ws_tempIndex < 4
  /\ webSocketState = "WS_READING_PAYLOAD" => Len(ws_packPayload) = ws_tempIndex
  /\ ws_packPayload # <<>> =>
       /\ webSocketState \in {"WS_READING_PAYLOAD", "WS_FINISHED"}
       /\ Len(ws_packPayload) = ws_tempIndex /\ ws_tempIndex < ws_packSize

IInv == PeerInv /\ FlagsInv /\ ReaderInv /\ BoundsInv

\* How many bytes a frame has behind its first two and the mask.
LEMMA FrameSizes ==
  ASSUME NEW f \in Frames
  PROVE  PayloadBytes(f) \in Nat /\ SizeBytes(f) \in Nat
<1>1. f.size \in Nat
  BY FramesAssumption
<1> QED BY <1>1 DEF PayloadBytes, SizeBytes

\* What the parts of the bytes of a frame are: the header, the size, the mask, the payload.
FrameShape(f, n, data, header, ext, mask, body) ==
  /\ Len(header) = 2 /\ header[1].hi = f.fin /\ header[2].hi = f.masked /\ header[2].lo = f.size
  /\ \A i \in 1..Len(header) : header[i].plain = Garbage
  /\ Len(ext) = SizeBytes(f)
  /\ \A i \in 1..Len(ext) : ext[i].plain = Garbage
  /\ Len(mask) = IF f.masked THEN 4 ELSE 0
  /\ \A i \in 1..Len(mask) : mask[i].plain = Garbage /\ (f.masked => mask[i].key = <<n, (i - 1) % 4>>)
  /\ Len(body) = PayloadBytes(f)
  /\ \A i \in 1..Len(body) : body[i].plain = data[i] /\ (f.masked => body[i].key = <<n, (i - 1) % 4>>)

\* The bytes of a frame are those four parts.
LEMMA FrameParts ==
  ASSUME NEW f \in Frames, NEW n \in Nat, NEW b \in Fillers, NEW data \in [1..PayloadBytes(f) -> Content]
  PROVE  \E header, ext, mask, body \in Seq(Byte) :
           /\ Bytes(f, n, data, b) = header \o ext \o mask \o body
           /\ FrameShape(f, n, data, header, ext, mask, body)
<1>1. /\ f.fin \in BOOLEAN /\ f.masked \in BOOLEAN /\ f.size \in 0..127
      /\ b.hi \in BOOLEAN /\ b.lo \in 0..127
  BY FramesAssumption
<1>2. PayloadBytes(f) \in Nat /\ SizeBytes(f) \in Nat
  BY FrameSizes
<1> DEFINE B(hi, lo, plain, key) == [hi |-> hi, lo |-> lo, plain |-> plain, key |-> key]
           Key(i) == IF f.masked THEN <<n, i % 4>> ELSE NoKey
           header == <<B(f.fin, 1, Garbage, NoKey), B(f.masked, f.size, Garbage, NoKey)>>
           ext == [i \in 1..SizeBytes(f) |-> B(FALSE, 0, Garbage, NoKey)]
           mask == [i \in 1..(IF f.masked THEN 4 ELSE 0) |-> B(b.hi, b.lo, Garbage, Key(i - 1))]
           body == [i \in 1..PayloadBytes(f) |-> B(b.hi, b.lo, data[i], Key(i - 1))]
<1>3. \A i \in Nat : Key(i) \in KeyByte /\ (f.masked => Key(i) = <<n, i % 4>>)
  BY DEF KeyByte, Content
<1>4. /\ header \in Seq(Byte) /\ Len(header) = 2
      /\ header[1].hi = f.fin /\ header[2].hi = f.masked /\ header[2].lo = f.size
      /\ \A i \in 1..Len(header) : header[i].plain = Garbage
  BY <1>1 DEF Byte, Plain, KeyByte
<1>5. ext \in Seq(Byte) /\ Len(ext) = SizeBytes(f) /\ \A i \in 1..Len(ext) : ext[i].plain = Garbage
  <2> DEFINE zero == B(FALSE, 0, Garbage, NoKey)
  <2>1. zero \in Byte /\ zero.plain = Garbage
    BY DEF Byte, Plain, KeyByte
  <2> HIDE DEF zero
  <2> DEFINE e == [i \in 1..SizeBytes(f) |-> zero]
  <2>2. e \in Seq(Byte) /\ Len(e) = SizeBytes(f) /\ \A i \in 1..Len(e) : e[i].plain = Garbage
    BY <1>2, <2>1
  <2> QED BY <2>2 DEF zero
<1>6. /\ mask \in Seq(Byte) /\ Len(mask) = IF f.masked THEN 4 ELSE 0
      /\ \A i \in 1..Len(mask) : mask[i].plain = Garbage /\ (f.masked => mask[i].key = <<n, (i - 1) % 4>>)
  <2> DEFINE byte(i) == B(b.hi, b.lo, Garbage, Key(i - 1))
  <2>1. \A i \in 1..4 : byte(i) \in Byte /\ byte(i).plain = Garbage /\ (f.masked => byte(i).key = <<n, (i - 1) % 4>>)
    <3> TAKE i \in 1..4
    <3>1. i - 1 \in Nat
      OBVIOUS
    <3>2. Key(i - 1) \in KeyByte /\ (f.masked => Key(i - 1) = <<n, (i - 1) % 4>>)
      BY <1>3, <3>1
    <3> HIDE DEF Key
    <3> QED BY <1>1, <3>2 DEF Byte, Plain
  <2> HIDE DEF byte
  <2> DEFINE k == IF f.masked THEN 4 ELSE 0
             e == [i \in 1..k |-> byte(i)]
  <2>0. k \in 0..4 /\ k = IF f.masked THEN 4 ELSE 0
    OBVIOUS
  <2> HIDE DEF k
  <2>2. /\ e \in Seq(Byte) /\ Len(e) = k
        /\ \A i \in 1..Len(e) : e[i] = byte(i)
    BY <2>0, <2>1
  <2>3. /\ e \in Seq(Byte) /\ Len(e) = IF f.masked THEN 4 ELSE 0
        /\ \A i \in 1..Len(e) : e[i].plain = Garbage /\ (f.masked => e[i].key = <<n, (i - 1) % 4>>)
    <3>1. \A i \in 1..Len(e) : i \in 1..4 /\ e[i] = byte(i)
      BY <2>0, <2>2
    <3> HIDE DEF e
    <3> QED BY <2>0, <2>1, <2>2, <3>1
  <2> QED BY <2>3 DEF byte, k
<1>7. /\ body \in Seq(Byte) /\ Len(body) = PayloadBytes(f)
      /\ \A i \in 1..Len(body) : body[i].plain = data[i] /\ (f.masked => body[i].key = <<n, (i - 1) % 4>>)
  <2> DEFINE byte(i) == B(b.hi, b.lo, data[i], Key(i - 1))
  <2>1. \A i \in 1..PayloadBytes(f) :
          byte(i) \in Byte /\ byte(i).plain = data[i] /\ (f.masked => byte(i).key = <<n, (i - 1) % 4>>)
    <3> TAKE i \in 1..PayloadBytes(f)
    <3>1. i - 1 \in Nat
      BY <1>2
    <3>2. Key(i - 1) \in KeyByte /\ (f.masked => Key(i - 1) = <<n, (i - 1) % 4>>)
      BY <1>3, <3>1
    <3>3. data[i] \in Plain
      BY DEF Plain
    <3> HIDE DEF Key
    <3> QED BY <1>1, <3>2, <3>3 DEF Byte
  <2> HIDE DEF byte
  <2> DEFINE e == [i \in 1..PayloadBytes(f) |-> byte(i)]
  <2>2. e \in Seq(Byte) /\ Len(e) = PayloadBytes(f) /\ \A i \in 1..Len(e) : e[i] = byte(i)
    BY <1>2, <2>1
  <2>3. /\ e \in Seq(Byte) /\ Len(e) = PayloadBytes(f)
        /\ \A i \in 1..Len(e) : e[i].plain = data[i] /\ (f.masked => e[i].key = <<n, (i - 1) % 4>>)
    BY <2>1, <2>2
  <2> QED BY <2>3 DEF byte
<1>8. Bytes(f, n, data, b) = header \o ext \o mask \o body
  BY DEF Bytes
<1> HIDE DEF header, ext, mask, body
<1>9. FrameShape(f, n, data, header, ext, mask, body)
  BY <1>4, <1>5, <1>6, <1>7 DEF FrameShape
<1> QED BY <1>4, <1>5, <1>6, <1>7, <1>8, <1>9, Zenon

\* The bytes of a frame are bytes.
LEMMA BytesType ==
  ASSUME NEW f \in Frames, NEW n \in Nat, NEW b \in Fillers, NEW data \in [1..PayloadBytes(f) -> Content]
  PROVE  Bytes(f, n, data, b) \in Seq(Byte)
<1>1. PICK header, ext, mask, body \in Seq(Byte) :
        /\ Bytes(f, n, data, b) = header \o ext \o mask \o body
        /\ FrameShape(f, n, data, header, ext, mask, body)
  BY FrameParts
<1> QED BY <1>1

LEMMA InitIInv == Init => IInv
BY FramesAssumption DEF Init, IInv, PeerInv, FlagsInv, ReaderInv, BoundsInv, ReachableStates,
  WebSocketStates, KeyByte

\* The peer's frame.
LEMMA Peer_Send_IInv == IInv /\ Peer_Send => IInv'
<1> SUFFICES ASSUME IInv, Peer_Send PROVE IInv'
  OBVIOUS
<1>1. PICK f \in Frames, b \in Fillers :
        LET data == [i \in 1..PayloadBytes(f) |-> <<Len(sent) + 1, Len(frag) + i>>] IN
        /\ wire' = wire \o Bytes(f, count + 1, data, b)
        /\ IF f.fin
             THEN frag' = <<>> /\ sent' = Append(sent, frag \o data)
             ELSE frag' = frag \o data /\ UNCHANGED sent
  BY DEF Peer_Send
<1> DEFINE data == [i \in 1..PayloadBytes(f) |-> <<Len(sent) + 1, Len(frag) + i>>]
<1>2. PayloadBytes(f) \in Nat
  BY FramesAssumption DEF PayloadBytes
<1>3. /\ count \in 0..MaxFrames /\ MaxFrames \in Nat /\ count < MaxFrames /\ count' = count + 1
      /\ sent \in Seq(Seq(Content)) /\ frag \in Seq(Content) /\ wire \in Seq(Byte)
  BY FramesAssumption DEF Peer_Send, IInv, PeerInv
<1>4. data \in [1..PayloadBytes(f) -> Content] /\ data \in Seq(Content)
  <2>1. \A i \in 1..PayloadBytes(f) : <<Len(sent) + 1, Len(frag) + i>> \in Content
    BY <1>2, <1>3 DEF Content
  <2> QED BY <1>2, <2>1
<1>5. Bytes(f, count + 1, data, b) \in Seq(Byte)
  <2>1. count + 1 \in Nat
    BY <1>3
  <2> HIDE DEF data
  <2> QED BY <2>1, <1>4, BytesType
<1>6. PeerInv'
  <2>1. wire' \in Seq(Byte)
    <3> HIDE DEF data
    <3>1. wire' = wire \o Bytes(f, count + 1, data, b)
      BY <1>1 DEF data
    <3> QED BY <3>1, <1>3, <1>5
  <2>2. sent' \in Seq(Seq(Content)) /\ frag' \in Seq(Content)
    <3>1. IF f.fin THEN frag' = <<>> /\ sent' = Append(sent, frag \o data)
                   ELSE frag' = frag \o data /\ UNCHANGED sent
      BY <1>1
    <3> HIDE DEF data
    <3>2. frag \o data \in Seq(Content)
      BY <1>3, <1>4
    <3>3. CASE f.fin
      <4>1. frag' = <<>> /\ sent' = Append(sent, frag \o data)
        BY <3>1, <3>3
      <4> QED BY <4>1, <3>2, <1>3
    <3>4. CASE ~f.fin
      <4>1. frag' = frag \o data /\ sent' = sent
        BY <3>1, <3>4
      <4> QED BY <4>1, <3>2, <1>3
    <3> QED BY <3>3, <3>4
  <2>3. count' \in 0..MaxFrames /\ whole' \in BOOLEAN
    <3>1. whole \in BOOLEAN /\ \E g \in Frames : whole' = (whole /\ IsWhole(g))
      BY DEF Peer_Send, IInv, PeerInv
    <3> QED BY <1>3, <3>1
  <2> QED BY <2>1, <2>2, <2>3 DEF PeerInv, IInv, Peer_Send
<1>7. UNCHANGED <<link, pool, reader, app>>
  BY DEF Peer_Send
<1> QED BY <1>6, <1>7 DEF IInv, FlagsInv, ReaderInv, BoundsInv, link, pool, reader, app, size, payload

\* What surrounds the reader leaves the fields of the reader alone.
LEMMA Around_IInv == IInv /\ (Peer_Close \/ Receive \/ Task_Start \/ Task_End \/ finalizeClient \/ Return) => IInv'
<1> SUFFICES ASSUME IInv PROVE Peer_Close \/ Receive \/ Task_Start \/ Task_End \/ finalizeClient \/ Return => IInv'
  OBVIOUS
<1> USE DEF IInv, PeerInv, FlagsInv, ReaderInv, BoundsInv, peer, link, pool, reader, app, size, payload
<1>1. Peer_Close => IInv'
  BY DEF Peer_Close
<1>2. ASSUME Receive PROVE IInv'
  <2>1. PICK n \in 1..Len(wire) :
          /\ incomingDataBuffer' = incomingDataBuffer \o SubSeq(wire, 1, n)
          /\ wire' = SubSeq(wire, n + 1, Len(wire))
    BY <1>2 DEF Receive
  <2>2. SubSeq(wire, 1, n) \in Seq(Byte) /\ SubSeq(wire, n + 1, Len(wire)) \in Seq(Byte)
    OBVIOUS
  <2>3. incomingDataBuffer' \in Seq(Byte) /\ wire' \in Seq(Byte)
    BY <2>1, <2>2
  <2> QED BY <1>2, <2>3 DEF Receive
<1>3. finalizeClient => IInv'
  BY DEF finalizeClient, ReachableStates, WebSocketStates
<1>4. ASSUME Return PROVE IInv'
  <2>1. (told' = told \/ told' = told + 1) /\ connected' \in BOOLEAN /\ running' \in BOOLEAN
    BY <1>4, Zenon DEF Return
  <2>2. told' \in Nat /\ task' \in {"none", "queued", "inside", "leaving"}
    BY <1>4, <2>1 DEF Return
  <2> QED BY <1>4, <2>1, <2>2 DEF Return
<1>5. Task_Start => IInv'
  BY DEF Task_Start
<1>6. Task_End => IInv'
  BY DEF Task_End
<1> QED BY <1>1, <1>2, <1>3, <1>4, <1>5, <1>6

\* A branch of the loop pops one byte.
LEMMA PopsAByte ==
  ASSUME IInv, NEW state, In(state)
  PROVE  /\ PeerInv' /\ ws_curr \in Byte /\ webSocketState = state
         /\ UNCHANGED <<processingIncomingData, task, running>>
BY DEF In, IInv, PeerInv, peer, pool, ws_curr

LEMMA Header_IInv == IInv /\ (ReadPackInfo1 \/ ReadPackInfo2 \/ FailedState) => IInv'
<1> SUFFICES ASSUME IInv PROVE ReadPackInfo1 \/ ReadPackInfo2 \/ FailedState => IInv'
  OBVIOUS
<1> USE DEF link, app, payload, size, Become
<1>1. ASSUME ReadPackInfo1 PROVE IInv'
  <2>1. PeerInv' /\ ws_curr \in Byte /\ webSocketState = "WS_READING_PACK_INFO_1" /\ UNCHANGED <<processingIncomingData, task, running>>
    BY <1>1, PopsAByte DEF ReadPackInfo1
  <2>2. ws_curr.hi \in BOOLEAN
    BY <2>1 DEF Byte
  <2> QED BY <1>1, <2>1, <2>2 DEF ReadPackInfo1, IInv, FlagsInv, ReaderInv, BoundsInv, ReachableStates,
       WebSocketStates
<1>2. ASSUME ReadPackInfo2 PROVE IInv'
  <2>1. PeerInv' /\ ws_curr \in Byte /\ webSocketState = "WS_READING_PACK_INFO_2" /\ UNCHANGED <<processingIncomingData, task, running>>
    BY <1>2, PopsAByte DEF ReadPackInfo2
  <2>2. ws_curr.hi \in BOOLEAN /\ ws_curr.lo \in 0..127
    BY <2>1 DEF Byte
  <2>3. ws_mask' \in [0..3 -> KeyByte] /\ ws_packPayload = <<>>
    BY <1>2, <2>1 DEF ReadPackInfo2, KeyByte, IInv, BoundsInv
  <2>4. CASE ws_curr.hi
    <3>1. ws_packSize' \in 0..125
      <4>1. ws_packSize \in 0..125 /\ ws_packSize' = IF ws_curr.lo < 126 THEN ws_curr.lo ELSE ws_packSize
        BY <1>2, <2>4 DEF ReadPackInfo2, IsShort, Size7bit, IInv, ReaderInv
      <4> QED BY <4>1, <2>2
    <3>2. webSocketState' \in {"WS_READING_MASK_KEY", "WS_INTERNAL_SERVER_ERROR"} /\ ws_tempIndex' = 0
      BY <1>2, <2>4 DEF ReadPackInfo2, AfterSize, IInv, ReaderInv
    <3> QED BY <1>2, <2>1, <2>3, <3>1, <3>2 DEF ReadPackInfo2, IInv, FlagsInv, ReaderInv, BoundsInv,
         ReachableStates, WebSocketStates
  <2>5. CASE ~ws_curr.hi
    BY <1>2, <2>1, <2>3, <2>5 DEF ReadPackInfo2, IInv, FlagsInv, ReaderInv, BoundsInv,
       ReachableStates, WebSocketStates
  <2> QED BY <2>4, <2>5
<1>3. ASSUME FailedState PROVE IInv'
  <2>1. PeerInv' /\ UNCHANGED <<processingIncomingData, task, running>>
    BY <1>3, PopsAByte DEF FailedState
  <2> QED BY <1>3, <2>1 DEF FailedState, IInv, FlagsInv, ReaderInv, BoundsInv, ReachableStates, WebSocketStates
<1> QED BY <1>1, <1>2, <1>3

\* The mask key; the longer sizes are never read.
LEMMA ReadField_IInv == IInv /\ ReadField => IInv'
<1> SUFFICES ASSUME IInv, ReadField PROVE IInv'
  OBVIOUS
<1>1. webSocketState = "WS_READING_MASK_KEY" /\ FieldLength[webSocketState] = 4
      /\ AfterField[webSocketState] = "WS_READING_PAYLOAD"
  BY DEF ReadField, FieldLength, AfterField, IInv, ReaderInv, ReachableStates
<1>2. PeerInv' /\ ws_curr \in Byte /\ UNCHANGED <<processingIncomingData, task, running>>
  BY PopsAByte DEF ReadField
<1>3. ws_mask' \in [0..3 -> KeyByte] /\ ws_packSize' = ws_packSize
  BY <1>1, <1>2 DEF ReadField, IInv, ReaderInv, Byte
<1>4. ws_packPayload = <<>> /\ ws_tempIndex \in 0..3
  BY <1>1 DEF IInv, BoundsInv, ReaderInv
<1>5. \/ ws_tempIndex' = 0 /\ webSocketState' = "WS_READING_PAYLOAD"
      \/ ws_tempIndex' \in 0..3 /\ webSocketState' = "WS_READING_MASK_KEY"
  BY <1>1, <1>4 DEF ReadField, Become
<1> QED BY <1>2, <1>3, <1>4, <1>5 DEF ReadField, IInv, FlagsInv, ReaderInv, BoundsInv, ReachableStates,
     WebSocketStates, link, app, payload

\* The payload: the buffer has the bytes of the index, and goes when it is full.
LEMMA Payload_IInv == IInv /\ (ReadPayload \/ EndOfFragment \/ EndOfMessage) => IInv'
<1> SUFFICES ASSUME IInv PROVE ReadPayload \/ EndOfFragment \/ EndOfMessage => IInv'
  OBVIOUS
<1> USE DEF link, app, size, Become
<1>0. NextIndex \in Nat
  BY DEF NextIndex, IInv, ReaderInv
<1>1. ASSUME ReadPayload PROVE IInv'
  <2>1. PeerInv' /\ ws_curr \in Byte /\ webSocketState = "WS_READING_PAYLOAD" /\ UNCHANGED <<processingIncomingData, task, running>>
    BY <1>1, PopsAByte DEF ReadPayload
  <2>2. Fits /\ NextIndex = ws_tempIndex + 1 /\ NextIndex < ws_packSize
    BY <1>1 DEF ReadPayload, FrameComplete, Fits, NextIndex, IInv, ReaderInv
  <2>3. Unmasked \in Plain
    BY <2>1 DEF Unmasked, Byte, Plain
  <2>4. Pack \in Seq(Plain) /\ Len(Pack) = ws_tempIndex + 1
    BY <2>1, <2>2, <2>3 DEF Pack, IInv, BoundsInv, ReaderInv
  <2>5. ws_packPayload' \in Seq(Plain) /\ Len(ws_packPayload') = ws_tempIndex' /\ ws_tempIndex' < ws_packSize'
        /\ ws_tempIndex' \in Nat /\ webSocketState' = "WS_READING_PAYLOAD"
    BY <1>0, <1>1, <2>1, <2>2, <2>4 DEF ReadPayload
  <2> QED BY <1>1, <2>1, <2>5 DEF ReadPayload, IInv, FlagsInv, ReaderInv, BoundsInv
<1>2. ASSUME EndOfFragment \/ EndOfMessage PROVE IInv'
  <2>1. EndOfFrame /\ aborted' \in BOOLEAN /\ overrun' \in BOOLEAN /\ ws_totalPayload' \in Nat
    <3>1. EndOfFrame /\ aborted' \in BOOLEAN /\ ws_totalPayload' \in Nat
      BY <1>0, <1>2 DEF EndOfFragment, EndOfMessage, IInv, FlagsInv, ReaderInv
    <3>2. overrun' = overrun \/ FromFragments
      BY <1>2 DEF EndOfFragment, EndOfMessage
    <3>3. ASSUME FromFragments PROVE overrun' \in BOOLEAN
      <4> DEFINE long == Len(FlattenSeq(ws_payload)) + Len(Pack) > ws_totalPayload + NextIndex
      <4>1. overrun' = long
        BY <3>3, Zenon DEF FromFragments
      <4>2. long \in BOOLEAN
        OBVIOUS
      <4> QED BY <4>1, <4>2, Zenon
    <3> QED BY <3>1, <3>2, <3>3 DEF IInv, FlagsInv
  <2>2. PeerInv' /\ UNCHANGED <<processingIncomingData, task, running>>
    BY <2>1, PopsAByte DEF EndOfFrame
  <2> QED BY <2>1, <2>2 DEF EndOfFrame, IInv, FlagsInv, ReaderInv, BoundsInv, ReachableStates, WebSocketStates
<1> QED BY <1>1, <1>2

LEMMA NextIInv == IInv /\ [Next]_vars => IInv'
<1> SUFFICES ASSUME IInv, [Next]_vars PROVE IInv'
  OBVIOUS
<1>1. CASE Peer_Send
  BY <1>1, Peer_Send_IInv
<1>2. CASE Peer_Close \/ Receive \/ Task_Start \/ Task_End \/ finalizeClient \/ Return
  BY <1>2, Around_IInv
<1>3. CASE ReadPackInfo1 \/ ReadPackInfo2 \/ FailedState
  BY <1>3, Header_IInv
<1>4. CASE ReadField
  BY <1>4, ReadField_IInv
<1>5. CASE ReadPayload \/ EndOfFragment \/ EndOfMessage
  BY <1>5, Payload_IInv
<1>6. CASE UNCHANGED vars
  BY <1>6 DEF vars, peer, link, pool, size, payload, app, IInv, PeerInv, FlagsInv, ReaderInv, BoundsInv
<1> QED BY <1>1, <1>2, <1>3, <1>4, <1>5, <1>6 DEF Next, WebSocketProcess

LEMMA Invariant == Spec => []IInv
BY InitIInv, NextIInv, PTL DEF Spec

\* The variables of the reader keep their types.
THEOREM FrameTypes == Spec => []TypeOK
<1>1. IInv => TypeOK
  <2> SUFFICES ASSUME IInv PROVE TypeOK
    OBVIOUS
  <2>1. \A i \in DOMAIN incomingDataBuffer : incomingDataBuffer[i].lo \in 0..127
    <3> TAKE i \in DOMAIN incomingDataBuffer
    <3>1. incomingDataBuffer[i] \in Byte
      BY DEF IInv, PeerInv
    <3> QED BY <3>1 DEF Byte
  <2>2. ws_packSize \in 0..127
    BY DEF IInv, ReaderInv
  <2> QED BY <2>1, <2>2 DEF IInv, PeerInv, FlagsInv, ReaderInv, ReachableStates, TypeOK
<1> QED BY <1>1, Invariant, PTL

\* A frame of 126 bytes or more never gets to the states that read its size (WebSocketProcess,
\* the tests of ws_packSize), whatever the frames before it were.
THEOREM LongFramesRefused == Spec => []ExtendedLengthUnreachable
<1>1. IInv => ExtendedLengthUnreachable
  BY DEF IInv, ReaderInv, ReachableStates, ExtendedLengthUnreachable
<1> QED BY <1>1, Invariant, PTL

-----------------------------------------------------------------------------
(* Induction over data: what FlattenSeq makes of a sequence of pieces.     *)

\* A set of numbers has a least one.
LEMMA SmallestNumber ==
  ASSUME NEW T \in SUBSET Nat, T # {}
  PROVE  \E m \in T : \A k \in T : m <= k
<1> DEFINE R == {p \in Nat \X Nat : p[1] < p[2]}
<1>1. IsWellFoundedOn(R, Nat)
  BY NatLessThanWellFounded, Zenon DEF OpToRel
<1>2. \A x, y \in Nat : x < y => <<x, y>> \in R
  OBVIOUS
<1> HIDE DEF R
<1>3. PICK m \in T : \A k \in T : <<k, m>> \notin R
  BY <1>1, WFMin
<1>4. ASSUME NEW k \in T PROVE m <= k
  <2>1. ~(k < m)
    BY <1>2, <1>3
  <2> QED BY <2>1
<1> QED BY <1>4

\* What is true of 0 and of the successor of every number it is true of, is true of all.
LEMMA NumberInduction ==
  ASSUME NEW T \in SUBSET Nat, 0 \in T, \A n \in T : n + 1 \in T
  PROVE  T = Nat
<1> SUFFICES ASSUME Nat \ T # {} PROVE FALSE
  OBVIOUS
<1>1. PICK m \in Nat \ T : \A k \in Nat \ T : m <= k
  BY SmallestNumber
<1>2. m - 1 \in T
  BY <1>1
<1> QED BY <1>1, <1>2

\* f is the function that FlattenSeq builds for the first n pieces of s.
Flattens(f, s, n) == f = [i \in 1..n |-> IF i = 1 THEN s[i] ELSE f[i - 1] \o s[i]]

\* What that function is for each number.
LEMMA FlattensAt ==
  ASSUME NEW f, NEW s, NEW n, Flattens(f, s, n), NEW i \in 1..n
  PROVE  f[i] = IF i = 1 THEN s[i] ELSE f[i - 1] \o s[i]
<1> DEFINE h == [j \in 1..n |-> IF j = 1 THEN s[j] ELSE f[j - 1] \o s[j]]
<1>1. f = h
  BY DEF Flattens
<1>2. h[i] = IF i = 1 THEN s[i] ELSE f[i - 1] \o s[i]
  OBVIOUS
<1> HIDE DEF h
<1> QED BY <1>1, <1>2

\* There is such a function.
LEMMA FlattensExists ==
  ASSUME NEW s, NEW m \in Nat
  PROVE  \E f : Flattens(f, s, m)
<1> DEFINE T == {n \in Nat : \E f : Flattens(f, s, n)}
<1>1. 0 \in T
  <2>1. Flattens([i \in 1..0 |-> {}], s, 0)
    BY DEF Flattens
  <2> QED BY <2>1
<1>2. ASSUME NEW n \in T PROVE n + 1 \in T
  <2>1. PICK f : Flattens(f, s, n)
    OBVIOUS
  <2> DEFINE g == [i \in 1..n+1 |-> IF i <= n THEN f[i] ELSE IF i = 1 THEN s[i] ELSE f[n] \o s[i]]
  <2>2. ASSUME NEW i \in 1..n+1 PROVE g[i] = IF i = 1 THEN s[i] ELSE g[i - 1] \o s[i]
    <3>1. CASE i <= n
      <4>1. f[i] = IF i = 1 THEN s[i] ELSE f[i - 1] \o s[i]
        BY <2>1, <3>1, FlattensAt
      <4>2. i = 1 \/ g[i - 1] = f[i - 1]
        BY <3>1
      <4> QED BY <3>1, <4>1, <4>2
    <3>2. CASE i = n + 1
      <4>1. i = 1 \/ g[i - 1] = f[n]
        BY <3>2
      <4> QED BY <3>2, <4>1
    <3> QED BY <3>1, <3>2
  <2>3. Flattens(g, s, n + 1)
    <3> DEFINE h == [i \in 1..n+1 |-> IF i = 1 THEN s[i] ELSE g[i - 1] \o s[i]]
    <3>1. \A i \in 1..n+1 : h[i] = g[i]
      BY <2>2
    <3>2. g = h
      <4>1. DOMAIN g = 1..n+1 /\ DOMAIN h = 1..n+1 /\ g = [i \in 1..n+1 |-> g[i]] /\ h = [i \in 1..n+1 |-> h[i]]
        OBVIOUS
      <4> HIDE DEF g, h
      <4> QED BY <3>1, <4>1
    <3> HIDE DEF g
    <3> QED BY <3>2 DEF Flattens
  <2> QED BY <2>3
<1>3. m \in T
  <2> HIDE DEF T
  <2>1. T \in SUBSET Nat
    BY DEF T
  <2> QED BY <1>1, <1>2, <2>1, NumberInduction
<1> QED BY <1>3

\* It is the only one, whatever s has behind its first pieces.
LEMMA FlattensUnique ==
  ASSUME NEW s, NEW t, NEW m \in Nat, NEW n \in Nat, m <= n, \A i \in 1..m : s[i] = t[i],
         NEW f, NEW g, Flattens(f, s, m), Flattens(g, t, n), NEW k \in 1..m
  PROVE  f[k] = g[k]
<1> DEFINE T == {i \in Nat : i \in 1..m => f[i] = g[i]}
<1>1. 0 \in T
  OBVIOUS
<1>2. ASSUME NEW i \in T, i + 1 \in 1..m PROVE f[i + 1] = g[i + 1]
  <2>0. i + 1 \in 1..m /\ i + 1 \in 1..n /\ i + 1 - 1 = i
    BY <1>2
  <2>1. f[i + 1] = IF i + 1 = 1 THEN s[i + 1] ELSE f[i + 1 - 1] \o s[i + 1]
    BY <2>0, FlattensAt
  <2>2. g[i + 1] = IF i + 1 = 1 THEN t[i + 1] ELSE g[i + 1 - 1] \o t[i + 1]
    BY <2>0, FlattensAt
  <2>3. i = 0 \/ f[i] = g[i]
    BY <1>2
  <2> QED BY <1>2, <2>0, <2>1, <2>2, <2>3
<1>3. T = Nat
  <2>1. T \in SUBSET Nat /\ \A i \in T : i + 1 \in T
    BY <1>2
  <2> HIDE DEF T
  <2> QED BY <1>1, <2>1, NumberInduction
<1> QED BY <1>3

\* FlattenSeq is its last value.
LEMMA FlattenSeqIs ==
  ASSUME NEW S, NEW s \in Seq(S), Len(s) > 0, NEW f, Flattens(f, s, Len(s))
  PROVE  FlattenSeq(s) = f[Len(s)]
<1> DEFINE g == CHOOSE g : g = [i \in 1..Len(s) |-> IF i = 1 THEN s[i] ELSE g[i - 1] \o s[i]]
<1>1. FlattenSeq(s) = IF Len(s) = 0 THEN s ELSE g[Len(s)]
  BY Zenon DEF FlattenSeq
<1>2. Flattens(g, s, Len(s))
  BY Zenon DEF Flattens
<1>3. Len(s) \in Nat /\ Len(s) \in 1..Len(s) /\ Len(s) # 0 /\ Len(s) <= Len(s)
  OBVIOUS
<1> HIDE DEF g
<1> QED BY <1>1, <1>2, <1>3, FlattensUnique

\* One piece more is put behind the others.
LEMMA FlattenLonger ==
  ASSUME NEW S, NEW s \in Seq(S), NEW t \in Seq(S), NEW m \in Nat, NEW n \in Nat,
         m > 0, n = m + 1, Len(s) = m, Len(t) = n, \A i \in 1..m : s[i] = t[i]
  PROVE  FlattenSeq(t) = FlattenSeq(s) \o t[n]
<1>1. PICK f : Flattens(f, t, n)
  BY FlattensExists
<1>2. PICK g : Flattens(g, s, m)
  BY FlattensExists
<1>3. FlattenSeq(t) = f[n]
  BY <1>1, FlattenSeqIs
<1>4. FlattenSeq(s) = g[m]
  BY <1>2, FlattenSeqIs
<1>5. m \in 1..m /\ m <= n /\ n \in 1..n /\ n # 1 /\ n - 1 = m
  OBVIOUS
<1>6. \A k \in 1..m : g[k] = f[k]
  BY <1>1, <1>2, <1>5, FlattensUnique, SMTT(30)
<1>7. \A i \in 1..n : f[i] = IF i = 1 THEN t[i] ELSE f[i - 1] \o t[i]
  BY <1>1, FlattensAt
<1>8. f[n] = f[n - 1] \o t[n]
  BY <1>5, <1>7
<1>9. g[m] = f[m]
  BY <1>5, <1>6
<1> QED BY <1>3, <1>4, <1>5, <1>8, <1>9

\* A sequence of one piece is that piece.
LEMMA FlattenOne ==
  ASSUME NEW x
  PROVE  FlattenSeq(<<x>>) = x
<1> DEFINE s == <<x>>
<1>1. Len(s) = 1 /\ s[1] = x /\ s \in Seq({x})
  OBVIOUS
<1> HIDE DEF s
<1>2. PICK f : Flattens(f, s, Len(s))
  BY <1>1, FlattensExists
<1>3. FlattenSeq(s) = f[Len(s)]
  <2>1. Len(s) > 0
    BY <1>1
  <2> QED BY <1>1, <1>2, <2>1, FlattenSeqIs, Zenon
<1>4. f[1] = IF 1 = 1 THEN s[1] ELSE f[1 - 1] \o s[1]
  BY <1>1, <1>2, FlattensAt
<1> QED BY <1>1, <1>3, <1>4 DEF s

\* FlattenSeq puts a last piece behind the others.
LEMMA FlattenAppend ==
  ASSUME NEW S, NEW s \in Seq(Seq(S)), NEW x \in Seq(S)
  PROVE  FlattenSeq(Append(s, x)) = FlattenSeq(s) \o x
<1>1. CASE s = << >>
  <2>1. FlattenSeq(s) = << >>
    BY <1>1 DEF FlattenSeq
  <2>2. Append(s, x) = <<x>>
    BY <1>1
  <2> QED BY <2>1, <2>2, FlattenOne
<1>2. CASE s # << >>
  <2> DEFINE t == Append(s, x)
  <2>1. /\ t \in Seq(Seq(S)) /\ Len(t) = Len(s) + 1 /\ Len(s) \in Nat /\ Len(s) > 0
        /\ Len(t) \in Nat /\ t[Len(t)] = x /\ \A i \in 1..Len(s) : s[i] = t[i]
    BY <1>2
  <2> HIDE DEF t
  <2>2. FlattenSeq(t) = FlattenSeq(s) \o t[Len(t)]
    BY <2>1, FlattenLonger
  <2> QED BY <2>1, <2>2 DEF t
<1> QED BY <1>1, <1>2

-----------------------------------------------------------------------------
(* The bytes on their way to the application are in order.                 *)

\* Every byte of s was sent before the bytes behind it.
Rising(s) ==
  \A i, j \in 1..Len(s) : i < j /\ s[i] # Garbage /\ s[j] # Garbage => Before(s[i], s[j])

\* Every byte of s was sent before every byte of t.
Below(s, t) ==
  \A i \in 1..Len(s), j \in 1..Len(t) : s[i] # Garbage /\ t[j] # Garbage => Before(s[i], t[j])

\* Every byte of s was sent before byte x.
Bounded(s, x) == \A i \in 1..Len(s) : s[i] # Garbage => Before(s[i], x)

\* What the reader holds of the message, what is still to be read, the byte the peer sends next.
Held == FlattenSeq(ws_payload) \o ws_packPayload
Plains(s) == [i \in 1..Len(s) |-> s[i].plain]
Coming == Plains(incomingDataBuffer \o wire)
NextByte == <<Len(sent) + 1, Len(frag) + 1>>

\* The messages and the fragments are sequences of bytes.
OrderTypes ==
  /\ delivered \in Seq(Seq(Plain))
  /\ ws_payload \in Seq(Seq(Plain)) /\ FlattenSeq(ws_payload) \in Seq(Plain)

\* The sum of the sizes is that of this frame alone.
TotalReset ==
  webSocketState \in {"WS_READING_PACK_INFO_2", "WS_READING_MASK_KEY", "WS_READING_PAYLOAD"}
    => ws_totalPayload = 0

OrderInv ==
  /\ Rising(Held) /\ Rising(Coming) /\ Below(Held, Coming)
  /\ Bounded(Held, NextByte) /\ Bounded(Coming, NextByte)
  /\ \A n \in 1..Len(delivered) :
       /\ Rising(delivered[n])
       /\ Below(delivered[n], Held) /\ Below(delivered[n], Coming) /\ Bounded(delivered[n], NextByte)
  /\ \A m, n \in 1..Len(delivered) : m < n => Below(delivered[m], delivered[n])

\* Of what comes, c, only r is left, and what is held, h, becomes g.
Takes(h, c, g, r) ==
  /\ Len(c) = Len(r) + 1 /\ \A i \in 1..Len(r) : r[i] = c[i + 1]
  /\ \E u \in {c[1], Garbage} : g \in {h, Append(h, u), << >>}

\* The first of the bytes to come is taken away, and may be held.
LEMMA Taken ==
  ASSUME NEW h \in Seq(Plain), NEW c \in Seq(Plain), NEW g \in Seq(Plain), NEW r \in Seq(Plain),
         Takes(h, c, g, r)
  PROVE  /\ Rising(c) => Rising(r)
         /\ Rising(h) /\ Rising(c) /\ Below(h, c) => Rising(g) /\ Below(g, r)
         /\ \A d \in Seq(Plain) : Below(d, h) /\ Below(d, c) => Below(d, g) /\ Below(d, r)
         /\ \A x : Bounded(h, x) /\ Bounded(c, x) => Bounded(g, x) /\ Bounded(r, x)
<1> USE DEF Rising, Below, Bounded, Takes
<1>1. \A i \in 1..Len(r) : i + 1 \in 1..Len(c) /\ r[i] = c[i + 1]
  OBVIOUS
<1>2. 1 \in 1..Len(c)
  OBVIOUS
<1>3. /\ Len(g) \in {Len(h), Len(h) + 1, 0}
      /\ \A i \in 1..Len(g) : \/ i \in 1..Len(h) /\ g[i] = h[i]
                              \/ i = Len(h) + 1 /\ g[i] \in {c[1], Garbage}
  OBVIOUS
<1>4. Rising(c) => Rising(r)
  <2> SUFFICES ASSUME Rising(c), NEW i \in 1..Len(r), NEW j \in 1..Len(r), i < j, r[i] # Garbage, r[j] # Garbage
               PROVE  Before(r[i], r[j])
    OBVIOUS
  <2>1. i + 1 < j + 1 /\ i + 1 \in 1..Len(c) /\ j + 1 \in 1..Len(c)
    BY <1>1
  <2> QED BY <1>1, <2>1
<1>5. Rising(h) /\ Rising(c) /\ Below(h, c) => Rising(g)
  BY <1>2, <1>3
<1>6. Rising(c) /\ Below(h, c) => Below(g, r)
  <2> SUFFICES ASSUME Rising(c), Below(h, c), NEW i \in 1..Len(g), NEW j \in 1..Len(r), g[i] # Garbage, r[j] # Garbage
               PROVE  Before(g[i], r[j])
    OBVIOUS
  <2>1. j + 1 \in 1..Len(c) /\ 1 < j + 1 /\ r[j] = c[j + 1]
    BY <1>1
  <2>2. (i \in 1..Len(h) /\ g[i] = h[i]) \/ g[i] = c[1]
    BY <1>3
  <2> QED BY <1>2, <2>1, <2>2
<1>7. \A d \in Seq(Plain) : Below(d, h) /\ Below(d, c) => Below(d, g) /\ Below(d, r)
  BY <1>1, <1>2, <1>3
<1>8. \A x : Bounded(h, x) /\ Bounded(c, x) => Bounded(g, x) /\ Bounded(r, x)
  BY <1>1, <1>2, <1>3
<1> QED BY <1>4, <1>5, <1>6, <1>7, <1>8

\* A message is the beginning of what is held, and may have lost bytes.
LEMMA Shown ==
  ASSUME NEW g \in Seq(Plain), NEW m \in Seq(Plain), Len(m) <= Len(g),
         \A i \in 1..Len(m) : m[i] \in {g[i], Garbage}
  PROVE  /\ Rising(g) => Rising(m)
         /\ \A d \in Seq(Plain) : (Below(d, g) => Below(d, m)) /\ (Below(g, d) => Below(m, d))
         /\ \A x : Bounded(g, x) => Bounded(m, x)
<1> USE DEF Rising, Below, Bounded
<1>1. \A i \in 1..Len(m) : i \in 1..Len(g)
  OBVIOUS
<1>2. Rising(g) => Rising(m)
  BY <1>1
<1>3. \A d \in Seq(Plain) : (Below(d, g) => Below(d, m)) /\ (Below(g, d) => Below(m, d))
  BY <1>1
<1>4. \A x : Bounded(g, x) => Bounded(m, x)
  BY <1>1
<1> QED BY <1>2, <1>3, <1>4

\* Bytes that were sent later come behind.
LEMMA Added ==
  ASSUME NEW c \in Seq(Plain), NEW b \in Seq(Plain),
         Rising(b), Below(c, b)
  PROVE  Rising(c) => Rising(c \o b)
<1>1. /\ Len(c \o b) = Len(c) + Len(b)
      /\ \A i \in 1..Len(c \o b) : \/ i \in 1..Len(c) /\ (c \o b)[i] = c[i]
                                   \/ i - Len(c) \in 1..Len(b) /\ (c \o b)[i] = b[i - Len(c)]
  OBVIOUS
<1> SUFFICES ASSUME Rising(c), NEW i \in 1..Len(c \o b), NEW j \in 1..Len(c \o b), i < j,
                    (c \o b)[i] # Garbage, (c \o b)[j] # Garbage
             PROVE  Before((c \o b)[i], (c \o b)[j])
  BY DEF Rising
<1> DEFINE s == c \o b
<1>2. \/ i \in 1..Len(c) /\ s[i] = c[i]
      \/ i - Len(c) \in 1..Len(b) /\ s[i] = b[i - Len(c)]
  BY <1>1
<1>3. \/ j \in 1..Len(c) /\ s[j] = c[j]
      \/ j - Len(c) \in 1..Len(b) /\ s[j] = b[j - Len(c)]
  BY <1>1
<1>4. s[i] # Garbage /\ s[j] # Garbage /\ Len(c) \in Nat /\ Len(b) \in Nat /\ i < j /\ i \in Nat /\ j \in Nat
  BY <1>1
<1> HIDE DEF s
<1>5. CASE j \in 1..Len(c)
  <2>1. i \in 1..Len(c) /\ ~(i - Len(c) \in 1..Len(b)) /\ ~(j - Len(c) \in 1..Len(b))
    BY <1>4, <1>5
  <2> QED BY <1>2, <1>3, <1>4, <2>1 DEF Rising, s
<1>6. CASE i \in 1..Len(c) /\ j - Len(c) \in 1..Len(b)
  <2>1. ~(i - Len(c) \in 1..Len(b)) /\ ~(j \in 1..Len(c))
    BY <1>4, <1>6
  <2> QED BY <1>2, <1>3, <1>4, <1>6, <2>1 DEF Below, s
<1>7. CASE i - Len(c) \in 1..Len(b) /\ j - Len(c) \in 1..Len(b)
  <2>1. i - Len(c) < j - Len(c) /\ ~(i \in 1..Len(c)) /\ ~(j \in 1..Len(c))
    BY <1>4, <1>7
  <2> QED BY <1>2, <1>3, <1>4, <1>7, <2>1 DEF Rising, s
<1> QED BY <1>2, <1>3, <1>4, <1>5, <1>6, <1>7 DEF s

\* The bytes to come, as a sequence.
LEMMA PlainsOf ==
  ASSUME NEW s \in Seq(Byte)
  PROVE  /\ Plains(s) \in Seq(Plain) /\ Len(Plains(s)) = Len(s)
         /\ \A i \in 1..Len(s) : Plains(s)[i] = s[i].plain
<1>1. \A i \in 1..Len(s) : s[i].plain \in Plain
  <2> TAKE i \in 1..Len(s)
  <2>1. s[i] \in Byte
    OBVIOUS
  <2> QED BY <2>1 DEF Byte
<1> QED BY <1>1 DEF Plains

\* A branch of the loop takes the first of the bytes to come.
LEMMA PopComing ==
  ASSUME IInv, NEW state, In(state)
  PROVE  /\ Coming \in Seq(Plain) /\ Coming' \in Seq(Plain)
         /\ Len(Coming) = Len(Coming') + 1
         /\ \A i \in 1..Len(Coming') : Coming'[i] = Coming[i + 1]
         /\ Coming[1] = ws_curr.plain
         /\ sent' = sent /\ frag' = frag
<1>1. /\ incomingDataBuffer \in Seq(Byte) /\ wire \in Seq(Byte) /\ incomingDataBuffer # << >>
      /\ incomingDataBuffer' = Tail(incomingDataBuffer) /\ wire' = wire /\ sent' = sent /\ frag' = frag
  BY DEF IInv, PeerInv, In, peer
<1> DEFINE s == incomingDataBuffer \o wire
           t == Tail(incomingDataBuffer) \o wire
<1>2. s \in Seq(Byte) /\ t \in Seq(Byte)
  BY <1>1
<1>3. /\ Len(s) = Len(t) + 1 /\ s[1] = Head(incomingDataBuffer)
      /\ \A i \in 1..Len(t) : t[i] = s[i + 1]
  BY <1>1
<1>4. Coming = Plains(s) /\ Coming' = Plains(t)
  BY <1>1 DEF Coming, Plains
<1> HIDE DEF s, t
<1>5. /\ Plains(s) \in Seq(Plain) /\ Len(Plains(s)) = Len(s)
      /\ Plains(t) \in Seq(Plain) /\ Len(Plains(t)) = Len(t)
      /\ \A i \in 1..Len(s) : Plains(s)[i] = s[i].plain
      /\ \A i \in 1..Len(t) : Plains(t)[i] = t[i].plain
  BY <1>2, PlainsOf
<1>6. Len(t) \in Nat /\ Len(s) = Len(t) + 1
  BY <1>2, <1>3
<1>7. ASSUME NEW i \in 1..Len(t) PROVE Plains(t)[i] = Plains(s)[i + 1]
  <2>1. i + 1 \in 1..Len(s)
    BY <1>6
  <2> QED BY <1>3, <1>5, <2>1
<1>8. Plains(s)[1] = ws_curr.plain
  BY <1>3, <1>5, <1>6 DEF ws_curr
<1> QED BY <1>1, <1>4, <1>5, <1>6, <1>7, <1>8

\* A step that takes a byte and delivers nothing keeps the order.
LEMMA Pop_Order ==
  ASSUME IInv, OrderTypes, OrderInv, NEW state, In(state), delivered' = delivered,
         NEW u, u \in {ws_curr.plain, Garbage},
         Held \in Seq(Plain), Held' \in Seq(Plain), Held' \in {Held, Append(Held, u), << >>}
  PROVE  OrderInv'
<1>1. /\ Coming \in Seq(Plain) /\ Coming' \in Seq(Plain)
      /\ Len(Coming) = Len(Coming') + 1
      /\ \A i \in 1..Len(Coming') : Coming'[i] = Coming[i + 1]
      /\ Coming[1] = ws_curr.plain
      /\ NextByte' = NextByte
  BY PopComing DEF NextByte
<1>2. /\ Rising(Coming')
      /\ Rising(Held') /\ Below(Held', Coming')
      /\ \A d \in Seq(Plain) : Below(d, Held) /\ Below(d, Coming) => Below(d, Held') /\ Below(d, Coming')
      /\ Bounded(Held', NextByte) /\ Bounded(Coming', NextByte)
  <2> DEFINE h == Held  g == Held'  c == Coming  r == Coming'  x == NextByte
  <2>1. /\ h \in Seq(Plain) /\ g \in Seq(Plain) /\ c \in Seq(Plain) /\ r \in Seq(Plain)
        /\ Takes(h, c, g, r)
        /\ Rising(h) /\ Rising(c) /\ Below(h, c) /\ Bounded(h, x) /\ Bounded(c, x)
    BY <1>1 DEF OrderInv, Takes
  <2> HIDE DEF h, g, c, r, x
  <2>2. /\ Rising(r) /\ Rising(g) /\ Below(g, r)
        /\ \A d \in Seq(Plain) : Below(d, h) /\ Below(d, c) => Below(d, g) /\ Below(d, r)
        /\ Bounded(g, x) /\ Bounded(r, x)
    BY <2>1, Taken
  <2> QED BY <2>2 DEF h, g, c, r, x
<1>3. /\ \A n \in 1..Len(delivered') :
           /\ Rising(delivered'[n])
           /\ Below(delivered'[n], Held') /\ Below(delivered'[n], Coming') /\ Bounded(delivered'[n], NextByte)
      /\ \A m, n \in 1..Len(delivered') : m < n => Below(delivered'[m], delivered'[n])
  <2>1. \A n \in 1..Len(delivered) : delivered[n] \in Seq(Plain)
    BY DEF OrderTypes
  <2> QED BY <1>2, <2>1 DEF OrderInv
<1>4. (\A n \in 1..Len(delivered') :
           /\ Rising(delivered'[n])
           /\ Below(delivered'[n], Held') /\ Below(delivered'[n], Coming') /\ Bounded(delivered'[n], NextByte'))
  BY <1>1, <1>3
<1> QED BY <1>1, <1>2, <1>3, <1>4 DEF OrderInv, Rising, Below, Bounded

\* A step that takes a byte and delivers what is held then keeps the order.
LEMMA Deliver_Order ==
  ASSUME IInv, OrderTypes, OrderInv, NEW state, In(state),
         NEW u, u \in {ws_curr.plain, Garbage},
         Held \in Seq(Plain), NEW g \in Seq(Plain), g \in {Held, Append(Held, u)},
         NEW m \in Seq(Plain), Len(m) <= Len(g), \A i \in 1..Len(m) : m[i] \in {g[i], Garbage},
         delivered' = Append(delivered, m), Held' = << >>
  PROVE  OrderInv'
<1>1. /\ Coming \in Seq(Plain) /\ Coming' \in Seq(Plain)
      /\ Len(Coming) = Len(Coming') + 1
      /\ \A i \in 1..Len(Coming') : Coming'[i] = Coming[i + 1]
      /\ Coming[1] = ws_curr.plain
      /\ NextByte' = NextByte
  BY PopComing DEF NextByte
<1> DEFINE h == Held  c == Coming  r == Coming'  x == NextByte
<1>2. /\ Rising(r) /\ Rising(m) /\ Below(m, r)
      /\ \A d \in Seq(Plain) : Below(d, h) /\ Below(d, c) => Below(d, m) /\ Below(d, r)
      /\ Bounded(m, x) /\ Bounded(r, x)
  <2>1. /\ h \in Seq(Plain) /\ g \in Seq(Plain) /\ c \in Seq(Plain) /\ r \in Seq(Plain)
        /\ Takes(h, c, g, r)
        /\ Rising(h) /\ Rising(c) /\ Below(h, c) /\ Bounded(h, x) /\ Bounded(c, x)
    BY <1>1 DEF OrderInv, Takes
  <2> HIDE DEF h, c, r, x
  <2>2. /\ Rising(r) /\ Rising(g) /\ Below(g, r)
        /\ \A d \in Seq(Plain) : Below(d, h) /\ Below(d, c) => Below(d, g) /\ Below(d, r)
        /\ Bounded(g, x) /\ Bounded(r, x)
    BY <2>1, Taken
  <2>3. /\ Rising(g) => Rising(m)
        /\ \A d \in Seq(Plain) : (Below(d, g) => Below(d, m)) /\ (Below(g, d) => Below(m, d))
        /\ \A y : Bounded(g, y) => Bounded(m, y)
    BY Shown
  <2> QED BY <2>1, <2>2, <2>3
<1>3. /\ Rising(Held') /\ Below(Held', Coming') /\ Bounded(Held', NextByte')
      /\ \A d : Below(d, Held')
  BY DEF Rising, Below, Bounded
<1>4. /\ Len(delivered') = Len(delivered) + 1 /\ Len(delivered) \in Nat
      /\ delivered'[Len(delivered) + 1] = m
      /\ \A n \in 1..Len(delivered) : delivered'[n] = delivered[n] /\ delivered[n] \in Seq(Plain)
  BY DEF OrderTypes
<1>5. \A n \in 1..Len(delivered) :
        /\ Rising(delivered[n]) /\ Below(delivered[n], h) /\ Below(delivered[n], c) /\ Bounded(delivered[n], x)
  BY DEF OrderInv
<1> HIDE DEF h, c, x
<1>6. ASSUME NEW n \in 1..Len(delivered')
      PROVE  /\ Rising(delivered'[n]) /\ Below(delivered'[n], r) /\ Bounded(delivered'[n], x)
             /\ n \in 1..Len(delivered) => Below(delivered'[n], m)
  <2>1. CASE n \in 1..Len(delivered)
    BY <1>2, <1>4, <1>5, <2>1
  <2>2. CASE n = Len(delivered) + 1
    <3>1. ~(n \in 1..Len(delivered)) /\ delivered'[n] = m
      BY <1>4, <2>2
    <3> QED BY <1>2, <3>1
  <2> QED BY <1>4, <2>1, <2>2
<1>7. ASSUME NEW j \in 1..Len(delivered'), NEW n \in 1..Len(delivered'), j < n
      PROVE  Below(delivered'[j], delivered'[n])
  <2>1. j \in 1..Len(delivered)
    BY <1>4, <1>7
  <2>2. CASE n \in 1..Len(delivered)
    BY <1>4, <1>7, <2>1, <2>2 DEF OrderInv
  <2>3. CASE n = Len(delivered) + 1
    BY <1>4, <1>6, <2>1, <2>3
  <2> QED BY <1>4, <2>2, <2>3
<1>8. Rising(Coming') /\ Bounded(Coming', NextByte')
  BY <1>1, <1>2 DEF x
<1>9. \A n \in 1..Len(delivered') :
        /\ Rising(delivered'[n])
        /\ Below(delivered'[n], Held') /\ Below(delivered'[n], Coming') /\ Bounded(delivered'[n], NextByte')
  BY <1>1, <1>3, <1>6 DEF x
<1> HIDE DEF r
<1> QED BY <1>3, <1>7, <1>8, <1>9 DEF OrderInv, Rising, Below, Bounded

\* What is held is a sequence of bytes, and a byte or nothing is added to it.
LEMMA HeldType ==
  ASSUME IInv, OrderTypes
  PROVE  Held \in Seq(Plain)
BY DEF IInv, ReaderInv, OrderTypes, Held

\* No byte of s is of a payload.
Blank(s) == \A i \in 1..Len(s) : s[i].plain = Garbage

\* Two parts without payload are one.
LEMMA BlankJoined ==
  ASSUME NEW s \in Seq(Byte), NEW t \in Seq(Byte), Blank(s), Blank(t)
  PROVE  s \o t \in Seq(Byte) /\ Blank(s \o t)
<1> DEFINE e == s \o t
<1>1. e \in Seq(Byte) /\ Len(e) = Len(s) + Len(t)
  OBVIOUS
<1>2. ASSUME NEW i \in 1..Len(e) PROVE e[i] = IF i <= Len(s) THEN s[i] ELSE t[i - Len(s)]
  OBVIOUS
<1>3. ASSUME NEW i \in 1..Len(e) PROVE e[i].plain = Garbage
  <2>1. i <= Len(s) => i \in 1..Len(s)
    BY <1>1
  <2>2. i > Len(s) => i - Len(s) \in 1..Len(t)
    BY <1>1
  <2> HIDE DEF e
  <2> QED BY <1>2, <2>1, <2>2 DEF Blank
<1> QED BY <1>1, <1>3 DEF Blank

\* Where the payload is among the bytes of a frame.
LEMMA FrameLayout ==
  ASSUME NEW f \in Frames, NEW n \in Nat, NEW b \in Fillers, NEW data \in [1..PayloadBytes(f) -> Content]
  PROVE  \E a, body \in Seq(Byte) :
           /\ Bytes(f, n, data, b) = a \o body
           /\ Blank(a) /\ Len(body) = PayloadBytes(f)
           /\ \A i \in 1..Len(body) : body[i].plain = data[i]
<1>1. PICK header, ext, mask, body \in Seq(Byte) :
        /\ Bytes(f, n, data, b) = header \o ext \o mask \o body
        /\ FrameShape(f, n, data, header, ext, mask, body)
  BY FrameParts
<1>4. /\ Blank(header) /\ Blank(ext) /\ Blank(mask)
      /\ Len(body) = PayloadBytes(f)
      /\ \A i \in 1..Len(body) : body[i].plain = data[i]
  BY <1>1 DEF Blank, FrameShape
<1>2. header \o ext \in Seq(Byte) /\ Blank(header \o ext)
  BY <1>4, BlankJoined
<1>3. header \o ext \o mask \in Seq(Byte) /\ Blank(header \o ext \o mask)
  BY <1>4, <1>2, BlankJoined
<1> QED BY <1>1, <1>3, <1>4

\* The order of bytes is transitive.
LEMMA BeforeTransitive ==
  ASSUME NEW x \in Content, NEW y \in Content, NEW z \in Content, Before(x, y), Before(y, z)
  PROVE  Before(x, z)
<1>1. x[1] \in Nat /\ x[2] \in Nat /\ y[1] \in Nat /\ y[2] \in Nat /\ z[1] \in Nat /\ z[2] \in Nat
  BY DEF Content
<1> QED BY <1>1 DEF Before

\* The bytes of a frame that the peer sends come in order, and behind all bytes before.
LEMMA SentOrder ==
  ASSUME NEW a \in Seq(Byte), NEW body \in Seq(Byte), NEW i \in Nat, NEW k \in Nat,
         Blank(a), \A j \in 1..Len(body) : body[j].plain = <<i, k + j>>
  PROVE  LET b == Plains(a \o body) IN
         /\ b \in Seq(Plain) /\ Rising(b)
         /\ \A c \in Seq(Plain) : Bounded(c, <<i, k + 1>>) => Below(c, b)
         /\ Bounded(b, <<i, k + Len(body) + 1>>)
         /\ Bounded(b, <<i + 1, 1>>)
<1> DEFINE e == a \o body
           b == Plains(e)
<1>1. e \in Seq(Byte) /\ Len(e) = Len(a) + Len(body) /\ Len(a) \in Nat /\ Len(body) \in Nat
  OBVIOUS
<1>2. ASSUME NEW j \in 1..Len(e)
      PROVE  e[j].plain = Garbage \/ (j - Len(a) \in 1..Len(body) /\ e[j].plain = <<i, k + (j - Len(a))>>)
  <2>1. e[j] = IF j <= Len(a) THEN a[j] ELSE body[j - Len(a)]
    OBVIOUS
  <2>2. j <= Len(a) => j \in 1..Len(a)
    BY <1>1
  <2>3. j > Len(a) => j - Len(a) \in 1..Len(body)
    BY <1>1
  <2> HIDE DEF e
  <2> QED BY <2>1, <2>2, <2>3 DEF Blank
<1> HIDE DEF e
<1>3. b \in Seq(Plain) /\ Len(b) = Len(e) /\ \A j \in 1..Len(e) : b[j] = e[j].plain
  BY <1>1, PlainsOf
<1> HIDE DEF b
<1>4. ASSUME NEW j \in 1..Len(b), b[j] # Garbage
      PROVE  \E p \in 1..Len(body) : j = Len(a) + p /\ b[j] = <<i, k + p>>
  <2>1. j - Len(a) \in 1..Len(body) /\ b[j] = <<i, k + (j - Len(a))>>
    BY <1>2, <1>3, <1>4
  <2>2. j = Len(a) + (j - Len(a))
    BY <1>1
  <2> QED BY <2>1, <2>2
<1>5. Rising(b)
  <2> SUFFICES ASSUME NEW x \in 1..Len(b), NEW y \in 1..Len(b), x < y, b[x] # Garbage, b[y] # Garbage
               PROVE  Before(b[x], b[y])
    BY DEF Rising
  <2>1. PICK p \in 1..Len(body) : x = Len(a) + p /\ b[x] = <<i, k + p>>
    BY <1>4
  <2>2. PICK q \in 1..Len(body) : y = Len(a) + q /\ b[y] = <<i, k + q>>
    BY <1>4
  <2>3. p < q
    BY <1>1, <2>1, <2>2
  <2> QED BY <1>1, <2>1, <2>2, <2>3 DEF Before
<1>6. ASSUME NEW c \in Seq(Plain), Bounded(c, <<i, k + 1>>)
      PROVE  Below(c, b)
  <2> SUFFICES ASSUME NEW x \in 1..Len(c), NEW y \in 1..Len(b), c[x] # Garbage, b[y] # Garbage
               PROVE  Before(c[x], b[y])
    BY DEF Below
  <2>1. PICK q \in 1..Len(body) : y = Len(a) + q /\ b[y] = <<i, k + q>>
    BY <1>4
  <2>2. c[x] \in Content
    BY DEF Plain
  <2>3. c[x][1] \in Nat /\ c[x][2] \in Nat
    BY <2>2 DEF Content
  <2>4. Before(c[x], <<i, k + 1>>)
    BY <1>6 DEF Bounded
  <2> QED BY <2>1, <2>3, <2>4 DEF Before
<1>7. Bounded(b, <<i, k + Len(body) + 1>>) /\ Bounded(b, <<i + 1, 1>>)
  <2> SUFFICES ASSUME NEW x \in 1..Len(b), b[x] # Garbage
               PROVE  Before(b[x], <<i, k + Len(body) + 1>>) /\ Before(b[x], <<i + 1, 1>>)
    BY DEF Bounded
  <2>1. PICK p \in 1..Len(body) : x = Len(a) + p /\ b[x] = <<i, k + p>>
    BY <1>4
  <2> QED BY <1>1, <2>1 DEF Before
<1> QED BY <1>3, <1>5, <1>6, <1>7 DEF b, e

\* What was before the next byte the peer sends, is before every later one.
LEMMA LaterBound ==
  ASSUME NEW c \in Seq(Plain), NEW x \in Content, NEW y \in Content, Before(x, y) \/ x = y, Bounded(c, x)
  PROVE  Bounded(c, y)
<1> SUFFICES ASSUME NEW i \in 1..Len(c), c[i] # Garbage PROVE Before(c[i], y)
  BY DEF Bounded
<1>1. c[i] \in Content /\ Before(c[i], x)
  BY DEF Plain, Bounded
<1> QED BY <1>1, BeforeTransitive

\* Bytes that are put behind others.
LEMMA Joined ==
  ASSUME NEW c \in Seq(Plain), NEW b \in Seq(Plain), NEW x
  PROVE  /\ Bounded(c, x) /\ Bounded(b, x) => Bounded(c \o b, x)
         /\ \A d \in Seq(Plain) : Below(d, c) /\ Below(d, b) => Below(d, c \o b)
<1> DEFINE s == c \o b
<1>1. \A i \in 1..Len(s) : (\E k \in 1..Len(c) : s[i] = c[k]) \/ (\E k \in 1..Len(b) : s[i] = b[k])
  <2> TAKE i \in 1..Len(s)
  <2>1. s[i] = IF i <= Len(c) THEN c[i] ELSE b[i - Len(c)]
    OBVIOUS
  <2>2. (i <= Len(c) => i \in 1..Len(c)) /\ (i > Len(c) => i - Len(c) \in 1..Len(b))
    OBVIOUS
  <2> HIDE DEF s
  <2> QED BY <2>1, <2>2
<1> HIDE DEF s
<1>2. Bounded(c, x) /\ Bounded(b, x) => Bounded(s, x)
  BY <1>1 DEF Bounded
<1>3. \A d \in Seq(Plain) : Below(d, c) /\ Below(d, b) => Below(d, s)
  BY <1>1 DEF Below
<1> QED BY <1>2, <1>3 DEF s

\* A conversion of all bytes of two parts.
LEMMA PlainsJoined ==
  ASSUME NEW s \in Seq(Byte), NEW t \in Seq(Byte)
  PROVE  Plains(s \o t) = Plains(s) \o Plains(t)
<1> DEFINE l == Plains(s \o t)
           p == Plains(s)
           q == Plains(t)
           r == p \o q
<1>1. /\ p \in Seq(Plain) /\ Len(p) = Len(s) /\ \A i \in 1..Len(s) : p[i] = s[i].plain
      /\ q \in Seq(Plain) /\ Len(q) = Len(t) /\ \A i \in 1..Len(t) : q[i] = t[i].plain
  BY PlainsOf
<1>2. l \in Seq(Plain) /\ Len(l) = Len(s) + Len(t) /\ \A i \in 1..Len(s) + Len(t) : l[i] = (s \o t)[i].plain
  <2>1. s \o t \in Seq(Byte) /\ Len(s \o t) = Len(s) + Len(t)
    OBVIOUS
  <2> QED BY <2>1, PlainsOf
<1> HIDE DEF l, p, q
<1>3. r \in Seq(Plain) /\ Len(r) = Len(s) + Len(t)
  <2>1. p \in Seq(Plain) /\ q \in Seq(Plain) /\ Len(p) = Len(s) /\ Len(q) = Len(t)
    BY <1>1
  <2>2. r \in Seq(Plain)
    BY <2>1
  <2>3. Len(r) = Len(p) + Len(q)
    BY <2>1, ConcatProperties, Zenon
  <2> QED BY <2>1, <2>2, <2>3
<1>4. ASSUME NEW i \in 1..Len(s) + Len(t) PROVE l[i] = r[i]
  <2>1. (s \o t)[i] = IF i <= Len(s) THEN s[i] ELSE t[i - Len(s)]
    OBVIOUS
  <2>2. r[i] = IF i <= Len(s) THEN p[i] ELSE q[i - Len(s)]
    BY <1>1
  <2>3. (i <= Len(s) => i \in 1..Len(s)) /\ (i > Len(s) => i - Len(s) \in 1..Len(t))
    OBVIOUS
  <2>4. l[i] = (s \o t)[i].plain
    BY <1>2
  <2> HIDE DEF r
  <2>5. CASE i <= Len(s)
    BY <1>1, <2>1, <2>2, <2>3, <2>4, <2>5
  <2>6. CASE i > Len(s)
    BY <1>1, <2>1, <2>2, <2>3, <2>4, <2>6
  <2> QED BY <2>5, <2>6
<1> HIDE DEF r
<1>5. l = r
  BY <1>2, <1>3, <1>4
<1> QED BY <1>5 DEF l, r, p, q

\* A frame is sent behind all that was sent before.
LEMMA Peer_Send_Order == IInv /\ OrderTypes /\ OrderInv /\ Peer_Send => OrderInv'
<1> SUFFICES ASSUME IInv, OrderTypes, OrderInv, Peer_Send PROVE OrderInv'
  OBVIOUS
<1>1. PICK f \in Frames, b \in Fillers :
        LET data == [i \in 1..PayloadBytes(f) |-> <<Len(sent) + 1, Len(frag) + i>>] IN
        /\ wire' = wire \o Bytes(f, count + 1, data, b)
        /\ IF f.fin
             THEN frag' = <<>> /\ sent' = Append(sent, frag \o data)
             ELSE frag' = frag \o data /\ UNCHANGED sent
  BY DEF Peer_Send
<1> DEFINE data == [i \in 1..PayloadBytes(f) |-> <<Len(sent) + 1, Len(frag) + i>>]
           new == Bytes(f, count + 1, data, b)
<1>2. /\ count + 1 \in Nat /\ sent \in Seq(Seq(Content)) /\ frag \in Seq(Content)
      /\ wire \in Seq(Byte) /\ incomingDataBuffer \in Seq(Byte) /\ incomingDataBuffer' = incomingDataBuffer
      /\ Len(sent) + 1 \in Nat /\ Len(frag) \in Nat /\ PayloadBytes(f) \in Nat
  BY FramesAssumption, FrameSizes DEF Peer_Send, IInv, PeerInv
<1>3. data \in [1..PayloadBytes(f) -> Content] /\ data \in Seq(Content) /\ Len(data) = PayloadBytes(f)
  <2>1. \A i \in 1..PayloadBytes(f) : <<Len(sent) + 1, Len(frag) + i>> \in Content
    BY <1>2 DEF Content
  <2>2. data \in [1..PayloadBytes(f) -> Content]
    BY <2>1
  <2>3. PayloadBytes(f) \in Nat
    BY <1>2
  <2> DEFINE p == PayloadBytes(f)
  <2> HIDE DEF data, p
  <2>4. p \in Nat /\ data \in [1..p -> Content]
    BY <2>2, <2>3 DEF p
  <2>5. data \in Seq(Content) /\ Len(data) = p
    BY <2>4
  <2> QED BY <2>2, <2>5 DEF p
<1>4. \A i \in 1..PayloadBytes(f) : data[i] = <<Len(sent) + 1, Len(frag) + i>>
  OBVIOUS
<1>5. /\ wire' = wire \o new
      /\ \/ frag' = <<>> /\ sent' = Append(sent, frag \o data)
         \/ frag' = frag \o data /\ sent' = sent
  BY <1>1
<1> HIDE DEF data
<1>6. PICK a, body \in Seq(Byte) :
        /\ new = a \o body /\ Blank(a) /\ Len(body) = PayloadBytes(f)
        /\ \A i \in 1..Len(body) : body[i].plain = data[i]
  BY <1>2, <1>3, FrameLayout
<1> HIDE DEF new
<1> DEFINE late == Plains(new)
<1>7. /\ late \in Seq(Plain) /\ Rising(late)
      /\ \A c \in Seq(Plain) : Bounded(c, NextByte) => Below(c, late)
      /\ Bounded(late, <<Len(sent) + 1, Len(frag) + Len(body) + 1>>)
      /\ Bounded(late, <<Len(sent) + 1 + 1, 1>>)
  <2>1. \A i \in 1..Len(body) : body[i].plain = <<Len(sent) + 1, Len(frag) + i>>
    BY <1>4, <1>6
  <2> DEFINE i == Len(sent) + 1  k == Len(frag)
  <2>2. i \in Nat /\ k \in Nat /\ NextByte = <<i, k + 1>> /\ \A j \in 1..Len(body) : body[j].plain = <<i, k + j>>
    BY <1>2, <2>1 DEF NextByte
  <2> HIDE DEF i, k
  <2>3. LET p == Plains(a \o body) IN
         /\ p \in Seq(Plain) /\ Rising(p)
         /\ \A c \in Seq(Plain) : Bounded(c, <<i, k + 1>>) => Below(c, p)
         /\ Bounded(p, <<i, k + Len(body) + 1>>)
         /\ Bounded(p, <<i + 1, 1>>)
    BY <1>6, <2>2, SentOrder
  <2> QED BY <1>6, <2>2, <2>3 DEF i, k
<1>8. /\ NextByte \in Content /\ NextByte' \in Content /\ (Before(NextByte, NextByte') \/ NextByte = NextByte')
      /\ Bounded(late, NextByte')
  <2>1. CASE frag' = <<>> /\ sent' = Append(sent, frag \o data)
    <3>1. NextByte' = <<Len(sent) + 1 + 1, 1>>
      <4>1. frag \o data \in Seq(Content)
        BY <1>2, <1>3
      <4>2. Len(sent') = Len(sent) + 1
        BY <1>2, <2>1, <4>1
      <4> QED BY <2>1, <4>2 DEF NextByte
    <3>2. Bounded(late, NextByte')
      BY <1>7, <3>1
    <3> HIDE DEF late
    <3>3. <<Len(sent) + 1 + 1, 1>> \in Content
      BY <1>2 DEF Content
    <3> QED BY <1>2, <3>1, <3>2, <3>3 DEF NextByte, Content, Before
  <2>2. CASE frag' = frag \o data /\ sent' = sent
    <3>1. NextByte' = <<Len(sent) + 1, Len(frag) + Len(body) + 1>>
      <4>1. Len(frag') = Len(frag) + Len(body)
        <5>1. Len(frag \o data) = Len(frag) + Len(data)
          BY <1>2, <1>3, ConcatProperties
        <5> QED BY <1>3, <1>6, <2>2, <5>1
      <4> QED BY <2>2, <4>1 DEF NextByte
    <3>2. Len(body) \in Nat
      BY <1>2, <1>6
    <3>3. Bounded(late, NextByte')
      BY <1>7, <3>1
    <3> HIDE DEF late
    <3>4. <<Len(sent) + 1, Len(frag) + Len(body) + 1>> \in Content
      BY <1>2, <3>2 DEF Content
    <3>5. Before(NextByte, NextByte') \/ NextByte = NextByte'
      BY <1>2, <3>1, <3>2 DEF NextByte, Before
    <3>6. NextByte \in Content
      BY <1>2 DEF NextByte, Content
    <3> QED BY <3>1, <3>3, <3>4, <3>5, <3>6
  <2> QED BY <1>5, <2>1, <2>2
<1>9. /\ Coming \in Seq(Plain) /\ Coming' = Coming \o late
  <2>1. /\ incomingDataBuffer \o wire \in Seq(Byte) /\ new \in Seq(Byte)
        /\ incomingDataBuffer' \o wire' = (incomingDataBuffer \o wire) \o new
    <3>1. new \in Seq(Byte)
      BY <1>6
    <3> DEFINE p == incomingDataBuffer  q == wire
    <3>2. p \in Seq(Byte) /\ q \in Seq(Byte) /\ p' = p /\ q' = q \o new
      BY <1>2, <1>5
    <3>3. p \o q \in Seq(Byte) /\ p \o (q \o new) = (p \o q) \o new
      <4> HIDE DEF p, q
      <4> QED BY <3>1, <3>2
    <3> QED BY <3>1, <3>2, <3>3
  <2> DEFINE s == incomingDataBuffer \o wire
  <2>2. s \in Seq(Byte) /\ Coming = Plains(s) /\ Coming' = Plains(s \o new)
    BY <2>1 DEF Coming, Plains
  <2> HIDE DEF s
  <2> QED BY <2>1, <2>2, PlainsJoined, PlainsOf
<1>10. Held \in Seq(Plain) /\ Held' = Held /\ delivered' = delivered
  BY HeldType DEF Peer_Send, Held, reader, payload, app
<1>11. \A n \in 1..Len(delivered) : delivered[n] \in Seq(Plain)
  BY DEF OrderTypes
<1> DEFINE x == NextByte  y == NextByte'  c == Coming  h == Held
<1>12. /\ Rising(h) /\ Rising(c) /\ Below(h, c) /\ Bounded(h, x) /\ Bounded(c, x)
       /\ h \in Seq(Plain) /\ c \in Seq(Plain)
       /\ x \in Content /\ y \in Content /\ (Before(x, y) \/ x = y) /\ Bounded(late, y)
       /\ \A d \in Seq(Plain) : Bounded(d, x) => Below(d, late)
       /\ late \in Seq(Plain) /\ Rising(late)
  BY <1>7, <1>8, <1>9, <1>10 DEF OrderInv
<1>13. \A n \in 1..Len(delivered) :
         Rising(delivered[n]) /\ Below(delivered[n], h) /\ Below(delivered[n], c) /\ Bounded(delivered[n], x)
  BY DEF OrderInv
<1> HIDE DEF x, y, c, h, late
<1>14. \A d \in Seq(Plain) : Bounded(d, x) => Bounded(d, y)
  BY <1>12, LaterBound
<1>15. \A d \in Seq(Plain) : Below(d, c) /\ Bounded(d, x) => Below(d, c \o late)
  BY <1>12, Joined
<1>16. Rising(c \o late)
  BY <1>12, Added
<1>17. Bounded(c \o late, y)
  BY <1>12, <1>14, Joined
<1>18. \A n \in 1..Len(delivered) :
         Rising(delivered[n]) /\ Below(delivered[n], h) /\ Below(delivered[n], c \o late) /\ Bounded(delivered[n], y)
  BY <1>11, <1>13, <1>14, <1>15
<1>19. /\ Coming' = c \o late /\ Held' = h /\ NextByte' = y
  BY <1>9, <1>10 DEF c, h, y
<1>20. /\ Rising(Held') /\ Rising(Coming') /\ Below(Held', Coming')
       /\ Bounded(Held', NextByte') /\ Bounded(Coming', NextByte')
  BY <1>12, <1>14, <1>15, <1>16, <1>17, <1>19
<1>21. /\ \A n \in 1..Len(delivered') :
         /\ Rising(delivered'[n])
         /\ Below(delivered'[n], Held') /\ Below(delivered'[n], Coming') /\ Bounded(delivered'[n], NextByte')
       /\ \A m, n \in 1..Len(delivered') : m < n => Below(delivered'[m], delivered'[n])
  BY <1>10, <1>18, <1>19 DEF OrderInv
<1> QED BY <1>20, <1>21 DEF OrderInv, Rising, Below, Bounded

\* What surrounds the reader leaves the bytes it has not read as they are.
LEMMA Around_Unread ==
  ASSUME IInv, Peer_Close \/ Receive \/ Task_Start \/ Task_End \/ finalizeClient \/ Return \/ UNCHANGED vars
  PROVE  /\ incomingDataBuffer' \o wire' = incomingDataBuffer \o wire
         /\ UNCHANGED <<count, frag, sent, delivered, ws_tempIndex, size, ws_mask, payload>>
         /\ webSocketState' = webSocketState \/ webSocketState' = "WS_FINISHED"
<1>1. UNCHANGED <<count, frag, sent, delivered, ws_tempIndex, size, ws_mask, payload>>
  BY DEF Peer_Close, Receive, Task_Start, Task_End, finalizeClient, Return, vars, peer, app, reader
<1>2. webSocketState' = webSocketState \/ webSocketState' = "WS_FINISHED"
  BY DEF Peer_Close, Receive, Task_Start, Task_End, finalizeClient, Return, vars, reader
<1>3. incomingDataBuffer' \o wire' = incomingDataBuffer \o wire
  <2>1. CASE Receive
    <3>1. PICK n \in 1..Len(wire) :
            /\ incomingDataBuffer' = incomingDataBuffer \o SubSeq(wire, 1, n)
            /\ wire' = SubSeq(wire, n + 1, Len(wire))
      BY <2>1 DEF Receive
    <3>2. incomingDataBuffer \in Seq(Byte) /\ wire \in Seq(Byte)
      BY DEF IInv, PeerInv
    <3>3. SubSeq(wire, 1, n) \o SubSeq(wire, n + 1, Len(wire)) = wire
      BY <3>2
    <3>4. SubSeq(wire, 1, n) \in Seq(Byte) /\ SubSeq(wire, n + 1, Len(wire)) \in Seq(Byte)
      BY <3>2
    <3>5. \A a, c, d \in Seq(Byte) : (a \o c) \o d = a \o (c \o d)
      OBVIOUS
    <3>6. (incomingDataBuffer \o SubSeq(wire, 1, n)) \o SubSeq(wire, n + 1, Len(wire))
            = incomingDataBuffer \o (SubSeq(wire, 1, n) \o SubSeq(wire, n + 1, Len(wire)))
      BY <3>2, <3>4, <3>5
    <3> QED BY <3>1, <3>3, <3>6, Zenon
  <2>2. CASE Peer_Close \/ Task_Start \/ Task_End \/ finalizeClient \/ Return \/ UNCHANGED vars
    BY <2>2 DEF Peer_Close, Task_Start, Task_End, finalizeClient, Return, vars, peer
  <2> QED BY <2>1, <2>2
<1> QED BY <1>1, <1>2, <1>3

\* What surrounds the reader moves no byte past another.
LEMMA Around_Order ==
  ASSUME IInv, OrderInv, Peer_Close \/ Receive \/ Task_Start \/ Task_End \/ finalizeClient \/ Return \/ UNCHANGED vars
  PROVE  OrderInv'
<1>1. /\ delivered' = delivered /\ sent' = sent /\ frag' = frag
      /\ ws_payload' = ws_payload /\ ws_packPayload' = ws_packPayload
  BY DEF Peer_Close, Receive, Task_Start, Task_End, finalizeClient, Return, vars, peer, app, payload, reader
<1>2. incomingDataBuffer' \o wire' = incomingDataBuffer \o wire
  BY Around_Unread
<1>3. Coming' = Coming /\ Held' = Held /\ NextByte' = NextByte
  BY <1>1, <1>2 DEF Coming, Plains, Held, NextByte
<1> QED BY <1>1, <1>3 DEF OrderInv, Rising, Below, Bounded

\* A byte behind the second of two parts is behind both.
LEMMA AppendBehind ==
  ASSUME NEW s \in Seq(Plain), NEW t \in Seq(Plain), NEW u \in Plain
  PROVE  s \o Append(t, u) = Append(s \o t, u)
OBVIOUS

\* What the reader would hold with the byte it reads.
LEMMA PackHeld ==
  ASSUME IInv, OrderTypes, In("WS_READING_PAYLOAD")
  PROVE  /\ Unmasked \in {ws_curr.plain, Garbage} /\ Unmasked \in Plain
         /\ Pack \in Seq(Plain) /\ Len(Pack) = NextIndex
         /\ FlattenSeq(ws_payload) \o Pack \in Seq(Plain)
         /\ FlattenSeq(ws_payload) \o Pack \in {Held, Append(Held, Unmasked)}
<1>1. /\ FlattenSeq(ws_payload) \in Seq(Plain) /\ ws_packPayload \in Seq(Plain)
      /\ Len(ws_packPayload) = ws_tempIndex /\ ws_tempIndex \in Nat
  BY DEF OrderTypes, IInv, ReaderInv, BoundsInv, In
<1>2. Unmasked \in {ws_curr.plain, Garbage} /\ Unmasked \in Plain
  <2>1. ws_curr \in Byte
    BY PopsAByte
  <2> QED BY <2>1 DEF Unmasked, Byte, Plain
<1>3. \/ Pack = ws_packPayload /\ NextIndex = ws_tempIndex
      \/ Pack = Append(ws_packPayload, Unmasked) /\ NextIndex = ws_tempIndex + 1
  BY DEF Pack, NextIndex
<1>4. CASE Pack = ws_packPayload /\ NextIndex = ws_tempIndex
  BY <1>1, <1>2, <1>4 DEF Held
<1>5. CASE Pack = Append(ws_packPayload, Unmasked) /\ NextIndex = ws_tempIndex + 1
  <2>1. Pack \in Seq(Plain) /\ Len(Pack) = NextIndex
    BY <1>1, <1>2, <1>5
  <2>2. FlattenSeq(ws_payload) \o Pack = Append(Held, Unmasked)
    BY <1>1, <1>2, <1>5, AppendBehind DEF Held
  <2>3. FlattenSeq(ws_payload) \o Pack \in Seq(Plain)
    BY <1>1, <2>1
  <2> QED BY <1>2, <2>1, <2>2, <2>3
<1> QED BY <1>3, <1>4, <1>5

\* The header, the mask and the errors: a byte is read that is not of the payload.
LEMMA Header_Order ==
  ASSUME IInv, OrderTypes, OrderInv, ReadPackInfo1 \/ ReadPackInfo2 \/ ReadField \/ FailedState
  PROVE  OrderInv' /\ OrderTypes'
<1>1. PICK state : In(state)
  BY DEF ReadPackInfo1, ReadPackInfo2, ReadField, FailedState
<1>2. delivered' = delivered /\ ws_payload' = ws_payload /\ ws_packPayload' = ws_packPayload
  <2>1. CASE ReadPackInfo1
    <3>1. ws_packPayload = << >>
      BY <2>1 DEF ReadPackInfo1, In, IInv, BoundsInv
    <3> QED BY <2>1, <3>1 DEF ReadPackInfo1, app
  <2>2. CASE ReadPackInfo2 \/ ReadField \/ FailedState
    BY <2>2 DEF ReadPackInfo2, ReadField, FailedState, app, payload
  <2> QED BY <2>1, <2>2
<1>3. Held' = Held /\ Held \in Seq(Plain) /\ Held' \in Seq(Plain)
  BY <1>2, HeldType DEF Held
<1>4. OrderInv'
  BY <1>1, <1>2, <1>3, Pop_Order
<1> QED BY <1>2, <1>4 DEF OrderTypes

\* A byte of payload that does not complete its frame.
LEMMA ReadPayload_Order ==
  ASSUME IInv, OrderTypes, OrderInv, ReadPayload
  PROVE  OrderInv' /\ OrderTypes'
<1>1. /\ In("WS_READING_PAYLOAD") /\ delivered' = delivered /\ ws_payload' = ws_payload
      /\ ws_packPayload' = Pack
  BY DEF ReadPayload, app
<1>2. /\ Unmasked \in {ws_curr.plain, Garbage}
      /\ Held' \in Seq(Plain) /\ Held' \in {Held, Append(Held, Unmasked)}
  <2>1. Held' = FlattenSeq(ws_payload) \o Pack
    BY <1>1 DEF Held
  <2> QED BY <1>1, <2>1, PackHeld
<1>3. OrderInv'
  BY <1>1, <1>2, HeldType, Pop_Order
<1> QED BY <1>1, <1>3 DEF OrderTypes

\* The fragment goes behind the others of its message.
LEMMA EndOfFragment_Order ==
  ASSUME IInv, OrderTypes, OrderInv, EndOfFragment
  PROVE  OrderInv' /\ OrderTypes'
<1>1. /\ In("WS_READING_PAYLOAD") /\ delivered' = delivered /\ ws_payload' = Append(ws_payload, Pack)
      /\ ws_packPayload' = << >>
  BY DEF EndOfFragment, EndOfFrame
<1>2. /\ Unmasked \in {ws_curr.plain, Garbage} /\ Pack \in Seq(Plain)
      /\ FlattenSeq(ws_payload) \o Pack \in Seq(Plain)
      /\ FlattenSeq(ws_payload) \o Pack \in {Held, Append(Held, Unmasked)}
  BY <1>1, PackHeld
<1>3. FlattenSeq(ws_payload') = FlattenSeq(ws_payload) \o Pack
  BY <1>1, <1>2, FlattenAppend DEF OrderTypes
<1>4. Held' = FlattenSeq(ws_payload) \o Pack
  <2>1. \A s \in Seq(Plain) : s \o << >> = s
    OBVIOUS
  <2> QED BY <1>1, <1>2, <1>3, <2>1 DEF Held
<1>5. OrderInv'
  BY <1>1, <1>2, <1>4, HeldType, Pop_Order
<1>6. ws_payload' \in Seq(Seq(Plain))
  BY <1>1, <1>2 DEF OrderTypes
<1> QED BY <1>1, <1>2, <1>3, <1>5, <1>6 DEF OrderTypes

\* What is copied into fullPayload are bytes, as many as the last frame has.
LEMMA CopiedBytes ==
  ASSUME NEW freed \in Seq(Plain), NEW pack \in Seq(Plain), NEW room \in Nat,
         NEW full \in [1..room -> Range(freed) \cup Range(pack) \cup {Garbage}]
  PROVE  full \in Seq(Plain) /\ Len(full) = room
<1>1. Range(freed) \subseteq Plain /\ Range(pack) \subseteq Plain /\ Garbage \in Plain
  BY DEF Range, Plain
<1>2. full \in [1..room -> Plain]
  BY <1>1
<1> QED BY <1>2

\* What the application gets is the beginning of what is held, without what was lost of it: if all
\* bytes have room, no other fragment has any.
LEMMA EndOfMessage_Order ==
  ASSUME IInv, OrderTypes, OrderInv, TotalReset, EndOfMessage, ~overrun'
  PROVE  OrderInv' /\ OrderTypes'
<1>1. /\ In("WS_READING_PAYLOAD") /\ ws_payload' = << >> /\ ws_packPayload' = << >>
      /\ ws_totalPayload = 0
  BY DEF EndOfMessage, EndOfFrame, In, TotalReset
<1> DEFINE freed == FlattenSeq(ws_payload)
           g == freed \o Pack
           room == ws_totalPayload + NextIndex
<1>2. /\ Unmasked \in {ws_curr.plain, Garbage}
      /\ Pack \in Seq(Plain) /\ Len(Pack) = NextIndex /\ freed \in Seq(Plain)
      /\ g \in Seq(Plain) /\ g \in {Held, Append(Held, Unmasked)}
  BY <1>1, PackHeld DEF OrderTypes
<1>3. FlattenSeq(ws_payload') = << >> /\ Held' = << >>
  BY <1>1 DEF FlattenSeq, Held
<1>4. << >> \in Seq(Plain) /\ << >> \in Seq(Seq(Plain)) /\ room = Len(Pack) /\ room \in Nat
  BY <1>1, <1>2
<1>5. CASE delivered' = delivered
  <2>1. OrderInv'
    BY <1>1, <1>2, <1>3, <1>4, <1>5, HeldType, Pop_Order
  <2> QED BY <1>1, <1>3, <1>4, <1>5, <2>1 DEF OrderTypes
<1>6. CASE delivered' # delivered
  <2>1. PICK m \in Seq(Plain) :
          /\ delivered' = Append(delivered, m) /\ freed = << >>
          /\ Len(m) = Len(Pack) /\ \A i \in 1..Len(m) : m[i] \in {Pack[i], Garbage}
    <3>1. CASE ws_payload = << >>
      <4>1. freed = << >>
        BY <3>1 DEF FlattenSeq
      <4>2. delivered' = Append(delivered, SubSeq(Pack, 1, room))
        BY <3>1 DEF EndOfMessage
      <4> DEFINE p == Pack
      <4>3. p \in Seq(Plain) /\ delivered' = Append(delivered, SubSeq(p, 1, Len(p)))
        BY <1>2, <1>4, <4>2
      <4> HIDE DEF p
      <4>4. SubSeq(p, 1, Len(p)) = p
        BY <4>3
      <4> QED BY <4>1, <4>3, <4>4 DEF p
    <3>2. CASE ws_payload # << >>
      <4>1. FromFragments
        BY <1>6, <3>2 DEF EndOfMessage
      <4>2. PICK full \in [1..room -> Range(freed) \cup Range(Pack) \cup {Garbage}] :
              /\ freed = <<>> => \A i \in 1..room : full[i] \in {Pack[i], Garbage}
              /\ delivered' = Append(delivered, full)
              /\ overrun' = (Len(freed) + Len(Pack) > room)
        BY <4>1, Zenon DEF FromFragments
      <4> DEFINE long == Len(freed) + Len(Pack) > room
      <4>0. ~long
        <5>1. overrun' = long
          BY <4>2, Zenon
        <5> HIDE DEF long
        <5> QED BY <5>1
      <4> HIDE DEF long
      <4>4. full \in Seq(Plain) /\ Len(full) = room
        BY <1>2, <1>4, CopiedBytes
      <4> DEFINE f == freed  p == Pack
      <4> HIDE DEF f, p
      <4>3. /\ f \in Seq(Plain) /\ p \in Seq(Plain) /\ room \in Nat /\ room = Len(p)
            /\ full \in [1..room -> Range(f) \cup Range(p) \cup {Garbage}]
            /\ f = << >> => \A i \in 1..room : full[i] \in {p[i], Garbage}
            /\ delivered' = Append(delivered, full)
            /\ ~(Len(f) + Len(p) > room)
        BY <1>2, <1>4, <4>0, <4>2 DEF f, p, long
      <4> HIDE DEF room
      <4>5. f = << >>
        <5>1. Len(f) = 0
          BY <4>3
        <5> QED BY <4>3, <5>1
      <4> QED BY <4>3, <4>4, <4>5 DEF f, p
    <3> QED BY <3>1, <3>2
  <2>2. g = Pack
    <3> DEFINE p == Pack
    <3>1. p \in Seq(Plain) /\ g = << >> \o p
      BY <1>2, <2>1
    <3> HIDE DEF p
    <3>2. << >> \o p = p
      BY <3>1
    <3> QED BY <3>1, <3>2 DEF p
  <2> HIDE DEF g
  <2>3. Len(m) <= Len(g) /\ \A i \in 1..Len(m) : m[i] \in {g[i], Garbage}
    BY <2>1, <2>2
  <2>5. OrderInv'
    BY <1>1, <1>2, <1>3, <2>1, <2>3, HeldType, Deliver_Order
  <2>6. delivered' \in Seq(Seq(Plain))
    BY <2>1 DEF OrderTypes
  <2> QED BY <1>1, <1>3, <1>4, <2>5, <2>6 DEF OrderTypes
<1> QED BY <1>5, <1>6

\* The message that overruns its array is the last.
LEMMA EndOfMessage_Spoils ==
  ASSUME IInv, OrderTypes, TotalReset, EndOfMessage, ~overrun, overrun'
  PROVE  OrderTypes' /\ \E m \in Seq(Plain) : delivered' = Append(delivered, m)
<1>1. /\ In("WS_READING_PAYLOAD") /\ ws_payload' = << >> /\ ws_totalPayload = 0
  BY DEF EndOfMessage, EndOfFrame, In, TotalReset
<1> DEFINE freed == FlattenSeq(ws_payload)
           room == ws_totalPayload + NextIndex
<1>2. Pack \in Seq(Plain) /\ Len(Pack) = NextIndex /\ freed \in Seq(Plain)
  BY <1>1, PackHeld DEF OrderTypes
<1>3. room \in Nat
  BY <1>1, <1>2
<1>4. FromFragments
  BY DEF EndOfMessage
<1>5. PICK full \in [1..room -> Range(freed) \cup Range(Pack) \cup {Garbage}] :
        delivered' = Append(delivered, full)
  BY <1>4, Zenon DEF FromFragments
<1>6. full \in Seq(Plain)
  BY <1>2, <1>3, <1>5, CopiedBytes
<1>7. delivered' \in Seq(Seq(Plain))
  BY <1>5, <1>6 DEF OrderTypes
<1>8. FlattenSeq(ws_payload') = << >> /\ << >> \in Seq(Plain) /\ << >> \in Seq(Seq(Plain))
  BY <1>1 DEF FlattenSeq
<1> QED BY <1>1, <1>5, <1>6, <1>7, <1>8 DEF OrderTypes

\* The reader resets the sum of the sizes with each frame.
LEMMA Total_Step == IInv /\ TotalReset /\ [Next]_vars => TotalReset'
<1> SUFFICES ASSUME IInv, TotalReset, [Next]_vars PROVE TotalReset'
  OBVIOUS
<1> USE DEF TotalReset, reader, payload
<1>1. CASE Peer_Send \/ Peer_Close \/ Receive \/ Task_Start \/ Task_End \/ finalizeClient \/ Return
  BY <1>1 DEF Peer_Send, Peer_Close, Receive, Task_Start, Task_End, finalizeClient, Return
<1>2. CASE ReadPackInfo1 \/ ReadPackInfo2 \/ FailedState
  BY <1>2 DEF ReadPackInfo1, ReadPackInfo2, FailedState, In, Become
<1>3. CASE ReadField
  <2>1. webSocketState = "WS_READING_MASK_KEY"
    BY <1>3 DEF ReadField, FieldLength, IInv, ReaderInv, ReachableStates
  <2>2. ws_totalPayload = 0 /\ ws_totalPayload' = ws_totalPayload
    BY <1>3, <2>1 DEF ReadField
  <2> QED BY <2>2
<1>4. CASE ReadPayload
  BY <1>4 DEF ReadPayload
<1>5. CASE EndOfFragment \/ EndOfMessage
  BY <1>5 DEF EndOfFragment, EndOfMessage, EndOfFrame, Become
<1>6. CASE UNCHANGED vars
  BY <1>6 DEF vars
<1> QED BY <1>1, <1>2, <1>3, <1>4, <1>5, <1>6 DEF Next, WebSocketProcess

\* The messages but the last are in order.
FrontOrdered ==
  \A n \in 1..Len(delivered) : n < Len(delivered) =>
    /\ Rising(delivered[n])
    /\ \A m \in 1..Len(delivered) : m < n => Below(delivered[m], delivered[n])

\* The order of the bytes is kept by every step from a state of this kind.
OInv == IInv /\ OrderTypes /\ TotalReset /\ (IF overrun THEN FrontOrdered ELSE OrderInv)

\* At first there are no bytes.
LEMMA InitOInv == Init => OInv
<1> SUFFICES ASSUME Init PROVE OInv
  OBVIOUS
<1>1. FlattenSeq(<< >>) = << >>
  BY DEF FlattenSeq
<1>2. /\ Held = << >> /\ Coming = << >> /\ delivered = << >> /\ ws_payload = << >>
      /\ overrun = FALSE
  BY <1>1 DEF Init, Held, Coming, Plains
<1>3. OrderInv
  BY <1>2 DEF OrderInv, Rising, Below, Bounded
<1>4. OrderTypes /\ TotalReset
  BY <1>1, <1>2 DEF Init, OrderTypes, TotalReset
<1> QED BY <1>2, <1>3, <1>4, InitIInv DEF OInv

\* The array is overrun at the end of a message, and nothing is said of what follows.
LEMMA OverrunSteps ==
  ASSUME IInv, [Next]_vars
  PROVE  /\ overrun => UNCHANGED vars
         /\ EndOfMessage \/ overrun' = overrun
<1>1. overrun => UNCHANGED vars
  BY DEF Next, Lost
<1> SUFFICES EndOfMessage \/ overrun' = overrun
  BY <1>1
<1>2. CASE Peer_Send \/ Peer_Close \/ Receive \/ Task_Start \/ Task_End \/ finalizeClient \/ Return \/ UNCHANGED vars
  BY <1>2 DEF Peer_Send, Peer_Close, Receive, Task_Start, Task_End, finalizeClient, Return, vars, app
<1>3. CASE ReadPackInfo1 \/ ReadPackInfo2 \/ ReadField \/ ReadPayload \/ EndOfFragment \/ FailedState
  BY <1>3 DEF ReadPackInfo1, ReadPackInfo2, ReadField, ReadPayload, EndOfFragment, FailedState, app
<1> QED BY <1>1, <1>2, <1>3 DEF Next, WebSocketProcess

\* Every step keeps the order.
LEMMA NextOInv == OInv /\ [Next]_vars => OInv'
<1> SUFFICES ASSUME OInv, [Next]_vars PROVE OInv'
  OBVIOUS
<1>1. IInv /\ OrderTypes /\ TotalReset
  BY DEF OInv
<1>2. /\ IInv' /\ TotalReset'
      /\ overrun => UNCHANGED vars
      /\ EndOfMessage \/ overrun' = overrun
      /\ overrun \in BOOLEAN /\ overrun' \in BOOLEAN
  BY <1>1, NextIInv, Total_Step, OverrunSteps DEF IInv, FlagsInv
<1>3. CASE overrun
  <2>1. delivered' = delivered /\ overrun' = overrun /\ ws_payload' = ws_payload
    BY <1>2, <1>3 DEF vars, app, payload
  <2> QED BY <1>1, <1>2, <1>3, <2>1 DEF OInv, OrderTypes, FrontOrdered, Rising, Below
<1>4. CASE ~overrun /\ ~EndOfMessage
  <2>1. OrderInv /\ overrun' = overrun /\ ~overrun
    BY <1>2, <1>4 DEF OInv
  <2> SUFFICES OrderInv' /\ OrderTypes'
    BY <1>2, <2>1 DEF OInv
  <2>2. CASE Peer_Send
    <3>1. OrderTypes'
      BY <1>1, <2>2 DEF Peer_Send, OrderTypes, reader, payload, app
    <3> QED BY <1>1, <2>1, <2>2, <3>1, Peer_Send_Order
  <2>3. CASE Peer_Close \/ Receive \/ Task_Start \/ Task_End \/ finalizeClient \/ Return \/ UNCHANGED vars
    <3>1. OrderTypes'
      BY <1>1, <2>3 DEF Peer_Close, Receive, Task_Start, Task_End, finalizeClient, Return, vars, OrderTypes, reader, payload, app
    <3> QED BY <1>1, <2>1, <2>3, <3>1, Around_Order
  <2>4. CASE ReadPackInfo1 \/ ReadPackInfo2 \/ ReadField \/ FailedState
    BY <1>1, <2>1, <2>4, Header_Order
  <2>5. CASE ReadPayload
    BY <1>1, <2>1, <2>5, ReadPayload_Order
  <2>6. CASE EndOfFragment
    BY <1>1, <2>1, <2>6, EndOfFragment_Order
  <2> QED BY <1>4, <2>2, <2>3, <2>4, <2>5, <2>6 DEF Next, WebSocketProcess
<1>5. CASE ~overrun /\ EndOfMessage /\ ~overrun'
  BY <1>1, <1>2, <1>5, EndOfMessage_Order DEF OInv
<1>6. CASE ~overrun /\ EndOfMessage /\ overrun'
  <2>1. PICK m \in Seq(Plain) : delivered' = Append(delivered, m)
    BY <1>1, <1>6, EndOfMessage_Spoils
  <2>2. OrderTypes' /\ OrderInv
    BY <1>1, <1>6, EndOfMessage_Spoils DEF OInv
  <2>3. /\ Len(delivered') = Len(delivered) + 1 /\ Len(delivered) \in Nat
        /\ \A n \in 1..Len(delivered) : delivered'[n] = delivered[n]
    BY <1>1, <2>1 DEF OrderTypes
  <2>4. ASSUME NEW n \in 1..Len(delivered'), n < Len(delivered')
        PROVE  /\ Rising(delivered'[n])
               /\ \A m_1 \in 1..Len(delivered') : m_1 < n => Below(delivered'[m_1], delivered'[n])
    <3>1. n \in 1..Len(delivered) /\ \A k \in 1..Len(delivered') : k < n => k \in 1..Len(delivered)
      BY <2>3, <2>4
    <3> QED BY <2>2, <2>3, <3>1 DEF OrderInv
  <2>5. FrontOrdered'
    BY <2>4 DEF FrontOrdered, Rising, Below
  <2> QED BY <1>2, <1>6, <2>2, <2>5 DEF OInv
<1> QED BY <1>3, <1>4, <1>5, <1>6

\* Until a message has fragments with bytes in them, bytes of payload reach the application at
\* most once and in the order in which the peer sent them, whatever frames and pieces they come
\* in, the unread rest of a frame of 126 bytes or more among them (WebSocketProcess, the copy
\* into fullPayload).
THEOREM BytesArriveInOrder == Spec => []BytesInOrder
<1>1. OInv => BytesInOrder
  <2> SUFFICES ASSUME OInv, NEW m \in Unspoiled, NEW n \in Unspoiled,
                      NEW i \in DOMAIN delivered[m], NEW j \in DOMAIN delivered[n],
                      m < n \/ (m = n /\ i < j),
                      delivered[m][i] # Garbage, delivered[n][j] # Garbage
               PROVE  Before(delivered[m][i], delivered[n][j])
    BY DEF BytesInOrder
  <2>1. /\ m \in 1..Len(delivered) /\ n \in 1..Len(delivered)
        /\ overrun => m < Len(delivered) /\ n < Len(delivered)
        /\ delivered[m] \in Seq(Plain) /\ delivered[n] \in Seq(Plain)
    BY DEF OInv, OrderTypes, Unspoiled
  <2>2. i \in 1..Len(delivered[m]) /\ j \in 1..Len(delivered[n])
    BY <2>1
  <2>3. Rising(delivered[n]) /\ (m < n => Below(delivered[m], delivered[n]))
    BY <2>1 DEF OInv, OrderInv, FrontOrdered
  <2> QED BY <2>1, <2>2, <2>3 DEF Below, Rising
<1> QED BY <1>1, InitOInv, NextOInv, PTL DEF Spec

-----------------------------------------------------------------------------
(* To a peer that sends every message in one masked frame of 1 to 125 bytes *)
(* the reader is a stream of messages.                                      *)

\* All the peer can send are such frames.
WholeFrames == \A f \in Frames : IsWhole(f)

\* A place is a frame, of those that make the messages s, and a byte of it.
Place == Nat \X Nat
FrameLength(s, k) == 6 + Len(s[k])
NextPlace(s, p) == IF p[2] < FrameLength(s, p[1]) THEN <<p[1], p[2] + 1>> ELSE <<p[1] + 1, 1>>

\* Byte b is the one of that place.
IsAt(s, p, b) ==
  /\ p[1] \in 1..Len(s) /\ p[2] \in 1..FrameLength(s, p[1])
  /\ p[2] \in {1, 2} => b.hi
  /\ p[2] = 2 => b.lo = Len(s[p[1]])
  /\ p[2] \in 3..6 => b.key = <<p[1], p[2] - 3>>
  /\ p[2] > 6 => b.plain = s[p[1]][p[2] - 6] /\ b.key = <<p[1], (p[2] - 7) % 4>>

\* The bytes b are those of frame k.
FrameOf(s, k, b) == Len(b) = FrameLength(s, k) /\ \A j \in 1..Len(b) : IsAt(s, <<k, j>>, b[j])

\* The bytes u are those from place p to the end of the last message, with their places at.
PlacesOf(s, u, p, at) ==
  /\ at[1] = p /\ at[Len(u) + 1] = <<Len(s) + 1, 1>>
  /\ \A i \in 1..Len(u) : IsAt(s, at[i], u[i]) /\ at[i + 1] = NextPlace(s, at[i])
Unread(s, u, p) == \E at \in [1..(Len(u) + 1) -> Place] : PlacesOf(s, u, p, at)

\* The first byte is the one of the place, and the next place is the one of the next.
LEMMA UnreadPop ==
  ASSUME NEW s \in Seq(Seq(Content)), NEW u \in Seq(Byte), NEW p \in Place, u # <<>>, Unread(s, u, p)
  PROVE  IsAt(s, p, Head(u)) /\ Unread(s, Tail(u), NextPlace(s, p))
<1>1. PICK at \in [1..(Len(u) + 1) -> Place] : PlacesOf(s, u, p, at)
  BY DEF Unread
<1> DEFINE t == Tail(u)
           r == [i \in 1..(Len(t) + 1) |-> at[i + 1]]
<1>2. /\ t \in Seq(Byte) /\ Len(u) = Len(t) + 1 /\ Len(t) \in Nat
      /\ u[1] = Head(u) /\ \A i \in 1..Len(t) : t[i] = u[i + 1]
  OBVIOUS
<1> HIDE DEF t
<1>3. \A i \in 1..(Len(t) + 1) : i + 1 \in 1..(Len(u) + 1)
  BY <1>2
<1>4. r \in [1..(Len(t) + 1) -> Place] /\ \A i \in 1..(Len(t) + 1) : r[i] = at[i + 1]
  BY <1>3
<1> HIDE DEF r
<1>5. 1 \in 1..Len(u) /\ 1 \in 1..(Len(t) + 1) /\ Len(t) + 1 \in 1..(Len(t) + 1)
  BY <1>2
<1>6. IsAt(s, p, Head(u)) /\ r[1] = NextPlace(s, p)
  <2>1. IsAt(s, at[1], u[1]) /\ at[1 + 1] = NextPlace(s, at[1]) /\ at[1] = p
    BY <1>1, <1>5 DEF PlacesOf
  <2> QED BY <1>2, <1>4, <1>5, <2>1
<1>7. r[Len(t) + 1] = <<Len(s) + 1, 1>>
  BY <1>1, <1>2, <1>4, <1>5 DEF PlacesOf
<1>8. ASSUME NEW i \in 1..Len(t)
      PROVE  IsAt(s, r[i], t[i]) /\ r[i + 1] = NextPlace(s, r[i])
  <2>1. i + 1 \in 1..Len(u) /\ i \in 1..(Len(t) + 1) /\ i + 1 \in 1..(Len(t) + 1)
    BY <1>2
  <2>2. r[i] = at[i + 1] /\ t[i] = u[i + 1] /\ r[i + 1] = at[i + 1 + 1]
    BY <1>2, <1>4, <2>1
  <2> QED BY <1>1, <2>1, <2>2 DEF PlacesOf
<1>9. PlacesOf(s, t, NextPlace(s, p), r)
  BY <1>6, <1>7, <1>8 DEF PlacesOf
<1> QED BY <1>4, <1>6, <1>9 DEF Unread, t

\* Where the reader stands within a frame, that frame was sent.
LEMMA UnreadWithin ==
  ASSUME NEW s \in Seq(Seq(Content)), NEW u \in Seq(Byte), NEW p \in Place, p[2] # 1, Unread(s, u, p)
  PROVE  p[1] \in 1..Len(s)
<1>1. PICK at \in [1..(Len(u) + 1) -> Place] : PlacesOf(s, u, p, at)
  BY DEF Unread
<1>2. Len(u) \in Nat /\ at[1] = p
  BY <1>1 DEF PlacesOf
<1>3. Len(u) # 0
  BY <1>1, <1>2 DEF PlacesOf
<1>4. 1 \in 1..Len(u)
  BY <1>2, <1>3
<1> QED BY <1>1, <1>2, <1>4 DEF PlacesOf, IsAt

\* The bytes of one message more come behind.
LEMMA UnreadMore ==
  ASSUME NEW s \in Seq(Seq(Content)), NEW u \in Seq(Byte), NEW p \in Place, Unread(s, u, p),
         NEW m \in Seq(Content), NEW t \in Seq(Seq(Content)), t = Append(s, m),
         NEW b \in Seq(Byte), FrameOf(t, Len(t), b)
  PROVE  Unread(t, u \o b, p)
<1>1. PICK at \in [1..(Len(u) + 1) -> Place] : PlacesOf(s, u, p, at)
  BY DEF Unread
<1> DEFINE n == Len(s) + 1
           v == u \o b
           r == [i \in 1..(Len(v) + 1) |->
                   IF i <= Len(u) THEN at[i] ELSE IF i <= Len(v) THEN <<n, i - Len(u)>> ELSE <<n + 1, 1>>]
<1>2. /\ Len(s) \in Nat /\ Len(u) \in Nat /\ Len(m) \in Nat /\ Len(b) \in Nat /\ n \in Nat
      /\ v \in Seq(Byte) /\ Len(v) = Len(u) + Len(b) /\ Len(v) \in Nat
      /\ Len(t) = n /\ t[n] = m
      /\ Len(b) > 1
  <2>1. Len(s) \in Nat /\ Len(u) \in Nat /\ Len(m) \in Nat /\ Len(b) \in Nat /\ n \in Nat
    OBVIOUS
  <2>2. v \in Seq(Byte) /\ Len(v) = Len(u) + Len(b)
    BY ConcatProperties
  <2>3. Len(t) = n /\ t[n] = m
    OBVIOUS
  <2>4. Len(b) = 6 + Len(m)
    BY <2>3 DEF FrameOf, FrameLength
  <2> HIDE DEF v, n
  <2> QED BY <2>1, <2>2, <2>3, <2>4
<1>3. \A i \in 1..Len(s) : t[i] = s[i]
  OBVIOUS
<1>4. \A i \in 1..Len(v) : v[i] = IF i <= Len(u) THEN u[i] ELSE b[i - Len(u)]
  OBVIOUS
<1> HIDE DEF v, n
<1>5. /\ r \in [1..(Len(v) + 1) -> Place]
      /\ \A i \in 1..(Len(v) + 1) : r[i] = IF i <= Len(u) THEN at[i] ELSE IF i <= Len(v) THEN <<n, i - Len(u)>> ELSE <<n + 1, 1>>
  <2>1. ASSUME NEW i \in 1..(Len(v) + 1)
        PROVE  (IF i <= Len(u) THEN at[i] ELSE IF i <= Len(v) THEN <<n, i - Len(u)>> ELSE <<n + 1, 1>>) \in Place
    <3>1. CASE i <= Len(u)
      <4>1. i \in 1..(Len(u) + 1)
        BY <1>2, <3>1
      <4> QED BY <3>1, <4>1
    <3>2. CASE i > Len(u)
      <4>1. i - Len(u) \in Nat /\ n + 1 \in Nat /\ ~(i <= Len(u))
        BY <1>2, <3>2
      <4> QED BY <1>2, <4>1 DEF Place
    <3> QED BY <1>2, <3>1, <3>2
  <2> QED BY <2>1
<1> HIDE DEF r
\* Where the old bytes end, the new ones begin.
<1>6. ASSUME NEW i \in 1..(Len(u) + 1) PROVE r[i] = at[i]
  <2>1. CASE i <= Len(u)
    BY <1>2, <1>5, <2>1
  <2>2. CASE i = Len(u) + 1
    <3>1. i \in 1..(Len(v) + 1) /\ ~(i <= Len(u)) /\ i <= Len(v) /\ i - Len(u) = 1
      BY <1>2, <2>2
    <3>2. r[i] = <<n, 1>>
      BY <1>5, <3>1
    <3>3. at[Len(u) + 1] = <<Len(s) + 1, 1>>
      BY <1>1 DEF PlacesOf
    <3>4. at[i] = <<Len(s) + 1, 1>>
      BY <2>2, <3>3
    <3> QED BY <3>2, <3>4 DEF n
  <2>3. i <= Len(u) \/ i = Len(u) + 1
    BY <1>2
  <2> QED BY <2>1, <2>2, <2>3
<1>7. r[1] = p
  <2>1. 1 \in 1..(Len(u) + 1)
    BY <1>2
  <2> QED BY <1>1, <1>6, <2>1 DEF PlacesOf
<1>8. r[Len(v) + 1] = <<Len(t) + 1, 1>>
  <2>1. Len(v) + 1 \in 1..(Len(v) + 1) /\ ~(Len(v) + 1 <= Len(u)) /\ ~(Len(v) + 1 <= Len(v))
    BY <1>2
  <2> QED BY <1>2, <1>5, <2>1
<1>9. ASSUME NEW i \in 1..Len(v)
      PROVE  IsAt(t, r[i], v[i]) /\ r[i + 1] = NextPlace(t, r[i])
  <2>1. CASE i \in 1..Len(u)
    <3>1. i \in 1..(Len(u) + 1) /\ i + 1 \in 1..(Len(u) + 1) /\ i <= Len(u)
      BY <1>2, <2>1
    <3>2. /\ r[i] = at[i] /\ r[i + 1] = at[i + 1] /\ v[i] = u[i]
          /\ IsAt(s, at[i], u[i]) /\ at[i + 1] = NextPlace(s, at[i])
      BY <1>1, <1>4, <1>6, <2>1, <3>1 DEF PlacesOf
    <3>3. at[i][1] \in 1..Len(s) /\ t[at[i][1]] = s[at[i][1]] /\ at[i][1] \in 1..Len(t)
      BY <1>2, <1>3, <3>2 DEF IsAt, n
    <3>4. IsAt(t, at[i], u[i])
      BY <3>2, <3>3 DEF IsAt, FrameLength
    <3>5. NextPlace(t, at[i]) = NextPlace(s, at[i])
      BY <3>3 DEF NextPlace, FrameLength
    <3> QED BY <3>2, <3>4, <3>5
  <2>2. CASE i > Len(u)
    <3> DEFINE j == i - Len(u)
    <3>1. /\ j \in 1..Len(b) /\ ~(i <= Len(u)) /\ i <= Len(v) /\ i \in 1..(Len(v) + 1) /\ i + 1 \in 1..(Len(v) + 1)
          /\ ~(i + 1 <= Len(u)) /\ i + 1 - Len(u) = j + 1 /\ (i + 1 <= Len(v) <=> j < Len(b))
      BY <1>2, <2>2
    <3>2. r[i] = <<n, j>> /\ v[i] = b[j]
      BY <1>4, <1>5, <3>1
    <3>3. IsAt(t, r[i], v[i])
      BY <1>2, <3>1, <3>2 DEF FrameOf
    <3>4. r[i + 1] = IF j < Len(b) THEN <<n, j + 1>> ELSE <<n + 1, 1>>
      <4> DEFINE k == i + 1
      <4>1. /\ k \in 1..(Len(v) + 1) /\ ~(k <= Len(u)) /\ k - Len(u) = j + 1
            /\ (k <= Len(v) <=> j < Len(b))
        BY <3>1
      <4> HIDE DEF k, j
      <4> QED BY <1>5, <4>1 DEF k
    <3>5. FrameLength(t, n) = Len(b)
      BY <1>2 DEF FrameOf
    <3>6. NextPlace(t, <<n, j>>) = IF j < Len(b) THEN <<n, j + 1>> ELSE <<n + 1, 1>>
      BY <3>5 DEF NextPlace
    <3> QED BY <3>2, <3>3, <3>4, <3>6
  <2> QED BY <1>2, <2>1, <2>2
<1>10. PlacesOf(t, v, p, r)
  BY <1>7, <1>8, <1>9 DEF PlacesOf
<1> QED BY <1>5, <1>10 DEF Unread, v

\* What the peer sends: every frame is a message.
WholeSent ==
  /\ frag = <<>> /\ count = Len(sent)
  /\ \A k \in 1..Len(sent) : Len(sent[k]) \in 1..125

\* The application was given the first messages.
DeliveredSent ==
  /\ delivered \in Seq(Seq(Content)) /\ Len(delivered) <= Len(sent)
  /\ \A k \in 1..Len(delivered) : delivered[k] = sent[k]

NoFragments == ws_payload = <<>> /\ ws_totalPayload = 0

\* The frame that is read, and the place of its next byte.
Frame == Len(delivered) + 1
ByteOfFrame ==
  IF webSocketState = "WS_READING_PACK_INFO_1" THEN 1
  ELSE IF webSocketState = "WS_READING_PACK_INFO_2" THEN 2
  ELSE IF webSocketState = "WS_READING_MASK_KEY" THEN 3 + ws_tempIndex
  ELSE 7 + ws_tempIndex

\* The reader is at the next byte of the next message, and has of it what came before.
InStep ==
  webSocketState # "WS_FINISHED" =>
    /\ webSocketState \in
         {"WS_READING_PACK_INFO_1", "WS_READING_PACK_INFO_2", "WS_READING_MASK_KEY", "WS_READING_PAYLOAD"}
    /\ Unread(sent, incomingDataBuffer \o wire, <<Frame, ByteOfFrame>>)
    /\ webSocketState # "WS_READING_PACK_INFO_1" => ws_fin
    /\ webSocketState \in {"WS_READING_MASK_KEY", "WS_READING_PAYLOAD"} => ws_packSize = Len(sent[Frame])
    /\ webSocketState = "WS_READING_MASK_KEY" =>
         \A i \in 0..3 : i < ws_tempIndex => ws_mask[i] = <<Frame, i>>
    /\ webSocketState = "WS_READING_PAYLOAD" =>
         /\ ws_tempIndex < ws_packSize
         /\ \A i \in 0..3 : ws_mask[i] = <<Frame, i>>
         /\ \A i \in 1..ws_tempIndex : ws_packPayload[i] = sent[Frame][i]

StreamInv == WholeSent /\ DeliveredSent /\ NoFragments /\ InStep

LEMMA StreamInit == Init => StreamInv
<1> SUFFICES ASSUME Init
             PROVE  StreamInv
  OBVIOUS
<1>1. /\ sent = <<>> /\ delivered = <<>> /\ incomingDataBuffer = <<>> /\ wire = <<>>
      /\ webSocketState = "WS_READING_PACK_INFO_1"
  BY DEF Init
<1>2. WholeSent /\ DeliveredSent /\ NoFragments
  BY DEF Init, WholeSent, DeliveredSent, NoFragments
<1>3. Unread(<<>>, <<>>, <<1, 1>>)
  <2> DEFINE at == [i \in 1..1 |-> <<1, 1>>]
  <2>1. Len(<<>>) = 0 /\ 1..(Len(<<>>) + 1) = 1..1 /\ 1..Len(<<>>) = {}
    OBVIOUS
  <2>2. at \in [1..(Len(<<>>) + 1) -> Place]
    BY <2>1 DEF Place
  <2>3. at[1] = <<1, 1>> /\ at[Len(<<>>) + 1] = <<Len(<<>>) + 1, 1>>
    BY <2>1
  <2> HIDE DEF at
  <2>4. PlacesOf(<<>>, <<>>, <<1, 1>>, at)
    BY <2>1, <2>3 DEF PlacesOf
  <2> QED BY <2>2, <2>4 DEF Unread
<1>4. incomingDataBuffer \o wire = <<>> /\ Frame = 1 /\ ByteOfFrame = 1
  BY <1>1 DEF Frame, ByteOfFrame
<1>5. InStep
  BY <1>1, <1>3, <1>4 DEF InStep
<1> QED BY <1>2, <1>5 DEF StreamInv

\* The place of the reader is one.
LEMMA FramePlace ==
  ASSUME IInv, StreamInv
  PROVE  /\ Frame \in Nat /\ ByteOfFrame \in Nat /\ <<Frame, ByteOfFrame>> \in Place
         /\ sent \in Seq(Seq(Content)) /\ incomingDataBuffer \in Seq(Byte) /\ wire \in Seq(Byte)
         /\ ws_tempIndex \in Nat
         /\ webSocketState = "WS_READING_PACK_INFO_1" \/ ByteOfFrame > 1
<1>1. delivered \in Seq(Seq(Content)) /\ ws_tempIndex \in Nat
  BY DEF StreamInv, DeliveredSent, IInv, ReaderInv
<1>2. Frame \in Nat /\ ByteOfFrame \in Nat /\ (webSocketState = "WS_READING_PACK_INFO_1" \/ ByteOfFrame > 1)
  BY <1>1 DEF Frame, ByteOfFrame
<1> QED BY <1>1, <1>2 DEF Place, IInv, PeerInv

\* Where the parts of a frame begin and end.
LEMMA PlacesOfParts ==
  /\ \A j \in 1..2 : j \in 1..6 /\ j \in {1, 2} /\ ~(j \in 3..6) /\ ~(j > 6)
  /\ \A j \in 3..6 : j \in 1..6 /\ j - 2 \in 1..4 /\ j - 2 - 1 = j - 3 /\ ~(j \in {1, 2}) /\ j # 2 /\ ~(j > 6)
  /\ \A j \in Nat \ 0..6 : j > 6 /\ j - 6 - 1 = j - 7 /\ ~(j \in {1, 2}) /\ j # 2 /\ ~(j \in 3..6)
  /\ \A i \in 0..3 : i % 4 = i
<1>1. \A j \in 1..2 : j \in 1..6 /\ j \in {1, 2} /\ ~(j \in 3..6) /\ ~(j > 6)
  OBVIOUS
<1>2. \A j \in 3..6 : j \in 1..6 /\ j - 2 \in 1..4 /\ j - 2 - 1 = j - 3 /\ ~(j \in {1, 2}) /\ j # 2 /\ ~(j > 6)
  OBVIOUS
<1>3. \A j \in Nat \ 0..6 : j > 6 /\ j - 6 - 1 = j - 7 /\ ~(j \in {1, 2}) /\ j # 2 /\ ~(j \in 3..6)
  OBVIOUS
<1>4. \A i \in 0..3 : i % 4 = i
  OBVIOUS
<1> QED BY <1>1, <1>2, <1>3, <1>4

\* What a whole frame has.
LEMMA WholeFrameSizes ==
  ASSUME NEW f \in Frames, IsWhole(f)
  PROVE  f.fin /\ f.masked /\ f.size \in 1..125 /\ PayloadBytes(f) = f.size /\ SizeBytes(f) = 0
<1>1. f.fin /\ f.masked /\ f.size \in 1..125
  BY DEF IsWhole
<1>2. f.size < 126 /\ f.size # 126 /\ f.size # 127
  BY <1>1
<1> QED BY <1>1, <1>2 DEF PayloadBytes, SizeBytes

\* The bytes of a whole frame, whose number is n and whose payload is data.
WholeShape(e, n, data) ==
  /\ Len(e) = 6 + Len(data)
  /\ e[1].hi /\ e[2].hi /\ e[2].lo = Len(data)
  /\ \A i \in 1..4 : e[i + 2].key = <<n, (i - 1) % 4>>
  /\ \A i \in 1..Len(data) : e[i + 6].plain = data[i] /\ e[i + 6].key = <<n, (i - 1) % 4>>

LEMMA WholeFrameParts ==
  ASSUME NEW f \in Frames, IsWhole(f), NEW n \in Nat, NEW b \in Fillers, NEW data \in Seq(Content), Len(data) = PayloadBytes(f)
  PROVE  Bytes(f, n, data, b) \in Seq(Byte) /\ WholeShape(Bytes(f, n, data, b), n, data) /\ Len(data) \in 1..125
<1>1. /\ f.fin /\ f.masked /\ f.size \in 1..125 /\ PayloadBytes(f) = f.size /\ SizeBytes(f) = 0
  BY WholeFrameSizes
<1>2. data \in [1..PayloadBytes(f) -> Content]
  OBVIOUS
<1>3. PICK header, ext, mask, body \in Seq(Byte) :
        /\ Bytes(f, n, data, b) = header \o ext \o mask \o body
        /\ FrameShape(f, n, data, header, ext, mask, body)
  BY <1>2, FrameParts
<1>4. ext = <<>>
  BY <1>1, <1>3 DEF FrameShape
<1>5. header \o ext = header
  BY <1>4
<1> DEFINE a == header \o mask
           e == a \o body
<1>6. /\ Len(header) = 2 /\ Len(mask) = 4 /\ Len(body) = Len(data)
      /\ header[1].hi /\ header[2].hi /\ header[2].lo = Len(data)
      /\ \A i \in 1..4 : mask[i].key = <<n, (i - 1) % 4>>
      /\ \A i \in 1..Len(data) : body[i].plain = data[i] /\ body[i].key = <<n, (i - 1) % 4>>
  BY <1>1, <1>3 DEF FrameShape
<1>7. /\ a \in Seq(Byte) /\ Len(a) = 6
      /\ a[1] = header[1] /\ a[2] = header[2]
      /\ \A i \in 1..4 : a[i + 2] = mask[i]
  <2>1. /\ a \in Seq(Byte) /\ Len(a) = Len(header) + Len(mask)
        /\ \A i \in 1..(Len(header) + Len(mask)) : a[i] = IF i <= Len(header) THEN header[i] ELSE mask[i - Len(header)]
    BY ConcatProperties
  <2> HIDE DEF a
  <2>2. \A i \in 1..4 : i + 2 \in 1..(2 + 4) /\ ~(i + 2 <= 2) /\ i + 2 - 2 = i
    OBVIOUS
  <2>3. 1 \in 1..(2 + 4) /\ 1 <= 2 /\ 2 \in 1..(2 + 4) /\ 2 <= 2
    OBVIOUS
  <2> QED BY <1>6, <2>1, <2>2, <2>3
<1>8. /\ e \in Seq(Byte) /\ Len(e) = 6 + Len(data)
      /\ \A i \in 1..6 : e[i] = a[i]
      /\ \A i \in 1..Len(data) : e[i + 6] = body[i]
  <2> HIDE DEF a
  <2>1. /\ e \in Seq(Byte) /\ Len(e) = Len(a) + Len(body)
        /\ \A i \in 1..(Len(a) + Len(body)) : e[i] = IF i <= Len(a) THEN a[i] ELSE body[i - Len(a)]
    BY <1>7, ConcatProperties
  <2> HIDE DEF e
  <2>2. \A i \in 1..6 : i \in 1..(6 + Len(data)) /\ i <= 6
    OBVIOUS
  <2>3. \A i \in 1..Len(data) : i + 6 \in 1..(6 + Len(data)) /\ ~(i + 6 <= 6) /\ i + 6 - 6 = i
    OBVIOUS
  <2> QED BY <1>6, <1>7, <2>1, <2>2, <2>3
<1>9. Bytes(f, n, data, b) = e
  BY <1>3, <1>5
<1> HIDE DEF a, e
<1>10. WholeShape(e, n, data)
  <2>1. e[1] = header[1] /\ e[2] = header[2]
    BY <1>7, <1>8
  <2>2. \A i \in 1..4 : i + 2 \in 1..6
    OBVIOUS
  <2>3. \A i \in 1..4 : e[i + 2] = mask[i]
    BY <1>7, <1>8, <2>2
  <2> QED BY <1>6, <1>8, <2>1, <2>3 DEF WholeShape
<1> QED BY <1>1, <1>8, <1>9, <1>10

\* Every byte of a whole frame is at its place.
LEMMA WholeFrame ==
  ASSUME NEW e, NEW n \in Nat, NEW data, Len(data) \in Nat, WholeShape(e, n, data),
         NEW t, n \in 1..Len(t), t[n] = data
  PROVE  FrameOf(t, n, e)
<1>1. FrameLength(t, n) = Len(e) /\ Len(e) = 6 + Len(data)
  BY DEF FrameLength, WholeShape
<1>2. ASSUME NEW j \in 1..Len(e)
      PROVE  IsAt(t, <<n, j>>, e[j])
  <2>1. CASE j \in 1..2
    <3>1. j \in {1, 2} /\ ~(j \in 3..6) /\ ~(j > 6)
      BY <2>1, PlacesOfParts
    <3>2. e[j].hi /\ (j = 2 => e[j].lo = Len(t[n]))
      BY <3>1 DEF WholeShape
    <3> QED BY <1>1, <3>1, <3>2 DEF IsAt
  <2>2. CASE j \in 3..6
    <3> DEFINE i == j - 2
    <3>1. i \in 1..4 /\ i - 1 = j - 3 /\ i + 2 = j /\ j - 3 \in 0..3
      BY <2>2
    <3>2. ~(j \in {1, 2}) /\ j # 2 /\ ~(j > 6)
      BY <2>2, PlacesOfParts
    <3> HIDE DEF i
    <3>3. e[j].key = <<n, (i - 1) % 4>>
      BY <3>1 DEF WholeShape
    <3>4. e[j].key = <<n, j - 3>>
      BY <3>1, <3>3, PlacesOfParts
    <3> QED BY <1>1, <3>2, <3>4 DEF IsAt
  <2>3. CASE j \in 7..Len(e)
    <3> DEFINE i == j - 6
    <3>1. i \in 1..Len(data) /\ i - 1 = j - 7 /\ i + 6 = j /\ j \in Nat \ 0..6
      BY <1>1, <2>3
    <3>2. j > 6 /\ ~(j \in {1, 2}) /\ j # 2 /\ ~(j \in 3..6)
      BY <3>1, PlacesOfParts
    <3>4. e[j].plain = t[n][i] /\ e[j].key = <<n, (j - 7) % 4>>
      <4> HIDE DEF i
      <4>1. e[i + 6].plain = t[n][i] /\ e[i + 6].key = <<n, (i - 1) % 4>>
        BY <3>1 DEF WholeShape
      <4> QED BY <3>1, <4>1
    <3> QED BY <1>1, <3>2, <3>4 DEF IsAt
  <2> QED BY <1>1, <2>1, <2>2, <2>3
<1> QED BY <1>1, <1>2 DEF FrameOf

\* The peer sends one message more: the stream has it, and its bytes come behind the others.
LEMMA Peer_Send_Stream ==
  ASSUME IInv, IInv', StreamInv, Peer_Send, whole'
  PROVE  StreamInv' /\ Stream!Send
<1>1. PICK f \in Frames, b \in Fillers :
        LET data == [i \in 1..PayloadBytes(f) |-> <<Len(sent) + 1, Len(frag) + i>>] IN
        /\ wire' = wire \o Bytes(f, count + 1, data, b)
        /\ IsWhole(f)
        /\ IF f.fin
             THEN frag' = <<>> /\ sent' = Append(sent, frag \o data)
             ELSE frag' = frag \o data /\ UNCHANGED sent
  BY DEF Peer_Send
<1> DEFINE data == [i \in 1..PayloadBytes(f) |-> <<Len(sent) + 1, Len(frag) + i>>]
<1>2. /\ sent \in Seq(Seq(Content)) /\ sent' \in Seq(Seq(Content)) /\ frag = <<>> /\ Len(frag) = 0 /\ count = Len(sent)
      /\ Len(sent) \in Nat /\ count' = count + 1
  BY DEF IInv, PeerInv, StreamInv, WholeSent, Peer_Send
<1>3. PayloadBytes(f) \in Nat
  BY FrameSizes
<1>4. data \in Seq(Content) /\ Len(data) = PayloadBytes(f)
  <2>1. \A i \in 1..PayloadBytes(f) : <<Len(sent) + 1, Len(frag) + i>> \in Content
    BY <1>2, <1>3 DEF Content
  <2> QED BY <1>3, <2>1
<1>5. wire' = wire \o Bytes(f, count + 1, data, b) /\ frag' = <<>> /\ sent' = Append(sent, data)
  <2>1. f.fin
    BY <1>1, WholeFrameSizes
  <2>2. wire' = wire \o Bytes(f, count + 1, data, b) /\ frag' = <<>> /\ sent' = Append(sent, frag \o data)
    BY <1>1, <2>1
  <2> HIDE DEF data
  <2>3. frag \o data = data
    BY <1>2, <1>4
  <2> QED BY <2>2, <2>3
<1> HIDE DEF data
<1>6. /\ Len(sent') = Len(sent) + 1 /\ sent'[Len(sent) + 1] = data
      /\ \A k \in 1..Len(sent) : sent'[k] = sent[k]
  BY <1>2, <1>4, <1>5
<1> DEFINE new == Bytes(f, count + 1, data, b)
<1>7. new \in Seq(Byte) /\ FrameOf(sent', Len(sent'), new) /\ Len(data) \in 1..125
  <2>1. count + 1 \in Nat /\ count + 1 \in 1..Len(sent') /\ count + 1 = Len(sent') /\ sent'[count + 1] = data
    BY <1>2, <1>6
  <2>2. new \in Seq(Byte) /\ WholeShape(new, count + 1, data) /\ Len(data) \in 1..125
    BY <1>1, <1>4, <2>1, WholeFrameParts
  <2> HIDE DEF new
  <2> QED BY <2>1, <2>2, WholeFrame
<1>8. WholeSent'
  <2>1. \A k \in 1..Len(sent') : k \in 1..Len(sent) \/ k = Len(sent) + 1
    BY <1>2, <1>6
  <2> QED BY <1>2, <1>5, <1>6, <1>7, <2>1 DEF StreamInv, WholeSent
<1>9. /\ UNCHANGED <<link, incomingDataBuffer, pool, reader, app>>
      /\ delivered' = delivered /\ webSocketState' = webSocketState /\ incomingDataBuffer' = incomingDataBuffer
      /\ Frame' = Frame /\ ByteOfFrame' = ByteOfFrame
  BY DEF Peer_Send, reader, app, Frame, ByteOfFrame
<1>10. DeliveredSent' /\ NoFragments'
  <2>1. Len(delivered) \in Nat /\ Len(delivered) <= Len(sent)
    BY DEF StreamInv, DeliveredSent
  <2>2. \A k \in 1..Len(delivered) : k \in 1..Len(sent)
    BY <1>2, <2>1
  <2> QED BY <1>2, <1>6, <1>9, <2>1, <2>2 DEF StreamInv, DeliveredSent, NoFragments, reader, payload
<1>11. InStep'
  <2> SUFFICES ASSUME webSocketState # "WS_FINISHED"
               PROVE  InStep'
    BY <1>9 DEF InStep
  <2>1. Unread(sent, incomingDataBuffer \o wire, <<Frame, ByteOfFrame>>)
    BY DEF StreamInv, InStep
  <2>2. Unread(sent', (incomingDataBuffer \o wire) \o new, <<Frame, ByteOfFrame>>)
    <3>1. incomingDataBuffer \o wire \in Seq(Byte)
      BY FramePlace
    <3> HIDE DEF new
    <3> QED BY <1>2, <1>4, <1>5, <1>7, <2>1, <3>1, FramePlace, UnreadMore
  <2>3. (incomingDataBuffer \o wire) \o new = incomingDataBuffer' \o wire'
    <3> HIDE DEF new
    <3>1. wire' = wire \o new
      BY <1>5 DEF new
    <3>2. incomingDataBuffer \in Seq(Byte) /\ wire \in Seq(Byte)
      BY FramePlace
    <3>3. (incomingDataBuffer \o wire) \o new = incomingDataBuffer \o (wire \o new)
      BY <1>7, <3>2, ConcatAssociative
    <3> QED BY <1>9, <3>1, <3>3
  <2>4. webSocketState # "WS_READING_PACK_INFO_1" => sent'[Frame] = sent[Frame]
    <3>1. webSocketState # "WS_READING_PACK_INFO_1" => Frame \in 1..Len(sent)
      <4> DEFINE p == <<Frame, ByteOfFrame>>
      <4>1. /\ incomingDataBuffer \o wire \in Seq(Byte) /\ sent \in Seq(Seq(Content))
            /\ p \in Place /\ p[1] = Frame
            /\ (webSocketState # "WS_READING_PACK_INFO_1" => p[2] # 1)
        <5>1. ByteOfFrame > 1 => ByteOfFrame # 1
          BY FramePlace
        <5> QED BY <5>1, FramePlace
      <4>2. Unread(sent, incomingDataBuffer \o wire, p)
        BY <2>1
      <4> HIDE DEF p
      <4> QED BY <4>1, <4>2, UnreadWithin
    <3> QED BY <1>6, <3>1
  <2> QED BY <1>9, <2>2, <2>3, <2>4 DEF StreamInv, InStep, reader, size, payload
<1>12. Stream!Send
  <2>1. sent' # <<>> /\ sent = SubSeq(sent', 1, Len(sent') - 1)
    BY <1>2, <1>4, <1>5
  <2> QED BY <1>9, <2>1 DEF Stream!Send
<1> QED BY <1>8, <1>10, <1>11, <1>12 DEF StreamInv

\* What surrounds the reader leaves its place as it is.
LEMMA Around_Stream ==
  ASSUME IInv, StreamInv, Peer_Close \/ Receive \/ Task_Start \/ Task_End \/ finalizeClient \/ Return \/ UNCHANGED vars
  PROVE  StreamInv' /\ UNCHANGED <<sent, delivered>>
<1>1. /\ incomingDataBuffer' \o wire' = incomingDataBuffer \o wire
      /\ UNCHANGED <<count, frag, sent, delivered, ws_tempIndex, size, ws_mask, payload>>
      /\ webSocketState' = webSocketState \/ webSocketState' = "WS_FINISHED"
  BY Around_Unread
<1>2. WholeSent' /\ DeliveredSent' /\ NoFragments'
  BY <1>1 DEF StreamInv, WholeSent, DeliveredSent, NoFragments, payload
<1>3. InStep'
  <2>1. CASE webSocketState' = "WS_FINISHED"
    BY <2>1 DEF InStep
  <2>2. CASE webSocketState' = webSocketState
    <3>1. Frame' = Frame /\ ByteOfFrame' = ByteOfFrame
      BY <1>1, <2>2 DEF Frame, ByteOfFrame
    <3> QED BY <1>1, <2>2, <3>1 DEF StreamInv, InStep, size, payload
  <2> QED BY <1>1, <2>1, <2>2
<1> QED BY <1>1, <1>2, <1>3 DEF StreamInv

\* What a size of 1 to 125 is.
LEMMA ShortSize ==
  ASSUME NEW n \in 1..125
  PROVE  /\ n \in Nat /\ n < 126 /\ 0 < n /\ 1 < 6 + n /\ 2 < 6 + n
         /\ \A i \in 0..3 : 3 + i < 6 + n
OBVIOUS

\* A branch of the loop pops the byte of the reader's place.
LEMMA Pop_Stream ==
  ASSUME IInv, StreamInv, NEW state, In(state)
  PROVE  /\ webSocketState = state /\ ws_curr \in Byte
         /\ UNCHANGED <<count, frag, sent>>
         /\ IsAt(sent, <<Frame, ByteOfFrame>>, ws_curr)
         /\ Unread(sent', incomingDataBuffer' \o wire', NextPlace(sent, <<Frame, ByteOfFrame>>))
         /\ Frame \in 1..Len(sent) /\ sent[Frame] \in Seq(Content) /\ Len(sent[Frame]) \in 1..125
<1>1. /\ incomingDataBuffer \in Seq(Byte) /\ wire \in Seq(Byte) /\ incomingDataBuffer # << >>
      /\ incomingDataBuffer' = Tail(incomingDataBuffer) /\ UNCHANGED <<count, frag, sent, wire>>
      /\ webSocketState = state /\ webSocketState # "WS_FINISHED"
      /\ sent \in Seq(Seq(Content))
  BY DEF IInv, PeerInv, In, peer
<1> DEFINE u == incomingDataBuffer \o wire
           p == <<Frame, ByteOfFrame>>
<1>2. u \in Seq(Byte) /\ u # <<>> /\ Head(u) = ws_curr /\ Tail(u) = incomingDataBuffer' \o wire'
  <2>1. u \in Seq(Byte) /\ u # <<>> /\ Head(u) = ws_curr
    BY <1>1 DEF ws_curr
  <2>2. Tail(u) = Tail(incomingDataBuffer) \o wire
    BY <1>1
  <2> QED BY <1>1, <2>1, <2>2
<1>3. Unread(sent, u, p) /\ p \in Place
  BY <1>1, FramePlace DEF StreamInv, InStep
<1>4. p[1] = Frame
  OBVIOUS
<1> HIDE DEF u, p
<1>5. IsAt(sent, p, ws_curr) /\ Unread(sent, incomingDataBuffer' \o wire', NextPlace(sent, p))
  BY <1>1, <1>2, <1>3, UnreadPop
<1>6. Frame \in 1..Len(sent)
  BY <1>4, <1>5 DEF IsAt
<1>7. sent[Frame] \in Seq(Content) /\ Len(sent[Frame]) \in 1..125
  BY <1>1, <1>6 DEF StreamInv, WholeSent
<1>8. ws_curr \in Byte
  BY PopsAByte
<1> QED BY <1>1, <1>5, <1>6, <1>7, <1>8 DEF p

\* Behind a byte that does not end its frame the reader is one byte further.
LEMMA Advance ==
  ASSUME IInv, StreamInv, NEW state, In(state), delivered' = delivered,
         ByteOfFrame' = ByteOfFrame + 1, ByteOfFrame < 6 + Len(sent[Frame]), UNCHANGED payload \/ NoFragments'
  PROVE  /\ WholeSent' /\ DeliveredSent' /\ NoFragments'
         /\ Frame' = Frame /\ sent'[Frame'] = sent[Frame]
         /\ Unread(sent', incomingDataBuffer' \o wire', <<Frame', ByteOfFrame'>>)
<1>1. /\ UNCHANGED <<count, frag, sent>>
      /\ Unread(sent', incomingDataBuffer' \o wire', NextPlace(sent, <<Frame, ByteOfFrame>>))
  BY Pop_Stream
<1>2. Frame' = Frame
  BY DEF Frame
<1>3. NextPlace(sent, <<Frame, ByteOfFrame>>) = <<Frame', ByteOfFrame'>>
  BY <1>2 DEF NextPlace, FrameLength
<1>4. WholeSent' /\ DeliveredSent' /\ NoFragments'
  BY <1>1 DEF StreamInv, WholeSent, DeliveredSent, NoFragments, payload
<1> QED BY <1>1, <1>2, <1>3, <1>4

LEMMA ReadPackInfo1_Stream ==
  ASSUME IInv, StreamInv, ReadPackInfo1
  PROVE  StreamInv' /\ UNCHANGED <<sent, delivered>>
<1>1. In("WS_READING_PACK_INFO_1") /\ webSocketState' = "WS_READING_PACK_INFO_2"
      /\ delivered' = delivered /\ ws_payload' = ws_payload /\ ws_totalPayload' = 0 /\ ws_fin' = ws_curr.hi
  BY DEF ReadPackInfo1, Become, app
<1>2. /\ webSocketState = "WS_READING_PACK_INFO_1" /\ IsAt(sent, <<Frame, ByteOfFrame>>, ws_curr)
      /\ Len(sent[Frame]) \in 1..125 /\ UNCHANGED <<count, frag, sent>>
  BY <1>1, Pop_Stream
<1>3. ByteOfFrame = 1 /\ ByteOfFrame' = 2
  BY <1>1, <1>2 DEF ByteOfFrame
<1>4. NoFragments'
  BY <1>1 DEF StreamInv, NoFragments
<1>5. ByteOfFrame' = ByteOfFrame + 1 /\ ByteOfFrame < 6 + Len(sent[Frame])
  BY <1>2, <1>3
<1>6. /\ WholeSent' /\ DeliveredSent' /\ NoFragments'
      /\ Unread(sent', incomingDataBuffer' \o wire', <<Frame', ByteOfFrame'>>)
  BY <1>1, <1>4, <1>5, Advance
<1>7. ws_fin'
  BY <1>1, <1>2, <1>3 DEF IsAt
<1>8. InStep'
  BY <1>1, <1>6, <1>7 DEF InStep
<1> QED BY <1>1, <1>2, <1>6, <1>8 DEF StreamInv

LEMMA ReadPackInfo2_Stream ==
  ASSUME IInv, StreamInv, ReadPackInfo2
  PROVE  StreamInv' /\ UNCHANGED <<sent, delivered>>
<1>1. /\ In("WS_READING_PACK_INFO_2") /\ delivered' = delivered /\ UNCHANGED payload /\ ws_fin' = ws_fin
  BY DEF ReadPackInfo2, app
<1>2. /\ webSocketState = "WS_READING_PACK_INFO_2" /\ IsAt(sent, <<Frame, ByteOfFrame>>, ws_curr)
      /\ Len(sent[Frame]) \in 1..125 /\ UNCHANGED <<count, frag, sent>>
  BY <1>1, Pop_Stream
<1>3. ByteOfFrame = 2
  BY <1>2 DEF ByteOfFrame
<1>4. ws_curr.hi /\ ws_curr.lo = Len(sent[Frame])
  BY <1>2, <1>3 DEF IsAt
<1>5. IsShort(Size7bit) /\ Size7bit = Len(sent[Frame])
  <2>1. Len(sent[Frame]) < 126
    BY <1>2, ShortSize
  <2> QED BY <1>4, <2>1 DEF IsShort, Size7bit
<1>6. ws_packSize' = Len(sent[Frame]) /\ ws_tempIndex' = 0 /\ webSocketState' = "WS_READING_MASK_KEY"
  BY <1>4, <1>5 DEF ReadPackInfo2, AfterSize, Become
<1>7. ByteOfFrame' = 3
  BY <1>6 DEF ByteOfFrame
<1>8. ByteOfFrame' = ByteOfFrame + 1 /\ ByteOfFrame < 6 + Len(sent[Frame])
  BY <1>2, <1>3, <1>7
<1>9. /\ WholeSent' /\ DeliveredSent' /\ NoFragments' /\ sent'[Frame'] = sent[Frame]
      /\ Unread(sent', incomingDataBuffer' \o wire', <<Frame', ByteOfFrame'>>)
  BY <1>1, <1>8, Advance
<1>10. ws_fin'
  BY <1>1, <1>2 DEF StreamInv, InStep
<1>11. \A i \in 0..3 : ~(i < ws_tempIndex')
  BY <1>6
<1>12. InStep'
  BY <1>6, <1>9, <1>10, <1>11 DEF InStep
<1> QED BY <1>1, <1>2, <1>9, <1>12 DEF StreamInv

LEMMA ReadField_Stream ==
  ASSUME IInv, StreamInv, ReadField
  PROVE  StreamInv' /\ UNCHANGED <<sent, delivered>>
<1>1. webSocketState = "WS_READING_MASK_KEY" /\ FieldLength[webSocketState] = 4
      /\ AfterField[webSocketState] = "WS_READING_PAYLOAD"
  BY DEF ReadField, FieldLength, AfterField, IInv, ReaderInv, ReachableStates
<1>2. /\ In("WS_READING_MASK_KEY") /\ delivered' = delivered /\ UNCHANGED payload /\ ws_fin' = ws_fin
      /\ ws_mask' = [ws_mask EXCEPT ![ws_tempIndex] = ws_curr.key] /\ ws_packSize' = ws_packSize
      /\ IF ws_tempIndex + 1 = 4
           THEN ws_tempIndex' = 0 /\ webSocketState' = "WS_READING_PAYLOAD"
           ELSE ws_tempIndex' = ws_tempIndex + 1 /\ webSocketState' = webSocketState
  BY <1>1 DEF ReadField, app, Become
<1>3. /\ IsAt(sent, <<Frame, ByteOfFrame>>, ws_curr) /\ Frame \in Nat
      /\ Len(sent[Frame]) \in 1..125 /\ UNCHANGED <<count, frag, sent>>
  BY <1>2, Pop_Stream
<1>4. ws_tempIndex \in 0..3 /\ ws_mask \in [0..3 -> KeyByte] /\ ws_packPayload = <<>>
  BY <1>1 DEF IInv, BoundsInv, ReaderInv
<1>5. ByteOfFrame = 3 + ws_tempIndex
  BY <1>1 DEF ByteOfFrame
<1>6. ByteOfFrame' = ByteOfFrame + 1
  <2>1. CASE ws_tempIndex = 3
    BY <1>2, <1>5, <2>1 DEF ByteOfFrame
  <2>2. CASE ws_tempIndex # 3
    <3>1. ws_tempIndex + 1 # 4
      BY <1>4, <2>2
    <3>2. ByteOfFrame' = 3 + (ws_tempIndex + 1)
      BY <1>1, <1>2, <3>1 DEF ByteOfFrame
    <3> QED BY <1>4, <1>5, <3>2
  <2> QED BY <2>1, <2>2
<1>7. ByteOfFrame < 6 + Len(sent[Frame])
  BY <1>3, <1>4, <1>5, ShortSize
<1>8. /\ WholeSent' /\ DeliveredSent' /\ NoFragments' /\ Frame' = Frame /\ sent'[Frame'] = sent[Frame]
      /\ Unread(sent', incomingDataBuffer' \o wire', <<Frame', ByteOfFrame'>>)
  BY <1>2, <1>6, <1>7, Advance
<1>9. ws_curr.key = <<Frame, ws_tempIndex>>
  <2>1. ByteOfFrame \in 3..6 /\ ByteOfFrame - 3 = ws_tempIndex
    BY <1>4, <1>5
  <2> QED BY <1>3, <2>1 DEF IsAt
<1>10. /\ webSocketState # "WS_FINISHED" /\ ws_fin /\ ws_packSize = Len(sent[Frame])
       /\ \A i \in 0..3 : i < ws_tempIndex => ws_mask[i] = <<Frame, i>>
  BY <1>1 DEF StreamInv, InStep
<1>11. \A i \in 0..3 : i < ws_tempIndex + 1 => ws_mask'[i] = <<Frame, i>>
  <2> SUFFICES ASSUME NEW i \in 0..3, i < ws_tempIndex + 1
               PROVE  ws_mask'[i] = <<Frame, i>>
    OBVIOUS
  <2>1. CASE i = ws_tempIndex
    BY <1>2, <1>4, <1>9, <2>1
  <2>2. CASE i # ws_tempIndex
    <3>1. i < ws_tempIndex
      BY <1>4, <2>2
    <3> QED BY <1>2, <1>4, <1>10, <2>2, <3>1
  <2> QED BY <2>1, <2>2
<1>12. InStep'
  <2>1. CASE ws_tempIndex = 3
    <3>1. ws_tempIndex' = 0 /\ webSocketState' = "WS_READING_PAYLOAD"
      BY <1>2, <2>1
    <3>2. \A i \in 0..3 : ws_mask'[i] = <<Frame', i>>
      BY <1>8, <1>11, <2>1
    <3>3. ws_tempIndex' < ws_packSize' /\ ws_packSize' = Len(sent'[Frame'])
      <4>1. 0 < Len(sent[Frame])
        BY <1>3, ShortSize
      <4> QED BY <1>2, <1>8, <1>10, <3>1, <4>1
    <3>4. \A i \in 1..ws_tempIndex' : ws_packPayload'[i] = sent'[Frame'][i]
      BY <3>1
    <3>5. ws_fin'
      BY <1>2, <1>10
    <3> QED BY <1>8, <3>1, <3>2, <3>3, <3>4, <3>5 DEF InStep
  <2>2. CASE ws_tempIndex # 3
    <3>1. ws_tempIndex' = ws_tempIndex + 1 /\ webSocketState' = "WS_READING_MASK_KEY"
      <4>1. ws_tempIndex + 1 # 4
        BY <1>4, <2>2
      <4> QED BY <1>1, <1>2, <4>1
    <3>2. \A i \in 0..3 : i < ws_tempIndex' => ws_mask'[i] = <<Frame', i>>
      BY <1>8, <1>11, <3>1
    <3>3. ws_fin' /\ ws_packSize' = Len(sent'[Frame'])
      BY <1>2, <1>8, <1>10
    <3> QED BY <1>8, <3>1, <3>2, <3>3 DEF InStep
  <2> QED BY <2>1, <2>2
<1> QED BY <1>2, <1>3, <1>8, <1>12 DEF StreamInv

\* A byte of the payload is the one of the message.
LEMMA PayloadByte ==
  ASSUME IInv, StreamInv, In("WS_READING_PAYLOAD")
  PROVE  /\ webSocketState = "WS_READING_PAYLOAD" /\ ws_fin
         /\ ws_tempIndex \in Nat /\ ByteOfFrame = 7 + ws_tempIndex
         /\ Fits /\ NextIndex = ws_tempIndex + 1 /\ NextIndex <= Len(sent[Frame])
         /\ FrameComplete <=> NextIndex = Len(sent[Frame])
         /\ Pack \in Seq(Plain) /\ Len(Pack) = NextIndex
         /\ \A i \in 1..NextIndex : Pack[i] = sent[Frame][i]
<1>1. /\ webSocketState = "WS_READING_PAYLOAD" /\ IsAt(sent, <<Frame, ByteOfFrame>>, ws_curr)
      /\ Len(sent[Frame]) \in 1..125 /\ ws_curr \in Byte /\ Frame \in 1..Len(sent)
  BY Pop_Stream
<1>2. /\ ws_fin /\ ws_packSize = Len(sent[Frame]) /\ ws_tempIndex < ws_packSize
      /\ \A i \in 0..3 : ws_mask[i] = <<Frame, i>>
      /\ \A i \in 1..ws_tempIndex : ws_packPayload[i] = sent[Frame][i]
  BY <1>1 DEF StreamInv, InStep
<1>3. /\ ws_tempIndex \in Nat /\ ws_packPayload \in Seq(Plain) /\ Len(ws_packPayload) = ws_tempIndex
      /\ ws_packSize \in Nat
  BY <1>1 DEF IInv, ReaderInv, BoundsInv
<1>4. ByteOfFrame = 7 + ws_tempIndex
  BY <1>1 DEF ByteOfFrame
<1>5. Fits /\ NextIndex = ws_tempIndex + 1 /\ NextIndex <= ws_packSize /\ (FrameComplete <=> NextIndex = ws_packSize)
  BY <1>2, <1>3 DEF Fits, NextIndex, FrameComplete
<1>6. ws_curr.plain = sent[Frame][ws_tempIndex + 1] /\ ws_curr.key = <<Frame, ws_tempIndex % 4>>
  <2>1. ByteOfFrame > 6 /\ ByteOfFrame - 6 = ws_tempIndex + 1 /\ ByteOfFrame - 7 = ws_tempIndex
    BY <1>3, <1>4
  <2> QED BY <1>1, <2>1 DEF IsAt
<1>7. Unmasked = ws_curr.plain
  <2>1. ws_tempIndex % 4 \in 0..3
    BY <1>3
  <2>2. ws_mask[ws_tempIndex % 4] = <<Frame, ws_tempIndex % 4>>
    BY <1>2, <2>1
  <2>3. <<Frame, ws_tempIndex % 4>> # NoKey
    <3>1. Frame \in Nat /\ ws_tempIndex % 4 \in Nat
      BY <2>1, FramePlace
    <3> QED BY <3>1, KeysAssumption
  <2> QED BY <1>6, <2>2, <2>3 DEF Unmasked
<1>8. ws_curr.plain \in Plain
  BY <1>1 DEF Byte
<1> DEFINE x == ws_curr.plain
<1>9. Pack = Append(ws_packPayload, x)
  BY <1>5, <1>7 DEF Pack
<1>10. x \in Plain /\ x = sent[Frame][ws_tempIndex + 1]
  BY <1>6, <1>8
<1> HIDE DEF x
<1>11. /\ Append(ws_packPayload, x) \in Seq(Plain) /\ Len(Append(ws_packPayload, x)) = ws_tempIndex + 1
       /\ Append(ws_packPayload, x)[ws_tempIndex + 1] = x
       /\ \A i \in 1..ws_tempIndex : Append(ws_packPayload, x)[i] = ws_packPayload[i]
  BY <1>3, <1>10
<1>12. \A i \in 1..(ws_tempIndex + 1) : i \in 1..ws_tempIndex \/ i = ws_tempIndex + 1
  BY <1>3
<1>13. \A i \in 1..NextIndex : Pack[i] = sent[Frame][i]
  BY <1>2, <1>5, <1>9, <1>10, <1>11, <1>12
<1> QED BY <1>1, <1>2, <1>3, <1>4, <1>5, <1>9, <1>11, <1>13

LEMMA ReadPayload_Stream ==
  ASSUME IInv, StreamInv, ReadPayload
  PROVE  StreamInv' /\ UNCHANGED <<sent, delivered>>
<1>1. /\ In("WS_READING_PAYLOAD") /\ ~FrameComplete
      /\ ws_packPayload' = Pack /\ ws_tempIndex' = NextIndex
      /\ UNCHANGED <<webSocketState, size, ws_mask, ws_payload, ws_totalPayload, delivered>>
  BY DEF ReadPayload, app
<1>2. /\ webSocketState = "WS_READING_PAYLOAD" /\ ws_fin
      /\ ws_tempIndex \in Nat /\ ByteOfFrame = 7 + ws_tempIndex
      /\ NextIndex = ws_tempIndex + 1 /\ NextIndex <= Len(sent[Frame]) /\ NextIndex # Len(sent[Frame])
      /\ \A i \in 1..NextIndex : Pack[i] = sent[Frame][i]
  BY <1>1, PayloadByte
<1>3. UNCHANGED <<count, frag, sent>> /\ Len(sent[Frame]) \in 1..125
  BY <1>1, Pop_Stream
<1>4. ByteOfFrame' = 7 + (ws_tempIndex + 1)
  BY <1>1, <1>2 DEF ByteOfFrame
<1>5. ByteOfFrame' = ByteOfFrame + 1 /\ ByteOfFrame < 6 + Len(sent[Frame]) /\ NextIndex < Len(sent[Frame])
  <2>1. Len(sent[Frame]) \in Nat
    BY <1>3, ShortSize
  <2> QED BY <1>2, <1>4, <2>1
<1>6. NoFragments'
  BY <1>1 DEF StreamInv, NoFragments
<1>7. /\ WholeSent' /\ DeliveredSent' /\ NoFragments' /\ Frame' = Frame /\ sent'[Frame'] = sent[Frame]
      /\ Unread(sent', incomingDataBuffer' \o wire', <<Frame', ByteOfFrame'>>)
  BY <1>1, <1>5, <1>6, Advance
<1>8. ws_packSize = Len(sent[Frame]) /\ \A i \in 0..3 : ws_mask[i] = <<Frame, i>>
  BY <1>2 DEF StreamInv, InStep
<1>9. ws_fin' /\ ws_packSize' = Len(sent'[Frame']) /\ ws_tempIndex' < ws_packSize'
  BY <1>1, <1>2, <1>5, <1>7, <1>8 DEF size
<1>10. \A i \in 0..3 : ws_mask'[i] = <<Frame', i>>
  BY <1>1, <1>7, <1>8
<1>11. \A i \in 1..ws_tempIndex' : ws_packPayload'[i] = sent'[Frame'][i]
  BY <1>1, <1>2, <1>7
<1>12. webSocketState' = "WS_READING_PAYLOAD"
  BY <1>1, <1>2
<1>13. InStep'
  BY <1>7, <1>9, <1>10, <1>11, <1>12 DEF InStep
<1> QED BY <1>1, <1>3, <1>7, <1>13 DEF StreamInv

\* Sequences with the same elements are the same.
LEMMA SameElements ==
  ASSUME NEW S, NEW T, NEW a \in Seq(S), NEW b \in Seq(T), Len(a) = Len(b), \A i \in 1..Len(a) : a[i] = b[i]
  PROVE  a = b
<1>1. a = [i \in 1..Len(a) |-> a[i]] /\ b = [i \in 1..Len(b) |-> b[i]]
  OBVIOUS
<1> QED BY <1>1, Zenon

\* The last byte of a frame delivers the message.
LEMMA EndOfMessage_Stream ==
  ASSUME IInv, StreamInv, EndOfMessage
  PROVE  StreamInv' /\ Stream!Deliver /\ overrun' = overrun
<1>1. /\ In("WS_READING_PAYLOAD") /\ FrameComplete /\ webSocketState' = "WS_READING_PACK_INFO_1"
      /\ ws_payload' = <<>> /\ ws_totalPayload' = 0
  BY DEF EndOfMessage, EndOfFrame, Become
<1>2. /\ ByteOfFrame = 7 + ws_tempIndex /\ ws_tempIndex \in Nat
      /\ NextIndex = ws_tempIndex + 1 /\ NextIndex = Len(sent[Frame])
      /\ Pack \in Seq(Plain) /\ Len(Pack) = NextIndex
      /\ \A i \in 1..NextIndex : Pack[i] = sent[Frame][i]
  BY <1>1, PayloadByte
<1>3. /\ UNCHANGED <<count, frag, sent>> /\ Frame \in 1..Len(sent) /\ sent[Frame] \in Seq(Content)
      /\ Unread(sent', incomingDataBuffer' \o wire', NextPlace(sent, <<Frame, ByteOfFrame>>))
  BY <1>1, Pop_Stream
<1>4. Pack = sent[Frame]
  BY <1>2, <1>3, SameElements
<1>5. ws_payload = <<>> /\ ws_totalPayload = 0
  BY DEF StreamInv, NoFragments
<1>6. delivered' = Append(delivered, SubSeq(Pack, 1, 0 + NextIndex)) /\ overrun' = overrun
  BY <1>5 DEF EndOfMessage
<1>7. delivered' = Append(delivered, sent[Frame])
  <2> DEFINE p == Pack
  <2>1. p \in Seq(Plain) /\ 0 + NextIndex = Len(p)
    BY <1>2
  <2> HIDE DEF p
  <2>2. SubSeq(p, 1, Len(p)) = p
    BY <2>1
  <2> QED BY <1>4, <1>6, <2>1, <2>2 DEF p
<1>8. /\ delivered \in Seq(Seq(Content)) /\ Len(delivered) \in Nat /\ Frame = Len(delivered) + 1
      /\ \A k \in 1..Len(delivered) : delivered[k] = sent[k]
  BY DEF StreamInv, DeliveredSent, Frame
<1>9. /\ delivered' \in Seq(Seq(Content)) /\ Len(delivered') = Len(delivered) + 1
      /\ delivered'[Len(delivered) + 1] = sent[Frame]
      /\ \A k \in 1..Len(delivered) : delivered'[k] = delivered[k]
  BY <1>3, <1>7, <1>8
<1>10. DeliveredSent'
  <2>1. \A k \in 1..Len(delivered') : k \in 1..Len(delivered) \/ k = Len(delivered) + 1
    BY <1>8, <1>9
  <2>2. \A k \in 1..Len(delivered') : delivered'[k] = sent[k]
    BY <1>8, <1>9, <2>1
  <2>3. Len(delivered') <= Len(sent)
    BY <1>3, <1>8, <1>9
  <2> QED BY <1>3, <1>9, <2>2, <2>3 DEF DeliveredSent
<1>11. WholeSent' /\ NoFragments'
  BY <1>1, <1>3 DEF StreamInv, WholeSent, NoFragments
<1>12. NextPlace(sent, <<Frame, ByteOfFrame>>) = <<Frame', ByteOfFrame'>>
  <2>1. ~(ByteOfFrame < 6 + Len(sent[Frame]))
    BY <1>2
  <2>2. Frame' = Frame + 1 /\ ByteOfFrame' = 1
    BY <1>1, <1>8, <1>9 DEF Frame, ByteOfFrame
  <2> QED BY <2>1, <2>2 DEF NextPlace, FrameLength
<1>13. InStep'
  BY <1>1, <1>3, <1>12 DEF InStep
<1>14. Stream!Deliver
  <2>1. Len(delivered) < Len(sent)
    BY <1>3, <1>8
  <2> QED BY <1>3, <1>7, <1>8, <2>1 DEF Stream!Deliver
<1> QED BY <1>6, <1>10, <1>11, <1>13, <1>14 DEF StreamInv

\* There are no fragments and no errors.
LEMMA NoOtherSteps ==
  ASSUME IInv, StreamInv
  PROVE  ~EndOfFragment /\ ~FailedState
<1>1. ASSUME EndOfFragment PROVE FALSE
  <2>1. In("WS_READING_PAYLOAD") /\ ~ws_fin
    BY <1>1 DEF EndOfFragment, EndOfFrame
  <2> QED BY <2>1, PayloadByte
<1>2. ASSUME FailedState PROVE FALSE
  BY <1>2 DEF FailedState, StreamInv, InStep
<1> QED BY <1>1, <1>2

\* As long as every frame is a whole message, every step is one of the stream, or none.
LEMMA NextStream ==
  ASSUME IInv, StreamInv, whole', [Next]_vars
  PROVE  StreamInv' /\ [Stream!Next]_<<sent, delivered>> /\ overrun' = overrun
<1>1. CASE Peer_Send
  <2>1. IInv' /\ overrun' = overrun
    BY <1>1, NextIInv DEF Peer_Send, app
  <2> QED BY <1>1, <2>1, Peer_Send_Stream DEF Stream!Next
<1>2. CASE EndOfMessage
  BY <1>2, EndOfMessage_Stream DEF Stream!Next
<1>3. CASE ~Peer_Send /\ ~EndOfMessage
  <2>1. overrun' = overrun
    BY <1>3, OverrunSteps
  <2>2. CASE Peer_Close \/ Receive \/ Task_Start \/ Task_End \/ finalizeClient \/ Return \/ UNCHANGED vars
    BY <2>1, <2>2, Around_Stream
  <2>3. CASE ReadPackInfo1
    BY <2>1, <2>3, ReadPackInfo1_Stream
  <2>4. CASE ReadPackInfo2
    BY <2>1, <2>4, ReadPackInfo2_Stream
  <2>5. CASE ReadField
    BY <2>1, <2>5, ReadField_Stream
  <2>6. CASE ReadPayload
    BY <2>1, <2>6, ReadPayload_Stream
  <2>7. ~EndOfFragment /\ ~FailedState
    BY NoOtherSteps
  <2> QED BY <1>3, <2>2, <2>3, <2>4, <2>5, <2>6, <2>7 DEF Next, WebSocketProcess
<1> QED BY <1>1, <1>2, <1>3

\* A frame that is not whole is not forgotten, and comes from the peer.
LEMMA WholeSteps ==
  ASSUME [Next]_vars
  PROVE  (whole' => whole) /\ (whole /\ WholeFrames => whole')
<1>1. CASE Peer_Send
  BY <1>1 DEF Peer_Send, WholeFrames
<1>2. CASE Peer_Close \/ Receive \/ Task_Start \/ Task_End \/ finalizeClient \/ Return \/ UNCHANGED vars
  BY <1>2 DEF Peer_Close, Receive, Task_Start, Task_End, finalizeClient, Return, vars, peer
<1>3. CASE \E state : In(state)
  BY <1>3 DEF In, peer
<1>4. ReadPackInfo1 \/ ReadPackInfo2 \/ ReadField \/ ReadPayload \/ EndOfFragment \/ EndOfMessage \/ FailedState
        => \E state : In(state)
  BY DEF ReadPackInfo1, ReadPackInfo2, ReadField, ReadPayload, EndOfFragment, EndOfMessage, EndOfFrame, FailedState
<1> QED BY <1>1, <1>2, <1>3, <1>4 DEF Next, WebSocketProcess

\* The reader keeps its place as long as every frame is a whole message, and puts no fragments together.
WholeInv == whole => StreamInv /\ ~overrun

LEMMA WholeStep == IInv /\ WholeInv /\ [Next]_vars => WholeInv' /\ (whole' => [Stream!Next]_<<sent, delivered>>)
<1> SUFFICES ASSUME IInv, WholeInv, [Next]_vars, whole'
             PROVE  StreamInv' /\ ~overrun' /\ [Stream!Next]_<<sent, delivered>>
  BY DEF WholeInv
<1>1. StreamInv /\ ~overrun
  BY WholeSteps DEF WholeInv
<1> QED BY <1>1, NextStream

LEMMA WholeInit == Init => WholeInv
BY StreamInit DEF Init, WholeInv

\* No byte is written outside ws_mask or ws_packPayload, whatever the peer sends, and no frame
\* begins with the buffer of another.  None is written outside fullPayload as long as all frames
\* are masked messages of 1 to 125 bytes (WebSocketProcess, the uses of ws_tempIndex).
THEOREM ReaderInBounds == Spec => []IndexInBounds
<1>1. IInv /\ WholeInv => IndexInBounds
  BY DEF IInv, ReaderInv, BoundsInv, ReachableStates, WholeInv, IndexInBounds, FieldLength
<1> QED BY <1>1, Invariant, WholeInit, WholeStep, PTL DEF Spec

\* To a peer whose frames are whole messages the reader is a stream of messages: each reaches
\* the application once, whole and in its turn, however its bytes were cut up on their way
\* (WebSocketProcess, all its states).
THEOREM ReaderIsStream == ASSUME WholeFrames PROVE Spec => StreamSpec
<1>1. Init => Stream!Init /\ whole
  BY DEF Init, Stream!Init
<1>2. whole /\ [Next]_vars => whole'
  BY WholeSteps
<1>3. IInv /\ WholeInv /\ [Next]_vars => WholeInv' /\ (whole' => [Stream!Next]_<<sent, delivered>>)
  BY WholeStep
<1> QED BY <1>1, <1>2, <1>3, WholeInit, Invariant, PTL DEF Spec, StreamSpec, Stream!Spec
===============================================================================
