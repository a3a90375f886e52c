---------------------------- MODULE WebSocketFrames ----------------------------
(***************************************************************************)
(* WebSocketProcess: the reader of one websocket's frames, byte by byte.   *)
(* One thread at a time runs it here; ClientSessions has the threads.      *)
(*                                                                         *)
(* A byte is what each state of the reader would make of it: its top bit   *)
(* (fin, or masked), its other bits (the 7-bit size), and the plain byte   *)
(* it gives when it is unmasked with the byte of the mask that masked it.  *)
(* So a reader that is out of step with its peer still reads something.    *)
(*                                                                         *)
(* A message's last buffer is freed twice: the allocator may stop the      *)
(* program, or goes on.  The buffers of fragments are read after they were *)
(* freed and used again, and put into an array that is too short for them: *)
(* that is the end of what can be said of the program.                     *)
(***************************************************************************)
EXTENDS Naturals, Sequences, SequencesExt

CONSTANTS
  Frames,     \* frames the peer may send: [fin, masked, size]
  Fillers,    \* what mask and payload bytes look like to the other states: [hi, lo]
  MaxFrames,  \* bound: frames the peer sends
  NoKey,      \* no byte of a mask
  Garbage     \* a byte that is not the one the peer sent

ASSUME FramesAssumption ==
  /\ \A f \in Frames : f.fin \in BOOLEAN /\ f.masked \in BOOLEAN /\ f.size \in 0..127
  /\ \A b \in Fillers : b.hi \in BOOLEAN /\ b.lo \in 0..127
  /\ MaxFrames \in Nat

ASSUME KeysAssumption == NoKey \notin Nat \X Nat

VARIABLES
  count, frag, sent,  \* the peer: frames sent, the message in progress, the finished ones
  whole,              \* history: every frame it sent is a masked message of 1 to 125 bytes
  wire,               \* bytes on their way
  connected,          \* what isConnected reports
  finalized,          \* finalizeClient was called for the disconnection
  incomingDataBuffer, \* bytes received and not yet read
  processingIncomingData, \* the session has a task, as the listener sees it
  task,               \* the task: not there, not yet taken, inside WebSocketProcess or back
  running,            \* WebSocketProcess is running
  webSocketState, ws_fin, ws_packSize, ws_tempIndex, ws_mask, ws_totalPayload,
  ws_packPayload,     \* the payload of the frame so far; empty: the pointer is NULL
  ws_payload,         \* the fragments of the message so far, whose buffers are freed
  delivered,          \* the calls to OnWebSocketData
  told,               \* how often OnWebSocketDisconnect was called
  aborted,            \* the allocator stopped the program
  overrun             \* a byte was written behind the end of fullPayload

peer == <<count, frag, sent, whole, wire>>
link == <<connected, finalized>>
size == <<ws_fin, ws_packSize>>
payload == <<ws_packPayload, ws_payload, ws_totalPayload>>
app == <<delivered, told, aborted, overrun>>
pool == <<processingIncomingData, task, running>>
reader == <<webSocketState, size, ws_tempIndex, ws_mask, payload>>
vars == <<peer, link, incomingDataBuffer, pool, webSocketState, size,
          ws_tempIndex, ws_mask, payload, app>>

WebSocketStates ==
  {"WS_READING_PACK_INFO_1", "WS_READING_PACK_INFO_2", "WS_READ_16BIT_SIZE",
   "WS_READ_64BIT_SIZE", "WS_READING_MASK_KEY", "WS_READING_PAYLOAD", "WS_FINISHED",
   "WS_INTERNAL_SERVER_ERROR", "WS_PAYLOAD_NOT_MASKED"}

\* The session as the handshake leaves it, whose task is on its way back; the fields the
\* constructor does not set are assigned before they are read.
Init ==
  /\ count = 0 /\ frag = <<>> /\ sent = <<>> /\ whole = TRUE /\ wire = <<>>
  /\ connected = TRUE /\ finalized = FALSE
  /\ incomingDataBuffer = <<>>
  /\ processingIncomingData = TRUE /\ task = "leaving" /\ running = FALSE
  /\ webSocketState = "WS_READING_PACK_INFO_1"
  /\ ws_fin = FALSE /\ ws_packSize = 0 /\ ws_tempIndex = 0 /\ ws_totalPayload = 0
  /\ ws_mask = [i \in 0..3 |-> NoKey]
  /\ ws_packPayload = <<>> /\ ws_payload = <<>>
  /\ delivered = <<>> /\ told = 0 /\ aborted = FALSE /\ overrun = FALSE

-----------------------------------------------------------------------------
(* The peer, the network and the events of TCPServer.                      *)

\* Frames of 126 and of 127 have longer sizes; of those only the beginning is sent,
\* as nothing after the first bytes is read.
PayloadBytes(f) == IF f.size < 126 THEN f.size ELSE 1
SizeBytes(f) == IF f.size = 126 THEN 2 ELSE IF f.size = 127 THEN 8 ELSE 0

\* The bytes of frame number n with the payload data.
Bytes(f, n, data, b) ==
  LET Byte(hi, lo, plain, key) == [hi |-> hi, lo |-> lo, plain |-> plain, key |-> key]
      Key(i) == IF f.masked THEN <<n, i % 4>> ELSE NoKey
  IN
  <<Byte(f.fin, 1, Garbage, NoKey), Byte(f.masked, f.size, Garbage, NoKey)>>
  \o [i \in 1..SizeBytes(f) |-> Byte(FALSE, 0, Garbage, NoKey)]
  \o [i \in 1..(IF f.masked THEN 4 ELSE 0) |-> Byte(b.hi, b.lo, Garbage, Key(i - 1))]
  \o [i \in 1..PayloadBytes(f) |-> Byte(b.hi, b.lo, data[i], Key(i - 1))]

IsWhole(f) == f.fin /\ f.masked /\ f.size \in 1..125

\* The bytes of all messages are told apart.
Peer_Send ==
  /\ count < MaxFrames /\ connected
  /\ \E f \in Frames, b \in Fillers :
       LET data == [i \in 1..PayloadBytes(f) |-> <<Len(sent) + 1, Len(frag) + i>>] IN
       /\ wire' = wire \o Bytes(f, count + 1, data, b)
       /\ whole' = (whole /\ IsWhole(f))
       /\ IF f.fin
            THEN frag' = <<>> /\ sent' = Append(sent, frag \o data)
            ELSE frag' = frag \o data /\ UNCHANGED sent
  /\ count' = count + 1
  /\ UNCHANGED <<link, incomingDataBuffer, pool, reader, app>>

Peer_Close ==
  /\ connected
  /\ connected' = FALSE
  /\ UNCHANGED <<peer, finalized, incomingDataBuffer, pool, reader, app>>

\* The receive listener enqueues a task if it sees none.
Receive ==
  /\ connected /\ wire # <<>>
  /\ \E n \in 1..Len(wire) :
       /\ incomingDataBuffer' = incomingDataBuffer \o SubSeq(wire, 1, n)
       /\ wire' = SubSeq(wire, n + 1, Len(wire))
  /\ processingIncomingData' = TRUE
  /\ task' = IF processingIncomingData THEN task ELSE "queued"
  /\ UNCHANGED <<count, frag, sent, whole, link, running, reader, app>>

\* A task that finds its client disconnected leaves the flag set.
Task_Start ==
  /\ task = "queued" /\ ~running
  /\ IF connected THEN task' = "inside" /\ running' = TRUE ELSE task' = "none" /\ UNCHANGED running
  /\ UNCHANGED <<peer, link, incomingDataBuffer, processingIncomingData, reader, app>>

\* The flag is cleared behind the reader's last look at the buffer, and without its lock.
Task_End ==
  /\ task = "leaving"
  /\ task' = "none" /\ processingIncomingData' = FALSE
  /\ UNCHANGED <<peer, link, incomingDataBuffer, running, reader, app>>

\* finalizeClient, for the event of the disconnection.
finalizeClient ==
  /\ ~connected /\ ~finalized /\ ~running
  /\ finalized' = TRUE
  /\ webSocketState' = "WS_FINISHED"
  /\ running' = TRUE
  /\ UNCHANGED <<peer, connected, incomingDataBuffer, processingIncomingData, task, size,
                 ws_tempIndex, ws_mask, payload, app>>

-----------------------------------------------------------------------------
(* WebSocketProcess: one action per branch of its switch.                  *)

ws_curr == Head(incomingDataBuffer)

\* The condition of the loop, the branch taken, and the byte it pops.
In(state) ==
  /\ running /\ incomingDataBuffer # <<>>
  /\ webSocketState = state /\ webSocketState # "WS_FINISHED"
  /\ incomingDataBuffer' = Tail(incomingDataBuffer)
  /\ UNCHANGED <<peer, pool>>

Become(state) == webSocketState' = state

\* The fin bit starts a frame.  A buffer left from another frame would close the connection.
ReadPackInfo1 ==
  /\ In("WS_READING_PACK_INFO_1")
  /\ ws_tempIndex' = 0 /\ ws_totalPayload' = 0
  /\ ws_fin' = ws_curr.hi
  /\ IF ws_packPayload # <<>>
       THEN ws_packPayload' = <<>> /\ connected' = FALSE
       ELSE UNCHANGED <<ws_packPayload, connected>>
  /\ Become("WS_READING_PACK_INFO_2")
  /\ UNCHANGED <<finalized, ws_packSize, ws_mask, ws_payload, app>>

\* Faulty variant: the mask bit stays in a size that is a signed char.
Size7bitSigned == ws_curr.lo - 128
Size7bit == ws_curr.lo

\* Faulty variant: off by one.
IsShort126(n) == n <= 126
IsShort(n) == n < 126

\* The state that reads the rest of the size is chosen by ws_packSize,
\* which still has the size of the frame before.
AfterSize ==
  IF IsShort(Size7bit) THEN "WS_READING_MASK_KEY"
  ELSE IF ws_packSize = 126 THEN "WS_READ_16BIT_SIZE"
  ELSE IF ws_packSize = 127 THEN "WS_READ_64BIT_SIZE"
  ELSE "WS_INTERNAL_SERVER_ERROR"

ReadPackInfo2 ==
  /\ In("WS_READING_PACK_INFO_2")
  /\ ws_mask' = [i \in 0..3 |-> NoKey]
  /\ IF ws_curr.hi
       THEN /\ ws_packSize' = IF IsShort(Size7bit) THEN Size7bit ELSE ws_packSize
            /\ ws_tempIndex' = 0
            /\ Become(AfterSize)
       ELSE /\ Become("WS_PAYLOAD_NOT_MASKED")
            /\ UNCHANGED <<ws_packSize, ws_tempIndex>>
  /\ UNCHANGED <<link, ws_fin, payload, app>>

\* The fields of several bytes, and what follows them.
FieldLength == [WS_READ_16BIT_SIZE |-> 2, WS_READ_64BIT_SIZE |-> 4, WS_READING_MASK_KEY |-> 4]
AfterField == [WS_READ_16BIT_SIZE |-> "WS_READING_MASK_KEY",
               WS_READ_64BIT_SIZE |-> "WS_READING_MASK_KEY",
               WS_READING_MASK_KEY |-> "WS_READING_PAYLOAD"]

\* A size of several bytes is taken to be any size.
ReadField ==
  /\ webSocketState \in DOMAIN FieldLength
  /\ In(webSocketState)
  /\ IF webSocketState = "WS_READING_MASK_KEY"
       THEN ws_mask' = [ws_mask EXCEPT ![ws_tempIndex] = ws_curr.key] /\ UNCHANGED ws_packSize
       ELSE ws_packSize' \in 0..127 /\ UNCHANGED ws_mask
  /\ IF ws_tempIndex + 1 = FieldLength[webSocketState]
       THEN ws_tempIndex' = 0 /\ Become(AfterField[webSocketState])
       ELSE ws_tempIndex' = ws_tempIndex + 1 /\ UNCHANGED webSocketState
  /\ UNCHANGED <<link, ws_fin, payload, app>>

\* Faulty variant: the mask is not repeated, its last byte is.
UnmaskedByLast == LET key == ws_mask[IF ws_tempIndex < 4 THEN ws_tempIndex ELSE 3] IN
  IF key # NoKey /\ ws_curr.key = key THEN ws_curr.plain ELSE Garbage

\* A byte is unmasked by the byte that masked it, and by no other.
Unmasked == LET key == ws_mask[ws_tempIndex % 4] IN
  IF key # NoKey /\ ws_curr.key = key THEN ws_curr.plain ELSE Garbage

\* The byte is stored if the frame has room for it, which a frame of size 0 has not.
Fits == ws_tempIndex < ws_packSize

\* Faulty variant: the buffer is filled from its end.
PackFromEnd == IF Fits THEN <<Unmasked>> \o ws_packPayload ELSE ws_packPayload
Pack == IF Fits THEN Append(ws_packPayload, Unmasked) ELSE ws_packPayload
NextIndex == IF Fits THEN ws_tempIndex + 1 ELSE ws_tempIndex

\* Faulty variant: the frame ends when a byte more has come.
FrameCompleteLate == NextIndex > ws_packSize
FrameComplete == NextIndex >= ws_packSize

ReadPayload ==
  /\ In("WS_READING_PAYLOAD") /\ ~FrameComplete
  /\ ws_packPayload' = Pack /\ ws_tempIndex' = NextIndex
  /\ UNCHANGED <<link, webSocketState, size, ws_mask, ws_payload, ws_totalPayload, app>>

EndOfFrame ==
  /\ In("WS_READING_PAYLOAD") /\ FrameComplete
  /\ ws_packPayload' = <<>> /\ ws_tempIndex' = 0
  /\ Become("WS_READING_PACK_INFO_1")
  /\ UNCHANGED <<link, size, ws_mask, told>>

\* The buffer of the fragment is freed, and stays in the list.
EndOfFragment ==
  /\ EndOfFrame /\ ~ws_fin
  /\ ws_payload' = Append(ws_payload, Pack)
  /\ ws_totalPayload' = ws_totalPayload + NextIndex
  /\ UNCHANGED <<delivered, aborted, overrun>>

\* Faulty variant: ws_payload.clear() is forgotten.
EndOfMessageKeepsFragments ==
  /\ EndOfFrame /\ ws_fin
  /\ delivered' = Append(delivered, Pack)
  /\ overrun' = (FlattenSeq(ws_payload) # <<>>)
  /\ ws_payload' = Append(ws_payload, Pack) /\ ws_totalPayload' = 0
  /\ UNCHANGED aborted

\* All fragments are copied into fullPayload, which has room for ws_totalPayload bytes, the size
\* of the last frame.  Of the earlier ones, freed and used again since, any byte may be read; the
\* last one may have lost bytes when an earlier one was freed again.
FromFragments ==
  LET freed == FlattenSeq(ws_payload)
      room == ws_totalPayload + NextIndex
  IN \E fullPayload \in [1..room -> Range(freed) \cup Range(Pack) \cup {Garbage}] :
       /\ freed = <<>> => \A i \in 1..room : fullPayload[i] \in {Pack[i], Garbage}
       /\ delivered' = Append(delivered, fullPayload)
       /\ overrun' = (Len(freed) + Len(Pack) > room)

EndOfMessage ==
  /\ EndOfFrame /\ ws_fin
  /\ IF ws_payload = <<>>
       THEN delivered' = Append(delivered, SubSeq(Pack, 1, ws_totalPayload + NextIndex)) /\ UNCHANGED overrun
       ELSE FromFragments \/ (aborted' = TRUE /\ UNCHANGED <<delivered, overrun>>)
  /\ aborted' \in BOOLEAN
  /\ ws_payload' = <<>> /\ ws_totalPayload' = 0

\* The two errors end the reader when the next byte comes.
FailedState ==
  /\ webSocketState \in {"WS_INTERNAL_SERVER_ERROR", "WS_PAYLOAD_NOT_MASKED"}
  /\ In(webSocketState)
  /\ Become("WS_FINISHED")
  /\ UNCHANGED <<link, size, ws_tempIndex, ws_mask, payload, app>>

\* Behind the loop.
Return ==
  /\ running /\ (incomingDataBuffer = <<>> \/ webSocketState = "WS_FINISHED")
  /\ running' = FALSE
  /\ task' = IF task = "inside" THEN "leaving" ELSE task
  /\ IF webSocketState = "WS_FINISHED"
       THEN told' = told + 1 /\ connected' = FALSE
       ELSE UNCHANGED <<told, connected>>
  /\ UNCHANGED <<peer, finalized, incomingDataBuffer, processingIncomingData, reader, delivered, aborted, overrun>>

WebSocketProcess ==
  \/ ReadPackInfo1 \/ ReadPackInfo2 \/ ReadField \/ ReadPayload
  \/ EndOfFragment \/ EndOfMessage \/ FailedState \/ Return

Closed == finalized /\ ~running

\* Nothing can be said of what follows.
Lost == aborted \/ overrun

Next ==
  \/ /\ ~Lost
     /\ Peer_Send \/ Peer_Close \/ Receive \/ Task_Start \/ Task_End \/ finalizeClient \/ WebSocketProcess
  \/ (Lost \/ Closed) /\ UNCHANGED vars

Spec == Init /\ [][Next]_vars

\* The network delivers what was sent, and the threads run.  Peers need not send or close.
Fairness ==
  /\ WF_vars(~Lost /\ Receive)
  /\ WF_vars(~Lost /\ Task_Start)
  /\ WF_vars(~Lost /\ Task_End)
  /\ WF_vars(~Lost /\ finalizeClient)
  /\ WF_vars(~Lost /\ WebSocketProcess)

-----------------------------------------------------------------------------
(* Properties.                                                             *)

TypeOK ==
  /\ count \in 0..MaxFrames
  /\ connected \in BOOLEAN /\ finalized \in BOOLEAN /\ running \in BOOLEAN
  /\ processingIncomingData \in BOOLEAN /\ task \in {"none", "queued", "inside", "leaving"}
  /\ \A i \in DOMAIN incomingDataBuffer : incomingDataBuffer[i].lo \in 0..127
  /\ webSocketState \in WebSocketStates
  /\ ws_fin \in BOOLEAN /\ ws_packSize \in 0..127 /\ ws_tempIndex \in Nat /\ ws_totalPayload \in Nat
  /\ DOMAIN ws_mask = 0..3
  /\ told \in Nat /\ aborted \in BOOLEAN /\ overrun \in BOOLEAN /\ whole \in BOOLEAN

\* No frame gets as far as the longer sizes: the test for them looks at the size of the
\* frame before, and no frame ever got a size of 126 or more.
ExtendedLengthUnreachable ==
  /\ ws_packSize < 126
  /\ webSocketState \notin {"WS_READ_16BIT_SIZE", "WS_READ_64BIT_SIZE"}

\* Whatever the peer sends and however it is cut up, ws_tempIndex stays inside the array it
\* indexes, ws_packPayload has ws_tempIndex bytes, and it is gone when the next frame begins.
\* fullPayload is overrun too, unless every frame was a masked message of 1 to 125 bytes.
IndexInBounds ==
  /\ webSocketState \in DOMAIN FieldLength => ws_tempIndex < FieldLength[webSocketState]
  /\ ws_packPayload # <<>> =>
       /\ webSocketState \in {"WS_READING_PAYLOAD", "WS_FINISHED"}
       /\ Len(ws_packPayload) = ws_tempIndex /\ ws_tempIndex < ws_packSize
  /\ whole => ~overrun

\* The peer sent byte x of a payload before byte y.
Before(x, y) == x[1] < y[1] \/ (x[1] = y[1] /\ x[2] < y[2])

\* The messages but one that was put together from fragments with bytes in them.
Unspoiled == {n \in DOMAIN delivered : overrun => n < Len(delivered)}

\* Until a message has fragments with bytes in them, bytes of payload that reach the application
\* reach it at most once and in the order in which the peer sent them, in whole messages and
\* broken ones alike.
BytesInOrder ==
  \A m, n \in Unspoiled : \A i \in DOMAIN delivered[m], j \in DOMAIN delivered[n] :
    /\ m < n \/ (m = n /\ i < j)
    /\ delivered[m][i] # Garbage /\ delivered[n][j] # Garbage
    => Before(delivered[m][i], delivered[n][j])

\* To a peer that sends whole messages the reader is a stream of messages.
Stream == INSTANCE MessageStream
StreamSpec == Stream!Spec

\* Bytes wait and nobody will look at them: they came behind the last look of a task that had not
\* yet cleared the flag.
Waiting == task = "none" /\ ~running /\ incomingDataBuffer # <<>> /\ wire = <<>>

\* Nothing moves: all that was sent is read.
Quiet == task = "none" /\ ~running /\ connected /\ wire = <<>> /\ incomingDataBuffer = <<>>

\* What the comment in the branch for it says: an internal error never happens.
NoInternalError == webSocketState # "WS_INTERNAL_SERVER_ERROR"

\* What the comment at the loop over the fragments says: the data of all frames of a
\* message goes to the application.
WholeMessages ==
  \A n \in DOMAIN delivered : n \in DOMAIN sent /\ Len(delivered[n]) = Len(sent[n])

\* What the comment on the size says: a value below 126 is the size, so
\* that a message is complete with its last byte.
CompleteWithItsLastByte == Quiet => Len(delivered) = Len(sent)

\* What the comment on the mask says: after an unmasked frame the connection is closed.
UnmaskedIsClosed == Quiet => webSocketState # "WS_PAYLOAD_NOT_MASKED"
===============================================================================
