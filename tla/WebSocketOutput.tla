---------------------------- MODULE WebSocketOutput ----------------------------
(***************************************************************************)
(* What the server sends on connections that become websockets: the answer *)
(* to the request for it, sent by a worker, and the frames that threads of *)
(* the application send with sendWebSocketData and broadcastWebSocker.     *)
(*                                                                         *)
(* Every call of sendData or sendString is a step and a piece on the wire. *)
(***************************************************************************)
EXTENDS Integers, Sequences, FiniteSets

CONSTANTS
  Clients,
  Senders,    \* threads of the application
  Resources,  \* the resources websockets are opened on
  Sizes,      \* sizes of payloads
  MaxFrames,  \* bound on the calls of each sender
  None        \* no client

\* The largest int.
MaxInt == 2147483647

OutputAssumption ==
  MaxFrames \in Nat /\ Sizes \subseteq 0..MaxInt /\ None \notin Clients

\* The sends of SEND_RESPONSE for a handshake: the first line, and the headers with the
\* empty line, one after the other; the content is empty.
Handshake == <<"first line", "headers">>

VARIABLES
  connected,      \* connected[c]
  resource,       \* resource[c]: of the request of c
  webSocketOpen,  \* webSocketOpen[c]
  answered,       \* answered[c]: the sends of its handshake that were made
  wire,           \* wire[c]: the pieces sent to c
  calls,          \* calls[t]: the calls of sender t
  size,           \* size[t]: of the payload of its last call
  todo,           \* todo[t]: the clients that call has not been through with
  at,             \* at[t]: the client that has got the header but not the payload
  sentTo,         \* history: sentTo[t]: the clients the call is for
  mixed           \* history: mixed[c]: a frame was begun inside another or inside the handshake

vars == <<connected, resource, webSocketOpen, answered, wire, calls, size, todo, at, sentTo, mixed>>

Init ==
  /\ connected = [c \in Clients |-> TRUE]
  /\ resource \in [Clients -> Resources]
  /\ webSocketOpen = [c \in Clients |-> FALSE]
  /\ answered = [c \in Clients |-> 0]
  /\ wire = [c \in Clients |-> <<>>]
  /\ calls = [t \in Senders |-> 0]
  /\ size = [t \in Senders |-> 0]
  /\ todo = [t \in Senders |-> {}]
  /\ at = [t \in Senders |-> None]
  /\ sentTo = [t \in Senders |-> {}]
  /\ mixed = [c \in Clients |-> FALSE]

\* What is sent to a client that is gone gets nowhere.
Send(c, piece) == wire' = [wire EXCEPT ![c] = IF connected[c] THEN Append(@, piece) ELSE @]

-----------------------------------------------------------------------------
(* The worker that answers the request for the protocol. *)

\* CHECK_PROTOCOL_CHANGE; nothing has been sent yet.
CheckProtocolChange(c) ==
  /\ ~webSocketOpen[c]
  /\ webSocketOpen' = [webSocketOpen EXCEPT ![c] = TRUE]
  /\ UNCHANGED <<connected, resource, answered, wire, calls, size, todo, at, sentTo, mixed>>

SendResponse(c) ==
  /\ webSocketOpen[c] /\ answered[c] < Len(Handshake)
  /\ Send(c, [kind |-> Handshake[answered[c] + 1]])
  /\ answered' = [answered EXCEPT ![c] = @ + 1]
  /\ UNCHANGED <<connected, resource, webSocketOpen, calls, size, todo, at, sentTo, mixed>>

Disconnect(c) ==
  /\ connected[c]
  /\ connected' = [connected EXCEPT ![c] = FALSE]
  /\ UNCHANGED <<resource, webSocketOpen, answered, wire, calls, size, todo, at, sentTo, mixed>>

-----------------------------------------------------------------------------
(* The header of a frame. *)

\* Byte k of n, counted from the lowest; an int has four.
Byte(n, k) == IF k > 3 THEN 0 ELSE (n \div <<1, 256, 65536, 16777216>>[k + 1]) % 256

\* Faulty variant: 126 is taken for a short size.
Header_126(n) ==
  IF n <= 126 THEN <<n>> ELSE IF n < 65536 THEN <<126, Byte(n, 1), Byte(n, 0)>>
  ELSE <<127>> \o [i \in 1..8 |-> Byte(n, 8 - i)]

\* headerBuffer from its second byte on.
Header(n) ==
  IF n < 126 THEN <<n>> ELSE IF n < 65536 THEN <<126, Byte(n, 1), Byte(n, 0)>>
  ELSE <<127>> \o [i \in 1..8 |-> Byte(n, 8 - i)]

Idle(t) == todo[t] = {}

Begin(t, cs) ==
  /\ Idle(t) /\ calls[t] < MaxFrames
  /\ calls' = [calls EXCEPT ![t] = @ + 1]
  /\ size' \in {[size EXCEPT ![t] = n] : n \in Sizes}
  /\ todo' = [todo EXCEPT ![t] = cs]
  /\ sentTo' = [sentTo EXCEPT ![t] = cs]
  /\ UNCHANGED <<connected, resource, webSocketOpen, answered, wire, at, mixed>>

\* The application answers on a websocket it was told of.
sendWebSocketData(t, c) == answered[c] = Len(Handshake) /\ Begin(t, {c})

\* The clients a broadcast is for: it collects them with the mutex held.
OpenOn(r) == {c \in Clients : webSocketOpen[c] /\ (r = "*" \/ resource[c] = r)}

broadcastWebSocker(t, r) == Begin(t, OpenOn(r))

Busy(c) == answered[c] < Len(Handshake) \/ \E t \in Senders : at[t] = c

\* cli->sendData(headerBuffer, headerSize)
SendHeader(t) ==
  /\ at[t] = None
  /\ \E c \in todo[t] :
       /\ Send(c, [kind |-> "header", frame |-> <<t, calls[t]>>, bytes |-> Header(size[t])])
       /\ at' = [at EXCEPT ![t] = c]
       /\ mixed' = [mixed EXCEPT ![c] = @ \/ Busy(c)]
  /\ UNCHANGED <<connected, resource, webSocketOpen, answered, calls, size, todo, sentTo>>

\* cli->sendData(data, size)
SendPayload(t) ==
  /\ at[t] # None
  /\ Send(at[t], [kind |-> "payload", frame |-> <<t, calls[t]>>, size |-> size[t]])
  /\ at' = [at EXCEPT ![t] = None]
  /\ todo' = [todo EXCEPT ![t] = @ \ {at[t]}]
  /\ UNCHANGED <<connected, resource, webSocketOpen, answered, calls, size, sentTo, mixed>>

Worker(c) == CheckProtocolChange(c) \/ SendResponse(c)

Sender(t) ==
  \/ \E c \in Clients : sendWebSocketData(t, c)
  \/ \E r \in Resources \cup {"*"} : broadcastWebSocker(t, r)
  \/ SendHeader(t) \/ SendPayload(t)

\* Everybody is gone, and nothing is being sent.
Over ==
  /\ \A c \in Clients : answered[c] = Len(Handshake) /\ ~connected[c]
  /\ \A t \in Senders : Idle(t)
  /\ UNCHANGED vars

Next ==
  \/ \E c \in Clients : Worker(c) \/ Disconnect(c)
  \/ \E t \in Senders : Sender(t)
  \/ Over

Spec == Init /\ [][Next]_vars

-----------------------------------------------------------------------------
(* What a client makes of the pieces, after RFC 6455. *)

\* The size a header announces.
Decode(h) ==
  CASE h[1] < 126 -> h[1]
    [] h[1] = 126 -> h[2] * 256 + h[3]
    [] h[1] = 127 -> h[6] * 16777216 + h[7] * 65536 + h[8] * 256 + h[9]

\* Its length: no byte too many and none too few.
LengthOf(h) == CASE h[1] < 126 -> 1 [] h[1] = 126 -> 3 [] h[1] = 127 -> 9

\* The handshake, then headers each with the payload it announces.
Readable(w) ==
  \A i \in DOMAIN w :
    IF i <= Len(Handshake) THEN w[i].kind = Handshake[i]
    ELSE IF (i - Len(Handshake)) % 2 = 1 THEN w[i].kind = "header" /\ Len(w[i].bytes) = LengthOf(w[i].bytes)
    ELSE /\ w[i].kind = "payload" /\ w[i].frame = w[i - 1].frame
         /\ w[i].size = Decode(w[i - 1].bytes)

Piece ==
  [kind : {Handshake[i] : i \in DOMAIN Handshake}]
  \cup [kind : {"header"}, frame : Senders \X (1..MaxFrames), bytes : Seq(0..255)]
  \cup [kind : {"payload"}, frame : Senders \X (1..MaxFrames), size : Sizes]

TypeOK ==
  /\ connected \in [Clients -> BOOLEAN] /\ webSocketOpen \in [Clients -> BOOLEAN]
  /\ mixed \in [Clients -> BOOLEAN]
  /\ resource \in [Clients -> Resources]
  /\ answered \in [Clients -> 0..Len(Handshake)]
  /\ wire \in [Clients -> Seq(Piece)]
  /\ calls \in [Senders -> 0..MaxFrames] /\ size \in [Senders -> Sizes \cup {0}]
  /\ todo \in [Senders -> SUBSET Clients] /\ sentTo \in [Senders -> SUBSET Clients]
  /\ at \in [Senders -> Clients \cup {None}]

\* A client can read what it gets, handshake first and frames whole and of the announced
\* size, unless a frame was begun inside another thread's frame or inside the handshake.
FramesWhole == \A c \in Clients : ~mixed[c] => Readable(wire[c])

\* How often a frame was begun on a connection.
Copies(c, frame) ==
  Cardinality({i \in DOMAIN wire[c] : wire[c][i].kind = "header" /\ wire[c][i].frame = frame})

\* A finished call has given its frame once to every client that it was for and that is
\* still connected, and to nobody else.
ReachesEachOnce ==
  \A t \in Senders : Idle(t) =>
    \A c \in Clients :
      IF c \in sentTo[t] THEN connected[c] => Copies(c, <<t, calls[t]>>) = 1
                         ELSE Copies(c, <<t, calls[t]>>) = 0

\* Nothing but websockets gets frames, whichever sessions a broadcast walks through.
OnlyWebSockets ==
  \A c \in Clients : wire[c] # <<>> => webSocketOpen[c]
===============================================================================
