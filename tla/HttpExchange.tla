----------------------------- MODULE HttpExchange -----------------------------
(***************************************************************************)
(* KWTinyWebServer::dataReceivedFrom and endHttpRequest on one connection, *)
(* with its client, the application and the network: how requests are read *)
(* and answered, by one task at a time (several are in ClientSessions).    *)
(*                                                                         *)
(* What is sent is cut into tokens: a verb with its space, the rest of the *)
(* first line, a header line, the empty line, a byte of the body.  As in   *)
(* the code nothing happens before a token is complete.  A token is a      *)
(* record of its kind, the number n in it and the request it belongs to.   *)
(***************************************************************************)
EXTENDS Integers, Sequences

CONSTANTS
  Requests,    \* the requests the client may send: sequences of [kind, n]
  MaxRequests, \* bound on their number
  Pipelines,   \* TRUE: the client need not wait for an answer before it sends again
  UIntRange,   \* how many values an unsigned int has: 2^32 in the code
  VerbLimit,   \* longer than this no verb may be: 30 in the code
  Answers      \* what the application may make of dataToSend: [status, type, length]

\* The header lines the session is set from, and all kinds of tokens.
Headers == {"length", "keepAlive", "close", "toUpgrade", "upgrade", "key"}
Kinds == {"verb", "badVerb", "line", "badVersion", "badLine", "blank", "byte"} \cup Headers

ASSUME ExchangeAssumption ==
  /\ Requests \subseteq Seq([kind : Kinds, n : Int])
  /\ MaxRequests \in Nat /\ UIntRange \in Nat \ {0} /\ VerbLimit \in Nat /\ Pipelines \in BOOLEAN
  /\ Answers \subseteq [status : Nat, type : BOOLEAN, length : Nat]

VARIABLES
  net,              \* tokens on their way
  buffer,           \* incomingDataBuffer
  processingIncomingData, \* the session has a task, as the listener sees it
  task,             \* the task: not there, not yet taken, inside dataReceivedFrom or back
  connected,        \* isConnected
  state,            \* States
  bufferStr,        \* what stray tokens left in bufferStr: [size, valid], valid as a verb
  receivedData,     \* the request read so far
  connection,       \* the field of that name
  upgrade,          \* the field of that name is WEBSOCKET
  ignoreKeepAlive,
  webSocketOpen,
  dataToSend,       \* the answer: [status, type, length]
  asked,            \* history: the number of requests sent
  answers,          \* history: the answers sent
  dropped           \* history: a keep-alive has thrown bytes away

session == <<state, bufferStr, receivedData, connection, upgrade, ignoreKeepAlive,
             webSocketOpen, dataToSend>>
history == <<asked, answers, dropped>>
pool == <<processingIncomingData, task>>
vars == <<net, buffer, pool, connected, session, history>>

Errors == {"ERROR_400_BADREQUEST", "ERROR_500_INTERNALSERVERERROR", "ERROR_501_NOT_IMPLEMENTED"}
Reading == {"READING_VERB", "AWAIT_REMAIN_OF_HTTP_FIRST_LINE", "READING_HEADER", "AWAIT_CONTENT"}

\* What three of the headers set connection to.
Connection == [keepAlive |-> "KEEP-ALIVE", close |-> "CLOSE", toUpgrade |-> "UPGRADE"]

\* from: the requests its tokens are of; size: the bytes of contentBody; read:
\* currentContentLength; status: httpStatus.
NoRequest == [from |-> {}, key |-> FALSE, contentLength |-> 0, size |-> 0, read |-> 0, status |-> 0]
NoAnswer == [status |-> 0, type |-> FALSE, length |-> 0]
NoText == [size |-> 0, valid |-> TRUE]

Init ==
  /\ net = <<>> /\ buffer = <<>> /\ connected = TRUE
  /\ processingIncomingData = FALSE /\ task = "none"
  /\ state = "READING_VERB" /\ bufferStr = NoText
  /\ receivedData = NoRequest
  /\ connection = "KEEP-ALIVE" /\ upgrade = FALSE
  /\ ignoreKeepAlive = FALSE /\ webSocketOpen = FALSE
  /\ dataToSend = NoAnswer
  /\ asked = 0 /\ answers = <<>> /\ dropped = FALSE

-----------------------------------------------------------------------------
(* The client and the network. *)

Client_Send ==
  /\ connected /\ asked < MaxRequests
  /\ Pipelines \/ (Len(answers) = asked /\ ~webSocketOpen)
  /\ asked' = asked + 1
  /\ \E r \in Requests :
       net' = net \o [i \in 1..Len(r) |-> [kind |-> r[i].kind, n |-> r[i].n, req |-> asked + 1]]
  /\ UNCHANGED <<buffer, pool, connected, session, answers, dropped>>

Client_Close ==
  /\ connected
  /\ connected' = FALSE
  /\ UNCHANGED <<net, buffer, pool, session, history>>

\* Some of the tokens arrive; the listener enqueues a task if it sees none.
Receive ==
  /\ connected /\ ~webSocketOpen
  /\ \E n \in 1..Len(net) :
       /\ buffer' = buffer \o SubSeq(net, 1, n)
       /\ net' = SubSeq(net, n + 1, Len(net))
  /\ processingIncomingData' = TRUE
  /\ task' = IF processingIncomingData THEN task ELSE "queued"
  /\ UNCHANGED <<connected, session, history>>

\* A task that finds its client disconnected leaves the flag set.
Task_Start ==
  /\ task = "queued"
  /\ task' = IF connected THEN "inside" ELSE "none"
  /\ UNCHANGED <<net, buffer, processingIncomingData, connected, session, history>>

\* The flag is cleared behind the task's last look at the buffer, and without its lock.
Task_End ==
  /\ task = "leaving"
  /\ task' = "none" /\ processingIncomingData' = FALSE
  /\ UNCHANGED <<net, buffer, connected, session, history>>

-----------------------------------------------------------------------------
(* The first loop: reading. *)

Reads(s, kinds) ==
  /\ task = "inside" /\ state = s /\ buffer # <<>>
  /\ Head(buffer).kind \in kinds
  /\ buffer' = Tail(buffer)
  /\ UNCHANGED <<net, pool, connected, history>>

\* A token of the request is taken.
Taken(r) == [r EXCEPT !.from = @ \cup {Head(buffer).req}]

Reject(error) ==
  /\ receivedData' = Taken(receivedData)
  /\ state' = error /\ ignoreKeepAlive' = TRUE

\* The characters of a token before a space: of a method three, or as many as make none.
Characters(kind) == CASE kind = "byte" -> 1 [] kind = "blank" -> 2 [] OTHER -> 3

\* A character that is not a space finds too many others.
TooLong == bufferStr.size + Characters(Head(buffer).kind) - 1 > VerbLimit

\* A method made of the right characters.
ReadVerb ==
  /\ Reads("READING_VERB", {"verb"})
  /\ bufferStr.valid /\ ~TooLong
  /\ receivedData' = Taken(receivedData)
  /\ bufferStr' = NoText /\ state' = "AWAIT_REMAIN_OF_HTTP_FIRST_LINE"
  /\ UNCHANGED <<connection, upgrade, ignoreKeepAlive, webSocketOpen, dataToSend>>

\* Anything else before a space: wrong characters, or what is left of a request that lost its
\* beginning; and, without a space, too many characters.
ReadVerb_Reject ==
  /\ \/ Reads("READING_VERB", {"badVerb", "line", "badVersion", "badLine"} \cup Headers)
     \/ Reads("READING_VERB", {"verb"}) /\ ~bufferStr.valid
     \/ Reads("READING_VERB", {"verb", "blank", "byte"}) /\ TooLong
  /\ Reject("ERROR_400_BADREQUEST")
  /\ UNCHANGED <<bufferStr, connection, upgrade, webSocketOpen, dataToSend>>

\* What has no space is kept until one comes.
ReadVerb_Stray ==
  /\ Reads("READING_VERB", {"blank", "byte"}) /\ ~TooLong
  /\ bufferStr' = [size |-> bufferStr.size + Characters(Head(buffer).kind),
                   valid |-> bufferStr.valid /\ Head(buffer).kind = "byte"]
  /\ UNCHANGED <<state, receivedData, connection, upgrade, ignoreKeepAlive, webSocketOpen,
                 dataToSend>>

ReadFirstLine ==
  /\ Reads("AWAIT_REMAIN_OF_HTTP_FIRST_LINE", {"line"})
  /\ receivedData' = [Taken(receivedData) EXCEPT !.contentLength = 0]
  /\ state' = "READING_HEADER"
  /\ UNCHANGED <<bufferStr, connection, upgrade, ignoreKeepAlive, webSocketOpen, dataToSend>>

\* A version other than HTTP/1.1, or not even two parts.
ReadFirstLine_Reject ==
  /\ Reads("AWAIT_REMAIN_OF_HTTP_FIRST_LINE", {"badVersion", "badLine"})
  /\ Reject(IF Head(buffer).kind = "badVersion" THEN "ERROR_501_NOT_IMPLEMENTED"
                                                 ELSE "ERROR_500_INTERNALSERVERERROR")
  /\ UNCHANGED <<bufferStr, connection, upgrade, webSocketOpen, dataToSend>>

\* The headers a field of the session or of the request is set from; atoi gives an int,
\* contentLength is unsigned.
ReadHeader ==
  /\ Reads("READING_HEADER", Headers)
  /\ LET h == Head(buffer) IN
       /\ receivedData' = [Taken(receivedData) EXCEPT
            !.contentLength = IF h.kind = "length" THEN h.n % UIntRange ELSE @,
            !.key = @ \/ h.kind = "key"]
       /\ connection' = IF h.kind \in DOMAIN Connection THEN Connection[h.kind] ELSE connection
       /\ upgrade' = (upgrade \/ h.kind = "upgrade")
  /\ UNCHANGED <<state, bufferStr, ignoreKeepAlive, webSocketOpen, dataToSend>>

\* The size of contentBody, computed in unsigned ints; faulty variants: without
\* room for the 0, and computed in a wider type.
BodySizeExact(n) == n
BodySizeWide(n) == n + 1

BodySize(n) == (n + 1) % UIntRange

\* The empty line.  The last byte of contentBody is set to 0.
ReadHeader_End ==
  /\ Reads("READING_HEADER", {"blank"})
  /\ IF receivedData.contentLength = 0
       THEN /\ receivedData' = Taken(receivedData)
            /\ state' = "SEND_REQUEST_TO_APP"
       ELSE /\ receivedData' = [Taken(receivedData) EXCEPT
                 !.size = BodySize(receivedData.contentLength),
                 !.read = 0]
            /\ state' = "AWAIT_CONTENT"
  /\ UNCHANGED <<bufferStr, connection, upgrade, ignoreKeepAlive, webSocketOpen, dataToSend>>

\* Faulty variant: one byte more is awaited.
ReadContent_Late ==
  /\ Reads("AWAIT_CONTENT", {"byte"})
  /\ receivedData' = [Taken(receivedData) EXCEPT !.read = (@ + 1) % UIntRange]
  /\ state' = IF receivedData.read = receivedData.contentLength THEN "SEND_REQUEST_TO_APP" ELSE state
  /\ UNCHANGED <<bufferStr, connection, upgrade, ignoreKeepAlive, webSocketOpen, dataToSend>>

\* A byte of the body is written at contentBody[currentContentLength++].
ReadContent ==
  /\ Reads("AWAIT_CONTENT", {"byte"})
  /\ receivedData' = [Taken(receivedData) EXCEPT !.read = (@ + 1) % UIntRange]
  /\ state' = IF receivedData'.read = receivedData.contentLength THEN "SEND_REQUEST_TO_APP" ELSE state
  /\ UNCHANGED <<bufferStr, connection, upgrade, ignoreKeepAlive, webSocketOpen, dataToSend>>

\* dataReceivedFrom is left, and its task on its way back.
Leaves == task' = "leaving" /\ UNCHANGED processingIncomingData

\* The buffer is empty before the request is complete.
Return_Incomplete ==
  /\ task = "inside" /\ buffer = <<>> /\ state \in Reading
  /\ Leaves
  /\ UNCHANGED <<net, buffer, connected, session, history>>

Read ==
  \/ ReadVerb \/ ReadVerb_Reject \/ ReadVerb_Stray
  \/ ReadFirstLine \/ ReadFirstLine_Reject
  \/ ReadHeader \/ ReadHeader_End \/ ReadContent
  \/ Return_Incomplete

-----------------------------------------------------------------------------
(* The second loop: answering. *)

Works(s) == task = "inside" /\ state = s

\* A request that asks for the websocket protocol has status 101, in receivedData and in
\* dataToSend.
IsUpgrade == connection = "UPGRADE" /\ upgrade

\* dataToSend after the application was called with it.
Answered(a) == [a EXCEPT !.status = IF @ = 0 /\ IsUpgrade THEN 101 ELSE @]

\* Nothing was set: not found.
NotFound(a) == a.status = 0 /\ ~a.type

SendRequestToApp ==
  /\ Works("SEND_REQUEST_TO_APP")
  /\ \E a \in Answers \cup {NoAnswer} :
       /\ IF NotFound(Answered(a))
            THEN /\ dataToSend' = [a EXCEPT !.status = 404, !.length = 0]
                 /\ ignoreKeepAlive' = TRUE
            ELSE /\ dataToSend' = Answered(a)
                 /\ UNCHANGED ignoreKeepAlive
  /\ receivedData' = [receivedData EXCEPT !.status = IF IsUpgrade THEN 101 ELSE @]
  /\ state' = "CHECK_PROTOCOL_CHANGE"
  /\ UNCHANGED <<net, buffer, pool, connected, bufferStr, connection, upgrade,
                 webSocketOpen, asked, answers, dropped>>

CheckProtocolChange ==
  /\ Works("CHECK_PROTOCOL_CHANGE")
  /\ IF receivedData.status = 101
       THEN /\ dataToSend' = [dataToSend EXCEPT !.length = 0,
                                                !.status = IF receivedData.key THEN 101 ELSE @]
            /\ webSocketOpen' = receivedData.key
            /\ state' = IF receivedData.key THEN "SEND_RESPONSE" ELSE "ERROR_400_BADREQUEST"
       ELSE /\ state' = "SEND_RESPONSE"
            /\ UNCHANGED <<dataToSend, webSocketOpen>>
  /\ UNCHANGED <<net, buffer, pool, connected, bufferStr, receivedData, connection, upgrade,
                 ignoreKeepAlive, history>>

\* The status of an answer whose status nobody set.
FinalStatus(a) ==
  IF a.status # 0 THEN a.status ELSE IF a.length = 0 THEN 204 ELSE 200

\* An answer on its way: for which request, whether that asked for the connection to be
\* closed, and whether the empty line that ends its headers was sent.
Sent(status, length, ended) ==
  [to |-> receivedData.from, last |-> connection = "CLOSE" \/ ignoreKeepAlive,
   status |-> status, length |-> length, ended |-> ended]

SendResponse ==
  /\ Works("SEND_RESPONSE") /\ connected
  /\ answers' = Append(answers, Sent(FinalStatus(dataToSend), dataToSend.length, TRUE))
  /\ dataToSend' = [dataToSend EXCEPT !.status = FinalStatus(dataToSend), !.length = 0]
  /\ state' = "FINISH_REQUEST"
  /\ UNCHANGED <<net, buffer, pool, connected, bufferStr, receivedData, connection, upgrade,
                 ignoreKeepAlive, webSocketOpen, asked, dropped>>

FinishRequest ==
  /\ Works("FINISH_REQUEST")
  /\ state' = "FINISHED"
  /\ UNCHANGED <<net, buffer, pool, connected, bufferStr, receivedData, connection, upgrade,
                 ignoreKeepAlive, webSocketOpen, dataToSend, history>>

\* A status line and the name of the server, not followed by an empty line.
SendError ==
  /\ task = "inside" /\ state \in Errors
  /\ answers' = Append(answers, Sent(
       CASE state = "ERROR_400_BADREQUEST" -> 400
         [] state = "ERROR_500_INTERNALSERVERERROR" -> 500
         [] state = "ERROR_501_NOT_IMPLEMENTED" -> 501, 0, FALSE))
  /\ state' = "FINISHED"
  /\ UNCHANGED <<net, buffer, pool, connected, bufferStr, receivedData, connection, upgrade,
                 ignoreKeepAlive, webSocketOpen, dataToSend, asked, dropped>>

-----------------------------------------------------------------------------
(* endHttpRequest, also when the client is found gone before anything was sent. *)

Ending ==
  \/ Works("FINISHED")
  \/ Works("SEND_RESPONSE") /\ ~connected

\* Faulty variant: ignoreKeepAlive is not looked at.
isToKeepAliveAnyhow == connection # "CLOSE"

isToKeepAlive == connection # "CLOSE" /\ ~ignoreKeepAlive

endHttpRequest_WebSocket ==
  /\ Ending /\ webSocketOpen
  /\ state' = "FINISHED" /\ Leaves
  /\ UNCHANGED <<net, buffer, connected, bufferStr, receivedData, connection, upgrade,
                 ignoreKeepAlive, webSocketOpen, dataToSend, history>>

\* Faulty variant: the session is used again and its request not cleared.
endHttpRequest_KeepAliveReuses ==
  /\ Ending /\ ~webSocketOpen /\ isToKeepAlive
  /\ Leaves
  /\ state' = "READING_VERB" /\ bufferStr' = NoText
  /\ UNCHANGED <<net, buffer, connected, receivedData, connection, upgrade, ignoreKeepAlive,
                 webSocketOpen, dataToSend, history>>

\* A new session, whose buffer is empty and which has no task: the flag the task clears behind
\* this is the one of the old session.
endHttpRequest_KeepAlive ==
  /\ Ending /\ ~webSocketOpen /\ isToKeepAlive
  /\ buffer' = <<>> /\ dropped' = (dropped \/ buffer # <<>>)
  /\ task' = "none" /\ processingIncomingData' = FALSE
  /\ state' = "READING_VERB" /\ bufferStr' = NoText
  /\ receivedData' = NoRequest /\ dataToSend' = NoAnswer
  /\ connection' = "KEEP-ALIVE" /\ upgrade' = FALSE
  /\ UNCHANGED <<net, connected, ignoreKeepAlive, webSocketOpen, asked, answers>>

endHttpRequest_Close ==
  /\ Ending /\ ~webSocketOpen /\ ~isToKeepAlive
  /\ state' = "FINISHED" /\ Leaves /\ connected' = FALSE
  /\ UNCHANGED <<net, buffer, bufferStr, receivedData, connection, upgrade, ignoreKeepAlive,
                 webSocketOpen, dataToSend, history>>

Answering ==
  \/ SendRequestToApp \/ CheckProtocolChange \/ SendResponse \/ FinishRequest \/ SendError
  \/ endHttpRequest_WebSocket \/ endHttpRequest_KeepAlive \/ endHttpRequest_Close

dataReceivedFrom == Read \/ Answering

\* Nothing more happens: the connection is over or a websocket's, or the client has sent
\* all it will.
Over ==
  /\ task # "inside" /\ (~connected \/ webSocketOpen \/ net = <<>>)
  /\ UNCHANGED vars

Next == Client_Send \/ Client_Close \/ Receive \/ Task_Start \/ Task_End \/ dataReceivedFrom \/ Over

Spec == Init /\ [][Next]_vars

\* What was sent arrives, and the scheduler runs the thread.  The client need not do anything.
Fairness ==
  WF_vars(Receive) /\ WF_vars(Task_Start) /\ WF_vars(Task_End) /\ WF_vars(dataReceivedFrom)

-----------------------------------------------------------------------------
(* What the proofs about the order of the answers take for granted of the client. *)

\* The length that the headers among the first p tokens of a request declare: the last one
\* counts.
Declared(r, p) ==
  LET given == {i \in 1..p : r[i].kind = "length"} IN
  IF given = {} THEN 0 ELSE r[CHOOSE i \in given : \A j \in given : j <= i].n % UIntRange

\* The empty line of r is token h, and there are as many bytes behind it as r declares.
Shape(r, h) ==
  /\ h \in 3..Len(r)
  /\ r[1].kind = "verb" /\ r[2].kind = "line" /\ r[h].kind = "blank"
  /\ \A i \in 3..(h - 1) : r[i].kind \in Headers
  /\ \A i \in (h + 1)..Len(r) : r[i].kind = "byte"
  /\ Len(r) - h = Declared(r, h)

\* A request as it should be, or one that is refused at its first line.
Complete(r) ==
  /\ r # <<>> /\ \A i \in 2..Len(r) : r[i].kind # "verb"
  /\ \/ r[1].kind = "badVerb"
     \/ r[1].kind = "verb" /\ Len(r) > 1 /\ r[2].kind \in {"badVersion", "badLine"}
     \/ \E h \in 3..Len(r) : Shape(r, h)

CompleteRequests == \A r \in Requests : Complete(r)

-----------------------------------------------------------------------------
\* A token of one of the requests sent.
Token == [kind : Kinds, n : Int, req : 1..asked]

UInt == 0..(UIntRange - 1)

Received == [from : SUBSET (1..asked), key : BOOLEAN, contentLength : UInt, size : UInt, read : UInt,
             status : {0, 101}]

TypeOK ==
  /\ net \in Seq(Token) /\ buffer \in Seq(Token)
  /\ processingIncomingData \in BOOLEAN /\ task \in {"none", "queued", "inside", "leaving"}
  /\ connected \in BOOLEAN
  /\ state \in Reading \cup Errors \cup
       {"SEND_REQUEST_TO_APP", "CHECK_PROTOCOL_CHANGE", "SEND_RESPONSE", "FINISH_REQUEST", "FINISHED"}
  /\ bufferStr \in [size : 0..(VerbLimit + 1), valid : BOOLEAN]
  /\ receivedData \in Received
  /\ connection \in {"CLOSE", "UPGRADE", "KEEP-ALIVE"}
  /\ upgrade \in BOOLEAN /\ ignoreKeepAlive \in BOOLEAN /\ webSocketOpen \in BOOLEAN
  /\ dataToSend \in [status : Nat, type : BOOLEAN, length : Nat]
  /\ asked \in 0..MaxRequests /\ dropped \in BOOLEAN

\* The bytes of a body, and the 0 behind them, are written inside contentBody, whatever
\* Content-Length says: except for the one value whose successor is 0 in an unsigned int.
BodyInBounds ==
  state = "AWAIT_CONTENT" =>
    /\ receivedData.read < receivedData.contentLength
    /\ \/ receivedData.contentLength < receivedData.size
       \/ receivedData.contentLength = UIntRange - 1

\* Which request the n-th answer was for; 0 when it was for none or for a mixture.
AnswerTo(n) == IF answers[n].to = {n} THEN n ELSE 0

Promise == INSTANCE RequestResponse WITH
  asked <- asked, answers <- [n \in 1..Len(answers) |-> AnswerTo(n)], open <- connected

\* Nothing is sent after the answer to a request that asked for the connection to be closed,
\* or after a rejection or a 404.
NothingAfterLast == \A n \in 1..Len(answers) : answers[n].last => n = Len(answers)

\* An answer that lacks the empty line is the last of its connection, so that no client
\* takes the next one for more of its headers: except the 400 that a request for a
\* websocket gets when it has no key.
UnendedIsLast ==
  \A n \in 1..(Len(answers) - 1) : ~answers[n].ended => answers[n].status = 400 /\ ~answers[n].last

\* The last answer of a connection is its last, and only the last may lack the empty line
\* that a client looks for.
AnswersEnd == NothingAfterLast /\ UnendedIsLast

\* Tokens wait and nobody will look at them: they came behind the last look of a task that had
\* not yet cleared the flag.
Unattended == task = "none" /\ buffer # <<>> /\ net = <<>>

\* Every request is answered, unless the connection ends, becomes a websocket or has lost
\* bytes to a keep-alive, or its last bytes wait for ever behind the last look of a task.
WholeAnswered ==
  \A n \in 1..MaxRequests :
    asked >= n ~> Len(answers) >= n \/ ~connected \/ webSocketOpen \/ dropped \/ []Unattended
===============================================================================
