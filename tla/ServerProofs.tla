------------------------------ MODULE ServerProofs ------------------------------
(***************************************************************************)
(* The exchange of requests and answers, and what the run of MCServer      *)
(* checks on small instances, for every value of the constants.            *)
(* The exchange, for any requests, cut up in any way, any answers of the   *)
(* application and any width of an unsigned int: the body is written       *)
(* inside its buffer, the answers of a connection end as they should, and  *)
(* each request gets its own answer, in order.  For the last, every token  *)
(* that is still to be read is given the place it had in its request       *)
(* (Labels): what the parser has behind it and what is before it fit       *)
(* together.                                                               *)
(* The composed specification, of which a behaviour is one of the part     *)
(* chosen at its start: the promise to the clients, and what the two users *)
(* of the lock files keep; those of the store are in SessionStoreProofs.   *)
(***************************************************************************)
EXTENDS MCServer, FileLockProofs, SequenceTheorems, TLAPS

-----------------------------------------------------------------------------
(* The exchange. *)

USE DEF pool, Leaves

\* TypeOK, in two parts.
TokensTypes ==
  /\ asked \in 0..MaxRequests
  /\ net \in Seq(Token) /\ buffer \in Seq(Token)

AllStates ==
  Reading \cup Errors \cup
    {"SEND_REQUEST_TO_APP", "CHECK_PROTOCOL_CHANGE", "SEND_RESPONSE", "FINISH_REQUEST", "FINISHED"}

SessionTypes ==
  /\ processingIncomingData \in BOOLEAN /\ task \in {"none", "queued", "inside", "leaving"}
  /\ connected \in BOOLEAN
  /\ state \in AllStates
  /\ bufferStr \in [size : 0..(VerbLimit + 1), valid : BOOLEAN]
  /\ receivedData \in Received
  /\ connection \in {"CLOSE", "UPGRADE", "KEEP-ALIVE"}
  /\ upgrade \in BOOLEAN /\ ignoreKeepAlive \in BOOLEAN /\ webSocketOpen \in BOOLEAN
  /\ dataToSend \in [status : Nat, type : BOOLEAN, length : Nat]
  /\ dropped \in BOOLEAN

\* The body has as much room as its length says, and more bytes to come.
BodyInv ==
  state = "AWAIT_CONTENT" =>
    /\ receivedData.contentLength \in 1..(UIntRange - 1)
    /\ receivedData.read \in 0..(receivedData.contentLength - 1)
    /\ receivedData.size = (receivedData.contentLength + 1) % UIntRange

\* The task comes and goes: nothing of the session changes.
LEMMA TaskSame ==
  ASSUME Task_Start \/ Task_End
  PROVE  UNCHANGED <<net, buffer, connected, session, history, asked, answers, dropped>>
  BY DEF Task_Start, Task_End, history

LEMMA TypesSplit == TypeOK <=> TokensTypes /\ SessionTypes
  BY DEF TypeOK, TokensTypes, SessionTypes, AllStates

-----------------------------------------------------------------------------
(* Types of what is on its way. *)

\* Tokens stay tokens when more is asked.
LEMMA TokensStay ==
  ASSUME TokensTypes, asked' \in Nat, asked <= asked'
  PROVE  /\ net \in Seq(Token') /\ buffer \in Seq(Token')
         /\ \A r \in Received : r \in Received'
<1>1. Token \subseteq Token'
  BY DEF Token, TokensTypes
<1>2. \A s \in Seq(Token) : s \in Seq(Token')
  BY <1>1
<1>3. \A r \in Received : r \in Received'
  BY DEF Received, TokensTypes
<1> QED BY <1>2, <1>3 DEF TokensTypes

\* What a thread takes from the buffer is a token of a request that was sent.
LEMMA TakenTypes ==
  ASSUME TokensTypes, SessionTypes, NEW s, NEW kinds, Reads(s, kinds)
  PROVE  /\ Head(buffer) \in Token
         /\ TokensTypes'
         /\ Taken(receivedData) \in Received
         /\ Received' = Received
<1>1. Head(buffer) \in Token /\ Tail(buffer) \in Seq(Token)
  BY DEF TokensTypes, Reads
<1>2. Token' = Token /\ Received' = Received
  BY DEF Token, Received, Reads, history
<1>3. TokensTypes'
  BY <1>1, <1>2 DEF TokensTypes, Reads, history
<1>4. Head(buffer).req \in 1..asked
  BY <1>1 DEF Token
<1>5. Taken(receivedData) \in Received
  <2> DEFINE f == receivedData.from \cup {Head(buffer).req}
  <2>0. receivedData \in Received
    BY DEF SessionTypes
  <2>1. f \in SUBSET (1..asked)
    <3>1. receivedData.from \in SUBSET (1..asked)
      BY <2>0 DEF Received
    <3> QED BY <3>1, <1>4
  <2>2. Taken(receivedData) = [receivedData EXCEPT !.from = f]
    BY DEF Taken
  <2> HIDE DEF f
  <2> QED BY <2>0, <2>1, <2>2 DEF Received
<1> QED BY <1>1, <1>2, <1>3, <1>5

LEMMA Counted ==
  ASSUME NEW n \in Int
  PROVE  n % UIntRange \in UInt
  BY ExchangeAssumption DEF UInt

LEMMA TypesInit == Init => TokensTypes /\ SessionTypes
<1> SUFFICES ASSUME Init
             PROVE  TokensTypes /\ SessionTypes
  OBVIOUS
<1>1. TokensTypes
  <2>0. net = <<>> /\ buffer = <<>> /\ asked = 0
    BY Zenon DEF Init
  <2>1. net \in Seq(Token) /\ buffer \in Seq(Token)
    BY <2>0, EmptySeq
  <2>2. asked \in 0..MaxRequests
    BY <2>0, ExchangeAssumption
  <2> QED BY <2>1, <2>2 DEF TokensTypes
<1>2. receivedData \in Received
  <2>1. 0 \in UInt
    BY ExchangeAssumption DEF UInt
  <2>2. NoRequest \in Received
    BY <2>1 DEF Received, NoRequest
  <2> QED BY <2>2 DEF Init
<1>3. state \in AllStates
  BY DEF Init, AllStates, Reading
<1>4. bufferStr \in [size : 0..(VerbLimit + 1), valid : BOOLEAN]
  BY ExchangeAssumption DEF Init, NoText
<1>5. SessionTypes
  BY <1>2, <1>3, <1>4 DEF Init, SessionTypes, NoAnswer
<1> QED BY <1>1, <1>5

\* A request sent is a sequence of tokens.
LEMMA SendTypes ==
  ASSUME TokensTypes, SessionTypes, Client_Send
  PROVE  TokensTypes' /\ SessionTypes'
<1>1. asked \in Nat /\ asked' = asked + 1 /\ asked' \in 0..MaxRequests
  BY ExchangeAssumption DEF Client_Send, TokensTypes
<1>2. net \in Seq(Token') /\ buffer \in Seq(Token') /\ \A r \in Received : r \in Received'
  BY <1>1, TokensStay
<1>3. PICK r \in Requests :
        net' = net \o [i \in 1..Len(r) |-> [kind |-> r[i].kind, n |-> r[i].n, req |-> asked + 1]]
  BY DEF Client_Send
<1>4. r \in Seq([kind : Kinds, n : Int])
  BY ExchangeAssumption
<1> DEFINE new == [i \in 1..Len(r) |-> [kind |-> r[i].kind, n |-> r[i].n, req |-> asked + 1]]
<1>5. new \in Seq(Token')
  <2>1. Len(r) \in Nat /\ \A i \in 1..Len(r) : r[i].kind \in Kinds /\ r[i].n \in Int
    <3> DEFINE S == [kind : Kinds, n : Int]
    <3>1. \A i \in 1..Len(r) : r[i] \in S
      <4>1. r \in Seq(S)
        BY <1>4
      <4> HIDE DEF S
      <4> QED BY <4>1, ElementOfSeq
    <3> QED BY <1>4, <3>1
  <2>2. \A i \in 1..Len(r) : new[i] \in Token'
    BY <1>1, <2>1 DEF Token
  <2> QED BY <2>1, <2>2
<1>6. net' \in Seq(Token')
  BY <1>2, <1>3, <1>5
<1>7. TokensTypes'
  BY <1>1, <1>2, <1>6 DEF TokensTypes, Client_Send
<1>8. receivedData' \in Received'
  BY <1>2 DEF SessionTypes, Client_Send, session
<1>9. SessionTypes'
  BY <1>8 DEF SessionTypes, Client_Send, session
<1> QED BY <1>7, <1>9

LEMMA ReceiveTypes ==
  ASSUME TokensTypes, SessionTypes, Receive
  PROVE  TokensTypes' /\ SessionTypes'
<1>1. Token' = Token /\ Received' = Received
  BY DEF Token, Received, Receive, history
<1>2. PICK n \in 1..Len(net) :
        buffer' = buffer \o SubSeq(net, 1, n) /\ net' = SubSeq(net, n + 1, Len(net))
  BY DEF Receive
<1>3. SubSeq(net, 1, n) \in Seq(Token) /\ SubSeq(net, n + 1, Len(net)) \in Seq(Token)
  BY DEF TokensTypes
<1>4. TokensTypes'
  BY <1>1, <1>2, <1>3 DEF TokensTypes, Receive, history
<1>5. SessionTypes'
  BY <1>1 DEF SessionTypes, Receive, session, history
<1> QED BY <1>4, <1>5

\* What none of the steps of a thread changes besides the buffer.
LEMMA QuietTypes ==
  ASSUME TokensTypes, net' = net, asked' = asked, buffer' = buffer \/ buffer' = <<>>
  PROVE  TokensTypes' /\ Received' = Received
<1>1. Token' = Token /\ Received' = Received
  BY DEF Token, Received
<1>2. buffer' \in Seq(Token)
  BY EmptySeq DEF TokensTypes
<1> QED BY <1>1, <1>2 DEF TokensTypes

LEMMA ReadTypes ==
  ASSUME TokensTypes, SessionTypes, Read
  PROVE  TokensTypes' /\ SessionTypes'
<1>1. CASE Return_Incomplete
  <2>1. TokensTypes' /\ Received' = Received
    BY <1>1, QuietTypes DEF Return_Incomplete, history
  <2> QED BY <1>1, <2>1 DEF SessionTypes, Return_Incomplete, session, history
<1>2. CASE ReadVerb
  <2>1. TokensTypes' /\ Taken(receivedData) \in Received /\ Received' = Received
    BY <1>2, TakenTypes DEF ReadVerb
  <2>2. bufferStr' \in [size : 0..(VerbLimit + 1), valid : BOOLEAN]
    BY <1>2, ExchangeAssumption DEF ReadVerb, NoText
  <2> QED BY <1>2, <2>1, <2>2 DEF SessionTypes, ReadVerb, Reads, AllStates, Reading, history
<1>3. CASE ReadVerb_Reject
  <2>1. TokensTypes' /\ Taken(receivedData) \in Received /\ Received' = Received
    BY <1>3, TakenTypes DEF ReadVerb_Reject
  <2> QED BY <1>3, <2>1 DEF SessionTypes, ReadVerb_Reject, Reject, Reads, AllStates, Errors, history
<1>4. CASE ReadVerb_Stray
  <2>1. TokensTypes' /\ Taken(receivedData) \in Received /\ Received' = Received
    BY <1>4, TakenTypes DEF ReadVerb_Stray
  <2> DEFINE n == Characters(Head(buffer).kind)
             ok == bufferStr.valid /\ Head(buffer).kind = "byte"
  <2>2. /\ bufferStr' = [size |-> bufferStr.size + n, valid |-> ok]
        /\ ~(bufferStr.size + n - 1 > VerbLimit)
    BY <1>4, Zenon DEF ReadVerb_Stray, TooLong
  <2>3. n \in 1..3
    BY DEF Characters
  <2>4. ok \in BOOLEAN
    BY Zenon DEF SessionTypes
  <2>5. bufferStr.size \in 0..(VerbLimit + 1) /\ VerbLimit \in Nat
    BY ExchangeAssumption DEF SessionTypes
  <2> HIDE DEF n, ok
  <2>6. bufferStr.size + n \in 0..(VerbLimit + 1)
    BY <2>2, <2>3, <2>5
  <2>7. bufferStr' \in [size : 0..(VerbLimit + 1), valid : BOOLEAN]
    BY <2>2, <2>4, <2>6
  <2> QED BY <1>4, <2>1, <2>7 DEF SessionTypes, ReadVerb_Stray, Reads, history
<1>5. CASE ReadFirstLine
  <2>1. TokensTypes' /\ Taken(receivedData) \in Received /\ Received' = Received
    BY <1>5, TakenTypes DEF ReadFirstLine
  <2>2. receivedData' \in Received
    BY <1>5, <2>1, ExchangeAssumption DEF ReadFirstLine, Received, UInt
  <2> QED BY <1>5, <2>1, <2>2 DEF SessionTypes, ReadFirstLine, Reads, AllStates, Reading, history
<1>6. CASE ReadFirstLine_Reject
  <2>1. TokensTypes' /\ Taken(receivedData) \in Received /\ Received' = Received
    BY <1>6, TakenTypes DEF ReadFirstLine_Reject
  <2> QED BY <1>6, <2>1
    DEF SessionTypes, ReadFirstLine_Reject, Reject, Reads, AllStates, Errors, history
<1>7. CASE ReadHeader
  <2> DEFINE h == Head(buffer)
             length == IF h.kind = "length" THEN h.n % UIntRange ELSE Taken(receivedData).contentLength
             key == Taken(receivedData).key \/ h.kind = "key"
  <2>1. /\ h \in Token /\ TokensTypes'
        /\ Taken(receivedData) \in Received /\ Received' = Received
    BY <1>7, TakenTypes DEF ReadHeader
  <2>2. length \in UInt
    BY <2>1, Counted DEF Token, Received
  <2>3. key \in BOOLEAN
    BY <2>1 DEF Received
  <2>4. receivedData' = [Taken(receivedData) EXCEPT !.contentLength = length, !.key = key]
    BY <1>7 DEF ReadHeader
  <2> HIDE DEF length, key
  <2>5. receivedData' \in Received
    BY <2>1, <2>2, <2>3, <2>4 DEF Received
  <2>6. connection' \in {"CLOSE", "UPGRADE", "KEEP-ALIVE"}
    <3>1. \A k \in DOMAIN Connection : Connection[k] \in {"CLOSE", "UPGRADE", "KEEP-ALIVE"}
      BY DEF Connection
    <3> QED BY <1>7, <3>1 DEF ReadHeader, SessionTypes
  <2>7. upgrade' \in BOOLEAN
    BY <1>7 DEF ReadHeader
  <2> QED BY <1>7, <2>1, <2>5, <2>6, <2>7 DEF SessionTypes, ReadHeader, Reads, history
<1>8. CASE ReadHeader_End
  <2>1. TokensTypes' /\ Taken(receivedData) \in Received /\ Received' = Received
    BY <1>8, TakenTypes DEF ReadHeader_End
  <2>2. BodySize(receivedData.contentLength) \in UInt /\ 0 \in UInt
    <3>1. receivedData \in Received
      BY DEF SessionTypes
    <3>2. receivedData.contentLength \in UInt
      BY <3>1 DEF Received
    <3>3. receivedData.contentLength + 1 \in Int /\ 0 \in UInt
      BY <3>2, ExchangeAssumption DEF UInt
    <3> QED BY <3>3, Counted DEF BodySize
  <2>3. receivedData' \in Received
    <3> DEFINE size == BodySize(receivedData.contentLength)
    <3>1. \/ receivedData' = Taken(receivedData)
          \/ receivedData' = [Taken(receivedData) EXCEPT !.size = size, !.read = 0]
      BY <1>8 DEF ReadHeader_End
    <3> HIDE DEF size
    <3>2. size \in UInt /\ 0 \in UInt
      BY <2>2 DEF size
    <3>3. PICK taken \in Received : taken = Taken(receivedData)
      BY <2>1
    <3>4. [taken EXCEPT !.size = size, !.read = 0] \in Received
      BY <3>2, <3>3 DEF Received
    <3> QED BY <2>1, <3>1, <3>3, <3>4
  <2>4. state' \in AllStates
    BY <1>8 DEF ReadHeader_End, AllStates, Reading
  <2> QED BY <1>8, <2>1, <2>3, <2>4 DEF SessionTypes, ReadHeader_End, Reads, history
<1>9. CASE ReadContent
  <2>1. TokensTypes' /\ Taken(receivedData) \in Received /\ Received' = Received
    BY <1>9, TakenTypes DEF ReadContent
  <2>2. (Taken(receivedData).read + 1) % UIntRange \in UInt
    BY <2>1, Counted DEF Received, UInt
  <2>3. receivedData' \in Received
    BY <1>9, <2>1, <2>2 DEF ReadContent, Received
  <2>4. state' \in AllStates
    BY <1>9 DEF ReadContent, AllStates, SessionTypes
  <2> QED BY <1>9, <2>1, <2>3, <2>4 DEF SessionTypes, ReadContent, Reads, history
<1> QED BY <1>1, <1>2, <1>3, <1>4, <1>5, <1>6, <1>7, <1>8, <1>9 DEF Read

AnAnswer == [status : Nat, type : BOOLEAN, length : Nat]

LEMMA FinalStatusTypes ==
  ASSUME SessionTypes
  PROVE  FinalStatus(dataToSend) \in Nat /\ dataToSend.length \in Nat
<1>1. PICK s, k : s = dataToSend.status /\ k = dataToSend.length
  OBVIOUS
<1>2. s \in Nat /\ k \in Nat /\ 204 \in Nat /\ 200 \in Nat
  <2>1. dataToSend \in AnAnswer
    BY DEF SessionTypes, AnAnswer
  <2> QED BY <1>1, <2>1 DEF AnAnswer
<1>3. FinalStatus(dataToSend) = IF s # 0 THEN s ELSE IF k = 0 THEN 204 ELSE 200
  BY <1>1 DEF FinalStatus
<1> QED BY <1>1, <1>2, <1>3

LEMMA AnsweredTypes ==
  ASSUME NEW a \in Answers \cup {NoAnswer}
  PROVE  a \in AnAnswer /\ Answered(a) \in AnAnswer
<1>1. a \in AnAnswer
  <2>1. Answers \subseteq AnAnswer
    BY ExchangeAssumption DEF AnAnswer
  <2>2. NoAnswer \in AnAnswer
    BY DEF NoAnswer, AnAnswer
  <2> QED BY <2>1, <2>2
<1> QED BY <1>1 DEF Answered, AnAnswer

LEMMA EmptiedTypes ==
  ASSUME NEW a \in AnAnswer, NEW n \in Nat
  PROVE  /\ [a EXCEPT !.length = 0, !.status = n] \in AnAnswer
         /\ [a EXCEPT !.status = n, !.length = 0] \in AnAnswer
<1>1. [a EXCEPT !.length = 0, !.status = n] \in AnAnswer
  BY DEF AnAnswer
<1>2. [a EXCEPT !.status = n, !.length = 0] \in AnAnswer
  BY DEF AnAnswer
<1> QED BY <1>1, <1>2, Zenon

LEMMA AnsweringTypes ==
  ASSUME TokensTypes, SessionTypes, Answering
  PROVE  TokensTypes' /\ SessionTypes'
<1>1. TokensTypes' /\ Received' = Received
  <2>1. net' = net /\ asked' = asked /\ (buffer' = buffer \/ buffer' = <<>>)
    BY DEF Answering, SendRequestToApp, CheckProtocolChange, SendResponse, FinishRequest, SendError,
      endHttpRequest_WebSocket, endHttpRequest_KeepAlive, endHttpRequest_Close, history
  <2> QED BY <2>1, QuietTypes
<1>0. receivedData \in Received
  BY DEF SessionTypes
<1>2. CASE SendRequestToApp
  <2>1. PICK a \in Answers \cup {NoAnswer} :
          IF NotFound(Answered(a))
            THEN /\ dataToSend' = [a EXCEPT !.status = 404, !.length = 0]
                 /\ ignoreKeepAlive' = TRUE
            ELSE /\ dataToSend' = Answered(a)
                 /\ UNCHANGED ignoreKeepAlive
    BY <1>2 DEF SendRequestToApp
  <2>2. dataToSend' \in AnAnswer
    <3>1. a \in AnAnswer /\ Answered(a) \in AnAnswer
      BY AnsweredTypes
    <3>2. [a EXCEPT !.status = 404, !.length = 0] \in AnAnswer
      <4>1. 404 \in Nat
        OBVIOUS
      <4>2. \A n \in Nat : [a EXCEPT !.status = n, !.length = 0] \in AnAnswer
        BY <3>1, EmptiedTypes
      <4> QED BY <4>1, <4>2
    <3> QED BY <2>1, <3>1, <3>2
  <2>3. ignoreKeepAlive' \in BOOLEAN
    BY <2>1 DEF SessionTypes
  <2>4. receivedData' \in Received
    BY <1>0, <1>2 DEF SendRequestToApp, Received
  <2> QED BY <1>1, <1>2, <2>2, <2>3, <2>4 DEF SessionTypes, SendRequestToApp, AllStates, AnAnswer
<1>3. CASE CheckProtocolChange
  <2>1. receivedData.key \in BOOLEAN
    BY <1>0 DEF Received
  <2>2. dataToSend' \in AnAnswer
    <3>1. dataToSend \in AnAnswer
      BY DEF SessionTypes, AnAnswer
    <3>2. \/ dataToSend' = dataToSend
          \/ dataToSend' = [dataToSend EXCEPT !.length = 0, !.status = 101]
          \/ dataToSend' = [dataToSend EXCEPT !.length = 0, !.status = dataToSend.status]
      BY <1>3 DEF CheckProtocolChange
    <3>3. dataToSend.status \in Nat /\ 101 \in Nat
      BY <3>1 DEF AnAnswer
    <3>4. \A n \in Nat : [dataToSend EXCEPT !.length = 0, !.status = n] \in AnAnswer
      BY <3>1, EmptiedTypes
    <3> QED BY <3>1, <3>2, <3>3, <3>4
  <2>3. webSocketOpen' \in BOOLEAN
    BY <1>3, <2>1 DEF CheckProtocolChange, SessionTypes
  <2>4. state' \in AllStates
    BY <1>3 DEF CheckProtocolChange, AllStates, Errors
  <2> QED BY <1>1, <1>3, <2>2, <2>3, <2>4 DEF SessionTypes, CheckProtocolChange, AnAnswer, history
<1>4. CASE SendResponse
  <2>1. FinalStatus(dataToSend) \in Nat
    BY FinalStatusTypes
  <2>2. dataToSend' \in AnAnswer
    BY <1>4, <2>1 DEF SendResponse, SessionTypes, AnAnswer
  <2> QED BY <1>1, <1>4, <2>2 DEF SessionTypes, SendResponse, AllStates, AnAnswer
<1>5. CASE FinishRequest
  BY <1>1, <1>5 DEF SessionTypes, FinishRequest, AllStates, history
<1>6. CASE SendError
  BY <1>1, <1>6 DEF SessionTypes, SendError, AllStates
<1>7. CASE endHttpRequest_WebSocket
  BY <1>1, <1>7 DEF SessionTypes, endHttpRequest_WebSocket, AllStates, history
<1>8. CASE endHttpRequest_KeepAlive
  <2>1. NoRequest \in Received
    BY <1>1, ExchangeAssumption DEF NoRequest, Received, UInt
  <2>2. NoAnswer \in AnAnswer
    BY DEF NoAnswer, AnAnswer
  <2>3. dropped' \in BOOLEAN
    BY <1>8 DEF endHttpRequest_KeepAlive, SessionTypes
  <2>4. bufferStr' \in [size : 0..(VerbLimit + 1), valid : BOOLEAN]
    BY <1>8, ExchangeAssumption DEF endHttpRequest_KeepAlive, NoText
  <2> QED BY <1>1, <1>8, <2>1, <2>2, <2>3, <2>4
    DEF SessionTypes, endHttpRequest_KeepAlive, AllStates, Reading, AnAnswer
<1>9. CASE endHttpRequest_Close
  BY <1>1, <1>9 DEF SessionTypes, endHttpRequest_Close, AllStates, history
<1> QED BY <1>2, <1>3, <1>4, <1>5, <1>6, <1>7, <1>8, <1>9 DEF Answering

LEMMA TypesKept ==
  ASSUME TokensTypes, SessionTypes, [Next]_vars
  PROVE  TokensTypes' /\ SessionTypes'
<1>1. CASE Client_Close
  <2>1. TokensTypes' /\ Received' = Received
    BY <1>1, QuietTypes DEF Client_Close, history
  <2> QED BY <1>1, <2>1 DEF SessionTypes, Client_Close, session, history
<1>2. CASE UNCHANGED vars
  <2>1. TokensTypes' /\ Received' = Received
    BY <1>2, QuietTypes DEF vars, history
  <2> QED BY <1>2, <2>1 DEF SessionTypes, vars, session, history
<1>3. CASE Task_Start \/ Task_End
  <2>1. TokensTypes' /\ Received' = Received
    BY <1>3, QuietTypes, TaskSame
  <2> QED BY <1>3, <2>1, TaskSame DEF SessionTypes, Task_Start, Task_End, session
<1> QED BY <1>1, <1>2, <1>3, SendTypes, ReceiveTypes, ReadTypes, AnsweringTypes
  DEF Next, dataReceivedFrom, Over

\* The variables of a connection keep their types, for any requests and answers.
THEOREM ExchangeTypesKept == Spec => []TypeOK
<1>1. TokensTypes /\ SessionTypes /\ [Next]_vars => TokensTypes' /\ SessionTypes'
  BY TypesKept
<1> QED BY <1>1, TypesInit, TypesSplit, PTL DEF Spec

-----------------------------------------------------------------------------
(* The body. *)

LEMMA BodyInit == Init => BodyInv
  BY DEF Init, BodyInv

\* Only three steps have to do with the body.
LEMMA BodyKept ==
  ASSUME TokensTypes, SessionTypes, BodyInv, [Next]_vars
  PROVE  BodyInv'
<1>0. receivedData \in Received
  BY DEF SessionTypes
<1>1. CASE ReadHeader_End
  <2>1. receivedData.contentLength \in UInt /\ 0 \in UInt
    BY <1>0, ExchangeAssumption DEF Received, UInt
  <2>2. Taken(receivedData) \in Received
    BY <1>1, TakenTypes DEF ReadHeader_End
  <2>3. Taken(receivedData).contentLength = receivedData.contentLength
    BY <1>0 DEF Taken, Received
  <2>4. CASE receivedData.contentLength = 0
    BY <1>1, <2>4 DEF ReadHeader_End, BodyInv
  <2>5. CASE receivedData.contentLength # 0
    <3> DEFINE size == BodySize(receivedData.contentLength)
    <3>1. receivedData' = [Taken(receivedData) EXCEPT !.size = size, !.read = 0]
      BY <1>1, <2>5 DEF ReadHeader_End
    <3>2. size = (receivedData.contentLength + 1) % UIntRange
      BY DEF BodySize
    <3> HIDE DEF size
    <3>3. /\ receivedData'.contentLength = receivedData.contentLength
          /\ receivedData'.size = size /\ receivedData'.read = 0
      BY <2>2, <2>3, <3>1 DEF Received
    <3> QED BY <2>1, <2>5, <3>2, <3>3, ExchangeAssumption DEF BodyInv, UInt
  <2> QED BY <2>4, <2>5
<1>2. CASE ReadContent
  <2>1. Taken(receivedData) \in Received
    BY <1>2, TakenTypes DEF ReadContent
  <2>2. /\ Taken(receivedData).contentLength = receivedData.contentLength
        /\ Taken(receivedData).size = receivedData.size
        /\ Taken(receivedData).read = receivedData.read
    BY <1>0 DEF Taken, Received
  <2> DEFINE read == (Taken(receivedData).read + 1) % UIntRange
  <2>3. receivedData' = [Taken(receivedData) EXCEPT !.read = read]
    BY <1>2 DEF ReadContent
  <2>4. read = receivedData.read + 1 /\ read \in 1..receivedData.contentLength
    <3>1. /\ receivedData.contentLength \in 1..(UIntRange - 1)
          /\ receivedData.read \in 0..(receivedData.contentLength - 1)
      BY <1>2 DEF ReadContent, Reads, BodyInv
    <3>2. PICK x, y, z : x = receivedData.read /\ y = UIntRange /\ z = receivedData.contentLength
      OBVIOUS
    <3>3. y \in Nat /\ z \in 1..(y - 1) /\ x \in 0..(z - 1)
      BY <3>1, <3>2, ExchangeAssumption
    <3>4. (x + 1) % y = x + 1 /\ x + 1 \in 1..z
      BY <3>3
    <3> QED BY <2>2, <3>2, <3>4
  <2> HIDE DEF read
  <2>5. /\ receivedData'.contentLength = receivedData.contentLength
        /\ receivedData'.size = receivedData.size /\ receivedData'.read = read
    BY <2>1, <2>2, <2>3 DEF Received
  <2>6. state' = IF read = receivedData.contentLength THEN "SEND_REQUEST_TO_APP" ELSE state
    BY <1>2, <2>5 DEF ReadContent
  <2>7. state = "AWAIT_CONTENT"
    BY <1>2 DEF ReadContent, Reads
  <2> QED BY <2>4, <2>5, <2>6, <2>7 DEF BodyInv
<1>3. CASE UNCHANGED <<state, receivedData>>
  BY <1>3 DEF BodyInv
<1>4. CASE state' # "AWAIT_CONTENT"
  BY <1>4 DEF BodyInv
<1>5. CASE ReadVerb_Stray \/ ReadHeader
  BY <1>5 DEF BodyInv, ReadVerb_Stray, ReadHeader, Reads
<1>6. ReadVerb \/ ReadVerb_Reject \/ ReadFirstLine \/ ReadFirstLine_Reject => state' # "AWAIT_CONTENT"
  BY DEF ReadVerb, ReadVerb_Reject, ReadFirstLine, ReadFirstLine_Reject, Reject
<1>7. Answering => state' # "AWAIT_CONTENT"
  BY DEF Answering, SendRequestToApp, CheckProtocolChange, SendResponse, FinishRequest, SendError,
    endHttpRequest_WebSocket, endHttpRequest_KeepAlive, endHttpRequest_Close
<1>8. Client_Send \/ Client_Close \/ Receive \/ Return_Incomplete \/ UNCHANGED vars =>
        UNCHANGED <<state, receivedData>>
  BY DEF Client_Send, Client_Close, Receive, Return_Incomplete, vars, session
<1>9. Task_Start \/ Task_End => UNCHANGED <<state, receivedData>>
  BY TaskSame DEF session
<1> QED BY <1>1, <1>2, <1>3, <1>4, <1>5, <1>6, <1>7, <1>8, <1>9
  DEF Next, dataReceivedFrom, Read, Over

\* The bytes of a body and the 0 behind them are written inside contentBody, whatever
\* Content-Length says and however the body is cut up, but for the one length that has no
\* successor.
THEOREM BodyStaysInBounds == Spec => []BodyInBounds
<1>1. BodyInv => BodyInBounds
  BY ExchangeAssumption DEF BodyInv, BodyInBounds
<1>2. TokensTypes /\ SessionTypes /\ BodyInv /\ [Next]_vars
        => TokensTypes' /\ SessionTypes' /\ BodyInv'
  BY TypesKept, BodyKept
<1> QED BY <1>1, <1>2, TypesInit, BodyInit, PTL DEF Spec

-----------------------------------------------------------------------------
(* The end of the answers. *)

Answer == [to : SUBSET Nat, last : BOOLEAN, status : Nat, length : Nat, ended : BOOLEAN]

\* What follows a last answer is the end of the connection, or its becoming a websocket's.
LastSent ==
  /\ state \in {"FINISH_REQUEST", "FINISHED"} /\ ~isToKeepAlive
  /\ task = "inside" \/ ~connected \/ webSocketOpen

RejectsEnd == state \in {"ERROR_500_INTERNALSERVERERROR", "ERROR_501_NOT_IMPLEMENTED"} => ignoreKeepAlive

\* Who has a task is known to have one, so that no second task begins.
FlagSet == task # "none" => processingIncomingData

EndInv ==
  /\ FlagSet
  /\ answers \in Seq(Answer)
  /\ RejectsEnd
  /\ \A n \in 1..Len(answers) : ~answers[n].ended => answers[n].status = 400 \/ answers[n].last
  /\ \A n \in 1..Len(answers) : answers[n].last => n = Len(answers) /\ LastSent

LEMMA EndInit == Init => EndInv
<1> SUFFICES ASSUME Init
             PROVE  EndInv
  OBVIOUS
<1>1. answers = <<>> /\ state = "READING_VERB" /\ task = "none"
  BY Zenon DEF Init
<1>2. answers \in Seq(Answer) /\ Len(answers) = 0
  BY <1>1, EmptySeq
<1> QED BY <1>1, <1>2 DEF EndInv, RejectsEnd, FlagSet

LEMMA FlagKept ==
  ASSUME FlagSet, [Next]_vars
  PROVE  FlagSet'
<1>1. CASE UNCHANGED pool
  BY <1>1 DEF FlagSet
<1>2. CASE Receive \/ Task_Start \/ Task_End
  BY <1>2 DEF FlagSet, Receive, Task_Start, Task_End
<1>3. Client_Send \/ Client_Close \/ UNCHANGED vars => UNCHANGED pool
  BY DEF Client_Send, Client_Close, vars
<1>4. Read => UNCHANGED pool \/ Return_Incomplete
  BY DEF Read, ReadVerb, ReadVerb_Reject, ReadVerb_Stray, ReadFirstLine, ReadFirstLine_Reject,
    ReadHeader, ReadHeader_End, ReadContent, Reads
<1>5. CASE Return_Incomplete \/ endHttpRequest_WebSocket \/ endHttpRequest_Close
  <2>1. task = "inside" /\ processingIncomingData' = processingIncomingData
    BY <1>5 DEF Return_Incomplete, endHttpRequest_WebSocket, endHttpRequest_Close, Ending, Works
  <2> QED BY <2>1 DEF FlagSet
<1>6. CASE endHttpRequest_KeepAlive
  BY <1>6 DEF FlagSet, endHttpRequest_KeepAlive
<1>7. SendRequestToApp \/ CheckProtocolChange \/ SendResponse \/ FinishRequest \/ SendError => UNCHANGED pool
  BY DEF SendRequestToApp, CheckProtocolChange, SendResponse, FinishRequest, SendError
<1> QED BY <1>1, <1>2, <1>3, <1>4, <1>5, <1>6, <1>7 DEF Next, dataReceivedFrom, Answering, Over

\* A step that sends nothing.
LEMMA NothingSent ==
  ASSUME EndInv, answers' = answers, FlagSet', RejectsEnd', LastSent => LastSent'
  PROVE  EndInv'
  BY DEF EndInv

\* A step that sends an answer: it was no last one's turn.
LEMMA OneSent ==
  ASSUME EndInv, NEW a \in Answer, answers' = Append(answers, a), FlagSet', RejectsEnd',
         state \notin {"FINISH_REQUEST", "FINISHED"},
         ~a.ended => a.status = 400 \/ a.last,
         a.last => LastSent'
  PROVE  EndInv'
<1>1. /\ answers \in Seq(Answer) /\ answers' \in Seq(Answer)
      /\ Len(answers) \in Nat /\ Len(answers') = Len(answers) + 1
      /\ \A n \in 1..Len(answers) : answers'[n] = answers[n]
      /\ answers'[Len(answers) + 1] = a
  BY DEF EndInv
<1>2. \A n \in 1..Len(answers) : ~answers[n].last
  BY DEF EndInv, LastSent
<1>3. \A n \in 1..Len(answers') : n \in 1..Len(answers) \/ n = Len(answers) + 1
  BY <1>1
<1>4. \A n \in 1..Len(answers') : ~answers'[n].ended => answers'[n].status = 400 \/ answers'[n].last
  BY <1>1, <1>3 DEF EndInv
<1>5. \A n \in 1..Len(answers') : answers'[n].last => n = Len(answers') /\ LastSent'
  BY <1>1, <1>2, <1>3
<1> QED BY <1>1, <1>4, <1>5 DEF EndInv

\* What is said of an answer when it is sent.
LEMMA SentIs ==
  ASSUME TokensTypes, SessionTypes, NEW status \in Nat, NEW length \in Nat, NEW ended \in BOOLEAN
  PROVE  /\ Sent(status, length, ended) \in Answer
         /\ Sent(status, length, ended).last <=> ~isToKeepAlive
         /\ Sent(status, length, ended).ended <=> ended
         /\ Sent(status, length, ended).status = status
<1>1. receivedData.from \in SUBSET Nat
  <2>1. receivedData \in Received
    BY DEF SessionTypes
  <2>2. receivedData.from \in SUBSET (1..asked)
    BY <2>1 DEF Received
  <2>3. asked \in Nat
    BY ExchangeAssumption DEF TokensTypes
  <2> QED BY <2>2, <2>3
<1>2. (connection = "CLOSE" \/ ignoreKeepAlive) <=> ~isToKeepAlive
  BY DEF isToKeepAlive
<1> QED BY <1>1, <1>2 DEF Sent, Answer

LEMMA EndKept ==
  ASSUME TokensTypes, SessionTypes, EndInv, [Next]_vars
  PROVE  EndInv'
<1>0. FlagSet'
  BY FlagKept DEF EndInv
<1>1. CASE SendResponse
  <2>1. FinalStatus(dataToSend) \in Nat /\ dataToSend.length \in Nat
    BY FinalStatusTypes
  <2> DEFINE a == Sent(FinalStatus(dataToSend), dataToSend.length, TRUE)
  <2>2. a \in Answer /\ (a.last <=> ~isToKeepAlive) /\ a.ended
    BY <2>1, SentIs
  <2>3. a.last => LastSent'
    BY <1>1, <2>2 DEF LastSent, isToKeepAlive, SendResponse, Works
  <2>4. answers' = Append(answers, a)
    BY <1>1 DEF SendResponse
  <2>5. RejectsEnd' /\ state \notin {"FINISH_REQUEST", "FINISHED"}
    BY <1>1 DEF SendResponse, Works, RejectsEnd
  <2> HIDE DEF a
  <2> QED BY <2>2, <2>3, <2>4, <2>5, <1>0, OneSent
<1>2. CASE SendError
  <2> DEFINE status == CASE state = "ERROR_400_BADREQUEST" -> 400
                         [] state = "ERROR_500_INTERNALSERVERERROR" -> 500
                         [] state = "ERROR_501_NOT_IMPLEMENTED" -> 501
             a == Sent(status, 0, FALSE)
  <2>0. state \in Errors
    BY <1>2 DEF SendError
  <2>1. status \in Nat /\ (status = 400 \/ ignoreKeepAlive)
    BY <2>0 DEF Errors, EndInv, RejectsEnd
  <2>2. answers' = Append(answers, a)
    BY <1>2 DEF SendError
  <2> HIDE DEF status
  <2>3. a \in Answer /\ (a.last <=> ~isToKeepAlive) /\ a.status = status
    BY <2>1, SentIs
  <2>4. a.last => LastSent'
    BY <1>2, <2>3 DEF LastSent, isToKeepAlive, SendError
  <2>5. RejectsEnd' /\ state \notin {"FINISH_REQUEST", "FINISHED"}
    BY <1>2, <2>0 DEF SendError, RejectsEnd, Errors
  <2>6. a.status = 400 \/ a.last
    BY <2>1, <2>3 DEF isToKeepAlive
  <2> HIDE DEF a
  <2> QED BY <2>2, <2>3, <2>4, <2>5, <2>6, <1>0, OneSent
<1>3. CASE Read
  <2>1. answers' = answers
    BY <1>3 DEF Read, ReadVerb, ReadVerb_Reject, ReadVerb_Stray, ReadFirstLine, ReadFirstLine_Reject,
      ReadHeader, ReadHeader_End, ReadContent, Return_Incomplete, Reads, history
  <2>2. state \in Reading
    BY <1>3 DEF Read, ReadVerb, ReadVerb_Reject, ReadVerb_Stray, ReadFirstLine, ReadFirstLine_Reject,
      ReadHeader, ReadHeader_End, ReadContent, Return_Incomplete, Reads, Reading
  <2>3. ~LastSent
    BY <2>2 DEF Reading, LastSent
  <2>4. RejectsEnd'
    BY <1>3, <2>2 DEF Read, ReadVerb, ReadVerb_Reject, ReadVerb_Stray, ReadFirstLine,
      ReadFirstLine_Reject, ReadHeader, ReadHeader_End, ReadContent, Return_Incomplete, Reads, Reject,
      RejectsEnd, Reading, session
  <2> QED BY <2>1, <2>3, <2>4, <1>0, NothingSent
<1>4. CASE SendRequestToApp \/ CheckProtocolChange
  <2>1. answers' = answers /\ ~LastSent /\ RejectsEnd'
    BY <1>4 DEF SendRequestToApp, CheckProtocolChange, Works, LastSent, RejectsEnd, history
  <2> QED BY <2>1, <1>0, NothingSent
<1>5. CASE FinishRequest \/ endHttpRequest_WebSocket \/ endHttpRequest_Close
  <2>1. answers' = answers /\ RejectsEnd'
    BY <1>5 DEF FinishRequest, endHttpRequest_WebSocket, endHttpRequest_Close, RejectsEnd, history
  <2>2. LastSent => LastSent'
    BY <1>5 DEF FinishRequest, endHttpRequest_WebSocket, endHttpRequest_Close, Works, Ending, LastSent,
      isToKeepAlive
  <2> QED BY <2>1, <2>2, <1>0, NothingSent
<1>6. CASE endHttpRequest_KeepAlive
  <2>1. answers' = answers /\ RejectsEnd' /\ ~LastSent
    BY <1>6 DEF endHttpRequest_KeepAlive, RejectsEnd, LastSent
  <2> QED BY <2>1, <1>0, NothingSent
<1>7. CASE Client_Send \/ Client_Close \/ Receive \/ UNCHANGED vars
  <2>1. answers' = answers /\ UNCHANGED session
    BY <1>7 DEF Client_Send, Client_Close, Receive, vars, history
  <2>2. RejectsEnd'
    BY <2>1 DEF EndInv, RejectsEnd, session
  <2>3. LastSent => LastSent'
    <3>1. Receive => ~LastSent \/ task = "inside"
      BY DEF Receive, LastSent
    <3>2. task = "inside" => task' = "inside"
      BY <1>7 DEF Client_Send, Client_Close, Receive, vars, EndInv, FlagSet
    <3>3. ~connected => ~connected'
      BY <1>7 DEF Client_Send, Client_Close, Receive, vars
    <3> QED BY <1>7, <2>1, <3>1, <3>2, <3>3 DEF Receive, session, LastSent, isToKeepAlive
  <2> QED BY <2>1, <2>2, <2>3, <1>0, NothingSent
<1>8. CASE Task_Start \/ Task_End
  <2>1. answers' = answers /\ RejectsEnd'
    BY <1>8, TaskSame DEF EndInv, RejectsEnd, session
  <2>2. LastSent => LastSent'
    BY <1>8, TaskSame DEF Task_Start, Task_End, session, LastSent, isToKeepAlive
  <2> QED BY <2>1, <2>2, <1>0, NothingSent
<1> QED BY <1>1, <1>2, <1>3, <1>4, <1>5, <1>6, <1>7, <1>8
  DEF Next, dataReceivedFrom, Answering, Over

\* Nothing is sent behind an answer that ends its connection, and an answer without its empty
\* line is such a one, but for the 400 of a websocket request without a key.
THEOREM LastAnswerIsLast == Spec => []AnswersEnd
<1>1. EndInv => AnswersEnd
  <2> SUFFICES ASSUME EndInv
               PROVE  AnswersEnd
    OBVIOUS
  <2>1. NothingAfterLast
    BY DEF EndInv, NothingAfterLast
  <2>2. Len(answers) \in Nat
    BY DEF EndInv
  <2>3. \A n \in 1..(Len(answers) - 1) : n \in 1..Len(answers) /\ n # Len(answers)
    BY <2>2
  <2>4. UnendedIsLast
    BY <2>3 DEF EndInv, UnendedIsLast
  <2> QED BY <2>1, <2>4 DEF AnswersEnd
<1>2. TokensTypes /\ SessionTypes /\ EndInv /\ [Next]_vars
        => TokensTypes' /\ SessionTypes' /\ EndInv'
  BY TypesKept, EndKept
<1> QED BY <1>1, <1>2, TypesInit, EndInit, PTL DEF Spec

-----------------------------------------------------------------------------
(* The order of the answers. *)

\* What was sent and not read.
Unread == buffer \o net

\* Where a token stands: at which place of which text, as which request.
Label == [req : Nat, text : Requests \cup {<<>>}, place : Nat]

Fits(a, t) ==
  /\ a.text \in Requests /\ a.place \in 1..Len(a.text)
  /\ t.kind = a.text[a.place].kind /\ t.n = a.text[a.place].n /\ t.req = a.req

Follows(a, b) ==
  IF a.place < Len(a.text) THEN b.req = a.req /\ b.text = a.text /\ b.place = a.place + 1
                           ELSE b.req = a.req + 1 /\ b.place = 1

Earlier(a, b) == a.req < b.req \/ (a.req = b.req /\ a.place < b.place)

\* l[i] is where the i-th token of u stands, and l[0] where the one before stood; the tokens are
\* whole requests from there on, up to number k.
Labels(l, u, k) ==
  /\ l \in [0..Len(u) -> Label]
  /\ \A i \in 1..Len(u) : Fits(l[i], u[i]) /\ Follows(l[i - 1], l[i])
  /\ \A i, j \in 0..Len(u) : i < j => Earlier(l[i], l[j])
  /\ \A i \in 0..Len(u) : l[i].req <= k
  /\ l[Len(u)].req = k /\ l[Len(u)].place = Len(l[Len(u)].text)

Whole(a) == a.place = Len(a.text)

\* The parser has come to the token that stands at a.
Reached(a) ==
  /\ state = "READING_VERB" => Whole(a) /\ a.req = Len(answers) /\ receivedData.from = {}
  /\ state \notin {"READING_VERB", "FINISH_REQUEST", "FINISHED"} =>
       a.req = Len(answers) + 1 /\ receivedData.from = {a.req}
  /\ state = "AWAIT_REMAIN_OF_HTTP_FIRST_LINE" =>
       a.text \in Requests /\ a.place = 1 /\ a.text[1].kind = "verb"
  /\ state = "READING_HEADER" => a.text \in Requests /\ \E h \in 3..Len(a.text) :
       Shape(a.text, h) /\ a.place \in 2..(h - 1) /\ receivedData.contentLength = Declared(a.text, a.place)
  /\ state = "AWAIT_CONTENT" => a.text \in Requests /\ \E h \in 3..Len(a.text) :
       /\ Shape(a.text, h) /\ a.place \in h..(Len(a.text) - 1)
       /\ receivedData.contentLength = Len(a.text) - h /\ receivedData.read = a.place - h
  /\ state \in {"SEND_REQUEST_TO_APP", "CHECK_PROTOCOL_CHANGE", "SEND_RESPONSE"} => Whole(a)
  /\ state \in Errors => Whole(a) \/ ignoreKeepAlive
  /\ state \in {"FINISH_REQUEST", "FINISHED"} => a.req = Len(answers) /\ (Whole(a) \/ ~isToKeepAlive)

OrderedBy(l) == Labels(l, Unread, asked) /\ Reached(l[0])

Ordered == \E l : OrderedBy(l)

\* Nothing more is read or answered.
Silent ==
  /\ task # "inside"
  /\ connected => webSocketOpen /\ task # "queued"

\* One header more.
LEMMA DeclaredNext ==
  ASSUME NEW r \in Seq([kind : Kinds, n : Int]), NEW p \in 0..(Len(r) - 1)
  PROVE  Declared(r, p + 1) = IF r[p + 1].kind = "length" THEN r[p + 1].n % UIntRange ELSE Declared(r, p)
<1> DEFINE G(q) == {i \in 1..q : r[i].kind = "length"}
           D(S) == IF S = {} THEN 0 ELSE r[CHOOSE i \in S : \A j \in S : j <= i].n % UIntRange
<1>0. Declared(r, p) = D(G(p)) /\ Declared(r, p + 1) = D(G(p + 1))
  BY DEF Declared
<1>1. CASE r[p + 1].kind = "length"
  <2>1. p + 1 \in G(p + 1) /\ \A j \in G(p + 1) : j <= p + 1
    BY <1>1
  <2>2. (CHOOSE i \in G(p + 1) : \A j \in G(p + 1) : j <= i) = p + 1
    <3>1. \A i \in G(p + 1) : (\A j \in G(p + 1) : j <= i) => i = p + 1
      BY <2>1
    <3> QED BY <2>1, <3>1
  <2>3. G(p + 1) # {}
    BY <2>1
  <2> HIDE DEF G
  <2> QED BY <1>0, <1>1, <2>2, <2>3
<1>2. CASE r[p + 1].kind # "length"
  <2>1. G(p + 1) = G(p)
    BY <1>2
  <2> HIDE DEF D, G
  <2> QED BY <1>0, <1>2, <2>1
<1> QED BY <1>1, <1>2

\* A token is read.
LEMMA Popped ==
  ASSUME TokensTypes, NEW l, Labels(l, Unread, asked), NEW s, NEW kinds, Reads(s, kinds)
  PROVE  /\ l[0] \in Label /\ l[1] \in Label
         /\ Follows(l[0], l[1]) /\ Fits(l[1], Head(buffer)) /\ l[1].req <= asked
         /\ Head(buffer).kind \in kinds
         /\ state = s /\ asked' = asked /\ answers' = answers /\ connected' = connected
         /\ dropped' = dropped
         /\ \E m : Labels(m, Unread', asked') /\ m[0] = l[1]
<1>1. /\ buffer \in Seq(Token) /\ net \in Seq(Token) /\ buffer # <<>>
      /\ buffer' = Tail(buffer) /\ net' = net /\ asked' = asked
  BY DEF TokensTypes, Reads, history
<1> DEFINE u == Unread
           v == Unread'
<1>2. /\ u \in Seq(Token) /\ v \in Seq(Token) /\ Len(u) \in Nat /\ Len(v) \in Nat
      /\ Len(u) = Len(v) + 1 /\ u[1] = Head(buffer)
      /\ \A i \in 1..Len(v) : v[i] = u[i + 1]
  BY <1>1 DEF Unread
<1> HIDE DEF u, v
<1>3. Labels(l, u, asked)
  BY DEF u
<1>4. 0 \in 0..Len(u) /\ 1 \in 0..Len(u) /\ 1 \in 1..Len(u) /\ 1 - 1 = 0
  BY <1>2
<1>5. /\ l[0] \in Label /\ l[1] \in Label
      /\ Follows(l[0], l[1]) /\ Fits(l[1], Head(buffer)) /\ l[1].req <= asked
  BY <1>2, <1>3, <1>4 DEF Labels
<1> DEFINE m == [i \in 0..Len(v) |-> l[i + 1]]
<1>6. Labels(m, v, asked)
  <2>1. \A i \in 0..Len(v) : i + 1 \in 0..Len(u) /\ m[i] = l[i + 1]
    BY <1>2
  <2>2. m \in [0..Len(v) -> Label]
    BY <1>3, <2>1 DEF Labels
  <2>3. ASSUME NEW i \in 1..Len(v) PROVE Fits(m[i], v[i]) /\ Follows(m[i - 1], m[i])
    <3>1. i + 1 \in 1..Len(u) /\ i \in 0..Len(v) /\ i - 1 \in 0..Len(v) /\ (i + 1) - 1 = i /\ (i - 1) + 1 = i
      BY <1>2
    <3>2. Fits(l[i + 1], u[i + 1]) /\ Follows(l[(i + 1) - 1], l[i + 1])
      BY <1>3, <3>1 DEF Labels
    <3>3. m[i] = l[i + 1] /\ m[i - 1] = l[i]
      BY <2>1, <3>1
    <3> HIDE DEF m
    <3> QED BY <1>2, <3>1, <3>2, <3>3
  <2>4. ASSUME NEW i \in 0..Len(v), NEW j \in 0..Len(v), i < j PROVE Earlier(m[i], m[j])
    <3>1. i + 1 \in 0..Len(u) /\ j + 1 \in 0..Len(u) /\ i + 1 < j + 1
      BY <1>2, <2>4
    <3>2. Earlier(l[i + 1], l[j + 1])
      BY <1>3, <3>1 DEF Labels
    <3> HIDE DEF m
    <3> QED BY <2>1, <3>2
  <2>5. \A i \in 0..Len(v) : m[i].req <= asked
    BY <1>3, <2>1 DEF Labels
  <2>6. m[Len(v)] = l[Len(u)]
    BY <1>2
  <2> HIDE DEF m
  <2> QED BY <1>3, <2>2, <2>3, <2>4, <2>5, <2>6 DEF Labels
<1>7. m[0] = l[1]
  BY <1>2
<1> HIDE DEF m
<1>8. Labels(m, Unread', asked') /\ m[0] = l[1]
  BY <1>1, <1>6, <1>7 DEF v
<1> QED BY <1>5, <1>8 DEF Reads, history

\* A token is read, and the parser has come to where it stands.
LEMMA Advances ==
  ASSUME TokensTypes, NEW l, Labels(l, Unread, asked), NEW s, NEW kinds, Reads(s, kinds), Reached(l[1])'
  PROVE  Ordered'
<1>1. PICK m : Labels(m, Unread', asked') /\ m[0] = l[1]
  BY Popped
<1>2. Reached(m[0])'
  BY <1>1
<1> QED BY <1>1, <1>2 DEF Ordered, OrderedBy

\* The fields of a request after a token was taken.
LEMMA TakenIs ==
  ASSUME TokensTypes, SessionTypes
  PROVE  /\ Taken(receivedData).from = receivedData.from \cup {Head(buffer).req}
         /\ Taken(receivedData).contentLength = receivedData.contentLength
         /\ Taken(receivedData).read = receivedData.read
         /\ Taken(receivedData) = [receivedData EXCEPT !.from = receivedData.from \cup {Head(buffer).req}]
  BY DEF Taken, SessionTypes, Received

\* The next token of the request that is being read.
LEMMA NextToken ==
  ASSUME CompleteRequests, TokensTypes, NEW a \in Label, NEW b \in Label, NEW t,
         Follows(a, b), Fits(b, t), a.text \in Requests, a.place \in 1..(Len(a.text) - 1)
  PROVE  /\ b.text = a.text /\ b.req = a.req /\ b.place = a.place + 1 /\ t.req = a.req
         /\ t.kind = a.text[a.place + 1].kind /\ t.n = a.text[a.place + 1].n
         /\ a.text \in Seq([kind : Kinds, n : Int]) /\ Len(a.text) \in Nat /\ Complete(a.text)
<1>0. a.text \in Seq([kind : Kinds, n : Int])
  BY ExchangeAssumption
<1>1. a.text \in Seq([kind : Kinds, n : Int]) /\ Len(a.text) \in Nat
  BY <1>0
<1>2. a.place < Len(a.text)
  BY <1>1
<1> QED BY <1>1, <1>2 DEF Follows, Fits, CompleteRequests, Label

\* The first token of the next request.
LEMMA FirstToken ==
  ASSUME CompleteRequests, NEW a \in Label, NEW b \in Label, NEW t,
         Follows(a, b), Fits(b, t), Whole(a)
  PROVE  /\ b.req = a.req + 1 /\ b.place = 1 /\ b.text \in Requests /\ t.req = b.req
         /\ t.kind = b.text[1].kind /\ t.kind \in {"verb", "badVerb"}
         /\ Len(b.text) \in Nat
<1>1. b.req = a.req + 1 /\ b.place = 1
  BY DEF Follows, Whole, Label
<1>2. b.text \in Requests /\ t.req = b.req /\ t.kind = b.text[1].kind
  BY <1>1 DEF Fits
<1>3. Complete(b.text)
  BY <1>2 DEF CompleteRequests
<1>4. t.kind \in {"verb", "badVerb"}
  BY <1>2, <1>3 DEF Complete, Shape
<1>5. Len(b.text) \in Nat
  BY <1>2, ExchangeAssumption
<1> QED BY <1>1, <1>2, <1>4, <1>5

\* The three that begin a request, and the one that cannot.
LEMMA ReadVerbAdvances ==
  ASSUME CompleteRequests, TokensTypes, SessionTypes, NEW l, OrderedBy(l),
         ReadVerb \/ ReadVerb_Reject \/ ReadVerb_Stray
  PROVE  Ordered'
<1>1. PICK kinds : Reads("READING_VERB", kinds) /\ (ReadVerb_Stray => kinds = {"blank", "byte"})
  <2>1. CASE ReadVerb_Stray
    BY <2>1 DEF ReadVerb_Stray
  <2>2. CASE ~ReadVerb_Stray
    BY <2>2 DEF ReadVerb, ReadVerb_Reject
  <2> QED BY <2>1, <2>2
<1>2. /\ l[0] \in Label /\ l[1] \in Label
      /\ Follows(l[0], l[1]) /\ Fits(l[1], Head(buffer)) /\ Head(buffer).kind \in kinds
      /\ state = "READING_VERB" /\ answers' = answers
  BY <1>1, Popped DEF OrderedBy
<1>3. Whole(l[0]) /\ l[0].req = Len(answers) /\ receivedData.from = {}
  BY <1>2 DEF OrderedBy, Reached
<1>4. /\ l[1].req = l[0].req + 1 /\ l[1].place = 1 /\ l[1].text \in Requests
      /\ Head(buffer).req = l[1].req /\ Head(buffer).kind = l[1].text[1].kind
      /\ Head(buffer).kind \in {"verb", "badVerb"}
  BY <1>2, <1>3, FirstToken
<1>5. ~ReadVerb_Stray
  BY <1>1, <1>2, <1>4
<1>6. receivedData' = Taken(receivedData) /\ receivedData'.from = {l[1].req}
  BY <1>3, <1>4, <1>5, TakenIs DEF ReadVerb, ReadVerb_Reject, Reject
<1>7. Reached(l[1])'
  <2>1. CASE ReadVerb
    <3>1. state' = "AWAIT_REMAIN_OF_HTTP_FIRST_LINE" /\ Head(buffer).kind = "verb"
      BY <2>1 DEF ReadVerb, Reads
    <3> QED BY <1>2, <1>3, <1>4, <1>6, <3>1 DEF Reached, Errors
  <2>2. CASE ReadVerb_Reject
    <3>1. state' = "ERROR_400_BADREQUEST" /\ ignoreKeepAlive' = TRUE
      BY <2>2 DEF ReadVerb_Reject, Reject
    <3> QED BY <1>2, <1>3, <1>4, <1>6, <3>1 DEF Reached
  <2> QED BY <1>5, <2>1, <2>2
<1> QED BY <1>1, <1>7, Advances DEF OrderedBy

LEMMA ReadFirstLineAdvances ==
  ASSUME CompleteRequests, TokensTypes, SessionTypes, NEW l, OrderedBy(l),
         ReadFirstLine \/ ReadFirstLine_Reject
  PROVE  Ordered'
<1>1. PICK kinds : /\ Reads("AWAIT_REMAIN_OF_HTTP_FIRST_LINE", kinds)
                   /\ ReadFirstLine => kinds = {"line"}
  BY DEF ReadFirstLine, ReadFirstLine_Reject
<1>2. /\ l[0] \in Label /\ l[1] \in Label
      /\ Follows(l[0], l[1]) /\ Fits(l[1], Head(buffer)) /\ Head(buffer).kind \in kinds
      /\ state = "AWAIT_REMAIN_OF_HTTP_FIRST_LINE" /\ answers' = answers
  BY <1>1, Popped DEF OrderedBy
<1> DEFINE r == l[0].text
<1>3. /\ l[0].req = Len(answers) + 1 /\ receivedData.from = {l[0].req}
      /\ r \in Requests /\ l[0].place = 1 /\ r[1].kind = "verb"
  BY <1>2 DEF OrderedBy, Reached
<1>4. Complete(r) /\ Len(r) \in Nat /\ Len(r) > 1
  <2>1. Complete(r) /\ r \in Seq([kind : Kinds, n : Int])
    BY <1>3, ExchangeAssumption DEF CompleteRequests
  <2>2. Len(r) \in Nat
    BY <2>1
  <2> QED BY <1>3, <2>1, <2>2 DEF Complete, Shape
<1>5. /\ l[1].text = r /\ l[1].req = l[0].req /\ l[1].place = 2
      /\ Head(buffer).req = l[0].req /\ Head(buffer).kind = r[2].kind
  <2>1. l[0].place \in 1..(Len(r) - 1)
    BY <1>3, <1>4
  <2>2. PICK a \in Label, b \in Label, c \in {Head(buffer)} : a = l[0] /\ b = l[1] /\ c = Head(buffer)
    BY <1>2
  <2>3. Follows(a, b) /\ Fits(b, c) /\ a.text \in Requests /\ a.place = 1 /\ a.place \in 1..(Len(a.text) - 1)
    BY <1>2, <1>3, <2>1, <2>2
  <2>4. b.text = a.text /\ b.req = a.req /\ b.place = a.place + 1 /\ c.req = a.req
        /\ c.kind = a.text[a.place + 1].kind
    BY <2>3, NextToken
  <2> QED BY <2>2, <2>3, <2>4
<1>6. receivedData'.from = {l[1].req} /\ (ReadFirstLine => receivedData'.contentLength = 0)
  <2>1. CASE ReadFirstLine
    <3>1. receivedData' = [Taken(receivedData) EXCEPT !.contentLength = 0] /\ Taken(receivedData) \in Received
      BY <1>1, <2>1, TakenTypes DEF ReadFirstLine
    <3> QED BY <1>3, <1>5, <2>1, <3>1, TakenIs DEF Received
  <2>2. CASE ReadFirstLine_Reject
    <3>1. receivedData' = Taken(receivedData) /\ ~ReadFirstLine
      BY <2>2 DEF ReadFirstLine_Reject, ReadFirstLine, Reject, Reads
    <3> QED BY <1>3, <1>5, <3>1, TakenIs
  <2> QED BY <2>1, <2>2
<1>7. Reached(l[1])'
  <2>1. CASE ReadFirstLine
    <3>1. state' = "READING_HEADER" /\ Head(buffer).kind = "line"
      BY <2>1 DEF ReadFirstLine, Reads
    <3>2. PICK h \in 3..Len(r) : Shape(r, h)
      BY <1>3, <1>4, <1>5, <3>1 DEF Complete
    <3>3. Declared(r, 2) = 0
      <4>1. {i \in 1..2 : r[i].kind = "length"} = {}
        BY <1>3, <1>5, <3>1
      <4> QED BY <4>1 DEF Declared
    <3>4. 2 \in 2..(h - 1)
      BY <1>4
    <3> HIDE DEF r
    <3> QED BY <1>2, <1>3, <1>5, <1>6, <2>1, <3>1, <3>2, <3>3, <3>4 DEF Reached, Errors
  <2>2. CASE ReadFirstLine_Reject
    <3>1. state' \in Errors /\ ignoreKeepAlive' = TRUE
      BY <2>2 DEF ReadFirstLine_Reject, Reject, Errors
    <3> QED BY <1>2, <1>3, <1>5, <1>6, <3>1 DEF Reached, Errors
  <2> QED BY <2>1, <2>2
<1> QED BY <1>1, <1>7, Advances DEF OrderedBy

LEMMA ReadHeaderAdvances ==
  ASSUME CompleteRequests, TokensTypes, SessionTypes, NEW l, OrderedBy(l), ReadHeader
  PROVE  Ordered'
<1>1. Reads("READING_HEADER", Headers)
  BY DEF ReadHeader
<1>2. /\ l[0] \in Label /\ l[1] \in Label
      /\ Follows(l[0], l[1]) /\ Fits(l[1], Head(buffer)) /\ Head(buffer).kind \in Headers
      /\ state = "READING_HEADER" /\ state' = state /\ answers' = answers
  BY <1>1, Popped DEF OrderedBy, ReadHeader
<1> DEFINE r == l[0].text
           p == l[0].place
<1>3. /\ l[0].req = Len(answers) + 1 /\ receivedData.from = {l[0].req} /\ r \in Requests
  BY <1>2, Zenon DEF OrderedBy, Reached
<1>4. PICK h \in 3..Len(r) :
        Shape(r, h) /\ p \in 2..(h - 1) /\ receivedData.contentLength = Declared(r, p)
  BY <1>2 DEF OrderedBy, Reached
<1>5. r \in Seq([kind : Kinds, n : Int]) /\ Len(r) \in Nat
  <2>1. r \in Seq([kind : Kinds, n : Int])
    BY <1>3, ExchangeAssumption
  <2> QED BY <2>1
<1>6. p \in 1..(Len(r) - 1)
  <2>1. PICK n \in Nat : n = Len(r)
    BY <1>5
  <2>2. h \in 3..n /\ p \in 2..(h - 1)
    BY <1>4, <2>1
  <2>3. p \in 1..(n - 1)
    BY <2>2
  <2> QED BY <2>1, <2>3
<1>7. /\ l[1].text = r /\ l[1].req = l[0].req /\ l[1].place = p + 1 /\ Head(buffer).req = l[0].req
      /\ Head(buffer).kind = r[p + 1].kind /\ Head(buffer).n = r[p + 1].n
  <2>1. PICK a \in Label, b \in Label, c \in {Head(buffer)} : a = l[0] /\ b = l[1] /\ c = Head(buffer)
    BY <1>2
  <2>2. Follows(a, b) /\ Fits(b, c) /\ a.text \in Requests /\ a.place \in 1..(Len(a.text) - 1)
    BY <1>2, <1>3, <1>6, <2>1
  <2>3. b.text = a.text /\ b.req = a.req /\ b.place = a.place + 1 /\ c.req = a.req
        /\ c.kind = a.text[a.place + 1].kind /\ c.n = a.text[a.place + 1].n
    BY <2>2, NextToken
  <2> QED BY <2>1, <2>3
<1> HIDE DEF r, p
<1>8. p + 1 \in 2..(h - 1)
  <2>1. r[h].kind = "blank"
    BY <1>4 DEF Shape
  <2>2. p + 1 # h
    BY <1>2, <1>7, <2>1 DEF Headers
  <2> QED BY <1>4, <1>5, <2>2
<1>9. Declared(r, p + 1) = IF r[p + 1].kind = "length" THEN r[p + 1].n % UIntRange ELSE Declared(r, p)
  <2>1. p \in 0..(Len(r) - 1)
    BY <1>5, <1>6
  <2> QED BY <1>5, <2>1, DeclaredNext
<1>10. /\ receivedData'.from = {l[1].req}
       /\ receivedData'.contentLength = Declared(r, p + 1)
  <2> DEFINE length == IF Head(buffer).kind = "length" THEN Head(buffer).n % UIntRange
                                                       ELSE Taken(receivedData).contentLength
             key == Taken(receivedData).key \/ Head(buffer).kind = "key"
  <2>1. receivedData' = [Taken(receivedData) EXCEPT !.contentLength = length, !.key = key]
    BY Zenon DEF ReadHeader
  <2>2. length = Declared(r, p + 1)
    BY <1>4, <1>7, <1>9, TakenIs
  <2> HIDE DEF length, key
  <2>3. Taken(receivedData) \in Received
    BY <1>1, TakenTypes
  <2>4. receivedData'.from = Taken(receivedData).from /\ receivedData'.contentLength = length
    BY <2>1, <2>3 DEF Received
  <2> QED BY <1>3, <1>7, <2>2, <2>4, TakenIs
<1>11. Reached(l[1])'
  BY <1>2, <1>3, <1>4, <1>7, <1>8, <1>10 DEF Reached, Errors
<1> QED BY <1>1, <1>11, Advances DEF OrderedBy

LEMMA ReadHeaderEndAdvances ==
  ASSUME CompleteRequests, TokensTypes, SessionTypes, NEW l, OrderedBy(l), ReadHeader_End
  PROVE  Ordered'
<1>1. Reads("READING_HEADER", {"blank"})
  BY DEF ReadHeader_End
<1>2. /\ l[0] \in Label /\ l[1] \in Label
      /\ Follows(l[0], l[1]) /\ Fits(l[1], Head(buffer)) /\ Head(buffer).kind = "blank"
      /\ state = "READING_HEADER" /\ answers' = answers
  BY <1>1, Popped DEF OrderedBy
<1> DEFINE r == l[0].text
           p == l[0].place
<1>3. /\ l[0].req = Len(answers) + 1 /\ receivedData.from = {l[0].req} /\ r \in Requests
  BY <1>2, Zenon DEF OrderedBy, Reached
<1>4. PICK h \in 3..Len(r) :
        Shape(r, h) /\ p \in 2..(h - 1) /\ receivedData.contentLength = Declared(r, p)
  BY <1>2 DEF OrderedBy, Reached
<1>5. r \in Seq([kind : Kinds, n : Int]) /\ Len(r) \in Nat
  <2>1. r \in Seq([kind : Kinds, n : Int])
    BY <1>3, ExchangeAssumption
  <2> QED BY <2>1
<1>6. p \in 1..(Len(r) - 1)
  <2>1. PICK n \in Nat : n = Len(r)
    BY <1>5
  <2>2. h \in 3..n /\ p \in 2..(h - 1)
    BY <1>4, <2>1
  <2>3. p \in 1..(n - 1)
    BY <2>2
  <2> QED BY <2>1, <2>3
<1>7. /\ l[1].text = r /\ l[1].req = l[0].req /\ l[1].place = p + 1 /\ Head(buffer).req = l[0].req
      /\ Head(buffer).kind = r[p + 1].kind
  <2>1. PICK a \in Label, b \in Label, c \in {Head(buffer)} : a = l[0] /\ b = l[1] /\ c = Head(buffer)
    BY <1>2
  <2>2. Follows(a, b) /\ Fits(b, c) /\ a.text \in Requests /\ a.place \in 1..(Len(a.text) - 1)
    BY <1>2, <1>3, <1>6, <2>1
  <2>3. b.text = a.text /\ b.req = a.req /\ b.place = a.place + 1 /\ c.req = a.req
        /\ c.kind = a.text[a.place + 1].kind /\ c.n = a.text[a.place + 1].n
    BY <2>2, NextToken
  <2> QED BY <2>1, <2>3
<1> HIDE DEF r, p
<1>8. p + 1 = h
  <2>1. \A i \in 3..(h - 1) : r[i].kind # "blank"
    BY <1>4 DEF Shape, Headers
  <2>2. p + 1 \in 3..h
    BY <1>4, <1>5
  <2> QED BY <1>2, <1>4, <1>5, <1>7, <2>1, <2>2
<1>9. Declared(r, h) = Declared(r, p)
  <2>0. p \in 0..(Len(r) - 1)
    BY <1>5, <1>6
  <2>1. Declared(r, p + 1) = IF r[p + 1].kind = "length" THEN r[p + 1].n % UIntRange ELSE Declared(r, p)
    BY <1>5, <2>0, DeclaredNext
  <2> QED BY <1>2, <1>7, <1>8, <2>1
<1>10. receivedData.contentLength = Len(r) - h
  BY <1>4, <1>9 DEF Shape
<1>11. Taken(receivedData) \in Received /\ Taken(receivedData).from = {l[1].req}
       /\ Taken(receivedData).contentLength = Len(r) - h
  BY <1>1, <1>3, <1>7, <1>10, TakenTypes, TakenIs
<1>12. Reached(l[1])'
  <2>1. CASE receivedData.contentLength = 0
    <3>1. state' = "SEND_REQUEST_TO_APP" /\ receivedData' = Taken(receivedData)
      BY <2>1 DEF ReadHeader_End
    <3>2. Whole(l[1])
      BY <1>5, <1>7, <1>8, <1>10, <2>1 DEF Whole
    <3> QED BY <1>2, <1>3, <1>7, <1>11, <3>1, <3>2 DEF Reached, Errors
  <2>2. CASE receivedData.contentLength # 0
    <3> DEFINE size == BodySize(receivedData.contentLength)
    <3>1. state' = "AWAIT_CONTENT" /\ receivedData' = [Taken(receivedData) EXCEPT !.size = size, !.read = 0]
      BY <2>2 DEF ReadHeader_End
    <3> HIDE DEF size
    <3>2. /\ receivedData'.from = {l[1].req}
          /\ receivedData'.contentLength = Len(r) - h /\ receivedData'.read = 0
      BY <1>11, <3>1 DEF Received
    <3>3. h \in h..(Len(r) - 1) /\ h - h = 0
      BY <1>4, <1>5, <1>10, <2>2
    <3> QED BY <1>2, <1>3, <1>4, <1>7, <1>8, <3>1, <3>2, <3>3 DEF Reached, Errors
  <2> QED BY <2>1, <2>2
<1> QED BY <1>1, <1>12, Advances DEF OrderedBy

LEMMA ReadContentAdvances ==
  ASSUME CompleteRequests, TokensTypes, SessionTypes, BodyInv, NEW l, OrderedBy(l), ReadContent
  PROVE  Ordered'
<1>1. Reads("AWAIT_CONTENT", {"byte"})
  BY DEF ReadContent
<1>2. /\ l[0] \in Label /\ l[1] \in Label
      /\ Follows(l[0], l[1]) /\ Fits(l[1], Head(buffer))
      /\ state = "AWAIT_CONTENT" /\ answers' = answers
  BY <1>1, Popped DEF OrderedBy
<1> DEFINE r == l[0].text
           p == l[0].place
<1>3. /\ l[0].req = Len(answers) + 1 /\ receivedData.from = {l[0].req} /\ r \in Requests
  BY <1>2, Zenon DEF OrderedBy, Reached
<1>4. PICK h \in 3..Len(r) :
        /\ Shape(r, h) /\ p \in h..(Len(r) - 1)
        /\ receivedData.contentLength = Len(r) - h /\ receivedData.read = p - h
  BY <1>2 DEF OrderedBy, Reached
<1>5. r \in Seq([kind : Kinds, n : Int]) /\ Len(r) \in Nat
  <2>1. r \in Seq([kind : Kinds, n : Int])
    BY <1>3, ExchangeAssumption
  <2> QED BY <2>1
<1>6. p \in 1..(Len(r) - 1)
  <2>1. PICK n \in Nat : n = Len(r)
    BY <1>5
  <2>2. h \in 3..n /\ p \in h..(n - 1)
    BY <1>4, <2>1
  <2>3. p \in 1..(n - 1)
    BY <2>2
  <2> QED BY <2>1, <2>3
<1>7. l[1].text = r /\ l[1].req = l[0].req /\ l[1].place = p + 1 /\ Head(buffer).req = l[0].req
  <2>1. PICK a \in Label, b \in Label, c \in {Head(buffer)} : a = l[0] /\ b = l[1] /\ c = Head(buffer)
    BY <1>2
  <2>2. Follows(a, b) /\ Fits(b, c) /\ a.text \in Requests /\ a.place \in 1..(Len(a.text) - 1)
    BY <1>2, <1>3, <1>6, <2>1
  <2>3. b.text = a.text /\ b.req = a.req /\ b.place = a.place + 1 /\ c.req = a.req
        /\ c.kind = a.text[a.place + 1].kind /\ c.n = a.text[a.place + 1].n
    BY <2>2, NextToken
  <2> QED BY <2>1, <2>3
<1> HIDE DEF r, p
<1>8. /\ Taken(receivedData) \in Received /\ Taken(receivedData).from = {l[1].req}
      /\ Taken(receivedData).contentLength = Len(r) - h /\ Taken(receivedData).read = p - h
  BY <1>1, <1>3, <1>4, <1>7, TakenTypes, TakenIs
<1> DEFINE read == (Taken(receivedData).read + 1) % UIntRange
<1>9. receivedData' = [Taken(receivedData) EXCEPT !.read = read]
  BY DEF ReadContent
<1>10. read = (p - h) + 1
  <2>1. /\ receivedData.contentLength \in 1..(UIntRange - 1)
        /\ receivedData.read \in 0..(receivedData.contentLength - 1)
    BY <1>2 DEF BodyInv
  <2>2. PICK x, y, z : x = Taken(receivedData).read /\ y = UIntRange /\ z = receivedData.contentLength
    OBVIOUS
  <2>3. /\ x = receivedData.read /\ x = p - h /\ y \in Nat /\ z \in 1..(y - 1) /\ x \in 0..(z - 1)
    BY <1>4, <1>8, <2>1, <2>2, ExchangeAssumption
  <2>4. (x + 1) % y = x + 1
    BY <2>3
  <2> QED BY <2>2, <2>3, <2>4
<1> HIDE DEF read
<1>11. /\ receivedData'.from = {l[1].req}
       /\ receivedData'.contentLength = Len(r) - h /\ receivedData'.read = (p + 1) - h
  BY <1>4, <1>5, <1>8, <1>9, <1>10 DEF Received
<1>12. state' = IF (p + 1) - h = Len(r) - h THEN "SEND_REQUEST_TO_APP" ELSE state
  BY <1>4, <1>11 DEF ReadContent
<1>13. Reached(l[1])'
  <2>1. CASE p + 1 = Len(r)
    <3>1. state' = "SEND_REQUEST_TO_APP" /\ Whole(l[1])
      BY <1>7, <1>12, <2>1 DEF Whole
    <3> QED BY <1>2, <1>3, <1>7, <1>11, <3>1 DEF Reached, Errors
  <2>2. CASE p + 1 # Len(r)
    <3>1. state' = "AWAIT_CONTENT"
      BY <1>2, <1>4, <1>5, <1>6, <1>12, <2>2
    <3>2. p + 1 \in h..(Len(r) - 1)
      BY <1>4, <1>5, <2>2
    <3> QED BY <1>2, <1>3, <1>4, <1>7, <1>11, <3>1, <3>2 DEF Reached, Errors
  <2> QED BY <2>1, <2>2
<1> QED BY <1>1, <1>13, Advances DEF OrderedBy

LEMMA SameReached ==
  ASSUME UNCHANGED session, answers' = answers, NEW a, Reached(a)
  PROVE  Reached(a)'
  BY DEF Reached, session, isToKeepAlive

\* A step that reads nothing.
LEMMA Unmoved ==
  ASSUME NEW l, OrderedBy(l), Unread' = Unread, asked' = asked, Reached(l[0])'
  PROVE  Ordered'
<1>1. Labels(l, Unread', asked')
  BY DEF OrderedBy
<1> QED BY <1>1 DEF Ordered, OrderedBy

LEMMA ReceiveSame ==
  ASSUME TokensTypes, Receive
  PROVE  Unread' = Unread
<1>1. PICK n \in 1..Len(net) :
        buffer' = buffer \o SubSeq(net, 1, n) /\ net' = SubSeq(net, n + 1, Len(net))
  BY DEF Receive
<1>2. buffer \in Seq(Token) /\ net \in Seq(Token)
  BY DEF TokensTypes
<1> DEFINE x == SubSeq(net, 1, n)
           y == SubSeq(net, n + 1, Len(net))
<1>3. x \in Seq(Token) /\ y \in Seq(Token) /\ Len(x) = n /\ Len(y) = Len(net) - n
  BY <1>2
<1>4. x \o y = net
  <2>1. x \o y \in Seq(Token) /\ Len(x \o y) = Len(net)
    BY <1>2, <1>3
  <2>2. ASSUME NEW i \in 1..Len(net) PROVE (x \o y)[i] = net[i]
    BY <1>2, <1>3, <2>2
  <2> HIDE DEF x, y
  <2>3. x \o y \in Seq(Token) /\ net \in Seq(Token) /\ Len(x \o y) = Len(net)
        /\ \A i \in 1..Len(x \o y) : (x \o y)[i] = net[i]
    BY <1>2, <2>1, <2>2
  <2> DEFINE z == x \o y
  <2> HIDE DEF z
  <2>4. z = net
    BY <2>3, SeqEqual DEF z
  <2> QED BY <2>4 DEF z
<1>5. (buffer \o x) \o y = buffer \o (x \o y)
  <2> HIDE DEF x, y
  <2>1. buffer \in Seq(Token) /\ x \in Seq(Token) /\ y \in Seq(Token)
    BY <1>2, <1>3
  <2>2. \A S : \A s, t, w \in Seq(S) : (s \o t) \o w = s \o (t \o w)
    BY ConcatAssociative
  <2> HIDE DEF x, y
  <2> QED BY <2>1
<1> QED BY <1>1, <1>4, <1>5 DEF Unread

LEMMA ReceiveKeeps ==
  ASSUME TokensTypes, NEW l, OrderedBy(l), Receive
  PROVE  Ordered'
<1>1. asked' = asked /\ Reached(l[0])'
  BY SameReached DEF Receive, OrderedBy, history
<1> QED BY <1>1, ReceiveSame, Unmoved

\* The request that is sent is labelled with its own places.
LEMMA SendKeeps ==
  ASSUME CompleteRequests, TokensTypes, NEW l, OrderedBy(l), Client_Send
  PROVE  Ordered'
<1>1. PICK r \in Requests :
        net' = net \o [i \in 1..Len(r) |-> [kind |-> r[i].kind, n |-> r[i].n, req |-> asked + 1]]
  BY DEF Client_Send
<1>2. asked \in Nat /\ asked' = asked + 1 /\ buffer' = buffer
  BY ExchangeAssumption DEF Client_Send, TokensTypes
<1>3. Len(r) \in Nat /\ Len(r) > 0
  <2>1. r \in Seq([kind : Kinds, n : Int]) /\ Complete(r)
    BY ExchangeAssumption DEF CompleteRequests
  <2>2. Len(r) \in Nat /\ r # <<>>
    BY <2>1 DEF Complete
  <2> QED BY <2>1, <2>2
<1> DEFINE new == [i \in 1..Len(r) |-> [kind |-> r[i].kind, n |-> r[i].n, req |-> asked + 1]]
           u == Unread
           v == Unread'
           A == UNION {Token, {new[i] : i \in 1..Len(r)}}
<1>4. new \in Seq(A) /\ Len(new) = Len(r)
  BY <1>3
<1>5. /\ u \in Seq(A) /\ v = u \o new
  <2>1. buffer \in Seq(Token) /\ net \in Seq(Token)
    BY DEF TokensTypes
  <2>2. Token \subseteq A
    OBVIOUS
  <2> HIDE DEF A, new
  <2>3. buffer \in Seq(A) /\ net \in Seq(A)
    BY <2>1, <2>2
  <2>4. u \in Seq(A)
    BY <2>3 DEF Unread
  <2>5. v = buffer \o (net \o new)
    BY <1>1, <1>2 DEF Unread, new
  <2>6. \A S : \A s, t, w \in Seq(S) : (s \o t) \o w = s \o (t \o w)
    BY ConcatAssociative
  <2>7. (buffer \o net) \o new = buffer \o (net \o new)
    BY <1>4, <2>3
  <2>8. u = buffer \o net
    BY DEF Unread
  <2> QED BY <2>4, <2>5, <2>7, <2>8
<1>6. /\ Len(u) \in Nat /\ Len(v) = Len(u) + Len(r)
      /\ \A i \in 1..Len(u) : v[i] = u[i]
      /\ \A i \in (Len(u) + 1)..Len(v) : v[i] = new[i - Len(u)]
  <2> HIDE DEF A, new, u, v
  <2>1. Len(u) \in Nat /\ Len(v) = Len(u) + Len(new)
    BY <1>4, <1>5
  <2>2. \A i \in 1..(Len(u) + Len(new)) : v[i] = IF i <= Len(u) THEN u[i] ELSE new[i - Len(u)]
    BY <1>4, <1>5
  <2> QED BY <1>3, <1>4, <2>1, <2>2
<1>7. \A i \in 1..Len(r) : new[i] = [kind |-> r[i].kind, n |-> r[i].n, req |-> asked + 1]
  OBVIOUS
<1>8. Labels(l, u, asked)
  BY DEF OrderedBy
<1> HIDE DEF new, u, v, A
<1> DEFINE m == [i \in 0..Len(v) |-> IF i <= Len(u) THEN l[i]
                                     ELSE [req |-> asked + 1, text |-> r, place |-> i - Len(u)]]
<1>9. /\ \A i \in 0..Len(u) : i \in 0..Len(v) /\ m[i] = l[i]
      /\ \A i \in (Len(u) + 1)..Len(v) :
           i \in 0..Len(v) /\ m[i] = [req |-> asked + 1, text |-> r, place |-> i - Len(u)]
  BY <1>3, <1>6
<1> DEFINE at(i) == [req |-> asked + 1, text |-> r, place |-> i - Len(u)]
<1>91. \A i : at(i).req = asked + 1 /\ at(i).place = i - Len(u) /\ at(i).text = r
  OBVIOUS
<1>92. \A i \in (Len(u) + 1)..Len(v) : m[i].req = asked + 1 /\ m[i].place = i - Len(u) /\ m[i].text = r
  BY <1>9, <1>91
<1>10. m \in [0..Len(v) -> Label]
  <2>1. \A i \in 0..Len(u) : l[i] \in Label
    BY <1>8 DEF Labels
  <2>2. \A i \in (Len(u) + 1)..Len(v) : [req |-> asked + 1, text |-> r, place |-> i - Len(u)] \in Label
    BY <1>2, <1>3, <1>6 DEF Label
  <2>3. \A i \in 0..Len(v) : m[i] \in Label
    BY <1>3, <1>6, <1>9, <2>1, <2>2
  <2> QED BY <2>3
<1> HIDE DEF m
<1>11. ASSUME NEW i \in 1..Len(v) PROVE Fits(m[i], v[i]) /\ Follows(m[i - 1], m[i])
  <2>1. CASE i <= Len(u)
    <3>1. i \in 1..Len(u) /\ i \in 0..Len(u) /\ i - 1 \in 0..Len(u)
      BY <1>6, <2>1
    <3>2. m[i] = l[i] /\ m[i - 1] = l[i - 1] /\ v[i] = u[i]
      BY <1>6, <1>9, <3>1
    <3> QED BY <1>8, <3>1, <3>2 DEF Labels
  <2>2. CASE i > Len(u)
    <3>1. i \in (Len(u) + 1)..Len(v) /\ i - Len(u) \in 1..Len(r)
      BY <1>3, <1>6, <2>2
    <3>2. m[i] = [req |-> asked + 1, text |-> r, place |-> i - Len(u)]
      BY <1>9, <3>1
    <3>3. v[i] = new[i - Len(u)]
      BY <1>6, <3>1
    <3>4. v[i] = [kind |-> r[i - Len(u)].kind, n |-> r[i - Len(u)].n, req |-> asked + 1]
      BY <1>7, <3>1, <3>3
    <3>5. Fits(m[i], v[i])
      BY <3>1, <3>2, <3>4 DEF Fits
    <3>6. CASE i = Len(u) + 1
      <4>1. m[i - 1] = l[Len(u)]
        BY <1>6, <1>9, <3>6
      <4>2. l[Len(u)].req = asked /\ l[Len(u)].place = Len(l[Len(u)].text)
        BY <1>8 DEF Labels
      <4>3. l[Len(u)] \in Label
        BY <1>6, <1>8 DEF Labels
      <4>4. ~(l[Len(u)].place < Len(l[Len(u)].text))
        BY <4>2, <4>3 DEF Label
      <4>5. m[i].req = asked + 1 /\ m[i].place = 1
        BY <1>6, <3>2, <3>6
      <4> QED BY <3>5, <4>1, <4>2, <4>4, <4>5 DEF Follows
    <3>7. CASE i # Len(u) + 1
      <4>1. i - 1 \in (Len(u) + 1)..Len(v) /\ (i - 1) - Len(u) < Len(r) /\ ((i - 1) - Len(u)) + 1 = i - Len(u)
        <5>1. PICK x, y, z : x = Len(u) /\ y = Len(v) /\ z = Len(r)
          OBVIOUS
        <5>2. x \in Nat /\ z \in Nat /\ y = x + z /\ i \in (x + 1)..y /\ i - x \in 1..z /\ i # x + 1
          BY <1>3, <1>6, <3>1, <3>7, <5>1
        <5>3. i - 1 \in (x + 1)..y /\ (i - 1) - x < z /\ ((i - 1) - x) + 1 = i - x
          BY <5>2
        <5> QED BY <5>1, <5>3
      <4> DEFINE p == (i - 1) - Len(u)
                 q == i - Len(u)
      <4>2. m[i - 1] = [req |-> asked + 1, text |-> r, place |-> p]
        BY <1>9, <4>1
      <4>3. m[i] = [req |-> asked + 1, text |-> r, place |-> q] /\ q = p + 1 /\ p < Len(r)
        BY <3>2, <4>1
      <4> HIDE DEF p, q
      <4> QED BY <3>5, <4>2, <4>3 DEF Follows
    <3> QED BY <3>6, <3>7
  <2> QED BY <1>6, <2>1, <2>2
<1>12. ASSUME NEW i \in 0..Len(v), NEW j \in 0..Len(v), i < j PROVE Earlier(m[i], m[j])
  <2>1. CASE j <= Len(u)
    <3>1. i \in 0..Len(u) /\ j \in 0..Len(u)
      BY <1>6, <1>12, <2>1
    <3>2. m[i] = l[i] /\ m[j] = l[j]
      BY <1>9, <3>1
    <3> QED BY <1>8, <1>12, <3>1, <3>2 DEF Labels
  <2>2. CASE j > Len(u) /\ i <= Len(u)
    <3>1. i \in 0..Len(u) /\ j \in (Len(u) + 1)..Len(v)
      BY <1>6, <2>2
    <3>2. l[i].req <= asked /\ l[i] \in Label
      BY <1>8, <3>1 DEF Labels
    <3>3. m[i].req < m[j].req
      BY <1>2, <1>9, <1>92, <3>1, <3>2 DEF Label
    <3> QED BY <3>3 DEF Earlier
  <2>3. CASE i > Len(u)
    <3>1. i \in (Len(u) + 1)..Len(v) /\ j \in (Len(u) + 1)..Len(v)
      BY <1>6, <1>12, <2>3
    <3>2. m[i].req = m[j].req /\ m[i].place < m[j].place
      BY <1>6, <1>92, <1>12, <3>1
    <3> QED BY <3>2 DEF Earlier
  <2> QED BY <1>6, <2>1, <2>2, <2>3
<1>13. \A i \in 0..Len(v) : m[i].req <= asked'
  <2>1. ASSUME NEW i \in 0..Len(u) PROVE m[i].req <= asked'
    <3>1. l[i] \in Label /\ l[i].req <= asked /\ m[i] = l[i]
      BY <1>8, <1>9 DEF Labels
    <3>2. l[i].req \in Int
      BY <3>1 DEF Label
    <3> QED BY <1>2, <3>1, <3>2
  <2>2. \A i \in (Len(u) + 1)..Len(v) : m[i].req <= asked'
    BY <1>2, <1>92
  <2> QED BY <1>3, <1>6, <2>1, <2>2
<1>14. m[Len(v)].req = asked' /\ m[Len(v)].place = Len(m[Len(v)].text)
  <2>1. Len(v) \in (Len(u) + 1)..Len(v) /\ Len(v) - Len(u) = Len(r)
    BY <1>3, <1>6
  <2> QED BY <1>2, <1>92, <2>1
<1>15. Labels(m, Unread', asked')
  BY <1>10, <1>11, <1>12, <1>13, <1>14 DEF Labels, v
<1>16. m[0] = l[0]
  BY <1>6, <1>9
<1>17. PICK c : c = m
  OBVIOUS
<1>18. Labels(c, Unread', asked') /\ c[0] = l[0]
  BY <1>15, <1>16, <1>17
<1>19. Reached(l[0])'
  <2>1. UNCHANGED session /\ answers' = answers
    BY DEF Client_Send
  <2> QED BY <2>1, SameReached DEF OrderedBy
<1>20. Reached(c[0])'
  BY <1>18, <1>19
<1> QED BY <1>18, <1>20 DEF Ordered, OrderedBy

\* An answer to the first request that has none is what was promised.
LEMMA AnswerPromised ==
  ASSUME answers \in Seq(Answer), asked \in Nat, Len(answers) < asked,
         NEW a \in Answer, answers' = Append(answers, a), a.to = {Len(answers) + 1},
         asked' = asked, connected' = connected
  PROVE  Promise!Next
<1>0. PICK N : N = Len(answers)
  OBVIOUS
<1> DEFINE old == [n \in 1..Len(answers) |-> AnswerTo(n)]
           new == [n \in 1..Len(answers') |-> AnswerTo(n)']
<1>1. /\ N \in Nat /\ Len(answers') = N + 1
      /\ \A n \in 1..N : answers'[n] = answers[n]
      /\ answers'[N + 1] = a
  BY <1>0
<1>2. \A n \in 1..N : AnswerTo(n)' = AnswerTo(n)
  BY <1>1 DEF AnswerTo
<1>3. AnswerTo(N + 1)' = N + 1
  BY <1>0, <1>1 DEF AnswerTo
<1>4. Len(old) = N /\ \A n \in 1..N : old[n] = AnswerTo(n)
  BY <1>0, <1>1
<1>5. new = [n \in 1..(N + 1) |-> IF n <= N THEN old[n] ELSE N + 1]
  <2>1. \A n \in 1..(N + 1) : n \in 1..N \/ n = N + 1
    BY <1>1
  <2>2. \A n \in 1..(N + 1) : AnswerTo(n)' = IF n <= N THEN old[n] ELSE N + 1
    <3> HIDE DEF old
    <3> QED BY <1>1, <1>2, <1>3, <1>4, <2>1
  <2> HIDE DEF old
  <2> QED BY <1>1, <2>2
<1>6. old \in Seq(Nat)
  BY <1>0, <1>1 DEF AnswerTo
<1>7. Append(old, N + 1) = [n \in 1..(N + 1) |-> IF n <= N THEN old[n] ELSE N + 1]
  <2> HIDE DEF old
  <2> QED BY <1>1, <1>4, <1>6
<1>8. new = Append(old, Len(old) + 1)
  BY <1>4, <1>5, <1>7
<1> HIDE DEF old
<1>9. Len(old) < asked
  BY <1>0, <1>4
<1> QED BY <1>8, <1>9 DEF Promise!Next, Promise!Answer, old, new

\* The steps that read.
LEMMA ReadAdvances ==
  ASSUME CompleteRequests, TokensTypes, SessionTypes, BodyInv, NEW l, OrderedBy(l), Read
  PROVE  Ordered' /\ UNCHANGED <<asked, answers, connected>>
<1>1. UNCHANGED <<asked, answers, connected>>
  BY DEF Read, ReadVerb, ReadVerb_Reject, ReadVerb_Stray, ReadFirstLine, ReadFirstLine_Reject,
    ReadHeader, ReadHeader_End, ReadContent, Return_Incomplete, Reads, history
<1>2. CASE Return_Incomplete
  <2>1. Unread' = Unread /\ UNCHANGED session
    BY <1>2 DEF Return_Incomplete, Unread
  <2>2. Reached(l[0])'
    BY <1>1, <2>1, SameReached DEF OrderedBy
  <2> QED BY <1>1, <2>1, <2>2, Unmoved
<1>3. CASE ReadVerb \/ ReadVerb_Reject \/ ReadVerb_Stray
  BY <1>1, <1>3, ReadVerbAdvances
<1>4. CASE ReadFirstLine \/ ReadFirstLine_Reject
  BY <1>1, <1>4, ReadFirstLineAdvances
<1>5. CASE ReadHeader
  BY <1>1, <1>5, ReadHeaderAdvances
<1>6. CASE ReadHeader_End
  BY <1>1, <1>6, ReadHeaderEndAdvances
<1>7. CASE ReadContent
  BY <1>1, <1>7, ReadContentAdvances
<1> QED BY <1>2, <1>3, <1>4, <1>5, <1>6, <1>7 DEF Read

\* The steps before an answer is sent.
LEMMA PrepareKeeps ==
  ASSUME NEW l, OrderedBy(l), SendRequestToApp \/ CheckProtocolChange \/ FinishRequest
  PROVE  Ordered' /\ UNCHANGED <<asked, answers, connected>>
<1>1. UNCHANGED <<asked, answers, connected>> /\ Unread' = Unread
  BY DEF SendRequestToApp, CheckProtocolChange, FinishRequest, history, Unread
<1>2. CASE SendRequestToApp
  <2>1. /\ state = "SEND_REQUEST_TO_APP" /\ state' = "CHECK_PROTOCOL_CHANGE"
        /\ receivedData' = [receivedData EXCEPT !.status = IF IsUpgrade THEN 101 ELSE @]
    BY <1>2, Zenon DEF SendRequestToApp, Works
  <2>2. receivedData'.from = receivedData.from
    BY <2>1
  <2>3. Reached(l[0])'
    BY <1>1, <2>1, <2>2 DEF OrderedBy, Reached, Errors
  <2> QED BY <1>1, <2>3, Unmoved
<1>3. CASE CheckProtocolChange
  <2>1. /\ state = "CHECK_PROTOCOL_CHANGE" /\ state' \in {"SEND_RESPONSE", "ERROR_400_BADREQUEST"}
        /\ receivedData' = receivedData
    BY <1>3 DEF CheckProtocolChange, Works
  <2>2. Reached(l[0])'
    BY <1>1, <2>1 DEF OrderedBy, Reached, Errors
  <2> QED BY <1>1, <2>2, Unmoved
<1>4. CASE FinishRequest
  <2>1. state = "FINISH_REQUEST" /\ state' = "FINISHED" /\ isToKeepAlive' = isToKeepAlive
    BY <1>4 DEF FinishRequest, Works, isToKeepAlive
  <2>2. Reached(l[0])'
    BY <1>1, <2>1 DEF OrderedBy, Reached, Errors
  <2> QED BY <1>1, <2>2, Unmoved
<1> QED BY <1>2, <1>3, <1>4

\* An answer is sent: to the request that was read.
LEMMA SentInOrder ==
  ASSUME TokensTypes, SessionTypes, EndInv, NEW l, OrderedBy(l), SendResponse \/ SendError
  PROVE  Ordered' /\ Promise!Next
<1>1. /\ state \in Errors \cup {"SEND_RESPONSE"} /\ state' \in {"FINISH_REQUEST", "FINISHED"}
      /\ asked' = asked /\ connected' = connected /\ Unread' = Unread /\ isToKeepAlive' = isToKeepAlive
      /\ ignoreKeepAlive => ~isToKeepAlive
  <2>1. CASE SendResponse
    BY <2>1 DEF SendResponse, Works, Unread, isToKeepAlive
  <2>2. CASE SendError
    <3>1. /\ state \in Errors /\ state' = "FINISHED"
          /\ UNCHANGED <<net, buffer, asked, connected, connection, ignoreKeepAlive>>
      BY <2>2 DEF SendError
    <3> QED BY <3>1 DEF Unread, isToKeepAlive
  <2> QED BY <2>1, <2>2
<1>2. PICK a \in Answer : answers' = Append(answers, a) /\ a.to = receivedData.from
  <2>1. CASE SendResponse
    <3>1. FinalStatus(dataToSend) \in Nat /\ dataToSend.length \in Nat
      BY FinalStatusTypes
    <3> DEFINE a == Sent(FinalStatus(dataToSend), dataToSend.length, TRUE)
    <3>2. a \in Answer
      BY <3>1, SentIs
    <3>3. answers' = Append(answers, a) /\ a.to = receivedData.from
      BY <2>1 DEF SendResponse, Sent
    <3> QED BY <3>2, <3>3
  <2>2. CASE SendError
    <3> DEFINE status == CASE state = "ERROR_400_BADREQUEST" -> 400
                           [] state = "ERROR_500_INTERNALSERVERERROR" -> 500
                           [] state = "ERROR_501_NOT_IMPLEMENTED" -> 501
               a == Sent(status, 0, FALSE)
    <3>1. status \in Nat
      BY <2>2 DEF SendError, Errors
    <3>2. answers' = Append(answers, a)
      BY <2>2 DEF SendError
    <3> HIDE DEF status
    <3>3. a \in Answer /\ a.to = receivedData.from
      BY <3>1, SentIs DEF Sent
    <3> QED BY <3>2, <3>3
  <2> QED BY <2>1, <2>2
<1>3. /\ answers \in Seq(Answer) /\ Len(answers) \in Nat /\ Len(answers') = Len(answers) + 1
  BY <1>2 DEF EndInv
<1>4. /\ l[0].req = Len(answers) + 1 /\ receivedData.from = {l[0].req}
      /\ Whole(l[0]) \/ ~isToKeepAlive
  BY <1>1 DEF OrderedBy, Reached, Errors
<1>5. l[0].req <= asked /\ asked \in Nat
  <2>1. Len(Unread) \in Nat
    BY DEF Unread, TokensTypes
  <2>2. 0 \in 0..Len(Unread)
    BY <2>1
  <2> QED BY <2>2, ExchangeAssumption DEF OrderedBy, Labels, TokensTypes
<1>6. Promise!Next
  BY <1>1, <1>2, <1>3, <1>4, <1>5, AnswerPromised
<1>7. Reached(l[0])'
  BY <1>1, <1>3, <1>4 DEF Reached, Errors
<1> QED BY <1>1, <1>6, <1>7, Unmoved

\* A request has ended: the connection is kept for the next, whose beginning may be lost.
LEMMA EndKeeps ==
  ASSUME TokensTypes, NEW l, OrderedBy(l), endHttpRequest_KeepAlive
  PROVE  /\ UNCHANGED <<asked, answers, connected>>
         /\ Silent' \/ (Whole(l[0]) /\ l[0].req = Len(answers))
         /\ buffer = <<>> /\ ~Silent' => Ordered'
<1>1. /\ UNCHANGED <<asked, answers, connected, net>> /\ buffer' = <<>> /\ task' = "none" /\ isToKeepAlive
      /\ state' = "READING_VERB" /\ receivedData' = NoRequest
  BY DEF endHttpRequest_KeepAlive
<1>2. state = "FINISHED" \/ ~connected
  BY DEF endHttpRequest_KeepAlive, Ending, Works
<1>3. Silent' \/ state = "FINISHED"
  BY <1>1, <1>2 DEF Silent
<1>4. Silent' \/ (Whole(l[0]) /\ l[0].req = Len(answers))
  BY <1>1, <1>3 DEF OrderedBy, Reached
<1>5. ASSUME buffer = <<>>, ~Silent' PROVE Ordered'
  <2>1. Unread' = Unread
    BY <1>1, <1>5 DEF Unread
  <2>2. Reached(l[0])'
    BY <1>1, <1>4, <1>5 DEF Reached, NoRequest, Errors
  <2> QED BY <1>1, <2>1, <2>2, Unmoved
<1> QED BY <1>1, <1>4, <1>5

\* As long as no byte is thrown away, whatever happens is in order.
LEMMA OrderedStep ==
  ASSUME CompleteRequests, TokensTypes, SessionTypes, BodyInv, EndInv, NEW l, OrderedBy(l), [Next]_vars
  PROVE  /\ Promise!Next \/ UNCHANGED <<asked, answers, connected>>
         /\ \/ Ordered' \/ Silent'
            \/ endHttpRequest_KeepAlive /\ buffer # <<>> /\ Whole(l[0]) /\ l[0].req = Len(answers)
<1>1. CASE Client_Send
  <2>1. Ordered'
    BY <1>1, SendKeeps
  <2>2. Promise!Next
    BY <1>1 DEF Client_Send, Promise!Next, Promise!Ask, AnswerTo
  <2> QED BY <2>1, <2>2
<1>2. CASE Client_Close
  <2>1. Unread' = Unread /\ asked' = asked /\ answers' = answers /\ UNCHANGED session
    BY <1>2 DEF Client_Close, Unread, history
  <2>2. Reached(l[0])'
    BY <2>1, SameReached DEF OrderedBy
  <2>3. Ordered'
    BY <2>1, <2>2, Unmoved
  <2>4. Promise!Next
    BY <1>2 DEF Client_Close, Promise!Next, Promise!Close, AnswerTo, history
  <2> QED BY <2>3, <2>4
<1>3. CASE Receive
  BY <1>3, ReceiveKeeps DEF Receive, history
<1>4. CASE Read
  BY <1>4, ReadAdvances
<1>5. CASE SendRequestToApp \/ CheckProtocolChange \/ FinishRequest
  BY <1>5, PrepareKeeps
<1>6. CASE SendResponse \/ SendError
  BY <1>6, SentInOrder
<1>7. CASE endHttpRequest_WebSocket
  BY <1>7 DEF endHttpRequest_WebSocket, Silent, history
<1>8. CASE endHttpRequest_KeepAlive
  BY <1>8, EndKeeps
<1>9. CASE endHttpRequest_Close
  <2>1. Silent'
    BY <1>9 DEF endHttpRequest_Close, Silent
  <2>2. CASE connected
    BY <1>9, <2>1, <2>2 DEF endHttpRequest_Close, Promise!Next, Promise!Close, AnswerTo, history
  <2>3. CASE ~connected
    <3>1. UNCHANGED <<asked, answers, connected>>
      BY <1>9, <2>3 DEF endHttpRequest_Close, history, SessionTypes
    <3> QED BY <2>1, <3>1
  <2> QED BY <2>2, <2>3
<1>10. CASE UNCHANGED vars
  <2>1. Unread' = Unread /\ asked' = asked /\ answers' = answers /\ connected' = connected /\ UNCHANGED session
    BY <1>10 DEF vars, Unread, history
  <2>2. Reached(l[0])'
    BY <2>1, SameReached DEF OrderedBy
  <2> QED BY <2>1, <2>2, Unmoved
<1>11. CASE Task_Start \/ Task_End
  <2>1. Unread' = Unread /\ asked' = asked /\ answers' = answers /\ connected' = connected /\ UNCHANGED session
    BY <1>11, TaskSame DEF Unread
  <2>2. Reached(l[0])'
    BY <2>1, SameReached DEF OrderedBy
  <2> QED BY <2>1, <2>2, Unmoved
<1> QED BY <1>1, <1>2, <1>3, <1>4, <1>5, <1>6, <1>7, <1>8, <1>9, <1>10, <1>11
  DEF Next, dataReceivedFrom, Answering, Over

\* When nothing is read or answered any more, the client may still ask or close.
LEMMA SilentStep ==
  ASSUME Silent, SessionTypes, [Next]_vars
  PROVE  Silent' /\ (Promise!Next \/ UNCHANGED <<asked, answers, connected>>) /\ (Client_Send \/ asked' = asked)
         /\ answers' = answers
<1>1. CASE Client_Send
  BY <1>1 DEF Silent, Client_Send, session, Promise!Next, Promise!Ask, AnswerTo
<1>2. CASE Client_Close
  BY <1>2 DEF Silent, Client_Close, session, Promise!Next, Promise!Close, AnswerTo, history
<1>3. CASE UNCHANGED vars
  BY <1>3 DEF Silent, vars, session, history
<1>4. ~Receive
  BY DEF Silent, Receive
<1>5. ~dataReceivedFrom
  <2>1. task # "inside"
    BY DEF Silent
  <2>2. ~Read
    BY <2>1 DEF Read, ReadVerb, ReadVerb_Reject, ReadVerb_Stray, ReadFirstLine, ReadFirstLine_Reject,
      ReadHeader, ReadHeader_End, ReadContent, Return_Incomplete, Reads
  <2>3. ~Answering
    BY <2>1 DEF Answering, SendRequestToApp, CheckProtocolChange, SendResponse, FinishRequest, SendError,
      endHttpRequest_WebSocket, endHttpRequest_KeepAlive, endHttpRequest_Close, Ending, Works
  <2> QED BY <2>2, <2>3 DEF dataReceivedFrom
<1>6. CASE Task_Start \/ Task_End
  <2>1. task' \in {"inside", "none"} /\ (task' = "inside" => task = "queued" /\ connected)
    BY <1>6 DEF Task_Start, Task_End
  <2>2. UNCHANGED <<connected, webSocketOpen, asked, answers>>
    BY <1>6, TaskSame DEF session
  <2> QED BY <2>1, <2>2 DEF Silent
<1> QED BY <1>1, <1>2, <1>3, <1>4, <1>5, <1>6 DEF Next, Over

LEMMA PromiseInit == Init => Promise!Init
<1> SUFFICES ASSUME Init
             PROVE  Promise!Init
  OBVIOUS
<1>1. asked = 0 /\ answers = <<>> /\ connected = TRUE
  BY Zenon DEF Init
<1>2. [n \in 1..Len(answers) |-> AnswerTo(n)] = <<>>
  BY <1>1
<1> QED BY <1>1, <1>2 DEF Promise!Init

LEMMA OrderedInit == Init => Ordered
<1> SUFFICES ASSUME Init
             PROVE  Ordered
  OBVIOUS
<1>1. /\ net = <<>> /\ buffer = <<>> /\ asked = 0 /\ answers = <<>> /\ state = "READING_VERB"
      /\ receivedData = NoRequest
  BY Zenon DEF Init
<1> DEFINE a == [req |-> 0, text |-> <<>>, place |-> 0]
           l == [i \in 0..0 |-> a]
<1>2. Unread = <<>> /\ Len(Unread) = 0
  BY <1>1 DEF Unread
<1>3. a \in Label /\ a.req = 0 /\ Whole(a)
  BY DEF Label, Whole
<1>4. l \in [0..0 -> Label] /\ l[0] = a /\ l[0].place = Len(l[0].text)
  BY <1>3 DEF Whole
<1> HIDE DEF a, l
<1>5. Labels(l, Unread, asked)
  <2>1. \A i \in 0..0 : i = 0
    OBVIOUS
  <2>2. 1..0 = {}
    OBVIOUS
  <2>3. \A i, j \in 0..0 : ~(i < j)
    OBVIOUS
  <2>4. \A i \in 0..0 : l[i].req <= 0
    BY <1>3, <1>4, <2>1
  <2> QED BY <1>1, <1>2, <1>3, <1>4, <2>2, <2>3, <2>4 DEF Labels
<1>6. Reached(l[0])
  BY <1>1, <1>3, <1>4 DEF Reached, NoRequest, Errors
<1>7. OrderedBy(l)
  BY <1>5, <1>6 DEF OrderedBy
<1> QED BY <1>7 DEF Ordered

-----------------------------------------------------------------------------
(* Any client. *)

InOrder == dropped \/ Silent \/ Ordered

LEMMA InOrderKept ==
  ASSUME CompleteRequests, TokensTypes, SessionTypes, BodyInv, EndInv, InOrder, [Next]_vars
  PROVE  InOrder' /\ [Promise!Next \/ dropped']_<<asked, answers, connected>>
<1>1. CASE dropped
  <2>1. dropped'
    BY <1>1 DEF Next, dataReceivedFrom, Read, ReadVerb, ReadVerb_Reject, ReadVerb_Stray, ReadFirstLine,
      ReadFirstLine_Reject, ReadHeader, ReadHeader_End, ReadContent, Return_Incomplete, Reads, Answering,
      SendRequestToApp, CheckProtocolChange, SendResponse, FinishRequest, SendError,
      endHttpRequest_WebSocket, endHttpRequest_KeepAlive, endHttpRequest_Close, Client_Send, Client_Close,
      Receive, Task_Start, Task_End, Over, vars, history
  <2> QED BY <2>1 DEF InOrder
<1>2. CASE Silent
  BY <1>2, SilentStep DEF InOrder
<1>3. CASE Ordered
  <2>1. PICK l : OrderedBy(l)
    BY <1>3 DEF Ordered
  <2>2. endHttpRequest_KeepAlive /\ buffer # <<>> => dropped'
    BY DEF endHttpRequest_KeepAlive
  <2> QED BY <2>1, <2>2, OrderedStep DEF InOrder
<1> QED BY <1>1, <1>2, <1>3 DEF InOrder

\* Until a keep-alive throws bytes away, every answer goes to the first request that has none,
\* and there is none after the close: also for a client that does not wait for its answers.
THEOREM AnsweredInOrder ==
  ASSUME CompleteRequests
  PROVE  Spec => Promise!Init /\ [][Promise!Next \/ dropped']_<<asked, answers, connected>>
<1>1. Init => TokensTypes /\ SessionTypes /\ BodyInv /\ EndInv /\ InOrder
  BY TypesInit, BodyInit, EndInit, OrderedInit DEF InOrder
<1>2. Init => Promise!Init
  BY PromiseInit
<1> DEFINE All == TokensTypes /\ SessionTypes /\ BodyInv /\ EndInv /\ InOrder
<1>3. All /\ [Next]_vars => All' /\ [Promise!Next \/ dropped']_<<asked, answers, connected>>
  BY TypesKept, BodyKept, EndKept, InOrderKept
<1> HIDE DEF All
<1>4. Init => All
  BY <1>1 DEF All
<1> QED BY <1>2, <1>3, <1>4, PTL DEF Spec

-----------------------------------------------------------------------------
(* A client that waits. *)

\* A keep-alive has thrown the beginning of the request away: what is left of it has no verb.
Torn ==
  /\ asked = Len(answers) + 1 /\ state = "READING_VERB" /\ receivedData.from = {}
  /\ \A i \in 1..Len(Unread) : Unread[i].req = asked /\ Unread[i].kind # "verb"

\* It is refused, which ends the connection.
TornRefused ==
  asked = Len(answers) + 1 /\ state \in Errors /\ ignoreKeepAlive /\ receivedData.from = {asked}

Ends == state = "FINISHED" /\ ~isToKeepAlive

OneAtATime ==
  /\ asked \in Len(answers)..(Len(answers) + 1)
  /\ Silent \/ Ordered \/ Torn \/ TornRefused \/ Ends

\* The tokens behind the first of the only request that has no answer are none that begin one.
LEMMA OthersOfOne ==
  ASSUME CompleteRequests, TokensTypes, answers \in Seq(Answer), NEW l, OrderedBy(l),
         Whole(l[0]), l[0].req = Len(answers), asked <= Len(answers) + 1, buffer # <<>>
  PROVE  /\ asked = Len(answers) + 1
         /\ \A i \in 2..Len(Unread) : Unread[i].req = asked /\ Unread[i].kind # "verb"
<1> DEFINE u == Unread
<1>1. u \in Seq(Token) /\ Len(u) \in Nat /\ Len(u) >= 1
  <2>1. buffer \in Seq(Token) /\ net \in Seq(Token)
    BY DEF TokensTypes
  <2>2. Len(buffer) \in Nat /\ Len(net) \in Nat /\ Len(buffer) >= 1
    BY <2>1
  <2>3. u \in Seq(Token) /\ Len(u) = Len(buffer) + Len(net)
    BY <2>1 DEF Unread
  <2> QED BY <2>2, <2>3
<1>2. Labels(l, u, asked)
  BY DEF OrderedBy
<1> HIDE DEF u
<1>3. Len(answers) \in Nat /\ asked \in Nat
  BY ExchangeAssumption DEF TokensTypes
<1>4. 0 \in 0..Len(u) /\ 1 \in 0..Len(u) /\ 1 \in 1..Len(u) /\ 1 - 1 = 0
  BY <1>1
<1>5. l[1].req = Len(answers) + 1 /\ l[1].place = 1 /\ l[1].req <= asked
  <2>1. Follows(l[0], l[1]) /\ l[0] \in Label /\ l[1] \in Label /\ l[1].req <= asked
    BY <1>2, <1>4 DEF Labels
  <2>2. ~(l[0].place < Len(l[0].text))
    BY <2>1 DEF Whole, Label
  <2> QED BY <2>1, <2>2 DEF Follows
<1>6. asked = Len(answers) + 1
  BY <1>3, <1>5
<1>7. ASSUME NEW i \in 2..Len(u) PROVE u[i].req = asked /\ u[i].kind # "verb"
  <2>1. i \in 1..Len(u) /\ i \in 0..Len(u) /\ 1 < i
    BY <1>1
  <2>2. Fits(l[i], u[i]) /\ Earlier(l[1], l[i]) /\ l[i].req <= asked /\ l[i] \in Label
    BY <1>2, <1>4, <2>1 DEF Labels
  <2>3. l[i].req = asked /\ l[i].place > 1
    BY <1>5, <1>6, <1>3, <2>2 DEF Earlier, Label
  <2> DEFINE r == l[i].text
             p == l[i].place
  <2>4. r \in Requests /\ p \in 1..Len(r) /\ u[i].kind = r[p].kind /\ u[i].req = l[i].req
    BY <2>2 DEF Fits
  <2>5. r \in Seq([kind : Kinds, n : Int]) /\ Complete(r)
    BY <2>4, ExchangeAssumption DEF CompleteRequests
  <2>6. p > 1
    BY <2>3
  <2> HIDE DEF r, p
  <2>7. Len(r) \in Nat
    BY <2>5
  <2>8. p \in 2..Len(r)
    BY <2>4, <2>6, <2>7
  <2>9. r[p].kind # "verb"
    BY <2>5, <2>8 DEF Complete
  <2> QED BY <2>3, <2>4, <2>9
<1> QED BY <1>6, <1>7 DEF u

\* Which is how a keep-alive leaves them.
LEMMA KeepAliveTears ==
  ASSUME CompleteRequests, TokensTypes, answers \in Seq(Answer), NEW l, OrderedBy(l),
         Whole(l[0]), l[0].req = Len(answers), asked <= Len(answers) + 1, buffer # <<>>,
         endHttpRequest_KeepAlive
  PROVE  Torn'
<1>1. /\ UNCHANGED <<asked, answers, net>> /\ buffer' = <<>>
      /\ state' = "READING_VERB" /\ receivedData' = NoRequest
  BY DEF endHttpRequest_KeepAlive
<1>2. /\ asked = Len(answers) + 1
      /\ \A i \in 2..Len(Unread) : Unread[i].req = asked /\ Unread[i].kind # "verb"
  BY OthersOfOne
<1>3. buffer \in Seq(Token) /\ net \in Seq(Token) /\ Unread = buffer \o net
  BY DEF TokensTypes, Unread
<1>4. Unread' = net
  BY <1>1, <1>3 DEF Unread
<1>5. \A i \in 1..Len(net) : Len(buffer) + i \in 2..Len(Unread) /\ Unread[Len(buffer) + i] = net[i]
  <2>1. Len(buffer) \in Nat /\ Len(buffer) >= 1 /\ Len(net) \in Nat /\ Len(Unread) = Len(buffer) + Len(net)
    BY <1>3
  <2>2. \A i \in 1..Len(net) : Unread[Len(buffer) + i] = net[i]
    BY <1>3
  <2> QED BY <2>1, <2>2
<1>6. \A i \in 1..Len(net) : net[i].req = asked /\ net[i].kind # "verb"
  BY <1>2, <1>5
<1> QED BY <1>1, <1>2, <1>4, <1>6 DEF Torn, NoRequest

\* What is left of it is never taken for a request.
LEMMA TornStep ==
  ASSUME TokensTypes, SessionTypes, Torn, [Next]_vars, ~Client_Send
  PROVE  /\ Torn' \/ TornRefused'
         /\ Promise!Next \/ UNCHANGED <<asked, answers, connected>>
         /\ asked' = asked /\ answers' = answers
<1> USE DEF Torn
<1>0. buffer \in Seq(Token) /\ net \in Seq(Token)
  BY DEF TokensTypes
<1>1. CASE Client_Close
  <2>1. Unread' = Unread
    BY <1>1 DEF Client_Close, Unread
  <2>2. Torn'
    BY <1>1, <2>1 DEF Client_Close, session, history
  <2>3. Promise!Next
    BY <1>1 DEF Client_Close, Promise!Next, Promise!Close, AnswerTo, history
  <2> QED BY <1>1, <2>2, <2>3 DEF Client_Close, history
<1>2. CASE Receive
  <2>1. Unread' = Unread
    BY <1>2, ReceiveSame
  <2> QED BY <1>2, <2>1 DEF Receive, session, history
<1>3. CASE UNCHANGED vars
  <2>1. Unread' = Unread
    BY <1>3 DEF vars, Unread
  <2> QED BY <1>3, <2>1 DEF vars, session, history
<1>4. CASE Return_Incomplete
  <2>1. Unread' = Unread
    BY <1>4 DEF Return_Incomplete, Unread
  <2> QED BY <1>4, <2>1 DEF Return_Incomplete, session, history
<1>5. ASSUME buffer # <<>>, buffer' = Tail(buffer), net' = net
      PROVE  /\ Head(buffer).kind # "verb" /\ Head(buffer).req = asked
             /\ \A i \in 1..Len(Unread') : Unread'[i].req = asked /\ Unread'[i].kind # "verb"
  <2>1. /\ Len(buffer) \in Nat /\ Len(buffer) >= 1 /\ Len(net) \in Nat
        /\ Tail(buffer) \in Seq(Token) /\ Len(Tail(buffer)) = Len(buffer) - 1
    BY <1>0, <1>5
  <2>2. Len(Unread) = Len(buffer) + Len(net) /\ Len(Unread') = Len(Unread) - 1
    BY <1>0, <1>5, <2>1 DEF Unread
  <2>3. Unread[1] = Head(buffer)
    BY <1>0, <1>5, <2>1 DEF Unread
  <2>4. \A i \in 1..Len(Unread') : Unread'[i] = Unread[i + 1]
    BY <1>0, <1>5, <2>1 DEF Unread
  <2>5. \A i \in 1..Len(Unread') : i + 1 \in 1..Len(Unread)
    BY <2>1, <2>2
  <2>6. 1 \in 1..Len(Unread)
    BY <2>1, <2>2
  <2> QED BY <2>3, <2>4, <2>5, <2>6
<1>6. CASE ReadVerb_Reject
  <2>1. Head(buffer).req = asked
    BY <1>5, <1>6 DEF ReadVerb_Reject, Reads
  <2>2. receivedData' = Taken(receivedData) /\ state' = "ERROR_400_BADREQUEST" /\ ignoreKeepAlive' = TRUE
        /\ UNCHANGED <<asked, answers, connected>>
    BY <1>6 DEF ReadVerb_Reject, Reject, Reads, history
  <2>3. receivedData'.from = {asked}
    BY <2>1, <2>2, TakenIs
  <2> QED BY <2>2, <2>3 DEF TornRefused, Errors
<1>7. CASE ReadVerb_Stray
  <2>1. buffer # <<>> /\ buffer' = Tail(buffer) /\ UNCHANGED <<net, asked, answers, connected, state, receivedData>>
    BY <1>7 DEF ReadVerb_Stray, Reads, history
  <2> QED BY <1>5, <2>1
<1>8. ~ReadVerb
  BY <1>5 DEF ReadVerb, Reads
<1>9. ~(ReadFirstLine \/ ReadFirstLine_Reject \/ ReadHeader \/ ReadHeader_End \/ ReadContent)
  BY DEF ReadFirstLine, ReadFirstLine_Reject, ReadHeader, ReadHeader_End, ReadContent, Reads
<1>10. ~Answering
  BY DEF Answering, SendRequestToApp, CheckProtocolChange, SendResponse, FinishRequest, SendError,
    endHttpRequest_WebSocket, endHttpRequest_KeepAlive, endHttpRequest_Close, Ending, Works, Errors
<1>11. CASE Task_Start \/ Task_End
  <2>1. Unread' = Unread
    BY <1>11, TaskSame DEF Unread
  <2> QED BY <1>11, <2>1, TaskSame DEF session
<1> QED BY <1>1, <1>2, <1>3, <1>4, <1>6, <1>7, <1>8, <1>9, <1>10, <1>11
  DEF Next, dataReceivedFrom, Read, Over

LEMMA TornRefusedStep ==
  ASSUME TokensTypes, SessionTypes, EndInv, TornRefused, [Next]_vars, ~Client_Send
  PROVE  /\ Promise!Next \/ UNCHANGED <<asked, answers, connected>>
         /\ asked' = asked
         /\ \/ TornRefused' /\ answers' = answers
            \/ Ends' /\ Len(answers') = Len(answers) + 1
<1>1. CASE SendError
  <2> DEFINE status == CASE state = "ERROR_400_BADREQUEST" -> 400
                         [] state = "ERROR_500_INTERNALSERVERERROR" -> 500
                         [] state = "ERROR_501_NOT_IMPLEMENTED" -> 501
             a == Sent(status, 0, FALSE)
  <2>1. status \in Nat
    BY <1>1 DEF SendError, Errors
  <2>2. answers' = Append(answers, a)
    BY <1>1 DEF SendError
  <2>3. UNCHANGED <<asked, connected, connection, ignoreKeepAlive>> /\ state' = "FINISHED"
    BY <1>1 DEF SendError
  <2> HIDE DEF status
  <2>4. a \in Answer /\ a.to = receivedData.from
    BY <2>1, SentIs DEF Sent
  <2> HIDE DEF a
  <2>5. asked = Len(answers) + 1 /\ a.to = {Len(answers) + 1} /\ answers \in Seq(Answer) /\ asked \in Nat
    BY <2>4, ExchangeAssumption DEF TornRefused, EndInv, TokensTypes
  <2>6. Len(answers) < asked /\ Len(answers') = Len(answers) + 1
    BY <2>2, <2>5
  <2>7. Promise!Next
    BY <2>2, <2>3, <2>4, <2>5, <2>6, AnswerPromised
  <2> QED BY <2>3, <2>6, <2>7 DEF Ends, isToKeepAlive, TornRefused
<1>2. CASE Client_Close
  <2>1. Promise!Next
    BY <1>2 DEF Client_Close, Promise!Next, Promise!Close, AnswerTo, history
  <2> QED BY <1>2, <2>1 DEF Client_Close, session, history, TornRefused
<1>3. CASE Receive \/ Task_Start \/ Task_End \/ UNCHANGED vars
  BY <1>3, TaskSame DEF Receive, vars, session, history, TornRefused
<1>4. ~Read
  BY DEF TornRefused, Errors, Read, ReadVerb, ReadVerb_Reject, ReadVerb_Stray, ReadFirstLine, ReadFirstLine_Reject,
    ReadHeader, ReadHeader_End, ReadContent, Return_Incomplete, Reads, Reading
<1>5. Answering => SendError
  BY DEF TornRefused, Errors, Answering, SendRequestToApp, CheckProtocolChange, SendResponse, FinishRequest,
    endHttpRequest_WebSocket, endHttpRequest_KeepAlive, endHttpRequest_Close, Ending, Works
<1> QED BY <1>1, <1>2, <1>3, <1>4, <1>5 DEF Next, dataReceivedFrom, Over

\* After an answer that ends the connection only its end is left.
LEMMA EndsStep ==
  ASSUME SessionTypes, Ends, [Next]_vars
  PROVE  /\ Promise!Next \/ UNCHANGED <<asked, answers, connected>>
         /\ answers' = answers /\ (Client_Send \/ asked' = asked)
         /\ Ends' \/ Silent'
<1>1. CASE Client_Send
  BY <1>1 DEF Client_Send, session, Ends, isToKeepAlive, Promise!Next, Promise!Ask, AnswerTo
<1>2. CASE Client_Close
  BY <1>2 DEF Client_Close, session, history, Ends, isToKeepAlive, Promise!Next, Promise!Close, AnswerTo
<1>3. CASE Receive \/ Task_Start \/ Task_End \/ UNCHANGED vars
  BY <1>3, TaskSame DEF Receive, vars, session, history, Ends, isToKeepAlive
<1>4. ~Read
  BY DEF Ends, Read, ReadVerb, ReadVerb_Reject, ReadVerb_Stray, ReadFirstLine, ReadFirstLine_Reject,
    ReadHeader, ReadHeader_End, ReadContent, Return_Incomplete, Reads, Reading
<1>5. CASE endHttpRequest_WebSocket
  BY <1>5 DEF endHttpRequest_WebSocket, Silent, history
<1>6. CASE endHttpRequest_Close
  <2>1. Silent' /\ UNCHANGED <<asked, answers>> /\ connected' = FALSE
    BY <1>6 DEF endHttpRequest_Close, Silent, history
  <2>2. CASE connected
    BY <2>1, <2>2 DEF Promise!Next, Promise!Close, AnswerTo
  <2>3. CASE ~connected
    BY <2>1, <2>3 DEF SessionTypes
  <2> QED BY <2>1, <2>2, <2>3
<1>7. Answering => endHttpRequest_WebSocket \/ endHttpRequest_Close
  BY DEF Ends, Errors, Answering, SendRequestToApp, CheckProtocolChange, SendResponse, FinishRequest, SendError,
    endHttpRequest_KeepAlive, Works
<1> QED BY <1>1, <1>2, <1>3, <1>4, <1>5, <1>6, <1>7 DEF Next, dataReceivedFrom, Over

LEMMA OneAtATimeKept ==
  ASSUME CompleteRequests, TokensTypes, SessionTypes, BodyInv, EndInv, OneAtATime, [Next]_vars,
         Client_Send => Len(answers) = asked
  PROVE  OneAtATime' /\ [Promise!Next]_<<asked, answers, connected>>
<1>0. answers \in Seq(Answer) /\ Len(answers) \in Nat /\ asked \in Nat
  BY ExchangeAssumption DEF EndInv, TokensTypes
<1>1. asked = Len(answers) \/ asked = Len(answers) + 1
  BY <1>0 DEF OneAtATime
<1>2. Client_Send => asked = Len(answers) /\ asked' = asked + 1 /\ answers' = answers
  BY DEF Client_Send
<1>3. CASE Silent
  <2>1. /\ Silent' /\ (Promise!Next \/ UNCHANGED <<asked, answers, connected>>)
        /\ Client_Send \/ asked' = asked
        /\ answers' = answers
    BY <1>3, SilentStep
  <2> QED BY <1>0, <1>1, <1>2, <2>1 DEF OneAtATime
<1>4. CASE Ends
  <2>1. /\ Promise!Next \/ UNCHANGED <<asked, answers, connected>>
        /\ answers' = answers /\ (Client_Send \/ asked' = asked)
        /\ Ends' \/ Silent'
    BY <1>4, EndsStep
  <2> QED BY <1>0, <1>1, <1>2, <2>1 DEF OneAtATime
<1>5. CASE Torn
  <2>1. ~Client_Send
    BY <1>0, <1>2, <1>5 DEF Torn
  <2>2. /\ Torn' \/ TornRefused'
        /\ Promise!Next \/ UNCHANGED <<asked, answers, connected>>
        /\ asked' = asked /\ answers' = answers
    BY <1>5, <2>1, TornStep
  <2> QED BY <1>0, <1>1, <2>2 DEF OneAtATime
<1>6. CASE TornRefused
  <2>1. ~Client_Send /\ asked = Len(answers) + 1
    BY <1>0, <1>2, <1>6 DEF TornRefused
  <2>2. /\ Promise!Next \/ UNCHANGED <<asked, answers, connected>>
        /\ asked' = asked
        /\ \/ TornRefused' /\ answers' = answers
           \/ Ends' /\ Len(answers') = Len(answers) + 1
    BY <1>6, <2>1, TornRefusedStep
  <2> QED BY <1>0, <2>1, <2>2 DEF OneAtATime
<1>7. CASE Ordered
  <2>1. PICK l : OrderedBy(l)
    BY <1>7 DEF Ordered
  <2>2. /\ Promise!Next \/ UNCHANGED <<asked, answers, connected>>
        /\ \/ Ordered' \/ Silent'
           \/ endHttpRequest_KeepAlive /\ buffer # <<>> /\ Whole(l[0]) /\ l[0].req = Len(answers)
    BY <2>1, OrderedStep
  <2>3. Ordered' \/ Silent' \/ Torn'
    BY <1>0, <1>1, <2>1, <2>2, KeepAliveTears
  <2>4. asked' \in Len(answers')..(Len(answers') + 1)
    <3>1. CASE Client_Send
      BY <1>0, <1>2, <3>1
    <3>2. CASE SendResponse \/ SendError
      <4>1. Len(answers') = Len(answers) + 1 /\ asked' = asked
        <5>1. CASE SendResponse
          BY <1>0, <5>1 DEF SendResponse
        <5>2. CASE SendError
          BY <1>0, <5>2 DEF SendError
        <5> QED BY <3>2, <5>1, <5>2
      <4>2. l[0].req = Len(answers) + 1 /\ l[0].req <= asked
        <5>1. state \in Errors \cup {"SEND_RESPONSE"}
          BY <3>2 DEF SendResponse, SendError, Works
        <5>2. Len(Unread) \in Nat
          BY DEF Unread, TokensTypes
        <5>3. 0 \in 0..Len(Unread)
          BY <5>2
        <5> QED BY <2>1, <5>1, <5>3 DEF OrderedBy, Reached, Labels, Errors
      <4> QED BY <1>0, <1>1, <4>1, <4>2
    <3>3. CASE ~Client_Send /\ ~SendResponse /\ ~SendError
      <4>1. asked' = asked /\ answers' = answers
        BY <3>3 DEF Next, dataReceivedFrom, Read, ReadVerb, ReadVerb_Reject, ReadVerb_Stray, ReadFirstLine,
          ReadFirstLine_Reject, ReadHeader, ReadHeader_End, ReadContent, Return_Incomplete, Reads, Answering,
          SendRequestToApp, CheckProtocolChange, FinishRequest, endHttpRequest_WebSocket,
          endHttpRequest_KeepAlive, endHttpRequest_Close, Client_Close, Receive, Task_Start, Task_End, Over, vars, history
      <4> QED BY <1>0, <1>1, <4>1
    <3> QED BY <3>1, <3>2, <3>3
  <2> QED BY <2>2, <2>3, <2>4 DEF OneAtATime
<1> QED BY <1>3, <1>4, <1>5, <1>6, <1>7 DEF OneAtATime

\* To a client that waits for each answer before it sends again, RequestResponse is kept to
\* whatever it sends, however it arrives and whatever a keep-alive throws away.
THEOREM WaitingAnswered ==
  ASSUME CompleteRequests, ~Pipelines
  PROVE  Spec => Promise!Spec
<1> DEFINE All == TokensTypes /\ SessionTypes /\ BodyInv /\ EndInv /\ OneAtATime
<1>1. Init => All
  <2>1. Init => OneAtATime
    <3>1. Init => asked = 0 /\ answers = <<>>
      BY Zenon DEF Init
    <3> QED BY <3>1, OrderedInit DEF OneAtATime
  <2> QED BY <2>1, TypesInit, BodyInit, EndInit
<1>2. Init => Promise!Init
  BY PromiseInit
<1>3. All /\ [Next]_vars => All' /\ [Promise!Next]_<<asked, answers, connected>>
  <2>1. Client_Send => Len(answers) = asked
    BY DEF Client_Send
  <2> QED BY <2>1, TypesKept, BodyKept, EndKept, OneAtATimeKept
<1>4. [Promise!Next]_<<asked, answers, connected>>
        => [Promise!Next]_<<asked, [n \in 1..Len(answers) |-> AnswerTo(n)], connected>>
  BY DEF AnswerTo
<1> HIDE DEF All
<1> QED BY <1>1, <1>2, <1>3, <1>4, PTL DEF Spec, Promise!Spec

StoreP == INSTANCE SessionStoreProofs

-----------------------------------------------------------------------------
(* The components as their proofs see them. *)

LEMMA LockConstants == StoreP!LockAssumption
  BY LockAssumption DEF StoreP!LockAssumption

LEMMA UpdateConstants == StoreP!StoreAssumption
  BY StoreConstants DEF StoreP!StoreAssumption, Store!StoreAssumption

LEMMA SameLock ==
  ASSUME NEW t \in Threads
  PROVE  (Store!Lock(t) <=> StoreP!Lock(t)) /\ (Run!Lock(t) <=> Lock(t))
  BY DEF Store!Lock, StoreP!Lock, Run!Lock, Lock, Store!At, StoreP!At, Run!At, At,
    Store!Comes, StoreP!Comes, Run!Comes, Comes, Store!Holds, StoreP!Holds, Run!Holds, Holds,
    Store!Inside, StoreP!Inside, Run!Inside, Inside,
    Store!Goto, StoreP!Goto, Run!Goto, Goto,
    Store!waitAndLockFile_Test, StoreP!waitAndLockFile_Test, Run!waitAndLockFile_Test, waitAndLockFile_Test,
    Store!waitAndLockFile_Sleep, StoreP!waitAndLockFile_Sleep, Run!waitAndLockFile_Sleep, waitAndLockFile_Sleep,
    Store!LeftAfterSleep, StoreP!LeftAfterSleep, Run!LeftAfterSleep, LeftAfterSleep,
    Store!waitAndLockFile_Write, StoreP!waitAndLockFile_Write, Run!waitAndLockFile_Write, waitAndLockFile_Write,
    Store!unlockFile_Test, StoreP!unlockFile_Test, Run!unlockFile_Test, unlockFile_Test,
    Store!unlockFile_Delete, StoreP!unlockFile_Delete, Run!unlockFile_Delete, unlockFile_Delete

LEMMA SameStore == (Store!Init <=> StoreP!Init) /\ (Store!Next <=> StoreP!Next) /\ (Store!TypeOK <=> StoreP!TypeOK)
<1>1. Store!Init <=> StoreP!Init
  BY DEF Store!Init, StoreP!Init, Store!LockInit, StoreP!LockInit
<1>2. Store!TypeOK <=> StoreP!TypeOK
  BY DEF Store!TypeOK, StoreP!TypeOK
<1>3. ASSUME NEW t \in Threads
      PROVE  Store!Call(t) \/ Store!Step(t) <=> StoreP!Call(t) \/ StoreP!Step(t)
  BY SameLock DEF Store!At, StoreP!At, Store!Goto, StoreP!Goto, Store!file, StoreP!file,
    Store!sessionVars, StoreP!sessionVars, Store!Call, StoreP!Call, Store!Step, StoreP!Step,
    Store!setSessionData_Call, StoreP!setSessionData_Call, Store!getSessionData_Call, StoreP!getSessionData_Call,
    Store!getSessionData_Exists, StoreP!getSessionData_Exists, Store!getSessionData_Read, StoreP!getSessionData_Read,
    Store!setSessionData_Read, StoreP!setSessionData_Read, Store!Merged, StoreP!Merged,
    Store!setSessionData_Open, StoreP!setSessionData_Open, Store!setSessionData_Close, StoreP!setSessionData_Close,
    Store!Return, StoreP!Return
<1>4. Store!Crash <=> StoreP!Crash
  BY DEF Store!Crash, StoreP!Crash, Store!file, StoreP!file
<1>5. Store!Next <=> StoreP!Next
  BY <1>3, <1>4 DEF Store!Next, StoreP!Next
<1> QED BY <1>1, <1>2, <1>5

\* A client that waits does what any client may, and has all its answers when it sends.
LEMMA WaitingStep ==
  ASSUME Waiting!Next, asked \in Nat
  PROVE  Next /\ (Client_Send => Len(answers) = asked)
<1> USE DEF Waiting!session, session, Waiting!history, history, Waiting!pool, Waiting!Leaves
<1>1. CASE Waiting!Client_Send
  <2>1. Client_Send /\ Len(answers) = asked
    BY <1>1 DEF Waiting!Client_Send, Client_Send
  <2> QED BY <2>1 DEF Next
<1>2. CASE Waiting!Client_Close \/ Waiting!Receive \/ Waiting!Over
  <2>1. asked' = asked
    BY <1>2 DEF Waiting!Client_Close, Waiting!Receive, Waiting!Over, Waiting!vars
  <2>2. Waiting!Client_Close => Client_Close
    BY DEF Waiting!Client_Close, Client_Close
  <2>3. Waiting!Receive => Receive
    BY DEF Waiting!Receive, Receive
  <2>4. Waiting!Over => Over
    BY DEF Waiting!Over, Over, Waiting!vars, vars
  <2> QED BY <1>2, <2>1, <2>2, <2>3, <2>4 DEF Next, Client_Send
<1>5. CASE Waiting!Task_Start \/ Waiting!Task_End
  <2>1. Task_Start \/ Task_End
    BY <1>5 DEF Waiting!Task_Start, Task_Start, Waiting!Task_End, Task_End
  <2>2. asked' = asked
    BY <2>1, TaskSame
  <2> QED BY <2>1, <2>2 DEF Next, Client_Send
<1>3. CASE Waiting!Read
  <2> USE DEF Waiting!Reads, Reads, Waiting!Taken, Taken, Waiting!Reject, Reject
  <2>1. asked' = asked
    BY <1>3 DEF Waiting!Read, Waiting!ReadVerb, Waiting!ReadVerb_Reject, Waiting!ReadVerb_Stray,
      Waiting!ReadFirstLine, Waiting!ReadFirstLine_Reject, Waiting!ReadHeader, Waiting!ReadHeader_End,
      Waiting!ReadContent, Waiting!Return_Incomplete
  <2>2. (Waiting!ReadVerb => ReadVerb) /\ (Waiting!ReadVerb_Stray => ReadVerb_Stray)
    BY DEF Waiting!ReadVerb, ReadVerb, Waiting!ReadVerb_Stray, ReadVerb_Stray, Waiting!NoText, NoText,
      Waiting!TooLong, TooLong, Waiting!Characters, Characters
  <2>3. Waiting!ReadVerb_Reject => ReadVerb_Reject
    BY DEF Waiting!ReadVerb_Reject, ReadVerb_Reject, Waiting!Headers, Headers,
      Waiting!TooLong, TooLong, Waiting!Characters, Characters
  <2>4. Waiting!ReadFirstLine => ReadFirstLine
    BY DEF Waiting!ReadFirstLine, ReadFirstLine
  <2>5. Waiting!ReadFirstLine_Reject => ReadFirstLine_Reject
    BY DEF Waiting!ReadFirstLine_Reject, ReadFirstLine_Reject
  <2>6. Waiting!ReadHeader => ReadHeader
    BY DEF Waiting!ReadHeader, ReadHeader, Waiting!Headers, Headers, Waiting!Connection, Connection
  <2>7. Waiting!ReadHeader_End => ReadHeader_End
    BY DEF Waiting!ReadHeader_End, ReadHeader_End, Waiting!BodySize, BodySize
  <2>8. Waiting!ReadContent => ReadContent
    BY DEF Waiting!ReadContent, ReadContent
  <2>9. Waiting!Return_Incomplete => Return_Incomplete
    BY DEF Waiting!Return_Incomplete, Return_Incomplete, Waiting!Reading, Reading
  <2>10. Read
    BY <1>3, <2>2, <2>3, <2>4, <2>5, <2>6, <2>7, <2>8, <2>9 DEF Waiting!Read, Read
  <2> QED BY <2>1, <2>10 DEF Next, dataReceivedFrom, Client_Send
<1>4. CASE Waiting!Answering
  <2> USE DEF Waiting!Works, Works, Waiting!Ending, Ending, Waiting!isToKeepAlive, isToKeepAlive
  <2>1. asked' = asked
    BY <1>4 DEF Waiting!Answering, Waiting!SendRequestToApp, Waiting!CheckProtocolChange, Waiting!SendResponse,
      Waiting!FinishRequest, Waiting!SendError, Waiting!endHttpRequest_WebSocket,
      Waiting!endHttpRequest_KeepAlive, Waiting!endHttpRequest_Close
  <2>2. Waiting!SendRequestToApp => SendRequestToApp
    BY DEF Waiting!SendRequestToApp, SendRequestToApp, Waiting!Answered, Answered, Waiting!NotFound, NotFound,
      Waiting!IsUpgrade, IsUpgrade, Waiting!NoAnswer, NoAnswer
  <2>3. Waiting!CheckProtocolChange => CheckProtocolChange
    BY DEF Waiting!CheckProtocolChange, CheckProtocolChange
  <2>4. Waiting!SendResponse => SendResponse
    BY DEF Waiting!SendResponse, SendResponse, Waiting!FinalStatus, FinalStatus, Waiting!Sent, Sent
  <2>5. Waiting!FinishRequest => FinishRequest
    BY DEF Waiting!FinishRequest, FinishRequest
  <2>6. Waiting!SendError => SendError
    BY DEF Waiting!SendError, SendError, Waiting!Errors, Errors, Waiting!Sent, Sent
  <2>7. (Waiting!endHttpRequest_WebSocket => endHttpRequest_WebSocket)
        /\ (Waiting!endHttpRequest_Close => endHttpRequest_Close)
    BY DEF Waiting!endHttpRequest_WebSocket, endHttpRequest_WebSocket, Waiting!endHttpRequest_Close,
      endHttpRequest_Close
  <2>8. Waiting!endHttpRequest_KeepAlive => endHttpRequest_KeepAlive
    BY DEF Waiting!endHttpRequest_KeepAlive, endHttpRequest_KeepAlive, Waiting!NoRequest, NoRequest,
      Waiting!NoAnswer, NoAnswer, Waiting!NoText, NoText
  <2>9. Answering
    BY <1>4, <2>2, <2>3, <2>4, <2>5, <2>6, <2>7, <2>8 DEF Waiting!Answering, Answering
  <2> QED BY <2>1, <2>9 DEF Next, dataReceivedFrom, Client_Send
<1> QED BY <1>1, <1>2, <1>3, <1>4, <1>5 DEF Waiting!Next, Waiting!dataReceivedFrom

-----------------------------------------------------------------------------
(* The users of lockFileAndRun, for any threads and any timeout: as long as no  *)
(* threads race for the lock and none stops waiting while it is in use, the     *)
(* lock is held once, whatever throws, and every lister reads its own listing.  *)

\* Why a lister reads its own listing: nobody else lists while it holds the lock.
Lists == mishaps = {} => \A t \in Threads : Run!At(t, "read") => tmpFile = t

RunPoints ==
  {"idle", "test", "sleep", "write", "locked", "ls", "read", "unlock", "delete", "return"}

\* TypeOK without what LockInv says already.
RunTypes ==
  /\ pc \in [Threads -> RunPoints]
  /\ tmpFile \in Threads \cup {NoList}
  /\ listed \in [Threads -> Threads \cup {NoList, None}]

RunIInv == LockInv /\ RunTypes /\ Lists /\ Run!OwnListing

LEMMA RunTypesSplit == LockInv => (Run!TypeOK <=> RunTypes)
  BY DEF LockInv, LockTypes, Run!TypeOK, RunTypes, RunPoints

LEMMA RunInit == Run!Init => RunIInv
<1> SUFFICES ASSUME Run!Init
             PROVE  RunIInv
  OBVIOUS
<1>1. LockInv
  BY LockInitOk DEF Run!Init, Run!LockInit, LockInit
<1>2. RunTypes
  <2>1. "idle" \in RunPoints
    BY DEF RunPoints
  <2> QED BY <2>1 DEF RunTypes, Run!Init, Run!LockInit
<1>3. Lists /\ Run!OwnListing
  BY DEF Run!Init, Run!LockInit, Lists, Run!OwnListing, Run!At
<1> QED BY <1>1, <1>2, <1>3 DEF RunIInv

\* Two threads cannot be inside, so that who changes the temporary file disturbs no lister.
LEMMA OneInside ==
  ASSUME LockInv, mishaps = {}, NEW s \in Threads, NEW t \in Threads, Holds(s), Holds(t)
  PROVE  s = t
  BY DEF LockInv, OneTaking, Taking

LEMMA RunStepKeeps ==
  ASSUME RunIInv, NEW t \in Threads, Run!Call(t) \/ Run!Step(t)
  PROVE  RunIInv'
<1>0. /\ LockInv /\ pc \in [Threads -> RunPoints] /\ tmpFile \in Threads \cup {NoList}
      /\ listed \in [Threads -> Threads \cup {NoList, None}] /\ left \in [Threads -> 0..MaxTimeout]
  BY DEF RunIInv, RunTypes, LockInv, LockTypes
<1> USE DEF At, Goto, Run!At, Run!Goto
<1>1. CASE Run!Call(t)
  <2>1. /\ pc[t] = "idle" /\ pc' = [pc EXCEPT ![t] = "test"]
        /\ left' = [left EXCEPT ![t] = MaxTimeout] /\ listed' = [listed EXCEPT ![t] = None]
        /\ lockFile' = lockFile /\ owner' = owner /\ mishaps' = mishaps /\ tmpFile' = tmpFile
    BY <1>1 DEF Run!Call
  <2>2. LockInv'
    BY <1>0, <2>1, OutsideKeeps
  <2>3. RunTypes'
    BY <1>0, <2>1 DEF RunTypes, RunPoints
  <2>4. Lists' /\ Run!OwnListing'
    BY <1>0, <2>1 DEF RunIInv, Lists, Run!OwnListing
  <2> QED BY <2>2, <2>3, <2>4 DEF RunIInv
<1>2. CASE Run!Lock(t) /\ UNCHANGED <<tmpFile, listed>>
  <2>1. LockInv' /\ pc' = [pc EXCEPT ![t] = pc'[t]] /\ Steps(pc[t], pc'[t])
    BY <1>0, <1>2, SameLock, LockKeeps
  <2>2. pc'[t] \in {"test", "sleep", "write", "locked", "delete", "return"}
    BY <2>1 DEF Steps
  <2>3. tmpFile' = tmpFile /\ listed' = listed
    BY <1>2
  <2>4. RunTypes'
    BY <1>0, <2>1, <2>2, <2>3 DEF RunTypes, RunPoints
  <2>5. mishaps' = {} => mishaps = {}
    BY <1>2, SameLock, MishapsStay
  <2>6. Lists' /\ Run!OwnListing'
    BY <1>0, <1>2, <2>1, <2>2, <2>3, <2>5 DEF RunIInv, Lists, Run!OwnListing
  <2> QED BY <2>1, <2>4, <2>6 DEF RunIInv
<1>3. CASE Run!lockFileAndRun_Ran(t)
  <2>1. /\ pc[t] = "locked" /\ pc' = [pc EXCEPT ![t] = "unlock"]
        /\ lockFile' = lockFile /\ owner' = owner /\ left' = left /\ mishaps' = mishaps
        /\ tmpFile' = tmpFile /\ listed' = listed
    BY <1>3 DEF Run!lockFileAndRun_Ran
  <2>2. Holds(t) /\ "unlock" \in Points
    BY <2>1 DEF Holds, Inside, Points
  <2>3. LockInv'
    BY <1>0, <2>1, <2>2, InsideKeeps
  <2>4. RunTypes'
    BY <1>0, <2>1 DEF RunTypes, RunPoints
  <2>5. Lists' /\ Run!OwnListing'
    BY <1>0, <2>1 DEF RunIInv, Lists, Run!OwnListing
  <2> QED BY <2>3, <2>4, <2>5 DEF RunIInv
<1>4. CASE Run!lockFileAndRun_Threw(t)
  <2>1. /\ pc[t] = "locked" /\ pc' = [pc EXCEPT ![t] = "idle"] /\ pc'[t] = "idle"
        /\ lockFile' = lockFile /\ left' = left /\ mishaps' = mishaps
        /\ owner' = (IF owner = t THEN None ELSE owner)
        /\ tmpFile' = tmpFile /\ listed' = listed
    BY <1>0, <1>4 DEF Run!lockFileAndRun_Threw
  <2>2. LockTypes'
    BY <2>1 DEF RunIInv, LockInv, LockTypes, Points
  <2>3. Waits'
    BY <1>0, <2>1 DEF RunIInv, LockInv, Waits
  <2>4. Owned'
    <3> SUFFICES ASSUME mishaps' = {}, NEW u \in Threads, Holds(u)'
                 PROVE  lockFile' /\ owner' = u
      BY DEF Owned
    <3>1. u # t /\ Holds(u) /\ Holds(t)
      BY <1>0, <2>1 DEF Holds, Inside, At
    <3>2. lockFile /\ owner = u /\ owner = t
      BY <1>0, <2>1, <3>1 DEF LockInv, Owned
    <3> QED BY <3>1, <3>2
  <2>5. RunTypes'
    BY <1>0, <2>1 DEF RunTypes, RunPoints
  <2>6. Lists' /\ Run!OwnListing'
    BY <1>0, <2>1 DEF RunIInv, Lists, Run!OwnListing
  <2>7. OneTaking'
    <3>1. \A u \in Threads : Taking(u)' => Taking(u)
      BY <1>0, <2>1 DEF Taking, Holds, Inside, At
    <3> QED BY <1>0, <2>1, <3>1, TakeLess
  <2> QED BY <2>2, <2>3, <2>4, <2>5, <2>6, <2>7 DEF RunIInv, LockInv
<1>5. CASE Run!getObjectsFromDirectory_Open(t)
  <2>1. /\ pc[t] = "locked" /\ pc' = [pc EXCEPT ![t] = "ls"] /\ pc'[t] = "ls" /\ tmpFile' = NoList
        /\ lockFile' = lockFile /\ owner' = owner /\ left' = left /\ mishaps' = mishaps
        /\ listed' = listed
    BY <1>0, <1>5 DEF Run!getObjectsFromDirectory_Open
  <2>2. Holds(t) /\ "ls" \in Points
    BY <2>1 DEF Holds, Inside, Points
  <2>3. LockInv'
    BY <1>0, <2>1, <2>2, InsideKeeps
  <2>4. RunTypes'
    BY <1>0, <2>1 DEF RunTypes, RunPoints
  <2>5. Lists'
    <3> SUFFICES ASSUME mishaps' = {}, NEW u \in Threads, pc'[u] = "read"
                 PROVE  FALSE
      BY DEF Lists
    <3>1. u # t /\ Holds(u)
      BY <1>0, <2>1 DEF Holds, Inside
    <3> QED BY <1>0, <2>1, <2>2, <3>1, OneInside
  <2>6. Run!OwnListing'
    BY <2>1 DEF RunIInv, Run!OwnListing
  <2> QED BY <2>3, <2>4, <2>5, <2>6 DEF RunIInv
<1>6. CASE Run!getObjectsFromDirectory_Ls(t)
  <2>1. /\ pc[t] = "ls" /\ pc' = [pc EXCEPT ![t] = "read"] /\ tmpFile' = t
        /\ lockFile' = lockFile /\ owner' = owner /\ left' = left /\ mishaps' = mishaps
        /\ listed' = listed
    BY <1>6 DEF Run!getObjectsFromDirectory_Ls
  <2>2. Holds(t) /\ "read" \in Points
    BY <2>1 DEF Holds, Inside, Points
  <2>3. LockInv'
    BY <1>0, <2>1, <2>2, InsideKeeps
  <2>4. RunTypes'
    BY <1>0, <2>1 DEF RunTypes, RunPoints
  <2>5. Lists'
    <3> SUFFICES ASSUME mishaps' = {}, NEW u \in Threads, pc'[u] = "read", u # t
                 PROVE  FALSE
      BY <2>1 DEF Lists
    <3>1. Holds(u)
      BY <1>0, <2>1 DEF Holds, Inside
    <3> QED BY <1>0, <2>1, <2>2, <3>1, OneInside
  <2>6. Run!OwnListing'
    BY <2>1 DEF RunIInv, Run!OwnListing
  <2> QED BY <2>3, <2>4, <2>5, <2>6 DEF RunIInv
<1>7. CASE Run!getObjectsFromDirectory_Read(t)
  <2>1. /\ pc[t] = "read" /\ pc' = [pc EXCEPT ![t] = "unlock"] /\ tmpFile' = tmpFile
        /\ lockFile' = lockFile /\ owner' = owner /\ left' = left /\ mishaps' = mishaps
        /\ listed' = [listed EXCEPT ![t] = tmpFile]
    BY <1>7 DEF Run!getObjectsFromDirectory_Read
  <2>2. Holds(t) /\ "unlock" \in Points
    BY <2>1 DEF Holds, Inside, Points
  <2>3. LockInv'
    BY <1>0, <2>1, <2>2, InsideKeeps
  <2>4. RunTypes'
    BY <1>0, <2>1 DEF RunTypes, RunPoints
  <2>5. mishaps = {} => tmpFile = t
    BY <2>1 DEF RunIInv, Lists
  <2>6. Lists' /\ Run!OwnListing'
    BY <1>0, <2>1, <2>5 DEF RunIInv, Lists, Run!OwnListing
  <2> QED BY <2>3, <2>4, <2>6 DEF RunIInv
<1>8. CASE Run!Return(t)
  <2>1. /\ pc[t] = "return" /\ pc' = [pc EXCEPT ![t] = "idle"]
        /\ lockFile' = lockFile /\ owner' = owner /\ left' = left /\ mishaps' = mishaps
        /\ tmpFile' = tmpFile /\ listed' = listed
    BY <1>8 DEF Run!Return
  <2>2. LockInv'
    BY <1>0, <2>1, OutsideKeeps
  <2>3. RunTypes'
    BY <1>0, <2>1 DEF RunTypes, RunPoints
  <2>4. Lists' /\ Run!OwnListing'
    BY <1>0, <2>1 DEF RunIInv, Lists, Run!OwnListing
  <2> QED BY <2>2, <2>3, <2>4 DEF RunIInv
<1> QED BY <1>1, <1>2, <1>3, <1>4, <1>5, <1>6, <1>7, <1>8 DEF Run!Step

LEMMA RunSteps ==
  ASSUME RunIInv, [Run!Next]_Run!vars
  PROVE  RunIInv'
<1>1. CASE UNCHANGED Run!vars
  BY <1>1 DEF RunIInv, LockInv, LockTypes, Waits, Owned, OneTaking, Taking, Holds, Inside, At, Run!At, RunTypes, Lists,
         Run!OwnListing, Run!vars, Run!lockVars
<1> QED BY <1>1, RunStepKeeps DEF Run!Next

-----------------------------------------------------------------------------
(* The invariant of the composed specification. *)

\* The part that is not the behaviour's stays as it began.
StoreAtRest ==
  /\ exists = FALSE /\ content = {} /\ arg = [t \in Threads |-> None] /\ crashes = 0
  /\ data = [t \in Threads |-> {}] /\ got = [t \in Threads |-> {}]
  /\ used = {} /\ acked = {} /\ due = [t \in Threads |-> {}]

RunAtRest == tmpFile = NoList /\ listed = [t \in Threads |-> None]

ExchangeInv ==
  /\ TokensTypes /\ SessionTypes /\ BodyInv /\ EndInv
  /\ IF part = "pipelined" THEN InOrder ELSE OneAtATime

StoreInv == IF part = "store" THEN StoreP!IInv ELSE StoreAtRest

RunInv == IF part = "run" THEN RunIInv ELSE RunAtRest

LockRests == part \notin {"store", "run"} => LockInit

ServerInv == ExchangeInv /\ StoreInv /\ RunInv /\ LockRests

LEMMA ServerInit == AllInit => ServerInv
<1> SUFFICES ASSUME AllInit
             PROVE  ServerInv
  OBVIOUS
<1>1. ExchangeInv
  <2>1. Init
    BY DEF AllInit
  <2>2. Ordered /\ asked = 0 /\ answers = <<>>
    BY <2>1, OrderedInit, Zenon DEF Init
  <2>3. OneAtATime /\ InOrder
    BY <2>2 DEF OneAtATime, InOrder
  <2> QED BY <2>1, <2>3, TypesInit, BodyInit, EndInit DEF ExchangeInv
<1>2. StoreInv
  <2>1. Store!Init
    BY DEF AllInit
  <2>2. StoreP!IInv
    BY <2>1, SameStore, LockConstants, UpdateConstants, StoreP!StoreInit
  <2>3. StoreAtRest
    BY <2>1 DEF Store!Init, StoreAtRest
  <2> QED BY <2>2, <2>3 DEF StoreInv
<1>3. RunInv
  <2>1. Run!Init
    BY DEF AllInit
  <2>2. RunIInv
    BY <2>1, RunInit
  <2>3. RunAtRest
    BY <2>1 DEF Run!Init, RunAtRest
  <2> QED BY <2>2, <2>3 DEF RunInv
<1>4. LockRests
  BY DEF AllInit, Run!Init, Run!LockInit, LockRests, LockInit
<1> QED BY <1>1, <1>2, <1>3, <1>4 DEF ServerInv

\* What a step does: one of the part's, and the other parts stay as they are.
LEMMA OnePart ==
  ASSUME [AllNext]_allVars
  PROVE  /\ part' = part
         /\ \/ part \in {"waiting", "pipelined"} \/ UNCHANGED vars
         /\ part = "waiting" => Waiting!Next \/ UNCHANGED vars
         /\ part = "pipelined" => [Next]_vars
         /\ part = "store" => [Store!Next]_<<lockVars, storeVars>>
         /\ part = "run" => [Run!Next]_<<lockVars, runVars>>
         /\ part # "store" => UNCHANGED storeVars
         /\ part # "run" => UNCHANGED runVars
         /\ part \notin {"store", "run"} => UNCHANGED lockVars
<1>1. CASE AllNext
  BY <1>1 DEF AllNext
<1>2. CASE UNCHANGED allVars
  BY <1>2 DEF allVars
<1> QED BY <1>1, <1>2

\* What the client is promised, and what else the parts promise, in one step.
LEMMA ServerStep ==
  ASSUME ServerInv, [AllNext]_allVars
  PROVE  /\ ServerInv'
         /\ [Promise!Next \/ (part = "pipelined" /\ dropped')]_<<asked, answers, connected>>
         /\ part = "store" => StoreP!Refines
<1>1. ExchangeInv' /\ [Promise!Next \/ (part = "pipelined" /\ dropped')]_<<asked, answers, connected>>
  <2>0. /\ part' = part /\ ExchangeInv
        /\ part = "waiting" => Waiting!Next \/ UNCHANGED vars
        /\ part = "pipelined" => [Next]_vars
        /\ part \in {"waiting", "pipelined"} \/ UNCHANGED vars
    BY OnePart DEF ServerInv
  <2>1. CASE part = "pipelined"
    <3>1. TokensTypes /\ SessionTypes /\ BodyInv /\ EndInv /\ InOrder /\ [Next]_vars
      BY <2>0, <2>1 DEF ExchangeInv
    <3>2. TokensTypes' /\ SessionTypes' /\ BodyInv' /\ EndInv'
      BY <3>1, TypesKept, BodyKept, EndKept
    <3>3. InOrder' /\ [Promise!Next \/ dropped']_<<asked, answers, connected>>
      BY <3>1, ClientAssumption, InOrderKept
    <3> QED BY <2>0, <2>1, <3>2, <3>3 DEF ExchangeInv
  <2>2. CASE part # "pipelined"
    <3>1. TokensTypes /\ SessionTypes /\ BodyInv /\ EndInv /\ OneAtATime /\ asked \in Nat
      BY <2>0, <2>2, ExchangeAssumption DEF ExchangeInv, TokensTypes
    <3>2. [Next]_vars /\ (Client_Send => Len(answers) = asked)
      <4>1. CASE Waiting!Next
        BY <3>1, <4>1, WaitingStep
      <4>2. CASE UNCHANGED vars
        <5>1. asked' = asked
          BY <4>2 DEF vars, history
        <5> QED BY <3>1, <4>2, <5>1 DEF Client_Send
      <4> QED BY <2>0, <2>2, <4>1, <4>2
    <3>3. TokensTypes' /\ SessionTypes' /\ BodyInv' /\ EndInv'
      BY <3>1, <3>2, TypesKept, BodyKept, EndKept
    <3>4. OneAtATime' /\ [Promise!Next]_<<asked, answers, connected>>
      BY <3>1, <3>2, ClientAssumption, OneAtATimeKept
    <3> QED BY <2>0, <2>2, <3>3, <3>4 DEF ExchangeInv
  <2> QED BY <2>1, <2>2
<1>2. StoreInv' /\ (part = "store" => StoreP!Refines)
  <2>1. CASE part = "store"
    <3>1. StoreP!IInv /\ [Store!Next]_<<lockVars, storeVars>> /\ part' = part
      BY <2>1, OnePart DEF ServerInv, StoreInv
    <3>2. [StoreP!Next]_StoreP!vars
      BY <3>1, SameStore DEF lockVars, storeVars, StoreP!vars, StoreP!lockVars, StoreP!sessionVars, StoreP!file
    <3>3. StoreP!IInv' /\ StoreP!Refines
      BY <3>1, <3>2, LockConstants, UpdateConstants, StoreP!StoreSteps
    <3> QED BY <2>1, <3>1, <3>3 DEF StoreInv
  <2>2. CASE part # "store"
    <3>1. StoreAtRest /\ UNCHANGED storeVars /\ part' = part
      BY <2>2, OnePart DEF ServerInv, StoreInv
    <3> QED BY <2>2, <3>1 DEF StoreInv, StoreAtRest, storeVars
  <2> QED BY <2>1, <2>2
<1>3. RunInv'
  <2>1. CASE part = "run"
    <3>1. RunIInv /\ [Run!Next]_<<lockVars, runVars>> /\ part' = part
      BY <2>1, OnePart DEF ServerInv, RunInv
    <3>2. [Run!Next]_Run!vars
      BY <3>1 DEF lockVars, runVars, Run!vars, Run!lockVars
    <3>3. RunIInv'
      BY <3>1, <3>2, RunSteps
    <3> QED BY <2>1, <3>1, <3>3 DEF RunInv
  <2>2. CASE part # "run"
    <3>1. RunAtRest /\ UNCHANGED runVars /\ part' = part
      BY <2>2, OnePart DEF ServerInv, RunInv
    <3> QED BY <2>2, <3>1 DEF RunInv, RunAtRest, runVars
  <2> QED BY <2>1, <2>2
<1>4. LockRests'
  <2>1. part' = part /\ (part \notin {"store", "run"} => LockInit /\ UNCHANGED lockVars)
    BY OnePart DEF ServerInv, LockRests
  <2> QED BY <2>1 DEF LockRests, LockInit, lockVars
<1> QED BY <1>1, <1>2, <1>3, <1>4 DEF ServerInv

LEMMA ServerInductive == AllSpec => []ServerInv
  BY ServerInit, ServerStep, PTL DEF AllSpec

-----------------------------------------------------------------------------
\* The variables of all parts keep their types.
THEOREM PartsTyped == AllSpec => []PartsTypeOK
<1>1. ServerInv => PartsTypeOK
  <2> SUFFICES ASSUME ServerInv
               PROVE  PartsTypeOK
    OBVIOUS
  <2>1. TypeOK
    BY TypesSplit DEF ServerInv, ExchangeInv
  <2>2. part = "store" => Store!TypeOK
    BY SameStore, LockConstants, StoreP!TypesSplit DEF ServerInv, StoreInv, StoreP!IInv
  <2>3. part = "run" => Run!TypeOK
    BY RunTypesSplit DEF ServerInv, RunInv, RunIInv
  <2> QED BY <2>1, <2>2, <2>3 DEF PartsTypeOK
<1> QED BY <1>1, ServerInductive, PTL

\* RequestResponse is kept to a client that waits for its answers, whatever it sends and
\* however it is cut up, and to one that does not, until a keep-alive throws its bytes away.
THEOREM AnswersArePromised == AllSpec => AnswersPromised
<1>1. AllInit => Promise!Init
  BY PromiseInit DEF AllInit
<1>2. ServerInv /\ [AllNext]_allVars
        => [Promise!Next \/ (part = "pipelined" /\ dropped')]_<<asked, answers, connected>>
  BY ServerStep
<1> QED BY <1>1, <1>2, ServerInductive, PTL DEF AllSpec, AnswersPromised

\* A lister reads its own listing out of the file that all share, until threads race for the
\* lock or one stops waiting for it while it is in use.
THEOREM ListersOwnListings == AllSpec => []OwnListing
<1>1. ServerInv => OwnListing
  <2> SUFFICES ASSUME ServerInv
               PROVE  OwnListing
    OBVIOUS
  <2>1. CASE part = "run"
    BY <2>1 DEF ServerInv, RunInv, RunIInv, OwnListing, Run!OwnListing
  <2>2. CASE part # "run"
    BY <2>2 DEF ServerInv, RunInv, RunAtRest, OwnListing, Run!OwnListing
  <2> QED BY <2>1, <2>2
<1> QED BY <1>1, ServerInductive, PTL

\* The lock of a file is held by one thread at a time, who deletes no other's lock file, although
\* functions throw and the program crashes and their lock files stay, until two threads are
\* between the test of waitAndLockFile and its writing at once, or one's timeout ends while the
\* lock is in use: only these two ways lead past the test.
THEOREM LocksHeldOnce == AllSpec => []HeldOnce
<1>1. ServerInv => HeldOnce
  <2> SUFFICES ASSUME ServerInv
               PROVE  HeldOnce
    OBVIOUS
  <2>1. CASE part = "store"
    <3>1. StoreP!IInv
      BY <2>1 DEF ServerInv, StoreInv
    <3>2. StoreP!Owned
      BY <3>1 DEF StoreP!IInv, StoreP!LockInv
    <3>3. Owned
      BY <3>2 DEF StoreP!Owned, Owned, StoreP!Holds, Holds, StoreP!Inside, Inside, StoreP!At, At
    <3> QED BY <3>3, OwnedIsHeldOnce
  <2>2. CASE part = "run"
    <3>1. Owned
      BY <2>2 DEF ServerInv, RunInv, RunIInv, LockInv
    <3> QED BY <3>1, OwnedIsHeldOnce
  <2>3. CASE part \notin {"store", "run"}
    <3>1. \A t \in Threads : pc[t] = "idle"
      BY <2>3 DEF ServerInv, LockRests, LockInit
    <3> QED BY <3>1 DEF HeldOnce, Holds, Inside, At
  <2> QED BY <2>1, <2>2, <2>3
<1> QED BY <1>1, ServerInductive, PTL

\* Nobody but the writer of a session's file is at its closing.
LEMMA NobodyCloses ==
  ASSUME ServerInv, part # "store"
  PROVE  \A t \in Threads : pc[t] # "close"
<1>1. CASE part = "run"
  BY <1>1 DEF ServerInv, RunInv, RunIInv, RunTypes, RunPoints
<1>2. CASE part # "run"
  BY <1>2 DEF ServerInv, LockRests, LockInit
<1> QED BY <1>1, <1>2

StoredRests == part # "store" => Store!Stored = content

LEMMA StoredNow == ServerInv => StoredRests
  BY NobodyCloses DEF StoredRests, Store!Stored, Store!At

LEMMA StoredThen == ServerInv' => StoredRests'
  BY StoredNow, PTL

\* What setSessionData has acknowledged is in the file and in every later answer, until threads
\* race for the lock, one stops waiting for it while it is in use, or the program crashes.
THEOREM Acknowledged == AllSpec => []AcknowledgedKept
<1>1. ServerInv => AcknowledgedKept
  <2> SUFFICES ASSUME ServerInv
               PROVE  AcknowledgedKept
    OBVIOUS
  <2>1. CASE part = "store"
    <3>1. StoreP!IInv
      BY <2>1 DEF ServerInv, StoreInv
    <3>2. StoreP!AcknowledgedKept
      BY <3>1 DEF StoreP!IInv, StoreP!Kept, StoreP!AcknowledgedKept, StoreP!At
    <3> QED BY <3>2 DEF StoreP!AcknowledgedKept, AcknowledgedKept, Store!AcknowledgedKept,
      StoreP!Stored, Store!Stored, StoreP!At, Store!At
  <2>2. CASE part # "store"
    BY <2>2, StoredNow DEF StoredRests, ServerInv, StoreInv, StoreAtRest, AcknowledgedKept, Store!AcknowledgedKept
  <2> QED BY <2>1, <2>2
<1> QED BY <1>1, ServerInductive, PTL

\* The calls on a session's file are the atomic steps of AtomicStore, until threads race for
\* its lock or one stops waiting for it while it is in use.
THEOREM StoreIsAtomic == AllSpec => StoreAtomic
<1>1. AllInit => Store!Store!Init
  <2> SUFFICES ASSUME AllInit
               PROVE  Store!Store!Init
    OBVIOUS
  <2>1. Store!Init
    BY DEF AllInit
  <2>2. \A t \in Threads : pc[t] # "close"
    BY <2>1 DEF Store!Init, Store!LockInit
  <2> QED BY <2>1, <2>2 DEF Store!Init, Store!Stored, Store!At, Store!Store!Init
<1>2. ServerInv /\ ServerInv' /\ [AllNext]_allVars
        => [Store!Store!Next \/ mishaps' # {}]_<<Store!Stored, got, crashes>>
  <2> SUFFICES ASSUME ServerInv, ServerInv', [AllNext]_allVars
               PROVE  [Store!Store!Next \/ mishaps' # {}]_<<Store!Stored, got, crashes>>
    OBVIOUS
  <2>1. CASE part = "store"
    <3>1. StoreP!Refines
      BY <2>1, ServerStep
    <3>2. StoreP!Store!Next <=> Store!Store!Next
      BY DEF StoreP!Store!Next, Store!Store!Next, StoreP!Store!Update, Store!Store!Update, StoreP!Store!Read, Store!Store!Read,
        StoreP!Store!Crash, Store!Store!Crash, StoreP!Stored, Store!Stored, StoreP!At, Store!At
    <3>3. StoreP!Stored = Store!Stored /\ (StoreP!Stored)' = (Store!Stored)'
      BY DEF StoreP!Stored, Store!Stored, StoreP!At, Store!At
    <3> QED BY <3>1, <3>2, <3>3 DEF StoreP!Refines
  <2>2. CASE part # "store"
    <3>1. part' = part /\ UNCHANGED storeVars
      BY <2>2, OnePart
    <3>2. Store!Stored = content /\ (Store!Stored)' = content'
      BY <2>2, <3>1, StoredNow, StoredThen DEF StoredRests
    <3> QED BY <3>1, <3>2 DEF storeVars
  <2> QED BY <2>1, <2>2
<1> QED BY <1>1, <1>2, ServerInductive, PTL DEF AllSpec, StoreAtomic, Store!StoreAtomic

=================================================================================
