---------------------------- MODULE ClientSessions ----------------------------
(***************************************************************************)
(* The session table of KWTinyWebServer and the threads that work on it.   *)
(*                                                                         *)
(* TCPServer (a library outside this repository) reports the connection,   *)
(* the incoming data and the disconnection of every client on threads of   *)
(* its own.  The receive listener appends the data to the buffer of the    *)
(* client's KWClientSessionState and enqueues a task; a thread of the pool *)
(* runs dataReceivedFrom, which parses the buffer, calls the application,  *)
(* answers, and replaces the session by a fresh one when the connection    *)
(* is kept alive.  Sessions are found through clientsSessionsStates, a map *)
(* from socket numbers; its mutex is taken to insert and to erase and not  *)
(* to look up.                                                             *)
(*                                                                         *)
(* Bytes are counted, not named: what a byte means to the parser is chosen *)
(* when it is popped.  Each lookup in the map is one step (the races inside*)
(* std::map itself are not modelled), and so is each critical section      *)
(* that makes no callback.                                                 *)
(***************************************************************************)
EXTENDS Naturals, Sequences

CONSTANTS
  Clients,    \* the ClientInfo objects: one for every connection ever accepted
  Sockets,    \* socket numbers, the keys of clientsSessionsStates
  SocketOf,   \* SocketOf[c] is the socket number of client c
  Workers,    \* the threads of the ThreadPool
  Sessions,   \* the KWClientSessionState objects
  MaxBytes,   \* bound: MaxBytes[c] is the number of bytes client c sends
  MaxChunk,   \* bound: bytes in one call of the receive listener
  None,       \* no value: an absent map entry, a free mutex
  Null        \* a map entry whose shared_ptr is null

\* A client stands for the TCPServer thread that reports its events.
Threads == Clients \cup Workers

ASSUME ConstantsAssumption ==
  /\ SocketOf \in [Clients -> Sockets]
  /\ Clients \cap Workers = {}
  /\ MaxBytes \in [Clients -> Nat] /\ MaxChunk \in Nat
  /\ None \notin Sessions \cup Threads
  /\ Null \notin Sessions \cup {None}

VARIABLES
  conn,     \* [Clients -> {"new", "up", "down"}]: what isConnected reports
  recvd,    \* [Clients -> Nat]: bytes the client has sent
  table,    \* clientsSessionsStates
  mapLock,  \* the thread that holds clientsSessionsStatesMutex, or None
  sess,     \* the KWClientSessionState objects
  tasks,    \* the queue of the ThreadPool: the client and the state a task captured
  thr,      \* control point and local variables of every thread
  crashed   \* a null session was dereferenced, or an empty queue popped

vars == <<conn, recvd, table, mapLock, sess, tasks, thr, crashed>>

(***************************************************************************)
(* http collapses the states that differ only in what was parsed so far:   *)
(* READING is READING_VERB to AWAIT_CONTENT, ERROR the three error states. *)
(* kind is what the complete request asks for: whether endHttpRequest will *)
(* keep the connection, close it, or hand it to the websocket code.        *)
(* req, con, data and dis count the calls to the observer for a session.   *)
(* mixed: some thread works on the session for a task that was enqueued    *)
(* for another one.  late: the buffer holds bytes the session's task will  *)
(* not look at: they came after its last look, or with the handshake.      *)
(***************************************************************************)
SessionState ==
  [owner: Clients \cup {None}, buf: Nat, processing: BOOLEAN,
   http: {"READING", "SEND_REQUEST_TO_APP", "SEND_RESPONSE", "ERROR", "FINISHED"},
   kind: {"keep", "close", "upgrade"}, ws: {"CLOSED", "OPEN", "FINISHED"},
   req: Nat, con: Nat, data: Nat, dis: Nat, mixed: BOOLEAN, late: BOOLEAN]

PCs == {"tcp", "gone", "listen", "append", "initialize", "insert", "finalize", "erase",
        "idle", "check", "count", "lookup", "parse", "pop", "app", "end", "relook",
        "enterWs", "wsLoop", "wsPop", "wsData", "wsEnd", "taskEnd"}

Thread ==
  [pc: PCs, cli: Clients \cup {None}, mine: Sessions \cup {None},
   cur: Sessions \cup {None, Null},
   ret: {"idle", "gone", "insert", "initialize", "taskEnd"}]

Task == [client: Clients, state: Sessions]

TypeOK ==
  /\ conn \in [Clients -> {"new", "up", "down"}]
  /\ recvd \in [Clients -> Nat]
  /\ table \in [Sockets -> Sessions \cup {None, Null}]
  /\ mapLock \in Threads \cup {None}
  /\ sess \in [Sessions -> SessionState]
  /\ tasks \in Seq(Task)
  /\ thr \in [Threads -> Thread]
  /\ crashed \in BOOLEAN

\* Faulty variant: initializeClient leaves processingIncomingData set.
FreshStateBusy(c) ==
  [owner |-> c, buf |-> 0, processing |-> TRUE, http |-> "READING", kind |-> "keep",
   ws |-> "CLOSED", req |-> 0, con |-> 0, data |-> 0, dis |-> 0, mixed |-> FALSE, late |-> FALSE]

\* A KWClientSessionState as its constructor and initializeClient leave it.
FreshState(c) ==
  [owner |-> c, buf |-> 0, processing |-> FALSE, http |-> "READING", kind |-> "keep",
   ws |-> "CLOSED", req |-> 0, con |-> 0, data |-> 0, dis |-> 0, mixed |-> FALSE, late |-> FALSE]

Init ==
  /\ conn = [c \in Clients |-> "new"]
  /\ recvd = [c \in Clients |-> 0]
  /\ table = [k \in Sockets |-> None]
  /\ mapLock = None
  /\ sess = [s \in Sessions |-> FreshState(None)]
  /\ tasks = <<>>
  /\ thr = [t \in Threads |->
              [pc |-> IF t \in Clients THEN "tcp" ELSE "idle",
               cli |-> IF t \in Clients THEN t ELSE None,
               mine |-> None, cur |-> None, ret |-> "idle"]]
  /\ crashed = FALSE

At(t, l) == thr[t].pc = l
Goto(t, l) == thr' = [thr EXCEPT ![t].pc = l]

\* Faulty variant: every thread looks up the entry of the same client.
KeyOfSomeClient(t) == SocketOf[CHOOSE c \in Clients : TRUE]
Key(t) == SocketOf[thr[t].cli]
Entry(t) == table[Key(t)]
Cur(t) == thr[t].cur
Update(s, f) == sess' = [sess EXCEPT ![s] = f]
Crash == crashed' = TRUE

\* s need not be the session that the task of worker t was enqueued for.
MixedBy(t, s) == sess[s].mixed \/ thr[t].mine \notin {None, s}

\* map::operator[] default-constructs the entry it does not find.
Subscript(t) == table' = [table EXCEPT ![Key(t)] = IF @ = None THEN Null ELSE @]

-----------------------------------------------------------------------------
(* TCPServer and the peers.                                                *)

\* CONNECTED: the events of one socket are reported one after another, so a
\* socket number is reused after the disconnection of its last client was handled.
Connect(c) ==
  /\ conn[c] = "new"
  /\ \A d \in Clients : SocketOf[d] = SocketOf[c] => conn[d] = "new" \/ At(d, "gone")
  /\ conn' = [conn EXCEPT ![c] = "up"]
  /\ Goto(c, "initialize")
  /\ UNCHANGED <<recvd, table, mapLock, sess, tasks, crashed>>

\* The peer closes the connection, or the application calls disconnecteWebSocket.
Close(c) ==
  /\ conn[c] = "up"
  /\ conn' = [conn EXCEPT ![c] = "down"]
  /\ UNCHANGED <<recvd, table, mapLock, sess, tasks, thr, crashed>>

\* Faulty variant: the event may come while the client is connected.
DisconnectedAnyTime(c) ==
  /\ conn[c] # "new" /\ At(c, "tcp")
  /\ thr' = [thr EXCEPT ![c].pc = "finalize", ![c].ret = "gone"]
  /\ UNCHANGED <<conn, recvd, table, mapLock, sess, tasks, crashed>>

\* DISCONNECTED: the event reaches finalizeClient.
Disconnected(c) ==
  /\ conn[c] = "down" /\ At(c, "tcp")
  /\ thr' = [thr EXCEPT ![c].pc = "finalize", ![c].ret = "gone"]
  /\ UNCHANGED <<conn, recvd, table, mapLock, sess, tasks, crashed>>

-----------------------------------------------------------------------------
(* The receive listener.                                                   *)

\* Data of a client without an entry is dropped.
Listener_Count(c) ==
  /\ conn[c] = "up" /\ At(c, "tcp") /\ recvd[c] < MaxBytes[c]
  /\ IF Entry(c) = None
       THEN /\ \E n \in 1..MaxChunk :
                 recvd' = [recvd EXCEPT ![c] = IF @ + n > MaxBytes[c] THEN MaxBytes[c] ELSE @ + n]
            /\ UNCHANGED thr
       ELSE Goto(c, "listen") /\ UNCHANGED recvd
  /\ UNCHANGED <<conn, table, mapLock, sess, tasks, crashed>>

Listener_Lookup(c) ==
  /\ At(c, "listen")
  /\ Subscript(c)
  /\ thr' = [thr EXCEPT ![c].pc = "append", ![c].cur = table'[Key(c)]]
  /\ UNCHANGED <<conn, recvd, mapLock, sess, tasks, crashed>>

\* Faulty variant: the flag is not looked at.
NeedsTaskAlways(s) == TRUE

NeedsTask(s) == ~sess[s].processing

\* The task of s has left its parsing loop and has not cleared the flag yet.
TaskLeaving(s) == \E w \in Workers : thr[w].pc \in {"wsEnd", "taskEnd"} /\ thr[w].mine = s

Listener_Append(c) ==
  LET s == Cur(c) IN
  /\ At(c, "append") /\ s # Null
  /\ \E n \in 1..MaxChunk :
       /\ recvd[c] + n <= MaxBytes[c]
       /\ recvd' = [recvd EXCEPT ![c] = @ + n]
       /\ IF NeedsTask(s)
            THEN /\ Update(s, [sess[s] EXCEPT !.buf = @ + n, !.processing = TRUE, !.late = FALSE])
                 /\ tasks' = Append(tasks, [client |-> c, state |-> s])
            ELSE /\ Update(s, [sess[s] EXCEPT !.buf = @ + n, !.late = @ \/ TaskLeaving(s)])
                 /\ UNCHANGED tasks
  /\ Goto(c, "tcp")
  /\ UNCHANGED <<conn, table, mapLock, crashed>>

Listener_NullState(c) ==
  /\ At(c, "append") /\ Cur(c) = Null
  /\ Crash
  /\ UNCHANGED <<conn, recvd, table, mapLock, sess, tasks, thr>>

-----------------------------------------------------------------------------
(* initializeClient and finalizeClient, called by TCPServer's threads for  *)
(* its events and by a worker when a connection is kept alive.             *)

initializeClient_Count(t) ==
  /\ At(t, "initialize")
  /\ IF Entry(t) = None
       THEN Goto(t, "insert")
       ELSE thr' = [thr EXCEPT ![t].pc = "finalize", ![t].ret = "insert"]
  /\ UNCHANGED <<conn, recvd, table, mapLock, sess, tasks, crashed>>

Unused(s) == sess[s].owner = None

initializeClient_Insert(t) ==
  /\ At(t, "insert") /\ mapLock = None
  /\ \E s \in Sessions : Unused(s)
  /\ LET s == CHOOSE x \in Sessions : Unused(x) IN
       /\ Update(s, FreshState(thr[t].cli))
       /\ table' = [table EXCEPT ![Key(t)] = s]
  /\ Goto(t, IF t \in Clients THEN "tcp" ELSE "relook")
  /\ UNCHANGED <<conn, recvd, mapLock, tasks, crashed>>

finalizeClient_Plain(t) ==
  /\ At(t, "finalize") /\ mapLock = None
  /\ Entry(t) \in Sessions => sess[Entry(t)].ws = "CLOSED"
  /\ Entry(t) # Null
  /\ table' = [table EXCEPT ![Key(t)] = None]
  /\ Goto(t, thr[t].ret)
  /\ UNCHANGED <<conn, recvd, mapLock, sess, tasks, crashed>>

finalizeClient_NullState(t) ==
  /\ At(t, "finalize") /\ mapLock = None
  /\ Entry(t) = Null
  /\ Crash
  /\ UNCHANGED <<conn, recvd, table, mapLock, sess, tasks, thr>>

\* The mutex stays held while WebSocketProcess calls the observer.
finalizeClient_WebSocket(t) ==
  /\ At(t, "finalize") /\ mapLock = None
  /\ Entry(t) \in Sessions /\ sess[Entry(t)].ws # "CLOSED"
  /\ mapLock' = t
  /\ Update(Entry(t), [sess[Entry(t)] EXCEPT !.ws = "FINISHED", !.mixed = MixedBy(t, Entry(t))])
  /\ thr' = [thr EXCEPT ![t].pc = "wsLoop", ![t].cur = Entry(t)]
  /\ UNCHANGED <<conn, recvd, table, tasks, crashed>>

Unlock == mapLock' = None

finalizeClient_Erase(t) ==
  /\ At(t, "erase")
  /\ table' = [table EXCEPT ![Key(t)] = None]
  /\ Unlock
  /\ Goto(t, thr[t].ret)
  /\ UNCHANGED <<conn, recvd, sess, tasks, crashed>>

\* broadcastWebSocker reads webSocketOpen through every entry of the map.
broadcastWebSocker_NullState ==
  /\ mapLock = None
  /\ \E k \in Sockets : table[k] = Null
  /\ Crash
  /\ UNCHANGED <<conn, recvd, table, mapLock, sess, tasks, thr>>

-----------------------------------------------------------------------------
(* A task of the pool and the HTTP part of dataReceivedFrom.               *)

\* Faulty variant: the last task in the queue is not taken.
Task_StartOffByOne(w) ==
  /\ At(w, "idle") /\ Len(tasks) > 1
  /\ tasks' = Tail(tasks)
  /\ thr' = [thr EXCEPT ![w].pc = "check", ![w].cli = Head(tasks).client,
                        ![w].mine = Head(tasks).state, ![w].cur = None]
  /\ UNCHANGED <<conn, recvd, table, mapLock, sess, crashed>>

Task_Start(w) ==
  /\ At(w, "idle") /\ tasks # <<>>
  /\ tasks' = Tail(tasks)
  /\ thr' = [thr EXCEPT ![w].pc = "check", ![w].cli = Head(tasks).client,
                        ![w].mine = Head(tasks).state, ![w].cur = None]
  /\ UNCHANGED <<conn, recvd, table, mapLock, sess, crashed>>

\* Faulty variant: the flag is cleared before the data is processed.
Task_CheckClears(w) ==
  /\ At(w, "check")
  /\ Goto(w, IF conn[thr[w].cli] = "up" THEN "count" ELSE "idle")
  /\ Update(thr[w].mine, [sess[thr[w].mine] EXCEPT !.processing = FALSE])
  /\ UNCHANGED <<conn, recvd, table, mapLock, tasks, crashed>>

\* The early return leaves processingIncomingData set.
Task_Check(w) ==
  /\ At(w, "check")
  /\ Goto(w, IF conn[thr[w].cli] = "up" THEN "count" ELSE "idle")
  /\ UNCHANGED <<conn, recvd, table, mapLock, sess, tasks, crashed>>

Task_End(w) ==
  /\ At(w, "taskEnd")
  /\ Update(thr[w].mine, [sess[thr[w].mine] EXCEPT !.processing = FALSE])
  /\ Goto(w, "idle")
  /\ UNCHANGED <<conn, recvd, table, mapLock, tasks, crashed>>

dataReceivedFrom_Count(w) ==
  /\ At(w, "count")
  /\ Goto(w, IF Entry(w) = None THEN "taskEnd" ELSE "lookup")
  /\ UNCHANGED <<conn, recvd, table, mapLock, sess, tasks, crashed>>

\* w goes on with session s.
Attend(w, s, l) ==
  /\ thr' = [thr EXCEPT ![w].pc = l, ![w].cur = s]
  /\ Update(s, [sess[s] EXCEPT !.mixed = MixedBy(w, s)])

Mode(s) == IF sess[s].ws = "CLOSED" THEN "parse" ELSE "enterWs"

dataReceivedFrom_Lookup(w) ==
  /\ At(w, "lookup")
  /\ Subscript(w)
  /\ IF Entry(w) \in Sessions
       THEN Attend(w, Entry(w), Mode(Entry(w)))
       ELSE Goto(w, "taskEnd") /\ UNCHANGED sess
  /\ UNCHANGED <<conn, recvd, mapLock, tasks, crashed>>

\* The condition of the parsing loop: popping follows as a step of its own.
dataReceivedFrom_Loop(w) ==
  /\ At(w, "parse") /\ sess[Cur(w)].http = "READING"
  /\ Goto(w, IF sess[Cur(w)].buf > 0 THEN "pop" ELSE "taskEnd")
  /\ UNCHANGED <<conn, recvd, table, mapLock, sess, tasks, crashed>>

\* One byte: the request is still incomplete, complete, or rejected.
dataReceivedFrom_Pop(w) ==
  LET s == Cur(w) IN
  /\ At(w, "pop") /\ sess[s].buf > 0
  /\ \/ Update(s, [sess[s] EXCEPT !.buf = @ - 1])
     \/ \E k \in {"keep", "close", "upgrade"} :
          Update(s, [sess[s] EXCEPT !.buf = @ - 1, !.http = "SEND_REQUEST_TO_APP", !.kind = k])
     \/ Update(s, [sess[s] EXCEPT !.buf = @ - 1, !.http = "ERROR", !.kind = "close"])
  /\ Goto(w, "parse")
  /\ UNCHANGED <<conn, recvd, table, mapLock, tasks, crashed>>

\* front() and pop() of an empty queue, by either parser.
PopEmpty(t) ==
  /\ At(t, "pop") \/ At(t, "wsPop")
  /\ sess[Cur(t)].buf = 0
  /\ Crash
  /\ UNCHANGED <<conn, recvd, table, mapLock, sess, tasks, thr>>

\* The files, the workers' load and the application; the state does not change yet.
dataReceivedFrom_CallApp(w) ==
  LET s == Cur(w) IN
  /\ At(w, "parse") /\ sess[s].http = "SEND_REQUEST_TO_APP"
  /\ Update(s, [sess[s] EXCEPT !.req = @ + 1])
  /\ Goto(w, "app")
  /\ UNCHANGED <<conn, recvd, table, mapLock, tasks, crashed>>

\* Faulty variants: the next state is one nobody handles; the state stays as it was.
AfterAppUnhandled == "CHECK_PROTOCOL_CHANGE"
AfterAppAgain == "SEND_REQUEST_TO_APP"

\* The state after SEND_REQUEST_TO_APP and CHECK_PROTOCOL_CHANGE.
AfterApp == "SEND_RESPONSE"

\* An answer that nobody gave is a 404, which sets ignoreKeepAlive.
dataReceivedFrom_AppReturned(w) ==
  LET s == Cur(w) IN
  /\ At(w, "app")
  /\ \E k \in IF sess[s].kind = "keep" THEN {"keep", "close"} ELSE {sess[s].kind} :
       Update(s, [sess[s] EXCEPT !.http = AfterApp, !.kind = k,
                                 !.ws = IF k = "upgrade" /\ @ = "CLOSED" THEN "OPEN" ELSE @])
  /\ Goto(w, "parse")
  /\ UNCHANGED <<conn, recvd, table, mapLock, tasks, crashed>>

\* The response, or the error text; a lost connection leads to the same state.
dataReceivedFrom_Respond(w) ==
  LET s == Cur(w) IN
  /\ At(w, "parse") /\ sess[s].http \in {"SEND_RESPONSE", "ERROR", "FINISHED"}
  /\ Update(s, [sess[s] EXCEPT !.http = "FINISHED"])
  /\ Goto(w, "end")
  /\ UNCHANGED <<conn, recvd, table, mapLock, tasks, crashed>>

\* Faulty variant: the client is not disconnected.
DisconnectForgotten(c) == UNCHANGED conn

Disconnect(c) == conn' = [conn EXCEPT ![c] = IF @ = "up" THEN "down" ELSE @]

endHttpRequest_WebSocket(w) ==
  LET s == Cur(w) IN
  /\ At(w, "end") /\ sess[s].ws # "CLOSED"
  /\ Update(s, [sess[s] EXCEPT !.con = @ + 1, !.late = @ \/ sess[s].buf > 0])
  /\ Goto(w, "taskEnd")
  /\ UNCHANGED <<conn, recvd, table, mapLock, tasks, crashed>>

\* Faulty variant: no new session replaces the finalized one.
endHttpRequest_KeepAliveForgets(w) ==
  /\ At(w, "end") /\ sess[Cur(w)].ws = "CLOSED" /\ sess[Cur(w)].kind = "keep"
  /\ thr' = [thr EXCEPT ![w].pc = "finalize", ![w].ret = "taskEnd"]
  /\ UNCHANGED <<conn, recvd, table, mapLock, sess, tasks, crashed>>

endHttpRequest_KeepAlive(w) ==
  /\ At(w, "end") /\ sess[Cur(w)].ws = "CLOSED" /\ sess[Cur(w)].kind = "keep"
  /\ thr' = [thr EXCEPT ![w].pc = "finalize", ![w].ret = "initialize"]
  /\ UNCHANGED <<conn, recvd, table, mapLock, sess, tasks, crashed>>

endHttpRequest_Close(w) ==
  /\ At(w, "end") /\ sess[Cur(w)].ws = "CLOSED" /\ sess[Cur(w)].kind # "keep"
  /\ Disconnect(thr[w].cli)
  /\ Goto(w, "taskEnd")
  /\ UNCHANGED <<recvd, table, mapLock, sess, tasks, crashed>>

\* The lookup after the swap: its result is not used.
endHttpRequest_Relook(w) ==
  /\ At(w, "relook")
  /\ Subscript(w)
  /\ Goto(w, "taskEnd")
  /\ UNCHANGED <<conn, recvd, mapLock, sess, tasks, crashed>>

-----------------------------------------------------------------------------
(* WebSocketProcess, run by a worker for incoming data and by the thread   *)
(* that finalizes the client.                                              *)

WebSocketProcess_Lookup(w) ==
  /\ At(w, "enterWs") /\ Entry(w) \in Sessions
  /\ Attend(w, Entry(w), "wsLoop")
  /\ UNCHANGED <<conn, recvd, table, mapLock, tasks, crashed>>

WebSocketProcess_NullState(w) ==
  /\ At(w, "enterWs") /\ Entry(w) \notin Sessions
  /\ Subscript(w)
  /\ Crash
  /\ UNCHANGED <<conn, recvd, mapLock, sess, tasks, thr>>

WebSocketProcess_Loop(t) ==
  /\ At(t, "wsLoop")
  /\ Goto(t, IF sess[Cur(t)].buf > 0 /\ sess[Cur(t)].ws # "FINISHED" THEN "wsPop" ELSE "wsEnd")
  /\ UNCHANGED <<conn, recvd, table, mapLock, sess, tasks, crashed>>

\* One byte: it may leave webSocketState alone, set it to another reading
\* state, end a frame that is not masked, or complete a message.
WebSocketProcess_Pop(t) ==
  LET s == Cur(t) IN
  /\ At(t, "wsPop") /\ sess[s].buf > 0
  /\ \/ /\ \E x \in {sess[s].ws, "OPEN", "FINISHED"} :
             Update(s, [sess[s] EXCEPT !.buf = @ - 1, !.ws = x])
        /\ Goto(t, "wsLoop")
     \/ /\ Update(s, [sess[s] EXCEPT !.buf = @ - 1, !.data = @ + 1])
        /\ Goto(t, "wsData")
  /\ UNCHANGED <<conn, recvd, table, mapLock, tasks, crashed>>

\* OnWebSocketData returns and the next frame is awaited.
WebSocketProcess_DataReturned(t) ==
  /\ At(t, "wsData")
  /\ Update(Cur(t), [sess[Cur(t)] EXCEPT !.ws = "OPEN"])
  /\ Goto(t, "wsLoop")
  /\ UNCHANGED <<conn, recvd, table, mapLock, tasks, crashed>>

WebSocketProcess_End(t) ==
  LET s == Cur(t) IN
  /\ At(t, "wsEnd")
  /\ IF sess[s].ws = "FINISHED"
       THEN /\ Update(s, [sess[s] EXCEPT !.dis = @ + 1])
            /\ Disconnect(thr[t].cli)
       ELSE UNCHANGED <<sess, conn>>
  /\ Goto(t, IF mapLock = t THEN "erase" ELSE "taskEnd")
  /\ UNCHANGED <<recvd, table, mapLock, tasks, crashed>>

-----------------------------------------------------------------------------
\* What a TCPServer thread does for its client.
Tcp(c) ==
  \/ Connect(c) \/ Disconnected(c)
  \/ Listener_Count(c) \/ Listener_Lookup(c) \/ Listener_Append(c) \/ Listener_NullState(c)

\* What a thread of either kind does.
Shared(t) ==
  \/ initializeClient_Count(t) \/ initializeClient_Insert(t)
  \/ finalizeClient_Plain(t) \/ finalizeClient_NullState(t)
  \/ finalizeClient_WebSocket(t) \/ finalizeClient_Erase(t)
  \/ WebSocketProcess_Loop(t) \/ WebSocketProcess_Pop(t)
  \/ WebSocketProcess_DataReturned(t) \/ WebSocketProcess_End(t)
  \/ PopEmpty(t)

\* What a thread of the pool does.
Worker(w) ==
  \/ Task_Start(w) \/ Task_Check(w) \/ Task_End(w)
  \/ dataReceivedFrom_Count(w) \/ dataReceivedFrom_Lookup(w)
  \/ dataReceivedFrom_Loop(w) \/ dataReceivedFrom_Pop(w)
  \/ dataReceivedFrom_CallApp(w) \/ dataReceivedFrom_AppReturned(w) \/ dataReceivedFrom_Respond(w)
  \/ endHttpRequest_WebSocket(w) \/ endHttpRequest_KeepAlive(w)
  \/ endHttpRequest_Close(w) \/ endHttpRequest_Relook(w)
  \/ WebSocketProcess_Lookup(w) \/ WebSocketProcess_NullState(w)

\* Every connection was accepted and handled to its end, and the pool is idle.
Finished ==
  /\ \A c \in Clients : At(c, "gone")
  /\ \A w \in Workers : At(w, "idle")
  /\ tasks = <<>>

Next ==
  \/ /\ ~crashed
     /\ \/ \E c \in Clients : Tcp(c) \/ Close(c)
        \/ \E t \in Threads : Shared(t)
        \/ \E w \in Workers : Worker(w)
        \/ broadcastWebSocker_NullState
  \/ (Finished \/ crashed) /\ UNCHANGED vars

Spec == Init /\ [][Next]_vars

\* The scheduler runs every thread that can go on and the observer's callbacks
\* return; TCPServer reports a disconnection.  Peers need not connect, send or close.
Progress(t) ==
  \/ Shared(t)
  \/ t \in Workers /\ Worker(t)
  \/ /\ t \in Clients
     /\ Disconnected(t) \/ Listener_Lookup(t) \/ Listener_Append(t) \/ Listener_NullState(t)

Fairness == \A t \in Threads : WF_vars(~crashed /\ Progress(t))

-----------------------------------------------------------------------------
(* Safety.                                                                 *)

Busy(w) == ~At(w, "idle")

\* Worker w reads or writes session s, for the HTTP parser or the websocket.
Attends(w, s) ==
  /\ Cur(w) = s
  /\ thr[w].pc \in {"parse", "pop", "app", "end", "enterWs", "wsLoop", "wsPop", "wsData", "wsEnd"}

\* A session has at most one task, queued or running, and
\* its flag processingIncomingData is set as long as it has one.
OneTaskPerSession ==
  /\ \A i, j \in DOMAIN tasks : tasks[i].state = tasks[j].state => i = j
  /\ \A v, w \in Workers : Busy(v) /\ Busy(w) /\ thr[v].mine = thr[w].mine => v = w
  /\ \A i \in DOMAIN tasks, w \in Workers : Busy(w) => thr[w].mine # tasks[i].state
  /\ \A i \in DOMAIN tasks : sess[tasks[i].state].processing
  /\ \A w \in Workers : Busy(w) => sess[thr[w].mine].processing

\* Two workers parse the same session only when one of them came to it with a task
\* that a session enqueued which was in the table before it.
ExclusiveUnlessMixed ==
  \A v, w \in Workers, s \in Sessions :
    Attends(v, s) /\ Attends(w, s) /\ ~sess[s].mixed => v = w

\* The byte that the parsing loop has seen is still there when it is popped.
PopSafe ==
  \A w \in Workers : At(w, "pop") /\ ~sess[Cur(w)].mixed => sess[Cur(w)].buf > 0

\* Some task, queued or running, will look at the buffer of s.
HasTask(s) ==
  \/ \E i \in DOMAIN tasks : tasks[i].state = s
  \/ \E w \in Workers : Busy(w) /\ thr[w].mine = s

\* Bytes of a connected client wait without a task in one case only: the
\* listener saw the flag of a task that had stopped reading.  (Of a mixed session
\* the task may end because another one's worker has overwritten the state it saw.)
StrandedOnlyIfLate ==
  \A k \in Sockets :
    LET s == table[k] IN
      s \in Sessions /\ conn[sess[s].owner] = "up" /\ sess[s].buf > 0 /\ ~sess[s].mixed /\ ~HasTask(s)
        => sess[s].late

\* The application gets a request once, and a websocket's connection once
\* and before its first data.
CalledInOrder ==
  \A s \in Sessions : ~sess[s].mixed =>
    sess[s].req <= 1 /\ sess[s].con <= sess[s].req /\ (sess[s].data > 0 => sess[s].con = 1)

\* No other connection has had the socket number of client c so far.
Apart(c) == \A d \in Clients : SocketOf[d] = SocketOf[c] => d = c \/ conn[d] = "new"

\* No worker came to a session of client c with the task of another session.
Unmixed(c) == \A s \in Sessions : sess[s].owner = c => ~sess[s].mixed

\* The session that a worker answers stays in the table while its client is connected,
\* unless the socket number was another client's, or one of the client's sessions is
\* mixed: its second worker replaces whatever session the client has by then.
AnswerNotErased ==
  \A w \in Workers, s \in Sessions :
    LET c == sess[s].owner IN
      Attends(w, s) /\ conn[c] = "up" /\ Apart(c) /\ Unmixed(c) => table[SocketOf[c]] = s

\* Worker w has removed the entry of its client and has not inserted the next one.
Swapping(w) == thr[w].pc \in {"initialize", "insert"} \/ (At(w, "finalize") /\ thr[w].ret = "insert")

\* A connected client has a session in the table, except while a worker replaces it:
\* only then can the listener drop bytes, or a lookup leave a null entry behind.
SessionWhileConnected ==
  \A c \in Clients :
    conn[c] = "up" /\ thr[c].pc \in {"tcp", "listen", "append"} =>
      Entry(c) \in Sessions \/ \E w \in Workers : Swapping(w) /\ Key(w) = SocketOf[c]

\* A worker handles the bytes of the client its task was enqueued for and no
\* other's, when the socket number of the client is its own.
OwnClientOnly ==
  \A w \in Workers, s \in Sessions :
    Attends(w, s) /\ Apart(thr[w].cli) => sess[s].owner = thr[w].cli

\* What the comment at the end of endHttpRequest says: a client is finalized when
\* its disconnection is reported.  When nothing is left to do no session is left.
NoSessionLeftBehind == Finished => \A k \in Sockets : table[k] \notin Sessions

-----------------------------------------------------------------------------
(* Liveness, under Fairness; a crash excuses everything.                   *)

\* The pool gets through its queue.
TasksTaken == tasks # <<>> ~> tasks = <<>> \/ crashed

\* A complete request that was handed to the application is answered or given up.
RequestAnswered ==
  \A s \in Sessions : sess[s].http = "SEND_REQUEST_TO_APP" ~> sess[s].http = "FINISHED" \/ crashed

\* A request that closes the connection gets it closed (in a session that is not mixed,
\* where a second worker may read another request), and the disconnection of a client
\* is handled to its end.
ClientFinalized ==
  \A c \in Clients :
    /\ conn[c] = "down" ~> At(c, "gone") \/ crashed
    /\ (\E s \in Sessions : /\ sess[s].owner = c /\ ~sess[s].mixed
                            /\ sess[s].http = "FINISHED" /\ sess[s].kind = "close")
         ~> At(c, "gone") \/ crashed
===============================================================================
