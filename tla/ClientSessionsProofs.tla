------------------------- MODULE ClientSessionsProofs -------------------------
(***************************************************************************)
(* Theorems about ClientSessions, for every value of its constants.        *)
(*                                                                         *)
(* First, what keeps sessions and tasks apart: TypeCorrect, OneTask and    *)
(* Exclusive.  All but four actions are quiet: they keep the queue, the    *)
(* flags, the owners and what a busy worker remembers of its task.         *)
(* QuietOrNot says so, action by action; the inductive invariant IInv is   *)
(* then proved kept by quiet steps once and by each of the other four.     *)
(*                                                                         *)
(* Then, what the sessions promise the clients: the byte that the loop saw *)
(* is there when it is popped, the calls come once and in order, a worker  *)
(* handles its own client's bytes, the session it answers is not replaced, *)
(* a connected client has a session, and bytes wait without a task only    *)
(* when they came late.  The inductive invariant is Answers, built in      *)
(* layers on IInv: where the threads can be (Places), whose sessions are   *)
(* where (Keys, Met, Left), what the calls counted so far imply (Calls),   *)
(* which client has the socket number (InTurn, Held, Bounds), the one      *)
(* worker that answers (One), and the task that bytes wait for (Replaced,  *)
(* Theirs, AllTended).  A first set of lemmas says what each action does,  *)
(* field by field; the ...Flow definitions say what a step of any kind can *)
(* do to one thread, one entry of the table, one session.                  *)
(***************************************************************************)
EXTENDS ClientSessions, SequenceTheorems, TLAPS

\* A client's thread works for that client alone and never runs a task; a busy
\* worker has the client and the state of its task; the listener has looked its
\* session up before it appends.
ThreadsOK ==
  /\ \A c \in Clients : thr[c].cli = c /\ thr[c].mine = None
  /\ \A w \in Workers : Busy(w) => thr[w].cli \in Clients /\ thr[w].mine \in Sessions
  /\ \A c \in Clients : At(c, "append") => Cur(c) # None

TypeInv == TypeOK /\ ThreadsOK

-----------------------------------------------------------------------------
(* A step is quiet when it is none of the four steps in the life of a task *)
(* or of a session: enqueue, take, end; insert.                            *)

QuietThr ==
  /\ thr' \in [Threads -> Thread] /\ ThreadsOK'
  /\ \A t \in Threads :
       /\ thr'[t].mine = thr[t].mine /\ thr'[t].cli = thr[t].cli
       /\ t \in Workers /\ thr'[t].pc # "idle" => thr[t].pc # "idle"
       /\ \/ thr'[t].cur = thr[t].cur
          \/ thr'[t].cur \notin Sessions
          \/ /\ Key(t) \in Sockets /\ table[Key(t)] = thr'[t].cur
             /\ t \in Clients \/ thr[t].mine = thr'[t].cur \/ sess'[thr'[t].cur].mixed

\* The record f of a session keeps what quiet steps keep of r.
QuietRec(f, r) ==
  /\ f \in SessionState
  /\ f.owner = r.owner
  /\ f.processing = r.processing
  /\ r.mixed => f.mixed

QuietSess ==
  /\ sess' \in [Sessions -> SessionState]
  /\ \A s \in Sessions : QuietRec(sess'[s], sess[s])

QuietTable ==
  /\ table' \in [Sockets -> Sessions \cup {None, Null}]
  /\ \A k \in Sockets : table'[k] \in {table[k], None, Null}

QuietRest ==
  /\ conn' \in [Clients -> {"new", "up", "down"}]
  /\ recvd' \in [Clients -> Nat]
  /\ mapLock' \in Threads \cup {None}
  /\ crashed' \in BOOLEAN
  /\ tasks' = tasks

Quiet == QuietThr /\ QuietSess /\ QuietTable /\ QuietRest

\* The socket number of a thread with something to do is a key of the table.
LEMMA KeyType ==
  ASSUME TypeInv, NEW t \in Threads, t \in Workers => ~At(t, "idle")
  PROVE  Key(t) \in Sockets
  BY ConstantsAssumption DEF TypeInv, TypeOK, ThreadsOK, Threads, Key, Busy, At

\* A thread goes on to control point r.pc, perhaps with another session.
LEMMA ThrStep ==
  ASSUME TypeInv, NEW t \in Threads, NEW r \in Thread, thr' = [thr EXCEPT ![t] = r],
         r.cli = thr[t].cli, r.mine = thr[t].mine, t \in Workers => thr[t].pc # "idle",
         r.pc = "append" => r.cur # None,
         \/ r.cur = thr[t].cur
         \/ r.cur \notin Sessions
         \/ /\ Key(t) \in Sockets /\ table[Key(t)] = r.cur
            /\ t \in Clients \/ r.mine = r.cur \/ sess'[r.cur].mixed
  PROVE  QuietThr
<1>1. thr' \in [Threads -> Thread] /\ ThreadsOK'
  BY ConstantsAssumption DEF TypeInv, TypeOK, ThreadsOK, Busy, At, Cur, Threads
<1>2. \A u \in Threads : u # t => thr'[u] = thr[u]
  BY DEF TypeInv, TypeOK
<1>3. thr'[t] = r
  BY DEF TypeInv, TypeOK
<1> QED
  BY <1>1, <1>2, <1>3 DEF QuietThr

\* Nothing but the control point of one thread changes.
LEMMA GotoStep ==
  ASSUME TypeInv, NEW t \in Threads, NEW l \in PCs \ {"append"}, t \in Workers => ~At(t, "idle"),
         Goto(t, l)
  PROVE  QuietThr
<1>1. thr[t] \in Thread
  BY DEF TypeInv, TypeOK
<1>2. PICK r : r = [thr[t] EXCEPT !.pc = l]
  OBVIOUS
<1>3. r \in Thread /\ r.cli = thr[t].cli /\ r.mine = thr[t].mine /\ r.cur = thr[t].cur /\ r.pc # "append"
  BY <1>1, <1>2 DEF Thread
<1>4. thr' = [thr EXCEPT ![t] = r]
  BY <1>2 DEF Goto
<1> QED
  BY <1>3, <1>4, ThrStep DEF At

\* The record of one session is replaced by one that differs in nothing that matters.
LEMMA SessStep ==
  ASSUME TypeInv, NEW s, NEW f, Update(s, f), s \in Sessions => QuietRec(f, sess[s])
  PROVE  QuietSess
  BY DEF TypeInv, TypeOK, Update, QuietSess, QuietRec

\* Variables that do not change are quiet.
LEMMA SameSess ==
  ASSUME TypeInv, sess' = sess
  PROVE  QuietSess
  BY DEF TypeInv, TypeOK, QuietSess, QuietRec

\* The threads stay where they are.
LEMMA SameThr ==
  ASSUME TypeInv, thr' = thr
  PROVE  QuietThr
  BY DEF TypeInv, TypeOK, ThreadsOK, QuietThr, Busy, At, Cur

\* The table stays as it is.
LEMMA SameTable ==
  ASSUME TypeInv, table' = table
  PROVE  QuietTable
  BY DEF TypeInv, TypeOK, QuietTable

\* A lookup by operator[] adds a null entry at most.
LEMMA SubscriptStep ==
  ASSUME TypeInv, NEW t \in Threads, Subscript(t)
  PROVE  QuietTable
  BY DEF TypeInv, TypeOK, QuietTable, Subscript

\* The updates that actions make to a session's record.
LEMMA RecStep ==
  ASSUME NEW r \in SessionState, NEW n \in Nat, NEW m \in Nat, NEW h \in {"READING", "SEND_REQUEST_TO_APP", "SEND_RESPONSE", "ERROR", "FINISHED"},
    NEW k \in {"keep", "close", "upgrade"}, NEW x \in {"CLOSED", "OPEN", "FINISHED"}
  PROVE
    /\ QuietRec([r EXCEPT !.buf = n], r)
    /\ QuietRec([r EXCEPT !.buf = n, !.http = h, !.kind = k], r)
    /\ QuietRec([r EXCEPT !.buf = n, !.ws = x], r)
    /\ QuietRec([r EXCEPT !.buf = n, !.data = m], r)
    /\ QuietRec([r EXCEPT !.req = n], r)
    /\ QuietRec([r EXCEPT !.dis = n], r)
    /\ QuietRec([r EXCEPT !.ws = x], r)
    /\ QuietRec([r EXCEPT !.http = h], r)
    /\ QuietRec([r EXCEPT !.http = h, !.kind = k, !.ws = x], r)
<1>1. QuietRec([r EXCEPT !.buf = n], r)
  BY DEF SessionState, QuietRec
<1>2. QuietRec([r EXCEPT !.buf = n, !.http = h, !.kind = k], r)
  BY DEF SessionState, QuietRec
<1>3. QuietRec([r EXCEPT !.buf = n, !.ws = x], r)
  BY DEF SessionState, QuietRec
<1>4. QuietRec([r EXCEPT !.buf = n, !.data = m], r)
  BY DEF SessionState, QuietRec
<1>5. QuietRec([r EXCEPT !.req = n], r) /\ QuietRec([r EXCEPT !.dis = n], r)
  BY DEF SessionState, QuietRec
<1>6. QuietRec([r EXCEPT !.ws = x], r) /\ QuietRec([r EXCEPT !.http = h], r)
  BY DEF SessionState, QuietRec
<1>7. QuietRec([r EXCEPT !.http = h, !.kind = k, !.ws = x], r)
  BY DEF SessionState, QuietRec
<1> QED BY <1>1, <1>2, <1>3, <1>4, <1>5, <1>6, <1>7

\* The updates of Boolean fields.
LEMMA RecStepB ==
  ASSUME NEW r \in SessionState, NEW n \in Nat, NEW f \in BOOLEAN, NEW x \in {"CLOSED", "OPEN", "FINISHED"}
  PROVE
    /\ QuietRec([r EXCEPT !.con = n, !.late = f], r)
    /\ QuietRec([r EXCEPT !.buf = n, !.late = f], r)
    /\ (r.mixed => f) => QuietRec([r EXCEPT !.mixed = f], r)
    /\ (r.mixed => f) => QuietRec([r EXCEPT !.ws = x, !.mixed = f], r)
<1>1. QuietRec([r EXCEPT !.con = n, !.late = f], r)
  BY Zenon DEF SessionState, QuietRec
<1>2. QuietRec([r EXCEPT !.buf = n, !.late = f], r)
  BY Zenon DEF SessionState, QuietRec
<1>3. (r.mixed => f) => QuietRec([r EXCEPT !.mixed = f], r)
  <2>1. [r EXCEPT !.mixed = f] \in SessionState
    BY Zenon DEF SessionState
  <2>2. [r EXCEPT !.mixed = f].mixed = f
    BY SMT DEF SessionState
  <2> QED BY <2>1, <2>2 DEF SessionState, QuietRec
<1>4. (r.mixed => f) => QuietRec([r EXCEPT !.ws = x, !.mixed = f], r)
  <2>1. [r EXCEPT !.ws = x, !.mixed = f] \in SessionState
    BY Zenon DEF SessionState
  <2>2. [r EXCEPT !.ws = x, !.mixed = f].mixed = f
    BY SMT DEF SessionState
  <2> QED BY <2>1, <2>2 DEF SessionState, QuietRec
<1> QED BY <1>1, <1>2, <1>3, <1>4


\* What enqueueing a task, and ending one, do to its session.
LEMMA RecEnqueue ==
  ASSUME NEW r \in SessionState, NEW n \in Nat
  PROVE  LET f == [r EXCEPT !.buf = n, !.processing = TRUE, !.late = FALSE]
         IN  f \in SessionState /\ f.owner = r.owner /\ f.mixed = r.mixed /\ f.processing = TRUE
  BY Zenon DEF SessionState

\* The flag is cleared.
LEMMA RecClear ==
  ASSUME NEW r \in SessionState
  PROVE  LET f == [r EXCEPT !.processing = FALSE]
         IN  f \in SessionState /\ f.owner = r.owner /\ f.mixed = r.mixed
  BY Zenon DEF SessionState

\* A worker goes on with the session it found in the table.
LEMMA AttendStep ==
  ASSUME TypeInv, NEW w \in Workers, ~At(w, "idle"), NEW l \in PCs \ {"append"},
         Entry(w) \in Sessions, Attend(w, Entry(w), l)
  PROVE  QuietThr /\ QuietSess
<1> DEFINE s == Entry(w)
<1>1. sess[s] \in SessionState /\ thr[w] \in Thread
  BY DEF TypeInv, TypeOK, Threads
<1>2. MixedBy(w, s) \in BOOLEAN /\ (sess[s].mixed => MixedBy(w, s))
  BY <1>1 DEF MixedBy, SessionState
<1>3. QuietRec([sess[s] EXCEPT !.mixed = MixedBy(w, s)], sess[s])
  BY <1>1, <1>2, RecStepB
<1>4. QuietSess
  BY <1>3, SessStep DEF Attend
<1>5. sess'[s].mixed = MixedBy(w, s)
  BY <1>1 DEF Attend, Update, TypeInv, TypeOK, SessionState
<1>6. PICK r : r = [thr[w] EXCEPT !.pc = l, !.cur = s]
  OBVIOUS
<1>7. r \in Thread /\ r.cli = thr[w].cli /\ r.mine = thr[w].mine /\ r.cur = s /\ r.pc # "append"
  BY <1>1, <1>6 DEF Thread
<1>8. thr' = [thr EXCEPT ![w] = r]
  BY <1>6 DEF Attend
<1>9. thr[w].mine = s \/ sess'[s].mixed
  BY <1>5, ConstantsAssumption DEF MixedBy, TypeInv, ThreadsOK, Busy
<1>10. Key(w) \in Sockets
  BY KeyType DEF Threads
<1>11. QuietThr
  BY <1>7, <1>8, <1>9, <1>10, ThrStep DEF At, Entry, Threads
<1> QED
  BY <1>4, <1>11

\* What is not quiet: a task is enqueued, taken or ended, or a session inserted.
LEMMA QuietOrNot ==
  ASSUME TypeInv, [Next]_vars
  PROVE  \/ Quiet
         \/ \E c \in Clients : Listener_Append(c)
         \/ \E t \in Threads : initializeClient_Insert(t)
         \/ \E w \in Workers : Task_Start(w) \/ Task_End(w)
<1>1. ASSUME NEW c \in Clients, Connect(c) PROVE Quiet
  <2>1. QuietThr BY <1>1, GotoStep, ConstantsAssumption DEF Connect, At, PCs, Threads
  <2> QED BY <1>1, <2>1, SameSess, SameTable DEF Connect, Quiet, QuietRest, TypeInv, TypeOK
<1>2. ASSUME NEW c \in Clients, Close(c) PROVE Quiet
  BY <1>2, SameThr, SameSess, SameTable DEF Close, Quiet, QuietRest, TypeInv, TypeOK
<1>3. ASSUME NEW c \in Clients, Disconnected(c) PROVE Quiet
  <2>1. thr[c] \in Thread BY DEF TypeInv, TypeOK, Threads
  <2>2. PICK r : r = [thr[c] EXCEPT !.pc = "finalize", !.ret = "gone"] OBVIOUS
  <2>3. r \in Thread /\ r.cli = thr[c].cli /\ r.mine = thr[c].mine /\ r.cur = thr[c].cur /\ r.pc # "append"
    BY <2>1, <2>2 DEF Thread, PCs
  <2>4. thr' = [thr EXCEPT ![c] = r] BY <1>3, <2>2 DEF Disconnected
  <2>5. QuietThr BY <2>3, <2>4, ThrStep, ConstantsAssumption DEF Threads
  <2> QED BY <1>3, <2>5, SameSess, SameTable DEF Disconnected, Quiet, QuietRest, TypeInv, TypeOK
<1>4. ASSUME NEW c \in Clients, Listener_Count(c) PROVE Quiet
  <2>1. QuietThr BY <1>4, GotoStep, SameThr DEF Listener_Count, At, PCs, Threads
  <2>2. \A n \in 1..MaxChunk : (IF recvd[c] + n > MaxBytes[c] THEN MaxBytes[c] ELSE recvd[c] + n) \in Nat
    BY ConstantsAssumption DEF TypeInv, TypeOK
  <2>3. recvd' \in [Clients -> Nat] BY <1>4, <2>2 DEF Listener_Count, TypeInv, TypeOK
  <2> QED
    BY <1>4, <2>1, <2>3, SameSess, SameTable DEF Listener_Count, Quiet, QuietRest, TypeInv, TypeOK
<1>5. ASSUME NEW c \in Clients, Listener_Lookup(c) PROVE Quiet
  <2>1. thr[c] \in Thread /\ Key(c) \in Sockets
    BY <1>5, KeyType, ConstantsAssumption DEF TypeInv, TypeOK, Threads
  <2>2. table'[Key(c)] \in (Sessions \cup {Null}) /\ (table'[Key(c)] \in Sessions => table[Key(c)] = table'[Key(c)])
    BY <1>5, <2>1, ConstantsAssumption DEF Listener_Lookup, Subscript, TypeInv, TypeOK
  <2>3. PICK r : r = [thr[c] EXCEPT !.pc = "append", !.cur = table'[Key(c)]] OBVIOUS
  <2>4. r \in Thread /\ r.cli = thr[c].cli /\ r.mine = thr[c].mine /\ r.cur = table'[Key(c)]
    BY <2>1, <2>2, <2>3 DEF Thread, PCs
  <2>5. r.cur # None BY <2>2, <2>4, ConstantsAssumption
  <2>6. thr' = [thr EXCEPT ![c] = r] BY <1>5, <2>3 DEF Listener_Lookup
  <2>7. QuietThr BY <2>1, <2>2, <2>4, <2>5, <2>6, ThrStep, ConstantsAssumption DEF Threads
  <2> QED
    BY <1>5, <2>7, SameSess, SubscriptStep DEF Listener_Lookup, Quiet, QuietRest, TypeInv, TypeOK, Threads
<1>6. ASSUME NEW c \in Clients, Listener_NullState(c) PROVE Quiet
  BY <1>6, SameThr, SameSess, SameTable DEF Listener_NullState, Crash, Quiet, QuietRest, TypeInv, TypeOK
<1>7. ASSUME NEW t \in Threads, initializeClient_Count(t) PROVE Quiet
  <2>1. CASE Goto(t, "insert")
    <3>1. QuietThr BY <1>7, <2>1, GotoStep DEF initializeClient_Count, At, PCs
    <3> QED
      BY <1>7, <3>1, SameSess, SameTable DEF initializeClient_Count, Quiet, QuietRest, TypeInv, TypeOK
  <2>2. CASE thr' = [thr EXCEPT ![t].pc = "finalize", ![t].ret = "insert"]
    <3>1. thr[t] \in Thread BY DEF TypeInv, TypeOK
    <3>2. PICK r : r = [thr[t] EXCEPT !.pc = "finalize", !.ret = "insert"] OBVIOUS
    <3>3. r \in Thread /\ r.cli = thr[t].cli /\ r.mine = thr[t].mine /\ r.cur = thr[t].cur /\ r.pc # "append"
      BY <3>1, <3>2 DEF Thread, PCs
    <3>4. thr' = [thr EXCEPT ![t] = r] BY <2>2, <3>2
    <3>5. QuietThr BY <1>7, <3>3, <3>4, ThrStep DEF initializeClient_Count, At
    <3> QED
      BY <1>7, <3>5, SameSess, SameTable DEF initializeClient_Count, Quiet, QuietRest, TypeInv, TypeOK
  <2> QED BY <1>7, <2>1, <2>2 DEF initializeClient_Count
<1>8. ASSUME NEW t \in Threads, finalizeClient_Plain(t) PROVE Quiet
  <2>1. thr[t].ret \in PCs \ {"append"} BY DEF TypeInv, TypeOK, Thread, PCs
  <2>2. QuietThr BY <1>8, <2>1, GotoStep DEF finalizeClient_Plain, At
  <2>3. QuietTable BY <1>8 DEF finalizeClient_Plain, QuietTable, TypeInv, TypeOK
  <2> QED BY <1>8, <2>2, <2>3, SameSess DEF finalizeClient_Plain, Quiet, QuietRest, TypeInv, TypeOK
<1>9. ASSUME NEW t \in Threads, finalizeClient_NullState(t) PROVE Quiet
  BY <1>9, SameThr, SameSess, SameTable DEF finalizeClient_NullState, Crash, Quiet, QuietRest, TypeInv, TypeOK
<1>10. ASSUME NEW t \in Threads, finalizeClient_WebSocket(t) PROVE Quiet
  <2> DEFINE s == Entry(t)
  <2>1. s \in Sessions /\ sess[s] \in SessionState /\ thr[t] \in Thread
    BY <1>10 DEF finalizeClient_WebSocket, TypeInv, TypeOK
  <2>2. MixedBy(t, s) \in BOOLEAN /\ (sess[s].mixed => MixedBy(t, s))
    BY <2>1 DEF MixedBy, SessionState
  <2>3. QuietRec([sess[s] EXCEPT !.ws = "FINISHED", !.mixed = MixedBy(t, s)], sess[s])
    BY <2>1, <2>2, RecStepB
  <2>4. QuietSess BY <1>10, <2>3, SessStep DEF finalizeClient_WebSocket
  <2>5. sess'[s].mixed = MixedBy(t, s)
    BY <1>10, <2>1 DEF finalizeClient_WebSocket, Update, TypeInv, TypeOK, SessionState
  <2>6. PICK r : r = [thr[t] EXCEPT !.pc = "wsLoop", !.cur = s] OBVIOUS
  <2>7. r \in Thread /\ r.cli = thr[t].cli /\ r.mine = thr[t].mine /\ r.cur = s /\ r.pc # "append"
    BY <2>1, <2>6 DEF Thread, PCs
  <2>8. thr' = [thr EXCEPT ![t] = r] BY <1>10, <2>6 DEF finalizeClient_WebSocket
  <2>9. t \in Clients \/ thr[t].mine = s \/ sess'[s].mixed
    BY <1>10, <2>5, ConstantsAssumption DEF MixedBy, TypeInv, ThreadsOK, Threads, finalizeClient_WebSocket, Busy, At
  <2>10. Key(t) \in Sockets BY <1>10, KeyType DEF finalizeClient_WebSocket, At
  <2>11. QuietThr BY <1>10, <2>7, <2>8, <2>9, <2>10, ThrStep DEF finalizeClient_WebSocket, At, Entry
  <2> QED
    BY <1>10, <2>4, <2>11, SameTable DEF finalizeClient_WebSocket, Quiet, QuietRest, TypeInv, TypeOK
<1>11. ASSUME NEW t \in Threads, finalizeClient_Erase(t) PROVE Quiet
  <2>1. thr[t].ret \in PCs \ {"append"} BY DEF TypeInv, TypeOK, Thread, PCs
  <2>2. QuietThr BY <1>11, <2>1, GotoStep DEF finalizeClient_Erase, At
  <2>3. QuietTable BY <1>11 DEF finalizeClient_Erase, QuietTable, TypeInv, TypeOK
  <2> QED
    BY <1>11, <2>2, <2>3, SameSess DEF finalizeClient_Erase, Quiet, QuietRest, Unlock, TypeInv, TypeOK
<1>12. ASSUME NEW t \in Threads, WebSocketProcess_Loop(t) PROVE Quiet
  <2>1. QuietThr BY <1>12, GotoStep DEF WebSocketProcess_Loop, At, PCs
  <2> QED
    BY <1>12, <2>1, SameSess, SameTable DEF WebSocketProcess_Loop, Quiet, QuietRest, TypeInv, TypeOK
<1>13. ASSUME NEW t \in Threads, WebSocketProcess_Pop(t) PROVE Quiet
  <2> DEFINE s == Cur(t)
  <2>1. s \in Sessions => sess[s] \in SessionState BY DEF TypeInv, TypeOK
  <2>2. s \in Sessions => sess[s].buf - 1 \in Nat /\ sess[s].data + 1 \in Nat
    BY <1>13, <2>1 DEF WebSocketProcess_Pop, SessionState
  <2>3. ASSUME \E x \in {sess[s].ws, "OPEN", "FINISHED"} : Update(s, [sess[s] EXCEPT !.buf = @ - 1, !.ws = x])
        PROVE  QuietSess
    <3>1. PICK x \in {sess[s].ws, "OPEN", "FINISHED"} : Update(s, [sess[s] EXCEPT !.buf = @ - 1, !.ws = x])
      BY <2>3
    <3>2. s \in Sessions => x \in {"CLOSED", "OPEN", "FINISHED"} BY <2>1 DEF SessionState
    <3>3. s \in Sessions => QuietRec([sess[s] EXCEPT !.buf = @ - 1, !.ws = x], sess[s])
      BY <2>1, <2>2, <3>2, RecStep
    <3> QED BY <3>1, <3>3, SessStep
  <2>4. ASSUME Update(s, [sess[s] EXCEPT !.buf = @ - 1, !.data = @ + 1]) PROVE QuietSess
    <3>1. s \in Sessions => QuietRec([sess[s] EXCEPT !.buf = @ - 1, !.data = @ + 1], sess[s])
      BY <2>1, <2>2, RecStep
    <3> QED BY <2>4, <3>1, SessStep
  <2>5. QuietSess BY <1>13, <2>3, <2>4 DEF WebSocketProcess_Pop
  <2>6. QuietThr BY <1>13, GotoStep DEF WebSocketProcess_Pop, At, PCs
  <2> QED
    BY <1>13, <2>5, <2>6, SameTable DEF WebSocketProcess_Pop, Quiet, QuietRest, TypeInv, TypeOK
<1>14. ASSUME NEW t \in Threads, WebSocketProcess_DataReturned(t) PROVE Quiet
  <2> DEFINE s == Cur(t)
  <2>1. s \in Sessions => sess[s] \in SessionState BY DEF TypeInv, TypeOK
  <2>2. s \in Sessions => QuietRec([sess[s] EXCEPT !.ws = "OPEN"], sess[s]) BY <2>1, RecStep
  <2>3. QuietSess BY <1>14, <2>2, SessStep DEF WebSocketProcess_DataReturned
  <2>4. QuietThr BY <1>14, GotoStep DEF WebSocketProcess_DataReturned, At, PCs
  <2> QED
    BY <1>14, <2>3, <2>4, SameTable DEF WebSocketProcess_DataReturned, Quiet, QuietRest, TypeInv, TypeOK
<1>15. ASSUME NEW t \in Threads, WebSocketProcess_End(t) PROVE Quiet
  <2> DEFINE s == Cur(t)
  <2>1. s \in Sessions => sess[s] \in SessionState BY DEF TypeInv, TypeOK
  <2>2. s \in Sessions => sess[s].dis + 1 \in Nat BY <2>1 DEF SessionState
  <2>3. s \in Sessions => QuietRec([sess[s] EXCEPT !.dis = @ + 1], sess[s]) BY <2>1, <2>2, RecStep
  <2>4. QuietSess BY <1>15, <2>3, SessStep, SameSess DEF WebSocketProcess_End
  <2>5. QuietThr BY <1>15, GotoStep DEF WebSocketProcess_End, At, PCs
  <2>6. conn' \in [Clients -> {"new", "up", "down"}]
    BY <1>15 DEF WebSocketProcess_End, Disconnect, TypeInv, TypeOK
  <2> QED
    BY <1>15, <2>4, <2>5, <2>6, SameTable DEF WebSocketProcess_End, Quiet, QuietRest, TypeInv, TypeOK
<1>16. ASSUME NEW t \in Threads, PopEmpty(t) PROVE Quiet
  BY <1>16, SameThr, SameSess, SameTable DEF PopEmpty, Crash, Quiet, QuietRest, TypeInv, TypeOK
<1>17. ASSUME NEW w \in Workers, Task_Check(w) PROVE Quiet
  <2>1. QuietThr BY <1>17, GotoStep DEF Task_Check, At, PCs, Threads
  <2> QED BY <1>17, <2>1, SameSess, SameTable DEF Task_Check, Quiet, QuietRest, TypeInv, TypeOK
<1>18. ASSUME NEW w \in Workers, dataReceivedFrom_Count(w) PROVE Quiet
  <2>1. QuietThr BY <1>18, GotoStep DEF dataReceivedFrom_Count, At, PCs, Threads
  <2> QED
    BY <1>18, <2>1, SameSess, SameTable DEF dataReceivedFrom_Count, Quiet, QuietRest, TypeInv, TypeOK
<1>19. ASSUME NEW w \in Workers, dataReceivedFrom_Lookup(w) PROVE Quiet
  <2>1. QuietTable BY <1>19, SubscriptStep DEF dataReceivedFrom_Lookup, Threads
  <2>2. CASE Entry(w) \in Sessions
    <3>1. QuietThr /\ QuietSess
      BY <1>19, <2>2, AttendStep DEF dataReceivedFrom_Lookup, At, PCs, Mode
    <3> QED BY <1>19, <2>1, <3>1 DEF dataReceivedFrom_Lookup, Quiet, QuietRest, TypeInv, TypeOK
  <2>3. CASE Entry(w) \notin Sessions
    <3>1. QuietThr BY <1>19, <2>3, GotoStep DEF dataReceivedFrom_Lookup, At, PCs, Threads
    <3> QED
      BY <1>19, <2>1, <2>3, <3>1, SameSess DEF dataReceivedFrom_Lookup, Quiet, QuietRest, TypeInv, TypeOK
  <2> QED BY <2>2, <2>3
<1>20. ASSUME NEW w \in Workers, dataReceivedFrom_Loop(w) PROVE Quiet
  <2>1. QuietThr BY <1>20, GotoStep DEF dataReceivedFrom_Loop, At, PCs, Threads
  <2> QED
    BY <1>20, <2>1, SameSess, SameTable DEF dataReceivedFrom_Loop, Quiet, QuietRest, TypeInv, TypeOK
<1>21. ASSUME NEW w \in Workers, dataReceivedFrom_Pop(w) PROVE Quiet
  <2> DEFINE s == Cur(w)
  <2>1. s \in Sessions => sess[s] \in SessionState BY DEF TypeInv, TypeOK
  <2>2. s \in Sessions => sess[s].buf - 1 \in Nat
    BY <1>21, <2>1 DEF dataReceivedFrom_Pop, SessionState
  <2>3. ASSUME Update(s, [sess[s] EXCEPT !.buf = @ - 1]) PROVE QuietSess
    <3>1. s \in Sessions => QuietRec([sess[s] EXCEPT !.buf = @ - 1], sess[s]) BY <2>1, <2>2, RecStep
    <3> QED BY <2>3, <3>1, SessStep
  <2>4. ASSUME NEW h \in {"ERROR", "SEND_REQUEST_TO_APP"}, NEW k \in {"keep", "close", "upgrade"},
               Update(s, [sess[s] EXCEPT !.buf = @ - 1, !.http = h, !.kind = k])
        PROVE  QuietSess
    <3>1. s \in Sessions => QuietRec([sess[s] EXCEPT !.buf = @ - 1, !.http = h, !.kind = k], sess[s])
      BY <2>1, <2>2, RecStep
    <3> QED BY <2>4, <3>1, SessStep
  <2>5. QuietSess BY <1>21, <2>3, <2>4 DEF dataReceivedFrom_Pop
  <2>6. QuietThr BY <1>21, GotoStep DEF dataReceivedFrom_Pop, At, PCs, Threads
  <2> QED
    BY <1>21, <2>5, <2>6, SameTable DEF dataReceivedFrom_Pop, Quiet, QuietRest, TypeInv, TypeOK
<1>22. ASSUME NEW w \in Workers, dataReceivedFrom_CallApp(w) PROVE Quiet
  <2> DEFINE s == Cur(w)
  <2>1. s \in Sessions => sess[s] \in SessionState BY DEF TypeInv, TypeOK
  <2>2. s \in Sessions => sess[s].req + 1 \in Nat BY <2>1 DEF SessionState
  <2>3. s \in Sessions => QuietRec([sess[s] EXCEPT !.req = @ + 1], sess[s]) BY <2>1, <2>2, RecStep
  <2>4. QuietSess BY <1>22, <2>3, SessStep DEF dataReceivedFrom_CallApp
  <2>5. QuietThr BY <1>22, GotoStep DEF dataReceivedFrom_CallApp, At, PCs, Threads
  <2> QED
    BY <1>22, <2>4, <2>5, SameTable DEF dataReceivedFrom_CallApp, Quiet, QuietRest, TypeInv, TypeOK
<1>23. ASSUME NEW w \in Workers, dataReceivedFrom_AppReturned(w) PROVE Quiet
  <2> DEFINE s == Cur(w)
  <2>1. s \in Sessions => sess[s] \in SessionState BY DEF TypeInv, TypeOK
  <2>2. PICK k \in IF sess[s].kind = "keep" THEN {"keep", "close"} ELSE {sess[s].kind}, x \in {"OPEN", sess[s].ws} :
          Update(s, [sess[s] EXCEPT !.http = "SEND_RESPONSE", !.kind = k, !.ws = x])
    BY <1>23 DEF dataReceivedFrom_AppReturned, AfterApp
  <2>3. s \in Sessions => k \in {"keep", "close", "upgrade"} /\ x \in {"CLOSED", "OPEN", "FINISHED"}
    BY <2>1 DEF SessionState
  <2>4. s \in Sessions => QuietRec([sess[s] EXCEPT !.http = "SEND_RESPONSE", !.kind = k, !.ws = x], sess[s])
    BY <2>1, <2>3, RecStep
  <2>5. QuietSess BY <2>2, <2>4, SessStep
  <2>6. QuietThr BY <1>23, GotoStep DEF dataReceivedFrom_AppReturned, At, PCs, Threads
  <2> QED
    BY <1>23, <2>5, <2>6, SameTable DEF dataReceivedFrom_AppReturned, Quiet, QuietRest, TypeInv, TypeOK
<1>24. ASSUME NEW w \in Workers, dataReceivedFrom_Respond(w) PROVE Quiet
  <2> DEFINE s == Cur(w)
  <2>1. s \in Sessions => sess[s] \in SessionState BY DEF TypeInv, TypeOK
  <2>3. s \in Sessions => QuietRec([sess[s] EXCEPT !.http = "FINISHED"], sess[s]) BY <2>1, RecStep
  <2>4. QuietSess BY <1>24, <2>3, SessStep DEF dataReceivedFrom_Respond
  <2>5. QuietThr BY <1>24, GotoStep DEF dataReceivedFrom_Respond, At, PCs, Threads
  <2> QED
    BY <1>24, <2>4, <2>5, SameTable DEF dataReceivedFrom_Respond, Quiet, QuietRest, TypeInv, TypeOK
<1>25. ASSUME NEW w \in Workers, endHttpRequest_WebSocket(w) PROVE Quiet
  <2> DEFINE s == Cur(w)
  <2>1. s \in Sessions => sess[s] \in SessionState BY DEF TypeInv, TypeOK
  <2>2. s \in Sessions => sess[s].con + 1 \in Nat /\ (sess[s].late \/ sess[s].buf > 0) \in BOOLEAN
    BY <2>1 DEF SessionState
  <2>3. s \in Sessions => QuietRec([sess[s] EXCEPT !.con = @ + 1, !.late = @ \/ sess[s].buf > 0], sess[s])
    BY <2>1, <2>2, RecStepB
  <2>4. QuietSess BY <1>25, <2>3, SessStep DEF endHttpRequest_WebSocket
  <2>5. QuietThr BY <1>25, GotoStep DEF endHttpRequest_WebSocket, At, PCs, Threads
  <2> QED
    BY <1>25, <2>4, <2>5, SameTable DEF endHttpRequest_WebSocket, Quiet, QuietRest, TypeInv, TypeOK
<1>26. ASSUME NEW w \in Workers, endHttpRequest_KeepAlive(w) PROVE Quiet
  <2>1. thr[w] \in Thread BY DEF TypeInv, TypeOK, Threads
  <2>2. PICK r : r = [thr[w] EXCEPT !.pc = "finalize", !.ret = "initialize"] OBVIOUS
  <2>3. r \in Thread /\ r.cli = thr[w].cli /\ r.mine = thr[w].mine /\ r.cur = thr[w].cur /\ r.pc # "append"
    BY <2>1, <2>2 DEF Thread, PCs
  <2>4. thr' = [thr EXCEPT ![w] = r] BY <1>26, <2>2 DEF endHttpRequest_KeepAlive
  <2>5. QuietThr BY <1>26, <2>3, <2>4, ThrStep DEF endHttpRequest_KeepAlive, At, Threads
  <2> QED
    BY <1>26, <2>5, SameSess, SameTable DEF endHttpRequest_KeepAlive, Quiet, QuietRest, TypeInv, TypeOK
<1>27. ASSUME NEW w \in Workers, endHttpRequest_Close(w) PROVE Quiet
  <2>1. QuietThr BY <1>27, GotoStep DEF endHttpRequest_Close, At, PCs, Threads
  <2>2. conn' \in [Clients -> {"new", "up", "down"}]
    BY <1>27 DEF endHttpRequest_Close, Disconnect, TypeInv, TypeOK
  <2> QED
    BY <1>27, <2>1, <2>2, SameSess, SameTable DEF endHttpRequest_Close, Quiet, QuietRest, TypeInv, TypeOK
<1>28. ASSUME NEW w \in Workers, endHttpRequest_Relook(w) PROVE Quiet
  <2>1. QuietThr BY <1>28, GotoStep DEF endHttpRequest_Relook, At, PCs, Threads
  <2>2. QuietTable BY <1>28, SubscriptStep DEF endHttpRequest_Relook, Threads
  <2> QED
    BY <1>28, <2>1, <2>2, SameSess DEF endHttpRequest_Relook, Quiet, QuietRest, TypeInv, TypeOK
<1>29. ASSUME NEW w \in Workers, WebSocketProcess_Lookup(w) PROVE Quiet
  <2>1. QuietThr /\ QuietSess BY <1>29, AttendStep DEF WebSocketProcess_Lookup, At, PCs
  <2> QED BY <1>29, <2>1, SameTable DEF WebSocketProcess_Lookup, Quiet, QuietRest, TypeInv, TypeOK
<1>30. ASSUME NEW w \in Workers, WebSocketProcess_NullState(w) PROVE Quiet
  <2>1. QuietTable BY <1>30, SubscriptStep DEF WebSocketProcess_NullState, Threads
  <2> QED
    BY <1>30, <2>1, SameThr, SameSess DEF WebSocketProcess_NullState, Crash, Quiet, QuietRest, TypeInv, TypeOK
<1>31. CASE broadcastWebSocker_NullState
  BY <1>31, SameThr, SameSess, SameTable DEF broadcastWebSocker_NullState, Crash, Quiet, QuietRest, TypeInv, TypeOK
<1>32. CASE UNCHANGED vars
  BY <1>32, SameThr, SameSess, SameTable DEF vars, Quiet, QuietRest, TypeInv, TypeOK
<1>33. QED
  BY <1>1, <1>2, <1>3, <1>4, <1>5, <1>6, <1>7, <1>8, <1>9, <1>10, <1>11, <1>12, <1>13, <1>14, <1>15, <1>16, <1>17, <1>18, <1>19, <1>20, <1>21, <1>22, <1>23, <1>24, <1>25, <1>26, <1>27, <1>28, <1>29, <1>30, <1>31, <1>32 DEF Next, Tcp, Shared, Worker

\* A quiet step keeps the types.
LEMMA Quiet_Type ==
  ASSUME TypeInv, Quiet
  PROVE  TypeInv'
  BY DEF TypeInv, TypeOK, Quiet, QuietThr, QuietSess, QuietTable, QuietRest

-----------------------------------------------------------------------------
(* The four steps that are not quiet.                                      *)

\* The listener enqueues a task for a session without one, or just appends.
LEMMA Append_Effect ==
  ASSUME TypeInv, NEW c \in Clients, Listener_Append(c)
  PROVE  /\ TypeInv' /\ table' = table
         /\ \A t \in Threads : thr'[t].mine = thr[t].mine /\ thr'[t].cur = thr[t].cur
         /\ \A w \in Workers : thr'[w] = thr[w]
         /\ \A s \in Sessions : sess'[s].owner = sess[s].owner /\ sess'[s].mixed = sess[s].mixed
         /\ Cur(c) \in Sessions
         /\ \/ /\ ~sess[Cur(c)].processing
               /\ tasks' = Append(tasks, [client |-> c, state |-> Cur(c)])
               /\ sess'[Cur(c)].processing
               /\ \A s \in Sessions : s # Cur(c) => sess'[s].processing = sess[s].processing
            \/ /\ tasks' = tasks
               /\ \A s \in Sessions : sess'[s].processing = sess[s].processing
<1> DEFINE s == Cur(c)
<1>1. c \in Threads /\ c \notin Workers
  BY ConstantsAssumption DEF Threads
<1>2. thr[c] \in Thread
  BY <1>1 DEF TypeInv, TypeOK
<1>3. s \in Sessions /\ sess[s] \in SessionState
  BY <1>1, <1>2 DEF Listener_Append, TypeInv, TypeOK, ThreadsOK, Thread, Cur
<1>4. QuietThr
  BY <1>1, GotoStep DEF Listener_Append, PCs
<1>5. /\ thr' \in [Threads -> Thread] /\ ThreadsOK'
      /\ \A t \in Threads : thr'[t].mine = thr[t].mine /\ thr'[t].cur = thr[t].cur
      /\ \A w \in Workers : thr'[w] = thr[w]
  BY <1>1, <1>2, <1>4 DEF QuietThr, Listener_Append, Goto, TypeInv, TypeOK, Thread, Threads
<1>6. PICK n \in 1..MaxChunk :
        /\ recvd' = [recvd EXCEPT ![c] = @ + n]
        /\ \/ /\ ~sess[s].processing
              /\ Update(s, [sess[s] EXCEPT !.buf = @ + n, !.processing = TRUE, !.late = FALSE])
              /\ tasks' = Append(tasks, [client |-> c, state |-> s])
           \/ /\ Update(s, [sess[s] EXCEPT !.buf = @ + n, !.late = @ \/ TaskLeaving(s)])
              /\ tasks' = tasks
  BY DEF Listener_Append, NeedsTask
<1>7. sess[s].buf + n \in Nat /\ recvd[c] + n \in Nat
  BY <1>3, ConstantsAssumption DEF SessionState, TypeInv, TypeOK
<1>8. recvd' \in [Clients -> Nat]
  BY <1>6, <1>7 DEF TypeInv, TypeOK
<1>9. table' = table /\ conn' = conn /\ mapLock' = mapLock /\ crashed' = crashed
  BY DEF Listener_Append
<1>10. CASE /\ ~sess[s].processing
            /\ Update(s, [sess[s] EXCEPT !.buf = @ + n, !.processing = TRUE, !.late = FALSE])
            /\ tasks' = Append(tasks, [client |-> c, state |-> s])
  <2> DEFINE f == [sess[s] EXCEPT !.buf = @ + n, !.processing = TRUE, !.late = FALSE]
  <2>1. f \in SessionState /\ f.owner = sess[s].owner /\ f.mixed = sess[s].mixed /\ f.processing = TRUE
    BY <1>3, <1>7, RecEnqueue
  <2>2. sess' \in [Sessions -> SessionState] /\ sess'[s] = f /\ \A x \in Sessions : x # s => sess'[x] = sess[x]
    BY <1>3, <1>10, <2>1 DEF Update, TypeInv, TypeOK
  <2>3. tasks' \in Seq(Task)
    BY <1>3, <1>10 DEF TypeInv, TypeOK, Task
  <2>4. TypeInv'
    BY <1>5, <1>8, <1>9, <2>2, <2>3 DEF TypeInv, TypeOK
  <2>5. /\ \A x \in Sessions : sess'[x].owner = sess[x].owner /\ sess'[x].mixed = sess[x].mixed
        /\ sess'[s].processing
        /\ \A x \in Sessions : x # s => sess'[x].processing = sess[x].processing
    BY <2>1, <2>2
  <2> QED
    BY <1>3, <1>5, <1>9, <1>10, <2>4, <2>5
<1>11. CASE /\ Update(s, [sess[s] EXCEPT !.buf = @ + n, !.late = @ \/ TaskLeaving(s)])
            /\ tasks' = tasks
  <2>1. (sess[s].late \/ TaskLeaving(s)) \in BOOLEAN
    OBVIOUS
  <2>2. QuietRec([sess[s] EXCEPT !.buf = @ + n, !.late = @ \/ TaskLeaving(s)], sess[s])
    BY <1>3, <1>7, <2>1, RecStepB
  <2>3. [sess[s] EXCEPT !.buf = @ + n, !.late = @ \/ TaskLeaving(s)].mixed = sess[s].mixed
    BY <1>3 DEF SessionState
  <2>4. QuietSess /\ \A x \in Sessions : sess'[x].mixed = sess[x].mixed
    BY <1>3, <1>11, <2>2, <2>3, SessStep DEF Update, TypeInv, TypeOK
  <2>5. TypeInv'
    BY <1>5, <1>8, <1>9, <1>11, <2>4 DEF TypeInv, TypeOK, QuietSess
  <2> QED
    BY <1>3, <1>5, <1>9, <1>11, <2>4, <2>5 DEF QuietSess, QuietRec
<1> QED
  BY <1>6, <1>10, <1>11

\* A session nobody has is given to the client.
LEMMA Insert_Effect ==
  ASSUME TypeInv, NEW t \in Threads, initializeClient_Insert(t)
  PROVE  /\ TypeInv' /\ tasks' = tasks
         /\ \A u \in Threads : /\ thr'[u].mine = thr[u].mine /\ thr'[u].cur = thr[u].cur
                               /\ u \in Workers /\ thr'[u].pc # "idle" => thr[u].pc # "idle"
         /\ \E s \in Sessions :
              /\ sess[s].owner = None /\ sess'[s].owner # None
              /\ \A k \in Sockets : table'[k] \in {table[k], s}
              /\ \A x \in Sessions \ {s} : sess'[x] = sess[x]
<1>1. PICK s \in Sessions :
        /\ Unused(s) /\ Update(s, FreshState(thr[t].cli)) /\ table' = [table EXCEPT ![Key(t)] = s]
  BY DEF initializeClient_Insert
<1>2. thr[t] \in Thread /\ thr[t].cli \in Clients /\ thr[t].cli # None
  BY ConstantsAssumption DEF TypeInv, TypeOK, ThreadsOK, Threads, initializeClient_Insert, At, Busy
<1>3. /\ FreshState(thr[t].cli) \in SessionState
      /\ FreshState(thr[t].cli).owner = thr[t].cli
  BY <1>2 DEF FreshState, SessionState
<1>4. QuietThr
  BY GotoStep DEF initializeClient_Insert, PCs, At
<1>5. \A u \in Threads : thr'[u].cur = thr[u].cur
  BY <1>2 DEF initializeClient_Insert, Goto, TypeInv, TypeOK, Thread
<1>6. TypeInv'
  <2>1. sess' \in [Sessions -> SessionState]
    BY <1>1, <1>3 DEF Update, TypeInv, TypeOK
  <2>2. table' \in [Sockets -> Sessions \cup {None, Null}]
    BY <1>1 DEF TypeInv, TypeOK
  <2> QED
    BY <1>4, <2>1, <2>2 DEF initializeClient_Insert, TypeInv, TypeOK, QuietThr
<1>7. \A k \in Sockets : table'[k] \in {table[k], s}
  BY <1>1 DEF TypeInv, TypeOK
<1>8. sess'[s].owner # None /\ \A x \in Sessions \ {s} : sess'[x] = sess[x]
  BY <1>1, <1>2, <1>3 DEF Update, TypeInv, TypeOK
<1>9. tasks' = tasks
  BY DEF initializeClient_Insert
<1> QED
  BY <1>1, <1>4, <1>5, <1>6, <1>7, <1>8, <1>9 DEF QuietThr, Unused

\* An idle worker takes the first task.
LEMMA Start_Effect ==
  ASSUME TypeInv, NEW w \in Workers, Task_Start(w)
  PROVE  /\ TypeInv' /\ sess' = sess /\ table' = table
         /\ tasks # <<>> /\ tasks' = Tail(tasks)
         /\ \A u \in Threads \ {w} : thr'[u] = thr[u]
         /\ thr[w].pc = "idle" /\ thr'[w].mine = Head(tasks).state /\ thr'[w].cur = None
<1>1. w \in Threads /\ w \notin Clients
  BY ConstantsAssumption DEF Threads
<1>2. Head(tasks) \in Task /\ Tail(tasks) \in Seq(Task) /\ tasks # <<>>
  BY HeadTailProperties DEF Task_Start, TypeInv, TypeOK
<1>3. Head(tasks).client \in Clients /\ Head(tasks).state \in Sessions
  BY <1>2 DEF Task
<1>4. thr[w] \in Thread
  BY <1>1 DEF TypeInv, TypeOK
<1>5. PICK r : r = [thr[w] EXCEPT !.pc = "check", !.cli = Head(tasks).client,
                                  !.mine = Head(tasks).state, !.cur = None]
  OBVIOUS
<1>6. r \in Thread /\ r.cli = Head(tasks).client /\ r.mine = Head(tasks).state /\ r.cur = None
  BY <1>3, <1>4, <1>5 DEF Thread, PCs
<1>7. thr' = [thr EXCEPT ![w] = r]
  BY <1>5 DEF Task_Start
<1>8. thr' \in [Threads -> Thread] /\ thr'[w] = r /\ \A u \in Threads \ {w} : thr'[u] = thr[u]
  BY <1>1, <1>6, <1>7 DEF TypeInv, TypeOK
<1>9. ThreadsOK'
  BY <1>1, <1>3, <1>6, <1>8 DEF TypeInv, ThreadsOK, Threads, Busy, At, Cur
<1>10. TypeInv'
  BY <1>2, <1>8, <1>9 DEF Task_Start, TypeInv, TypeOK
<1> QED
  BY <1>2, <1>6, <1>8, <1>10 DEF Task_Start, At

\* A worker ends its task and clears the flag of the task's session.
LEMMA End_Effect ==
  ASSUME TypeInv, NEW w \in Workers, Task_End(w)
  PROVE  /\ TypeInv' /\ tasks' = tasks /\ table' = table
         /\ \A u \in Threads : thr'[u].mine = thr[u].mine /\ thr'[u].cur = thr[u].cur
         /\ \A u \in Threads \ {w} : thr'[u] = thr[u]
         /\ thr[w].pc # "idle" /\ thr'[w].pc = "idle"
         /\ \A s \in Sessions : /\ sess'[s].owner = sess[s].owner /\ sess'[s].mixed = sess[s].mixed
                                /\ s # thr[w].mine => sess'[s] = sess[s]
<1>1. w \in Threads /\ w \notin Clients
  BY ConstantsAssumption DEF Threads
<1>2. thr[w] \in Thread
  BY <1>1 DEF TypeInv, TypeOK
<1>3. PICK r : r = [thr[w] EXCEPT !.pc = "idle"]
  OBVIOUS
<1>4. r \in Thread /\ r.pc = "idle" /\ r.mine = thr[w].mine /\ r.cur = thr[w].cur
  BY <1>2, <1>3 DEF Thread, PCs
<1>5. thr' = [thr EXCEPT ![w] = r]
  BY <1>3 DEF Task_End, Goto
<1>6. thr' \in [Threads -> Thread] /\ thr'[w] = r /\ \A u \in Threads \ {w} : thr'[u] = thr[u]
  BY <1>1, <1>4, <1>5 DEF TypeInv, TypeOK
<1>7. ThreadsOK'
  BY <1>1, <1>4, <1>6 DEF TypeInv, ThreadsOK, Threads, Busy, At, Cur
<1> DEFINE s == thr[w].mine
<1>8. s \in Sessions /\ sess[s] \in SessionState
  BY DEF Task_End, TypeInv, TypeOK, ThreadsOK, Busy, At
<1>9. PICK f : f = [sess[s] EXCEPT !.processing = FALSE]
  OBVIOUS
<1>10. f \in SessionState /\ f.owner = sess[s].owner /\ f.mixed = sess[s].mixed
  BY <1>8, <1>9, RecClear
<1>11. Update(s, f)
  BY <1>9 DEF Task_End
<1>12. sess' \in [Sessions -> SessionState] /\ sess'[s] = f /\ \A x \in Sessions : x # s => sess'[x] = sess[x]
  BY <1>8, <1>10, <1>11 DEF Update, TypeInv, TypeOK
<1>13. TypeInv'
  BY <1>6, <1>7, <1>12 DEF Task_End, TypeInv, TypeOK
<1> QED
  BY <1>4, <1>6, <1>10, <1>12, <1>13 DEF Task_End, At

\* The first state is well typed.
LEMMA Init_Type == Init => TypeInv
<1> SUFFICES ASSUME Init PROVE TypeInv
  OBVIOUS
<1>1. FreshState(None) \in SessionState
  BY DEF FreshState, SessionState
<1>2. thr \in [Threads -> Thread]
  BY DEF Init, Thread, PCs, Threads
<1>3. ThreadsOK
  BY ConstantsAssumption DEF Init, ThreadsOK, Threads, Busy, At
<1>4. sess \in [Sessions -> SessionState] /\ tasks \in Seq(Task)
  BY <1>1 DEF Init
<1>5. TypeOK
  BY <1>2, <1>4 DEF Init, TypeOK
<1> QED
  BY <1>3, <1>5 DEF TypeInv

\* Every step keeps the types.
LEMMA Type_Step ==
  ASSUME TypeInv, [Next]_vars
  PROVE  TypeInv'
  BY QuietOrNot, Quiet_Type, Append_Effect, Insert_Effect, Start_Effect, End_Effect

\* Every variable keeps its type.
THEOREM TypeCorrect == Spec => []TypeOK
<1>1. Init => TypeInv
  BY Init_Type
<1>2. TypeInv /\ [Next]_vars => TypeInv'
  BY Type_Step
<1>3. TypeInv => TypeOK
  BY DEF TypeInv
<1> QED
  BY <1>1, <1>2, <1>3, PTL DEF Spec

-----------------------------------------------------------------------------
(* One task per session.                                                   *)

\* A session that somebody refers to is in use.
Owned ==
  /\ \A k \in Sockets : table[k] \in Sessions => sess[table[k]].owner # None
  /\ \A t \in Threads : thr[t].cur \in Sessions => sess[thr[t].cur].owner # None
  /\ \A i \in 1..Len(tasks) : sess[tasks[i].state].owner # None
  /\ \A w \in Workers : Busy(w) => sess[thr[w].mine].owner # None

\* OneTaskPerSession, with the indices of the queue spelled out.
Tasks ==
  /\ \A i, j \in 1..Len(tasks) : tasks[i].state = tasks[j].state => i = j
  /\ \A v, w \in Workers : Busy(v) /\ Busy(w) /\ thr[v].mine = thr[w].mine => v = w
  /\ \A i \in 1..Len(tasks), w \in Workers : Busy(w) => thr[w].mine # tasks[i].state
  /\ \A i \in 1..Len(tasks) : sess[tasks[i].state].processing
  /\ \A w \in Workers : Busy(w) => sess[thr[w].mine].processing

\* A worker that left its own task's session has marked the one it works on.
Told ==
  \A w \in Workers : Busy(w) /\ Cur(w) \in Sessions => sess[Cur(w)].mixed \/ thr[w].mine = Cur(w)

IInv == TypeInv /\ Owned /\ Tasks /\ Told

\* A task in the queue, or of a busy worker, is for a session.
LEMMA TaskState ==
  ASSUME TypeInv
  PROVE  /\ Len(tasks) \in Nat /\ DOMAIN tasks = 1..Len(tasks)
         /\ \A i \in 1..Len(tasks) : tasks[i] \in Task /\ tasks[i].state \in Sessions
         /\ \A w \in Workers : w \in Threads /\ (Busy(w) => thr[w].mine \in Sessions)
<1>1. tasks \in Seq(Task)
  BY DEF TypeInv, TypeOK
<1>2. Len(tasks) \in Nat /\ DOMAIN tasks = 1..Len(tasks) /\ \A i \in 1..Len(tasks) : tasks[i] \in Task
  BY <1>1, LenProperties, ElementOfSeq
<1> QED
  BY <1>2 DEF Task, TypeInv, ThreadsOK, Threads

\* A quiet step keeps the invariant.
LEMMA Quiet_IInv ==
  ASSUME IInv, Quiet
  PROVE  IInv'
<1>1. TypeInv'
  BY Quiet_Type DEF IInv
<1>2. Owned'
  <2>1. \A s \in Sessions : sess'[s].owner = sess[s].owner
    BY DEF Quiet, QuietSess, QuietRec
  <2>2. \A k \in Sockets : table'[k] \in Sessions => sess'[table'[k]].owner # None
    BY <2>1, ConstantsAssumption DEF IInv, Owned, Quiet, QuietTable
  <2>3. \A t \in Threads : thr'[t].cur \in Sessions => sess'[thr'[t].cur].owner # None
    BY <2>1 DEF IInv, Owned, Quiet, QuietThr
  <2>4. \A i \in 1..Len(tasks') : sess'[tasks'[i].state].owner # None
    BY <2>1, TaskState DEF IInv, Owned, Quiet, QuietRest
  <2>5. \A w \in Workers : Busy(w)' => sess'[thr'[w].mine].owner # None
    BY <2>1, TaskState DEF IInv, Owned, Quiet, QuietThr, Busy, At
  <2> QED
    BY <2>2, <2>3, <2>4, <2>5 DEF Owned
<1>3. Tasks'
  BY TaskState DEF IInv, Tasks, Quiet, QuietThr, QuietSess, QuietRec, QuietRest, Busy, At
<1>4. Told'
  BY TaskState, ConstantsAssumption DEF IInv, Told, Quiet, QuietThr, QuietSess, QuietRec, Busy, At, Cur, Threads
<1> QED
  BY <1>1, <1>2, <1>3, <1>4 DEF IInv

\* Enqueueing a task keeps it: the flag was clear, so the session had none.
LEMMA Append_IInv ==
  ASSUME IInv, NEW c \in Clients, Listener_Append(c)
  PROVE  IInv'
<1> USE Append_Effect
<1>1. TypeInv /\ TypeInv'
  BY DEF IInv
<1>2. \A w \in Workers : thr'[w] = thr[w] /\ (Busy(w)' <=> Busy(w))
  BY <1>1 DEF Busy, At
<1>3. CASE tasks' = tasks /\ \A s \in Sessions : sess'[s].processing = sess[s].processing
  <2>1. Owned'
    <3>1. \A s \in Sessions : sess'[s].owner = sess[s].owner
      BY <1>1
    <3>2. \A k \in Sockets : table'[k] \in Sessions => sess'[table'[k]].owner # None
      BY <1>1, <3>1 DEF IInv, Owned
    <3>3. \A t \in Threads : thr'[t].cur \in Sessions => sess'[thr'[t].cur].owner # None
      BY <1>1, <3>1 DEF IInv, Owned
    <3>4. \A i \in 1..Len(tasks') : sess'[tasks'[i].state].owner # None
      BY <1>1, <1>3, <3>1, TaskState DEF IInv, Owned
    <3>5. \A w \in Workers : Busy(w)' => sess'[thr'[w].mine].owner # None
      BY <1>1, <1>2, <3>1, TaskState DEF IInv, Owned
    <3> QED
      BY <3>2, <3>3, <3>4, <3>5 DEF Owned
  <2>2. Tasks'
    <3>1. \A i \in 1..Len(tasks') : sess'[tasks'[i].state].processing
      BY <1>1, <1>3, TaskState DEF IInv, Tasks
    <3>2. \A w \in Workers : Busy(w)' => sess'[thr'[w].mine].processing
      BY <1>1, <1>2, <1>3, TaskState DEF IInv, Tasks
    <3> QED
      BY <1>2, <1>3, <3>1, <3>2 DEF IInv, Tasks
  <2>3. Told'
    BY <1>1, <1>2, <1>3 DEF IInv, Told, Cur
  <2> QED
    BY <1>1, <2>1, <2>2, <2>3 DEF IInv
<1>4. CASE /\ ~sess[Cur(c)].processing
           /\ tasks' = Append(tasks, [client |-> c, state |-> Cur(c)])
           /\ sess'[Cur(c)].processing
           /\ \A s \in Sessions : s # Cur(c) => sess'[s].processing = sess[s].processing
  <2>1. Cur(c) \in Sessions /\ c \in Threads
    BY <1>1 DEF Threads
  <2>2. /\ Len(tasks) \in Nat /\ Len(tasks') = Len(tasks) + 1
        /\ \A i \in 1..Len(tasks) : tasks'[i] = tasks[i] /\ tasks[i].state \in Sessions
        /\ tasks'[Len(tasks) + 1].state = Cur(c)
    BY <1>1, <1>4, <2>1, TaskState DEF TypeInv, TypeOK, Task
  <2>3. /\ \A i \in 1..Len(tasks) : tasks[i].state # Cur(c)
        /\ \A w \in Workers : Busy(w) => thr[w].mine # Cur(c)
    BY <1>4 DEF IInv, Tasks
  <2>4. \A i \in 1..Len(tasks') : i = Len(tasks) + 1 \/ i \in 1..Len(tasks)
    BY <2>2
  <2>5. Owned'
    <3>1. sess[Cur(c)].owner # None
      BY <2>1 DEF IInv, Owned, Cur
    <3>2. \A i \in 1..Len(tasks') : sess'[tasks'[i].state].owner # None
      <4>1. \A i \in 1..Len(tasks) : sess'[tasks'[i].state].owner # None
        BY <1>1, <2>2 DEF IInv, Owned
      <4>2. sess'[tasks'[Len(tasks) + 1].state].owner # None
        BY <1>1, <2>1, <2>2, <3>1
      <4> QED
        BY <2>4, <4>1, <4>2
    <3>3. \A w \in Workers : Busy(w)' => sess'[thr'[w].mine].owner # None
      BY <1>1, <1>2, TaskState DEF IInv, Owned
    <3>4. \A k \in Sockets : table'[k] \in Sessions => sess'[table'[k]].owner # None
      BY <1>1 DEF IInv, Owned
    <3>5. \A t \in Threads : thr'[t].cur \in Sessions => sess'[thr'[t].cur].owner # None
      BY <1>1 DEF IInv, Owned
    <3> QED
      BY <3>2, <3>3, <3>4, <3>5 DEF Owned
  <2>6. \A i, j \in 1..Len(tasks') : tasks'[i].state = tasks'[j].state => i = j
    BY <2>2, <2>3, <2>4 DEF IInv, Tasks
  <2>7. \A i \in 1..Len(tasks'), w \in Workers : Busy(w)' => thr'[w].mine # tasks'[i].state
    BY <1>2, <2>2, <2>3, <2>4 DEF IInv, Tasks
  <2>8. \A i \in 1..Len(tasks') : sess'[tasks'[i].state].processing
    BY <1>4, <2>1, <2>2, <2>4 DEF IInv, Tasks
  <2>9. \A w \in Workers : Busy(w)' => sess'[thr'[w].mine].processing
    BY <1>1, <1>2, <1>4, <2>3, TaskState DEF IInv, Tasks
  <2>10. Tasks'
    BY <1>2, <2>6, <2>7, <2>8, <2>9 DEF IInv, Tasks
  <2>11. Told'
    BY <1>1, <1>2 DEF IInv, Told, Cur
  <2> QED
    BY <1>1, <2>5, <2>10, <2>11 DEF IInv
<1> QED
  BY <1>1, <1>3, <1>4

\* Inserting a session keeps it: the session was nobody's.
LEMMA Insert_IInv ==
  ASSUME IInv, NEW t \in Threads, initializeClient_Insert(t)
  PROVE  IInv'
<1>1. TypeInv /\ TypeInv' /\ tasks' = tasks
  BY Insert_Effect DEF IInv
<1>2. \A u \in Threads : thr'[u].mine = thr[u].mine /\ thr'[u].cur = thr[u].cur
  BY <1>1, Insert_Effect
<1>3. \A w \in Workers : Busy(w)' => Busy(w)
  BY <1>1, Insert_Effect DEF Busy, At, Threads
<1>4. PICK s \in Sessions :
        /\ sess[s].owner = None /\ sess'[s].owner # None
        /\ \A k \in Sockets : table'[k] \in {table[k], s}
        /\ \A x \in Sessions \ {s} : sess'[x] = sess[x]
  BY <1>1, Insert_Effect
<1>5. \A x \in Sessions : sess[x].owner # None => sess'[x] = sess[x]
  BY <1>4
<1>6. Owned'
  <2>1. \A k \in Sockets : table'[k] \in Sessions => sess'[table'[k]].owner # None
    BY <1>4, <1>5 DEF IInv, Owned
  <2>2. \A u \in Threads : thr'[u].cur \in Sessions => sess'[thr'[u].cur].owner # None
    BY <1>2, <1>5 DEF IInv, Owned
  <2>3. \A i \in 1..Len(tasks') : sess'[tasks'[i].state].owner # None
    BY <1>1, <1>5, TaskState DEF IInv, Owned
  <2>4. \A w \in Workers : Busy(w)' => sess'[thr'[w].mine].owner # None
    BY <1>1, <1>2, <1>3, <1>5, TaskState DEF IInv, Owned
  <2> QED
    BY <2>1, <2>2, <2>3, <2>4 DEF Owned
<1>7. Tasks'
  BY <1>1, <1>2, <1>3, <1>5, TaskState DEF IInv, Tasks, Owned
<1>8. Told'
  BY <1>1, <1>2, <1>3, <1>5, TaskState DEF IInv, Told, Owned, Cur
<1> QED
  BY <1>1, <1>6, <1>7, <1>8 DEF IInv

\* Taking a task keeps it: the task moves from the queue to an idle worker.
LEMMA Start_IInv ==
  ASSUME IInv, NEW w \in Workers, Task_Start(w)
  PROVE  IInv'
<1>1. /\ TypeInv /\ TypeInv' /\ sess' = sess /\ table' = table
      /\ tasks # <<>> /\ tasks' = Tail(tasks)
      /\ \A u \in Threads \ {w} : thr'[u] = thr[u]
      /\ thr[w].pc = "idle" /\ thr'[w].mine = Head(tasks).state /\ thr'[w].cur = None
  BY Start_Effect DEF IInv
<1>2. /\ Len(tasks) \in Nat \ {0} /\ Len(tasks') = Len(tasks) - 1
      /\ \A i \in 1..Len(tasks') : tasks'[i] = tasks[i + 1]
      /\ Head(tasks) = tasks[1]
  BY <1>1, HeadTailProperties, EmptySeq DEF TypeInv, TypeOK
<1>3. \A i \in 1..Len(tasks') : i \in Nat /\ i + 1 \in 1..Len(tasks) /\ i + 1 # 1
  BY <1>2
<1>4. 1 \in 1..Len(tasks)
  BY <1>2
<1>5. \A v \in Workers : v # w => thr'[v] = thr[v] /\ (Busy(v)' <=> Busy(v))
  BY <1>1 DEF Busy, At, Threads
<1>6. thr'[w].mine = tasks[1].state /\ ~Busy(w) /\ w \in Threads
  BY <1>1, <1>2 DEF Busy, At, Threads
<1>7. Owned'
  <2>1. \A u \in Threads : thr'[u].cur \in Sessions => sess'[thr'[u].cur].owner # None
    BY <1>1, ConstantsAssumption DEF IInv, Owned
  <2>2. \A i \in 1..Len(tasks') : sess'[tasks'[i].state].owner # None
    BY <1>1, <1>2, <1>3 DEF IInv, Owned
  <2>3. \A v \in Workers : Busy(v)' => sess'[thr'[v].mine].owner # None
    BY <1>1, <1>4, <1>5, <1>6 DEF IInv, Owned
  <2> QED
    BY <1>1, <2>1, <2>2, <2>3 DEF IInv, Owned
<1>8. Tasks'
  <2>1. \A i, j \in 1..Len(tasks') : tasks'[i].state = tasks'[j].state => i = j
    BY <1>2, <1>3 DEF IInv, Tasks
  <2>2. \A u, v \in Workers : Busy(u)' /\ Busy(v)' /\ thr'[u].mine = thr'[v].mine => u = v
    BY <1>4, <1>5, <1>6 DEF IInv, Tasks
  <2>3. \A i \in 1..Len(tasks'), v \in Workers : Busy(v)' => thr'[v].mine # tasks'[i].state
    BY <1>2, <1>3, <1>4, <1>5, <1>6 DEF IInv, Tasks
  <2>4. \A i \in 1..Len(tasks') : sess'[tasks'[i].state].processing
    BY <1>1, <1>2, <1>3 DEF IInv, Tasks
  <2>5. \A v \in Workers : Busy(v)' => sess'[thr'[v].mine].processing
    BY <1>1, <1>4, <1>5, <1>6 DEF IInv, Tasks
  <2> QED
    BY <2>1, <2>2, <2>3, <2>4, <2>5 DEF Tasks
<1>9. Told'
  BY <1>1, <1>5, <1>6, ConstantsAssumption DEF IInv, Told, Cur
<1> QED
  BY <1>1, <1>7, <1>8, <1>9 DEF IInv

\* Ending a task keeps it: nobody else has a task of that session.
LEMMA End_IInv ==
  ASSUME IInv, NEW w \in Workers, Task_End(w)
  PROVE  IInv'
<1> DEFINE m == thr[w].mine
<1>1. /\ TypeInv /\ TypeInv' /\ tasks' = tasks /\ table' = table
      /\ \A u \in Threads : thr'[u].mine = thr[u].mine /\ thr'[u].cur = thr[u].cur
      /\ \A u \in Threads \ {w} : thr'[u] = thr[u]
      /\ thr[w].pc # "idle" /\ thr'[w].pc = "idle"
      /\ \A s \in Sessions : /\ sess'[s].owner = sess[s].owner /\ sess'[s].mixed = sess[s].mixed
                             /\ s # m => sess'[s] = sess[s]
  BY End_Effect DEF IInv
<1>2. \A v \in Workers : Busy(v)' => v # w /\ Busy(v) /\ thr'[v] = thr[v] /\ v \in Threads
  BY <1>1 DEF Busy, At, Threads
<1>3. /\ \A v \in Workers : Busy(v)' => thr[v].mine # m
      /\ \A i \in 1..Len(tasks) : tasks[i].state # m
  BY <1>1, <1>2 DEF IInv, Tasks, Busy, At
<1>4. Owned'
  <2>1. \A u \in Threads : thr'[u].cur \in Sessions => sess'[thr'[u].cur].owner # None
    BY <1>1 DEF IInv, Owned
  <2>2. \A i \in 1..Len(tasks') : sess'[tasks'[i].state].owner # None
    BY <1>1, TaskState DEF IInv, Owned
  <2>3. \A v \in Workers : Busy(v)' => sess'[thr'[v].mine].owner # None
    BY <1>1, <1>2, TaskState DEF IInv, Owned
  <2> QED
    BY <1>1, <2>1, <2>2, <2>3 DEF IInv, Owned
<1>5. Tasks'
  <2>1. \A i \in 1..Len(tasks') : sess'[tasks'[i].state].processing
    BY <1>1, <1>3, TaskState DEF IInv, Tasks
  <2>2. \A v \in Workers : Busy(v)' => sess'[thr'[v].mine].processing
    BY <1>1, <1>2, <1>3, TaskState DEF IInv, Tasks
  <2> QED
    BY <1>1, <1>2, <2>1, <2>2 DEF IInv, Tasks
<1>6. Told'
  BY <1>1, <1>2 DEF IInv, Told, Cur
<1> QED
  BY <1>1, <1>4, <1>5, <1>6 DEF IInv

\* The first state satisfies the invariant.
LEMMA Init_IInv == Init => IInv
<1> SUFFICES ASSUME Init PROVE IInv
  OBVIOUS
<1>1. /\ \A k \in Sockets : table[k] = None
      /\ \A t \in Threads : thr[t].cur = None
      /\ \A w \in Workers : ~Busy(w)
      /\ Len(tasks) = 0
  BY ConstantsAssumption DEF Init, Busy, At, Threads
<1>2. Owned /\ Tasks /\ Told
  BY <1>1, ConstantsAssumption DEF Owned, Tasks, Told
<1> QED
  BY <1>2, Init_Type DEF IInv

\* The invariant is inductive.
LEMMA Inductive == Spec => []IInv
<1>1. Init => IInv
  BY Init_IInv
<1>2. IInv /\ [Next]_vars => IInv'
  BY QuietOrNot, Quiet_IInv, Append_IInv, Insert_IInv, Start_IInv, End_IInv DEF IInv
<1> QED
  BY <1>1, <1>2, PTL DEF Spec

\* A session never has two tasks: the test of processingIncomingData by the
\* listener and its reset at the end of a task keep tasks of a session apart.
THEOREM OneTask == Spec => []OneTaskPerSession
<1>1. IInv => OneTaskPerSession
  BY TaskState DEF IInv, Tasks, OneTaskPerSession
<1> QED
  BY <1>1, Inductive, PTL

\* Two workers attend a session only when one of them came with another session's task.
THEOREM Exclusive == Spec => []ExclusiveUnlessMixed
<1>1. IInv => ExclusiveUnlessMixed
  <2> SUFFICES ASSUME IInv, NEW v \in Workers, NEW w \in Workers, NEW s \in Sessions,
                      Attends(v, s), Attends(w, s), ~sess[s].mixed
               PROVE  v = w
    BY DEF ExclusiveUnlessMixed
  <2>1. Busy(v) /\ Busy(w) /\ Cur(v) = s /\ Cur(w) = s
    BY DEF Attends, Busy, At
  <2>2. thr[v].mine = s /\ thr[w].mine = s
    BY <2>1 DEF IInv, Told
  <2> QED
    BY <2>1, <2>2 DEF IInv, Tasks
<1> QED
  BY <1>1, Inductive, PTL


-----------------------------------------------------------------------------
(* What each action does, field by field.                                  *)

\* Thread t goes on to control point l with session s, to return to r.
Moves(t, l, s, r) ==
  /\ thr'[t].pc = l /\ thr'[t].cur = s /\ thr'[t].ret = r
  /\ thr'[t].cli = thr[t].cli /\ thr'[t].mine = thr[t].mine
  /\ \A u \in Threads : u # t => thr'[u] = thr[u]

\* The record f of a session: the owner of r, b bytes, state h, websocket x, calls q, n
\* and d, and the flags p, m and l.
Fields(f, r, b, h, x, q, n, d, p, m, l) ==
  /\ f.owner = r.owner
  /\ f.buf = b /\ f.http = h /\ f.ws = x /\ f.req = q /\ f.con = n /\ f.data = d
  /\ f.processing = p /\ f.mixed = m /\ f.late = l

\* Session s becomes such a record, and no other session changes.
Becomes(s, b, h, x, q, n, d, p, m, l) ==
  /\ Fields(sess'[s], sess[s], b, h, x, q, n, d, p, m, l)
  /\ \A y \in Sessions : y # s => sess'[y] = sess[y]

\* Clients may only lose their connections.
Falls == \A c \in Clients : conn'[c] = conn[c] \/ (conn[c] = "up" /\ conn'[c] = "down")

\* The entry of t's client is removed.
Erased(t) ==
  /\ Key(t) \in Sockets => table'[Key(t)] = None
  /\ \A k \in Sockets : k # Key(t) => table'[k] = table[k]

\* The entry of t's client is read by operator[].
Subscripted(t) ==
  \A k \in Sockets : table'[k] = IF k = Key(t) /\ table[k] = None THEN Null ELSE table[k]

\* Goto changes the control point.
LEMMA GotoMoves ==
  ASSUME TypeInv, NEW t \in Threads, NEW l, Goto(t, l)
  PROVE  Moves(t, l, thr[t].cur, thr[t].ret)
  BY DEF Goto, Moves, TypeInv, TypeOK, Thread

\* A call of finalizeClient or its like changes the control point and the return.
LEMMA ReturnMoves ==
  ASSUME TypeInv, NEW t \in Threads, NEW l, NEW r, thr' = [thr EXCEPT ![t].pc = l, ![t].ret = r]
  PROVE  Moves(t, l, thr[t].cur, r)
  BY DEF Moves, TypeInv, TypeOK, Thread

\* A lookup changes the control point and the session.
LEMMA CurMoves ==
  ASSUME TypeInv, NEW t \in Threads, NEW l, NEW s, thr' = [thr EXCEPT ![t].pc = l, ![t].cur = s]
  PROVE  Moves(t, l, s, thr[t].ret)
  BY DEF Moves, TypeInv, TypeOK, Thread

\* A record of a session is updated.
LEMMA Updated ==
  ASSUME TypeInv, NEW s \in Sessions, NEW f, Update(s, f),
         NEW b, NEW h, NEW x, NEW q, NEW n, NEW d, NEW p, NEW m, NEW l,
         Fields(f, sess[s], b, h, x, q, n, d, p, m, l)
  PROVE  Becomes(s, b, h, x, q, n, d, p, m, l)
  BY DEF Update, Becomes, TypeInv, TypeOK

\* CONNECTED.
LEMMA Connect_Does ==
  ASSUME TypeInv, NEW c \in Clients, Connect(c)
  PROVE  /\ Moves(c, "initialize", thr[c].cur, thr[c].ret)
         /\ conn[c] = "new" /\ conn'[c] = "up" /\ \A d \in Clients : d # c => conn'[d] = conn[d]
         /\ \A d \in Clients : SocketOf[d] = SocketOf[c] => conn[d] = "new" \/ thr[d].pc = "gone"
         /\ UNCHANGED <<table, mapLock, sess, tasks>>
  BY GotoMoves DEF Connect, At, Threads, TypeInv, TypeOK

\* A lost connection.
LEMMA Close_Does ==
  ASSUME TypeInv, NEW c \in Clients, Close(c)
  PROVE  /\ Falls
         /\ UNCHANGED <<table, mapLock, sess, tasks, thr>>
  BY DEF Close, Falls, TypeInv, TypeOK

\* DISCONNECTED.
LEMMA Disconnected_Does ==
  ASSUME TypeInv, NEW c \in Clients, Disconnected(c)
  PROVE  /\ thr[c].pc = "tcp" /\ conn[c] = "down"
         /\ Moves(c, "finalize", thr[c].cur, "gone")
         /\ UNCHANGED <<conn, table, mapLock, sess, tasks>>
  BY ReturnMoves DEF Disconnected, At, Threads

\* The listener looks for the entry of its client.
LEMMA ListenCount_Does ==
  ASSUME TypeInv, NEW c \in Clients, Listener_Count(c)
  PROVE  /\ \/ UNCHANGED thr
            \/ thr[c].pc = "tcp" /\ conn[c] = "up" /\ Moves(c, "listen", thr[c].cur, thr[c].ret)
         /\ UNCHANGED <<conn, table, mapLock, sess, tasks>>
  BY GotoMoves DEF Listener_Count, At, Threads

\* initializeClient looks for an old session.
LEMMA InitCount_Does ==
  ASSUME TypeInv, NEW t \in Threads, initializeClient_Count(t)
  PROVE  /\ thr[t].pc = "initialize"
         /\ \/ Moves(t, "insert", thr[t].cur, thr[t].ret) /\ table[Key(t)] = None
            \/ Moves(t, "finalize", thr[t].cur, "insert")
         /\ UNCHANGED <<conn, table, mapLock, sess, tasks>>
  BY GotoMoves, ReturnMoves DEF initializeClient_Count, At, Entry

\* The condition of the loop of WebSocketProcess.
LEMMA WsLoop_Does ==
  ASSUME TypeInv, NEW t \in Threads, WebSocketProcess_Loop(t)
  PROVE  /\ thr[t].pc = "wsLoop"
         /\ LET s == thr[t].cur IN
            \/ Moves(t, "wsPop", s, thr[t].ret) /\ sess[s].buf > 0 /\ sess[s].ws # "FINISHED"
            \/ Moves(t, "wsEnd", s, thr[t].ret) /\ (~(sess[s].buf > 0) \/ sess[s].ws = "FINISHED")
         /\ UNCHANGED <<conn, table, mapLock, sess, tasks>>
  BY GotoMoves DEF WebSocketProcess_Loop, At, Cur

\* A task looks whether its client is connected.
LEMMA Task_Check_Does ==
  ASSUME TypeInv, NEW w \in Workers, Task_Check(w)
  PROVE  /\ thr[w].pc = "check"
         /\ \/ Moves(w, "count", thr[w].cur, thr[w].ret)
            \/ Moves(w, "idle", thr[w].cur, thr[w].ret) /\ conn[thr[w].cli] # "up"
         /\ UNCHANGED <<conn, table, mapLock, sess, tasks>>
  BY GotoMoves DEF Task_Check, At, Threads

\* dataReceivedFrom looks for the entry.
LEMMA Count_Does ==
  ASSUME TypeInv, NEW w \in Workers, dataReceivedFrom_Count(w)
  PROVE  /\ thr[w].pc = "count"
         /\ \/ Moves(w, "lookup", thr[w].cur, thr[w].ret)
            \/ Moves(w, "taskEnd", thr[w].cur, thr[w].ret) /\ table[Key(w)] = None
         /\ UNCHANGED <<conn, table, mapLock, sess, tasks>>
  BY GotoMoves DEF dataReceivedFrom_Count, At, Threads, Entry

\* The condition of the parsing loop.
LEMMA Loop_Does ==
  ASSUME TypeInv, NEW w \in Workers, dataReceivedFrom_Loop(w)
  PROVE  /\ thr[w].pc = "parse" /\ sess[thr[w].cur].http = "READING"
         /\ \/ Moves(w, "pop", thr[w].cur, thr[w].ret) /\ sess[thr[w].cur].buf > 0
            \/ Moves(w, "taskEnd", thr[w].cur, thr[w].ret) /\ ~(sess[thr[w].cur].buf > 0)
         /\ UNCHANGED <<conn, table, mapLock, sess, tasks>>
  BY GotoMoves DEF dataReceivedFrom_Loop, At, Threads, Cur

\* The end of a request that keeps the connection.
LEMMA KeepAlive_Does ==
  ASSUME TypeInv, NEW w \in Workers, endHttpRequest_KeepAlive(w)
  PROVE  /\ thr[w].pc = "end" /\ sess[thr[w].cur].ws = "CLOSED"
         /\ Moves(w, "finalize", thr[w].cur, "initialize")
         /\ UNCHANGED <<conn, table, mapLock, sess, tasks>>
  BY ReturnMoves DEF endHttpRequest_KeepAlive, At, Cur, Threads

\* The end of a request that closes the connection.
LEMMA EndClose_Does ==
  ASSUME TypeInv, NEW w \in Workers, endHttpRequest_Close(w)
  PROVE  /\ thr[w].pc = "end" /\ sess[thr[w].cur].ws = "CLOSED"
         /\ Moves(w, "taskEnd", thr[w].cur, thr[w].ret)
         /\ Falls /\ (thr[w].cli \in Clients => conn'[thr[w].cli] # "up")
         /\ UNCHANGED <<table, mapLock, sess, tasks>>
  BY GotoMoves DEF endHttpRequest_Close, Disconnect, Falls, At, Cur, Threads, TypeInv, TypeOK

\* The lookup after the swap.
LEMMA Relook_Does ==
  ASSUME TypeInv, NEW w \in Workers, endHttpRequest_Relook(w)
  PROVE  /\ thr[w].pc = "relook"
         /\ Moves(w, "taskEnd", thr[w].cur, thr[w].ret)
         /\ Subscripted(w)
         /\ UNCHANGED <<conn, mapLock, sess, tasks>>
  BY GotoMoves DEF endHttpRequest_Relook, At, Threads, Subscript, Subscripted, TypeInv, TypeOK

\* finalizeClient of a session that is no websocket.
LEMMA Plain_Does ==
  ASSUME TypeInv, NEW t \in Threads, finalizeClient_Plain(t)
  PROVE  /\ thr[t].pc = "finalize" /\ mapLock = None
         /\ Moves(t, thr[t].ret, thr[t].cur, thr[t].ret)
         /\ Erased(t)
         /\ UNCHANGED <<conn, mapLock, sess, tasks>>
  BY GotoMoves DEF finalizeClient_Plain, At, Erased, TypeInv, TypeOK

\* finalizeClient after the websocket was finished.
LEMMA Erase_Does ==
  ASSUME TypeInv, NEW t \in Threads, finalizeClient_Erase(t)
  PROVE  /\ thr[t].pc = "erase"
         /\ Moves(t, thr[t].ret, thr[t].cur, thr[t].ret)
         /\ Erased(t)
         /\ mapLock' = None /\ UNCHANGED <<conn, sess, tasks>>
  BY GotoMoves DEF finalizeClient_Erase, Unlock, At, Erased, TypeInv, TypeOK

\* OnWebSocketData returns.
LEMMA WsData_Does ==
  ASSUME TypeInv, NEW t \in Threads, WebSocketProcess_DataReturned(t), thr[t].cur \in Sessions
  PROVE  LET s == thr[t].cur
             r == sess[s]
         IN  /\ thr[t].pc = "wsData"
             /\ Moves(t, "wsLoop", s, thr[t].ret)
             /\ Becomes(s, r.buf, r.http, "OPEN", r.req, r.con, r.data, r.processing, r.mixed, r.late)
             /\ UNCHANGED <<conn, table, mapLock, tasks>>
<1> DEFINE s == thr[t].cur
           r == sess[s]
<1>1. r \in SessionState
  BY DEF TypeInv, TypeOK
<1>2. Fields([r EXCEPT !.ws = "OPEN"], r,
             r.buf, r.http, "OPEN", r.req, r.con, r.data, r.processing, r.mixed, r.late)
  BY <1>1 DEF SessionState, Fields
<1>3. Becomes(s, r.buf, r.http, "OPEN", r.req, r.con, r.data, r.processing, r.mixed, r.late)
  BY <1>2, Updated DEF WebSocketProcess_DataReturned, Cur
<1> QED
  BY <1>3, GotoMoves DEF WebSocketProcess_DataReturned, At, Cur

\* The call of the application.
LEMMA CallApp_Does ==
  ASSUME TypeInv, NEW w \in Workers, dataReceivedFrom_CallApp(w), thr[w].cur \in Sessions
  PROVE  LET s == thr[w].cur
             r == sess[s]
         IN  /\ thr[w].pc = "parse" /\ r.http = "SEND_REQUEST_TO_APP"
             /\ Moves(w, "app", s, thr[w].ret)
             /\ Becomes(s, r.buf, r.http, r.ws, r.req + 1, r.con, r.data, r.processing, r.mixed, r.late)
             /\ UNCHANGED <<conn, table, mapLock, tasks>>
<1> DEFINE s == thr[w].cur
           r == sess[s]
<1>1. r \in SessionState
  BY DEF TypeInv, TypeOK
<1>2. Fields([r EXCEPT !.req = @ + 1], r,
             r.buf, r.http, r.ws, r.req + 1, r.con, r.data, r.processing, r.mixed, r.late)
  BY <1>1 DEF SessionState, Fields
<1>3. Becomes(s, r.buf, r.http, r.ws, r.req + 1, r.con, r.data, r.processing, r.mixed, r.late)
  BY <1>2, Updated DEF dataReceivedFrom_CallApp, Cur
<1> QED
  BY <1>3, GotoMoves DEF dataReceivedFrom_CallApp, At, Cur, Threads

\* The response is sent.
LEMMA Respond_Does ==
  ASSUME TypeInv, NEW w \in Workers, dataReceivedFrom_Respond(w), thr[w].cur \in Sessions
  PROVE  LET s == thr[w].cur
             r == sess[s]
         IN  /\ thr[w].pc = "parse" /\ r.http \in {"SEND_RESPONSE", "ERROR", "FINISHED"}
             /\ Moves(w, "end", s, thr[w].ret)
             /\ Becomes(s, r.buf, "FINISHED", r.ws, r.req, r.con, r.data, r.processing, r.mixed, r.late)
             /\ UNCHANGED <<conn, table, mapLock, tasks>>
<1> DEFINE s == thr[w].cur
           r == sess[s]
<1>1. r \in SessionState
  BY DEF TypeInv, TypeOK
<1>2. Fields([r EXCEPT !.http = "FINISHED"], r,
             r.buf, "FINISHED", r.ws, r.req, r.con, r.data, r.processing, r.mixed, r.late)
  BY <1>1 DEF SessionState, Fields
<1>3. Becomes(s, r.buf, "FINISHED", r.ws, r.req, r.con, r.data, r.processing, r.mixed, r.late)
  BY <1>2, Updated DEF dataReceivedFrom_Respond, Cur
<1> QED
  BY <1>3, GotoMoves DEF dataReceivedFrom_Respond, At, Cur, Threads

\* The end of the handshake.
LEMMA EndWebSocket_Does ==
  ASSUME TypeInv, NEW w \in Workers, endHttpRequest_WebSocket(w), thr[w].cur \in Sessions
  PROVE  LET s == thr[w].cur
             r == sess[s]
         IN  /\ thr[w].pc = "end" /\ r.ws # "CLOSED"
             /\ Moves(w, "taskEnd", s, thr[w].ret)
             /\ Becomes(s, r.buf, r.http, r.ws, r.req, r.con + 1, r.data, r.processing, r.mixed,
                        (r.late \/ r.buf > 0))
             /\ UNCHANGED <<conn, table, mapLock, tasks>>
<1> DEFINE s == thr[w].cur
           r == sess[s]
<1>1. r \in SessionState
  BY DEF TypeInv, TypeOK
<1>2. Fields([r EXCEPT !.con = @ + 1, !.late = @ \/ r.buf > 0], r,
             r.buf, r.http, r.ws, r.req, r.con + 1, r.data, r.processing, r.mixed, (r.late \/ r.buf > 0))
  BY <1>1 DEF SessionState, Fields
<1>3. Becomes(s, r.buf, r.http, r.ws, r.req, r.con + 1, r.data, r.processing, r.mixed, (r.late \/ r.buf > 0))
  BY <1>2, Updated DEF endHttpRequest_WebSocket, Cur
<1> QED
  BY <1>3, GotoMoves DEF endHttpRequest_WebSocket, At, Cur, Threads

\* A byte for the HTTP parser.
LEMMA Pop_Does ==
  ASSUME TypeInv, NEW w \in Workers, dataReceivedFrom_Pop(w), thr[w].cur \in Sessions
  PROVE  LET s == thr[w].cur
             r == sess[s]
         IN  /\ thr[w].pc = "pop" /\ r.buf > 0
             /\ Moves(w, "parse", s, thr[w].ret)
             /\ \E h \in {r.http, "SEND_REQUEST_TO_APP", "ERROR"} :
                  Becomes(s, r.buf - 1, h, r.ws, r.req, r.con, r.data, r.processing, r.mixed, r.late)
             /\ UNCHANGED <<conn, table, mapLock, tasks>>
<1> DEFINE s == thr[w].cur
           r == sess[s]
<1>1. r \in SessionState
  BY DEF TypeInv, TypeOK
<1>2. Moves(w, "parse", s, thr[w].ret)
  BY GotoMoves DEF dataReceivedFrom_Pop, Threads
<1>3. CASE Update(s, [r EXCEPT !.buf = @ - 1])
  <2>1. Fields([r EXCEPT !.buf = @ - 1], r,
               r.buf - 1, r.http, r.ws, r.req, r.con, r.data, r.processing, r.mixed, r.late)
    BY <1>1 DEF SessionState, Fields
  <2>2. Becomes(s, r.buf - 1, r.http, r.ws, r.req, r.con, r.data, r.processing, r.mixed, r.late)
    BY <1>3, <2>1, Updated
  <2> QED BY <1>2, <2>2 DEF dataReceivedFrom_Pop, At, Cur
<1>4. ASSUME NEW h \in {"SEND_REQUEST_TO_APP", "ERROR"}, NEW k,
             Update(s, [r EXCEPT !.buf = @ - 1, !.http = h, !.kind = k])
      PROVE  Becomes(s, r.buf - 1, h, r.ws, r.req, r.con, r.data, r.processing, r.mixed, r.late)
  <2>1. Fields([r EXCEPT !.buf = @ - 1, !.http = h, !.kind = k], r,
               r.buf - 1, h, r.ws, r.req, r.con, r.data, r.processing, r.mixed, r.late)
    BY <1>1 DEF SessionState, Fields
  <2> QED BY <1>4, <2>1, Updated
<1> QED
  BY <1>2, <1>3, <1>4 DEF dataReceivedFrom_Pop, At, Cur

\* A byte for the websocket.
LEMMA WsPop_Does ==
  ASSUME TypeInv, NEW t \in Threads, WebSocketProcess_Pop(t), thr[t].cur \in Sessions
  PROVE  LET s == thr[t].cur
             r == sess[s]
         IN  /\ thr[t].pc = "wsPop" /\ r.buf > 0
             /\ \E l \in {"wsLoop", "wsData"} : Moves(t, l, s, thr[t].ret)
             /\ \E x \in {r.ws, "OPEN", "FINISHED"}, d \in {r.data, r.data + 1} :
                  Becomes(s, r.buf - 1, r.http, x, r.req, r.con, d, r.processing, r.mixed, r.late)
             /\ UNCHANGED <<conn, table, mapLock, tasks>>
<1> DEFINE s == thr[t].cur
           r == sess[s]
<1>1. r \in SessionState
  BY DEF TypeInv, TypeOK
<1>2. ASSUME NEW x \in {r.ws, "OPEN", "FINISHED"}, Update(s, [r EXCEPT !.buf = @ - 1, !.ws = x])
      PROVE  Becomes(s, r.buf - 1, r.http, x, r.req, r.con, r.data, r.processing, r.mixed, r.late)
  <2>1. Fields([r EXCEPT !.buf = @ - 1, !.ws = x], r,
               r.buf - 1, r.http, x, r.req, r.con, r.data, r.processing, r.mixed, r.late)
    BY <1>1 DEF SessionState, Fields
  <2> QED BY <1>2, <2>1, Updated
<1>3. ASSUME Update(s, [r EXCEPT !.buf = @ - 1, !.data = @ + 1])
      PROVE  Becomes(s, r.buf - 1, r.http, r.ws, r.req, r.con, r.data + 1, r.processing, r.mixed, r.late)
  <2>1. Fields([r EXCEPT !.buf = @ - 1, !.data = @ + 1], r,
               r.buf - 1, r.http, r.ws, r.req, r.con, r.data + 1, r.processing, r.mixed, r.late)
    BY <1>1 DEF SessionState, Fields
  <2> QED BY <1>3, <2>1, Updated
<1> QED
  BY <1>2, <1>3, GotoMoves DEF WebSocketProcess_Pop, At, Cur

\* The application returns.
LEMMA AppReturned_Does ==
  ASSUME TypeInv, NEW w \in Workers, dataReceivedFrom_AppReturned(w), thr[w].cur \in Sessions
  PROVE  LET s == thr[w].cur
             r == sess[s]
         IN  /\ thr[w].pc = "app"
             /\ Moves(w, "parse", s, thr[w].ret)
             /\ \E x \in {r.ws, "OPEN"} :
                  /\ r.ws # "CLOSED" => x = r.ws
                  /\ Becomes(s, r.buf, "SEND_RESPONSE", x, r.req, r.con, r.data, r.processing, r.mixed, r.late)
             /\ UNCHANGED <<conn, table, mapLock, tasks>>
<1> DEFINE s == thr[w].cur
           r == sess[s]
<1>1. r \in SessionState
  BY DEF TypeInv, TypeOK
<1>2. PICK k : Update(s, [r EXCEPT !.http = "SEND_RESPONSE", !.kind = k,
                                   !.ws = IF k = "upgrade" /\ @ = "CLOSED" THEN "OPEN" ELSE @])
  BY DEF dataReceivedFrom_AppReturned, AfterApp, Cur
<1> DEFINE x == IF k = "upgrade" /\ r.ws = "CLOSED" THEN "OPEN" ELSE r.ws
<1>3. Fields([r EXCEPT !.http = "SEND_RESPONSE", !.kind = k, !.ws = x], r,
             r.buf, "SEND_RESPONSE", x, r.req, r.con, r.data, r.processing, r.mixed, r.late)
  BY <1>1 DEF SessionState, Fields
<1>4. Becomes(s, r.buf, "SEND_RESPONSE", x, r.req, r.con, r.data, r.processing, r.mixed, r.late)
  BY <1>2, <1>3, Updated
<1> QED
  BY <1>4, GotoMoves DEF dataReceivedFrom_AppReturned, At, Cur, Threads

\* The end of WebSocketProcess.
LEMMA WsEnd_Does ==
  ASSUME TypeInv, NEW t \in Threads, WebSocketProcess_End(t), thr[t].cur \in Sessions
  PROVE  LET s == thr[t].cur
             r == sess[s]
         IN  /\ thr[t].pc = "wsEnd"
             /\ Moves(t, IF mapLock = t THEN "erase" ELSE "taskEnd", s, thr[t].ret)
             /\ Becomes(s, r.buf, r.http, r.ws, r.req, r.con, r.data, r.processing, r.mixed, r.late)
             /\ Falls
             /\ r.ws = "FINISHED" /\ thr[t].cli \in Clients => conn'[thr[t].cli] # "up"
             /\ UNCHANGED <<table, mapLock, tasks>>
<1> DEFINE s == thr[t].cur
           r == sess[s]
<1>1. r \in SessionState
  BY DEF TypeInv, TypeOK
<1>2. Fields([r EXCEPT !.dis = @ + 1], r,
             r.buf, r.http, r.ws, r.req, r.con, r.data, r.processing, r.mixed, r.late)
  BY <1>1 DEF SessionState, Fields
<1>3. Becomes(s, r.buf, r.http, r.ws, r.req, r.con, r.data, r.processing, r.mixed, r.late)
  <2>1. CASE sess' = sess
    BY <2>1 DEF Becomes, Fields
  <2>2. CASE Update(s, [r EXCEPT !.dis = @ + 1])
    BY <1>2, <2>2, Updated
  <2> QED
    BY <2>1, <2>2 DEF WebSocketProcess_End, Cur
<1>4. Falls /\ (r.ws = "FINISHED" /\ thr[t].cli \in Clients => conn'[thr[t].cli] # "up")
  BY DEF WebSocketProcess_End, Disconnect, Falls, Cur, TypeInv, TypeOK
<1> QED
  BY <1>3, <1>4, GotoMoves DEF WebSocketProcess_End, At, Cur

\* Worker w goes on with session s.
LEMMA Attends_Does ==
  ASSUME TypeInv, NEW w \in Workers, NEW s \in Sessions, NEW l, Attend(w, s, l)
  PROVE  LET r == sess[s] IN
         /\ Moves(w, l, s, thr[w].ret)
         /\ Becomes(s, r.buf, r.http, r.ws, r.req, r.con, r.data, r.processing, MixedBy(w, s), r.late)
<1> DEFINE r == sess[s]
<1>1. r \in SessionState
  BY DEF TypeInv, TypeOK
<1>2. Fields([r EXCEPT !.mixed = MixedBy(w, s)], r,
             r.buf, r.http, r.ws, r.req, r.con, r.data, r.processing, MixedBy(w, s), r.late)
  BY <1>1 DEF SessionState, Fields
<1> QED
  BY <1>2, Updated, CurMoves DEF Attend, Threads

\* dataReceivedFrom finds the session, or a null entry.
LEMMA Lookup_Does ==
  ASSUME TypeInv, NEW w \in Workers, dataReceivedFrom_Lookup(w)
  PROVE  /\ thr[w].pc = "lookup"
         /\ Subscripted(w)
         /\ UNCHANGED <<conn, mapLock, tasks>>
         /\ \/ LET s == table[Key(w)]
                   r == sess[s]
               IN  /\ s \in Sessions
                   /\ Moves(w, IF r.ws = "CLOSED" THEN "parse" ELSE "enterWs", s, thr[w].ret)
                   /\ Becomes(s, r.buf, r.http, r.ws, r.req, r.con, r.data, r.processing, MixedBy(w, s), r.late)
            \/ table[Key(w)] \notin Sessions /\ Moves(w, "taskEnd", thr[w].cur, thr[w].ret) /\ sess' = sess
<1>1. thr[w].pc = "lookup" /\ Subscripted(w) /\ UNCHANGED <<conn, mapLock, tasks>>
  BY DEF dataReceivedFrom_Lookup, At, Subscript, Subscripted, TypeInv, TypeOK
<1>2. CASE Entry(w) \in Sessions
  BY <1>1, <1>2, Attends_Does DEF dataReceivedFrom_Lookup, Mode, Entry
<1>3. CASE Entry(w) \notin Sessions
  BY <1>1, <1>3, GotoMoves DEF dataReceivedFrom_Lookup, Entry, Threads
<1> QED BY <1>2, <1>3

\* WebSocketProcess finds the session.
LEMMA WsLookup_Does ==
  ASSUME TypeInv, NEW w \in Workers, WebSocketProcess_Lookup(w)
  PROVE  LET s == table[Key(w)]
             r == sess[s]
         IN  /\ thr[w].pc = "enterWs" /\ s \in Sessions
             /\ Moves(w, "wsLoop", s, thr[w].ret)
             /\ Becomes(s, r.buf, r.http, r.ws, r.req, r.con, r.data, r.processing, MixedBy(w, s), r.late)
             /\ UNCHANGED <<conn, table, mapLock, tasks>>
  BY Attends_Does DEF WebSocketProcess_Lookup, At, Entry

\* finalizeClient of a websocket takes the mutex.
LEMMA FinalizeWs_Does ==
  ASSUME TypeInv, NEW t \in Threads, finalizeClient_WebSocket(t)
  PROVE  LET s == table[Key(t)]
             r == sess[s]
         IN  /\ thr[t].pc = "finalize" /\ s \in Sessions /\ r.ws # "CLOSED"
             /\ Moves(t, "wsLoop", s, thr[t].ret)
             /\ Becomes(s, r.buf, r.http, "FINISHED", r.req, r.con, r.data, r.processing, MixedBy(t, s), r.late)
             /\ mapLock = None /\ mapLock' = t
             /\ UNCHANGED <<conn, table, tasks>>
<1> DEFINE s == table[Key(t)]
           r == sess[s]
<1>1. s \in Sessions /\ r \in SessionState
  BY DEF finalizeClient_WebSocket, Entry, TypeInv, TypeOK
<1>2. Fields([r EXCEPT !.ws = "FINISHED", !.mixed = MixedBy(t, s)], r,
             r.buf, r.http, "FINISHED", r.req, r.con, r.data, r.processing, MixedBy(t, s), r.late)
  BY <1>1 DEF SessionState, Fields
<1>3. Becomes(s, r.buf, r.http, "FINISHED", r.req, r.con, r.data, r.processing, MixedBy(t, s), r.late)
  BY <1>1, <1>2, Updated DEF finalizeClient_WebSocket, Entry
<1> QED
  BY <1>1, <1>3, CurMoves DEF finalizeClient_WebSocket, At, Entry

\* The listener finds the session.
LEMMA ListenLookup_Does ==
  ASSUME TypeInv, NEW c \in Clients, Listener_Lookup(c)
  PROVE  /\ thr[c].pc = "listen" /\ Subscripted(c)
         /\ Moves(c, "append", table'[Key(c)], thr[c].ret)
         /\ UNCHANGED <<conn, mapLock, sess, tasks>>
  BY CurMoves DEF Listener_Lookup, At, Subscript, Subscripted, Threads, TypeInv, TypeOK

\* The listener appends, and enqueues a task when there is none.
LEMMA ListenAppend_Does ==
  ASSUME TypeInv, NEW c \in Clients, Listener_Append(c)
  PROVE  LET s == thr[c].cur
             r == sess[s]
         IN  /\ thr[c].pc = "append" /\ s \in Sessions
             /\ Moves(c, "tcp", s, thr[c].ret)
             /\ UNCHANGED <<conn, table, mapLock>>
             /\ \E b \in Nat \ {0} :
                  \/ /\ ~r.processing /\ tasks' = Append(tasks, [client |-> c, state |-> s])
                     /\ Becomes(s, b, r.http, r.ws, r.req, r.con, r.data, TRUE, r.mixed, FALSE)
                  \/ /\ r.processing /\ tasks' = tasks
                     /\ Becomes(s, b, r.http, r.ws, r.req, r.con, r.data, r.processing, r.mixed,
                                r.late \/ TaskLeaving(s))
<1> DEFINE s == thr[c].cur
           r == sess[s]
<1>1. c \in Threads /\ thr[c] \in Thread
  BY DEF TypeInv, TypeOK, Threads
<1>2. s \in Sessions /\ r \in SessionState
  BY <1>1 DEF Listener_Append, Cur, TypeInv, TypeOK, ThreadsOK, Thread
<1>3. PICK n \in 1..MaxChunk :
        \/ /\ ~r.processing /\ tasks' = Append(tasks, [client |-> c, state |-> s])
           /\ Update(s, [r EXCEPT !.buf = @ + n, !.processing = TRUE, !.late = FALSE])
        \/ /\ r.processing /\ tasks' = tasks
           /\ Update(s, [r EXCEPT !.buf = @ + n, !.late = @ \/ TaskLeaving(s)])
  BY DEF Listener_Append, NeedsTask, Cur
<1> DEFINE b == r.buf + n
<1>4. b \in Nat \ {0}
  BY <1>2, ConstantsAssumption DEF SessionState
<1>5. Fields([r EXCEPT !.buf = @ + n, !.processing = TRUE, !.late = FALSE], r,
             b, r.http, r.ws, r.req, r.con, r.data, TRUE, r.mixed, FALSE)
  BY <1>2 DEF SessionState, Fields
<1>6. Fields([r EXCEPT !.buf = @ + n, !.late = @ \/ TaskLeaving(s)], r,
             b, r.http, r.ws, r.req, r.con, r.data, r.processing, r.mixed, r.late \/ TaskLeaving(s))
  BY <1>2 DEF SessionState, Fields
<1>7. \/ /\ ~r.processing /\ tasks' = Append(tasks, [client |-> c, state |-> s])
         /\ Becomes(s, b, r.http, r.ws, r.req, r.con, r.data, TRUE, r.mixed, FALSE)
      \/ /\ r.processing /\ tasks' = tasks
         /\ Becomes(s, b, r.http, r.ws, r.req, r.con, r.data, r.processing, r.mixed, r.late \/ TaskLeaving(s))
  BY <1>2, <1>3, <1>5, <1>6, Updated
<1>8. Moves(c, "tcp", s, thr[c].ret)
  BY <1>1, GotoMoves DEF Listener_Append
<1> QED
  BY <1>2, <1>4, <1>7, <1>8 DEF Listener_Append, At

\* initializeClient inserts a new session.
LEMMA Insert_Does ==
  ASSUME TypeInv, NEW t \in Threads, initializeClient_Insert(t)
  PROVE  /\ thr[t].pc = "insert" /\ mapLock = None /\ thr[t].cli \in Clients /\ Key(t) \in Sockets
         /\ Moves(t, IF t \in Clients THEN "tcp" ELSE "relook", thr[t].cur, thr[t].ret)
         /\ UNCHANGED <<conn, mapLock, tasks>>
         /\ \E s \in Sessions :
              /\ sess[s].owner = None /\ sess'[s] = FreshState(thr[t].cli)
              /\ \A y \in Sessions : y # s => sess'[y] = sess[y]
              /\ table'[Key(t)] = s /\ \A k \in Sockets : k # Key(t) => table'[k] = table[k]
<1>1. thr[t].pc = "insert" /\ thr[t].cli \in Clients /\ Key(t) \in Sockets
  BY KeyType, ConstantsAssumption DEF initializeClient_Insert, At, TypeInv, TypeOK, ThreadsOK, Threads, Busy
<1>2. PICK s \in Sessions :
        Unused(s) /\ Update(s, FreshState(thr[t].cli)) /\ table' = [table EXCEPT ![Key(t)] = s]
  BY DEF initializeClient_Insert
<1>3. /\ sess[s].owner = None /\ sess'[s] = FreshState(thr[t].cli)
      /\ \A y \in Sessions : y # s => sess'[y] = sess[y]
      /\ table'[Key(t)] = s /\ \A k \in Sockets : k # Key(t) => table'[k] = table[k]
  BY <1>1, <1>2 DEF Unused, Update, TypeInv, TypeOK
<1> QED
  BY <1>1, <1>3, GotoMoves DEF initializeClient_Insert

\* A worker takes the first task.
LEMMA Task_Start_Does ==
  ASSUME TypeInv, NEW w \in Workers, Task_Start(w)
  PROVE  /\ thr[w].pc = "idle" /\ thr'[w].pc = "check" /\ thr'[w].cur = None
         /\ thr'[w].cli = tasks[1].client /\ thr'[w].mine = tasks[1].state
         /\ \A u \in Threads : u # w => thr'[u] = thr[u]
         /\ Len(tasks) \in Nat \ {0} /\ Len(tasks') = Len(tasks) - 1
         /\ \A i \in 1..Len(tasks') : tasks'[i] = tasks[i + 1]
         /\ UNCHANGED <<conn, table, mapLock, sess>>
<1>1. /\ Len(tasks) \in Nat \ {0} /\ Len(tasks') = Len(tasks) - 1
      /\ \A i \in 1..Len(tasks') : tasks'[i] = tasks[i + 1]
      /\ Head(tasks) = tasks[1]
  BY HeadTailProperties, EmptySeq DEF Task_Start, TypeInv, TypeOK
<1>2. /\ thr'[w].pc = "check" /\ thr'[w].cur = None
      /\ thr'[w].cli = Head(tasks).client /\ thr'[w].mine = Head(tasks).state
      /\ \A u \in Threads : u # w => thr'[u] = thr[u]
  BY DEF Task_Start, TypeInv, TypeOK, Thread, Threads
<1> QED
  BY <1>1, <1>2 DEF Task_Start, At

\* A task ends and clears the flag.
LEMMA Task_End_Does ==
  ASSUME TypeInv, NEW w \in Workers, Task_End(w)
  PROVE  LET s == thr[w].mine
             r == sess[s]
         IN  /\ thr[w].pc = "taskEnd" /\ s \in Sessions
             /\ Moves(w, "idle", thr[w].cur, thr[w].ret)
             /\ Becomes(s, r.buf, r.http, r.ws, r.req, r.con, r.data, FALSE, r.mixed, r.late)
             /\ UNCHANGED <<conn, table, mapLock, tasks>>
<1> DEFINE s == thr[w].mine
           r == sess[s]
<1>1. s \in Sessions /\ r \in SessionState
  BY DEF Task_End, TypeInv, TypeOK, ThreadsOK, Busy, At
<1>2. Fields([r EXCEPT !.processing = FALSE], r,
             r.buf, r.http, r.ws, r.req, r.con, r.data, FALSE, r.mixed, r.late)
  BY <1>1 DEF SessionState, Fields
<1>3. Becomes(s, r.buf, r.http, r.ws, r.req, r.con, r.data, FALSE, r.mixed, r.late)
  BY <1>1, <1>2, Updated DEF Task_End
<1> QED
  BY <1>1, <1>3, GotoMoves DEF Task_End, At, Threads

\* The program crashes or stutters: at most a null entry is new.
Still ==
  /\ UNCHANGED <<conn, mapLock, sess, tasks, thr>>
  /\ \A k \in Sockets : table'[k] = table[k] \/ (table[k] = None /\ table'[k] = Null)

\* The actions that a step can be one of.
LEMMA StepCases ==
  ASSUME TypeInv, [Next]_vars
  PROVE
    \/ \E c \in Clients :
         \/ Connect(c) \/ Close(c) \/ Disconnected(c)
         \/ Listener_Count(c) \/ Listener_Lookup(c) \/ Listener_Append(c)
    \/ \E t \in Threads :
         \/ initializeClient_Count(t) \/ initializeClient_Insert(t)
         \/ finalizeClient_Plain(t) \/ finalizeClient_WebSocket(t) \/ finalizeClient_Erase(t)
         \/ WebSocketProcess_Loop(t) \/ WebSocketProcess_Pop(t)
         \/ WebSocketProcess_DataReturned(t) \/ WebSocketProcess_End(t)
    \/ \E w \in Workers :
         \/ Task_Start(w) \/ Task_Check(w) \/ Task_End(w)
         \/ dataReceivedFrom_Count(w) \/ dataReceivedFrom_Lookup(w) \/ dataReceivedFrom_Loop(w)
         \/ dataReceivedFrom_Pop(w) \/ dataReceivedFrom_CallApp(w)
         \/ dataReceivedFrom_AppReturned(w) \/ dataReceivedFrom_Respond(w)
         \/ endHttpRequest_WebSocket(w) \/ endHttpRequest_KeepAlive(w)
         \/ endHttpRequest_Close(w) \/ endHttpRequest_Relook(w) \/ WebSocketProcess_Lookup(w)
    \/ Still
<1>1. ASSUME NEW w \in Workers, WebSocketProcess_NullState(w) PROVE Still
  BY <1>1 DEF WebSocketProcess_NullState, Subscript, Still, TypeInv, TypeOK
<1>2. ASSUME \/ \E c \in Clients : Listener_NullState(c)
             \/ \E t \in Threads : finalizeClient_NullState(t) \/ PopEmpty(t)
             \/ broadcastWebSocker_NullState
             \/ UNCHANGED vars
      PROVE  Still
  BY <1>2 DEF Listener_NullState, finalizeClient_NullState, PopEmpty, broadcastWebSocker_NullState, vars, Still
<1> QED
  BY <1>1, <1>2 DEF Next, Tcp, Shared, Worker

-----------------------------------------------------------------------------
(* Where the threads of clients and the workers can be.                    *)

WsPCs == {"wsLoop", "wsPop", "wsData", "wsEnd"}

\* Control points of dataReceivedFrom and of tasks, which a client's thread never reaches.
WorkerPCs ==
  {"idle", "check", "count", "lookup", "parse", "pop", "app", "end", "relook", "enterWs", "taskEnd"}

\* The mutex is held by who finalizes a websocket; a thread in the loops has a session;
\* finalizeClient returns to where its caller goes on.
PlaceOK(t) ==
  /\ mapLock = t => thr[t].pc \in WsPCs \cup {"erase"}
  /\ thr[t].pc = "erase" => mapLock = t
  /\ thr[t].pc \in {"parse", "pop", "app", "end", "enterWs"} \cup WsPCs => thr[t].cur \in Sessions
  /\ t \in Clients =>
       /\ thr[t].pc \notin WorkerPCs
       /\ conn[t] = "new" => thr[t].pc = "tcp"
       /\ thr[t].pc \in WsPCs => mapLock = t
       /\ thr[t].pc \in WsPCs \cup {"finalize", "erase"} => thr[t].ret \in {"gone", "insert"}
  /\ t \in Workers =>
       /\ thr[t].pc \notin {"tcp", "gone", "listen", "append"}
       /\ thr[t].pc \in {"finalize", "erase"} \/ mapLock = t => thr[t].ret \in {"initialize", "insert"}

Places == \A t \in Threads : PlaceOK(t)

\* A client is new once.
LEMMA ConnStep ==
  ASSUME TypeInv, [Next]_vars
  PROVE  \A c \in Clients : conn'[c] = "new" => conn[c] = "new"
<1>1. conn \in [Clients -> {"new", "up", "down"}]
  BY DEF TypeInv, TypeOK
<1>2. CASE \/ UNCHANGED vars \/ broadcastWebSocker_NullState \/ \E c \in Clients : Tcp(c) \/ Close(c)
  BY <1>2, <1>1, ZenonT(60) DEF vars, Tcp, Connect, Close, Disconnected, Listener_Count,
    Listener_Lookup, Listener_Append, Listener_NullState, broadcastWebSocker_NullState
<1>3. ASSUME NEW t \in Threads, Shared(t) PROVE \A c \in Clients : conn'[c] = "new" => conn[c] = "new"
  BY <1>3, <1>1, ZenonT(60) DEF Shared, initializeClient_Count, initializeClient_Insert,
    finalizeClient_Plain, finalizeClient_NullState, finalizeClient_WebSocket, finalizeClient_Erase, PopEmpty,
    WebSocketProcess_Loop, WebSocketProcess_Pop, WebSocketProcess_DataReturned, WebSocketProcess_End, Disconnect
<1>4. ASSUME NEW w \in Workers, Worker(w) PROVE \A c \in Clients : conn'[c] = "new" => conn[c] = "new"
  BY <1>4, <1>1, ZenonT(60) DEF Worker, Task_Start, Task_Check, Task_End, dataReceivedFrom_Count,
    dataReceivedFrom_Lookup, dataReceivedFrom_Loop, dataReceivedFrom_Pop, PopEmpty, dataReceivedFrom_CallApp,
    dataReceivedFrom_AppReturned, dataReceivedFrom_Respond, Disconnect, endHttpRequest_WebSocket,
    endHttpRequest_KeepAlive, endHttpRequest_Close, endHttpRequest_Relook, WebSocketProcess_Lookup,
    WebSocketProcess_NullState
<1> QED BY <1>2, <1>3, <1>4 DEF Next

\* A step of thread t disturbs no other thread's place.
LEMMA PlaceStep ==
  ASSUME Places, \A c \in Clients : conn'[c] = "new" => conn[c] = "new",
         NEW t \in Threads, \A u \in Threads : u # t => thr'[u] = thr[u],
         mapLock' = mapLock \/ {mapLock, mapLock'} \subseteq {None, t}, PlaceOK(t)'
  PROVE  Places'
<1>1. \A u \in Threads : u # None
  BY ConstantsAssumption
<1>2. ASSUME NEW u \in Threads, u # t PROVE PlaceOK(u)'
  <2>1. thr'[u] = thr[u] /\ PlaceOK(u) /\ (mapLock' = u <=> mapLock = u)
    BY <1>1, <1>2 DEF Places
  <2> QED BY <2>1 DEF PlaceOK
<1> QED
  BY <1>2 DEF Places

\* Every step keeps the threads in their places.
LEMMA Places_Step ==
  ASSUME TypeInv, Places, [Next]_vars
  PROVE  Places'
<1> USE DEF Moves
<1>1. /\ \A c \in Clients : c \in Threads /\ c \notin Workers
      /\ \A w \in Workers : w \in Threads /\ w \notin Clients
      /\ \A t \in Threads : t # None /\ (t \in Clients \/ t \in Workers) /\ PlaceOK(t)
      /\ \A c \in Clients : conn'[c] = "new" => conn[c] = "new"
  BY ConnStep, ConstantsAssumption DEF Threads, Places
<1>2. ASSUME NEW c \in Clients, Connect(c) \/ Disconnected(c)
      PROVE  Places'
  <2>1. PlaceOK(c)' /\ mapLock' = mapLock /\ \A u \in Threads : u # c => thr'[u] = thr[u]
    BY <1>1, <1>2, Connect_Does, Disconnected_Does DEF PlaceOK, WsPCs, WorkerPCs
  <2> QED BY <1>1, <2>1, PlaceStep
<1>3. ASSUME NEW c \in Clients, Listener_Lookup(c)
      PROVE  Places'
  <2>1. PlaceOK(c)' /\ mapLock' = mapLock /\ \A u \in Threads : u # c => thr'[u] = thr[u]
    BY <1>1, <1>3, ListenLookup_Does DEF PlaceOK, WsPCs, WorkerPCs
  <2> QED BY <1>1, <2>1, PlaceStep
<1>4. ASSUME NEW c \in Clients, Listener_Append(c)
      PROVE  Places'
  <2>1. PlaceOK(c)' /\ mapLock' = mapLock /\ \A u \in Threads : u # c => thr'[u] = thr[u]
    BY <1>1, <1>4, ListenAppend_Does DEF PlaceOK, WsPCs, WorkerPCs
  <2> QED BY <1>1, <2>1, PlaceStep
<1>5. ASSUME NEW c \in Clients, Close(c) \/ Listener_Count(c)
      PROVE  Places'
  <2>1. PlaceOK(c)' /\ mapLock' = mapLock /\ \A u \in Threads : u # c => thr'[u] = thr[u]
    BY <1>1, <1>5, Close_Does, ListenCount_Does DEF PlaceOK, WsPCs, WorkerPCs
  <2> QED BY <1>1, <2>1, PlaceStep
<1>6. ASSUME NEW t \in Threads, initializeClient_Count(t) \/ initializeClient_Insert(t) \/ finalizeClient_Plain(t)
      PROVE  Places'
  <2>1. PlaceOK(t)' /\ mapLock' = mapLock /\ \A u \in Threads : u # t => thr'[u] = thr[u]
    BY <1>1, <1>6, InitCount_Does, Insert_Does, Plain_Does DEF PlaceOK, WsPCs, WorkerPCs
  <2> QED BY <1>1, <2>1, PlaceStep
<1>7. ASSUME NEW t \in Threads, finalizeClient_WebSocket(t) \/ finalizeClient_Erase(t)
      PROVE  Places'
  <2>1. PlaceOK(t)' /\ {mapLock, mapLock'} \subseteq {None, t} /\ \A u \in Threads : u # t => thr'[u] = thr[u]
    BY <1>1, <1>7, FinalizeWs_Does, Erase_Does DEF PlaceOK, WsPCs, WorkerPCs
  <2> QED BY <1>1, <2>1, PlaceStep
<1>8. ASSUME NEW t \in Threads,
             \/ WebSocketProcess_Loop(t) \/ WebSocketProcess_Pop(t)
             \/ WebSocketProcess_DataReturned(t) \/ WebSocketProcess_End(t)
      PROVE  Places'
  <2>1. thr[t].cur \in Sessions
    BY <1>1, <1>8 DEF PlaceOK, WsPCs, WebSocketProcess_Loop, WebSocketProcess_Pop,
         WebSocketProcess_DataReturned, WebSocketProcess_End, At
  <2>2. PlaceOK(t)' /\ mapLock' = mapLock /\ \A u \in Threads : u # t => thr'[u] = thr[u]
    BY <1>1, <1>8, <2>1, WsLoop_Does, WsPop_Does, WsData_Does, WsEnd_Does DEF PlaceOK, WsPCs, WorkerPCs
  <2> QED BY <1>1, <2>2, PlaceStep
<1>9. ASSUME NEW w \in Workers, Task_Start(w) \/ Task_Check(w) \/ Task_End(w) \/ dataReceivedFrom_Count(w)
      PROVE  Places'
  <2>1. thr[w].pc \in {"idle", "check", "taskEnd", "count"} /\ mapLock # w
    BY <1>1, <1>9, Task_Start_Does, Task_Check_Does, Task_End_Does, Count_Does DEF PlaceOK, WsPCs
  <2>2. thr'[w].pc \in {"check", "count", "idle", "lookup", "taskEnd"}
        /\ mapLock' = mapLock /\ \A u \in Threads : u # w => thr'[u] = thr[u]
    BY <1>1, <1>9, Task_Start_Does, Task_Check_Does, Task_End_Does, Count_Does
  <2>3. PlaceOK(w)'
    BY <1>1, <2>1, <2>2 DEF PlaceOK, WsPCs, WorkerPCs
  <2> QED BY <1>1, <2>2, <2>3, PlaceStep
<1>10. ASSUME NEW w \in Workers, dataReceivedFrom_Lookup(w)
      PROVE  Places'
  <2>1. PlaceOK(w)' /\ mapLock' = mapLock /\ \A u \in Threads : u # w => thr'[u] = thr[u]
    BY <1>1, <1>10, Lookup_Does DEF PlaceOK, WsPCs, WorkerPCs
  <2> QED BY <1>1, <2>1, PlaceStep
<1>11. ASSUME NEW w \in Workers, WebSocketProcess_Lookup(w)
      PROVE  Places'
  <2>1. PlaceOK(w)' /\ mapLock' = mapLock /\ \A u \in Threads : u # w => thr'[u] = thr[u]
    BY <1>1, <1>11, WsLookup_Does DEF PlaceOK, WsPCs, WorkerPCs
  <2> QED BY <1>1, <2>1, PlaceStep
<1>12. ASSUME NEW w \in Workers,
             \/ dataReceivedFrom_Loop(w) \/ dataReceivedFrom_Pop(w) \/ dataReceivedFrom_CallApp(w)
             \/ dataReceivedFrom_AppReturned(w) \/ dataReceivedFrom_Respond(w)
      PROVE  Places'
  <2>1. thr[w].cur \in Sessions
    BY <1>1, <1>12 DEF PlaceOK, dataReceivedFrom_Loop, dataReceivedFrom_Pop, dataReceivedFrom_CallApp,
         dataReceivedFrom_AppReturned, dataReceivedFrom_Respond, At
  <2>2. PlaceOK(w)' /\ mapLock' = mapLock /\ \A u \in Threads : u # w => thr'[u] = thr[u]
    BY <1>1, <1>12, <2>1, Loop_Does, Pop_Does, CallApp_Does, AppReturned_Does, Respond_Does DEF PlaceOK, WsPCs, WorkerPCs
  <2> QED BY <1>1, <2>2, PlaceStep
<1>13. ASSUME NEW w \in Workers,
             \/ endHttpRequest_WebSocket(w) \/ endHttpRequest_KeepAlive(w)
             \/ endHttpRequest_Close(w) \/ endHttpRequest_Relook(w)
      PROVE  Places'
  <2>1. endHttpRequest_WebSocket(w) => thr[w].cur \in Sessions
    BY <1>1 DEF PlaceOK, endHttpRequest_WebSocket, At
  <2>2. PlaceOK(w)' /\ mapLock' = mapLock /\ \A u \in Threads : u # w => thr'[u] = thr[u]
    BY <1>1, <1>13, <2>1, EndWebSocket_Does, KeepAlive_Does, EndClose_Does, Relook_Does DEF PlaceOK, WsPCs, WorkerPCs
  <2> QED BY <1>1, <2>2, PlaceStep
<1>14. CASE Still
  BY <1>14 DEF Still, Places, PlaceOK
<1> QED
  BY <1>2, <1>5, <1>6, <1>7, <1>8, <1>9, <1>12, <1>13, <1>14, <1>3, <1>4, <1>10, <1>11, StepCases

-----------------------------------------------------------------------------
(* Whose session is where.                                                 *)

\* The socket number a session was made for.
SocketFor(s) == SocketOf[sess[s].owner]

\* A session is in the table, in a thread and in a task under the socket number of its owner.
Keys ==
  /\ \A k \in Sockets : table[k] \in Sessions => SocketFor(table[k]) = k
  /\ \A t \in Threads : thr[t].cur \in Sessions => SocketFor(thr[t].cur) = Key(t)
  /\ \A i \in 1..Len(tasks) : SocketFor(tasks[i].state) = SocketOf[tasks[i].client]
  /\ \A w \in Workers : Busy(w) => SocketFor(thr[w].mine) = Key(w)

\* The client of a session, of a task and of a busy worker has connected.
Met ==
  /\ \A s \in Sessions : sess[s].owner # None => conn[sess[s].owner] # "new"
  /\ \A i \in 1..Len(tasks) : conn[tasks[i].client] # "new"
  /\ \A w \in Workers : Busy(w) => conn[thr[w].cli] # "new"

\* What Keys and Met need to know of a step.
LEMMA SameOwners ==
  ASSUME IInv, Keys, Met, \A c \in Clients : conn'[c] = "new" => conn[c] = "new",
         \A s \in Sessions : sess'[s].owner = sess[s].owner,
         \A k \in Sockets : table'[k] \in {table[k], None, Null},
         \A t \in Threads : /\ thr'[t].mine = thr[t].mine /\ thr'[t].cli = thr[t].cli
                            /\ t \in Workers /\ thr'[t].pc # "idle" => thr[t].pc # "idle"
                            /\ \/ thr'[t].cur = thr[t].cur
                               \/ thr'[t].cur \notin Sessions
                               \/ Key(t) \in Sockets /\ table[Key(t)] = thr'[t].cur
  PROVE  /\ tasks' = tasks => Keys' /\ Met'
         /\ \A k \in Sockets : table'[k] \in Sessions => (SocketFor(table[k]))' = k
         /\ \A t \in Threads : thr'[t].cur \in Sessions => (SocketFor(thr[t].cur))' = Key(t)'
         /\ \A w \in Workers : Busy(w)' => (SocketFor(thr[w].mine))' = Key(w)'
         /\ \A s \in Sessions : sess'[s].owner # None => conn'[sess'[s].owner] # "new"
         /\ \A w \in Workers : Busy(w)' => conn'[thr'[w].cli] # "new"
<1>1. \A s \in Sessions : SocketFor(s)' = SocketFor(s)
  BY DEF SocketFor
<1>2. \A t \in Threads : Key(t)' = Key(t)
  BY DEF Key
<1>3. \A k \in Sockets : table'[k] \in Sessions => (SocketFor(table[k]))' = k
  BY <1>1, ConstantsAssumption DEF Keys
<1>4. \A t \in Threads : thr'[t].cur \in Sessions => (SocketFor(thr[t].cur))' = Key(t)'
  BY <1>1, <1>2 DEF Keys
<1>5. \A w \in Workers : Busy(w)' => (SocketFor(thr[w].mine))' = Key(w)'
  BY <1>1, <1>2, TaskState DEF IInv, Keys, Busy, At
<1>6. \A s \in Sessions : sess'[s].owner # None => conn'[sess'[s].owner] # "new"
  BY DEF Met, IInv, TypeInv, TypeOK, SessionState
<1>7. \A w \in Workers : Busy(w)' => conn'[thr'[w].cli] # "new"
  BY TaskState DEF Met, IInv, TypeInv, ThreadsOK, Busy, At
<1>8. ASSUME tasks' = tasks PROVE Keys' /\ Met'
  <2>1. \A i \in 1..Len(tasks') : (SocketFor(tasks[i].state))' = SocketOf[tasks'[i].client]
    BY <1>1, <1>8, TaskState DEF IInv, Keys
  <2>2. \A i \in 1..Len(tasks') : conn'[tasks'[i].client] # "new"
    BY <1>8, TaskState DEF IInv, Met, Task
  <2> QED
    BY <1>3, <1>4, <1>5, <1>6, <1>7, <2>1, <2>2 DEF Keys, Met
<1> QED
  BY <1>3, <1>4, <1>5, <1>6, <1>7, <1>8

\* Every step keeps the sessions under the socket number of their owners.
LEMMA Keys_Step ==
  ASSUME IInv, Places, Keys, Met, [Next]_vars
  PROVE  Keys' /\ Met'
<1>1. TypeInv /\ \A c \in Clients : conn'[c] = "new" => conn[c] = "new"
  BY ConnStep DEF IInv
<1>2. CASE Quiet
  BY <1>1, <1>2, SameOwners DEF Quiet, QuietThr, QuietSess, QuietRec, QuietTable, QuietRest
<1>3. ASSUME NEW c \in Clients, Listener_Append(c) PROVE Keys' /\ Met'
  <2> DEFINE s == thr[c].cur
             e == [client |-> c, state |-> s]
  <2>1. c \in Threads /\ thr[c].cli = c /\ thr[c].pc = "append" /\ s \in Sessions
    BY <1>1, <1>3, ListenAppend_Does DEF TypeInv, ThreadsOK, Threads
  <2>2. SocketFor(s) = SocketOf[c] /\ conn[c] # "new"
    BY <2>1 DEF Keys, Key, Places, PlaceOK
  <2>3. /\ Moves(c, "tcp", s, thr[c].ret) /\ table' = table /\ conn' = conn
        /\ tasks' = tasks \/ tasks' = Append(tasks, e)
    BY <1>1, <1>3, ListenAppend_Does
  <2>4. \A x \in Sessions : sess'[x].owner = sess[x].owner
    BY <1>1, <1>3, ListenAppend_Does DEF Becomes, Fields
  <2>5. /\ \A x \in Sessions : sess'[x].owner = sess[x].owner
        /\ table' = table /\ conn' = conn
        /\ tasks' = tasks \/ tasks' = Append(tasks, e)
        /\ \A t \in Threads : /\ thr'[t].mine = thr[t].mine /\ thr'[t].cli = thr[t].cli
                              /\ thr'[t].cur = thr[t].cur
                              /\ t \in Workers /\ thr'[t].pc # "idle" => thr[t].pc # "idle"
    BY <2>1, <2>3, <2>4 DEF Moves
  <2>6. CASE tasks' = tasks
    BY <1>1, <2>5, <2>6, SameOwners
  <2>7. CASE tasks' = Append(tasks, e)
    <3>1. /\ Len(tasks') = Len(tasks) + 1
          /\ \A i \in 1..Len(tasks') : (i \in 1..Len(tasks) /\ tasks'[i] = tasks[i]) \/ tasks'[i] = e
      BY <2>7, AppendProperties DEF IInv, TypeInv, TypeOK
    <3>2. \A x \in Sessions : SocketFor(x)' = SocketFor(x)
      BY <2>5 DEF SocketFor
    <3>3. \A i \in 1..Len(tasks') :
            (SocketFor(tasks[i].state))' = SocketOf[tasks'[i].client] /\ conn'[tasks'[i].client] # "new"
      <4> TAKE i \in 1..Len(tasks')
      <4>1. CASE i \in 1..Len(tasks) /\ tasks'[i] = tasks[i]
        BY <2>5, <3>2, <4>1, TaskState DEF IInv, Keys, Met
      <4>2. CASE tasks'[i] = e
        BY <2>1, <2>2, <2>5, <3>2, <4>2
      <4> QED BY <3>1, <4>1, <4>2
    <3> QED
      BY <1>1, <2>5, <3>3, SameOwners DEF Keys, Met
  <2> QED BY <2>5, <2>6, <2>7
<1>4. ASSUME NEW t \in Threads, initializeClient_Insert(t) PROVE Keys' /\ Met'
  <2>1. PICK s \in Sessions :
          /\ sess[s].owner = None /\ sess'[s] = FreshState(thr[t].cli)
          /\ \A y \in Sessions : y # s => sess'[y] = sess[y]
          /\ table'[Key(t)] = s /\ \A k \in Sockets : k # Key(t) => table'[k] = table[k]
    BY <1>1, <1>4, Insert_Does
  <2>2. /\ thr[t].pc = "insert" /\ thr[t].cli \in Clients /\ Key(t) \in Sockets
        /\ conn' = conn /\ tasks' = tasks
        /\ \A u \in Threads : /\ thr'[u].mine = thr[u].mine /\ thr'[u].cli = thr[u].cli
                              /\ thr'[u].cur = thr[u].cur
                              /\ u \in Workers /\ thr'[u].pc # "idle" => thr[u].pc # "idle"
    BY <1>1, <1>4, Insert_Does DEF Moves
  <2>3. SocketFor(s)' = Key(t) /\ sess'[s].owner = thr[t].cli
    BY <2>1 DEF SocketFor, FreshState, Key
  <2>4. \A y \in Sessions : sess[y].owner # None => SocketFor(y)' = SocketFor(y) /\ sess'[y].owner = sess[y].owner
    BY <2>1 DEF SocketFor
  <2>5. conn[thr[t].cli] # "new"
    BY <1>1, <2>2 DEF Places, PlaceOK, Met, Busy, At, Threads, TypeInv, ThreadsOK
  <2>6. \A k \in Sockets : table'[k] \in Sessions => (SocketFor(table[k]))' = k
    BY <2>1, <2>3, <2>4 DEF Keys, IInv, Owned
  <2>7. \A u \in Threads : thr'[u].cur \in Sessions => (SocketFor(thr[u].cur))' = Key(u)'
    BY <2>2, <2>4 DEF Keys, IInv, Owned, Key
  <2>8. \A w \in Workers : Busy(w)' => (SocketFor(thr[w].mine))' = Key(w)' /\ conn'[thr'[w].cli] # "new"
    BY <2>2, <2>4, TaskState DEF Keys, Met, IInv, Owned, Key, Busy, At
  <2>9. \A i \in 1..Len(tasks') :
          (SocketFor(tasks[i].state))' = SocketOf[tasks'[i].client] /\ conn'[tasks'[i].client] # "new"
    BY <2>2, <2>4, TaskState DEF Keys, Met, IInv, Owned
  <2>10. \A x \in Sessions : sess'[x].owner # None => conn'[sess'[x].owner] # "new"
    BY <2>1, <2>2, <2>3, <2>5 DEF Met
  <2> QED
    BY <2>6, <2>7, <2>8, <2>9, <2>10 DEF Keys, Met
<1>5. ASSUME NEW w \in Workers, Task_Start(w) PROVE Keys' /\ Met'
  <2>1. /\ w \in Threads /\ 1 \in 1..Len(tasks)
        /\ \A i \in 1..Len(tasks') : i + 1 \in 1..Len(tasks) /\ tasks'[i] = tasks[i + 1]
        /\ thr'[w].cli = tasks[1].client /\ thr'[w].mine = tasks[1].state /\ thr'[w].cur = None
        /\ \A u \in Threads : u # w => thr'[u] = thr[u]
        /\ UNCHANGED <<conn, table, sess>>
    BY <1>1, <1>5, Task_Start_Does DEF Threads
  <2>2. \A s : SocketFor(s)' = SocketFor(s)
    BY <2>1 DEF SocketFor
  <2>3. \A u \in Threads : thr'[u].cur \in Sessions => (SocketFor(thr[u].cur))' = Key(u)'
    BY <2>1, <2>2, ConstantsAssumption DEF Keys, Key
  <2>4. \A v \in Workers : Busy(v)' => (SocketFor(thr[v].mine))' = Key(v)' /\ conn'[thr'[v].cli] # "new"
    BY <2>1, <2>2, TaskState DEF Keys, Met, Key, Busy, At, IInv
  <2>5. \A i \in 1..Len(tasks') :
          (SocketFor(tasks[i].state))' = SocketOf[tasks'[i].client] /\ conn'[tasks'[i].client] # "new"
    BY <2>1, <2>2 DEF Keys, Met
  <2> QED
    BY <2>1, <2>2, <2>3, <2>4, <2>5 DEF Keys, Met
<1>6. ASSUME NEW w \in Workers, Task_End(w) PROVE Keys' /\ Met'
  BY <1>1, <1>6, Task_End_Does, SameOwners DEF Moves, Becomes, Fields
<1> QED
  BY <1>1, <1>2, <1>3, <1>4, <1>5, <1>6, QuietOrNot

\* The session of its task that a worker has left for another one is no longer in the table.
Left ==
  \A w \in Workers, k \in Sockets :
    Busy(w) /\ Cur(w) \in Sessions /\ Cur(w) # thr[w].mine => table[k] # thr[w].mine

\* Every step keeps what was left out of the table.
LEMMA Left_Step ==
  ASSUME IInv, Keys, Left, [Next]_vars
  PROVE  Left'
<1> SUFFICES ASSUME NEW w \in Workers, NEW k \in Sockets, Busy(w)', Cur(w)' \in Sessions,
                    Cur(w)' # thr'[w].mine, table'[k] = thr'[w].mine
             PROVE  FALSE
  BY DEF Left
<1> USE DEF Cur, Busy, At
<1>1. TypeInv /\ w \in Threads
  BY DEF IInv, Threads
<1>2. CASE Quiet
  <2>1. /\ Busy(w) /\ thr'[w].mine = thr[w].mine /\ thr[w].mine \in Sessions
        /\ thr'[w].cur = thr[w].cur \/ (table[Key(w)] = thr'[w].cur /\ Key(w) \in Sockets)
    BY <1>1, <1>2, TaskState DEF Quiet, QuietThr
  <2>2. table[k] = thr[w].mine
    BY <1>2, <2>1, ConstantsAssumption DEF Quiet, QuietTable
  <2>3. k = Key(w)
    BY <2>1, <2>2 DEF Keys
  <2> QED
    BY <2>1, <2>2, <2>3 DEF Left
<1>3. ASSUME NEW c \in Clients, Listener_Append(c) PROVE FALSE
  BY <1>1, <1>3, Append_Effect DEF Left
<1>4. ASSUME NEW t \in Threads, initializeClient_Insert(t) PROVE FALSE
  <2>1. /\ Busy(w) /\ thr'[w].mine = thr[w].mine /\ thr'[w].cur = thr[w].cur /\ thr[w].mine \in Sessions
    BY <1>1, <1>4, Insert_Effect, TaskState
  <2>2. PICK s \in Sessions : sess[s].owner = None /\ table'[k] \in {table[k], s}
    BY <1>1, <1>4, Insert_Effect
  <2> QED
    BY <2>1, <2>2 DEF Left, IInv, Owned
<1>5. ASSUME NEW v \in Workers, Task_Start(v) PROVE FALSE
  BY <1>1, <1>5, Start_Effect, ConstantsAssumption DEF Left
<1>6. ASSUME NEW v \in Workers, Task_End(v) PROVE FALSE
  BY <1>1, <1>6, End_Effect DEF Left
<1> QED
  BY <1>1, <1>2, <1>3, <1>4, <1>5, <1>6, QuietOrNot

-----------------------------------------------------------------------------
(* The calls to the observer for one session.                              *)

\* A session that is not mixed: what its states say of the calls made so far.  While
\* the request is with the application, and until the websocket's connection is
\* reported, a worker is on its way.
SessCalls(s) ==
  LET r == sess[s] IN
  /\ r.req <= 1 /\ r.con <= 1
  /\ r.http = "READING" => r.ws = "CLOSED" /\ r.req = 0
  /\ r.ws = "CLOSED" => r.con = 0 /\ r.data = 0
  /\ r.ws # "CLOSED" => r.req = 1 /\ r.http \in {"SEND_RESPONSE", "FINISHED"}
  /\ r.data > 0 => r.con = 1
  /\ r.http = "SEND_REQUEST_TO_APP" /\ r.req = 1 => \E w \in Workers : thr[w].pc = "app" /\ thr[w].cur = s
  /\ r.ws # "CLOSED" /\ r.con = 0 => \E w \in Workers : thr[w].pc \in {"parse", "end"} /\ thr[w].cur = s

\* What thread t knows of such a session when it is at control point l.
Knows(l, r) ==
  /\ l = "pop" => r.http = "READING" /\ r.buf > 0
  /\ l = "app" => r.http = "SEND_REQUEST_TO_APP" /\ r.req = 1
  /\ l = "end" => r.http = "FINISHED"
  /\ l \in {"parse", "pop", "app", "end"} => r.con = 0
  /\ l \in {"wsPop", "wsData", "enterWs"} => r.con = 1
  /\ l = "wsLoop" => r.ws = "FINISHED" \/ r.con = 1
  /\ l \in WsPCs \cup {"enterWs"} => r.ws # "CLOSED"

ThrCalls(t) == thr[t].cur \in Sessions /\ ~sess[thr[t].cur].mixed => Knows(thr[t].pc, sess[thr[t].cur])

Calls ==
  /\ \A s \in Sessions : ~sess[s].mixed => SessCalls(s)
  /\ \A t \in Threads : ThrCalls(t)

\* Two workers with the same session are one, unless the session is mixed.
LEMMA Sole ==
  ASSUME IInv, NEW v \in Workers, NEW w \in Workers, Busy(v), Busy(w), Cur(v) = Cur(w),
         Cur(w) \in Sessions, ~sess[Cur(w)].mixed
  PROVE  v = w /\ thr[w].mine = Cur(w)
  BY DEF IInv, Told, Tasks

\* Session y does not change, and no worker on its way with y moves.
LEMMA SessKept ==
  ASSUME NEW y \in Sessions, SessCalls(y), sess'[y] = sess[y],
         \A w \in Workers : thr[w].pc \in {"parse", "app", "end"} /\ thr[w].cur = y => thr'[w] = thr[w]
  PROVE  SessCalls(y)'
  BY DEF SessCalls

\* Thread t moves with session s (if that is one): what is left to show of the others.
LEMMA CallsStep ==
  ASSUME Calls, NEW t \in Threads, NEW s,
         \A u \in Threads : u # t => thr'[u] = thr[u],
         \A y \in Sessions : y # s => sess'[y] = sess[y],
         thr[t].pc \in {"parse", "app", "end"} => thr[t].cur = s,
         s \in Sessions /\ ~sess'[s].mixed => SessCalls(s)',
         ThrCalls(t)',
         \A u \in Threads : u # t /\ thr[u].cur = s /\ s \in Sessions /\ ~sess'[s].mixed => Knows(thr[u].pc, sess'[s])
  PROVE  Calls'
<1>1. ASSUME NEW y \in Sessions, y # s, ~sess'[y].mixed PROVE SessCalls(y)'
  <2>1. sess'[y] = sess[y] /\ SessCalls(y)
    BY <1>1 DEF Calls
  <2>2. \A w \in Workers : thr[w].pc \in {"parse", "app", "end"} /\ thr[w].cur = y => thr'[w] = thr[w]
    BY <1>1 DEF Threads
  <2> QED BY <2>1, <2>2, SessKept
<1>2. ASSUME NEW u \in Threads, u # t PROVE ThrCalls(u)'
  <2>1. CASE thr[u].cur = s
    BY <1>2, <2>1 DEF ThrCalls
  <2>2. CASE thr[u].cur # s
    BY <1>2, <2>2 DEF ThrCalls, Calls
  <2> QED BY <2>1, <2>2
<1> QED
  BY <1>1, <1>2 DEF Calls

\* The record f keeps what threads know of r.
Keeps(f, r) ==
  /\ f.http = r.http /\ f.req = r.req /\ f.con = r.con
  /\ r.http = "READING" /\ r.buf > 0 => f.buf > 0
  /\ r.ws # "CLOSED" => f.ws # "CLOSED"
  /\ r.ws = "FINISHED" => f.ws = "FINISHED" \/ r.con = 1
  /\ r.mixed => f.mixed

\* What a thread knows of a session survives changes that keep these fields.
LEMMA KnowsKept ==
  ASSUME Calls, NEW s \in Sessions, Keeps(sess'[s], sess[s]), ~sess'[s].mixed,
         NEW u \in Threads, thr[u].cur = s
  PROVE  Knows(thr[u].pc, sess'[s])
  BY DEF Calls, ThrCalls, Knows, Keeps

\* The record f of a session that a worker answers keeps what a client's thread knows.
KeepsWs(f, r) ==
  /\ r.ws # "CLOSED" => /\ f.ws # "CLOSED" /\ (r.con = 1 => f.con = 1)
                        /\ r.ws = "FINISHED" => f.ws = "FINISHED" \/ f.con = 1
  /\ r.mixed => f.mixed

\* What the only thread with a session does disturbs no other thread.
LEMMA AloneKept ==
  ASSUME IInv, Places, Calls, NEW w \in Workers, Busy(w), NEW s \in Sessions, thr[w].cur = s,
         KeepsWs(sess'[s], sess[s]), ~sess'[s].mixed,
         NEW u \in Threads, u # w, thr[u].cur = s
  PROVE  Knows(thr[u].pc, sess'[s])
<1>1. ~sess[s].mixed /\ Knows(thr[u].pc, sess[s])
  BY DEF KeepsWs, Calls, ThrCalls
<1>2. CASE u \in Workers
  BY <1>1, <1>2, Sole DEF Busy, At, Cur, Knows, WsPCs
<1>3. CASE u \in Clients
  <2>1. thr[u].pc \notin WorkerPCs
    BY <1>3 DEF Places, PlaceOK
  <2> QED
    BY <1>1, <2>1 DEF KeepsWs, Knows, WorkerPCs, WsPCs
<1> QED
  BY <1>2, <1>3 DEF Threads

\* The fields of a session's record that matter below.
LEMMA RecType ==
  ASSUME TypeInv, NEW s \in Sessions
  PROVE  LET r == sess[s] IN
         /\ r.buf \in Nat /\ r.req \in Nat /\ r.con \in Nat /\ r.data \in Nat
         /\ r.http \in {"READING", "SEND_REQUEST_TO_APP", "SEND_RESPONSE", "ERROR", "FINISHED"}
         /\ r.ws \in {"CLOSED", "OPEN", "FINISHED"}
         /\ r.processing \in BOOLEAN /\ r.mixed \in BOOLEAN /\ r.late \in BOOLEAN
         /\ r.owner \in Clients \cup {None}
<1>1. sess[s] \in SessionState
  BY DEF TypeInv, TypeOK
<1> QED
  BY <1>1 DEF SessionState

\* The thread t moves, to a control point where it knows nothing, and no session changes.
LEMMA CallsMove ==
  ASSUME Calls, NEW t \in Threads, sess' = sess,
         \A u \in Threads : u # t => thr'[u] = thr[u],
         thr[t].pc \notin {"parse", "app", "end"},
         thr'[t].pc \notin {"parse", "pop", "app", "end", "enterWs"} \cup WsPCs
  PROVE  Calls'
<1>1. ThrCalls(t)'
  BY DEF ThrCalls, Knows, WsPCs
<1>2. \A u \in Threads : ThrCalls(u)'
  BY <1>1 DEF ThrCalls, Calls
<1>3. \A s \in Sessions : ~sess'[s].mixed => SessCalls(s)'
  BY SessKept DEF Calls, Threads
<1> QED
  BY <1>2, <1>3 DEF Calls

\* Worker w moves while it parses or answers session s.
LEMMA ParseCalls ==
  ASSUME IInv, Places, Calls, NEW w \in Workers,
         \/ dataReceivedFrom_Loop(w) \/ dataReceivedFrom_Pop(w) \/ dataReceivedFrom_CallApp(w)
         \/ dataReceivedFrom_AppReturned(w) \/ dataReceivedFrom_Respond(w)
         \/ endHttpRequest_WebSocket(w) \/ endHttpRequest_KeepAlive(w) \/ endHttpRequest_Close(w)
  PROVE  Calls'
<1> DEFINE s == thr[w].cur
           r == sess[s]
           f == sess'[s]
<1>1. TypeInv /\ w \in Threads /\ s \in Sessions /\ thr[w].pc \in {"parse", "pop", "app", "end"}
  <2>1. thr[w].pc \in {"parse", "pop", "app", "end"}
    BY DEF dataReceivedFrom_Loop, dataReceivedFrom_Pop, dataReceivedFrom_CallApp, dataReceivedFrom_AppReturned,
           dataReceivedFrom_Respond, endHttpRequest_WebSocket, endHttpRequest_KeepAlive, endHttpRequest_Close, At
  <2> QED BY <2>1 DEF IInv, Places, PlaceOK, Threads
<1>2. Busy(w) /\ (~r.mixed => SessCalls(s) /\ Knows(thr[w].pc, r))
  BY <1>1 DEF Busy, At, Calls, ThrCalls
<1>3. /\ r.buf \in Nat /\ r.req \in Nat /\ r.con \in Nat /\ r.data \in Nat
      /\ r.http \in {"READING", "SEND_REQUEST_TO_APP", "SEND_RESPONSE", "ERROR", "FINISHED"}
      /\ r.ws \in {"CLOSED", "OPEN", "FINISHED"}
  BY <1>1, RecType
\* What remains to show of each action.
<1>4. ASSUME \A u \in Threads : u # w => thr'[u] = thr[u], \A y \in Sessions : y # s => sess'[y] = sess[y],
             thr'[w].cur = s, KeepsWs(f, r), ~f.mixed => SessCalls(s)' /\ Knows(thr'[w].pc, f)
      PROVE  Calls'
  <2>1. \A u \in Threads : u # w /\ thr[u].cur = s /\ s \in Sessions /\ ~sess'[s].mixed => Knows(thr[u].pc, sess'[s])
    BY <1>1, <1>2, <1>4, AloneKept
  <2>2. ThrCalls(w)'
    BY <1>4 DEF ThrCalls
  <2> QED
    BY <1>1, <1>4, <2>1, <2>2, CallsStep
<1>5. CASE dataReceivedFrom_Loop(w)
  <2>1. /\ sess' = sess /\ thr'[w].cur = s /\ \A u \in Threads : u # w => thr'[u] = thr[u]
        /\ thr[w].pc = "parse" /\ r.http = "READING"
        /\ thr'[w].pc = "taskEnd" \/ (thr'[w].pc = "pop" /\ r.buf > 0)
    BY <1>1, <1>5, Loop_Does DEF Moves
  <2>2. ~r.mixed => r.ws = "CLOSED" /\ SessCalls(s)'
    BY <1>2, <2>1 DEF SessCalls
  <2>3. KeepsWs(f, r) /\ (~f.mixed => Knows(thr'[w].pc, f))
    BY <1>2, <2>1 DEF Knows, KeepsWs, WsPCs
  <2> QED BY <1>4, <2>1, <2>2, <2>3
<1>6. CASE dataReceivedFrom_Pop(w)
  <2>1. /\ thr[w].pc = "pop" /\ r.buf > 0 /\ Moves(w, "parse", s, thr[w].ret)
        /\ \E h \in {r.http, "SEND_REQUEST_TO_APP", "ERROR"} :
             Becomes(s, r.buf - 1, h, r.ws, r.req, r.con, r.data, r.processing, r.mixed, r.late)
    BY <1>1, <1>6, Pop_Does
  <2>2. /\ f.http \in {r.http, "SEND_REQUEST_TO_APP", "ERROR"} /\ f.ws = r.ws /\ f.req = r.req /\ f.con = r.con
        /\ f.data = r.data /\ f.mixed = r.mixed /\ \A y \in Sessions : y # s => sess'[y] = sess[y]
    BY <2>1 DEF Becomes, Fields
  <2>3. ASSUME ~f.mixed PROVE SessCalls(s)'
    <3>1. r.ws = "CLOSED" /\ r.req = 0 /\ r.con = 0 /\ r.data = 0
      BY <1>2, <2>1, <2>2, <2>3 DEF SessCalls, Knows
    <3>2. f.ws = "CLOSED" /\ f.req = 0 /\ f.con = 0 /\ f.data = 0
      BY <2>2, <3>1
    <3> QED BY <2>1, <3>2 DEF SessCalls, Moves
  <2>4. KeepsWs(f, r) /\ (~f.mixed => Knows("parse", f))
    BY <1>2, <2>1, <2>2 DEF Knows, KeepsWs, WsPCs
  <2> QED BY <1>4, <2>1, <2>2, <2>3, <2>4 DEF Moves
<1>7. CASE dataReceivedFrom_CallApp(w)
  <2>1. /\ thr[w].pc = "parse" /\ r.http = "SEND_REQUEST_TO_APP" /\ Moves(w, "app", s, thr[w].ret)
        /\ Becomes(s, r.buf, r.http, r.ws, r.req + 1, r.con, r.data, r.processing, r.mixed, r.late)
    BY <1>1, <1>7, CallApp_Does
  <2>2. /\ f.http = r.http /\ f.ws = r.ws /\ f.req = r.req + 1 /\ f.con = r.con
        /\ f.data = r.data /\ f.mixed = r.mixed /\ \A y \in Sessions : y # s => sess'[y] = sess[y]
    BY <2>1 DEF Becomes, Fields
  <2>3. ASSUME ~f.mixed PROVE r.ws = "CLOSED" /\ r.req = 0
    <3>1. ASSUME NEW v \in Workers, thr[v].pc = "app", thr[v].cur = s PROVE FALSE
      BY <1>1, <1>2, <2>1, <2>2, <2>3, <3>1, Sole DEF Busy, At, Cur
    <3> QED
      BY <1>2, <1>3, <2>1, <2>2, <2>3, <3>1 DEF SessCalls
  <2>4. ~f.mixed => SessCalls(s)' /\ Knows("app", f)
    BY <1>2, <2>1, <2>2, <2>3 DEF SessCalls, Knows, Moves, WsPCs
  <2>5. KeepsWs(f, r)
    BY <2>2 DEF KeepsWs
  <2> QED BY <1>4, <2>1, <2>2, <2>4, <2>5 DEF Moves
<1>8. CASE dataReceivedFrom_AppReturned(w)
  <2>1. /\ thr[w].pc = "app" /\ Moves(w, "parse", s, thr[w].ret)
        /\ \E x \in {r.ws, "OPEN"} :
             Becomes(s, r.buf, "SEND_RESPONSE", x, r.req, r.con, r.data, r.processing, r.mixed, r.late)
    BY <1>1, <1>8, AppReturned_Does
  <2>2. /\ f.http = "SEND_RESPONSE" /\ f.ws \in {r.ws, "OPEN"} /\ f.req = r.req /\ f.con = r.con
        /\ f.data = r.data /\ f.mixed = r.mixed /\ \A y \in Sessions : y # s => sess'[y] = sess[y]
    BY <2>1 DEF Becomes, Fields
  <2>3. ~f.mixed => r.ws = "CLOSED" /\ r.req = 1 /\ r.con = 0 /\ r.data = 0
    BY <1>2, <1>3, <2>1, <2>2 DEF SessCalls, Knows
  <2>4. ~f.mixed => SessCalls(s)' /\ Knows("parse", f)
    BY <1>2, <2>1, <2>2, <2>3 DEF SessCalls, Knows, Moves, WsPCs
  <2>5. ASSUME ~f.mixed PROVE Calls'
    BY <1>4, <2>1, <2>2, <2>3, <2>4, <2>5 DEF KeepsWs, Moves
  <2>6. ASSUME f.mixed PROVE Calls'
    <3>1. ThrCalls(w)'
      BY <2>1, <2>6 DEF ThrCalls, Moves
    <3> QED
      BY <1>1, <2>1, <2>2, <2>6, <3>1, CallsStep DEF Moves
  <2> QED BY <2>5, <2>6
<1>9. CASE dataReceivedFrom_Respond(w)
  <2>1. /\ thr[w].pc = "parse" /\ r.http \in {"SEND_RESPONSE", "ERROR", "FINISHED"} /\ Moves(w, "end", s, thr[w].ret)
        /\ Becomes(s, r.buf, "FINISHED", r.ws, r.req, r.con, r.data, r.processing, r.mixed, r.late)
    BY <1>1, <1>9, Respond_Does
  <2>2. /\ f.http = "FINISHED" /\ f.ws = r.ws /\ f.req = r.req /\ f.con = r.con
        /\ f.data = r.data /\ f.mixed = r.mixed /\ \A y \in Sessions : y # s => sess'[y] = sess[y]
    BY <2>1 DEF Becomes, Fields
  <2>3. ~f.mixed => SessCalls(s)' /\ Knows("end", f)
    BY <1>2, <2>1, <2>2 DEF SessCalls, Knows, Moves, WsPCs
  <2>4. KeepsWs(f, r)
    BY <2>2 DEF KeepsWs
  <2> QED BY <1>4, <2>1, <2>2, <2>3, <2>4 DEF Moves
<1>10. CASE endHttpRequest_WebSocket(w)
  <2>1. /\ thr[w].pc = "end" /\ r.ws # "CLOSED" /\ Moves(w, "taskEnd", s, thr[w].ret)
        /\ Becomes(s, r.buf, r.http, r.ws, r.req, r.con + 1, r.data, r.processing, r.mixed, r.late \/ r.buf > 0)
    BY <1>1, <1>10, EndWebSocket_Does
  <2>2. /\ f.http = r.http /\ f.ws = r.ws /\ f.req = r.req /\ f.con = r.con + 1
        /\ f.data = r.data /\ f.mixed = r.mixed /\ \A y \in Sessions : y # s => sess'[y] = sess[y]
    BY <2>1 DEF Becomes, Fields
  <2>3. ~f.mixed => r.con = 0 /\ f.con = 1
    BY <1>2, <2>1, <2>2 DEF Knows
  <2>4. ASSUME ~f.mixed PROVE SessCalls(s)' /\ Knows("taskEnd", f)
    <3>1. f.ws # "CLOSED" /\ f.req = 1 /\ f.http \in {"SEND_RESPONSE", "FINISHED"} /\ f.con = 1
      BY <1>2, <2>1, <2>2, <2>3, <2>4 DEF SessCalls
    <3> QED BY <2>1, <3>1 DEF SessCalls, Knows, WsPCs, Moves
  <2>5. ASSUME ~f.mixed PROVE Calls'
    BY <1>4, <2>1, <2>2, <2>3, <2>4, <2>5 DEF KeepsWs, Moves
  <2>6. ASSUME f.mixed PROVE Calls'
    <3>1. ThrCalls(w)'
      BY <2>1, <2>6 DEF ThrCalls, Moves
    <3> QED
      BY <1>1, <2>1, <2>2, <2>6, <3>1, CallsStep DEF Moves
  <2> QED BY <2>5, <2>6
<1>11. CASE endHttpRequest_KeepAlive(w) \/ endHttpRequest_Close(w)
  <2>1. /\ sess' = sess /\ thr'[w].cur = s /\ \A u \in Threads : u # w => thr'[u] = thr[u]
        /\ thr[w].pc = "end" /\ r.ws = "CLOSED" /\ thr'[w].pc \in {"finalize", "taskEnd"}
    BY <1>1, <1>11, KeepAlive_Does, EndClose_Does DEF Moves
  <2>2. ~r.mixed => r.http = "FINISHED" /\ SessCalls(s)'
    BY <1>2, <2>1 DEF SessCalls, Knows
  <2>3. KeepsWs(f, r) /\ (~f.mixed => Knows(thr'[w].pc, f))
    BY <1>2, <2>1 DEF Knows, KeepsWs, WsPCs
  <2> QED BY <1>4, <2>1, <2>2, <2>3
<1> QED
  BY <1>5, <1>6, <1>7, <1>8, <1>9, <1>10, <1>11

\* Thread t reads the websocket of its session.
LEMMA WsCalls ==
  ASSUME IInv, Places, Calls, NEW t \in Threads,
         \/ WebSocketProcess_Loop(t) \/ WebSocketProcess_Pop(t)
         \/ WebSocketProcess_DataReturned(t) \/ WebSocketProcess_End(t)
  PROVE  Calls'
<1> DEFINE s == thr[t].cur
           r == sess[s]
           f == sess'[s]
<1>1. TypeInv /\ s \in Sessions /\ thr[t].pc \in WsPCs
  <2>1. thr[t].pc \in WsPCs
    BY DEF WebSocketProcess_Loop, WebSocketProcess_Pop, WebSocketProcess_DataReturned, WebSocketProcess_End, At, WsPCs
  <2> QED BY <2>1 DEF IInv, Places, PlaceOK
<1>2. ~r.mixed => SessCalls(s) /\ Knows(thr[t].pc, r) /\ r.ws # "CLOSED"
  BY <1>1 DEF Calls, ThrCalls, Knows
<1>3. r.buf \in Nat /\ r.con \in Nat /\ r.data \in Nat /\ r.ws \in {"CLOSED", "OPEN", "FINISHED"}
  BY <1>1, RecType
<1>4. ASSUME \A u \in Threads : u # t => thr'[u] = thr[u], \A y \in Sessions : y # s => sess'[y] = sess[y],
             thr'[t].cur = s, r.mixed => f.mixed,
             ~f.mixed => f.http = r.http /\ f.req = r.req /\ f.con = r.con /\ f.ws # "CLOSED",
             ~f.mixed => f.data = r.data \/ r.con = 1,
             ~f.mixed => (r.ws = "FINISHED" => f.ws = "FINISHED" \/ r.con = 1),
             ~f.mixed => Knows(thr'[t].pc, f)
      PROVE  Calls'
  <2>1. ASSUME ~f.mixed PROVE SessCalls(s)'
    <3>1. /\ f.req = 1 /\ f.con <= 1 /\ f.http \in {"SEND_RESPONSE", "FINISHED"} /\ f.ws # "CLOSED"
          /\ f.data > 0 => f.con = 1
      BY <1>2, <1>4, <2>1 DEF SessCalls
    <3>2. f.con = 0 => \E w \in Workers : thr[w].pc \in {"parse", "end"} /\ thr[w].cur = s /\ thr'[w] = thr[w]
      BY <1>1, <1>2, <1>4, <2>1 DEF SessCalls, WsPCs, Threads
    <3>3. f.con = 0 => \E w \in Workers : thr'[w].pc \in {"parse", "end"} /\ thr'[w].cur = s
      BY <3>2
    <3> QED BY <1>4, <3>1, <3>3 DEF SessCalls
  <2>2. ThrCalls(t)'
    BY <1>4 DEF ThrCalls
  <2>3. ASSUME ~f.mixed PROVE Keeps(f, r)
    BY <1>2, <1>4, <2>3 DEF Keeps, SessCalls
  <2>4. \A u \in Threads : u # t /\ thr[u].cur = s /\ s \in Sessions /\ ~sess'[s].mixed => Knows(thr[u].pc, sess'[s])
    BY <2>3, KnowsKept
  <2> QED
    BY <1>1, <1>4, <2>1, <2>2, <2>4, CallsStep
<1>5. CASE WebSocketProcess_Loop(t)
  <2>1. /\ sess' = sess /\ thr'[t].cur = s /\ \A u \in Threads : u # t => thr'[u] = thr[u]
        /\ thr[t].pc = "wsLoop"
        /\ thr'[t].pc = "wsEnd" \/ (thr'[t].pc = "wsPop" /\ r.ws # "FINISHED")
    BY <1>1, <1>5, WsLoop_Does DEF Moves
  <2>2. ~r.mixed => Knows(thr'[t].pc, r)
    BY <1>2, <2>1 DEF Knows, WsPCs
  <2> QED BY <1>2, <1>4, <2>1, <2>2
<1>6. CASE WebSocketProcess_Pop(t)
  <2>1. thr[t].pc = "wsPop" /\ \E l \in {"wsLoop", "wsData"} : Moves(t, l, s, thr[t].ret)
    BY <1>1, <1>6, WsPop_Does
  <2>2. \E x \in {r.ws, "OPEN", "FINISHED"}, d \in {r.data, r.data + 1} :
           Becomes(s, r.buf - 1, r.http, x, r.req, r.con, d, r.processing, r.mixed, r.late)
    BY <1>1, <1>6, WsPop_Does
  <2>3. /\ f.http = r.http /\ f.ws \in {r.ws, "OPEN", "FINISHED"} /\ f.req = r.req /\ f.con = r.con
        /\ f.mixed = r.mixed /\ \A y \in Sessions : y # s => sess'[y] = sess[y]
    BY <2>2 DEF Becomes, Fields
  <2>4. ~f.mixed => r.con = 1 /\ f.ws # "CLOSED"
    BY <1>2, <2>1, <2>3 DEF Knows
  <2>5. ~f.mixed => Knows(thr'[t].pc, f)
    BY <2>1, <2>3, <2>4 DEF Knows, WsPCs, Moves
  <2> QED BY <1>4, <2>1, <2>3, <2>4, <2>5 DEF Moves
<1>7. CASE WebSocketProcess_DataReturned(t)
  <2>1. /\ thr[t].pc = "wsData" /\ Moves(t, "wsLoop", s, thr[t].ret)
        /\ Becomes(s, r.buf, r.http, "OPEN", r.req, r.con, r.data, r.processing, r.mixed, r.late)
    BY <1>1, <1>7, WsData_Does
  <2>2. /\ f.http = r.http /\ f.ws = "OPEN" /\ f.req = r.req /\ f.con = r.con /\ f.data = r.data
        /\ f.mixed = r.mixed /\ \A y \in Sessions : y # s => sess'[y] = sess[y]
    BY <2>1 DEF Becomes, Fields
  <2>3. ~f.mixed => r.con = 1
    BY <1>2, <2>1, <2>2 DEF Knows
  <2>4. ~f.mixed => Knows("wsLoop", f)
    BY <2>2, <2>3 DEF Knows, WsPCs
  <2> QED BY <1>4, <2>1, <2>2, <2>3, <2>4 DEF Moves
<1>8. CASE WebSocketProcess_End(t)
  <2>1. /\ thr[t].pc = "wsEnd" /\ \E l \in {"erase", "taskEnd"} : Moves(t, l, s, thr[t].ret)
        /\ Becomes(s, r.buf, r.http, r.ws, r.req, r.con, r.data, r.processing, r.mixed, r.late)
    BY <1>1, <1>8, WsEnd_Does
  <2>2. /\ f.http = r.http /\ f.ws = r.ws /\ f.req = r.req /\ f.con = r.con /\ f.data = r.data
        /\ f.mixed = r.mixed /\ \A y \in Sessions : y # s => sess'[y] = sess[y]
    BY <2>1 DEF Becomes, Fields
  <2>3. Knows("erase", f) /\ Knows("taskEnd", f)
    BY DEF Knows, WsPCs
  <2> QED BY <1>2, <1>4, <2>1, <2>2, <2>3 DEF Moves
<1> QED
  BY <1>5, <1>6, <1>7, <1>8

\* Thread t goes on with session s, which it found in the table.
LEMMA FoundCalls ==
  ASSUME IInv, Places, Keys, Left, Calls, NEW t \in Threads,
         \/ t \in Workers /\ (dataReceivedFrom_Lookup(t) \/ WebSocketProcess_Lookup(t))
         \/ finalizeClient_WebSocket(t)
  PROVE  Calls'
<1> DEFINE s == table[Key(t)]
           r == sess[s]
           f == sess'[s]
<1>1. TypeInv
  BY DEF IInv
<1>2. CASE dataReceivedFrom_Lookup(t) /\ t \in Workers /\ s \notin Sessions
  <2>1. Moves(t, "taskEnd", thr[t].cur, thr[t].ret) /\ sess' = sess /\ thr[t].pc = "lookup"
    BY <1>1, <1>2, Lookup_Does
  <2> QED
    BY <2>1, CallsMove DEF Moves, WsPCs
\* Otherwise s goes on as it was, but for its mark.
<1>3. ASSUME s \in Sessions, NEW l, Moves(t, l, s, thr[t].ret), NEW x, NEW m,
             Becomes(s, r.buf, r.http, x, r.req, r.con, r.data, r.processing, m, r.late),
             r.mixed => m,
             r.ws # "CLOSED" => x # "CLOSED", r.ws = "CLOSED" => x = "CLOSED",
             r.ws = "FINISHED" => x = "FINISHED",
             thr[t].pc \notin {"parse", "app", "end"}, ~f.mixed => Knows(l, f)
      PROVE  Calls'
  <2>1. /\ f.http = r.http /\ f.ws = x /\ f.req = r.req /\ f.con = r.con /\ f.data = r.data /\ f.buf = r.buf
        /\ f.mixed = m /\ \A y \in Sessions : y # s => sess'[y] = sess[y]
    BY <1>3 DEF Becomes, Fields
  <2>2. ASSUME ~f.mixed PROVE SessCalls(s) /\ Keeps(f, r)
    BY <1>3, <2>1, <2>2 DEF Calls, Keeps
  <2>3. \A w \in Workers : thr[w].pc \in {"parse", "app", "end"} => thr'[w] = thr[w]
    BY <1>3 DEF Moves, Threads
  <2>4. ASSUME ~f.mixed, NEW y, y = s
        PROVE  /\ f.req <= 1 /\ f.con <= 1
               /\ f.http = "READING" => f.ws = "CLOSED" /\ f.req = 0
               /\ f.ws = "CLOSED" => f.con = 0 /\ f.data = 0
               /\ f.ws # "CLOSED" => f.req = 1 /\ f.http \in {"SEND_RESPONSE", "FINISHED"}
               /\ f.data > 0 => f.con = 1
               /\ f.http = "SEND_REQUEST_TO_APP" /\ f.req = 1 => \E w \in Workers : thr'[w].pc = "app" /\ thr'[w].cur = y
               /\ f.ws # "CLOSED" /\ f.con = 0 => \E w \in Workers : thr'[w].pc \in {"parse", "end"} /\ thr'[w].cur = y
    BY <1>3, <2>1, <2>2, <2>3, <2>4 DEF SessCalls
  <2>5. \A y \in Sessions : y = s /\ ~sess'[y].mixed => SessCalls(y)'
    BY <2>4 DEF SessCalls
  <2>6. \A u \in Threads : u # t /\ thr[u].cur = s /\ s \in Sessions /\ ~sess'[s].mixed => Knows(thr[u].pc, sess'[s])
    BY <2>2, KnowsKept
  <2>7. ThrCalls(t)'
    BY <1>3 DEF ThrCalls, Moves
  <2>8. PICK y : y = s
    OBVIOUS
  <2> QED
    BY <1>3, <2>1, <2>5, <2>6, <2>7, <2>8, CallsStep DEF Moves
\* A worker that is not marked on s has come with the task of s.
<1>4. ASSUME t \in Workers, thr[t].pc \in {"lookup", "enterWs"}, s \in Sessions, ~MixedBy(t, s), r.ws # "CLOSED"
      PROVE  r.con = 1
  <2>1. t \in Threads /\ thr[t].mine = s /\ ~r.mixed /\ SessCalls(s)
    BY <1>1, <1>4, ConstantsAssumption, TaskState DEF MixedBy, Busy, At, Calls, Threads
  <2>2. ASSUME NEW v \in Workers, thr[v].pc \in {"parse", "end"}, thr[v].cur = s PROVE FALSE
    <3>1. Busy(v) /\ Busy(t) /\ thr[v].mine = s
      BY <1>4, <2>1, <2>2 DEF IInv, Told, Busy, At, Cur
    <3>2. v = t
      BY <1>4, <2>1, <3>1 DEF IInv, Tasks
    <3> QED BY <1>4, <2>2, <3>2
  <2> QED
    BY <1>1, <1>4, <2>1, <2>2, RecType DEF SessCalls
<1>5. CASE dataReceivedFrom_Lookup(t) /\ t \in Workers /\ s \in Sessions
  <2>1. /\ thr[t].pc = "lookup" /\ Moves(t, IF r.ws = "CLOSED" THEN "parse" ELSE "enterWs", s, thr[t].ret)
        /\ Becomes(s, r.buf, r.http, r.ws, r.req, r.con, r.data, r.processing, MixedBy(t, s), r.late)
    BY <1>1, <1>5, Lookup_Does
  <2>2. f.ws = r.ws /\ f.con = r.con /\ f.mixed = MixedBy(t, s) /\ (r.mixed => MixedBy(t, s))
    BY <2>1 DEF Becomes, Fields, MixedBy
  <2>3. ASSUME ~f.mixed PROVE Knows(IF r.ws = "CLOSED" THEN "parse" ELSE "enterWs", f)
    <3>1. ~r.mixed /\ SessCalls(s)
      BY <1>5, <2>2, <2>3 DEF Calls
    <3> QED
      BY <1>4, <1>5, <2>1, <2>2, <2>3, <3>1 DEF Knows, SessCalls, WsPCs
  <2> QED BY <1>3, <1>5, <2>1, <2>2, <2>3
<1>6. CASE WebSocketProcess_Lookup(t) /\ t \in Workers
  <2>1. /\ thr[t].pc = "enterWs" /\ s \in Sessions /\ Moves(t, "wsLoop", s, thr[t].ret)
        /\ Becomes(s, r.buf, r.http, r.ws, r.req, r.con, r.data, r.processing, MixedBy(t, s), r.late)
    BY <1>1, <1>6, WsLookup_Does
  <2>2. f.ws = r.ws /\ f.con = r.con /\ f.mixed = MixedBy(t, s) /\ (r.mixed => MixedBy(t, s))
    BY <2>1 DEF Becomes, Fields, MixedBy
  <2>3. ASSUME ~f.mixed PROVE r.ws # "CLOSED"
    <3>1. Busy(t) /\ thr[t].mine = s /\ ~r.mixed /\ thr[t].cur \in Sessions /\ Key(t) \in Sockets
      BY <1>1, <1>6, <2>1, <2>2, <2>3, ConstantsAssumption, TaskState, KeyType
      DEF MixedBy, Busy, At, Places, PlaceOK
    <3>2. thr[t].cur = s
      BY <1>6, <3>1 DEF Left, Cur
    <3> QED
      BY <2>1, <3>1, <3>2 DEF Calls, ThrCalls, Knows
  <2>4. ~f.mixed => Knows("wsLoop", f)
    BY <1>4, <1>6, <2>1, <2>2, <2>3 DEF Knows, WsPCs
  <2> QED BY <1>3, <2>1, <2>2, <2>4
<1>7. CASE finalizeClient_WebSocket(t)
  <2>1. /\ thr[t].pc = "finalize" /\ s \in Sessions /\ r.ws # "CLOSED" /\ Moves(t, "wsLoop", s, thr[t].ret)
        /\ Becomes(s, r.buf, r.http, "FINISHED", r.req, r.con, r.data, r.processing, MixedBy(t, s), r.late)
    BY <1>1, <1>7, FinalizeWs_Does
  <2>2. f.ws = "FINISHED" /\ (r.mixed => MixedBy(t, s))
    BY <2>1 DEF Becomes, Fields, MixedBy
  <2>3. Knows("wsLoop", f)
    BY <2>2 DEF Knows, WsPCs
  <2> QED BY <1>3, <2>1, <2>2, <2>3
<1> QED
  BY <1>2, <1>5, <1>6, <1>7

\* The listener appends to a session, or a new session is made, or a task ends.
LEMMA LifeCalls ==
  ASSUME IInv, Places, Calls, NEW t \in Threads,
         \/ t \in Clients /\ Listener_Append(t)
         \/ initializeClient_Insert(t)
         \/ t \in Workers /\ Task_End(t)
  PROVE  Calls'
<1>1. TypeInv
  BY DEF IInv
\* The session s changes in nothing that the calls depend on.
<1>2. ASSUME NEW s \in Sessions, NEW b, NEW p, NEW l, sess[s].http = "READING" /\ sess[s].buf > 0 => b > 0,
             Becomes(s, b, sess[s].http, sess[s].ws, sess[s].req, sess[s].con, sess[s].data, p, sess[s].mixed, l),
             NEW g, Moves(t, g, thr[t].cur, thr[t].ret),
             thr[t].pc \notin {"parse", "app", "end"}, g \in {"tcp", "idle"}
      PROVE  Calls'
  <2> DEFINE r == sess[s]
             f == sess'[s]
  <2>1. /\ f.http = r.http /\ f.ws = r.ws /\ f.req = r.req /\ f.con = r.con /\ f.data = r.data /\ f.buf = b
        /\ f.mixed = r.mixed /\ \A y \in Sessions : y # s => sess'[y] = sess[y]
    BY <1>2 DEF Becomes, Fields
  <2>2. \A w \in Workers : thr[w].pc \in {"parse", "app", "end"} => thr'[w] = thr[w]
    BY <1>2 DEF Moves, Threads
  <2>3. ~f.mixed => SessCalls(s)'
    BY <2>1, <2>2 DEF SessCalls, Calls
  <2>4. Keeps(f, r)
    BY <1>2, <2>1 DEF Keeps
  <2>5. \A u \in Threads : u # t /\ thr[u].cur = s /\ s \in Sessions /\ ~sess'[s].mixed => Knows(thr[u].pc, sess'[s])
    BY <2>4, KnowsKept
  <2>6. ThrCalls(t)'
    BY <1>2 DEF ThrCalls, Moves, Knows, WsPCs
  <2> QED
    BY <1>2, <2>1, <2>3, <2>5, <2>6, CallsStep DEF Moves
<1>3. CASE t \in Clients /\ Listener_Append(t)
  <2> DEFINE s == thr[t].cur
             r == sess[s]
  <2>1. thr[t].pc = "append" /\ s \in Sessions /\ Moves(t, "tcp", s, thr[t].ret)
    BY <1>1, <1>3, ListenAppend_Does
  <2>2. PICK b \in Nat \ {0} :
          \E p, l : Becomes(s, b, r.http, r.ws, r.req, r.con, r.data, p, r.mixed, l)
    BY <1>1, <1>3, ListenAppend_Does
  <2>3. PICK p, l : Becomes(s, b, r.http, r.ws, r.req, r.con, r.data, p, r.mixed, l)
    BY <2>2
  <2>4. b > 0 /\ thr[t].pc \notin {"parse", "app", "end"} /\ "tcp" \in {"tcp", "idle"}
    BY <2>1
  <2> QED
    BY <1>2, <2>1, <2>3, <2>4, Zenon
<1>4. CASE t \in Workers /\ Task_End(t)
  BY <1>1, <1>2, <1>4, Task_End_Does
<1>5. CASE initializeClient_Insert(t)
  <2>1. PICK s \in Sessions :
          /\ sess[s].owner = None /\ sess'[s] = FreshState(thr[t].cli)
          /\ \A y \in Sessions : y # s => sess'[y] = sess[y]
    BY <1>1, <1>5, Insert_Does
  <2>2. /\ thr[t].pc = "insert" /\ thr'[t].pc \in {"tcp", "relook"}
        /\ \A u \in Threads : u # t => thr'[u] = thr[u]
    BY <1>1, <1>5, Insert_Does DEF Moves
  <2>3. SessCalls(s)'
    BY <2>1 DEF SessCalls, FreshState
  <2>4. \A u \in Threads : thr[u].cur # s
    BY <2>1 DEF IInv, Owned
  <2>5. ThrCalls(t)'
    BY <2>2 DEF ThrCalls, Knows, WsPCs
  <2> QED
    BY <2>1, <2>2, <2>3, <2>4, <2>5, CallsStep
<1> QED
  BY <1>3, <1>4, <1>5

\* Every step keeps the calls in order.
LEMMA Calls_Step ==
  ASSUME IInv, Places, Keys, Left, Calls, [Next]_vars
  PROVE  Calls'
<1>1. TypeInv /\ \A t : (t \in Clients \/ t \in Workers) => t \in Threads
  BY DEF IInv, Threads
<1>2. ASSUME sess' = sess, thr' = thr PROVE Calls'
  BY <1>2 DEF Calls, SessCalls, ThrCalls
<1>3. ASSUME NEW c \in Clients, Close(c) PROVE Calls'
  BY <1>1, <1>2, <1>3, Close_Does
<1>4. ASSUME NEW c \in Clients, Listener_Count(c) \/ Listener_Lookup(c) PROVE Calls'
  BY <1>1, <1>2, <1>4, CallsMove, ListenCount_Does, ListenLookup_Does DEF Moves, WsPCs
<1>5. ASSUME NEW c \in Clients, Connect(c) \/ Disconnected(c) PROVE Calls'
  <2>1. thr[c].pc = "tcp"
    BY <1>1, <1>5, Connect_Does, Disconnected_Does DEF Places, PlaceOK
  <2> QED
    BY <1>1, <1>5, <2>1, CallsMove, Connect_Does, Disconnected_Does DEF Moves, WsPCs
<1>6. ASSUME NEW t \in Threads, initializeClient_Count(t) PROVE Calls'
  BY <1>1, <1>6, CallsMove, InitCount_Does DEF Moves, WsPCs
<1>7. ASSUME NEW t \in Threads, finalizeClient_Plain(t) \/ finalizeClient_Erase(t) PROVE Calls'
  <2>1. /\ thr[t].pc \in {"finalize", "erase"} /\ sess' = sess
        /\ Moves(t, thr[t].ret, thr[t].cur, thr[t].ret)
    BY <1>1, <1>7, Plain_Does, Erase_Does
  <2>2. thr[t].ret \in {"gone", "insert", "initialize"}
    BY <2>1 DEF Places, PlaceOK, Threads
  <2> QED
    BY <2>1, <2>2, CallsMove DEF Moves, WsPCs
<1>8. ASSUME NEW w \in Workers, Task_Start(w) PROVE Calls'
  BY <1>1, <1>8, CallsMove, Task_Start_Does DEF WsPCs
<1>9. ASSUME NEW w \in Workers, Task_Check(w) \/ dataReceivedFrom_Count(w) PROVE Calls'
  BY <1>1, <1>9, CallsMove, Task_Check_Does, Count_Does DEF Moves, WsPCs
<1>10. ASSUME NEW w \in Workers, endHttpRequest_Relook(w) PROVE Calls'
  BY <1>1, <1>10, CallsMove, Relook_Does DEF Moves, WsPCs
<1>11. CASE Still
  BY <1>2, <1>11 DEF Still
<1> QED
  BY <1>1, <1>3, <1>4, <1>5, <1>6, <1>7, <1>8, <1>9, <1>10, <1>11, StepCases, ParseCalls, WsCalls, FoundCalls, LifeCalls

-----------------------------------------------------------------------------
(* What a step can do to a client's thread, to a worker, to the table and  *)
(* to the connections.                                                     *)

\* The actions of a worker that neither finalize nor initialize nor read a websocket.
LEMMA WorkerStep ==
  ASSUME TypeInv, NEW w \in Workers,
         \/ Task_Start(w) \/ Task_Check(w) \/ Task_End(w)
         \/ dataReceivedFrom_Count(w) \/ dataReceivedFrom_Lookup(w) \/ dataReceivedFrom_Loop(w)
         \/ dataReceivedFrom_Pop(w) \/ dataReceivedFrom_CallApp(w)
         \/ dataReceivedFrom_AppReturned(w) \/ dataReceivedFrom_Respond(w)
         \/ endHttpRequest_WebSocket(w) \/ endHttpRequest_KeepAlive(w)
         \/ endHttpRequest_Close(w) \/ endHttpRequest_Relook(w) \/ WebSocketProcess_Lookup(w)
  PROVE  /\ thr[w].pc \in WorkerPCs
         /\ \A u \in Threads : u # w => thr'[u] = thr[u]
         /\ \A k \in Sockets : table'[k] = table[k] \/ (table[k] = None /\ table'[k] = Null)
         /\ \A c \in Clients : conn'[c] = conn[c] \/ (conn[c] = "up" /\ conn'[c] = "down")
<1>1. w \in Threads
  BY DEF Threads
<1>2. thr[w].pc \in WorkerPCs
  BY DEF Task_Start, Task_Check, Task_End, dataReceivedFrom_Count, dataReceivedFrom_Lookup,
    dataReceivedFrom_Loop, dataReceivedFrom_Pop, dataReceivedFrom_CallApp, dataReceivedFrom_AppReturned,
    dataReceivedFrom_Respond, endHttpRequest_WebSocket, endHttpRequest_KeepAlive, endHttpRequest_Close,
    endHttpRequest_Relook, WebSocketProcess_Lookup, At, WorkerPCs
<1>3. \A u \in Threads : u # w => thr'[u] = thr[u]
  <2>1. ASSUME NEW l, Goto(w, l) PROVE \A u \in Threads : u # w => thr'[u] = thr[u]
    BY <1>1, <2>1, GotoMoves DEF Moves
  <2>2. ASSUME NEW s, NEW l, Attend(w, s, l) PROVE \A u \in Threads : u # w => thr'[u] = thr[u]
    BY <1>1, <2>2, CurMoves DEF Attend, Moves
  <2>3. CASE Task_Start(w) \/ endHttpRequest_KeepAlive(w)
    BY <2>3, Task_Start_Does, KeepAlive_Does DEF Moves
  <2> QED
    BY <2>1, <2>2, <2>3
    DEF Task_Check, Task_End, dataReceivedFrom_Count, dataReceivedFrom_Lookup, dataReceivedFrom_Loop,
      dataReceivedFrom_Pop, dataReceivedFrom_CallApp, dataReceivedFrom_AppReturned, dataReceivedFrom_Respond,
      endHttpRequest_WebSocket, endHttpRequest_Close, endHttpRequest_Relook, WebSocketProcess_Lookup
<1>4. \A k \in Sockets : table'[k] = table[k] \/ (table[k] = None /\ table'[k] = Null)
  <2>1. CASE dataReceivedFrom_Lookup(w) \/ endHttpRequest_Relook(w)
    BY <2>1, Lookup_Does, Relook_Does DEF Subscripted
  <2> QED
    BY <2>1
    DEF Task_Start, Task_Check, Task_End, dataReceivedFrom_Count, dataReceivedFrom_Loop,
      dataReceivedFrom_Pop, dataReceivedFrom_CallApp, dataReceivedFrom_AppReturned, dataReceivedFrom_Respond,
      endHttpRequest_WebSocket, endHttpRequest_KeepAlive, endHttpRequest_Close, WebSocketProcess_Lookup
<1>5. \A c \in Clients : conn'[c] = conn[c] \/ (conn[c] = "up" /\ conn'[c] = "down")
  <2>1. CASE endHttpRequest_Close(w)
    BY <2>1, EndClose_Does DEF Falls
  <2> QED
    BY <2>1
    DEF Task_Start, Task_Check, Task_End, dataReceivedFrom_Count, dataReceivedFrom_Lookup, dataReceivedFrom_Loop,
      dataReceivedFrom_Pop, dataReceivedFrom_CallApp, dataReceivedFrom_AppReturned, dataReceivedFrom_Respond,
      endHttpRequest_WebSocket, endHttpRequest_KeepAlive, endHttpRequest_Relook, WebSocketProcess_Lookup
<1> QED
  BY <1>2, <1>3, <1>4, <1>5

\* Thread t reads a websocket.
LEMMA WsStep ==
  ASSUME TypeInv, Places, NEW t \in Threads,
         \/ WebSocketProcess_Loop(t) \/ WebSocketProcess_Pop(t)
         \/ WebSocketProcess_DataReturned(t) \/ WebSocketProcess_End(t)
  PROVE  /\ thr[t].pc \in WsPCs /\ thr[t].cur \in Sessions
         /\ \E l \in {"wsLoop", "wsPop", "wsData", "wsEnd", IF mapLock = t THEN "erase" ELSE "taskEnd"} :
              Moves(t, l, thr[t].cur, thr[t].ret)
         /\ Falls /\ UNCHANGED <<table, mapLock, tasks>>
<1>1. thr[t].pc \in WsPCs /\ thr[t].cur \in Sessions
  BY DEF WebSocketProcess_Loop, WebSocketProcess_Pop, WebSocketProcess_DataReturned, WebSocketProcess_End,
       At, WsPCs, Places, PlaceOK
<1>2. CASE WebSocketProcess_Loop(t)
  BY <1>1, <1>2, WsLoop_Does DEF Falls
<1>3. CASE WebSocketProcess_Pop(t)
  <2>1. \E l \in {"wsLoop", "wsData"} : Moves(t, l, thr[t].cur, thr[t].ret)
    BY <1>1, <1>3, WsPop_Does
  <2>2. UNCHANGED <<conn, table, mapLock, tasks>>
    BY <1>1, <1>3, WsPop_Does
  <2> QED BY <1>1, <2>1, <2>2 DEF Falls
<1>4. CASE WebSocketProcess_DataReturned(t)
  BY <1>1, <1>4, WsData_Does DEF Falls
<1>5. CASE WebSocketProcess_End(t)
  BY <1>1, <1>5, WsEnd_Does
<1> QED
  BY <1>2, <1>3, <1>4, <1>5

Listening == {"tcp", "listen", "append"}

\* The way of a client's thread.
ClientFlow(c) ==
  \/ thr'[c] = thr[c]
  \/ Connect(c) /\ thr'[c].pc = "initialize"
  \/ conn[c] = "down" /\ thr[c].pc = "tcp" /\ thr'[c].pc = "finalize" /\ thr'[c].ret = "gone"
  \/ thr[c].pc \in Listening /\ thr'[c].pc \in Listening
  \/ initializeClient_Insert(c) /\ thr[c].pc = "insert" /\ thr'[c].pc = "tcp"
  \/ thr[c].pc = "initialize" /\ (thr'[c].pc = "insert" \/ (thr'[c].pc = "finalize" /\ thr'[c].ret = "insert"))
  \/ thr[c].pc \in {"finalize"} \cup WsPCs /\ thr'[c].pc \in {"erase"} \cup WsPCs /\ thr'[c].ret = thr[c].ret
  \/ thr[c].pc \in {"finalize", "erase"} /\ thr'[c].pc = thr[c].ret

\* Every step moves a client's thread along its way.
LEMMA ClientFlows ==
  ASSUME TypeInv, Places, [Next]_vars, NEW c \in Clients
  PROVE  ClientFlow(c)
<1> USE DEF ClientFlow, Moves, Listening
<1>1. c \in Threads /\ c \notin Workers /\ \A d \in Clients : d \in Threads
  BY ConstantsAssumption DEF Threads
<1>2. ASSUME NEW d \in Clients, Connect(d) \/ Close(d) \/ Disconnected(d) \/ Listener_Count(d) PROVE ClientFlow(c)
  BY <1>1, <1>2, Connect_Does, Close_Does, Disconnected_Does, ListenCount_Does
<1>3. ASSUME NEW d \in Clients, Listener_Lookup(d) \/ Listener_Append(d) PROVE ClientFlow(c)
  BY <1>1, <1>3, ListenLookup_Does, ListenAppend_Does
<1>4. ASSUME NEW t \in Threads, initializeClient_Count(t) PROVE ClientFlow(c)
  BY <1>1, <1>4, InitCount_Does
<1>5. ASSUME NEW t \in Threads, initializeClient_Insert(t) PROVE ClientFlow(c)
  BY <1>1, <1>5, Insert_Does
<1>6. ASSUME NEW t \in Threads, finalizeClient_Plain(t) \/ finalizeClient_Erase(t) PROVE ClientFlow(c)
  BY <1>1, <1>6, Plain_Does, Erase_Does
<1>7. ASSUME NEW t \in Threads, finalizeClient_WebSocket(t) PROVE ClientFlow(c)
  BY <1>1, <1>7, FinalizeWs_Does DEF WsPCs
<1>8. ASSUME NEW t \in Threads, \/ WebSocketProcess_Loop(t) \/ WebSocketProcess_Pop(t)
                                \/ WebSocketProcess_DataReturned(t) \/ WebSocketProcess_End(t)
      PROVE  ClientFlow(c)
  <2>1. CASE t = c
    BY <1>1, <1>8, <2>1, WsStep DEF Places, PlaceOK, WsPCs
  <2>2. CASE t # c
    BY <1>1, <1>8, <2>2, WsStep
  <2> QED BY <2>1, <2>2
<1>9. ASSUME NEW w \in Workers, \A u \in Threads : u # w => thr'[u] = thr[u] PROVE ClientFlow(c)
  BY <1>1, <1>9
<1>10. CASE Still
  BY <1>10 DEF Still
<1> QED
  BY <1>2, <1>3, <1>4, <1>5, <1>6, <1>7, <1>8, <1>9, <1>10, StepCases, WorkerStep

\* A connection is made by Connect and lost once.
LEMMA ConnFlows ==
  ASSUME TypeInv, Places, [Next]_vars, NEW c \in Clients
  PROVE  conn'[c] = conn[c] \/ (conn[c] = "up" /\ conn'[c] = "down") \/ Connect(c)
<1>1. ASSUME NEW d \in Clients, Connect(d) PROVE conn'[c] = conn[c] \/ Connect(c)
  BY <1>1, Connect_Does
<1>2. CASE Falls
  BY <1>2 DEF Falls
<1>3. CASE conn' = conn
  BY <1>3
<1>4. ASSUME NEW d \in Clients, \/ Close(d) \/ Disconnected(d)
                                \/ Listener_Count(d) \/ Listener_Lookup(d) \/ Listener_Append(d)
      PROVE  Falls \/ conn' = conn
  BY <1>4, Close_Does DEF Disconnected, Listener_Count, Listener_Lookup, Listener_Append
<1>5. ASSUME NEW t \in Threads, \/ initializeClient_Count(t) \/ initializeClient_Insert(t)
                                \/ finalizeClient_Plain(t) \/ finalizeClient_WebSocket(t) \/ finalizeClient_Erase(t)
      PROVE  conn' = conn
  BY <1>5 DEF initializeClient_Count, initializeClient_Insert,
    finalizeClient_Plain, finalizeClient_WebSocket, finalizeClient_Erase
<1> QED
  BY <1>1, <1>2, <1>3, <1>4, <1>5, StepCases, WorkerStep, WsStep DEF Still

\* The entry of socket number k.
TableFlow(k) ==
  \/ table'[k] = table[k]
  \/ table[k] = None /\ table'[k] = Null
  \/ \E t \in Threads : /\ thr[t].pc \in {"finalize", "erase"} /\ Key(t) = k /\ table'[k] = None
                        /\ Moves(t, thr[t].ret, thr[t].cur, thr[t].ret)
                        /\ UNCHANGED <<conn, sess, tasks>>
  \/ \E t \in Threads : initializeClient_Insert(t) /\ Key(t) = k

\* Every step changes an entry in one of these ways.
LEMMA TableFlows ==
  ASSUME TypeInv, Places, [Next]_vars, NEW k \in Sockets
  PROVE  TableFlow(k)
<1> USE DEF TableFlow
<1>1. CASE table' = table
  BY <1>1
<1>2. ASSUME NEW c \in Clients, \/ Connect(c) \/ Close(c) \/ Disconnected(c)
                                \/ Listener_Count(c) \/ Listener_Lookup(c) \/ Listener_Append(c)
      PROVE  TableFlow(k)
  <2>1. CASE Listener_Lookup(c)
    BY <2>1, ListenLookup_Does DEF Subscripted
  <2> QED
    BY <1>1, <1>2, <2>1 DEF Connect, Close, Disconnected, Listener_Count, Listener_Append
<1>3. ASSUME NEW t \in Threads, initializeClient_Insert(t) PROVE TableFlow(k)
  BY <1>3, Insert_Does
<1>4. ASSUME NEW t \in Threads, finalizeClient_Plain(t) \/ finalizeClient_Erase(t) PROVE TableFlow(k)
  <2>1. /\ thr[t].pc \in {"finalize", "erase"} /\ Moves(t, thr[t].ret, thr[t].cur, thr[t].ret)
        /\ Erased(t) /\ conn' = conn /\ sess' = sess /\ tasks' = tasks
    BY <1>4, Plain_Does, Erase_Does
  <2> QED BY <2>1 DEF Erased
<1>5. ASSUME NEW t \in Threads, \/ initializeClient_Count(t) \/ finalizeClient_WebSocket(t)
                                \/ WebSocketProcess_Loop(t) \/ WebSocketProcess_Pop(t)
                                \/ WebSocketProcess_DataReturned(t) \/ WebSocketProcess_End(t)
      PROVE  TableFlow(k)
  BY <1>1, <1>5 DEF initializeClient_Count, finalizeClient_WebSocket, WebSocketProcess_Loop, WebSocketProcess_Pop,
       WebSocketProcess_DataReturned, WebSocketProcess_End
<1>6. CASE Still
  BY <1>6 DEF Still
<1> QED
  BY <1>2, <1>3, <1>4, <1>5, <1>6, StepCases, WorkerStep

-----------------------------------------------------------------------------
(* The worker that answers a client.                                       *)

\* Worker w works with the entry of its client: it attends the session or finalizes it.
Holding(w) ==
  \/ thr[w].pc \in {"parse", "pop", "app", "end", "enterWs", "erase"} \cup WsPCs
  \/ thr[w].pc = "finalize" /\ thr[w].ret = "initialize"

Engaged(w) == Holding(w) \/ Swapping(w)

\* The way of a worker.
WorkerFlow(w) ==
  \/ thr'[w] = thr[w]
  \/ thr[w].pc = "idle" /\ thr'[w].pc = "check"
  \/ /\ thr[w].pc # "idle" /\ thr'[w].cli = thr[w].cli /\ thr'[w].mine = thr[w].mine
     /\ \/ /\ ~Engaged(w)' /\ (thr'[w].pc = "relook" => Swapping(w))
           /\ thr'[w].pc = "idle" => Task_End(w) \/ conn[thr[w].cli] # "up"
           /\ Swapping(w) => table'[Key(w)] \in Sessions
        \/ Swapping(w) /\ Swapping(w)'
        \/ Holding(w) /\ Swapping(w)' /\ table'[Key(w)] \notin Sessions
        \/ Holding(w) /\ Holding(w)' /\ thr'[w].cur \in {thr[w].cur, table[Key(w)]}
        \/ Swapping(w) /\ Holding(w)' /\ table[Key(w)] \in Sessions
        \/ /\ thr[w].pc = "lookup" /\ Holding(w)'
           /\ thr'[w].cur \in Sessions /\ thr'[w].cur = table[Key(w)]
           /\ sess'[thr'[w].cur].mixed \/ thr[w].mine = thr'[w].cur

\* The actions that move worker w.
LEMMA OwnStep ==
  ASSUME TypeInv, Places, [Next]_vars, NEW w \in Workers, thr'[w] # thr[w]
  PROVE  \/ initializeClient_Count(w) \/ initializeClient_Insert(w)
         \/ finalizeClient_Plain(w) \/ finalizeClient_WebSocket(w) \/ finalizeClient_Erase(w)
         \/ WebSocketProcess_Loop(w) \/ WebSocketProcess_Pop(w)
         \/ WebSocketProcess_DataReturned(w) \/ WebSocketProcess_End(w)
         \/ Task_Start(w) \/ Task_Check(w) \/ Task_End(w)
         \/ dataReceivedFrom_Count(w) \/ dataReceivedFrom_Lookup(w) \/ dataReceivedFrom_Loop(w)
         \/ dataReceivedFrom_Pop(w) \/ dataReceivedFrom_CallApp(w)
         \/ dataReceivedFrom_AppReturned(w) \/ dataReceivedFrom_Respond(w)
         \/ endHttpRequest_WebSocket(w) \/ endHttpRequest_KeepAlive(w)
         \/ endHttpRequest_Close(w) \/ endHttpRequest_Relook(w) \/ WebSocketProcess_Lookup(w)
<1>1. w \in Threads /\ w \notin Clients /\ \A t : (t \in Clients \/ t \in Workers) => t \in Threads
  BY ConstantsAssumption DEF Threads
<1>2. ASSUME NEW d \in Clients, \/ Connect(d) \/ Close(d) \/ Disconnected(d) \/ Listener_Count(d)
                                \/ Listener_Lookup(d) \/ Listener_Append(d)
      PROVE thr'[w] = thr[w]
  <2>1. CASE Connect(d) \/ Close(d) \/ Disconnected(d) \/ Listener_Count(d)
    BY <1>1, <2>1, Connect_Does, Close_Does, Disconnected_Does, ListenCount_Does DEF Moves
  <2>2. CASE Listener_Lookup(d) \/ Listener_Append(d)
    BY <1>1, <2>2, ListenLookup_Does, ListenAppend_Does DEF Moves
  <2> QED BY <1>2, <2>1, <2>2
<1>3. ASSUME NEW t \in Threads, t # w, \/ initializeClient_Count(t) \/ initializeClient_Insert(t)
                                       \/ finalizeClient_Plain(t) \/ finalizeClient_Erase(t) \/ finalizeClient_WebSocket(t)
      PROVE  thr'[w] = thr[w]
  BY <1>1, <1>3, InitCount_Does, Insert_Does, Plain_Does, Erase_Does, FinalizeWs_Does DEF Moves
<1>4. ASSUME NEW t \in Threads, t # w, \/ WebSocketProcess_Loop(t) \/ WebSocketProcess_Pop(t)
                                       \/ WebSocketProcess_DataReturned(t) \/ WebSocketProcess_End(t)
      PROVE  thr'[w] = thr[w]
  BY <1>1, <1>4, WsStep DEF Moves
<1>5. ASSUME NEW v \in Workers, v # w, \A u \in Threads : u # v => thr'[u] = thr[u]
      PROVE  thr'[w] = thr[w]
  BY <1>1, <1>5
<1>6. ~Still
  BY DEF Still
<1> QED
  BY <1>2, <1>3, <1>4, <1>5, <1>6, StepCases, WorkerStep

\* Every step moves a worker along its way.
LEMMA WorkerFlows ==
  ASSUME TypeInv, Places, [Next]_vars, NEW w \in Workers
  PROVE  WorkerFlow(w)
<1>1. w \in Threads /\ w \notin Clients /\ \A t : (t \in Clients \/ t \in Workers) => t \in Threads
  BY ConstantsAssumption DEF Threads
<1>2. ASSUME thr'[w] = thr[w] PROVE WorkerFlow(w)
  BY <1>2 DEF WorkerFlow
<1>3. ASSUME initializeClient_Count(w) PROVE WorkerFlow(w)
  <2>1. /\ thr[w].pc = "initialize" /\ thr'[w].cli = thr[w].cli /\ thr'[w].mine = thr[w].mine
        /\ thr'[w].pc = "insert" \/ (thr'[w].pc = "finalize" /\ thr'[w].ret = "insert")
    BY <1>1, <1>3, InitCount_Does DEF Moves
  <2>2. Swapping(w) /\ Swapping(w)'
    BY <2>1 DEF Swapping, At
  <2> QED BY <2>1, <2>2 DEF WorkerFlow
<1>4. ASSUME initializeClient_Insert(w) PROVE WorkerFlow(w)
  <2>1. /\ thr[w].pc = "insert" /\ thr'[w].pc = "relook" /\ thr'[w].cli = thr[w].cli /\ thr'[w].mine = thr[w].mine
    BY <1>1, <1>4, Insert_Does DEF Moves
  <2>2. table'[Key(w)] \in Sessions
    BY <1>1, <1>4, Insert_Does
  <2>3. ~Engaged(w)' /\ Swapping(w)
    BY <2>1 DEF Engaged, Holding, Swapping, At, WsPCs
  <2> QED BY <2>1, <2>3, <2>2 DEF WorkerFlow
<1>5. ASSUME finalizeClient_Plain(w) \/ finalizeClient_Erase(w) PROVE WorkerFlow(w)
  <2>1. /\ thr[w].pc \in {"finalize", "erase"} /\ Moves(w, thr[w].ret, thr[w].cur, thr[w].ret)
        /\ Erased(w)
    BY <1>1, <1>5, Plain_Does, Erase_Does
  <2>2. thr[w].ret \in {"initialize", "insert"} /\ Key(w) \in Sockets /\ thr[w].pc # "idle"
    BY <1>1, <2>1, KeyType DEF Places, PlaceOK, At
  <2>3. Swapping(w)' /\ table'[Key(w)] = None
    BY <2>1, <2>2 DEF Swapping, Moves, Erased
  <2>4. Holding(w) \/ Swapping(w)
    BY <2>1, <2>2 DEF Holding, Swapping, At
  <2> QED BY <2>1, <2>2, <2>3, <2>4, ConstantsAssumption DEF WorkerFlow, Moves
<1>6. ASSUME finalizeClient_WebSocket(w) PROVE WorkerFlow(w)
  <2>1. /\ thr[w].pc = "finalize" /\ table[Key(w)] \in Sessions
        /\ Moves(w, "wsLoop", table[Key(w)], thr[w].ret)
    BY <1>1, <1>6, FinalizeWs_Does
  <2>2. thr[w].ret \in {"initialize", "insert"}
    BY <1>1, <2>1 DEF Places, PlaceOK
  <2>3. Holding(w)' /\ (Holding(w) \/ Swapping(w))
    BY <2>1, <2>2 DEF Holding, Swapping, At, Moves, WsPCs
  <2> QED BY <2>1, <2>3 DEF WorkerFlow, Moves
<1>7. ASSUME \/ WebSocketProcess_Loop(w) \/ WebSocketProcess_Pop(w)
             \/ WebSocketProcess_DataReturned(w) \/ WebSocketProcess_End(w)
      PROVE  WorkerFlow(w)
  <2>1. thr[w].pc \in WsPCs
    BY <1>1, <1>7, WsStep
  <2>2. PICK l \in {"wsLoop", "wsPop", "wsData", "wsEnd", "erase", "taskEnd"} : Moves(w, l, thr[w].cur, thr[w].ret)
    BY <1>1, <1>7, WsStep
  <2>3. Holding(w) /\ ~Swapping(w) /\ thr[w].pc # "idle"
    BY <2>1 DEF Holding, Swapping, At, WsPCs
  <2>4. Holding(w)' \/ (~Engaged(w)' /\ thr'[w].pc \notin {"relook", "idle"})
    BY <2>2 DEF Holding, Engaged, Swapping, At, WsPCs, Moves
  <2> QED BY <2>2, <2>3, <2>4 DEF WorkerFlow, Moves
<1>8. ASSUME Task_Start(w) PROVE WorkerFlow(w)
  BY <1>8, Task_Start_Does DEF WorkerFlow
<1>9. ASSUME Task_Check(w) \/ Task_End(w) \/ dataReceivedFrom_Count(w) \/ endHttpRequest_Relook(w) PROVE WorkerFlow(w)
  <2>1. /\ thr[w].pc \in {"check", "taskEnd", "count", "relook"}
        /\ thr'[w].pc \in {"count", "idle", "lookup", "taskEnd"}
        /\ thr'[w].cli = thr[w].cli /\ thr'[w].mine = thr[w].mine
    BY <1>9, Task_Check_Does, Task_End_Does, Count_Does, Relook_Does DEF Moves
  <2>2. ~Engaged(w)' /\ ~Swapping(w)
    BY <2>1 DEF Engaged, Holding, Swapping, At, WsPCs
  <2>3. thr'[w].pc = "idle" => Task_End(w) \/ conn[thr[w].cli] # "up"
    BY <1>9, Task_Check_Does, Count_Does, Relook_Does DEF Moves
  <2> QED BY <2>1, <2>2, <2>3 DEF WorkerFlow
<1>10. ASSUME dataReceivedFrom_Loop(w) \/ endHttpRequest_KeepAlive(w) \/ endHttpRequest_Close(w) PROVE WorkerFlow(w)
  <2>1. /\ thr[w].pc \in {"parse", "end"}
        /\ thr'[w].pc \in {"pop", "taskEnd"} \/ (thr'[w].pc = "finalize" /\ thr'[w].ret = "initialize")
        /\ thr'[w].cli = thr[w].cli /\ thr'[w].mine = thr[w].mine /\ thr'[w].cur = thr[w].cur
    BY <1>10, Loop_Does, KeepAlive_Does, EndClose_Does DEF Moves
  <2>2. Holding(w) /\ ~Swapping(w) /\ (Holding(w)' \/ (~Engaged(w)' /\ thr'[w].pc \notin {"relook", "idle"}))
    BY <2>1 DEF Engaged, Holding, Swapping, At, WsPCs
  <2> QED BY <2>1, <2>2 DEF WorkerFlow
<1>11. ASSUME \/ dataReceivedFrom_Pop(w) \/ dataReceivedFrom_CallApp(w) \/ dataReceivedFrom_AppReturned(w)
              \/ dataReceivedFrom_Respond(w) \/ endHttpRequest_WebSocket(w)
       PROVE  WorkerFlow(w)
  <2>1. thr[w].pc \in {"parse", "pop", "app", "end"}
    BY <1>11 DEF dataReceivedFrom_Pop, dataReceivedFrom_CallApp, dataReceivedFrom_AppReturned,
      dataReceivedFrom_Respond, endHttpRequest_WebSocket, At
  <2>2. \E l \in {"parse", "app", "end", "taskEnd"} : Moves(w, l, thr[w].cur, thr[w].ret)
    BY <1>1, <1>11, GotoMoves DEF dataReceivedFrom_Pop, dataReceivedFrom_CallApp, dataReceivedFrom_AppReturned,
      dataReceivedFrom_Respond, endHttpRequest_WebSocket
  <2>3. Holding(w) /\ ~Swapping(w) /\ (Holding(w)' \/ (~Engaged(w)' /\ thr'[w].pc \notin {"relook", "idle"}))
    BY <2>1, <2>2 DEF Engaged, Holding, Swapping, At, WsPCs, Moves
  <2> QED BY <2>1, <2>2, <2>3 DEF WorkerFlow, Moves
<1>12. ASSUME dataReceivedFrom_Lookup(w) PROVE WorkerFlow(w)
  <2> DEFINE s == table[Key(w)]
  <2>1. thr[w].pc = "lookup"
    BY <1>12, Lookup_Does
  <2>2. CASE s \in Sessions
    <3>1. /\ Moves(w, IF sess[s].ws = "CLOSED" THEN "parse" ELSE "enterWs", s, thr[w].ret)
          /\ sess'[s].mixed = MixedBy(w, s)
      BY <1>12, <2>2, Lookup_Does DEF Becomes, Fields
    <3>2. Holding(w)' /\ thr'[w].cur = s /\ thr'[w].cli = thr[w].cli /\ thr'[w].mine = thr[w].mine
      BY <3>1 DEF Holding, Moves
    <3>3. sess'[s].mixed \/ thr[w].mine = s
      BY <1>1, <2>1, <3>1, TaskState, ConstantsAssumption DEF MixedBy, Busy, At
    <3> QED BY <2>1, <2>2, <3>2, <3>3 DEF WorkerFlow
  <2>3. CASE s \notin Sessions
    <3>1. Moves(w, "taskEnd", thr[w].cur, thr[w].ret)
      BY <1>12, <2>3, Lookup_Does
    <3>2. ~Engaged(w)' /\ ~Swapping(w) /\ thr'[w].pc \notin {"relook", "idle"}
      BY <2>1, <3>1 DEF Engaged, Holding, Swapping, At, WsPCs, Moves
    <3> QED BY <2>1, <3>1, <3>2 DEF WorkerFlow, Moves
  <2> QED BY <2>2, <2>3
<1>13. ASSUME WebSocketProcess_Lookup(w) PROVE WorkerFlow(w)
  <2>1. thr[w].pc = "enterWs" /\ Moves(w, "wsLoop", table[Key(w)], thr[w].ret)
    BY <1>13, WsLookup_Does
  <2>2. Holding(w) /\ Holding(w)'
    BY <2>1 DEF Holding, Moves, WsPCs
  <2> QED BY <2>1, <2>2 DEF WorkerFlow, Moves
<1> QED
  BY <1>2, <1>3, <1>4, <1>5, <1>6, <1>7, <1>8, <1>9, <1>10, <1>11, <1>12, <1>13, OwnStep

-----------------------------------------------------------------------------
(* A connected client has a session.                                       *)

\* The clients that had one socket number had it one after another.
InTurn ==
  \A c, d \in Clients :
    SocketOf[c] = SocketOf[d] /\ conn[c] # "new" /\ conn[d] # "new" =>
      c = d \/ thr[c].pc = "gone" \/ thr[d].pc = "gone"

\* The thread of a client whose disconnection was handled does nothing more.
LEMMA GoneStays ==
  ASSUME TypeInv, Places, [Next]_vars, NEW c \in Clients, thr[c].pc = "gone"
  PROVE  thr'[c].pc = "gone"
<1>1. c \in Threads /\ ~Connect(c)
  BY DEF Connect, Places, PlaceOK, Threads
<1> QED
  BY <1>1, ClientFlows DEF ClientFlow, Listening, WsPCs

\* A socket number is used again only when its last client is gone.
LEMMA InTurn_Step ==
  ASSUME TypeInv, Places, InTurn, [Next]_vars
  PROVE  InTurn'
<1>1. ASSUME NEW c \in Clients, Connect(c) PROVE InTurn'
  <2>1. /\ \A d \in Clients : d # c => conn'[d] = conn[d]
        /\ \A d \in Clients : SocketOf[d] = SocketOf[c] => conn[d] = "new" \/ thr[d].pc = "gone"
        /\ \A d \in Clients : thr[d].pc = "gone" => thr'[d].pc = "gone"
    BY <1>1, Connect_Does, GoneStays
  <2> QED
    BY <2>1 DEF InTurn
<1>2. ASSUME \A c \in Clients : ~Connect(c) PROVE InTurn'
  <2>1. \A c \in Clients : conn'[c] # "new" => conn[c] # "new"
    BY <1>2, ConnFlows
  <2> QED
    BY <2>1, GoneStays DEF InTurn
<1> QED
  BY <1>1, <1>2

\* What SessionWhileConnected says of client c.
Held(c) ==
  conn[c] = "up" /\ thr[c].pc \in Listening =>
    table[SocketOf[c]] \in Sessions \/ \E w \in Workers : Swapping(w) /\ Key(w) = SocketOf[c]

\* Only a worker that swaps takes the session of a connected client away.
LEMMA Held_Step ==
  ASSUME TypeInv, Places, InTurn, NEW c \in Clients, Held(c), [Next]_vars
  PROVE  Held(c)'
<1> DEFINE k == SocketOf[c]
<1> SUFFICES ASSUME conn'[c] = "up", thr'[c].pc \in Listening
             PROVE  table'[k] \in Sessions \/ \E w \in Workers : Swapping(w)' /\ Key(w)' = k
  BY DEF Held
<1>1. c \in Threads /\ k \in Sockets /\ None \notin Sessions
  BY ConstantsAssumption DEF Threads
<1>2. thr[c].pc \in Listening \cup {"insert"} /\ conn[c] = "up"
  <2>1. ~Connect(c)
    BY <1>1, Connect_Does DEF Moves, Listening
  <2>2. conn[c] = "up"
    BY <2>1, ConnFlows
  <2>3. thr[c].pc \in Listening \cup {"insert", "erase", "finalize"}
    BY <2>1, ClientFlows DEF ClientFlow, Listening, WsPCs
  <2>4. thr[c].pc \in {"erase", "finalize"} => thr[c].ret \in {"gone", "insert"}
    BY <1>1 DEF Places, PlaceOK
  <2> QED
    BY <2>1, <2>2, <2>3, <2>4, ClientFlows DEF ClientFlow, Listening, WsPCs
\* The client's own thread inserts the session, or another one disturbs the entry.
<1>3. CASE thr[c].pc = "insert"
  <2>1. initializeClient_Insert(c)
    BY <1>1, <1>2, <1>3, ClientFlows DEF ClientFlow, Listening, WsPCs, Connect, Places, PlaceOK
  <2> QED
    BY <1>1, <2>1, Insert_Does DEF TypeInv, ThreadsOK, Key
<1>4. CASE thr[c].pc \in Listening /\ table[k] \in Sessions
  <2>1. ASSUME NEW t \in Threads, thr[t].pc \in {"finalize", "erase"}, Key(t) = k,
               Moves(t, thr[t].ret, thr[t].cur, thr[t].ret)
        PROVE  t \in Workers /\ Swapping(t)' /\ Key(t)' = k
    <3>1. t \in Workers
      <4>1. ASSUME t \in Clients PROVE FALSE
        <5>1. SocketOf[t] = k /\ conn[t] # "new"
          BY <2>1, <4>1 DEF Key, TypeInv, ThreadsOK, Places, PlaceOK
        <5> QED
          BY <1>2, <1>4, <2>1, <4>1, <5>1 DEF InTurn, Listening
      <4> QED BY <4>1 DEF Threads
    <3>2. thr'[t].pc \in {"initialize", "insert"} /\ thr'[t].cli = thr[t].cli
      BY <2>1, <3>1 DEF Moves, Places, PlaceOK
    <3> QED BY <2>1, <3>1, <3>2 DEF Swapping, At, Key
  <2>2. ASSUME NEW t \in Threads, initializeClient_Insert(t), Key(t) = k PROVE table'[k] \in Sessions
    BY <2>2, Insert_Does
  <2> QED
    BY <1>1, <1>4, <2>1, <2>2, TableFlows DEF TableFlow
<1>5. CASE thr[c].pc \in Listening /\ table[k] \notin Sessions
  <2>1. PICK w \in Workers : Swapping(w) /\ Key(w) = k
    BY <1>2, <1>5 DEF Held
  <2>2. thr[w].pc \notin {"idle", "lookup"} /\ ~Holding(w)
    BY <2>1 DEF Swapping, At, Holding, WsPCs
  <2>3. CASE thr'[w] = thr[w]
    BY <2>1, <2>3 DEF Swapping, At, Key
  <2>4. CASE thr'[w].cli = thr[w].cli /\ Swapping(w)'
    BY <2>1, <2>4 DEF Key
  <2>5. CASE table'[Key(w)] \in Sessions
    BY <2>1, <2>5
  <2> QED
    BY <1>5, <2>1, <2>2, <2>3, <2>4, <2>5, WorkerFlows DEF WorkerFlow
<1> QED
  BY <1>2, <1>3, <1>4, <1>5

-----------------------------------------------------------------------------
(* The session that a worker answers stays in the table.                   *)

\* The thread of client c makes its first session, after finalizing what it found.
Starting(c) ==
  \/ thr[c].pc \in {"initialize", "insert"}
  \/ thr[c].pc \in {"finalize", "erase"} \cup WsPCs /\ thr[c].ret = "insert"

\* The thread of client c handles the disconnection.
Ending(c) == thr[c].pc \in {"finalize", "erase"} \cup WsPCs /\ thr[c].ret = "gone"

\* No task is for a client that has no session yet, and a client is finalized after it
\* was disconnected.
Bounds ==
  \A c \in Clients :
    /\ Ending(c) \/ thr[c].pc = "gone" => conn[c] = "down"
    /\ Starting(c) => /\ \A i \in 1..Len(tasks) : tasks[i].client # c
                      /\ \A w \in Workers : Busy(w) => thr[w].cli # c

\* Worker w is busy and keeps its task.
Remains(w) == Busy(w) /\ thr'[w].cli = thr[w].cli /\ thr'[w].mine = thr[w].mine

\* The clients of the tasks and of the workers.
LEMMA TaskFlow ==
  ASSUME TypeInv, [Next]_vars
  PROVE  /\ \A i \in 1..Len(tasks') :
              \/ \E j \in 1..Len(tasks) : tasks'[i] = tasks[j]
              \/ \E c \in Clients : /\ thr[c].pc = "append" /\ thr'[c].pc = "tcp"
                                    /\ tasks'[i] = [client |-> c, state |-> thr[c].cur]
         /\ \A w \in Workers : Busy(w)' =>
              \/ Remains(w)
              \/ \E j \in 1..Len(tasks) : thr'[w].cli = tasks[j].client /\ thr'[w].mine = tasks[j].state
<1>1. \A t : (t \in Clients \/ t \in Workers) => t \in Threads
  BY DEF Threads
<1>2. ASSUME Quiet
      PROVE  tasks' = tasks /\ \A w \in Workers : Busy(w)' => Remains(w)
  BY <1>1, <1>2 DEF Quiet, QuietRest, QuietThr, Remains, Busy, At
<1>3. ASSUME NEW c \in Clients, Listener_Append(c)
      PROVE  /\ \A i \in 1..Len(tasks') :
                  \/ \E j \in 1..Len(tasks) : tasks'[i] = tasks[j]
                  \/ thr[c].pc = "append" /\ thr'[c].pc = "tcp" /\ tasks'[i] = [client |-> c, state |-> thr[c].cur]
             /\ \A w \in Workers : Busy(w)' => Remains(w)
  <2> DEFINE e == [client |-> c, state |-> thr[c].cur]
  <2>1. thr[c].pc = "append" /\ thr'[c].pc = "tcp" /\ (tasks' = tasks \/ tasks' = Append(tasks, e))
    BY <1>3, ListenAppend_Does DEF Moves
  <2>2. \A w \in Workers : Busy(w)' => Remains(w)
    BY <1>3, Append_Effect DEF Remains, Busy, At
  <2>3. CASE tasks' = Append(tasks, e)
    <3>1. /\ Len(tasks') = Len(tasks) + 1
          /\ \A i \in 1..Len(tasks') : (i \in 1..Len(tasks) /\ tasks'[i] = tasks[i]) \/ tasks'[i] = e
      BY <2>3, AppendProperties DEF TypeInv, TypeOK
    <3> QED BY <2>1, <2>2, <3>1
  <2> QED BY <2>1, <2>2, <2>3
<1>4. ASSUME NEW t \in Threads, initializeClient_Insert(t)
      PROVE  tasks' = tasks /\ \A w \in Workers : Busy(w)' => Remains(w)
  BY <1>1, <1>4, Insert_Does, Insert_Effect DEF Moves, Remains, Busy, At
<1>5. ASSUME NEW v \in Workers, Task_Start(v)
      PROVE  /\ \A i \in 1..Len(tasks') : \E j \in 1..Len(tasks) : tasks'[i] = tasks[j]
             /\ \A w \in Workers : Busy(w)' => \/ Remains(w)
                                               \/ \E j \in 1..Len(tasks) : thr'[w].cli = tasks[j].client /\ thr'[w].mine = tasks[j].state
  <2>1. /\ Len(tasks) \in Nat \ {0} /\ Len(tasks') = Len(tasks) - 1
        /\ \A i \in 1..Len(tasks') : tasks'[i] = tasks[i + 1]
        /\ thr'[v].cli = tasks[1].client /\ thr'[v].mine = tasks[1].state
        /\ \A u \in Threads : u # v => thr'[u] = thr[u]
    BY <1>5, Task_Start_Does
  <2>2. 1 \in 1..Len(tasks) /\ \A i \in 1..Len(tasks') : i + 1 \in 1..Len(tasks)
    BY <2>1
  <2> QED BY <1>1, <2>1, <2>2 DEF Remains, Busy, At
<1>6. ASSUME NEW v \in Workers, Task_End(v)
      PROVE  tasks' = tasks /\ \A w \in Workers : Busy(w)' => Remains(w)
  BY <1>1, <1>6, Task_End_Does, End_Effect DEF Moves, Remains, Busy, At
<1> QED
  BY <1>2, <1>3, <1>4, <1>5, <1>6, QuietOrNot

\* Every step keeps a client without tasks until it has a session, and the end after the disconnection.
LEMMA Bounds_Step ==
  ASSUME IInv, Places, Met, Bounds, [Next]_vars
  PROVE  Bounds'
<1> SUFFICES ASSUME NEW c \in Clients
             PROVE  /\ Ending(c)' \/ thr'[c].pc = "gone" => conn'[c] = "down"
                    /\ Starting(c)' => /\ \A i \in 1..Len(tasks') : tasks'[i].client # c
                                       /\ \A w \in Workers : Busy(w)' => thr'[w].cli # c
  BY DEF Bounds
<1>1. TypeInv /\ c \in Threads /\ ClientFlow(c) /\ (Connect(c) => conn[c] = "new" /\ thr'[c].pc = "initialize")
  BY ClientFlows, Connect_Does DEF IInv, Threads, Moves
<1>2. ASSUME Ending(c)' \/ thr'[c].pc = "gone" PROVE conn'[c] = "down"
  <2>1. ~Connect(c)
    BY <1>1, <1>2 DEF Ending, WsPCs
  <2>2. conn[c] = "down"
    BY <1>1, <1>2, <2>1 DEF ClientFlow, Ending, Bounds, WsPCs, Listening, Places, PlaceOK
  <2> QED
    BY <1>1, <2>1, <2>2, ConnFlows
<1>3. ASSUME Starting(c)'
      PROVE  /\ \A i \in 1..Len(tasks') : tasks'[i].client # c
             /\ \A w \in Workers : Busy(w)' => thr'[w].cli # c
  <2>1. Connect(c) \/ Starting(c)
    BY <1>1, <1>3 DEF ClientFlow, Starting, WsPCs, Listening, Places, PlaceOK
  <2>2. /\ \A i \in 1..Len(tasks) : tasks[i].client # c
        /\ \A w \in Workers : Busy(w) => thr[w].cli # c
    BY <1>1, <2>1 DEF Bounds, Met
  <2>3. thr[c].pc # "append" \/ thr'[c].pc # "tcp"
    BY <1>3 DEF Starting, WsPCs
  <2>4. \A i \in 1..Len(tasks') : tasks'[i].client # c
    <3> SUFFICES ASSUME NEW i \in 1..Len(tasks') PROVE tasks'[i].client # c
      OBVIOUS
    <3>1. CASE \E j \in 1..Len(tasks) : tasks'[i] = tasks[j]
      BY <2>2, <3>1
    <3>2. CASE \E d \in Clients : /\ thr[d].pc = "append" /\ thr'[d].pc = "tcp"
                                  /\ tasks'[i] = [client |-> d, state |-> thr[d].cur]
      BY <2>3, <3>2
    <3> QED BY <1>1, <3>1, <3>2, TaskFlow
  <2>5. ASSUME NEW w \in Workers, Busy(w)' PROVE thr'[w].cli # c
    BY <1>1, <2>2, <2>5, TaskFlow DEF Remains
  <2> QED
    BY <2>4, <2>5
<1> QED
  BY <1>2, <1>3

\* The conditions under which AnswerNotErased speaks of client c.
Sure(c) == conn[c] = "up" /\ Apart(c) /\ Unmixed(c)

\* A worker for client c holds the entry, and has left none while it swaps; there is one.
HeldByOne(c) ==
  /\ \A w \in Workers : thr[w].cli = c =>
       /\ Holding(w) => thr[w].cur \in Sessions /\ table[SocketOf[c]] = thr[w].cur
       /\ Swapping(w) => table[SocketOf[c]] \notin Sessions
  /\ \A v, w \in Workers : thr[v].cli = c /\ thr[w].cli = c /\ Engaged(v) /\ Engaged(w) => v = w

One == \A c \in Clients : Sure(c) => HeldByOne(c)

\* A session keeps its owner and stays mixed.
LEMMA OwnersStay ==
  ASSUME TypeInv, [Next]_vars, NEW s \in Sessions, sess[s].owner # None
  PROVE  sess'[s].owner = sess[s].owner /\ (sess[s].mixed => sess'[s].mixed)
<1>1. CASE Quiet
  BY <1>1 DEF Quiet, QuietSess, QuietRec
<1>2. ASSUME NEW t \in Threads, initializeClient_Insert(t) PROVE sess'[s] = sess[s]
  BY <1>2, Insert_Effect
<1> QED
  BY <1>1, <1>2, QuietOrNot, Append_Effect, Start_Effect, End_Effect

\* The conditions held before the step already.
LEMMA SureBefore ==
  ASSUME IInv, Places, [Next]_vars, NEW c \in Clients, Sure(c)', ~Connect(c)
  PROVE  Sure(c)
<1>1. TypeInv
  BY DEF IInv
<1>2. conn[c] = "up"
  BY <1>1, ConnFlows DEF Sure
<1>3. Apart(c)
  BY <1>1, ConnStep DEF Sure, Apart
<1>4. Unmixed(c)
  BY <1>1, OwnersStay, ConstantsAssumption DEF Sure, Unmixed, Threads
<1> QED
  BY <1>2, <1>3, <1>4 DEF Sure

\* Every step leaves at most one worker engaged for a client, with the entry.
LEMMA One_Step ==
  ASSUME IInv, Places, Keys, Met, Bounds, One, [Next]_vars
  PROVE  One'
<1> SUFFICES ASSUME NEW c \in Clients, Sure(c)'
             PROVE  HeldByOne(c)'
  BY DEF One
<1> DEFINE k == SocketOf[c]
<1>1. /\ TypeInv /\ c \in Threads /\ k \in Sockets
      /\ None \notin Sessions /\ Null \notin Sessions
      /\ \A w \in Workers : w \in Threads /\ WorkerFlow(w) /\ (Engaged(w) => Busy(w))
  BY WorkerFlows, ConstantsAssumption DEF IInv, Threads, Engaged, Holding, Swapping, Busy, At, WsPCs
\* Who is engaged for c after the step was busy for c before it.
<1>2. ASSUME NEW w \in Workers, Engaged(w)', thr'[w].cli = c
      PROVE  Busy(w) /\ thr[w].cli = c
  <2>1. thr'[w].pc # "check"
    BY <1>2 DEF Engaged, Holding, Swapping, At, WsPCs
  <2>2. thr'[w] = thr[w] => Engaged(w)
    BY <1>2 DEF Engaged, Holding, Swapping, At
  <2> QED BY <1>1, <1>2, <2>1, <2>2 DEF WorkerFlow, Busy, At
<1>3. ASSUME \A w \in Workers : Busy(w) => thr[w].cli # c
      PROVE  HeldByOne(c)'
  BY <1>2, <1>3 DEF HeldByOne, Engaged
<1>4. CASE Connect(c)
  <2>1. conn[c] = "new"
    BY <1>1, <1>4, Connect_Does
  <2> QED
    BY <1>3, <2>1 DEF Met
<1>5. CASE ~Connect(c) /\ Starting(c)
  BY <1>3, <1>5 DEF Bounds
<1>6. CASE ~Connect(c) /\ ~Starting(c)
  <2>1. Sure(c) /\ HeldByOne(c)
    BY <1>6, SureBefore DEF One
  \* Every busy thread with this key is c's own or a worker for c.
  <2>2. ASSUME NEW t \in Threads, t \in Workers => Busy(t), thr[t].pc # "tcp", Key(t) = k
        PROVE  thr[t].cli = c /\ (t \in Clients => t = c)
    <3>1. thr[t].cli \in Clients /\ conn[thr[t].cli] # "new" /\ (t \in Clients => thr[t].cli = t)
      BY <1>1, <2>2 DEF TypeInv, ThreadsOK, Met, Places, PlaceOK, Threads
    <3> QED
      BY <2>1, <2>2, <3>1 DEF Sure, Apart, Key
  \* A session in the entry is c's, so it is not mixed.
  <2>3. ASSUME table[k] \in Sessions PROVE sess[table[k]].owner = c
    <3>1. sess[table[k]].owner \in Clients /\ SocketOf[sess[table[k]].owner] = k
      BY <1>1, <2>3, RecType DEF IInv, Owned, Keys, SocketFor
    <3>2. conn[sess[table[k]].owner] # "new"
      BY <1>1, <2>3 DEF IInv, Owned, Met
    <3> QED
      BY <2>1, <3>1, <3>2 DEF Sure, Apart
  <2>4. ASSUME table[k] \in Sessions PROVE ~sess'[table[k]].mixed
    <3>1. sess[table[k]].owner = c
      BY <2>4, <2>3
    <3>2. sess'[table[k]].owner = c
      BY <1>1, <2>4, <3>1, OwnersStay, ConstantsAssumption DEF Threads
    <3> QED
      BY <2>4, <3>2 DEF Sure, Unmixed
  \* Somebody else removes or replaces the entry.
  <2>5. ASSUME NEW t \in Workers, Engaged(t), thr[t].cli = c, \A u \in Threads : u # t => thr'[u] = thr[u],
               ~Holding(t)', Swapping(t)' => table'[k] \notin Sessions
        PROVE  HeldByOne(c)'
    <3>1. ASSUME NEW w \in Workers, Engaged(w)', thr'[w].cli = c PROVE w = t
      <4>1. w # t => thr'[w] = thr[w]
        BY <1>1, <2>5
      <4>2. w # t => Engaged(w) /\ thr[w].cli = c
        BY <3>1, <4>1 DEF Engaged, Holding, Swapping, At
      <4> QED BY <2>1, <2>5, <4>2 DEF HeldByOne
    <3> QED
      BY <2>5, <3>1 DEF HeldByOne, Engaged
  <2>6. ASSUME NEW t \in Threads, thr[t].pc \in {"finalize", "erase"}, Key(t) = k, table'[k] = None,
               Moves(t, thr[t].ret, thr[t].cur, thr[t].ret), conn' = conn
        PROVE  HeldByOne(c)'
    <3>1. thr[t].cli = c /\ (t \in Clients => t = c)
      BY <2>2, <2>6 DEF Busy, At
    <3>2. t \notin Clients
      BY <1>6, <2>1, <2>6, <3>1 DEF Sure, Bounds, Ending, Starting, Places, PlaceOK
    <3>3. t \in Workers /\ thr[t].ret \in {"initialize", "insert"}
      BY <2>6, <3>2 DEF Places, PlaceOK, Threads
    <3>4. Engaged(t) /\ ~Holding(t)'
      BY <2>6, <3>3 DEF Engaged, Holding, Swapping, At, Moves, WsPCs
    <3> QED
      BY <1>1, <2>5, <2>6, <3>1, <3>3, <3>4 DEF Moves
  <2>7. ASSUME NEW t \in Threads, initializeClient_Insert(t), Key(t) = k
        PROVE  HeldByOne(c)'
    <3>1. /\ thr[t].pc = "insert" /\ \A u \in Threads : u # t => thr'[u] = thr[u]
          /\ t \in Workers => thr'[t].pc \in {"tcp", "relook"}
      BY <1>1, <2>7, Insert_Does DEF Moves
    <3>2. thr[t].cli = c /\ (t \in Clients => t = c)
      BY <2>2, <2>7, <3>1 DEF Busy, At
    <3>3. t \in Workers
      BY <1>6, <3>1, <3>2 DEF Starting, Threads
    <3>4. Engaged(t) /\ ~Holding(t)' /\ ~Swapping(t)'
      BY <3>1, <3>3 DEF Engaged, Holding, Swapping, At, WsPCs
    <3> QED
      BY <2>5, <3>1, <3>2, <3>3, <3>4
  \* The entry stays, or it turns from nothing to null.
  <2>8. ASSUME table'[k] = table[k] \/ (table[k] = None /\ table'[k] = Null)
        PROVE  HeldByOne(c)'
    <3>1. ASSUME NEW w \in Workers, Engaged(w)', thr'[w].cli = c
          PROVE  \/ Engaged(w)
                 \/ /\ table[k] \in Sessions /\ thr'[w].cur = table[k] /\ thr[w].mine = table[k]
      <4>1. Busy(w) /\ thr[w].cli = c /\ Key(w) = k
        BY <1>2, <3>1 DEF Key
      <4>2. thr'[w] = thr[w] => Engaged(w)
        BY <3>1 DEF Engaged, Holding, Swapping, At
      <4> QED
        BY <1>1, <2>4, <3>1, <4>1, <4>2 DEF WorkerFlow, Engaged, Busy, At
    <3>2. ASSUME NEW w \in Workers, thr'[w].cli = c, Holding(w)'
          PROVE  thr'[w].cur \in Sessions /\ table'[k] = thr'[w].cur
      <4>1. Busy(w) /\ thr[w].cli = c /\ Key(w) = k /\ ~Swapping(w)'
        BY <1>2, <3>2 DEF Key, Engaged, Holding, Swapping, At, WsPCs
      <4>2. thr'[w] = thr[w] => Holding(w)
        BY <3>2 DEF Holding
      <4>3. CASE Holding(w)
        <5>1. thr[w].cur \in Sessions /\ table[k] = thr[w].cur
          BY <2>1, <4>1, <4>3 DEF HeldByOne
        <5>2. thr'[w].cur = table[k]
          BY <1>1, <3>2, <4>1, <4>3, <5>1 DEF WorkerFlow, Engaged, Holding, Swapping, Busy, At, WsPCs
        <5> QED BY <1>1, <2>8, <5>1, <5>2
      <4>4. CASE ~Holding(w)
        <5>1. (thr'[w].cur \in Sessions /\ thr'[w].cur = table[k]) \/ (Swapping(w) /\ table[k] \in Sessions)
          BY <1>1, <3>2, <4>1, <4>2, <4>4 DEF WorkerFlow, Engaged, Busy, At
        <5>2. ~(Swapping(w) /\ table[k] \in Sessions)
          BY <2>1, <4>1 DEF HeldByOne
        <5> QED BY <1>1, <2>8, <5>1, <5>2
      <4> QED BY <4>3, <4>4
    <3>3. ASSUME NEW w \in Workers, thr'[w].cli = c, Swapping(w)'
          PROVE  table'[k] \notin Sessions
      <4>1. Busy(w) /\ thr[w].cli = c /\ Key(w) = k /\ ~Holding(w)'
        BY <1>2, <3>3 DEF Key, Engaged, Holding, Swapping, At, WsPCs
      <4>2. thr'[w] = thr[w] => Swapping(w)
        BY <3>3 DEF Swapping, At
      <4>3. Swapping(w) => table[k] \notin Sessions
        BY <2>1, <4>1 DEF HeldByOne
      <4> QED BY <1>1, <2>8, <3>3, <4>1, <4>2, <4>3 DEF WorkerFlow, Engaged, Busy, At
    <3>4. ASSUME NEW v \in Workers, NEW w \in Workers, thr'[v].cli = c, thr'[w].cli = c, Engaged(v)', Engaged(w)'
          PROVE  v = w
      <4>1. Busy(v) /\ thr[v].cli = c /\ Busy(w) /\ thr[w].cli = c
        BY <1>2, <3>4
      <4>2. CASE Engaged(v) /\ Engaged(w)
        BY <2>1, <4>1, <4>2 DEF HeldByOne
      <4>3. ASSUME NEW x \in Workers, Busy(x), thr[x].cli = c, Engaged(x), table[k] \in Sessions
            PROVE  thr[x].mine = table[k]
        <5>1. thr[x].cur = table[k]
          BY <2>1, <4>3 DEF HeldByOne, Engaged
        <5>2. ~sess[table[k]].mixed
          BY <2>1, <2>3, <4>3 DEF Sure, Unmixed
        <5> QED BY <4>3, <5>1, <5>2 DEF IInv, Told, Cur
      <4>4. CASE ~(Engaged(v) /\ Engaged(w))
        <5>1. table[k] \in Sessions
          BY <3>1, <3>4, <4>4
        <5>2. thr[v].mine = table[k] /\ thr[w].mine = table[k]
          BY <3>1, <3>4, <4>1, <4>3, <5>1
        <5> QED BY <4>1, <5>2 DEF IInv, Tasks
      <4> QED BY <4>2, <4>4
    <3> QED
      BY <3>2, <3>3, <3>4 DEF HeldByOne
  <2> QED
    BY <1>1, <2>6, <2>7, <2>8, TableFlows DEF TableFlow
<1> QED
  BY <1>4, <1>5, <1>6

-----------------------------------------------------------------------------
(* Bytes wait without a task only when they came late.                     *)

\* The session of its task that a worker has replaced is not in the table.
Replaced ==
  \A w \in Workers, k \in Sockets : Swapping(w) \/ At(w, "relook") => table[k] # thr[w].mine

\* A task is for the owner of its session, or for the client that got the socket number
\* after the owner's disconnection was handled.
Theirs ==
  /\ \A i \in 1..Len(tasks) :
       sess[tasks[i].state].owner = tasks[i].client \/ conn[sess[tasks[i].state].owner] = "down"
  /\ \A w \in Workers : Busy(w) =>
       sess[thr[w].mine].owner = thr[w].cli \/ conn[sess[thr[w].mine].owner] = "down"

\* Only a new session takes a place in the table.
LEMMA TableFrom ==
  ASSUME TypeInv, Places, [Next]_vars, NEW k \in Sockets, table'[k] \in Sessions
  PROVE  table'[k] = table[k] \/ sess[table'[k]].owner = None
<1>1. ASSUME NEW t \in Threads, initializeClient_Insert(t)
      PROVE  table'[k] = table[k] \/ sess[table'[k]].owner = None
  BY <1>1, Insert_Effect
<1> QED
  BY <1>1, TableFlows, ConstantsAssumption DEF TableFlow

\* The session a worker takes out of the table stays out.
LEMMA Replaced_Step ==
  ASSUME IInv, Places, Keys, Keys', Replaced, [Next]_vars
  PROVE  Replaced'
<1> SUFFICES ASSUME NEW w \in Workers, NEW k \in Sockets, Swapping(w)' \/ thr'[w].pc = "relook",
                    table'[k] = thr'[w].mine
             PROVE  FALSE
  BY DEF Replaced, At
<1> DEFINE m == thr'[w].mine
<1>1. TypeInv /\ w \in Threads /\ WorkerFlow(w)
  BY WorkerFlows DEF IInv, Threads
<1>2. ~Holding(w)' /\ Busy(w)' /\ thr'[w].pc # "check"
  BY DEF Holding, Swapping, Busy, At, WsPCs
<1>3. Busy(w) /\ thr'[w].mine = thr[w].mine /\ thr'[w].cli = thr[w].cli
  BY <1>1, <1>2 DEF WorkerFlow, Busy, At
<1>4. m \in Sessions /\ sess[m].owner # None /\ SocketFor(m) = Key(w)
  BY <1>1, <1>3, TaskState DEF IInv, Owned, Keys
<1>5. table[k] = m
  BY <1>1, <1>4, TableFrom
<1>6. k = Key(w) /\ table'[Key(w)] \in Sessions
  BY <1>4, <1>5 DEF Keys
<1>7. Swapping(w) \/ thr[w].pc = "relook"
  BY <1>1, <1>2, <1>3, <1>6 DEF WorkerFlow, Engaged, Busy, Swapping, At
<1> QED
  BY <1>3, <1>5, <1>7 DEF Replaced, At

\* Every step keeps the tasks with the owners of their sessions.
LEMMA Theirs_Step ==
  ASSUME IInv, Places, Keys, Met, InTurn, Bounds, Theirs, [Next]_vars
  PROVE  Theirs'
<1>1. TypeInv
  BY DEF IInv
\* The owner of a session stays the same and stays disconnected.
<1>2. ASSUME NEW s \in Sessions, NEW c, sess[s].owner # None, sess[s].owner = c \/ conn[sess[s].owner] = "down"
      PROVE  sess'[s].owner = c \/ conn'[sess'[s].owner] = "down"
  <2>1. sess'[s].owner = sess[s].owner /\ sess[s].owner \in Clients
    BY <1>1, <1>2, OwnersStay, RecType
  <2>2. conn[sess[s].owner] = "down" => conn'[sess[s].owner] = "down"
    BY <1>1, <2>1, ConnFlows, Connect_Does
  <2> QED BY <1>2, <2>1, <2>2
<1>3. ASSUME NEW d \in Clients, thr[d].pc = "append", thr[d].cur \in Sessions
      PROVE  sess[thr[d].cur].owner = d \/ conn[sess[thr[d].cur].owner] = "down"
  <2> DEFINE o == sess[thr[d].cur].owner
  <2>1. d \in Threads /\ thr[d].cli = d /\ conn[d] # "new"
    BY <1>1, <1>3 DEF TypeInv, ThreadsOK, Places, PlaceOK, Threads
  <2>2. o \in Clients /\ conn[o] # "new" /\ SocketOf[o] = SocketOf[d]
    BY <1>1, <1>3, <2>1, RecType DEF IInv, Owned, Met, Keys, SocketFor, Key
  <2> QED
    BY <1>3, <2>1, <2>2 DEF InTurn, Bounds
<1>4. \A i \in 1..Len(tasks) : tasks[i].state \in Sessions /\ sess[tasks[i].state].owner # None
  BY <1>1, TaskState DEF IInv, Owned
<1>5. \A w \in Workers : Busy(w) => thr[w].mine \in Sessions /\ sess[thr[w].mine].owner # None
  BY <1>1, TaskState DEF IInv, Owned
<1>6. ASSUME NEW i \in 1..Len(tasks')
      PROVE  (sess[tasks[i].state].owner = tasks[i].client \/ conn[sess[tasks[i].state].owner] = "down")'
  <2>1. CASE \E j \in 1..Len(tasks) : tasks'[i] = tasks[j]
    BY <1>2, <1>4, <2>1 DEF Theirs
  <2>2. ASSUME NEW d \in Clients, thr[d].pc = "append", thr'[d].pc = "tcp",
               tasks'[i] = [client |-> d, state |-> thr[d].cur]
        PROVE  (sess[tasks[i].state].owner = tasks[i].client \/ conn[sess[tasks[i].state].owner] = "down")'
    <3>1. d \in Threads /\ tasks'[i].client = d /\ tasks'[i].state = thr[d].cur
      BY <2>2 DEF Threads
    <3>2. thr[d].cur \in Sessions
      <4>1. TypeInv'
        BY <1>1, Type_Step
      <4>2. tasks'[i] \in Task
        BY <4>1, ElementOfSeq DEF TypeInv, TypeOK
      <4> QED BY <3>1, <4>2 DEF Task
    <3> QED
      BY <1>2, <1>3, <2>2, <3>1, <3>2 DEF IInv, Owned
  <2> QED
    BY <1>1, <2>1, <2>2, TaskFlow
<1>7. ASSUME NEW w \in Workers, Busy(w)'
      PROVE  (sess[thr[w].mine].owner = thr[w].cli \/ conn[sess[thr[w].mine].owner] = "down")'
  <2>1. CASE Busy(w) /\ thr'[w].cli = thr[w].cli /\ thr'[w].mine = thr[w].mine
    BY <1>2, <1>5, <2>1 DEF Theirs
  <2>2. CASE \E j \in 1..Len(tasks) : thr'[w].cli = tasks[j].client /\ thr'[w].mine = tasks[j].state
    BY <1>2, <1>4, <2>2 DEF Theirs
  <2> QED
    BY <1>1, <1>7, <2>1, <2>2, TaskFlow DEF Remains
<1> QED
  BY <1>6, <1>7 DEF Theirs

\* Some thread reads the websocket of session s.
Read(s) == \E t \in Threads : thr[t].pc \in {"wsPop", "wsData"} /\ thr[t].cur = s

\* What a step does to a session, unless it enqueues, makes or ends something: nothing
\* comes into the buffer, and only who reads the websocket changes that it is finished.
Settles(s) ==
  /\ sess'[s].processing = sess[s].processing
  /\ sess[s].buf = 0 => sess'[s].buf = 0
  /\ sess[s].late => sess'[s].late
  /\ sess[s].ws = "FINISHED" => sess'[s].ws = "FINISHED" \/ Read(s)

\* A step that changes one session, as Settles says, settles them all.
LEMMA SettlesOne ==
  ASSUME NEW c \in Sessions, NEW b, NEW h, NEW x, NEW q, NEW n, NEW d, NEW m, NEW l,
         Becomes(c, b, h, x, q, n, d, sess[c].processing, m, l),
         sess[c].buf = 0 => b = 0, sess[c].late => l,
         sess[c].ws = "FINISHED" => x = "FINISHED" \/ Read(c)
  PROVE  \A s \in Sessions : Settles(s)
<1>1. Settles(c)
  BY DEF Settles, Becomes, Fields
<1>2. \A s \in Sessions : s # c => Settles(s)
  BY DEF Settles, Becomes
<1> QED
  BY <1>1, <1>2

\* The steps of thread t with a session c.
LEMMA SettlesRead ==
  ASSUME TypeInv, NEW t \in Threads, thr[t].cur \in Sessions,
         \/ WebSocketProcess_Pop(t) \/ WebSocketProcess_DataReturned(t) \/ WebSocketProcess_End(t)
         \/ /\ t \in Workers
            /\ \/ dataReceivedFrom_Pop(t) \/ dataReceivedFrom_CallApp(t) \/ dataReceivedFrom_AppReturned(t)
               \/ dataReceivedFrom_Respond(t) \/ endHttpRequest_WebSocket(t)
  PROVE  \A s \in Sessions : Settles(s)
<1> DEFINE c == thr[t].cur
           r == sess[c]
           p == r.processing
<1>1. r.buf \in Nat
  BY RecType
<1>2. CASE t \in Workers /\ dataReceivedFrom_Pop(t)
  <2>1. PICK b, h : b = r.buf - 1 /\ Becomes(c, b, h, r.ws, r.req, r.con, r.data, p, r.mixed, r.late)
    BY <1>2, Pop_Does
  <2>2. r.buf = 0 => b = 0
    BY <1>2, Pop_Does
  <2>3. Becomes(c, b, h, r.ws, r.req, r.con, r.data, p, r.mixed, r.late)
    BY <2>1
  <2> QED BY <2>2, <2>3, SettlesOne, ZenonT(60)
<1>3. CASE t \in Workers /\ dataReceivedFrom_CallApp(t)
  <2>1. Becomes(c, r.buf, r.http, r.ws, r.req + 1, r.con, r.data, p, r.mixed, r.late)
    BY <1>3, CallApp_Does
  <2> QED BY <2>1, SettlesOne, ZenonT(60)
<1>4. CASE t \in Workers /\ dataReceivedFrom_AppReturned(t)
  <2>1. PICK x : /\ r.ws # "CLOSED" => x = r.ws
                 /\ Becomes(c, r.buf, "SEND_RESPONSE", x, r.req, r.con, r.data, p, r.mixed, r.late)
    BY <1>4, AppReturned_Does
  <2>2. r.ws = "FINISHED" => x = "FINISHED"
    BY <2>1
  <2>3. Becomes(c, r.buf, "SEND_RESPONSE", x, r.req, r.con, r.data, p, r.mixed, r.late)
    BY <2>1
  <2> QED BY <2>2, <2>3, SettlesOne, ZenonT(60)
<1>5. CASE t \in Workers /\ dataReceivedFrom_Respond(t)
  <2>1. Becomes(c, r.buf, "FINISHED", r.ws, r.req, r.con, r.data, p, r.mixed, r.late)
    BY <1>5, Respond_Does
  <2> QED BY <2>1, SettlesOne, ZenonT(60)
<1>6. CASE t \in Workers /\ endHttpRequest_WebSocket(t)
  <2>1. Becomes(c, r.buf, r.http, r.ws, r.req, r.con + 1, r.data, p, r.mixed, (r.late \/ r.buf > 0))
    BY <1>6, EndWebSocket_Does
  <2> QED BY <2>1, SettlesOne, ZenonT(60)
<1>7. CASE WebSocketProcess_Pop(t)
  <2>1. r.buf > 0 /\ Read(c)
    BY <1>7, WsPop_Does DEF Read
  <2>2. PICK b, x, d : b = r.buf - 1 /\ Becomes(c, b, r.http, x, r.req, r.con, d, p, r.mixed, r.late)
    BY <1>7, WsPop_Does
  <2>3. r.buf = 0 => b = 0
    BY <2>1
  <2>4. Becomes(c, b, r.http, x, r.req, r.con, d, p, r.mixed, r.late)
    BY <2>2
  <2> QED BY <2>1, <2>3, <2>4, SettlesOne, ZenonT(60)
<1>8. CASE WebSocketProcess_DataReturned(t)
  <2>1. Read(c) /\ Becomes(c, r.buf, r.http, "OPEN", r.req, r.con, r.data, p, r.mixed, r.late)
    BY <1>8, WsData_Does DEF Read
  <2> QED BY <2>1, SettlesOne, ZenonT(60)
<1>9. CASE WebSocketProcess_End(t)
  <2>1. Becomes(c, r.buf, r.http, r.ws, r.req, r.con, r.data, p, r.mixed, r.late)
    BY <1>9, WsEnd_Does
  <2> QED BY <2>1, SettlesOne, ZenonT(60)
<1> QED
  BY <1>2, <1>3, <1>4, <1>5, <1>6, <1>7, <1>8, <1>9

\* Every other step settles every session.
LEMMA SessFlows ==
  ASSUME TypeInv, Places, [Next]_vars
  PROVE  \/ \A s \in Sessions : Settles(s)
         \/ \E c \in Clients : Listener_Append(c)
         \/ \E t \in Threads : initializeClient_Insert(t)
         \/ \E w \in Workers : Task_End(w)
<1>1. \A t : (t \in Clients \/ t \in Workers) => t \in Threads
  BY DEF Threads
<1>2. ASSUME sess' = sess PROVE \A s \in Sessions : Settles(s)
  BY <1>2 DEF Settles
<1>3. ASSUME NEW w \in Workers,
             \/ dataReceivedFrom_Pop(w) \/ dataReceivedFrom_CallApp(w) \/ dataReceivedFrom_AppReturned(w)
             \/ dataReceivedFrom_Respond(w) \/ endHttpRequest_WebSocket(w)
      PROVE  \A s \in Sessions : Settles(s)
  <2>1. thr[w].cur \in Sessions
    BY <1>1, <1>3 DEF dataReceivedFrom_Pop, dataReceivedFrom_CallApp, dataReceivedFrom_AppReturned,
      dataReceivedFrom_Respond, endHttpRequest_WebSocket, At, Places, PlaceOK
  <2> QED BY <1>1, <1>3, <2>1, SettlesRead
<1>4. ASSUME NEW t \in Threads,
             \/ WebSocketProcess_Pop(t) \/ WebSocketProcess_DataReturned(t) \/ WebSocketProcess_End(t)
      PROVE  \A s \in Sessions : Settles(s)
  BY <1>4, SettlesRead, WsStep
<1>5. ASSUME NEW w \in Workers, dataReceivedFrom_Lookup(w) PROVE \A s \in Sessions : Settles(s)
  <2> DEFINE c == table[Key(w)]
             r == sess[c]
  <2>1. CASE sess' = sess
    BY <1>2, <2>1
  <2>2. CASE c \in Sessions /\ Becomes(c, r.buf, r.http, r.ws, r.req, r.con, r.data, r.processing, MixedBy(w, c), r.late)
    BY <2>2, SettlesOne, ZenonT(60)
  <2> QED BY <1>5, <2>1, <2>2, Lookup_Does
<1>6. ASSUME NEW w \in Workers, WebSocketProcess_Lookup(w) PROVE \A s \in Sessions : Settles(s)
  <2> DEFINE c == table[Key(w)]
             r == sess[c]
  <2>1. c \in Sessions /\ Becomes(c, r.buf, r.http, r.ws, r.req, r.con, r.data, r.processing, MixedBy(w, c), r.late)
    BY <1>6, WsLookup_Does
  <2> QED BY <2>1, SettlesOne, ZenonT(60)
<1>7. ASSUME NEW t \in Threads, finalizeClient_WebSocket(t) PROVE \A s \in Sessions : Settles(s)
  <2> DEFINE c == table[Key(t)]
             r == sess[c]
  <2>1. c \in Sessions /\ Becomes(c, r.buf, r.http, "FINISHED", r.req, r.con, r.data, r.processing, MixedBy(t, c), r.late)
    BY <1>7, FinalizeWs_Does
  <2> QED BY <2>1, SettlesOne, ZenonT(60)
<1>8. ASSUME \/ \E c \in Clients : \/ Connect(c) \/ Close(c) \/ Disconnected(c)
                                   \/ Listener_Count(c) \/ Listener_Lookup(c)
             \/ \E t \in Threads : \/ initializeClient_Count(t) \/ finalizeClient_Plain(t)
                                   \/ finalizeClient_Erase(t) \/ WebSocketProcess_Loop(t)
             \/ \E w \in Workers : \/ Task_Start(w) \/ Task_Check(w) \/ dataReceivedFrom_Count(w) \/ dataReceivedFrom_Loop(w)
                                   \/ endHttpRequest_KeepAlive(w) \/ endHttpRequest_Close(w) \/ endHttpRequest_Relook(w)
             \/ Still
      PROVE  sess' = sess
  BY <1>8 DEF Connect, Close, Disconnected, Listener_Count, Listener_Lookup, initializeClient_Count, finalizeClient_Plain,
    finalizeClient_Erase, WebSocketProcess_Loop, Task_Start, Task_Check, dataReceivedFrom_Count, dataReceivedFrom_Loop,
    endHttpRequest_KeepAlive, endHttpRequest_Close, endHttpRequest_Relook, Still
<1> QED
  BY <1>2, <1>3, <1>4, <1>5, <1>6, <1>7, <1>8, StepCases

\* A worker comes to the end of its task because its client has no session or no connection,
\* because it has replaced its session, or because it has read what there was to read.
Leaves(w) ==
  LET c == thr[w].cur IN
  /\ Busy(w) /\ thr'[w].mine = thr[w].mine /\ thr'[w].cli = thr[w].cli
  /\ thr'[w].pc = "taskEnd" =>
       \/ thr[w].pc \in {"count", "lookup"} /\ table[Key(w)] \notin Sessions
       \/ At(w, "relook")
       \/ conn'[thr[w].cli] # "up"
       \/ c \in Sessions /\ (sess'[c].buf = 0 \/ sess'[c].late)
       \/ c \in Sessions /\ At(w, "wsEnd") /\ sess[c].ws # "FINISHED"
  /\ thr'[w].pc = "wsEnd" =>
       sess' = sess /\ c \in Sessions /\ (sess[c].buf = 0 \/ sess[c].ws = "FINISHED")

\* A worker reaches the end of its task in these ways only.
LEMMA WorkerLeaves ==
  ASSUME TypeInv, Places, [Next]_vars, NEW w \in Workers, thr'[w] # thr[w], thr'[w].pc \in {"taskEnd", "wsEnd"}
  PROVE  Leaves(w)
<1> DEFINE c == thr[w].cur
<1>1. w \in Threads /\ w \notin Clients /\ None \notin Sessions
  BY ConstantsAssumption DEF Threads
<1>2. CASE dataReceivedFrom_Count(w)
  BY <1>1, <1>2, Count_Does DEF Leaves, Moves, Busy, At
<1>3. CASE dataReceivedFrom_Lookup(w)
  BY <1>1, <1>3, Lookup_Does DEF Leaves, Moves, Busy, At
<1>4. CASE dataReceivedFrom_Loop(w)
  <2>1. c \in Sessions /\ sess[c].buf \in Nat
    BY <1>1, <1>4, RecType, Loop_Does DEF Places, PlaceOK
  <2> QED BY <1>1, <1>4, <2>1, Loop_Does DEF Leaves, Moves, Busy, At
<1>5. CASE endHttpRequest_Close(w)
  <2>1. thr[w].cli \in Clients
    BY <1>5, EndClose_Does DEF TypeInv, ThreadsOK, Busy, At
  <2> QED BY <1>1, <1>5, <2>1, EndClose_Does DEF Leaves, Moves, Busy, At
<1>6. CASE endHttpRequest_Relook(w)
  BY <1>1, <1>6, Relook_Does DEF Leaves, Moves, Busy, At
<1>7. CASE endHttpRequest_WebSocket(w)
  <2>1. c \in Sessions
    BY <1>1, <1>7 DEF endHttpRequest_WebSocket, At, Places, PlaceOK
  <2>2. sess[c].buf \in Nat
    BY <2>1, RecType
  <2>3. /\ thr[w].pc = "end" /\ Moves(w, "taskEnd", c, thr[w].ret)
        /\ sess'[c].buf = sess[c].buf /\ sess'[c].late = (sess[c].late \/ sess[c].buf > 0)
    BY <1>7, <2>1, EndWebSocket_Does DEF Becomes, Fields
  <2>4. sess[c].buf = 0 \/ sess[c].buf > 0
    BY <2>2
  <2>5. sess'[c].buf = 0 \/ sess'[c].late
    BY <2>3, <2>4, Zenon
  <2> QED BY <1>1, <2>1, <2>3, <2>5 DEF Leaves, Moves, Busy, At
<1>8. CASE WebSocketProcess_End(w)
  <2>1. thr[w].pc = "wsEnd" /\ c \in Sessions
    BY <1>1, <1>8, WsStep DEF WebSocketProcess_End, At
  <2>2. Moves(w, IF mapLock = w THEN "erase" ELSE "taskEnd", c, thr[w].ret)
    BY <1>1, <1>8, <2>1, WsEnd_Does
  <2>3. sess[c].ws = "FINISHED" => conn'[thr[w].cli] # "up"
    BY <1>1, <1>8, <2>1, WsEnd_Does DEF TypeInv, ThreadsOK, Busy, At
  <2> QED BY <2>1, <2>2, <2>3 DEF Leaves, Moves, Busy, At
<1>9. CASE WebSocketProcess_Loop(w)
  <2>1. c \in Sessions /\ sess[c].buf \in Nat
    BY <1>1, <1>9, WsStep, RecType
  <2> QED BY <1>1, <1>9, <2>1, WsLoop_Does DEF Leaves, Moves, Busy, At
\* The other steps lead elsewhere.
<1>10. CASE \/ initializeClient_Count(w) \/ initializeClient_Insert(w) \/ finalizeClient_WebSocket(w)
           \/ Task_Start(w) \/ Task_Check(w) \/ Task_End(w) \/ endHttpRequest_KeepAlive(w) \/ WebSocketProcess_Lookup(w)
  <2>1. CASE initializeClient_Count(w)
    BY <1>1, <2>1, InitCount_Does DEF Moves
  <2>2. CASE initializeClient_Insert(w)
    BY <1>1, <2>2, Insert_Does DEF Moves
  <2>3. CASE finalizeClient_WebSocket(w)
    BY <1>1, <2>3, FinalizeWs_Does DEF Moves
  <2>4. CASE Task_Start(w)
    BY <1>1, <2>4, Task_Start_Does DEF Moves
  <2>5. CASE Task_Check(w)
    BY <1>1, <2>5, Task_Check_Does DEF Moves
  <2>6. CASE Task_End(w)
    BY <1>1, <2>6, Task_End_Does DEF Moves
  <2>7. CASE endHttpRequest_KeepAlive(w)
    BY <1>1, <2>7, KeepAlive_Does DEF Moves
  <2>8. CASE WebSocketProcess_Lookup(w)
    BY <1>1, <2>8, WsLookup_Does DEF Moves
  <2> QED BY <1>10, <2>1, <2>2, <2>3, <2>4, <2>5, <2>6, <2>7, <2>8
<1>11. CASE finalizeClient_Plain(w) \/ finalizeClient_Erase(w)
  <2>1. thr[w].pc \in {"finalize", "erase"} /\ thr'[w].pc = thr[w].ret
    BY <1>1, <1>11, Plain_Does, Erase_Does DEF Moves
  <2> QED BY <1>1, <2>1 DEF Places, PlaceOK
<1>12. CASE \/ dataReceivedFrom_Pop(w) \/ dataReceivedFrom_CallApp(w)
            \/ dataReceivedFrom_AppReturned(w) \/ dataReceivedFrom_Respond(w)
  <2>1. \E l \in {"parse", "app", "end"} : Goto(w, l)
    BY <1>12 DEF dataReceivedFrom_Pop, dataReceivedFrom_CallApp, dataReceivedFrom_AppReturned, dataReceivedFrom_Respond
  <2> QED BY <1>1, <2>1, GotoMoves DEF Moves
<1>13. CASE WebSocketProcess_Pop(w) \/ WebSocketProcess_DataReturned(w)
  <2>1. c \in Sessions
    BY <1>1, <1>13, WsStep
  <2> QED BY <1>1, <1>13, <2>1, WsPop_Does, WsData_Does DEF Moves
<1> QED
  BY <1>2, <1>3, <1>4, <1>5, <1>6, <1>7, <1>8, <1>9, <1>10, <1>11, <1>12, <1>13, OwnStep

\* Session s is in the table, its client is connected, and no other session's worker came to it.
Live(s) ==
  /\ \E k \in Sockets : table[k] = s
  /\ conn[sess[s].owner] = "up" /\ ~sess[s].mixed

\* Bytes in s wait for its task, or came late; the flag is set for a task; a worker that
\* ends the task of s has read the buffer, or knows that the websocket is finished.
Tended(s) ==
  /\ sess[s].buf > 0 /\ ~HasTask(s) => sess[s].late
  /\ sess[s].processing => HasTask(s)
  /\ \A w \in Workers : thr[w].mine = s =>
       /\ At(w, "taskEnd") => sess[s].buf = 0 \/ sess[s].late
       /\ At(w, "wsEnd") => sess[s].buf = 0 \/ sess[s].late \/ sess[s].ws = "FINISHED"

AllTended == \A s \in Sessions : Live(s) => Tended(s)

\* A session in use that is live after a step was live before it.
LEMMA LiveBefore ==
  ASSUME IInv, Places, Met, [Next]_vars, NEW s \in Sessions, sess[s].owner # None, Live(s)'
  PROVE  Live(s)
<1>1. TypeInv /\ sess[s].owner \in Clients /\ conn[sess[s].owner] # "new"
  BY RecType DEF IInv, Met
<1>2. sess'[s].owner = sess[s].owner /\ ~sess[s].mixed
  BY <1>1, OwnersStay DEF Live
<1>3. conn[sess[s].owner] = "up"
  BY <1>1, <1>2, ConnFlows, Connect_Does DEF Live
<1>4. \E k \in Sockets : table[k] = s
  <2>1. PICK k \in Sockets : table'[k] = s
    BY DEF Live
  <2> QED BY <1>1, <2>1, TableFrom
<1> QED
  BY <1>2, <1>3, <1>4 DEF Live

\* A live session loses its task only when the task ends.
LEMMA TaskKept ==
  ASSUME IInv, Places, Theirs, [Next]_vars, NEW s \in Sessions, HasTask(s), Live(s),
         \A w \in Workers : Task_End(w) => thr[w].mine # s
  PROVE  HasTask(s)'
<1>1. TypeInv /\ TypeInv'
  BY Type_Step DEF IInv
<1>2. tasks' \in Seq(Task) /\ DOMAIN tasks' = 1..Len(tasks') /\ DOMAIN tasks = 1..Len(tasks)
  BY <1>1, LenProperties DEF TypeInv, TypeOK
<1>3. ASSUME NEW i \in 1..Len(tasks), tasks[i].state = s
      PROVE  HasTask(s)'
  <2>1. CASE tasks' = tasks
    BY <1>2, <1>3, <2>1 DEF HasTask
  <2>2. ASSUME NEW e, tasks' = Append(tasks, e)
        PROVE  HasTask(s)'
    <3>1. i \in 1..Len(tasks') /\ tasks'[i] = tasks[i]
      BY <1>1, <2>2, AppendProperties DEF TypeInv, TypeOK
    <3> QED BY <1>2, <1>3, <3>1 DEF HasTask
  <2>3. ASSUME NEW w \in Workers, Task_Start(w)
        PROVE  HasTask(s)'
    <3>1. /\ Len(tasks) \in Nat \ {0} /\ Len(tasks') = Len(tasks) - 1
          /\ \A j \in 1..Len(tasks') : tasks'[j] = tasks[j + 1]
          /\ thr'[w].pc = "check" /\ thr'[w].mine = tasks[1].state
      BY <1>1, <2>3, Task_Start_Does
    <3>2. CASE i = 1
      BY <1>3, <3>1, <3>2 DEF HasTask, Busy, At
    <3>3. CASE i # 1
      <4>1. i - 1 \in 1..Len(tasks') /\ tasks'[i - 1] = tasks[i]
        BY <3>1, <3>3
      <4> QED BY <1>2, <1>3, <4>1 DEF HasTask
    <3> QED BY <3>2, <3>3
  <2>4. CASE Quiet
    BY <2>1, <2>4 DEF Quiet, QuietRest
  <2>5. ASSUME NEW c \in Clients, Listener_Append(c) PROVE HasTask(s)'
    BY <1>1, <2>1, <2>2, <2>5, ListenAppend_Does
  <2> QED
    BY <1>1, <2>1, <2>3, <2>4, <2>5, QuietOrNot, Insert_Effect, End_Effect
<1>4. ASSUME NEW w \in Workers, Busy(w), thr[w].mine = s
      PROVE  HasTask(s)'
  <2>1. conn[thr[w].cli] = "up"
    BY <1>4 DEF Theirs, Live
  <2>2. Busy(w)' /\ thr'[w].mine = s
    BY <1>1, <1>4, <2>1, WorkerFlows DEF WorkerFlow, Engaged, Holding, Swapping, Busy, At, WsPCs
  <2> QED BY <2>2 DEF HasTask
<1> QED
  BY <1>2, <1>3, <1>4 DEF HasTask

\* While a worker has the task of a live session, no other thread reads its websocket.
LEMMA ReadAlone ==
  ASSUME IInv, Places, Keys, Met, InTurn, Bounds, Theirs, NEW s \in Sessions, Live(s),
         NEW w \in Workers, Busy(w), thr[w].mine = s,
         NEW t \in Threads, thr[t].pc \in WsPCs, thr[t].cur = s
  PROVE  t = w
<1> DEFINE o == sess[s].owner
<1>1. TypeInv /\ o \in Clients /\ o # None
  BY RecType DEF IInv, Owned
<1>2. CASE t \in Workers
  BY <1>2 DEF IInv, Told, Tasks, Live, Busy, At, Cur, WsPCs
<1>3. CASE t \in Clients
  <2>1. SocketOf[o] = SocketOf[t] /\ conn[t] # "new"
    BY <1>1, <1>3 DEF Keys, SocketFor, Key, TypeInv, ThreadsOK, Places, PlaceOK, WsPCs
  <2>2. t = o
    BY <1>1, <1>3, <2>1 DEF InTurn, Bounds, Live, WsPCs
  <2>3. thr[w].cli = o
    BY DEF Theirs, Live
  <2>4. ~Ending(t) /\ ~Starting(t)
    BY <1>3, <2>2, <2>3 DEF Bounds, Live
  <2> QED
    BY <1>3, <2>4 DEF Ending, Starting, Places, PlaceOK, WsPCs
<1> QED
  BY <1>2, <1>3 DEF Threads

\* A live session stays tended by a step that settles it and does not end its task.
LEMMA TendedKept ==
  ASSUME IInv, Places, Keys, Met, Left, InTurn, Bounds, Replaced, Theirs, [Next]_vars,
         NEW s \in Sessions, sess[s].owner # None, Live(s)', Live(s) => Tended(s), Settles(s),
         \A w \in Workers : Task_End(w) => thr[w].mine # s
  PROVE  Tended(s)'
<1>1. TypeInv /\ Live(s) /\ Tended(s) /\ sess[s].buf \in Nat
  BY LiveBefore, RecType DEF IInv
<1>2. (sess[s].buf > 0)' /\ ~HasTask(s)' => sess'[s].late
  <2>1. (sess[s].buf > 0)' => sess[s].buf > 0
    BY <1>1 DEF Settles
  <2> QED
    BY <1>1, <2>1, TaskKept DEF Settles, Tended
<1>3. sess'[s].processing => HasTask(s)'
  BY <1>1, TaskKept DEF Settles, Tended
<1>4. ASSUME NEW w \in Workers, thr'[w].mine = s, thr'[w].pc \in {"taskEnd", "wsEnd"}
      PROVE  sess'[s].buf = 0 \/ sess'[s].late \/ (thr'[w].pc = "wsEnd" /\ sess'[s].ws = "FINISHED")
  <2>1. CASE thr'[w] = thr[w]
    <3>1. sess[s].buf = 0 \/ sess[s].late \/ (thr[w].pc = "wsEnd" /\ sess[s].ws = "FINISHED")
      BY <1>1, <1>4, <2>1 DEF Tended, At
    <3>2. ~Read(s)
      BY <1>1, <1>4, <2>1, ReadAlone DEF Read, WsPCs, Busy, At
    <3> QED
      BY <2>1, <3>1, <3>2 DEF Settles
  <2>2. CASE thr'[w] # thr[w]
    <3> DEFINE c == thr[w].cur
    <3>1. Leaves(w) /\ Busy(w) /\ thr[w].mine = s
      BY <1>1, <1>4, <2>2, WorkerLeaves DEF Leaves
    <3>2. table[Key(w)] = s
      BY <3>1, <1>1 DEF Live, Keys
    <3>3. Key(w) \in Sockets
      BY <1>1, <3>1, KeyType DEF Busy, Threads
    <3>4. c \in Sessions => c = s
      BY <3>1, <3>2, <3>3 DEF Left, Cur
    <3>5. ~At(w, "relook")
      BY <3>1, <3>2, <3>3 DEF Replaced
    <3>6. conn'[thr[w].cli] = "up"
      <4>1. sess'[s].owner = sess[s].owner /\ sess[s].owner = thr[w].cli
        BY <1>1, <3>1, OwnersStay DEF Theirs, Live
      <4> QED BY <4>1 DEF Live
    <3>7. CASE thr'[w].pc = "wsEnd"
      BY <3>1, <3>4, <3>7 DEF Leaves
    <3>8. CASE thr'[w].pc = "taskEnd"
      <4>1. c = s /\ (sess'[c].buf = 0 \/ sess'[c].late \/ (At(w, "wsEnd") /\ sess[c].ws # "FINISHED"))
        BY <3>1, <3>2, <3>4, <3>5, <3>6, <3>8 DEF Leaves
      <4>2. At(w, "wsEnd") /\ sess[s].ws # "FINISHED" => sess[s].buf = 0 \/ sess[s].late
        BY <1>1, <3>1 DEF Tended
      <4> QED
        BY <4>1, <4>2 DEF Settles
    <3> QED BY <1>4, <3>7, <3>8
  <2> QED BY <2>1, <2>2
<1> QED
  BY <1>2, <1>3, <1>4 DEF Tended, At

\* Every live session is tended after every step.
LEMMA Tended_Step ==
  ASSUME IInv, Places, Keys, Met, Left, InTurn, Bounds, Replaced, Theirs, AllTended, [Next]_vars
  PROVE  AllTended'
<1> SUFFICES ASSUME NEW s \in Sessions, Live(s)'
             PROVE  Tended(s)'
  BY DEF AllTended
<1>1. TypeInv /\ (Live(s) => Tended(s))
  BY DEF IInv, AllTended
<1>2. CASE sess[s].owner = None
  <2>1. PICK k \in Sockets : table'[k] = s
    BY DEF Live
  <2>2. table[k] # s
    BY <1>2, <2>1 DEF IInv, Owned
  <2>3. PICK t \in Threads : initializeClient_Insert(t) /\ Key(t) = k
    BY <1>1, <2>1, <2>2, TableFlows, ConstantsAssumption DEF TableFlow
  <2>4. sess'[s] = FreshState(thr[t].cli)
    BY <1>1, <2>1, <2>3, Insert_Does
  <2>5. sess'[s].buf = 0 /\ ~sess'[s].processing
    BY <2>4 DEF FreshState
  <2> QED
    BY <2>5 DEF Tended
<1>3. CASE sess[s].owner # None
  <2>1. ASSUME sess'[s] = sess[s] PROVE Settles(s)
    BY <2>1 DEF Settles
  <2>2. ASSUME NEW c \in Clients, Listener_Append(c), thr[c].cur = s
        PROVE  Tended(s)'
    <3>1. Live(s) /\ Tended(s)
      BY <1>1, <1>3, LiveBefore
    <3>2. /\ \A w \in Workers : thr'[w] = thr[w]
          /\ \/ /\ ~sess[s].processing
                /\ tasks' = Append(tasks, [client |-> c, state |-> s])
             \/ /\ sess[s].processing /\ tasks' = tasks
                /\ sess'[s].late = (sess[s].late \/ TaskLeaving(s))
      BY <1>1, <2>2, ListenAppend_Does, Append_Effect DEF Becomes, Fields
    <3>3. CASE ~sess[s].processing
      <4>1. HasTask(s)'
        <5>1. tasks' \in Seq(Task) /\ DOMAIN tasks' = 1..Len(tasks')
          BY <1>1, Type_Step, LenProperties DEF TypeInv, TypeOK
        <5>2. Len(tasks') \in 1..Len(tasks') /\ tasks'[Len(tasks')] = [client |-> c, state |-> s]
          BY <1>1, <3>2, <3>3, AppendProperties DEF TypeInv, TypeOK
        <5> QED BY <5>1, <5>2 DEF HasTask
      <4>2. \A w \in Workers : thr[w].mine = s => thr[w].pc = "idle"
        BY <3>3 DEF IInv, Tasks, Busy, At
      <4> QED
        BY <3>2, <4>1, <4>2 DEF Tended, At
    <3>4. CASE sess[s].processing
      <4>1. HasTask(s)' <=> HasTask(s)
        BY <3>2, <3>4 DEF HasTask, Busy, At
      <4>2. HasTask(s)
        BY <3>1, <3>4 DEF Tended
      <4>3. \A w \in Workers : thr[w].mine = s /\ thr[w].pc \in {"wsEnd", "taskEnd"} => TaskLeaving(s)
        BY DEF TaskLeaving
      <4>4. \A w \in Workers : thr'[w].mine = s /\ thr'[w].pc \in {"wsEnd", "taskEnd"} => sess'[s].late
        BY <3>2, <3>4, <4>3
      <4> QED
        BY <4>1, <4>2, <4>4 DEF Tended, At
    <3> QED BY <3>3, <3>4
  <2>3. ASSUME NEW c \in Clients, Listener_Append(c), thr[c].cur # s
        PROVE  sess'[s] = sess[s]
    BY <1>1, <2>3, ListenAppend_Does DEF Becomes
  <2>4. ASSUME NEW t \in Threads, initializeClient_Insert(t)
        PROVE  sess'[s] = sess[s]
    BY <1>1, <1>3, <2>4, Insert_Effect
  <2>5. ASSUME NEW w \in Workers, Task_End(w), thr[w].mine = s
        PROVE  Tended(s)'
    <3>1. Live(s) /\ Tended(s) /\ sess[s].buf \in Nat
      BY <1>1, <1>3, LiveBefore, RecType
    <3>2. /\ sess'[s].buf = sess[s].buf /\ sess'[s].late = sess[s].late /\ ~sess'[s].processing
          /\ thr[w].pc = "taskEnd" /\ thr'[w].pc = "idle" /\ \A u \in Threads : u # w => thr'[u] = thr[u]
      BY <1>1, <2>5, Task_End_Does DEF Becomes, Fields, Moves
    <3>3. sess[s].buf = 0 \/ sess[s].late
      BY <2>5, <3>1, <3>2 DEF Tended, At
    <3>4. \A v \in Workers : thr'[v].mine = s => thr'[v].pc = "idle"
      BY <2>5, <3>2 DEF IInv, Tasks, Busy, At, Threads
    <3> QED
      BY <3>1, <3>2, <3>3, <3>4 DEF Tended, At
  <2>6. ASSUME NEW w \in Workers, Task_End(w), thr[w].mine # s
        PROVE  sess'[s] = sess[s]
    BY <1>1, <2>6, Task_End_Does DEF Becomes
  <2>7. CASE \E w \in Workers : Task_End(w) /\ thr[w].mine = s
    BY <2>5, <2>7
  <2>8. CASE \E c \in Clients : Listener_Append(c) /\ thr[c].cur = s
    BY <2>2, <2>8
  <2>9. CASE /\ ~(\E w \in Workers : Task_End(w) /\ thr[w].mine = s)
             /\ ~(\E c \in Clients : Listener_Append(c) /\ thr[c].cur = s)
    <3>1. Settles(s)
      BY <1>1, <2>1, <2>3, <2>4, <2>6, <2>9, SessFlows
    <3> QED
      BY <1>1, <1>3, <2>9, <3>1, TendedKept
  <2> QED BY <2>7, <2>8, <2>9
<1> QED
  BY <1>2, <1>3
-----------------------------------------------------------------------------
(* The theorems.                                                           *)

Answers ==
  /\ IInv /\ Places /\ Keys /\ Met /\ Left /\ Calls
  /\ InTurn /\ (\A c \in Clients : Held(c)) /\ Bounds /\ One
  /\ Replaced /\ Theirs /\ AllTended

\* The invariant holds at the start.
LEMMA Init_Answers == Init => Answers
<1> SUFFICES ASSUME Init PROVE Answers
  OBVIOUS
<1>1. IInv
  BY Init_IInv
<1>2. /\ mapLock = None /\ tasks = <<>> /\ \A k \in Sockets : table[k] = None
      /\ \A c \in Clients : conn[c] = "new"
      /\ \A s \in Sessions : sess[s] = FreshState(None)
      /\ \A t \in Threads : t # None /\ thr[t].cur = None
      /\ \A c \in Clients : thr[c].pc = "tcp"
      /\ \A w \in Workers : w \notin Clients /\ thr[w].pc = "idle"
      /\ None \notin Sessions
  BY ConstantsAssumption DEF Init, Threads
<1>3. Places
  BY <1>2 DEF Places, PlaceOK, WsPCs, WorkerPCs, Threads
<1>4. Keys /\ Met /\ Left
  <2>1. Len(tasks) = 0
    BY <1>2
  <2>2. \A s \in Sessions : sess[s].owner = None
    BY <1>2 DEF FreshState
  <2>3. \A w \in Workers : ~Busy(w)
    BY <1>2 DEF Busy, At
  <2> QED
    BY <1>2, <2>1, <2>2, <2>3 DEF Keys, Met, Left
<1>5. Calls
  <2>1. \A s \in Sessions : /\ sess[s].http = "READING" /\ sess[s].ws = "CLOSED"
                            /\ sess[s].req = 0 /\ sess[s].con = 0 /\ sess[s].data = 0
    BY <1>2 DEF FreshState
  <2> QED
    BY <1>2, <2>1 DEF Calls, SessCalls, ThrCalls
<1>6. InTurn /\ (\A c \in Clients : Held(c)) /\ Bounds /\ One
  BY <1>2 DEF InTurn, Held, Bounds, Ending, Starting, WsPCs, One, Sure
<1>7. Replaced /\ Theirs /\ AllTended
  BY <1>2, ConstantsAssumption DEF Replaced, Swapping, Theirs, AllTended, Live, Busy, At
<1> QED
  BY <1>1, <1>3, <1>4, <1>5, <1>6, <1>7 DEF Answers

\* Every step keeps it.
LEMMA AnswersInductive == Spec => []Answers
<1>1. Init => Answers
  BY Init_Answers
<1>2. ASSUME Answers, [Next]_vars
      PROVE  /\ Places' /\ Keys' /\ Met' /\ Left' /\ Calls'
             /\ InTurn' /\ (\A c \in Clients : Held(c)') /\ Bounds' /\ One'
             /\ Replaced' /\ Theirs' /\ AllTended'
  <2>1. TypeInv
    BY <1>2 DEF Answers, IInv
  <2>2. Places' /\ Keys' /\ Met' /\ Left' /\ Calls'
    BY <1>2, <2>1, Places_Step, Keys_Step, Left_Step, Calls_Step DEF Answers
  <2>3. InTurn' /\ (\A c \in Clients : Held(c)') /\ Bounds' /\ One'
    BY <1>2, <2>1, InTurn_Step, Held_Step, Bounds_Step, One_Step DEF Answers
  <2>4. Replaced' /\ Theirs' /\ AllTended'
    BY <1>2, <2>2, Replaced_Step, Theirs_Step, Tended_Step DEF Answers
  <2> QED BY <2>2, <2>3, <2>4
<1>3. Answers' <=> /\ IInv' /\ Places' /\ Keys' /\ Met' /\ Left' /\ Calls'
                   /\ InTurn' /\ (\A c \in Clients : Held(c)') /\ Bounds' /\ One'
                   /\ Replaced' /\ Theirs' /\ AllTended'
  BY DEF Answers
<1>4. Answers => IInv
  BY DEF Answers
<1> QED
  BY <1>1, <1>2, <1>3, <1>4, Inductive, PTL DEF Spec

\* A byte that the parsing loop has seen is still in the buffer when it is popped, as
\* long as no second worker has come to the session.
THEOREM PopsSafe == Spec => []PopSafe
<1>1. Answers => PopSafe
  <2> SUFFICES ASSUME Answers, NEW w \in Workers, At(w, "pop"), ~sess[Cur(w)].mixed
               PROVE  sess[Cur(w)].buf > 0
    BY DEF PopSafe
  <2>1. w \in Threads /\ thr[w].cur \in Sessions
    BY DEF Answers, Places, PlaceOK, At, Threads
  <2> QED
    BY <2>1 DEF Answers, Calls, ThrCalls, Knows, At, Cur
<1> QED
  BY <1>1, AnswersInductive, PTL

\* The application gets a request once; a websocket's connection is reported once, after
\* its request and before its first data.
THEOREM InOrder == Spec => []CalledInOrder
<1>1. Answers => CalledInOrder
  <2> SUFFICES ASSUME Answers, NEW s \in Sessions, ~sess[s].mixed
               PROVE  /\ sess[s].req <= 1 /\ sess[s].con <= sess[s].req
                      /\ sess[s].data > 0 => sess[s].con = 1
    BY DEF CalledInOrder
  <2>1. SessCalls(s) /\ sess[s].req \in Nat /\ sess[s].con \in Nat
    BY RecType DEF Answers, IInv, Calls
  <2> QED
    BY <2>1 DEF SessCalls
<1> QED
  BY <1>1, AnswersInductive, PTL

\* A worker whose client has its socket number to itself handles that client's bytes.
THEOREM OwnClient == Spec => []OwnClientOnly
<1>1. Answers => OwnClientOnly
  <2> SUFFICES ASSUME Answers, NEW w \in Workers, NEW s \in Sessions, Attends(w, s), Apart(thr[w].cli)
               PROVE  sess[s].owner = thr[w].cli
    BY DEF OwnClientOnly
  <2>1. w \in Threads /\ thr[w].cur = s /\ Busy(w) /\ sess[s].owner \in Clients
    BY RecType DEF Answers, IInv, Owned, Attends, Busy, At, Cur, Threads
  <2>2. SocketOf[sess[s].owner] = SocketOf[thr[w].cli]
    BY <2>1 DEF Answers, Keys, SocketFor, Key
  <2>3. conn[sess[s].owner] # "new"
    BY <2>1, ConstantsAssumption DEF Answers, Met, Threads
  <2> QED
    BY <2>1, <2>2, <2>3 DEF Apart
<1> QED
  BY <1>1, AnswersInductive, PTL

\* A connected client has a session in the table, but for the moments of a swap.
THEOREM SessionHeld == Spec => []SessionWhileConnected
<1>1. Answers => SessionWhileConnected
  <2> SUFFICES ASSUME Answers, NEW c \in Clients, conn[c] = "up", thr[c].pc \in {"tcp", "listen", "append"}
               PROVE  Entry(c) \in Sessions \/ \E w \in Workers : Swapping(w) /\ Key(w) = SocketOf[c]
    BY DEF SessionWhileConnected
  <2>1. thr[c].cli = c
    BY DEF Answers, IInv, TypeInv, ThreadsOK
  <2> QED
    BY <2>1 DEF Answers, Held, Listening, Entry, Key
<1> QED
  BY <1>1, AnswersInductive, PTL

\* The session that a worker answers is the client's entry, and no one else replaces it.
THEOREM AnswerKept == Spec => []AnswerNotErased
<1>1. Answers => AnswerNotErased
  <2> SUFFICES ASSUME Answers, NEW w \in Workers, NEW s \in Sessions, NEW c, c = sess[s].owner,
                      Attends(w, s), conn[c] = "up", Apart(c), Unmixed(c)
               PROVE  table[SocketOf[c]] = s
    BY DEF AnswerNotErased
  <2>1. w \in Threads /\ thr[w].cur = s /\ Busy(w) /\ Holding(w) /\ c \in Clients
    BY RecType DEF Answers, IInv, Owned, Attends, Holding, WsPCs, Busy, At, Cur, Threads
  <2>2. thr[w].cli \in Clients /\ conn[thr[w].cli] # "new" /\ SocketOf[c] = SocketOf[thr[w].cli]
    BY <2>1 DEF Answers, IInv, TypeInv, ThreadsOK, Keys, SocketFor, Key, Met
  <2>3. thr[w].cli = c
    BY <2>1, <2>2 DEF Apart
  <2> QED
    BY <2>1, <2>3 DEF Answers, One, Sure, HeldByOne
<1> QED
  BY <1>1, AnswersInductive, PTL

\* Bytes of a connected client that no task will look at came when their session's task
\* had stopped reading: processingIncomingData loses them in no other way.
THEOREM WaitsOnlyIfLate == Spec => []StrandedOnlyIfLate
<1>1. Answers => StrandedOnlyIfLate
  <2> SUFFICES ASSUME Answers, NEW k \in Sockets, NEW s \in Sessions, s = table[k],
                      conn[sess[s].owner] = "up", sess[s].buf > 0, ~sess[s].mixed, ~HasTask(s)
               PROVE  sess[s].late
    BY DEF StrandedOnlyIfLate
  <2>1. Live(s)
    BY DEF Live
  <2> QED
    BY <2>1 DEF Answers, AllTended, Tended
<1> QED
  BY <1>1, AnswersInductive, PTL
================================================================================
