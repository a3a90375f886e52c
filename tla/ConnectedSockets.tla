----------------------------- MODULE ConnectedSockets -----------------------------
(***************************************************************************)
(* connectedWebsockets of KWWebServerRouter: the workers that handle new   *)
(* websockets append to it, the event threads that handle disconnections   *)
(* erase from it, and threads of the application send to all of it, with   *)
(* no lock.  Each client has one thread that connects it and one that      *)
(* disconnects it, which do not wait for each other (see ClientSessions).  *)
(* Event threads disconnect with clientsSessionsStatesMutex held           *)
(* (finalizeClient), but a worker that finds an error in the frames of its *)
(* websocket (WebSocketProcess) does so without: two may be at it at once. *)
(* A sender copies the list first, one client after the other.             *)
(***************************************************************************)
EXTENDS Naturals, Sequences, FiniteSets, SequencesExt

CONSTANTS
  Clients,
  Senders,     \* threads that call sendToAll
  MaxSends,    \* bound: calls of sendToAll
  None

SocketsAssumption == IsFiniteSet(Clients) /\ None \notin Clients /\ MaxSends \in Nat

VARIABLES
  connectedWebsockets,
  joining,   \* joining[c]: OnWebSocketConnect for c, and the end of the list that it read
  leaving,   \* leaving[c]: OnWebSocketDisconnect for c, and the place that it found
  sender,    \* sender[s]: the size of the copy, what is left of it to send to, who was sent to
  sends,
  late,      \* history: clients that were joined after they had left
  raced,     \* history: the list was changed between two steps of a change
  torn,      \* history: senders for whom the list was changed while they copied it
  crashed

vars == <<connectedWebsockets, joining, leaving, sender, sends, late, raced, torn, crashed>>

Idle == [pc |-> "idle", end |-> 0, todo |-> <<>>, due |-> {}, sent |-> {}]

Init ==
  /\ connectedWebsockets = <<>>
  /\ joining = [c \in Clients |-> [pc |-> "no", end |-> 0]]
  /\ leaving = [c \in Clients |-> [pc |-> "no", place |-> 0]]
  /\ sender = [s \in Senders |-> Idle] /\ sends = 0
  /\ late = {} /\ raced = FALSE /\ torn = {} /\ crashed = FALSE

\* Somebody else is between two steps of a change.
Changing(c) ==
  \E d \in Clients : (d # c /\ joining[d].pc = "write") \/ (d # c /\ leaving[d].pc = "erase")
                     \/ (d = c /\ joining[d].pc = "write" /\ leaving[d].pc = "erase")

\* The list changes, for c.
Changed(c) ==
  /\ raced' = (raced \/ Changing(c))
  /\ torn' = torn \cup {s \in Senders : sender[s].pc = "copy"}

-----------------------------------------------------------------------------
(* OnWebSocketConnect: push_back reads where the list ends and writes there. *)

Join_Read(c) ==
  /\ ~crashed /\ joining[c].pc = "no"
  /\ joining' = [joining EXCEPT ![c] = [pc |-> "write", end |-> Len(connectedWebsockets)]]
  /\ UNCHANGED <<connectedWebsockets, leaving, sender, sends, late, raced, torn, crashed>>

\* Faulty variant: the list begins with the new client.
PushFirst(s, end, c) == <<c>>

\* The list after a client was written at what was its end: later ones are gone then, and
\* nothing tells what stands between when it got shorter.
Push(s, end, c) == Append(SubSeq(s, 1, IF end < Len(s) THEN end ELSE Len(s)), c)

Join_Write(c) ==
  /\ ~crashed /\ joining[c].pc = "write"
  /\ connectedWebsockets' = Push(connectedWebsockets, joining[c].end, c)
  /\ joining' = [joining EXCEPT ![c].pc = "joined"]
  /\ late' = IF leaving[c].pc = "no" THEN late ELSE late \cup {c}
  /\ Changed(c)
  /\ UNCHANGED <<leaving, sender, sends, crashed>>

\* The list was moved to a larger place meanwhile.
Join_Crash(c) ==
  /\ ~crashed /\ joining[c].pc = "write" /\ joining[c].end # Len(connectedWebsockets)
  /\ crashed' = TRUE
  /\ UNCHANGED <<connectedWebsockets, joining, leaving, sender, sends, late, raced, torn>>

-----------------------------------------------------------------------------
(* OnWebSocketDisconnect: find, and erase. *)

\* Where a client stands.
Places(s, c) == {i \in 1..Len(s) : s[i] = c}

Leave_Find(c) ==
  /\ ~crashed /\ leaving[c].pc = "no"
  /\ leaving' = [leaving EXCEPT ![c] =
       IF Places(connectedWebsockets, c) = {} THEN [pc |-> "left", place |-> 0]
       ELSE [pc |-> "erase", place |-> CHOOSE i \in Places(connectedWebsockets, c) : \A j \in Places(connectedWebsockets, c) : i <= j]]
  /\ UNCHANGED <<connectedWebsockets, joining, sender, sends, late, raced, torn, crashed>>

\* What stands at the place goes; when the place is not in the list any longer, nothing does.
Leave_Erase(c) ==
  /\ ~crashed /\ leaving[c].pc = "erase"
  /\ connectedWebsockets' =
       IF leaving[c].place <= Len(connectedWebsockets) THEN RemoveAt(connectedWebsockets, leaving[c].place)
       ELSE connectedWebsockets
  /\ leaving' = [leaving EXCEPT ![c].pc = "left"]
  /\ Changed(c)
  /\ UNCHANGED <<joining, sender, sends, late, crashed>>

-----------------------------------------------------------------------------
(* sendToAll: getConnectedWebsockets copies the list, whose size is read first. *)

Send_Begin(s) ==
  /\ ~crashed /\ sender[s].pc = "idle" /\ sends < MaxSends
  /\ sends' = sends + 1
  /\ sender' = [sender EXCEPT ![s] =
       [pc |-> IF connectedWebsockets = <<>> THEN "send" ELSE "copy",
        end |-> Len(connectedWebsockets), todo |-> <<>>, sent |-> {},
        due |-> {c \in Clients : joining[c].pc = "joined" /\ leaving[c].pc = "no"}]]
  /\ UNCHANGED <<connectedWebsockets, joining, leaving, late, raced, torn, crashed>>

\* What stands at a place now.  Clients that another thread is moving, and places behind the
\* end, may be empty.
Read(s, i) ==
  {connectedWebsockets[j] : j \in {i} \cap DOMAIN connectedWebsockets} \cup (IF s \in torn THEN {None} ELSE {})

Send_Copy(s) ==
  /\ ~crashed /\ sender[s].pc = "copy"
  /\ LET i == Len(sender[s].todo) + 1 IN
     \E c \in Read(s, i) :
       sender' = [sender EXCEPT ![s].todo = Append(@, c), ![s].pc = IF i = sender[s].end THEN "send" ELSE "copy"]
  /\ UNCHANGED <<connectedWebsockets, joining, leaving, sends, late, raced, torn, crashed>>

Send_One(s) ==
  /\ ~crashed /\ sender[s].pc = "send" /\ sender[s].todo # <<>> /\ Head(sender[s].todo) # None
  /\ sender' = [sender EXCEPT ![s].todo = Tail(@), ![s].sent = @ \cup {Head(sender[s].todo)}]
  /\ UNCHANGED <<connectedWebsockets, joining, leaving, sends, late, raced, torn, crashed>>

\* The list was moved to a larger place meanwhile, or there is no client in the copy.
Send_Crash(s) ==
  /\ ~crashed
  /\ \/ sender[s].pc = "copy" /\ s \in torn
     \/ sender[s].pc = "send" /\ sender[s].todo # <<>> /\ Head(sender[s].todo) = None
  /\ crashed' = TRUE
  /\ UNCHANGED <<connectedWebsockets, joining, leaving, sender, sends, late, raced, torn>>

Send_End(s) ==
  /\ ~crashed /\ sender[s].pc = "send" /\ sender[s].todo = <<>>
  /\ sender' = [sender EXCEPT ![s] = Idle] /\ torn' = torn \ {s}
  /\ UNCHANGED <<connectedWebsockets, joining, leaving, sends, late, raced, crashed>>

Over == (crashed \/ (sends = MaxSends /\ \A s \in Senders : sender[s] = Idle)) /\ UNCHANGED vars

Next ==
  \/ \E c \in Clients : Join_Read(c) \/ Join_Write(c) \/ Join_Crash(c) \/ Leave_Find(c) \/ Leave_Erase(c)
  \/ \E s \in Senders : Send_Begin(s) \/ Send_Copy(s) \/ Send_One(s) \/ Send_Crash(s) \/ Send_End(s)
  \/ Over

Spec == Init /\ [][Next]_vars

-----------------------------------------------------------------------------
TypeOK ==
  /\ connectedWebsockets \in Seq(Clients)
  /\ joining \in [Clients -> [pc : {"no", "write", "joined"}, end : 0..Cardinality(Clients)]]
  /\ leaving \in [Clients -> [pc : {"no", "erase", "left"}, place : 0..Cardinality(Clients)]]
  /\ \A s \in Senders :
       /\ sender[s].todo \in Seq(Clients \cup {None}) /\ sender[s].sent \subseteq Clients
       /\ sender[s].end \in 0..Cardinality(Clients)
  /\ sends \in 0..MaxSends /\ torn \subseteq Senders /\ late \subseteq Clients /\ raced \in BOOLEAN /\ crashed \in BOOLEAN

Listed(c) == Places(connectedWebsockets, c) # {}

\* Unless changes of the list met, a client is there as long as it is connected, once; and a
\* client that has left is there only when its connection was handled after its disconnection.
ListedWhileConnected ==
  ~raced => \A c \in Clients :
    /\ Cardinality(Places(connectedWebsockets, c)) <= 1
    /\ joining[c].pc = "joined" /\ leaving[c].pc \in {"no", "erase"} => Listed(c)
    /\ leaving[c].pc = "left" /\ Listed(c) => c \in late

\* sendToAll reaches everyone who was connected when it was called, unless a client came or
\* went while the list was copied; with the same exception.
SentToAll ==
  ~raced => \A s \in Senders \ torn :
    sender[s].pc = "send" /\ sender[s].todo = <<>> => sender[s].due \subseteq sender[s].sent

\* Without that no copy has an empty place, and the program does not stop; with the same
\* exception.
StopsOnlyTorn ==
  ~raced =>
    /\ \A s \in Senders \ torn : None \notin ToSet(sender[s].todo)
    /\ crashed => torn # {}
===============================================================================
