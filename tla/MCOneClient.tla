------------------------------ MODULE MCOneClient ------------------------------
(***************************************************************************)
(* What happens on one connection: the reader of its frames when the peer  *)
(* sends whole messages only, and its sessions and their threads.  They    *)
(* share no state here: a behaviour is one of the part that was chosen at  *)
(* its start.                                                              *)
(***************************************************************************)
EXTENDS WebSocketFrames

CONSTANTS Parts, Clients, Sockets, SocketOf, Workers, Sessions, MaxBytes, MaxChunk, None, Null

VARIABLES part, conn, recvd, table, mapLock, sess, tasks, thr, crashed

\* Messages in one masked frame, of one byte or of five, which go once round the mask.
WholeMessage == {[fin |-> TRUE, masked |-> TRUE, size |-> n] : n \in {1, 5}}
PlainFillers == {[hi |-> FALSE, lo |-> 0]}

\* The client has one socket number and sends three bytes.
OneSocket == [c \in Clients |-> CHOOSE k \in Sockets : TRUE]
ThreeBytes == [c \in Clients |-> 3]

Table == INSTANCE ClientSessions
ASSUME TableConstants == Table!ConstantsAssumption

-----------------------------------------------------------------------------
tableVars == <<conn, recvd, table, mapLock, sess, tasks, thr, crashed>>

OneInit == part \in Parts /\ Init /\ Table!Init

OneNext ==
  /\ UNCHANGED part
  /\ \/ part = "frames" /\ Next /\ UNCHANGED tableVars
     \/ part = "sessions" /\ Table!Next /\ UNCHANGED vars

\* Only the chosen part goes on, so only its steps are fair.
OneSpec ==
  /\ OneInit /\ [][OneNext]_<<part, vars, tableVars>>
  /\ \/ part = "frames" /\ Fairness
     \/ part = "sessions" /\ Table!Fairness

-----------------------------------------------------------------------------
\* Each message of the peer arrives, unless the connection or the program ends before, or its last
\* bytes come between a task's last look and the clearing of processingIncomingData and wait for
\* ever: more bytes of the peer would wake them.
EverythingDelivered ==
  \A n \in 1..MaxFrames : Len(sent) >= n ~> Len(delivered) >= n \/ ~connected \/ aborted \/ []Waiting

\* A task is taken by a thread of the pool, a request that the application has is answered or
\* its connection ends, and a client that is gone is finalized.
TasksTaken == Table!TasksTaken
RequestAnswered == Table!RequestAnswered
ClientFinalized == Table!ClientFinalized
===============================================================================
