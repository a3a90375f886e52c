-------------------------------- MODULE MCServer --------------------------------
(***************************************************************************)
(* Small instances of HttpExchange, for a client that waits for each       *)
(* answer before it sends again and for one that does not, and of the two  *)
(* users of SysLink's lock files, which share the lock: the data of a      *)
(* session, and the functions and listings of lockFileAndRun.  A behaviour *)
(* is one of the part that was chosen at its start.                        *)
(***************************************************************************)
EXTENDS HttpExchange, FileLock

CONSTANTS Parts

VARIABLE part

-----------------------------------------------------------------------------
(* What clients send and the application answers. *)

Waiting == INSTANCE HttpExchange WITH Pipelines <- FALSE

T(kind) == [kind |-> kind, n |-> 0]
Length(n) == [kind |-> "length", n |-> n]

Begin == <<T("verb"), T("line")>>
Body(declared, n) == Begin \o <<Length(declared), T("blank")>> \o [i \in 1..n |-> T("byte")]
Upgrade == <<T("toUpgrade"), T("upgrade")>>

\* Requests the parser takes.
GoodRequests == {
  Begin \o <<T("blank")>>,
  Body(2, 2),
  Begin \o <<T("close"), T("blank")>>,
  Begin \o Upgrade \o <<T("key"), T("blank")>>,
  Begin \o Upgrade \o <<T("blank")>>}

\* Requests it refuses.
BadRequests == {
  <<T("badVerb"), T("line"), T("blank")>>,
  <<T("verb"), T("badVersion"), T("blank")>>,
  <<T("verb"), T("badLine"), T("blank")>>}

\* Lengths at the limits of an unsigned int of 8 values, and one that is given twice.
LengthRequests == {Body(-4, 4), Body(-1, 7), Begin \o <<Length(3), Length(1), T("blank"), T("byte")>>}

AnyRequests == GoodRequests \cup BadRequests \cup LengthRequests

AppAnswers == {
  [status |-> 200, type |-> TRUE, length |-> 2],
  [status |-> 0, type |-> TRUE, length |-> 2],
  [status |-> 0, type |-> TRUE, length |-> 0]}

ASSUME ClientAssumption == CompleteRequests

\* What a client that does not wait sends at most.
MaxPipelined == 2

-----------------------------------------------------------------------------
(* Files under a lock file. *)

CONSTANTS Updates, MaxCrashes, NoList
VARIABLES exists, content, arg, data, got, used, acked, due, crashes, tmpFile, listed

Store == INSTANCE SessionStore
ASSUME StoreConstants == Store!StoreAssumption

Run == INSTANCE LockedRun

-----------------------------------------------------------------------------
storeVars == <<exists, content, arg, data, got, used, acked, due, crashes>>
runVars == <<tmpFile, listed>>
allVars == <<part, vars, lockVars, storeVars, runVars>>

AllInit == part \in Parts /\ Init /\ Store!Init /\ Run!Init

AllNext ==
  /\ UNCHANGED part
  /\ \/ /\ \/ part = "waiting" /\ Waiting!Next
           \/ part = "pipelined" /\ Next /\ asked' <= MaxPipelined
        /\ UNCHANGED <<lockVars, storeVars, runVars>>
     \/ part = "store" /\ Store!Next /\ UNCHANGED <<vars, runVars>>
     \/ part = "run" /\ Run!Next /\ UNCHANGED <<vars, storeVars>>

\* The scheduler runs every thread; nobody has to call, and nothing has to crash.
Runs(t) ==
  \/ part = "store" /\ Store!Step(t) /\ UNCHANGED <<part, vars, runVars>>
  \/ part = "run" /\ Run!Step(t) /\ UNCHANGED <<part, vars, storeVars>>

AllSpec ==
  AllInit /\ [][AllNext]_allVars /\ Fairness /\ \A t \in Threads : WF_allVars(Runs(t))

-----------------------------------------------------------------------------
\* Types of all parts.
PartsTypeOK ==
  /\ TypeOK
  /\ part = "store" => Store!TypeOK
  /\ part = "run" => Run!TypeOK

\* One answer to each request, in their order, none made of the parts of two requests:
\* RequestResponse, for a client that waits; the same for one that does not, until a
\* keep-alive throws its bytes away.
AnswersPromised ==
  Promise!Init /\ [][Promise!Next \/ (part = "pipelined" /\ dropped')]_<<asked, answers, connected>>

\* A lister gets its own listing out of the file that all listers share.
OwnListing == Run!OwnListing

\* Calls on the data of a session are atomic, and what they stored stays and is read.
StoreAtomic == Store!StoreAtomic
AcknowledgedKept == Store!AcknowledgedKept

\* Every call on a locked file returns or dies with the program, also when a lock file was
\* left behind.
CallsReturn == \A t \in Threads : ~At(t, "idle") ~> At(t, "idle")
===============================================================================
