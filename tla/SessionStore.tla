----------------------------- MODULE SessionStore -----------------------------
(***************************************************************************)
(* HttpSession::setSessionData and getSessionData on the file of one       *)
(* session, under the lock file of SysLink, with crashes of the program.   *)
(*                                                                         *)
(* The data of a session is a set of updates: every call of setSessionData *)
(* adds a property of its own.                                             *)
(***************************************************************************)
EXTENDS FileLock

CONSTANTS
  Updates,     \* the updates, each used by at most one call
  MaxCrashes   \* bound on crashes

StoreAssumption == MaxCrashes \in Nat /\ None \notin Updates

VARIABLES
  exists,   \* the session file exists
  content,  \* what readFile makes of it: a set of updates, empty when there is no file
  arg,      \* arg[t]: the update t's call of setSessionData brings, or None
  data,     \* data[t]: the merged data t will write, or nothing
  got,      \* got[t]: what t's last getSessionData returned
  used,     \* the updates that were brought
  acked,    \* the updates whose call has returned
  due,      \* due[t]: those that had when t called
  crashes   \* how often the program was restarted

file == <<exists, content>>
sessionVars == <<file, arg, data, got, used, acked, due, crashes>>
vars == <<lockVars, sessionVars>>

Init ==
  /\ LockInit
  /\ exists = FALSE /\ content = {}
  /\ arg = [t \in Threads |-> None]
  /\ data = [t \in Threads |-> {}]
  /\ got = [t \in Threads |-> {}]
  /\ used = {} /\ acked = {}
  /\ due = [t \in Threads |-> {}]
  /\ crashes = 0

-----------------------------------------------------------------------------
setSessionData_Call(t, u) ==
  /\ At(t, "idle")
  /\ used' = used \cup {u}
  /\ arg' = [arg EXCEPT ![t] = u]
  /\ left' = [left EXCEPT ![t] = MaxTimeout]
  /\ Goto(t, "test")
  /\ UNCHANGED <<lockFile, owner, mishaps, file, data, got, acked, due, crashes>>

getSessionData_Call(t) ==
  /\ At(t, "idle")
  /\ due' = [due EXCEPT ![t] = acked]
  /\ Goto(t, "exists")
  /\ UNCHANGED <<lockFile, owner, left, mishaps, file, arg, data, got, used, acked, crashes>>

\* fileExists(sessionFileName), asked without the lock.
getSessionData_Exists(t) ==
  /\ At(t, "exists")
  /\ IF ~exists
       THEN got' = [got EXCEPT ![t] = {}] /\ Goto(t, "return") /\ UNCHANGED left
       ELSE left' = [left EXCEPT ![t] = MaxTimeout] /\ Goto(t, "test") /\ UNCHANGED got
  /\ UNCHANGED <<lockFile, owner, mishaps, file, arg, data, used, acked, due, crashes>>

getSessionData_Read(t) ==
  /\ At(t, "locked") /\ arg[t] = None
  /\ got' = [got EXCEPT ![t] = content]
  /\ Goto(t, "unlock")
  /\ UNCHANGED <<lockFile, owner, left, mishaps, file, arg, data, used, acked, due, crashes>>

\* What setSessionData makes of the existing data; faulty variant: only the new data.
MergedNot(t) == {arg[t]}

Merged(t) == content \cup {arg[t]}

setSessionData_Read(t) ==
  /\ At(t, "locked") /\ arg[t] # None
  /\ data' = [data EXCEPT ![t] = Merged(t)]
  /\ Goto(t, "open")
  /\ UNCHANGED <<lockFile, owner, left, mishaps, file, arg, got, used, acked, due, crashes>>

\* writeFile: opening the file makes it or empties it.
setSessionData_Open(t) ==
  /\ At(t, "open")
  /\ exists' = TRUE /\ content' = {}
  /\ Goto(t, "close")
  /\ UNCHANGED <<lockFile, owner, left, mishaps, arg, data, got, used, acked, due, crashes>>

\* writeFile: closing it writes the data.
setSessionData_Close(t) ==
  /\ At(t, "close")
  /\ content' = data[t] /\ data' = [data EXCEPT ![t] = {}]
  /\ Goto(t, "unlock")
  /\ UNCHANGED <<lockFile, owner, left, mishaps, exists, arg, got, used, acked, due, crashes>>

Return(t) ==
  /\ At(t, "return")
  /\ acked' = acked \cup ({arg[t]} \ {None})
  /\ arg' = [arg EXCEPT ![t] = None] /\ due' = [due EXCEPT ![t] = {}]
  /\ Goto(t, "idle")
  /\ UNCHANGED <<lockFile, owner, left, mishaps, file, data, got, used, crashes>>

\* The program ends in the middle of whatever its threads do, and starts again.  The
\* files stay as they are.
Crash ==
  /\ crashes < MaxCrashes
  /\ crashes' = crashes + 1
  /\ owner' = None
  /\ pc' = [t \in Threads |-> "idle"] /\ left' = [t \in Threads |-> 0]
  /\ arg' = [t \in Threads |-> None]
  /\ data' = [t \in Threads |-> {}] /\ got' = [t \in Threads |-> {}] /\ due' = [t \in Threads |-> {}]
  /\ UNCHANGED <<lockFile, mishaps, file, used, acked>>

-----------------------------------------------------------------------------
\* What a thread does when it runs.
Step(t) ==
  \/ Lock(t) /\ UNCHANGED sessionVars
  \/ getSessionData_Exists(t) \/ getSessionData_Read(t)
  \/ setSessionData_Read(t) \/ setSessionData_Open(t) \/ setSessionData_Close(t)
  \/ Return(t)

Call(t) == getSessionData_Call(t) \/ \E u \in Updates \ used : setSessionData_Call(t, u)

Next == Crash \/ \E t \in Threads : Call(t) \/ Step(t)

Spec == Init /\ [][Next]_vars

-----------------------------------------------------------------------------
TypeOK ==
  /\ lockFile \in BOOLEAN /\ mishaps \in SUBSET {"race", "timeout"}
  /\ owner \in Threads \cup {None}
  /\ left \in [Threads -> 0..MaxTimeout]
  /\ pc \in [Threads -> {"idle", "exists", "test", "sleep", "write", "locked", "open", "close",
                         "unlock", "delete", "return"}]
  /\ exists \in BOOLEAN /\ content \in SUBSET Updates
  /\ arg \in [Threads -> Updates \cup {None}]
  /\ data \in [Threads -> SUBSET Updates] /\ got \in [Threads -> SUBSET Updates]
  /\ used \in SUBSET Updates /\ acked \in SUBSET used
  /\ due \in [Threads -> SUBSET acked]
  /\ crashes \in 0..MaxCrashes

\* What the file holds, or will when the thread that has emptied it closes it.
Stored ==
  IF \E t \in Threads : At(t, "close")
    THEN data[CHOOSE t \in Threads : At(t, "close")]
    ELSE content

Store == INSTANCE AtomicStore WITH
  Threads <- Threads, Updates <- Updates, stored <- Stored, got <- got, crashes <- crashes

\* Reading, merging and writing the file of a session is one atomic update, and
\* reading it is one atomic read, until two threads race for the lock or one stops
\* waiting for it while it is in use.  A crash may empty the file.
StoreAtomic == Store!Init /\ [][Store!Next \/ mishaps' # {}]_<<Stored, got, crashes>>

\* Without a crash, a race for the lock or a timeout while it is in use, an update whose call
\* has returned is in the file, or will be when the thread that has emptied it closes it; and
\* getSessionData returns every update whose call had returned before, though it looks for
\* the file without the lock.
AcknowledgedKept ==
  mishaps = {} /\ crashes = 0 =>
    /\ acked \subseteq Stored
    /\ \A t \in Threads : At(t, "return") /\ arg[t] = None => due[t] \subseteq got[t]
===============================================================================
