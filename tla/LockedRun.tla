------------------------------ MODULE LockedRun ------------------------------
(***************************************************************************)
(* SysLink::lockFileAndRun and SysLink::getObjectsFromDirectory: threads   *)
(* that use one lock file around a function of their caller (which may     *)
(* throw) or around the temporary file that all listings share, each       *)
(* thread for the listing of a directory of its own.                       *)
(***************************************************************************)
EXTENDS FileLock

CONSTANT NoList   \* the temporary file is empty

VARIABLES
  tmpFile,   \* whose listing /tmp/gffd_tmp holds, or NoList
  listed     \* listed[t]: what t's call read from it, or None

vars == <<lockVars, tmpFile, listed>>

Init ==
  /\ LockInit
  /\ tmpFile = NoList
  /\ listed = [t \in Threads |-> None]

\* The call of waitAndLockFile.
Call(t) ==
  /\ At(t, "idle")
  /\ left' = [left EXCEPT ![t] = MaxTimeout]
  /\ listed' = [listed EXCEPT ![t] = None]
  /\ Goto(t, "test")
  /\ UNCHANGED <<lockFile, owner, mishaps, tmpFile>>

\* toRun() returns.
lockFileAndRun_Ran(t) ==
  /\ At(t, "locked")
  /\ Goto(t, "unlock")
  /\ UNCHANGED <<lockFile, owner, left, mishaps, tmpFile, listed>>

\* toRun() throws: nobody will remove the lock file.
lockFileAndRun_Threw(t) ==
  /\ At(t, "locked")
  /\ owner' = IF owner = t THEN None ELSE owner
  /\ Goto(t, "idle")
  /\ UNCHANGED <<lockFile, left, mishaps, tmpFile, listed>>

\* The shell empties the file before it runs ls.
getObjectsFromDirectory_Open(t) ==
  /\ At(t, "locked")
  /\ tmpFile' = NoList
  /\ Goto(t, "ls")
  /\ UNCHANGED <<lockFile, owner, left, mishaps, listed>>

getObjectsFromDirectory_Ls(t) ==
  /\ At(t, "ls")
  /\ tmpFile' = t
  /\ Goto(t, "read")
  /\ UNCHANGED <<lockFile, owner, left, mishaps, listed>>

\* Faulty variant: the file is read after it was unlocked.
getObjectsFromDirectory_ReadLate(t) ==
  \/ /\ At(t, "read")
     /\ Goto(t, "unlock")
     /\ UNCHANGED <<lockFile, owner, left, mishaps, tmpFile, listed>>
  \/ /\ At(t, "return")
     /\ listed' = [listed EXCEPT ![t] = tmpFile]
     /\ Goto(t, "idle")
     /\ UNCHANGED <<lockFile, owner, left, mishaps, tmpFile>>

getObjectsFromDirectory_Read(t) ==
  /\ At(t, "read")
  /\ listed' = [listed EXCEPT ![t] = tmpFile]
  /\ Goto(t, "unlock")
  /\ UNCHANGED <<lockFile, owner, left, mishaps, tmpFile>>

Return(t) ==
  /\ At(t, "return")
  /\ Goto(t, "idle")
  /\ UNCHANGED <<lockFile, owner, left, mishaps, tmpFile, listed>>

\* What a thread does when it runs.
Step(t) ==
  \/ Lock(t) /\ UNCHANGED <<tmpFile, listed>>
  \/ lockFileAndRun_Ran(t) \/ lockFileAndRun_Threw(t)
  \/ getObjectsFromDirectory_Open(t) \/ getObjectsFromDirectory_Ls(t)
  \/ getObjectsFromDirectory_Read(t) \/ Return(t)

Next == \E t \in Threads : Call(t) \/ Step(t)

Spec == Init /\ [][Next]_vars

-----------------------------------------------------------------------------
TypeOK ==
  /\ lockFile \in BOOLEAN /\ mishaps \in SUBSET {"race", "timeout"}
  /\ owner \in Threads \cup {None}
  /\ left \in [Threads -> 0..MaxTimeout]
  /\ pc \in [Threads -> {"idle", "test", "sleep", "write", "locked", "ls", "read",
                         "unlock", "delete", "return"}]
  /\ tmpFile \in Threads \cup {NoList}
  /\ listed \in [Threads -> Threads \cup {NoList, None}]

\* A lister gets the listing of its own directory, once it has listed it, although all
\* listings share one temporary file, unless threads raced for the lock or one stopped
\* waiting for it while it was in use.
OwnListing == mishaps = {} => \A t \in Threads : listed[t] \in {None, t}
===============================================================================
