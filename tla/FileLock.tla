------------------------------- MODULE FileLock -------------------------------
(***************************************************************************)
(* SysLink's lock files: waitAndLockFile, unlockFile and lockFileAndRun,   *)
(* for threads that lock one and the same file.                            *)
(*                                                                         *)
(* A file is locked while <name>.lock exists.  The test for it and the     *)
(* making of it are two steps, and who has waited long enough makes it     *)
(* whoever made it before.  Time passes in sleeps of 10 milliseconds.      *)
(***************************************************************************)
EXTENDS Naturals

CONSTANTS
  Threads,      \* the threads that use the lock
  MaxTimeout,   \* maxTimeout, in sleeps; 0: no limit
  None          \* no thread

ASSUME LockAssumption == MaxTimeout \in Nat /\ None \notin Threads

VARIABLES
  lockFile,   \* the lock file exists
  owner,      \* the thread that made it and will remove it, or None
  left,       \* left[t]: the sleeps that t may still wait, 0 when it does not
  pc,         \* control point of every thread
  mishaps     \* what happened of the two things that let a second thread in: "race" and
              \* "timeout"; a history, which no step depends on

lockVars == <<lockFile, owner, left, pc, mishaps>>

LockInit ==
  /\ lockFile = FALSE
  /\ owner = None
  /\ left = [t \in Threads |-> 0]
  /\ pc = [t \in Threads |-> "idle"]
  /\ mishaps = {}

At(t, l) == pc[t] = l
Goto(t, l) == pc' = [pc EXCEPT ![t] = l]

\* Thread t has locked the file and has not unlocked it.
Inside(t) == pc[t] \notin {"idle", "exists", "test", "sleep", "write"}

\* Between the making and the removing of the lock file.
Holds(t) == Inside(t) /\ ~At(t, "return")

\* Some thread has found no lock file, or stopped waiting, and has not made its own yet.
Comes == \E s \in Threads : At(s, "write")

-----------------------------------------------------------------------------
\* Faulty variant: a thread goes on whatever it finds.
waitAndLockFile_TestNot(t) ==
  /\ At(t, "test")
  /\ mishaps' = mishaps \cup (IF ~lockFile /\ Comes THEN {"race"} ELSE {})
  /\ Goto(t, "write")
  /\ UNCHANGED <<lockFile, owner, left>>

\* The condition of the waiting loop: fileExists(lockFileName).  A race is that two
\* threads leave the loop before the first of them makes the file.
waitAndLockFile_Test(t) ==
  /\ At(t, "test")
  /\ mishaps' = mishaps \cup (IF ~lockFile /\ Comes THEN {"race"} ELSE {})
  /\ Goto(t, IF lockFile THEN "sleep" ELSE "write")
  /\ UNCHANGED <<lockFile, owner, left>>

\* Faulty variant: the timeout starts again with every sleep.
LeftAfterSleepAlways(n) == MaxTimeout

\* What is left of the timeout after a sleep.
LeftAfterSleep(n) == n - 1

\* sleep_ms(10); with a limit, the loop is left when nothing remains of it.  The timeout
\* is a mishap when the lock file is not one that was left behind: a thread holds the
\* lock, or is about to make it.
waitAndLockFile_Sleep(t) ==
  /\ At(t, "sleep")
  /\ IF MaxTimeout > 0
       THEN /\ left' = [left EXCEPT ![t] = LeftAfterSleep(@)]
            /\ Goto(t, IF left'[t] <= 0 THEN "write" ELSE "test")
            /\ mishaps' = mishaps \cup
                 (IF left'[t] <= 0 /\ (Comes \/ \E s \in Threads : Holds(s)) THEN {"timeout"} ELSE {})
       ELSE UNCHANGED <<left, mishaps>> /\ Goto(t, "test")
  /\ UNCHANGED <<lockFile, owner>>

\* writeFile(lockFileName, "locked"); the limit is no longer needed.
waitAndLockFile_Write(t) ==
  /\ At(t, "write")
  /\ lockFile' = TRUE /\ owner' = t
  /\ left' = [left EXCEPT ![t] = 0]
  /\ Goto(t, "locked")
  /\ UNCHANGED mishaps

unlockFile_Test(t) ==
  /\ At(t, "unlock")
  /\ Goto(t, IF lockFile THEN "delete" ELSE "return")
  /\ UNCHANGED <<lockFile, owner, left, mishaps>>

unlockFile_Delete(t) ==
  /\ At(t, "delete")
  /\ lockFile' = FALSE /\ owner' = None
  /\ Goto(t, "return")
  /\ UNCHANGED <<left, mishaps>>

\* The threads inside a lock function.
Lock(t) ==
  \/ waitAndLockFile_Test(t) \/ waitAndLockFile_Sleep(t) \/ waitAndLockFile_Write(t)
  \/ unlockFile_Test(t) \/ unlockFile_Delete(t)

-----------------------------------------------------------------------------
\* Threads hold the lock one at a time and remove no lock file but their own, also after a
\* function threw or the program crashed and its lock was waited for in vain, unless two
\* threads left the loop at once, or one stopped waiting for a lock that was in use.
HeldOnce ==
  mishaps = {} =>
    /\ \A s, t \in Threads : Holds(s) /\ Holds(t) => s = t
    /\ \A t \in Threads : At(t, "delete") => owner = t
===============================================================================
