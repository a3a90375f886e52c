----------------------------- MODULE FileLockProofs -----------------------------
(***************************************************************************)
(* What every step of a lock function keeps, for any threads and any       *)
(* timeout: the lemmas that the proofs about its users rest on.            *)
(***************************************************************************)
EXTENDS FileLock, TLAPS

\* The control points of all users of the lock.
Points == {"idle", "exists", "test", "sleep", "write", "locked", "ls", "read", "open", "close",
           "unlock", "delete", "return"}

LockTypes ==
  /\ lockFile \in BOOLEAN /\ mishaps \in SUBSET {"race", "timeout"}
  /\ owner \in Threads \cup {None}
  /\ left \in [Threads -> 0..MaxTimeout]
  /\ pc \in [Threads -> Points]

\* Who waits with a timeout has some of it left.
Waits == \A t \in Threads : MaxTimeout > 0 /\ pc[t] \in {"test", "sleep"} => left[t] >= 1

\* Thread t holds the lock or has left the loop to make the lock file.
Taking(t) == Holds(t) \/ At(t, "write")

\* Why HeldOnce holds: the lock file of a thread that holds the lock is there and its own.
Owned == mishaps = {} => \A t \in Threads : Holds(t) => lockFile /\ owner = t

\* And nobody makes one while another thread holds the lock or makes one.
OneTaking == mishaps = {} => \A s, t \in Threads : Taking(s) /\ Taking(t) => s = t

LockInv == LockTypes /\ Waits /\ Owned /\ OneTaking

\* Where a lock function goes from where.
Steps(from, to) ==
  \/ from = "test" /\ to \in {"sleep", "write"}
  \/ from = "sleep" /\ to \in {"test", "write"}
  \/ from = "write" /\ to = "locked"
  \/ from = "unlock" /\ to \in {"delete", "return"}
  \/ from = "delete" /\ to = "return"

\* The lock held once is the lock owned.
LEMMA OwnedIsHeldOnce == Owned => HeldOnce
<1> SUFFICES ASSUME Owned, mishaps = {}
             PROVE  /\ \A s, t \in Threads : Holds(s) /\ Holds(t) => s = t
                    /\ \A t \in Threads : At(t, "delete") => owner = t
  BY DEF HeldOnce
<1>1. \A t \in Threads : Holds(t) => owner = t
  BY DEF Owned
<1>2. \A t \in Threads : At(t, "delete") => Holds(t)
  BY DEF At, Holds, Inside
<1> QED BY <1>1, <1>2

\* Nobody holds the lock at first.
LEMMA LockInitOk == LockInit => LockInv
<1> SUFFICES ASSUME LockInit
             PROVE  LockInv
  OBVIOUS
<1>1. LockTypes
  <2>1. left \in [Threads -> 0..MaxTimeout]
    BY LockAssumption DEF LockInit
  <2>2. pc \in [Threads -> Points]
    <3>1. "idle" \in Points
      BY DEF Points
    <3> QED BY <3>1 DEF LockInit
  <2> QED BY <2>1, <2>2 DEF LockInit, LockTypes
<1>2. \A t \in Threads : pc[t] = "idle"
  BY DEF LockInit
<1>3. Waits /\ Owned /\ OneTaking
  BY <1>2 DEF Waits, Owned, OneTaking, Taking, Holds, Inside, At
<1> QED BY <1>1, <1>3 DEF LockInv

\* Fewer threads take the lock than before.
LEMMA TakeLess ==
  ASSUME LockInv, mishaps \subseteq mishaps', \A u \in Threads : Taking(u)' => Taking(u)
  PROVE  OneTaking'
  BY DEF LockInv, OneTaking

\* Nobody takes the lock but t, who did not before.
LEMMA TakeAlone ==
  ASSUME NEW t \in Threads, pc' = [pc EXCEPT ![t] = pc'[t]], pc \in [Threads -> Points],
         mishaps' = {} => \A u \in Threads : ~Taking(u)
  PROVE  OneTaking'
<1> SUFFICES ASSUME mishaps' = {}
             PROVE  \A u \in Threads : Taking(u)' => u = t
  BY DEF OneTaking
<1> SUFFICES ASSUME NEW u \in Threads, Taking(u)', u # t
             PROVE  FALSE
  OBVIOUS
<1>1. pc'[u] = pc[u]
  OBVIOUS
<1> QED BY <1>1 DEF Taking, Holds, Inside, At

\* A step that begins no holding, and takes nothing from who holds.
LEMMA OwnLess ==
  ASSUME LockInv, mishaps \subseteq mishaps', lockFile' = lockFile, owner' = owner,
         \A u \in Threads : Holds(u)' => Holds(u)
  PROVE  Owned'
  BY DEF LockInv, Owned

\* A step of a lock function moves its thread along and keeps the invariant.
LEMMA LockKeeps ==
  ASSUME LockInv, NEW t \in Threads, Lock(t)
  PROVE  /\ LockInv'
         /\ pc' = [pc EXCEPT ![t] = pc'[t]]
         /\ Steps(pc[t], pc'[t])
<1> USE DEF At, Goto
<1>0. LockTypes
  BY DEF LockInv
<1>1. CASE waitAndLockFile_Test(t)
  <2>1. /\ pc[t] = "test" /\ pc' = [pc EXCEPT ![t] = pc'[t]] /\ pc'[t] \in {"sleep", "write"}
        /\ lockFile' = lockFile /\ owner' = owner /\ left' = left
        /\ pc'[t] = "write" <=> ~lockFile
    BY <1>0, <1>1 DEF waitAndLockFile_Test, LockTypes
  <2>2. /\ mishaps' \in SUBSET {"race", "timeout"} /\ mishaps \subseteq mishaps'
        /\ mishaps' = {} /\ ~lockFile => ~Comes
    BY <1>0, <1>1, Zenon DEF waitAndLockFile_Test, LockTypes
  <2>3. LockTypes'
    BY <1>0, <2>1, <2>2 DEF LockTypes, Points
  <2>4. Waits'
    BY <1>0, <2>1 DEF LockInv, LockTypes, Waits
  <2>5. \A u \in Threads : Holds(u)' => Holds(u)
    BY <1>0, <2>1 DEF LockTypes, Holds, Inside
  <2>6. Owned'
    BY <2>1, <2>2, <2>5, OwnLess
  <2>7. OneTaking'
    <3>1. CASE lockFile
      <4>1. \A u \in Threads : Taking(u)' => Taking(u)
        BY <1>0, <2>1, <2>5, <3>1 DEF LockTypes, Taking
      <4> QED BY <2>2, <4>1, TakeLess
    <3>2. CASE ~lockFile
      <4>1. mishaps' = {} => \A u \in Threads : ~Taking(u)
        BY <2>2, <3>2 DEF LockInv, Owned, Taking, Comes
      <4> QED BY <1>0, <2>1, <4>1, TakeAlone DEF LockTypes
    <3> QED BY <3>1, <3>2
  <2> QED BY <2>1, <2>3, <2>4, <2>6, <2>7 DEF LockInv, Steps
<1>2. CASE waitAndLockFile_Sleep(t)
  <2>1. /\ pc[t] = "sleep" /\ pc' = [pc EXCEPT ![t] = pc'[t]] /\ pc'[t] \in {"test", "write"}
        /\ lockFile' = lockFile /\ owner' = owner
    BY <1>0, <1>2 DEF waitAndLockFile_Sleep, LockTypes
  <2>2. \A u \in Threads : Holds(u)' => Holds(u)
    BY <1>0, <2>1 DEF LockTypes, Holds, Inside
  <2>3. CASE MaxTimeout > 0
    <3>1. /\ left' = [left EXCEPT ![t] = left[t] - 1]
          /\ left[t] >= 1 /\ left[t] \in 0..MaxTimeout
          /\ pc'[t] = "test" => left'[t] >= 1
          /\ pc'[t] = "write" => left'[t] <= 0
      BY <1>0, <1>2, <2>1, <2>3, LockAssumption
      DEF waitAndLockFile_Sleep, LeftAfterSleep, LockInv, LockTypes, Waits
    <3>2. /\ mishaps' \in SUBSET {"race", "timeout"} /\ mishaps \subseteq mishaps'
          /\ mishaps' = {} /\ left'[t] <= 0 => ~Comes /\ \A s \in Threads : ~Holds(s)
      BY <1>0, <1>2, <2>3, Zenon DEF waitAndLockFile_Sleep, LockTypes
    <3>3. LockTypes'
      BY <1>0, <2>1, <3>1, <3>2, LockAssumption DEF LockTypes, Points
    <3>4. Waits'
      BY <1>0, <2>1, <3>1 DEF LockInv, LockTypes, Waits
    <3>5. Owned'
      BY <2>1, <2>2, <3>2, OwnLess
    <3>6. OneTaking'
      <4>1. CASE pc'[t] = "test"
        <5>1. \A u \in Threads : Taking(u)' => Taking(u)
          BY <1>0, <2>1, <2>2, <4>1 DEF LockTypes, Taking
        <5> QED BY <3>2, <5>1, TakeLess
      <4>2. CASE pc'[t] = "write"
        <5>1. mishaps' = {} => \A u \in Threads : ~Taking(u)
          BY <3>1, <3>2, <4>2 DEF Taking, Comes
        <5> QED BY <1>0, <2>1, <5>1, TakeAlone DEF LockTypes
      <4> QED BY <2>1, <4>1, <4>2
    <3> QED BY <2>1, <3>3, <3>4, <3>5, <3>6 DEF LockInv, Steps
  <2>4. CASE ~(MaxTimeout > 0)
    <3>1. left' = left /\ mishaps' = mishaps /\ pc'[t] = "test"
      BY <1>0, <1>2, <2>4 DEF waitAndLockFile_Sleep, LockTypes
    <3>2. LockTypes'
      BY <1>0, <2>1, <3>1 DEF LockTypes, Points
    <3>3. Waits'
      BY <1>0, <2>1, <2>4, <3>1 DEF LockInv, LockTypes, Waits
    <3>4. Owned'
      BY <2>1, <2>2, <3>1, OwnLess
    <3>5. \A u \in Threads : Taking(u)' => Taking(u)
      BY <1>0, <2>1, <2>2, <3>1 DEF LockTypes, Taking
    <3>6. OneTaking'
      BY <3>1, <3>5, TakeLess
    <3> QED BY <2>1, <3>2, <3>3, <3>4, <3>6 DEF LockInv, Steps
  <2> QED BY <2>3, <2>4
<1>3. CASE waitAndLockFile_Write(t)
  <2>1. /\ pc[t] = "write" /\ pc' = [pc EXCEPT ![t] = "locked"] /\ pc'[t] = "locked"
        /\ lockFile' = TRUE /\ owner' = t /\ left' = [left EXCEPT ![t] = 0]
        /\ mishaps' = mishaps
    BY <1>0, <1>3 DEF waitAndLockFile_Write, LockTypes
  <2>2. LockTypes'
    BY <1>0, <2>1, LockAssumption DEF LockTypes, Points
  <2>3. Waits'
    BY <1>0, <2>1 DEF LockInv, LockTypes, Waits
  <2>4. Owned'
    <3> SUFFICES ASSUME mishaps' = {}, NEW u \in Threads, u # t, Holds(u)'
                 PROVE  FALSE
      BY <2>1 DEF Owned
    <3>1. Holds(u)
      BY <1>0, <2>1 DEF LockTypes, Holds, Inside
    <3>2. Taking(u) /\ Taking(t)
      BY <2>1, <3>1 DEF Taking
    <3> QED BY <2>1, <3>2 DEF LockInv, OneTaking
  <2>5. \A u \in Threads : Taking(u)' => Taking(u)
    BY <1>0, <2>1 DEF LockTypes, Taking, Holds, Inside
  <2>6. OneTaking'
    BY <2>1, <2>5, TakeLess
  <2> QED BY <2>1, <2>2, <2>3, <2>4, <2>6 DEF LockInv, Steps
<1>4. CASE unlockFile_Test(t)
  <2>1. /\ pc[t] = "unlock" /\ pc' = [pc EXCEPT ![t] = pc'[t]] /\ pc'[t] \in {"delete", "return"}
        /\ lockFile' = lockFile /\ owner' = owner /\ left' = left /\ mishaps' = mishaps
    BY <1>0, <1>4 DEF unlockFile_Test, LockTypes
  <2>2. LockTypes'
    BY <1>0, <2>1 DEF LockTypes, Points
  <2>3. Waits'
    BY <1>0, <2>1 DEF LockInv, LockTypes, Waits
  <2>4. \A u \in Threads : (Holds(u)' => Holds(u)) /\ (Taking(u)' => Taking(u))
    BY <1>0, <2>1 DEF LockTypes, Taking, Holds, Inside
  <2>5. Owned' /\ OneTaking'
    BY <2>1, <2>4, OwnLess, TakeLess
  <2> QED BY <2>1, <2>2, <2>3, <2>5 DEF LockInv, Steps
<1>5. CASE unlockFile_Delete(t)
  <2>1. /\ pc[t] = "delete" /\ pc' = [pc EXCEPT ![t] = "return"] /\ pc'[t] = "return"
        /\ lockFile' = FALSE /\ owner' = None /\ left' = left /\ mishaps' = mishaps
    BY <1>0, <1>5 DEF unlockFile_Delete, LockTypes
  <2>2. LockTypes'
    BY <1>0, <2>1 DEF LockTypes, Points
  <2>3. Waits'
    BY <1>0, <2>1 DEF LockInv, LockTypes, Waits
  <2>4. \A u \in Threads : (Holds(u)' => Holds(u) /\ u # t) /\ (Taking(u)' => Taking(u))
    BY <1>0, <2>1 DEF LockTypes, Taking, Holds, Inside
  <2>5. Owned'
    <3> SUFFICES ASSUME mishaps' = {}, NEW u \in Threads, Holds(u)'
                 PROVE  FALSE
      BY DEF Owned
    <3>1. u # t /\ Taking(u) /\ Taking(t)
      BY <2>1, <2>4 DEF Taking, Holds, Inside
    <3> QED BY <2>1, <3>1 DEF LockInv, OneTaking
  <2>6. OneTaking'
    BY <2>1, <2>4, TakeLess
  <2> QED BY <2>1, <2>2, <2>3, <2>5, <2>6 DEF LockInv, Steps
<1> QED BY <1>1, <1>2, <1>3, <1>4, <1>5 DEF Lock

\* A lock function does not forget a mishap.
LEMMA MishapsStay ==
  ASSUME NEW t \in Threads, Lock(t)
  PROVE  mishaps \subseteq mishaps'
  BY Zenon DEF Lock, waitAndLockFile_Test, waitAndLockFile_Sleep, waitAndLockFile_Write,
       unlockFile_Test, unlockFile_Delete

\* A step of a thread between the making and the removing of its lock file, which leaves the
\* lock alone.
LEMMA InsideKeeps ==
  ASSUME LockInv, NEW t \in Threads, Holds(t), NEW l \in Points,
         l \notin {"idle", "exists", "test", "sleep", "write"},
         pc' = [pc EXCEPT ![t] = l],
         lockFile' = lockFile, owner' = owner, left' = left, mishaps' = mishaps
  PROVE  LockInv'
<1>1. LockTypes'
  BY DEF LockInv, LockTypes
<1>2. Waits' /\ Owned'
  BY DEF LockInv, LockTypes, Waits, Owned, Holds, Inside, At
<1>3. \A u \in Threads : Taking(u)' => Taking(u)
  BY DEF LockInv, LockTypes, Taking, Holds, Inside, At
<1>4. OneTaking'
  BY <1>3, TakeLess
<1> QED BY <1>1, <1>2, <1>4 DEF LockInv

\* A step of a thread outside the lock, which may begin to wait for it.
LEMMA OutsideKeeps ==
  ASSUME LockInv, NEW t \in Threads, NEW l \in {"idle", "exists", "test", "return"},
         pc' = [pc EXCEPT ![t] = l],
         lockFile' = lockFile, owner' = owner, mishaps' = mishaps,
         left' = left \/ left' = [left EXCEPT ![t] = MaxTimeout],
         l = "test" => left' = [left EXCEPT ![t] = MaxTimeout]
  PROVE  LockInv'
<1>1. LockTypes'
  BY LockAssumption DEF LockInv, LockTypes, Points
<1>2. Waits'
  BY LockAssumption DEF LockInv, LockTypes, Waits
<1>3. Owned'
  BY DEF LockInv, LockTypes, Owned, Holds, Inside, At
<1>4. \A u \in Threads : Taking(u)' => Taking(u)
  BY DEF LockInv, LockTypes, Taking, Holds, Inside, At
<1>5. OneTaking'
  BY <1>4, TakeLess
<1> QED BY <1>1, <1>2, <1>3, <1>5 DEF LockInv
===============================================================================
