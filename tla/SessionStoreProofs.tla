--------------------------- MODULE SessionStoreProofs ---------------------------
(***************************************************************************)
(* For any threads, updates, timeouts and crashes: the file of a session   *)
(* implements AtomicStore and keeps what was acknowledged, as long as no   *)
(* threads race for its lock and none stops waiting while it is in use.    *)
(***************************************************************************)
EXTENDS SessionStore, FileLockProofs

StorePoints ==
  {"idle", "exists", "test", "sleep", "write", "locked", "open", "close", "unlock", "delete", "return"}

\* TypeOK without what LockInv says already.
StoreTypes ==
  /\ pc \in [Threads -> StorePoints]
  /\ exists \in BOOLEAN /\ content \in SUBSET Updates
  /\ arg \in [Threads -> Updates \cup {None}]
  /\ data \in [Threads -> SUBSET Updates] /\ got \in [Threads -> SUBSET Updates]
  /\ used \in SUBSET Updates /\ acked \in SUBSET used
  /\ due \in [Threads -> SUBSET acked]
  /\ crashes \in 0..MaxCrashes

\* What the calls are: getSessionData has no update, and only setSessionData writes, its own.
Calls ==
  \A t \in Threads :
    /\ pc[t] \in {"idle", "exists"} => arg[t] = None
    /\ pc[t] \in {"open", "close"} => arg[t] # None /\ arg[t] \in data[t]
    /\ arg[t] # None => arg[t] \in used

\* Without its file a session has no data, and nobody is writing any.
NoFile == ~exists => content = {} /\ \A t \in Threads : pc[t] # "close"

\* Why an update is atomic: what a thread read stays true while it writes.
Writing ==
  mishaps = {} => \A t \in Threads :
    /\ pc[t] = "open" => data[t] = content \cup {arg[t]}
    /\ pc[t] = "close" => content = {}

\* Why what was acknowledged stays: it is stored before its call returns.
Kept ==
  mishaps = {} /\ crashes = 0 =>
    /\ acked \subseteq Stored
    /\ \A t \in Threads : pc[t] \in {"unlock", "delete", "return"} =>
         IF arg[t] = None THEN due[t] \subseteq got[t] ELSE arg[t] \in Stored

IInv == LockInv /\ StoreTypes /\ Calls /\ NoFile /\ Writing /\ Kept

-----------------------------------------------------------------------------
LEMMA TypesSplit == LockInv => (TypeOK <=> StoreTypes)
  BY DEF LockInv, LockTypes, TypeOK, StoreTypes, StorePoints

\* Two threads cannot be inside.
LEMMA Alone ==
  ASSUME LockInv, mishaps = {}, NEW s \in Threads, NEW t \in Threads, Holds(s), Holds(t)
  PROVE  s = t
  BY DEF LockInv, OneTaking, Taking

\* What is stored is what the only thread that writes will write, or else the content.
StoredIs ==
  /\ \A t \in Threads : pc[t] = "close" => Stored = data[t]
  /\ (\A t \in Threads : pc[t] # "close") => Stored = content

LEMMA StoredNow == LockInv /\ mishaps = {} => StoredIs
<1> SUFFICES ASSUME LockInv, mishaps = {}
             PROVE  StoredIs
  OBVIOUS
<1>1. \A s, t \in Threads : At(s, "close") /\ At(t, "close") => s = t
  BY Alone DEF At, Holds, Inside
<1>2. ASSUME NEW t \in Threads, pc[t] = "close"
      PROVE  Stored = data[t]
  BY <1>1, <1>2 DEF Stored, At
<1> QED BY <1>2 DEF StoredIs, Stored, At

\* The same for the next state.
LEMMA StoredThen == (LockInv /\ mishaps = {})' => StoredIs'
  BY StoredNow, PTL

\* A thread inside that is not writing knows that nobody is.
LEMMA NobodyCloses ==
  ASSUME LockInv, mishaps = {}, NEW t \in Threads, Holds(t), pc[t] # "close"
  PROVE  \A s \in Threads : pc[s] # "close"
  BY Alone DEF At, Holds, Inside

\* A step that neither begins nor ends the writing leaves what is stored.
LEMMA StoredStays ==
  ASSUME LockInv, LockInv', mishaps = {}, mishaps' = {}, content' = content,
         NEW t \in Threads, NEW l, pc \in [Threads -> StorePoints],
         pc' = [pc EXCEPT ![t] = l], pc[t] # "close", l # "close",
         \A s \in Threads : s # t => data'[s] = data[s]
  PROVE  Stored' = Stored
<1>1. StoredIs /\ StoredIs'
  BY StoredNow, StoredThen
<1>2. CASE \E s \in Threads : pc[s] = "close"
  <2>1. PICK s \in Threads : pc[s] = "close"
    BY <1>2
  <2>2. s # t /\ pc'[s] = "close" /\ data'[s] = data[s]
    BY <2>1
  <2> QED BY <1>1, <2>1, <2>2 DEF StoredIs
<1>3. CASE \A s \in Threads : pc[s] # "close"
  <2>1. \A s \in Threads : pc'[s] # "close"
    BY <1>3
  <2> QED BY <1>1, <1>3, <2>1 DEF StoredIs
<1> QED BY <1>2, <1>3

LEMMA StoreInit == ASSUME StoreAssumption, Init PROVE IInv
<1>1. LockInv
  BY LockInitOk DEF Init
<1>2. StoreTypes
  <2>1. "idle" \in StorePoints
    BY DEF StorePoints
  <2>2. 0 \in 0..MaxCrashes
    BY DEF StoreAssumption
  <2> QED BY <2>1, <2>2 DEF StoreTypes, Init, LockInit
<1>3. Calls /\ NoFile /\ Writing /\ Kept
  BY DEF Init, LockInit, Calls, NoFile, Writing, Kept
<1> QED BY <1>1, <1>2, <1>3 DEF IInv

\* What a step is to AtomicStore.
Refines == mishaps' # {} \/ Store!Next \/ UNCHANGED <<Stored, got, crashes>>

\* The types as facts about the variables.
LEMMA Types ==
  ASSUME IInv
  PROVE  /\ LockInv /\ pc \in [Threads -> StorePoints] /\ left \in [Threads -> 0..MaxTimeout]
         /\ content \in SUBSET Updates /\ arg \in [Threads -> Updates \cup {None}]
         /\ data \in [Threads -> SUBSET Updates] /\ got \in [Threads -> SUBSET Updates]
         /\ used \in SUBSET Updates /\ acked \in SUBSET used /\ due \in [Threads -> SUBSET acked]
         /\ crashes \in 0..MaxCrashes /\ exists \in BOOLEAN
  BY DEF IInv, LockInv, LockTypes, StoreTypes

-----------------------------------------------------------------------------
(* The calls. *)

LEMMA SetCalled ==
  ASSUME StoreAssumption, IInv, NEW t \in Threads, NEW u \in Updates, setSessionData_Call(t, u)
  PROVE  IInv' /\ Refines
<1> USE DEF At, Goto
<1>1. /\ pc[t] = "idle" /\ pc' = [pc EXCEPT ![t] = "test"] /\ used' = used \cup {u}
      /\ arg' = [arg EXCEPT ![t] = u] /\ left' = [left EXCEPT ![t] = MaxTimeout]
      /\ lockFile' = lockFile /\ owner' = owner /\ mishaps' = mishaps
      /\ exists' = exists /\ content' = content /\ data' = data /\ got' = got
      /\ acked' = acked /\ due' = due /\ crashes' = crashes
  BY DEF setSessionData_Call, file
<1>2. LockInv'
  BY <1>1, Types, OutsideKeeps
<1>3. StoreTypes'
  BY <1>1, Types DEF StoreTypes, StorePoints
<1>4. Calls' /\ NoFile' /\ Writing'
  BY <1>1, Types DEF IInv, Calls, NoFile, Writing
<1>5. mishaps = {} => Stored' = Stored
  BY <1>1, <1>2, Types, StoredStays
<1>6. Kept'
  BY <1>1, <1>5, Types DEF IInv, Kept
<1> QED BY <1>1, <1>2, <1>3, <1>4, <1>5, <1>6 DEF IInv, Refines

LEMMA GetCalled ==
  ASSUME IInv, NEW t \in Threads, getSessionData_Call(t)
  PROVE  IInv' /\ Refines
<1> USE DEF At, Goto
<1>1. /\ pc[t] = "idle" /\ pc' = [pc EXCEPT ![t] = "exists"] /\ due' = [due EXCEPT ![t] = acked]
      /\ lockFile' = lockFile /\ owner' = owner /\ mishaps' = mishaps /\ left' = left
      /\ exists' = exists /\ content' = content /\ data' = data /\ got' = got
      /\ acked' = acked /\ arg' = arg /\ used' = used /\ crashes' = crashes
  BY DEF getSessionData_Call, file
<1>2. LockInv'
  BY <1>1, Types, OutsideKeeps
<1>3. StoreTypes'
  BY <1>1, Types DEF StoreTypes, StorePoints
<1>4. Calls' /\ NoFile' /\ Writing'
  BY <1>1, Types DEF IInv, Calls, NoFile, Writing
<1>5. mishaps = {} => Stored' = Stored
  BY <1>1, <1>2, Types, StoredStays
<1>6. Kept'
  BY <1>1, <1>5, Types DEF IInv, Kept
<1> QED BY <1>1, <1>2, <1>3, <1>4, <1>5, <1>6 DEF IInv, Refines

\* There is no file: nothing was acknowledged, nothing is stored, and nothing is returned.
LEMMA FileMissing ==
  ASSUME IInv, NEW t \in Threads, getSessionData_Exists(t), ~exists
  PROVE  IInv' /\ Refines
<1> USE DEF At, Goto
<1>1. /\ pc[t] = "exists" /\ pc' = [pc EXCEPT ![t] = "return"] /\ got' = [got EXCEPT ![t] = {}]
      /\ lockFile' = lockFile /\ owner' = owner /\ mishaps' = mishaps /\ left' = left
      /\ exists' = exists /\ content' = content /\ data' = data /\ due' = due
      /\ acked' = acked /\ arg' = arg /\ used' = used /\ crashes' = crashes
  BY DEF getSessionData_Exists, file
<1>2. LockInv'
  BY <1>1, Types, OutsideKeeps
<1>3. StoreTypes'
  BY <1>1, Types DEF StoreTypes, StorePoints
<1>4. Calls' /\ NoFile' /\ Writing'
  BY <1>1, Types DEF IInv, Calls, NoFile, Writing
<1>5. mishaps = {} => Stored' = Stored /\ Stored = {}
  <2>1. mishaps = {} => Stored' = Stored
    BY <1>1, <1>2, Types, StoredStays
  <2>2. mishaps = {} => Stored = {}
    BY StoredNow DEF IInv, NoFile, StoredIs
  <2> QED BY <2>1, <2>2
<1>6. Kept'
  <2>1. arg[t] = None
    BY <1>1 DEF IInv, Calls
  <2>2. due[t] \subseteq acked
    BY Types
  <2> QED BY <1>1, <1>5, <2>1, <2>2, Types DEF IInv, Kept
<1>7. mishaps = {} => Store!Read(t)
  BY <1>1, <1>5 DEF Store!Read
<1> QED BY <1>1, <1>2, <1>3, <1>4, <1>6, <1>7 DEF IInv, Refines, Store!Next

LEMMA FileThere ==
  ASSUME IInv, NEW t \in Threads, getSessionData_Exists(t), exists
  PROVE  IInv' /\ Refines
<1> USE DEF At, Goto
<1>1. /\ pc[t] = "exists" /\ pc' = [pc EXCEPT ![t] = "test"] /\ left' = [left EXCEPT ![t] = MaxTimeout]
      /\ lockFile' = lockFile /\ owner' = owner /\ mishaps' = mishaps /\ got' = got
      /\ exists' = exists /\ content' = content /\ data' = data /\ due' = due
      /\ acked' = acked /\ arg' = arg /\ used' = used /\ crashes' = crashes
  BY DEF getSessionData_Exists, file
<1>2. LockInv'
  BY <1>1, Types, OutsideKeeps
<1>3. StoreTypes'
  BY <1>1, Types DEF StoreTypes, StorePoints
<1>4. Calls' /\ NoFile' /\ Writing'
  BY <1>1, Types DEF IInv, Calls, NoFile, Writing
<1>5. mishaps = {} => Stored' = Stored
  BY <1>1, <1>2, Types, StoredStays
<1>6. Kept'
  BY <1>1, <1>5, Types DEF IInv, Kept
<1> QED BY <1>1, <1>2, <1>3, <1>4, <1>5, <1>6 DEF IInv, Refines

-----------------------------------------------------------------------------
(* Under the lock. *)

LEMMA DataRead ==
  ASSUME IInv, NEW t \in Threads, getSessionData_Read(t)
  PROVE  IInv' /\ Refines
<1> USE DEF At, Goto
<1>1. /\ pc[t] = "locked" /\ arg[t] = None /\ pc' = [pc EXCEPT ![t] = "unlock"]
      /\ got' = [got EXCEPT ![t] = content]
      /\ lockFile' = lockFile /\ owner' = owner /\ mishaps' = mishaps /\ left' = left
      /\ exists' = exists /\ content' = content /\ data' = data /\ due' = due
      /\ acked' = acked /\ arg' = arg /\ used' = used /\ crashes' = crashes
  BY DEF getSessionData_Read, file
<1>2. Holds(t) /\ "unlock" \in Points
  BY <1>1 DEF Holds, Inside, Points
<1>3. LockInv'
  BY <1>1, <1>2, Types, InsideKeeps
<1>4. StoreTypes'
  BY <1>1, Types DEF StoreTypes, StorePoints
<1>5. Calls' /\ NoFile' /\ Writing'
  BY <1>1, Types DEF IInv, Calls, NoFile, Writing
<1>6. mishaps = {} => Stored' = Stored /\ Stored = content
  <2>1. mishaps = {} => Stored' = Stored
    BY <1>1, <1>3, Types, StoredStays
  <2>2. mishaps = {} => Stored = content
    BY <1>1, <1>2, Types, NobodyCloses, StoredNow DEF StoredIs
  <2> QED BY <2>1, <2>2
<1>7. Kept'
  <2>1. due[t] \subseteq acked
    BY Types
  <2> QED BY <1>1, <1>6, <2>1, Types DEF IInv, Kept
<1>8. mishaps = {} => Store!Read(t)
  BY <1>1, <1>6 DEF Store!Read
<1> QED BY <1>1, <1>3, <1>4, <1>5, <1>7, <1>8 DEF IInv, Refines, Store!Next

LEMMA DataMerged ==
  ASSUME IInv, NEW t \in Threads, setSessionData_Read(t)
  PROVE  IInv' /\ Refines
<1> USE DEF At, Goto
<1>1. /\ pc[t] = "locked" /\ arg[t] # None /\ pc' = [pc EXCEPT ![t] = "open"]
      /\ data' = [data EXCEPT ![t] = content \cup {arg[t]}]
      /\ lockFile' = lockFile /\ owner' = owner /\ mishaps' = mishaps /\ left' = left
      /\ exists' = exists /\ content' = content /\ got' = got /\ due' = due
      /\ acked' = acked /\ arg' = arg /\ used' = used /\ crashes' = crashes
  BY DEF setSessionData_Read, Merged, file
<1>2. Holds(t) /\ "open" \in Points
  BY <1>1 DEF Holds, Inside, Points
<1>3. LockInv'
  BY <1>1, <1>2, Types, InsideKeeps
<1>4. StoreTypes'
  BY <1>1, Types DEF StoreTypes, StorePoints
<1>5. Calls' /\ NoFile' /\ Writing'
  BY <1>1, Types DEF IInv, Calls, NoFile, Writing
<1>6. mishaps = {} => Stored' = Stored
  BY <1>1, <1>3, Types, StoredStays
<1>7. Kept'
  BY <1>1, <1>6, Types DEF IInv, Kept
<1> QED BY <1>1, <1>3, <1>4, <1>5, <1>6, <1>7 DEF IInv, Refines

\* The file is emptied: from now on what the thread will write is what is stored.
LEMMA FileOpened ==
  ASSUME IInv, NEW t \in Threads, setSessionData_Open(t)
  PROVE  IInv' /\ Refines
<1> USE DEF At, Goto
<1>1. /\ pc[t] = "open" /\ pc' = [pc EXCEPT ![t] = "close"]
      /\ lockFile' = lockFile /\ owner' = owner /\ mishaps' = mishaps /\ left' = left
      /\ exists' = TRUE /\ content' = {} /\ data' = data /\ got' = got /\ due' = due
      /\ acked' = acked /\ arg' = arg /\ used' = used /\ crashes' = crashes
  BY DEF setSessionData_Open
<1>2. Holds(t) /\ "close" \in Points
  BY <1>1 DEF Holds, Inside, Points
<1>3. LockInv'
  BY <1>1, <1>2, Types, InsideKeeps
<1>4. StoreTypes'
  BY <1>1, Types DEF StoreTypes, StorePoints
<1>5. Calls' /\ NoFile'
  BY <1>1, Types DEF IInv, Calls, NoFile
<1>6. Writing'
  <2>1. mishaps = {} => \A s \in Threads : s # t => pc[s] # "open"
    BY <1>1, <1>2, Types, Alone DEF Holds, Inside
  <2> QED BY <1>1, <2>1, Types DEF Writing
<1>7. mishaps = {} => Stored' = Stored \cup {arg[t]}
  <2>1. mishaps = {} => Stored = content
    BY <1>1, <1>2, Types, NobodyCloses, StoredNow DEF StoredIs
  <2>2. mishaps = {} => Stored' = data[t]
    BY <1>1, <1>3, Types, StoredThen DEF StoredIs
  <2> QED BY <1>1, <2>1, <2>2 DEF IInv, Writing
<1>8. Kept'
  BY <1>1, <1>7, Types DEF IInv, Kept
<1>9. mishaps = {} => Store!Next \/ UNCHANGED <<Stored, got, crashes>>
  <2>1. arg[t] \in Updates
    BY <1>1, Types DEF IInv, Calls
  <2>2. CASE arg[t] \in Stored
    BY <1>1, <1>7, <2>2
  <2>3. CASE arg[t] \notin Stored
    BY <1>1, <1>7, <2>1, <2>3 DEF Store!Next, Store!Update
  <2> QED BY <2>2, <2>3
<1> QED BY <1>1, <1>3, <1>4, <1>5, <1>6, <1>8, <1>9 DEF IInv, Refines

LEMMA FileClosed ==
  ASSUME IInv, NEW t \in Threads, setSessionData_Close(t)
  PROVE  IInv' /\ Refines
<1> USE DEF At, Goto
<1>1. /\ pc[t] = "close" /\ pc' = [pc EXCEPT ![t] = "unlock"]
      /\ content' = data[t] /\ data' = [data EXCEPT ![t] = {}]
      /\ lockFile' = lockFile /\ owner' = owner /\ mishaps' = mishaps /\ left' = left
      /\ exists' = exists /\ got' = got /\ due' = due
      /\ acked' = acked /\ arg' = arg /\ used' = used /\ crashes' = crashes
  BY DEF setSessionData_Close
<1>2. Holds(t) /\ "unlock" \in Points
  BY <1>1 DEF Holds, Inside, Points
<1>3. LockInv'
  BY <1>1, <1>2, Types, InsideKeeps
<1>4. StoreTypes'
  BY <1>1, Types DEF StoreTypes, StorePoints
<1>5. Calls' /\ NoFile'
  BY <1>1, Types DEF IInv, Calls, NoFile
<1>6. mishaps = {} => \A s \in Threads : s # t => pc[s] \notin {"open", "close"}
  BY <1>1, <1>2, Types, Alone DEF Holds, Inside
<1>7. Writing'
  BY <1>1, <1>6, Types DEF Writing
<1>8. mishaps = {} => Stored' = Stored /\ Stored = data[t]
  <2>1. mishaps = {} => Stored = data[t]
    BY <1>1, Types, StoredNow DEF StoredIs
  <2>2. mishaps = {} => Stored' = content'
    BY <1>1, <1>3, <1>6, Types, StoredThen DEF StoredIs
  <2> QED BY <1>1, <2>1, <2>2
<1>9. Kept'
  <2>1. arg[t] # None /\ arg[t] \in data[t]
    BY <1>1 DEF IInv, Calls
  <2> QED BY <1>1, <1>8, <2>1, Types DEF IInv, Kept
<1> QED BY <1>1, <1>3, <1>4, <1>5, <1>7, <1>8, <1>9 DEF IInv, Refines

-----------------------------------------------------------------------------
(* The lock, returns and crashes. *)

LEMMA Locks ==
  ASSUME IInv, NEW t \in Threads, Lock(t), UNCHANGED sessionVars
  PROVE  IInv' /\ Refines
<1>1. LockInv' /\ pc' = [pc EXCEPT ![t] = pc'[t]] /\ Steps(pc[t], pc'[t])
  BY LockKeeps DEF IInv
<1>2. /\ exists' = exists /\ content' = content /\ data' = data /\ got' = got /\ due' = due
      /\ acked' = acked /\ arg' = arg /\ used' = used /\ crashes' = crashes
  BY DEF sessionVars, file
<1>3. mishaps' = {} => mishaps = {}
  BY MishapsStay
<1>4. /\ pc'[t] \in {"test", "sleep", "write", "locked", "delete", "return"}
      /\ pc[t] \in {"test", "sleep", "write", "unlock", "delete"}
      /\ pc'[t] \in {"delete", "return"} => pc[t] \in {"unlock", "delete"}
  BY <1>1 DEF Steps
<1>5. StoreTypes'
  <2>1. pc' \in [Threads -> StorePoints]
    BY <1>1, <1>4, Types DEF StorePoints
  <2> QED BY <1>2, <2>1, Types DEF StoreTypes
<1>6. Calls' /\ NoFile'
  BY <1>1, <1>2, <1>4, Types DEF IInv, Calls, NoFile
<1>7. Writing'
  BY <1>1, <1>2, <1>3, <1>4, Types DEF IInv, Writing
<1>8. mishaps' = {} => Stored' = Stored
  BY <1>1, <1>2, <1>3, <1>4, Types, StoredStays
<1>9. Kept'
  BY <1>1, <1>2, <1>3, <1>4, <1>8, Types DEF IInv, Kept
<1> QED BY <1>1, <1>2, <1>5, <1>6, <1>7, <1>8, <1>9 DEF IInv, Refines

LEMMA Returns ==
  ASSUME IInv, NEW t \in Threads, Return(t)
  PROVE  IInv' /\ Refines
<1> USE DEF At, Goto
<1>1. /\ pc[t] = "return" /\ pc' = [pc EXCEPT ![t] = "idle"]
      /\ acked' = acked \cup ({arg[t]} \ {None})
      /\ arg' = [arg EXCEPT ![t] = None] /\ due' = [due EXCEPT ![t] = {}]
      /\ lockFile' = lockFile /\ owner' = owner /\ mishaps' = mishaps /\ left' = left
      /\ exists' = exists /\ content' = content /\ data' = data /\ got' = got
      /\ used' = used /\ crashes' = crashes
  BY DEF Return, file
<1>2. LockInv'
  BY <1>1, Types, OutsideKeeps
<1>3. StoreTypes'
  <2>1. acked' \in SUBSET used'
    BY <1>1, Types DEF IInv, Calls
  <2>2. due' \in [Threads -> SUBSET acked']
    BY <1>1, Types
  <2>3. pc' \in [Threads -> StorePoints] /\ arg' \in [Threads -> Updates \cup {None}]
    BY <1>1, Types DEF StorePoints
  <2> QED BY <1>1, <2>1, <2>2, <2>3, Types DEF StoreTypes
<1>4. Calls' /\ NoFile' /\ Writing'
  BY <1>1, Types DEF IInv, Calls, NoFile, Writing
<1>5. mishaps = {} => Stored' = Stored
  BY <1>1, <1>2, Types, StoredStays
<1>6. Kept'
  BY <1>1, <1>5, Types DEF IInv, Kept
<1> QED BY <1>1, <1>2, <1>3, <1>4, <1>5, <1>6 DEF IInv, Refines

\* A crash empties the file, when it comes while the file is written, or leaves it.
LEMMA Crashes ==
  ASSUME StoreAssumption, IInv, Crash
  PROVE  IInv' /\ Refines
<1>1. /\ crashes < MaxCrashes /\ crashes' = crashes + 1 /\ owner' = None
      /\ pc' = [t \in Threads |-> "idle"] /\ left' = [t \in Threads |-> 0]
      /\ arg' = [t \in Threads |-> None] /\ data' = [t \in Threads |-> {}]
      /\ got' = [t \in Threads |-> {}] /\ due' = [t \in Threads |-> {}]
      /\ lockFile' = lockFile /\ mishaps' = mishaps
      /\ exists' = exists /\ content' = content /\ used' = used /\ acked' = acked
  BY DEF Crash, file
<1>2. LockInv'
  <2>1. left' \in [Threads -> 0..MaxTimeout]
    BY <1>1, LockAssumption
  <2>2. pc' \in [Threads -> Points]
    <3>1. "idle" \in Points
      BY DEF Points
    <3> QED BY <1>1, <3>1
  <2>3. LockTypes'
    BY <1>1, <2>1, <2>2 DEF IInv, LockInv, LockTypes
  <2>4. \A t \in Threads : pc'[t] = "idle"
    BY <1>1
  <2>5. Waits' /\ Owned' /\ OneTaking'
    BY <2>4 DEF Waits, Owned, OneTaking, Taking, Holds, Inside, At
  <2> QED BY <2>3, <2>5 DEF LockInv
<1>3. StoreTypes'
  <2>1. pc' \in [Threads -> StorePoints]
    <3>1. "idle" \in StorePoints
      BY DEF StorePoints
    <3> QED BY <1>1, <3>1
  <2>2. crashes' \in 0..MaxCrashes
    BY <1>1, Types DEF StoreAssumption
  <2> QED BY <1>1, <2>1, <2>2, Types DEF StoreTypes
<1>4. \A t \in Threads : pc'[t] = "idle" /\ arg'[t] = None
  BY <1>1
<1>5. Calls' /\ NoFile' /\ Writing'
  BY <1>1, <1>4 DEF IInv, Calls, NoFile, Writing
<1>6. Kept'
  <2>1. crashes' # 0
    BY <1>1, Types
  <2> QED BY <2>1 DEF Kept
<1>7. mishaps = {} => Stored' \in {Stored, {}}
  <2>1. Stored' = content
    BY <1>1, <1>4 DEF Stored, At
  <2>2. mishaps = {} => StoredIs
    BY Types, StoredNow
  <2> QED BY <2>1, <2>2 DEF IInv, Writing, StoredIs
<1>8. mishaps = {} => Store!Crash
  BY <1>1, <1>7 DEF Store!Crash
<1> QED BY <1>1, <1>2, <1>3, <1>5, <1>6, <1>8 DEF IInv, Refines, Store!Next

-----------------------------------------------------------------------------
LEMMA StoreSteps ==
  ASSUME StoreAssumption, IInv, [Next]_vars
  PROVE  IInv' /\ Refines
<1>1. CASE UNCHANGED vars
  BY <1>1
  DEF IInv, LockInv, LockTypes, Waits, Owned, OneTaking, Taking, Holds, Inside, At, StoreTypes, Calls, NoFile,
      Writing, Kept, Stored, Refines, vars, lockVars, sessionVars, file
<1>2. ASSUME NEW t \in Threads, Call(t)
      PROVE  IInv' /\ Refines
  BY <1>2, SetCalled, GetCalled DEF Call
<1>3. ASSUME NEW t \in Threads, Step(t)
      PROVE  IInv' /\ Refines
  BY <1>3, FileMissing, FileThere, DataRead, DataMerged, FileOpened, FileClosed, Locks, Returns
  DEF Step
<1> QED BY <1>1, <1>2, <1>3, Crashes DEF Next

LEMMA StoreInductive ==
  ASSUME StoreAssumption
  PROVE  Spec => []IInv
<1>1. Init => IInv
  BY StoreInit
<1>2. IInv /\ [Next]_vars => IInv'
  BY StoreSteps
<1> QED BY <1>1, <1>2, PTL DEF Spec

\* The variables of the calls on a session's file keep their types.
THEOREM StoreTypesKept ==
  ASSUME StoreAssumption
  PROVE  Spec => []TypeOK
<1>1. IInv => TypeOK
  BY TypesSplit DEF IInv
<1> QED BY StoreInductive, <1>1, PTL

\* The lock of a session's file is held by one thread at a time, who deletes no other's lock
\* file, with any crashes, unless two threads left the waiting loop at once or one stopped
\* waiting while the lock was in use: the test of the loop keeps out everybody else.
THEOREM StoreHeldOnce ==
  ASSUME StoreAssumption
  PROVE  Spec => []HeldOnce
<1>1. IInv => HeldOnce
  BY OwnedIsHeldOnce DEF IInv, LockInv
<1> QED BY StoreInductive, <1>1, PTL

\* What setSessionData was asked to store before it returned is stored, and getSessionData
\* returns what was stored when it was called, while nothing crashes and there is
\* no race for the lock and no timeout of it.
THEOREM AcknowledgedIsKept ==
  ASSUME StoreAssumption
  PROVE  Spec => []AcknowledgedKept
<1>1. IInv => AcknowledgedKept
  BY DEF IInv, Kept, AcknowledgedKept, At
<1> QED BY StoreInductive, <1>1, PTL

\* The file under its lock implements an atomic store that a crash may empty: every step is
\* one of AtomicStore or none, until threads race for the lock or one stops waiting for it
\* while it is in use.
THEOREM FileImplementsStore ==
  ASSUME StoreAssumption
  PROVE  Spec => StoreAtomic
<1>1. Init => Store!Init
  <2> SUFFICES ASSUME Init
               PROVE  Store!Init
    OBVIOUS
  <2>1. \A t \in Threads : pc[t] # "close"
    BY DEF Init, LockInit
  <2> QED BY <2>1 DEF Init, Stored, At, Store!Init
<1>2. IInv /\ [Next]_vars => [Store!Next \/ mishaps' # {}]_<<Stored, got, crashes>>
  BY StoreSteps DEF Refines
<1> QED BY StoreInductive, <1>1, <1>2, PTL DEF Spec, StoreAtomic
===============================================================================
