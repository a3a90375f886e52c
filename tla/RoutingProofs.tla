------------------------------ MODULE RoutingProofs ------------------------------
(***************************************************************************)
(* What the run of MCRouting checks on small instances, for every value of *)
(* the constants.                                                          *)
(*                                                                         *)
(* Observers: their numbers are distinct, add returns the number of its    *)
(* own observer unless somebody came in between, and foreach leaves nobody *)
(* out who stays.                                                          *)
(*                                                                         *)
(* Routes: of each route it is known where it stands in the tables, and    *)
(* that only those that routeElse made are found by their destruction.  A  *)
(* pointer that a call goes through is one of the table that it copied, or *)
(* of the routes for all other requests.  Nothing is used of the paths     *)
(* that a resource covers.                                                 *)
(*                                                                         *)
(* Connected websockets: as long as changes of the list have not met, what *)
(* a thread has read of it stays so until the thread changes it; and a     *)
(* copy that is made while nobody changes the list begins as the list.     *)
(***************************************************************************)
EXTENDS MCRouting, TextProofs, FiniteSetTheorems

-----------------------------------------------------------------------------
(* Observers. *)

\* The mutex is held by the thread that is between add's lock and its unlock.
Locked == \A t \in Threads : thr[t].pc \in {"insert", "unlock"} => lock = t

\* Numbers that were given are smaller than the next one.
Given == \A t \in Threads : own[t] < currId

\* The number before the next one is that of the last thread that added.
LastAdded ==
  \A t \in Threads : thr[t].pc \in {"unlock", "number"} => jumped[t] \/ own[t] = currId - 1

\* What foreach has to call is there, and was called as far as it has come.
Walk ==
  \A t \in Threads : At(t, "each") /\ ~thr[t].dangling =>
    \A n \in thr[t].lasting : n \in observers /\ (n <= thr[t].id => n \in thr[t].called)

\* What a thread is doing is a record of this set.
Record == [pc : PCs, id : Int, result : Int, dangling : BOOLEAN, lasting : SUBSET Nat, called : SUBSET Nat]

ObserversInv ==
  /\ TypeOK /\ Locked /\ Given /\ NumbersFresh
  /\ LastAdded /\ ReturnsOwnNumber /\ Walk /\ ForeachCallsAll

-----------------------------------------------------------------------------
LEMMA ObserversInit == Init => ObserversInv
  BY ObservableAssumption
  DEF Init, ObserversInv, TypeOK, Locked, Given, NumbersFresh, LastAdded, ReturnsOwnNumber, Walk,
      ForeachCallsAll, Idle, At, PCs

\* The invariants of the threads that stay as they are and of the numbers; what an action
\* has to show of its own thread is all that is left.
LEMMA AddKeeps ==
  ASSUME ObserversInv, NEW t \in Threads, add_Lock(t) \/ add_Insert(t) \/ add_Unlock(t) \/ add_Return(t)
  PROVE  ObserversInv'
<1>1. CASE add_Lock(t)
  BY <1>1, ObservableAssumption
  DEF ObserversInv, TypeOK, Locked, Given, NumbersFresh, LastAdded, ReturnsOwnNumber, Walk,
      ForeachCallsAll, At, PCs, add_Lock, history
<1>2. CASE add_Insert(t)
  <2>1. /\ thr[t].pc = "insert" /\ thr' = [thr EXCEPT ![t].pc = "unlock"]
        /\ observers' = observers \cup {currId} /\ currId' = currId + 1
        /\ own' = [own EXCEPT ![t] = currId] /\ added' = added + 1 /\ lock' = lock
        /\ jumped' = [u \in Threads |-> IF u = t THEN FALSE ELSE jumped[u] \/ thr[u].pc \in {"unlock", "number"}]
    BY <1>2 DEF add_Insert, NextId, At
  <2>2. /\ currId \in Nat /\ observers \subseteq 0..(currId - 1) /\ thr \in [Threads -> Record]
        /\ own \in [Threads -> Int] /\ added \in Nat /\ jumped \in [Threads -> BOOLEAN]
        /\ lock \in Threads \cup {None}
    BY DEF ObserversInv, TypeOK, Record
  <2>3. /\ \A u \in Threads : u # t => thr'[u] = thr[u] /\ own'[u] = own[u]
        /\ own'[t] = currId /\ thr'[t] = [thr[t] EXCEPT !.pc = "unlock"]
    BY <2>1, <2>2
  <2>4. jumped' \in [Threads -> BOOLEAN]
    BY <2>1, <2>2, Zenon
  <2>5. TypeOK'
    <3>1. thr' \in [Threads -> Record]
      BY <2>1, <2>2 DEF Record, PCs
    <3>2. currId' \in Nat /\ observers' \subseteq 0..(currId' - 1)
      BY <2>1, <2>2
    <3>3. own' \in [Threads -> Int] /\ added' \in Nat /\ lock' \in Threads \cup {None}
      BY <2>1, <2>2
    <3> QED BY <2>4, <3>1, <3>2, <3>3 DEF TypeOK, Record
  <2>6. /\ thr'[t].pc = "unlock" /\ thr'[t].id = thr[t].id
        /\ thr'[t].lasting = thr[t].lasting /\ thr'[t].called = thr[t].called
    BY <2>2, <2>3 DEF Record
  <2>7. Locked' /\ Given' /\ NumbersFresh'
    BY <2>1, <2>2, <2>3, <2>6 DEF ObserversInv, Locked, Given, NumbersFresh
  <2>8. LastAdded'
    <3> SUFFICES ASSUME NEW u \in Threads, thr'[u].pc \in {"unlock", "number"}
                 PROVE  jumped'[u] \/ own'[u] = currId' - 1
      BY DEF LastAdded
    <3>1. CASE u = t
      BY <2>1, <2>2, <2>3, <3>1
    <3>2. CASE u # t
      <4>1. thr[u].pc \in {"unlock", "number"}
        BY <2>3, <3>2
      <4>2. jumped'[u]
        BY <2>1, <3>2, <4>1, Zenon
      <4> QED BY <4>2
    <3> QED BY <3>1, <3>2
  <2>9. ReturnsOwnNumber'
    <3> SUFFICES ASSUME NEW u \in Threads, thr'[u].pc = "added"
                 PROVE  /\ jumped'[u] \/ thr'[u].result = own'[u]
                        /\ own'[u] <= thr'[u].result /\ thr'[u].result < currId'
      BY DEF ReturnsOwnNumber, At
    <3>1. u # t
      BY <2>6
    <3>2. jumped[u] \/ thr[u].result = own[u]
      BY <2>3, <3>1 DEF ObserversInv, ReturnsOwnNumber, At
    <3>3. jumped[u] => jumped'[u]
      BY <2>1, <3>1, Zenon
    <3>4. own[u] <= thr[u].result /\ thr[u].result < currId /\ thr[u].result \in Int
      BY <2>2, <2>3, <3>1 DEF ObserversInv, ReturnsOwnNumber, At, Record
    <3> QED BY <2>1, <2>2, <2>3, <3>1, <3>2, <3>3, <3>4
  <2>10. Walk' /\ ForeachCallsAll'
    BY <2>1, <2>2, <2>3, <2>6 DEF ObserversInv, Walk, ForeachCallsAll, At
  <2> QED BY <2>5, <2>7, <2>8, <2>9, <2>10 DEF ObserversInv
<1>3. CASE add_Unlock(t)
  BY <1>3, ObservableAssumption
  DEF ObserversInv, TypeOK, Locked, Given, NumbersFresh, LastAdded, ReturnsOwnNumber, Walk,
      ForeachCallsAll, At, PCs, add_Unlock, history
<1>4. CASE add_Return(t)
  <2>1. /\ thr[t].pc = "number" /\ currId' = currId /\ lock' = lock /\ observers' = observers
        /\ thr' = [thr EXCEPT ![t].pc = "added", ![t].result = currId - 1]
        /\ own' = own /\ added' = added /\ jumped' = jumped
    BY <1>4 DEF add_Return, Number, At, shared, history
  <2>2. currId \in Nat /\ thr \in [Threads -> Record] /\ own \in [Threads -> Int]
    BY DEF ObserversInv, TypeOK, Record
  <2>3. thr' = [thr EXCEPT ![t] = [thr[t] EXCEPT !.pc = "added", !.result = currId - 1]]
    BY <2>1, <2>2
  <2>4. [thr[t] EXCEPT !.pc = "added", !.result = currId - 1] \in Record
    <3>1. thr[t] \in Record /\ currId - 1 \in Int
      BY <2>2
    <3>2. "added" \in PCs
      BY DEF PCs
    <3> QED BY <3>1, <3>2 DEF Record
  <2>5. TypeOK'
    BY <2>1, <2>2, <2>3, <2>4 DEF ObserversInv, TypeOK, Record
  <2>6. /\ \A u \in Threads : u # t => thr'[u] = thr[u]
        /\ thr'[t].pc = "added" /\ thr'[t].result = currId - 1
    BY <2>2, <2>3 DEF Record
  <2>7. own[t] < currId /\ (jumped[t] \/ own[t] = currId - 1)
    BY <2>1 DEF ObserversInv, Given, LastAdded
  <2>8. Locked' /\ Given' /\ NumbersFresh' /\ LastAdded'
    BY <2>1, <2>6 DEF ObserversInv, Locked, Given, NumbersFresh, LastAdded
  <2>9. ReturnsOwnNumber'
    BY <2>1, <2>2, <2>6, <2>7 DEF ObserversInv, ReturnsOwnNumber, At
  <2>10. Walk' /\ ForeachCallsAll'
    BY <2>1, <2>6 DEF ObserversInv, Walk, ForeachCallsAll, At
  <2> QED BY <2>5, <2>8, <2>9, <2>10 DEF ObserversInv
<1> QED BY <1>1, <1>2, <1>3, <1>4

LEMMA RemoveKeeps ==
  ASSUME ObserversInv, NEW t \in Threads,
         remove_Erase(t) \/ \E id \in 0..(Calls - 1) : remove_Count(t, id)
  PROVE  ObserversInv'
<1>0. thr \in [Threads -> Record]
  BY DEF ObserversInv, TypeOK, Record
<1>1. ASSUME NEW id \in 0..(Calls - 1), remove_Count(t, id)
      PROVE  ObserversInv'
  <2>1. /\ thr[t].pc = "idle" /\ thr' = [thr EXCEPT ![t].pc = "erase", ![t].id = id]
        /\ currId' = currId /\ lock' = lock /\ observers' = observers
        /\ own' = own /\ added' = added /\ jumped' = jumped
    BY <1>1 DEF remove_Count, At, shared, history
  <2>2. thr' = [thr EXCEPT ![t] = [thr[t] EXCEPT !.pc = "erase", !.id = id]]
    BY <1>0, <2>1
  <2>3. [thr[t] EXCEPT !.pc = "erase", !.id = id] \in Record
    <3>1. thr[t] \in Record /\ id \in Int
      BY <1>0, ObservableAssumption
    <3>2. "erase" \in PCs
      BY DEF PCs
    <3> QED BY <3>1, <3>2 DEF Record
  <2>4. TypeOK'
    BY <1>0, <2>1, <2>2, <2>3 DEF ObserversInv, TypeOK, Record
  <2>5. (\A u \in Threads : u # t => thr'[u] = thr[u]) /\ thr'[t].pc = "erase"
    BY <1>0, <2>2 DEF Record
  <2>6. Locked' /\ Given' /\ NumbersFresh' /\ LastAdded' /\ ReturnsOwnNumber'
    BY <2>1, <2>5 DEF ObserversInv, Locked, Given, NumbersFresh, LastAdded, ReturnsOwnNumber, At
  <2>7. Walk' /\ ForeachCallsAll'
    BY <2>1, <2>5 DEF ObserversInv, Walk, ForeachCallsAll, At
  <2> QED BY <2>4, <2>6, <2>7 DEF ObserversInv
<1>2. CASE remove_Erase(t)
  <2> DEFINE id == thr[t].id
  <2>1. /\ thr[t].pc = "erase" /\ observers' = observers \ {id}
        /\ thr' = [Without(id) EXCEPT ![t].pc = "done"]
        /\ currId' = currId /\ lock' = lock /\ own' = own /\ added' = added /\ jumped' = jumped
    BY <1>2 DEF remove_Erase, At, history
  <2>2. ASSUME NEW u \in Threads
        PROVE  /\ Without(id)[u] \in Record
               /\ Without(id)[u].pc = thr[u].pc /\ Without(id)[u].id = thr[u].id
               /\ Without(id)[u].result = thr[u].result /\ Without(id)[u].called = thr[u].called
               /\ Without(id)[u].lasting = thr[u].lasting \ {id}
               /\ Without(id)[u].dangling = (thr[u].dangling \/ (thr[u].pc = "each" /\ thr[u].id = id))
    <3> DEFINE d == thr[u].dangling \/ (thr[u].pc = "each" /\ thr[u].id = id)
    <3>1. thr[u] \in Record /\ d \in BOOLEAN
      BY <1>0 DEF Record
    <3>2. Without(id)[u] = [thr[u] EXCEPT !.lasting = thr[u].lasting \ {id}, !.dangling = d]
      BY <3>1 DEF Without, At, Record
    <3> HIDE DEF d
    <3>3. [thr[u] EXCEPT !.lasting = thr[u].lasting \ {id}, !.dangling = d] \in Record
      BY <3>1 DEF Record
    <3>4. Without(id)[u].dangling = d
      BY <3>1, <3>2, Zenon DEF Record
    <3>5. /\ Without(id)[u].pc = thr[u].pc /\ Without(id)[u].id = thr[u].id
          /\ Without(id)[u].result = thr[u].result /\ Without(id)[u].called = thr[u].called
          /\ Without(id)[u].lasting = thr[u].lasting \ {id}
      BY <3>1, <3>2 DEF Record
    <3> QED BY <3>2, <3>3, <3>4, <3>5 DEF d
  <2>3. Without(id) \in [Threads -> Record]
    BY <2>2 DEF Without
  <2>4. thr' \in [Threads -> Record]
    BY <2>1, <2>3 DEF Record, PCs
  <2>5. TypeOK'
    BY <2>1, <2>4 DEF ObserversInv, TypeOK, Record
  <2>6. ASSUME NEW u \in Threads
        PROVE  /\ thr'[u].pc = (IF u = t THEN "done" ELSE thr[u].pc)
               /\ thr'[u].id = thr[u].id /\ thr'[u].result = thr[u].result
               /\ thr'[u].called = thr[u].called /\ thr'[u].lasting = thr[u].lasting \ {id}
               /\ thr[u].dangling => thr'[u].dangling
    <3>1. /\ thr'[u].pc = (IF u = t THEN "done" ELSE Without(id)[u].pc)
          /\ thr'[u].id = Without(id)[u].id /\ thr'[u].result = Without(id)[u].result
          /\ thr'[u].called = Without(id)[u].called /\ thr'[u].lasting = Without(id)[u].lasting
          /\ thr'[u].dangling = Without(id)[u].dangling
      BY <2>1, <2>3 DEF Record
    <3> QED BY <2>2, <3>1
  <2> HIDE DEF id
  <2>7. Locked' /\ Given' /\ NumbersFresh' /\ LastAdded'
    BY <2>1, <2>6 DEF ObserversInv, Locked, Given, NumbersFresh, LastAdded
  <2>8. ReturnsOwnNumber'
    BY <2>1, <2>6 DEF ObserversInv, ReturnsOwnNumber, At
  <2>9. Walk' /\ ForeachCallsAll'
    BY <1>0, <2>1, <2>6 DEF ObserversInv, Walk, ForeachCallsAll, At
  <2> QED BY <2>5, <2>7, <2>8, <2>9 DEF ObserversInv
<1> QED BY <1>1, <1>2

LEMMA ForeachKeeps ==
  ASSUME ObserversInv, NEW t \in Threads,
         foreach_Start(t) \/ foreach_Call(t) \/ foreach_End(t) \/ foreach_Crash(t)
  PROVE  ObserversInv'
<1>0. /\ currId' = currId /\ lock' = lock /\ observers' = observers
      /\ own' = own /\ added' = added /\ jumped' = jumped
  BY DEF foreach_Start, foreach_Call, foreach_End, foreach_Crash, shared, history
<1>a. thr \in [Threads -> Record] /\ currId \in Nat /\ observers \subseteq 0..(currId - 1)
  BY DEF ObserversInv, TypeOK, Record
<1>1. CASE foreach_Start(t)
  <2> DEFINE r == [thr[t] EXCEPT !.pc = "each", !.id = -1, !.lasting = observers, !.called = {}]
  <2>1. thr[t].pc = "idle" /\ thr' = [thr EXCEPT ![t] = r]
    BY <1>1, <1>a DEF foreach_Start, At
  <2>2. /\ r \in Record /\ r.pc = "each" /\ r.id = -1 /\ r.lasting = observers
        /\ r.called = {} /\ r.dangling = thr[t].dangling
    <3>1. thr[t] \in Record /\ observers \in SUBSET Nat /\ {} \in SUBSET Nat /\ -1 \in Int
      BY <1>a
    <3>2. "each" \in PCs
      BY DEF PCs
    <3>3. r \in Record
      BY <3>1, <3>2 DEF Record
    <3> QED BY <3>1, <3>3 DEF Record
  <2> HIDE DEF r
  <2>3. TypeOK'
    BY <1>0, <1>a, <2>1, <2>2 DEF ObserversInv, TypeOK, Record
  <2>4. (\A u \in Threads : u # t => thr'[u] = thr[u]) /\ thr'[t] = r
    BY <1>a, <2>1
  <2>5. Locked' /\ Given' /\ NumbersFresh' /\ LastAdded' /\ ReturnsOwnNumber'
    BY <1>0, <2>2, <2>4 DEF ObserversInv, Locked, Given, NumbersFresh, LastAdded, ReturnsOwnNumber, At
  <2>6. Walk' /\ ForeachCallsAll'
    <3>1. \A n \in observers : n \in Nat
      BY <1>a
    <3>2. Walk'
      BY <1>0, <2>2, <2>4, <3>1 DEF ObserversInv, Walk, At
    <3>3. ForeachCallsAll'
      BY <2>2, <2>4 DEF ObserversInv, ForeachCallsAll, At
    <3> QED BY <3>2, <3>3
  <2> QED BY <2>3, <2>5, <2>6 DEF ObserversInv
<1>2. CASE foreach_Call(t)
  <2>1. PICK n \in Followers(thr[t].id) :
          /\ \A m \in Followers(thr[t].id) : n <= m
          /\ thr' = [thr EXCEPT ![t].id = n, ![t].called = @ \cup {n}]
    BY <1>2 DEF foreach_Call
  <2> DEFINE r == [thr[t] EXCEPT !.id = n, !.called = thr[t].called \cup {n}]
  <2>2. n \in Nat /\ n \in observers /\ n > thr[t].id
    BY <1>a, <2>1 DEF Followers
  <2>3. thr[t].pc = "each" /\ thr' = [thr EXCEPT ![t] = r]
    BY <1>2, <1>a, <2>1 DEF foreach_Call, At
  <2>4. /\ r \in Record /\ r.pc = "each" /\ r.id = n /\ r.lasting = thr[t].lasting
        /\ r.called = thr[t].called \cup {n} /\ r.dangling = thr[t].dangling
    <3>1. thr[t] \in Record /\ n \in Int /\ thr[t].called \cup {n} \in SUBSET Nat
      BY <1>a, <2>2 DEF Record
    <3>2. r \in Record
      BY <3>1 DEF Record
    <3> QED BY <2>3, <3>1, <3>2 DEF Record
  <2> HIDE DEF r
  <2>5. TypeOK'
    BY <1>0, <1>a, <2>3, <2>4 DEF ObserversInv, TypeOK, Record
  <2>6. (\A u \in Threads : u # t => thr'[u] = thr[u]) /\ thr'[t] = r
    BY <1>a, <2>3
  <2>7. Locked' /\ Given' /\ NumbersFresh' /\ LastAdded' /\ ReturnsOwnNumber'
    BY <1>0, <2>4, <2>6 DEF ObserversInv, Locked, Given, NumbersFresh, LastAdded, ReturnsOwnNumber, At
  <2>8. Walk'
    <3> SUFFICES ASSUME NEW u \in Threads, thr'[u].pc = "each", ~thr'[u].dangling,
                        NEW k \in thr'[u].lasting
                 PROVE  k \in observers' /\ (k <= thr'[u].id => k \in thr'[u].called)
      BY DEF Walk, At
    <3>1. CASE u # t
      BY <1>0, <2>6, <3>1 DEF ObserversInv, Walk, At
    <3>2. CASE u = t
      <4>1. k \in observers /\ (k <= thr[t].id => k \in thr[t].called)
        BY <2>3, <2>4, <2>6, <3>2 DEF ObserversInv, Walk, At
      <4>2. thr[t].id \in Int /\ k \in Int
        BY <1>a, <4>1 DEF Record
      <4>3. k > thr[t].id => n <= k
        BY <2>1, <4>1, <4>2 DEF Followers
      <4> QED BY <1>0, <2>2, <2>4, <2>6, <3>2, <4>1, <4>2, <4>3
    <3> QED BY <3>1, <3>2
  <2>9. ForeachCallsAll'
    <3>1. \A m \in thr[t].called : m <= thr[t].id /\ m \in Int
      BY <1>a, <2>3 DEF ObserversInv, ForeachCallsAll, At, Record
    <3>2. thr[t].id \in Int
      BY <1>a DEF Record
    <3> QED BY <2>2, <2>4, <2>6, <3>1, <3>2 DEF ObserversInv, ForeachCallsAll, At
  <2> QED BY <2>5, <2>7, <2>8, <2>9 DEF ObserversInv
<1>3. CASE foreach_End(t)
  BY <1>0, <1>3
  DEF ObserversInv, TypeOK, Locked, Given, NumbersFresh, LastAdded, ReturnsOwnNumber, Walk,
      ForeachCallsAll, At, PCs, foreach_End, Followers
<1>4. CASE foreach_Crash(t)
  <2>1. ASSUME NEW u \in Threads
        PROVE  thr'[u] \in Record /\ thr'[u].pc = "crashed"
    <3>1. thr'[u] = [thr[u] EXCEPT !.pc = "crashed"]
      BY <1>4 DEF foreach_Crash
    <3> QED BY <1>a, <3>1 DEF Record, PCs
  <2>2. thr' \in [Threads -> Record]
    BY <1>4, <2>1 DEF foreach_Crash
  <2>3. TypeOK'
    BY <1>0, <2>2 DEF ObserversInv, TypeOK, Record
  <2>4. Locked' /\ Given' /\ NumbersFresh' /\ LastAdded' /\ ReturnsOwnNumber' /\ Walk' /\ ForeachCallsAll'
    BY <1>0, <2>1
    DEF ObserversInv, Locked, Given, NumbersFresh, LastAdded, ReturnsOwnNumber, Walk, ForeachCallsAll, At
  <2> QED BY <2>3, <2>4 DEF ObserversInv
<1> QED BY <1>1, <1>2, <1>3, <1>4

LEMMA StepKeeps == ObserversInv /\ [Next]_vars => ObserversInv'
<1> SUFFICES ASSUME ObserversInv, [Next]_vars
             PROVE  ObserversInv'
  OBVIOUS
<1>1. ASSUME NEW t \in Threads, Return(t)
      PROVE  ObserversInv'
  BY <1>1
  DEF ObserversInv, TypeOK, Locked, Given, NumbersFresh, LastAdded, ReturnsOwnNumber, Walk,
      ForeachCallsAll, At, PCs, Return, Idle, shared, history
<1>2. CASE UNCHANGED vars
  BY <1>2
  DEF ObserversInv, TypeOK, Locked, Given, NumbersFresh, LastAdded, ReturnsOwnNumber, Walk,
      ForeachCallsAll, At, vars, shared, history
<1> QED
  BY <1>1, <1>2, AddKeeps, RemoveKeeps, ForeachKeeps DEF Next, Running, Crashed

LEMMA Inductive == Spec => []ObserversInv
  BY ObserversInit, StepKeeps, PTL DEF Spec

\* The variables of an observable keep their types, and its numbers are below currId.
THEOREM ObservableTypes == Spec => []TypeOK
  BY Inductive, PTL DEF ObserversInv

\* Observers that threads added never have the same number.
THEOREM Fresh == Spec => []NumbersFresh
  BY Inductive, PTL DEF ObserversInv

\* add returns its own observer's number, or, when others were added before it read it, one of
\* theirs.
THEOREM OwnNumber == Spec => []ReturnsOwnNumber
  BY Inductive, PTL DEF ObserversInv

\* foreach calls whoever is an observer all the time, in the order of numbers.
THEOREM CallsAll == Spec => []ForeachCallsAll
  BY Inductive, PTL DEF ObserversInv

-----------------------------------------------------------------------------
(* Sequences without repetitions, for the tables and the list. *)

\* o stands in s.
In(s, o) == \E i \in 1..Len(s) : s[i] = o

\* Nobody stands in s twice.
OnceIn(s) == \A i, j \in 1..Len(s) : i # j => s[i] # s[j]

\* s without what stands at place i.
WithoutPlace(s, i) == SubSeq(s, 1, i - 1) \o SubSeq(s, i + 1, Len(s))

LEMMA SameRemoval == \A s, i : Router!RemoveAt(s, i) = WithoutPlace(s, i) /\ Sockets!RemoveAt(s, i) = WithoutPlace(s, i)
  BY DEF Router!RemoveAt, Sockets!RemoveAt, WithoutPlace

LEMMA OnceFits ==
  ASSUME NEW S, IsFiniteSet(S), NEW s \in Seq(S), OnceIn(s)
  PROVE  Len(s) <= Cardinality(S)
<1>1. s \in Injection(1..Len(s), S)
  BY DEF OnceIn, Injection, IsInjective
<1>2. Len(s) \in Nat
  OBVIOUS
<1>3. IsFiniteSet(1..Len(s)) /\ Cardinality(1..Len(s)) = IF 1 > Len(s) THEN 0 ELSE Len(s) - 1 + 1
  BY <1>2, FS_Interval
<1> QED BY <1>1, <1>2, <1>3, FS_Injection

LEMMA WithoutIs ==
  ASSUME NEW S, NEW s \in Seq(S), NEW i \in 1..Len(s)
  PROVE  /\ WithoutPlace(s, i) \in Seq(S) /\ Len(WithoutPlace(s, i)) = Len(s) - 1
         /\ \A j \in 1..(Len(s) - 1) : WithoutPlace(s, i)[j] = IF j < i THEN s[j] ELSE s[j + 1]
<1> DEFINE a == SubSeq(s, 1, i - 1)
           b == SubSeq(s, i + 1, Len(s))
           r == a \o b
<1>1. a \in Seq(S) /\ Len(a) = i - 1 /\ \A j \in 1..(i - 1) : a[j] = s[j]
  OBVIOUS
<1>2. b \in Seq(S) /\ Len(b) = Len(s) - i /\ \A j \in 1..(Len(s) - i) : b[j] = s[j + i]
  OBVIOUS
<1> HIDE DEF a, b
<1>3. /\ r \in Seq(S) /\ Len(r) = Len(a) + Len(b)
      /\ \A j \in 1..(Len(a) + Len(b)) : r[j] = IF j <= Len(a) THEN a[j] ELSE b[j - Len(a)]
  BY <1>1, <1>2, ConcatProperties
<1>4. WithoutPlace(s, i) = r
  BY DEF WithoutPlace, a, b
<1> HIDE DEF r
<1>5. Len(s) \in Nat /\ i \in 1..Len(s)
  OBVIOUS
<1>6. Len(r) = Len(s) - 1 /\ \A j \in 1..(Len(s) - 1) : r[j] = IF j <= i - 1 THEN a[j] ELSE b[j - (i - 1)]
  <2>1. Len(a) = i - 1 /\ Len(b) = Len(s) - i /\ Len(a) + Len(b) = Len(s) - 1
    BY <1>1, <1>2, <1>5
  <2> QED BY <1>3, <2>1
<1>7. \A j \in 1..(Len(s) - 1) : j < i => r[j] = s[j]
  BY <1>1, <1>5, <1>6
<1>8. \A j \in 1..(Len(s) - 1) : ~(j < i) => r[j] = s[j + 1]
  <2> SUFFICES ASSUME NEW j \in 1..(Len(s) - 1), ~(j < i) PROVE r[j] = s[j + 1]
    OBVIOUS
  <2>1. j - (i - 1) \in 1..(Len(s) - i) /\ j - (i - 1) + i = j + 1
    BY <1>5
  <2>2. ~(j <= i - 1)
    BY <1>5
  <2>3. r[j] = b[j - (i - 1)]
    BY <1>6, <2>2
  <2> QED BY <1>2, <2>1, <2>3
<1> QED BY <1>3, <1>4, <1>6, <1>7, <1>8

LEMMA WithoutHas ==
  ASSUME NEW S, NEW s \in Seq(S), OnceIn(s), NEW i \in 1..Len(s), NEW o
  PROVE  /\ OnceIn(WithoutPlace(s, i))
         /\ In(WithoutPlace(s, i), o) <=> o # s[i] /\ In(s, o)
<1> DEFINE r == WithoutPlace(s, i)
<1>1. /\ r \in Seq(S) /\ Len(r) = Len(s) - 1
      /\ \A j \in 1..(Len(s) - 1) : r[j] = IF j < i THEN s[j] ELSE s[j + 1]
  BY WithoutIs
<1> HIDE DEF r
<1>2. OnceIn(r)
  BY <1>1 DEF OnceIn
<1>3. ASSUME NEW j \in 1..Len(r), r[j] = o
      PROVE  o # s[i] /\ \E k \in 1..Len(s) : s[k] = o
  BY <1>1, <1>3 DEF OnceIn
<1>4. ASSUME NEW k \in 1..Len(s), s[k] = o, o # s[i]
      PROVE  \E j \in 1..Len(r) : r[j] = o
  <2>1. CASE k < i
    BY <1>1, <1>4, <2>1
  <2>2. CASE k > i
    <3>1. k - 1 \in 1..Len(r) /\ r[k - 1] = o
      BY <1>1, <1>4, <2>2
    <3> QED BY <3>1
  <2> QED BY <1>4, <2>1, <2>2
<1> QED BY <1>2, <1>3, <1>4 DEF r, In

LEMMA AppendIs ==
  ASSUME NEW S, NEW s \in Seq(S), NEW o \in S
  PROVE  /\ Append(s, o) \in Seq(S) /\ Len(Append(s, o)) = Len(s) + 1
         /\ \A p : In(Append(s, o), p) <=> p = o \/ In(s, p)
         /\ OnceIn(s) /\ ~In(s, o) => OnceIn(Append(s, o))
<1> DEFINE a == Append(s, o)
<1>1. /\ Len(a) = Len(s) + 1 /\ a[Len(s) + 1] = o /\ Len(s) \in Nat
      /\ \A i \in 1..Len(s) : a[i] = s[i]
  OBVIOUS
<1> HIDE DEF a
<1>2. ASSUME NEW p
      PROVE  In(a, p) <=> p = o \/ In(s, p)
  BY <1>1 DEF In
<1>3. OnceIn(s) /\ ~In(s, o) => OnceIn(a)
  BY <1>1 DEF OnceIn, In
<1>4. a \in Seq(S)
  BY DEF a
<1> QED BY <1>1, <1>2, <1>3, <1>4 DEF a

-----------------------------------------------------------------------------
(* Routes and their tables. *)

TableKinds == {"request", "websocket"}

\* Route o stands in table kind under id.
Has(kind, id, o) == id \in DOMAIN Router!Table(kind) /\ In(Router!Table(kind)[id], o)

\* Route o was made by routeElse.
ElseRoute(o) == route[o].kind = "request" /\ route[o].method = "*" /\ route[o].resource = "*"

TablesOK == Router!IsTable(requestRoutesObservers) /\ Router!IsTable(websocketRoutesObservers)

RoutesOK ==
  /\ route \in [Routes -> [stage : {"unmade", "live", "dying", "dead"}, kind : TableKinds,
                           method : Methods \cup {"*"}, resource : Resources \cup {"*"}]]
  /\ overlapped \in BOOLEAN

\* A route stands in one place at most, the one it was registered at.
AtHome ==
  /\ \A kind \in TableKinds : \A id \in DOMAIN Router!Table(kind) : OnceIn(Router!Table(kind)[id])
  /\ \A kind \in TableKinds, id \in Router!Ids, o \in Routes : Has(kind, id, o) =>
       route[o].stage # "unmade" /\ route[o].kind = kind /\ id = Router!RouteId(route[o].resource)

\* It stands there from its making to the end of its destruction, and longer when that does
\* not find it.
Kept ==
  ~overlapped => \A o \in Routes :
    Has(route[o].kind, Router!RouteId(route[o].resource), o) <=>
      route[o].stage # "unmade" /\ ~(route[o].stage = "dead" /\ ElseRoute(o))

\* Only routes that routeElse made are found, each by one thread.
MakersOK ==
  /\ maker \in [Makers -> [route : Routes \cup {None}, place : 0..Router!Cardinality(Routes)]]
  /\ \A t \in Makers : maker[t].route = None => maker[t] = Router!Resting
  /\ \A t \in Makers : maker[t].route # None =>
       /\ route[maker[t].route].stage = "dying" /\ ElseRoute(maker[t].route)
       /\ Router!Else \in DOMAIN requestRoutesObservers /\ maker[t].place > 0
       /\ \A u \in Makers : maker[u].route = maker[t].route => u = t

Placed ==
  ~overlapped => \A t \in Makers : maker[t].route # None =>
    /\ maker[t].place <= Len(requestRoutesObservers[Router!Else])
    /\ requestRoutesObservers[Router!Else][maker[t].place] = maker[t].route

HandlerRecord ==
  [pc : {"idle", "copy", "call", "else", "walk", "found", "threw", "lost", "done"},
   kind : Router!Kinds, id : {Router!Else} \cup ({"WS"} \cup Methods) \X Paths, todo : SUBSET Routes,
   called : SUBSET Routes, due : SUBSET Routes,
   result : {"none", "ok", "error", "unset", "disconnected"}, faults : SUBSET {"torn", "pointer"}]

HandlersOK == handler \in [Handlers -> HandlerRecord]

\* What is left to call was made once: a route of the table that was copied, or one for all
\* other requests.
TodoBy(h) ==
  /\ h.pc = "call" => \A o \in h.todo : route[o].stage # "unmade" /\ route[o].kind = Router!TableKind(h.kind)
  /\ h.pc = "walk" =>
       /\ Router!Else \in DOMAIN requestRoutesObservers
       /\ \A o \in h.todo : route[o].stage # "unmade" /\ route[o].kind = "request"

\* A websocket has the routes it is due to before it or behind it.
ReachesBy(h) ==
  h.kind # "request" /\ h.faults = {} =>
    /\ h.pc = "copy" => h.due \subseteq Router!Observers(h.kind, h.id)
    /\ h.pc = "call" => h.due \subseteq h.called \cup h.todo
    /\ h.pc \in {"else", "walk"} => h.due = {}
    /\ h.pc \in {"found", "lost"} => h.due \subseteq h.called

\* Only an else route makes a call end as found when no route was called.
RefusedBy(h) ==
  h.called = {} /\ "pointer" \notin h.faults /\ Router!Else \notin DOMAIN requestRoutesObservers =>
    /\ h.pc \notin {"found", "threw"}
    /\ h.pc = "done" =>
         h.result \in (CASE h.kind = "request" -> {"unset"}
                         [] h.kind = "connect" -> {"disconnected"}
                         [] h.kind \in {"data", "disconnect"} -> {"none"})

Destroyed == \E o \in Routes : route[o].stage = "dead"

\* A websocket met a route for all other requests.
Met(h) == h.kind # "request" /\ Router!Else \in DOMAIN requestRoutesObservers

AstrayBy(h) == "pointer" \in h.faults => Destroyed \/ Met(h)

CallsOK ==
  \A w \in Handlers :
    /\ TodoBy(handler[w]) /\ RefusedBy(handler[w]) /\ AstrayBy(handler[w])
    /\ ~overlapped => ReachesBy(handler[w])

RouterCore == TablesOK /\ RoutesOK /\ AtHome /\ Kept /\ MakersOK /\ Placed /\ HandlersOK /\ CallsOK

\* Why the program stopped.
StoppedOK ==
  /\ routerCrashed \in BOOLEAN
  /\ routerCrashed => Destroyed \/ overlapped \/ \E w \in Handlers : "torn" \in handler[w].faults \/ Met(handler[w])

RouterInv == RouterCore /\ StoppedOK

LEMMA RouterCounts ==
  /\ Router!Cardinality(Routes) \in Nat /\ Router!Cardinality({}) = 0 /\ \A x : Router!Cardinality({x}) = 1
  /\ \A s \in Seq(Routes) : OnceIn(s) => Len(s) <= Router!Cardinality(Routes)
<1>1. \A S : Router!Cardinality(S) = Cardinality(S)
  BY DEF Router!Cardinality, Cardinality, Router!IsFiniteSet, IsFiniteSet
<1>2. IsFiniteSet(Routes)
  BY RouterConstants DEF Router!RouterAssumption, Router!IsFiniteSet, IsFiniteSet
<1>3. Cardinality(Routes) \in Nat /\ \A s \in Seq(Routes) : OnceIn(s) => Len(s) <= Cardinality(Routes)
  BY <1>2, FS_CardinalityType, OnceFits
<1> QED BY <1>1, <1>3, FS_EmptySet, FS_Singleton

-----------------------------------------------------------------------------
(* The tables. *)

LEMMA SameId ==
  ASSUME RoutesOK, NEW o \in Routes
  PROVE  /\ Router!DestroyedId(o) = Router!RouteId(route[o].resource) <=> ElseRoute(o)
         /\ ElseRoute(o) => Router!DestroyedId(o) = Router!Else
         /\ Router!RouteId(route[o].resource) \in Router!Ids
<1>1. /\ route[o].kind \in TableKinds /\ route[o].resource \in Resources \cup {"*"}
      /\ route[o].method \in Methods \cup {"*"}
  BY DEF RoutesOK
<1> QED BY <1>1, RouterConstants DEF Router!DestroyedId, Router!RouteId, ElseRoute, Router!Else, Router!Ids, TableKinds, Router!RouterAssumption

LEMMA RegisteredIs ==
  ASSUME NEW f, Router!IsTable(f), NEW id \in Router!Ids, NEW o \in Routes
  PROVE  /\ Router!IsTable(Router!Registered(f, id, o))
         /\ DOMAIN Router!Registered(f, id, o) = DOMAIN f \cup {id}
         /\ \A k \in DOMAIN f : k # id => Router!Registered(f, id, o)[k] = f[k]
         /\ Router!Registered(f, id, o)[id] = Append(Router!At(f, id), o)
         /\ Router!At(f, id) \in Seq(Routes)
  BY DEF Router!IsTable, Router!Registered, Router!With, Router!At

\* Routes that were made stay of their kind, and destroyed ones destroyed.
RoutesStay ==
  \A o \in Routes :
    /\ route[o].stage # "unmade" => route'[o].stage # "unmade" /\ route'[o].kind = route[o].kind
    /\ route[o].stage = "dead" => route'[o].stage = "dead"

\* h is the call g, whose reading may be torn by now.
SameCall(g, h) ==
  /\ h.pc = g.pc /\ h.kind = g.kind /\ h.id = g.id /\ h.todo = g.todo /\ h.called = g.called
  /\ h.due = g.due /\ h.result = g.result /\ h.faults \in {g.faults, g.faults \cup {"torn"}}

\* What is known of the calls outlasts what others do.
LEMMA OthersKeep ==
  ASSUME RouterCore, HandlersOK', RoutesStay, \A w \in Handlers : SameCall(handler[w], handler'[w]),
         \A w \in Handlers : handler[w].pc = "copy" /\ handler[w].kind # "request" /\ "torn" \notin handler'[w].faults =>
           websocketRoutesObservers' = websocketRoutesObservers,
         DOMAIN requestRoutesObservers \subseteq DOMAIN requestRoutesObservers', overlapped => overlapped'
  PROVE  CallsOK'
<1> SUFFICES ASSUME NEW w \in Handlers
             PROVE  /\ TodoBy(handler[w])' /\ RefusedBy(handler[w])' /\ AstrayBy(handler[w])'
                    /\ ~overlapped' => ReachesBy(handler[w])'
  BY DEF CallsOK
<1> DEFINE g == handler[w]
           h == handler'[w]
<1>1. g \in HandlerRecord /\ h \in HandlerRecord /\ SameCall(g, h)
  BY DEF RouterCore, HandlersOK
<1>2. TodoBy(g) /\ RefusedBy(g) /\ AstrayBy(g) /\ (~overlapped => ReachesBy(g))
  BY DEF RouterCore, CallsOK
<1>3. TodoBy(handler[w])'
  <2>1. \A o \in g.todo : o \in Routes
    BY <1>1 DEF HandlerRecord
  <2> QED BY <1>1, <1>2, <2>1 DEF SameCall, TodoBy, RoutesStay, Router!TableKind
<1>4. RefusedBy(handler[w])'
  BY <1>1, <1>2 DEF SameCall, RefusedBy
<1>5. AstrayBy(handler[w])'
  BY <1>1, <1>2 DEF SameCall, AstrayBy, Destroyed, Met, RoutesStay
<1>6. ASSUME ~overlapped' PROVE ReachesBy(handler[w])'
  <2> SUFFICES ASSUME h.kind # "request", h.faults = {} PROVE ReachesBy(handler[w])'
    BY DEF ReachesBy
  <2>1. g.kind # "request" /\ g.faults = {} /\ ReachesBy(g)
    BY <1>1, <1>2, <1>6 DEF SameCall
  <2>2. ASSUME g.pc = "copy" PROVE (handler[w].due \subseteq Router!Observers(handler[w].kind, handler[w].id))'
    <3>1. websocketRoutesObservers' = websocketRoutesObservers
      BY <1>1, <2>1, <2>2
    <3>2. Router!Table(Router!TableKind(g.kind)) = websocketRoutesObservers
      BY <2>1 DEF Router!Table, Router!TableKind
    <3>3. Router!Observers(handler[w].kind, handler[w].id)' = Router!Observers(g.kind, g.id)
      BY <1>1, <2>1, <3>1, <3>2 DEF SameCall, Router!Observers, Router!Table, Router!TableKind
    <3> QED BY <1>1, <2>1, <2>2, <3>3 DEF SameCall, ReachesBy
  <2> QED BY <1>1, <2>1, <2>2 DEF SameCall, ReachesBy
<1> QED BY <1>3, <1>4, <1>5, <1>6

LEMMA TearKeeps ==
  ASSUME RouterCore, NEW kind \in TableKinds, NEW id, Router!Tear(kind, id), RoutesStay,
         kind # "websocket" => websocketRoutesObservers' = websocketRoutesObservers,
         DOMAIN requestRoutesObservers \subseteq DOMAIN requestRoutesObservers', overlapped => overlapped'
  PROVE  HandlersOK' /\ CallsOK'
<1>1. ASSUME NEW w \in Handlers
      PROVE  /\ handler'[w] \in HandlerRecord /\ SameCall(handler[w], handler'[w])
             /\ handler[w].pc = "copy" /\ handler[w].kind # "request" /\ "torn" \notin handler'[w].faults =>
                  websocketRoutesObservers' = websocketRoutesObservers
  <2>1. handler[w] \in HandlerRecord
    BY DEF RouterCore, HandlersOK
  <2>2. CASE Router!Reads(w, kind, id)
    <3>1. handler'[w] = [handler[w] EXCEPT !.faults = handler[w].faults \cup {"torn"}]
      BY <2>2 DEF Router!Tear
    <3> QED BY <2>1, <3>1 DEF HandlerRecord, SameCall
  <2>3. CASE ~Router!Reads(w, kind, id)
    <3>1. handler'[w] = handler[w]
      BY <2>3 DEF Router!Tear
    <3>2. handler[w].pc = "copy" /\ handler[w].kind # "request" => kind # "websocket"
      BY <2>3 DEF Router!Reads, Router!TableKind
    <3> QED BY <2>1, <3>1, <3>2 DEF SameCall
  <2> QED BY <2>2, <2>3
<1>2. HandlersOK'
  BY <1>1 DEF HandlersOK, Router!Tear
<1> QED BY <1>1, <1>2, OthersKeep

\* A route that is made stands at the end of its sequence, and nothing else changes.
LEMMA MakeDoes ==
  ASSUME TablesOK, AtHome, NEW o \in Routes, NEW kind \in TableKinds, NEW m, NEW r \in Resources \cup {"*"},
         Router!Make(o, kind, m, r)
  PROVE  /\ TablesOK'
         /\ \A k \in TableKinds : \A id \in DOMAIN Router!Table(k)' : OnceIn(Router!Table(k)'[id])
         /\ \A k \in TableKinds : \A id, p : Has(k, id, p)' <=> Has(k, id, p) \/ (k = kind /\ id = Router!RouteId(r) /\ p = o)
         /\ DOMAIN requestRoutesObservers \subseteq DOMAIN requestRoutesObservers'
         /\ ~(kind = "request" /\ Router!RouteId(r) = Router!Else) /\ Router!Else \in DOMAIN requestRoutesObservers =>
              requestRoutesObservers'[Router!Else] = requestRoutesObservers[Router!Else]
<1> DEFINE home == Router!RouteId(r)
           f == Router!Table(kind)
           g == Router!Registered(f, home, o)
<1>1. home \in Router!Ids
  BY DEF Router!RouteId, Router!Ids, Router!Else
<1>2. Router!IsTable(f) /\ f \in {requestRoutesObservers, websocketRoutesObservers}
  BY DEF TablesOK, Router!Table
<1>3. /\ Router!Table(kind)' = g /\ \A k \in TableKinds : k # kind => Router!Table(k)' = Router!Table(k)
      /\ kind = "request" => requestRoutesObservers' = g
      /\ kind # "request" => requestRoutesObservers' = requestRoutesObservers
  BY DEF Router!Make, Router!SetTable, Router!Table, TableKinds
<1>4. /\ Router!IsTable(g) /\ DOMAIN g = DOMAIN f \cup {home} /\ \A k \in DOMAIN f : k # home => g[k] = f[k]
      /\ g[home] = Append(Router!At(f, home), o) /\ Router!At(f, home) \in Seq(Routes)
  BY <1>1, <1>2, RegisteredIs
<1>5. route[o].stage = "unmade"
  BY DEF Router!Make
<1>6. \A id \in DOMAIN f : ~In(f[id], o)
  BY <1>2, <1>5 DEF AtHome, Has, Router!IsTable
<1>7. ~In(Router!At(f, home), o) /\ OnceIn(Router!At(f, home))
  BY <1>6 DEF Router!At, AtHome, OnceIn, In
<1>8. OnceIn(g[home]) /\ \A p : In(g[home], p) <=> p = o \/ In(Router!At(f, home), p)
  BY <1>4, <1>7, AppendIs
<1> HIDE DEF home, f, g
<1>9. \A p : In(Router!At(f, home), p) <=> home \in DOMAIN f /\ In(f[home], p)
  BY DEF Router!At, In
<1>10. \A k \in TableKinds : \A id \in DOMAIN Router!Table(k)' : OnceIn(Router!Table(k)'[id])
  <2> SUFFICES ASSUME NEW k \in TableKinds, NEW id \in DOMAIN Router!Table(k)'
               PROVE  OnceIn(Router!Table(k)'[id])
    OBVIOUS
  <2>1. CASE k # kind
    BY <1>3, <2>1 DEF AtHome
  <2>2. CASE k = kind /\ id # home
    <3>1. id \in DOMAIN f /\ g[id] = f[id] /\ Router!Table(k)' = g
      BY <1>3, <1>4, <2>2
    <3> QED BY <3>1 DEF AtHome, f
  <2>3. CASE k = kind /\ id = home
    BY <1>3, <1>8, <2>3
  <2> QED BY <2>1, <2>2, <2>3
<1>11. ASSUME NEW k \in TableKinds, NEW id, NEW p
       PROVE  Has(k, id, p)' <=> Has(k, id, p) \/ (k = kind /\ id = home /\ p = o)
  <2>1. CASE k # kind
    BY <1>3, <2>1 DEF Has
  <2>2. CASE k = kind /\ id # home
    BY <1>3, <1>4, <2>2 DEF Has, f
  <2>3. CASE k = kind /\ id = home
    BY <1>3, <1>4, <1>8, <1>9, <2>3 DEF Has, f
  <2> QED BY <2>1, <2>2, <2>3
<1>12. TablesOK'
  BY <1>3, <1>4 DEF TablesOK, Router!Table, TableKinds, Router!Make, Router!SetTable, f, g, home
<1>13. /\ DOMAIN requestRoutesObservers \subseteq DOMAIN requestRoutesObservers'
       /\ ~(kind = "request" /\ home = Router!Else) /\ Router!Else \in DOMAIN requestRoutesObservers =>
              requestRoutesObservers'[Router!Else] = requestRoutesObservers[Router!Else]
  <2>1. kind = "request" => f = requestRoutesObservers
    BY DEF f, Router!Table
  <2> QED BY <1>3, <1>4, <2>1
<1> QED BY <1>10, <1>11, <1>12, <1>13 DEF home

LEMMA MakeKeeps ==
  ASSUME RouterCore, NEW o \in Routes, NEW kind \in TableKinds, NEW m \in Methods \cup {"*"},
         NEW r \in Resources \cup {"*"}, Router!Make(o, kind, m, r)
  PROVE  RouterCore'
<1> USE DEF RouterCore
<1>1. /\ TablesOK'
      /\ \A k \in TableKinds : \A id \in DOMAIN Router!Table(k)' : OnceIn(Router!Table(k)'[id])
      /\ \A k \in TableKinds : \A id, p : Has(k, id, p)' <=> Has(k, id, p) \/ (k = kind /\ id = Router!RouteId(r) /\ p = o)
      /\ DOMAIN requestRoutesObservers \subseteq DOMAIN requestRoutesObservers'
      /\ ~(kind = "request" /\ Router!RouteId(r) = Router!Else) /\ Router!Else \in DOMAIN requestRoutesObservers =>
           requestRoutesObservers'[Router!Else] = requestRoutesObservers[Router!Else]
  BY MakeDoes
<1>2. /\ route[o].stage = "unmade" /\ maker' = maker /\ Router!Tear(kind, Router!RouteId(r))
      /\ route' = [route EXCEPT ![o] = [stage |-> "live", kind |-> kind, method |-> m, resource |-> r]]
      /\ overlapped' = (overlapped \/ Router!Found(kind, Router!RouteId(r)))
  BY DEF Router!Make
<1>3. /\ route'[o] = [stage |-> "live", kind |-> kind, method |-> m, resource |-> r]
      /\ \A p \in Routes : p # o => route'[p] = route[p]
  BY <1>2 DEF RoutesOK
<1>4. RoutesOK'
  <2>1. Router!Found(kind, Router!RouteId(r)) \in BOOLEAN
    BY DEF Router!Found
  <2>2. overlapped' \in BOOLEAN
    BY <1>2, <2>1 DEF RoutesOK
  <2>3. [stage |-> "live", kind |-> kind, method |-> m, resource |-> r] \in
          [stage : {"unmade", "live", "dying", "dead"}, kind : TableKinds,
                           method : Methods \cup {"*"}, resource : Resources \cup {"*"}]
    BY DEF TableKinds
  <2> QED BY <1>2, <1>3, <2>2, <2>3 DEF RoutesOK
<1>5. \A k \in TableKinds, id \in Router!Ids : ~Has(k, id, o)
  BY <1>2 DEF AtHome
<1>6. AtHome'
  <2> SUFFICES ASSUME NEW k \in TableKinds, NEW id \in Router!Ids, NEW p \in Routes, Has(k, id, p)'
               PROVE  route'[p].stage # "unmade" /\ route'[p].kind = k /\ id = Router!RouteId(route'[p].resource)
    BY <1>1 DEF AtHome, Router!RouteId
  <2>1. CASE p = o
    BY <1>1, <1>3, <1>5, <2>1
  <2>2. CASE p # o
    <3>1. Has(k, id, p)
      BY <1>1, <2>2
    <3> QED BY <1>3, <2>2, <3>1 DEF AtHome
  <2> QED BY <2>1, <2>2
<1>7. Kept'
  <2> SUFFICES ASSUME ~overlapped', NEW p \in Routes
               PROVE  (Has(route[p].kind, Router!RouteId(route[p].resource), p) <=>
                        route[p].stage # "unmade" /\ ~(route[p].stage = "dead" /\ ElseRoute(p)))'
    BY DEF Kept
  <2>1. CASE p = o
    <3>1. Has(kind, Router!RouteId(r), o)'
      BY <1>1
    <3>2. route[o].kind' = kind /\ route[o].resource' = r /\ route[o].stage' = "live"
      BY <1>3
    <3>3. Has(route[o].kind, Router!RouteId(route[o].resource), o)'
      BY <3>1, <3>2 DEF Has, Router!Table, Router!RouteId
    <3> QED BY <2>1, <3>2, <3>3
  <2>2. CASE p # o
    <3>1. route'[p] = route[p] /\ route[p].kind \in TableKinds /\ ~overlapped
      BY <1>2, <1>3, <2>2 DEF RoutesOK
    <3>2. Has(route[p].kind, Router!RouteId(route[p].resource), p)' <=> Has(route[p].kind, Router!RouteId(route[p].resource), p)
      BY <1>1, <2>2, <3>1
    <3>3. ElseRoute(p)' <=> ElseRoute(p)
      BY <3>1 DEF ElseRoute
    <3>4. Has(route[p].kind, Router!RouteId(route[p].resource), p)' <=> Has(route[p].kind, Router!RouteId(route[p].resource), p)
      BY <3>1, <3>2 DEF Has, Router!Table, Router!RouteId
    <3> QED BY <3>1, <3>3, <3>4 DEF Kept
  <2> QED BY <2>1, <2>2
<1>8. MakersOK'
  <2>1. \A t \in Makers : maker[t].route # None => maker[t].route \in Routes /\ maker[t].route # o
    BY <1>2 DEF MakersOK
  <2>2. \A t \in Makers : maker[t].route # None => route'[maker[t].route] = route[maker[t].route]
    BY <1>3, <2>1
  <2>3. \A t \in Makers : maker[t].route # None => (ElseRoute(maker[t].route)' <=> ElseRoute(maker[t].route))
    BY <1>2, <2>2 DEF ElseRoute
  <2> QED BY <1>1, <1>2, <2>2, <2>3 DEF MakersOK
<1>9. Placed'
  <2> SUFFICES ASSUME ~overlapped', NEW t \in Makers, maker[t].route # None
               PROVE  requestRoutesObservers'[Router!Else] = requestRoutesObservers[Router!Else]
    BY <1>2 DEF Placed
  <2>1. maker[t].route \in Routes /\ ElseRoute(maker[t].route) /\ Router!Else \in DOMAIN requestRoutesObservers
    BY DEF MakersOK
  <2>2. Router!DestroyedId(maker[t].route) = Router!Else
    BY <2>1, SameId
  <2>3. ~Router!Found(kind, Router!RouteId(r))
    BY <1>2
  <2>4. ~(kind = "request" /\ Router!RouteId(r) = Router!Else)
    BY <2>1, <2>2, <2>3 DEF Router!Found, ElseRoute
  <2> QED BY <1>1, <2>1, <2>4
<1>10. HandlersOK' /\ CallsOK'
  <2>1. kind # "websocket" => websocketRoutesObservers' = websocketRoutesObservers
    BY DEF Router!Make, Router!SetTable, TableKinds
  <2>2. RoutesStay
    BY <1>2, <1>3 DEF RoutesStay
  <2> QED BY <1>1, <1>2, <2>1, <2>2, TearKeeps
<1> QED BY <1>1, <1>4, <1>6, <1>7, <1>8, <1>9, <1>10

-----------------------------------------------------------------------------
(* Destroying routes. *)

LEMMA FindKeeps ==
  ASSUME RouterCore, NEW t \in Makers, NEW o \in Routes, Router!Destroyed_Find(t, o)
  PROVE  RouterCore'
<1> USE DEF RouterCore
<1> DEFINE s == Router!At(Router!Table(route[o].kind), Router!DestroyedId(o))
<1>1. /\ maker[t] = Router!Resting /\ route[o].stage = "live"
      /\ UNCHANGED <<requestRoutesObservers, websocketRoutesObservers, handler, overlapped>>
      /\ \/ /\ o \in Router!ToSet(s)
            /\ maker' = [maker EXCEPT ![t] = [route |-> o, place |-> CHOOSE i \in DOMAIN s : s[i] = o]]
            /\ route' = [route EXCEPT ![o].stage = "dying"]
         \/ /\ o \notin Router!ToSet(s) /\ route' = [route EXCEPT ![o].stage = "dead"] /\ maker' = maker
  BY DEF Router!Destroyed_Find, Router!tables
<1>2. /\ \A p \in Routes : p # o => route'[p] = route[p]
      /\ route'[o].kind = route[o].kind /\ route'[o].method = route[o].method
      /\ route'[o].resource = route[o].resource /\ route'[o].stage \in {"dying", "dead"}
      /\ o \in Router!ToSet(s) => route'[o].stage = "dying"
      /\ o \notin Router!ToSet(s) => route'[o].stage = "dead"
  BY <1>1 DEF RoutesOK
<1>3. \A p \in Routes : /\ route'[p].kind = route[p].kind /\ route'[p].resource = route[p].resource
                        /\ ElseRoute(p)' <=> ElseRoute(p)
  BY <1>2 DEF ElseRoute
<1>4. \A k, id, p : Has(k, id, p)' <=> Has(k, id, p)
  BY <1>1 DEF Has, Router!Table
<1>5. \A k : Router!Table(k)' = Router!Table(k)
  BY <1>1 DEF Router!Table
<1>6. Router!Table(route[o].kind) \in {requestRoutesObservers, websocketRoutesObservers} /\ Router!IsTable(Router!Table(route[o].kind))
  BY DEF TablesOK, Router!Table
<1>7. s \in Seq(Routes) /\ OnceIn(s)
  BY <1>6 DEF Router!At, Router!IsTable, AtHome, RoutesOK, OnceIn
<1>8. o \in Router!ToSet(s) => Has(route[o].kind, Router!DestroyedId(o), o) /\ Router!DestroyedId(o) \in Router!Ids
  BY <1>6, <1>7 DEF Router!At, Router!ToSet, Has, In, Router!IsTable
<1>9. o \in Router!ToSet(s) => ElseRoute(o) /\ Router!DestroyedId(o) = Router!Else
  BY <1>8, SameId DEF AtHome, RoutesOK
<1>10. TablesOK' /\ RoutesOK'
  BY <1>1, <1>2, <1>3 DEF TablesOK, RoutesOK
<1>11. AtHome'
  BY <1>2, <1>3, <1>4, <1>5 DEF AtHome, Router!RouteId
<1>12. Kept'
  <2> SUFFICES ASSUME ~overlapped, NEW p \in Routes
               PROVE  Has(route[p].kind, Router!RouteId(route[p].resource), p) <=>
                        route'[p].stage # "unmade" /\ ~(route'[p].stage = "dead" /\ ElseRoute(p))
    BY <1>1, <1>3, <1>4 DEF Kept, Router!RouteId
  <2>1. CASE p # o
    BY <1>2, <2>1 DEF Kept
  <2>2. CASE p = o
    <3>1. Has(route[o].kind, Router!RouteId(route[o].resource), o)
      BY <1>1 DEF Kept
    <3>2. ElseRoute(o) => o \in Router!ToSet(s)
      BY <3>1, <1>7, SameId DEF Has, In, Router!At, Router!ToSet
    <3> QED BY <1>2, <2>2, <3>1, <3>2
  <2> QED BY <2>1, <2>2
<1>13. MakersOK' /\ Placed'
  <2>1. CASE o \notin Router!ToSet(s)
    <3>1. maker' = maker /\ \A u \in Makers : maker[u].route # None => maker[u].route \in Routes /\ maker[u].route # o
      BY <1>1, <2>1 DEF MakersOK
    <3>2. \A u \in Makers : maker[u].route # None => route'[maker[u].route] = route[maker[u].route]
      BY <1>2, <3>1
    <3> QED BY <1>1, <1>3, <3>1, <3>2 DEF MakersOK, Placed
  <2>2. CASE o \in Router!ToSet(s)
    <3> DEFINE i == CHOOSE i \in DOMAIN s : s[i] = o
    <3>1. i \in 1..Len(s) /\ s[i] = o
      BY <1>7, <2>2 DEF Router!ToSet
    <3>2. i \in 0..Router!Cardinality(Routes) /\ i > 0
      BY <3>1, <1>7, RouterCounts
    <3>3. s = requestRoutesObservers[Router!Else] /\ Router!Else \in DOMAIN requestRoutesObservers
      BY <1>8, <1>9, <2>2 DEF Router!At, Has, ElseRoute, Router!Table
    <3>4. maker' = [maker EXCEPT ![t] = [route |-> o, place |-> i]]
      BY <1>1, <2>2
    <3> HIDE DEF i, s
    <3>5. /\ maker'[t] = [route |-> o, place |-> i] /\ \A u \in Makers : u # t => maker'[u] = maker[u]
      BY <3>4 DEF MakersOK
    <3>6. \A u \in Makers : u # t /\ maker[u].route # None => maker[u].route \in Routes /\ maker[u].route # o
      BY <1>1 DEF MakersOK
    <3>7. o # None
      BY RouterConstants DEF Router!RouterAssumption
    <3>8. maker' \in [Makers -> [route : Routes \cup {None}, place : 0..Router!Cardinality(Routes)]]
      BY <3>2, <3>4 DEF MakersOK
    <3>9. \A u \in Makers : maker'[u].route = None => maker'[u] = Router!Resting
      BY <3>5, <3>7 DEF MakersOK
    <3>10. ASSUME NEW u \in Makers, maker'[u].route # None
           PROVE  /\ route'[maker'[u].route].stage = "dying" /\ ElseRoute(maker[u].route)'
                  /\ Router!Else \in DOMAIN requestRoutesObservers' /\ maker'[u].place > 0
                  /\ \A v \in Makers : maker'[v].route = maker'[u].route => v = u
      <4>1. CASE u = t
        <5>1. maker'[u].route = o /\ maker'[u].place = i /\ \A v \in Makers : v # t => maker'[v].route # o
          BY <3>5, <3>6, <3>7, <4>1
        <5>2. route'[o].stage = "dying" /\ ElseRoute(o)' /\ Router!Else \in DOMAIN requestRoutesObservers'
          BY <1>1, <1>2, <1>3, <1>9, <2>2, <3>3
        <5>3. ElseRoute(maker[u].route)' <=> ElseRoute(o)'
          BY <5>1 DEF ElseRoute
        <5> QED BY <3>2, <4>1, <5>1, <5>2, <5>3
      <4>2. CASE u # t
        <5>1. maker'[u] = maker[u] /\ maker[u].route \in Routes /\ maker[u].route # o
          BY <3>5, <3>6, <3>10, <4>2
        <5>2. /\ route[maker[u].route].stage = "dying" /\ ElseRoute(maker[u].route) /\ maker[u].place > 0
              /\ Router!Else \in DOMAIN requestRoutesObservers
              /\ \A v \in Makers : maker[v].route = maker[u].route => v = u
          BY <3>10, <5>1 DEF MakersOK
        <5>3. route'[maker[u].route] = route[maker[u].route]
          BY <1>2, <5>1
        <5>4. ElseRoute(maker[u].route)'
          BY <5>1, <5>2, <5>3 DEF ElseRoute
        <5>5. \A v \in Makers : maker'[v].route = maker'[u].route => v = u
          BY <3>5, <4>2, <5>1, <5>2
        <5> QED BY <1>1, <5>1, <5>2, <5>3, <5>4, <5>5
      <4> QED BY <4>1, <4>2
    <3>11. MakersOK'
      BY <3>8, <3>9, <3>10 DEF MakersOK, Router!Resting
    <3>12. Placed'
      BY <1>1, <3>1, <3>3, <3>5 DEF Placed
    <3> QED BY <3>11, <3>12
  <2> QED BY <2>1, <2>2
<1>14. HandlersOK' /\ CallsOK'
  <2>1. RoutesStay
    BY <1>1, <1>2 DEF RoutesStay
  <2>2. \A w \in Handlers : SameCall(handler[w], handler'[w])
    BY <1>1 DEF SameCall
  <2> QED BY <1>1, <2>1, <2>2, OthersKeep DEF HandlersOK
<1> QED BY <1>10, <1>11, <1>12, <1>13, <1>14

\* What stands at the place goes out of the sequence of the else routes, and nothing else
\* changes.
LEMMA EraseDoes ==
  ASSUME RouterCore, NEW t \in Makers, Router!Destroyed_Erase(t)
  PROVE  LET o == maker[t].route
             s == requestRoutesObservers[Router!Else]
             i == maker[t].place
         IN /\ o \in Routes /\ route[o].stage = "dying" /\ ElseRoute(o) /\ i > 0 /\ i \in Nat
            /\ Router!Else \in DOMAIN requestRoutesObservers /\ s \in Seq(Routes)
            /\ route' = [route EXCEPT ![o].stage = "dead"] /\ maker' = [maker EXCEPT ![t] = Router!Resting]
            /\ websocketRoutesObservers' = websocketRoutesObservers /\ Router!Tear("request", Router!Else)
            /\ overlapped' \in BOOLEAN
            /\ overlapped' <=> overlapped \/ \E u \in Makers \ {t} : maker[u].route # None
            /\ DOMAIN requestRoutesObservers' = DOMAIN requestRoutesObservers
            /\ \A id \in DOMAIN requestRoutesObservers : id # Router!Else => requestRoutesObservers'[id] = requestRoutesObservers[id]
            /\ requestRoutesObservers'[Router!Else] = Router!EraseAt(s, i)
<1> USE DEF RouterCore
<1> DEFINE o == maker[t].route
<1>1. maker[t] # Router!Resting
  BY DEF Router!Destroyed_Erase
<1>2. /\ o \in Routes /\ o # None /\ route[o].stage = "dying" /\ ElseRoute(o)
      /\ Router!Else \in DOMAIN requestRoutesObservers /\ maker[t].place > 0 /\ maker[t].place \in Nat
  <2>1. o # None
    BY <1>1 DEF MakersOK
  <2>2. maker[t] \in [route : Routes \cup {None}, place : 0..Router!Cardinality(Routes)]
    BY DEF MakersOK
  <2>3. Router!Cardinality(Routes) \in Nat
    BY RouterCounts
  <2> QED BY <2>1, <2>2, <2>3 DEF MakersOK
<1>3. Router!DestroyedId(o) = Router!Else /\ route[o].kind = "request"
  BY <1>2, SameId DEF ElseRoute
<1>4. requestRoutesObservers[Router!Else] \in Seq(Routes)
  BY <1>2 DEF TablesOK, Router!IsTable
<1>5. Router!Table(route[o].kind) = requestRoutesObservers /\ Router!At(requestRoutesObservers, Router!Else) = requestRoutesObservers[Router!Else]
  BY <1>2, <1>3 DEF Router!Table, Router!At
<1>6. /\ Router!SetTable("request", Router!With(requestRoutesObservers, Router!Else, Router!EraseAt(requestRoutesObservers[Router!Else], maker[t].place)))
      /\ route' = [route EXCEPT ![o].stage = "dead"] /\ maker' = [maker EXCEPT ![t] = Router!Resting]
      /\ Router!Tear("request", Router!Else)
      /\ overlapped' = (overlapped \/ \E u \in Makers \ {t} :
                            /\ maker[u].route # None
                            /\ route[maker[u].route].kind = route[o].kind
                            /\ Router!DestroyedId(maker[u].route) = Router!DestroyedId(o))
  BY <1>3, <1>5 DEF Router!Destroyed_Erase
<1>7. \A u \in Makers : maker[u].route # None =>
        route[maker[u].route].kind = route[o].kind /\ Router!DestroyedId(maker[u].route) = Router!DestroyedId(o)
  <2> SUFFICES ASSUME NEW u \in Makers, maker[u].route # None
               PROVE  route[maker[u].route].kind = route[o].kind /\ Router!DestroyedId(maker[u].route) = Router!DestroyedId(o)
    OBVIOUS
  <2>1. maker[u].route \in Routes /\ ElseRoute(maker[u].route)
    BY DEF MakersOK
  <2>2. Router!DestroyedId(maker[u].route) = Router!Else
    BY <2>1, SameId
  <2> QED BY <1>3, <2>1, <2>2 DEF ElseRoute
<1>8. /\ requestRoutesObservers' = Router!With(requestRoutesObservers, Router!Else, Router!EraseAt(requestRoutesObservers[Router!Else], maker[t].place))
      /\ websocketRoutesObservers' = websocketRoutesObservers
  BY <1>6 DEF Router!SetTable
<1>9. /\ DOMAIN requestRoutesObservers' = DOMAIN requestRoutesObservers
      /\ \A id \in DOMAIN requestRoutesObservers : id # Router!Else => requestRoutesObservers'[id] = requestRoutesObservers[id]
      /\ requestRoutesObservers'[Router!Else] = Router!EraseAt(requestRoutesObservers[Router!Else], maker[t].place)
  BY <1>2, <1>8 DEF Router!With
<1>10. overlapped' \in BOOLEAN /\ (overlapped' <=> overlapped \/ \E u \in Makers \ {t} : maker[u].route # None)
  BY <1>6, <1>7 DEF RoutesOK
<1> QED BY <1>2, <1>4, <1>6, <1>8, <1>9, <1>10

LEMMA EraseKeeps ==
  ASSUME RouterCore, NEW t \in Makers, Router!Destroyed_Erase(t)
  PROVE  RouterCore'
<1> USE DEF RouterCore
<1> DEFINE o == maker[t].route
           s == requestRoutesObservers[Router!Else]
           i == maker[t].place
           r == Router!EraseAt(s, i)
<1>1. /\ o \in Routes /\ route[o].stage = "dying" /\ ElseRoute(o) /\ i > 0 /\ i \in Nat
      /\ Router!Else \in DOMAIN requestRoutesObservers /\ s \in Seq(Routes)
      /\ route' = [route EXCEPT ![o].stage = "dead"] /\ maker' = [maker EXCEPT ![t] = Router!Resting]
      /\ websocketRoutesObservers' = websocketRoutesObservers /\ Router!Tear("request", Router!Else)
      /\ overlapped' \in BOOLEAN
      /\ overlapped' <=> overlapped \/ \E u \in Makers \ {t} : maker[u].route # None
      /\ DOMAIN requestRoutesObservers' = DOMAIN requestRoutesObservers
      /\ \A id \in DOMAIN requestRoutesObservers : id # Router!Else => requestRoutesObservers'[id] = requestRoutesObservers[id]
      /\ requestRoutesObservers'[Router!Else] = r
  BY EraseDoes
<1>2. OnceIn(s)
  BY <1>1 DEF AtHome, Router!Table, TableKinds
<1>3. r \in Seq(Routes) /\ OnceIn(r)
  <2>1. CASE i <= Len(s)
    <3>1. i \in 1..Len(s) /\ r = WithoutPlace(s, i)
      BY <1>1, <2>1, SameRemoval DEF Router!EraseAt
    <3> HIDE DEF s, i, r
    <3>2. WithoutPlace(s, i) \in Seq(Routes)
      BY <1>1, <3>1, WithoutIs
    <3>3. OnceIn(WithoutPlace(s, i))
      BY <1>1, <1>2, <3>1, WithoutHas
    <3> QED BY <3>1, <3>2, <3>3
  <2>2. CASE ~(i <= Len(s))
    BY <1>1, <1>2, <2>2 DEF Router!EraseAt
  <2> QED BY <2>1, <2>2
<1>4. \A p : In(r, p) <=> ~(i <= Len(s) /\ p = s[i]) /\ In(s, p)
  <2>1. CASE i <= Len(s)
    <3>1. i \in 1..Len(s) /\ r = WithoutPlace(s, i)
      BY <1>1, <2>1, SameRemoval DEF Router!EraseAt
    <3> HIDE DEF s, i, r
    <3>2. \A p : In(WithoutPlace(s, i), p) <=> p # s[i] /\ In(s, p)
      BY <1>1, <1>2, <3>1, WithoutHas
    <3> QED BY <2>1, <3>1, <3>2
  <2>2. CASE ~(i <= Len(s))
    BY <2>2 DEF Router!EraseAt
  <2> QED BY <2>1, <2>2
<1> HIDE DEF r
<1>5. \A k, id, p : Has(k, id, p)' <=> Has(k, id, p) /\ ~(k = "request" /\ id = Router!Else /\ i <= Len(s) /\ p = s[i])
  <2> SUFFICES ASSUME NEW k, NEW id, NEW p
               PROVE  Has(k, id, p)' <=> Has(k, id, p) /\ ~(k = "request" /\ id = Router!Else /\ i <= Len(s) /\ p = s[i])
    OBVIOUS
  <2>1. CASE k # "request"
    BY <1>1, <2>1 DEF Has, Router!Table
  <2>2. CASE k = "request" /\ id # Router!Else
    BY <1>1, <2>2 DEF Has, Router!Table
  <2>3. CASE k = "request" /\ id = Router!Else
    <3>1. Has(k, id, p)' <=> In(r, p)
      BY <1>1, <2>3 DEF Has, Router!Table, In
    <3>2. Has(k, id, p) <=> In(s, p)
      BY <1>1, <2>3 DEF Has, Router!Table, In
    <3> QED BY <1>4, <2>3, <3>1, <3>2
  <2> QED BY <2>1, <2>2, <2>3
<1>6. /\ \A p \in Routes : p # o => route'[p] = route[p]
      /\ route'[o].stage = "dead"
      /\ \A p \in Routes : /\ route'[p].kind = route[p].kind /\ route'[p].resource = route[p].resource
                           /\ route'[p].method = route[p].method
                           /\ ElseRoute(p)' <=> ElseRoute(p)
  BY <1>1 DEF RoutesOK, ElseRoute
<1>7. TablesOK' /\ RoutesOK'
  <2>1. Router!IsTable(requestRoutesObservers)'
    BY <1>1, <1>3 DEF TablesOK, Router!IsTable
  <2>2. Router!IsTable(websocketRoutesObservers)'
    BY <1>1 DEF TablesOK, Router!IsTable
  <2> QED BY <1>1, <1>6, <2>1, <2>2 DEF TablesOK, RoutesOK
<1>8. AtHome'
  <2>1. \A k \in TableKinds : \A id \in DOMAIN Router!Table(k)' : OnceIn(Router!Table(k)'[id])
    BY <1>1, <1>3 DEF AtHome, Router!Table, TableKinds
  <2>2. \A k \in TableKinds, id \in Router!Ids, p \in Routes : Has(k, id, p)' =>
          route'[p].stage # "unmade" /\ route'[p].kind = k /\ id = Router!RouteId(route'[p].resource)
    BY <1>5, <1>6 DEF AtHome
  <2> QED BY <2>1, <2>2 DEF AtHome, Router!RouteId
<1>9. ~overlapped' => i <= Len(s) /\ s[i] = o
  BY <1>1, RouterConstants DEF Placed, MakersOK, Router!RouterAssumption
<1>10. Kept'
  <2> SUFFICES ASSUME ~overlapped', NEW p \in Routes
               PROVE  Has(route[p].kind, Router!RouteId(route[p].resource), p)' <=>
                        route'[p].stage # "unmade" /\ ~(route'[p].stage = "dead" /\ ElseRoute(p))
    BY <1>6 DEF Kept
  <2>1. Has(route[p].kind, Router!RouteId(route[p].resource), p)' <=>
          Has(route[p].kind, Router!RouteId(route[p].resource), p)
            /\ ~(route[p].kind = "request" /\ Router!RouteId(route[p].resource) = Router!Else /\ p = o)
    <3>1. PICK kd : kd = route[p].kind
      OBVIOUS
    <3>3. PICK home : home = Router!RouteId(route[p].resource)
      OBVIOUS
    <3>4. route'[p].kind = kd /\ Router!RouteId(route'[p].resource) = home
      BY <1>6, <3>1, <3>3
    <3>5. Has(route[p].kind, Router!RouteId(route[p].resource), p)' <=> Has(kd, home, p)'
      BY <3>4 DEF Router!RouteId, Has, Router!Table
    <3>2. \A k, id : Has(k, id, p)' <=> Has(k, id, p) /\ ~(k = "request" /\ id = Router!Else /\ p = o)
      BY <1>5, <1>9
    <3> QED BY <3>1, <3>2, <3>3, <3>5
  <2>2. ~overlapped
    BY <1>1
  <2>3. CASE p = o
    <3>1. route[o].kind = "request" /\ Router!RouteId(route[o].resource) = Router!Else
      BY <1>1 DEF ElseRoute, Router!RouteId
    <3> QED BY <1>1, <1>6, <2>1, <2>3, <3>1
  <2>4. CASE p # o
    BY <1>6, <2>1, <2>2, <2>4 DEF Kept
  <2> QED BY <2>3, <2>4
<1>11. MakersOK' /\ Placed'
  <2>1. maker'[t] = Router!Resting /\ \A u \in Makers : u # t => maker'[u] = maker[u]
    BY <1>1 DEF MakersOK
  <2>2. Router!Resting.route = None
    BY DEF Router!Resting
  <2>3. maker' \in [Makers -> [route : Routes \cup {None}, place : 0..Router!Cardinality(Routes)]]
    <3>1. Router!Cardinality(Routes) \in Nat
      BY RouterCounts
    <3>2. Router!Resting \in [route : Routes \cup {None}, place : 0..Router!Cardinality(Routes)]
      BY <3>1 DEF Router!Resting
    <3> QED BY <1>1, <3>2 DEF MakersOK
  <2>4. \A u \in Makers : u # t /\ maker[u].route # None => maker[u].route \in Routes /\ maker[u].route # o
    BY <1>1, RouterConstants DEF MakersOK, Router!RouterAssumption
  <2>5. \A u \in Makers : maker'[u].route # None => u # t /\ maker'[u] = maker[u]
    BY <2>1, <2>2
  <2>6. ASSUME NEW u \in Makers, maker'[u].route # None
        PROVE  /\ route'[maker'[u].route].stage = "dying" /\ ElseRoute(maker[u].route)'
               /\ Router!Else \in DOMAIN requestRoutesObservers' /\ maker'[u].place > 0
               /\ \A v \in Makers : maker'[v].route = maker'[u].route => v = u
    <3>1. u # t /\ maker'[u] = maker[u] /\ maker[u].route # None /\ maker[u].route \in Routes /\ maker[u].route # o
      BY <2>4, <2>5, <2>6
    <3>2. /\ route[maker[u].route].stage = "dying" /\ ElseRoute(maker[u].route) /\ maker[u].place > 0
          /\ \A v \in Makers : maker[v].route = maker[u].route => v = u
      BY <3>1 DEF MakersOK
    <3>3. route'[maker[u].route] = route[maker[u].route]
      BY <1>6, <3>1
    <3>4. ElseRoute(maker[u].route)'
      BY <3>1, <3>2, <3>3 DEF ElseRoute
    <3>5. \A v \in Makers : maker'[v].route = maker'[u].route => v = u
      BY <2>5, <2>6, <3>1, <3>2
    <3> QED BY <1>1, <3>1, <3>2, <3>3, <3>4, <3>5
  <2>7. \A u \in Makers : maker'[u].route = None => maker'[u] = Router!Resting
    BY <2>1 DEF MakersOK
  <2>8. MakersOK'
    BY <2>3, <2>6, <2>7 DEF MakersOK, Router!Resting
  <2>9. Placed'
    BY <1>1, <2>5 DEF Placed
  <2> QED BY <2>8, <2>9
<1>12. HandlersOK' /\ CallsOK'
  <2>1. RoutesStay
    BY <1>1, <1>6 DEF RoutesStay
  <2>2. overlapped => overlapped'
    BY <1>1
  <2> QED BY <1>1, <2>1, <2>2, TearKeeps DEF TableKinds
<1> QED BY <1>7, <1>8, <1>10, <1>11, <1>12

-----------------------------------------------------------------------------
(* Calls of the server. *)

LEMMA HandlerStep ==
  ASSUME RouterCore, NEW w \in Handlers, NEW h \in HandlerRecord, handler' = [handler EXCEPT ![w] = h],
         UNCHANGED Router!others, ~overlapped => ReachesBy(h), TodoBy(h), RefusedBy(h), AstrayBy(h)
  PROVE  RouterCore'
<1>1. /\ handler'[w] = h /\ \A v \in Handlers : v # w => handler'[v] = handler[v]
      /\ handler' \in [Handlers -> HandlerRecord]
  BY DEF RouterCore, HandlersOK
<1>2. HandlersOK'
  BY <1>1 DEF HandlersOK
<1>3. CallsOK'
  <2>1. \A v \in Handlers :
          /\ TodoBy(handler'[v]) /\ RefusedBy(handler'[v]) /\ AstrayBy(handler'[v])
          /\ ~overlapped => ReachesBy(handler'[v])
    BY <1>1 DEF RouterCore, CallsOK
  <2>2. /\ requestRoutesObservers' = requestRoutesObservers /\ websocketRoutesObservers' = websocketRoutesObservers
        /\ route' = route /\ overlapped' = overlapped
    BY DEF Router!others, Router!tables
  <2> SUFFICES ASSUME NEW v \in Handlers
               PROVE  /\ TodoBy(handler[v])' /\ RefusedBy(handler[v])' /\ AstrayBy(handler[v])'
                      /\ ~overlapped' => ReachesBy(handler[v])'
    BY DEF CallsOK
  <2>3. TodoBy(handler[v])' /\ RefusedBy(handler[v])' /\ AstrayBy(handler[v])'
    BY <2>1, <2>2 DEF TodoBy, RefusedBy, AstrayBy, Destroyed, Met
  <2>4. ~overlapped' => ReachesBy(handler[v])'
    BY <2>1, <2>2 DEF ReachesBy, Router!Observers, Router!Table
  <2> QED BY <2>3, <2>4
<1>4. /\ \A k, id, p : Has(k, id, p)' <=> Has(k, id, p)
      /\ \A k : Router!Table(k)' = Router!Table(k)
      /\ \A p : ElseRoute(p)' <=> ElseRoute(p)
  BY DEF Has, Router!Table, ElseRoute, Router!others, Router!tables
<1>5. TablesOK' /\ RoutesOK' /\ AtHome' /\ Kept' /\ MakersOK' /\ Placed'
  BY DEF RouterCore, TablesOK, RoutesOK, AtHome, Kept, MakersOK, Placed, Router!others, Router!tables, Has, In, Router!Table, ElseRoute, Router!RouteId
<1> QED BY <1>2, <1>3, <1>5 DEF RouterCore

\* What is observed was made once, for the table.
LEMMA ObservedIs ==
  ASSUME RouterCore, NEW kind, NEW id, NEW o \in Router!Observers(kind, id)
  PROVE  o \in Routes /\ route[o].stage # "unmade" /\ route[o].kind = Router!TableKind(kind)
<1> DEFINE f == Router!Table(Router!TableKind(kind))
<1>1. Router!IsTable(f) /\ Router!TableKind(kind) \in TableKinds
  BY DEF RouterCore, TablesOK, Router!Table, Router!TableKind, TableKinds
<1>2. PICK k \in DOMAIN f : o \in Router!ToSet(f[k])
  BY DEF Router!Observers
<1>3. f[k] \in Seq(Routes) /\ k \in Router!Ids
  BY <1>1, <1>2 DEF Router!IsTable
<1>4. o \in Routes /\ In(f[k], o)
  BY <1>2, <1>3 DEF Router!ToSet, In
<1>5. Has(Router!TableKind(kind), k, o)
  BY <1>2, <1>4 DEF Has
<1> QED BY <1>1, <1>3, <1>4, <1>5 DEF RouterCore, AtHome

\* Every route that is due to a websocket is observed by it.
LEMMA DueObserved ==
  ASSUME RouterCore, NEW kind, NEW p, ~overlapped, kind # "request"
  PROVE  Router!Due(kind, <<"WS", p>>) \subseteq Router!Observers(kind, <<"WS", p>>)
<1> DEFINE id == <<"WS", p>>
           f == websocketRoutesObservers
<1> SUFFICES ASSUME NEW o \in Router!Due(kind, id) PROVE o \in Router!Observers(kind, id)
  OBVIOUS
<1> DEFINE r == route[o].resource
<1>1. o \in Routes /\ route[o].stage = "live" /\ r # "*" /\ p \in Covers[r] /\ route[o].kind = "websocket"
  BY DEF Router!Due
<1>2. r \in Resources /\ Router!RouteId(r) = <<"WS", r>>
  BY <1>1 DEF RouterCore, RoutesOK, Router!RouteId
<1>3. Has("websocket", <<"WS", r>>, o)
  BY <1>1, <1>2 DEF RouterCore, Kept
<1>4. Router!Table(Router!TableKind(kind)) = f
  BY DEF Router!TableKind, Router!Table
<1>5. <<"WS", r>> \in DOMAIN f /\ o \in Router!ToSet(f[<<"WS", r>>])
  <2>1. <<"WS", r>> \in DOMAIN f /\ \E i \in 1..Len(f[<<"WS", r>>]) : f[<<"WS", r>>][i] = o
    BY <1>3 DEF Has, In, Router!Table
  <2>2. f[<<"WS", r>>] \in Seq(Routes)
    BY <2>1 DEF RouterCore, TablesOK, Router!IsTable
  <2> QED BY <2>1, <2>2 DEF Router!ToSet
<1>6. Router!Compatible(<<"WS", r>>, id)
  BY <1>1, <1>2, RouterConstants DEF Router!Compatible, Router!Else, Router!RouterAssumption
<1> QED BY <1>4, <1>5, <1>6 DEF Router!Observers

LEMMA HandleKeeps ==
  ASSUME RouterCore, NEW w \in Handlers, NEW kind \in Router!Kinds, NEW m \in Methods, NEW p \in Paths,
         Router!Handle(w, kind, m, p)
  PROVE  RouterCore'
<1> DEFINE method == IF kind = "request" THEN m ELSE "WS"
           id == <<method, p>>
           h == [pc |-> "copy", kind |-> kind, id |-> id, todo |-> {}, called |-> {},
                 due |-> Router!Due(kind, id), result |-> "none", faults |-> {}]
<1>1. handler' = [handler EXCEPT ![w] = h] /\ UNCHANGED Router!others
  BY DEF Router!Handle
<1>2. id \in ({"WS"} \cup Methods) \X Paths
  OBVIOUS
<1>3. /\ Router!Due(kind, id) \in SUBSET Routes
      /\ ~overlapped /\ kind # "request" => Router!Due(kind, id) \subseteq Router!Observers(kind, id)
  BY DueObserved DEF Router!Due
<1> HIDE DEF id
<1>4. h \in HandlerRecord
  BY <1>2, <1>3 DEF HandlerRecord
<1>5. ~overlapped => ReachesBy(h)
  BY <1>3 DEF ReachesBy
<1>6. TodoBy(h) /\ RefusedBy(h) /\ AstrayBy(h)
  BY DEF TodoBy, RefusedBy, AstrayBy
<1> QED BY <1>1, <1>4, <1>5, <1>6, HandlerStep

\* What is observed when the copy is there.
LEMMA CopiedKeeps ==
  ASSUME RouterCore, NEW w \in Handlers, Router!Copied(w)
  PROVE  RouterCore'
<1> DEFINE g == handler[w]
           all == Router!Observers(g.kind, g.id)
<1>1. g \in HandlerRecord /\ (~overlapped => ReachesBy(g)) /\ AstrayBy(g)
  BY DEF RouterCore, HandlersOK, CallsOK
<1>2. PICK todo \in IF "torn" \in g.faults THEN SUBSET all ELSE {all} :
        /\ handler' = [handler EXCEPT ![w].todo = todo, ![w].pc = IF todo = {} THEN "else" ELSE "call"]
        /\ g.pc = "copy" /\ UNCHANGED Router!others
  BY DEF Router!Copied
<1> DEFINE h == [g EXCEPT !.todo = todo, !.pc = IF todo = {} THEN "else" ELSE "call"]
<1>3. todo \subseteq all /\ ("torn" \notin g.faults => todo = all)
  BY <1>2
<1>4. all \subseteq Routes /\ \A o \in all : route[o].stage # "unmade" /\ route[o].kind = Router!TableKind(g.kind)
  BY ObservedIs
<1> HIDE DEF all
<1>5. handler' = [handler EXCEPT ![w] = h]
  BY <1>2 DEF RouterCore, HandlersOK
<1>6. h \in HandlerRecord
  BY <1>1, <1>3, <1>4 DEF HandlerRecord
<1>7. /\ h.pc = (IF todo = {} THEN "else" ELSE "call") /\ h.kind = g.kind /\ h.due = g.due /\ h.called = g.called
      /\ h.todo = todo /\ h.faults = g.faults
  BY <1>1 DEF HandlerRecord
<1> HIDE DEF h, g
<1>8. ~overlapped => ReachesBy(h)
  BY <1>1, <1>2, <1>3, <1>7 DEF ReachesBy, all
<1>9. TodoBy(h) /\ RefusedBy(h) /\ AstrayBy(h)
  BY <1>1, <1>3, <1>4, <1>7 DEF TodoBy, RefusedBy, AstrayBy, Met
<1> QED BY <1>2, <1>5, <1>6, <1>8, <1>9, HandlerStep

\* A call of one route, or one passed by.
LEMMA CallKeeps ==
  ASSUME RouterCore, NEW w \in Handlers,
         Router!Call(w) \/ Router!Throw(w) \/ Router!CallAstray(w) \/ Router!PassBy(w)
  PROVE  RouterCore'
<1> DEFINE g == handler[w]
<1>1. /\ g \in HandlerRecord /\ (~overlapped => ReachesBy(g)) /\ TodoBy(g) /\ RefusedBy(g) /\ AstrayBy(g)
      /\ handler \in [Handlers -> HandlerRecord]
  BY DEF RouterCore, HandlersOK, CallsOK
<1>2. CASE Router!Call(w)
  <2>1. PICK o \in g.todo :
          /\ handler' = [handler EXCEPT ![w].todo = @ \ {o}, ![w].called = @ \cup {o}, ![w].pc = Router!After(w, o)]
          /\ g.pc \in {"call", "walk"} /\ UNCHANGED Router!others
    BY <1>2 DEF Router!Call, Router!Calling
  <2> DEFINE h == [g EXCEPT !.todo = g.todo \ {o}, !.called = g.called \cup {o}, !.pc = Router!After(w, o)]
  <2>2. handler' = [handler EXCEPT ![w] = h]
    BY <1>1, <2>1
  <2>3. Router!After(w, o) = IF g.todo = {o} THEN "found" ELSE g.pc
    BY DEF Router!After
  <2>4. h \in HandlerRecord
    BY <1>1, <2>1, <2>3 DEF HandlerRecord
  <2>5. /\ h.pc = (IF g.todo = {o} THEN "found" ELSE g.pc) /\ h.kind = g.kind /\ h.due = g.due
        /\ h.called = g.called \cup {o} /\ h.todo = g.todo \ {o} /\ h.faults = g.faults
    BY <1>1, <2>3 DEF HandlerRecord
  <2> HIDE DEF h, g
  <2>6. ~overlapped => ReachesBy(h)
    BY <1>1, <2>1, <2>5 DEF ReachesBy
  <2>7. TodoBy(h) /\ RefusedBy(h) /\ AstrayBy(h)
    BY <1>1, <2>1, <2>5 DEF TodoBy, RefusedBy, AstrayBy, Met
  <2> QED BY <2>1, <2>2, <2>4, <2>6, <2>7, HandlerStep
<1>3. CASE Router!Throw(w)
  <2>1. PICK o \in g.todo :
          /\ handler' = [handler EXCEPT ![w].called = @ \cup {o}, ![w].pc = "threw"]
          /\ UNCHANGED Router!others
    BY <1>3 DEF Router!Throw
  <2> DEFINE h == [g EXCEPT !.called = g.called \cup {o}, !.pc = "threw"]
  <2>2. handler' = [handler EXCEPT ![w] = h]
    BY <1>1, <2>1
  <2>3. /\ h \in HandlerRecord /\ h.pc = "threw" /\ h.called = g.called \cup {o}
        /\ h.faults = g.faults /\ h.kind = g.kind
    BY <1>1, <2>1 DEF HandlerRecord
  <2> HIDE DEF h, g
  <2>4. ReachesBy(h) /\ TodoBy(h) /\ RefusedBy(h) /\ AstrayBy(h)
    BY <1>1, <2>3 DEF ReachesBy, TodoBy, RefusedBy, AstrayBy, Met
  <2> QED BY <2>1, <2>2, <2>3, <2>4, HandlerStep
<1>4. CASE Router!CallAstray(w)
  <2>1. PICK o \in g.todo : \E pc \in {Router!After(w, o), "threw"} :
          /\ ~Router!Fits(w, o) /\ g.pc \in {"call", "walk"} /\ UNCHANGED Router!others
          /\ handler' = [handler EXCEPT ![w].todo = @ \ {o}, ![w].faults = @ \cup {"pointer"}, ![w].pc = pc]
    BY <1>4 DEF Router!CallAstray, Router!Calling
  <2>2. PICK pc \in {Router!After(w, o), "threw"} :
          handler' = [handler EXCEPT ![w].todo = @ \ {o}, ![w].faults = @ \cup {"pointer"}, ![w].pc = pc]
    BY <2>1
  <2> DEFINE h == [g EXCEPT !.todo = g.todo \ {o}, !.faults = g.faults \cup {"pointer"}, !.pc = pc]
  <2>3. handler' = [handler EXCEPT ![w] = h]
    BY <1>1, <2>2
  <2>4. pc \in {IF g.todo = {o} THEN "found" ELSE g.pc, "threw"}
    BY DEF Router!After
  <2>5. h \in HandlerRecord
    BY <1>1, <2>1, <2>4 DEF HandlerRecord
  <2>6. /\ h.pc = pc /\ h.kind = g.kind /\ h.due = g.due
        /\ h.called = g.called /\ h.todo = g.todo \ {o} /\ h.faults = g.faults \cup {"pointer"}
    BY <1>1 DEF HandlerRecord
  <2>7. Destroyed \/ Met(g)
    <3>1. o \in Routes /\ g.kind \in Router!Kinds
      BY <1>1 DEF HandlerRecord
    <3>2. route[o].stage \in {"unmade", "live", "dying", "dead"}
      BY <3>1 DEF RouterCore, RoutesOK
    <3>3. route[o].stage \notin {"live", "dying"} \/ route[o].kind # Router!TableKind(g.kind)
      BY <2>1 DEF Router!Fits
    <3>4. route[o].stage # "unmade"
      BY <1>1, <2>1 DEF TodoBy
    <3>5. CASE route[o].stage = "dead"
      BY <3>1, <3>5 DEF Destroyed
    <3>6. CASE route[o].stage # "dead"
      <4>1. route[o].kind # Router!TableKind(g.kind)
        BY <3>2, <3>3, <3>4, <3>6
      <4>2. g.pc = "walk" /\ Router!Else \in DOMAIN requestRoutesObservers /\ route[o].kind = "request"
        BY <1>1, <2>1, <4>1 DEF TodoBy
      <4> QED BY <4>1, <4>2 DEF Met, Router!TableKind
    <3> QED BY <3>5, <3>6
  <2> HIDE DEF h, g
  <2>8. ReachesBy(h) /\ RefusedBy(h) /\ AstrayBy(h)
    BY <2>6, <2>7 DEF ReachesBy, RefusedBy, AstrayBy, Met
  <2>9. TodoBy(h)
    BY <1>1, <2>4, <2>6 DEF TodoBy
  <2> QED BY <2>1, <2>3, <2>5, <2>8, <2>9, HandlerStep
<1>5. CASE Router!PassBy(w)
  <2>1. PICK o \in g.todo :
          /\ handler' = [handler EXCEPT ![w].todo = @ \ {o}, ![w].pc = Router!After(w, o)]
          /\ g.pc = "walk" /\ "torn" \in g.faults /\ UNCHANGED Router!others
    BY <1>5 DEF Router!PassBy
  <2> DEFINE h == [g EXCEPT !.todo = g.todo \ {o}, !.pc = Router!After(w, o)]
  <2>2. handler' = [handler EXCEPT ![w] = h]
    BY <1>1, <2>1
  <2>3. Router!After(w, o) = IF g.todo = {o} THEN "found" ELSE g.pc
    BY DEF Router!After
  <2>4. h \in HandlerRecord
    BY <1>1, <2>1, <2>3 DEF HandlerRecord
  <2>5. /\ h.pc = (IF g.todo = {o} THEN "found" ELSE g.pc) /\ h.kind = g.kind
        /\ h.called = g.called /\ h.todo = g.todo \ {o} /\ h.faults = g.faults
    BY <1>1, <2>3 DEF HandlerRecord
  <2> HIDE DEF h, g
  <2>6. ReachesBy(h)
    BY <2>1, <2>5 DEF ReachesBy
  <2>7. TodoBy(h) /\ RefusedBy(h) /\ AstrayBy(h)
    BY <1>1, <2>1, <2>5 DEF TodoBy, RefusedBy, AstrayBy, Met
  <2> QED BY <2>1, <2>2, <2>4, <2>6, <2>7, HandlerStep
<1> QED BY <1>2, <1>3, <1>4, <1>5

\* The end of a call, or its search for the else routes.
LEMMA EndKeeps ==
  ASSUME RouterCore, NEW w \in Handlers, Router!CallElse(w) \/ Router!Finish(w) \/ Router!Return(w)
  PROVE  RouterCore'
<1> DEFINE g == handler[w]
<1>1. /\ g \in HandlerRecord /\ (~overlapped => ReachesBy(g)) /\ TodoBy(g) /\ RefusedBy(g) /\ AstrayBy(g)
      /\ handler \in [Handlers -> HandlerRecord]
  BY DEF RouterCore, HandlersOK, CallsOK
<1>2. CASE Router!CallElse(w)
  <2> DEFINE s == requestRoutesObservers[Router!Else]
             h == IF Router!Else \notin DOMAIN requestRoutesObservers THEN [g EXCEPT !.pc = "lost"]
                  ELSE [g EXCEPT !.pc = IF s = <<>> THEN "found" ELSE "walk", !.todo = Router!ToSet(s)]
  <2>1. g.pc = "else" /\ handler' = [handler EXCEPT ![w] = h] /\ UNCHANGED Router!others
    BY <1>1, <1>2 DEF Router!CallElse
  <2>2. CASE Router!Else \notin DOMAIN requestRoutesObservers
    <3>1. /\ h \in HandlerRecord /\ h.pc = "lost" /\ h.due = g.due /\ h.kind = g.kind /\ h.called = g.called
          /\ h.faults = g.faults
      BY <1>1, <2>2 DEF HandlerRecord
    <3> HIDE DEF h, g
    <3>2. (~overlapped => ReachesBy(h)) /\ TodoBy(h) /\ RefusedBy(h) /\ AstrayBy(h)
      BY <1>1, <2>1, <3>1 DEF ReachesBy, TodoBy, RefusedBy, AstrayBy, Met
    <3> QED BY <2>1, <3>1, <3>2, HandlerStep
  <2>3. CASE Router!Else \in DOMAIN requestRoutesObservers
    <3>1. \A o \in Router!ToSet(s) : o \in Routes /\ route[o].stage # "unmade" /\ route[o].kind = "request"
      <4> SUFFICES ASSUME NEW o \in Router!ToSet(s)
                   PROVE  o \in Routes /\ route[o].stage # "unmade" /\ route[o].kind = "request"
        OBVIOUS
      <4>1. s \in Seq(Routes) /\ Router!Else \in Router!Ids
        BY <2>3 DEF RouterCore, TablesOK, Router!IsTable
      <4>2. o \in Routes /\ Has("request", Router!Else, o)
        BY <2>3, <4>1 DEF Router!ToSet, Has, In, Router!Table
      <4> QED BY <4>1, <4>2 DEF RouterCore, AtHome, TableKinds
    <3>2. /\ h \in HandlerRecord /\ h.pc \in {"found", "walk"} /\ h.due = g.due /\ h.kind = g.kind
          /\ h.todo = Router!ToSet(s) /\ h.faults = g.faults
      BY <1>1, <2>3, <3>1 DEF HandlerRecord
    <3> HIDE DEF h, g
    <3>3. (~overlapped => ReachesBy(h)) /\ TodoBy(h) /\ RefusedBy(h) /\ AstrayBy(h)
      BY <1>1, <2>1, <2>3, <3>1, <3>2 DEF ReachesBy, TodoBy, RefusedBy, AstrayBy, Met
    <3> QED BY <2>1, <3>2, <3>3, HandlerStep
  <2> QED BY <2>2, <2>3
<1>3. CASE Router!Finish(w)
  <2> DEFINE h == [g EXCEPT !.pc = "done", !.result = Router!Result(g.kind, g.pc)]
  <2>1. g.pc \in {"found", "threw", "lost"} /\ UNCHANGED Router!others
    BY <1>3 DEF Router!Finish
  <2>2. handler' = [handler EXCEPT ![w] = h]
    BY <1>1, <1>3 DEF Router!Finish
  <2>3. Router!Result(g.kind, g.pc) \in {"none", "ok", "error", "unset", "disconnected"}
    BY <2>1 DEF Router!Result
  <2>4. h \in HandlerRecord
    BY <1>1, <2>3 DEF HandlerRecord
  <2>5. /\ h.pc = "done" /\ h.called = g.called /\ h.kind = g.kind /\ h.faults = g.faults
        /\ h.result = Router!Result(g.kind, g.pc) /\ g.kind \in Router!Kinds
    BY <1>1 DEF HandlerRecord
  <2> HIDE DEF h, g
  <2>6. ReachesBy(h) /\ TodoBy(h) /\ AstrayBy(h)
    BY <1>1, <2>5 DEF ReachesBy, TodoBy, AstrayBy, Met
  <2>7. RefusedBy(h)
    BY <1>1, <2>1, <2>5 DEF RefusedBy, Router!Result, Router!Kinds
  <2> QED BY <2>1, <2>2, <2>4, <2>6, <2>7, HandlerStep
<1>4. CASE Router!Return(w)
  <2>1. Router!Waiting \in HandlerRecord
    BY DEF Router!Waiting, HandlerRecord, Router!Kinds
  <2>2. ReachesBy(Router!Waiting) /\ TodoBy(Router!Waiting) /\ RefusedBy(Router!Waiting) /\ AstrayBy(Router!Waiting)
    BY DEF Router!Waiting, ReachesBy, TodoBy, RefusedBy, AstrayBy
  <2> QED BY <1>4, <2>1, <2>2, HandlerStep DEF Router!Return
<1> QED BY <1>2, <1>3, <1>4

-----------------------------------------------------------------------------
(* The invariant, and what it implies. *)

LEMMA RouterInit == Router!Init => RouterInv
<1> SUFFICES ASSUME Router!Init PROVE RouterInv
  OBVIOUS
<1>1. /\ requestRoutesObservers = Router!NoKeys /\ websocketRoutesObservers = Router!NoKeys /\ overlapped = FALSE
      /\ DOMAIN Router!NoKeys = {} /\ routerCrashed = FALSE
      /\ \A o \in Routes : route[o] = Router!Unmade
      /\ \A t \in Makers : maker[t] = Router!Resting
      /\ \A w \in Handlers : handler[w] = Router!Waiting
  BY DEF Router!Init, Router!NoKeys
<1>2. TablesOK /\ \A k, id, o : ~Has(k, id, o)
  BY <1>1 DEF TablesOK, Router!IsTable, Has, Router!Table
<1>3. RoutesOK /\ AtHome /\ Kept
  <2>1. Router!Unmade \in [stage : {"unmade", "live", "dying", "dead"}, kind : TableKinds,
                    method : Methods \cup {"*"}, resource : Resources \cup {"*"}]
    BY DEF Router!Unmade, TableKinds
  <2> QED BY <1>1, <1>2, <2>1 DEF Router!Init, RoutesOK, AtHome, Kept, Router!Unmade, Router!Table
<1>4. MakersOK /\ Placed
  <2>1. Router!Cardinality(Routes) \in Nat
    BY RouterCounts
  <2> QED BY <1>1, <2>1 DEF Router!Init, MakersOK, Placed, Router!Resting
<1>5. HandlersOK /\ CallsOK
  <2>1. Router!Waiting \in HandlerRecord
    BY DEF Router!Waiting, HandlerRecord, Router!Kinds
  <2>2. ReachesBy(Router!Waiting) /\ TodoBy(Router!Waiting) /\ RefusedBy(Router!Waiting) /\ AstrayBy(Router!Waiting)
    BY DEF Router!Waiting, ReachesBy, TodoBy, RefusedBy, AstrayBy
  <2> QED BY <1>1, <2>1, <2>2 DEF Router!Init, HandlersOK, CallsOK
<1> QED BY <1>1, <1>2, <1>3, <1>4, <1>5 DEF RouterInv, RouterCore, StoppedOK

LEMMA RouterCoreStep == RouterCore /\ [Router!Next]_Router!vars => RouterCore'
<1> SUFFICES ASSUME RouterCore, [Router!Next]_Router!vars PROVE RouterCore'
  OBVIOUS
<1>1. ASSUME UNCHANGED <<Router!others, handler>> PROVE RouterCore'
  <2>1. TablesOK' /\ RoutesOK' /\ AtHome' /\ Kept' /\ MakersOK' /\ Placed'
    BY <1>1 DEF RouterCore, TablesOK, RoutesOK, AtHome, Kept, MakersOK, Placed, Router!others, Router!tables, Has, In, Router!Table, ElseRoute, Router!RouteId
  <2>2. RoutesStay
    BY <1>1 DEF RoutesStay, Router!others
  <2>3. \A w \in Handlers : SameCall(handler[w], handler'[w])
    BY <1>1 DEF SameCall
  <2>4. HandlersOK'
    BY <1>1 DEF RouterCore, HandlersOK
  <2>5. CallsOK'
    BY <1>1, <2>2, <2>3, <2>4, OthersKeep DEF Router!others, Router!tables
  <2> QED BY <2>1, <2>4, <2>5 DEF RouterCore
<1>2. CASE UNCHANGED Router!vars
  BY <1>1, <1>2 DEF Router!vars, Router!others
<1>3. ASSUME NEW o \in Routes, Router!Route(o) \/ Router!RouteWebsocket(o)
      PROVE  RouterCore'
  <2>1. CASE Router!Route(o)
    <3> PICK m \in Methods \cup {"*"}, r \in Resources \cup {"*"} : Router!Make(o, "request", m, r)
      BY <2>1 DEF Router!Route
    <3> QED BY MakeKeeps DEF TableKinds
  <2>2. CASE Router!RouteWebsocket(o)
    <3> PICK r \in Resources \cup {"*"} : Router!Make(o, "websocket", "*", r)
      BY <2>2 DEF Router!RouteWebsocket
    <3> QED BY MakeKeeps DEF TableKinds
  <2> QED BY <1>3, <2>1, <2>2
<1>4. ASSUME NEW t \in Makers, Router!Maker(t)
      PROVE  RouterCore'
  <2>1. CASE Router!Destroyed_Crash(t)
    BY <1>1, <2>1 DEF Router!Destroyed_Crash, Router!others
  <2> QED BY <1>4, <2>1, EraseKeeps, FindKeeps DEF Router!Maker
<1>5. ASSUME NEW w \in Handlers, Router!Handler(w)
      PROVE  RouterCore'
  <2>1. CASE Router!Crash(w)
    BY <1>1, <2>1 DEF Router!Crash
  <2> QED BY <1>5, <2>1, HandleKeeps, CopiedKeeps, CallKeeps, EndKeeps DEF Router!Handler
<1> QED BY <1>2, <1>3, <1>4, <1>5 DEF Router!Next, Router!Running

\* The program stops for one of the reasons.
LEMMA StoppedStep == RouterInv /\ [Router!Next]_Router!vars => StoppedOK'
<1> SUFFICES ASSUME RouterInv, [Router!Next]_Router!vars PROVE StoppedOK'
  OBVIOUS
<1>1. CASE UNCHANGED Router!vars
  <2>1. /\ route' = route /\ overlapped' = overlapped /\ handler' = handler /\ routerCrashed' = routerCrashed
        /\ requestRoutesObservers' = requestRoutesObservers
    BY <1>1 DEF Router!vars, Router!tables
  <2> QED BY <2>1 DEF RouterInv, StoppedOK, Destroyed, Met
<1>2. ASSUME ~routerCrashed, routerCrashed' = routerCrashed PROVE StoppedOK'
  BY <1>2 DEF RouterInv, StoppedOK
<1>3. ASSUME NEW t \in Makers, Router!Destroyed_Crash(t) PROVE StoppedOK'
  BY <1>3 DEF Router!Destroyed_Crash, StoppedOK
<1>4. ASSUME NEW w \in Handlers, Router!Crash(w) PROVE StoppedOK'
  <2> DEFINE g == handler[w]
  <2>0. /\ routerCrashed' = TRUE /\ route' = route /\ handler' = handler
        /\ requestRoutesObservers' = requestRoutesObservers
    BY <1>4 DEF Router!Crash, Router!others, Router!tables
  <2>1. g \in HandlerRecord /\ TodoBy(g)
    BY DEF RouterInv, RouterCore, HandlersOK, CallsOK
  <2>2. CASE "torn" \in g.faults
    BY <2>0, <2>2 DEF StoppedOK
  <2>3. ASSUME g.pc \in {"call", "walk"}, NEW o \in g.todo, ~Router!Fits(w, o) PROVE Destroyed \/ Met(g)
    <3>1. o \in Routes
      BY <2>1 DEF HandlerRecord
    <3>2. route[o].stage \in {"unmade", "live", "dying", "dead"}
      BY <3>1 DEF RouterInv, RouterCore, RoutesOK
    <3>3. route[o].stage \notin {"live", "dying"} \/ route[o].kind # Router!TableKind(g.kind)
      BY <2>3 DEF Router!Fits
    <3> QED BY <2>1, <2>3, <3>1, <3>2, <3>3 DEF TodoBy, Destroyed, Met, Router!TableKind
  <2>4. CASE Destroyed \/ Met(g)
    BY <2>0, <2>4 DEF StoppedOK, Destroyed, Met
  <2> QED BY <1>4, <2>2, <2>3, <2>4 DEF Router!Crash, Router!Calling
<1>5. ASSUME NEW o \in Routes, Router!Route(o) \/ Router!RouteWebsocket(o) PROVE routerCrashed' = routerCrashed
  BY <1>5 DEF Router!Route, Router!RouteWebsocket, Router!Make
<1>6. ASSUME NEW t \in Makers, Router!Maker(t) PROVE routerCrashed' = routerCrashed \/ Router!Destroyed_Crash(t)
  BY <1>6 DEF Router!Maker, Router!Destroyed_Find, Router!Destroyed_Erase
<1>7. ASSUME NEW w \in Handlers, Router!Handler(w) PROVE routerCrashed' = routerCrashed \/ Router!Crash(w)
  BY <1>7 DEF Router!Handler, Router!Handle, Router!Copied, Router!Call, Router!Throw, Router!CallAstray,
              Router!PassBy, Router!CallElse, Router!Finish, Router!Return
<1>8. CASE ~routerCrashed /\ Router!Running
  BY <1>2, <1>3, <1>4, <1>5, <1>6, <1>7, <1>8 DEF Router!Running
<1> QED BY <1>1, <1>8 DEF Router!Next

LEMMA RouterStep == RouterInv /\ [Router!Next]_Router!vars => RouterInv'
  BY RouterCoreStep, StoppedStep DEF RouterInv

\* A route stands at its home or nowhere.
LEMMA EntriesAre ==
  ASSUME RouterCore, NEW o \in Routes
  PROVE  Router!Entries(o) = IF Has(route[o].kind, Router!RouteId(route[o].resource), o) THEN 1 ELSE 0
<1> DEFINE Places(f) == {p \in (DOMAIN f) \X (1..Router!Cardinality(Routes)) : p[2] <= Len(f[p[1]]) /\ f[p[1]][p[2]] = o}
           home == Router!RouteId(route[o].resource)
<1>1. ASSUME NEW k \in TableKinds
      PROVE  Router!Cardinality(Places(Router!Table(k))) = IF k = route[o].kind /\ Has(k, home, o) THEN 1 ELSE 0
  <2> DEFINE f == Router!Table(k)
  <2>1. Router!IsTable(f) /\ \A id \in DOMAIN f : OnceIn(f[id]) /\ f[id] \in Seq(Routes)
    BY DEF RouterCore, TablesOK, Router!Table, AtHome, Router!IsTable
  <2>2. \A id \in DOMAIN f : Len(f[id]) <= Router!Cardinality(Routes)
    BY <2>1, RouterCounts
  <2>3. ASSUME NEW p \in Places(f)
        PROVE  p[1] = home /\ k = route[o].kind /\ Has(k, home, o) /\ p[2] \in 1..Len(f[home]) /\ f[home][p[2]] = o
    <3>1. p[1] \in DOMAIN f /\ p[2] \in 1..Len(f[p[1]]) /\ f[p[1]][p[2]] = o
      <4>1. p \in (DOMAIN f) \X (1..Router!Cardinality(Routes)) /\ p[2] <= Len(f[p[1]]) /\ f[p[1]][p[2]] = o
        OBVIOUS
      <4> HIDE DEF f
      <4>2. p[1] \in DOMAIN f /\ p[2] \in 1..Router!Cardinality(Routes) /\ f[p[1]] \in Seq(Routes)
        BY <2>1, <4>1
      <4>3. Len(f[p[1]]) \in Nat /\ Router!Cardinality(Routes) \in Nat
        BY <4>2, RouterCounts
      <4> QED BY <4>1, <4>2, <4>3
    <3>2. Has(k, p[1], o) /\ p[1] \in Router!Ids
      BY <2>1, <3>1 DEF Has, In, Router!IsTable
    <3> QED BY <3>1, <3>2 DEF RouterCore, AtHome
  <2>4. CASE k = route[o].kind /\ Has(k, home, o)
    <3>1. home \in DOMAIN f /\ \E i \in 1..Len(f[home]) : f[home][i] = o
      BY <2>4 DEF Has, In
    <3>2. PICK i \in 1..Len(f[home]) : f[home][i] = o
      BY <3>1
    <3>3. i \in 1..Router!Cardinality(Routes) /\ i <= Len(f[home])
      <4>1. Len(f[home]) \in Nat /\ Router!Cardinality(Routes) \in Nat /\ Len(f[home]) <= Router!Cardinality(Routes)
        BY <2>1, <2>2, <3>1, RouterCounts
      <4> HIDE DEF f, home
      <4> QED BY <4>1
    <3>4. <<home, i>> \in Places(f)
      BY <3>1, <3>2, <3>3
    <3>5. \A p \in Places(f) : p = <<home, i>>
      <4> SUFFICES ASSUME NEW p \in Places(f) PROVE p = <<home, i>>
        OBVIOUS
      <4>1. p[1] = home /\ p[2] \in 1..Len(f[home]) /\ f[home][p[2]] = o
        BY <2>3
      <4>2. p[2] = i
        BY <2>1, <3>1, <3>2, <4>1 DEF OnceIn
      <4>3. p \in (DOMAIN f) \X (1..Router!Cardinality(Routes))
        OBVIOUS
      <4> QED BY <4>1, <4>2, <4>3
    <3>6. Places(f) = {<<home, i>>}
      BY <3>4, <3>5
    <3> QED BY <2>4, <3>6, RouterCounts
  <2>5. CASE ~(k = route[o].kind /\ Has(k, home, o))
    <3>1. Places(f) = {}
      BY <2>3, <2>5
    <3> QED BY <2>5, <3>1, RouterCounts
  <2> QED BY <2>4, <2>5
<1>2. Router!Entries(o) = Router!Cardinality(Places(Router!Table("request"))) + Router!Cardinality(Places(Router!Table("websocket")))
  BY DEF Router!Entries, Router!Table
<1>3. route[o].kind \in TableKinds
  BY DEF RouterCore, RoutesOK
<1>4. route[o].kind = "request" \/ route[o].kind = "websocket"
  BY <1>3 DEF TableKinds
<1> HIDE DEF home, Places
<1>5. CASE route[o].kind = "request"
  <2>1. Router!Cardinality(Places(Router!Table("request"))) = IF Has("request", home, o) THEN 1 ELSE 0
    BY <1>1, <1>5 DEF TableKinds
  <2>2. Router!Cardinality(Places(Router!Table("websocket"))) = 0
    BY <1>1, <1>5 DEF TableKinds
  <2> QED BY <1>2, <1>5, <2>1, <2>2 DEF home
<1>6. CASE route[o].kind = "websocket"
  <2>1. Router!Cardinality(Places(Router!Table("websocket"))) = IF Has("websocket", home, o) THEN 1 ELSE 0
    BY <1>1, <1>6 DEF TableKinds
  <2>2. Router!Cardinality(Places(Router!Table("request"))) = 0
    BY <1>1, <1>6 DEF TableKinds
  <2> QED BY <1>2, <1>6, <2>1, <2>2 DEF home
<1> QED BY <1>4, <1>5, <1>6

LEMMA RouterImplied ==
  RouterInv => /\ Router!TypeOK /\ Router!LiveOnce /\ Router!OnlyElseForgotten /\ Router!OnlyThenAstray
               /\ Router!WebsocketReachesRoutes /\ Router!UnroutedIsRefused
<1> SUFFICES ASSUME RouterInv
             PROVE  /\ Router!TypeOK /\ Router!LiveOnce /\ Router!OnlyElseForgotten /\ Router!OnlyThenAstray
                    /\ Router!WebsocketReachesRoutes /\ Router!UnroutedIsRefused
  OBVIOUS
<1> USE DEF RouterInv
<1>1. Router!TypeOK
  BY DEF RouterCore, StoppedOK, Router!TypeOK, TablesOK, RoutesOK, MakersOK, HandlersOK, HandlerRecord, TableKinds
<1>2. \A o \in Routes : Router!Entries(o) = IF Has(route[o].kind, Router!RouteId(route[o].resource), o) THEN 1 ELSE 0
  BY EntriesAre
<1>3. Router!LiveOnce
  BY <1>2 DEF RouterCore, Kept, Router!LiveOnce
<1>4. Router!OnlyElseForgotten
  BY <1>2 DEF RouterCore, Kept, Router!OnlyElseForgotten, ElseRoute
<1>5. Router!OnlyThenAstray
  BY DEF RouterCore, CallsOK, AstrayBy, StoppedOK, Destroyed, Met, Router!OnlyThenAstray
<1>6. Router!WebsocketReachesRoutes
  BY DEF RouterCore, CallsOK, ReachesBy, Router!WebsocketReachesRoutes
<1>7. Router!UnroutedIsRefused
  BY DEF RouterCore, CallsOK, RefusedBy, Router!UnroutedIsRefused
<1> QED BY <1>1, <1>3, <1>4, <1>5, <1>6, <1>7
-----------------------------------------------------------------------------
(* The list of websockets. *)

\* Clients, and the empty places of a copy that was torn.
Copied == Clients \cup {None}

SenderRecord ==
  [pc : {"idle", "copy", "send"}, end : 0..Sockets!Cardinality(Clients), todo : Seq(Copied),
   due : SUBSET Clients, sent : SUBSET Clients]

SocketTypes ==
  /\ connectedWebsockets \in Seq(Clients)
  /\ joining \in [Clients -> [pc : {"no", "write", "joined"}, end : 0..Sockets!Cardinality(Clients)]]
  /\ leaving \in [Clients -> [pc : {"no", "erase", "left"}, place : 0..Sockets!Cardinality(Clients)]]
  /\ sender \in [Senders -> SenderRecord] /\ sends \in 0..MaxSends
  /\ torn \subseteq Senders /\ late \subseteq Clients /\ raced \in BOOLEAN /\ crashed \in BOOLEAN

\* Nobody is in the list twice, or before it was written there.
ListedOnce ==
  /\ OnceIn(connectedWebsockets)
  /\ \A c \in Clients : In(connectedWebsockets, c) => joining[c].pc = "joined"
  /\ \A c \in Clients : leaving[c].pc = "erase" => leaving[c].place > 0

\* What a thread has read of the list is so until it changes the list.
StillSo ==
  ~raced => \A c \in Clients :
    /\ joining[c].pc = "write" => joining[c].end = Len(connectedWebsockets)
    /\ leaving[c].pc = "erase" =>
         leaving[c].place <= Len(connectedWebsockets) /\ connectedWebsockets[leaving[c].place] = c

ListedAsConnected ==
  ~raced => \A c \in Clients :
    /\ joining[c].pc = "joined" /\ leaving[c].pc \in {"no", "erase"} => In(connectedWebsockets, c)
    /\ leaving[c].pc = "left" /\ In(connectedWebsockets, c) => c \in late

\* A copy that nobody tears is as much of the list as was read; when it is whole it has everyone
\* who is due and no empty place.
SendingBy(h) ==
  /\ h.pc = "copy" =>
       /\ h.end = Len(connectedWebsockets) /\ Len(h.todo) < h.end
       /\ \A i \in 1..Len(h.todo) : h.todo[i] = connectedWebsockets[i]
       /\ \A c \in h.due : In(connectedWebsockets, c)
  /\ h.pc = "send" =>
       /\ \A c \in h.due : c \in h.sent \/ In(h.todo, c)
       /\ ~In(h.todo, None)
  /\ h.pc = "idle" => h.todo = <<>>

Sending == ~raced => \A s \in Senders \ torn : SendingBy(sender[s])

\* Why the program stopped.
WhyStopped == crashed => raced \/ torn # {}

SocketsInv == SocketTypes /\ ListedOnce /\ StillSo /\ ListedAsConnected /\ Sending /\ WhyStopped

LEMMA SocketsCounts ==
  /\ Sockets!Cardinality(Clients) \in Nat /\ Sockets!Cardinality({}) = 0 /\ \A x : Sockets!Cardinality({x}) = 1
  /\ \A s \in Seq(Clients) : OnceIn(s) => Len(s) <= Sockets!Cardinality(Clients)
<1>1. \A S : Sockets!Cardinality(S) = Cardinality(S)
  BY DEF Sockets!Cardinality, Cardinality, Sockets!IsFiniteSet, IsFiniteSet
<1>2. IsFiniteSet(Clients)
  BY SocketsConstants DEF Sockets!SocketsAssumption, Sockets!IsFiniteSet, IsFiniteSet
<1>3. Cardinality(Clients) \in Nat /\ \A s \in Seq(Clients) : OnceIn(s) => Len(s) <= Cardinality(Clients)
  BY <1>2, FS_CardinalityType, OnceFits
<1> QED BY <1>1, <1>3, FS_EmptySet, FS_Singleton

LEMMA ListFits == SocketsInv => Len(connectedWebsockets) \in 0..Sockets!Cardinality(Clients)
<1> SUFFICES ASSUME SocketsInv PROVE Len(connectedWebsockets) \in 0..Sockets!Cardinality(Clients)
  OBVIOUS
<1>1. connectedWebsockets \in Seq(Clients) /\ OnceIn(connectedWebsockets)
  BY DEF SocketsInv, SocketTypes, ListedOnce
<1>2. Len(connectedWebsockets) <= Sockets!Cardinality(Clients)
  BY <1>1, SocketsCounts
<1> QED BY <1>1, <1>2, SocketsCounts

LEMMA JoinReadKeeps ==
  ASSUME SocketsInv, NEW c \in Clients, Sockets!Join_Read(c)
  PROVE  SocketsInv'
<1>1. /\ joining[c].pc = "no" /\ joining' = [joining EXCEPT ![c] = [pc |-> "write", end |-> Len(connectedWebsockets)]]
      /\ UNCHANGED <<connectedWebsockets, leaving, sender, sends, late, raced, torn, crashed>>
  BY DEF Sockets!Join_Read
<1>2. /\ joining'[c] = [pc |-> "write", end |-> Len(connectedWebsockets)]
      /\ \A d \in Clients : d # c => joining'[d] = joining[d]
  BY <1>1 DEF SocketsInv, SocketTypes
<1>3. SocketTypes'
  BY <1>1, ListFits DEF SocketsInv, SocketTypes
<1>4. ListedOnce' /\ StillSo' /\ ListedAsConnected'
  BY <1>1, <1>2 DEF SocketsInv, ListedOnce, StillSo, ListedAsConnected
<1>5. Sending' /\ WhyStopped'
  BY <1>1 DEF SocketsInv, Sending, SendingBy, WhyStopped
<1> QED BY <1>3, <1>4, <1>5 DEF SocketsInv

\* Unless changes met, a client is put behind the others.
LEMMA PushIs ==
  ASSUME NEW s \in Seq(Clients), NEW e \in Nat, NEW c \in Clients, OnceIn(s), ~In(s, c)
  PROVE  /\ Sockets!Push(s, e, c) \in Seq(Clients) /\ OnceIn(Sockets!Push(s, e, c))
         /\ \A d : In(Sockets!Push(s, e, c), d) => d = c \/ In(s, d)
         /\ e = Len(s) => \A d : In(Sockets!Push(s, e, c), d) <=> d = c \/ In(s, d)
<1> DEFINE q == SubSeq(s, 1, IF e < Len(s) THEN e ELSE Len(s))
<1>1. q \in Seq(Clients) /\ Len(q) <= Len(s) /\ \A i \in 1..Len(q) : q[i] = s[i]
  <2>1. CASE e < Len(s)
    BY <2>1
  <2>2. CASE ~(e < Len(s))
    BY <2>2
  <2> QED BY <2>1, <2>2
<1>2. e = Len(s) => q = s
  OBVIOUS
<1>3. Sockets!Push(s, e, c) = Append(q, c)
  BY DEF Sockets!Push
<1> HIDE DEF q
<1>4. OnceIn(q) /\ \A d : In(q, d) => In(s, d)
  BY <1>1 DEF OnceIn, In
<1>5. Append(q, c) \in Seq(Clients) /\ OnceIn(Append(q, c)) /\ \A d : In(Append(q, c), d) <=> d = c \/ In(q, d)
  BY <1>1, <1>4, AppendIs
<1> QED BY <1>2, <1>3, <1>4, <1>5

\* Who copies the list while it changes is torn; the others have their copies.
LEMMA ChangedKeeps ==
  ASSUME SocketsInv, NEW c, Sockets!Changed(c), sender' = sender, crashed' = crashed
  PROVE  Sending' /\ WhyStopped'
<1>1. (raced => raced') /\ torn' = torn \cup {s \in Senders : sender[s].pc = "copy"}
  BY DEF Sockets!Changed
<1>2. Sending'
  <2> SUFFICES ASSUME ~raced', NEW s \in Senders \ torn' PROVE SendingBy(sender[s])'
    BY DEF Sending
  <2>1. SendingBy(sender[s]) /\ sender[s].pc # "copy"
    BY <1>1 DEF SocketsInv, Sending
  <2> QED BY <2>1 DEF SendingBy
<1>3. WhyStopped'
  BY <1>1 DEF SocketsInv, WhyStopped
<1> QED BY <1>2, <1>3

LEMMA JoinWriteKeeps ==
  ASSUME SocketsInv, NEW c \in Clients, Sockets!Join_Write(c)
  PROVE  SocketsInv'
<1> DEFINE l == connectedWebsockets
           n == Sockets!Push(l, joining[c].end, c)
<1>1. /\ joining[c].pc = "write" /\ l' = n
      /\ joining' = [joining EXCEPT ![c].pc = "joined"]
      /\ late' = IF leaving[c].pc = "no" THEN late ELSE late \cup {c}
      /\ raced' = (raced \/ Sockets!Changing(c)) /\ Sockets!Changed(c)
      /\ UNCHANGED <<leaving, sender, sends, crashed>>
  BY DEF Sockets!Join_Write, Sockets!Changed
<1>2. /\ joining'[c].pc = "joined" /\ \A d \in Clients : d # c => joining'[d] = joining[d]
      /\ joining[c].end \in Nat
  BY <1>1, SocketsCounts DEF SocketsInv, SocketTypes
<1>3. /\ n \in Seq(Clients) /\ OnceIn(n)
      /\ \A d : In(n, d) => d = c \/ In(l, d)
      /\ joining[c].end = Len(l) => \A d : In(n, d) <=> d = c \/ In(l, d)
  <2>1. l \in Seq(Clients) /\ OnceIn(l) /\ ~In(l, c)
    BY <1>1 DEF SocketsInv, SocketTypes, ListedOnce
  <2> HIDE DEF l
  <2> QED BY <1>2, <2>1, PushIs
<1> HIDE DEF n
<1>4. SocketTypes'
  <2>1. Sockets!Changing(c) \in BOOLEAN
    BY DEF Sockets!Changing
  <2>2. torn' \subseteq Senders
    BY <1>1 DEF Sockets!Changed, SocketsInv, SocketTypes
  <2> QED BY <1>1, <1>3, <2>1, <2>2 DEF SocketsInv, SocketTypes
<1>5. ListedOnce'
  BY <1>1, <1>2, <1>3 DEF SocketsInv, ListedOnce
<1>6. ASSUME ~raced'
      PROVE  /\ ~raced /\ joining[c].end = Len(l) /\ leaving[c].pc # "erase"
             /\ \A d \in Clients : d # c => joining[d].pc # "write" /\ leaving[d].pc # "erase"
  BY <1>1, <1>6 DEF Sockets!Changing, SocketsInv, StillSo
<1>7. StillSo'
  BY <1>1, <1>2, <1>6 DEF StillSo
<1>8. ListedAsConnected'
  <2> SUFFICES ASSUME ~raced', NEW d \in Clients
               PROVE  /\ joining'[d].pc = "joined" /\ leaving[d].pc \in {"no", "erase"} => In(n, d)
                      /\ leaving[d].pc = "left" /\ In(n, d) => d \in late'
    BY <1>1 DEF ListedAsConnected
  <2>1. In(n, d) <=> d = c \/ In(l, d)
    BY <1>3, <1>6
  <2>2. late \subseteq late' /\ (leaving[c].pc = "left" => c \in late')
    BY <1>1
  <2> QED BY <1>2, <1>6, <2>1, <2>2 DEF SocketsInv, ListedAsConnected
<1>9. Sending' /\ WhyStopped'
  BY <1>1, ChangedKeeps
<1> QED BY <1>4, <1>5, <1>7, <1>8, <1>9 DEF SocketsInv

LEMMA LeaveFindKeeps ==
  ASSUME SocketsInv, NEW c \in Clients, Sockets!Leave_Find(c)
  PROVE  SocketsInv'
<1> DEFINE l == connectedWebsockets
           p == CHOOSE i \in Sockets!Places(l, c) : \A j \in Sockets!Places(l, c) : i <= j
<1>1. /\ leaving[c].pc = "no"
      /\ leaving' = [leaving EXCEPT ![c] =
           IF Sockets!Places(l, c) = {} THEN [pc |-> "left", place |-> 0] ELSE [pc |-> "erase", place |-> p]]
      /\ UNCHANGED <<connectedWebsockets, joining, sender, sends, late, raced, torn, crashed>>
  BY DEF Sockets!Leave_Find
<1>2. \A d \in Clients : d # c => leaving'[d] = leaving[d]
  BY <1>1 DEF SocketsInv, SocketTypes
<1>3. Sending' /\ WhyStopped'
  BY <1>1 DEF SocketsInv, Sending, SendingBy, WhyStopped
<1>4. CASE Sockets!Places(l, c) = {}
  <2>1. ~In(l, c)
    BY <1>4 DEF Sockets!Places, In
  <2>2. leaving'[c] = [pc |-> "left", place |-> 0] /\ leaving' = [leaving EXCEPT ![c] = [pc |-> "left", place |-> 0]]
    BY <1>1, <1>4 DEF SocketsInv, SocketTypes
  <2>3. SocketTypes'
    BY <1>1, <2>2, SocketsCounts DEF SocketsInv, SocketTypes
  <2>4. ListedOnce' /\ StillSo' /\ ListedAsConnected'
    BY <1>1, <1>2, <2>1, <2>2 DEF SocketsInv, ListedOnce, StillSo, ListedAsConnected
  <2> QED BY <1>3, <2>3, <2>4 DEF SocketsInv
<1>5. CASE Sockets!Places(l, c) # {}
  <2>1. PICK i \in Sockets!Places(l, c) : TRUE
    BY <1>5
  <2>2. i \in 1..Len(l) /\ l[i] = c /\ OnceIn(l) /\ l \in Seq(Clients)
    BY <2>1 DEF Sockets!Places, SocketsInv, ListedOnce, SocketTypes
  <2>3. \A j \in Sockets!Places(l, c) : j = i
    BY <2>2 DEF Sockets!Places, OnceIn
  <2>4. i <= i
    BY <2>2
  <2>5. p \in Sockets!Places(l, c)
    BY <2>1, <2>3, <2>4
  <2> HIDE DEF p
  <2>6. p \in 1..Len(l) /\ l[p] = c
    BY <2>5 DEF Sockets!Places
  <2>7. p \in 0..Sockets!Cardinality(Clients) /\ p > 0
    BY <2>6, ListFits, SocketsCounts
  <2>8. In(l, c) /\ p <= Len(l)
    BY <2>6 DEF In
  <2>9. leaving'[c] = [pc |-> "erase", place |-> p] /\ leaving' = [leaving EXCEPT ![c] = [pc |-> "erase", place |-> p]]
    BY <1>1, <1>5 DEF SocketsInv, SocketTypes
  <2>10. SocketTypes'
    BY <1>1, <2>7, <2>9 DEF SocketsInv, SocketTypes
  <2>11. ListedOnce' /\ ListedAsConnected'
    BY <1>1, <1>2, <2>7, <2>8, <2>9 DEF SocketsInv, ListedOnce, ListedAsConnected
  <2>12. StillSo'
    BY <1>1, <1>2, <2>6, <2>8, <2>9 DEF SocketsInv, StillSo
  <2> QED BY <1>3, <2>10, <2>11, <2>12 DEF SocketsInv
<1> QED BY <1>4, <1>5

LEMMA LeaveEraseKeeps ==
  ASSUME SocketsInv, NEW c \in Clients, Sockets!Leave_Erase(c)
  PROVE  SocketsInv'
<1> DEFINE l == connectedWebsockets
           i == leaving[c].place
           n == IF i <= Len(l) THEN WithoutPlace(l, i) ELSE l
<1>1. /\ leaving[c].pc = "erase" /\ l' = n
      /\ leaving' = [leaving EXCEPT ![c].pc = "left"]
      /\ raced' = (raced \/ Sockets!Changing(c)) /\ Sockets!Changed(c)
      /\ UNCHANGED <<joining, sender, sends, late, crashed>>
  BY SameRemoval DEF Sockets!Leave_Erase, Sockets!Changed
<1>2. /\ leaving'[c].pc = "left" /\ \A d \in Clients : d # c => leaving'[d] = leaving[d]
      /\ l \in Seq(Clients) /\ OnceIn(l) /\ i \in Nat /\ i > 0
  BY <1>1, SocketsCounts DEF SocketsInv, SocketTypes, ListedOnce
<1>3. /\ n \in Seq(Clients) /\ OnceIn(n)
      /\ \A d : In(n, d) <=> In(l, d) /\ ~(i <= Len(l) /\ d = l[i])
  <2> HIDE DEF l, i
  <2>1. CASE i <= Len(l)
    <3>1. i \in 1..Len(l)
      BY <1>2, <2>1
    <3>2. WithoutPlace(l, i) \in Seq(Clients)
      BY <1>2, <3>1, WithoutIs
    <3>3. OnceIn(WithoutPlace(l, i)) /\ \A d : In(WithoutPlace(l, i), d) <=> d # l[i] /\ In(l, d)
      BY <1>2, <3>1, WithoutHas
    <3> QED BY <2>1, <3>2, <3>3
  <2>2. CASE ~(i <= Len(l))
    BY <1>2, <2>2
  <2> QED BY <2>1, <2>2
<1> HIDE DEF n
<1>4. SocketTypes'
  <2>1. Sockets!Changing(c) \in BOOLEAN
    BY DEF Sockets!Changing
  <2>2. torn' \subseteq Senders
    BY <1>1 DEF Sockets!Changed, SocketsInv, SocketTypes
  <2> QED BY <1>1, <1>3, <2>1, <2>2 DEF SocketsInv, SocketTypes
<1>5. ListedOnce'
  BY <1>1, <1>2, <1>3 DEF SocketsInv, ListedOnce
<1>6. ASSUME ~raced'
      PROVE  /\ ~raced /\ i <= Len(l) /\ l[i] = c /\ joining[c].pc # "write"
             /\ \A d \in Clients : d # c => joining[d].pc # "write" /\ leaving[d].pc # "erase"
  BY <1>1, <1>6 DEF Sockets!Changing, SocketsInv, StillSo
<1>7. StillSo'
  BY <1>1, <1>2, <1>6 DEF StillSo
<1>8. ListedAsConnected'
  <2> SUFFICES ASSUME ~raced', NEW d \in Clients
               PROVE  /\ joining[d].pc = "joined" /\ leaving'[d].pc \in {"no", "erase"} => In(n, d)
                      /\ leaving'[d].pc = "left" /\ In(n, d) => d \in late
    BY <1>1 DEF ListedAsConnected
  <2>1. In(n, d) <=> In(l, d) /\ d # c
    BY <1>3, <1>6
  <2> QED BY <1>2, <1>6, <2>1 DEF SocketsInv, ListedAsConnected
<1>9. Sending' /\ WhyStopped'
  BY <1>1, ChangedKeeps
<1> QED BY <1>4, <1>5, <1>7, <1>8, <1>9 DEF SocketsInv

LEMMA SenderStep ==
  ASSUME SocketsInv, NEW s \in Senders, NEW h \in SenderRecord, sender' = [sender EXCEPT ![s] = h],
         sends' \in 0..MaxSends, UNCHANGED <<connectedWebsockets, joining, leaving, late, raced, crashed>>,
         torn' = torn \/ (torn' = torn \ {s} /\ ~crashed), ~raced /\ s \notin torn' => SendingBy(h)
  PROVE  SocketsInv'
<1>1. sender'[s] = h /\ \A r \in Senders : r # s => sender'[r] = sender[r]
  BY DEF SocketsInv, SocketTypes
<1>2. SocketTypes' /\ ListedOnce' /\ StillSo' /\ ListedAsConnected'
  BY DEF SocketsInv, SocketTypes, ListedOnce, StillSo, ListedAsConnected
<1>3. Sending'
  <2> SUFFICES ASSUME ~raced', NEW r \in Senders \ torn' PROVE SendingBy(sender[r])'
    BY DEF Sending
  <2>1. SendingBy(sender'[r])
    BY <1>1 DEF SocketsInv, Sending
  <2> QED BY <2>1 DEF SendingBy
<1>4. WhyStopped'
  BY DEF SocketsInv, WhyStopped
<1> QED BY <1>2, <1>3, <1>4 DEF SocketsInv

LEMMA SendBeginKeeps ==
  ASSUME SocketsInv, NEW s \in Senders, Sockets!Send_Begin(s)
  PROVE  SocketsInv'
<1> DEFINE l == connectedWebsockets
           h == [pc |-> IF l = <<>> THEN "send" ELSE "copy", end |-> Len(l), todo |-> <<>>, sent |-> {},
                 due |-> {c \in Clients : joining[c].pc = "joined" /\ leaving[c].pc = "no"}]
<1>1. /\ sender' = [sender EXCEPT ![s] = h] /\ sends' = sends + 1 /\ sends < MaxSends
      /\ UNCHANGED <<connectedWebsockets, joining, leaving, late, raced, torn, crashed>>
  BY DEF Sockets!Send_Begin
<1>2. sends' \in 0..MaxSends
  BY <1>1, SocketsConstants DEF SocketsInv, SocketTypes, Sockets!SocketsAssumption
<1>3. l \in Seq(Clients) /\ Len(l) \in 0..Sockets!Cardinality(Clients)
  BY ListFits DEF SocketsInv, SocketTypes
<1>4. /\ <<>> \in Seq(Copied) /\ {} \in SUBSET Clients
      /\ {c \in Clients : joining[c].pc = "joined" /\ leaving[c].pc = "no"} \in SUBSET Clients
  OBVIOUS
<1>5. h \in SenderRecord
  BY <1>3, <1>4 DEF SenderRecord
<1>6. /\ h.pc = (IF l = <<>> THEN "send" ELSE "copy") /\ h.end = Len(l) /\ h.todo = <<>>
      /\ \A c \in h.due : c \in Clients /\ joining[c].pc = "joined" /\ leaving[c].pc = "no"
  OBVIOUS
<1>7. ~raced => \A c \in h.due : In(l, c)
  BY <1>6 DEF SocketsInv, ListedAsConnected
<1> HIDE DEF h
<1>8. ~raced => SendingBy(h)
  BY <1>3, <1>6, <1>7 DEF SendingBy, In
<1> QED BY <1>1, <1>2, <1>5, <1>8, SenderStep

LEMMA SendCopyKeeps ==
  ASSUME SocketsInv, NEW s \in Senders, Sockets!Send_Copy(s)
  PROVE  SocketsInv'
<1> DEFINE l == connectedWebsockets
           g == sender[s]
           i == Len(g.todo) + 1
<1>1. PICK c \in Sockets!Read(s, i) :
        /\ sender' = [sender EXCEPT ![s].todo = Append(@, c), ![s].pc = IF i = g.end THEN "send" ELSE "copy"]
        /\ g.pc = "copy" /\ sends' = sends
        /\ UNCHANGED <<connectedWebsockets, joining, leaving, late, raced, torn, crashed>>
  BY DEF Sockets!Send_Copy
<1> DEFINE h == [g EXCEPT !.todo = Append(g.todo, c), !.pc = IF i = g.end THEN "send" ELSE "copy"]
<1>2. g \in SenderRecord /\ sends \in 0..MaxSends /\ l \in Seq(Clients) /\ sender \in [Senders -> SenderRecord]
  BY DEF SocketsInv, SocketTypes
<1>3. sender' = [sender EXCEPT ![s] = h]
  BY <1>1, <1>2
<1>4. c \in Copied /\ (s \notin torn => i \in DOMAIN l /\ c = l[i])
  BY <1>1, <1>2 DEF Sockets!Read, Copied
<1>5. Append(g.todo, c) \in Seq(Copied) /\ Len(g.todo) \in Nat
  BY <1>2, <1>4 DEF SenderRecord
<1>6. h \in SenderRecord
  BY <1>2, <1>5 DEF SenderRecord
<1>7. /\ h.pc = (IF i = g.end THEN "send" ELSE "copy") /\ h.end = g.end /\ h.todo = Append(g.todo, c)
      /\ h.due = g.due /\ h.sent = g.sent
  BY <1>2 DEF SenderRecord
<1>8. ASSUME ~raced, s \notin torn PROVE SendingBy(h)
  <2>1. SendingBy(g)
    BY <1>8 DEF SocketsInv, Sending
  <2>2. /\ g.end = Len(l) /\ Len(g.todo) < g.end /\ \A j \in 1..Len(g.todo) : g.todo[j] = l[j]
        /\ \A d \in g.due : In(l, d)
    BY <1>1, <2>1 DEF SendingBy
  <2>3. c = l[i] /\ g.todo \in Seq(Copied)
    BY <1>2, <1>4, <1>8 DEF SenderRecord
  <2>4. Len(h.todo) = i /\ \A j \in 1..i : h.todo[j] = l[j]
    <3> HIDE DEF l
    <3> QED BY <1>5, <1>7, <2>2, <2>3
  <2>5. CASE i = g.end
    <3>1. \A d : In(h.todo, d) <=> In(l, d)
      BY <2>2, <2>4, <2>5 DEF In
    <3>2. ~In(l, None)
      BY <1>2, SocketsConstants DEF In, Sockets!SocketsAssumption
    <3> HIDE DEF h
    <3> QED BY <1>7, <2>2, <2>5, <3>1, <3>2 DEF SendingBy
  <2>6. CASE i # g.end
    <3>1. i < g.end
      BY <1>2, <1>5, <2>2, <2>6
    <3> HIDE DEF h
    <3> QED BY <1>7, <2>2, <2>4, <2>6, <3>1 DEF SendingBy
  <2> QED BY <2>5, <2>6
<1> HIDE DEF h
<1> QED BY <1>1, <1>2, <1>3, <1>6, <1>8, SenderStep

LEMMA SendOneKeeps ==
  ASSUME SocketsInv, NEW s \in Senders, Sockets!Send_One(s)
  PROVE  SocketsInv'
<1> DEFINE g == sender[s]
           h == [g EXCEPT !.todo = Tail(g.todo), !.sent = g.sent \cup {Head(g.todo)}]
<1>1. /\ g.pc = "send" /\ g.todo # <<>> /\ Head(g.todo) # None /\ sends' = sends
      /\ UNCHANGED <<connectedWebsockets, joining, leaving, late, raced, torn, crashed>>
  BY DEF Sockets!Send_One
<1>2. g \in SenderRecord /\ sends \in 0..MaxSends /\ sender \in [Senders -> SenderRecord]
  BY DEF SocketsInv, SocketTypes
<1>3. sender' = [sender EXCEPT ![s] = h]
  BY <1>2 DEF Sockets!Send_One
<1> DEFINE q == g.todo
<1>4. /\ Head(q) \in Copied /\ Tail(q) \in Seq(Copied)
      /\ \A c : In(q, c) <=> c = Head(q) \/ In(Tail(q), c)
  <2>1. q \in Seq(Copied) /\ q # <<>>
    BY <1>1, <1>2 DEF SenderRecord
  <2> HIDE DEF q
  <2>2. /\ Head(q) \in Copied /\ Tail(q) \in Seq(Copied) /\ Len(Tail(q)) = Len(q) - 1 /\ Len(q) \in Nat
        /\ Head(q) = q[1] /\ Len(q) > 0 /\ \A i \in 1..(Len(q) - 1) : Tail(q)[i] = q[i + 1]
    BY <2>1
  <2>3. ASSUME NEW c, NEW i \in 1..Len(q), q[i] = c, c # Head(q)
        PROVE  In(Tail(q), c)
    <3>1. i - 1 \in 1..(Len(q) - 1) /\ i - 1 + 1 = i
      BY <2>2, <2>3
    <3>2. Tail(q)[i - 1] = c
      BY <2>2, <2>3, <3>1
    <3> QED BY <2>2, <3>1, <3>2 DEF In
  <2>4. ASSUME NEW c, In(Tail(q), c) PROVE In(q, c)
    <3> PICK i \in 1..(Len(q) - 1) : q[i + 1] = c
      BY <2>2, <2>4 DEF In
    <3>1. i + 1 \in 1..Len(q)
      BY <2>2
    <3> QED BY <3>1 DEF In
  <2>5. In(q, Head(q))
    BY <2>2 DEF In
  <2> QED BY <2>2, <2>3, <2>4, <2>5 DEF In
<1>5. h \in SenderRecord
  <2>1. Head(q) \in Clients
    BY <1>1, <1>4 DEF Copied
  <2> QED BY <1>2, <1>4, <2>1 DEF SenderRecord
<1>6. h.pc = "send" /\ h.due = g.due /\ h.sent = g.sent \cup {Head(q)} /\ h.todo = Tail(q)
  BY <1>1, <1>2 DEF SenderRecord
<1> HIDE DEF h, q
<1>7. ASSUME ~raced, s \notin torn PROVE SendingBy(h)
  <2>1. /\ \A c \in g.due : c \in g.sent \/ In(q, c)
        /\ ~In(q, None)
    BY <1>1, <1>7 DEF SocketsInv, Sending, SendingBy, q
  <2> QED BY <1>4, <1>6, <2>1 DEF SendingBy
<1> QED BY <1>1, <1>2, <1>3, <1>5, <1>7, SenderStep

LEMMA SendEndKeeps ==
  ASSUME SocketsInv, NEW s \in Senders, Sockets!Send_End(s)
  PROVE  SocketsInv'
<1>1. Sockets!Idle \in SenderRecord /\ Sockets!Idle.pc = "idle"
  <2>1. 0 \in 0..Sockets!Cardinality(Clients) /\ <<>> \in Seq(Copied)
    BY SocketsCounts
  <2> QED BY <2>1 DEF Sockets!Idle, SenderRecord
<1>2. SendingBy(Sockets!Idle)
  BY <1>1 DEF SendingBy, Sockets!Idle
<1>3. /\ sender' = [sender EXCEPT ![s] = Sockets!Idle] /\ sends' = sends /\ sends \in 0..MaxSends
      /\ torn' = torn \ {s} /\ ~crashed
      /\ UNCHANGED <<connectedWebsockets, joining, leaving, late, raced, crashed>>
  BY DEF Sockets!Send_End, SocketsInv, SocketTypes
<1> QED BY <1>1, <1>2, <1>3, SenderStep

\* The program stops only for a sender that is torn, or after changes of the list met.
LEMMA CrashKeeps ==
  ASSUME SocketsInv, (\E c \in Clients : Sockets!Join_Crash(c)) \/ (\E s \in Senders : Sockets!Send_Crash(s))
  PROVE  SocketsInv'
<1>1. /\ UNCHANGED <<connectedWebsockets, joining, leaving, sender, sends, late, raced, torn>>
      /\ crashed' = TRUE
  BY DEF Sockets!Join_Crash, Sockets!Send_Crash
<1>2. raced \/ torn # {}
  <2>1. ASSUME NEW c \in Clients, Sockets!Join_Crash(c) PROVE raced
    BY <2>1 DEF Sockets!Join_Crash, SocketsInv, StillSo
  <2>2. ASSUME NEW s \in Senders, Sockets!Send_Crash(s) PROVE raced \/ s \in torn
    <3> DEFINE q == sender[s].todo
    <3>1. CASE sender[s].pc = "copy" /\ s \in torn
      BY <3>1
    <3>2. CASE sender[s].pc = "send" /\ q # <<>> /\ Head(q) = None
      <4>1. q \in Seq(Copied)
        BY DEF SocketsInv, SocketTypes, SenderRecord
      <4> HIDE DEF q
      <4>2. In(q, None)
        BY <3>2, <4>1 DEF In
      <4> QED BY <3>2, <4>2 DEF SocketsInv, Sending, SendingBy, q
    <3> QED BY <2>2, <3>1, <3>2 DEF Sockets!Send_Crash
  <2> QED BY <2>1, <2>2
<1>3. WhyStopped'
  BY <1>1, <1>2 DEF WhyStopped
<1> QED BY <1>1, <1>3 DEF SocketsInv, SocketTypes, ListedOnce, StillSo, ListedAsConnected, Sending, SendingBy

LEMMA SocketsInit == Sockets!Init => SocketsInv
<1> SUFFICES ASSUME Sockets!Init PROVE SocketsInv
  OBVIOUS
<1>1. SocketTypes
  <2>1. Sockets!Idle \in SenderRecord
    <3>1. 0 \in 0..Sockets!Cardinality(Clients) /\ <<>> \in Seq(Copied)
      BY SocketsCounts
    <3> QED BY <3>1 DEF Sockets!Idle, SenderRecord
  <2>2. connectedWebsockets \in Seq(Clients) /\ 0 \in 0..Sockets!Cardinality(Clients) /\ 0 \in 0..MaxSends
    BY SocketsCounts, SocketsConstants DEF Sockets!Init, Sockets!SocketsAssumption
  <2>3. /\ joining \in [Clients -> [pc : {"no", "write", "joined"}, end : 0..Sockets!Cardinality(Clients)]]
        /\ leaving \in [Clients -> [pc : {"no", "erase", "left"}, place : 0..Sockets!Cardinality(Clients)]]
    BY <2>2 DEF Sockets!Init
  <2>4. sender \in [Senders -> SenderRecord]
    BY <2>1 DEF Sockets!Init
  <2> QED BY <2>2, <2>3, <2>4 DEF Sockets!Init, SocketTypes
<1>2. ListedOnce
  BY DEF Sockets!Init, ListedOnce, OnceIn, In
<1>3. StillSo /\ ListedAsConnected /\ Sending /\ WhyStopped
  BY DEF Sockets!Init, StillSo, ListedAsConnected, Sending, SendingBy, WhyStopped, Sockets!Idle
<1> QED BY <1>1, <1>2, <1>3 DEF SocketsInv

LEMMA SocketsStep == SocketsInv /\ [Sockets!Next]_Sockets!vars => SocketsInv'
<1> SUFFICES ASSUME SocketsInv, [Sockets!Next]_Sockets!vars PROVE SocketsInv'
  OBVIOUS
<1>1. CASE UNCHANGED Sockets!vars
  BY <1>1 DEF Sockets!vars, SocketsInv, SocketTypes, ListedOnce, StillSo, ListedAsConnected, Sending, SendingBy, WhyStopped
<1>2. ASSUME NEW c \in Clients, Sockets!Join_Read(c) \/ Sockets!Join_Write(c) \/ Sockets!Join_Crash(c) \/ Sockets!Leave_Find(c) \/ Sockets!Leave_Erase(c)
      PROVE  SocketsInv'
  BY <1>2, JoinReadKeeps, JoinWriteKeeps, CrashKeeps, LeaveFindKeeps, LeaveEraseKeeps
<1>3. ASSUME NEW s \in Senders,
             Sockets!Send_Begin(s) \/ Sockets!Send_Copy(s) \/ Sockets!Send_One(s) \/ Sockets!Send_Crash(s) \/ Sockets!Send_End(s)
      PROVE  SocketsInv'
  BY <1>3, SendBeginKeeps, SendCopyKeeps, SendOneKeeps, CrashKeeps, SendEndKeeps
<1> QED BY <1>1, <1>2, <1>3 DEF Sockets!Next, Sockets!Over

LEMMA SocketsImplied ==
  SocketsInv => Sockets!TypeOK /\ Sockets!ListedWhileConnected /\ Sockets!SentToAll /\ Sockets!StopsOnlyTorn
<1> SUFFICES ASSUME SocketsInv
             PROVE  Sockets!TypeOK /\ Sockets!ListedWhileConnected /\ Sockets!SentToAll /\ Sockets!StopsOnlyTorn
  OBVIOUS
<1>1. Sockets!TypeOK
  BY DEF SocketsInv, SocketTypes, SenderRecord, Copied, Sockets!TypeOK
<1>2. ASSUME NEW c \in Clients
      PROVE  Sockets!Cardinality(Sockets!Places(connectedWebsockets, c)) <= 1 /\ (Sockets!Listed(c) <=> In(connectedWebsockets, c))
  <2>1. Sockets!Listed(c) <=> In(connectedWebsockets, c)
    BY DEF Sockets!Listed, Sockets!Places, In
  <2>2. CASE Sockets!Places(connectedWebsockets, c) = {}
    BY <2>1, <2>2, SocketsCounts
  <2>3. CASE Sockets!Places(connectedWebsockets, c) # {}
    <3>1. PICK i \in Sockets!Places(connectedWebsockets, c) : TRUE
      BY <2>3
    <3>2. Sockets!Places(connectedWebsockets, c) = {i}
      BY <3>1 DEF Sockets!Places, SocketsInv, ListedOnce, OnceIn
    <3>3. Sockets!Cardinality(Sockets!Places(connectedWebsockets, c)) = 1
      BY <3>2, SocketsCounts
    <3> QED BY <2>1, <3>3
  <2> QED BY <2>2, <2>3
<1>3. Sockets!ListedWhileConnected
  BY <1>2 DEF SocketsInv, ListedAsConnected, Sockets!ListedWhileConnected
<1>4. Sockets!SentToAll
  BY DEF SocketsInv, Sending, SendingBy, Sockets!SentToAll, In
<1>5. Sockets!StopsOnlyTorn
  <2>1. ASSUME ~raced, NEW s \in Senders \ torn PROVE None \notin Sockets!ToSet(sender[s].todo)
    <3> DEFINE g == sender[s]
               q == g.todo
    <3>1. g \in SenderRecord /\ connectedWebsockets \in Seq(Clients) /\ SendingBy(g)
      BY <2>1 DEF SocketsInv, SocketTypes, Sending
    <3>2. q \in Seq(Copied) /\ g.pc \in {"idle", "copy", "send"}
      BY <3>1 DEF SenderRecord
    <3>3. None \notin Clients
      BY SocketsConstants DEF Sockets!SocketsAssumption
    <3>4. ASSUME NEW i \in 1..Len(q), q[i] = None PROVE FALSE
      <4>1. CASE g.pc = "copy"
        <5>1. i \in 1..Len(connectedWebsockets) /\ q[i] = connectedWebsockets[i]
          <6>1. Len(q) < Len(connectedWebsockets) /\ Len(q) \in Nat /\ q[i] = connectedWebsockets[i]
            BY <3>1, <3>2, <4>1 DEF SendingBy
          <6> QED BY <6>1
        <5> QED BY <3>1, <3>3, <3>4, <5>1
      <4>2. CASE g.pc = "send"
        BY <3>1, <3>4, <4>2 DEF SendingBy, In
      <4>3. CASE g.pc = "idle"
        BY <3>1, <3>4, <4>3 DEF SendingBy
      <4> QED BY <3>2, <4>1, <4>2, <4>3
    <3> QED BY <3>2, <3>4 DEF Sockets!ToSet
  <2>2. ~raced /\ crashed => torn # {}
    BY DEF SocketsInv, WhyStopped
  <2> QED BY <2>1, <2>2 DEF Sockets!StopsOnlyTorn
<1> QED BY <1>1, <1>3, <1>4, <1>5

-----------------------------------------------------------------------------
(* RouteTemplate has the operators on texts under other names. *)

LEMMA SameLetters ==
  /\ Template!Open = Open /\ Template!Close = Close /\ Template!Slash = Slash /\ Template!Byte = Byte
  BY Zenon DEF Template!Open, Open, Template!Close, Close, Template!Slash, Slash, Template!Byte, Byte

LEMMA SameMin == \A T : Template!Min(T) = Min(T)
  BY Zenon DEF Template!Min, Min

LEMMA SameParts ==
  /\ \A s, i : Template!From(s, i) = From(s, i) /\ Template!Before(s, i) = Before(s, i)
  /\ \A s : Template!toUpper(s) = toUpper(s)
  BY Zenon DEF Template!From, From, Template!Before, Before, Template!toUpper, toUpper

LEMMA SameFindFrom == \A s, c, i : Template!FindFrom(s, c, i) = FindFrom(s, c, i)
  BY SameMin, Zenon DEF Template!FindFrom, FindFrom

LEMMA SameFind == \A s, c : Template!Find(s, c) = Find(s, c)
  BY SameFindFrom, Zenon DEF Template!Find, Find

LEMMA SameSameText == \A s, t : Template!SameText(s, t) <=> SameText(s, t)
  BY SameParts, Zenon DEF Template!SameText, SameText

LEMMA SameLast == \A s, i : Template!LastToken(s, i) = LastToken(s, i)
  BY SameParts, Zenon DEF Template!LastToken, LastToken

LEMMA SameTokens == \A s, c : Template!tokens(s, c) = tokens(s, c)
  BY Zenon DEF Template!tokens, tokens, Template!FindFrom, FindFrom, Template!LastToken, LastToken, Template!From, From, Template!Min, Min

LEMMA SameSegments == \A s : Template!Segments(s) = Segments(s)
  BY SameTokens, SameLetters, Zenon DEF Template!Segments, Segments

LEMMA SameLiteral == \A s : Template!Literal(s) = Literal(s)
  BY SameFind, SameParts, SameLetters, Zenon DEF Template!Literal, Literal

LEMMA SameVariables == \A s : Template!Variables(s) = Variables(s)
  BY SameFind, SameParts, SameLetters, Zenon DEF Template!Variables, Variables

LEMMA SameClosed == \A v : Template!Closed(v) <=> Closed(v)
  BY SameLetters, Zenon DEF Template!Closed, Closed

LEMMA SameNames == \A v : Template!Names(v) = Names(v)
  BY Zenon DEF Template!Names, Names, Template!Open, Open, Template!Close, Close

LEMMA SameStands == \A t, r : Template!Stands(t, r) <=> Stands(t, r)
  BY SameClosed, SameVariables, SameLiteral, SameSameText, Zenon DEF Template!Stands, Stands

LEMMA SameMatches == \A t, r : Template!Matches(t, r) <=> Matches(t, r)
  BY SameSegments, SameStands, Zenon DEF Template!Matches, Matches

LEMMA SameRouteNames == \A t : Template!RouteNames(t) = RouteNames(t)
  BY SameSegments, SameVariables, SameNames, Zenon DEF Template!RouteNames, RouteNames

LEMMA SameOwn == \A t, i : Template!Own(t, i) <=> Own(t, i)
  BY SameSegments, SameVariables, SameNames, SameLetters, Zenon DEF Template!Own, Own

LEMMA SameValueOf == \A t, r : Template!ValueOf(t, r) = ValueOf(t, r)
  BY SameParts, SameLiteral, Zenon DEF Template!ValueOf, ValueOf

LEMMA SamePlain == \A t : Template!Plain(t) <=> Plain(t)
  BY SameLetters, Zenon DEF Template!Plain, Plain

LEMMA SameStart == \A s, i : Template!Start(s, i) = StartOf(s, i)
  BY SameMin, Zenon DEF Template!Start, StartOf

LEMMA SameValue == \A s : Template!Value(s) = Taken(s)
  BY SameFind, SameParts, SameLetters, Zenon DEF Template!Value, Taken

LEMMA SameSuffix == \A s, t : Template!IsSuffix(s, t) <=> IsSuffix(s, t)
  BY Zenon DEF Template!IsSuffix, IsSuffix, Template!IsPrefix, IsPrefix, Template!Reverse, Reverse

LEMMA SameFindText == \A s, c : Template!FindText(s, c) = FindText(s, c)
  BY SameMin, Zenon DEF Template!FindText, FindText, Template!StandsAt, StandsAt

LEMMA SameSplit == \A s, c : Template!split(s, c) = split(s, c)
  BY Zenon DEF Template!split, split, Template!FindText, FindText, Template!StandsAt, StandsAt, Template!Min, Min, Template!From, From, Template!Before, Before, Template!SplitRest, SplitRest

LEMMA SameToSet == \A s : Template!ToSet(s) = ToSet(s)
  BY Zenon DEF Template!ToSet, ToSet

\* The routes and the requests are texts.
LEMMA TextsAre == Templates \subseteq Seq(Byte) /\ Requested \subseteq Seq(Byte)
<1>1. ASSUME NEW letters \in SUBSET Byte, NEW n \in Nat PROVE Texts(letters, n) \subseteq Seq(Byte)
  <2> SUFFICES ASSUME NEW k \in 0..(n - 1), NEW s \in [1..k -> letters] PROVE <<Slash>> \o s \in Seq(Byte)
    BY DEF Texts
  <2>1. <<Slash>> \in Seq(Byte)
    BY DEF Slash, Byte
  <2>2. s \in Seq(Byte)
    <3>1. k \in Nat /\ s \in [1..k -> Byte]
      OBVIOUS
    <3> QED BY <3>1
  <2> DEFINE o == <<Slash>>
  <2> HIDE DEF o
  <2>3. o \in Seq(Byte)
    BY <2>1 DEF o
  <2>4. o \o s \in Seq(Byte)
    BY <2>2, <2>3, ConcatProperties
  <2> QED BY <2>4 DEF o
<1>2. <<Slash, 91, 97, 93, Slash, 91, 98, 93>> \in Seq(Byte) /\ <<Slash, 97, 91, 97, 93, Slash, 98>> \in Seq(Byte)
  BY DEF Slash, Byte
<1> QED BY <1>1, <1>2, TemplateConstants DEF Templates, Requested

-----------------------------------------------------------------------------
(* Comparing a route. *)

\* The variable m has x, and no variable of that name is left; a variable of the url may have
\* taken its place.
Assigned(m, x) ==
  /\ m \in DOMAIN values /\ m \notin RouteNames(routeTemplate)
  /\ values[m] = x \/ (step = "found" /\ Template!InUrl(m))

TemplateTypes ==
  /\ template \in Templates /\ resource \in Requested
  /\ routeTemplate \in Seq(Byte) /\ EndsWith(template, routeTemplate)
  /\ receivedResource \in Seq(Byte) /\ EndsWith(resource, receivedResource)
  /\ \A n \in DOMAIN values : n \in Seq(Byte) /\ values[n] \in Seq(Byte)
  /\ step \in {"compare", "compatible", "other", "found"}

\* What is left of the route is for what is left of the resource if the route is for the resource.
Compared ==
  /\ Plain(routeTemplate)
  /\ step = "compare" => (Matches(template, resource) <=> Matches(routeTemplate, receivedResource))
  /\ step = "other" => ~Matches(template, resource)
  /\ step \in {"compatible", "found"} => Matches(template, resource) /\ Lacks(routeTemplate, Open, 1)

\* Every variable of the route has its value or is among those that are left.
Collected ==
  Matches(template, resource) =>
    /\ IF step = "found" THEN RouteNames(template) \subseteq DOMAIN values \cup RouteNames(routeTemplate)
                         ELSE RouteNames(template) = DOMAIN values \cup RouteNames(routeTemplate)
    /\ \A m, x : OwnValue(template, resource, m, x) =>
                    Assigned(m, x) \/ OwnValue(routeTemplate, receivedResource, m, x)

TemplateInv == TemplateTypes /\ (Plain(template) => Compared /\ Collected)

LEMMA EndsWithItself ==
  ASSUME NEW t \in Seq(Byte)
  PROVE  EndsWith(t, t)
<1>1. <<>> \in Seq(Byte) /\ t = <<>> \o t
  BY ConcatEmptySeq
<1> QED BY <1>1, Zenon DEF EndsWith

LEMMA EndsWithEnd ==
  ASSUME NEW t \in Seq(Byte), NEW u \in Seq(Byte), NEW v \in Seq(Byte), EndsWith(t, u), EndsWith(u, v)
  PROVE  EndsWith(t, v)
<1> PICK x \in Seq(Byte) : t = x \o u
  BY DEF EndsWith
<1> PICK y \in Seq(Byte) : u = y \o v
  BY DEF EndsWith
<1>1. EndsWith(x \o (y \o v), v)
  BY LastOfThree
<1> QED BY <1>1

LEMMA TemplateInit == Template!Init => TemplateInv
<1> SUFFICES ASSUME Template!Init PROVE TemplateInv
  OBVIOUS
<1>1. /\ template \in Templates /\ resource \in Requested /\ routeTemplate = template /\ receivedResource = resource
      /\ values = [n \in {} |-> <<>>] /\ step = "compare"
  BY DEF Template!Init, Template!NoVars
<1>2. template \in Seq(Byte) /\ resource \in Seq(Byte)
  BY <1>1, TextsAre
<1>3. DOMAIN values = {}
  BY <1>1
<1>4. EndsWith(template, template) /\ EndsWith(resource, resource)
  BY <1>2, EndsWithItself
<1>5. TemplateTypes
  BY <1>1, <1>2, <1>3, <1>4 DEF TemplateTypes
<1>6. Plain(template) => Compared
  BY <1>1 DEF Compared
<1>7. Collected
  BY <1>1, <1>3 DEF Collected
<1> QED BY <1>5, <1>6, <1>7 DEF TemplateInv

\* A call that finds no variable.
LEMMA TextKeeps ==
  ASSUME TemplateInv, Template!routeIsCompatible_Text
  PROVE  TemplateInv'
<1>1. /\ step = "compare" /\ Find(routeTemplate, Open) = 0
      /\ step' = IF SameText(routeTemplate, receivedResource) THEN "compatible" ELSE "other"
      /\ template' = template /\ resource' = resource /\ values' = values
      /\ routeTemplate' = routeTemplate /\ receivedResource' = receivedResource
  BY SameFind, SameSameText, SameLetters, Zenon
  DEF Template!routeIsCompatible_Text, Template!args, Template!rest
<1>2. routeTemplate \in Seq(Byte) /\ receivedResource \in Seq(Byte)
  BY DEF TemplateInv, TemplateTypes
<1>3. Lacks(routeTemplate, Open, 1)
  BY <1>1, <1>2, FindIs
<1>4. Matches(routeTemplate, receivedResource) <=> SameText(routeTemplate, receivedResource)
  BY <1>2, <1>3, MatchesText
<1>5. TemplateTypes'
  BY <1>1 DEF TemplateInv, TemplateTypes
<1>6. Plain(template) => Compared'
  BY <1>1, <1>3, <1>4 DEF TemplateInv, Compared
<1>7. Plain(template) => Collected'
  BY <1>1 DEF TemplateInv, Collected, Assigned
<1> QED BY <1>1, <1>5, <1>6, <1>7 DEF TemplateInv

\* A call that finds that the route is for other resources.
LEMMA OtherKeeps ==
  ASSUME TemplateInv, Template!routeIsCompatible_Other
  PROVE  TemplateInv'
<1> DEFINE p == Find(routeTemplate, Open)
<1>1. /\ step = "compare" /\ p # 0 /\ step' = "other"
      /\ template' = template /\ resource' = resource /\ values' = values
      /\ routeTemplate' = routeTemplate /\ receivedResource' = receivedResource
      /\ \/ ~SameText(Before(routeTemplate, p), StartOf(receivedResource, p))
         \/ Find(From(routeTemplate, p + 1), Close) = 0
  BY SameFind, SameSameText, SameLetters, SameParts, SameStart, Zenon
  DEF Template!routeIsCompatible_Other, Template!args, Template!rest
<1>2. routeTemplate \in Seq(Byte) /\ receivedResource \in Seq(Byte)
  BY DEF TemplateInv, TemplateTypes
<1>3. FirstAt(routeTemplate, Open, 1, p)
  BY <1>1, <1>2, FindIs
<1> HIDE DEF p
<1>4. From(routeTemplate, p + 1) \in Seq(Byte)
  BY <1>2, <1>3, AtFirst
<1>5. Find(From(routeTemplate, p + 1), Close) = 0 => Lacks(From(routeTemplate, p + 1), Close, 1)
  BY <1>4, FindIs
<1>6. ~Matches(routeTemplate, receivedResource)
  BY <1>1, <1>2, <1>3, <1>5, OtherStep
<1>7. TemplateTypes'
  BY <1>1 DEF TemplateInv, TemplateTypes
<1>8. Plain(template) => Compared'
  BY <1>1, <1>6 DEF TemplateInv, Compared
<1>9. Plain(template) => Collected'
  BY <1>1 DEF TemplateInv, Collected, Assigned
<1> QED BY <1>1, <1>7, <1>8, <1>9 DEF TemplateInv

\* A call that finds a variable.
LEMMA VariableKeeps ==
  ASSUME TemplateInv, Template!routeIsCompatible_Variable
  PROVE  TemplateInv'
<1> DEFINE p == Find(routeTemplate, Open)
           inside == From(routeTemplate, p + 1)
           q == Find(inside, Close)
           received == From(receivedResource, p)
           n == Before(inside, q)
           v == Taken(received)
           w == From(inside, q + 1)
           r == From(received, Len(v) + 1)
<1>1. /\ step = "compare" /\ p # 0 /\ q # 0 /\ step' = step
      /\ template' = template /\ resource' = resource
      /\ SameText(Before(routeTemplate, p), StartOf(receivedResource, p))
      /\ values' = Template!SetVars({n}, v)
      /\ routeTemplate' = w /\ receivedResource' = r
  <2>1. \A s : Template!AfterValue(s) = From(s, Len(Taken(s)) + 1)
    BY SameParts, SameValue, Zenon DEF Template!AfterValue
  <2>2. \A s, i : Template!AfterName(s, i) = From(s, i + 1)
    BY SameParts, Zenon DEF Template!AfterName
  <2> QED BY <2>1, <2>2, SameFind, SameSameText, SameLetters, SameParts, SameStart, SameValue, Zenon
          DEF Template!routeIsCompatible_Variable, Template!args
<1>2. routeTemplate \in Seq(Byte) /\ receivedResource \in Seq(Byte)
  BY DEF TemplateInv, TemplateTypes
<1>3. FirstAt(routeTemplate, Open, 1, p)
  BY <1>1, <1>2, FindIs
<1>4. inside \in Seq(Byte)
  <2> HIDE DEF p
  <2> QED BY <1>2, <1>3, AtFirst
<1>5. FirstAt(inside, Close, 1, q)
  <2> HIDE DEF inside
  <2> QED BY <1>1, <1>4, FindIs
<1>6. Steps(routeTemplate, receivedResource, n, w, v, r)
  <2> HIDE DEF p, q
  <2> QED BY <1>1, <1>2, <1>3, <1>5, VariableStep
<1>7. /\ DOMAIN values' = DOMAIN values \cup {n} /\ values'[n] = v
      /\ \A m \in DOMAIN values \ {n} : values'[m] = values[m]
  <2> HIDE DEF n, v
  <2>1. values' = Template!SetVars({n}, v)
    BY <1>1
  <2> QED BY <2>1 DEF Template!SetVars
<1> HIDE DEF p, inside, q, received, n, v, w, r
<1>8. TemplateTypes'
  <2>1. EndsWith(template, w) /\ EndsWith(resource, r) /\ w \in Seq(Byte) /\ r \in Seq(Byte)
    <3>1. template \in Seq(Byte) /\ resource \in Seq(Byte)
      BY TextsAre DEF TemplateInv, TemplateTypes
    <3> QED BY <1>2, <1>6, <3>1, EndsWithEnd DEF Steps, TemplateInv, TemplateTypes
  <2>2. \A m \in DOMAIN values' : m \in Seq(Byte) /\ values'[m] \in Seq(Byte)
    <3> SUFFICES ASSUME NEW m \in DOMAIN values' PROVE m \in Seq(Byte) /\ values'[m] \in Seq(Byte)
      OBVIOUS
    <3>1. CASE m = n
      BY <1>6, <1>7, <3>1 DEF Steps
    <3>2. CASE m # n
      BY <1>7, <3>2 DEF TemplateInv, TemplateTypes
    <3> QED BY <3>1, <3>2
  <2> QED BY <1>1, <2>1, <2>2 DEF TemplateInv, TemplateTypes
<1>9. ASSUME Plain(template) PROVE Compared'
  BY <1>1, <1>6, <1>9 DEF Steps, TemplateInv, Compared
<1>10. ASSUME Plain(template) PROVE Collected'
  <2> SUFFICES ASSUME Matches(template, resource) PROVE Collected'
    BY <1>1 DEF Collected
  <2>1. Compared /\ Collected
    BY <1>10 DEF TemplateInv
  <2>2. Matches(routeTemplate, receivedResource) /\ Plain(routeTemplate)
    BY <1>1, <2>1 DEF Compared
  <2>3. /\ RouteNames(routeTemplate) = {n} \cup RouteNames(w)
        /\ \A m, x : OwnValue(routeTemplate, receivedResource, m, x) =>
             \/ m = n /\ x = v /\ m \notin RouteNames(w)
             \/ m # n /\ OwnValue(w, r, m, x)
    BY <1>6, <2>2, Zenon DEF Steps
  <2>4. RouteNames(template) = DOMAIN values' \cup RouteNames(w)
    BY <1>1, <1>7, <2>1, <2>3 DEF Collected
  <2>5. ASSUME NEW m, NEW x, OwnValue(template, resource, m, x)
        PROVE  \/ m \in DOMAIN values' /\ m \notin RouteNames(w) /\ values'[m] = x
               \/ OwnValue(w, r, m, x)
    <3>1. CASE Assigned(m, x)
      <4>1. m \in DOMAIN values /\ m \notin RouteNames(routeTemplate) /\ values[m] = x
        BY <1>1, <3>1 DEF Assigned
      <4>2. m # n /\ m \notin RouteNames(w)
        BY <2>3, <4>1
      <4> QED BY <1>7, <4>1, <4>2
    <3>2. CASE OwnValue(routeTemplate, receivedResource, m, x)
      <4>1. \/ m = n /\ x = v /\ m \notin RouteNames(w)
            \/ m # n /\ OwnValue(w, r, m, x)
        BY <2>3, <3>2, Zenon
      <4> QED BY <1>7, <4>1
    <3> QED BY <2>1, <2>5, <3>1, <3>2, Zenon DEF Collected
  <2> QED BY <1>1, <2>4, <2>5 DEF Collected, Assigned
<1> QED BY <1>1, <1>8, <1>9, <1>10 DEF TemplateInv

\* A name that the url has after "?" is that of a variable of no value.
LEMMA UrlKeeps ==
  ASSUME TemplateInv, Template!extractUrlVars
  PROVE  TemplateInv'
<1> DEFINE p == Find(resource, Template!Question)
           names == IF p = 0 THEN {} ELSE ToSet(split(From(resource, p + 1), <<Template!Equals>>)) \ {<<>>}
<1>1. /\ step = "compatible" /\ step' = "found" /\ values' = Template!SetVars(names, <<>>)
      /\ template' = template /\ resource' = resource
      /\ routeTemplate' = routeTemplate /\ receivedResource' = receivedResource
  <2>1. \A s : Template!Query(s) = From(s, Find(s, Template!Question) + 1)
    BY SameParts, SameFind, Zenon DEF Template!Query
  <2> QED BY <2>1, SameFind, SameToSet, SameSplit, Zenon
          DEF Template!extractUrlVars, Template!args, Template!rest
<1>2. resource \in Seq(Byte) /\ routeTemplate \in Seq(Byte)
  BY TextsAre DEF TemplateInv, TemplateTypes
<1>3. ASSUME NEW n \in names PROVE n \in Seq(Byte) /\ Template!InUrl(n)
  <2>1. p # 0 /\ n \in ToSet(split(From(resource, p + 1), <<Template!Equals>>)) /\ n # <<>>
    <3> HIDE DEF p
    <3> QED BY <1>3
  <2>2. FirstAt(resource, Template!Question, 1, p)
    BY <1>2, <2>1, FindIs
  <2> HIDE DEF p, names
  <2>3. p \in 1..Len(resource) /\ resource[p] = Template!Question
    BY <2>2 DEF FirstAt
  <2>4. n \in Seq(Byte) /\ \E j \in (p + 1)..Len(resource) : SubSeq(resource, j, j + Len(n) - 1) = n
    BY <1>2, <2>1, <2>3, PiecesInText
  <2> PICK j \in (p + 1)..Len(resource) : SubSeq(resource, j, j + Len(n) - 1) = n
    BY <2>4
  <2>5. p \in DOMAIN resource /\ j \in DOMAIN resource /\ p < j
    BY <1>2, <2>3
  <2> QED BY <2>3, <2>4, <2>5, Zenon DEF Template!InUrl
<1>4. /\ DOMAIN values' = DOMAIN values \cup names
      /\ \A n \in names : values'[n] = <<>>
      /\ \A n \in DOMAIN values \ names : values'[n] = values[n]
  <2> HIDE DEF names
  <2>1. values' = Template!SetVars(names, <<>>)
    BY <1>1
  <2> QED BY <2>1 DEF Template!SetVars
<1> HIDE DEF p, names
<1>5. TemplateTypes'
  <2>1. \A n \in DOMAIN values' : n \in Seq(Byte) /\ values'[n] \in Seq(Byte)
    <3> SUFFICES ASSUME NEW n \in DOMAIN values' PROVE n \in Seq(Byte) /\ values'[n] \in Seq(Byte)
      OBVIOUS
    <3>0. <<>> \in Seq(Byte)
      OBVIOUS
    <3>1. CASE n \in names
      BY <1>3, <1>4, <3>0, <3>1
    <3>2. CASE n \notin names
      BY <1>4, <3>2 DEF TemplateInv, TemplateTypes
    <3> QED BY <3>1, <3>2
  <2> QED BY <1>1, <2>1 DEF TemplateInv, TemplateTypes
<1>6. Plain(template) => Compared'
  BY <1>1 DEF TemplateInv, Compared
<1>7. ASSUME Plain(template) PROVE Collected'
  <2> SUFFICES ASSUME Matches(template, resource) PROVE Collected'
    BY <1>1 DEF Collected
  <2>1. Collected
    BY <1>7 DEF TemplateInv
  <2>2. RouteNames(template) \subseteq DOMAIN values' \cup RouteNames(routeTemplate)
    BY <1>1, <1>4, <2>1 DEF Collected
  <2>3. ASSUME NEW m, NEW x, Assigned(m, x)
        PROVE  /\ m \in DOMAIN values' /\ m \notin RouteNames(routeTemplate)
               /\ values'[m] = x \/ Template!InUrl(m)
    <3>1. m \in DOMAIN values /\ m \notin RouteNames(routeTemplate) /\ values[m] = x
      BY <1>1, <2>3 DEF Assigned
    <3>2. m \in names => Template!InUrl(m)
      BY <1>3
    <3>3. m \notin names => values'[m] = x
      BY <1>4, <3>1
    <3> QED BY <1>4, <3>1, <3>2, <3>3
  <2>4. ASSUME NEW m PROVE Template!InUrl(m)' <=> Template!InUrl(m)
    BY <1>1 DEF Template!InUrl
  <2>5. \A m, x : Assigned(m, x) => Assigned(m, x)'
    BY <1>1, <2>3, <2>4 DEF Assigned
  <2> QED BY <1>1, <2>1, <2>2, <2>5, Zenon DEF Collected
<1> QED BY <1>1, <1>5, <1>6, <1>7 DEF TemplateInv

LEMMA TemplateStep == TemplateInv /\ [Template!Next]_Template!all => TemplateInv'
<1> SUFFICES ASSUME TemplateInv, [Template!Next]_Template!all PROVE TemplateInv'
  OBVIOUS
<1>1. CASE Template!all' = Template!all
  <2>1. /\ template' = template /\ resource' = resource /\ values' = values /\ step' = step
        /\ routeTemplate' = routeTemplate /\ receivedResource' = receivedResource
    BY <1>1 DEF Template!all, Template!args, Template!rest
  <2>2. \A m : Template!InUrl(m)' <=> Template!InUrl(m)
    BY <2>1 DEF Template!InUrl
  <2>3. \A m, x : Assigned(m, x)' <=> Assigned(m, x)
    BY <2>1, <2>2, Zenon DEF Assigned
  <2>4. TemplateTypes' /\ (Compared' <=> Compared)
    BY <2>1 DEF TemplateInv, TemplateTypes, Compared
  <2>5. Collected' <=> Collected
    BY <2>1, <2>3, Zenon DEF Collected
  <2> QED BY <2>1, <2>4, <2>5 DEF TemplateInv
<1>2. CASE Template!Next
  <2>1. Template!Done => Template!all' = Template!all
    BY DEF Template!Done
  <2> QED BY <1>1, <1>2, <2>1, TextKeeps, OtherKeeps, VariableKeeps, UrlKeeps DEF Template!Next
<1> QED BY <1>1, <1>2

LEMMA TemplateImplied ==
  TemplateInv => Template!TypeOK /\ Template!CompatibleBySegments /\ Template!VariablesBySegments
<1> SUFFICES ASSUME TemplateInv
             PROVE  Template!TypeOK /\ Template!CompatibleBySegments /\ Template!VariablesBySegments
  OBVIOUS
<1>1. Template!TypeOK
  <2>1. IsSuffix(routeTemplate, template) /\ IsSuffix(receivedResource, resource)
    BY SuffixOf DEF TemplateInv, TemplateTypes, EndsWith
  <2> QED BY <2>1, SameSuffix, SameLetters DEF Template!TypeOK, Template!args, TemplateInv, TemplateTypes
<1>2. Template!CompatibleBySegments
  BY SamePlain, SameMatches DEF Template!CompatibleBySegments, TemplateInv, Compared
<1>3. Template!VariablesBySegments
  <2> SUFFICES ASSUME step \in {"compatible", "found"}, Plain(template) PROVE Template!VariablesBySegments
    BY SamePlain DEF Template!VariablesBySegments
  <2>1. Compared /\ Collected /\ Matches(template, resource) /\ Lacks(routeTemplate, Open, 1)
    BY DEF TemplateInv, Compared
  <2>2. template \in Seq(Byte) /\ routeTemplate \in Seq(Byte)
    BY TextsAre DEF TemplateInv, TemplateTypes
  <2>3. RouteNames(routeTemplate) = {}
    BY <2>1, <2>2, NamesOfText
  <2>4. ASSUME NEW m, NEW x PROVE ~OwnValue(routeTemplate, receivedResource, m, x)
    BY <2>2, <2>3, RouteNamesIs DEF OwnValue
  <2>5. IF step = "found" THEN RouteNames(template) \subseteq DOMAIN values
                          ELSE DOMAIN values = RouteNames(template)
    BY <2>1, <2>3 DEF Collected
  <2> DEFINE ts == Segments(template)
             rs == Segments(resource)
  <2>6. ASSUME NEW i \in DOMAIN ts, Own(template, i), NEW n \in Names(Variables(ts[i]))
        PROVE  values[n] = ValueOf(ts[i], rs[i]) \/ (step = "found" /\ Template!InUrl(n))
    <3>1. i \in 1..Len(ts)
      BY <2>2, SegmentsAre
    <3>2. OwnValue(template, resource, n, ValueOf(ts[i], rs[i]))
      BY <2>6, <3>1, Zenon DEF OwnValue, NamesOf
    <3>3. Assigned(n, ValueOf(ts[i], rs[i]))
      BY <2>1, <2>4, <3>2, Zenon DEF Collected
    <3> QED BY <3>3 DEF Assigned
  <2> QED BY <2>5, <2>6, SameSegments, SameRouteNames, SameOwn, SameNames, SameVariables, SameValueOf, Zenon
          DEF Template!VariablesBySegments
<1> QED BY <1>1, <1>2, <1>3

-----------------------------------------------------------------------------
(* The composed specification: the parts that were not chosen stand still. *)

\* The tables have every live route once, of the destroyed ones exactly those that are looked for
\* under another id than they were registered with, a call goes astray only then or when a
\* websocket meets a route for all other requests, websockets are given to all their routes
\* unless it does, and who has no route is refused: for any routes, threads and calls, and any
\* way in which the resources cover the paths.
THEOREM RoutesAreKept == AllSpec => []RoutesKept
<1>1. AllInit => RouterInv
  BY RouterInit DEF AllInit
<1>2. RouterInv /\ [AllNext]_allVars => RouterInv'
  <2>1. [AllNext]_allVars => [Router!Next]_Router!vars
    BY DEF AllNext, allVars, routerVars, Router!vars, Router!tables
  <2> QED BY <2>1, RouterStep
<1>3. RouterInv => RoutesKept
  BY RouterImplied DEF RoutesKept
<1> QED BY <1>1, <1>2, <1>3, PTL DEF AllSpec

\* Unless changes of the list met, the list of websockets is that of the connected ones; sendToAll
\* reaches all who were connected at its call unless the list was changed while it was copied, and
\* only then can the program stop: for any clients and senders.
THEOREM SocketsAreReached == AllSpec => []SocketsReached
<1>1. AllInit => SocketsInv
  BY SocketsInit DEF AllInit
<1>2. SocketsInv /\ [AllNext]_allVars => SocketsInv'
  <2>1. [AllNext]_allVars => [Sockets!Next]_Sockets!vars
    BY DEF AllNext, allVars, socketVars, Sockets!vars
  <2> QED BY <2>1, SocketsStep
<1>3. SocketsInv => SocketsReached
  BY SocketsImplied DEF SocketsReached
<1> QED BY <1>1, <1>2, <1>3, PTL DEF AllSpec

\* A template is for the requests whose segments it stands for, and a variable with a name of
\* its own gets what its segment has in the request, for all texts up to any length: what the
\* calls of routeIsCompatible find on the texts is what the segments say.
THEOREM TemplatesAreCompared == AllSpec => []BySegments
<1>1. AllInit => TemplateInv
  BY TemplateInit DEF AllInit
<1>2. TemplateInv /\ [AllNext]_allVars => TemplateInv'
  <2>1. [AllNext]_allVars => [Template!Next]_Template!all
    BY DEF AllNext, allVars, templateVars, Template!all, Template!args, Template!rest
  <2> QED BY <2>1, TemplateStep
<1>3. TemplateInv => BySegments
  BY TemplateImplied DEF BySegments
<1> QED BY <1>1, <1>2, <1>3, PTL DEF AllSpec

\* All parts keep their types, whichever of them takes the steps.
THEOREM PartsAreTyped == AllSpec => []PartsTypeOK
<1>1. AllInit => ObserversInv /\ RouterInv /\ TemplateInv /\ SocketsInv
  BY ObserversInit, RouterInit, TemplateInit, SocketsInit DEF AllInit
<1>2. ObserversInv /\ [AllNext]_allVars => ObserversInv'
  <2>1. [AllNext]_allVars => [Next]_vars
    BY DEF AllNext, allVars
  <2> QED BY <2>1, StepKeeps
<1>3. RouterInv /\ [AllNext]_allVars => RouterInv'
  <2>1. [AllNext]_allVars => [Router!Next]_Router!vars
    BY DEF AllNext, allVars, routerVars, Router!vars, Router!tables
  <2> QED BY <2>1, RouterStep
<1>4. TemplateInv /\ [AllNext]_allVars => TemplateInv'
  <2>1. [AllNext]_allVars => [Template!Next]_Template!all
    BY DEF AllNext, allVars, templateVars, Template!all, Template!args, Template!rest
  <2> QED BY <2>1, TemplateStep
<1>5. SocketsInv /\ [AllNext]_allVars => SocketsInv'
  <2>1. [AllNext]_allVars => [Sockets!Next]_Sockets!vars
    BY DEF AllNext, allVars, socketVars, Sockets!vars
  <2> QED BY <2>1, SocketsStep
<1>6. ObserversInv /\ RouterInv /\ TemplateInv /\ SocketsInv => PartsTypeOK
  BY RouterImplied, TemplateImplied, SocketsImplied DEF PartsTypeOK, ObserversInv
<1> QED BY <1>1, <1>2, <1>3, <1>4, <1>5, <1>6, PTL DEF AllSpec
===============================================================================
