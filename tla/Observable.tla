------------------------------- MODULE Observable -------------------------------
(***************************************************************************)
(* KWSObservable: observers by number.  Threads add and remove observers   *)
(* with a mutex that the numbers they return and ask for are not under,    *)
(* and call all observers without it.                                      *)
(*                                                                         *)
(* Every call of add brings an observer of its own.                        *)
(***************************************************************************)
EXTENDS Integers, FiniteSets

CONSTANTS
  Threads,
  Calls,     \* bound: calls of add
  None       \* nobody

ASSUME ObservableAssumption == Calls \in Nat /\ None \notin Threads

VARIABLES
  currId,
  lock,        \* the thread that has the mutex, or None
  observers,   \* the numbers that are keys of the map
  thr,         \* thr[t]: what a thread is doing
  own,         \* history: own[t]: the number t's observer was added under
  added,       \* history: how many numbers were given
  jumped       \* history: jumped[t]: others were added before t read its number

shared == <<currId, lock, observers>>
history == <<own, added, jumped>>
vars == <<shared, thr, history>>

Idle == [pc |-> "idle", id |-> -1, result |-> -1, dangling |-> FALSE, lasting |-> {}, called |-> {}]

Init ==
  /\ currId = 0 /\ lock = None /\ observers = {}
  /\ thr = [t \in Threads |-> Idle]
  /\ own = [t \in Threads |-> -1] /\ added = 0 /\ jumped = [t \in Threads |-> FALSE]

At(t, pc) == thr[t].pc = pc

\* Who is in foreach loses an observer that goes, and its place when it was there.
Without(id) ==
  [t \in Threads |-> [thr[t] EXCEPT !.lasting = @ \ {id},
                                    !.dangling = @ \/ (At(t, "each") /\ thr[t].id = id)]]

-----------------------------------------------------------------------------
(* add. *)

add_Lock(t) ==
  /\ At(t, "idle") /\ lock = None /\ added < Calls
  /\ lock' = t
  /\ thr' = [thr EXCEPT ![t].pc = "insert"]
  /\ UNCHANGED <<currId, observers, history>>

\* Faulty variant: the number that comes next is not kept.
NextIdStays(n) == n
NextId(n) == n + 1

add_Insert(t) ==
  /\ At(t, "insert")
  /\ observers' = observers \cup {currId}
  /\ currId' = NextId(currId)
  /\ own' = [own EXCEPT ![t] = currId]
  /\ added' = added + 1
  /\ jumped' = [u \in Threads |-> IF u = t THEN FALSE ELSE jumped[u] \/ thr[u].pc \in {"unlock", "number"}]
  /\ thr' = [thr EXCEPT ![t].pc = "unlock"]
  /\ UNCHANGED lock

add_Unlock(t) ==
  /\ At(t, "unlock")
  /\ lock' = None
  /\ thr' = [thr EXCEPT ![t].pc = "number"]
  /\ UNCHANGED <<currId, observers, history>>

\* Faulty variant: the number that the next one gets.
NumberOfNext(n) == n
Number(n) == n - 1

\* The number to return is read when the mutex is free again.
add_Return(t) ==
  /\ At(t, "number")
  /\ thr' = [thr EXCEPT ![t].pc = "added", ![t].result = Number(currId)]
  /\ UNCHANGED <<shared, history>>

-----------------------------------------------------------------------------
(* remove of any number. *)

remove_Count(t, id) ==
  /\ At(t, "idle")
  /\ id \in observers
  /\ thr' = [thr EXCEPT ![t].pc = "erase", ![t].id = id]
  /\ UNCHANGED <<shared, history>>

\* lock, erase and unlock: erase of a number that has gone does nothing.
remove_Erase(t) ==
  /\ At(t, "erase") /\ lock = None
  /\ observers' = observers \ {thr[t].id}
  /\ thr' = [Without(thr[t].id) EXCEPT ![t].pc = "done"]
  /\ UNCHANGED <<currId, lock, history>>

-----------------------------------------------------------------------------
(* foreach. *)

foreach_Start(t) ==
  /\ At(t, "idle")
  /\ thr' = [thr EXCEPT ![t].pc = "each", ![t].id = -1, ![t].lasting = observers, ![t].called = {}]
  /\ UNCHANGED <<shared, history>>

\* Faulty variant: the observer after the next one.
FollowersSkip(id) == {n \in observers : n > id + 1}

\* The observers after number id.
Followers(id) == {n \in observers : n > id}

\* The observer after the last one that was called.
foreach_Call(t) ==
  /\ At(t, "each")
  /\ \E n \in Followers(thr[t].id) :
       /\ \A m \in Followers(thr[t].id) : n <= m
       /\ thr' = [thr EXCEPT ![t].id = n, ![t].called = @ \cup {n}]
  /\ UNCHANGED <<shared, history>>

\* The observers are over; or the iterator stands at one that was erased, which may look like
\* the end.
foreach_End(t) ==
  /\ At(t, "each") /\ (Followers(thr[t].id) = {} \/ thr[t].dangling)
  /\ thr' = [thr EXCEPT ![t].pc = "all"]
  /\ UNCHANGED <<shared, history>>

\* ... or end the program.
foreach_Crash(t) ==
  /\ At(t, "each") /\ thr[t].dangling
  /\ thr' = [u \in Threads |-> [thr[u] EXCEPT !.pc = "crashed"]]
  /\ UNCHANGED <<shared, history>>

Return(t) ==
  /\ thr[t].pc \in {"added", "done", "all"}
  /\ thr' = [thr EXCEPT ![t] = Idle]
  /\ UNCHANGED <<shared, history>>

Running(t) ==
  \/ add_Insert(t) \/ add_Unlock(t) \/ add_Return(t)
  \/ remove_Erase(t)
  \/ foreach_Call(t) \/ foreach_End(t) \/ foreach_Crash(t)
  \/ Return(t)

Crashed == (\A t \in Threads : At(t, "crashed")) /\ UNCHANGED vars

Next == Crashed \/ \E t \in Threads :
  \/ add_Lock(t) \/ (\E id \in 0..(Calls - 1) : remove_Count(t, id)) \/ foreach_Start(t)
  \/ Running(t)

Spec == Init /\ [][Next]_vars

-----------------------------------------------------------------------------
PCs == {"idle", "insert", "unlock", "number", "added", "erase", "done", "each", "all", "crashed"}

TypeOK ==
  /\ currId \in Nat /\ lock \in Threads \cup {None} /\ observers \subseteq 0..(currId - 1)
  /\ thr \in [Threads -> [pc : PCs, id : Int, result : Int,
                          dangling : BOOLEAN, lasting : SUBSET Nat, called : SUBSET Nat]]
  /\ own \in [Threads -> Int] /\ added \in Nat /\ jumped \in [Threads -> BOOLEAN]

\* No two threads' observers are put under one number, so that neither replaces the other.
NumbersFresh == \A t, u \in Threads : t # u /\ own[t] # -1 => own[t] # own[u]

\* add returns the number of the observer it added, unless another one came before the number
\* was read; it is then a later one's, and never one that nobody has had.
ReturnsOwnNumber ==
  \A t \in Threads : At(t, "added") =>
    /\ jumped[t] \/ thr[t].result = own[t]
    /\ own[t] <= thr[t].result /\ thr[t].result < currId

\* foreach calls every observer that is there all the time, once and in the order of numbers,
\* unless the one that it just called is removed.
ForeachCallsAll ==
  \A t \in Threads :
    /\ At(t, "all") /\ ~thr[t].dangling => thr[t].lasting \subseteq thr[t].called
    /\ At(t, "each") => \A n \in thr[t].called : n <= thr[t].id
===============================================================================
