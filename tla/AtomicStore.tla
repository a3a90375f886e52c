------------------------------ MODULE AtomicStore ------------------------------
(* What the data of one session should be: a set of updates that each call      *)
(* extends or reads in one step, and that only a crash may empty.              *)
EXTENDS Naturals

CONSTANTS Threads, Updates

VARIABLES
  stored,    \* the updates the session has
  got,       \* got[t]: what the last read of t returned
  crashes    \* how often the program was restarted

Init == stored = {} /\ got = [t \in Threads |-> {}] /\ crashes = 0

Update ==
  /\ \E u \in Updates \ stored : stored' = stored \cup {u}
  /\ UNCHANGED <<got, crashes>>

Read(t) ==
  /\ got' = [got EXCEPT ![t] = stored]
  /\ UNCHANGED <<stored, crashes>>

Crash ==
  /\ crashes' = crashes + 1
  /\ stored' \in {stored, {}} /\ got' = [t \in Threads |-> {}]

Next == Update \/ Crash \/ \E t \in Threads : Read(t)

Spec == Init /\ [][Next]_<<stored, got, crashes>>
===============================================================================
