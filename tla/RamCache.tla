-------------------------------- MODULE RamCache --------------------------------
(***************************************************************************)
(* RamCache: texts by name, the ones to drop first at the end.  One thread *)
(* uses it, but the functions it is given may use it again: the one that   *)
(* loads a text, and the one that gets it.  Calls that are going on are a  *)
(* stack of frames, the running one first.                                 *)
(*                                                                         *)
(* A text is the name whose loadFunction gave it, or {} before there is    *)
(* one.  An item that is found is moved one place up, and the place where  *)
(* it was found is used after that: there is its neighbour now.            *)
(***************************************************************************)
EXTENDS Integers, Sequences, FiniteSets, FiniteSetsExt, SequencesExt

CONSTANTS
  Names,
  Size,       \* Size[n]: the size of the text of a name
  maxSize,
  Overhead,   \* the size of an item without a text
  MaxGets,    \* bound: calls of getAsync and getSync
  MaxDepth    \* bound: calls going on

CacheAssumption ==
  /\ Size \in [Names -> Nat] /\ maxSize \in Nat /\ Overhead \in Nat /\ MaxGets \in Nat /\ MaxDepth \in Nat

VARIABLES
  cache,     \* the items, by number
  items,     \* items[i]: the item number i, also when it was deleted
  stack,     \* the frames
  gets,      \* gets[g]: the g-th call; below is history: its name was found, but not in front
  dangling,  \* history: a deleted item was used
  crashed

vars == <<cache, items, stack, gets, dangling, crashed>>

Init ==
  /\ cache = <<>> /\ items = <<>> /\ stack = <<>> /\ gets = <<>>
  /\ dangling = FALSE /\ crashed = FALSE

Unloaded(n) == [name |-> n, state |-> "unloaded", text |-> {}, size |-> Overhead, observers |-> <<>>,
                deleted |-> FALSE]
Frame(pc, i, g) == [pc |-> pc, item |-> i, get |-> g, next |-> 1]
Top == stack[1]
Goto(pc) == [stack EXCEPT ![1].pc = pc]

-----------------------------------------------------------------------------
(* getAsync and getSync. *)

\* One place up.
MovedUp(s, i) == IF i = 1 THEN s ELSE InsertAt(RemoveAt(s, i), i - 1, s[i])

\* Where the item of a name stands.
Places(n) == {p \in DOMAIN cache : items[cache[p]].name = n}

\* The application, or one of its functions, is running.
MayCall ==
  /\ ~crashed /\ Len(gets) < MaxGets /\ Len(stack) < MaxDepth
  /\ \A f \in DOMAIN stack : f = 1 => stack[f].pc \in {"load", "result"}

\* The name is new and in front, loaded by its own call.
Get_New(n, sync) ==
  /\ MayCall /\ Places(n) = {}
  /\ items' = Append(items, Unloaded(n))
  /\ cache' = <<Len(items) + 1>> \o cache
  /\ stack' = <<Frame("asyncGet", Len(items) + 1, Len(gets) + 1)>> \o stack
  /\ gets' = Append(gets, [name |-> n, below |-> FALSE, sync |-> sync, got |-> {}, answers |-> 0])
  /\ UNCHANGED <<dangling, crashed>>

\* The name is found and goes one place up; asyncGet is called at the place where it was.
Get_Known(n, sync) ==
  /\ MayCall /\ Places(n) # {}
  /\ LET p == Min(Places(n)) IN
       /\ cache' = MovedUp(cache, p)
       /\ stack' = <<Frame("asyncGet", MovedUp(cache, p)[p], Len(gets) + 1)>> \o stack
       /\ gets' = Append(gets, [name |-> n, below |-> p > 1, sync |-> sync, got |-> {}, answers |-> 0])
  /\ UNCHANGED <<items, dangling, crashed>>

\* startingObservers with one more.
Waiting(s, g) == Append(s, g)

\* asyncGet: the first caller loads, those who come meanwhile wait, later ones have the text.
asyncGet ==
  /\ ~crashed /\ stack # <<>> /\ Top.pc = "asyncGet"
  /\ LET i == Top.item IN
       \/ /\ items[i].state = "unloaded"
          /\ items' = [items EXCEPT ![i].state = "loading", ![i].observers = Waiting(<<>>, Top.get)]
          /\ stack' = Goto("load")
       \/ /\ items[i].state = "loading"
          /\ items' = [items EXCEPT ![i].observers = Waiting(@, Top.get)]
          /\ stack' = Goto("return")
       \/ items[i].state = "loaded" /\ stack' = Goto("onload") /\ UNCHANGED items
  /\ UNCHANGED <<cache, gets, dangling, crashed>>

\* getSize of an item with a text.
SizeOf(n) == Overhead + Size[n]

\* The function that loads, that of the call that came first, returns.
Loaded ==
  /\ ~crashed /\ stack # <<>> /\ Top.pc = "load"
  /\ LET n == gets[Top.get].name IN
       items' = [items EXCEPT ![Top.item].state = "loaded", ![Top.item].text = {n}, ![Top.item].size = SizeOf(n)]
  /\ stack' = Goto("each")
  /\ dangling' = (dangling \/ items[Top.item].deleted)
  /\ UNCHANGED <<cache, gets, crashed>>

\* The next of those who wait is told.
Each ==
  /\ ~crashed /\ stack # <<>> /\ Top.pc = "each"
  /\ dangling' = (dangling \/ items[Top.item].deleted)
  /\ IF Top.next <= Len(items[Top.item].observers)
       THEN /\ stack' = <<Frame("onload", Top.item, items[Top.item].observers[Top.next])>>
                        \o [stack EXCEPT ![1].next = @ + 1]
            /\ UNCHANGED items
       ELSE /\ items' = [items EXCEPT ![Top.item].observers = <<>>]
            /\ stack' = Goto("return")
  /\ UNCHANGED <<cache, gets, crashed>>

-----------------------------------------------------------------------------
(* releaseCache: the last items go until the rest is small enough. *)

Total(s) == SumFunction([p \in DOMAIN s |-> items[s[p]].size])

\* Faulty variant: one item always stays.
KeptOne(s) == Max({n \in 0..Len(s) : n <= 1 \/ Total(SubSeq(s, 1, n)) <= maxSize})

\* How many items stay.
Kept(s) == Max({n \in 0..Len(s) : Total(SubSeq(s, 1, n)) <= maxSize})

\* The text was copied before.  After a deleted item was used it may be any other, {} here.
Release ==
  /\ ~crashed /\ stack # <<>> /\ Top.pc = "onload"
  /\ LET gone == {cache[p] : p \in (Kept(cache) + 1)..Len(cache)}
     IN /\ cache' = SubSeq(cache, 1, Kept(cache))
        /\ items' = [i \in DOMAIN items |-> IF i \in gone THEN [items[i] EXCEPT !.deleted = TRUE] ELSE items[i]]
  /\ stack' = Goto("result")
  /\ \E text \in {items[Top.item].text} \cup (IF dangling THEN {{}} ELSE {}) :
       gets' = [gets EXCEPT ![Top.get].answers = @ + 1, ![Top.get].got = text]
  /\ UNCHANGED <<dangling, crashed>>

\* erase(end()) shortens the vector as pop_back does, or moves a negative number of items.
Release_Crash ==
  /\ ~crashed /\ stack # <<>> /\ Top.pc = "onload" /\ Kept(cache) < Len(cache)
  /\ crashed' = TRUE
  /\ UNCHANGED <<cache, items, stack, gets, dangling>>

\* The function that gets the text returns; of those who waited, to the loop over them.
Result ==
  /\ ~crashed /\ stack # <<>> /\ Top.pc = "result"
  /\ LET inLoop == Len(stack) > 1 /\ stack[2].pc = "each" /\ stack[2].item = Top.item
     IN stack' = IF inLoop THEN Tail(stack) ELSE Goto("return")
  /\ UNCHANGED <<cache, items, gets, dangling, crashed>>

\* A deleted item was used: the program ends, or goes on.
Dangling_Crash ==
  /\ ~crashed /\ dangling
  /\ crashed' = TRUE
  /\ UNCHANGED <<cache, items, stack, gets, dangling>>

\* getAsync returns; getSync when its function was called, and otherwise waits for ever.
Waits == Top.pc = "return" /\ gets[Top.get].sync /\ gets[Top.get].answers = 0

Return ==
  /\ ~crashed /\ stack # <<>> /\ Top.pc = "return" /\ ~Waits
  /\ stack' = Tail(stack)
  /\ UNCHANGED <<cache, items, gets, dangling, crashed>>

Stopped == (crashed \/ (stack # <<>> /\ Waits) \/ (stack = <<>> /\ Len(gets) = MaxGets)) /\ UNCHANGED vars

Running ==
  \/ asyncGet \/ Loaded \/ Each \/ Release \/ Release_Crash \/ Result \/ Dangling_Crash \/ Return

Get(n, sync) == Get_New(n, sync) \/ Get_Known(n, sync)

Next == (\E n \in Names, sync \in BOOLEAN : Get(n, sync)) \/ Running \/ Stopped

Spec == Init /\ [][Next]_vars

-----------------------------------------------------------------------------
Item == [name : Names, state : {"unloaded", "loading", "loaded"}, text : SUBSET Names, size : Nat, observers : Seq(Nat),
         deleted : BOOLEAN]

Call == [name : Names, below : BOOLEAN, sync : BOOLEAN, got : SUBSET Names, answers : Nat]

TypeOK ==
  /\ cache \in Seq(DOMAIN items) /\ items \in Seq(Item)
  /\ stack \in Seq([pc : {"asyncGet", "load", "each", "onload", "result", "return"},
       item : DOMAIN items, get : DOMAIN gets, next : Nat])
  /\ gets \in Seq(Call)
  /\ dangling \in BOOLEAN /\ crashed \in BOOLEAN

\* A name has one item in the cache, and no deleted one, however calls are nested.
OnePerName ==
  /\ \A p, q \in DOMAIN cache : p # q => items[cache[p]].name # items[cache[q]].name
  /\ \A p \in DOMAIN cache : ~items[cache[p]].deleted

\* When no call is going on the items take no more room than they may: whatever was put in
\* front, loaded or asked for, somebody has released what was too much.
FitsWhenIdle == stack = <<>> /\ ~crashed => Total(cache) <= maxSize

\* Who asks for a text gets it once: when the program has not ended all calls of getAsync that
\* returned to the application are answered, or will be by the load that is going on.
AnsweredOnce ==
  \A g \in DOMAIN gets :
    /\ gets[g].answers <= 1
    /\ stack = <<>> /\ ~crashed => gets[g].answers = 1

\* Nothing is loaded into the item of another name: whoever asks for a name that is new or in
\* front gets its text, and only who asks for one that stood further down gets another's.
OwnTextUnlessBelow ==
  ~dangling => \A g \in DOMAIN gets : gets[g].answers > 0 => (gets[g].got = {gets[g].name} <=> ~gets[g].below)

\* A getSync waits for ever only inside the load of the item that it was led to: that of its own
\* name, or of the one that its own name has just overtaken.
WaitsOnlyInLoad ==
  stack # <<>> /\ Waits =>
    /\ \E f \in 2..Len(stack) : stack[f].pc = "load" /\ stack[f].item = Top.item
    /\ (items[Top.item].name = gets[Top.get].name <=> ~gets[Top.get].below)
===============================================================================
