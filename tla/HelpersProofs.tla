----------------------------- MODULE HelpersProofs -----------------------------
(***************************************************************************)
(* The parts that share no state with another, for every value of the      *)
(* constants.  Each has its own inductive invariant:                       *)
(*   FilesInv   what the call has found out is so until somebody touches   *)
(*              the files, and the browser's copy can be traced to what    *)
(*              was written in the second of its ETag;                     *)
(*   IdsInv     the hash of an id is known by who has the id alone, and    *)
(*              made ids count up as long as no two threads make one;      *)
(*   CookiesInv what the browser has and sends is what was set last, as    *)
(*              far as its first colon;                                    *)
(*   CacheInv   with the frames of the stack numbered from the first call, *)
(*              a text is loaded by one frame, a call that is not answered *)
(*              has exactly one place that will answer it, who waits       *)
(*              stands above the frame that loads, and what is too much is *)
(*              still to be pressed out;                                   *)
(*   OwnInv     a call is led to the item of its own name if that was not  *)
(*              found below the first, and its text is told to it;         *)
(*   OutputInv  the pieces on a connection follow each other as a frame    *)
(*              needs them, and count what a call has sent so far.         *)
(***************************************************************************)
EXTENDS MCHelpers, TextProofs, WellFoundedInduction, SequenceTheorems, FiniteSetTheorems, TLAPS

-----------------------------------------------------------------------------
(* Files. *)

FileRecord == [time : Times, version : Versions, size : 0..MaxSize, dir : BOOLEAN]

\* Where the call is.
Placed ==
  /\ load.pc \in {"stat", "size", "open", "read", "crashed"} => load.loc \in 1..Locations
  /\ load.pc \notin {"idle", "done"} => out.status = 0 /\ out.got = 0
  /\ load.pc \in {"find", "stat"} => out.type = NoType /\ out.length = 0
  /\ load.pc = "open" => out.length = 0

\* What the call has found out is so as long as nobody touches the files.
StillThere ==
  ~touched =>
    /\ load.pc = "find" => \A k \in 1..Locations : k < load.loc => ~Exists(k)
    /\ load.pc \in {"stat", "size", "open", "read"} =>
         Exists(load.loc) /\ \A k \in 1..Locations : k < load.loc => ~Exists(k)
    /\ load.pc \in {"size", "open", "read"} => load.time = file[load.loc].time
    /\ load.pc = "read" => out.length \in Lengths(file[load.loc])

\* Every content has its number, all that were written are known, and a directory has none.
Numbered ==
  /\ \A w \in written : w[2] \in 1..version
  /\ \A l \in 1..Locations : Exists(l) => <<file[l].time, file[l].version>> \in written
  /\ \A l, k \in 1..Locations : Exists(l) /\ l # k => file[l].version # file[k].version
  /\ \A l \in 1..Locations : file[l].dir => file[l].size = 0

\* A time and a version that went together: those of one content, or of one that is
\* nowhere any longer; or the time was read of a file that had gone.
Traced(time, v) ==
  \/ time \in guessed
  \/ \E w \in 1..version :
       <<time, w>> \in written /\ (v = w \/ \A l \in 1..Locations : file[l].version # w)

Copies ==
  /\ copy.etag # 0 => Traced(copy.etag, copy.version)
  /\ load.pc = "done" /\ out.status = 200 => Traced(out.etag, out.version)
  /\ load.pc # "idle" => load.ifNoneMatch \in {0, copy.etag}
  /\ load.pc \in {"size", "open", "read"} =>
       \/ load.time \in guessed
       \/ /\ <<load.time, load.stated>> \in written
          /\ \A l \in 1..Locations : file[l].version = load.stated => l = load.loc

FilesInv ==
  /\ TypeOK /\ Placed /\ StillThere /\ Numbered /\ Copies
  /\ BodyFits /\ UntouchedIsServed /\ GarbageOnlyIfTouched /\ StaleOnlyIfSameSecond

LEMMA ContentTypeIs == ASSUME NEW marks PROVE ContentType(marks) \in Types
<1>1. DOMAIN Endings \subseteq Nat /\ DOMAIN Endings = DOMAIN TypeOfEnding
  BY DEF Endings, TypeOfEnding
<1> DEFINE found == {i \in DOMAIN Endings : Endings[i] \in marks}
<1>2. CASE found = {}
  BY <1>2 DEF ContentType, Types
<1>3. CASE found # {}
  <2>1. Min(found) \in found
    BY <1>1, <1>3, MinIs
  <2>2. ContentType(marks) = TypeOfEnding[Min(found)]
    BY <1>3 DEF ContentType
  <2> QED BY <1>1, <2>1, <2>2 DEF Types
<1> QED BY <1>2, <1>3

LEMMA ReadFits ==
  ASSUME NEW a \in Nat, NEW b \in Nat
  PROVE  ReadCount(a, b) \in {a, b} /\ ReadCount(a, b) <= a /\ ReadCount(a, b) <= b
  BY MinIs, {a, b} \in SUBSET Nat DEF ReadCount

LEMMA LengthIs ==
  ASSUME NEW n \in Nat
  PROVE  ContentLength(n) \in 0..(LengthRange - 1) /\ ContentLength(n) <= n /\ (n < LengthRange => ContentLength(n) = n)
  BY FilesAssumption DEF ContentLength

LEMMA FirstIs ==
  ASSUME NEW l \in 1..Locations, Exists(l), \A k \in 1..Locations : k < l => ~Exists(k)
  PROVE  First({k \in 1..Locations : Exists(k)}) = l
<1> DEFINE T == {k \in 1..Locations : Exists(k)}
<1>1. T \in SUBSET Nat /\ l \in T
  BY FilesAssumption
<1>2. Min(T) \in T /\ Min(T) <= l
  BY <1>1, MinIs
<1> QED BY <1>1, <1>2 DEF First

LEMMA FilesInit == Init => FilesInv
<1> SUFFICES ASSUME Init PROVE FilesInv
  OBVIOUS
<1>1. /\ load = [pc |-> "idle", loc |-> 1, marks |-> {}, ifNoneMatch |-> 0, time |-> 0, stated |-> 0]
      /\ out = [status |-> 0, type |-> NoType, etag |-> 0, version |-> 0, length |-> 0, got |-> 0]
      /\ copy = [etag |-> 0, version |-> 0, length |-> 0, got |-> 0]
      /\ now = 1 /\ version = 0 /\ written = {} /\ touched = FALSE /\ guessed = {}
  BY DEF Init, Idle, Empty, Missing
<1>2. TypeOK
  <2>1. load \in [pc : {"idle", "find", "stat", "size", "open", "read", "done", "crashed"},
               loc : 1..(Locations + 1), marks : NameMarks \cup {{}}, ifNoneMatch : Times,
               time : Times, stated : Versions]
    BY FilesAssumption DEF Init, Idle, Times, Versions
  <2>2. NoType \in Types
    BY DEF Types
  <2>3. out \in [status : {0, 200, 304}, type : Types, etag : Times, version : Versions,
              length : 0..(LengthRange - 1), got : 0..MaxSize]
    BY <2>2, FilesAssumption DEF Init, Empty, Times, Versions
  <2>4. file \in [1..Locations -> FileRecord]
    BY FilesAssumption DEF Init, Gone, Times, Versions, FileRecord
  <2>5. copy \in [etag : Times, version : Versions, length : 0..(LengthRange - 1), got : 0..MaxSize]
    BY FilesAssumption DEF Init, Missing, Times, Versions
  <2>6. 1 \in Times /\ 0 \in Versions
    BY FilesAssumption DEF Times, Versions
  <2> QED BY <1>1, <2>1, <2>3, <2>4, <2>5, <2>6 DEF TypeOK, FileRecord
<1>3. Placed /\ StillThere /\ Numbered /\ Copies
  BY <1>1 DEF Init, Gone, Exists, Placed, StillThere, Numbered, Copies
<1>4. BodyFits /\ UntouchedIsServed /\ GarbageOnlyIfTouched /\ StaleOnlyIfSameSecond
  BY <1>1 DEF BodyFits, UntouchedIsServed, GarbageOnlyIfTouched, StaleOnlyIfSameSecond
<1> QED BY <1>2, <1>3, <1>4 DEF FilesInv

\* Somebody changes the file at one location: to one that has gone, or to a new content.
LEMMA ChangeKeeps ==
  ASSUME FilesInv, NEW l \in 1..Locations, NEW new \in FileRecord,
         file' = [file EXCEPT ![l] = new], touched' = TRUE,
         \/ new = Gone /\ version' = version /\ written' = written
         \/ /\ version < MaxVersion /\ version' = version + 1 /\ new # Gone
            /\ new.version = version + 1 /\ (new.dir => new.size = 0) /\ written' = written \cup {<<new.time, version + 1>>},
         UNCHANGED <<now, guessed, load, out, copy>>
  PROVE  FilesInv'
<1>1. /\ file'[l] = new /\ \A k \in 1..Locations : k # l => file'[k] = file[k]
      /\ \A k \in 1..Locations : k # l => (Exists(k)' <=> Exists(k))
      /\ Exists(l)' <=> new # Gone
  BY DEF FilesInv, TypeOK, Exists, Gone, FileRecord
<1>2. version \in Nat /\ version' \in Versions /\ version' >= version /\ written \subseteq written'
  <2>1. MaxVersion \in Nat /\ version \in 0..MaxVersion
    BY FilesAssumption DEF FilesInv, TypeOK, Versions
  <2>2. version' \in 0..MaxVersion /\ version' >= version
    BY <2>1
  <2> QED BY <2>1, <2>2 DEF Versions
<1>3. /\ \A w \in written : w[2] \in 1..version
      /\ \A k \in 1..Locations : Exists(k) => file[k].version \in 1..version
  BY DEF FilesInv, Numbered
<1>4. TypeOK'
  <2>1. written' \subseteq Times \X Versions
    <3>1. new.time \in Times /\ version' \in Versions /\ written \subseteq Times \X Versions
      BY <1>2 DEF FilesInv, TypeOK, FileRecord
    <3> QED BY <3>1
  <2>2. file' \in [1..Locations -> FileRecord]
    BY DEF FilesInv, TypeOK, FileRecord
  <2> QED BY <1>2, <2>1, <2>2 DEF FilesInv, TypeOK, FileRecord
<1>5. Numbered'
  <2>1. \A w \in written' : w[2] \in 1..version'
    BY <1>2, <1>3
  <2>2. \A k \in 1..Locations : Exists(k)' => <<file'[k].time, file'[k].version>> \in written'
    BY <1>1, <1>2 DEF FilesInv, Numbered
  <2>3. \A j, k \in 1..Locations : Exists(j)' /\ j # k => file'[j].version # file'[k].version
    BY <1>1, <1>2, <1>3 DEF FilesInv, Numbered, Gone, Exists
  <2>4. \A k \in 1..Locations : file'[k].dir => file'[k].size = 0
    BY <1>1 DEF FilesInv, Numbered, Gone
  <2> QED BY <2>1, <2>2, <2>3, <2>4 DEF Numbered
<1>6. \A k \in 1..Locations, w \in 1..version : file'[k].version = w => file[k].version = w
  BY <1>1, <1>2 DEF Gone
<1>7. \A time, v : Traced(time, v) => Traced(time, v)'
  <2> SUFFICES ASSUME NEW time, NEW v, Traced(time, v) PROVE Traced(time, v)'
    OBVIOUS
  <2>1. CASE time \in guessed
    BY <2>1 DEF Traced
  <2>2. CASE time \notin guessed
    <3>1. PICK w \in 1..version :
            /\ <<time, w>> \in written
            /\ v = w \/ \A k \in 1..Locations : file[k].version # w
      BY <2>2 DEF Traced
    <3>2. <<time, w>> \in written'
      BY <1>2, <3>1
    <3>4. w \in 1..version'
      BY <1>2, FilesAssumption DEF Versions
    <3>3. v = w \/ \A k \in 1..Locations : file'[k].version # w
      BY <1>6, <3>1
    <3> QED BY <3>2, <3>3, <3>4 DEF Traced
  <2> QED BY <2>1, <2>2
<1>8. Copies'
  <2>1. load.pc \in {"size", "open", "read"} =>
          \/ load.time \in guessed
          \/ /\ <<load.time, load.stated>> \in written'
             /\ \A k \in 1..Locations : file'[k].version = load.stated => k = load.loc
    <3> SUFFICES ASSUME load.pc \in {"size", "open", "read"}, load.time \notin guessed
                 PROVE  /\ <<load.time, load.stated>> \in written'
                        /\ \A k \in 1..Locations : file'[k].version = load.stated => k = load.loc
      OBVIOUS
    <3>1. /\ <<load.time, load.stated>> \in written
          /\ \A k \in 1..Locations : file[k].version = load.stated => k = load.loc
      BY DEF FilesInv, Copies
    <3>2. load.stated \in 1..version
      BY <1>3, <3>1
    <3> QED BY <1>2, <1>6, <3>1, <3>2
  <2> QED BY <1>7, <2>1 DEF FilesInv, Copies
<1>9. StillThere' /\ UntouchedIsServed' /\ GarbageOnlyIfTouched'
  BY DEF StillThere, UntouchedIsServed, GarbageOnlyIfTouched
<1>10. Placed' /\ BodyFits'
  BY DEF FilesInv, Placed, BodyFits
<1>11. StaleOnlyIfSameSecond'
  BY <1>2 DEF FilesInv, StaleOnlyIfSameSecond
<1> QED BY <1>4, <1>5, <1>8, <1>9, <1>10, <1>11 DEF FilesInv

LEMMA PutKeeps ==
  ASSUME FilesInv, NEW l \in 1..Locations, NEW s \in 0..MaxSize, NEW dir \in BOOLEAN,
         dir => s = 0, Put(l, s, dir)
  PROVE  FilesInv'
<1> DEFINE new == [time |-> now, version |-> version + 1, size |-> s, dir |-> dir]
<1>1. version \in Nat /\ version + 1 \in Versions /\ now \in Times
  BY FilesAssumption DEF FilesInv, TypeOK, Versions, Put
<1>2. new \in FileRecord /\ new # Gone
  BY <1>1 DEF Gone, FileRecord
<1>3. written' = written \cup {<<new.time, version + 1>>} /\ file' = [file EXCEPT ![l] = new]
  BY DEF Put
<1>4. new.version = version + 1 /\ (new.dir => new.size = 0)
  OBVIOUS
<1> HIDE DEF new
<1> QED BY <1>2, <1>3, <1>4, ChangeKeeps DEF Put

LEMMA WriteKeeps ==
  ASSUME FilesInv, NEW l \in 1..Locations, NEW s \in 0..MaxSize, Write(l, s)
  PROVE  FilesInv'
  BY PutKeeps DEF Write

LEMMA MakeDirectoryKeeps ==
  ASSUME FilesInv, NEW l \in 1..Locations, MakeDirectory(l)
  PROVE  FilesInv'
<1>1. 0 \in 0..MaxSize
  BY FilesAssumption
<1>2. Put(l, 0, TRUE)
  BY DEF MakeDirectory
<1> QED BY <1>1, <1>2, PutKeeps

LEMMA DeleteKeeps ==
  ASSUME FilesInv, NEW l \in 1..Locations, Delete(l)
  PROVE  FilesInv'
<1>1. Gone \in FileRecord
  BY FilesAssumption DEF Gone, Times, Versions, FileRecord
<1> QED BY <1>1, ChangeKeeps DEF Delete

\* The clock goes on.
LEMMA TickKeeps == FilesInv /\ Tick => FilesInv'
<1> SUFFICES ASSUME FilesInv, Tick PROVE FilesInv'
  OBVIOUS
<1>1. now' \in Times
  BY FilesAssumption DEF FilesInv, TypeOK, Tick, Times
<1>5. TypeOK'
  BY <1>1 DEF FilesInv, TypeOK, Tick
<1>2. \A l : Exists(l)' <=> Exists(l)
  BY DEF Tick, Exists
<1>3. Placed' /\ StillThere' /\ Numbered' /\ Copies'
  <2>1. Placed' /\ Numbered'
    BY <1>2 DEF FilesInv, Tick, Placed, Numbered
  <2>2. StillThere'
    BY <1>2 DEF FilesInv, Tick, StillThere, Lengths, ContentLength
  <2>3. Copies'
    BY DEF FilesInv, Tick, Copies, Traced
  <2> QED BY <2>1, <2>2, <2>3
<1>4. BodyFits' /\ UntouchedIsServed' /\ GarbageOnlyIfTouched' /\ StaleOnlyIfSameSecond'
  BY <1>2 DEF FilesInv, Tick, BodyFits, UntouchedIsServed, GarbageOnlyIfTouched, StaleOnlyIfSameSecond
<1> QED BY <1>3, <1>4, <1>5 DEF FilesInv

-----------------------------------------------------------------------------
\* What does not depend on the call, when the files stay as they are.
LEMMA DiskStays ==
  ASSUME UNCHANGED <<file, version, written>>, guessed \subseteq guessed'
  PROVE  /\ \A l : Exists(l)' <=> Exists(l)
         /\ Numbered => Numbered'
         /\ \A time, v : Traced(time, v) => Traced(time, v)'
<1>1. \A l : Exists(l)' <=> Exists(l)
  BY DEF Exists
<1>2. Numbered => Numbered'
  BY <1>1 DEF Numbered
<1> QED BY <1>1, <1>2 DEF Traced

LoadRecord ==
  [pc : {"idle", "find", "stat", "size", "open", "read", "done", "crashed"},
   loc : 1..(Locations + 1), marks : NameMarks \cup {{}}, ifNoneMatch : Times,
   time : Times, stated : Versions]

OutRecord ==
  [status : {0, 200, 304}, type : Types, etag : Times, version : Versions,
   length : 0..(LengthRange - 1), got : 0..MaxSize]

LEMMA RequestKeeps == ASSUME FilesInv, NEW marks \in NameMarks, Request(marks) PROVE FilesInv'
<1>1. PICK e \in {0, copy.etag} :
        load' = [pc |-> "find", loc |-> 1, marks |-> marks, ifNoneMatch |-> e, time |-> 0, stated |-> 0]
  BY DEF Request, Idle
<1>2. /\ out' = [status |-> 0, type |-> NoType, etag |-> 0, version |-> 0, length |-> 0, got |-> 0]
      /\ touched' = FALSE /\ load.pc = "idle"
      /\ UNCHANGED <<file, now, version, written, guessed, copy>>
  BY DEF Request, Empty
<1>3. TypeOK'
  <2>1. 0 \in Times /\ 0 \in Versions /\ NoType \in Types
    BY FilesAssumption DEF Times, Versions, Types
  <2>2. e \in Times
    BY <2>1 DEF FilesInv, TypeOK
  <2>3. load' \in LoadRecord
    BY <1>1, <2>1, <2>2, FilesAssumption DEF LoadRecord
  <2>4. out' \in OutRecord
    BY <1>2, <2>1, FilesAssumption DEF OutRecord
  <2> QED BY <1>2, <2>3, <2>4 DEF FilesInv, TypeOK, LoadRecord, OutRecord
<1>4. Placed' /\ StillThere'
  BY <1>1, <1>2 DEF Placed, StillThere
<1>5. Numbered' /\ Copies'
  <2>1. \A time, v : Traced(time, v) => Traced(time, v)'
    BY <1>2, DiskStays
  <2> QED BY <1>1, <1>2, <2>1, DiskStays DEF FilesInv, Copies
<1>6. BodyFits' /\ UntouchedIsServed' /\ GarbageOnlyIfTouched' /\ StaleOnlyIfSameSecond'
  BY <1>1, <1>2 DEF BodyFits, UntouchedIsServed, GarbageOnlyIfTouched, StaleOnlyIfSameSecond
<1> QED BY <1>3, <1>4, <1>5, <1>6 DEF FilesInv

\* A step of the call before the file is read, which leaves the copy alone: what it has to
\* show is what it says of the call itself.
LEMMA CallKeeps ==
  ASSUME FilesInv, load.pc # "idle", load.pc # "done", UNCHANGED <<disk, copy>>, guessed \subseteq guessed', guessed' \subseteq Times,
         load' \in LoadRecord, out' \in OutRecord, load'.ifNoneMatch = load.ifNoneMatch, load'.pc # "idle",
         Placed', StillThere', UntouchedIsServed', GarbageOnlyIfTouched', StaleOnlyIfSameSecond', BodyFits',
         load'.pc = "done" /\ out'.status = 200 => Traced(out.etag, out.version)',
         load'.pc \in {"size", "open", "read"} =>
           \/ load'.time \in guessed'
           \/ /\ <<load'.time, load'.stated>> \in written
              /\ \A l \in 1..Locations : file[l].version = load'.stated => l = load'.loc
  PROVE  FilesInv'
<1>1. UNCHANGED <<file, now, version, written, touched>>
  BY DEF disk
<1>2. TypeOK'
  BY <1>1 DEF FilesInv, TypeOK, LoadRecord, OutRecord
<1>3. \A time, v : Traced(time, v) => Traced(time, v)'
  BY <1>1, DiskStays
<1>4. Copies'
  <2>1. copy.etag # 0 => Traced(copy.etag, copy.version)
    BY DEF FilesInv, Copies
  <2>2. load.ifNoneMatch \in {0, copy.etag} /\ copy' = copy
    BY DEF FilesInv, Copies
  <2>3. copy'.etag # 0 => Traced(copy.etag, copy.version)'
    BY <1>1, <2>1, <2>2 DEF Traced
  <2> QED BY <1>1, <2>2, <2>3 DEF Copies
<1> QED BY <1>1, <1>2, <1>4, DiskStays DEF FilesInv

LEMMA FindKeeps == ASSUME FilesInv, Find_None \/ Find_Missing \/ Find_There PROVE FilesInv'
<1>1. UNCHANGED <<disk, guessed, copy>> /\ UNCHANGED <<file, now, version, written, touched>> /\ guessed \subseteq Times
  BY DEF Find_None, Find_Missing, Find_There, disk, FilesInv, TypeOK
<1>2. /\ load.pc = "find" /\ load \in LoadRecord /\ out \in OutRecord
      /\ out.status = 0 /\ out.got = 0 /\ out.type = NoType /\ out.length = 0
      /\ ~touched => \A k \in 1..Locations : k < load.loc => ~Exists(k)
  BY DEF Find_None, Find_Missing, Find_There, FilesInv, Placed, StillThere, TypeOK, LoadRecord, OutRecord
<1>3. \A l : Exists(l)' <=> Exists(l)
  BY <1>1, DiskStays
<1>4. Locations \in Nat
  BY FilesAssumption
<1>5. CASE Find_None
  <2>1. /\ load.loc > Locations /\ out' = out /\ load' \in LoadRecord /\ load'.pc = "done"
        /\ load'.ifNoneMatch = load.ifNoneMatch
    BY <1>2, <1>5 DEF Find_None, LoadRecord
  <2>2. UntouchedIsServed'
    <3>1. ~touched => {k \in 1..Locations : Exists(k)'} = {}
      BY <1>2, <1>3, <1>4, <2>1 DEF LoadRecord
    <3> QED BY <1>1, <1>2, <2>1, <3>1 DEF UntouchedIsServed, First
  <2>3. Placed' /\ StillThere' /\ GarbageOnlyIfTouched' /\ StaleOnlyIfSameSecond' /\ BodyFits'
    BY <1>2, <2>1 DEF Placed, StillThere, GarbageOnlyIfTouched, StaleOnlyIfSameSecond, BodyFits
  <2> QED BY <1>1, <1>2, <2>1, <2>2, <2>3, CallKeeps
<1>6. CASE Find_Missing
  <2>1. /\ load.loc <= Locations /\ ~Exists(load.loc) /\ load' = [load EXCEPT !.loc = load.loc + 1]
        /\ out' = [out EXCEPT !.type = NoType, !.length = 0, !.status = 0]
    BY <1>6 DEF Find_Missing, NextLocation
  <2>2. /\ load' \in LoadRecord /\ load'.pc = "find" /\ load'.loc = load.loc + 1 /\ load'.ifNoneMatch = load.ifNoneMatch
    BY <1>2, <1>4, <2>1 DEF LoadRecord
  <2>3. out' = out
    BY <1>2, <2>1 DEF OutRecord
  <2>4. StillThere'
    BY <1>1, <1>2, <1>3, <2>1, <2>2 DEF StillThere, LoadRecord
  <2>5. Placed' /\ UntouchedIsServed' /\ GarbageOnlyIfTouched' /\ StaleOnlyIfSameSecond' /\ BodyFits'
    BY <1>2, <2>2, <2>3 DEF Placed, UntouchedIsServed, GarbageOnlyIfTouched, StaleOnlyIfSameSecond, BodyFits
  <2> QED BY <1>1, <1>2, <2>2, <2>3, <2>4, <2>5, CallKeeps
<1>7. CASE Find_There
  <2>1. /\ load.loc <= Locations /\ Exists(load.loc) /\ load' = [load EXCEPT !.pc = "stat"] /\ out' = out
    BY <1>7 DEF Find_There
  <2>2. /\ load' \in LoadRecord /\ load'.pc = "stat" /\ load'.loc = load.loc /\ load'.ifNoneMatch = load.ifNoneMatch
        /\ load.loc \in 1..Locations
    BY <1>2, <1>4, <2>1 DEF LoadRecord
  <2>3. StillThere'
    BY <1>1, <1>2, <1>3, <2>1, <2>2 DEF StillThere
  <2>4. Placed' /\ UntouchedIsServed' /\ GarbageOnlyIfTouched' /\ StaleOnlyIfSameSecond' /\ BodyFits'
    BY <1>2, <2>1, <2>2 DEF Placed, UntouchedIsServed, GarbageOnlyIfTouched, StaleOnlyIfSameSecond, BodyFits
  <2> QED BY <1>1, <1>2, <2>1, <2>2, <2>3, <2>4, CallKeeps
<1> QED BY <1>5, <1>6, <1>7

LEMMA StatKeeps == ASSUME FilesInv, Stat PROVE FilesInv'
<1>1. PICK time \in (IF Exists(load.loc) THEN {file[load.loc].time} ELSE 1..MaxTime) :
        /\ guessed' = guessed \cup (IF Exists(load.loc) THEN {} ELSE {time})
        /\ IF Unmodified(load.ifNoneMatch, time)
             THEN /\ out' = [out EXCEPT !.status = 304]
                  /\ load' = [load EXCEPT !.pc = "done", !.stated = file[load.loc].version]
             ELSE /\ load' = [load EXCEPT !.pc = "size", !.time = time, !.stated = file[load.loc].version]
                  /\ UNCHANGED out
  BY DEF Stat
<1>2. /\ UNCHANGED <<disk, copy>> /\ UNCHANGED <<file, now, version, written, touched>>
      /\ load.pc = "stat" /\ load \in LoadRecord /\ out \in OutRecord /\ load.loc \in 1..Locations
      /\ file[load.loc] \in FileRecord
      /\ out.status = 0 /\ out.got = 0
      /\ ~touched => Exists(load.loc) /\ \A k \in 1..Locations : k < load.loc => ~Exists(k)
  BY DEF Stat, disk, FilesInv, Placed, StillThere, TypeOK, LoadRecord, OutRecord, FileRecord
<1>3. time \in Times /\ guessed \subseteq guessed' /\ guessed' \subseteq Times
      /\ (Exists(load.loc) => time = file[load.loc].time) /\ (~Exists(load.loc) => time \in guessed')
  <2>1. CASE Exists(load.loc)
    BY <1>1, <1>2, <2>1 DEF FileRecord, FilesInv, TypeOK
  <2>2. CASE ~Exists(load.loc)
    <3>1. time \in Times
      BY <1>1, <2>2, FilesAssumption DEF Times
    <3> QED BY <1>1, <2>2, <3>1 DEF FilesInv, TypeOK
  <2> QED BY <2>1, <2>2
<1>4. \A l : Exists(l)' <=> Exists(l)
  BY <1>2, <1>3, DiskStays
\* The content that was looked at has its number to itself.
<1>5. Exists(load.loc) => /\ <<time, file[load.loc].version>> \in written
                          /\ \A l \in 1..Locations : file[l].version = file[load.loc].version => l = load.loc
  BY <1>2, <1>3 DEF FilesInv, Numbered
<1>6. CASE Unmodified(load.ifNoneMatch, time)
  <2>1. load.ifNoneMatch # 0 /\ load.ifNoneMatch = time
    BY <1>6 DEF Unmodified
  <2>2. /\ load' \in LoadRecord /\ load'.pc = "done" /\ load'.ifNoneMatch = load.ifNoneMatch
        /\ load'.stated = file[load.loc].version
    <3>1. load' = [load EXCEPT !.pc = "done", !.stated = file[load.loc].version] /\ file[load.loc].version \in Versions
      BY <1>1, <1>2, <1>6 DEF FileRecord
    <3> QED BY <1>2, <3>1 DEF LoadRecord
  <2>3. out' \in OutRecord /\ out'.status = 304 /\ out'.got = 0 /\ out'.length = out.length
    BY <1>1, <1>2, <1>6 DEF OutRecord
  <2>4. UntouchedIsServed'
    <3> SUFFICES ASSUME ~touched PROVE UntouchedIsServed'
      BY <1>2 DEF UntouchedIsServed
    <3>1. First({k \in 1..Locations : Exists(k)}) = load.loc
      BY <1>2, FirstIs
    <3>2. First({k \in 1..Locations : Exists(k)'}) = load.loc
      BY <1>4, <3>1
    <3> QED BY <1>2, <1>3, <2>1, <2>2, <2>3, <3>2 DEF UntouchedIsServed, First
  <2>5. StaleOnlyIfSameSecond'
    <3>1. copy.etag = time /\ Traced(time, copy.version)
      BY <1>2, <2>1 DEF FilesInv, Copies
    <3> SUFFICES ASSUME copy.version # file[load.loc].version, time \notin guessed'
                 PROVE  \E w1 \in written, w2 \in written : w1[1] = w2[1] /\ w1[2] # w2[2] /\ w1[1] = time
      BY <1>2, <2>1, <2>2, <2>3 DEF StaleOnlyIfSameSecond
    <3>2. PICK w \in 1..version :
            <<time, w>> \in written /\ (copy.version = w \/ \A l \in 1..Locations : file[l].version # w)
      BY <1>3, <3>1 DEF Traced
    <3>3. w # file[load.loc].version /\ <<time, file[load.loc].version>> \in written
      BY <1>2, <1>3, <1>5, <3>2
    <3> DEFINE w1 == <<time, w>>
               w2 == <<time, file[load.loc].version>>
    <3>4. w1[1] = w2[1] /\ w1[2] # w2[2] /\ w1[1] = time
      BY <3>3
    <3> QED BY <3>2, <3>3, <3>4
  <2>6. Placed' /\ StillThere' /\ GarbageOnlyIfTouched' /\ BodyFits'
    BY <1>2, <2>2, <2>3 DEF Placed, StillThere, GarbageOnlyIfTouched, BodyFits, FilesInv
  <2> QED BY <1>2, <1>3, <2>2, <2>3, <2>4, <2>5, <2>6, CallKeeps
<1>7. CASE ~Unmodified(load.ifNoneMatch, time)
  <2>1. /\ load' \in LoadRecord /\ load'.pc = "size" /\ load'.ifNoneMatch = load.ifNoneMatch
        /\ load'.stated = file[load.loc].version /\ load'.time = time /\ load'.loc = load.loc
    <3>1. load' = [load EXCEPT !.time = time, !.pc = "size", !.stated = file[load.loc].version]
      BY <1>1, <1>7
    <3>2. load \in LoadRecord /\ time \in Times /\ file[load.loc].version \in Versions
      BY <1>1, <1>2, <1>3 DEF FileRecord
    <3> QED BY <3>1, <3>2 DEF LoadRecord
  <2>2. out' = out
    BY <1>1, <1>7
  <2>3. StillThere'
    BY <1>2, <1>3, <1>4, <2>1 DEF StillThere
  <2>4. Placed' /\ UntouchedIsServed' /\ GarbageOnlyIfTouched' /\ StaleOnlyIfSameSecond' /\ BodyFits'
    BY <1>2, <2>1, <2>2 DEF Placed, UntouchedIsServed, GarbageOnlyIfTouched, StaleOnlyIfSameSecond, BodyFits, FilesInv
  <2>5. \/ load'.time \in guessed'
        \/ /\ <<load'.time, load'.stated>> \in written
           /\ \A l \in 1..Locations : file[l].version = load'.stated => l = load'.loc
    BY <1>3, <1>5, <2>1
  <2> QED BY <1>2, <1>3, <2>1, <2>2, <2>3, <2>4, <2>5, CallKeeps
<1> QED BY <1>6, <1>7

LEMMA SizeKeeps == ASSUME FilesInv, Size_Exists \/ Size_Open PROVE FilesInv'
<1>1. /\ UNCHANGED <<disk, guessed, copy>> /\ UNCHANGED <<file, now, version, written, touched>> /\ guessed \subseteq Times
      /\ load.pc \in {"size", "open"} /\ load \in LoadRecord /\ out \in OutRecord /\ load.loc \in 1..Locations
      /\ file[load.loc] \in FileRecord
      /\ out.status = 0 /\ out.got = 0 /\ (load.pc = "open" => out.length = 0)
  BY DEF Size_Exists, Size_Open, disk, FilesInv, Placed, TypeOK, LoadRecord, OutRecord, FileRecord
<1>2. /\ \A l : Exists(l)' <=> Exists(l)
      /\ ~touched => /\ Exists(load.loc) /\ \A k \in 1..Locations : k < load.loc => ~Exists(k)
                     /\ load.time = file[load.loc].time
  BY <1>1, DiskStays DEF FilesInv, StillThere
<1>3. \/ load.time \in guessed
      \/ /\ <<load.time, load.stated>> \in written
         /\ \A l \in 1..Locations : file[l].version = load.stated => l = load.loc
  BY <1>1 DEF FilesInv, Copies
<1>4. ASSUME NEW next \in {"open", "read", "crashed"}, load' = [load EXCEPT !.pc = next], out' \in OutRecord,
             out'.status = 0, out'.got = 0, next = "open" => out'.length = 0,
             ~touched => next \in {"open", "read"} /\ (next = "read" => out'.length \in Lengths(file[load.loc]))
      PROVE  FilesInv'
  <2>1. /\ load' \in LoadRecord /\ load'.pc = next /\ load'.ifNoneMatch = load.ifNoneMatch /\ load'.loc = load.loc
        /\ load'.time = load.time /\ load'.stated = load.stated
    BY <1>1, <1>4 DEF LoadRecord
  <2>2. StillThere'
    BY <1>1, <1>2, <1>4, <2>1 DEF StillThere, Lengths, ContentLength
  <2>3. Placed' /\ UntouchedIsServed' /\ GarbageOnlyIfTouched' /\ StaleOnlyIfSameSecond' /\ BodyFits'
    BY <1>1, <1>4, <2>1 DEF Placed, UntouchedIsServed, GarbageOnlyIfTouched, StaleOnlyIfSameSecond, BodyFits, OutRecord
  <2> QED BY <1>1, <1>3, <1>4, <2>1, <2>2, <2>3, CallKeeps
<1>5. CASE Size_Exists
  <2>1. /\ load.pc = "size" /\ out' = [out EXCEPT !.type = ContentType(load.marks), !.length = 0]
        /\ load' = [load EXCEPT !.pc = IF Exists(load.loc) THEN "open" ELSE "read"]
    BY <1>5 DEF Size_Exists
  <2>2. out' \in OutRecord /\ out'.status = 0 /\ out'.got = 0 /\ out'.length = 0
    <3>1. ContentType(load.marks) \in Types /\ 0 \in 0..(LengthRange - 1)
      BY ContentTypeIs, FilesAssumption
    <3> QED BY <1>1, <2>1, <3>1 DEF OutRecord
  <2> QED BY <1>2, <1>4, <2>1, <2>2
<1>6. CASE Size_Open
  <2>1. load.pc = "open" /\ out.length = 0
    BY <1>1, <1>6 DEF Size_Open
  <2>2. CASE Exists(load.loc)
    <3>1. PICK length \in Lengths(file[load.loc]) : out' = [out EXCEPT !.length = length] /\ load' = [load EXCEPT !.pc = "read"]
      BY <1>6, <2>2 DEF Size_Open
    <3>2. length \in 0..(LengthRange - 1)
      BY <1>1, FilesAssumption, LengthIs DEF FileRecord, Lengths
    <3>3. /\ out' \in OutRecord /\ out'.status = 0 /\ out'.got = 0
          /\ out'.length \in Lengths(file[load.loc])
      BY <1>1, <3>1, <3>2 DEF OutRecord
    <3> QED BY <1>4, <3>1, <3>3
  <2>3. CASE ~Exists(load.loc)
    BY <1>1, <1>2, <1>4, <1>6, <2>1, <2>3 DEF Size_Open
  <2> QED BY <2>2, <2>3
<1> QED BY <1>5, <1>6

LEMMA ReadKeeps == ASSUME FilesInv, Read PROVE FilesInv'
<1>1. /\ UNCHANGED <<disk, guessed, copy>> /\ UNCHANGED <<file, now, version, written, touched>> /\ guessed \subseteq Times
      /\ load.pc = "read" /\ load \in LoadRecord /\ out \in OutRecord /\ load.loc \in 1..Locations
      /\ file[load.loc] \in FileRecord
      /\ load' = [load EXCEPT !.pc = "done"]
      /\ out' = [out EXCEPT !.status = 200, !.etag = load.time, !.version = file[load.loc].version,
                            !.got = ReadCount(out.length, file[load.loc].size)]
  BY DEF Read, disk, FilesInv, Placed, TypeOK, LoadRecord, OutRecord, FileRecord
<1>2. /\ \A l : Exists(l)' <=> Exists(l)
      /\ ~touched => /\ Exists(load.loc) /\ \A k \in 1..Locations : k < load.loc => ~Exists(k)
                     /\ load.time = file[load.loc].time
                     /\ (~file[load.loc].dir => out.length = ContentLength(file[load.loc].size))
  BY <1>1, DiskStays DEF FilesInv, StillThere, Lengths
<1>3. /\ load' \in LoadRecord /\ load'.pc = "done" /\ load'.ifNoneMatch = load.ifNoneMatch
  BY <1>1 DEF LoadRecord
<1>4. /\ out.length \in Nat /\ file[load.loc].size \in Nat /\ file[load.loc].size \in 0..MaxSize /\ MaxSize \in Nat
      /\ file[load.loc].dir => file[load.loc].size = 0
  BY <1>1, FilesAssumption DEF OutRecord, FileRecord, FilesInv, Numbered
<1> DEFINE got == ReadCount(out.length, file[load.loc].size)
<1>5. got \in 0..MaxSize /\ got <= out.length /\ got <= file[load.loc].size /\ got \in {out.length, file[load.loc].size}
  BY <1>4, ReadFits
<1>6. out' = [out EXCEPT !.status = 200, !.etag = load.time, !.version = file[load.loc].version, !.got = got]
  BY <1>1
<1> HIDE DEF got
<1>7. /\ out' \in OutRecord /\ out'.status = 200 /\ out'.etag = load.time /\ out'.version = file[load.loc].version
      /\ out'.got = got /\ out'.length = out.length
  <2>1. load.time \in Times /\ file[load.loc].version \in Versions
    BY <1>1 DEF LoadRecord, FileRecord
  <2>2. out \in OutRecord
    BY <1>1
  <2>3. PICK e, v : e = load.time /\ v = file[load.loc].version
    OBVIOUS
  <2>4. out' = [out EXCEPT !.status = 200, !.etag = e, !.version = v, !.got = got]
    BY <1>6, <2>3
  <2>5. e \in Times /\ v \in Versions /\ got \in 0..MaxSize
    BY <1>5, <2>1, <2>3
  <2>6. out'.status = 200 /\ out'.etag = e /\ out'.version = v /\ out'.got = got /\ out'.length = out.length
    BY <2>2, <2>4 DEF OutRecord
  <2>7. out' \in OutRecord
    BY <2>2, <2>4, <2>5 DEF OutRecord
  <2> QED BY <2>3, <2>6, <2>7
\* As much as the length says, when nobody touched the file.
<1>8. ~touched /\ ~file[load.loc].dir =>
                  /\ out.length <= file[load.loc].size /\ got = out.length
                  /\ file[load.loc].size < LengthRange => out.length = file[load.loc].size
  <2> SUFFICES ASSUME ~touched, ~file[load.loc].dir
               PROVE  /\ out.length <= file[load.loc].size /\ got = out.length
                      /\ file[load.loc].size < LengthRange => out.length = file[load.loc].size
    OBVIOUS
  <2>1. /\ out.length <= file[load.loc].size
        /\ file[load.loc].size < LengthRange => out.length = file[load.loc].size
    BY <1>2, <1>4, LengthIs
  <2>2. got = out.length
    <3>1. got = ReadCount(out.length, file[load.loc].size)
      BY DEF got
    <3>2. \A k \in {out.length, file[load.loc].size} : got <= k
      BY <1>5
    <3>3. CASE got = out.length
      BY <3>3
    <3>4. CASE got = file[load.loc].size
      BY <1>4, <1>5, <2>1, <3>4
    <3> QED BY <1>5, <3>3, <3>4
  <2> QED BY <2>1, <2>2
<1>9. UntouchedIsServed'
  <2> SUFFICES ASSUME ~touched PROVE UntouchedIsServed'
    BY <1>1 DEF UntouchedIsServed
  <2>1. First({k \in 1..Locations : Exists(k)}) = load.loc
    BY <1>1, <1>2, FirstIs
  <2>2. First({k \in 1..Locations : Exists(k)'}) = load.loc
    BY <1>2, <2>1
  <2>3. load.loc # 0 /\ file' = file /\ load.time = file[load.loc].time
    BY <1>1, <1>2, FilesAssumption
  <2>4. out'.status = 200 /\ out'.etag = load.time /\ out'.version = file[load.loc].version
    BY <1>7
  <2>5. /\ ~file[load.loc].dir /\ file[load.loc].size < LengthRange =>
             out'.got = file[load.loc].size /\ out'.length = file[load.loc].size
        /\ file[load.loc].dir => out'.got = 0
    BY <1>4, <1>5, <1>7, <1>8
  <2>6. First({k \in 1..Locations : Exists(k)})' = load.loc
    BY <2>2, <2>3 DEF First
  <2> QED BY <2>3, <2>4, <2>5, <2>6 DEF UntouchedIsServed
<1>10. GarbageOnlyIfTouched' /\ BodyFits'
  <2>1. touched' = touched /\ file' = file /\ load'.loc = load.loc
    BY <1>1 DEF LoadRecord
  <2>2. ~touched /\ ~file[load.loc].dir => out'.got = out'.length
    BY <1>7, <1>8
  <2>3. out'.got <= out'.length
    BY <1>5, <1>7
  <2>4. out'.length \in Nat /\ out'.got \in Nat
    BY <1>4, <1>5, <1>7
  <2> QED BY <2>1, <2>2, <2>3, <2>4 DEF GarbageOnlyIfTouched, BodyFits
<1>11. Placed' /\ StillThere' /\ StaleOnlyIfSameSecond'
  BY <1>3, <1>7 DEF Placed, StillThere, StaleOnlyIfSameSecond
\* What was read is what was looked at, or that is nowhere any longer.
<1>12. Traced(out.etag, out.version)'
  <2> SUFFICES ASSUME load.time \notin guessed
               PROVE  \E w \in 1..version : /\ <<load.time, w>> \in written
                                            /\ file[load.loc].version = w \/ \A l \in 1..Locations : file[l].version # w
    BY <1>1, <1>7 DEF Traced
  <2>1. /\ <<load.time, load.stated>> \in written
        /\ \A l \in 1..Locations : file[l].version = load.stated => l = load.loc
    BY <1>1 DEF FilesInv, Copies
  <2>2. load.stated \in 1..version
    BY <2>1 DEF FilesInv, Numbered
  <2>3. file[load.loc].version = load.stated \/ \A l \in 1..Locations : file[l].version # load.stated
    BY <2>1
  <2> QED BY <2>1, <2>2, <2>3
<1> QED BY <1>1, <1>3, <1>7, <1>9, <1>10, <1>11, <1>12, CallKeeps

LEMMA ReturnKeeps == ASSUME FilesInv, Return PROVE FilesInv'
<1>1. /\ UNCHANGED <<disk, guessed, out>> /\ UNCHANGED <<file, now, version, written, touched>>
      /\ load.pc = "done" /\ load' = Idle /\ out \in OutRecord
      /\ copy' = IF out.status = 200
                   THEN [etag |-> out.etag, version |-> out.version, length |-> out.length, got |-> out.got]
                   ELSE copy
  BY DEF Return, disk, FilesInv, TypeOK, OutRecord
<1>2. load' \in LoadRecord /\ load'.pc = "idle"
  <2>1. 0 \in Times /\ 0 \in Versions /\ 1 \in 1..(Locations + 1)
    BY FilesAssumption DEF Times, Versions
  <2> QED BY <1>1, <2>1 DEF Idle, LoadRecord
<1>3. copy' \in [etag : Times, version : Versions, length : 0..(LengthRange - 1), got : 0..MaxSize]
  BY <1>1 DEF FilesInv, TypeOK, OutRecord
<1>4. TypeOK'
  BY <1>1, <1>2, <1>3 DEF FilesInv, TypeOK, LoadRecord
<1>5. Copies'
  <2>1. copy'.etag # 0 => Traced(copy'.etag, copy'.version)
    BY <1>1 DEF FilesInv, Copies
  <2>2. copy'.etag # 0 => Traced(copy.etag, copy.version)'
    BY <1>1, <2>1 DEF Traced
  <2> QED BY <1>2, <2>2 DEF Copies
<1>6. Placed' /\ StillThere' /\ UntouchedIsServed' /\ GarbageOnlyIfTouched' /\ StaleOnlyIfSameSecond' /\ BodyFits'
  BY <1>1, <1>2 DEF FilesInv, Placed, StillThere, UntouchedIsServed, GarbageOnlyIfTouched, StaleOnlyIfSameSecond, BodyFits
<1>7. Numbered'
  BY <1>1, DiskStays DEF FilesInv
<1> QED BY <1>4, <1>5, <1>6, <1>7 DEF FilesInv

LEMMA FilesStep == FilesInv /\ [Next]_vars => FilesInv'
<1> SUFFICES ASSUME FilesInv, [Next]_vars PROVE FilesInv'
  OBVIOUS
<1>1. CASE UNCHANGED vars
  <2>1. UNCHANGED <<file, now, version, written, touched, guessed, load, out, copy>>
    BY <1>1 DEF vars, disk
  <2>2. (\A l : Exists(l)' <=> Exists(l)) /\ Numbered'
    BY <2>1, DiskStays DEF FilesInv
  <2>3. TypeOK' /\ Placed' /\ Copies'
    BY <2>1 DEF FilesInv, TypeOK, Placed, Copies, Traced
  <2>5. StillThere'
    BY <2>1, <2>2 DEF FilesInv, StillThere, Lengths, ContentLength
  <2>4. BodyFits' /\ UntouchedIsServed' /\ GarbageOnlyIfTouched' /\ StaleOnlyIfSameSecond'
    BY <2>1, <2>2 DEF FilesInv, BodyFits, UntouchedIsServed, GarbageOnlyIfTouched, StaleOnlyIfSameSecond
  <2> QED BY <2>2, <2>3, <2>4, <2>5 DEF FilesInv
<1>2. ASSUME NEW l \in 1..Locations, Delete(l) \/ MakeDirectory(l) \/ \E s \in 0..MaxSize : Write(l, s) PROVE FilesInv'
  BY <1>2, DeleteKeeps, MakeDirectoryKeeps, WriteKeeps
<1>3. CASE Tick
  BY <1>3, TickKeeps
<1>4. CASE \E marks \in NameMarks : Request(marks)
  BY <1>4, RequestKeeps
<1>5. CASE Server
  BY <1>5, FindKeeps, StatKeeps, SizeKeeps, ReadKeeps, ReturnKeeps DEF Server
<1> QED BY <1>1, <1>2, <1>3, <1>4, <1>5 DEF Next, Crashed

-----------------------------------------------------------------------------
(* Session ids. *)

NoHash == <<0, 0>>

HandlerRecord ==
  [pc : {"idle", "app", "tail", "count", "respond", "read"},
   browser : Clients \cup {None}, in : Ids!Id, out : Ids!Id, carried : BOOLEAN, use : {"in", "out"},
   hash : (0..(CharRange - 1)) \X (0..MaxTime), tail : Nat, got : SUBSET (Clients \X (1..MaxRequests))]

\* A handler works for one browser, and a browser has one handler.
Requests ==
  /\ \A t \in Threads : (h[t].browser = None <=> h[t].pc = "idle") /\ (h[t].pc = "idle" => h[t] = Ids!Idle)
  /\ \A t \in Threads : h[t].pc # "idle" => asked[h[t].browser] \in 1..MaxRequests
  /\ \A t, u \in Threads : t # u /\ h[t].pc # "idle" => h[t].browser # h[u].browser

\* What is no id is NoId.
Named ==
  /\ \A b \in Clients : jar[b].hash = NoHash => jar[b] = Ids!NoId
  /\ \A t \in Threads : (h[t].in.hash = NoHash => h[t].in = Ids!NoId) /\ (h[t].out.hash = NoHash => h[t].out = Ids!NoId)

\* A request with a cookie has it as the browser has it, until it is answered.
Carried ==
  \A t \in Threads :
    /\ h[t].pc # "idle" /\ h[t].carried =>
         /\ jar[h[t].browser] # Ids!NoId /\ h[t].pc \notin {"tail", "count"}
         /\ h[t].in = Ids!load(jar[h[t].browser]) /\ h[t].out = Ids!load(jar[h[t].browser])
    /\ h[t].pc # "idle" /\ ~h[t].carried => jar[h[t].browser] = Ids!NoId

\* A browser finds with its cookie what it stored.
Stored ==
  \A b \in Clients :
    /\ kept[b] \subseteq Ids!Data(Ids!FileName(Ids!load(jar[b])))
    /\ jar[b] = Ids!NoId => kept[b] = {}

\* Without restarts, and when no two handlers make ids at once, uniqueCount counts the ids.
Counted ==
  /\ \A i \in DOMAIN made : made[i].hash # NoHash
  /\ \A t \in Threads : Ids!Making(t) => h[t].hash # NoHash
  /\ ~overlapped => \A t, u \in Threads : Ids!Making(t) /\ Ids!Making(u) => t = u
  /\ ~overlapped /\ restarts = 0 =>
       /\ uniqueCount = Len(made)
       /\ \A i \in DOMAIN made : made[i].hash[1] = Ids!AsChar(i - 1)
       /\ \A t \in Threads : Ids!Making(t) => h[t].hash[1] = Ids!AsChar(uniqueCount)
       /\ \A t \in Threads : h[t].pc = "count" => h[t].tail = uniqueCount

\* A browser has to do with a hash: in its cookie, in its request, or in a file with its data.
Holds(b, x) ==
  \/ jar[b].hash = x
  \/ \E t \in Threads : h[t].browser = b /\ x \in {h[t].in.hash, h[t].out.hash}
  \/ \E f \in DOMAIN files : f.hash = x /\ \E n \in 1..MaxRequests : <<b, n>> \in files[f]

\* Every hash that a browser has to do with was made.
KnownHashes == \A b \in Clients : \A x : x # NoHash /\ Holds(b, x) => \E i \in DOMAIN made : made[i].hash = x

\* As long as hashes do not meet, every browser has its own.
Apart ==
  ~overlapped /\ restarts = 0 /\ Len(made) <= CharRange =>
    \A b, c \in Clients : \A x : x # NoHash /\ Holds(b, x) /\ Holds(c, x) => b = c

IdsInv ==
  /\ Ids!TypeOK /\ Requests /\ Named /\ Carried /\ Stored /\ Ids!SessionKept
  /\ Counted /\ KnownHashes /\ Apart /\ Ids!SessionsApart

LEMMA AsCharIs == \A n \in Nat : Ids!AsChar(n) \in 0..(CharRange - 1) /\ (n < CharRange => Ids!AsChar(n) = n)
  BY IdsConstants DEF Ids!IdsAssumption, Ids!AsChar

LEMMA NoIdIs ==
  /\ Ids!NoId \in Ids!Id /\ Ids!NoId.hash = NoHash /\ Ids!load(Ids!NoId) = Ids!NoId
  /\ \A id \in Ids!Id : id # Ids!NoId =>
       /\ Ids!load(id) \in Ids!Id /\ Ids!load(id) # Ids!NoId /\ Ids!load(id).hash = id.hash
       /\ Ids!load(Ids!load(id)) = Ids!load(id)
  /\ \A id \in Ids!Id : Ids!FileName(id).hash = id.hash
<1>1. CharRange \in Nat \ {0} /\ MaxTime \in Nat \ {0}
  BY IdsConstants DEF Ids!IdsAssumption
<1>2. Ids!NoId \in Ids!Id /\ Ids!NoId.hash = NoHash /\ Ids!load(Ids!NoId) = Ids!NoId
  BY <1>1 DEF Ids!NoId, Ids!Id, Ids!NoTail, NoHash, Ids!load
<1>3. ASSUME NEW id \in Ids!Id, id # Ids!NoId
      PROVE  /\ Ids!load(id) \in Ids!Id /\ Ids!load(id) # Ids!NoId /\ Ids!load(id).hash = id.hash
             /\ Ids!load(Ids!load(id)) = Ids!load(id)
  <2> DEFINE tail == IF id.tail \in LostTails THEN CharRange ELSE id.tail
  <2>1. Ids!load(id) = [id EXCEPT !.lower = TRUE, !.tail = tail]
    BY <1>3 DEF Ids!load, Ids!NoTail
  <2>6. tail \in 0..CharRange
    BY <1>1 DEF Ids!Id, Ids!NoTail
  <2> HIDE DEF tail
  <2>7. Ids!load(id) = [hash |-> id.hash, lower |-> TRUE, tail |-> tail] /\ id.hash \in (0..(CharRange - 1)) \X (0..MaxTime)
    BY <2>1 DEF Ids!Id
  <2>2. Ids!load(id) \in Ids!Id /\ Ids!load(id).lower = TRUE /\ Ids!load(id).hash = id.hash /\ Ids!load(id).tail = tail
    BY <2>6, <2>7 DEF Ids!Id, Ids!NoTail
  <2>3. Ids!load(id) # Ids!NoId
    BY <2>2 DEF Ids!NoId
  <2>4. Ids!load(Ids!load(id)) = [Ids!load(id) EXCEPT !.lower = TRUE, !.tail = IF Ids!load(id).tail \in LostTails THEN CharRange ELSE Ids!load(id).tail]
    BY <2>3 DEF Ids!load, Ids!NoTail
  <2>5. Ids!load(Ids!load(id)) = Ids!load(id)
    <3>1. (IF tail \in LostTails THEN CharRange ELSE tail) = tail
      BY DEF tail
    <3> QED BY <2>2, <2>4, <2>7, <3>1
  <2> QED BY <2>2, <2>3, <2>5
<1>4. \A id \in Ids!Id : Ids!FileName(id).hash = id.hash
  BY DEF Ids!FileName
<1> QED BY <1>2, <1>3, <1>4

LEMMA IdsInit == Ids!Init => IdsInv
<1> SUFFICES ASSUME Ids!Init PROVE IdsInv
  OBVIOUS
<1>1. CharRange \in Nat \ {0} /\ MaxTime \in Nat \ {0} /\ MaxRequests \in Nat /\ MaxRestarts \in Nat /\ None \notin Clients
  BY IdsConstants DEF Ids!IdsAssumption
<1>2. /\ uniqueCount = 0 /\ clock = 1 /\ DOMAIN files = {} /\ made = <<>> /\ overlapped = FALSE /\ restarts = 0
      /\ jar = [b \in Clients |-> Ids!NoId] /\ h = [t \in Threads |-> Ids!Idle]
      /\ asked = [b \in Clients |-> 0] /\ kept = [b \in Clients |-> {}]
  BY DEF Ids!Init
<1>3. Ids!Idle \in HandlerRecord
  BY <1>1, NoIdIs DEF Ids!Idle, HandlerRecord
<1>4. Ids!TypeOK
  <2>1. 1 \in 1..MaxTime /\ 0 \in Nat /\ <<>> \in Seq(Ids!Id) /\ 0 \in 0..MaxRestarts
    BY <1>1
  <2>2. h \in [Threads -> HandlerRecord] /\ jar \in [Clients -> Ids!Id]
    BY <1>2, <1>3, NoIdIs
  <2>3. asked \in [Clients -> 0..MaxRequests] /\ kept \in [Clients -> SUBSET (Clients \X (1..MaxRequests))]
    BY <1>1, <1>2
  <2> QED BY <1>2, <2>1, <2>2, <2>3 DEF Ids!TypeOK, HandlerRecord
<1>5. \A t \in Threads : /\ h[t].pc = "idle" /\ h[t].browser = None /\ h[t].in = Ids!NoId /\ h[t].out = Ids!NoId
                         /\ h[t].got = {} /\ h[t] = Ids!Idle
  BY <1>2 DEF Ids!Idle
<1>6. Requests /\ Named /\ Carried /\ Stored /\ Ids!SessionKept
  BY <1>2, <1>5 DEF Requests, Named, Carried, Stored, Ids!SessionKept
<1>7. Counted /\ Ids!SessionsApart
  BY <1>2, <1>5 DEF Counted, Ids!SessionsApart, Ids!Making
<1>8. \A b \in Clients : \A x : x # NoHash => ~Holds(b, x)
  BY <1>2, <1>5, NoIdIs DEF Holds
<1> QED BY <1>4, <1>6, <1>7, <1>8 DEF IdsInv, KnownHashes, Apart

\* Of a step of one handler that leaves the cookies and the stored data alone, what has to be
\* shown of the handler.
RequestsBy(r) == r.pc # "idle" /\ r.browser \in Clients /\ asked'[r.browser] \in 1..MaxRequests

NamedBy(r) == (r.in.hash = NoHash => r.in = Ids!NoId) /\ (r.out.hash = NoHash => r.out = Ids!NoId)

CarriedBy(r) ==
  /\ r.carried =>
       /\ jar[r.browser] # Ids!NoId /\ r.pc \notin {"tail", "count"}
       /\ r.in = Ids!load(jar[r.browser]) /\ r.out = Ids!load(jar[r.browser])
  /\ ~r.carried => jar[r.browser] = Ids!NoId

\* What a handler says of its own request.
LEMMA HandlerIs ==
  ASSUME IdsInv, NEW t \in Threads, h[t].pc # "idle"
  PROVE  /\ h[t] \in HandlerRecord /\ h[t].browser \in Clients /\ asked[h[t].browser] \in 1..MaxRequests
         /\ NamedBy(h[t]) /\ CarriedBy(h[t])
         /\ \A u \in Threads : u # t => h[u].browser # h[t].browser
<1>1. h[t] \in HandlerRecord
  BY DEF IdsInv, Ids!TypeOK, HandlerRecord
<1>2. h[t].browser \in Clients /\ asked[h[t].browser] \in 1..MaxRequests
  BY <1>1 DEF IdsInv, Requests, HandlerRecord
<1>3. NamedBy(h[t]) /\ CarriedBy(h[t])
  BY DEF IdsInv, Named, Carried, NamedBy, CarriedBy
<1>4. \A u \in Threads : u # t => h[u].browser # h[t].browser
  BY DEF IdsInv, Requests
<1> QED BY <1>1, <1>2, <1>3, <1>4

\* A handler goes on with its request.
LEMMA HandlerGoesOn ==
  ASSUME IdsInv, NEW t \in Threads, h[t].pc # "idle", NEW r \in HandlerRecord, h' = [h EXCEPT ![t] = r],
         r.pc # "idle", r.browser = h[t].browser, NamedBy(r), CarriedBy(r),
         UNCHANGED <<clock, jar, asked, restarts>>
  PROVE  /\ h'[t] = r /\ \A u \in Threads : u # t => h'[u] = h[u]
         /\ h' \in [Threads -> HandlerRecord] /\ Requests' /\ Named' /\ Carried'
<1>1. h \in [Threads -> HandlerRecord]
  BY DEF IdsInv, Ids!TypeOK, HandlerRecord
<1>2. h'[t] = r /\ \A u \in Threads : u # t => h'[u] = h[u]
  BY <1>1
<1>3. h' \in [Threads -> HandlerRecord]
  BY <1>1
<1>4. Requests'
  BY <1>2, HandlerIs, IdsConstants DEF IdsInv, Requests, Ids!IdsAssumption
<1>5. Named'
  BY <1>2 DEF IdsInv, Named, NamedBy
<1>6. Carried'
  BY <1>2 DEF IdsInv, Carried, CarriedBy
<1> QED BY <1>2, <1>3, <1>4, <1>5, <1>6

\* When no browser gets to do with a hash, they keep what they have.
LEMMA HoldingLess ==
  ASSUME IdsInv, \A b \in Clients : \A x : x # NoHash /\ Holds(b, x)' => Holds(b, x),
         made' = made \/ \E id : made' = Append(made, id), overlapped => overlapped', restarts' = restarts \/ restarts' # 0
  PROVE  KnownHashes' /\ Apart'
<1>1. made \in Seq(Ids!Id) /\ overlapped \in BOOLEAN /\ CharRange \in Nat /\ Len(made) \in Nat
  BY IdsConstants DEF IdsInv, Ids!TypeOK, Ids!IdsAssumption
<1>2. Len(made') >= Len(made) /\ \A i \in DOMAIN made : i \in DOMAIN made' /\ made'[i] = made[i]
  BY <1>1
<1>3. KnownHashes'
  BY <1>2 DEF IdsInv, KnownHashes
<1>4. Apart'
  <2> SUFFICES ASSUME ~overlapped', restarts' = 0, Len(made') <= CharRange, NEW b \in Clients, NEW c \in Clients,
                      NEW x, x # NoHash, Holds(b, x)', Holds(c, x)'
               PROVE  b = c
    BY DEF Apart
  <2>1. ~overlapped /\ restarts = 0
    OBVIOUS
  <2>2. Len(made) <= CharRange
    <3>1. Len(made') \in Nat
      BY <1>1
    <3> QED BY <1>1, <1>2, <3>1
  <2>3. Holds(b, x) /\ Holds(c, x)
    OBVIOUS
  <2> QED BY <2>1, <2>2, <2>3 DEF IdsInv, Apart
<1> QED BY <1>3, <1>4

\* Who makes an id came without one.
LEMMA MakerIs ==
  ASSUME IdsInv, NEW t \in Threads, Ids!Making(t) \/ (h[t].pc = "app" /\ Ids!NeedsId(t))
  PROVE  h[t].pc # "idle" /\ ~h[t].carried /\ jar[h[t].browser] = Ids!NoId
<1>1. h[t].pc # "idle"
  BY DEF Ids!Making
<1>2. h[t].browser \in Clients /\ CarriedBy(h[t]) /\ h[t].carried \in BOOLEAN
  BY <1>1, HandlerIs DEF HandlerRecord
<1>3. ~h[t].carried
  <2>1. CASE Ids!Making(t)
    BY <1>2, <2>1 DEF Ids!Making, CarriedBy
  <2>2. CASE h[t].pc = "app" /\ Ids!NeedsId(t)
    <3> SUFFICES ASSUME h[t].carried PROVE FALSE
      OBVIOUS
    <3>1. jar[h[t].browser] \in Ids!Id /\ jar[h[t].browser] # Ids!NoId
      BY <1>2 DEF IdsInv, Ids!TypeOK, CarriedBy
    <3>2. h[t].in # Ids!NoId /\ h[t].out # Ids!NoId
      BY <1>2, <3>1, NoIdIs DEF CarriedBy
    <3> QED BY <2>2, <3>2 DEF Ids!NeedsId, Ids!Used
  <2> QED BY <2>1, <2>2
<1> QED BY <1>1, <1>2, <1>3 DEF CarriedBy

LEMMA HashKeeps == ASSUME IdsInv, NEW t \in Threads, Ids!getUniqueId_Hash(t) PROVE IdsInv'
<1> DEFINE r == [h[t] EXCEPT !.pc = "tail", !.hash = <<Ids!AsChar(uniqueCount), clock>>]
<1>1. /\ h[t].pc = "app" /\ Ids!NeedsId(t) /\ h' = [h EXCEPT ![t] = r]
      /\ overlapped' = (overlapped \/ \E u \in Threads \ {t} : Ids!Making(u))
      /\ UNCHANGED <<uniqueCount, clock, files, jar, asked, made, restarts, kept>>
  BY DEF Ids!getUniqueId_Hash, IdsInv, Ids!TypeOK
<1>2. /\ h[t] \in HandlerRecord /\ NamedBy(h[t]) /\ ~h[t].carried /\ jar[h[t].browser] = Ids!NoId
      /\ clock \in 1..MaxTime /\ uniqueCount \in Nat /\ overlapped \in BOOLEAN
  BY <1>1, HandlerIs, MakerIs DEF IdsInv, Ids!TypeOK
<1>3. <<Ids!AsChar(uniqueCount), clock>> \in (0..(CharRange - 1)) \X (0..MaxTime)
  BY <1>2, AsCharIs, IdsConstants DEF Ids!IdsAssumption
<1>4. /\ r \in HandlerRecord /\ r.pc = "tail" /\ r.browser = h[t].browser /\ r.in = h[t].in /\ r.out = h[t].out
      /\ r.carried = h[t].carried /\ r.got = h[t].got /\ r.hash = <<Ids!AsChar(uniqueCount), clock>>
  BY <1>2, <1>3 DEF HandlerRecord
<1> HIDE DEF r
<1>5. NamedBy(r) /\ CarriedBy(r)
  BY <1>2, <1>4 DEF NamedBy, CarriedBy
<1>6. /\ h'[t] = r /\ \A u \in Threads : u # t => h'[u] = h[u]
      /\ h' \in [Threads -> HandlerRecord] /\ Requests' /\ Named' /\ Carried'
  BY <1>1, <1>4, <1>5, HandlerGoesOn
<1>7. Ids!TypeOK' /\ Stored' /\ Ids!SessionKept' /\ Ids!SessionsApart'
  <2>1. Ids!TypeOK'
    BY <1>1, <1>2, <1>6 DEF IdsInv, Ids!TypeOK, HandlerRecord
  <2>2. Stored'
    BY <1>1 DEF IdsInv, Stored, Ids!Data
  <2>3. Ids!SessionKept' /\ Ids!SessionsApart'
    BY <1>1, <1>4, <1>6 DEF IdsInv, Ids!SessionKept, Ids!SessionsApart
  <2> QED BY <2>1, <2>2, <2>3
<1>8. Counted'
  <2>1. \A u \in Threads : u # t => (Ids!Making(u)' <=> Ids!Making(u))
    BY <1>6 DEF Ids!Making
  <2>2. r.hash # NoHash /\ r.hash[1] = Ids!AsChar(uniqueCount)
    BY <1>2, <1>4 DEF NoHash
  <2>3. \A u \in Threads : Ids!Making(u)' => h'[u].hash # NoHash
    BY <1>6, <2>1, <2>2 DEF IdsInv, Counted
  <2>4. ~overlapped' => \A u, v \in Threads : Ids!Making(u)' /\ Ids!Making(v)' => u = v
    BY <1>1, <2>1
  <2>5. ~overlapped' => \A u \in Threads : Ids!Making(u)' => u = t
    BY <1>1, <2>1
  <2>6. \A u \in Threads : h'[u].pc = "count" => Ids!Making(u)'
    BY DEF Ids!Making
  <2>7. Ids!AsChar(uniqueCount)' = Ids!AsChar(uniqueCount) /\ \A i \in DOMAIN made : Ids!AsChar(i - 1)' = Ids!AsChar(i - 1)
    BY <1>1 DEF Ids!AsChar
  <2> QED BY <1>1, <1>4, <1>6, <2>2, <2>3, <2>4, <2>5, <2>6, <2>7 DEF IdsInv, Counted
<1>9. \A b \in Clients : \A x : x # NoHash /\ Holds(b, x)' => Holds(b, x)
  BY <1>1, <1>4, <1>6 DEF Holds
<1>10. KnownHashes' /\ Apart'
  BY <1>1, <1>9, HoldingLess
<1> QED BY <1>6, <1>7, <1>8, <1>10 DEF IdsInv

LEMMA TailKeeps == ASSUME IdsInv, NEW t \in Threads, Ids!getUniqueId_Tail(t) PROVE IdsInv'
<1> DEFINE r == [h[t] EXCEPT !.pc = "count", !.tail = uniqueCount]
<1>1. /\ h[t].pc = "tail" /\ Ids!Making(t) /\ h' = [h EXCEPT ![t] = r]
      /\ UNCHANGED <<uniqueCount, clock, files, jar, asked, made, overlapped, restarts, kept>>
  BY DEF Ids!getUniqueId_Tail, IdsInv, Ids!TypeOK, Ids!Making
<1>2. /\ h[t] \in HandlerRecord /\ NamedBy(h[t]) /\ ~h[t].carried /\ jar[h[t].browser] = Ids!NoId
      /\ uniqueCount \in Nat /\ overlapped \in BOOLEAN
  BY <1>1, HandlerIs, MakerIs DEF IdsInv, Ids!TypeOK
<1>4. /\ r \in HandlerRecord /\ r.pc = "count" /\ r.browser = h[t].browser /\ r.in = h[t].in /\ r.out = h[t].out
      /\ r.carried = h[t].carried /\ r.got = h[t].got /\ r.hash = h[t].hash /\ r.tail = uniqueCount
  BY <1>2 DEF HandlerRecord
<1> HIDE DEF r
<1>5. NamedBy(r) /\ CarriedBy(r)
  BY <1>2, <1>4 DEF NamedBy, CarriedBy
<1>6. /\ h'[t] = r /\ \A u \in Threads : u # t => h'[u] = h[u]
      /\ h' \in [Threads -> HandlerRecord] /\ Requests' /\ Named' /\ Carried'
  BY <1>1, <1>4, <1>5, HandlerGoesOn
<1>7. Ids!TypeOK' /\ Stored' /\ Ids!SessionKept' /\ Ids!SessionsApart'
  <2>1. Ids!TypeOK'
    BY <1>1, <1>2, <1>6 DEF IdsInv, Ids!TypeOK, HandlerRecord
  <2>2. Stored'
    BY <1>1 DEF IdsInv, Stored, Ids!Data
  <2>3. Ids!SessionKept' /\ Ids!SessionsApart'
    BY <1>1, <1>4, <1>6 DEF IdsInv, Ids!SessionKept, Ids!SessionsApart
  <2> QED BY <2>1, <2>2, <2>3
<1>8. Counted'
  <2>1. \A u \in Threads : Ids!Making(u)' <=> Ids!Making(u)
    BY <1>1, <1>4, <1>6 DEF Ids!Making
  <2>2. \A u \in Threads :
          /\ h'[u].hash = h[u].hash
          /\ h'[u].pc = "count" => (h[u].pc = "count" /\ h'[u].tail = h[u].tail) \/ h'[u].tail = uniqueCount
    BY <1>4, <1>6
  <2>7. Ids!AsChar(uniqueCount)' = Ids!AsChar(uniqueCount) /\ \A i \in DOMAIN made : Ids!AsChar(i - 1)' = Ids!AsChar(i - 1)
    BY <1>1 DEF Ids!AsChar
  <2> QED BY <1>1, <2>1, <2>2, <2>7 DEF IdsInv, Counted
<1>9. \A b \in Clients : \A x : x # NoHash /\ Holds(b, x)' => Holds(b, x)
  BY <1>1, <1>4, <1>6 DEF Holds
<1>10. KnownHashes' /\ Apart'
  BY <1>1, <1>9, HoldingLess
<1> QED BY <1>6, <1>7, <1>8, <1>10 DEF IdsInv

\* The new id: nobody has to do with its hash yet.
LEMMA CountKeeps == ASSUME IdsInv, NEW t \in Threads, Ids!getUniqueId_Count(t) PROVE IdsInv'
<1> DEFINE id == [hash |-> h[t].hash, lower |-> FALSE, tail |-> Ids!AsChar(h[t].tail)]
           r == [h[t] EXCEPT !.pc = "app", !.in = IF h[t].use = "in" THEN id ELSE h[t].in,
                             !.out = IF h[t].use = "out" THEN id ELSE h[t].out]
<1>1. /\ h[t].pc = "count" /\ Ids!Making(t) /\ h' = [h EXCEPT ![t] = r] /\ made' = Append(made, id)
      /\ uniqueCount' = h[t].tail + 1
      /\ UNCHANGED <<clock, files, jar, asked, overlapped, restarts, kept>>
  BY DEF Ids!getUniqueId_Count, IdsInv, Ids!TypeOK, Ids!Making, Ids!Counted
<1>2. /\ h[t] \in HandlerRecord /\ NamedBy(h[t]) /\ ~h[t].carried /\ jar[h[t].browser] = Ids!NoId
      /\ h[t].hash # NoHash /\ overlapped \in BOOLEAN /\ made \in Seq(Ids!Id) /\ h[t].browser \in Clients
      /\ \A u \in Threads : u # t => h[u].browser # h[t].browser
  BY <1>1, HandlerIs, MakerIs DEF IdsInv, Ids!TypeOK, Counted
<1>3. id \in Ids!Id /\ id.hash = h[t].hash /\ h[t].tail \in Nat
  <2>1. Ids!AsChar(h[t].tail) \in 0..(CharRange - 1) /\ h[t].tail \in Nat /\ CharRange \in Nat
    BY <1>2, AsCharIs, IdsConstants DEF HandlerRecord, Ids!IdsAssumption
  <2> QED BY <1>2, <2>1 DEF Ids!Id, Ids!NoTail, HandlerRecord
<1> HIDE DEF id
<1>4. /\ r \in HandlerRecord /\ r.pc = "app" /\ r.browser = h[t].browser /\ r.in \in {id, h[t].in} /\ r.out \in {id, h[t].out}
      /\ r.carried = h[t].carried /\ r.got = h[t].got
  BY <1>2, <1>3 DEF HandlerRecord
<1> HIDE DEF r
<1>5. NamedBy(r) /\ CarriedBy(r)
  BY <1>2, <1>3, <1>4 DEF NamedBy, CarriedBy
<1>6. /\ h'[t] = r /\ \A u \in Threads : u # t => h'[u] = h[u]
      /\ h' \in [Threads -> HandlerRecord] /\ Requests' /\ Named' /\ Carried'
  BY <1>1, <1>4, <1>5, HandlerGoesOn
<1>7. /\ Len(made') = Len(made) + 1 /\ Len(made) \in Nat /\ DOMAIN made = 1..Len(made) /\ DOMAIN made' = 1..(Len(made) + 1)
      /\ \A i \in 1..Len(made) : made'[i] = made[i]
      /\ made'[Len(made) + 1] = id /\ made' \in Seq(Ids!Id)
  BY <1>1, <1>2, <1>3
<1>8. Ids!TypeOK' /\ Stored' /\ Ids!SessionKept' /\ Ids!SessionsApart'
  <2>1. Ids!TypeOK'
    <3>1. uniqueCount' \in Nat
      BY <1>1, <1>3
    <3>2. /\ clock' \in 1..MaxTime
          /\ \A f \in DOMAIN files' : files'[f] \subseteq Clients \X (1..MaxRequests)
          /\ jar' \in [Clients -> Ids!Id] /\ asked' \in [Clients -> 0..MaxRequests]
          /\ overlapped' \in BOOLEAN /\ restarts' \in 0..MaxRestarts
          /\ kept' \in [Clients -> SUBSET (Clients \X (1..MaxRequests))]
      BY <1>1 DEF IdsInv, Ids!TypeOK
    <3> QED BY <1>6, <1>7, <3>1, <3>2 DEF Ids!TypeOK, HandlerRecord
  <2>2. Stored'
    BY <1>1 DEF IdsInv, Stored, Ids!Data
  <2>3. Ids!SessionKept'
    BY <1>1, <1>4, <1>6 DEF IdsInv, Ids!SessionKept
  <2>4. Len(made') <= CharRange => Len(made) <= CharRange
    BY <1>7, IdsConstants DEF Ids!IdsAssumption
  <2>5. Ids!SessionsApart'
    BY <1>1, <1>4, <1>6, <2>4 DEF IdsInv, Ids!SessionsApart
  <2> QED BY <2>1, <2>2, <2>3, <2>5
<1>9. \A n : Ids!AsChar(n)' = Ids!AsChar(n)
  BY DEF Ids!AsChar
<1>10. Counted'
  <2>1. \A u \in Threads : Ids!Making(u)' => u # t /\ Ids!Making(u) /\ h'[u] = h[u]
    BY <1>4, <1>6 DEF Ids!Making
  <2>2. \A i \in DOMAIN made' : made'[i].hash # NoHash
    BY <1>2, <1>3, <1>7 DEF IdsInv, Counted
  <2>3. ~overlapped => \A u \in Threads : ~Ids!Making(u)'
    BY <1>1, <2>1 DEF IdsInv, Counted
  <2>4. \A u \in Threads : h'[u].pc = "count" => Ids!Making(u)'
    BY DEF Ids!Making
  <2>5. ~overlapped /\ restarts = 0 =>
          /\ uniqueCount' = Len(made')
          /\ \A i \in DOMAIN made' : made'[i].hash[1] = Ids!AsChar(i - 1)
    <3> SUFFICES ASSUME ~overlapped, restarts = 0
                 PROVE  uniqueCount' = Len(made') /\ \A i \in DOMAIN made' : made'[i].hash[1] = Ids!AsChar(i - 1)
      OBVIOUS
    <3>1. /\ uniqueCount = Len(made) /\ h[t].tail = uniqueCount /\ h[t].hash[1] = Ids!AsChar(uniqueCount)
          /\ \A i \in DOMAIN made : made[i].hash[1] = Ids!AsChar(i - 1)
      BY <1>1 DEF IdsInv, Counted
    <3>2. ASSUME NEW i \in DOMAIN made' PROVE made'[i].hash[1] = Ids!AsChar(i - 1)
      <4>1. CASE i \in 1..Len(made)
        BY <1>7, <3>1, <4>1
      <4>2. CASE i = Len(made) + 1
        <5>1. i - 1 = Len(made)
          BY <1>7, <4>2
        <5> QED BY <1>3, <1>7, <3>1, <4>2, <5>1
      <4> QED BY <1>7, <4>1, <4>2
    <3> QED BY <1>1, <1>7, <3>1, <3>2
  <2> QED BY <1>1, <1>9, <2>1, <2>2, <2>3, <2>4, <2>5 DEF IdsInv, Counted
<1>11. \A b \in Clients : \A x : x # NoHash /\ Holds(b, x)' => Holds(b, x) \/ (b = h[t].browser /\ x = id.hash)
  BY <1>1, <1>4, <1>6 DEF Holds
<1>12. KnownHashes'
  <2> SUFFICES ASSUME NEW b \in Clients, NEW x, x # NoHash, Holds(b, x)' PROVE \E i \in DOMAIN made' : made'[i].hash = x
    BY DEF KnownHashes
  <2>1. CASE x = id.hash
    BY <1>7, <2>1
  <2>2. CASE x # id.hash
    <3>1. PICK i \in DOMAIN made : made[i].hash = x
      BY <1>11, <2>2 DEF IdsInv, KnownHashes
    <3> QED BY <1>7, <3>1
  <2> QED BY <2>1, <2>2
<1>13. Apart'
  <2> SUFFICES ASSUME ~overlapped', restarts' = 0, Len(made') <= CharRange, NEW b \in Clients, NEW c \in Clients,
                      NEW x, x # NoHash, Holds(b, x)', Holds(c, x)'
               PROVE  b = c
    BY DEF Apart
  <2>1. ~overlapped /\ restarts = 0 /\ Len(made) <= CharRange /\ Len(made) < CharRange
    BY <1>1, <1>7, IdsConstants DEF Ids!IdsAssumption
  <2>2. /\ h[t].hash[1] = Ids!AsChar(Len(made))
        /\ \A i \in DOMAIN made : made[i].hash[1] = Ids!AsChar(i - 1)
    BY <1>1, <2>1 DEF IdsInv, Counted
  <2>3. h[t].hash[1] = Len(made)
    BY <1>7, <2>1, <2>2, AsCharIs
  <2>4. ASSUME NEW i \in DOMAIN made PROVE made[i].hash # id.hash
    <3>1. i - 1 \in Nat /\ i - 1 < CharRange /\ i - 1 # Len(made)
      BY <1>7, <2>1, IdsConstants DEF Ids!IdsAssumption
    <3>2. made[i].hash[1] = i - 1
      BY <2>2, <3>1, AsCharIs
    <3> QED BY <1>3, <2>3, <3>1, <3>2
  <2>5. \A a \in Clients : ~Holds(a, id.hash)
    BY <1>2, <1>3, <2>4 DEF IdsInv, KnownHashes
  <2> QED BY <1>11, <2>1, <2>5 DEF IdsInv, Apart
<1> QED BY <1>6, <1>8, <1>10, <1>12, <1>13 DEF IdsInv

\* Nothing of the making of ids changes.
LEMMA CountedStays ==
  ASSUME IdsInv, UNCHANGED <<uniqueCount, made, overlapped, restarts>>,
         \A u \in Threads : Ids!Making(u)' => Ids!Making(u) /\ h'[u] = h[u]
  PROVE  Counted'
<1>1. \A n : Ids!AsChar(n)' = Ids!AsChar(n)
  BY DEF Ids!AsChar
<1>2. \A u \in Threads : h'[u].pc = "count" => Ids!Making(u)'
  BY DEF Ids!Making
<1> QED BY <1>1, <1>2 DEF IdsInv, Counted

LEMMA SetKeeps == ASSUME IdsInv, NEW t \in Threads, Ids!setSessionData(t) PROVE IdsInv'
<1> DEFINE r == [h[t] EXCEPT !.pc = "respond"]
           b == h[t].browser
           item == <<b, asked[b]>>
           f == Ids!FileName(Ids!Used(t))
<1>1. /\ h[t].pc = "app" /\ ~Ids!NeedsId(t) /\ h' = [h EXCEPT ![t] = r]
      /\ files' = [g \in DOMAIN files \cup {f} |-> Ids!Data(g) \cup (IF g = f THEN {item} ELSE {})]
      /\ kept' = IF h[t].carried THEN [kept EXCEPT ![b] = kept[b] \cup {item}] ELSE kept
      /\ UNCHANGED <<uniqueCount, clock, jar, asked, made, overlapped, restarts>>
  BY DEF Ids!setSessionData, IdsInv, Ids!TypeOK
<1>2. /\ h[t] \in HandlerRecord /\ NamedBy(h[t]) /\ CarriedBy(h[t]) /\ b \in Clients /\ asked[b] \in 1..MaxRequests
      /\ \A u \in Threads : u # t => h[u].browser # b
  BY <1>1, HandlerIs
<1>3. Ids!Used(t) \in {h[t].in, h[t].out} /\ f.hash \in {h[t].in.hash, h[t].out.hash}
  <2>1. Ids!Used(t) \in {h[t].in, h[t].out} /\ h[t].in \in Ids!Id /\ h[t].out \in Ids!Id
    BY <1>2 DEF Ids!Used, HandlerRecord
  <2> QED BY <2>1, NoIdIs
<1>4. h[t].carried => f = Ids!FileName(Ids!load(jar[b])) /\ jar[b] # Ids!NoId
  BY <1>2, <1>3 DEF CarriedBy
<1>5. item \in Clients \X (1..MaxRequests)
  BY <1>2
<1> HIDE DEF item, f
<1>6. /\ r \in HandlerRecord /\ r.pc = "respond" /\ r.browser = b /\ r.in = h[t].in /\ r.out = h[t].out
      /\ r.carried = h[t].carried /\ r.got = h[t].got
  BY <1>2 DEF HandlerRecord
<1> HIDE DEF r
<1>7. NamedBy(r) /\ CarriedBy(r)
  BY <1>2, <1>6 DEF NamedBy, CarriedBy
<1>8. /\ h'[t] = r /\ \A u \in Threads : u # t => h'[u] = h[u]
      /\ h' \in [Threads -> HandlerRecord] /\ Requests' /\ Named' /\ Carried'
  BY <1>1, <1>6, <1>7, HandlerGoesOn
<1>9. /\ DOMAIN files' = DOMAIN files \cup {f}
      /\ \A g \in DOMAIN files' : files'[g] = Ids!Data(g) \cup (IF g = f THEN {item} ELSE {})
      /\ \A g : Ids!Data(g) \subseteq Ids!Data(g)' /\ (g = f => item \in Ids!Data(g)')
  <2>1. /\ DOMAIN files' = DOMAIN files \cup {f}
        /\ \A g \in DOMAIN files' : files'[g] = Ids!Data(g) \cup (IF g = f THEN {item} ELSE {})
    BY <1>1
  <2>2. \A g : Ids!Data(g)' = IF g \in DOMAIN files' THEN files'[g] ELSE {}
    BY DEF Ids!Data
  <2>3. \A g : g \notin DOMAIN files => Ids!Data(g) = {}
    BY DEF Ids!Data
  <2>4. ASSUME NEW g PROVE Ids!Data(g) \subseteq Ids!Data(g)'
    <3>1. CASE g \in DOMAIN files'
      BY <2>1, <2>2, <3>1
    <3>2. CASE g \notin DOMAIN files'
      BY <2>1, <2>3, <3>2
    <3> QED BY <3>1, <3>2
  <2>5. ASSUME NEW g, g = f PROVE item \in Ids!Data(g)'
    BY <2>1, <2>2, <2>5
  <2> QED BY <2>1, <2>4, <2>5
<1>10. /\ kept' \in [Clients -> SUBSET (Clients \X (1..MaxRequests))]
       /\ \A c \in Clients : c # b => kept'[c] = kept[c]
       /\ kept'[b] = IF h[t].carried THEN kept[b] \cup {item} ELSE kept[b]
  <2>1. kept \in [Clients -> SUBSET (Clients \X (1..MaxRequests))] /\ b \in Clients
    BY <1>1, <1>2 DEF IdsInv, Ids!TypeOK
  <2>2. (IF h[t].carried THEN kept[b] \cup {item} ELSE kept[b]) \in SUBSET (Clients \X (1..MaxRequests))
    BY <1>5, <2>1
  <2>3. kept' = [kept EXCEPT ![b] = IF h[t].carried THEN kept[b] \cup {item} ELSE kept[b]]
    BY <1>1, <2>1
  <2> QED BY <2>1, <2>2, <2>3
<1>11. Ids!TypeOK'
  <2>1. \A g \in DOMAIN files' : files'[g] \subseteq Clients \X (1..MaxRequests)
    BY <1>5, <1>9 DEF IdsInv, Ids!TypeOK, Ids!Data
  <2> QED BY <1>1, <1>8, <1>10, <2>1 DEF IdsInv, Ids!TypeOK, HandlerRecord
<1>12. Stored'
  <2> SUFFICES ASSUME NEW c \in Clients
               PROVE  /\ kept'[c] \subseteq Ids!Data(Ids!FileName(Ids!load(jar[c])))'
                      /\ jar[c] = Ids!NoId => kept'[c] = {}
    BY <1>1 DEF Stored, Ids!FileName, Ids!load
  <2>1. kept[c] \subseteq Ids!Data(Ids!FileName(Ids!load(jar[c]))) /\ (jar[c] = Ids!NoId => kept[c] = {})
    BY DEF IdsInv, Stored
  <2>2. PICK g : g = Ids!FileName(Ids!load(jar[c]))
    OBVIOUS
  <2>3. g = Ids!FileName(Ids!load(jar[c]))'
    BY <1>1, <2>2 DEF Ids!FileName, Ids!load
  <2>4. kept[c] \subseteq Ids!Data(g) /\ Ids!Data(g)' = Ids!Data(Ids!FileName(Ids!load(jar[c])))'
    BY <2>1, <2>2, <2>3 DEF Ids!Data
  <2>5. CASE c = b /\ h[t].carried
    <3>1. g = f /\ jar[c] # Ids!NoId
      BY <1>4, <2>2, <2>5
    <3>2. kept[c] \subseteq Ids!Data(g)' /\ item \in Ids!Data(g)'
      BY <1>9, <2>4, <3>1
    <3>3. kept'[c] = kept[c] \cup {item}
      BY <1>10, <2>5
    <3> QED BY <2>4, <3>1, <3>2, <3>3
  <2>6. CASE ~(c = b /\ h[t].carried)
    <3>1. kept'[c] = kept[c]
      BY <1>10, <2>6
    <3> QED BY <1>9, <2>1, <2>4, <3>1
  <2> QED BY <2>5, <2>6
<1>13. Ids!SessionKept'
  <2> SUFFICES ASSUME NEW u \in Threads, h'[u].pc = "read", h'[u].carried PROVE kept'[h'[u].browser] \subseteq h'[u].got
    BY DEF Ids!SessionKept
  <2>1. u # t /\ h'[u] = h[u]
    BY <1>6, <1>8
  <2>2. h[u].browser \in Clients /\ h[u].browser # b
    BY <1>2, <2>1, HandlerIs
  <2> QED BY <1>10, <2>1, <2>2 DEF IdsInv, Ids!SessionKept
<1>14. Ids!SessionsApart'
  BY <1>1, <1>6, <1>8 DEF IdsInv, Ids!SessionsApart
<1>15. Counted'
  <2>1. \A u \in Threads : Ids!Making(u)' => Ids!Making(u) /\ h'[u] = h[u]
    BY <1>6, <1>8 DEF Ids!Making
  <2> QED BY <1>1, <2>1, CountedStays
<1>16. \A c \in Clients : \A x : x # NoHash /\ Holds(c, x)' => Holds(c, x)
  <2> SUFFICES ASSUME NEW c \in Clients, NEW x, Holds(c, x)' PROVE Holds(c, x)
    OBVIOUS
  <2>1. CASE jar'[c].hash = x
    BY <1>1, <2>1 DEF Holds
  <2>2. CASE \E u \in Threads : h'[u].browser = c /\ x \in {h'[u].in.hash, h'[u].out.hash}
    BY <1>6, <1>8, <2>2 DEF Holds
  <2>3. CASE \E g \in DOMAIN files' : g.hash = x /\ \E n \in 1..MaxRequests : <<c, n>> \in files'[g]
    <3>1. PICK g \in DOMAIN files' : g.hash = x /\ \E n \in 1..MaxRequests : <<c, n>> \in files'[g]
      BY <2>3
    <3>2. PICK n \in 1..MaxRequests : <<c, n>> \in files'[g]
      BY <3>1
    <3>3. CASE g = f /\ <<c, n>> = item
      <4>1. c = b
        BY <3>3 DEF item
      <4> QED BY <1>3, <3>1, <3>3, <4>1 DEF Holds
    <3>4. CASE ~(g = f /\ <<c, n>> = item)
      <4>1. <<c, n>> \in Ids!Data(g)
        BY <1>9, <3>2, <3>4
      <4>2. g \in DOMAIN files /\ <<c, n>> \in files[g]
        BY <4>1 DEF Ids!Data
      <4> QED BY <3>1, <4>2 DEF Holds
    <3> QED BY <3>3, <3>4
  <2> QED BY <2>1, <2>2, <2>3 DEF Holds
<1>17. KnownHashes' /\ Apart'
  BY <1>1, <1>16, HoldingLess
<1> QED BY <1>8, <1>11, <1>12, <1>13, <1>14, <1>15, <1>17 DEF IdsInv

LEMMA GetKeeps == ASSUME IdsInv, NEW t \in Threads, Ids!getSessionData(t) PROVE IdsInv'
<1> DEFINE f == Ids!FileName(Ids!Used(t))
           r == [h[t] EXCEPT !.pc = "read", !.got = Ids!Data(f)]
           b == h[t].browser
<1>1. /\ h[t].pc = "app" /\ ~Ids!NeedsId(t) /\ h' = [h EXCEPT ![t] = r]
      /\ UNCHANGED <<uniqueCount, clock, files, jar, asked, made, overlapped, restarts, kept>>
  BY DEF Ids!getSessionData, IdsInv, Ids!TypeOK
<1>2. /\ h[t] \in HandlerRecord /\ NamedBy(h[t]) /\ CarriedBy(h[t]) /\ b \in Clients
  BY <1>1, HandlerIs
<1>3. /\ Ids!Used(t) \in {h[t].in, h[t].out} /\ f.hash \in {h[t].in.hash, h[t].out.hash}
      /\ f.hash # NoHash
  <2>1. Ids!Used(t) \in {h[t].in, h[t].out} /\ h[t].in \in Ids!Id /\ h[t].out \in Ids!Id /\ Ids!Used(t) # Ids!NoId
    BY <1>1, <1>2 DEF Ids!Used, Ids!NeedsId, HandlerRecord
  <2>2. Ids!Used(t).hash # NoHash
    BY <1>2, <2>1 DEF NamedBy
  <2> QED BY <2>1, <2>2, NoIdIs
<1>4. h[t].carried => f = Ids!FileName(Ids!load(jar[b]))
  BY <1>2, <1>3 DEF CarriedBy
<1>5. Ids!Data(f) \subseteq Clients \X (1..MaxRequests)
  BY DEF IdsInv, Ids!TypeOK, Ids!Data
<1> HIDE DEF f
<1>6. /\ r \in HandlerRecord /\ r.pc = "read" /\ r.browser = b /\ r.in = h[t].in /\ r.out = h[t].out
      /\ r.carried = h[t].carried /\ r.got = Ids!Data(f)
  BY <1>2, <1>5 DEF HandlerRecord
<1> HIDE DEF r
<1>7. NamedBy(r) /\ CarriedBy(r)
  BY <1>2, <1>6 DEF NamedBy, CarriedBy
<1>8. /\ h'[t] = r /\ \A u \in Threads : u # t => h'[u] = h[u]
      /\ h' \in [Threads -> HandlerRecord] /\ Requests' /\ Named' /\ Carried'
  BY <1>1, <1>6, <1>7, HandlerGoesOn
<1>9. Ids!TypeOK' /\ Stored'
  BY <1>1, <1>8 DEF IdsInv, Ids!TypeOK, HandlerRecord, Stored, Ids!Data
<1>10. Ids!SessionKept'
  <2>1. r.carried => kept[b] \subseteq r.got
    BY <1>2, <1>4, <1>6 DEF IdsInv, Stored
  <2> QED BY <1>1, <1>6, <1>8, <2>1 DEF IdsInv, Ids!SessionKept
<1>11. Ids!SessionsApart'
  <2> SUFFICES ASSUME ~overlapped, restarts = 0, Len(made) <= CharRange PROVE r.got \subseteq {b} \X (1..MaxRequests)
    BY <1>1, <1>6, <1>8 DEF IdsInv, Ids!SessionsApart
  <2> SUFFICES ASSUME NEW d \in Ids!Data(f) PROVE d \in {b} \X (1..MaxRequests)
    BY <1>6
  <2>1. PICK c \in Clients, n \in 1..MaxRequests : d = <<c, n>>
    BY <1>5
  <2>2. f \in DOMAIN files /\ <<c, n>> \in files[f]
    BY <2>1 DEF Ids!Data
  <2>3. Holds(c, f.hash)
    BY <2>2 DEF Holds
  <2>4. Holds(b, f.hash)
    BY <1>3 DEF Holds
  <2>5. c = b
    BY <1>2, <1>3, <2>3, <2>4 DEF IdsInv, Apart
  <2> QED BY <2>1, <2>5
<1>12. Counted'
  <2>1. \A u \in Threads : Ids!Making(u)' => Ids!Making(u) /\ h'[u] = h[u]
    BY <1>6, <1>8 DEF Ids!Making
  <2> QED BY <1>1, <2>1, CountedStays
<1>13. \A c \in Clients : \A x : x # NoHash /\ Holds(c, x)' => Holds(c, x)
  BY <1>1, <1>6, <1>8 DEF Holds
<1>14. KnownHashes' /\ Apart'
  BY <1>1, <1>13, HoldingLess
<1> QED BY <1>8, <1>9, <1>10, <1>11, <1>12, <1>14 DEF IdsInv

LEMMA IdRequestKeeps == ASSUME IdsInv, NEW t \in Threads, NEW b \in Clients, Ids!Request(t, b) PROVE IdsInv'
<1>1. /\ h[t].pc = "idle" /\ Ids!Free(b) /\ asked[b] < MaxRequests
      /\ asked' = [asked EXCEPT ![b] = asked[b] + 1]
      /\ UNCHANGED <<uniqueCount, clock, files, jar, made, overlapped, restarts, kept>>
  BY DEF Ids!Request, IdsInv, Ids!TypeOK
<1>2. PICK use \in {"in", "out"} :
        h' = [h EXCEPT ![t] = [Ids!Idle EXCEPT !.pc = "app", !.browser = b, !.in = Ids!load(jar[b]),
                                               !.out = Ids!load(jar[b]), !.carried = jar[b] # Ids!NoId, !.use = use]]
  BY DEF Ids!Request
<1> DEFINE id == Ids!load(jar[b])
           r == [Ids!Idle EXCEPT !.pc = "app", !.browser = b, !.in = id, !.out = id,
                                 !.carried = jar[b] # Ids!NoId, !.use = use]
<1>3. h' = [h EXCEPT ![t] = r]
  BY <1>2
<1>4. /\ jar[b] \in Ids!Id /\ id \in Ids!Id /\ (jar[b] = Ids!NoId => id = Ids!NoId) /\ id.hash = jar[b].hash
      /\ (id.hash = NoHash => id = Ids!NoId)
  BY NoIdIs DEF IdsInv, Ids!TypeOK, Named
<1> HIDE DEF id
<1>5. CharRange \in Nat \ {0} /\ MaxTime \in Nat \ {0} /\ MaxRequests \in Nat /\ None \notin Clients
  BY IdsConstants DEF Ids!IdsAssumption
<1>6. /\ r \in HandlerRecord /\ r.pc = "app" /\ r.browser = b /\ r.in = id /\ r.out = id
      /\ r.carried = (jar[b] # Ids!NoId) /\ r.got = {}
  <2>1. Ids!Idle \in HandlerRecord /\ Ids!Idle.got = {}
    BY <1>5, NoIdIs DEF Ids!Idle, HandlerRecord
  <2> QED BY <1>4, <2>1 DEF HandlerRecord
<1> HIDE DEF r
<1>7. h \in [Threads -> HandlerRecord] /\ asked \in [Clients -> 0..MaxRequests]
  BY DEF IdsInv, Ids!TypeOK, HandlerRecord
<1>8. /\ h'[t] = r /\ h' \in [Threads -> HandlerRecord]
      /\ \A u \in Threads : u # t => h'[u] = h[u] /\ h'[u].browser # b
  BY <1>1, <1>3, <1>6, <1>7 DEF Ids!Free
<1>9. /\ asked' \in [Clients -> 0..MaxRequests] /\ asked'[b] \in 1..MaxRequests
      /\ \A c \in Clients : c # b => asked'[c] = asked[c]
  BY <1>1, <1>5, <1>7
<1>10. Requests'
  <2>1. \A u \in Threads : (h'[u].browser = None <=> h'[u].pc = "idle") /\ (h'[u].pc = "idle" => h'[u] = Ids!Idle)
    BY <1>5, <1>6, <1>8 DEF IdsInv, Requests
  <2>2. ASSUME NEW u \in Threads, h'[u].pc # "idle" PROVE asked'[h'[u].browser] \in 1..MaxRequests
    <3>1. CASE u = t
      BY <1>6, <1>8, <1>9, <3>1
    <3>2. CASE u # t
      <4>1. h[u].pc # "idle" /\ h[u].browser # b /\ h'[u] = h[u]
        BY <1>8, <2>2, <3>2
      <4>2. h[u].browser \in Clients /\ asked[h[u].browser] \in 1..MaxRequests
        BY <4>1, HandlerIs
      <4> QED BY <1>9, <4>1, <4>2
    <3> QED BY <3>1, <3>2
  <2>3. ASSUME NEW u \in Threads, NEW v \in Threads, u # v, h'[u].pc # "idle" PROVE h'[u].browser # h'[v].browser
    BY <1>6, <1>8, <2>3 DEF IdsInv, Requests
  <2> QED BY <2>1, <2>2, <2>3 DEF Requests, Ids!Idle, Ids!NoId, Ids!NoTail
<1>11. Named'
  BY <1>1, <1>4, <1>6, <1>8 DEF IdsInv, Named
<1>12. Carried'
  <2>1. \A c \in Clients : Ids!load(jar[c])' = Ids!load(jar[c])
    BY <1>1 DEF Ids!load
  <2>2. CarriedBy(r)
    BY <1>6 DEF CarriedBy, id
  <2> QED BY <1>1, <1>6, <1>8, <2>1, <2>2 DEF IdsInv, Carried, CarriedBy
<1>13. Ids!TypeOK' /\ Stored' /\ Ids!SessionKept' /\ Ids!SessionsApart'
  <2>1. Ids!TypeOK'
    BY <1>1, <1>8, <1>9 DEF IdsInv, Ids!TypeOK, HandlerRecord
  <2>2. Stored'
    BY <1>1 DEF IdsInv, Stored, Ids!Data
  <2>3. Ids!SessionKept' /\ Ids!SessionsApart'
    BY <1>1, <1>6, <1>8 DEF IdsInv, Ids!SessionKept, Ids!SessionsApart
  <2> QED BY <2>1, <2>2, <2>3
<1>14. Counted'
  <2>1. \A u \in Threads : Ids!Making(u)' => Ids!Making(u) /\ h'[u] = h[u]
    BY <1>6, <1>8 DEF Ids!Making
  <2> QED BY <1>1, <2>1, CountedStays
<1>15. \A c \in Clients : \A x : x # NoHash /\ Holds(c, x)' => Holds(c, x)
  BY <1>1, <1>4, <1>6, <1>8 DEF Holds
<1>16. KnownHashes' /\ Apart'
  BY <1>1, <1>15, HoldingLess
<1> QED BY <1>10, <1>11, <1>12, <1>13, <1>14, <1>16 DEF IdsInv

\* The browser's cookie is the one it had, or one that it got with its first response.
LEMMA RespondKeeps == ASSUME IdsInv, NEW t \in Threads, Ids!Respond(t) PROVE IdsInv'
<1> DEFINE b == h[t].browser
           id == h[t].out
<1>1. /\ h[t].pc \in {"respond", "read"} /\ h' = [h EXCEPT ![t] = Ids!Idle]
      /\ jar' = [jar EXCEPT ![b] = IF id # Ids!NoId THEN id ELSE jar[b]] \/ jar' = jar
      /\ UNCHANGED <<uniqueCount, clock, files, asked, made, overlapped, restarts, kept>>
  BY DEF Ids!Respond, Ids!SetCookie, IdsInv, Ids!TypeOK
<1>2. /\ h[t] \in HandlerRecord /\ NamedBy(h[t]) /\ CarriedBy(h[t]) /\ b \in Clients /\ id \in Ids!Id
      /\ \A u \in Threads : u # t => h[u].browser # b
  BY <1>1, HandlerIs DEF HandlerRecord
<1>3. CharRange \in Nat \ {0} /\ MaxTime \in Nat \ {0} /\ MaxRequests \in Nat /\ None \notin Clients
  BY IdsConstants DEF Ids!IdsAssumption
<1>4. /\ Ids!Idle \in HandlerRecord /\ Ids!Idle.pc = "idle" /\ Ids!Idle.browser = None /\ Ids!Idle.in = Ids!NoId
      /\ Ids!Idle.out = Ids!NoId /\ Ids!Idle.got = {}
  BY <1>3, NoIdIs DEF Ids!Idle, HandlerRecord
<1>5. /\ h'[t] = Ids!Idle /\ h' \in [Threads -> HandlerRecord]
      /\ \A u \in Threads : u # t => h'[u] = h[u] /\ h'[u].browser # b
  BY <1>1, <1>2, <1>4 DEF IdsInv, Ids!TypeOK, HandlerRecord
<1>6. /\ jar \in [Clients -> Ids!Id] /\ jar' \in [Clients -> Ids!Id] /\ \A c \in Clients : c # b => jar'[c] = jar[c]
      /\ jar'[b] = jar[b] \/ (jar'[b] = id /\ id # Ids!NoId)
  BY <1>1, <1>2 DEF IdsInv, Ids!TypeOK
<1>7. (Ids!Idle)' = Ids!Idle
  BY DEF Ids!Idle, Ids!NoId, Ids!NoTail
<1>8. Requests'
  <2>1. \A u \in Threads : (h'[u].browser = None <=> h'[u].pc = "idle") /\ (h'[u].pc = "idle" => h'[u] = Ids!Idle)
    BY <1>4, <1>5 DEF IdsInv, Requests
  <2>2. \A u \in Threads : h'[u].pc # "idle" => asked'[h'[u].browser] \in 1..MaxRequests
    BY <1>1, <1>4, <1>5 DEF IdsInv, Requests
  <2>3. \A u, v \in Threads : u # v /\ h'[u].pc # "idle" => h'[u].browser # h'[v].browser
    <3> SUFFICES ASSUME NEW u \in Threads, NEW v \in Threads, u # v, h'[u].pc # "idle" PROVE h'[u].browser # h'[v].browser
      OBVIOUS
    <3>1. u # t /\ h'[u] = h[u] /\ h[u].browser \in Clients
      BY <1>4, <1>5, HandlerIs
    <3> QED BY <1>3, <1>4, <1>5, <3>1 DEF IdsInv, Requests
  <2> QED BY <1>7, <2>1, <2>2, <2>3 DEF Requests
<1>9. Named'
  <2>1. \A c \in Clients : jar'[c].hash = NoHash => jar'[c] = Ids!NoId
    BY <1>2, <1>6 DEF IdsInv, Named, NamedBy
  <2> QED BY <1>4, <1>5, <2>1 DEF IdsInv, Named
<1>10. Carried'
  <2>1. \A c : Ids!load(c)' = Ids!load(c)
    BY DEF Ids!load
  <2> SUFFICES ASSUME NEW u \in Threads, h'[u].pc # "idle"
               PROVE  /\ h'[u].carried =>
                           /\ jar'[h'[u].browser] # Ids!NoId /\ h'[u].pc \notin {"tail", "count"}
                           /\ h'[u].in = Ids!load(jar[h[u].browser])'
                           /\ h'[u].out = Ids!load(jar[h[u].browser])'
                      /\ ~h'[u].carried => jar'[h'[u].browser] = Ids!NoId
    BY DEF Carried
  <2>2. u # t /\ h'[u] = h[u]
    BY <1>4, <1>5
  <2>3. h[u].browser \in Clients /\ h[u].browser # b /\ CarriedBy(h[u])
    BY <1>2, <2>2, HandlerIs
  <2>4. jar'[h[u].browser] = jar[h[u].browser]
    BY <1>6, <2>3
  <2>5. Ids!load(jar[h[u].browser])' = Ids!load(jar[h[u].browser])
    BY <2>2, <2>4 DEF Ids!load
  <2> QED BY <2>2, <2>3, <2>4, <2>5 DEF CarriedBy
<1>11. Stored'
  <2> SUFFICES ASSUME NEW c \in Clients
               PROVE  /\ kept[c] \subseteq Ids!Data(Ids!FileName(Ids!load(jar[c])))'
                      /\ jar'[c] = Ids!NoId => kept[c] = {}
    BY <1>1 DEF Stored
  <2>1. kept[c] \subseteq Ids!Data(Ids!FileName(Ids!load(jar[c]))) /\ (jar[c] = Ids!NoId => kept[c] = {})
    BY DEF IdsInv, Stored
  <2>2. CASE jar'[c] = jar[c]
    BY <1>1, <2>1, <2>2 DEF Ids!Data
  <2>3. CASE jar'[c] # jar[c]
    <3>1. c = b /\ jar'[c] = id /\ id # Ids!NoId
      BY <1>6, <2>3
    <3>2. CASE ~h[t].carried
      <4>1. kept[c] = {}
        BY <1>2, <2>1, <3>1, <3>2 DEF CarriedBy
      <4> QED BY <3>1, <4>1
    <3>3. CASE h[t].carried
      <4>1. jar'[c] = Ids!load(jar[c]) /\ jar[c] # Ids!NoId /\ jar[c] \in Ids!Id
        BY <1>2, <1>6, <3>1, <3>3 DEF CarriedBy
      <4>2. PICK d : d = jar'[c]
        OBVIOUS
      <4>3. Ids!load(d) = Ids!load(jar[c])
        BY <4>1, <4>2, NoIdIs
      <4>4. Ids!load(jar[c])' = Ids!load(d)
        BY <4>2 DEF Ids!load
      <4>5. PICK g : g = Ids!FileName(Ids!load(jar[c]))
        OBVIOUS
      <4>6. Ids!FileName(Ids!load(jar[c]))' = g
        BY <4>3, <4>4, <4>5 DEF Ids!FileName
      <4>7. Ids!Data(g)' = Ids!Data(g)
        BY <1>1 DEF Ids!Data
      <4>8. Ids!Data(Ids!FileName(Ids!load(jar[c])))' = Ids!Data(g)'
        BY <4>6 DEF Ids!Data
      <4> QED BY <2>1, <3>1, <4>5, <4>7, <4>8
    <3> QED BY <3>2, <3>3
  <2> QED BY <2>2, <2>3
<1>12. Ids!TypeOK' /\ Ids!SessionKept' /\ Ids!SessionsApart'
  <2>1. Ids!TypeOK'
    BY <1>1, <1>5, <1>6 DEF IdsInv, Ids!TypeOK, HandlerRecord
  <2>2. Ids!SessionKept' /\ Ids!SessionsApart'
    BY <1>1, <1>4, <1>5 DEF IdsInv, Ids!SessionKept, Ids!SessionsApart
  <2> QED BY <2>1, <2>2
<1>13. Counted'
  <2>1. \A u \in Threads : Ids!Making(u)' => Ids!Making(u) /\ h'[u] = h[u]
    BY <1>4, <1>5 DEF Ids!Making
  <2> QED BY <1>1, <2>1, CountedStays
<1>14. \A c \in Clients : \A x : x # NoHash /\ Holds(c, x)' => Holds(c, x)
  BY <1>1, <1>2, <1>3, <1>4, <1>5, <1>6 DEF Holds
<1>15. KnownHashes' /\ Apart'
  BY <1>1, <1>14, HoldingLess
<1> QED BY <1>8, <1>9, <1>10, <1>11, <1>12, <1>13, <1>15 DEF IdsInv

LEMMA IdTickKeeps == ASSUME IdsInv, Ids!Tick PROVE IdsInv'
<1>1. /\ clock < MaxTime /\ clock' = clock + 1
      /\ UNCHANGED <<uniqueCount, files, jar, h, asked, made, overlapped, restarts, kept>>
  BY DEF Ids!Tick
<1>2. MaxTime \in Nat
  BY IdsConstants DEF Ids!IdsAssumption
<1>3. Ids!TypeOK'
  BY <1>1, <1>2 DEF IdsInv, Ids!TypeOK
<1>4. Requests' /\ Named' /\ Carried'
  BY <1>1 DEF IdsInv, Requests, Named, Carried, Ids!load
<1>5. Stored' /\ Ids!SessionKept' /\ Ids!SessionsApart'
  BY <1>1 DEF IdsInv, Stored, Ids!Data, Ids!SessionKept, Ids!SessionsApart
<1>6. Counted'
  BY <1>1, CountedStays DEF Ids!Making
<1>7. KnownHashes' /\ Apart'
  BY <1>1, HoldingLess DEF Holds
<1> QED BY <1>3, <1>4, <1>5, <1>6, <1>7 DEF IdsInv

LEMMA RestartKeeps == ASSUME IdsInv, Ids!Restart PROVE IdsInv'
<1>1. /\ restarts < MaxRestarts /\ restarts' = restarts + 1 /\ uniqueCount' = 0 /\ h' = [t \in Threads |-> Ids!Idle]
      /\ UNCHANGED <<clock, files, jar, asked, made, overlapped, kept>>
  BY DEF Ids!Restart
<1>2. /\ CharRange \in Nat \ {0} /\ MaxTime \in Nat \ {0} /\ MaxRequests \in Nat /\ MaxRestarts \in Nat
      /\ None \notin Clients /\ restarts \in 0..MaxRestarts
  BY IdsConstants DEF Ids!IdsAssumption, IdsInv, Ids!TypeOK
<1>3. /\ Ids!Idle \in HandlerRecord /\ Ids!Idle.pc = "idle" /\ Ids!Idle.browser = None /\ Ids!Idle.in = Ids!NoId
      /\ Ids!Idle.out = Ids!NoId /\ Ids!Idle.got = {}
  BY <1>2, NoIdIs DEF Ids!Idle, HandlerRecord
<1>4. \A t \in Threads : h'[t] = Ids!Idle
  BY <1>1
<1>5. restarts' \in 0..MaxRestarts /\ restarts' # 0
  BY <1>1, <1>2
<1>6. h' \in [Threads -> HandlerRecord]
  BY <1>1, <1>3
<1>7. Ids!TypeOK'
  BY <1>1, <1>5, <1>6 DEF IdsInv, Ids!TypeOK, HandlerRecord
<1>8. Requests'
  BY <1>3, <1>4 DEF Requests, Ids!Idle, Ids!NoId, Ids!NoTail
<1>9. Named' /\ Carried' /\ Stored'
  <2>1. Named'
    BY <1>1, <1>3, <1>4 DEF IdsInv, Named
  <2>2. Carried'
    BY <1>3, <1>4 DEF Carried
  <2>3. Stored'
    BY <1>1 DEF IdsInv, Stored, Ids!Data
  <2> QED BY <2>1, <2>2, <2>3
<1>10. Ids!SessionKept' /\ Ids!SessionsApart'
  BY <1>3, <1>4, <1>5 DEF Ids!SessionKept, Ids!SessionsApart
<1>11. Counted'
  BY <1>1, <1>3, <1>4, <1>5 DEF IdsInv, Counted, Ids!Making
<1>12. \A c \in Clients : \A x : x # NoHash /\ Holds(c, x)' => Holds(c, x)
  BY <1>1, <1>2, <1>3, <1>4 DEF Holds
<1>13. KnownHashes' /\ Apart'
  BY <1>1, <1>5, <1>12, HoldingLess
<1> QED BY <1>7, <1>8, <1>9, <1>10, <1>11, <1>13 DEF IdsInv

LEMMA IdsStep == IdsInv /\ [Ids!Next]_Ids!vars => IdsInv'
<1> SUFFICES ASSUME IdsInv, [Ids!Next]_Ids!vars PROVE IdsInv'
  OBVIOUS
<1>1. CASE UNCHANGED Ids!vars
  <2>1. UNCHANGED <<uniqueCount, clock, files, jar, h, asked, made, overlapped, restarts, kept>>
    BY <1>1 DEF Ids!vars
  <2>2. Ids!TypeOK' /\ Requests' /\ Named' /\ Carried'
    BY <2>1 DEF IdsInv, Ids!TypeOK, Requests, Named, Carried, Ids!load
  <2>3. Stored' /\ Ids!SessionKept' /\ Ids!SessionsApart'
    BY <2>1 DEF IdsInv, Stored, Ids!Data, Ids!SessionKept, Ids!SessionsApart
  <2>4. Counted'
    BY <2>1, CountedStays DEF Ids!Making
  <2>5. KnownHashes' /\ Apart'
    BY <2>1, HoldingLess DEF Holds
  <2> QED BY <2>2, <2>3, <2>4, <2>5 DEF IdsInv
<1>2. ASSUME NEW t \in Threads, Ids!Handler(t) PROVE IdsInv'
  BY <1>2, HashKeeps, TailKeeps, CountKeeps, SetKeeps, GetKeeps, RespondKeeps DEF Ids!Handler
<1>3. ASSUME NEW t \in Threads, NEW b \in Clients, Ids!Request(t, b) PROVE IdsInv'
  BY <1>3, IdRequestKeeps
<1>4. ASSUME Ids!Tick \/ Ids!Restart PROVE IdsInv'
  BY <1>4, IdTickKeeps, RestartKeeps
<1> QED BY <1>1, <1>2, <1>3, <1>4 DEF Ids!Next, Ids!Over

\* Two ids that have the same data to be hashed have the same count.
LEMMA IdsAreKept == IdsInv => Ids!HashesMeetOnlyIfOverlapped /\ Ids!SessionsApart /\ Ids!SessionKept
<1> SUFFICES ASSUME IdsInv PROVE Ids!HashesMeetOnlyIfOverlapped
  BY DEF IdsInv
<1> SUFFICES ASSUME ~overlapped, restarts = 0, Len(made) <= CharRange, NEW i \in DOMAIN made, NEW j \in DOMAIN made, i # j
             PROVE  made[i].hash # made[j].hash
  BY DEF Ids!HashesMeetOnlyIfOverlapped
<1>1. made[i].hash[1] = Ids!AsChar(i - 1) /\ made[j].hash[1] = Ids!AsChar(j - 1)
  BY DEF IdsInv, Counted
<1>2. i - 1 \in Nat /\ j - 1 \in Nat /\ i - 1 < CharRange /\ j - 1 < CharRange /\ i - 1 # j - 1
  BY IdsConstants DEF Ids!IdsAssumption, IdsInv, Ids!TypeOK
<1> QED BY <1>1, <1>2, AsCharIs

-----------------------------------------------------------------------------
(* Cookies. *)

\* A value as it comes back: in small letters and as far as its first colon.
Back(v) == Cookies!Small(Cookies!Cut(v))

\* The browser has what the application gave it last, or that as it came back.
BrowserHas ==
  /\ \A n \in DOMAIN last : last[n] \in Cookies!Value
  /\ \A n \in DOMAIN last : n.small /\ ~Cookies!Twin(n) =>
       n \in DOMAIN browserJar /\ Back(browserJar[n].value) = Back(last[n])

\* What goes back is what came, but for what the application has set.
GoesBack ==
  pc = "app" =>
    /\ fresh \subseteq DOMAIN toSend
    /\ \A n \in DOMAIN toSend : n \notin fresh => n \in DOMAIN received /\ toSend[n].value = received[n].value

CookiesInv == Cookies!TypeOK /\ BrowserHas /\ GoesBack /\ Cookies!LastValueReturns

LEMMA SmallIs ==
  /\ \A n \in Cookies!Names : Cookies!Small(n) \in Cookies!Names /\ Cookies!Small(n).small /\ Cookies!Small(n).text = n.text
  /\ \A n \in Cookies!Names : n.small => Cookies!Small(n) = n
  /\ \A v \in Cookies!Value : Back(v) \in Cookies!Value /\ Back(Back(v)) = Back(v)
  BY DEF Cookies!Names, Cookies!Value, Cookies!Small, Cookies!Cut, Back

LEMMA NoCookies == Cookies!IsCookies(Cookies!Nothing) /\ DOMAIN Cookies!Nothing = {}
  BY DEF Cookies!IsCookies, Cookies!Nothing

LEMMA CookiesInit == Cookies!Init => CookiesInv
<1> SUFFICES ASSUME Cookies!Init PROVE CookiesInv
  OBVIOUS
<1>1. Cookies!TypeOK
  BY NoCookies, CookiesConstants DEF Cookies!Init, Cookies!TypeOK, Cookies!CookiesAssumption
<1>2. BrowserHas /\ GoesBack /\ Cookies!LastValueReturns
  BY NoCookies DEF Cookies!Init, BrowserHas, GoesBack, Cookies!LastValueReturns
<1> QED BY <1>1, <1>2 DEF CookiesInv

LEMMA RequestCookies == CookiesInv /\ Cookies!Request => CookiesInv'
<1> SUFFICES ASSUME CookiesInv, Cookies!Request PROVE CookiesInv'
  OBVIOUS
<1>1. /\ pc = "idle" /\ pc' = "app" /\ requests < MaxResponses /\ requests' = requests + 1
      /\ toSend' = received' /\ fresh' = {} /\ UNCHANGED <<browserJar, used, last>>
      /\ received' \in Cookies!Load
  BY DEF Cookies!Request, Cookies!Copy
\* What is read of the header, and what is lost of it.
<1>2. PICK front, first :
        /\ received' \in Cookies!Loads(front, first) /\ front \cup first \subseteq DOMAIN browserJar
        /\ \A k \in first : Cookies!HasColon(k)
        /\ \A n \in DOMAIN browserJar : n \in front \cup first \/ \E k \in first : k # n
  <2> DEFINE colons == {n \in DOMAIN browserJar : Cookies!HasColon(n)}
  <2>1. CASE colons = {}
    BY <1>1, <2>1 DEF Cookies!Load
  <2>2. CASE colons # {}
    <3>1. PICK front \in SUBSET (DOMAIN browserJar \ colons), n \in colons : received' \in Cookies!Loads(front, {n})
      BY <1>1, <2>2 DEF Cookies!Load
    <3>2. \A m \in DOMAIN browserJar : m \in front \cup {n} \/ \E k \in {n} : k # m
      OBVIOUS
    <3> QED BY <3>1, <3>2
  <2> QED BY <2>1, <2>2
<1> DEFINE known == front \cup {n \in first : n.text \notin Colons}
<1>3. /\ known \subseteq DOMAIN browserJar
      /\ DOMAIN received' = {Cookies!Small(n) : n \in known}
      /\ \A m \in DOMAIN received' : received'[m].attributes = {} /\ received'[m] \in [value : {Back(browserJar[n].value) : n \in known}, attributes : {{}}]
      /\ \A m \in DOMAIN received' : \E n \in known :
           Cookies!Small(n) = m /\ received'[m].value = Back(browserJar[n].value)
  BY <1>2 DEF Cookies!Loads, Cookies!LoadName, Back
<1>8. \A n \in DOMAIN browserJar : n \in Cookies!Names /\ browserJar[n].value \in Cookies!Value
  BY DEF CookiesInv, Cookies!TypeOK, Cookies!IsCookies
<1>4. Cookies!IsCookies(received') /\ \A n \in DOMAIN received' : n.small
  <2>1. \A m \in DOMAIN received' : m \in Cookies!Names /\ m.small
    BY <1>3, <1>8, SmallIs
  <2>2. \A m \in DOMAIN received' : received'[m] \in [value : Cookies!Value, attributes : SUBSET Attributes]
    BY <1>3, <1>8, SmallIs
  <2> QED BY <2>1, <2>2 DEF Cookies!IsCookies
<1>5. Cookies!TypeOK'
  <2>1. requests' \in 0..MaxResponses
    BY <1>1, CookiesConstants DEF CookiesInv, Cookies!TypeOK, Cookies!CookiesAssumption
  <2>2. Cookies!IsCookies(received)' /\ Cookies!IsCookies(toSend)' /\ Cookies!IsCookies(browserJar)'
    BY <1>1, <1>4 DEF CookiesInv, Cookies!TypeOK, Cookies!IsCookies
  <2> QED BY <1>1, <1>4, <2>1, <2>2 DEF CookiesInv, Cookies!TypeOK
<1>6. BrowserHas' /\ GoesBack'
  BY <1>1 DEF CookiesInv, BrowserHas, GoesBack, Cookies!Twin
\* Of a name without a twin there is one cookie, whatever its letters.
<1>7. Cookies!LastValueReturns'
  <2>1. ASSUME NEW n \in DOMAIN last, n.small, ~Cookies!Twin(n)
        PROVE  IF n \in DOMAIN received' THEN received'[n].value = Back(last[n])
               ELSE n.text \in Colons \/ \E m \in DOMAIN browserJar \ {n} : Cookies!HasColon(m)
    <3>1. n \in DOMAIN browserJar /\ Back(browserJar[n].value) = Back(last[n]) /\ Cookies!Small(n) = n
      BY <1>8, <2>1, SmallIs DEF CookiesInv, BrowserHas
    <3>2. CASE n \in DOMAIN received'
      <4>1. PICK m \in known : Cookies!Small(m) = n /\ received'[n].value = Back(browserJar[m].value)
        BY <1>3, <3>2
      <4>2. m \in DOMAIN browserJar /\ m.text = n.text
        BY <1>3, <1>8, <4>1, SmallIs
      <4>3. m = n
        BY <2>1, <4>2 DEF Cookies!Twin, Cookies!SameName
      <4> QED BY <3>1, <3>2, <4>1, <4>3
    <3>3. CASE n \notin DOMAIN received'
      <4>1. n \notin known
        BY <1>3, <3>1, <3>3
      <4>2. CASE n \in first
        BY <3>3, <4>1, <4>2
      <4>3. CASE n \notin first
        <5>1. PICK k \in first : k # n
          BY <1>2, <3>1, <4>1, <4>3
        <5>2. k \in DOMAIN browserJar /\ Cookies!HasColon(k)
          BY <1>2, <5>1
        <5> QED BY <3>3, <5>1, <5>2
      <4> QED BY <4>2, <4>3
    <3> QED BY <3>2, <3>3
  <2>2. \A n : Cookies!Twin(n)' <=> Cookies!Twin(n)
    BY <1>1 DEF Cookies!Twin
  <2>3. \A n : Cookies!HasColon(n)' <=> Cookies!HasColon(n)
    BY <1>1 DEF Cookies!HasColon
  <2> QED BY <1>1, <2>1, <2>2, <2>3 DEF Cookies!LastValueReturns, Back
<1> QED BY <1>5, <1>6, <1>7 DEF CookiesInv

LEMMA SetCookieKeeps ==
  ASSUME CookiesInv, NEW n \in Cookies!Names, NEW v \in Values, NEW a \in SUBSET Attributes, Cookies!SetCookie(n, v, a)
  PROVE  CookiesInv'
<1> DEFINE new == [value |-> [text |-> v, small |-> FALSE, cut |-> FALSE], attributes |-> a]
<1>1. /\ pc = "app" /\ toSend' = Cookies!Put(toSend, n, new)
      /\ used' = used \cup {v} /\ fresh' = fresh \cup {n}
      /\ UNCHANGED <<browserJar, received, pc, requests, last>>
  BY DEF Cookies!SetCookie
<1>2. new \in [value : Cookies!Value, attributes : SUBSET Attributes]
  BY DEF Cookies!Value
<1> HIDE DEF new
<1>3. /\ DOMAIN toSend' = DOMAIN toSend \cup {n}
      /\ toSend'[n] = new /\ \A m \in DOMAIN toSend : m # n => toSend'[m] = toSend[m]
  BY <1>1 DEF Cookies!Put
<1>4. Cookies!TypeOK'
  <2>1. Cookies!IsCookies(toSend)'
    BY <1>2, <1>3 DEF CookiesInv, Cookies!TypeOK, Cookies!IsCookies, Cookies!Names
  <2>2. Cookies!IsCookies(received)' /\ Cookies!IsCookies(browserJar)'
    BY <1>1 DEF CookiesInv, Cookies!TypeOK, Cookies!IsCookies
  <2> QED BY <1>1, <2>1, <2>2 DEF CookiesInv, Cookies!TypeOK
<1>5. BrowserHas' /\ Cookies!LastValueReturns'
  BY <1>1 DEF CookiesInv, BrowserHas, Cookies!LastValueReturns, Cookies!Twin, Cookies!HasColon
<1>6. GoesBack'
  BY <1>1, <1>3 DEF CookiesInv, GoesBack
<1> QED BY <1>4, <1>5, <1>6 DEF CookiesInv

LEMMA RespondCookies == CookiesInv /\ Cookies!Respond => CookiesInv'
<1> SUFFICES ASSUME CookiesInv, Cookies!Respond PROVE CookiesInv'
  OBVIOUS
<1>1. /\ pc = "app" /\ pc' = "idle" /\ received' = Cookies!Nothing /\ toSend' = Cookies!Nothing
      /\ UNCHANGED <<requests, used, fresh>>
  BY DEF Cookies!Respond
<1>2. Cookies!LastValueReturns' /\ GoesBack'
  BY <1>1 DEF Cookies!LastValueReturns, GoesBack
<1>3. CASE UNCHANGED <<browserJar, last>>
  <2>1. Cookies!TypeOK'
    <3>1. Cookies!IsCookies(received)' /\ Cookies!IsCookies(toSend)'
      BY <1>1, NoCookies DEF Cookies!IsCookies, Cookies!Nothing
    <3>2. Cookies!IsCookies(browserJar)'
      BY <1>3 DEF CookiesInv, Cookies!TypeOK, Cookies!IsCookies
    <3> QED BY <1>1, <1>3, <3>1, <3>2, NoCookies DEF CookiesInv, Cookies!TypeOK
  <2>2. BrowserHas'
    BY <1>3 DEF CookiesInv, BrowserHas, Cookies!Twin
  <2> QED BY <1>2, <2>1, <2>2 DEF CookiesInv
<1>4. CASE /\ browserJar' = [n \in DOMAIN browserJar \cup DOMAIN toSend |-> IF n \in DOMAIN toSend THEN toSend[n] ELSE browserJar[n]]
           /\ last' = [n \in DOMAIN last \cup fresh |-> IF n \in fresh THEN toSend[n].value ELSE last[n]]
  <2>1. /\ DOMAIN browserJar' = DOMAIN browserJar \cup DOMAIN toSend
        /\ \A n \in DOMAIN toSend : browserJar'[n] = toSend[n]
        /\ \A n \in DOMAIN browserJar : n \notin DOMAIN toSend => browserJar'[n] = browserJar[n]
        /\ DOMAIN last' = DOMAIN last \cup fresh
        /\ \A n \in fresh : last'[n] = toSend[n].value
        /\ \A n \in DOMAIN last : n \notin fresh => last'[n] = last[n]
    BY <1>4
  <2>2. /\ fresh \subseteq DOMAIN toSend
        /\ \A n \in DOMAIN toSend : n \notin fresh => n \in DOMAIN received /\ toSend[n].value = received[n].value
    BY <1>1 DEF CookiesInv, GoesBack
  <2>3. \A n \in DOMAIN toSend : n \in Cookies!Names /\ toSend[n].value \in Cookies!Value
    BY DEF CookiesInv, Cookies!TypeOK, Cookies!IsCookies
  <2>4. Cookies!TypeOK'
    <3>1. Cookies!IsCookies(received)' /\ Cookies!IsCookies(toSend)'
      BY <1>1, NoCookies DEF Cookies!IsCookies, Cookies!Nothing
    <3>2. Cookies!IsCookies(browserJar)'
      BY <2>1 DEF CookiesInv, Cookies!TypeOK, Cookies!IsCookies
    <3>3. DOMAIN last' \subseteq Cookies!Names
      BY <2>1, <2>2, <2>3 DEF CookiesInv, Cookies!TypeOK
    <3> QED BY <1>1, <3>1, <3>2, <3>3, NoCookies DEF CookiesInv, Cookies!TypeOK
  <2>5. \A n \in DOMAIN last' : last'[n] \in Cookies!Value
    BY <2>1, <2>2, <2>3 DEF CookiesInv, BrowserHas
  <2>6. ASSUME NEW n \in DOMAIN last', n.small, ~Cookies!Twin(n)'
        PROVE  n \in DOMAIN browserJar' /\ Back(browserJar'[n].value) = Back(last'[n])
    <3>1. ~Cookies!Twin(n)
      BY <2>1, <2>6 DEF Cookies!Twin
    <3>2. CASE n \in fresh
      BY <2>1, <2>2, <3>2
    <3>3. CASE n \notin fresh
      <4>1. /\ n \in DOMAIN last /\ last'[n] = last[n] /\ last[n] \in Cookies!Value
            /\ n \in DOMAIN browserJar /\ Back(browserJar[n].value) = Back(last[n])
            /\ n \in DOMAIN received => received[n].value = Back(last[n])
        BY <1>1, <2>1, <2>6, <3>1, <3>3 DEF CookiesInv, BrowserHas, Cookies!LastValueReturns, Back
      <4>2. CASE n \in DOMAIN toSend
        BY <2>1, <2>2, <3>3, <4>1, <4>2, SmallIs
      <4>3. CASE n \notin DOMAIN toSend
        BY <2>1, <4>1, <4>3
      <4> QED BY <4>2, <4>3
    <3> QED BY <3>2, <3>3
  <2> QED BY <1>2, <2>4, <2>5, <2>6 DEF CookiesInv, BrowserHas
<1> QED BY <1>3, <1>4 DEF Cookies!Respond, Cookies!Unload

LEMMA CookiesStep == CookiesInv /\ [Cookies!Next]_Cookies!vars => CookiesInv'
<1> SUFFICES ASSUME CookiesInv, [Cookies!Next]_Cookies!vars PROVE CookiesInv'
  OBVIOUS
<1>1. CASE UNCHANGED Cookies!vars
  BY <1>1 DEF Cookies!vars, CookiesInv, BrowserHas, GoesBack, Cookies!TypeOK, Cookies!IsCookies, Cookies!LastValueReturns, Cookies!Twin, Cookies!HasColon
<1>2. CASE Cookies!Next
  BY <1>1, <1>2, RequestCookies, RespondCookies, SetCookieKeeps DEF Cookies!Next, Cookies!Over
<1> QED BY <1>1, <1>2

-----------------------------------------------------------------------------
(* The cache. *)

\* The frames, the first call first.
Levels == 1..Len(stack)
L(d) == stack[Len(stack) + 1 - d]
Observers(d) == items[L(d).item].observers
Loads(d) == L(d).pc \in {"load", "each"}

\* A name has one item in the cache, and no deleted one.
Distinct == Cache!OnePerName

\* A text is loaded once, and who asked for it first waits first.
LoadedOnce ==
  /\ \A d \in Levels :
       /\ L(d).pc = "load" => items[L(d).item].state = "loading"
       /\ L(d).pc = "each" => items[L(d).item].state = "loaded"
       /\ L(d).pc \in {"asyncGet", "load"} => L(d).next = 1
       /\ Loads(d) =>
            L(d).next >= 1 /\ Len(Observers(d)) >= 1 /\ (L(d).next = 1 => Observers(d)[1] = L(d).get)
  /\ \A d, e \in Levels : Loads(d) /\ Loads(e) /\ L(d).item = L(e).item => d = e
  /\ \A i \in DOMAIN items : items[i].state = "loading" => \E d \in Levels : L(d).pc = "load" /\ L(d).item = i

\* Who has to answer a call: its own frame, or the frame that loads, at a place of the observers.
Has(g, d, k) ==
  /\ d \in Levels
  /\ \/ k = 0 /\ L(d).pc \in {"asyncGet", "onload"} /\ L(d).get = g
     \/ Loads(d) /\ k \in 1..Len(Observers(d)) /\ k >= L(d).next /\ Observers(d)[k] = g

\* A call that is not answered will be answered at one place.
OneAnswer ==
  /\ \A i \in DOMAIN items : items[i].observers \in Seq(DOMAIN gets)
  /\ \A g \in DOMAIN gets :
       /\ gets[g].answers \in {0, 1}
       /\ gets[g].answers = 0 => \E d, k \in Nat : Has(g, d, k)
       /\ \A d, k \in Nat : Has(g, d, k) => gets[g].answers = 0
       /\ \A d, e, k, l \in Nat : Has(g, d, k) /\ Has(g, e, l) => d = e /\ k = l

\* Who goes on has been answered, or waits for a load below.
Told ==
  \A d \in Levels :
    /\ L(d).pc = "result" => gets[L(d).get].answers # 0
    /\ L(d).pc = "each" /\ L(d).next > 1 =>
         \/ gets[L(d).get].answers # 0
         \/ d + 1 \in Levels /\ L(d + 1).pc = "onload" /\ L(d + 1).get = L(d).get
    /\ L(d).pc = "return" =>
         \/ gets[L(d).get].answers # 0
         \/ \E e \in 1..(d - 1) : L(e).pc = "load" /\ L(e).item = L(d).item

\* When there is too much in the cache somebody will release it.
Presses(d) == L(d).pc \in {"asyncGet", "load", "onload"} \/ (L(d).pc = "each" /\ L(d).next <= Len(Observers(d)))
Fits == Cache!Total(cache) <= CacheSize \/ \E d \in Levels : Presses(d)

CacheInv == Cache!TypeOK /\ Distinct /\ LoadedOnce /\ OneAnswer /\ Told /\ Fits

LEMMA NoSum == \A f : DOMAIN f = {} => Cache!SumFunction(f) = 0
<1> SUFFICES ASSUME NEW f, DOMAIN f = {} PROVE Cache!SumFunction(f) = 0
  OBVIOUS
<1> DEFINE Iter(g) == g = [s \in SUBSET {} |-> IF s = {} THEN 0 ELSE f[CHOOSE x \in s : TRUE] + g[s \ {CHOOSE x \in s : TRUE}]]
<1>1. \A g : Iter(g) => g[{}] = 0
  OBVIOUS
<1>2. Iter([s \in SUBSET {} |-> 0])
  <2>1. \A s \in SUBSET {} : s = {}
    OBVIOUS
  <2> QED BY <2>1
<1>3. Cache!SumFunction(f) = (CHOOSE g : Iter(g))[{}]
  BY Zenon DEF Cache!SumFunction, Cache!SumFunctionOnSet, Cache!FoldFunctionOnSet, Cache!MapThenFoldSet
<1> QED BY <1>1, <1>2, <1>3

\* What the items in a sequence take depends on their sizes only.
LEMMA TotalStays ==
  ASSUME NEW s, \A p \in DOMAIN s : items'[s[p]].size = items[s[p]].size
  PROVE  \A c : c = s => Cache!Total(c)' = Cache!Total(s)
<1>1. [p \in DOMAIN s |-> items'[s[p]].size] = [p \in DOMAIN s |-> items[s[p]].size]
  OBVIOUS
<1> QED BY <1>1 DEF Cache!Total

\* Releasing leaves what fits; in the end nothing would be left.
LEMMA KeptIs ==
  ASSUME NEW S, NEW s \in Seq(S)
  PROVE  Cache!Kept(s) \in 0..Len(s) /\ Cache!Total(SubSeq(s, 1, Cache!Kept(s))) <= CacheSize
<1> DEFINE T == {n \in 0..Len(s) : Cache!Total(SubSeq(s, 1, n)) <= CacheSize}
<1>1. Cache!Total(SubSeq(s, 1, 0)) = 0
  <2>1. SubSeq(s, 1, 0) = <<>>
    OBVIOUS
  <2> QED BY <2>1, NoSum DEF Cache!Total
<1>2. 0 \in T /\ T \in SUBSET (0..Len(s)) /\ Len(s) \in Nat
  BY <1>1, CacheConstants DEF Cache!CacheAssumption
<1>3. Max(T) \in T
  BY <1>2, MaxIs
<1>4. Cache!Kept(s) = Max(T)
  BY DEF Cache!Kept, Cache!Max, Max
<1> QED BY <1>3, <1>4

FrameSet ==
  [pc : {"asyncGet", "load", "each", "onload", "result", "return"}, item : DOMAIN items, get : DOMAIN gets, next : Nat]

\* What the frames are after a call, a step of the call that is running, and its end.
LEMMA Pushed ==
  ASSUME NEW S, stack \in Seq(S), NEW R, NEW r \in R, S \subseteq R, stack' = <<r>> \o stack
  PROVE  /\ stack' \in Seq(R) /\ Len(stack') = Len(stack) + 1
         /\ \A d \in 1..Len(stack) : L(d)' = L(d) /\ L(d) \in S
         /\ \A n : n = Len(stack) + 1 => L(n)' = r
<1>1. stack \in Seq(R) /\ Len(stack) \in Nat
  OBVIOUS
<1>2. /\ stack' \in Seq(R) /\ Len(stack') = Len(stack) + 1 /\ stack'[1] = r
      /\ \A i \in 1..Len(stack) : stack'[i + 1] = stack[i]
  BY <1>1
<1>3. ASSUME NEW d \in 1..Len(stack) PROVE L(d)' = L(d) /\ L(d) \in S
  <2>1. Len(stack) + 1 - d \in 1..Len(stack) /\ Len(stack') + 1 - d = Len(stack) + 1 - d + 1
    BY <1>1, <1>2
  <2> QED BY <1>2, <2>1 DEF L
<1>4. ASSUME NEW n, n = Len(stack) + 1 PROVE L(n)' = r
  <2>1. Len(stack') + 1 - n = 1
    BY <1>1, <1>2, <1>4
  <2> QED BY <1>2, <2>1 DEF L
<1> QED BY <1>2, <1>3, <1>4

LEMMA Went ==
  ASSUME NEW S, stack \in Seq(S), stack # <<>>, NEW R, NEW r \in R, S \subseteq R, stack' = [stack EXCEPT ![1] = r]
  PROVE  /\ stack' \in Seq(R) /\ Len(stack') = Len(stack) /\ Len(stack) \in Nat \ {0}
         /\ \A d \in 1..Len(stack) : d # Len(stack) => L(d)' = L(d)
         /\ \A d \in 1..Len(stack) : L(d) \in S
         /\ \A n : n = Len(stack) => L(n)' = r /\ L(n) = stack[1]
<1>1. stack \in Seq(R) /\ Len(stack) \in Nat \ {0}
  OBVIOUS
<1>2. /\ stack' \in Seq(R) /\ Len(stack') = Len(stack) /\ stack'[1] = r
      /\ \A i \in 2..Len(stack) : stack'[i] = stack[i]
  BY <1>1
<1>3. ASSUME NEW d \in 1..Len(stack) PROVE (d # Len(stack) => L(d)' = L(d)) /\ L(d) \in S
  <2>1. Len(stack) + 1 - d \in 1..Len(stack) /\ (d # Len(stack) => Len(stack) + 1 - d \in 2..Len(stack))
    BY <1>1
  <2>2. PICK k \in 1..Len(stack) : k = Len(stack) + 1 - d
    BY <2>1
  <2>3. L(d) = stack[k] /\ L(d)' = stack'[k] /\ stack[k] \in S
    BY <1>2, <2>2 DEF L
  <2> QED BY <1>2, <2>1, <2>2, <2>3
<1>4. ASSUME NEW n, n = Len(stack) PROVE L(n)' = r /\ L(n) = stack[1]
  <2>1. Len(stack) + 1 - n = 1 /\ Len(stack') + 1 - n = 1
    BY <1>1, <1>2, <1>4
  <2>2. L(n)' = stack'[1] /\ L(n) = stack[1]
    BY <2>1 DEF L
  <2> QED BY <1>2, <2>2
<1> QED BY <1>1, <1>2, <1>3, <1>4

LEMMA Popped ==
  ASSUME NEW S, stack \in Seq(S), stack # <<>>, stack' = Tail(stack)
  PROVE  /\ stack' \in Seq(S) /\ Len(stack) \in Nat \ {0} /\ Len(stack') = Len(stack) - 1
         /\ \A d \in 1..(Len(stack) - 1) : L(d)' = L(d)
         /\ \A d \in 1..Len(stack) : L(d) \in S
         /\ \A n : n = Len(stack) => L(n) = stack[1]
<1>1. Len(stack) \in Nat \ {0} /\ stack' \in Seq(S) /\ Len(stack') = Len(stack) - 1
      /\ \A i \in 1..(Len(stack) - 1) : stack'[i] = stack[i + 1]
  OBVIOUS
<1>2. ASSUME NEW d \in 1..(Len(stack) - 1) PROVE L(d)' = L(d)
  <2>1. Len(stack') + 1 - d \in 1..(Len(stack) - 1) /\ Len(stack') + 1 - d + 1 = Len(stack) + 1 - d
    BY <1>1
  <2> QED BY <1>1, <2>1 DEF L
<1>3. ASSUME NEW d \in 1..Len(stack) PROVE L(d) \in S
  <2>1. Len(stack) + 1 - d \in 1..Len(stack)
    BY <1>1
  <2> QED BY <2>1 DEF L
<1>4. ASSUME NEW n, n = Len(stack) PROVE L(n) = stack[1]
  <2>1. Len(stack) + 1 - n = 1
    BY <1>1, <1>4
  <2> QED BY <2>1 DEF L
<1> QED BY <1>1, <1>2, <1>3, <1>4

LEMMA FramesAre ==
  ASSUME CacheInv
  PROVE  /\ stack \in Seq(FrameSet) /\ Len(stack) \in Nat /\ items \in Seq(Cache!Item) /\ cache \in Seq(DOMAIN items)
         /\ DOMAIN items = 1..Len(items) /\ Len(items) \in Nat
         /\ gets \in Seq(Cache!Call) /\ DOMAIN gets = 1..Len(gets) /\ Len(gets) \in Nat
         /\ \A d \in Levels : L(d) \in FrameSet
<1>1. /\ stack \in Seq(FrameSet) /\ items \in Seq(Cache!Item) /\ cache \in Seq(DOMAIN items)
      /\ gets \in Seq(Cache!Call)
  BY DEF CacheInv, Cache!TypeOK, FrameSet
<1> DEFINE S == FrameSet
<1>2. stack \in Seq(S)
  BY <1>1
<1> HIDE DEF S
<1>3. Len(stack) \in Nat /\ \A k \in 1..Len(stack) : stack[k] \in S
  BY <1>2
<1>4. ASSUME NEW d \in Levels PROVE L(d) \in S
  <2>1. Len(stack) + 1 - d \in 1..Len(stack)
    BY <1>3 DEF Levels
  <2> QED BY <1>3, <2>1 DEF L
<1> QED BY <1>1, <1>3, <1>4 DEF S

\* A step of the call that is running, with what it does to its item.
LEMMA StepIs ==
  ASSUME CacheInv, stack # <<>>, NEW n, n = Len(stack), NEW i, i = L(n).item,
         stack' = [stack EXCEPT ![1] = stack'[1]], stack'[1] \in FrameSet,
         items' = [items EXCEPT ![i] = items'[i]], items'[i] \in Cache!Item,
         items'[i].name = items[i].name, items'[i].deleted = items[i].deleted,
         cache' = cache, gets' = gets, dangling' \in BOOLEAN, crashed' \in BOOLEAN
  PROVE  /\ Cache!TypeOK' /\ Distinct'
         /\ n \in Levels /\ n \in Nat \ {0} /\ Levels = 1..n /\ Levels' = 1..n /\ L(n)' = stack'[1] /\ L(n) = stack[1]
         /\ \A d \in 1..n : d # n => L(d)' = L(d)
         /\ i \in DOMAIN items /\ DOMAIN items' = DOMAIN items
         /\ \A j \in DOMAIN items : j # i => items'[j] = items[j]
<1> PICK r : r = stack'[1]
  OBVIOUS
<1> PICK it : it = items'[i]
  OBVIOUS
<1>1. /\ stack \in Seq(FrameSet) /\ items \in Seq(Cache!Item) /\ cache \in Seq(DOMAIN items)
      /\ gets \in Seq(Cache!Call) /\ \A d \in Levels : L(d) \in FrameSet
  BY FramesAre
<1> DEFINE S == FrameSet
           I == Cache!Item
<1>2. /\ stack' \in Seq(S) /\ Len(stack') = Len(stack) /\ Len(stack) \in Nat \ {0}
      /\ (\A d \in 1..Len(stack) : d # Len(stack) => L(d)' = L(d))
      /\ L(n)' = r /\ L(n) = stack[1]
  <2>1. stack \in Seq(S) /\ r \in S /\ S \subseteq S
    BY <1>1
  <2> HIDE DEF S
  <2> QED BY <2>1, Went
<1>3. n \in Nat \ {0} /\ n \in Levels /\ Levels = 1..n /\ Levels' = 1..n
  BY <1>2 DEF Levels
<1>4. i \in DOMAIN items
  BY <1>1, <1>3 DEF FrameSet
<1>5. DOMAIN items' = DOMAIN items /\ items'[i] = it /\ items' \in Seq(I) /\ \A j \in DOMAIN items : j # i => items'[j] = items[j]
  <2>1. items \in Seq(I) /\ it \in I
    BY <1>1
  <2> HIDE DEF I
  <2> QED BY <1>4, <2>1
<1>6. Cache!TypeOK'
  <2>1. FrameSet' = FrameSet
    BY <1>5 DEF FrameSet
  <2> QED BY <1>1, <1>2, <1>5, <2>1 DEF Cache!TypeOK, FrameSet
<1>7. Distinct'
  <2>1. \A j \in DOMAIN items : items'[j].name = items[j].name /\ items'[j].deleted = items[j].deleted
    BY <1>5
  <2>2. \A p \in DOMAIN cache : cache[p] \in DOMAIN items
    BY <1>1
  <2> QED BY <2>1, <2>2 DEF CacheInv, Distinct, Cache!OnePerName
<1> QED BY <1>2, <1>3, <1>4, <1>5, <1>6, <1>7

\* Who has to answer stays the same, or one place takes over from another.
LEMMA HasStays ==
  ASSUME OneAnswer, gets' = gets, \A i \in DOMAIN items' : items'[i].observers \in Seq(DOMAIN gets),
         \A g, d, k : Has(g, d, k)' <=> Has(g, d, k)
  PROVE  OneAnswer'
BY DEF OneAnswer

LEMMA HasMoves ==
  ASSUME OneAnswer, gets' = gets, \A i \in DOMAIN items' : items'[i].observers \in Seq(DOMAIN gets),
         NEW h0, NEW d0 \in Nat, NEW k0 \in Nat, NEW d1 \in Nat, NEW k1 \in Nat, Has(h0, d0, k0),
         \A g, d, k : Has(g, d, k)' <=> (Has(g, d, k) /\ ~(d = d0 /\ k = k0)) \/ (g = h0 /\ d = d1 /\ k = k1),
         \A g : g # h0 => ~Has(g, d0, k0)
  PROVE  OneAnswer'
<1>1. ASSUME NEW g \in DOMAIN gets, NEW d \in Nat, NEW k \in Nat, Has(g, d, k)' PROVE gets[g].answers = 0
  BY <1>1 DEF OneAnswer
<1>2. ASSUME NEW g \in DOMAIN gets, NEW d \in Nat, NEW e \in Nat, NEW k \in Nat, NEW l \in Nat,
             Has(g, d, k)', Has(g, e, l)'
      PROVE  d = e /\ k = l
  <2>1. CASE g = h0
    <3>1. \A a, b \in Nat : Has(g, a, b) => a = d0 /\ b = k0
      BY <2>1 DEF OneAnswer
    <3> QED BY <1>2, <2>1, <3>1
  <2>2. CASE g # h0
    BY <1>2, <2>2 DEF OneAnswer
  <2> QED BY <2>1, <2>2
<1>3. ASSUME NEW g \in DOMAIN gets, gets[g].answers = 0 PROVE \E d, k \in Nat : Has(g, d, k)'
  <2>1. CASE g = h0
    BY <2>1
  <2>2. CASE g # h0
    <3>1. PICK d \in Nat, k \in Nat : Has(g, d, k)
      BY <1>3 DEF OneAnswer
    <3>2. ~(d = d0 /\ k = k0)
      BY <2>2, <3>1
    <3> QED BY <3>1, <3>2
  <2> QED BY <2>1, <2>2
<1> QED BY <1>1, <1>2, <1>3 DEF OneAnswer

\* Below the running call nothing is unanswered that no longer has its frame.
LEMMA ToldBelow ==
  ASSUME CacheInv, NEW n, n = Len(stack), NEW d \in Levels, d # n, L(n).pc # "onload",
         L(d)' = L(d), \A e \in Levels : e # n => L(e)' = L(e), gets' = gets
  PROVE  /\ L(d)'.pc = "result" => gets'[L(d)'.get].answers # 0
         /\ L(d)'.pc = "each" /\ L(d)'.next > 1 =>
              \/ gets'[L(d)'.get].answers # 0
              \/ d + 1 \in Levels /\ d + 1 # n /\ L(d + 1).pc = "onload" /\ L(d + 1).get = L(d).get
         /\ L(d)'.pc = "return" =>
              \/ gets'[L(d)'.get].answers # 0
              \/ \E e \in 1..(d - 1) : L(e)'.pc = "load" /\ L(e)'.item = L(d)'.item
<1>1. \A e \in 1..(d - 1) : e \in Levels /\ e # n
  <2>1. Len(stack) \in Nat
    BY FramesAre
  <2> QED BY <2>1 DEF Levels
<1>2. /\ L(d).pc = "result" => gets[L(d).get].answers # 0
      /\ L(d).pc = "each" /\ L(d).next > 1 =>
           \/ gets[L(d).get].answers # 0
           \/ d + 1 \in Levels /\ L(d + 1).pc = "onload" /\ L(d + 1).get = L(d).get
      /\ L(d).pc = "return" =>
           \/ gets[L(d).get].answers # 0
           \/ \E e \in 1..(d - 1) : L(e).pc = "load" /\ L(e).item = L(d).item
  BY DEF CacheInv, Told
<1> QED BY <1>1, <1>2

LEMMA CacheInit == Cache!Init => CacheInv
<1> SUFFICES ASSUME Cache!Init PROVE CacheInv
  OBVIOUS
<1>1. cache = <<>> /\ items = <<>> /\ stack = <<>> /\ gets = <<>> /\ dangling = FALSE /\ crashed = FALSE
  BY DEF Cache!Init
<1>2. Levels = {} /\ DOMAIN items = {} /\ DOMAIN gets = {} /\ DOMAIN cache = {}
  BY <1>1 DEF Levels
<1>3. Cache!TypeOK
  <2>1. \A S : <<>> \in Seq(S)
    OBVIOUS
  <2> QED BY <1>1, <2>1 DEF Cache!TypeOK
<1>4. Distinct /\ LoadedOnce /\ OneAnswer /\ Told
  BY <1>2 DEF Distinct, Cache!OnePerName, LoadedOnce, OneAnswer, Told
<1>5. Fits
  <2>1. Cache!Total(cache) = 0
    BY <1>2, NoSum DEF Cache!Total
  <2> QED BY <2>1, CacheConstants DEF Fits, Cache!CacheAssumption
<1> QED BY <1>3, <1>4, <1>5 DEF CacheInv

\* The frames below the running one go on waiting.
LEMMA ToldStays ==
  ASSUME CacheInv, NEW n, n = Len(stack), L(n).pc # "onload", Levels' = Levels,
         \A e \in Levels : e # n => L(e)' = L(e), gets' = gets,
         L(n)'.pc = "result" => gets[L(n)'.get].answers # 0,
         L(n)'.pc = "each" => L(n)'.next = 1 \/ gets[L(n)'.get].answers # 0,
         L(n)'.pc = "return" =>
              \/ gets[L(n)'.get].answers # 0
              \/ \E e \in 1..(n - 1) : L(e)'.pc = "load" /\ L(e)'.item = L(n)'.item
  PROVE  Told'
<1>1. ASSUME NEW d \in Levels PROVE
         /\ L(d)'.pc = "result" => gets'[L(d)'.get].answers # 0
         /\ L(d)'.pc = "each" /\ L(d)'.next > 1 =>
              \/ gets'[L(d)'.get].answers # 0
              \/ d + 1 \in Levels' /\ L(d + 1)'.pc = "onload" /\ L(d + 1)'.get = L(d)'.get
         /\ L(d)'.pc = "return" =>
              \/ gets'[L(d)'.get].answers # 0
              \/ \E e \in 1..(d - 1) : L(e)'.pc = "load" /\ L(e)'.item = L(d)'.item
  <2>1. CASE d = n
    BY <2>1
  <2>2. CASE d # n
    BY <2>2, ToldBelow
  <2> QED BY <2>1, <2>2
<1> QED BY <1>1 DEF Told

\* A step that leaves the item of a frame alone leaves what the frame has to answer alone.
LEMMA HasBelow ==
  ASSUME NEW d, L(d)' = L(d), Levels' = Levels, Loads(d) => items'[L(d).item] = items[L(d).item]
  PROVE  \A g, k : Has(g, d, k)' <=> Has(g, d, k)
BY DEF Has, Loads, Observers

\* The running frame and its item.
LEMMA RunningIs ==
  ASSUME CacheInv, stack # <<>>, NEW n, n = Len(stack), NEW i, i = L(n).item
  PROVE  /\ n \in Levels /\ n \in Nat \ {0} /\ Levels = 1..n /\ L(n) = stack[1]
         /\ i \in DOMAIN items /\ items[i] \in Cache!Item /\ i = stack[1].item
         /\ stack[1] \in FrameSet /\ stack[1].get \in DOMAIN gets /\ DOMAIN gets \subseteq Nat
         /\ 1 \in DOMAIN stack /\ \A d \in Levels : L(d) \in FrameSet
<1>1. /\ stack \in Seq(FrameSet) /\ Len(stack) \in Nat /\ items \in Seq(Cache!Item)
      /\ DOMAIN gets = 1..Len(gets) /\ Len(gets) \in Nat
      /\ \A d \in Levels : L(d) \in FrameSet
  BY FramesAre
<1> DEFINE S == FrameSet
           I == Cache!Item
<1>2. stack \in Seq(S) /\ items \in Seq(I)
  BY <1>1
<1> HIDE DEF S, I
<1>3. Len(stack) \in Nat \ {0} /\ stack[1] \in S /\ 1 \in DOMAIN stack /\ \A j \in DOMAIN items : items[j] \in I
  BY <1>2
<1>4. n \in Levels /\ L(n) = stack[1] /\ n \in Nat \ {0} /\ Levels = 1..n
  <2>1. Len(stack) + 1 - n = 1
    BY <1>3
  <2> QED BY <1>3, <2>1 DEF Levels, L
<1>5. i = stack[1].item /\ stack[1].item \in DOMAIN items /\ stack[1].get \in DOMAIN gets
  BY <1>3, <1>4 DEF S, FrameSet
<1> QED BY <1>1, <1>3, <1>4, <1>5 DEF S, I

\* Fields of frames and items.
LEMMA FrameIs ==
  ASSUME NEW x \in FrameSet,
         NEW p \in {"asyncGet", "load", "each", "onload", "result", "return"},
         NEW r, r = [x EXCEPT !.pc = p]
  PROVE  r \in FrameSet /\ r.pc = p /\ r.item = x.item /\ r.get = x.get /\ r.next = x.next
BY DEF FrameSet

\* The running call goes on, and its item may change but for its name.
LEMMA StepGoes ==
  ASSUME CacheInv, stack # <<>>, NEW n, n = Len(stack), NEW i, i = stack[1].item,
         NEW p \in {"asyncGet", "load", "each", "onload", "result", "return"}, stack' = Cache!Goto(p),
         items' = [items EXCEPT ![i] = items'[i]], items'[i] \in Cache!Item,
         items'[i].name = items[i].name, items'[i].deleted = items[i].deleted,
         cache' = cache, gets' = gets, dangling' \in BOOLEAN, crashed' \in BOOLEAN
  PROVE  /\ Cache!TypeOK' /\ Distinct'
         /\ n \in Levels /\ n \in Nat \ {0} /\ Levels = 1..n /\ Levels' = 1..n
         /\ L(n) = stack[1] /\ L(n)'.pc = p /\ L(n)'.item = i /\ L(n)'.get = stack[1].get /\ L(n)'.next = stack[1].next
         /\ \A d \in 1..n : d # n => L(d)' = L(d)
         /\ DOMAIN items' = DOMAIN items
         /\ \A j \in DOMAIN items : j # i => items'[j] = items[j]
<1>1. L(n) = stack[1] /\ stack[1] \in FrameSet /\ 1 \in DOMAIN stack
  BY RunningIs
<1>2. PICK r : r = [stack[1] EXCEPT !.pc = p]
  OBVIOUS
<1>3. stack' = [stack EXCEPT ![1] = r]
  BY <1>2 DEF Cache!Goto
<1>4. stack'[1] = r /\ stack' = [stack EXCEPT ![1] = stack'[1]]
  BY <1>1, <1>3
<1>5. r \in FrameSet /\ r.pc = p /\ r.item = i /\ r.get = stack[1].get /\ r.next = stack[1].next
  BY <1>1, <1>2, FrameIs
<1>6. i = L(n).item
  BY <1>1
<1>7. stack'[1] \in FrameSet
  BY <1>4, <1>5
<1>8. /\ Cache!TypeOK' /\ Distinct'
      /\ n \in Levels /\ n \in Nat \ {0} /\ Levels = 1..n /\ Levels' = 1..n /\ L(n)' = stack'[1] /\ L(n) = stack[1]
      /\ \A d \in 1..n : d # n => L(d)' = L(d)
      /\ DOMAIN items' = DOMAIN items
      /\ \A j \in DOMAIN items : j # i => items'[j] = items[j]
  BY <1>4, <1>6, <1>7, StepIs
<1> QED BY <1>4, <1>5, <1>8

\* An item with another state, size and waiting calls.
LEMMA ItemIs ==
  ASSUME NEW x \in Cache!Item, NEW y, NEW s \in {"unloaded", "loading", "loaded"}, NEW z \in Nat, NEW o \in Seq(Nat),
         NEW t \in SUBSET Texts,
         y = [name |-> x.name, state |-> s, text |-> t, size |-> z, observers |-> o, deleted |-> x.deleted]
  PROVE  y \in Cache!Item
BY DEF Cache!Item

LEMMA FieldsAre ==
  ASSUME NEW x \in Cache!Item
  PROVE  /\ x = [name |-> x.name, state |-> x.state, text |-> x.text, size |-> x.size, observers |-> x.observers,
                deleted |-> x.deleted]
         /\ x.text \in SUBSET Texts
<1> DEFINE O == Seq(Nat)
<1>1. x \in [name : Texts, state : {"unloaded", "loading", "loaded"}, text : SUBSET Texts, size : Nat, observers : O, deleted : BOOLEAN]
  BY DEF Cache!Item
<1> HIDE DEF O
<1> QED BY <1>1

\* The first caller starts to load.
LEMMA Loading ==
  ASSUME CacheInv, Cache!asyncGet, items[stack[1].item].state = "unloaded"
  PROVE  CacheInv'
<1>1. /\ stack # <<>> /\ stack[1].pc = "asyncGet" /\ gets' = gets /\ cache' = cache
      /\ dangling' \in BOOLEAN /\ crashed' \in BOOLEAN
  BY DEF Cache!asyncGet, Cache!Top, CacheInv, Cache!TypeOK
<1>2. PICK n : n = Len(stack)
  OBVIOUS
<1>3. PICK i : i = stack[1].item
  OBVIOUS
<1> DEFINE asker == stack[1].get
<1>4. /\ i \in DOMAIN items /\ items[i] \in Cache!Item /\ asker \in DOMAIN gets /\ asker \in Nat
      /\ L(n) = stack[1] /\ n \in Levels
  BY <1>1, <1>2, <1>3, RunningIs
<1>5. \A d \in Levels : L(d).item \in DOMAIN items
  BY FramesAre DEF FrameSet
<1>6. items[i].state = "unloaded" /\ stack' = Cache!Goto("load")
      /\ items' = [items EXCEPT ![i].state = "loading", ![i].observers = <<asker>>]
  BY <1>3 DEF Cache!asyncGet, Cache!Waiting, Cache!Top
<1>7. items'[i] = [items[i] EXCEPT !.state = "loading", !.observers = <<asker>>]
      /\ items' = [items EXCEPT ![i] = items'[i]]
  BY <1>4, <1>6
<1>8. <<asker>> \in Seq(Nat) /\ <<asker>> \in Seq(DOMAIN gets) /\ Len(<<asker>>) = 1 /\ <<asker>>[1] = asker
  BY <1>4
<1>8a. PICK O : O = <<asker>>
  OBVIOUS
<1> HIDE DEF asker
<1>9. /\ items'[i] \in Cache!Item /\ items'[i].name = items[i].name /\ items'[i].deleted = items[i].deleted
      /\ items'[i].state = "loading" /\ items'[i].observers = O
  <2>1. items[i] = [name |-> items[i].name, state |-> items[i].state, text |-> items[i].text, size |-> items[i].size,
                    observers |-> items[i].observers, deleted |-> items[i].deleted]
        /\ items[i].size \in Nat /\ items[i].text \in SUBSET Texts
    BY <1>4, FieldsAre DEF Cache!Item
  <2>2. items'[i] = [name |-> items[i].name, state |-> "loading", text |-> items[i].text, size |-> items[i].size,
                     observers |-> O, deleted |-> items[i].deleted]
    BY <1>7, <1>8a, <2>1
  <2>3. items'[i] \in Cache!Item
    BY <1>4, <1>8, <1>8a, <2>1, <2>2, ItemIs
  <2> QED BY <2>2, <2>3
<1>10. /\ Cache!TypeOK' /\ Distinct'
       /\ n \in Levels /\ n \in Nat \ {0} /\ Levels = 1..n /\ Levels' = 1..n
       /\ L(n)'.pc = "load" /\ L(n)'.item = i /\ L(n)'.get = asker /\ L(n)'.next = stack[1].next
       /\ \A d \in 1..n : d # n => L(d)' = L(d)
       /\ DOMAIN items' = DOMAIN items
       /\ \A j \in DOMAIN items : j # i => items'[j] = items[j]
  <2>1. "load" \in {"asyncGet", "load", "each", "onload", "result", "return"}
    OBVIOUS
  <2>2. /\ Cache!TypeOK' /\ Distinct'
        /\ n \in Levels /\ n \in Nat \ {0} /\ Levels = 1..n /\ Levels' = 1..n
        /\ L(n)'.pc = "load" /\ L(n)'.item = i /\ L(n)'.get = stack[1].get /\ L(n)'.next = stack[1].next
        /\ \A d \in 1..n : d # n => L(d)' = L(d)
        /\ DOMAIN items' = DOMAIN items
        /\ \A j \in DOMAIN items : j # i => items'[j] = items[j]
    <3>1. stack # <<>> /\ n = Len(stack) /\ i = stack[1].item /\ stack' = Cache!Goto("load") /\ gets' = gets
          /\ cache' = cache /\ dangling' \in BOOLEAN /\ crashed' \in BOOLEAN
          /\ items' = [items EXCEPT ![i] = items'[i]]
      BY <1>1, <1>2, <1>3, <1>6, <1>7
    <3>2. items'[i] \in Cache!Item /\ items'[i].name = items[i].name /\ items'[i].deleted = items[i].deleted
      BY <1>9
    <3> QED BY <2>1, <3>1, <3>2, StepGoes
  <2> QED BY <2>2 DEF asker
<1>11. \A d \in Levels : d # n /\ Loads(d) => L(d).item # i
  BY <1>6 DEF CacheInv, LoadedOnce, Loads
<1>12. \A d \in Levels : d # n /\ Loads(d) => items'[L(d).item] = items[L(d).item]
  BY <1>5, <1>10, <1>11
<1>13. Observers(n)' = O /\ Loads(n)' /\ L(n)'.next = 1 /\ ~Loads(n)
  <2>1. L(n).next = 1
    BY <1>1, <1>4 DEF CacheInv, LoadedOnce
  <2> QED BY <1>1, <1>4, <1>9, <1>10, <2>1 DEF Loads, Observers
<1>14. LoadedOnce'
  <2>1. \A d \in Levels : d # n => (Loads(d)' <=> Loads(d)) /\ (Loads(d) => Observers(d)' = Observers(d))
    BY <1>10, <1>12 DEF Loads, Observers
  <2>3. ASSUME NEW d \in Levels' PROVE
         /\ L(d)'.pc = "load" => items'[L(d)'.item].state = "loading"
         /\ L(d)'.pc = "each" => items'[L(d)'.item].state = "loaded"
         /\ L(d)'.pc \in {"asyncGet", "load"} => L(d)'.next = 1
         /\ Loads(d)' =>
              L(d)'.next >= 1 /\ Len(Observers(d)') >= 1 /\ (L(d)'.next = 1 => Observers(d)'[1] = L(d)'.get)
    <3>1. CASE d = n
      <4>1. Len(O) = 1 /\ O[1] = asker
        BY <1>8, <1>8a
      <4>2. Observers(d)' = O /\ L(d)'.pc = "load" /\ L(d)'.get = asker /\ L(d)'.next = 1
            /\ items'[L(d)'.item].state = "loading"
        BY <1>9, <1>10, <1>13, <3>1
      <4>3. Len(Observers(d)') = 1 /\ Observers(d)'[1] = asker
        BY <4>1, <4>2
      <4> QED BY <4>2, <4>3
    <3>2. CASE d # n
      BY <1>10, <1>12, <2>1, <3>2 DEF CacheInv, LoadedOnce, Loads
    <3> QED BY <3>1, <3>2
  <2>4. \A d, e \in Levels' : Loads(d)' /\ Loads(e)' /\ L(d)'.item = L(e)'.item => d = e
    BY <1>10, <1>11, <2>1 DEF CacheInv, LoadedOnce
  <2>5. ASSUME NEW j \in DOMAIN items', items'[j].state = "loading"
        PROVE  \E d \in Levels' : L(d)'.pc = "load" /\ L(d)'.item = j
    <3>1. CASE j = i
      BY <1>10, <3>1
    <3>2. CASE j # i
      <4>1. PICK d \in Levels : L(d).pc = "load" /\ L(d).item = j
        BY <1>10, <2>5, <3>2 DEF CacheInv, LoadedOnce
      <4>2. d # n
        BY <1>1, <1>4, <4>1
      <4> QED BY <1>10, <4>1, <4>2
    <3> QED BY <3>1, <3>2
  <2> QED BY <2>3, <2>4, <2>5 DEF LoadedOnce
<1>15. OneAnswer'
  <2>1. \A g, k : (Has(g, n, k) <=> k = 0 /\ g = asker) /\ (Has(g, n, k)' <=> k = 1 /\ g = asker)
    <3>1. \A g, k : Has(g, n, k) <=> k = 0 /\ g = asker
      BY <1>1, <1>4, <1>13 DEF Has, asker
    <3>2. \A g, k : Has(g, n, k)' <=> k \in 1..1 /\ k >= 1 /\ O[k] = g
      BY <1>8a, <1>8, <1>10, <1>13 DEF Has
    <3>3. \A k : k \in 1..1 <=> k = 1
      OBVIOUS
    <3> QED BY <1>8, <1>8a, <3>1, <3>2, <3>3
  <2>2. \A d : d # n => \A g, k : Has(g, d, k)' <=> Has(g, d, k)
    <3>1. ASSUME NEW d, d # n PROVE \A g, k : Has(g, d, k)' <=> Has(g, d, k)
      <4>1. CASE d \in Levels
        BY <1>10, <1>12, <3>1, <4>1, HasBelow
      <4>2. CASE d \notin Levels
        BY <1>10, <4>2 DEF Has
      <4> QED BY <4>1, <4>2
    <3> QED BY <3>1
  <2>3. \A g, d, k : Has(g, d, k)' <=> (Has(g, d, k) /\ ~(d = n /\ k = 0)) \/ (g = asker /\ d = n /\ k = 1)
    BY <2>1, <2>2
  <2>4. Has(asker, n, 0) /\ \A g : g # asker => ~Has(g, n, 0)
    BY <2>1
  <2>5. \A j \in DOMAIN items' : items'[j].observers \in Seq(DOMAIN gets)
    <3>1. ASSUME NEW j \in DOMAIN items PROVE items'[j].observers \in Seq(DOMAIN gets)
      BY <1>8a, <1>8, <1>9, <1>10 DEF CacheInv, OneAnswer
    <3> QED BY <1>10, <3>1
  <2>6. OneAnswer /\ n \in Nat
    BY <1>10 DEF CacheInv
  <2> QED BY <1>1, <2>3, <2>4, <2>5, <2>6, HasMoves
<1>16. Told'
  <2>1. L(n).pc # "onload"
    BY <1>1, <1>4
  <2> QED BY <1>1, <1>2, <1>10, <2>1, ToldStays
<1>17. Fits'
  BY <1>10 DEF Fits, Presses
<1> QED BY <1>10, <1>14, <1>15, <1>16, <1>17 DEF CacheInv

\* Who asks while the text is being loaded waits.
LEMMA Joining ==
  ASSUME CacheInv, Cache!asyncGet, items[stack[1].item].state = "loading"
  PROVE  CacheInv'
<1>1. /\ stack # <<>> /\ stack[1].pc = "asyncGet" /\ gets' = gets /\ cache' = cache
      /\ dangling' \in BOOLEAN /\ crashed' \in BOOLEAN
  BY DEF Cache!asyncGet, Cache!Top, CacheInv, Cache!TypeOK
<1>2. PICK n : n = Len(stack)
  OBVIOUS
<1>3. PICK i : i = stack[1].item
  OBVIOUS
<1>4. PICK asker : asker = stack[1].get
  OBVIOUS
<1>5. /\ i \in DOMAIN items /\ items[i] \in Cache!Item /\ asker \in DOMAIN gets /\ asker \in Nat
      /\ L(n) = stack[1] /\ n \in Levels /\ n \in Nat \ {0} /\ Levels = 1..n
  BY <1>1, <1>2, <1>3, <1>4, RunningIs
<1>6. \A d \in Levels : L(d).item \in DOMAIN items
  BY FramesAre DEF FrameSet
<1>7. items[i].state = "loading" /\ stack' = Cache!Goto("return")
      /\ items' = [items EXCEPT ![i].observers = Append(@, asker)]
  BY <1>3, <1>4 DEF Cache!asyncGet, Cache!Waiting, Cache!Top
<1>8. PICK o : o = items[i].observers
  OBVIOUS
<1>9. PICK O : O = Append(o, asker)
  OBVIOUS
<1>10. PICK m \in Nat : m = Len(o)
  BY <1>5, <1>8 DEF Cache!Item
<1>11. /\ O \in Seq(Nat) /\ O \in Seq(DOMAIN gets) /\ Len(O) = m + 1 /\ O[m + 1] = asker
       /\ \A k \in 1..m : O[k] = o[k]
  <2>1. o \in Seq(Nat) /\ o \in Seq(DOMAIN gets)
    BY <1>5, <1>8 DEF Cache!Item, CacheInv, OneAnswer
  <2> QED BY <1>5, <1>9, <1>10, <2>1
<1>12. items'[i] = [items[i] EXCEPT !.observers = O] /\ items' = [items EXCEPT ![i] = items'[i]]
  BY <1>5, <1>7, <1>8, <1>9
<1>13. /\ items'[i] \in Cache!Item /\ items'[i].name = items[i].name /\ items'[i].deleted = items[i].deleted
       /\ items'[i].state = "loading" /\ items'[i].observers = O /\ items'[i].size = items[i].size
  <2>1. items[i] = [name |-> items[i].name, state |-> items[i].state, text |-> items[i].text, size |-> items[i].size,
                    observers |-> items[i].observers, deleted |-> items[i].deleted]
        /\ items[i].size \in Nat /\ items[i].text \in SUBSET Texts
    BY <1>5, FieldsAre DEF Cache!Item
  <2>2. items'[i] = [name |-> items[i].name, state |-> "loading", text |-> items[i].text, size |-> items[i].size,
                     observers |-> O, deleted |-> items[i].deleted]
    BY <1>7, <1>12, <2>1
  <2>3. items'[i] \in Cache!Item
    BY <1>5, <1>11, <2>1, <2>2, ItemIs
  <2> QED BY <2>2, <2>3
<1>14. /\ Cache!TypeOK' /\ Distinct' /\ Levels' = 1..n
       /\ L(n)'.pc = "return" /\ L(n)'.item = i /\ L(n)'.get = asker /\ L(n)'.next = stack[1].next
       /\ \A d \in 1..n : d # n => L(d)' = L(d)
       /\ DOMAIN items' = DOMAIN items
       /\ \A j \in DOMAIN items : j # i => items'[j] = items[j]
  <2>1. "return" \in {"asyncGet", "load", "each", "onload", "result", "return"}
    OBVIOUS
  <2>2. stack # <<>> /\ n = Len(stack) /\ i = stack[1].item /\ stack' = Cache!Goto("return") /\ gets' = gets
        /\ cache' = cache /\ dangling' \in BOOLEAN /\ crashed' \in BOOLEAN
        /\ items' = [items EXCEPT ![i] = items'[i]]
    BY <1>1, <1>2, <1>3, <1>7, <1>12
  <2>3. items'[i] \in Cache!Item /\ items'[i].name = items[i].name /\ items'[i].deleted = items[i].deleted
    BY <1>13
  <2>4. /\ Cache!TypeOK' /\ Distinct' /\ Levels' = 1..n
        /\ L(n)'.pc = "return" /\ L(n)'.item = i /\ L(n)'.get = stack[1].get /\ L(n)'.next = stack[1].next
        /\ \A d \in 1..n : d # n => L(d)' = L(d)
        /\ DOMAIN items' = DOMAIN items
        /\ \A j \in DOMAIN items : j # i => items'[j] = items[j]
    BY <2>1, <2>2, <2>3, StepGoes
  <2> QED BY <1>4, <2>4
<1>15. PICK e \in Levels : L(e).pc = "load" /\ L(e).item = i
  BY <1>5, <1>7 DEF CacheInv, LoadedOnce
<1>16. e # n /\ e \in 1..(n - 1) /\ e \in Nat
  BY <1>1, <1>5, <1>15
<1>17. \A d \in Levels : d # e /\ Loads(d) => L(d).item # i /\ items'[L(d).item] = items[L(d).item]
  <2>1. \A d \in Levels : d # e /\ Loads(d) => L(d).item # i
    BY <1>15 DEF CacheInv, LoadedOnce, Loads
  <2> QED BY <1>6, <1>14, <2>1
<1>18. /\ Observers(e) = o /\ Observers(e)' = O /\ L(e)' = L(e) /\ Loads(e) /\ Loads(e)' /\ ~Loads(n) /\ ~Loads(n)'
       /\ L(e).next = 1 /\ m >= 1 /\ o[1] = L(e).get
  <2>1. Observers(e) = o /\ Observers(e)' = O /\ L(e)' = L(e) /\ Loads(e) /\ Loads(e)'
    BY <1>5, <1>8, <1>13, <1>14, <1>15, <1>16 DEF Observers, Loads
  <2>2. L(e).next = 1 /\ Len(Observers(e)) >= 1 /\ Observers(e)[1] = L(e).get
    BY <1>15, <2>1 DEF CacheInv, LoadedOnce
  <2>3. ~Loads(n) /\ ~Loads(n)'
    BY <1>1, <1>5, <1>14 DEF Loads
  <2> QED BY <1>10, <2>1, <2>2, <2>3
<1>19. \A d \in Levels : (Loads(d)' <=> Loads(d)) /\ (d # e /\ Loads(d) => Observers(d)' = Observers(d) /\ L(d)' = L(d))
  <2>1. \A d \in Levels : d # n => L(d)' = L(d)
    BY <1>5, <1>14
  <2> QED BY <1>17, <1>18, <2>1 DEF Loads, Observers
<1>20. LoadedOnce'
  <2>1. ASSUME NEW d \in Levels PROVE
         /\ L(d)'.pc = "load" => items'[L(d)'.item].state = "loading"
         /\ L(d)'.pc = "each" => items'[L(d)'.item].state = "loaded"
         /\ L(d)'.pc \in {"asyncGet", "load"} => L(d)'.next = 1
         /\ Loads(d)' =>
              L(d)'.next >= 1 /\ Len(Observers(d)') >= 1 /\ (L(d)'.next = 1 => Observers(d)'[1] = L(d)'.get)
    <3>1. CASE d = n
      BY <1>14, <1>18, <3>1
    <3>2. CASE d = e
      <4>1. Len(Observers(d)') >= 1 /\ Observers(d)'[1] = L(d)'.get /\ L(d)'.next = 1 /\ L(d)' = L(d) /\ L(d).pc = "load"
        BY <1>10, <1>11, <1>15, <1>18, <3>2
      <4> QED BY <1>13, <1>15, <3>2, <4>1
    <3>3. CASE d # n /\ d # e
      <4>1. L(d)' = L(d)
        BY <1>5, <1>14, <3>3
      <4>2. CASE Loads(d)
        BY <1>17, <1>19, <3>3, <4>1, <4>2 DEF CacheInv, LoadedOnce
      <4>3. CASE ~Loads(d)
        BY <1>19, <3>3, <4>1, <4>3 DEF CacheInv, LoadedOnce, Loads
      <4> QED BY <4>2, <4>3
    <3> QED BY <3>1, <3>2, <3>3
  <2>2. \A d, e1 \in Levels' : Loads(d)' /\ Loads(e1)' /\ L(d)'.item = L(e1)'.item => d = e1
    <3>1. \A d \in Levels : Loads(d)' => Loads(d) /\ L(d)' = L(d)
      BY <1>18, <1>19
    <3> QED BY <1>5, <1>14, <3>1 DEF CacheInv, LoadedOnce
  <2>3. ASSUME NEW j \in DOMAIN items', items'[j].state = "loading"
        PROVE  \E d \in Levels' : L(d)'.pc = "load" /\ L(d)'.item = j
    <3>1. items[j].state = "loading" /\ j \in DOMAIN items
      BY <1>7, <1>14, <2>3
    <3>2. PICK d \in Levels : L(d).pc = "load" /\ L(d).item = j
      BY <3>1 DEF CacheInv, LoadedOnce
    <3>3. d # n
      BY <1>1, <1>5, <3>2
    <3> QED BY <1>5, <1>14, <3>2, <3>3
  <2> QED BY <1>5, <1>14, <2>1, <2>2, <2>3 DEF LoadedOnce
<1>21. OneAnswer'
  <2>1. \A g, k : (Has(g, n, k) <=> k = 0 /\ g = asker) /\ ~Has(g, n, k)'
    BY <1>1, <1>4, <1>5, <1>14, <1>18 DEF Has
  <2>2. \A d : d # n /\ d # e => \A g, k : Has(g, d, k)' <=> Has(g, d, k)
    <3>1. ASSUME NEW d, d # n, d # e PROVE \A g, k : Has(g, d, k)' <=> Has(g, d, k)
      <4>1. CASE d \in Levels
        <5>1. L(d)' = L(d) /\ Levels' = Levels
          BY <1>5, <1>14, <3>1, <4>1
        <5> QED BY <1>17, <3>1, <4>1, <5>1, HasBelow
      <4>2. CASE d \notin Levels
        BY <1>5, <1>14, <4>2 DEF Has
      <4> QED BY <4>1, <4>2
    <3> QED BY <3>1
  <2>3. \A g, k : Has(g, e, k)' <=> Has(g, e, k) \/ (g = asker /\ k = m + 1)
    <3>1. \A g, k : Has(g, e, k) <=> k \in 1..m /\ k >= 1 /\ o[k] = g
      BY <1>10, <1>15, <1>18 DEF Has
    <3>2. \A g, k : Has(g, e, k)' <=> k \in 1..(m + 1) /\ k >= 1 /\ O[k] = g
      BY <1>5, <1>11, <1>14, <1>15, <1>18 DEF Has
    <3>3. \A k : k \in 1..(m + 1) <=> k \in 1..m \/ k = m + 1
      BY <1>10
    <3> QED BY <1>10, <1>11, <3>1, <3>2, <3>3
  <2>4. \A g, d, k : Has(g, d, k)' <=> (Has(g, d, k) /\ ~(d = n /\ k = 0)) \/ (g = asker /\ d = e /\ k = m + 1)
    BY <1>16, <2>1, <2>2, <2>3
  <2>5. Has(asker, n, 0) /\ \A g : g # asker => ~Has(g, n, 0)
    BY <2>1
  <2>6. \A j \in DOMAIN items' : items'[j].observers \in Seq(DOMAIN gets)
    <3>1. ASSUME NEW j \in DOMAIN items PROVE items'[j].observers \in Seq(DOMAIN gets)
      BY <1>11, <1>13, <1>14 DEF CacheInv, OneAnswer
    <3> QED BY <1>14, <3>1
  <2>7. OneAnswer /\ n \in Nat /\ m + 1 \in Nat
    BY <1>5, <1>10 DEF CacheInv
  <2> QED BY <1>1, <1>16, <2>4, <2>5, <2>6, <2>7, HasMoves
<1>22. Told'
  <2>1. L(n).pc # "onload" /\ L(n)'.pc # "result" /\ L(n)'.pc # "each"
    BY <1>1, <1>5, <1>14
  <2>2. L(e)'.pc = "load" /\ L(e)'.item = L(n)'.item
    BY <1>14, <1>15, <1>18
  <2>3. \A d \in Levels : d # n => L(d)' = L(d)
    BY <1>5, <1>14
  <2> QED BY <1>1, <1>2, <1>5, <1>14, <1>16, <2>1, <2>2, <2>3, ToldStays
<1>23. Fits'
  BY <1>5, <1>14, <1>15, <1>18 DEF Fits, Presses
<1> QED BY <1>14, <1>20, <1>21, <1>22, <1>23 DEF CacheInv

\* Whose text is there is answered next.
LEMMA Known ==
  ASSUME CacheInv, Cache!asyncGet, items[stack[1].item].state = "loaded"
  PROVE  CacheInv'
<1>1. /\ stack # <<>> /\ stack[1].pc = "asyncGet" /\ gets' = gets /\ cache' = cache
      /\ dangling' \in BOOLEAN /\ crashed' \in BOOLEAN
  BY DEF Cache!asyncGet, Cache!Top, CacheInv, Cache!TypeOK
<1>2. PICK n : n = Len(stack)
  OBVIOUS
<1>3. PICK i : i = stack[1].item
  OBVIOUS
<1>4. /\ i \in DOMAIN items /\ items[i] \in Cache!Item
      /\ L(n) = stack[1] /\ n \in Levels /\ n \in Nat \ {0} /\ Levels = 1..n
  BY <1>1, <1>2, <1>3, RunningIs
<1>5. stack' = Cache!Goto("onload") /\ items' = items
  BY DEF Cache!asyncGet, Cache!Top
<1>6. items' = [items EXCEPT ![i] = items'[i]] /\ items'[i] = items[i]
  <2>1. items \in Seq(Cache!Item)
    BY FramesAre
  <2> DEFINE I == Cache!Item
  <2> HIDE DEF I
  <2>2. items \in Seq(I)
    BY <2>1 DEF I
  <2> QED BY <1>4, <1>5, <2>2
<1>7. /\ Cache!TypeOK' /\ Distinct' /\ Levels' = 1..n
      /\ L(n)'.pc = "onload" /\ L(n)'.item = i /\ L(n)'.get = stack[1].get /\ L(n)'.next = stack[1].next
      /\ \A d \in 1..n : d # n => L(d)' = L(d)
  <2>1. "onload" \in {"asyncGet", "load", "each", "onload", "result", "return"}
    OBVIOUS
  <2>2. stack # <<>> /\ n = Len(stack) /\ i = stack[1].item /\ stack' = Cache!Goto("onload") /\ gets' = gets
        /\ cache' = cache /\ dangling' \in BOOLEAN /\ crashed' \in BOOLEAN
        /\ items' = [items EXCEPT ![i] = items'[i]]
    BY <1>1, <1>2, <1>3, <1>5, <1>6
  <2>3. items'[i] \in Cache!Item /\ items'[i].name = items[i].name /\ items'[i].deleted = items[i].deleted
    BY <1>4, <1>6
  <2> QED BY <2>1, <2>2, <2>3, StepGoes
<1>8. Levels' = Levels /\ \A d \in Levels : (Loads(d)' <=> Loads(d)) /\ (Loads(d) => L(d)' = L(d) /\ Observers(d)' = Observers(d))
  <2>1. ~Loads(n) /\ ~Loads(n)' /\ \A d \in Levels : d # n => L(d)' = L(d)
    BY <1>1, <1>4, <1>7 DEF Loads
  <2> QED BY <1>4, <1>5, <1>7, <2>1 DEF Loads, Observers
<1>9. LoadedOnce'
  <2>1. ASSUME NEW d \in Levels PROVE
         /\ L(d)'.pc = "load" => items'[L(d)'.item].state = "loading"
         /\ L(d)'.pc = "each" => items'[L(d)'.item].state = "loaded"
         /\ L(d)'.pc \in {"asyncGet", "load"} => L(d)'.next = 1
         /\ Loads(d)' =>
              L(d)'.next >= 1 /\ Len(Observers(d)') >= 1 /\ (L(d)'.next = 1 => Observers(d)'[1] = L(d)'.get)
    <3>1. CASE d = n
      BY <1>7, <3>1 DEF Loads
    <3>2. CASE d # n
      <4>1. L(d)' = L(d) /\ (Loads(d)' <=> Loads(d)) /\ (Loads(d) => Observers(d)' = Observers(d))
        BY <1>4, <1>7, <1>8, <3>2
      <4> QED BY <1>5, <4>1 DEF CacheInv, LoadedOnce
    <3> QED BY <3>1, <3>2
  <2>2. \A d, e \in Levels' : Loads(d)' /\ Loads(e)' /\ L(d)'.item = L(e)'.item => d = e
    BY <1>8 DEF CacheInv, LoadedOnce
  <2>3. ASSUME NEW j \in DOMAIN items', items'[j].state = "loading"
        PROVE  \E d \in Levels' : L(d)'.pc = "load" /\ L(d)'.item = j
    <3>1. PICK d \in Levels : L(d).pc = "load" /\ L(d).item = j
      BY <1>5, <2>3 DEF CacheInv, LoadedOnce
    <3> QED BY <1>8, <3>1 DEF Loads
  <2> QED BY <1>8, <2>1, <2>2, <2>3 DEF LoadedOnce
<1>10. OneAnswer'
  <2>1. \A g, k : Has(g, n, k)' <=> Has(g, n, k)
    <3>1. ~Loads(n) /\ ~Loads(n)'
      BY <1>1, <1>4, <1>7 DEF Loads
    <3> QED BY <1>1, <1>4, <1>7, <3>1 DEF Has
  <2>2. ASSUME NEW d, d # n PROVE \A g, k : Has(g, d, k)' <=> Has(g, d, k)
    <3>1. CASE d \in Levels
      <4>1. L(d)' = L(d)
        BY <1>4, <1>7, <2>2, <3>1
      <4> QED BY <1>5, <1>8, <3>1, <4>1, HasBelow
    <3>2. CASE d \notin Levels
      BY <1>8, <3>2 DEF Has
    <3> QED BY <3>1, <3>2
  <2>3. \A g, d, k : Has(g, d, k)' <=> Has(g, d, k)
    BY <2>1, <2>2
  <2>4. \A j \in DOMAIN items' : items'[j].observers \in Seq(DOMAIN gets)
    BY <1>5 DEF CacheInv, OneAnswer
  <2>5. OneAnswer
    BY DEF CacheInv
  <2> QED BY <1>1, <2>3, <2>4, <2>5, HasStays
<1>11. Told'
  <2>1. L(n).pc # "onload" /\ L(n)'.pc # "result" /\ L(n)'.pc # "each" /\ L(n)'.pc # "return"
    BY <1>1, <1>4, <1>7
  <2>2. \A d \in Levels : d # n => L(d)' = L(d)
    BY <1>4, <1>7
  <2> QED BY <1>1, <1>2, <1>8, <2>1, <2>2, ToldStays
<1>12. Fits'
  BY <1>4, <1>7 DEF Fits, Presses
<1> QED BY <1>7, <1>9, <1>10, <1>11, <1>12 DEF CacheInv

\* The text is there, and they will be told who waited.
LEMMA LoadedKeeps ==
  ASSUME CacheInv, Cache!Loaded
  PROVE  CacheInv'
<1>1. /\ stack # <<>> /\ stack[1].pc = "load" /\ gets' = gets /\ cache' = cache
      /\ dangling' \in BOOLEAN /\ crashed' \in BOOLEAN
  BY DEF Cache!Loaded, Cache!Top, CacheInv, Cache!TypeOK
<1>2. PICK n : n = Len(stack)
  OBVIOUS
<1>3. PICK i : i = stack[1].item
  OBVIOUS
<1>4. /\ i \in DOMAIN items /\ items[i] \in Cache!Item
      /\ L(n) = stack[1] /\ n \in Levels /\ n \in Nat \ {0} /\ Levels = 1..n
  BY <1>1, <1>2, <1>3, RunningIs
<1>4a. PICK a : a = gets[stack[1].get].name
  OBVIOUS
<1>5. PICK z : z = Cache!SizeOf(a)
  OBVIOUS
<1>6. z \in Nat /\ {a} \in SUBSET Texts
  <2>1. a \in Texts
    <3> DEFINE G == Cache!Call
    <3>1. gets \in Seq(G) /\ stack[1].get \in DOMAIN gets
      BY <1>1, FramesAre, RunningIs DEF FrameSet
    <3> HIDE DEF G
    <3>2. gets[stack[1].get] \in G
      BY <3>1
    <3> QED BY <1>4a, <3>2 DEF G, Cache!Call
  <2> QED BY <1>5, <2>1, CacheConstants DEF Cache!SizeOf, Cache!CacheAssumption
<1>7. stack' = Cache!Goto("each") /\ items' = [items EXCEPT ![i].state = "loaded", ![i].text = {a}, ![i].size = z]
  BY <1>3, <1>4a, <1>5 DEF Cache!Loaded, Cache!Top
<1>8. items' = [items EXCEPT ![i] = items'[i]] /\ items'[i] = [items[i] EXCEPT !.state = "loaded", !.text = {a}, !.size = z]
  BY <1>4, <1>7
<1>9. /\ items'[i] \in Cache!Item /\ items'[i].name = items[i].name /\ items'[i].deleted = items[i].deleted
      /\ items'[i].state = "loaded" /\ items'[i].observers = items[i].observers
  <2>1. items[i] = [name |-> items[i].name, state |-> items[i].state, text |-> items[i].text, size |-> items[i].size,
                    observers |-> items[i].observers, deleted |-> items[i].deleted]
        /\ items[i].observers \in Seq(Nat) /\ items[i].text \in SUBSET Texts
    BY <1>4, FieldsAre DEF Cache!Item
  <2>2. items'[i] = [name |-> items[i].name, state |-> "loaded", text |-> {a}, size |-> z,
                     observers |-> items[i].observers, deleted |-> items[i].deleted]
    BY <1>8, <2>1
  <2>3. items'[i] \in Cache!Item
    BY <1>4, <1>6, <2>1, <2>2, ItemIs
  <2> QED BY <2>2, <2>3
<1>10. /\ Cache!TypeOK' /\ Distinct' /\ Levels' = 1..n
       /\ L(n)'.pc = "each" /\ L(n)'.item = i /\ L(n)'.get = stack[1].get /\ L(n)'.next = stack[1].next
       /\ \A d \in 1..n : d # n => L(d)' = L(d)
       /\ DOMAIN items' = DOMAIN items
       /\ \A j \in DOMAIN items : j # i => items'[j] = items[j]
  <2>1. "each" \in {"asyncGet", "load", "each", "onload", "result", "return"}
    OBVIOUS
  <2>2. stack # <<>> /\ n = Len(stack) /\ i = stack[1].item /\ stack' = Cache!Goto("each") /\ gets' = gets
        /\ cache' = cache /\ dangling' \in BOOLEAN /\ crashed' \in BOOLEAN
        /\ items' = [items EXCEPT ![i] = items'[i]]
    BY <1>1, <1>2, <1>3, <1>7, <1>8
  <2>3. items'[i] \in Cache!Item /\ items'[i].name = items[i].name /\ items'[i].deleted = items[i].deleted
    BY <1>9
  <2> QED BY <2>1, <2>2, <2>3, StepGoes
<1>11. \A d \in Levels : L(d).item \in DOMAIN items
  BY FramesAre DEF FrameSet
<1>12. Levels' = Levels /\ \A d \in Levels : d # n => L(d)' = L(d)
  BY <1>4, <1>10
<1>13. Loads(n) /\ Loads(n)' /\ Observers(n)' = Observers(n) /\ L(n)'.next = L(n).next /\ L(n).next = 1
       /\ L(n)'.get = L(n).get /\ L(n)'.item = L(n).item /\ L(n).item = i
  BY <1>1, <1>3, <1>4, <1>9, <1>10 DEF Loads, Observers, CacheInv, LoadedOnce
<1>14. \A d \in Levels : d # n /\ Loads(d) => L(d).item # i /\ items'[L(d).item] = items[L(d).item]
  <2>1. \A d \in Levels : d # n /\ Loads(d) => L(d).item # i
    BY <1>4, <1>13 DEF CacheInv, LoadedOnce
  <2> QED BY <1>10, <1>11, <2>1
<1>15. \A d \in Levels : /\ Loads(d)' <=> Loads(d)
                         /\ L(d)'.item = L(d).item /\ L(d)'.next = L(d).next /\ L(d)'.get = L(d).get
                         /\ Loads(d) => Observers(d)' = Observers(d)
  <2>1. ASSUME NEW d \in Levels, d # n PROVE (Loads(d)' <=> Loads(d)) /\ (Loads(d) => Observers(d)' = Observers(d))
    BY <1>12, <1>14, <2>1 DEF Loads, Observers
  <2> QED BY <1>12, <1>13, <2>1
<1>16. LoadedOnce'
  <2>1. ASSUME NEW d \in Levels PROVE
         /\ L(d)'.pc = "load" => items'[L(d)'.item].state = "loading"
         /\ L(d)'.pc = "each" => items'[L(d)'.item].state = "loaded"
         /\ L(d)'.pc \in {"asyncGet", "load"} => L(d)'.next = 1
         /\ Loads(d)' =>
              L(d)'.next >= 1 /\ Len(Observers(d)') >= 1 /\ (L(d)'.next = 1 => Observers(d)'[1] = L(d)'.get)
    <3>1. Loads(d)' =>
              L(d)'.next >= 1 /\ Len(Observers(d)') >= 1 /\ (L(d)'.next = 1 => Observers(d)'[1] = L(d)'.get)
      BY <1>15 DEF CacheInv, LoadedOnce
    <3>2. CASE d = n
      BY <1>9, <1>10, <3>1, <3>2
    <3>3. CASE d # n
      <4>1. L(d)' = L(d) /\ (Loads(d) => items'[L(d).item] = items[L(d).item])
        BY <1>12, <1>14, <3>3
      <4>2. /\ L(d).pc = "load" => items[L(d).item].state = "loading"
            /\ L(d).pc = "each" => items[L(d).item].state = "loaded"
            /\ L(d).pc \in {"asyncGet", "load"} => L(d).next = 1
        BY DEF CacheInv, LoadedOnce
      <4> QED BY <3>1, <4>1, <4>2 DEF Loads
    <3> QED BY <3>2, <3>3
  <2>2. \A d, e \in Levels' : Loads(d)' /\ Loads(e)' /\ L(d)'.item = L(e)'.item => d = e
    BY <1>12, <1>15 DEF CacheInv, LoadedOnce
  <2>3. ASSUME NEW j \in DOMAIN items', items'[j].state = "loading"
        PROVE  \E d \in Levels' : L(d)'.pc = "load" /\ L(d)'.item = j
    <3>1. j # i
      BY <1>9, <2>3
    <3>2. PICK d \in Levels : L(d).pc = "load" /\ L(d).item = j
      BY <1>10, <2>3, <3>1 DEF CacheInv, LoadedOnce
    <3>3. d # n
      BY <1>13, <3>1, <3>2
    <3> QED BY <1>12, <3>2, <3>3
  <2> QED BY <1>12, <2>1, <2>2, <2>3 DEF LoadedOnce
<1>17. OneAnswer'
  <2>1. \A g, k : Has(g, n, k)' <=> Has(g, n, k)
    BY <1>1, <1>4, <1>10, <1>12, <1>13 DEF Has
  <2>2. ASSUME NEW d, d # n PROVE \A g, k : Has(g, d, k)' <=> Has(g, d, k)
    <3>1. CASE d \in Levels
      BY <1>12, <1>14, <2>2, <3>1, HasBelow
    <3>2. CASE d \notin Levels
      BY <1>12, <3>2 DEF Has
    <3> QED BY <3>1, <3>2
  <2>3. \A g, d, k : Has(g, d, k)' <=> Has(g, d, k)
    BY <2>1, <2>2
  <2>4. \A j \in DOMAIN items' : items'[j].observers \in Seq(DOMAIN gets)
    <3>1. ASSUME NEW j \in DOMAIN items PROVE items'[j].observers \in Seq(DOMAIN gets)
      BY <1>9, <1>10 DEF CacheInv, OneAnswer
    <3> QED BY <1>10, <3>1
  <2>5. OneAnswer
    BY DEF CacheInv
  <2> QED BY <1>1, <2>3, <2>4, <2>5, HasStays
<1>18. Told'
  <2>1. L(n).pc # "onload" /\ L(n)'.pc # "result" /\ L(n)'.next = 1 /\ L(n)'.pc # "return"
    BY <1>1, <1>4, <1>10, <1>13
  <2> QED BY <1>1, <1>2, <1>12, <2>1, ToldStays
<1>19. Fits'
  <2>1. L(n)'.next <= Len(Observers(n)')
    BY <1>4, <1>13 DEF CacheInv, LoadedOnce
  <2> QED BY <1>4, <1>10, <1>12, <2>1 DEF Fits, Presses
<1> QED BY <1>10, <1>16, <1>17, <1>18, <1>19 DEF CacheInv

\* A frame on a frame that went on.
LEMMA PushedOn ==
  ASSUME NEW S, stack \in Seq(S), stack # <<>>, NEW r \in S, NEW f \in S,
         stack' = <<f>> \o [stack EXCEPT ![1] = r], NEW n, n = Len(stack)
  PROVE  /\ stack' \in Seq(S) /\ Len(stack') = n + 1
         /\ \A d \in 1..n : d # n => L(d)' = L(d)
         /\ L(n)' = r /\ L(n + 1)' = f
<1>1. PICK t : t = [stack EXCEPT ![1] = r]
  OBVIOUS
<1>2. /\ t \in Seq(S) /\ Len(t) = n /\ t[1] = r /\ n \in Nat \ {0}
      /\ \A k \in 2..n : t[k] = stack[k]
  BY <1>1
<1>3. /\ stack' \in Seq(S) /\ Len(stack') = n + 1 /\ stack'[1] = f
      /\ \A k \in 1..n : stack'[k + 1] = t[k]
  BY <1>1, <1>2
<1>4. ASSUME NEW d \in 1..n, d # n PROVE L(d)' = L(d)
  <2>0. n \in Nat /\ d \in 1..n /\ d # n
    BY <1>2, <1>4
  <2>1. PICK k : k = n + 1 - d
    OBVIOUS
  <2>1a. k \in 2..n
    BY <2>0, <2>1
  <2>2. Len(stack') + 1 - d = k + 1 /\ Len(stack) + 1 - d = k /\ k \in 1..n
    BY <1>2, <1>3, <2>1, <2>1a
  <2> QED BY <1>2, <1>3, <2>1a, <2>2 DEF L
<1>5. L(n)' = r
  <2>1. Len(stack') + 1 - n = 1 + 1 /\ 1 \in 1..n
    BY <1>2, <1>3
  <2> QED BY <1>2, <1>3, <2>1 DEF L
<1>6. L(n + 1)' = f
  <2>1. Len(stack') + 1 - (n + 1) = 1
    BY <1>2, <1>3
  <2> QED BY <1>3, <2>1 DEF L
<1> QED BY <1>3, <1>4, <1>5, <1>6

\* The next who waits is told.
LEMMA Telling ==
  ASSUME CacheInv, Cache!Each, stack[1].next <= Len(items[stack[1].item].observers)
  PROVE  CacheInv'
<1>1. stack # <<>> /\ stack[1].pc = "each" /\ gets' = gets /\ cache' = cache /\ crashed' = crashed
  BY DEF Cache!Each, Cache!Top
<1>1a. items' = items /\ dangling' \in BOOLEAN /\ crashed' \in BOOLEAN
  BY DEF Cache!Each, Cache!Top, CacheInv, Cache!TypeOK
<1>2. PICK n : n = Len(stack)
  OBVIOUS
<1>3. PICK i : i = stack[1].item
  OBVIOUS
<1>4. /\ i \in DOMAIN items /\ items[i] \in Cache!Item /\ stack[1] \in FrameSet
      /\ L(n) = stack[1] /\ n \in Levels /\ n \in Nat \ {0} /\ Levels = 1..n
  BY <1>1, <1>2, <1>3, RunningIs
<1>5. PICK o : o = items[i].observers
  OBVIOUS
<1>6. PICK x : x = stack[1].next
  OBVIOUS
<1>7. Loads(n) /\ Observers(n) = o
  BY <1>1, <1>3, <1>4, <1>5 DEF Loads, Observers
<1>8. x \in Nat /\ x >= 1 /\ x <= Len(o) /\ o \in Seq(DOMAIN gets) /\ (x = 1 => o[1] = stack[1].get)
  <2>1. L(n).next >= 1 /\ (L(n).next = 1 => Observers(n)[1] = L(n).get)
    BY <1>4, <1>7 DEF CacheInv, LoadedOnce
  <2>2. o \in Seq(DOMAIN gets)
    BY <1>4, <1>5 DEF CacheInv, OneAnswer
  <2>3. x \in Nat
    BY <1>4, <1>6 DEF FrameSet
  <2> QED BY <1>3, <1>4, <1>5, <1>6, <1>7, <2>1, <2>2, <2>3
<1>9. PICK asker \in DOMAIN gets : asker = o[x]
  <2>1. x \in 1..Len(o) /\ Len(o) \in Nat
    BY <1>8
  <2> QED BY <1>8, <2>1
<1>10. PICK f : f = Cache!Frame("onload", i, asker)
  OBVIOUS
<1>11. PICK r : r = [stack[1] EXCEPT !.next = x + 1]
  OBVIOUS
<1>12. stack' = <<f>> \o [stack EXCEPT ![1] = r]
  <2>1. stack' = <<Cache!Frame("onload", i, o[x])>> \o [stack EXCEPT ![1].next = @ + 1]
    BY <1>3, <1>5, <1>6 DEF Cache!Each, Cache!Top
  <2>2. [stack EXCEPT ![1].next = @ + 1] = [stack EXCEPT ![1] = r]
    BY <1>6, <1>11
  <2> QED BY <1>9, <1>10, <2>1, <2>2
<1>13. f \in FrameSet /\ f.pc = "onload" /\ f.item = i /\ f.get = asker /\ f.next = 1
  BY <1>4, <1>9, <1>10 DEF Cache!Frame, FrameSet
<1>14. r \in FrameSet /\ r.pc = "each" /\ r.item = i /\ r.get = stack[1].get /\ r.next = x + 1
  BY <1>1, <1>3, <1>4, <1>8, <1>11 DEF FrameSet
<1>15. /\ stack' \in Seq(FrameSet) /\ Levels' = 1..(n + 1)
       /\ \A d \in 1..n : d # n => L(d)' = L(d)
       /\ L(n)' = r /\ L(n + 1)' = f
  <2> DEFINE S == FrameSet
  <2>1. stack \in Seq(S) /\ f \in S /\ r \in S
    BY <1>13, <1>14, FramesAre
  <2> HIDE DEF S
  <2>2. /\ stack' \in Seq(S) /\ Len(stack') = n + 1
        /\ \A d \in 1..n : d # n => L(d)' = L(d)
        /\ L(n)' = r /\ L(n + 1)' = f
    BY <1>1, <1>2, <1>12, <2>1, PushedOn
  <2> QED BY <2>2 DEF Levels, S
<1>16. Cache!TypeOK' /\ Distinct'
  <2>1. FrameSet' = FrameSet
    BY <1>1, <1>1a DEF FrameSet
  <2>2. Cache!TypeOK'
    BY <1>1, <1>1a, <1>15, <2>1 DEF CacheInv, Cache!TypeOK, FrameSet
  <2>3. Distinct'
    BY <1>1, <1>1a DEF CacheInv, Distinct, Cache!OnePerName
  <2> QED BY <2>2, <2>3
<1>17. PICK m \in Nat : m = n + 1 /\ m # n /\ m \notin Levels /\ Levels' = 1..m /\ \A d : d \in 1..m <=> d \in 1..n \/ d = m
  BY <1>4, <1>15
<1>18. L(m)' = f /\ ~Loads(m)'
  BY <1>13, <1>15, <1>17 DEF Loads
<1>19. \A d \in Levels : /\ Loads(d)' <=> Loads(d)
                         /\ L(d)'.pc = L(d).pc /\ L(d)'.item = L(d).item /\ L(d)'.get = L(d).get
                         /\ Observers(d)' = Observers(d)
  BY <1>1, <1>1a, <1>3, <1>4, <1>14, <1>15 DEF Loads, Observers
<1>20. LoadedOnce'
  <2>1. ASSUME NEW d \in Levels' PROVE
         /\ L(d)'.pc = "load" => items'[L(d)'.item].state = "loading"
         /\ L(d)'.pc = "each" => items'[L(d)'.item].state = "loaded"
         /\ L(d)'.pc \in {"asyncGet", "load"} => L(d)'.next = 1
         /\ Loads(d)' =>
              L(d)'.next >= 1 /\ Len(Observers(d)') >= 1 /\ (L(d)'.next = 1 => Observers(d)'[1] = L(d)'.get)
    <3>1. CASE d = m
      BY <1>13, <1>18, <3>1
    <3>2. CASE d = n
      <4>1. L(d)'.next = x + 1 /\ x + 1 >= 1 /\ x + 1 # 1 /\ L(d)'.pc = "each" /\ Len(Observers(d)') >= 1
        BY <1>4, <1>7, <1>8, <1>14, <1>15, <1>19, <3>2 DEF CacheInv, LoadedOnce
      <4>2. items'[L(d)'.item].state = "loaded"
        BY <1>1, <1>1a, <1>4, <1>19, <3>2 DEF CacheInv, LoadedOnce
      <4> QED BY <4>1, <4>2
    <3>3. CASE d \in Levels /\ d # n
      <4>1. L(d)' = L(d) /\ (Loads(d)' <=> Loads(d)) /\ Observers(d)' = Observers(d)
        BY <1>4, <1>15, <1>19, <3>3
      <4> QED BY <1>1a, <3>3, <4>1 DEF CacheInv, LoadedOnce
    <3> QED BY <1>4, <1>17, <3>1, <3>2, <3>3
  <2>2. \A d, e \in Levels' : Loads(d)' /\ Loads(e)' /\ L(d)'.item = L(e)'.item => d = e
    <3>1. \A d \in Levels' : Loads(d)' => d \in Levels /\ Loads(d) /\ L(d)'.item = L(d).item
      BY <1>4, <1>17, <1>18, <1>19
    <3> QED BY <3>1 DEF CacheInv, LoadedOnce
  <2>3. ASSUME NEW j \in DOMAIN items', items'[j].state = "loading"
        PROVE  \E d \in Levels' : L(d)'.pc = "load" /\ L(d)'.item = j
    <3>1. PICK d \in Levels : L(d).pc = "load" /\ L(d).item = j
      BY <1>1a, <2>3 DEF CacheInv, LoadedOnce
    <3> QED BY <1>4, <1>17, <1>19, <3>1
  <2> QED BY <2>1, <2>2, <2>3 DEF LoadedOnce
<1>21. OneAnswer'
  <2>1. \A g, k : Has(g, n, k) <=> k \in 1..Len(o) /\ k >= x /\ o[k] = g
    BY <1>1, <1>4, <1>6, <1>7 DEF Has
  <2>2. \A g, k : Has(g, n, k)' <=> k \in 1..Len(o) /\ k >= x + 1 /\ o[k] = g
    BY <1>4, <1>7, <1>14, <1>15, <1>17, <1>19 DEF Has
  <2>3. \A g, k : Has(g, n, k)' <=> Has(g, n, k) /\ k # x
    <3>1. Len(o) \in Nat
      BY <1>8
    <3>2. \A k \in 1..Len(o) : k >= x + 1 <=> k >= x /\ k # x
      BY <1>8, <3>1
    <3> QED BY <2>1, <2>2, <3>2
  <2>4. \A g, k : ~Has(g, m, k) /\ (Has(g, m, k)' <=> k = 0 /\ g = asker)
    BY <1>13, <1>17, <1>18 DEF Has
  <2>5. ASSUME NEW d, d # n, d # m PROVE \A g, k : Has(g, d, k)' <=> Has(g, d, k)
    <3>1. CASE d \in Levels
      <4>1. L(d)' = L(d) /\ Observers(d)' = Observers(d) /\ (Loads(d)' <=> Loads(d)) /\ d \in Levels'
        BY <1>4, <1>15, <1>17, <1>19, <2>5, <3>1
      <4> QED BY <3>1, <4>1 DEF Has
    <3>2. CASE d \notin Levels
      BY <1>4, <1>17, <2>5, <3>2 DEF Has
    <3> QED BY <3>1, <3>2
  <2>6. \A g, d, k : Has(g, d, k)' <=> (Has(g, d, k) /\ ~(d = n /\ k = x)) \/ (g = asker /\ d = m /\ k = 0)
    BY <1>17, <2>3, <2>4, <2>5
  <2>7. Has(asker, n, x) /\ \A g : g # asker => ~Has(g, n, x)
    <3>1. x \in 1..Len(o) /\ x >= x
      BY <1>8
    <3> QED BY <1>9, <2>1, <3>1
  <2>8. \A j \in DOMAIN items' : items'[j].observers \in Seq(DOMAIN gets)
    BY <1>1a DEF CacheInv, OneAnswer
  <2>9. OneAnswer /\ n \in Nat /\ m \in Nat /\ x \in Nat /\ 0 \in Nat
    BY <1>4, <1>8, <1>17 DEF CacheInv
  <2> QED BY <1>1, <2>6, <2>7, <2>8, <2>9, HasMoves
<1>22. Told'
  <2>1. ASSUME NEW d \in Levels' PROVE
         /\ L(d)'.pc = "result" => gets'[L(d)'.get].answers # 0
         /\ L(d)'.pc = "each" /\ L(d)'.next > 1 =>
              \/ gets'[L(d)'.get].answers # 0
              \/ d + 1 \in Levels' /\ L(d + 1)'.pc = "onload" /\ L(d + 1)'.get = L(d)'.get
         /\ L(d)'.pc = "return" =>
              \/ gets'[L(d)'.get].answers # 0
              \/ \E e \in 1..(d - 1) : L(e)'.pc = "load" /\ L(e)'.item = L(d)'.item
    <3>1. CASE d = m
      BY <1>13, <1>18, <3>1
    <3>2. CASE d = n
      <4>1. L(d)'.pc = "each" /\ L(d)'.get = stack[1].get
        BY <1>14, <1>15, <3>2
      <4>2. CASE x = 1
        <5>1. n + 1 \in Levels' /\ L(n + 1)'.pc = "onload" /\ L(n + 1)'.get = stack[1].get
          BY <1>8, <1>9, <1>13, <1>15, <1>17, <4>2
        <5> QED BY <3>2, <4>1, <5>1
      <4>3. CASE x # 1
        <5>1. x > 1 /\ n + 1 \notin Levels
          BY <1>8, <1>17, <4>3
        <5>2. gets[stack[1].get].answers # 0
          BY <1>1, <1>4, <1>6, <5>1 DEF CacheInv, Told
        <5> QED BY <1>1, <4>1, <5>2
      <4> QED BY <4>2, <4>3
    <3>3. CASE d \in Levels /\ d # n
      <4>1. L(d)' = L(d) /\ (\A e \in Levels : e # n => L(e)' = L(e)) /\ L(n).pc # "onload"
        BY <1>1, <1>4, <1>15, <3>3
      <4>2. \A e \in Levels : e \in Levels'
        BY <1>4, <1>17
      <4> HIDE DEF Levels
      <4>3. /\ L(d)'.pc = "result" => gets'[L(d)'.get].answers # 0
            /\ L(d)'.pc = "each" /\ L(d)'.next > 1 =>
                 \/ gets'[L(d)'.get].answers # 0
                 \/ d + 1 \in Levels /\ d + 1 # n /\ L(d + 1).pc = "onload" /\ L(d + 1).get = L(d).get
            /\ L(d)'.pc = "return" =>
                 \/ gets'[L(d)'.get].answers # 0
                 \/ \E e \in 1..(d - 1) : L(e)'.pc = "load" /\ L(e)'.item = L(d)'.item
        BY <1>1, <1>2, <3>3, <4>1, ToldBelow
      <4> QED BY <4>1, <4>2, <4>3
    <3> QED BY <1>4, <1>17, <3>1, <3>2, <3>3
  <2> QED BY <2>1 DEF Told
<1>23. Fits'
  <2>1. m \in Levels' /\ L(m)'.pc = "onload"
    BY <1>13, <1>17, <1>18
  <2> QED BY <2>1 DEF Fits, Presses
<1> QED BY <1>16, <1>20, <1>21, <1>22, <1>23 DEF CacheInv

\* When all who waited were told the load returns.
LEMMA AllTold ==
  ASSUME CacheInv, Cache!Each, ~(stack[1].next <= Len(items[stack[1].item].observers))
  PROVE  CacheInv'
<1>1. /\ stack # <<>> /\ stack[1].pc = "each" /\ gets' = gets /\ cache' = cache
      /\ dangling' \in BOOLEAN /\ crashed' \in BOOLEAN
  BY DEF Cache!Each, Cache!Top, CacheInv, Cache!TypeOK
<1>2. PICK n : n = Len(stack)
  OBVIOUS
<1>3. PICK i : i = stack[1].item
  OBVIOUS
<1>4. /\ i \in DOMAIN items /\ items[i] \in Cache!Item /\ stack[1] \in FrameSet
      /\ L(n) = stack[1] /\ n \in Levels /\ n \in Nat \ {0} /\ Levels = 1..n
  BY <1>1, <1>2, <1>3, RunningIs
<1>5. stack' = Cache!Goto("return") /\ items' = [items EXCEPT ![i].observers = <<>>]
  BY <1>3 DEF Cache!Each, Cache!Top
<1>6. items' = [items EXCEPT ![i] = items'[i]] /\ items'[i] = [items[i] EXCEPT !.observers = <<>>]
  BY <1>4, <1>5
<1>7. PICK o : o = <<>>
  OBVIOUS
<1>8. o \in Seq(Nat) /\ o \in Seq(DOMAIN gets) /\ Len(o) = 0
  BY <1>7
<1>9. /\ items'[i] \in Cache!Item /\ items'[i].name = items[i].name /\ items'[i].deleted = items[i].deleted
      /\ items'[i].state = items[i].state /\ items'[i].observers = o /\ items'[i].size = items[i].size
  <2>1. items[i] = [name |-> items[i].name, state |-> items[i].state, text |-> items[i].text, size |-> items[i].size,
                    observers |-> items[i].observers, deleted |-> items[i].deleted]
        /\ items[i].size \in Nat /\ items[i].state \in {"unloaded", "loading", "loaded"} /\ items[i].text \in SUBSET Texts
    BY <1>4, FieldsAre DEF Cache!Item
  <2>2. items'[i] = [name |-> items[i].name, state |-> items[i].state, text |-> items[i].text, size |-> items[i].size,
                     observers |-> o, deleted |-> items[i].deleted]
    BY <1>6, <1>7, <2>1
  <2>3. items'[i] \in Cache!Item
    BY <1>4, <1>8, <2>1, <2>2, ItemIs
  <2> QED BY <2>2, <2>3
<1>10. /\ Cache!TypeOK' /\ Distinct' /\ Levels' = 1..n
       /\ L(n)'.pc = "return" /\ L(n)'.item = i /\ L(n)'.get = stack[1].get /\ L(n)'.next = stack[1].next
       /\ \A d \in 1..n : d # n => L(d)' = L(d)
       /\ DOMAIN items' = DOMAIN items
       /\ \A j \in DOMAIN items : j # i => items'[j] = items[j]
  <2>1. "return" \in {"asyncGet", "load", "each", "onload", "result", "return"}
    OBVIOUS
  <2>2. stack # <<>> /\ n = Len(stack) /\ i = stack[1].item /\ stack' = Cache!Goto("return") /\ gets' = gets
        /\ cache' = cache /\ dangling' \in BOOLEAN /\ crashed' \in BOOLEAN
        /\ items' = [items EXCEPT ![i] = items'[i]]
    BY <1>1, <1>2, <1>3, <1>5, <1>6
  <2>3. items'[i] \in Cache!Item /\ items'[i].name = items[i].name /\ items'[i].deleted = items[i].deleted
    BY <1>9
  <2> QED BY <2>1, <2>2, <2>3, StepGoes
<1>11. \A d \in Levels : L(d).item \in DOMAIN items
  BY FramesAre DEF FrameSet
<1>12. Levels' = Levels /\ \A d \in Levels : d # n => L(d)' = L(d)
  BY <1>4, <1>10
<1>13. Loads(n) /\ ~Loads(n)' /\ L(n).item = i /\ L(n).next \in Nat /\ L(n).next > Len(Observers(n)) /\ L(n).next > 1
  <2>1. Loads(n) /\ ~Loads(n)' /\ L(n).item = i /\ L(n).next \in Nat /\ Observers(n) = items[i].observers
    BY <1>1, <1>3, <1>4, <1>10 DEF Loads, Observers, FrameSet
  <2>2. Len(Observers(n)) >= 1
    BY <1>4, <2>1 DEF CacheInv, LoadedOnce
  <2>3. Len(items[i].observers) \in Nat
    BY <1>4 DEF Cache!Item
  <2> QED BY <1>3, <1>4, <2>1, <2>2, <2>3
<1>14. \A d \in Levels : d # n /\ Loads(d) => L(d).item # i /\ items'[L(d).item] = items[L(d).item]
  <2>1. \A d \in Levels : d # n /\ Loads(d) => L(d).item # i
    BY <1>4, <1>13 DEF CacheInv, LoadedOnce
  <2> QED BY <1>10, <1>11, <2>1
<1>15. \A d \in Levels : d # n => (Loads(d)' <=> Loads(d)) /\ (Loads(d) => Observers(d)' = Observers(d))
  BY <1>12, <1>14 DEF Loads, Observers
<1>16. LoadedOnce'
  <2>1. ASSUME NEW d \in Levels PROVE
         /\ L(d)'.pc = "load" => items'[L(d)'.item].state = "loading"
         /\ L(d)'.pc = "each" => items'[L(d)'.item].state = "loaded"
         /\ L(d)'.pc \in {"asyncGet", "load"} => L(d)'.next = 1
         /\ Loads(d)' =>
              L(d)'.next >= 1 /\ Len(Observers(d)') >= 1 /\ (L(d)'.next = 1 => Observers(d)'[1] = L(d)'.get)
    <3>1. CASE d = n
      BY <1>10, <1>13, <3>1
    <3>2. CASE d # n
      <4>1. L(d)' = L(d) /\ (Loads(d) => items'[L(d).item] = items[L(d).item])
        BY <1>12, <1>14, <3>2
      <4>2. /\ L(d).pc = "load" => items[L(d).item].state = "loading"
            /\ L(d).pc = "each" => items[L(d).item].state = "loaded"
            /\ L(d).pc \in {"asyncGet", "load"} => L(d).next = 1
            /\ Loads(d) =>
                 L(d).next >= 1 /\ Len(Observers(d)) >= 1 /\ (L(d).next = 1 => Observers(d)[1] = L(d).get)
        BY DEF CacheInv, LoadedOnce
      <4>3. Loads(d)' =>
              L(d)'.next >= 1 /\ Len(Observers(d)') >= 1 /\ (L(d)'.next = 1 => Observers(d)'[1] = L(d)'.get)
        BY <1>15, <3>2, <4>1, <4>2
      <4> QED BY <4>1, <4>2, <4>3 DEF Loads
    <3> QED BY <3>1, <3>2
  <2>2. \A d, e \in Levels' : Loads(d)' /\ Loads(e)' /\ L(d)'.item = L(e)'.item => d = e
    <3>1. \A d \in Levels : Loads(d)' => Loads(d) /\ L(d)' = L(d)
      BY <1>12, <1>13, <1>15
    <3> QED BY <1>12, <3>1 DEF CacheInv, LoadedOnce
  <2>3. ASSUME NEW j \in DOMAIN items', items'[j].state = "loading"
        PROVE  \E d \in Levels' : L(d)'.pc = "load" /\ L(d)'.item = j
    <3>1. j \in DOMAIN items /\ items[j].state = "loading"
      BY <1>9, <1>10, <2>3
    <3>2. PICK d \in Levels : L(d).pc = "load" /\ L(d).item = j
      BY <3>1 DEF CacheInv, LoadedOnce
    <3>3. d # n
      BY <1>1, <1>4, <3>2
    <3> QED BY <1>12, <3>2, <3>3
  <2> QED BY <1>12, <2>1, <2>2, <2>3 DEF LoadedOnce
<1>17. OneAnswer'
  <2>1. \A g, k : ~Has(g, n, k)
    <3>1. Len(Observers(n)) \in Nat
      BY <1>4, <1>13 DEF Observers, Cache!Item
    <3>2. \A k \in 1..Len(Observers(n)) : ~(k >= L(n).next)
      BY <1>13, <3>1
    <3> QED BY <1>1, <1>4, <3>2 DEF Has
  <2>2. \A g, k : ~Has(g, n, k)'
    BY <1>10, <1>13 DEF Has
  <2>3. ASSUME NEW d, d # n PROVE \A g, k : Has(g, d, k)' <=> Has(g, d, k)
    <3>1. CASE d \in Levels
      BY <1>12, <1>14, <2>3, <3>1, HasBelow
    <3>2. CASE d \notin Levels
      BY <1>12, <3>2 DEF Has
    <3> QED BY <3>1, <3>2
  <2>4. \A g, d, k : Has(g, d, k)' <=> Has(g, d, k)
    BY <2>1, <2>2, <2>3
  <2>5. \A j \in DOMAIN items' : items'[j].observers \in Seq(DOMAIN gets)
    <3>1. ASSUME NEW j \in DOMAIN items PROVE items'[j].observers \in Seq(DOMAIN gets)
      BY <1>8, <1>9, <1>10 DEF CacheInv, OneAnswer
    <3> QED BY <1>10, <3>1
  <2>6. OneAnswer
    BY DEF CacheInv
  <2> QED BY <1>1, <2>4, <2>5, <2>6, HasStays
<1>18. Told'
  <2>1. L(n).pc # "onload" /\ L(n)'.pc # "result" /\ L(n)'.pc # "each"
    BY <1>1, <1>4, <1>10
  <2>2. gets[L(n)'.get].answers # 0
    <3>1. n + 1 \notin Levels
      BY <1>4
    <3> QED BY <1>1, <1>4, <1>10, <1>13, <3>1 DEF CacheInv, Told
  <2> QED BY <1>1, <1>2, <1>12, <2>1, <2>2, ToldStays
<1>19. Fits'
  <2>1. CASE Cache!Total(cache) <= CacheSize
    <3>1. \A p \in DOMAIN cache : items'[cache[p]].size = items[cache[p]].size
      <4>1. \A p \in DOMAIN cache : cache[p] \in DOMAIN items
        <5>1. cache \in Seq(DOMAIN items)
          BY FramesAre
        <5> QED BY <5>1
      <4> QED BY <1>9, <1>10, <4>1
    <3>2. PICK c : c = cache
      OBVIOUS
    <3>3. Cache!Total(c)' = Cache!Total(cache)
      BY <3>1, <3>2, TotalStays
    <3>4. Cache!Total(cache)' = Cache!Total(c)'
      BY <1>1, <3>2
    <3> QED BY <2>1, <3>3, <3>4 DEF Fits
  <2>2. CASE \E d \in Levels : Presses(d)
    <3>1. PICK d \in Levels : Presses(d)
      BY <2>2
    <3>2. d # n
      <4>1. Len(Observers(n)) \in Nat
        BY <1>4, <1>13 DEF Observers, Cache!Item
      <4> QED BY <1>1, <1>4, <1>13, <3>1, <4>1 DEF Presses
    <3>3. Presses(d)'
      BY <1>12, <1>15, <3>1, <3>2 DEF Presses, Loads
    <3> QED BY <1>12, <3>3 DEF Fits
  <2> QED BY <2>1, <2>2 DEF CacheInv, Fits
<1> QED BY <1>10, <1>16, <1>17, <1>18, <1>19 DEF CacheInv

\* A frame that was answered and ends, or goes on to its end.
LEMMA Finishing ==
  ASSUME CacheInv, stack # <<>>, stack[1].pc = "result", stack' = Cache!Goto("return"), items' = items,
         cache' = cache, gets' = gets, dangling' = dangling, crashed' = crashed
  PROVE  CacheInv'
<1>1. dangling' \in BOOLEAN /\ crashed' \in BOOLEAN
  BY DEF CacheInv, Cache!TypeOK
<1>2. PICK n : n = Len(stack)
  OBVIOUS
<1>3. PICK i : i = stack[1].item
  OBVIOUS
<1>4. /\ i \in DOMAIN items /\ items[i] \in Cache!Item
      /\ L(n) = stack[1] /\ n \in Levels /\ n \in Nat \ {0} /\ Levels = 1..n
  BY <1>2, <1>3, RunningIs
<1>5. items' = [items EXCEPT ![i] = items'[i]] /\ items'[i] = items[i]
  <2> DEFINE I == Cache!Item
  <2>1. items \in Seq(I)
    BY FramesAre
  <2> HIDE DEF I
  <2> QED BY <1>4, <2>1
<1>6. /\ Cache!TypeOK' /\ Distinct' /\ Levels' = 1..n
      /\ L(n)'.pc = "return" /\ L(n)'.item = i /\ L(n)'.get = stack[1].get /\ L(n)'.next = stack[1].next
      /\ \A d \in 1..n : d # n => L(d)' = L(d)
  <2>1. "return" \in {"asyncGet", "load", "each", "onload", "result", "return"}
    OBVIOUS
  <2>2. items'[i] \in Cache!Item /\ items'[i].name = items[i].name /\ items'[i].deleted = items[i].deleted
    BY <1>4, <1>5
  <2>3. items' = [items EXCEPT ![i] = items'[i]]
    BY <1>5
  <2> QED BY <1>1, <1>2, <1>3, <2>1, <2>2, <2>3, StepGoes
<1>7. Levels' = Levels /\ ~Loads(n) /\ ~Loads(n)' /\ \A d \in Levels : d # n => L(d)' = L(d)
  BY <1>4, <1>6 DEF Loads
<1>8. \A d \in Levels : (Loads(d)' <=> Loads(d)) /\ (Loads(d) => L(d)' = L(d) /\ Observers(d)' = Observers(d))
  BY <1>7 DEF Loads, Observers
<1>9. LoadedOnce'
  <2>1. ASSUME NEW d \in Levels PROVE
         /\ L(d)'.pc = "load" => items'[L(d)'.item].state = "loading"
         /\ L(d)'.pc = "each" => items'[L(d)'.item].state = "loaded"
         /\ L(d)'.pc \in {"asyncGet", "load"} => L(d)'.next = 1
         /\ Loads(d)' =>
              L(d)'.next >= 1 /\ Len(Observers(d)') >= 1 /\ (L(d)'.next = 1 => Observers(d)'[1] = L(d)'.get)
    <3>1. CASE d = n
      BY <1>6, <1>7, <3>1
    <3>2. CASE d # n
      <4>1. L(d)' = L(d) /\ (Loads(d)' <=> Loads(d)) /\ (Loads(d) => Observers(d)' = Observers(d))
        BY <1>7, <1>8, <3>2
      <4> QED BY <4>1 DEF CacheInv, LoadedOnce
    <3> QED BY <3>1, <3>2
  <2>2. \A d, e \in Levels' : Loads(d)' /\ Loads(e)' /\ L(d)'.item = L(e)'.item => d = e
    BY <1>7, <1>8 DEF CacheInv, LoadedOnce
  <2>3. ASSUME NEW j \in DOMAIN items', items'[j].state = "loading"
        PROVE  \E d \in Levels' : L(d)'.pc = "load" /\ L(d)'.item = j
    <3>1. PICK d \in Levels : L(d).pc = "load" /\ L(d).item = j
      BY <2>3 DEF CacheInv, LoadedOnce
    <3> QED BY <1>7, <1>8, <3>1 DEF Loads
  <2> QED BY <1>7, <2>1, <2>2, <2>3 DEF LoadedOnce
<1>10. OneAnswer'
  <2>1. \A g, k : ~Has(g, n, k)' /\ ~Has(g, n, k)
    BY <1>4, <1>6, <1>7 DEF Has
  <2>2. ASSUME NEW d, d # n PROVE \A g, k : Has(g, d, k)' <=> Has(g, d, k)
    <3>1. CASE d \in Levels
      BY <1>7, <2>2, <3>1, HasBelow
    <3>2. CASE d \notin Levels
      BY <1>7, <3>2 DEF Has
    <3> QED BY <3>1, <3>2
  <2>3. \A g, d, k : Has(g, d, k)' <=> Has(g, d, k)
    BY <2>1, <2>2
  <2>4. \A j \in DOMAIN items' : items'[j].observers \in Seq(DOMAIN gets)
    BY DEF CacheInv, OneAnswer
  <2>5. OneAnswer
    BY DEF CacheInv
  <2> QED BY <2>3, <2>4, <2>5, HasStays
<1>11. Told'
  <2>1. L(n).pc # "onload" /\ L(n)'.pc # "result" /\ L(n)'.pc # "each"
    BY <1>4, <1>6
  <2>2. gets[L(n)'.get].answers # 0
    BY <1>4, <1>6 DEF CacheInv, Told
  <2> QED BY <1>2, <1>7, <2>1, <2>2, ToldStays
<1>12. Fits'
  <2>1. CASE Cache!Total(cache) <= CacheSize
    <3>1. Cache!Total(cache)' = Cache!Total(cache)
      BY DEF Cache!Total
    <3> QED BY <2>1, <3>1 DEF Fits
  <2>2. CASE \E d \in Levels : Presses(d)
    <3>1. PICK d \in Levels : Presses(d)
      BY <2>2
    <3>2. d # n
      BY <1>4, <3>1 DEF Presses
    <3>3. Presses(d)'
      BY <1>7, <1>8, <3>1, <3>2 DEF Presses, Loads
    <3> QED BY <1>7, <3>3 DEF Fits
  <2> QED BY <2>1, <2>2 DEF CacheInv, Fits
<1> QED BY <1>6, <1>9, <1>10, <1>11, <1>12 DEF CacheInv

LEMMA Ending ==
  ASSUME CacheInv, stack # <<>>, stack[1].pc \in {"result", "return"}, stack' = Tail(stack), items' = items,
         cache' = cache, gets' = gets, dangling' = dangling, crashed' = crashed
  PROVE  CacheInv'
<1>2. PICK n : n = Len(stack)
  OBVIOUS
<1>3. L(n) = stack[1] /\ n \in Levels /\ n \in Nat \ {0} /\ Levels = 1..n
  BY <1>2, RunningIs
<1>4. stack' \in Seq(FrameSet) /\ Levels' = 1..(n - 1) /\ \A d \in 1..(n - 1) : L(d)' = L(d)
  <2> DEFINE S == FrameSet
  <2>1. stack \in Seq(S)
    BY FramesAre
  <2> HIDE DEF S
  <2>2. stack' \in Seq(S) /\ Len(stack') = n - 1 /\ \A d \in 1..(n - 1) : L(d)' = L(d)
    BY <1>2, <2>1, Popped
  <2> QED BY <2>2 DEF Levels, S
<1>5. n \notin Levels' /\ n - 1 \in Nat /\ \A d : d \in Levels' <=> d \in Levels /\ d # n
  BY <1>3, <1>4
<1>6. \A d \in Levels' : L(d)' = L(d) /\ Observers(d)' = Observers(d) /\ (Loads(d)' <=> Loads(d))
  BY <1>4 DEF Observers, Loads
<1>7. ~Loads(n)
  BY <1>3 DEF Loads
<1>8. Cache!TypeOK' /\ Distinct'
  <2>1. FrameSet' = FrameSet
    BY DEF FrameSet
  <2>2. Cache!TypeOK'
    BY <1>4, <2>1 DEF CacheInv, Cache!TypeOK, FrameSet
  <2>3. Distinct'
    BY DEF CacheInv, Distinct, Cache!OnePerName
  <2> QED BY <2>2, <2>3
<1>9. LoadedOnce'
  <2>1. ASSUME NEW d \in Levels' PROVE
         /\ L(d)'.pc = "load" => items'[L(d)'.item].state = "loading"
         /\ L(d)'.pc = "each" => items'[L(d)'.item].state = "loaded"
         /\ L(d)'.pc \in {"asyncGet", "load"} => L(d)'.next = 1
         /\ Loads(d)' =>
              L(d)'.next >= 1 /\ Len(Observers(d)') >= 1 /\ (L(d)'.next = 1 => Observers(d)'[1] = L(d)'.get)
    <3>1. d \in Levels /\ L(d)' = L(d) /\ Observers(d)' = Observers(d) /\ (Loads(d)' <=> Loads(d))
      BY <1>5, <1>6
    <3> QED BY <3>1 DEF CacheInv, LoadedOnce
  <2>2. \A d, e \in Levels' : Loads(d)' /\ Loads(e)' /\ L(d)'.item = L(e)'.item => d = e
    BY <1>5, <1>6 DEF CacheInv, LoadedOnce
  <2>3. ASSUME NEW j \in DOMAIN items', items'[j].state = "loading"
        PROVE  \E d \in Levels' : L(d)'.pc = "load" /\ L(d)'.item = j
    <3>1. PICK d \in Levels : L(d).pc = "load" /\ L(d).item = j
      BY <2>3 DEF CacheInv, LoadedOnce
    <3>2. d # n
      BY <1>3, <3>1
    <3> QED BY <1>5, <1>6, <3>1, <3>2
  <2> QED BY <2>1, <2>2, <2>3 DEF LoadedOnce
<1>10. OneAnswer'
  <2>1. \A g, k : ~Has(g, n, k)
    BY <1>3, <1>7 DEF Has
  <2>2. \A g, k : ~Has(g, n, k)'
    BY <1>5 DEF Has
  <2>3. ASSUME NEW d, d # n PROVE \A g, k : Has(g, d, k)' <=> Has(g, d, k)
    <3>1. CASE d \in Levels'
      BY <1>5, <1>6, <3>1 DEF Has
    <3>2. CASE d \notin Levels'
      <4>1. d \notin Levels
        BY <1>5, <2>3, <3>2
      <4> QED BY <3>2, <4>1 DEF Has
    <3> QED BY <3>1, <3>2
  <2>4. \A g, d, k : Has(g, d, k)' <=> Has(g, d, k)
    BY <2>1, <2>2, <2>3
  <2>5. \A j \in DOMAIN items' : items'[j].observers \in Seq(DOMAIN gets)
    BY DEF CacheInv, OneAnswer
  <2>6. OneAnswer
    BY DEF CacheInv
  <2> QED BY <2>4, <2>5, <2>6, HasStays
<1>11. Told'
  <2>1. ASSUME NEW d \in Levels' PROVE
         /\ L(d)'.pc = "result" => gets'[L(d)'.get].answers # 0
         /\ L(d)'.pc = "each" /\ L(d)'.next > 1 =>
              \/ gets'[L(d)'.get].answers # 0
              \/ d + 1 \in Levels' /\ L(d + 1)'.pc = "onload" /\ L(d + 1)'.get = L(d)'.get
         /\ L(d)'.pc = "return" =>
              \/ gets'[L(d)'.get].answers # 0
              \/ \E e \in 1..(d - 1) : L(e)'.pc = "load" /\ L(e)'.item = L(d)'.item
    <3>1. d \in Levels /\ d # n /\ L(d)' = L(d) /\ L(n).pc # "onload" /\ \A e \in Levels : e # n => L(e)' = L(e)
      BY <1>3, <1>5, <1>6
    <3>2. /\ L(d)'.pc = "result" => gets'[L(d)'.get].answers # 0
          /\ L(d)'.pc = "each" /\ L(d)'.next > 1 =>
               \/ gets'[L(d)'.get].answers # 0
               \/ d + 1 \in Levels /\ d + 1 # n /\ L(d + 1).pc = "onload" /\ L(d + 1).get = L(d).get
          /\ L(d)'.pc = "return" =>
               \/ gets'[L(d)'.get].answers # 0
               \/ \E e \in 1..(d - 1) : L(e)'.pc = "load" /\ L(e)'.item = L(d)'.item
      BY <1>2, <3>1, ToldBelow
    <3> QED BY <1>5, <1>6, <3>1, <3>2
  <2> QED BY <2>1 DEF Told
<1>12. Fits'
  <2>1. CASE Cache!Total(cache) <= CacheSize
    <3>1. Cache!Total(cache)' = Cache!Total(cache)
      BY DEF Cache!Total
    <3> QED BY <2>1, <3>1 DEF Fits
  <2>2. CASE \E d \in Levels : Presses(d)
    <3>1. PICK d \in Levels : Presses(d)
      BY <2>2
    <3>2. d # n
      BY <1>3, <3>1 DEF Presses
    <3>3. d \in Levels' /\ Presses(d)'
      BY <1>5, <1>6, <3>1, <3>2 DEF Presses
    <3> QED BY <3>3 DEF Fits
  <2> QED BY <2>1, <2>2 DEF CacheInv, Fits
<1> QED BY <1>8, <1>9, <1>10, <1>11, <1>12 DEF CacheInv

\* The text is given to the caller, after what was too much has gone.
LEMMA Releasing ==
  ASSUME CacheInv, Cache!Release
  PROVE  CacheInv'
<1>1. stack # <<>> /\ stack[1].pc = "onload" /\ dangling' = dangling /\ crashed' = crashed /\ stack' = Cache!Goto("result")
  BY DEF Cache!Release, Cache!Top
<1>2. PICK n : n = Len(stack)
  OBVIOUS
<1>3. PICK i : i = stack[1].item
  OBVIOUS
<1>4. PICK g : g = stack[1].get
  OBVIOUS
<1>5. /\ L(n) = stack[1] /\ n \in Levels /\ n \in Nat \ {0} /\ Levels = 1..n
      /\ stack[1] \in FrameSet /\ g \in DOMAIN gets /\ 1 \in DOMAIN stack
  BY <1>1, <1>2, <1>3, <1>4, RunningIs
<1>6. PICK k : k = Cache!Kept(cache)
  OBVIOUS
<1>7. PICK s : s = SubSeq(cache, 1, k)
  OBVIOUS
<1>8. PICK gone : gone = {cache[p] : p \in (k + 1)..Len(cache)}
  OBVIOUS
<1>8a. PICK t \in {items[i].text, {}} : gets' = [gets EXCEPT ![g].answers = @ + 1, ![g].got = t]
  BY <1>3, <1>4 DEF Cache!Release, Cache!Top
<1>9. /\ cache' = s
      /\ items' = [j \in DOMAIN items |-> IF j \in gone THEN [items[j] EXCEPT !.deleted = TRUE] ELSE items[j]]
  BY <1>4, <1>6, <1>7, <1>8 DEF Cache!Release, Cache!Top

\* The cache.
<1>10. k \in 0..Len(cache) /\ Cache!Total(s) <= CacheSize
  <2>1. cache \in Seq(DOMAIN items)
    BY FramesAre
  <2> QED BY <1>6, <1>7, <2>1, KeptIs
<1>11. /\ s \in Seq(DOMAIN items) /\ DOMAIN s = 1..k /\ k \in Nat /\ Len(cache) \in Nat /\ k <= Len(cache)
       /\ \A p \in 1..k : s[p] = cache[p] /\ s[p] \in DOMAIN items
  <2>1. cache \in Seq(DOMAIN items)
    BY FramesAre
  <2>2. k \in Nat /\ Len(cache) \in Nat /\ k <= Len(cache)
    BY <1>10, <2>1
  <2>3. s \in Seq(DOMAIN items) /\ Len(s) = k /\ \A p \in 1..k : s[p] = cache[p]
    BY <1>7, <2>1, <2>2
  <2> QED BY <2>2, <2>3

\* The items.
<1>12. /\ DOMAIN items' = DOMAIN items /\ items' \in Seq(Cache!Item)
       /\ \A j \in DOMAIN items : /\ items'[j].name = items[j].name /\ items'[j].state = items[j].state
                                  /\ items'[j].size = items[j].size /\ items'[j].observers = items[j].observers
                                  /\ j \notin gone => items'[j].deleted = items[j].deleted
  <2>1. /\ DOMAIN items' = DOMAIN items /\ DOMAIN items = 1..Len(items) /\ Len(items) \in Nat
        /\ items \in Seq(Cache!Item)
    BY <1>9, FramesAre
  <2>2. ASSUME NEW j \in DOMAIN items
        PROVE  /\ items'[j].name = items[j].name /\ items'[j].state = items[j].state
               /\ items'[j].size = items[j].size /\ items'[j].observers = items[j].observers
               /\ j \notin gone => items'[j].deleted = items[j].deleted
               /\ items'[j] \in Cache!Item
    <3>1. items[j] \in Cache!Item
      <4> DEFINE I == Cache!Item
      <4>1. items \in Seq(I)
        BY <2>1
      <4> HIDE DEF I
      <4>2. items[j] \in I
        BY <4>1
      <4> QED BY <4>2 DEF I
    <3>2. items[j] = [name |-> items[j].name, state |-> items[j].state, text |-> items[j].text, size |-> items[j].size,
                      observers |-> items[j].observers, deleted |-> items[j].deleted]
      BY <3>1, FieldsAre
    <3>3. CASE j \in gone
      <4>1. items'[j] = [items[j] EXCEPT !.deleted = TRUE]
        BY <1>9, <3>3
      <4>2. items'[j] = [name |-> items[j].name, state |-> items[j].state, text |-> items[j].text, size |-> items[j].size,
                         observers |-> items[j].observers, deleted |-> TRUE]
        BY <3>2, <4>1
      <4>3. items'[j] \in Cache!Item
        BY <3>1, <4>2 DEF Cache!Item
      <4>4. /\ items'[j].name = items[j].name /\ items'[j].state = items[j].state
            /\ items'[j].size = items[j].size /\ items'[j].observers = items[j].observers
        BY <4>2
      <4> QED BY <3>3, <4>3, <4>4
    <3>4. CASE j \notin gone
      <4>1. items'[j] = items[j]
        BY <1>9, <3>4
      <4> QED BY <3>1, <4>1
    <3> QED BY <3>3, <3>4
  <2>3. items' \in Seq(Cache!Item)
    <3> DEFINE I == Cache!Item
               f == [j \in 1..Len(items) |-> items'[j]]
    <3>1. \A j \in 1..Len(items) : items'[j] \in I
      BY <2>1, <2>2
    <3>2. items' = f
      BY <1>9, <2>1
    <3> HIDE DEF I
    <3>3. f \in Seq(I)
      BY <2>1, <3>1
    <3> HIDE DEF f
    <3> QED BY <3>2, <3>3 DEF I
  <2> QED BY <2>1, <2>2, <2>3

\* The calls.
<1>13. Has(g, n, 0) /\ gets[g].answers = 0
  <2>1. Has(g, n, 0)
    BY <1>1, <1>4, <1>5 DEF Has
  <2> QED BY <1>5, <2>1 DEF CacheInv, OneAnswer
<1>14. /\ DOMAIN gets' = DOMAIN gets /\ gets' \in Seq(Cache!Call)
       /\ gets'[g].answers = 1
       /\ \A c \in DOMAIN gets : c # g => gets'[c] = gets[c]
  <2> DEFINE G == Cache!Call
  <2>1. gets \in Seq(G) /\ gets[g] \in G
    <3>1. gets \in Seq(G)
      BY FramesAre
    <3> HIDE DEF G
    <3>2. gets[g] \in G
      BY <1>5, <3>1
    <3> QED BY <3>1, <3>2
  <2>2. PICK r : r = [gets[g] EXCEPT !.answers = 1, !.got = t]
    OBVIOUS
  <2>2a. t \in SUBSET Texts
    <3> DEFINE I == Cache!Item
    <3>1. items \in Seq(I) /\ i \in DOMAIN items
      BY <1>1, <1>3, <1>5, FramesAre DEF FrameSet
    <3> HIDE DEF I
    <3>2. items[i] \in I
      BY <3>1
    <3> QED BY <1>8a, <3>2, FieldsAre DEF I
  <2>3. r \in G /\ r.answers = 1
    BY <2>1, <2>2, <2>2a DEF Cache!Call
  <2>4. gets' = [gets EXCEPT ![g] = r]
    <3>1. gets' = [gets EXCEPT ![g] = [gets[g] EXCEPT !.answers = gets[g].answers + 1, !.got = t]]
      BY <1>8a
    <3>2. gets[g].answers + 1 = 1
      BY <1>13
    <3>3. r = [gets[g] EXCEPT !.answers = gets[g].answers + 1, !.got = t]
      BY <2>2, <3>2
    <3> QED BY <3>1, <3>3
  <2> HIDE DEF G
  <2>5. DOMAIN gets' = DOMAIN gets /\ gets' \in Seq(G) /\ gets'[g] = r /\ \A c \in DOMAIN gets : c # g => gets'[c] = gets[c]
    BY <1>5, <2>1, <2>3, <2>4
  <2> QED BY <2>3, <2>5 DEF G
<1>15. \A c \in DOMAIN gets : gets[c].answers # 0 => gets'[c].answers # 0
  BY <1>14

\* The frames.
<1>16. PICK r : r = [stack[1] EXCEPT !.pc = "result"]
  OBVIOUS
<1>17. r \in FrameSet /\ r.pc = "result" /\ r.item = i /\ r.get = g /\ r.next = stack[1].next
  BY <1>3, <1>4, <1>5, <1>16, FrameIs
<1>18. /\ stack' \in Seq(FrameSet) /\ Levels' = Levels /\ L(n)' = r
       /\ \A d \in Levels : d # n => L(d)' = L(d)
  <2> DEFINE S == FrameSet
  <2>1. stack \in Seq(S) /\ r \in S
    BY <1>17, FramesAre
  <2>2. stack' = [stack EXCEPT ![1] = r]
    BY <1>1, <1>16 DEF Cache!Goto
  <2> HIDE DEF S
  <2>3. /\ stack' \in Seq(S) /\ Len(stack') = Len(stack) /\ L(n)' = r
        /\ \A d \in 1..Len(stack) : d # Len(stack) => L(d)' = L(d)
    BY <1>1, <1>2, <2>1, <2>2, Went
  <2> QED BY <1>2, <2>3 DEF Levels, S
<1>19. ~Loads(n) /\ ~Loads(n)'
  BY <1>1, <1>5, <1>17, <1>18 DEF Loads
<1>20. \A d \in Levels : L(d).item \in DOMAIN items /\ L(d).get \in DOMAIN gets
  BY FramesAre DEF FrameSet
<1>21. \A d \in Levels : d # n => (Loads(d)' <=> Loads(d)) /\ Observers(d)' = Observers(d)
  BY <1>12, <1>18, <1>20 DEF Loads, Observers

<1>22. Cache!TypeOK'
  <2>1. FrameSet' = FrameSet
    BY <1>12, <1>14 DEF FrameSet
  <2>2. dangling \in BOOLEAN /\ crashed \in BOOLEAN
    BY DEF CacheInv, Cache!TypeOK
  <2> QED BY <1>1, <1>9, <1>11, <1>12, <1>14, <1>18, <2>1, <2>2 DEF Cache!TypeOK, FrameSet
<1>23. Distinct'
  <2>1. /\ \A p, q \in DOMAIN cache : p # q => items[cache[p]].name # items[cache[q]].name
        /\ \A p \in DOMAIN cache : ~items[cache[p]].deleted
    BY DEF CacheInv, Distinct, Cache!OnePerName
  <2>2. DOMAIN cache = 1..Len(cache)
    <3>1. cache \in Seq(DOMAIN items)
      BY FramesAre
    <3> QED BY <3>1
  <2>3. \A p \in 1..k : p \in DOMAIN cache /\ cache[p] \notin gone
    <3>1. ASSUME NEW p \in 1..k, NEW q \in (k + 1)..Len(cache) PROVE cache[p] # cache[q]
      <4>1. p \in DOMAIN cache /\ q \in DOMAIN cache /\ p # q
        BY <1>11, <2>2
      <4> QED BY <2>1, <4>1
    <3>2. \A p \in 1..k : p \in DOMAIN cache
      BY <1>11, <2>2
    <3> QED BY <1>8, <3>1, <3>2
  <2>4. ASSUME NEW p \in 1..k PROVE items'[s[p]].name = items[cache[p]].name /\ ~items'[s[p]].deleted
    <3>1. p \in DOMAIN cache /\ cache[p] \notin gone /\ s[p] = cache[p] /\ s[p] \in DOMAIN items
      BY <1>11, <2>3
    <3>2. PICK j \in DOMAIN items : j = s[p]
      BY <3>1
    <3>3. items'[j].name = items[j].name /\ items'[j].deleted = items[j].deleted
      BY <1>12, <3>1, <3>2
    <3>4. ~items[j].deleted
      BY <2>1, <3>1, <3>2
    <3> QED BY <3>1, <3>2, <3>3, <3>4
  <2> QED BY <1>9, <1>11, <2>1, <2>3, <2>4 DEF Distinct, Cache!OnePerName
<1>24. LoadedOnce'
  <2>1. ASSUME NEW d \in Levels PROVE
         /\ L(d)'.pc = "load" => items'[L(d)'.item].state = "loading"
         /\ L(d)'.pc = "each" => items'[L(d)'.item].state = "loaded"
         /\ L(d)'.pc \in {"asyncGet", "load"} => L(d)'.next = 1
         /\ Loads(d)' =>
              L(d)'.next >= 1 /\ Len(Observers(d)') >= 1 /\ (L(d)'.next = 1 => Observers(d)'[1] = L(d)'.get)
    <3>1. CASE d = n
      BY <1>17, <1>18, <1>19, <3>1
    <3>2. CASE d # n
      <4>1. L(d)' = L(d) /\ (Loads(d)' <=> Loads(d)) /\ Observers(d)' = Observers(d)
            /\ items'[L(d).item].state = items[L(d).item].state
        BY <1>12, <1>18, <1>20, <1>21, <3>2
      <4> QED BY <4>1 DEF CacheInv, LoadedOnce
    <3> QED BY <3>1, <3>2
  <2>2. \A d, e \in Levels' : Loads(d)' /\ Loads(e)' /\ L(d)'.item = L(e)'.item => d = e
    BY <1>18, <1>19, <1>21 DEF CacheInv, LoadedOnce
  <2>3. ASSUME NEW j \in DOMAIN items', items'[j].state = "loading"
        PROVE  \E d \in Levels' : L(d)'.pc = "load" /\ L(d)'.item = j
    <3>1. items[j].state = "loading" /\ j \in DOMAIN items
      BY <1>12, <2>3
    <3>2. PICK d \in Levels : L(d).pc = "load" /\ L(d).item = j
      BY <3>1 DEF CacheInv, LoadedOnce
    <3>3. d # n
      BY <1>1, <1>5, <3>2
    <3> QED BY <1>18, <3>2, <3>3
  <2> QED BY <1>18, <2>1, <2>2, <2>3 DEF LoadedOnce
<1>25. OneAnswer'
  <2>1. \A c, l : ~Has(c, n, l)'
    BY <1>17, <1>18, <1>19 DEF Has
  <2>2. \A c, l : Has(c, n, l) => c = g /\ l = 0
    BY <1>4, <1>5, <1>19 DEF Has
  <2>3. ASSUME NEW d, d # n PROVE \A c, l : Has(c, d, l)' <=> Has(c, d, l)
    <3>1. CASE d \in Levels
      BY <1>18, <1>21, <2>3, <3>1 DEF Has
    <3>2. CASE d \notin Levels
      BY <1>18, <3>2 DEF Has
    <3> QED BY <3>1, <3>2
  <2>4. \A c, d, l : Has(c, d, l)' <=> Has(c, d, l) /\ d # n
    BY <2>1, <2>3
  <2>5. \A d, l \in Nat : ~Has(g, d, l)'
    <3>1. \A d, l \in Nat : Has(g, d, l) => d = n
      BY <1>5, <1>13 DEF CacheInv, OneAnswer
    <3> QED BY <2>4, <3>1
  <2>6. ASSUME NEW j \in DOMAIN items' PROVE items'[j].observers \in Seq(DOMAIN gets')
    BY <1>12, <1>14, <2>6 DEF CacheInv, OneAnswer
  <2>7. ASSUME NEW c \in DOMAIN gets' PROVE
          /\ gets'[c].answers \in {0, 1}
          /\ gets'[c].answers = 0 => \E d, l \in Nat : Has(c, d, l)'
          /\ \A d, l \in Nat : Has(c, d, l)' => gets'[c].answers = 0
          /\ \A d, e, l, m \in Nat : Has(c, d, l)' /\ Has(c, e, m)' => d = e /\ l = m
    <3>1. CASE c = g
      BY <1>14, <2>5, <3>1
    <3>2. CASE c # g
      <4>1. c \in DOMAIN gets /\ gets'[c] = gets[c] /\ \A l : ~Has(c, n, l)
        BY <1>14, <2>2, <2>7, <3>2
      <4>2. \A d, l : Has(c, d, l)' <=> Has(c, d, l)
        BY <2>4, <4>1
      <4> QED BY <4>1, <4>2 DEF CacheInv, OneAnswer
    <3> QED BY <3>1, <3>2
  <2> QED BY <2>6, <2>7 DEF OneAnswer
<1>26. Told'
  <2>1. ASSUME NEW d \in Levels PROVE
         /\ L(d)'.pc = "result" => gets'[L(d)'.get].answers # 0
         /\ L(d)'.pc = "each" /\ L(d)'.next > 1 =>
              \/ gets'[L(d)'.get].answers # 0
              \/ d + 1 \in Levels' /\ L(d + 1)'.pc = "onload" /\ L(d + 1)'.get = L(d)'.get
         /\ L(d)'.pc = "return" =>
              \/ gets'[L(d)'.get].answers # 0
              \/ \E e \in 1..(d - 1) : L(e)'.pc = "load" /\ L(e)'.item = L(d)'.item
    <3>1. CASE d = n
      BY <1>14, <1>17, <1>18, <3>1
    <3>2. CASE d # n
      <4>1. /\ L(d).pc = "result" => gets[L(d).get].answers # 0
            /\ L(d).pc = "each" /\ L(d).next > 1 =>
                 \/ gets[L(d).get].answers # 0
                 \/ d + 1 \in Levels /\ L(d + 1).pc = "onload" /\ L(d + 1).get = L(d).get
            /\ L(d).pc = "return" =>
                 \/ gets[L(d).get].answers # 0
                 \/ \E e \in 1..(d - 1) : L(e).pc = "load" /\ L(e).item = L(d).item
        BY DEF CacheInv, Told
      <4>2. L(d)' = L(d) /\ L(d).get \in DOMAIN gets /\ \A e \in 1..(d - 1) : e \in Levels /\ e # n
        BY <1>5, <1>18, <1>20, <3>2
      <4>3. gets[L(d).get].answers # 0 => gets'[L(d)'.get].answers # 0
        BY <1>15, <4>2
      <4>4. L(n).get = g
        BY <1>4, <1>5
      <4>5. d + 1 \in Levels /\ L(d + 1).pc = "onload" /\ L(d + 1).get = L(d).get =>
              \/ gets'[L(d)'.get].answers # 0
              \/ d + 1 \in Levels' /\ L(d + 1)'.pc = "onload" /\ L(d + 1)'.get = L(d)'.get
        <5>1. CASE d + 1 = n
          BY <1>14, <4>2, <4>4, <5>1
        <5>2. CASE d + 1 # n
          BY <1>18, <4>2, <5>2
        <5> QED BY <5>1, <5>2
      <4>6. (\E e \in 1..(d - 1) : L(e).pc = "load" /\ L(e).item = L(d).item)
              => \E e \in 1..(d - 1) : L(e)'.pc = "load" /\ L(e)'.item = L(d)'.item
        BY <1>18, <4>2
      <4> QED BY <4>1, <4>2, <4>3, <4>5, <4>6
    <3> QED BY <3>1, <3>2
  <2> QED BY <1>18, <2>1 DEF Told
<1>27. Fits'
  <2>1. \A p \in DOMAIN s : items'[s[p]].size = items[s[p]].size
    BY <1>11, <1>12
  <2>2. Cache!Total(s)' = Cache!Total(s)
    BY <2>1, TotalStays
  <2>3. Cache!Total(cache)' = Cache!Total(s)'
    BY <1>9
  <2> QED BY <1>10, <2>2, <2>3 DEF Fits
<1> QED BY <1>22, <1>23, <1>24, <1>25, <1>26, <1>27 DEF CacheInv

LEMMA Joined ==
  ASSUME NEW S, NEW a \in Seq(S), NEW b \in Seq(S), NEW t, t = a \o b,
         NEW m \in Nat, m = Len(a), NEW q \in Nat, q = Len(b)
  PROVE  /\ t \in Seq(S) /\ Len(t) = m + q
         /\ \A j \in 1..m : t[j] = a[j]
         /\ \A j \in 1..q : t[m + j] = b[j]
OBVIOUS

LEMMA Part ==
  ASSUME NEW S, NEW a \in Seq(S), NEW j \in 1..(Len(a) + 1), NEW k \in (j - 1)..Len(a)
  PROVE  /\ SubSeq(a, j, k) \in Seq(S) /\ Len(SubSeq(a, j, k)) = k + 1 - j
         /\ \A l \in 1..(k + 1 - j) : SubSeq(a, j, k)[l] = a[j - 1 + l]
<1>1. Len(a) \in Nat /\ j \in Nat /\ k \in Nat
  OBVIOUS
<1>2. \A l \in 1..(k + 1 - j) : j - 1 + l \in 1..Len(a)
  BY <1>1
<1> QED BY <1>1, <1>2

\* Moving an item up changes places with the one before it.
LEMMA MovedUpIs ==
  ASSUME NEW S, NEW s \in Seq(S), NEW p \in 1..Len(s)
  PROVE  /\ Cache!MovedUp(s, p) \in Seq(S) /\ Len(Cache!MovedUp(s, p)) = Len(s)
         /\ \A a \in 1..Len(s) : Cache!MovedUp(s, p)[a] =
              s[IF p = 1 THEN a ELSE IF a = p THEN p - 1 ELSE IF a = p - 1 THEN p ELSE a]
<1>1. PICK N \in Nat : N = Len(s)
  OBVIOUS
<1>2. CASE p = 1
  BY <1>2 DEF Cache!MovedUp
<1>3. CASE p # 1
  <2>1. p \in 2..N /\ p \in Nat
    BY <1>1, <1>3
  <2>2. PICK e \in S : e = s[p]
    OBVIOUS
  <2>3. PICK A : A = SubSeq(s, 1, p - 1)
    OBVIOUS
  <2>4. PICK B : B = SubSeq(s, p + 1, N)
    OBVIOUS
  <2>5. PICK u : u = A \o B
    OBVIOUS
  <2>6. A \in Seq(S) /\ Len(A) = p - 1 /\ \A l \in 1..(p - 1) : A[l] = s[l]
    <3>1. 1 \in 1..(Len(s) + 1) /\ p - 1 \in (1 - 1)..Len(s) /\ p - 1 + 1 - 1 = p - 1
      BY <1>1, <2>1
    <3> QED BY <2>1, <2>3, <3>1, Part
  <2>7. B \in Seq(S) /\ Len(B) = N - p /\ \A l \in 1..(N - p) : B[l] = s[p + l]
    <3>1. p + 1 \in 1..(Len(s) + 1) /\ N \in (p + 1 - 1)..Len(s) /\ N + 1 - (p + 1) = N - p
      BY <1>1, <2>1
    <3>2. \A l \in Nat : p + 1 - 1 + l = p + l
      BY <2>1
    <3> QED BY <2>1, <2>4, <3>1, <3>2, Part
  <2>8. u \in Seq(S) /\ Len(u) = N - 1 /\ (\A l \in 1..(p - 1) : u[l] = s[l]) /\ \A l \in p..(N - 1) : u[l] = s[l + 1]
    <3>1. u \in Seq(S) /\ Len(u) = p - 1 + (N - p) /\ (\A l \in 1..(p - 1) : u[l] = A[l])
          /\ \A l \in 1..(N - p) : u[p - 1 + l] = B[l]
      <4>1. PICK m \in Nat : m = p - 1
        BY <1>1, <2>1
      <4>1a. N \in Nat /\ p \in Nat /\ p <= N
        BY <1>1, <2>1
      <4>2. PICK q \in Nat : q = N - p
        BY <4>1a
      <4>3. A \in Seq(S) /\ B \in Seq(S) /\ m = Len(A) /\ q = Len(B)
        BY <2>6, <2>7, <4>1, <4>2
      <4>4. /\ u \in Seq(S) /\ Len(u) = m + q
            /\ \A l \in 1..m : u[l] = A[l]
            /\ \A l \in 1..q : u[m + l] = B[l]
        BY <2>5, <4>3, Joined
      <4> QED BY <4>1, <4>2, <4>4
    <3>2. Len(u) = N - 1
      BY <1>1, <2>1, <3>1
    <3>3. ASSUME NEW l \in p..(N - 1) PROVE u[l] = s[l + 1]
      <4>1. PICK y : y = l - p + 1
        OBVIOUS
      <4>2. y \in 1..(N - p) /\ p - 1 + y = l /\ p + y = l + 1
        BY <1>1, <2>1, <4>1
      <4>3. u[p - 1 + y] = B[y] /\ B[y] = s[p + y]
        BY <2>7, <3>1, <4>2
      <4> QED BY <4>2, <4>3
    <3> QED BY <2>6, <3>1, <3>2, <3>3
  <2>9. PICK C : C = SubSeq(u, 1, p - 2)
    OBVIOUS
  <2>10. PICK D : D = SubSeq(u, p - 1, Len(u))
    OBVIOUS
  <2>11. C \in Seq(S) /\ Len(C) = p - 2 /\ \A l \in 1..(p - 2) : C[l] = u[l]
    <3>1. 1 \in 1..(Len(u) + 1) /\ p - 2 \in (1 - 1)..Len(u) /\ p - 2 + 1 - 1 = p - 2
      BY <1>1, <2>1, <2>8
    <3> QED BY <2>1, <2>8, <2>9, <3>1, Part
  <2>12. D \in Seq(S) /\ Len(D) = N - p + 1 /\ \A l \in 1..(N - p + 1) : D[l] = u[p - 2 + l]
    <3>1. p - 1 \in 1..(Len(u) + 1) /\ Len(u) \in (p - 1 - 1)..Len(u) /\ Len(u) + 1 - (p - 1) = N - p + 1
      BY <1>1, <2>1, <2>8
    <3>2. \A l \in Nat : p - 1 - 1 + l = p - 2 + l
      BY <2>1
    <3> QED BY <1>1, <2>1, <2>8, <2>10, <3>1, <3>2, Part
  <2>13. PICK v : v = C \o <<e>>
    OBVIOUS
  <2>14. v \in Seq(S) /\ Len(v) = p - 1 /\ (\A l \in 1..(p - 2) : v[l] = s[l]) /\ v[p - 1] = e
    <3>1. <<e>> \in Seq(S) /\ Len(<<e>>) = 1 /\ <<e>>[1] = e /\ 1 \in 1..1
      OBVIOUS
    <3>2. v \in Seq(S) /\ Len(v) = p - 2 + 1 /\ (\A l \in 1..(p - 2) : v[l] = C[l]) /\ v[p - 2 + 1] = <<e>>[1]
      <4>1. p - 2 \in Nat /\ 1 \in Nat
        BY <2>1
      <4> QED BY <2>11, <2>13, <3>1, <4>1, Joined
    <3>3. p - 2 + 1 = p - 1 /\ \A l \in 1..(p - 2) : l \in 1..(p - 1)
      BY <2>1
    <3> QED BY <2>8, <2>11, <3>1, <3>2, <3>3
  <2>15. PICK t : t = v \o D
    OBVIOUS
  <2>16. t \in Seq(S) /\ Len(t) = p - 1 + (N - p + 1) /\ (\A l \in 1..(p - 1) : t[l] = v[l])
         /\ \A l \in 1..(N - p + 1) : t[p - 1 + l] = D[l]
    <3>1. PICK m \in Nat : m = p - 1
      BY <1>1, <2>1
    <3>2. PICK q \in Nat : q = N - p + 1
      BY <1>1, <2>1
    <3>3. v \in Seq(S) /\ D \in Seq(S) /\ m = Len(v) /\ q = Len(D)
      BY <2>12, <2>14, <3>1, <3>2
    <3>4. /\ t \in Seq(S) /\ Len(t) = m + q
          /\ \A l \in 1..m : t[l] = v[l]
          /\ \A l \in 1..q : t[m + l] = D[l]
      BY <2>15, <3>3, Joined
    <3> QED BY <3>1, <3>2, <3>4
  <2>17. Len(t) = N
    BY <1>1, <2>1, <2>16
  <2>18. ASSUME NEW a \in 1..N PROVE t[a] = s[IF a = p THEN p - 1 ELSE IF a = p - 1 THEN p ELSE a]
    <3>1. CASE a <= p - 2
      <4>1. a \in 1..(p - 2) /\ a \in 1..(p - 1) /\ a # p /\ a # p - 1
        BY <2>1, <3>1
      <4> QED BY <2>14, <2>16, <4>1
    <3>2. CASE a = p - 1
      <4>1. p - 1 \in 1..(p - 1) /\ p - 1 # p
        BY <2>1
      <4> QED BY <2>2, <2>14, <2>16, <3>2, <4>1
    <3>3. CASE a >= p
      <4>0. PICK y : y = a - p + 1
        OBVIOUS
      <4>1. y \in 1..(N - p + 1) /\ p - 1 + y = a /\ p - 2 + y = a - 1
        BY <1>1, <2>1, <3>3, <4>0
      <4>2. t[a] = u[a - 1]
        <5>1. t[p - 1 + y] = D[y] /\ D[y] = u[p - 2 + y]
          BY <2>12, <2>16, <4>1
        <5> QED BY <4>1, <5>1
      <4>3. CASE a = p
        <5>1. p - 1 \in 1..(p - 1)
          BY <2>1
        <5> QED BY <2>8, <4>2, <4>3, <5>1
      <4>4. CASE a # p
        <5>1. a - 1 \in p..(N - 1) /\ a - 1 + 1 = a /\ a # p - 1
          BY <1>1, <2>1, <3>3, <4>4
        <5> QED BY <2>8, <4>2, <4>4, <5>1
      <4> QED BY <4>3, <4>4
    <3> QED BY <2>1, <3>1, <3>2, <3>3
  <2>19. Cache!MovedUp(s, p) = t
    <3>1. Cache!RemoveAt(s, p) = u
      BY <1>1, <2>3, <2>4, <2>5 DEF Cache!RemoveAt
    <3>2. p - 1 - 1 = p - 2
      BY <2>1
    <3> QED BY <1>3, <2>2, <2>9, <2>10, <2>13, <2>15, <3>1, <3>2 DEF Cache!MovedUp, Cache!InsertAt
  <2> QED BY <1>1, <1>3, <2>16, <2>17, <2>18, <2>19
<1> QED BY <1>2, <1>3

\* A call that begins.
LEMMA Calling ==
  ASSUME CacheInv, items' \in Seq(Cache!Item), DOMAIN items \subseteq DOMAIN items',
         \A j \in DOMAIN items : items'[j] = items[j],
         \A j \in DOMAIN items' : j \notin DOMAIN items => items'[j].state = "unloaded" /\ items'[j].observers = <<>>,
         cache' \in Seq(DOMAIN items'), Distinct',
         NEW c, c = Len(gets) + 1, NEW call \in Cache!Call, call.answers = 0, gets' = Append(gets, call),
         NEW i \in DOMAIN items', stack' = <<Cache!Frame("asyncGet", i, c)>> \o stack,
         dangling' = dangling, crashed' = crashed
  PROVE  CacheInv'
<1>1. /\ stack \in Seq(FrameSet) /\ Len(stack) \in Nat /\ DOMAIN gets = 1..Len(gets) /\ Len(gets) \in Nat
      /\ gets \in Seq(Cache!Call)
      /\ \A d \in Levels : L(d) \in FrameSet
  BY FramesAre
<1>2. /\ DOMAIN gets' = 1..c /\ c \in Nat /\ c \notin DOMAIN gets /\ c \in DOMAIN gets'
      /\ DOMAIN gets \subseteq DOMAIN gets' /\ DOMAIN gets' = DOMAIN gets \cup {c}
      /\ gets' \in Seq(Cache!Call)
      /\ gets'[c].answers = 0 /\ \A g \in DOMAIN gets : gets'[g] = gets[g]
  <2> DEFINE G == Cache!Call
  <2>1. PICK r : r = call
    OBVIOUS
  <2>2. r \in G /\ r.answers = 0 /\ gets \in Seq(G) /\ gets' = Append(gets, r)
    BY <1>1, <2>1
  <2> HIDE DEF G
  <2>3. gets' \in Seq(G) /\ Len(gets') = c /\ gets'[c] = r /\ \A g \in 1..Len(gets) : gets'[g] = gets[g]
    BY <1>1, <2>2
  <2>4. DOMAIN gets' = 1..c /\ c \in Nat /\ c \notin 1..Len(gets) /\ c \in 1..c /\ 1..c = 1..Len(gets) \cup {c}
    BY <1>1, <2>3
  <2> QED BY <1>1, <2>2, <2>3, <2>4 DEF G
<1>3. PICK f : f = Cache!Frame("asyncGet", i, c)
  OBVIOUS
<1>4. f \in FrameSet' /\ f.pc = "asyncGet" /\ f.item = i /\ f.get = c /\ f.next = 1
  BY <1>2, <1>3 DEF Cache!Frame, FrameSet
<1>5. FrameSet \subseteq FrameSet'
  BY <1>2 DEF FrameSet
<1>6. PICK m : m = Len(stack) + 1
  OBVIOUS
<1>7. /\ stack' \in Seq(FrameSet') /\ L(m)' = f
      /\ Len(stack') = m /\ \A d \in 1..Len(stack) : L(d)' = L(d)
  <2> DEFINE S == FrameSet
             R == FrameSet'
  <2>1. stack \in Seq(S) /\ S \subseteq R /\ f \in R /\ stack' = <<f>> \o stack
    BY <1>1, <1>3, <1>4, <1>5
  <2> HIDE DEF S, R
  <2>2. /\ stack' \in Seq(R) /\ Len(stack') = Len(stack) + 1
        /\ \A d \in 1..Len(stack) : L(d)' = L(d)
        /\ \A n : n = Len(stack) + 1 => L(n)' = f
    BY <2>1, Pushed
  <2> QED BY <1>6, <2>2 DEF R
<1>8. /\ m \in Nat /\ m \notin Levels /\ m \in Levels' /\ \A d : d \in Levels' <=> d \in Levels \/ d = m
      /\ \A d \in Levels : L(d)' = L(d)
  BY <1>1, <1>6, <1>7 DEF Levels
<1>9. \A d \in Levels : /\ L(d).item \in DOMAIN items /\ L(d).get \in DOMAIN gets
                        /\ (Loads(d)' <=> Loads(d)) /\ Observers(d)' = Observers(d)
                        /\ items'[L(d).item] = items[L(d).item]
  <2>1. \A d \in Levels : L(d).item \in DOMAIN items /\ L(d).get \in DOMAIN gets
    BY <1>1 DEF FrameSet
  <2> QED BY <1>8, <2>1 DEF Loads, Observers
<1>10. ~Loads(m)'
  BY <1>4, <1>7 DEF Loads
<1>11. Cache!TypeOK'
  <2>1. dangling \in BOOLEAN /\ crashed \in BOOLEAN
    BY DEF CacheInv, Cache!TypeOK
  <2> QED BY <1>2, <1>7, <2>1 DEF Cache!TypeOK, FrameSet
<1>12. LoadedOnce'
  <2>1. ASSUME NEW d \in Levels' PROVE
         /\ L(d)'.pc = "load" => items'[L(d)'.item].state = "loading"
         /\ L(d)'.pc = "each" => items'[L(d)'.item].state = "loaded"
         /\ L(d)'.pc \in {"asyncGet", "load"} => L(d)'.next = 1
         /\ Loads(d)' =>
              L(d)'.next >= 1 /\ Len(Observers(d)') >= 1 /\ (L(d)'.next = 1 => Observers(d)'[1] = L(d)'.get)
    <3>1. CASE d = m
      BY <1>4, <1>7, <1>10, <3>1
    <3>2. CASE d \in Levels
      <4>1. L(d)' = L(d) /\ (Loads(d)' <=> Loads(d)) /\ Observers(d)' = Observers(d)
            /\ items'[L(d).item] = items[L(d).item]
        BY <1>8, <1>9, <3>2
      <4> QED BY <3>2, <4>1 DEF CacheInv, LoadedOnce
    <3> QED BY <1>8, <3>1, <3>2
  <2>2. ASSUME NEW d \in Levels', NEW e \in Levels', Loads(d)', Loads(e)', L(d)'.item = L(e)'.item
        PROVE  d = e
    <3>1. d # m /\ e # m
      BY <1>10, <2>2
    <3>2. d \in Levels /\ e \in Levels
      BY <1>8, <3>1
    <3>3. Loads(d) /\ Loads(e) /\ L(d).item = L(e).item
      BY <1>8, <1>9, <2>2, <3>2
    <3> QED BY <3>2, <3>3 DEF CacheInv, LoadedOnce
  <2>3. ASSUME NEW j \in DOMAIN items', items'[j].state = "loading"
        PROVE  \E d \in Levels' : L(d)'.pc = "load" /\ L(d)'.item = j
    <3>1. j \in DOMAIN items /\ items[j].state = "loading"
      BY <2>3
    <3>2. PICK d \in Levels : L(d).pc = "load" /\ L(d).item = j
      BY <3>1 DEF CacheInv, LoadedOnce
    <3> QED BY <1>8, <3>2
  <2> QED BY <2>1, <2>2, <2>3 DEF LoadedOnce
<1>13. OneAnswer'
  <2>1. \A g, k : (Has(g, m, k)' <=> g = c /\ k = 0) /\ ~Has(g, m, k)
    BY <1>4, <1>7, <1>8, <1>10 DEF Has
  <2>2. ASSUME NEW d, d # m PROVE \A g, k : Has(g, d, k)' <=> Has(g, d, k)
    <3>1. CASE d \in Levels
      BY <1>8, <1>9, <3>1 DEF Has
    <3>2. CASE d \notin Levels
      BY <1>8, <2>2, <3>2 DEF Has
    <3> QED BY <3>1, <3>2
  <2>3. \A d, k : ~Has(c, d, k)
    <3>1. ASSUME NEW d \in Levels, NEW k \in 1..Len(Observers(d)) PROVE Observers(d)[k] \in DOMAIN gets
      <4>1. Observers(d) \in Seq(DOMAIN gets)
        BY <1>9 DEF Observers, CacheInv, OneAnswer
      <4> QED BY <4>1
    <3>2. c \notin DOMAIN gets
      BY <1>2
    <3>3. \A d \in Levels : L(d).get \in DOMAIN gets
      BY <1>9
    <3> QED BY <3>1, <3>2, <3>3 DEF Has
  <2>4. \A d, k : Has(c, d, k)' <=> d = m /\ k = 0
    BY <2>1, <2>2, <2>3
  <2>5. ASSUME NEW j \in DOMAIN items' PROVE items'[j].observers \in Seq(DOMAIN gets')
    <3>1. CASE j \in DOMAIN items
      <4>1. items'[j].observers \in Seq(DOMAIN gets)
        BY <3>1 DEF CacheInv, OneAnswer
      <4>2. PICK A : A = DOMAIN gets
        OBVIOUS
      <4>3. PICK B : B = DOMAIN gets'
        OBVIOUS
      <4>4. A \subseteq B /\ items'[j].observers \in Seq(A)
        BY <1>2, <4>1, <4>2, <4>3
      <4>5. items'[j].observers \in Seq(B)
        BY <4>4
      <4> QED BY <4>3, <4>5
    <3>2. CASE j \notin DOMAIN items
      <4>1. items'[j].observers = <<>>
        BY <3>2
      <4> QED BY <4>1
    <3> QED BY <3>1, <3>2
  <2>6. ASSUME NEW g \in DOMAIN gets' PROVE
          /\ gets'[g].answers \in {0, 1}
          /\ gets'[g].answers = 0 => \E d, l \in Nat : Has(g, d, l)'
          /\ \A d, l \in Nat : Has(g, d, l)' => gets'[g].answers = 0
          /\ \A d, e, l, k \in Nat : Has(g, d, l)' /\ Has(g, e, k)' => d = e /\ l = k
    <3>1. CASE g = c
      <4>1. m \in Nat /\ 0 \in Nat
        BY <1>8
      <4>2. Has(g, m, 0)' /\ \A d, l : Has(g, d, l)' => d = m /\ l = 0
        BY <2>4, <3>1
      <4>3. \A d, e, l, k \in Nat : Has(g, d, l)' /\ Has(g, e, k)' => d = e /\ l = k
        BY <4>2
      <4>4. gets'[g].answers = 0
        BY <1>2, <3>1
      <4>5. \E d, l \in Nat : Has(g, d, l)'
        BY <4>1, <4>2
      <4> QED BY <4>3, <4>4, <4>5
    <3>2. CASE g # c
      <4>1. g \in DOMAIN gets /\ gets'[g] = gets[g]
        BY <1>2, <3>2
      <4>2. \A d, l : Has(g, d, l)' <=> Has(g, d, l)
        BY <2>1, <2>2, <3>2
      <4>3. /\ gets[g].answers \in {0, 1}
            /\ gets[g].answers = 0 => \E d, l \in Nat : Has(g, d, l)
            /\ \A d, l \in Nat : Has(g, d, l) => gets[g].answers = 0
            /\ \A d, e, l, k \in Nat : Has(g, d, l) /\ Has(g, e, k) => d = e /\ l = k
        BY <4>1 DEF CacheInv, OneAnswer
      <4>4. g \in DOMAIN gets' /\ gets'[g].answers = gets[g].answers
        BY <4>1
      <4>5. gets'[g].answers = 0 => \E d, l \in Nat : Has(g, d, l)'
        BY <4>2, <4>3, <4>4
      <4>6. \A d, e, l, k \in Nat : Has(g, d, l)' /\ Has(g, e, k)' => d = e /\ l = k
        BY <4>2, <4>3
      <4> QED BY <4>2, <4>3, <4>4, <4>5, <4>6
    <3> QED BY <3>1, <3>2
  <2> QED BY <2>5, <2>6 DEF OneAnswer
<1>14. Told'
  <2>1. ASSUME NEW d \in Levels' PROVE
         /\ L(d)'.pc = "result" => gets'[L(d)'.get].answers # 0
         /\ L(d)'.pc = "each" /\ L(d)'.next > 1 =>
              \/ gets'[L(d)'.get].answers # 0
              \/ d + 1 \in Levels' /\ L(d + 1)'.pc = "onload" /\ L(d + 1)'.get = L(d)'.get
         /\ L(d)'.pc = "return" =>
              \/ gets'[L(d)'.get].answers # 0
              \/ \E e \in 1..(d - 1) : L(e)'.pc = "load" /\ L(e)'.item = L(d)'.item
    <3>1. CASE d = m
      BY <1>4, <1>7, <3>1
    <3>2. CASE d \in Levels
      <4>1. /\ L(d).pc = "result" => gets[L(d).get].answers # 0
            /\ L(d).pc = "each" /\ L(d).next > 1 =>
                 \/ gets[L(d).get].answers # 0
                 \/ d + 1 \in Levels /\ L(d + 1).pc = "onload" /\ L(d + 1).get = L(d).get
            /\ L(d).pc = "return" =>
                 \/ gets[L(d).get].answers # 0
                 \/ \E e \in 1..(d - 1) : L(e).pc = "load" /\ L(e).item = L(d).item
        BY <3>2 DEF CacheInv, Told
      <4>2. L(d)' = L(d) /\ gets'[L(d).get] = gets[L(d).get]
        BY <1>2, <1>8, <1>9, <3>2
      <4>3. \A e \in 1..(d - 1) : e \in Levels
        BY <1>1, <3>2 DEF Levels
      <4>4. \A e \in Levels : L(e)' = L(e) /\ e \in Levels'
        BY <1>8
      <4> QED BY <4>1, <4>2, <4>3, <4>4
    <3> QED BY <1>8, <3>1, <3>2
  <2> QED BY <2>1 DEF Told
<1>15. Fits'
  BY <1>4, <1>7, <1>8 DEF Fits, Presses
<1> QED BY <1>11, <1>12, <1>13, <1>14, <1>15 DEF CacheInv

\* A call for a text that has no item.
LEMMA GetMakes ==
  ASSUME CacheInv, NEW n \in Texts, NEW sync \in BOOLEAN, Cache!Get_New(n, sync)
  PROVE  CacheInv'
<1>1. PICK i : i = Len(items) + 1
  OBVIOUS
<1>2. PICK c : c = Len(gets) + 1
  OBVIOUS
<1>3. PICK u : u = Cache!Unloaded(n)
  OBVIOUS
<1> DEFINE call == [name |-> n, below |-> FALSE, sync |-> sync, got |-> {}, answers |-> 0]
<1>4. /\ cache' = <<i>> \o cache /\ items' = Append(items, u)
      /\ stack' = <<Cache!Frame("asyncGet", i, c)>> \o stack
      /\ gets' = Append(gets, call) /\ dangling' = dangling /\ crashed' = crashed
  BY <1>1, <1>2, <1>3 DEF Cache!Get_New
<1>4a. call \in Cache!Call /\ call.answers = 0
  BY DEF Cache!Call
<1> HIDE DEF call
<1>5. /\ items \in Seq(Cache!Item) /\ cache \in Seq(DOMAIN items)
      /\ DOMAIN items = 1..Len(items) /\ Len(items) \in Nat
  BY FramesAre
<1>6. u \in Cache!Item /\ u.name = n /\ u.state = "unloaded" /\ u.observers = <<>> /\ u.deleted = FALSE
  <2>1. <<>> \in Seq(Nat) /\ ItemSize \in Nat
    BY CacheConstants DEF Cache!CacheAssumption
  <2>2. u = [name |-> n, state |-> "unloaded", text |-> {}, size |-> ItemSize, observers |-> <<>>, deleted |-> FALSE]
    BY <1>3 DEF Cache!Unloaded
  <2>3. u \in Cache!Item
    BY <2>1, <2>2 DEF Cache!Item
  <2> QED BY <2>2, <2>3
<1>7. /\ items' \in Seq(Cache!Item) /\ DOMAIN items' = DOMAIN items \cup {i} /\ i \notin DOMAIN items
      /\ items'[i] = u /\ \A j \in DOMAIN items : items'[j] = items[j]
  <2> DEFINE I == Cache!Item
  <2>1. u \in I /\ items \in Seq(I)
    BY <1>5, <1>6
  <2> HIDE DEF I
  <2>2. items' \in Seq(I) /\ Len(items') = i /\ items'[i] = u /\ \A j \in 1..Len(items) : items'[j] = items[j]
    BY <1>1, <1>4, <2>1
  <2>3. DOMAIN items' = 1..i /\ 1..i = 1..Len(items) \cup {i} /\ i \notin 1..Len(items)
    BY <1>1, <1>5, <2>2
  <2> QED BY <1>5, <2>2, <2>3 DEF I
<1>8. PICK A : A = DOMAIN items
  OBVIOUS
<1>9. PICK B : B = DOMAIN items'
  OBVIOUS
<1>10. /\ cache' \in Seq(B) /\ Len(cache) \in Nat /\ Len(cache') = Len(cache) + 1 /\ cache'[1] = i
       /\ \A p \in 1..Len(cache) : cache'[p + 1] = cache[p] /\ cache[p] \in A
  <2>1. cache \in Seq(A) /\ i \in B /\ A \subseteq B
    BY <1>5, <1>7, <1>8, <1>9
  <2>2. cache \in Seq(B)
    BY <2>1
  <2> QED BY <1>4, <2>1, <2>2
<1>11. Distinct'
  <2>1. /\ \A p, q \in DOMAIN cache : p # q => items[cache[p]].name # items[cache[q]].name
        /\ \A p \in DOMAIN cache : ~items[cache[p]].deleted
    BY DEF CacheInv, Distinct, Cache!OnePerName
  <2>2. DOMAIN cache = 1..Len(cache) /\ DOMAIN cache' = 1..(Len(cache) + 1)
    BY <1>5, <1>10
  <2>3. \A p \in DOMAIN cache : items[cache[p]].name # n
    BY DEF Cache!Get_New, Cache!Places
  <2>4. \A p \in DOMAIN cache : /\ items'[cache'[p + 1]].name = items[cache[p]].name
                                /\ items'[cache'[p + 1]].deleted = items[cache[p]].deleted
    BY <1>7, <1>8, <1>10, <2>2
  <2>5. items'[cache'[1]].name = n /\ items'[cache'[1]].deleted = FALSE
    BY <1>6, <1>7, <1>10
  <2>6. \A p \in DOMAIN cache' : p = 1 \/ \E q \in DOMAIN cache : p = q + 1
    <3>1. ASSUME NEW p \in 1..(Len(cache) + 1), p # 1 PROVE p - 1 \in 1..Len(cache) /\ p = p - 1 + 1
      BY <1>10, <3>1
    <3> QED BY <2>2, <3>1
  <2>7. ASSUME NEW p \in DOMAIN cache', NEW q \in DOMAIN cache', p # q
        PROVE  items'[cache'[p]].name # items'[cache'[q]].name
    <3>1. CASE p = 1
      <4>1. PICK b \in DOMAIN cache : q = b + 1
        BY <2>6, <2>7, <3>1
      <4> QED BY <2>3, <2>4, <2>5, <3>1, <4>1
    <3>2. CASE q = 1
      <4>1. PICK a \in DOMAIN cache : p = a + 1
        BY <2>6, <2>7, <3>2
      <4> QED BY <2>3, <2>4, <2>5, <3>2, <4>1
    <3>3. CASE p # 1 /\ q # 1
      <4>1. PICK a \in DOMAIN cache : p = a + 1
        BY <2>6, <3>3
      <4>2. PICK b \in DOMAIN cache : q = b + 1
        BY <2>6, <3>3
      <4>3. a # b
        BY <2>7, <4>1, <4>2
      <4> QED BY <2>1, <2>4, <4>1, <4>2, <4>3
    <3> QED BY <3>1, <3>2, <3>3
  <2>8. ASSUME NEW p \in DOMAIN cache' PROVE ~items'[cache'[p]].deleted
    BY <2>1, <2>4, <2>5, <2>6
  <2> QED BY <2>7, <2>8 DEF Distinct, Cache!OnePerName
<1>12. \A j \in DOMAIN items' : j \notin DOMAIN items => items'[j].state = "unloaded" /\ items'[j].observers = <<>>
  BY <1>6, <1>7
<1>13. i \in DOMAIN items' /\ DOMAIN items \subseteq DOMAIN items' /\ cache' \in Seq(DOMAIN items')
  BY <1>7, <1>9, <1>10
<1> QED BY <1>2, <1>4, <1>4a, <1>7, <1>11, <1>12, <1>13, Calling

\* A call for a text that has one: it moves up in the cache.
LEMMA GetFinds ==
  ASSUME CacheInv, NEW n \in Texts, NEW sync \in BOOLEAN, Cache!Get_Known(n, sync)
  PROVE  CacheInv'
<1>1. PICK p : p = Cache!Min(Cache!Places(n))
  OBVIOUS
<1>2. /\ items \in Seq(Cache!Item) /\ cache \in Seq(DOMAIN items)
      /\ DOMAIN items = 1..Len(items) /\ Len(items) \in Nat
  BY FramesAre
<1>3. DOMAIN cache = 1..Len(cache) /\ Len(cache) \in Nat
  BY <1>2
<1>4. p \in 1..Len(cache)
  <2>1. Cache!Places(n) \subseteq 1..Len(cache) /\ Cache!Places(n) # {}
    BY <1>3 DEF Cache!Places, Cache!Get_Known
  <2>2. Cache!Places(n) \in SUBSET Nat
    BY <1>3, <2>1
  <2>3. Min(Cache!Places(n)) \in Cache!Places(n)
    BY <2>1, <2>2, MinIs
  <2>4. p = Min(Cache!Places(n))
    BY <1>1 DEF Cache!Min, Min
  <2> QED BY <2>1, <2>3, <2>4
<1>5. PICK i : i = Cache!MovedUp(cache, p)[p]
  OBVIOUS
<1>6. PICK c : c = Len(gets) + 1
  OBVIOUS
<1> DEFINE call == [name |-> n, below |-> p > 1, sync |-> sync, got |-> {}, answers |-> 0]
<1>7. /\ cache' = Cache!MovedUp(cache, p) /\ items' = items
      /\ stack' = <<Cache!Frame("asyncGet", i, c)>> \o stack
      /\ gets' = Append(gets, call) /\ dangling' = dangling /\ crashed' = crashed
  BY <1>1, <1>5, <1>6 DEF Cache!Get_Known
<1>7a. call \in Cache!Call /\ call.answers = 0
  BY DEF Cache!Call
<1> HIDE DEF call
<1>8. PICK A : A = DOMAIN items
  OBVIOUS
<1>9. PICK to : to = [a \in 1..Len(cache) |-> IF p = 1 THEN a ELSE IF a = p THEN p - 1 ELSE IF a = p - 1 THEN p ELSE a]
  OBVIOUS
<1>10. cache' \in Seq(A) /\ Len(cache') = Len(cache) /\ i \in A /\ \A a \in 1..Len(cache) : cache'[a] = cache[to[a]]
  <2>1. cache \in Seq(A)
    BY <1>2, <1>8
  <2>2. cache' \in Seq(A) /\ Len(cache') = Len(cache) /\ \A a \in 1..Len(cache) : cache'[a] = cache[to[a]]
    BY <1>4, <1>7, <1>9, <2>1, MovedUpIs
  <2> QED BY <1>4, <1>5, <1>7, <2>2
<1>11. \A a, b \in 1..Len(cache) : to[a] \in 1..Len(cache) /\ (to[a] = to[b] => a = b)
  <2>1. \A a \in 1..Len(cache) : p # 1 /\ a = p => p - 1 \in 1..Len(cache)
    BY <1>3, <1>4
  <2> QED BY <1>3, <1>4, <1>9, <2>1
<1>12. Distinct'
  <2>1. /\ \A a, b \in DOMAIN cache : a # b => items[cache[a]].name # items[cache[b]].name
        /\ \A a \in DOMAIN cache : ~items[cache[a]].deleted
    BY DEF CacheInv, Distinct, Cache!OnePerName
  <2>2. DOMAIN cache' = 1..Len(cache)
    BY <1>10
  <2>3. ASSUME NEW a \in 1..Len(cache), NEW b \in 1..Len(cache), a # b
        PROVE  items'[cache'[a]].name # items'[cache'[b]].name
    <3>1. to[a] \in DOMAIN cache /\ to[b] \in DOMAIN cache /\ to[a] # to[b]
      BY <1>3, <1>11, <2>3
    <3>2. items[cache[to[a]]].name # items[cache[to[b]]].name
      BY <2>1, <3>1
    <3>3. cache'[a] = cache[to[a]] /\ cache'[b] = cache[to[b]]
      BY <1>10
    <3> QED BY <1>7, <3>2, <3>3
  <2>4. ASSUME NEW a \in 1..Len(cache) PROVE ~items'[cache'[a]].deleted
    <3>1. to[a] \in DOMAIN cache
      BY <1>3, <1>11
    <3>2. ~items[cache[to[a]]].deleted
      BY <2>1, <3>1
    <3>3. cache'[a] = cache[to[a]]
      BY <1>10
    <3> QED BY <1>7, <3>2, <3>3
  <2> QED BY <2>2, <2>3, <2>4 DEF Distinct, Cache!OnePerName
<1> QED BY <1>2, <1>6, <1>7, <1>7a, <1>8, <1>10, <1>12, Calling

\* Nothing but the two flags.
LEMMA CacheSame ==
  ASSUME CacheInv, cache' = cache, items' = items, stack' = stack, gets' = gets, dangling' = dangling, crashed' \in BOOLEAN
  PROVE  CacheInv'
<1>1. Levels' = Levels /\ \A d : L(d)' = L(d)
  BY DEF Levels, L
<1>2. \A d : (Loads(d)' <=> Loads(d)) /\ Observers(d)' = Observers(d)
  BY <1>1 DEF Loads, Observers
<1>3. Cache!TypeOK'
  BY DEF CacheInv, Cache!TypeOK
<1>4. Distinct'
  BY DEF CacheInv, Distinct, Cache!OnePerName
<1>5. LoadedOnce'
  BY <1>1, <1>2 DEF CacheInv, LoadedOnce
<1>6. OneAnswer'
  <2>1. \A g, d, k : Has(g, d, k)' <=> Has(g, d, k)
    BY <1>1, <1>2 DEF Has
  <2>2. OneAnswer /\ \A i \in DOMAIN items' : items'[i].observers \in Seq(DOMAIN gets)
    BY DEF CacheInv, OneAnswer
  <2> QED BY <2>1, <2>2, HasStays
<1>7. Told'
  BY <1>1 DEF CacheInv, Told
<1>8. Fits'
  <2>1. Cache!Total(cache)' = Cache!Total(cache)
    BY DEF Cache!Total
  <2>2. \A d : Presses(d)' <=> Presses(d)
    BY <1>1, <1>2 DEF Presses
  <2> QED BY <1>1, <2>1, <2>2 DEF CacheInv, Fits
<1> QED BY <1>3, <1>4, <1>5, <1>6, <1>7, <1>8 DEF CacheInv

LEMMA CacheStep == CacheInv /\ [Cache!Next]_Cache!vars => CacheInv'
<1> SUFFICES ASSUME CacheInv, [Cache!Next]_Cache!vars PROVE CacheInv'
  OBVIOUS
<1>1. ASSUME NEW n \in Texts, NEW sync \in BOOLEAN, Cache!Get(n, sync) PROVE CacheInv'
  BY <1>1, GetMakes, GetFinds DEF Cache!Get
<1>2. CASE Cache!asyncGet
  <2>1. items[stack[1].item].state = "unloaded" \/ items[stack[1].item].state = "loading"
        \/ items[stack[1].item].state = "loaded"
    BY <1>2 DEF Cache!asyncGet, Cache!Top
  <2> QED BY <1>2, <2>1, Loading, Joining, Known
<1>3. CASE Cache!Loaded
  BY <1>3, LoadedKeeps
<1>4. CASE Cache!Each
  BY <1>4, Telling, AllTold
<1>5. CASE Cache!Release
  BY <1>5, Releasing
<1>6. CASE Cache!Result
  <2>1. /\ stack # <<>> /\ stack[1].pc = "result" /\ items' = items
        /\ cache' = cache /\ gets' = gets /\ dangling' = dangling /\ crashed' = crashed
        /\ stack' = Tail(stack) \/ stack' = Cache!Goto("return")
    BY <1>6 DEF Cache!Result, Cache!Top
  <2> QED BY <2>1, Finishing, Ending
<1>7. CASE Cache!Return
  <2>1. /\ stack # <<>> /\ stack[1].pc = "return" /\ items' = items /\ stack' = Tail(stack)
        /\ cache' = cache /\ gets' = gets /\ dangling' = dangling /\ crashed' = crashed
    BY <1>7 DEF Cache!Return, Cache!Top
  <2> QED BY <2>1, Ending
<1>8. CASE Cache!Release_Crash \/ Cache!Dangling_Crash
  <2>1. /\ cache' = cache /\ items' = items /\ stack' = stack /\ gets' = gets /\ dangling' = dangling
        /\ crashed' \in BOOLEAN
    BY <1>8 DEF Cache!Release_Crash, Cache!Dangling_Crash
  <2> QED BY <2>1, CacheSame
<1>9. CASE UNCHANGED Cache!vars
  <2>1. /\ cache' = cache /\ items' = items /\ stack' = stack /\ gets' = gets /\ dangling' = dangling
        /\ crashed' \in BOOLEAN
    BY <1>9 DEF Cache!vars, CacheInv, Cache!TypeOK
  <2> QED BY <2>1, CacheSame
<1> QED BY <1>1, <1>2, <1>3, <1>4, <1>5, <1>6, <1>7, <1>8, <1>9 DEF Cache!Next, Cache!Running, Cache!Stopped

-----------------------------------------------------------------------------
(* Whose text a call gets. *)

\* The call was led to the item of its own name, or its name was found below.
Led(name, call) == name = call.name <=> ~call.below

\* What a frame that stands somewhere in its call shows of its item and of who asked.
Fine(item, call, where) ==
  /\ Led(item.name, call)
  /\ where = "load" => call.name = item.name
  /\ where = "onload" => item.state = "loaded"

FramesFine == \A f \in DOMAIN stack : Fine(items[stack[f].item], gets[stack[f].get], stack[f].pc)

ObserversLed ==
  \A i \in DOMAIN items : \A k \in DOMAIN items[i].observers : Led(items[i].name, gets[items[i].observers[k]])

\* A new item belongs to the call that is running.
NewIsRunning ==
  \A i \in DOMAIN items : items[i].state = "unloaded" =>
    /\ stack # <<>> /\ stack[1].pc = "asyncGet" /\ stack[1].item = i
    /\ gets[stack[1].get].name = items[i].name

\* Nobody loads into the item of another.
TextsOwn == \A i \in DOMAIN items : items[i].state = "loaded" => items[i].text = {items[i].name}

OwnInv == FramesFine /\ ObserversLed /\ NewIsRunning /\ TextsOwn /\ Cache!OwnTextUnlessBelow

LEMMA OwnTypes ==
  ASSUME CacheInv
  PROVE  /\ DOMAIN stack = 1..Len(stack) /\ Len(stack) \in Nat /\ (stack # <<>> => 1 \in DOMAIN stack)
         /\ \A f \in DOMAIN stack :
              /\ stack[f].item \in DOMAIN items /\ stack[f].get \in DOMAIN gets
              /\ stack[f].pc = "each" => items[stack[f].item].state = "loaded"
              /\ stack[f].pc = "load" => items[stack[f].item].state = "loading"
         /\ \A i \in DOMAIN items :
              /\ items[i].observers \in Seq(DOMAIN gets)
              /\ \A k \in DOMAIN items[i].observers : items[i].observers[k] \in DOMAIN gets
         /\ DOMAIN gets = 1..Len(gets) /\ Len(gets) \in Nat /\ gets \in Seq(Cache!Call)
         /\ DOMAIN items = 1..Len(items) /\ Len(items) \in Nat /\ items \in Seq(Cache!Item)
         /\ \A g \in DOMAIN gets : gets[g] \in Cache!Call
         /\ \A i \in DOMAIN items : items[i] \in Cache!Item
<1> DEFINE F == FrameSet
           G == Cache!Call
           I == Cache!Item
<1>1. /\ stack \in Seq(F) /\ items \in Seq(I) /\ gets \in Seq(G)
      /\ DOMAIN gets = 1..Len(gets) /\ Len(gets) \in Nat /\ DOMAIN items = 1..Len(items) /\ Len(items) \in Nat
  BY FramesAre
<1> HIDE DEF F, G, I
<1>2. /\ DOMAIN stack = 1..Len(stack) /\ Len(stack) \in Nat /\ (stack # <<>> => 1 \in DOMAIN stack)
      /\ \A f \in DOMAIN stack : stack[f] \in F
      /\ \A g \in DOMAIN gets : gets[g] \in G
      /\ \A i \in DOMAIN items : items[i] \in I
  BY <1>1
<1>3. ASSUME NEW f \in DOMAIN stack
      PROVE  /\ stack[f].item \in DOMAIN items /\ stack[f].get \in DOMAIN gets
             /\ stack[f].pc = "each" => items[stack[f].item].state = "loaded"
             /\ stack[f].pc = "load" => items[stack[f].item].state = "loading"
  <2>1. PICK d : d = Len(stack) + 1 - f
    OBVIOUS
  <2>2. d \in Levels /\ Len(stack) + 1 - d = f
    BY <1>2, <2>1 DEF Levels
  <2>3. L(d) = stack[f]
    BY <2>2 DEF L
  <2>4. stack[f] \in FrameSet
    BY <1>2 DEF F
  <2> QED BY <2>2, <2>3, <2>4 DEF CacheInv, LoadedOnce, FrameSet
<1>4. ASSUME NEW i \in DOMAIN items
      PROVE  /\ items[i].observers \in Seq(DOMAIN gets)
             /\ \A k \in DOMAIN items[i].observers : items[i].observers[k] \in DOMAIN gets
  <2>1. PICK o : o = items[i].observers
    OBVIOUS
  <2>2. PICK D : D = DOMAIN gets
    OBVIOUS
  <2>3. o \in Seq(D)
    BY <2>1, <2>2 DEF CacheInv, OneAnswer
  <2>4. \A k \in DOMAIN o : o[k] \in D
    BY <2>3
  <2> QED BY <2>1, <2>2, <2>3, <2>4
<1> QED BY <1>1, <1>2, <1>3, <1>4 DEF G, I

\* A call is made: its frame stands on the stack, its item may be new, all else is as before.
Called(i, c) ==
  /\ \A j \in DOMAIN items : j \in DOMAIN items' /\ items'[j] = items[j] /\ items[j].state # "unloaded"
  /\ \A j \in DOMAIN items' : j \notin DOMAIN items =>
       j = i /\ items'[j].state = "unloaded" /\ items'[j].observers = <<>> /\ items'[j].name = gets'[c].name
  /\ DOMAIN gets' = DOMAIN gets \cup {c} /\ \A g \in DOMAIN gets : gets'[g] = gets[g]
  /\ c \notin DOMAIN gets /\ gets'[c].answers = 0 /\ Led(items'[i].name, gets'[c])
  /\ \A f \in DOMAIN stack' : f = 1 \/ \E e \in DOMAIN stack : stack'[f] = stack[e]
  /\ stack' # <<>> /\ stack'[1].pc = "asyncGet" /\ stack'[1].item = i /\ stack'[1].get = c
  /\ dangling' = dangling

LEMMA OwnCalled ==
  ASSUME CacheInv, OwnInv, NEW i, NEW c, Called(i, c)
  PROVE  OwnInv'
<1>1. /\ \A f \in DOMAIN stack : stack[f].item \in DOMAIN items /\ stack[f].get \in DOMAIN gets
      /\ \A j \in DOMAIN items : \A k \in DOMAIN items[j].observers : items[j].observers[k] \in DOMAIN gets
  BY OwnTypes
<1>2. FramesFine'
  <2> SUFFICES ASSUME NEW f \in DOMAIN stack' PROVE Fine(items'[stack'[f].item], gets'[stack'[f].get], stack'[f].pc)
    BY DEF FramesFine
  <2>1. CASE f = 1
    BY <2>1 DEF Called, Fine
  <2>2. CASE f # 1
    <3>1. PICK e \in DOMAIN stack : stack'[f] = stack[e]
      BY <2>2 DEF Called
    <3>2. gets'[stack[e].get] = gets[stack[e].get] /\ items'[stack[e].item] = items[stack[e].item]
      BY <1>1 DEF Called
    <3> QED BY <3>1, <3>2 DEF OwnInv, FramesFine
  <2> QED BY <2>1, <2>2
<1>3. ObserversLed'
  <2> SUFFICES ASSUME NEW j \in DOMAIN items', NEW k \in DOMAIN items'[j].observers
               PROVE  Led(items'[j].name, gets'[items'[j].observers[k]])
    BY DEF ObserversLed
  <2>1. CASE j \in DOMAIN items
    BY <1>1, <2>1 DEF Called, OwnInv, ObserversLed
  <2>2. CASE j \notin DOMAIN items
    <3>1. items'[j].observers = <<>>
      BY <2>2 DEF Called
    <3> QED BY <3>1
  <2> QED BY <2>1, <2>2
<1>4. NewIsRunning'
  BY DEF Called, NewIsRunning
<1>5. TextsOwn'
  BY DEF Called, OwnInv, TextsOwn
<1>6. Cache!OwnTextUnlessBelow'
  BY DEF Called, OwnInv, Cache!OwnTextUnlessBelow
<1> QED BY <1>2, <1>3, <1>4, <1>5, <1>6 DEF OwnInv

\* A call that may be made, for the item i, which may be a new one.
LEMMA OwnCalling ==
  ASSUME CacheInv, OwnInv, Cache!MayCall, NEW call, call.answers = 0, gets' = Append(gets, call),
         DOMAIN items \subseteq DOMAIN items', \A j \in DOMAIN items : items'[j] = items[j],
         NEW i \in DOMAIN items', items'[i].name = call.name <=> ~call.below,
         \A j \in DOMAIN items' : j \notin DOMAIN items =>
            j = i /\ items'[j].state = "unloaded" /\ items'[j].observers = <<>> /\ items'[j].name = call.name,
         stack' = <<Cache!Frame("asyncGet", i, Len(gets) + 1)>> \o stack, dangling' = dangling
  PROVE  OwnInv'
<1>1. /\ DOMAIN stack = 1..Len(stack) /\ Len(stack) \in Nat /\ DOMAIN gets = 1..Len(gets) /\ Len(gets) \in Nat
  BY OwnTypes
<1>2. PICK c : c = Len(gets) + 1
  OBVIOUS
<1>3. /\ DOMAIN gets' = DOMAIN gets \cup {c} /\ gets'[c] = call /\ c \notin DOMAIN gets
      /\ \A g \in DOMAIN gets : gets'[g] = gets[g]
  <2> DEFINE G == Cache!Call
  <2>1. gets \in Seq(G)
    BY OwnTypes
  <2> HIDE DEF G
  <2>2. Len(gets') = c /\ DOMAIN gets' = 1..c /\ gets'[c] = call /\ \A g \in 1..Len(gets) : gets'[g] = gets[g]
    BY <1>1, <1>2, <2>1
  <2> QED BY <1>1, <1>2, <2>2
<1>4. PICK f1 : f1 = Cache!Frame("asyncGet", i, c)
  OBVIOUS
<1>5. f1.pc = "asyncGet" /\ f1.item = i /\ f1.get = c
  BY <1>4 DEF Cache!Frame
<1>6. /\ stack' # <<>> /\ stack'[1] = f1
      /\ \A f \in DOMAIN stack' : f = 1 \/ \E e \in DOMAIN stack : stack'[f] = stack[e]
  <2> DEFINE F == FrameSet
  <2>1. stack \in Seq(F)
    BY FramesAre
  <2> HIDE DEF F
  <2>2. stack' = <<f1>> \o stack
    BY <1>2, <1>4
  <2>3. /\ Len(stack') = Len(stack) + 1 /\ stack'[1] = f1 /\ DOMAIN stack' = 1..(Len(stack) + 1)
        /\ \A e \in 1..Len(stack) : stack'[e + 1] = stack[e]
    BY <1>1, <2>1, <2>2
  <2>4. ASSUME NEW f \in DOMAIN stack', f # 1 PROVE \E e \in DOMAIN stack : stack'[f] = stack[e]
    <3>1. f - 1 \in 1..Len(stack) /\ f - 1 + 1 = f
      BY <1>1, <2>3, <2>4
    <3> QED BY <1>1, <2>3, <3>1
  <2> QED BY <1>1, <2>3, <2>4
<1>7. \A j \in DOMAIN items : items[j].state # "unloaded"
  <2>1. stack # <<>> => stack[1].pc \in {"load", "result"}
    BY OwnTypes DEF Cache!MayCall
  <2> QED BY <2>1 DEF OwnInv, NewIsRunning
<1>8. Led(items'[i].name, gets'[c])
  BY <1>3 DEF Led
<1>9. \A j \in DOMAIN items : j \in DOMAIN items' /\ items'[j] = items[j] /\ items[j].state # "unloaded"
  BY <1>7
<1>10. \A j \in DOMAIN items' : j \notin DOMAIN items =>
         j = i /\ items'[j].state = "unloaded" /\ items'[j].observers = <<>> /\ items'[j].name = gets'[c].name
  BY <1>3
<1>11. Called(i, c)
  BY <1>3, <1>5, <1>6, <1>8, <1>9, <1>10 DEF Called
<1> QED BY <1>11, OwnCalled

\* What the frames of the call g, which uses the item i, and of those below become.
FramesGo(i, g) ==
  \A f \in DOMAIN stack' :
    \/ \E e \in DOMAIN stack :
         /\ stack'[f].item = stack[e].item /\ stack'[f].get = stack[e].get
         /\ stack'[f].pc \in {"load", "onload"} => stack'[f].pc = stack[e].pc
    \/ stack'[f].item = i /\ stack'[f].get = g /\ Fine(items'[i], gets'[g], stack'[f].pc)

\* What becomes of the items when the running call uses i.
ItemGoes(i) ==
  /\ i = stack[1].item /\ i \in DOMAIN items /\ DOMAIN items' = DOMAIN items
  /\ \A j \in DOMAIN items : j # i => items'[j] = items[j]
  /\ items'[i].name = items[i].name /\ items'[i].state # "unloaded"
  /\ items[i].state = "loaded" => items'[i].state = "loaded"
  /\ items'[i].state = "loaded" => items'[i].text = {items[i].name}
  /\ \A k \in DOMAIN items'[i].observers : Led(items[i].name, gets[items'[i].observers[k]])

\* A step of the running call, or its end, with what it does to its item, keeps the names.
LEMMA OwnGoes ==
  ASSUME CacheInv, OwnInv, gets' = gets, dangling => dangling', NEW i, NEW g, ItemGoes(i), FramesGo(i, g)
  PROVE  OwnInv'
<1>1. \A f \in DOMAIN stack : stack[f].item \in DOMAIN items
  BY OwnTypes
<1>2. /\ DOMAIN items' = DOMAIN items /\ \A j \in DOMAIN items : items'[j].name = items[j].name
      /\ \A j \in DOMAIN items : items[j].state = "loaded" => items'[j].state = "loaded"
  BY DEF ItemGoes
<1>3. FramesFine'
  <2> SUFFICES ASSUME NEW f \in DOMAIN stack' PROVE Fine(items'[stack'[f].item], gets'[stack'[f].get], stack'[f].pc)
    BY DEF FramesFine
  <2>1. CASE \E e \in DOMAIN stack :
               /\ stack'[f].item = stack[e].item /\ stack'[f].get = stack[e].get
               /\ stack'[f].pc \in {"load", "onload"} => stack'[f].pc = stack[e].pc
    <3>1. PICK e \in DOMAIN stack :
            /\ stack'[f].item = stack[e].item /\ stack'[f].get = stack[e].get
            /\ stack'[f].pc \in {"load", "onload"} => stack'[f].pc = stack[e].pc
      BY <2>1
    <3>2. Fine(items[stack[e].item], gets[stack[e].get], stack[e].pc)
      BY DEF OwnInv, FramesFine
    <3>3. PICK j, c : j = stack[e].item /\ c = gets[stack[e].get]
      OBVIOUS
    <3>4. items'[j].name = items[j].name /\ (items[j].state = "loaded" => items'[j].state = "loaded")
      BY <1>1, <1>2, <3>3
    <3>5. Fine(items[j], c, stack[e].pc)
      BY <3>2, <3>3
    <3>6. Fine(items'[j], c, stack'[f].pc)
      BY <3>1, <3>4, <3>5 DEF Fine
    <3> QED BY <3>1, <3>3, <3>6
  <2>2. CASE stack'[f].item = i /\ stack'[f].get = g /\ Fine(items'[i], gets'[g], stack'[f].pc)
    BY <2>2
  <2> QED BY <2>1, <2>2 DEF FramesGo
<1>4. ObserversLed'
  <2> SUFFICES ASSUME NEW j \in DOMAIN items', NEW k \in DOMAIN items'[j].observers
               PROVE  Led(items'[j].name, gets[items'[j].observers[k]])
    BY DEF ObserversLed
  <2>1. CASE j = i
    BY <2>1 DEF ItemGoes
  <2>2. CASE j # i
    BY <2>2 DEF ItemGoes, OwnInv, ObserversLed
  <2> QED BY <2>1, <2>2
<1>5. NewIsRunning'
  BY DEF ItemGoes, OwnInv, NewIsRunning
<1>6. TextsOwn'
  BY DEF ItemGoes, OwnInv, TextsOwn
<1>7. Cache!OwnTextUnlessBelow'
  BY DEF OwnInv, Cache!OwnTextUnlessBelow
<1> QED BY <1>3, <1>4, <1>5, <1>6, <1>7 DEF OwnInv

\* The running call goes on at q.
LEMMA GotoIs ==
  ASSUME CacheInv, stack # <<>>, NEW q, stack' = Cache!Goto(q)
  PROVE  /\ DOMAIN stack' = DOMAIN stack /\ (\A f \in DOMAIN stack : f # 1 => stack'[f] = stack[f])
         /\ stack'[1].pc = q /\ stack'[1].item = stack[1].item /\ stack'[1].get = stack[1].get
<1>1. 1 \in DOMAIN stack /\ stack[1] \in FrameSet
  BY OwnTypes, RunningIs
<1>2. /\ DOMAIN stack' = DOMAIN stack /\ (\A f \in DOMAIN stack : f # 1 => stack'[f] = stack[f])
      /\ stack'[1] = [stack[1] EXCEPT !.pc = q]
  BY <1>1 DEF Cache!Goto
<1> QED BY <1>1, <1>2 DEF FrameSet

LEMMA GotoGoes ==
  ASSUME CacheInv, stack # <<>>, NEW q, stack' = Cache!Goto(q), NEW i, NEW g, i = stack[1].item, g = stack[1].get,
         Fine(items'[i], gets'[g], q)
  PROVE  FramesGo(i, g)
<1>1. /\ DOMAIN stack' = DOMAIN stack /\ (\A f \in DOMAIN stack : f # 1 => stack'[f] = stack[f])
      /\ stack'[1].pc = q /\ stack'[1].item = stack[1].item /\ stack'[1].get = stack[1].get
  BY GotoIs
<1> SUFFICES ASSUME NEW f \in DOMAIN stack'
             PROVE  \/ \E e \in DOMAIN stack :
                         /\ stack'[f].item = stack[e].item /\ stack'[f].get = stack[e].get
                         /\ stack'[f].pc \in {"load", "onload"} => stack'[f].pc = stack[e].pc
                    \/ stack'[f].item = i /\ stack'[f].get = g /\ Fine(items'[i], gets'[g], stack'[f].pc)
  BY DEF FramesGo
<1>2. CASE f = 1
  BY <1>1, <1>2
<1>3. CASE f # 1
  BY <1>1, <1>3
<1> QED BY <1>2, <1>3

LEMMA OwnInit == Cache!Init => OwnInv
BY DEF Cache!Init, OwnInv, FramesFine, ObserversLed, NewIsRunning, TextsOwn, Cache!OwnTextUnlessBelow

\* A name that is new gets an item of its own, one in front its own, and any other that of its neighbour.
LEMMA OwnGets ==
  ASSUME CacheInv, OwnInv, NEW n \in Texts, NEW sync \in BOOLEAN, Cache!Get(n, sync)
  PROVE  OwnInv'
<1>1. CASE Cache!Get_New(n, sync)
  <2> DEFINE call == [name |-> n, below |-> FALSE, sync |-> sync, got |-> {}, answers |-> 0]
  <2>1. PICK i : i = Len(items) + 1
    OBVIOUS
  <2>2. PICK u : u = Cache!Unloaded(n)
    OBVIOUS
  <2>3. u.name = n /\ u.state = "unloaded" /\ u.observers = <<>>
    BY <2>2 DEF Cache!Unloaded
  <2>4. /\ Cache!MayCall /\ items' = Append(items, u) /\ gets' = Append(gets, call) /\ dangling' = dangling
        /\ stack' = <<Cache!Frame("asyncGet", i, Len(gets) + 1)>> \o stack
    BY <1>1, <2>1, <2>2 DEF Cache!Get_New
  <2>5. /\ DOMAIN items' = DOMAIN items \cup {i} /\ i \notin DOMAIN items
        /\ items'[i] = u /\ \A j \in DOMAIN items : items'[j] = items[j]
    <3> DEFINE I == Cache!Item
    <3>1. items \in Seq(I) /\ DOMAIN items = 1..Len(items) /\ Len(items) \in Nat
      BY OwnTypes
    <3> HIDE DEF I
    <3>2. Len(items') = i /\ DOMAIN items' = 1..i /\ items'[i] = u /\ \A j \in 1..Len(items) : items'[j] = items[j]
      BY <2>1, <2>4, <3>1
    <3> QED BY <2>1, <3>1, <3>2
  <2>6. call.answers = 0 /\ call.name = n /\ call.below = FALSE
    OBVIOUS
  <2> HIDE DEF call
  <2>7. \A j \in DOMAIN items' : j \notin DOMAIN items =>
          j = i /\ items'[j].state = "unloaded" /\ items'[j].observers = <<>> /\ items'[j].name = call.name
    BY <2>3, <2>5, <2>6
  <2>8. i \in DOMAIN items' /\ DOMAIN items \subseteq DOMAIN items' /\ (items'[i].name = call.name <=> ~call.below)
    BY <2>3, <2>5, <2>6
  <2> QED BY <2>4, <2>5, <2>6, <2>7, <2>8, OwnCalling
<1>2. CASE Cache!Get_Known(n, sync)
  <2>1. PICK p : p = Cache!Min(Cache!Places(n))
    OBVIOUS
  <2>2. cache \in Seq(DOMAIN items) /\ Len(cache) \in Nat /\ DOMAIN cache = 1..Len(cache)
    <3>1. cache \in Seq(DOMAIN items)
      BY FramesAre
    <3> QED BY <3>1
  <2>3. p \in 1..Len(cache) /\ items[cache[p]].name = n
    <3>1. Cache!Places(n) \subseteq 1..Len(cache) /\ Cache!Places(n) # {}
      BY <1>2, <2>2 DEF Cache!Places, Cache!Get_Known
    <3>2. Cache!Places(n) \in SUBSET Nat
      BY <2>2, <3>1
    <3>3. Min(Cache!Places(n)) \in Cache!Places(n)
      BY <3>1, <3>2, MinIs
    <3>4. p = Min(Cache!Places(n))
      BY <2>1 DEF Cache!Min, Min
    <3>5. p \in Cache!Places(n)
      BY <3>3, <3>4
    <3> QED BY <3>1, <3>5 DEF Cache!Places
  <2> DEFINE call == [name |-> n, below |-> p > 1, sync |-> sync, got |-> {}, answers |-> 0]
  <2>4. PICK i : i = Cache!MovedUp(cache, p)[p]
    OBVIOUS
  <2>5. /\ Cache!MayCall /\ items' = items /\ gets' = Append(gets, call) /\ dangling' = dangling
        /\ stack' = <<Cache!Frame("asyncGet", i, Len(gets) + 1)>> \o stack
    BY <1>2, <2>1, <2>4 DEF Cache!Get_Known
  <2>6. i = cache[IF p = 1 THEN p ELSE p - 1]
    BY <2>2, <2>3, <2>4, MovedUpIs
  <2>7. i \in DOMAIN items /\ (items[i].name = n <=> p = 1)
    <3>1. CASE p = 1
      BY <2>2, <2>3, <2>6, <3>1
    <3>2. CASE p # 1
      <4>1. p - 1 \in 1..Len(cache) /\ p - 1 # p
        BY <2>2, <2>3, <3>2
      <4>2. items[cache[p - 1]].name # items[cache[p]].name
        BY <2>2, <2>3, <4>1 DEF CacheInv, Distinct, Cache!OnePerName
      <4> QED BY <2>2, <2>3, <2>6, <3>2, <4>1, <4>2
    <3> QED BY <3>1, <3>2
  <2>8. call.answers = 0 /\ call.name = n /\ (call.below <=> p # 1)
    <3>1. p > 1 <=> p # 1
      BY <2>2, <2>3
    <3>2. call.below = (p > 1)
      BY Zenon
    <3>3. call.below <=> p # 1
      BY <3>1, <3>2, Zenon
    <3> QED BY <3>3
  <2> HIDE DEF call
  <2>9. items'[i].name = call.name <=> ~call.below
    BY <2>5, <2>7, <2>8
  <2> QED BY <2>5, <2>7, <2>8, <2>9, OwnCalling
<1> QED BY <1>1, <1>2 DEF Cache!Get

LEMMA OwnAsks == ASSUME CacheInv, OwnInv, Cache!asyncGet PROVE OwnInv'
<1>1. PICK i : i = stack[1].item
  OBVIOUS
<1>2. PICK g : g = stack[1].get
  OBVIOUS
<1>3. /\ stack # <<>> /\ stack[1].pc = "asyncGet" /\ gets' = gets /\ (dangling => dangling')
      /\ 1 \in DOMAIN stack /\ i \in DOMAIN items /\ g \in DOMAIN gets /\ items[i] \in Cache!Item
      /\ items[i].observers \in Seq(DOMAIN gets)
  BY <1>1, <1>2, OwnTypes DEF Cache!asyncGet, Cache!Top
<1>4. Led(items[i].name, gets[g])
  BY <1>1, <1>2, <1>3 DEF OwnInv, FramesFine, Fine
<1>5. CASE items[i].state = "unloaded"
  <2>1. /\ stack' = Cache!Goto("load")
        /\ items' = [items EXCEPT ![i].state = "loading", ![i].observers = <<g>>]
    BY <1>1, <1>2, <1>5 DEF Cache!asyncGet, Cache!Waiting, Cache!Top
  <2>2. gets[g].name = items[i].name
    BY <1>1, <1>2, <1>3, <1>5 DEF OwnInv, NewIsRunning
  <2>3. /\ DOMAIN items' = DOMAIN items /\ \A j \in DOMAIN items : j # i => items'[j] = items[j]
        /\ items'[i] = [items[i] EXCEPT !.state = "loading", !.observers = <<g>>]
    BY <1>3, <2>1
  <2>4. items'[i].name = items[i].name /\ items'[i].state = "loading" /\ items'[i].observers = <<g>>
    BY <1>3, <2>3 DEF Cache!Item
  <2>5. ItemGoes(i)
    BY <1>1, <1>3, <1>4, <1>5, <2>3, <2>4 DEF ItemGoes
  <2>6. Fine(items'[i], gets'[g], "load")
    BY <1>3, <1>4, <2>2, <2>4 DEF Fine
  <2>7. FramesGo(i, g)
    BY <1>1, <1>2, <1>3, <2>1, <2>6, GotoGoes
  <2> QED BY <1>3, <2>5, <2>7, OwnGoes
<1>6. CASE items[i].state = "loading"
  <2>1. /\ stack' = Cache!Goto("return")
        /\ items' = [items EXCEPT ![i].observers = Append(@, g)]
    BY <1>1, <1>2, <1>6 DEF Cache!asyncGet, Cache!Waiting, Cache!Top
  <2>2. PICK o : o = items[i].observers
    OBVIOUS
  <2>3. /\ DOMAIN items' = DOMAIN items /\ \A j \in DOMAIN items : j # i => items'[j] = items[j]
        /\ items'[i] = [items[i] EXCEPT !.observers = Append(o, g)]
    BY <1>3, <2>1, <2>2
  <2>4. items'[i].name = items[i].name /\ items'[i].state = "loading" /\ items'[i].observers = Append(o, g)
    BY <1>3, <1>6, <2>3 DEF Cache!Item
  <2>5. \A k \in DOMAIN items'[i].observers : Led(items[i].name, gets[items'[i].observers[k]])
    <3>1. PICK D : D = DOMAIN gets
      OBVIOUS
    <3>2. o \in Seq(D) /\ g \in D
      BY <1>3, <2>2, <3>1
    <3>3. \A k \in DOMAIN Append(o, g) : Append(o, g)[k] = g \/ (k \in DOMAIN o /\ Append(o, g)[k] = o[k])
      BY <3>2
    <3>4. \A k \in DOMAIN o : Led(items[i].name, gets[o[k]])
      BY <1>3, <2>2 DEF OwnInv, ObserversLed
    <3> QED BY <1>4, <2>4, <3>3, <3>4
  <2>6. ItemGoes(i)
    BY <1>1, <1>3, <1>6, <2>3, <2>4, <2>5 DEF ItemGoes
  <2>7. Fine(items'[i], gets'[g], "return")
    BY <1>3, <1>4, <2>4 DEF Fine
  <2>8. FramesGo(i, g)
    BY <1>1, <1>2, <1>3, <2>1, <2>7, GotoGoes
  <2> QED BY <1>3, <2>6, <2>8, OwnGoes
<1>7. CASE items[i].state = "loaded"
  <2>1. stack' = Cache!Goto("onload") /\ items' = items
    BY <1>1, <1>7 DEF Cache!asyncGet, Cache!Top
  <2>2. /\ \A k \in DOMAIN items[i].observers : Led(items[i].name, gets[items[i].observers[k]])
        /\ items[i].text = {items[i].name}
    BY <1>3, <1>7 DEF OwnInv, ObserversLed, TextsOwn
  <2>3. ItemGoes(i)
    BY <1>1, <1>3, <1>7, <2>1, <2>2 DEF ItemGoes
  <2>4. Fine(items'[i], gets'[g], "onload")
    BY <1>3, <1>4, <1>7, <2>1 DEF Fine
  <2>5. FramesGo(i, g)
    BY <1>1, <1>2, <1>3, <2>1, <2>4, GotoGoes
  <2> QED BY <1>3, <2>3, <2>5, OwnGoes
<1> QED BY <1>1, <1>5, <1>6, <1>7 DEF Cache!asyncGet, Cache!Top

LEMMA OwnLoads == ASSUME CacheInv, OwnInv, Cache!Loaded PROVE OwnInv'
<1>1. PICK i : i = stack[1].item
  OBVIOUS
<1>2. PICK g : g = stack[1].get
  OBVIOUS
<1>3. /\ stack # <<>> /\ stack[1].pc = "load" /\ gets' = gets /\ (dangling => dangling')
      /\ 1 \in DOMAIN stack /\ i \in DOMAIN items /\ g \in DOMAIN gets /\ items[i] \in Cache!Item
      /\ items[i].state = "loading"
  BY <1>1, <1>2, OwnTypes DEF Cache!Loaded, Cache!Top
<1>4. Led(items[i].name, gets[g]) /\ gets[g].name = items[i].name
  BY <1>1, <1>2, <1>3 DEF OwnInv, FramesFine, Fine
<1>5. PICK z : z = Cache!SizeOf(gets[g].name)
  OBVIOUS
<1>6. /\ items' = [items EXCEPT ![i].state = "loaded", ![i].text = {gets[g].name}, ![i].size = z]
      /\ stack' = Cache!Goto("each")
  BY <1>1, <1>2, <1>5 DEF Cache!Loaded, Cache!Top
<1>7. /\ DOMAIN items' = DOMAIN items /\ \A j \in DOMAIN items : j # i => items'[j] = items[j]
      /\ items'[i] = [items[i] EXCEPT !.state = "loaded", !.text = {gets[g].name}, !.size = z]
  BY <1>3, <1>6
<1>8. /\ items'[i].name = items[i].name /\ items'[i].state = "loaded" /\ items'[i].text = {items[i].name}
      /\ items'[i].observers = items[i].observers
  BY <1>3, <1>4, <1>7 DEF Cache!Item
<1>9. \A k \in DOMAIN items[i].observers : Led(items[i].name, gets[items[i].observers[k]])
  BY <1>3 DEF OwnInv, ObserversLed
<1>10. ItemGoes(i)
  BY <1>1, <1>3, <1>7, <1>8, <1>9 DEF ItemGoes
<1>11. Fine(items'[i], gets'[g], "each")
  BY <1>3, <1>4, <1>8 DEF Fine
<1>12. FramesGo(i, g)
  BY <1>1, <1>2, <1>3, <1>6, <1>11, GotoGoes
<1> QED BY <1>3, <1>10, <1>12, OwnGoes

LEMMA OwnTells == ASSUME CacheInv, OwnInv, Cache!Each PROVE OwnInv'
<1>1. PICK i : i = stack[1].item
  OBVIOUS
<1>2. PICK o : o = items[i].observers
  OBVIOUS
<1>3. /\ stack # <<>> /\ stack[1].pc = "each" /\ gets' = gets /\ (dangling => dangling')
      /\ 1 \in DOMAIN stack /\ i \in DOMAIN items /\ items[i] \in Cache!Item
      /\ items[i].state = "loaded" /\ stack[1] \in FrameSet /\ o \in Seq(DOMAIN gets)
  BY <1>1, <1>2, OwnTypes, RunningIs DEF Cache!Each, Cache!Top
<1>4. items[i].text = {items[i].name} /\ \A k \in DOMAIN o : Led(items[i].name, gets[o[k]])
  BY <1>2, <1>3 DEF OwnInv, ObserversLed, TextsOwn
<1>5. CASE stack[1].next <= Len(o)
  <2>1. PICK k : k = stack[1].next
    OBVIOUS
  <2>2. PICK g : g = o[k]
    OBVIOUS
  <2>3. /\ stack' = <<Cache!Frame("onload", i, g)>> \o [stack EXCEPT ![1].next = @ + 1] /\ items' = items
    BY <1>1, <1>2, <1>5, <2>1, <2>2 DEF Cache!Each, Cache!Top
  <2>4. k \in DOMAIN o
    <3>1. PICK D : D = DOMAIN gets
      OBVIOUS
    <3>2. o \in Seq(D) /\ k \in Nat
      BY <1>3, <2>1, <3>1 DEF FrameSet
    <3>3. PICK n : n = Len(stack)
      OBVIOUS
    <3>4. n \in Levels /\ L(n) = stack[1] /\ Observers(n) = o
      BY <1>1, <1>2, <1>3, <3>3, RunningIs DEF Observers
    <3>5. k >= 1
      BY <1>3, <2>1, <3>4 DEF CacheInv, LoadedOnce, Loads
    <3> QED BY <1>5, <2>1, <3>2, <3>5
  <2>5. PICK f1 : f1 = Cache!Frame("onload", i, g)
    OBVIOUS
  <2>6. f1.pc = "onload" /\ f1.item = i /\ f1.get = g
    BY <2>5 DEF Cache!Frame
  <2>7. PICK below : below = [stack EXCEPT ![1].next = @ + 1]
    OBVIOUS
  <2>8. /\ below \in Seq(FrameSet) /\ Len(below) = Len(stack) /\ DOMAIN stack = 1..Len(stack) /\ Len(stack) \in Nat
        /\ \A e \in DOMAIN stack : below[e].item = stack[e].item /\ below[e].get = stack[e].get /\ below[e].pc = stack[e].pc
    <3> DEFINE F == FrameSet
    <3>1. stack \in Seq(F) /\ 1 \in DOMAIN stack
      BY <1>3, FramesAre
    <3>2. PICK r : r = [stack[1] EXCEPT !.next = @ + 1]
      OBVIOUS
    <3>3. r \in F /\ r.item = stack[1].item /\ r.get = stack[1].get /\ r.pc = stack[1].pc
      BY <1>3, <3>2 DEF FrameSet
    <3>4. below = [stack EXCEPT ![1] = r]
      BY <2>7, <3>1, <3>2
    <3> HIDE DEF F
    <3>5. /\ below \in Seq(F) /\ Len(below) = Len(stack) /\ DOMAIN stack = 1..Len(stack) /\ Len(stack) \in Nat
          /\ below[1] = r /\ \A e \in DOMAIN stack : e # 1 => below[e] = stack[e]
      BY <3>1, <3>3, <3>4
    <3> QED BY <3>3, <3>5 DEF F
  <2>9. /\ DOMAIN stack' = 1..(Len(stack) + 1) /\ stack'[1] = f1
        /\ \A e \in 1..Len(stack) : stack'[e + 1] = below[e]
    <3> DEFINE F == FrameSet
    <3>1. below \in Seq(F) /\ Len(below) = Len(stack) /\ Len(stack) \in Nat
      BY <2>8
    <3> HIDE DEF F
    <3> QED BY <2>3, <2>5, <2>7, <3>1
  <2>10. Fine(items'[i], gets'[g], "onload")
    BY <1>3, <1>4, <2>2, <2>3, <2>4 DEF Fine
  <2>11. FramesGo(i, g)
    <3> SUFFICES ASSUME NEW f \in DOMAIN stack'
                 PROVE  \/ \E e \in DOMAIN stack :
                             /\ stack'[f].item = stack[e].item /\ stack'[f].get = stack[e].get
                             /\ stack'[f].pc \in {"load", "onload"} => stack'[f].pc = stack[e].pc
                        \/ stack'[f].item = i /\ stack'[f].get = g /\ Fine(items'[i], gets'[g], stack'[f].pc)
      BY DEF FramesGo
    <3>1. CASE f = 1
      BY <2>6, <2>9, <2>10, <3>1
    <3>2. CASE f # 1
      <4>1. f - 1 \in DOMAIN stack /\ f - 1 \in 1..Len(stack) /\ f - 1 + 1 = f
        BY <2>8, <2>9, <3>2
      <4>2. PICK e : e = f - 1
        OBVIOUS
      <4>3. e \in DOMAIN stack /\ stack'[f] = below[e]
        BY <2>9, <4>1, <4>2
      <4>4. stack'[f].item = stack[e].item /\ stack'[f].get = stack[e].get /\ stack'[f].pc = stack[e].pc
        BY <2>8, <4>3
      <4> QED BY <4>3, <4>4
    <3> QED BY <3>1, <3>2
  <2>12. ItemGoes(i)
    BY <1>1, <1>2, <1>3, <1>4, <2>3 DEF ItemGoes
  <2> QED BY <1>3, <2>11, <2>12, OwnGoes
<1>6. CASE ~(stack[1].next <= Len(o))
  <2>1. stack' = Cache!Goto("return") /\ items' = [items EXCEPT ![i].observers = <<>>]
    BY <1>1, <1>2, <1>6 DEF Cache!Each, Cache!Top
  <2>2. /\ DOMAIN items' = DOMAIN items /\ \A j \in DOMAIN items : j # i => items'[j] = items[j]
        /\ items'[i] = [items[i] EXCEPT !.observers = <<>>]
    BY <1>3, <2>1
  <2>3. /\ items'[i].name = items[i].name /\ items'[i].state = "loaded" /\ items'[i].text = {items[i].name}
        /\ items'[i].observers = <<>>
    BY <1>3, <1>4, <2>2 DEF Cache!Item
  <2>4. \A k \in DOMAIN items'[i].observers : Led(items[i].name, gets[items'[i].observers[k]])
    BY <2>3
  <2>5. ItemGoes(i)
    BY <1>1, <1>3, <2>2, <2>3, <2>4 DEF ItemGoes
  <2>6. PICK g : g = stack[1].get
    OBVIOUS
  <2>7. Fine(items'[i], gets'[g], "return")
    BY <1>1, <1>3, <2>3, <2>6 DEF OwnInv, FramesFine, Fine
  <2>8. FramesGo(i, g)
    BY <1>1, <1>3, <2>1, <2>6, <2>7, GotoGoes
  <2> QED BY <1>3, <2>5, <2>8, OwnGoes
<1> QED BY <1>5, <1>6

\* A call whose function has returned, or that returns itself.
LEMMA OwnEnds ==
  ASSUME CacheInv, OwnInv, stack # <<>>, stack[1].pc \in {"result", "return"},
         stack' = Tail(stack) \/ stack' = Cache!Goto("return"), items' = items, gets' = gets, dangling' = dangling
  PROVE  OwnInv'
<1>1. PICK i : i = stack[1].item
  OBVIOUS
<1>2. PICK g : g = stack[1].get
  OBVIOUS
<1>3. 1 \in DOMAIN stack /\ i \in DOMAIN items /\ DOMAIN stack = 1..Len(stack) /\ Len(stack) \in Nat
  BY <1>1, OwnTypes
<1>4. /\ \A k \in DOMAIN items[i].observers : Led(items[i].name, gets[items[i].observers[k]])
      /\ items[i].state # "unloaded"
      /\ items[i].state = "loaded" => items[i].text = {items[i].name}
  BY <1>3 DEF OwnInv, ObserversLed, NewIsRunning, TextsOwn
<1>5. ItemGoes(i)
  BY <1>1, <1>3, <1>4 DEF ItemGoes
<1>6. FramesGo(i, g)
  <2>1. CASE stack' = Tail(stack)
    <3> DEFINE F == FrameSet
    <3>1. stack \in Seq(F)
      BY FramesAre
    <3> HIDE DEF F
    <3>2. DOMAIN stack' = 1..(Len(stack) - 1) /\ \A f \in 1..(Len(stack) - 1) : stack'[f] = stack[f + 1]
      BY <2>1, <3>1
    <3>3. \A f \in DOMAIN stack' : f + 1 \in DOMAIN stack /\ stack'[f] = stack[f + 1]
      BY <1>3, <3>2
    <3> QED BY <3>3 DEF FramesGo
  <2>2. CASE stack' = Cache!Goto("return")
    <3>1. Fine(items'[i], gets'[g], "return")
      BY <1>1, <1>2, <1>3 DEF OwnInv, FramesFine, Fine
    <3> QED BY <1>1, <1>2, <2>2, <3>1, GotoGoes
  <2> QED BY <2>1, <2>2
<1>7. dangling => dangling'
  OBVIOUS
<1> QED BY <1>5, <1>6, <1>7, OwnGoes

\* The text that is given is that of the item.
LEMMA OwnReleases == ASSUME CacheInv, OwnInv, Cache!Release PROVE OwnInv'
<1>1. PICK i : i = stack[1].item
  OBVIOUS
<1>2. PICK g : g = stack[1].get
  OBVIOUS
<1>3. PICK gone : items' = [j \in DOMAIN items |-> IF j \in gone THEN [items[j] EXCEPT !.deleted = TRUE] ELSE items[j]]
  BY DEF Cache!Release
<1>4. /\ stack # <<>> /\ stack[1].pc = "onload" /\ dangling' = dangling /\ stack' = Cache!Goto("result")
      /\ 1 \in DOMAIN stack /\ i \in DOMAIN items /\ g \in DOMAIN gets /\ gets[g] \in Cache!Call
  BY <1>1, <1>2, OwnTypes DEF Cache!Release, Cache!Top
<1>5. PICK t \in {items[i].text} \cup (IF dangling THEN {{}} ELSE {}) :
        gets' = [gets EXCEPT ![g].answers = @ + 1, ![g].got = t]
  BY <1>1, <1>2 DEF Cache!Release, Cache!Top
<1>6. /\ DOMAIN gets' = DOMAIN gets /\ (\A c \in DOMAIN gets : c # g => gets'[c] = gets[c])
      /\ gets'[g].got = t /\ gets'[g].name = gets[g].name /\ gets'[g].below = gets[g].below
  <2>1. /\ DOMAIN gets' = DOMAIN gets /\ (\A c \in DOMAIN gets : c # g => gets'[c] = gets[c])
        /\ gets'[g] = [gets[g] EXCEPT !.answers = @ + 1, !.got = t]
    BY <1>4, <1>5
  <2> QED BY <1>4, <2>1 DEF Cache!Call
<1>7. /\ DOMAIN items' = DOMAIN items
      /\ \A j \in DOMAIN items : /\ items'[j].name = items[j].name /\ items'[j].state = items[j].state
                                 /\ items'[j].text = items[j].text /\ items'[j].observers = items[j].observers
  <2>1. DOMAIN items' = DOMAIN items
    BY <1>3
  <2>2. ASSUME NEW j \in DOMAIN items
        PROVE  /\ items'[j].name = items[j].name /\ items'[j].state = items[j].state
               /\ items'[j].text = items[j].text /\ items'[j].observers = items[j].observers
    <3>1. items[j] \in Cache!Item
      BY OwnTypes
    <3>2. CASE j \in gone
      BY <1>3, <3>1, <3>2 DEF Cache!Item
    <3>3. CASE j \notin gone
      BY <1>3, <3>3
    <3> QED BY <3>2, <3>3
  <2> QED BY <2>1, <2>2
<1>8. \A j \in DOMAIN items, c \in DOMAIN gets : Led(items[j].name, gets[c]) => Led(items'[j].name, gets'[c])
  <2> SUFFICES ASSUME NEW j \in DOMAIN items, NEW c \in DOMAIN gets, Led(items[j].name, gets[c])
               PROVE  Led(items'[j].name, gets'[c])
    OBVIOUS
  <2>1. items'[j].name = items[j].name /\ gets'[c].name = gets[c].name /\ gets'[c].below = gets[c].below
    BY <1>6, <1>7
  <2> QED BY <2>1 DEF Led
<1>9. /\ DOMAIN stack' = DOMAIN stack /\ (\A f \in DOMAIN stack : f # 1 => stack'[f] = stack[f])
      /\ stack'[1].pc = "result" /\ stack'[1].item = i /\ stack'[1].get = g
  BY <1>1, <1>2, <1>4, GotoIs
<1>10. FramesFine'
  <2> SUFFICES ASSUME NEW f \in DOMAIN stack' PROVE Fine(items'[stack'[f].item], gets'[stack'[f].get], stack'[f].pc)
    BY DEF FramesFine
  <2>1. f \in DOMAIN stack /\ stack'[f].item = stack[f].item /\ stack'[f].get = stack[f].get
        /\ (stack'[f].pc \in {"load", "onload"} => stack'[f].pc = stack[f].pc)
    BY <1>1, <1>2, <1>9
  <2>2. PICK j, c, q : j = stack[f].item /\ c = stack[f].get /\ q = stack[f].pc
    OBVIOUS
  <2>3. j \in DOMAIN items /\ c \in DOMAIN gets
    BY <2>1, <2>2, OwnTypes
  <2>4. Fine(items[j], gets[c], q)
    BY <2>1, <2>2 DEF OwnInv, FramesFine
  <2>5. gets'[c].name = gets[c].name
    BY <1>6, <2>3
  <2>6. items'[j].name = items[j].name /\ items'[j].state = items[j].state /\ Led(items'[j].name, gets'[c])
    BY <1>7, <1>8, <2>3, <2>4 DEF Fine
  <2>7. Fine(items'[j], gets'[c], stack'[f].pc)
    BY <2>1, <2>2, <2>4, <2>5, <2>6 DEF Fine
  <2> QED BY <2>1, <2>2, <2>7
<1>11. ObserversLed'
  <2> SUFFICES ASSUME NEW j \in DOMAIN items', NEW k \in DOMAIN items'[j].observers
               PROVE  Led(items'[j].name, gets'[items'[j].observers[k]])
    BY DEF ObserversLed
  <2>1. PICK c : c = items[j].observers[k]
    OBVIOUS
  <2>2. /\ j \in DOMAIN items /\ k \in DOMAIN items[j].observers /\ c \in DOMAIN gets
        /\ items'[j].observers[k] = c
    BY <1>7, <2>1, OwnTypes
  <2>3. Led(items[j].name, gets[c])
    BY <2>1, <2>2 DEF OwnInv, ObserversLed
  <2> QED BY <1>8, <2>2, <2>3
<1>12. NewIsRunning' /\ TextsOwn'
  <2>1. \A j \in DOMAIN items : items[j].state # "unloaded"
    BY <1>4 DEF OwnInv, NewIsRunning
  <2> QED BY <1>7, <2>1 DEF OwnInv, NewIsRunning, TextsOwn
<1>13. Cache!OwnTextUnlessBelow'
  <2> SUFFICES ASSUME ~dangling, NEW c \in DOMAIN gets, gets'[c].answers > 0
               PROVE  gets'[c].got = {gets'[c].name} <=> ~gets'[c].below
    BY <1>4, <1>6 DEF Cache!OwnTextUnlessBelow
  <2>1. CASE c = g
    <3>1. t = {items[i].name} /\ Led(items[i].name, gets[g])
      BY <1>1, <1>2, <1>4, <1>5 DEF OwnInv, FramesFine, TextsOwn, Fine
    <3>2. {items[i].name} = {gets[g].name} <=> items[i].name = gets[g].name
      OBVIOUS
    <3> QED BY <1>6, <2>1, <3>1, <3>2 DEF Led
  <2>2. CASE c # g
    BY <1>6, <2>2 DEF OwnInv, Cache!OwnTextUnlessBelow
  <2> QED BY <2>1, <2>2
<1> QED BY <1>10, <1>11, <1>12, <1>13 DEF OwnInv

LEMMA OwnStep == CacheInv /\ OwnInv /\ [Cache!Next]_Cache!vars => OwnInv'
<1> SUFFICES ASSUME CacheInv, OwnInv, [Cache!Next]_Cache!vars PROVE OwnInv'
  OBVIOUS
<1>1. CASE Cache!Result \/ Cache!Return
  <2>1. /\ stack # <<>> /\ stack[1].pc \in {"result", "return"} /\ items' = items /\ gets' = gets
        /\ dangling' = dangling /\ (stack' = Tail(stack) \/ stack' = Cache!Goto("return"))
    BY <1>1 DEF Cache!Result, Cache!Return, Cache!Top
  <2> QED BY <2>1, OwnEnds
<1>2. CASE UNCHANGED Cache!vars \/ Cache!Release_Crash \/ Cache!Dangling_Crash
  BY <1>2 DEF Cache!vars, Cache!Release_Crash, Cache!Dangling_Crash, OwnInv,
         FramesFine, ObserversLed, NewIsRunning, TextsOwn, Cache!OwnTextUnlessBelow
<1> QED BY <1>1, <1>2, OwnGets, OwnAsks, OwnLoads, OwnTells, OwnReleases DEF Cache!Next, Cache!Running, Cache!Stopped

LEMMA CacheIs == CacheInv /\ OwnInv => CacheKept
<1> SUFFICES ASSUME CacheInv, OwnInv PROVE CacheKept
  OBVIOUS
<1>1. Cache!OnePerName
  BY DEF CacheInv, Distinct
<1>2. Cache!FitsWhenIdle
  <2>1. ASSUME stack = <<>> PROVE Cache!Total(cache) <= CacheSize
    <3>1. Levels = {}
      BY <2>1 DEF Levels
    <3> QED BY <3>1 DEF CacheInv, Fits
  <2> QED BY <2>1 DEF Cache!FitsWhenIdle
<1>3. Cache!AnsweredOnce
  <2>1. ASSUME NEW g \in DOMAIN gets PROVE gets[g].answers <= 1 /\ (stack = <<>> => gets[g].answers = 1)
    <3>1. gets[g].answers \in {0, 1} /\ (gets[g].answers = 0 => \E d, k \in Nat : Has(g, d, k))
      BY DEF CacheInv, OneAnswer
    <3>2. ASSUME stack = <<>> PROVE gets[g].answers # 0
      <4>1. Levels = {}
        BY <3>2 DEF Levels
      <4> QED BY <3>1, <4>1 DEF Has
    <3> QED BY <3>1, <3>2
  <2> QED BY <2>1 DEF Cache!AnsweredOnce
<1>4. Cache!WaitsOnlyInLoad
  <2>1. ASSUME stack # <<>>, stack[1].pc = "return", gets[stack[1].get].answers = 0
        PROVE  \E f \in 2..Len(stack) : stack[f].pc = "load" /\ stack[f].item = stack[1].item
    <3>1. PICK n : n = Len(stack)
      OBVIOUS
    <3>2. n \in Levels /\ n \in Nat \ {0} /\ L(n) = stack[1]
      BY <2>1, <3>1, RunningIs
    <3>3. PICK e \in 1..(n - 1) : L(e).pc = "load" /\ L(e).item = L(n).item
      BY <2>1, <3>2 DEF CacheInv, Told
    <3>4. PICK f : f = n + 1 - e
      OBVIOUS
    <3>5. f \in 2..n
      BY <3>2, <3>4
    <3>6. L(e) = stack[f]
      BY <3>1, <3>4 DEF L
    <3> QED BY <3>1, <3>2, <3>3, <3>5, <3>6
  <2>2. stack # <<>> => Led(items[stack[1].item].name, gets[stack[1].get])
    BY OwnTypes DEF OwnInv, FramesFine, Fine
  <2> QED BY <2>1, <2>2 DEF Cache!WaitsOnlyInLoad, Cache!Waits, Cache!Top, Led
<1> QED BY <1>1, <1>2, <1>3, <1>4 DEF CacheKept, OwnInv

-----------------------------------------------------------------------------
(* Frames to websockets. *)

\* What a piece is in its place.
InPlace(w, i) ==
  /\ i <= 2 => w[i].kind = Output!Handshake[i]
  /\ i > 2 /\ (i - 2) % 2 = 1 => w[i].kind = "header" /\ Len(w[i].bytes) = Output!LengthOf(w[i].bytes)
  /\ i > 2 /\ (i - 2) % 2 # 1 =>
       w[i].kind = "payload" /\ w[i].frame = w[i - 1].frame /\ w[i].size = Output!Decode(w[i - 1].bytes)

\* Where a frame was begun: nowhere, or at one place.
Begins(w, i, frame) == w[i].kind = "header" /\ w[i].frame = frame
Never(w, frame) == \A i \in DOMAIN w : ~Begins(w, i, frame)
Once(w, frame) == \E i \in DOMAIN w : Begins(w, i, frame) /\ \A j \in DOMAIN w : Begins(w, j, frame) => j = i

Frame(t) == <<t, calls[t]>>
HeaderOf(t) == [kind |-> "header", frame |-> Frame(t), bytes |-> Output!Header(size[t])]
PayloadOf(t) == [kind |-> "payload", frame |-> Frame(t), size |-> size[t]]

\* A call has a size, is for websockets, and is at a client that it has not been through with.
InCall ==
  /\ \A t \in Threads :
       /\ at[t] # None => at[t] \in todo[t]
       /\ todo[t] \subseteq sentTo[t]
       /\ sentTo[t] # {} => calls[t] > 0 /\ size[t] \in FrameSizes
       /\ \A c \in sentTo[t] : webSocketOpen[c]
  /\ \A c \in Clients : answered[c] > 0 => webSocketOpen[c]

\* Unless frames were mixed, the handshake comes first, and one call at most is in a frame.
Whole(c) ==
  /\ Output!Readable(wire[c])
  /\ connected[c] =>
       /\ \A t \in Threads : at[t] = c => answered[c] = 2
       /\ \A t, u \in Threads : at[t] = c /\ at[u] = c => t = u
       /\ answered[c] < 2 => Len(wire[c]) = answered[c]
       /\ answered[c] = 2 =>
            /\ Len(wire[c]) >= 2
            /\ (\A t \in Threads : at[t] # c) => Len(wire[c]) % 2 = 0
            /\ \A t \in Threads : at[t] = c => Len(wire[c]) % 2 = 1 /\ wire[c][Len(wire[c])] = HeaderOf(t)

\* A frame is begun once on every connection that it is for, when its turn comes.
Counts ==
  \A t \in Threads, c \in Clients :
    /\ \A n \in Nat : n > calls[t] => Never(wire[c], <<t, n>>)
    /\ c \notin sentTo[t] \/ (c \in todo[t] /\ at[t] # c) => Never(wire[c], Frame(t))
    /\ connected[c] /\ c \in sentTo[t] /\ (c \notin todo[t] \/ at[t] = c) => Once(wire[c], Frame(t))

OutputInv ==
  /\ Output!TypeOK /\ InCall /\ (\A c \in Clients : ~mixed[c] => Whole(c)) /\ Counts /\ Output!OnlyWebSockets

-----------------------------------------------------------------------------
(* The header of a frame. *)

LEMMA HandshakeIs ==
  /\ Len(Output!Handshake) = 2 /\ DOMAIN Output!Handshake = 1..2
  /\ Output!Handshake[1] = "first line" /\ Output!Handshake[2] = "headers"
BY DEF Output!Handshake

\* The low byte of n, and what is left of n.
Low(n) == n % 256
High(n) == n \div 256

LEMMA LowIs == \A n \in Nat : Low(n) \in 0..255 /\ High(n) \in Nat /\ n = 256 * High(n) + Low(n)
BY SMT DEF Low, High

LEMMA ByteIs ==
  /\ \A n \in Nat, k \in 0..7 : Output!Byte(n, k) \in 0..255
  /\ \A n \in Nat :
       /\ Output!Byte(n, 0) = Low(n) /\ Output!Byte(n, 1) = Low(High(n))
       /\ Output!Byte(n, 2) = Low(High(High(n))) /\ Output!Byte(n, 3) = Low(High(High(High(n))))
<1>1. \A n \in Nat :
        /\ Output!Byte(n, 0) = Low(n) /\ Output!Byte(n, 1) = Low(High(n))
        /\ Output!Byte(n, 2) = Low(High(High(n))) /\ Output!Byte(n, 3) = Low(High(High(High(n))))
  BY SMT DEF Output!Byte, Low, High
<1>2. \A n \in Nat, k \in 4..7 : Output!Byte(n, k) = 0
  BY SMT DEF Output!Byte
<1>3. ASSUME NEW n \in Nat, NEW k \in 0..7 PROVE Output!Byte(n, k) \in 0..255
  <2>1. CASE k \in 4..7
    BY <1>2, <2>1, SMT
  <2>2. CASE k \in 0..3
    <3>1. k = 0 \/ k = 1 \/ k = 2 \/ k = 3
      BY <2>2
    <3>2. High(n) \in Nat /\ High(High(n)) \in Nat /\ High(High(High(n))) \in Nat
      BY LowIs
    <3>3. /\ Output!Byte(n, 0) \in 0..255 /\ Output!Byte(n, 1) \in 0..255
          /\ Output!Byte(n, 2) \in 0..255 /\ Output!Byte(n, 3) \in 0..255
      BY <1>1, <3>2, LowIs
    <3> QED BY <3>1, <3>3
  <2> QED BY <2>1, <2>2
<1> QED BY <1>1, <1>3

LEMMA InFront ==
  ASSUME NEW S, NEW first \in S, NEW s \in Seq(S)
  PROVE  LET v == <<first>> \o s
         IN  v \in Seq(S) /\ Len(v) = Len(s) + 1 /\ v[1] = first /\ \A i \in 1..Len(s) : v[i + 1] = s[i]
OBVIOUS

\* A header announces the size it was made for, and has its length.
LEMMA HeaderIs ==
  ASSUME NEW n \in Nat, n <= Output!MaxInt
  PROVE  /\ Output!Header(n) \in Seq(0..255) /\ Output!Decode(Output!Header(n)) = n
         /\ Len(Output!Header(n)) = Output!LengthOf(Output!Header(n))
<1> DEFINE hd == Output!Header(n)
<1>1. n \in Nat
  OBVIOUS
<1>2. n < 126 => hd = <<n>>
  BY SMT DEF Output!Header
<1>3. CASE n < 126
  <2>1. hd \in Seq(0..255) /\ Len(hd) = 1 /\ hd[1] = n
    <3>1. n \in 0..255
      BY <1>1, <1>3
    <3>2. hd = <<n>>
      BY <1>2, <1>3
    <3> HIDE DEF hd
    <3> QED BY <3>1, <3>2
  <2> HIDE DEF hd
  <2>2. Output!Decode(hd) = n /\ Output!LengthOf(hd) = 1
    BY <1>3, <2>1, SMT DEF Output!Decode, Output!LengthOf
  <2> QED BY <2>1, <2>2 DEF hd
<1>4. CASE n >= 126 /\ High(High(n)) = 0
  <2> DEFINE b1 == Output!Byte(n, 1)
             b0 == Output!Byte(n, 0)
  <2>1. hd = <<126, b1, b0>>
    BY <1>1, <1>4, SMT DEF Output!Header, High
  <2>2. b1 = Low(High(n)) /\ b0 = Low(n) /\ b0 \in 0..255 /\ b1 \in 0..255
    BY <1>1, ByteIs
  <2> HIDE DEF b1, b0
  <2>3. hd \in Seq(0..255) /\ Len(hd) = 3 /\ hd[1] = 126 /\ hd[2] = b1 /\ hd[3] = b0
    BY <2>1, <2>2
  <2>4. b1 * 256 + b0 = n
    BY <1>1, <1>4, <2>2, LowIs
  <2> HIDE DEF hd
  <2>5. Output!Decode(hd) = hd[2] * 256 + hd[3] /\ Output!LengthOf(hd) = 3
    BY <2>3, SMT DEF Output!Decode, Output!LengthOf
  <2> QED BY <2>3, <2>4, <2>5 DEF hd
<1>5. CASE n >= 126 /\ High(High(n)) # 0
  <2> DEFINE bs == [i \in 1..8 |-> Output!Byte(n, 8 - i)]
  <2>1. hd = <<127>> \o bs
    BY <1>1, <1>5, SMT DEF Output!Header, High
  <2>2. \A i \in 1..8 : 8 - i \in 0..7
    OBVIOUS
  <2>3. bs \in Seq(0..255) /\ Len(bs) = 8
    BY <1>1, <2>2, ByteIs
  <2>4. bs[5] = Output!Byte(n, 3) /\ bs[6] = Output!Byte(n, 2) /\ bs[7] = Output!Byte(n, 1) /\ bs[8] = Output!Byte(n, 0)
    OBVIOUS
  <2> HIDE DEF bs
  <2>5. hd \in Seq(0..255) /\ Len(hd) = 9 /\ hd[1] = 127 /\ hd[6] = bs[5] /\ hd[7] = bs[6] /\ hd[8] = bs[7] /\ hd[9] = bs[8]
    <3> HIDE DEF hd
    <3> DEFINE S == 0..255
    <3>1. 127 \in S /\ bs \in Seq(S)
      BY <2>3
    <3> HIDE DEF S
    <3>2. hd \in Seq(S) /\ Len(hd) = Len(bs) + 1
      BY <2>1, <3>1, InFront
    <3>3. \A i \in 1..Len(bs) : hd[i + 1] = bs[i]
      BY <2>1, <3>1, InFront
    <3>4. hd[1] = 127
      BY <2>1, <3>1, InFront
    <3>5. hd[5 + 1] = bs[5] /\ hd[6 + 1] = bs[6] /\ hd[7 + 1] = bs[7] /\ hd[8 + 1] = bs[8]
      BY <2>3, <3>3
    <3> QED BY <2>3, <3>2, <3>4, <3>5 DEF S
  <2> HIDE DEF hd
  <2>6. Output!Decode(hd) = hd[6] * 16777216 + hd[7] * 65536 + hd[8] * 256 + hd[9] /\ Output!LengthOf(hd) = 9
    BY <2>5, SMT DEF Output!Decode, Output!LengthOf
  <2> DEFINE r1 == High(n)
             r2 == High(r1)
             r3 == High(r2)
             b3 == Low(High(High(High(n))))
             b2 == Low(High(High(n)))
             b1 == Low(High(n))
             b0 == Low(n)
  <2>7. b3 * 16777216 + b2 * 65536 + b1 * 256 + b0 = n
    <3>1. n = 256 * r1 + b0 /\ r1 \in Nat /\ b0 \in 0..255
      BY <1>1, LowIs
    <3>2. r1 = 256 * r2 + b1 /\ r2 \in Nat /\ b1 \in 0..255
      BY <3>1, LowIs
    <3>3. r2 = 256 * r3 + b2 /\ r3 \in Nat /\ b2 \in 0..255
      BY <3>2, LowIs
    <3>4. r3 = 256 * High(r3) + b3 /\ High(r3) \in Nat /\ b3 \in 0..255
      BY <3>3, LowIs
    <3> HIDE DEF b3, b2, b1, b0, r3, r2, r1
    <3>5. High(r3) = 0
      BY <1>1, <3>1, <3>2, <3>3, <3>4, SMT DEF Output!MaxInt
    <3> QED BY <1>1, <3>1, <3>2, <3>3, <3>4, <3>5, SMT
  <2>8. hd[6] = b3 /\ hd[7] = b2 /\ hd[8] = b1 /\ hd[9] = b0
    BY <1>1, <2>4, <2>5, ByteIs
  <2> HIDE DEF b3, b2, b1, b0
  <2>9. Output!Decode(hd) = n
    BY <2>6, <2>7, <2>8, SMT
  <2> QED BY <2>5, <2>6, <2>9 DEF hd
<1>6. n >= 126 \/ n < 126
  BY <1>1
<1> QED BY <1>3, <1>4, <1>5, <1>6

-----------------------------------------------------------------------------
(* What another piece on the wire changes. *)

LEMMA ReadableIs ==
  ASSUME NEW S, NEW w \in Seq(S) PROVE Output!Readable(w) <=> \A i \in DOMAIN w : InPlace(w, i)
<1> DEFINE FitsIn(i) ==
             IF i <= Len(Output!Handshake) THEN w[i].kind = Output!Handshake[i]
             ELSE IF (i - Len(Output!Handshake)) % 2 = 1
                    THEN w[i].kind = "header" /\ Len(w[i].bytes) = Output!LengthOf(w[i].bytes)
             ELSE /\ w[i].kind = "payload" /\ w[i].frame = w[i - 1].frame
                  /\ w[i].size = Output!Decode(w[i - 1].bytes)
<1>1. ASSUME NEW i \in DOMAIN w PROVE FitsIn(i) <=> InPlace(w, i)
  <2>1. i \in Nat /\ ((i <= 2) \/ (i > 2 /\ ~(i <= 2)))
    OBVIOUS
  <2>0. Len(Output!Handshake) = 2
    BY HandshakeIs
  <2> DEFINE one == w[i].kind = Output!Handshake[i]
             two == w[i].kind = "header" /\ Len(w[i].bytes) = Output!LengthOf(w[i].bytes)
             three == /\ w[i].kind = "payload" /\ w[i].frame = w[i - 1].frame
                      /\ w[i].size = Output!Decode(w[i - 1].bytes)
  <2>2. FitsIn(i) <=> IF i <= 2 THEN one ELSE IF (i - 2) % 2 = 1 THEN two ELSE three
    BY <2>0
  <2>3. InPlace(w, i) <=> (i <= 2 => one) /\ (i > 2 /\ (i - 2) % 2 = 1 => two) /\ (i > 2 /\ (i - 2) % 2 # 1 => three)
    BY DEF InPlace
  <2> HIDE DEF one, two, three, FitsIn
  <2> QED BY <2>1, <2>2, <2>3
<1>2. Output!Readable(w) <=> \A i \in DOMAIN w : FitsIn(i)
  BY DEF Output!Readable
<1> HIDE DEF FitsIn
<1> QED BY <1>1, <1>2

LEMMA OneMorePiece ==
  ASSUME NEW S, NEW w \in Seq(S), NEW piece \in S
  PROVE  LET v == Append(w, piece)
         IN  /\ v \in Seq(S) /\ Len(v) = Len(w) + 1 /\ v[Len(v)] = piece
             /\ Output!Readable(w) /\ InPlace(v, Len(w) + 1) => Output!Readable(v)
             /\ \A frame :
                  /\ ~(piece.kind = "header" /\ piece.frame = frame) =>
                       (Never(w, frame) => Never(v, frame)) /\ (Once(w, frame) => Once(v, frame))
                  /\ piece.kind = "header" /\ piece.frame = frame /\ Never(w, frame) => Once(v, frame)
<1> DEFINE v == Append(w, piece)
<1>1. /\ v \in Seq(S) /\ Len(v) = Len(w) + 1 /\ Len(w) \in Nat /\ DOMAIN w = 1..Len(w) /\ DOMAIN v = 1..(Len(w) + 1)
      /\ v[Len(w) + 1] = piece /\ \A i \in 1..Len(w) : v[i] = w[i]
  OBVIOUS
<1> HIDE DEF v
<1>2. ASSUME Output!Readable(w), InPlace(v, Len(w) + 1) PROVE Output!Readable(v)
  <2>1. ASSUME NEW i \in 1..Len(w) PROVE InPlace(v, i)
    <3>1. InPlace(w, i)
      BY <1>1, <1>2, ReadableIs
    <3>2. i > 2 => i - 1 \in 1..Len(w)
      BY <1>1
    <3> QED BY <1>1, <3>1, <3>2 DEF InPlace
  <2>2. \A i \in DOMAIN v : InPlace(v, i)
    BY <1>1, <1>2, <2>1
  <2> QED BY <1>1, <2>2, ReadableIs
<1>3. ASSUME NEW frame, ~(piece.kind = "header" /\ piece.frame = frame)
      PROVE  (Never(w, frame) => Never(v, frame)) /\ (Once(w, frame) => Once(v, frame))
  <2>1. \A i \in 1..Len(w) : Begins(v, i, frame) <=> Begins(w, i, frame)
    BY <1>1 DEF Begins
  <2>2. ~Begins(v, Len(w) + 1, frame)
    BY <1>1, <1>3 DEF Begins
  <2>3. DOMAIN w = 1..Len(w) /\ \A i \in DOMAIN v : i \in 1..Len(w) \/ i = Len(w) + 1
    BY <1>1
  <2>4. Never(w, frame) => Never(v, frame)
    BY <2>1, <2>2, <2>3 DEF Never
  <2>5. ASSUME Once(w, frame) PROVE Once(v, frame)
    <3>1. PICK i \in DOMAIN w : Begins(w, i, frame) /\ \A j \in DOMAIN w : Begins(w, j, frame) => j = i
      BY <2>5 DEF Once
    <3>2. i \in DOMAIN v /\ Begins(v, i, frame)
      BY <1>1, <2>1, <2>3, <3>1
    <3>3. \A j \in DOMAIN v : Begins(v, j, frame) => j = i
      BY <2>1, <2>2, <2>3, <3>1
    <3> QED BY <3>2, <3>3 DEF Once
  <2> QED BY <2>4, <2>5
<1>4. ASSUME NEW frame, piece.kind = "header", piece.frame = frame, Never(w, frame) PROVE Once(v, frame)
  <2>1. \A i \in 1..Len(w) : ~Begins(v, i, frame)
    BY <1>1, <1>4 DEF Begins, Never
  <2>2. Begins(v, Len(w) + 1, frame) /\ Len(w) + 1 \in DOMAIN v
    BY <1>1, <1>4 DEF Begins
  <2> QED BY <1>1, <2>1, <2>2 DEF Once
<1> QED BY <1>1, <1>2, <1>3, <1>4 DEF v

LEMMA Parity ==
  \A n \in Nat : n >= 2 =>
    /\ n % 2 = 0 => (n + 1) % 2 = 1 /\ (n + 1 - 2) % 2 = 1
    /\ n % 2 = 1 => (n + 1) % 2 = 0 /\ (n + 1 - 2) % 2 # 1
    /\ n + 1 >= 2 /\ n + 1 > 2 /\ ~(n + 1 <= 2) /\ n + 1 - 1 = n
BY SMT

LEMMA OutputInit == Output!Init => OutputInv
<1> SUFFICES ASSUME Output!Init PROVE OutputInv
  OBVIOUS
<1>1. /\ connected = [c \in Clients |-> TRUE] /\ resource \in [Clients -> Resources]
      /\ webSocketOpen = [c \in Clients |-> FALSE] /\ answered = [c \in Clients |-> 0]
      /\ wire = [c \in Clients |-> <<>>] /\ calls = [t \in Threads |-> 0] /\ size = [t \in Threads |-> 0]
      /\ todo = [t \in Threads |-> {}] /\ at = [t \in Threads |-> None] /\ sentTo = [t \in Threads |-> {}]
      /\ mixed = [c \in Clients |-> FALSE]
  BY DEF Output!Init
<1>2. MaxFrames \in Nat /\ None \notin Clients
  BY OutputConstants DEF Output!OutputAssumption
<1>3. Output!TypeOK
  <2>1. 0 \in 0..Len(Output!Handshake) /\ 0 \in 0..MaxFrames /\ <<>> \in Seq(Output!Piece)
    <3>1. Len(Output!Handshake) = 2
      BY HandshakeIs
    <3> HIDE DEF Output!Piece
    <3>2. <<>> \in Seq(Output!Piece)
      OBVIOUS
    <3> QED BY <1>2, <3>1, <3>2
  <2>2. wire \in [Clients -> Seq(Output!Piece)] /\ answered \in [Clients -> 0..Len(Output!Handshake)]
    BY <1>1, <2>1
  <2>3. /\ connected \in [Clients -> BOOLEAN] /\ webSocketOpen \in [Clients -> BOOLEAN] /\ mixed \in [Clients -> BOOLEAN]
        /\ resource \in [Clients -> Resources]
    BY <1>1
  <2>4. /\ calls \in [Threads -> 0..MaxFrames] /\ size \in [Threads -> FrameSizes \cup {0}]
        /\ todo \in [Threads -> SUBSET Clients] /\ sentTo \in [Threads -> SUBSET Clients]
        /\ at \in [Threads -> Clients \cup {None}]
    BY <1>1, <2>1
  <2> QED BY <2>2, <2>3, <2>4 DEF Output!TypeOK
<1>4. InCall /\ Output!OnlyWebSockets /\ Counts
  BY <1>1 DEF InCall, Output!OnlyWebSockets, Counts, Never
<1>5. \A c \in Clients : Whole(c)
  BY <1>1, <1>2 DEF Whole, Output!Readable
<1> QED BY <1>3, <1>4, <1>5 DEF OutputInv

\* What the wire is after a piece was sent.
LEMMA SendIs ==
  ASSUME OutputInv, NEW c \in Clients, NEW piece \in Output!Piece, Output!Send(c, piece)
  PROVE  /\ wire' \in [Clients -> Seq(Output!Piece)] /\ \A d \in Clients : d # c => wire'[d] = wire[d]
         /\ wire[c] \in Seq(Output!Piece)
         /\ connected[c] => wire'[c] = Append(wire[c], piece)
         /\ ~connected[c] => wire'[c] = wire[c]
<1>1. wire \in [Clients -> Seq(Output!Piece)]
  BY DEF OutputInv, Output!TypeOK
<1>2. wire' = [wire EXCEPT ![c] = IF connected[c] THEN Append(wire[c], piece) ELSE wire[c]]
  BY DEF Output!Send
<1>3. wire[c] \in Seq(Output!Piece) /\ Append(wire[c], piece) \in Seq(Output!Piece)
  BY <1>1
<1> HIDE DEF Output!Piece
<1> QED BY <1>1, <1>2, <1>3

\* The pieces of a call.
LEMMA PiecesOfCall ==
  ASSUME OutputInv, NEW t \in Threads, todo[t] # {}
  PROVE  /\ HeaderOf(t) \in Output!Piece /\ PayloadOf(t) \in Output!Piece
         /\ HeaderOf(t).kind = "header" /\ HeaderOf(t).frame = Frame(t) /\ HeaderOf(t).bytes = Output!Header(size[t])
         /\ PayloadOf(t).kind = "payload" /\ PayloadOf(t).frame = Frame(t) /\ PayloadOf(t).size = size[t]
         /\ Len(Output!Header(size[t])) = Output!LengthOf(Output!Header(size[t]))
         /\ Output!Decode(Output!Header(size[t])) = size[t]
<1>1. calls[t] > 0 /\ size[t] \in FrameSizes /\ calls[t] \in 0..MaxFrames /\ MaxFrames \in Nat
  BY OutputConstants DEF OutputInv, InCall, Output!TypeOK, Output!OutputAssumption
<1>2. size[t] \in Nat /\ size[t] <= Output!MaxInt
  <2>1. Output!MaxInt \in Nat
    BY SMT DEF Output!MaxInt
  <2>2. size[t] \in 0..Output!MaxInt
    BY <1>1, OutputConstants DEF Output!OutputAssumption
  <2> QED BY <2>1, <2>2
<1>3. Output!Header(size[t]) \in Seq(0..255)
  BY <1>2, HeaderIs
<1>4. Frame(t) \in Threads \X (1..MaxFrames)
  BY <1>1 DEF Frame
<1>5. HeaderOf(t) \in Output!Piece /\ PayloadOf(t) \in Output!Piece
  BY <1>1, <1>3, <1>4 DEF HeaderOf, PayloadOf, Output!Piece
<1> QED BY <1>2, <1>5, HeaderIs DEF HeaderOf, PayloadOf

\* Wires and calls that stay.
CountsAre(t, c) ==
  /\ \A n \in Nat : n > calls[t] => Never(wire[c], <<t, n>>)
  /\ c \notin sentTo[t] \/ (c \in todo[t] /\ at[t] # c) => Never(wire[c], Frame(t))
  /\ connected[c] /\ c \in sentTo[t] /\ (c \notin todo[t] \/ at[t] = c) => Once(wire[c], Frame(t))

LEMMA CountsSplit == Counts <=> \A t \in Threads, c \in Clients : CountsAre(t, c)
BY DEF Counts, CountsAre

LEMMA CountsStay ==
  ASSUME OutputInv, NEW t \in Threads, NEW c \in Clients,
         wire'[c] = wire[c], calls'[t] = calls[t], sentTo'[t] = sentTo[t],
         c \in todo'[t] <=> c \in todo[t], at'[t] = c <=> at[t] = c, connected'[c] => connected[c]
  PROVE  CountsAre(t, c)'
<1>1. CountsAre(t, c)
  BY CountsSplit DEF OutputInv
<1>2. Frame(t)' = Frame(t)
  BY DEF Frame
<1>3. \A n \in Nat : n > calls'[t] => Never(wire'[c], <<t, n>>)
  BY <1>1 DEF CountsAre
<1>4. c \notin sentTo'[t] \/ (c \in todo'[t] /\ at'[t] # c) => Never(wire'[c], Frame(t)')
  BY <1>1, <1>2 DEF CountsAre
<1>5. connected'[c] /\ c \in sentTo'[t] /\ (c \notin todo'[t] \/ at'[t] = c) => Once(wire'[c], Frame(t)')
  BY <1>1, <1>2 DEF CountsAre
<1> QED BY <1>3, <1>4, <1>5 DEF CountsAre, Never, Once

\* A client whose wire and whose callers stay can read on.
LEMMA WholeStays ==
  ASSUME OutputInv, NEW c \in Clients, ~mixed[c], wire'[c] = wire[c], answered'[c] = answered[c],
         connected'[c] => connected[c],
         \A t \in Threads : (at'[t] = c <=> at[t] = c) /\ (at[t] = c => calls'[t] = calls[t] /\ size'[t] = size[t])
  PROVE  Whole(c)'
<1>1. Whole(c)
  BY DEF OutputInv
<1>2. \A t \in Threads : at[t] = c => HeaderOf(t)' = HeaderOf(t)
  BY DEF HeaderOf, Frame
<1>3. Output!Readable(wire[c])'
  BY <1>1 DEF Whole, Output!Readable
<1> SUFFICES ASSUME connected'[c]
             PROVE  /\ \A t \in Threads : at'[t] = c => answered'[c] = 2
                    /\ \A t, u \in Threads : at'[t] = c /\ at'[u] = c => t = u
                    /\ answered'[c] < 2 => Len(wire'[c]) = answered'[c]
                    /\ answered'[c] = 2 =>
                         /\ Len(wire'[c]) >= 2
                         /\ (\A t \in Threads : at'[t] # c) => Len(wire'[c]) % 2 = 0
                         /\ \A t \in Threads : at'[t] = c =>
                              Len(wire'[c]) % 2 = 1 /\ wire'[c][Len(wire'[c])] = HeaderOf(t)'
  BY <1>3 DEF Whole
<1>4. connected[c]
  OBVIOUS
<1> QED BY <1>1, <1>2, <1>4 DEF Whole

LEMMA CheckKeeps == ASSUME OutputInv, NEW c \in Clients, Output!CheckProtocolChange(c) PROVE OutputInv'
<1>1. /\ webSocketOpen' = [webSocketOpen EXCEPT ![c] = TRUE]
      /\ UNCHANGED <<connected, resource, answered, wire, calls, size, todo, at, sentTo, mixed>>
  BY DEF Output!CheckProtocolChange
<1>2. /\ webSocketOpen' \in [Clients -> BOOLEAN] /\ \A d \in Clients : webSocketOpen[d] => webSocketOpen'[d]
  BY <1>1 DEF OutputInv, Output!TypeOK
<1>3. Output!TypeOK'
  BY <1>1, <1>2 DEF OutputInv, Output!TypeOK
<1>4. InCall' /\ Output!OnlyWebSockets'
  BY <1>1, <1>2 DEF OutputInv, Output!TypeOK, InCall, Output!OnlyWebSockets
<1>5. Counts'
  <2>1. \A t \in Threads, d \in Clients : CountsAre(t, d)'
    BY <1>1, CountsStay
  <2> QED BY <2>1, CountsSplit DEF Counts, CountsAre
<1>6. ASSUME NEW d \in Clients, ~mixed'[d] PROVE Whole(d)'
  BY <1>1, <1>6, WholeStays
<1> QED BY <1>3, <1>4, <1>5, <1>6 DEF OutputInv

LEMMA DisconnectKeeps == ASSUME OutputInv, NEW c \in Clients, Output!Disconnect(c) PROVE OutputInv'
<1>1. /\ connected' = [connected EXCEPT ![c] = FALSE]
      /\ UNCHANGED <<resource, webSocketOpen, answered, wire, calls, size, todo, at, sentTo, mixed>>
  BY DEF Output!Disconnect
<1>2. /\ connected' \in [Clients -> BOOLEAN] /\ \A d \in Clients : connected'[d] => connected[d]
  BY <1>1 DEF OutputInv, Output!TypeOK
<1>3. Output!TypeOK'
  BY <1>1, <1>2 DEF OutputInv, Output!TypeOK
<1>4. InCall' /\ Output!OnlyWebSockets'
  BY <1>1 DEF OutputInv, InCall, Output!OnlyWebSockets
<1>5. Counts'
  <2>1. \A t \in Threads, d \in Clients : CountsAre(t, d)'
    BY <1>1, <1>2, CountsStay
  <2> QED BY <2>1, CountsSplit DEF Counts, CountsAre
<1>6. ASSUME NEW d \in Clients, ~mixed'[d] PROVE Whole(d)'
  BY <1>1, <1>2, <1>6, WholeStays
<1> QED BY <1>3, <1>4, <1>5, <1>6 DEF OutputInv

\* The handshake.
LEMMA ResponseKeeps == ASSUME OutputInv, NEW c \in Clients, Output!SendResponse(c) PROVE OutputInv'
<1> DEFINE piece == [kind |-> Output!Handshake[answered[c] + 1]]
<1>1. /\ webSocketOpen[c] /\ answered[c] < 2 /\ Output!Send(c, piece)
      /\ answered' = [answered EXCEPT ![c] = answered[c] + 1]
      /\ UNCHANGED <<connected, resource, webSocketOpen, calls, size, todo, at, sentTo, mixed>>
  BY HandshakeIs DEF Output!SendResponse
<1>2. answered[c] \in {0, 1} /\ answered' \in [Clients -> 0..2] /\ answered'[c] = answered[c] + 1
      /\ \A d \in Clients : d # c => answered'[d] = answered[d]
  <2>1. answered \in [Clients -> 0..2]
    BY HandshakeIs DEF OutputInv, Output!TypeOK
  <2>2. answered[c] \in {0, 1}
    BY <1>1, <2>1
  <2> QED BY <1>1, <2>1, <2>2
<1>3. piece \in Output!Piece /\ piece.kind = Output!Handshake[answered[c] + 1] /\ piece.kind # "header"
  <2>1. PICK k \in {1, 2} : k = answered[c] + 1
    BY <1>2
  <2>2. Output!Handshake[k] # "header" /\ k \in DOMAIN Output!Handshake
    <3>1. CASE k = 1
      BY <3>1 DEF Output!Handshake
    <3>2. CASE k = 2
      BY <3>2 DEF Output!Handshake
    <3> QED BY <3>1, <3>2
  <2>3. piece = [kind |-> Output!Handshake[k]]
    BY <2>1
  <2>4. piece \in [kind : {Output!Handshake[i] : i \in DOMAIN Output!Handshake}]
    BY <2>2, <2>3
  <2> QED BY <2>1, <2>2, <2>3, <2>4 DEF Output!Piece
<1> HIDE DEF piece
<1>4. /\ wire' \in [Clients -> Seq(Output!Piece)] /\ \A d \in Clients : d # c => wire'[d] = wire[d]
      /\ wire[c] \in Seq(Output!Piece)
      /\ connected[c] => wire'[c] = Append(wire[c], piece)
      /\ ~connected[c] => wire'[c] = wire[c]
  BY <1>1, <1>3, SendIs
<1>5. Output!TypeOK'
  BY <1>1, <1>2, <1>4, HandshakeIs DEF OutputInv, Output!TypeOK
<1>6. InCall' /\ Output!OnlyWebSockets'
  <2>1. InCall'
    BY <1>1, <1>2 DEF OutputInv, InCall
  <2>2. Output!OnlyWebSockets'
    BY <1>1, <1>4 DEF OutputInv, Output!OnlyWebSockets
  <2> QED BY <2>1, <2>2
<1>7. ASSUME NEW t \in Threads, NEW d \in Clients PROVE CountsAre(t, d)'
  <2>1. CASE d # c \/ ~connected[c]
    BY <1>1, <1>4, <2>1, CountsStay
  <2>2. CASE d = c /\ connected[c]
    <3>1. \A frame : /\ Never(wire[c], frame) => Never(wire'[c], frame)
                     /\ Once(wire[c], frame) => Once(wire'[c], frame)
      BY <1>3, <1>4, <2>2, OneMorePiece
    <3>2. CountsAre(t, c)
      BY CountsSplit DEF OutputInv
    <3>3. Frame(t)' = Frame(t)
      BY <1>1 DEF Frame
    <3>4. /\ \A n \in Nat : n > calls[t] => Never(wire'[c], <<t, n>>)
          /\ c \notin sentTo[t] \/ (c \in todo[t] /\ at[t] # c) => Never(wire'[c], Frame(t)')
          /\ connected[c] /\ c \in sentTo[t] /\ (c \notin todo[t] \/ at[t] = c) => Once(wire'[c], Frame(t)')
      BY <3>1, <3>2, <3>3 DEF CountsAre
    <3> QED BY <1>1, <2>2, <3>4 DEF CountsAre, Never, Once
  <2> QED BY <2>1, <2>2
<1>8. ASSUME NEW d \in Clients, ~mixed'[d] PROVE Whole(d)'
  <2>1. CASE d # c
    BY <1>1, <1>2, <1>4, <1>8, <2>1, WholeStays
  <2>2. CASE d = c /\ ~connected[c]
    <3>1. Output!Readable(wire'[c])
      BY <1>1, <1>4, <1>8, <2>2 DEF OutputInv, Whole
    <3> QED BY <1>1, <2>2, <3>1 DEF Whole, Output!Readable
  <2>3. CASE d = c /\ connected[c]
    <3>1. Whole(c) /\ Output!Readable(wire[c]) /\ Len(wire[c]) = answered[c] /\ \A t \in Threads : at[t] # c
      <4>1. Whole(c) /\ answered[c] # 2
        BY <1>1, <1>2, <1>8, <2>3 DEF OutputInv
      <4> QED BY <1>1, <2>3, <4>1 DEF Whole
    <3>2. Len(wire'[c]) = answered[c] + 1 /\ wire'[c][answered[c] + 1] = piece
      BY <1>3, <1>4, <2>3, <3>1, OneMorePiece
    <3>3. InPlace(wire'[c], Len(wire[c]) + 1)
      BY <1>2, <1>3, <3>1, <3>2 DEF InPlace
    <3>4. Output!Readable(wire'[c])
      BY <1>3, <1>4, <2>3, <3>1, <3>3, OneMorePiece
    <3>5. Len(wire'[c]) = answered'[c] /\ (answered'[c] = 2 => Len(wire'[c]) % 2 = 0)
      BY <1>2, <3>2
    <3>6. \A t \in Threads : at'[t] # c
      BY <1>1, <3>1
    <3> QED BY <1>2, <2>3, <3>4, <3>5, <3>6 DEF Whole, Output!Readable
  <2> QED BY <2>1, <2>2, <2>3
<1>9. Counts'
  BY <1>7 DEF Counts, CountsAre
<1> QED BY <1>5, <1>6, <1>8, <1>9 DEF OutputInv

\* Another call: its frames are new.
LEMMA BeginKeeps ==
  ASSUME OutputInv, NEW t \in Threads, NEW cs \in SUBSET Clients, \A c \in cs : webSocketOpen[c], Output!Begin(t, cs)
  PROVE  OutputInv'
<1>1. /\ todo[t] = {} /\ calls[t] < MaxFrames /\ calls' = [calls EXCEPT ![t] = calls[t] + 1]
      /\ todo' = [todo EXCEPT ![t] = cs] /\ sentTo' = [sentTo EXCEPT ![t] = cs]
      /\ UNCHANGED <<connected, resource, webSocketOpen, answered, wire, at, mixed>>
  BY DEF Output!Begin, Output!Idle
<1>2. PICK n \in FrameSizes : size' = [size EXCEPT ![t] = n]
  BY DEF Output!Begin
<1>3. /\ calls \in [Threads -> 0..MaxFrames] /\ MaxFrames \in Nat /\ size \in [Threads -> FrameSizes \cup {0}]
      /\ todo \in [Threads -> SUBSET Clients] /\ sentTo \in [Threads -> SUBSET Clients] /\ None \notin Clients
      /\ at \in [Threads -> Clients \cup {None}]
  BY OutputConstants DEF OutputInv, Output!TypeOK, Output!OutputAssumption
<1>4. /\ calls' \in [Threads -> 0..MaxFrames] /\ calls'[t] = calls[t] + 1 /\ calls[t] \in Nat
      /\ size' \in [Threads -> FrameSizes \cup {0}] /\ size'[t] \in FrameSizes
      /\ todo' \in [Threads -> SUBSET Clients] /\ sentTo' \in [Threads -> SUBSET Clients]
      /\ todo'[t] = cs /\ sentTo'[t] = cs
      /\ \A u \in Threads : u # t => calls'[u] = calls[u] /\ size'[u] = size[u] /\ todo'[u] = todo[u] /\ sentTo'[u] = sentTo[u]
  BY <1>1, <1>2, <1>3
<1>5. at[t] = None
  BY <1>1, <1>3 DEF OutputInv, InCall
<1>6. Output!TypeOK'
  BY <1>1, <1>4 DEF OutputInv, Output!TypeOK
<1>7. InCall' /\ Output!OnlyWebSockets'
  <2>1. ASSUME NEW u \in Threads
        PROVE  /\ at'[u] # None => at'[u] \in todo'[u]
               /\ todo'[u] \subseteq sentTo'[u]
               /\ sentTo'[u] # {} => calls'[u] > 0 /\ size'[u] \in FrameSizes
               /\ \A c \in sentTo'[u] : webSocketOpen'[c]
    <3>1. CASE u = t
      BY <1>1, <1>4, <1>5, <3>1
    <3>2. CASE u # t
      BY <1>1, <1>4, <3>2 DEF OutputInv, InCall
    <3> QED BY <3>1, <3>2
  <2>2. InCall'
    BY <1>1, <2>1 DEF OutputInv, InCall
  <2> QED BY <1>1, <2>2 DEF OutputInv, Output!OnlyWebSockets
<1>8. ASSUME NEW u \in Threads, NEW c \in Clients PROVE CountsAre(u, c)'
  <2>1. CASE u # t
    BY <1>1, <1>4, <2>1, CountsStay
  <2>2. CASE u = t
    <3>1. \A m \in Nat : m > calls[t] => Never(wire[c], <<t, m>>)
      BY CountsSplit DEF OutputInv, CountsAre
    <3>2. \A m \in Nat : m > calls'[t] => m > calls[t]
      BY <1>4
    <3>3. Frame(t)' = <<t, calls[t] + 1>> /\ calls[t] + 1 \in Nat /\ calls[t] + 1 > calls[t]
      BY <1>4 DEF Frame
    <3>4. Never(wire[c], Frame(t)')
      BY <3>1, <3>3
    <3>5. c \in sentTo'[t] => c \in todo'[t] /\ at'[t] # c
      BY <1>1, <1>3, <1>4, <1>5
    <3> QED BY <1>1, <2>2, <3>1, <3>2, <3>4, <3>5 DEF CountsAre, Never, Once
  <2> QED BY <2>1, <2>2
<1>9. ASSUME NEW c \in Clients, ~mixed'[c] PROVE Whole(c)'
  BY <1>1, <1>3, <1>4, <1>5, <1>9, WholeStays
<1>10. Counts'
  BY <1>8 DEF Counts, CountsAre
<1> QED BY <1>6, <1>7, <1>9, <1>10 DEF OutputInv

LEMMA HeaderKeeps == ASSUME OutputInv, NEW t \in Threads, Output!SendHeader(t) PROVE OutputInv'
<1>1. PICK c \in todo[t] :
        /\ Output!Send(c, HeaderOf(t)) /\ at' = [at EXCEPT ![t] = c]
        /\ mixed' = [mixed EXCEPT ![c] = mixed[c] \/ Output!Busy(c)]
  BY DEF Output!SendHeader, HeaderOf, Frame
<1>2. at[t] = None /\ UNCHANGED <<connected, resource, webSocketOpen, answered, calls, size, todo, sentTo>>
  BY DEF Output!SendHeader
<1>3. /\ c \in Clients /\ None \notin Clients /\ at \in [Threads -> Clients \cup {None}]
      /\ mixed \in [Clients -> BOOLEAN] /\ todo[t] # {} /\ c \in sentTo[t] /\ webSocketOpen[c]
      /\ answered \in [Clients -> 0..2]
  BY HandshakeIs, OutputConstants DEF OutputInv, Output!TypeOK, Output!OutputAssumption, InCall
<1>4. /\ HeaderOf(t) \in Output!Piece /\ HeaderOf(t).kind = "header" /\ HeaderOf(t).frame = Frame(t)
      /\ HeaderOf(t).bytes = Output!Header(size[t])
      /\ Len(Output!Header(size[t])) = Output!LengthOf(Output!Header(size[t]))
  BY <1>3, PiecesOfCall
<1>5. /\ wire' \in [Clients -> Seq(Output!Piece)] /\ \A d \in Clients : d # c => wire'[d] = wire[d]
      /\ wire[c] \in Seq(Output!Piece)
      /\ connected[c] => wire'[c] = Append(wire[c], HeaderOf(t))
      /\ ~connected[c] => wire'[c] = wire[c]
  BY <1>1, <1>3, <1>4, SendIs
<1>6. /\ at' \in [Threads -> Clients \cup {None}] /\ at'[t] = c /\ \A u \in Threads : u # t => at'[u] = at[u]
      /\ mixed' \in [Clients -> BOOLEAN] /\ (~mixed'[c] => ~mixed[c] /\ ~Output!Busy(c))
      /\ \A d \in Clients : d # c => mixed'[d] = mixed[d]
  <2>1. Output!Busy(c) \in BOOLEAN
    BY DEF Output!Busy
  <2> QED BY <1>1, <1>3, <2>1
<1>7. Output!TypeOK'
  BY <1>2, <1>5, <1>6 DEF OutputInv, Output!TypeOK
<1>8. InCall' /\ Output!OnlyWebSockets'
  <2>1. InCall'
    BY <1>1, <1>2, <1>6 DEF OutputInv, InCall
  <2>2. Output!OnlyWebSockets'
    BY <1>2, <1>3, <1>5 DEF OutputInv, Output!OnlyWebSockets
  <2> QED BY <2>1, <2>2
<1>9. ASSUME NEW u \in Threads, NEW d \in Clients PROVE CountsAre(u, d)'
  <2>1. CASE d # c \/ (~connected[c] /\ u # t)
    <3>1. /\ wire'[d] = wire[d] /\ calls'[u] = calls[u] /\ sentTo'[u] = sentTo[u] /\ todo'[u] = todo[u]
          /\ connected'[d] => connected[d]
      BY <1>2, <1>5, <2>1
    <3>2. at'[u] = d <=> at[u] = d
      BY <1>2, <1>3, <1>6, <2>1
    <3> QED BY <3>1, <3>2, CountsStay
  <2>2. CASE d = c /\ ~connected[c] /\ u = t
    <3>1. \A n \in Nat : n > calls[t] => Never(wire[c], <<t, n>>)
      BY <1>3, CountsSplit DEF OutputInv, CountsAre
    <3> QED BY <1>2, <1>3, <1>5, <1>6, <2>2, <3>1 DEF CountsAre, Never
  <2>3. CASE d = c /\ connected[c]
    <3>1. ASSUME NEW frame, frame # Frame(t)
          PROVE  (Never(wire[c], frame) => Never(wire'[c], frame)) /\ (Once(wire[c], frame) => Once(wire'[c], frame))
      <4>1. ~(HeaderOf(t).kind = "header" /\ HeaderOf(t).frame = frame) /\ wire'[c] = Append(wire[c], HeaderOf(t))
        BY <1>4, <1>5, <2>3, <3>1
      <4> QED BY <1>4, <1>5, <4>1, OneMorePiece
    <3>2. Never(wire[c], Frame(t)) => Once(wire'[c], Frame(t))
      <4>1. HeaderOf(t).kind = "header" /\ HeaderOf(t).frame = Frame(t) /\ wire'[c] = Append(wire[c], HeaderOf(t))
        BY <1>4, <1>5, <2>3
      <4>2. PICK piece \in Output!Piece : piece = HeaderOf(t)
        BY <1>4
      <4>3. piece.kind = "header" /\ piece.frame = Frame(t)
        BY <4>1, <4>2
      <4>4. Never(wire[c], Frame(t)) => Once(Append(wire[c], piece), Frame(t))
        BY <1>5, <4>3, OneMorePiece
      <4> QED BY <4>1, <4>2, <4>4
    <3>3. CountsAre(u, c)
      BY <1>3, CountsSplit DEF OutputInv
    <3>4. Frame(u)' = Frame(u)
      BY <1>2 DEF Frame
    <3>5. \A n \in Nat : n > calls[u] => Never(wire'[c], <<u, n>>)
      <4>1. calls[t] \in Nat /\ \A n \in Nat : n > calls[u] => <<u, n>> # Frame(t)
        BY OutputConstants DEF Frame, OutputInv, Output!TypeOK, Output!OutputAssumption
      <4> QED BY <3>1, <3>3, <4>1 DEF CountsAre
    <3>6. CASE u = t
      <4>1. Once(wire'[c], Frame(u)')
        BY <1>2, <1>3, <3>2, <3>3, <3>4, <3>6 DEF CountsAre
      <4> QED BY <1>2, <1>3, <1>6, <2>3, <3>5, <3>6, <4>1 DEF CountsAre, Never, Once
    <3>7. CASE u # t
      <4>1. Frame(u) # Frame(t)
        BY <3>7 DEF Frame
      <4>2. /\ c \notin sentTo[u] \/ (c \in todo[u] /\ at[u] # c) => Never(wire'[c], Frame(u)')
            /\ connected[c] /\ c \in sentTo[u] /\ (c \notin todo[u] \/ at[u] = c) => Once(wire'[c], Frame(u)')
        BY <3>1, <3>3, <3>4, <4>1 DEF CountsAre
      <4> QED BY <1>2, <1>6, <2>3, <3>5, <3>7, <4>2 DEF CountsAre, Never, Once
    <3> QED BY <3>6, <3>7
  <2> QED BY <2>1, <2>2, <2>3
<1>10. ASSUME NEW d \in Clients, ~mixed'[d] PROVE Whole(d)'
  <2>1. CASE d # c
    BY <1>2, <1>3, <1>5, <1>6, <1>10, <2>1, WholeStays
  <2>2. CASE d = c /\ ~connected[c]
    <3>1. Output!Readable(wire'[c])
      BY <1>5, <1>6, <1>10, <2>2 DEF OutputInv, Whole
    <3> QED BY <1>2, <2>2, <3>1 DEF Whole, Output!Readable
  <2>3. CASE d = c /\ connected[c]
    <3>1. Whole(c) /\ answered[c] = 2 /\ \A u \in Threads : at[u] # c
      <4>1. ~mixed[c] /\ ~Output!Busy(c)
        BY <1>6, <1>10, <2>3
      <4>2. Whole(c)
        BY <1>3, <4>1 DEF OutputInv
      <4>3. answered[c] \in 0..2 /\ ~(answered[c] < 2)
        BY <1>3, <4>1, HandshakeIs DEF Output!Busy
      <4> QED BY <4>1, <4>2, <4>3 DEF Output!Busy
    <3>2. Output!Readable(wire[c]) /\ Len(wire[c]) >= 2 /\ Len(wire[c]) % 2 = 0 /\ Len(wire[c]) \in Nat
      <4>1. Len(wire[c]) \in Nat
        BY <1>5
      <4> QED BY <2>3, <3>1, <4>1 DEF Whole
    <3>3. Len(wire'[c]) = Len(wire[c]) + 1 /\ wire'[c][Len(wire'[c])] = HeaderOf(t)
      BY <1>4, <1>5, <2>3, OneMorePiece
    <3>4. InPlace(wire'[c], Len(wire[c]) + 1)
      <4>1. PICK n \in Nat : n = Len(wire[c])
        BY <3>2
      <4>2. n >= 2 /\ n % 2 = 0
        BY <3>2, <4>1
      <4>3. n + 1 > 2 /\ ~(n + 1 <= 2) /\ (n + 1 - 2) % 2 = 1
        BY <4>2, Parity
      <4>4. wire'[c][n + 1] = HeaderOf(t)
        BY <3>3, <4>1
      <4>5. InPlace(wire'[c], n + 1)
        BY <1>4, <4>3, <4>4 DEF InPlace
      <4> QED BY <4>1, <4>5
    <3>5. Output!Readable(wire'[c])
      BY <1>4, <1>5, <2>3, <3>2, <3>4, OneMorePiece
    <3>6. HeaderOf(t)' = HeaderOf(t) /\ \A u \in Threads : at'[u] = c => u = t
      BY <1>2, <1>6, <3>1 DEF HeaderOf, Frame
    <3>7. Len(wire'[c]) >= 2 /\ Len(wire'[c]) % 2 = 1
      <4>1. PICK n \in Nat : n = Len(wire[c])
        BY <3>2
      <4>2. n >= 2 /\ n % 2 = 0 /\ Len(wire'[c]) = n + 1
        BY <3>2, <3>3, <4>1
      <4>3. n + 1 >= 2 /\ (n + 1) % 2 = 1
        BY <4>2, Parity
      <4> QED BY <4>2, <4>3
    <3>8. ~(answered'[c] < 2) /\ \A u \in Threads : at'[u] = c => answered'[c] = 2
      BY <1>2, <3>1
    <3> QED BY <1>6, <2>3, <3>3, <3>5, <3>6, <3>7, <3>8 DEF Whole, Output!Readable
  <2> QED BY <2>1, <2>2, <2>3
<1>11. Counts'
  BY <1>9 DEF Counts, CountsAre
<1> QED BY <1>7, <1>8, <1>10, <1>11 DEF OutputInv

LEMMA PayloadKeeps == ASSUME OutputInv, NEW t \in Threads, Output!SendPayload(t) PROVE OutputInv'
<1> DEFINE c == at[t]
<1>1. /\ c # None /\ Output!Send(c, PayloadOf(t)) /\ at' = [at EXCEPT ![t] = None]
      /\ todo' = [todo EXCEPT ![t] = todo[t] \ {c}]
      /\ UNCHANGED <<connected, resource, webSocketOpen, answered, calls, size, sentTo, mixed>>
  BY DEF Output!SendPayload, PayloadOf, Frame
<1>2. /\ c \in Clients /\ c \in todo[t] /\ None \notin Clients /\ at \in [Threads -> Clients \cup {None}]
      /\ todo \in [Threads -> SUBSET Clients] /\ c \in sentTo[t] /\ webSocketOpen[c]
      /\ answered \in [Clients -> 0..2]
  BY <1>1, HandshakeIs, OutputConstants DEF OutputInv, Output!TypeOK, Output!OutputAssumption, InCall
<1>3. /\ PayloadOf(t) \in Output!Piece /\ PayloadOf(t).kind = "payload" /\ PayloadOf(t).frame = Frame(t)
      /\ PayloadOf(t).size = size[t] /\ HeaderOf(t).frame = Frame(t) /\ HeaderOf(t).bytes = Output!Header(size[t])
      /\ Output!Decode(Output!Header(size[t])) = size[t]
  BY <1>2, PiecesOfCall
<1>4. PICK d : d = c
  OBVIOUS
<1> HIDE DEF c
<1>5. /\ wire' \in [Clients -> Seq(Output!Piece)] /\ \A e \in Clients : e # d => wire'[e] = wire[e]
      /\ wire[d] \in Seq(Output!Piece)
      /\ connected[d] => wire'[d] = Append(wire[d], PayloadOf(t))
      /\ ~connected[d] => wire'[d] = wire[d]
  BY <1>1, <1>2, <1>3, <1>4, SendIs
<1>6. /\ at' \in [Threads -> Clients \cup {None}] /\ at'[t] = None /\ \A u \in Threads : u # t => at'[u] = at[u]
      /\ todo' \in [Threads -> SUBSET Clients] /\ todo'[t] = todo[t] \ {d}
      /\ \A u \in Threads : u # t => todo'[u] = todo[u]
      /\ at[t] = d /\ d \in Clients /\ d # None
  BY <1>1, <1>2, <1>4 DEF c
<1>7. Output!TypeOK'
  BY <1>1, <1>5, <1>6 DEF OutputInv, Output!TypeOK
<1>8. InCall' /\ Output!OnlyWebSockets'
  <2>1. InCall'
    BY <1>1, <1>6 DEF OutputInv, InCall
  <2>2. Output!OnlyWebSockets'
    BY <1>1, <1>2, <1>4, <1>5 DEF OutputInv, Output!OnlyWebSockets
  <2> QED BY <2>1, <2>2
<1>9. ASSUME NEW u \in Threads, NEW e \in Clients PROVE CountsAre(u, e)'
  <2>1. CASE e # d \/ (~connected[d] /\ u # t)
    <3>1. /\ wire'[e] = wire[e] /\ calls'[u] = calls[u] /\ sentTo'[u] = sentTo[u] /\ (connected'[e] => connected[e])
          /\ e \in todo'[u] <=> e \in todo[u]
      BY <1>1, <1>5, <1>6, <2>1
    <3>2. at'[u] = e <=> at[u] = e
      BY <1>2, <1>6, <2>1
    <3> QED BY <3>1, <3>2, CountsStay
  <2>2. CASE e = d /\ ~(~connected[d] /\ u # t)
    <3>1. \A frame : /\ Never(wire[d], frame) => Never(wire'[d], frame)
                     /\ Once(wire[d], frame) => Once(wire'[d], frame)
      <4>1. CASE connected[d]
        BY <1>3, <1>5, <4>1, OneMorePiece
      <4>2. CASE ~connected[d]
        BY <1>5, <4>2
      <4> QED BY <4>1, <4>2
    <3>2. CountsAre(u, d)
      BY <1>6, CountsSplit DEF OutputInv
    <3>3. Frame(u)' = Frame(u)
      BY <1>1 DEF Frame
    <3>4. /\ \A n \in Nat : n > calls[u] => Never(wire'[d], <<u, n>>)
          /\ d \notin sentTo[u] \/ (d \in todo[u] /\ at[u] # d) => Never(wire'[d], Frame(u)')
          /\ connected[d] /\ d \in sentTo[u] /\ (d \notin todo[u] \/ at[u] = d) => Once(wire'[d], Frame(u)')
      BY <3>1, <3>2, <3>3 DEF CountsAre
    <3>5. CASE u = t
      <4>1. d \in sentTo'[u] /\ d \notin todo'[u] /\ at[u] = d
        BY <1>1, <1>2, <1>4, <1>6, <3>5
      <4> QED BY <1>1, <2>2, <3>4, <4>1 DEF CountsAre, Never, Once
    <3>6. CASE u # t
      BY <1>1, <1>6, <2>2, <3>4, <3>6 DEF CountsAre, Never, Once
    <3> QED BY <3>5, <3>6
  <2> QED BY <2>1, <2>2
<1>10. ASSUME NEW e \in Clients, ~mixed'[e] PROVE Whole(e)'
  <2>1. CASE e # d
    <3>1. /\ ~mixed[e] /\ wire'[e] = wire[e] /\ answered'[e] = answered[e] /\ (connected'[e] => connected[e])
          /\ \A u \in Threads : calls'[u] = calls[u] /\ size'[u] = size[u]
      BY <1>1, <1>5, <1>10, <2>1
    <3>2. \A u \in Threads : at'[u] = e <=> at[u] = e
      BY <1>2, <1>6, <2>1
    <3> QED BY <3>1, <3>2, WholeStays
  <2>2. CASE e = d /\ ~connected[d]
    <3>1. Output!Readable(wire'[d])
      BY <1>1, <1>5, <1>10, <2>2 DEF OutputInv, Whole
    <3> QED BY <1>1, <2>2, <3>1 DEF Whole, Output!Readable
  <2>3. CASE e = d /\ connected[d]
    <3>1. Whole(d)
      BY <1>1, <1>10, <2>3 DEF OutputInv
    <3>2. answered[d] = 2 /\ \A u \in Threads : at[u] = d => u = t
      BY <1>6, <2>3, <3>1 DEF Whole
    <3>3. /\ Output!Readable(wire[d]) /\ Len(wire[d]) >= 2 /\ Len(wire[d]) % 2 = 1 /\ Len(wire[d]) \in Nat
          /\ wire[d][Len(wire[d])] = HeaderOf(t)
      <4>1. Len(wire[d]) \in Nat
        BY <1>5
      <4> QED BY <1>6, <2>3, <3>1, <3>2, <4>1 DEF Whole
    <3>4. /\ Len(wire'[d]) = Len(wire[d]) + 1 /\ wire'[d][Len(wire[d]) + 1] = PayloadOf(t)
          /\ wire'[d][Len(wire[d])] = HeaderOf(t)
      <4>1. Len(wire'[d]) = Len(wire[d]) + 1 /\ wire'[d][Len(wire[d]) + 1] = PayloadOf(t)
        BY <1>3, <1>5, <2>3, OneMorePiece
      <4>2. wire'[d][Len(wire[d])] = wire[d][Len(wire[d])]
        <5>1. Len(wire[d]) \in 1..Len(wire[d])
          BY <3>3
        <5>2. wire'[d] = Append(wire[d], PayloadOf(t))
          BY <1>5, <2>3
        <5> QED BY <1>3, <1>5, <5>1, <5>2
      <4> QED BY <3>3, <4>1, <4>2
    <3>5. InPlace(wire'[d], Len(wire[d]) + 1)
      <4>1. PICK n \in Nat : n = Len(wire[d])
        BY <3>3
      <4>2. n >= 2 /\ n % 2 = 1
        BY <3>3, <4>1
      <4>3. n + 1 > 2 /\ ~(n + 1 <= 2) /\ (n + 1 - 2) % 2 # 1 /\ n + 1 - 1 = n
        BY <4>2, Parity
      <4>4. wire'[d][n + 1] = PayloadOf(t) /\ wire'[d][n + 1 - 1] = HeaderOf(t)
        BY <3>4, <4>1, <4>3
      <4>5. InPlace(wire'[d], n + 1)
        BY <1>3, <4>3, <4>4 DEF InPlace
      <4> QED BY <4>1, <4>5
    <3>6. Output!Readable(wire'[d])
      BY <1>3, <1>5, <2>3, <3>3, <3>5, OneMorePiece
    <3>7. \A u \in Threads : at'[u] # d
      BY <1>6, <3>2
    <3>8. Len(wire'[d]) >= 2 /\ Len(wire'[d]) % 2 = 0
      BY <3>3, <3>4, Parity
    <3>9. ~(answered'[d] < 2)
      BY <1>1, <3>2
    <3> QED BY <2>3, <3>6, <3>7, <3>8, <3>9 DEF Whole, Output!Readable
  <2> QED BY <2>1, <2>2, <2>3
<1>11. Counts'
  BY <1>9 DEF Counts, CountsAre
<1> QED BY <1>7, <1>8, <1>10, <1>11 DEF OutputInv

LEMMA OutputStep == OutputInv /\ [Output!Next]_Output!vars => OutputInv'
<1> SUFFICES ASSUME OutputInv, [Output!Next]_Output!vars PROVE OutputInv'
  OBVIOUS
<1>1. CASE UNCHANGED Output!vars
  <2>1. UNCHANGED <<connected, resource, webSocketOpen, answered, wire, calls, size, todo, at, sentTo, mixed>>
    BY <1>1 DEF Output!vars
  <2>2. Output!TypeOK' /\ InCall' /\ Output!OnlyWebSockets'
    BY <2>1 DEF OutputInv, Output!TypeOK, InCall, Output!OnlyWebSockets
  <2>3. \A t \in Threads, c \in Clients : CountsAre(t, c)'
    BY <2>1, CountsStay
  <2>4. \A c \in Clients : ~mixed'[c] => Whole(c)'
    BY <2>1, WholeStays
  <2>5. Counts'
    BY <2>3 DEF Counts, CountsAre
  <2> QED BY <2>2, <2>4, <2>5 DEF OutputInv
<1>2. ASSUME NEW c \in Clients, Output!Worker(c) \/ Output!Disconnect(c) PROVE OutputInv'
  BY <1>2, CheckKeeps, ResponseKeeps, DisconnectKeeps DEF Output!Worker
<1>3. ASSUME NEW t \in Threads, NEW c \in Clients, Output!sendWebSocketData(t, c) PROVE OutputInv'
  <2>1. answered[c] = 2 /\ Output!Begin(t, {c})
    BY <1>3, HandshakeIs DEF Output!sendWebSocketData
  <2>2. webSocketOpen[c]
    BY <2>1 DEF OutputInv, InCall
  <2> QED BY <2>1, <2>2, BeginKeeps
<1>4. ASSUME NEW t \in Threads, NEW r, Output!broadcastWebSocker(t, r) PROVE OutputInv'
  <2> DEFINE cs == Output!OpenOn(r)
  <2>1. Output!Begin(t, cs) /\ cs \in SUBSET Clients /\ \A c \in cs : webSocketOpen[c]
    BY <1>4 DEF Output!broadcastWebSocker, Output!OpenOn
  <2> HIDE DEF cs
  <2> QED BY <2>1, BeginKeeps
<1>5. ASSUME NEW t \in Threads, Output!SendHeader(t) \/ Output!SendPayload(t) PROVE OutputInv'
  BY <1>5, HeaderKeeps, PayloadKeeps
<1> QED BY <1>1, <1>2, <1>3, <1>4, <1>5 DEF Output!Next, Output!Sender, Output!Over

\* Never and once, as TLC counts.
LEMMA CopiesIs ==
  ASSUME NEW c \in Clients, wire[c] \in Seq(Output!Piece), NEW frame
  PROVE  (Never(wire[c], frame) => Output!Copies(c, frame) = 0) /\ (Once(wire[c], frame) => Output!Copies(c, frame) = 1)
<1> DEFINE S == {i \in DOMAIN wire[c] : wire[c][i].kind = "header" /\ wire[c][i].frame = frame}
<1>1. Output!Copies(c, frame) = Cardinality(S)
  BY DEF Output!Copies, Output!Cardinality, Cardinality
<1>2. Never(wire[c], frame) => S = {}
  BY DEF Never, Begins
<1>3. Once(wire[c], frame) => \E i : S = {i}
  BY DEF Once, Begins
<1> HIDE DEF S
<1>4. ASSUME NEW i, S = {i} PROVE Cardinality(S) = 1
  BY <1>4, FS_Singleton
<1> QED BY <1>1, <1>2, <1>3, <1>4, FS_EmptySet

LEMMA FramesAreSent == OutputInv => FramesSent
<1> SUFFICES ASSUME OutputInv PROVE FramesSent
  OBVIOUS
<1>1. Output!FramesWhole /\ Output!OnlyWebSockets
  BY DEF OutputInv, Output!FramesWhole, Whole
<1>2. Output!ReachesEachOnce
  <2> SUFFICES ASSUME NEW t \in Threads, todo[t] = {}, NEW c \in Clients
               PROVE  IF c \in sentTo[t] THEN connected[c] => Output!Copies(c, Frame(t)) = 1
                                         ELSE Output!Copies(c, Frame(t)) = 0
    BY DEF Output!ReachesEachOnce, Output!Idle, Frame
  <2>1. wire[c] \in Seq(Output!Piece) /\ CountsAre(t, c)
    BY CountsSplit DEF OutputInv, Output!TypeOK
  <2> QED BY <2>1, CopiesIs DEF CountsAre
<1> QED BY <1>1, <1>2 DEF FramesSent

-----------------------------------------------------------------------------
(* Texts. *)

TextInv ==
  /\ part = "bytes" => Bytes!TypeOK
  /\ part = "letters" => Letters!TypeOK

LEMMA TextInit == AllInit => TextInv
BY TextConstants DEF AllInit, TextInv, Bytes!Init, Bytes!TypeOK, Letters!TypeOK

LEMMA Typing ==
  ASSUME NEW S, text \in Seq(S), Len(text) <= MaxLength, NEW c \in S,
         Len(text) < MaxLength, text' = Append(text, c)
  PROVE  text' \in Seq(S) /\ Len(text') <= MaxLength
<1> PICK n \in Nat : n = Len(text)
  OBVIOUS
<1>1. Len(text') = n + 1 /\ text' \in Seq(S)
  OBVIOUS
<1> QED BY <1>1, TextConstants

LEMMA TextStep == TextInv /\ [AllNext]_allVars => TextInv'
<1> SUFFICES ASSUME TextInv, [AllNext]_allVars PROVE TextInv'
  OBVIOUS
<1>0. part' = part
  BY DEF AllNext, allVars
<1>1. CASE text' = text
  BY <1>0, <1>1 DEF TextInv, Bytes!TypeOK, Letters!TypeOK
<1>2. CASE part = "bytes" /\ Bytes!Next
  <2>1. ASSUME NEW c \in {0, 3, 252, 255}, Bytes!Type(c) PROVE TextInv'
    BY <1>0, <1>2, <2>1, Typing DEF TextInv, Bytes!Type, Bytes!TypeOK, SomeBytes
  <2> QED BY <1>1, <1>2, <2>1 DEF Bytes!Next, Bytes!Full, SomeBytes
<1>3. CASE part = "letters" /\ Letters!Next
  <2>1. ASSUME NEW c \in {32, 47, 58, 97}, Letters!Type(c) PROVE TextInv'
    BY <1>0, <1>3, <2>1, Typing DEF TextInv, Letters!Type, Letters!TypeOK, SomeLetters
  <2> QED BY <1>1, <1>3, <2>1 DEF Letters!Next, Letters!Full, SomeLetters
<1> QED BY <1>1, <1>2, <1>3 DEF AllNext, allVars

LEMMA TextsAreKept == TextInv => TextsKept
<1>1. ASSUME TextInv, part = "bytes" PROVE Base64Returns(text)
  <2>1. text \in Seq(SomeBytes)
    BY <1>1 DEF TextInv, Bytes!TypeOK
  <2>2. SomeBytes \subseteq Byte
    BY DEF SomeBytes, Byte
  <2>3. text \in Seq(Byte)
    <3> HIDE DEF SomeBytes
    <3> QED BY <2>1, <2>2, SeqMonotonic
  <2> QED BY <2>3, BytesReturn, Zenon
<1>2. ASSUME TextInv, part = "letters"
      PROVE  /\ \A c \in SomeLetters :
                  /\ SplitLosesNothing(text, c) /\ TokensJoin(text, c)
                  /\ \A d \in SomeLetters : SplitAnyKeepsText(text, c, d)
             /\ TrimIsExact(text) /\ PathReturns(text) /\ NamesReturn(split(text, <<Slash>>))
  <2>1. text \in Seq(SomeLetters)
    BY <1>2 DEF TextInv, Letters!TypeOK
  <2>2. ASSUME NEW c PROVE SplitLosesNothing(text, c) /\ TokensJoin(text, c)
    BY <2>1, PiecesMakeTheText, TokensMakeTheText, Zenon
  <2>3. ASSUME NEW c, NEW d PROVE SplitAnyKeepsText(text, c, d)
    BY <2>1, OthersAreKept, Zenon
  <2>4. TrimIsExact(text) /\ PathReturns(text)
    BY <2>1, TrimsBothEnds, PathsReturn, Zenon
  <2>5. NamesReturn(split(text, <<Slash>>))
    <3>1. NewLine \notin SomeLetters
      BY DEF NewLine, SomeLetters
    <3>2. split(text, <<Slash>>) \in Seq(Seq(SomeLetters))
      BY <2>1, SplitIs, Zenon
    <3> QED BY <3>1, <3>2, NamesAreRead, Zenon
  <2> QED BY <2>2, <2>3, <2>4, <2>5, Zenon
<1> QED BY <1>1, <1>2 DEF TextsKept

-----------------------------------------------------------------------------
(* The composed specification: the parts that were not chosen stand still. *)

\* For any names, sizes, times and range of the length, and files that change between any two
\* calls of the operating system: no more is read than the length says, a file that nobody
\* touched is answered from the first place that has it, less than the length says is sent of a
\* touched file or of a directory only, and a confirmed copy is what the file had, but for the
\* stated exceptions.
THEOREM FilesAreAnswered == AllSpec => []FilesAnswered
<1>1. AllInit => FilesInv
  BY FilesInit DEF AllInit
<1>2. FilesInv /\ [AllNext]_allVars => FilesInv'
  <2>1. [AllNext]_allVars => [Next]_vars
    BY DEF AllNext, allVars
  <2> QED BY <2>1, FilesStep
<1>3. FilesInv => FilesAnswered
  BY DEF FilesInv, FilesAnswered
<1> QED BY <1>1, <1>2, <1>3, PTL DEF AllSpec

\* The cache has every name once, and no more than fits once nothing runs; every call is answered
\* once, with the text of its own name unless that name was found further down, and none waits for
\* ever but within the load of the item it was led to: for any texts, sizes and depth of nested
\* calls.
THEOREM CacheIsKept == AllSpec => []CacheKept
<1>1. AllInit => CacheInv /\ OwnInv
  BY CacheInit, OwnInit DEF AllInit
<1>2. CacheInv /\ OwnInv /\ [AllNext]_allVars => CacheInv' /\ OwnInv'
  <2>1. [AllNext]_allVars => [Cache!Next]_Cache!vars
    BY DEF AllNext, allVars, cacheVars, Cache!vars
  <2> QED BY <2>1, CacheStep, OwnStep
<1> QED BY <1>1, <1>2, CacheIs, PTL DEF AllSpec

\* Two ids have one hash, and a browser another's data, only if two threads made ids at once, the
\* program was started again or the characters of the counter were used up; a browser with its
\* cookie finds what it stored even then, and the last value of a cookie comes back as far as its
\* first colon, unless a colon of another cookie was in front of it: for any browsers, threads, times and range of a character.
THEOREM BrowsersAreKept == AllSpec => []BrowsersKept
<1>1. AllInit => IdsInv /\ CookiesInv
  BY IdsInit, CookiesInit DEF AllInit
<1>2. IdsInv /\ [AllNext]_allVars => IdsInv'
  <2>1. [AllNext]_allVars => [Ids!Next]_Ids!vars
    BY DEF AllNext, allVars, idVars, Ids!vars
  <2> QED BY <2>1, IdsStep
<1>3. CookiesInv /\ [AllNext]_allVars => CookiesInv'
  <2>1. [AllNext]_allVars => [Cookies!Next]_Cookies!vars
    BY DEF AllNext, allVars, cookieVars, Cookies!vars
  <2> QED BY <2>1, CookiesStep
<1>4. IdsInv /\ CookiesInv => BrowsersKept
  BY IdsAreKept DEF CookiesInv, BrowsersKept
<1> QED BY <1>1, <1>2, <1>3, <1>4, PTL DEF AllSpec

\* A websocket that no two threads wrote to at a time can be read, and a finished call has given its
\* frame once to each of its websockets: for any websockets, threads, resources and sizes of frames.
THEOREM FramesAreDelivered == AllSpec => []FramesSent
<1>1. AllInit => OutputInv
  BY OutputInit DEF AllInit
<1>2. OutputInv /\ [AllNext]_allVars => OutputInv'
  <2>1. [AllNext]_allVars => [Output!Next]_Output!vars
    BY DEF AllNext, allVars, outputVars, Output!vars
  <2> QED BY <2>1, OutputStep
<1> QED BY <1>1, <1>2, FramesAreSent, PTL DEF AllSpec

\* Texts of any length come back from base64, from splitting, trimming and cutting a path, and the
\* names of a listing from its lines.
THEOREM TextsReturn == AllSpec => []TextsKept
BY TextInit, TextStep, TextsAreKept, PTL DEF AllSpec

\* The types of all parts.
THEOREM HelpersTyped == AllSpec => []PartsTypeOK
<1>1. AllInit => FilesInv /\ CacheInv /\ IdsInv /\ CookiesInv /\ OutputInv
  BY FilesInit, CacheInit, IdsInit, CookiesInit, OutputInit DEF AllInit
<1>2. FilesInv /\ CacheInv /\ IdsInv /\ CookiesInv /\ OutputInv /\ [AllNext]_allVars
        => (FilesInv /\ CacheInv /\ IdsInv /\ CookiesInv /\ OutputInv)'
  <2>1. [AllNext]_allVars =>
          /\ [Next]_vars /\ [Cache!Next]_Cache!vars /\ [Ids!Next]_Ids!vars
          /\ [Cookies!Next]_Cookies!vars /\ [Output!Next]_Output!vars
    BY DEF AllNext, allVars, cacheVars, Cache!vars, idVars, Ids!vars, cookieVars, Cookies!vars, outputVars, Output!vars
  <2> QED BY <2>1, FilesStep, CacheStep, IdsStep, CookiesStep, OutputStep
<1>3. FilesInv /\ CacheInv /\ IdsInv /\ CookiesInv /\ OutputInv /\ TextInv => PartsTypeOK
  BY DEF FilesInv, CacheInv, IdsInv, CookiesInv, OutputInv, TextInv, PartsTypeOK
<1> QED BY <1>1, <1>2, <1>3, TextInit, TextStep, PTL DEF AllSpec
===============================================================================
