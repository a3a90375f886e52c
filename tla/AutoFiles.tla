-------------------------------- MODULE AutoFiles --------------------------------
(***************************************************************************)
(* Files sent without asking the application: __TryAutoLoadFiles answers   *)
(* one request after the other for a file that somebody else makes,        *)
(* changes and deletes meanwhile, and a browser keeps the last copy.       *)
(*                                                                         *)
(* A content is a version and a size; a directory has a version too, and   *)
(* can be opened, but nothing can be read from it.  An ETag is a second:   *)
(* the time of modification in base64, which Text!Base64Returns shows to   *)
(* be one to one.                                                          *)
(***************************************************************************)
EXTENDS Naturals, FiniteSets, FiniteSetsExt

CONSTANTS
  Locations,    \* __filesLocations: 1..Locations
  MaxSize,      \* largest file
  LengthRange,  \* contentLength is a number modulo LengthRange
  MaxVersion,   \* bound: contents ever written
  MaxTime,      \* bound: seconds
  NameMarks     \* for every name that may be asked for, the known endings in it

ASSUME FilesAssumption ==
  /\ Locations \in Nat /\ MaxSize \in Nat /\ LengthRange \in Nat \ {0}
  /\ MaxVersion \in Nat /\ MaxTime \in Nat \ {0}

VARIABLES
  file,      \* file[l]: the file or directory at a location, or Gone
  now,       \* the second it is
  version,   \* the last content written
  written,   \* history: time and version of all contents
  touched,   \* history: a file was changed since the request came
  guessed,   \* history: the times that were read of files that had gone
  load,      \* the call of __TryAutoLoadFiles
  out,       \* the response
  copy       \* what the browser has

disk == <<file, now, version, written, touched>>  \* of the files and their changes
vars == <<disk, guessed, load, out, copy>>

NoType == ""
Gone == [time |-> 0, version |-> 0, size |-> 0, dir |-> FALSE]

\* A stream of it can be opened, of a directory as well.
Exists(l) == file[l] # Gone
Missing == [etag |-> 0, version |-> 0, length |-> 0, got |-> 0]
Empty == [status |-> 0, type |-> NoType, etag |-> 0, version |-> 0, length |-> 0, got |-> 0]
Idle == [pc |-> "idle", loc |-> 1, marks |-> {}, ifNoneMatch |-> 0, time |-> 0, stated |-> 0]

Init ==
  /\ file = [l \in 1..Locations |-> Gone] /\ now = 1 /\ version = 0 /\ written = {} /\ touched = FALSE
  /\ guessed = {} /\ load = Idle /\ out = Empty /\ copy = Missing

-----------------------------------------------------------------------------
(* Whoever changes the files, and the clock. *)

Put(l, size, dir) ==
  /\ version < MaxVersion
  /\ version' = version + 1
  /\ file' = [file EXCEPT ![l] = [time |-> now, version |-> version + 1, size |-> size, dir |-> dir]]
  /\ written' = written \cup {<<now, version + 1>>} /\ touched' = TRUE
  /\ UNCHANGED <<now, guessed, load, out, copy>>

Write(l, size) == ~file[l].dir /\ Put(l, size, FALSE)
MakeDirectory(l) == ~Exists(l) /\ Put(l, 0, TRUE)

Delete(l) ==
  /\ Exists(l)
  /\ file' = [file EXCEPT ![l] = Gone] /\ touched' = TRUE
  /\ UNCHANGED <<now, version, written, guessed, load, out, copy>>

Tick ==
  /\ now < MaxTime /\ now' = now + 1
  /\ UNCHANGED <<file, version, written, touched, guessed, load, out, copy>>

-----------------------------------------------------------------------------
(* __TryAutoLoadFiles. *)

\* The browser asks, for what is new only if it has a copy.
Request(marks) ==
  /\ load.pc = "idle"
  /\ \E e \in {0, copy.etag} : load' = [Idle EXCEPT !.pc = "find", !.marks = marks, !.ifNoneMatch = e]
  /\ out' = Empty /\ touched' = FALSE
  /\ UNCHANGED <<file, now, version, written, guessed, copy>>

\* The locations are over.
Find_None ==
  /\ load.pc = "find" /\ load.loc > Locations
  /\ load' = [load EXCEPT !.pc = "done"]
  /\ UNCHANGED <<disk, guessed, out, copy>>

NextLocation(l) == l + 1

\* fileExists says no.
Find_Missing ==
  /\ load.pc = "find" /\ load.loc <= Locations /\ ~Exists(load.loc)
  /\ load' = [load EXCEPT !.loc = NextLocation(@)]
  /\ out' = [out EXCEPT !.type = NoType, !.length = 0, !.status = 0]
  /\ UNCHANGED <<disk, guessed, copy>>

Find_There ==
  /\ load.pc = "find" /\ load.loc <= Locations /\ Exists(load.loc)
  /\ load' = [load EXCEPT !.pc = "stat"]
  /\ UNCHANGED <<disk, guessed, out, copy>>

\* The header was there and is the ETag.
Unmodified(ifNoneMatch, etag) == ifNoneMatch # 0 /\ ifNoneMatch = etag

\* stat, whose result is not looked at: of a file that went, any time.
Stat ==
  /\ load.pc = "stat"
  /\ \E time \in (IF Exists(load.loc) THEN {file[load.loc].time} ELSE 1..MaxTime) :
       /\ guessed' = guessed \cup (IF Exists(load.loc) THEN {} ELSE {time})
       /\ IF Unmodified(load.ifNoneMatch, time)
            THEN /\ out' = [out EXCEPT !.status = 304]
                 /\ load' = [load EXCEPT !.pc = "done", !.stated = file[load.loc].version]
            ELSE /\ load' = [load EXCEPT !.pc = "size", !.time = time, !.stated = file[load.loc].version]
                 /\ UNCHANGED out
  /\ UNCHANGED <<disk, copy>>

\* The first of the endings that is found anywhere in the name.
Endings == <<".GIF", ".JPG", ".SVG", ".PNG", ".ICO", ".HTM", ".CSS", ".JS", ".JSON">>
TypeOfEnding == <<"image/gif", "image/jpeg", "image/svg+xml", "image/png", "image/ico", "text/html",
                  "text/css", "text/javascript", "application/json">>

ContentType(marks) ==
  LET found == {i \in DOMAIN Endings : Endings[i] \in marks}
  IN IF found = {} THEN "text/plain" ELSE TypeOfEnding[Min(found)]

\* getFileSize tests again whether there is a file.
Size_Exists ==
  /\ load.pc = "size"
  /\ out' = [out EXCEPT !.type = ContentType(load.marks), !.length = 0]
  /\ load' = [load EXCEPT !.pc = IF Exists(load.loc) THEN "open" ELSE "read"]
  /\ UNCHANGED <<disk, guessed, copy>>

\* Faulty variant: a number as wide as the file.
ContentLengthWide(size) == size

\* contentLength, an unsigned int, of a file.
ContentLength(size) == size % LengthRange

\* The end of a directory, for ftell, is what its file system says.
Lengths(f) == IF f.dir THEN 0..(LengthRange - 1) ELSE {ContentLength(f.size)}

\* ... and opens it; fseek of a file that could not be opened ends the program.
Size_Open ==
  /\ load.pc = "open"
  /\ IF Exists(load.loc)
       THEN /\ \E length \in Lengths(file[load.loc]) : out' = [out EXCEPT !.length = length]
            /\ load' = [load EXCEPT !.pc = "read"]
       ELSE load' = [load EXCEPT !.pc = "crashed"] /\ UNCHANGED out
  /\ UNCHANGED <<disk, guessed, copy>>

\* Faulty variant: all of the file is read.
ReadCountAll(length, size) == size

\* How many bytes readFile puts into a buffer of some length; a directory has none.
ReadCount(length, size) == Min({length, size})

\* readFile and the headers.
Read ==
  /\ load.pc = "read"
  /\ out' = [out EXCEPT !.status = 200, !.etag = load.time, !.version = file[load.loc].version,
                        !.got = ReadCount(out.length, file[load.loc].size)]
  /\ load' = [load EXCEPT !.pc = "done"]
  /\ UNCHANGED <<disk, guessed, copy>>

\* The browser keeps a whole response.
Return ==
  /\ load.pc = "done"
  /\ load' = Idle
  /\ copy' = IF out.status = 200
               THEN [etag |-> out.etag, version |-> out.version, length |-> out.length, got |-> out.got]
               ELSE copy
  /\ UNCHANGED <<disk, guessed, out>>

Crashed == load.pc = "crashed" /\ UNCHANGED vars

Server ==
  \/ Find_None \/ Find_Missing \/ Find_There \/ Stat \/ Size_Exists \/ Size_Open \/ Read \/ Return

Next ==
  \/ \E l \in 1..Locations : Delete(l) \/ MakeDirectory(l) \/ \E s \in 0..MaxSize : Write(l, s)
  \/ Tick \/ Crashed
  \/ \E marks \in NameMarks : Request(marks)
  \/ Server

Spec == Init /\ [][Next]_vars

-----------------------------------------------------------------------------
Times == 0..MaxTime
Versions == 0..MaxVersion
Types == {TypeOfEnding[i] : i \in DOMAIN TypeOfEnding} \cup {NoType, "text/plain"}

TypeOK ==
  /\ file \in [1..Locations -> [time : Times, version : Versions, size : 0..MaxSize, dir : BOOLEAN]]
  /\ now \in Times /\ version \in Versions /\ written \subseteq Times \X Versions /\ touched \in BOOLEAN /\ guessed \subseteq Times
  /\ load \in [pc : {"idle", "find", "stat", "size", "open", "read", "done", "crashed"},
               loc : 1..(Locations + 1), marks : NameMarks \cup {{}}, ifNoneMatch : Times,
               time : Times, stated : Versions]
  /\ out \in [status : {0, 200, 304}, type : Types, etag : Times, version : Versions,
              length : 0..(LengthRange - 1), got : 0..MaxSize]
  /\ copy \in [etag : Times, version : Versions, length : 0..(LengthRange - 1), got : 0..MaxSize]

\* The buffer of a body is as long as contentLength says: whatever becomes of the file between
\* its size and its content, no more is read than fits.
BodyFits == out.got <= out.length

First(S) == IF S = {} THEN 0 ELSE Min(S)

\* As long as nobody changes a file during the request, the first location that has the name
\* answers: a file with all of its content if its size fits into contentLength, a directory,
\* even where a later location has a file, with no byte of anything; and when no location has
\* it, nothing is sent.
UntouchedIsServed ==
  load.pc = "done" /\ ~touched =>
    LET l == First({k \in 1..Locations : Exists(k)}) IN
      /\ out.status = 0 => l = 0 /\ out.length = 0 /\ out.type = NoType
      /\ out.status # 0 => l # 0
      /\ out.status = 304 => load.ifNoneMatch = file[l].time
      /\ out.status = 200 => out.version = file[l].version /\ out.etag = file[l].time
      /\ out.status = 200 /\ ~file[l].dir /\ file[l].size < LengthRange =>
           out.got = file[l].size /\ out.length = file[l].size
      /\ out.status = 200 /\ file[l].dir => out.got = 0

\* Bytes that were never written are sent only if the file got shorter or went between size
\* and content, or if it is a directory: then all that are announced.
GarbageOnlyIfTouched ==
  load.pc = "done" /\ out.status = 200 /\ out.got < out.length => touched \/ file[load.loc].dir

\* When a browser is told to keep a copy, the copy is what the file had when its time was
\* looked at, unless two contents were written in one second, or the file had gone when its
\* time was looked at.
StaleOnlyIfSameSecond ==
  load.pc = "done" /\ out.status = 304 =>
    \/ copy.version = load.stated \/ load.ifNoneMatch \in guessed
    \/ \E w1 \in written, w2 \in written : w1[1] = w2[1] /\ w1[2] # w2[2] /\ w1[1] = load.ifNoneMatch
===============================================================================
