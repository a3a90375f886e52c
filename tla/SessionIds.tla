------------------------------- MODULE SessionIds -------------------------------
(***************************************************************************)
(* How a browser keeps its session: HttpSession makes an id and names the  *)
(* session's file by it, the id goes out with the response as a cookie,    *)
(* and CookieParser reads it from the next request.  Handlers run in       *)
(* several threads; a browser has one request at a time.  What happens to  *)
(* a session's file while two write it is SessionStore's matter.           *)
(***************************************************************************)
EXTENDS Naturals, Sequences, FiniteSets

CONSTANTS
  Browsers, Handlers,
  CharRange,     \* uniqueCount is appended to texts as a character: modulo CharRange
  LostTails,     \* characters that do not come back at the end of a cookie: spaces, ";", ...
  PlainTails,    \* characters that a file name may have
  MaxTime,       \* bound: seconds
  MaxRequests,   \* bound: requests of each browser
  MaxRestarts,   \* bound: restarts of the program
  None

IdsAssumption ==
  /\ CharRange \in Nat \ {0} /\ MaxTime \in Nat \ {0} /\ MaxRequests \in Nat /\ MaxRestarts \in Nat
  /\ None \notin Browsers

VARIABLES
  uniqueCount,
  now,
  files,       \* files[f]: the data under a file name
  jar,         \* jar[b]: the cookie of a browser, or NoId
  h,           \* h[t]: a handler
  asked,       \* asked[b]: requests so far
  made,        \* history: all ids
  overlapped,  \* history: two threads were in getUniqueId at once
  restarts,
  kept         \* history: kept[b]: what b stored in requests with a cookie

vars == <<uniqueCount, now, files, jar, h, asked, made, overlapped, restarts, kept>>

\* In the place of a character: none is there; "_".
NoTail == CharRange
Underscore == CharRange + 1

NoId == [hash |-> <<0, 0>>, lower |-> FALSE, tail |-> NoTail]
Idle == [pc |-> "idle", browser |-> None, in |-> NoId, out |-> NoId, carried |-> FALSE, use |-> "in",
         hash |-> <<0, 0>>, tail |-> 0, got |-> {}]

Init ==
  /\ uniqueCount = 0 /\ now = 1 /\ files = [f \in {} |-> {}]
  /\ jar = [b \in Browsers |-> NoId] /\ h = [t \in Handlers |-> Idle]
  /\ asked = [b \in Browsers |-> 0]
  /\ made = <<>> /\ overlapped = FALSE /\ restarts = 0 /\ kept = [b \in Browsers |-> {}]

-----------------------------------------------------------------------------
(* Cookies and file names. *)

\* What CookieParser's load makes of the cookie: small letters, and the ends trimmed.
load(id) ==
  IF id = NoId THEN NoId
  ELSE [id EXCEPT !.lower = TRUE, !.tail = IF @ \in LostTails THEN NoTail ELSE @]

\* getFileNameFromSsid: what a file name cannot have becomes "_".
FileName(id) ==
  [hash |-> id.hash, lower |-> id.lower,
   tail |-> IF id.tail \in PlainTails \cup {NoTail} THEN id.tail ELSE Underscore]

Data(f) == IF f \in DOMAIN files THEN files[f] ELSE {}

-----------------------------------------------------------------------------
(* A request: its cookies are loaded and copied into the response; then the application    *)
(* stores or reads data of the session, of the request's or of the response's cookie.      *)

Free(b) == \A t \in Handlers : h[t].browser # b

Request(t, b) ==
  /\ h[t].pc = "idle" /\ Free(b) /\ asked[b] < MaxRequests
  /\ asked' = [asked EXCEPT ![b] = @ + 1]
  /\ \E use \in {"in", "out"} :
       h' = [h EXCEPT ![t] = [Idle EXCEPT !.pc = "app", !.browser = b, !.in = load(jar[b]),
                                          !.out = load(jar[b]), !.carried = jar[b] # NoId, !.use = use]]
  /\ UNCHANGED <<uniqueCount, now, files, jar, made, overlapped, restarts, kept>>

\* string += of a number.
AsChar(n) == n % CharRange

Used(t) == IF h[t].use = "in" THEN h[t].in ELSE h[t].out
Making(t) == h[t].pc \in {"tail", "count"}

\* Faulty variant: the cookie that came is not looked at.
NeedsIdAnyway(t) == h[t].hash = <<0, 0>>

\* getSSID finds no cookie.
NeedsId(t) == Used(t) = NoId

\* A new id: the hash of uniqueCount and the time.
getUniqueId_Hash(t) ==
  /\ h[t].pc = "app" /\ NeedsId(t)
  /\ h' = [h EXCEPT ![t].pc = "tail", ![t].hash = <<AsChar(uniqueCount), now>>]
  /\ overlapped' = (overlapped \/ \E u \in Handlers \ {t} : Making(u))
  /\ UNCHANGED <<uniqueCount, now, files, jar, asked, made, restarts, kept>>

\* uniqueCount++ reads ...
getUniqueId_Tail(t) ==
  /\ h[t].pc = "tail"
  /\ h' = [h EXCEPT ![t].pc = "count", ![t].tail = uniqueCount]
  /\ UNCHANGED <<uniqueCount, now, files, jar, asked, made, overlapped, restarts, kept>>

Counted(n) == n + 1

\* ... and writes; the id becomes a cookie of the request or of the response.
getUniqueId_Count(t) ==
  /\ h[t].pc = "count"
  /\ LET id == [hash |-> h[t].hash, lower |-> FALSE, tail |-> AsChar(h[t].tail)]
     IN /\ made' = Append(made, id)
        /\ h' = [h EXCEPT ![t].pc = "app",
                          ![t].in = IF h[t].use = "in" THEN id ELSE @,
                          ![t].out = IF h[t].use = "out" THEN id ELSE @]
  /\ uniqueCount' = Counted(h[t].tail)
  /\ UNCHANGED <<now, files, jar, asked, overlapped, restarts, kept>>

setSessionData(t) ==
  /\ h[t].pc = "app" /\ ~NeedsId(t)
  /\ LET b == h[t].browser
         item == <<b, asked[b]>>
         f == FileName(Used(t))
     IN /\ files' = [g \in DOMAIN files \cup {f} |-> Data(g) \cup (IF g = f THEN {item} ELSE {})]
        /\ kept' = IF h[t].carried THEN [kept EXCEPT ![b] = @ \cup {item}] ELSE kept
  /\ h' = [h EXCEPT ![t].pc = "respond"]
  /\ UNCHANGED <<uniqueCount, now, jar, asked, made, overlapped, restarts>>

getSessionData(t) ==
  /\ h[t].pc = "app" /\ ~NeedsId(t)
  /\ h' = [h EXCEPT ![t].pc = "read", ![t].got = Data(FileName(Used(t)))]
  /\ UNCHANGED <<uniqueCount, now, files, jar, asked, made, overlapped, restarts, kept>>

\* CookieParser's unload sends the cookies of the response.
SetCookie(t) == h[t].out

\* The response arrives, or is lost.
Respond(t) ==
  /\ h[t].pc \in {"respond", "read"}
  /\ LET b == h[t].browser IN
       \/ jar' = [jar EXCEPT ![b] = IF SetCookie(t) # NoId THEN SetCookie(t) ELSE @]
       \/ UNCHANGED jar
  /\ h' = [h EXCEPT ![t] = Idle]
  /\ UNCHANGED <<uniqueCount, now, files, asked, made, overlapped, restarts, kept>>

Tick ==
  /\ now < MaxTime /\ now' = now + 1
  /\ UNCHANGED <<uniqueCount, files, jar, h, asked, made, overlapped, restarts, kept>>

\* The program ends and starts again; files and browsers stay.
Restart ==
  /\ restarts < MaxRestarts
  /\ restarts' = restarts + 1
  /\ uniqueCount' = 0 /\ h' = [t \in Handlers |-> Idle]
  /\ UNCHANGED <<now, files, jar, asked, made, overlapped, kept>>

Handler(t) ==
  \/ getUniqueId_Hash(t) \/ getUniqueId_Tail(t) \/ getUniqueId_Count(t)
  \/ setSessionData(t) \/ getSessionData(t) \/ Respond(t)

\* Nobody has to ask.
Over == (\A t \in Handlers : h[t] = Idle) /\ UNCHANGED vars

Next ==
  \/ \E t \in Handlers : Handler(t) \/ \E b \in Browsers : Request(t, b)
  \/ Tick \/ Restart \/ Over

Spec == Init /\ [][Next]_vars

-----------------------------------------------------------------------------
Id == [hash : (0..(CharRange - 1)) \X (0..MaxTime), lower : BOOLEAN, tail : 0..NoTail]

TypeOK ==
  /\ uniqueCount \in Nat /\ now \in 1..MaxTime
  /\ \A f \in DOMAIN files : files[f] \subseteq Browsers \X (1..MaxRequests)
  /\ jar \in [Browsers -> Id] /\ made \in Seq(Id)
  /\ h \in [Handlers -> [pc : {"idle", "app", "tail", "count", "respond", "read"},
       browser : Browsers \cup {None}, in : Id, out : Id, carried : BOOLEAN, use : {"in", "out"},
       hash : (0..(CharRange - 1)) \X (0..MaxTime), tail : Nat, got : SUBSET (Browsers \X (1..MaxRequests))]]
  /\ asked \in [Browsers -> 0..MaxRequests] /\ overlapped \in BOOLEAN /\ restarts \in 0..MaxRestarts
  /\ kept \in [Browsers -> SUBSET (Browsers \X (1..MaxRequests))]

\* Two ids have the same data to be hashed only if two threads made ids at once, the program
\* was started again, or there were as many ids as there are characters.
HashesMeetOnlyIfOverlapped ==
  ~overlapped /\ restarts = 0 /\ Len(made) <= CharRange =>
    \A i, j \in DOMAIN made : i # j => made[i].hash # made[j].hash

\* With the same exceptions, nobody reads another browser's data.
SessionsApart ==
  ~overlapped /\ restarts = 0 /\ Len(made) <= CharRange =>
    \A t \in Handlers : h[t].got \subseteq {h[t].browser} \X (1..MaxRequests)

\* What a browser stored in requests that had the session's cookie is there whenever it comes
\* with the cookie again, also after a restart and when responses are lost.
SessionKept ==
  \A t \in Handlers : h[t].pc = "read" /\ h[t].carried => kept[h[t].browser] \subseteq h[t].got
===============================================================================
