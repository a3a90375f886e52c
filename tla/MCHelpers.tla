------------------------------- MODULE MCHelpers -------------------------------
(***************************************************************************)
(* Small instances of the parts that do not share any state with another:  *)
(* files, the cache, session ids, cookies, texts and frames to websockets. *)
(* A behaviour is one of the part that was chosen at its start.            *)
(***************************************************************************)
EXTENDS AutoFiles, TextReference

CONSTANTS Parts, None

VARIABLE part

OneName == {{}}

\* The cache.
CONSTANTS Texts, TextSize, CacheSize, ItemSize, MaxGets, MaxDepth
VARIABLES cache, items, stack, gets, dangling, crashed

\* With CacheSize 3 a text that takes no room, one that fits alone and one that does not.
EmptyToLarge == [n \in Texts |-> IF n = "a" THEN 0 ELSE IF n = "b" THEN 2 ELSE 4]

Cache == INSTANCE RamCache WITH
  Names <- Texts, Size <- TextSize, maxSize <- CacheSize, Overhead <- ItemSize
ASSUME CacheConstants == Cache!CacheAssumption

\* Ids of sessions.
CONSTANTS Clients, Threads, CharRange, LostTails, PlainTails, MaxRequests, MaxRestarts
VARIABLES uniqueCount, clock, files, jar, h, asked, made, overlapped, restarts, kept

Ids == INSTANCE SessionIds WITH Browsers <- Clients, Handlers <- Threads, now <- clock
ASSUME IdsConstants == Ids!IdsAssumption

\* One browser with two requests and the others with one, or one browser with many.
FewRequests == \E b \in Clients : asked'[b] <= 2 /\ \A c \in Clients \ {b} : asked'[c] <= 1
OneBrowser == \E b \in Clients : \A c \in Clients \ {b} : asked'[c] = 0

\* Cookies.
CONSTANTS Values, Attributes, Colons, MaxResponses
VARIABLES browserJar, received, toSend, pc, requests, used, last, fresh

Cookies == INSTANCE Cookies WITH jar <- browserJar, MaxRequests <- MaxResponses
ASSUME CookiesConstants == Cookies!CookiesAssumption

\* Texts of bytes, and of letters that names and pieces are made of.
CONSTANT MaxLength
VARIABLE text
ASSUME TextConstants == MaxLength \in Nat

SomeBytes == {0, 3, 252, 255}
SomeLetters == {32, 47, 58, 97}
Bytes == INSTANCE MCText WITH Alphabet <- SomeBytes
Letters == INSTANCE MCText WITH Alphabet <- SomeLetters

\* Frames; their sizes are those at which the header changes, and the largest int.
CONSTANTS Resources, FrameSizes, MaxFrames
VARIABLES connected, resource, webSocketOpen, answered, wire, calls, size, todo, at, sentTo, mixed

Output == INSTANCE WebSocketOutput WITH
  Senders <- Threads, Sizes <- FrameSizes
ASSUME OutputConstants == Output!OutputAssumption

\* One thread sends frames of all sizes, or all threads send frames of one size.
OneSender == \E t \in Threads : \A u \in Threads \ {t} : calls'[u] = 0
OneSize == \A t \in Threads : calls'[t] > 0 => size'[t] = 126

-----------------------------------------------------------------------------
cacheVars == <<cache, items, stack, gets, dangling, crashed>>
idVars == <<uniqueCount, clock, files, jar, h, asked, made, overlapped, restarts, kept>>
cookieVars == <<browserJar, received, toSend, pc, requests, used, last, fresh>>
outputVars == <<connected, resource, webSocketOpen, answered, wire, calls, size, todo, at, sentTo, mixed>>
allVars == <<part, vars, cacheVars, idVars, cookieVars, text, outputVars>>

HelpersSymmetry == Permutations(Clients) \cup Permutations(Threads)

AllInit ==
  /\ part \in Parts
  /\ Init /\ Cache!Init /\ Ids!Init /\ Cookies!Init /\ Bytes!Init /\ Output!Init
  /\ IF part \in {"sizes", "threads"}
       THEN Cardinality({resource[c] : c \in Clients}) = 2
       ELSE resource = [c \in Clients |-> CHOOSE r \in Resources : TRUE]

AllNext ==
  /\ UNCHANGED part
  /\ \/ /\ part = "files" /\ Next
        /\ UNCHANGED <<cacheVars, idVars, cookieVars, text, outputVars>>
     \/ /\ part = "cache" /\ Cache!Next
        /\ UNCHANGED <<vars, idVars, cookieVars, text, outputVars>>
     \/ /\ \/ part = "ids" /\ Ids!Next /\ FewRequests
           \/ part = "session" /\ Ids!Next /\ OneBrowser
        /\ UNCHANGED <<vars, cacheVars, cookieVars, text, outputVars>>
     \/ /\ part = "cookies" /\ Cookies!Next
        /\ UNCHANGED <<vars, cacheVars, idVars, text, outputVars>>
     \/ /\ \/ part = "bytes" /\ Bytes!Next
           \/ part = "letters" /\ Letters!Next
        /\ UNCHANGED <<vars, cacheVars, idVars, cookieVars, outputVars>>
     \/ /\ \/ part = "sizes" /\ Output!Next /\ OneSender
           \/ part = "threads" /\ Output!Next /\ OneSize
        /\ UNCHANGED <<vars, cacheVars, idVars, cookieVars, text>>

AllSpec == AllInit /\ [][AllNext]_allVars

-----------------------------------------------------------------------------
\* Types of all parts.
PartsTypeOK ==
  /\ TypeOK /\ Cache!TypeOK /\ Ids!TypeOK /\ Cookies!TypeOK /\ Output!TypeOK
  /\ part = "bytes" => Bytes!TypeOK
  /\ part = "letters" => Letters!TypeOK

\* A request for a file that nobody touches is answered with the file, for a directory with no
\* byte of anything; of one that is touched, if the program goes on, no more is read than was
\* announced; and an old copy is confirmed only when two contents have one time or the time was
\* read of a file that had gone.
FilesAnswered == BodyFits /\ UntouchedIsServed /\ GarbageOnlyIfTouched /\ StaleOnlyIfSameSecond

\* The cache has a name once and no more than fits, answers every call once, and with the text
\* of another name only when the name that was asked for was found further down.
CacheKept ==
  /\ Cache!OnePerName /\ Cache!FitsWhenIdle /\ Cache!AnsweredOnce
  /\ Cache!OwnTextUnlessBelow /\ Cache!WaitsOnlyInLoad

\* Browsers have ids of their own and find what they stored, in their session and in their
\* cookies as far as a colon, and nobody else's.
BrowsersKept ==
  /\ Ids!HashesMeetOnlyIfOverlapped /\ Ids!SessionsApart /\ Ids!SessionKept
  /\ Cookies!LastValueReturns

\* What is encoded comes back, and what is taken apart loses nothing.
TextsKept ==
  /\ part = "bytes" => Base64Returns(text)
  /\ part = "letters" =>
       /\ \A c \in SomeLetters :
            /\ SplitLosesNothing(text, c) /\ TokensJoin(text, c)
            /\ \A d \in SomeLetters : SplitAnyKeepsText(text, c, d)
       /\ TrimIsExact(text) /\ PathReturns(text) /\ NamesReturn(split(text, <<Slash>>))

\* A websocket can read what threads of the application send, and a finished call has given
\* its frame once to each of its websockets, and to nobody else.
FramesSent == Output!FramesWhole /\ Output!ReachesEachOnce /\ Output!OnlyWebSockets
===============================================================================
