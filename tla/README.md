# KwWebServer in TLA+

KwWebServer is an embedded web server in C++: a class, `KWTinyWebServer`, that
an application constructs with a port and an observer, and the helpers around
it: a router, workers for cookies and sessions, a wrapper of system calls, a
cache. This directory models what is hard to test in them: the threads that
share the sessions of clients, the readers of requests and of websocket frames,
what is sent, the router's tables, lock files and what is kept under them, and
the conversions the rest depends on. TLC checks the models on small instances;
TLAPS proves the theorems listed below for all values of the constants.

Line numbers are those of `src/sources/KWTinyWebServer.cpp` unless another file
is named.

## The system

| component | state | operations | hard because of | model |
|---|---|---|---|---|
| client sessions (`KWTinyWebServer`) | `clientsSessionsStates`, its mutex, one `KWClientSessionState` per connection and request | receive listener 93-124, task 115-120, `initializeClient`, `finalizeClient`, `dataReceivedFrom`, `endHttpRequest` | event threads and pool threads look sessions up without the mutex, again and again, and replace them | `ClientSessions` |
| HTTP parser and response | `state`, `bufferStr`, `receivedData`, `dataToSend` | `dataReceivedFrom` 240-659, `endHttpRequest` | a request arrives in pieces; error paths; keep-alive; upgrade; lengths of a fixed width | `HttpExchange` |
| websocket reader | `webSocketState`, `ws_*` | `WebSocketProcess` 690-891 | state kept from frame to frame, sizes, fragments, buffers freed twice | `WebSocketFrames` |
| websocket output | none of its own | `sendWebSocketData` 1008-1059, `broadcastWebSocker` 1061-1082, the handshake | two sends without a lock; a walk through the table; sizes in 7, 16 and 64 bits | `WebSocketOutput` |
| automatic files | the file system | `__TryAutoLoadFiles` 893-1006 | the file changes between test, `stat`, size and read; directories pass for files; ETags of one second | `AutoFiles` |
| router (`KWWebServerRouter`) | routes by id, connected websockets | `route`, `routeWebsocket`, their destruction, the four calls of the server, `sendToAll` | the ids of registration and destruction differ, so that pointers outlive their routes; places found before the lock; tables and a list that are read without it | `Router`, `RouteTemplate`, `RouteSegments`, `ConnectedSockets` |
| `KWSObservable` | observers by number | `add`, `remove`, `foreach` | the number is read after unlocking; iteration without the lock | `Observable` |
| `HttpSession` | session files, `uniqueCount` | `load`, `setSessionData`, `getSessionData`, `getSSID` | read-merge-write under a lock file; ids made by many threads and after restarts | `SessionStore`, `SessionIds` |
| `SysLink` | lock files, a temporary file | `waitAndLockFile`, `unlockFile`, `lockFileAndRun`, `getObjectsFromDirectory`, file helpers | test and write are two steps; a timeout takes the lock whoever has it; functions throw | `FileLock`, `LockedRun` |
| `CookieParser` | the cookies of a request | `load`, `unload` | names and values change on the way; the header is cut at colons | `Cookies` |
| `RamCache` | items, those to be dropped at the end | `getAsync`, `getSync`, `releaseCache` | loads and observers call the cache again; a place is used after the item was moved | `RamCache` |
| `StringUtils`, texts of `SysLink` | | `split`, `trim`, `base64_encode`, paths, listings | boundaries | `Text`, `TextReference` |
| `TCPServer`, `ThreadPool` | | git submodules, not in this repository | | as used |

How they interact: `TCPServer` calls two listeners of `KWTinyWebServer`, with
connection events and with data. The receive listener appends the data to the
buffer of the client's session and enqueues a task in the `ThreadPool`, unless
the session has one. The task runs `dataReceivedFrom`: it parses what is in the
buffer, tries the files, lets the workers (`CookieParser`, `HttpSession`) load,
calls the observer (often the router), lets the workers unload, answers, and
then closes the connection, replaces the session by a new one (keep-alive), or
leaves it to the websocket reader, which later data and the end of the
connection run. Threads of the application send frames at any time.

What makes each component correct, in short: a session is worked on by one
thread; its bytes are read, in order, and not left behind; every request is
given to the application once and answered once, in order; the connection's
session is there as long as the connection; another connection's session is not
touched. A websocket's messages reach the application whole, once and in
order, and what is sent to it can be read by it. No array is overrun, whatever
a peer sends or becomes of a file. Routes that live are found. What was stored
for a browser comes back to it and to nobody else. That is what ought to be; the
code keeps to it with exceptions, each of which the properties name.

## Modules

| module | what it is | run |
|---|---|---|
| `ClientSessions` | sessions, listeners, tasks and handlers, with the threads | `one_client`, `many_clients` |
| `WebSocketFrames` | the websocket reader, its peer, and what calls it | `one_client`, `frames_any` |
| `MessageStream` | abstract: messages delivered whole, once, in order | `one_client` |
| `HttpExchange` | the parser and the answers of one connection | `server` |
| `RequestResponse` | abstract: one answer to each request, in order | `server` |
| `FileLock` | lock files, for the two modules that follow | `server` |
| `LockedRun` | `lockFileAndRun`, and listings of directories | `server` |
| `SessionStore` | the data of one session in its file, with crashes | `server` |
| `AtomicStore` | abstract: atomic updates and reads | `server` |
| `Router` | the tables of routes and the calls of the server | `routing` |
| `RouteTemplate` | one template against one resource | `routing` |
| `RouteSegments` | what a template stands for, segment by segment | `routing` |
| `ConnectedSockets` | the router's list of websockets | `routing` |
| `Observable` | numbers, adding, removing, calling all | `routing` |
| `AutoFiles` | one request for a file after the other | `helpers` |
| `RamCache` | nested calls of the cache | `helpers` |
| `SessionIds` | ids, cookies and file names of sessions | `helpers` |
| `Cookies` | cookies between browser and application | `helpers` |
| `Text` | the functions on texts | `helpers` |
| `TextReference` | what callers count on of them, for one text | `helpers` |
| `MCText` | every small text | `helpers` |
| `WebSocketOutput` | handshakes, frames sent, broadcasts | `helpers` |
| `MC*` | the small instances | |
| `*Proofs` | theorems about the module of that name; `ServerProofs` (with `LockedRun`), `RoutingProofs` and `HelpersProofs` about the parts that `MCServer`, `MCRouting` and `MCHelpers` put together; `TextProofs` about `Text` and `RouteSegments` | |

A run takes several parts that do not share state: a variable `part` is chosen
at the start and the variables of the other parts stay at their initial values,
so that the number of states is the sum over the parts and not their product.

Operators with a comment "faulty variant" are no part of a model: each is a
definition with a plausible mistake, defined before the right one, and some
property must fail when it takes its place.

### ClientSessions

The threads are the clients (for each, the `TCPServer` thread that reports its
events, one event after the other) and the workers of the pool. `thr[t]` has a
thread's control point and the locals that outlive a step: the client and
session of the task (`cli`, `mine`) and the session it found in the table
(`cur`). `table` is `clientsSessionsStates`; a socket number is reused by a
later client. `sess` holds the session objects, which stay in existence as long
as somebody points to them, as `shared_ptr` does.

An action is one access to shared state: each `count` and each `operator[]` of
the map is a step of its own, and so are the test of the buffer's size and the
pop that follows it, the call of an observer and its return. `operator[]`
inserts a null entry when it finds none (`Subscript`), and whoever dereferences
one crashes the program (`crashed`). A critical section without a callback is
one step. `finalizeClient` calls the observer with the mutex held; there the
mutex is a variable.

| actions | code |
|---|---|
| `Connect`, `Disconnected`, `Close` | connection listener 83-91, `disconnecteWebSocket` 1084-1092, the peer |
| `Listener_*` | receive listener 93-124 |
| `Task_*` | the task 115-120 |
| `initializeClient_*`, `finalizeClient_*` | 133-171 |
| `dataReceivedFrom_Count`, `_Lookup`, `_Loop`, `_Pop` | 209-252, 253-456 |
| `dataReceivedFrom_CallApp`, `_AppReturned`, `_Respond` | 464-659 |
| `endHttpRequest_*` | 662-688 |
| `WebSocketProcess_*` | 690-891, as calls and pops |
| `broadcastWebSocker_NullState`, `*_NullState`, `PopEmpty` | where the program crashes |

Data is abstracted: the buffer is a number of bytes, and a popped byte may leave
the request incomplete, complete it or have it rejected. What a request says is
`HttpExchange`'s matter, what a frame says `WebSocketFrames`'s. Fields that exist
only for properties: `req`, `con`, `data`, `dis` count calls to the observer,
`mixed` records that a thread came to the session with another session's task,
and `late` that bytes came after the last look of the task (or with the
handshake, whose session is not looked at again).

### WebSocketFrames

One action per branch of the switch. A byte is a record of what each state
would make of it: its top bit (`hi`: fin, or masked), its lower bits (`lo`: the
size), and the byte of payload it is when unmasked with the byte that masked it
(`plain`, `key`). A reader out of step with its peer therefore still reads
something: a mask byte read as a header has the bits given by the constant
`Fillers`. Unmasking with the wrong byte gives `Garbage`.

The listener (`Receive`) enqueues a task when it sees no flag, a task is taken by
the pool (`Task_Start`), and clears the flag (`Task_End`) in a step behind the one in
which it left the loop (`Return`). Bytes that come in between wait without a task
(`Waiting`), until more come.

Undefined behaviour is a choice. At the end of a frame that is not the last of
its message the buffer is freed (865) and stays in `ws_payload`, where the next
buffer may take its memory (820); at the end of the message it is copied (848) and
freed again (852), and the last buffer is freed twice as well (852, 865). The copy goes to
`fullPayload`, which has room for `ws_totalPayload` bytes: those of the last frame, as
726 forgets the others. So `FromFragments` delivers any bytes of any of the fragments,
or `Garbage`, and `overrun` says that more was copied than there was room for; the
allocator may stop the program (`aborted`). After either nothing more is said of it
(`Lost`). A message in one frame is copied before anything is freed twice, and
of that the model says that the program stops or goes on unharmed.

One thread at a time runs this module's reader; two threads on one reader are
part of `ClientSessions`.

### HttpExchange

One connection, its client and the network, with one thread at a time. `Receive`, `Task_Start` and `Task_End` are as in
`WebSocketFrames`; of a keep-alive the task that is on its way back clears the flag of the old
session, so that the new one has none. What a
client sends is cut into the tokens after which the parser does something: a
method with its space (`ReadVerb`, 259-304), the rest of the first line
(`ReadFirstLine`, 305-355), a header line (`ReadHeader`, 356-400), the empty
line (`ReadHeader_End`, 401-418), a byte of the body (`ReadContent`, 419-432);
`_Reject` are the branches to the error states. Tokens carry the request they
were sent in, so that an answer can be traced to it (`receivedData.from`).
`ReadVerb_Stray` is what becomes of bytes that are left of a request: they are
part of the next method, until there are more than a method may have (`TooLong`, 283). Answering has one action per state of the second loop;
the application answers with any of `Answers`, and `NotFound` is the guess of
line 491. `endHttpRequest_KeepAlive` takes a new session with an empty buffer, so
that bytes of the next request are thrown away (`dropped`). `contentLength` is an
unsigned int, of `UIntRange` values: `ReadHeader` takes what `atoi` gives modulo
it, and so does `BodySize`, the size of the buffer with the 0 behind the body.

Two clients are checked: one that waits for an answer before it sends again, and
one that does not (`Pipelines`).

### WebSocketOutput

A step is a call of `sendData` or `sendString`, and `wire[c]` the pieces that
were sent. `Header` makes the bytes of 1017-1045 out of a size; `Readable` is the
reference: an independent decoder of the frames of RFC 6455 (`Decode`) that must
find the handshake, then frames of the announced sizes. A broadcast collects
the websockets of its resource in one step, under the mutex, and sends to them
one by one. `mixed` records that a frame was begun inside another one or inside
the handshake; nothing in the code prevents it.

### FileLock, LockedRun, SessionStore

`FileLock` has the steps of `waitAndLockFile` and `unlockFile` (`SysLink.cpp`
94-121): the test, the sleep, the write, the second test, the deletion. `left`
counts the sleeps that remain of a timeout; 0 is no limit. After the timeout the
lock file is written whoever has it. `owner` knows who wrote it last and is still
there. `mishaps` records which of the two things has happened that let a second thread
in: `"race"`, a thread passed the test while another had passed it and not yet written
the file, and `"timeout"`, a thread stopped waiting while another held the lock or was about to
write it. Both are noted when a thread leaves the loop, and not when it breaks the
exclusion; a lock file that was left behind and waited for in vain is neither.

`LockedRun` is `lockFileAndRun`, whose function may throw and leaves the lock
file behind then, and `getObjectsFromDirectory`, which uses it around one
temporary file for all directories and processes. `SessionStore` is
`setSessionData` (look for the file, lock, read, merge, empty the file by opening
it, write it by closing it, unlock) and `getSessionData`. A crash ends all calls
at any step and leaves files and lock file as they are; a file that is open for
writing is empty then. `AtomicStore` is what they promise together.

### Router, RouteTemplate, ConnectedSockets, Observable

`Router` has the two maps from ids to sequences of routes. A route is registered
and removed in the steps of the code: the destruction finds a place without the
lock and erases it with the lock. The ids are those of the code, which registers
requests under `"WS"` (line 56) and removes all routes under their method (93): only a
route that `routeElse` made is found, and the pointer of every other one stays. The calls
of the server copy the table without the lock (`Copied`), call the routes of the
id one by one, any of which may throw, and go on to the routes for everything else
(`Else`), through the table itself. What is undefined in them is a choice: a copy or a
walk that somebody changes meanwhile (`torn`) may lose routes or stop the
program; a call through the pointer of a destroyed route, or of a request's
route for a websocket, (`CallAstray`) calls nothing, throws or stops it.

`RouteTemplate` runs `routeIsCompatible` on bytes, one variable in a step, and then
`extractUrlVars`; `RouteSegments` is its reference, which cuts both texts into
segments (`Matches`, `RouteNames`, `ValueOf`, and `Own`: a variable alone in its
segment, whose name no other segment has). `ConnectedSockets` is the vector `connectedWebsockets`, whose changes
are two steps each without a lock: reading its end and writing there, finding a
place and erasing it. `sendToAll` copies it first, also without a lock: its size
(`Send_Begin`), then one client after the other (`Send_Copy`), of which an erase shifts the rest. `Observable` takes `add`, `remove` and `foreach` apart the
same way.

### AutoFiles, RamCache, SessionIds, Cookies, Text

`AutoFiles` interleaves every system call of `__TryAutoLoadFiles` with changes of
the file; a file has a second, a version and a size, an ETag is the second, and
the browser keeps what it got. A directory can be opened like a file, has any size and
nothing to read. `RamCache` keeps the nested calls on a stack,
since loading functions and observers may call the cache again. An item that is found
goes one place up, and the place where it was is used after that (`Get_Known`): its
neighbour is there then, whose text the caller gets, or whose load it waits for. `SessionIds`
follows an id from `getUniqueId` through the name of its file, the cookie and
back: the last character of an id is `uniqueCount` as a character, which file
names replace and cookies may lose (`LostTails`), and letters come back small.
`Cookies` follows names and values through `load`, the copy to the answer, the
application and `unload`; of a header with a colon in it only what comes before the colon
is loaded (`Cut`, `Loads`), in the order the browser chose. `Text` has the functions on texts as operators and
recursive functions on sequences of bytes; `TextReference` says of one text what they
must give back (`Base64Returns`, `SplitLosesNothing`, ...), and `MCText` makes every text.

## Runs

| run | instance | distinct states |
|---|---|---|
| `one_client` | sessions: 1 client, 2 workers, 3 bytes, 5 session objects; frames: 2 masked frames with fin, of 1 or 5 bytes | 62,346 |
| `many_clients` | 2 workers, 6 session objects, and one of: 2 clients one after the other with one socket number, 2 bytes and 1 byte; 2 clients with their own numbers and a byte each; 1 client with 4 bytes | 739,024 |
| `frames_any` | 3 frames of 7 kinds, 2 fillers | 6,340,030 |
| `server` | waiting client, 3 requests of 11 kinds; client that does not wait, 2 requests; int of 8 values, verbs of 3 characters; 2 threads, 2 sleeps, 2 updates, 1 crash; 2 threads that run and list | 366,533 |
| `routing` | 3 routes, 2 makers, 1 handler; templates to 5 and resources to 4 characters of 4 letters; 3 websockets, 1 sender, 2 sends; 2 threads, 3 observers | 1,302,765 |
| `helpers` | 2 locations, sizes to 2, 3 files or directories made, 2 seconds; 3 texts, 4 calls, depth 4; 2 browsers, 2 handlers, 4 requests, 1 restart, 3 characters; cookies over 4 answers, colons in one name and one value; texts to 6 of 4 bytes; 6 sizes of frames, 2 senders, 2 websockets | 2,468,855 |
| `sessions_leak`, `frames_long`, `frames_fragments`, `frames_empty`, `frames_unmasked`, `router_requests` | expected to violate what a comment says | |

What the passing runs show:

- *A session has at most one task* (`OneTaskPerSession`): the flag
  `processingIncomingData` does what it is for.
- *A session may still have two threads*, because a task looks its session up
  again by socket number: when the session was replaced in between, the task of
  the old one works on the new one, which may have a task of its own. The
  qualifier `~mixed` in `ExclusiveUnlessMixed`, `PopSafe`, `CalledInOrder`,
  `StrandedOnlyIfLate` and, for every session of the client, in `AnswerNotErased`
  (`Unmixed`) is exactly this case. It needs no reused socket number: a listener
  that found the old session just before a keep-alive replaced it enqueues such
  a task. The fourth byte of the third part of `many_clients` is for the late
  consequences: the second worker ends its session and replaces, by socket number,
  whatever session the client has by then, also one that is not mixed; and it
  may overwrite the state that the first worker's last look depends on, so that
  bytes wait which did not come late.
- *Bytes are left in a buffer without a task* when they come between the last
  look of a task and the reset of the flag, or while the handshake of a
  websocket is answered, and in no other case (`StrandedOnlyIfLate`). They are
  read when more bytes come.
- *A connected client is without a session* only while its worker swaps it
  (`SessionWhileConnected`); in that moment the listener drops bytes, or its
  lookup leaves a null entry and the program crashes.
- *Separate connections stay separate* (`OwnClientOnly`): a worker handles the
  bytes of the client of its task, and the session it answers stays in the table
  (`AnswerNotErased`), as long as no other connection had the client's socket
  number (`Apart`). With a reused number they do not: a worker that still answers
  the dead connection replaces the session of the live one.
- *The pool gets through its tasks, requests are answered, clients finalized*
  (`TasksTaken`, `RequestAnswered`, `ClientFinalized`), with fair threads and
  unless the program crashes.
- *The reader is a message stream* for whole messages in masked frames of 1 to
  125 bytes (`StreamSpec`, a refinement): 5 bytes use the mask more than once
  round. Every message is delivered, with fair threads, unless the connection or the
  program ends, or its last bytes come between the last look of a task and the
  clearing of `processingIncomingData` and no more follow (`EverythingDelivered`,
  `[]Waiting`): the listener's test (111) and the task's end (119) do not
  agree on who looks next.
- *Of any frames* `ws_mask` and `ws_packPayload` hold what is read into them.
  `fullPayload` does only if every frame was a whole message (`IndexInBounds`): behind a
  fragment with bytes in it the code writes past its end. Up to the first such message
  no byte of payload arrives twice or in the wrong order (`BytesInOrder`), though a reader
  out of step with its peer makes other messages of them; that one may hold anything of
  its fragments, and after it nothing is said.
- *Requests are answered once and in order* (`AnswersPromised`, a refinement),
  until a keep-alive throws bytes of a client away that did not wait. They are answered
  at all (`WholeAnswered`) unless the connection ends, bytes were thrown away, or
  their last bytes wait behind the last look of a task as those of a frame may
  (`[]Unattended`). *The body fits its buffer* for every
  `Content-Length` but the greatest (`BodyInBounds`); no answer follows one that
  closes the connection, and one that lacks its empty line is such, but for
  the 400 of a websocket request without a key (`AnswersEnd`).
- *A lock file keeps threads apart* (`HeldOnce`), with crashes, functions that throw
  and lock files that both leave behind, until two threads pass the test together or one
  stops waiting for a lock that is in use (`mishaps`): the code has nothing against either. Up to
  then the data of a session is updated atomically (`StoreAtomic`, a refinement),
  what was acknowledged stays (`AcknowledgedKept`, also without a crash)
  and listings are their caller's (`OwnListing`). Every call returns
  (`CallsReturn`): an orphaned lock costs a timeout and no more.
- *Live routes stand in the tables once*, websockets get to all their routes and
  who has no route is refused (`RoutesKept`), unless the sequence of an id changes between
  the search of a destruction and its erase. Of the routes that were destroyed only those
  of `routeElse` are forgotten; each of the others leaves its pointer in the table, where
  the next call for its resource uses it. A call goes astray, and the program stops, only by
  such a pointer, by a table that was changed while it was read, or when a websocket
  without a route is given to a route for all other requests (`OnlyThenAstray`).
  *Templates mean what their segments say* (`BySegments`). *The list of websockets
  has who is connected*, unless two changes of it meet; and `sendToAll` reaches them and
  stops nothing, unless a client comes or goes while the list is copied
  (`SocketsReached`). *Observers keep their own numbers and are all called*
  (`ReturnsOwnNumber`, `ForeachCallsAll`), unless the one that is called goes.
- *A file that nobody touches is answered with its content* (`FilesAnswered`), and what is read
  fits its buffer even if the file changes between two system calls; when it goes before it
  is opened for its size, the program stops (`SysLink.cpp` 84-85). A directory is answered
  like a file, with as many bytes that nobody wrote as its size says. A stale copy is
  confirmed only when two contents are of one second or the file had gone.
- *The cache* has a name once, fits when idle, answers each call once, and gives a name that
  is new or in front its own text; a name further down gets the text of another one. A
  call waits for ever only inside the load of the item it was led to (`CacheKept`).
- *Browsers have what they stored and nobody else's data* (`BrowsersKept`), unless
  two threads made ids at once, the program was restarted, or `uniqueCount` went
  round. Cookies whose names are in small letters come back, in small letters and up to their
  first colon; those behind a cookie with a colon do not.
- *Frames can be read by their receiver* at every size of header, and a finished
  call has given each websocket its frame once (`FramesSent`), unless frames mix.
- *Texts* (`TextsKept`): `base64_encode` has an inverse, `split` with a separator of
  one character loses nothing, `trim` is exact, paths and listings come back.

Why the bounds are enough: with 3 bytes a client has a request, bytes of a
second one behind it and bytes that come late, with 4 a worker of the first
session can meet the third one; two workers are the smallest
number that can meet, and the code never has a worker wait for two others; 5
(6) session objects are more than are created within the bytes, so that
`initializeClient` is never blocked for want of one. On the reused socket either
connection may be first, so the bytes are those of the old one and of the new
one. Three frames of any kind are enough for a fragment, the end of its message and the next
message; of whole messages two, for what survives a frame to reach the next one, in every
interleaving of reader and listener. Three requests are enough for one that leaves bytes behind, one that
is made of them and a third that must not be. A thread that waits for a lock
needs one that has it, and two sleeps are enough to wait, look again and
time out. Three routes let a sequence lose a place before another one; a
template of 5 characters has a variable between two slashes or with a text on
one side, and two longer ones have two variables and a variable in a text. Colons in
a name and in a value, of three and two, leave cookies on either side of them. Two
contents in one second and one in the next are all an ETag can confuse. In a cache of 3,
where an item takes 1 more than its text, there are a text without a size, one that fits
alone and one that never fits. A text
of 6 has two groups of base64, or three separators with pieces between them.

The bounds, all in the `.cfg` files: `MaxBytes`, `MaxChunk`, `MaxFrames`, `Sessions`,
`Fillers`, `MaxRequests`, `MaxPipelined`, `Updates`, `MaxCrashes`, `MaxTimeout` (a
parameter of the code's call), `Calls`, `Routes`, `MaxSends`, `TemplateLength`,
`ResourceLength`, `MaxSize`, `CacheSize`, `TextSize`, `FrameSizes`, `MaxVersion`, `MaxTime`, `MaxGets`, `MaxDepth`, `MaxRestarts`,
`MaxResponses`, `MaxLength`. `UIntRange`, `LengthRange` and `CharRange` stand for 2^32 (the first two) and
2^8 (the third), `VerbLimit` for 30.

Deadlock is checked in every run: what is over, crashed or bounded stutters
explicitly.

### Where code and comments part

Six runs find something that a comment in the code says violated:

- a session is left behind when a worker reaches 671-672 after the disconnection
  was handled (`sessions_leak`; line 679 counts on the event for that);
- frames of 126 bytes and more run into the branch that "never can be executed":
  766 tests the size of the frame before (`frames_long`);
- of a fragmented message as many bytes arrive as its last frame had: 726
  resets the sum at each frame (`frames_fragments`), which is also what `fullPayload` is too
  short by, 842-850;
- an empty frame takes a byte of the next one: 818 pops before it tests
  (`frames_empty`);
- an unmasked frame closes nothing until another byte comes: 785
  (`frames_unmasked`);
- a route for requests is registered under an id no request has:
  `KWWebServerRouter.cpp` 56 (`router_requests`).

Other things to know that the models have and no run is about: an answer
with content but neither status nor type becomes a 404 (491); a frame may be
sent before the handshake (545); `Connection: Close` is announced also when the
connection is kept (554); the 400 for an upgrade without a key has no empty line
and may keep the connection; a client that waits for its answer may lose the
beginning of its next request, between the send of the answer and the swap of
the session; a websocket whose list of routes for everything else is empty
counts as answered (`KWWebServerRouter.cpp` 296); ids in cookies come back in
small letters (`CookieParser.h` 36), and attributes of a cookie that is sent again
are lost (61); the cache puts a new text in front of those that were asked for
before (`httpRamCache.h` 80), so that a text in use may be at the end, where it
drops, and a text that is found below the front is answered with its neighbour's
(86-94); `.json` is never reached behind `.js` (963); a `Cookie` header with a colon in it
loses what is behind it (369), a folder is announced as a file (`SysLink.cpp` 4-8), and
a route that `routeElse` did not make leaves its pointer in the router when it is
destroyed (`KWWebServerRouter.cpp` 56, 93).

### Assumptions about code outside the repository

`TCPServer` and `ThreadPool` are libraries. From their use here: the events of one
socket are reported one after the other, and a socket number is reused after
the disconnection of its last client was handled; `isConnected` is right at the
moment it is asked; `disconnect` leads to a disconnection event later; the pool
runs tasks in the order they were enqueued, on several threads; `sendData` and
`sendString` deliver whole and in order. The operating system's files are read
and written at once, but for the emptying of a file that is opened for writing.
Observers return. The containers of the session table are taken to be safe: that
`std::map` is read without its mutex while another thread changes it is
undefined behaviour which is not modelled there. In the router and in the lists it
is: what a thread reads of a table or a list that changes meanwhile is torn; only looking up a
key of a map is one step. A buffer that is freed twice stops the program or does no harm, and after
`fullPayload` was written past its end nothing is said of the bytes. Browsers keep cookies as RFC
6265 says, by name.

### Fairness

`ClientSessions!Fairness` is weak fairness for each thread: the scheduler runs a
thread that can go on, observers return, and `TCPServer` reports a disconnection
that happened. Peers need not connect, send or close, and the application need
not call anything. A thread that waits for the mutex may be overtaken; weak
fairness is enough since the holder always gets out of the callback and the
others are finitely many. `WebSocketFrames!Fairness` has weak fairness for the
network's delivery, the disconnection, the reader, and the task's start and end (`Task_Start`,
`Task_End`). `HttpExchange!Fairness`: what was sent arrives, and the thread starts, runs and ends
its task. In `MCServer!AllSpec` every thread under a
lock file goes on inside its call; nobody has to call, and nothing has to crash.
In
`MCOneClient!OneSpec` only the part a behaviour is of is fair, since the other one stands still.
Every liveness property excuses a crash where the code can reach one.

## Proofs

`tlapm` proves, for all clients, sockets, workers, sessions and bounds
(`ConstantsAssumption`), all frames and fillers (`FramesAssumption`;
`KeysAssumption` only says that no mask is the absence of one), all requests
and answers and every width of an unsigned int (`ExchangeAssumption`), all threads,
calls and timeouts (`ObservableAssumption`, `LockAssumption`, `StoreAssumption`), all
routes, resources, paths and websockets (`RouterAssumption`, `SocketsAssumption`: routes
and clients are finitely many, and no method is called `WS`, the name under which the
router looks for websockets), all templates and resources of bytes (`TemplateConstants`), all files, sizes, times and names (`FilesAssumption`), texts
of the cache and their sizes (`CacheAssumption`), browsers, handlers, ranges of a character
and restarts (`IdsAssumption`, `CookiesAssumption`), and sizes of frames up to the largest
int (`OutputAssumption`). Texts may have any length (`TextConstants`). The
refinement of `MessageStream` is proved for the frames it is about, whole messages in
one masked frame of 1 to 125 bytes (`WholeFrames`; the other runs of the reader show why
for no others). The order of the answers is proved for requests that are complete
(`CompleteRequests`: a body is as long as its header declares, or the request is
refused at its first line), of which `ExchangeAssumption` says nothing; TLC evaluates it
for the requests of the run `server` (`ClientAssumption` in `MCServer`):

| module | theorems |
|---|---|
| `ClientSessionsProofs` | `TypeCorrect`, `OneTask` (`OneTaskPerSession`), `Exclusive` (`ExclusiveUnlessMixed`), `PopsSafe` (`PopSafe`), `InOrder` (`CalledInOrder`), `OwnClient` (`OwnClientOnly`), `SessionHeld` (`SessionWhileConnected`), `AnswerKept` (`AnswerNotErased`), `WaitsOnlyIfLate` (`StrandedOnlyIfLate`) |
| `WebSocketFramesProofs` | `FrameTypes`, `LongFramesRefused` (`ExtendedLengthUnreachable`), `ReaderInBounds` (`IndexInBounds`), `BytesArriveInOrder` (`BytesInOrder`), `ReaderIsStream` (`StreamSpec`: the reader implements `MessageStream`) |
| `RoutingProofs` | `Fresh` (`NumbersFresh`), `OwnNumber` (`ReturnsOwnNumber`), `CallsAll` (`ForeachCallsAll`); and of `MCRouting!AllSpec` `RoutesAreKept` (`RoutesKept`), `SocketsAreReached` (`SocketsReached`), `TemplatesAreCompared` (`BySegments`), `PartsAreTyped` (`PartsTypeOK`) |
| `FileLockProofs` | lemmas about the lock, for the next two |
| `TextProofs` | for texts of any length and characters: `SplitIsTokens`, `TokensEqual`, `TokensMakeTheText`, `PiecesMakeTheText`, `TrimsBothEnds`, `PathsReturn`, `NamesAreRead`, `BytesReturn`, `OthersAreKept`; and lemmas about segments |
| `SessionStoreProofs` | `StoreTypesKept`, `StoreHeldOnce` (`HeldOnce`), `AcknowledgedIsKept` (`AcknowledgedKept`), `FileImplementsStore` (`StoreAtomic`: `SessionStore` implements `AtomicStore`) |
| `ServerProofs` | of `HttpExchange` `ExchangeTypesKept`, `BodyStaysInBounds` (`BodyInBounds`), `LastAnswerIsLast` (`AnswersEnd`), `AnsweredInOrder`, `WaitingAnswered` (`Spec` implements `RequestResponse`); and of `MCServer!AllSpec` `PartsTyped` (`PartsTypeOK`), `AnswersArePromised` (`AnswersPromised`), `LocksHeldOnce` (`HeldOnce`), `ListersOwnListings` (`OwnListing`), `Acknowledged` (`AcknowledgedKept`), `StoreIsAtomic` (`StoreAtomic`) |
| `HelpersProofs` | of `MCHelpers!AllSpec` `FilesAreAnswered` (`FilesAnswered`), `CacheIsKept` (`CacheKept`), `BrowsersAreKept` (`BrowsersKept`), `FramesAreDelivered` (`FramesSent`), `TextsReturn` (`TextsKept`), `HelpersTyped` (`PartsTypeOK`) |

`OneTaskPerSession` is not inductive: it says nothing of the session a listener
is about to append to. The invariant `IInv` of `ClientSessionsProofs` is
`TypeInv` (types, and that threads have the locals they need), `Owned` (the
sessions in the table, in the queue and in a thread have an owner, so that a
new session is none of them), `Tasks` (`OneTaskPerSession`, by queue position
and worker) and `Told` (a worker attends the session of its task, or that
session is `mixed`). All but four actions are *quiet*: they keep the queue, the
flags, the owners and what busy workers remember. `QuietOrNot` proves that,
action by action; then one lemma shows that a quiet step keeps `IInv` and one
lemma each that the others do (a task is enqueued, taken, ended; a session is
inserted).

`Answers` stands on top of it, the inductive invariant of what the
sessions promise the clients. Its first lemmas (`..._Does`) say what each action
does, field by field, so that no later proof opens an action; the `...Flow`
lemmas say what any step can do to one client, one worker, one task, one entry of
the table or one session. The layers, each of which uses those before it:

- `Places`: which thread can be at which control point, with which locals.
- `Keys`, `Met`, `Left`: an entry of the table belongs to a client with that socket
  number, which connected; a worker has come to a session by its own client's
  number. `OwnClientOnly` follows: with a number of its own a client's
  entries are its own.
- `Calls`: what the control point of the worker in a session says of its buffer,
  its states and the calls made so far, as long as it is the only one. That is
  where `ExclusiveUnlessMixed` is needed, and what `PopSafe` and
  `CalledInOrder` are consequences of.
- `InTurn`, `Held`, `Bounds`: of the clients with one socket number at most one is
  connected or being disconnected, and while it is, its entry is there or some
  worker is about to insert it. `SessionWhileConnected` alone is not inductive: it
  says nothing of where a client ends.
- `One`: for a client that is alone on its number and none of whose sessions is
  mixed, at most one worker can end a session, and it is the one that holds
  the entry. `AnswerNotErased` follows.
- `Replaced`, `Theirs`, `AllTended`: a session out of the table does not come back;
  the tasks of a client's session are that client's; and the bytes of a session in
  the table, with a task or not, are about to be looked at, or came late.
  `StrandedOnlyIfLate` is the last of these for a session without a task.

For the frames, `IInv` has the peer, the flags of the task, the reader's types (`ws_packSize` is
at most 125, and the two states for longer sizes are not reached) and `BoundsInv`:
`ws_packPayload` has `ws_tempIndex` bytes throughout the payload state. That the buffers
hold bytes, whose size field is 7 bits wide, is an invariant over what the peer
sent. That nothing is written past the end of `fullPayload` as long as all frames were whole
messages is of another kind: it needs to know that no fragment is kept from a message before,
which is what `StreamInv` below has (`WholeInv`).

`BytesInOrder` says that the numbers of the bytes that the application was given rise. It
follows from where a byte can be: given to the application, held by the reader
(`Held`), or still coming (`Coming`, whose payloads start at `NextByte`). `OrderInv` says
that the numbers rise within each (`Rising`), that those before are less than those
behind (`Below`), and that the reader's total is reset when a message was given
(`TotalReset`): without that, the next message would hold bytes of the last. After a message that
did not fit (`overrun`), only the messages before it are in order (`FrontOrdered`). What the
pieces of a frame add up to is a concatenation of any length (`FlattenAppend`), proved
with a least counterexample in a set of numbers (`WFMin`, `NumberInduction`), as the
library's induction over an operator is not at hand.

That the reader implements `MessageStream` needs to know what every byte still to come is. A
place is a frame and a byte of it (`Place`); `Unread` says that the bytes in the
buffer and on the wire are those of the whole frames that make the messages sent, from the
reader's place on without a gap. `StreamInv` adds that the reader is in step with its peer
(`InStep`): its state is the one for that place, and the size, the mask and the payload
it holds are those of the frame so far; that what was delivered are the first messages
(`DeliveredSent`); and that no fragment is kept from frame to frame (`NoFragments`). The last byte
of a payload then maps to the stream's delivery of the next message, the sending of a frame
to its sending, and every other step to none. A single frame without fin, without mask or with a size of
0 or more than 125 puts the reader out of step, so `WholeFrames` asks for no more than is needed.

For the requests, `BodyInv` says that the buffer has the room that was computed and that
`currentContentLength` is below `contentLength` as long as bytes are awaited: the
sum that counts it up does not go round. `EndInv` says where the connection is
after an answer that ends it (`LastSent`): in a state from which it is only
closed or left to the websocket; and that the errors whose answers end nowhere
have set `ignoreKeepAlive`.

That the answers are those of the requests in their order is `Ordered`: every token that
is still unread, in the buffer or under way, has a label (`Labels`), the request it is
of and its place in it; the labels go on without a gap from where the parser stands
(`Reached`), and that is in the request whose answer is next. A step that reads moves
both sides by one token; a body is read as a whole since the request is as long as it
declares, which is where `CompleteRequests` is needed: after a body shorter than its header
says, the next request's letters would be taken for content. A keep-alive that throws
bytes away (`dropped`) breaks the labels; `AnsweredInOrder` says what holds up to there.
For a client that waits, `OneAtATime` says that all tokens not read yet are of one
request; a keep-alive in its midst has answered with an error and what is left of it
has no letter that would get a second answer (`Torn`, `TornRefused`).

For the lock, `HeldOnce` is not inductive: it says nothing of who has left the loop and not
yet written the lock file. `LockInv` has it that, as long as there were no `mishaps`, one
thread at most takes the lock, by holding it or being about to write (`Taking`, `OneTaking`),
and who holds it finds its own lock file there (`Owned`), which is what keeps the
others in the loop; each step of the lock
keeps it, and so do steps outside (`InsideKeeps`, `OutsideKeeps`). On top of it the
temporary file has the listing of the thread inside (`ServerProofs`), and
what a thread has read of the session's file is what the file has until the
thread writes it (`Writing` in `SessionStoreProofs`). The refinement then maps
the closing of the file to `AtomicStore`'s update, the reading to its read, and
every other step to none.

A behaviour of `MCServer!AllSpec` is one of the part chosen at its start: `ServerInv` is the
invariant of that part and that the others stand still. The three parts share the
threads' variables, so the theorems of `SessionStoreProofs` are taken for the instance
`StoreP` over the same variables as `MCServer`'s own, and those of `LockedRun` are proved
of the instance `Run` itself (`RunIInv`).

For the observable, the invariant ties every number given to `currId`, and the
numbers a thread in `foreach` has been through to the ones it has still to call.

For the routes, `RouterInv` says where each stands. `AtHome`: at most in one place, under
the id it was registered with (`RouteId`). `Kept`: there from its making until its
destruction has ended, and for good when `routeElse` did not make it (`ElseRoute`),
because only for those that it made is the id that the destruction looks for (`DestroyedId`) the one
it was registered with. `MakersOK` says that a destruction between its search and its
erasure is therefore one of an else route, and `Placed` that its place is still the
route's: another destruction in between would have moved it, which is what `overlapped`
notes. With `Kept` the copies of the tables that a websocket is given are those of
the routes it is due to, unless they were torn or the walk ended early
(`ReachesBy`). `RefusedBy` says that a call that called nothing ends as found only by an else
route, `AstrayBy` that a pointer goes wrong only after a destruction or when a websocket
meets an else route, and `StoppedOK` that the program stops for one of these or for
a table that was changed while it was read. Of the paths a resource covers nothing is used but
that they are paths.

A template means what its segments say (`BySegments`) because one step of the comparison
keeps the meaning of what is left. `Compared`: as long as the comparison goes on, the rest of the
route stands for the rest of the resource if and only if the route does for the
resource. `Collected`: each variable of the route has its value already (`Assigned`) or is
among those that are left (`OwnValue`), unless one of the url's own has taken its place. Both are for
templates whose names have no slash (`Plain`); others the code takes apart in the middle of a
name. The lemmas about what stands at the front of a route (`MatchesText`,
`MatchesVariable`, `VariableSegments`, `NamesVariable`, ...) are in `TextProofs`; those called
`Same...` say that the instance's operators are those of `RouteSegments`.

For the list of websockets, what a thread has read of it is so until the thread changes it
(`StillSo`), unless changes met (`raced`); so the place that is written is the end, and the
one that is erased is the client's own (`ListedAsConnected`). A copy that no change has
torn is the beginning of the list as it stands, and when it is whole it has everyone who is
due (`SendingBy`); the program stops only when changes met or a copy was torn (`WhyStopped`).

The parts of `helpers` have an inductive invariant each.

`FilesInv`: as long as nobody touched the files, the request stands at the first location
that has one (`StillThere`), and its time and size are those that were read, but for the size of
a directory, which may be any and of which nothing is read. For copies,
each content has a number of its own (`Numbered`), and a time that was read is traced to a
content that was written in that second (`Traced`), or was the garbage of a `stat` that found
no file. The invariants of the answer alone are not inductive: they say nothing of what
the browser will ask with.

`CacheInv` numbers the frames of the stack from the first call (`Levels`), so that a frame keeps
its number while others come and go above it. `LoadedOnce` says that one frame loads a
text and that the text's state is known from where that frame is; `OneAnswer` that a call which is not
answered has one place that will answer it, its own frame or a place among the
observers of the frame that loads (`Has`), and an answered one has none; `Told` that who waits stands
above the frame that loads the item it was led to. That item has the name the call
asked for unless the name was found below the front (`Led`), and who loads an item asked for its
name (`Fine`, for every frame of the stack). While the texts are too many, some frame is still to release
them (`Fits`, `Presses`). `AnsweredOnce` is `OneAnswer` when no frame is left. What fits is a
sum over a sequence, of which nothing is used but that it is a number, that equal sequences have
equal ones (`TotalStays`) and that the empty sequence has 0 (`NoSum`, `KeptIs`); to compute
it for any sequence would need induction.

`IdsInv`: who has a hash, in a jar, a request, an answer or the name of a file with data of theirs (`Holds`), has it of an id that was made
(`KnownHashes`), and nobody else has it as long as no two ids were made at once (`Apart`).
Then `uniqueCount` is the number of ids made, and the n-th has the character of n - 1
(`Counted`): hashes are equal only after the characters have gone round. `Stored` says that what a
browser has stored is in the file of the id in its jar, whose name is made the same way from what
the cookie brings back.

`CookiesInv` has what was set last in the browser's jar, as it was or as it comes back, in small
letters and up to its first colon (`BrowserHas`, `Back`), and what goes back to the
browser is what came, but for what the application has set (`GoesBack`).

`OutputInv`: every piece on a connection is at its place, by the piece before it (`InPlace`):
a payload after the header that announces its size (`HeaderIs` proves that the header's bytes
decode to it, for sizes of 7, 16 and 64 bits), a header after a payload or the handshake. So a
connection can be read without going through it from its start (`ReadableIs`). `Counts` says how often
the frame of the call that goes on was begun on each connection.

`TextProofs` has no induction over data to cite, since the library's takes an operator as a
parameter. It makes its own: `NumberInduction` says of a set of numbers that has 0 and with each number
the next that it has all of them, which follows from the least number that is missing, and
`TokenInduction` (a text is one piece, or a piece, a separator and a text),
`PieceInduction` and `FrontInduction` (a sequence is empty, or one with an element more at its end,
or at its front) say the same of a set of texts. What is to be shown of every text is then the
set of those of which it is true. A recursive function is a `CHOOSE`: each is first shown to exist, number
by number (`PiecesExist`, `FlattensExists`, `TurnsExist`), and then read off step by
step.

`FlattenConcat` takes apart what was put together, and on it rest the others. `TokensMakeTheText`
and `PiecesMakeTheText` go from the first separator (`FirstJoin`) to the rest.
`OthersAreKept` has the invariant of a loop (`KeptIn`): the pieces so far and what is left have all
characters of the text but the separators, which every turn keeps, whether it finds one or not.
`NamesAreRead` says that each line that was made is one token, and that the name in it is behind the first
colon and the space after that whatever the name has (`NameOfLine`). For `BytesReturn`
`InGroups` places a text in groups of 3 bytes of which the last has `r`, and what was encoded in
groups of 4 of which the last has `r + 1` without its padding (`UnpaddedIs`, `CharactersAre`);
`OctetsReturn` says that a byte comes back from the two characters that have its bits, so that
the characters which are missing are of no use; and `BlocksFlatten` finds the bytes again where they were.

Only model-checked: what needs fairness, which is beyond the prover (`EverythingDelivered`,
`TasksTaken`, `RequestAnswered`, `ClientFinalized`, `WholeAnswered`, `CallsReturn`; of
`StreamSpec`, which states none, nothing is left). The violations are TLC's by their nature.

## Not modelled

- `WebServerObserverHelper`, `httpCodes`, `IWorker`, `tester` and the build: four
  functions that call four others, a table, an interface, a program that only
  constructs the server.
- The constructor, which runs before any thread, `addWorker`, `debug`,
  `get_app_path`, `getNestedExceptionText`: start-up, logging and wording.
- `formatDate` (`strftime`), `appendFile` and the functions that make and delete
  directories: they hand on to the operating system and nothing reads a result
  that depends on state.
- The contents of `HttpData` beyond the fields that decide what happens; wording of
  headers and error pages.
- Callbacks that call back into the server (a broadcast from inside
  `OnWebSocketDisconnect` waits for a mutex its own thread has), data races inside
  the containers of the session table, and the table of routes for everything
  else changing while it is walked through.
- The order of `OnWebSocketData` and `OnWebSocketDisconnect` when a worker is
  inside the loop as the connection ends (159): the steps are in `ClientSessions`,
  but no order is promised anywhere, and none is stated.

## Plan

Of what the runs check, every invariant and every refinement is proved. Left to the runs are the
liveness properties. The two hazards without a property (159, 491) stay so for want
of a statement in the code of what ought to happen.
