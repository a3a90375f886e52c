-------------------------------- MODULE Router --------------------------------
(***************************************************************************)
(* KWWebServerRouter: routes that threads of the application make and      *)
(* destroy, and the calls of the server that look for the routes of a      *)
(* request or of a websocket.                                              *)
(*                                                                         *)
(* A route id is a pair: what stands for the method, and the resource.     *)
(* Which paths a resource with variables stands for is RouteTemplate's     *)
(* matter and a constant here.                                             *)
(*                                                                         *)
(* The tables hold plain pointers, and are read without their lock.  A     *)
(* call through the pointer of a destroyed route, or of a route of the     *)
(* other kind, is undefined, and so is reading a sequence that somebody    *)
(* changes meanwhile: the program stops, or goes on with something else.   *)
(***************************************************************************)
EXTENDS Naturals, Sequences, FiniteSets, SequencesExt

CONSTANTS
  Routes,     \* route objects
  Makers,     \* threads that make and destroy them
  Handlers,   \* threads that handle requests and websockets
  Methods,    \* the methods of requests, and of routes for them
  Resources,  \* the resources of routes, without "*"
  Paths,      \* the paths of requests
  Covers,     \* Covers[r]: the paths that routeIsCompatible finds for r
  None        \* no route

RouterAssumption ==
  /\ IsFiniteSet(Routes) /\ None \notin Routes
  /\ "*" \notin Resources \cup Methods /\ "WS" \notin Methods
  /\ Covers \in [Resources -> SUBSET Paths]

VARIABLES
  requestRoutesObservers,    \* for each id that is a key, a sequence of routes
  websocketRoutesObservers,
  route,       \* route[o]: [stage, kind, method, resource]
  maker,       \* maker[t]: the route that t is destroying and the place where it found it
  handler,     \* handler[w]: a call of the server, with what was undefined in it (faults):
               \* "torn", what it read was changed meanwhile; "pointer", it called what is no
               \* route of its kind
  overlapped,  \* history: a sequence was changed between a find and the erase for it
  crashed

tables == <<requestRoutesObservers, websocketRoutesObservers>>
vars == <<tables, route, maker, handler, overlapped, crashed>>

Else == <<"*", "*">>
NoKeys == [id \in {} |-> <<>>]
Unmade == [stage |-> "unmade", kind |-> "request", method |-> "*", resource |-> "*"]
Resting == [route |-> None, place |-> 0]
Waiting == [pc |-> "idle", kind |-> "request", id |-> Else, todo |-> {}, called |-> {},
            due |-> {}, result |-> "none", faults |-> {}]

Init ==
  /\ requestRoutesObservers = NoKeys /\ websocketRoutesObservers = NoKeys
  /\ route = [o \in Routes |-> Unmade]
  /\ maker = [t \in Makers |-> Resting]
  /\ handler = [w \in Handlers |-> Waiting]
  /\ overlapped = FALSE /\ crashed = FALSE

-----------------------------------------------------------------------------
(* Ids. *)

\* The id a route is registered with, whatever its method.
RouteId(r) == IF r = "*" THEN Else ELSE <<"WS", r>>

\* The ids its destruction looks for it with.
DestroyedId(o) ==
  IF route[o].kind = "request" THEN <<route[o].method, route[o].resource>>
                               ELSE <<"", route[o].resource>>

\* routeIsCompatible, of a key and the id of a request.
Compatible(key, id) == key # Else /\ key[1] = id[1] /\ id[2] \in Covers[key[2]]

Table(kind) == IF kind = "request" THEN requestRoutesObservers ELSE websocketRoutesObservers

\* Table kind gets the value f.
SetTable(kind, f) ==
  IF kind = "request" THEN requestRoutesObservers' = f /\ UNCHANGED websocketRoutesObservers
                      ELSE websocketRoutesObservers' = f /\ UNCHANGED requestRoutesObservers

At(f, id) == IF id \in DOMAIN f THEN f[id] ELSE <<>>
With(f, id, s) == [k \in DOMAIN f \cup {id} |-> IF k = id THEN s ELSE f[k]]

\* Somebody has found a route in the sequence that changes now.
Found(kind, id) ==
  \E t \in Makers :
    LET o == maker[t].route IN o # None /\ route[o].kind = kind /\ DestroyedId(o) = id

\* The calls of the server whose table is copied, or that walk through the else routes, have
\* it changed while they read.
TableKind(kind) == IF kind = "request" THEN "request" ELSE "websocket"
Reads(w, kind, id) ==
  \/ handler[w].pc = "copy" /\ TableKind(handler[w].kind) = kind
  \/ handler[w].pc = "walk" /\ kind = "request" /\ id = Else
Tear(kind, id) ==
  handler' = [w \in Handlers |->
    IF Reads(w, kind, id) THEN [handler[w] EXCEPT !.faults = @ \cup {"torn"}] ELSE handler[w]]

-----------------------------------------------------------------------------
(* Making routes. *)

\* Faulty variant: the sequence of an id is made when there is one.
RegisteredAnew(f, id, o) == With(f, id, <<o>>)

\* The sequence of an id is made when there is none, and the route put at its end.
Registered(f, id, o) == With(f, id, Append(At(f, id), o))

Make(o, kind, m, r) ==
  /\ route[o].stage = "unmade"
  /\ route' = [route EXCEPT ![o] = [stage |-> "live", kind |-> kind, method |-> m, resource |-> r]]
  /\ SetTable(kind, Registered(Table(kind), RouteId(r), o))
  /\ overlapped' = (overlapped \/ Found(kind, RouteId(r)))
  /\ Tear(kind, RouteId(r))
  /\ UNCHANGED <<maker, crashed>>

\* route and routeElse, routeWebsocket and routeWebsocketElse.
Route(o) == \E m \in Methods \cup {"*"}, r \in Resources \cup {"*"} : Make(o, "request", m, r)

RouteWebsocket(o) == \E r \in Resources \cup {"*"} : Make(o, "websocket", "*", r)

\* requestRouteDestroyed and websocketRouteDestroyed: the route is looked for without the
\* lock.  When it is not found the object goes and its pointer stays.
Destroyed_Find(t, o) ==
  /\ maker[t] = Resting /\ route[o].stage = "live"
  /\ LET s == At(Table(route[o].kind), DestroyedId(o)) IN
       IF o \in ToSet(s)
         THEN /\ maker' = [maker EXCEPT ![t] = [route |-> o, place |-> CHOOSE i \in DOMAIN s : s[i] = o]]
              /\ route' = [route EXCEPT ![o].stage = "dying"]
         ELSE /\ route' = [route EXCEPT ![o].stage = "dead"]
              /\ UNCHANGED maker
  /\ UNCHANGED <<tables, handler, overlapped, crashed>>

\* What the iterator stands at; nothing defined when that is the end.
EraseAt(s, i) == IF i <= Len(s) THEN RemoveAt(s, i) ELSE s

\* erase(itemPos), with the lock.
Destroyed_Erase(t) ==
  /\ maker[t] # Resting
  /\ LET o == maker[t].route
         id == DestroyedId(o)
         s == EraseAt(At(Table(route[o].kind), id), maker[t].place)
     IN /\ SetTable(route[o].kind, With(Table(route[o].kind), id, s))
        /\ route' = [route EXCEPT ![o].stage = "dead"]
        /\ overlapped' = (overlapped \/ \E u \in Makers \ {t} :
                            /\ maker[u].route # None
                            /\ route[maker[u].route].kind = route[o].kind
                            /\ DestroyedId(maker[u].route) = id)
        /\ Tear(route[o].kind, id)
  /\ maker' = [maker EXCEPT ![t] = Resting]
  /\ UNCHANGED crashed

\* The iterator is none of the sequence any longer.
Destroyed_Crash(t) ==
  /\ maker[t] # Resting /\ overlapped /\ crashed' = TRUE
  /\ UNCHANGED <<tables, route, maker, handler, overlapped>>

-----------------------------------------------------------------------------
(* OnHttpRequest, OnWebSocketConnect, OnWebSocketData and OnWebSocketDisconnect. *)

Kinds == {"request", "connect", "data", "disconnect"}

\* The routes of a table that a request is for.
Observers(kind, id) ==
  LET f == Table(TableKind(kind)) IN UNION {ToSet(f[k]) : k \in {k \in DOMAIN f : Compatible(k, id)}}

\* The live routes of the application that should be called: of the same kind, method and
\* path.
Due(kind, id) ==
  {o \in Routes :
     /\ route[o].stage = "live" /\ route[o].resource # "*"
     /\ id[2] \in Covers[route[o].resource]
     /\ IF kind = "request" THEN route[o].kind = "request" /\ route[o].method = id[1]
                            ELSE route[o].kind = "websocket"}

others == <<tables, route, maker, overlapped>>

\* identifyObservers gets a copy of the table, which is made without the lock.
Handle(w, kind, m, p) ==
  /\ handler[w].pc = "idle"
  /\ LET id == <<IF kind = "request" THEN m ELSE "WS", p>>
     IN handler' = [handler EXCEPT ![w] =
          [pc |-> "copy", kind |-> kind, id |-> id, todo |-> {}, called |-> {},
           due |-> Due(kind, id), result |-> "none", faults |-> {}]]
  /\ UNCHANGED <<others, crashed>>

\* The copy is there.  Some of it may be left out when the table was changed meanwhile.
Copied(w) ==
  /\ handler[w].pc = "copy"
  /\ LET all == Observers(handler[w].kind, handler[w].id) IN
     \E todo \in IF "torn" \in handler[w].faults THEN SUBSET all ELSE {all} :
       handler' = [handler EXCEPT ![w].todo = todo, ![w].pc = IF todo = {} THEN "else" ELSE "call"]
  /\ UNCHANGED <<others, crashed>>

\* The pointer is that of a route with the observers that are asked for; its destruction
\* ends with them.
Fits(w, o) == route[o].stage \in {"live", "dying"} /\ route[o].kind = TableKind(handler[w].kind)

Calling(w) == handler[w].pc \in {"call", "walk"}

\* Where a call is when it is done with o.
After(w, o) == IF handler[w].todo = {o} THEN "found" ELSE handler[w].pc

\* The observers of one route after the other.
Call(w) ==
  /\ Calling(w)
  /\ \E o \in handler[w].todo :
       /\ Fits(w, o)
       /\ handler' = [handler EXCEPT ![w].todo = @ \ {o}, ![w].called = @ \cup {o}, ![w].pc = After(w, o)]
  /\ UNCHANGED <<others, crashed>>

\* An observer throws: the others are not called.
Throw(w) ==
  /\ Calling(w)
  /\ \E o \in handler[w].todo :
       /\ Fits(w, o)
       /\ handler' = [handler EXCEPT ![w].called = @ \cup {o}, ![w].pc = "threw"]
  /\ UNCHANGED <<others, crashed>>

\* The pointer of a destroyed route, or of one of the other kind: nothing of the application,
\* or something that throws.
CallAstray(w) ==
  /\ Calling(w)
  /\ \E o \in handler[w].todo : \E pc \in {After(w, o), "threw"} :
       /\ ~Fits(w, o)
       /\ handler' = [handler EXCEPT ![w].todo = @ \ {o}, ![w].faults = @ \cup {"pointer"}, ![w].pc = pc]
  /\ UNCHANGED <<others, crashed>>

\* A walk through a sequence that was changed passes by one.
PassBy(w) ==
  /\ handler[w].pc = "walk" /\ "torn" \in handler[w].faults
  /\ \E o \in handler[w].todo :
       handler' = [handler EXCEPT ![w].todo = @ \ {o}, ![w].pc = After(w, o)]
  /\ UNCHANGED <<others, crashed>>

\* The program stops: at memory that is no longer that of the table, or of the route.
Crash(w) ==
  /\ \/ handler[w].pc \in {"copy", "walk"} /\ "torn" \in handler[w].faults
     \/ Calling(w) /\ \E o \in handler[w].todo : ~Fits(w, o)
  /\ crashed' = TRUE
  /\ UNCHANGED <<others, handler>>

\* Nothing found: the else routes for requests, of websockets too, from the table itself.
CallElse(w) ==
  /\ handler[w].pc = "else"
  /\ handler' = [handler EXCEPT ![w] =
       IF Else \notin DOMAIN requestRoutesObservers THEN [@ EXCEPT !.pc = "lost"]
       ELSE LET s == requestRoutesObservers[Else] IN
              [@ EXCEPT !.pc = IF s = <<>> THEN "found" ELSE "walk", !.todo = ToSet(s)]]
  /\ UNCHANGED <<others, crashed>>

\* The status of a request, unless the application has set one, and what becomes of a
\* websocket.
Result(kind, pc) ==
  IF kind = "request" THEN (CASE pc = "found" -> "ok" [] pc = "threw" -> "error" [] pc = "lost" -> "unset")
  ELSE IF kind = "connect" /\ pc \in {"threw", "lost"} THEN "disconnected" ELSE "none"

Finish(w) ==
  /\ handler[w].pc \in {"found", "threw", "lost"}
  /\ handler' = [handler EXCEPT ![w].pc = "done", ![w].result = Result(handler[w].kind, handler[w].pc)]
  /\ UNCHANGED <<others, crashed>>

Return(w) ==
  /\ handler[w].pc = "done"
  /\ handler' = [handler EXCEPT ![w] = Waiting]
  /\ UNCHANGED <<others, crashed>>

Maker(t) == Destroyed_Erase(t) \/ Destroyed_Crash(t) \/ \E o \in Routes : Destroyed_Find(t, o)

Handler(w) ==
  \/ \E k \in Kinds, m \in Methods, p \in Paths : Handle(w, k, m, p)
  \/ Copied(w) \/ Call(w) \/ Throw(w) \/ CallAstray(w) \/ PassBy(w) \/ Crash(w)
  \/ CallElse(w) \/ Finish(w) \/ Return(w)

Running ==
  \/ \E o \in Routes : Route(o) \/ RouteWebsocket(o)
  \/ \E t \in Makers : Maker(t)
  \/ \E w \in Handlers : Handler(w)

Next == (~crashed /\ Running) \/ (crashed /\ UNCHANGED vars)

Spec == Init /\ [][Next]_vars

-----------------------------------------------------------------------------
Ids == {Else} \cup {"WS"} \X Resources
IsTable(f) == DOMAIN f \subseteq Ids /\ \A id \in DOMAIN f : f[id] \in Seq(Routes)

TypeOK ==
  /\ IsTable(requestRoutesObservers) /\ IsTable(websocketRoutesObservers)
  /\ route \in [Routes -> [stage : {"unmade", "live", "dying", "dead"}, kind : {"request", "websocket"},
                           method : Methods \cup {"*"}, resource : Resources \cup {"*"}]]
  /\ maker \in [Makers -> [route : Routes \cup {None}, place : 0..Cardinality(Routes)]]
  /\ handler \in [Handlers -> [pc : {"idle", "copy", "call", "else", "walk", "found", "threw", "lost", "done"},
       kind : Kinds, id : {Else} \cup ({"WS"} \cup Methods) \X Paths, todo : SUBSET Routes,
       called : SUBSET Routes, due : SUBSET Routes,
       result : {"none", "ok", "error", "unset", "disconnected"}, faults : SUBSET {"torn", "pointer"}]]
  /\ overlapped \in BOOLEAN /\ crashed \in BOOLEAN

\* How often a route stands in the tables.
Entries(o) ==
  LET In(f) == {p \in (DOMAIN f) \X (1..Cardinality(Routes)) : p[2] <= Len(f[p[1]]) /\ f[p[1]][p[2]] = o}
  IN Cardinality(In(requestRoutesObservers)) + Cardinality(In(websocketRoutesObservers))

\* A live route stands in the tables once, whatever others are made and destroyed, unless a
\* sequence was changed between the find of a destruction and its erase.
LiveOnce == ~overlapped => \A o \in Routes : route[o].stage = "live" => Entries(o) = 1

\* A destroyed route is forgotten when it was made by routeElse: the id it is looked for with
\* is the one it was registered with then.  Every other one stays, its pointer dangling, one
\* of route("GET", "*") too; with the same exception.
OnlyElseForgotten ==
  ~overlapped => \A o \in Routes :
    route[o].stage = "dead" =>
      Entries(o) = IF route[o].kind = "request" /\ route[o].method = "*" /\ route[o].resource = "*" THEN 0 ELSE 1

\* A call goes astray only when a route was destroyed before, or a websocket without a route
\* met a route for all other requests.  The program stops only then, or when somebody read
\* what was changed.
OnlyThenAstray ==
  LET Destroyed == \E o \in Routes : route[o].stage = "dead"
      Met == Else \in DOMAIN requestRoutesObservers
  IN /\ \A w \in Handlers : "pointer" \in handler[w].faults => Destroyed \/ (Met /\ handler[w].kind # "request")
     /\ crashed => Destroyed \/ overlapped \/ \E w \in Handlers :
          "torn" \in handler[w].faults \/ (Met /\ handler[w].kind # "request")

\* A websocket is given to the routes of its path that were there when it came, all of them,
\* unless an observer throws, a pointer leads astray or a route is made while the table is
\* copied; with the same exception.
WebsocketReachesRoutes ==
  ~overlapped => \A w \in Handlers :
    handler[w].kind # "request" /\ handler[w].pc \in {"found", "lost"} /\ handler[w].faults = {} =>
      handler[w].due \subseteq handler[w].called

\* Who has no route, not even a destroyed one, is not told that all is well, and is no
\* websocket any longer, as long as no route for everything else was made.
UnroutedIsRefused ==
  \A w \in Handlers :
    /\ handler[w].pc = "done" /\ handler[w].called = {} /\ "pointer" \notin handler[w].faults
    /\ Else \notin DOMAIN requestRoutesObservers
    => handler[w].result \in
         (CASE handler[w].kind = "request" -> {"unset"}
            [] handler[w].kind = "connect" -> {"disconnected"}
            [] handler[w].kind \in {"data", "disconnect"} -> {"none"})

\* A request is given to the routes of its method and path.  The line that route had for
\* the id of a route says that it is made of the method and the resource.
RequestReachesRoutes ==
  \A w \in Handlers :
    handler[w].kind = "request" /\ handler[w].pc \in {"found", "lost"} /\ handler[w].faults = {} =>
      handler[w].due \subseteq handler[w].called
===============================================================================
