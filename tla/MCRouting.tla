------------------------------- MODULE MCRouting -------------------------------
(***************************************************************************)
(* Small instances of the parts of KWWebServerRouter, which do not share   *)
(* any state: a behaviour is one of the part that was chosen at its start, *)
(* and the others stay as they are.                                        *)
(***************************************************************************)
EXTENDS Observable, Text, TLC

CONSTANTS Parts

VARIABLE part

\* The table of routes.
CONSTANTS Routes, Makers, Handlers, Methods, Resources, Paths
VARIABLES requestRoutesObservers, websocketRoutesObservers, route, maker, handler, overlapped, routerCrashed

\* A resource without variables, and one that stands for two paths.
Covers == [r \in Resources |-> IF r = "/a" THEN {"/a"} ELSE {"/a", "/b"}]

Router == INSTANCE Router WITH crashed <- routerCrashed
ASSUME RouterConstants == Router!RouterAssumption

\* Templates: all texts up to a length that start with a slash, and some longer ones.
CONSTANTS TemplateLetters, ResourceLetters, TemplateLength, ResourceLength
VARIABLES template, resource, routeTemplate, receivedResource, values, step

Texts(letters, n) == {<<Slash>> \o s : s \in UNION {[1..k -> letters] : k \in 0..(n - 1)}}
Templates ==
  Texts(TemplateLetters, TemplateLength)
    \cup {<<Slash, 91, 97, 93, Slash, 91, 98, 93>>, <<Slash, 97, 91, 97, 93, Slash, 98>>}
Requested == Texts(ResourceLetters, ResourceLength)

Template == INSTANCE RouteTemplate WITH Resources <- Requested, vars <- values, pc <- step
ASSUME TemplateConstants ==
  /\ TemplateLetters \subseteq Byte /\ ResourceLetters \subseteq Byte
  /\ TemplateLength \in Nat /\ ResourceLength \in Nat

\* The websockets that are connected.
CONSTANTS Clients, Senders, MaxSends
VARIABLES connectedWebsockets, joining, leaving, sender, sends, late, raced, torn, crashed

Sockets == INSTANCE ConnectedSockets
ASSUME SocketsConstants == Sockets!SocketsAssumption

-----------------------------------------------------------------------------
routerVars == <<requestRoutesObservers, websocketRoutesObservers, route, maker, handler, overlapped, routerCrashed>>
templateVars == <<template, resource, routeTemplate, receivedResource, values, step>>
socketVars == <<connectedWebsockets, joining, leaving, sender, sends, late, raced, torn, crashed>>
allVars == <<part, vars, routerVars, templateVars, socketVars>>

\* Routes are interchangeable, and so are clients.
RoutingSymmetry == Permutations(Routes) \cup Permutations(Clients)

AllInit ==
  /\ part \in Parts
  /\ Init /\ Router!Init /\ Sockets!Init
  /\ part = "template" \/ (template = <<Slash>> /\ resource = <<Slash>>)
  /\ Template!Init

AllNext ==
  /\ UNCHANGED part
  /\ \/ part = "observable" /\ Next /\ UNCHANGED <<routerVars, templateVars, socketVars>>
     \/ part = "router" /\ Router!Next /\ UNCHANGED <<vars, templateVars, socketVars>>
     \/ part = "template" /\ Template!Next /\ UNCHANGED <<vars, routerVars, socketVars>>
     \/ part = "sockets" /\ Sockets!Next /\ UNCHANGED <<vars, routerVars, templateVars>>

AllSpec == AllInit /\ [][AllNext]_allVars

-----------------------------------------------------------------------------
\* Types of all parts.
PartsTypeOK == TypeOK /\ Router!TypeOK /\ Template!TypeOK /\ Sockets!TypeOK

\* The tables have every live route once, and of the destroyed ones exactly those that are
\* looked for under another id than they were registered with.  A pointer leads astray only
\* then, or when a websocket meets a route for all other requests.  Websockets are given to
\* all their routes, and who has no route is refused.
RoutesKept ==
  /\ Router!LiveOnce /\ Router!OnlyElseForgotten /\ Router!OnlyThenAstray
  /\ Router!WebsocketReachesRoutes /\ Router!UnroutedIsRefused

\* A template is compared, and its variables get their values, as its segments say.
BySegments == Template!CompatibleBySegments /\ Template!VariablesBySegments

\* The list of websockets is that of the connected ones, and sendToAll reaches them unless the
\* list was changed while it was copied; only then does the program stop.
SocketsReached == Sockets!ListedWhileConnected /\ Sockets!SentToAll /\ Sockets!StopsOnlyTorn

\* A request is given to the routes of its method and path.
RequestReachesRoutes == Router!RequestReachesRoutes
===============================================================================
