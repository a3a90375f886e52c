------------------------------ MODULE RouteTemplate ------------------------------
(***************************************************************************)
(* What the router does with one route and one request: routeIsCompatible, *)
(* a call of which finds one variable, and, when the route is for the      *)
(* request, extractUrlVars.  Templates and resources are sequences of      *)
(* bytes; the method in front of both is left out.                         *)
(***************************************************************************)
EXTENDS RouteSegments

CONSTANTS
  Templates,   \* routes
  Resources    \* resources of requests

Question == 63
Equals == 61

VARIABLES
  template, resource,               \* the route and the request
  routeTemplate, receivedResource,  \* what is left of them
  vars,                             \* the values of variables by name
  pc

args == <<template, resource>>
rest == <<routeTemplate, receivedResource>>
all == <<args, rest, vars, pc>>

NoVars == [n \in {} |-> <<>>]

Init ==
  /\ template \in Templates /\ resource \in Resources
  /\ routeTemplate = template /\ receivedResource = resource
  /\ vars = NoVars /\ pc = "compare"

\* The part of s before its place i, or as much of it as there is.
Start(s, i) == SubSeq(s, 1, Min({i - 1, Len(s)}))

\* The value at the start of what was received.
Value(s) == IF Find(s, Slash) = 0 THEN s ELSE Before(s, Find(s, Slash))

\* The variables after those of these names got a value.
SetVars(names, x) == [n \in DOMAIN vars \cup names |-> IF n \in names THEN x ELSE vars[n]]

\* No variable is left.
routeIsCompatible_Text ==
  /\ pc = "compare" /\ Find(routeTemplate, Open) = 0
  /\ pc' = IF SameText(routeTemplate, receivedResource) THEN "compatible" ELSE "other"
  /\ UNCHANGED <<args, rest, vars>>

\* The text before the variable differs, or the variable has no end.
routeIsCompatible_Other ==
  /\ pc = "compare" /\ Find(routeTemplate, Open) # 0
  /\ LET index == Find(routeTemplate, Open) IN
       \/ ~SameText(Before(routeTemplate, index), Start(receivedResource, index))
       \/ Find(From(routeTemplate, index + 1), Close) = 0
  /\ pc' = "other"
  /\ UNCHANGED <<args, rest, vars>>

\* Faulty variant: the slash after the value is taken too.
AfterValueAndSlash(received) == From(received, Len(Value(received)) + 2)

\* What is left of the resource after a variable.
AfterValue(received) == From(received, Len(Value(received)) + 1)

\* What is left of the template after a variable.
AfterName(inside, end) == From(inside, end + 1)

routeIsCompatible_Variable ==
  /\ pc = "compare" /\ Find(routeTemplate, Open) # 0
  /\ LET index == Find(routeTemplate, Open)
         inside == From(routeTemplate, index + 1)
         received == From(receivedResource, index)
         end == Find(inside, Close)
     IN /\ SameText(Before(routeTemplate, index), Start(receivedResource, index))
        /\ end # 0
        /\ vars' = SetVars({Before(inside, end)}, Value(received))
        /\ routeTemplate' = AfterName(inside, end)
        /\ receivedResource' = AfterValue(received)
  /\ UNCHANGED <<args, pc>>

\* The part of the url that has the variables.
Query(url) == From(url, Find(url, Question) + 1)

\* Split at "=", no piece has a "=": each of them is the name of an empty variable.
extractUrlVars ==
  /\ pc = "compatible"
  /\ LET names == IF Find(resource, Question) = 0 THEN {}
                  ELSE ToSet(split(Query(resource), <<Equals>>)) \ {<<>>}
     IN vars' = SetVars(names, <<>>)
  /\ pc' = "found"
  /\ UNCHANGED <<args, rest>>

Done == pc \in {"other", "found"} /\ UNCHANGED all

Next ==
  \/ routeIsCompatible_Text \/ routeIsCompatible_Other \/ routeIsCompatible_Variable
  \/ extractUrlVars \/ Done

Spec == Init /\ [][Next]_all

-----------------------------------------------------------------------------
TypeOK ==
  /\ args \in Templates \X Resources
  /\ IsSuffix(routeTemplate, template) /\ IsSuffix(receivedResource, resource)
  /\ \A n \in DOMAIN vars : n \in Seq(Byte) /\ vars[n] \in Seq(Byte)
  /\ pc \in {"compare", "compatible", "other", "found"}

\* A route is for the requests whose segments it stands for, one by one; what is found with
\* find and substr on the whole texts is what the segments say, for all templates whose
\* variables do not have a slash in their names, also such as have no end.
CompatibleBySegments ==
  Plain(template) =>
    (pc = "other" => ~Matches(template, resource)) /\ (pc = "found" => Matches(template, resource))

\* The names that the url has after "?" look like this one.
InUrl(n) ==
  \E i, j \in DOMAIN resource :
    resource[i] = Question /\ i < j /\ SubSeq(resource, j, j + Len(n) - 1) = n

\* A variable with a name of its own gets the text that its segment has in the resource, in
\* the letters of the request, and loses it only to a variable of the url of that name.
VariablesBySegments ==
  pc \in {"compatible", "found"} /\ Plain(template) =>
    LET ts == Segments(template)
        rs == Segments(resource)
    IN /\ IF pc = "found" THEN RouteNames(template) \subseteq DOMAIN vars
                          ELSE DOMAIN vars = RouteNames(template)
       /\ \A i \in DOMAIN ts : Own(template, i) =>
            \A n \in Names(Variables(ts[i])) :
              vars[n] = ValueOf(ts[i], rs[i]) \/ (pc = "found" /\ InUrl(n))
===============================================================================
