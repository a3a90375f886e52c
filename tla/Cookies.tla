--------------------------------- MODULE Cookies ---------------------------------
(***************************************************************************)
(* Cookies on their way: from the browser's header into the request        *)
(* (CookieParser::load), from the request into the response                *)
(* (dataReceivedFrom), changed there by the application, and as Set-Cookie *)
(* headers back to the browser (CookieParser::unload), which keeps them.   *)
(*                                                                         *)
(* A name is a text in the letters it was written in, or in small ones:    *)
(* [text, small]; a value may also have been cut at its first colon, for   *)
(* the header was split there: [text, small, cut].  Spaces around them are *)
(* trimmed and are left out.                                               *)
(***************************************************************************)
EXTENDS Naturals, FiniteSets

CONSTANTS
  Texts,       \* names
  Values,      \* values the application sets, each once
  Attributes,  \* subset of Max-Age, Secure, HttpOnly
  Colons,      \* the names and values with a colon in them
  MaxRequests  \* bound

CookiesAssumption == MaxRequests \in Nat

VARIABLES
  jar,       \* the browser's cookies: name -> [value, attributes]
  received,  \* receivedData->cookies
  toSend,    \* dataToSend->cookies
  pc,
  requests,
  used,      \* history: values that were set
  last,      \* history: last[n]: the value of name n that the application last gave the browser
  fresh      \* history: the names that the application set for this response

vars == <<jar, received, toSend, pc, requests, used, last, fresh>>

Nothing == [n \in {} |-> 0]

Init ==
  /\ jar = Nothing /\ received = Nothing /\ toSend = Nothing
  /\ pc = "idle" /\ requests = 0 /\ used = {} /\ last = Nothing /\ fresh = {}

\* f with e at n.
Put(f, n, e) == [m \in DOMAIN f \cup {n} |-> IF m = n THEN e ELSE f[m]]

Small(t) == [t EXCEPT !.small = TRUE]
SameName(n, m) == n.text = m.text

LoadName(n) == Small(n)

Cut(v) == IF v.text \in Colons THEN [v EXCEPT !.cut = TRUE] ELSE v
HasColon(n) == n.text \in Colons \/ Cut(jar[n].value) # jar[n].value

\* What is read of a header with some cookies in front of the first one with a colon, of which
\* what comes before the colon is read, and nothing of those behind it.  Of all that become one,
\* the last one decides.
Loads(front, first) ==
  LET known == front \cup {n \in first : n.text \notin Colons}
      Read(n) == Small(Cut(jar[n].value))
  IN {f \in [{LoadName(n) : n \in known} -> [value : {Read(n) : n \in known}, attributes : {{}}]] :
        \A m \in DOMAIN f : \E n \in known :
          LoadName(n) = m /\ f[m].value = Read(n) /\ \A k \in first \cap known : LoadName(k) = m => n = k}

\* The browser decides on the order.
Load ==
  LET colons == {n \in DOMAIN jar : HasColon(n)} IN
    IF colons = {} THEN Loads(DOMAIN jar, {})
    ELSE UNION {Loads(front, {n}) : front \in SUBSET (DOMAIN jar \ colons), n \in colons}

\* The cookies of the request in a response that has none yet.
Copy(cookies) == cookies

Request ==
  /\ pc = "idle" /\ requests < MaxRequests
  /\ requests' = requests + 1
  /\ received' \in Load
  /\ toSend' = Copy(received')
  /\ fresh' = {} /\ pc' = "app"
  /\ UNCHANGED <<jar, used, last>>

\* cookies[name] = new HttpCookie(name, value).
SetCookie(n, v, attributes) ==
  /\ pc = "app" /\ v \notin used
  /\ toSend' = Put(toSend, n, [value |-> [text |-> v, small |-> FALSE, cut |-> FALSE], attributes |-> attributes])
  /\ used' = used \cup {v} /\ fresh' = fresh \cup {n}
  /\ UNCHANGED <<jar, received, pc, requests, last>>

Unload(cookies) == cookies

\* The browser gets the response, or does not.
Respond ==
  /\ pc = "app" /\ pc' = "idle"
  /\ LET sent == Unload(toSend) IN
       \/ /\ jar' = [n \in DOMAIN jar \cup DOMAIN sent |-> IF n \in DOMAIN sent THEN sent[n] ELSE jar[n]]
          /\ last' = [n \in DOMAIN last \cup fresh |-> IF n \in fresh THEN toSend[n].value ELSE last[n]]
       \/ UNCHANGED <<jar, last>>
  /\ received' = Nothing /\ toSend' = Nothing
  /\ UNCHANGED <<requests, used, fresh>>

Over == pc = "idle" /\ requests = MaxRequests /\ UNCHANGED vars

Names == [text : Texts, small : BOOLEAN]

Next ==
  \/ Request \/ Respond \/ Over
  \/ \E n \in Names, v \in Values, a \in SUBSET Attributes : SetCookie(n, v, a)

Spec == Init /\ [][Next]_vars

-----------------------------------------------------------------------------
Value == [text : Values, small : BOOLEAN, cut : BOOLEAN]
IsCookies(f) == DOMAIN f \subseteq Names /\ \A n \in DOMAIN f : f[n] \in [value : Value, attributes : SUBSET Attributes]

TypeOK ==
  /\ IsCookies(jar) /\ IsCookies(received) /\ IsCookies(toSend)
  /\ \A n \in DOMAIN received : n.small
  /\ pc \in {"idle", "app"} /\ requests \in 0..MaxRequests /\ used \subseteq Values
  /\ DOMAIN last \subseteq Names /\ fresh \subseteq Names

\* The browser has had the name n in other letters too.
Twin(n) == \E m \in DOMAIN jar : m # n /\ SameName(m, n)

\* A cookie whose name is in small letters comes back with the value the application gave it
\* last, in small letters and as far as its first colon, for as many requests as follow, unless
\* the application uses the name in other letters as well; it is missing only when there is a
\* colon in its name or in another cookie of the browser.
LastValueReturns ==
  pc = "app" => \A n \in DOMAIN last : n.small /\ ~Twin(n) =>
    IF n \in DOMAIN received
      THEN received[n].value = Small(Cut(last[n]))
      ELSE n.text \in Colons \/ \E m \in DOMAIN jar \ {n} : HasColon(m)
===============================================================================
