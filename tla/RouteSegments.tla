------------------------------ MODULE RouteSegments ------------------------------
(***************************************************************************)
(* What a route stands for, segment by segment: the meaning of a template, *)
(* of which RouteTemplate says how it is compared.                         *)
(***************************************************************************)
EXTENDS Text

Open == 91
Close == 93

\* Texts that are the same in small or capital letters.
SameText(s, t) == toUpper(s) = toUpper(t)

\* Pieces between slashes, and between the variables of a segment.
Segments(s) == tokens(s, Slash)
Literal(seg) == IF Find(seg, Open) = 0 THEN seg ELSE Before(seg, Find(seg, Open))
Variables(seg) == IF Find(seg, Open) = 0 THEN <<>> ELSE From(seg, Find(seg, Open))

\* Where the brackets of v, which starts with one, open and close: the end of one is where
\* the next begins.
Closed(v) ==
  LET closing == {i \in DOMAIN v : v[i] = Close /\ \E j \in 1..(i - 1) : v[j] = Open /\ \A k \in j..(i - 1) : v[k] # Close}
  IN /\ \A i \in closing : i < Len(v) => v[i + 1] = Open
     /\ v # <<>> => v[1] = Open /\ Len(v) \in closing

\* The names of the variables, the first of them first.
Names(v) ==
  LET variable(p) == /\ v[p[1]] = Open /\ v[p[2]] = Close /\ p[1] < p[2]
                     /\ p[1] = 1 \/ v[p[1] - 1] = Close
                     /\ \A k \in p[1]..(p[2] - 1) : v[k] # Close
  IN {SubSeq(v, p[1] + 1, p[2] - 1) : p \in {p \in (DOMAIN v) \X (DOMAIN v) : variable(p)}}

\* A segment of a route stands for one of a resource: the text before its variables is the
\* same in small or capital letters, and there is nothing after them.
Stands(t, r) ==
  /\ Closed(Variables(t))
  /\ IF Variables(t) = <<>> THEN SameText(t, r)
     ELSE Len(Literal(t)) <= Len(r) /\ SameText(Literal(t), SubSeq(r, 1, Len(Literal(t))))

Matches(t, r) ==
  /\ Len(Segments(t)) = Len(Segments(r))
  /\ \A i \in DOMAIN Segments(t) : Stands(Segments(t)[i], Segments(r)[i])

\* The names of all variables.
RouteNames(t) == UNION {Names(Variables(Segments(t)[i])) : i \in DOMAIN Segments(t)}

\* The i-th segment has one variable, whose name no other segment has.
Own(t, i) ==
  LET ts == Segments(t)
  IN /\ \A k, l \in DOMAIN ts[i] : ts[i][k] = Close /\ ts[i][l] = Close => k = l
     /\ \A j \in DOMAIN ts \ {i} : Names(Variables(ts[i])) \cap Names(Variables(ts[j])) = {}

\* The first variable of a segment has what the segment has after the text.
ValueOf(t, r) == From(r, Len(Literal(t)) + 1)

\* Names without slashes: a bracket is open nowhere at a slash.
Plain(t) == \A i \in DOMAIN t : t[i] = Slash =>
  \A j \in 1..(i - 1) : t[j] = Open => \E k \in (j + 1)..(i - 1) : t[k] = Close
==================================================================================
