----------------------------- MODULE MCManyClients -----------------------------
(***************************************************************************)
(* Connections one after the other with the same socket number, at the     *)
(* same time with a number each, and one that sends enough for a late task *)
(* to meet the third session.  Which of them are made is chosen at the     *)
(* start of a behaviour.                                                   *)
(***************************************************************************)
EXTENDS MCClientSessions

CONSTANTS c2, c3, c4, c5, k2, k3, k4, Parts

VARIABLE part

\* c1 and c2 have the same socket number.
ManySockets == (c1 :> k1) @@ (c2 :> k1) @@ (c3 :> k2) @@ (c4 :> k3) @@ (c5 :> k4)

ManyBytes == (c1 :> 2) @@ (c2 :> 1) @@ (c3 :> 1) @@ (c4 :> 1) @@ (c5 :> 4)

ManyInit == part \in Parts /\ Init

\* Every connection of the part was handled to its end.
ManyFinished ==
  /\ \A c \in part : At(c, "gone")
  /\ \A w \in Workers : At(w, "idle")
  /\ tasks = <<>>

\* The other clients never connect.
ManyNext ==
  /\ \/ Next /\ \A c \in Clients \ part : conn'[c] = "new"
     \/ ManyFinished /\ UNCHANGED vars
  /\ UNCHANGED part

ManySpec == ManyInit /\ [][ManyNext]_<<part, vars>>
===============================================================================
