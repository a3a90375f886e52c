--------------------------- MODULE RequestResponse ---------------------------
(* What a connection promises to an HTTP client: every answer is for the first *)
(* request that has none, until the connection is over.                        *)
EXTENDS Naturals, Sequences

VARIABLES
  asked,     \* the number of requests the client has sent
  answers,   \* for which request each answer was
  open       \* the connection is open

Init == asked = 0 /\ answers = <<>> /\ open = TRUE

Ask == open /\ asked' = asked + 1 /\ UNCHANGED <<answers, open>>

Answer ==
  /\ Len(answers) < asked
  /\ answers' = Append(answers, Len(answers) + 1)
  /\ UNCHANGED <<asked, open>>

Close == open /\ open' = FALSE /\ UNCHANGED <<asked, answers>>

Next == Ask \/ Answer \/ Close

Spec == Init /\ [][Next]_<<asked, answers, open>>
===============================================================================
