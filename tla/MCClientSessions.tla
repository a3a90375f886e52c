--------------------------- MODULE MCClientSessions ---------------------------
(* Small instances of ClientSessions: socket numbers and how much is sent.    *)
EXTENDS ClientSessions, TLC

CONSTANTS c1, k1

\* Every connection gets the socket number of the one before it.
OneSocket == [c \in Clients |-> k1]

\* How much each connection sends.
OneByte == [c \in Clients |-> 1]

\* The threads of the pool are interchangeable.
WorkerSymmetry == Permutations(Workers)
===============================================================================
