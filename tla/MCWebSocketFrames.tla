--------------------------- MODULE MCWebSocketFrames ---------------------------
(* Small instances of WebSocketFrames: which frames the peer sends.            *)
EXTENDS WebSocketFrames

Frame(fin, masked, n) == [fin |-> fin, masked |-> masked, size |-> n]

\* Frames of every kind the reader tells apart.
AllFrames == {Frame(TRUE, TRUE, n) : n \in {0, 1, 2}} \cup {Frame(FALSE, TRUE, n) : n \in {0, 1}}
             \cup {Frame(TRUE, FALSE, 1), Frame(TRUE, TRUE, 126)}

LongFrames == {Frame(TRUE, TRUE, 126), Frame(TRUE, TRUE, 1)}
FragmentFrames == {Frame(fin, TRUE, n) : fin \in BOOLEAN, n \in {1, 2}}
EmptyFrames == {Frame(TRUE, TRUE, 0), Frame(TRUE, TRUE, 1)}
UnmaskedFrames == {Frame(TRUE, FALSE, 0), Frame(TRUE, TRUE, 1)}

\* What a mask or payload byte is to a reader out of step: a frame's first byte with or
\* without fin, and a second byte with the mask bit and a size or without the bit.
PlainFillers == {[hi |-> FALSE, lo |-> 0]}
AnyFillers == {[hi |-> TRUE, lo |-> 1], [hi |-> FALSE, lo |-> 126]}
===============================================================================
