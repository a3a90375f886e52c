----------------------------- MODULE MessageStream -----------------------------
(* What a reader of websocket frames promises to its application: the messages *)
(* of the peer, whole, once and in the order they were sent.                   *)
EXTENDS Naturals, Sequences

VARIABLES
  sent,       \* the messages the peer has completed
  delivered   \* the messages the application was given

Init == sent = <<>> /\ delivered = <<>>

Send ==
  /\ sent' # <<>>
  /\ sent = SubSeq(sent', 1, Len(sent') - 1)
  /\ UNCHANGED delivered

Deliver ==
  /\ Len(delivered) < Len(sent)
  /\ delivered' = Append(delivered, sent[Len(delivered) + 1])
  /\ UNCHANGED sent

Next == Send \/ Deliver

Spec == Init /\ [][Next]_<<sent, delivered>>
===============================================================================
