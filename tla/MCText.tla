-------------------------------- MODULE MCText --------------------------------
(* Every text over Alphabet up to MaxLength, built character by character.    *)
EXTENDS Integers, Sequences

CONSTANTS Alphabet, MaxLength

VARIABLE text

Init == text = <<>>
Type(c) == Len(text) < MaxLength /\ text' = Append(text, c)
Full == Len(text) = MaxLength /\ UNCHANGED text
Next == Full \/ \E c \in Alphabet : Type(c)
Spec == Init /\ [][Next]_text

-----------------------------------------------------------------------------
TypeOK == text \in Seq(Alphabet) /\ Len(text) <= MaxLength
===============================================================================
