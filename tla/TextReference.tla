----------------------------- MODULE TextReference -----------------------------
(***************************************************************************)
(* What callers count on of the functions on texts, for one text.          *)
(***************************************************************************)
EXTENDS Text

\* The pieces with c between them.
Rejoined(pieces, c) ==
  FlattenSeq([i \in DOMAIN pieces |-> IF i < Len(pieces) THEN Append(pieces[i], c) ELSE pieces[i]])

\* What is left of s without the characters of cs.
WithoutAll(s, cs) == FlattenSeq([i \in DOMAIN s |-> IF s[i] \in cs THEN <<>> ELSE <<s[i]>>])

\* The bytes come back from base64, as long as they were, in four characters for three bytes:
\* base64_encode makes ETags, accept keys and session ids.
Base64Returns(text) ==
  /\ base64_encode(text) \in Seq(0..Pad)
  /\ base64_decode(base64_encode(text)) = text
  /\ Len(base64_encode(text)) = 4 * ((Len(text) + 2) \div 3)

\* split with a separator of one character, as the parser of requests and of cookies and the
\* router call it, loses nothing: the pieces have no separator and make the text again, but
\* for a separator at its end.
SplitLosesNothing(text, c) ==
  LET p == split(text, <<c>>) IN
    /\ \A i \in DOMAIN p : ~Contains(p[i], c)
    /\ text \in {Rejoined(p, c), Append(Rejoined(p, c), c)}

\* split with several separators may leave some of them in its pieces, but every other
\* character of the text stays, where it was.
SplitAnyKeepsText(text, c, d) ==
  WithoutAll(FlattenSeq(splitAny(text, <<<<c>>, <<d>>>>)), {c, d}) = WithoutAll(text, {c, d})

\* SysLink's split of a listing into lines keeps empty ones, the last one too.
TokensJoin(text, c) == Rejoined(tokens(text, c), c) = text

\* trim takes the spaces at both ends and nothing else: it is the only part of the text that
\* spaces alone surround and that starts and ends with something else.
TrimIsExact(text) ==
  LET t == trim(text) IN
    IF Inked(text) = {} THEN t = <<>>
    ELSE /\ t # <<>> /\ ~IsSpace(t[1]) /\ ~IsSpace(t[Len(t)])
         /\ \E i \in 0..Len(text) :
              /\ SubSeq(text, i + 1, i + Len(t)) = t
              /\ \A j \in 1..Len(text) : j \notin (i + 1)..(i + Len(t)) => IsSpace(text[j])

\* The directory and the name of a file make its path again.
PathReturns(text) ==
  IF Contains(text, Slash) THEN getDirectoryName(text) \o <<Slash>> \o getFileName(text) = text
                           ELSE getFileName(text) = text /\ getDirectoryName(text) = <<>>

\* Names that ls lists, with spaces and colons in them, are read back from its lines.
Line(name) == <<Colon, Colon, Space, 0, Space>> \o name \o <<NewLine>>
NamesReturn(names) == NamesListed(FlattenSeq([i \in DOMAIN names |-> Line(names[i])])) = names
===============================================================================
