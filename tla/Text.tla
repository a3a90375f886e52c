---------------------------------- MODULE Text ----------------------------------
(***************************************************************************)
(* StringUtils, and the functions on texts of SysLink.  A text is a        *)
(* sequence of bytes.                                                      *)
(***************************************************************************)
EXTENDS Integers, Sequences, FiniteSetsExt, SequencesExt

Byte == 0..255

\* string::find of a character from place i on, and of a text; 0 is npos.
FindFrom(s, c, i) ==
  LET at == {j \in i..Len(s) : s[j] = c} IN IF at = {} THEN 0 ELSE Min(at)
Find(s, c) == FindFrom(s, c, 1)
StandsAt(s, sep, i) == i + Len(sep) - 1 <= Len(s) /\ SubSeq(s, i, i + Len(sep) - 1) = sep
FindText(s, sep) ==
  LET at == {j \in 1..Len(s) : StandsAt(s, sep, j)} IN IF at = {} THEN 0 ELSE Min(at)

\* substr from place i on, and up to the character before place i.
From(s, i) == SubSeq(s, i, Len(s))
Before(s, i) == SubSeq(s, 1, i - 1)

-----------------------------------------------------------------------------
(* Pieces. *)

\* What is left after the last separator is a piece unless it is empty.
SplitRest(rest) == IF rest # <<>> THEN <<rest>> ELSE <<>>

\* StringUtils::split: after a piece one character is skipped, however long the separator.
split(str, sep) ==
  LET pieces[i \in 1..(Len(str) + 1)] ==
        LET rest == From(str, i)
            pos == FindText(rest, sep)
        IN IF pos = 0 THEN SplitRest(rest) ELSE <<Before(rest, pos)>> \o pieces[i + pos]
  IN pieces[1]

\* What is left after the separator d at place i.
Cut(src, i, d) == From(src, i + Len(d))

\* StringUtils::split with several separators.  At every place each of them is looked for,
\* at the start of what is left once one was found; the place then moves on all the same.
\* No more turns are needed than the source has characters: past the end nothing is found.
splitAny(source, seps) ==
  LET sep(k) == seps[((k - 1) % Len(seps)) + 1]
      tried[k \in 0..(Len(source) * Len(seps))] ==
        IF k = 0 THEN [left |-> source, pieces |-> <<>>, place |-> 1]
        ELSE LET s == tried[k - 1]
                 found == sep(k) # <<>> /\ StandsAt(s.left, sep(k), s.place)
             IN [left |-> IF found THEN Cut(s.left, s.place, sep(k)) ELSE s.left,
                 pieces |-> IF found THEN Append(s.pieces, Before(s.left, s.place)) ELSE s.pieces,
                 place |-> (IF found THEN 1 ELSE s.place) + (IF k % Len(seps) = 0 THEN 1 ELSE 0)]
      end == tried[Len(source) * Len(seps)]
  IN end.pieces \o SplitRest(end.left)

\* Faulty variant: an empty last piece is dropped, as StringUtils does.
LastTokenIfAny(text, start) == SplitRest(From(text, start))
LastToken(text, start) == <<From(text, start)>>

\* SysLink::split.
tokens(text, sep) ==
  LET f[start \in 1..(Len(text) + 1)] ==
        LET end == FindFrom(text, sep, start)
        IN IF end = 0 THEN LastToken(text, start)
           ELSE <<SubSeq(text, start, end - 1)>> \o f[end + 1]
  IN f[1]

-----------------------------------------------------------------------------
(* Letters and spaces. *)

toUpper(s) == [i \in DOMAIN s |-> IF s[i] \in 97..122 THEN s[i] - 32 ELSE s[i]]
toLower(s) == [i \in DOMAIN s |-> IF s[i] \in 65..90 THEN s[i] + 32 ELSE s[i]]

IsSpace(c) == c \in 9..13 \cup {32}
Inked(s) == {i \in DOMAIN s : ~IsSpace(s[i])}

rtrim(s) == IF Inked(s) = {} THEN <<>> ELSE SubSeq(s, 1, Max(Inked(s)))
ltrim(s) == IF Inked(s) = {} THEN <<>> ELSE From(s, Min(Inked(s)))
trim(s) == ltrim(rtrim(s))

-----------------------------------------------------------------------------
(* base64, with the numbers of the characters instead of the characters; Pad is '='. *)

Pad == 64

\* char_array_4 of three bytes.
Sextets(b) ==
  <<b[1] \div 4, (b[1] % 4) * 16 + b[2] \div 16, (b[2] % 16) * 4 + b[3] \div 64, b[3] % 64>>

\* char_array_3 of four numbers, each as wide as a byte.
Octets(q) ==
  <<(q[1] * 4 + (q[2] % 64) \div 16) % 256, ((q[2] % 16) * 16 + (q[3] % 64) \div 4) % 256,
    ((q[3] % 4) * 64 + q[4]) % 256>>

\* The n-th group of k of s, filled up with z.
Group(s, n, k, z) == [j \in 1..k |-> IF (n - 1) * k + j <= Len(s) THEN s[(n - 1) * k + j] ELSE z]
Groups(s, k) == (Len(s) + k - 1) \div k
GroupSize(s, n, k) == Min({k, Len(s) - (n - 1) * k})

\* How many numbers stand for i bytes.
Chars(i) == i + 1

base64_encode(buf) ==
  FlattenSeq([n \in 1..Groups(buf, 3) |->
    LET i == GroupSize(buf, n, 3)
        q == Sextets(Group(buf, n, 3, 0))
    IN [j \in 1..4 |-> IF j <= Chars(i) THEN q[j] ELSE Pad]])

\* What is found in base64_chars for the zeros that fill up the last group: npos as a byte.
NotFound == 255

base64_decode(encoded) ==
  LET pad == Find(encoded, Pad)
      s == IF pad = 0 THEN encoded ELSE Before(encoded, pad)
  IN FlattenSeq([n \in 1..Groups(s, 4) |->
       SubSeq(Octets(Group(s, n, 4, NotFound)), 1, GroupSize(s, n, 4) - 1)])

-----------------------------------------------------------------------------
(* Names of files and directories. *)

Slash == 47
Colon == 58
Space == 32
NewLine == 10

LastSlash(path) == Max({0} \cup {i \in DOMAIN path : path[i] = Slash})

getFileName(path) == From(path, LastSlash(path) + 1)
getDirectoryName(path) == IF LastSlash(path) = 0 THEN <<>> ELSE Before(path, LastSlash(path))

\* The text after the first c; none when there is no c.
After(s, c) == IF Find(s, c) = 0 THEN {} ELSE {From(s, Find(s, c) + 1)}

\* A line of ls has its name after the first colon, the end of the time and the time zone.
NameIn(line) ==
  UNION {UNION {After(zone, Space) : zone \in After(time, Space)} : time \in After(line, Colon)}

\* The end of getObjectsFromDirectory: one line alone is no listing.
NamesListed(text) ==
  LET lines == tokens(text, NewLine)
      named(l) == IF NameIn(l) = {} THEN <<>> ELSE <<CHOOSE x \in NameIn(l) : TRUE>>
  IN IF Len(lines) <= 1 THEN <<>> ELSE FlattenSeq([i \in DOMAIN lines |-> named(lines[i])])
===============================================================================
