-------------------------- MODULE MCArchiveExtract --------------------------
(***************************************************************************)
(* A few archives of every format, nested in each other; all tar streams   *)
(* of four blocks, with and without a part of a fifth; and a zip with a    *)
(* file in it, with up to two fields of its records changed.               *)
(***************************************************************************)
EXTENDS ArchiveExtract

\* Blobs are numbers, and the letters of a blob too, those of names apart.
Filler == 900
NameLetter == 901
SlashLetter == 902
BadLetter == 903
Abc == <<904, 905, 906>>

L(n) == [is |-> "letter", letter |-> n]

\* The bytes of what is no zip: no two blobs share any.
Raw(b, n) == [i \in 1 .. n |-> L(b)]

\* Files: 1 is empty, 2 has a byte, 3 has three.  Archives from 4 on.
\* 4: a tar with a file.  5: packed, sound; 6: corrupt; 7: over the ratio.
\* 8: a zip with a file, a directory and a tar.  9: a size that is not declared;
\* 10: a method that is unknown; 11: no end record.  12: lz4.  13: a tar with a tar,
\* a directory, a packed tar and a zip.  14: a zip that holds it and a file, with a
\* comment.  15: a zip with too many files.  16: a zip with too many bytes.  17: a zip
\* with a corrupt entry.  18: a tar with too many entries.  19: a zip beyond the
\* budget.  20: packed, but no tar.  21: a zip without members.  22: a comment that is
\* too long.  23: a zip with more entries than one may have.
\* 24: 4 deflated; 25: 13 deflated; 26: a corrupt stream.
Named == 1 .. 26

Tars == 100 .. 100 + 2 * 6 ^ 4 - 1

-----------------------------------------------------------------------------

N == <<L(NameLetter)>>
Folder == <<L(NameLetter), L(SlashLetter)>>

\* A member that is called n, is kept as the bytes p, and declares the size size.
M(n, method, p, size) == [name |-> n, method |-> method, bytes |-> p, size |-> size]

Stored(b, n) == M(N, "stored", Raw(b, n), n)
Deflated(p, n, size) == M(N, "deflated", Raw(p, n), size)

IsFolder(m) == m.name = Folder

LocalOf(m) ==
    IF IsFolder(m) THEN <<>>
    ELSE <<[is |-> "local", name |-> Len(m.name), extra |-> 0], L(Filler)>> \o m.name \o m.bytes

\* One byte of extra field and one of comment.
CentralOf(m, at) ==
    <<[is |-> "central", name |-> Len(m.name), extra |-> 1, comment |-> 1,
       method |-> m.method, stored |-> Len(m.bytes), size |-> m.size, local |-> at],
      L(Filler)>> \o m.name \o <<L(Filler), L(Filler)>>

\* One more member behind those that z holds.
With(z, m) ==
    [locals |-> z.locals \o LocalOf(m),
     centrals |-> z.centrals \o CentralOf(m, Len(z.locals))]

Zipped(ms, comment) ==
    LET z == FoldLeft(With, [locals |-> <<>>, centrals |-> <<>>], ms)
    IN  z.locals \o z.centrals
            \o <<[is |-> "end", count |-> Len(ms), start |-> Len(z.locals)], L(Filler)>>
            \o [i \in 1 .. comment |-> L(Filler)]

NamedZips == {8, 9, 10, 14, 15, 16, 17, 19, 21, 22, 23}

MembersOf(b) ==
    CASE b = 8  -> <<Stored(2, 1), M(Folder, "stored", <<>>, 0), Deflated(24, 2, 8)>>
      [] b = 9  -> <<Stored(2, 1), Deflated(24, 2, 3)>>
      [] b = 10 -> <<M(N, "other", Raw(2, 1), 1)>>
      [] b = 14 -> <<Deflated(25, 13, 50), Stored(3, 3)>>
      [] b = 15 -> [i \in 1 .. 7 |-> IF i = 2 THEN Stored(2, 1) ELSE Stored(1, 0)]
      [] b = 16 -> [i \in 1 .. 2 |-> Deflated(25, 13, 50)]
      [] b = 17 -> <<Deflated(26, 1, 1)>>
      [] b = 19 -> [i \in 1 .. 4 |-> Deflated(25, 13, 50)]
      [] b = 21 -> <<>>
      [] b = 22 -> <<Stored(2, 1)>>
      [] b = 23 -> [i \in 1 .. 8 |-> Stored(1, 0)]

CommentOf(b) ==
    CASE b = 14 -> 1
      [] b = 22 -> 4
      [] OTHER  -> 0

NamedBytes(b) == Zipped(MembersOf(b), CommentOf(b))

-----------------------------------------------------------------------------

\* The zip whose fields are changed: a local header, a name, a payload of two bytes
\* and a byte of slack, a directory of one header, the end record.
Sound ==
    [lname |-> 1, lextra |-> 0, ltext |-> NameLetter,
     name |-> 1, text |-> NameLetter, extra |-> 0, comment |-> 0,
     method |-> "stored", stored |-> 2, size |-> 2, local |-> 0,
     count |-> 1, start |-> 6]

Changes ==
    << <<"lname", 1>>, <<"lname", 0>>, <<"lname", 11>>, <<"lextra", 1>>, <<"lextra", 11>>,
       <<"ltext", SlashLetter>>, <<"name", 0>>, <<"name", 5>>, <<"text", SlashLetter>>,
       <<"text", BadLetter>>, <<"extra", 2>>, <<"comment", 11>>, <<"method", "deflated">>,
       <<"method", "other">>, <<"stored", 0>>, <<"stored", 1>>, <<"stored", 3>>,
       <<"stored", 8>>, <<"stored", 9>>, <<"stored", 51>>, <<"stored", 99>>, <<"size", 3>>,
       <<"size", 99>>, <<"size", 8>>, <<"local", 6>>, <<"local", 10>>, <<"local", 11>>,
       <<"local", 99>>, <<"count", 0>>, <<"count", 2>>, <<"count", 9>>, <<"start", 5>>,
       <<"start", 10>>, <<"start", 99>> >>

K == Len(Changes)

Pairs == 3000 .. 3000 + K * K - 1

First(z) == Changes[(z - 3000) \div K + 1]
Second(z) == Changes[((z - 3000) % K) + 1]

\* One pair for every change and for every two that differ in their fields: the first
\* of the changes leaves the field as it is.
Zips == { z \in Pairs :
            LET i == (z - 3000) \div K
                j == (z - 3000) % K
            IN  i = j \/ (0 < i /\ i < j /\ First(z)[1] # Second(z)[1]) }

ChangedFields(z) ==
    [[Sound EXCEPT ![First(z)[1]] = First(z)[2]] EXCEPT ![Second(z)[1]] = Second(z)[2]]

Fields(f) ==
    <<[is |-> "local", name |-> f.lname, extra |-> f.lextra], L(Filler), L(f.ltext),
      L(Abc[1]), L(Abc[2]), L(Abc[3]),
      [is |-> "central", name |-> f.name, extra |-> f.extra, comment |-> f.comment,
       method |-> f.method, stored |-> f.stored, size |-> f.size, local |-> f.local],
      L(Filler), L(f.text),
      [is |-> "end", count |-> f.count, start |-> f.start], L(Filler)>>

\* What can be cut out of it as a payload; the last goes to the end of the data.
LettersCut ==
    << <<904, 905>>, <<904>>, <<905>>, <<905, 906>>, <<901, 904>>, <<901>>,
       <<904, 905, 906>>, <<901, 904, 905>>, <<902, 904>>, <<902>>, <<902, 904, 905>> >>

Cut(i) ==
    IF i <= Len(LettersCut)
    THEN [j \in DOMAIN LettersCut[i] |-> L(LettersCut[i][j])]
    ELSE SubSeq(Fields([Sound EXCEPT !.stored = 8, !.size = 8]), 4, 11)

Slices == 50 .. 50 + Len(LettersCut)

-----------------------------------------------------------------------------

Blobs == Named \cup Tars \cup Zips \cup Slices

PlainSize(b) ==
    CASE b \in 1 .. 3 -> <<0, 1, 3>>[b]
      [] b = 4        -> 8
      [] b \in {5, 24} -> 2
      [] b = 13       -> 50
      [] b = 18       -> 20
      [] b = 25       -> 13
      [] b \in Tars   -> IF b < 100 + 6 ^ 4 THEN 8 ELSE 9
      [] OTHER        -> 1

BytesAt(b) ==
    CASE b \in NamedZips -> NamedBytes(b)
      [] b \in Pairs           -> Fields(ChangedFields(b))
      [] b \in Slices          -> Cut(b - 49)
      [] b = 11                -> <<[is |-> "local", name |-> 0, extra |-> 0]>>
      [] OTHER                 -> Raw(b, PlainSize(b))

Contained == [b \in Blobs |-> BytesAt(b)]

Sizes == [b \in Blobs |-> Len(BytesAt(b))]

Letters == Named \cup Tars \cup 900 .. 906

Refused == {<<L(BadLetter)>>}

-----------------------------------------------------------------------------

Zero == [is |-> "zero"]
Bad  == [is |-> "bad"]
File(b, n) == [is |-> "header", regular |-> TRUE, size |-> n, payload |-> b]
Dir  == [is |-> "header", regular |-> FALSE, size |-> 0, payload |-> 1]

Digit(n, i) == (n \div 6 ^ i) % 6

Alphabet == <<Zero, Bad, Dir, File(1, 0), File(2, 1), File(3, 3)>>

FourBlocks == <<File(2, 1), Bad, Zero, Zero>>

BlocksOf == [b \in Blobs |->
    CASE b = 4      -> FourBlocks
      [] b = 13     -> <<File(4, 8)>> \o FourBlocks \o <<Dir, File(5, 2), Zero, File(8, 27)>>
                           \o [i \in 1 .. 14 |-> Bad] \o <<Zero, Zero>>
      [] b = 18     -> [i \in 1 .. 8 |-> Dir] \o <<Zero, Zero>>
      [] b \in Tars -> [i \in 1 .. 4 |-> Alphabet[Digit(b - 100, i - 1) + 1]]
      [] OTHER      -> [i \in 1 .. Len(BytesAt(b)) \div 2 |-> Bad]]

Formatted == [b \in Blobs |->
    CASE b \in {4, 13, 18} \cup Tars                    -> "tar"
      [] b \in 5 .. 7 \cup {20}                         -> "packed"
      [] b \in NamedZips \cup Pairs \cup {11}           -> "zip"
      [] b = 12                                         -> "unsupported"
      [] OTHER                                          -> "unknown"]

\* The two bytes of a slice are what 3 deflates to.
Inside == [b \in Blobs |->
    CASE b \in {5, 7, 24} -> {4}
      [] b = 25           -> {13}
      [] b \in {20, 50}   -> {3}
      [] OTHER            -> {}]

\* Aliases for the configurations, so that TLC computes each table once.
RunBytes == Contained
RunSize == Sizes
RunBlocks == BlocksOf
RunFormat == Formatted
RunInner == Inside
RunBlob == Blobs

Roots == (4 .. 23) \cup Tars \cup Zips

RunRoot == Roots
=============================================================================
