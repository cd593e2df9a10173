------------------------ MODULE ArchiveExtractProofs ------------------------
(***************************************************************************)
(* Theorems about the extraction of archives, for every set of blobs,      *)
(* whatever they hold, and every value of the limits.                      *)
(***************************************************************************)
EXTENDS ArchiveExtract, SequenceTheorems, WellFoundedInduction, TLAPS

\* The iterator is finished once it has answered so.
Fused == answer.is \in {"none", "error"} => finished

\* A caller that iterates does nothing else, and a result is there at the end only.
Control ==
    /\ caller = "iterates" => phase = "iterate"
    /\ phase = "done" <=> result # "none"

Small(s) == \A i \in DOMAIN s : Size[s[i]] <= MaxEntryBytes

\* What has been taken out of a tar is no larger than an entry may be.
TarEntriesSmall ==
    /\ answer.is = "entry" => Size[answer.payload] <= MaxEntryBytes
    /\ phase = "tar" => Small(layer)
    /\ phase = "charge" => Small(left)

\* Nor is what a zip has stored as it is.
ZipEntriesSmall ==
    phase \in {"directory", "unzip"} =>
        \A i \in DOMAIN members :
            members[i].method = "stored" => members[i].to - members[i].from <= MaxEntryBytes

\* The payload of every member lies in the zip.
MembersInside ==
    phase \in {"directory", "unzip"} =>
        \A i \in DOMAIN members :
            members[i].from <= members[i].to /\ members[i].to <= Size[job.blob]

IInv ==
    TypeOK /\ Fused /\ Control /\ TarEntriesSmall /\ ZipEntriesSmall /\ MembersInside
        /\ WithinLimits

-----------------------------------------------------------------------------

\* A block that fits is one of the whole blocks of the blob.
LEMMA BlockIndex ==
    ASSUME NEW B \in Nat \ {0}, NEW o \in Nat, NEW n \in Nat, o + B <= n
    PROVE  o \div B + 1 \in 1 .. n \div B
    <1> DEFINE q == o \div B
               r == n \div B
    <1>1. q \in Nat /\ r \in Nat
        OBVIOUS
    <1>2. B * q <= o /\ n < B * (r + 1)
        OBVIOUS
    <1>3. q + 1 <= r
        <2> SUFFICES ASSUME r <= q PROVE FALSE
            BY <1>1
        <2> HIDE DEF q, r
        <2>1. B * r <= B * q
            BY <1>1
        <2>2. B * (r + 1) = B * r + B
            BY <1>1
        <2> QED
            BY <1>1, <1>2, <2>1, <2>2
    <1> QED
        BY <1>1, <1>3

\* What is read where a block fits is a block.
LEMMA HeaderAt ==
    ASSUME TypeOK, Fits(offset)
    PROVE  At(offset) \in Block
    <1>1. data \in Blob /\ offset \in Nat /\ Size[data] \in Nat
        BY BlobAssumption DEF TypeOK
    <1>2. offset \div BlockSize + 1 \in 1 .. Size[data] \div BlockSize
        BY <1>1, BlockIndex, TarAssumption DEF Fits
    <1>3. Blocks[data] \in Seq(Block) /\ Len(Blocks[data]) = Size[data] \div BlockSize
        BY <1>1, TarAssumption
    <1> QED
        BY <1>2, <1>3 DEF At

\* A header has a size, and its payload is a blob of that size.
LEMMA HeaderOf ==
    ASSUME TypeOK, IsHeader
    PROVE  /\ At(offset).size \in Nat
           /\ At(offset).payload \in Blob
           /\ Size[At(offset).payload] = At(offset).size
           /\ End \in Nat
    <1>1. At(offset) \in Block
        BY HeaderAt DEF IsHeader
    <1>2. At(offset).size \in Nat /\ At(offset).payload \in Blob
        BY <1>1 DEF IsHeader, Block
    <1>3. Size[At(offset).payload] = At(offset).size
        <2>1. offset \div BlockSize + 1 \in 1 .. Len(Blocks[data])
            BY BlockIndex, BlobAssumption, TarAssumption DEF TypeOK, IsHeader, Fits
        <2> QED
            BY <2>1, TarAssumption DEF TypeOK, IsHeader, At
    <1>4. Padding(At(offset).size) \in Nat
        BY <1>2, TarAssumption DEF Padding
    <1>5. offset \in Nat /\ BlockSize \in Nat
        BY TarAssumption DEF TypeOK
    <1> QED
        BY <1>2, <1>3, <1>4, <1>5 DEF End

-----------------------------------------------------------------------------

\* What is read at an offset inside of a blob.
LEMMA ByteAt ==
    ASSUME NEW b \in Blob, NEW o \in Nat, o < Size[b]
    PROVE  Bytes[b][o + 1] \in Byte
    <1>1. Bytes[b] \in Seq(Byte) /\ Len(Bytes[b]) = Size[b] /\ Size[b] \in Nat
        BY BlobAssumption, ZipAssumption
    <1>2. o + 1 \in 1 .. Len(Bytes[b])
        BY <1>1
    <1> QED
        BY <1>1, <1>2

LEMMA DirectoryOf ==
    ASSUME NEW b \in Blob, NEW e \in Directories(b)
    PROVE  e.start \in Nat /\ e.count \in Nat
    <1>1. PICK o \in 0 .. Size[b] - EndSize : Reads(b, o, "end") /\ e = Bytes[b][o + 1]
        BY DEF Directories, EndRecords, EndOffsets
    <1>2. e \in Byte
        BY <1>1, ByteAt, BlobAssumption, ZipAssumption
    <1>3. e.is = "end"
        BY <1>1 DEF Reads
    <1> QED
        BY <1>2, <1>3 DEF Byte

LEMMA CentralFields ==
    ASSUME NEW b \in Blob, pos \in Nat, CentralReadable(b)
    PROVE  /\ {Central(b).name, Central(b).extra, Central(b).comment} \subseteq Nat
           /\ {Central(b).stored, Central(b).size, Central(b).local} \subseteq Nat
           /\ Central(b).method \in {"stored", "deflated", "other"}
    <1>1. Central(b) \in Byte
        BY ByteAt, BlobAssumption, ZipAssumption DEF CentralReadable, RoomFor, Central
    <1>2. Central(b).is = "central"
        BY DEF CentralReadable, Reads, Central
    <1> QED
        BY <1>1, <1>2 DEF Byte

LEMMA LocalFields ==
    ASSUME NEW b \in Blob, Central(b).local \in Nat, LocalReadable(b)
    PROVE  Local(b).name \in Nat /\ Local(b).extra \in Nat
    <1>1. Local(b) \in Byte
        BY ByteAt, BlobAssumption, ZipAssumption DEF LocalReadable, RoomFor, Local
    <1>2. Local(b).is = "local"
        BY DEF LocalReadable, Reads, Local
    <1> QED
        BY <1>1, <1>2 DEF Byte

\* The next header is at an offset again.
LEMMA NextHeader ==
    ASSUME TypeOK, NEW b \in Blob, ToNext(b)
    PROVE  pos' \in Nat /\ headers' \in Nat
    <1>1. pos \in Nat /\ headers \in Nat
        BY DEF TypeOK
    <1>2. {Central(b).name, Central(b).extra, Central(b).comment} \subseteq Nat
        BY <1>1, CentralFields DEF ToNext
    <1>3. CentralSize \in Nat
        BY ZipAssumption
    <1> QED
        BY <1>1, <1>2, <1>3 DEF ToNext, NameEnd

\* The entry that is found has its payload in the data, and if it is stored as it is,
\* no more than an entry may have.
LEMMA NewMember ==
    ASSUME TypeOK, NEW b \in Blob, ZipEntry(b)
    PROVE  \E m \in Member :
             /\ members' = Append(members, m)
             /\ m.from <= m.to /\ m.to <= Size[b]
             /\ m.to - m.from <= MaxEntryBytes
    <1>1. pos \in Nat
        BY DEF TypeOK
    <1>2. CentralReadable(b) /\ PayloadReadable(b)
        BY DEF ZipEntry, ToNext
    <1>3. /\ {Central(b).stored, Central(b).size, Central(b).local} \subseteq Nat
          /\ Central(b).method \in {"stored", "deflated", "other"}
        BY <1>1, <1>2, CentralFields
    <1>4. Local(b).name \in Nat /\ Local(b).extra \in Nat
        BY <1>2, <1>3, LocalFields DEF PayloadReadable
    <1>5. PayloadStart(b) \in Nat /\ PayloadEnd(b) = PayloadStart(b) + Central(b).stored
        <2>1. LocalSize \in Nat
            BY ZipAssumption
        <2> QED
            BY <1>3, <1>4, <2>1 DEF PayloadStart, PayloadEnd, LocalNameEnd
    <1>6. PayloadEnd(b) <= Size[b] /\ Central(b).stored <= MaxEntryBytes
        BY <1>2, <1>5 DEF PayloadReadable, RoomFor, SizesAgree
    <1> DEFINE m == [method |-> Central(b).method, size |-> Central(b).size,
                     from |-> PayloadStart(b), to |-> PayloadEnd(b)]
    <1>7. m \in Member
        BY <1>3, <1>5 DEF Member
    <1>8. m.from <= m.to /\ m.to <= Size[b] /\ m.to - m.from <= MaxEntryBytes
        BY <1>3, <1>5, <1>6
    <1>9. members' = Append(members, m)
        BY DEF ZipEntry
    <1> QED
        BY <1>7, <1>8, <1>9

\* A slice that lies in a blob is as long as its offsets are apart.
LEMMA SliceLength ==
    ASSUME NEW b \in Blob, NEW from \in Nat, NEW to \in Nat, from <= to, to <= Size[b]
    PROVE  Len(Slice(b, from, to)) = to - from
    <1>1. Bytes[b] \in Seq(Byte) /\ Len(Bytes[b]) = Size[b]
        BY ZipAssumption
    <1> QED
        BY <1>1, BlobAssumption DEF Slice

\* What an entry of a zip holds is a blob, and no larger than an entry may be.
LEMMA Unzipped ==
    ASSUME IInv, AtMember, NEW p \in Payloads(job.blob, TheMember),
           NEW c \in CASE TheMember.method = "stored"   -> {p}
                     [] TheMember.method = "deflated" -> Inflations(TheMember, p)
                     [] OTHER                         -> {}
    PROVE  c \in Blob /\ Size[c] <= MaxEntryBytes
    <1>1. /\ members \in Seq(Member) /\ taken + 1 \in DOMAIN members
          /\ phase = "unzip" /\ job.blob \in Blob
        BY DEF IInv, TypeOK, AtMember, Job
    <1>2. TheMember \in Member
        BY <1>1 DEF TheMember
    <1>3. p \in Blob /\ Bytes[p] = Slice(job.blob, TheMember.from, TheMember.to)
        BY DEF Payloads
    <1>4. CASE TheMember.method = "stored"
        <2>1. c = p
            BY <1>4
        <2>2. /\ TheMember.from <= TheMember.to /\ TheMember.to <= Size[job.blob]
              /\ TheMember.to - TheMember.from <= MaxEntryBytes
            BY <1>1, <1>4 DEF IInv, MembersInside, ZipEntriesSmall, TheMember
        <2>3. Size[p] = TheMember.to - TheMember.from
            <3>1. TheMember.from \in Nat /\ TheMember.to \in Nat
                BY <1>2 DEF Member
            <3>2. Len(Bytes[p]) = TheMember.to - TheMember.from
                BY <1>1, <1>3, <2>2, <3>1, SliceLength
            <3> QED
                BY <1>3, <3>2, ZipAssumption
        <2> QED
            BY <1>3, <2>1, <2>2, <2>3
    <1>5. CASE TheMember.method = "deflated"
        <2>1. c \in Inflations(TheMember, p)
            BY <1>5
        <2>2. Inner[p] \subseteq Blob
            BY <1>3, ArchiveAssumption
        <2> QED
            BY <2>1, <2>2 DEF Inflations, Inflates
    <1>6. CASE TheMember.method = "other"
        BY <1>6
    <1> QED
        BY <1>2, <1>4, <1>5, <1>6 DEF Member

-----------------------------------------------------------------------------

LEMMA Answers ==
    /\ [is |-> "searching"] \in Answer
    /\ [is |-> "none"] \in Answer
    /\ [is |-> "error"] \in Answer
    /\ \A b \in Blob : [is |-> "entry", payload |-> b] \in Answer
    BY DEF Answer

LEMMA InitInv == Init => IInv
    <1> SUFFICES ASSUME Init PROVE IInv
        OBVIOUS
    <1>1. root \in Blob /\ MaxDepth \in Nat /\ TotalBudget \in Nat /\ MaxOutputBytes \in Nat
              /\ MaxOutput \in Nat /\ MaxEntryBytes \in Nat
        BY ArchiveAssumption, BlobAssumption DEF Init
    <1>2. TypeOK
        <2>1. answer \in Answer
            BY Answers DEF Init
        <2>2. job \in Job
            BY <1>1 DEF Init, Job, Name
        <2>3. finished \in BOOLEAN
            BY DEF Init
        <2> QED
            BY <1>1, <2>1, <2>2, <2>3 DEF Init, TypeOK
    <1>3. Fused /\ Control /\ TarEntriesSmall /\ ZipEntriesSmall /\ MembersInside
        BY DEF Init, Fused, Control, TarEntriesSmall, ZipEntriesSmall, MembersInside, Small
    <1>4. WithinLimits
        BY <1>1 DEF Init, WithinLimits
    <1> QED
        BY <1>2, <1>3, <1>4 DEF IInv

LEMMA TypeNext == IInv /\ [Next]_vars => TypeOK'
    <1> SUFFICES ASSUME IInv, [Next]_vars PROVE TypeOK'
        OBVIOUS
    <1>1. TypeOK
        BY DEF IInv
    <1>a. /\ job.blob \in Blob /\ Size \in [Blob -> Nat] /\ BlockSize \in Nat
          /\ \A b \in Blob : Inner[b] \subseteq Blob
        BY <1>1, BlobAssumption, TarAssumption, ArchiveAssumption DEF TypeOK, Job
    <1>b. ASSUME AtEntry
          PROVE  /\ Top \in Frame /\ Len(frames) \in DOMAIN frames
                 /\ Entry \in Blob /\ Tail(Top.rest) \in Seq(Blob)
        <2>1. frames \in Seq(Frame) /\ frames # <<>>
            BY <1>1, <1>b DEF TypeOK, AtEntry
        <2>2. Len(frames) \in DOMAIN frames
            BY <2>1
        <2>3. Top \in Frame
            BY <2>1, <2>2 DEF Top
        <2>4. Top.rest \in Seq(Blob) /\ Top.rest # <<>>
            BY <1>b, <2>3 DEF AtEntry, Frame
        <2> QED
            BY <2>2, <2>3, <2>4 DEF Entry
    <1>2. CASE OpenTar
        <2>1. answer' \in Answer
            BY <1>2, Answers DEF OpenTar, TarOpen
        <2>2. /\ data' \in Blob /\ offset' \in Nat
              /\ entryCount' \in Nat /\ layer' \in Seq(Blob)
            BY <1>1, <1>2, <1>a DEF OpenTar, TarOpen
        <2>3. finished' \in BOOLEAN
            BY <1>2 DEF OpenTar, TarOpen
        <2> QED
            BY <1>1, <1>2, <2>1, <2>2, <2>3 DEF OpenTar, TypeOK, limitVars, zipVars
    <1>3. CASE OpenPacked
        <2>1. PICK c \in Inner[job.blob] : TarOpen(c) /\ Charge(Size[c], "tar")
            BY <1>3 DEF OpenPacked
        <2>2. answer' \in Answer
            BY <2>1, Answers DEF TarOpen
        <2>3. /\ data' \in Blob /\ offset' \in Nat /\ finished' \in BOOLEAN
              /\ entryCount' \in Nat
            BY <1>a, <2>1 DEF TarOpen
        <2>4. budget' \in Nat /\ phase' \in {"tar", "done"} /\ result' \in {result, "error"}
            BY <1>1, <1>a, <2>1 DEF Charge, Fail, TypeOK
        <2> QED
            BY <1>1, <1>3, <2>2, <2>3, <2>4 DEF OpenPacked, TypeOK, zipVars
    <1>4. CASE OpenZip
        BY <1>1, <1>4, <1>a, DirectoryOf
        DEF OpenZip, ZipOpen, TypeOK, tarVars, limitVars
    <1>5. CASE OpenFails \/ CollectFails \/ DirectoryFails \/ UnzipFails \/ TooMany
        BY <1>1, <1>5
        DEF OpenFails, CollectFails, DirectoryFails, UnzipFails, TooMany, Fail, TypeOK,
            tarVars, zipVars, layerVars, limitVars
    <1>6. CASE Search
        <2>1. CASE TarExhausted \/ TarMalformed \/ TarRefused
            <3>1. answer' \in Answer
                BY <2>1, Answers DEF TarExhausted, TarMalformed, TarRefused
            <3>2. data' \in Blob /\ offset' \in Nat /\ entryCount' \in Nat
                BY <1>1, <2>1 DEF TarExhausted, TarMalformed, TarRefused, TypeOK
            <3>3. finished' \in BOOLEAN
                BY <2>1 DEF TarExhausted, TarMalformed, TarRefused
            <3> QED
                BY <1>1, <1>6, <3>1, <3>2, <3>3 DEF Search, TypeOK, zipVars, layerVars, limitVars
        <2>2. CASE TarEndMarker
            BY <1>1, <1>6, <1>a, <2>2
            DEF Search, TarEndMarker, TypeOK, Answer, zipVars, layerVars, limitVars
        <2>3. CASE TarEntry
            BY <1>1, <1>6, <2>3, HeaderOf
            DEF Search, TarEntry, Admitted, TypeOK, Answer, zipVars, layerVars, limitVars
        <2> QED
            BY <1>6, <2>1, <2>2, <2>3 DEF Search, TarSearch
    <1>7. CASE Collect
        <2>1. answer.payload \in Blob
            BY <1>1, <1>7 DEF Collect, TypeOK, Answer
        <2> QED
            BY <1>1, <1>7, <2>1 DEF Collect, TarNext, TypeOK, Answer, zipVars, limitVars
    <1>8. CASE CollectEnds
        BY <1>1, <1>8 DEF CollectEnds, TypeOK, tarVars, zipVars, limitVars
    <1>9. CASE ChargeEntry
        BY <1>1, <1>9, <1>a DEF ChargeEntry, Charge, Fail, TypeOK, tarVars, zipVars
    <1>10. CASE ReadDirectory
        <2>1. CASE ZipDirectory(job.blob)
            BY <1>1, <1>10, <1>a, <2>1, NextHeader
            DEF ReadDirectory, ZipDirectory, TypeOK, tarVars, layerVars, limitVars
        <2>2. CASE ZipEntry(job.blob)
            <3>1. members' \in Seq(Member)
                <4>1. PICK m \in Member : members' = Append(members, m)
                    BY <1>1, <1>a, <2>2, NewMember
                <4> QED
                    BY <1>1, <4>1 DEF TypeOK
            <3>2. pos' \in Nat /\ headers' \in Nat
                BY <1>1, <1>a, <2>2, NextHeader DEF ZipEntry
            <3> QED
                BY <1>1, <1>10, <3>1, <3>2
                DEF ReadDirectory, TypeOK, tarVars, layerVars, limitVars
        <2> QED
            BY <1>10, <2>1, <2>2 DEF ReadDirectory
    <1>11. CASE DirectoryEnds
        BY <1>1, <1>11 DEF DirectoryEnds, TypeOK, tarVars, zipVars, layerVars, limitVars
    <1>12. CASE Unzip
        <2>1. PICK c \in Blob : Charge(Size[c], "unzip") /\ layer' = Append(layer, c)
            <3>1. PICK p \in Payloads(job.blob, TheMember) :
                    \E c \in CASE TheMember.method = "stored"   -> {p}
                              [] TheMember.method = "deflated" -> Inflations(TheMember, p)
                              [] OTHER                         -> {} :
                        Charge(Size[c], "unzip") /\ layer' = Append(layer, c)
                BY <1>12 DEF Unzip
            <3> QED
                BY <1>12, <3>1, Unzipped DEF Unzip
        <2> QED
            <3>1. layer' \in Seq(Blob)
                BY <1>1, <2>1 DEF TypeOK
            <3>2. budget' \in Nat /\ phase' \in {"unzip", "done"} /\ result' \in {result, "error"}
                BY <1>1, <1>a, <2>1 DEF Charge, Fail, TypeOK
            <3> QED
                BY <1>1, <1>12, <3>1, <3>2 DEF Unzip, TypeOK, tarVars, zipVars
    <1>13. CASE Extracted
        <2>1. out' \in Seq(Name)
            BY <1>1, <1>13 DEF Extracted, TypeOK, Name
        <2> QED
            BY <1>1, <1>13, <2>1 DEF Extracted, TypeOK, tarVars, zipVars, layerVars
    <1>14. CASE Enter
        <2>1. [rest |-> layer, name |-> job.name, depth |-> job.depth] \in Frame
            BY <1>1 DEF TypeOK, Job, Frame
        <2> QED
            BY <1>1, <1>14, <2>1 DEF Enter, TypeOK, tarVars, zipVars, layerVars, limitVars
    <1>15. CASE TooMuch
        BY <1>1, <1>15, <1>a, <1>b
        DEF TooMuch, Counts, Fail, TypeOK, tarVars, zipVars, layerVars
    <1>16. ASSUME Takes
           PROVE  frames' \in Seq(Frame) /\ totalBytes' \in Nat
        <2>1. [Top EXCEPT !.rest = Tail(@)] \in Frame
            BY <1>b, <1>16 DEF Takes, Counts, Frame
        <2> QED
            <3>1. frames \in Seq(Frame) /\ totalBytes \in Nat
                BY <1>1 DEF TypeOK
            <3>2. frames' = [frames EXCEPT ![Len(frames)] = [Top EXCEPT !.rest = Tail(@)]]
                BY <1>16 DEF Takes, Top
            <3>3. frames' \in Seq(Frame)
                <4>1. Len(frames) \in DOMAIN frames
                    BY <1>b, <1>16 DEF Takes, Counts
                <4> QED
                    BY <2>1, <3>1, <3>2, <4>1
            <3>4. totalBytes' \in Nat
                BY <1>a, <1>b, <1>16, <3>1 DEF Takes, Counts
            <3> QED
                BY <3>3, <3>4
    <1>17. CASE Descend
        <2>1. job' \in Job
            BY <1>b, <1>17, ArchiveAssumption
            DEF Descend, Takes, Counts, Frame, Job, Name
        <2> QED
            BY <1>1, <1>16, <1>17, <2>1 DEF Descend, TypeOK, tarVars, zipVars
    <1>18. CASE Push
        <2>1. Append(Top.name, Entry) \in Name
            BY <1>b, <1>18 DEF Push, Takes, Counts, Frame, Name
        <2> QED
            BY <1>1, <1>16, <1>18, <2>1 DEF Push, TypeOK, tarVars, zipVars, layerVars
    <1>19. CASE Return
        <2>1. frames' \in Seq(Frame)
            BY <1>1, <1>19 DEF Return, TypeOK, Front
        <2> QED
            BY <1>1, <1>19, <2>1 DEF Return, TypeOK, tarVars, zipVars, layerVars, limitVars
    <1>20. CASE AskAgain
        BY <1>1, <1>20 DEF AskAgain, TarNext, TypeOK, Answer, zipVars, layerVars, limitVars
    <1>21. CASE Stop \/ UNCHANGED vars
        BY <1>1, <1>21 DEF Stop, TypeOK, vars, tarVars, zipVars, layerVars, limitVars
    <1> QED
        BY <1>2, <1>3, <1>4, <1>5, <1>6, <1>7, <1>8, <1>9, <1>10, <1>11, <1>12, <1>13, <1>14,
           <1>15, <1>17, <1>18, <1>19, <1>20, <1>21 DEF Next

LEMMA FusedNext == IInv /\ [Next]_vars => Fused'
    <1> SUFFICES ASSUME IInv, [Next]_vars PROVE Fused'
        OBVIOUS
    <1>1. Fused
        BY DEF IInv
    <1>2. CASE OpenTar \/ OpenPacked
        BY <1>2 DEF OpenTar, OpenPacked, TarOpen, Fused
    <1>3. CASE Search
        <2>1. CASE TarEntry
            BY <2>1 DEF TarEntry, Fused
        <2>2. CASE TarExhausted \/ TarEndMarker \/ TarMalformed \/ TarRefused
            BY <2>2 DEF TarExhausted, TarEndMarker, TarMalformed, TarRefused, Fused
        <2> QED
            BY <1>3, <2>1, <2>2 DEF Search, TarSearch
    <1>4. CASE Collect \/ AskAgain
        BY <1>1, <1>4 DEF Collect, AskAgain, TarNext, Fused
    <1>5. CASE UNCHANGED <<answer, finished>>
        BY <1>1, <1>5 DEF Fused
    <1> QED
        BY <1>2, <1>3, <1>4, <1>5
        DEF Next, OpenZip, OpenFails, CollectFails, CollectEnds, ChargeEntry,
            ReadDirectory, DirectoryFails, DirectoryEnds, Unzip, UnzipFails, Extracted,
            Enter, TooMany, TooMuch, Descend, Push, Return, Stop, vars, tarVars

LEMMA ControlNext == IInv /\ [Next]_vars => Control'
    <1> SUFFICES ASSUME IInv, [Next]_vars PROVE Control'
        OBVIOUS
    <1>1. Control /\ result \in {"none", "ok", "error"}
        BY DEF IInv, TypeOK
    <1>2. CASE Search \/ Collect \/ ReadDirectory \/ AskAgain
        BY <1>1, <1>2 DEF Search, Collect, ReadDirectory, AskAgain, Control
    <1>3. CASE OpenFails \/ CollectFails \/ DirectoryFails \/ UnzipFails
        BY <1>1, <1>3
        DEF OpenFails, CollectFails, DirectoryFails, UnzipFails, AtMember, Fail, Control
    <1>4. CASE OpenTar \/ OpenZip \/ CollectEnds \/ DirectoryEnds
        BY <1>1, <1>4 DEF OpenTar, OpenZip, CollectEnds, DirectoryEnds, Control
    <1>5. CASE OpenPacked \/ ChargeEntry \/ Unzip
        BY <1>1, <1>5
        DEF OpenPacked, ChargeEntry, Unzip, AtMember, Charge, Fail, Control
    <1>6. CASE Extracted \/ Enter \/ Return
        BY <1>1, <1>6 DEF Extracted, Enter, Return, Opened, Control
    <1>7. CASE TooMany \/ TooMuch \/ Descend \/ Push
        BY <1>1, <1>7
        DEF TooMany, TooMuch, Descend, Push, Takes, Counts, AtEntry, Fail, Control
    <1>8. CASE Stop \/ UNCHANGED vars
        BY <1>1, <1>8 DEF Stop, vars, Control
    <1> QED
        BY <1>2, <1>3, <1>4, <1>5, <1>6, <1>7, <1>8 DEF Next

LEMMA TarEntriesSmallNext == IInv /\ [Next]_vars => TarEntriesSmall'
    <1> SUFFICES ASSUME IInv, [Next]_vars PROVE TarEntriesSmall'
        OBVIOUS
    <1>1. TypeOK /\ TarEntriesSmall
        BY DEF IInv
    <1>2. CASE OpenTar \/ OpenPacked
        <2>1. answer'.is = "searching" /\ layer' = <<>> /\ phase' # "charge"
            BY <1>2 DEF OpenTar, OpenPacked, TarOpen, Charge, Fail
        <2> QED
            BY <2>1 DEF TarEntriesSmall, Small
    <1>3. CASE Search
        <2>1. CASE TarEntry
            <3>1. Size[At(offset).payload] <= MaxEntryBytes
                BY <1>1, <2>1, HeaderOf DEF TarEntry, Admitted
            <3>2. answer'.is = "entry" => answer'.payload = At(offset).payload
                BY <2>1 DEF TarEntry
            <3> QED
                BY <1>1, <1>3, <3>1, <3>2 DEF Search, TarEntriesSmall, Small, layerVars
        <2>2. CASE TarExhausted \/ TarEndMarker \/ TarMalformed \/ TarRefused
            <3>1. answer'.is # "entry"
                BY <2>2 DEF TarExhausted, TarEndMarker, TarMalformed, TarRefused
            <3> QED
                BY <1>1, <1>3, <3>1 DEF Search, TarEntriesSmall, Small, layerVars
        <2> QED
            BY <1>3, <2>1, <2>2 DEF Search, TarSearch
    <1>4. CASE Collect
        <2>1. layer \in Seq(Blob) /\ layer' = Append(layer, answer.payload)
            BY <1>1, <1>4 DEF TypeOK, Collect
        <2>2. Small(layer) /\ Size[answer.payload] <= MaxEntryBytes
            BY <1>1, <1>4 DEF Collect, TarEntriesSmall
        <2>3. Small(layer')
            BY <2>1, <2>2 DEF Small
        <2>4. answer'.is # "entry" /\ phase' = "tar"
            BY <1>4 DEF Collect, TarNext
        <2> QED
            BY <2>3, <2>4 DEF TarEntriesSmall, Small
    <1>5. CASE AskAgain
        BY <1>5 DEF AskAgain, TarNext, TarEntriesSmall
    <1>6. CASE CollectEnds
        <2>1. Small(layer) /\ Small(<<>>) /\ answer' = answer /\ phase' = "charge"
            BY <1>1, <1>6 DEF CollectEnds, TarEntriesSmall, Small, tarVars
        <2>2. left' = layer \/ left' = <<>>
            BY <1>6 DEF CollectEnds
        <2> QED
            BY <1>1, <2>1, <2>2 DEF TarEntriesSmall, Small
    <1>7. CASE ChargeEntry
        <2>1. left \in Seq(Blob) /\ left # <<>> /\ left' = Tail(left) /\ Small(left)
            BY <1>1, <1>7 DEF ChargeEntry, TypeOK, TarEntriesSmall
        <2>2. Small(left')
            BY <2>1 DEF Small
        <2>3. answer' = answer /\ phase' \in {"charge", "done"}
            BY <1>7 DEF ChargeEntry, Charge, Fail, tarVars
        <2> QED
            BY <1>1, <2>2, <2>3 DEF TarEntriesSmall, Small
    <1>8. CASE answer' = answer /\ phase' \notin {"tar", "charge"}
        BY <1>1, <1>8 DEF TarEntriesSmall
    <1>9. CASE Stop \/ UNCHANGED vars
        BY <1>1, <1>9 DEF Stop, vars, tarVars, layerVars, TarEntriesSmall, Small
    <1>10. CASE OpenZip \/ OpenFails \/ CollectFails \/ ReadDirectory \/ DirectoryFails
                    \/ DirectoryEnds \/ Unzip \/ UnzipFails
        BY <1>8, <1>10
        DEF OpenZip, OpenFails, CollectFails, ReadDirectory, DirectoryFails, DirectoryEnds,
            Unzip, UnzipFails, AtMember, Charge, Fail, tarVars
    <1>11. CASE Extracted \/ Enter \/ TooMany \/ TooMuch \/ Descend \/ Push \/ Return
        BY <1>8, <1>11
        DEF Extracted, Enter, TooMany, TooMuch, Descend, Push, Return, Takes, Counts,
            AtEntry, Fail, tarVars
    <1> QED
        BY <1>2, <1>3, <1>4, <1>5, <1>6, <1>7, <1>9, <1>10, <1>11 DEF Next

LEMMA ZipNext == IInv /\ [Next]_vars => ZipEntriesSmall' /\ MembersInside'
    <1> SUFFICES ASSUME IInv, [Next]_vars PROVE ZipEntriesSmall' /\ MembersInside'
        OBVIOUS
    <1>1. TypeOK /\ ZipEntriesSmall /\ MembersInside
        BY DEF IInv
    <1>2. CASE OpenZip
        BY <1>2 DEF OpenZip, ZipOpen, ZipEntriesSmall, MembersInside
    <1>3. CASE phase \in {"directory", "unzip"} /\ members' = members /\ job' = job
        BY <1>1, <1>3 DEF ZipEntriesSmall, MembersInside
    <1>4. CASE phase' \notin {"directory", "unzip"}
        BY <1>4 DEF ZipEntriesSmall, MembersInside
    <1>5. CASE ReadDirectory
        <2>1. CASE ZipDirectory(job.blob)
            BY <1>3, <1>5, <2>1 DEF ReadDirectory, ZipDirectory, layerVars
        <2>2. CASE ZipEntry(job.blob)
            <3>1. job.blob \in Blob /\ members \in Seq(Member)
                BY <1>1 DEF TypeOK, Job
            <3>2. PICK m \in Member :
                    /\ members' = Append(members, m)
                    /\ m.from <= m.to /\ m.to <= Size[job.blob]
                    /\ m.to - m.from <= MaxEntryBytes
                BY <1>1, <2>2, <3>1, NewMember
            <3>3. phase = "directory" /\ job' = job
                BY <1>5 DEF ReadDirectory, layerVars
            <3>4. \A i \in DOMAIN members' :
                    \/ members'[i] = m
                    \/ i \in DOMAIN members /\ members'[i] = members[i]
                <4>1. members' = Append(members, m)
                    BY <3>2
                <4>2. \A i \in DOMAIN Append(members, m) :
                        \/ Append(members, m)[i] = m
                        \/ i \in DOMAIN members /\ Append(members, m)[i] = members[i]
                    BY <3>1
                <4> QED
                    BY <4>1, <4>2, Zenon
            <3> QED
                BY <1>1, <3>2, <3>3, <3>4 DEF ZipEntriesSmall, MembersInside
        <2> QED
            BY <1>5, <2>1, <2>2 DEF ReadDirectory
    <1>6. CASE DirectoryEnds \/ Unzip
        BY <1>3, <1>6 DEF DirectoryEnds, Unzip, AtMember, zipVars, layerVars
    <1>7. CASE OpenTar \/ OpenPacked \/ OpenFails \/ Search \/ Collect \/ CollectFails
                   \/ CollectEnds \/ ChargeEntry \/ DirectoryFails \/ UnzipFails
        BY <1>4, <1>7
        DEF OpenTar, OpenPacked, OpenFails, Search, Collect, CollectFails, CollectEnds,
            ChargeEntry, DirectoryFails, UnzipFails, Charge, Fail
    <1>8. CASE Extracted \/ Enter \/ TooMany \/ TooMuch \/ Descend \/ Push \/ Return \/ AskAgain
        BY <1>4, <1>8
        DEF Extracted, Enter, TooMany, TooMuch, Descend, Push, Return, AskAgain, Takes,
            Counts, AtEntry, Fail
    <1>9. CASE Stop \/ UNCHANGED vars
        BY <1>1, <1>9
        DEF Stop, vars, zipVars, layerVars, ZipEntriesSmall, MembersInside
    <1> QED
        BY <1>2, <1>5, <1>6, <1>7, <1>8, <1>9 DEF Next

\* What is charged is never more than an entry may have.
LEMMA ChargeBound ==
    ASSUME TypeOK, WithinLimits, result # "error", NEW bytes \in Nat, NEW next,
           bytes <= MaxEntryBytes, Charge(bytes, next), result' = result \/ result' = "error"
    PROVE  /\ budget' <= TotalBudget + MaxEntryBytes
           /\ result' # "error" => budget' <= TotalBudget
    <1>1. /\ budget \in Nat /\ TotalBudget \in Nat /\ MaxEntryBytes \in Nat
          /\ budget <= TotalBudget
        BY BlobAssumption, ArchiveAssumption DEF TypeOK, WithinLimits
    <1> QED
        BY <1>1 DEF Charge, Fail

LEMMA LimitsNext == IInv /\ [Next]_vars => WithinLimits'
    <1> SUFFICES ASSUME IInv, [Next]_vars PROVE WithinLimits'
        OBVIOUS
    <1>1. TypeOK /\ WithinLimits /\ Control
        BY DEF IInv
    <1>2. /\ Size \in [Blob -> Nat] /\ job.blob \in Blob
          /\ \A b \in Blob : Inner[b] \subseteq Blob
        BY <1>1, BlobAssumption, ArchiveAssumption DEF TypeOK, Job
    <1>3. ASSUME NEW c \in Blob, NEW next, Size[c] <= MaxEntryBytes, Charge(Size[c], next),
                 phase # "done", UNCHANGED <<out, totalBytes, caller>>
          PROVE  WithinLimits'
        <2>1. result = "none" /\ (result' = result \/ result' = "error")
            BY <1>1, <1>3 DEF Control, Charge, Fail
        <2>2. /\ budget' <= TotalBudget + MaxEntryBytes
              /\ result' # "error" => budget' <= TotalBudget
            BY <1>1, <1>2, <1>3, <2>1, ChargeBound
        <2> QED
            BY <1>1, <1>3, <2>1, <2>2 DEF WithinLimits
    <1>4. CASE UNCHANGED <<limitVars, caller>> /\ (result' = result \/ result' = "error")
        BY <1>1, <1>4 DEF WithinLimits, limitVars
    <1>5. CASE OpenPacked
        <2>1. PICK c \in Inner[job.blob] : Inflates(Size[job.blob], c) /\ Charge(Size[c], "tar")
            BY <1>5 DEF OpenPacked
        <2> QED
            BY <1>2, <1>3, <1>5, <2>1 DEF OpenPacked, Inflates
    <1>6. CASE ChargeEntry
        <2>1. Head(left) \in Blob /\ Size[Head(left)] <= MaxEntryBytes
            BY <1>1, <1>6 DEF IInv, TypeOK, ChargeEntry, TarEntriesSmall, Small
        <2> QED
            BY <1>3, <1>6, <2>1 DEF ChargeEntry
    <1>7. CASE Unzip
        <2>1. PICK p \in Payloads(job.blob, TheMember) :
                \E c \in CASE TheMember.method = "stored"   -> {p}
                          [] TheMember.method = "deflated" -> Inflations(TheMember, p)
                          [] OTHER                         -> {} :
                    Charge(Size[c], "unzip")
            BY <1>7 DEF Unzip
        <2>2. PICK c \in Blob : Size[c] <= MaxEntryBytes /\ Charge(Size[c], "unzip")
            BY <1>7, <2>1, Unzipped DEF Unzip
        <2> QED
            BY <1>3, <1>7, <2>2 DEF Unzip, AtMember
    <1>8. CASE Extracted
        BY <1>1, <1>8 DEF Extracted, Opened, WithinLimits, Control
    <1>9. CASE Return
        BY <1>1, <1>9 DEF Return, WithinLimits, Control, limitVars
    <1>10. CASE TooMuch
        BY <1>1, <1>10 DEF TooMuch, Fail, WithinLimits
    <1>11. CASE Descend
        BY <1>1, <1>11 DEF Descend, Takes, WithinLimits
    <1>12. CASE Push
        <2>1. Len(out) < MaxOutput /\ out \in Seq(Name) /\ MaxOutput \in Nat
            BY <1>1, <1>12, ArchiveAssumption DEF Push, Takes, Counts, TypeOK
        <2>2. Len(out') <= MaxOutput
            BY <1>12, <2>1 DEF Push
        <2> QED
            BY <1>1, <1>12, <2>2 DEF Push, Takes, WithinLimits
    <1>13. CASE OpenTar \/ OpenZip \/ OpenFails \/ Search \/ Collect \/ CollectFails
                    \/ CollectEnds \/ ReadDirectory \/ DirectoryFails \/ DirectoryEnds
        BY <1>4, <1>13
        DEF OpenTar, OpenZip, OpenFails, Search, Collect, CollectFails, CollectEnds,
            ReadDirectory, DirectoryFails, DirectoryEnds, Fail
    <1>14. CASE UnzipFails \/ Enter \/ TooMany \/ AskAgain \/ Stop \/ UNCHANGED vars
        BY <1>4, <1>14 DEF UnzipFails, Enter, TooMany, AskAgain, Stop, vars, Fail
    <1> QED
        BY <1>5, <1>6, <1>7, <1>8, <1>9, <1>10, <1>11, <1>12, <1>13, <1>14 DEF Next

LEMMA Invariance == Spec => []IInv
    <1>1. IInv /\ [Next]_vars => IInv'
        BY TypeNext, FusedNext, ControlNext, TarEntriesSmallNext, ZipNext, LimitsNext DEF IInv
    <1> QED
        BY InitInv, <1>1, PTL DEF Spec

-----------------------------------------------------------------------------

\* Every variable keeps its type, whatever archives are handed in.
THEOREM TypeCorrect == Spec => []TypeOK
    <1>1. IInv => TypeOK
        BY DEF IInv
    <1> QED
        BY Invariance, <1>1, PTL

\* The limits of auto_extract_recursive hold for all layers together, however archives
\* of different formats are nested.
THEOREM LimitsHold == Spec => []WithinLimits
    <1>1. IInv => WithinLimits
        BY DEF IInv
    <1> QED
        BY Invariance, <1>1, PTL

\* TarEntriesIter answers None for ever after an error or the end.
THEOREM TarFused == Spec => TarIsFused
    <1>1. IInv /\ [Next]_vars =>
            [caller = "iterates" /\ answer.is \in {"none", "error"} => answer'.is = "none"]_vars
        <2> SUFFICES ASSUME IInv, Next, caller = "iterates", answer.is \in {"none", "error"}
                     PROVE  answer'.is = "none" \/ UNCHANGED vars
            OBVIOUS
        <2>1. phase = "iterate" /\ finished
            BY DEF IInv, Control, Fused
        <2>2. Search \/ AskAgain
            BY <2>1
            DEF Next, OpenTar, OpenPacked, OpenZip, OpenFails, Collect, CollectFails,
                CollectEnds, ChargeEntry, ReadDirectory, DirectoryFails, DirectoryEnds, Unzip,
                UnzipFails, AtMember, Extracted, Enter, Opened, TooMany, TooMuch, Descend,
                Push, Takes, Counts, AtEntry, Return, Stop
        <2>3. ~Search
            BY DEF Search, TarSearch, TarExhausted, TarEndMarker, TarMalformed, TarRefused,
                TarEntry, Searching
        <2> QED
            <3>1. answer' = [is |-> IF finished THEN "none" ELSE "searching"]
                BY <2>2, <2>3 DEF AskAgain, TarNext
            <3>2. answer' = [is |-> "none"]
                BY <2>1, <3>1, Zenon
            <3> QED
                BY <3>2
    <1> QED
        BY Invariance, <1>1, PTL DEF Spec, TarIsFused

-----------------------------------------------------------------------------

\* Recursive functions: their equations, and what they return, by induction.

\* Every set of numbers that is not empty has a least one.
LEMMA LeastNumber ==
    ASSUME NEW T, T \subseteq Nat, T # {}
    PROVE  \E least \in T : \A n \in T : least <= n
    <1> DEFINE R == OpToRel(<, Nat)
    <1>1. IsWellFoundedOn(R, Nat)
        BY NatLessThanWellFounded
    <1> HIDE DEF R
    <1>2. PICK least \in T : \A n \in T : ~ (<<n, least>> \in R)
        BY <1>1, WFMin
    <1>3. \A n \in T : <<n, least>> \in R <=> n < least
        BY DEF R, OpToRel
    <1>4. \A n \in T : ~ (n < least) /\ n \in Nat /\ least \in Nat
        BY <1>2, <1>3
    <1> QED
        BY <1>4

\* Induction, stated of a set: no prover here can instantiate the library's theorem,
\* which is stated of an operator.
LEMMA Induction ==
    ASSUME NEW T, 0 \in T, \A n \in Nat : n \in T => n + 1 \in T
    PROVE  Nat \subseteq T
    <1> SUFFICES ASSUME Nat \ T # {} PROVE FALSE
        OBVIOUS
    <1>1. PICK least \in Nat \ T : \A n \in Nat \ T : least <= n
        BY LeastNumber
    <1>2. least # 0 /\ least - 1 \in Nat /\ least - 1 \notin Nat \ T
        BY <1>1
    <1> QED
        BY <1>1, <1>2

\* It does not matter which two of three are joined first.
LEMMA Joined ==
    ASSUME NEW A, NEW x \in Seq(A), NEW y \in Seq(A), NEW z \in Seq(A)
    PROVE  (x \o y) \o z = x \o (y \o z)
    BY ConcatAssociative

\* The entries of s, one behind the other: by its equation.
LEMMA Flattens ==
    ASSUME NEW A, NEW s \in Seq(Seq(A))
    PROVE  \E upto :
             /\ \A k \in 1 .. Len(s) : upto[k] = IF k = 1 THEN s[1] ELSE upto[k - 1] \o s[k]
             /\ FlattenSeq(s) = IF Len(s) = 0 THEN <<>> ELSE upto[Len(s)]
    <1> DEFINE Solves(f, n) ==
                 f = [k \in 1 .. n |-> IF k = 1 THEN s[k] ELSE f[k - 1] \o s[k]]
               T == { n \in Nat : \E f : Solves(f, n) }
               upto == CHOOSE f : Solves(f, Len(s))
    <1>1. 0 \in T
        <2>1. Solves([k \in 1 .. 0 |-> s[k]], 0)
            OBVIOUS
        <2> QED
            BY <2>1
    <1>2. ASSUME NEW n \in Nat, n \in T PROVE n + 1 \in T
        <2>1. PICK f : Solves(f, n)
            BY <1>2
        <2> DEFINE h == [k \in 1 .. n + 1 |-> IF k = 1 THEN s[k] ELSE f[k - 1] \o s[k]]
        <2>2. \A k \in 1 .. n : f[k] = h[k]
            <3>1. \A k \in 1 .. n : f[k] = IF k = 1 THEN s[k] ELSE f[k - 1] \o s[k]
                BY <2>1, Zenon
            <3>2. 1 .. n \subseteq 1 .. n + 1
                OBVIOUS
            <3> QED
                BY <3>1, <3>2, Zenon
        <2>3. \A k \in 1 .. n + 1 : k # 1 => k - 1 \in 1 .. n
            OBVIOUS
        <2>4. Solves(h, n + 1)
            BY <2>2, <2>3
        <2> HIDE DEF Solves, h
        <2> QED
            BY <2>4
    <1>3. Nat \subseteq T
        <2> HIDE DEF T
        <2> QED
            BY <1>1, <1>2, Induction
    <1>4. Solves(upto, Len(s))
        <2>1. \E f : Solves(f, Len(s))
            <3>1. Len(s) \in Nat
                OBVIOUS
            <3> QED
                BY <1>3, <3>1
        <2> HIDE DEF Solves
        <2> QED
            BY <2>1, Zenon
    <1>5. FlattenSeq(s) = IF Len(s) = 0 THEN s ELSE upto[Len(s)]
        BY Zenon DEF FlattenSeq
    <1>6. Len(s) = 0 => s = <<>>
        OBVIOUS
    <1>7. \A k \in 1 .. Len(s) : upto[k] = IF k = 1 THEN s[1] ELSE upto[k - 1] \o s[k]
        <2> HIDE DEF upto
        <2> QED
            BY <1>4
    <1> HIDE DEF upto
    <1> QED
        BY <1>5, <1>6, <1>7

\* Of nothing there is nothing to join.
LEMMA FlattenEmpty == FlattenSeq(<<>>) = <<>>
    BY DEF FlattenSeq

\* What is flattened is what the first holds and what the rest does.
LEMMA FlattenHead ==
    ASSUME NEW A, NEW s \in Seq(Seq(A)), s # <<>>
    PROVE  /\ FlattenSeq(s) \in Seq(A)
           /\ FlattenSeq(Tail(s)) \in Seq(A)
           /\ FlattenSeq(s) = Head(s) \o FlattenSeq(Tail(s))
    <1> DEFINE t == Tail(s)
               N == Len(s)
    <1>1. /\ N \in Nat \ {0} /\ Head(s) = s[1] /\ t \in Seq(Seq(A)) /\ Len(t) = N - 1
          /\ \A k \in 1 .. N : s[k] \in Seq(A)
          /\ \A k \in 1 .. N - 1 : t[k] = s[k + 1]
        OBVIOUS
    <1>2. PICK f :
            /\ \A k \in 1 .. N : f[k] = IF k = 1 THEN s[1] ELSE f[k - 1] \o s[k]
            /\ FlattenSeq(s) = IF N = 0 THEN <<>> ELSE f[N]
        BY Flattens
    <1> HIDE DEF t
    <1>3. PICK g :
            /\ \A k \in 1 .. Len(t) : g[k] = IF k = 1 THEN t[1] ELSE g[k - 1] \o t[k]
            /\ FlattenSeq(t) = IF Len(t) = 0 THEN <<>> ELSE g[Len(t)]
        BY <1>1, Flattens
    <1> DEFINE upto(k) == IF k = 0 THEN <<>> ELSE g[k]
               T == { k \in Nat : k < N => /\ f[k + 1] \in Seq(A)
                                           /\ upto(k) \in Seq(A)
                                           /\ f[k + 1] = s[1] \o upto(k) }
    <1> HIDE DEF N
    <1>4. 0 \in T
        BY <1>1, <1>2, ConcatEmptySeq, EmptySeq
    <1>5. ASSUME NEW k \in Nat, k \in T PROVE k + 1 \in T
        <2> SUFFICES ASSUME k + 1 < N
                     PROVE  /\ f[(k + 1) + 1] \in Seq(A)
                            /\ upto(k + 1) \in Seq(A)
                            /\ f[(k + 1) + 1] = s[1] \o upto(k + 1)
            <3> HIDE DEF upto
            <3>1. k + 1 \in Nat
                OBVIOUS
            <3> QED
                BY <3>1
        <2>1. /\ k + 2 \in 1 .. N /\ k + 2 # 1 /\ (k + 2) - 1 = k + 1
              /\ k + 1 \in 1 .. N - 1 /\ (k + 1) - 1 = k /\ k + 1 # 0 /\ k < N
              /\ (k + 1) + 1 = k + 2
            BY <1>1
        <2>2. f[k + 1] \in Seq(A) /\ upto(k) \in Seq(A) /\ f[k + 1] = s[1] \o upto(k)
            BY <1>5, <2>1
        <2>3. f[k + 2] = f[k + 1] \o s[k + 2]
            BY <1>2, <2>1
        <2>4. s[k + 2] = t[k + 1] /\ s[k + 2] \in Seq(A) /\ s[1] \in Seq(A)
            BY <1>1, <2>1
        <2>5. upto(k + 1) = upto(k) \o t[k + 1]
            <3>1. g[k + 1] = IF k + 1 = 1 THEN t[1] ELSE g[k] \o t[k + 1]
                BY <1>1, <1>3, <2>1
            <3>2. CASE k = 0
                BY <2>4, <3>1, <3>2, ConcatEmptySeq
            <3>3. CASE k # 0
                <4>1. k + 1 # 1
                    BY <3>3
                <4> QED
                    BY <2>1, <3>1, <3>3, <4>1, Zenon
            <3> QED
                BY <3>2, <3>3
        <2> HIDE DEF upto
        <2> DEFINE u == upto(k)
                   x == s[k + 2]
                   y == s[1]
        <2>6. u \in Seq(A) /\ x \in Seq(A) /\ y \in Seq(A)
            BY <2>2, <2>4
        <2>7. upto(k + 1) = u \o x /\ f[k + 2] = (y \o u) \o x
            BY <2>2, <2>3, <2>4, <2>5
        <2> HIDE DEF T, u, x, y
        <2>8. u \o x \in Seq(A)
            BY <2>6, ConcatProperties
        <2>9. (y \o u) \o x = y \o (u \o x)
            <3>1. \A a, b, c \in Seq(A) : (a \o b) \o c = a \o (b \o c)
                BY Joined
            <3> QED
                BY <2>6, <3>1
        <2>10. y \o (u \o x) \in Seq(A)
            BY <2>6, <2>8, ConcatProperties
        <2> QED
            BY <2>1, <2>7, <2>8, <2>9, <2>10 DEF T, y
    <1>6. Nat \subseteq T
        <2> HIDE DEF T
        <2> QED
            BY <1>4, <1>5, Induction
    <1>7. N - 1 \in T /\ N - 1 < N /\ (N - 1) + 1 = N
        <2> HIDE DEF T
        <2> QED
            BY <1>1, <1>6
    <1>8. f[N] \in Seq(A) /\ upto(N - 1) \in Seq(A) /\ f[N] = s[1] \o upto(N - 1)
        BY <1>7
    <1>9. FlattenSeq(s) = f[N] /\ FlattenSeq(t) = upto(N - 1)
        BY <1>1, <1>2, <1>3
    <1> QED
        BY <1>1, <1>8, <1>9 DEF t

\* The first of the last k blocks, and how many of them are behind its payload.
FromEnd(b, k) == Blocks[b][Len(Blocks[b]) - k + 1]

Behind(b, k) == k - 1 - ((FromEnd(b, k).size + BlockSize - 1) \div BlockSize)

NoFile(b, k) == k = 0 \/ FromEnd(b, k).is # "header" \/ Behind(b, k) < 0

FileFrom(b, k) == IF FromEnd(b, k).regular THEN <<FromEnd(b, k).payload>> ELSE <<>>

\* A header that leads to a file leads on to fewer blocks.
LEMMA BlockFacts ==
    ASSUME NEW b \in Blob, NEW k \in 0 .. Len(Blocks[b]), ~NoFile(b, k)
    PROVE  /\ Behind(b, k) \in 0 .. k - 1
           /\ FileFrom(b, k) \in Seq(Blob)
    <1>1. Blocks[b] \in Seq(Block) /\ BlockSize \in Nat \ {0}
        BY TarAssumption
    <1>2. Len(Blocks[b]) \in Nat
        BY <1>1
    <1>3. k # 0 /\ Len(Blocks[b]) - k + 1 \in 1 .. Len(Blocks[b])
        BY <1>2 DEF NoFile
    <1>4. FromEnd(b, k) \in Block /\ FromEnd(b, k).is = "header"
        BY <1>1, <1>3 DEF NoFile, FromEnd
    <1>5. FromEnd(b, k).size \in Nat /\ FromEnd(b, k).payload \in Blob
        BY <1>4 DEF Block
    <1>6. ASSUME NEW n \in Nat PROVE (n + BlockSize - 1) \div BlockSize \in Nat
        BY <1>1
    <1>7. Behind(b, k) \in 0 .. k - 1
        <2> DEFINE blocks == (FromEnd(b, k).size + BlockSize - 1) \div BlockSize
        <2>1. blocks \in Nat
            BY <1>5, <1>6
        <2>2. Behind(b, k) = k - 1 - blocks /\ ~(Behind(b, k) < 0)
            BY DEF Behind, NoFile
        <2> HIDE DEF blocks
        <2> QED
            BY <1>2, <1>3, <2>1, <2>2
    <1> QED
        BY <1>5, <1>7 DEF FileFrom

\* The equation of FilesAmong.
LEMMA AmongEquation ==
    ASSUME NEW b \in Blob
    PROVE  \A k \in 0 .. Len(Blocks[b]) :
             FilesAmong(b)[k] =
               IF NoFile(b, k) THEN <<>> ELSE FileFrom(b, k) \o FilesAmong(b)[Behind(b, k)]
    <1> DEFINE N == Len(Blocks[b])
               Step(f, k) == IF NoFile(b, k) THEN <<>> ELSE FileFrom(b, k) \o f[Behind(b, k)]
               Solves(f, n) == f = [k \in 0 .. n |-> Step(f, k)]
               T == { n \in Nat : n <= N => \E f : Solves(f, n) }
               among == CHOOSE f : Solves(f, N)
    <1>1. N \in Nat
        BY TarAssumption
    <1>2. \A k \in 0 .. N : ~NoFile(b, k) => Behind(b, k) \in 0 .. k - 1
        BY BlockFacts
    <1> HIDE DEF N
    <1>3. 0 \in T
        <2> DEFINE f == [k \in 0 .. 0 |-> <<>>]
        <2>1. NoFile(b, 0)
            BY DEF NoFile
        <2>2. \A k \in 0 .. 0 : k = 0
            OBVIOUS
        <2>3. Solves(f, 0)
            BY <2>1, <2>2, Zenon
        <2> HIDE DEF Solves
        <2> QED
            BY <2>3
    <1>4. ASSUME NEW n \in Nat, n \in T PROVE n + 1 \in T
        <2> SUFFICES ASSUME n + 1 <= N PROVE \E f : Solves(f, n + 1)
            OBVIOUS
        <2>1. PICK f : Solves(f, n)
            BY <1>1, <1>4
        <2> DEFINE h == [k \in 0 .. n + 1 |-> Step(f, k)]
        <2>2. \A k \in 0 .. n : f[k] = h[k]
            <3>1. \A k \in 0 .. n : f[k] = Step(f, k)
                BY <2>1, Zenon
            <3>2. 0 .. n \subseteq 0 .. n + 1
                OBVIOUS
            <3> QED
                BY <3>1, <3>2, Zenon
        <2> HIDE DEF h
        <2>3. \A k \in 0 .. n + 1 : ~NoFile(b, k) => Behind(b, k) \in 0 .. n
            BY <1>1, <1>2
        <2>4. \A k \in 0 .. n + 1 : Step(f, k) = Step(h, k)
            BY <2>2, <2>3, Zenon
        <2>5. Solves(h, n + 1)
            BY <2>4, Zenon DEF h
        <2> HIDE DEF Solves
        <2> QED
            BY <2>5
    <1>5. Nat \subseteq T
        <2> HIDE DEF T
        <2> QED
            BY <1>3, <1>4, Induction
    <1>6. \E f : Solves(f, N)
        <2>1. N \in T
            BY <1>1, <1>5
        <2> HIDE DEF Solves
        <2> QED
            BY <1>1, <2>1
    <1>7. Solves(among, N)
        <2> HIDE DEF Solves
        <2> QED
            BY <1>6, Zenon
    <1>8. FilesAmong(b) = among
        BY Zenon DEF FilesAmong, FromEnd, Behind, NoFile, FileFrom, N
    <1>9. \A k \in 0 .. N : among[k] = Step(among, k)
        <2> HIDE DEF among
        <2> QED
            BY <1>7, Zenon
    <1> HIDE DEF among
    <1> QED
        BY <1>8, <1>9, Zenon DEF N

\* The files of a tar are blobs.
LEMMA AmongFiles ==
    ASSUME NEW b \in Blob
    PROVE  \A k \in 0 .. Len(Blocks[b]) : FilesAmong(b)[k] \in Seq(Blob)
    <1> DEFINE N == Len(Blocks[b])
               T == { n \in Nat : \A k \in 0 .. n : k <= N => FilesAmong(b)[k] \in Seq(Blob) }
    <1>1. N \in Nat
        BY TarAssumption
    <1>2. ASSUME NEW n \in Nat, n <= N,
                 \A k \in 0 .. n - 1 : FilesAmong(b)[k] \in Seq(Blob)
          PROVE  FilesAmong(b)[n] \in Seq(Blob)
        <2>1. n \in 0 .. Len(Blocks[b])
            BY <1>1, <1>2
        <2>2. CASE NoFile(b, n)
            BY <2>1, <2>2, AmongEquation, EmptySeq
        <2>3. CASE ~NoFile(b, n)
            <3>1. Behind(b, n) \in 0 .. n - 1 /\ FileFrom(b, n) \in Seq(Blob)
                BY <2>1, <2>3, BlockFacts
            <3>2. FilesAmong(b)[n] = FileFrom(b, n) \o FilesAmong(b)[Behind(b, n)]
                BY <2>1, <2>3, AmongEquation
            <3> QED
                BY <1>2, <3>1, <3>2, ConcatProperties
        <2> QED
            BY <2>2, <2>3
    <1> HIDE DEF N
    <1>3. 0 \in T
        BY <1>1, <1>2
    <1>4. ASSUME NEW n \in Nat, n \in T PROVE n + 1 \in T
        <2>1. \A k \in 0 .. n : k <= N => FilesAmong(b)[k] \in Seq(Blob)
            BY <1>4
        <2>2. n + 1 <= N => FilesAmong(b)[n + 1] \in Seq(Blob)
            BY <1>1, <1>2, <2>1
        <2> QED
            BY <2>1, <2>2
    <1>5. Nat \subseteq T
        <2> HIDE DEF T
        <2> QED
            BY <1>3, <1>4, Induction
    <1> QED
        BY <1>1, <1>5 DEF N

LEMMA FilesOfType ==
    ASSUME NEW b \in Blob
    PROVE  FilesOf(b) \in Seq(Blob)
    <1>1. Len(Blocks[b]) \in 0 .. Len(Blocks[b])
        BY TarAssumption
    <1> QED
        BY <1>1, AmongFiles DEF FilesOf

\* What is chosen is a blob, and one of the set if there is any.
LEMMA TheOneIsBlob ==
    ASSUME NEW b \in Blob, NEW S, S \subseteq Blob
    PROVE  /\ TheOne(S) \in Blob
           /\ S # {} => TheOne(S) \in S
    <1>1. \E c \in Blob : S # {} => c \in S
        OBVIOUS
    <1> QED
        BY <1>1, Zenon DEF TheOne

\* No header of a directory can be read at h.
NoHeader(b, h) == h >= Size[b] \/ ~Reads(b, h, "central")

ListedAt(b, h) == IF FolderAt(b, h) THEN <<>> ELSE <<TheOne(KeptAt(b, h))>>

\* A header that can be read leads on, and to files.
LEMMA HeaderFacts ==
    ASSUME NEW b \in Blob, NEW h \in Nat, ~NoHeader(b, h)
    PROVE  /\ Bytes[b][h + 1] \in Byte
           /\ NextAt(b, h) \in Nat
           /\ ListedAt(b, h) \in Seq(Blob)
    <1>1. Size[b] \in Nat /\ h < Size[b]
        BY BlobAssumption DEF NoHeader
    <1>2. Bytes[b][h + 1] \in Byte
        BY <1>1, ByteAt
    <1>3. Bytes[b][h + 1].is = "central"
        BY DEF NoHeader, Reads
    <1>4. {Bytes[b][h + 1].name, Bytes[b][h + 1].extra, Bytes[b][h + 1].comment} \subseteq Nat
        BY <1>2, <1>3 DEF Byte
    <1>5. NextAt(b, h) \in Nat
        <2>1. CentralSize \in Nat
            BY ZipAssumption
        <2> QED
            BY <1>4, <2>1 DEF NextAt
    <1>6. KeptAt(b, h) \subseteq Blob
        BY ArchiveAssumption DEF KeptAt
    <1>7. TheOne(KeptAt(b, h)) \in Blob
        BY <1>6, TheOneIsBlob
    <1> QED
        BY <1>2, <1>5, <1>7 DEF ListedAt

\* The equation of FilesListed.
LEMMA ListedEquation ==
    ASSUME NEW b \in Blob, NEW n \in Nat
    PROVE  \A k \in 0 .. n : \A h \in Nat :
             FilesListed(b, n)[k][h] =
               IF k = 0 \/ NoHeader(b, h)
               THEN <<>>
               ELSE ListedAt(b, h) \o FilesListed(b, n)[k - 1][NextAt(b, h)]
    <1> DEFINE Row(f, k) ==
                 [h \in Nat |-> IF k = 0 \/ NoHeader(b, h)
                                THEN <<>>
                                ELSE ListedAt(b, h) \o f[k - 1][NextAt(b, h)]]
               Solves(f, m) == f = [k \in 0 .. m |-> Row(f, k)]
               T == { m \in Nat : \E f : Solves(f, m) }
               files == CHOOSE f : Solves(f, n)
    <1>1. 0 \in T
        <2> DEFINE f == [k \in 0 .. 0 |-> [h \in Nat |-> <<>>]]
        <2>1. \A k \in 0 .. 0 : k = 0
            OBVIOUS
        <2>2. Solves(f, 0)
            BY <2>1, Zenon
        <2> HIDE DEF Solves
        <2> QED
            BY <2>2
    <1>2. ASSUME NEW m \in Nat, m \in T PROVE m + 1 \in T
        <2>1. PICK f : Solves(f, m)
            BY <1>2
        <2> DEFINE g == [k \in 0 .. m + 1 |-> Row(f, k)]
        <2>2. \A k \in 0 .. m : f[k] = g[k]
            <3>1. \A k \in 0 .. m : f[k] = Row(f, k)
                BY <2>1, Zenon
            <3>2. 0 .. m \subseteq 0 .. m + 1
                OBVIOUS
            <3> HIDE DEF Row
            <3> QED
                BY <3>1, <3>2, Zenon
        <2> HIDE DEF g
        <2>3. \A k \in 0 .. m + 1 : k # 0 => k - 1 \in 0 .. m
            OBVIOUS
        <2>4. \A k \in 0 .. m + 1 : Row(f, k) = Row(g, k)
            BY <2>2, <2>3, Zenon
        <2>5. Solves(g, m + 1)
            <3> HIDE DEF Row
            <3> QED
                BY <2>4, Zenon DEF g
        <2> HIDE DEF Solves
        <2> QED
            BY <2>5
    <1>3. Nat \subseteq T
        <2> HIDE DEF T
        <2> QED
            BY <1>1, <1>2, Induction
    <1>4. \E f : Solves(f, n)
        <2> HIDE DEF Solves
        <2> QED
            BY <1>3
    <1>5. Solves(files, n)
        <2> HIDE DEF Solves
        <2> QED
            BY <1>4, Zenon
    <1>6. FilesListed(b, n) = files
        BY Zenon DEF FilesListed, NoHeader, ListedAt
    <1>7. \A k \in 0 .. n : files[k] = Row(files, k)
        <2> HIDE DEF files, Row
        <2> QED
            BY <1>5, Zenon
    <1> HIDE DEF files
    <1> QED
        BY <1>6, <1>7, Zenon

\* The files of a zip are blobs.
LEMMA ListedFiles ==
    ASSUME NEW b \in Blob, NEW n \in Nat
    PROVE  \A k \in 0 .. n : \A h \in Nat : FilesListed(b, n)[k][h] \in Seq(Blob)
    <1> DEFINE T == { k \in Nat : k <= n => \A h \in Nat : FilesListed(b, n)[k][h] \in Seq(Blob) }
    <1>1. 0 \in T
        <2>1. 0 \in 0 .. n
            OBVIOUS
        <2>2. \A h \in Nat : FilesListed(b, n)[0][h] = <<>>
            BY <2>1, ListedEquation, Zenon
        <2> QED
            BY <2>2, EmptySeq
    <1>2. ASSUME NEW k \in Nat, k \in T PROVE k + 1 \in T
        <2> SUFFICES ASSUME k + 1 <= n, NEW h \in Nat
                     PROVE  FilesListed(b, n)[k + 1][h] \in Seq(Blob)
            OBVIOUS
        <2>1. /\ k + 1 \in 0 .. n /\ k + 1 # 0 /\ (k + 1) - 1 = k
              /\ \A i \in Nat : FilesListed(b, n)[k][i] \in Seq(Blob)
            BY <1>2
        <2>2. CASE NoHeader(b, h)
            BY <2>1, <2>2, ListedEquation, EmptySeq
        <2>3. CASE ~NoHeader(b, h)
            <3>1. NextAt(b, h) \in Nat /\ ListedAt(b, h) \in Seq(Blob)
                BY <2>3, HeaderFacts
            <3>2. FilesListed(b, n)[k + 1][h] =
                    ListedAt(b, h) \o FilesListed(b, n)[k][NextAt(b, h)]
                <4>1. FilesListed(b, n)[k + 1][h] =
                        IF k + 1 = 0 \/ NoHeader(b, h)
                        THEN <<>>
                        ELSE ListedAt(b, h) \o FilesListed(b, n)[(k + 1) - 1][NextAt(b, h)]
                    BY <2>1, ListedEquation, Zenon
                <4> QED
                    BY <2>1, <2>3, <4>1, Zenon
            <3> QED
                BY <2>1, <3>1, <3>2, ConcatProperties
        <2> QED
            BY <2>2, <2>3
    <1>3. Nat \subseteq T
        <2> HIDE DEF T
        <2> QED
            BY <1>1, <1>2, Induction
    <1> QED
        BY <1>3

\* An end record that is found is the only one.
LEMMA TheEndFacts ==
    ASSUME NEW b \in Blob, NEW e \in EndRecords(b)
    PROVE  /\ TheEnd(b) = e
           /\ e.count \in Nat /\ e.start \in Nat
    <1>1. PICK o \in EndOffsets(b) : e = Bytes[b][o + 1] /\ \A p \in EndOffsets(b) : p <= o
        BY DEF EndRecords
    <1>2. PICK q \in EndOffsets(b) :
            TheEnd(b) = Bytes[b][q + 1] /\ \A p \in EndOffsets(b) : p <= q
        <2>1. TheEnd(b) \in EndRecords(b)
            BY Zenon DEF TheEnd
        <2> QED
            BY <2>1 DEF EndRecords
    <1>3. EndOffsets(b) \subseteq 0 .. Size[b] - EndSize /\ Size[b] \in Nat /\ EndSize \in Nat \ {0}
        BY BlobAssumption, ZipAssumption DEF EndOffsets
    <1>4. o = q
        BY <1>1, <1>2, <1>3
    <1>5. e \in Byte
        BY <1>1, <1>3, ByteAt
    <1>6. e.is = "end"
        BY <1>1 DEF EndOffsets, Reads
    <1> QED
        BY <1>1, <1>2, <1>4, <1>5, <1>6 DEF Byte

\* The entries of an archive are blobs, whatever its format.
LEMMA EntriesOfType ==
    ASSUME NEW b \in Blob
    PROVE  EntriesOf(b) \in Seq(Blob)
    <1>1. FilesOf(b) \in Seq(Blob)
        BY FilesOfType
    <1>2. FilesOf(TheOne(Inner[b])) \in Seq(Blob)
        BY TheOneIsBlob, FilesOfType, ArchiveAssumption
    <1>3. UnzippedOf(b) \in Seq(Blob)
        <2>1. CASE EndRecords(b) = {}
            BY <2>1, EmptySeq DEF UnzippedOf
        <2>2. CASE EndRecords(b) # {}
            <3>1. TheEnd(b) \in EndRecords(b)
                BY <2>2, Zenon DEF TheEnd
            <3>2. TheEnd(b).count \in Nat /\ TheEnd(b).start \in Nat
                BY <3>1, TheEndFacts
            <3>3. TheEnd(b).count \in 0 .. TheEnd(b).count
                BY <3>2
            <3> QED
                BY <2>2, <3>2, <3>3, ListedFiles DEF UnzippedOf
        <2> QED
            BY <2>1, <2>2
    <1>4. <<>> \in Seq(Blob)
        OBVIOUS
    <1> QED
        BY <1>1, <1>2, <1>3, <1>4, Zenon DEF EntriesOf

-----------------------------------------------------------------------------

\* What an archive holds: the names of the files in it and in the archives in it.

\* The names of entries, put under that of the archive they are in, n.
Within(n, names) == [i \in DOMAIN names |-> n \o names[i]]

\* The names of the files that the entry e stands for, d layers above the last.
Under(d, e) ==
    IF d > 0 /\ Format[e] # "unknown" THEN Within(<<e>>, Contents[d - 1][e]) ELSE << <<e>> >>

\* Those of the entries s.
All(d, s) == FlattenSeq([i \in DOMAIN s |-> Under(d, s[i])])

\* What is still to come of one call of extract_recursive_into, and of all of them, the
\* last first.
ToCome(f) == Within(f.name, All(f.depth, f.rest))

Pending(fs) ==
    LET upto[k \in 0 .. Len(fs)] == IF k = 0 THEN <<>> ELSE ToCome(fs[k]) \o upto[k - 1]
    IN  upto[Len(fs)]

\* A name is put before each of the names.
LEMMA WithinFacts ==
    ASSUME NEW n \in Name, NEW c \in Seq(Name)
    PROVE  /\ Within(n, c) \in Seq(Name)
           /\ Len(Within(n, c)) = Len(c)
           /\ \A i \in 1 .. Len(c) : c[i] \in Name /\ Within(n, c)[i] = n \o c[i]
    <1>1. /\ Len(c) \in Nat /\ DOMAIN c = 1 .. Len(c)
          /\ \A i \in 1 .. Len(c) : c[i] \in Name
        OBVIOUS
    <1>2. \A i \in 1 .. Len(c) : n \o c[i] \in Name
        BY <1>1, ConcatProperties DEF Name
    <1>3. Within(n, c) = [i \in 1 .. Len(c) |-> n \o c[i]]
        BY <1>1 DEF Within
    <1> QED
        BY <1>1, <1>2, <1>3

\* It is put before the names of two archives, one behind the other.
LEMMA WithinConcat ==
    ASSUME NEW n \in Name, NEW a \in Seq(Name), NEW c \in Seq(Name)
    PROVE  Within(n, a \o c) = Within(n, a) \o Within(n, c)
    <1> DEFINE s == Within(n, a \o c)
               t == Within(n, a) \o Within(n, c)
               L == Len(a) + Len(c)
    <1>1. /\ Len(a) \in Nat /\ Len(c) \in Nat
          /\ a \o c \in Seq(Name) /\ Len(a \o c) = L
          /\ \A i \in 1 .. L : (a \o c)[i] = IF i <= Len(a) THEN a[i] ELSE c[i - Len(a)]
        BY ConcatProperties, LenProperties
    <1>2. /\ s \in Seq(Name) /\ Len(s) = L
          /\ \A i \in 1 .. L : s[i] = n \o (a \o c)[i]
        BY <1>1, WithinFacts
    <1>3. /\ Within(n, a) \in Seq(Name) /\ Len(Within(n, a)) = Len(a)
          /\ Within(n, c) \in Seq(Name) /\ Len(Within(n, c)) = Len(c)
          /\ \A i \in 1 .. Len(a) : Within(n, a)[i] = n \o a[i]
          /\ \A i \in 1 .. Len(c) : Within(n, c)[i] = n \o c[i]
        BY WithinFacts
    <1>4. /\ t \in Seq(Name) /\ Len(t) = L
          /\ \A i \in 1 .. L :
               t[i] = IF i <= Len(a) THEN Within(n, a)[i] ELSE Within(n, c)[i - Len(a)]
        <2>1. ASSUME NEW x \in Seq(Name), NEW y \in Seq(Name)
              PROVE  /\ x \o y \in Seq(Name) /\ Len(x \o y) = Len(x) + Len(y)
                     /\ \A i \in 1 .. Len(x) + Len(y) :
                          (x \o y)[i] = IF i <= Len(x) THEN x[i] ELSE y[i - Len(x)]
            BY ConcatProperties
        <2> DEFINE x == Within(n, a)
                   y == Within(n, c)
        <2>2. /\ x \in Seq(Name) /\ y \in Seq(Name) /\ Len(x) = Len(a) /\ Len(y) = Len(c)
              /\ t = x \o y
            BY <1>3
        <2> HIDE DEF x, y, t
        <2>3. /\ t \in Seq(Name) /\ Len(t) = L
              /\ \A i \in 1 .. L : t[i] = IF i <= Len(a) THEN x[i] ELSE y[i - Len(a)]
            <3>1. /\ x \o y \in Seq(Name) /\ Len(x \o y) = Len(x) + Len(y)
                  /\ \A i \in 1 .. Len(x) + Len(y) :
                       (x \o y)[i] = IF i <= Len(x) THEN x[i] ELSE y[i - Len(x)]
                BY <2>1, <2>2, Zenon
            <3> QED
                BY <2>2, <3>1, Zenon
        <2> QED
            BY <2>3 DEF x, y
    <1> HIDE DEF s, t
    <1>5. ASSUME NEW i \in 1 .. L PROVE s[i] = t[i]
        <2>1. CASE i <= Len(a)
            <3>1. i \in 1 .. Len(a)
                BY <1>1, <2>1
            <3> QED
                BY <1>1, <1>2, <1>3, <1>4, <2>1, <3>1, Zenon
        <2>2. CASE ~(i <= Len(a))
            <3>1. i - Len(a) \in 1 .. Len(c)
                BY <1>1, <2>2
            <3> QED
                BY <1>1, <1>2, <1>3, <1>4, <2>2, <3>1, Zenon
        <2> QED
            BY <2>1, <2>2
    <1>6. s = t
        BY <1>2, <1>4, <1>5, SeqEqual
    <1> QED
        BY <1>6 DEF s, t

\* The name of an archive in an archive.
LEMMA WithinTwice ==
    ASSUME NEW n \in Name, NEW e \in Blob, NEW c \in Seq(Name)
    PROVE  Within(n, Within(<<e>>, c)) = Within(Append(n, e), c)
    <1> DEFINE s == Within(n, Within(<<e>>, c))
               t == Within(Append(n, e), c)
    <1>1. <<e>> \in Name /\ Append(n, e) \in Name /\ Append(n, e) = n \o <<e>>
        BY AppendProperties, AppendIsConcat DEF Name
    <1>2. /\ Within(<<e>>, c) \in Seq(Name) /\ Len(Within(<<e>>, c)) = Len(c)
          /\ \A i \in 1 .. Len(c) : c[i] \in Name /\ Within(<<e>>, c)[i] = <<e>> \o c[i]
        BY <1>1, WithinFacts
    <1>3. /\ s \in Seq(Name) /\ Len(s) = Len(c)
          /\ \A i \in 1 .. Len(c) : s[i] = n \o Within(<<e>>, c)[i]
        BY <1>2, WithinFacts
    <1>4. /\ t \in Seq(Name) /\ Len(t) = Len(c)
          /\ \A i \in 1 .. Len(c) : t[i] = Append(n, e) \o c[i]
        BY <1>1, WithinFacts
    <1> HIDE DEF s, t
    <1>5. ASSUME NEW i \in 1 .. Len(c) PROVE s[i] = t[i]
        <2>1. (n \o <<e>>) \o c[i] = n \o (<<e>> \o c[i])
            <3> DEFINE x == c[i]
                       y == <<e>>
            <3>1. n \in Seq(Blob) /\ y \in Seq(Blob) /\ x \in Seq(Blob)
                BY <1>1, <1>2 DEF Name
            <3> HIDE DEF x, y
            <3>2. (n \o y) \o x = n \o (y \o x)
                BY <3>1, ConcatAssociative
            <3> QED
                BY <3>2 DEF x, y
        <2> QED
            BY <1>1, <1>2, <1>3, <1>4, <2>1, Zenon
    <1>6. s = t
        BY <1>3, <1>4, <1>5, SeqEqual
    <1> QED
        BY <1>6 DEF s, t

\* The outermost archive has no name.
LEMMA WithinNothing ==
    ASSUME NEW c \in Seq(Name)
    PROVE  Within(<<>>, c) = c
    <1>1. <<>> \in Name
        BY EmptySeq DEF Name
    <1>2. /\ Within(<<>>, c) \in Seq(Name) /\ Len(Within(<<>>, c)) = Len(c)
          /\ \A i \in 1 .. Len(c) : c[i] \in Name /\ Within(<<>>, c)[i] = <<>> \o c[i]
        BY <1>1, WithinFacts
    <1>3. \A i \in 1 .. Len(c) : <<>> \o c[i] = c[i]
        BY <1>2, ConcatEmptySeq DEF Name
    <1> QED
        BY <1>2, <1>3, SeqEqual

LEMMA WithinEmpty ==
    ASSUME NEW n PROVE Within(n, <<>>) = <<>>
    BY DEF Within

LEMMA WithinOne ==
    ASSUME NEW n \in Name, NEW e \in Blob
    PROVE  Within(n, << <<e>> >>) = << Append(n, e) >>
    <1>1. <<e>> \in Name /\ Append(n, e) \in Name /\ Append(n, e) = n \o <<e>>
        BY AppendProperties, AppendIsConcat DEF Name
    <1>2. << <<e>> >> \in Seq(Name) /\ << Append(n, e) >> \in Seq(Name)
        BY <1>1
    <1> DEFINE c == << <<e>> >>
    <1>3. Len(c) = 1 /\ c[1] = <<e>> /\ c \in Seq(Name) /\ 1 \in 1 .. 1
        BY <1>2
    <1> HIDE DEF c
    <1>4. /\ Within(n, c) \in Seq(Name) /\ Len(Within(n, c)) = Len(c)
          /\ \A i \in 1 .. Len(c) : Within(n, c)[i] = n \o c[i]
        BY <1>3, WithinFacts
    <1>5. Len(Within(n, c)) = 1 /\ Within(n, c)[1] = Append(n, e)
        BY <1>1, <1>3, <1>4, Zenon
    <1>6. Within(n, c) = << Append(n, e) >>
        BY <1>4, <1>5
    <1> QED
        BY <1>6 DEF c

\* The equation of Contents.
LEMMA ContentsEquation ==
    ASSUME NEW d \in 0 .. MaxDepth, NEW b \in Blob
    PROVE  Contents[d][b] = All(d, EntriesOf(b))
    <1> DEFINE UnderBy(f, k, e) ==
                 IF k > 0 /\ Format[e] # "unknown"
                 THEN [i \in DOMAIN f[k - 1][e] |-> <<e>> \o f[k - 1][e][i]]
                 ELSE << <<e>> >>
               Layer(f, k) ==
                 [x \in Blob |->
                    FlattenSeq([i \in DOMAIN EntriesOf(x) |-> UnderBy(f, k, EntriesOf(x)[i])])]
               Solves(f, n) == f = [k \in 0 .. n |-> Layer(f, k)]
               T == { n \in Nat : \E f : Solves(f, n) }
               contents == CHOOSE f : Solves(f, MaxDepth)
    <1>0. MaxDepth \in Nat
        BY ArchiveAssumption
    <1>1. 0 \in T
        <2> DEFINE f == [k \in 0 .. 0 |-> Layer(<<>>, k)]
        <2>1. \A k \in 0 .. 0 : ~(k > 0)
            OBVIOUS
        <2>2. \A k \in 0 .. 0 : Layer(<<>>, k) = Layer(f, k)
            BY <2>1, Zenon
        <2>3. Solves(f, 0)
            <3> HIDE DEF Layer
            <3> QED
                BY <2>2, Zenon
        <2> HIDE DEF Solves
        <2> QED
            BY <2>3
    <1>2. ASSUME NEW n \in Nat, n \in T PROVE n + 1 \in T
        <2>1. PICK f : Solves(f, n)
            BY <1>2
        <2> DEFINE g == [k \in 0 .. n + 1 |-> Layer(f, k)]
        <2>2. \A k \in 0 .. n : f[k] = g[k]
            <3> HIDE DEF Layer
            <3>1. \A k \in 0 .. n : f[k] = Layer(f, k)
                BY <2>1, Zenon
            <3>2. 0 .. n \subseteq 0 .. n + 1
                OBVIOUS
            <3> QED
                BY <3>1, <3>2, Zenon
        <2> HIDE DEF g
        <2>3. \A k \in 0 .. n + 1 : k > 0 => k - 1 \in 0 .. n
            OBVIOUS
        <2>4. \A k \in 0 .. n + 1 : Layer(f, k) = Layer(g, k)
            <3>1. \A k \in 0 .. n + 1 : \A e : UnderBy(f, k, e) = UnderBy(g, k, e)
                BY <2>2, <2>3, Zenon
            <3> HIDE DEF UnderBy
            <3> QED
                BY <3>1, Zenon
        <2>5. Solves(g, n + 1)
            <3> HIDE DEF Layer
            <3> QED
                BY <2>4, Zenon DEF g
        <2> HIDE DEF Solves
        <2> QED
            BY <2>5
    <1>3. Nat \subseteq T
        <2> HIDE DEF T
        <2> QED
            BY <1>1, <1>2, Induction
    <1>4. \E f : Solves(f, MaxDepth)
        <2> HIDE DEF Solves
        <2> QED
            BY <1>0, <1>3
    <1>5. Solves(contents, MaxDepth)
        <2> HIDE DEF Solves
        <2> QED
            BY <1>4, Zenon
    <1>6. Contents = contents
        BY Zenon DEF Contents
    <1>7. contents[d] = Layer(contents, d)
        <2> HIDE DEF contents, Layer
        <2> QED
            BY <1>5, Zenon
    <1>8. \A e : Under(d, e) = UnderBy(contents, d, e)
        <2> HIDE DEF contents
        <2> QED
            BY <1>6, Zenon DEF Under, Within
    <1> HIDE DEF contents
    <1>9. All(d, EntriesOf(b)) =
            FlattenSeq([i \in DOMAIN EntriesOf(b) |-> UnderBy(contents, d, EntriesOf(b)[i])])
        <2> HIDE DEF UnderBy
        <2> QED
            BY <1>8, Zenon DEF All
    <1> HIDE DEF UnderBy
    <1> QED
        BY <1>6, <1>7, <1>9, Zenon

\* The first entry comes first, and what is in it before the second.
LEMMA AllFacts ==
    ASSUME NEW d, NEW s \in Seq(Blob), \A e \in Blob : Under(d, e) \in Seq(Name)
    PROVE  /\ All(d, <<>>) = <<>>
           /\ s # <<>> => /\ All(d, s) \in Seq(Name)
                          /\ All(d, Tail(s)) \in Seq(Name)
                          /\ All(d, s) = Under(d, Head(s)) \o All(d, Tail(s))
           /\ All(d, s) \in Seq(Name)
    <1> DEFINE q == [i \in DOMAIN s |-> Under(d, s[i])]
    <1>1. All(d, <<>>) = <<>>
        <2>1. [i \in DOMAIN <<>> |-> Under(d, <<>>[i])] = <<>>
            OBVIOUS
        <2> QED
            BY <2>1, FlattenEmpty, Zenon DEF All
    <1>2. CASE s # <<>>
        <2>1. /\ Len(s) \in Nat \ {0} /\ DOMAIN s = 1 .. Len(s) /\ Head(s) = s[1]
              /\ \A i \in 1 .. Len(s) : s[i] \in Blob
              /\ Tail(s) \in Seq(Blob) /\ Len(Tail(s)) = Len(s) - 1
              /\ DOMAIN Tail(s) = 1 .. Len(s) - 1
              /\ \A i \in 1 .. Len(s) - 1 : Tail(s)[i] = s[i + 1]
            BY <1>2
        <2>2. q = [i \in 1 .. Len(s) |-> Under(d, s[i])]
            BY <2>1
        <2>3. /\ q \in Seq(Seq(Name)) /\ Len(q) = Len(s) /\ q[1] = Under(d, s[1])
              /\ \A i \in 1 .. Len(s) : q[i] = Under(d, s[i])
            <3>1. \A i \in 1 .. Len(s) : Under(d, s[i]) \in Seq(Name)
                BY <2>1
            <3> QED
                BY <2>1, <2>2, <3>1
        <2>4. Tail(q) = [i \in DOMAIN Tail(s) |-> Under(d, Tail(s)[i])]
            <3> HIDE DEF q
            <3>1. q # <<>>
                BY <2>1, <2>3
            <3> DEFINE r == Tail(q)
            <3>5. /\ r \in Seq(Seq(Name)) /\ Len(r) = Len(q) - 1
                  /\ \A i \in 1 .. Len(r) : r[i] = q[i + 1]
                BY <2>3, <3>1, HeadTailProperties
            <3>2. \A i \in 1 .. Len(s) - 1 : i + 1 \in 1 .. Len(s)
                BY <2>1
            <3>3. \A i \in 1 .. Len(s) - 1 : q[i + 1] = Under(d, Tail(s)[i])
                BY <2>1, <2>3, <3>2, Zenon
            <3> HIDE DEF r
            <3>4. r = [i \in 1 .. Len(r) |-> r[i]]
                BY <3>5
            <3>6. Len(r) = Len(s) - 1
                BY <2>3, <3>5
            <3>7. r = [i \in 1 .. Len(s) - 1 |-> Under(d, Tail(s)[i])]
                BY <3>3, <3>4, <3>5, <3>6, Zenon
            <3> QED
                BY <2>1, <3>7, Zenon DEF r
        <2>5. All(d, s) = FlattenSeq(q) /\ All(d, Tail(s)) = FlattenSeq(Tail(q))
            BY <2>4, Zenon DEF All
        <2> HIDE DEF q
        <2>6. q # <<>> /\ Head(q) = Under(d, Head(s))
            BY <2>1, <2>3
        <2>7. /\ FlattenSeq(q) \in Seq(Name)
              /\ FlattenSeq(Tail(q)) \in Seq(Name)
              /\ FlattenSeq(q) = Head(q) \o FlattenSeq(Tail(q))
            BY <2>3, <2>6, FlattenHead
        <2> QED
            BY <1>1, <2>5, <2>6, <2>7
    <1>3. CASE s = <<>>
        BY <1>1, <1>3, EmptySeq
    <1> QED
        BY <1>2, <1>3

\* What is in an archive are names.
LEMMA ContentsType ==
    \A d \in 0 .. MaxDepth : \A b \in Blob :
        Contents[d][b] \in Seq(Name) /\ Under(d, b) \in Seq(Name)
    <1> DEFINE Good(d) == \A b \in Blob : Contents[d][b] \in Seq(Name) /\ Under(d, b) \in Seq(Name)
               T == { d \in Nat : d <= MaxDepth => Good(d) }
    <1>1. MaxDepth \in Nat
        BY ArchiveAssumption
    <1>2. ASSUME NEW d \in 0 .. MaxDepth, \A b \in Blob : Under(d, b) \in Seq(Name)
          PROVE  Good(d)
        <2> SUFFICES ASSUME NEW b \in Blob PROVE Contents[d][b] \in Seq(Name)
            BY <1>2
        <2> QED
            BY <1>2, EntriesOfType, ContentsEquation, AllFacts
    <1>3. ASSUME NEW b \in Blob PROVE << <<b>> >> \in Seq(Name) /\ <<b>> \in Name
        BY DEF Name
    <1>4. 0 \in T
        <2>1. \A b \in Blob : Under(0, b) \in Seq(Name)
            <3>1. ~(0 > 0)
                OBVIOUS
            <3> QED
                BY <1>3, <3>1, Zenon DEF Under
        <2> HIDE DEF Good
        <2>2. Good(0)
            BY <1>1, <1>2, <2>1
        <2> QED
            BY <2>2
    <1>5. ASSUME NEW d \in Nat, d \in T PROVE d + 1 \in T
        <2> SUFFICES ASSUME d + 1 <= MaxDepth PROVE Good(d + 1)
            OBVIOUS
        <2>1. d + 1 \in 0 .. MaxDepth /\ (d + 1) - 1 = d /\ Good(d)
            BY <1>1, <1>5
        <2>2. ASSUME NEW b \in Blob PROVE Under(d + 1, b) \in Seq(Name)
            <3>1. Within(<<b>>, Contents[d][b]) \in Seq(Name)
                BY <1>3, <2>1, WithinFacts
            <3> QED
                BY <1>3, <2>1, <3>1, Zenon DEF Under
        <2> HIDE DEF Good
        <2> QED
            BY <1>2, <2>1, <2>2
    <1>6. Nat \subseteq T
        <2> HIDE DEF T
        <2> QED
            BY <1>4, <1>5, Induction
    <1>7. \A d \in 0 .. MaxDepth : Good(d)
        <2> HIDE DEF Good
        <2> QED
            BY <1>1, <1>6
    <1> QED
        BY <1>7

LEMMA AllType ==
    ASSUME NEW d \in 0 .. MaxDepth, NEW s \in Seq(Blob)
    PROVE  All(d, s) \in Seq(Name)
    BY ContentsType, AllFacts

LEMMA AllHead ==
    ASSUME NEW d \in 0 .. MaxDepth, NEW s \in Seq(Blob), s # <<>>
    PROVE  /\ Under(d, Head(s)) \in Seq(Name)
           /\ All(d, Tail(s)) \in Seq(Name)
           /\ All(d, s) = Under(d, Head(s)) \o All(d, Tail(s))
    <1>1. Head(s) \in Blob
        OBVIOUS
    <1>2. \A e \in Blob : Under(d, e) \in Seq(Name)
        BY ContentsType
    <1> QED
        BY <1>1, <1>2, AllFacts

LEMMA ToComeType ==
    ASSUME NEW f \in Frame
    PROVE  ToCome(f) \in Seq(Name)
    <1>1. f.name \in Name /\ f.depth \in 0 .. MaxDepth /\ f.rest \in Seq(Blob)
        BY DEF Frame
    <1>2. All(f.depth, f.rest) \in Seq(Name)
        BY <1>1, AllType
    <1> QED
        BY <1>1, <1>2, WithinFacts DEF ToCome

\* The equation of Pending.
LEMMA PendingEquation ==
    ASSUME NEW fs \in Seq(Frame)
    PROVE  \E upto :
             /\ upto[0] = <<>>
             /\ \A k \in 1 .. Len(fs) : upto[k] = ToCome(fs[k]) \o upto[k - 1]
             /\ Pending(fs) = upto[Len(fs)]
    <1> DEFINE Solves(f, n) ==
                 f = [k \in 0 .. n |-> IF k = 0 THEN <<>> ELSE ToCome(fs[k]) \o f[k - 1]]
               T == { n \in Nat : \E f : Solves(f, n) }
               upto == CHOOSE f : Solves(f, Len(fs))
    <1>0. Len(fs) \in Nat
        OBVIOUS
    <1>1. 0 \in T
        <2> DEFINE f == [k \in 0 .. 0 |-> <<>>]
        <2>1. \A k \in 0 .. 0 : k = 0
            OBVIOUS
        <2>2. Solves(f, 0)
            BY <2>1, Zenon
        <2> HIDE DEF Solves
        <2> QED
            BY <2>2
    <1>2. ASSUME NEW n \in Nat, n \in T PROVE n + 1 \in T
        <2>1. PICK f : Solves(f, n)
            BY <1>2
        <2> DEFINE g == [k \in 0 .. n + 1 |-> IF k = 0 THEN <<>> ELSE ToCome(fs[k]) \o f[k - 1]]
        <2>2. \A k \in 0 .. n : f[k] = g[k]
            <3>1. \A k \in 0 .. n : f[k] = IF k = 0 THEN <<>> ELSE ToCome(fs[k]) \o f[k - 1]
                BY <2>1, Zenon
            <3>2. 0 .. n \subseteq 0 .. n + 1
                OBVIOUS
            <3> QED
                BY <3>1, <3>2, Zenon
        <2> HIDE DEF g
        <2>3. \A k \in 0 .. n + 1 : k # 0 => k - 1 \in 0 .. n
            OBVIOUS
        <2>4. Solves(g, n + 1)
            BY <2>2, <2>3, Zenon DEF g
        <2> HIDE DEF Solves
        <2> QED
            BY <2>4
    <1>3. Nat \subseteq T
        <2> HIDE DEF T
        <2> QED
            BY <1>1, <1>2, Induction
    <1>4. Solves(upto, Len(fs))
        <2>1. \E f : Solves(f, Len(fs))
            <3> HIDE DEF Solves
            <3> QED
                BY <1>0, <1>3
        <2> HIDE DEF Solves
        <2> QED
            BY <2>1, Zenon
    <1>5. Pending(fs) = upto[Len(fs)]
        BY Zenon DEF Pending
    <1>6. \A k \in 0 .. Len(fs) : upto[k] = IF k = 0 THEN <<>> ELSE ToCome(fs[k]) \o upto[k - 1]
        <2> HIDE DEF upto
        <2> QED
            BY <1>4, Zenon
    <1> HIDE DEF upto
    <1>7. upto[0] = <<>>
        BY <1>0, <1>6
    <1>8. \A k \in 1 .. Len(fs) : k # 0 /\ k \in 0 .. Len(fs)
        OBVIOUS
    <1> QED
        BY <1>5, <1>6, <1>7, <1>8, Zenon

LEMMA PendingEmpty == Pending(<<>>) = <<>>
    <1>1. <<>> \in Seq(Frame) /\ Len(<<>>) = 0
        OBVIOUS
    <1>2. PICK upto : upto[0] = <<>> /\ Pending(<<>>) = upto[Len(<<>>)]
        BY <1>1, PendingEquation
    <1> QED
        BY <1>1, <1>2, Zenon

\* What the last call has still to do comes first.
LEMMA PendingAppend ==
    ASSUME NEW fs \in Seq(Frame), NEW f \in Frame
    PROVE  /\ Pending(fs) \in Seq(Name)
           /\ Pending(Append(fs, f)) = ToCome(f) \o Pending(fs)
    <1> DEFINE gs == Append(fs, f)
    <1>1. /\ gs \in Seq(Frame) /\ Len(gs) = Len(fs) + 1 /\ Len(fs) \in Nat
          /\ gs[Len(fs) + 1] = f
          /\ \A k \in 1 .. Len(fs) : gs[k] = fs[k] /\ fs[k] \in Frame
        OBVIOUS
    <1>2. PICK upto :
            /\ upto[0] = <<>>
            /\ \A k \in 1 .. Len(fs) : upto[k] = ToCome(fs[k]) \o upto[k - 1]
            /\ Pending(fs) = upto[Len(fs)]
        BY PendingEquation
    <1> HIDE DEF gs
    <1>3. PICK onto :
            /\ onto[0] = <<>>
            /\ \A k \in 1 .. Len(gs) : onto[k] = ToCome(gs[k]) \o onto[k - 1]
            /\ Pending(gs) = onto[Len(gs)]
        BY <1>1, PendingEquation
    <1> DEFINE T == { k \in Nat : k <= Len(fs) => upto[k] \in Seq(Name) /\ onto[k] = upto[k] }
    <1>4. 0 \in T
        BY <1>2, <1>3, EmptySeq
    <1>5. ASSUME NEW k \in Nat, k \in T PROVE k + 1 \in T
        <2> SUFFICES ASSUME k + 1 <= Len(fs)
                     PROVE  upto[k + 1] \in Seq(Name) /\ onto[k + 1] = upto[k + 1]
            OBVIOUS
        <2>1. /\ k + 1 \in 1 .. Len(fs) /\ k + 1 \in 1 .. Len(gs) /\ (k + 1) - 1 = k
              /\ upto[k] \in Seq(Name) /\ onto[k] = upto[k]
            BY <1>1, <1>5
        <2>2. upto[k + 1] = ToCome(fs[k + 1]) \o upto[k]
            BY <1>2, <2>1, Zenon
        <2>3. onto[k + 1] = ToCome(gs[k + 1]) \o onto[k]
            BY <1>3, <2>1, Zenon
        <2>4. gs[k + 1] = fs[k + 1] /\ ToCome(fs[k + 1]) \in Seq(Name)
            BY <1>1, <2>1, ToComeType
        <2>5. ToCome(fs[k + 1]) \o upto[k] \in Seq(Name)
            BY <2>1, <2>4, ConcatProperties
        <2> QED
            BY <2>1, <2>2, <2>3, <2>4, <2>5
    <1>6. Nat \subseteq T
        <2> HIDE DEF T
        <2> QED
            BY <1>4, <1>5, Induction
    <1>7. upto[Len(fs)] \in Seq(Name) /\ onto[Len(fs)] = upto[Len(fs)]
        BY <1>1, <1>6
    <1>8. Len(fs) + 1 \in 1 .. Len(gs) /\ (Len(fs) + 1) - 1 = Len(fs)
        BY <1>1
    <1>9. Pending(gs) = ToCome(f) \o onto[Len(fs)]
        BY <1>1, <1>3, <1>8, Zenon
    <1> QED
        BY <1>2, <1>7, <1>9 DEF gs

-----------------------------------------------------------------------------

\* The inductive invariant.

\* An iterator that may go on is not finished.
Unfinished == answer.is \in {"searching", "entry"} => ~finished

\* The files in what the iterator has not come to.
Ahead == FilesAmong(data)[Len(Blocks[data]) - offset \div BlockSize]

\* What has been taken out of a tar are its files up to the offset.
TarInOrder ==
    phase = "tar" =>
        /\ Format[job.blob] \in {"tar", "packed"}
        /\ FilesOf(data) = EntriesOf(job.blob)
        /\ answer.is \in {"searching", "entry"} =>
             \E j \in 0 .. Len(Blocks[data]) : offset = BlockSize * j
        /\ answer.is = "searching" => FilesOf(data) = layer \o Ahead
        /\ answer.is = "entry" => FilesOf(data) = Append(layer, answer.payload) \o Ahead
        /\ answer.is = "none" => FilesOf(data) = layer

\* What the member m of the zip b may hold, and what the members ms do.
MayHold(b, m) ==
    IF m.method = "stored" THEN Payloads(b, m) ELSE UNION { Inner[p] : p \in Payloads(b, m) }

Held(b, ms) == [i \in DOMAIN ms |-> TheOne(MayHold(b, ms[i]))]

\* The members of a zip are its files up to the header that is read next, and its
\* entries what those members hold that have been inflated.
ZipInOrder ==
    /\ phase = "directory" =>
         /\ Format[job.blob] = "zip"
         /\ EndRecords(job.blob) # {}
         /\ taken = 0 /\ layer = <<>>
         /\ headers <= TheEnd(job.blob).count
         /\ EntriesOf(job.blob) =
              Held(job.blob, members)
                \o FilesListed(job.blob, TheEnd(job.blob).count)[headers][pos]
    /\ phase = "unzip" =>
         /\ taken <= Len(members)
         /\ EntriesOf(job.blob) = Held(job.blob, members)
         /\ layer = SubSeq(EntriesOf(job.blob), 1, taken)

\* All entries have been collected when they are charged.
LayerComplete == phase = "charge" => layer = EntriesOf(job.blob)

\* What has been extracted and what is still to come is all that the archive holds.
NothingLost ==
    caller = "recurses" =>
        /\ phase = "walk" => Contents[MaxDepth][root] = out \o Pending(frames)
        /\ phase \in {"open", "tar", "charge", "directory", "unzip"} =>
             Contents[MaxDepth][root] =
               (out \o Within(job.name, Contents[job.depth][job.blob])) \o Pending(frames)
        /\ result = "ok" => Contents[MaxDepth][root] = out

Order == IInv /\ Unfinished /\ TarInOrder /\ ZipInOrder /\ LayerComplete /\ NothingLost

-----------------------------------------------------------------------------

\* A tar stream is read file by file.

\* Division takes off what does not fill a block.
LEMMA Quotient ==
    ASSUME NEW B \in Nat \ {0}, NEW q \in Nat, NEW r \in 0 .. B - 1
    PROVE  (B * q + r) \div B = q
    <1> DEFINE p == (B * q + r) \div B
    <1>0. B * q \in Nat
        OBVIOUS
    <1>1. p \in Nat /\ B * p <= B * q + r /\ B * q + r < B * (p + 1)
        BY <1>0
    <1> HIDE DEF p
    <1>2. B * (q + 1) = B * q + B /\ B * (p + 1) = B * p + B
        BY <1>1
    <1>3. ~(p < q)
        <2> SUFFICES ASSUME p < q PROVE FALSE
            OBVIOUS
        <2>1. B * (p + 1) <= B * q
            BY <1>1
        <2> QED
            BY <1>0, <1>1, <2>1
    <1>4. ~(q < p)
        <2> SUFFICES ASSUME q < p PROVE FALSE
            OBVIOUS
        <2>1. B * (q + 1) <= B * p
            BY <1>1
        <2> QED
            BY <1>0, <1>1, <1>2, <2>1
    <1>5. p = q
        BY <1>1, <1>3, <1>4
    <1> QED
        BY <1>5 DEF p

\* A payload with its padding takes whole blocks.
LEMMA Padded ==
    ASSUME NEW n \in Nat
    PROVE  /\ (n + BlockSize - 1) \div BlockSize \in Nat
           /\ n + Padding(n) = BlockSize * ((n + BlockSize - 1) \div BlockSize)
    <1> DEFINE B == BlockSize
               q == n \div B
               r == n % B
    <1>1. B \in Nat \ {0}
        BY TarAssumption
    <1>2. q \in Nat /\ r \in 0 .. B - 1 /\ n = B * q + r
        BY <1>1
    <1>3. Padding(n) = IF r = 0 THEN 0 ELSE B - r
        BY DEF Padding
    <1> HIDE DEF q, r
    <1>4. CASE r = 0
        <2>1. n + B - 1 = B * q + (B - 1) /\ B - 1 \in 0 .. B - 1
            BY <1>1, <1>2, <1>4
        <2>2. (n + B - 1) \div B = q
            BY <1>1, <1>2, <2>1, Quotient
        <2> QED
            BY <1>1, <1>2, <1>3, <1>4, <2>2
    <1>5. CASE r # 0
        <2>1. B * (q + 1) = B * q + B
            BY <1>1, <1>2
        <2>2. n + B - 1 = B * (q + 1) + (r - 1) /\ r - 1 \in 0 .. B - 1 /\ q + 1 \in Nat
            BY <1>1, <1>2, <1>5, <2>1
        <2>3. (n + B - 1) \div B = q + 1
            BY <1>1, <2>2, Quotient
        <2>4. n + Padding(n) = B * (q + 1)
            BY <1>1, <1>2, <1>3, <1>5, <2>1
        <2> QED
            BY <2>2, <2>3, <2>4
    <1> QED
        BY <1>4, <1>5

\* Where the block number j of a blob starts.
LEMMA BlockStart ==
    ASSUME NEW b \in Blob, NEW j \in Nat
    PROVE  /\ BlockSize * j \in Nat
           /\ (BlockSize * j) \div BlockSize = j
           /\ BlockSize * j <= Size[b] <=> j <= Len(Blocks[b])
           /\ BlockSize * j >= Size[b] => j >= Len(Blocks[b])
    <1> DEFINE B == BlockSize
               N == Len(Blocks[b])
    <1>1. B \in Nat \ {0} /\ Size[b] \in Nat /\ N = Size[b] \div B
        BY TarAssumption, BlobAssumption
    <1>2. N \in Nat /\ B * N <= Size[b] /\ Size[b] < B * (N + 1)
        <2> DEFINE S == Size[b]
                   D == S \div B
        <2>1. D \in Nat /\ B * D <= S /\ S < B * (D + 1)
            BY <1>1
        <2> HIDE DEF B, D, N, S
        <2>2. N = D
            BY <1>1 DEF D, S
        <2> QED
            BY <2>1, <2>2 DEF S
    <1>3. B * j \in Nat /\ B * j + 0 = B * j /\ 0 \in 0 .. B - 1
        BY <1>1
    <1>4. (B * j) \div B = j
        BY <1>1, <1>3, Quotient
    <1> HIDE DEF N
    <1>5. B * (N + 1) = B * N + B
        BY <1>1, <1>2
    <1>6. j <= N => B * j <= B * N
        BY <1>1, <1>2
    <1>7. ~(j <= N) => B * (N + 1) <= B * j
        BY <1>1, <1>2
    <1>8. j < N => B * (j + 1) <= B * N
        BY <1>1, <1>2
    <1>9. B * (j + 1) = B * j + B
        BY <1>1
    <1>10. B * j <= Size[b] <=> j <= N
        BY <1>1, <1>2, <1>3, <1>6, <1>7
    <1>11. B * j >= Size[b] => j >= N
        BY <1>1, <1>2, <1>3, <1>8, <1>9
    <1> QED
        BY <1>3, <1>4, <1>10, <1>11 DEF N

\* The iterator is at the block number j.
AtBlock(j) == j \in 0 .. Len(Blocks[data]) /\ offset = BlockSize * j

\* The block at the offset is the first of those that are ahead.
LEMMA AtBlockFacts ==
    ASSUME TypeOK, NEW j, AtBlock(j)
    PROVE  /\ Len(Blocks[data]) - j \in 0 .. Len(Blocks[data])
           /\ Ahead = FilesAmong(data)[Len(Blocks[data]) - j]
           /\ Fits(offset) => At(offset) = FromEnd(data, Len(Blocks[data]) - j)
           /\ offset >= Size[data] => j = Len(Blocks[data])
    <1>1. data \in Blob /\ Len(Blocks[data]) \in Nat /\ j \in 0 .. Len(Blocks[data]) /\ j \in Nat
        BY TarAssumption DEF TypeOK, AtBlock
    <1>2. offset = BlockSize * j
        BY DEF AtBlock
    <1>3. offset \div BlockSize = j
        BY <1>1, <1>2, BlockStart
    <1>4. offset >= Size[data] => j >= Len(Blocks[data])
        BY <1>1, <1>2, BlockStart
    <1>5. Len(Blocks[data]) - (Len(Blocks[data]) - j) + 1 = j + 1
        BY <1>1
    <1>6. At(offset) = FromEnd(data, Len(Blocks[data]) - j)
        BY <1>3, <1>5 DEF At, FromEnd
    <1> QED
        BY <1>1, <1>3, <1>4, <1>6 DEF Ahead

\* An entry is the next file, and the iterator is behind it then.
LEMMA EntryStep ==
    ASSUME TypeOK, TarEntry, NEW j, AtBlock(j)
    PROVE  /\ \E i \in 0 .. Len(Blocks[data]) : offset' = BlockSize * i
           /\ Ahead = FileFrom(data, Len(Blocks[data]) - j) \o Ahead'
           /\ FileFrom(data, Len(Blocks[data]) - j) =
                IF At(offset).regular THEN <<At(offset).payload>> ELSE <<>>
           /\ Ahead' \in Seq(Blob)
    <1> DEFINE N == Len(Blocks[data])
               size == At(offset).size
               blocks == (size + BlockSize - 1) \div BlockSize
               i == j + 1 + blocks
    <1>1. data \in Blob /\ N \in Nat /\ j \in 0 .. N /\ offset = BlockSize * j /\ BlockSize \in Nat
        BY TarAssumption DEF TypeOK, AtBlock
    <1>2. IsHeader /\ End <= Size[data] /\ offset' = End /\ data' = data
        BY DEF TarEntry, Admitted
    <1>3. /\ N - j \in 0 .. N
          /\ Ahead = FilesAmong(data)[N - j]
          /\ At(offset) = FromEnd(data, N - j)
          /\ At(offset).is = "header"
        BY <1>2, AtBlockFacts DEF IsHeader
    <1>4. size \in Nat
        BY <1>2, HeaderOf
    <1>5. blocks \in Nat /\ size + Padding(size) = BlockSize * blocks
        BY <1>4, Padded
    <1>6. Padding(size) \in Int
        BY <1>4, TarAssumption DEF Padding
    <1>7. End = BlockSize * i
        <2>1. BlockSize * (j + 1 + blocks) = BlockSize * j + BlockSize + BlockSize * blocks
            BY <1>1, <1>5
        <2> HIDE DEF blocks, size
        <2>2. BlockSize * blocks \in Nat /\ BlockSize * j \in Nat
            BY <1>1, <1>5
        <2>3. End = offset + BlockSize + size + Padding(size)
            BY DEF End, size
        <2> DEFINE x == BlockSize * j
                   y == BlockSize * blocks
                   z == BlockSize * (j + 1 + blocks)
        <2>4. x \in Nat /\ y \in Nat /\ z = x + BlockSize + y /\ offset = x
              /\ size + Padding(size) = y /\ BlockSize \in Nat
            BY <1>1, <1>5, <2>1, <2>2
        <2> HIDE DEF x, y, z
        <2>5. End = z
            BY <1>4, <1>6, <2>3, <2>4
        <2> QED
            BY <2>5 DEF z
    <1>8. i \in 0 .. N
        <2> HIDE DEF blocks
        <2>1. i \in Nat
            BY <1>1, <1>5
        <2>2. i <= N
            BY <1>1, <1>2, <1>7, <2>1, BlockStart
        <2> QED
            BY <1>1, <2>1, <2>2
    <1>9. Behind(data, N - j) = N - i
        <2>1. Behind(data, N - j) = N - j - 1 - blocks
            BY <1>3 DEF Behind
        <2> HIDE DEF blocks
        <2> QED
            BY <1>1, <1>5, <2>1
    <1>10. j # N
        BY <1>1, <1>5, <1>8
    <1>11. ~NoFile(data, N - j)
        <2>1. N - i >= 0 /\ N - j # 0
            <3> HIDE DEF blocks
            <3> QED
                BY <1>1, <1>5, <1>8, <1>10
        <2> DEFINE rest == N - i
        <2>2. rest >= 0 /\ rest \in Int /\ Behind(data, N - j) = rest
            <3> HIDE DEF i
            <3> QED
                BY <1>1, <1>8, <1>9, <2>1
        <2> HIDE DEF rest, N
        <2> QED
            BY <1>3, <2>1, <2>2 DEF NoFile
    <1>12. Ahead = FileFrom(data, N - j) \o FilesAmong(data)[N - i]
        BY <1>1, <1>3, <1>9, <1>11, AmongEquation
    <1>13. Ahead' = FilesAmong(data)[N - i]
        <2>1. (BlockSize * i) \div BlockSize = i
            <3> HIDE DEF i
            <3>1. i \in Nat
                BY <1>1, <1>8
            <3> QED
                BY <1>1, <3>1, BlockStart
        <2> HIDE DEF i
        <2>2. Ahead' = FilesAmong(data)[Len(Blocks[data]) - End \div BlockSize]
            BY <1>2 DEF Ahead
        <2> QED
            BY <1>7, <2>1, <2>2
    <1>14. FilesAmong(data)[N - i] \in Seq(Blob)
        <2>1. N - i \in 0 .. N
            <3> HIDE DEF i
            <3> QED
                BY <1>1, <1>8
        <2> QED
            BY <1>1, <2>1, AmongFiles
    <1> HIDE DEF i
    <1> QED
        BY <1>2, <1>3, <1>7, <1>8, <1>12, <1>13, <1>14 DEF FileFrom

\* The iterator is finished only where it says so.
LEMMA UnfinishedNext == IInv /\ Unfinished /\ [Next]_vars => Unfinished'
    <1> SUFFICES ASSUME IInv, Unfinished, [Next]_vars PROVE Unfinished'
        OBVIOUS
    <1>1. CASE OpenTar \/ OpenPacked
        BY <1>1 DEF OpenTar, OpenPacked, TarOpen, Unfinished
    <1>2. CASE Search
        <2>1. CASE TarEntry
            BY <2>1 DEF TarEntry, Searching, Unfinished
        <2>2. CASE TarExhausted \/ TarEndMarker \/ TarMalformed \/ TarRefused
            BY <2>2 DEF TarExhausted, TarEndMarker, TarMalformed, TarRefused, Unfinished
        <2> QED
            BY <1>2, <2>1, <2>2 DEF Search, TarSearch
    <1>3. CASE Collect \/ AskAgain
        <2>1. /\ answer' = [is |-> IF finished THEN "none" ELSE "searching"]
              /\ finished' = finished
            BY <1>3 DEF Collect, AskAgain, TarNext
        <2>2. CASE finished
            BY <2>1, <2>2 DEF Unfinished
        <2>3. CASE ~finished
            BY <2>1, <2>3 DEF Unfinished
        <2> QED
            BY <2>2, <2>3
    <1>4. CASE UNCHANGED <<answer, finished>>
        BY <1>4 DEF Unfinished
    <1> QED
        BY <1>1, <1>2, <1>3, <1>4
        DEF Next, OpenZip, OpenFails, CollectFails, CollectEnds, ChargeEntry,
            ReadDirectory, DirectoryFails, DirectoryEnds, Unzip, UnzipFails, Extracted,
            Enter, TooMany, TooMuch, Descend, Push, Return, Stop, vars, tarVars

\* At the start of a tar stream, all its files are ahead.
LEMMA TarStart ==
    ASSUME NEW b \in Blob, TarOpen(b), layer' = <<>>,
           job' = job, Format[job.blob] \in {"tar", "packed"}, FilesOf(b) = EntriesOf(job.blob)
    PROVE  TarInOrder'
    <1>1. /\ data' = b /\ offset' = 0 /\ answer' = [is |-> "searching"]
        BY DEF TarOpen
    <1>2. Len(Blocks[b]) \in Nat /\ BlockSize \in Nat \ {0}
        BY TarAssumption
    <1>3. BlockSize * 0 = 0 /\ 0 \in 0 .. Len(Blocks[b]) /\ 0 \in Nat
        BY <1>2
    <1>4. 0 \div BlockSize = 0
        BY <1>3, BlockStart
    <1>5. Ahead' = FilesOf(b)
        <2>1. Ahead' = FilesAmong(b)[Len(Blocks[b]) - 0 \div BlockSize]
            BY <1>1 DEF Ahead
        <2>2. Len(Blocks[b]) - 0 \div BlockSize = Len(Blocks[b])
            BY <1>2, <1>4
        <2> QED
            BY <2>1, <2>2, Zenon DEF FilesOf
    <1>6. FilesOf(b) = <<>> \o FilesOf(b)
        BY FilesOfType, ConcatEmptySeq
    <1>7. \E j \in 0 .. Len(Blocks[data']) : offset' = BlockSize * j
        BY <1>1, <1>3
    <1>8. FilesOf(data)' = FilesOf(b) /\ EntriesOf(job.blob)' = EntriesOf(job.blob)
        BY <1>1
    <1> QED
        BY <1>1, <1>5, <1>6, <1>7, <1>8 DEF TarInOrder

\* Each step of the iterator moves one file from those ahead into the layer.
LEMMA TarInOrderNext == IInv /\ Unfinished /\ TarInOrder /\ [Next]_vars => TarInOrder'
    <1> SUFFICES ASSUME IInv, Unfinished, TarInOrder, [Next]_vars PROVE TarInOrder'
        OBVIOUS
    <1>1. TypeOK /\ job.blob \in Blob
        BY DEF IInv, TypeOK, Job
    <1>2. CASE phase' # "tar"
        BY <1>2 DEF TarInOrder
    <1>3. CASE OpenTar
        <2>1. /\ TarOpen(job.blob) /\ layer' = <<>> /\ job' = job /\ Format[job.blob] = "tar"
            BY <1>3 DEF OpenTar
        <2>2. FilesOf(job.blob) = EntriesOf(job.blob)
            BY <2>1 DEF EntriesOf
        <2> QED
            BY <1>1, <2>1, <2>2, TarStart
    <1>4. CASE OpenPacked
        <2>1. PICK c \in Inner[job.blob] : TarOpen(c)
            BY <1>4 DEF OpenPacked
        <2>2. layer' = <<>> /\ job' = job /\ Format[job.blob] = "packed"
            BY <1>4 DEF OpenPacked
        <2>3. Inner[job.blob] \subseteq Blob /\ c \in Blob
            BY <1>1, ArchiveAssumption
        <2>4. TheOne(Inner[job.blob]) = c
            BY <1>1, <2>3, TheOneIsBlob, ArchiveAssumption
        <2>5. FilesOf(c) = EntriesOf(job.blob)
            BY <2>2, <2>4 DEF EntriesOf
        <2> QED
            BY <2>1, <2>2, <2>3, <2>5, TarStart
    <1>5. CASE Search /\ phase = "tar"
        <2>1. phase' = "tar" /\ UNCHANGED <<data, job, layer>> /\ answer.is = "searching"
            BY <1>5
            DEF Search, TarSearch, TarExhausted, TarEndMarker, TarMalformed, TarRefused,
                TarEntry, Searching, layerVars
        <2>2. /\ Format[job.blob] \in {"tar", "packed"} /\ FilesOf(data) = EntriesOf(job.blob)
              /\ FilesOf(data) = layer \o Ahead
              /\ layer \in Seq(Blob)
            BY <1>1, <1>5, <2>1 DEF TarInOrder, TypeOK
        <2>3. PICK j : AtBlock(j)
            BY <1>5, <2>1 DEF TarInOrder, AtBlock
        <2>a. /\ data \in Blob
              /\ Len(Blocks[data]) - j \in 0 .. Len(Blocks[data])
              /\ Ahead = FilesAmong(data)[Len(Blocks[data]) - j]
            BY <1>1, <2>3, AtBlockFacts DEF TypeOK
        <2>b. ASSUME NoFile(data, Len(Blocks[data]) - j), answer' = [is |-> "none"]
              PROVE  TarInOrder'
            <3>1. Ahead = <<>>
                BY <2>a, <2>b, AmongEquation
            <3>2. FilesOf(data) = layer
                BY <2>2, <3>1, ConcatEmptySeq
            <3> QED
                BY <2>1, <2>2, <2>b, <3>2 DEF TarInOrder
        <2>4. CASE TarExhausted
            <3>1. j = Len(Blocks[data]) /\ Len(Blocks[data]) \in Nat
                BY <1>1, <2>3, <2>4, AtBlockFacts, TarAssumption DEF TarExhausted, TypeOK
            <3>2. Len(Blocks[data]) - j = 0
                BY <3>1
            <3> QED
                BY <2>4, <2>b, <3>2 DEF TarExhausted, NoFile
        <2>5. CASE TarEndMarker
            <3>1. FromEnd(data, Len(Blocks[data]) - j).is = "zero"
                BY <1>1, <2>3, <2>5, AtBlockFacts DEF TarEndMarker
            <3> QED
                BY <2>5, <2>b, <3>1 DEF TarEndMarker, NoFile
        <2>6. CASE TarMalformed \/ TarRefused
            <3>1. answer' = [is |-> "error"]
                BY <2>6 DEF TarMalformed, TarRefused
            <3> QED
                BY <2>1, <2>2, <3>1 DEF TarInOrder
        <2>7. CASE TarEntry
            <3> DEFINE F == FileFrom(data, Len(Blocks[data]) - j)
                       R == Ahead'
            <3>1. /\ \E i \in 0 .. Len(Blocks[data]) : offset' = BlockSize * i
                  /\ Ahead = F \o R
                  /\ F = IF At(offset).regular THEN <<At(offset).payload>> ELSE <<>>
                  /\ R \in Seq(Blob)
                BY <1>1, <2>3, <2>7, EntryStep
            <3>2. At(offset).payload \in Blob
                BY <1>1, <2>7, HeaderOf DEF TarEntry, Admitted
            <3>3. answer' = IF At(offset).regular
                            THEN [is |-> "entry", payload |-> At(offset).payload]
                            ELSE [is |-> "searching"]
                BY <2>7 DEF TarEntry
            <3> HIDE DEF R, F
            <3>4. CASE At(offset).regular
                <4> DEFINE p == At(offset).payload
                <4>1. p \in Blob /\ <<p>> \in Seq(Blob) /\ F = <<p>>
                    BY <3>1, <3>2, <3>4
                <4>2. answer' = [is |-> "entry", payload |-> p]
                    BY <3>3, <3>4
                <4> HIDE DEF p
                <4>3. layer \o (<<p>> \o R) = (layer \o <<p>>) \o R
                    <5> DEFINE y == <<p>>
                    <5>1. layer \in Seq(Blob) /\ y \in Seq(Blob) /\ R \in Seq(Blob)
                        BY <2>2, <3>1, <4>1
                    <5> HIDE DEF y
                    <5>2. (layer \o y) \o R = layer \o (y \o R)
                        BY <5>1, ConcatAssociative
                    <5> QED
                        BY <5>2 DEF y
                <4>4. Append(layer, p) = layer \o <<p>>
                    BY <2>2, <4>1, AppendIsConcat
                <4>5. FilesOf(data) = Append(layer, p) \o R
                    BY <2>2, <3>1, <4>1, <4>3, <4>4
                <4>6. answer'.is = "entry" /\ answer'.payload = p
                    BY <4>2
                <4> QED
                    BY <2>1, <2>2, <3>1, <4>5, <4>6 DEF TarInOrder, R
            <3>5. CASE ~At(offset).regular
                <4>1. F = <<>> /\ answer' = [is |-> "searching"]
                    BY <3>1, <3>3, <3>5
                <4>2. Ahead = R
                    BY <3>1, <4>1, ConcatEmptySeq
                <4> QED
                    BY <2>1, <2>2, <3>1, <4>1, <4>2 DEF TarInOrder, R
            <3> QED
                BY <3>4, <3>5
        <2> QED
            BY <1>5, <2>4, <2>5, <2>6, <2>7 DEF Search, TarSearch
    <1>6. CASE Collect
        <2>1. /\ phase = "tar" /\ answer.is = "entry" /\ layer' = Append(layer, answer.payload)
              /\ UNCHANGED <<data, offset, job, phase>>
              /\ answer' = [is |-> IF finished THEN "none" ELSE "searching"]
            BY <1>6 DEF Collect, TarNext
        <2>2. ~finished
            BY <2>1 DEF Unfinished
        <2>3. answer' = [is |-> "searching"]
            BY <2>1, <2>2
        <2>4. Ahead' = Ahead
            BY <2>1 DEF Ahead
        <2> QED
            BY <2>1, <2>3, <2>4 DEF TarInOrder
    <1>7. CASE UNCHANGED vars
        BY <1>7 DEF vars, tarVars, layerVars, TarInOrder, Ahead
    <1>8. CASE phase # "tar" /\ ~OpenTar /\ ~OpenPacked
        <2>1. phase' # "tar"
            BY <1>8
            DEF Next, OpenZip, OpenFails, Search, Collect, CollectFails, CollectEnds,
                ChargeEntry, ReadDirectory, DirectoryFails, DirectoryEnds, Unzip, UnzipFails,
                AtMember, Extracted, Enter, TooMany, TooMuch, Descend, Push, Return, AskAgain,
                Stop, vars, Charge, Fail, Takes, Counts, AtEntry
        <2> QED
            BY <1>2, <2>1
    <1>9. CASE CollectFails \/ CollectEnds
        BY <1>2, <1>9 DEF CollectFails, CollectEnds, Fail
    <1> QED
        BY <1>3, <1>4, <1>5, <1>6, <1>7, <1>8, <1>9
        DEF Next, OpenZip, OpenFails, ChargeEntry, ReadDirectory, DirectoryFails,
            DirectoryEnds, Unzip, UnzipFails, AtMember, Extracted, Enter, Opened, TooMany,
            TooMuch, Descend, Push, Return, AskAgain, Stop, Takes, Counts, AtEntry

-----------------------------------------------------------------------------

\* A zip is read header by header.

\* Bytes that are a blob are one blob, and inflate to one.
LEMMA MayHoldOne ==
    ASSUME NEW b \in Blob, NEW m, NEW p \in Payloads(b, m)
    PROVE  /\ m.method = "stored" => TheOne(MayHold(b, m)) = p
           /\ m.method # "stored" => \A c \in Inner[p] : TheOne(MayHold(b, m)) = c
    <1>1. Payloads(b, m) = {p} /\ p \in Blob
        BY ZipAssumption DEF Payloads
    <1>2. Inner[p] \subseteq Blob /\ \A c, d \in Inner[p] : c = d
        BY <1>1, ArchiveAssumption
    <1>3. MayHold(b, m) = IF m.method = "stored" THEN {p} ELSE Inner[p]
        BY <1>1 DEF MayHold
    <1>4. CASE m.method = "stored"
        <2>1. TheOne({p}) \in {p}
            BY <1>1, TheOneIsBlob
        <2> QED
            BY <1>3, <1>4, <2>1
    <1>5. CASE m.method # "stored"
        <2>1. Inner[p] # {} => TheOne(Inner[p]) \in Inner[p]
            BY <1>1, <1>2, TheOneIsBlob
        <2> QED
            BY <1>2, <1>3, <1>5, <2>1
    <1> QED
        BY <1>4, <1>5

\* One blob is held by each member.
LEMMA HeldFacts ==
    ASSUME NEW b \in Blob, NEW ms \in Seq(Member)
    PROVE  /\ Held(b, ms) \in Seq(Blob)
           /\ Len(Held(b, ms)) = Len(ms)
           /\ \A i \in 1 .. Len(ms) : Held(b, ms)[i] = TheOne(MayHold(b, ms[i]))
           /\ \A m \in Member :
                Held(b, Append(ms, m)) = Append(Held(b, ms), TheOne(MayHold(b, m)))
    <1>1. ASSUME NEW m PROVE TheOne(MayHold(b, m)) \in Blob
        <2>1. MayHold(b, m) \subseteq Blob
            BY ArchiveAssumption DEF MayHold, Payloads
        <2> QED
            BY <2>1, TheOneIsBlob
    <1>2. Len(ms) \in Nat /\ DOMAIN ms = 1 .. Len(ms)
        OBVIOUS
    <1>3. /\ Held(b, ms) \in Seq(Blob)
          /\ Len(Held(b, ms)) = Len(ms)
          /\ \A i \in 1 .. Len(ms) : Held(b, ms)[i] = TheOne(MayHold(b, ms[i]))
        BY <1>1, <1>2 DEF Held
    <1>4. ASSUME NEW m \in Member
          PROVE  Held(b, Append(ms, m)) = Append(Held(b, ms), TheOne(MayHold(b, m)))
        <2> DEFINE ns == Append(ms, m)
                   s == Held(b, ns)
                   t == Append(Held(b, ms), TheOne(MayHold(b, m)))
        <2>1. /\ ns \in Seq(Member) /\ Len(ns) = Len(ms) + 1 /\ DOMAIN ns = 1 .. Len(ns)
              /\ ns[Len(ms) + 1] = m /\ \A i \in 1 .. Len(ms) : ns[i] = ms[i]
            OBVIOUS
        <2> HIDE DEF ns
        <2>2. /\ s \in Seq(Blob) /\ Len(s) = Len(ms) + 1
              /\ \A i \in 1 .. Len(ms) + 1 : s[i] = TheOne(MayHold(b, ns[i]))
            BY <1>1, <1>2, <2>1 DEF Held
        <2>3. /\ t \in Seq(Blob) /\ Len(t) = Len(ms) + 1
              /\ t[Len(ms) + 1] = TheOne(MayHold(b, m))
              /\ \A i \in 1 .. Len(ms) : t[i] = Held(b, ms)[i]
            BY <1>1, <1>3, AppendProperties
        <2> HIDE DEF s, t
        <2>4. ASSUME NEW i \in 1 .. Len(ms) + 1 PROVE s[i] = t[i]
            <3>1. i \in 1 .. Len(ms) \/ i = Len(ms) + 1
                BY <1>2
            <3> QED
                BY <1>3, <2>1, <2>2, <2>3, <3>1, Zenon
        <2>5. s = t
            BY <2>2, <2>3, <2>4, SeqEqual
        <2> QED
            BY <2>5 DEF s, t, ns
    <1> QED
        BY <1>3, <1>4

\* A header that is done with is the next in the list.
LEMMA HeaderStep ==
    ASSUME TypeOK, NEW b \in Blob, ToNext(b), NEW n \in Nat, headers <= n
    PROVE  /\ headers' \in 0 .. n /\ pos' \in Nat
           /\ FilesListed(b, n)[headers'][pos'] \in Seq(Blob)
           /\ FilesListed(b, n)[headers][pos] =
                ListedAt(b, pos) \o FilesListed(b, n)[headers'][pos']
    <1>1. pos \in Nat /\ headers \in Nat /\ headers # 0
        BY DEF TypeOK, ToNext
    <1>2. CentralReadable(b) /\ headers' = headers - 1 /\ headers' \in 0 .. n
        BY <1>1 DEF ToNext
    <1>3. ~NoHeader(b, pos)
        <2>1. CentralSize \in Nat \ {0} /\ Size[b] \in Nat
            BY ZipAssumption, BlobAssumption
        <2> QED
            BY <1>1, <1>2, <2>1 DEF NoHeader, CentralReadable, RoomFor
    <1>4. NextAt(b, pos) = pos'
        BY DEF ToNext, NextAt, NameEnd, Central
    <1>5. pos' \in Nat
        BY NextHeader
    <1>6. FilesListed(b, n)[headers'][pos'] \in Seq(Blob)
        BY <1>2, <1>5, ListedFiles
    <1>7. headers \in 0 .. n
        BY <1>1
    <1>8. FilesListed(b, n)[headers][pos] =
            IF headers = 0 \/ NoHeader(b, pos)
            THEN <<>>
            ELSE ListedAt(b, pos) \o FilesListed(b, n)[headers - 1][NextAt(b, pos)]
        BY <1>1, <1>7, ListedEquation, Zenon
    <1> QED
        BY <1>1, <1>2, <1>3, <1>4, <1>5, <1>6, <1>8

\* Directories are told by the last letter of the name.
LEMMA FolderIsDirectory ==
    ASSUME NEW b \in Blob, pos \in Nat, CentralReadable(b)
    PROVE  IsDirectory(b) <=> FolderAt(b, pos)
    <1> DEFINE n == Central(b).name
               s == NameOf(b)
    <1>1. n \in Nat /\ CentralSize \in Nat /\ Size[b] \in Nat
        BY CentralFields, ZipAssumption, BlobAssumption
    <1>2. Bytes[b] \in Seq(Byte) /\ Len(Bytes[b]) = Size[b]
        BY ZipAssumption
    <1>3. pos + CentralSize + n <= Size[b]
        BY <1>1 DEF CentralReadable, RoomFor
    <1>4. s = SubSeq(Bytes[b], pos + CentralSize + 1, pos + CentralSize + n)
        BY DEF NameOf, NameEnd, Slice
    <1> HIDE DEF n, s
    <1>5. CASE n = 0
        <2>1. s = <<>>
            <3>1. /\ pos + CentralSize + 1 \in Int /\ pos + CentralSize + n \in Int
                  /\ pos + CentralSize + n < pos + CentralSize + 1
                BY <1>1, <1>5
            <3> QED
                BY <1>4, <3>1, SubSeqEmpty
        <2>2. ~FolderAt(b, pos)
            BY <1>5 DEF FolderAt, n, Central
        <2> QED
            BY <2>1, <2>2 DEF IsDirectory, s
    <1>6. CASE n # 0
        <2> DEFINE i == pos + CentralSize + 1
                   j == pos + CentralSize + n
        <2>1. i \in Int /\ j \in Int /\ \A k \in i .. j : Bytes[b][k] \in Byte
            BY <1>1, <1>2, <1>3
        <2>2. /\ i <= j /\ j - i + 1 = n /\ n \in 1 .. j - i + 1 /\ i + n - 1 = j
            BY <1>1, <1>6
        <2> HIDE DEF i, j
        <2>3. /\ Len(s) = n /\ s \in Seq(Byte)
              /\ s[n] = Bytes[b][j]
            <3>1. s = SubSeq(Bytes[b], i, j)
                BY <1>4 DEF i, j
            <3>2. /\ SubSeq(Bytes[b], i, j) \in Seq(Byte)
                  /\ Len(SubSeq(Bytes[b], i, j)) = n
                  /\ SubSeq(Bytes[b], i, j)[n] = Bytes[b][i + n - 1]
                BY <2>1, <2>2, SubSeqProperties
            <3> QED
                BY <2>2, <3>1, <3>2
        <2>4. s # <<>>
            BY <1>1, <1>6, <2>3
        <2>5. n > 0
            BY <1>1, <1>6
        <2>6. IsDirectory(b) <=> s[n] = [is |-> "letter", letter |-> Slash]
            BY <2>4, Zenon DEF IsDirectory, s, n
        <2>7. FolderAt(b, pos) <=> Bytes[b][j] = [is |-> "letter", letter |-> Slash]
            BY <2>5, Zenon DEF FolderAt, Central, n, j
        <2> QED
            BY <2>3, <2>6, <2>7
    <1> QED
        BY <1>5, <1>6

\* What the new member may hold is what the header it was made of leads to.
LEMMA NewMemberHeld ==
    ASSUME NEW b \in Blob
    PROVE  MayHold(b, [method |-> Central(b).method, size |-> Central(b).size,
                       from |-> PayloadStart(b), to |-> PayloadEnd(b)]) = KeptAt(b, pos)
    BY DEF MayHold, KeptAt, Payloads, PayloadEnd, PayloadStart, LocalNameEnd, Local, Central

\* Each header moves one file from the list to the members, each inflated member one
\* entry into the layer.
LEMMA ZipInOrderNext == IInv /\ ZipInOrder /\ [Next]_vars => ZipInOrder'
    <1> SUFFICES ASSUME IInv, ZipInOrder, [Next]_vars PROVE ZipInOrder'
        OBVIOUS
    <1>1. TypeOK /\ job.blob \in Blob /\ members \in Seq(Member)
        BY DEF IInv, TypeOK, Job
    <1>2. CASE phase' \notin {"directory", "unzip"}
        BY <1>2 DEF ZipInOrder
    <1> DEFINE b == job.blob
               n == TheEnd(b).count
    <1>3. CASE OpenZip
        <2>1. /\ phase' = "directory" /\ job' = job /\ Format[job.blob] = "zip"
              /\ ZipOpen(job.blob) /\ taken' = 0 /\ layer' = <<>>
            BY <1>3 DEF OpenZip, layerVars
        <2>2. PICK e \in Directories(b) : pos' = e.start /\ headers' = e.count /\ members' = <<>>
            BY <2>1 DEF ZipOpen
        <2>3. e \in EndRecords(b) /\ EndRecords(b) # {}
            BY DEF Directories
        <2>4. TheEnd(b) = e /\ e.count \in Nat /\ e.start \in Nat
            BY <1>1, <2>3, TheEndFacts
        <2>5. EntriesOf(b) = FilesListed(b, e.count)[e.count][e.start]
            BY <2>1, <2>3, <2>4 DEF EntriesOf, UnzippedOf
        <2>6. EntriesOf(b) = <<>> \o EntriesOf(b)
            BY <1>1, EntriesOfType, ConcatEmptySeq
        <2>7. Held(b, <<>>) = <<>>
            BY DEF Held
        <2> HIDE DEF b
        <2>8. b' = b
            BY <2>1 DEF b
        <2>9. EntriesOf(b) = Held(b, members')
                               \o FilesListed(b, TheEnd(b).count)[headers'][pos']
            BY <2>2, <2>4, <2>5, <2>6, <2>7
        <2>10. headers' <= TheEnd(b).count
            BY <2>2, <2>4
        <2> QED
            BY <2>1, <2>3, <2>8, <2>9, <2>10 DEF ZipInOrder, b
    <1>4. CASE ReadDirectory
        <2>1. /\ phase = "directory" /\ phase' = "directory" /\ job' = job
              /\ taken' = taken /\ layer' = layer
            BY <1>4 DEF ReadDirectory, layerVars
        <2>2. /\ Format[b] = "zip" /\ EndRecords(b) # {} /\ headers <= n
              /\ taken = 0 /\ layer = <<>>
              /\ EntriesOf(b) = Held(b, members) \o FilesListed(b, n)[headers][pos]
            BY <2>1 DEF ZipInOrder
        <2>3. n \in Nat
            <3>1. TheEnd(b) \in EndRecords(b)
                BY <2>2, Zenon DEF TheEnd
            <3> QED
                BY <1>1, <3>1, TheEndFacts
        <2>4. ToNext(b)
            BY <1>4 DEF ReadDirectory, ZipDirectory, ZipEntry
        <2> DEFINE R == FilesListed(b, n)[headers'][pos']
                   H == Held(b, members)
        <2>5. /\ headers' \in 0 .. n
              /\ R \in Seq(Blob)
              /\ FilesListed(b, n)[headers][pos] = ListedAt(b, pos) \o R
            BY <1>1, <2>2, <2>3, <2>4, HeaderStep
        <2>6. H \in Seq(Blob)
            BY <1>1, HeldFacts
        <2>7. IsDirectory(b) <=> FolderAt(b, pos)
            BY <1>1, <2>4, FolderIsDirectory DEF ToNext, TypeOK
        <2>8. headers' <= n
            BY <2>3, <2>5
        <2>9. EntriesOf(b) = Held(b, members') \o R
            <3>1. CASE ZipDirectory(b)
                <4>1. members' = members /\ ListedAt(b, pos) = <<>>
                    BY <2>7, <3>1 DEF ZipDirectory, ListedAt
                <4> HIDE DEF R
                <4>2. <<>> \o R = R
                    BY <2>5, ConcatEmptySeq
                <4> QED
                    BY <2>2, <2>5, <4>1, <4>2
            <3>2. CASE ZipEntry(b)
                <4> DEFINE m == [method |-> Central(b).method, size |-> Central(b).size,
                                 from |-> PayloadStart(b), to |-> PayloadEnd(b)]
                           c == TheOne(KeptAt(b, pos))
                <4>1. members' = Append(members, m)
                    BY <3>2 DEF ZipEntry
                <4>2. MayHold(b, m) = KeptAt(b, pos)
                    BY <1>1, NewMemberHeld
                <4>3. ListedAt(b, pos) = <<c>>
                    BY <2>7, <3>2 DEF ZipEntry, ListedAt
                <4>4. m \in Member
                    <5>1. PICK x \in Member : members' = Append(members, x)
                        BY <1>1, <3>2, NewMember
                    <5> HIDE DEF m
                    <5>2. \A y : Append(members, y)[Len(members) + 1] = y
                        BY <1>1
                    <5>3. members'[Len(members) + 1] = m
                        BY <4>1, <5>2
                    <5>4. members'[Len(members) + 1] = x
                        BY <5>1, <5>2
                    <5> QED
                        BY <5>3, <5>4
                <4>5. Held(b, members') = Append(H, c)
                    <5> HIDE DEF m
                    <5> QED
                        BY <1>1, <4>1, <4>2, <4>4, HeldFacts
                <4>6. c \in Blob
                    <5>1. KeptAt(b, pos) \subseteq Blob
                        BY ArchiveAssumption DEF KeptAt
                    <5> QED
                        BY <1>1, <5>1, TheOneIsBlob
                <4> HIDE DEF R, H, c
                <4>7. Append(H, c) = H \o <<c>> /\ <<c>> \in Seq(Blob)
                    BY <2>6, <4>6, AppendIsConcat
                <4>8. (H \o <<c>>) \o R = H \o (<<c>> \o R)
                    <5> DEFINE y == <<c>>
                    <5>1. y \in Seq(Blob) /\ H \in Seq(Blob) /\ R \in Seq(Blob)
                        BY <2>5, <2>6, <4>7
                    <5> HIDE DEF y
                    <5>2. (H \o y) \o R = H \o (y \o R)
                        BY <5>1, ConcatAssociative
                    <5> QED
                        BY <5>2 DEF y
                <4>9. EntriesOf(b) = H \o FilesListed(b, n)[headers][pos]
                    BY <2>2 DEF H
                <4> QED
                    BY <2>5, <4>3, <4>5, <4>7, <4>8, <4>9
            <3> QED
                BY <1>4, <3>1, <3>2 DEF ReadDirectory
        <2> HIDE DEF b
        <2>10. b' = b
            BY <2>1 DEF b
        <2> QED
            BY <2>1, <2>2, <2>8, <2>9, <2>10 DEF ZipInOrder, b
    <1>5. CASE DirectoryEnds
        <2>1. /\ phase = "directory" /\ phase' = "unzip" /\ headers = 0
              /\ UNCHANGED <<job, layer, taken, members>>
            BY <1>5 DEF DirectoryEnds, layerVars, zipVars
        <2>2. /\ EndRecords(b) # {} /\ taken = 0 /\ layer = <<>>
              /\ EntriesOf(b) = Held(b, members) \o FilesListed(b, n)[0][pos]
            BY <2>1 DEF ZipInOrder
        <2>3. n \in Nat
            <3>1. TheEnd(b) \in EndRecords(b)
                BY <2>2, Zenon DEF TheEnd
            <3> QED
                BY <1>1, <3>1, TheEndFacts
        <2>4. FilesListed(b, n)[0][pos] = <<>>
            <3>1. 0 \in 0 .. n /\ pos \in Nat
                BY <1>1, <2>3 DEF TypeOK
            <3> QED
                BY <1>1, <2>3, <3>1, ListedEquation, Zenon
        <2>5. EntriesOf(b) = Held(b, members)
            BY <1>1, <2>2, <2>4, HeldFacts, ConcatEmptySeq
        <2>6. SubSeq(EntriesOf(b), 1, 0) = <<>>
            BY SubSeqEmpty
        <2>7. 0 <= Len(members)
            BY <1>1
        <2> HIDE DEF b
        <2>8. b' = b
            BY <2>1 DEF b
        <2> QED
            BY <2>1, <2>2, <2>5, <2>6, <2>7, <2>8 DEF ZipInOrder, b
    <1>6. CASE Unzip
        <2> DEFINE E == EntriesOf(b)
        <2>1. /\ phase = "unzip" /\ taken < Len(members) /\ taken' = taken + 1
              /\ job' = job /\ members' = members
            BY <1>6 DEF Unzip, AtMember, zipVars
        <2>2. E = Held(b, members) /\ layer = SubSeq(E, 1, taken) /\ taken \in Nat
            BY <1>1, <2>1 DEF ZipInOrder, TypeOK
        <2>3. /\ E \in Seq(Blob) /\ Len(E) = Len(members)
              /\ E[taken + 1] = TheOne(MayHold(b, TheMember))
            <3>1. taken + 1 \in 1 .. Len(members)
                BY <1>1, <2>1, <2>2
            <3> QED
                BY <1>1, <2>2, <3>1, HeldFacts DEF TheMember
        <2>4. PICK p \in Payloads(b, TheMember) :
                \E c \in CASE TheMember.method = "stored"   -> {p}
                          [] TheMember.method = "deflated" -> Inflations(TheMember, p)
                          [] OTHER                         -> {} :
                    layer' = Append(layer, c)
            BY <1>6 DEF Unzip
        <2>5. PICK c \in CASE TheMember.method = "stored"   -> {p}
                         [] TheMember.method = "deflated" -> Inflations(TheMember, p)
                         [] OTHER                         -> {} :
                    layer' = Append(layer, c)
            BY <2>4
        <2>6. TheOne(MayHold(b, TheMember)) = c
            <3>1. CASE TheMember.method = "stored"
                BY <1>1, <2>5, <3>1, MayHoldOne
            <3>2. CASE TheMember.method = "deflated"
                BY <1>1, <2>5, <3>2, MayHoldOne DEF Inflations
            <3>3. CASE TheMember.method \notin {"stored", "deflated"}
                BY <2>5, <3>3
            <3> QED
                BY <3>1, <3>2, <3>3
        <2>7. phase' \in {"unzip", "done"}
            BY <1>6 DEF Unzip, Charge, Fail
        <2> HIDE DEF E
        <2>8. SubSeq(E, 1, taken + 1) = Append(SubSeq(E, 1, taken), E[taken + 1])
            <3> DEFINE k == taken + 1
            <3>1. k \in 1 .. Len(E) /\ 1 \in 1 .. Len(E) /\ k - 1 = taken /\ k \in Int
                BY <1>1, <2>1, <2>2, <2>3
            <3>2. E[k] \in Blob
                BY <2>3, <3>1
            <3> HIDE DEF k
            <3>3. SubSeq(E, 1, k) = SubSeq(E, 1, k - 1) \o <<E[k]>>
                BY <2>3, <3>1, SubSeqRecursiveSecond
            <3>4. SubSeq(E, 1, k - 1) \in Seq(Blob)
                <4>1. \A i \in 1 .. k - 1 : E[i] \in Blob
                    BY <2>3, <3>1
                <4> QED
                    BY <3>1, <4>1, SubSeqProperties
            <3>5. Append(SubSeq(E, 1, k - 1), E[k]) = SubSeq(E, 1, k - 1) \o <<E[k]>>
                BY <3>2, <3>4, AppendIsConcat
            <3>6. SubSeq(E, 1, k) = Append(SubSeq(E, 1, taken), E[k])
                BY <3>1, <3>3, <3>5
            <3> QED
                BY <3>6 DEF k
        <2>9. layer' = SubSeq(E, 1, taken')
            BY <2>1, <2>2, <2>3, <2>5, <2>6, <2>8
        <2>10. taken' <= Len(members)
            BY <1>1, <2>1, <2>2
        <2> HIDE DEF b
        <2>11. b' = b
            BY <2>1 DEF b
        <2> QED
            BY <2>1, <2>2, <2>7, <2>9, <2>10, <2>11 DEF ZipInOrder, E, b
    <1>7. CASE UNCHANGED vars
        BY <1>7 DEF vars, zipVars, layerVars, ZipInOrder
    <1>8. CASE ~OpenZip /\ ~ReadDirectory /\ ~DirectoryEnds /\ ~Unzip /\ Next
        <2>1. phase' \notin {"directory", "unzip"} \/ UNCHANGED vars
            BY <1>8
            DEF Next, OpenTar, OpenPacked, OpenFails, Search, Collect, CollectFails,
                CollectEnds, ChargeEntry, DirectoryFails, UnzipFails, Extracted, Enter,
                TooMany, TooMuch, Descend, Push, Return, AskAgain, Stop, Charge, Fail, Takes,
                Counts, AtEntry
        <2> QED
            BY <1>2, <1>7, <2>1
    <1> QED
        BY <1>3, <1>4, <1>5, <1>6, <1>7, <1>8

\* A tar is charged once it has been read to its end.
LEMMA LayerCompleteNext ==
    IInv /\ TarInOrder /\ LayerComplete /\ [Next]_vars => LayerComplete'
    <1> SUFFICES ASSUME IInv, TarInOrder, LayerComplete, [Next]_vars PROVE LayerComplete'
        OBVIOUS
    <1>1. CASE CollectEnds
        <2>1. layer = EntriesOf(job.blob)
            BY <1>1 DEF CollectEnds, TarInOrder
        <2> QED
            BY <1>1, <2>1 DEF CollectEnds, LayerComplete
    <1>2. CASE ChargeEntry
        BY <1>2 DEF ChargeEntry, LayerComplete
    <1>3. CASE UNCHANGED vars
        BY <1>3 DEF vars, layerVars, LayerComplete
    <1>4. CASE ~CollectEnds /\ ~ChargeEntry /\ Next
        <2>1. phase' # "charge" \/ UNCHANGED vars
            BY <1>4
            DEF Next, OpenTar, OpenPacked, OpenZip, OpenFails, Search, Collect, CollectFails,
                ReadDirectory, DirectoryFails, DirectoryEnds, Unzip, UnzipFails, AtMember,
                Extracted, Enter, TooMany, TooMuch, Descend, Push, Return, AskAgain, Stop,
                Charge, Fail, Takes, Counts, AtEntry
        <2> QED
            BY <1>3, <2>1 DEF LayerComplete
    <1> QED
        BY <1>1, <1>2, <1>3, <1>4

-----------------------------------------------------------------------------

\* The calls of extract_recursive_into.

\* When an archive has been opened, its entries are in the layer.
LEMMA OpenedLayer ==
    ASSUME IInv, ZipInOrder, LayerComplete, Opened
    PROVE  layer = EntriesOf(job.blob)
    <1>1. TypeOK /\ job.blob \in Blob /\ members \in Seq(Member)
        BY DEF IInv, TypeOK, Job
    <1>2. CASE phase = "charge"
        BY <1>2 DEF LayerComplete
    <1>3. CASE phase = "unzip" /\ taken = Len(members)
        <2> DEFINE E == EntriesOf(job.blob)
        <2>1. E = Held(job.blob, members) /\ layer = SubSeq(E, 1, taken)
            BY <1>3 DEF ZipInOrder
        <2>2. E \in Seq(Blob) /\ Len(E) = taken
            BY <1>1, <1>3, <2>1, HeldFacts
        <2> HIDE DEF E
        <2>3. SubSeq(E, 1, Len(E)) = E
            BY <2>2, SubSeqFull
        <2> QED
            BY <2>1, <2>2, <2>3 DEF E
    <1> QED
        BY <1>2, <1>3 DEF Opened

LEMMA NamesConcat ==
    ASSUME NEW x \in Seq(Name), NEW y \in Seq(Name), NEW z \in Seq(Name)
    PROVE  (x \o y) \o z = x \o (y \o z)
    BY ConcatAssociative

\* The stack of calls: the last one, and those that wait for it.
LEMMA TopAndBase ==
    ASSUME TypeOK, frames # <<>>
    PROVE  /\ Front(frames) \in Seq(Frame)
           /\ Top \in Frame
           /\ frames = Append(Front(frames), Top)
           /\ \A r \in Seq(Blob) :
                /\ [Top EXCEPT !.rest = r] \in Frame
                /\ [frames EXCEPT ![Len(frames)].rest = r]
                     = Append(Front(frames), [Top EXCEPT !.rest = r])
    <1> DEFINE F == Front(frames)
    <1>1. frames \in Seq(Frame) /\ Len(frames) \in Nat \ {0}
        BY DEF TypeOK
    <1>2. Top \in Frame
        BY <1>1 DEF Top
    <1>3. /\ F \in Seq(Frame) /\ Len(F) = Len(frames) - 1
          /\ \A i \in 1 .. Len(frames) - 1 : F[i] = frames[i]
        <2> DEFINE n == Len(frames)
        <2>1. n \in Nat \ {0} /\ \A i \in 1 .. n - 1 : frames[i] \in Frame
            BY <1>1
        <2>2. F = SubSeq(frames, 1, n - 1)
            BY DEF Front
        <2> HIDE DEF n, F
        <2>3. /\ SubSeq(frames, 1, n - 1) \in Seq(Frame)
              /\ Len(SubSeq(frames, 1, n - 1)) = IF 1 <= n - 1 THEN n - 1 - 1 + 1 ELSE 0
              /\ \A i \in 1 .. n - 1 - 1 + 1 : SubSeq(frames, 1, n - 1)[i] = frames[1 + i - 1]
            BY <2>1, SubSeqProperties
        <2>4. n - 1 - 1 + 1 = n - 1 /\ \A i \in 1 .. n - 1 : 1 + i - 1 = i
            BY <2>1
        <2>5. Len(F) = n - 1
            BY <2>1, <2>2, <2>3
        <2>6. \A i \in 1 .. n - 1 : F[i] = frames[i]
            BY <2>2, <2>3, <2>4, Zenon
        <2> QED
            BY <2>2, <2>3, <2>5, <2>6 DEF n
    <1> HIDE DEF F
    <1>4. frames = Append(F, Top)
        BY <1>1, <1>2, <1>3 DEF Top
    <1>5. ASSUME NEW r \in Seq(Blob)
          PROVE  /\ [Top EXCEPT !.rest = r] \in Frame
                 /\ [frames EXCEPT ![Len(frames)].rest = r] = Append(F, [Top EXCEPT !.rest = r])
        <2> DEFINE t == [Top EXCEPT !.rest = r]
        <2>1. t \in Frame
            BY <1>2 DEF Frame
        <2>2. [frames EXCEPT ![Len(frames)].rest = r] = [frames EXCEPT ![Len(frames)] = t]
            BY DEF Top
        <2> HIDE DEF t
        <2>3. [frames EXCEPT ![Len(frames)] = t] = Append(F, t)
            <3> DEFINE n == Len(frames)
                       u == Append(F, t)
            <3>1. /\ u \in Seq(Frame) /\ Len(u) = n /\ u[n] = t
                  /\ \A i \in 1 .. n - 1 : u[i] = frames[i]
                BY <1>1, <1>3, <2>1, AppendProperties
            <3>2. n \in Nat \ {0} /\ frames = [i \in 1 .. n |-> frames[i]]
                BY <1>1
            <3> HIDE DEF n, u
            <3>3. u = [i \in 1 .. n |-> u[i]]
                BY <3>1
            <3>4. \A i \in 1 .. n : u[i] = IF i = n THEN t ELSE frames[i]
                <4>1. \A i \in 1 .. n : i = n \/ i \in 1 .. n - 1
                    BY <3>2
                <4>2. \A i \in 1 .. n - 1 : i # n
                    BY <3>2
                <4> QED
                    BY <3>1, <4>1, <4>2, Zenon
            <3>5. [frames EXCEPT ![n] = t] = [i \in 1 .. n |-> IF i = n THEN t ELSE frames[i]]
                BY <3>2
            <3>6. u = [i \in 1 .. n |-> IF i = n THEN t ELSE frames[i]]
                BY <3>3, <3>4, Zenon
            <3> QED
                BY <3>5, <3>6 DEF n, u
        <2> QED
            BY <2>1, <2>2, <2>3 DEF t
    <1> QED
        BY <1>2, <1>3, <1>4, <1>5 DEF F

\* One entry is taken from the last call: what was still to come is that entry, and what
\* is still to come then.
LEMMA EntryTaken ==
    ASSUME TypeOK, Takes
    PROVE  /\ Entry \in Blob
           /\ Top \in Frame
           /\ Within(Top.name, Under(Top.depth, Entry)) \in Seq(Name)
           /\ Pending(frames') \in Seq(Name)
           /\ Pending(frames) =
                Within(Top.name, Under(Top.depth, Entry)) \o Pending(frames')
    <1> DEFINE F == Front(frames)
               r == Tail(Top.rest)
               t == [Top EXCEPT !.rest = r]
               here == Within(Top.name, Under(Top.depth, Entry))
    <1>1. frames # <<>> /\ Top.rest # <<>> /\ frames' = [frames EXCEPT ![Len(frames)].rest = r]
        BY DEF Takes, Counts, AtEntry, Top
    <1>2. F \in Seq(Frame) /\ Top \in Frame /\ frames = Append(F, Top)
        BY <1>1, TopAndBase
    <1>3. Top.rest \in Seq(Blob) /\ Top.name \in Name /\ Top.depth \in 0 .. MaxDepth
        BY <1>2 DEF Frame
    <1>4. Entry \in Blob /\ r \in Seq(Blob)
        BY <1>1, <1>3 DEF Entry
    <1>5. t \in Frame /\ frames' = Append(F, t)
        BY <1>1, <1>4, TopAndBase
    <1>6. t.rest = r /\ t.name = Top.name /\ t.depth = Top.depth
        BY <1>2 DEF Frame
    <1>7. /\ Under(Top.depth, Entry) \in Seq(Name)
          /\ All(Top.depth, r) \in Seq(Name)
          /\ All(Top.depth, Top.rest) = Under(Top.depth, Entry) \o All(Top.depth, r)
        BY <1>1, <1>3, AllHead DEF Entry
    <1>8. here \in Seq(Name)
        BY <1>3, <1>7, WithinFacts
    <1>9. ToCome(Top) = here \o ToCome(t)
        <2> DEFINE x == Under(Top.depth, Entry)
                   y == All(Top.depth, r)
        <2>1. ToCome(Top) = Within(Top.name, All(Top.depth, Top.rest))
            BY DEF ToCome
        <2>2. ToCome(t) = Within(Top.name, y)
            <3> HIDE DEF t, r
            <3> QED
                BY <1>6 DEF ToCome
        <2>3. x \in Seq(Name) /\ y \in Seq(Name) /\ All(Top.depth, Top.rest) = x \o y
            BY <1>7
        <2> HIDE DEF x, y, t
        <2>4. Within(Top.name, x \o y) = Within(Top.name, x) \o Within(Top.name, y)
            BY <1>3, <2>3, WithinConcat
        <2> QED
            BY <2>1, <2>2, <2>3, <2>4 DEF x
    <1>10. /\ Pending(F) \in Seq(Name)
           /\ Pending(frames) = ToCome(Top) \o Pending(F)
           /\ Pending(frames') = ToCome(t) \o Pending(F)
        BY <1>2, <1>5, PendingAppend
    <1>11. ToCome(t) \in Seq(Name)
        BY <1>5, ToComeType
    <1>12. frames' \in Seq(Frame)
        BY <1>2, <1>5, AppendProperties
    <1>13. \A f \in Seq(Frame) : Pending(f) \in Seq(Name)
        <2>1. Top \in Frame
            BY <1>2
        <2> QED
            BY <2>1, PendingAppend
    <1>14. Pending(frames') \in Seq(Name)
        BY <1>12, <1>13
    <1> HIDE DEF here, t, F
    <1>15. (here \o ToCome(t)) \o Pending(F) = here \o (ToCome(t) \o Pending(F))
        BY <1>8, <1>10, <1>11, NamesConcat
    <1>16. Pending(frames) = here \o Pending(frames')
        BY <1>9, <1>10, <1>15
    <1> QED
        BY <1>2, <1>4, <1>8, <1>14, <1>16 DEF here

\* A step that opens an archive does not touch the stack.
Opening == phase \in {"open", "tar", "charge", "directory", "unzip"}

\* No step loses a name, takes one twice or brings two out of their order.
LEMMA NothingLostNext ==
    IInv /\ ZipInOrder /\ LayerComplete /\ NothingLost /\ [Next]_vars => NothingLost'
    <1> SUFFICES ASSUME IInv, ZipInOrder, LayerComplete, NothingLost, [Next]_vars
                 PROVE  NothingLost'
        OBVIOUS
    <1> DEFINE C == Contents[MaxDepth][root]
    <1>1. TypeOK /\ Control
        BY DEF IInv
    <1>2. out \in Seq(Name) /\ MaxDepth \in Nat /\ result \in {"none", "ok", "error"}
        BY <1>1, ArchiveAssumption DEF TypeOK
    <1>3. CASE UNCHANGED <<job, out, root, caller, frames, phase, result>>
        BY <1>3 DEF NothingLost
    <1>4. CASE caller' = caller /\ result' = "error" /\ phase' = "done"
        BY <1>4 DEF NothingLost
    <1>5. CASE /\ Opening /\ phase' \in {"tar", "charge", "directory", "unzip"}
               /\ UNCHANGED <<job, out, root, caller, frames, result>>
        BY <1>1, <1>5 DEF NothingLost, Opening, Control
    <1>6. CASE Enter
        <2> DEFINE f == [rest |-> layer, name |-> job.name, depth |-> job.depth]
                   w == Within(job.name, Contents[job.depth][job.blob])
                   P == Pending(frames)
        <2>1. /\ Opened /\ caller = "recurses" /\ frames' = Append(frames, f)
              /\ phase' = "walk" /\ UNCHANGED <<out, root, caller, result>>
            BY <1>6 DEF Enter, limitVars
        <2>2. C = (out \o w) \o P
            BY <2>1 DEF Opened, NothingLost
        <2>3. layer = EntriesOf(job.blob)
            BY <2>1, OpenedLayer
        <2>4. job.blob \in Blob /\ job.name \in Name /\ job.depth \in 0 .. MaxDepth
            BY <1>1 DEF TypeOK, Job
        <2>5. f \in Frame /\ frames \in Seq(Frame)
            BY <1>1, <2>4 DEF TypeOK, Frame
        <2>6. ToCome(f) = w
            <3>1. ToCome(f) = Within(job.name, All(job.depth, layer))
                BY DEF ToCome
            <3>2. Contents[job.depth][job.blob] = All(job.depth, layer)
                BY <2>3, <2>4, ContentsEquation
            <3> QED
                BY <3>1, <3>2
        <2>7. P \in Seq(Name) /\ Pending(frames') = w \o P
            BY <2>1, <2>5, <2>6, PendingAppend
        <2>8. w \in Seq(Name)
            BY <2>5, <2>6, ToComeType
        <2> HIDE DEF w, P
        <2>9. C = out \o Pending(frames')
            BY <1>2, <2>2, <2>7, <2>8, NamesConcat
        <2>10. result' = "none"
            BY <1>1, <2>1 DEF Opened, Control
        <2> QED
            BY <2>1, <2>9, <2>10 DEF NothingLost
    <1>7. ASSUME Takes, caller = "recurses"
          PROVE  /\ Entry \in Blob /\ Top \in Frame
                 /\ Within(Top.name, Under(Top.depth, Entry)) \in Seq(Name)
                 /\ C = (out \o Within(Top.name, Under(Top.depth, Entry))) \o Pending(frames')
                 /\ phase = "walk" /\ result = "none"
        <2> DEFINE w == Within(Top.name, Under(Top.depth, Entry))
                   P == Pending(frames')
        <2>1. phase = "walk" /\ result = "none"
            BY <1>1, <1>7 DEF Takes, Counts, AtEntry, Control
        <2>2. /\ Entry \in Blob /\ Top \in Frame /\ w \in Seq(Name) /\ P \in Seq(Name)
              /\ Pending(frames) = w \o P
            BY <1>1, <1>7, EntryTaken
        <2>3. C = out \o Pending(frames)
            BY <1>7, <2>1 DEF NothingLost
        <2> HIDE DEF w, P
        <2>4. C = (out \o w) \o P
            <3>1. (out \o w) \o P = out \o (w \o P)
                BY <1>2, <2>2, NamesConcat
            <3>2. out \o Pending(frames) = out \o (w \o P)
                BY <2>2
            <3> QED
                BY <2>3, <3>1, <3>2
        <2> QED
            BY <2>1, <2>2, <2>4 DEF w, P
    <1>8. CASE Descend /\ caller = "recurses"
        <2> DEFINE n == Top.name
                   d == Top.depth
        <2>1. /\ Takes /\ d > 0 /\ Format[Entry] # "unknown" /\ phase' = "open"
              /\ job' = [blob |-> Entry, name |-> Append(n, Entry), depth |-> d - 1]
              /\ UNCHANGED <<out, root, caller, result>>
            BY <1>8 DEF Descend
        <2>2. Entry \in Blob /\ n \in Name /\ d \in 1 .. MaxDepth /\ result = "none"
              /\ C = (out \o Within(n, Under(d, Entry))) \o Pending(frames')
            BY <1>2, <1>7, <1>8, <2>1 DEF Frame
        <2>3. d - 1 \in 0 .. MaxDepth
            BY <1>2, <2>2
        <2>4. Contents[d - 1][Entry] \in Seq(Name)
            BY <2>2, <2>3, ContentsType
        <2>5. Under(d, Entry) = Within(<<Entry>>, Contents[d - 1][Entry])
            BY <2>1 DEF Under
        <2>6. Within(n, Under(d, Entry)) = Within(Append(n, Entry), Contents[d - 1][Entry])
            BY <2>2, <2>4, <2>5, WithinTwice
        <2>7. /\ job'.blob = Entry /\ job'.name = Append(n, Entry) /\ job'.depth = d - 1
            BY <2>1
        <2> HIDE DEF n, d
        <2>8. C = (out \o Within(job'.name, Contents[job'.depth][job'.blob])) \o Pending(frames')
            BY <2>2, <2>6, <2>7
        <2> QED
            BY <2>1, <2>2, <2>8 DEF NothingLost
    <1>9. CASE Push /\ caller = "recurses"
        <2>1. /\ Takes /\ (Top.depth = 0 \/ Format[Entry] = "unknown")
              /\ out' = Append(out, Append(Top.name, Entry))
              /\ UNCHANGED <<root, caller, phase, result>>
            BY <1>9 DEF Push
        <2>2. /\ Entry \in Blob /\ Top.name \in Name /\ phase = "walk" /\ result = "none"
              /\ C = (out \o Within(Top.name, Under(Top.depth, Entry))) \o Pending(frames')
            BY <1>7, <1>9, <2>1 DEF Frame
        <2>3. Under(Top.depth, Entry) = << <<Entry>> >>
            BY <2>1 DEF Under
        <2>4. Within(Top.name, Under(Top.depth, Entry)) = << Append(Top.name, Entry) >>
            BY <2>2, <2>3, WithinOne
        <2>5. out' = out \o << Append(Top.name, Entry) >>
            <3> DEFINE x == Append(Top.name, Entry)
            <3>1. x \in Name
                BY <2>2 DEF Name
            <3> HIDE DEF x
            <3>2. Append(out, x) = out \o <<x>>
                BY <1>2, <3>1, AppendIsConcat
            <3> QED
                BY <2>1, <3>2 DEF x
        <2>6. C = out' \o Pending(frames')
            BY <2>2, <2>4, <2>5
        <2> QED
            BY <2>1, <2>2, <2>6 DEF NothingLost
    <1>10. CASE Return /\ caller = "recurses"
        <2> DEFINE F == Front(frames)
        <2>1. /\ phase = "walk" /\ frames # <<>> /\ Top.rest = <<>> /\ frames' = F
              /\ UNCHANGED <<out, root, caller, job>>
              /\ \/ Len(frames) = 1 /\ phase' = "done" /\ result' = "ok"
                 \/ Len(frames) # 1 /\ UNCHANGED <<phase, result>>
            BY <1>10 DEF Return, limitVars, layerVars
        <2>2. F \in Seq(Frame) /\ Top \in Frame /\ frames = Append(F, Top)
            BY <1>1, <2>1, TopAndBase
        <2>3. ToCome(Top) = <<>>
            <3>1. All(Top.depth, <<>>) = <<>>
                <4>1. [i \in DOMAIN <<>> |-> Under(Top.depth, <<>>[i])] = <<>>
                    OBVIOUS
                <4> QED
                    BY <4>1, FlattenEmpty, Zenon DEF All
            <3> QED
                BY <2>1, <3>1, WithinEmpty DEF ToCome
        <2>4. Pending(F) \in Seq(Name) /\ Pending(frames) = <<>> \o Pending(F)
            BY <2>2, <2>3, PendingAppend
        <2>5. Pending(frames) = Pending(frames')
            BY <2>1, <2>4, ConcatEmptySeq
        <2>6. result = "none" /\ C = out \o Pending(frames')
            BY <1>1, <1>10, <2>1, <2>5 DEF NothingLost, Control
        <2>7. CASE Len(frames) = 1
            <3>1. F = <<>>
                <4>1. \A s \in Seq(Frame) : Len(Append(s, Top)) = Len(s) + 1
                    OBVIOUS
                <4>2. Len(F) = 0
                    BY <2>2, <2>7, <4>1
                <4> QED
                    BY <2>2, <4>2
            <3>2. Pending(frames') = <<>>
                BY <2>1, <3>1, PendingEmpty
            <3>3. out \o <<>> = out
                BY <1>2, ConcatEmptySeq
            <3>4. C = out
                BY <2>6, <3>2, <3>3
            <3> QED
                BY <2>1, <2>7, <3>4 DEF NothingLost
        <2>8. CASE Len(frames) # 1
            BY <2>1, <2>6, <2>8 DEF NothingLost
        <2> QED
            BY <2>7, <2>8
    <1>11. CASE caller' = caller /\ caller # "recurses"
        BY <1>11 DEF NothingLost
    <1>12. CASE OpenTar \/ OpenZip \/ CollectEnds \/ DirectoryEnds
        BY <1>5, <1>12 DEF OpenTar, OpenZip, CollectEnds, DirectoryEnds, Opening, limitVars,
                           layerVars
    <1>13. CASE OpenPacked \/ ChargeEntry \/ Unzip
        BY <1>4, <1>5, <1>13
        DEF OpenPacked, ChargeEntry, Unzip, AtMember, Charge, Fail, Opening
    <1>14. CASE OpenFails \/ CollectFails \/ DirectoryFails \/ UnzipFails \/ TooMany \/ TooMuch
        BY <1>4, <1>14
        DEF OpenFails, CollectFails, DirectoryFails, UnzipFails, TooMany, TooMuch, Fail
    <1>15. CASE Search \/ Collect \/ ReadDirectory \/ AskAgain \/ Stop \/ UNCHANGED vars
        BY <1>3, <1>15
        DEF Search, Collect, ReadDirectory, AskAgain, Stop, vars, limitVars, layerVars
    <1>16. CASE Extracted
        BY <1>11, <1>16 DEF Extracted
    <1>17. CASE Descend \/ Push \/ Return
        BY <1>8, <1>9, <1>10, <1>11, <1>17 DEF Descend, Push, Return
    <1> QED
        BY <1>6, <1>12, <1>13, <1>14, <1>15, <1>16, <1>17 DEF Next

LEMMA InitOrder == Init => Order
    <1> SUFFICES ASSUME Init PROVE Order
        OBVIOUS
    <1>1. IInv
        BY InitInv
    <1>2. TypeOK /\ MaxDepth \in 0 .. MaxDepth /\ root \in Blob
        BY <1>1, ArchiveAssumption DEF IInv, TypeOK
    <1>3. Unfinished /\ TarInOrder /\ ZipInOrder /\ LayerComplete
        BY DEF Init, Unfinished, TarInOrder, ZipInOrder, LayerComplete
    <1>4. NothingLost
        <2> DEFINE C == Contents[MaxDepth][root]
        <2>1. C \in Seq(Name)
            BY <1>2, ContentsType
        <2>2. /\ job.blob = root /\ job.name = <<>> /\ job.depth = MaxDepth
              /\ out = <<>> /\ frames = <<>> /\ result = "none"
              /\ phase \in {"iterate", "open"}
            BY DEF Init
        <2> HIDE DEF C
        <2>3. Within(job.name, C) = C
            BY <2>1, <2>2, WithinNothing
        <2>4. (out \o C) \o Pending(frames) = C
            <3>1. <<>> \o C = C /\ C \o <<>> = C
                BY <2>1, ConcatEmptySeq
            <3> QED
                BY <2>2, <3>1, PendingEmpty
        <2> QED
            BY <2>2, <2>3, <2>4 DEF NothingLost, C
    <1> QED
        BY <1>1, <1>3, <1>4 DEF Order

LEMMA OrderIsKept == Spec => []Order
    <1>1. Order /\ [Next]_vars => Order'
        <2>1. IInv /\ [Next]_vars => IInv'
            BY TypeNext, FusedNext, ControlNext, TarEntriesSmallNext, ZipNext, LimitsNext
            DEF IInv
        <2> QED
            BY <2>1, UnfinishedNext, TarInOrderNext, ZipInOrderNext, LayerCompleteNext,
               NothingLostNext
            DEF Order
    <1> QED
        BY InitOrder, <1>1, PTL DEF Spec

\* auto_extract_recursive returns every file of every layer it may open, once, in its
\* order and under the names of the archives it lies in: for tar, packed and zip
\* archives nested in any way, and for every depth.
THEOREM AllIsExtracted == Spec => []ExtractsContents
    <1>1. Order => ExtractsContents
        BY DEF Order, NothingLost, ExtractsContents
    <1> QED
        BY OrderIsKept, <1>1, PTL
-----------------------------------------------------------------------------

\* What is charged, and sums.

\* The sum up to k, by its equation.
SumsOf(ns, u) == \A k \in 0 .. Len(ns) : u[k] = IF k = 0 THEN 0 ELSE u[k - 1] + ns[k]

LEMMA TotalEquation ==
    ASSUME NEW ns \in Seq(Nat)
    PROVE  \E u : SumsOf(ns, u) /\ Total(ns) = u[Len(ns)]
    <1> DEFINE Solves(f, n) ==
                 f = [k \in 0 .. n |-> IF k = 0 THEN 0 ELSE f[k - 1] + ns[k]]
               T == { n \in Nat : \E f : Solves(f, n) }
               upto == CHOOSE f : Solves(f, Len(ns))
    <1>1. 0 \in T
        <2>1. Solves([k \in 0 .. 0 |-> 0], 0)
            OBVIOUS
        <2> QED
            BY <2>1
    <1>2. ASSUME NEW n \in Nat, n \in T PROVE n + 1 \in T
        <2>1. PICK f : Solves(f, n)
            BY <1>2
        <2> DEFINE h == [k \in 0 .. n + 1 |-> IF k = 0 THEN 0 ELSE f[k - 1] + ns[k]]
        <2>2. \A k \in 0 .. n : f[k] = h[k]
            <3>1. \A k \in 0 .. n : f[k] = IF k = 0 THEN 0 ELSE f[k - 1] + ns[k]
                BY <2>1, Zenon
            <3>2. 0 .. n \subseteq 0 .. n + 1
                OBVIOUS
            <3> QED
                BY <3>1, <3>2, Zenon
        <2>3. \A k \in 0 .. n + 1 : k # 0 => k - 1 \in 0 .. n
            OBVIOUS
        <2>4. Solves(h, n + 1)
            BY <2>2, <2>3
        <2> HIDE DEF Solves, h
        <2> QED
            BY <2>4
    <1>3. Nat \subseteq T
        <2> HIDE DEF T
        <2> QED
            BY <1>1, <1>2, Induction
    <1>4. Solves(upto, Len(ns))
        <2>1. \E f : Solves(f, Len(ns))
            BY <1>3
        <2> HIDE DEF Solves
        <2> QED
            BY <2>1, Zenon
    <1>5. Total(ns) = upto[Len(ns)]
        BY Zenon DEF Total
    <1>6. SumsOf(ns, upto)
        <2> HIDE DEF upto
        <2> QED
            BY <1>4 DEF SumsOf
    <1> HIDE DEF upto
    <1> QED
        BY <1>5, <1>6

\* Sums are natural, and those of two sequences agree as long as they do.
LEMMA SumsAgree ==
    ASSUME NEW ns \in Seq(Nat), NEW ms \in Seq(Nat), NEW u, NEW v,
           SumsOf(ns, u), SumsOf(ms, v),
           Len(ms) <= Len(ns), \A i \in 1 .. Len(ms) : ns[i] = ms[i]
    PROVE  \A k \in 0 .. Len(ms) : u[k] \in Nat /\ u[k] = v[k]
    <1> DEFINE T == { k \in Nat : k <= Len(ms) => u[k] \in Nat /\ u[k] = v[k] }
    <1>1. 0 \in T
        <2>1. Len(ns) \in Nat /\ Len(ms) \in Nat
            OBVIOUS
        <2> QED
            BY <2>1 DEF SumsOf
    <1>2. ASSUME NEW k \in Nat, k \in T PROVE k + 1 \in T
        <2> SUFFICES ASSUME k + 1 <= Len(ms) PROVE u[k + 1] \in Nat /\ u[k + 1] = v[k + 1]
            OBVIOUS
        <2>1. /\ k + 1 \in 0 .. Len(ns) /\ k + 1 \in 0 .. Len(ms) /\ k + 1 \in 1 .. Len(ms)
              /\ k + 1 # 0 /\ k + 1 - 1 = k
            OBVIOUS
        <2>2. u[k] \in Nat /\ u[k] = v[k]
            BY <1>2
        <2>3. u[k + 1] = u[k] + ns[k + 1] /\ v[k + 1] = v[k] + ms[k + 1]
            BY <2>1 DEF SumsOf
        <2>4. ns[k + 1] = ms[k + 1] /\ ms[k + 1] \in Nat
            BY <2>1
        <2> QED
            BY <2>2, <2>3, <2>4
    <1>3. Nat \subseteq T
        <2> HIDE DEF T
        <2> QED
            BY <1>1, <1>2, Induction
    <1> QED
        BY <1>3

LEMMA TotalType ==
    ASSUME NEW ns \in Seq(Nat)
    PROVE  Total(ns) \in Nat
    <1>1. PICK u : SumsOf(ns, u) /\ Total(ns) = u[Len(ns)]
        BY TotalEquation
    <1>2. Len(ns) \in 0 .. Len(ns)
        OBVIOUS
    <1> QED
        BY <1>1, <1>2, SumsAgree

LEMMA TotalEmpty == Total(<<>>) = 0
    <1>1. <<>> \in Seq(Nat) /\ Len(<<>>) = 0
        OBVIOUS
    <1>2. PICK u : SumsOf(<<>>, u) /\ Total(<<>>) = u[0]
        BY <1>1, TotalEquation
    <1> QED
        BY <1>1, <1>2 DEF SumsOf

LEMMA TotalAppend ==
    ASSUME NEW ns \in Seq(Nat), NEW n \in Nat
    PROVE  Total(Append(ns, n)) = Total(ns) + n
    <1> DEFINE ms == Append(ns, n)
    <1>1. /\ ms \in Seq(Nat) /\ Len(ms) = Len(ns) + 1 /\ Len(ns) \in Nat
          /\ ms[Len(ns) + 1] = n /\ \A i \in 1 .. Len(ns) : ms[i] = ns[i]
        OBVIOUS
    <1> HIDE DEF ms
    <1>2. PICK u : SumsOf(ns, u) /\ Total(ns) = u[Len(ns)]
        BY TotalEquation
    <1>3. PICK v : SumsOf(ms, v) /\ Total(ms) = v[Len(ms)]
        BY <1>1, TotalEquation
    <1>4. v[Len(ns)] = u[Len(ns)]
        BY <1>1, <1>2, <1>3, SumsAgree
    <1>5. v[Len(ms)] = v[Len(ns)] + n
        BY <1>1, <1>3 DEF SumsOf
    <1> QED
        BY <1>2, <1>3, <1>4, <1>5 DEF ms

LEMMA TotalHead ==
    ASSUME NEW ns \in Seq(Nat), ns # <<>>
    PROVE  Total(ns) = Head(ns) + Total(Tail(ns))
    <1> DEFINE ms == Tail(ns)
    <1>1. /\ ms \in Seq(Nat) /\ Len(ns) = Len(ms) + 1 /\ Len(ms) \in Nat
          /\ Head(ns) = ns[1] /\ \A i \in 1 .. Len(ms) : ms[i] = ns[i + 1]
        OBVIOUS
    <1> HIDE DEF ms
    <1>2. PICK u : SumsOf(ns, u) /\ Total(ns) = u[Len(ns)]
        BY TotalEquation
    <1>3. PICK v : SumsOf(ms, v) /\ Total(ms) = v[Len(ms)]
        BY <1>1, TotalEquation
    <1> DEFINE T == { k \in Nat : k <= Len(ms) => v[k] \in Nat /\ u[k + 1] = ns[1] + v[k] }
    <1>4. 0 \in T
        <2>1. u[0] = 0 /\ u[1] = u[0] + ns[1] /\ v[0] = 0 /\ ns[1] \in Nat
            BY <1>1, <1>2, <1>3 DEF SumsOf
        <2> QED
            BY <2>1
    <1>5. ASSUME NEW k \in Nat, k \in T PROVE k + 1 \in T
        <2> SUFFICES ASSUME k + 1 <= Len(ms)
                     PROVE  v[k + 1] \in Nat /\ u[k + 1 + 1] = ns[1] + v[k + 1]
            OBVIOUS
        <2>1. /\ k + 1 \in 1 .. Len(ms) /\ k + 2 \in 1 .. Len(ns) /\ 1 \in 1 .. Len(ns)
              /\ k + 1 \in 0 .. Len(ms) /\ k + 2 \in 0 .. Len(ns)
              /\ k + 1 # 0 /\ k + 2 # 0 /\ k + 1 - 1 = k /\ k + 2 - 1 = k + 1 /\ k + 1 + 1 = k + 2
            BY <1>1
        <2>2. v[k] \in Nat /\ u[k + 1] = ns[1] + v[k]
            BY <1>1, <1>5
        <2>3. v[k + 1] = v[k] + ms[k + 1] /\ u[k + 2] = u[k + 1] + ns[k + 2]
            BY <1>2, <1>3, <2>1 DEF SumsOf
        <2>4. ms[k + 1] = ns[k + 2] /\ ns[k + 2] \in Nat /\ ns[1] \in Nat
            BY <1>1, <2>1
        <2> QED
            BY <2>1, <2>2, <2>3, <2>4
    <1>6. Nat \subseteq T
        <2> HIDE DEF T
        <2> QED
            BY <1>4, <1>5, Induction
    <1>7. u[Len(ns)] = ns[1] + v[Len(ms)]
        BY <1>1, <1>6
    <1> QED
        BY <1>1, <1>2, <1>3, <1>7 DEF ms
-----------------------------------------------------------------------------

LEMMA SizesType ==
    ASSUME NEW s \in Seq(Blob)
    PROVE  /\ [i \in DOMAIN s |-> Size[s[i]]] \in Seq(Nat)
           /\ BytesIn(s) \in Nat
    <1>1. \A i \in 1 .. Len(s) : Size[s[i]] \in Nat
        BY BlobAssumption
    <1>2. DOMAIN s = 1 .. Len(s) /\ Len(s) \in Nat
        OBVIOUS
    <1>3. [i \in DOMAIN s |-> Size[s[i]]] \in Seq(Nat)
        BY <1>1, <1>2
    <1> QED
        BY <1>3, TotalType DEF BytesIn

LEMMA BytesEmpty == BytesIn(<<>>) = 0
    <1>1. [i \in DOMAIN <<>> |-> Size[<<>>[i]]] = <<>>
        OBVIOUS
    <1> QED
        BY <1>1, TotalEmpty DEF BytesIn

LEMMA BytesAppend ==
    ASSUME NEW s \in Seq(Blob), NEW b \in Blob
    PROVE  BytesIn(Append(s, b)) = BytesIn(s) + Size[b]
    <1> DEFINE t == Append(s, b)
               ns == [i \in DOMAIN s |-> Size[s[i]]]
               ms == [i \in DOMAIN t |-> Size[t[i]]]
    <1>1. ns \in Seq(Nat) /\ Size[b] \in Nat
        BY SizesType, BlobAssumption
    <1>2. /\ DOMAIN t = 1 .. Len(s) + 1 /\ t[Len(s) + 1] = b
          /\ DOMAIN s = 1 .. Len(s) /\ Len(s) \in Nat
          /\ \A i \in 1 .. Len(s) : t[i] = s[i]
        OBVIOUS
    <1>3. ms = Append(ns, Size[b])
        <2>1. /\ Append(ns, Size[b]) = [i \in 1 .. Len(ns) + 1 |->
                                          IF i = Len(ns) + 1 THEN Size[b] ELSE ns[i]]
              /\ Len(ns) = Len(s)
            BY <1>1, <1>2
        <2>2. \A i \in 1 .. Len(s) + 1 :
                Size[t[i]] = IF i = Len(s) + 1 THEN Size[b] ELSE ns[i]
            <3> HIDE DEF t
            <3>1. \A i \in 1 .. Len(s) + 1 : i = Len(s) + 1 \/ i \in 1 .. Len(s)
                BY <1>2
            <3>2. \A i \in 1 .. Len(s) : ns[i] = Size[s[i]] /\ i # Len(s) + 1
                BY <1>2
            <3> QED
                BY <1>2, <3>1, <3>2, Zenon
        <2> HIDE DEF t, ns
        <2> QED
            BY <1>2, <2>1, <2>2
    <1> HIDE DEF ns
    <1>4. Total(ms) = Total(ns) + Size[b]
        BY <1>1, <1>3, TotalAppend
    <1> QED
        BY <1>4 DEF BytesIn, ns

LEMMA BytesHead ==
    ASSUME NEW s \in Seq(Blob), s # <<>>
    PROVE  /\ Head(s) \in Blob /\ Tail(s) \in Seq(Blob)
           /\ BytesIn(s) = Size[Head(s)] + BytesIn(Tail(s))
    <1> DEFINE t == Tail(s)
               ns == [i \in DOMAIN s |-> Size[s[i]]]
               ms == [i \in DOMAIN t |-> Size[t[i]]]
    <1>1. /\ t \in Seq(Blob) /\ DOMAIN t = 1 .. Len(t) /\ Len(s) = Len(t) + 1
          /\ Len(t) \in Nat /\ DOMAIN s = 1 .. Len(s)
          /\ Head(s) = s[1] /\ Head(s) \in Blob /\ \A i \in 1 .. Len(t) : t[i] = s[i + 1]
        OBVIOUS
    <1>2. ns \in Seq(Nat) /\ ms \in Seq(Nat)
        BY <1>1, SizesType
    <1> HIDE DEF t
    <1>3. /\ Len(ns) = Len(s) /\ Len(ms) = Len(t) /\ ns[1] = Size[Head(s)]
          /\ \A i \in 1 .. Len(t) : ms[i] = Size[s[i + 1]] /\ ns[i + 1] = Size[s[i + 1]]
        BY <1>1
    <1> HIDE DEF ns, ms
    <1>4. ns # <<>> /\ Head(ns) = ns[1]
        BY <1>1, <1>2, <1>3
    <1>5. Tail(ns) = ms
        <2>1. /\ Tail(ns) \in Seq(Nat) /\ Len(Tail(ns)) = Len(t)
              /\ \A i \in 1 .. Len(t) : Tail(ns)[i] = ns[i + 1]
            BY <1>1, <1>2, <1>3, <1>4
        <2> QED
            BY <1>2, <1>3, <2>1, SeqEqual
    <1>6. Total(ns) = Head(ns) + Total(Tail(ns))
        BY <1>2, <1>4, TotalHead
    <1>7. BytesIn(s) = Total(ns) /\ BytesIn(t) = Total(ms)
        BY DEF BytesIn, ns, ms
    <1> QED
        BY <1>1, <1>3, <1>4, <1>5, <1>6, <1>7 DEF t

\* What waits on the stack fs.
WaitingOn(fs) == Total([i \in DOMAIN fs |-> BytesIn(fs[i].rest)])

LEMMA WaitingType ==
    ASSUME NEW fs \in Seq(Frame)
    PROVE  /\ [i \in DOMAIN fs |-> BytesIn(fs[i].rest)] \in Seq(Nat)
           /\ WaitingOn(fs) \in Nat
    <1>1. \A i \in 1 .. Len(fs) : fs[i].rest \in Seq(Blob)
        <2>1. \A i \in 1 .. Len(fs) : fs[i] \in Frame
            OBVIOUS
        <2> QED
            BY <2>1 DEF Frame
    <1>2. \A i \in 1 .. Len(fs) : BytesIn(fs[i].rest) \in Nat
        BY <1>1, SizesType
    <1>3. DOMAIN fs = 1 .. Len(fs) /\ Len(fs) \in Nat
        OBVIOUS
    <1>4. [i \in DOMAIN fs |-> BytesIn(fs[i].rest)] \in Seq(Nat)
        BY <1>2, <1>3
    <1> QED
        BY <1>4, TotalType DEF WaitingOn

LEMMA WaitingAppend ==
    ASSUME NEW fs \in Seq(Frame), NEW f \in Frame
    PROVE  WaitingOn(Append(fs, f)) = WaitingOn(fs) + BytesIn(f.rest)
    <1> DEFINE t == Append(fs, f)
               b == BytesIn(f.rest)
               ns == [i \in DOMAIN fs |-> BytesIn(fs[i].rest)]
               ms == [i \in DOMAIN t |-> BytesIn(t[i].rest)]
    <1>1. ns \in Seq(Nat) /\ b \in Nat
        BY WaitingType, SizesType DEF Frame
    <1>2. /\ DOMAIN t = 1 .. Len(fs) + 1 /\ t[Len(fs) + 1] = f
          /\ DOMAIN fs = 1 .. Len(fs) /\ Len(fs) \in Nat
          /\ \A i \in 1 .. Len(fs) : t[i] = fs[i]
        OBVIOUS
    <1>3. ms = Append(ns, b)
        <2> HIDE DEF t, b
        <2>1. Append(ns, b) = [i \in 1 .. Len(ns) + 1 |-> IF i = Len(ns) + 1 THEN b ELSE ns[i]]
              /\ Len(ns) = Len(fs)
            BY <1>1, <1>2
        <2>2. \A i \in 1 .. Len(fs) + 1 :
                BytesIn(t[i].rest) = IF i = Len(fs) + 1 THEN b ELSE ns[i]
            <3>1. \A i \in 1 .. Len(fs) + 1 : i = Len(fs) + 1 \/ i \in 1 .. Len(fs)
                BY <1>2
            <3>2. \A i \in 1 .. Len(fs) : ns[i] = BytesIn(fs[i].rest) /\ i # Len(fs) + 1
                BY <1>2
            <3>3. BytesIn(t[Len(fs) + 1].rest) = b
                BY <1>2, Zenon DEF b
            <3> QED
                BY <1>2, <3>1, <3>2, <3>3, Zenon
        <2> HIDE DEF ns
        <2> QED
            BY <1>2, <2>1, <2>2, Zenon
    <1> HIDE DEF ns, b
    <1>4. Total(ms) = Total(ns) + b
        BY <1>1, <1>3, TotalAppend
    <1> QED
        BY <1>4 DEF WaitingOn, ns, b

\* The last of every name returned.
Returned == [i \in DOMAIN out |-> Last(out[i])]

\* Taken from the last call on the stack, an entry waits no more.
LEMMA LessWaiting ==
    ASSUME TypeOK, Takes
    PROVE  /\ Entry \in Blob /\ BytesWaiting \in Nat /\ BytesWaiting' \in Nat
           /\ BytesWaiting = BytesWaiting' + Size[Entry]
    <1> DEFINE F == Front(frames)
               r == Tail(Top.rest)
               t == [Top EXCEPT !.rest = r]
    <1>1. frames # <<>> /\ Top.rest # <<>> /\ frames' = [frames EXCEPT ![Len(frames)].rest = r]
        BY DEF Takes, Counts, AtEntry, Top
    <1>2. F \in Seq(Frame) /\ Top \in Frame /\ frames = Append(F, Top)
        BY <1>1, TopAndBase
    <1>3. Top.rest \in Seq(Blob)
        BY <1>2 DEF Frame
    <1>4. /\ Entry \in Blob /\ r \in Seq(Blob)
          /\ BytesIn(Top.rest) = Size[Entry] + BytesIn(r)
        BY <1>1, <1>3, BytesHead DEF Entry
    <1>5. t \in Frame /\ frames' = Append(F, t)
        BY <1>1, <1>4, TopAndBase
    <1>6. t.rest = r
        BY <1>2 DEF Frame
    <1>7. WaitingOn(F) \in Nat /\ BytesIn(r) \in Nat /\ Size[Entry] \in Nat
        BY <1>2, <1>4, WaitingType, SizesType, BlobAssumption
    <1> HIDE DEF F, t, r
    <1>8. WaitingOn(Append(F, Top)) = WaitingOn(F) + BytesIn(Top.rest)
        BY <1>2, WaitingAppend
    <1>9. WaitingOn(Append(F, t)) = WaitingOn(F) + BytesIn(t.rest)
        BY <1>2, <1>5, WaitingAppend
    <1>10. BytesWaiting = WaitingOn(frames)
        BY DEF BytesWaiting, WaitingOn
    <1>11. BytesWaiting' = WaitingOn(frames')
        BY DEF BytesWaiting, WaitingOn
    <1>12. BytesWaiting = WaitingOn(F) + BytesIn(Top.rest)
        BY <1>2, <1>8, <1>10
    <1>13. BytesWaiting' = WaitingOn(F) + BytesIn(r)
        BY <1>5, <1>6, <1>9, <1>11
    <1> QED
        BY <1>4, <1>7, <1>12, <1>13

\* What appending to a sequence makes of it, place by place.
LEMMA AppendAt ==
    ASSUME NEW A, NEW s \in Seq(A), NEW a \in A
    PROVE  Append(s, a) = [i \in 1 .. Len(s) + 1 |-> IF i = Len(s) + 1 THEN a ELSE s[i]]
    <1> DEFINE t == [i \in 1 .. Len(s) + 1 |-> IF i = Len(s) + 1 THEN a ELSE s[i]]
    <1>1. Len(s) \in Nat /\ \A i \in 1 .. Len(s) : s[i] \in A
        OBVIOUS
    <1>2. \A i \in 1 .. Len(s) + 1 : i = Len(s) + 1 \/ i \in 1 .. Len(s)
        BY <1>1
    <1>3. t \in Seq(A) /\ Len(t) = Len(s) + 1
        BY <1>1, <1>2
    <1>4. Append(s, a) \in Seq(A) /\ Len(Append(s, a)) = Len(s) + 1
        OBVIOUS
    <1>5. \A i \in 1 .. Len(s) + 1 : t[i] = IF i = Len(s) + 1 THEN a ELSE s[i]
        OBVIOUS
    <1>6. \A i \in 1 .. Len(s) + 1 : Append(s, a)[i] = IF i = Len(s) + 1 THEN a ELSE s[i]
        OBVIOUS
    <1> HIDE DEF t
    <1>7. \A i \in 1 .. Len(s) + 1 : Append(s, a)[i] = t[i]
        BY <1>5, <1>6
    <1>8. Append(s, a) = t
        BY <1>3, <1>4, <1>7, SeqEqual
    <1> QED
        BY <1>8 DEF t

\* The bytes of a file that is pushed are returned.
LEMMA MoreReturned ==
    ASSUME TypeOK, Returned \in Seq(Blob), NEW b \in Blob, NEW n \in Name,
           out' = Append(out, Append(n, b))
    PROVE  Returned' \in Seq(Blob) /\ BytesOut' = BytesOut + Size[b]
    <1> DEFINE name == Append(n, b)
               N == Len(out)
    <1>1. /\ out \in Seq(Name) /\ N \in Nat /\ DOMAIN out = 1 .. N
          /\ name \in Name /\ Len(name) = Len(n) + 1 /\ name[Len(n) + 1] = b
        BY DEF TypeOK, Name
    <1>2. Last(name) = b
        <2>1. name[Len(name)] = b
            BY <1>1
        <2> QED
            BY <2>1 DEF Last
    <1>3. /\ DOMAIN out' = 1 .. N + 1 /\ out'[N + 1] = name
          /\ \A i \in 1 .. N : out'[i] = out[i]
        <2> HIDE DEF name
        <2>1. out' = Append(out, name)
            BY DEF name
        <2> QED
            BY <1>1, <2>1
    <1> HIDE DEF name, N
    <1>4. Len(Returned) = N
        BY <1>1 DEF Returned
    <1>5. Returned' = Append(Returned, b)
        <2>1. Append(Returned, b) = [i \in 1 .. N + 1 |-> IF i = N + 1 THEN b ELSE Returned[i]]
            <3> DEFINE R == Returned
            <3>1. R \in Seq(Blob) /\ Len(R) = N
                BY <1>4
            <3> HIDE DEF R
            <3>2. Append(R, b) =
                    [i \in 1 .. Len(R) + 1 |-> IF i = Len(R) + 1 THEN b ELSE R[i]]
                BY <3>1, AppendAt
            <3> QED
                BY <3>1, <3>2, Zenon DEF R
        <2>2. Returned' = [i \in 1 .. N + 1 |-> Last(out'[i])]
            BY <1>3, Zenon DEF Returned
        <2>3. \A i \in 1 .. N + 1 : Last(out'[i]) = IF i = N + 1 THEN b ELSE Returned[i]
            <3>1. \A i \in 1 .. N + 1 : i = N + 1 \/ i \in 1 .. N
                BY <1>1
            <3>2. \A i \in 1 .. N : i # N + 1 /\ Returned[i] = Last(out[i])
                BY <1>1 DEF Returned
            <3> QED
                BY <1>2, <1>3, <3>1, <3>2, Zenon
        <2> QED
            BY <2>1, <2>2, <2>3, Zenon
    <1>6. Returned' \in Seq(Blob)
        BY <1>5
    <1>7. BytesOut = BytesIn(Returned)
        BY DEF BytesOut, Returned
    <1>8. BytesOut' = BytesIn(Returned')
        BY DEF BytesOut, BytesIn, Returned
    <1> QED
        BY <1>5, <1>6, <1>7, <1>8, BytesAppend

-----------------------------------------------------------------------------

BytesHeld == BytesOut + BytesWaiting

Found == IF answer.is = "entry" THEN Size[answer.payload] ELSE 0

\* Of a tar stream there is no more in the layer than has been passed over.
PassedOver ==
    phase = "tar" =>
        /\ Format[job.blob] \in {"tar", "packed"}
        /\ BytesIn(layer) + Found <= offset /\ offset <= Size[data]

\* Where an archive stands between its opening and its frame, and what has been charged
\* for it by then: a packed one all of its stream, a tar the entries that are not left,
\* a zip every entry in the layer.
Charged ==
    /\ Returned \in Seq(Blob)
    /\ result # "error" => BytesHeld <= budget
    /\ phase = "tar" /\ Format[job.blob] = "packed" => BytesHeld + Size[data] <= budget
    /\ phase = "charge" => BytesHeld + BytesIn(layer) <= budget + BytesIn(left)
    /\ phase = "directory" => layer = <<>>
    /\ phase = "unzip" => BytesHeld + BytesIn(layer) <= budget

LEMMA PassedOverNext == IInv /\ PassedOver /\ [Next]_vars => PassedOver'
    <1> SUFFICES ASSUME IInv, PassedOver, [Next]_vars PROVE PassedOver'
        OBVIOUS
    <1>1. TypeOK /\ job.blob \in Blob /\ layer \in Seq(Blob) /\ offset \in Nat /\ data \in Blob
        BY DEF IInv, TypeOK, Job
    <1>2. Size \in [Blob -> Nat] /\ BytesIn(layer) \in Nat /\ Size[data] \in Nat
        BY <1>1, SizesType, BlobAssumption
    <1>3. CASE phase' # "tar"
        BY <1>3 DEF PassedOver
    <1>4. ASSUME NEW b \in Blob, TarOpen(b), layer' = <<>>, job' = job,
                 Format[job.blob] \in {"tar", "packed"}
          PROVE  PassedOver'
        <2>1. BytesIn(layer)' = 0
            BY <1>4, BytesEmpty
        <2>2. data' = b /\ offset' = 0 /\ answer' = [is |-> "searching"] /\ Size[b] \in Nat
            BY <1>4, <1>2 DEF TarOpen
        <2>3. Found' = 0
            BY <2>2 DEF Found
        <2> QED
            BY <1>4, <2>1, <2>2, <2>3 DEF PassedOver
    <1>5. CASE OpenTar
        BY <1>1, <1>4, <1>5 DEF OpenTar
    <1>6. CASE OpenPacked
        <2>1. PICK c \in Inner[job.blob] : TarOpen(c)
            BY <1>6 DEF OpenPacked
        <2>2. c \in Blob
            BY <1>1, ArchiveAssumption
        <2> QED
            BY <1>4, <1>6, <2>1, <2>2 DEF OpenPacked
    <1>7. CASE Search /\ phase = "tar"
        <2>1. UNCHANGED <<data, job, layer>> /\ answer.is = "searching"
            BY <1>7
            DEF Search, TarSearch, TarExhausted, TarEndMarker, TarMalformed, TarRefused,
                TarEntry, Searching, layerVars
        <2>2. /\ Format[job.blob] \in {"tar", "packed"}
              /\ BytesIn(layer) <= offset /\ offset <= Size[data]
            BY <1>2, <1>7, <2>1 DEF PassedOver, Found
        <2>3. BytesIn(layer)' = BytesIn(layer)
            BY <2>1
        <2>4. CASE TarExhausted \/ TarMalformed \/ TarRefused
            <3>1. offset' = offset /\ answer'.is \in {"none", "error"}
                BY <2>4 DEF TarExhausted, TarMalformed, TarRefused
            <3> QED
                BY <1>1, <1>2, <2>1, <2>2, <2>3, <3>1 DEF PassedOver, Found
        <2>5. CASE TarEndMarker
            <3>1. offset' = offset + 2 * BlockSize /\ answer'.is = "none"
                BY <2>5 DEF TarEndMarker
            <3>2. BlockSize \in Nat /\ offset + BlockSize + BlockSize <= Size[data]
                BY <2>5, TarAssumption DEF TarEndMarker, Fits
            <3> QED
                BY <1>1, <1>2, <2>1, <2>2, <2>3, <3>1, <3>2 DEF PassedOver, Found
        <2>6. CASE TarEntry
            <3>1. /\ At(offset).size \in Nat /\ At(offset).payload \in Blob
                  /\ Size[At(offset).payload] = At(offset).size
                BY <1>1, <2>6, HeaderOf DEF TarEntry, Admitted
            <3>2. Padding(At(offset).size) \in Nat /\ BlockSize \in Nat
                BY <3>1, TarAssumption DEF Padding
            <3>3. offset' = End /\ End <= Size[data]
                BY <2>6 DEF TarEntry, Admitted
            <3>4. End = offset + BlockSize + At(offset).size + Padding(At(offset).size)
                BY DEF End
            <3>5. Found' \in {0, At(offset).size}
                <4>1. CASE At(offset).regular
                    <5>1. answer' = [is |-> "entry", payload |-> At(offset).payload]
                        BY <2>6, <4>1 DEF TarEntry
                    <5> QED
                        BY <3>1, <5>1 DEF Found
                <4>2. CASE ~At(offset).regular
                    <5>1. answer' = [is |-> "searching"]
                        BY <2>6, <4>2 DEF TarEntry
                    <5> QED
                        BY <5>1 DEF Found
                <4> QED
                    BY <4>1, <4>2
            <3>6. BytesIn(layer) + Found' <= End
                BY <1>1, <1>2, <2>2, <3>1, <3>2, <3>4, <3>5
            <3> QED
                BY <2>1, <2>2, <2>3, <3>3, <3>6 DEF PassedOver
        <2> QED
            BY <1>7, <2>4, <2>5, <2>6 DEF Search, TarSearch
    <1>8. CASE Collect
        <2>1. /\ phase = "tar" /\ answer.is = "entry" /\ layer' = Append(layer, answer.payload)
              /\ UNCHANGED <<data, offset, job>> /\ answer'.is # "entry"
            BY <1>8 DEF Collect, TarNext
        <2>2. answer.payload \in Blob
            BY <1>1, <2>1 DEF TypeOK, Answer
        <2>3. BytesIn(layer)' = BytesIn(layer) + Size[answer.payload]
            BY <1>1, <2>1, <2>2, BytesAppend
        <2>4. Found = Size[answer.payload] /\ Found' = 0 /\ Size[answer.payload] \in Nat
            BY <1>2, <2>1, <2>2 DEF Found
        <2> QED
            BY <1>1, <1>2, <2>1, <2>3, <2>4 DEF PassedOver
    <1>9. CASE phase # "tar" /\ UNCHANGED phase
        BY <1>3, <1>9
    <1>10. CASE CollectFails \/ CollectEnds \/ OpenZip \/ OpenFails
        BY <1>3, <1>10 DEF CollectFails, CollectEnds, OpenZip, OpenFails, Fail
    <1>11. CASE ChargeEntry \/ ReadDirectory \/ DirectoryFails \/ DirectoryEnds
                    \/ Unzip \/ UnzipFails
        BY <1>3, <1>11
        DEF ChargeEntry, ReadDirectory, DirectoryFails, DirectoryEnds, Unzip, UnzipFails,
            Charge, Fail, AtMember
    <1>12. CASE Extracted \/ Enter \/ TooMany \/ TooMuch \/ Descend \/ Push \/ Return
        BY <1>3, <1>12
        DEF Extracted, Enter, TooMany, TooMuch, Descend, Push, Return, Takes, Counts,
            AtEntry, Fail
    <1>13. CASE AskAgain \/ (Search /\ phase = "iterate")
        BY <1>9, <1>13 DEF AskAgain, Search
    <1>14. CASE Stop \/ UNCHANGED vars
        <2>1. UNCHANGED <<phase, job, layer, answer, offset, data>>
            BY <1>14 DEF Stop, vars, layerVars, tarVars
        <2> QED
            BY <2>1 DEF PassedOver, Found
    <1> QED
        BY <1>5, <1>6, <1>7, <1>8, <1>10, <1>11, <1>12, <1>13, <1>14 DEF Next, Search

\* What opens an archive changes neither what is returned nor what waits.
LEMMA HeldSame ==
    ASSUME UNCHANGED <<out, frames>>
    PROVE  Returned' = Returned /\ BytesHeld' = BytesHeld
    BY DEF Returned, BytesHeld, BytesOut, BytesWaiting, BytesIn

\* A charge that is not refused leaves so much more charged.
LEMMA ChargeAdds ==
    ASSUME TypeOK, NEW n \in Nat, NEW next, Charge(n, next)
    PROVE  /\ budget' = budget + n
           /\ \/ result' = "error" /\ phase' = "done"
              \/ UNCHANGED result /\ phase' = next
    BY DEF Charge, Fail

\* If less waits, what was within the budget stays within it.
LEMMA StaysWithin ==
    ASSUME NEW a \in Nat, NEW b \in Nat, NEW c \in Nat, NEW d \in Nat, b <= c, a + c <= d
    PROVE  a + b <= d
    OBVIOUS

LEMMA ChargedNext == IInv /\ PassedOver /\ Charged /\ [Next]_vars => Charged'
    <1> SUFFICES ASSUME IInv, PassedOver, Charged, [Next]_vars PROVE Charged'
        OBVIOUS
    <1>1. /\ TypeOK /\ job.blob \in Blob /\ layer \in Seq(Blob) /\ left \in Seq(Blob)
          /\ data \in Blob /\ frames \in Seq(Frame) /\ budget \in Nat /\ Control
        BY DEF IInv, TypeOK, Job
    <1>2. /\ Size \in [Blob -> Nat] /\ BytesIn(layer) \in Nat /\ Size[data] \in Nat
          /\ BytesIn(left) \in Nat
        BY <1>1, SizesType, BlobAssumption
    <1>3. Returned \in Seq(Blob) /\ BytesOut \in Nat /\ BytesWaiting \in Nat
        <2>1. BytesOut = BytesIn(Returned)
            BY DEF BytesOut, Returned
        <2>2. BytesWaiting = WaitingOn(frames)
            BY DEF BytesWaiting, WaitingOn
        <2> QED
            BY <1>1, <2>1, <2>2, SizesType, WaitingType DEF Charged
    <1>4. BytesHeld \in Nat /\ BytesHeld = BytesOut + BytesWaiting
        BY <1>3 DEF BytesHeld
    <1>5. ASSUME UNCHANGED <<out, frames>>, result' = "error", phase' = "done"
          PROVE  Charged'
        BY <1>3, <1>5, HeldSame DEF Charged
    <1>6. phase # "done" => result # "error" /\ BytesHeld <= budget
        BY <1>1 DEF Control, Charged
    <1>6a. ASSUME Returned' \in Seq(Blob), BytesOut' + BytesWaiting' <= budget',
                  phase' \in {"open", "walk", "done"}
           PROVE  Charged'
        BY <1>6a DEF Charged, BytesHeld
    <1>7. CASE OpenTar \/ OpenZip
        <2>1. /\ UNCHANGED <<out, frames, budget, job>> /\ phase = "open" /\ layer' = <<>>
              /\ \/ phase' = "tar" /\ Format[job.blob] = "tar"
                 \/ phase' = "directory"
            BY <1>7 DEF OpenTar, OpenZip, limitVars
        <2> QED
            BY <1>3, <1>6, <2>1, HeldSame DEF Charged
    <1>8. CASE OpenPacked
        <2>1. PICK c \in Inner[job.blob] : TarOpen(c) /\ Charge(Size[c], "tar")
            BY <1>8 DEF OpenPacked
        <2>2. c \in Blob /\ Size[c] \in Nat
            BY <1>1, <1>2, ArchiveAssumption
        <2>3. UNCHANGED <<out, frames, job>> /\ phase = "open" /\ layer' = <<>>
            BY <1>8 DEF OpenPacked
        <2>4. data' = c
            BY <2>1 DEF TarOpen
        <2>5. budget' = budget + Size[c]
            BY <1>1, <2>1, <2>2, ChargeAdds
        <2>6. CASE UNCHANGED result /\ phase' = "tar"
            BY <1>1, <1>3, <1>4, <1>6, <2>2, <2>3, <2>4, <2>5, <2>6, HeldSame DEF Charged
        <2> QED
            BY <1>1, <1>5, <2>1, <2>2, <2>3, <2>6, ChargeAdds
    <1>9. CASE OpenFails \/ CollectFails \/ DirectoryFails \/ UnzipFails \/ TooMany \/ TooMuch
        <2>1. UNCHANGED <<out, frames>> /\ result' = "error" /\ phase' = "done"
            BY <1>9
            DEF OpenFails, CollectFails, DirectoryFails, UnzipFails, TooMany, TooMuch, Fail,
                limitVars
        <2> QED
            BY <1>5, <2>1
    <1>10. CASE Search \/ AskAgain \/ Collect
        <2>1. /\ UNCHANGED <<out, frames, budget, job, phase, result>>
              /\ phase \in {"tar", "iterate"}
              /\ data' = data
            BY <1>10
            DEF Search, AskAgain, Collect, limitVars, layerVars, TarNext, TarSearch,
                TarExhausted, TarEndMarker, TarMalformed, TarRefused, TarEntry
        <2> QED
            BY <1>3, <2>1, HeldSame DEF Charged
    <1>11. CASE CollectEnds
        <2>1. /\ UNCHANGED <<out, frames, budget, layer, result>> /\ phase = "tar"
              /\ phase' = "charge"
              /\ left' = IF Format[job.blob] = "tar" THEN layer ELSE <<>>
            BY <1>11 DEF CollectEnds, limitVars
        <2>2. /\ Format[job.blob] \in {"tar", "packed"}
              /\ BytesIn(layer) <= Size[data]
            <3>1. Found \in Nat /\ offset \in Nat
                BY <1>1, <1>2 DEF Found, TypeOK, Answer
            <3> QED
                BY <1>2, <2>1, <3>1 DEF PassedOver
        <2>3. BytesIn(layer)' = BytesIn(layer)
            BY <2>1
        <2>4. CASE Format[job.blob] = "tar"
            <3>1. BytesIn(left)' = BytesIn(layer)
                BY <2>1, <2>4
            <3> QED
                BY <1>1, <1>2, <1>3, <1>4, <1>6, <2>1, <2>3, <3>1, HeldSame DEF Charged
        <2>5. CASE Format[job.blob] = "packed"
            <3>1. BytesIn(left)' = 0
                BY <2>1, <2>5, BytesEmpty
            <3>2. BytesHeld + Size[data] <= budget
                BY <2>1, <2>5 DEF Charged
            <3> QED
                BY <1>1, <1>2, <1>3, <1>4, <1>6, <2>1, <2>2, <2>3, <3>1, <3>2, HeldSame
                DEF Charged
        <2> QED
            BY <2>2, <2>4, <2>5
    <1>12. CASE ChargeEntry
        <2>1. /\ UNCHANGED <<out, frames, layer>> /\ phase = "charge" /\ left # <<>>
              /\ Charge(Size[Head(left)], "charge") /\ left' = Tail(left)
            BY <1>12 DEF ChargeEntry
        <2>2. /\ Head(left) \in Blob /\ Size[Head(left)] \in Nat /\ BytesIn(Tail(left)) \in Nat
              /\ BytesIn(left) = Size[Head(left)] + BytesIn(Tail(left))
            BY <1>1, <1>2, <2>1, BytesHead, SizesType
        <2>3. budget' = budget + Size[Head(left)]
            BY <1>1, <2>1, <2>2, ChargeAdds
        <2>4. BytesIn(left)' = BytesIn(Tail(left)) /\ BytesIn(layer)' = BytesIn(layer)
            BY <2>1
        <2>5. CASE UNCHANGED result /\ phase' = "charge"
            <3>1. Returned' = Returned /\ BytesHeld' = BytesHeld
                BY <2>1, HeldSame
            <3>2. BytesHeld' <= budget'
                BY <1>1, <1>4, <1>6, <2>1, <2>2, <2>3, <3>1
            <3>3. BytesHeld + BytesIn(layer) <= budget + BytesIn(left)
                BY <2>1 DEF Charged
            <3>4. BytesHeld' + BytesIn(layer)' <= budget' + BytesIn(left)'
                <4> DEFINE n == Size[Head(left)]
                <4>1. /\ n \in Nat /\ budget \in Nat /\ budget' = budget + n
                      /\ BytesIn(left) = n + BytesIn(left)' /\ BytesIn(left)' \in Nat
                    BY <1>1, <2>2, <2>3, <2>4
                <4>2. BytesHeld' + BytesIn(layer)' = BytesHeld + BytesIn(layer)
                    BY <2>4, <3>1
                <4> HIDE DEF n
                <4>3. BytesHeld + BytesIn(layer) <= budget + (n + BytesIn(left)')
                    BY <3>3, <4>1
                <4>4. BytesHeld + BytesIn(layer) \in Nat
                    BY <1>2, <1>4
                <4> QED
                    BY <4>1, <4>2, <4>3, <4>4
            <3> QED
                BY <1>3, <2>5, <3>1, <3>2, <3>4 DEF Charged
        <2> QED
            BY <1>1, <1>5, <2>1, <2>2, <2>5, ChargeAdds
    <1>13. CASE ReadDirectory \/ DirectoryEnds
        <2>1. /\ UNCHANGED <<out, frames, budget, layer, result>> /\ phase = "directory"
              /\ phase' \in {"directory", "unzip"}
            BY <1>13 DEF ReadDirectory, DirectoryEnds, limitVars, layerVars
        <2>2. layer = <<>> /\ BytesIn(layer)' = 0
            BY <2>1, BytesEmpty DEF Charged
        <2> QED
            BY <1>1, <1>3, <1>4, <1>6, <2>1, <2>2, HeldSame DEF Charged
    <1>14. CASE Unzip
        <2>1. PICK p \in Payloads(job.blob, TheMember) :
                \E c \in CASE TheMember.method = "stored"   -> {p}
                          [] TheMember.method = "deflated" -> Inflations(TheMember, p)
                          [] OTHER                         -> {} :
                    Charge(Size[c], "unzip") /\ layer' = Append(layer, c)
            BY <1>14 DEF Unzip
        <2>2. PICK c \in Blob : Charge(Size[c], "unzip") /\ layer' = Append(layer, c)
            BY <1>14, <2>1, Unzipped DEF Unzip
        <2>3. UNCHANGED <<out, frames>> /\ phase = "unzip"
            BY <1>14 DEF Unzip, AtMember
        <2>4. Size[c] \in Nat /\ BytesIn(layer)' = BytesIn(layer) + Size[c]
            BY <1>1, <1>2, <2>2, BytesAppend
        <2>5. budget' = budget + Size[c]
            BY <1>1, <2>2, <2>4, ChargeAdds
        <2>6. CASE UNCHANGED result /\ phase' = "unzip"
            BY <1>1, <1>2, <1>3, <1>4, <1>6, <2>3, <2>4, <2>5, <2>6, HeldSame DEF Charged
        <2> QED
            BY <1>1, <1>5, <2>2, <2>3, <2>4, <2>6, ChargeAdds
    <1>15. Opened => BytesHeld + BytesIn(layer) <= budget
        <2>1. phase = "charge" /\ left = <<>> => BytesIn(left) = 0
            BY BytesEmpty
        <2> QED
            BY <1>1, <1>2, <1>4, <2>1 DEF Opened, Charged
    <1>16. CASE Extracted
        <2>1. /\ Opened /\ UNCHANGED <<frames, budget>> /\ phase' = "done"
              /\ out' = [i \in 1 .. Len(layer) |-> <<layer[i]>>]
            BY <1>16 DEF Extracted
        <2>2. Returned' = layer
            <3>1. DOMAIN layer = 1 .. Len(layer) /\ DOMAIN out' = 1 .. Len(layer)
                BY <1>1, <2>1
            <3>2. \A i \in 1 .. Len(layer) : Last(out'[i]) = layer[i]
                BY <2>1 DEF Last
            <3>3. layer = [i \in 1 .. Len(layer) |-> layer[i]]
                BY <1>1
            <3> QED
                BY <3>1, <3>2, <3>3, Zenon DEF Returned
        <2>3. BytesOut' = BytesIn(layer)
            <3>1. BytesOut' = BytesIn(Returned')
                BY DEF BytesOut, BytesIn, Returned
            <3> QED
                BY <2>2, <3>1
        <2>4. BytesWaiting' = BytesWaiting
            BY <2>1 DEF BytesWaiting, BytesIn
        <2> QED
            BY <1>1, <1>2, <1>3, <1>4, <1>15, <2>1, <2>2, <2>3, <2>4 DEF Charged, BytesHeld
    <1>17. CASE Enter
        <2> DEFINE f == [rest |-> layer, name |-> job.name, depth |-> job.depth]
        <2>1. Opened /\ UNCHANGED <<out, budget, result>> /\ phase' = "walk"
            BY <1>17 DEF Enter, limitVars
        <2>2. f \in Frame /\ f.rest = layer
            BY <1>1 DEF TypeOK, Job, Frame
        <2>3. frames' = Append(frames, f)
            BY <1>17 DEF Enter
        <2> HIDE DEF f
        <2>4. WaitingOn(Append(frames, f)) = WaitingOn(frames) + BytesIn(f.rest)
            BY <1>1, <2>2, WaitingAppend
        <2>5. BytesWaiting = WaitingOn(frames)
            BY DEF BytesWaiting, WaitingOn
        <2>6. BytesWaiting' = WaitingOn(frames')
            BY DEF BytesWaiting, WaitingOn
        <2>7. BytesWaiting' = BytesWaiting + BytesIn(layer)
            BY <2>2, <2>3, <2>4, <2>5, <2>6
        <2>8. BytesOut' = BytesOut /\ Returned' = Returned
            BY <2>1 DEF BytesOut, BytesIn, Returned
        <2> QED
            BY <1>1, <1>2, <1>3, <1>4, <1>15, <2>1, <2>7, <2>8 DEF Charged, BytesHeld
    <1>18. CASE Descend
        <2>1. Takes /\ UNCHANGED <<out, budget, result>> /\ phase' = "open" /\ phase = "walk"
            BY <1>18 DEF Descend, Takes, Counts, AtEntry
        <2>2. BytesWaiting' \in Nat /\ BytesWaiting' <= BytesWaiting
            BY <1>1, <1>2, <2>1, LessWaiting
        <2>3. BytesOut' = BytesOut /\ Returned' = Returned
            BY <2>1 DEF BytesOut, BytesIn, Returned
        <2>4. BytesOut' + BytesWaiting' <= budget'
            <3>1. budget' = budget /\ budget \in Nat
                BY <1>1, <2>1
            <3>2. BytesOut + BytesWaiting <= budget
                BY <1>4, <1>6, <2>1
            <3>3. BytesOut' \in Nat /\ BytesOut' = BytesOut
                BY <1>3, <2>3
            <3>4. BytesOut + BytesWaiting' <= budget
                BY <1>3, <2>2, <3>1, <3>2, StaysWithin
            <3> QED
                BY <3>1, <3>3, <3>4
        <2> QED
            BY <1>3, <1>6a, <2>1, <2>3, <2>4
    <1>19. CASE Push
        <2>1. /\ Takes /\ UNCHANGED <<budget, result, phase>> /\ phase = "walk"
              /\ out' = Append(out, Append(Top.name, Entry))
            BY <1>19 DEF Push, Takes, Counts, AtEntry
        <2>2. /\ Entry \in Blob /\ BytesWaiting' \in Nat /\ Size[Entry] \in Nat
              /\ BytesWaiting = BytesWaiting' + Size[Entry]
            BY <1>1, <1>2, <2>1, LessWaiting
        <2>3. Top.name \in Name
            <3>1. frames # <<>>
                BY <2>1 DEF Takes, Counts, AtEntry
            <3> QED
                BY <1>1, <3>1, TopAndBase DEF Frame
        <2>4. Returned' \in Seq(Blob) /\ BytesOut' = BytesOut + Size[Entry]
            BY <1>1, <1>3, <2>1, <2>2, <2>3, MoreReturned
        <2>5. BytesOut' + BytesWaiting' <= budget'
            <3>1. budget' = budget /\ budget \in Nat
                BY <1>1, <2>1
            <3>2. BytesOut + BytesWaiting <= budget
                BY <1>4, <1>6, <2>1
            <3> QED
                BY <1>3, <2>2, <2>4, <3>1, <3>2
        <2> QED
            BY <1>6a, <2>1, <2>4, <2>5
    <1>20. CASE Return
        <2>1. /\ frames # <<>> /\ frames' = Front(frames) /\ UNCHANGED <<out, budget>>
              /\ phase = "walk" /\ phase' \in {"walk", "done"}
            BY <1>20 DEF Return, limitVars
        <2>2. /\ Front(frames) \in Seq(Frame) /\ Top \in Frame
              /\ frames = Append(Front(frames), Top)
            BY <1>1, <2>1, TopAndBase
        <2> DEFINE F == Front(frames)
                   b == BytesIn(Top.rest)
        <2>3. b \in Nat
            BY <2>2, SizesType DEF Frame
        <2>4. WaitingOn(Append(F, Top)) = WaitingOn(F) + b /\ WaitingOn(F) \in Nat
            BY <2>2, WaitingAppend, WaitingType
        <2>5. BytesWaiting = WaitingOn(frames)
            BY DEF BytesWaiting, WaitingOn
        <2>6. BytesWaiting' = WaitingOn(frames')
            BY DEF BytesWaiting, WaitingOn
        <2> HIDE DEF F, b
        <2>7. frames = Append(F, Top) /\ frames' = F
            BY <2>1, <2>2 DEF F
        <2>8. BytesWaiting' \in Nat /\ BytesWaiting' <= BytesWaiting
            BY <2>3, <2>4, <2>5, <2>6, <2>7
        <2>9. BytesOut' = BytesOut /\ Returned' = Returned
            BY <2>1 DEF BytesOut, BytesIn, Returned
        <2>10. BytesOut' + BytesWaiting' <= budget'
            <3>1. budget' = budget /\ budget \in Nat
                BY <1>1, <2>1
            <3>2. BytesOut + BytesWaiting <= budget
                BY <1>4, <1>6, <2>1
            <3>3. BytesOut' \in Nat /\ BytesOut' = BytesOut
                BY <1>3, <2>9
            <3>4. BytesOut + BytesWaiting' <= budget
                BY <1>3, <2>8, <3>1, <3>2, StaysWithin
            <3> QED
                BY <3>1, <3>3, <3>4
        <2> QED
            BY <1>3, <1>6a, <2>1, <2>9, <2>10
    <1>21. CASE Stop \/ UNCHANGED vars
        <2>1. UNCHANGED <<out, frames, budget, result, phase, job, layer, left, data>>
            BY <1>21 DEF Stop, vars, limitVars, layerVars, tarVars
        <2>2. BytesIn(layer)' = BytesIn(layer) /\ BytesIn(left)' = BytesIn(left)
            BY <2>1
        <2> QED
            BY <1>3, <2>1, <2>2, HeldSame DEF Charged
    <1> QED
        BY <1>7, <1>8, <1>9, <1>10, <1>11, <1>12, <1>13, <1>14, <1>16, <1>17, <1>18, <1>19,
           <1>20, <1>21
        DEF Next

\* Nothing is returned or held for it that the budget of the call has not been charged
\* with, through whatever formats and however deep it was reached.
THEOREM AllIsCharged == Spec => []EverythingIsCharged
    <1> DEFINE I == IInv /\ PassedOver /\ Charged
    <1>1. Init => I
        <2> SUFFICES ASSUME Init PROVE I
            OBVIOUS
        <2>1. out = <<>> /\ frames = <<>> /\ budget = 0 /\ phase \in {"iterate", "open"}
            BY DEF Init
        <2>2. Returned = <<>>
            BY <2>1 DEF Returned
        <2>3. BytesOut = 0
            BY <2>2, BytesEmpty DEF BytesOut, Returned
        <2>4. BytesWaiting = 0
            <3>1. [i \in DOMAIN frames |-> BytesIn(frames[i].rest)] = <<>>
                BY <2>1
            <3> QED
                BY <3>1, TotalEmpty DEF BytesWaiting
        <2> QED
            BY InitInv, <2>1, <2>2, <2>3, <2>4 DEF PassedOver, Charged, BytesHeld
    <1>2. I /\ [Next]_vars => I'
        <2>1. IInv /\ [Next]_vars => IInv'
            BY TypeNext, FusedNext, ControlNext, TarEntriesSmallNext, ZipNext, LimitsNext
            DEF IInv
        <2> QED
            BY <2>1, PassedOverNext, ChargedNext
    <1>3. I => EverythingIsCharged
        BY DEF Charged, EverythingIsCharged, BytesHeld
    <1> QED
        BY <1>1, <1>2, <1>3, PTL DEF Spec
=============================================================================
