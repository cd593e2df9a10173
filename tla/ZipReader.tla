------------------------------ MODULE ZipReader ------------------------------
(***************************************************************************)
(* ZipReader::entries: the end record is searched from the end of the      *)
(* data, it leads to the central directory, each of whose headers leads to *)
(* a local header and the payload behind it.  Offsets count from 0.        *)
(***************************************************************************)
EXTENDS ArchiveBlob

CONSTANTS
    Bytes,          \* Bytes[b]: what b reads as, byte by byte
    Letter,         \* the bytes at which no record starts
    Slash,          \* the letter that ends the name of a directory
    RefusedName,    \* not UTF-8, or refused by validate_path_traversal
    CentralSize,    \* 46
    LocalSize,      \* 30
    EndSize,        \* 22
    MaxComment,     \* 65535
    Zip64,          \* ZIP32_SIZE_SENTINEL
    Zip64Count      \* u16::MAX

\* A byte, with the fields of the record when one has its signature there.
Byte ==
    [is : {"letter"}, letter : Letter]
        \cup [is : {"end"}, count : Nat, start : Nat]
        \cup [is : {"central"}, name : Nat, extra : Nat, comment : Nat,
              method : {"stored", "deflated", "other"}, stored : Nat, size : Nat,
              local : Nat]
        \cup [is : {"local"}, name : Nat, extra : Nat]

\* A blob is its bytes.
ASSUME ZipAssumption ==
    /\ Bytes \in [Blob -> Seq(Byte)]
    /\ \A a, b \in Blob : Bytes[a] = Bytes[b] => a = b
    /\ \A b \in Blob : Len(Bytes[b]) = Size[b]
    /\ {CentralSize, LocalSize, EndSize} \subseteq Nat \ {0}
    /\ {MaxComment, Zip64, Zip64Count} \subseteq Nat

VARIABLES
    pos,            \* where the next header of the directory is expected
    headers,        \* how many are still to be read
    members         \* the entries: found in the directory, not yet inflated

zipVars == <<pos, headers, members>>

\* A ZipEntry; its data are the bytes of the archive from one offset to another.
Member ==
    [method : {"stored", "deflated", "other"}, size : Nat, from : Nat, to : Nat]

\* The bytes of b from one offset up to another.
Slice(b, from, to) == SubSeq(Bytes[b], from + 1, to)

\* b has room for n bytes at the offset o.
RoomFor(b, o, n) == o + n <= Size[b]

\* The offset o holds the signature of a record of this kind.
Reads(b, o, kind) == Bytes[b][o + 1].is = kind

-----------------------------------------------------------------------------

\* Where find_eocd finds the signature of the end record, if it searches on.
EndOffsets(b) ==
    { o \in 0 .. Size[b] - EndSize :
        Size[b] - EndSize - o <= MaxComment /\ Reads(b, o, "end") }

\* The end record: of those found, the last.
EndRecords(b) ==
    { Bytes[b][o + 1] : o \in { o \in EndOffsets(b) : \A p \in EndOffsets(b) : p <= o } }

\* Where it says that the directory is; none, if it is refused.
Directories(b) ==
    { e \in EndRecords(b) :
        e.count # Zip64Count /\ e.start # Zip64 /\ e.count <= MaxEntries }

ZipOpen(b) ==
    \E e \in Directories(b) :
        /\ pos' = e.start
        /\ headers' = e.count
        /\ members' = <<>>

\* The header of the directory that is being read.
Central(b) == Bytes[b][pos + 1]

NameEnd(b) == pos + CentralSize + Central(b).name

NameOf(b) == Slice(b, pos + CentralSize, NameEnd(b))

CentralReadable(b) ==
    /\ RoomFor(b, pos, CentralSize)
    /\ Reads(b, pos, "central")
    /\ Zip64 \notin {Central(b).stored, Central(b).size, Central(b).local}
    /\ RoomFor(b, pos + CentralSize, Central(b).name)
    /\ NameOf(b) \notin RefusedName

IsDirectory(b) ==
    NameOf(b) # <<>> /\ NameOf(b)[Central(b).name] = [is |-> "letter", letter |-> Slash]

\* The local header that it leads to.
Local(b) == Bytes[b][Central(b).local + 1]

LocalNameEnd(b) == Central(b).local + LocalSize + Local(b).name

PayloadStart(b) == LocalNameEnd(b) + Local(b).extra

PayloadEnd(b) == PayloadStart(b) + Central(b).stored

LocalReadable(b) ==
    LET o == Central(b).local IN
    /\ RoomFor(b, o, LocalSize)
    /\ Reads(b, o, "local")
    /\ RoomFor(b, o + LocalSize, Local(b).name)
    /\ Slice(b, o + LocalSize, LocalNameEnd(b)) = NameOf(b)

SizesAgree(b) ==
    /\ Central(b).stored <= MaxEntryBytes
    /\ Central(b).method = "stored" =>
         Central(b).stored = Central(b).size /\ Central(b).size <= MaxEntryBytes

PayloadReadable(b) ==
    /\ LocalReadable(b)
    /\ SizesAgree(b)
    /\ RoomFor(b, PayloadStart(b), Central(b).stored)

\* The header is done with: extra field and comment are passed over.
ToNext(b) ==
    /\ headers > 0
    /\ CentralReadable(b)
    /\ pos' = NameEnd(b) + Central(b).extra + Central(b).comment
    /\ headers' = headers - 1

\* Nothing is read of a directory but its name.
ZipDirectory(b) ==
    /\ ToNext(b)
    /\ IsDirectory(b)
    /\ UNCHANGED members

ZipEntry(b) ==
    /\ ToNext(b)
    /\ ~IsDirectory(b)
    /\ PayloadReadable(b)
    /\ members' = Append(members,
         [method |-> Central(b).method, size |-> Central(b).size,
          from |-> PayloadStart(b), to |-> PayloadEnd(b)])

ZipRefused(b) ==
    /\ headers > 0
    /\ ~(CentralReadable(b) /\ (IsDirectory(b) \/ PayloadReadable(b)))
=============================================================================
