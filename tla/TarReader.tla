----------------------------- MODULE TarReader -----------------------------
(***************************************************************************)
(* TarEntriesIter: the iterator over the regular files of a tar stream     *)
(* held in memory.  A blob is any byte string; what its blocks would read  *)
(* as, were each a header, is given by Blocks.                             *)
(***************************************************************************)
EXTENDS ArchiveBlob

CONSTANTS
    Blocks,         \* Blocks[b]: its whole blocks, in order
    BlockSize       \* 512

\* "zero": all bytes zero; "bad": parse_header or validate_path_traversal refuses
\* it; "header": size bytes follow, which are payload.
Block ==
    [is : {"zero", "bad"}]
        \cup [is : {"header"}, regular : BOOLEAN, size : Nat, payload : Blob]

\* A payload has the size that its header declares.
ASSUME TarAssumption ==
    /\ BlockSize \in Nat \ {0}
    /\ Blocks \in [Blob -> Seq(Block)]
    /\ \A b \in Blob : Len(Blocks[b]) = Size[b] \div BlockSize
    /\ \A b \in Blob : \A i \in 1 .. Len(Blocks[b]) :
         Blocks[b][i].is = "header" => Size[Blocks[b][i].payload] = Blocks[b][i].size

VARIABLES
    data,           \* the blob that is read
    offset,
    finished,
    entryCount,
    answer          \* what next() has returned, or "searching" inside of it

tarVars == <<data, offset, finished, entryCount, answer>>

Answer ==
    [is : {"searching", "none", "error"}] \cup [is : {"entry"}, payload : Blob]

\* TarReader::entries
TarOpen(b) ==
    /\ data' = b
    /\ offset' = 0
    /\ finished' = FALSE
    /\ entryCount' = 0
    /\ answer' = [is |-> "searching"]

\* The block at the offset o.
At(o) == Blocks[data][o \div BlockSize + 1]

Fits(o) == o + BlockSize <= Size[data]

\* padding_checked: what fills the last block of a payload.
Padding(size) == IF size % BlockSize = 0 THEN 0 ELSE BlockSize - (size % BlockSize)

\* Where the payload of the header at the offset ends, with its padding.
End == offset + BlockSize + At(offset).size + Padding(At(offset).size)

Searching == answer.is = "searching"

-----------------------------------------------------------------------------

\* Another call of next().
TarNext ==
    /\ ~Searching
    /\ answer' = [is |-> IF finished THEN "none" ELSE "searching"]
    /\ UNCHANGED <<data, offset, finished, entryCount>>

\* The data ends where a header could start: this is taken for the end.
TarExhausted ==
    /\ Searching
    /\ offset >= Size[data]
    /\ answer' = [is |-> "none"]
    /\ finished' = TRUE
    /\ UNCHANGED <<data, offset, entryCount>>

\* The end as POSIX has it, two blocks of zeros.
TarEndMarker ==
    /\ Searching
    /\ Fits(offset) /\ At(offset).is = "zero"
    /\ Fits(offset + BlockSize) /\ At(offset + BlockSize).is = "zero"
    /\ answer' = [is |-> "none"]
    /\ finished' = TRUE
    /\ offset' = offset + 2 * BlockSize
    /\ UNCHANGED <<data, entryCount>>

\* Part of a block, a block that is no header, or one block of zeros.
Malformed ==
    /\ offset < Size[data]
    /\ Fits(offset) => At(offset).is # "header"
    /\ Fits(offset + BlockSize) => "zero" \notin {At(offset).is} \cap {At(offset + BlockSize).is}

\* Mutant: the iterator is left where the error was.
TarMalformedAgain ==
    /\ Searching
    /\ Malformed
    /\ answer' = [is |-> "error"]
    /\ UNCHANGED <<data, offset, finished, entryCount>>

TarMalformed ==
    /\ Searching
    /\ Malformed
    /\ answer' = [is |-> "error"]
    /\ finished' = TRUE
    /\ UNCHANGED <<data, offset, entryCount>>

IsHeader == Fits(offset) /\ At(offset).is = "header"

\* One entry too many, one that is too large, or one that is not all there.
TarRefused ==
    /\ Searching
    /\ IsHeader
    /\ entryCount' = entryCount + 1
    /\ \/ entryCount' > MaxEntries
       \/ At(offset).size > MaxEntryBytes
       \/ End > Size[data]
    /\ answer' = [is |-> "error"]
    /\ finished' = TRUE
    /\ UNCHANGED <<data, offset>>

Admitted ==
    /\ IsHeader
    /\ entryCount < MaxEntries
    /\ At(offset).size <= MaxEntryBytes
    /\ End <= Size[data]

\* A regular file is yielded; any other entry is passed over.
TarEntry ==
    /\ Searching
    /\ Admitted
    /\ entryCount' = entryCount + 1
    /\ offset' = End
    /\ answer' = IF At(offset).regular
                 THEN [is |-> "entry", payload |-> At(offset).payload]
                 ELSE [is |-> "searching"]
    /\ UNCHANGED <<data, finished>>

TarSearch ==
    \/ TarExhausted
    \/ TarEndMarker
    \/ TarMalformed
    \/ TarRefused
    \/ TarEntry
=============================================================================
