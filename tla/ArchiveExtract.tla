--------------------------- MODULE ArchiveExtract ---------------------------
(***************************************************************************)
(* auto_extract and auto_extract_recursive: an archive is opened by its    *)
(* format, its entries are collected and charged to a budget, and entries  *)
(* that are archives are opened in their turn, down to a depth.  The call  *)
(* stack of extract_recursive_into is the sequence frames.  A third caller *)
(* iterates over a tar stream itself and goes on after errors.             *)
(***************************************************************************)
EXTENDS TarReader, ZipReader, SequencesExt

CONSTANTS
    Root,           \* the blobs that are handed in
    Format,         \* what detect_format says of each blob
    Inner,          \* Inner[b]: what a compressed stream holds, {} if corrupt
    MaxDepth,       \* min(max_depth, MAX_RECURSIVE_DEPTH)
    Ratio,          \* DEFAULT_MAX_DECOMPRESSION_RATIO
    TotalBudget,    \* DEFAULT_TOTAL_DECOMPRESSED_BUDGET
    MaxOutputBytes, \* MAX_RECURSIVE_OUTPUT_BYTES
    MaxOutput       \* MAX_RECURSIVE_ENTRIES

\* "packed" is gzip or zstd, "unsupported" lz4 or snappy.
Formats == {"tar", "packed", "zip", "unsupported", "unknown"}

\* A codec makes one thing of a stream; detect_format knows a zip by the signature
\* at its start.
ASSUME ArchiveAssumption ==
    /\ Root \subseteq Blob
    /\ Format \in [Blob -> Formats]
    /\ Inner \in [Blob -> SUBSET Blob]
    /\ \A b \in Blob : \A c, d \in Inner[b] : c = d
    /\ \A b \in Blob :
         Format[b] = "zip" <=> Size[b] > 0 /\ Bytes[b][1].is \in {"local", "end"}
    /\ {MaxDepth, Ratio, TotalBudget, MaxOutputBytes, MaxOutput} \subseteq Nat

VARIABLES
    caller,         \* which function was called
    root,           \* and with what
    phase,          \* where it stands
    job,            \* the archive that is being opened: its name and depth
    layer,          \* its entries, as far as they have been collected
    left,           \* those still to be charged
    taken,          \* how many entries of a zip have been inflated
    frames,         \* the calls of extract_recursive_into that are in their loop
    out,            \* the names of the files extracted, in order
    totalBytes,
    budget,         \* DecompressBudget.total_decompressed
    result

layerVars == <<job, layer, left, taken>>

limitVars == <<out, totalBytes, budget>>

vars == <<tarVars, zipVars, layerVars, limitVars, caller, root, phase, frames, result>>

\* A name is a path through the archives, down to the entry.
Name == Seq(Blob)

Job == [blob : Blob, name : Name, depth : 0 .. MaxDepth]

Frame == [rest : Seq(Blob), name : Name, depth : 0 .. MaxDepth]

\* Every variable has its type.
TypeOK ==
    /\ data \in Blob
    /\ offset \in Nat
    /\ finished \in BOOLEAN
    /\ entryCount \in Nat
    /\ answer \in Answer
    /\ caller \in {"iterates", "extracts", "recurses"}
    /\ root \in Root
    /\ phase \in {"iterate", "open", "tar", "charge", "directory", "unzip", "walk", "done"}
    /\ job \in Job
    /\ layer \in Seq(Blob)
    /\ left \in Seq(Blob)
    /\ taken \in Nat
    /\ pos \in Nat
    /\ headers \in Nat
    /\ members \in Seq(Member)
    /\ frames \in Seq(Frame)
    /\ out \in Seq(Name)
    /\ totalBytes \in Nat
    /\ budget \in Nat
    /\ result \in {"none", "ok", "error"}

Init ==
    /\ root \in Root
    /\ job = [blob |-> root, name |-> <<>>, depth |-> MaxDepth]
    /\ data = root
    /\ offset = 0 /\ finished = FALSE /\ entryCount = 0
    /\ answer = [is |-> "searching"]
    /\ caller \in {"iterates", "extracts", "recurses"}
    /\ caller = "iterates" => Format[root] = "tar"
    /\ phase = IF caller = "iterates" THEN "iterate" ELSE "open"
    /\ layer = <<>> /\ left = <<>> /\ taken = 0 /\ frames = <<>>
    /\ pos = 0 /\ headers = 0 /\ members = <<>>
    /\ out = <<>> /\ totalBytes = 0 /\ budget = 0
    /\ result = "none"

\* The ? operator: the error goes through all frames to the caller.
Fail ==
    /\ phase' = "done"
    /\ result' = "error"

\* Mutant: the budget is counted and not compared.
ChargeUnchecked(bytes, next) ==
    /\ budget' = budget + bytes
    /\ phase' = next
    /\ UNCHANGED result

\* DecompressBudget::add, which counts before it compares.
Charge(bytes, next) ==
    /\ budget' = budget + bytes
    /\ IF budget' > TotalBudget
       THEN Fail
       ELSE phase' = next /\ UNCHANGED result

-----------------------------------------------------------------------------

OpenTar ==
    /\ phase = "open" /\ Format[job.blob] = "tar"
    /\ TarOpen(job.blob)
    /\ phase' = "tar"
    /\ layer' = <<>>
    /\ UNCHANGED <<zipVars, job, left, taken, limitVars, caller, root, frames, result>>

\* The loop of decompress_gzip, decompress_zstd and decompress_zip_deflate stops
\* beyond either limit.
Inflates(stored, c) ==
    /\ Size[c] <= MaxEntryBytes
    /\ stored * Ratio > 0 => Size[c] <= stored * Ratio

\* What is inflated is read as a tar stream, whatever detect_format says of it.
OpenPacked ==
    /\ phase = "open" /\ Format[job.blob] = "packed"
    /\ \E c \in Inner[job.blob] :
         /\ Inflates(Size[job.blob], c)
         /\ TarOpen(c)
         /\ Charge(Size[c], "tar")
    /\ layer' = <<>>
    /\ UNCHANGED <<zipVars, job, left, taken, out, totalBytes, caller, root, frames>>

OpenZip ==
    /\ phase = "open" /\ Format[job.blob] = "zip"
    /\ ZipOpen(job.blob)
    /\ phase' = "directory"
    /\ layer' = <<>>
    /\ taken' = 0
    /\ UNCHANGED <<tarVars, job, left, limitVars, caller, root, frames, result>>

OpenFails ==
    /\ phase = "open"
    /\ \/ Format[job.blob] \in {"unsupported", "unknown"}
       \/ Format[job.blob] = "zip" /\ Directories(job.blob) = {}
       \/ /\ Format[job.blob] = "packed"
          /\ \A c \in Inner[job.blob] : ~Inflates(Size[job.blob], c)
    /\ Fail
    /\ UNCHANGED <<tarVars, zipVars, layerVars, limitVars, caller, root, frames>>

Search ==
    /\ phase \in {"tar", "iterate"}
    /\ TarSearch
    /\ UNCHANGED <<zipVars, layerVars, limitVars, caller, root, phase, frames, result>>

\* collect::<Result<Vec<_>, _>>, to the first error or the end.
Collect ==
    /\ phase = "tar" /\ answer.is = "entry"
    /\ layer' = Append(layer, answer.payload)
    /\ TarNext
    /\ UNCHANGED <<zipVars, job, left, taken, limitVars, caller, root, phase, frames, result>>

CollectFails ==
    /\ phase = "tar" /\ answer.is = "error"
    /\ Fail
    /\ UNCHANGED <<tarVars, zipVars, layerVars, limitVars, caller, root, frames>>

\* Mutant: no entry of a tar is charged.
CollectEndsUncharged ==
    /\ phase = "tar" /\ answer.is = "none"
    /\ phase' = "charge"
    /\ left' = <<>>
    /\ UNCHANGED <<tarVars, zipVars, job, layer, taken, limitVars, caller, root, frames, result>>

\* Only the entries of a plain tar are charged one by one.
CollectEnds ==
    /\ phase = "tar" /\ answer.is = "none"
    /\ phase' = "charge"
    /\ left' = IF Format[job.blob] = "tar" THEN layer ELSE <<>>
    /\ UNCHANGED <<tarVars, zipVars, job, layer, taken, limitVars, caller, root, frames, result>>

ChargeEntry ==
    /\ phase = "charge" /\ left # <<>>
    /\ Charge(Size[Head(left)], "charge")
    /\ left' = Tail(left)
    /\ UNCHANGED <<tarVars, zipVars, job, layer, taken, out, totalBytes, caller, root, frames>>

ReadDirectory ==
    /\ phase = "directory"
    /\ ZipDirectory(job.blob) \/ ZipEntry(job.blob)
    /\ UNCHANGED <<tarVars, layerVars, limitVars, caller, root, phase, frames, result>>

DirectoryFails ==
    /\ phase = "directory"
    /\ ZipRefused(job.blob)
    /\ Fail
    /\ UNCHANGED <<tarVars, zipVars, layerVars, limitVars, caller, root, frames>>

\* ZipReader::entries returns before the first entry is inflated.
DirectoryEnds ==
    /\ phase = "directory" /\ headers = 0
    /\ phase' = "unzip"
    /\ UNCHANGED <<tarVars, zipVars, layerVars, limitVars, caller, root, frames, result>>

AtMember == phase = "unzip" /\ taken < Len(members)

TheMember == members[taken + 1]

\* The payload of the entry as a blob.  Bytes that are no blob of the instance inflate
\* to nothing; had such bytes been stored, the run would stop here with a deadlock.
Payloads(b, m) == { p \in Blob : Bytes[p] = Slice(b, m.from, m.to) }

\* What decompress_zip_deflate makes of the payload p: all of the declared size.
Inflations(m, p) ==
    { c \in Inner[p] : Inflates(Size[p], c) /\ Size[c] = m.size }

\* zip_entry_into_archive_entry
Unzip ==
    /\ AtMember
    /\ \E p \in Payloads(job.blob, TheMember) :
         \E c \in CASE TheMember.method = "stored"   -> {p}
                   [] TheMember.method = "deflated" -> Inflations(TheMember, p)
                   [] OTHER                         -> {} :
             /\ Charge(Size[c], "unzip")
             /\ layer' = Append(layer, c)
    /\ taken' = taken + 1
    /\ UNCHANGED <<tarVars, zipVars, job, left, out, totalBytes, caller, root, frames>>

UnzipFails ==
    /\ AtMember
    /\ \/ TheMember.method = "other"
       \/ /\ TheMember.method = "deflated"
          /\ \A p \in Payloads(job.blob, TheMember) : Inflations(TheMember, p) = {}
    /\ Fail
    /\ UNCHANGED <<tarVars, zipVars, layerVars, limitVars, caller, root, frames>>

Opened ==
    \/ phase = "charge" /\ left = <<>>
    \/ phase = "unzip" /\ taken = Len(members)

\* auto_extract returns the entries of one layer.
Extracted ==
    /\ Opened /\ caller = "extracts"
    /\ out' = [i \in 1 .. Len(layer) |-> <<layer[i]>>]
    /\ phase' = "done" /\ result' = "ok"
    /\ UNCHANGED <<tarVars, zipVars, layerVars, totalBytes, budget, caller, root, frames>>

Enter ==
    /\ Opened /\ caller = "recurses"
    /\ frames' = Append(frames, [rest |-> layer, name |-> job.name, depth |-> job.depth])
    /\ phase' = "walk"
    /\ UNCHANGED <<tarVars, zipVars, layerVars, limitVars, caller, root, result>>

Top == frames[Len(frames)]

Entry == Head(Top.rest)

\* The loop of extract_recursive_into has come to an entry.
AtEntry == phase = "walk" /\ frames # <<>> /\ Top.rest # <<>>

TooMany ==
    /\ AtEntry
    /\ Len(out) >= MaxOutput
    /\ Fail
    /\ UNCHANGED <<tarVars, zipVars, layerVars, limitVars, caller, root, frames>>

\* Its bytes are counted before they are compared.
Counts ==
    /\ AtEntry
    /\ Len(out) < MaxOutput
    /\ totalBytes' = totalBytes + Size[Entry]

TooMuch ==
    /\ Counts
    /\ totalBytes' > MaxOutputBytes
    /\ Fail
    /\ UNCHANGED <<tarVars, zipVars, layerVars, out, budget, caller, root, frames>>

Takes ==
    /\ Counts
    /\ totalBytes' <= MaxOutputBytes
    /\ frames' = [frames EXCEPT ![Len(frames)].rest = Tail(@)]

\* Mutant: the name of the archive is not put before that of its entries.
DescendUnnamed ==
    /\ Takes
    /\ Top.depth > 0 /\ Format[Entry] # "unknown"
    /\ job' = [blob |-> Entry, name |-> Top.name, depth |-> Top.depth - 1]
    /\ phase' = "open"
    /\ UNCHANGED <<tarVars, zipVars, layer, left, taken, out, budget, caller, root, result>>

\* Mutant: the depth is not looked at.
DescendDeeper ==
    /\ Takes
    /\ Format[Entry] # "unknown"
    /\ job' = [blob |-> Entry, name |-> Append(Top.name, Entry), depth |-> Top.depth - 1]
    /\ phase' = "open"
    /\ UNCHANGED <<tarVars, zipVars, layer, left, taken, out, budget, caller, root, result>>

\* Mutant: a nested archive has a budget of its own.
DescendAfresh ==
    /\ Takes
    /\ Top.depth > 0 /\ Format[Entry] # "unknown"
    /\ job' = [blob |-> Entry, name |-> Append(Top.name, Entry), depth |-> Top.depth - 1]
    /\ phase' = "open"
    /\ budget' = 0
    /\ UNCHANGED <<tarVars, zipVars, layer, left, taken, out, caller, root, result>>

Descend ==
    /\ Takes
    /\ Top.depth > 0 /\ Format[Entry] # "unknown"
    /\ job' = [blob |-> Entry, name |-> Append(Top.name, Entry), depth |-> Top.depth - 1]
    /\ phase' = "open"
    /\ UNCHANGED <<tarVars, zipVars, layer, left, taken, out, budget, caller, root, result>>

Push ==
    /\ Takes
    /\ Top.depth = 0 \/ Format[Entry] = "unknown"
    /\ out' = Append(out, Append(Top.name, Entry))
    /\ UNCHANGED <<tarVars, zipVars, layerVars, budget, caller, root, phase, result>>

Return ==
    /\ phase = "walk" /\ frames # <<>> /\ Top.rest = <<>>
    /\ frames' = Front(frames)
    /\ IF Len(frames) = 1
       THEN phase' = "done" /\ result' = "ok"
       ELSE UNCHANGED <<phase, result>>
    /\ UNCHANGED <<tarVars, zipVars, layerVars, limitVars, caller, root>>

\* The caller that has the iterator for itself asks again, whatever it was told.
AskAgain ==
    /\ phase = "iterate"
    /\ TarNext
    /\ UNCHANGED <<zipVars, layerVars, limitVars, caller, root, phase, frames, result>>

Stop == phase = "done" /\ UNCHANGED vars

Next ==
    \/ OpenTar \/ OpenPacked \/ OpenZip \/ OpenFails
    \/ ReadDirectory \/ DirectoryFails \/ DirectoryEnds
    \/ Search \/ Collect \/ CollectFails \/ CollectEnds
    \/ ChargeEntry \/ Unzip \/ UnzipFails
    \/ Extracted \/ Enter \/ TooMany \/ TooMuch \/ Descend \/ Push \/ Return
    \/ AskAgain
    \/ Stop

Spec == Init /\ [][Next]_vars

-----------------------------------------------------------------------------

\* The limits hold for all layers together, nested ones included: nothing is
\* returned beyond them, and even when extraction fails no more than one inflated
\* entry above the budget has been held.
WithinLimits ==
    /\ budget <= TotalBudget + MaxEntryBytes
    /\ result # "error" => budget <= TotalBudget /\ totalBytes <= MaxOutputBytes
    /\ caller = "recurses" => Len(out) <= MaxOutput

\* The sum of a sequence of numbers.
Total(ns) ==
    LET upto[k \in 0 .. Len(ns)] == IF k = 0 THEN 0 ELSE upto[k - 1] + ns[k]
    IN  upto[Len(ns)]

BytesIn(s) == Total([i \in DOMAIN s |-> Size[s[i]]])

\* The bytes of the files that are returned, and of the entries that still wait in
\* some call on the stack.
BytesOut == BytesIn([i \in DOMAIN out |-> Last(out[i])])

BytesWaiting == Total([i \in DOMAIN frames |-> BytesIn(frames[i].rest)])

\* Every byte that is returned or held for it has been charged to the one budget of
\* the call, whichever format it came from and however deep: what a compressed tar
\* holds with the stream it was inflated from, the rest entry by entry.
EverythingIsCharged ==
    result # "error" => BytesOut + BytesWaiting <= budget

\* The regular files in the last k blocks of the tar stream b, in order: a header, as
\* many whole blocks as its size takes, the next header, to what is none.
FilesAmong(b) ==
    LET among[k \in 0 .. Len(Blocks[b])] ==
          LET header == Blocks[b][Len(Blocks[b]) - k + 1]
              rest == k - 1 - ((header.size + BlockSize - 1) \div BlockSize)
          IN  IF k = 0 \/ header.is # "header" \/ rest < 0
              THEN <<>>
              ELSE (IF header.regular THEN <<header.payload>> ELSE <<>>) \o among[rest]
    IN  among

FilesOf(b) == FilesAmong(b)[Len(Blocks[b])]

\* What the file whose header is at the offset h of the zip b may be.
KeptAt(b, h) ==
    LET C == Bytes[b][h + 1]
        L == Bytes[b][C.local + 1]
        from == C.local + LocalSize + L.name + L.extra
        kept == { p \in Blob : Bytes[p] = Slice(b, from, from + C.stored) }
    IN  IF C.method = "stored" THEN kept ELSE UNION { Inner[p] : p \in kept }

\* It is one, or else the archive cannot be opened.
TheOne(S) == CHOOSE c \in Blob : S # {} => c \in S

\* Whether the header at h is that of a directory, and where the next is.
FolderAt(b, h) ==
    LET name == Bytes[b][h + 1].name
    IN  name > 0 /\ Bytes[b][h + CentralSize + name] = [is |-> "letter", letter |-> Slash]

NextAt(b, h) ==
    LET C == Bytes[b][h + 1] IN h + CentralSize + C.name + C.extra + C.comment

\* The files that k headers of the zip b lead to, the first of them at h, k up to n.
FilesListed(b, n) ==
    LET files[k \in 0 .. n] ==
          [h \in Nat |->
             IF k = 0 \/ h >= Size[b] \/ ~Reads(b, h, "central")
             THEN <<>>
             ELSE (IF FolderAt(b, h) THEN <<>> ELSE <<TheOne(KeptAt(b, h))>>)
                    \o files[k - 1][NextAt(b, h)]]
    IN  files

TheEnd(b) == CHOOSE e \in EndRecords(b) : TRUE

UnzippedOf(b) ==
    IF EndRecords(b) = {}
    THEN <<>>
    ELSE FilesListed(b, TheEnd(b).count)[TheEnd(b).count][TheEnd(b).start]

\* The entries of an archive that can be opened.
EntriesOf(b) ==
    CASE Format[b] = "tar"    -> FilesOf(b)
      [] Format[b] = "packed" -> FilesOf(TheOne(Inner[b]))
      [] Format[b] = "zip"    -> UnzippedOf(b)
      [] OTHER                -> <<>>

\* What is in the archive b, to the depth d, by name and in order: Contents[d][b].
Contents[d \in 0 .. MaxDepth] ==
    [b \in Blob |->
       LET under(e) == IF d > 0 /\ Format[e] # "unknown"
                       THEN [i \in DOMAIN Contents[d - 1][e] |-> <<e>> \o Contents[d - 1][e][i]]
                       ELSE << <<e>> >>
       IN  FlattenSeq([i \in DOMAIN EntriesOf(b) |-> under(EntriesOf(b)[i])])]

\* What is returned is all that the archive holds, once, in its order and under its
\* names, however layers of different formats are nested.
ExtractsContents ==
    result = "ok" /\ caller = "recurses" => out = Contents[MaxDepth][root]

\* After an error or the end, next() returns None for ever: the iterator does not
\* take the middle of an entry for a header.
TarIsFused ==
    [][caller = "iterates" /\ answer.is \in {"none", "error"} => answer'.is = "none"]_vars

\* The documentation of TarReader::entries has it that the "end of archive requires
\* two consecutive all-zero 512-byte blocks".
EndsAtMarker ==
    phase = "tar" /\ answer.is = "none" /\ entryCount > 0 =>
        /\ offset >= 2 * BlockSize
        /\ At(offset - BlockSize).is = "zero" /\ At(offset - 2 * BlockSize).is = "zero"
=============================================================================
