------------------------------ MODULE CodeFile ------------------------------
(***************************************************************************)
(* One file of a CodeWalker's tree, from the look at it that makes its     *)
(* FileEntry (code_process_path) to the reading of its content, by content *)
(* or by content_chunks, while others change the file.  The rest of the    *)
(* walk is CodeWalkIter.                                                   *)
(***************************************************************************)
EXTENDS CodeWalkIter, LiveFile, SymlinkPolicy

CONSTANTS
    Watched,        \* the entry whose file others change
    PathOf,         \* PathOf[e]: its path
    MaxFileSize,    \* WalkConfig::max_file_size, 0 for no limit
    SkipBinary,     \* WalkConfig::skip_binary
    HeadSize,       \* the bytes that is_binary_file reads
    Magic,          \* BINARY_MAGIC_BYTES
    NonText,        \* the bytes that do not look like text
    ContentCap,     \* MAX_CONTENT_AUTOLOAD
    ChunkSize       \* READ_CHUNK_SIZE

ASSUME CodeFileAssumption ==
    /\ Watched \in Entry
    /\ PathOf \in [Entry -> Seq(Name)]
    /\ SkipBinary \in BOOLEAN
    /\ {MaxFileSize, HeadSize, ContentCap, ChunkSize} \subseteq Nat
    /\ Magic \subseteq Seq(Byte)
    /\ NonText \subseteq Byte

\* The filter of CodeTree is code_entry_allowed, given paths that the walker has made
\* by adding names to the root's; a file system that changes may fail it, too.
ASSUME FilterAssumption ==
    \A e \in Entry : /\ IsPrefix(RootPath, PathOf[e])
                    /\ Allowed[e] \subseteq {code_entry_allowed(PathOf[e]), "fails"}

VARIABLES
    looking,        \* "unopened", "opened", "sized" or "done" (code_process_path)
    file,           \* the file that it has opened
    seen,           \* what that was when its size was taken
    entry,          \* the FileEntry, in an option
    reading,        \* "idle", "statted", "reading", "whole", "failed" or "tooLarge"
    via,            \* "content" or "chunks", once reading has begun
    source,         \* the file whose content is read
    done,           \* FileContentChunks.done
    atOpen,         \* what that was when it was opened
    got             \* what has been read

lookVars == <<looking, file, seen, entry>>

readVars == <<reading, via, source, done, atOpen, got>>

fileVars == <<vars, liveVars, lookVars, readVars>>

NoFile == NewFile(FirstInode, <<>>)

FileInit ==
    /\ Init
    /\ LiveInit
    /\ looking = "unopened"
    /\ file = 0
    /\ seen = NoFile
    /\ entry = {}
    /\ reading = "idle"
    /\ via = "none"
    /\ source = 0
    /\ done = FALSE
    /\ atOpen = NoFile
    /\ got = <<>>

-----------------------------------------------------------------------------
(* code_process_path, in the closure of filter_map.  Extensions are looked *)
(* at too: they depend on the path alone and are left to Visited.          *)

AtWatched == at = "mapping" /\ Watched \in current

Conclude(v) == MapAs(Watched, v) /\ looking' = "done"

\* File::open.  It fails if nothing has the path, and may fail if something has.
OpenEntry ==
    /\ AtWatched /\ looking = "unopened"
    /\ \/ named # 0 /\ looking' = "opened" /\ file' = named /\ UNCHANGED vars
       \/ Conclude("fails") /\ UNCHANGED file
    /\ UNCHANGED <<seen, entry, liveVars, readVars>>

TooBig(size) == MaxFileSize > 0 /\ size > MaxFileSize

\* File::metadata, if it does not fail: the size is that of the open file, not of
\* the path.
SizeEntry ==
    /\ AtWatched /\ looking = "opened"
    /\ \/ Conclude("fails") /\ UNCHANGED seen
       \/ /\ seen' = files[file]
          /\ IF TooBig(Size(file))
             THEN Conclude("skip")
             ELSE looking' = "sized" /\ UNCHANGED vars
    /\ UNCHANGED <<file, entry, liveVars, readVars>>

\* A known signature, or more than 30% of bytes that are not text.
LooksBinary(head) ==
    \/ \E m \in Magic : IsPrefix(m, head)
    \/ 10 * Cardinality({ i \in DOMAIN head : head[i] \in NonText }) > 3 * Len(head)

\* The entry is made with the verdict that it is binary or not, or left out.
Admit(isBinary) ==
    IF SkipBinary /\ isBinary
    THEN Conclude("skip") /\ UNCHANGED entry
    ELSE /\ entry' = {[size |-> Len(seen.bytes), isBinary |-> isBinary]}
         /\ Conclude("file")

\* Mutant: the head is read from whatever the path names by now.
SniffByPath ==
    /\ AtWatched /\ looking = "sized"
    /\ IF seen.bytes = <<>>
       THEN Admit(FALSE)
       ELSE \/ Conclude("fails") /\ UNCHANGED entry
            \/ /\ named # 0
               /\ \E n \in 0 .. HeadSize :
                    /\ n <= Size(named)
                    /\ n = 0 => Size(named) = 0
                    /\ Admit(n > 0 /\ LooksBinary(SubSeq(files[named].bytes, 1, n)))
    /\ UNCHANGED <<file, seen, liveVars, readVars>>

\* is_binary_file on the open file: one read of the head, which may be short; an
\* empty file is not read at all.
Sniff ==
    /\ AtWatched /\ looking = "sized"
    /\ IF seen.bytes = <<>>
       THEN Admit(FALSE)
       ELSE \/ Conclude("fails") /\ UNCHANGED entry
            \/ \E n \in 0 .. HeadSize :
                 /\ n <= Size(file)
                 /\ n = 0 => Size(file) = 0
                 /\ Admit(n > 0 /\ LooksBinary(SubSeq(files[file].bytes, 1, n)))
    /\ UNCHANGED <<file, seen, liveVars, readVars>>

\* The other entries, which nobody changes, and the rest of the iterator.
WalkOn ==
    /\ ~AtWatched
    /\ \/ NextFused \/ NextBuffered \/ NextInner
       \/ FilterOut \/ InnerYields \/ InnerEnds \/ Map
    /\ UNCHANGED <<liveVars, lookVars, readVars>>

IterStep == OpenEntry \/ SizeEntry \/ Sniff \/ WalkOn

-----------------------------------------------------------------------------
(* Whoever has the entry reads the file, once, by its path.                *)

\* The entry has been handed out: one by one, or all of them at the end.
HandedOut == entry # {} /\ (asker = "iterates" \/ result = "ok")

ReadAs(outcome) == reading' = outcome

\* content: the size by path, to reject what is too large already.
StatContent ==
    /\ HandedOut /\ reading = "idle"
    /\ via' = "content"
    /\ IF named = 0
       THEN ReadAs("failed")
       ELSE IF Size(named) > ContentCap THEN ReadAs("tooLarge") ELSE ReadAs("statted")
    /\ UNCHANGED <<source, done, atOpen, got, vars, liveVars, lookVars>>

\* content after its stat, or content_chunks: the path is opened.
OpenContent ==
    /\ \/ reading = "statted" /\ UNCHANGED via
       \/ HandedOut /\ reading = "idle" /\ via' = "chunks"
    /\ IF named = 0
       THEN ReadAs("failed") /\ UNCHANGED <<source, atOpen>>
       ELSE ReadAs("reading") /\ source' = named /\ atOpen' = files[named]
    /\ UNCHANGED <<done, got, vars, liveVars, lookVars>>

Rest == Size(source) - Len(got)

\* Mutant: no more is read than the walk has found.
RoomAsWalked == (CHOOSE e \in entry : TRUE).size - Len(got)

\* Mutant: the read is not bounded.
RoomUnbounded == MaxLen

\* Room left by take(MAX_CONTENT_AUTOLOAD + 1).
Room == ContentCap + 1 - Len(got)

\* One read inside read_to_end, or the end, at the end of the file or of the room.
ReadContent ==
    /\ reading = "reading" /\ via = "content"
    /\ \/ \E n \in 1 .. MaxLen :
            /\ n <= Rest /\ n <= Room
            /\ got' = got \o SubSeq(files[source].bytes, Len(got) + 1, Len(got) + n)
            /\ UNCHANGED reading
       \/ /\ Rest <= 0 \/ Room <= 0
          /\ ReadAs(IF Len(got) > ContentCap THEN "tooLarge" ELSE "whole")
          /\ UNCHANGED got
       \/ ReadAs("failed") /\ UNCHANGED got
    /\ UNCHANGED <<via, source, done, atOpen, vars, liveVars, lookVars>>

\* Mutant: the end of the file is not remembered.
NextChunkGoesOn ==
    /\ via = "chunks" /\ source # 0
    /\ \/ done /\ UNCHANGED <<reading, done, got>>
       \/ /\ ~done
          /\ \/ \E n \in 1 .. ChunkSize :
                  /\ n <= Rest
                  /\ got' = got \o SubSeq(files[source].bytes, Len(got) + 1, Len(got) + n)
                  /\ ReadAs("reading") /\ UNCHANGED done
             \/ Rest <= 0 /\ ReadAs("whole") /\ UNCHANGED <<done, got>>
             \/ ReadAs("failed") /\ done' = TRUE /\ UNCHANGED got
    /\ UNCHANGED <<via, source, atOpen, vars, liveVars, lookVars>>

\* FileContentChunks::next, which its owner may call as often as he likes: None once
\* done is set; else one read, which brings a chunk, the end or an error.
NextChunk ==
    /\ via = "chunks" /\ source # 0
    /\ \/ done /\ UNCHANGED <<reading, done, got>>
       \/ /\ ~done
          /\ \/ \E n \in 1 .. ChunkSize :
                  /\ n <= Rest
                  /\ got' = got \o SubSeq(files[source].bytes, Len(got) + 1, Len(got) + n)
                  /\ ReadAs("reading") /\ UNCHANGED done
             \/ Rest <= 0 /\ ReadAs("whole") /\ done' = TRUE /\ UNCHANGED got
             \/ ReadAs("failed") /\ done' = TRUE /\ UNCHANGED got
    /\ UNCHANGED <<via, source, atOpen, vars, liveVars, lookVars>>

ReadStep == StatContent \/ OpenContent \/ ReadContent \/ NextChunk

-----------------------------------------------------------------------------

\* The files that are open.
Held ==
    { f \in {file} : looking \in {"opened", "sized"} }
      \cup { f \in {source} : source # 0 /\ (reading = "reading" \/ via = "chunks") }

\* Others change the file.  What they did before it is opened is in LiveInit; what
\* they do once nobody looks at it any more is not seen.
Others ==
    /\ looking # "unopened"
    /\ looking = "done" => HandedOut
    /\ via = "content" => reading \in {"statted", "reading"}
    /\ Change(Held)
    /\ UNCHANGED <<vars, lookVars, readVars>>

Rests == Stop /\ UNCHANGED <<liveVars, lookVars, readVars>>

FileNext == IterStep \/ ReadStep \/ Others \/ Rests

FileSpec == FileInit /\ [][FileNext]_fileVars

FairFileSpec == FileSpec /\ WF_fileVars(IterStep)

-----------------------------------------------------------------------------

\* The size and the binary verdict of an entry are about one file, even if the
\* path was given to another in between: if nobody changed the file that was
\* sized, the size is its own and the verdict is one that its head allows
\* (code_process_path opens once and asks the descriptor).
EntryDescribesOneFile ==
    \A e \in entry : files[file] = seen =>
        /\ e.size = Size(file) /\ ~TooBig(e.size)
        /\ \E n \in 0 .. HeadSize :
             /\ n <= Size(file)
             /\ n = 0 => Size(file) = 0
             /\ e.isBinary = (n > 0 /\ LooksBinary(SubSeq(files[file].bytes, 1, n)))

\* What has been read to its end is the whole file as it was at some moment since
\* it was opened, however it grew after the walk: only a file that was cut off
\* meanwhile may have been read otherwise.
ContentIsWhole ==
    reading = "whole" /\ files[source].cuts = atOpen.cuts =>
        /\ IsPrefix(got, files[source].bytes)
        /\ Len(got) >= Len(atOpen.bytes)

\* However fast the file grows, content() buffers one byte more than its cap at
\* most, and returns no more than the cap.
ContentWithinCap ==
    via = "content" =>
        /\ Len(got) <= ContentCap + 1
        /\ reading = "whole" => Len(got) <= ContentCap

\* A chunk iterator that has ended stays at its end though the file grows on and
\* its owner asks again, and one that has failed does not start again.
ChunksEndOnce ==
    [][(reading \in {"whole", "failed", "tooLarge"}) => UNCHANGED readVars]_fileVars

\* The entries whose path leads into the root as it should.
Inward == { e \in Entry : LeadsIntoRoot(PathOf[e]) }

\* No file is yielded and no directory entered but by a path into the root, over
\* at most MaxSymlinkDepth links, with no link crossed twice (code_entry_allowed).
StaysInRoot ==
    opened \cup { m.entry : m \in { n \in given : n.kind = "file" } } \subseteq Inward \cup {Root}
=============================================================================
