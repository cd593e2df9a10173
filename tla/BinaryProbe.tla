---------------------------- MODULE BinaryProbe ----------------------------
(***************************************************************************)
(* What a walk does with one file whose path others may change meanwhile:  *)
(* metadata_for_path by path, then is_binary_same_fd, which opens the path *)
(* again, compares the inode, and scan_file_for_nul on the descriptor.     *)
(***************************************************************************)
EXTENDS LiveFile

CONSTANTS
    NUL,            \* the byte looked for
    SampleSize,     \* SAMPLE_SIZE, what one read may return
    PrefixScan      \* PREFIX_SCAN_BYTES

ASSUME ProbeAssumption ==
    /\ NUL \in Byte
    /\ SampleSize \in Nat \ {0}
    /\ PrefixScan \in Nat \ {0}

VARIABLES
    phase,      \* "unmeasured", "measured", "scanning" or "done"
    measured,   \* the file that was measured, 0 before
    meta,       \* what it was at that time
    opened,     \* the file that was opened, 0 before
    scanned,    \* how many of its bytes have been read
    verdict     \* "text", "binary", "fails", or "gone" if there was no file

probeVars == <<phase, measured, meta, opened, scanned, verdict>>

NoMeta == NewFile(FirstInode, <<>>)

ProbeInit ==
    /\ phase = "unmeasured"
    /\ measured = 0
    /\ meta = NoMeta
    /\ opened = 0
    /\ scanned = 0
    /\ verdict = "none"

\* The files that the walk keeps alive by its descriptor.
Held == IF phase = "scanning" THEN {opened} ELSE {}

Decide(v) == phase' = "done" /\ verdict' = v

\* fs::metadata or fs::symlink_metadata.
Measure ==
    /\ phase = "unmeasured"
    /\ IF named = 0
       THEN Decide("gone") /\ UNCHANGED <<measured, meta>>
       ELSE /\ phase' = "measured"
            /\ measured' = named
            /\ meta' = files[named]
            /\ UNCHANGED verdict
    /\ UNCHANGED <<opened, scanned, liveVars>>

\* Mutant: what was opened is taken for what was measured.
OpenUnchecked ==
    /\ phase = "measured"
    /\ IF named = 0
       THEN Decide("fails") /\ UNCHANGED opened
       ELSE opened' = named /\ phase' = "scanning" /\ UNCHANGED verdict
    /\ UNCHANGED <<measured, meta, scanned, liveVars>>

\* OpenOptions::open, then the comparison of the inode with the one measured.
OpenProbe ==
    /\ phase = "measured"
    /\ IF named = 0
       THEN Decide("fails") /\ UNCHANGED opened
       ELSE /\ opened' = named
            /\ IF files[named].ino # meta.ino
               THEN Decide("fails")
               ELSE phase' = "scanning" /\ UNCHANGED verdict
    /\ UNCHANGED <<measured, meta, scanned, liveVars>>

\* Mutant: a read that is shorter than a sample is taken for the last.
SampleOnce ==
    /\ phase = "scanning"
    /\ LET rest == Size(opened) - scanned
       IN  \/ /\ scanned >= PrefixScan \/ rest <= 0
              /\ Decide("text")
              /\ UNCHANGED scanned
           \/ /\ scanned < PrefixScan
              /\ \E n \in 1 .. SampleSize :
                   /\ n <= rest
                   /\ scanned' = scanned + n
                   /\ IF \E i \in scanned + 1 .. scanned + n : files[opened].bytes[i] = NUL
                      THEN Decide("binary")
                      ELSE IF n < SampleSize THEN Decide("text") ELSE UNCHANGED <<phase, verdict>>
           \/ /\ scanned < PrefixScan
              /\ Decide("fails")
              /\ UNCHANGED scanned
    /\ UNCHANGED <<measured, meta, opened, liveVars>>

\* One turn of the loop of scan_file_for_nul: the prefix is read or the file at
\* its end; or a read returns some bytes, fewer than a sample perhaps; or fails.
Sample ==
    /\ phase = "scanning"
    /\ LET rest == Size(opened) - scanned
       IN  \/ /\ scanned >= PrefixScan \/ rest <= 0
              /\ Decide("text")
              /\ UNCHANGED scanned
           \/ /\ scanned < PrefixScan
              /\ \E n \in 1 .. SampleSize :
                   /\ n <= rest
                   /\ scanned' = scanned + n
                   /\ IF \E i \in scanned + 1 .. scanned + n : files[opened].bytes[i] = NUL
                      THEN Decide("binary")
                      ELSE UNCHANGED <<phase, verdict>>
           \/ /\ scanned < PrefixScan
              /\ Decide("fails")
              /\ UNCHANGED scanned
    /\ UNCHANGED <<measured, meta, opened, liveVars>>

ProbeStep == Measure \/ OpenProbe \/ Sample

-----------------------------------------------------------------------------

\* The verdict is about the inode whose size and number the walk reports, even
\* if the path was given to another file between the stat and the open
\* (is_binary_same_fd compares them after the open).
ProbedWhatWasMeasured ==
    verdict \in {"text", "binary"} => files[opened].ino = meta.ino

HasNUL(bytes, n) == \E i \in 1 .. n : i <= Len(bytes) /\ bytes[i] = NUL

\* A file that nobody changed is text only if its prefix is free of NULs, and
\* binary only if there is one no further than a last short read may look:
\* scan_file_for_nul goes on until it has counted a whole prefix.  The prefix is
\* that of the code, 64 KiB for files of every size (walk_common.rs:63); SPEC.md:68
\* says "First 8 KB read for files <= 10 MB; strided 64 KB samples for larger files",
\* which the code does not do: here a NUL behind the first sample decides as well, and
\* one behind the prefix never does.
VerdictFitsContent ==
    (opened # 0 /\ opened = measured /\ files[opened] = meta) =>
        /\ verdict = "text" => ~HasNUL(meta.bytes, PrefixScan)
        /\ verdict = "binary" => HasNUL(meta.bytes, PrefixScan + SampleSize - 1)
=============================================================================
