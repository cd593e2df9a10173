----------------------------- MODULE ArchiveBlob -----------------------------
(***************************************************************************)
(* What the archive readers share: byte strings held in memory, and the    *)
(* limits of entry.rs.  A blob is any byte string, an archive, an entry of *)
(* one or a file; the readers hand out slices of blobs, which are blobs.   *)
(***************************************************************************)
EXTENDS Integers, Sequences, FiniteSets

CONSTANTS
    Blob,           \* the byte strings of the instance
    Size,           \* Size[b]: the length of b in bytes
    MaxEntries,     \* MAX_ENTRIES
    MaxEntryBytes   \* MAX_ENTRY_BYTES

ASSUME BlobAssumption ==
    /\ Size \in [Blob -> Nat]
    /\ MaxEntries \in Nat
    /\ MaxEntryBytes \in Nat
=============================================================================
