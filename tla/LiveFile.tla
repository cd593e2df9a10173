------------------------------ MODULE LiveFile ------------------------------
(***************************************************************************)
(* One path of the file system, and the files it has named: other          *)
(* processes append to the file, cut it off, put another in its place or   *)
(* remove it, at any time.  Who has opened a file keeps it, whatever the   *)
(* path names by then.  The kernel may give the inode number of a file     *)
(* that is neither named nor open to a new one.                            *)
(***************************************************************************)
EXTENDS Integers, Sequences

CONSTANTS
    Byte,           \* the bytes told apart
    Content,        \* what a file may hold when it is created
    Inode,          \* the inode numbers
    MaxLen,         \* bound of the model: the longest file
    MaxChanges      \* bound of the model: the changes made by others

ASSUME LiveFileAssumption ==
    /\ Content \subseteq Seq(Byte)
    /\ Content # {}
    /\ Inode # {}
    /\ MaxLen \in Nat
    /\ MaxChanges \in Nat

VARIABLES
    files,      \* the files there have been, oldest first
    named,      \* the one that the path names, 0 for none
    changes     \* how often others have changed anything

liveVars == <<files, named, changes>>

\* A file: its inode, its bytes, and how often it was cut off.
Object == [ino : Inode, bytes : Seq(Byte), cuts : Nat]

NewFile(ino, bytes) == [ino |-> ino, bytes |-> bytes, cuts |-> 0]

\* The file when only its first n bytes are left.
CutOff(f, n) == [ino |-> f.ino, bytes |-> SubSeq(f.bytes, 1, n), cuts |-> f.cuts + 1]

Size(f) == Len(files[f].bytes)

LiveTypeOK ==
    /\ files \in Seq(Object)
    /\ named \in 0 .. Len(files)
    /\ changes \in 0 .. MaxChanges

\* The inode number of the first file.
FirstInode == CHOOSE i \in Inode : TRUE

LiveInit ==
    /\ \/ named = 0 /\ files = <<>>
       \/ named = 1 /\ \E bytes \in Content : files = <<NewFile(FirstInode, bytes)>>
    /\ changes = 0

Grow ==
    /\ named # 0
    /\ Size(named) < MaxLen
    /\ \E b \in Byte : files' = [files EXCEPT ![named].bytes = Append(@, b)]
    /\ UNCHANGED named

Truncate ==
    /\ named # 0
    /\ \E n \in 0 .. Size(named) - 1 :
         files' = [files EXCEPT ![named] = CutOff(@, n)]
    /\ UNCHANGED named

\* A new file takes the name, as rename does it; the old one is gone unless it
\* is one of those held open.
Replace(held) ==
    /\ \E i \in Inode \ { files[f].ino : f \in held \cup ({named} \ {0}) }, bytes \in Content :
         files' = Append(files, NewFile(i, bytes))
    /\ named' = Len(files) + 1

Unlink ==
    /\ named # 0
    /\ named' = 0
    /\ UNCHANGED files

\* What other processes do while somebody holds the files of held open.
Change(held) ==
    /\ changes < MaxChanges
    /\ changes' = changes + 1
    /\ Grow \/ Truncate \/ Replace(held) \/ Unlink
=============================================================================
