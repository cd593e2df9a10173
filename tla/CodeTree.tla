------------------------------ MODULE CodeTree ------------------------------
(***************************************************************************)
(* What a CodeWalker may meet below its root: a tree of entries in the     *)
(* order of a depth-first walk, and for each entry how the filter may      *)
(* answer and what may become of the entry when it is visited.             *)
(***************************************************************************)
EXTENDS Integers, Sequences, FiniteSets

CONSTANTS
    Entry,          \* the entries below the root, numbered in walk order
    Parent,         \* Parent[e]: the directory of e, Root for the root
    Allowed,        \* Allowed[e]: how the filter may end for e
    Visited         \* Visited[e]: what the visit of e may come to

Root == 0

\* "skip": a file that is left out, or a directory that is not descended into;
\* "fails": an error about the file or of the walker itself.
ASSUME CodeTreeAssumption ==
    /\ Entry \subseteq Nat \ {Root}
    /\ Parent \in [Entry -> Entry \cup {Root}]
    /\ \A e \in Entry : Parent[e] < e
    /\ Allowed \in [Entry -> SUBSET {"yes", "no", "fails"}]
    /\ Visited \in [Entry -> SUBSET {"file", "dir", "skip", "fails"}]

Children(d) == { e \in Entry : Parent[e] = d }

\* A file, an error that is the entry's own, or the error of its filter.
Message == [kind : {"file", "error", "filterError"}, entry : Entry]

Item(kind, e) == [kind |-> kind, entry |-> e]

\* An Option<T>: {} for None, {x} for Some(x).
Option(T) == {{}} \cup { {x} : x \in T }

\* What is in the slot, as a sequence: it is taken out to be yielded.
Taken(slot) ==
    IF slot = {} THEN <<>> ELSE <<Item("filterError", CHOOSE e \in slot : TRUE)>>

\* Mutant: the slot keeps what it has and the new error.
SlotAfterAll(e, a, slot) == IF a = "fails" THEN slot \cup {e} ELSE slot

\* The slot after the answer a of filter_entry.  The closure cannot fail: an error
\* goes to the slot, where it replaces what is there, and the entry is left out.
SlotAfter(e, a, slot) == IF a = "fails" THEN {e} ELSE slot

\* Nothing is owed for e: it may be left out, it is a directory that has been
\* opened, or a file or an error of its own is among ms.
Accounted(e, opened, ms) ==
    \/ "skip" \in Visited[e]
    \/ e \in opened
    \/ \E m \in ms : m.entry = e /\ m.kind # "filterError"
=============================================================================
