---------------------------- MODULE CodeWalkIter ----------------------------
(***************************************************************************)
(* CodeWalker::walk_iter, and walk, count and try_count, which collect it. *)
(* One call of next() runs the walker of the ignore crate until it has an  *)
(* entry, the filter being asked on the way; the errors of the filter come *)
(* through a slot, as in CodeWalkParallel.  An entry that was found after  *)
(* the error of another waits in a buffer until the error has been yielded.*)
(***************************************************************************)
EXTENDS CodeTree

VARIABLES
    opened,         \* the directories that the walker has descended into
    ahead,          \* the entries it has still to come to
    slot,           \* the error_slot
    buffered,       \* CodeWalkIter.buffered
    finalYielded,   \* CodeWalkIter.final_error_yielded
    at,             \* where the call of next() stands
    current,        \* the entry that filter_map is given
    given,          \* what has been yielded
    failed,         \* the entries for which the filter has failed
    asker,          \* "collects" until the first error, or "iterates" past errors
    result          \* what the asker has come to

vars == <<opened, ahead, slot, buffered, finalYielded, at, current, given,
          failed, asker, result>>

\* Every variable has its type: in the options there is at most one value.
TypeOK ==
    /\ opened \subseteq Entry \cup {Root}
    /\ ahead \subseteq Entry
    /\ slot \in Option(Entry)
    /\ buffered \in Option(Entry)
    /\ finalYielded \in BOOLEAN
    /\ at \in {"idle", "inner", "mapping"}
    /\ current \in Option(Entry)
    /\ given \subseteq Message
    /\ failed \subseteq Entry
    /\ asker \in {"collects", "iterates"}
    /\ result \in {"open", "ok", "error"}

Init ==
    /\ opened = {Root}
    /\ ahead = Children(Root)
    /\ slot = {}
    /\ buffered = {}
    /\ finalYielded = FALSE
    /\ at = "idle"
    /\ current = {}
    /\ given = {}
    /\ failed = {}
    /\ asker \in {"collects", "iterates"}
    /\ result = "open"

\* next() returns Some: try_count and collect stop at the first error.
Yield(m) ==
    /\ given' = given \cup {m}
    /\ at' = "idle"
    /\ result' = IF asker = "collects" /\ m.kind # "file" THEN "error" ELSE "open"

\* next() returns None.
YieldNone ==
    /\ at' = "idle"
    /\ result' = "ok"
    /\ UNCHANGED given

-----------------------------------------------------------------------------

NextFused ==
    /\ at = "idle" /\ result = "open"
    /\ finalYielded
    /\ YieldNone
    /\ UNCHANGED <<opened, ahead, slot, buffered, finalYielded, current, failed, asker>>

\* Mutant: the buffer is read and not taken.
NextBufferedAgain ==
    /\ at = "idle" /\ result = "open"
    /\ ~finalYielded
    /\ buffered # {}
    /\ current' = buffered
    /\ at' = "mapping"
    /\ UNCHANGED <<opened, ahead, slot, buffered, finalYielded, given, failed, asker, result>>

NextBuffered ==
    /\ at = "idle" /\ result = "open"
    /\ ~finalYielded
    /\ buffered # {}
    /\ current' = buffered
    /\ buffered' = {}
    /\ at' = "mapping"
    /\ UNCHANGED <<opened, ahead, slot, finalYielded, given, failed, asker, result>>

NextInner ==
    /\ at = "idle" /\ result = "open"
    /\ ~finalYielded
    /\ buffered = {}
    /\ at' = "inner"
    /\ UNCHANGED <<opened, ahead, slot, buffered, finalYielded, current, given, failed, asker, result>>

\* The entry that the walker comes to next.
IsNext(e) == e \in ahead /\ \A f \in ahead : e <= f

\* The filter leaves an entry out and the walker goes on to the next.
FilterOut ==
    /\ at = "inner"
    /\ \E e \in ahead : \E a \in Allowed[e] \ {"yes"} :
         /\ IsNext(e)
         /\ ahead' = ahead \ {e}
         /\ slot' = SlotAfter(e, a, slot)
         /\ failed' = IF a = "fails" THEN failed \cup {e} ELSE failed
    /\ UNCHANGED <<opened, buffered, finalYielded, at, current, given, asker, result>>

\* Mutant: the entry goes first, its predecessor's error stays in the slot.
InnerYieldsFirst ==
    /\ at = "inner"
    /\ \E e \in ahead :
         /\ IsNext(e) /\ "yes" \in Allowed[e]
         /\ ahead' = ahead \ {e}
         /\ current' = {e}
    /\ at' = "mapping"
    /\ UNCHANGED <<opened, slot, buffered, finalYielded, given, failed, asker, result>>

\* Mutant: the error is yielded in place of the entry.
InnerYieldsInstead ==
    /\ at = "inner"
    /\ \E e \in ahead :
         /\ IsNext(e) /\ "yes" \in Allowed[e]
         /\ ahead' = ahead \ {e}
         /\ IF slot = {}
            THEN current' = {e} /\ at' = "mapping" /\ UNCHANGED <<given, result>>
            ELSE Yield(Head(Taken(slot))) /\ UNCHANGED current
    /\ slot' = {}
    /\ UNCHANGED <<opened, buffered, finalYielded, failed, asker>>

\* The walker has an entry.  It waits if there is an error to be yielded first.
InnerYields ==
    /\ at = "inner"
    /\ \E e \in ahead :
         /\ IsNext(e) /\ "yes" \in Allowed[e]
         /\ ahead' = ahead \ {e}
         /\ IF slot = {}
            THEN /\ current' = {e} /\ at' = "mapping"
                 /\ UNCHANGED <<buffered, given, result>>
            ELSE /\ buffered' = {e} /\ Yield(Head(Taken(slot)))
                 /\ UNCHANGED current
    /\ slot' = {}
    /\ UNCHANGED <<opened, finalYielded, failed, asker>>

\* Mutant: the slot is not looked at when the walker has come to its end.
InnerEndsBlindly ==
    /\ at = "inner"
    /\ ahead = {}
    /\ YieldNone
    /\ UNCHANGED <<opened, ahead, slot, buffered, finalYielded, current, failed, asker>>

InnerEnds ==
    /\ at = "inner"
    /\ ahead = {}
    /\ IF slot = {}
       THEN YieldNone /\ UNCHANGED finalYielded
       ELSE Yield(Head(Taken(slot))) /\ finalYielded' = TRUE
    /\ slot' = {}
    /\ UNCHANGED <<opened, ahead, buffered, current, failed, asker>>

\* The closure of filter_map, when the visit of e comes to v.  What it leaves out
\* makes it ask for the next entry; a directory is read by the walker when that
\* comes.
MapAs(e, v) ==
    /\ at = "mapping"
    /\ e \in current
    /\ v \in Visited[e]
    /\ IF v \in {"file", "fails"}
       THEN Yield(Item(IF v = "file" THEN v ELSE "error", e))
       ELSE at' = "idle" /\ UNCHANGED <<given, result>>
    /\ opened' = IF v = "dir" THEN opened \cup {e} ELSE opened
    /\ ahead' = IF v = "dir" THEN ahead \cup Children(e) ELSE ahead
    /\ current' = {}
    /\ UNCHANGED <<slot, buffered, finalYielded, failed, asker>>

Map == \E e \in current : \E v \in Visited[e] : MapAs(e, v)

Stop == result # "open" /\ UNCHANGED vars

Next ==
    \/ NextFused
    \/ NextBuffered
    \/ NextInner
    \/ FilterOut
    \/ InnerYields
    \/ InnerEnds
    \/ Map
    \/ Stop

Spec == Init /\ [][Next]_vars

\* An asker that asks until it has its result.
FairSpec == Spec /\ WF_vars(Next)

-----------------------------------------------------------------------------

\* A count is complete or an error: if the filter has failed for an entry, the
\* asker has been given an error before the end, so that try_count, walk and
\* walk_and_count, which stop there, never return Ok.
NoSilentUndercount ==
    result = "ok" /\ failed # {} => \E m \in given : m.kind # "file"

\* Every entry of a directory that has been read, and that the filter allows, is
\* accounted for at the end, also the one that had to wait for an error.
NoEntryLost ==
    result = "ok" =>
        \A e \in Entry : Parent[e] \in opened /\ Allowed[e] = {"yes"}
                             => Accounted(e, opened, given)

\* Files and errors come in the order of the walk: an error of the filter is
\* yielded before whatever the walker finds after the entry it is about.
InWalkOrder ==
    [][\A m \in given' \ given : \A n \in given : n.entry < m.entry]_vars

\* The walk ends for whoever goes on asking.
Terminates == <>(result # "open")
=============================================================================
