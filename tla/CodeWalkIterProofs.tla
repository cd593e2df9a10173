------------------------- MODULE CodeWalkIterProofs -------------------------
(***************************************************************************)
(* Theorems about CodeWalker::walk_iter, for every tree of entries, every  *)
(* answer of the filter and every outcome of the visits; and about what    *)
(* code_entry_allowed lets in, for every file system with links.           *)
(***************************************************************************)
EXTENDS CodeFile, LiveFileProofs, SequenceTheorems, FiniteSetTheorems,
        WellFoundedInduction, TLAPS

\* Where a call of next() stands, and what is empty there.
Control ==
    /\ at = "mapping" <=> current # {}
    /\ at # "idle" => result = "open" /\ buffered = {}
    /\ at # "inner" => slot = {}
    /\ finalYielded \/ result = "ok" => ahead = {} /\ buffered = {} /\ at = "idle"

\* A failure of the filter is in the slot or has been yielded.
Reported == failed # {} => slot # {} \/ \E m \in given : m.kind # "file"

\* What the walk owes for an entry is still to come or accounted for.
Owed ==
    \A e \in Entry : Parent[e] \in opened /\ Allowed[e] = {"yes"}
        => e \in ahead \cup buffered \cup current \/ Accounted(e, opened, given)

\* Yielded, then what is in the slot, then what the walker has, then the rest.
Ordered ==
    /\ \A m \in given : \A e \in slot \cup buffered \cup current \cup ahead : m.entry < e
    /\ \A s \in slot : \A e \in ahead : s < e
    /\ \A c \in buffered \cup current : \A e \in ahead : c < e

IInv == TypeOK /\ Control /\ Reported /\ Owed /\ Ordered

LEMMA TakenSlot ==
    ASSUME NEW s \in Option(Entry), s # {}
    PROVE  \E e \in Entry : /\ s = {e}
                            /\ Head(Taken(s)) = Item("filterError", e)
    <1>1. PICK e \in Entry : s = {e}
        BY DEF Option
    <1>2. (CHOOSE x \in s : TRUE) = e
        BY <1>1
    <1> QED
        BY <1>1, <1>2 DEF Taken

\* A message that is added leaves nothing unaccounted for.
LEMMA StillAccounted ==
    ASSUME NEW e \in Entry, NEW d, NEW d1, NEW ms, NEW ms1,
           d \subseteq d1, ms \subseteq ms1, Accounted(e, d, ms)
    PROVE  Accounted(e, d1, ms1)
    BY DEF Accounted

LEMMA InitInv == Init => IInv
    <1> SUFFICES ASSUME Init PROVE IInv
        OBVIOUS
    <1>1. TypeOK
        BY DEF Init, TypeOK, Option, Children
    <1>2. Control /\ Reported /\ Ordered
        BY DEF Init, Control, Reported, Ordered
    <1>3. Owed
        BY DEF Init, Owed, Children
    <1> QED
        BY <1>1, <1>2, <1>3 DEF IInv

LEMMA NextInv == IInv /\ [Next]_vars => IInv'
    <1> SUFFICES ASSUME IInv, [Next]_vars PROVE IInv'
        OBVIOUS
    <1>t. TypeOK /\ Control /\ Reported /\ Owed /\ Ordered
        BY DEF IInv
    <1>1. CASE NextFused
        BY <1>t, <1>1 DEF NextFused, YieldNone, IInv, TypeOK, Control, Reported, Owed, Ordered, Accounted
    <1>2. CASE NextBuffered
        <2>1. TypeOK' /\ Control' /\ Reported'
            BY <1>t, <1>2 DEF NextBuffered, TypeOK, Control, Reported, Option
        <2>2. current = {}
            BY <1>t, <1>2 DEF NextBuffered, Control
        <2>3. Owed'
            BY <1>t, <1>2, <2>2 DEF NextBuffered, Owed, Accounted
        <2>4. Ordered'
            BY <1>t, <1>2, <2>2 DEF NextBuffered, Ordered
        <2> QED
            BY <2>1, <2>3, <2>4 DEF IInv
    <1>3. CASE NextInner
        BY <1>t, <1>3 DEF NextInner, IInv, TypeOK, Control, Reported, Owed, Ordered, Accounted
    <1>4. CASE FilterOut
        <2>1. PICK e \in Entry, a \in {"no", "fails"} :
                 /\ e \in ahead /\ a \in Allowed[e]
                 /\ IsNext(e)
                 /\ ahead' = ahead \ {e}
                 /\ slot' = SlotAfter(e, a, slot)
                 /\ failed' = IF a = "fails" THEN failed \cup {e} ELSE failed
            BY <1>t, <1>4, CodeTreeAssumption DEF FilterOut, TypeOK
        <2>2. e \in Entry
            OBVIOUS
        <2>3. \A f \in ahead' : f \in Entry /\ e < f
            BY <1>t, <2>1, <2>2, CodeTreeAssumption DEF TypeOK, IsNext
        <2>4. TypeOK'
            BY <1>t, <1>4, <2>1, <2>2 DEF FilterOut, TypeOK, SlotAfter, Option
        <2>5. Control' /\ Reported'
            BY <1>t, <1>4, <2>1 DEF FilterOut, Control, Reported, SlotAfter
        <2>6. Owed'
            BY <1>t, <1>4, <2>1 DEF FilterOut, Owed, Accounted
        <2>7. Ordered'
            <3>1. slot' = slot \/ slot' = {e}
                BY <2>1 DEF SlotAfter
            <3>2. \A m \in given' : \A f \in slot' \cup buffered' \cup current' \cup ahead' : m.entry < f
                BY <1>t, <1>4, <2>1, <3>1 DEF FilterOut, Ordered
            <3>3. \A s \in slot' : \A f \in ahead' : s < f
                BY <1>t, <2>1, <2>3, <3>1 DEF Ordered
            <3>4. \A c \in buffered' \cup current' : \A f \in ahead' : c < f
                BY <1>t, <1>4, <2>1 DEF FilterOut, Ordered
            <3> QED
                BY <3>2, <3>3, <3>4 DEF Ordered
        <2> QED
            BY <2>4, <2>5, <2>6, <2>7 DEF IInv
    <1>5. CASE InnerYields
        <2>1. PICK e \in ahead :
                 /\ IsNext(e) /\ "yes" \in Allowed[e]
                 /\ ahead' = ahead \ {e}
                 /\ IF slot = {}
                    THEN /\ current' = {e} /\ at' = "mapping"
                         /\ UNCHANGED <<buffered, given, result>>
                    ELSE /\ buffered' = {e} /\ Yield(Head(Taken(slot)))
                         /\ UNCHANGED current
            BY <1>5 DEF InnerYields
        <2>2. e \in Entry
            BY <1>t DEF TypeOK
        <2>3. \A f \in ahead' : f \in Entry /\ e < f
            BY <1>t, <2>1, <2>2, CodeTreeAssumption DEF TypeOK, IsNext
        <2>4. current = {} /\ buffered = {} /\ slot' = {} /\ result = "open" /\ ~finalYielded
            BY <1>t, <1>5 DEF InnerYields, Control
        <2>5. CASE slot = {}
            <3>1. TypeOK' /\ Control' /\ Reported'
                BY <1>t, <1>5, <2>1, <2>2, <2>4, <2>5 DEF InnerYields, TypeOK, Control, Reported, Option
            <3>2. Owed'
                BY <1>t, <1>5, <2>1, <2>4, <2>5 DEF InnerYields, Owed, Accounted
            <3>3. Ordered'
                BY <1>t, <1>5, <2>1, <2>3, <2>4, <2>5 DEF InnerYields, Ordered
            <3> QED
                BY <3>1, <3>2, <3>3 DEF IInv
        <2>6. CASE slot # {}
            <3>1. PICK s \in Entry : slot = {s} /\ Head(Taken(slot)) = Item("filterError", s)
                BY <1>t, <2>6, TakenSlot DEF TypeOK
            <3> DEFINE m == Item("filterError", s)
            <3>2. m \in Message /\ m.kind # "file" /\ m.entry = s
                BY DEF Message, Item
            <3>3. /\ given' = given \cup {m} /\ at' = "idle" /\ result' \in {"open", "error"}
                  /\ buffered' = {e} /\ current' = {}
                BY <2>1, <2>4, <2>6, <3>1 DEF Yield
            <3>4. TypeOK'
                BY <1>t, <1>5, <2>1, <2>2, <2>4, <3>2, <3>3 DEF InnerYields, TypeOK, Option
            <3>5. Control' /\ Reported'
                BY <1>t, <1>5, <2>4, <3>2, <3>3 DEF InnerYields, Control, Reported
            <3>6. Owed'
                BY <1>t, <1>5, <2>1, <2>4, <3>3 DEF InnerYields, Owed, Accounted
            <3>7. Ordered'
                BY <1>t, <1>5, <2>1, <2>3, <2>4, <3>1, <3>2, <3>3 DEF Ordered
            <3> QED
                BY <3>4, <3>5, <3>6, <3>7 DEF IInv
        <2> QED
            BY <2>5, <2>6
    <1>6. CASE InnerEnds
        <2>1. ahead = {} /\ buffered = {} /\ current = {} /\ result = "open" /\ slot' = {}
            BY <1>t, <1>6 DEF InnerEnds, Control
        <2>2. CASE slot = {}
            BY <1>t, <1>6, <2>1, <2>2 DEF InnerEnds, YieldNone, IInv, TypeOK, Control, Reported, Owed, Ordered, Accounted, Option
        <2>3. CASE slot # {}
            <3>1. PICK s \in Entry : slot = {s} /\ Head(Taken(slot)) = Item("filterError", s)
                BY <1>t, <2>3, TakenSlot DEF TypeOK
            <3> DEFINE m == Item("filterError", s)
            <3>2. m \in Message /\ m.kind # "file" /\ m.entry = s
                BY DEF Message, Item
            <3>3. /\ given' = given \cup {m} /\ at' = "idle" /\ result' \in {"open", "error"}
                  /\ finalYielded' = TRUE
                BY <1>6, <2>3, <3>1 DEF InnerEnds, Yield
            <3>4. TypeOK'
                BY <1>t, <1>6, <2>1, <3>2, <3>3 DEF InnerEnds, TypeOK, Option
            <3>5. Control' /\ Reported'
                BY <1>t, <1>6, <2>1, <3>2, <3>3 DEF InnerEnds, Control, Reported
            <3>6. Owed'
                BY <1>t, <1>6, <2>1, <3>3 DEF InnerEnds, Owed, Accounted
            <3>7. Ordered'
                BY <1>6, <2>1 DEF InnerEnds, Ordered
            <3> QED
                BY <3>4, <3>5, <3>6, <3>7 DEF IInv
        <2> QED
            BY <2>2, <2>3
    <1>7. CASE Map
        <2>1. PICK e \in Entry, v \in {"file", "dir", "skip", "fails"} :
                 /\ e \in current /\ v \in Visited[e]
                 /\ IF v \in {"file", "fails"}
                    THEN Yield(Item(IF v = "file" THEN v ELSE "error", e))
                    ELSE at' = "idle" /\ UNCHANGED <<given, result>>
                 /\ opened' = IF v = "dir" THEN opened \cup {e} ELSE opened
                 /\ ahead' = IF v = "dir" THEN ahead \cup Children(e) ELSE ahead
            <3>1. current \subseteq Entry
                BY <1>t DEF TypeOK, Option
            <3>2. \A e \in Entry : Visited[e] \subseteq {"file", "dir", "skip", "fails"}
                BY CodeTreeAssumption
            <3> QED
                BY <1>7, <3>1, <3>2, Zenon DEF Map, MapAs
        <2>2. e \in Entry /\ current = {e}
            BY <1>t, <2>1 DEF TypeOK, Option
        <2>3. buffered = {} /\ slot = {} /\ result = "open" /\ ~finalYielded
            BY <1>t, <1>7 DEF Map, MapAs, Control
        <2>4. CASE v \in {"file", "fails"}
            <3> DEFINE m == Item(IF v = "file" THEN v ELSE "error", e)
            <3>1. m \in Message /\ m.kind # "filterError" /\ m.entry = e
                BY <2>2 DEF Message, Item
            <3>2. /\ given' = given \cup {m} /\ at' = "idle" /\ result' \in {"open", "error"}
                  /\ opened' = opened /\ ahead' = ahead
                BY <2>1, <2>4 DEF Yield
            <3>3. TypeOK'
                BY <1>t, <1>7, <3>1, <3>2 DEF Map, MapAs, TypeOK, Option
            <3>4. Control' /\ Reported'
                BY <1>t, <1>7, <2>3, <3>2 DEF Map, MapAs, Control, Reported
            <3>5. Owed'
                BY <1>t, <1>7, <2>2, <3>1, <3>2 DEF Map, MapAs, Owed, Accounted
            <3>6. Ordered'
                BY <1>t, <1>7, <2>2, <2>3, <3>1, <3>2 DEF Map, MapAs, Ordered
            <3> QED
                BY <3>3, <3>4, <3>5, <3>6 DEF IInv
        <2>5. CASE v = "dir"
            <3>1. /\ given' = given /\ at' = "idle" /\ result' = result
                  /\ opened' = opened \cup {e} /\ ahead' = ahead \cup Children(e)
                BY <2>1, <2>5
            <3>2. \A f \in Children(e) : f \in Entry /\ e < f
                BY <2>2, CodeTreeAssumption DEF Children
            <3>3. TypeOK'
                BY <1>t, <1>7, <2>2, <3>1, <3>2 DEF Map, MapAs, TypeOK, Option
            <3>4. Control' /\ Reported'
                BY <1>t, <1>7, <2>3, <3>1 DEF Map, MapAs, Control, Reported
            <3>5. Owed'
                BY <1>t, <1>7, <2>2, <3>1 DEF Map, MapAs, Owed, Accounted, Children
            <3>6. Ordered'
                <4>1. \A m \in given : m \in Message /\ m.entry \in Entry /\ m.entry < e
                    BY <1>t, <2>2 DEF TypeOK, Message, Ordered
                <4>2. \A i, j, k \in Nat : i < j /\ j < k => i < k
                    OBVIOUS
                <4>3. Entry \subseteq Nat
                    BY CodeTreeAssumption
                <4>4. \A m \in given : \A f \in Children(e) : m.entry < f
                    BY <2>2, <3>2, <4>1, <4>2, <4>3
                <4> QED
                    BY <1>t, <1>7, <2>3, <3>1, <4>4 DEF Map, MapAs, Ordered
            <3> QED
                BY <3>3, <3>4, <3>5, <3>6 DEF IInv
        <2>6. CASE v = "skip"
            <3>1. /\ given' = given /\ at' = "idle" /\ result' = result
                  /\ opened' = opened /\ ahead' = ahead
                BY <2>1, <2>6
            <3>2. TypeOK' /\ Control' /\ Reported'
                BY <1>t, <1>7, <2>3, <3>1 DEF Map, MapAs, TypeOK, Control, Reported, Option
            <3>3. Owed'
                BY <1>t, <1>7, <2>1, <2>2, <2>6, <3>1 DEF Map, MapAs, Owed, Accounted
            <3>4. Ordered'
                BY <1>t, <1>7, <2>3, <3>1 DEF Map, MapAs, Ordered
            <3> QED
                BY <3>2, <3>3, <3>4 DEF IInv
        <2> QED
            BY <2>4, <2>5, <2>6
    <1>8. CASE UNCHANGED vars
        BY <1>t, <1>8 DEF vars, IInv, TypeOK, Control, Reported, Owed, Ordered, Accounted
    <1> QED
        BY <1>1, <1>2, <1>3, <1>4, <1>5, <1>6, <1>7, <1>8 DEF Next, Stop

\* Every option holds at most one value: no error waits behind another.
THEOREM IterTypeCorrect == Spec => []TypeOK
    <1>1. IInv => TypeOK
        BY DEF IInv
    <1> QED
        BY InitInv, NextInv, <1>1, PTL DEF Spec

\* try_count, walk and walk_and_count never return Ok when the filter has failed
\* for an entry, whatever the tree and wherever in the walk that happens.
THEOREM CountsAreCompleteOrErrors == Spec => []NoSilentUndercount
    <1>1. IInv => NoSilentUndercount
        BY DEF IInv, Control, Reported, NoSilentUndercount
    <1> QED
        BY InitInv, NextInv, <1>1, PTL DEF Spec

\* No entry is lost on account of an error that was yielded before it.
THEOREM IterLosesNoEntry == Spec => []NoEntryLost
    <1>1. IInv => NoEntryLost
        BY DEF IInv, Control, Owed, NoEntryLost
    <1> QED
        BY InitInv, NextInv, <1>1, PTL DEF Spec

\* Everything that next() yields, errors included, comes in the order of the walk.
THEOREM IterKeepsTheOrder == Spec => InWalkOrder
    <1>1. IInv /\ [Next]_vars
            => [\A m \in given' \ given : \A n \in given : n.entry < m.entry]_vars
        <2> SUFFICES ASSUME IInv, [Next]_vars, NEW m \in given' \ given, NEW n \in given
                     PROVE  n.entry < m.entry
            BY DEF vars
        <2>t. TypeOK /\ Ordered
            BY DEF IInv
        <2>1. CASE InnerYields \/ InnerEnds
            <3>1. slot # {} /\ m = Head(Taken(slot))
                BY <2>1 DEF InnerYields, InnerEnds, Yield, YieldNone
            <3>2. PICK s \in Entry : slot = {s} /\ m = Item("filterError", s)
                BY <2>t, <3>1, TakenSlot DEF TypeOK
            <3> QED
                BY <2>t, <3>2 DEF Ordered, Item
        <2>2. CASE Map
            <3>1. m.entry \in current
                BY <2>2 DEF Map, MapAs, Yield, Item
            <3> QED
                BY <2>t, <3>1 DEF Ordered
        <2>3. CASE NextFused \/ NextBuffered \/ NextInner \/ FilterOut \/ UNCHANGED vars
            BY <2>3 DEF NextFused, NextBuffered, NextInner, FilterOut, YieldNone, vars
        <2> QED
            BY <2>1, <2>2, <2>3 DEF Next, Stop
    <1> QED
        BY InitInv, NextInv, <1>1, PTL DEF Spec, InWalkOrder

-----------------------------------------------------------------------------
(* CodeFile: the walk with one file that others change meanwhile.          *)

\* CodeFile implements CodeWalkIter: opening, measuring and sniffing the file
\* are hidden in the step that maps it, and reading its content in none.
THEOREM FileImplementsIter == FileSpec => Spec
    <1>1. FileInit => Init
        BY DEF FileInit
    <1>2. [FileNext]_fileVars => [Next]_vars
        <2> SUFFICES ASSUME [FileNext]_fileVars PROVE [Next]_vars
            OBVIOUS
        <2>1. ASSUME NEW v, Conclude(v)
              PROVE  Next
            BY <2>1 DEF Conclude, MapAs, Map, Next
        <2>2. CASE OpenEntry
            BY <2>1, <2>2 DEF OpenEntry
        <2>3. CASE SizeEntry
            BY <2>1, <2>3 DEF SizeEntry
        <2>4. CASE Sniff
            BY <2>1, <2>4 DEF Sniff, Admit
        <2>5. CASE WalkOn
            BY <2>5 DEF WalkOn, Next
        <2>6. CASE ReadStep
            BY <2>6 DEF ReadStep, StatContent, OpenContent, ReadContent, NextChunk
        <2>7. CASE Others \/ Rests \/ UNCHANGED fileVars
            BY <2>7 DEF Others, Rests, Stop, fileVars
        <2> QED
            BY <2>2, <2>3, <2>4, <2>5, <2>6, <2>7 DEF FileNext, IterStep
    <1> QED
        BY <1>1, <1>2, PTL DEF FileSpec, Spec

-----------------------------------------------------------------------------

FileTypeOK ==
    /\ LiveTypeOK
    /\ looking \in {"unopened", "opened", "sized", "done"}
    /\ file \in 0 .. Len(files)
    /\ source \in 0 .. Len(files)
    /\ seen \in Object
    /\ atOpen \in Object
    /\ reading \in {"idle", "statted", "reading", "whole", "failed", "tooLarge"}
    /\ via \in {"none", "content", "chunks"}
    /\ done \in BOOLEAN
    /\ got \in Seq(Byte)

\* From its size on the file has moved on at most, and it was not too large.
Looked ==
    /\ looking # "done" => entry = {}
    /\ looking \in {"opened", "sized"} => file # 0
    /\ looking = "sized" \/ entry # {} =>
         file # 0 /\ MovedOn(seen, files[file]) /\ ~TooBig(Len(seen.bytes))

\* What has been read of a file that is not cut off meanwhile is its beginning.
ReadSoFar ==
    /\ Len(got) <= Len(files[source].bytes)
    /\ \A i \in 1 .. Len(got) : got[i] = files[source].bytes[i]

Reads ==
    /\ reading \in {"idle", "statted"} => got = <<>> /\ source = 0 /\ ~done
    /\ via = "chunks" /\ source # 0 =>
         reading \in {"reading", "whole", "failed"} /\ (done <=> reading # "reading")
    /\ reading = "idle" => via = "none"
    /\ reading = "statted" => via = "content"
    /\ reading \in {"reading", "whole"} => source # 0 /\ MovedOn(atOpen, files[source])
    /\ reading \in {"reading", "whole"} /\ files[source].cuts = atOpen.cuts => ReadSoFar
    /\ reading = "whole" /\ files[source].cuts = atOpen.cuts => Len(got) >= Len(atOpen.bytes)

FInv == FileTypeOK /\ Looked /\ Reads /\ EntryDescribesOneFile /\ ContentWithinCap

LEMMA FileInitInv == FileInit => FInv
    <1> SUFFICES ASSUME FileInit PROVE FInv
        OBVIOUS
    <1>1. NoFile \in Object
        BY FirstInodeType, LiveFileAssumption DEF NoFile, NewFile, Object
    <1>2. FileTypeOK
        <2>1. done \in BOOLEAN
            BY DEF FileInit
        <2> QED
            BY <1>1, <2>1, LiveInitType DEF FileInit, FileTypeOK, LiveTypeOK
    <1>3. Looked /\ Reads /\ EntryDescribesOneFile /\ ContentWithinCap
        BY DEF FileInit, Looked, Reads, EntryDescribesOneFile, ContentWithinCap
    <1> QED
        BY <1>2, <1>3 DEF FInv

\* What the steps of the reader leave alone.
LEMMA LookUntouched ==
    ASSUME FInv, UNCHANGED <<liveVars, lookVars>>
    PROVE  Looked' /\ EntryDescribesOneFile'
    BY DEF FInv, Looked, EntryDescribesOneFile, liveVars, lookVars, Size

\* What the steps of the walk leave alone.
LEMMA ReadUntouched ==
    ASSUME FInv, UNCHANGED <<liveVars, readVars>>
    PROVE  Reads' /\ ContentWithinCap'
    BY DEF FInv, Reads, ReadSoFar, ContentWithinCap, liveVars, readVars

LEMMA OpenEntryInv == FInv /\ OpenEntry => FInv'
    <1> SUFFICES ASSUME FInv, OpenEntry PROVE FInv'
        OBVIOUS
    <1>1. FileTypeOK /\ Looked /\ looking = "unopened" /\ entry = {}
        BY DEF FInv, Looked, OpenEntry
    <1>2. UNCHANGED <<seen, entry, liveVars, readVars>>
        BY DEF OpenEntry
    <1>3. \/ looking' = "done" /\ file' = file
          \/ looking' = "opened" /\ file' = named /\ named # 0
        BY DEF OpenEntry, Conclude
    <1>4. FileTypeOK'
        BY <1>1, <1>2, <1>3 DEF FileTypeOK, LiveTypeOK, liveVars, readVars
    <1>5. Looked' /\ EntryDescribesOneFile'
        BY <1>1, <1>2, <1>3 DEF Looked, EntryDescribesOneFile
    <1> QED
        BY <1>2, <1>4, <1>5, ReadUntouched DEF FInv

LEMMA SizeEntryInv == FInv /\ SizeEntry => FInv'
    <1> SUFFICES ASSUME FInv, SizeEntry PROVE FInv'
        OBVIOUS
    <1>1. FileTypeOK /\ Looked /\ looking = "opened" /\ entry = {} /\ file # 0
        BY DEF FInv, Looked, SizeEntry
    <1>2. UNCHANGED <<file, entry, liveVars, readVars>>
        BY DEF SizeEntry
    <1>3. \/ looking' = "done" /\ seen' \in {seen, files[file]}
          \/ looking' = "sized" /\ seen' = files[file] /\ ~TooBig(Size(file))
        BY DEF SizeEntry, Conclude
    <1>4. FileTypeOK'
        BY <1>1, <1>2, <1>3 DEF FileTypeOK, LiveTypeOK, liveVars, readVars
    <1>5. Looked' /\ EntryDescribesOneFile'
        BY <1>1, <1>2, <1>3 DEF Looked, EntryDescribesOneFile, MovedOn, liveVars, Size
    <1> QED
        BY <1>2, <1>4, <1>5, ReadUntouched DEF FInv

LEMMA SniffInv == FInv /\ Sniff => FInv'
    <1> SUFFICES ASSUME FInv, Sniff PROVE FInv'
        OBVIOUS
    <1>1. FileTypeOK /\ Looked /\ looking = "sized" /\ entry = {} /\ file # 0
        BY DEF FInv, Looked, Sniff
    <1>2. UNCHANGED <<file, seen, liveVars, readVars>> /\ looking' = "done"
        BY DEF Sniff, Admit, Conclude
    <1>3. FileTypeOK' /\ Looked'
        BY <1>1, <1>2 DEF FileTypeOK, LiveTypeOK, Looked, liveVars, readVars
    <1>4. EntryDescribesOneFile'
        <2> DEFINE fits(b) == \E n \in 0 .. HeadSize :
                     /\ n <= Size(file)
                     /\ n = 0 => Size(file) = 0
                     /\ b = (n > 0 /\ LooksBinary(SubSeq(files[file].bytes, 1, n)))
        <2>0. ASSUME NEW b, files[file] = seen => fits(b),
                     entry' = {} \/ entry' = {[size |-> Len(seen.bytes), isBinary |-> b]}
              PROVE  EntryDescribesOneFile'
            BY <1>1, <1>2, <2>0 DEF EntryDescribesOneFile, Looked, liveVars, Size
        <2>1. CASE seen.bytes = <<>> /\ Admit(FALSE)
            <3>1. 0 \in 0 .. HeadSize
                BY CodeFileAssumption
            <3>2. files[file] = seen => Size(file) = 0 /\ fits(FALSE)
                BY <2>1, <3>1 DEF Size
            <3>3. entry' = {} \/ entry' = {[size |-> Len(seen.bytes), isBinary |-> FALSE]}
                BY <1>1, <2>1 DEF Admit
            <3> HIDE DEF fits
            <3> QED
                BY <2>0, <3>2, <3>3
        <2>2. CASE UNCHANGED entry
            BY <1>1, <2>2 DEF EntryDescribesOneFile
        <2>3. ASSUME NEW n \in 0 .. HeadSize, n <= Size(file), n = 0 => Size(file) = 0,
                     Admit(n > 0 /\ LooksBinary(SubSeq(files[file].bytes, 1, n)))
              PROVE  EntryDescribesOneFile'
            <3> DEFINE b == n > 0 /\ LooksBinary(SubSeq(files[file].bytes, 1, n))
            <3>1. fits(b)
                BY <2>3
            <3>2. entry' = {} \/ entry' = {[size |-> Len(seen.bytes), isBinary |-> b]}
                BY <1>1, <2>3 DEF Admit
            <3> HIDE DEF b, fits
            <3> QED
                BY <2>0, <3>1, <3>2
        <2> QED
            BY <2>1, <2>2, <2>3 DEF Sniff
    <1> QED
        BY <1>2, <1>3, <1>4, ReadUntouched DEF FInv

LEMMA WalkOnInv == FInv /\ UNCHANGED <<liveVars, lookVars, readVars>> => FInv'
    <1> SUFFICES ASSUME FInv, UNCHANGED <<liveVars, lookVars, readVars>> PROVE FInv'
        OBVIOUS
    <1>1. FileTypeOK'
        BY DEF FInv, FileTypeOK, LiveTypeOK, liveVars, lookVars, readVars
    <1> QED
        BY <1>1, LookUntouched, ReadUntouched DEF FInv

-----------------------------------------------------------------------------

LEMMA StatContentInv == FInv /\ StatContent => FInv'
    <1> SUFFICES ASSUME FInv, StatContent PROVE FInv'
        OBVIOUS
    <1>1. FileTypeOK /\ Reads /\ reading = "idle" /\ got = <<>> /\ ~done
        BY DEF FInv, Reads, StatContent
    <1>2. /\ UNCHANGED <<source, done, atOpen, got, liveVars, lookVars>> /\ via' = "content"
          /\ reading' \in {"failed", "tooLarge", "statted"}
        BY DEF StatContent, ReadAs
    <1>3. FileTypeOK'
        BY <1>1, <1>2 DEF FileTypeOK, LiveTypeOK, liveVars, lookVars
    <1>4. Reads' /\ ContentWithinCap'
        BY <1>1, <1>2, CodeFileAssumption DEF Reads, ContentWithinCap
    <1> QED
        BY <1>2, <1>3, <1>4, LookUntouched DEF FInv

LEMMA OpenContentInv == FInv /\ OpenContent => FInv'
    <1> SUFFICES ASSUME FInv, OpenContent PROVE FInv'
        OBVIOUS
    <1>1. /\ FileTypeOK /\ Reads /\ reading \in {"idle", "statted"}
          /\ got = <<>> /\ source = 0 /\ ~done
        BY DEF FInv, Reads, OpenContent
    <1>2. /\ UNCHANGED <<done, got, liveVars, lookVars>>
          /\ via' \in {"content", "chunks"}
        BY DEF FInv, Reads, OpenContent
    <1>3. \/ reading' = "failed" /\ UNCHANGED <<source, atOpen>>
          \/ reading' = "reading" /\ named # 0 /\ source' = named /\ atOpen' = files[named]
        BY DEF OpenContent, ReadAs
    <1>4. FileTypeOK'
        BY <1>1, <1>2, <1>3 DEF FileTypeOK, LiveTypeOK, liveVars, lookVars
    <1>5. named # 0 => Len(files[named].bytes) \in Nat
        BY <1>1, ObjectParts DEF FileTypeOK, LiveTypeOK
    <1>6. Reads' /\ ContentWithinCap'
        BY <1>1, <1>2, <1>3, <1>5, CodeFileAssumption
        DEF Reads, ReadSoFar, MovedOn, ContentWithinCap, liveVars
    <1> QED
        BY <1>2, <1>4, <1>6, LookUntouched DEF FInv

\* A read appends the next bytes of the file to what has been read.
LEMMA ReadMore ==
    ASSUME NEW bytes \in Seq(Byte), NEW g \in Seq(Byte),
           NEW n \in Nat \ {0}, n <= Len(bytes) - Len(g),
           NEW g1, g1 = g \o SubSeq(bytes, Len(g) + 1, Len(g) + n)
    PROVE  /\ g1 \in Seq(Byte) /\ Len(g1) = Len(g) + n
           /\ \A i \in 1 .. Len(g1) : g1[i] = IF i <= Len(g) THEN g[i] ELSE bytes[i]
    <1> DEFINE part == SubSeq(bytes, Len(g) + 1, Len(g) + n)
    <1>1. /\ part \in Seq(Byte) /\ Len(part) = n
          /\ \A i \in 1 .. n : part[i] = bytes[Len(g) + i]
        OBVIOUS
    <1> HIDE DEF part
    <1>2. g1 = g \o part
        BY DEF part
    <1>3. g1 \in Seq(Byte) /\ Len(g1) = Len(g) + n
        BY <1>1, <1>2
    <1>4. ASSUME NEW i \in 1 .. Len(g1)
          PROVE  g1[i] = IF i <= Len(g) THEN g[i] ELSE bytes[i]
        <2>1. CASE i <= Len(g)
            BY <1>1, <1>2, <1>3, <2>1
        <2>2. CASE i > Len(g)
            <3>1. i - Len(g) \in 1 .. n /\ g1[i] = part[i - Len(g)]
                BY <1>1, <1>2, <1>3, <2>2
            <3> QED
                BY <1>1, <2>2, <3>1
        <2> QED
            BY <2>1, <2>2
    <1> QED
        BY <1>3, <1>4

\* A call of next() after the end changes nothing.
LEMMA ChunkAfterEnd == FInv /\ NextChunk /\ done => FInv'
    <1> SUFFICES ASSUME FInv, NextChunk, done PROVE FInv'
        OBVIOUS
    <1>1. UNCHANGED <<reading, done, got, via, source, atOpen, liveVars, lookVars>>
        BY DEF NextChunk
    <1> QED
        BY <1>1, WalkOnInv DEF readVars

LEMMA ReadContentInv == FInv /\ (ReadContent \/ (NextChunk /\ ~done)) => FInv'
    <1> SUFFICES ASSUME FInv, ReadContent \/ (NextChunk /\ ~done) PROVE FInv'
        OBVIOUS
    <1>1. /\ FileTypeOK /\ Reads /\ ContentWithinCap /\ reading = "reading"
          /\ via \in {"content", "chunks"} /\ source # 0 /\ MovedOn(atOpen, files[source])
        BY DEF FInv, Reads, ReadContent, NextChunk
    <1>2. /\ UNCHANGED <<via, source, atOpen, liveVars, lookVars>>
          /\ via = "content" => UNCHANGED done
          /\ via = "chunks" => ~done
        BY DEF FInv, Reads, ReadContent, NextChunk
    <1> DEFINE bytes == files[source].bytes
    <1>3. /\ bytes \in Seq(Byte) /\ Len(bytes) \in Nat /\ Rest = Len(bytes) - Len(got)
          /\ Len(atOpen.bytes) \in Nat /\ files[source] \in Object /\ files[source].cuts \in Nat
          /\ got \in Seq(Byte) /\ Len(got) \in Nat /\ atOpen.cuts \in Nat
        <2>1. files[source] \in Object /\ atOpen \in Object /\ got \in Seq(Byte)
            BY <1>1 DEF FileTypeOK, LiveTypeOK
        <2> QED
            BY <2>1, ObjectParts DEF Rest, Size
    <1>4. ContentCap \in Nat /\ MaxLen \in Nat /\ ChunkSize \in Nat
        BY CodeFileAssumption, LiveFileAssumption
    <1>5. CASE /\ reading' = "failed" /\ done' \in BOOLEAN /\ UNCHANGED got
               /\ via = "chunks" => done'
        <2>1. FileTypeOK'
            BY <1>1, <1>2, <1>5 DEF FileTypeOK, LiveTypeOK, liveVars, lookVars
        <2>2. Reads' /\ ContentWithinCap'
            BY <1>1, <1>2, <1>5 DEF Reads, ContentWithinCap
        <2> QED
            BY <1>2, <2>1, <2>2, LookUntouched DEF FInv
    <1>6. ASSUME reading' \in {"whole", "tooLarge"}, UNCHANGED got, done' \in BOOLEAN,
                 via = "chunks" => reading' = "whole" /\ done',
                 reading' = "whole" => Len(bytes) <= Len(got),
                 reading' = "whole" /\ via = "content" => Len(got) <= ContentCap
          PROVE  FInv'
        <2>1. FileTypeOK'
            BY <1>1, <1>2, <1>6 DEF FileTypeOK, LiveTypeOK, liveVars, lookVars
        <2>2. files[source].cuts = atOpen.cuts => Len(atOpen.bytes) <= Len(bytes)
            BY <1>1, <1>3 DEF MovedOn
        <2>3. (ReadSoFar <=> ReadSoFar')
            BY <1>2, <1>6 DEF ReadSoFar, liveVars
        <2>4. Reads'
            BY <1>1, <1>2, <1>3, <1>6, <2>2, <2>3 DEF Reads, liveVars
        <2>5. ContentWithinCap'
            BY <1>1, <1>2, <1>6 DEF ContentWithinCap
        <2> QED
            BY <1>2, <2>1, <2>4, <2>5, LookUntouched DEF FInv
    <1>7. ASSUME NEW n \in Nat \ {0}, n <= Len(bytes) - Len(got), UNCHANGED <<reading, done>>,
                 via = "content" => n <= Room,
                 got' = got \o SubSeq(bytes, Len(got) + 1, Len(got) + n)
          PROVE  FInv'
        <2>1. /\ got' \in Seq(Byte) /\ Len(got') = Len(got) + n
              /\ \A i \in 1 .. Len(got') : got'[i] = IF i <= Len(got) THEN got[i] ELSE bytes[i]
            BY <1>3, <1>7, ReadMore
        <2>2. FileTypeOK'
            BY <1>1, <1>2, <1>7, <2>1 DEF FileTypeOK, LiveTypeOK, liveVars, lookVars
        <2>3. ASSUME ReadSoFar PROVE ReadSoFar'
            <3>1. Len(got') <= Len(bytes)
                BY <1>3, <1>7, <2>1
            <3>2. ASSUME NEW i \in 1 .. Len(got') PROVE got'[i] = bytes[i]
                <4>1. got'[i] = IF i <= Len(got) THEN got[i] ELSE bytes[i]
                    BY <2>1, <3>2
                <4>2. i <= Len(got) => i \in 1 .. Len(got)
                    BY <3>2
                <4>3. i \in 1 .. Len(got) => got[i] = bytes[i]
                    BY <2>3 DEF ReadSoFar
                <4> QED
                    BY <4>1, <4>2, <4>3
            <3> QED
                BY <1>2, <3>1, <3>2 DEF ReadSoFar, liveVars
        <2>4. Reads'
            BY <1>1, <1>2, <1>7, <2>3 DEF Reads, liveVars
        <2>5. ContentWithinCap'
            BY <1>1, <1>2, <1>3, <1>4, <1>7, <2>1 DEF ContentWithinCap, Room
        <2> QED
            BY <1>2, <2>2, <2>4, <2>5, LookUntouched DEF FInv
    <1>8. CASE ReadContent
        <2>0. UNCHANGED done /\ done \in BOOLEAN /\ via = "content"
            BY <1>1, <1>8 DEF ReadContent, FileTypeOK
        <2>1. CASE /\ Rest <= 0 \/ Room <= 0
                   /\ ReadAs(IF Len(got) > ContentCap THEN "tooLarge" ELSE "whole")
                   /\ UNCHANGED got
            BY <1>3, <1>4, <1>6, <2>0, <2>1 DEF ReadAs, Room
        <2>2. CASE \E n \in 1 .. MaxLen :
                     /\ n <= Rest /\ n <= Room
                     /\ got' = got \o SubSeq(files[source].bytes, Len(got) + 1, Len(got) + n)
                     /\ UNCHANGED reading
            <3>1. PICK n \in 1 .. MaxLen :
                     /\ n <= Rest /\ n <= Room
                     /\ got' = got \o SubSeq(files[source].bytes, Len(got) + 1, Len(got) + n)
                     /\ UNCHANGED reading
                BY <2>2
            <3>2. n \in Nat \ {0} /\ n <= Len(bytes) - Len(got)
                BY <1>3, <1>4, <3>1
            <3> QED
                BY <1>7, <2>0, <3>1, <3>2
        <2> QED
            BY <1>5, <1>8, <2>0, <2>1, <2>2 DEF ReadContent, ReadAs
    <1>9. CASE NextChunk /\ ~done
        <2>0. via # "content"
            BY <1>9 DEF NextChunk
        <2>1. CASE Rest <= 0 /\ ReadAs("whole") /\ done' = TRUE /\ UNCHANGED got
            BY <1>3, <1>6, <2>0, <2>1 DEF ReadAs
        <2>2. CASE \E n \in 1 .. ChunkSize :
                     /\ n <= Rest
                     /\ got' = got \o SubSeq(files[source].bytes, Len(got) + 1, Len(got) + n)
                     /\ ReadAs("reading") /\ UNCHANGED done
            <3>1. PICK n \in 1 .. ChunkSize :
                     /\ n <= Rest
                     /\ got' = got \o SubSeq(files[source].bytes, Len(got) + 1, Len(got) + n)
                     /\ reading' = "reading" /\ UNCHANGED done
                BY <2>2 DEF ReadAs
            <3>2. n \in Nat \ {0} /\ n <= Len(bytes) - Len(got)
                BY <1>3, <1>4, <3>1
            <3> QED
                BY <1>1, <1>7, <2>0, <3>1, <3>2
        <2>3. CASE ReadAs("failed") /\ done' = TRUE /\ UNCHANGED got
            BY <1>5, <2>3 DEF ReadAs
        <2> QED
            BY <1>9, <2>1, <2>2, <2>3 DEF NextChunk
    <1> QED
        BY <1>8, <1>9

LEMMA OthersInv == FInv /\ Others => FInv'
    <1> SUFFICES ASSUME FInv, Others PROVE FInv'
        OBVIOUS
    <1>1. /\ FileTypeOK /\ Looked /\ Reads /\ EntryDescribesOneFile /\ ContentWithinCap
          /\ LiveTypeOK
        BY DEF FInv, FileTypeOK
    <1>2. /\ UNCHANGED <<looking, file, seen, entry>>
          /\ UNCHANGED <<reading, via, source, done, atOpen, got>>
        BY DEF Others, lookVars, readVars
    <1>3. /\ LiveTypeOK'
          /\ Len(files) \in Nat /\ Len(files') \in Nat /\ Len(files) <= Len(files')
          /\ \A f \in 1 .. Len(files) :
               files[f] \in Object /\ files'[f] \in Object /\ MovedOn(files[f], files'[f])
        BY <1>1, ChangeMovesOn DEF Others
    <1>4. FileTypeOK'
        BY <1>1, <1>2, <1>3 DEF FileTypeOK
    <1>5. ASSUME file # 0, MovedOn(seen, files[file])
          PROVE  MovedOn(seen, files'[file]) /\ (files'[file] = seen => files[file] = seen)
        <2>1. /\ seen \in Object /\ files[file] \in Object /\ files'[file] \in Object
              /\ MovedOn(files[file], files'[file])
            BY <1>1, <1>3, <1>5 DEF FileTypeOK
        <2> QED
            BY <1>5, <2>1, MovesOnFurther
    <1>6. Looked'
        BY <1>1, <1>2, <1>5 DEF Looked
    <1>7. EntryDescribesOneFile'
        <2>1. CASE entry = {}
            BY <1>2, <2>1 DEF EntryDescribesOneFile
        <2>2. CASE entry # {} /\ files'[file] # seen
            BY <1>2, <2>2 DEF EntryDescribesOneFile
        <2>3. CASE entry # {} /\ files'[file] = seen
            <3>1. files[file] = files'[file]
                BY <1>1, <1>5, <2>3 DEF Looked
            <3> QED
                BY <1>1, <1>2, <3>1 DEF EntryDescribesOneFile, Size
        <2> QED
            BY <2>1, <2>2, <2>3
    <1>8. Reads'
        <2>1. CASE reading \notin {"reading", "whole"}
            BY <1>1, <1>2, <2>1 DEF Reads
        <2>2. CASE reading \in {"reading", "whole"}
            <3>1. /\ atOpen \in Object /\ files[source] \in Object /\ files'[source] \in Object
                  /\ MovedOn(atOpen, files[source]) /\ MovedOn(files[source], files'[source])
                BY <1>1, <1>3, <2>2 DEF FileTypeOK, Reads
            <3>2. MovedOn(atOpen, files'[source])
                BY <3>1, MovesOnFurther
            <3>3. /\ {atOpen.cuts, files[source].cuts, files'[source].cuts} \subseteq Nat
                  /\ Len(files[source].bytes) \in Nat /\ Len(files'[source].bytes) \in Nat
                  /\ Len(got) \in Nat
                BY <1>1, <3>1, ObjectParts DEF FileTypeOK
            <3>4. files'[source].cuts = atOpen.cuts =>
                    /\ files[source].cuts = atOpen.cuts
                    /\ Len(files[source].bytes) <= Len(files'[source].bytes)
                    /\ \A i \in 1 .. Len(files[source].bytes) :
                         files'[source].bytes[i] = files[source].bytes[i]
                BY <3>1, <3>3 DEF MovedOn
            <3>5. files'[source].cuts = atOpen.cuts /\ ReadSoFar => ReadSoFar'
                BY <1>2, <3>3, <3>4 DEF ReadSoFar
            <3> QED
                BY <1>1, <1>2, <2>2, <3>2, <3>4, <3>5 DEF Reads
        <2> QED
            BY <2>1, <2>2
    <1>9. ContentWithinCap'
        BY <1>1, <1>2 DEF ContentWithinCap
    <1> QED
        BY <1>4, <1>6, <1>7, <1>8, <1>9 DEF FInv

LEMMA FileFInv == FileSpec => []FInv
    <1>1. FInv /\ [FileNext]_fileVars => FInv'
        <2> SUFFICES ASSUME FInv, [FileNext]_fileVars PROVE FInv'
            OBVIOUS
        <2>1. CASE IterStep
            BY <2>1, OpenEntryInv, SizeEntryInv, SniffInv, WalkOnInv DEF IterStep, WalkOn
        <2>2. CASE ReadStep
            BY <2>2, StatContentInv, OpenContentInv, ReadContentInv, ChunkAfterEnd DEF ReadStep
        <2>3. CASE Others
            BY <2>3, OthersInv
        <2>4. CASE Rests
            BY <2>4, WalkOnInv DEF Rests
        <2>5. CASE UNCHANGED fileVars
            BY <2>5, WalkOnInv DEF fileVars
        <2> QED
            BY <2>1, <2>2, <2>3, <2>4, <2>5 DEF FileNext
    <1> QED
        BY <1>1, FileInitInv, PTL DEF FileSpec

\* Whatever others do to the file, an entry is of one file: its size and verdict
\* fit each other and the limits.
THEOREM EntriesDescribeOneFile == FileSpec => []EntryDescribesOneFile
    <1>1. FInv => EntryDescribesOneFile
        BY DEF FInv
    <1> QED
        BY <1>1, FileFInv, PTL

\* However a file grows, content() never holds more than a byte above its cap.
THEOREM ContentStaysWithinCap == FileSpec => []ContentWithinCap
    <1>1. FInv => ContentWithinCap
        BY DEF FInv
    <1> QED
        BY <1>1, FileFInv, PTL

\* A chunk iterator that has come to its end or failed never gives a chunk again,
\* however often it is asked: done was set with the answer that ended it.
THEOREM ChunksStayEnded == FileSpec => ChunksEndOnce
    <1> DEFINE over == reading \in {"whole", "failed", "tooLarge"}
    <1>1. FInv /\ [FileNext]_fileVars => [over => UNCHANGED readVars]_fileVars
        <2> SUFFICES ASSUME FInv, FileNext, over PROVE UNCHANGED readVars
            OBVIOUS
        <2>1. CASE IterStep
            BY <2>1 DEF IterStep, OpenEntry, SizeEntry, Sniff, WalkOn
        <2>2. CASE StatContent \/ OpenContent \/ ReadContent
            BY <2>2 DEF StatContent, OpenContent, ReadContent
        <2>3. CASE NextChunk
            <3>1. done
                BY <2>3 DEF FInv, Reads, NextChunk
            <3> QED
                BY <2>3, <3>1 DEF NextChunk, readVars
        <2>4. CASE Others \/ Rests
            BY <2>4 DEF Others, Rests
        <2> QED
            BY <2>1, <2>2, <2>3, <2>4 DEF FileNext, ReadStep
    <1> QED
        BY <1>1, FileFInv, PTL DEF FileSpec, ChunksEndOnce

LEMMA PrefixOf ==
    ASSUME NEW g \in Seq(Byte), NEW b \in Seq(Byte), Len(g) <= Len(b),
           \A i \in 1 .. Len(g) : g[i] = b[i]
    PROVE  IsPrefix(g, b)
    <1>1. /\ SubSeq(g, 1, Len(g)) \in Seq(Byte) /\ SubSeq(b, 1, Len(g)) \in Seq(Byte)
          /\ Len(SubSeq(g, 1, Len(g))) = Len(g) /\ Len(SubSeq(b, 1, Len(g))) = Len(g)
          /\ \A i \in 1 .. Len(g) : SubSeq(g, 1, Len(g))[i] = g[i] /\ SubSeq(b, 1, Len(g))[i] = b[i]
        OBVIOUS
    <1>2. SubSeq(g, 1, Len(g)) = SubSeq(b, 1, Len(g))
        BY <1>1, SeqEqual
    <1> QED
        BY <1>2 DEF IsPrefix

\* However a file grows while it is read, what is read to its end is all of it.
THEOREM ContentReadWhole == FileSpec => []ContentIsWhole
    <1>1. FInv => ContentIsWhole
        <2> SUFFICES ASSUME FInv, reading = "whole", files[source].cuts = atOpen.cuts
                     PROVE  IsPrefix(got, files[source].bytes) /\ Len(got) >= Len(atOpen.bytes)
            BY DEF ContentIsWhole
        <2>1. source # 0 /\ ReadSoFar /\ Len(got) >= Len(atOpen.bytes)
            BY DEF FInv, Reads
        <2>2. files[source] \in Object /\ got \in Seq(Byte)
            BY <2>1 DEF FInv, FileTypeOK, LiveTypeOK
        <2> QED
            BY <2>1, <2>2, ObjectParts, PrefixOf DEF ReadSoFar
    <1> QED
        BY <1>1, FileFInv, PTL

\* What is proved of walk_iter holds also when a file changes under it.
THEOREM ChangingFileKeepsTheWalk ==
    FileSpec => /\ []TypeOK
                /\ []NoSilentUndercount
                /\ []NoEntryLost
                /\ InWalkOrder
    BY FileImplementsIter, IterTypeCorrect, CountsAreCompleteOrErrors, IterLosesNoEntry,
       IterKeepsTheOrder, PTL
-----------------------------------------------------------------------------
(* Induction and recursion on numbers, stated of sets and of functions.    *)

LEMMA LeastNumber ==
    ASSUME NEW T, T \subseteq Nat, T # {}
    PROVE  \E least \in T : \A n \in T : least <= n
    <1> DEFINE R == OpToRel(<, Nat)
    <1>1. IsWellFoundedOn(R, Nat)
        BY NatLessThanWellFounded
    <1> HIDE DEF R
    <1>2. PICK least \in T : \A n \in T : ~ (<<n, least>> \in R)
        BY <1>1, WFMin
    <1>3. \A n \in T : <<n, least>> \in R <=> n < least
        BY DEF R, OpToRel
    <1>4. \A n \in T : ~ (n < least) /\ n \in Nat /\ least \in Nat
        BY <1>2, <1>3
    <1> QED
        BY <1>4

LEMMA Induction ==
    ASSUME NEW T, 0 \in T, \A n \in Nat : n \in T => n + 1 \in T
    PROVE  Nat \subseteq T
    <1> SUFFICES ASSUME Nat \ T # {} PROVE FALSE
        OBVIOUS
    <1>1. PICK least \in Nat \ T : \A n \in Nat \ T : least <= n
        BY LeastNumber
    <1>2. least # 0 /\ least - 1 \in Nat /\ least - 1 \notin Nat \ T
        BY <1>1
    <1> QED
        BY <1>1, <1>2

\* f starts with e and goes on by the steps of G.
Iterates(f, S, e, G) ==
    /\ f \in [Nat -> S]
    /\ f[0] = e
    /\ \A n \in Nat : f[n + 1] = G[n][f[n]]

LEMMA Recursion ==
    ASSUME NEW S, NEW e \in S, NEW G \in [Nat -> [S -> S]]
    PROVE  \E f : Iterates(f, S, e, G)
    <1> DEFINE Good(g, n) == g[0] = e /\ \A i \in 0 .. n - 1 : g[i + 1] = G[i][g[i]]
               T == { n \in Nat : \E g \in [0 .. n -> S] : Good(g, n) }
    <1>1. 0 \in T
        <2>1. [i \in 0 .. 0 |-> e] \in [0 .. 0 -> S] /\ Good([i \in 0 .. 0 |-> e], 0)
            OBVIOUS
        <2> QED
            BY <2>1
    <1>2. ASSUME NEW n \in Nat, n \in T PROVE n + 1 \in T
        <2>1. PICK g \in [0 .. n -> S] : Good(g, n)
            BY <1>2
        <2> DEFINE h == [i \in 0 .. n + 1 |-> IF i = n + 1 THEN G[n][g[n]] ELSE g[i]]
        <2>2. h \in [0 .. n + 1 -> S]
            OBVIOUS
        <2>3. Good(h, n + 1)
            BY <2>1
        <2> HIDE DEF Good, h
        <2> QED
            BY <2>2, <2>3
    <1>3. Nat \subseteq T
        <2> HIDE DEF T
        <2> QED
            BY <1>1, <1>2, Induction
    <1> DEFINE of == [n \in Nat |-> CHOOSE g \in [0 .. n -> S] : Good(g, n)]
               f == [n \in Nat |-> of[n][n]]
    <1>4. \A n \in Nat : of[n] \in [0 .. n -> S] /\ Good(of[n], n)
        BY <1>3
    <1> HIDE DEF of
    <1>5. ASSUME NEW n \in Nat PROVE of[n + 1][n] = of[n][n]
        <2> DEFINE U == { i \in Nat : i <= n => of[n + 1][i] = of[n][i] }
        <2>1. 0 \in U
            BY <1>4
        <2>2. ASSUME NEW i \in Nat, i \in U PROVE i + 1 \in U
            BY <1>4, <2>2
        <2>3. Nat \subseteq U
            <3> HIDE DEF U
            <3> QED
                BY <2>1, <2>2, Induction
        <2> QED
            BY <2>3
    <1>6. f \in [Nat -> S] /\ f[0] = e
        BY <1>4
    <1>7. ASSUME NEW n \in Nat PROVE f[n + 1] = G[n][f[n]]
        <2>1. n + 1 \in Nat /\ Good(of[n + 1], n + 1)
            BY <1>4
        <2>2. of[n + 1][n + 1] = G[n][of[n + 1][n]]
            BY <2>1
        <2> QED
            BY <1>5, <2>1, <2>2
    <1> QED
        BY <1>6, <1>7 DEF Iterates


-----------------------------------------------------------------------------
(* The kernel: what canonicalize returns, whatever the links are.          *)

\* A path that is a place: nothing on its way is a link, or missing.
Resolved(p) == p \in Seq(Name) /\ Stops(p) = {}

\* The first name at which the way along p stops.
Halt(p) == SubSeq(p, 1, Min(Stops(p)))

\* Where it goes on if that is a link.
Onward(p) == Target[Halt(p)] \o SubSeq(p, Min(Stops(p)) + 1, Len(p))

\* f[h][p] is what p resolves to over h links or fewer.
Resolves(f) ==
    \A h \in 0 .. MaxHops, p \in Seq(Name) :
        f[h][p] = IF Stops(p) = {} THEN {p}
                  ELSE IF Halt(p) \notin Place \/ h = 0 THEN {}
                  ELSE f[h - 1][Onward(p)]

LEMMA FirstStop ==
    ASSUME NEW p \in Seq(Name), Stops(p) # {}
    PROVE  /\ Min(Stops(p)) \in Stops(p)
           /\ \A n \in Stops(p) : Min(Stops(p)) <= n
    <1>1. Stops(p) \subseteq Nat
        BY DEF Stops
    <1>2. \E least \in Stops(p) : \A n \in Stops(p) : least <= n
        BY <1>1, LeastNumber
    <1> HIDE DEF Stops
    <1> QED
        BY <1>2 DEF Min

\* Where a path stops at a place, it goes on by the path that the link holds.
LEMMA OnwardType ==
    ASSUME NEW p \in Seq(Name), Stops(p) # {}, Halt(p) \in Place
    PROVE  Onward(p) \in Seq(Name)
    <1>1. Min(Stops(p)) \in 1 .. Len(p) /\ Kind[Halt(p)] = "link"
        BY FirstStop DEF Stops, Halt
    <1>2. Target[Halt(p)] \in Seq(Name)
        BY <1>1, SymlinkAssumption
    <1> DEFINE n == Min(Stops(p))
               t == SubSeq(p, n + 1, Len(p))
    <1>3. n \in 1 .. Len(p)
        BY <1>1
    <1> HIDE DEF n
    <1>4. t \in Seq(Name)
        BY <1>3
    <1> HIDE DEF t
    <1>5. Target[Halt(p)] \o t \in Seq(Name)
        BY <1>2, <1>4
    <1> QED
        BY <1>5 DEF Onward, t, n

LEMMA KernelEquation ==
    \E f : Resolves(f) /\ \A p \in Seq(Name) : Canonicalize(p) = f[MaxHops][p]
    <1> DEFINE Solves(f) ==
                 f = [h \in 0 .. MaxHops |->
                       [p \in Seq(Name) |->
                        IF Stops(p) = {} THEN {p}
                        ELSE IF SubSeq(p, 1, Min(Stops(p))) \notin Place \/ h = 0 THEN {}
                        ELSE f[h - 1][Target[SubSeq(p, 1, Min(Stops(p)))]
                                        \o SubSeq(p, Min(Stops(p)) + 1, Len(p))]]]
               over == CHOOSE f : Solves(f)
    <1>1. \A p \in Seq(Name) : Canonicalize(p) = over[MaxHops][p]
        BY DEF Canonicalize
    <1> DEFINE Step == [h \in Nat |-> [g \in [Seq(Name) -> SUBSET Seq(Name)] |->
                          [p \in Seq(Name) |->
                             IF Stops(p) = {} THEN {p}
                             ELSE IF Halt(p) \notin Place THEN {}
                             ELSE g[Onward(p)]]]]
               Bare == [p \in Seq(Name) |-> IF Stops(p) = {} THEN {p} ELSE {}]
    <1>2. Step \in [Nat -> [[Seq(Name) -> SUBSET Seq(Name)] -> [Seq(Name) -> SUBSET Seq(Name)]]]
        <2>1. ASSUME NEW g \in [Seq(Name) -> SUBSET Seq(Name)], NEW p \in Seq(Name)
              PROVE  (IF Stops(p) = {} THEN {p} ELSE IF Halt(p) \notin Place THEN {} ELSE g[Onward(p)])
                         \in SUBSET Seq(Name)
            BY OnwardType
        <2> QED
            BY <2>1
    <1>3. Bare \in [Seq(Name) -> SUBSET Seq(Name)]
        OBVIOUS
    <1> HIDE DEF Step, Bare, Solves
    <1>4. PICK f : Iterates(f, [Seq(Name) -> SUBSET Seq(Name)], Bare, Step)
        BY <1>2, <1>3, Recursion
    <1>5. /\ f \in [Nat -> [Seq(Name) -> SUBSET Seq(Name)]]
          /\ f[0] = Bare
          /\ \A n \in Nat : f[n + 1] = Step[n][f[n]]
        BY <1>4 DEF Iterates
    <1> DEFINE g == [h \in 0 .. MaxHops |-> f[h]]
    <1>6. MaxHops \in Nat
        BY SymlinkAssumption
    <1>7. ASSUME NEW h \in 0 .. MaxHops, NEW p \in Seq(Name)
          PROVE  f[h][p] = IF Stops(p) = {} THEN {p}
                           ELSE IF Halt(p) \notin Place \/ h = 0 THEN {}
                           ELSE g[h - 1][Onward(p)]
        <2>1. CASE h = 0
            BY <1>5, <2>1 DEF Bare
        <2>2. CASE h # 0
            <3>1. h - 1 \in Nat /\ h - 1 \in 0 .. MaxHops /\ h = (h - 1) + 1
                BY <1>6, <2>2
            <3>2. f[h] = Step[h - 1][f[h - 1]] /\ g[h - 1] = f[h - 1]
                BY <1>5, <3>1
            <3>3. f[h - 1] \in [Seq(Name) -> SUBSET Seq(Name)]
                BY <1>5, <3>1
            <3> HIDE DEF g
            <3> QED
                BY <2>2, <3>1, <3>2, <3>3 DEF Step
        <2> QED
            BY <2>1, <2>2
    <1>8. Solves(g)
        <2>1. \A h \in 0 .. MaxHops : f[h] \in [Seq(Name) -> SUBSET Seq(Name)]
            BY <1>5, <1>6
        <2>2. ASSUME NEW h \in 0 .. MaxHops
              PROVE  g[h] = [p \in Seq(Name) |->
                               IF Stops(p) = {} THEN {p}
                               ELSE IF Halt(p) \notin Place \/ h = 0 THEN {}
                               ELSE g[h - 1][Onward(p)]]
            <3>1. g[h] = f[h] /\ f[h] = [p \in Seq(Name) |-> f[h][p]]
                BY <2>1
            <3> HIDE DEF g
            <3> QED
                BY <1>7, <3>1
        <2>3. g = [h \in 0 .. MaxHops |-> g[h]]
            OBVIOUS
        <2> HIDE DEF g
        <2> QED
            BY <2>2, <2>3 DEF Solves, Halt, Onward
    <1>9. Solves(over)
        <2> HIDE DEF g
        <2> QED
            BY <1>8, Zenon
    <1> HIDE DEF over, g
    <1>10. \A h \in 0 .. MaxHops : over[h] =
             [p \in Seq(Name) |->
                IF Stops(p) = {} THEN {p}
                ELSE IF Halt(p) \notin Place \/ h = 0 THEN {}
                ELSE over[h - 1][Onward(p)]]
        BY <1>9, Zenon DEF Solves, Halt, Onward
    <1>11. Resolves(over)
        BY <1>10 DEF Resolves
    <1> QED
        BY <1>1, <1>11

LEMMA KernelStart ==
    ASSUME NEW f, Resolves(f), NEW p \in Seq(Name)
    PROVE  f[0][p] = IF Stops(p) = {} THEN {p} ELSE {}
    <1>1. 0 \in 0 .. MaxHops
        BY SymlinkAssumption
    <1> QED
        BY <1>1 DEF Resolves

LEMMA KernelStep ==
    ASSUME NEW f, Resolves(f), NEW p \in Seq(Name), NEW k \in Nat, k < MaxHops
    PROVE  f[k + 1][p] = IF Stops(p) = {} THEN {p}
                         ELSE IF Halt(p) \notin Place THEN {}
                         ELSE f[k][Onward(p)]
    <1>1. k + 1 \in 0 .. MaxHops /\ k + 1 # 0 /\ (k + 1) - 1 = k
        BY SymlinkAssumption
    <1> QED
        BY <1>1 DEF Resolves

\* What a path resolves to is one place, if anything, with no link on its way.
LEMMA KernelAnswers ==
    ASSUME NEW f, Resolves(f), NEW h \in 0 .. MaxHops, NEW p \in Seq(Name)
    PROVE  f[h][p] = {} \/ \E q \in Seq(Name) : Resolved(q) /\ f[h][p] = {q}
    <1> DEFINE Good(k) == \A s \in Seq(Name) :
                 f[k][s] = {} \/ \E q \in Seq(Name) : Resolved(q) /\ f[k][s] = {q}
               T == { k \in Nat : k <= MaxHops => Good(k) }
    <1>1. MaxHops \in Nat
        BY SymlinkAssumption
    <1>2. 0 \in T
        BY KernelStart DEF Resolved
    <1>3. ASSUME NEW k \in Nat, k \in T PROVE k + 1 \in T
        <2> SUFFICES ASSUME k + 1 <= MaxHops, NEW s \in Seq(Name)
                     PROVE  f[k + 1][s] = {} \/ \E q \in Seq(Name) : Resolved(q) /\ f[k + 1][s] = {q}
            BY DEF Good
        <2>1. k < MaxHops /\ k <= MaxHops
            BY <1>1
        <2>2. f[k + 1][s] = IF Stops(s) = {} THEN {s}
                            ELSE IF Halt(s) \notin Place THEN {}
                            ELSE f[k][Onward(s)]
            BY <1>1, <2>1, KernelStep
        <2>3. CASE Stops(s) = {}
            BY <2>2, <2>3 DEF Resolved
        <2>4. CASE Stops(s) # {} /\ Halt(s) \notin Place
            BY <2>2, <2>4
        <2>5. CASE Stops(s) # {} /\ Halt(s) \in Place
            <3>1. Onward(s) \in Seq(Name)
                BY <2>5, OnwardType
            <3> QED
                BY <1>3, <2>1, <2>2, <2>5, <3>1
        <2> QED
            BY <2>3, <2>4, <2>5
    <1>4. Nat \subseteq T
        <2> HIDE DEF T
        <2> QED
            BY <1>2, <1>3, Induction
    <1>5. h \in Nat /\ h <= MaxHops
        BY <1>1
    <1> HIDE DEF Good
    <1>6. Good(h)
        BY <1>4, <1>5
    <1> QED
        BY <1>6 DEF Good

\* With more links allowed, no answer is lost.
LEMMA MoreHops ==
    ASSUME NEW f, Resolves(f), NEW h \in 0 .. MaxHops, NEW p \in Seq(Name)
    PROVE  f[h][p] \subseteq f[MaxHops][p]
    <1> DEFINE Good(k) == \A s \in Seq(Name) : f[k][s] \subseteq f[k + 1][s]
               T == { k \in Nat : k < MaxHops => Good(k) }
    <1>1. MaxHops \in Nat
        BY SymlinkAssumption
    <1>2. 0 \in T
        <2> SUFFICES ASSUME 0 < MaxHops, NEW s \in Seq(Name) PROVE f[0][s] \subseteq f[0 + 1][s]
            BY DEF Good
        <2>1. f[0][s] = IF Stops(s) = {} THEN {s} ELSE {}
            BY KernelStart
        <2>2. f[0 + 1][s] = IF Stops(s) = {} THEN {s}
                            ELSE IF Halt(s) \notin Place THEN {}
                            ELSE f[0][Onward(s)]
            BY <1>1, KernelStep
        <2> QED
            BY <2>1, <2>2
    <1>3. ASSUME NEW k \in Nat, k \in T PROVE k + 1 \in T
        <2> SUFFICES ASSUME k + 1 < MaxHops, NEW s \in Seq(Name)
                     PROVE  f[k + 1][s] \subseteq f[(k + 1) + 1][s]
            BY DEF Good
        <2>1. k < MaxHops /\ k + 1 \in Nat /\ k + 1 < MaxHops
            BY <1>1
        <2>2. f[k + 1][s] = IF Stops(s) = {} THEN {s}
                            ELSE IF Halt(s) \notin Place THEN {}
                            ELSE f[k][Onward(s)]
            BY <1>1, <2>1, KernelStep
        <2>3. f[(k + 1) + 1][s] = IF Stops(s) = {} THEN {s}
                                  ELSE IF Halt(s) \notin Place THEN {}
                                  ELSE f[k + 1][Onward(s)]
            BY <1>1, <2>1, KernelStep
        <2>4. CASE Stops(s) = {} \/ Halt(s) \notin Place
            BY <2>2, <2>3, <2>4
        <2>5. CASE Stops(s) # {} /\ Halt(s) \in Place
            <3>1. Onward(s) \in Seq(Name)
                BY <2>5, OnwardType
            <3> QED
                BY <1>3, <2>1, <2>2, <2>3, <2>5, <3>1
        <2> QED
            BY <2>4, <2>5
    <1>4. Nat \subseteq T
        <2> HIDE DEF T
        <2> QED
            BY <1>2, <1>3, Induction
    <1> HIDE DEF Good
    <1>5. \A k \in Nat : k < MaxHops => Good(k)
        BY <1>4
    <1> DEFINE U == { d \in Nat : d <= MaxHops => f[MaxHops - d][p] \subseteq f[MaxHops][p] }
    <1>6. 0 \in U
        BY <1>1
    <1>7. ASSUME NEW d \in Nat, d \in U PROVE d + 1 \in U
        <2> SUFFICES ASSUME d + 1 <= MaxHops
                     PROVE  f[MaxHops - (d + 1)][p] \subseteq f[MaxHops][p]
            OBVIOUS
        <2>1. /\ MaxHops - (d + 1) \in Nat /\ MaxHops - (d + 1) < MaxHops
              /\ (MaxHops - (d + 1)) + 1 = MaxHops - d /\ d <= MaxHops
            BY <1>1
        <2>2. f[MaxHops - (d + 1)][p] \subseteq f[MaxHops - d][p]
            BY <1>5, <2>1 DEF Good
        <2> QED
            BY <1>7, <2>1, <2>2
    <1>8. Nat \subseteq U
        <2> HIDE DEF U
        <2> QED
            BY <1>6, <1>7, Induction
    <1>9. MaxHops - h \in Nat /\ MaxHops - h <= MaxHops /\ MaxHops - (MaxHops - h) = h
        BY <1>1
    <1> QED
        BY <1>8, <1>9

-----------------------------------------------------------------------------
(* One name more at the end of a path.                                     *)

LEMMA AppendFacts ==
    ASSUME NEW p \in Seq(Name), NEW x \in Name
    PROVE  /\ Append(p, x) \in Seq(Name) /\ Append(p, x) # <<>>
           /\ Len(Append(p, x)) = Len(p) + 1
           /\ Front(Append(p, x)) = p /\ Last(Append(p, x)) = x
           /\ \A n \in 1 .. Len(p) : SubSeq(Append(p, x), 1, n) = SubSeq(p, 1, n)
           /\ SubSeq(Append(p, x), 1, Len(p) + 1) = Append(p, x)
    <1> DEFINE s == Append(p, x)
    <1>1. /\ s \in Seq(Name) /\ Len(s) = Len(p) + 1 /\ Len(p) \in Nat
          /\ \A i \in 1 .. Len(p) : s[i] = p[i]
          /\ s[Len(p) + 1] = x
        OBVIOUS
    <1> HIDE DEF s
    <1>2. s # <<>>
        BY <1>1
    <1>3. ASSUME NEW n \in 0 .. Len(p) PROVE SubSeq(s, 1, n) = SubSeq(p, 1, n)
        <2>1. SubSeq(s, 1, n) \in Seq(Name) /\ SubSeq(p, 1, n) \in Seq(Name)
            BY <1>1
        <2>2. Len(SubSeq(s, 1, n)) = n /\ Len(SubSeq(p, 1, n)) = n
            BY <1>1
        <2>3. \A i \in 1 .. n : SubSeq(s, 1, n)[i] = s[i] /\ SubSeq(p, 1, n)[i] = p[i]
            BY <1>1
        <2>4. \A i \in 1 .. n : s[i] = p[i]
            BY <1>1
        <2> QED
            BY <2>1, <2>2, <2>3, <2>4
    <1>4. SubSeq(p, 1, Len(p)) = p /\ SubSeq(s, 1, Len(s)) = s
        BY <1>1
    <1>5. Front(s) = p /\ Last(s) = x
        BY <1>1, <1>3, <1>4 DEF Front, Last
    <1>6. \A n \in 1 .. Len(p) : SubSeq(s, 1, n) = SubSeq(p, 1, n)
        BY <1>1, <1>3
    <1>7. SubSeq(s, 1, Len(p) + 1) = s
        BY <1>1, <1>4
    <1> QED
        BY <1>1, <1>2, <1>5, <1>6, <1>7 DEF s

\* symlink_metadata is about a name in what the rest of the path resolves to.
LEMMA LstatOfAppend ==
    ASSUME NEW p \in Seq(Name), NEW x \in Name
    PROVE  Lstat(Append(p, x)) = { Append(dir, x) : dir \in Canonicalize(p) } \cap Place
    BY AppendFacts DEF Lstat

LEMMA StopsOfAppend ==
    ASSUME NEW p \in Seq(Name), NEW x \in Name
    PROVE  /\ \A n \in 1 .. Len(p) : n \in Stops(p) <=> n \in Stops(Append(p, x))
           /\ Stops(Append(p, x)) \subseteq 1 .. Len(p) + 1
           /\ Len(p) + 1 \in Stops(Append(p, x))
                <=> Append(p, x) \notin Place \/ Kind[Append(p, x)] = "link"
    <1> DEFINE s == Append(p, x)
    <1>1. /\ Len(s) = Len(p) + 1 /\ Len(p) \in Nat
          /\ \A n \in 1 .. Len(p) : SubSeq(s, 1, n) = SubSeq(p, 1, n)
          /\ SubSeq(s, 1, Len(p) + 1) = s
        BY AppendFacts
    <1> HIDE DEF s
    <1>2. Stops(s) \subseteq 1 .. Len(p) + 1
        BY <1>1 DEF Stops
    <1>3. \A n \in 1 .. Len(p) : n \in 1 .. Len(s)
        BY <1>1
    <1>4. \A n \in 1 .. Len(p) : n \in Stops(p) <=> n \in Stops(s)
        BY <1>1, <1>3 DEF Stops
    <1>5. Len(p) + 1 \in 1 .. Len(s)
        BY <1>1
    <1>6. Len(p) + 1 \in Stops(s) <=> s \notin Place \/ Kind[s] = "link"
        BY <1>1, <1>5 DEF Stops
    <1> QED
        BY <1>2, <1>4, <1>6 DEF s

\* A path that stops on its way stops there with a name more at its end.
LEMMA OnwardOfAppend ==
    ASSUME NEW p \in Seq(Name), NEW x \in Name, Stops(p) # {}
    PROVE  /\ Stops(Append(p, x)) # {} /\ Halt(Append(p, x)) = Halt(p)
           /\ Halt(p) \in Place => Onward(Append(p, x)) = Append(Onward(p), x)
    <1> DEFINE s == Append(p, x)
               n == Min(Stops(p))
    <1>1. n \in 1 .. Len(p) /\ n \in Stops(p) /\ \A k \in Stops(p) : n <= k
        BY FirstStop DEF Stops
    <1>2. s \in Seq(Name) /\ Len(s) = Len(p) + 1 /\ Len(p) \in Nat
        BY AppendFacts
    <1>3. n \in Stops(s)
        BY <1>1, StopsOfAppend
    <1>4. \A k \in Stops(s) : n <= k /\ k \in Nat
        <2>1. ASSUME NEW k \in Stops(s) PROVE n <= k /\ k \in Nat
            <3>1. k \in 1 .. Len(p) + 1
                BY StopsOfAppend
            <3>2. CASE k \in 1 .. Len(p)
                BY <1>1, <3>2, StopsOfAppend
            <3>3. CASE k = Len(p) + 1
                BY <1>1, <1>2, <3>3
            <3> HIDE DEF n, s
            <3> QED
                BY <1>2, <3>1, <3>2, <3>3
        <2> QED
            BY <2>1
    <1>5. Min(Stops(s)) = n
        <2>1. Min(Stops(s)) \in Stops(s) /\ Min(Stops(s)) <= n
            BY <1>2, <1>3, FirstStop
        <2> HIDE DEF n, s
        <2>2. n \in Nat
            BY <1>1
        <2> QED
            BY <1>4, <2>1, <2>2
    <1>6. Halt(s) = Halt(p)
        BY <1>1, <1>5, AppendFacts DEF Halt
    <1>7. ASSUME Halt(p) \in Place PROVE Onward(s) = Append(Onward(p), x)
        <2> DEFINE t == Target[Halt(p)]
                   u == SubSeq(p, n + 1, Len(p))
                   v == SubSeq(s, n + 1, Len(s))
        <2>1. Kind[Halt(p)] = "link"
            BY <1>1, <1>7 DEF Stops, Halt
        <2>2. t \in Seq(Name)
            BY <1>7, <2>1, SymlinkAssumption
        <2>3. \A i \in 1 .. Len(p) : s[i] = p[i]
            BY <1>2
        <2>4. s[Len(p) + 1] = x
            BY <1>2
        <2> HIDE DEF n, s
        <2>5. /\ u \in Seq(Name) /\ Len(u) = Len(p) - n
              /\ \A i \in 1 .. Len(p) - n : u[i] = p[n + i]
            <3>1. n + 1 \in 1 .. Len(p) + 1 /\ Len(p) \in n .. Len(p)
                BY <1>1, <1>2
            <3>2. u \in Seq(Name) /\ Len(u) = Len(p) - (n + 1) + 1
                BY <1>1, <1>2
            <3>3. \A i \in 1 .. Len(p) - n : u[i] = p[n + i]
                <4> TAKE i \in 1 .. Len(p) - n
                <4>1. i \in 1 .. Len(u)
                    BY <1>1, <1>2, <3>2
                <4>2. u[i] = p[(n + 1) + i - 1]
                    BY <1>1, <1>2, <4>1
                <4>3. (n + 1) + i - 1 = n + i
                    BY <1>1, <4>1
                <4> QED
                    BY <4>2, <4>3
            <3> QED
                BY <1>1, <1>2, <3>2, <3>3
        <2>6. /\ v \in Seq(Name) /\ Len(v) = Len(p) + 1 - n
              /\ \A i \in 1 .. Len(p) + 1 - n : v[i] = s[n + i]
            <3>2. v \in Seq(Name) /\ Len(v) = Len(s) - (n + 1) + 1
                BY <1>1, <1>2
            <3>3. \A i \in 1 .. Len(p) + 1 - n : v[i] = s[n + i]
                <4> TAKE i \in 1 .. Len(p) + 1 - n
                <4>1. i \in 1 .. Len(v)
                    BY <1>1, <1>2, <3>2
                <4>2. v[i] = s[(n + 1) + i - 1]
                    BY <1>1, <1>2, <4>1
                <4>3. (n + 1) + i - 1 = n + i
                    BY <1>1, <4>1
                <4> QED
                    BY <4>2, <4>3
            <3> QED
                BY <1>1, <1>2, <3>2, <3>3
        <2> HIDE DEF t, u, v
        <2>7. v = Append(u, x)
            <3> DEFINE w == Append(u, x)
            <3>1. /\ w \in Seq(Name) /\ Len(w) = Len(u) + 1
                  /\ \A i \in 1 .. Len(u) : w[i] = u[i]
                  /\ w[Len(u) + 1] = x
                BY <2>5
            <3> HIDE DEF w
            <3>2. Len(w) = Len(v)
                BY <1>1, <1>2, <2>5, <2>6, <3>1
            <3>3. ASSUME NEW i \in 1 .. Len(v) PROVE v[i] = w[i]
                <4>1. CASE i \in 1 .. Len(u)
                    <5>1. n + i \in 1 .. Len(p) /\ i \in 1 .. Len(p) - n /\ i \in 1 .. Len(p) + 1 - n
                        BY <1>1, <1>2, <2>5, <4>1
                    <5>2. v[i] = s[n + i] /\ s[n + i] = p[n + i] /\ u[i] = p[n + i]
                        BY <2>3, <2>5, <2>6, <5>1
                    <5> QED
                        BY <3>1, <4>1, <5>2
                <4>2. CASE i = Len(u) + 1
                    <5>1. n + i = Len(p) + 1 /\ i \in 1 .. Len(p) + 1 - n
                        BY <1>1, <1>2, <2>5, <4>2
                    <5>2. v[i] = s[n + i]
                        BY <2>6, <5>1
                    <5> QED
                        BY <2>4, <3>1, <4>2, <5>1, <5>2
                <4>3. Len(u) \in Nat /\ Len(v) = Len(u) + 1
                    BY <1>1, <1>2, <2>5, <2>6
                <4> QED
                    BY <4>1, <4>2, <4>3
            <3>4. v = w
                BY <2>6, <3>1, <3>2, <3>3
            <3> QED
                BY <3>4 DEF w
        <2>8. t \o Append(u, x) = Append(t \o u, x)
            <3>1. Append(u, x) = u \o <<x>> /\ <<x>> \in Seq(Name)
                BY <2>5, AppendIsConcat
            <3>2. t \o u \in Seq(Name)
                BY <2>2, <2>5, ConcatProperties
            <3>3. Append(t \o u, x) = (t \o u) \o <<x>>
                BY <3>2, AppendIsConcat
            <3>4. (t \o u) \o <<x>> = t \o (u \o <<x>>)
                BY <2>2, <2>5, <3>1, ConcatAssociative
            <3> QED
                BY <3>1, <3>3, <3>4
        <2>9. Onward(s) = t \o v /\ Onward(p) = t \o u
            BY <1>5, <1>6 DEF Onward, t, u, v, n
        <2> QED
            BY <2>7, <2>8, <2>9
    <1> QED
        BY <1>3, <1>6, <1>7

\* The name is looked up in what the path before it resolves to.
LEMMA NameAfterName ==
    ASSUME NEW f, Resolves(f), NEW h \in 0 .. MaxHops, NEW p \in Seq(Name), NEW x \in Name
    PROVE  /\ f[h][p] = {} => f[h][Append(p, x)] = {}
           /\ \A q \in Seq(Name) : f[h][p] = {q} => f[h][Append(p, x)] \subseteq f[MaxHops][Append(q, x)]
    <1> DEFINE Good(k) == \A s \in Seq(Name) :
                 /\ f[k][s] = {} => f[k][Append(s, x)] = {}
                 /\ \A q \in Seq(Name) :
                      f[k][s] = {q} => f[k][Append(s, x)] \subseteq f[MaxHops][Append(q, x)]
               T == { k \in Nat : k <= MaxHops => Good(k) }
    <1>1. MaxHops \in Nat
        BY SymlinkAssumption
    <1>2. ASSUME NEW k \in 0 .. MaxHops, NEW s \in Seq(Name), Stops(s) = {}
          PROVE  /\ f[k][s] = {s}
                 /\ f[k][Append(s, x)] \subseteq f[MaxHops][Append(s, x)]
        BY <1>2, MoreHops, AppendFacts DEF Resolves
    <1>3. 0 \in T
        <2> SUFFICES ASSUME NEW s \in Seq(Name), Stops(s) # {}
                     PROVE  f[0][s] = {} /\ f[0][Append(s, x)] = {}
            <3>1. 0 \in 0 .. MaxHops
                BY <1>1
            <3>2. ASSUME NEW s \in Seq(Name)
                  PROVE  /\ f[0][s] = {} => f[0][Append(s, x)] = {}
                         /\ \A q \in Seq(Name) :
                              f[0][s] = {q} => f[0][Append(s, x)] \subseteq f[MaxHops][Append(q, x)]
                <4>1. CASE Stops(s) = {}
                    <5>1. f[0][s] = {s} /\ f[0][Append(s, x)] \subseteq f[MaxHops][Append(s, x)]
                        BY <1>2, <3>1, <4>1
                    <5> QED
                        BY <5>1
                <4>2. CASE Stops(s) # {}
                    <5>1. f[0][s] = {} /\ f[0][Append(s, x)] = {}
                        BY <4>2
                    <5> QED
                        BY <5>1
                <4> QED
                    BY <4>1, <4>2
            <3>3. Good(0)
                BY <3>2
            <3> HIDE DEF Good
            <3> QED
                BY <3>3
        <2>1. Stops(Append(s, x)) # {} /\ Append(s, x) \in Seq(Name)
            BY OnwardOfAppend, AppendFacts
        <2> QED
            BY <2>1, KernelStart
    <1>4. ASSUME NEW k \in Nat, k \in T PROVE k + 1 \in T
        <2> SUFFICES ASSUME k + 1 <= MaxHops, NEW s \in Seq(Name)
                     PROVE  /\ f[k + 1][s] = {} => f[k + 1][Append(s, x)] = {}
                            /\ \A q \in Seq(Name) :
                                 f[k + 1][s] = {q}
                                     => f[k + 1][Append(s, x)] \subseteq f[MaxHops][Append(q, x)]
            BY DEF Good
        <2>1. k < MaxHops /\ k <= MaxHops /\ k + 1 \in 0 .. MaxHops
            BY <1>1
        <2>2. Append(s, x) \in Seq(Name)
            BY AppendFacts
        <2>3. CASE Stops(s) = {}
            <3>1. f[k + 1][s] = {s} /\ f[k + 1][Append(s, x)] \subseteq f[MaxHops][Append(s, x)]
                BY <1>2, <2>1, <2>3
            <3> QED
                BY <3>1
        <2>4. CASE Stops(s) # {}
            <3>1. /\ Stops(Append(s, x)) # {} /\ Halt(Append(s, x)) = Halt(s)
                  /\ Halt(s) \in Place => Onward(Append(s, x)) = Append(Onward(s), x)
                BY <2>4, OnwardOfAppend
            <3>2. f[k + 1][s] = IF Halt(s) \notin Place THEN {} ELSE f[k][Onward(s)]
                BY <2>1, <2>4, KernelStep
            <3>3. f[k + 1][Append(s, x)]
                    = IF Halt(s) \notin Place THEN {} ELSE f[k][Onward(Append(s, x))]
                BY <2>1, <2>2, <3>1, KernelStep
            <3>4. CASE Halt(s) \notin Place
                BY <3>2, <3>3, <3>4
            <3>5. CASE Halt(s) \in Place
                <4>1. Onward(s) \in Seq(Name)
                    BY <2>4, <3>5, OnwardType
                <4>2. Good(k)
                    BY <1>4, <2>1
                <4>3. f[k + 1][s] = f[k][Onward(s)] /\ f[k + 1][Append(s, x)] = f[k][Append(Onward(s), x)]
                    BY <3>1, <3>2, <3>3, <3>5
                <4> QED
                    BY <4>1, <4>2, <4>3
            <3> QED
                BY <3>4, <3>5
        <2> QED
            BY <2>3, <2>4
    <1>5. Nat \subseteq T
        <2> HIDE DEF T
        <2> QED
            BY <1>3, <1>4, Induction
    <1>6. h \in Nat /\ h <= MaxHops
        BY <1>1
    <1> HIDE DEF Good
    <1>7. Good(h)
        BY <1>5, <1>6
    <1> QED
        BY <1>7 DEF Good

\* The same of canonicalize.
LEMMA CanonicalizeFacts ==
    ASSUME NEW p \in Seq(Name)
    PROVE  /\ Canonicalize(p) = {} \/ \E q \in Seq(Name) : Resolved(q) /\ Canonicalize(p) = {q}
           /\ Resolved(p) => Canonicalize(p) = {p}
           /\ \A x \in Name :
                /\ Canonicalize(p) = {} => Canonicalize(Append(p, x)) = {}
                /\ \A q \in Seq(Name) :
                     Canonicalize(p) = {q} => Canonicalize(Append(p, x)) \subseteq Canonicalize(Append(q, x))
    <1>1. PICK f : Resolves(f) /\ \A s \in Seq(Name) : Canonicalize(s) = f[MaxHops][s]
        BY KernelEquation
    <1>2. MaxHops \in 0 .. MaxHops
        BY SymlinkAssumption
    <1>3. Canonicalize(p) = {} \/ \E q \in Seq(Name) : Resolved(q) /\ Canonicalize(p) = {q}
        BY <1>1, <1>2, KernelAnswers
    <1>4. ASSUME Resolved(p) PROVE Canonicalize(p) = {p}
        BY <1>1, <1>2, <1>4 DEF Resolves, Resolved
    <1>5. ASSUME NEW x \in Name
          PROVE  /\ Canonicalize(p) = {} => Canonicalize(Append(p, x)) = {}
                 /\ \A q \in Seq(Name) :
                      Canonicalize(p) = {q} => Canonicalize(Append(p, x)) \subseteq Canonicalize(Append(q, x))
        <2>1. Append(p, x) \in Seq(Name) /\ \A q \in Seq(Name) : Append(q, x) \in Seq(Name)
            BY AppendFacts
        <2>2. /\ f[MaxHops][p] = {} => f[MaxHops][Append(p, x)] = {}
              /\ \A q \in Seq(Name) : f[MaxHops][p] = {q}
                     => f[MaxHops][Append(p, x)] \subseteq f[MaxHops][Append(q, x)]
            BY <1>1, <1>2, NameAfterName
        <2>3. /\ Canonicalize(p) = f[MaxHops][p]
              /\ Canonicalize(Append(p, x)) = f[MaxHops][Append(p, x)]
              /\ \A q \in Seq(Name) : Canonicalize(Append(q, x)) = f[MaxHops][Append(q, x)]
            BY <1>1, <2>1
        <2> HIDE DEF Resolves
        <2> QED
            BY <2>2, <2>3
    <1> QED
        BY <1>3, <1>4, <1>5

LEMMA ResolvedFacts ==
    ASSUME NEW p, Resolved(p)
    PROVE  /\ p \in Place
           /\ \A x \in Name : Append(p, x) \in Place /\ Kind[Append(p, x)] # "link"
                                  => Resolved(Append(p, x))
           /\ \A r \in Seq(Name) : IsPrefix(r, p) => Resolved(r)
    <1>1. p \in Seq(Name) /\ Stops(p) = {}
        BY DEF Resolved
    <1>2. p \in Place
        <2>1. CASE p = <<>>
            BY <2>1, SymlinkAssumption
        <2>2. CASE p # <<>>
            <3>1. Len(p) \in 1 .. Len(p) /\ SubSeq(p, 1, Len(p)) = p
                BY <1>1, <2>2
            <3> QED
                BY <1>1, <3>1 DEF Stops
        <2> QED
            BY <2>1, <2>2
    <1>3. ASSUME NEW x \in Name, Append(p, x) \in Place, Kind[Append(p, x)] # "link"
          PROVE  Resolved(Append(p, x))
        <2>1. \A n \in Stops(Append(p, x)) : n \in 1 .. Len(p) \/ n = Len(p) + 1
            BY <1>1, StopsOfAppend
        <2>2. \A n \in 1 .. Len(p) : n \notin Stops(Append(p, x))
            BY <1>1, StopsOfAppend
        <2>3. Len(p) + 1 \notin Stops(Append(p, x))
            BY <1>1, <1>3, StopsOfAppend
        <2>4. Append(p, x) \in Seq(Name)
            BY <1>1, AppendFacts
        <2> QED
            BY <2>1, <2>2, <2>3, <2>4 DEF Resolved
    <1>4. ASSUME NEW r \in Seq(Name), IsPrefix(r, p) PROVE Resolved(r)
        <2>1. /\ Len(r) \in Nat /\ Len(p) \in Nat /\ Len(r) <= Len(p)
              /\ SubSeq(r, 1, Len(r)) = SubSeq(p, 1, Len(r))
            BY <1>1, <1>4 DEF IsPrefix
        <2>2. \A i \in 1 .. Len(r) : r[i] = p[i]
            <3> TAKE i \in 1 .. Len(r)
            <3>1. SubSeq(r, 1, Len(r))[i] = r[i] /\ SubSeq(p, 1, Len(r))[i] = p[i]
                BY <1>1, <2>1
            <3> QED
                BY <2>1, <3>1
        <2>3. ASSUME NEW n \in 1 .. Len(r) PROVE SubSeq(r, 1, n) = SubSeq(p, 1, n)
            <3>1. /\ SubSeq(r, 1, n) \in Seq(Name) /\ SubSeq(p, 1, n) \in Seq(Name)
                  /\ Len(SubSeq(r, 1, n)) = n /\ Len(SubSeq(p, 1, n)) = n
                BY <1>1, <2>1
            <3>2. \A i \in 1 .. n : SubSeq(r, 1, n)[i] = r[i] /\ SubSeq(p, 1, n)[i] = p[i]
                BY <1>1, <2>1
            <3>3. \A i \in 1 .. n : r[i] = p[i]
                BY <2>1, <2>2
            <3> QED
                BY <3>1, <3>2, <3>3
        <2>4. \A n \in Stops(r) : n \in Stops(p)
            <3>1. \A n \in 1 .. Len(r) : n \in 1 .. Len(p)
                BY <2>1
            <3> QED
                BY <2>3, <3>1 DEF Stops
        <2> QED
            BY <1>1, <2>4 DEF Resolved
    <1> QED
        BY <1>2, <1>3, <1>4

-----------------------------------------------------------------------------
(* symlink_depth, name by name.                                            *)

Progress == [failed : BOOLEAN, depth : Nat, current : Seq(Name)]

Started == [failed |-> FALSE, depth |-> 0, current |-> <<>>]

\* What is at the name that comes next, if the way has led to a place so far.
LEMMA NextName ==
    ASSUME NEW acc \in Progress, NEW x \in Name, Lstat(Append(acc.current, x)) # {},
           Canonicalize(acc.current) # {} => Resolved(acc.current)
    PROVE  /\ Resolved(acc.current) /\ Canonicalize(acc.current) = {acc.current}
           /\ Append(acc.current, x) \in Place
           /\ Lstat(Append(acc.current, x)) = {Append(acc.current, x)}
    <1>1. acc.current \in Seq(Name)
        BY DEF Progress
    <1>2. Lstat(Append(acc.current, x)) = { Append(d, x) : d \in Canonicalize(acc.current) } \cap Place
        BY <1>1, LstatOfAppend
    <1>3. Resolved(acc.current)
        BY <1>2
    <1>4. Canonicalize(acc.current) = {acc.current}
        BY <1>1, <1>3, CanonicalizeFacts
    <1> QED
        BY <1>2, <1>3, <1>4

LEMMA AlongType ==
    ASSUME NEW acc \in Progress, NEW x \in Name
    PROVE  Along(acc, x) \in Progress
    <1> DEFINE here == Append(acc.current, x)
    <1>1. /\ acc = [failed |-> acc.failed, depth |-> acc.depth, current |-> acc.current]
          /\ acc.failed \in BOOLEAN /\ acc.depth \in Nat /\ acc.current \in Seq(Name)
        BY DEF Progress
    <1>2. here \in Seq(Name)
        BY <1>1, AppendFacts
    <1>3. Canonicalize(here) # {} => (CHOOSE p \in Canonicalize(here) : TRUE) \in Seq(Name)
        <2> HIDE DEF here
        <2>1. Canonicalize(here) = {} \/ \E q \in Seq(Name) : Resolved(q) /\ Canonicalize(here) = {q}
            BY <1>2, CanonicalizeFacts
        <2> QED
            BY <2>1
    <1>4. CASE acc.failed \/ Lstat(here) = {}
        <2>1. Along(acc, x) = [acc EXCEPT !.failed = TRUE]
            BY <1>4 DEF Along
        <2> QED
            BY <1>1, <2>1 DEF Progress
    <1>5. CASE ~ acc.failed /\ Lstat(here) # {} /\ \E p \in Lstat(here) : Kind[p] # "link"
        <2>1. Along(acc, x) = [acc EXCEPT !.current = here]
            BY <1>5 DEF Along
        <2> HIDE DEF here
        <2> QED
            BY <1>1, <1>2, <2>1 DEF Progress
    <1>6. CASE ~ acc.failed /\ Lstat(here) # {} /\ ~ \E p \in Lstat(here) : Kind[p] # "link"
        <2>1. Along(acc, x) = [failed |-> FALSE, depth |-> acc.depth + 1,
                               current |-> IF Canonicalize(here) = {} THEN here
                                           ELSE CHOOSE p \in Canonicalize(here) : TRUE]
            BY <1>6 DEF Along
        <2> HIDE DEF here
        <2> QED
            BY <1>1, <1>2, <1>3, <2>1 DEF Progress
    <1> QED
        BY <1>4, <1>5, <1>6

LEMMA DepthEquation ==
    ASSUME NEW path \in Seq(Name)
    PROVE  \E after :
             /\ after[0] = Started
             /\ \A n \in 0 .. Len(path) : after[n] \in Progress
             /\ \A n \in 1 .. Len(path) : after[n] = Along(after[n - 1], path[n])
             /\ symlink_depth(path) = IF after[Len(path)].failed THEN {} ELSE {after[Len(path)].depth}
    <1> DEFINE Solves(f) ==
                 f = [n \in 0 .. Len(path) |->
                        IF n = 0 THEN [failed |-> FALSE, depth |-> 0, current |-> <<>>]
                        ELSE Along(f[n - 1], path[n])]
               after == CHOOSE f : Solves(f)
               Step == [n \in Nat |-> [v \in Progress |->
                          IF n < Len(path) THEN Along(v, path[n + 1]) ELSE v]]
    <1>1. symlink_depth(path) = IF after[Len(path)].failed THEN {} ELSE {after[Len(path)].depth}
        BY DEF symlink_depth
    <1>2. \A n \in 1 .. Len(path) : path[n] \in Name
        OBVIOUS
    <1>3. Step \in [Nat -> [Progress -> Progress]]
        <2>1. ASSUME NEW n \in Nat, NEW v \in Progress
              PROVE  (IF n < Len(path) THEN Along(v, path[n + 1]) ELSE v) \in Progress
            <3>1. n < Len(path) => n + 1 \in 1 .. Len(path)
                OBVIOUS
            <3> QED
                BY <1>2, <3>1, AlongType
        <2> QED
            BY <2>1
    <1>4. Started \in Progress
        BY DEF Started, Progress
    <1> HIDE DEF Step, Solves
    <1>5. PICK f : Iterates(f, Progress, Started, Step)
        BY <1>3, <1>4, Recursion
    <1>6. /\ f \in [Nat -> Progress]
          /\ f[0] = Started
          /\ \A n \in Nat : f[n + 1] = Step[n][f[n]]
        BY <1>5 DEF Iterates
    <1> DEFINE g == [n \in 0 .. Len(path) |-> f[n]]
    <1>7. ASSUME NEW n \in 1 .. Len(path) PROVE f[n] = Along(f[n - 1], path[n])
        <2>1. n - 1 \in Nat /\ n - 1 < Len(path) /\ (n - 1) + 1 = n
            OBVIOUS
        <2>2. f[n - 1] \in Progress /\ f[n] = Step[n - 1][f[n - 1]]
            BY <1>6, <2>1
        <2> QED
            BY <2>1, <2>2 DEF Step
    <1>8. Solves(g)
        <2>1. \A n \in 0 .. Len(path) : n # 0 => n \in 1 .. Len(path) /\ n - 1 \in 0 .. Len(path)
            OBVIOUS
        <2> QED
            BY <1>6, <1>7, <2>1 DEF Solves, Started
    <1>9. Solves(after)
        <2> HIDE DEF g
        <2> QED
            BY <1>8, Zenon
    <1> HIDE DEF after, g
    <1>10. after = [n \in 0 .. Len(path) |-> IF n = 0 THEN Started ELSE Along(after[n - 1], path[n])]
        BY <1>9, Zenon DEF Solves, Started
    <1>11. \A n \in 0 .. Len(path) :
             after[n] = IF n = 0 THEN Started ELSE Along(after[n - 1], path[n])
        BY <1>10, Zenon
    <1>12. after[0] = Started /\ \A n \in 1 .. Len(path) : after[n] = Along(after[n - 1], path[n])
        <2>1. 0 \in 0 .. Len(path) /\ \A n \in 1 .. Len(path) : n \in 0 .. Len(path) /\ n # 0
            OBVIOUS
        <2> QED
            BY <1>11, <2>1, Zenon
    <1>13. \A n \in 0 .. Len(path) : after[n] \in Progress
        <2> DEFINE T == { n \in Nat : n <= Len(path) => after[n] \in Progress }
        <2>1. 0 \in T
            BY <1>4, <1>12
        <2>2. ASSUME NEW n \in Nat, n \in T PROVE n + 1 \in T
            <3> SUFFICES ASSUME n + 1 <= Len(path) PROVE after[n + 1] \in Progress
                OBVIOUS
            <3>1. n + 1 \in 1 .. Len(path) /\ (n + 1) - 1 = n /\ n <= Len(path)
                OBVIOUS
            <3>2. after[n] \in Progress
                BY <2>2, <3>1
            <3>3. after[n + 1] = Along(after[n], path[n + 1])
                BY <1>12, <3>1
            <3> QED
                BY <1>2, <3>1, <3>2, <3>3, AlongType
        <2>3. Nat \subseteq T
            <3> HIDE DEF T
            <3> QED
                BY <2>1, <2>2, Induction
        <2> QED
            BY <2>3
    <1> QED
        BY <1>1, <1>12, <1>13

\* The first n names that are links, as has_symlink_loop sees them.
Crossed(path, n) == { i \in 1 .. n : LinksOf(path)[i] # {} }

\* What symlink_depth knows after n names, if it has not failed: it has counted
\* every link; it stands where the names lead to, or they lead nowhere; and as
\* long as there was no link, it stands where the names say.
Traced(path, n, acc) ==
    /\ Cardinality(Crossed(path, n)) <= acc.depth
    /\ \/ Resolved(acc.current) /\ Canonicalize(SubSeq(path, 1, n)) \subseteq {acc.current}
       \/ Canonicalize(acc.current) = {} /\ Canonicalize(SubSeq(path, 1, n)) = {}
    /\ acc.depth = 0 => acc.current = SubSeq(path, 1, n) /\ Resolved(acc.current)

LEMMA NameAdded ==
    ASSUME NEW path \in Seq(Name), NEW n \in Nat, n < Len(path)
    PROVE  /\ SubSeq(path, 1, n) \in Seq(Name) /\ path[n + 1] \in Name
           /\ SubSeq(path, 1, n + 1) = Append(SubSeq(path, 1, n), path[n + 1])
    <1>1. /\ SubSeq(path, 1, n) \in Seq(Name) /\ Len(SubSeq(path, 1, n)) = n
          /\ \A i \in 1 .. n : SubSeq(path, 1, n)[i] = path[i]
        OBVIOUS
    <1>2. /\ SubSeq(path, 1, n + 1) \in Seq(Name) /\ Len(SubSeq(path, 1, n + 1)) = n + 1
          /\ \A i \in 1 .. n + 1 : SubSeq(path, 1, n + 1)[i] = path[i]
        OBVIOUS
    <1>3. n + 1 \in 1 .. Len(path) /\ path[n + 1] \in Name
        OBVIOUS
    <1> DEFINE s == SubSeq(path, 1, n)
               t == SubSeq(path, 1, n + 1)
               x == path[n + 1]
               u == Append(s, x)
    <1> HIDE DEF s, t, x
    <1>4. /\ u \in Seq(Name) /\ Len(u) = n + 1
          /\ \A i \in 1 .. n : u[i] = s[i]
          /\ u[n + 1] = x
        BY <1>1, <1>3 DEF s, x
    <1> HIDE DEF u
    <1>5. \A i \in 1 .. n + 1 : u[i] = t[i]
        <2> TAKE i \in 1 .. n + 1
        <2>1. CASE i \in 1 .. n
            BY <1>1, <1>2, <1>4, <2>1 DEF s, t
        <2>2. CASE i = n + 1
            BY <1>2, <1>4, <2>2 DEF t, x
        <2> QED
            BY <2>1, <2>2
    <1>6. u = t
        BY <1>2, <1>4, <1>5 DEF t
    <1> QED
        BY <1>1, <1>3, <1>6 DEF s, t, u, x

LEMMA CrossedOneMore ==
    ASSUME NEW path \in Seq(Name), NEW n \in Nat
    PROVE  /\ Cardinality(Crossed(path, n)) \in Nat
           /\ Crossed(path, 0) = {} /\ Cardinality(Crossed(path, 0)) = 0
           /\ LinksOf(path)[n + 1] = {} => Crossed(path, n + 1) = Crossed(path, n)
           /\ Cardinality(Crossed(path, n + 1)) <= Cardinality(Crossed(path, n)) + 1
    <1>1. IsFiniteSet(Crossed(path, n)) /\ Cardinality(Crossed(path, n)) \in Nat
        <2>1. IsFiniteSet(1 .. n) /\ Crossed(path, n) \subseteq 1 .. n
            BY FS_Interval DEF Crossed
        <2> QED
            BY <2>1, FS_Subset, FS_CardinalityType
    <1>2. Crossed(path, 0) = {} /\ Cardinality(Crossed(path, 0)) = 0
        <2>1. Crossed(path, 0) = {}
            BY DEF Crossed
        <2> QED
            BY <2>1, FS_EmptySet
    <1>3. \A i : i \in 1 .. n + 1 <=> i \in 1 .. n \/ i = n + 1
        OBVIOUS
    <1>4. CASE LinksOf(path)[n + 1] = {}
        <2>1. Crossed(path, n + 1) = Crossed(path, n)
            BY <1>3, <1>4 DEF Crossed
        <2> QED
            BY <1>1, <1>2, <2>1
    <1>5. CASE LinksOf(path)[n + 1] # {}
        <2>1. Crossed(path, n + 1) = Crossed(path, n) \cup {n + 1}
            BY <1>3, <1>5 DEF Crossed
        <2>2. Cardinality(Crossed(path, n) \cup {n + 1}) <= Cardinality(Crossed(path, n)) + 1
            <3>1. Cardinality(Crossed(path, n) \cup {n + 1})
                    = IF n + 1 \in Crossed(path, n) THEN Cardinality(Crossed(path, n))
                      ELSE Cardinality(Crossed(path, n)) + 1
                BY <1>1, FS_AddElement
            <3> QED
                BY <1>1, <3>1
        <2> QED
            BY <1>1, <1>2, <1>5, <2>1, <2>2
    <1> QED
        BY <1>4, <1>5

LEMMA AlongTraced ==
    ASSUME NEW path \in Seq(Name), NEW n \in Nat, n < Len(path), NEW acc \in Progress,
           acc.failed \/ Traced(path, n, acc)
    PROVE  \/ Along(acc, path[n + 1]).failed
           \/ Traced(path, n + 1, Along(acc, path[n + 1]))
    <1> DEFINE x == path[n + 1]
               so == SubSeq(path, 1, n)
               far == SubSeq(path, 1, n + 1)
               here == Append(acc.current, x)
               next == Along(acc, x)
    <1>1. so \in Seq(Name) /\ x \in Name /\ far = Append(so, x) /\ far \in Seq(Name)
        BY NameAdded, AppendFacts
    <1>2. /\ acc = [failed |-> acc.failed, depth |-> acc.depth, current |-> acc.current]
          /\ acc.failed \in BOOLEAN /\ acc.depth \in Nat /\ acc.current \in Seq(Name)
        BY DEF Progress
    <1>3. CASE acc.failed \/ Lstat(here) = {}
        <2>1. next = [acc EXCEPT !.failed = TRUE]
            BY <1>3 DEF Along
        <2> QED
            BY <1>2, <2>1
    <1>4. CASE ~ acc.failed /\ Lstat(here) # {}
        <2>1. Traced(path, n, acc)
            BY <1>4
        <2>2. Canonicalize(acc.current) # {} => Resolved(acc.current)
            BY <2>1 DEF Traced
        <2>3. /\ Resolved(acc.current) /\ Canonicalize(acc.current) = {acc.current}
              /\ here \in Place /\ Lstat(here) = {here}
            <3> HIDE DEF x
            <3> QED
                BY <1>1, <1>4, <2>2, NextName
        <2>4. here \in Seq(Name)
            BY <1>1, <1>2, AppendFacts
        <2>5. Canonicalize(so) \subseteq {acc.current}
            BY <2>1, <2>3 DEF Traced
        <2>6. Canonicalize(far) \subseteq Canonicalize(here)
            <3> HIDE DEF x, so, far
            <3>1. CASE Canonicalize(so) = {}
                <4>1. Canonicalize(Append(so, x)) = {}
                    BY <1>1, <3>1, CanonicalizeFacts
                <4> QED
                    BY <1>1, <4>1
            <3>2. CASE Canonicalize(so) = {acc.current}
                <4>1. Canonicalize(Append(so, x)) \subseteq Canonicalize(Append(acc.current, x))
                    BY <1>1, <1>2, <3>2, CanonicalizeFacts
                <4> QED
                    BY <1>1, <4>1
            <3> QED
                BY <2>5, <3>1, <3>2
        <2>7. Lstat(far) \subseteq {here}
            <3> HIDE DEF x, so, far
            <3>1. Lstat(far) = { Append(d, x) : d \in Canonicalize(so) } \cap Place
                BY <1>1, LstatOfAppend
            <3> QED
                BY <2>5, <3>1
        <2>8. LinksOf(path)[n + 1] = { p \in Lstat(far) : Kind[p] = "link" }
            <3>1. n + 1 \in 1 .. Len(path)
                OBVIOUS
            <3> QED
                BY <3>1 DEF LinksOf
        <2>9. /\ Cardinality(Crossed(path, n)) \in Nat /\ Cardinality(Crossed(path, n + 1)) \in Nat
              /\ LinksOf(path)[n + 1] = {} => Crossed(path, n + 1) = Crossed(path, n)
              /\ Cardinality(Crossed(path, n + 1)) <= Cardinality(Crossed(path, n)) + 1
            <3>1. n + 1 \in Nat
                OBVIOUS
            <3> QED
                BY <3>1, CrossedOneMore
        <2>10. Cardinality(Crossed(path, n)) <= acc.depth
            BY <2>1 DEF Traced
        <2>11. CASE Kind[here] # "link"
            <3>1. next = [acc EXCEPT !.current = here]
                BY <1>4, <2>3, <2>11 DEF Along
            <3>2. next.depth = acc.depth /\ next.current = here
                <4> HIDE DEF next, here
                <4> QED
                    BY <1>2, <3>1
            <3>3. LinksOf(path)[n + 1] = {}
                BY <2>7, <2>8, <2>11
            <3>4. Resolved(here)
                <4> HIDE DEF x
                <4> QED
                    BY <1>1, <2>3, <2>11, ResolvedFacts
            <3>5. Canonicalize(here) = {here}
                BY <2>4, <3>4, CanonicalizeFacts
            <3>6. next.depth = 0 => next.current = far /\ Resolved(next.current)
                <4>1. acc.depth = 0 => acc.current = so
                    BY <2>1 DEF Traced
                <4> HIDE DEF next, so, far, x
                <4> QED
                    BY <1>1, <3>2, <3>4, <4>1
            <3>7. Cardinality(Crossed(path, n + 1)) <= next.depth
                <4> HIDE DEF next
                <4> QED
                    BY <2>9, <2>10, <3>2, <3>3
            <3>8. Traced(path, n + 1, next)
                <4> HIDE DEF next
                <4> QED
                    BY <2>6, <3>2, <3>4, <3>5, <3>6, <3>7 DEF Traced
            <3> QED
                BY <3>8
        <2>12. CASE Kind[here] = "link"
            <3>1. next = [failed |-> FALSE, depth |-> acc.depth + 1,
                          current |-> IF Canonicalize(here) = {} THEN here
                                      ELSE CHOOSE p \in Canonicalize(here) : TRUE]
                BY <1>4, <2>3, <2>12 DEF Along
            <3>2. /\ next.depth = acc.depth + 1
                  /\ next.current = IF Canonicalize(here) = {} THEN here
                                    ELSE CHOOSE p \in Canonicalize(here) : TRUE
                <4> HIDE DEF next, here
                <4> QED
                    BY <3>1
            <3>3. Cardinality(Crossed(path, n + 1)) <= next.depth /\ next.depth # 0
                <4> HIDE DEF next
                <4> QED
                    BY <1>2, <2>9, <2>10, <3>2
            <3>4. CASE Canonicalize(here) = {}
                <4>1. next.current = here /\ Canonicalize(far) = {}
                    BY <2>6, <3>2, <3>4
                <4>2. Traced(path, n + 1, next)
                    <5> HIDE DEF next
                    <5> QED
                        BY <3>3, <3>4, <4>1 DEF Traced
                <4> QED
                    BY <4>2
            <3>5. CASE Canonicalize(here) # {}
                <4>1. PICK q \in Seq(Name) : Resolved(q) /\ Canonicalize(here) = {q}
                    BY <2>4, <3>5, CanonicalizeFacts
                <4>2. next.current = q
                    <5> HIDE DEF next, here
                    <5> QED
                        BY <3>2, <4>1
                <4>3. Traced(path, n + 1, next)
                    <5> HIDE DEF next
                    <5> QED
                        BY <2>6, <3>3, <4>1, <4>2 DEF Traced
                <4> QED
                    BY <4>3
            <3> QED
                BY <3>4, <3>5
        <2> QED
            BY <2>11, <2>12
    <1> QED
        BY <1>2, <1>3, <1>4

\* What the answer of symlink_depth means for the whole path.
LEMMA DepthCounts ==
    ASSUME NEW path \in Seq(Name), NEW d \in symlink_depth(path)
    PROVE  /\ d \in Nat /\ symlink_depth(path) = {d}
           /\ Cardinality(Crossed(path, Len(path))) <= d
           /\ d = 0 => Resolved(path)
    <1>1. PICK after :
             /\ after[0] = Started
             /\ \A n \in 0 .. Len(path) : after[n] \in Progress
             /\ \A n \in 1 .. Len(path) : after[n] = Along(after[n - 1], path[n])
             /\ symlink_depth(path) = IF after[Len(path)].failed THEN {} ELSE {after[Len(path)].depth}
        BY DepthEquation
    <1> DEFINE Good(n) == after[n].failed \/ Traced(path, n, after[n])
               T == { n \in Nat : n <= Len(path) => Good(n) }
    <1>2. 0 \in T
        <2>1. after[0].depth = 0 /\ after[0].current = <<>>
            BY <1>1 DEF Started
        <2>2. SubSeq(path, 1, 0) = <<>>
            OBVIOUS
        <2>3. Resolved(<<>>)
            BY DEF Resolved, Stops
        <2>4. Canonicalize(<<>>) = {<<>>}
            <3>1. <<>> \in Seq(Name)
                OBVIOUS
            <3> DEFINE top == <<>>
            <3>2. top \in Seq(Name) /\ Resolved(top)
                BY <2>3, <3>1
            <3> HIDE DEF top
            <3>3. Canonicalize(top) = {top}
                BY <3>2, CanonicalizeFacts
            <3> QED
                BY <3>3 DEF top
        <2>5. Cardinality(Crossed(path, 0)) = 0
            BY CrossedOneMore
        <2>6. Traced(path, 0, after[0])
            <3>1. Resolved(after[0].current) /\ Canonicalize(SubSeq(path, 1, 0)) \subseteq {after[0].current}
                BY <2>1, <2>2, <2>3, <2>4
            <3>2. after[0].current = SubSeq(path, 1, 0) /\ Cardinality(Crossed(path, 0)) <= after[0].depth
                BY <2>1, <2>2, <2>5
            <3> QED
                BY <3>1, <3>2 DEF Traced
        <2> QED
            BY <2>6
    <1>3. ASSUME NEW n \in Nat, n \in T PROVE n + 1 \in T
        <2> SUFFICES ASSUME n + 1 <= Len(path) PROVE Good(n + 1)
            OBVIOUS
        <2>1. /\ n < Len(path) /\ n <= Len(path) /\ n \in 0 .. Len(path)
              /\ n + 1 \in 1 .. Len(path) /\ (n + 1) - 1 = n
            OBVIOUS
        <2>2. Good(n) /\ after[n] \in Progress
            BY <1>1, <1>3, <2>1
        <2>3. after[n + 1] = Along(after[n], path[n + 1])
            BY <1>1, <2>1
        <2>4. \/ Along(after[n], path[n + 1]).failed
              \/ Traced(path, n + 1, Along(after[n], path[n + 1]))
            BY <2>1, <2>2, AlongTraced
        <2> QED
            BY <2>3, <2>4
    <1>4. Nat \subseteq T
        <2> HIDE DEF T
        <2> QED
            BY <1>2, <1>3, Induction
    <1>5. Len(path) \in Nat /\ Len(path) <= Len(path) /\ Len(path) \in 0 .. Len(path)
        OBVIOUS
    <1>6. Good(Len(path)) /\ after[Len(path)] \in Progress
        <2> HIDE DEF Good
        <2> QED
            BY <1>1, <1>4, <1>5
    <1>7. ~ after[Len(path)].failed /\ d = after[Len(path)].depth /\ symlink_depth(path) = {d}
        BY <1>1
    <1>8. d \in Nat
        BY <1>6, <1>7 DEF Progress
    <1>9. SubSeq(path, 1, Len(path)) = path
        OBVIOUS
    <1> QED
        BY <1>6, <1>7, <1>8, <1>9 DEF Traced

\* Whatever links the file system has, a path that code_entry_allowed lets in leads
\* into the root, over no more links than allowed, and over none twice.
LEMMA PolicyKeepsInside ==
    ASSUME NEW path \in Seq(Name), IsPrefix(RootPath, path), code_entry_allowed(path) = "yes"
    PROVE  LeadsIntoRoot(path)
    <1>1. symlink_depth(path) # {}
        BY DEF code_entry_allowed
    <1> DEFINE d == CHOOSE k \in symlink_depth(path) : TRUE
    <1>2. d \in symlink_depth(path)
        BY <1>1
    <1>3. IF ~ FollowSymlinks
          THEN d = 0
          ELSE /\ d <= MaxSymlinkDepth
               /\ d > 0 => ~ has_symlink_loop(path)
               /\ d # 0 => \E p \in Canonicalize(path), r \in Canonicalize(RootPath) : IsPrefix(r, p)
        <2>1. d \in Nat /\ MaxSymlinkDepth \in Nat
            BY <1>2, DepthCounts, SymlinkAssumption
        <2>2. FollowSymlinks \in BOOLEAN
            BY SymlinkAssumption
        <2> QED
            BY <1>1, <2>1, <2>2 DEF code_entry_allowed
    <1> HIDE DEF d
    <1>4. d \in Nat /\ Cardinality(Crossed(path, Len(path))) <= d /\ (d = 0 => Resolved(path))
        BY <1>2, DepthCounts
    <1>5. /\ IsFiniteSet(Crossed(path, Len(path))) /\ Len(path) \in Nat
          /\ Cardinality(Crossed(path, Len(path))) \in Nat
        <2>1. Len(path) \in Nat
            OBVIOUS
        <2>2. IsFiniteSet(1 .. Len(path))
            BY <2>1, FS_Interval
        <2>3. Crossed(path, Len(path)) \subseteq 1 .. Len(path)
            BY DEF Crossed
        <2> QED
            BY <2>1, <2>2, <2>3, FS_Subset, FS_CardinalityType
    <1>6. Cardinality(Crossed(path, Len(path))) <= MaxSymlinkDepth
        BY <1>3, <1>4, <1>5, SymlinkAssumption
    <1>7. \A i, j \in 1 .. Len(path) : i # j => LinksOf(path)[i] \cap LinksOf(path)[j] = {}
        <2>1. CASE d = 0
            <3>1. Cardinality(Crossed(path, Len(path))) = 0
                BY <1>4, <1>5, <2>1
            <3>2. Crossed(path, Len(path)) = {}
                BY <1>5, <3>1, FS_EmptySet
            <3> QED
                BY <3>2 DEF Crossed
        <2>2. CASE d # 0
            <3>1. ~ has_symlink_loop(path)
                BY <1>3, <1>4, <2>2
            <3>2. \A i, j \in 1 .. Len(path) : i < j => LinksOf(path)[i] \cap LinksOf(path)[j] = {}
                BY <3>1 DEF has_symlink_loop
            <3>3. \A i, j \in 1 .. Len(path) : i # j => i < j \/ j < i
                OBVIOUS
            <3>4. \A i, j \in 1 .. Len(path) :
                    LinksOf(path)[i] \cap LinksOf(path)[j] = LinksOf(path)[j] \cap LinksOf(path)[i]
                OBVIOUS
            <3> QED
                BY <3>2, <3>3, <3>4
        <2> QED
            BY <2>1, <2>2
    <1>8. \E p \in Canonicalize(path), r \in Canonicalize(RootPath) : p \in Within(r)
        <2>1. \E p \in Canonicalize(path), r \in Canonicalize(RootPath) : IsPrefix(r, p)
            <3>1. CASE d # 0
                BY <1>3, <3>1
            <3>2. CASE d = 0
                <4>1. Resolved(path) /\ RootPath \in Seq(Name)
                    BY <1>4, <3>2, SymlinkAssumption
                <4>2. Resolved(RootPath)
                    BY <4>1, ResolvedFacts
                <4>3. Canonicalize(path) = {path} /\ Canonicalize(RootPath) = {RootPath}
                    BY <4>1, <4>2, CanonicalizeFacts
                <4> QED
                    BY <4>3
            <3> QED
                BY <3>1, <3>2
        <2>2. Canonicalize(path) \subseteq Place
            BY CanonicalizeFacts, ResolvedFacts
        <2> QED
            BY <2>1, <2>2 DEF Within
    <1> QED
        BY <1>6, <1>7, <1>8 DEF LeadsIntoRoot, Crossed

-----------------------------------------------------------------------------
(* What the walk lets in.                                                  *)

\* The entries that the filter may let in.
LetIn == { e \in Entry : "yes" \in Allowed[e] }

\* Whatever is entered, held back, looked at or yielded was let in by the filter.
OnlyLetIn ==
    /\ opened \subseteq LetIn \cup {Root}
    /\ buffered \cup current \subseteq LetIn
    /\ \A m \in given : m.kind = "file" => m.entry \in LetIn

LEMMA NextLetIn == IInv /\ OnlyLetIn /\ [Next]_vars => OnlyLetIn'
    <1> SUFFICES ASSUME IInv, OnlyLetIn, [Next]_vars PROVE OnlyLetIn'
        OBVIOUS
    <1>t. TypeOK
        BY DEF IInv
    <1>1. CASE NextFused \/ NextInner \/ FilterOut \/ Stop
        BY <1>1, Zenon DEF NextFused, NextInner, FilterOut, Stop, YieldNone, vars, OnlyLetIn
    <1>2. CASE NextBuffered
        BY <1>2 DEF NextBuffered, OnlyLetIn
    <1>3. CASE InnerYields
        <2>1. PICK e \in ahead :
                 /\ "yes" \in Allowed[e]
                 /\ IF slot = {}
                    THEN current' = {e} /\ UNCHANGED <<buffered, given>>
                    ELSE /\ buffered' = {e} /\ Yield(Head(Taken(slot)))
                         /\ UNCHANGED current
            BY <1>3 DEF InnerYields
        <2>2. opened' = opened
            BY <1>3 DEF InnerYields
        <2>3. e \in LetIn
            BY <1>t, <2>1 DEF TypeOK, LetIn
        <2>4. CASE slot = {}
            BY <2>1, <2>2, <2>3, <2>4 DEF OnlyLetIn
        <2>5. CASE slot # {}
            <3>1. PICK s \in Entry : Head(Taken(slot)) = Item("filterError", s)
                BY <1>t, <2>5, TakenSlot DEF TypeOK
            <3>2. given' = given \cup {Item("filterError", s)}
                BY <2>1, <2>5, <3>1 DEF Yield
            <3>3. Item("filterError", s).kind # "file"
                BY DEF Item
            <3> QED
                BY <2>1, <2>2, <2>3, <2>5, <3>2, <3>3 DEF OnlyLetIn
        <2> QED
            BY <2>4, <2>5
    <1>4. CASE InnerEnds
        <2>1. CASE slot = {}
            BY <1>4, <2>1 DEF InnerEnds, YieldNone, OnlyLetIn
        <2>2. CASE slot # {}
            <3>1. PICK s \in Entry : Head(Taken(slot)) = Item("filterError", s)
                BY <1>t, <2>2, TakenSlot DEF TypeOK
            <3>2. given' = given \cup {Item("filterError", s)} /\ UNCHANGED <<opened, buffered, current>>
                BY <1>4, <2>2, <3>1 DEF InnerEnds, Yield
            <3>3. Item("filterError", s).kind # "file"
                BY DEF Item
            <3> QED
                BY <3>2, <3>3 DEF OnlyLetIn
        <2> QED
            BY <2>1, <2>2
    <1>5. CASE Map
        <2>1. PICK e \in current : \E v \in Visited[e] : MapAs(e, v)
            BY <1>5 DEF Map
        <2>2. e \in LetIn
            BY <2>1 DEF OnlyLetIn
        <2>3. opened' \subseteq opened \cup {e} /\ buffered' = buffered /\ current' = {}
            BY <2>1 DEF MapAs
        <2>4. given' \subseteq given \cup {Item("file", e), Item("error", e)}
            BY <2>1 DEF MapAs, Yield
        <2>5. Item("file", e).entry = e /\ Item("error", e).kind # "file"
            BY DEF Item
        <2> QED
            BY <2>2, <2>3, <2>4, <2>5 DEF OnlyLetIn
    <1>6. CASE UNCHANGED vars
        BY <1>6 DEF vars, OnlyLetIn
    <1> QED
        BY <1>1, <1>2, <1>3, <1>4, <1>5, <1>6 DEF Next

\* No file is yielded and no directory entered but by a path that leads into the
\* root, over at most MaxSymlinkDepth links and none of them twice: for any file
\* system, any links in it and any root, whatever happens to the watched file.
THEOREM WalkStaysInRoot == FileSpec => []StaysInRoot
    <1>1. Init => IInv /\ OnlyLetIn
        BY InitInv DEF Init, OnlyLetIn
    <1>2. IInv /\ OnlyLetIn /\ [Next]_vars => (IInv /\ OnlyLetIn)'
        BY NextInv, NextLetIn
    <1>3. Spec => [](IInv /\ OnlyLetIn)
        BY <1>1, <1>2, PTL DEF Spec
    <1>4. LetIn \subseteq Inward
        <2>1. ASSUME NEW e \in Entry, "yes" \in Allowed[e] PROVE LeadsIntoRoot(PathOf[e])
            <3>1. code_entry_allowed(PathOf[e]) = "yes" /\ IsPrefix(RootPath, PathOf[e])
                BY <2>1, FilterAssumption
            <3>2. PathOf[e] \in Seq(Name)
                BY CodeFileAssumption
            <3> QED
                BY <3>1, <3>2, PolicyKeepsInside
        <2> QED
            BY <2>1 DEF LetIn, Inward
    <1>5. OnlyLetIn => StaysInRoot
        BY <1>4 DEF OnlyLetIn, StaysInRoot
    <1> QED
        BY <1>3, <1>5, FileImplementsIter, PTL
=============================================================================
