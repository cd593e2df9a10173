----------------------------- MODULE WalkerProofs -----------------------------
(***************************************************************************)
(* Theorems about Walker::walk with one thread, for every tree, every file *)
(* and all changes that others make to it.                                 *)
(***************************************************************************)
EXTENDS Walker, WalkTreeProofs, LiveFileProofs, SequenceTheorems, TLAPS

\* Every variable of the probe has its type; a file, once there, stays in files.
ProbeTypeOK ==
    /\ LiveTypeOK
    /\ phase \in {"unmeasured", "measured", "scanning", "done"}
    /\ measured \in 0 .. Len(files)
    /\ opened \in 0 .. Len(files)
    /\ meta \in Object
    /\ scanned \in Nat

\* What is set when.
Progress ==
    /\ phase # "done" => verdict = "none"
    /\ phase \in {"unmeasured", "measured"} => opened = 0 /\ scanned = 0
    /\ phase = "unmeasured" => measured = 0
    /\ phase = "scanning" => opened # 0 /\ files[opened].ino = meta.ino

\* What was measured has moved on at most, and so will not come back once it differs.
Follows == measured # 0 => MovedOn(meta, files[measured])

\* The bytes read of an unchanged file are bytes of it, and no NUL is among them.
CleanSoFar ==
    opened # 0 /\ opened = measured /\ files[opened] = meta /\ phase = "scanning" =>
        /\ scanned <= Len(meta.bytes)
        /\ \A i \in 1 .. scanned : meta.bytes[i] # NUL

PInv ==
    /\ ProbeTypeOK /\ Progress /\ Follows /\ CleanSoFar
    /\ verdict \in {"text", "binary"} => opened # 0 /\ files[opened].ino = meta.ino
    /\ VerdictFitsContent

-----------------------------------------------------------------------------

LEMMA ProbeInitInv == LiveInit /\ ProbeInit => PInv
    <1> SUFFICES ASSUME LiveInit, ProbeInit PROVE PInv
        OBVIOUS
    <1>1. NoMeta \in Object
        BY FirstInodeType, LiveFileAssumption DEF NoMeta, NewFile, Object
    <1>2. ProbeTypeOK
        BY <1>1, LiveInitType DEF ProbeTypeOK, LiveTypeOK, ProbeInit
    <1>3. Progress /\ Follows /\ CleanSoFar /\ VerdictFitsContent
        BY DEF ProbeInit, Progress, Follows, CleanSoFar, VerdictFitsContent
    <1> QED
        BY <1>2, <1>3 DEF PInv, ProbeInit

LEMMA MeasureInv == PInv /\ Measure => PInv'
    <1> SUFFICES ASSUME PInv, Measure PROVE PInv'
        OBVIOUS
    <1>1. /\ ProbeTypeOK /\ Progress /\ phase = "unmeasured" /\ opened = 0 /\ scanned = 0
          /\ verdict = "none" /\ measured = 0
        BY DEF PInv, Progress, Measure
    <1>2. UNCHANGED <<opened, scanned, files, named, changes>>
        BY DEF Measure, liveVars
    <1>3. CASE named = 0
        <2>1. /\ phase' = "done" /\ verdict' = "gone" /\ UNCHANGED <<measured, meta>>
            BY <1>3 DEF Measure, Decide
        <2> QED
            BY <1>1, <1>2, <2>1
            DEF PInv, ProbeTypeOK, LiveTypeOK, Progress, Follows, CleanSoFar, VerdictFitsContent
    <1>4. CASE named # 0
        <2>1. phase' = "measured" /\ measured' = named /\ meta' = files[named] /\ verdict' = "none"
            BY <1>1, <1>4 DEF Measure
        <2>2. named \in 1 .. Len(files) /\ files[named] \in Object
            BY <1>1, <1>4 DEF ProbeTypeOK, LiveTypeOK, Progress
        <2> QED
            BY <1>1, <1>2, <2>1, <2>2
            DEF PInv, ProbeTypeOK, LiveTypeOK, Progress, Follows, CleanSoFar, VerdictFitsContent, MovedOn
    <1> QED
        BY <1>3, <1>4

LEMMA OpenProbeInv == PInv /\ OpenProbe => PInv'
    <1> SUFFICES ASSUME PInv, OpenProbe PROVE PInv'
        OBVIOUS
    <1>1. /\ ProbeTypeOK /\ Progress /\ Follows /\ phase = "measured" /\ opened = 0
          /\ scanned = 0 /\ verdict = "none"
        BY DEF PInv, Progress, OpenProbe
    <1>2. UNCHANGED <<measured, meta, scanned, files, named, changes>>
        BY DEF OpenProbe, liveVars
    <1>3. opened' \in 0 .. Len(files)
        BY <1>1 DEF OpenProbe, ProbeTypeOK, LiveTypeOK
    <1>4. CASE phase' = "done" /\ verdict' = "fails"
        BY <1>1, <1>2, <1>3, <1>4
        DEF PInv, ProbeTypeOK, LiveTypeOK, Progress, Follows, CleanSoFar, VerdictFitsContent
    <1>5. CASE /\ phase' = "scanning" /\ verdict' = verdict /\ opened' = named
               /\ named # 0 /\ files[named].ino = meta.ino
        BY <1>1, <1>2, <1>3, <1>5
        DEF PInv, ProbeTypeOK, LiveTypeOK, Progress, Follows, CleanSoFar, VerdictFitsContent
    <1> QED
        BY <1>4, <1>5 DEF OpenProbe, Decide

LEMMA SampleInv == PInv /\ Sample => PInv'
    <1> SUFFICES ASSUME PInv, Sample PROVE PInv'
        OBVIOUS
    <1>1. /\ ProbeTypeOK /\ Progress /\ Follows /\ CleanSoFar /\ phase = "scanning"
          /\ opened # 0 /\ files[opened].ino = meta.ino /\ scanned \in Nat
        BY DEF PInv, Progress, ProbeTypeOK, Sample
    <1>2. UNCHANGED <<measured, meta, opened, files, named, changes>>
        BY DEF Sample, liveVars
    <1>3. PrefixScan \in Nat \ {0} /\ SampleSize \in Nat \ {0}
        BY ProbeAssumption
    <1> DEFINE bytes == files[opened].bytes
               unchanged == opened = measured /\ files[opened] = meta
    <1>4. bytes \in Seq(Byte) /\ Size(opened) = Len(bytes) /\ Len(bytes) \in Nat
        <2>1. files[opened] \in Object
            BY <1>1 DEF ProbeTypeOK, LiveTypeOK
        <2>2. files[opened].bytes \in Seq(Byte)
            BY <2>1 DEF Object
        <2> QED
            BY <2>2 DEF Size
    <1>5. unchanged => /\ scanned <= Len(bytes) /\ meta.bytes = bytes
                       /\ \A i \in 1 .. scanned : bytes[i] # NUL
        BY <1>1 DEF CleanSoFar
    <1>6. ASSUME phase' \in {"scanning", "done"}, scanned' \in Nat,
                 phase' = "scanning" => verdict' = "none",
                 phase' = "scanning" /\ unchanged =>
                     scanned' <= Len(bytes) /\ \A i \in 1 .. scanned' : bytes[i] # NUL,
                 unchanged /\ verdict' = "text" => ~HasNUL(bytes, PrefixScan),
                 unchanged /\ verdict' = "binary" => HasNUL(bytes, PrefixScan + SampleSize - 1)
          PROVE  PInv'
        <2>1. ProbeTypeOK'
            BY <1>1, <1>2, <1>6 DEF ProbeTypeOK, LiveTypeOK
        <2>2. Progress' /\ Follows'
            BY <1>1, <1>2, <1>6 DEF Progress, Follows
        <2>3. CleanSoFar'
            BY <1>2, <1>5, <1>6 DEF CleanSoFar
        <2>4. VerdictFitsContent'
            BY <1>2, <1>5, <1>6 DEF VerdictFitsContent
        <2> QED
            BY <1>1, <1>2, <2>1, <2>2, <2>3, <2>4 DEF PInv
    <1>7. CASE /\ scanned >= PrefixScan \/ Len(bytes) - scanned <= 0
               /\ phase' = "done" /\ verdict' = "text" /\ scanned' = scanned
        <2>1. unchanged => ~HasNUL(bytes, PrefixScan)
            BY <1>1, <1>3, <1>4, <1>5, <1>7 DEF HasNUL
        <2> QED
            BY <1>1, <1>6, <1>7, <2>1
    <1>8. CASE phase' = "done" /\ verdict' = "fails" /\ scanned' = scanned
        BY <1>1, <1>6, <1>8
    <1>9. ASSUME NEW n \in 1 .. SampleSize, scanned < PrefixScan, n <= Len(bytes) - scanned,
                 scanned' = scanned + n,
                 IF \E i \in scanned + 1 .. scanned + n : bytes[i] = NUL
                 THEN phase' = "done" /\ verdict' = "binary"
                 ELSE UNCHANGED <<phase, verdict>>
          PROVE  PInv'
        <2>1. CASE \E i \in scanned + 1 .. scanned + n : bytes[i] = NUL
            <3>1. PICK i \in scanned + 1 .. scanned + n : bytes[i] = NUL
                BY <2>1
            <3>2. i \in 1 .. PrefixScan + SampleSize - 1 /\ i <= Len(bytes)
                BY <1>1, <1>3, <1>4, <1>9, <3>1
            <3>3. HasNUL(bytes, PrefixScan + SampleSize - 1)
                BY <3>1, <3>2 DEF HasNUL
            <3> QED
                BY <1>1, <1>3, <1>6, <1>9, <2>1, <3>3
        <2>2. CASE \A i \in scanned + 1 .. scanned + n : bytes[i] # NUL
            <3>1. phase' = "scanning" /\ verdict' = "none"
                BY <1>1, <1>9, <2>2 DEF Progress
            <3>2. scanned' \in Nat /\ scanned' <= Len(bytes)
                BY <1>1, <1>3, <1>4, <1>9
            <3>3. unchanged => \A i \in 1 .. scanned' : bytes[i] # NUL
                <4> SUFFICES ASSUME unchanged, NEW i \in 1 .. scanned' PROVE bytes[i] # NUL
                    OBVIOUS
                <4>1. i \in 1 .. scanned \/ i \in scanned + 1 .. scanned + n
                    BY <1>1, <1>3, <1>9
                <4> QED
                    BY <1>5, <2>2, <4>1
            <3> QED
                BY <1>6, <3>1, <3>2, <3>3
        <2> QED
            BY <2>1, <2>2
    <1> QED
        BY <1>4, <1>7, <1>8, <1>9 DEF Sample, Decide

\* Others append, cut off, replace or remove: what was measured stays measured,
\* and a file that differs from it now differs from it for good.
LEMMA ChangesInv == PInv /\ Change(Held) /\ UNCHANGED probeVars => PInv'
    <1> SUFFICES ASSUME PInv, Change(Held), UNCHANGED probeVars PROVE PInv'
        OBVIOUS
    <1>1. ProbeTypeOK /\ Progress /\ Follows /\ CleanSoFar /\ VerdictFitsContent /\ LiveTypeOK
        BY DEF PInv, ProbeTypeOK
    <1>2. UNCHANGED <<phase, measured, meta, opened, scanned, verdict>>
        BY DEF probeVars
    <1>3. /\ LiveTypeOK'
          /\ Len(files) \in Nat /\ Len(files') \in Nat /\ Len(files) <= Len(files')
          /\ \A f \in 1 .. Len(files) :
               files[f] \in Object /\ files'[f] \in Object /\ MovedOn(files[f], files'[f])
        BY <1>1, ChangeMovesOn
    <1>4. ProbeTypeOK'
        BY <1>1, <1>2, <1>3 DEF ProbeTypeOK
    <1>5. opened # 0 => files'[opened].ino = files[opened].ino
        BY <1>1, <1>3 DEF ProbeTypeOK, MovedOn
    <1>6. measured # 0 => /\ MovedOn(meta, files'[measured])
                          /\ files'[measured] = meta => files[measured] = meta
        <2> SUFFICES ASSUME measured # 0
                     PROVE  /\ MovedOn(meta, files'[measured])
                            /\ files'[measured] = meta => files[measured] = meta
            OBVIOUS
        <2>1. /\ meta \in Object /\ files[measured] \in Object /\ files'[measured] \in Object
              /\ MovedOn(files[measured], files'[measured])
            BY <1>1, <1>3 DEF ProbeTypeOK
        <2>2. MovedOn(meta, files[measured])
            BY <1>1 DEF Follows
        <2> QED
            BY <2>1, <2>2, MovesOnFurther
    <1>7. Progress' /\ Follows'
        BY <1>1, <1>2, <1>5, <1>6 DEF Progress, Follows
    <1>8. CleanSoFar' /\ VerdictFitsContent'
        BY <1>1, <1>2, <1>6 DEF CleanSoFar, VerdictFitsContent
    <1>9. (verdict \in {"text", "binary"} => opened # 0 /\ files[opened].ino = meta.ino)'
        BY <1>2, <1>5 DEF PInv
    <1> QED
        BY <1>4, <1>7, <1>8, <1>9 DEF PInv

LEMMA UntouchedInv == PInv /\ UNCHANGED <<liveVars, probeVars>> => PInv'
    BY DEF PInv, ProbeTypeOK, LiveTypeOK, Progress, Follows, CleanSoFar, VerdictFitsContent,
           liveVars, probeVars

LEMMA WalkerStepInv == PInv /\ [WalkerNext]_allVars => PInv'
    <1> SUFFICES ASSUME PInv, [WalkerNext]_allVars PROVE PInv'
        OBVIOUS
    <1>1. CASE Probe
        BY <1>1, MeasureInv, OpenProbeInv, SampleInv DEF Probe, ProbeStep
    <1>2. CASE VisitEntry
        BY <1>2, UntouchedInv DEF VisitEntry
    <1>3. CASE Deliver
        BY <1>3, UntouchedInv DEF Deliver
    <1>4. CASE CallerStep
        <2>1. UNCHANGED <<liveVars, probeVars>>
            BY <1>4 DEF CallerStep, GiveNext, StreamEnds, Collect, WalkReturns,
                        GiveBuffered, BufferEnds
        <2> QED
            BY <2>1, UntouchedInv
    <1>5. CASE DropStream \/ DropBuffer
        BY <1>5, UntouchedInv DEF DropStream, DropBuffer
    <1>6. CASE Others
        BY <1>6, ChangesInv DEF Others
    <1>7. CASE UNCHANGED allVars
        BY <1>7, UntouchedInv DEF allVars
    <1> QED
        BY <1>1, <1>2, <1>3, <1>4, <1>5, <1>6, <1>7 DEF WalkerNext, ThreadStep, AllDone

LEMMA WalkerPInv == WalkerSpec => []PInv
    <1>1. WalkerInit => PInv
        BY ProbeInitInv DEF WalkerInit
    <1> QED
        BY <1>1, WalkerStepInv, PTL DEF WalkerSpec

\* Whatever others do to the path between the stat, the open and the reads, a
\* verdict is about the inode that was measured.
THEOREM ProbeHitsMeasured == WalkerSpec => []ProbedWhatWasMeasured
    <1>1. PInv => ProbedWhatWasMeasured
        BY DEF PInv, ProbedWhatWasMeasured
    <1> QED
        BY <1>1, WalkerPInv, PTL

\* With any sizes of the sample and of the prefix, the verdict on a file that is
\* as it was measured is the one its bytes deserve, however the reads were cut.
THEOREM VerdictCorrect == WalkerSpec => []VerdictFitsContent
    <1>1. PInv => VerdictFitsContent
        BY DEF PInv
    <1> QED
        BY <1>1, WalkerPInv, PTL

-----------------------------------------------------------------------------

LEMMA WatchedOutcomeIsOutcome == WatchedOutcome \in Outcome
    BY DEF WatchedOutcome, Outcome, WalkOp

LEMMA WalkerStepIsThreadStep == [WalkerNext]_allVars => [Next]_vars
    <1> SUFFICES ASSUME [WalkerNext]_allVars PROVE [Next]_vars
        OBVIOUS
    <1>1. CASE VisitEntry
        BY <1>1, WatchedOutcomeIsOutcome DEF VisitEntry, Next, WalkStep, Visit
    <1>2. CASE Deliver
        BY <1>2 DEF Deliver, Next, WalkStep
    <1>3. CASE GiveNext \/ Collect
        BY <1>3 DEF GiveNext, Collect, Next
    <1>4. CASE StreamEnds \/ WalkReturns
        BY <1>4 DEF StreamEnds, WalkReturns, Next
    <1>5. CASE DropStream
        BY <1>5 DEF DropStream, Next
    <1>6. CASE Probe \/ GiveBuffered \/ BufferEnds \/ DropBuffer \/ Others
        BY <1>6 DEF Probe, GiveBuffered, BufferEnds, DropBuffer, Others
    <1>7. CASE UNCHANGED allVars
        BY <1>7 DEF allVars
    <1> QED
        BY <1>1, <1>2, <1>3, <1>4, <1>5, <1>6, <1>7
        DEF WalkerNext, ThreadStep, CallerStep, AllDone

\* Walker implements SequentialWalk: with a file that changes, a sort or a
\* buffered result, the thread and the channel only take steps of SequentialWalk.
THEOREM WalkerImplementsSequentialWalk == WalkerSpec => Spec
    <1>1. WalkerInit => Init
        BY DEF WalkerInit
    <1> QED
        BY <1>1, WalkerStepIsThreadStep, PTL DEF WalkerSpec, Spec

-----------------------------------------------------------------------------
(* The thread of SequentialWalk: its types, and the order of its queue.    *)

LEMMA FittingType ==
    ASSUME NEW ps \in Seq(Path)
    PROVE  Fitting(ps) \in Seq(Path)
    BY OnlyElements DEF Fitting

LEMMA LongErrorsType ==
    ASSUME NEW ps \in Seq(Path)
    PROVE  LongErrors(ps) \in Seq(WalkItem)
    <1> DEFINE long == Only({ p \in Path : TooLong(p) }, ps)
    <1>1. long \in Seq(Path)
        BY OnlyElements
    <1> HIDE DEF long
    <1>2. Len(long) \in Nat /\ \A i \in 1 .. Len(long) : long[i] \in Path
        BY <1>1
    <1>3. \A i \in 1 .. Len(long) : Error("Metadata", long[i]) \in WalkItem
        BY <1>2, ErrorType DEF WalkOp
    <1>4. [i \in 1 .. Len(long) |-> Error("Metadata", long[i])] \in Seq(WalkItem)
        BY <1>2, <1>3
    <1> QED
        BY <1>4 DEF LongErrors, long

LEMMA ChildrenType ==
    ASSUME NEW ps \in Seq(Path), NEW n \in Nat, NEW r \in RootSet
    PROVE  /\ Children(ps, n, r) \in Seq(Entry)
           /\ Len(Children(ps, n, r)) = Len(ps)
           /\ \A i \in 1 .. Len(ps) : Children(ps, n, r)[i] = [path |-> ps[i], depth |-> n, root |-> r]
    BY DEF Children, Entry

LEMMA SequentialInitType == Init => TypeOK
    <1> SUFFICES ASSUME Init PROVE TypeOK
        OBVIOUS
    <1>1. Fitting(Roots) \in Seq(Path)
        BY TreeAssumption, FittingType
    <1>2. ASSUME NEW i \in 1 .. Len(Fitting(Roots)) PROVE Fitting(Roots)[i] \in RootSet
        <2>1. Fitting(Roots)[i] \in Members(Fitting(Roots))
            BY DEF Members
        <2>2. Members(Fitting(Roots)) \subseteq Members(Roots)
            BY TreeAssumption, OnlyElements DEF Fitting
        <2> QED
            BY <2>1, <2>2 DEF Members, RootSet
    <1>3. queue \in Seq(Entry)
        <2> DEFINE fits == Fitting(Roots)
        <2>1. Len(fits) \in Nat /\ \A i \in 1 .. Len(fits) : fits[i] \in Path /\ fits[i] \in RootSet
            BY <1>1, <1>2
        <2>2. queue = [i \in 1 .. Len(fits) |-> [path |-> fits[i], depth |-> 0, root |-> fits[i]]]
            BY DEF Init
        <2> HIDE DEF fits
        <2> QED
            BY <2>1, <2>2 DEF Entry
    <1>4. StreamTypeOK /\ out \in Seq(WalkItem)
        BY CapacityAssumption, TreeAssumption, LongErrorsType DEF Init, StreamInit, StreamTypeOK
    <1> QED
        BY <1>3, <1>4 DEF Init, TypeOK

\* What a listing makes of the items to send and of the queue.
LEMMA ListingType ==
    ASSUME NEW e \in Entry
    PROVE  /\ e.path \in Path /\ e.depth + 1 \in Nat /\ e.root \in RootSet
           /\ [i \in 1 .. Tree[e.path].entryErrors |-> Error("ReadDir", e.path)]
                \o LongErrors(Tree[e.path].children) \in Seq(WalkItem)
           /\ Fitting(Tree[e.path].children) \in Seq(Path)
           /\ Children(Fitting(Tree[e.path].children), e.depth + 1, e.root) \in Seq(Entry)
    <1>1. e.path \in Path /\ e.depth + 1 \in Nat /\ e.root \in RootSet
        BY DEF Entry
    <1>2. Tree[e.path].children \in Seq(Path)
        BY <1>1, NodeType
    <1>3. Fitting(Tree[e.path].children) \in Seq(Path) /\ LongErrors(Tree[e.path].children) \in Seq(WalkItem)
        BY <1>2, FittingType, LongErrorsType
    <1>4. [i \in 1 .. Tree[e.path].entryErrors |-> Error("ReadDir", e.path)] \in Seq(WalkItem)
        BY <1>1, RepeatedErrorType
    <1>5. \A s, t \in Seq(WalkItem) : s \o t \in Seq(WalkItem)
        OBVIOUS
    <1> QED
        BY <1>1, <1>3, <1>4, <1>5, ChildrenType

LEMMA VisitType ==
    ASSUME TypeOK, Visit
    PROVE  TypeOK'
    <1> DEFINE e == Head(queue)
    <1>1. PICK o \in Outcome : VisitAs(o)
        BY DEF Visit
    <1>2. /\ queue # <<>> /\ out = <<>> /\ UNCHANGED <<running, channel, consumer, received>>
        BY <1>1 DEF VisitAs, streamVars
    <1>3. e \in Entry /\ Tail(queue) \in Seq(Entry)
        BY <1>2, HeadTail DEF TypeOK
    <1>4. e.path \in Path
        BY <1>3 DEF Entry
    <1> HIDE DEF e
    <1>5. /\ Tree[e.path].id \in STRING
          /\ <<File(e.path)>> \in Seq(WalkItem)
          /\ \A op \in WalkOp : <<Error(op, e.path)>> \in Seq(WalkItem)
        BY <1>4, NodeType, FileType, ErrorType
    <1>6. "ReadDir" \in WalkOp
        BY DEF WalkOp
    <1>7. CASE o = "enter" /\ EnterDir(e)
        <2>1. /\ visitedDirs' = visitedDirs \cup {Tree[e.path].id}
              /\ visitedFiles' = visitedFiles
            BY <1>7 DEF EnterDir
        <2>2. (\A s, t \in Seq(Entry) : s \o t \in Seq(Entry)) /\ <<>> \in Seq(WalkItem)
            OBVIOUS
        <2>3. queue' \in Seq(Entry) /\ out' \in Seq(WalkItem)
            <3>1. CASE queue' = Tail(queue) /\ (out' = <<>> \/ out' = <<Error("ReadDir", e.path)>>)
                BY <1>3, <1>5, <1>6, <2>2, <3>1
            <3>2. CASE /\ out' = [i \in 1 .. Tree[e.path].entryErrors |-> Error("ReadDir", e.path)]
                                 \o LongErrors(Tree[e.path].children)
                       /\ queue' = Tail(queue)
                                 \o Children(Fitting(Tree[e.path].children), e.depth + 1, e.root)
                BY <1>3, <2>2, <3>2, ListingType
            <3> QED
                BY <1>7, <3>1, <3>2 DEF EnterDir
        <2> QED
            BY <1>2, <1>5, <2>1, <2>3 DEF TypeOK, StreamTypeOK
    <1>8. CASE /\ queue' = Tail(queue)
               /\ out' = <<File(e.path)>> \/ out' = out \/ \E op \in WalkOp : out' = <<Error(op, e.path)>>
               /\ visitedFiles' = visitedFiles \cup {e.path} \/ visitedFiles' = visitedFiles
               /\ visitedDirs' = visitedDirs
        BY <1>2, <1>3, <1>4, <1>5, <1>8 DEF TypeOK, StreamTypeOK
    <1> QED
        BY <1>1, <1>7, <1>8 DEF VisitAs, e

LEMMA SequentialNextType == TypeOK /\ [Next]_vars => TypeOK'
    <1> SUFFICES ASSUME TypeOK, [Next]_vars PROVE TypeOK'
        OBVIOUS
    <1> USE DEF TypeOK, StreamTypeOK, walkVars, streamVars
    <1>1. CASE Visit
        BY <1>1, VisitType
    <1>2. CASE Send
        <2>1. Head(out) \in WalkItem /\ Tail(out) \in Seq(WalkItem)
            BY <1>2, HeadTail DEF Send
        <2>2. /\ channel' = Append(channel, Head(out)) /\ Len(channel) < Capacity
              /\ out' = Tail(out)
              /\ UNCHANGED <<queue, visitedDirs, visitedFiles, running, consumer, received>>
            BY <1>2 DEF Send, Enqueue
        <2>3. channel' \in Seq(WalkItem) /\ Len(channel') <= Capacity
            BY <2>1, <2>2, CapacityAssumption
        <2> QED
            BY <2>1, <2>2, <2>3
    <1>3. CASE SendFails
        <2>1. Tail(out) \in Seq(WalkItem) /\ running' \in BOOLEAN
            BY <1>3, HeadTail DEF SendFails, IsFile
        <2> QED
            BY <1>3, <2>1 DEF SendFails
    <1>4. CASE Return
        BY <1>4 DEF Return
    <1>5. CASE NextItem
        <2>1. Head(channel) \in WalkItem /\ Tail(channel) \in Seq(WalkItem) /\ Len(Tail(channel)) <= Capacity
            BY <1>5, HeadTail, CapacityAssumption DEF NextItem, Next_Item
        <2> QED
            BY <1>5, <2>1 DEF NextItem, Next_Item
    <1>6. CASE NextNone
        BY <1>6 DEF NextNone, Next_None
    <1>7. CASE DropIterator
        BY <1>7, CapacityAssumption DEF DropIterator, DropIter
    <1>8. CASE UNCHANGED vars
        BY <1>8 DEF vars
    <1> QED
        BY <1>1, <1>2, <1>3, <1>4, <1>5, <1>6, <1>7, <1>8 DEF Next, WalkStep, Terminated

\* For every tree and every limit, the thread's variables keep their types and
\* the channel its bound.
THEOREM SequentialTypeCorrect == Spec => []TypeOK
    BY SequentialInitType, SequentialNextType, PTL DEF Spec

LEMMA InitBreadthFirst == Init => BreadthFirst
    <1> DEFINE fits == Fitting(Roots)
    <1>1. fits \in Seq(Path)
        BY TreeAssumption, FittingType
    <1> HIDE DEF fits
    <1>2. Init => /\ Len(queue) = Len(fits)
                  /\ \A i \in 1 .. Len(fits) : queue[i].depth = 0
        BY <1>1 DEF Init, fits
    <1> QED
        BY <1>1, <1>2 DEF BreadthFirst

\* Taking the head, and appending entries one level below it, keeps the order.
LEMMA QueueStaysSorted ==
    ASSUME queue \in Seq(Entry), queue # <<>>, BreadthFirst,
           NEW more \in Seq(Entry),
           \A i \in 1 .. Len(more) : more[i].depth = Head(queue).depth + 1,
           queue' = Tail(queue) \o more
    PROVE  BreadthFirst'
    <1> DEFINE n == Len(queue)
               m == n - 1 + Len(more)
               first == queue[1].depth
               d == [i \in 1 .. m |-> queue'[i].depth]
    <1>1. /\ n \in Nat \ {0}
          /\ \A i \in 1 .. n : queue[i] \in Entry
          /\ Len(more) \in Nat
          /\ Head(queue) = queue[1]
        OBVIOUS
    <1>2. \A i \in 1 .. n : queue[i].depth \in Nat
        BY <1>1 DEF Entry
    <1>3. /\ Len(queue') = m
          /\ \A i \in 1 .. n - 1 : queue'[i] = queue[i + 1]
          /\ \A i \in 1 .. Len(more) : queue'[i + (n - 1)] = more[i]
        OBVIOUS
    <1>4. \A i \in 1 .. n : first <= queue[i].depth /\ queue[i].depth <= first + 1
        BY <1>1, <1>2 DEF BreadthFirst
    <1>5. \A i, j \in 1 .. n : i < j => queue[i].depth <= queue[j].depth
        BY DEF BreadthFirst
    <1>6. \A i \in 1 .. m : d[i] = queue'[i].depth
        OBVIOUS
    <1> HIDE DEF d
    <1>7. \A i \in 1 .. n - 1 : d[i] = queue[i + 1].depth
        BY <1>1, <1>3, <1>6
    <1>8. ASSUME NEW i \in n .. m PROVE d[i] = first + 1
        <2> DEFINE k == i - (n - 1)
        <2>1. k \in 1 .. Len(more) /\ i \in 1 .. m /\ k + (n - 1) = i
            BY <1>1
        <2>2. queue'[i] = more[k]
            BY <1>3, <2>1
        <2> QED
            BY <1>1, <1>6, <2>1, <2>2
    <1> HIDE DEF first, m
    <1>9. m = n - 1 + Len(more) /\ first \in Nat
        BY <1>1, <1>2 DEF first, m
    <1> HIDE DEF n
    <1>10. ASSUME NEW i \in 1 .. m
           PROVE  d[i] \in Nat /\ first <= d[i] /\ d[i] <= first + 1
        <2>1. CASE i \in 1 .. n - 1
            <3>1. i + 1 \in 1 .. n
                BY <1>1, <2>1
            <3> QED
                BY <1>2, <1>4, <1>7, <2>1, <3>1
        <2>2. CASE i \in n .. m
            BY <1>8, <1>9, <2>2
        <2> QED
            BY <1>1, <1>9, <2>1, <2>2
    <1>11. ASSUME NEW i \in 1 .. m, NEW j \in 1 .. m, i < j
           PROVE  d[i] <= d[j] /\ d[j] <= d[1] + 1
        <2>1. 1 \in 1 .. m
            BY <1>1, <1>9
        <2>2. /\ first <= d[i] /\ d[i] <= first + 1 /\ d[i] \in Nat
              /\ first <= d[j] /\ d[j] <= first + 1 /\ d[j] \in Nat
              /\ first <= d[1] /\ d[1] \in Nat
            BY <1>10, <2>1
        <2>3. CASE j \in n .. m
            BY <1>8, <1>9, <2>2, <2>3
        <2>4. CASE j \in 1 .. n - 1
            <3>1. i + 1 \in 1 .. n /\ j + 1 \in 1 .. n /\ i + 1 < j + 1 /\ i \in 1 .. n - 1
                BY <1>1, <1>11, <2>4
            <3>2. d[i] <= d[j]
                BY <1>5, <1>7, <2>4, <3>1
            <3> QED
                BY <1>9, <2>2, <3>2
        <2> QED
            BY <1>1, <1>9, <2>3, <2>4
    <1> QED
        <2> SUFFICES ASSUME NEW i \in 1 .. m, NEW j \in 1 .. m, i < j
                     PROVE  queue'[i].depth <= queue'[j].depth /\ queue'[j].depth <= queue'[1].depth + 1
            BY <1>3 DEF BreadthFirst
        <2>1. 1 \in 1 .. m
            BY <1>1, <1>9
        <2> QED
            BY <1>6, <1>11, <2>1

LEMMA NextBreadthFirst == TypeOK /\ BreadthFirst /\ [Next]_vars => BreadthFirst'
    <1> SUFFICES ASSUME TypeOK, BreadthFirst, [Next]_vars PROVE BreadthFirst'
        OBVIOUS
    <1>1. queue \in Seq(Entry)
        BY DEF TypeOK
    <1>2. ASSUME queue # <<>>, queue' = Tail(queue) PROVE BreadthFirst'
        <2> DEFINE none == <<>>
        <2>1. /\ queue' = Tail(queue) \o none /\ none \in Seq(Entry)
              /\ \A i \in 1 .. Len(none) : none[i].depth = Head(queue).depth + 1
            BY <1>1, <1>2
        <2> HIDE DEF none
        <2> QED
            BY <1>1, <1>2, <2>1, QueueStaysSorted
    <1>3. ASSUME NEW o \in Outcome, VisitAs(o) PROVE BreadthFirst'
        <2> DEFINE e == Head(queue)
                   fits == Fitting(Tree[e.path].children)
                   more == Children(fits, e.depth + 1, e.root)
        <2>1. queue # <<>> /\ e \in Entry
            BY <1>1, <1>3, HeadTail DEF VisitAs
        <2>2. CASE queue' = Tail(queue)
            BY <1>2, <2>1, <2>2
        <2>3. CASE queue' = Tail(queue) \o more
            <3> HIDE DEF e
            <3>1. e.depth + 1 \in Nat /\ e.root \in RootSet /\ fits \in Seq(Path)
                BY <2>1, ListingType
            <3> HIDE DEF fits
            <3>2. /\ more \in Seq(Entry) /\ Len(more) = Len(fits)
                  /\ \A i \in 1 .. Len(fits) :
                       more[i] = [path |-> fits[i], depth |-> e.depth + 1, root |-> e.root]
                BY <3>1, ChildrenType
            <3> HIDE DEF more
            <3>3. ASSUME NEW i \in 1 .. Len(more) PROVE more[i].depth = e.depth + 1
                <4>1. i \in 1 .. Len(fits)
                    BY <3>2
                <4>2. more[i] = [path |-> fits[i], depth |-> e.depth + 1, root |-> e.root]
                    BY <3>2, <4>1
                <4> QED
                    BY <4>2
            <3> USE DEF e
            <3> QED
                BY <1>1, <2>1, <2>3, <3>2, <3>3, QueueStaysSorted
        <2> QED
            BY <1>3, <2>2, <2>3 DEF VisitAs, EnterDir
    <1>4. CASE UNCHANGED queue
        BY <1>4 DEF BreadthFirst
    <1>5. [Next]_vars => UNCHANGED queue \/ Visit
        BY DEF Next, WalkStep, Send, SendFails, Return, NextItem, NextNone, DropIterator,
               Terminated, vars, walkVars
    <1> QED
        BY <1>3, <1>4, <1>5 DEF Visit

\* In every tree, however its links lead back into it, a path is never visited
\* after one that is deeper: each is reached at the least depth there is for it.
THEOREM VisitsBreadthFirst == Spec => []BreadthFirst
    <1>1. Init => TypeOK /\ BreadthFirst
        BY SequentialInitType, InitBreadthFirst
    <1>2. (TypeOK /\ BreadthFirst) /\ [Next]_vars => (TypeOK /\ BreadthFirst)'
        BY SequentialNextType, NextBreadthFirst
    <1> QED
        BY <1>1, <1>2, PTL DEF Spec

-----------------------------------------------------------------------------
(* What the thread yields is justified by the tree.                        *)

\* Whatever waits in the queue was found on a way down whose identities have all
\* been claimed, and whatever has been made an item of is one the tree allows.
Justified ==
    /\ \A e \in Members(queue) : LedTo(e, visitedDirs)
    /\ Members(out) \subseteq Yieldable
    /\ Members(channel) \subseteq Yieldable
    /\ received \subseteq Yieldable

\* The paths too long to be queued are reported, and the others are queued.
LEMMA LongErrorsElements ==
    ASSUME NEW ps \in Seq(Path)
    PROVE  Members(LongErrors(ps)) = { Error("Metadata", p) : p \in { q \in Members(ps) : TooLong(q) } }
    <1> DEFINE S == { p \in Path : TooLong(p) }
               long == Only(S, ps)
    <1>1. long \in Seq(Path) /\ Members(long) = { q \in Members(ps) : TooLong(q) }
        <2>1. Members(ps) \subseteq Path
            BY DEF Members
        <2> QED
            BY <2>1, OnlyElements
    <1> HIDE DEF long
    <1>2. LongErrors(ps) = [i \in 1 .. Len(long) |-> Error("Metadata", long[i])]
        BY DEF LongErrors, long
    <1>3. Len(long) \in Nat /\ Len(LongErrors(ps)) = Len(long)
        BY <1>1, <1>2
    <1>4. Members(LongErrors(ps)) = { Error("Metadata", p) : p \in Members(long) }
        BY <1>2, <1>3 DEF Members
    <1> QED
        BY <1>1, <1>4

LEMMA ChildrenElements ==
    ASSUME NEW ps \in Seq(Path), NEW n \in Nat, NEW r \in RootSet
    PROVE  Members(Children(Fitting(ps), n, r)) =
             { [path |-> p, depth |-> n, root |-> r] : p \in { q \in Members(ps) : ~TooLong(q) } }
    <1> DEFINE fits == Fitting(ps)
               more == Children(fits, n, r)
    <1>1. fits \in Seq(Path) /\ Members(fits) = { q \in Members(ps) : ~TooLong(q) }
        <2>1. Members(ps) \subseteq Path
            BY DEF Members
        <2> QED
            BY <2>1, OnlyElements DEF Fitting
    <1> HIDE DEF fits
    <1>2. /\ more \in Seq(Entry) /\ Len(more) = Len(fits)
          /\ \A i \in 1 .. Len(fits) : more[i] = [path |-> fits[i], depth |-> n, root |-> r]
        BY <1>1, ChildrenType
    <1> HIDE DEF more
    <1>3. Members(more) = { [path |-> p, depth |-> n, root |-> r] : p \in Members(fits) }
        BY <1>2 DEF Members
    <1> QED
        BY <1>1, <1>3 DEF fits, more

\* The head is taken and more is appended.
LEMMA QueueElements ==
    ASSUME NEW q \in Seq(Entry), q # <<>>, NEW more \in Seq(Entry)
    PROVE  Members(Tail(q) \o more) = Members(Tail(q)) \cup Members(more)
    <1> DEFINE left == Tail(q)
    <1>1. left \in Seq(Entry)
        OBVIOUS
    <1> HIDE DEF left
    <1>2. Members(left \o more) = Members(left) \cup Members(more)
        BY <1>1, MembersOfConcat
    <1> QED
        BY <1>2 DEF left

LEMMA InitQueueElements ==
    ASSUME Init
    PROVE  Members(queue) = { [path |-> r, depth |-> 0, root |-> r] : r \in { q \in RootSet : ~TooLong(q) } }
    <1> DEFINE fits == Fitting(Roots)
    <1>1. Members(fits) = { q \in Members(Roots) : ~TooLong(q) }
        <2>1. Members(Roots) \subseteq Path
            BY TreeAssumption DEF Members
        <2> QED
            BY <2>1, TreeAssumption, OnlyElements DEF Fitting
    <1>2. fits \in Seq(Path)
        BY TreeAssumption, FittingType
    <1>3. queue = [i \in 1 .. Len(fits) |-> [path |-> fits[i], depth |-> 0, root |-> fits[i]]]
        BY DEF Init
    <1> HIDE DEF fits
    <1>4. /\ Len(queue) = Len(fits)
          /\ \A i \in 1 .. Len(fits) : queue[i] = [path |-> fits[i], depth |-> 0, root |-> fits[i]]
        BY <1>2, <1>3
    <1>5. Members(queue) = { [path |-> p, depth |-> 0, root |-> p] : p \in Members(fits) }
        BY <1>4 DEF Members
    <1>6. Members(Roots) = RootSet
        BY DEF Members, RootSet
    <1> QED
        BY <1>1, <1>5, <1>6

LEMMA InitJustified == Init => Justified
    <1> SUFFICES ASSUME Init PROVE Justified
        OBVIOUS
    <1>1. ASSUME NEW e \in Members(queue) PROVE LedTo(e, visitedDirs)
        <2>1. e.depth = 0 /\ e.path = e.root
            BY InitQueueElements
        <2> QED
            BY <2>1 DEF LedTo
    <1>2. ASSUME NEW m \in Members(out) PROVE m \in Yieldable
        <2>1. PICK r \in RootSet : TooLong(r) /\ m = Error("Metadata", r)
            <3>1. Members(Roots) = RootSet /\ out = LongErrors(Roots)
                BY DEF Members, RootSet, Init
            <3> QED
                BY <3>1, TreeAssumption, LongErrorsElements
        <2>2. "Metadata" \in Examine(r, r) /\ "Metadata" \in WalkOp
            BY <2>1 DEF Examine, WalkOp
        <2> QED
            BY <2>1, <2>2, ItemMayBe DEF Yieldable
    <1>3. Members(channel) = {} /\ received = {}
        BY MembersOfNone DEF Init, StreamInit
    <1> QED
        BY <1>1, <1>2, <1>3 DEF Justified

\* The steps that only move items on.
LEMMA SendingJustified ==
    ASSUME TypeOK, Justified, [Next]_vars, ~ Visit
    PROVE  Justified'
    <1> USE DEF walkVars, streamVars
    <1>1. UNCHANGED <<queue, visitedDirs>>
        BY DEF Next, WalkStep, Send, SendFails, Return, NextItem, NextNone, DropIterator,
               Terminated, vars
    <1>2. \A e \in Members(queue') : LedTo(e, visitedDirs')
        BY <1>1 DEF Justified
    <1>3. CASE Send
        <2>1. /\ out \in Seq(WalkItem) /\ out # <<>> /\ channel \in Seq(WalkItem)
              /\ out' = Tail(out) /\ channel' = Append(channel, Head(out)) /\ received' = received
            BY <1>3 DEF Send, Enqueue, TypeOK, StreamTypeOK
        <2>2. Head(out) \in WalkItem /\ Members(out) = {Head(out)} \cup Members(Tail(out))
            BY <2>1, MembersOfHeadTail
        <2>3. Members(channel') = Members(channel) \cup {Head(out)}
            BY <2>1, <2>2, MembersOfAppend
        <2> QED
            BY <1>2, <2>1, <2>2, <2>3 DEF Justified
    <1>4. CASE SendFails
        <2>1. /\ out \in Seq(WalkItem) /\ out # <<>>
              /\ out' = Tail(out) /\ channel' = channel /\ received' = received
            BY <1>4 DEF SendFails, TypeOK
        <2>2. Members(Tail(out)) \subseteq Members(out)
            BY <2>1, MembersOfHeadTail
        <2> QED
            BY <1>2, <2>1, <2>2 DEF Justified
    <1>5. CASE NextItem
        <2>1. /\ channel \in Seq(WalkItem) /\ channel # <<>> /\ out' = out
              /\ channel' = Tail(channel) /\ received' = received \cup {Head(channel)}
            BY <1>5 DEF NextItem, Next_Item, TypeOK, StreamTypeOK
        <2>2. Members(channel) = {Head(channel)} \cup Members(Tail(channel))
            BY <2>1, MembersOfHeadTail
        <2> QED
            BY <1>2, <2>1, <2>2 DEF Justified
    <1>6. CASE DropIterator
        <2>1. out' = out /\ Members(channel') = {} /\ received' = received
            BY <1>6, MembersOfNone DEF DropIterator, DropIter
        <2> QED
            BY <1>2, <2>1 DEF Justified
    <1>7. CASE UNCHANGED <<out, channel, received>>
        BY <1>2, <1>7 DEF Justified
    <1> QED
        BY <1>3, <1>4, <1>5, <1>6, <1>7
        DEF Next, WalkStep, Return, NextNone, Next_None, Terminated, vars

\* A directory that is listed leaves errors to report and children to visit.
LEMMA ListingJustified ==
    ASSUME NEW e \in Entry, NEW d, NEW claimed, EnteredAs(e, d, claimed), Recurse(e.depth)
    PROVE  /\ FALSE \in ReadDir(e.path) => Error("ReadDir", e.path) \in Yieldable
           /\ TRUE \in ReadDir(e.path) =>
                /\ Members([i \in 1 .. Tree[e.path].entryErrors |-> Error("ReadDir", e.path)]
                             \o LongErrors(Tree[e.path].children)) \subseteq Yieldable
                /\ \A c \in Members(Children(Fitting(Tree[e.path].children), e.depth + 1, e.root)) :
                     LedTo(c, claimed)
    <1> DEFINE ps == Tree[e.path].children
               errors == [i \in 1 .. Tree[e.path].entryErrors |-> Error("ReadDir", e.path)]
    <1>1. /\ e.path \in Path /\ e.depth \in Nat /\ e.depth + 1 \in Nat /\ e.root \in RootSet
          /\ d \in Levels("may")[e.depth] /\ d.root = e.root /\ d.path = e.path
        BY DEF Entry, EnteredAs
    <1>2. ps \in Seq(Path) /\ Tree[e.path].entryErrors \in Nat /\ Members(ps) = Entries(e.path)
        BY <1>1, NodeType DEF Members, Entries
    <1>3. /\ FALSE \in ReadDir(e.path) => Error("ReadDir", e.path) \in Yieldable
          /\ TRUE \in ReadDir(e.path) =>
               /\ \A i \in 1 .. Tree[e.path].entryErrors : Error("ReadDir", e.path) \in Yieldable
               /\ \A c \in Entries(e.path) : ItemsOf("may", e.root, c) \subseteq Yieldable
        BY <1>1, HarvestIsYieldable
    <1> SUFFICES ASSUME TRUE \in ReadDir(e.path)
                 PROVE  /\ Members(errors \o LongErrors(ps)) \subseteq Yieldable
                        /\ \A c \in Members(Children(Fitting(ps), e.depth + 1, e.root)) : LedTo(c, claimed)
        BY <1>3
    <1>4. Members(errors) \subseteq Yieldable
        <2>1. Len(errors) = Tree[e.path].entryErrors
            BY <1>2
        <2> QED
            BY <1>3, <2>1 DEF Members
    <1>5. errors \in Seq(WalkItem) /\ LongErrors(ps) \in Seq(WalkItem)
        BY <1>1, <1>2, RepeatedErrorType, LongErrorsType
    <1> HIDE DEF ps, errors
    <1>6. Members(LongErrors(ps)) \subseteq Yieldable
        <2> SUFFICES ASSUME NEW m \in Members(LongErrors(ps)) PROVE m \in Yieldable
            OBVIOUS
        <2>1. PICK p \in Entries(e.path) : TooLong(p) /\ m = Error("Metadata", p)
            BY <1>2, LongErrorsElements
        <2>2. "Metadata" \in Examine(e.root, p) /\ "Metadata" \in WalkOp
            BY <2>1 DEF Examine, WalkOp
        <2> QED
            BY <1>3, <2>1, <2>2, ItemMayBe
    <1>7. ASSUME NEW c \in Members(Children(Fitting(ps), e.depth + 1, e.root)) PROVE LedTo(c, claimed)
        <2>1. c.depth = e.depth + 1 /\ c.root = e.root /\ c.path \in Entries(e.path)
            BY <1>1, <1>2, ChildrenElements
        <2> QED
            BY <1>1, <2>1, ChildIsLedTo
    <1> QED
        BY <1>4, <1>5, <1>6, <1>7, MembersOfConcat

LEMMA VisitJustified ==
    ASSUME TypeOK, Justified, NEW o \in Outcome, VisitAs(o)
    PROVE  Justified'
    <1> DEFINE e == Head(queue)
    <1>1. /\ queue # <<>> /\ queue \in Seq(Entry) /\ out = <<>> /\ o \in Examine(e.root, e.path)
          /\ UNCHANGED <<channel, received>>
        BY DEF VisitAs, streamVars, TypeOK
    <1>2. e \in Entry /\ Tail(queue) \in Seq(Entry) /\ Members(queue) = {e} \cup Members(Tail(queue))
        BY <1>1, MembersOfHeadTail
    <1>3. /\ LedTo(e, visitedDirs) /\ \A q \in Members(Tail(queue)) : LedTo(q, visitedDirs)
          /\ Members(channel) \subseteq Yieldable /\ received \subseteq Yieldable
        BY <1>2 DEF Justified
    <1>4. e.path \in Path /\ e.depth \in Nat /\ e.root \in RootSet
        BY <1>2 DEF Entry
    <1> HIDE DEF e
    <1>5. CASE /\ o = "enter" /\ Tree[e.path].id \notin visitedDirs /\ EnterDir(e)
        <2> DEFINE claimed == visitedDirs \cup {Tree[e.path].id}
        <2>1. PICK d : EnteredAs(e, d, claimed)
            BY <1>1, <1>3, <1>4, <1>5, LedDirIsFound
        <2>2. visitedDirs' = claimed
            BY <1>5 DEF EnterDir
        <2> HIDE DEF claimed
        <2>3. \A q \in Members(Tail(queue)) : LedTo(q, claimed)
            BY <1>3, LedToGrows DEF claimed
        <2>4. CASE ~Recurse(e.depth) /\ out' = <<>> /\ queue' = Tail(queue)
            BY <1>1, <1>3, <2>2, <2>3, <2>4, MembersOfNone DEF Justified
        <2>5. CASE /\ Recurse(e.depth) /\ FALSE \in ReadDir(e.path)
                   /\ out' = <<Error("ReadDir", e.path)>> /\ queue' = Tail(queue)
            <3>1. Error("ReadDir", e.path) \in Yieldable
                BY <1>2, <2>1, <2>5, ListingJustified
            <3>2. Members(out') = {Error("ReadDir", e.path)}
                BY <2>5, MembersOfOne
            <3> QED
                BY <1>1, <1>3, <2>2, <2>3, <2>5, <3>1, <3>2 DEF Justified
        <2>6. CASE /\ Recurse(e.depth) /\ TRUE \in ReadDir(e.path)
                   /\ out' = [i \in 1 .. Tree[e.path].entryErrors |-> Error("ReadDir", e.path)]
                               \o LongErrors(Tree[e.path].children)
                   /\ queue' = Tail(queue)
                               \o Children(Fitting(Tree[e.path].children), e.depth + 1, e.root)
            <3> DEFINE more == Children(Fitting(Tree[e.path].children), e.depth + 1, e.root)
            <3>1. Members(out') \subseteq Yieldable /\ \A c \in Members(more) : LedTo(c, claimed)
                BY <1>2, <2>1, <2>6, ListingJustified
            <3>2. more \in Seq(Entry)
                BY <1>2, ListingType
            <3> HIDE DEF more
            <3>3. queue' = Tail(queue) \o more
                BY <2>6 DEF more
            <3>4. Members(queue') = Members(Tail(queue)) \cup Members(more)
                BY <1>1, <3>2, <3>3, QueueElements
            <3> QED
                BY <1>1, <1>3, <2>2, <2>3, <3>1, <3>4 DEF Justified
        <2>7. ReadDir(e.path) \subseteq BOOLEAN
            BY DEF ReadDir
        <2> QED
            BY <1>5, <2>4, <2>5, <2>6, <2>7, Zenon DEF EnterDir
    <1>6. CASE /\ queue' = Tail(queue) /\ visitedDirs' = visitedDirs
               /\ \/ o = "yield" /\ out' = <<File(e.path)>>
                  \/ o \in WalkOp /\ out' = <<Error(o, e.path)>>
                  \/ out' = out
        <2>1. /\ o = "yield" => File(e.path) \in Yieldable
              /\ o \in WalkOp => Error(o, e.path) \in Yieldable
            BY <1>1, <1>3, <1>4, LedItemIsYieldable
        <2>2. Members(out') \subseteq Yieldable
            BY <1>1, <1>6, <2>1, MembersOfOne, MembersOfNone
        <2> QED
            BY <1>1, <1>3, <1>6, <2>2 DEF Justified
    <1> QED
        BY <1>5, <1>6 DEF VisitAs, e

\* In every tree, whatever it answers and however its links run, the iterator
\* gives out only items that the tree justifies: no error that did not happen, no
\* file that is ignored, unwanted, binary, or too deep.
THEOREM YieldsOnlyWhatIsThere == Spec => [](received \subseteq Yieldable)
    <1>1. Init => TypeOK /\ Justified
        BY SequentialInitType, InitJustified
    <1>2. (TypeOK /\ Justified) /\ [Next]_vars => (TypeOK /\ Justified)'
        BY SequentialNextType, SendingJustified, VisitJustified DEF Visit
    <1>3. Justified => received \subseteq Yieldable
        BY DEF Justified
    <1> QED
        BY <1>1, <1>2, <1>3, PTL DEF Spec

-----------------------------------------------------------------------------
(* Nothing is left out when the stream ends.                               *)

\* The items that have been made and not been lost.
Got == received \cup Members(channel) \cup Members(out)

\* K accounts for the thread: for what it has claimed and for what it has found.
AccountedBy(K) ==
    /\ Accounts(K, Members(queue), {}, Got)
    /\ \A id \in visitedDirs : \E k \in K : Tree[k.dir.path].id = id
    /\ \A k \in K, e \in Members(queue) : k.depth <= e.depth

\* As long as somebody reads, nothing is lost, and when the sender has gone there
\* is nothing left to send.
Accounted ==
    /\ consumer = "reading" =>
         /\ \A p \in visitedFiles : File(p) \in Got
         /\ ~running => queue = <<>> /\ out = <<>>
         /\ \E K : AccountedBy(K)
    /\ consumer = "ended" => CoversTree(received)

SInv == TypeOK /\ BreadthFirst /\ Justified /\ Accounted

\* A path that is too long has its error.
LEMMA LongIsDischarged ==
    ASSUME NEW e, TooLong(e.path), NEW got, Error("Metadata", e.path) \in got, NEW K
    PROVE  Discharged(K, got, e)
    <1>1. "Metadata" \in Examine(e.root, e.path)
        BY DEF Examine
    <1>2. \A m \in ItemsOf("must", e.root, e.path) : m = Error("Metadata", e.path)
        BY <1>1, ItemMustBe
    <1>3. ~ Enters("must", e.root, e.path)
        BY <1>1, ItemMustBe
    <1> QED
        BY <1>2, <1>3 DEF Discharged

LEMMA InitAccounted == Init => Accounted
    <1> SUFFICES ASSUME Init PROVE Accounted
        OBVIOUS
    <1>1. /\ consumer = "reading" /\ running /\ visitedFiles = {} /\ visitedDirs = {}
          /\ out = LongErrors(Roots)
        BY DEF Init, StreamInit
    <1>2. Members(Roots) = RootSet
        BY DEF Members, RootSet
    <1>3. ASSUME NEW r \in RootSet PROVE Settled({}, Members(queue), Got, RootEntry(r))
        <2>1. CASE TooLong(r)
            <3>1. Error("Metadata", r) \in Got
                BY <1>1, <1>2, <2>1, TreeAssumption, LongErrorsElements DEF Got
            <3>2. RootEntry(r).path = r
                BY DEF RootEntry
            <3>3. Discharged({}, Got, RootEntry(r))
                BY <2>1, <3>1, <3>2, LongIsDischarged
            <3> QED
                BY <3>3 DEF Settled
        <2>2. CASE ~TooLong(r)
            BY <2>2, InitQueueElements DEF Settled, RootEntry
        <2> QED
            BY <2>1, <2>2
    <1>4. AccountedBy({})
        BY <1>1, <1>3 DEF AccountedBy, Accounts
    <1> QED
        BY <1>1, <1>4 DEF Accounted

\* The accounts do not change while items move on.
LEMMA MovingAccounted ==
    ASSUME Accounted, consumer = "reading", consumer' = "reading",
           UNCHANGED <<queue, visitedDirs, visitedFiles>>, Got \subseteq Got',
           ~running' => queue' = <<>> /\ out' = <<>>
    PROVE  Accounted'
    <1>1. PICK K : AccountedBy(K)
        BY DEF Accounted
    <1>2. Accounts(K, Members(queue), {}, Got)
        BY <1>1 DEF AccountedBy
    <1> DEFINE Then == Got'
    <1>3. K \subseteq Claims /\ Got \subseteq Then
        BY <1>2 DEF Accounts
    <1> HIDE DEF Then
    <1>4. \A e \in Members(queue) : Settled(K, Members(queue), Then, e)
        BY DEF Settled
    <1>5. \A k \in K : ~ (Recurse(k.depth) /\ (k \in K => EntryOf(k) \in {}))
        OBVIOUS
    <1>6. Accounts(K, Members(queue), {}, Then)
        BY <1>2, <1>3, <1>4, <1>5, AccountsStep
    <1>7. AccountedBy(K)'
        BY <1>1, <1>6 DEF AccountedBy, Then
    <1> QED
        BY <1>7 DEF Accounted

LEMMA SendingAccounted ==
    ASSUME SameUnderEveryName, SInv, [Next]_vars, ~ Visit
    PROVE  Accounted'
    <1> USE DEF walkVars, streamVars
    <1>1. UNCHANGED <<queue, visitedDirs, visitedFiles>>
        BY DEF Next, WalkStep, Send, SendFails, Return, NextItem, NextNone, DropIterator,
               Terminated, vars
    <1>2. /\ out \in Seq(WalkItem) /\ channel \in Seq(WalkItem)
          /\ consumer \in {"reading", "ended", "dropped"} /\ Accounted
        BY DEF SInv, TypeOK, StreamTypeOK
    <1>3. CASE Send
        <2>1. /\ consumer = "reading" /\ consumer' = consumer /\ running /\ running' = running
              /\ out # <<>> /\ out' = Tail(out) /\ channel' = Append(channel, Head(out))
              /\ received' = received
            BY <1>3 DEF Send, Enqueue, ReceiverGone
        <2>2. Head(out) \in WalkItem /\ Members(out) = {Head(out)} \cup Members(Tail(out))
            BY <1>2, <2>1, MembersOfHeadTail
        <2>3. Members(channel') = Members(channel) \cup {Head(out)}
            BY <1>2, <2>1, <2>2, MembersOfAppend
        <2>4. Got \subseteq Got'
            BY <2>1, <2>2, <2>3 DEF Got
        <2> QED
            BY <1>1, <1>2, <2>1, <2>4, MovingAccounted
    <1>4. CASE Return
        <2>1. UNCHANGED <<channel, received, out>> /\ UNCHANGED consumer /\ queue = <<>> /\ out = <<>>
            BY <1>4 DEF Return
        <2>2. Got' = Got
            BY <2>1 DEF Got
        <2>3. CASE consumer = "reading"
            BY <1>1, <1>2, <2>1, <2>2, <2>3, MovingAccounted
        <2> QED
            BY <1>2, <2>1, <2>3 DEF Accounted
    <1>5. CASE NextItem
        <2>1. /\ consumer = "reading" /\ consumer' = consumer /\ UNCHANGED <<running, queue, out>>
              /\ channel # <<>> /\ channel' = Tail(channel) /\ received' = received \cup {Head(channel)}
            BY <1>5 DEF NextItem, Next_Item
        <2>2. Members(channel) = {Head(channel)} \cup Members(Tail(channel))
            BY <1>2, <2>1, MembersOfHeadTail
        <2>3. Got \subseteq Got'
            BY <2>1, <2>2 DEF Got
        <2> QED
            BY <1>1, <1>2, <2>1, <2>3, MovingAccounted DEF Accounted
    <1>6. CASE NextNone
        <2>1. /\ consumer = "reading" /\ consumer' = "ended" /\ received' = received
              /\ channel = <<>> /\ ~running
            BY <1>6 DEF NextNone, Next_None
        <2>2. queue = <<>> /\ out = <<>>
            BY <1>2, <2>1 DEF Accounted
        <2>3. Members(queue) = {} /\ Got = received
            BY <2>1, <2>2, MembersOfNone DEF Got
        <2>4. PICK K : AccountedBy(K)
            BY <1>2, <2>1 DEF Accounted
        <2>5. Accounts(K, {}, {}, received)
            BY <2>3, <2>4 DEF AccountedBy
        <2>6. CoversTree(received)
            BY <2>5, AccountsCover
        <2> QED
            BY <2>1, <2>6 DEF Accounted
    <1>7. CASE SendFails
        <2>1. UNCHANGED <<consumer, received>> /\ consumer # "reading"
            BY <1>7 DEF SendFails, ReceiverGone
        <2> QED
            BY <1>2, <2>1 DEF Accounted
    <1>8. CASE DropIterator
        BY <1>8 DEF DropIterator, DropIter, Accounted
    <1>9. CASE UNCHANGED vars
        <2>1. UNCHANGED <<consumer, received, channel, out, running, queue>>
            BY <1>9 DEF vars
        <2>2. Got' = Got
            BY <2>1 DEF Got
        <2>3. CASE consumer = "reading"
            BY <1>1, <1>2, <2>1, <2>2, <2>3, MovingAccounted DEF Accounted
        <2> QED
            BY <1>2, <2>1, <2>3 DEF Accounted
    <1> QED
        BY <1>3, <1>4, <1>5, <1>6, <1>7, <1>8, <1>9 DEF Next, WalkStep, Terminated

\* The oldest entry is none of the deeper ones.
LEMMA HeadIsShallowest ==
    ASSUME queue \in Seq(Entry), queue # <<>>, BreadthFirst
    PROVE  \A q \in Members(queue) : Head(queue).depth <= q.depth
    <1>1. Len(queue) \in Nat /\ Head(queue) = queue[1] /\ 1 \in 1 .. Len(queue) /\ queue[1] \in Entry
        OBVIOUS
    <1>2. ASSUME NEW j \in 1 .. Len(queue) PROVE queue[1].depth <= queue[j].depth
        <2>1. CASE j = 1
            BY <1>1, <2>1 DEF Entry
        <2>2. CASE j # 1
            BY <1>1, <2>2 DEF BreadthFirst
        <2> QED
            BY <2>1, <2>2
    <1> QED
        BY <1>1, <1>2 DEF Members

\* Taking the oldest entry off leaves the accounts in order if what had to come of
\* it has: an item, or a claim.
LEMMA TakingAccounted ==
    ASSUME SInv, consumer = "reading", running, queue # <<>>, queue' = Tail(queue),
           UNCHANGED <<visitedDirs, consumer, running>>, Got \subseteq Got',
           \A p \in visitedFiles' : File(p) \in Got',
           \A K : AccountedBy(K) => Discharged(K, Got', Head(queue))
    PROVE  Accounted'
    <1> DEFINE Then == Got'
               left == Members(Tail(queue))
    <1>1. PICK K : AccountedBy(K)
        BY DEF SInv, Accounted
    <1>2. Members(queue) = {Head(queue)} \cup left
        BY MembersOfHeadTail DEF SInv, TypeOK
    <1>3. Accounts(K, Members(queue), {}, Got) /\ K \subseteq Claims
        BY <1>1 DEF AccountedBy, Accounts
    <1>4. Discharged(K, Then, Head(queue)) /\ Got \subseteq Then
        BY <1>1
    <1> HIDE DEF Then, left
    <1>5. \A e \in Members(queue) : Settled(K, left, Then, e)
        BY <1>2, <1>4 DEF Settled
    <1>6. \A k \in K : ~ (Recurse(k.depth) /\ (k \in K => EntryOf(k) \in {}))
        OBVIOUS
    <1>7. Accounts(K, left, {}, Then)
        BY <1>3, <1>4, <1>5, <1>6, AccountsStep
    <1>8. AccountedBy(K)'
        BY <1>1, <1>2, <1>7 DEF AccountedBy, Then, left
    <1> QED
        BY <1>8 DEF Accounted

\* What had to come of a listing has come of it, or waits in the queue.
LEMMA ListingAccounted ==
    ASSUME NEW e \in Entry, NEW k, k.dir.path = e.path, k.dir.root = e.root, k.depth = e.depth,
           NEW readable \in ReadDir(e.path), NEW pending, NEW got,
           ~readable => Error("ReadDir", e.path) \in got,
           readable =>
             /\ Members([i \in 1 .. Tree[e.path].entryErrors |-> Error("ReadDir", e.path)]
                          \o LongErrors(Tree[e.path].children)) \subseteq got
             /\ Members(Children(Fitting(Tree[e.path].children), e.depth + 1, e.root)) \subseteq pending,
           NEW K
    PROVE  Listed(K, pending, got, k)
    <1> DEFINE ps == Tree[e.path].children
               errors == [i \in 1 .. Tree[e.path].entryErrors |-> Error("ReadDir", e.path)]
               more == Children(Fitting(ps), e.depth + 1, e.root)
    <1>1. /\ e.path \in Path /\ e.depth \in Nat /\ e.depth + 1 \in Nat /\ e.root \in RootSet
        BY DEF Entry
    <1>2. ps \in Seq(Path) /\ Tree[e.path].entryErrors \in Nat /\ Members(ps) = Entries(e.path)
        BY <1>1, NodeType DEF Members, Entries
    <1>3. ReadDir(e.path) = {FALSE} => Error("ReadDir", e.path) \in got
        OBVIOUS
    <1> SUFFICES ASSUME ReadDir(e.path) = {TRUE}
                 PROVE  /\ \A i \in 1 .. Tree[e.path].entryErrors : Error("ReadDir", e.path) \in got
                        /\ \A c \in Entries(e.path) : Settled(K, pending, got, ChildOf(k, c))
        BY <1>3 DEF Listed
    <1>4. errors \in Seq(WalkItem) /\ LongErrors(ps) \in Seq(WalkItem)
        BY <1>1, <1>2, RepeatedErrorType, LongErrorsType
    <1>5. /\ Members(errors \o LongErrors(ps)) \subseteq got /\ Members(more) \subseteq pending
        OBVIOUS
    <1>6. ASSUME NEW i \in 1 .. Tree[e.path].entryErrors PROVE Error("ReadDir", e.path) \in Members(errors)
        <2>1. Len(errors) = Tree[e.path].entryErrors
            BY <1>2
        <2> QED
            BY <2>1 DEF Members
    <1>7. Members(more) = { [path |-> p, depth |-> e.depth + 1, root |-> e.root] :
                              p \in { q \in Entries(e.path) : ~TooLong(q) } }
        BY <1>1, <1>2, ChildrenElements
    <1> HIDE DEF errors, more
    <1>8. Members(errors) \subseteq got /\ Members(LongErrors(ps)) \subseteq got
        BY <1>4, <1>5, MembersOfConcat
    <1>9. ASSUME NEW c \in Entries(e.path) PROVE Settled(K, pending, got, ChildOf(k, c))
        <2>1. ChildOf(k, c) = [path |-> c, depth |-> e.depth + 1, root |-> e.root]
            BY DEF ChildOf
        <2>2. CASE TooLong(c)
            <3>1. Error("Metadata", c) \in got /\ ChildOf(k, c).path = c
                BY <1>2, <1>8, <2>1, <2>2, LongErrorsElements
            <3>2. Discharged(K, got, ChildOf(k, c))
                BY <2>2, <3>1, LongIsDischarged
            <3> QED
                BY <3>2 DEF Settled
        <2>3. CASE ~TooLong(c)
            BY <1>5, <1>7, <2>1, <2>3 DEF Settled
        <2> QED
            BY <2>2, <2>3
    <1> QED
        BY <1>6, <1>8, <1>9

\* A directory that is claimed is accounted for by a claim of its own.
LEMMA ClaimingAccounted ==
    ASSUME SInv, consumer = "reading", running, queue # <<>>, Tree[Head(queue).path].id \notin visitedDirs,
           "enter" \in Examine(Head(queue).root, Head(queue).path), EnterDir(Head(queue)), out = <<>>,
           UNCHANGED <<received, channel, running, consumer>>
    PROVE  Accounted'
    <1> DEFINE e == Head(queue)
               id == Tree[e.path].id
               more == Children(Fitting(Tree[e.path].children), e.depth + 1, e.root)
               errors == [i \in 1 .. Tree[e.path].entryErrors |-> Error("ReadDir", e.path)]
                           \o LongErrors(Tree[e.path].children)
               left == Members(Tail(queue))
               pending == Members(queue')
               Then == Got'
    <1>1. queue \in Seq(Entry) /\ BreadthFirst /\ Justified /\ Accounted
        BY DEF SInv, TypeOK
    <1>2. e \in Entry /\ Members(queue) = {e} \cup left
        BY <1>1, MembersOfHeadTail
    <1>3. e.path \in Path /\ e.depth \in Nat /\ e.root \in RootSet
        BY <1>2 DEF Entry
    <1>4. \A q \in Members(queue) : e.depth <= q.depth
        BY <1>1, HeadIsShallowest
    <1>5. PICK K : AccountedBy(K)
        BY <1>1 DEF Accounted
    <1>6. Accounts(K, Members(queue), {}, Got) /\ K \subseteq Claims
        BY <1>5 DEF AccountedBy, Accounts
    <1>7. LedTo(e, visitedDirs)
        BY <1>2, <1>1 DEF Justified
    <1>8. PICK d : EnteredAs(e, d, visitedDirs \cup {id})
        BY <1>3, <1>7, LedDirIsFound
    <1>9. d \in Levels("may")[e.depth] /\ d.root = e.root /\ d.path = e.path /\ d \in Found
        BY <1>3, <1>8, LevelsEquation DEF EnteredAs
    <1> DEFINE k == [dir |-> d, depth |-> e.depth]
               L == K \cup {k}
    <1>10. k \in Claims /\ k.dir = d /\ k.depth = e.depth
        BY <1>3, <1>9 DEF Claims
    <1>11. visitedDirs' = visitedDirs \cup {id} /\ visitedFiles' = visitedFiles
        BY DEF EnterDir
    <1>12. Got \subseteq Got'
        BY MembersOfNone DEF Got
    <1>13. more \in Seq(Entry) /\ \A c \in Members(more) : c.depth = e.depth + 1
        <2>1. e.depth + 1 \in Nat /\ more \in Seq(Entry) /\ Tree[e.path].children \in Seq(Path)
            BY <1>2, <1>3, ListingType, NodeType
        <2> HIDE DEF e
        <2>2. Members(more) = { [path |-> p, depth |-> e.depth + 1, root |-> e.root] :
                                  p \in { q \in Members(Tree[e.path].children) : ~TooLong(q) } }
            BY <1>3, <2>1, ChildrenElements
        <2> HIDE DEF more
        <2> QED
            BY <2>1, <2>2
    <1>14. Members(Tail(queue) \o more) = left \cup Members(more)
        BY <1>1, <1>13, QueueElements
    <1>15. queue' = Tail(queue) \/ queue' = Tail(queue) \o more
        BY DEF EnterDir
    <1>16. left \subseteq pending /\ \A q \in pending : q \in left \/ q.depth = e.depth + 1
        BY <1>13, <1>14, <1>15, Zenon
    <1>17. ASSUME Recurse(e.depth)
           PROVE  \E readable \in ReadDir(e.path) :
                    /\ ~readable => Error("ReadDir", e.path) \in Then
                    /\ readable => Members(errors) \subseteq Then /\ Members(more) \subseteq pending
        <2>1. PICK readable \in ReadDir(e.path) :
                IF readable
                THEN out' = errors /\ queue' = Tail(queue) \o more
                ELSE out' = <<Error("ReadDir", e.path)>> /\ queue' = Tail(queue)
            BY <1>17, Zenon DEF EnterDir
        <2>2. CASE readable
            BY <1>14, <2>1, <2>2 DEF Got
        <2>3. CASE ~readable
            BY <2>1, <2>3, MembersOfOne DEF Got
        <2> QED
            BY <2>2, <2>3
    <1> HIDE DEF e, id, more, errors, left, pending, Then, k
    <1>18. Recurse(e.depth) => Listed(L, pending, Then, k)
        BY <1>2, <1>9, <1>10, <1>17, ListingAccounted DEF more, errors
    <1>19. Discharged(L, Then, e)
        <2>1. "enter" \in Examine(e.root, e.path) /\ "enter" # "yield" /\ "enter" \notin WalkOp
            BY DEF e, WalkOp
        <2>2. ItemsOf("must", e.root, e.path) = {}
            BY <2>1, ItemMustBe
        <2>3. ClaimedBy(L, Tree[e.path].id, e.depth)
            BY <1>3, <1>9, <1>10 DEF ClaimedBy
        <2> QED
            BY <2>2, <2>3 DEF Discharged
    <1>20. Accounts(L, pending, {}, Then)
        <2>1. \A q \in Members(queue) : Settled(L, pending, Then, q)
            BY <1>2, <1>16, <1>19 DEF Settled
        <2>2. ASSUME NEW j \in L, Recurse(j.depth), j \in K => EntryOf(j) \in {}
              PROVE  Listed(L, pending, Then, j)
            BY <1>10, <1>18, <2>2
        <2>3. \A j \in L \ K : j.dir \in Levels("may")[j.depth]
            BY <1>9, <1>10
        <2>4. K \subseteq L /\ L \subseteq Claims /\ Got \subseteq Then
            BY <1>6, <1>10, <1>12 DEF Then
        <2> HIDE DEF L
        <2> QED
            BY <1>6, <2>1, <2>2, <2>3, <2>4, AccountsStep
    <1>21. \A j \in L, q \in pending : j.depth <= q.depth
        <2>1. \A j \in K : j.depth <= e.depth /\ j.depth \in Nat
            BY <1>2, <1>5, <1>6 DEF AccountedBy, Claims
        <2>2. ASSUME NEW j \in K, NEW q \in pending PROVE j.depth <= q.depth
            <3>1. CASE q \in left
                BY <1>2, <1>5, <3>1 DEF AccountedBy
            <3>2. CASE q.depth = e.depth + 1
                BY <1>3, <2>1, <3>2
            <3> QED
                BY <1>16, <3>1, <3>2
        <2>3. ASSUME NEW q \in pending PROVE k.depth <= q.depth
            <3>1. CASE q \in left
                BY <1>2, <1>4, <1>10, <3>1
            <3>2. CASE q.depth = e.depth + 1
                BY <1>3, <1>10, <3>2
            <3> QED
                BY <1>16, <3>1, <3>2
        <2> QED
            BY <2>2, <2>3
    <1>22. \A i \in visitedDirs' : \E j \in L : Tree[j.dir.path].id = i
        BY <1>5, <1>9, <1>10, <1>11 DEF AccountedBy, id
    <1> HIDE DEF L
    <1>23. PICK M : M = L
        OBVIOUS
    <1>24. AccountedBy(M)'
        BY <1>20, <1>21, <1>22, <1>23 DEF AccountedBy, pending, Then
    <1> QED
        BY <1>1, <1>11, <1>12, <1>24 DEF Accounted

LEMMA VisitAccounted ==
    ASSUME SInv, NEW o \in Outcome, VisitAs(o)
    PROVE  Accounted'
    <1> DEFINE e == Head(queue)
    <1>1. /\ queue # <<>> /\ out = <<>> /\ running /\ o \in Examine(e.root, e.path)
          /\ UNCHANGED <<channel, received>> /\ UNCHANGED consumer /\ UNCHANGED running
        BY DEF VisitAs, streamVars
    <1>2. consumer \in {"reading", "ended", "dropped"} /\ Accounted /\ queue \in Seq(Entry)
        BY DEF SInv, TypeOK, StreamTypeOK
    <1>3. CASE consumer # "reading"
        BY <1>1, <1>2, <1>3 DEF Accounted
    <1>4. CASE o = "enter" /\ Tree[e.path].id \notin visitedDirs /\ EnterDir(e) /\ consumer = "reading"
        BY <1>1, <1>4, ClaimingAccounted
    <1>5. Got \subseteq Got'
        BY <1>1, MembersOfNone DEF Got
    <1>6. \A m \in ItemsOf("must", e.root, e.path) :
            \/ o = "yield" /\ m = File(e.path)
            \/ o \in WalkOp /\ m = Error(o, e.path)
        BY <1>1, ItemMustBe
    <1>7. Enters("must", e.root, e.path) => o = "enter"
        BY <1>1, ItemMustBe
    <1>8. \A p \in visitedFiles : consumer = "reading" => File(p) \in Got'
        BY <1>2, <1>5 DEF Accounted
    <1>9. CASE /\ queue' = Tail(queue) /\ visitedDirs' = visitedDirs /\ consumer = "reading"
               /\ \/ /\ o = "yield" /\ visitedFiles' = visitedFiles \cup {e.path}
                     /\ out' = <<File(e.path)>>
                  \/ o \in WalkOp /\ out' = <<Error(o, e.path)>> /\ visitedFiles' = visitedFiles
                  \/ /\ \/ o = "pass"
                        \/ o = "enter" /\ Tree[e.path].id \in visitedDirs
                        \/ o = "yield" /\ e.path \in visitedFiles
                     /\ visitedFiles' = visitedFiles
        <2>1. o = "yield" => File(e.path) \in Got'
            BY <1>1, <1>8, <1>9, MembersOfOne DEF Got, WalkOp
        <2>2. o \in WalkOp => Error(o, e.path) \in Got'
            BY <1>1, <1>9, MembersOfOne DEF Got, WalkOp
        <2>3. ItemsOf("must", e.root, e.path) \subseteq Got'
            BY <1>6, <2>1, <2>2
        <2>4. \A p \in visitedFiles' : File(p) \in Got'
            BY <1>8, <1>9, <2>1
        <2>5. ASSUME NEW K, AccountedBy(K) PROVE Discharged(K, Got', e)
            <3>1. e \in Members(queue)
                BY <1>1, <1>2, MembersOfHeadTail
            <3>2. ASSUME Enters("must", e.root, e.path) PROVE ClaimedBy(K, Tree[e.path].id, e.depth)
                <4>1. o = "enter"
                    BY <1>7, <3>2
                <4>2. Tree[e.path].id \in visitedDirs
                    BY <1>9, <4>1 DEF WalkOp
                <4> QED
                    BY <2>5, <3>1, <4>2 DEF AccountedBy, ClaimedBy
            <3> QED
                BY <2>3, <3>2 DEF Discharged
        <2> QED
            BY <1>1, <1>5, <1>9, <2>4, <2>5, TakingAccounted
    <1>10. \/ o = "enter" /\ Tree[e.path].id \notin visitedDirs /\ EnterDir(e)
           \/ /\ queue' = Tail(queue) /\ visitedDirs' = visitedDirs
              /\ \/ /\ o = "yield" /\ visitedFiles' = visitedFiles \cup {e.path}
                    /\ out' = <<File(e.path)>>
                 \/ o \in WalkOp /\ out' = <<Error(o, e.path)>> /\ visitedFiles' = visitedFiles
                 \/ /\ \/ o = "pass"
                       \/ o = "enter" /\ Tree[e.path].id \in visitedDirs
                       \/ o = "yield" /\ e.path \in visitedFiles
                    /\ visitedFiles' = visitedFiles
        BY DEF VisitAs
    <1> QED
        BY <1>3, <1>4, <1>9, <1>10

LEMMA InitSInv == Init => SInv
    BY SequentialInitType, InitBreadthFirst, InitJustified, InitAccounted DEF SInv

LEMMA NextSInv == SameUnderEveryName /\ SInv /\ [Next]_vars => SInv'
    <1> SUFFICES ASSUME SameUnderEveryName, SInv, [Next]_vars PROVE SInv'
        OBVIOUS
    <1>1. TypeOK /\ BreadthFirst /\ Justified
        BY DEF SInv
    <1>2. TypeOK' /\ BreadthFirst'
        BY <1>1, SequentialNextType, NextBreadthFirst
    <1>3. Justified'
        BY <1>1, SendingJustified, VisitJustified DEF Visit
    <1>4. Accounted'
        BY SendingAccounted, VisitAccounted DEF Visit
    <1> QED
        BY <1>2, <1>3, <1>4 DEF SInv

\* In every tree whose directories are the same under every name, a stream that
\* has ended, at whatever depth limit, has left nothing out: every root, and every
\* directory within the limit under one of its names, has all its items delivered.
\* That the queue is first in, first out is what makes the limit harmless.
THEOREM NothingIsLeftOut ==
    ASSUME SameUnderEveryName
    PROVE  Spec => [](consumer = "ended" => CoversTree(received))
    <1>1. SInv /\ [Next]_vars => SInv'
        BY NextSInv
    <1>2. SInv => (consumer = "ended" => CoversTree(received))
        BY DEF SInv, Accounted
    <1> QED
        BY InitSInv, <1>1, <1>2, PTL DEF Spec

-----------------------------------------------------------------------------
(* What the sorted modes make of what they have collected.                 *)

\* The order of two elements of fs by their keys, those of equal keys by place.
Precedes(fs, i, j) ==
    \/ SortKey(fs[i]) < SortKey(fs[j])
    \/ SortKey(fs[i]) = SortKey(fs[j]) /\ i < j

Place(fs, i) == Cardinality({ j \in 1 .. Len(fs) : Precedes(fs, j, i) }) + 1

\* Elements that come before others take smaller places, from 1 up to the length.
LEMMA Places ==
    ASSUME NEW fs, Len(fs) \in Nat, \A i \in 1 .. Len(fs) : SortKey(fs[i]) \in Nat
    PROVE  /\ \A i \in 1 .. Len(fs) : Place(fs, i) \in 1 .. Len(fs)
           /\ \A i, j \in 1 .. Len(fs) : Precedes(fs, i, j) => Place(fs, i) < Place(fs, j)
           /\ \A i, j \in 1 .. Len(fs) : i = j \/ Precedes(fs, i, j) \/ Precedes(fs, j, i)
    <1> DEFINE n == Len(fs)
               I == 1 .. n
               key == [i \in I |-> SortKey(fs[i])]
               first(i) == { j \in I : Precedes(fs, j, i) }
    <1>1. IsFiniteSet(I) /\ Cardinality(I) = n
        <2>1. \A m \in Nat : IsFiniteSet(1 .. m) /\ Cardinality(1 .. m) = m
            BY FS_Interval
        <2> QED
            BY <2>1
    <1>2. \A i, j \in I : Precedes(fs, i, j) <=> key[i] < key[j] \/ (key[i] = key[j] /\ i < j)
        BY DEF Precedes
    <1>3. key \in [I -> Nat]
        OBVIOUS
    <1> HIDE DEF n, key
    <1>4. n \in Nat
        BY DEF n
    <1>5. \A i \in I : /\ first(i) \subseteq I /\ IsFiniteSet(first(i))
                       /\ Cardinality(first(i)) \in Nat /\ Place(fs, i) = Cardinality(first(i)) + 1
        BY <1>1, FS_Subset, FS_CardinalityType DEF Place, n
    <1>6. \A i \in I : ~ Precedes(fs, i, i)
        BY <1>2, <1>3, <1>4
    <1>7. ASSUME NEW i \in I PROVE Place(fs, i) \in I
        <2>1. first(i) # I /\ first(i) \subseteq I
            BY <1>6
        <2>2. Cardinality(first(i)) <= n /\ Cardinality(first(i)) # n
            BY <1>1, <2>1, FS_Subset
        <2>3. Cardinality(first(i)) \in Nat /\ Place(fs, i) = Cardinality(first(i)) + 1
            BY <1>5
        <2> HIDE DEF first
        <2> QED
            BY <1>4, <2>2, <2>3
    <1>8. ASSUME NEW i \in I, NEW j \in I, Precedes(fs, i, j) PROVE Place(fs, i) < Place(fs, j)
        <2>1. first(i) \subseteq first(j)
            BY <1>2, <1>3, <1>4, <1>8
        <2>2. i \in first(j) /\ i \notin first(i)
            BY <1>6, <1>8
        <2> HIDE DEF first
        <2>3. Cardinality(first(i)) <= Cardinality(first(j)) /\ Cardinality(first(i)) # Cardinality(first(j))
            BY <1>5, <2>1, <2>2, FS_Subset
        <2> QED
            BY <1>5, <2>3
    <1>9. \A i, j \in I : i = j \/ Precedes(fs, i, j) \/ Precedes(fs, j, i)
        BY <1>2, <1>3, <1>4
    <1> QED
        BY <1>7, <1>8, <1>9 DEF n

\* Sorting is stable, and loses, invents and repeats no element: place n is taken by
\* one element, and every element has a place.
LEMMA SortedElements ==
    ASSUME NEW fs \in Seq(WalkItem), \A i \in 1 .. Len(fs) : SortKey(fs[i]) \in Nat
    PROVE  /\ Sorted(fs) \in Seq(WalkItem)
           /\ Len(Sorted(fs)) = Len(fs)
           /\ Members(Sorted(fs)) = Members(fs)
           /\ StablySorted(Keys, fs, Sorted(fs))
    <1> DEFINE n == Len(fs)
               I == 1 .. n
               at == [k \in I |-> CHOOSE i \in I : Place(fs, i) = k]
               place == [i \in I |-> Place(fs, i)]
    <1>1. n \in Nat /\ \A i \in I : fs[i] \in WalkItem
        OBVIOUS
    <1>2. /\ place \in [I -> I]
          /\ \A i, j \in I : Precedes(fs, i, j) => place[i] < place[j]
          /\ \A i, j \in I : i = j \/ Precedes(fs, i, j) \/ Precedes(fs, j, i)
        BY <1>1, Places
    <1>3. Sorted(fs) = [k \in I |-> fs[at[k]]]
        <2>1. Sorted(fs) = [k \in I |-> fs[CHOOSE i \in I : Place(fs, i) = k]]
            BY DEF Sorted, Place, Precedes
        <2>2. \A k \in I : at[k] = CHOOSE i \in I : Place(fs, i) = k
            BY Zenon
        <2> HIDE DEF at
        <2> QED
            BY <2>1, <2>2
    <1>4. \A k \in I : at[k] = CHOOSE i \in I : Place(fs, i) = k
        BY Zenon
    <1>5. \A i \in I : place[i] = Place(fs, i)
        BY Zenon
    <1>6. IsFiniteSet(I)
        BY <1>1, FS_Interval
    <1> HIDE DEF place, at, n
    <1>7. \A i, j \in I : place[i] = place[j] => i = j
        BY <1>1, <1>2
    <1>8. place \in Surjection(I, I)
        <2>1. place \in Injection(I, I)
            BY <1>2, <1>7 DEF Injection, IsInjective
        <2> QED
            BY <1>6, <2>1, FS_Injection
    <1>9. ASSUME NEW k \in I PROVE at[k] \in I /\ place[at[k]] = k
        <2>1. \E i \in I : Place(fs, i) = k
            BY <1>5, <1>8 DEF Surjection
        <2>2. at[k] \in I /\ Place(fs, at[k]) = k
            BY <1>4, <2>1, Zenon
        <2> QED
            BY <1>5, <2>2
    <1>10. \A i \in I : at[place[i]] = i /\ place[i] \in I
        BY <1>2, <1>7, <1>9
    <1>11. Sorted(fs) \in Seq(WalkItem) /\ Len(Sorted(fs)) = n
        BY <1>1, <1>3, <1>9
    <1>12. Members(Sorted(fs)) = Members(fs)
        <2>1. \A k \in I : Sorted(fs)[k] = fs[at[k]]
            BY <1>3
        <2>2. Members(Sorted(fs)) \subseteq Members(fs)
            BY <1>9, <1>11, <2>1 DEF Members, n
        <2>3. Members(fs) \subseteq Members(Sorted(fs))
            <3>1. \A i \in I : place[i] \in I /\ Sorted(fs)[place[i]] = fs[i]
                BY <1>10, <2>1
            <3> QED
                BY <1>11, <3>1 DEF Members, n
        <2> QED
            BY <2>2, <2>3
    <1>13. at \in Bijection(I, I)
        <2>1. at \in [I -> I]
            BY <1>9 DEF at
        <2>2. \A k, l \in I : at[k] = at[l] => k = l
            BY <1>9
        <2>3. \A i \in I : \E k \in I : at[k] = i
            BY <1>10
        <2> QED
            BY <2>1, <2>2, <2>3 DEF Bijection, Injection, Surjection, IsInjective
    <1>14. ASSUME NEW k \in I, NEW l \in I, k < l
           PROVE  \/ SortKey(Sorted(fs)[k]) < SortKey(Sorted(fs)[l])
                  \/ SortKey(Sorted(fs)[k]) = SortKey(Sorted(fs)[l]) /\ at[k] < at[l]
        <2>1. at[k] \in I /\ at[l] \in I /\ place[at[k]] = k /\ place[at[l]] = l
            BY <1>9
        <2>2. ~ Precedes(fs, at[l], at[k]) /\ at[k] # at[l]
            BY <1>1, <1>2, <1>14, <2>1
        <2>3. Precedes(fs, at[k], at[l])
            BY <1>2, <2>1, <2>2
        <2>4. Sorted(fs)[k] = fs[at[k]] /\ Sorted(fs)[l] = fs[at[l]]
            BY <1>3
        <2> QED
            BY <2>3, <2>4 DEF Precedes
    <1>15. \A k \in I : Keys[Sorted(fs)[k]] = SortKey(Sorted(fs)[k])
        BY <1>1, <1>3, <1>9 DEF Keys
    <1>16. \A k, l \in I : k < l =>
             \/ Keys[Sorted(fs)[k]] < Keys[Sorted(fs)[l]]
             \/ Keys[Sorted(fs)[k]] = Keys[Sorted(fs)[l]] /\ at[k] < at[l]
        BY <1>14, <1>15, Zenon
    <1>17. StablySorted(Keys, fs, Sorted(fs))
        BY <1>3, <1>13, <1>16, Zenon DEF StablySorted, n
    <1> QED
        BY <1>11, <1>12, <1>17 DEF n

-----------------------------------------------------------------------------
(* The promise of Walker::walk, in every sort mode.                        *)

\* The contract's definitions are those of the tree.
LEMMA SameContract ==
    /\ Promise!Yieldable = Yieldable
    /\ \A got : Promise!CoversTree(got) = CoversTree(got)
    <1>1. \A r, p : Promise!Examine(r, p) = Examine(r, p)
        BY Zenon
        DEF Promise!Examine, Examine, Promise!TooLong, TooLong, Promise!Stat, Stat,
               Promise!Admit, Admit, Promise!Judge, Judge, Promise!HasId, HasId,
               Promise!Build, Build, Promise!File, File, Promise!Error, Error,
               Promise!WalkOp, WalkOp
    <1>2. \A how, r, p : Promise!ItemsOf(how, r, p) = ItemsOf(how, r, p)
        BY <1>1
        DEF Promise!Examine, Examine, Promise!TooLong, TooLong, Promise!Stat, Stat,
               Promise!Admit, Admit, Promise!Judge, Judge, Promise!HasId, HasId,
               Promise!Build, Build, Promise!File, File, Promise!Error, Error,
               Promise!WalkOp, WalkOp, Promise!ItemsOf, ItemsOf, Promise!Says, Says
    <1>3. \A how, d : Promise!Harvest(how, d) = Harvest(how, d)
        BY Zenon
        DEF Promise!Examine, Examine, Promise!TooLong, TooLong, Promise!Stat, Stat,
               Promise!Admit, Admit, Promise!Judge, Judge, Promise!HasId, HasId,
               Promise!Build, Build, Promise!File, File, Promise!Error, Error,
               Promise!WalkOp, WalkOp, Promise!ItemsOf, ItemsOf, Promise!Says, Says,
               Promise!Harvest, Harvest, Promise!Entries, Entries, Promise!ReadDir,
               ReadDir, Promise!NoLimit, NoLimit
    <1>4. \A how, ds : Promise!Below(how, ds) = Below(how, ds)
        BY Zenon
        DEF Promise!Examine, Examine, Promise!TooLong, TooLong, Promise!Stat, Stat,
               Promise!Admit, Admit, Promise!Judge, Judge, Promise!HasId, HasId,
               Promise!Build, Build, Promise!File, File, Promise!Error, Error,
               Promise!WalkOp, WalkOp, Promise!Says, Says, Promise!Below, Below,
               Promise!Reached, Reached, Promise!Enters, Enters, Promise!Entries, Entries,
               Promise!ReadDir, ReadDir, Promise!NoLimit, NoLimit
    <1>5. \A how : Promise!Levels(how) = Levels(how)
        BY Zenon
        DEF Promise!Examine, Examine, Promise!TooLong, TooLong, Promise!Stat, Stat,
               Promise!Admit, Admit, Promise!Judge, Judge, Promise!HasId, HasId,
               Promise!Build, Build, Promise!File, File, Promise!Error, Error,
               Promise!WalkOp, WalkOp, Promise!Says, Says, Promise!Levels, Levels,
               Promise!RootSet, RootSet, Promise!Below, Below, Promise!Reached, Reached,
               Promise!Enters, Enters, Promise!Entries, Entries, Promise!ReadDir, ReadDir,
               Promise!NoLimit, NoLimit
    <1>6. Promise!Deepest = Deepest
        BY Zenon
        DEF Promise!Deepest, Deepest, Promise!NoLimit, NoLimit, Promise!Cardinality, Cardinality
    <1>7. Promise!RootSet = RootSet
        BY DEF Promise!RootSet, RootSet
    <1>8. Promise!MayEnter = MayEnter /\ Promise!MustEnter = MustEnter
        BY <1>5, <1>6 DEF Promise!MayEnter, MayEnter, Promise!MustEnter, MustEnter, Promise!Entered, Entered
    <1>9. Promise!Yieldable = Yieldable
        BY <1>2, <1>3, <1>7, <1>8 DEF Promise!Yieldable, Yieldable
    <1>10. ASSUME NEW got PROVE Promise!CoversTree(got) = CoversTree(got)
        BY <1>2, <1>3, <1>7, <1>8 DEF Promise!CoversTree, CoversTree
    <1> QED
        BY <1>9, <1>10

\* The caller has what the channel gave it, in its hands or in the buffer; only a
\* walk that is not sorted can be dropped before its end.
Handover ==
    /\ sortMode \in SortMode
    /\ items \in Seq(WalkItem)
    /\ buffer \in Seq(WalkItem)
    /\ given \in Seq(WalkItem)
    /\ owner \in {"walking", "reading", "ended", "dropped"}
    /\ sortMode = "Unsorted" => /\ owner = consumer /\ buffer = <<>>
                                /\ Members(given) = received
    /\ sortMode # "Unsorted" =>
         /\ owner = "walking" => /\ consumer = "reading"
                                 /\ given = <<>> /\ buffer = <<>>
                                 /\ Members(items) = received
         /\ owner # "walking" => consumer = "ended"
         /\ owner = "reading" => Members(given) \cup Members(buffer) = received
         /\ owner = "ended" => buffer = <<>> /\ Members(given) = received

WInv == SInv /\ PInv /\ Handover

\* Every item of a channel or a buffer has a key to be sorted by.
LEMMA SortKeyType ==
    ASSUME PInv, NEW m \in WalkItem
    PROVE  SortKey(m) \in Nat
    <1>1. m.path \in Path
        BY DEF WalkItem
    <1>2. Len(meta.bytes) \in Nat
        BY DEF PInv, ProbeTypeOK, Object
    <1> QED
        BY <1>1, <1>2, WalkerAssumption DEF SortKey, SizeOf

\* Sorting keeps every item.
LEMMA ArrangeElements ==
    ASSUME PInv, NEW got \in Seq(WalkItem)
    PROVE  Arrange(got) \in Seq(WalkItem) /\ Members(Arrange(got)) = Members(got)
    <1> DEFINE errors == Only({ m \in WalkItem : ~IsFile(m) }, got)
               fs == Only({ m \in WalkItem : IsFile(m) }, got)
    <1>1. /\ errors \in Seq(WalkItem)
          /\ Members(errors) = Members(got) \cap { m \in WalkItem : ~IsFile(m) }
        BY OnlyElements
    <1>2. /\ fs \in Seq(WalkItem)
          /\ Members(fs) = Members(got) \cap { m \in WalkItem : IsFile(m) }
        BY OnlyElements
    <1>3. Arrange(got) = errors \o Sorted(fs)
        BY DEF Arrange
    <1> HIDE DEF errors, fs
    <1>4. \A i \in 1 .. Len(fs) : SortKey(fs[i]) \in Nat
        BY <1>2, SortKeyType
    <1>5. Sorted(fs) \in Seq(WalkItem) /\ Members(Sorted(fs)) = Members(fs)
        BY <1>2, <1>4, SortedElements
    <1>6. Arrange(got) \in Seq(WalkItem) /\ Members(Arrange(got)) = Members(errors) \cup Members(Sorted(fs))
        BY <1>1, <1>3, <1>5, MembersOfConcat
    <1>7. Members(got) \subseteq WalkItem
        BY DEF Members
    <1> QED
        BY <1>1, <1>2, <1>5, <1>6, <1>7

LEMMA HandoverInit == WalkerInit => Handover
    BY MembersOfNone DEF WalkerInit, Handover, Init, StreamInit, SortMode

LEMMA HandoverStep == WInv /\ [WalkerNext]_allVars => Handover'
    <1> SUFFICES ASSUME WInv, [WalkerNext]_allVars PROVE Handover'
        OBVIOUS
    <1> USE DEF WInv
    <1>1. /\ Handover /\ PInv /\ channel \in Seq(WalkItem) /\ received \subseteq WalkItem
          /\ consumer \in {"reading", "ended", "dropped"}
        BY DEF SInv, TypeOK, StreamTypeOK
    <1>2. ASSUME NEW s \in Seq(WalkItem), s # <<>>, NEW t \in Seq(WalkItem)
          PROVE  /\ Head(s) \in WalkItem /\ Tail(s) \in Seq(WalkItem)
                 /\ Members(s) = {Head(s)} \cup Members(Tail(s))
                 /\ Append(t, Head(s)) \in Seq(WalkItem)
                 /\ Members(Append(t, Head(s))) = Members(t) \cup {Head(s)}
        <2>1. /\ Head(s) \in WalkItem /\ Tail(s) \in Seq(WalkItem)
              /\ Members(s) = {Head(s)} \cup Members(Tail(s))
            BY <1>2, MembersOfHeadTail
        <2>2. Append(t, Head(s)) \in Seq(WalkItem)
            BY <2>1
        <2> QED
            BY <2>1, <2>2, MembersOfAppend
    <1>3. CASE GiveNext
        <2>1. /\ sortMode = "Unsorted" /\ UNCHANGED <<sortMode, buffer, owner>> /\ items' = items /\ consumer' = consumer
              /\ channel # <<>> /\ given' = Append(given, Head(channel))
              /\ received' = received \cup {Head(channel)}
            BY <1>3 DEF GiveNext, NextItem, Next_Item
        <2>2. given' \in Seq(WalkItem) /\ Members(given') = Members(given) \cup {Head(channel)}
            BY <1>1, <1>2, <2>1 DEF Handover
        <2> QED
            BY <1>1, <2>1, <2>2 DEF Handover
    <1>4. CASE Collect
        <2>1. /\ sortMode # "Unsorted" /\ UNCHANGED <<sortMode, buffer, given, owner>> /\ consumer' = consumer
              /\ channel # <<>> /\ items' = Append(items, Head(channel))
              /\ received' = received \cup {Head(channel)} /\ consumer = "reading"
            BY <1>4 DEF Collect, NextItem, Next_Item
        <2> QED
            BY <1>1, <1>2, <2>1 DEF Handover
    <1>5. CASE StreamEnds \/ DropStream
        <2>1. /\ sortMode = "Unsorted" /\ UNCHANGED <<sortMode, items, buffer, given, received>>
              /\ owner' = consumer' /\ consumer' \in {"ended", "dropped"}
            BY <1>5 DEF StreamEnds, DropStream, NextNone, Next_None, DropIterator, DropIter
        <2> QED
            BY <1>1, <2>1 DEF Handover
    <1>6. CASE WalkReturns
        <2>1. /\ sortMode # "Unsorted" /\ UNCHANGED <<sortMode, items, given, received>> /\ consumer = "reading"
              /\ owner' = "reading" /\ consumer' = "ended" /\ buffer' = Arrange(items)
            BY <1>6 DEF WalkReturns, NextNone, Next_None
        <2>2. buffer' \in Seq(WalkItem) /\ Members(buffer') = Members(items)
            BY <1>1, <2>1, ArrangeElements DEF Handover
        <2> QED
            BY <1>1, <2>1, <2>2, MembersOfNone DEF Handover
    <1>7. CASE GiveBuffered
        <2>1. /\ sortMode # "Unsorted" /\ UNCHANGED <<sortMode, items, owner, received, consumer>>
              /\ owner = "reading" /\ buffer # <<>>
              /\ given' = Append(given, Head(buffer)) /\ buffer' = Tail(buffer)
            BY <1>7 DEF GiveBuffered, Buffered, vars, streamVars
        <2>2. /\ given' \in Seq(WalkItem) /\ Members(given') = Members(given) \cup {Head(buffer)}
              /\ buffer' \in Seq(WalkItem) /\ Members(buffer) = {Head(buffer)} \cup Members(buffer')
            BY <1>1, <1>2, <2>1 DEF Handover
        <2> QED
            BY <1>1, <2>1, <2>2 DEF Handover
    <1>8. CASE BufferEnds
        <2>1. /\ sortMode # "Unsorted" /\ UNCHANGED <<sortMode, items, buffer, given, received, consumer>>
              /\ owner = "reading" /\ buffer = <<>> /\ owner' = "ended"
            BY <1>8 DEF BufferEnds, Buffered, vars, streamVars
        <2> QED
            BY <1>1, <2>1, MembersOfNone DEF Handover
    <1>9. CASE DropBuffer
        <2>1. /\ sortMode # "Unsorted" /\ UNCHANGED <<sortMode, items, given, received, consumer>>
              /\ owner = "reading" /\ buffer' = <<>> /\ owner' = "dropped"
            BY <1>9 DEF DropBuffer, Buffered, vars, streamVars
        <2>2. buffer' \in Seq(WalkItem)
            BY <2>1
        <2> QED
            BY <1>1, <2>1, <2>2 DEF Handover
    <1>10. CASE UNCHANGED <<sortMode, items, buffer, given, owner, received, consumer>>
        BY <1>1, <1>10 DEF Handover
    <1>11. CASE ThreadStep \/ Others \/ AllDone \/ UNCHANGED allVars
        <2>1. VisitEntry => UNCHANGED <<sortMode, items, buffer, given, owner, received, consumer>>
            BY DEF VisitEntry, Visit, VisitAs, walkerVars, streamVars
        <2>2. Deliver => UNCHANGED <<sortMode, items, buffer, given, owner, received, consumer>>
            BY DEF Deliver, Send, SendFails, Return, Enqueue, walkerVars, streamVars
        <2>3. Probe \/ Others \/ UNCHANGED allVars =>
                UNCHANGED <<sortMode, items, buffer, given, owner, received, consumer>>
            BY DEF Probe, Others, allVars, vars, walkerVars, streamVars
        <2> QED
            BY <1>10, <1>11, <2>1, <2>2, <2>3 DEF ThreadStep, AllDone
    <1> QED
        BY <1>3, <1>4, <1>5, <1>6, <1>7, <1>8, <1>9, <1>11 DEF WalkerNext, CallerStep

LEMMA WInvHolds ==
    ASSUME SameUnderEveryName
    PROVE  WalkerSpec => []WInv
    <1>1. WalkerInit => WInv
        BY InitSInv, ProbeInitInv, HandoverInit DEF WalkerInit, WInv
    <1>2. WInv /\ [WalkerNext]_allVars => WInv'
        BY WalkerStepIsThreadStep, NextSInv, WalkerStepInv, HandoverStep DEF WInv
    <1> QED
        BY <1>1, <1>2, PTL DEF WalkerSpec

\* A step of Walker, as the owner of the iterator sees it.
LEMMA PromiseStep ==
    ASSUME WInv, WInv', [WalkerNext]_allVars
    PROVE  [Promise!Next]_(Promise!contractVars)
    <1> DEFINE stream == IF owner = "walking" \/ owner = "reading" THEN "open" ELSE owner
    <1>1. /\ SInv /\ Handover /\ Handover'
          /\ channel \in Seq(WalkItem) /\ given \in Seq(WalkItem) /\ buffer \in Seq(WalkItem)
        BY DEF WInv, SInv, TypeOK, StreamTypeOK, Handover
    <1>2. Promise!contractVars = <<Members(given), stream>>
        BY DEF Promise!contractVars, Members
    <1>3. Promise!contractVars' = <<Members(given'), stream'>>
        BY DEF Promise!contractVars, Members
    <1> USE SameContract
    <1>4. ASSUME NEW m \in Yieldable, Members(given') = Members(given) \cup {m},
                 stream = "open", stream' = "open"
          PROVE  [Promise!Next]_(Promise!contractVars)
        <2>1. CASE m \in Members(given)
            BY <1>2, <1>3, <1>4, <2>1
        <2>2. CASE m \notin Members(given)
            <3>1. Promise!Deliver
                BY <1>4, <2>2 DEF Promise!Deliver, Members
            <3> QED
                BY <3>1 DEF Promise!Next
        <2> QED
            BY <2>1, <2>2
    <1>5. ASSUME given' = given, stream = "open", stream' = "ended", CoversTree(Members(given))
          PROVE  [Promise!Next]_(Promise!contractVars)
        BY <1>5 DEF Promise!Next, Promise!End, Members
    <1>6. ASSUME given' = given, stream = "open", stream' = "dropped"
          PROVE  [Promise!Next]_(Promise!contractVars)
        BY <1>6 DEF Promise!Next, Promise!Drop, Members
    <1>7. ASSUME given' = given, owner' = owner
          PROVE  [Promise!Next]_(Promise!contractVars)
        BY <1>2, <1>3, <1>7
    <1> HIDE DEF stream
    <1>8. CASE GiveNext
        <2>1. /\ sortMode = "Unsorted" /\ owner' = owner /\ consumer = "reading" /\ channel # <<>>
              /\ given' = Append(given, Head(channel))
            BY <1>8 DEF GiveNext, NextItem, Next_Item
        <2>2. /\ Head(channel) \in WalkItem
              /\ Head(channel) \in Members(channel)
            BY <1>1, <2>1, MembersOfHeadTail
        <2>3. Head(channel) \in Yieldable
            BY <1>1, <2>2 DEF SInv, Justified
        <2>4. Members(given') = Members(given) \cup {Head(channel)}
            BY <1>1, <2>1, <2>2, MembersOfAppend
        <2>5. stream = "open" /\ stream' = "open"
            BY <1>1, <2>1 DEF Handover, stream
        <2> QED
            BY <1>4, <2>3, <2>4, <2>5
    <1>9. CASE GiveBuffered
        <2>1. /\ sortMode # "Unsorted" /\ owner' = owner /\ owner = "reading" /\ buffer # <<>>
              /\ given' = Append(given, Head(buffer))
            BY <1>9 DEF GiveBuffered, Buffered
        <2>2. Head(buffer) \in WalkItem /\ Head(buffer) \in Members(buffer)
            BY <1>1, <2>1, MembersOfHeadTail
        <2>3. Head(buffer) \in Yieldable
            BY <1>1, <2>1, <2>2 DEF SInv, Justified, Handover
        <2>4. Members(given') = Members(given) \cup {Head(buffer)}
            BY <1>1, <2>1, <2>2, MembersOfAppend
        <2>5. stream = "open" /\ stream' = "open"
            BY <2>1 DEF stream
        <2> QED
            BY <1>4, <2>3, <2>4, <2>5
    <1>10. CASE StreamEnds
        <2>1. /\ sortMode = "Unsorted" /\ given' = given /\ owner' = "ended" /\ sortMode' = sortMode
              /\ consumer = "reading" /\ consumer' = "ended" /\ received' = received
            BY <1>10 DEF StreamEnds, NextNone, Next_None
        <2>2. CoversTree(received)
            BY <2>1 DEF WInv, SInv, Accounted
        <2>3. stream = "open" /\ stream' = "ended" /\ Members(given) = received
            BY <1>1, <2>1 DEF Handover, stream
        <2> QED
            BY <1>5, <2>1, <2>2, <2>3
    <1>11. CASE BufferEnds
        <2>1. /\ sortMode # "Unsorted" /\ given' = given /\ owner = "reading" /\ owner' = "ended"
              /\ buffer = <<>>
            BY <1>11 DEF BufferEnds, Buffered
        <2>2. consumer = "ended" /\ Members(given) = received
            BY <1>1, <2>1, MembersOfNone DEF Handover
        <2>3. CoversTree(Members(given))
            BY <1>1, <2>2 DEF SInv, Accounted
        <2>4. stream = "open" /\ stream' = "ended"
            BY <2>1 DEF stream
        <2> QED
            BY <1>5, <2>1, <2>3, <2>4
    <1>12. CASE DropStream \/ DropBuffer
        <2>1. given' = given /\ owner' = "dropped"
            BY <1>12 DEF DropStream, DropBuffer
        <2>2. owner = "reading"
            BY <1>1, <1>12 DEF DropStream, DropBuffer, Buffered, DropIterator, DropIter, Handover
        <2>3. stream = "open" /\ stream' = "dropped"
            BY <2>1, <2>2 DEF stream
        <2> QED
            BY <1>6, <2>1, <2>3
    <1>13. CASE WalkReturns
        <2>1. /\ given' = given /\ owner' = "reading" /\ sortMode # "Unsorted" /\ consumer = "reading"
            BY <1>13 DEF WalkReturns, NextNone, Next_None
        <2>2. owner = "walking"
            BY <1>1, <2>1 DEF Handover
        <2>3. stream = "open" /\ stream' = "open"
            BY <2>1, <2>2 DEF stream
        <2> QED
            BY <1>2, <1>3, <2>1, <2>3
    <1>14. CASE ThreadStep \/ Others \/ Collect \/ AllDone \/ UNCHANGED allVars
        <2>1. given' = given /\ owner' = owner
            BY <1>14 DEF ThreadStep, Probe, VisitEntry, Deliver, Others, Collect, AllDone, allVars, walkerVars
        <2> QED
            BY <1>7, <2>1
    <1> QED
        BY <1>8, <1>9, <1>10, <1>11, <1>12, <1>13, <1>14 DEF WalkerNext, CallerStep

\* Walker implements WalkContract, but for its liveness: in every tree whose
\* directories are the same under every name, in every sort mode and at every depth
\* limit, with a file that changes under the probe, the iterator gives out only what
\* the tree justifies and comes to its end only when nothing is missing.
THEOREM WalkIsSafe ==
    ASSUME SameUnderEveryName
    PROVE  WalkerSpec => Promise!Init /\ [][Promise!Next]_(Promise!contractVars)
    <1>1. WalkerInit => Promise!Init
        BY DEF WalkerInit, Promise!Init, SortMode
    <1>2. WInv /\ WInv' /\ [WalkerNext]_allVars => [Promise!Next]_(Promise!contractVars)
        BY PromiseStep
    <1> QED
        BY <1>1, <1>2, WInvHolds, PTL DEF WalkerSpec

-----------------------------------------------------------------------------
(* What the caller is given: each file once, and in the order asked for.   *)

OnceEach(s) == \A i, j \in 1 .. Len(s) : IsFile(s[i]) /\ s[i] = s[j] => i = j

LEMMA OnceEachAppend ==
    ASSUME NEW s \in Seq(WalkItem), NEW m \in WalkItem,
           OnceEach(s), IsFile(m) => m \notin Members(s)
    PROVE  OnceEach(Append(s, m))
    <1>1. /\ Len(Append(s, m)) = Len(s) + 1 /\ Len(s) \in Nat
          /\ Append(s, m)[Len(s) + 1] = m
          /\ \A i \in 1 .. Len(s) : Append(s, m)[i] = s[i]
        OBVIOUS
    <1>2. \A i \in 1 .. Len(s) + 1 : i \in 1 .. Len(s) \/ i = Len(s) + 1
        BY <1>1
    <1>3. \A i \in 1 .. Len(s) : s[i] \in Members(s)
        BY DEF Members
    <1> HIDE DEF Members
    <1>4. \A i \in 1 .. Len(s) : IsFile(m) => s[i] # m
        BY <1>3
    <1>5. \A i \in 1 .. Len(s) : IsFile(s[i]) => s[i] # m
        BY <1>4
    <1> DEFINE t == Append(s, m)
    <1>6. /\ Len(t) = Len(s) + 1 /\ t[Len(s) + 1] = m
          /\ \A i \in 1 .. Len(s) : t[i] = s[i]
        BY <1>1
    <1> HIDE DEF t
    <1>7. ASSUME NEW i \in 1 .. Len(t), NEW j \in 1 .. Len(t), IsFile(t[i]), t[i] = t[j]
          PROVE  i = j
        <2>1. CASE i \in 1 .. Len(s) /\ j \in 1 .. Len(s)
            BY <1>6, <1>7, <2>1 DEF OnceEach
        <2>2. CASE i = Len(s) + 1 \/ j = Len(s) + 1
            BY <1>2, <1>4, <1>5, <1>6, <1>7, <2>2
        <2> QED
            BY <1>2, <1>6, <2>1, <2>2
    <1> QED
        BY <1>7 DEF OnceEach, t

LEMMA OnceEachTail ==
    ASSUME NEW s \in Seq(WalkItem), s # <<>>, OnceEach(s)
    PROVE  OnceEach(Tail(s)) /\ (IsFile(Head(s)) => Head(s) \notin Members(Tail(s)))
    <1> DEFINE t == Tail(s)
    <1>1. /\ Len(s) \in Nat \ {0} /\ Len(t) = Len(s) - 1 /\ Head(s) = s[1]
          /\ \A i \in 1 .. Len(s) - 1 : t[i] = s[i + 1]
        OBVIOUS
    <1> HIDE DEF t
    <1>2. 1 \in 1 .. Len(s) /\ \A i \in 1 .. Len(t) : i + 1 \in 1 .. Len(s) /\ t[i] = s[i + 1] /\ i + 1 # 1
        BY <1>1
    <1>3. ASSUME NEW i \in 1 .. Len(t), NEW j \in 1 .. Len(t), IsFile(t[i]), t[i] = t[j]
          PROVE  i = j
        <2>1. i + 1 = j + 1
            BY <1>2, <1>3 DEF OnceEach
        <2> QED
            BY <1>1, <2>1
    <1>4. ASSUME IsFile(Head(s)), NEW i \in 1 .. Len(t) PROVE t[i] # Head(s)
        BY <1>1, <1>2, <1>4 DEF OnceEach
    <1>5. IsFile(Head(s)) => Head(s) \notin Members(t)
        BY <1>4 DEF Members
    <1> QED
        BY <1>3, <1>5 DEF OnceEach, t

\* What holds no file holds none twice.
LEMMA OnceEachOfErrors ==
    ASSUME NEW s, \A m \in Members(s) : ~IsFile(m)
    PROVE  OnceEach(s)
    BY DEF OnceEach, Members

LEMMA OnceEachConcat ==
    ASSUME NEW s \in Seq(WalkItem), NEW t \in Seq(WalkItem), OnceEach(t),
           \A m \in Members(s) : ~IsFile(m)
    PROVE  OnceEach(s \o t)
    <1> DEFINE u == s \o t
    <1>1. /\ Len(u) = Len(s) + Len(t) /\ Len(s) \in Nat /\ Len(t) \in Nat
          /\ \A i \in 1 .. Len(s) : u[i] = s[i]
          /\ \A i \in 1 .. Len(t) : u[Len(s) + i] = t[i]
        OBVIOUS
    <1> HIDE DEF u
    <1>2. \A i \in 1 .. Len(u) : i \notin 1 .. Len(s) => i - Len(s) \in 1 .. Len(t) /\ u[i] = t[i - Len(s)]
        <2> SUFFICES ASSUME NEW i \in 1 .. Len(u), i \notin 1 .. Len(s)
                     PROVE  i - Len(s) \in 1 .. Len(t) /\ u[i] = t[i - Len(s)]
            OBVIOUS
        <2>1. i - Len(s) \in 1 .. Len(t) /\ Len(s) + (i - Len(s)) = i
            BY <1>1
        <2> QED
            BY <1>1, <2>1
    <1>3. \A i \in 1 .. Len(s) : ~IsFile(u[i])
        BY <1>1 DEF Members
    <1>4. ASSUME NEW i \in 1 .. Len(u), NEW j \in 1 .. Len(u), IsFile(u[i]), u[i] = u[j]
          PROVE  i = j
        <2>1. i \notin 1 .. Len(s) /\ j \notin 1 .. Len(s)
            BY <1>3, <1>4
        <2>2. i - Len(s) = j - Len(s)
            BY <1>2, <1>4, <2>1 DEF OnceEach
        <2> QED
            BY <1>1, <2>2
    <1> QED
        BY <1>4 DEF OnceEach, u

\* The beginning of such a sequence is such a sequence.
LEMMA OnceEachFirst ==
    ASSUME NEW s \in Seq(WalkItem), NEW t \in Seq(WalkItem), OnceEach(s \o t)
    PROVE  OnceEach(s)
    <1> DEFINE u == s \o t
    <1>1. /\ \A i \in 1 .. Len(s) : i \in 1 .. Len(u)
          /\ \A i \in 1 .. Len(s) : u[i] = s[i]
        OBVIOUS
    <1> HIDE DEF u
    <1>2. OnceEach(u)
        BY DEF u
    <1> QED
        BY <1>1, <1>2 DEF OnceEach

LEMMA OnceEachOnly ==
    ASSUME NEW S, NEW ps \in Seq(WalkItem), OnceEach(ps)
    PROVE  OnceEach(Only(S, ps))
    <1>1. PICK upto :
            /\ upto[0] = <<>>
            /\ \A n \in 1 .. Len(ps) :
                 upto[n] = IF ps[n] \in S THEN Append(upto[n - 1], ps[n]) ELSE upto[n - 1]
            /\ Only(S, ps) = upto[Len(ps)]
        BY OnlyEquation
    <1> DEFINE Sound(n) == /\ upto[n] \in Seq(WalkItem)
                           /\ OnceEach(upto[n])
                           /\ \A m \in Members(upto[n]) : \E i \in 1 .. n : m = ps[i]
               T == { n \in Nat : n <= Len(ps) => Sound(n) }
    <1>2. 0 \in T
        <2>1. upto[0] \in Seq(WalkItem) /\ Members(upto[0]) = {}
            BY <1>1 DEF Members
        <2>2. OnceEach(upto[0])
            BY <2>1, OnceEachOfErrors
        <2> QED
            BY <2>1, <2>2
    <1>3. ASSUME NEW n \in Nat, n \in T PROVE n + 1 \in T
        <2> SUFFICES ASSUME n + 1 <= Len(ps) PROVE Sound(n + 1)
            OBVIOUS
        <2>1. /\ upto[n + 1] = IF ps[n + 1] \in S THEN Append(upto[n], ps[n + 1]) ELSE upto[n]
              /\ ps[n + 1] \in WalkItem /\ n + 1 \in 1 .. Len(ps)
              /\ \A i \in 1 .. n : i \in 1 .. Len(ps) /\ i # n + 1 /\ i \in 1 .. n + 1
            BY <1>1
        <2>2. Sound(n)
            BY <1>3
        <2>3. Members(Append(upto[n], ps[n + 1])) = Members(upto[n]) \cup {ps[n + 1]}
            BY <2>1, <2>2, MembersOfAppend
        <2>4. IsFile(ps[n + 1]) => ps[n + 1] \notin Members(upto[n])
            BY <2>1, <2>2 DEF OnceEach
        <2>5. OnceEach(Append(upto[n], ps[n + 1]))
            BY <2>1, <2>2, <2>4, OnceEachAppend
        <2>6. n + 1 \in 1 .. n + 1
            OBVIOUS
        <2>7. CASE ps[n + 1] \in S
            BY <2>1, <2>2, <2>3, <2>5, <2>6, <2>7
        <2>8. CASE ps[n + 1] \notin S
            BY <2>1, <2>2, <2>8
        <2> QED
            BY <2>7, <2>8
    <1>4. Nat \subseteq T
        <2> HIDE DEF T
        <2> QED
            BY <1>2, <1>3, Induction
    <1>5. Len(ps) \in T
        <2> HIDE DEF T
        <2> QED
            BY <1>4
    <1> QED
        BY <1>1, <1>5

\* A sorted sequence holds each file as often as the one it was made of.
LEMMA OnceEachSorted ==
    ASSUME NEW from \in Seq(WalkItem), NEW to, OnceEach(from), NEW key, StablySorted(key, from, to)
    PROVE  OnceEach(to)
    <1> DEFINE I == 1 .. Len(from)
    <1>1. PICK at \in Bijection(I, I) : to = [n \in I |-> from[at[n]]]
        BY DEF StablySorted
    <1>2. at \in [I -> I] /\ \A m, n \in I : at[m] = at[n] => m = n
        BY <1>1 DEF Bijection, Injection, IsInjective
    <1>3. Len(to) = Len(from) /\ \A n \in I : to[n] = from[at[n]]
        BY <1>1
    <1>4. ASSUME NEW m \in I, NEW n \in I, IsFile(to[m]), to[m] = to[n] PROVE m = n
        BY <1>2, <1>3, <1>4 DEF OnceEach
    <1> QED
        BY <1>3, <1>4 DEF OnceEach

LEMMA OnceEachArranged ==
    ASSUME PInv, NEW got \in Seq(WalkItem), OnceEach(got)
    PROVE  OnceEach(Arrange(got))
    <1> DEFINE errors == Only({ m \in WalkItem : ~IsFile(m) }, got)
               fs == Only({ m \in WalkItem : IsFile(m) }, got)
    <1>1. errors \in Seq(WalkItem) /\ \A m \in Members(errors) : ~IsFile(m)
        BY OnlyElements
    <1>2. fs \in Seq(WalkItem) /\ OnceEach(fs)
        BY OnlyElements, OnceEachOnly
    <1>3. Arrange(got) = errors \o Sorted(fs)
        BY DEF Arrange
    <1> HIDE DEF errors, fs
    <1>4. \A i \in 1 .. Len(fs) : SortKey(fs[i]) \in Nat
        BY <1>2, SortKeyType
    <1>5. Sorted(fs) \in Seq(WalkItem) /\ StablySorted(Keys, fs, Sorted(fs))
        BY <1>2, <1>4, SortedElements
    <1> QED
        BY <1>1, <1>2, <1>3, <1>5, OnceEachSorted, OnceEachConcat

-----------------------------------------------------------------------------

\* What the thread has made of a file is in one place, and its path is claimed.
Apart ==
    /\ OnceEach(out)
    /\ OnceEach(channel)
    /\ \A m \in WalkItem : IsFile(m) =>
         /\ m \in Members(out) \/ m \in Members(channel) \/ m \in received =>
              m.path \in visitedFiles
         /\ m \in Members(out) => m \notin Members(channel) /\ m \notin received
         /\ m \in Members(channel) => m \notin received

\* Errors are no files.
LEMMA ErrorsAreNoFiles ==
    /\ \A op \in WalkOp : \A p : ~IsFile(Error(op, p))
    /\ \A ps \in Seq(Path) : \A m \in Members(LongErrors(ps)) : ~IsFile(m)
    <1>1. \A op \in WalkOp : \A p : ~IsFile(Error(op, p))
        BY DEF WalkOp, Error, IsFile
    <1>2. "Metadata" \in WalkOp
        BY DEF WalkOp
    <1> QED
        BY <1>1, <1>2, LongErrorsElements

LEMMA ApartInit == Init => Apart
    <1> SUFFICES ASSUME Init PROVE Apart
        OBVIOUS
    <1>1. out = LongErrors(Roots) /\ channel = <<>> /\ received = {}
        BY DEF Init, StreamInit
    <1>2. \A m \in Members(out) : ~IsFile(m)
        BY <1>1, ErrorsAreNoFiles, TreeAssumption
    <1>3. OnceEach(out) /\ OnceEach(channel) /\ Members(channel) = {}
        BY <1>1, <1>2, OnceEachOfErrors, MembersOfNone
    <1> QED
        BY <1>1, <1>2, <1>3 DEF Apart

\* The listing of a directory makes errors only.
LEMMA ListingMakesErrors ==
    ASSUME NEW e \in Entry, EnterDir(e)
    PROVE  \A m \in Members(out') : ~IsFile(m)
    <1>1. e.path \in Path /\ Tree[e.path].children \in Seq(Path)
        BY NodeType DEF Entry
    <1>2. "ReadDir" \in WalkOp
        BY DEF WalkOp
    <1>3. CASE out' = <<>>
        BY <1>3, MembersOfNone
    <1>4. CASE out' = <<Error("ReadDir", e.path)>>
        BY <1>2, <1>4, MembersOfOne, ErrorsAreNoFiles
    <1>5. CASE out' = [i \in 1 .. Tree[e.path].entryErrors |-> Error("ReadDir", e.path)]
                        \o LongErrors(Tree[e.path].children)
        <2> DEFINE errors == [i \in 1 .. Tree[e.path].entryErrors |-> Error("ReadDir", e.path)]
        <2>1. errors \in Seq(WalkItem) /\ LongErrors(Tree[e.path].children) \in Seq(WalkItem)
            BY <1>1, RepeatedErrorType, LongErrorsType
        <2>2. \A m \in Members(errors) : m = Error("ReadDir", e.path)
            <3>1. Len(errors) = Tree[e.path].entryErrors
                BY <1>1, NodeType
            <3> QED
                BY <3>1 DEF Members
        <2> HIDE DEF errors
        <2>3. Members(out') = Members(errors) \cup Members(LongErrors(Tree[e.path].children))
            BY <1>5, <2>1, MembersOfConcat DEF errors
        <2> QED
            BY <1>1, <1>2, <2>2, <2>3, ErrorsAreNoFiles
    <1> QED
        BY <1>3, <1>4, <1>5, Zenon DEF EnterDir

LEMMA VisitApart ==
    ASSUME TypeOK, Apart, NEW o \in Outcome, VisitAs(o)
    PROVE  Apart'
    <1> DEFINE e == Head(queue)
    <1>1. /\ queue # <<>> /\ queue \in Seq(Entry) /\ out = <<>> /\ UNCHANGED <<channel, received>>
        BY DEF VisitAs, streamVars, TypeOK
    <1>2. e \in Entry
        BY <1>1, HeadTail
    <1>3. ASSUME \A m \in Members(out') : ~IsFile(m), visitedFiles' = visitedFiles
          PROVE  Apart'
        BY <1>1, <1>3, OnceEachOfErrors DEF Apart
    <1> HIDE DEF e
    <1>4. CASE EnterDir(e)
        BY <1>2, <1>3, <1>4, ListingMakesErrors DEF EnterDir
    <1>5. CASE /\ e.path \notin visitedFiles /\ out' = <<File(e.path)>>
               /\ visitedFiles' = visitedFiles \cup {e.path}
        <2>1. OnceEach(out') /\ Members(out') = {File(e.path)}
            BY <1>5, MembersOfOne DEF OnceEach
        <2>2. File(e.path).path = e.path
            BY DEF File
        <2> QED
            BY <1>1, <1>5, <2>1, <2>2 DEF Apart
    <1>6. CASE o \in WalkOp /\ out' = <<Error(o, e.path)>> /\ visitedFiles' = visitedFiles
        BY <1>3, <1>6, MembersOfOne, ErrorsAreNoFiles
    <1>7. CASE out' = out /\ visitedFiles' = visitedFiles
        BY <1>1, <1>3, <1>7, MembersOfNone
    <1> QED
        BY <1>4, <1>5, <1>6, <1>7 DEF VisitAs, e

LEMMA ApartNext == TypeOK /\ Apart /\ [Next]_vars => Apart'
    <1> SUFFICES ASSUME TypeOK, Apart, [Next]_vars PROVE Apart'
        OBVIOUS
    <1>1. out \in Seq(WalkItem) /\ channel \in Seq(WalkItem)
        BY DEF TypeOK, StreamTypeOK
    <1>2. CASE Visit
        BY <1>2, VisitApart DEF Visit
    <1>3. CASE Send
        <2>1. /\ out # <<>> /\ channel' = Append(channel, Head(out)) /\ out' = Tail(out)
              /\ UNCHANGED <<received, visitedFiles>>
            BY <1>3 DEF Send, Enqueue
        <2>2. /\ Head(out) \in WalkItem
              /\ Members(out) = {Head(out)} \cup Members(out')
              /\ Members(channel') = Members(channel) \cup {Head(out)}
            BY <1>1, <2>1, MembersOfHeadTail, MembersOfAppend
        <2>3. OnceEach(out') /\ (IsFile(Head(out)) => Head(out) \notin Members(out'))
            BY <1>1, <2>1, OnceEachTail DEF Apart
        <2>4. OnceEach(channel')
            BY <1>1, <2>1, <2>2, OnceEachAppend DEF Apart
        <2> QED
            BY <2>1, <2>2, <2>3, <2>4 DEF Apart
    <1>4. CASE SendFails
        <2>1. out # <<>> /\ out' = Tail(out) /\ UNCHANGED <<channel, received, visitedFiles>>
            BY <1>4 DEF SendFails, streamVars
        <2>2. OnceEach(out') /\ Members(out') \subseteq Members(out)
            BY <1>1, <2>1, OnceEachTail, MembersOfHeadTail DEF Apart
        <2> QED
            BY <2>1, <2>2 DEF Apart
    <1>5. CASE NextItem
        <2>1. /\ channel # <<>> /\ received' = received \cup {Head(channel)}
              /\ channel' = Tail(channel) /\ UNCHANGED <<out, visitedFiles>>
            BY <1>5 DEF NextItem, Next_Item, walkVars
        <2>2. Members(channel) = {Head(channel)} \cup Members(channel')
            BY <1>1, <2>1, MembersOfHeadTail
        <2>3. OnceEach(channel') /\ (IsFile(Head(channel)) => Head(channel) \notin Members(channel'))
            BY <1>1, <2>1, OnceEachTail DEF Apart
        <2> QED
            BY <2>1, <2>2, <2>3 DEF Apart
    <1>6. CASE DropIterator
        <2>1. channel' = <<>> /\ UNCHANGED <<received, out, visitedFiles>>
            BY <1>6 DEF DropIterator, DropIter, walkVars
        <2>2. Members(channel') = {} /\ OnceEach(channel')
            BY <2>1, MembersOfNone, OnceEachOfErrors
        <2> QED
            BY <2>1, <2>2 DEF Apart
    <1>7. CASE UNCHANGED <<channel, received, out, visitedFiles>>
        BY <1>7 DEF Apart
    <1>8. CASE Return \/ NextNone \/ Terminated \/ UNCHANGED vars
        BY <1>7, <1>8
        DEF Return, NextNone, Next_None, Terminated, vars, walkVars, streamVars
    <1> QED
        BY <1>2, <1>3, <1>4, <1>5, <1>6, <1>8 DEF Next, WalkStep

CollectedErrors == Only({ m \in WalkItem : ~IsFile(m) }, items)

CollectedFiles == Only({ m \in WalkItem : IsFile(m) }, items)

All == given \o buffer

InOrder ==
    /\ SubSeq(All, 1, Len(CollectedErrors)) = CollectedErrors
    /\ StablySorted(Keys, CollectedFiles, SubSeq(All, Len(CollectedErrors) + 1, Len(All)))

\* The buffer is made once, of all that was collected, and only handed on after that;
\* by then the thread has gone and the measured size stays what it was.
Kept ==
    /\ OnceEach(items)
    /\ OnceEach(given \o buffer)
    /\ sortMode # "Unsorted" /\ owner # "walking" => ~running
    /\ sortMode # "Unsorted" /\ owner \in {"reading", "ended"} =>
         InOrder

LEMMA KeptInit == WalkerInit => Kept
    <1> SUFFICES ASSUME WalkerInit PROVE Kept
        OBVIOUS
    <1>1. /\ items = <<>> /\ given \o buffer = <<>>
          /\ sortMode # "Unsorted" => owner = "walking"
        BY DEF WalkerInit
    <1> QED
        BY <1>1, MembersOfNone, OnceEachOfErrors DEF Kept

\* What has been given and what is left to give do not change when the next is given.
LEMMA GivingKeeps ==
    ASSUME NEW s \in Seq(WalkItem), NEW t \in Seq(WalkItem), t # <<>>
    PROVE  Append(s, Head(t)) \o Tail(t) = s \o t
    <1>1. /\ Head(t) \in WalkItem /\ Tail(t) \in Seq(WalkItem) /\ t = <<Head(t)>> \o Tail(t)
        BY HeadTailProperties, HeadTail
    <1>2. <<Head(t)>> \in Seq(WalkItem) /\ Append(s, Head(t)) = s \o <<Head(t)>>
        BY <1>1, AppendIsConcat
    <1>3. (s \o <<Head(t)>>) \o Tail(t) = s \o (<<Head(t)>> \o Tail(t))
        BY <1>1, <1>2, ConcatAssociative
    <1> QED
        BY <1>1, <1>2, <1>3, Zenon

\* The parts of a concatenation.
LEMMA PartsOfConcat ==
    ASSUME NEW s \in Seq(WalkItem), NEW t \in Seq(WalkItem)
    PROVE  /\ SubSeq(s \o t, 1, Len(s)) = s
           /\ SubSeq(s \o t, Len(s) + 1, Len(s \o t)) = t
    <1> DEFINE u == s \o t
               v == SubSeq(u, 1, Len(s))
               w == SubSeq(u, Len(s) + 1, Len(u))
    <1>1. /\ u \in Seq(WalkItem) /\ Len(u) = Len(s) + Len(t) /\ Len(s) \in Nat /\ Len(t) \in Nat
          /\ \A i \in 1 .. Len(s) : u[i] = s[i]
          /\ \A i \in 1 .. Len(t) : u[Len(s) + i] = t[i]
        OBVIOUS
    <1> HIDE DEF u
    <1>2. \A i \in 1 .. Len(s) : i \in 1 .. Len(u)
        BY <1>1
    <1>3. v \in Seq(WalkItem) /\ Len(v) = Len(s) /\ \A i \in 1 .. Len(s) : v[i] = u[i]
        BY <1>1, <1>2
    <1>4. w \in Seq(WalkItem) /\ Len(w) = Len(t) /\ \A i \in 1 .. Len(t) : w[i] = u[Len(s) + i]
        BY <1>1
    <1> HIDE DEF v, w
    <1>5. v = s
        BY <1>1, <1>3, SeqEqual
    <1>6. w = t
        BY <1>1, <1>4, SeqEqual
    <1> QED
        BY <1>5, <1>6 DEF u, v, w

\* The order does not depend on when it is looked at, once the keys do not change.
LEMMA OrderStays ==
    ASSUME UNCHANGED <<sortMode, items, meta>>,
           SubSeq(All', 1, Len(CollectedErrors)) = CollectedErrors,
           StablySorted(Keys, CollectedFiles, SubSeq(All', Len(CollectedErrors) + 1, Len(All')))
    PROVE  InOrder'
    <1>1. CollectedErrors' = CollectedErrors /\ CollectedFiles' = CollectedFiles
        BY DEF CollectedErrors, CollectedFiles
    <1>2. Keys' = Keys
        BY DEF Keys, SortKey, SizeOf
    <1>3. StablySorted(Keys, CollectedFiles, SubSeq(All, Len(CollectedErrors) + 1, Len(All)))'
        BY <1>1, <1>2
    <1> QED
        BY <1>1, <1>3 DEF InOrder

LEMMA KeptStep == WInv /\ Apart /\ Kept /\ [WalkerNext]_allVars => Kept'
    <1> SUFFICES ASSUME WInv, Apart, Kept, [WalkerNext]_allVars PROVE Kept'
        OBVIOUS
    <1>1. /\ Handover /\ PInv
          /\ channel \in Seq(WalkItem) /\ given \in Seq(WalkItem) /\ items \in Seq(WalkItem)
          /\ buffer \in Seq(WalkItem)
        BY DEF WInv, SInv, TypeOK, StreamTypeOK, Handover
    <1>2. (\A s \in Seq(WalkItem) : s \o <<>> = s) /\ \A s \in Seq(WalkItem) : <<>> \o s = s
        BY ConcatEmptySeq
    <1>3. CASE GiveNext
        <2>1. /\ sortMode = "Unsorted" /\ sortMode' = sortMode /\ items' = items /\ buffer' = buffer
              /\ channel # <<>> /\ given' = Append(given, Head(channel))
            BY <1>3 DEF GiveNext, NextItem, Next_Item
        <2>2. Head(channel) \in WalkItem /\ Head(channel) \in Members(channel)
            BY <1>1, <2>1, MembersOfHeadTail
        <2>3. buffer = <<>> /\ Members(given) = received
            BY <1>1, <2>1 DEF Handover
        <2>4. given \o buffer = given /\ given' \in Seq(WalkItem)
            BY <1>1, <1>2, <2>1, <2>2, <2>3
        <2>5. given' \o buffer' = given'
            BY <1>2, <2>1, <2>3, <2>4
        <2>6. OnceEach(given')
            BY <1>1, <2>1, <2>2, <2>3, <2>4, OnceEachAppend DEF Kept, Apart
        <2> QED
            BY <2>1, <2>5, <2>6 DEF Kept, OnceEach
    <1>4. CASE Collect
        <2>1. /\ sortMode # "Unsorted" /\ UNCHANGED <<sortMode, buffer, given, owner>>
              /\ channel # <<>> /\ items' = Append(items, Head(channel)) /\ consumer = "reading"
            BY <1>4 DEF Collect, NextItem, Next_Item
        <2>2. Head(channel) \in WalkItem /\ Head(channel) \in Members(channel)
            BY <1>1, <2>1, MembersOfHeadTail
        <2>3. owner = "walking" /\ Members(items) = received
            BY <1>1, <2>1 DEF Handover
        <2>4. OnceEach(items')
            BY <1>1, <2>1, <2>2, <2>3, OnceEachAppend DEF Kept, Apart
        <2>5. given' \o buffer' = given \o buffer
            BY <2>1
        <2> QED
            BY <2>1, <2>3, <2>4, <2>5 DEF Kept, OnceEach
    <1>5. CASE WalkReturns
        <2>1. /\ sortMode # "Unsorted" /\ UNCHANGED <<sortMode, items, given, running>>
              /\ consumer = "reading" /\ ~running /\ buffer' = Arrange(items)
              /\ UNCHANGED <<liveVars, probeVars>>
            BY <1>5 DEF WalkReturns, NextNone, Next_None, walkVars
        <2>2. given = <<>>
            BY <1>1, <2>1 DEF Handover
        <2>3. Arrange(items) \in Seq(WalkItem) /\ OnceEach(Arrange(items))
            BY <1>1, ArrangeElements, OnceEachArranged DEF Kept
        <2>4. All' = Arrange(items)
            BY <1>2, <2>1, <2>2, <2>3 DEF All
        <2>5. /\ CollectedErrors \in Seq(WalkItem) /\ CollectedFiles \in Seq(WalkItem)
              /\ Arrange(items) = CollectedErrors \o Sorted(CollectedFiles)
            BY <1>1, OnlyElements DEF CollectedErrors, CollectedFiles, Arrange
        <2>6. \A i \in 1 .. Len(CollectedFiles) : SortKey(CollectedFiles[i]) \in Nat
            BY <1>1, <2>5, SortKeyType
        <2>7. /\ Sorted(CollectedFiles) \in Seq(WalkItem)
              /\ StablySorted(Keys, CollectedFiles, Sorted(CollectedFiles))
            BY <2>5, <2>6, SortedElements
        <2>8. /\ SubSeq(All', 1, Len(CollectedErrors)) = CollectedErrors
              /\ SubSeq(All', Len(CollectedErrors) + 1, Len(All')) = Sorted(CollectedFiles)
            BY <2>4, <2>5, <2>7, PartsOfConcat
        <2>9. UNCHANGED <<sortMode, items, meta>>
            BY <2>1 DEF probeVars
        <2>10. InOrder'
            BY <2>7, <2>8, <2>9, OrderStays
        <2>11. OnceEach(items)' /\ OnceEach(given \o buffer)'
            BY <2>1, <2>3, <2>4 DEF Kept, OnceEach, All
        <2> QED
            BY <2>1, <2>10, <2>11 DEF Kept
    <1>6. ASSUME UNCHANGED <<sortMode, items>>, given' \o buffer' = given \o buffer,
                 sortMode # "Unsorted" /\ owner # "walking" => meta' = meta /\ running' = running,
                 sortMode # "Unsorted" => owner' = owner \/ owner = "reading"
          PROVE  Kept'
        <2>1. OnceEach(items') /\ OnceEach(given' \o buffer')
            BY <1>6 DEF Kept
        <2>2. sortMode # "Unsorted" /\ owner \in {"reading", "ended"} => InOrder'
            <3>1. All' = All
                BY <1>6 DEF All
            <3>2. sortMode # "Unsorted" /\ owner \in {"reading", "ended"} =>
                    InOrder /\ UNCHANGED <<sortMode, items, meta>>
                BY <1>6 DEF Kept
            <3> QED
                BY <3>1, <3>2, OrderStays DEF InOrder
        <2>3. sortMode # "Unsorted" /\ owner' # "walking" => owner # "walking"
            BY <1>6
        <2>4. sortMode # "Unsorted" /\ owner' \in {"reading", "ended"} => owner \in {"reading", "ended"}
            BY <1>6
        <2> QED
            BY <1>6, <2>1, <2>2, <2>3, <2>4 DEF Kept, OnceEach
    <1>7. CASE GiveBuffered
        <2>1. /\ UNCHANGED <<sortMode, items, owner, running, meta>>
              /\ buffer # <<>> /\ given' = Append(given, Head(buffer)) /\ buffer' = Tail(buffer)
            BY <1>7 DEF GiveBuffered, vars, walkVars, probeVars
        <2>2. given' \o buffer' = given \o buffer
            BY <1>1, <2>1, GivingKeeps
        <2> QED
            BY <1>6, <2>1, <2>2
    <1>8. CASE StreamEnds \/ DropStream
        <2>1. sortMode = "Unsorted" /\ UNCHANGED <<sortMode, items, given, buffer>>
            BY <1>8 DEF StreamEnds, DropStream
        <2> QED
            BY <1>6, <2>1
    <1>9. CASE BufferEnds
        <2>1. owner = "reading" /\ UNCHANGED <<sortMode, items, given, buffer, running, meta>>
            BY <1>9 DEF BufferEnds, Buffered, vars, walkVars, probeVars
        <2> QED
            BY <1>6, <2>1
    <1>10. CASE DropBuffer
        <2>1. /\ owner = "reading" /\ owner' = "dropped" /\ buffer' = <<>>
              /\ UNCHANGED <<sortMode, items, given, running>>
            BY <1>10 DEF DropBuffer, Buffered, vars, walkVars
        <2>2. given' \o buffer' = given /\ OnceEach(given)
            BY <1>1, <1>2, <2>1, OnceEachFirst DEF Kept
        <2> QED
            BY <2>1, <2>2 DEF Kept, OnceEach
    <1>11. CASE ThreadStep \/ Others \/ AllDone \/ UNCHANGED allVars
        <2>1. UNCHANGED <<sortMode, items, buffer, given, owner>>
            BY <1>11
            DEF ThreadStep, Probe, VisitEntry, Deliver, Others, AllDone, allVars, walkerVars
        <2>2. ~running => running' = running /\ meta' = meta
            <3>1. CASE ThreadStep
                BY <3>1
                DEF ThreadStep, Probe, VisitEntry, Deliver, AtWatched, Visit, VisitAs, Send,
                    SendFails, Return
            <3>2. CASE Others \/ AllDone \/ UNCHANGED allVars
                BY <3>2 DEF Others, AllDone, allVars, vars, walkVars, probeVars
            <3> QED
                BY <1>11, <3>1, <3>2
        <2>3. sortMode # "Unsorted" /\ owner # "walking" => ~running
            BY DEF Kept
        <2> QED
            BY <1>6, <2>1, <2>2, <2>3
    <1> QED
        BY <1>3, <1>4, <1>5, <1>7, <1>8, <1>9, <1>10, <1>11 DEF WalkerNext, CallerStep

LEMMA KeptHolds ==
    ASSUME SameUnderEveryName
    PROVE  WalkerSpec => [](WInv /\ Kept)
    <1>1. WalkerInit => Apart /\ Kept
        BY ApartInit, KeptInit DEF WalkerInit
    <1>2. WInv => TypeOK
        BY DEF WInv, SInv
    <1>3. WInv /\ Apart /\ Kept /\ [WalkerNext]_allVars => Apart' /\ Kept'
        BY <1>2, WalkerStepIsThreadStep, ApartNext, KeptStep
    <1> QED
        BY <1>1, <1>3, WInvHolds, PTL DEF WalkerSpec

\* Whatever roots and links lead to a file, in every sort mode, the caller is given its
\* path once.
THEOREM NoFileGivenTwice ==
    ASSUME SameUnderEveryName
    PROVE  WalkerSpec => []FilesGivenOnce
    <1>1. WInv /\ Kept => FilesGivenOnce
        BY OnceEachFirst DEF WInv, Handover, Kept, OnceEach, FilesGivenOnce
    <1> QED
        BY <1>1, KeptHolds, PTL

\* Whatever the walk collects, in a sorted mode the caller is given all of it, each item
\* as often: the errors as they came, and then a stable sort of the files.
THEOREM GivenAsAsked ==
    ASSUME SameUnderEveryName
    PROVE  WalkerSpec => []SortedAsAsked
    <1>1. Kept => SortedAsAsked
        BY DEF Kept, InOrder, All, CollectedErrors, CollectedFiles, SortedAsAsked
    <1> QED
        BY <1>1, KeptHolds, PTL
=============================================================================
