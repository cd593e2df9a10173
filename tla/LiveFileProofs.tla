---------------------------- MODULE LiveFileProofs ----------------------------
(***************************************************************************)
(* How a file changes while others write to it: it grows, or is cut off,   *)
(* and never comes to be again what it was.                                *)
(***************************************************************************)
EXTENDS LiveFile, TLAPS

\* What a file may have become: it is the same, has been cut off, or only grown.
MovedOn(a, b) ==
    /\ b.ino = a.ino
    /\ \/ b = a
       \/ b.cuts > a.cuts
       \/ /\ b.cuts = a.cuts
          /\ Len(b.bytes) > Len(a.bytes)
          /\ \A i \in 1 .. Len(a.bytes) : b.bytes[i] = a.bytes[i]

LEMMA FirstInodeType == FirstInode \in Inode
    BY LiveFileAssumption DEF FirstInode

LEMMA LiveInitType == LiveInit => LiveTypeOK
    <1> SUFFICES ASSUME LiveInit PROVE LiveTypeOK
        OBVIOUS
    <1>1. \A bytes \in Content : NewFile(FirstInode, bytes) \in Object
        BY FirstInodeType, LiveFileAssumption DEF NewFile, Object
    <1>2. CASE named = 0 /\ files = <<>>
        BY <1>2, LiveFileAssumption DEF LiveInit, LiveTypeOK
    <1>3. CASE named = 1 /\ \E bytes \in Content : files = <<NewFile(FirstInode, bytes)>>
        <2>1. PICK bytes \in Content : files = <<NewFile(FirstInode, bytes)>>
            BY <1>3
        <2> QED
            BY <1>1, <1>3, <2>1, LiveFileAssumption DEF LiveInit, LiveTypeOK
    <1> QED
        BY <1>2, <1>3 DEF LiveInit

LEMMA ObjectParts ==
    ASSUME NEW a \in Object
    PROVE  a.cuts \in Nat /\ a.bytes \in Seq(Byte) /\ Len(a.bytes) \in Nat
    <1>1. a.cuts \in Nat /\ a.bytes \in Seq(Byte)
        BY DEF Object
    <1> QED
        BY <1>1

LEMMA MovesOnFurther ==
    ASSUME NEW a \in Object, NEW b \in Object, NEW c \in Object, MovedOn(a, b), MovedOn(b, c)
    PROVE  MovedOn(a, c) /\ (c = a => b = a)
    <1>1. /\ {a.cuts, b.cuts, c.cuts} \subseteq Nat
          /\ Len(a.bytes) \in Nat /\ Len(b.bytes) \in Nat /\ Len(c.bytes) \in Nat
        BY ObjectParts
    <1>2. CASE a = b \/ b = c
        BY <1>2
    <1>3. CASE b.cuts > a.cuts \/ c.cuts > b.cuts
        BY <1>1, <1>3 DEF MovedOn
    <1>4. CASE /\ b.cuts = a.cuts /\ c.cuts = b.cuts
               /\ Len(b.bytes) > Len(a.bytes) /\ Len(c.bytes) > Len(b.bytes)
               /\ \A i \in 1 .. Len(a.bytes) : b.bytes[i] = a.bytes[i]
               /\ \A i \in 1 .. Len(b.bytes) : c.bytes[i] = b.bytes[i]
        BY <1>1, <1>4 DEF MovedOn
    <1> QED
        BY <1>2, <1>3, <1>4 DEF MovedOn

\* Whatever others do, every file that there is moves on, and none is forgotten.
LEMMA ChangeMovesOn ==
    ASSUME NEW held, LiveTypeOK, Change(held)
    PROVE  /\ LiveTypeOK'
           /\ Len(files) \in Nat /\ Len(files') \in Nat /\ Len(files) <= Len(files')
           /\ \A f \in 1 .. Len(files) :
                files[f] \in Object /\ files'[f] \in Object /\ MovedOn(files[f], files'[f])
    <1>1. /\ files \in Seq(Object) /\ named \in 0 .. Len(files) /\ Len(files) \in Nat
          /\ \A f \in 1 .. Len(files) : files[f] \in Object
        BY DEF LiveTypeOK
    <1>2. changes' \in 0 .. MaxChanges
        BY LiveFileAssumption DEF Change, LiveTypeOK
    <1>3. ASSUME NEW new \in Object, named # 0, files' = [files EXCEPT ![named] = new],
                 named' \in 0 .. Len(files), MovedOn(files[named], new)
          PROVE  /\ LiveTypeOK' /\ Len(files') = Len(files)
                 /\ \A f \in 1 .. Len(files) : files'[f] \in Object /\ MovedOn(files[f], files'[f])
        <2>1. /\ files' \in Seq(Object) /\ Len(files') = Len(files)
              /\ \A f \in 1 .. Len(files) : files'[f] = IF f = named THEN new ELSE files[f]
            BY <1>1, <1>3
        <2> QED
            BY <1>1, <1>2, <1>3, <2>1 DEF LiveTypeOK, MovedOn
    <1>4. CASE Grow
        <2>1. PICK b \in Byte : files' = [files EXCEPT ![named].bytes = Append(@, b)]
            BY <1>4 DEF Grow
        <2>2. named \in 1 .. Len(files) /\ files[named] \in Object /\ UNCHANGED named
            BY <1>1, <1>4 DEF Grow
        <2>3. files[named].bytes \in Seq(Byte)
            BY <2>2 DEF Object
        <2>4. /\ Append(files[named].bytes, b) \in Seq(Byte)
              /\ Len(Append(files[named].bytes, b)) > Len(files[named].bytes)
              /\ \A i \in 1 .. Len(files[named].bytes) :
                   Append(files[named].bytes, b)[i] = files[named].bytes[i]
            BY <2>3
        <2> DEFINE new == [files[named] EXCEPT !.bytes = Append(@, b)]
        <2>5. new \in Object /\ new.ino = files[named].ino /\ new.cuts = files[named].cuts
              /\ new.bytes = Append(files[named].bytes, b)
            BY <2>2, <2>4 DEF Object
        <2>6. files' = [files EXCEPT ![named] = new]
            BY <2>1
        <2> HIDE DEF new
        <2>7. MovedOn(files[named], new)
            BY <2>4, <2>5 DEF MovedOn
        <2>8. named # 0 /\ named' \in 0 .. Len(files)
            BY <1>1, <2>2
        <2>9. /\ LiveTypeOK' /\ Len(files') = Len(files)
              /\ \A f \in 1 .. Len(files) : files'[f] \in Object /\ MovedOn(files[f], files'[f])
            BY <1>3, <2>5, <2>6, <2>7, <2>8
        <2> QED
            BY <1>1, <2>9
    <1>5. CASE Truncate
        <2>1. PICK n \in 0 .. Size(named) - 1 : files' = [files EXCEPT ![named] = CutOff(@, n)]
            BY <1>5 DEF Truncate
        <2>2. named \in 1 .. Len(files) /\ files[named] \in Object /\ UNCHANGED named
            BY <1>1, <1>5 DEF Truncate
        <2>3. files[named].bytes \in Seq(Byte) /\ Size(named) = Len(files[named].bytes)
              /\ files[named].cuts \in Nat
            BY <2>2 DEF Object, Size
        <2>4. SubSeq(files[named].bytes, 1, n) \in Seq(Byte)
            BY <2>3
        <2>5. CutOff(files[named], n) \in Object
            BY <2>2, <2>3, <2>4 DEF Object, CutOff
        <2>6. MovedOn(files[named], CutOff(files[named], n))
            BY <2>3 DEF MovedOn, CutOff
        <2>7. named # 0 /\ named' \in 0 .. Len(files)
            BY <1>1, <2>2
        <2>8. /\ LiveTypeOK' /\ Len(files') = Len(files)
              /\ \A f \in 1 .. Len(files) : files'[f] \in Object /\ MovedOn(files[f], files'[f])
            BY <1>3, <2>1, <2>5, <2>6, <2>7
        <2> QED
            BY <1>1, <2>8
    <1>6. CASE Replace(held)
        <2>1. PICK i \in Inode, bytes \in Content : files' = Append(files, NewFile(i, bytes))
            BY <1>6 DEF Replace
        <2>2. NewFile(i, bytes) \in Object
            BY <2>1, LiveFileAssumption DEF NewFile, Object
        <2>3. /\ files' \in Seq(Object) /\ Len(files') = Len(files) + 1
              /\ \A f \in 1 .. Len(files) : files'[f] = files[f]
            BY <1>1, <2>1, <2>2
        <2>4. named' = Len(files) + 1
            BY <1>6 DEF Replace
        <2> QED
            BY <1>1, <1>2, <2>3, <2>4 DEF LiveTypeOK, MovedOn
    <1>7. CASE Unlink
        BY <1>1, <1>2, <1>7 DEF Unlink, LiveTypeOK, MovedOn
    <1> QED
        BY <1>1, <1>3, <1>4, <1>5, <1>6, <1>7 DEF Change
=============================================================================
