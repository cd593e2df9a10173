------------------------- MODULE ParallelWalkProofs -------------------------
(***************************************************************************)
(* Theorems about the pool of workers, for every tree, every number of     *)
(* workers, every channel bound and every limit.                           *)
(***************************************************************************)
EXTENDS ParallelWalk, WalkTreeProofs, SequenceTheorems, FiniteSetTheorems, TLAPS

-----------------------------------------------------------------------------
(* What the parts of a worker's state are.                                 *)

LEMMA ErrorOfType ==
    ASSUME NEW p \in Path, NEW o
    PROVE  ErrorOf(o, p) \in Seq(WalkItem)
    BY ErrorType DEF ErrorOf

LEMMA FrontLast ==
    ASSUME NEW S, NEW s \in Seq(S), s # <<>>
    PROVE  Front(s) \in Seq(S) /\ Last(s) \in S
    BY DEF Front, Last

-----------------------------------------------------------------------------
(* A worker that holds an item has one, and is counted.                    *)

HeldItems ==
    \A w \in Worker :
        /\ Holds(w) => item[w] \in Entry
        /\ pc[w] = "claimChild" => rest[w] # <<>>
        /\ out[w] # <<>> => pc[w] \in {"scan", "finish"}

CountInv == TypeOK /\ HeldItems /\ ActiveCountsHolders

Holders == { w \in Worker : Holds(w) }

LEMMA HolderCounted ==
    ASSUME CountInv, NEW w \in Worker, Holds(w)
    PROVE  active \in Nat \ {0}
    <1>1. IsFiniteSet(Holders)
        BY FS_Subset, WorkerAssumption DEF Holders
    <1>2. Cardinality(Holders) \in Nat /\ Cardinality(Holders) # 0
        BY <1>1, FS_CardinalityType, FS_EmptySet DEF Holders
    <1> QED
        BY <1>2 DEF CountInv, ActiveCountsHolders, Holders

LEMMA SignalDoneType ==
    ASSUME active \in Nat \ {0}, NEW at \in [Worker -> PC], SignalDone(at)
    PROVE  active' \in Nat /\ pc' \in [Worker -> PC]
    BY DEF SignalDone, NotifyAll, PC

\* The types of what worker w can touch.
LEMMA WorkerType ==
    ASSUME CountInv, NEW w \in Worker
    PROVE  /\ pc[w] \in PC
           /\ rest[w] \in Seq(Path)
           /\ dirs[w] \in Seq(Entry)
           /\ out[w] \in Seq(WalkItem)
           /\ Holds(w) => /\ item[w] \in Entry
                          /\ item[w].path \in Path
    BY DEF CountInv, TypeOK, HeldItems, Entry

LEMMA InitType == Init => TypeOK /\ HeldItems
    <1> SUFFICES ASSUME Init PROVE TypeOK /\ HeldItems
        OBVIOUS
    <1>1. queue \in Seq(Entry)
        <2>1. \A i \in 1 .. Len(Roots) : Roots[i] \in Path /\ Roots[i] \in RootSet
            BY TreeAssumption DEF RootSet
        <2> QED
            BY <2>1, TreeAssumption DEF Init, Entry
    <1>2. StreamTypeOK
        BY CapacityAssumption DEF Init, StreamInit, StreamTypeOK
    <1> QED
        BY <1>1, <1>2 DEF Init, TypeOK, PC, HeldItems, Holds

LEMMA NextType == CountInv /\ [Next]_vars => TypeOK' /\ HeldItems'
    <1> SUFFICES ASSUME CountInv, [Next]_vars PROVE TypeOK' /\ HeldItems'
        OBVIOUS
    <1> USE DEF workVars, localVars, streamVars, Goto, Report
    <1>a. TypeOK /\ HeldItems
        BY DEF CountInv
    <1>1. ASSUME NEW w \in Worker, Pop(w) PROVE TypeOK' /\ HeldItems'
        <2>1. Front(queue) \in Seq(Entry) /\ Last(queue) \in Entry
            BY <1>a, <1>1, FrontLast DEF TypeOK, Pop
        <2>2. TypeOK'
            BY <1>a, <1>1, <2>1 DEF TypeOK, StreamTypeOK, PC, Pop
        <2>3. HeldItems'
            BY <1>a, <1>1, <2>1 DEF TypeOK, HeldItems, Holds, Pop
        <2> QED
            BY <2>2, <2>3
    <1>2. ASSUME NEW w \in Worker, Quit(w) PROVE TypeOK' /\ HeldItems'
        <2>1. TypeOK'
            BY <1>a, <1>2 DEF TypeOK, StreamTypeOK, PC, Quit, NotifyAll
        <2>2. HeldItems'
            BY <1>a, <1>2 DEF TypeOK, HeldItems, Holds, Quit, NotifyAll
        <2> QED
            BY <2>1, <2>2
    <1>3. ASSUME NEW w \in Worker, Wait(w) PROVE TypeOK' /\ HeldItems'
        <2>1. TypeOK'
            BY <1>a, <1>3 DEF TypeOK, StreamTypeOK, PC, Wait
        <2>2. HeldItems'
            BY <1>a, <1>3 DEF TypeOK, HeldItems, Holds, Wait
        <2> QED
            BY <2>1, <2>2
    <1>4. ASSUME NEW w \in Worker, SpuriousWakeup(w) PROVE TypeOK' /\ HeldItems'
        <2>1. TypeOK'
            BY <1>a, <1>4 DEF TypeOK, StreamTypeOK, PC, SpuriousWakeup
        <2>2. HeldItems'
            BY <1>a, <1>4 DEF TypeOK, HeldItems, Holds, SpuriousWakeup
        <2> QED
            BY <2>1, <2>2
    <1>5. ASSUME NEW w \in Worker, ExamineItem(w) PROVE TypeOK' /\ HeldItems'
        <2>1. item[w].path \in Path
            BY <1>5, WorkerType DEF ExamineItem, Holds
        <2>2. PICK o : /\ out' = [out EXCEPT ![w] = ErrorOf(o, item[w].path)]
                       /\ pc' = [pc EXCEPT ![w] = IF o = "enter" THEN "claimDir"
                                                  ELSE IF o = "yield" THEN "claimRoot"
                                                  ELSE "finish"]
            BY <1>5 DEF ExamineItem
        <2>3. o \in {"enter", "yield"} => ErrorOf(o, item[w].path) = <<>>
            BY DEF ErrorOf, WalkOp
        <2>4. TypeOK'
            BY <1>a, <1>5, <2>1, <2>2, ErrorOfType DEF TypeOK, StreamTypeOK, PC, ExamineItem
        <2>5. HeldItems'
            BY <1>a, <1>5, <2>2, <2>3 DEF TypeOK, HeldItems, Holds, ExamineItem
        <2> QED
            BY <2>4, <2>5
    <1>6. ASSUME NEW w \in Worker, ClaimDir(w) PROVE TypeOK' /\ HeldItems'
        <2>1. Tree[item[w].path].id \in STRING /\ active \in Nat \ {0}
            BY <1>6, WorkerType, HolderCounted, NodeType DEF ClaimDir, Holds
        <2>2. active' \in Nat /\ pc' \in [Worker -> PC]
            <3>1. \A at \in PC : [pc EXCEPT ![w] = at] \in [Worker -> PC]
                BY <1>a DEF TypeOK
            <3>2. CASE Tree[item[w].path].id \in visitedDirs
                BY <1>6, <2>1, <3>1, <3>2, SignalDoneType DEF ClaimDir, PC
            <3>3. CASE ~(Tree[item[w].path].id \in visitedDirs)
                BY <1>a, <1>6, <3>1, <3>3 DEF TypeOK, ClaimDir, PC
            <3> QED
                BY <3>2, <3>3
        <2>3. visitedDirs' \subseteq STRING /\ item' \in [Worker -> Entry \cup {NoEntry}]
            BY <1>a, <1>6, <2>1 DEF TypeOK, ClaimDir
        <2>4. TypeOK'
            BY <1>a, <1>6, <2>2, <2>3 DEF TypeOK, StreamTypeOK, ClaimDir
        <2>5. HeldItems'
            BY <1>a, <1>6 DEF TypeOK, HeldItems, Holds, ClaimDir, SignalDone, NotifyAll
        <2> QED
            BY <2>4, <2>5
    <1>7. ASSUME NEW w \in Worker, ListDir(w) PROVE TypeOK' /\ HeldItems'
        <2> DEFINE p == item[w].path
        <2>1. p \in Path
            BY <1>7, WorkerType DEF ListDir, Holds
        <2>2. <<Error("ReadDir", p)>> \in Seq(WalkItem)
            BY <2>1, ErrorType DEF WalkOp
        <2>3. [i \in 1 .. Tree[p].entryErrors |-> Error("ReadDir", p)] \in Seq(WalkItem)
            BY <2>1, RepeatedErrorType
        <2>4. out' \in [Worker -> Seq(WalkItem)]
            BY <1>a, <1>7, <2>2, <2>3 DEF TypeOK, ListDir
        <2>5. rest' \in [Worker -> Seq(Path)]
            BY <1>a, <1>7, <2>1, NodeType DEF TypeOK, ListDir
        <2>6. TypeOK'
            BY <1>a, <1>7, <2>4, <2>5 DEF TypeOK, StreamTypeOK, PC, ListDir
        <2>7. HeldItems'
            BY <1>a, <1>7 DEF TypeOK, HeldItems, Holds, ListDir
        <2> QED
            BY <2>6, <2>7
    <1>8. ASSUME NEW w \in Worker, ScanChild(w) PROVE TypeOK' /\ HeldItems'
        <2> DEFINE p == Head(rest[w])
        <2>1. p \in Path /\ Tail(rest[w]) \in Seq(Path)
            BY <1>8, WorkerType, HeadTail DEF ScanChild
        <2>2. Child(item[w], p) \in Entry
            <3>1. item[w] \in Entry
                BY <1>8, WorkerType DEF ScanChild, Holds
            <3> QED
                BY <2>1, <3>1 DEF Child, Entry
        <2>3. PICK o : /\ out' = [out EXCEPT ![w] = ErrorOf(o, p)]
                       /\ dirs' = IF o = "enter"
                                  THEN [dirs EXCEPT ![w] = Append(@, Child(item[w], p))]
                                  ELSE dirs
                       /\ rest' = [rest EXCEPT ![w] = IF o = "yield" THEN @
                                            ELSE IF o = "Gitignore" THEN <<>> ELSE Tail(@)]
                       /\ closed' = IF o = "Gitignore"
                                    THEN [closed EXCEPT ![w] = TRUE] ELSE closed
                       /\ pc' = [pc EXCEPT ![w] = IF o = "yield" THEN "claimChild" ELSE "scan"]
            BY <1>8 DEF ScanChild
        <2>4. out' \in [Worker -> Seq(WalkItem)]
            BY <1>a, <2>1, <2>3, ErrorOfType DEF TypeOK
        <2>5. dirs' \in [Worker -> Seq(Entry)]
            BY <1>a, <2>2, <2>3 DEF TypeOK
        <2>6. rest' \in [Worker -> Seq(Path)]
            BY <1>a, <2>1, <2>3 DEF TypeOK
        <2>7. pc' \in [Worker -> PC] /\ closed' \in [Worker -> BOOLEAN]
            BY <1>a, <2>3 DEF TypeOK, PC
        <2>8. TypeOK'
            BY <1>a, <1>8, <2>4, <2>5, <2>6, <2>7 DEF TypeOK, StreamTypeOK, ScanChild
        <2>9. o = "yield" => ErrorOf(o, p) = <<>>
            BY DEF ErrorOf, WalkOp
        <2>10. HeldItems'
            BY <1>a, <1>8, <2>3, <2>9 DEF TypeOK, HeldItems, Holds, ScanChild
        <2> QED
            BY <2>8, <2>10
    <1>9. ASSUME NEW w \in Worker, ClaimChild(w) PROVE TypeOK' /\ HeldItems'
        <2>1. Head(rest[w]) \in Path /\ Tail(rest[w]) \in Seq(Path)
            BY <1>a, <1>9, WorkerType, HeadTail DEF HeldItems, ClaimChild
        <2>2. TypeOK'
            BY <1>a, <1>9, <2>1, FileType DEF TypeOK, StreamTypeOK, PC, ClaimChild
        <2>3. HeldItems'
            BY <1>a, <1>9 DEF TypeOK, HeldItems, Holds, ClaimChild
        <2> QED
            BY <2>2, <2>3
    <1>10. ASSUME NEW w \in Worker, PushDirs(w) PROVE TypeOK' /\ HeldItems'
        <2>1. queue \o dirs[w] \in Seq(Entry)
            BY <1>a, WorkerType DEF TypeOK
        <2>2. TypeOK'
            BY <1>a, <1>10, <2>1 DEF TypeOK, StreamTypeOK, PC, PushDirs, NotifyAll
        <2>3. HeldItems'
            BY <1>a, <1>10 DEF TypeOK, HeldItems, Holds, PushDirs, ScanOver, NotifyAll
        <2> QED
            BY <2>2, <2>3
    <1>11. ASSUME NEW w \in Worker, ClaimRoot(w) PROVE TypeOK' /\ HeldItems'
        <2>1. item[w].path \in Path /\ active \in Nat \ {0}
            BY <1>11, WorkerType, HolderCounted DEF ClaimRoot, Holds
        <2>2. active' \in Nat /\ pc' \in [Worker -> PC]
            <3>1. \A at \in PC : [pc EXCEPT ![w] = at] \in [Worker -> PC]
                BY <1>a DEF TypeOK
            <3>2. CASE item[w].path \in visitedFiles
                BY <1>11, <2>1, <3>1, <3>2, SignalDoneType DEF ClaimRoot, PC
            <3>3. CASE ~(item[w].path \in visitedFiles)
                BY <1>a, <1>11, <3>1, <3>3 DEF TypeOK, ClaimRoot, PC
            <3> QED
                BY <3>2, <3>3
        <2>3. out' \in [Worker -> Seq(WalkItem)] /\ item' \in [Worker -> Entry \cup {NoEntry}]
            BY <1>a, <1>11, <2>1, FileType DEF TypeOK, ClaimRoot
        <2>4. TypeOK'
            BY <1>a, <1>11, <2>1, <2>2, <2>3 DEF TypeOK, StreamTypeOK, ClaimRoot
        <2>5. HeldItems'
            BY <1>a, <1>11 DEF TypeOK, HeldItems, Holds, ClaimRoot, SignalDone, NotifyAll
        <2> QED
            BY <2>4, <2>5
    <1>12. ASSUME NEW w \in Worker, Send(w) PROVE TypeOK' /\ HeldItems'
        <2>1. Head(out[w]) \in WalkItem /\ Tail(out[w]) \in Seq(WalkItem)
            BY <1>12, WorkerType, HeadTail DEF Send, Sent
        <2>2. StreamTypeOK'
            BY <1>a, <1>12, <2>1, CapacityAssumption DEF TypeOK, StreamTypeOK, Send, Enqueue
        <2>3. TypeOK'
            BY <1>a, <1>12, <2>1, <2>2 DEF TypeOK, Send
        <2>4. HeldItems'
            BY <1>a, <1>12 DEF TypeOK, HeldItems, Holds, Send, Sent
        <2> QED
            BY <2>3, <2>4
    <1>13. ASSUME NEW w \in Worker, SendFails(w) PROVE TypeOK' /\ HeldItems'
        <2>1. Tail(out[w]) \in Seq(WalkItem)
            BY <1>13, WorkerType, HeadTail DEF SendFails, Sent
        <2>2. out' \in [Worker -> Seq(WalkItem)]
            BY <1>a, <1>13, <2>1 DEF TypeOK, SendFails
        <2>3. rest' \in [Worker -> Seq(Path)] /\ closed' \in [Worker -> BOOLEAN]
            <3>1. CASE IsFile(Head(out[w]))
                <4>1. /\ rest' = [rest EXCEPT ![w] = <<>>]
                      /\ closed' = [closed EXCEPT ![w] = TRUE]
                    BY <1>13, <3>1 DEF SendFails
                <4>2. <<>> \in Seq(Path)
                    OBVIOUS
                <4> QED
                    BY <1>a, <4>1, <4>2 DEF TypeOK
            <3>2. CASE ~IsFile(Head(out[w]))
                BY <1>a, <1>13, <3>2 DEF TypeOK, SendFails
            <3> QED
                BY <3>1, <3>2
        <2>4. TypeOK'
            BY <1>a, <1>13, <2>2, <2>3 DEF TypeOK, StreamTypeOK, SendFails
        <2>5. pc[w] \in {"scan", "finish"} /\ UNCHANGED <<pc, item>>
            BY <1>a, <1>13 DEF HeldItems, SendFails, Sent
        <2>6. HeldItems'
            BY <1>a, <1>13, <2>5 DEF TypeOK, HeldItems, Holds, SendFails
        <2> QED
            BY <2>4, <2>6
    <1>14. ASSUME NEW w \in Worker, Finish(w) PROVE TypeOK' /\ HeldItems'
        <2>1. active \in Nat \ {0} /\ out[w] = <<>>
            BY <1>14, HolderCounted DEF Finish, ScanOver, Sent, Holds
        <2>2. active' \in Nat /\ pc' \in [Worker -> PC]
            <3>1. [pc EXCEPT ![w] = IF closed[w] THEN "done" ELSE "take"] \in [Worker -> PC]
                BY <1>a DEF TypeOK, PC
            <3> QED
                BY <1>14, <2>1, <3>1, SignalDoneType DEF Finish
        <2>3. TypeOK'
            <3>1. /\ item' \in [Worker -> Entry \cup {NoEntry}]
                  /\ dirs' \in [Worker -> Seq(Entry)]
                BY <1>a, <1>14 DEF TypeOK, Finish
            <3> QED
                BY <1>a, <1>14, <2>2, <3>1 DEF TypeOK, StreamTypeOK, Finish
        <2>4. HeldItems'
            BY <1>a, <1>14, <2>1 DEF TypeOK, HeldItems, Holds, Finish, SignalDone, NotifyAll
        <2> QED
            BY <2>3, <2>4
    <1>15. CASE Join
        BY <1>a, <1>15 DEF TypeOK, StreamTypeOK, HeldItems, Holds, Join
    <1>16. CASE NextItem
        <2>1. Head(channel) \in WalkItem /\ Tail(channel) \in Seq(WalkItem)
            BY <1>a, <1>16, HeadTail DEF TypeOK, StreamTypeOK, NextItem, Next_Item
        <2>2. Len(Tail(channel)) <= Capacity
            BY <1>a, <1>16, CapacityAssumption
            DEF TypeOK, StreamTypeOK, NextItem, Next_Item
        <2> QED
            BY <1>a, <1>16, <2>1, <2>2
            DEF TypeOK, StreamTypeOK, HeldItems, Holds, NextItem, Next_Item
    <1>17. CASE NextNone
        BY <1>a, <1>17 DEF TypeOK, StreamTypeOK, HeldItems, Holds, NextNone, Next_None
    <1>18. CASE DropIterator
        BY <1>a, <1>18, CapacityAssumption
        DEF TypeOK, StreamTypeOK, HeldItems, Holds, DropIterator, DropIter
    <1>19. CASE UNCHANGED vars
        BY <1>a, <1>19 DEF TypeOK, StreamTypeOK, HeldItems, Holds, vars
    <1> QED
        BY <1>1, <1>2, <1>3, <1>4, <1>5, <1>6, <1>7, <1>8, <1>9, <1>10, <1>11, <1>12,
           <1>13, <1>14, <1>15, <1>16, <1>17, <1>18, <1>19
        DEF Next, WorkerStep, Terminated

-----------------------------------------------------------------------------
(* The counter, and with it the protocol that ends the walk.               *)

\* Notifying sleepers makes nobody hold an item, or let one go.
LEMMA NotifyHolders ==
    ASSUME NEW at \in [Worker -> PC], NEW v \in Worker
    PROVE  NotifyAll(at)[v] \in {"take", "waiting", "done"}
             <=> at[v] \in {"take", "waiting", "done"}
    BY DEF NotifyAll

\* A worker that takes an item is one more ...
LEMMA OneMore ==
    ASSUME CountInv, NEW w \in Worker, ~Holds(w), Holders' = Holders \cup {w},
           active' = active + 1
    PROVE  ActiveCountsHolders'
    <1>1. IsFiniteSet(Holders) /\ w \notin Holders
        BY FS_Subset, WorkerAssumption DEF Holders
    <1>2. Cardinality(Holders \cup {w}) = Cardinality(Holders) + 1
        BY <1>1, FS_AddElement
    <1>3. active = Cardinality(Holders)
        BY DEF CountInv, ActiveCountsHolders, Holders
    <1>4. active' = Cardinality(Holders')
        BY <1>2, <1>3
    <1> QED
        BY <1>4 DEF ActiveCountsHolders, Holders

\* ... one that lets its item go is one less ...
LEMMA OneLess ==
    ASSUME CountInv, NEW w \in Worker, Holds(w), Holders' = Holders \ {w},
           active' = active - 1
    PROVE  ActiveCountsHolders'
    <1>1. IsFiniteSet(Holders) /\ w \in Holders
        BY FS_Subset, WorkerAssumption DEF Holders
    <1>2. Cardinality(Holders \ {w}) = Cardinality(Holders) - 1
        BY <1>1, FS_RemoveElement
    <1>3. active = Cardinality(Holders)
        BY DEF CountInv, ActiveCountsHolders, Holders
    <1>4. active' = Cardinality(Holders')
        BY <1>2, <1>3
    <1> QED
        BY <1>4 DEF ActiveCountsHolders, Holders

\* ... and nothing else changes their number.
LEMMA AsMany ==
    ASSUME CountInv, Holders' = Holders, active' = active
    PROVE  ActiveCountsHolders'
    BY DEF CountInv, ActiveCountsHolders, Holders

\* signal_done_locked takes exactly the worker that calls it off the count.
LEMMA SignalDoneCount ==
    ASSUME CountInv, NEW w \in Worker, Holds(w), NEW to \in {"take", "done"},
           SignalDone([pc EXCEPT ![w] = to])
    PROVE  ActiveCountsHolders'
    <1> DEFINE at == [pc EXCEPT ![w] = to]
    <1>1. pc \in [Worker -> PC] /\ at \in [Worker -> PC]
        BY DEF CountInv, TypeOK, PC
    <1>2. pc' = NotifyAll(at) \/ pc' = at
        BY DEF SignalDone
    <1>3. ASSUME NEW v \in Worker
          PROVE  pc'[v] \in {"take", "waiting", "done"} <=> at[v] \in {"take", "waiting", "done"}
        BY <1>1, <1>2, NotifyHolders
    <1>4. \A v \in Worker : Holds(v)' <=> v # w /\ Holds(v)
        BY <1>1, <1>3 DEF Holds
    <1>5. Holders' = Holders \ {w}
        BY <1>4 DEF Holders
    <1> QED
        BY <1>5, OneLess DEF SignalDone

LEMMA InitCount == Init => ActiveCountsHolders
    <1> SUFFICES ASSUME Init PROVE ActiveCountsHolders
        OBVIOUS
    <1>1. Holders = {}
        BY DEF Init, Holders, Holds
    <1> QED
        BY <1>1, FS_EmptySet DEF Init, ActiveCountsHolders, Holders

LEMMA NextCount == CountInv /\ [Next]_vars => ActiveCountsHolders'
    <1> SUFFICES ASSUME CountInv, [Next]_vars PROVE ActiveCountsHolders'
        OBVIOUS
    <1> USE DEF workVars, localVars, streamVars
    <1>a. pc \in [Worker -> PC]
        BY DEF CountInv, TypeOK
    <1>1. ASSUME NEW w \in Worker, Pop(w) PROVE ActiveCountsHolders'
        <2>1. Holders' = Holders \cup {w}
            BY <1>a, <1>1 DEF Pop, Goto, Holders, Holds
        <2> QED
            BY <1>1, <2>1, OneMore DEF Pop, Holds
    <1>2. ASSUME NEW w \in Worker, Quit(w) PROVE ActiveCountsHolders'
        <2> DEFINE at == [pc EXCEPT ![w] = "done"]
        <2>1. at \in [Worker -> PC] /\ pc' = NotifyAll(at)
            BY <1>a, <1>2 DEF PC, Quit
        <2>a. \A v \in Worker : pc'[v] \in {"take", "waiting", "done"}
                                  <=> at[v] \in {"take", "waiting", "done"}
            BY <2>1, NotifyHolders
        <2>2. \A v \in Worker : Holds(v)' <=> Holds(v)
            BY <1>a, <1>2, <2>a DEF Quit, Holds
        <2>3. Holders' = Holders
            BY <2>2 DEF Holders
        <2> QED
            BY <1>2, <2>3, AsMany DEF Quit
    <1>3. ASSUME NEW w \in Worker, \/ Wait(w) \/ SpuriousWakeup(w) \/ ExamineItem(w)
                                   \/ ListDir(w) \/ ScanChild(w) \/ ClaimChild(w)
                                   \/ Send(w) \/ SendFails(w)
          PROVE ActiveCountsHolders'
        <2>1. \A v \in Worker : Holds(v)' <=> Holds(v)
            BY <1>a, <1>3 DEF Wait, SpuriousWakeup, ExamineItem, ListDir, ScanChild,
                              ClaimChild, Send, SendFails, Goto, Holds
        <2>2. active' = active
            BY <1>3 DEF Wait, SpuriousWakeup, ExamineItem, ListDir, ScanChild,
                        ClaimChild, Send, SendFails
        <2> QED
            BY <2>1, <2>2, AsMany DEF Holders
    <1>4. ASSUME NEW w \in Worker, PushDirs(w) PROVE ActiveCountsHolders'
        <2> DEFINE at == [pc EXCEPT ![w] = "finish"]
        <2>1. at \in [Worker -> PC] /\ pc' = NotifyAll(at)
            BY <1>a, <1>4 DEF PC, PushDirs
        <2>a. \A v \in Worker : pc'[v] \in {"take", "waiting", "done"}
                                  <=> at[v] \in {"take", "waiting", "done"}
            BY <2>1, NotifyHolders
        <2>2. \A v \in Worker : Holds(v)' <=> Holds(v)
            BY <1>a, <1>4, <2>a DEF PushDirs, ScanOver, Holds
        <2>3. Holders' = Holders
            BY <2>2 DEF Holders
        <2> QED
            BY <1>4, <2>3, AsMany DEF PushDirs
    <1>5. ASSUME NEW w \in Worker, ClaimDir(w) PROVE ActiveCountsHolders'
        <2>1. CASE Tree[item[w].path].id \in visitedDirs
            BY <1>5, <2>1, SignalDoneCount DEF ClaimDir, Holds
        <2>2. CASE Tree[item[w].path].id \notin visitedDirs
            <3>1. \A v \in Worker : Holds(v)' <=> Holds(v)
                BY <1>a, <1>5, <2>2 DEF ClaimDir, Goto, Holds
            <3> QED
                BY <1>5, <2>2, <3>1, AsMany DEF ClaimDir, Holders
        <2> QED
            BY <2>1, <2>2
    <1>6. ASSUME NEW w \in Worker, ClaimRoot(w) PROVE ActiveCountsHolders'
        <2>1. CASE item[w].path \in visitedFiles
            BY <1>6, <2>1, SignalDoneCount DEF ClaimRoot, Holds
        <2>2. CASE item[w].path \notin visitedFiles
            <3>1. \A v \in Worker : Holds(v)' <=> Holds(v)
                BY <1>a, <1>6, <2>2 DEF ClaimRoot, Goto, Holds
            <3> QED
                BY <1>6, <2>2, <3>1, AsMany DEF ClaimRoot, Holders
        <2> QED
            BY <2>1, <2>2
    <1>7. ASSUME NEW w \in Worker, Finish(w) PROVE ActiveCountsHolders'
        <2>1. Holds(w)
            BY <1>7 DEF Finish, ScanOver, Holds
        <2> QED
            BY <1>7, <2>1, SignalDoneCount DEF Finish
    <1>8. ASSUME pc' = pc, active' = active PROVE ActiveCountsHolders'
        BY <1>8, AsMany DEF Holders, Holds
    <1>9. CASE Join \/ NextItem \/ NextNone \/ DropIterator \/ UNCHANGED vars
        BY <1>8, <1>9 DEF Join, NextItem, NextNone, DropIterator, vars
    <1> QED
        BY <1>1, <1>2, <1>3, <1>4, <1>5, <1>6, <1>7, <1>9 DEF Next, WorkerStep, Terminated

\* Every variable keeps its type; in particular the usize "active" never
\* underflows and the channel never exceeds its bound.
THEOREM TypeCorrect == Spec => []TypeOK
    <1>1. Init => CountInv
        BY InitType, InitCount DEF CountInv
    <1>2. CountInv /\ [Next]_vars => CountInv'
        BY NextType, NextCount DEF CountInv
    <1>3. CountInv => TypeOK
        BY DEF CountInv
    <1> QED
        BY <1>1, <1>2, <1>3, PTL DEF Spec

\* The number of workers that hold an item is what the code believes it is.
THEOREM ActiveCounterExact == Spec => []ActiveCountsHolders
    <1>1. Init => CountInv
        BY InitType, InitCount DEF CountInv
    <1>2. CountInv /\ [Next]_vars => CountInv'
        BY NextType, NextCount DEF CountInv
    <1>3. CountInv => ActiveCountsHolders
        BY DEF CountInv
    <1> QED
        BY <1>1, <1>2, <1>3, PTL DEF Spec

-----------------------------------------------------------------------------
(* No worker sleeps through the end, and none leaves before it.            *)

SyncInv == CountInv /\ NoLostWakeup /\ QuitOnlyWhenDone

\* A step of worker w that holds an item and keeps it.
KeepsItem(w) ==
    \/ ExamineItem(w) \/ ListDir(w) \/ ScanChild(w) \/ ClaimChild(w)
    \/ Send(w) \/ SendFails(w)

\* signal_done_locked does not leave a sleeper behind.
LEMMA SignalDoneWakes ==
    ASSUME SyncInv, NEW w \in Worker, Holds(w), NEW to \in {"take", "done"},
           SignalDone([pc EXCEPT ![w] = to]), queue' = queue
    PROVE  NoLostWakeup'
    <1>1. active \in Nat \ {0} /\ pc \in [Worker -> PC]
        BY HolderCounted DEF SyncInv, CountInv, TypeOK
    <1>2. CASE active = 1 /\ queue = <<>>
        <2>1. \A v \in Worker : pc'[v] # "waiting"
            BY <1>1, <1>2 DEF SignalDone, NotifyAll
        <2> QED
            BY <2>1 DEF NoLostWakeup
    <1>3. CASE ~(active = 1 /\ queue = <<>>)
        <2>1. \A v \in Worker : pc'[v] = "waiting" => pc[v] = "waiting"
            BY <1>1, <1>3 DEF SignalDone
        <2> QED
            BY <1>1, <1>3, <2>1 DEF SyncInv, NoLostWakeup, SignalDone
    <1> QED
        BY <1>2, <1>3

\* While somebody holds an item, nobody has left for want of work, and a step
\* that makes no such leaver keeps QuitOnlyWhenDone.
LEMMA HolderKeepsQuit ==
    ASSUME SyncInv, NEW w \in Worker, Holds(w),
           \A v \in Worker : pc'[v] = "done" /\ ~closed'[v] => pc[v] = "done" /\ ~closed[v]
    PROVE  QuitOnlyWhenDone'
    <1>1. \A v \in Worker : ~(pc[v] = "done" /\ ~closed[v])
        BY DEF SyncInv, QuitOnlyWhenDone
    <1> QED
        BY <1>1 DEF QuitOnlyWhenDone

\* signal_done_locked, and the exit of a worker that saw the channel closed.
LEMMA SignalDoneKeepsQuit ==
    ASSUME SyncInv, NEW w \in Worker, Holds(w), UNCHANGED closed,
           SignalDone([pc EXCEPT ![w] = IF closed[w] THEN "done" ELSE "take"])
               \/ SignalDone([pc EXCEPT ![w] = "take"])
    PROVE  QuitOnlyWhenDone'
    <1>1. pc \in [Worker -> PC]
        BY DEF SyncInv, CountInv, TypeOK
    <1>2. \A v \in Worker : pc'[v] = "done" /\ ~closed'[v] => pc[v] = "done" /\ ~closed[v]
        BY <1>1 DEF SignalDone, NotifyAll
    <1> QED
        BY <1>2, HolderKeepsQuit

LEMMA InitSync == Init => NoLostWakeup /\ QuitOnlyWhenDone
    BY DEF Init, NoLostWakeup, QuitOnlyWhenDone

LEMMA NextSync == SyncInv /\ [Next]_vars => NoLostWakeup' /\ QuitOnlyWhenDone'
    <1> SUFFICES ASSUME SyncInv, [Next]_vars PROVE NoLostWakeup' /\ QuitOnlyWhenDone'
        OBVIOUS
    <1> USE DEF workVars, localVars, streamVars
    <1>a. /\ pc \in [Worker -> PC]
          /\ closed \in [Worker -> BOOLEAN]
          /\ active \in Nat
        BY DEF SyncInv, CountInv, TypeOK
    <1>b. NoLostWakeup /\ QuitOnlyWhenDone
        BY DEF SyncInv
    <1>1. ASSUME NEW w \in Worker, Pop(w) PROVE NoLostWakeup' /\ QuitOnlyWhenDone'
        <2>1. \A v \in Worker : pc'[v] # "waiting"
            BY <1>a, <1>b, <1>1 DEF Pop, Goto, NoLostWakeup
        <2>2. \A v \in Worker : ~(pc'[v] = "done" /\ ~closed'[v])
            BY <1>a, <1>b, <1>1 DEF Pop, Goto, QuitOnlyWhenDone
        <2> QED
            BY <2>1, <2>2 DEF NoLostWakeup, QuitOnlyWhenDone
    <1>2. ASSUME NEW w \in Worker, Quit(w) PROVE NoLostWakeup' /\ QuitOnlyWhenDone'
        <2>1. \A v \in Worker : ~Holds(v)
            <3> SUFFICES ASSUME NEW v \in Worker, Holds(v) PROVE FALSE
                OBVIOUS
            <3>1. active # 0
                BY HolderCounted DEF SyncInv
            <3> QED
                BY <1>2, <3>1 DEF Quit
        <2>2. \A v \in Worker : pc'[v] # "waiting"
            BY <1>a, <1>2 DEF Quit, NotifyAll
        <2>3. \A v \in Worker : ~Holds(v)'
            BY <1>a, <1>2, <2>1 DEF Quit, NotifyAll, Holds
        <2>4. queue' = <<>>
            BY <1>2 DEF Quit
        <2> QED
            BY <2>2, <2>3, <2>4 DEF NoLostWakeup, QuitOnlyWhenDone
    <1>3. ASSUME NEW w \in Worker, Wait(w) PROVE NoLostWakeup' /\ QuitOnlyWhenDone'
        BY <1>a, <1>b, <1>3 DEF Wait, Goto, Holds, NoLostWakeup, QuitOnlyWhenDone
    <1>4. ASSUME NEW w \in Worker, SpuriousWakeup(w) PROVE NoLostWakeup' /\ QuitOnlyWhenDone'
        BY <1>a, <1>b, <1>4 DEF SpuriousWakeup, Goto, Holds, NoLostWakeup, QuitOnlyWhenDone
    <1>5. ASSUME NEW w \in Worker, KeepsItem(w) PROVE NoLostWakeup' /\ QuitOnlyWhenDone'
        <2>1. Holds(w)
            BY <1>5 DEF SyncInv, CountInv, HeldItems, KeepsItem, ExamineItem, ListDir,
                        ScanChild, ClaimChild, Send, SendFails, Sent, Holds
        <2>2. UNCHANGED <<queue, active>>
            BY <1>5 DEF KeepsItem, ExamineItem, ListDir, ScanChild, ClaimChild, Send, SendFails
        <2>3. \A v \in Worker : v # w => pc'[v] = pc[v]
            BY <1>a, <1>5 DEF KeepsItem, ExamineItem, ListDir, ScanChild, ClaimChild,
                              Send, SendFails, Goto
        <2>4. pc'[w] \notin {"waiting", "done"}
            BY <1>a, <1>5, <2>1 DEF KeepsItem, ExamineItem, ListDir, ScanChild, ClaimChild,
                                    Send, SendFails, Goto, Holds
        <2>5. NoLostWakeup'
            BY <1>b, <2>2, <2>3, <2>4 DEF NoLostWakeup
        <2>6. \A v \in Worker : v # w => closed'[v] = closed[v]
            BY <1>a, <1>5 DEF KeepsItem, ExamineItem, ListDir, ScanChild, ClaimChild,
                              Send, SendFails
        <2>7. QuitOnlyWhenDone'
            BY <2>1, <2>3, <2>4, <2>6, HolderKeepsQuit
        <2> QED
            BY <2>5, <2>7
    <1>6. ASSUME NEW w \in Worker, PushDirs(w) PROVE NoLostWakeup' /\ QuitOnlyWhenDone'
        <2>1. \A v \in Worker : pc'[v] # "waiting"
            BY <1>a, <1>6 DEF PushDirs, NotifyAll
        <2>2. \A v \in Worker : pc'[v] = "done" /\ ~closed'[v] => pc[v] = "done" /\ ~closed[v]
            BY <1>a, <1>6 DEF PushDirs, NotifyAll
        <2>3. Holds(w)
            BY <1>6 DEF PushDirs, ScanOver, Holds
        <2> QED
            BY <2>1, <2>2, <2>3, HolderKeepsQuit DEF NoLostWakeup
    <1>7. ASSUME NEW w \in Worker, ClaimDir(w) PROVE NoLostWakeup' /\ QuitOnlyWhenDone'
        <2>1. Holds(w)
            BY <1>7 DEF ClaimDir, Holds
        <2>2. CASE Tree[item[w].path].id \in visitedDirs
            BY <1>7, <2>1, <2>2, SignalDoneWakes, SignalDoneKeepsQuit DEF ClaimDir
        <2>3. CASE Tree[item[w].path].id \notin visitedDirs
            <3>1. NoLostWakeup'
                BY <1>a, <1>b, <1>7, <2>3 DEF ClaimDir, Goto, NoLostWakeup
            <3>2. \A v \in Worker : pc'[v] = "done" /\ ~closed'[v]
                                      => pc[v] = "done" /\ ~closed[v]
                BY <1>a, <1>7, <2>3 DEF ClaimDir, Goto
            <3> QED
                BY <2>1, <3>1, <3>2, HolderKeepsQuit
        <2> QED
            BY <2>2, <2>3
    <1>8. ASSUME NEW w \in Worker, ClaimRoot(w) PROVE NoLostWakeup' /\ QuitOnlyWhenDone'
        <2>1. Holds(w)
            BY <1>8 DEF ClaimRoot, Holds
        <2>2. CASE item[w].path \in visitedFiles
            BY <1>8, <2>1, <2>2, SignalDoneWakes, SignalDoneKeepsQuit DEF ClaimRoot
        <2>3. CASE item[w].path \notin visitedFiles
            <3>1. NoLostWakeup'
                BY <1>a, <1>b, <1>8, <2>3 DEF ClaimRoot, Goto, NoLostWakeup
            <3>2. \A v \in Worker : pc'[v] = "done" /\ ~closed'[v]
                                      => pc[v] = "done" /\ ~closed[v]
                BY <1>a, <1>8, <2>3 DEF ClaimRoot, Goto
            <3> QED
                BY <2>1, <3>1, <3>2, HolderKeepsQuit
        <2> QED
            BY <2>2, <2>3
    <1>9. ASSUME NEW w \in Worker, Finish(w) PROVE NoLostWakeup' /\ QuitOnlyWhenDone'
        <2>1. Holds(w)
            BY <1>9 DEF Finish, ScanOver, Holds
        <2> QED
            BY <1>9, <2>1, SignalDoneWakes, SignalDoneKeepsQuit DEF Finish
    <1>10. CASE Join \/ NextItem \/ NextNone \/ DropIterator \/ UNCHANGED vars
        <2>1. UNCHANGED <<pc, closed, queue, active>>
            BY <1>10 DEF Join, NextItem, NextNone, DropIterator, vars
        <2> QED
            BY <1>b, <2>1 DEF NoLostWakeup, QuitOnlyWhenDone, Holds
    <1> QED
        BY <1>1, <1>2, <1>3, <1>4, <1>5, <1>6, <1>7, <1>8, <1>9, <1>10
        DEF Next, WorkerStep, KeepsItem, Terminated

LEMMA SyncInvariant == Spec => []SyncInv
    <1>1. Init => SyncInv
        BY InitType, InitCount, InitSync DEF SyncInv, CountInv
    <1>2. SyncInv /\ [Next]_vars => SyncInv'
        BY NextType, NextCount, NextSync DEF SyncInv, CountInv
    <1> QED
        BY <1>1, <1>2, PTL DEF Spec

\* A worker sleeps only while the stack is empty and another one is at work.
THEOREM WakeupsAreNotLost == Spec => []NoLostWakeup
    <1>1. SyncInv => NoLostWakeup
        BY DEF SyncInv
    <1> QED
        BY <1>1, SyncInvariant, PTL

\* A worker leaves for want of work only when all the work is done for good.
THEOREM QuitsAreFinal == Spec => []QuitOnlyWhenDone
    <1>1. SyncInv => QuitOnlyWhenDone
        BY DEF SyncInv
    <1> QED
        BY <1>1, SyncInvariant, PTL

-----------------------------------------------------------------------------
(* The two visited sets: both are only ever tested and extended under the  *)
(* mutex, and nothing is listed or sent unclaimed.                         *)

Lists(w) == pc[w] \in {"list", "scan", "claimChild"}

\* What is being listed has been claimed, and no two workers list the same.
DirsClaimed ==
    \A w \in Worker : Lists(w) => Tree[item[w].path].id \in visitedDirs

DirInv == CountInv /\ DirsClaimed /\ OneWorkerPerDirectory

\* A step after which nobody lists what he did not list before.
LEMMA NoNewLister ==
    ASSUME DirInv, visitedDirs \subseteq visitedDirs',
           \A v \in Worker : Lists(v)' => Lists(v) /\ item'[v] = item[v]
    PROVE  DirsClaimed' /\ OneWorkerPerDirectory'
    BY DEF DirInv, DirsClaimed, OneWorkerPerDirectory, Lists

LEMMA NextDir == DirInv /\ [Next]_vars => DirsClaimed' /\ OneWorkerPerDirectory'
    <1> SUFFICES ASSUME DirInv, [Next]_vars PROVE DirsClaimed' /\ OneWorkerPerDirectory'
        OBVIOUS
    <1> USE DEF workVars, localVars, streamVars
    <1>a. /\ pc \in [Worker -> PC]
          /\ item \in [Worker -> Entry \cup {NoEntry}]
        BY DEF DirInv, CountInv, TypeOK
    <1>1. ASSUME NEW w \in Worker, Pop(w) \/ Quit(w) \/ Wait(w) \/ SpuriousWakeup(w)
          PROVE DirsClaimed' /\ OneWorkerPerDirectory'
        <2>1. \A v \in Worker : Lists(v)' => Lists(v) /\ item'[v] = item[v]
            BY <1>a, <1>1 DEF Pop, Quit, Wait, SpuriousWakeup, Goto, NotifyAll, Lists
        <2> QED
            BY <1>1, <2>1, NoNewLister DEF Pop, Quit, Wait, SpuriousWakeup
    <1>2. ASSUME NEW w \in Worker, ExamineItem(w) \/ ListDir(w) \/ ScanChild(w) \/ ClaimChild(w)
          PROVE DirsClaimed' /\ OneWorkerPerDirectory'
        <2>1. \A v \in Worker : Lists(v)' => Lists(v) /\ item'[v] = item[v]
            BY <1>a, <1>2 DEF ExamineItem, ListDir, ScanChild, ClaimChild, Goto, Lists
        <2> QED
            BY <1>2, <2>1, NoNewLister DEF ExamineItem, ListDir, ScanChild, ClaimChild
    <1>3. ASSUME NEW w \in Worker, PushDirs(w) \/ Send(w) \/ SendFails(w)
          PROVE DirsClaimed' /\ OneWorkerPerDirectory'
        <2>1. \A v \in Worker : Lists(v)' => Lists(v) /\ item'[v] = item[v]
            BY <1>a, <1>3 DEF PushDirs, Send, SendFails, NotifyAll, Lists
        <2> QED
            BY <1>3, <2>1, NoNewLister DEF PushDirs, Send, SendFails
    <1>4. ASSUME NEW w \in Worker, ClaimRoot(w) \/ Finish(w)
          PROVE DirsClaimed' /\ OneWorkerPerDirectory'
        <2>1. \A v \in Worker : Lists(v)' => Lists(v) /\ item'[v] = item[v]
            BY <1>a, <1>4 DEF ClaimRoot, Finish, ScanOver, SignalDone, NotifyAll, Goto, Lists
        <2> QED
            BY <1>4, <2>1, NoNewLister DEF ClaimRoot, Finish
    <1>5. ASSUME NEW w \in Worker, ClaimDir(w) PROVE DirsClaimed' /\ OneWorkerPerDirectory'
        <2> DEFINE id == Tree[item[w].path].id
        <2>1. CASE id \in visitedDirs
            <3>1. \A v \in Worker : Lists(v)' => Lists(v) /\ item'[v] = item[v]
                BY <1>a, <1>5, <2>1 DEF ClaimDir, SignalDone, NotifyAll, Lists
            <3> QED
                BY <1>5, <2>1, <3>1, NoNewLister DEF ClaimDir
        <2>2. CASE id \notin visitedDirs
            <3>1. visitedDirs' = visitedDirs \cup {id} /\ item' = item
                BY <1>5, <2>2 DEF ClaimDir
            <3>2. \A v \in Worker : v # w => (Lists(v)' <=> Lists(v))
                BY <1>a, <1>5, <2>2 DEF ClaimDir, Goto, Lists
            <3>3. \A v \in Worker : Lists(v) => Tree[item[v].path].id # id
                BY <2>2 DEF DirInv, DirsClaimed
            <3>4. DirsClaimed'
                BY <3>1, <3>2 DEF DirInv, DirsClaimed
            <3>5. OneWorkerPerDirectory'
                BY <3>1, <3>2, <3>3 DEF DirInv, OneWorkerPerDirectory, Lists
            <3> QED
                BY <3>4, <3>5
        <2> QED
            BY <2>1, <2>2
    <1>6. CASE Join \/ NextItem \/ NextNone \/ DropIterator \/ UNCHANGED vars
        <2>1. UNCHANGED <<pc, item, visitedDirs>>
            BY <1>6 DEF Join, NextItem, NextNone, DropIterator, vars
        <2> QED
            BY <2>1, NoNewLister DEF Lists
    <1> QED
        BY <1>1, <1>2, <1>3, <1>4, <1>5, <1>6 DEF Next, WorkerStep, Terminated

\* The insertion into visited_dirs under the mutex is a lock on the directory:
\* whatever paths lead to it, one worker at a time lists it.
THEOREM DirectoriesExclusive == Spec => []OneWorkerPerDirectory
    <1>1. Init => DirInv
        BY InitType, InitCount
        DEF Init, DirInv, CountInv, DirsClaimed, OneWorkerPerDirectory, Lists
    <1>2. DirInv /\ [Next]_vars => DirInv'
        BY NextType, NextCount, NextDir DEF DirInv, CountInv
    <1>3. DirInv => OneWorkerPerDirectory
        BY DEF DirInv
    <1> QED
        BY <1>1, <1>2, <1>3, PTL DEF Spec

-----------------------------------------------------------------------------
(* Files.  Whatever file is on its way or has arrived has been claimed, and *)
(* a worker that has a file to send has it as the first thing to send.     *)

FilesClaimed ==
    \A f \in Path :
        /\ \A w \in Worker : Sends(w, f) => f \in visitedFiles
        /\ \A i \in 1 .. Len(channel) : channel[i] = File(f) => f \in visitedFiles
        /\ File(f) \in received => f \in visitedFiles

FileFirst ==
    \A w \in Worker : \A k \in 2 .. Len(out[w]) : \A f \in Path : out[w][k] # File(f)

FileInv == CountInv /\ FilesClaimed /\ FileFirst /\ EachFileOnce

LEMMA NotAFile ==
    ASSUME NEW p, NEW o \in WalkOp, NEW f
    PROVE  Error(o, p) # File(f)
    BY DEF Error, File, WalkOp

\* A step that sends nothing and gives no worker a file.
LEMMA NoNewFile ==
    ASSUME FileInv, visitedFiles \subseteq visitedFiles', UNCHANGED <<channel, received>>,
           \A v \in Worker : \A f \in Path : Sends(v, f)' => Sends(v, f)
    PROVE  FilesClaimed' /\ EachFileOnce'
    BY DEF FileInv, FilesClaimed, EachFileOnce

\* A claimed file is sent by the worker that claimed it, and by nobody else.
LEMMA ClaimedByOne ==
    ASSUME FileInv, NEW w \in Worker, NEW p \in Path, p \notin visitedFiles,
           visitedFiles' = visitedFiles \cup {p}, UNCHANGED <<channel, received>>,
           out' = [out EXCEPT ![w] = <<File(p)>>]
    PROVE  FilesClaimed' /\ FileFirst' /\ EachFileOnce'
    <1>1. out \in [Worker -> Seq(WalkItem)]
        BY DEF FileInv, CountInv, TypeOK
    <1>2. \A f \in Path : File(f) = File(p) => f = p
        BY DEF File
    <1>3. \A v \in Worker : \A f \in Path : Sends(v, f)' =>
              IF v = w THEN f = p ELSE Sends(v, f)
        BY <1>1, <1>2 DEF Sends
    <1>4. /\ \A v \in Worker : ~Sends(v, p)
          /\ \A i \in 1 .. Len(channel) : channel[i] # File(p)
          /\ File(p) \notin received
        BY DEF FileInv, FilesClaimed
    <1>5. FilesClaimed'
        BY <1>3 DEF FileInv, FilesClaimed
    <1>6. FileFirst'
        BY <1>1 DEF FileInv, FileFirst
    <1>7. EachFileOnce'
        BY <1>3, <1>4 DEF FileInv, EachFileOnce
    <1> QED
        BY <1>5, <1>6, <1>7

\* A claim, by a worker that was about to send nothing.
LEMMA Claim ==
    ASSUME FileInv, NEW w \in Worker, NEW p \in Path,
           visitedFiles' = visitedFiles \cup {p}, UNCHANGED <<channel, received>>,
           out' = [out EXCEPT ![w] = IF p \in visitedFiles THEN <<>> ELSE <<File(p)>>]
    PROVE  FilesClaimed' /\ FileFirst' /\ EachFileOnce'
    <1>1. out \in [Worker -> Seq(WalkItem)]
        BY DEF FileInv, CountInv, TypeOK
    <1>2. CASE p \in visitedFiles
        <2>1. \A v \in Worker : \A f \in Path : Sends(v, f)' => Sends(v, f)
            BY <1>1, <1>2 DEF Sends
        <2>2. FileFirst'
            BY <1>1, <1>2 DEF FileInv, FileFirst
        <2> QED
            BY <2>1, <2>2, NoNewFile
    <1>3. CASE p \notin visitedFiles
        BY <1>3, ClaimedByOne
    <1> QED
        BY <1>2, <1>3

\* A worker that turns to sending errors has no file.
LEMMA OnlyErrors ==
    ASSUME FileInv, NEW w \in Worker, NEW ms \in Seq(WalkItem),
           \A k \in 1 .. Len(ms) : \A f \in Path : ms[k] # File(f),
           UNCHANGED <<visitedFiles, channel, received>>,
           out' = [out EXCEPT ![w] = ms]
    PROVE  FilesClaimed' /\ FileFirst' /\ EachFileOnce'
    <1>1. out \in [Worker -> Seq(WalkItem)]
        BY DEF FileInv, CountInv, TypeOK
    <1>2. ms # <<>> => \A f \in Path : Head(ms) # File(f)
        OBVIOUS
    <1>3. \A v \in Worker : \A f \in Path : Sends(v, f)' => Sends(v, f)
        BY <1>1, <1>2 DEF Sends
    <1>4. FileFirst'
        BY <1>1 DEF FileInv, FileFirst
    <1> QED
        BY <1>3, <1>4, NoNewFile

\* After a send, failed or not, what is left to send is no file.
LEMMA TailHasNoFile ==
    ASSUME FileInv, NEW w \in Worker, out[w] # <<>>, out' = [out EXCEPT ![w] = Tail(@)]
    PROVE  /\ FileFirst'
           /\ \A v \in Worker : \A f \in Path : Sends(v, f)' => v # w /\ Sends(v, f)
    <1>1. out \in [Worker -> Seq(WalkItem)] /\ out[w] \in Seq(WalkItem)
        BY DEF FileInv, CountInv, TypeOK
    <1>2. \A k \in 1 .. Len(Tail(out[w])) : \A f \in Path : Tail(out[w])[k] # File(f)
        BY <1>1 DEF FileInv, FileFirst
    <1>3. Tail(out[w]) \in Seq(WalkItem)
        BY <1>1, HeadTail
    <1>4. FileFirst'
        BY <1>1, <1>2, <1>3 DEF FileInv, FileFirst
    <1>5. Tail(out[w]) # <<>> => \A f \in Path : Head(Tail(out[w])) # File(f)
        <2>1. \A s \in Seq(WalkItem) : s # <<>> => Head(s) = s[1] /\ 1 \in 1 .. Len(s)
            OBVIOUS
        <2> QED
            BY <1>2, <1>3, <2>1
    <1>6. \A v \in Worker : \A f \in Path : Sends(v, f)' => v # w /\ Sends(v, f)
        BY <1>1, <1>5 DEF Sends
    <1> QED
        BY <1>4, <1>6

LEMMA SendOnce ==
    ASSUME FileInv, NEW w \in Worker, Send(w)
    PROVE  FilesClaimed' /\ FileFirst' /\ EachFileOnce'
    <1> DEFINE m == Head(out[w])
    <1>1. /\ out[w] # <<>>
          /\ out' = [out EXCEPT ![w] = Tail(@)]
          /\ channel' = Append(channel, m)
          /\ UNCHANGED <<received, visitedFiles>>
        BY DEF Send, Sent, Enqueue, workVars
    <1>2. channel \in Seq(WalkItem) /\ m \in WalkItem
        BY <1>1, HeadTail, WorkerType DEF FileInv, CountInv, TypeOK, StreamTypeOK
    <1>3. /\ FileFirst'
          /\ \A v \in Worker : \A f \in Path : Sends(v, f)' => v # w /\ Sends(v, f)
        BY <1>1, TailHasNoFile
    <1>4. /\ Len(channel') = Len(channel) + 1
          /\ \A i \in 1 .. Len(channel) : channel'[i] = channel[i]
          /\ channel'[Len(channel) + 1] = m
          /\ Len(channel) \in Nat
        BY <1>1, <1>2
    <1> HIDE DEF m
    <1>5. \A f \in Path : m = File(f) => Sends(w, f)
        BY <1>1 DEF Sends, m
    <1>6. FilesClaimed'
        BY <1>1, <1>3, <1>4, <1>5 DEF FileInv, FilesClaimed
    <1>7. EachFileOnce'
        <2> SUFFICES ASSUME NEW f \in Path
                     PROVE  EachFileOnce!(f)'
            BY DEF EachFileOnce
        <2>1. \A u, v \in Worker : Sends(u, f)' /\ Sends(v, f)' => u = v
            BY <1>3 DEF FileInv, EachFileOnce
        <2>2. \A i, j \in 1 .. Len(channel') :
                  channel'[i] = File(f) /\ channel'[j] = File(f) => i = j
            BY <1>4, <1>5 DEF FileInv, EachFileOnce
        <2>3. \A i \in 1 .. Len(channel') : channel'[i] = File(f) =>
                  /\ File(f) \notin received'
                  /\ \A v \in Worker : ~Sends(v, f)'
            BY <1>1, <1>3, <1>4, <1>5 DEF FileInv, EachFileOnce
        <2>4. \A v \in Worker : Sends(v, f)' => File(f) \notin received'
            BY <1>1, <1>3 DEF FileInv, EachFileOnce
        <2> QED
            BY <2>1, <2>2, <2>3, <2>4
    <1> QED
        BY <1>3, <1>6, <1>7

LEMMA ReceiveOnce ==
    ASSUME FileInv, NextItem
    PROVE  FilesClaimed' /\ FileFirst' /\ EachFileOnce'
    <1>1. /\ channel # <<>>
          /\ channel' = Tail(channel)
          /\ received' = received \cup {Head(channel)}
          /\ UNCHANGED <<visitedFiles, out>>
        BY DEF NextItem, Next_Item, workVars, localVars
    <1>2. channel \in Seq(WalkItem)
        BY DEF FileInv, CountInv, TypeOK, StreamTypeOK
    <1>3. /\ Len(channel) \in Nat \ {0}
          /\ Len(channel') = Len(channel) - 1
          /\ \A i \in 1 .. Len(channel') : channel'[i] = channel[i + 1]
          /\ Head(channel) = channel[1]
        BY <1>1, <1>2
    <1>4. \A v \in Worker : \A f \in Path : Sends(v, f)' <=> Sends(v, f)
        BY <1>1 DEF Sends
    <1>5. FilesClaimed'
        BY <1>1, <1>3, <1>4 DEF FileInv, FilesClaimed
    <1>6. FileFirst'
        BY <1>1 DEF FileInv, FileFirst
    <1>7. EachFileOnce'
        BY <1>1, <1>3, <1>4 DEF FileInv, EachFileOnce
    <1> QED
        BY <1>5, <1>6, <1>7

LEMMA NextFile == FileInv /\ [Next]_vars => FilesClaimed' /\ FileFirst' /\ EachFileOnce'
    <1> SUFFICES ASSUME FileInv, [Next]_vars PROVE FilesClaimed' /\ FileFirst' /\ EachFileOnce'
        OBVIOUS
    <1> USE DEF workVars, localVars, streamVars
    <1>a. /\ out \in [Worker -> Seq(WalkItem)]
          /\ rest \in [Worker -> Seq(Path)]
          /\ CountInv
        BY DEF FileInv, CountInv, TypeOK
    <1>1. ASSUME UNCHANGED <<out, visitedFiles, channel, received>>
          PROVE  FilesClaimed' /\ FileFirst' /\ EachFileOnce'
        BY <1>1, NoNewFile DEF FileInv, FileFirst, Sends
    <1>2. ASSUME NEW w \in Worker, \/ Pop(w) \/ Quit(w) \/ Wait(w) \/ SpuriousWakeup(w)
                                   \/ ClaimDir(w) \/ PushDirs(w) \/ Finish(w)
          PROVE  FilesClaimed' /\ FileFirst' /\ EachFileOnce'
        BY <1>1, <1>2 DEF Pop, Quit, Wait, SpuriousWakeup, ClaimDir, PushDirs, Finish
    <1>3. ASSUME NEW w \in Worker, ExamineItem(w)
          PROVE  FilesClaimed' /\ FileFirst' /\ EachFileOnce'
        <2>1. item[w].path \in Path
            BY <1>a, <1>3, WorkerType DEF ExamineItem, Holds
        <2>2. PICK o : out' = [out EXCEPT ![w] = ErrorOf(o, item[w].path)]
            BY <1>3 DEF ExamineItem, Report
        <2>3. /\ ErrorOf(o, item[w].path) \in Seq(WalkItem)
              /\ \A k \in 1 .. Len(ErrorOf(o, item[w].path)) :
                   \A f \in Path : ErrorOf(o, item[w].path)[k] # File(f)
            BY <2>1, ErrorOfType, NotAFile DEF ErrorOf
        <2> QED
            BY <1>3, <2>2, <2>3, OnlyErrors DEF ExamineItem
    <1>4. ASSUME NEW w \in Worker, ListDir(w)
          PROVE  FilesClaimed' /\ FileFirst' /\ EachFileOnce'
        <2> DEFINE p == item[w].path
                   es == [i \in 1 .. Tree[p].entryErrors |-> Error("ReadDir", p)]
        <2>1. p \in Path
            BY <1>a, <1>4, WorkerType DEF ListDir, Holds
        <2>2. es \in Seq(WalkItem) /\ <<Error("ReadDir", p)>> \in Seq(WalkItem)
            BY <2>1, RepeatedErrorType, ErrorType DEF WalkOp
        <2>3. \A f \in Path : Error("ReadDir", p) # File(f)
            BY NotAFile DEF WalkOp
        <2>4. /\ \A k \in 1 .. Len(es) : \A f \in Path : es[k] # File(f)
              /\ \A k \in 1 .. Len(<<Error("ReadDir", p)>>) :
                   \A f \in Path : <<Error("ReadDir", p)>>[k] # File(f)
            BY <2>1, <2>3, NodeType
        <2>5. \/ out' = [out EXCEPT ![w] = es]
              \/ out' = [out EXCEPT ![w] = <<Error("ReadDir", p)>>]
            BY <1>4 DEF ListDir, Report
        <2> HIDE DEF es, p
        <2> QED
            BY <1>4, <2>2, <2>4, <2>5, OnlyErrors DEF ListDir
    <1>5. ASSUME NEW w \in Worker, ScanChild(w)
          PROVE  FilesClaimed' /\ FileFirst' /\ EachFileOnce'
        <2>1. Head(rest[w]) \in Path
            BY <1>a, <1>5, HeadTail DEF ScanChild
        <2>2. PICK o : out' = [out EXCEPT ![w] = ErrorOf(o, Head(rest[w]))]
            BY <1>5 DEF ScanChild, Report
        <2>3. /\ ErrorOf(o, Head(rest[w])) \in Seq(WalkItem)
              /\ \A k \in 1 .. Len(ErrorOf(o, Head(rest[w]))) :
                   \A f \in Path : ErrorOf(o, Head(rest[w]))[k] # File(f)
            BY <2>1, ErrorOfType, NotAFile DEF ErrorOf
        <2> QED
            BY <1>5, <2>2, <2>3, OnlyErrors DEF ScanChild
    <1>6. ASSUME NEW w \in Worker, ClaimChild(w)
          PROVE  FilesClaimed' /\ FileFirst' /\ EachFileOnce'
        <2>1. Head(rest[w]) \in Path
            BY <1>a, <1>6, HeadTail DEF CountInv, HeldItems, ClaimChild
        <2> QED
            BY <1>6, <2>1, Claim DEF ClaimChild, Report
    <1>7. ASSUME NEW w \in Worker, ClaimRoot(w)
          PROVE  FilesClaimed' /\ FileFirst' /\ EachFileOnce'
        <2>1. item[w].path \in Path
            BY <1>a, <1>7, WorkerType DEF ClaimRoot, Holds
        <2>2. CASE item[w].path \in visitedFiles
            <3>1. UNCHANGED <<out, visitedFiles, channel, received>>
                BY <1>7, <2>2 DEF ClaimRoot
            <3> QED
                BY <1>1, <3>1
        <2>3. CASE item[w].path \notin visitedFiles
            BY <1>7, <2>1, <2>3, ClaimedByOne DEF ClaimRoot, Report
        <2> QED
            BY <2>2, <2>3
    <1>8. ASSUME NEW w \in Worker, Send(w)
          PROVE  FilesClaimed' /\ FileFirst' /\ EachFileOnce'
        BY <1>8, SendOnce
    <1>9. ASSUME NEW w \in Worker, SendFails(w)
          PROVE  FilesClaimed' /\ FileFirst' /\ EachFileOnce'
        <2>1. FileFirst' /\ \A v \in Worker : \A f \in Path : Sends(v, f)' => Sends(v, f)
            BY <1>9, TailHasNoFile DEF SendFails, Sent
        <2> QED
            BY <1>9, <2>1, NoNewFile DEF SendFails
    <1>10. CASE NextItem
        BY <1>10, ReceiveOnce
    <1>11. CASE DropIterator
        <2>1. /\ channel' = <<>>
              /\ UNCHANGED <<out, visitedFiles, received>>
            BY <1>11 DEF DropIterator, DropIter
        <2>2. \A v \in Worker : \A f \in Path : Sends(v, f)' <=> Sends(v, f)
            BY <2>1 DEF Sends
        <2> QED
            BY <2>1, <2>2 DEF FileInv, FilesClaimed, FileFirst, EachFileOnce
    <1>12. CASE Join \/ NextNone \/ UNCHANGED vars
        <2>1. UNCHANGED <<out, visitedFiles, channel, received>>
            BY <1>12 DEF Join, NextNone, Next_None, vars
        <2> QED
            BY <1>1, <2>1
    <1> QED
        BY <1>2, <1>3, <1>4, <1>5, <1>6, <1>7, <1>8, <1>9, <1>10, <1>11, <1>12
        DEF Next, WorkerStep, Terminated

\* Overlapping roots, file roots and links never make a walk yield the same
\* path twice, with any number of workers.
THEOREM FilesSentOnce == Spec => []EachFileOnce
    <1>1. Init => FileInv
        <2> SUFFICES ASSUME Init PROVE FileInv
            OBVIOUS
        <2>1. CountInv
            BY InitType, InitCount DEF CountInv
        <2>2. /\ channel = <<>> /\ received = {}
              /\ \A w \in Worker : out[w] = <<>>
            BY DEF Init, StreamInit
        <2> QED
            BY <2>1, <2>2 DEF FileInv, FilesClaimed, FileFirst, EachFileOnce, Sends
    <1>2. FileInv /\ [Next]_vars => FileInv'
        BY NextType, NextCount, NextFile DEF FileInv, CountInv
    <1>3. FileInv => EachFileOnce
        BY DEF FileInv
    <1> QED
        BY <1>1, <1>2, <1>3, PTL DEF Spec

-----------------------------------------------------------------------------
(* Where everything a worker holds, has found or sends comes from.         *)

Scans(w) == pc[w] \in {"scan", "claimChild"}

\* Entry e was come upon below claimed directories, and if it carries metadata
\* they are those of a directory.
SoundEntry(e) ==
    /\ LedTo(e, visitedDirs)
    /\ e.carried => ~TooLong(e.path) /\ "dir" \in Stat(e.path)

SoundWorker(w) ==
    /\ \A e \in Members(dirs[w]) : SoundEntry(e)
    /\ Members(out[w]) \subseteq Yieldable
    /\ Holds(w) => SoundEntry(item[w])
    /\ pc[w] = "claimDir" => "enter" \in Examine(item[w].root, item[w].path)
    /\ pc[w] = "claimRoot" => "yield" \in Examine(item[w].root, item[w].path)
    /\ Lists(w) => /\ Recurse(item[w].depth)
                   /\ \E d : EnteredAs(item[w], d, visitedDirs)
    /\ Scans(w) => /\ TRUE \in ReadDir(item[w].path)
                   /\ Members(rest[w]) \subseteq Entries(item[w].path)
    /\ pc[w] = "claimChild" => "yield" \in Examine(item[w].root, Head(rest[w]))
    /\ ~Scans(w) => dirs[w] = <<>>

Founded ==
    /\ \A e \in Members(queue) : SoundEntry(e)
    /\ \A w \in Worker : SoundWorker(w)
    /\ Members(channel) \subseteq Yieldable
    /\ received \subseteq Yieldable

FoundInv == CountInv /\ Founded

\* What a step of worker w leaves to the others: notified or not, who sleeps or
\* takes holds nothing.
OthersStay(w) ==
    \A v \in Worker \ {w} :
        /\ item'[v] = item[v] /\ rest'[v] = rest[v] /\ dirs'[v] = dirs[v] /\ out'[v] = out[v]
        /\ pc'[v] = pc[v] \/ {pc[v], pc'[v]} \subseteq {"take", "waiting", "done"}

LEMMA StepOfOne ==
    ASSUME CountInv, NEW w \in Worker, WorkerStep(w) \/ SpuriousWakeup(w)
    PROVE  OthersStay(w)
    <1> USE DEF workVars, localVars, streamVars, Goto, Report
    <1>1. /\ pc \in [Worker -> PC]
          /\ item \in [Worker -> Entry \cup {NoEntry}]
          /\ rest \in [Worker -> Seq(Path)]
          /\ dirs \in [Worker -> Seq(Entry)]
          /\ out \in [Worker -> Seq(WalkItem)]
        BY DEF CountInv, TypeOK
    <1>2. CASE \/ Pop(w) \/ Quit(w) \/ Wait(w) \/ SpuriousWakeup(w)
        BY <1>1, <1>2 DEF Pop, Quit, Wait, SpuriousWakeup, NotifyAll, OthersStay
    <1>3. CASE ExamineItem(w) \/ ListDir(w) \/ ScanChild(w) \/ ClaimChild(w)
        BY <1>1, <1>3 DEF ExamineItem, ListDir, ScanChild, ClaimChild, OthersStay
    <1>4. CASE ClaimDir(w) \/ ClaimRoot(w)
        BY <1>1, <1>4 DEF ClaimDir, ClaimRoot, SignalDone, NotifyAll, OthersStay
    <1>5. CASE PushDirs(w) \/ Finish(w)
        BY <1>1, <1>5 DEF PushDirs, Finish, SignalDone, NotifyAll, OthersStay
    <1>6. CASE Send(w) \/ SendFails(w)
        BY <1>1, <1>6 DEF Send, SendFails, OthersStay
    <1> QED
        BY <1>2, <1>3, <1>4, <1>5, <1>6 DEF WorkerStep

\* Claims only add to what makes an entry sound.
LEMMA SoundEntryStays ==
    ASSUME visitedDirs \subseteq visitedDirs', NEW e, SoundEntry(e)
    PROVE  SoundEntry(e)'
    BY LedToGrows DEF SoundEntry

LEMMA OthersStaySound ==
    ASSUME FoundInv, NEW w \in Worker, OthersStay(w), visitedDirs \subseteq visitedDirs',
           NEW v \in Worker \ {w}
    PROVE  SoundWorker(v)'
    <1>1. SoundWorker(v)
        BY DEF FoundInv, Founded
    <1>2. /\ item'[v] = item[v] /\ rest'[v] = rest[v] /\ dirs'[v] = dirs[v] /\ out'[v] = out[v]
          /\ pc'[v] = pc[v] \/ {pc[v], pc'[v]} \subseteq {"take", "waiting", "done"}
        BY DEF OthersStay
    <1>3. /\ \A e \in Members(dirs[v]) : SoundEntry(e)'
          /\ Holds(v) => SoundEntry(item[v])'
        <2>1. \A e : SoundEntry(e) => SoundEntry(e)'
            BY SoundEntryStays
        <2> QED
            BY <1>1, <1>2, <2>1 DEF SoundWorker, SoundEntry
    <1>4. \A d : EnteredAs(item[v], d, visitedDirs) => EnteredAs(item[v], d, visitedDirs')
        BY DEF EnteredAs
    <1>5. CASE pc'[v] = pc[v]
        BY <1>1, <1>2, <1>3, <1>4, <1>5 DEF SoundWorker, Holds, Lists, Scans
    <1>6. CASE {pc[v], pc'[v]} \subseteq {"take", "waiting", "done"}
        BY <1>1, <1>2, <1>3, <1>6 DEF SoundWorker, Holds, Lists, Scans
    <1> QED
        BY <1>2, <1>5, <1>6

\* Carried metadata do not make of an entry what it could not be found to be.
LEMMA ExaminedIsExamine ==
    ASSUME NEW e, SoundEntry(e), NEW o \in Examined(e)
    PROVE  o \in Examine(e.root, e.path)
    <1>1. CASE e.carried /\ ~TooLong(e.path)
        <2>1. o \in Admit(e.root, e.path, "dir") /\ "dir" \in Stat(e.path)
            BY <1>1 DEF Examined, SoundEntry
        <2> QED
            BY <1>1, <2>1 DEF Examine
    <1>2. CASE ~(e.carried /\ ~TooLong(e.path))
        BY <1>2 DEF Examined
    <1> QED
        BY <1>1, <1>2

\* What a scan makes of a child is what an examination would, but that a
\* directory is put off.
LEMMA ScanOutcomeIsExamine ==
    ASSUME NEW r, NEW p, NEW o \in ScanOutcome(r, p)
    PROVE  /\ o # "enter" => o \in Examine(r, p)
           /\ o = "enter" => ~TooLong(p) /\ "dir" \in Stat(p)
    <1>1. CASE TooLong(p)
        BY <1>1 DEF ScanOutcome, Examine
    <1>2. CASE ~TooLong(p)
        <2>1. PICK k \in Stat(p) : o \in IF k = "dir" THEN {"enter"} ELSE Admit(r, p, k)
            BY <1>2, Zenon DEF ScanOutcome
        <2>2. CASE k = "dir"
            BY <1>2, <2>1, <2>2
        <2>3. CASE k # "dir"
            <3>1. o \in Admit(r, p, k)
                BY <2>1, <2>3
            <3>2. o \in Examine(r, p)
                BY <1>2, <3>1 DEF Examine
            <3>3. o # "enter"
                BY <2>3, <3>1 DEF Admit
            <3> QED
                BY <3>2, <3>3
        <2> QED
            BY <2>2, <2>3
    <1> QED
        BY <1>1, <1>2

LEMMA InitFounded == Init => Founded
    <1> SUFFICES ASSUME Init PROVE Founded
        OBVIOUS
    <1>1. ASSUME NEW e \in Members(queue) PROVE SoundEntry(e)
        <2>1. PICK i \in 1 .. Len(queue) : e = queue[i]
            BY <1>1 DEF Members
        <2>2. e.depth = 0 /\ e.path = e.root /\ e.carried = FALSE
            BY <2>1, TreeAssumption DEF Init
        <2> QED
            BY <2>2 DEF SoundEntry, LedTo
    <1>2. ASSUME NEW w \in Worker PROVE SoundWorker(w)
        BY <1>2, MembersOfNone DEF Init, SoundWorker, Holds, Lists, Scans
    <1> QED
        BY <1>1, <1>2, MembersOfNone DEF Init, StreamInit, Founded

LEMMA MembersOfFrontLast ==
    ASSUME NEW S, NEW s \in Seq(S), s # <<>>
    PROVE  Members(s) = Members(Front(s)) \cup {Last(s)}
    <1>0. Len(s) \in Nat \ {0} /\ Len(s) - 1 \in Nat
        OBVIOUS
    <1>1. /\ Last(s) = s[Len(s)]
          /\ Len(Front(s)) = Len(s) - 1
          /\ \A i \in 1 .. Len(s) - 1 : Front(s)[i] = s[i]
        <2>1. \A i \in 1 .. Len(s) - 1 : s[i] \in S
            BY <1>0
        <2> DEFINE n == Len(s) - 1
        <2>2. 1 \in Int /\ n \in Int
            BY <1>0
        <2> HIDE DEF n
        <2>3. /\ Len(SubSeq(s, 1, n)) = IF 1 <= n THEN n - 1 + 1 ELSE 0
              /\ \A i \in 1 .. n - 1 + 1 : SubSeq(s, 1, n)[i] = s[1 + i - 1]
            <3>1. \A i \in 1 .. n : s[i] \in S
                BY <2>1 DEF n
            <3> QED
                BY <2>2, <3>1, SubSeqProperties
        <2>4. Front(s) = SubSeq(s, 1, n) /\ n \in Nat
            BY <1>0 DEF Front, n
        <2>5. Len(Front(s)) = n
            BY <2>3, <2>4
        <2>6. \A i \in 1 .. n : Front(s)[i] = s[i]
            <3>1. \A i \in 1 .. n : i \in 1 .. n - 1 + 1 /\ 1 + i - 1 = i
                BY <2>4
            <3> QED
                BY <2>3, <2>4, <3>1
        <2> QED
            BY <2>5, <2>6 DEF Last, n
    <1>2. \A i \in 1 .. Len(s) : i # Len(s) => i \in 1 .. Len(s) - 1
        BY <1>0
    <1> QED
        BY <1>0, <1>1, <1>2 DEF Members

\* A step of one worker leaves everything founded if its own state is.
LEMMA FoundedByOne ==
    ASSUME FoundInv, NEW w \in Worker, OthersStay(w), visitedDirs \subseteq visitedDirs',
           SoundWorker(w)',
           queue' = queue \/ \A e \in Members(queue') : SoundEntry(e)',
           channel' = channel \/ Members(channel') \subseteq Yieldable,
           received' = received
    PROVE  Founded'
    <1>1. \A v \in Worker : SoundWorker(v)'
        BY OthersStaySound
    <1>2. \A e \in Members(queue') : SoundEntry(e)'
        BY SoundEntryStays DEF FoundInv, Founded
    <1> QED
        BY <1>1, <1>2 DEF FoundInv, Founded

LEMMA PopFounded ==
    ASSUME FoundInv, NEW w \in Worker, Pop(w)
    PROVE  Founded'
    <1> USE DEF workVars, localVars, streamVars, Goto
    <1>1. /\ queue \in Seq(Entry) /\ pc \in [Worker -> PC]
          /\ item \in [Worker -> Entry \cup {NoEntry}]
          /\ SoundWorker(w) /\ OthersStay(w)
        BY StepOfOne DEF FoundInv, Founded, CountInv, TypeOK, WorkerStep
    <1>2. Members(queue) = Members(Front(queue)) \cup {Last(queue)}
        BY <1>1, MembersOfFrontLast DEF Pop
    <1>3. \A e \in Members(queue) : SoundEntry(e)'
        BY SoundEntryStays DEF FoundInv, Founded, Pop
    <1>4. SoundEntry(item[w])'
        <2>1. item'[w] = Last(queue) /\ visitedDirs' = visitedDirs
            BY <1>1 DEF Pop
        <2>2. SoundEntry(Last(queue))
            BY <1>2 DEF FoundInv, Founded
        <2> QED
            BY <2>1, <2>2 DEF SoundEntry
    <1>5. SoundWorker(w)'
        BY <1>1, <1>4, MembersOfNone DEF Pop, SoundWorker, Holds, Lists, Scans
    <1> QED
        BY <1>1, <1>2, <1>3, <1>5, FoundedByOne DEF Pop

LEMMA ExamineFounded ==
    ASSUME FoundInv, NEW w \in Worker, ExamineItem(w)
    PROVE  Founded'
    <1> USE DEF workVars, localVars, streamVars, Goto, Report
    <1> DEFINE e == item[w]
    <1>1. /\ pc \in [Worker -> PC] /\ out \in [Worker -> Seq(WalkItem)]
          /\ SoundWorker(w) /\ OthersStay(w)
        BY StepOfOne DEF FoundInv, Founded, CountInv, TypeOK, WorkerStep
    <1>2. SoundEntry(e) /\ e \in Entry
        BY <1>1, WorkerType DEF ExamineItem, SoundWorker, Holds, FoundInv
    <1>3. PICK o \in Examined(e) :
            /\ out' = [out EXCEPT ![w] = ErrorOf(o, e.path)]
            /\ pc' = [pc EXCEPT ![w] = IF o = "enter" THEN "claimDir"
                                       ELSE IF o = "yield" THEN "claimRoot" ELSE "finish"]
        BY DEF ExamineItem
    <1>4. o \in Examine(e.root, e.path)
        BY <1>2, <1>3, ExaminedIsExamine
    <1>5. Members(ErrorOf(o, e.path)) \subseteq Yieldable
        <2>1. o \in WalkOp => Error(o, e.path) \in Yieldable
            BY <1>2, <1>4, LedItemIsYieldable DEF SoundEntry, Entry
        <2> QED
            BY <2>1, MembersOfNone, MembersOfOne DEF ErrorOf
    <1>6. /\ item' = item /\ dirs' = dirs /\ visitedDirs' = visitedDirs
          /\ pc[w] = "examine"
        BY DEF ExamineItem
    <1>7. SoundWorker(w)'
        BY <1>1, <1>2, <1>3, <1>4, <1>5, <1>6 DEF SoundWorker, SoundEntry, Holds, Lists, Scans
    <1> QED
        BY <1>1, <1>6, <1>7, FoundedByOne DEF ExamineItem

LEMMA ClaimDirFounded ==
    ASSUME FoundInv, NEW w \in Worker, ClaimDir(w)
    PROVE  Founded'
    <1> USE DEF workVars, localVars, streamVars, Goto
    <1> DEFINE e == item[w]
               id == Tree[e.path].id
    <1>1. /\ pc \in [Worker -> PC] /\ item \in [Worker -> Entry \cup {NoEntry}]
          /\ SoundWorker(w) /\ OthersStay(w)
        BY StepOfOne DEF FoundInv, Founded, CountInv, TypeOK, WorkerStep
    <1>2. /\ SoundEntry(e) /\ e \in Entry
          /\ "enter" \in Examine(e.root, e.path)
          /\ dirs[w] = <<>> /\ dirs' = dirs /\ out' = out
        BY <1>1, WorkerType DEF ClaimDir, SoundWorker, Holds, Scans, FoundInv
    <1>3. CASE id \in visitedDirs
        <2>1. visitedDirs' = visitedDirs /\ pc'[w] = "take"
            BY <1>1, <1>3 DEF ClaimDir, SignalDone, NotifyAll
        <2>2. SoundWorker(w)'
            BY <1>1, <1>2, <2>1, MembersOfNone DEF SoundWorker, Holds, Lists, Scans
        <2> QED
            BY <1>1, <2>1, <2>2, FoundedByOne DEF ClaimDir
    <1>4. CASE id \notin visitedDirs
        <2>1. /\ visitedDirs' = visitedDirs \cup {id} /\ item' = item
              /\ pc'[w] = IF Recurse(e.depth) THEN "list" ELSE "finish"
            BY <1>1, <1>4 DEF ClaimDir
        <2>2. \E d : EnteredAs(e, d, visitedDirs')
            BY <1>2, <1>4, <2>1, LedDirIsFound DEF SoundEntry, Entry
        <2>3. SoundEntry(e)'
            BY <1>2, <2>1, SoundEntryStays
        <2>4. LedTo(e, visitedDirs') /\ (e.carried => ~TooLong(e.path) /\ "dir" \in Stat(e.path))
            BY <1>2, <2>1, LedToGrows DEF SoundEntry
        <2>5. SoundWorker(w)'
            <3> HIDE DEF e, id
            <3>1. item'[w] = e
                BY <2>1 DEF e
            <3> QED
                BY <1>1, <1>2, <2>1, <2>2, <2>4, <3>1, MembersOfNone
                DEF SoundWorker, SoundEntry, Holds, Lists, Scans
        <2> QED
            BY <1>1, <2>1, <2>5, FoundedByOne DEF ClaimDir
    <1> QED
        BY <1>3, <1>4

LEMMA ListDirFounded ==
    ASSUME FoundInv, NEW w \in Worker, ListDir(w)
    PROVE  Founded'
    <1> USE DEF workVars, localVars, streamVars, Goto, Report
    <1> DEFINE e == item[w]
               es == [i \in 1 .. Tree[e.path].entryErrors |-> Error("ReadDir", e.path)]
    <1>1. /\ pc \in [Worker -> PC] /\ out \in [Worker -> Seq(WalkItem)]
          /\ rest \in [Worker -> Seq(Path)]
          /\ SoundWorker(w) /\ OthersStay(w)
        BY StepOfOne DEF FoundInv, Founded, CountInv, TypeOK, WorkerStep
    <1>2. /\ SoundEntry(e) /\ e \in Entry /\ Recurse(e.depth)
          /\ pc[w] = "list" /\ dirs[w] = <<>>
          /\ item' = item /\ dirs' = dirs /\ visitedDirs' = visitedDirs
        BY <1>1, WorkerType DEF ListDir, SoundWorker, Holds, Scans, Lists, FoundInv
    <1>3. PICK d : EnteredAs(e, d, visitedDirs)
        BY <1>1, <1>2 DEF SoundWorker, Lists
    <1>4. /\ d \in Levels("may")[e.depth] /\ d.path = e.path /\ e.depth \in Nat
        BY <1>2, <1>3 DEF EnteredAs, Entry
    <1>5. /\ FALSE \in ReadDir(e.path) => Error("ReadDir", e.path) \in Yieldable
          /\ TRUE \in ReadDir(e.path) =>
               \A i \in 1 .. Tree[e.path].entryErrors : Error("ReadDir", e.path) \in Yieldable
        BY <1>2, <1>4, HarvestIsYieldable
    <1>6. PICK readable \in ReadDir(e.path) :
             IF readable
             THEN /\ out' = [out EXCEPT ![w] = es]
                  /\ rest' = [rest EXCEPT ![w] = Tree[e.path].children]
                  /\ pc' = [pc EXCEPT ![w] = "scan"]
             ELSE /\ out' = [out EXCEPT ![w] = <<Error("ReadDir", e.path)>>]
                  /\ pc' = [pc EXCEPT ![w] = "finish"]
                  /\ rest' = rest
        BY DEF ListDir
    <1>7. readable \in BOOLEAN
        BY <1>6 DEF ReadDir
    <1>8. CASE readable = TRUE
        <2>1. Members(es) \subseteq Yieldable
            <3>1. Tree[e.path].entryErrors \in Nat
                BY <1>2, NodeType DEF Entry
            <3>2. Len(es) = Tree[e.path].entryErrors
                BY <3>1
            <3> QED
                BY <1>5, <1>6, <1>8, <3>2 DEF Members
        <2>2. Members(Tree[e.path].children) \subseteq Entries(e.path)
            BY DEF Members, Entries
        <2> HIDE DEF e, es
        <2>3. item'[w] = e /\ item[w] = e
            BY <1>2 DEF e
        <2>4. SoundWorker(w)'
            BY <1>1, <1>2, <1>3, <1>6, <1>8, <2>1, <2>2, <2>3, MembersOfNone
            DEF SoundWorker, SoundEntry, Holds, Lists, Scans
        <2> QED
            BY <1>1, <1>2, <2>4, FoundedByOne DEF ListDir
    <1>9. CASE readable = FALSE
        <2>1. Members(<<Error("ReadDir", e.path)>>) \subseteq Yieldable
            <3>1. Error("ReadDir", e.path) \in Yieldable
                BY <1>5, <1>6, <1>9
            <3> QED
                BY <3>1, MembersOfOne
        <2> HIDE DEF e, es
        <2>2. item'[w] = e /\ item[w] = e
            BY <1>2 DEF e
        <2>3. SoundWorker(w)'
            BY <1>1, <1>2, <1>6, <1>9, <2>1, <2>2, MembersOfNone
            DEF SoundWorker, SoundEntry, Holds, Lists, Scans
        <2> QED
            BY <1>1, <1>2, <2>3, FoundedByOne DEF ListDir
    <1> QED
        BY <1>7, <1>8, <1>9

\* The child of a directory that is being scanned is sound as an entry, and what
\* the scan makes of it may be yielded.
LEMMA ChildFounded ==
    ASSUME FoundInv, NEW w \in Worker, Scans(w), NEW p \in Members(rest[w])
    PROVE  /\ LedTo(Child(item[w], p), visitedDirs)
           /\ \A o \in Examine(item[w].root, p) :
                /\ o = "yield" => File(p) \in Yieldable
                /\ o \in WalkOp => Error(o, p) \in Yieldable
    <1> DEFINE e == item[w]
               c == Child(e, p)
    <1>1. SoundWorker(w) /\ Lists(w) /\ e \in Entry
        BY WorkerType DEF FoundInv, Founded, Lists, Scans, Holds
    <1>2. PICK d : EnteredAs(e, d, visitedDirs)
        BY <1>1 DEF SoundWorker
    <1>3. /\ Recurse(e.depth) /\ TRUE \in ReadDir(e.path) /\ p \in Entries(e.path)
          /\ e.depth \in Nat /\ e.root \in RootSet
        BY <1>1 DEF SoundWorker, Entry
    <1>4. c.depth = e.depth + 1 /\ c.root = e.root /\ c.path = p /\ c.depth \in Nat
        BY <1>3 DEF Child
    <1> HIDE DEF c, e
    <1>5. LedTo(c, visitedDirs)
        BY <1>2, <1>3, <1>4, ChildIsLedTo
    <1>6. \A o \in Examine(e.root, p) :
            /\ o = "yield" => File(p) \in Yieldable
            /\ o \in WalkOp => Error(o, p) \in Yieldable
        BY <1>3, <1>4, <1>5, LedItemIsYieldable
    <1> QED
        BY <1>5, <1>6 DEF c, e

LEMMA ScanChildFounded ==
    ASSUME FoundInv, NEW w \in Worker, ScanChild(w)
    PROVE  Founded'
    <1> USE DEF workVars, localVars, streamVars, Goto, Report
    <1> DEFINE e == item[w]
               p == Head(rest[w])
               c == Child(e, p)
    <1>1. /\ pc \in [Worker -> PC] /\ out \in [Worker -> Seq(WalkItem)]
          /\ rest \in [Worker -> Seq(Path)] /\ dirs \in [Worker -> Seq(Entry)]
          /\ SoundWorker(w) /\ OthersStay(w)
        BY StepOfOne DEF FoundInv, Founded, CountInv, TypeOK, WorkerStep
    <1>2. /\ Scans(w) /\ Holds(w) /\ Lists(w) /\ e \in Entry
          /\ rest[w] # <<>> /\ rest[w] \in Seq(Path)
          /\ item' = item /\ visitedDirs' = visitedDirs
        BY <1>1, WorkerType DEF ScanChild, Scans, Holds, Lists, FoundInv
    <1>3. p \in Path /\ Members(rest[w]) = {p} \cup Members(Tail(rest[w]))
        BY <1>2, MembersOfHeadTail
    <1>4. PICK o \in ScanOutcome(e.root, p) :
            /\ out' = [out EXCEPT ![w] = ErrorOf(o, p)]
            /\ dirs' = IF o = "enter" THEN [dirs EXCEPT ![w] = Append(@, c)] ELSE dirs
            /\ rest' = [rest EXCEPT ![w] = IF o = "yield" THEN @
                                           ELSE IF o = "Gitignore" THEN <<>> ELSE Tail(@)]
            /\ pc' = [pc EXCEPT ![w] = IF o = "yield" THEN "claimChild" ELSE "scan"]
        BY DEF ScanChild
    <1>5. /\ o # "enter" => o \in Examine(e.root, p)
          /\ o = "enter" => ~TooLong(p) /\ "dir" \in Stat(p)
        BY <1>4, ScanOutcomeIsExamine
    <1>6. LedTo(c, visitedDirs)
        BY <1>2, <1>3, ChildFounded
    <1>7. Members(ErrorOf(o, p)) \subseteq Yieldable
        <2>1. o \in WalkOp => Error(o, p) \in Yieldable
            BY <1>2, <1>3, <1>5, ChildFounded DEF WalkOp
        <2> QED
            BY <2>1, MembersOfNone, MembersOfOne DEF ErrorOf
    <1>8. \A x \in Members(dirs'[w]) : SoundEntry(x)
        <2>1. c \in Entry /\ c.path = p
            BY <1>2, <1>3 DEF Child, Entry
        <2>2. o = "enter" => SoundEntry(c)
            BY <1>5, <1>6, <2>1 DEF SoundEntry
        <2> HIDE DEF c
        <2>3. Members(Append(dirs[w], c)) = Members(dirs[w]) \cup {c}
            BY <1>1, <2>1, MembersOfAppend
        <2> QED
            BY <1>1, <1>4, <2>2, <2>3 DEF SoundWorker
    <1>9. Members(rest'[w]) \subseteq Members(rest[w])
        BY <1>1, <1>3, <1>4, MembersOfNone
    <1>10. pc'[w] \in {"scan", "claimChild"}
        BY <1>1, <1>4
    <1>11. pc'[w] = "claimChild" => "yield" \in Examine(e.root, p) /\ Head(rest'[w]) = p
        BY <1>1, <1>4, <1>5
    <1> HIDE DEF e, p, c
    <1>12. item'[w] = e /\ item[w] = e /\ out'[w] = ErrorOf(o, p)
        BY <1>1, <1>2, <1>4 DEF e
    <1>13. SoundWorker(w)'
        BY <1>1, <1>2, <1>7, <1>8, <1>9, <1>10, <1>11, <1>12
        DEF SoundWorker, SoundEntry, Holds, Lists, Scans
    <1> QED
        BY <1>1, <1>2, <1>13, FoundedByOne DEF ScanChild

LEMMA ClaimChildFounded ==
    ASSUME FoundInv, NEW w \in Worker, ClaimChild(w)
    PROVE  Founded'
    <1> USE DEF workVars, localVars, streamVars, Goto, Report
    <1> DEFINE e == item[w]
               p == Head(rest[w])
    <1>1. /\ pc \in [Worker -> PC] /\ out \in [Worker -> Seq(WalkItem)]
          /\ rest \in [Worker -> Seq(Path)]
          /\ SoundWorker(w) /\ OthersStay(w)
        BY StepOfOne DEF FoundInv, Founded, CountInv, TypeOK, WorkerStep
    <1>2. /\ Scans(w) /\ Holds(w) /\ Lists(w)
          /\ rest[w] # <<>> /\ rest[w] \in Seq(Path)
          /\ item' = item /\ visitedDirs' = visitedDirs /\ dirs' = dirs
        BY <1>1 DEF ClaimChild, Scans, Holds, Lists, FoundInv, CountInv, HeldItems
    <1>3. p \in Path /\ Members(rest[w]) = {p} \cup Members(Tail(rest[w]))
        BY <1>2, MembersOfHeadTail
    <1>4. File(p) \in Yieldable
        <2>1. "yield" \in Examine(e.root, p)
            BY <1>1 DEF SoundWorker, ClaimChild
        <2> QED
            BY <1>2, <1>3, <2>1, ChildFounded
    <1>5. Members(out'[w]) \subseteq Yieldable
        BY <1>1, <1>4, MembersOfNone, MembersOfOne DEF ClaimChild
    <1>6. Members(rest'[w]) \subseteq Members(rest[w]) /\ pc'[w] = "scan"
        BY <1>1, <1>3 DEF ClaimChild
    <1> HIDE DEF e, p
    <1>7. SoundWorker(w)'
        BY <1>1, <1>2, <1>5, <1>6 DEF SoundWorker, SoundEntry, Holds, Lists, Scans
    <1> QED
        BY <1>1, <1>2, <1>7, FoundedByOne DEF ClaimChild

LEMMA PushDirsFounded ==
    ASSUME FoundInv, NEW w \in Worker, PushDirs(w)
    PROVE  Founded'
    <1> USE DEF workVars, localVars, streamVars
    <1>1. /\ pc \in [Worker -> PC] /\ dirs \in [Worker -> Seq(Entry)] /\ queue \in Seq(Entry)
          /\ SoundWorker(w) /\ OthersStay(w)
        BY StepOfOne DEF FoundInv, Founded, CountInv, TypeOK, WorkerStep
    <1>2. Members(queue') = Members(queue) \cup Members(dirs[w])
        BY <1>1, MembersOfConcat DEF PushDirs
    <1>3. \A e \in Members(queue') : SoundEntry(e)'
        <2>1. \A e \in Members(queue') : SoundEntry(e)
            BY <1>1, <1>2 DEF FoundInv, Founded, SoundWorker
        <2> QED
            BY <2>1, SoundEntryStays DEF PushDirs
    <1>4. /\ pc'[w] = "finish" /\ dirs'[w] = <<>> /\ Holds(w)
          /\ item' = item /\ out' = out /\ visitedDirs' = visitedDirs
        BY <1>1 DEF PushDirs, NotifyAll, ScanOver, Holds
    <1>5. SoundWorker(w)'
        BY <1>1, <1>4, MembersOfNone DEF SoundWorker, SoundEntry, Holds, Lists, Scans
    <1> QED
        BY <1>1, <1>3, <1>5, FoundedByOne DEF PushDirs

LEMMA ClaimRootFounded ==
    ASSUME FoundInv, NEW w \in Worker, ClaimRoot(w)
    PROVE  Founded'
    <1> USE DEF workVars, localVars, streamVars, Goto, Report
    <1> DEFINE e == item[w]
    <1>1. /\ pc \in [Worker -> PC] /\ out \in [Worker -> Seq(WalkItem)]
          /\ SoundWorker(w) /\ OthersStay(w)
        BY StepOfOne DEF FoundInv, Founded, CountInv, TypeOK, WorkerStep
    <1>2. /\ SoundEntry(e) /\ e \in Entry /\ "yield" \in Examine(e.root, e.path)
          /\ dirs[w] = <<>> /\ dirs' = dirs /\ visitedDirs' = visitedDirs
        BY <1>1, WorkerType DEF ClaimRoot, SoundWorker, Holds, Scans, FoundInv
    <1>3. File(e.path) \in Yieldable
        BY <1>2, LedItemIsYieldable DEF SoundEntry, Entry
    <1>4. CASE e.path \in visitedFiles
        <2>1. pc'[w] = "take" /\ out' = out
            BY <1>1, <1>4 DEF ClaimRoot, SignalDone, NotifyAll
        <2>2. SoundWorker(w)'
            BY <1>1, <1>2, <2>1, MembersOfNone DEF SoundWorker, Holds, Lists, Scans
        <2> QED
            BY <1>1, <1>2, <2>2, FoundedByOne DEF ClaimRoot
    <1>5. CASE e.path \notin visitedFiles
        <2>1. pc'[w] = "finish" /\ out'[w] = <<File(e.path)>> /\ item' = item
            BY <1>1, <1>5 DEF ClaimRoot
        <2>2. Members(out'[w]) \subseteq Yieldable
            BY <1>3, <2>1, MembersOfOne
        <2>3. SoundWorker(w)'
            BY <1>1, <1>2, <2>1, <2>2, MembersOfNone
            DEF SoundWorker, SoundEntry, Holds, Lists, Scans
        <2> QED
            BY <1>1, <1>2, <2>3, FoundedByOne DEF ClaimRoot
    <1> QED
        BY <1>4, <1>5

LEMMA SendFounded ==
    ASSUME FoundInv, NEW w \in Worker, Send(w)
    PROVE  Founded'
    <1> USE DEF workVars, localVars, streamVars
    <1>1. /\ out \in [Worker -> Seq(WalkItem)] /\ channel \in Seq(WalkItem)
          /\ SoundWorker(w) /\ OthersStay(w)
        BY StepOfOne DEF FoundInv, Founded, CountInv, TypeOK, StreamTypeOK, WorkerStep
    <1>2. /\ Head(out[w]) \in WalkItem
          /\ Members(out[w]) = {Head(out[w])} \cup Members(Tail(out[w]))
        BY <1>1, MembersOfHeadTail DEF Send, Sent
    <1>3. Members(channel') = Members(channel) \cup {Head(out[w])}
        BY <1>1, <1>2, MembersOfAppend DEF Send, Enqueue
    <1>4. Members(out[w]) \subseteq Yieldable /\ Members(channel) \subseteq Yieldable
        BY <1>1 DEF FoundInv, Founded, SoundWorker
    <1>5. /\ pc' = pc /\ item' = item /\ rest' = rest /\ dirs' = dirs
          /\ visitedDirs' = visitedDirs /\ queue' = queue /\ received' = received
          /\ out'[w] = Tail(out[w])
        BY <1>1 DEF Send, Enqueue
    <1>6. SoundWorker(w)'
        BY <1>1, <1>2, <1>4, <1>5 DEF SoundWorker, SoundEntry, Holds, Lists, Scans
    <1> QED
        BY <1>1, <1>2, <1>3, <1>4, <1>5, <1>6, FoundedByOne

LEMMA SendFailsFounded ==
    ASSUME FoundInv, NEW w \in Worker, SendFails(w)
    PROVE  Founded'
    <1> USE DEF workVars, localVars, streamVars
    <1>1. /\ out \in [Worker -> Seq(WalkItem)] /\ rest \in [Worker -> Seq(Path)]
          /\ SoundWorker(w) /\ OthersStay(w)
        BY StepOfOne DEF FoundInv, Founded, CountInv, TypeOK, WorkerStep
    <1>2. Members(out[w]) = {Head(out[w])} \cup Members(Tail(out[w]))
        BY <1>1, MembersOfHeadTail DEF SendFails, Sent
    <1>3. rest'[w] \in {rest[w], <<>>} /\ pc[w] \in {"scan", "finish"}
        BY <1>1 DEF SendFails, FoundInv, CountInv, HeldItems, Sent
    <1>4. /\ pc' = pc /\ item' = item /\ dirs' = dirs /\ visitedDirs' = visitedDirs
          /\ queue' = queue /\ channel' = channel /\ received' = received
          /\ out'[w] = Tail(out[w])
        BY <1>1 DEF SendFails
    <1>5. Members(rest'[w]) \subseteq Members(rest[w])
        BY <1>3, MembersOfNone
    <1>6. SoundWorker(w)'
        BY <1>1, <1>2, <1>3, <1>4, <1>5 DEF SoundWorker, SoundEntry, Holds, Lists, Scans
    <1> QED
        BY <1>1, <1>4, <1>6, FoundedByOne

LEMMA NextFounded == FoundInv /\ [Next]_vars => Founded'
    <1> SUFFICES ASSUME FoundInv, [Next]_vars PROVE Founded'
        OBVIOUS
    <1> USE DEF workVars, localVars, streamVars
    <1>1. ASSUME NEW w \in Worker,
                 \/ Quit(w) \/ Wait(w) \/ SpuriousWakeup(w) \/ Finish(w)
          PROVE Founded'
        <2>1. /\ pc \in [Worker -> PC] /\ dirs \in [Worker -> Seq(Entry)]
              /\ SoundWorker(w) /\ OthersStay(w)
            BY <1>1, StepOfOne DEF FoundInv, Founded, CountInv, TypeOK, WorkerStep
        <2>2. /\ pc'[w] \in {"take", "waiting", "done"}
              /\ dirs'[w] = <<>> /\ out' = out
            BY <1>1, <2>1 DEF Quit, Wait, SpuriousWakeup, Finish, NotifyAll, SignalDone,
                              Goto, SoundWorker, Scans
        <2>3. SoundWorker(w)'
            BY <2>1, <2>2, MembersOfNone DEF SoundWorker, Holds, Lists, Scans
        <2> QED
            BY <1>1, <2>1, <2>3, FoundedByOne DEF Quit, Wait, SpuriousWakeup, Finish
    <1>2. ASSUME UNCHANGED <<queue, visitedDirs, pc, item, rest, dirs, out>>,
                 Members(channel') \subseteq Yieldable, received' \subseteq Yieldable
          PROVE  Founded'
        BY <1>2 DEF FoundInv, Founded, SoundWorker, SoundEntry, Holds, Lists, Scans
    <1>3. CASE NextItem
        <2>1. /\ Head(channel) \in Members(channel)
              /\ Members(Tail(channel)) \subseteq Members(channel)
            BY <1>3, MembersOfHeadTail
            DEF FoundInv, CountInv, TypeOK, StreamTypeOK, NextItem, Next_Item
        <2> QED
            BY <1>2, <1>3, <2>1 DEF FoundInv, Founded, NextItem, Next_Item
    <1>4. CASE Join \/ NextNone \/ DropIterator \/ UNCHANGED vars
        BY <1>2, <1>4, MembersOfNone
        DEF FoundInv, Founded, Join, NextNone, Next_None, DropIterator, DropIter, vars
    <1> QED
        BY <1>1, <1>3, <1>4, PopFounded, ExamineFounded, ClaimDirFounded, ListDirFounded,
           ScanChildFounded, ClaimChildFounded, PushDirsFounded, ClaimRootFounded,
           SendFounded, SendFailsFounded
        DEF Next, WorkerStep, Terminated

LEMMA FoundInvariant == Spec => []FoundInv
    <1>1. Init => FoundInv
        BY InitType, InitCount, InitFounded DEF FoundInv, CountInv
    <1>2. FoundInv /\ [Next]_vars => FoundInv'
        BY NextType, NextCount, NextFounded DEF FoundInv, CountInv
    <1> QED
        BY <1>1, <1>2, PTL DEF Spec

\* Whatever the workers do to each other's schedules, the consumer gets only items
\* that the tree justifies: nothing below a directory that was not entered, past
\* the depth limit, ignored, or reported for a path that is in order.
THEOREM PoolYieldsOnlyWhatIsThere == Spec => [](received \subseteq Yieldable)
    <1>1. FoundInv => received \subseteq Yieldable
        BY DEF FoundInv, Founded
    <1> QED
        BY <1>1, FoundInvariant, PTL

-----------------------------------------------------------------------------
(* The accounts of the pool.  They are kept as long as somebody reads: a   *)
(* walk whose iterator has been dropped owes nothing.                      *)

\* How the walk ends, and that no scan is broken off before.
Ending ==
    /\ control = "returned" => \A w \in Worker : pc[w] = "done"
    /\ consumer = "ended" => control = "returned" /\ channel = <<>>
    /\ consumer # "dropped" => \A w \in Worker : ~closed[w]

EndInv == FoundInv /\ Ending

LEMMA InitEnding == Init => Ending
    BY DEF Init, StreamInit, Ending

\* The joining thread does not return over a worker that can move.
LEMMA WorkersAreJoined ==
    ASSUME EndInv, NEW w \in Worker, WorkerStep(w) \/ SpuriousWakeup(w)
    PROVE  control # "returned" /\ consumer # "ended"
    <1>1. pc[w] # "done"
        BY DEF EndInv, FoundInv, CountInv, HeldItems, WorkerStep, SpuriousWakeup, Pop, Quit,
               Wait, ExamineItem, ClaimDir, ListDir, ScanChild, ClaimChild, PushDirs,
               ClaimRoot, Send, SendFails, Finish, ScanOver, Sent
    <1> QED
        BY <1>1 DEF EndInv, Ending

\* A scan of a directory that may be walked is not broken off.
LEMMA ScanGoesOn ==
    ASSUME NoScanIsCutShort, FoundInv, NEW w \in Worker, Scans(w), rest[w] # <<>>
    PROVE  "Gitignore" \notin ScanOutcome(item[w].root, Head(rest[w]))
    <1> DEFINE e == item[w]
    <1>1. SoundWorker(w) /\ Lists(w) /\ e \in Entry /\ rest[w] \in Seq(Path)
        BY WorkerType DEF FoundInv, Founded, Lists, Scans, Holds
    <1>2. PICK d : EnteredAs(e, d, visitedDirs)
        BY <1>1 DEF SoundWorker
    <1>3. /\ Recurse(e.depth) /\ TRUE \in ReadDir(e.path) /\ Members(rest[w]) \subseteq Entries(e.path)
          /\ e.depth \in Nat
        BY <1>1 DEF SoundWorker, Entry
    <1>4. d \in Levels("may")[e.depth] /\ d.path = e.path /\ d.root = e.root
        BY <1>2 DEF EnteredAs
    <1> HIDE DEF e
    <1>5. d \in MayEnter
        BY <1>3, <1>4, EnteredIfRecursed DEF MayEnter
    <1>6. Head(rest[w]) \in Entries(d.path)
        BY <1>1, <1>3, <1>4, MembersOfHeadTail
    <1> QED
        BY <1>3, <1>4, <1>5, <1>6 DEF NoScanIsCutShort, e

LEMMA NextEnding ==
    ASSUME NoScanIsCutShort, EndInv, [Next]_vars
    PROVE  Ending'
    <1> USE DEF workVars, localVars, streamVars
    <1>1. closed \in [Worker -> BOOLEAN] /\ pc \in [Worker -> PC]
        BY DEF EndInv, FoundInv, CountInv, TypeOK
    <1>2. ASSUME NEW w \in Worker, WorkerStep(w) \/ SpuriousWakeup(w) PROVE Ending'
        <2>1. control # "returned" /\ consumer # "ended"
            BY <1>2, WorkersAreJoined
        <2>2. control' = control /\ consumer' = consumer
            BY <1>2 DEF WorkerStep, SpuriousWakeup, Pop, Quit, Wait, ExamineItem, ClaimDir,
                        ListDir, ScanChild, ClaimChild, PushDirs, ClaimRoot, Send, SendFails,
                        Finish, Enqueue
        <2>3. consumer = "reading" => closed' = closed
            <3>1. CASE ScanChild(w)
                <4>1. PICK o \in ScanOutcome(item[w].root, Head(rest[w])) :
                        closed' = IF o = "Gitignore" THEN [closed EXCEPT ![w] = TRUE] ELSE closed
                    BY <3>1 DEF ScanChild
                <4>2. o # "Gitignore"
                    BY <3>1, <4>1, ScanGoesOn DEF ScanChild, EndInv, Scans
                <4> QED
                    BY <4>1, <4>2
            <3>2. CASE SendFails(w)
                BY <3>2 DEF SendFails, ReceiverGone
            <3>3. CASE ~ScanChild(w) /\ ~SendFails(w)
                BY <1>2, <3>3
                DEF WorkerStep, SpuriousWakeup, Pop, Quit, Wait, ExamineItem, ClaimDir,
                    ListDir, ClaimChild, PushDirs, ClaimRoot, Send, Finish
            <3> QED
                BY <3>1, <3>2, <3>3
        <2>4. consumer \in {"reading", "ended", "dropped"}
            BY DEF EndInv, FoundInv, CountInv, TypeOK, StreamTypeOK
        <2> QED
            BY <2>1, <2>2, <2>3, <2>4 DEF EndInv, Ending
    <1>3. CASE Join
        BY <1>3 DEF EndInv, FoundInv, CountInv, TypeOK, Ending, Join
    <1>4. CASE NextItem
        BY <1>4 DEF EndInv, Ending, NextItem, Next_Item
    <1>5. CASE NextNone
        BY <1>5 DEF EndInv, Ending, NextNone, Next_None
    <1>6. CASE DropIterator
        BY <1>6 DEF EndInv, Ending, DropIterator, DropIter
    <1>7. CASE UNCHANGED vars
        BY <1>7 DEF EndInv, Ending, vars
    <1> QED
        BY <1>2, <1>3, <1>4, <1>5, <1>6, <1>7 DEF Next, Terminated

\* An entry without the metadata it may carry, and the one of a child that the
\* scan of worker w comes to.
Strip(e) == [path |-> e.path, depth |-> e.depth, root |-> e.root]

UnderItem(w, c) == [path |-> c, depth |-> item[w].depth + 1, root |-> item[w].root]

\* What worker w has still to examine or to put on the stack.
Awaited(w) ==
    (IF pc[w] \in {"examine", "claimDir", "claimRoot"} THEN {Strip(item[w])} ELSE {})
      \cup { Strip(e) : e \in Members(dirs[w]) }
      \cup (IF Scans(w) THEN { UnderItem(w, c) : c \in Members(rest[w]) } ELSE {})

\* The directory worker w has claimed and not listed.
ToList(w) == IF pc[w] = "list" THEN {Strip(item[w])} ELSE {}

Pending == { Strip(e) : e \in Members(queue) } \cup (UNION { Awaited(w) : w \in Worker })

Unlisted == UNION { ToList(w) : w \in Worker }

\* What has been sent or will be.
Got == received \cup Members(channel) \cup (UNION { Members(out[w]) : w \in Worker })

Books(K) ==
    /\ Accounts(K, Pending, Unlisted, Got)
    /\ \A id \in visitedDirs : \E k \in K : Tree[k.dir.path].id = id
    /\ \A p \in visitedFiles : File(p) \in Got

Accounted == consumer # "dropped" => \E K : Books(K)

\* A path that turned out to be o is done with once the item it came to is on its
\* way, or the directory it is has been claimed.
LEMMA OutcomeDischarges ==
    ASSUME NEW K, NEW got, NEW e, NEW o \in Examine(e.root, e.path),
           o = "yield" => File(e.path) \in got,
           o \in WalkOp => Error(o, e.path) \in got,
           o = "enter" => ClaimedBy(K, Tree[e.path].id, e.depth)
    PROVE  Discharged(K, got, e)
    <1>1. /\ \A m \in ItemsOf("must", e.root, e.path) :
               \/ o = "yield" /\ m = File(e.path)
               \/ o \in WalkOp /\ m = Error(o, e.path)
          /\ Enters("must", e.root, e.path) => o = "enter"
        BY ItemMustBe
    <1> QED
        BY <1>1 DEF Discharged

LEMMA OthersStayAwaited ==
    ASSUME NEW w \in Worker, OthersStay(w), NEW v \in Worker \ {w}
    PROVE  Awaited(v)' = Awaited(v) /\ ToList(v)' = ToList(v)
    <1>1. /\ item'[v] = item[v] /\ rest'[v] = rest[v] /\ dirs'[v] = dirs[v]
          /\ pc'[v] = pc[v] \/ {pc[v], pc'[v]} \subseteq {"take", "waiting", "done"}
        BY DEF OthersStay
    <1>2. CASE pc'[v] = pc[v]
        BY <1>1, <1>2 DEF Awaited, ToList, Scans, UnderItem
    <1>3. CASE {pc[v], pc'[v]} \subseteq {"take", "waiting", "done"}
        BY <1>1, <1>3 DEF Awaited, ToList, Scans
    <1> QED
        BY <1>1, <1>2, <1>3

\* What worker w adds to what it has to send is got.
LEMMA GotGrows ==
    ASSUME NEW w \in Worker, OthersStay(w), received' = received, channel' = channel,
           Members(out[w]) \subseteq Members(out'[w])
    PROVE  Got \subseteq Got' /\ Members(out'[w]) \subseteq Got'
    <1>1. \A v \in Worker : Members(out[v]) \subseteq Members(out'[v])
        BY DEF OthersStay
    <1> QED
        BY <1>1 DEF Got

\* The books after a step of worker w: what it was to examine is settled, and the
\* directory it was to list is listed, or it is all still to do.
LEMMA BooksStep ==
    ASSUME NEW w \in Worker, OthersStay(w), NEW K, Books(K), NEW L, K \subseteq L, L \subseteq Claims,
           Got \subseteq Got',
           queue' = queue \/ \A e \in Members(queue) : Strip(e) \in Pending',
           \A e \in Awaited(w) : Settled(L, Pending', Got', e),
           \A k \in L \ K : k.dir \in Levels("may")[k.depth]
                            /\ (Recurse(k.depth) => EntryOf(k) \in Unlisted'),
           \A k \in K : Recurse(k.depth) /\ EntryOf(k) \in ToList(w) => Listed(L, Pending', Got', k),
           \A id \in visitedDirs' : \E k \in L : Tree[k.dir.path].id = id,
           \A p \in visitedFiles' : p \in visitedFiles \/ File(p) \in Got'
    PROVE  Books(L)'
    <1>1. \A v \in Worker \ {w} : Awaited(v)' = Awaited(v) /\ ToList(v)' = ToList(v)
        BY OthersStayAwaited
    <1>2. \A v \in Worker \ {w} : Awaited(v) \subseteq Pending' /\ ToList(v) \subseteq Unlisted'
        BY <1>1, Zenon DEF Pending, Unlisted
    <1>3. ASSUME NEW e \in Pending PROVE Settled(L, Pending', Got', e)
        <2>1. CASE \E q \in Members(queue) : e = Strip(q)
            BY <2>1 DEF Pending, Settled
        <2>2. CASE \E v \in Worker : e \in Awaited(v)
            BY <1>2, <2>2 DEF Settled
        <2> QED
            BY <1>3, <2>1, <2>2 DEF Pending
    <1>4. ASSUME NEW k \in L, Recurse(k.depth), k \in K => EntryOf(k) \in Unlisted
          PROVE  EntryOf(k) \in Unlisted' \/ Listed(L, Pending', Got', k)
        <2>1. CASE k \in K
            <3>1. PICK v \in Worker : EntryOf(k) \in ToList(v)
                BY <1>4, <2>1 DEF Unlisted
            <3> QED
                BY <1>2, <1>4, <2>1, <3>1
        <2>2. CASE k \notin K
            BY <1>4, <2>2
        <2> QED
            BY <2>1, <2>2
    <1>5. Accounts(K, Pending, Unlisted, Got)
        BY DEF Books
    <1>6. Accounts(L, Pending', Unlisted', Got')
        BY <1>3, <1>4, <1>5, AccountsStep
    <1>7. \A p \in visitedFiles' : File(p) \in Got'
        BY DEF Books
    <1>8. Accounts(L, Pending, Unlisted, Got)'
        BY <1>6
    <1> QED
        BY <1>7, <1>8 DEF Books

\* The step of a worker that claims no directory and lists none: what it was to
\* examine is still to do or has been done, and the rest of the books is kept.
LEMMA KeepBooks ==
    ASSUME NEW w \in Worker, OthersStay(w), NEW K, Books(K), pc[w] # "list",
           Got \subseteq Got',
           queue' = queue \/ \A e \in Members(queue) : Strip(e) \in Pending',
           \A e \in Awaited(w) : e \in Pending' \/ Discharged(K, Got', e),
           visitedDirs' = visitedDirs,
           \A p \in visitedFiles' : p \in visitedFiles \/ File(p) \in Got'
    PROVE  Books(K)'
    <1>1. ToList(w) = {} /\ K \subseteq Claims
        BY DEF ToList, Books, Accounts
    <1>2. \A e \in Awaited(w) : Settled(K, Pending', Got', e)
        BY DEF Settled
    <1>3. \A id \in visitedDirs' : \E k \in K : Tree[k.dir.path].id = id
        BY DEF Books
    <1> QED
        BY <1>1, <1>2, <1>3, BooksStep

\* What worker w awaits after its step is pending.
LEMMA AwaitedIsPending ==
    ASSUME NEW w \in Worker
    PROVE  Awaited(w)' \subseteq Pending'
    BY Zenon DEF Pending

\* What is common to the steps below.
LEMMA WorkerFacts ==
    ASSUME EndInv, NEW w \in Worker, WorkerStep(w) \/ SpuriousWakeup(w)
    PROVE  /\ pc \in [Worker -> PC] /\ out \in [Worker -> Seq(WalkItem)]
           /\ rest \in [Worker -> Seq(Path)] /\ dirs \in [Worker -> Seq(Entry)]
           /\ item \in [Worker -> Entry \cup {NoEntry}] /\ queue \in Seq(Entry)
           /\ SoundWorker(w) /\ OthersStay(w)
           /\ Holds(w) => item[w] \in Entry
           /\ pc[w] \notin {"scan", "finish"} => out[w] = <<>>
    BY StepOfOne DEF EndInv, FoundInv, Founded, CountInv, TypeOK, HeldItems

LEMMA PopBooks ==
    ASSUME EndInv, NEW w \in Worker, Pop(w), NEW K, Books(K)
    PROVE  Books(K)'
    <1> USE DEF workVars, localVars, streamVars, Goto
    <1>1. /\ pc \in [Worker -> PC] /\ dirs[w] = <<>> /\ queue \in Seq(Entry)
          /\ item \in [Worker -> Entry \cup {NoEntry}] /\ OthersStay(w)
        BY WorkerFacts DEF WorkerStep, SoundWorker, Pop, Scans
    <1>2. /\ pc[w] = "take" /\ pc'[w] = "examine" /\ item'[w] = Last(queue)
          /\ queue' = Front(queue)
        BY <1>1 DEF Pop
    <1>3. Members(queue) = Members(queue') \cup {Last(queue)}
        BY <1>1, <1>2, MembersOfFrontLast DEF Pop
    <1>4. Strip(Last(queue)) \in Pending'
        <2>1. Strip(Last(queue)) \in Awaited(w)'
            BY <1>2 DEF Awaited
        <2> QED
            BY <2>1, AwaitedIsPending
    <1>5. \A e \in Members(queue) : Strip(e) \in Pending'
        <2>1. \A e \in Members(queue') : Strip(e) \in Pending'
            BY Zenon DEF Pending
        <2> QED
            BY <1>3, <1>4, <2>1
    <1>6. Awaited(w) = {}
        BY <1>1, <1>2, MembersOfNone DEF Awaited, Scans
    <1>7. Got \subseteq Got'
        BY <1>1, GotGrows DEF Pop
    <1> QED
        BY <1>1, <1>2, <1>5, <1>6, <1>7, KeepBooks DEF Pop

LEMMA ExamineBooks ==
    ASSUME EndInv, NEW w \in Worker, ExamineItem(w), NEW K, Books(K)
    PROVE  Books(K)'
    <1> USE DEF workVars, localVars, streamVars, Goto, Report
    <1> DEFINE e == item[w]
    <1>1. /\ pc \in [Worker -> PC] /\ out \in [Worker -> Seq(WalkItem)]
          /\ pc[w] = "examine" /\ out[w] = <<>> /\ dirs[w] = <<>> /\ OthersStay(w)
          /\ SoundEntry(e)
        BY WorkerFacts DEF WorkerStep, SoundWorker, ExamineItem, Scans, Holds
    <1>2. PICK o \in Examined(e) :
            /\ out' = [out EXCEPT ![w] = ErrorOf(o, e.path)]
            /\ pc' = [pc EXCEPT ![w] = IF o = "enter" THEN "claimDir"
                                       ELSE IF o = "yield" THEN "claimRoot" ELSE "finish"]
        BY DEF ExamineItem
    <1>3. o \in Examine(e.root, e.path)
        BY <1>1, <1>2, ExaminedIsExamine
    <1>4. Got \subseteq Got' /\ Members(out'[w]) \subseteq Got'
        BY <1>1, MembersOfNone, GotGrows DEF ExamineItem
    <1>5. Awaited(w) = {Strip(e)}
        BY <1>1, MembersOfNone DEF Awaited, Scans
    <1>6. CASE o \in {"enter", "yield"}
        <2>1. pc'[w] \in {"claimDir", "claimRoot"} /\ item'[w] = e
            BY <1>1, <1>2, <1>6 DEF ExamineItem
        <2>2. Strip(e) \in Awaited(w)'
            BY <2>1 DEF Awaited
        <2>3. Strip(e) \in Pending'
            BY <2>2, AwaitedIsPending
        <2> QED
            BY <1>1, <1>4, <1>5, <2>3, KeepBooks DEF ExamineItem
    <1>7. CASE o \notin {"enter", "yield"}
        <2>1. out'[w] = ErrorOf(o, e.path)
            BY <1>1, <1>2
        <2>2. o \in WalkOp => Error(o, e.path) \in Got'
            BY <1>4, <2>1, MembersOfOne DEF ErrorOf
        <2>3. Strip(e).path = e.path /\ Strip(e).root = e.root
            BY DEF Strip
        <2> HIDE DEF e
        <2>4. Discharged(K, Got', Strip(e))
            BY <1>3, <1>7, <2>2, <2>3, OutcomeDischarges
        <2> QED
            BY <1>1, <1>4, <1>5, <2>4, KeepBooks DEF ExamineItem
    <1> QED
        BY <1>6, <1>7

\* Without a depth limit, who has the identity has the claim.
LEMMA AnyClaimCounts ==
    ASSUME MaxDepth = NoLimit, NEW K, NEW id, NEW n, \E k \in K : Tree[k.dir.path].id = id
    PROVE  ClaimedBy(K, id, n)
    BY DEF ClaimedBy

LEMMA ClaimDirBooks ==
    ASSUME MaxDepth = NoLimit, EndInv, NEW w \in Worker, ClaimDir(w), NEW K, Books(K)
    PROVE  \E L : Books(L)'
    <1> USE DEF workVars, localVars, streamVars, Goto
    <1> DEFINE e == item[w]
               id == Tree[e.path].id
    <1>1. /\ pc \in [Worker -> PC] /\ item \in [Worker -> Entry \cup {NoEntry}]
          /\ pc[w] = "claimDir" /\ dirs[w] = <<>> /\ OthersStay(w)
          /\ SoundEntry(e) /\ e \in Entry /\ "enter" \in Examine(e.root, e.path)
        BY WorkerFacts DEF WorkerStep, SoundWorker, ClaimDir, Scans, Holds
    <1>2. Got \subseteq Got'
        BY GotGrows, <1>1 DEF ClaimDir
    <1>3. Awaited(w) = {Strip(e)}
        BY <1>1, MembersOfNone DEF Awaited, Scans
    <1>4. Strip(e).path = e.path /\ Strip(e).root = e.root /\ Strip(e).depth = e.depth
        BY DEF Strip
    <1>5. ASSUME NEW L, \E k \in L : Tree[k.dir.path].id = id
          PROVE  Discharged(L, Got', Strip(e))
        <2>1. ClaimedBy(L, id, e.depth)
            BY <1>5, AnyClaimCounts
        <2>2. "enter" \notin WalkOp
            BY DEF WalkOp
        <2> HIDE DEF e
        <2> QED
            BY <1>1, <1>4, <2>1, <2>2, OutcomeDischarges
    <1>6. CASE id \in visitedDirs
        <2>1. \E k \in K : Tree[k.dir.path].id = id
            BY <1>6 DEF Books
        <2>2. Discharged(K, Got', Strip(e))
            BY <1>5, <2>1
        <2>3. visitedDirs' = visitedDirs
            BY <1>6 DEF ClaimDir
        <2> HIDE DEF e, id
        <2>4. Books(K)'
            BY <1>1, <1>2, <1>3, <2>2, <2>3, KeepBooks DEF ClaimDir
        <2> QED
            BY <2>4
    <1>7. CASE id \notin visitedDirs
        <2>1. /\ visitedDirs' = visitedDirs \cup {id} /\ item' = item
              /\ pc'[w] = IF Recurse(e.depth) THEN "list" ELSE "finish"
            BY <1>1, <1>7 DEF ClaimDir
        <2>2. PICK d : EnteredAs(e, d, visitedDirs \cup {id})
            BY <1>1, <1>7, LedDirIsFound DEF SoundEntry, Entry
        <2> DEFINE k == [dir |-> d, depth |-> e.depth]
                   L == K \cup {k}
        <2>3. d \in Levels("may")[e.depth] /\ d.root = e.root /\ d.path = e.path
            BY <2>2 DEF EnteredAs
        <2>4. d \in Found /\ e.depth \in Nat
            BY <1>1, <2>3, LevelsEquation DEF Entry
        <2>5. k \in Claims /\ k.dir = d /\ k.depth = e.depth
            BY <2>4 DEF Claims
        <2>6. EntryOf(k) = Strip(e)
            BY <2>3 DEF EntryOf, Strip
        <2>7. Recurse(e.depth) => Strip(e) \in Unlisted'
            <3>1. Recurse(e.depth) => Strip(e) \in ToList(w)'
                BY <2>1 DEF ToList
            <3> QED
                BY <3>1, Zenon DEF Unlisted
        <2>8. \E j \in L : Tree[j.dir.path].id = id
            <3>1. k \in L /\ Tree[k.dir.path].id = id
                BY <2>3, <2>5
            <3> QED
                BY <3>1
        <2> HIDE DEF k
        <2>9. \A i \in visitedDirs' : \E j \in L : Tree[j.dir.path].id = i
            BY <2>1, <2>8 DEF Books
        <2>10. L \subseteq Claims /\ K \subseteq L /\ L \ K \subseteq {k}
            BY <2>5 DEF Books, Accounts
        <2> HIDE DEF L
        <2>11. Discharged(L, Got', Strip(e))
            BY <1>5, <2>8
        <2>12. \A j \in L \ K : j.dir \in Levels("may")[j.depth]
                                /\ (Recurse(j.depth) => EntryOf(j) \in Unlisted')
            BY <2>3, <2>5, <2>6, <2>7, <2>10
        <2>13. ToList(w) = {} /\ \A x \in Awaited(w) : Settled(L, Pending', Got', x)
            BY <1>1, <1>3, <2>11 DEF ToList, Settled
        <2>14. queue' = queue /\ visitedFiles' = visitedFiles
            BY DEF ClaimDir
        <2> HIDE DEF e, id
        <2>15. \A j \in K : Recurse(j.depth) /\ EntryOf(j) \in ToList(w) => Listed(L, Pending', Got', j)
            BY <2>13
        <2> HIDE DEF L
        <2>a. PICK M : M = L
            OBVIOUS
        <2>b. /\ K \subseteq M /\ M \subseteq Claims
              /\ \A i \in visitedDirs' : \E j \in M : Tree[j.dir.path].id = i
              /\ \A j \in M \ K : j.dir \in Levels("may")[j.depth]
                                 /\ (Recurse(j.depth) => EntryOf(j) \in Unlisted')
              /\ \A x \in Awaited(w) : Settled(M, Pending', Got', x)
              /\ \A j \in K : Recurse(j.depth) /\ EntryOf(j) \in ToList(w) => Listed(M, Pending', Got', j)
            BY <2>9, <2>10, <2>12, <2>13, <2>15, <2>a
        <2>16. Books(M)'
            BY <1>1, <1>2, <2>b, <2>14, BooksStep
        <2> QED
            BY <2>16
    <1> QED
        BY <1>6, <1>7

LEMMA ListDirBooks ==
    ASSUME EndInv, NEW w \in Worker, ListDir(w), NEW K, Books(K)
    PROVE  Books(K)'
    <1> USE DEF workVars, localVars, streamVars, Goto, Report
    <1> DEFINE e == item[w]
               p == e.path
               es == [i \in 1 .. Tree[p].entryErrors |-> Error("ReadDir", p)]
    <1>1. /\ pc \in [Worker -> PC] /\ out \in [Worker -> Seq(WalkItem)]
          /\ rest \in [Worker -> Seq(Path)] /\ e \in Entry
          /\ pc[w] = "list" /\ dirs[w] = <<>> /\ out[w] = <<>> /\ OthersStay(w)
          /\ item' = item
        BY WorkerFacts DEF WorkerStep, SoundWorker, ListDir, Scans, Holds
    <1>2. Got \subseteq Got' /\ Members(out'[w]) \subseteq Got'
        BY <1>1, MembersOfNone, GotGrows DEF ListDir
    <1>3. Awaited(w) = {}
        BY <1>1, MembersOfNone DEF Awaited, Scans
    <1>4. PICK readable \in ReadDir(p) :
             IF readable
             THEN /\ out' = [out EXCEPT ![w] = es]
                  /\ rest' = [rest EXCEPT ![w] = Tree[p].children]
                  /\ pc' = [pc EXCEPT ![w] = "scan"]
             ELSE /\ out' = [out EXCEPT ![w] = <<Error("ReadDir", p)>>]
                  /\ pc' = [pc EXCEPT ![w] = "finish"]
                  /\ rest' = rest
        BY DEF ListDir
    <1>5. readable \in BOOLEAN
        BY <1>4 DEF ReadDir
    <1>6. ASSUME NEW k \in K, EntryOf(k) \in ToList(w)
          PROVE  Listed(K, Pending', Got', k)
        <2>1. k.dir.path = p /\ k.depth = e.depth /\ k.dir.root = e.root
            BY <1>1, <1>6 DEF ToList, EntryOf, Strip
        <2>2. CASE readable = TRUE
            <3>1. out'[w] = es /\ rest'[w] = Tree[p].children /\ pc'[w] = "scan"
                BY <1>1, <1>4, <2>2
            <3>2. ASSUME NEW i \in 1 .. Tree[p].entryErrors PROVE Error("ReadDir", p) \in Got'
                <4>1. Tree[p].entryErrors \in Nat
                    BY <1>1, NodeType DEF Entry
                <4>2. Len(es) = Tree[p].entryErrors /\ es[i] = Error("ReadDir", p)
                    BY <4>1
                <4>3. Error("ReadDir", p) \in Members(es)
                    BY <4>2 DEF Members
                <4> QED
                    BY <1>2, <3>1, <4>3
            <3>3. ASSUME NEW c \in Entries(p) PROVE ChildOf(k, c) \in Pending'
                <4>1. c \in Members(Tree[p].children)
                    BY DEF Entries, Members
                <4>2. ChildOf(k, c) = [path |-> c, depth |-> e.depth + 1, root |-> e.root]
                    BY <2>1 DEF ChildOf
                <4>3. ChildOf(k, c) \in Awaited(w)'
                    BY <1>1, <3>1, <4>1, <4>2 DEF Awaited, Scans, UnderItem
                <4> QED
                    BY <4>3, AwaitedIsPending
            <3>4. ReadDir(p) # {FALSE}
                BY <1>4, <2>2
            <3> QED
                BY <2>1, <3>2, <3>3, <3>4 DEF Listed, Settled
        <2>3. CASE readable = FALSE
            <3>1. out'[w] = <<Error("ReadDir", p)>>
                BY <1>1, <1>4, <2>3
            <3>2. Error("ReadDir", p) \in Got'
                BY <1>2, <3>1, MembersOfOne
            <3>3. ReadDir(p) # {TRUE}
                BY <1>4, <2>3
            <3> QED
                BY <2>1, <3>2, <3>3 DEF Listed
        <2> QED
            BY <1>5, <2>2, <2>3
    <1>7. /\ visitedDirs' = visitedDirs /\ queue' = queue /\ visitedFiles' = visitedFiles
          /\ K \subseteq Claims /\ \A id \in visitedDirs : \E k \in K : Tree[k.dir.path].id = id
        BY DEF ListDir, Books, Accounts
    <1> HIDE DEF e, p, es
    <1> QED
        BY <1>1, <1>2, <1>3, <1>6, <1>7, BooksStep

\* The scan of worker w puts one child behind it: the others stay awaited.
LEMMA ScanBooks ==
    ASSUME EndInv, NEW w \in Worker, OthersStay(w), NEW K, Books(K),
           Scans(w), rest[w] # <<>>, Scans(w)',
           item'[w] = item[w], Members(dirs[w]) \subseteq Members(dirs'[w]),
           Members(Tail(rest[w])) \subseteq Members(rest'[w]),
           LET e == UnderItem(w, Head(rest[w]))
           IN  e \in Awaited(w)' \/ Discharged(K, Got', e),
           Got \subseteq Got', queue' = queue, visitedDirs' = visitedDirs,
           \A p \in visitedFiles' : p \in visitedFiles \/ File(p) \in Got'
    PROVE  Books(K)'
    <1> DEFINE e == UnderItem(w, Head(rest[w]))
    <1>1. pc[w] # "list" /\ pc[w] \notin {"examine", "claimDir", "claimRoot"}
        BY DEF Scans
    <1>2. rest[w] \in Seq(Path)
        BY WorkerType DEF EndInv, FoundInv
    <1>3. Members(rest[w]) = {Head(rest[w])} \cup Members(Tail(rest[w]))
        BY <1>2, MembersOfHeadTail
    <1>4. \A c \in Members(Tail(rest[w])) : UnderItem(w, c) \in Awaited(w)'
        BY DEF Awaited, UnderItem
    <1>5. \A d \in Members(dirs[w]) : Strip(d) \in Awaited(w)'
        BY DEF Awaited
    <1>6. e \in Awaited(w)' \/ Discharged(K, Got', e)
        OBVIOUS
    <1>7. \A x \in Awaited(w) : \/ \E d \in Members(dirs[w]) : x = Strip(d)
                                \/ x = e
                                \/ \E c \in Members(Tail(rest[w])) : x = UnderItem(w, c)
        BY <1>1, <1>3 DEF Awaited
    <1> HIDE DEF e
    <1>8. \A x \in Awaited(w) : x \in Pending' \/ Discharged(K, Got', x)
        BY <1>4, <1>5, <1>6, <1>7, AwaitedIsPending
    <1> QED
        BY <1>1, <1>8, KeepBooks

LEMMA ScanChildBooks ==
    ASSUME NoScanIsCutShort, EndInv, NEW w \in Worker, ScanChild(w), NEW K, Books(K)
    PROVE  Books(K)'
    <1> USE DEF workVars, localVars, streamVars, Goto, Report
    <1> DEFINE p == Head(rest[w])
               c == Child(item[w], p)
               e == UnderItem(w, p)
    <1>1. /\ pc \in [Worker -> PC] /\ out \in [Worker -> Seq(WalkItem)]
          /\ rest \in [Worker -> Seq(Path)] /\ dirs \in [Worker -> Seq(Entry)]
          /\ item[w] \in Entry /\ Scans(w) /\ out[w] = <<>> /\ rest[w] # <<>>
          /\ item' = item /\ OthersStay(w)
        BY WorkerFacts DEF WorkerStep, ScanChild, Scans, Holds, Sent
    <1>2. PICK o \in ScanOutcome(item[w].root, p) :
            /\ out' = [out EXCEPT ![w] = ErrorOf(o, p)]
            /\ dirs' = IF o = "enter" THEN [dirs EXCEPT ![w] = Append(@, c)] ELSE dirs
            /\ rest' = [rest EXCEPT ![w] = IF o = "yield" THEN @
                                           ELSE IF o = "Gitignore" THEN <<>> ELSE Tail(@)]
            /\ pc' = [pc EXCEPT ![w] = IF o = "yield" THEN "claimChild" ELSE "scan"]
        BY DEF ScanChild
    <1>3. o # "Gitignore"
        BY <1>1, <1>2, ScanGoesOn DEF EndInv
    <1>4. p \in Path /\ Members(rest[w]) = {p} \cup Members(Tail(rest[w]))
        BY <1>1, MembersOfHeadTail
    <1>5. Members(Append(dirs[w], c)) = Members(dirs[w]) \cup {c}
        <2>1. c \in Entry
            BY <1>1, <1>4 DEF Child, Entry
        <2> HIDE DEF c
        <2> QED
            BY <1>1, <2>1, MembersOfAppend
    <1>6. Got \subseteq Got' /\ Members(out'[w]) \subseteq Got'
        BY <1>1, MembersOfNone, GotGrows DEF ScanChild
    <1>7. Scans(w)' /\ out'[w] = ErrorOf(o, p)
        BY <1>1, <1>2 DEF Scans
    <1>8. Members(dirs[w]) \subseteq Members(dirs'[w])
        <2> HIDE DEF c, p
        <2> QED
            BY <1>1, <1>2, <1>5
    <1>9. Members(Tail(rest[w])) \subseteq Members(rest'[w])
        <2> HIDE DEF c
        <2> QED
            BY <1>1, <1>2, <1>3, <1>4
    <1>10. e \in Awaited(w)' \/ Discharged(K, Got', e)
        <2>1. CASE o = "yield"
            <3>1. p \in Members(rest'[w])
                BY <1>1, <1>2, <1>4, <2>1
            <3> QED
                BY <1>1, <1>7, <3>1 DEF Awaited, UnderItem
        <2>2. CASE o = "enter"
            <3>1. c \in Members(dirs'[w])
                BY <1>1, <1>2, <1>5, <2>2
            <3>2. Strip(c) = e
                BY DEF Strip, Child, UnderItem
            <3> HIDE DEF c
            <3>3. Strip(c) \in Awaited(w)'
                BY <3>1 DEF Awaited
            <3> QED
                BY <3>2, <3>3
        <2>3. CASE o \notin {"yield", "enter"}
            <3>1. o \in Examine(item[w].root, p)
                BY <1>2, <2>3, ScanOutcomeIsExamine
            <3>2. o \in WalkOp => Error(o, p) \in Got'
                BY <1>6, <1>7, MembersOfOne DEF ErrorOf
            <3>3. e.path = p /\ e.root = item[w].root
                BY DEF UnderItem
            <3> HIDE DEF e, p
            <3>4. Discharged(K, Got', e)
                BY <2>3, <3>1, <3>2, <3>3, OutcomeDischarges
            <3> QED
                BY <3>4
        <2> QED
            BY <2>1, <2>2, <2>3
    <1>11. queue' = queue /\ visitedDirs' = visitedDirs /\ visitedFiles' = visitedFiles
        BY DEF ScanChild
    <1> QED
        BY <1>1, <1>6, <1>7, <1>8, <1>9, <1>10, <1>11, ScanBooks

LEMMA ClaimChildBooks ==
    ASSUME EndInv, NEW w \in Worker, ClaimChild(w), NEW K, Books(K)
    PROVE  Books(K)'
    <1> USE DEF workVars, localVars, streamVars, Goto, Report
    <1> DEFINE p == Head(rest[w])
               e == UnderItem(w, p)
    <1>1. /\ pc \in [Worker -> PC] /\ out \in [Worker -> Seq(WalkItem)]
          /\ rest \in [Worker -> Seq(Path)]
          /\ pc[w] = "claimChild" /\ Scans(w) /\ out[w] = <<>> /\ rest[w] # <<>>
          /\ item' = item /\ dirs' = dirs /\ OthersStay(w)
          /\ "yield" \in Examine(item[w].root, p)
        BY WorkerFacts
        DEF WorkerStep, ClaimChild, Scans, SoundWorker, EndInv, FoundInv, CountInv, HeldItems
    <1>2. Got \subseteq Got' /\ Members(out'[w]) \subseteq Got'
        BY <1>1, MembersOfNone, GotGrows DEF ClaimChild
    <1>3. File(p) \in Got'
        <2>1. CASE p \in visitedFiles
            BY <1>2, <2>1 DEF Books
        <2>2. CASE p \notin visitedFiles
            <3>1. out'[w] = <<File(p)>>
                BY <1>1, <2>2 DEF ClaimChild
            <3> QED
                BY <1>2, <3>1, MembersOfOne
        <2> QED
            BY <2>1, <2>2
    <1>4. rest'[w] = Tail(rest[w]) /\ Scans(w)'
        BY <1>1 DEF ClaimChild, Scans
    <1>5. e.path = p /\ e.root = item[w].root
        BY DEF UnderItem
    <1>6. visitedFiles' = visitedFiles \cup {p} /\ queue' = queue /\ visitedDirs' = visitedDirs
        BY DEF ClaimChild
    <1>7. Discharged(K, Got', e)
        <2>1. "yield" \notin WalkOp
            BY DEF WalkOp
        <2> HIDE DEF e, p
        <2> QED
            BY <1>1, <1>3, <1>5, <2>1, OutcomeDischarges
    <1>8. \A f \in visitedFiles' : f \in visitedFiles \/ File(f) \in Got'
        BY <1>3, <1>6
    <1> QED
        BY <1>1, <1>2, <1>4, <1>6, <1>7, <1>8, ScanBooks

LEMMA PushDirsBooks ==
    ASSUME EndInv, NEW w \in Worker, PushDirs(w), NEW K, Books(K)
    PROVE  Books(K)'
    <1> USE DEF workVars, localVars, streamVars
    <1>1. /\ queue \in Seq(Entry) /\ dirs \in [Worker -> Seq(Entry)]
          /\ pc[w] = "scan" /\ rest[w] = <<>> /\ OthersStay(w)
        BY WorkerFacts DEF WorkerStep, PushDirs, ScanOver
    <1>2. Members(queue') = Members(queue) \cup Members(dirs[w])
        BY <1>1, MembersOfConcat DEF PushDirs
    <1>3. \A e \in Members(queue') : Strip(e) \in Pending'
        BY Zenon DEF Pending
    <1>4. \A x \in Awaited(w) : x \in Pending'
        BY <1>1, <1>2, <1>3, MembersOfNone DEF Awaited
    <1>5. Got \subseteq Got'
        BY <1>1, GotGrows DEF PushDirs
    <1>6. \A e \in Members(queue) : Strip(e) \in Pending'
        BY <1>2, <1>3
    <1> QED
        BY <1>1, <1>4, <1>5, <1>6, KeepBooks DEF PushDirs

LEMMA ClaimRootBooks ==
    ASSUME EndInv, NEW w \in Worker, ClaimRoot(w), NEW K, Books(K)
    PROVE  Books(K)'
    <1> USE DEF workVars, localVars, streamVars, Goto, Report
    <1> DEFINE e == item[w]
               p == e.path
    <1>1. /\ out \in [Worker -> Seq(WalkItem)]
          /\ pc[w] = "claimRoot" /\ dirs[w] = <<>> /\ out[w] = <<>> /\ OthersStay(w)
          /\ "yield" \in Examine(e.root, p)
        BY WorkerFacts DEF WorkerStep, SoundWorker, ClaimRoot, Scans
    <1>2. Got \subseteq Got' /\ Members(out'[w]) \subseteq Got'
        BY <1>1, MembersOfNone, GotGrows DEF ClaimRoot
    <1>3. File(p) \in Got'
        <2>1. CASE p \in visitedFiles
            BY <1>2, <2>1 DEF Books
        <2>2. CASE p \notin visitedFiles
            <3>1. out'[w] = <<File(p)>>
                BY <1>1, <2>2 DEF ClaimRoot
            <3> QED
                BY <1>2, <3>1, MembersOfOne
        <2> QED
            BY <2>1, <2>2
    <1>4. Awaited(w) = {Strip(e)}
        BY <1>1, MembersOfNone DEF Awaited, Scans
    <1>5. Strip(e).path = p /\ Strip(e).root = e.root
        BY DEF Strip
    <1>6. visitedFiles' = visitedFiles \cup {p} /\ queue' = queue /\ visitedDirs' = visitedDirs
        BY DEF ClaimRoot
    <1>7. Discharged(K, Got', Strip(e))
        <2>1. "yield" \notin WalkOp
            BY DEF WalkOp
        <2> HIDE DEF e, p
        <2> QED
            BY <1>1, <1>3, <1>5, <2>1, OutcomeDischarges
    <1>8. \A f \in visitedFiles' : f \in visitedFiles \/ File(f) \in Got'
        BY <1>3, <1>6
    <1> HIDE DEF e, p
    <1> QED
        BY <1>1, <1>2, <1>4, <1>6, <1>7, <1>8, KeepBooks

LEMMA SendBooks ==
    ASSUME EndInv, NEW w \in Worker, Send(w), NEW K, Books(K)
    PROVE  Books(K)'
    <1> USE DEF workVars, localVars, streamVars
    <1>1. /\ out \in [Worker -> Seq(WalkItem)] /\ channel \in Seq(WalkItem) /\ OthersStay(w)
        BY WorkerFacts DEF WorkerStep, EndInv, FoundInv, CountInv, TypeOK, StreamTypeOK
    <1>2. /\ Head(out[w]) \in WalkItem
          /\ Members(out[w]) = {Head(out[w])} \cup Members(Tail(out[w]))
        BY <1>1, MembersOfHeadTail DEF Send, Sent
    <1>3. Members(channel') = Members(channel) \cup {Head(out[w])}
        BY <1>1, <1>2, MembersOfAppend DEF Send, Enqueue
    <1>4. /\ UNCHANGED <<pc, item, rest, dirs, queue, visitedDirs, visitedFiles, received>>
          /\ out'[w] = Tail(out[w])
        BY <1>1 DEF Send, Enqueue
    <1>5. Got \subseteq Got'
        <2>1. \A v \in Worker : Members(out[v]) \subseteq Members(out'[v]) \cup Members(channel')
            <3>1. \A v \in Worker \ {w} : out'[v] = out[v]
                BY <1>1 DEF OthersStay
            <3> QED
                BY <1>2, <1>3, <1>4, <3>1
        <2> QED
            BY <1>3, <1>4, <2>1 DEF Got
    <1>6. Awaited(w)' = Awaited(w)
        BY <1>4 DEF Awaited, Scans, UnderItem
    <1>7. pc[w] # "list"
        BY DEF Send, Sent, EndInv, FoundInv, CountInv, HeldItems
    <1>8. \A x \in Awaited(w) : x \in Pending'
        BY <1>6, AwaitedIsPending
    <1> QED
        BY <1>1, <1>4, <1>5, <1>7, <1>8, KeepBooks

LEMMA IdleBooks ==
    ASSUME EndInv, consumer # "dropped", NEW w \in Worker,
           Quit(w) \/ Wait(w) \/ SpuriousWakeup(w) \/ Finish(w), NEW K, Books(K)
    PROVE  Books(K)'
    <1> USE DEF workVars, localVars, streamVars
    <1>1. /\ SoundWorker(w) /\ OthersStay(w) /\ ~closed[w]
        BY WorkerFacts DEF WorkerStep, EndInv, Ending
    <1>2. /\ pc[w] \in {"take", "waiting", "finish", "scan"} /\ dirs[w] = <<>>
          /\ pc[w] = "scan" => rest[w] = <<>>
        BY <1>1 DEF Quit, Wait, SpuriousWakeup, Finish, ScanOver, SoundWorker, Scans
    <1>3. Awaited(w) = {}
        BY <1>2, MembersOfNone DEF Awaited, Scans
    <1>4. UNCHANGED <<queue, visitedDirs, visitedFiles, channel, received, out>>
        BY DEF Quit, Wait, SpuriousWakeup, Finish
    <1>5. Got \subseteq Got'
        BY <1>1, <1>4, GotGrows
    <1> QED
        BY <1>1, <1>2, <1>3, <1>4, <1>5, KeepBooks

\* The books do not change when no worker moves and what is got is not lost.
LEMMA BooksAreLeft ==
    ASSUME NEW K, Books(K), Got' = Got,
           UNCHANGED <<queue, visitedDirs, visitedFiles, pc, item, rest, dirs>>
    PROVE  Books(K)'
    <1>1. Pending' = Pending /\ Unlisted' = Unlisted
        <2>1. \A w \in Worker : Awaited(w)' = Awaited(w) /\ ToList(w)' = ToList(w)
            BY DEF Awaited, ToList, Scans, UnderItem
        <2> QED
            BY <2>1, Zenon DEF Pending, Unlisted
    <1>2. Accounts(K, Pending', Unlisted', Got')
        BY <1>1 DEF Books
    <1>3. Accounts(K, Pending, Unlisted, Got)'
        BY <1>2
    <1> QED
        BY <1>3 DEF Books

LEMMA InitAccounted == Init => Accounted
    <1> SUFFICES ASSUME Init PROVE Books({})
        BY DEF Accounted
    <1>1. ASSUME NEW r \in RootSet PROVE RootEntry(r) \in Pending
        <2>1. PICK i \in 1 .. Len(Roots) : r = Roots[i]
            BY DEF RootSet
        <2>2. Len(Roots) \in Nat
            BY TreeAssumption
        <2>3. /\ queue[i] \in Members(queue)
              /\ queue[i] = [path |-> r, depth |-> 0, root |-> r, carried |-> FALSE]
            <3>1. queue = [ j \in 1 .. Len(Roots) |->
                             [path |-> Roots[j], depth |-> 0, root |-> Roots[j], carried |-> FALSE] ]
                BY DEF Init
            <3>2. Len(queue) = Len(Roots)
                BY <2>2, <3>1
            <3>3. queue[i] \in Members(queue)
                BY <3>2 DEF Members
            <3> QED
                BY <2>1, <3>1, <3>3
        <2>4. Strip(queue[i]) = RootEntry(r)
            BY <2>3 DEF Strip, RootEntry
        <2> QED
            BY <2>3, <2>4 DEF Pending
    <1>2. Accounts({}, Pending, Unlisted, Got)
        BY <1>1 DEF Accounts, Settled
    <1> QED
        BY <1>2 DEF Books, Init

LEMMA NextAccounted ==
    ASSUME MaxDepth = NoLimit, NoScanIsCutShort, EndInv, Accounted, [Next]_vars
    PROVE  Accounted'
    <1> USE DEF workVars, localVars, streamVars
    <1> SUFFICES ASSUME consumer' # "dropped" PROVE \E L : Books(L)'
        BY DEF Accounted
    <1>1. consumer # "dropped"
        BY DEF Next, WorkerStep, SpuriousWakeup, Pop, Quit, Wait, ExamineItem, ClaimDir, ListDir,
               ScanChild, ClaimChild, PushDirs, ClaimRoot, Send, SendFails, Finish, Enqueue,
               Join, NextItem, Next_Item, NextNone, Next_None, DropIterator, DropIter,
               Terminated, vars
    <1>2. PICK K : Books(K)
        BY <1>1 DEF Accounted
    <1>3. ASSUME Books(K)' PROVE \E L : Books(L)'
        BY <1>3
    <1>4. ASSUME NEW w \in Worker, WorkerStep(w) \/ SpuriousWakeup(w)
          PROVE  \E L : Books(L)'
        <2>1. CASE SendFails(w)
            <3>1. consumer # "ended"
                BY <1>4, WorkersAreJoined
            <3>2. consumer \in {"reading", "ended", "dropped"}
                BY DEF EndInv, FoundInv, CountInv, TypeOK, StreamTypeOK
            <3> QED
                BY <1>1, <2>1, <3>1, <3>2 DEF SendFails, ReceiverGone
        <2>2. CASE ClaimDir(w)
            BY <1>2, <2>2, ClaimDirBooks
        <2>3. CASE Quit(w) \/ Wait(w) \/ SpuriousWakeup(w) \/ Finish(w)
            BY <1>1, <1>2, <1>3, <2>3, IdleBooks
        <2>4. CASE Pop(w) \/ ExamineItem(w) \/ ListDir(w)
            BY <1>2, <1>3, <2>4, PopBooks, ExamineBooks, ListDirBooks
        <2>5. CASE ScanChild(w) \/ ClaimChild(w) \/ PushDirs(w)
            BY <1>2, <1>3, <2>5, ScanChildBooks, ClaimChildBooks, PushDirsBooks
        <2>6. CASE ClaimRoot(w) \/ Send(w)
            BY <1>2, <1>3, <2>6, ClaimRootBooks, SendBooks
        <2> QED
            BY <1>4, <2>1, <2>2, <2>3, <2>4, <2>5, <2>6 DEF WorkerStep
    <1>5. ASSUME Got' = Got, UNCHANGED <<queue, visitedDirs, visitedFiles, pc, item, rest, dirs>>
          PROVE  \E L : Books(L)'
        BY <1>2, <1>3, <1>5, BooksAreLeft
    <1>6. CASE NextItem
        <2>1. channel \in Seq(WalkItem) /\ channel # <<>>
            BY <1>6 DEF EndInv, FoundInv, CountInv, TypeOK, StreamTypeOK, NextItem, Next_Item
        <2>2. Members(channel) = {Head(channel)} \cup Members(channel')
            BY <1>6, <2>1, MembersOfHeadTail DEF NextItem, Next_Item
        <2>3. received' = received \cup {Head(channel)} /\ out' = out
            BY <1>6 DEF NextItem, Next_Item
        <2>4. Got' = Got
            BY <2>2, <2>3 DEF Got
        <2> QED
            BY <1>5, <1>6, <2>4 DEF NextItem
    <1>7. CASE Join \/ NextNone \/ UNCHANGED vars
        <2>1. UNCHANGED <<queue, visitedDirs, visitedFiles, pc, item, rest, dirs, out, channel, received>>
            BY <1>7 DEF Join, NextNone, Next_None, vars
        <2>2. Got' = Got
            BY <2>1 DEF Got
        <2> QED
            BY <1>5, <2>1, <2>2
    <1>8. CASE DropIterator
        BY <1>8 DEF DropIterator, DropIter
    <1> QED
        BY <1>4, <1>6, <1>7, <1>8 DEF Next, Terminated

PoolInv == EndInv /\ SyncInv /\ Accounted

\* When the stream has ended nothing is to do, and nothing is on its way.
LEMMA EndedIsComplete ==
    ASSUME SameUnderEveryName, PoolInv, consumer = "ended"
    PROVE  CoversTree(received)
    <1>1. /\ channel = <<>>
          /\ \A w \in Worker : pc[w] = "done" /\ ~closed[w]
        BY DEF PoolInv, EndInv, Ending
    <1>2. queue = <<>>
        <2>1. PICK w \in Worker : TRUE
            BY WorkerAssumption
        <2> QED
            BY <1>1, <2>1 DEF PoolInv, SyncInv, QuitOnlyWhenDone
    <1>3. \A w \in Worker : out[w] = <<>> /\ dirs[w] = <<>>
        BY <1>1 DEF PoolInv, SyncInv, CountInv, HeldItems, EndInv, FoundInv, Founded,
                    SoundWorker, Scans
    <1>4. \A w \in Worker : Awaited(w) = {} /\ ToList(w) = {}
        BY <1>1, <1>3, MembersOfNone DEF Awaited, ToList, Scans
    <1>5. Pending = {} /\ Unlisted = {}
        BY <1>2, <1>4, MembersOfNone DEF Pending, Unlisted
    <1>6. Got = received
        BY <1>1, <1>3, MembersOfNone DEF Got
    <1>7. PICK K : Books(K)
        BY DEF PoolInv, Accounted
    <1>8. Accounts(K, {}, {}, received)
        BY <1>5, <1>6, <1>7 DEF Books
    <1> QED
        BY <1>8, AccountsCover

LEMMA PoolInvHolds ==
    ASSUME MaxDepth = NoLimit, NoScanIsCutShort
    PROVE  Spec => []PoolInv
    <1>1. Init => PoolInv
        BY InitType, InitCount, InitFounded, InitEnding, InitSync, InitAccounted
        DEF PoolInv, EndInv, FoundInv, SyncInv, CountInv
    <1>2. PoolInv /\ [Next]_vars => PoolInv'
        <2> SUFFICES ASSUME PoolInv, [Next]_vars PROVE PoolInv'
            OBVIOUS
        <2>1. CountInv'
            BY NextType, NextCount DEF PoolInv, SyncInv, CountInv
        <2>2. FoundInv'
            BY <2>1, NextFounded DEF PoolInv, EndInv, FoundInv
        <2>3. Ending' /\ Accounted'
            BY NextEnding, NextAccounted DEF PoolInv
        <2>4. NoLostWakeup' /\ QuitOnlyWhenDone'
            BY NextSync DEF PoolInv
        <2> QED
            BY <2>1, <2>2, <2>3, <2>4 DEF PoolInv, EndInv, SyncInv
    <1> QED
        BY <1>1, <1>2, PTL DEF Spec

\* Without a depth limit, in a tree whose directories are the same under every name
\* and whose rules can all be read, a stream that has ended has left nothing out,
\* however the workers shared the directories and whoever came to one first.
THEOREM PoolLeavesNothingOut ==
    ASSUME MaxDepth = NoLimit, SameUnderEveryName, NoScanIsCutShort
    PROVE  Spec => [](consumer = "ended" => CoversTree(received))
    <1>1. PoolInv => (consumer = "ended" => CoversTree(received))
        BY EndedIsComplete
    <1> QED
        BY <1>1, PoolInvHolds, PTL

-----------------------------------------------------------------------------
(* The promise of Walker::walk, kept by the pool.                          *)

\* The contract's definitions are those of the tree.
LEMMA SameContract ==
    /\ Contract!Yieldable = Yieldable
    /\ \A got : Contract!CoversTree(got) = CoversTree(got)
    <1>1. \A r, p : Contract!Examine(r, p) = Examine(r, p)
        BY Zenon
        DEF Contract!Examine, Examine, Contract!TooLong, TooLong, Contract!Stat, Stat,
               Contract!Admit, Admit, Contract!Judge, Judge, Contract!HasId, HasId,
               Contract!Build, Build, Contract!File, File, Contract!Error, Error,
               Contract!WalkOp, WalkOp
    <1>2. \A how, r, p : Contract!ItemsOf(how, r, p) = ItemsOf(how, r, p)
        BY <1>1
        DEF Contract!Examine, Examine, Contract!TooLong, TooLong, Contract!Stat, Stat,
               Contract!Admit, Admit, Contract!Judge, Judge, Contract!HasId, HasId,
               Contract!Build, Build, Contract!File, File, Contract!Error, Error,
               Contract!WalkOp, WalkOp, Contract!ItemsOf, ItemsOf, Contract!Says, Says
    <1>3. \A how, d : Contract!Harvest(how, d) = Harvest(how, d)
        BY Zenon
        DEF Contract!Examine, Examine, Contract!TooLong, TooLong, Contract!Stat, Stat,
               Contract!Admit, Admit, Contract!Judge, Judge, Contract!HasId, HasId,
               Contract!Build, Build, Contract!File, File, Contract!Error, Error,
               Contract!WalkOp, WalkOp, Contract!ItemsOf, ItemsOf, Contract!Says, Says,
               Contract!Harvest, Harvest, Contract!Entries, Entries, Contract!ReadDir,
               ReadDir, Contract!NoLimit, NoLimit
    <1>4. \A how, ds : Contract!Below(how, ds) = Below(how, ds)
        BY Zenon
        DEF Contract!Examine, Examine, Contract!TooLong, TooLong, Contract!Stat, Stat,
               Contract!Admit, Admit, Contract!Judge, Judge, Contract!HasId, HasId,
               Contract!Build, Build, Contract!File, File, Contract!Error, Error,
               Contract!WalkOp, WalkOp, Contract!Says, Says, Contract!Below, Below,
               Contract!Reached, Reached, Contract!Enters, Enters, Contract!Entries, Entries,
               Contract!ReadDir, ReadDir, Contract!NoLimit, NoLimit
    <1>5. \A how : Contract!Levels(how) = Levels(how)
        BY Zenon
        DEF Contract!Examine, Examine, Contract!TooLong, TooLong, Contract!Stat, Stat,
               Contract!Admit, Admit, Contract!Judge, Judge, Contract!HasId, HasId,
               Contract!Build, Build, Contract!File, File, Contract!Error, Error,
               Contract!WalkOp, WalkOp, Contract!Says, Says, Contract!Levels, Levels,
               Contract!RootSet, RootSet, Contract!Below, Below, Contract!Reached, Reached,
               Contract!Enters, Enters, Contract!Entries, Entries, Contract!ReadDir, ReadDir,
               Contract!NoLimit, NoLimit
    <1>6. Contract!Deepest = Deepest
        BY Zenon
        DEF Contract!Deepest, Deepest, Contract!NoLimit, NoLimit, Contract!Cardinality, Cardinality
    <1>7. Contract!RootSet = RootSet
        BY DEF Contract!RootSet, RootSet
    <1>8. Contract!MayEnter = MayEnter /\ Contract!MustEnter = MustEnter
        BY <1>5, <1>6 DEF Contract!MayEnter, MayEnter, Contract!MustEnter, MustEnter, Contract!Entered, Entered
    <1>9. Contract!Yieldable = Yieldable
        BY <1>2, <1>3, <1>7, <1>8 DEF Contract!Yieldable, Yieldable
    <1>10. ASSUME NEW got PROVE Contract!CoversTree(got) = CoversTree(got)
        BY <1>2, <1>3, <1>7, <1>8 DEF Contract!CoversTree, CoversTree
    <1> QED
        BY <1>9, <1>10

LEMMA ContractStep ==
    ASSUME PoolInv, (consumer = "ended" => CoversTree(received))', [Next]_vars
    PROVE  [Contract!Next]_(Contract!contractVars)
    <1> USE DEF workVars, localVars, streamVars
    <1> DEFINE stream == IF consumer = "reading" THEN "open" ELSE consumer
    <1>1. Contract!contractVars = <<received, stream>>
        BY DEF Contract!contractVars
    <1>2. Contract!contractVars' = <<received', stream'>>
        BY DEF Contract!contractVars
    <1>3. CASE NextItem
        <2>1. /\ channel \in Seq(WalkItem) /\ channel # <<>>
              /\ received' = received \cup {Head(channel)}
              /\ consumer = "reading" /\ consumer' = "reading"
            BY <1>3 DEF PoolInv, EndInv, FoundInv, CountInv, TypeOK, StreamTypeOK,
                        NextItem, Next_Item
        <2>2. Head(channel) \in Yieldable
            BY <2>1, MembersOfHeadTail DEF PoolInv, EndInv, FoundInv, Founded
        <2>3. CASE Head(channel) \in received
            BY <1>1, <1>2, <2>1, <2>3
        <2>4. CASE Head(channel) \notin received
            <3>1. Contract!Deliver
                BY <2>1, <2>2, <2>4, SameContract DEF Contract!Deliver
            <3> QED
                BY <3>1 DEF Contract!Next
        <2> QED
            BY <2>3, <2>4
    <1>4. CASE NextNone
        <2>1. received' = received /\ consumer = "reading" /\ consumer' = "ended"
            BY <1>4 DEF NextNone, Next_None
        <2>3. CoversTree(received)
            BY <2>1
        <2>4. Contract!End
            BY <2>1, <2>3, SameContract DEF Contract!End
        <2> QED
            BY <2>4 DEF Contract!Next
    <1>5. CASE DropIterator
        <2>1. Contract!Drop
            BY <1>5 DEF DropIterator, DropIter, Contract!Drop
        <2> QED
            BY <2>1 DEF Contract!Next
    <1>6. CASE (\E w \in Worker : WorkerStep(w) \/ SpuriousWakeup(w)) \/ Join \/ UNCHANGED vars
        <2>1. received' = received /\ consumer' = consumer
            BY <1>6 DEF WorkerStep, SpuriousWakeup, Pop, Quit, Wait, ExamineItem, ClaimDir,
                        ListDir, ScanChild, ClaimChild, PushDirs, ClaimRoot, Send, SendFails,
                        Finish, Enqueue, Join, vars
        <2> QED
            BY <1>1, <1>2, <2>1
    <1> QED
        BY <1>3, <1>4, <1>5, <1>6 DEF Next, Terminated

\* The pool implements WalkContract, but for its liveness: with any number of
\* workers and any interleaving, the iterator gives out only what the tree
\* justifies and comes to its end only when nothing is missing.
THEOREM PoolIsSafe ==
    ASSUME MaxDepth = NoLimit, SameUnderEveryName, NoScanIsCutShort
    PROVE  Spec => Contract!Init /\ [][Contract!Next]_(Contract!contractVars)
    <1>1. Init => Contract!Init
        BY DEF Init, StreamInit, Contract!Init
    <1>2. PoolInv /\ (consumer = "ended" => CoversTree(received))' /\ [Next]_vars
              => [Contract!Next]_(Contract!contractVars)
        BY ContractStep
    <1> QED
        BY <1>1, <1>2, PoolInvHolds, PoolLeavesNothingOut, PTL DEF Spec
=============================================================================
