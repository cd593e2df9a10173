--------------------------- MODULE SequentialWalk ---------------------------
(***************************************************************************)
(* walk_single_thread: one thread, a queue that is popped from its front,  *)
(* and private visited sets.  Between two sends it touches nothing that    *)
(* anybody else can see, so the work on one queue entry is one step that   *)
(* ends with the items to send for it.                                     *)
(***************************************************************************)
EXTENDS WalkStream, SequencesExt

VARIABLES
    queue,          \* the paths still to visit, oldest first
    visitedDirs,    \* the DirIds of the directories claimed
    visitedFiles,   \* the paths of the files yielded
    out,            \* the items still to send before the next pop
    running         \* whether the thread, and with it the sender, is alive

walkVars == <<queue, visitedDirs, visitedFiles, out, running>>

vars == <<walkVars, streamVars>>

Entry == [path : Path, depth : Nat, root : RootSet]

\* Every variable has its type, and the channel never holds more than its bound.
TypeOK ==
    /\ StreamTypeOK
    /\ queue \in Seq(Entry)
    /\ visitedDirs \subseteq STRING
    /\ visitedFiles \subseteq Path
    /\ out \in Seq(WalkItem)
    /\ running \in BOOLEAN

\* The errors for the paths of ps that are too long to be queued, in order.
LongErrors(ps) ==
    LET long == Only({ p \in Path : TooLong(p) }, ps)
    IN  [i \in 1 .. Len(long) |-> Error("Metadata", long[i])]

\* The others, in order.
Fitting(ps) == Only({ p \in Path : ~TooLong(p) }, ps)

\* A queue entry for each of ps, all at one depth below one walk root.
Children(ps, depth, root) ==
    [i \in 1 .. Len(ps) |-> [path |-> ps[i], depth |-> depth, root |-> root]]

Init ==
    /\ StreamInit
    /\ queue = [i \in 1 .. Len(Fitting(Roots)) |->
                  [path |-> Fitting(Roots)[i], depth |-> 0, root |-> Fitting(Roots)[i]]]
    /\ visitedDirs = {}
    /\ visitedFiles = {}
    /\ out = LongErrors(Roots)
    /\ running = TRUE

-----------------------------------------------------------------------------

\* Mutant: new entries go to the front of the queue, as on a stack.
EnterDirStacked(e) ==
    /\ visitedDirs' = visitedDirs \cup {Tree[e.path].id}
    /\ IF ~Recurse(e.depth)
       THEN /\ out' = <<>>
            /\ queue' = Tail(queue)
       ELSE \E readable \in ReadDir(e.path) :
              IF readable
              THEN /\ out' = [i \in 1 .. Tree[e.path].entryErrors |-> Error("ReadDir", e.path)]
                               \o LongErrors(Tree[e.path].children)
                   /\ queue' = Children(Fitting(Tree[e.path].children), e.depth + 1, e.root)
                               \o Tail(queue)
              ELSE /\ out' = <<Error("ReadDir", e.path)>>
                   /\ queue' = Tail(queue)
    /\ UNCHANGED visitedFiles

\* A directory that no other path has claimed: list it if it is not too deep.
EnterDir(e) ==
    /\ visitedDirs' = visitedDirs \cup {Tree[e.path].id}
    /\ IF ~Recurse(e.depth)
       THEN /\ out' = <<>>
            /\ queue' = Tail(queue)
       ELSE \E readable \in ReadDir(e.path) :
              IF readable
              THEN /\ out' = [i \in 1 .. Tree[e.path].entryErrors |-> Error("ReadDir", e.path)]
                               \o LongErrors(Tree[e.path].children)
                   /\ queue' = Tail(queue)
                               \o Children(Fitting(Tree[e.path].children), e.depth + 1, e.root)
              ELSE /\ out' = <<Error("ReadDir", e.path)>>
                   /\ queue' = Tail(queue)
    /\ UNCHANGED visitedFiles

\* Mutant: a file is sent each time it is met.
VisitAsAgain(o) ==
    LET e == Head(queue)
    IN  /\ running
        /\ out = <<>>
        /\ queue # <<>>
        /\ o \in Examine(e.root, e.path)
        /\ \/ /\ o = "enter"
              /\ Tree[e.path].id \notin visitedDirs
              /\ EnterDir(e)
           \/ /\ o = "yield"
              /\ visitedFiles' = visitedFiles \cup {e.path}
              /\ out' = <<File(e.path)>>
              /\ queue' = Tail(queue)
              /\ UNCHANGED visitedDirs
           \/ /\ o \in WalkOp
              /\ out' = <<Error(o, e.path)>>
              /\ queue' = Tail(queue)
              /\ UNCHANGED <<visitedDirs, visitedFiles>>
           \/ /\ \/ o = "pass"
                 \/ o = "enter" /\ Tree[e.path].id \in visitedDirs
              /\ queue' = Tail(queue)
              /\ UNCHANGED <<visitedDirs, visitedFiles, out>>
        /\ UNCHANGED <<running, streamVars>>

\* One turn of the loop, up to the items it has to send, when the oldest entry
\* comes to the outcome o.
VisitAs(o) ==
    LET e == Head(queue)
    IN  /\ running
        /\ out = <<>>
        /\ queue # <<>>
        /\ o \in Examine(e.root, e.path)
        /\ \/ /\ o = "enter"
              /\ Tree[e.path].id \notin visitedDirs
              /\ EnterDir(e)
           \/ /\ o = "yield"
              /\ e.path \notin visitedFiles
              /\ visitedFiles' = visitedFiles \cup {e.path}
              /\ out' = <<File(e.path)>>
              /\ queue' = Tail(queue)
              /\ UNCHANGED visitedDirs
           \/ /\ o \in WalkOp
              /\ out' = <<Error(o, e.path)>>
              /\ queue' = Tail(queue)
              /\ UNCHANGED <<visitedDirs, visitedFiles>>
           \/ /\ \/ o = "pass"
                 \/ o = "enter" /\ Tree[e.path].id \in visitedDirs
                 \/ o = "yield" /\ e.path \in visitedFiles
              /\ queue' = Tail(queue)
              /\ UNCHANGED <<visitedDirs, visitedFiles, out>>
        /\ UNCHANGED <<running, streamVars>>

Visit == \E o \in Outcome : VisitAs(o)

Send ==
    /\ running
    /\ out # <<>>
    /\ Enqueue(Head(out))
    /\ out' = Tail(out)
    /\ UNCHANGED <<queue, visitedDirs, visitedFiles, running>>

\* Mutant: an error that cannot be sent is tried again.
SendFailsAndRetries ==
    /\ running
    /\ out # <<>>
    /\ ReceiverGone
    /\ out' = IF IsFile(Head(out)) THEN Tail(out) ELSE out
    /\ running' = ~IsFile(Head(out))
    /\ UNCHANGED <<queue, visitedDirs, visitedFiles, streamVars>>

\* An error that cannot be sent is forgotten; a file that cannot ends the loop.
SendFails ==
    /\ running
    /\ out # <<>>
    /\ ReceiverGone
    /\ out' = Tail(out)
    /\ running' = ~IsFile(Head(out))
    /\ UNCHANGED <<queue, visitedDirs, visitedFiles, streamVars>>

Return ==
    /\ running
    /\ out = <<>>
    /\ queue = <<>>
    /\ running' = FALSE
    /\ UNCHANGED <<queue, visitedDirs, visitedFiles, out, streamVars>>

WalkStep == Visit \/ Send \/ SendFails \/ Return

NextItem == Next_Item /\ UNCHANGED walkVars

NextNone == Next_None(~running) /\ UNCHANGED walkVars

DropIterator == DropIter /\ UNCHANGED walkVars

Terminated == ~running /\ consumer # "reading" /\ UNCHANGED vars

Next == WalkStep \/ NextItem \/ NextNone \/ DropIterator \/ Terminated

Spec == Init /\ [][Next]_vars

FairSpec == Spec /\ WF_vars(WalkStep) /\ WF_vars(NextItem \/ NextNone)

-----------------------------------------------------------------------------

\* Every path is visited at the least depth at which a root leads to it: what
\* waits in the queue is never shallower than what stands before it.
BreadthFirst ==
    \A i, j \in 1 .. Len(queue) : i < j =>
        /\ queue[i].depth <= queue[j].depth
        /\ queue[j].depth <= queue[1].depth + 1

\* The thread and the stream both end.
Terminates == <>(~running /\ consumer # "reading")
=============================================================================
