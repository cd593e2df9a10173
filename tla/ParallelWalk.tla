---------------------------- MODULE ParallelWalk ----------------------------
(***************************************************************************)
(* walk_multi_thread: a pool of workers that share a stack of directories  *)
(* under one mutex, wait on one condition variable, and stop when the      *)
(* stack is empty and no worker holds an item.                             *)
(*                                                                         *)
(* A step of a worker is what it does from one acquisition of the mutex,   *)
(* or one send, to the next: between two of them it touches only its own   *)
(* locals and the file system.  A worker with something in "out" is inside *)
(* tx.send.  No worker holds the mutex while it sends.                     *)
(***************************************************************************)
EXTENDS WalkStream, SequencesExt

CONSTANTS
    Worker,     \* the worker threads, parallelism of them
    NoEntry     \* the item of a worker that holds none

ASSUME WorkerAssumption == IsFiniteSet(Worker) /\ Worker # {}

VARIABLES
    queue,          \* WorkState.queue: popped from its end
    active,         \* WorkState.active
    visitedDirs,    \* WorkState.visited_dirs: the DirIds claimed
    visitedFiles,   \* WorkState.visited_files: the paths claimed
    pc,             \* where each worker is
    item,           \* the queue entry each worker holds
    rest,           \* the children each worker has still to scan
    dirs,           \* the subdirectories each worker's scan has found
    out,            \* the items each worker has still to send
    closed,         \* channel_closed of each worker
    control         \* the thread that spawned the workers and joins them

workVars == <<queue, active, visitedDirs, visitedFiles>>

localVars == <<item, rest, dirs, out, closed>>

vars == <<workVars, pc, localVars, control, streamVars>>

Entry == [path : Path, depth : Nat, root : RootSet, carried : BOOLEAN]

PC == {"take", "waiting", "examine", "claimDir", "list", "scan", "claimChild",
       "claimRoot", "finish", "done"}

\* Every variable has its type: in particular the counter of active workers, an
\* unsigned integer in the code, does not go below zero.
TypeOK ==
    /\ StreamTypeOK
    /\ queue \in Seq(Entry)
    /\ active \in Nat
    /\ visitedDirs \subseteq STRING
    /\ visitedFiles \subseteq Path
    /\ pc \in [Worker -> PC]
    /\ item \in [Worker -> Entry \cup {NoEntry}]
    /\ rest \in [Worker -> Seq(Path)]
    /\ dirs \in [Worker -> Seq(Entry)]
    /\ out \in [Worker -> Seq(WalkItem)]
    /\ closed \in [Worker -> BOOLEAN]
    /\ control \in {"joining", "returned"}

Init ==
    /\ StreamInit
    /\ queue = [ i \in 1 .. Len(Roots) |->
                   [path |-> Roots[i], depth |-> 0, root |-> Roots[i], carried |-> FALSE] ]
    /\ active = 0
    /\ visitedDirs = {}
    /\ visitedFiles = {}
    /\ pc = [w \in Worker |-> "take"]
    /\ item = [w \in Worker |-> NoEntry]
    /\ rest = [w \in Worker |-> <<>>]
    /\ dirs = [w \in Worker |-> <<>>]
    /\ out = [w \in Worker |-> <<>>]
    /\ closed = [w \in Worker |-> FALSE]
    /\ control = "joining"

-----------------------------------------------------------------------------
(* The condition variable, the counter, and a worker's own registers.      *)

\* Mutant: the notification is forgotten.
NotifyNobody(at) == at

\* Condvar::notify_all: every sleeper goes back to competing for the mutex.
NotifyAll(at) == [w \in Worker |-> IF at[w] = "waiting" THEN "take" ELSE at[w]]

\* signal_done_locked: the item is done; the last one out wakes the sleepers.
SignalDone(at) ==
    /\ active' = active - 1
    /\ pc' = IF active = 1 /\ queue = <<>> THEN NotifyAll(at) ELSE at

\* Worker w goes to step "to" and nothing is signalled.
Goto(w, to) == pc' = [pc EXCEPT ![w] = to]

\* The worker has to send ms before its next step.
Report(w, ms) == out' = [out EXCEPT ![w] = ms]

Sent(w) == out[w] = <<>>

\* The error to send for an outcome, if it is one.
ErrorOf(o, p) == IF o \in WalkOp THEN <<Error(o, p)>> ELSE <<>>

-----------------------------------------------------------------------------
(* The pop loop.                                                           *)

\* Mutant: the popped item is not counted.
PopUncounted(w) ==
    /\ pc[w] = "take"
    /\ queue # <<>>
    /\ queue' = Front(queue)
    /\ item' = [item EXCEPT ![w] = Last(queue)]
    /\ Goto(w, "examine")
    /\ UNCHANGED <<active, visitedDirs, visitedFiles, rest, dirs, out, closed, control,
                   streamVars>>

Pop(w) ==
    /\ pc[w] = "take"
    /\ queue # <<>>
    /\ queue' = Front(queue)
    /\ active' = active + 1
    /\ item' = [item EXCEPT ![w] = Last(queue)]
    /\ Goto(w, "examine")
    /\ UNCHANGED <<visitedDirs, visitedFiles, rest, dirs, out, closed, control, streamVars>>

\* Mutant: an empty stack is taken for the end of the work.
QuitWhenEmpty(w) ==
    /\ pc[w] = "take"
    /\ queue = <<>>
    /\ pc' = NotifyAll([pc EXCEPT ![w] = "done"])
    /\ UNCHANGED <<workVars, localVars, control, streamVars>>

\* Nothing is queued and nobody can queue anything: leave, telling the others.
Quit(w) ==
    /\ pc[w] = "take"
    /\ queue = <<>>
    /\ active = 0
    /\ pc' = NotifyAll([pc EXCEPT ![w] = "done"])
    /\ UNCHANGED <<workVars, localVars, control, streamVars>>

Wait(w) ==
    /\ pc[w] = "take"
    /\ queue = <<>>
    /\ active # 0
    /\ Goto(w, "waiting")
    /\ UNCHANGED <<workVars, localVars, control, streamVars>>

\* A condition variable may wake a sleeper that nobody notified.
SpuriousWakeup(w) ==
    /\ pc[w] = "waiting"
    /\ Goto(w, "take")
    /\ UNCHANGED <<workVars, localVars, control, streamVars>>

-----------------------------------------------------------------------------
(* The item a worker has popped.                                           *)

\* A child directory carries the metadata of its parent's scan and is not
\* examined again; a root is.
Examined(e) ==
    IF e.carried /\ ~TooLong(e.path) THEN Admit(e.root, e.path, "dir")
    ELSE Examine(e.root, e.path)

ExamineItem(w) ==
    /\ pc[w] = "examine"
    /\ \E o \in Examined(item[w]) :
         /\ Report(w, ErrorOf(o, item[w].path))
         /\ Goto(w, IF o = "enter" THEN "claimDir"
                    ELSE IF o = "yield" THEN "claimRoot" ELSE "finish")
    /\ UNCHANGED <<workVars, item, rest, dirs, closed, control, streamVars>>

\* Mutant: the early "continue" of a duplicate forgets signal_done_locked.
ClaimDirLeaking(w) ==
    LET e == item[w]
        id == Tree[e.path].id
    IN  /\ pc[w] = "claimDir"
        /\ IF id \in visitedDirs
           THEN Goto(w, "take") /\ item' = [item EXCEPT ![w] = NoEntry]
           ELSE Goto(w, IF Recurse(e.depth) THEN "list" ELSE "finish") /\ UNCHANGED item
        /\ visitedDirs' = visitedDirs \cup {id}
        /\ UNCHANGED <<queue, active, visitedFiles, rest, dirs, out, closed, control,
                       streamVars>>

\* Mutant: directories are not told apart by identity.
ClaimDirAlways(w) ==
    /\ pc[w] = "claimDir"
    /\ Goto(w, IF Recurse(item[w].depth) THEN "list" ELSE "finish")
    /\ UNCHANGED <<workVars, localVars, control, streamVars>>

\* A directory that another path has already claimed is given up in the same
\* critical section.
ClaimDir(w) ==
    LET e == item[w]
        id == Tree[e.path].id
    IN  /\ pc[w] = "claimDir"
        /\ IF id \in visitedDirs
           THEN /\ SignalDone([pc EXCEPT ![w] = "take"])
                /\ item' = [item EXCEPT ![w] = NoEntry]
                /\ UNCHANGED visitedDirs
           ELSE /\ visitedDirs' = visitedDirs \cup {id}
                /\ Goto(w, IF Recurse(e.depth) THEN "list" ELSE "finish")
                /\ UNCHANGED <<active, item>>
        /\ UNCHANGED <<queue, visitedFiles, rest, dirs, out, closed, control, streamVars>>

\* Mutant: the errors of single entries are dropped, as flatten() would.
ListDirFlattened(w) ==
    LET p == item[w].path
    IN  /\ pc[w] = "list"
        /\ \E readable \in ReadDir(p) :
             IF readable
             THEN /\ rest' = [rest EXCEPT ![w] = Tree[p].children]
                  /\ Goto(w, "scan")
                  /\ UNCHANGED out
             ELSE /\ Report(w, <<Error("ReadDir", p)>>)
                  /\ Goto(w, "finish")
                  /\ UNCHANGED rest
        /\ UNCHANGED <<workVars, item, dirs, closed, control, streamVars>>

ListDir(w) ==
    LET p == item[w].path
    IN  /\ pc[w] = "list"
        /\ \E readable \in ReadDir(p) :
             IF readable
             THEN /\ Report(w, [i \in 1 .. Tree[p].entryErrors |-> Error("ReadDir", p)])
                  /\ rest' = [rest EXCEPT ![w] = Tree[p].children]
                  /\ Goto(w, "scan")
             ELSE /\ Report(w, <<Error("ReadDir", p)>>)
                  /\ Goto(w, "finish")
                  /\ UNCHANGED rest
        /\ UNCHANGED <<workVars, item, dirs, closed, control, streamVars>>

-----------------------------------------------------------------------------
(* The scan of a directory's children.                                     *)

\* A child directory is set aside as soon as its metadata say what it is.
ScanOutcome(r, p) ==
    IF TooLong(p) THEN {"Metadata"}
    ELSE UNION { IF k = "dir" THEN {"enter"} ELSE Admit(r, p, k) : k \in Stat(p) }

\* What keeps every scan from being broken off: no directory that may be walked
\* has a file whose gitignore rules cannot be read.
NoScanIsCutShort ==
    \A d \in MayEnter : TRUE \in ReadDir(d.path) =>
        \A c \in Entries(d.path) : "Gitignore" \notin ScanOutcome(d.root, c)

Child(e, p) == [path |-> p, depth |-> e.depth + 1, root |-> e.root, carried |-> TRUE]

\* A gitignore error on a child ends the scan as a closed channel would.
ScanChild(w) ==
    LET p == Head(rest[w])
    IN  /\ pc[w] = "scan"
        /\ Sent(w)
        /\ rest[w] # <<>>
        /\ \E o \in ScanOutcome(item[w].root, p) :
             /\ Report(w, ErrorOf(o, p))
             /\ dirs' = IF o = "enter"
                        THEN [dirs EXCEPT ![w] = Append(@, Child(item[w], p))]
                        ELSE dirs
             /\ rest' = [rest EXCEPT ![w] = IF o = "yield" THEN @
                                            ELSE IF o = "Gitignore" THEN <<>> ELSE Tail(@)]
             /\ closed' = IF o = "Gitignore" THEN [closed EXCEPT ![w] = TRUE] ELSE closed
             /\ Goto(w, IF o = "yield" THEN "claimChild" ELSE "scan")
        /\ UNCHANGED <<workVars, item, control, streamVars>>

\* Mutant: a child is sent without looking at visited_files.
ClaimChildUnseen(w) ==
    LET p == Head(rest[w])
    IN  /\ pc[w] = "claimChild"
        /\ Report(w, <<File(p)>>)
        /\ rest' = [rest EXCEPT ![w] = Tail(@)]
        /\ Goto(w, "scan")
        /\ UNCHANGED <<workVars, item, dirs, closed, control, streamVars>>

ClaimChild(w) ==
    LET p == Head(rest[w])
    IN  /\ pc[w] = "claimChild"
        /\ visitedFiles' = visitedFiles \cup {p}
        /\ Report(w, IF p \in visitedFiles THEN <<>> ELSE <<File(p)>>)
        /\ rest' = [rest EXCEPT ![w] = Tail(@)]
        /\ Goto(w, "scan")
        /\ UNCHANGED <<queue, active, visitedDirs, item, dirs, closed, control, streamVars>>

ScanOver(w) == pc[w] = "scan" /\ Sent(w) /\ rest[w] = <<>>

\* Mutant: the workers that sleep are not told of the new directories.
PushDirsQuietly(w) ==
    /\ ScanOver(w)
    /\ dirs[w] # <<>>
    /\ ~closed[w]
    /\ queue' = queue \o dirs[w]
    /\ Goto(w, "finish")
    /\ dirs' = [dirs EXCEPT ![w] = <<>>]
    /\ UNCHANGED <<active, visitedDirs, visitedFiles, item, rest, out, closed, control,
                   streamVars>>

\* The subdirectories go onto the stack together.
PushDirs(w) ==
    /\ ScanOver(w)
    /\ dirs[w] # <<>>
    /\ ~closed[w]
    /\ queue' = queue \o dirs[w]
    /\ pc' = NotifyAll([pc EXCEPT ![w] = "finish"])
    /\ dirs' = [dirs EXCEPT ![w] = <<>>]
    /\ UNCHANGED <<active, visitedDirs, visitedFiles, item, rest, out, closed, control,
                   streamVars>>

-----------------------------------------------------------------------------
(* A root that is a file, the sends, and the end of an item.               *)

ClaimRoot(w) ==
    LET p == item[w].path
    IN  /\ pc[w] = "claimRoot"
        /\ visitedFiles' = visitedFiles \cup {p}
        /\ IF p \in visitedFiles
           THEN /\ SignalDone([pc EXCEPT ![w] = "take"])
                /\ item' = [item EXCEPT ![w] = NoEntry]
                /\ UNCHANGED out
           ELSE /\ Report(w, <<File(p)>>)
                /\ Goto(w, "finish")
                /\ UNCHANGED <<active, item>>
        /\ UNCHANGED <<queue, visitedDirs, rest, dirs, closed, control, streamVars>>

Send(w) ==
    /\ ~Sent(w)
    /\ Enqueue(Head(out[w]))
    /\ out' = [out EXCEPT ![w] = Tail(@)]
    /\ UNCHANGED <<workVars, pc, item, rest, dirs, closed, control>>

\* A failed send of an error is ignored; of a file, it ends the scan.
SendFails(w) ==
    /\ ~Sent(w)
    /\ ReceiverGone
    /\ out' = [out EXCEPT ![w] = Tail(@)]
    /\ IF IsFile(Head(out[w]))
       THEN /\ closed' = [closed EXCEPT ![w] = TRUE]
            /\ rest' = [rest EXCEPT ![w] = <<>>]
       ELSE UNCHANGED <<closed, rest>>
    /\ UNCHANGED <<workVars, pc, item, dirs, control, streamVars>>

\* A worker that saw the channel closed gives up the directories it found.
Finish(w) ==
    /\ \/ pc[w] = "finish" /\ Sent(w)
       \/ ScanOver(w) /\ (dirs[w] = <<>> \/ closed[w])
    /\ SignalDone([pc EXCEPT ![w] = IF closed[w] THEN "done" ELSE "take"])
    /\ item' = [item EXCEPT ![w] = NoEntry]
    /\ dirs' = [dirs EXCEPT ![w] = <<>>]
    /\ UNCHANGED <<queue, visitedDirs, visitedFiles, rest, out, closed, control, streamVars>>

-----------------------------------------------------------------------------
(* The whole program: workers, the thread that joins them, the consumer.   *)

WorkerStep(w) ==
    \/ Pop(w) \/ Quit(w) \/ Wait(w)
    \/ ExamineItem(w) \/ ClaimDir(w) \/ ListDir(w)
    \/ ScanChild(w) \/ ClaimChild(w) \/ PushDirs(w)
    \/ ClaimRoot(w) \/ Send(w) \/ SendFails(w) \/ Finish(w)

\* The last sender goes when the joining thread returns.
Join ==
    /\ control = "joining"
    /\ \A w \in Worker : pc[w] = "done"
    /\ control' = "returned"
    /\ UNCHANGED <<workVars, pc, localVars, streamVars>>

NextItem == Next_Item /\ UNCHANGED <<workVars, pc, localVars, control>>

NextNone == Next_None(control = "returned") /\ UNCHANGED <<workVars, pc, localVars, control>>

DropIterator == DropIter /\ UNCHANGED <<workVars, pc, localVars, control>>

\* Everything has stopped.
Terminated ==
    /\ control = "returned"
    /\ consumer # "reading"
    /\ UNCHANGED vars

Next ==
    \/ \E w \in Worker : WorkerStep(w) \/ SpuriousWakeup(w)
    \/ Join
    \/ NextItem
    \/ NextNone
    \/ DropIterator
    \/ Terminated

\* The scheduler runs every thread, and a consumer that keeps its iterator
\* keeps calling next(); nobody has to drop it or to be woken for nothing.
Fairness ==
    /\ \A w \in Worker : WF_vars(WorkerStep(w))
    /\ WF_vars(Join)
    /\ WF_vars(NextItem \/ NextNone)

Spec == Init /\ [][Next]_vars

FairSpec == Spec /\ Fairness

-----------------------------------------------------------------------------
(* Properties.                                                             *)

\* A worker between its pop and its signal_done.
Holds(w) == pc[w] \notin {"take", "waiting", "done"}

\* WorkState.active is the number of workers that hold an item: the counter the
\* termination test trusts never drifts, on any of the early "continue" paths,
\* and its usize never goes below zero.
ActiveCountsHolders == active = Cardinality({ w \in Worker : Holds(w) })

\* A sleeping worker is never left behind: while one sleeps there is nothing on
\* the stack, and some other worker holds an item and will notify when done.
NoLostWakeup ==
    (\E w \in Worker : pc[w] = "waiting") => queue = <<>> /\ active > 0

\* A worker leaves for want of work only when no work is left and none can
\* appear: nothing is queued, and nobody holds an item that could queue more.
QuitOnlyWhenDone ==
    \A w \in Worker : pc[w] = "done" /\ ~closed[w]
        => queue = <<>> /\ \A v \in Worker : ~Holds(v)

\* Worker w is inside tx.send with file f.
Sends(w, f) == out[w] # <<>> /\ Head(out[w]) = File(f)

\* A file path is sent at most once, however many roots, workers and links lead
\* to it: it is in one place at most, with one sender, in one slot of the
\* channel, or with the consumer.
EachFileOnce ==
    \A f \in Path :
        /\ \A v, w \in Worker : Sends(v, f) /\ Sends(w, f) => v = w
        /\ \A i, j \in 1 .. Len(channel) : channel[i] = File(f) /\ channel[j] = File(f) => i = j
        /\ \A i \in 1 .. Len(channel) : channel[i] = File(f) =>
              /\ File(f) \notin received
              /\ \A w \in Worker : ~Sends(w, f)
        /\ \A w \in Worker : Sends(w, f) => File(f) \notin received

\* Two workers never list the same directory, whatever names they know it by.
OneWorkerPerDirectory ==
    \A v, w \in Worker :
        /\ v # w
        /\ pc[v] \in {"list", "scan", "claimChild"}
        /\ pc[w] \in {"list", "scan", "claimChild"}
        => Tree[item[v].path].id # Tree[item[w].path].id

Contract == INSTANCE WalkContract WITH
    delivered <- received,
    stream <- IF consumer = "reading" THEN "open" ELSE consumer

\* The pool delivers what WalkContract promises: every item it yields is one that
\* the tree justifies, and the stream ends only when nothing is missing.
ImplementsContract == Contract!Spec

\* What the depth limit promises (walker.rs: "Limits recursion depth from each
\* root"): a stream that has ended left out no directory that is within the limit
\* of some root.
NothingLostWithinDepth == consumer = "ended" => CoversTree(received)

\* Every thread of the walk ends, and so does the stream, whether the consumer
\* reads to the end or drops the iterator at any moment.
Terminates == <>(control = "returned" /\ consumer # "reading")
=============================================================================
