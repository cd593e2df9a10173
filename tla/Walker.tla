------------------------------- MODULE Walker -------------------------------
(***************************************************************************)
(* Walker::walk with a parallelism of one: the thread of SequentialWalk,   *)
(* one of whose files is changed by others while it is measured and        *)
(* probed, and the iterator handed to the caller, which either passes the  *)
(* channel on or, in the sorted modes, is filled before walk() returns.    *)
(***************************************************************************)
EXTENDS SequentialWalk, BinaryProbe

CONSTANTS
    Watched,        \* the path of the file that others change
    Rank,           \* Rank[p]: the place of p in the order of Path::cmp
    Bytes           \* Bytes[p]: the size of every other file

ASSUME WalkerAssumption ==
    /\ Watched \in Path
    /\ Rank \in [Path -> Nat]
    /\ Bytes \in [Path -> Nat]

VARIABLES
    sortMode,   \* Walker::with_sort
    items,      \* what walk() has collected from the channel, in a sorted mode
    buffer,     \* WalkItemIterInner::Buffered: what is left to give of it
    given,      \* what the iterator has returned, oldest first
    owner       \* "walking" inside walk(), "reading", "ended" or "dropped"

walkerVars == <<sortMode, items, buffer, given, owner>>

allVars == <<vars, liveVars, probeVars, walkerVars>>

SortMode == {"Unsorted", "ByName", "BySize"}

WalkerInit ==
    /\ Init
    /\ LiveInit
    /\ ProbeInit
    /\ sortMode \in SortMode
    /\ items = <<>>
    /\ buffer = <<>>
    /\ given = <<>>
    /\ owner = IF sortMode = "Unsorted" THEN "reading" ELSE "walking"

-----------------------------------------------------------------------------
(* The thread.  The rest of its work on the watched file, the gitignore    *)
(* verdict and the globs, does not touch the file.                         *)

AtWatched == running /\ out = <<>> /\ queue # <<>> /\ Head(queue).path = Watched

Probe ==
    /\ AtWatched
    /\ ProbeStep
    /\ UNCHANGED <<vars, walkerVars>>

\* What the probe's verdict makes of the watched file.
WatchedOutcome ==
    CASE verdict = "gone"   -> "Metadata"
      [] verdict = "fails"  -> "Open"
      [] verdict = "binary" -> "pass"
      [] OTHER              -> "yield"

VisitEntry ==
    /\ IF AtWatched THEN phase = "done" /\ VisitAs(WatchedOutcome) ELSE Visit
    /\ UNCHANGED <<liveVars, probeVars, walkerVars>>

Deliver == (Send \/ SendFails \/ Return) /\ UNCHANGED <<liveVars, probeVars, walkerVars>>

ThreadStep == Probe \/ VisitEntry \/ Deliver

-----------------------------------------------------------------------------
(* The caller, when the stream is not sorted: WalkItemIterInner::Streaming. *)

GiveNext ==
    /\ sortMode = "Unsorted"
    /\ NextItem
    /\ given' = Append(given, Head(channel))
    /\ UNCHANGED <<sortMode, items, buffer, owner, liveVars, probeVars>>

StreamEnds ==
    /\ sortMode = "Unsorted"
    /\ NextNone
    /\ owner' = "ended"
    /\ UNCHANGED <<sortMode, items, buffer, given, liveVars, probeVars>>

DropStream ==
    /\ sortMode = "Unsorted"
    /\ DropIterator
    /\ owner' = "dropped"
    /\ UNCHANGED <<sortMode, items, buffer, given, liveVars, probeVars>>

-----------------------------------------------------------------------------
(* The caller, when it is: rx.into_iter().collect(), the sort, and then     *)
(* WalkItemIterInner::Buffered.  Nobody can drop it before it is returned. *)

Collect ==
    /\ sortMode # "Unsorted"
    /\ NextItem
    /\ items' = Append(items, Head(channel))
    /\ UNCHANGED <<sortMode, buffer, given, owner, liveVars, probeVars>>

\* The size reported for a file: that of its metadata at discovery.
SizeOf(p) == IF p = Watched THEN Len(meta.bytes) ELSE Bytes[p]

SortKey(m) == IF sortMode = "ByName" THEN Rank[m.path] ELSE SizeOf(m.path)

\* Mutant: equal keys change their order.
SortedUnstably(fs) ==
    LET before(i, j) == \/ SortKey(fs[i]) < SortKey(fs[j])
                        \/ SortKey(fs[i]) = SortKey(fs[j]) /\ i > j
        place(i) == Cardinality({ j \in 1 .. Len(fs) : before(j, i) }) + 1
    IN  [n \in 1 .. Len(fs) |-> fs[CHOOSE i \in 1 .. Len(fs) : place(i) = n]]

\* Both sorts are stable: equal keys stay in the order of discovery.
Sorted(fs) ==
    LET before(i, j) == \/ SortKey(fs[i]) < SortKey(fs[j])
                        \/ SortKey(fs[i]) = SortKey(fs[j]) /\ i < j
        place(i) == Cardinality({ j \in 1 .. Len(fs) : before(j, i) }) + 1
    IN  [n \in 1 .. Len(fs) |-> fs[CHOOSE i \in 1 .. Len(fs) : place(i) = n]]

\* Mutant: the errors are left behind.
ArrangeFiles(got) == Sorted(Only({ m \in WalkItem : IsFile(m) }, got))

\* The errors first, as they came, and then the files in order.
Arrange(got) ==
    Only({ m \in WalkItem : ~IsFile(m) }, got) \o Sorted(Only({ m \in WalkItem : IsFile(m) }, got))

\* Every sender is gone: walk() sorts what it has and returns.
WalkReturns ==
    /\ sortMode # "Unsorted"
    /\ NextNone
    /\ buffer' = Arrange(items)
    /\ owner' = "reading"
    /\ UNCHANGED <<sortMode, items, given, liveVars, probeVars>>

Buffered == sortMode # "Unsorted" /\ owner = "reading"

GiveBuffered ==
    /\ Buffered
    /\ buffer # <<>>
    /\ given' = Append(given, Head(buffer))
    /\ buffer' = Tail(buffer)
    /\ UNCHANGED <<sortMode, items, owner, vars, liveVars, probeVars>>

BufferEnds ==
    /\ Buffered
    /\ buffer = <<>>
    /\ owner' = "ended"
    /\ UNCHANGED <<sortMode, items, buffer, given, vars, liveVars, probeVars>>

DropBuffer ==
    /\ Buffered
    /\ owner' = "dropped"
    /\ buffer' = <<>>
    /\ UNCHANGED <<sortMode, items, given, vars, liveVars, probeVars>>

CallerStep ==
    GiveNext \/ StreamEnds \/ Collect \/ WalkReturns \/ GiveBuffered \/ BufferEnds

-----------------------------------------------------------------------------

\* Others change the file.  What they did before it is measured is in LiveInit,
\* and what they do once it has been probed is not seen.
Others ==
    /\ phase \in {"measured", "scanning"}
    /\ Change(Held)
    /\ UNCHANGED <<vars, probeVars, walkerVars>>

AllDone ==
    /\ ~running
    /\ owner \in {"ended", "dropped"}
    /\ UNCHANGED allVars

WalkerNext == ThreadStep \/ CallerStep \/ DropStream \/ DropBuffer \/ Others \/ AllDone

WalkerSpec == WalkerInit /\ [][WalkerNext]_allVars

FairWalkerSpec == WalkerSpec /\ WF_allVars(ThreadStep) /\ WF_allVars(CallerStep)

-----------------------------------------------------------------------------

Promise == INSTANCE WalkContract WITH
    delivered <- { given[i] : i \in 1 .. Len(given) },
    stream <- IF owner = "walking" \/ owner = "reading" THEN "open" ELSE owner

\* Whatever the sort mode, the iterator that walk() returns keeps the promise of
\* WalkContract, at any depth limit: it gives nothing that the tree does not justify,
\* ends only when nothing is missing, and a caller who goes on asking comes to the
\* end.  The promise is about sets: order and repetition are in the next two.
WalkKeepsPromise == Promise!Spec

\* The path of a file is given once, whatever roots and links lead to it.
FilesGivenOnce ==
    \A i, j \in 1 .. Len(given) : IsFile(given[i]) /\ given[i] = given[j] => i = j

\* The key every item is sorted by.
Keys == [m \in WalkItem |-> SortKey(m)]

\* What a stable sort by key of the files from may make of them: each has one place,
\* and those of equal keys keep their order.
StablySorted(key, from, to) ==
    \E at \in Bijection(1 .. Len(from), 1 .. Len(from)) :
        /\ to = [n \in 1 .. Len(from) |-> from[at[n]]]
        /\ \A m, n \in 1 .. Len(from) : m < n =>
             \/ key[to[m]] < key[to[n]]
             \/ key[to[m]] = key[to[n]] /\ at[m] < at[n]

\* In a sorted mode the caller is given what was collected, all of it and each item as
\* often: the errors in the order they came, and behind them the files in the order
\* asked for, those of one size in the order of discovery.
SortedAsAsked ==
    sortMode # "Unsorted" /\ owner \in {"reading", "ended"} =>
        LET all == given \o buffer
            errors == Only({ m \in WalkItem : ~IsFile(m) }, items)
            fs == Only({ m \in WalkItem : IsFile(m) }, items)
        IN  /\ SubSeq(all, 1, Len(errors)) = errors
            /\ StablySorted(Keys, fs, SubSeq(all, Len(errors) + 1, Len(all)))
=============================================================================
