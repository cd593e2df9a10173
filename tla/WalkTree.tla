------------------------------ MODULE WalkTree ------------------------------
(***************************************************************************)
(* The file system a walk runs over, and the answers it gives to the calls *)
(* that walkkit makes.  A path is an opaque value; Tree says what the      *)
(* kernel and the filters answer about it.  Where the answer may differ    *)
(* from one call to the next (an entry deleted, replaced or locked while   *)
(* the walk runs) the field is a set with more than one member, and every  *)
(* call takes any one of them.                                             *)
(***************************************************************************)
EXTENDS Integers, Sequences, FiniteSets

CONSTANTS
    Path,           \* the paths of the instance
    Roots,          \* the roots handed to Walker::new, in order
    Tree,           \* Tree[p]: what the system answers about path p
    Gitignore,      \* Gitignore[r, p]: verdicts on p in the walk of root r
    MaxDepth,       \* Walker::with_max_depth, or NoLimit for None
    MaxDirEntries   \* Walker::with_max_dir_entries, or NoLimit for None

\* Option::None of an optional limit.
NoLimit == -1

Limit == Nat \cup {NoLimit}

\* metadata_for_path: a directory, anything else that exists, a symlink that
\* resolves to nothing while links are followed, or an I/O error.
StatAnswer == {"dir", "file", "unresolvable", "fails"}

Verdict == {"keep", "ignore", "fails"}

Node ==
    [ tooLong     : BOOLEAN,                 \* longer than MAX_WALK_PATH_BYTES
      stat        : SUBSET StatAnswer,
      dotGit      : BOOLEAN,                 \* named .git, gitignore respected
      id          : STRING,                  \* its DirId, "" when dir_id fails
      readable    : SUBSET BOOLEAN,          \* whether fs::read_dir succeeds
      entryErrors : Nat,                     \* entries whose DirEntry fails
      children    : Seq(Path),               \* the other entries, sorted
      wanted      : BOOLEAN,                 \* regular, matching, small enough
      probe       : SUBSET {"text", "binary", "fails"} ]

RootSet == { Roots[i] : i \in 1 .. Len(Roots) }

ASSUME TreeAssumption ==
    /\ IsFiniteSet(Path)
    /\ Roots \in Seq(Path)
    /\ Tree \in [Path -> Node]
    /\ Gitignore \in [RootSet \X Path -> SUBSET Verdict]
    /\ MaxDepth \in Limit
    /\ MaxDirEntries \in Limit

-----------------------------------------------------------------------------
(* The calls of the walkers, as the set of answers each may give.          *)

\* Those of ps that are in S, in their order.
Only(S, ps) ==
    LET upto[n \in 0 .. Len(ps)] ==
            IF n = 0 THEN <<>>
            ELSE IF ps[n] \in S THEN Append(upto[n - 1], ps[n]) ELSE upto[n - 1]
    IN  upto[Len(ps)]

\* path_exceeds_walk_limit
TooLong(p) == Tree[p].tooLong

\* metadata_for_path, with is_unresolvable_symlink deciding which failures
\* are passed over in silence
Stat(p) == Tree[p].stat

\* get_cached_gitignore or gitignore_for_path_local, then path_is_ignored
Judge(r, p) == Gitignore[r, p]

\* dir_id: (dev, ino) on Unix; on other platforms it can fail
HasId(p) == Tree[p].id # ""

\* read_dir_sorted: an unreadable directory, or one with more readable
\* entries than the limit, is an error as a whole
ReadDir(p) ==
    LET overfull == MaxDirEntries # NoLimit /\ Len(Tree[p].children) > MaxDirEntries
    IN  { readable /\ ~overfull : readable \in Tree[p].readable }

\* build_walked_file: Ok(Some), Ok(None) or Err of the binary probe
Build(p) ==
    IF ~Tree[p].wanted
    THEN {"skip"}
    ELSE { CASE seen = "text"   -> "file"
             [] seen = "binary" -> "skip"
             [] OTHER           -> "fails" : seen \in Tree[p].probe }

\* options.max_depth.is_none_or(|max| depth <= max)
Recurse(depth) == MaxDepth = NoLimit \/ depth <= MaxDepth

-----------------------------------------------------------------------------
(* What a walk yields: WalkItem::File, or WalkItem::Error with its WalkOp. *)

WalkOp == {"Metadata", "ReadDir", "Open", "Gitignore"}

WalkItem == [kind : {"File"} \cup WalkOp, path : Path]

File(p) == [kind |-> "File", path |-> p]

Error(op, p) == [kind |-> op, path |-> p]

IsFile(m) == m.kind = "File"

\* What becomes of a path: an error to report (its WalkOp), nothing, a
\* directory to enter, a file to yield.
Outcome == WalkOp \cup {"pass", "enter", "yield"}

\* From the metadata on: the gitignore verdict, then for a directory the .git
\* test and the identity, for anything else build_walked_file.
Admit(r, p, kind) ==
    CASE kind = "unresolvable" -> {"pass"}
      [] kind = "fails"        -> {"Metadata"}
      [] OTHER ->
            { "Gitignore" : v \in Judge(r, p) \cap {"fails"} }
              \cup { "pass" : v \in Judge(r, p) \cap {"ignore"} }
              \cup UNION { IF kind = "dir"
                           THEN { IF Tree[p].dotGit THEN "pass"
                                  ELSE IF HasId(p) THEN "enter" ELSE "Metadata" }
                           ELSE { CASE b = "file"  -> "yield"
                                    [] b = "fails" -> "Open"
                                    [] OTHER       -> "pass" : b \in Build(p) } :
                           v \in Judge(r, p) \cap {"keep"} }

\* From the path on, when its metadata are not known yet.
Examine(r, p) ==
    IF TooLong(p) THEN {"Metadata"} ELSE UNION { Admit(r, p, k) : k \in Stat(p) }

-----------------------------------------------------------------------------
(* What a walk owes its caller, found level by level from the roots        *)
(* without any queue or visited set.  Says(how, answers, a) is how sure an *)
(* answer has to be: "may" for what can be yielded, "must" for what has to *)
(* be.                                                                     *)

Says(how, answers, a) == IF how = "must" THEN answers = {a} ELSE a \in answers

Entries(p) == { Tree[p].children[i] : i \in 1 .. Len(Tree[p].children) }

Enters(how, r, p) == Says(how, Examine(r, p), "enter")

\* A directory reached from root r by path p, below directories with these ids.
Reached(r, p, above) == [root |-> r, path |-> p, ids |-> above \cup {Tree[p].id}]

\* The directories found one level below those of ds.  A directory is never
\* listed below itself: the path above it was listed first, and claimed its id.
Below(how, ds) ==
    LET listed == { d \in ds : Says(how, ReadDir(d.path), TRUE) }
        within(d) == { c \in Entries(d.path) :
                         Enters(how, d.root, c) /\ Tree[c].id \notin d.ids }
    IN  UNION { { Reached(d.root, c, d.ids) : c \in within(d) } : d \in listed }

\* Levels(how)[n]: the directories found at depth n.
Levels(how) ==
    LET at[n \in Nat] ==
            IF n = 0 THEN { Reached(r, r, {}) : r \in { q \in RootSet : Enters(how, q, q) } }
            ELSE Below(how, at[n - 1])
    IN  at

\* Without a limit, no directory is deeper than there are paths.
Deepest == IF MaxDepth = NoLimit THEN Cardinality(Path) ELSE MaxDepth

\* The directories within the limit.
Entered(how) == UNION { Levels(how)[n] : n \in 0 .. Deepest }

\* The items that the path p, walked from root r, is itself.
ItemsOf(how, r, p) ==
    { File(p) : yielded \in { y \in {TRUE} : Says(how, Examine(r, p), "yield") } }
      \cup { Error(op, p) : op \in { o \in WalkOp : Says(how, Examine(r, p), o) } }

\* The items that come of listing directory d, or of failing to.
Harvest(how, d) ==
    { Error("ReadDir", d.path) : e \in { x \in {FALSE} : Says(how, ReadDir(d.path), x) } }
      \cup IF Says(how, ReadDir(d.path), TRUE)
           THEN { Error("ReadDir", d.path) : e \in 1 .. Tree[d.path].entryErrors }
                  \cup UNION { ItemsOf(how, d.root, c) : c \in Entries(d.path) }
           ELSE {}

MayEnter == Entered("may")

MustEnter == Entered("must")

\* What makes one name of a directory stand for another: who may walk it by the
\* name of a cannot fail to read it, and enters all that must be entered by the
\* name of d.  A .gitignore that has rules for one of two names breaks it.
SameUnderEveryName ==
    \A d \in MustEnter, a \in MayEnter :
        Tree[a.path].id = Tree[d.path].id /\ ReadDir(d.path) = {TRUE} =>
            /\ ReadDir(a.path) = {TRUE}
            /\ \A c \in Entries(d.path) :
                 Enters("must", d.root, c) /\ Tree[c].id \notin d.ids =>
                     \E b \in Entries(a.path) : /\ Tree[b].id = Tree[c].id
                                               /\ Enters("must", a.root, b)

\* Every item that a walk is allowed to yield.
Yieldable ==
    (UNION { ItemsOf("may", r, r) : r \in RootSet }) \cup (UNION { Harvest("may", d) : d \in MayEnter })

\* The items got leave nothing out: the roots have had their say, and every
\* directory within the depth limit, known by its DirId, has been harvested
\* under one of its names.
CoversTree(got) ==
    /\ \A r \in RootSet : ItemsOf("must", r, r) \subseteq got
    /\ \A d \in MustEnter :
         \E alias \in MayEnter : /\ Tree[alias.path].id = Tree[d.path].id
                                /\ Harvest("must", alias) \subseteq got
=============================================================================
