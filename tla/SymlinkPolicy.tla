--------------------------- MODULE SymlinkPolicy ---------------------------
(***************************************************************************)
(* Which entries a CodeWalker lets in: code_entry_allowed, over a file     *)
(* system with symbolic links.  A path is a sequence of names from the     *)
(* top; a place is a path with no link above its last name, and is what    *)
(* canonicalize returns.                                                   *)
(***************************************************************************)
EXTENDS Integers, Sequences, SequencesExt

CONSTANTS
    Name,               \* the names in directories
    Place,              \* the places, <<>> for the top directory
    Kind,               \* Kind[p]: "dir", "file" or "link"
    Target,             \* Target[p]: the path that the link at p holds
    RootPath,           \* the root of the walk
    FollowSymlinks,     \* WalkConfig::follow_symlinks
    MaxSymlinkDepth,    \* WalkConfig::max_symlink_depth
    MaxHops             \* how many links the kernel resolves in one path

ASSUME SymlinkAssumption ==
    /\ Place \subseteq Seq(Name)
    /\ <<>> \in Place
    /\ Kind \in [Place -> {"dir", "file", "link"}]
    /\ \A p \in Place : Kind[p] = "link" => Target[p] \in Seq(Name)
    /\ RootPath \in Seq(Name)
    /\ FollowSymlinks \in BOOLEAN
    /\ MaxSymlinkDepth \in Nat
    /\ MaxHops \in Nat

-----------------------------------------------------------------------------
(* The kernel.  An answer is {place}, or {} for an error.                  *)

\* Where the way along the path cannot simply go on: at a link, or at nothing.
Stops(path) ==
    { n \in 1 .. Len(path) : SubSeq(path, 1, n) \notin Place \/ Kind[SubSeq(path, 1, n)] = "link" }

\* fs::canonicalize: the first link on the way gives place to the path that it
\* holds, and so on; {} if something is missing or there are too many links.
Canonicalize(path) ==
    LET over[hops \in 0 .. MaxHops] ==
          [rest \in Seq(Name) |->
             LET stop == Min(Stops(rest))
                 here == SubSeq(rest, 1, stop)
             IN  IF Stops(rest) = {}
                 THEN {rest}
                 ELSE IF here \notin Place \/ hops = 0
                      THEN {}
                      ELSE over[hops - 1][Target[here] \o SubSeq(rest, stop + 1, Len(rest))]]
    IN  over[MaxHops][path]

\* fs::symlink_metadata: the last name is not followed.
Lstat(path) ==
    IF path = <<>>
    THEN {<<>>}
    ELSE { Append(dir, Last(path)) : dir \in Canonicalize(Front(path)) } \cap Place

-----------------------------------------------------------------------------

\* One name farther along a path: a link that is met is replaced by all that it
\* resolves to, other links in turn among them.
Along(acc, name) ==
    LET here == Append(acc.current, name)
    IN  CASE acc.failed \/ Lstat(here) = {} -> [acc EXCEPT !.failed = TRUE]
          [] ~acc.failed /\ \E p \in Lstat(here) : Kind[p] # "link" -> [acc EXCEPT !.current = here]
          [] OTHER -> [failed |-> FALSE, depth |-> acc.depth + 1,
                       current |-> IF Canonicalize(here) = {}
                                   THEN here
                                   ELSE CHOOSE p \in Canonicalize(here) : TRUE]

\* How many links are met on the way along the path, the root's own included, or
\* {} if a component cannot be examined.
symlink_depth(path) ==
    LET after[n \in 0 .. Len(path)] ==
          IF n = 0
          THEN [failed |-> FALSE, depth |-> 0, current |-> <<>>]
          ELSE Along(after[n - 1], path[n])
    IN  IF after[Len(path)].failed THEN {} ELSE {after[Len(path)].depth}

\* The links among the prefixes of the path as it stands.
LinksOf(path) ==
    [n \in 1 .. Len(path) |-> { p \in Lstat(SubSeq(path, 1, n)) : Kind[p] = "link" }]

\* One link is crossed twice.
has_symlink_loop(path) ==
    LET links == LinksOf(path)
    IN  \E i, j \in 1 .. Len(path) : i < j /\ links[i] \cap links[j] # {}

\* Mutant: a link may lead anywhere.
EntryAllowedAnywhere(path) ==
    CASE symlink_depth(path) = {} -> "fails"
      [] OTHER ->
           LET depth == CHOOSE d \in symlink_depth(path) : TRUE
           IN  IF ~FollowSymlinks
               THEN IF depth = 0 THEN "yes" ELSE "no"
               ELSE IF depth > MaxSymlinkDepth \/ (depth > 0 /\ has_symlink_loop(path))
                    THEN "no"
                    ELSE "yes"

\* Whether the filter lets the entry in, leaves it out, or fails.
code_entry_allowed(path) ==
    CASE symlink_depth(path) = {} -> "fails"
      [] OTHER ->
           LET depth == CHOOSE d \in symlink_depth(path) : TRUE
               below == \E p \in Canonicalize(path), r \in Canonicalize(RootPath) : IsPrefix(r, p)
           IN  IF ~FollowSymlinks
               THEN IF depth = 0 THEN "yes" ELSE "no"
               ELSE IF depth > MaxSymlinkDepth \/ (depth > 0 /\ has_symlink_loop(path))
                    THEN "no"
                    ELSE IF depth = 0
                         THEN "yes"
                         ELSE IF Canonicalize(path) = {} \/ Canonicalize(RootPath) = {}
                              THEN "fails"
                              ELSE IF below THEN "yes" ELSE "no"

-----------------------------------------------------------------------------
(* The same in terms of places only.                                       *)

\* What lies in a directory, and in the directories in it, and so on.
Within(dir) == { p \in Place : IsPrefix(dir, p) }

\* The path leads into the root, over no more links than allowed, none twice.
LeadsIntoRoot(path) ==
    LET links == LinksOf(path)
    IN  /\ \E p \in Canonicalize(path), r \in Canonicalize(RootPath) : p \in Within(r)
        /\ \A i, j \in 1 .. Len(path) : i # j => links[i] \cap links[j] = {}
        /\ Cardinality({ i \in 1 .. Len(path) : links[i] # {} }) <= MaxSymlinkDepth
=============================================================================
