--------------------------- MODULE GitignoreCache ---------------------------
(***************************************************************************)
(* get_cached_gitignore: the workers of one walk share a cache of chained  *)
(* matchers, one for each walk root and directory.  A lookup that misses   *)
(* takes the cache's mutex once per directory to look and once to insert,  *)
(* and reads the rule files in between.  With one worker this is           *)
(* gitignore_for_path_local.                                               *)
(*                                                                         *)
(* The walk around it is kept to what decides which lookups happen: a      *)
(* directory is looked up for itself, claimed, looked up again for the     *)
(* files in it, and only then are its subdirectories handed on.            *)
(***************************************************************************)
EXTENDS Integers, Sequences, SequencesExt, FiniteSets

CONSTANTS
    Worker,
    Dir,            \* the directories, each the sequence of its components
    Subdirs,        \* Subdirs[d]: the directories in d, sorted
    RootFile,       \* paths given as roots that are not directories
    Roots,          \* the roots of the walk, in order
    Repo,           \* Repo[r]: the parent of the git directory found from r
    Exclude,        \* Exclude[r]: "none" without a git directory, else how
                    \* reading its info/exclude ends: "rules" or "fails"
    Rules           \* Rules[p]: how reading p/.gitignore may end

RootSet == { Roots[i] : i \in 1 .. Len(Roots) }

Job == [root : RootSet, path : Dir \cup RootFile]

\* Where rules come from: a directory's .gitignore, or the one info/exclude.
Info == <<".git/info/exclude">>

Source == Dir \cup RootFile \cup {Info}

\* terminal_dir_for_ignore_chain
Terminal(j) == IF j.path \in Dir THEN j.path ELSE Front(j.path)

Key == { <<j.root, Terminal(j)>> : j \in Job } \cup (RootSet \X (Dir \cup RootFile))

\* ancestor_dirs_in_order: from the repository's root, if the walk root lies in
\* one, down to the terminal directory.
Ancestors(root, terminal) ==
    LET top == IF IsPrefix(Repo[root], root) /\ Repo[root] # <<>> THEN Repo[root] ELSE root
        bottom == IF IsPrefix(root, terminal) THEN terminal ELSE root
    IN  [i \in 1 .. Len(bottom) - Len(top) + 1 |-> SubSeq(bottom, 1, Len(top) + i - 1)]

\* Below a path that is not a directory nothing can be read: ENOTDIR.
ASSUME CacheAssumption ==
    /\ Dir \cup RootFile \subseteq Seq(STRING) \ {<<>>}
    /\ Dir \cap RootFile = {}
    /\ Subdirs \in [Dir -> Seq(Dir)]
    /\ \A d \in Dir : \A i, j \in 1 .. Len(Subdirs[d]) :
          /\ IsPrefix(d, Subdirs[d][i]) /\ Len(Subdirs[d][i]) = Len(d) + 1
          /\ Subdirs[d][i] = Subdirs[d][j] => i = j
    /\ Roots \in Seq(Dir \cup RootFile) \ {<<>>}
    /\ Repo \in [RootSet -> Dir \cup {<<>>}]
    /\ Exclude \in [RootSet -> {"none", "rules", "fails"}]
    /\ \A r \in RootSet : Exclude[r] = "none" <=> Repo[r] = <<>>
    /\ Rules \in [Dir \cup RootFile -> SUBSET {"rules", "fails"}]
    /\ \A p \in RootFile : Rules[p] = {"fails"}
    /\ \A j \in Job : Ancestors(j.root, Terminal(j)) \in Seq(Dir \cup RootFile)

\* No path is given twice.  Roots may still lie in one another.
EachRootOnce == \A i, j \in 1 .. Len(Roots) : Roots[i] = Roots[j] => i = j

VARIABLES
    cache,      \* the chain of each key (root, directory), {} while absent
    pool,       \* the paths to look up and walk, each with its walk root
    claimed,    \* the directories whose scan has begun
    pc,         \* where each worker is
    job,        \* the path and walk root each worker is at
    asking,     \* "self": for the path itself, "files": for the files in it
    todo,       \* the directories still to chain, from the outermost in
    node        \* the chain built so far, nearest rules first

vars == <<cache, pool, claimed, pc, job, asking, todo, node>>

\* Every variable has its type.
TypeOK ==
    /\ cache \in [Key -> SUBSET Seq(Source)]
    /\ pool \in Seq(Job)
    /\ claimed \subseteq Dir
    /\ pc \in [Worker -> {"idle", "probe", "chain", "build",
                          "granted", "refused", "gone"}]
    /\ job \in [Worker -> Job]
    /\ asking \in [Worker -> {"self", "files"}]
    /\ todo \in [Worker -> Seq(Dir \cup RootFile)]
    /\ node \in [Worker -> Seq(Source)]

FirstJob == [root |-> Roots[1], path |-> Roots[1]]

Init ==
    /\ cache = [k \in Key |-> {}]
    /\ pool = [i \in 1 .. Len(Roots) |-> [root |-> Roots[i], path |-> Roots[i]]]
    /\ claimed = {}
    /\ pc = [w \in Worker |-> "idle"]
    /\ job = [w \in Worker |-> FirstJob]
    /\ asking = [w \in Worker |-> "self"]
    /\ todo = [w \in Worker |-> <<>>]
    /\ node = [w \in Worker |-> <<>>]

KeyOf(w) == <<job[w].root, Terminal(job[w])>>

Goto(w, to) == pc' = [pc EXCEPT ![w] = to]

\* Mutant: nothing is kept.
InsertNothing(key, chain) == UNCHANGED cache

\* cache.insert, under its mutex.
Insert(key, chain) == cache' = [cache EXCEPT ![key] = {chain}]

-----------------------------------------------------------------------------
(* The lookup.                                                             *)

\* The fast path: the whole chain is there.
Probe(w) ==
    /\ pc[w] = "probe"
    /\ IF cache[KeyOf(w)] # {}
       THEN /\ node' = [node EXCEPT ![w] = CHOOSE c \in cache[KeyOf(w)] : TRUE]
            /\ Goto(w, "granted")
            /\ UNCHANGED todo
       ELSE /\ node' = [node EXCEPT ![w] = <<>>]
            /\ todo' = [todo EXCEPT ![w] = Ancestors(job[w].root, Terminal(job[w]))]
            /\ Goto(w, "chain")
    /\ UNCHANGED <<cache, pool, claimed, job, asking>>

\* One directory of the chain: its node is taken from the cache, or built.
Chain(w) ==
    LET key == <<job[w].root, Head(todo[w])>>
    IN  /\ pc[w] = "chain"
        /\ todo[w] # <<>>
        /\ IF cache[key] # {}
           THEN /\ node' = [node EXCEPT ![w] = CHOOSE c \in cache[key] : TRUE]
                /\ todo' = [todo EXCEPT ![w] = Tail(@)]
                /\ UNCHANGED pc
           ELSE /\ Goto(w, "build")
                /\ UNCHANGED <<node, todo>>
        /\ UNCHANGED <<cache, pool, claimed, job, asking>>

\* Its .gitignore is read, put before its parent's chain, and inserted.
Build(w) ==
    LET d == Head(todo[w])
        chain == <<d>> \o node[w]
    IN  /\ pc[w] = "build"
        /\ \/ /\ "fails" \in Rules[d]
              /\ Goto(w, "refused")
              /\ UNCHANGED <<cache, node, todo>>
           \/ /\ "rules" \in Rules[d]
              /\ node' = [node EXCEPT ![w] = chain]
              /\ Insert(<<job[w].root, d>>, chain)
              /\ todo' = [todo EXCEPT ![w] = Tail(@)]
              /\ Goto(w, "chain")
        /\ UNCHANGED <<pool, claimed, job, asking>>

\* Mutant: the finished chain is returned and not inserted.
PublishNothing(w) ==
    /\ pc[w] = "chain"
    /\ todo[w] = <<>>
    /\ IF Exclude[job[w].root] = "fails"
       THEN Goto(w, "refused") /\ UNCHANGED node
       ELSE /\ node' = [node EXCEPT ![w] =
                          IF Exclude[job[w].root] = "rules" THEN <<Info>> \o @ ELSE @]
            /\ Goto(w, "granted")
    /\ UNCHANGED <<cache, pool, claimed, job, asking, todo>>

\* info/exclude comes before them all, and the result goes into the cache.
Publish(w) ==
    LET chain == IF Exclude[job[w].root] = "rules" THEN <<Info>> \o node[w] ELSE node[w]
    IN  /\ pc[w] = "chain"
        /\ todo[w] = <<>>
        /\ IF Exclude[job[w].root] = "fails"
           THEN Goto(w, "refused") /\ UNCHANGED <<cache, node>>
           ELSE /\ node' = [node EXCEPT ![w] = chain]
                /\ Insert(KeyOf(w), chain)
                /\ Goto(w, "granted")
        /\ UNCHANGED <<pool, claimed, job, asking, todo>>

-----------------------------------------------------------------------------
(* The walk that asks.                                                     *)

Take(w) ==
    /\ pc[w] = "idle"
    /\ pool # <<>>
    /\ job' = [job EXCEPT ![w] = Last(pool)]
    /\ pool' = Front(pool)
    /\ asking' = [asking EXCEPT ![w] = "self"]
    /\ Goto(w, "probe")
    /\ UNCHANGED <<cache, claimed, todo, node>>

\* The path is not ignored: a file is yielded, a directory claimed and scanned,
\* unless it has been claimed before.
Enter(w) ==
    /\ pc[w] = "granted"
    /\ asking[w] = "self"
    /\ IF job[w].path \in Dir \ claimed
       THEN /\ claimed' = claimed \cup {job[w].path}
            /\ asking' = [asking EXCEPT ![w] = "files"]
            /\ Goto(w, "probe")
       ELSE /\ Goto(w, "idle")
            /\ UNCHANGED <<claimed, asking>>
    /\ UNCHANGED <<cache, pool, job, todo, node>>

\* A path that cannot be judged is reported instead.  A file that cannot be, in
\* the parallel walk, ends the worker (channel_closed), and the directories its
\* scan has found go with it.
Refuse(w) ==
    /\ pc[w] = "refused"
    /\ Goto(w, IF asking[w] = "self" THEN "idle" ELSE "gone")
    /\ UNCHANGED <<cache, pool, claimed, job, asking, todo, node>>

\* Mutant: each directory that is handed on becomes a walk root of its own.
ScanRerooted(w) ==
    /\ pc[w] = "granted"
    /\ asking[w] = "files"
    /\ \/ /\ Goto(w, "probe")
          /\ UNCHANGED pool
       \/ /\ pool' = pool \o [i \in 1 .. Len(Subdirs[job[w].path]) |->
                                [root |-> Subdirs[job[w].path][i],
                                 path |-> Subdirs[job[w].path][i]]]
          /\ Goto(w, "idle")
    /\ UNCHANGED <<cache, claimed, job, asking, todo, node>>

\* Another file is looked up, or the scan is over and hands on what it found.
Scan(w) ==
    /\ pc[w] = "granted"
    /\ asking[w] = "files"
    /\ \/ /\ Goto(w, "probe")
          /\ UNCHANGED pool
       \/ /\ pool' = pool \o [i \in 1 .. Len(Subdirs[job[w].path]) |->
                                [root |-> job[w].root, path |-> Subdirs[job[w].path][i]]]
          /\ Goto(w, "idle")
    /\ UNCHANGED <<cache, claimed, job, asking, todo, node>>

Over == pool = <<>> /\ \A w \in Worker : pc[w] = "idle"

Next ==
    \/ \E w \in Worker :
         \/ Take(w) \/ Probe(w) \/ Chain(w) \/ Build(w) \/ Publish(w)
         \/ Enter(w) \/ Refuse(w) \/ Scan(w)
    \/ Over /\ UNCHANGED vars

Spec == Init /\ [][Next]_vars

-----------------------------------------------------------------------------
(* What the chains mean, and the properties.                               *)

\* What the rules of a source say of one path.
Opinion == {"ignore", "whitelist", "none"}

\* GitignoreNode::matched: the first source of the chain with an opinion decides.
Says(chain, opinion) ==
    LET heard == { i \in 1 .. Len(chain) : opinion[chain[i]] # "none" }
    IN  IF heard = {} THEN "none" ELSE opinion[chain[Min(heard)]]

\* The chain that a lookup with an empty cache and nobody else around builds.
Fresh(root, terminal) ==
    (IF Exclude[root] = "rules" THEN <<Info>> ELSE <<>>) \o Reverse(Ancestors(root, terminal))

\* Two chains decide every path alike, whatever the rules say.
Alike(c, d) == \A opinion \in [Range(c) \cup Range(d) -> Opinion] :
                   Says(c, opinion) = Says(d, opinion)

\* Whatever is in the cache and whatever the others are doing, a lookup that
\* succeeds returns a matcher that decides every path as a fresh one would, and
\* it succeeds only where a fresh one may.
CacheTransparent ==
    \A w \in Worker : pc[w] = "granted" =>
        /\ Exclude[job[w].root] # "fails"
        /\ \A d \in Range(Ancestors(job[w].root, Terminal(job[w]))) : "rules" \in Rules[d]
        /\ Alike(node[w], Fresh(job[w].root, Terminal(job[w])))

\* The files of a directory are judged by the chain that its own lookup has put
\* into the cache: their lookups read nothing and cannot fail, so that no worker
\* ends early and no directory is lost to an error in a rule file.  BACKLOG.md:20 says
\* of this branch, worker.rs:595-599, that with one malformed .gitignore "ALL sibling
\* subdirectories of the erroring file are NEVER walked"; but that .gitignore fails the
\* lookup of its directory, worker.rs:480, which is then not listed at all.
FileLookupsHit ==
    \A w \in Worker :
        /\ pc[w] # "gone"
        /\ asking[w] = "files" => pc[w] \in {"probe", "granted", "idle"}

\* git's precedence (gitignore_ctx.rs: "respecting git precedence rules"): the
\* nearest .gitignore with an opinion decides, and info/exclude comes after all
\* of them.
GitPrecedence ==
    \A w \in Worker : pc[w] = "granted" /\ Exclude[job[w].root] = "rules" =>
        Alike(node[w], Reverse(Ancestors(job[w].root, Terminal(job[w]))) \o <<Info>>)
=============================================================================
