------------------------------- MODULE MCTrees -------------------------------
(***************************************************************************)
(* The small file systems that the model checker walks.                    *)
(***************************************************************************)
EXTENDS Integers, Sequences, FiniteSets

\* An ordinary entry; the trees below change what matters to them.
Plain ==
    [tooLong |-> FALSE, stat |-> {"file"}, dotGit |-> FALSE, id |-> "", readable |-> {TRUE},
     entryErrors |-> 0, children |-> <<>>, wanted |-> TRUE, probe |-> {"text"}]

Dir(id, children) == [Plain EXCEPT !.stat = {"dir"}, !.id = id, !.children = children]

\* No rules at all: every path is kept.
KeepAll(roots, paths) == [rp \in roots \X paths |-> {"keep"}]

-----------------------------------------------------------------------------
(* Roots that overlap: a directory, its subdirectory, one of its files, and *)
(* a path that is too long.  The subdirectory holds a link up to the first *)
(* root and a directory nobody may read; one entry of the first root       *)
(* cannot be enumerated, and one file may be gone by the time it is looked *)
(* at, or cannot be opened by the binary probe.                            *)

LoopRoots == <<"a", "a/b", "a/f", "long">>

LoopTree ==
    [p \in {"a", "a/b", "a/f", "a/v", "a/b/g", "a/b/up", "a/b/z", "long",
            "a/b/up/b", "a/b/up/f", "a/b/up/v"} |->
       CASE p = "a"          -> [Dir("1", <<"a/b", "a/f", "a/v">>) EXCEPT !.entryErrors = 1]
         [] p = "a/b"        -> Dir("2", <<"a/b/g", "a/b/up", "a/b/z">>)
         [] p = "a/b/up"     -> [Dir("1", <<"a/b/up/b", "a/b/up/f", "a/b/up/v">>)
                                   EXCEPT !.entryErrors = 1]
         [] p = "a/b/up/b"   -> Dir("2", <<>>)
         [] p = "a/b/z"      -> [Dir("3", <<>>) EXCEPT !.readable = {FALSE}]
         [] p \in {"a/v", "a/b/up/v"} -> [Plain EXCEPT !.stat = {"file", "fails"},
                                                       !.probe = {"text", "fails"}]
         [] p = "long"       -> [Plain EXCEPT !.tooLong = TRUE]
         [] OTHER            -> Plain]

LoopPath == DOMAIN LoopTree

LoopGitignore == KeepAll({"a", "a/b", "a/f", "long"}, LoopPath)

-----------------------------------------------------------------------------
(* A bit of everything that a walk passes over or reports: a .git, a link  *)
(* to nowhere, an ignored file and an ignored directory, a binary, an      *)
(* overfull directory, a link back to a root, a child that is too long, a  *)
(* root that is gone and one whose gitignore cannot be read.  One root     *)
(* lies below another.                                                     *)

MixedRoots == <<"m", "m/s", "gone", "x">>

Many == <<"m/many/1", "m/many/2", "m/many/3", "m/many/4", "m/many/5", "m/many/6">>

MixedTree ==
    [p \in {"m", "m/.git", "m/dead", "m/log", "m/s", "m/many", "gone", "x",
            "m/s/bin", "m/s/d", "m/s/long", "m/s/tmp", "m/s/up", "m/s/d/f",
            "m/s/up/.git", "m/s/up/dead", "m/s/up/log", "m/s/up/many", "m/s/up/s"}
            \cup { Many[i] : i \in 1 .. 6 } |->
       CASE p = "m"         -> Dir("1", <<"m/.git", "m/dead", "m/log", "m/many", "m/s">>)
         [] p = "m/s"       -> [Dir("2", <<"m/s/bin", "m/s/d", "m/s/long", "m/s/tmp", "m/s/up">>)
                                  EXCEPT !.entryErrors = 1]
         [] p = "m/s/up"    -> Dir("1", <<"m/s/up/.git", "m/s/up/dead", "m/s/up/log",
                                          "m/s/up/many", "m/s/up/s">>)
         [] p \in {"m/many", "m/s/up/many"} -> Dir("3", Many)
         [] p = "m/s/up/s"  -> Dir("2", <<>>)
         [] p = "m/s/d"     -> Dir("4", <<"m/s/d/f">>)
         [] p = "m/s/tmp"   -> Dir("5", <<>>)
         [] p \in {"m/.git", "m/s/up/.git"} -> [Dir("6", <<>>) EXCEPT !.dotGit = TRUE]
         [] p \in {"m/dead", "m/s/up/dead"} -> [Plain EXCEPT !.stat = {"unresolvable"}]
         [] p = "gone"      -> [Plain EXCEPT !.stat = {"fails"}]
         [] p = "m/s/long"  -> [Plain EXCEPT !.tooLong = TRUE]
         [] p = "m/s/bin"   -> [Plain EXCEPT !.probe = {"binary"}]
         [] p = "m/s/d/f"   -> [Plain EXCEPT !.stat = {"file", "fails"},
                                             !.probe = {"text", "binary", "fails"}]
         [] OTHER           -> Plain]

MixedPath == DOMAIN MixedTree

MixedGitignore ==
    [rp \in {"m", "m/s", "gone", "x"} \X MixedPath |->
       CASE rp[2] = "x"                   -> {"fails"}
         [] rp[2] \in {"m/log", "m/s/up/log", "m/s/tmp"} -> {"ignore"}
         [] OTHER                         -> {"keep"}]

-----------------------------------------------------------------------------
(* Two overlapping roots and no links: the inner one stands first, so that *)
(* the stack of the parallel walk gives out the outer one before it.       *)

NestedRoots == <<"a/b", "a">>

NestedTree ==
    [p \in {"a", "a/b", "a/f", "a/b/g"} |->
       CASE p = "a"   -> Dir("1", <<"a/b", "a/f">>)
         [] p = "a/b" -> Dir("2", <<"a/b/g">>)
         [] OTHER     -> Plain]

NestedPath == DOMAIN NestedTree

NestedGitignore == KeepAll({"a", "a/b"}, NestedPath)
=============================================================================
