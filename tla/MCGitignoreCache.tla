-------------------------- MODULE MCGitignoreCache --------------------------
(***************************************************************************)
(* A repository p and a root r in it; below r, a repository s of its own   *)
(* whose info/exclude is too large to be read; q lies in no repository;    *)
(* a is a file.  Two .gitignore files may become unreadable at any time.   *)
(***************************************************************************)
EXTENDS GitignoreCache, TLC

p == <<"p">>
r == <<"p", "r">>
s == <<"p", "r", "s">>
t == <<"p", "r", "t">>
q == <<"q">>
u == <<"q", "u">>
a == <<"p", "a">>

Dirs == {p, r, s, t, q, u}

Files == {a}

Below == [d \in Dirs |-> CASE d = p -> <<r>> [] d = r -> <<s, t>> [] d = q -> <<u>> [] OTHER -> <<>>]

Overlapping == <<a, r, s, q>>

Repeated == <<r, r>>

Repos == [root \in RootSet |-> CASE root = s -> s [] root = q -> <<>> [] OTHER -> p]

Excludes == [root \in RootSet |-> CASE root = s -> "fails" [] root = q -> "none" [] OTHER -> "rules"]

Readable == [d \in Dirs \cup Files |->
               CASE d = a -> {"fails"} [] d \in {t, u} -> {"rules", "fails"} [] OTHER -> {"rules"}]

\* What CacheIsTransparent asks of the roots: the run that repeats one breaks it.
ASSUME RootsDistinct == Roots = Overlapping => EachRootOnce

Symmetric == Permutations(Worker)
=============================================================================
