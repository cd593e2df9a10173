-------------------------- MODULE MCSequentialWalk --------------------------
EXTENDS Walker, MCTrees

\* The mixed tree with two files more, so that there is something to sort.
SortPath == MixedPath \cup {"m/big", "m/s/end", "m/many/7"}

SortTree ==
    [p \in SortPath |->
       CASE p = "m"   -> [MixedTree[p] EXCEPT !.children =
                            <<"m/.git", "m/big", "m/dead", "m/log", "m/many", "m/s">>]
         [] p = "m/s" -> [MixedTree[p] EXCEPT !.children =
                            <<"m/s/bin", "m/s/d", "m/s/end", "m/s/long", "m/s/tmp", "m/s/up">>]
         [] p \in {"m/many", "m/s/up/many"} -> Dir("3", Many \o <<"m/many/7">>)
         [] p \in {"m/big", "m/s/end", "m/many/7"} -> Plain
         [] OTHER     -> MixedTree[p]]

\* One of the files is a root as well.
SortRoots == MixedRoots \o <<"m/s/end">>

SortGitignore ==
    [rp \in {"m", "m/s", "gone", "x", "m/s/end"} \X SortPath |->
       IF rp \in DOMAIN MixedGitignore THEN MixedGitignore[rp] ELSE {"keep"}]

\* Only the two and the watched file are ever yielded: it stands between them in
\* the order of names, and last in the order of discovery.
SortRank ==
    [p \in SortPath |-> CASE p = "m/big" -> 1 [] p = "m/s/d/f" -> 2 [] p = "m/s/end" -> 3 [] OTHER -> 4]

\* The watched file may be as small as the smaller or as large as the larger.
SortBytes == [p \in SortPath |-> IF p = "m/big" THEN 5 ELSE 1]

\* TLC evaluates what a .cfg substitutes for a constant anew at every use, but what
\* that refers to only once.
RunRoots == SortRoots
RunTree == SortTree
RunGitignore == SortGitignore
RunPath == SortPath

\* What the theorems of WalkerProofs ask of a tree, this one has.
ASSUME RulesIgnoreNames == SameUnderEveryName

\* No NUL, one in the prefix, and one behind it.
ModelContent == { <<"a">>, <<"a", "a", "NUL">>, <<"a", "a", "a", "NUL">> }
=============================================================================
