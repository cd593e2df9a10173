----------------------------- MODULE MCCodeTree -----------------------------
(***************************************************************************)
(* A file and a directory with a file for which the filter may fail, a     *)
(* link out of the root, and a link to a directory with a file whose       *)
(* processing may fail, a link that is one too many and, at the end of the *)
(* walk, a file that others change and whose filter may fail.              *)
(***************************************************************************)
EXTENDS SymlinkPolicy, TLC

Entries == 1 .. 8

Parents == <<0, 0, 2, 0, 0, 5, 5, 5>>

\* The root is itself reached over a link, /w, which counts.
Names == {"w", "home", "etc", "a", "d", "f", "out", "via", ".z", "p", "deep", "q"}

Links == ( <<"w">> :> <<"home">>
        @@ <<"home", "out">> :> <<"etc", "a">>
        @@ <<"home", "via">> :> <<"w", ".z">>
        @@ <<"home", ".z", "deep">> :> <<"home", "a">> )

Files == { <<"etc", "a">>, <<"home", "a">>, <<"home", "d", "f">>,
           <<"home", ".z", "p">>, <<"home", ".z", "q">> }

Places == { <<>>, <<"home">>, <<"etc">>, <<"home", "d">>, <<"home", ".z">> }
            \cup Files \cup DOMAIN Links

Kinds ==
    [p \in Places |-> IF p \in Files THEN "file" ELSE IF p \in DOMAIN Links THEN "link" ELSE "dir"]

Paths == << <<"w", "a">>, <<"w", "d">>, <<"w", "d", "f">>, <<"w", "out">>, <<"w", "via">>,
            <<"w", "via", "deep">>, <<"w", "via", "p">>, <<"w", "via", "q">> >>

RootOfWalk == <<"w">>

\* Some entries may be gone or locked when the filter looks at them.
Flaky == {1, 2, 8}

Filtered ==
    [e \in Entries |-> {code_entry_allowed(Paths[e])} \cup { a \in {"fails"} : e \in Flaky }]

\* TLC evaluates what a .cfg substitutes for a constant anew at every use, but what
\* that refers to only once.
FilterAnswers == Filtered

Outcomes == << {"file"}, {"dir"}, {"file"}, {"file"}, {"dir"},
               {"file"}, {"file", "fails"}, {"file", "skip", "fails"} >>
=============================================================================
