------------------------ MODULE GitignoreCacheProofs ------------------------
(***************************************************************************)
(* Theorems about the shared gitignore cache, for every tree of rule       *)
(* files, every list of roots and every set of workers.                    *)
(***************************************************************************)
EXTENDS GitignoreCache, SequenceTheorems, WellFoundedInduction, TLAPS

LEMMA EndsOfSequence ==
    ASSUME NEW S, NEW s \in Seq(S), s # <<>>
    PROVE  /\ Head(s) \in S /\ Tail(s) \in Seq(S)
           /\ Front(s) \in Seq(S) /\ Last(s) \in S
    BY DEF Front, Last

\* A worker builds a node only for a directory of its chain, and looks up files
\* only in a directory.
Building ==
    \A w \in Worker :
        /\ pc[w] = "build" => todo[w] # <<>>
        /\ asking[w] = "files" => job[w].path \in Dir

TypeInv == TypeOK /\ Building

LEMMA KeyType ==
    ASSUME TypeInv, NEW w \in Worker
    PROVE  /\ job[w] \in Job /\ KeyOf(w) \in Key
           /\ job[w].root \in RootSet /\ job[w].path \in Dir \cup RootFile
           /\ \A d \in Dir \cup RootFile : <<job[w].root, d>> \in Key
           /\ Ancestors(job[w].root, Terminal(job[w])) \in Seq(Dir \cup RootFile)
    <1>1. job[w] \in Job
        BY DEF TypeInv, TypeOK
    <1>2. job[w].root \in RootSet /\ job[w].path \in Dir \cup RootFile
        BY <1>1 DEF Job
    <1>3. KeyOf(w) \in Key
        BY <1>1 DEF KeyOf, Key
    <1>4. \A d \in Dir \cup RootFile : <<job[w].root, d>> \in Key
        BY <1>2 DEF Key
    <1> QED
        BY <1>1, <1>2, <1>3, <1>4, CacheAssumption

\* What the cache holds under a key is a chain.
LEMMA CachedChain ==
    ASSUME TypeInv, NEW key \in Key, cache[key] # {}
    PROVE  (CHOOSE c \in cache[key] : TRUE) \in Seq(Source)
    <1>1. cache[key] \in SUBSET Seq(Source)
        BY DEF TypeInv, TypeOK
    <1>2. (CHOOSE c \in cache[key] : TRUE) \in cache[key]
        OBVIOUS
    <1> QED
        BY <1>1, <1>2

LEMMA InsertType ==
    ASSUME TypeInv, NEW key \in Key, NEW chain \in Seq(Source), Insert(key, chain)
    PROVE  /\ cache' \in [Key -> SUBSET Seq(Source)]
           /\ cache'[key] # {}
           /\ \A k \in Key : cache[k] # {} => cache'[k] # {}
    BY DEF TypeInv, TypeOK, Insert

LEMMA LongerChain ==
    ASSUME NEW d \in Source, NEW chain \in Seq(Source)
    PROVE  <<d>> \o chain \in Seq(Source)
    OBVIOUS

LEMMA InitType == Init => TypeInv
    <1> SUFFICES ASSUME Init PROVE TypeInv
        OBVIOUS
    <1>1. Len(Roots) \in Nat \ {0} /\ \A i \in 1 .. Len(Roots) : Roots[i] \in Dir \cup RootFile
        BY CacheAssumption
    <1>2. \A i \in 1 .. Len(Roots) : [root |-> Roots[i], path |-> Roots[i]] \in Job
        BY <1>1 DEF Job, RootSet
    <1>3. pool \in Seq(Job) /\ FirstJob \in Job
        BY <1>1, <1>2 DEF Init, FirstJob
    <1> QED
        BY <1>3 DEF Init, TypeInv, TypeOK, Building

LEMMA NextType == TypeInv /\ [Next]_vars => TypeInv'
    <1> SUFFICES ASSUME TypeInv, [Next]_vars PROVE TypeInv'
        OBVIOUS
    <1> USE DEF Goto
    <1>a. TypeOK /\ Building
        BY DEF TypeInv
    <1>1. ASSUME NEW w \in Worker, Take(w) PROVE TypeInv'
        <2>1. Front(pool) \in Seq(Job) /\ Last(pool) \in Job
            BY <1>a, <1>1, EndsOfSequence DEF TypeOK, Take
        <2> QED
            BY <1>a, <1>1, <2>1 DEF TypeInv, TypeOK, Building, Take
    <1>2. ASSUME NEW w \in Worker, Probe(w) PROVE TypeInv'
        <2>1. CASE cache[KeyOf(w)] # {}
            <3>1. (CHOOSE c \in cache[KeyOf(w)] : TRUE) \in Seq(Source)
                BY <2>1, KeyType, CachedChain
            <3> QED
                BY <1>a, <1>2, <2>1, <3>1 DEF TypeInv, TypeOK, Building, Probe
        <2>2. CASE cache[KeyOf(w)] = {}
            <3>1. Ancestors(job[w].root, Terminal(job[w])) \in Seq(Dir \cup RootFile)
                BY KeyType
            <3>2. <<>> \in Seq(Source)
                OBVIOUS
            <3> QED
                BY <1>a, <1>2, <2>2, <3>1, <3>2 DEF TypeInv, TypeOK, Building, Probe
        <2> QED
            BY <2>1, <2>2
    <1>3. ASSUME NEW w \in Worker, Chain(w) PROVE TypeInv'
        <2> DEFINE key == <<job[w].root, Head(todo[w])>>
        <2>1. Head(todo[w]) \in Dir \cup RootFile /\ Tail(todo[w]) \in Seq(Dir \cup RootFile)
            BY <1>a, <1>3, EndsOfSequence DEF TypeOK, Chain
        <2>2. CASE cache[key] # {}
            <3>1. (CHOOSE c \in cache[key] : TRUE) \in Seq(Source)
                BY <2>1, <2>2, KeyType, CachedChain
            <3> QED
                BY <1>a, <1>3, <2>1, <2>2, <3>1 DEF TypeInv, TypeOK, Building, Chain
        <2>3. CASE cache[key] = {}
            BY <1>a, <1>3, <2>3 DEF TypeInv, TypeOK, Building, Chain
        <2> QED
            BY <2>2, <2>3
    <1>4. ASSUME NEW w \in Worker, Build(w) PROVE TypeInv'
        <2> DEFINE d == Head(todo[w])
                   chain == <<d>> \o node[w]
                   key == <<job[w].root, d>>
        <2>1. d \in Dir \cup RootFile /\ Tail(todo[w]) \in Seq(Dir \cup RootFile)
            BY <1>a, <1>4, EndsOfSequence DEF TypeOK, Build, Building
        <2>2. chain \in Seq(Source) /\ key \in Key
            BY <1>a, <2>1, LongerChain, KeyType DEF TypeOK, Source
        <2>3. CASE UNCHANGED <<cache, node, todo>> /\ Goto(w, "refused")
            BY <1>a, <1>4, <2>3 DEF TypeInv, TypeOK, Building, Build
        <2>4. CASE /\ node' = [node EXCEPT ![w] = chain]
                   /\ Insert(key, chain)
                   /\ todo' = [todo EXCEPT ![w] = Tail(@)]
                   /\ Goto(w, "chain")
            <3>1. cache' \in [Key -> SUBSET Seq(Source)]
                BY <2>2, <2>4, InsertType
            <3> QED
                BY <1>a, <1>4, <2>1, <2>2, <2>4, <3>1 DEF TypeInv, TypeOK, Building, Build
        <2> QED
            BY <1>4, <2>3, <2>4 DEF Build
    <1>5. ASSUME NEW w \in Worker, Publish(w) PROVE TypeInv'
        <2> DEFINE chain == IF Exclude[job[w].root] = "rules" THEN <<Info>> \o node[w] ELSE node[w]
        <2>1. chain \in Seq(Source) /\ KeyOf(w) \in Key
            BY <1>a, LongerChain, KeyType DEF TypeOK, Source
        <2>2. CASE Exclude[job[w].root] = "fails"
            BY <1>a, <1>5, <2>2 DEF TypeInv, TypeOK, Building, Publish
        <2>3. CASE Exclude[job[w].root] # "fails"
            <3>1. cache' \in [Key -> SUBSET Seq(Source)]
                BY <1>5, <2>1, <2>3, InsertType DEF Publish
            <3> QED
                BY <1>a, <1>5, <2>1, <2>3, <3>1 DEF TypeInv, TypeOK, Building, Publish
        <2> QED
            BY <2>2, <2>3
    <1>6. ASSUME NEW w \in Worker, Enter(w) PROVE TypeInv'
        BY <1>a, <1>6 DEF TypeInv, TypeOK, Building, Enter
    <1>7. ASSUME NEW w \in Worker, Refuse(w) PROVE TypeInv'
        BY <1>a, <1>7 DEF TypeInv, TypeOK, Building, Refuse
    <1>8. ASSUME NEW w \in Worker, Scan(w) PROVE TypeInv'
        <2> DEFINE found == [i \in 1 .. Len(Subdirs[job[w].path]) |->
                                [root |-> job[w].root, path |-> Subdirs[job[w].path][i]]]
        <2>1. CASE pool' = pool
            BY <1>a, <1>8, <2>1 DEF TypeInv, TypeOK, Building, Scan
        <2>2. CASE pool' = pool \o found
            <3>1. job[w].path \in Dir /\ job[w].root \in RootSet
                BY <1>a, <1>8, KeyType DEF Building, Scan
            <3>2. Subdirs[job[w].path] \in Seq(Dir)
                BY <3>1, CacheAssumption
            <3>3. found \in Seq(Job)
                BY <3>1, <3>2 DEF Job
            <3>4. pool' \in Seq(Job)
                BY <1>a, <2>2, <3>3 DEF TypeOK
            <3> QED
                BY <1>a, <1>8, <3>4 DEF TypeInv, TypeOK, Building, Scan
        <2> QED
            BY <1>8, <2>1, <2>2 DEF Scan
    <1>9. CASE UNCHANGED vars
        BY <1>a, <1>9 DEF TypeInv, TypeOK, Building, vars
    <1> QED
        BY <1>1, <1>2, <1>3, <1>4, <1>5, <1>6, <1>7, <1>8, <1>9 DEF Next

\* Every variable keeps its type.
THEOREM CacheTypeCorrect == Spec => []TypeOK
    <1>1. Init => TypeInv
        BY InitType
    <1>2. TypeInv /\ [Next]_vars => TypeInv'
        BY NextType
    <1>3. TypeInv => TypeOK
        BY DEF TypeInv
    <1> QED
        BY <1>1, <1>2, <1>3, PTL DEF Spec

-----------------------------------------------------------------------------
(* A lookup that has succeeded has left its answer in the cache, and no    *)
(* entry is ever removed.                                                  *)

AnswerCached ==
    \A w \in Worker :
        pc[w] = "granted" \/ (asking[w] = "files" /\ pc[w] = "probe") => cache[KeyOf(w)] # {}

HitInv == TypeInv /\ AnswerCached /\ FileLookupsHit

LEMMA NextHit == HitInv /\ [Next]_vars => AnswerCached' /\ FileLookupsHit'
    <1> SUFFICES ASSUME HitInv, [Next]_vars PROVE AnswerCached' /\ FileLookupsHit'
        OBVIOUS
    <1> USE DEF Goto, KeyOf
    <1>a. TypeOK /\ AnswerCached /\ FileLookupsHit /\ TypeInv
        BY DEF HitInv, TypeInv
    <1>b. pc \in [Worker -> {"idle", "probe", "chain", "build", "granted", "refused", "gone"}]
          /\ job \in [Worker -> Job] /\ asking \in [Worker -> {"self", "files"}]
        BY <1>a DEF TypeOK
    <1>1. ASSUME NEW w \in Worker, Take(w) PROVE AnswerCached' /\ FileLookupsHit'
        BY <1>a, <1>b, <1>1 DEF AnswerCached, FileLookupsHit, Take
    <1>2. ASSUME NEW w \in Worker, Probe(w) PROVE AnswerCached' /\ FileLookupsHit'
        BY <1>a, <1>b, <1>2 DEF AnswerCached, FileLookupsHit, Probe
    <1>3. ASSUME NEW w \in Worker, Chain(w) PROVE AnswerCached' /\ FileLookupsHit'
        BY <1>a, <1>b, <1>3 DEF AnswerCached, FileLookupsHit, Chain
    <1>4. ASSUME NEW w \in Worker, Build(w) PROVE AnswerCached' /\ FileLookupsHit'
        <2> DEFINE d == Head(todo[w])
                   chain == <<d>> \o node[w]
        <2>1. asking[w] = "self" /\ pc'[w] \in {"refused", "chain"}
            BY <1>a, <1>b, <1>4 DEF FileLookupsHit, Build
        <2>2. \A k \in Key : cache[k] # {} => cache'[k] # {}
            <3>1. d \in Dir \cup RootFile
                BY <1>a, <1>4, EndsOfSequence DEF TypeInv, TypeOK, Build, Building
            <3>2. chain \in Seq(Source) /\ <<job[w].root, d>> \in Key
                BY <1>a, <3>1, LongerChain, KeyType DEF TypeOK, Source
            <3> QED
                BY <1>4, <3>2, <1>a, InsertType DEF Build
        <2>3. \A v \in Worker : KeyOf(v) \in Key /\ job'[v] = job[v]
            BY <1>a, <1>4, KeyType DEF Build
        <2> QED
            BY <1>a, <1>b, <1>4, <2>1, <2>2, <2>3 DEF AnswerCached, FileLookupsHit, Build
    <1>5. ASSUME NEW w \in Worker, Publish(w) PROVE AnswerCached' /\ FileLookupsHit'
        <2> DEFINE chain == IF Exclude[job[w].root] = "rules" THEN <<Info>> \o node[w] ELSE node[w]
        <2>1. asking[w] = "self"
            BY <1>a, <1>b, <1>5 DEF FileLookupsHit, Publish
        <2>2. chain \in Seq(Source) /\ KeyOf(w) \in Key
            BY <1>a, LongerChain, KeyType DEF TypeOK, Source
        <2>3. /\ \A k \in Key : cache[k] # {} => cache'[k] # {}
              /\ pc'[w] = "granted" => cache'[KeyOf(w)] # {}
            BY <1>5, <1>a, <1>b, <2>2, InsertType DEF Publish
        <2>4. \A v \in Worker : KeyOf(v) \in Key /\ job'[v] = job[v]
            BY <1>a, <1>5, KeyType DEF Publish
        <2> QED
            BY <1>a, <1>b, <1>5, <2>1, <2>3, <2>4 DEF AnswerCached, FileLookupsHit, Publish
    <1>6. ASSUME NEW w \in Worker, Enter(w) PROVE AnswerCached' /\ FileLookupsHit'
        BY <1>a, <1>b, <1>6 DEF AnswerCached, FileLookupsHit, Enter
    <1>7. ASSUME NEW w \in Worker, Refuse(w) PROVE AnswerCached' /\ FileLookupsHit'
        BY <1>a, <1>b, <1>7 DEF AnswerCached, FileLookupsHit, Refuse
    <1>8. ASSUME NEW w \in Worker, Scan(w) PROVE AnswerCached' /\ FileLookupsHit'
        BY <1>a, <1>b, <1>8 DEF AnswerCached, FileLookupsHit, Scan
    <1>9. CASE UNCHANGED vars
        BY <1>a, <1>9 DEF AnswerCached, FileLookupsHit, vars
    <1> QED
        BY <1>1, <1>2, <1>3, <1>4, <1>5, <1>6, <1>7, <1>8, <1>9 DEF Next

\* The error branch of a file's lookup (channel_closed in the parallel walk) is
\* never taken, for any rule files, readable or not, and any number of workers.
THEOREM FilesAreJudgedFromTheCache == Spec => []FileLookupsHit
    <1>1. Init => HitInv
        BY InitType DEF Init, HitInv, AnswerCached, FileLookupsHit
    <1>2. HitInv /\ [Next]_vars => HitInv'
        BY NextType, NextHit DEF HitInv
    <1>3. HitInv => FileLookupsHit
        BY DEF HitInv
    <1> QED
        BY <1>1, <1>2, <1>3, PTL DEF Spec

-----------------------------------------------------------------------------
(* Prefixes.                                                               *)

LEMMA PrefixMeaning ==
    ASSUME NEW S, NEW s \in Seq(S), NEW t \in Seq(S)
    PROVE  IsPrefix(s, t) <=> Len(s) <= Len(t) /\ \A i \in 1 .. Len(s) : s[i] = t[i]
    <1> DEFINE n == Len(s)
    <1>1. n \in Nat /\ Len(t) \in Nat
        OBVIOUS
    <1>2. n \in Int /\ 1 \in Int /\ n - 1 + 1 = n
        BY <1>1
    <1>3. \A i \in 1 .. n : s[i] \in S
        OBVIOUS
    <1> HIDE DEF n
    <1>4. /\ SubSeq(s, 1, n) \in Seq(S)
          /\ Len(SubSeq(s, 1, n)) = n
          /\ \A i \in 1 .. n : SubSeq(s, 1, n)[i] = s[i]
        BY <1>1, <1>2, <1>3, SubSeqProperties
    <1>5. ASSUME n <= Len(t)
          PROVE  /\ SubSeq(t, 1, n) \in Seq(S)
                 /\ Len(SubSeq(t, 1, n)) = n
                 /\ \A i \in 1 .. n : SubSeq(t, 1, n)[i] = t[i]
        <2>1. \A i \in 1 .. n : t[i] \in S
            BY <1>1, <1>5
        <2> QED
            BY <1>1, <1>2, <2>1, SubSeqProperties
    <1>6. ASSUME n <= Len(t)
          PROVE  SubSeq(s, 1, n) = SubSeq(t, 1, n) <=> \A i \in 1 .. n : s[i] = t[i]
        <2>1. ASSUME \A i \in 1 .. n : s[i] = t[i] PROVE SubSeq(s, 1, n) = SubSeq(t, 1, n)
            <3> DEFINE u == SubSeq(s, 1, n)
                       v == SubSeq(t, 1, n)
            <3>1. u \in Seq(S) /\ v \in Seq(S) /\ Len(u) = Len(v)
                  /\ \A i \in 1 .. Len(u) : u[i] = v[i]
                BY <1>4, <1>5, <1>6, <2>1
            <3> HIDE DEF u, v
            <3>2. u = v
                BY <3>1, SeqEqual
            <3> QED
                BY <3>2 DEF u, v
        <2>2. ASSUME SubSeq(s, 1, n) = SubSeq(t, 1, n) PROVE \A i \in 1 .. n : s[i] = t[i]
            BY <1>4, <1>5, <1>6, <2>2
        <2> QED
            BY <2>1, <2>2
    <1>7. IsPrefix(s, t) <=> n <= Len(t) /\ SubSeq(s, 1, n) = SubSeq(t, 1, n)
        BY DEF IsPrefix, n
    <1> QED
        BY <1>6, <1>7 DEF n

LEMMA PrefixReflexive ==
    ASSUME NEW S, NEW s \in Seq(S)
    PROVE  IsPrefix(s, s)
    BY PrefixMeaning

LEMMA PrefixTransitive ==
    ASSUME NEW S, NEW s \in Seq(S), NEW t \in Seq(S), NEW u \in Seq(S),
           IsPrefix(s, t), IsPrefix(t, u)
    PROVE  IsPrefix(s, u)
    <1>1. Len(s) <= Len(t) /\ \A i \in 1 .. Len(s) : s[i] = t[i]
        BY PrefixMeaning
    <1>2. Len(t) <= Len(u) /\ \A i \in 1 .. Len(t) : t[i] = u[i]
        BY PrefixMeaning
    <1>3. Len(s) <= Len(u) /\ \A i \in 1 .. Len(s) : s[i] = u[i]
        BY <1>1, <1>2
    <1> QED
        BY <1>3, PrefixMeaning

LEMMA PrefixAntisymmetric ==
    ASSUME NEW S, NEW s \in Seq(S), NEW t \in Seq(S), IsPrefix(s, t), Len(t) <= Len(s)
    PROVE  s = t
    <1>1. Len(s) <= Len(t) /\ \A i \in 1 .. Len(s) : s[i] = t[i]
        BY PrefixMeaning
    <1>2. Len(s) = Len(t)
        BY <1>1
    <1> QED
        BY <1>1, <1>2, SeqEqual

\* Two prefixes of one sequence: one is a prefix of the other.
LEMMA PrefixLinear ==
    ASSUME NEW S, NEW s \in Seq(S), NEW t \in Seq(S), NEW u \in Seq(S),
           IsPrefix(s, u), IsPrefix(t, u)
    PROVE  Len(s) <= Len(t) => IsPrefix(s, t)
    <1>1. Len(s) <= Len(u) /\ \A i \in 1 .. Len(s) : s[i] = u[i]
        BY PrefixMeaning
    <1>2. Len(t) <= Len(u) /\ \A i \in 1 .. Len(t) : t[i] = u[i]
        BY PrefixMeaning
    <1> SUFFICES ASSUME Len(s) <= Len(t) PROVE IsPrefix(s, t)
        OBVIOUS
    <1>3. \A i \in 1 .. Len(s) : s[i] = t[i]
        BY <1>1, <1>2
    <1> QED
        BY <1>3, PrefixMeaning

LEMMA Beginning ==
    ASSUME NEW S, NEW s \in Seq(S), NEW n \in Nat, n <= Len(s)
    PROVE  /\ SubSeq(s, 1, n) \in Seq(S)
           /\ Len(SubSeq(s, 1, n)) = n
           /\ \A i \in 1 .. n : SubSeq(s, 1, n)[i] = s[i]
           /\ IsPrefix(SubSeq(s, 1, n), s)
    <1>1. n \in Int /\ 1 \in Int /\ n - 1 + 1 = n /\ \A i \in 1 .. n : s[i] \in S
        OBVIOUS
    <1>2. /\ SubSeq(s, 1, n) \in Seq(S)
          /\ Len(SubSeq(s, 1, n)) = n
          /\ \A i \in 1 .. n : SubSeq(s, 1, n)[i] = s[i]
        BY <1>1, SubSeqProperties
    <1> DEFINE u == SubSeq(s, 1, n)
    <1> HIDE DEF u
    <1>3. u \in Seq(S) /\ Len(u) = n /\ \A i \in 1 .. n : u[i] = s[i]
        BY <1>2 DEF u
    <1>4. IsPrefix(u, s)
        BY <1>3, PrefixMeaning
    <1> QED
        BY <1>2, <1>4 DEF u

-----------------------------------------------------------------------------
(* What a chain says.                                                      *)

LEMMA LeastNumber ==
    ASSUME NEW T, T \subseteq Nat, T # {}
    PROVE  \E least \in T : \A n \in T : least <= n
    <1> DEFINE R == OpToRel(<, Nat)
    <1>1. IsWellFoundedOn(R, Nat)
        BY NatLessThanWellFounded
    <1> HIDE DEF R
    <1>2. PICK least \in T : \A n \in T : ~ (<<n, least>> \in R)
        BY <1>1, WFMin
    <1>3. \A n \in T : <<n, least>> \in R <=> n < least
        BY DEF R, OpToRel
    <1>4. \A n \in T : ~ (n < least) /\ n \in Nat /\ least \in Nat
        BY <1>2, <1>3
    <1> QED
        BY <1>4

\* The first source with an opinion decides.
LEMMA FirstDecides ==
    ASSUME NEW c, NEW f, NEW n \in Nat, Len(c) = n, NEW i \in 1 .. n, f[c[i]] # "none",
           \A j \in 1 .. i - 1 : f[c[j]] = "none"
    PROVE  Says(c, f) = f[c[i]]
    <1> DEFINE heard == { j \in 1 .. n : f[c[j]] # "none" }
    <1>1. i \in heard /\ \A j \in heard : i <= j
        OBVIOUS
    <1>2. heard \subseteq Int
        OBVIOUS
    <1>3. Says(c, f) = IF heard = {} THEN "none" ELSE f[c[Min(heard)]]
        BY DEF Says
    <1> HIDE DEF heard
    <1>4. Min(heard) = i
        <2>1. \E x \in heard : \A y \in heard : x <= y
            BY <1>1
        <2>2. Min(heard) \in heard /\ \A y \in heard : Min(heard) <= y
            BY <2>1 DEF Min
        <2> QED
            BY <1>1, <1>2, <2>2
    <1> QED
        BY <1>1, <1>3, <1>4

LEMMA NobodyHeard ==
    ASSUME NEW c, NEW f, \A i \in 1 .. Len(c) : f[c[i]] = "none"
    PROVE  Says(c, f) = "none"
    <1>1. { j \in 1 .. Len(c) : f[c[j]] # "none" } = {}
        OBVIOUS
    <1> QED
        BY <1>1 DEF Says

\* If somebody is heard, somebody is heard first.
LEMMA SomebodyFirst ==
    ASSUME NEW c, NEW f, NEW n \in Nat, Len(c) = n, NEW k \in 1 .. n, f[c[k]] # "none"
    PROVE  \E i \in 1 .. n : f[c[i]] # "none" /\ \A j \in 1 .. i - 1 : f[c[j]] = "none"
    <1> DEFINE heard == { i \in 1 .. n : f[c[i]] # "none" }
    <1>1. heard \subseteq Nat /\ heard # {}
        OBVIOUS
    <1>2. PICK i \in heard : \A j \in heard : i <= j
        BY <1>1, LeastNumber
    <1>3. i \in 1 .. n /\ f[c[i]] # "none"
        BY <1>2
    <1>4. ASSUME NEW j \in 1 .. i - 1 PROVE f[c[j]] = "none"
        <2>1. j \in 1 .. n /\ ~(i <= j)
            BY <1>3
        <2> QED
            BY <1>2, <2>1
    <1> QED
        BY <1>3, <1>4

LEMMA SaysFromFront ==
    ASSUME NEW S, NEW c \in Seq(S), NEW s \in S, NEW f
    PROVE  Says(<<s>> \o c, f) = IF f[s] # "none" THEN f[s] ELSE Says(c, f)
    <1> DEFINE d == <<s>> \o c
               n == Len(c)
               m == Len(d)
    <1>1. n \in Nat /\ m \in Nat /\ m = n + 1 /\ d[1] = s
        OBVIOUS
    <1>2. \A i \in 1 .. n : d[i + 1] = c[i]
        OBVIOUS
    <1>3. \A i \in 1 .. m : i = 1 \/ (i - 1 \in 1 .. n /\ d[i] = c[i - 1])
        <2> SUFFICES ASSUME NEW i \in 1 .. m, i # 1 PROVE i - 1 \in 1 .. n /\ d[i] = c[i - 1]
            OBVIOUS
        <2>1. i - 1 \in 1 .. n /\ (i - 1) + 1 = i
            BY <1>1
        <2> QED
            BY <1>2, <2>1
    <1>4. n = Len(c) /\ m = Len(d)
        OBVIOUS
    <1> HIDE DEF d, n, m
    <1> SUFFICES Says(d, f) = IF f[s] # "none" THEN f[s] ELSE Says(c, f)
        BY DEF d
    <1>5. CASE f[s] # "none"
        <2>1. 1 \in 1 .. m /\ f[d[1]] # "none" /\ \A j \in 1 .. 1 - 1 : f[d[j]] = "none"
            BY <1>1, <1>5
        <2>2. Says(d, f) = f[d[1]]
            BY <1>1, <1>4, <2>1, FirstDecides
        <2> QED
            BY <1>1, <1>5, <2>2
    <1>6. CASE f[s] = "none" /\ \A i \in 1 .. n : f[c[i]] = "none"
        <2>1. \A i \in 1 .. m : f[d[i]] = "none"
            BY <1>1, <1>3, <1>6
        <2>2. Says(d, f) = "none" /\ Says(c, f) = "none"
            BY <1>4, <1>6, <2>1, NobodyHeard
        <2> QED
            BY <1>6, <2>2
    <1>7. CASE f[s] = "none" /\ \E k \in 1 .. n : f[c[k]] # "none"
        <2>a. PICK q \in 1 .. n : f[c[q]] # "none"
            BY <1>7
        <2>1. \E i \in 1 .. n : f[c[i]] # "none" /\ \A j \in 1 .. i - 1 : f[c[j]] = "none"
            <3>1. n \in Nat /\ Len(c) = n
                BY <1>1, <1>4
            <3> QED
                BY <2>a, <3>1, SomebodyFirst
        <2>2. PICK i \in 1 .. n : f[c[i]] # "none" /\ \A j \in 1 .. i - 1 : f[c[j]] = "none"
            BY <2>1
        <2>3. Says(c, f) = f[c[i]]
            BY <1>1, <1>4, <2>2, FirstDecides
        <2> DEFINE k == i + 1
        <2>4. k \in 1 .. m /\ d[k] = c[i]
            BY <1>1, <1>2
        <2>5. ASSUME NEW j \in 1 .. k - 1 PROVE f[d[j]] = "none"
            <3>1. j \in 1 .. m /\ (j # 1 => j - 1 \in 1 .. i - 1)
                BY <1>1
            <3> QED
                BY <1>1, <1>3, <1>7, <2>2, <3>1
        <2>6. f[d[k]] # "none"
            BY <2>2, <2>4
        <2> HIDE DEF k
        <2>7. Says(d, f) = f[d[k]]
            BY <1>1, <1>4, <2>4, <2>5, <2>6, FirstDecides
        <2> QED
            BY <1>7, <2>3, <2>4, <2>7
    <1> QED
        BY <1>5, <1>6, <1>7

\* Only the opinions of the chain's own sources count.
LEMMA SaysOfSources ==
    ASSUME NEW S, NEW c \in Seq(S), NEW f, NEW g, \A i \in 1 .. Len(c) : f[c[i]] = g[c[i]]
    PROVE  Says(c, f) = Says(c, g)
    <1> DEFINE n == Len(c)
    <1>1. n \in Nat /\ \A i \in 1 .. n : f[c[i]] = g[c[i]]
        OBVIOUS
    <1> HIDE DEF n
    <1>2. CASE \A i \in 1 .. n : f[c[i]] = "none"
        <2>1. \A i \in 1 .. n : g[c[i]] = "none"
            BY <1>1, <1>2
        <2> QED
            BY <1>2, <2>1, NobodyHeard DEF n
    <1>3. CASE \E k \in 1 .. n : f[c[k]] # "none"
        <2>1. PICK i \in 1 .. n : f[c[i]] # "none" /\ \A j \in 1 .. i - 1 : f[c[j]] = "none"
            BY <1>1, <1>3, SomebodyFirst DEF n
        <2>2. \A j \in 1 .. i - 1 : j \in 1 .. n
            BY <1>1, <2>1
        <2>3. Says(c, f) = f[c[i]]
            BY <1>1, <2>1, FirstDecides DEF n
        <2>4. g[c[i]] # "none" /\ \A j \in 1 .. i - 1 : g[c[j]] = "none"
            BY <1>1, <2>1, <2>2
        <2>5. Says(c, g) = g[c[i]]
            BY <1>1, <2>1, <2>4, FirstDecides DEF n
        <2> QED
            BY <1>1, <2>1, <2>3, <2>5
    <1> QED
        BY <1>2, <1>3

-----------------------------------------------------------------------------
(* The line of directories from a root's top down to a directory.          *)

Top(root) == IF IsPrefix(Repo[root], root) /\ Repo[root] # <<>> THEN Repo[root] ELSE root

Line(root, d) == [i \in 1 .. Len(d) - Len(Top(root)) + 1 |-> SubSeq(d, 1, Len(Top(root)) + i - 1)]

Bottom(j) == IF IsPrefix(j.root, Terminal(j)) THEN Terminal(j) ELSE j.root

LEMMA AncestorsLine ==
    ASSUME NEW j
    PROVE  Ancestors(j.root, Terminal(j)) = Line(j.root, Bottom(j))
    BY DEF Ancestors, Line, Bottom, Top

LEMMA Paths ==
    /\ Dir \cup RootFile \subseteq Seq(STRING) \ {<<>>}
    /\ RootSet \subseteq Dir \cup RootFile
    /\ \A root \in RootSet : Top(root) \in Seq(STRING) /\ IsPrefix(Top(root), root)
    /\ \A j \in Job : j.root \in RootSet /\ j.path \in Dir \cup RootFile
    <1>1. Dir \cup RootFile \subseteq Seq(STRING) \ {<<>>}
        BY CacheAssumption
    <1>2. RootSet \subseteq Dir \cup RootFile
        BY CacheAssumption DEF RootSet
    <1>3. ASSUME NEW root \in RootSet PROVE Top(root) \in Seq(STRING) /\ IsPrefix(Top(root), root)
        <2>1. root \in Seq(STRING)
            BY <1>1, <1>2
        <2>2. IsPrefix(root, root)
            BY <2>1, PrefixReflexive
        <2>3. Repo[root] \in Dir \cup {<<>>}
            BY CacheAssumption
        <2>4. Repo[root] # <<>> => Repo[root] \in Seq(STRING)
            BY <1>1, <2>3
        <2> QED
            BY <2>1, <2>2, <2>4 DEF Top
    <1>4. \A j \in Job : j.root \in RootSet /\ j.path \in Dir \cup RootFile
        BY DEF Job
    <1> QED
        BY <1>1, <1>2, <1>3, <1>4

LEMMA LineShape ==
    ASSUME NEW root \in RootSet, NEW d \in Seq(STRING), Len(Top(root)) <= Len(d)
    PROVE  /\ Line(root, d) \in Seq(Seq(STRING))
           /\ Len(Line(root, d)) = Len(d) - Len(Top(root)) + 1
           /\ \A i \in 1 .. Len(Line(root, d)) :
                 /\ Line(root, d)[i] = SubSeq(d, 1, Len(Top(root)) + i - 1)
                 /\ Line(root, d)[i] \in Seq(STRING)
                 /\ Len(Line(root, d)[i]) = Len(Top(root)) + i - 1
                 /\ IsPrefix(Line(root, d)[i], d)
    <1> DEFINE t == Len(Top(root))
               n == Len(d) - t + 1
    <1>1. t \in Nat /\ Len(d) \in Nat /\ n \in Nat /\ n = Len(d) - t + 1
        BY Paths
    <1>2. Line(root, d) = [i \in 1 .. n |-> SubSeq(d, 1, t + i - 1)]
        BY DEF Line
    <1> HIDE DEF t, n
    <1>3. ASSUME NEW i \in 1 .. n
          PROVE  /\ SubSeq(d, 1, t + i - 1) \in Seq(STRING)
                 /\ Len(SubSeq(d, 1, t + i - 1)) = t + i - 1
                 /\ IsPrefix(SubSeq(d, 1, t + i - 1), d)
        <2>1. t + i - 1 \in Nat /\ t + i - 1 <= Len(d)
            BY <1>1
        <2> QED
            BY <2>1, Beginning
    <1>4. Line(root, d) \in Seq(Seq(STRING)) /\ Len(Line(root, d)) = n
        BY <1>1, <1>2, <1>3
    <1> QED
        BY <1>1, <1>2, <1>3, <1>4 DEF t, n

\* A member of a line ends a line of its own, which is the first part of it.
LEMMA LineOfMember ==
    ASSUME NEW root \in RootSet, NEW d \in Seq(STRING), Len(Top(root)) <= Len(d),
           NEW k \in 1 .. Len(Line(root, d))
    PROVE  /\ Len(Top(root)) <= Len(Line(root, d)[k])
           /\ Len(Line(root, Line(root, d)[k])) = k
           /\ \A i \in 1 .. k : Line(root, Line(root, d)[k])[i] = Line(root, d)[i]
    <1> DEFINE t == Len(Top(root))
               a == Line(root, d)[k]
               n == Len(Line(root, d))
    <1>1. t \in Nat /\ Len(d) \in Nat /\ n = Len(d) - t + 1
        BY Paths, LineShape
    <1>2. a \in Seq(STRING) /\ Len(a) = t + k - 1 /\ IsPrefix(a, d)
        BY LineShape
    <1>3. k \in 1 .. n /\ n \in Nat
        BY <1>1
    <1>4. \A i \in 1 .. n : Line(root, d)[i] = SubSeq(d, 1, t + i - 1)
                            /\ Line(root, d)[i] \in Seq(STRING)
                            /\ Len(Line(root, d)[i]) = t + i - 1
        BY LineShape
    <1> HIDE DEF a, t, n
    <1>5. t <= Len(a)
        BY <1>1, <1>2, <1>3
    <1>6. /\ Len(Line(root, a)) = Len(a) - t + 1
          /\ \A i \in 1 .. Len(Line(root, a)) : Line(root, a)[i] = SubSeq(a, 1, t + i - 1)
                                                /\ Line(root, a)[i] \in Seq(STRING)
                                                /\ Len(Line(root, a)[i]) = t + i - 1
        BY <1>2, <1>5, LineShape DEF t
    <1>7. Len(Line(root, a)) = k
        BY <1>1, <1>2, <1>3, <1>6
    <1>8. ASSUME NEW i \in 1 .. k PROVE Line(root, a)[i] = Line(root, d)[i]
        <2> DEFINE m == t + i - 1
                   u == SubSeq(a, 1, m)
                   v == SubSeq(d, 1, m)
        <2>1. m \in Nat /\ m <= Len(a) /\ m <= Len(d) /\ i \in 1 .. n
            BY <1>1, <1>2, <1>3
        <2> HIDE DEF m
        <2>2. u \in Seq(STRING) /\ Len(u) = m /\ \A j \in 1 .. m : u[j] = a[j]
            BY <1>2, <2>1, Beginning
        <2>3. v \in Seq(STRING) /\ Len(v) = m /\ \A j \in 1 .. m : v[j] = d[j]
            BY <2>1, Beginning
        <2>4. \A j \in 1 .. m : a[j] = d[j]
            BY <1>2, <2>1, PrefixMeaning
        <2> HIDE DEF u, v
        <2>5. u = v
            BY <2>2, <2>3, <2>4, SeqEqual
        <2>6. Line(root, a)[i] = u /\ Line(root, d)[i] = v
            BY <1>4, <1>6, <1>7, <2>1 DEF u, v, m
        <2> QED
            BY <2>5, <2>6
    <1> QED
        BY <1>5, <1>7, <1>8 DEF a, t

\* Backwards, the line of the next directory is that directory before the line.
LEMMA NextLine ==
    ASSUME NEW root \in RootSet, NEW d \in Seq(STRING), Len(Top(root)) <= Len(d),
           NEW k \in 1 .. Len(Line(root, d)) - 1
    PROVE  Reverse(Line(root, Line(root, d)[k + 1]))
             = <<Line(root, d)[k + 1]>> \o Reverse(Line(root, Line(root, d)[k]))
    <1> DEFINE n == Len(Line(root, d))
               S == Seq(STRING)
               a == Line(root, d)[k]
               b == Line(root, d)[k + 1]
               s == Reverse(Line(root, a))
               u == Reverse(Line(root, b))
    <1>1. n \in Nat
        BY Paths, LineShape
    <1>2. k \in 1 .. n /\ k + 1 \in 1 .. n
        BY <1>1
    <1>3. a \in S /\ b \in S
        BY <1>2, LineShape
    <1>4. Len(Top(root)) <= Len(a) /\ Len(Top(root)) <= Len(b)
        BY <1>2, LineOfMember
    <1>5. Line(root, a) \in Seq(S) /\ Len(Line(root, a)) = k
          /\ \A i \in 1 .. k : Line(root, a)[i] = Line(root, d)[i]
        BY <1>2, <1>3, <1>4, LineOfMember, LineShape
    <1>6. Line(root, b) \in Seq(S) /\ Len(Line(root, b)) = k + 1
          /\ \A i \in 1 .. k + 1 : Line(root, b)[i] = Line(root, d)[i]
        BY <1>2, <1>3, <1>4, LineOfMember, LineShape
    <1> HIDE DEF a, n, S
    <1>7. s \in Seq(S) /\ Len(s) = k /\ \A i \in 1 .. k : s[i] = Line(root, d)[k - i + 1]
        BY <1>1, <1>2, <1>5 DEF Reverse
    <1>8. u \in Seq(S) /\ Len(u) = k + 1 /\ \A i \in 1 .. k + 1 : u[i] = Line(root, d)[(k + 1) - i + 1]
        BY <1>1, <1>2, <1>6 DEF Reverse
    <1> DEFINE v == <<b>> \o s
    <1> HIDE DEF s, u, b
    <1>9. v \in Seq(S) /\ Len(v) = k + 1 /\ v[1] = b /\ \A i \in 1 .. k : v[i + 1] = s[i]
        BY <1>2, <1>3, <1>7
    <1> HIDE DEF v
    <1>10. ASSUME NEW i \in 1 .. k + 1 PROVE u[i] = v[i]
        <2>1. CASE i = 1
            BY <1>2, <1>8, <1>9, <2>1 DEF b
        <2>2. CASE i # 1
            <3>1. i - 1 \in 1 .. k /\ (i - 1) + 1 = i /\ k - (i - 1) + 1 = (k + 1) - i + 1
                BY <2>2
            <3>2. v[(i - 1) + 1] = s[i - 1]
                BY <1>9, <3>1
            <3>3. s[i - 1] = Line(root, d)[k - (i - 1) + 1]
                BY <1>7, <3>1
            <3>4. u[i] = Line(root, d)[(k + 1) - i + 1]
                BY <1>8
            <3> QED
                BY <3>1, <3>2, <3>3, <3>4
        <2> QED
            BY <2>1, <2>2
    <1>11. u = v
        BY <1>8, <1>9, <1>10, SeqEqual
    <1> QED
        BY <1>11 DEF u, v, s, a, b

LEMMA FirstLine ==
    ASSUME NEW root \in RootSet, NEW d \in Seq(STRING), Len(Top(root)) <= Len(d)
    PROVE  Reverse(Line(root, Line(root, d)[1])) = <<Line(root, d)[1]>>
    <1> DEFINE b == Line(root, d)[1]
    <1>1. 1 \in 1 .. Len(Line(root, d))
        BY Paths, LineShape
    <1>2. Len(Line(root, b)) = 1 /\ \A i \in 1 .. 1 : Line(root, b)[i] = Line(root, d)[i]
        BY <1>1, LineOfMember
    <1>3. Line(root, b)[1] = b
        BY <1>2
    <1> HIDE DEF b
    <1>4. Reverse(Line(root, b)) = <<b>>
        BY <1>2, <1>3 DEF Reverse
    <1> QED
        BY <1>4 DEF b

-----------------------------------------------------------------------------
(* The chains of the cache.                                                *)

ReadableLine(root, d) == \A i \in 1 .. Len(Line(root, d)) : "rules" \in Rules[Line(root, d)[i]]

\* A chain of a directory as Build leaves it: but for info/exclude, which may
\* be anywhere in it, it decides as the .gitignore files do from d up.
Sound(c, root, d) ==
    /\ c \in Seq(Source)
    /\ ReadableLine(root, d)
    /\ \A f \in [Source -> Opinion] :
          (Exclude[root] = "rules" => f[Info] = "none") => Says(c, f) = Says(Reverse(Line(root, d)), f)

\* A chain as Publish leaves it: it decides as a fresh one does.
Full(c, root, d) ==
    /\ c \in Seq(Source)
    /\ Exclude[root] # "fails"
    /\ ReadableLine(root, d)
    /\ \A f \in [Source -> Opinion] :
          Says(c, f) = Says((IF Exclude[root] = "rules" THEN <<Info>> ELSE <<>>)
                              \o Reverse(Line(root, d)), f)

LEMMA ReverseLine ==
    ASSUME NEW root \in RootSet, NEW d \in Seq(STRING), Len(Top(root)) <= Len(d)
    PROVE  Reverse(Line(root, d)) \in Seq(Seq(STRING))
    <1> DEFINE S == Seq(STRING)
    <1>1. Line(root, d) \in Seq(S)
        BY LineShape
    <1> HIDE DEF S
    <1>2. Reverse(Line(root, d)) \in Seq(S)
        BY <1>1 DEF Reverse
    <1> QED
        BY <1>2 DEF S

LEMMA FullIsSound ==
    ASSUME NEW root \in RootSet, NEW d \in Seq(STRING), Len(Top(root)) <= Len(d),
           NEW c, Full(c, root, d)
    PROVE  Sound(c, root, d)
    <1> DEFINE S == Seq(STRING) \cup {Info}
               s == Reverse(Line(root, d))
    <1>1. s \in Seq(S) /\ Info \in S
        BY ReverseLine, SeqMonotonic
    <1> HIDE DEF S, s
    <1>2. ASSUME NEW f \in [Source -> Opinion], Exclude[root] = "rules" => f[Info] = "none"
          PROVE  Says(c, f) = Says(s, f)
        <2>1. Says(c, f) = Says((IF Exclude[root] = "rules" THEN <<Info>> ELSE <<>>) \o s, f)
            BY DEF Full, s
        <2>2. CASE Exclude[root] = "rules"
            <3>1. Says(<<Info>> \o s, f) = IF f[Info] # "none" THEN f[Info] ELSE Says(s, f)
                BY <1>1, SaysFromFront
            <3> QED
                BY <1>2, <2>1, <2>2, <3>1
        <2>3. CASE Exclude[root] # "rules"
            <3>1. <<>> \o s = s
                BY <1>1
            <3> QED
                BY <2>1, <2>3, <3>1
        <2> QED
            BY <2>2, <2>3
    <1> QED
        BY <1>2 DEF Full, Sound, s

\* Publish: info/exclude in front makes a sound chain a full one.
LEMMA PublishedIsFull ==
    ASSUME NEW root \in RootSet, NEW d \in Seq(STRING), Len(Top(root)) <= Len(d),
           NEW c, Sound(c, root, d), Exclude[root] # "fails"
    PROVE  Full(IF Exclude[root] = "rules" THEN <<Info>> \o c ELSE c, root, d)
    <1> DEFINE S == Seq(STRING) \cup {Info}
               s == Reverse(Line(root, d))
               p == IF Exclude[root] = "rules" THEN <<Info>> \o c ELSE c
    <1>1. s \in Seq(S) /\ Info \in S
        BY ReverseLine, SeqMonotonic
    <1>2. c \in Seq(Source) /\ Info \in Source
        BY DEF Sound, Source
    <1>3. p \in Seq(Source)
        BY <1>2
    <1> HIDE DEF S, s
    <1>4. ASSUME NEW f \in [Source -> Opinion]
          PROVE  Says(p, f) = Says((IF Exclude[root] = "rules" THEN <<Info>> ELSE <<>>) \o s, f)
        <2>1. (Exclude[root] = "rules" => f[Info] = "none") => Says(c, f) = Says(s, f)
            BY DEF Sound, s
        <2>2. CASE Exclude[root] = "rules"
            <3>1. Says(<<Info>> \o s, f) = IF f[Info] # "none" THEN f[Info] ELSE Says(s, f)
                BY <1>1, SaysFromFront
            <3>2. Says(<<Info>> \o c, f) = IF f[Info] # "none" THEN f[Info] ELSE Says(c, f)
                BY <1>2, SaysFromFront
            <3> QED
                BY <2>1, <2>2, <3>1, <3>2
        <2>3. CASE Exclude[root] # "rules"
            <3>1. <<>> \o s = s
                BY <1>1
            <3> QED
                BY <2>1, <2>3, <3>1
        <2> QED
            BY <2>2, <2>3
    <1> HIDE DEF p
    <1>5. Full(p, root, d)
        BY <1>3, <1>4 DEF Full, Sound, s
    <1> QED
        BY <1>5 DEF p

\* Build: the rules of the next directory, before a sound chain.
LEMMA BuiltIsSound ==
    ASSUME NEW root \in RootSet, NEW d \in Seq(STRING), Len(Top(root)) <= Len(d),
           Line(root, d) \in Seq(Dir \cup RootFile),
           NEW k \in 0 .. Len(Line(root, d)) - 1,
           NEW c,
           IF k = 0 THEN c = <<>> ELSE Sound(c, root, Line(root, d)[k]),
           "rules" \in Rules[Line(root, d)[k + 1]]
    PROVE  Sound(<<Line(root, d)[k + 1]>> \o c, root, Line(root, d)[k + 1])
    <1> DEFINE S == Seq(STRING)
               n == Len(Line(root, d))
               b == Line(root, d)[k + 1]
               a == Line(root, d)[k]
               s == Reverse(Line(root, b))
               u == Reverse(Line(root, a))
    <1>a. n = Len(Line(root, d)) /\ n \in Nat
        BY Paths, LineShape
    <1>b. k \in 0 .. n - 1
        OBVIOUS
    <1>1. n \in Nat /\ k + 1 \in 1 .. n /\ (k # 0 => k \in 1 .. n /\ k \in 1 .. n - 1)
        <2> HIDE DEF n
        <2> QED
            BY <1>a, <1>b
    <1>2. b \in S /\ Len(Top(root)) <= Len(b) /\ Len(Line(root, b)) = k + 1
          /\ \A i \in 1 .. k + 1 : Line(root, b)[i] = Line(root, d)[i]
        BY <1>1, LineShape, LineOfMember
    <1>3. b \in Source
        BY <1>1 DEF Source
    <1>4. c \in Seq(Source)
        <2>1. (k = 0 => c = <<>>) /\ <<>> \in Seq(Source)
            OBVIOUS
        <2>2. k # 0 => c \in Seq(Source)
            BY DEF Sound
        <2> QED
            BY <2>1, <2>2
    <1>5. ASSUME k # 0
          PROVE  a \in S /\ Len(Top(root)) <= Len(a) /\ Len(Line(root, a)) = k
                 /\ \A i \in 1 .. k : Line(root, a)[i] = Line(root, d)[i]
        BY <1>1, <1>5, LineShape, LineOfMember
    <1>6. k = 0 => s = <<b>>
        BY FirstLine
    <1>7. k # 0 => s = <<b>> \o u /\ u \in Seq(S)
        BY <1>1, <1>5, NextLine, ReverseLine
    <1>8. k # 0 => Sound(c, root, a)
        OBVIOUS
    <1> HIDE DEF S, n, b, a, s, u
    <1>9. ReadableLine(root, b)
        <2> SUFFICES ASSUME NEW i \in 1 .. k + 1 PROVE "rules" \in Rules[Line(root, d)[i]]
            BY <1>2 DEF ReadableLine
        <2>1. CASE i = k + 1
            BY <2>1
        <2>2. CASE i # k + 1
            <3>1. k # 0 /\ i \in 1 .. k
                BY <2>2
            <3>2. Line(root, a)[i] = Line(root, d)[i] /\ i \in 1 .. Len(Line(root, a))
                BY <1>5, <3>1
            <3>3. ReadableLine(root, a)
                BY <1>8, <3>1 DEF Sound
            <3> QED
                BY <3>2, <3>3 DEF ReadableLine
        <2> QED
            BY <2>1, <2>2
    <1>10. <<b>> \o c \in Seq(Source)
        BY <1>3, <1>4
    <1>11. ASSUME NEW f \in [Source -> Opinion], Exclude[root] = "rules" => f[Info] = "none"
           PROVE  Says(<<b>> \o c, f) = Says(s, f)
        <2>1. Says(<<b>> \o c, f) = IF f[b] # "none" THEN f[b] ELSE Says(c, f)
            BY <1>3, <1>4, SaysFromFront
        <2>2. CASE k = 0
            <3>1. c = <<>>
                BY <2>2
            <3>2. <<b>> \o c = <<b>>
                BY <3>1
            <3> QED
                BY <1>6, <2>2, <3>2
        <2>3. CASE k # 0
            <3>a. b \in S /\ u \in Seq(S) /\ s = <<b>> \o u
                BY <1>2, <1>7, <2>3
            <3>1. Says(s, f) = IF f[b] # "none" THEN f[b] ELSE Says(u, f)
                BY <3>a, SaysFromFront
            <3>2. Says(c, f) = Says(u, f)
                BY <1>8, <1>11, <2>3 DEF Sound, u
            <3> QED
                BY <2>1, <3>1, <3>2
        <2> QED
            BY <2>2, <2>3
    <1>12. Sound(<<b>> \o c, root, b)
        BY <1>9, <1>10, <1>11 DEF Sound, s
    <1> QED
        BY <1>12 DEF b

-----------------------------------------------------------------------------
(* Who works where.  The paths that are in the pool or with a worker, of   *)
(* one root, lie beside one another: nobody looks up a path on the way to  *)
(* the path of another.                                                    *)

Busy == { w \in Worker : pc[w] \notin {"idle", "gone"} }

Apart(x, y) == x.root = y.root => ~IsPrefix(x.path, y.path) /\ ~IsPrefix(y.path, x.path)

Beside ==
    /\ \A i, j \in 1 .. Len(pool) : i # j => Apart(pool[i], pool[j])
    /\ \A v, w \in Busy : v # w => Apart(job[v], job[w])
    /\ \A i \in 1 .. Len(pool), w \in Busy : Apart(pool[i], job[w])

Rooted(j) == IsPrefix(j.root, j.path) /\ (j.path \in RootFile => j.path = j.root)

AllRooted ==
    /\ \A i \in 1 .. Len(pool) : Rooted(pool[i])
    /\ \A w \in Worker : Rooted(job[w])

\* Nothing is kept for what lies below the path.
Untouched(kept, j) ==
    \A d \in Dir \cup RootFile : IsPrefix(j.path, d) /\ d # j.path => kept[<<j.root, d>>] = {}

\* Nothing is kept under the path's own key.
Unasked(kept, j) == kept[<<j.root, Terminal(j)>>] = {}

Ahead ==
    /\ \A i \in 1 .. Len(pool) : Untouched(cache, pool[i]) /\ Unasked(cache, pool[i])
    /\ \A w \in Busy : Untouched(cache, job[w])
    /\ \A w \in Worker : pc[w] = "probe" /\ asking[w] = "self" => Unasked(cache, job[w])

\* Every chain of the cache is sound for its directory.
CacheSound ==
    \A root \in RootSet, d \in Dir \cup RootFile : \A c \in cache[<<root, d>>] :
        Len(Top(root)) <= Len(d) /\ Sound(c, root, d)

\* A worker has a sound chain for the directories behind it, k of them.
Along(j, left, chain) ==
    \E k \in 0 .. Len(Line(j.root, j.path)) :
        /\ left = SubSeq(Line(j.root, j.path), k + 1, Len(Line(j.root, j.path)))
        /\ IF k = 0 THEN chain = <<>> ELSE Sound(chain, j.root, Line(j.root, j.path)[k])

Chaining ==
    \A w \in Worker : pc[w] \in {"chain", "build"} => asking[w] = "self" /\ Along(job[w], todo[w], node[w])

\* What a lookup has left under its key, and answers with, is full.
Judged ==
    \A w \in Worker : pc[w] = "granted" \/ (asking[w] = "files" /\ pc[w] = "probe") =>
        /\ job[w].path \in Dir
        /\ \A c \in cache[KeyOf(w)] : Full(c, job[w].root, job[w].path)
        /\ pc[w] = "granted" => node[w] \in cache[KeyOf(w)]

ShareInv == HitInv /\ Beside /\ AllRooted /\ Ahead /\ CacheSound /\ Chaining /\ Judged

\* A lookup goes down the line of its path.
LEMMA JobLine ==
    ASSUME NEW j \in Job, Rooted(j)
    PROVE  /\ j.root \in RootSet /\ j.path \in Dir \cup RootFile /\ j.path \in Seq(STRING)
           /\ Len(Top(j.root)) <= Len(j.path)
           /\ Ancestors(j.root, Terminal(j)) = Line(j.root, j.path)
           /\ Line(j.root, j.path) \in Seq(Dir \cup RootFile)
           /\ Len(Line(j.root, j.path)) \in Nat \ {0}
           /\ Line(j.root, j.path)[Len(Line(j.root, j.path))] = j.path
           /\ j.path \in Dir => Terminal(j) = j.path
    <1>1. j.root \in RootSet /\ j.path \in Dir \cup RootFile
        BY Paths
    <1>2. j.path \in Seq(STRING) /\ j.path # <<>> /\ j.root \in Seq(STRING)
        BY <1>1, Paths
    <1>3. Top(j.root) \in Seq(STRING) /\ IsPrefix(Top(j.root), j.path)
        BY <1>1, <1>2, Paths, PrefixTransitive DEF Rooted
    <1>4. Len(Top(j.root)) <= Len(j.path)
        BY <1>2, <1>3, PrefixMeaning
    <1>5. j.path \in Dir => Terminal(j) = j.path
        BY DEF Terminal
    <1>6. Bottom(j) = j.path
        <2>1. CASE j.path \in Dir
            BY <1>5, <2>1 DEF Bottom, Rooted
        <2>2. CASE j.path \notin Dir
            <3>1. j.path = j.root /\ Terminal(j) = Front(j.path)
                BY <1>1, <2>2 DEF Rooted, Terminal
            <3> DEFINE m == Len(j.path) - 1
            <3>2. m \in Nat /\ m < Len(j.path)
                BY <1>2
            <3> HIDE DEF m
            <3>3. SubSeq(j.path, 1, m) \in Seq(STRING) /\ Len(SubSeq(j.path, 1, m)) = m
                BY <1>2, <3>2, Beginning
            <3>4. Terminal(j) = SubSeq(j.path, 1, m)
                BY <3>1 DEF Front, m
            <3> DEFINE front == Terminal(j)
            <3>a. front \in Seq(STRING) /\ Len(front) < Len(j.root)
                BY <3>1, <3>2, <3>3, <3>4
            <3> HIDE DEF front
            <3>b. ~ IsPrefix(j.root, front)
                <4>1. Len(front) \in Nat /\ Len(j.root) \in Nat /\ ~ (Len(j.root) <= Len(front))
                    BY <1>2, <3>a
                <4> QED
                    BY <1>2, <3>a, <4>1, PrefixMeaning
            <3>5. ~ IsPrefix(j.root, Terminal(j))
                BY <3>b DEF front
            <3> QED
                BY <3>1, <3>5 DEF Bottom
        <2> QED
            BY <2>1, <2>2
    <1>7. Ancestors(j.root, Terminal(j)) = Line(j.root, j.path)
        BY <1>6, AncestorsLine
    <1>8. Line(j.root, j.path) \in Seq(Dir \cup RootFile)
        BY <1>7, CacheAssumption
    <1> DEFINE n == Len(Line(j.root, j.path))
               t == Len(Top(j.root))
    <1>9. t \in Nat /\ Len(j.path) \in Nat /\ n = Len(j.path) - t + 1
        BY <1>1, <1>2, <1>3, <1>4, LineShape
    <1>10. n \in Nat \ {0} /\ n \in 1 .. n /\ t + n - 1 = Len(j.path)
        BY <1>4, <1>9
    <1>11. Line(j.root, j.path)[n] = SubSeq(j.path, 1, t + n - 1)
        BY <1>1, <1>2, <1>4, <1>10, LineShape
    <1>12. SubSeq(j.path, 1, Len(j.path)) = j.path
        BY <1>2, SubSeqFull
    <1> QED
        BY <1>1, <1>2, <1>4, <1>5, <1>7, <1>8, <1>10, <1>11, <1>12

\* A directory on the way to one path is neither the key of a path beside it
\* nor below that.
LEMMA Elsewhere ==
    ASSUME NEW x \in Job, NEW y \in Job, Rooted(x), Rooted(y), Apart(x, y), x.root = y.root,
           NEW d \in Seq(STRING), IsPrefix(d, y.path)
    PROVE  d # Terminal(x) /\ ~ IsPrefix(x.path, d)
    <1>1. /\ x.path \in Seq(STRING) /\ y.path \in Seq(STRING)
          /\ x.path \in Dir \cup RootFile
        BY JobLine
    <1>2. ~ IsPrefix(x.path, y.path)
        BY DEF Apart
    <1>3. ~ IsPrefix(x.path, d)
        BY <1>1, <1>2, PrefixTransitive
    <1>4. x.path \in Dir => Terminal(x) = x.path
        BY DEF Terminal
    <1>5. x.path \notin RootFile
        BY <1>2 DEF Rooted
    <1>6. IsPrefix(x.path, x.path)
        BY <1>1, PrefixReflexive
    <1> QED
        BY <1>1, <1>3, <1>4, <1>5, <1>6

\* What is left of a line.
LEMMA LeftOfLine ==
    ASSUME NEW S, NEW line \in Seq(S), NEW k \in 0 .. Len(line), NEW left,
           left = SubSeq(line, k + 1, Len(line))
    PROVE  /\ left = <<>> => k = Len(line)
           /\ left # <<>> => /\ k \in 0 .. Len(line) - 1
                             /\ Head(left) = line[k + 1]
                             /\ Tail(left) = SubSeq(line, (k + 1) + 1, Len(line))
    <1> DEFINE n == Len(line)
    <1>1. n \in Nat /\ n = Len(line) /\ k \in 0 .. n
        OBVIOUS
    <1>2. left = SubSeq(line, k + 1, n)
        OBVIOUS
    <1> HIDE DEF n
    <1>3. CASE k = n
        <2>1. left = <<>>
            BY <1>1, <1>2, <1>3, SubSeqEmpty
        <2> QED
            BY <1>1, <1>3, <2>1
    <1>4. CASE k # n
        <2>1. k + 1 \in 1 .. n /\ n \in k + 1 .. n /\ k \in 0 .. n - 1
            BY <1>1, <1>4
        <2>2. Head(left) = line[k + 1] /\ Tail(left) = SubSeq(line, (k + 1) + 1, n)
            BY <1>1, <1>2, <2>1, HeadTailOfSubSeq
        <2>3. left = <<line[k + 1]>> \o SubSeq(line, (k + 1) + 1, n)
            BY <1>1, <1>2, <2>1, SubSeqRecursiveFirst
        <2>4. SubSeq(line, (k + 1) + 1, n) \in Seq(S) /\ line[k + 1] \in S
            <3>1. \A i \in (k + 1) + 1 .. n : line[i] \in S
                BY <1>1
            <3>2. (k + 1) + 1 \in Int /\ n \in Int
                BY <1>1
            <3>3. line[k + 1] \in S
                BY <1>1, <2>1
            <3> QED
                BY <3>1, <3>2, <3>3, SubSeqProperties
        <2> DEFINE rest == SubSeq(line, (k + 1) + 1, n)
        <2> HIDE DEF rest
        <2>a. rest \in Seq(S) /\ line[k + 1] \in S /\ left = <<line[k + 1]>> \o rest
            BY <2>3, <2>4 DEF rest
        <2>5. left # <<>>
            <3>1. Len(<<line[k + 1]>> \o rest) = Len(rest) + 1 /\ Len(rest) \in Nat
                BY <2>a
            <3>2. Len(left) = Len(rest) + 1
                BY <2>a, <3>1
            <3>3. Len(<<>>) = 0 /\ Len(left) # 0
                BY <3>1, <3>2
            <3> QED
                BY <3>3
        <2> QED
            BY <1>1, <2>1, <2>2, <2>5
    <1> QED
        BY <1>3, <1>4

\* A sound chain goes into the cache for a directory on the way to the path of
\* the worker w: nobody else is disturbed.
LEMMA InsertOnTheWay ==
    ASSUME ShareInv, NEW w \in Busy, NEW d \in Dir \cup RootFile, IsPrefix(d, job[w].path),
           Len(Top(job[w].root)) <= Len(d),
           NEW chain, Sound(chain, job[w].root, d), Insert(<<job[w].root, d>>, chain)
    PROVE  /\ \A root \in RootSet, e \in Dir \cup RootFile : \A c \in cache'[<<root, e>>] :
                  Len(Top(root)) <= Len(e) /\ Sound(c, root, e)
           /\ \A i \in 1 .. Len(pool) : Untouched(cache', pool[i]) /\ Unasked(cache', pool[i])
           /\ \A v \in Busy : Untouched(cache', job[v])
           /\ \A v \in Busy \ {w} : cache'[KeyOf(v)] = cache[KeyOf(v)]
           /\ cache'[<<job[w].root, d>>] = {chain}
    <1> DEFINE key == <<job[w].root, d>>
    <1>1. /\ w \in Worker /\ Busy \subseteq Worker
          /\ \A v \in Worker : job[v] \in Job
          /\ \A i \in 1 .. Len(pool) : pool[i] \in Job
          /\ cache \in [Key -> SUBSET Seq(Source)]
        BY DEF Busy, ShareInv, HitInv, TypeInv, TypeOK
    <1>2. /\ \A v \in Worker : Rooted(job[v])
          /\ \A i \in 1 .. Len(pool) : Rooted(pool[i])
        BY DEF ShareInv, AllRooted
    <1>3. \A v \in Worker : KeyOf(v) \in Key /\ key \in Key
        BY <1>1, KeyType DEF ShareInv, HitInv
    <1>4. cache' = [cache EXCEPT ![key] = {chain}]
        BY DEF Insert
    <1>5. \A j \in Job : /\ <<j.root, Terminal(j)>> \in Key
                         /\ \A e \in Dir \cup RootFile : <<j.root, e>> \in Key
        BY Paths DEF Key
    <1>6. \A k \in Key : cache'[k] = IF k = key THEN {chain} ELSE cache[k]
        BY <1>1, <1>3, <1>4
    <1>7. d \in Seq(STRING)
        BY Paths
    <1>8. ASSUME NEW x \in Job, Rooted(x), Apart(x, job[w])
          PROVE  /\ <<x.root, Terminal(x)>> # key
                 /\ \A e \in Dir \cup RootFile : IsPrefix(x.path, e) => <<x.root, e>> # key
        <2>1. CASE x.root # job[w].root
            BY <2>1
        <2>2. CASE x.root = job[w].root
            <3>1. d # Terminal(x) /\ ~ IsPrefix(x.path, d)
                BY <1>1, <1>2, <1>7, <1>8, <2>2, Elsewhere
            <3> QED
                BY <3>1
        <2> QED
            BY <2>1, <2>2
    <1>9. ASSUME NEW x \in Job, Rooted(x), Apart(x, job[w])
          PROVE  /\ cache'[<<x.root, Terminal(x)>>] = cache[<<x.root, Terminal(x)>>]
                 /\ Untouched(cache, x) => Untouched(cache', x)
                 /\ Unasked(cache, x) => Unasked(cache', x)
        BY <1>5, <1>6, <1>8, <1>9 DEF Untouched, Unasked
    <1> HIDE DEF key
    <1>10. ASSUME NEW root \in RootSet, NEW e \in Dir \cup RootFile, NEW c \in cache'[<<root, e>>]
           PROVE  Len(Top(root)) <= Len(e) /\ Sound(c, root, e)
        <2>1. <<root, e>> \in Key
            BY Paths DEF Key
        <2>2. CASE <<root, e>> = key
            <3>1. root = job[w].root /\ e = d /\ c = chain
                BY <1>6, <2>1, <2>2 DEF key
            <3> QED
                BY <3>1
        <2>3. CASE <<root, e>> # key
            <3>1. c \in cache[<<root, e>>]
                BY <1>6, <2>1, <2>3
            <3> QED
                BY <3>1 DEF ShareInv, CacheSound
        <2> QED
            BY <2>2, <2>3
    <1>11. ASSUME NEW i \in 1 .. Len(pool)
           PROVE  Untouched(cache', pool[i]) /\ Unasked(cache', pool[i])
        <2>1. Apart(pool[i], job[w]) /\ Untouched(cache, pool[i]) /\ Unasked(cache, pool[i])
            BY DEF ShareInv, Beside, Ahead
        <2> QED
            BY <1>1, <1>2, <1>9, <2>1
    <1>12. Untouched(cache', job[w])
        <2> SUFFICES ASSUME NEW e \in Dir \cup RootFile, IsPrefix(job[w].path, e), e # job[w].path
                     PROVE  cache'[<<job[w].root, e>>] = {}
            BY DEF Untouched
        <2>1. cache[<<job[w].root, e>>] = {}
            BY DEF ShareInv, Ahead, Untouched
        <2>2. job[w].path \in Seq(STRING) /\ e \in Seq(STRING) /\ <<job[w].root, e>> \in Key
            BY <1>1, <1>2, <1>5, JobLine, Paths
        <2>3. e # d
            <3> SUFFICES ASSUME e = d PROVE FALSE
                OBVIOUS
            <3>1. Len(d) <= Len(job[w].path)
                BY <1>7, <2>2, PrefixMeaning
            <3> QED
                BY <2>2, <3>1, PrefixAntisymmetric
        <2>4. <<job[w].root, e>> # key
            BY <2>3 DEF key
        <2> QED
            BY <1>6, <2>1, <2>2, <2>4
    <1>13. ASSUME NEW v \in Busy \ {w}
           PROVE  Untouched(cache', job[v]) /\ cache'[KeyOf(v)] = cache[KeyOf(v)]
        <2>1. Apart(job[v], job[w]) /\ Untouched(cache, job[v])
            BY DEF ShareInv, Beside, Ahead
        <2> QED
            BY <1>1, <1>2, <1>9, <2>1 DEF KeyOf
    <1>14. cache'[<<job[w].root, d>>] = {chain}
        BY <1>1, <1>3, <1>6 DEF key
    <1> QED
        BY <1>10, <1>11, <1>12, <1>13, <1>14

ShareRest == Beside /\ AllRooted /\ Ahead /\ CacheSound /\ Chaining /\ Judged

LEMMA ShareFacts ==
    ASSUME ShareInv
    PROVE  /\ Beside /\ AllRooted /\ Ahead /\ CacheSound /\ Chaining /\ Judged
           /\ TypeInv /\ AnswerCached /\ FileLookupsHit
           /\ cache \in [Key -> SUBSET Seq(Source)]
           /\ pool \in Seq(Job)
           /\ pc \in [Worker -> {"idle", "probe", "chain", "build", "granted", "refused", "gone"}]
           /\ job \in [Worker -> Job]
           /\ asking \in [Worker -> {"self", "files"}]
           /\ todo \in [Worker -> Seq(Dir \cup RootFile)]
           /\ node \in [Worker -> Seq(Source)]
           /\ \A w \in Worker : job[w] \in Job /\ Rooted(job[w]) /\ KeyOf(w) \in Key
           /\ \A i \in 1 .. Len(pool) : pool[i] \in Job /\ Rooted(pool[i])
    <1>1. TypeInv /\ TypeOK
        BY DEF ShareInv, HitInv, TypeInv
    <1>2. \A w \in Worker : KeyOf(w) \in Key
        BY <1>1, KeyType
    <1> QED
        BY <1>1, <1>2 DEF ShareInv, HitInv, TypeOK, AllRooted

LEMMA TakeShares == ASSUME ShareInv, NEW w \in Worker, Take(w) PROVE ShareRest'
    <1> USE DEF Goto
    <1> DEFINE n == Len(pool)
    <1>1. n \in Nat \ {0} /\ pool \in Seq(Job)
        BY ShareFacts DEF Take
    <1>2. /\ pool' = Front(pool) /\ job' = [job EXCEPT ![w] = Last(pool)]
          /\ pc' = [pc EXCEPT ![w] = "probe"] /\ asking' = [asking EXCEPT ![w] = "self"]
          /\ cache' = cache /\ node' = node /\ todo' = todo /\ pc[w] = "idle"
        BY DEF Take
    <1>3. Len(pool') = n - 1 /\ \A i \in 1 .. n - 1 : pool'[i] = pool[i]
        <2> DEFINE m == n - 1
        <2>1. m \in Nat /\ m <= Len(pool) /\ pool' = SubSeq(pool, 1, m)
            BY <1>1, <1>2 DEF Front
        <2> HIDE DEF m
        <2>2. Len(pool') = m /\ \A i \in 1 .. m : pool'[i] = pool[i]
            BY <1>1, <2>1, Beginning
        <2> QED
            BY <2>2 DEF m
    <1>4. job'[w] = pool[n] /\ \A v \in Worker \ {w} : job'[v] = job[v] /\ pc'[v] = pc[v] /\ asking'[v] = asking[v]
        BY <1>2, ShareFacts DEF Last
    <1>5. pc'[w] = "probe" /\ asking'[w] = "self"
        BY <1>2, ShareFacts
    <1>6. Busy' = Busy \cup {w} /\ w \notin Busy /\ Busy \subseteq Worker
        BY <1>2, <1>4, <1>5 DEF Busy
    <1>7. n \in 1 .. n /\ \A i \in 1 .. n - 1 : i \in 1 .. n /\ i # n
        BY <1>1
    <1> HIDE DEF n
    <1>8. Beside'
        <2>1. \A i, j \in 1 .. Len(pool') : i # j => Apart(pool'[i], pool'[j])
            BY <1>3, <1>7, ShareFacts DEF Beside, n
        <2>2. ASSUME NEW u \in Busy', NEW v \in Busy', u # v PROVE Apart(job'[u], job'[v])
            <3>1. CASE u = w
                BY <1>4, <1>6, <1>7, <2>2, <3>1, ShareFacts DEF Beside, n
            <3>2. CASE v = w
                <4>1. Apart(pool[n], job[u])
                    BY <1>6, <1>7, <2>2, <3>2, ShareFacts DEF Beside, n
                <4>2. job'[u] = job[u] /\ job'[v] = pool[n]
                    BY <1>4, <1>6, <2>2, <3>2
                <4> QED
                    BY <4>1, <4>2 DEF Apart
            <3>3. CASE u # w /\ v # w
                BY <1>4, <1>6, <2>2, <3>3, ShareFacts DEF Beside
            <3> QED
                BY <3>1, <3>2, <3>3
        <2>3. ASSUME NEW i \in 1 .. Len(pool'), NEW v \in Busy' PROVE Apart(pool'[i], job'[v])
            <3>1. CASE v = w
                BY <1>3, <1>4, <1>7, <3>1, ShareFacts DEF Beside, n
            <3>2. CASE v # w
                BY <1>3, <1>4, <1>6, <1>7, <3>2, ShareFacts DEF Beside, n
            <3> QED
                BY <3>1, <3>2
        <2> QED
            BY <2>1, <2>2, <2>3 DEF Beside
    <1>9. AllRooted'
        BY <1>3, <1>4, <1>7, ShareFacts DEF AllRooted, n
    <1>10. Ahead'
        <2>1. \A i \in 1 .. Len(pool') : Untouched(cache', pool'[i]) /\ Unasked(cache', pool'[i])
            BY <1>2, <1>3, <1>7, ShareFacts DEF Ahead, n
        <2>2. Untouched(cache', job'[w]) /\ Unasked(cache', job'[w])
            BY <1>2, <1>4, <1>7, ShareFacts DEF Ahead, n
        <2>3. \A v \in Busy' : Untouched(cache', job'[v])
            BY <1>2, <1>4, <1>6, <2>2, ShareFacts DEF Ahead
        <2>4. \A v \in Worker : pc'[v] = "probe" /\ asking'[v] = "self" => Unasked(cache', job'[v])
            BY <1>2, <1>4, <2>2, ShareFacts DEF Ahead
        <2> QED
            BY <2>1, <2>3, <2>4 DEF Ahead
    <1>11. CacheSound'
        BY <1>2, ShareFacts DEF CacheSound
    <1>12. Chaining'
        BY <1>2, <1>4, <1>5, ShareFacts DEF Chaining
    <1>13. Judged'
        <2> SUFFICES ASSUME NEW v \in Worker, pc'[v] = "granted" \/ (asking'[v] = "files" /\ pc'[v] = "probe")
                     PROVE  /\ job'[v].path \in Dir
                            /\ \A c \in cache'[KeyOf(v)'] : Full(c, job'[v].root, job'[v].path)
                            /\ pc'[v] = "granted" => node'[v] \in cache'[KeyOf(v)']
            BY DEF Judged
        <2>1. v # w
            BY <1>5
        <2>2. KeyOf(v)' = KeyOf(v)
            BY <1>4, <2>1 DEF KeyOf
        <2> QED
            BY <1>2, <1>4, <2>1, <2>2, ShareFacts DEF Judged
    <1> QED
        BY <1>8, <1>9, <1>10, <1>11, <1>12, <1>13 DEF ShareRest

\* A step of one worker that leaves pool, jobs and cache alone.
LEMMA QuietStep ==
    ASSUME ShareInv, NEW w \in Worker, UNCHANGED <<cache, pool, job>>,
           Busy' \subseteq Busy,
           \A v \in Worker \ {w} : pc'[v] = pc[v] /\ asking'[v] = asking[v]
                                   /\ todo'[v] = todo[v] /\ node'[v] = node[v],
           ~ (pc'[w] = "probe" /\ asking'[w] = "self"),
           pc'[w] \in {"chain", "build"} => asking'[w] = "self" /\ Along(job[w], todo'[w], node'[w]),
           pc'[w] = "granted" \/ (asking'[w] = "files" /\ pc'[w] = "probe") =>
               /\ job[w].path \in Dir
               /\ \A c \in cache[KeyOf(w)] : Full(c, job[w].root, job[w].path)
               /\ pc'[w] = "granted" => node'[w] \in cache[KeyOf(w)]
    PROVE  ShareRest'
    <1>1. cache' = cache /\ pool' = pool /\ job' = job
        OBVIOUS
    <1>2. Beside'
        BY <1>1, ShareFacts DEF Beside
    <1>3. AllRooted'
        BY <1>1, ShareFacts DEF AllRooted
    <1>4. Ahead'
        BY <1>1, ShareFacts DEF Ahead
    <1>5. CacheSound'
        BY <1>1, ShareFacts DEF CacheSound
    <1>6. Chaining'
        BY <1>1, ShareFacts DEF Chaining
    <1>7. Judged'
        <2>1. \A v \in Worker : KeyOf(v)' = KeyOf(v)
            BY <1>1 DEF KeyOf
        <2> QED
            BY <1>1, <2>1, ShareFacts DEF Judged
    <1> QED
        BY <1>2, <1>3, <1>4, <1>5, <1>6, <1>7 DEF ShareRest

LEMMA ProbeShares == ASSUME ShareInv, NEW w \in Worker, Probe(w) PROVE ShareRest'
    <1> USE DEF Goto
    <1>1. pc[w] = "probe" /\ UNCHANGED <<cache, pool, job>> /\ asking' = asking
        BY DEF Probe
    <1>2. pc'[w] \in {"granted", "chain"}
        BY ShareFacts DEF Probe
    <1>3. \A v \in Worker \ {w} : pc'[v] = pc[v] /\ asking'[v] = asking[v]
                                  /\ todo'[v] = todo[v] /\ node'[v] = node[v]
        BY ShareFacts DEF Probe
    <1>4. Busy' \subseteq Busy
        BY <1>1, <1>3 DEF Busy
    <1>5. ASSUME pc'[w] \in {"chain", "build"}
          PROVE  asking'[w] = "self" /\ Along(job[w], todo'[w], node'[w])
        <2>1. cache[KeyOf(w)] = {} /\ node'[w] = <<>> /\ todo'[w] = Ancestors(job[w].root, Terminal(job[w]))
            BY <1>5, ShareFacts DEF Probe
        <2>2. asking[w] = "self"
            BY <1>1, <2>1, ShareFacts DEF AnswerCached
        <2> DEFINE line == Line(job[w].root, job[w].path)
        <2>3. line \in Seq(Dir \cup RootFile) /\ todo'[w] = line /\ Len(line) \in Nat
            BY <2>1, ShareFacts, JobLine
        <2>4. line = SubSeq(line, 0 + 1, Len(line)) /\ 0 \in 0 .. Len(line)
            <3> HIDE DEF line
            <3> QED
                BY <2>3, SubSeqFull
        <2> QED
            BY <1>1, <2>1, <2>2, <2>3, <2>4 DEF Along
    <1>6. ASSUME pc'[w] = "granted" \/ (asking'[w] = "files" /\ pc'[w] = "probe")
          PROVE  /\ job[w].path \in Dir
                 /\ \A c \in cache[KeyOf(w)] : Full(c, job[w].root, job[w].path)
                 /\ pc'[w] = "granted" => node'[w] \in cache[KeyOf(w)]
        <2>1. cache[KeyOf(w)] # {} /\ node'[w] = CHOOSE c \in cache[KeyOf(w)] : TRUE
            BY <1>2, <1>6, ShareFacts DEF Probe
        <2>2. node'[w] \in cache[KeyOf(w)]
            BY <2>1
        <2>3. asking[w] = "files"
            <3>1. asking[w] = "self" => cache[KeyOf(w)] = {}
                BY <1>1, ShareFacts DEF Ahead, Unasked, KeyOf
            <3> QED
                BY <2>1, <3>1, ShareFacts
        <2> QED
            BY <1>1, <2>2, <2>3, ShareFacts DEF Judged
    <1>7. ~ (pc'[w] = "probe" /\ asking'[w] = "self")
        BY <1>2
    <1> QED
        BY <1>1, <1>3, <1>4, <1>5, <1>6, <1>7, QuietStep

LEMMA ChainShares == ASSUME ShareInv, NEW w \in Worker, Chain(w) PROVE ShareRest'
    <1> USE DEF Goto
    <1> DEFINE root == job[w].root
               line == Line(root, job[w].path)
               d == Head(todo[w])
    <1>1. pc[w] = "chain" /\ UNCHANGED <<cache, pool, job>> /\ asking' = asking /\ todo[w] # <<>>
        BY DEF Chain
    <1>2. pc'[w] \in {"chain", "build"}
        BY ShareFacts DEF Chain
    <1>3. \A v \in Worker \ {w} : pc'[v] = pc[v] /\ asking'[v] = asking[v]
                                  /\ todo'[v] = todo[v] /\ node'[v] = node[v]
        BY ShareFacts DEF Chain
    <1>4. Busy' \subseteq Busy
        BY <1>1, <1>3 DEF Busy
    <1>5. asking[w] = "self" /\ Along(job[w], todo[w], node[w])
        BY <1>1, ShareFacts DEF Chaining
    <1>6. line \in Seq(Dir \cup RootFile) /\ root \in RootSet
        BY ShareFacts, JobLine
    <1>7. PICK k \in 0 .. Len(line) :
              /\ todo[w] = SubSeq(line, k + 1, Len(line))
              /\ IF k = 0 THEN node[w] = <<>> ELSE Sound(node[w], root, line[k])
        BY <1>5 DEF Along
    <1>8. /\ k \in 0 .. Len(line) - 1 /\ d = line[k + 1]
          /\ Tail(todo[w]) = SubSeq(line, (k + 1) + 1, Len(line))
        <2> HIDE DEF line
        <2> QED
            BY <1>1, <1>6, <1>7, LeftOfLine
    <1>9. Along(job[w], todo'[w], node'[w])
        <2>1. CASE cache[<<root, d>>] = {}
            <3>1. todo'[w] = todo[w] /\ node'[w] = node[w]
                BY <2>1, ShareFacts DEF Chain
            <3> QED
                BY <1>5, <3>1
        <2>2. CASE cache[<<root, d>>] # {}
            <3>1. todo'[w] = Tail(todo[w]) /\ node'[w] = CHOOSE c \in cache[<<root, d>>] : TRUE
                BY <2>2, ShareFacts DEF Chain
            <3>2. node'[w] \in cache[<<root, d>>]
                BY <2>2, <3>1
            <3>3. k + 1 \in 0 .. Len(line) /\ k + 1 # 0 /\ d \in Dir \cup RootFile
                <4> HIDE DEF line, d
                <4>1. k + 1 \in 1 .. Len(line)
                    BY <1>6, <1>8
                <4> QED
                    BY <1>6, <1>8, <4>1
            <3>4. Sound(node'[w], root, d)
                BY <1>6, <3>2, <3>3, ShareFacts DEF CacheSound
            <3> HIDE DEF d
            <3>5. \E m \in 0 .. Len(line) :
                      /\ todo'[w] = SubSeq(line, m + 1, Len(line))
                      /\ IF m = 0 THEN node'[w] = <<>> ELSE Sound(node'[w], root, line[m])
                BY <1>8, <3>1, <3>3, <3>4
            <3> QED
                BY <3>5 DEF Along
        <2> QED
            BY <2>1, <2>2
    <1>10. ~ (pc'[w] = "granted" \/ (asking'[w] = "files" /\ pc'[w] = "probe"))
           /\ ~ (pc'[w] = "probe" /\ asking'[w] = "self")
        BY <1>2
    <1>11. asking'[w] = "self"
        BY <1>1, <1>5
    <1> HIDE DEF root, line, d
    <1> QED
        BY <1>1, <1>3, <1>4, <1>9, <1>10, <1>11, QuietStep

LEMMA BuildShares == ASSUME ShareInv, NEW w \in Worker, Build(w) PROVE ShareRest'
    <1> USE DEF Goto
    <1> DEFINE root == job[w].root
               line == Line(root, job[w].path)
               d == Head(todo[w])
               chain == <<d>> \o node[w]
    <1>1. pc[w] = "build" /\ UNCHANGED <<pool, job>> /\ asking' = asking
        BY DEF Build
    <1>2. \A v \in Worker \ {w} : pc'[v] = pc[v] /\ asking'[v] = asking[v]
                                  /\ todo'[v] = todo[v] /\ node'[v] = node[v]
        BY ShareFacts DEF Build
    <1>3. asking[w] = "self" /\ Along(job[w], todo[w], node[w]) /\ todo[w] # <<>>
        BY <1>1, ShareFacts DEF Chaining, TypeInv, Building
    <1>4. pc'[w] \in {"refused", "chain"} /\ asking'[w] = "self"
        BY <1>1, <1>3, ShareFacts DEF Build
    <1>5. w \in Busy /\ Busy' = Busy
        BY <1>1, <1>2, <1>4 DEF Busy
    <1>6. CASE UNCHANGED <<cache, node, todo>> /\ Goto(w, "refused")
        <2>1. pc'[w] = "refused"
            BY <1>6, ShareFacts
        <2> HIDE DEF root, line, d, chain
        <2> QED
            BY <1>1, <1>2, <1>4, <1>5, <1>6, <2>1, QuietStep
    <1>7. CASE /\ "rules" \in Rules[d]
               /\ node' = [node EXCEPT ![w] = chain]
               /\ Insert(<<root, d>>, chain)
               /\ todo' = [todo EXCEPT ![w] = Tail(@)]
               /\ Goto(w, "chain")
        <2>1. /\ line \in Seq(Dir \cup RootFile) /\ root \in RootSet
              /\ job[w].path \in Seq(STRING) /\ Len(Top(root)) <= Len(job[w].path)
            BY ShareFacts, JobLine
        <2>2. PICK k \in 0 .. Len(line) :
                  /\ todo[w] = SubSeq(line, k + 1, Len(line))
                  /\ IF k = 0 THEN node[w] = <<>> ELSE Sound(node[w], root, line[k])
            BY <1>3 DEF Along
        <2>3. /\ k \in 0 .. Len(line) - 1 /\ d = line[k + 1]
              /\ Tail(todo[w]) = SubSeq(line, (k + 1) + 1, Len(line))
            <3> HIDE DEF line
            <3> QED
                BY <1>3, <2>1, <2>2, LeftOfLine
        <2>4. k + 1 \in 1 .. Len(line) /\ k + 1 \in 0 .. Len(line) /\ k + 1 # 0
              /\ d \in Dir \cup RootFile
            <3> HIDE DEF line, d
            <3>1. k + 1 \in 1 .. Len(line)
                BY <2>1, <2>3
            <3> QED
                BY <2>1, <2>3, <3>1
        <2>5. Sound(chain, root, d)
            <3>1. "rules" \in Rules[line[k + 1]]
                BY <1>7, <2>3
            <3>2. Sound(<<line[k + 1]>> \o node[w], root, line[k + 1])
                BY <2>1, <2>2, <2>3, <3>1, BuiltIsSound
            <3> QED
                BY <2>3, <3>2
        <2>6. IsPrefix(d, job[w].path) /\ Len(Top(root)) <= Len(d)
            BY <2>1, <2>3, <2>4, LineShape, LineOfMember
        <2>7. /\ \A r \in RootSet, e \in Dir \cup RootFile : \A c \in cache'[<<r, e>>] :
                    Len(Top(r)) <= Len(e) /\ Sound(c, r, e)
              /\ \A i \in 1 .. Len(pool) : Untouched(cache', pool[i]) /\ Unasked(cache', pool[i])
              /\ \A v \in Busy : Untouched(cache', job[v])
              /\ \A v \in Busy \ {w} : cache'[KeyOf(v)] = cache[KeyOf(v)]
            <3> HIDE DEF chain, d, line
            <3> QED
                BY <1>5, <1>7, <2>4, <2>5, <2>6, InsertOnTheWay
        <2>8. pc'[w] = "chain" /\ todo'[w] = Tail(todo[w]) /\ node'[w] = chain
            BY <1>7, ShareFacts
        <2>9. Along(job[w], todo'[w], node'[w])
            <3> HIDE DEF chain, d
            <3>1. \E m \in 0 .. Len(line) :
                      /\ todo'[w] = SubSeq(line, m + 1, Len(line))
                      /\ IF m = 0 THEN node'[w] = <<>> ELSE Sound(node'[w], root, line[m])
                BY <2>3, <2>4, <2>5, <2>8
            <3> QED
                BY <3>1 DEF Along
        <2>10. Beside' /\ AllRooted'
            BY <1>1, <1>5, ShareFacts DEF Beside, AllRooted
        <2> HIDE DEF chain, d, line, root
        <2>11. Ahead'
            <3>1. ASSUME NEW v \in Worker, pc'[v] = "probe", asking'[v] = "self"
                  PROVE  Unasked(cache', job'[v])
                <4>1. v # w /\ pc[v] = "probe" /\ asking[v] = "self"
                    BY <1>2, <2>8, <3>1
                <4>2. v \in Busy \ {w}
                    BY <4>1 DEF Busy
                <4>3. Unasked(cache, job[v])
                    BY <4>1, ShareFacts DEF Ahead
                <4> QED
                    BY <1>1, <2>7, <4>2, <4>3 DEF Unasked, KeyOf
            <3> QED
                BY <1>1, <1>5, <2>7, <3>1 DEF Ahead
        <2>12. CacheSound'
            BY <2>7 DEF CacheSound
        <2>13. Chaining'
            BY <1>1, <1>2, <1>4, <2>9, ShareFacts DEF Chaining
        <2>14. Judged'
            <3> SUFFICES ASSUME NEW v \in Worker, pc'[v] = "granted" \/ (asking'[v] = "files" /\ pc'[v] = "probe")
                         PROVE  /\ job'[v].path \in Dir
                                /\ \A c \in cache'[KeyOf(v)'] : Full(c, job'[v].root, job'[v].path)
                                /\ pc'[v] = "granted" => node'[v] \in cache'[KeyOf(v)']
                BY DEF Judged
            <3>1. v # w
                BY <2>8
            <3>2. v \in Busy \ {w}
                BY <1>2, <3>1 DEF Busy
            <3>3. KeyOf(v)' = KeyOf(v)
                BY <1>1 DEF KeyOf
            <3>4. cache'[KeyOf(v)] = cache[KeyOf(v)]
                BY <2>7, <3>2
            <3> QED
                BY <1>1, <1>2, <3>1, <3>3, <3>4, ShareFacts DEF Judged
        <2> QED
            BY <2>10, <2>11, <2>12, <2>13, <2>14 DEF ShareRest
    <1> QED
        BY <1>6, <1>7 DEF Build

LEMMA PublishShares == ASSUME ShareInv, NEW w \in Worker, Publish(w) PROVE ShareRest'
    <1> USE DEF Goto
    <1> DEFINE root == job[w].root
               path == job[w].path
               line == Line(root, path)
               chain == IF Exclude[root] = "rules" THEN <<Info>> \o node[w] ELSE node[w]
    <1>1. pc[w] = "chain" /\ UNCHANGED <<pool, job, todo>> /\ asking' = asking /\ todo[w] = <<>>
        BY DEF Publish
    <1>2. \A v \in Worker \ {w} : pc'[v] = pc[v] /\ asking'[v] = asking[v]
                                  /\ todo'[v] = todo[v] /\ node'[v] = node[v]
        BY ShareFacts DEF Publish
    <1>3. asking[w] = "self" /\ Along(job[w], todo[w], node[w])
        BY <1>1, ShareFacts DEF Chaining
    <1>4. pc'[w] \in {"refused", "granted"} /\ asking'[w] = "self"
        BY <1>1, <1>3, ShareFacts DEF Publish
    <1>5. w \in Busy /\ Busy' = Busy
        BY <1>1, <1>2, <1>4 DEF Busy
    <1>6. CASE Exclude[root] = "fails"
        <2>1. pc'[w] = "refused" /\ UNCHANGED <<cache, node>>
            BY <1>6, ShareFacts DEF Publish
        <2> HIDE DEF root, path, line, chain
        <2> QED
            BY <1>1, <1>2, <1>4, <1>5, <2>1, QuietStep
    <1>7. CASE Exclude[root] # "fails"
        <2>1. /\ line \in Seq(Dir \cup RootFile) /\ root \in RootSet
              /\ path \in Seq(STRING) /\ path \in Dir \cup RootFile /\ Len(Top(root)) <= Len(path)
              /\ Len(line) \in Nat \ {0} /\ line[Len(line)] = path
              /\ path \in Dir => Terminal(job[w]) = path
            BY ShareFacts, JobLine
        <2>2. Sound(node[w], root, path)
            <3>1. PICK k \in 0 .. Len(line) :
                      /\ todo[w] = SubSeq(line, k + 1, Len(line))
                      /\ IF k = 0 THEN node[w] = <<>> ELSE Sound(node[w], root, line[k])
                BY <1>3 DEF Along
            <3>2. k = Len(line)
                <4> HIDE DEF line
                <4> QED
                    BY <1>1, <2>1, <3>1, LeftOfLine
            <3> QED
                BY <2>1, <3>1, <3>2
        <2>3. path \in Dir
            <3>1. Len(line) \in 1 .. Len(line)
                BY <2>1
            <3>2. "rules" \in Rules[line[Len(line)]]
                BY <2>2, <3>1 DEF Sound, ReadableLine
            <3>3. "rules" \in Rules[path]
                BY <2>1, <3>2
            <3>4. \A p \in RootFile : Rules[p] = {"fails"}
                BY CacheAssumption
            <3> QED
                BY <2>1, <3>3, <3>4
        <2>4. Full(chain, root, path) /\ Sound(chain, root, path)
            BY <1>7, <2>1, <2>2, PublishedIsFull, FullIsSound
        <2>5. KeyOf(w) = <<root, path>> /\ IsPrefix(path, path)
            BY <2>1, <2>3, PrefixReflexive DEF KeyOf
        <2>6. pc'[w] = "granted" /\ node'[w] = chain /\ Insert(<<root, path>>, chain)
            BY <1>7, <2>5, ShareFacts DEF Publish
        <2>7. /\ \A r \in RootSet, e \in Dir \cup RootFile : \A c \in cache'[<<r, e>>] :
                    Len(Top(r)) <= Len(e) /\ Sound(c, r, e)
              /\ \A i \in 1 .. Len(pool) : Untouched(cache', pool[i]) /\ Unasked(cache', pool[i])
              /\ \A v \in Busy : Untouched(cache', job[v])
              /\ \A v \in Busy \ {w} : cache'[KeyOf(v)] = cache[KeyOf(v)]
              /\ cache'[<<root, path>>] = {chain}
            <3> HIDE DEF chain, line
            <3> QED
                BY <1>5, <2>1, <2>4, <2>5, <2>6, InsertOnTheWay
        <2>10. Beside' /\ AllRooted'
            BY <1>1, <1>5, ShareFacts DEF Beside, AllRooted
        <2> HIDE DEF chain, line
        <2>11. Ahead'
            <3>1. ASSUME NEW v \in Worker, pc'[v] = "probe", asking'[v] = "self"
                  PROVE  Unasked(cache', job'[v])
                <4>1. v # w /\ pc[v] = "probe" /\ asking[v] = "self"
                    BY <1>2, <2>6, <3>1
                <4>2. v \in Busy \ {w}
                    BY <4>1 DEF Busy
                <4>3. Unasked(cache, job[v])
                    BY <4>1, ShareFacts DEF Ahead
                <4> QED
                    BY <1>1, <2>7, <4>2, <4>3 DEF Unasked, KeyOf
            <3> QED
                BY <1>1, <1>5, <2>7, <3>1 DEF Ahead
        <2>12. CacheSound'
            BY <2>7 DEF CacheSound
        <2>13. Chaining'
            BY <1>1, <1>2, <2>6, ShareFacts DEF Chaining
        <2>14. Judged'
            <3> SUFFICES ASSUME NEW v \in Worker, pc'[v] = "granted" \/ (asking'[v] = "files" /\ pc'[v] = "probe")
                         PROVE  /\ job'[v].path \in Dir
                                /\ \A c \in cache'[KeyOf(v)'] : Full(c, job'[v].root, job'[v].path)
                                /\ pc'[v] = "granted" => node'[v] \in cache'[KeyOf(v)']
                BY DEF Judged
            <3>1. KeyOf(v)' = KeyOf(v)
                BY <1>1 DEF KeyOf
            <3>2. CASE v = w
                BY <1>1, <2>3, <2>4, <2>5, <2>6, <2>7, <3>1, <3>2
            <3>3. CASE v # w
                <4>1. v \in Busy \ {w}
                    BY <1>2, <3>3 DEF Busy
                <4>2. cache'[KeyOf(v)] = cache[KeyOf(v)]
                    BY <2>7, <4>1
                <4> QED
                    BY <1>1, <1>2, <3>1, <3>3, <4>2, ShareFacts DEF Judged
            <3> QED
                BY <3>2, <3>3
        <2> QED
            BY <2>10, <2>11, <2>12, <2>13, <2>14 DEF ShareRest
    <1> QED
        BY <1>6, <1>7

LEMMA EnterShares == ASSUME ShareInv, NEW w \in Worker, Enter(w) PROVE ShareRest'
    <1> USE DEF Goto
    <1>1. pc[w] = "granted" /\ UNCHANGED <<cache, pool, job, todo, node>>
        BY DEF Enter
    <1>2. pc'[w] = "idle" \/ (pc'[w] = "probe" /\ asking'[w] = "files")
        BY ShareFacts DEF Enter
    <1>3. \A v \in Worker \ {w} : pc'[v] = pc[v] /\ asking'[v] = asking[v]
                                  /\ todo'[v] = todo[v] /\ node'[v] = node[v]
        BY ShareFacts DEF Enter
    <1>4. Busy' \subseteq Busy
        BY <1>1, <1>3 DEF Busy
    <1>5. job[w].path \in Dir /\ \A c \in cache[KeyOf(w)] : Full(c, job[w].root, job[w].path)
        BY <1>1, ShareFacts DEF Judged
    <1> QED
        BY <1>1, <1>2, <1>3, <1>4, <1>5, QuietStep

LEMMA RefuseShares == ASSUME ShareInv, NEW w \in Worker, Refuse(w) PROVE ShareRest'
    <1> USE DEF Goto
    <1>1. pc[w] = "refused" /\ UNCHANGED <<cache, pool, job, todo, node, asking>>
        BY DEF Refuse
    <1>2. pc'[w] \in {"idle", "gone"}
        BY ShareFacts DEF Refuse
    <1>3. \A v \in Worker \ {w} : pc'[v] = pc[v] /\ asking'[v] = asking[v]
                                  /\ todo'[v] = todo[v] /\ node'[v] = node[v]
        BY ShareFacts DEF Refuse
    <1>4. Busy' \subseteq Busy
        BY <1>1, <1>3 DEF Busy
    <1> QED
        BY <1>1, <1>2, <1>3, <1>4, QuietStep

\* The directories in a directory lie beside one another, and beside whatever
\* lies beside the directory.
LEMMA Handed ==
    ASSUME NEW x \in Job, x.path \in Dir, Rooted(x),
           NEW i \in 1 .. Len(Subdirs[x.path]),
           NEW y, y = [root |-> x.root, path |-> Subdirs[x.path][i]]
    PROVE  /\ y \in Job /\ Rooted(y) /\ y.path \in Dir /\ Terminal(y) = y.path
           /\ \A z \in Job : Apart(x, z) \/ Apart(z, x) => Apart(y, z) /\ Apart(z, y)
           /\ \A kept : Untouched(kept, x) => Untouched(kept, y) /\ Unasked(kept, y)
           /\ \A j \in 1 .. Len(Subdirs[x.path]) :
                 i # j => Apart(y, [root |-> x.root, path |-> Subdirs[x.path][j]])
    <1> DEFINE d == x.path
               s == Subdirs[d]
    <1>1. s \in Seq(Dir) /\ \A j, k \in 1 .. Len(s) :
              /\ IsPrefix(d, s[j]) /\ Len(s[j]) = Len(d) + 1
              /\ s[j] = s[k] => j = k
        BY CacheAssumption
    <1>2. x.root \in RootSet /\ d \in Seq(STRING) /\ x.root \in Seq(STRING)
        BY Paths
    <1>3. \A j \in 1 .. Len(s) : s[j] \in Dir /\ s[j] \in Seq(STRING)
        BY <1>1, Paths
    <1> HIDE DEF s
    <1>4. y.root = x.root /\ y.path = s[i] /\ y \in Job /\ i \in 1 .. Len(s)
        BY <1>2, <1>3 DEF Job, s
    <1>5. /\ y.path \in Seq(STRING) /\ y.path \in Dir
          /\ IsPrefix(d, y.path) /\ Len(y.path) = Len(d) + 1
        BY <1>1, <1>3, <1>4
    <1>6. Rooted(y)
        <2>1. IsPrefix(y.root, y.path)
            BY <1>2, <1>4, <1>5, PrefixTransitive DEF Rooted
        <2>2. y.path \notin RootFile
            BY <1>5, CacheAssumption
        <2> QED
            BY <2>1, <2>2 DEF Rooted
    <1>7. Terminal(y) = y.path
        BY <1>5 DEF Terminal
    <1>8. ASSUME NEW z \in Job, Apart(x, z) \/ Apart(z, x) PROVE Apart(y, z) /\ Apart(z, y)
        <2> SUFFICES ASSUME x.root = z.root PROVE ~ IsPrefix(y.path, z.path) /\ ~ IsPrefix(z.path, y.path)
            BY <1>4 DEF Apart
        <2>1. ~ IsPrefix(d, z.path) /\ ~ IsPrefix(z.path, d)
            BY <1>8 DEF Apart
        <2>2. z.path \in Seq(STRING)
            BY Paths
        <2>3. ~ IsPrefix(y.path, z.path)
            BY <1>2, <1>5, <2>1, <2>2, PrefixTransitive
        <2>4. ASSUME IsPrefix(z.path, y.path) PROVE FALSE
            <3>1. Len(d) <= Len(z.path) \/ Len(z.path) <= Len(d)
                BY <1>2, <2>2
            <3> QED
                BY <1>2, <1>5, <2>1, <2>2, <2>4, <3>1, PrefixLinear
        <2> QED
            BY <2>3, <2>4
    <1>9. ASSUME NEW kept, Untouched(kept, x) PROVE Untouched(kept, y) /\ Unasked(kept, y)
        <2>1. y.path # d
            BY <1>2, <1>5
        <2>2. Unasked(kept, y)
            BY <1>4, <1>5, <1>7, <1>9, <2>1 DEF Untouched, Unasked
        <2>3. ASSUME NEW e \in Dir \cup RootFile, IsPrefix(y.path, e), e # y.path
              PROVE  kept[<<y.root, e>>] = {}
            <3>1. e \in Seq(STRING)
                BY Paths
            <3>2. IsPrefix(d, e)
                BY <1>2, <1>5, <2>3, <3>1, PrefixTransitive
            <3>3. e # d
                <4>1. Len(y.path) <= Len(e)
                    BY <1>5, <2>3, <3>1, PrefixMeaning
                <4> QED
                    BY <1>2, <1>5, <4>1
            <3> QED
                BY <1>4, <1>9, <3>2, <3>3 DEF Untouched
        <2> QED
            BY <2>2, <2>3 DEF Untouched
    <1>10. ASSUME NEW j \in 1 .. Len(s), i # j
           PROVE  Apart(y, [root |-> x.root, path |-> s[j]])
        <2> DEFINE v == s[j]
        <2>1. v \in Seq(STRING) /\ Len(v) = Len(y.path) /\ v # y.path
            BY <1>1, <1>3, <1>4, <1>5, <1>10
        <2> HIDE DEF v
        <2>2. ~ IsPrefix(v, y.path) /\ ~ IsPrefix(y.path, v)
            <3>1. Len(y.path) <= Len(v) /\ Len(v) <= Len(y.path)
                BY <1>5, <2>1
            <3> QED
                BY <1>5, <2>1, <3>1, PrefixAntisymmetric
        <2> QED
            BY <2>2 DEF Apart, v
    <1> QED
        BY <1>4, <1>5, <1>6, <1>7, <1>8, <1>9, <1>10 DEF s

LEMMA ScanShares == ASSUME ShareInv, NEW w \in Worker, Scan(w) PROVE ShareRest'
    <1> USE DEF Goto
    <1>1. pc[w] = "granted" /\ asking[w] = "files" /\ UNCHANGED <<cache, job, asking, todo, node>>
        BY DEF Scan
    <1>2. \A v \in Worker \ {w} : pc'[v] = pc[v]
        BY ShareFacts DEF Scan
    <1>3. job[w].path \in Dir /\ \A c \in cache[KeyOf(w)] : Full(c, job[w].root, job[w].path)
        BY <1>1, ShareFacts DEF Judged
    <1>4. w \in Busy /\ Busy \subseteq Worker
        BY <1>1 DEF Busy
    <1>5. CASE Goto(w, "probe") /\ UNCHANGED pool
        <2>1. pc'[w] = "probe"
            BY <1>5, ShareFacts
        <2>2. Busy' \subseteq Busy
            BY <1>2, <1>4 DEF Busy
        <2> QED
            BY <1>1, <1>2, <1>3, <1>5, <2>1, <2>2, QuietStep
    <1> DEFINE s == Subdirs[job[w].path]
               found == [i \in 1 .. Len(s) |-> [root |-> job[w].root, path |-> s[i]]]
    <1>6. CASE pool' = pool \o found /\ Goto(w, "idle")
        <2>1. pc'[w] = "idle"
            BY <1>6, ShareFacts
        <2>2. Busy' = Busy \ {w}
            BY <1>2, <1>4, <2>1 DEF Busy
        <2>3. s \in Seq(Dir) /\ Len(s) \in Nat /\ job[w].root \in RootSet
            BY <1>3, <1>4, ShareFacts, CacheAssumption, Paths
        <2>4. found \in Seq(Job) /\ Len(found) = Len(s)
            BY <2>3 DEF Job
        <2>5. \A k \in 1 .. Len(s) : found[k] = [root |-> job[w].root, path |-> s[k]]
            OBVIOUS
        <2> DEFINE n == Len(pool)
                   m == Len(s)
        <2>6. n \in Nat /\ m \in Nat /\ Len(pool') = n + m
              /\ \A i \in 1 .. n + m : pool'[i] = IF i <= n THEN pool[i] ELSE found[i - n]
            <3>1. pool \in Seq(Job) /\ found \in Seq(Job) /\ Len(found) = m /\ m \in Nat
                BY <2>3, <2>4, ShareFacts
            <3> HIDE DEF found, m
            <3>2. /\ Len(pool \o found) = Len(pool) + Len(found)
                  /\ \A i \in 1 .. Len(pool) + Len(found) : (pool \o found)[i] =
                        IF i <= Len(pool) THEN pool[i] ELSE found[i - Len(pool)]
                BY <3>1, ConcatProperties
            <3> QED
                BY <1>6, <3>1, <3>2
        <2> HIDE DEF found
        <2>7. ASSUME NEW k \in 1 .. m
              PROVE  /\ found[k] \in Job /\ Rooted(found[k])
                     /\ \A z \in Job : Apart(job[w], z) \/ Apart(z, job[w]) =>
                            Apart(found[k], z) /\ Apart(z, found[k])
                     /\ Untouched(cache, found[k]) /\ Unasked(cache, found[k])
                     /\ \A j \in 1 .. m : k # j => Apart(found[k], found[j])
            <3>1. job[w] \in Job /\ Rooted(job[w]) /\ Untouched(cache, job[w])
                BY <1>4, ShareFacts DEF Ahead
            <3>2. /\ found[k] \in Job /\ Rooted(found[k])
                  /\ \A z \in Job : Apart(job[w], z) \/ Apart(z, job[w]) =>
                            Apart(found[k], z) /\ Apart(z, found[k])
                  /\ \A kept : Untouched(kept, job[w]) => Untouched(kept, found[k]) /\ Unasked(kept, found[k])
                  /\ \A j \in 1 .. m : k # j => Apart(found[k], [root |-> job[w].root, path |-> s[j]])
                <4>1. /\ job[w].path \in Dir /\ k \in 1 .. Len(Subdirs[job[w].path])
                      /\ found[k] = [root |-> job[w].root, path |-> Subdirs[job[w].path][k]]
                    BY <1>3, <2>5
                <4> QED
                    BY <3>1, <4>1, Handed
            <3> QED
                BY <2>5, <3>1, <3>2
        <2> HIDE DEF n, m, s
        <2>8. \A i \in 1 .. n + m : \/ i \in 1 .. n /\ pool'[i] = pool[i]
                                    \/ i - n \in 1 .. m /\ pool'[i] = found[i - n]
            BY <2>6
        <2>9. ASSUME NEW i \in 1 .. n, NEW k \in 1 .. m
              PROVE  Apart(pool[i], found[k]) /\ Apart(found[k], pool[i])
            <3>1. pool[i] \in Job /\ Apart(pool[i], job[w])
                BY <1>4, ShareFacts DEF Beside, n
            <3> QED
                BY <2>7, <3>1
        <2>10. Beside'
            <3>1. ASSUME NEW i \in 1 .. n + m, NEW j \in 1 .. n + m, i # j
                  PROVE  Apart(pool'[i], pool'[j])
                <4>1. CASE i \in 1 .. n /\ j \in 1 .. n /\ pool'[i] = pool[i] /\ pool'[j] = pool[j]
                    BY <3>1, <4>1, ShareFacts DEF Beside, n
                <4>2. CASE i \in 1 .. n /\ pool'[i] = pool[i] /\ j - n \in 1 .. m /\ pool'[j] = found[j - n]
                    BY <2>9, <4>2
                <4>3. CASE j \in 1 .. n /\ pool'[j] = pool[j] /\ i - n \in 1 .. m /\ pool'[i] = found[i - n]
                    BY <2>9, <4>3
                <4>4. CASE /\ i - n \in 1 .. m /\ pool'[i] = found[i - n]
                           /\ j - n \in 1 .. m /\ pool'[j] = found[j - n]
                    <5>1. i - n # j - n
                        BY <2>6, <3>1
                    <5> QED
                        BY <2>7, <4>4, <5>1
                <4> QED
                    BY <2>8, <4>1, <4>2, <4>3, <4>4
            <3>2. \A u, v \in Busy' : u # v => Apart(job'[u], job'[v])
                BY <1>1, <2>2, ShareFacts DEF Beside
            <3>3. ASSUME NEW i \in 1 .. n + m, NEW v \in Busy' PROVE Apart(pool'[i], job'[v])
                <4>1. v \in Busy /\ v # w /\ job'[v] = job[v] /\ job[v] \in Job
                    BY <1>1, <1>4, <2>2, ShareFacts
                <4>2. CASE i \in 1 .. n /\ pool'[i] = pool[i]
                    BY <4>1, <4>2, ShareFacts DEF Beside, n
                <4>3. CASE i - n \in 1 .. m /\ pool'[i] = found[i - n]
                    <5>1. Apart(job[w], job[v])
                        BY <1>4, <4>1, ShareFacts DEF Beside
                    <5> QED
                        BY <2>7, <4>1, <4>3, <5>1
                <4> QED
                    BY <2>8, <4>2, <4>3
            <3> QED
                BY <2>6, <3>1, <3>2, <3>3 DEF Beside
        <2>11. AllRooted'
            BY <1>1, <2>6, <2>7, <2>8, ShareFacts DEF AllRooted, n
        <2>12. Ahead'
            <3>1. \A i \in 1 .. n + m : Untouched(cache', pool'[i]) /\ Unasked(cache', pool'[i])
                BY <1>1, <2>7, <2>8, ShareFacts DEF Ahead, n
            <3>2. \A v \in Busy' : Untouched(cache', job'[v])
                BY <1>1, <2>2, ShareFacts DEF Ahead
            <3>3. \A v \in Worker : pc'[v] = "probe" /\ asking'[v] = "self" => Unasked(cache', job'[v])
                BY <1>1, <1>2, <2>1, ShareFacts DEF Ahead
            <3> QED
                BY <2>6, <3>1, <3>2, <3>3 DEF Ahead
        <2>13. CacheSound'
            BY <1>1, ShareFacts DEF CacheSound
        <2>14. Chaining'
            BY <1>1, <1>2, <2>1, ShareFacts DEF Chaining
        <2>15. Judged'
            <3>1. \A v \in Worker : KeyOf(v)' = KeyOf(v)
                BY <1>1 DEF KeyOf
            <3> QED
                BY <1>1, <1>2, <2>1, <3>1, ShareFacts DEF Judged
        <2> QED
            BY <2>10, <2>11, <2>12, <2>13, <2>14, <2>15 DEF ShareRest
    <1> QED
        BY <1>5, <1>6 DEF Scan

LEMMA InitShares == ASSUME EachRootOnce, Init PROVE ShareInv
    <1>1. TypeInv /\ HitInv
        BY InitType DEF Init, HitInv, AnswerCached, FileLookupsHit
    <1>2. Len(pool) = Len(Roots) /\ Len(Roots) \in Nat \ {0}
          /\ \A i \in 1 .. Len(pool) : pool[i].root = Roots[i] /\ pool[i].path = Roots[i]
        BY CacheAssumption DEF Init
    <1>3. /\ Busy = {} /\ \A w \in Worker : pc[w] = "idle" /\ job[w] = FirstJob
          /\ \A k \in Key : cache[k] = {}
        BY DEF Init, Busy
    <1>4. \A i \in 1 .. Len(Roots) : Roots[i] \in RootSet /\ IsPrefix(Roots[i], Roots[i])
        BY Paths, PrefixReflexive DEF RootSet
    <1>5. Beside
        BY <1>2, <1>3 DEF Beside, Apart, EachRootOnce
    <1>6. AllRooted
        BY <1>2, <1>3, <1>4 DEF AllRooted, Rooted, FirstJob
    <1>7. Ahead
        <2>1. \A j \in Job : Untouched(cache, j) /\ Unasked(cache, j)
            BY <1>3, Paths DEF Untouched, Unasked, Key
        <2>2. \A i \in 1 .. Len(pool) : pool[i] \in Job
            BY <1>1 DEF TypeInv, TypeOK
        <2> QED
            BY <1>3, <2>1, <2>2 DEF Ahead
    <1>8. CacheSound
        BY <1>3, Paths DEF CacheSound, Key
    <1>9. Chaining /\ Judged
        BY <1>3 DEF Chaining, Judged, Init
    <1> QED
        BY <1>1, <1>5, <1>6, <1>7, <1>8, <1>9 DEF ShareInv

LEMMA NextShares == ShareInv /\ [Next]_vars => ShareInv'
    <1> SUFFICES ASSUME ShareInv, [Next]_vars PROVE ShareInv'
        OBVIOUS
    <1>1. HitInv'
        BY NextType, NextHit DEF ShareInv, HitInv
    <1>2. ShareRest'
        <2>1. CASE UNCHANGED vars
            BY <2>1, ShareFacts
               DEF vars, ShareRest, Beside, AllRooted, Ahead, CacheSound, Chaining, Judged, Busy, KeyOf
        <2> QED
            BY <2>1, TakeShares, ProbeShares, ChainShares, BuildShares, PublishShares,
               EnterShares, RefuseShares, ScanShares DEF Next
    <1> QED
        BY <1>1, <1>2 DEF ShareInv, ShareRest

\* A full chain decides every path as a fresh one.
LEMMA FullIsAlike ==
    ASSUME NEW j \in Job, Rooted(j), NEW c, Full(c, j.root, j.path)
    PROVE  Alike(c, Fresh(j.root, Terminal(j)))
    <1> DEFINE fresh == Fresh(j.root, Terminal(j))
               line == Line(j.root, j.path)
    <1>1. line \in Seq(Dir \cup RootFile) /\ Ancestors(j.root, Terminal(j)) = line
        BY JobLine
    <1> HIDE DEF line
    <1>2. fresh = (IF Exclude[j.root] = "rules" THEN <<Info>> ELSE <<>>) \o Reverse(line)
        BY <1>1 DEF Fresh
    <1>3. fresh \in Seq(Source)
        <2>1. Reverse(line) \in Seq(Dir \cup RootFile)
            BY <1>1 DEF Reverse
        <2>2. Reverse(line) \in Seq(Source)
            BY <2>1, SeqMonotonic DEF Source
        <2>3. (IF Exclude[j.root] = "rules" THEN <<Info>> ELSE <<>>) \in Seq(Source)
            <3>1. Info \in Source
                BY DEF Source
            <3>2. <<Info>> \in Seq(Source) /\ <<>> \in Seq(Source)
                BY <3>1
            <3> QED
                BY <3>2
        <2> HIDE DEF fresh
        <2> QED
            BY <1>2, <2>2, <2>3
    <1>4. c \in Seq(Source)
        BY DEF Full
    <1>5. \A f \in [Source -> Opinion] : Says(c, f) = Says(fresh, f)
        BY <1>1, <1>2 DEF Full, line
    <1> HIDE DEF fresh
    <1>6. ASSUME NEW g \in [Range(c) \cup Range(fresh) -> Opinion]
          PROVE  Says(c, g) = Says(fresh, g)
        <2> DEFINE f == [s \in Source |-> IF s \in Range(c) \cup Range(fresh) THEN g[s] ELSE "none"]
        <2>1. f \in [Source -> Opinion]
            BY DEF Opinion
        <2>2. \A i \in 1 .. Len(c) : f[c[i]] = g[c[i]]
            BY <1>4 DEF Range
        <2>3. \A i \in 1 .. Len(fresh) : f[fresh[i]] = g[fresh[i]]
            BY <1>3 DEF Range
        <2> HIDE DEF f
        <2>4. Says(c, f) = Says(c, g) /\ Says(fresh, f) = Says(fresh, g)
            BY <1>3, <1>4, <2>2, <2>3, SaysOfSources
        <2> QED
            BY <1>5, <2>1, <2>4
    <1> QED
        BY <1>6 DEF Alike, fresh

\* The shared cache cannot be told from no cache: whatever the workers do, and
\* wherever rule files cannot be read, a lookup that succeeds decides every path
\* as one would that had read the rules itself.  The roots may lie in one
\* another; that none is given twice is needed (worker.rs:81 and :115 write two
\* chains under one key, and a second worker may find or restore the first).
THEOREM CacheIsTransparent ==
    ASSUME EachRootOnce
    PROVE  Spec => []CacheTransparent
    <1>1. Init => ShareInv
        BY InitShares
    <1>2. ShareInv /\ [Next]_vars => ShareInv'
        BY NextShares
    <1>3. ShareInv => CacheTransparent
        <2> SUFFICES ASSUME ShareInv, NEW w \in Worker, pc[w] = "granted"
                     PROVE  /\ Exclude[job[w].root] # "fails"
                            /\ \A d \in Range(Ancestors(job[w].root, Terminal(job[w]))) : "rules" \in Rules[d]
                            /\ Alike(node[w], Fresh(job[w].root, Terminal(job[w])))
            BY DEF CacheTransparent
        <2> DEFINE line == Line(job[w].root, job[w].path)
        <2>1. Full(node[w], job[w].root, job[w].path)
            BY ShareFacts DEF Judged
        <2>2. job[w] \in Job /\ Rooted(job[w])
            BY ShareFacts
        <2>3. line \in Seq(Dir \cup RootFile) /\ Ancestors(job[w].root, Terminal(job[w])) = line
            BY <2>2, JobLine
        <2>4. Exclude[job[w].root] # "fails" /\ \A i \in 1 .. Len(line) : "rules" \in Rules[line[i]]
            BY <2>1 DEF Full, ReadableLine
        <2>5. Alike(node[w], Fresh(job[w].root, Terminal(job[w])))
            BY <2>1, <2>2, FullIsAlike
        <2> HIDE DEF line
        <2>6. \A d \in Range(line) : "rules" \in Rules[d]
            BY <2>3, <2>4 DEF Range
        <2> QED
            BY <2>3, <2>4, <2>5, <2>6
    <1> QED
        BY <1>1, <1>2, <1>3, PTL DEF Spec
=============================================================================
