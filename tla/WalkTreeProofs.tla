---------------------------- MODULE WalkTreeProofs ----------------------------
(***************************************************************************)
(* What the definitions of WalkTree compute, for every tree.  The library's *)
(* induction theorems take an operator; here induction and recursion are   *)
(* stated about sets and functions, from the well-foundedness of < on Nat. *)
(***************************************************************************)
EXTENDS WalkTree, SequencesExt, FiniteSetTheorems, WellFoundedInduction, TLAPS

LEMMA LeastNumber ==
    ASSUME NEW T, T \subseteq Nat, T # {}
    PROVE  \E least \in T : \A n \in T : least <= n
    <1> DEFINE R == OpToRel(<, Nat)
    <1>1. IsWellFoundedOn(R, Nat)
        BY NatLessThanWellFounded
    <1> HIDE DEF R
    <1>2. PICK least \in T : \A n \in T : ~ (<<n, least>> \in R)
        BY <1>1, WFMin
    <1>3. \A n \in T : <<n, least>> \in R <=> n < least
        BY DEF R, OpToRel
    <1>4. \A n \in T : ~ (n < least) /\ n \in Nat /\ least \in Nat
        BY <1>2, <1>3
    <1> QED
        BY <1>4

LEMMA Induction ==
    ASSUME NEW T, 0 \in T, \A n \in Nat : n \in T => n + 1 \in T
    PROVE  Nat \subseteq T
    <1> SUFFICES ASSUME Nat \ T # {} PROVE FALSE
        OBVIOUS
    <1>1. PICK least \in Nat \ T : \A n \in Nat \ T : least <= n
        BY LeastNumber
    <1>2. least # 0 /\ least - 1 \in Nat /\ least - 1 \notin Nat \ T
        BY <1>1
    <1> QED
        BY <1>1, <1>2

\* f starts with e and goes on by the steps of G.
Iterates(f, S, e, G) ==
    /\ f \in [Nat -> S]
    /\ f[0] = e
    /\ \A n \in Nat : f[n + 1] = G[n][f[n]]

LEMMA Recursion ==
    ASSUME NEW S, NEW e \in S, NEW G \in [Nat -> [S -> S]]
    PROVE  \E f : Iterates(f, S, e, G)
    <1> DEFINE Good(g, n) == g[0] = e /\ \A i \in 0 .. n - 1 : g[i + 1] = G[i][g[i]]
               T == { n \in Nat : \E g \in [0 .. n -> S] : Good(g, n) }
    <1>1. 0 \in T
        <2>1. [i \in 0 .. 0 |-> e] \in [0 .. 0 -> S] /\ Good([i \in 0 .. 0 |-> e], 0)
            OBVIOUS
        <2> QED
            BY <2>1
    <1>2. ASSUME NEW n \in Nat, n \in T PROVE n + 1 \in T
        <2>1. PICK g \in [0 .. n -> S] : Good(g, n)
            BY <1>2
        <2> DEFINE h == [i \in 0 .. n + 1 |-> IF i = n + 1 THEN G[n][g[n]] ELSE g[i]]
        <2>2. h \in [0 .. n + 1 -> S]
            OBVIOUS
        <2>3. Good(h, n + 1)
            BY <2>1
        <2> HIDE DEF Good, h
        <2> QED
            BY <2>2, <2>3
    <1>3. Nat \subseteq T
        <2> HIDE DEF T
        <2> QED
            BY <1>1, <1>2, Induction
    <1> DEFINE of == [n \in Nat |-> CHOOSE g \in [0 .. n -> S] : Good(g, n)]
               f == [n \in Nat |-> of[n][n]]
    <1>4. \A n \in Nat : of[n] \in [0 .. n -> S] /\ Good(of[n], n)
        BY <1>3
    <1> HIDE DEF of
    <1>5. ASSUME NEW n \in Nat PROVE of[n + 1][n] = of[n][n]
        <2> DEFINE U == { i \in Nat : i <= n => of[n + 1][i] = of[n][i] }
        <2>1. 0 \in U
            BY <1>4
        <2>2. ASSUME NEW i \in Nat, i \in U PROVE i + 1 \in U
            BY <1>4, <2>2
        <2>3. Nat \subseteq U
            <3> HIDE DEF U
            <3> QED
                BY <2>1, <2>2, Induction
        <2> QED
            BY <2>3
    <1>6. f \in [Nat -> S] /\ f[0] = e
        BY <1>4
    <1>7. ASSUME NEW n \in Nat PROVE f[n + 1] = G[n][f[n]]
        <2>1. n + 1 \in Nat /\ Good(of[n + 1], n + 1)
            BY <1>4
        <2>2. of[n + 1][n + 1] = G[n][of[n + 1][n]]
            BY <2>1
        <2> QED
            BY <1>5, <2>1, <2>2
    <1> QED
        BY <1>6, <1>7 DEF Iterates

-----------------------------------------------------------------------------
(* Only(S, ps): the elements of ps that are in S, and no others.           *)

\* The function that Only is defined by solves its own equation.
LEMMA OnlyEquation ==
    ASSUME NEW D, NEW S, NEW ps \in Seq(D)
    PROVE  \E upto :
             /\ upto[0] = <<>>
             /\ \A n \in 1 .. Len(ps) :
                  upto[n] = IF ps[n] \in S THEN Append(upto[n - 1], ps[n]) ELSE upto[n - 1]
             /\ Only(S, ps) = upto[Len(ps)]
    <1> DEFINE Solves(f) ==
                 f = [n \in 0 .. Len(ps) |->
                        IF n = 0 THEN <<>>
                        ELSE IF ps[n] \in S THEN Append(f[n - 1], ps[n]) ELSE f[n - 1]]
               Add == [n \in Nat |-> [v \in Seq(D) |->
                         IF n < Len(ps) /\ ps[n + 1] \in S THEN Append(v, ps[n + 1]) ELSE v]]
               upto == CHOOSE f : Solves(f)
    <1>1. \A n \in 1 .. Len(ps) : ps[n] \in D
        OBVIOUS
    <1>2. Add \in [Nat -> [Seq(D) -> Seq(D)]] /\ <<>> \in Seq(D)
        BY <1>1
    <1> HIDE DEF Add, Solves
    <1>3. PICK f : Iterates(f, Seq(D), <<>>, Add)
        BY <1>2, Recursion
    <1>4. /\ f \in [Nat -> Seq(D)]
          /\ f[0] = <<>>
          /\ \A n \in Nat : f[n + 1] = Add[n][f[n]]
        BY <1>3 DEF Iterates
    <1>5. Solves([n \in 0 .. Len(ps) |-> f[n]])
        <2>1. ASSUME NEW n \in 1 .. Len(ps)
              PROVE  f[n] = IF ps[n] \in S THEN Append(f[n - 1], ps[n]) ELSE f[n - 1]
            <3>1. n - 1 \in Nat /\ n - 1 < Len(ps) /\ (n - 1) + 1 = n
                OBVIOUS
            <3>2. f[n - 1] \in Seq(D) /\ f[n] = Add[n - 1][f[n - 1]]
                BY <1>4, <3>1
            <3> QED
                BY <3>1, <3>2 DEF Add
        <2>2. \A n \in 0 .. Len(ps) : n # 0 => n \in 1 .. Len(ps) /\ n - 1 \in 0 .. Len(ps)
            OBVIOUS
        <2> QED
            BY <1>4, <2>1, <2>2 DEF Solves
    <1>6. Solves(upto)
        <2> DEFINE g == [n \in 0 .. Len(ps) |-> f[n]]
        <2>1. Solves(g)
            BY <1>5
        <2> HIDE DEF g
        <2> QED
            BY <2>1, Zenon
    <1>7. Only(S, ps) = upto[Len(ps)]
        BY DEF Only, Solves
    <1> HIDE DEF upto
    <1>8. Len(ps) \in Nat
        OBVIOUS
    <1>9. \A n \in 0 .. Len(ps) :
            upto[n] = IF n = 0 THEN <<>>
                      ELSE IF ps[n] \in S THEN Append(upto[n - 1], ps[n]) ELSE upto[n - 1]
        BY <1>6, Zenon DEF Solves
    <1>10. \A n \in 1 .. Len(ps) :
             upto[n] = IF ps[n] \in S THEN Append(upto[n - 1], ps[n]) ELSE upto[n - 1]
        BY <1>9
    <1>11. upto[0] = <<>>
        BY <1>8, <1>9
    <1> QED
        BY <1>7, <1>10, <1>11, Zenon

\* The elements of a sequence.
Members(s) == { s[i] : i \in 1 .. Len(s) }

LEMMA MembersOfAppend ==
    ASSUME NEW D, NEW s \in Seq(D), NEW d \in D
    PROVE  Members(Append(s, d)) = Members(s) \cup {d}
    <1>1. /\ Len(Append(s, d)) = Len(s) + 1 /\ Len(s) \in Nat
          /\ Append(s, d)[Len(s) + 1] = d
          /\ \A i \in 1 .. Len(s) : Append(s, d)[i] = s[i]
        OBVIOUS
    <1> QED
        BY <1>1 DEF Members

LEMMA MembersOfConcat ==
    ASSUME NEW D, NEW s \in Seq(D), NEW t \in Seq(D)
    PROVE  s \o t \in Seq(D) /\ Members(s \o t) = Members(s) \cup Members(t)
    <1>1. /\ Len(s \o t) = Len(s) + Len(t) /\ Len(s) \in Nat /\ Len(t) \in Nat
          /\ \A i \in 1 .. Len(s) : (s \o t)[i] = s[i]
          /\ \A i \in 1 .. Len(t) : (s \o t)[Len(s) + i] = t[i]
        OBVIOUS
    <1>2. \A i \in 1 .. Len(s \o t) : i \notin 1 .. Len(s) => i - Len(s) \in 1 .. Len(t) /\ i = Len(s) + (i - Len(s))
        BY <1>1
    <1>3. Members(s \o t) \subseteq Members(s) \cup Members(t)
        BY <1>1, <1>2 DEF Members
    <1>4. Members(s) \cup Members(t) \subseteq Members(s \o t)
        <2>1. \A i \in 1 .. Len(s) : i \in 1 .. Len(s \o t)
            BY <1>1
        <2>2. \A i \in 1 .. Len(t) : Len(s) + i \in 1 .. Len(s \o t)
            BY <1>1
        <2> QED
            BY <1>1, <2>1, <2>2 DEF Members
    <1> QED
        BY <1>3, <1>4

LEMMA MembersOfHeadTail ==
    ASSUME NEW D, NEW s \in Seq(D), s # <<>>
    PROVE  /\ Head(s) \in D /\ Tail(s) \in Seq(D)
           /\ Members(s) = {Head(s)} \cup Members(Tail(s))
    <1>1. /\ Len(s) \in Nat \ {0} /\ Len(Tail(s)) = Len(s) - 1 /\ Head(s) = s[1]
          /\ Head(s) \in D /\ Tail(s) \in Seq(D)
          /\ \A i \in 1 .. Len(s) - 1 : Tail(s)[i] = s[i + 1]
        OBVIOUS
    <1>2. \A i \in 1 .. Len(s) : i # 1 => i - 1 \in 1 .. Len(Tail(s)) /\ s[i] = Tail(s)[i - 1]
        BY <1>1
    <1>3. \A i \in 1 .. Len(Tail(s)) : i + 1 \in 1 .. Len(s) /\ Tail(s)[i] = s[i + 1]
        BY <1>1
    <1>4. 1 \in 1 .. Len(s)
        BY <1>1
    <1>5. Members(s) \subseteq {Head(s)} \cup Members(Tail(s))
        BY <1>1, <1>2 DEF Members
    <1>6. {Head(s)} \cup Members(Tail(s)) \subseteq Members(s)
        BY <1>1, <1>3, <1>4 DEF Members
    <1> QED
        BY <1>1, <1>5, <1>6

LEMMA MembersOfNone == Members(<<>>) = {}
    BY DEF Members

LEMMA MembersOfOne ==
    ASSUME NEW d
    PROVE  Members(<<d>>) = {d}
    BY DEF Members

LEMMA OnlyElements ==
    ASSUME NEW D, NEW S, NEW ps \in Seq(D)
    PROVE  /\ Only(S, ps) \in Seq(D)
           /\ Members(Only(S, ps)) = Members(ps) \cap S
    <1>1. PICK upto :
            /\ upto[0] = <<>>
            /\ \A n \in 1 .. Len(ps) :
                 upto[n] = IF ps[n] \in S THEN Append(upto[n - 1], ps[n]) ELSE upto[n - 1]
            /\ Only(S, ps) = upto[Len(ps)]
        BY OnlyEquation
    <1> DEFINE Sound(n) == /\ upto[n] \in Seq(D)
                           /\ Members(upto[n]) = { ps[i] : i \in 1 .. n } \cap S
               T == { n \in Nat : n <= Len(ps) => Sound(n) }
    <1>2. 0 \in T
        <2>1. upto[0] \in Seq(D) /\ Members(upto[0]) = {}
            BY <1>1 DEF Members
        <2> QED
            BY <2>1
    <1>3. ASSUME NEW n \in Nat, n \in T PROVE n + 1 \in T
        <2> SUFFICES ASSUME n + 1 <= Len(ps) PROVE Sound(n + 1)
            OBVIOUS
        <2>1. /\ upto[n + 1] = IF ps[n + 1] \in S THEN Append(upto[n], ps[n + 1]) ELSE upto[n]
              /\ ps[n + 1] \in D
            BY <1>1
        <2>2. Sound(n)
            BY <1>3
        <2>3. Members(Append(upto[n], ps[n + 1])) = Members(upto[n]) \cup {ps[n + 1]}
            BY <2>1, <2>2, MembersOfAppend
        <2>4. { ps[i] : i \in 1 .. n + 1 } = { ps[i] : i \in 1 .. n } \cup {ps[n + 1]}
            OBVIOUS
        <2> QED
            BY <2>1, <2>2, <2>3, <2>4
    <1>4. Nat \subseteq T
        <2> HIDE DEF T
        <2> QED
            BY <1>2, <1>3, Induction
    <1>5. Len(ps) \in T
        <2> HIDE DEF T
        <2> QED
            BY <1>4
    <1>6. Sound(Len(ps))
        BY <1>5
    <1> QED
        BY <1>1, <1>6 DEF Members

-----------------------------------------------------------------------------
(* What the tree's answers are, and the items made of them.                *)

LEMMA NodeType ==
    ASSUME NEW p \in Path
    PROVE  /\ Tree[p].id \in STRING
           /\ Tree[p].entryErrors \in Nat
           /\ Tree[p].children \in Seq(Path)
    BY TreeAssumption DEF Node

LEMMA ErrorType ==
    ASSUME NEW p \in Path, NEW o \in WalkOp
    PROVE  Error(o, p) \in WalkItem
    BY DEF Error, WalkItem

LEMMA FileType ==
    ASSUME NEW p \in Path
    PROVE  <<File(p)>> \in Seq(WalkItem)
    <1>1. File(p) \in WalkItem
        BY DEF File, WalkItem
    <1> QED
        BY <1>1

LEMMA RepeatedErrorType ==
    ASSUME NEW p \in Path
    PROVE  [i \in 1 .. Tree[p].entryErrors |-> Error("ReadDir", p)] \in Seq(WalkItem)
    <1>1. Error("ReadDir", p) \in WalkItem
        BY ErrorType DEF WalkOp
    <1>2. \A n \in Nat : [i \in 1 .. n |-> Error("ReadDir", p)] \in Seq(WalkItem)
        BY <1>1
    <1> QED
        BY <1>2, NodeType

LEMMA HeadTail ==
    ASSUME NEW S, NEW s \in Seq(S), s # <<>>
    PROVE  Head(s) \in S /\ Tail(s) \in Seq(S)
    OBVIOUS
-----------------------------------------------------------------------------
(* The levels of a tree: they exist, and none is deeper than Path allows.  *)

\* What a level consists of.
Found == [root : RootSet, path : Path, ids : SUBSET STRING]

Top(how) == { Reached(r, r, {}) : r \in { q \in RootSet : Enters(how, q, q) } }

LEMMA RootsArePaths == RootSet \subseteq Path
    BY TreeAssumption DEF RootSet

LEMMA EntriesArePaths ==
    ASSUME NEW p \in Path
    PROVE  Entries(p) \subseteq Path
    BY NodeType DEF Entries

LEMMA ReachedType ==
    ASSUME NEW r \in RootSet, NEW p \in Path, NEW above \in SUBSET STRING
    PROVE  Reached(r, p, above) \in Found
    BY NodeType DEF Reached, Found

\* x is directory c, listed in directory d.
LeadsTo(how, d, c, x) ==
    /\ c \in Entries(d.path)
    /\ Says(how, ReadDir(d.path), TRUE)
    /\ Enters(how, d.root, c)
    /\ Tree[c].id \notin d.ids
    /\ x = Reached(d.root, c, d.ids)

LEMMA BelowMember ==
    ASSUME NEW how, NEW ds, NEW x
    PROVE  x \in Below(how, ds) <=> \E d \in ds : \E c : LeadsTo(how, d, c, x)
    <1> DEFINE within(d) == { c \in Entries(d.path) :
                                Enters(how, d.root, c) /\ Tree[c].id \notin d.ids }
               listed == { d \in ds : Says(how, ReadDir(d.path), TRUE) }
    <1>1. x \in Below(how, ds) <=> \E d \in listed : x \in { Reached(d.root, c, d.ids) : c \in within(d) }
        BY Zenon DEF Below
    <1> HIDE DEF listed, within
    <1>2. x \in Below(how, ds) <=> \E d \in listed : \E c \in within(d) : x = Reached(d.root, c, d.ids)
        BY <1>1, Zenon
    <1> QED
        BY <1>2, Zenon DEF listed, within, LeadsTo

LEMMA BelowType ==
    ASSUME NEW how, NEW ds \in SUBSET Found
    PROVE  Below(how, ds) \in SUBSET Found
    <1> SUFFICES ASSUME NEW x \in Below(how, ds) PROVE x \in Found
        OBVIOUS
    <1>1. PICK d \in ds : \E c : LeadsTo(how, d, c, x)
        BY BelowMember
    <1>2. PICK c : LeadsTo(how, d, c, x)
        BY <1>1
    <1>3. d.root \in RootSet /\ d.path \in Path /\ d.ids \in SUBSET STRING
        BY DEF Found
    <1> QED
        BY <1>2, <1>3, EntriesArePaths, ReachedType DEF LeadsTo

LEMMA LevelsEquation ==
    ASSUME NEW how
    PROVE  /\ Levels(how) \in [Nat -> SUBSET Found]
           /\ Levels(how)[0] = Top(how)
           /\ \A n \in Nat : Levels(how)[n + 1] = Below(how, Levels(how)[n])
    <1> DEFINE Solves(f) ==
                 f = [n \in Nat |-> IF n = 0 THEN Top(how) ELSE Below(how, f[n - 1])]
               Deeper == [n \in Nat |-> [ds \in SUBSET Found |-> Below(how, ds)]]
               at == CHOOSE f : Solves(f)
    <1>1. Top(how) \in SUBSET Found
        BY RootsArePaths, ReachedType DEF Top
    <1>2. Deeper \in [Nat -> [SUBSET Found -> SUBSET Found]]
        BY BelowType
    <1> HIDE DEF Deeper, Solves
    <1>3. PICK f : Iterates(f, SUBSET Found, Top(how), Deeper)
        BY <1>1, <1>2, Recursion
    <1>4. /\ f \in [Nat -> SUBSET Found]
          /\ f[0] = Top(how)
          /\ \A n \in Nat : f[n + 1] = Deeper[n][f[n]]
        BY <1>3 DEF Iterates
    <1>5. \A n \in Nat : f[n + 1] = Below(how, f[n])
        BY <1>4 DEF Deeper
    <1>6. Solves(f)
        <2>1. ASSUME NEW n \in Nat, n # 0 PROVE f[n] = Below(how, f[n - 1])
            <3>1. n - 1 \in Nat /\ (n - 1) + 1 = n
                BY <2>1
            <3> QED
                BY <1>5, <3>1
        <2>2. \A n \in Nat : f[n] = IF n = 0 THEN Top(how) ELSE Below(how, f[n - 1])
            BY <1>4, <2>1
        <2>3. f = [n \in Nat |-> f[n]]
            BY <1>4
        <2> QED
            BY <2>2, <2>3, Zenon DEF Solves
    <1>7. Solves(at)
        BY <1>6, Zenon
    <1>8. Levels(how) = at
        BY DEF Levels, Top, Solves
    <1> HIDE DEF at
    <1>9. /\ at = [n \in Nat |-> at[n]]
          /\ \A n \in Nat : at[n] = IF n = 0 THEN Top(how) ELSE Below(how, at[n - 1])
        BY <1>7, Zenon DEF Solves
    <1>10. at[0] = Top(how) /\ \A n \in Nat : at[n + 1] = Below(how, at[n])
        <2>1. \A n \in Nat : n + 1 \in Nat /\ n + 1 # 0 /\ (n + 1) - 1 = n
            OBVIOUS
        <2> QED
            BY <1>9, <2>1
    <1>11. \A n \in Nat : at[n] \in SUBSET Found
        <2> DEFINE T == { n \in Nat : at[n] \in SUBSET Found }
        <2>1. 0 \in T
            BY <1>1, <1>10
        <2>2. \A n \in Nat : n \in T => n + 1 \in T
            BY <1>10, BelowType
        <2>3. Nat \subseteq T
            <3> HIDE DEF T
            <3> QED
                BY <2>1, <2>2, Induction
        <2> QED
            BY <2>3
    <1> QED
        BY <1>8, <1>9, <1>10, <1>11

\* No identity recurs on the way down, so each level adds one.
LEMMA IdsGrow ==
    ASSUME NEW how, NEW n \in Nat, NEW d \in Levels(how)[n]
    PROVE  /\ d.ids \subseteq { Tree[p].id : p \in Path }
           /\ IsFiniteSet(d.ids)
           /\ Cardinality(d.ids) = n + 1
    <1> DEFINE Ids == { Tree[p].id : p \in Path }
               Good(f, k) == f.ids \subseteq Ids /\ IsFiniteSet(f.ids) /\ Cardinality(f.ids) = k + 1
               T == { k \in Nat : \A f \in Levels(how)[k] : Good(f, k) }
    <1>1. 0 \in T
        <2> SUFFICES ASSUME NEW r \in RootSet PROVE Good(Reached(r, r, {}), 0)
            BY LevelsEquation DEF Top
        <2>1. Reached(r, r, {}).ids = {Tree[r].id} /\ Tree[r].id \in Ids
            BY RootsArePaths DEF Reached
        <2>2. IsFiniteSet({Tree[r].id}) /\ Cardinality({Tree[r].id}) = 1
            BY FS_Singleton
        <2> QED
            BY <2>1, <2>2
    <1>2. ASSUME NEW k \in Nat, k \in T PROVE k + 1 \in T
        <2> SUFFICES ASSUME NEW x \in Levels(how)[k + 1] PROVE Good(x, k + 1)
            OBVIOUS
        <2>0. PICK f \in Levels(how)[k] : \E c : LeadsTo(how, f, c, x)
            <3>1. x \in Below(how, Levels(how)[k])
                BY LevelsEquation
            <3> QED
                BY <3>1, BelowMember
        <2>1. PICK c : LeadsTo(how, f, c, x)
            BY <2>0
        <2>2. c \in Entries(f.path) /\ Tree[c].id \notin f.ids /\ x = Reached(f.root, c, f.ids)
            BY <2>1 DEF LeadsTo
        <2>3. f.path \in Path
            BY LevelsEquation DEF Found
        <2>4. c \in Path
            BY <2>2, <2>3, EntriesArePaths
        <2>5. Good(f, k)
            BY <1>2
        <2>6. /\ IsFiniteSet(f.ids \cup {Tree[c].id})
              /\ Cardinality(f.ids \cup {Tree[c].id}) = Cardinality(f.ids) + 1
            BY <2>2, <2>5, FS_AddElement
        <2>7. x.ids = f.ids \cup {Tree[c].id}
            BY <2>2 DEF Reached
        <2> QED
            BY <2>4, <2>5, <2>6, <2>7
    <1>3. Nat \subseteq T
        <2> HIDE DEF T
        <2> QED
            BY <1>1, <1>2, Induction
    <1> QED
        BY <1>3

\* What may be listed at all is within the depths that count.
LEMMA EnteredIfRecursed ==
    ASSUME NEW how, NEW n \in Nat, NEW d \in Levels(how)[n], Recurse(n)
    PROVE  n \in 0 .. Deepest /\ d \in Entered(how)
    <1>1. n \in 0 .. Deepest
        <2>1. CASE MaxDepth # NoLimit
            BY <2>1, TreeAssumption DEF Recurse, Deepest, Limit
        <2>2. CASE MaxDepth = NoLimit
            <3> DEFINE Ids == { Tree[p].id : p \in Path }
            <3>1. IsFiniteSet(Ids) /\ Cardinality(Ids) <= Cardinality(Path)
                <4> DEFINE id == [p \in Path |-> Tree[p].id]
                <4>1. id \in Surjection(Path, Ids)
                    BY DEF Surjection
                <4> QED
                    BY <4>1, TreeAssumption, FS_Surjection
            <3>2. Cardinality(d.ids) <= Cardinality(Ids) /\ Cardinality(d.ids) = n + 1
                BY <3>1, IdsGrow, FS_Subset
            <3>3. Cardinality(Path) \in Nat /\ Cardinality(Ids) \in Nat
                BY <3>1, TreeAssumption, FS_CardinalityType
            <3> QED
                BY <2>2, <3>1, <3>2, <3>3 DEF Deepest
        <2> QED
            BY <2>1, <2>2
    <1> QED
        BY <1>1 DEF Entered
-----------------------------------------------------------------------------
(* What a walk comes upon, and what may be yielded for it.                 *)

\* Directory d, whose listing has e in it, lies on the way down to e: what was
\* claimed above e was claimed before e was found.
FoundIn(e, d, claimed) ==
    /\ e.depth # 0
    /\ d \in Levels("may")[e.depth - 1]
    /\ Recurse(e.depth - 1)
    /\ d.root = e.root
    /\ TRUE \in ReadDir(d.path)
    /\ e.path \in Entries(d.path)
    /\ d.ids \subseteq claimed

\* A walk that has claimed these identities may have come upon entry e.
LedTo(e, claimed) ==
    \/ e.depth = 0 /\ e.path = e.root
    \/ \E d : FoundIn(e, d, claimed)

\* d is the directory that entry e is, entered by a walk that has claimed these.
EnteredAs(e, d, claimed) ==
    /\ d \in Levels("may")[e.depth]
    /\ d.root = e.root
    /\ d.path = e.path
    /\ d.ids \subseteq claimed

\* What is claimed stays claimed.
LEMMA LedToGrows ==
    ASSUME NEW e, NEW claimed, LedTo(e, claimed), NEW more, claimed \subseteq more
    PROVE  LedTo(e, more)
    BY Zenon DEF LedTo, FoundIn

\* The item that an outcome comes to is one of those of its path.
LEMMA ItemMayBe ==
    ASSUME NEW r, NEW p, NEW o \in Examine(r, p)
    PROVE  /\ o = "yield" => File(p) \in ItemsOf("may", r, p)
           /\ o \in WalkOp => Error(o, p) \in ItemsOf("may", r, p)
    BY DEF ItemsOf, Says

\* What had to come of a path is what has come of it.
LEMMA ItemMustBe ==
    ASSUME NEW r, NEW p, NEW o \in Examine(r, p)
    PROVE  /\ \A m \in ItemsOf("must", r, p) :
                \/ o = "yield" /\ m = File(p)
                \/ o \in WalkOp /\ m = Error(o, p)
           /\ Enters("must", r, p) => o = "enter"
    <1>1. ASSUME NEW a, Says("must", Examine(r, p), a) PROVE o = a
        BY <1>1 DEF Says
    <1>2. ASSUME NEW m \in ItemsOf("must", r, p)
          PROVE  \/ o = "yield" /\ m = File(p)
                 \/ o \in WalkOp /\ m = Error(o, p)
        <2>1. CASE Says("must", Examine(r, p), "yield") /\ m = File(p)
            BY <1>1, <2>1
        <2>2. CASE \E a \in WalkOp : Says("must", Examine(r, p), a) /\ m = Error(a, p)
            BY <1>1, <2>2
        <2>3. \/ m \in { File(p) : y \in { x \in {TRUE} : Says("must", Examine(r, p), "yield") } }
              \/ m \in { Error(a, p) : a \in { x \in WalkOp : Says("must", Examine(r, p), x) } }
            BY <1>2, Zenon DEF ItemsOf
        <2> QED
            BY <2>1, <2>2, <2>3
    <1> QED
        BY <1>1, <1>2 DEF Enters

\* All that a directory found within the limit holds may be yielded.
LEMMA HarvestIsYieldable ==
    ASSUME NEW n \in Nat, NEW d \in Levels("may")[n], Recurse(n)
    PROVE  /\ Harvest("may", d) \subseteq Yieldable
           /\ FALSE \in ReadDir(d.path) => Error("ReadDir", d.path) \in Yieldable
           /\ TRUE \in ReadDir(d.path) =>
                /\ \A i \in 1 .. Tree[d.path].entryErrors : Error("ReadDir", d.path) \in Yieldable
                /\ \A c \in Entries(d.path) : ItemsOf("may", d.root, c) \subseteq Yieldable
    <1>1. Harvest("may", d) \subseteq Yieldable
        BY EnteredIfRecursed DEF Yieldable, MayEnter
    <1>2. FALSE \in ReadDir(d.path) => Error("ReadDir", d.path) \in Harvest("may", d)
        BY DEF Harvest, Says
    <1>3. ASSUME TRUE \in ReadDir(d.path)
          PROVE  /\ \A i \in 1 .. Tree[d.path].entryErrors : Error("ReadDir", d.path) \in Harvest("may", d)
                 /\ \A c \in Entries(d.path) : ItemsOf("may", d.root, c) \subseteq Harvest("may", d)
        BY <1>3, Zenon DEF Harvest, Says
    <1> QED
        BY <1>1, <1>2, <1>3

\* What a walk comes upon may be yielded for what it turns out to be.
LEMMA LedItemIsYieldable ==
    ASSUME NEW e, e.depth \in Nat, e.root \in RootSet, NEW claimed, LedTo(e, claimed),
           NEW o \in Examine(e.root, e.path)
    PROVE  /\ o = "yield" => File(e.path) \in Yieldable
           /\ o \in WalkOp => Error(o, e.path) \in Yieldable
    <1>1. ItemsOf("may", e.root, e.path) \subseteq Yieldable
        <2>1. CASE e.depth = 0 /\ e.path = e.root
            BY <2>1 DEF Yieldable
        <2>2. CASE \E d : FoundIn(e, d, claimed)
            <3>1. PICK d : FoundIn(e, d, claimed)
                BY <2>2
            <3>2. /\ e.depth # 0 /\ d \in Levels("may")[e.depth - 1] /\ Recurse(e.depth - 1)
                  /\ d.root = e.root /\ TRUE \in ReadDir(d.path) /\ e.path \in Entries(d.path)
                BY <3>1, Zenon DEF FoundIn
            <3>3. e.depth - 1 \in Nat
                BY <3>2
            <3> QED
                BY <3>2, <3>3, HarvestIsYieldable
        <2> QED
            BY <2>1, <2>2 DEF LedTo
    <1> QED
        BY <1>1, ItemMayBe

\* A directory that is entered with an identity of its own is one of its level.
LEMMA LedDirIsFound ==
    ASSUME NEW e, e.depth \in Nat, e.root \in RootSet, NEW claimed, LedTo(e, claimed),
           "enter" \in Examine(e.root, e.path), Tree[e.path].id \notin claimed
    PROVE  \E d : EnteredAs(e, d, claimed \cup {Tree[e.path].id})
    <1>1. Enters("may", e.root, e.path)
        BY DEF Enters, Says
    <1>2. CASE e.depth = 0 /\ e.path = e.root
        <2> DEFINE d == Reached(e.root, e.root, {})
        <2>1. d \in Levels("may")[0]
            BY <1>1, <1>2, LevelsEquation DEF Top
        <2>2. d.root = e.root /\ d.path = e.path /\ d.ids = {Tree[e.path].id}
            BY <1>2 DEF Reached
        <2> HIDE DEF d
        <2>3. EnteredAs(e, d, claimed \cup {Tree[e.path].id})
            BY <1>2, <2>1, <2>2 DEF EnteredAs
        <2> QED
            BY <2>3
    <1>3. CASE \E a : FoundIn(e, a, claimed)
        <2>1. PICK a : FoundIn(e, a, claimed)
            BY <1>3
        <2> DEFINE d == Reached(e.root, e.path, a.ids)
                   n == e.depth - 1
        <2>2. /\ e.depth # 0 /\ a \in Levels("may")[n]
              /\ a.root = e.root /\ TRUE \in ReadDir(a.path) /\ e.path \in Entries(a.path)
              /\ a.ids \subseteq claimed
            BY <2>1, Zenon DEF FoundIn
        <2>3. n \in Nat /\ n + 1 = e.depth
            BY <2>2
        <2>4. LeadsTo("may", a, e.path, d)
            BY <1>1, <2>2 DEF LeadsTo, Says
        <2>5. d.root = e.root /\ d.path = e.path /\ d.ids = a.ids \cup {Tree[e.path].id}
            BY DEF Reached
        <2> HIDE DEF d, n
        <2>6. d \in Below("may", Levels("may")[n])
            BY <2>2, <2>4, BelowMember
        <2>7. d \in Levels("may")[e.depth]
            BY <2>3, <2>6, LevelsEquation
        <2>8. EnteredAs(e, d, claimed \cup {Tree[e.path].id})
            BY <2>2, <2>5, <2>7 DEF EnteredAs
        <2> QED
            BY <2>8
    <1> QED
        BY <1>2, <1>3 DEF LedTo

\* The children of a directory that has been entered can be come upon.
LEMMA ChildIsLedTo ==
    ASSUME NEW e, e.depth \in Nat, NEW d, NEW claimed, EnteredAs(e, d, claimed), Recurse(e.depth),
           TRUE \in ReadDir(e.path),
           NEW c, c.depth = e.depth + 1, c.root = e.root, c.path \in Entries(e.path)
    PROVE  LedTo(c, claimed)
    <1>1. c.depth # 0 /\ c.depth - 1 = e.depth
        OBVIOUS
    <1>2. FoundIn(c, d, claimed)
        BY <1>1 DEF FoundIn, EnteredAs
    <1> QED
        BY <1>2 DEF LedTo

-----------------------------------------------------------------------------
(* The accounts of a walk: the claims it has made, what it has still to do *)
(* and what it has got, and why nothing is missing once nothing is to do.  *)

\* A directory claimed, and the depth it was claimed at.
Claims == [dir : Found, depth : Nat]

\* Identity id has been claimed, and if depth matters, no deeper than n.
ClaimedBy(K, id, n) ==
    \E k \in K : Tree[k.dir.path].id = id /\ (MaxDepth = NoLimit \/ k.depth <= n)

\* The entry of directory d at depth n, and of a child c of it.
EntryOf(k) == [path |-> k.dir.path, depth |-> k.depth, root |-> k.dir.root]

ChildOf(k, c) == [path |-> c, depth |-> k.depth + 1, root |-> k.dir.root]

RootEntry(r) == [path |-> r, depth |-> 0, root |-> r]

\* What had to come of entry e has come of it.
Discharged(K, got, e) ==
    /\ ItemsOf("must", e.root, e.path) \subseteq got
    /\ Enters("must", e.root, e.path) => ClaimedBy(K, Tree[e.path].id, e.depth)

Settled(K, pending, got, e) == e \in pending \/ Discharged(K, got, e)

\* What had to come of listing claim k has come of it, except for its children
\* that are still pending.
Listed(K, pending, got, k) ==
    /\ ReadDir(k.dir.path) = {FALSE} => Error("ReadDir", k.dir.path) \in got
    /\ ReadDir(k.dir.path) = {TRUE} =>
         /\ \A i \in 1 .. Tree[k.dir.path].entryErrors : Error("ReadDir", k.dir.path) \in got
         /\ \A c \in Entries(k.dir.path) : Settled(K, pending, got, ChildOf(k, c))

\* pending: the entries found and not examined; unlisted: those claimed as
\* directories and not listed.
Accounts(K, pending, unlisted, got) ==
    /\ K \subseteq Claims
    /\ \A k \in K :
         /\ k.dir \in Levels("may")[k.depth]
         /\ Recurse(k.depth) => EntryOf(k) \in unlisted \/ Listed(K, pending, got, k)
    /\ \A r \in RootSet : Settled(K, pending, got, RootEntry(r))

LEMMA ClaimedByGrows ==
    ASSUME NEW K, NEW L, K \subseteq L, NEW id, NEW n, ClaimedBy(K, id, n)
    PROVE  ClaimedBy(L, id, n)
    BY DEF ClaimedBy

LEMMA SettledGrows ==
    ASSUME NEW K, NEW pending, NEW got, NEW L, NEW pending2, NEW got2, NEW e,
           K \subseteq L, got \subseteq got2, Settled(K, pending, got, e),
           e \in pending => Settled(L, pending2, got2, e)
    PROVE  Settled(L, pending2, got2, e)
    BY ClaimedByGrows, Zenon DEF Settled, Discharged

LEMMA ListedGrows ==
    ASSUME NEW K, NEW pending, NEW got, NEW L, NEW pending2, NEW got2, NEW k,
           K \subseteq L, got \subseteq got2, Listed(K, pending, got, k),
           \A e \in pending : Settled(L, pending2, got2, e)
    PROVE  Listed(L, pending2, got2, k)
    BY SettledGrows, Zenon DEF Listed

\* The accounts after a step: nothing got or claimed is lost, what is no longer
\* pending is settled, and what is no longer unlisted, or claimed anew, is listed.
LEMMA AccountsStep ==
    ASSUME NEW K, NEW pending, NEW unlisted, NEW got, Accounts(K, pending, unlisted, got),
           NEW L, NEW pending2, NEW unlisted2, NEW got2,
           K \subseteq L, L \subseteq Claims, got \subseteq got2,
           \A e \in pending : Settled(L, pending2, got2, e),
           \A k \in L \ K : k.dir \in Levels("may")[k.depth],
           \A k \in L : Recurse(k.depth) /\ (k \in K => EntryOf(k) \in unlisted) =>
               EntryOf(k) \in unlisted2 \/ Listed(L, pending2, got2, k)
    PROVE  Accounts(L, pending2, unlisted2, got2)
    <1>1. ASSUME NEW k \in L, Recurse(k.depth)
          PROVE  EntryOf(k) \in unlisted2 \/ Listed(L, pending2, got2, k)
        <2>1. CASE k \in K => EntryOf(k) \in unlisted
            BY <1>1, <2>1
        <2>2. CASE k \in K /\ Listed(K, pending, got, k)
            BY <2>2, ListedGrows
        <2> QED
            BY <1>1, <2>1, <2>2 DEF Accounts
    <1>2. ASSUME NEW r \in RootSet PROVE Settled(L, pending2, got2, RootEntry(r))
        BY SettledGrows DEF Accounts
    <1>3. \A k \in L : k.dir \in Levels("may")[k.depth]
        BY DEF Accounts
    <1> QED
        BY <1>1, <1>2, <1>3 DEF Accounts

\* A claim that may be listed, with nothing pending, has its harvest in.
LEMMA HarvestIsIn ==
    ASSUME NEW K, NEW got, Accounts(K, {}, {}, got), NEW k \in K, Recurse(k.depth)
    PROVE  /\ k.dir \in MayEnter
           /\ Harvest("must", k.dir) \subseteq got
           /\ ReadDir(k.dir.path) = {TRUE} =>
                \A c \in Entries(k.dir.path) :
                    Enters("must", k.dir.root, c) => ClaimedBy(K, Tree[c].id, k.depth + 1)
    <1>1. k.depth \in Nat /\ k.dir \in Levels("may")[k.depth] /\ Listed(K, {}, got, k)
        BY DEF Accounts, Claims
    <1>2. k.dir \in MayEnter
        BY <1>1, EnteredIfRecursed DEF MayEnter
    <1>3. ASSUME ReadDir(k.dir.path) = {TRUE}, NEW c \in Entries(k.dir.path)
          PROVE  /\ ItemsOf("must", k.dir.root, c) \subseteq got
                 /\ Enters("must", k.dir.root, c) => ClaimedBy(K, Tree[c].id, k.depth + 1)
        <2>1. Discharged(K, got, ChildOf(k, c))
            BY <1>1, <1>3 DEF Listed, Settled
        <2> QED
            BY <2>1 DEF Discharged, ChildOf
    <1>4. ASSUME NEW m \in Harvest("must", k.dir) PROVE m \in got
        <2>1. CASE ReadDir(k.dir.path) = {FALSE} /\ m = Error("ReadDir", k.dir.path)
            BY <1>1, <2>1 DEF Listed
        <2>2. CASE /\ ReadDir(k.dir.path) = {TRUE} /\ m = Error("ReadDir", k.dir.path)
                   /\ \E i \in 1 .. Tree[k.dir.path].entryErrors : TRUE
            BY <1>1, <2>2 DEF Listed
        <2>3. CASE /\ ReadDir(k.dir.path) = {TRUE}
                   /\ \E c \in Entries(k.dir.path) : m \in ItemsOf("must", k.dir.root, c)
            BY <1>3, <2>3
        <2> QED
            BY <1>4, <2>1, <2>2, <2>3 DEF Harvest, Says
    <1> QED
        BY <1>2, <1>3, <1>4

\* A claim made in time, of a directory within the limit, may be listed.
LEMMA TimelyIsListed ==
    ASSUME NEW n \in 0 .. Deepest, NEW k, k.depth \in Nat, MaxDepth = NoLimit \/ k.depth <= n
    PROVE  Recurse(k.depth)
    <1>1. CASE MaxDepth = NoLimit
        BY <1>1 DEF Recurse
    <1>2. CASE MaxDepth # NoLimit
        BY <1>2, TreeAssumption DEF Recurse, Deepest, Limit
    <1> QED
        BY <1>1, <1>2

\* Every directory that must be entered has been claimed, level by level.
LEMMA AllAreClaimed ==
    ASSUME SameUnderEveryName, NEW K, NEW got, Accounts(K, {}, {}, got)
    PROVE  \A n \in 0 .. Deepest : \A d \in Levels("must")[n] : ClaimedBy(K, Tree[d.path].id, n)
    <1> DEFINE T == { n \in Nat : n <= Deepest =>
                        \A d \in Levels("must")[n] : ClaimedBy(K, Tree[d.path].id, n) }
    <1>0. Deepest \in Nat
        BY TreeAssumption, FS_CardinalityType DEF Deepest, Limit
    <1>1. 0 \in T
        <2> SUFFICES ASSUME NEW d \in Levels("must")[0] PROVE ClaimedBy(K, Tree[d.path].id, 0)
            OBVIOUS
        <2>1. PICK r \in RootSet : Enters("must", r, r) /\ d = Reached(r, r, {})
            BY LevelsEquation DEF Top
        <2>2. Discharged(K, got, RootEntry(r))
            BY DEF Accounts, Settled
        <2> QED
            BY <2>1, <2>2 DEF Discharged, RootEntry, Reached
    <1>2. ASSUME NEW n \in Nat, n \in T PROVE n + 1 \in T
        <2> SUFFICES ASSUME n + 1 <= Deepest, NEW x \in Levels("must")[n + 1]
                     PROVE  ClaimedBy(K, Tree[x.path].id, n + 1)
            OBVIOUS
        <2>0. PICK d \in Levels("must")[n] : \E c : LeadsTo("must", d, c, x)
            <3>1. x \in Below("must", Levels("must")[n])
                BY LevelsEquation
            <3> QED
                BY <3>1, BelowMember
        <2>1. PICK c : LeadsTo("must", d, c, x)
            BY <2>0
        <2>2. /\ c \in Entries(d.path) /\ ReadDir(d.path) = {TRUE} /\ Enters("must", d.root, c)
              /\ Tree[c].id \notin d.ids /\ x.path = c
            BY <2>1 DEF LeadsTo, Says, Reached
        <2>3. n \in 0 .. Deepest
            BY <1>0
        <2>4. PICK k \in K : Tree[k.dir.path].id = Tree[d.path].id /\ (MaxDepth = NoLimit \/ k.depth <= n)
            BY <1>0, <1>2 DEF ClaimedBy
        <2>5. k.depth \in Nat
            BY DEF Accounts, Claims
        <2>6. Recurse(k.depth)
            BY <2>3, <2>4, <2>5, TimelyIsListed
        <2>7. d \in MustEnter /\ k.dir \in MayEnter
            BY <2>3, <2>6, HarvestIsIn DEF MustEnter, Entered
        <2>8. /\ ReadDir(k.dir.path) = {TRUE}
              /\ \E b \in Entries(k.dir.path) : /\ Tree[b].id = Tree[c].id
                                               /\ Enters("must", k.dir.root, b)
            BY <2>2, <2>4, <2>7 DEF SameUnderEveryName
        <2>9. PICK b \in Entries(k.dir.path) : Tree[b].id = Tree[c].id /\ Enters("must", k.dir.root, b)
            BY <2>8
        <2>10. ClaimedBy(K, Tree[c].id, k.depth + 1)
            BY <2>6, <2>8, <2>9, HarvestIsIn
        <2>11. PICK j \in K : /\ Tree[j.dir.path].id = Tree[c].id
                              /\ MaxDepth = NoLimit \/ j.depth <= k.depth + 1
            BY <2>10 DEF ClaimedBy
        <2>12. j.depth \in Nat
            BY DEF Accounts, Claims
        <2>13. MaxDepth = NoLimit \/ j.depth <= n + 1
            BY <2>4, <2>5, <2>11, <2>12
        <2> QED
            BY <2>2, <2>11, <2>13 DEF ClaimedBy
    <1>3. Nat \subseteq T
        <2> HIDE DEF T
        <2> QED
            BY <1>1, <1>2, Induction
    <1> QED
        BY <1>0, <1>3

\* A walk with nothing left to do has left nothing out.
LEMMA AccountsCover ==
    ASSUME SameUnderEveryName, NEW K, NEW got, Accounts(K, {}, {}, got)
    PROVE  CoversTree(got)
    <1>1. ASSUME NEW r \in RootSet PROVE ItemsOf("must", r, r) \subseteq got
        <2>1. Discharged(K, got, RootEntry(r))
            BY DEF Accounts, Settled
        <2> QED
            BY <2>1 DEF Discharged, RootEntry
    <1>2. ASSUME NEW d \in MustEnter
          PROVE  \E alias \in MayEnter : /\ Tree[alias.path].id = Tree[d.path].id
                                        /\ Harvest("must", alias) \subseteq got
        <2>1. PICK n \in 0 .. Deepest : d \in Levels("must")[n]
            BY DEF MustEnter, Entered
        <2>2. PICK k \in K : Tree[k.dir.path].id = Tree[d.path].id /\ (MaxDepth = NoLimit \/ k.depth <= n)
            BY <2>1, AllAreClaimed DEF ClaimedBy
        <2>3. k.depth \in Nat
            BY DEF Accounts, Claims
        <2>4. Recurse(k.depth)
            BY <2>2, <2>3, TimelyIsListed
        <2> QED
            BY <2>2, <2>4, HarvestIsIn
    <1> QED
        BY <1>1, <1>2 DEF CoversTree
=============================================================================
