---------------------------- MODULE ScriptProofs ----------------------------
(***************************************************************************)
(* Proofs about the scripts of skills, from the package that brings them   *)
(* in to the process that runs one.                                        *)
(*                                                                         *)
(* SkillImport: for any packages, limits and names, the limits of an       *)
(* import imply those of the editor, a script goes to the innermost skill  *)
(* around it, and a commit changes what exists only if it was told to.     *)
(*                                                                         *)
(* SandboxRun: for any number of requests and slots and any timeouts.      *)
(***************************************************************************)
EXTENDS SkillImport, SandboxRun, SequenceTheorems, FiniteSetTheorems,
        WellFoundedInduction, TLAPS

-----------------------------------------------------------------------------
(* Skill imports: finite sets of positions. *)

LEMMA Limits ==
    /\ MaxFiles \in Nat /\ MaxFileBytes \in Nat /\ MaxScriptBytes \in Nat
    /\ MaxSkillBytes \in Nat /\ MaxRedirects \in Nat
    /\ None \notin Names
  BY ImportAssumption

\* A family of subsets of a finite set has a smallest member.
LEMMA SmallestOf ==
    ASSUME NEW S, IsFiniteSet(S), NEW F \in SUBSET SUBSET S, F # {}
    PROVE  \E A \in F : \A B \in F : B \subseteq A => B = A
<1>1. IsWellFoundedOn(StrictSubsetOrdering(S), SUBSET S)
  BY FS_StrictSubsetOrderingWellFounded, FS_FiniteSubsetsOfFinite
<1>2. PICK A \in F : \A B \in F : ~(<<B, A>> \in StrictSubsetOrdering(S))
  BY <1>1, WFMin
<1>3. ASSUME NEW B \in F, B \subseteq A PROVE B = A
  BY <1>2, <1>3 DEF StrictSubsetOrdering
<1>4. QED
  BY <1>3

LEMMA MaxFacts ==
    ASSUME NEW S \in SUBSET Nat, IsFiniteSet(S), S # {}
    PROVE  Max(S) \in S /\ \A i \in S : i <= Max(S)
<1> DEFINE Above(i) == {j \in S : j >= i}
           F == {Above(i) : i \in S}
<1>1. F \in SUBSET SUBSET S /\ F # {}
  OBVIOUS
<1>2. \A A \in F : \E i \in S : A = Above(i)
  OBVIOUS
<1>3. \A i \in S : Above(i) \in F
  OBVIOUS
<1>4. PICK A \in F : \A B \in F : B \subseteq A => B = A
  <2> DEFINE T == S
  <2>1. F \in SUBSET SUBSET T /\ F # {} /\ IsFiniteSet(T)
    BY <1>1
  <2> HIDE DEF F, T
  <2>2. QED
    BY <2>1, SmallestOf
<1> HIDE DEF F
<1>5. PICK i \in S : A = Above(i)
  BY <1>2
<1>6. \A j \in S : j <= i
  <2> SUFFICES ASSUME NEW j \in S, ~(j <= i) PROVE FALSE
    OBVIOUS
  <2>1. i \in Nat /\ j \in Nat /\ j > i
    OBVIOUS
  <2>2. Above(j) \subseteq Above(i) /\ i \in Above(i) /\ i \notin Above(j)
    <3>1. \A k \in S : k \in Nat /\ (k >= j => k >= i) /\ i >= i /\ ~(i >= j)
      BY <2>1
    <3>2. QED
      BY <3>1
  <2> HIDE DEF Above
  <2>3. QED
    BY <1>3, <1>4, <1>5, <2>2
<1>7. \E x \in S : \A y \in S : x >= y
  BY <1>6
<1>8. Max(S) \in S /\ \A y \in S : Max(S) >= y
  BY <1>7 DEF Max
<1>9. QED
  BY <1>8

\* Positions and their ranks determine each other.
LEMMA RankFacts ==
    ASSUME NEW n \in Nat, NEW P \in SUBSET (1..n)
    PROVE  /\ IsFiniteSet(P) /\ Cardinality(P) \in Nat
           /\ \A i \in P : Rank(i, P) \in 1..Cardinality(P)
           /\ \A i, j \in P : Rank(i, P) = Rank(j, P) => i = j
           /\ \A k \in 1..Cardinality(P) : Nth(k, P) \in P /\ Rank(Nth(k, P), P) = k
<1> DEFINE UpTo(i) == {j \in P : j <= i}
           c == Cardinality(P)
<1>1. IsFiniteSet(P) /\ c \in Nat
  <2>1. IsFiniteSet(1..n)
    BY FS_Interval
  <2>2. QED
    BY <2>1, FS_Subset, FS_CardinalityType
<1>2. \A i \in P : IsFiniteSet(UpTo(i)) /\ Cardinality(UpTo(i)) \in 1..c
  <2> TAKE i \in P
  <2>1. UpTo(i) \in SUBSET P /\ i \in UpTo(i)
    OBVIOUS
  <2> HIDE DEF UpTo
  <2>2. IsFiniteSet(UpTo(i)) /\ Cardinality(UpTo(i)) <= c /\ Cardinality(UpTo(i)) \in Nat
    BY <1>1, <2>1, FS_Subset, FS_CardinalityType
  <2>3. Cardinality(UpTo(i)) # 0
    BY <2>1, <2>2, FS_EmptySet
  <2>4. QED
    BY <1>1, <2>2, <2>3
<1>3. \A i, j \in P : Cardinality(UpTo(i)) = Cardinality(UpTo(j)) => ~(i < j)
  <2> SUFFICES ASSUME NEW i \in P, NEW j \in P, i < j,
                      Cardinality(UpTo(i)) = Cardinality(UpTo(j))
               PROVE  FALSE
    OBVIOUS
  <2>1. UpTo(i) \in SUBSET UpTo(j) /\ j \in UpTo(j) /\ j \notin UpTo(i)
    <3>1. i \in Nat /\ j \in Nat /\ \A k \in P : k \in Nat
      OBVIOUS
    <3>2. \A k \in P : k <= i => k <= j
      BY <3>1
    <3>3. j <= j /\ ~(j <= i)
      BY <3>1
    <3>4. QED
      BY <3>2, <3>3
  <2> HIDE DEF UpTo
  <2>2. QED
    BY <1>2, <2>1, FS_Subset
<1>4. \A i, j \in P : Cardinality(UpTo(i)) = Cardinality(UpTo(j)) => i = j
  <2> SUFFICES ASSUME NEW i \in P, NEW j \in P, i # j,
                      Cardinality(UpTo(i)) = Cardinality(UpTo(j))
               PROVE  FALSE
    OBVIOUS
  <2>1. i < j \/ j < i
    OBVIOUS
  <2> HIDE DEF UpTo
  <2>2. QED
    BY <1>3, <2>1
<1> DEFINE rank == [i \in P |-> Cardinality(UpTo(i))]
<1>5. rank \in Surjection(P, 1..c)
  <2>1. rank \in [P -> 1..c]
    BY <1>2
  <2>2. \A i, j \in P : rank[i] = rank[j] => i = j
    BY <1>4
  <2> HIDE DEF rank
  <2>3. rank \in Injection(P, 1..c)
    BY <2>1, <2>2 DEF Injection, IsInjective
  <2>4. IsFiniteSet(1..c) /\ Cardinality(1..c) = c
    <3> HIDE DEF c
    <3>1. 1 \in Int /\ c \in Int
      BY <1>1
    <3>2. IsFiniteSet(1..c) /\ Cardinality(1..c) = IF 1 > c THEN 0 ELSE c - 1 + 1
      BY <3>1, FS_Interval
    <3>3. QED
      BY <1>1, <3>2
  <2> DEFINE T == 1..c
  <2>5. rank \in Injection(P, T) /\ IsFiniteSet(T) /\ Cardinality(P) = Cardinality(T)
    BY <2>3, <2>4
  <2> HIDE DEF T
  <2>6. rank \in Surjection(P, T)
    BY <2>5, FS_Injection
  <2>7. QED
    BY <2>6 DEF T
<1>6. \A k \in 1..c : \E i \in P : Cardinality(UpTo(i)) = k
  BY <1>5 DEF Surjection
<1>7. \A i : Rank(i, P) = Cardinality(UpTo(i))
  BY DEF Rank
<1> HIDE DEF UpTo, c, rank
<1>8. \A k \in 1..c : Nth(k, P) \in P /\ Rank(Nth(k, P), P) = k
  BY <1>6, <1>7 DEF Nth
<1>9. QED
  BY <1>1, <1>2, <1>4, <1>7, <1>8 DEF c

-----------------------------------------------------------------------------
(* Paths. *)

LEMMA PrefixMeans ==
    ASSUME NEW s \in Seq(STRING), NEW t \in Seq(STRING)
    PROVE  IsPrefix(s, t) <=> Len(s) <= Len(t) /\ \A k \in 1..Len(s) : s[k] = t[k]
<1>1. Len(s) \in Nat /\ Len(t) \in Nat /\ \A k \in 1..Len(s) : s[k] \in STRING
  OBVIOUS
<1> DEFINE a == SubSeq(s, 1, Len(s))
           b == SubSeq(t, 1, Len(s))
<1>2. /\ a \in Seq(STRING) /\ Len(a) = Len(s)
      /\ \A k \in 1..Len(s) : a[k] = s[k]
  <2>1. /\ a \in Seq(STRING) /\ Len(a) = IF 1 <= Len(s) THEN Len(s) - 1 + 1 ELSE 0
        /\ \A k \in 1..(Len(s) - 1 + 1) : a[k] = s[1 + k - 1]
    BY <1>1, SubSeqProperties
  <2>2. QED
    BY <1>1, <2>1
<1>3. ASSUME Len(s) <= Len(t)
      PROVE  /\ b \in Seq(STRING) /\ Len(b) = Len(s)
             /\ \A k \in 1..Len(s) : b[k] = t[k]
  <2>1. \A k \in 1..Len(s) : t[k] \in STRING
    BY <1>1, <1>3
  <2>2. /\ b \in Seq(STRING) /\ Len(b) = IF 1 <= Len(s) THEN Len(s) - 1 + 1 ELSE 0
        /\ \A k \in 1..(Len(s) - 1 + 1) : b[k] = t[1 + k - 1]
    BY <1>1, <2>1, SubSeqProperties
  <2>3. QED
    BY <1>1, <2>2
<1>4. ASSUME Len(s) <= Len(t) PROVE a = b <=> \A k \in 1..Len(s) : s[k] = t[k]
  <2> HIDE DEF a, b
  <2>1. (\A k \in 1..Len(s) : s[k] = t[k]) => a = b
    BY <1>2, <1>3, <1>4, SeqEqual
  <2>2. QED
    BY <1>2, <1>3, <1>4, <2>1
<1>5. IsPrefix(s, t) <=> Len(s) <= Len(t) /\ a = b
  BY DEF IsPrefix
<1> HIDE DEF a, b
<1>6. QED
  BY <1>4, <1>5

LEMMA BelowFacts ==
    ASSUME NEW e \in Entry, NEW root \in Seq(STRING)
    PROVE  /\ Below(e, root) \in File
           /\ Last(Below(e, root).path) = e.base
           /\ Below(e, root).size = e.size
           /\ Below(e, root).script = IsScript(e)
           /\ Len(root) <= Len(e.dir) =>
                 /\ Len(Below(e, root).path) = Len(e.dir) - Len(root) + 1
                 /\ \A k \in 1..(Len(e.dir) - Len(root)) :
                       Below(e, root).path[k] = e.dir[Len(root) + k]
<1>1. /\ e.dir \in Seq(STRING) /\ e.base \in STRING /\ e.size \in Nat
      /\ Len(e.dir) \in Nat /\ Len(root) \in Nat
  BY DEF Entry
<1>2. \A k \in (Len(root) + 1)..Len(e.dir) : e.dir[k] \in STRING
  BY <1>1
<1> DEFINE s == SubSeq(e.dir, Len(root) + 1, Len(e.dir))
           path == Append(s, e.base)
<1>3. /\ s \in Seq(STRING)
      /\ Len(s) = IF Len(root) + 1 <= Len(e.dir) THEN Len(e.dir) - (Len(root) + 1) + 1 ELSE 0
      /\ \A k \in 1..(Len(e.dir) - (Len(root) + 1) + 1) : s[k] = e.dir[Len(root) + 1 + k - 1]
  <2>1. Len(root) + 1 \in Int /\ Len(e.dir) \in Int
    BY <1>1
  <2>2. QED
    BY <1>2, <2>1, SubSeqProperties
<1> HIDE DEF s
<1>4. /\ path \in Seq(STRING) /\ Len(path) = Len(s) + 1
      /\ \A k \in 1..Len(s) : path[k] = s[k]
      /\ path[Len(s) + 1] = e.base
  BY <1>1, <1>3, AppendProperties
<1>5. Below(e, root) = [path |-> path, size |-> e.size, script |-> IsScript(e)]
  BY DEF Below, s
<1> HIDE DEF path
<1>6. /\ Below(e, root).path = path /\ Below(e, root).size = e.size
      /\ Below(e, root).script = IsScript(e)
  BY <1>5
<1>7. IsScript(e) \in BOOLEAN
  BY DEF IsScript
<1>8. Below(e, root) \in File
  BY <1>1, <1>4, <1>5, <1>7 DEF File
<1>9. Last(path) = e.base
  BY <1>4 DEF Last
<1>10. ASSUME Len(root) <= Len(e.dir)
       PROVE  /\ Len(path) = Len(e.dir) - Len(root) + 1
              /\ \A k \in 1..(Len(e.dir) - Len(root)) : path[k] = e.dir[Len(root) + k]
  <2>1. Len(s) = Len(e.dir) - Len(root)
    BY <1>1, <1>3, <1>10
  <2>2. \A k \in 1..(Len(e.dir) - Len(root)) : s[k] = e.dir[Len(root) + k]
    BY <1>1, <1>3
  <2>3. QED
    BY <1>1, <1>4, <2>1, <2>2
<1>11. QED
  BY <1>6, <1>8, <1>9, <1>10

\* The directory of an entry within a root is known from its relative path.
LEMMA BelowTells ==
    ASSUME NEW e \in Entry, NEW d \in Entry, NEW root \in Seq(STRING),
           Within(e, root), Within(d, root), Below(e, root) = Below(d, root)
    PROVE  e.dir = d.dir
<1>1. /\ e.dir \in Seq(STRING) /\ d.dir \in Seq(STRING)
      /\ Len(e.dir) \in Nat /\ Len(d.dir) \in Nat /\ Len(root) \in Nat
  BY DEF Entry
<1>2. /\ Len(root) <= Len(e.dir) /\ \A k \in 1..Len(root) : root[k] = e.dir[k]
      /\ Len(root) <= Len(d.dir) /\ \A k \in 1..Len(root) : root[k] = d.dir[k]
  BY <1>1, PrefixMeans DEF Within
<1> DEFINE path == Below(e, root).path
<1>3. /\ Len(path) = Len(e.dir) - Len(root) + 1
      /\ \A k \in 1..(Len(e.dir) - Len(root)) : path[k] = e.dir[Len(root) + k]
  BY <1>2, BelowFacts
<1>4. /\ Len(path) = Len(d.dir) - Len(root) + 1
      /\ \A k \in 1..(Len(d.dir) - Len(root)) : path[k] = d.dir[Len(root) + k]
  BY <1>2, BelowFacts
<1> HIDE DEF path
<1>5. Len(e.dir) = Len(d.dir)
  BY <1>1, <1>3, <1>4
<1>6. ASSUME NEW k \in 1..Len(e.dir) PROVE e.dir[k] = d.dir[k]
  <2>1. CASE k <= Len(root)
    BY <1>1, <1>2, <2>1
  <2>2. CASE ~(k <= Len(root))
    <3>1. /\ k - Len(root) \in 1..(Len(e.dir) - Len(root)) /\ Len(root) + (k - Len(root)) = k
          /\ Len(e.dir) - Len(root) = Len(d.dir) - Len(root)
      BY <1>1, <1>5, <2>2
    <3>2. path[k - Len(root)] = e.dir[k] /\ path[k - Len(root)] = d.dir[k]
      BY <1>3, <1>4, <3>1
    <3>3. QED
      BY <3>2
  <2>3. QED
    BY <2>1, <2>2
<1>7. QED
  BY <1>1, <1>5, <1>6, SeqEqual

-----------------------------------------------------------------------------
(* Skill imports: the parts of a package. *)

LEMMA PartsFacts ==
    ASSUME NEW package \in Packages
    PROVE  /\ Len(package) \in Nat /\ DOMAIN package = 1..Len(package)
           /\ \A i \in DOMAIN package :
                 /\ package[i] \in Entry
                 /\ package[i].dir \in Seq(STRING)
                 /\ package[i].size \in Nat
           /\ Files(package) \in SUBSET (1..Len(package))
           /\ Texts(package) \in SUBSET Files(package)
           /\ ScriptsIn(package) \in SUBSET Files(package)
           /\ Roots(package) \in SUBSET Texts(package)
           /\ SkillRoots(package) \in SUBSET Roots(package)
           /\ Roots(package) \in SUBSET (1..Len(package))
           /\ SkillRoots(package) \in SUBSET (1..Len(package))
<1>1. package \in Seq(Entry)
  BY SourcesAssumption
<1>2. Len(package) \in Nat /\ DOMAIN package = 1..Len(package)
  BY <1>1
<1>3. \A i \in 1..Len(package) : package[i] \in Entry
  BY <1>1
<1>4. \A e \in Entry : e.dir \in Seq(STRING) /\ e.size \in Nat
  BY DEF Entry
<1>5. /\ Files(package) \in SUBSET (1..Len(package))
      /\ Texts(package) \in SUBSET Files(package)
      /\ ScriptsIn(package) \in SUBSET Files(package)
      /\ Roots(package) \in SUBSET Texts(package)
      /\ SkillRoots(package) \in SUBSET Roots(package)
  BY <1>2 DEF Files, Texts, ScriptsIn, Roots, SkillRoots
<1>6. QED
  BY <1>2, <1>3, <1>4, <1>5

LEMMA InnermostFacts ==
    ASSUME NEW package \in Packages, NEW e, Around(package, e) # {}
    PROVE  LET i == Innermost(package, e) IN
           /\ i \in Around(package, e)
           /\ \A j \in Around(package, e) :
                 \/ Len(package[j].dir) < Len(package[i].dir)
                 \/ Len(package[j].dir) = Len(package[i].dir) /\ i <= j
<1> DEFINE S == Around(package, e)
           D(i) == Len(package[i].dir)
           Ahead(i) == {j \in S : D(j) > D(i) \/ (D(j) = D(i) /\ j <= i)}
           F == {Ahead(i) : i \in S}
<1>1. S \in SUBSET (1..Len(package)) /\ S # {} /\ \A i \in S : i \in Nat /\ D(i) \in Nat
  <2>1. S \in SUBSET (1..Len(package))
    BY PartsFacts DEF Around
  <2>2. \A i \in 1..Len(package) : i \in Nat /\ D(i) \in Nat
    BY PartsFacts
  <2>3. QED
    BY <2>1, <2>2
<1>2. IsFiniteSet(S)
  <2>1. IsFiniteSet(1..Len(package))
    BY PartsFacts, FS_Interval
  <2> HIDE DEF S
  <2>2. QED
    BY <1>1, <2>1, FS_Subset
<1> HIDE DEF S, D
<1>3. F \in SUBSET SUBSET S /\ F # {}
  BY <1>1
<1>4. \A A \in F : \E i \in S : A = Ahead(i)
  OBVIOUS
<1>5. \A i \in S : Ahead(i) \in F
  OBVIOUS
<1> HIDE DEF F
<1>6. PICK A \in F : \A B \in F : B \subseteq A => B = A
  BY <1>2, <1>3, SmallestOf
<1>7. PICK i \in S : A = Ahead(i)
  BY <1>4
<1>8. \A j \in S : D(j) < D(i) \/ (D(j) = D(i) /\ i <= j)
  <2> SUFFICES ASSUME NEW j \in S, ~(D(j) < D(i) \/ (D(j) = D(i) /\ i <= j)) PROVE FALSE
    OBVIOUS
  <2>1. /\ i \in Nat /\ j \in Nat /\ D(i) \in Nat /\ D(j) \in Nat
        /\ D(j) > D(i) \/ (D(j) = D(i) /\ j < i)
    BY <1>1
  <2>2. \A k \in S : k \in Nat /\ D(k) \in Nat
    BY <1>1
  <2>3. Ahead(j) \subseteq Ahead(i)
    <3>1. ASSUME NEW k \in S, D(k) > D(j) \/ (D(k) = D(j) /\ k <= j)
          PROVE  D(k) > D(i) \/ (D(k) = D(i) /\ k <= i)
      <4>1. k \in Nat /\ D(k) \in Nat
        BY <2>2
      <4>2. QED
        BY <2>1, <3>1, <4>1
    <3>2. QED
      BY <3>1
  <2>4. i \in Ahead(i) /\ i \notin Ahead(j)
    BY <2>1
  <2> HIDE DEF Ahead
  <2>5. QED
    BY <1>5, <1>6, <1>7, <2>3, <2>4
<1>9. \E k \in S : \A j \in S : D(j) < D(k) \/ (D(j) = D(k) /\ k <= j)
  BY <1>8
<1>10. Innermost(package, e) = CHOOSE k \in S : \A j \in S : D(j) < D(k) \/ (D(j) = D(k) /\ k <= j)
  BY DEF Innermost, S, D
<1>11. QED
  BY <1>9, <1>10 DEF S, D

\* The root of a group is the directory of a SKILL.md.
LEMMA RootFacts ==
    ASSUME NEW package \in Packages, NEW k \in 1..Cardinality(SkillRoots(package))
    PROVE  /\ Nth(k, SkillRoots(package)) \in SkillRoots(package)
           /\ Rank(Nth(k, SkillRoots(package)), SkillRoots(package)) = k
           /\ package[Nth(k, SkillRoots(package))].dir \in Seq(STRING)
<1>1. /\ SkillRoots(package) \in SUBSET (1..Len(package)) /\ Len(package) \in Nat
      /\ DOMAIN package = 1..Len(package)
  BY PartsFacts
<1>2. /\ Nth(k, SkillRoots(package)) \in SkillRoots(package)
      /\ Rank(Nth(k, SkillRoots(package)), SkillRoots(package)) = k
  BY <1>1, RankFacts
<1>3. QED
  BY <1>1, <1>2, PartsFacts

\* A SKILL.md that is listed makes the declaration of its directory one that
\* some SKILL.md makes.
LEMMA DeclaredType ==
    ASSUME NEW package \in Packages, NEW h \in Roots(package)
    PROVE  Declared(package, package[h].dir) \in Names \cup {None}
<1> DEFINE S == {i \in Roots(package) : package[i].dir = package[h].dir}
<1>1. S \in SUBSET (1..Len(package)) /\ h \in S /\ Len(package) \in Nat
  BY PartsFacts
<1>2. IsFiniteSet(1..Len(package)) /\ S \in SUBSET Nat
  BY <1>1, FS_Interval
<1> HIDE DEF S
<1>3. IsFiniteSet(S) /\ S # {}
  BY <1>1, <1>2, FS_Subset
<1>4. Max(S) \in S
  BY <1>2, <1>3, MaxFacts
<1>5. package[Max(S)] \in Entry
  BY <1>1, <1>4, PartsFacts
<1>6. QED
  BY <1>5 DEF Declared, S, Entry

-----------------------------------------------------------------------------
(* What an import stores passes the gate of the editor. *)

LEMMA FewerThings ==
    ASSUME NEW F, NEW P, IsFiniteSet(P), NEW src \in [F -> P],
           \A f, g \in F : src[f] = src[g] => f = g
    PROVE  IsFiniteSet(F) /\ Cardinality(F) <= Cardinality(P)
<1>1. src \in Injection(F, P)
  BY DEF Injection, IsInjective
<1>2. QED
  BY <1>1, FS_Injection

\* Things that come from different others of the same sizes are not more bytes.
LEMMA FewerBytes ==
    ASSUME NEW F, NEW P, NEW src \in [F -> P], \A f, g \in F : src[f] = src[g] => f = g,
           NEW size \in [P -> Nat], NEW bytes \in [F -> Nat],
           \A f \in F : bytes[f] = size[src[f]],
           IsFiniteSet(Bytes(size))
    PROVE  Total(bytes) <= Total(size) /\ IsFiniteSet(Bytes(bytes))
<1> DEFINE B == Bytes(bytes)
           C == Bytes(size)
           to == [b \in B |-> <<src[b[1]], b[2]>>]
<1>1. \A b \in B : b = <<b[1], b[2]>> /\ b[1] \in F /\ b[2] \in 1..bytes[b[1]]
  BY DEF Bytes
<1>2. \A x \in P : \A k \in 1..size[x] : <<x, k>> \in C
  BY DEF Bytes
<1> HIDE DEF B, C
<1>3. to \in [B -> C]
  <2>1. ASSUME NEW b \in B PROVE <<src[b[1]], b[2]>> \in C
    <3>1. src[b[1]] \in P /\ b[2] \in 1..size[src[b[1]]]
      BY <1>1
    <3>2. QED
      BY <1>2, <3>1
  <2>2. QED
    BY <2>1
<1>4. \A a, b \in B : to[a] = to[b] => a = b
  <2> SUFFICES ASSUME NEW a \in B, NEW b \in B, to[a] = to[b] PROVE a = b
    OBVIOUS
  <2>1. src[a[1]] = src[b[1]] /\ a[2] = b[2]
    OBVIOUS
  <2>2. a[1] = b[1]
    BY <1>1, <2>1
  <2>3. QED
    BY <1>1, <2>1, <2>2
<1>5. IsFiniteSet(C)
  BY DEF C
<1> HIDE DEF to
<1>6. Cardinality(B) <= Cardinality(C) /\ IsFiniteSet(B)
  BY <1>3, <1>4, <1>5, FewerThings
<1>7. QED
  BY <1>6 DEF Total, B, C

\* The bytes of a package that is unpacked are finitely many.
LEMMA PackageBytes ==
    ASSUME NEW package \in Packages, Unpacks(package)
    PROVE  LET size == [i \in Files(package) |-> package[i].size] IN
           /\ size \in [Files(package) -> Nat]
           /\ IsFiniteSet(Bytes(size))
           /\ Total(size) \in Nat
           /\ IsFiniteSet(Files(package))
           /\ Cardinality(Files(package)) <= MaxFiles
<1> DEFINE P == Files(package)
           size == [i \in P |-> package[i].size]
           T == 1..MaxFileBytes
<1>1. P \in SUBSET (1..Len(package)) /\ Len(package) \in Nat /\ Len(package) <= MaxFiles
  BY PartsFacts DEF Unpacks
<1>2. IsFiniteSet(1..Len(package)) /\ Cardinality(1..Len(package)) = Len(package)
  <2>1. 1 \in Int /\ Len(package) \in Int
    BY <1>1
  <2>2. IsFiniteSet(1..Len(package))
        /\ Cardinality(1..Len(package)) = IF 1 > Len(package) THEN 0 ELSE Len(package) - 1 + 1
    BY <2>1, FS_Interval
  <2>3. QED
    BY <1>1, <2>2
<1>3. size \in [P -> Nat] /\ \A i \in P : size[i] <= MaxFileBytes
  BY <1>1, PartsFacts DEF Unpacks
<1> HIDE DEF P, size
<1>4. IsFiniteSet(P) /\ Cardinality(P) <= Len(package) /\ Cardinality(P) \in Nat
  BY <1>1, <1>2, FS_Subset, FS_CardinalityType
<1>5. IsFiniteSet(T)
  BY Limits, FS_Interval
<1>6. Bytes(size) \in SUBSET (P \X T)
  BY <1>3, Limits DEF Bytes
<1> HIDE DEF T
<1>7. IsFiniteSet(P \X T)
  BY <1>4, <1>5, FS_Product
<1>8. IsFiniteSet(Bytes(size)) /\ Total(size) \in Nat
  BY <1>6, <1>7, FS_Subset, FS_CardinalityType DEF Total
<1>9. Cardinality(P) <= MaxFiles
  BY <1>1, <1>4, Limits
<1>10. QED
  BY <1>3, <1>4, <1>8, <1>9 DEF P, size

\* Every attachment of a group comes from an entry of its own.
LEMMA FilesOrigin ==
    ASSUME NEW package \in Packages, NEW k \in 1..Cardinality(SkillRoots(package))
    PROVE  \E src \in [GroupAt(package, k).files -> Files(package)] :
              /\ \A f, g \in GroupAt(package, k).files : src[f] = src[g] => f = g
              /\ \A f \in GroupAt(package, k).files :
                    /\ f \in File
                    /\ f.size = package[src[f]].size
                    /\ f.script => Last(f.path) \in Scripts /\ f.size <= MaxScriptBytes
<1> DEFINE root == package[Nth(k, SkillRoots(package))].dir
           home(i) == package[Innermost(package, package[i])].dir
           mine == Homed(package, ScriptsIn(package), k)
           files == GroupAt(package, k).files
           from(i) == IF i \in ScriptsIn(package) THEN Below(package[i], home(i))
                                                  ELSE Below(package[i], root)
<1>1. files = TextFiles(package, root) \cup {Below(package[i], home(i)) : i \in mine}
  BY DEF GroupAt
<1>2. root \in Seq(STRING)
  BY RootFacts
<1>3. \A i \in mine : i \in ScriptsIn(package) /\ home(i) \in Seq(STRING)
  <2> TAKE i \in mine
  <2>1. i \in ScriptsIn(package) /\ Around(package, package[i]) # {}
    BY DEF Homed
  <2>2. Innermost(package, package[i]) \in Around(package, package[i])
    BY <2>1, InnermostFacts
  <2>3. Innermost(package, package[i]) \in DOMAIN package
    BY <2>2, PartsFacts DEF Around
  <2>4. QED
    BY <2>1, <2>3, PartsFacts
<1>4. \A i \in Files(package) : package[i] \in Entry
  BY PartsFacts
<1> HIDE DEF home, root, mine
<1>5. ASSUME NEW f \in files
      PROVE  \E i \in Files(package) :
                /\ from(i) = f
                /\ f \in File /\ f.size = package[i].size
                /\ f.script => Last(f.path) \in Scripts /\ f.size <= MaxScriptBytes
  <2>1. CASE f \in TextFiles(package, root)
    <3>1. PICK i \in Texts(package) : f = Below(package[i], root)
      BY <2>1 DEF TextFiles
    <3>2. i \in Files(package) /\ ~IsScript(package[i]) /\ i \notin ScriptsIn(package)
      BY <3>1 DEF Texts, ScriptsIn
    <3>3. f \in File /\ f.size = package[i].size /\ f.script = IsScript(package[i])
      BY <1>2, <1>4, <3>1, <3>2, BelowFacts
    <3>4. QED
      BY <3>1, <3>2, <3>3
  <2>2. CASE f \in {Below(package[i], home(i)) : i \in mine}
    <3>1. PICK i \in mine : f = Below(package[i], home(i))
      BY <2>2
    <3>2. /\ i \in Files(package) /\ i \in ScriptsIn(package) /\ home(i) \in Seq(STRING)
          /\ IsScript(package[i]) /\ Fits(package[i])
      BY <1>3, <3>1 DEF ScriptsIn
    <3>3. f \in File /\ f.size = package[i].size /\ Last(f.path) = package[i].base
      BY <1>4, <3>1, <3>2, BelowFacts
    <3>4. QED
      BY <3>1, <3>2, <3>3 DEF IsScript, Fits
  <2>3. QED
    BY <1>1, <1>5, <2>1, <2>2
<1> HIDE DEF from, files
<1> DEFINE origin(f, i) == /\ from(i) = f
                           /\ f \in File /\ f.size = package[i].size
                           /\ f.script => Last(f.path) \in Scripts /\ f.size <= MaxScriptBytes
           src == [f \in files |-> CHOOSE i \in Files(package) : origin(f, i)]
<1>6. \A f \in files : src[f] \in Files(package) /\ origin(f, src[f])
  BY <1>5
<1>7. src \in [files -> Files(package)]
  BY <1>6
<1> HIDE DEF src
<1>8. \A f, g \in files : src[f] = src[g] => f = g
  BY <1>6
<1>9. QED
  BY <1>6, <1>7, <1>8 DEF files

LEMMA GroupAccepted ==
    ASSUME NEW package \in Packages, Unpacks(package),
           NEW k \in 1..Cardinality(SkillRoots(package))
    PROVE  Accepts(GroupAt(package, k).files) /\ GroupAt(package, k).files \in SUBSET File
<1> DEFINE files == GroupAt(package, k).files
           size == [i \in Files(package) |-> package[i].size]
           bytes == [f \in files |-> f.size]
<1>1. PICK src \in [files -> Files(package)] :
         /\ \A f, g \in files : src[f] = src[g] => f = g
         /\ \A f \in files :
               /\ f \in File
               /\ f.size = package[src[f]].size
               /\ f.script => Last(f.path) \in Scripts /\ f.size <= MaxScriptBytes
  BY FilesOrigin
<1>2. /\ size \in [Files(package) -> Nat]
      /\ IsFiniteSet(Bytes(size)) /\ Total(size) \in Nat
      /\ IsFiniteSet(Files(package)) /\ Cardinality(Files(package)) <= MaxFiles
  BY PackageBytes
<1>3. Total(size) <= MaxSkillBytes /\ \A i \in Files(package) : package[i].size <= MaxFileBytes
  BY DEF Unpacks
<1>4. \A f \in files : f.size = size[src[f]]
  BY <1>1
<1> HIDE DEF files, size
<1>5. bytes \in [files -> Nat] /\ \A f \in files : bytes[f] = size[src[f]]
  BY <1>1, <1>4 DEF File
<1> HIDE DEF bytes
<1>6. Total(bytes) <= Total(size) /\ IsFiniteSet(Bytes(bytes))
  <2> DEFINE P == Files(package)
  <2>1. src \in [files -> P] /\ \A f, g \in files : src[f] = src[g] => f = g
    BY <1>1
  <2>2. size \in [P -> Nat] /\ IsFiniteSet(Bytes(size))
    BY <1>2
  <2> HIDE DEF P
  <2>3. QED
    BY <1>5, <2>1, <2>2, FewerBytes
<1>7. IsFiniteSet(files) /\ Cardinality(files) <= Cardinality(Files(package))
  BY <1>1, <1>2, FewerThings
<1>8. Cardinality(files) <= MaxFiles
  <2>1. Cardinality(files) \in Nat /\ Cardinality(Files(package)) \in Nat
    BY <1>2, <1>7, FS_CardinalityType
  <2>2. QED
    BY <1>2, <1>7, <2>1, Limits
<1>9. Total(bytes) <= MaxSkillBytes
  <2>1. Total(bytes) \in Nat
    BY <1>6, FS_CardinalityType DEF Total
  <2>2. QED
    BY <1>2, <1>3, <1>6, <2>1, Limits
<1>10. \A f \in files :
          IF f.script THEN Last(f.path) \in Scripts /\ f.size <= MaxScriptBytes
                      ELSE f.size <= MaxFileBytes
  BY <1>1, <1>3
<1>11. Accepts(files)
  BY <1>8, <1>9, <1>10 DEF Accepts, bytes
<1>12. QED
  BY <1>1, <1>11 DEF files

-----------------------------------------------------------------------------
(* Scripts go to the innermost skill. *)

\* Without repeated SKILL.md the two lists of roots are the same.
LEMMA RootsAgree ==
    ASSUME NEW package \in Packages, Regular(package)
    PROVE  /\ SkillRoots(package) = Roots(package)
           /\ \A i, j \in Roots(package) : package[i].dir = package[j].dir => i = j
<1>1. \A i \in Roots(package) : i \in DOMAIN package /\ IsSkill(package[i]) /\ i \in Nat
  BY PartsFacts DEF Roots
<1>2. \A i, j \in Roots(package) : package[i].dir = package[j].dir => i = j
  BY <1>1 DEF Regular
<1>3. \A i \in Roots(package) : i <= i
  BY <1>1
<1>4. QED
  BY <1>2, <1>3 DEF SkillRoots

\* Of two roots around an entry the shorter one is around the other.
LEMMA RootsNest ==
    ASSUME NEW e \in Entry, NEW s \in Seq(STRING), NEW t \in Seq(STRING),
           Within(e, s), Within(e, t)
    PROVE  /\ IsPrefix(s, t) <=> Len(s) <= Len(t)
           /\ Len(s) = Len(t) => s = t
<1>1. e.dir \in Seq(STRING) /\ Len(s) \in Nat /\ Len(t) \in Nat
  BY DEF Entry
<1>2. /\ \A k \in 1..Len(s) : s[k] = e.dir[k]
      /\ \A k \in 1..Len(t) : t[k] = e.dir[k]
  BY <1>1, PrefixMeans DEF Within
<1>3. Len(s) <= Len(t) => \A k \in 1..Len(s) : s[k] = t[k]
  BY <1>1, <1>2
<1>4. Len(s) = Len(t) => s = t
  BY <1>1, <1>3, SeqEqual
<1>5. QED
  BY <1>3, <1>4, PrefixMeans

LEMMA HomeIsInnermost ==
    ASSUME NEW package \in Packages, Regular(package),
           NEW i \in ScriptsIn(package), NEW k \in 1..Cardinality(Roots(package)),
           Within(package[i], package[Nth(k, Roots(package))].dir)
    PROVE  Below(package[i], package[Nth(k, Roots(package))].dir) \in GroupAt(package, k).files
              <=> Innermost(package, package[i]) = Nth(k, Roots(package))
<1> DEFINE R == Roots(package)
           h == Nth(k, R)
           e == package[i]
           root == package[h].dir
           home(j) == package[Innermost(package, package[j])].dir
           mine == Homed(package, ScriptsIn(package), k)
           files == GroupAt(package, k).files
<1>1. SkillRoots(package) = R
  BY RootsAgree
<1>2. h \in R /\ Rank(h, R) = k /\ root \in Seq(STRING)
  BY <1>1, RootFacts
<1>3. files = TextFiles(package, root) \cup {Below(package[j], home(j)) : j \in mine}
  BY <1>1 DEF GroupAt
<1>4. i \in Files(package) /\ e \in Entry /\ IsScript(e) /\ Around(package, e) # {}
  BY <1>2, PartsFacts DEF ScriptsIn, Around
<1>5. \A j \in mine : /\ j \in ScriptsIn(package) /\ package[j] \in Entry
                      /\ Innermost(package, package[j]) = h
                      /\ h \in Around(package, package[j])
  <2> TAKE j \in mine
  <2>1. /\ j \in ScriptsIn(package) /\ Around(package, package[j]) # {}
        /\ Rank(Innermost(package, package[j]), R) = k
    BY DEF Homed, HomeRank
  <2>2. Innermost(package, package[j]) \in Around(package, package[j])
    BY <2>1, InnermostFacts
  <2>3. Innermost(package, package[j]) \in R
    BY <2>2 DEF Around
  <2>4. R \in SUBSET (1..Len(package)) /\ Len(package) \in Nat
    BY PartsFacts
  <2> HIDE DEF R, h, mine
  <2>5. Innermost(package, package[j]) = h
    BY <1>2, <2>1, <2>3, <2>4, RankFacts
  <2>6. package[j] \in Entry
    BY <2>1, PartsFacts
  <2>7. QED
    BY <2>1, <2>2, <2>5, <2>6
<1>6. ASSUME Innermost(package, e) = h PROVE Below(e, root) \in files
  <2>1. i \in mine
    BY <1>2, <1>4, <1>6 DEF Homed, HomeRank
  <2>2. home(i) = root
    BY <1>6
  <2>3. QED
    BY <1>3, <2>1, <2>2
<1>7. ASSUME Below(e, root) \in files PROVE Innermost(package, e) = h
  <2>1. Below(e, root).script
    BY <1>2, <1>4, BelowFacts
  <2>2. Below(e, root) \notin TextFiles(package, root)
    <3>1. ASSUME NEW j \in Texts(package) PROVE ~Below(package[j], root).script
      <4>1. package[j] \in Entry /\ ~IsScript(package[j])
        BY PartsFacts DEF Texts
      <4>2. QED
        BY <1>2, <4>1, BelowFacts
    <3>2. QED
      BY <2>1, <3>1 DEF TextFiles
  <2>3. PICK j \in mine : Below(e, root) = Below(package[j], home(j))
    BY <1>3, <1>7, <2>2
  <2>4. home(j) = root /\ package[j] \in Entry /\ Within(package[j], root)
    BY <1>5 DEF Around
  <2>5. e.dir = package[j].dir
    BY <1>2, <1>4, <2>3, <2>4, BelowTells
  <2>6. Around(package, e) = Around(package, package[j])
    BY <2>5 DEF Around, Within
  <2>7. Innermost(package, e) = Innermost(package, package[j])
    BY <2>6 DEF Innermost
  <2>8. QED
    BY <1>5, <2>7
<1>8. QED
  BY <1>6, <1>7

LEMMA InnermostIsDeepest ==
    ASSUME NEW package \in Packages, Regular(package),
           NEW i \in ScriptsIn(package), NEW k \in 1..Cardinality(Roots(package)),
           Within(package[i], package[Nth(k, Roots(package))].dir)
    PROVE  Innermost(package, package[i]) = Nth(k, Roots(package))
              <=> \A l \in 1..Cardinality(Roots(package)) :
                     LET root(n) == package[Nth(n, Roots(package))].dir IN
                     Within(package[i], root(l)) => IsPrefix(root(l), root(k))
<1> DEFINE R == Roots(package)
           e == package[i]
           m == Innermost(package, e)
           root(n) == package[Nth(n, R)].dir
<1>1. R \in SUBSET (1..Len(package)) /\ Len(package) \in Nat /\ DOMAIN package = 1..Len(package)
  BY PartsFacts
<1>2. \A l \in 1..Cardinality(R) : Nth(l, R) \in R /\ root(l) \in Seq(STRING)
  BY RootsAgree, RootFacts
<1>3. e \in Entry
  BY PartsFacts
<1>4. \A l \in 1..Cardinality(R) : Within(e, root(l)) => Nth(l, R) \in Around(package, e)
  BY <1>2 DEF Around
<1>5. /\ m \in Around(package, e)
      /\ \A j \in Around(package, e) : \/ Len(package[j].dir) < Len(package[m].dir)
                                       \/ Len(package[j].dir) = Len(package[m].dir)
  <2>1. Around(package, e) # {}
    BY <1>4
  <2>2. QED
    BY <2>1, InnermostFacts
<1>6. m \in R /\ package[m].dir \in Seq(STRING) /\ Within(e, package[m].dir)
  BY <1>1, <1>5, PartsFacts DEF Around
<1>7. ASSUME m = Nth(k, R), NEW l \in 1..Cardinality(R), Within(e, root(l))
      PROVE  IsPrefix(root(l), root(k))
  <2>1. Nth(l, R) \in Around(package, e)
    BY <1>4, <1>7
  <2>2. Len(root(l)) < Len(root(k)) \/ Len(root(l)) = Len(root(k))
    BY <1>5, <1>7, <2>1
  <2>3. /\ root(l) \in Seq(STRING) /\ root(k) \in Seq(STRING)
        /\ Within(e, root(l)) /\ Within(e, root(k))
    BY <1>2, <1>7
  <2> HIDE DEF root, e
  <2>4. Len(root(l)) <= Len(root(k))
    <3>1. Len(root(l)) \in Nat /\ Len(root(k)) \in Nat
      BY <2>3
    <3>2. QED
      BY <2>2, <3>1
  <2>5. QED
    BY <1>3, <2>3, <2>4, RootsNest
<1>8. ASSUME \A l \in 1..Cardinality(R) : Within(e, root(l)) => IsPrefix(root(l), root(k))
      PROVE  m = Nth(k, R)
  <2>1. PICK l \in 1..Cardinality(R) : Nth(l, R) = m
    <3>1. Rank(m, R) \in 1..Cardinality(R)
      BY <1>1, <1>6, RankFacts
    <3>2. Nth(Rank(m, R), R) \in R /\ Rank(Nth(Rank(m, R), R), R) = Rank(m, R)
      BY <1>1, <3>1, RankFacts
    <3>3. Nth(Rank(m, R), R) = m
      BY <1>1, <1>6, <3>2, RankFacts
    <3>4. QED
      BY <3>1, <3>3
  <2>2. IsPrefix(root(l), root(k))
    BY <1>6, <1>8, <2>1
  <2>3. /\ root(l) \in Seq(STRING) /\ root(k) \in Seq(STRING) /\ root(l) = package[m].dir
        /\ Within(e, root(l)) /\ Within(e, root(k)) /\ Nth(k, R) \in Around(package, e)
    BY <1>2, <1>4, <1>6, <2>1
  <2>4. Len(root(k)) < Len(root(l)) \/ Len(root(k)) = Len(root(l))
    BY <1>5, <2>3
  <2>5. root(l) = root(k)
    <3> HIDE DEF root, e
    <3>1. Len(root(l)) <= Len(root(k)) /\ Len(root(l)) \in Nat /\ Len(root(k)) \in Nat
      BY <1>3, <2>2, <2>3, RootsNest
    <3>2. Len(root(l)) = Len(root(k))
      BY <2>4, <3>1
    <3>3. QED
      BY <1>3, <2>3, <3>2, RootsNest
  <2>6. QED
    BY <1>2, <1>6, <2>3, <2>5, RootsAgree
<1>9. QED
  BY <1>7, <1>8

-----------------------------------------------------------------------------
(* The import under way. *)

SkillGroup == [name : Names, root : Seq(STRING), files : SUBSET File, skipped : SUBSET Entry]

Request ==
    [pc : {"idle", "fetch", "preview", "find", "write", "done"},
     package : Packages \cup {<<>>}, groups : Seq(SkillGroup), dry : BOOLEAN,
     overwrite : BOOLEAN, wish : Wishes \cup {<<>>}, hops : Nat, looked : Nat,
     conflicts : SUBSET Names, todo : Seq(Names), own : (SUBSET File) \cup {None},
     lost : BOOLEAN, skipped : Nat, created : Nat, updated : Nat]

ImportTypeOK ==
    /\ registry \in [Names -> (SUBSET File) \cup {None}]
    /\ req \in Request

\* The groups are what a package, or a text, was parsed to.
Known(groups, package) ==
    \/ /\ package \in Packages
       /\ Parse(package).verdict = "parsed"
       /\ groups = Parse(package).groups
    \/ /\ package = <<>>
       /\ \E n \in Names : groups = ParseText(n).groups

\* What a commit still has to write is there, and a row that it found is only
\* held by one that may overwrite it.
Sound(me) ==
    /\ me.pc \in {"preview", "find", "write"} => Known(me.groups, me.package)
    /\ me.pc \in {"find", "write"} => me.todo \in Seq(NamesOf(me.groups))
    /\ me.pc = "write" => me.todo # <<>> /\ (me.own # None => me.overwrite)

ImportInv == ImportTypeOK /\ Sound(req) /\ ImportedEdits

LEMMA NoFiles == Accepts({})
<1>1. Bytes([f \in {} |-> f.size]) = {}
  BY DEF Bytes
<1>2. Cardinality({}) = 0
  BY FS_EmptySet
<1>3. Cardinality({}) <= MaxFiles /\ Total([f \in {} |-> f.size]) <= MaxSkillBytes
  BY <1>1, <1>2, Limits DEF Total
<1>4. QED
  BY <1>3 DEF Accepts

LEMMA ParseFacts ==
    ASSUME NEW package \in Packages, Parse(package).verdict = "parsed"
    PROVE  /\ Unpacks(package)
           /\ \A i \in SkillRoots(package) : Declared(package, package[i].dir) # None
           /\ Parse(package).groups =
                 [k \in 1..Cardinality(SkillRoots(package)) |-> GroupAt(package, k)]
           /\ Cardinality(SkillRoots(package)) \in Nat
<1>1. /\ Unpacks(package)
      /\ \A i \in SkillRoots(package) : Declared(package, package[i].dir) # None
      /\ Parse(package).groups =
            [k \in 1..Cardinality(SkillRoots(package)) |-> GroupAt(package, k)]
  <2> DEFINE bad == \/ ~Unpacks(package)
                    \/ SkillRoots(package) = {}
                    \/ \E i \in SkillRoots(package) : Declared(package, package[i].dir) = None
             list == [k \in 1..Cardinality(SkillRoots(package)) |-> GroupAt(package, k)]
  <2>1. Parse(package) = IF bad THEN [verdict |-> "refused", groups |-> <<>>]
                         ELSE IF Misses(package) THEN [verdict |-> "raised", groups |-> <<>>]
                         ELSE [verdict |-> "parsed", groups |-> list]
    BY DEF Parse
  <2> HIDE DEF bad, list
  <2>2. ~bad /\ Parse(package).groups = list
    BY <2>1
  <2>3. QED
    BY <2>2 DEF bad, list
<1>2. SkillRoots(package) \in SUBSET (1..Len(package)) /\ Len(package) \in Nat
  BY PartsFacts
<1>3. Cardinality(SkillRoots(package)) \in Nat
  BY <1>2, RankFacts
<1>4. QED
  BY <1>1, <1>3

LEMMA GroupType ==
    ASSUME NEW package \in Packages, Parse(package).verdict = "parsed",
           NEW k \in 1..Cardinality(SkillRoots(package))
    PROVE  GroupAt(package, k) \in SkillGroup
<1> DEFINE head == Nth(k, SkillRoots(package))
           root == package[head].dir
<1>1. head \in SkillRoots(package) /\ root \in Seq(STRING)
  BY RootFacts
<1>2. Declared(package, root) \in Names
  <2>1. head \in Roots(package)
    BY <1>1, PartsFacts
  <2>2. QED
    BY <1>1, <2>1, DeclaredType, ParseFacts
<1>3. GroupAt(package, k).files \in SUBSET File
  BY ParseFacts, GroupAccepted
<1>4. {package[i] : i \in Homed(package, Skipped(package), k)} \in SUBSET Entry
  BY PartsFacts DEF Homed, Skipped
<1> HIDE DEF root
<1>5. QED
  <2> DEFINE f == GroupAt(package, k).files
             s == {package[i] : i \in Homed(package, Skipped(package), k)}
  <2>1. GroupAt(package, k) = [name |-> Declared(package, root), root |-> root,
                               files |-> f, skipped |-> s]
    BY DEF GroupAt, root
  <2>2. f \in SUBSET File /\ s \in SUBSET Entry
    BY <1>3, <1>4
  <2>3. /\ root \in Seq(STRING) /\ Declared(package, root) \in Names
    BY <1>1, <1>2
  <2> HIDE DEF f, s
  <2>4. [name |-> Declared(package, root), root |-> root, files |-> f, skipped |-> s] \in SkillGroup
    BY <2>2, <2>3 DEF SkillGroup
  <2>5. QED
    BY <2>1, <2>4

LEMMA KnownGroups ==
    ASSUME NEW groups, NEW package, Known(groups, package)
    PROVE  /\ groups \in Seq(SkillGroup)
           /\ \A k \in 1..Len(groups) : Accepts(groups[k].files)
<1>1. CASE /\ package \in Packages
           /\ Parse(package).verdict = "parsed"
           /\ groups = Parse(package).groups
  <2> DEFINE n == Cardinality(SkillRoots(package))
  <2>1. groups = [k \in 1..n |-> GroupAt(package, k)] /\ n \in Nat /\ Unpacks(package)
    BY <1>1, ParseFacts
  <2>2. \A k \in 1..n : GroupAt(package, k) \in SkillGroup /\ Accepts(GroupAt(package, k).files)
    BY <1>1, <2>1, GroupType, GroupAccepted
  <2> HIDE DEF n
  <2>3. groups \in Seq(SkillGroup) /\ Len(groups) = n
    BY <2>1, <2>2
  <2>4. QED
    BY <2>1, <2>2, <2>3
<1>2. CASE package = <<>> /\ \E n \in Names : groups = ParseText(n).groups
  <2>1. PICK n \in Names : groups = ParseText(n).groups
    BY <1>2
  <2> DEFINE g == [name |-> n, root |-> <<>>, files |-> {}, skipped |-> {}]
  <2>2. groups = <<g>>
    BY <2>1, Limits DEF ParseText
  <2>3. g \in SkillGroup /\ g.files = {}
    <3>1. <<>> \in Seq(STRING)
      OBVIOUS
    <3>2. QED
      BY <3>1 DEF SkillGroup
  <2> HIDE DEF g
  <2>4. groups \in Seq(SkillGroup) /\ Len(groups) = 1 /\ groups[1] = g
    BY <2>2, <2>3
  <2>5. \A k \in 1..Len(groups) : groups[k] = g
    BY <2>4
  <2>6. Accepts(g.files)
    BY <2>3, NoFiles
  <2>7. QED
    BY <2>4, <2>5, <2>6
<1>3. QED
  BY <1>1, <1>2 DEF Known

\* The group that is written for a name is one that was parsed.
LEMMA GroupOfFacts ==
    ASSUME Known(req.groups, req.package), NEW n \in NamesOf(req.groups)
    PROVE  GroupOf(n).files \in SUBSET File /\ Accepts(GroupOf(n).files)
<1> DEFINE S == {i \in DOMAIN req.groups : req.groups[i].name = n}
<1>1. PICK groups : groups = req.groups
  OBVIOUS
<1>2. groups \in Seq(SkillGroup) /\ \A k \in 1..Len(groups) : Accepts(groups[k].files)
  BY <1>1, KnownGroups
<1>3. S \in SUBSET (1..Len(groups)) /\ S # {} /\ Len(groups) \in Nat
  BY <1>1, <1>2 DEF NamesOf
<1>4. IsFiniteSet(1..Len(groups)) /\ S \in SUBSET Nat
  BY <1>3, FS_Interval
<1> HIDE DEF S
<1>5. Max(S) \in S
  <2>1. IsFiniteSet(S)
    BY <1>3, <1>4, FS_Subset
  <2>2. QED
    BY <1>3, <1>4, <2>1, MaxFacts
<1>6. GroupOf(n) = groups[Max(S)]
  BY <1>1 DEF GroupOf, S
<1>7. GroupOf(n) \in SkillGroup /\ Accepts(GroupOf(n).files)
  <2>1. Max(S) \in 1..Len(groups)
    BY <1>3, <1>5
  <2>2. groups[Max(S)] \in SkillGroup
    BY <1>2, <2>1
  <2>3. Accepts(groups[Max(S)].files)
    BY <1>2, <2>1
  <2>4. QED
    BY <1>6, <2>2, <2>3
<1>8. QED
  BY <1>7 DEF SkillGroup

\* The names a commit goes through.
LEMMA WantedFacts ==
    ASSUME NEW groups \in Seq(SkillGroup), NEW wish \in Seq(Names)
    PROVE  LET feasible == NamesOf(groups)
               requested == IF wish = <<>> THEN SetToSeq(feasible) ELSE wish
               known == {i \in DOMAIN requested : requested[i] \in feasible}
               wanted == [k \in 1..Cardinality(known) |-> requested[Nth(k, known)]]
           IN  /\ wanted \in Seq(feasible)
               /\ feasible \subseteq Names
               /\ Len(requested) - Len(wanted) \in Nat
<1> DEFINE feasible == NamesOf(groups)
           requested == IF wish = <<>> THEN SetToSeq(feasible) ELSE wish
           known == {i \in DOMAIN requested : requested[i] \in feasible}
           wanted == [k \in 1..Cardinality(known) |-> requested[Nth(k, known)]]
<1>1. Len(groups) \in Nat /\ DOMAIN groups = 1..Len(groups) /\ \A i \in 1..Len(groups) : groups[i] \in SkillGroup
  OBVIOUS
<1>2. feasible = {groups[i].name : i \in 1..Len(groups)}
  BY <1>1 DEF NamesOf
<1>3. feasible \subseteq Names
  BY <1>1, <1>2 DEF SkillGroup
<1>4. IsFiniteSet(feasible) /\ Cardinality(feasible) \in Nat
  <2> DEFINE D == 1..Len(groups)
             named == [i \in D |-> groups[i].name]
  <2>1. named \in [D -> feasible] /\ \A n \in feasible : \E i \in D : named[i] = n
    BY <1>2
  <2>2. IsFiniteSet(D)
    BY <1>1, FS_Interval
  <2> HIDE DEF D, named, feasible
  <2>3. named \in Surjection(D, feasible)
    BY <2>1 DEF Surjection
  <2>4. QED
    BY <2>2, <2>3, FS_Surjection, FS_CardinalityType
<1> HIDE DEF feasible
<1>5. SetToSeq(feasible) \in [1..Cardinality(feasible) -> feasible]
  <2>1. ExistsBijection(1..Cardinality(feasible), feasible)
    BY <1>4, FS_CardinalityType
  <2>2. \E f \in [1..Cardinality(feasible) -> feasible] : IsInjective(f)
    BY <2>1 DEF ExistsBijection, Bijection, Injection
  <2>3. QED
    BY <2>2 DEF SetToSeq
<1>6. requested \in Seq(Names)
  <2>1. SetToSeq(feasible) \in Seq(Names)
    BY <1>3, <1>4, <1>5
  <2>2. QED
    BY <2>1
<1> HIDE DEF requested
<1>7. Len(requested) \in Nat /\ known \in SUBSET (1..Len(requested))
  BY <1>6
<1>8. \A i \in known : requested[i] \in feasible
  OBVIOUS
<1> HIDE DEF known
<1>9. /\ Cardinality(known) \in Nat
      /\ \A k \in 1..Cardinality(known) : Nth(k, known) \in known
  BY <1>7, RankFacts
<1>10. wanted \in Seq(feasible) /\ Len(wanted) = Cardinality(known)
  BY <1>8, <1>9
<1>11. Cardinality(known) <= Len(requested)
  <2>1. IsFiniteSet(1..Len(requested)) /\ Cardinality(1..Len(requested)) = Len(requested)
    <3>1. 1 \in Int /\ Len(requested) \in Int
      BY <1>7
    <3>2. /\ IsFiniteSet(1..Len(requested))
          /\ Cardinality(1..Len(requested)) = IF 1 > Len(requested) THEN 0 ELSE Len(requested) - 1 + 1
      BY <3>1, FS_Interval
    <3>3. QED
      BY <1>7, <3>2
  <2>2. QED
    BY <1>7, <2>1, FS_Subset
<1> HIDE DEF wanted
<1>12. Len(requested) - Len(wanted) \in Nat
  BY <1>7, <1>9, <1>10, <1>11
<1>13. QED
  BY <1>3, <1>10, <1>12 DEF feasible, requested, known, wanted

-----------------------------------------------------------------------------
(* Steps of an import: the request goes on, the registry stays or is written. *)

LEMMA IdleFacts == Idle \in Request /\ Sound(Idle) /\ Idle.pc = "idle"
<1>1. /\ <<>> \in Packages \cup {<<>>} /\ <<>> \in Wishes \cup {<<>>}
      /\ None \in (SUBSET File) \cup {None} /\ {} \in SUBSET Names /\ 0 \in Nat
  OBVIOUS
<1>2. <<>> \in Seq(SkillGroup) /\ <<>> \in Seq(Names)
  OBVIOUS
<1>3. Idle \in Request
  BY <1>1, <1>2 DEF Idle, Request
<1>4. Idle.pc = "idle"
  BY DEF Idle
<1>5. QED
  BY <1>3, <1>4 DEF Sound

LEMMA AskedFacts == ASSUME NEW me \in Asked PROVE me \in Request /\ me.pc = "idle"
<1>1. Idle \in Request /\ Idle.pc = "idle"
  BY IdleFacts
<1>2. Preview \in Request /\ Preview.pc = "idle"
  BY <1>1 DEF Preview, Request
<1>3. ASSUME NEW overwrite \in BOOLEAN, NEW wish \in Wishes
      PROVE  Commit(overwrite, wish) \in Request /\ Commit(overwrite, wish).pc = "idle"
  <2>1. wish \in Wishes \cup {<<>>}
    OBVIOUS
  <2>2. Commit(overwrite, wish) \in Request
    BY <1>1, <2>1 DEF Commit, Request
  <2>3. Commit(overwrite, wish).pc = "idle"
    BY <1>1 DEF Commit, Request
  <2>4. QED
    BY <2>2, <2>3
<1>4. me = Preview \/ \E overwrite \in BOOLEAN, wish \in Wishes : me = Commit(overwrite, wish)
  BY DEF Asked
<1>5. QED
  BY <1>2, <1>3, <1>4

LEMMA GoesOn ==
    ASSUME ImportInv, NEW me \in Request, Sound(me), req' = me, registry' = registry
    PROVE  ImportInv'
  BY DEF ImportInv, ImportTypeOK, ImportedEdits

LEMMA Stores ==
    ASSUME ImportInv, NEW me \in Request, Sound(me), req' = me,
           NEW n \in Names, NEW row \in (SUBSET File) \cup {None}, row # None => Accepts(row),
           registry' = [registry EXCEPT ![n] = row]
    PROVE  ImportInv'
<1>1. registry \in [Names -> (SUBSET File) \cup {None}]
  BY DEF ImportInv, ImportTypeOK
<1>2. registry' \in [Names -> (SUBSET File) \cup {None}]
  BY <1>1
<1>3. \A m \in Names : registry'[m] = IF m = n THEN row ELSE registry[m]
  BY <1>1
<1>4. \A m \in Names : registry[m] # None => Accepts(registry[m])
  BY DEF ImportInv, ImportedEdits
<1>5. \A m \in Names : registry'[m] # None => Accepts(registry'[m])
  BY <1>3, <1>4
<1>6. QED
  BY <1>2, <1>5 DEF ImportInv, ImportTypeOK, ImportedEdits

LEMMA ResolvedStep ==
    ASSUME ImportInv, NEW me \in Request, NEW package, NEW parsed,
           parsed.verdict = "parsed" => Known(parsed.groups, package),
           Resolved(me, package, parsed), registry' = registry
    PROVE  ImportInv'
<1>1. CASE parsed.verdict = "parsed"
  <2> DEFINE groups == parsed.groups
             on == [me EXCEPT !.pc = "preview", !.package = package, !.groups = groups, !.hops = 0]
  <2>1. Known(groups, package) /\ req' = on
    BY <1>1 DEF Resolved
  <2> HIDE DEF groups
  <2>2. groups \in Seq(SkillGroup) /\ package \in Packages \cup {<<>>}
    BY <2>1, KnownGroups DEF Known
  <2>3. on \in Request
    BY <2>2 DEF Request
  <2>4. on.pc = "preview" /\ on.groups = groups /\ on.package = package
    BY DEF Request
  <2> HIDE DEF on
  <2>5. Sound(on)
    BY <2>1, <2>4 DEF Sound
  <2>6. QED
    BY <2>1, <2>3, <2>5, GoesOn
<1>2. CASE parsed.verdict # "parsed"
  BY <1>2, IdleFacts, GoesOn DEF Resolved
<1>3. QED
  BY <1>1, <1>2

LEMMA SourceStep ==
    ASSUME ImportInv, NEW me \in Request, registry' = registry,
           \/ \E package \in Packages : Resolved(me, package, Parsed[package])
           \/ \E says \in Names \cup {None} : Resolved(me, <<>>, ParseText(says))
    PROVE  ImportInv'
<1>1. ASSUME NEW package \in Packages, Resolved(me, package, Parsed[package])
      PROVE  ImportInv'
  <2>1. Resolved(me, package, Parse(package))
    BY <1>1 DEF Parsed
  <2>2. Parse(package).verdict = "parsed" => Known(Parse(package).groups, package)
    BY DEF Known
  <2>3. QED
    BY <2>1, <2>2, ResolvedStep
<1>2. ASSUME NEW says \in Names \cup {None}, Resolved(me, <<>>, ParseText(says))
      PROVE  ImportInv'
  <2>1. ParseText(says).verdict = "parsed" => says \in Names
    BY DEF ParseText
  <2>2. ParseText(says).verdict = "parsed" => Known(ParseText(says).groups, <<>>)
    BY <2>1 DEF Known
  <2>3. QED
    BY <1>2, <2>2, ResolvedStep
<1>3. QED
  BY <1>1, <1>2

-----------------------------------------------------------------------------
(* Steps of an import: preview and commit. *)

LEMMA LookStep ==
    ASSUME ImportInv, Look
    PROVE  ImportInv'
<1>1. PICK me \in Request : me = req
  BY DEF ImportInv, ImportTypeOK
<1>2. /\ me.pc = "preview" /\ me.looked < Len(me.groups) /\ Known(me.groups, me.package)
      /\ Sound(me) /\ registry' = registry
  BY <1>1 DEF ImportInv, Look, Sound
<1> DEFINE n == me.groups[me.looked + 1].name
           found == IF registry[n] # None THEN me.conflicts \cup {n} ELSE me.conflicts \ {n}
           on == [me EXCEPT !.looked = @ + 1, !.conflicts = found]
<1>3. req' = on
  BY <1>1 DEF Look
<1>4. n \in Names
  <2>1. me.groups \in Seq(SkillGroup) /\ me.looked \in Nat
    BY DEF Request
  <2>2. me.looked + 1 \in 1..Len(me.groups)
    BY <1>2, <2>1
  <2>3. me.groups[me.looked + 1] \in SkillGroup
    BY <2>1, <2>2
  <2>4. QED
    BY <2>3 DEF SkillGroup
<1>5. found \in SUBSET Names /\ me.looked + 1 \in Nat
  BY <1>4 DEF Request
<1> HIDE DEF found
<1>6. on \in Request
  BY <1>5 DEF Request
<1>7. /\ on.pc = me.pc /\ on.groups = me.groups /\ on.package = me.package
      /\ on.todo = me.todo /\ on.own = me.own /\ on.overwrite = me.overwrite
  BY DEF Request
<1> HIDE DEF on
<1>8. Sound(on)
  BY <1>2, <1>7 DEF Sound
<1>9. QED
  BY <1>2, <1>3, <1>6, <1>8, GoesOn

LEMMA CommitStep ==
    ASSUME ImportInv, StartCommit
    PROVE  ImportInv'
<1>1. PICK me \in Request : me = req
  BY DEF ImportInv, ImportTypeOK
<1>2. /\ me.pc = "preview" /\ Known(me.groups, me.package) /\ registry' = registry
  BY <1>1 DEF ImportInv, StartCommit, Sound
<1> DEFINE feasible == NamesOf(me.groups)
           requested == IF me.wish = <<>> THEN SetToSeq(feasible) ELSE me.wish
           known == {i \in DOMAIN requested : requested[i] \in feasible}
           wanted == [k \in 1..Cardinality(known) |-> requested[Nth(k, known)]]
           left == Len(requested) - Len(wanted)
           on == [me EXCEPT !.pc = "find", !.todo = wanted, !.skipped = left]
<1>3. req' = on
  BY <1>1 DEF StartCommit
<1>4. wanted \in Seq(feasible) /\ feasible \subseteq Names /\ left \in Nat
  <2>1. me.groups \in Seq(SkillGroup)
    BY DEF Request
  <2>2. me.wish \in Seq(Names)
    <3>1. me.wish \in Wishes \cup {<<>>}
      BY DEF Request
    <3>2. \A wish \in Wishes : wish \in Seq(Names)
      BY SourcesAssumption
    <3>3. <<>> \in Seq(Names)
      OBVIOUS
    <3>4. QED
      BY <3>1, <3>2, <3>3
  <2>3. QED
    BY <2>1, <2>2, WantedFacts
<1> HIDE DEF wanted, left, requested, known
<1>5. wanted \in Seq(Names)
  <2> HIDE DEF feasible
  <2>1. QED
    BY <1>4
<1>6. on \in Request
  BY <1>4, <1>5 DEF Request
<1>7. on.pc = "find" /\ on.groups = me.groups /\ on.package = me.package /\ on.todo = wanted
  BY DEF Request
<1> HIDE DEF on
<1>8. Sound(on)
  BY <1>2, <1>4, <1>7 DEF Sound
<1>9. QED
  BY <1>2, <1>3, <1>6, <1>8, GoesOn

\* The next name of a commit is that of a group.
LEMMA HeadFacts ==
    ASSUME ImportInv, req.pc \in {"find", "write"}, req.todo # <<>>
    PROVE  Head(req.todo) \in Names /\ Head(req.todo) \in NamesOf(req.groups)
<1>1. req.todo \in Seq(NamesOf(req.groups)) /\ req.todo \in Seq(Names)
  BY DEF ImportInv, ImportTypeOK, Sound, Request
<1>2. QED
  BY <1>1

LEMMA NextFacts ==
    ASSUME ImportInv, req.pc \in {"find", "write"}, req.todo # <<>>, NEW created \in BOOLEAN,
           NextName(created)
    PROVE  \E on \in Request : Sound(on) /\ req' = on
<1>1. PICK me \in Request : me = req
  BY DEF ImportInv, ImportTypeOK
<1>2. Known(me.groups, me.package) /\ me.todo \in Seq(NamesOf(me.groups)) /\ me.todo # <<>>
  BY <1>1 DEF ImportInv, Sound
<1> DEFINE skips == ~created /\ Head(me.todo) \in me.conflicts /\ ~me.overwrite
           c == IF created THEN me.created + 1 ELSE me.created
           s == IF skips THEN me.skipped + 1 ELSE me.skipped
           u == IF created \/ skips THEN me.updated ELSE me.updated + 1
           rest == Tail(me.todo)
           on == [me EXCEPT !.pc = "find", !.todo = rest, !.own = None,
                            !.created = c, !.skipped = s, !.updated = u]
<1>3. req' = on
  BY <1>1 DEF NextName
<1>4. c \in Nat /\ s \in Nat /\ u \in Nat
  <2>1. me.created \in Nat /\ me.skipped \in Nat /\ me.updated \in Nat
    BY DEF Request
  <2>2. QED
    BY <2>1
<1>5. rest \in Seq(NamesOf(me.groups))
  <2> DEFINE N == NamesOf(me.groups)
  <2>1. me.todo \in Seq(N) /\ me.todo # <<>>
    BY <1>2
  <2> HIDE DEF N
  <2>2. Tail(me.todo) \in Seq(N)
    BY <2>1
  <2>3. QED
    BY <2>2 DEF N
<1>6. rest \in Seq(Names)
  <2>1. me.todo \in Seq(Names)
    BY DEF Request
  <2>2. QED
    BY <1>2, <2>1
<1> HIDE DEF c, s, u, rest
<1>7. on \in Request
  <2>1. None \in (SUBSET File) \cup {None}
    OBVIOUS
  <2>2. QED
    BY <1>4, <1>6, <2>1 DEF Request
<1>8. on.pc = "find" /\ on.groups = me.groups /\ on.package = me.package /\ on.todo = rest
  BY DEF Request
<1> HIDE DEF on
<1>9. Sound(on)
  BY <1>2, <1>5, <1>8 DEF Sound
<1>10. QED
  BY <1>3, <1>7, <1>9

LEMMA FindStep ==
    ASSUME ImportInv, Find
    PROVE  ImportInv'
<1>1. PICK me \in Request : me = req
  BY DEF ImportInv, ImportTypeOK
<1>2. /\ Known(me.groups, me.package) /\ me.todo \in Seq(NamesOf(me.groups)) /\ me.todo # <<>>
      /\ registry[Head(me.todo)] # None => me.overwrite
      /\ registry' = registry
  BY <1>1 DEF ImportInv, Find, Sound
<1> DEFINE row == registry[Head(me.todo)]
           on == [me EXCEPT !.pc = "write", !.own = row]
<1>3. req' = on
  BY <1>1 DEF Find
<1>4. row \in (SUBSET File) \cup {None}
  <2>1. Head(me.todo) \in Names
    BY <1>1, HeadFacts DEF Find
  <2>2. QED
    BY <2>1 DEF ImportInv, ImportTypeOK
<1> HIDE DEF row
<1>5. on \in Request
  BY <1>4 DEF Request
<1>6. /\ on.pc = "write" /\ on.groups = me.groups /\ on.package = me.package
      /\ on.todo = me.todo /\ on.own = row /\ on.overwrite = me.overwrite
  BY DEF Request
<1> HIDE DEF on
<1>7. Sound(on)
  BY <1>2, <1>6 DEF Sound, row
<1>8. QED
  BY <1>2, <1>3, <1>5, <1>7, GoesOn

LEMMA KeepStep ==
    ASSUME ImportInv, Keep
    PROVE  ImportInv'
<1>1. PICK on \in Request : Sound(on) /\ req' = on
  BY NextFacts DEF Keep
<1>2. registry' = registry
  BY DEF Keep
<1>3. QED
  BY <1>1, <1>2, GoesOn

LEMMA InsertStep ==
    ASSUME ImportInv, Insert
    PROVE  ImportInv'
<1> DEFINE n == Head(req.todo)
           files == GroupOf(n).files
<1>1. req.pc = "write" /\ req.todo # <<>> /\ Known(req.groups, req.package)
  BY DEF ImportInv, Sound, Insert
<1>2. PICK on \in Request : Sound(on) /\ req' = on
  BY <1>1, NextFacts DEF Insert
<1>3. n \in Names /\ n \in NamesOf(req.groups)
  BY <1>1, HeadFacts
<1>4. files \in SUBSET File /\ Accepts(files)
  BY <1>1, <1>3, GroupOfFacts
<1>5. PICK row : row = files
  OBVIOUS
<1>6. PICK name \in Names : name = n
  BY <1>3
<1>7. registry' = [registry EXCEPT ![name] = row]
  BY <1>5, <1>6 DEF Insert
<1>8. row \in (SUBSET File) \cup {None} /\ Accepts(row)
  BY <1>4, <1>5
<1>9. QED
  BY <1>2, <1>7, <1>8, Stores

LEMMA OverwriteStep ==
    ASSUME ImportInv, Overwrite
    PROVE  ImportInv'
<1> DEFINE n == Head(req.todo)
           files == GroupOf(n).files
<1>1. req.pc = "write" /\ req.todo # <<>> /\ Known(req.groups, req.package)
  BY DEF ImportInv, Sound, Overwrite
<1>2. PICK on \in Request : Sound(on) /\ req' = on
  BY <1>1, NextFacts DEF Overwrite
<1>3. n \in Names /\ n \in NamesOf(req.groups)
  BY <1>1, HeadFacts
<1>4. files \in SUBSET File /\ Accepts(files)
  BY <1>1, <1>3, GroupOfFacts
<1>5. PICK row : row = IF files = req.own THEN registry[n] ELSE files
  OBVIOUS
<1>6. PICK name \in Names : name = n
  BY <1>3
<1>7. registry' = [registry EXCEPT ![name] = row]
  BY <1>5, <1>6 DEF Overwrite
<1>8. row \in (SUBSET File) \cup {None} /\ (row # None => Accepts(row))
  <2>1. registry[n] \in (SUBSET File) \cup {None} /\ (registry[n] # None => Accepts(registry[n]))
    BY <1>3 DEF ImportInv, ImportTypeOK, ImportedEdits
  <2> HIDE DEF files, n
  <2>2. QED
    BY <1>4, <1>5, <2>1
<1>9. QED
  BY <1>2, <1>7, <1>8, Stores

-----------------------------------------------------------------------------
(* The other steps. *)

\* The request only changes its control, or ends.
LEMMA PlainStep ==
    ASSUME ImportInv,
           \/ \E me \in Asked : SubmitURL(me)
           \/ Redirect \/ FetchFails \/ PreviewDone \/ Respond \/ ResponseSent \/ Abort
    PROVE  ImportInv'
<1>1. ASSUME NEW me \in Asked, SubmitURL(me) PROVE ImportInv'
  <2> DEFINE on == [me EXCEPT !.pc = "fetch"]
  <2>1. on \in Request /\ on.pc = "fetch"
    BY AskedFacts DEF Request
  <2> HIDE DEF on
  <2>2. Sound(on)
    BY <2>1 DEF Sound
  <2>3. req' = on /\ registry' = registry
    BY <1>1 DEF SubmitURL, on
  <2>4. QED
    BY <2>1, <2>2, <2>3, GoesOn
<1>2. CASE Redirect
  <2>1. PICK me \in Request : me = req
    BY DEF ImportInv, ImportTypeOK
  <2> DEFINE on == [me EXCEPT !.hops = @ + 1]
  <2>2. on \in Request /\ on.pc = "fetch"
    <3>1. me.pc = "fetch" /\ me.hops + 1 \in Nat
      BY <1>2, <2>1 DEF Request, Redirect
    <3>2. on \in Request
      BY <3>1 DEF Request
    <3>3. on.pc = me.pc
      BY DEF Request
    <3>4. QED
      BY <3>1, <3>2, <3>3
  <2>3. req' = on /\ registry' = registry
    BY <1>2, <2>1 DEF Redirect
  <2> HIDE DEF on
  <2>4. Sound(on)
    BY <2>2 DEF Sound
  <2>5. QED
    BY <2>2, <2>3, <2>4, GoesOn
<1>3. CASE Respond
  <2>1. PICK me \in Request : me = req
    BY DEF ImportInv, ImportTypeOK
  <2> DEFINE on == [me EXCEPT !.pc = "done"]
  <2>2. on \in Request /\ on.pc = "done"
    BY DEF Request
  <2>3. req' = on /\ registry' = registry
    BY <1>3, <2>1 DEF Respond
  <2> HIDE DEF on
  <2>4. Sound(on)
    BY <2>2 DEF Sound
  <2>5. QED
    BY <2>2, <2>3, <2>4, GoesOn
<1>4. CASE FetchFails \/ PreviewDone \/ ResponseSent \/ Abort
  <2>1. req' = Idle /\ registry' = registry
    BY <1>4 DEF FetchFails, PreviewDone, ResponseSent, Abort
  <2>2. QED
    BY <2>1, IdleFacts, GoesOn
<1>5. QED
  BY <1>1, <1>2, <1>3, <1>4

LEMMA ImportStep ==
    ASSUME ImportInv, Import
    PROVE  ImportInv'
<1>1. ASSUME NEW me \in Asked, Post(me) PROVE ImportInv'
  <2>1. me \in Request
    BY AskedFacts
  <2>2. CASE SubmitURL(me)
    BY <2>2, PlainStep
  <2>3. CASE \/ \E package \in Packages : SubmitPackage(me, package)
             \/ \E says \in Names \cup {None} : SubmitText(me, says)
    <3>1. registry' = registry
      BY <2>3 DEF SubmitPackage, SubmitText
    <3>2. \/ \E package \in Packages : Resolved(me, package, Parsed[package])
          \/ \E says \in Names \cup {None} : Resolved(me, <<>>, ParseText(says))
      BY <2>3 DEF SubmitPackage, SubmitText
    <3>3. QED
      BY <2>1, <3>1, <3>2, SourceStep
  <2>4. QED
    BY <1>1, <2>2, <2>3 DEF Post
<1>2. CASE Fetch
  <2>1. CASE Redirect \/ FetchFails
    BY <2>1, PlainStep
  <2>2. CASE \/ \E package \in Packages : FetchPackage(package)
             \/ \E says \in Names \cup {None} : FetchText(says)
    <3>1. PICK me \in Request : me = req
      BY DEF ImportInv, ImportTypeOK
    <3>2. registry' = registry
      BY <2>2 DEF FetchPackage, FetchText
    <3>3. \/ \E package \in Packages : Resolved(me, package, Parsed[package])
          \/ \E says \in Names \cup {None} : Resolved(me, <<>>, ParseText(says))
      BY <2>2, <3>1 DEF FetchPackage, FetchText
    <3>4. QED
      BY <3>2, <3>3, SourceStep
  <2>3. QED
    BY <1>2, <2>1, <2>2 DEF Fetch
<1>3. CASE PreviewDone \/ Respond \/ ResponseSent \/ Abort
  BY <1>3, PlainStep
<1>4. QED
  BY <1>1, <1>2, <1>3, LookStep, CommitStep, KeepStep, FindStep, InsertStep, OverwriteStep
     DEF Import

\* A deleted row leaves the request as it is, but for lost.
LEMMA DeleteStep ==
    ASSUME ImportInv, NEW n \in Names, Delete(n)
    PROVE  ImportInv'
<1>1. PICK me \in Request : me = req
  BY DEF ImportInv, ImportTypeOK
<1> DEFINE gone == me.lost \/ (me.own # None /\ n = Head(me.todo))
           on == [me EXCEPT !.lost = gone]
<1>2. req' = on /\ registry' = [registry EXCEPT ![n] = None]
  BY <1>1 DEF Delete
<1>3. gone \in BOOLEAN
  BY DEF Request
<1> HIDE DEF gone
<1>4. on \in Request
  BY <1>3 DEF Request
<1>5. /\ on.pc = me.pc /\ on.groups = me.groups /\ on.package = me.package
      /\ on.todo = me.todo /\ on.own = me.own /\ on.overwrite = me.overwrite
  BY DEF Request
<1> HIDE DEF on
<1>6. Sound(on)
  BY <1>1, <1>5 DEF Sound, ImportInv
<1>7. PICK row \in (SUBSET File) \cup {None} : row = None
  OBVIOUS
<1>8. QED
  BY <1>2, <1>4, <1>6, <1>7, Stores

LEMMA OthersStep ==
    ASSUME ImportInv, Others
    PROVE  ImportInv'
<1>1. PICK me \in Request : me = req
  BY DEF ImportInv, ImportTypeOK
<1>2. Sound(me)
  BY <1>1 DEF ImportInv
<1>3. PICK n \in Names :
         \/ Create(n)
         \/ Delete(n)
         \/ registry[n] # None /\ \E files \in SUBSET registry[n] : EditFiles(n, files)
  BY DEF Others
<1>4. CASE Create(n)
  <2>1. req' = me /\ registry' = [registry EXCEPT ![n] = {}]
    BY <1>1, <1>4 DEF Create
  <2>2. {} \in (SUBSET File) \cup {None}
    OBVIOUS
  <2>3. QED
    BY <1>2, <2>1, <2>2, NoFiles, Stores
<1>5. CASE registry[n] # None /\ \E files \in SUBSET registry[n] : EditFiles(n, files)
  <2>1. PICK files \in SUBSET registry[n] : EditFiles(n, files)
    BY <1>5
  <2>2. req' = me /\ registry' = [registry EXCEPT ![n] = files] /\ Accepts(files)
    BY <1>1, <2>1 DEF EditFiles
  <2>3. files \in (SUBSET File) \cup {None}
    BY <1>5, <2>1 DEF ImportInv, ImportTypeOK
  <2>4. QED
    BY <1>2, <2>2, <2>3, Stores
<1>6. QED
  BY <1>3, <1>4, <1>5, DeleteStep

-----------------------------------------------------------------------------
(* Theorems about imports. *)

LEMMA ImportInvInit == ImportInit => ImportInv
<1> SUFFICES ASSUME ImportInit PROVE ImportInv
  OBVIOUS
<1>1. req \in Request /\ Sound(req)
  BY IdleFacts DEF ImportInit
<1>2. registry \in [Names -> (SUBSET File) \cup {None}] /\ \A n \in Names : registry[n] = None
  BY DEF ImportInit
<1>3. QED
  BY <1>1, <1>2 DEF ImportInv, ImportTypeOK, ImportedEdits

\* The invariant under which imports go through the skills of a package: the
\* groups that a request holds are those of its source, the names to commit are
\* names of groups, and a found row is held only under overwrite.
THEOREM ImportInvAlways == ImportSpec => []ImportInv
<1>1. ImportInv /\ [ImportNext]_importVars => ImportInv'
  <2> SUFFICES ASSUME ImportInv, [ImportNext]_importVars PROVE ImportInv'
    OBVIOUS
  <2>1. CASE UNCHANGED importVars
    <3>1. PICK me \in Request : me = req
      BY DEF ImportInv, ImportTypeOK
    <3>2. Sound(me) /\ req' = me /\ registry' = registry
      BY <2>1, <3>1 DEF ImportInv, importVars
    <3>3. QED
      BY <3>2, GoesOn
  <2>2. QED
    BY <2>1, ImportStep, OthersStep DEF ImportNext
<1>2. QED
  BY <1>1, ImportInvInit, PTL DEF ImportSpec

\* What an import stored passes the gate of the editor, whatever the limits
\* are: a skill holds no more attachments, and no more bytes, than the package
\* it came with, and only scripts that are small enough.
THEOREM ImportedEditsAlways == ImportSpec => []ImportedEdits
<1>1. ImportInv => ImportedEdits
  BY DEF ImportInv
<1>2. QED
  BY <1>1, ImportInvAlways, PTL

\* A skill that exists is changed by an import only if the request says
\* overwrite, whatever other administrators did since the preview.
THEOREM OverwritesOnDemandAlways == ImportSpec => OverwritesOnDemand
<1> DEFINE Obeys == Import /\ ~req.overwrite
                       => \A n \in Names : registry[n] # None => registry'[n] = registry[n]
<1>1. ImportInv /\ [ImportNext]_importVars => [Obeys]_importVars
  <2> SUFFICES ASSUME ImportInv, Import, ~req.overwrite,
                      NEW n \in Names, registry[n] # None
               PROVE  registry'[n] = registry[n]
    BY DEF ImportNext
  <2>1. CASE registry' = registry
    BY <2>1
  <2>2. CASE Insert
    <3>1. registry \in [Names -> (SUBSET File) \cup {None}]
      BY DEF ImportInv, ImportTypeOK
    <3>2. n # Head(req.todo)
      BY <2>2 DEF Insert
    <3>3. PICK row : row = GroupOf(Head(req.todo)).files
      OBVIOUS
    <3>4. registry' = [registry EXCEPT ![Head(req.todo)] = row]
      BY <2>2, <3>3 DEF Insert
    <3>5. QED
      BY <3>1, <3>2, <3>4
  <2>3. CASE Overwrite
    BY <2>3 DEF Overwrite, ImportInv, Sound
  <2>4. registry' = registry \/ Insert \/ Overwrite
    BY DEF Import, Post, Fetch, SubmitPackage, SubmitText, SubmitURL, Redirect, FetchFails,
           FetchPackage, FetchText, Look, PreviewDone, StartCommit, Keep, Find, Respond,
           ResponseSent, Abort
  <2>5. QED
    BY <2>1, <2>2, <2>3, <2>4
<1>2. QED
  BY <1>1, ImportInvAlways, PTL DEF ImportSpec, OverwritesOnDemand

\* However skills are nested in a package, a script is among the attachments
\* of the innermost skill around it, and of no other, if no SKILL.md is in the
\* package twice (Regular): for such a package _ordered_roots and _group_entries
\* list the same roots, for another they need not.
THEOREM ScriptsAtHomeAlways == ImportSpec => []ScriptsAtHome
<1>1. ImportInv => ScriptsAtHome
  <2> SUFFICES ASSUME ImportInv, req.pc = "preview", Regular(req.package),
                      NEW i \in ScriptsIn(req.package), NEW g \in ToSet(req.groups),
                      Within(req.package[i], g.root)
               PROVE  Below(req.package[i], g.root) \in g.files
                         <=> \A h \in ToSet(req.groups) :
                                Within(req.package[i], h.root) => IsPrefix(h.root, g.root)
    BY DEF ScriptsAtHome
  <2>1. PICK package, groups : package = req.package /\ groups = req.groups
    OBVIOUS
  <2>2. Known(groups, package)
    BY <2>1 DEF ImportInv, Sound
  <2>3. package # <<>>
    BY <2>1 DEF ScriptsIn, Files
  <2>4. package \in Packages /\ Parse(package).verdict = "parsed" /\ groups = Parse(package).groups
    BY <2>2, <2>3 DEF Known
  <2> DEFINE R == Roots(package)
             n == Cardinality(R)
             root(k) == package[Nth(k, R)].dir
             e == package[i]
  <2>5. SkillRoots(package) = R
    BY <2>1, <2>4, RootsAgree
  <2>6. groups = [k \in 1..n |-> GroupAt(package, k)] /\ n \in Nat
    BY <2>4, <2>5, ParseFacts
  <2>7. \A k \in 1..n : GroupAt(package, k).root = root(k)
    BY <2>5 DEF GroupAt
  <2> HIDE DEF n
  <2>8. ToSet(groups) = {GroupAt(package, k) : k \in 1..n}
    BY <2>6 DEF ToSet
  <2>9. PICK k \in 1..n : g = GroupAt(package, k)
    BY <2>1, <2>8
  <2>10. g.root = root(k) /\ Within(e, root(k)) /\ i \in ScriptsIn(package)
    BY <2>1, <2>7, <2>9
  <2>11. Below(e, root(k)) \in GroupAt(package, k).files <=> Innermost(package, e) = Nth(k, R)
    BY <2>1, <2>4, <2>10, HomeIsInnermost DEF n
  <2>12. Innermost(package, e) = Nth(k, R)
            <=> \A l \in 1..n : Within(e, root(l)) => IsPrefix(root(l), root(k))
    BY <2>1, <2>4, <2>10, InnermostIsDeepest DEF n
  <2>13. (\A l \in 1..n : Within(e, root(l)) => IsPrefix(root(l), root(k)))
            <=> \A h \in ToSet(groups) : Within(e, h.root) => IsPrefix(h.root, root(k))
    <3> HIDE DEF root, e
    <3>1. QED
      BY <2>7, <2>8
  <2>14. QED
    BY <2>1, <2>9, <2>10, <2>11, <2>12, <2>13
<1>2. QED
  BY <1>1, ImportInvAlways, PTL

-----------------------------------------------------------------------------
(* Script runs. *)

\* The requests whose handlers are past the semaphore.
Holders == {r \in Requests : gate[r] \in {"connecting", "reading"}}

\* Every slot is free or with one handler.
SlotInv ==
    /\ IsFiniteSet(Holders)
    /\ Cardinality(Holders) = Slots - free

\* The queue holds handlers that wait, each once.
QueueInv ==
    /\ \A i \in 1..Len(queue) : gate[queue[i]] = "queued"
    /\ \A i, j \in 1..Len(queue) : queue[i] = queue[j] => i = j

\* How far the caller, the gate and the runner are with a request.
Phases(r) ==
    /\ caller[r] = "nothing" => gate[r] = "none"
    /\ caller[r] = "waiting" => gate[r] \in Held
    /\ gate[r] \in {"none", "queued", "connecting"} => runner[r] = "none"
    /\ gate[r] = "reading" => runner[r] # "none"
    /\ r \in orphans => gate[r] = "done"
    /\ runner[r] \in {"starting", "running"} /\ r \notin orphans => gate[r] = "reading"

\* Which processes there are at each stage of the runner.
Processes(r) ==
    /\ runner[r] \notin {"running", "result"} => \A p \in Group : p \notin procs[r]
    /\ runner[r] = "result" => \A p \in Foreground : p \notin procs[r]
    /\ caller[r] \in TimedOut => /\ gate[r] = "done" /\ runner[r] # "starting"
                                /\ \A p \in Group : p \notin procs[r]

\* How the three timers of a request run together.
Timers(r) ==
    /\ gate[r] = "reading" /\ runner[r] = "starting" => gateLeft[r] = ReadTime(budget[r])
    /\ gate[r] = "reading" /\ runner[r] = "running" => gateLeft[r] = runLeft[r] + 1
    /\ gate[r] = "reading" /\ runner[r] = "result" => gateLeft[r] >= 1
    /\ caller[r] = "waiting" /\ r \notin delayed /\ gate[r] \in {"queued", "connecting"}
          => patience[r] = Patience(budget[r])
    /\ caller[r] = "waiting" /\ r \notin delayed /\ gate[r] = "reading"
          => patience[r] = gateLeft[r] + 1
    /\ caller[r] = "gaveUp" => r \in delayed

RunInv == \A r \in Requests : Phases(r) /\ Processes(r) /\ Timers(r)

IInv == TypeOK /\ SlotInv /\ QueueInv /\ RunInv

-----------------------------------------------------------------------------
LEMMA InitHolds == Init => IInv
<1> SUFFICES ASSUME Init PROVE IInv
  OBVIOUS
<1> USE SandboxAssumption
<1>1. TypeOK
  BY DEF Init, TypeOK, Heard, HandlerState, RunState, Process
<1>2. SlotInv
  <2>1. Holders = {}
    BY DEF Init, Holders
  <2>2. QED
    BY <2>1, FS_EmptySet DEF Init, SlotInv
<1>3. QueueInv
  BY DEF Init, QueueInv
<1>4. RunInv
  BY DEF Init, RunInv, Phases, Processes, Timers, TimedOut
<1>5. QED
  BY <1>1, <1>2, <1>3, <1>4 DEF IInv

-----------------------------------------------------------------------------
(* The queue and the slots. *)

\* Acquire, with the facts about the head of the queue it rests on.
LEMMA AcquireHead ==
    ASSUME TypeOK, QueueInv, Acquire
    PROVE  /\ Head(queue) \in Requests
           /\ gate[Head(queue)] = "queued"
           /\ Holders' = Holders \cup {Head(queue)}
           /\ Head(queue) \notin Holders
<1>1. queue \in Seq(Requests) /\ queue # <<>> /\ Head(queue) = queue[1] /\ 1 \in 1..Len(queue)
  BY DEF TypeOK, Acquire
<1>2. Head(queue) \in Requests
  BY <1>1
<1>3. gate[Head(queue)] = "queued"
  BY <1>1 DEF QueueInv
<1>4. gate' = [gate EXCEPT ![Head(queue)] = "connecting"] /\ gate \in [Requests -> HandlerState]
  BY DEF Acquire, TypeOK
<1>5. Holders' = Holders \cup {Head(queue)}
  BY <1>2, <1>4 DEF Holders
<1>6. QED
  BY <1>2, <1>3, <1>5 DEF Holders

LEMMA QueueStep ==
    ASSUME TypeOK, QueueInv, RunInv, [Next]_vars
    PROVE  QueueInv'
<1> USE DEF QueueInv
<1>1. CASE UNCHANGED vars
  BY <1>1 DEF vars, gates
<1>2. ASSUME NEW r \in Requests, NEW t \in Timeouts, Submit(r, t) PROVE QueueInv'
  <2>1. queue \in Seq(Requests) /\ queue' = Append(queue, r)
    BY <1>2 DEF Submit, TypeOK
  <2>2. gate[r] = "none"
    BY <1>2 DEF Submit, RunInv, Phases
  <2>3. gate' = [gate EXCEPT ![r] = "queued"] /\ gate \in [Requests -> HandlerState]
    BY <1>2 DEF Submit, TypeOK
  <2>4. /\ Len(queue') = Len(queue) + 1
        /\ \A i \in 1..Len(queue) : queue'[i] = queue[i] /\ queue[i] # r
        /\ queue'[Len(queue) + 1] = r
    BY <2>1, <2>2
  <2>5. \A i \in 1..Len(queue') : i \in 1..Len(queue) \/ i = Len(queue) + 1
    BY <2>1, <2>4
  <2>6. \A i \in 1..Len(queue) : queue[i] \in Requests
    BY <2>1
  <2>7. \A i \in 1..Len(queue') : gate'[queue'[i]] = "queued"
    BY <2>3, <2>4, <2>5, <2>6
  <2>8. \A i, j \in 1..Len(queue') : queue'[i] = queue'[j] => i = j
    BY <2>4, <2>5
  <2>9. QED
    BY <2>7, <2>8
<1>3. ASSUME Acquire PROVE QueueInv'
  <2>1. queue \in Seq(Requests) /\ queue # <<>> /\ queue' = Tail(queue) /\ Head(queue) = queue[1]
    BY <1>3 DEF Acquire, TypeOK
  <2>2. gate' = [gate EXCEPT ![Head(queue)] = "connecting"] /\ gate \in [Requests -> HandlerState]
    BY <1>3 DEF Acquire, TypeOK
  <2>3. /\ Len(queue') = Len(queue) - 1
        /\ \A i \in 1..Len(queue') : queue'[i] = queue[i + 1] /\ i + 1 \in 1..Len(queue)
    BY <2>1
  <2>4. \A i \in 1..Len(queue') : queue'[i] # Head(queue) /\ queue'[i] \in Requests
    BY <2>1, <2>3
  <2>5. \A i, j \in 1..Len(queue') : queue'[i] = queue'[j] => i = j
    BY <2>3
  <2>6. \A i \in 1..Len(queue') : gate'[queue'[i]] = "queued"
    BY <2>2, <2>3, <2>4
  <2>7. QED
    BY <2>5, <2>6
<1>4. ASSUME NEW r \in Requests, gate[r] # "queued", UNCHANGED queue,
             NEW h, gate' = [gate EXCEPT ![r] = h]
      PROVE  QueueInv'
  <2>1. \A i \in 1..Len(queue) : queue[i] # r /\ queue[i] \in Requests
    BY <1>4 DEF TypeOK
  <2>2. QED
    BY <1>4, <2>1 DEF TypeOK
<1>5. ASSUME NEW r \in Requests, GateNext(r) PROVE QueueInv'
  <2>1. CASE Connected(r)
    BY <2>1, <1>4 DEF Connected
  <2>2. CASE NotConnected(r)
    BY <2>2, <1>4 DEF NotConnected, Leave
  <2>3. CASE ReadResult(r)
    BY <2>3, <1>4 DEF ReadResult, Leave
  <2>4. CASE ReadBroken(r)
    BY <2>4, <1>4 DEF ReadBroken, Leave
  <2>5. CASE ReadTimesOut(r)
    BY <2>5, <1>4 DEF ReadTimesOut, Leave
  <2>6. QED
    BY <1>5, <2>1, <2>2, <2>3, <2>4, <2>5 DEF GateNext
<1>6. ASSUME GateRestarts PROVE QueueInv'
  BY <1>6 DEF GateRestarts
<1>7. ASSUME UNCHANGED <<gate, queue>> PROVE QueueInv'
  BY <1>7
<1>8. ASSUME NEW r \in Requests, CallerNext(r) PROVE QueueInv'
  BY <1>2, <1>7, <1>8, SandboxAssumption
  DEF CallerNext, ToolRuns, TrialRuns, SubmitFails, gates
<1>9. ASSUME NEW r \in Requests, GivesUp(r) \/ RunnerNext(r) \/ ScriptNext(r) PROVE QueueInv'
  BY <1>7, <1>9 DEF GivesUp, RunnerNext, ScriptNext, Refuses, Spawns, Completes, TimesOut,
                    Reaped, Forks, Exits, gates
<1>10. ASSUME RunnerStops \/ RunnerStarts \/ Tick PROVE QueueInv'
  BY <1>7, <1>10 DEF RunnerStops, RunnerStarts, Tick, gates
<1>11. QED
  BY <1>1, <1>3, <1>5, <1>6, <1>8, <1>9, <1>10 DEF Next

LEMMA SlotStep ==
    ASSUME TypeOK, QueueInv, SlotInv, RunInv, [Next]_vars
    PROVE  SlotInv'
<1>1. ASSUME UNCHANGED free, Holders' = Holders PROVE SlotInv'
  BY <1>1 DEF SlotInv
<1>2. ASSUME Acquire PROVE SlotInv'
  <2>1. free' = free - 1 /\ free \in 0..Slots /\ Slots \in Nat
    BY <1>2, SandboxAssumption DEF Acquire, TypeOK
  <2>2. Holders' = Holders \cup {Head(queue)} /\ Head(queue) \notin Holders
    BY <1>2, AcquireHead
  <2>3. IsFiniteSet(Holders') /\ Cardinality(Holders') = Cardinality(Holders) + 1
    BY <2>2, FS_AddElement DEF SlotInv
  <2>4. QED
    BY <2>1, <2>3 DEF SlotInv
<1>3. ASSUME NEW r \in Requests, NEW answer, Leave(r, answer),
             gate[r] \in {"connecting", "reading"}
      PROVE  SlotInv'
  <2>1. free' = free + 1 /\ free \in 0..Slots /\ Slots \in Nat
    BY <1>3, SandboxAssumption DEF Leave, TypeOK
  <2>2. gate' = [gate EXCEPT ![r] = "done"] /\ gate \in [Requests -> HandlerState]
    BY <1>3 DEF Leave, TypeOK
  <2>3. Holders' = Holders \ {r} /\ r \in Holders
    BY <1>3, <2>2 DEF Holders
  <2>4. IsFiniteSet(Holders') /\ Cardinality(Holders') = Cardinality(Holders) - 1
    BY <2>3, FS_RemoveElement DEF SlotInv
  <2>5. QED
    BY <2>1, <2>4 DEF SlotInv
<1>4. ASSUME NEW r \in Requests, GateNext(r) PROVE SlotInv'
  <2>1. CASE Connected(r)
    <3>1. Holders' = Holders /\ UNCHANGED free
      BY <2>1 DEF Connected, Holders, TypeOK
    <3>2. QED
      BY <3>1, <1>1
  <2>2. QED
    BY <1>4, <2>1, <1>3 DEF GateNext, NotConnected, ReadResult, ReadBroken, ReadTimesOut
<1>5. ASSUME NEW r \in Requests, NEW t \in Timeouts, Submit(r, t) PROVE SlotInv'
  <2>1. gate[r] = "none"
    BY <1>5 DEF Submit, RunInv, Phases
  <2>2. Holders' = Holders /\ UNCHANGED free
    BY <1>5, <2>1 DEF Submit, Holders, TypeOK
  <2>3. QED
    BY <2>2, <1>1
<1>6. ASSUME GateRestarts PROVE SlotInv'
  <2>1. Holders' = {} /\ free' = Slots
    BY <1>6 DEF GateRestarts, Holders, Held
  <2>2. QED
    BY <2>1, FS_EmptySet, SandboxAssumption DEF SlotInv
<1>7. ASSUME UNCHANGED <<gate, free>> PROVE SlotInv'
  BY <1>7, <1>1 DEF Holders
<1>8. ASSUME NEW r \in Requests, CallerNext(r) PROVE SlotInv'
  BY <1>5, <1>7, <1>8, SandboxAssumption
  DEF CallerNext, ToolRuns, TrialRuns, SubmitFails, gates
<1>9. ASSUME NEW r \in Requests, GivesUp(r) \/ RunnerNext(r) \/ ScriptNext(r) PROVE SlotInv'
  BY <1>7, <1>9 DEF GivesUp, RunnerNext, ScriptNext, Refuses, Spawns, Completes, TimesOut,
                    Reaped, Forks, Exits, gates
<1>10. ASSUME RunnerStops \/ RunnerStarts \/ Tick PROVE SlotInv'
  BY <1>7, <1>10 DEF RunnerStops, RunnerStarts, Tick, gates
<1>11. CASE UNCHANGED vars
  BY <1>11, <1>7 DEF vars, gates
<1>12. QED
  BY <1>2, <1>4, <1>6, <1>8, <1>9, <1>10, <1>11 DEF Next

-----------------------------------------------------------------------------
(* Types. *)

LEMMA TypeStep ==
    ASSUME TypeOK, QueueInv, SlotInv, RunInv, [Next]_vars
    PROVE  TypeOK'
<1> USE SandboxAssumption
<1>a. SlotInv'
  BY SlotStep
<1>b. \A t \in Timeouts : ReadTime(t) \in Nat /\ Patience(t) \in Nat
  BY DEF ReadTime, Patience
<1>1. ASSUME NEW r \in Requests, NEW t \in Timeouts, Submit(r, t) PROVE TypeOK'
  <2>1. queue' \in Seq(Requests)
    BY <1>1 DEF Submit, TypeOK
  <2>2. patience' \in [Requests -> Nat]
    BY <1>1, <1>b DEF Submit, TypeOK
  <2>3. QED
    BY <1>1, <2>1, <2>2 DEF Submit, TypeOK, runners, history, Heard, HandlerState
<1>2. ASSUME NEW r \in Requests, CallerNext(r) PROVE TypeOK'
  <2>1. CASE \E answer \in Heard : SubmitFails(r, answer)
    BY <2>1 DEF SubmitFails, TypeOK, gates, runners, history
  <2>2. QED
    BY <1>1, <1>2, <2>1 DEF CallerNext, ToolRuns, TrialRuns
<1>3. ASSUME NEW r \in Requests, GivesUp(r) PROVE TypeOK'
  BY <1>3 DEF GivesUp, TypeOK, gates, runners, history, Heard
<1>4. ASSUME Acquire PROVE TypeOK'
  <2>1. queue' \in Seq(Requests)
    BY <1>4 DEF Acquire, TypeOK
  <2>2. free' \in 0..Slots
    BY <1>4 DEF Acquire, TypeOK
  <2>3. QED
    BY <1>4, <2>1, <2>2 DEF Acquire, TypeOK, callers, runners, history, HandlerState, ConnectTime
<1>5. ASSUME NEW r \in Requests, NEW answer \in Heard, Leave(r, answer), UNCHANGED <<runners, history>>
      PROVE  TypeOK'
  <2>1. free' = free + 1 /\ free \in 0..Slots
    BY <1>5 DEF Leave, TypeOK
  <2>2. free' \in 0..Slots
    BY <2>1, <1>a, FS_CardinalityType DEF SlotInv
  <2>3. QED
    BY <1>5, <2>2 DEF Leave, Hears, TypeOK, runners, history, HandlerState, Heard, TimedOut
<1>6. ASSUME NEW r \in Requests, GateNext(r) PROVE TypeOK'
  <2>1. CASE Connected(r)
    <3>1. ReadTime(budget[r]) \in Nat
      BY <1>b DEF TypeOK
    <3>2. QED
      BY <2>1, <3>1 DEF Connected, TypeOK, callers, history, HandlerState, RunState
  <2>2. CASE NotConnected(r)
    BY <2>2, <1>5 DEF NotConnected, Heard
  <2>3. CASE ReadResult(r)
    BY <2>3, <1>5 DEF ReadResult, Heard, Replied, TimedOut
  <2>4. CASE ReadBroken(r)
    BY <2>4, <1>5 DEF ReadBroken, Heard
  <2>5. CASE ReadTimesOut(r)
    BY <2>5, <1>5 DEF ReadTimesOut, Heard, TimedOut
  <2>6. QED
    BY <1>6, <2>1, <2>2, <2>3, <2>4, <2>5 DEF GateNext
<1>7. ASSUME NEW r \in Requests, RunnerNext(r) PROVE TypeOK'
  <2>1. budget[r] \in Nat
    BY DEF TypeOK
  <2>2. CASE Refuses(r) \/ Completes(r) \/ Reaped(r)
    BY <2>2 DEF Refuses, Completes, Reaped, TypeOK, callers, gates, history, RunState
  <2>3. CASE Spawns(r)
    BY <2>1, <2>3 DEF Spawns, TypeOK, callers, gates, history, RunState, Process
  <2>4. CASE TimesOut(r)
    BY <2>4 DEF TimesOut, TypeOK, callers, gates, history, RunState, ReapTime
  <2>5. QED
    BY <1>7, <2>2, <2>3, <2>4 DEF RunnerNext
<1>8. ASSUME NEW r \in Requests, ScriptNext(r) PROVE TypeOK'
  BY <1>8 DEF ScriptNext, Forks, Exits, TypeOK, callers, gates, history
<1>9. ASSUME GateRestarts PROVE TypeOK'
  BY <1>9 DEF GateRestarts, TypeOK, runners, HandlerState, Heard
<1>10. ASSUME RunnerStops PROVE TypeOK'
  <2>1. runner' \in [Requests -> RunState] /\ procs' \in [Requests -> SUBSET Process]
    BY <1>10 DEF RunnerStops, TypeOK, RunState
  <2>2. restarts' \in 0..MaxRestarts
    BY <1>10 DEF RunnerStops, TypeOK
  <2>3. up' \in BOOLEAN
    BY <1>10 DEF RunnerStops
  <2>4. QED
    BY <1>10, <2>1, <2>2, <2>3 DEF RunnerStops, TypeOK, callers, gates
<1>11. ASSUME RunnerStarts PROVE TypeOK'
  BY <1>11 DEF RunnerStarts, TypeOK, callers, gates, history
<1>12. ASSUME Tick PROVE TypeOK'
  <2>1. \A r \in Requests :
           /\ caller[r] = "waiting" => patience[r] # 0
           /\ gate[r] \in {"connecting", "reading"} => gateLeft[r] # 0
           /\ runner[r] \in {"running", "reaping"} => runLeft[r] # 0
    BY <1>12 DEF Tick, AtOnce
  <2>2. /\ patience' \in [Requests -> Nat]
        /\ gateLeft' \in [Requests -> Nat]
        /\ runLeft' \in [Requests -> Nat]
    BY <1>12, <2>1 DEF Tick, TypeOK, Less
  <2>3. delayed' \subseteq Requests
    BY <1>12 DEF Tick, TypeOK
  <2>4. QED
    BY <1>12, <2>2, <2>3 DEF Tick, TypeOK
<1>13. CASE UNCHANGED vars
  BY <1>13 DEF vars, callers, gates, runners, history, TypeOK
<1>14. QED
  BY <1>2, <1>3, <1>4, <1>6, <1>7, <1>8, <1>9, <1>10, <1>11, <1>12, <1>13 DEF Next

-----------------------------------------------------------------------------
(* Stages and timers. *)

LEMMA RunStep ==
    ASSUME TypeOK, QueueInv, RunInv, [Next]_vars
    PROVE  RunInv'
<1> USE SandboxAssumption DEF RunInv, Phases, Processes, Timers, TypeOK, ReadTime, Patience,
                              TimedOut
<1>a. \A r \in Requests : budget[r] \in Nat /\ patience[r] \in Nat /\ gateLeft[r] \in Nat /\ runLeft[r] \in Nat
  OBVIOUS
<1>1. ASSUME NEW r \in Requests, NEW t \in Timeouts, Submit(r, t) PROVE RunInv'
  BY <1>1 DEF Submit, runners, history, Held
<1>2. ASSUME NEW r \in Requests, CallerNext(r) PROVE RunInv'
  <2>1. CASE \E answer \in Heard : SubmitFails(r, answer)
    BY <2>1 DEF SubmitFails, gates, runners, history, Held
  <2>2. QED
    BY <1>1, <1>2, <2>1 DEF CallerNext, ToolRuns, TrialRuns
<1>3. ASSUME NEW r \in Requests, GivesUp(r) PROVE RunInv'
  <2>1. r \in delayed
    <3>1. caller[r] = "waiting" /\ patience[r] = 0 /\ budget[r] \in Nat /\ gateLeft[r] \in Nat
      BY <1>3, <1>a DEF GivesUp
    <3>2. CASE gate[r] \in {"queued", "connecting"}
      BY <3>1, <3>2
    <3>3. CASE gate[r] = "reading"
      BY <3>1, <3>3
    <3>4. QED
      BY <3>1, <3>2, <3>3 DEF Held
  <2>2. UNCHANGED <<patience, budget, gates, runners, history>> /\ caller' = [caller EXCEPT ![r] = "gaveUp"]
    BY <1>3 DEF GivesUp
  <2>3. QED
    BY <2>1, <2>2 DEF gates, runners, history, Held
<1>4. ASSUME Acquire PROVE RunInv'
  <2>1. Head(queue) \in Requests /\ gate[Head(queue)] = "queued"
    BY <1>4, AcquireHead
  <2>2. QED
    BY <1>4, <2>1 DEF Acquire, callers, runners, history, Held
<1>5. ASSUME NEW r \in Requests, Connected(r) PROVE RunInv'
  <2>1. UNCHANGED <<callers, history, procs>> /\ r \notin orphans /\ runner[r] = "none"
    BY <1>5 DEF Connected, Held
  <2>2. ASSUME NEW q \in Requests PROVE Phases(q)' /\ Processes(q)'
    BY <1>5, <2>1 DEF Connected, callers, history, Held
  <2>3. ASSUME NEW q \in Requests PROVE Timers(q)'
    BY <1>5, <1>a, <2>1 DEF Connected, callers, history
  <2>4. QED
    BY <2>2, <2>3
<1>6. ASSUME NEW r \in Requests, NEW answer, Leave(r, answer), UNCHANGED <<runners, history>>,
             gate[r] \in {"connecting", "reading"},
             answer \notin {"nothing", "waiting", "gaveUp"},
             runner[r] \notin {"starting", "running"},
             answer \in TimedOut => \A p \in Group : p \notin procs[r]
      PROVE  RunInv'
  BY <1>6 DEF Leave, Hears, runners, history, Held
<1>7. ASSUME NEW r \in Requests, GateNext(r) PROVE RunInv'
  <2>1. CASE NotConnected(r)
    BY <2>1, <1>6 DEF NotConnected
  <2>2. CASE ReadResult(r)
    BY <2>2, <1>6 DEF ReadResult, Replied
  <2>3. CASE ReadBroken(r)
    BY <2>3, <1>6 DEF ReadBroken
  <2>4. CASE ReadTimesOut(r)
    <3>1. runner[r] \notin {"starting", "running", "result", "none"}
      BY <2>4, <1>a DEF ReadTimesOut
    <3>2. QED
      BY <2>4, <3>1, <1>6 DEF ReadTimesOut
  <2>5. QED
    BY <1>5, <1>7, <2>1, <2>2, <2>3, <2>4 DEF GateNext
<1>8. ASSUME NEW r \in Requests, RunnerNext(r) PROVE RunInv'
  <2>1. CASE Refuses(r)
    BY <2>1 DEF Refuses, callers, gates, history, Held
  <2>2. CASE Spawns(r)
    BY <2>2 DEF Spawns, callers, gates, history, Held
  <2>3. CASE Completes(r)
    BY <2>3 DEF Completes, callers, gates, history, Held
  <2>4. CASE TimesOut(r)
    <3>1. procs' = [procs EXCEPT ![r] = @ \ Group] /\ \A p \in Group : p \notin procs'[r]
      BY <2>4 DEF TimesOut
    <3>2. ASSUME NEW q \in Requests PROVE Phases(q)' /\ Timers(q)'
      BY <2>4 DEF TimesOut, callers, gates, history, Held
    <3>3. ASSUME NEW q \in Requests PROVE Processes(q)'
      BY <2>4, <3>1 DEF TimesOut, callers, gates, history
    <3>4. QED
      BY <3>2, <3>3
  <2>5. CASE Reaped(r)
    BY <2>5 DEF Reaped, callers, gates, history, Held
  <2>6. QED
    BY <1>8, <2>1, <2>2, <2>3, <2>4, <2>5 DEF RunnerNext
<1>9. ASSUME NEW r \in Requests, ScriptNext(r) PROVE RunInv'
  <2>1. UNCHANGED <<callers, gates, history, up, runner, runLeft>>
    BY <1>9 DEF ScriptNext, Forks, Exits
  <2>2. ASSUME NEW p \in Process, Forks(r, p) PROVE RunInv'
    <3>1. runner[r] = "running" /\ caller[r] \notin TimedOut
      <4>1. "main" \in procs[r] /\ "main" \in Group /\ "main" \in Foreground
        BY <2>2 DEF Forks, Group, Foreground
      <4>2. QED
        BY <4>1
    <3>2. QED
      BY <2>1, <2>2, <3>1 DEF Forks, callers, gates, history, Held
  <2>3. ASSUME NEW p \in Process, Exits(r, p) PROVE RunInv'
    BY <2>1, <2>3 DEF Exits, callers, gates, history, Held
  <2>4. QED
    BY <1>9, <2>2, <2>3 DEF ScriptNext
<1>10. ASSUME GateRestarts PROVE RunInv'
  BY <1>10 DEF GateRestarts, runners, Held
<1>11. ASSUME RunnerStops PROVE RunInv'
  BY <1>11 DEF RunnerStops, callers, gates, Held
<1>12. ASSUME RunnerStarts PROVE RunInv'
  BY <1>12 DEF RunnerStarts, callers, gates, history, Held
<1>13. ASSUME Tick PROVE RunInv'
  <2>1. UNCHANGED <<caller, budget, gate, runner, procs, orphans>>
    BY <1>13 DEF Tick
  <2>2. ASSUME NEW r \in Requests PROVE Phases(r)' /\ Processes(r)'
    BY <2>1, <2>2 DEF Held
  <2>3. ASSUME NEW r \in Requests PROVE Timers(r)'
    <3>1. /\ gate[r] = "reading" => runner[r] \notin {"starting", "result"}
          /\ gate[r] \in {"queued", "connecting"} => r \in delayed'
          /\ r \in delayed => r \in delayed'
          /\ caller[r] = "waiting" => patience'[r] = patience[r] - 1
          /\ gate[r] = "reading" => gateLeft'[r] = gateLeft[r] - 1
          /\ runner[r] = "running" => runLeft'[r] = runLeft[r] - 1
      BY <1>13 DEF Tick, AtOnce, Less, Replied
    <3>2. QED
      BY <2>1, <3>1
  <2>4. QED
    BY <2>2, <2>3
<1>14. CASE UNCHANGED vars
  BY <1>14 DEF vars, callers, gates, runners, history, Held
<1>15. QED
  BY <1>2, <1>3, <1>4, <1>7, <1>8, <1>9, <1>10, <1>11, <1>12, <1>13, <1>14 DEF Next

-----------------------------------------------------------------------------
(* The theorems. *)

LEMMA Inductive == Spec => []IInv
<1>1. Init => IInv
  BY InitHolds
<1>2. IInv /\ [Next]_vars => IInv'
  BY TypeStep, SlotStep, QueueStep, RunStep DEF IInv
<1>3. QED
  BY <1>1, <1>2, PTL DEF Spec

\* Every variable has its type; the semaphore stays between zero and Slots.
THEOREM TypeOKAlways == Spec => []TypeOK
<1>1. IInv => TypeOK
  BY DEF IInv
<1>2. QED
  BY <1>1, Inductive, PTL

\* The scripts of requests whose gate lives are as many as there are slots at
\* most: each of them still has its handler, which waits longer than the runner.
\* What has left the process group of a script is not counted.
THEOREM SlotsBoundScriptsAlways == Spec => []SlotsBoundScripts
<1>1. ASSUME IInv PROVE SlotsBoundScripts
  <2>1. Running \ orphans \subseteq Holders
    <3>1. ASSUME NEW r \in Requests, r \notin orphans, procs[r] \cap Foreground \cap Group # {}
          PROVE  gate[r] = "reading"
      <4>1. runner[r] \notin {"none", "starting", "reaping", "gone", "error", "killed", "result"}
        <5>1. PICK p : p \in procs[r] /\ p \in Foreground /\ p \in Group
          BY <3>1
        <5>2. QED
          BY <1>1, <5>1 DEF IInv, RunInv, Processes
      <4>2. QED
        BY <1>1, <3>1, <4>1 DEF IInv, RunInv, Phases, TypeOK, RunState
    <3>2. QED
      BY <3>1 DEF Running, Holders
  <2>2. IsFiniteSet(Running \ orphans) /\ Cardinality(Running \ orphans) <= Cardinality(Holders)
    BY <1>1, <2>1, FS_Subset DEF IInv, SlotInv
  <2>3. Cardinality(Holders) = Slots - free /\ free \in 0..Slots
    BY <1>1 DEF IInv, SlotInv, TypeOK
  <2>4. Cardinality(Running \ orphans) \in Nat
    BY <2>2, FS_CardinalityType
  <2>5. QED
    BY <2>2, <2>3, <2>4, SandboxAssumption DEF SlotsBoundScripts
<1>2. QED
  BY <1>1, Inductive, PTL

\* Whoever is told of a timeout, by the runner or by the gate, can rely on the
\* kill: no process of the script's process group lives, whatever it forked.
THEOREM TimeoutMeansKilledAlways == Spec => []TimeoutMeansKilled
<1>1. ASSUME IInv PROVE TimeoutMeansKilled
  <2>1. ASSUME NEW r \in Requests, caller[r] \in TimedOut PROVE procs[r] \cap Group = {}
    <3>1. \A p \in Group : p \notin procs[r]
      BY <1>1, <2>1 DEF IInv, RunInv, Processes
    <3>2. QED
      BY <3>1
  <2>2. QED
    BY <2>1, Zenon DEF TimeoutMeansKilled
<1>2. QED
  BY <1>1, Inductive, PTL

\* The three timeouts are nested for every length of the script's: only a
\* request that waited before its script ran is given up by its caller.
THEOREM GivesUpWhenDelayedAlways == Spec => []GivesUpWhenDelayed
<1>1. IInv => GivesUpWhenDelayed
  BY DEF IInv, RunInv, Timers, GivesUpWhenDelayed
<1>2. QED
  BY <1>1, Inductive, PTL

=============================================================================
