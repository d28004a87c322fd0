----------------------------- MODULE PaneProofs -----------------------------
(***************************************************************************)
(* Theorems about the panes: the views of the editor and its edits, the    *)
(* git panel, the tasks, the project panel, and the panels that mark rows, *)
(* for any files on disk, numbers of documents, views, commands, tasks,    *)
(* lines and rows.                                                         *)
(***************************************************************************)
EXTENDS Editor, MCPanels, SequenceTheorems, FiniteSetTheorems, FunctionTheorems,
        WellFoundedInduction, TLAPS

-----------------------------------------------------------------------------
-----------------------------------------------------------------------------
(* Sequences that lose elements, nodes that are reached (Collections).     *)

\* Nodes that are reached.

LEMMA ReachedHolds ==
    ASSUME NEW next, NEW v \in DOMAIN next
    PROVE  v \in Reached(next, v) /\ Reached(next, v) \subseteq DOMAIN next
BY DEF Reached

LEMMA ReachedLeast ==
    ASSUME NEW next, NEW v, NEW S \in SUBSET DOMAIN next, v \in S,
           \A m \in S : next[m] \subseteq S
    PROVE  Reached(next, v) \subseteq S
BY DEF Reached

LEMMA ReachedClosed ==
    ASSUME NEW next, NEW v, NEW m \in Reached(next, v), next[m] \subseteq DOMAIN next
    PROVE  next[m] \subseteq Reached(next, v)
BY DEF Reached

-----------------------------------------------------------------------------
\* Elements that are dropped.

\* Induction over the natural numbers, for a set in place of a predicate.
LEMMA Induction ==
    ASSUME NEW S, 0 \in S, \A n \in Nat : n \in S => n + 1 \in S
    PROVE  Nat \subseteq S
<1> DEFINE R == {p \in Nat \X Nat : p[1] < p[2]}
           T == Nat \ S
<1>1. OpToRel(<, Nat) = R
  BY DEF OpToRel
<1>2. IsWellFoundedOn(R, Nat)
  BY <1>1, NatLessThanWellFounded
<1>3. SUFFICES ASSUME T # {} PROVE FALSE
  OBVIOUS
<1> HIDE DEF R
<1>4. PICK x \in T : \A y \in T : ~ (<<y, x>> \in R)
  BY <1>2, <1>3, WFMin
<1>5. x \in Nat /\ x # 0
  OBVIOUS
<1>6. x - 1 \in Nat /\ x - 1 < x /\ (x - 1) + 1 = x
  BY <1>5
<1>7. x - 1 \in T
  BY <1>6
<1>8. QED
  BY <1>4, <1>6, <1>7 DEF R

LeftUpTo(s, gone, m, f) ==
    f = [n \in 0..m |-> IF n = 0 THEN <<>>
                        ELSE IF s[n] \in gone THEN f[n - 1]
                        ELSE Append(f[n - 1], s[n])]

\* The function that Dropping defines by recursion exists.
LEMMA LeftExists ==
    ASSUME NEW s, NEW gone
    PROVE  \A m \in Nat : \E f : LeftUpTo(s, gone, m, f)
<1> DEFINE S == {m \in Nat : \E f : LeftUpTo(s, gone, m, f)}
<1>1. 0 \in S
  <2> DEFINE f == [n \in 0..0 |-> <<>>]
  <2>1. LeftUpTo(s, gone, 0, f)
    BY DEF LeftUpTo
  <2>2. QED
    BY <2>1
<1>2. ASSUME NEW m \in Nat, m \in S PROVE m + 1 \in S
  <2>1. PICK f : LeftUpTo(s, gone, m, f)
    BY <1>2
  <2> DEFINE last == IF s[m + 1] \in gone THEN f[m] ELSE Append(f[m], s[m + 1])
             g == [n \in 0..(m + 1) |-> IF n = m + 1 THEN last ELSE f[n]]
  <2> HIDE DEF last
  <2>2. ASSUME NEW n \in 0..(m + 1)
        PROVE  g[n] = IF n = 0 THEN <<>>
                      ELSE IF s[n] \in gone THEN g[n - 1]
                      ELSE Append(g[n - 1], s[n])
    <3>1. CASE n = m + 1
      <4>1. n # 0 /\ n - 1 = m /\ n - 1 \in 0..(m + 1) /\ n - 1 # m + 1
        BY <3>1
      <4>2. g[n] = last /\ g[n - 1] = f[m]
        BY <3>1, <4>1
      <4>3. QED
        BY <3>1, <4>1, <4>2 DEF last
    <3>2. CASE n # m + 1
      <4>1. n \in 0..m /\ (n # 0 => n - 1 \in 0..(m + 1) /\ n - 1 # m + 1)
        BY <3>2
      <4>2. g[n] = f[n] /\ (n # 0 => g[n - 1] = f[n - 1])
        BY <3>2, <4>1
      <4>3. f[n] = IF n = 0 THEN <<>>
                   ELSE IF s[n] \in gone THEN f[n - 1]
                   ELSE Append(f[n - 1], s[n])
        BY <2>1, <4>1 DEF LeftUpTo
      <4>4. QED
        BY <4>2, <4>3
    <3>3. QED
      BY <3>1, <3>2
  <2>3. LeftUpTo(s, gone, m + 1, g)
    BY <2>2 DEF LeftUpTo
  <2>4. QED
    BY <2>3
<1> HIDE DEF S
<1>3. Nat \subseteq S
  BY <1>1, <1>2, Induction
<1>4. QED
  BY <1>3 DEF S

Distinct(s) == \A i, j \in 1..Len(s) : s[i] = s[j] => i = j

\* What is left are the elements of s that are not dropped, all of them, and
\* if s had none twice, none of them twice.
LEMMA DroppingKeeps ==
    ASSUME NEW T, NEW s \in Seq(T), NEW gone
    PROVE  /\ Dropping(s, gone) \in Seq(T)
           /\ \A i \in 1..Len(Dropping(s, gone)) :
                  \E j \in 1..Len(s) : Dropping(s, gone)[i] = s[j] /\ s[j] \notin gone
           /\ \A j \in 1..Len(s) : s[j] \notin gone =>
                  \E i \in 1..Len(Dropping(s, gone)) : Dropping(s, gone)[i] = s[j]
           /\ Distinct(s) => Distinct(Dropping(s, gone))
<1> DEFINE m == Len(s)
           k == CHOOSE f : LeftUpTo(s, gone, m, f)
           All(n) == /\ k[n] \in Seq(T)
                     /\ \A i \in 1..Len(k[n]) : \E j \in 1..n : k[n][i] = s[j] /\ s[j] \notin gone
                     /\ \A j \in 1..n : s[j] \notin gone => \E i \in 1..Len(k[n]) : k[n][i] = s[j]
                     /\ Distinct(s) => Distinct(k[n])
<1>1. m \in Nat /\ s \in [1..m -> T]
  BY LenProperties
<1>2. LeftUpTo(s, gone, m, k)
  BY <1>1, LeftExists
<1>3. Dropping(s, gone) = k[m]
  BY DEF Dropping, LeftUpTo
<1> HIDE DEF m, k
<1>4. /\ k[0] = <<>>
      /\ \A n \in 1..m : k[n] = IF s[n] \in gone THEN k[n - 1] ELSE Append(k[n - 1], s[n])
  <2>1. \A n \in 0..m : k[n] = IF n = 0 THEN <<>>
                              ELSE IF s[n] \in gone THEN k[n - 1]
                              ELSE Append(k[n - 1], s[n])
    BY <1>2, Zenon DEF LeftUpTo
  <2>2. 0 \in 0..m /\ \A n \in 1..m : n \in 0..m /\ n # 0
    BY <1>1
  <2>3. QED
    BY <2>1, <2>2
<1> DEFINE S == {n \in Nat : n <= m => All(n)}
<1>5. 0 \in S
  <2>1. Len(k[0]) = 0 /\ k[0] \in Seq(T)
    BY <1>4, EmptySeq
  <2>2. QED
    BY <2>1 DEF Distinct
<1>6. ASSUME NEW n \in Nat, n \in S PROVE n + 1 \in S
  <2>1. SUFFICES ASSUME n + 1 <= m PROVE All(n + 1)
    OBVIOUS
  <2>2. /\ n + 1 \in 1..m /\ (n + 1) - 1 = n /\ s[n + 1] \in T /\ All(n) /\ n <= m
    BY <1>1, <1>6, <2>1
  <2>3. k[n + 1] = IF s[n + 1] \in gone THEN k[n] ELSE Append(k[n], s[n + 1])
    BY <1>4, <2>2
  <2>4. CASE s[n + 1] \in gone
    <3>1. k[n + 1] = k[n]
      BY <2>3, <2>4
    <3>2. \A j \in 1..(n + 1) : j \in 1..n \/ j = n + 1
      OBVIOUS
    <3>3. \A j \in 1..n : j \in 1..(n + 1)
      OBVIOUS
    <3>4. QED
      BY <2>2, <2>4, <3>1, <3>2, <3>3
  <2>5. CASE s[n + 1] \notin gone
    <3> DEFINE l == Len(k[n])
    <3>1. k[n + 1] = Append(k[n], s[n + 1])
      BY <2>3, <2>5
    <3>2. /\ k[n + 1] \in Seq(T) /\ Len(k[n + 1]) = l + 1 /\ l \in Nat
          /\ k[n + 1][l + 1] = s[n + 1]
          /\ \A i \in 1..l : k[n + 1][i] = k[n][i]
      BY <2>2, <3>1, AppendProperties, LenProperties
    <3> HIDE DEF l
    <3>3. ASSUME NEW i \in 1..(l + 1)
          PROVE  \E j \in 1..(n + 1) : k[n + 1][i] = s[j] /\ s[j] \notin gone
      <4>1. CASE i = l + 1
        BY <2>5, <3>2, <4>1
      <4>2. CASE i \in 1..l
        BY <2>2, <3>2, <4>2 DEF l
      <4>3. QED
        BY <3>2, <4>1, <4>2
    <3>4. ASSUME NEW j \in 1..(n + 1), s[j] \notin gone
          PROVE  \E i \in 1..(l + 1) : k[n + 1][i] = s[j]
      <4>1. CASE j = n + 1
        BY <3>2, <4>1
      <4>2. CASE j \in 1..n
        <5>1. PICK i \in 1..l : k[n][i] = s[j]
          BY <2>2, <3>4, <4>2 DEF l
        <5>2. i \in 1..(l + 1) /\ k[n + 1][i] = s[j]
          BY <3>2, <5>1
        <5>3. QED
          BY <5>2
      <4>3. QED
        BY <4>1, <4>2
    <3>5. ASSUME Distinct(s), NEW i \in 1..(l + 1), NEW h \in 1..(l + 1),
                 k[n + 1][i] = k[n + 1][h]
          PROVE  i = h
      <4>1. ASSUME NEW g \in 1..l PROVE k[n + 1][g] # s[n + 1]
        <5>1. PICK j \in 1..n : k[n][g] = s[j]
          BY <2>2 DEF l
        <5>2. j \in 1..Len(s) /\ n + 1 \in 1..Len(s) /\ j # n + 1
          BY <1>1, <2>2 DEF m
        <5>3. QED
          BY <3>2, <3>5, <5>1, <5>2 DEF Distinct
      <4>2. CASE i \in 1..l /\ h \in 1..l
        <5>1. k[n][i] = k[n][h] /\ Distinct(k[n])
          BY <2>2, <3>2, <3>5, <4>2
        <5>2. QED
          BY <4>2, <5>1 DEF Distinct, l
      <4>3. QED
        BY <3>2, <3>5, <4>1, <4>2
    <3>6. Distinct(s) => Distinct(k[n + 1])
      BY <3>2, <3>5 DEF Distinct
    <3>7. QED
      BY <3>2, <3>3, <3>4, <3>6
  <2>6. QED
    BY <2>4, <2>5
<1> HIDE DEF S
<1>7. m \in S
  BY <1>1, <1>5, <1>6, Induction
<1>8. All(m)
  BY <1>1, <1>7 DEF S
<1>9. m = Len(s)
  BY DEF m
<1>10. k[m] \in Seq(T) /\ (Distinct(s) => Distinct(k[m]))
  BY <1>8
<1>11. \A i \in 1..Len(k[m]) : \E j \in 1..m : k[m][i] = s[j] /\ s[j] \notin gone
  BY <1>8
<1>12. \A j \in 1..m : s[j] \notin gone => \E i \in 1..Len(k[m]) : k[m][i] = s[j]
  BY <1>8
<1> HIDE DEF All
<1>13. QED
  BY <1>3, <1>9, <1>10, <1>11, <1>12

\* k[n] is what is left of the first n elements.
LeftOver(s, gone, k) ==
    /\ Dropping(s, gone) = k[Len(s)]
    /\ k[0] = <<>>
    /\ \A n \in 1..Len(s) : k[n] = IF s[n] \in gone THEN k[n - 1] ELSE Append(k[n - 1], s[n])

LEMMA DroppingIs ==
    ASSUME NEW T, NEW s \in Seq(T), NEW gone
    PROVE  \E k : LeftOver(s, gone, k)
<1> DEFINE m == Len(s)
           k == CHOOSE f : LeftUpTo(s, gone, m, f)
<1>1. m \in Nat
  BY LenProperties
<1>2. LeftUpTo(s, gone, m, k)
  BY <1>1, LeftExists
<1>3. Dropping(s, gone) = k[m]
  BY DEF Dropping, LeftUpTo
<1> HIDE DEF m, k
<1>4. \A n \in 0..m : k[n] = IF n = 0 THEN <<>>
                             ELSE IF s[n] \in gone THEN k[n - 1]
                             ELSE Append(k[n - 1], s[n])
  BY <1>2, Zenon DEF LeftUpTo
<1>5. 0 \in 0..m /\ \A n \in 1..m : n \in 0..m /\ n # 0
  BY <1>1
<1>6. /\ k[0] = <<>>
      /\ \A n \in 1..m : k[n] = IF s[n] \in gone THEN k[n - 1] ELSE Append(k[n - 1], s[n])
  BY <1>4, <1>5
<1>7. QED
  BY <1>3, <1>6 DEF m, LeftOver

LEMMA DroppingNone ==
    ASSUME NEW gone
    PROVE  Dropping(<<>>, gone) = <<>>
<1>1. <<>> \in Seq({}) /\ Len(<<>>) = 0
  BY EmptySeq
<1>2. PICK k : LeftOver(<<>>, gone, k)
  BY <1>1, DroppingIs
<1>3. QED
  BY <1>1, <1>2 DEF LeftOver

LEMMA DroppingAppend ==
    ASSUME NEW T, NEW s \in Seq(T), NEW x \in T, NEW gone
    PROVE  Dropping(Append(s, x), gone) =
               IF x \in gone THEN Dropping(s, gone) ELSE Append(Dropping(s, gone), x)
<1> DEFINE m == Len(s)
           t == Append(s, x)
<1>1. m \in Nat /\ t \in Seq(T) /\ Len(t) = m + 1 /\ t[m + 1] = x /\ \A n \in 1..m : t[n] = s[n]
  BY AppendProperties, LenProperties
<1>2. PICK k : /\ Dropping(s, gone) = k[m] /\ k[0] = <<>>
               /\ \A n \in 1..m : k[n] = IF s[n] \in gone THEN k[n - 1] ELSE Append(k[n - 1], s[n])
  <2>1. PICK k : LeftOver(s, gone, k)
    BY DroppingIs
  <2>2. QED
    BY <2>1 DEF LeftOver
<1> HIDE DEF m
<1>3. PICK j : /\ Dropping(t, gone) = j[m + 1] /\ j[0] = <<>>
               /\ \A n \in 1..(m + 1) :
                      j[n] = IF t[n] \in gone THEN j[n - 1] ELSE Append(j[n - 1], t[n])
  <2>1. PICK j : LeftOver(t, gone, j)
    BY <1>1, DroppingIs
  <2>2. QED
    BY <1>1, <2>1 DEF LeftOver
<1> HIDE DEF t
<1> DEFINE S == {n \in Nat : n <= m => j[n] = k[n]}
<1>4. 0 \in S
  BY <1>2, <1>3
<1>5. ASSUME NEW n \in Nat, n \in S PROVE n + 1 \in S
  <2>1. SUFFICES ASSUME n + 1 <= m PROVE j[n + 1] = k[n + 1]
    OBVIOUS
  <2>2. n + 1 \in 1..m /\ n + 1 \in 1..(m + 1) /\ (n + 1) - 1 = n /\ j[n] = k[n]
    BY <1>1, <1>5, <2>1
  <2>3. QED
    BY <1>1, <1>2, <1>3, <2>2
<1> HIDE DEF S
<1>6. m \in S
  BY <1>1, <1>4, <1>5, Induction
<1>7. j[m] = k[m]
  BY <1>1, <1>6 DEF S
<1>8. m + 1 \in 1..(m + 1) /\ (m + 1) - 1 = m
  BY <1>1
<1>9. QED
  BY <1>1, <1>2, <1>3, <1>7, <1>8 DEF t

LEMMA DroppingConcat ==
    ASSUME NEW T, NEW s \in Seq(T), NEW t \in Seq(T), NEW gone
    PROVE  Dropping(s \o t, gone) = Dropping(s, gone) \o Dropping(t, gone)
<1> DEFINE D(x) == Dropping(x, gone)
           S == {n \in Nat : \A x \in Seq(T) : Len(x) = n => D(s \o x) = D(s) \o D(x)}
<1>1. \A x \in Seq(T) : D(x) \in Seq(T)
  BY DroppingKeeps
<1>2. 0 \in S
  <2>1. ASSUME NEW x \in Seq(T), Len(x) = 0 PROVE D(s \o x) = D(s) \o D(x)
    <3>1. x = <<>>
      BY <2>1, EmptySeq
    <3>2. s \o x = s /\ D(x) = <<>> /\ D(s) \o <<>> = D(s)
      BY <1>1, <3>1, DroppingNone, ConcatEmptySeq
    <3>3. QED
      BY <3>2
  <2>2. QED
    BY <2>1
<1>3. ASSUME NEW n \in Nat, n \in S PROVE n + 1 \in S
  <2>1. ASSUME NEW x \in Seq(T), Len(x) = n + 1 PROVE D(s \o x) = D(s) \o D(x)
    <3>1. x # <<>>
      BY <2>1, EmptySeq
    <3>2. PICK y \in Seq(T), e \in T : x = Append(y, e)
      BY <3>1, SequenceEmptyOrAppend
    <3>3. Len(y) = n
      BY <2>1, <3>2, AppendProperties, LenProperties
    <3>4. D(s \o y) = D(s) \o D(y)
      BY <1>3, <3>3
    <3>5. s \o y \in Seq(T) /\ <<e>> \in Seq(T)
      BY ConcatProperties
    <3>6. s \o x = Append(s \o y, e)
      <4>1. x = y \o <<e>> /\ Append(s \o y, e) = (s \o y) \o <<e>>
        BY <3>2, <3>5, AppendIsConcat
      <4>2. QED
        BY <3>5, <4>1, ConcatAssociative
    <3>7. D(s \o x) = IF e \in gone THEN D(s \o y) ELSE Append(D(s \o y), e)
      <4> DEFINE w == s \o y
      <4>1. w \in Seq(T)
        BY <3>5
      <4> HIDE DEF w
      <4>2. D(Append(w, e)) = IF e \in gone THEN D(w) ELSE Append(D(w), e)
        BY <4>1, DroppingAppend
      <4>3. QED
        BY <3>6, <4>2 DEF w
    <3>8. D(x) = IF e \in gone THEN D(y) ELSE Append(D(y), e)
      BY <3>2, DroppingAppend
    <3>9. CASE e \in gone
      BY <3>4, <3>7, <3>8, <3>9
    <3>10. CASE e \notin gone
      <4> HIDE DEF D
      <4>1. D(s) \in Seq(T) /\ D(y) \in Seq(T) /\ D(s) \o D(y) \in Seq(T)
        BY <1>1, ConcatProperties
      <4>2. Append(D(s) \o D(y), e) = (D(s) \o D(y)) \o <<e>> /\ Append(D(y), e) = D(y) \o <<e>>
        BY <4>1, AppendIsConcat
      <4>3. (D(s) \o D(y)) \o <<e>> = D(s) \o (D(y) \o <<e>>)
        BY <3>5, <4>1, ConcatAssociative, SMTT(30)
      <4>4. QED
        BY <3>4, <3>7, <3>8, <3>10, <4>2, <4>3
    <3>11. QED
      BY <3>9, <3>10
  <2>2. QED
    BY <2>1
<1> HIDE DEF S
<1>4. Len(t) \in S
  BY <1>2, <1>3, Induction, LenProperties
<1>5. QED
  BY <1>4 DEF S

-----------------------------------------------------------------------------
-----------------------------------------------------------------------------
(* The views of the editor (EditorViews).                                  *)

Kids(t) == [n \in Views |-> IF t[n].type = "split" THEN {t[n].a, t[n].b} ELSE {}]
Used(t) == {n \in Views : t[n].type # "none"}
LeavesOf(t) == {n \in Views : t[n].type = "leaf"}
SplitsOf(t) == {n \in Views : t[n].type = "split"}

Node == [type : {"none", "leaf", "split"}, a : Views \cup {None}, b : Views \cup {None},
         tabs : Seq(Files), active : Nat]

\* One binary tree: the children of a split are two, in use and no others',
\* and all that is in use hangs under the root, which is nobody's child.
Tree(t) ==
    /\ t \in [Views -> Node]
    /\ Root \in Used(t)
    /\ \A s \in SplitsOf(t) : t[s].a # t[s].b
    /\ \A s \in Views : Kids(t)[s] \subseteq Used(t) \ {Root}
    /\ \A s, u \in Views : \A k \in Kids(t)[s] : k \in Kids(t)[u] => s = u
    /\ Used(t) \subseteq Below(t, Root)

-----------------------------------------------------------------------------
\* What trees are like.

LEMMA RootIsView == Root \in Views /\ None \notin Views /\ Views \subseteq Nat
BY PlacesAssumption DEF Root, None, Views

LEMMA BelowIs ==
    ASSUME NEW t, NEW v \in Views
    PROVE  /\ Below(t, v) = Reached(Kids(t), v)
           /\ v \in Below(t, v) /\ Below(t, v) \subseteq Views
<1>1. Below(t, v) = Reached(Kids(t), v) /\ DOMAIN Kids(t) = Views
  BY DEF Below, Kids
<1>2. QED
  BY <1>1, ReachedHolds

LEMMA BelowLeast ==
    ASSUME NEW t, NEW v \in Views, NEW S \in SUBSET Views, v \in S,
           \A m \in S : Kids(t)[m] \subseteq S
    PROVE  Below(t, v) \subseteq S
<1>1. DOMAIN Kids(t) = Views
  BY DEF Kids
<1>2. QED
  BY <1>1, BelowIs, ReachedLeast

LEMMA BelowClosed ==
    ASSUME NEW t, Tree(t), NEW v \in Views, NEW m \in Below(t, v)
    PROVE  m \in Views /\ Kids(t)[m] \subseteq Below(t, v)
<1>1. DOMAIN Kids(t) = Views
  BY DEF Kids
<1>2. m \in Views
  BY BelowIs
<1>3. Kids(t)[m] \subseteq Views
  BY <1>2 DEF Tree, Used
<1>4. QED
  BY <1>1, <1>2, <1>3, BelowIs, ReachedClosed

LEMMA BelowUsed ==
    ASSUME NEW t, Tree(t), NEW v \in Used(t)
    PROVE  Below(t, v) \subseteq Used(t)
<1>1. v \in Views /\ Used(t) \subseteq Views
  BY DEF Used
<1>2. \A m \in Used(t) : Kids(t)[m] \subseteq Used(t)
  BY <1>1 DEF Tree
<1>3. QED
  BY <1>1, <1>2, BelowLeast

\* The root is below itself only.
LEMMA RootNotBelow ==
    ASSUME NEW t, Tree(t), NEW v \in Views, v # Root
    PROVE  Root \notin Below(t, v)
<1> DEFINE S == Views \ {Root}
<1>1. \A m \in S : Kids(t)[m] \subseteq S
  BY DEF Tree, Used
<1>2. QED
  BY <1>1, BelowLeast

\* Every other node has a parent.
LEMMA HasParent ==
    ASSUME NEW t, Tree(t), NEW n \in Used(t), n # Root
    PROVE  \E s \in SplitsOf(t) : n \in Kids(t)[s]
<1> DEFINE S == Views \ {n}
<1>1. SUFFICES ASSUME \A s \in SplitsOf(t) : n \notin Kids(t)[s] PROVE FALSE
  OBVIOUS
<1>2. \A s \in Views : n \notin Kids(t)[s]
  BY <1>1 DEF Kids, SplitsOf
<1>3. \A m \in S : Kids(t)[m] \subseteq S
  BY <1>2 DEF Tree, Used
<1>4. Below(t, Root) \subseteq S
  BY <1>3, BelowLeast, RootIsView
<1>5. QED
  BY <1>4 DEF Tree

\* Nodes without the root that have their parents among them are none.
LEMMA NoCycle ==
    ASSUME NEW t, Tree(t), NEW C \in SUBSET Used(t), Root \notin C,
           \A x \in C : \E p \in C : x \in Kids(t)[p]
    PROVE  C = {}
<1> DEFINE S == Views \ C
<1>1. ASSUME NEW m \in S, NEW k \in Kids(t)[m] PROVE k \in S
  <2>1. k \in Views
    BY <1>1 DEF Tree, Used
  <2>2. SUFFICES ASSUME k \in C PROVE FALSE
    BY <2>1
  <2>3. PICK p \in C : k \in Kids(t)[p]
    BY <2>2
  <2>4. p \in Views
    BY <2>3 DEF Used
  <2>5. QED
    BY <1>1, <2>3, <2>4 DEF Tree
<1>2. Below(t, Root) \subseteq S
  BY <1>1, BelowLeast, RootIsView
<1>3. QED
  BY <1>2 DEF Tree

\* What is below a node has its parent there.
LEMMA BelowParent ==
    ASSUME NEW t, Tree(t), NEW v \in Views, NEW x \in Below(t, v), x # v
    PROVE  \E p \in Below(t, v) : x \in Kids(t)[p]
<1> DEFINE S == Below(t, v) \ {x}
<1>1. SUFFICES ASSUME \A p \in Below(t, v) : x \notin Kids(t)[p] PROVE FALSE
  OBVIOUS
<1>2. \A m \in S : Kids(t)[m] \subseteq S
  BY <1>1, BelowClosed
<1>3. v \in S /\ S \in SUBSET Views
  BY BelowIs
<1> HIDE DEF S
<1>4. Below(t, v) \subseteq S
  BY <1>2, <1>3, BelowLeast
<1>5. QED
  BY <1>4 DEF S

LEMMA ParentNotBelow ==
    ASSUME NEW t, Tree(t), NEW v, NEW p \in Views, v \in Kids(t)[p]
    PROVE  p \notin Below(t, v)
<1>1. v \in Used(t) /\ v # Root /\ v \in Views
  BY DEF Tree, Used
<1>2. SUFFICES ASSUME p \in Below(t, v) PROVE FALSE
  OBVIOUS
<1>3. \A x \in Below(t, v) : \E q \in Below(t, v) : x \in Kids(t)[q]
  BY <1>1, <1>2, BelowParent
<1>4. Below(t, v) = {}
  BY <1>1, <1>3, BelowUsed, RootNotBelow, NoCycle
<1>5. QED
  BY <1>2, <1>4

\* A subtree reaches neither the parent nor the parent's other child, and is
\* left by no other child.
LEMMA SubtreeApart ==
    ASSUME NEW t, Tree(t), NEW p \in Views, NEW w, NEW x,
           Kids(t)[p] = {w, x}, w # x
    PROVE  /\ p \notin Below(t, x) /\ w \notin Below(t, x) /\ Root \notin Below(t, x)
           /\ \A s \in Views \ Below(t, x) : \A k \in Kids(t)[s] :
                  k \in Below(t, x) => s = p /\ k = x
<1>1. x \in Views /\ w \in Views /\ x # Root
  BY DEF Tree, Used
<1>2. p \notin Below(t, x)
  BY ParentNotBelow
<1>3. ASSUME NEW s \in Views \ Below(t, x), NEW k \in Kids(t)[s], k \in Below(t, x)
      PROVE  s = p /\ k = x
  <2>1. k = x
    <3>1. SUFFICES ASSUME k # x PROVE FALSE
      OBVIOUS
    <3>2. PICK q \in Below(t, x) : k \in Kids(t)[q]
      BY <1>1, <1>3, <3>1, BelowParent
    <3>3. q \in Views
      BY <1>1, <3>2, BelowIs
    <3>4. QED
      BY <1>3, <3>2, <3>3 DEF Tree
  <2>2. QED
    BY <1>3, <2>1 DEF Tree
<1>4. w \notin Below(t, x)
  BY <1>2, <1>3
<1>5. QED
  BY <1>1, <1>2, <1>3, <1>4, RootNotBelow

LEMMA SameSize ==
    ASSUME NEW S, NEW T, IsFiniteSet(S), NEW f \in [S -> T],
           \A x, y \in S : f[x] = f[y] => x = y,
           \A z \in T : \E x \in S : f[x] = z
    PROVE  IsFiniteSet(T) /\ Cardinality(T) = Cardinality(S)
<1>1. f \in Bijection(S, T)
  BY Fun_IsBij
<1>2. QED
  BY <1>1, FS_Bijection DEF ExistsBijection

LEMMA ViewsFinite ==
    /\ IsFiniteSet(Views) /\ Cardinality(Views) = 2 * MaxLeaves - 1
    /\ \A S \in SUBSET Views : IsFiniteSet(S) /\ Cardinality(S) \in Nat
<1>1. 2 * MaxLeaves - 1 \in Int /\ 1 \in Int /\ 2 * MaxLeaves - 1 >= 1
  BY PlacesAssumption
<1>2. IsFiniteSet(Views) /\ Cardinality(Views) = 2 * MaxLeaves - 1
  BY <1>1, FS_Interval DEF Views
<1>3. QED
  BY <1>2, FS_Subset, FS_CardinalityType

\* A tree has one leaf more than it has splits.
LEMMA LeafCount ==
    ASSUME NEW t, Tree(t)
    PROVE  /\ Cardinality(LeavesOf(t)) = Cardinality(SplitsOf(t)) + 1
           /\ Cardinality(Used(t)) = 2 * Cardinality(LeavesOf(t)) - 1
           /\ Cardinality(LeavesOf(t)) \in Nat
<1> DEFINE L == LeavesOf(t)
           P == SplitsOf(t)
           A == {n \in Views : \E s \in P : t[s].a = n}
           B == {n \in Views : \E s \in P : t[s].b = n}
<1>1. /\ L \in SUBSET Views /\ P \in SUBSET Views /\ A \in SUBSET Views /\ B \in SUBSET Views
      /\ Used(t) \in SUBSET Views
  BY DEF LeavesOf, SplitsOf, Used
<1>2. /\ IsFiniteSet(L) /\ IsFiniteSet(P) /\ IsFiniteSet(A) /\ IsFiniteSet(B)
      /\ IsFiniteSet(Used(t))
      /\ Cardinality(L) \in Nat /\ Cardinality(P) \in Nat
  BY <1>1, ViewsFinite
<1>3. \A s \in P : /\ s \in Views /\ Kids(t)[s] = {t[s].a, t[s].b}
                   /\ t[s].a \in Used(t) \ {Root} /\ t[s].b \in Used(t) \ {Root}
                   /\ t[s].a # t[s].b
  BY DEF Tree, Kids, SplitsOf
<1>4. \A s, u \in P : t[s].a = t[u].a \/ t[s].b = t[u].b \/ t[s].a = t[u].b => s = u
  BY <1>3 DEF Tree
<1>5. Cardinality(A) = Cardinality(P)
  <2> DEFINE f == [s \in P |-> t[s].a]
  <2>1. f \in [P -> A]
    BY <1>3 DEF Used
  <2>2. \A x, y \in P : f[x] = f[y] => x = y
    BY <1>4
  <2>3. \A z \in A : \E x \in P : f[x] = z
    OBVIOUS
  <2> HIDE DEF f, A, P
  <2>4. QED
    BY <1>2, <2>1, <2>2, <2>3, SameSize
<1>6. Cardinality(B) = Cardinality(P)
  <2> DEFINE f == [s \in P |-> t[s].b]
  <2>1. f \in [P -> B]
    BY <1>3 DEF Used
  <2>2. \A x, y \in P : f[x] = f[y] => x = y
    BY <1>4
  <2>3. \A z \in B : \E x \in P : f[x] = z
    OBVIOUS
  <2> HIDE DEF f, B, P
  <2>4. QED
    BY <1>2, <2>1, <2>2, <2>3, SameSize
<1>7. A \cap B = {}
  BY <1>3, <1>4
<1>8. A \cup B = Used(t) \ {Root}
  <2>1. A \cup B \subseteq Used(t) \ {Root}
    BY <1>3
  <2>2. ASSUME NEW n \in Used(t) \ {Root} PROVE n \in A \cup B
    <3>1. PICK s \in P : n \in Kids(t)[s]
      BY HasParent
    <3>2. QED
      BY <1>1, <1>3, <3>1
  <2>3. QED
    BY <2>1, <2>2
<1>9. Used(t) = L \cup P /\ L \cap P = {}
  BY DEF Tree, Node, Used, LeavesOf, SplitsOf
<1> HIDE DEF A, B, L, P
<1>10. Cardinality(A \cup B) = Cardinality(P) + Cardinality(P)
  <2>1. Cardinality(A \cap B) = 0
    BY <1>7, FS_EmptySet
  <2>2. Cardinality(A \cup B) = Cardinality(A) + Cardinality(B) - Cardinality(A \cap B)
    BY <1>2, FS_Union
  <2>3. QED
    BY <1>2, <1>5, <1>6, <2>1, <2>2
<1>11. Cardinality(Used(t)) = Cardinality(L) + Cardinality(P)
  <2>1. Cardinality(L \cap P) = 0
    BY <1>9, FS_EmptySet
  <2>2. Cardinality(L \cup P) = Cardinality(L) + Cardinality(P) - Cardinality(L \cap P)
    BY <1>2, FS_Union
  <2>3. QED
    BY <1>2, <1>9, <2>1, <2>2
<1>12. Cardinality(Used(t) \ {Root}) = Cardinality(Used(t)) - 1
  BY <1>2, FS_RemoveElement DEF Tree
<1>13. Cardinality(A \cup B) = Cardinality(Used(t) \ {Root})
  BY <1>8
<1>14. Cardinality(L) = Cardinality(P) + 1
  BY <1>2, <1>10, <1>11, <1>12, <1>13
<1>15. QED
  BY <1>2, <1>11, <1>14 DEF L, P

\* Below the limit of leaves two nodes are free.
LEMMA LowestIn ==
    ASSUME NEW S \in SUBSET Views, S # {}
    PROVE  Lowest(S) \in S
<1> DEFINE R == {p \in Nat \X Nat : p[1] < p[2]}
<1>1. OpToRel(<, Nat) = R
  BY DEF OpToRel
<1>2. IsWellFoundedOn(R, Nat)
  BY <1>1, NatLessThanWellFounded
<1>3. S \subseteq Nat
  BY RootIsView
<1> HIDE DEF R
<1>4. PICK x \in S : \A y \in S : ~ (<<y, x>> \in R)
  BY <1>2, <1>3, WFMin
<1>5. ASSUME NEW y \in S PROVE x <= y
  <2>1. x \in Nat /\ y \in Nat /\ <<y, x>> \notin R
    BY <1>3, <1>4
  <2>2. ~ (y < x)
    BY <2>1 DEF R
  <2>3. QED
    BY <2>1, <2>2
<1>6. QED
  BY <1>5 DEF Lowest

LEMMA TwoFree ==
    ASSUME Tree(view), Cardinality(LeavesOf(view)) < MaxLeaves
    PROVE  /\ Lowest(FreeViews) \in FreeViews
           /\ Lowest(FreeViews \ {Lowest(FreeViews)}) \in FreeViews \ {Lowest(FreeViews)}
<1> DEFINE a == Lowest(FreeViews)
           n == Cardinality(LeavesOf(view))
<1>1. FreeViews \in SUBSET Views /\ Used(view) \in SUBSET Views /\ FreeViews = Views \ Used(view)
  BY DEF FreeViews, Used
<1>2. /\ IsFiniteSet(FreeViews) /\ IsFiniteSet(Views) /\ n \in Nat
      /\ Cardinality(Used(view)) = 2 * n - 1 /\ Cardinality(Views) = 2 * MaxLeaves - 1
  BY <1>1, ViewsFinite, LeafCount
<1>3. Cardinality(FreeViews) = (2 * MaxLeaves - 1) - (2 * n - 1)
  <2>1. Views \cap Used(view) = Used(view)
    BY <1>1
  <2>2. Cardinality(Views \ Used(view)) = Cardinality(Views) - Cardinality(Views \cap Used(view))
    BY <1>2, FS_Difference
  <2>3. QED
    BY <1>1, <1>2, <2>1, <2>2
<1>4. Cardinality(FreeViews) >= 2
  BY <1>2, <1>3, PlacesAssumption
<1>5. FreeViews # {}
  BY <1>4, FS_EmptySet
<1>6. a \in FreeViews
  BY <1>1, <1>5, LowestIn
<1> HIDE DEF a
<1>7. Cardinality(FreeViews \ {a}) = Cardinality(FreeViews) - 1 /\ Cardinality(FreeViews) \in Nat
  BY <1>1, <1>2, <1>6, FS_RemoveElement, ViewsFinite
<1>8. FreeViews \ {a} # {}
  BY <1>4, <1>7, FS_EmptySet
<1>9. Lowest(FreeViews \ {a}) \in FreeViews \ {a}
  BY <1>1, <1>8, LowestIn
<1>10. QED
  BY <1>6, <1>9 DEF a

\* Down the left side of a tree there is a leaf.
LEMMA LeftmostIsLeaf ==
    ASSUME NEW t, Tree(t)
    PROVE  LeftmostLeaf(t) \in LeavesOf(t)
<1> DEFINE next == [m \in Views |-> IF t[m].type = "split" THEN {t[m].a} ELSE {}]
           C == Reached(next, Root)
<1>1. DOMAIN next = Views
  OBVIOUS
<1>2. \A m \in Views : next[m] \subseteq Kids(t)[m]
  BY DEF Kids
<1>3. Root \in C /\ C \subseteq Views
  BY <1>1, RootIsView, ReachedHolds
<1>4. C \subseteq Used(t)
  <2>1. \A m \in Used(t) : next[m] \subseteq Used(t)
    BY <1>2 DEF Tree, Used
  <2>2. Used(t) \in SUBSET DOMAIN next /\ Root \in Used(t)
    BY DEF Used, Tree
  <2> HIDE DEF next
  <2>3. QED
    BY <2>1, <2>2, ReachedLeast
<1>5. \A m \in C : next[m] \subseteq C
  <2>1. \A m \in C : next[m] \subseteq DOMAIN next
    BY <1>1, <1>2, <1>3 DEF Tree, Used
  <2> HIDE DEF next
  <2>2. QED
    BY <2>1, ReachedClosed
<1>6. \E n \in C : t[n].type # "split"
  <2>1. SUFFICES ASSUME \A n \in C : t[n].type = "split" PROVE FALSE
    OBVIOUS
  <2> DEFINE D == C \ {Root}
             f == [n \in C |-> t[n].a]
  <2>2. \A n \in C : t[n].a \in D
    <3>1. \A n \in C : next[n] = {t[n].a} /\ n \in Views
      BY <1>3, <2>1
    <3>2. QED
      BY <1>2, <1>5, <3>1 DEF Tree
  <2>3. \A n, m \in C : t[n].a = t[m].a => n = m
    <3>1. \A n \in C : t[n].a \in Kids(t)[n] /\ n \in Views
      BY <1>3, <2>1 DEF Kids
    <3>2. QED
      BY <3>1 DEF Tree
  <2> HIDE DEF C
  <2>4. IsFiniteSet(C) /\ IsFiniteSet(D) /\ Cardinality(D) = Cardinality(C) - 1
        /\ Cardinality(C) \in Nat
    BY <1>3, ViewsFinite, FS_RemoveElement
  <2>5. f \in [C -> D] /\ Cardinality(D) < Cardinality(C)
    BY <2>2, <2>4
  <2>6. \A x \in C : f[x] = t[x].a
    OBVIOUS
  <2> HIDE DEF D, f
  <2>7. \E x, y \in C : x # y /\ f[x] = f[y]
    BY <2>4, <2>5, FS_PigeonHole, Zenon
  <2>8. QED
    BY <2>3, <2>6, <2>7
<1> HIDE DEF C, next
<1>7. LeftmostLeaf(t) \in C /\ t[LeftmostLeaf(t)].type # "split"
  BY <1>6 DEF LeftmostLeaf, C, next
<1>8. QED
  BY <1>3, <1>4, <1>7 DEF Tree, Node, Used, LeavesOf

\* A node is the child of one split, beside its sibling.
LEMMA ParentIs ==
    ASSUME Tree(view), NEW w \in Used(view), w # Root
    PROVE  /\ Parent(w) \in Splits /\ Parent(w) \in Views /\ w \in Kids(view)[Parent(w)]
           /\ \A q \in Views : w \in Kids(view)[q] => q = Parent(w)
<1>1. PICK s \in SplitsOf(view) : w \in Kids(view)[s]
  BY HasParent
<1>2. s \in Splits /\ s \in Views /\ w \in {view[s].a, view[s].b}
  BY <1>1 DEF SplitsOf, Splits, Kids
<1>3. Parent(w) \in Splits /\ w \in {view[Parent(w)].a, view[Parent(w)].b}
  BY <1>2 DEF Parent
<1>4. Parent(w) \in Views /\ w \in Kids(view)[Parent(w)]
  BY <1>3 DEF Splits, Kids
<1>5. QED
  BY <1>3, <1>4 DEF Tree

LEMMA SiblingIs ==
    ASSUME Tree(view), NEW w \in Used(view), w # Root
    PROVE  /\ Sibling(w) \in Used(view) \ {Root, w}
           /\ Kids(view)[Parent(w)] = {w, Sibling(w)}
           /\ Parent(Sibling(w)) = Parent(w)
           /\ Sibling(Sibling(w)) = w
<1> DEFINE p == Parent(w)
<1>1. p \in Splits /\ p \in Views /\ w \in Kids(view)[p]
  BY ParentIs
<1>2. Kids(view)[p] = {view[p].a, view[p].b} /\ view[p].a # view[p].b
  BY <1>1 DEF Kids, Splits, SplitsOf, Tree
<1>3. Sibling(w) = IF view[p].a = w THEN view[p].b ELSE view[p].a
  BY DEF Sibling
<1>4. Kids(view)[p] = {w, Sibling(w)} /\ Sibling(w) # w
  BY <1>1, <1>2, <1>3
<1>5. Sibling(w) \in Used(view) \ {Root}
  BY <1>1, <1>4 DEF Tree
<1>6. Parent(Sibling(w)) = p
  BY <1>1, <1>4, <1>5, ParentIs
<1>7. Sibling(Sibling(w)) = w
  BY <1>1, <1>2, <1>3, <1>6 DEF Sibling
<1>8. QED
  BY <1>4, <1>5, <1>6, <1>7

\* Where a node of the tree after Raised comes from: the subtree takes the
\* place of its parent, at the root by being copied there.
From(w, n) == IF Parent(w) = Root /\ n = Root THEN w ELSE n

\* What is left has its place and its contents, but for the children.
SameNode(x, y) == x.type = y.type /\ x.tabs = y.tabs /\ x.active = y.active

NoViewIs == NoView \in Node /\ NoView.type = "none" /\ NoView.tabs = <<>> /\ NoView.active = 0

LEMMA NoViewFacts == NoViewIs
<1>1. <<>> \in Seq(Files)
  BY EmptySeq
<1>2. QED
  BY <1>1, RootIsView DEF NoViewIs, NoView, Node, None

\* The subtree of a child of the root is copied to it, and what is below its
\* sibling is freed.
LEMMA RaisedToRoot ==
    ASSUME Tree(view), NEW w \in Used(view), w # Root, Parent(w) = Root,
           NEW t, t = Raised(w, Below(view, Sibling(w)))
    PROVE  /\ t \in [Views -> Node]
           /\ t[Root] = view[w] /\ t[w] = NoView
           /\ \A n \in Below(view, Sibling(w)) : t[n] = NoView
           /\ \A n \in Views \ ({Root, w} \cup Below(view, Sibling(w))) : t[n] = view[n]
<1> DEFINE D == Below(view, Sibling(w))
           moved == [view EXCEPT ![Root] = view[w], ![w] = NoView]
<1>1. t = [n \in Views |-> IF n \in D THEN NoView ELSE moved[n]]
  BY DEF Raised
<1>2. /\ Root \in Views /\ w \in Views /\ view \in [Views -> Node] /\ NoView \in Node
      /\ D \subseteq Views
  BY RootIsView, NoViewFacts, SiblingIs, BelowIs DEF Tree, Used, NoViewIs
<1>3. Root \notin D /\ w \notin D
  BY <1>2, SubtreeApart, SiblingIs
<1>4. /\ moved[Root] = view[w] /\ moved[w] = NoView /\ moved \in [Views -> Node]
      /\ \A n \in Views \ {Root, w} : moved[n] = view[n]
  BY <1>2
<1> HIDE DEF moved, D
<1>5. /\ t \in [Views -> Node] /\ t[Root] = view[w] /\ t[w] = NoView
      /\ \A n \in D : t[n] = NoView
      /\ \A n \in Views \ ({Root, w} \cup D) : t[n] = view[n]
  BY <1>1, <1>2, <1>3, <1>4
<1>6. QED
  BY <1>5 DEF D

LEMMA RaisedToRootTree ==
    ASSUME Tree(view), NEW w \in Used(view), w # Root, Parent(w) = Root,
           NEW t, t = Raised(w, Below(view, Sibling(w)))
    PROVE  Tree(t)
<1> DEFINE D == Below(view, Sibling(w))
           Others == Views \ ({Root, w} \cup D)
<1>1. /\ t \in [Views -> Node] /\ t[Root] = view[w] /\ t[w] = NoView
      /\ \A n \in D : t[n] = NoView
      /\ \A n \in Others : t[n] = view[n]
  BY RaisedToRoot
<1>2. /\ Root \in Views /\ w \in Views /\ D \subseteq Views /\ Others \subseteq Views
      /\ Root \in Splits /\ Kids(view)[Root] = {w, Sibling(w)} /\ Sibling(w) \in D
      /\ Sibling(w) # w
  BY RootIsView, SiblingIs, ParentIs, BelowIs DEF Used
<1>3. /\ Root \notin D /\ w \notin D
      /\ \A s \in Views \ D : \A k \in Kids(view)[s] : k \in D => s = Root
  BY <1>2, SubtreeApart
<1>4. /\ Kids(t)[Root] = Kids(view)[w] /\ Kids(t)[w] = {}
      /\ \A n \in D : Kids(t)[n] = {}
      /\ \A n \in Others : Kids(t)[n] = Kids(view)[n]
  BY <1>1, <1>2, NoViewFacts DEF Kids, NoViewIs
<1>5. Used(t) = {Root} \cup (Used(view) \cap Others)
  BY <1>1, <1>2, <1>3, NoViewFacts DEF Used, NoViewIs
<1>6. \A s \in SplitsOf(t) : t[s].a # t[s].b
  BY <1>1, <1>2, <1>3, NoViewFacts DEF Tree, SplitsOf, NoViewIs
<1> HIDE DEF D, Others
<1>7. ASSUME NEW n \in Others \cup {w}, NEW k \in Kids(view)[n]
      PROVE  k \in Used(view) \cap Others
  <2>1. k \in Used(view) \ {Root} /\ k \in Views
    BY <1>2, <1>7 DEF Tree, Used
  <2>2. n # Root /\ n \notin D /\ n \in Views
    BY <1>2, <1>3, <1>7 DEF Others
  <2>3. k \notin D
    BY <1>3, <1>7, <2>2
  <2>4. k # w
    BY <1>2, <1>7, <2>2 DEF Tree
  <2>5. QED
    BY <2>1, <2>3, <2>4 DEF Others
<1>8. \A s \in Views : s = Root \/ s = w \/ s \in D \/ s \in Others
  BY DEF Others
<1>9. \A s \in Views : Kids(t)[s] \subseteq Used(t) \ {Root}
  <2>1. Root \notin Others
    BY DEF Others
  <2>2. QED
    BY <1>4, <1>5, <1>7, <1>8, <2>1
<1>10. ASSUME NEW s \in Views, NEW u \in Views, NEW k \in Kids(t)[s], k \in Kids(t)[u]
       PROVE  s = u
  <2> DEFINE F(n) == IF n = Root THEN w ELSE n
  <2>1. \A n \in Views : k \in Kids(t)[n] => F(n) \in Views /\ k \in Kids(view)[F(n)] /\ n # w
    BY <1>2, <1>4, <1>8
  <2>2. F(s) = F(u)
    BY <1>10, <2>1 DEF Tree
  <2>3. QED
    BY <1>10, <2>1, <2>2
<1>11. Used(t) \subseteq Below(t, Root)
  <2> DEFINE B == Below(t, Root)
             S == B \cup {w} \cup D
  <2>1. B \subseteq Views /\ Root \in B
    BY <1>2, BelowIs
  <2>2. \A m \in B : Kids(t)[m] \subseteq B
    <3>1. DOMAIN Kids(t) = Views /\ B = Reached(Kids(t), Root)
      BY <1>2, BelowIs DEF Kids
    <3>2. \A m \in B : Kids(t)[m] \subseteq DOMAIN Kids(t)
      BY <1>9, <2>1, <3>1 DEF Used
    <3> HIDE DEF B
    <3>3. QED
      BY <3>1, <3>2, ReachedClosed
  <2> HIDE DEF B
  <2>3. ASSUME NEW m \in S PROVE Kids(view)[m] \subseteq S
    <3>1. CASE m \in D
      BY <3>1, BelowClosed, SiblingIs DEF D, Used
    <3>2. CASE m = Root
      BY <1>2, <3>2
    <3>3. CASE m = w
      BY <1>4, <2>1, <2>2, <3>3
    <3>4. CASE m \in B /\ m \in Others
      BY <1>4, <2>2, <3>4
    <3>5. QED
      BY <1>8, <2>1, <2>3, <3>1, <3>2, <3>3, <3>4
  <2>4. S \in SUBSET Views /\ Root \in S
    BY <1>2, <2>1
  <2> HIDE DEF S
  <2>5. Used(view) \subseteq S
    BY <1>2, <2>3, <2>4, BelowLeast DEF Tree
  <2>6. QED
    BY <1>5, <2>1, <2>5 DEF S, B, Others
<1>12. QED
  BY <1>1, <1>5, <1>6, <1>9, <1>10, <1>11 DEF Tree

\* A subtree below the root takes the place of its parent with the split
\* above, and what is below its sibling is freed with the parent.
LEMMA RaisedBelow ==
    ASSUME Tree(view), NEW w \in Used(view), w # Root, NEW p, p = Parent(w), p # Root,
           NEW g, g = Parent(p), NEW D, D = Below(view, Sibling(w)),
           NEW t, t = Raised(w, D)
    PROVE  /\ p \in Used(view) \ {Root} /\ p \in Views /\ g \in Splits /\ g \in Views /\ g # p
           /\ g \notin D /\ p \notin D /\ w \notin D /\ Root \notin D /\ w # p /\ w # g
           /\ D \subseteq Views
           /\ t \in [Views -> Node]
           /\ t[p] = NoView
           /\ \A n \in D : t[n] = NoView
           /\ \A n \in Views \ ({p, g} \cup D) : t[n] = view[n]
           /\ SameNode(t[g], view[g])
           /\ t[g].a = (IF view[g].a = p THEN w ELSE view[g].a)
           /\ t[g].b = (IF view[g].b = p THEN w ELSE view[g].b)
<1> DEFINE moved == [view EXCEPT ![g].a = IF @ = p THEN w ELSE @,
                                 ![g].b = IF @ = p THEN w ELSE @,
                                 ![p] = NoView]
           nextG == [view[g] EXCEPT !.a = IF @ = p THEN w ELSE @, !.b = IF @ = p THEN w ELSE @]
<1>1. p \in Splits /\ p \in Views /\ w \in Kids(view)[p]
  BY ParentIs
<1>2. p \in Used(view) \ {Root}
  BY <1>1 DEF Splits, Used
<1>3. g \in Splits /\ g \in Views /\ p \in Kids(view)[g]
  BY <1>2, ParentIs
<1>4. w \in Views
  BY DEF Used
<1>5. /\ Kids(view)[p] = {w, Sibling(w)} /\ Sibling(w) # w /\ Sibling(w) \in Views
      /\ Sibling(w) \in Used(view)
  BY SiblingIs DEF Used
<1>6. D \subseteq Views /\ Sibling(w) \in D
  BY <1>5, BelowIs
<1>7. p \notin D /\ w \notin D /\ Root \notin D
  BY <1>1, <1>5, SubtreeApart
<1>8. g \notin D
  <2>1. ASSUME g \in D PROVE FALSE
    <3>1. Kids(view)[g] \subseteq D
      BY <1>5, <2>1, BelowClosed
    <3>2. QED
      BY <1>3, <1>7, <3>1
  <2>2. QED
    BY <2>1
<1>9. g # p
  <2>1. g \notin Below(view, p)
    BY <1>3, ParentNotBelow
  <2>2. QED
    BY <1>1, <2>1, BelowIs
<1>10. w # p
  <2>1. p \notin Below(view, w)
    BY <1>1, ParentNotBelow
  <2>2. QED
    BY <1>4, <2>1, BelowIs
<1>11. w # g
  <2>1. p \notin Below(view, w)
    BY <1>1, ParentNotBelow
  <2>2. Kids(view)[w] \subseteq Below(view, w)
    BY <1>4, BelowIs, BelowClosed
  <2>3. QED
    BY <1>3, <2>1, <2>2
<1>12. /\ view \in [Views -> Node] /\ NoView \in Node
  BY NoViewFacts DEF Tree, NoViewIs
<1>13. moved = [[view EXCEPT ![g] = nextG] EXCEPT ![p] = NoView]
  BY <1>3, <1>12
<1>14. /\ nextG \in Node /\ SameNode(nextG, view[g])
       /\ nextG.a = (IF view[g].a = p THEN w ELSE view[g].a)
       /\ nextG.b = (IF view[g].b = p THEN w ELSE view[g].b)
  BY <1>3, <1>4, <1>12 DEF Node, SameNode
<1> HIDE DEF nextG
<1>15. /\ moved \in [Views -> Node] /\ moved[g] = nextG /\ moved[p] = NoView
       /\ \A n \in Views \ {p, g} : moved[n] = view[n]
  BY <1>1, <1>3, <1>9, <1>12, <1>13, <1>14
<1>16. t = [n \in Views |-> IF n \in D THEN NoView ELSE moved[n]]
  BY DEF Raised
<1> HIDE DEF moved
<1>17. /\ t \in [Views -> Node] /\ t[p] = NoView /\ t[g] = nextG
       /\ \A n \in D : t[n] = NoView
       /\ \A n \in Views \ ({p, g} \cup D) : t[n] = view[n]
  BY <1>1, <1>3, <1>6, <1>7, <1>8, <1>12, <1>15, <1>16
<1>18. QED
  BY <1>1, <1>2, <1>3, <1>6, <1>7, <1>8, <1>9, <1>10, <1>11, <1>14, <1>17

LEMMA RaisedBelowTree ==
    ASSUME Tree(view), NEW w \in Used(view), w # Root, Parent(w) # Root,
           NEW t, t = Raised(w, Below(view, Sibling(w)))
    PROVE  Tree(t)
<1> DEFINE p == Parent(w)
           g == Parent(p)
           D == Below(view, Sibling(w))
           Same == Views \ ({p, g} \cup D)
<1>1. /\ p \in Used(view) \ {Root} /\ p \in Views /\ g \in Splits /\ g \in Views /\ g # p
      /\ g \notin D /\ p \notin D /\ w \notin D /\ Root \notin D /\ w # p /\ w # g
      /\ D \subseteq Views
      /\ t \in [Views -> Node]
      /\ t[p] = NoView
      /\ \A n \in D : t[n] = NoView
      /\ \A n \in Same : t[n] = view[n]
      /\ SameNode(t[g], view[g])
      /\ t[g].a = (IF view[g].a = p THEN w ELSE view[g].a)
      /\ t[g].b = (IF view[g].b = p THEN w ELSE view[g].b)
  BY RaisedBelow
<1>2. /\ p \in Kids(view)[g] /\ Kids(view)[p] = {w, Sibling(w)} /\ w \in Views
      /\ Sibling(w) \in D /\ Sibling(w) # w /\ w # Root /\ Sibling(w) \in Used(view)
      /\ w \in Used(view) /\ Root \in Views
  BY <1>1, SiblingIs, ParentIs, BelowIs, RootIsView DEF Used
<1>3. \A s \in Views \ D : \A k \in Kids(view)[s] : k \in D => s = p
  BY <1>1, <1>2, SubtreeApart
<1>4. /\ Kids(t)[p] = {} /\ \A n \in D : Kids(t)[n] = {}
      /\ \A n \in Same : Kids(t)[n] = Kids(view)[n]
      /\ Kids(view)[g] = {view[g].a, view[g].b}
      /\ Kids(t)[g] = {t[g].a, t[g].b} /\ view[g].a # view[g].b
  BY <1>1, NoViewFacts DEF Kids, NoViewIs, Splits, SameNode, Tree, SplitsOf
<1> HIDE DEF p, g, D, Same
<1>5. Kids(t)[g] = {w} \cup (Kids(view)[g] \ {p})
  BY <1>1, <1>2, <1>4
<1>6. Used(t) = Used(view) \ ({p} \cup D)
  BY <1>1, NoViewFacts DEF Used, NoViewIs, SameNode, Same, Splits
<1>7. w \notin Kids(view)[g]
  BY <1>1, <1>2 DEF Tree
<1>8. \A s \in SplitsOf(t) : t[s].a # t[s].b
  <2>1. ASSUME NEW s \in SplitsOf(t) PROVE t[s].a # t[s].b
    <3>1. CASE s = g
      BY <1>1, <1>4, <1>7, <3>1
    <3>2. CASE s \in Same
      BY <1>1, <2>1, <3>2 DEF Tree, SplitsOf
    <3>3. s \notin D /\ s # p /\ s \in Views
      BY <1>1, <2>1, NoViewFacts DEF SplitsOf, NoViewIs
    <3>4. QED
      BY <3>1, <3>2, <3>3 DEF Same
  <2>2. QED
    BY <2>1
<1>9. \A s \in Views : s = g \/ s = p \/ s \in D \/ s \in Same
  BY DEF Same
<1>10. ASSUME NEW s \in Views, NEW k \in Kids(t)[s]
       PROVE  /\ k \in Used(t) \ {Root}
              /\ IF k = w THEN s = g ELSE k \in Kids(view)[s]
  <2>1. CASE s = g /\ k = w
    BY <1>1, <1>2, <1>6, <2>1
  <2>2. CASE k \in Kids(view)[s] /\ s # p /\ s \notin D /\ k # p /\ k # w
    <3>1. k \in Used(view) \ {Root} /\ k \notin D
      BY <1>3, <1>10, <2>2 DEF Tree
    <3>2. QED
      BY <1>6, <2>2, <3>1
  <2>3. CASE s = g /\ k # w
    BY <1>1, <1>5, <1>10, <2>2, <2>3
  <2>4. CASE s \in Same
    <3>1. k \in Kids(view)[s] /\ s # p /\ s \notin D /\ s # g
      BY <1>4, <1>10, <2>4 DEF Same
    <3>2. k # p /\ k # w
      BY <1>1, <1>2, <3>1 DEF Tree
    <3>3. QED
      BY <2>2, <3>1, <3>2
  <2>5. QED
    BY <1>4, <1>9, <1>10, <2>1, <2>3, <2>4
<1>11. \A s, u \in Views : \A k \in Kids(t)[s] : k \in Kids(t)[u] => s = u
  BY <1>10 DEF Tree
<1>12. Used(t) \subseteq Below(t, Root)
  <2> DEFINE B == Below(t, Root)
             S == B \cup D \cup (IF g \in B THEN {p} ELSE {})
  <2>1. B \subseteq Views /\ Root \in B
    BY <1>2, BelowIs
  <2>2. \A m \in B : Kids(t)[m] \subseteq B
    <3>1. DOMAIN Kids(t) = Views /\ B = Reached(Kids(t), Root)
      BY <1>2, BelowIs DEF Kids
    <3>2. \A m \in B : Kids(t)[m] \subseteq DOMAIN Kids(t)
      BY <1>10, <2>1, <3>1 DEF Used
    <3> HIDE DEF B
    <3>3. QED
      BY <3>1, <3>2, ReachedClosed
  <2> HIDE DEF B
  <2>3. B \subseteq {Root} \cup Used(t)
    <3> DEFINE U == Used(t) \cup {Root}
    <3>1. \A m \in U : Kids(t)[m] \subseteq U
      BY <1>2, <1>10 DEF Used
    <3>2. U \in SUBSET Views /\ Root \in U
      BY <1>2 DEF Used
    <3> HIDE DEF U
    <3>3. B \subseteq U
      BY <1>2, <3>1, <3>2, BelowLeast DEF B
    <3>4. QED
      BY <3>3 DEF U
  <2>4. p \notin B
    BY <1>1, <1>6, <2>3
  <2>5. ASSUME NEW m \in S PROVE Kids(view)[m] \subseteq S
    <3>1. CASE m \in D
      BY <1>2, <3>1, BelowClosed DEF D, Used
    <3>2. CASE m = p
      <4>1. g \in B
        BY <1>1, <2>4, <2>5, <3>2
      <4>2. w \in B
        BY <1>5, <2>2, <4>1
      <4>3. QED
        BY <1>2, <3>2, <4>2
    <3>3. CASE m = g /\ m \in B
      BY <1>5, <2>2, <3>3
    <3>4. CASE m \in B /\ m \in Same
      BY <1>4, <2>2, <3>4
    <3>5. QED
      BY <1>1, <1>9, <2>1, <2>5, <3>1, <3>2, <3>3, <3>4
  <2>6. S \in SUBSET Views /\ Root \in S
    BY <1>1, <2>1
  <2> HIDE DEF S
  <2>7. Used(view) \subseteq S
    BY <1>2, <2>5, <2>6, BelowLeast DEF Tree
  <2>8. QED
    BY <1>6, <2>7 DEF S, B
<1>13. Root \in Used(t)
  BY <1>1, <1>6 DEF Tree
<1>14. QED
  BY <1>1, <1>8, <1>10, <1>11, <1>12, <1>13 DEF Tree

LEMMA RaisedTree ==
    ASSUME Tree(view), NEW w \in Used(view), w # Root
    PROVE  Tree(Raised(w, Below(view, Sibling(w))))
BY RaisedToRootTree, RaisedBelowTree

\* What the nodes left in the tree were before.
LEMMA RaisedNodes ==
    ASSUME Tree(view), NEW w \in Used(view), w # Root,
           NEW D, D = Below(view, Sibling(w)), NEW t, t = Raised(w, D)
    PROVE  /\ \A n \in Views : \/ t[n] = NoView
                               \/ /\ From(w, n) \in Views \ (D \cup {Parent(w)})
                                  /\ SameNode(t[n], view[From(w, n)])
                                  /\ n # w \/ Parent(w) # Root
           /\ \A n \in Views \ (D \cup {Parent(w)}) :
                  \E m \in Views : From(w, m) = n /\ SameNode(t[m], view[n])
<1>1. CASE Parent(w) = Root
  <2>1. /\ t \in [Views -> Node]
        /\ t[Root] = view[w] /\ t[w] = NoView
        /\ \A n \in D : t[n] = NoView
        /\ \A n \in Views \ ({Root, w} \cup D) : t[n] = view[n]
    BY <1>1, RaisedToRoot
  <2>2. w \in Views /\ Root \in Views
    BY RootIsView DEF Used
  <2>3. w \notin D
    BY <1>1, <2>2, SubtreeApart, SiblingIs
  <2>4. From(w, Root) = w /\ \A n \in Views : n # Root => From(w, n) = n
    BY <1>1 DEF From
  <2>5. QED
    BY <1>1, <2>1, <2>2, <2>3, <2>4 DEF SameNode
<1>2. CASE Parent(w) # Root
  <2> DEFINE p == Parent(w)
             g == Parent(p)
  <2>1. /\ g # p /\ g \in Views /\ g \notin D
        /\ t[p] = NoView
        /\ \A n \in D : t[n] = NoView
        /\ \A n \in Views \ ({p, g} \cup D) : t[n] = view[n]
        /\ SameNode(t[g], view[g])
    BY <1>2, RaisedBelow
  <2>2. \A n : From(w, n) = n
    BY <1>2 DEF From
  <2> HIDE DEF p, g
  <2>3. \A n \in Views \ (D \cup {p}) : SameNode(t[n], view[n])
    BY <2>1 DEF SameNode
  <2>4. QED
    BY <1>2, <2>1, <2>2, <2>3 DEF p
<1>3. QED
  BY <1>1, <1>2

\* The leaves left are those that were not freed.
LEMMA RaisedLeaves ==
    ASSUME Tree(view), NEW w \in Used(view), w # Root,
           NEW D, D = Below(view, Sibling(w)), NEW t, t = Raised(w, D)
    PROVE  /\ Cardinality(LeavesOf(t)) = Cardinality(LeavesOf(view) \ D)
           /\ Cardinality(LeavesOf(t)) =
                  Cardinality(LeavesOf(view)) - Cardinality(D \cap LeavesOf(view))
           /\ Cardinality(LeavesOf(view)) \in Nat /\ Cardinality(D \cap LeavesOf(view)) \in Nat
           /\ Cardinality(LeavesOf(t)) > 0
<1> DEFINE L == LeavesOf(view)
           p == Parent(w)
           f == [n \in LeavesOf(t) |-> From(w, n)]
<1>1. /\ \A n \in Views : \/ t[n] = NoView
                          \/ /\ From(w, n) \in Views \ (D \cup {p})
                             /\ SameNode(t[n], view[From(w, n)])
                             /\ n # w \/ p # Root
      /\ \A n \in Views \ (D \cup {p}) :
             \E m \in Views : From(w, m) = n /\ SameNode(t[m], view[n])
  BY RaisedNodes
<1>2. p \notin L /\ L \in SUBSET Views /\ LeavesOf(t) \in SUBSET Views
  BY ParentIs DEF LeavesOf, Splits
<1>3. /\ IsFiniteSet(L) /\ IsFiniteSet(LeavesOf(t)) /\ Cardinality(L) \in Nat
      /\ IsFiniteSet(L \ D) /\ IsFiniteSet(D \cap L) /\ Cardinality(D \cap L) \in Nat
  <2>1. L \ D \in SUBSET Views /\ D \cap L \in SUBSET Views
    BY <1>2
  <2>2. QED
    BY <1>2, <2>1, ViewsFinite
<1>4. f \in [LeavesOf(t) -> L \ D]
  <2>1. ASSUME NEW n \in LeavesOf(t) PROVE From(w, n) \in L \ D
    <3>1. n \in Views /\ t[n].type = "leaf" /\ t[n] # NoView
      BY <2>1, NoViewFacts DEF LeavesOf, NoViewIs
    <3>2. From(w, n) \in Views \ D /\ view[From(w, n)].type = "leaf"
      BY <1>1, <3>1 DEF SameNode
    <3>3. QED
      BY <3>2 DEF LeavesOf
  <2>2. QED
    BY <2>1
<1>5. \A x, y \in LeavesOf(t) : f[x] = f[y] => x = y
  <2>1. \A n \in LeavesOf(t) : n # w \/ p # Root
    BY <1>1, NoViewFacts DEF LeavesOf, NoViewIs
  <2>2. QED
    BY <2>1 DEF From
<1>6. \A z \in L \ D : \E x \in LeavesOf(t) : f[x] = z
  <2>1. ASSUME NEW z \in L \ D PROVE \E x \in LeavesOf(t) : f[x] = z
    <3>1. z \in Views \ (D \cup {p}) /\ view[z].type = "leaf"
      BY <1>2 DEF LeavesOf
    <3>2. PICK m \in Views : From(w, m) = z /\ SameNode(t[m], view[z])
      BY <1>1, <3>1
    <3>3. m \in LeavesOf(t)
      BY <3>1, <3>2 DEF SameNode, LeavesOf
    <3>4. QED
      BY <3>2, <3>3
  <2>2. QED
    BY <2>1
<1> HIDE DEF f, L, p
<1>7. Cardinality(L \ D) = Cardinality(LeavesOf(t))
  BY <1>3, <1>4, <1>5, <1>6, SameSize
<1>8. Cardinality(L \ D) = Cardinality(L) - Cardinality(L \cap D)
  BY <1>3, FS_Difference
<1>9. L \cap D = D \cap L
  OBVIOUS
<1>10. Cardinality(LeavesOf(t)) > 0
  <2>1. Tree(t)
    BY RaisedTree
  <2>2. LeftmostLeaf(t) \in LeavesOf(t)
    BY <2>1, LeftmostIsLeaf
  <2>3. Cardinality(LeavesOf(t)) # 0
    BY <1>3, <2>2, FS_EmptySet
  <2>4. QED
    BY <2>1, <2>3, LeafCount
<1>11. QED
  BY <1>3, <1>7, <1>8, <1>9, <1>10 DEF L

\* A leaf becomes a split of two leaves, of which one is a copy of it.
SplitInto(v, a, b) ==
    [view EXCEPT ![v] = [NoView EXCEPT !.type = "split", !.a = a, !.b = b],
                 ![a] = view[v],
                 ![b] = EmptyLeaf]

LEMMA SplitNodes ==
    ASSUME Tree(view), NEW v \in Views, view[v].type = "leaf",
           NEW a \in FreeViews, NEW b \in FreeViews, a # b, NEW t, t = SplitInto(v, a, b)
    PROVE  /\ a \in Views /\ b \in Views /\ v # a /\ v # b
           /\ t \in [Views -> Node]
           /\ t[v].type = "split" /\ t[v].a = a /\ t[v].b = b
           /\ t[v].tabs = <<>> /\ t[v].active = 0
           /\ t[a] = view[v]
           /\ t[b].type = "leaf" /\ t[b].tabs = <<>> /\ t[b].active = 0
           /\ \A n \in Views \ {v, a, b} : t[n] = view[n]
<1> DEFINE S == [NoView EXCEPT !.type = "split", !.a = a, !.b = b]
<1>1. /\ a \in Views /\ b \in Views /\ v # a /\ v # b /\ view \in [Views -> Node]
  BY DEF FreeViews, Tree
<1>2. S \in Node /\ S.type = "split" /\ S.a = a /\ S.b = b /\ S.tabs = <<>> /\ S.active = 0
  BY <1>1, NoViewFacts DEF NoViewIs, NoView, Node, None
<1>3. EmptyLeaf \in Node /\ EmptyLeaf.type = "leaf" /\ EmptyLeaf.tabs = <<>> /\ EmptyLeaf.active = 0
  BY NoViewFacts DEF NoViewIs, NoView, Node, EmptyLeaf, None
<1>4. t = [[[view EXCEPT ![v] = S] EXCEPT ![a] = view[v]] EXCEPT ![b] = EmptyLeaf]
  BY <1>1 DEF SplitInto
<1> HIDE DEF S
<1>5. QED
  BY <1>1, <1>2, <1>3, <1>4

LEMMA SplitTree ==
    ASSUME Tree(view), NEW v \in Views, view[v].type = "leaf",
           NEW a \in FreeViews, NEW b \in FreeViews, a # b, NEW t, t = SplitInto(v, a, b)
    PROVE  Tree(t) /\ Cardinality(LeavesOf(t)) = Cardinality(LeavesOf(view)) + 1
<1>1. /\ a \in Views /\ b \in Views /\ v # a /\ v # b
      /\ t \in [Views -> Node]
      /\ t[v].type = "split" /\ t[v].a = a /\ t[v].b = b
      /\ t[a] = view[v] /\ t[b].type = "leaf"
      /\ \A n \in Views \ {v, a, b} : t[n] = view[n]
  BY SplitNodes
<1>2. view[a].type = "none" /\ view[b].type = "none"
  BY DEF FreeViews
<1>3. /\ Used(t) = Used(view) \cup {a, b}
      /\ v \in Used(view) /\ a \notin Used(view) /\ b \notin Used(view)
  BY <1>1, <1>2 DEF Used
<1>4. LeavesOf(t) = ((LeavesOf(view) \ {v}) \cup {a}) \cup {b}
  BY <1>1, <1>2 DEF LeavesOf
<1>5. /\ Kids(t)[v] = {a, b} /\ Kids(t)[a] = {} /\ Kids(t)[b] = {} /\ Kids(view)[v] = {}
      /\ \A n \in Views \ {v, a, b} : Kids(t)[n] = Kids(view)[n]
  BY <1>1 DEF Kids
<1>6. Root # a /\ Root # b /\ Root \in Views
  BY <1>2 DEF Tree, Used
<1>7. \A s \in SplitsOf(t) : t[s].a # t[s].b
  BY <1>1 DEF Tree, SplitsOf
<1>8. ASSUME NEW s \in Views
      PROVE  /\ Kids(t)[s] \subseteq Used(t) \ {Root}
             /\ s # v => Kids(t)[s] \subseteq Kids(view)[s]
  <2>1. CASE s = v
    BY <1>3, <1>5, <1>6, <2>1
  <2>2. CASE s # v
    <3>1. Kids(t)[s] \subseteq Kids(view)[s]
      BY <1>5, <2>2
    <3>2. QED
      BY <1>3, <2>2, <3>1 DEF Tree
  <2>3. QED
    BY <2>1, <2>2
<1>9. \A s, u \in Views : \A k \in Kids(t)[s] : k \in Kids(t)[u] => s = u
  <2>1. \A s \in Views : a \notin Kids(view)[s] /\ b \notin Kids(view)[s]
    BY <1>3 DEF Tree
  <2>2. QED
    BY <1>5, <1>8, <2>1 DEF Tree
<1>10. Used(t) \subseteq Below(t, Root)
  <2> DEFINE B == Below(t, Root)
  <2>1. B \subseteq Views /\ Root \in B
    BY <1>6, BelowIs
  <2>2. \A m \in B : Kids(t)[m] \subseteq B
    <3>1. DOMAIN Kids(t) = Views /\ B = Reached(Kids(t), Root)
      BY <1>6, BelowIs DEF Kids
    <3>2. \A m \in B : Kids(t)[m] \subseteq DOMAIN Kids(t)
      BY <1>8, <2>1, <3>1 DEF Used
    <3> HIDE DEF B
    <3>3. QED
      BY <3>1, <3>2, ReachedClosed
  <2>3. \A m \in B : Kids(view)[m] \subseteq B
    <3>1. view[a].type # "split" /\ view[b].type # "split"
      BY <1>2
    <3>2. Kids(view)[a] = {} /\ Kids(view)[b] = {}
      BY <1>1, <3>1 DEF Kids
    <3>3. QED
      BY <1>5, <2>1, <2>2, <3>2
  <2> HIDE DEF B
  <2>4. Used(view) \subseteq B
    BY <1>6, <2>1, <2>3, BelowLeast DEF Tree
  <2>5. QED
    BY <1>3, <1>5, <2>2, <2>4 DEF B
<1>11. Root \in Used(t)
  BY <1>3 DEF Tree
<1>12. Cardinality(LeavesOf(t)) = Cardinality(LeavesOf(view)) + 1
  <2>1. IsFiniteSet(LeavesOf(view)) /\ Cardinality(LeavesOf(view)) \in Nat
    BY ViewsFinite DEF LeavesOf
  <2>2. v \in LeavesOf(view) /\ a \notin LeavesOf(view) /\ b \notin LeavesOf(view)
    BY <1>2 DEF LeavesOf
  <2>3. /\ IsFiniteSet(LeavesOf(view) \ {v})
        /\ Cardinality(LeavesOf(view) \ {v}) = Cardinality(LeavesOf(view)) - 1
    BY <2>1, <2>2, FS_RemoveElement
  <2>4. /\ IsFiniteSet((LeavesOf(view) \ {v}) \cup {a})
        /\ Cardinality((LeavesOf(view) \ {v}) \cup {a}) = Cardinality(LeavesOf(view) \ {v}) + 1
    BY <2>2, <2>3, FS_AddElement
  <2>5. b \notin (LeavesOf(view) \ {v}) \cup {a}
    BY <2>2
  <2>6. Cardinality(((LeavesOf(view) \ {v}) \cup {a}) \cup {b})
            = Cardinality((LeavesOf(view) \ {v}) \cup {a}) + 1
    BY <2>4, <2>5, FS_AddElement
  <2>7. QED
    BY <1>4, <2>1, <2>3, <2>4, <2>6
<1>13. QED
  BY <1>1, <1>7, <1>8, <1>9, <1>10, <1>11, <1>12 DEF Tree

Doc == [path : Paths \cup {None}, refs : Nat, handed : BOOLEAN]

\* A document is in one tab only.
TabsOnce(t) ==
    \A v, w \in Views : \A i \in 1..Len(t[v].tabs), j \in 1..Len(t[w].tabs) :
        t[v].tabs[i] = t[w].tabs[j] => v = w /\ i = j

\* Leaves have tabs, and one is active if there is one.
TabsPlaced(t) ==
    \A v \in Views :
        /\ t[v].active \in 0..Len(t[v].tabs)
        /\ (t[v].active = 0) = (t[v].tabs = <<>>)
        /\ t[v].tabs = <<>> \/ t[v].type = "leaf"

\* What a tab shows is in memory.
Alive(t, f) == \A v \in Views : \A i \in 1..Len(t[v].tabs) : f[t[v].tabs[i]].refs > 0

\* The inductive invariant.  The statement counts tabs and nodes; a step is
\* argued about by what no two nodes share, which these say one pair at a time.
ViewsInv ==
    /\ Tree(view)
    /\ TabsOnce(view)
    /\ TabsPlaced(view)
    /\ file \in [Files -> Doc]
    /\ Alive(view, file)
    /\ focus \in LeavesOf(view)
    /\ viewCount = Cardinality(LeavesOf(view))

-----------------------------------------------------------------------------
\* Documents and tabs.

LEMMA ToSetIs ==
    ASSUME NEW T, NEW s \in Seq(T)
    PROVE  /\ \A x : x \in ToSet(s) <=> \E i \in 1..Len(s) : s[i] = x
           /\ DOMAIN s = 1..Len(s) /\ Len(s) \in Nat
           /\ \A i \in 1..Len(s) : s[i] \in T
<1>1. s \in [1..Len(s) -> T] /\ Len(s) \in Nat
  BY LenProperties
<1>2. DOMAIN s = 1..Len(s)
  BY <1>1
<1>3. QED
  BY <1>1, <1>2 DEF ToSet

LEMMA TabsAre ==
    ASSUME NEW t \in [Views -> Node], NEW v \in Views
    PROVE  /\ t[v].tabs \in Seq(Files) /\ Len(t[v].tabs) \in Nat
           /\ DOMAIN t[v].tabs = 1..Len(t[v].tabs)
           /\ \A f : HasTab(t, v, f) <=> \E i \in 1..Len(t[v].tabs) : t[v].tabs[i] = f
           /\ \A i \in 1..Len(t[v].tabs) : t[v].tabs[i] \in Files
           /\ t[v].active \in Nat
<1>1. t[v].tabs \in Seq(Files) /\ t[v].active \in Nat
  BY DEF Node
<1>2. QED
  BY <1>1, ToSetIs DEF HasTab

LEMMA NoFileIs == NoFile \in Doc /\ NoFile.refs = 0
BY DEF NoFile, Doc, None

LEMMA LoadedIs ==
    ASSUME NEW p \in Paths \cup {None}
    PROVE  Loaded(p) \in Doc /\ Loaded(p).refs = 1 /\ Loaded(p).path = p
BY DEF Loaded, NoFile, Doc, None

\* A document none of the tabs closed shows stays as it is.
LEMMA ReleasedDocs ==
    ASSUME view \in [Views -> Node], file \in [Files -> Doc], NEW vs \in SUBSET Views, NEW fs
    PROVE  /\ Released(vs, fs) \in [Files -> Doc]
           /\ \A f \in Files : (\A v \in vs : f \in fs => ~HasTab(view, v, f))
                               => Released(vs, fs)[f] = file[f]
<1>1. ASSUME NEW f \in Files
      PROVE  /\ Released(vs, fs)[f] \in Doc
             /\ (\A v \in vs : f \in fs => ~HasTab(view, v, f)) => Released(vs, fs)[f] = file[f]
  <2> DEFINE G == {v \in vs : f \in fs /\ HasTab(view, v, f)}
             gone == Cardinality(G)
  <2>1. Released(vs, fs)[f] = IF gone = 0 THEN file[f]
                              ELSE IF file[f].refs > gone THEN [file[f] EXCEPT !.refs = @ - gone]
                              ELSE NoFile
    BY DEF Released
  <2>2. gone \in Nat
    BY ViewsFinite
  <2>3. (\A v \in vs : f \in fs => ~HasTab(view, v, f)) => gone = 0
    <3>1. (\A v \in vs : f \in fs => ~HasTab(view, v, f)) => G = {}
      OBVIOUS
    <3> HIDE DEF G
    <3>2. QED
      BY <3>1, FS_EmptySet
  <2> HIDE DEF gone
  <2>4. file[f] \in Doc /\ (file[f].refs > gone => file[f].refs - gone \in Nat)
    BY <2>2 DEF Doc
  <2>5. file[f].refs > gone => [file[f] EXCEPT !.refs = @ - gone] \in Doc
    BY <2>4 DEF Doc
  <2>6. QED
    BY <2>1, <2>3, <2>4, <2>5, NoFileIs
<1>2. Released(vs, fs) = [f \in Files |-> Released(vs, fs)[f]]
  BY DEF Released
<1>3. QED
  BY <1>1, <1>2

\* The tabs of the tree t come each from a tab of the tree before, those of
\* the node n from F[n].
Carried(t, F) ==
    /\ \A n \in Views : Distinct(t[n].tabs)
    /\ \A n \in Views : \A i \in 1..Len(t[n].tabs) :
           /\ F[n] \in Views
           /\ \E j \in 1..Len(view[F[n]].tabs) : t[n].tabs[i] = view[F[n]].tabs[j]
    /\ \A n, m \in Views : \A i \in 1..Len(t[n].tabs), j \in 1..Len(t[m].tabs) :
           F[n] = F[m] => n = m

LEMMA TabsCarried ==
    ASSUME TabsOnce(view), NEW t, NEW F, Carried(t, F)
    PROVE  TabsOnce(t)
<1>1. SUFFICES ASSUME NEW v \in Views, NEW w \in Views, NEW i \in 1..Len(t[v].tabs),
                      NEW j \in 1..Len(t[w].tabs), t[v].tabs[i] = t[w].tabs[j]
               PROVE  v = w /\ i = j
  BY DEF TabsOnce
<1>2. F[v] \in Views /\ F[w] \in Views
  BY DEF Carried
<1>3. PICK h \in 1..Len(view[F[v]].tabs) : t[v].tabs[i] = view[F[v]].tabs[h]
  BY DEF Carried
<1>4. PICK k \in 1..Len(view[F[w]].tabs) : t[w].tabs[j] = view[F[w]].tabs[k]
  BY DEF Carried
<1>5. F[v] = F[w]
  <2>1. ASSUME NEW x \in Views, NEW y \in Views, NEW a \in 1..Len(view[x].tabs),
               NEW b \in 1..Len(view[y].tabs), view[x].tabs[a] = view[y].tabs[b]
        PROVE  x = y
    BY <2>1 DEF TabsOnce
  <2>2. view[F[v]].tabs[h] = view[F[w]].tabs[k]
    BY <1>1, <1>3, <1>4
  <2>3. QED
    BY <1>2, <2>1, <2>2
<1>6. v = w
  BY <1>5 DEF Carried
<1>7. QED
  BY <1>1, <1>6 DEF Carried, Distinct

LEMMA OnceDistinct ==
    ASSUME NEW t, TabsOnce(t), NEW v \in Views
    PROVE  Distinct(t[v].tabs)
BY DEF TabsOnce, Distinct

\* Trees that differ in tabs only.
LEMMA SameTree ==
    ASSUME Tree(view), NEW t \in [Views -> Node],
           \A n \in Views : t[n].type = view[n].type /\ t[n].a = view[n].a /\ t[n].b = view[n].b
    PROVE  Tree(t) /\ LeavesOf(t) = LeavesOf(view)
<1>1. Kids(t) = Kids(view) /\ Used(t) = Used(view) /\ SplitsOf(t) = SplitsOf(view)
      /\ LeavesOf(t) = LeavesOf(view)
  BY DEF Kids, Used, SplitsOf, LeavesOf
<1>2. Below(t, Root) = Below(view, Root)
  BY <1>1, BelowIs, RootIsView
<1>3. \A s \in SplitsOf(view) : t[s].a # t[s].b
  BY DEF Tree, SplitsOf
<1>4. QED
  BY <1>1, <1>2, <1>3 DEF Tree

\* The tabs of a leaf after some are closed.
LEMMA WithoutIs ==
    ASSUME NEW l \in Node, NEW fs,
           l.active \in 0..Len(l.tabs), (l.active = 0) = (l.tabs = <<>>), Distinct(l.tabs)
    PROVE  LET x == Without(l, fs) IN
           /\ x \in Node /\ x.type = l.type /\ x.a = l.a /\ x.b = l.b
           /\ x.active \in 0..Len(x.tabs) /\ (x.active = 0) = (x.tabs = <<>>)
           /\ Distinct(x.tabs)
           /\ \A i \in 1..Len(x.tabs) : \E j \in 1..Len(l.tabs) :
                  x.tabs[i] = l.tabs[j] /\ l.tabs[j] \notin fs
<1> DEFINE rest == Dropping(l.tabs, fs)
           n == AtMost(l.active, Len(rest))
<1>1. l.tabs \in Seq(Files) /\ l.active \in Nat
  BY DEF Node
<1>2. /\ rest \in Seq(Files) /\ Distinct(rest)
      /\ \A i \in 1..Len(rest) : \E j \in 1..Len(l.tabs) :
             rest[i] = l.tabs[j] /\ l.tabs[j] \notin fs
  BY <1>1, DroppingKeeps
<1>3. Len(rest) \in Nat /\ (rest = <<>> <=> Len(rest) = 0)
      /\ Len(l.tabs) \in Nat /\ (l.tabs = <<>> <=> Len(l.tabs) = 0)
  BY <1>1, <1>2, EmptySeq, LenProperties
<1>4. rest # <<>> => l.tabs # <<>>
  <2>1. rest # <<>> => 1 \in 1..Len(rest)
    BY <1>3
  <2>2. QED
    BY <1>2, <1>3, <2>1
<1>5. Without(l, fs) = [l EXCEPT !.tabs = rest, !.active = n]
  BY DEF Without
<1> HIDE DEF rest
<1>6. n \in Nat /\ n \in 0..Len(rest) /\ (n = 0) = (rest = <<>>)
  BY <1>1, <1>3, <1>4 DEF AtMost
<1> HIDE DEF n
<1> DEFINE x == Without(l, fs)
<1>7. /\ x \in Node /\ x.type = l.type /\ x.a = l.a /\ x.b = l.b
      /\ x.tabs = rest /\ x.active = n
  BY <1>2, <1>5, <1>6 DEF Node
<1> HIDE DEF x
<1>8. /\ x.active \in 0..Len(x.tabs) /\ (x.active = 0) = (x.tabs = <<>>)
      /\ Distinct(x.tabs)
      /\ \A i \in 1..Len(x.tabs) : \E j \in 1..Len(l.tabs) :
             x.tabs[i] = l.tabs[j] /\ l.tabs[j] \notin fs
  BY <1>2, <1>6, <1>7
<1>9. QED
  BY <1>7, <1>8 DEF x

LEMMA NodeAt ==
    ASSUME Tree(view), NEW v \in Views
    PROVE  view[v] \in Node /\ view \in [Views -> Node]
BY DEF Tree

\* Tabs are taken away, or left as they are; what is still shown stays alive.
LEMMA FewerTabs ==
    ASSUME ViewsInv, NEW t \in [Views -> Node], NEW d \in [Files -> Doc],
           view' = t, file' = d, focus' \in LeavesOf(view), UNCHANGED viewCount,
           \A n \in Views :
               /\ t[n].type = view[n].type /\ t[n].a = view[n].a /\ t[n].b = view[n].b
               /\ Distinct(t[n].tabs)
               /\ t[n].active \in 0..Len(t[n].tabs) /\ (t[n].active = 0) = (t[n].tabs = <<>>)
               /\ \A i \in 1..Len(t[n].tabs) :
                      /\ \E j \in 1..Len(view[n].tabs) : t[n].tabs[i] = view[n].tabs[j]
                      /\ d[t[n].tabs[i]].refs > 0
    PROVE  ViewsInv'
<1>1. Tree(t) /\ LeavesOf(t) = LeavesOf(view)
  BY SameTree DEF ViewsInv
<1>2. \A n \in Views : t[n].tabs \in Seq(Files) /\ view[n].tabs \in Seq(Files)
  BY NodeAt DEF Node, ViewsInv
<1>3. TabsOnce(t)
  <2> DEFINE F == [n \in Views |-> n]
  <2>1. \A n \in Views : F[n] = n
    OBVIOUS
  <2> HIDE DEF F
  <2>2. ASSUME NEW n \in Views, NEW i \in 1..Len(t[n].tabs)
        PROVE  /\ F[n] \in Views
               /\ \E j \in 1..Len(view[F[n]].tabs) : t[n].tabs[i] = view[F[n]].tabs[j]
    BY <2>1
  <2>3. \A n, m \in Views : F[n] = F[m] => n = m
    BY <2>1
  <2>4. \A n \in Views : Distinct(t[n].tabs)
    OBVIOUS
  <2>5. Carried(t, F)
    BY <2>2, <2>3, <2>4 DEF Carried
  <2>6. QED
    BY <2>5, TabsCarried DEF ViewsInv
<1>4. TabsPlaced(t)
  <2>1. ASSUME NEW n \in Views, t[n].type # "leaf" PROVE t[n].tabs = <<>>
    <3>1. view[n].tabs = <<>>
      BY <2>1 DEF ViewsInv, TabsPlaced
    <3>2. Len(view[n].tabs) = 0
      BY <3>1, EmptySeq
    <3>3. \A i \in 1..Len(t[n].tabs) : FALSE
      BY <3>2
    <3>4. Len(t[n].tabs) \in Nat
      BY <1>2, LenProperties
    <3>5. Len(t[n].tabs) = 0
      BY <3>3, <3>4
    <3>6. QED
      BY <1>2, <3>5, EmptySeq
  <2>2. QED
    BY <2>1 DEF TabsPlaced
<1>5. Alive(t, d)
  BY DEF Alive
<1>6. QED
  BY <1>1, <1>3, <1>4, <1>5 DEF ViewsInv

\* A leaf's facts.
LEMMA LeafFacts ==
    ASSUME ViewsInv, NEW v \in Views
    PROVE  /\ view[v] \in Node
           /\ view[v].active \in Nat
           /\ view[v].tabs \in Seq(Files)
           /\ Distinct(view[v].tabs)
           /\ view[v].active \in 0..Len(view[v].tabs)
           /\ (view[v].active = 0) = (view[v].tabs = <<>>)
           /\ view[v].tabs = <<>> \/ view[v].type = "leaf"
           /\ \A i \in 1..Len(view[v].tabs) :
                  /\ view[v].tabs[i] \in Files
                  /\ file[view[v].tabs[i]].refs > 0
BY NodeAt, TabsAre, OnceDistinct DEF ViewsInv, TabsPlaced, Alive, Node

LEMMA CloseTabsKeeps ==
    ASSUME ViewsInv, NEW vs \in SUBSET Views, NEW fs, CloseTabs(vs, fs)
    PROVE  ViewsInv'
<1> DEFINE cut == vs \cap Leaves
           t == [v \in Views |-> IF v \in cut THEN Without(view[v], fs) ELSE view[v]]
           d == Released(cut, fs)
<1>1. view' = t /\ file' = d /\ UNCHANGED <<focus, viewCount>>
  BY DEF CloseTabs
<1>2. \A n \in cut : n \in Views /\ view[n].type = "leaf"
  BY DEF Leaves
<1>3. d \in [Files -> Doc] /\ \A f \in Files : (\A v \in cut : f \in fs => ~HasTab(view, v, f))
                                               => d[f] = file[f]
  BY ReleasedDocs DEF ViewsInv, Tree
<1>4. ASSUME NEW n \in Views
      PROVE  /\ t[n] \in Node
             /\ t[n].type = view[n].type /\ t[n].a = view[n].a /\ t[n].b = view[n].b
             /\ Distinct(t[n].tabs)
             /\ t[n].active \in 0..Len(t[n].tabs) /\ (t[n].active = 0) = (t[n].tabs = <<>>)
             /\ \A i \in 1..Len(t[n].tabs) :
                    /\ \E j \in 1..Len(view[n].tabs) :
                           /\ t[n].tabs[i] = view[n].tabs[j]
                           /\ n \in cut => view[n].tabs[j] \notin fs
  <2>1. CASE n \in cut
    <3>1. t[n] = Without(view[n], fs)
      BY <2>1
    <3>2. /\ view[n] \in Node /\ Distinct(view[n].tabs)
          /\ view[n].active \in 0..Len(view[n].tabs)
          /\ (view[n].active = 0) = (view[n].tabs = <<>>)
      BY LeafFacts
    <3>3. LET x == Without(view[n], fs) IN
             /\ x \in Node /\ x.type = view[n].type /\ x.a = view[n].a /\ x.b = view[n].b
             /\ x.active \in 0..Len(x.tabs) /\ (x.active = 0) = (x.tabs = <<>>)
             /\ Distinct(x.tabs)
             /\ \A i \in 1..Len(x.tabs) : \E j \in 1..Len(view[n].tabs) :
                    x.tabs[i] = view[n].tabs[j] /\ view[n].tabs[j] \notin fs
      BY <3>2, WithoutIs
    <3>4. QED
      BY <1>2, <2>1, <3>1, <3>3, SMTT(60)
  <2>2. CASE n \notin cut
    <3>1. t[n] = view[n]
      BY <2>2
    <3>2. QED
      BY <2>2, <3>1, LeafFacts
  <2>3. QED
    BY <2>1, <2>2
<1>5. t \in [Views -> Node]
  BY <1>4
<1>6. ASSUME NEW n \in Views, NEW i \in 1..Len(t[n].tabs) PROVE d[t[n].tabs[i]].refs > 0
  <2>1. PICK j \in 1..Len(view[n].tabs) :
            /\ t[n].tabs[i] = view[n].tabs[j]
            /\ n \in cut => view[n].tabs[j] \notin fs
    BY <1>4
  <2> DEFINE f == view[n].tabs[j]
  <2>2. f \in Files /\ file[f].refs > 0
    BY LeafFacts
  <2> HIDE DEF f
  <2>3. ASSUME NEW v \in cut, f \in fs PROVE ~HasTab(view, v, f)
    <3>1. SUFFICES ASSUME HasTab(view, v, f) PROVE FALSE
      OBVIOUS
    <3>2. PICK h \in 1..Len(view[v].tabs) : view[v].tabs[h] = f
      BY <1>2, <3>1, TabsAre DEF ViewsInv, Tree
    <3>3. v = n
      BY <1>2, <3>2 DEF ViewsInv, TabsOnce, f
    <3>4. QED
      BY <2>1, <2>3, <3>3 DEF f
  <2>4. d[f] = file[f]
    BY <1>3, <2>2, <2>3
  <2>5. QED
    BY <2>1, <2>2, <2>4 DEF f
<1> HIDE DEF t, d, cut
<1>7. focus' \in LeavesOf(view)
  BY <1>1 DEF ViewsInv
<1>8. QED
  BY <1>1, <1>3, <1>4, <1>5, <1>6, <1>7, FewerTabs

\* Only documents change, none of those shown loses its last reference.
LEMMA DocsKeep ==
    ASSUME ViewsInv, UNCHANGED <<view, viewCount>>, focus' \in LeavesOf(view),
           file' \in [Files -> Doc],
           \A f \in Files : file[f].refs > 0 => file'[f].refs > 0
    PROVE  ViewsInv'
<1>1. Alive(view, file')
  BY LeafFacts DEF Alive
<1>2. QED
  BY <1>1 DEF ViewsInv

LEMMA LeavesAre == Leaves = LeavesOf(view)
BY DEF Leaves, LeavesOf

LEMMA SelectTabKeeps ==
    ASSUME ViewsInv, NEW v \in Leaves, NEW i \in 1..Len(view[v].tabs), SelectTab(v, i)
    PROVE  ViewsInv'
<1> DEFINE t == [view EXCEPT ![v].active = i]
<1>1. view' = t /\ file' = file /\ focus' = v /\ viewCount' = viewCount
  BY DEF SelectTab, SetActive
<1>2. v \in Views /\ v \in LeavesOf(view) /\ view \in [Views -> Node] /\ file \in [Files -> Doc]
  BY NodeAt DEF LeavesOf, Leaves, ViewsInv
<1>3. view[v].tabs \in Seq(Files) /\ Len(view[v].tabs) \in Nat
  BY <1>2, TabsAre
<1>4. i \in Nat /\ i # 0 /\ i \in 0..Len(view[v].tabs) /\ view[v].tabs # <<>>
  BY <1>3, EmptySeq
<1>5. /\ t \in [Views -> Node] /\ t[v].active = i /\ t[v].type = view[v].type
      /\ t[v].a = view[v].a /\ t[v].b = view[v].b /\ t[v].tabs = view[v].tabs
      /\ \A n \in Views \ {v} : t[n] = view[n]
  BY <1>2, <1>4 DEF Node
<1> HIDE DEF t
<1>6. ASSUME NEW n \in Views
      PROVE  /\ t[n].type = view[n].type /\ t[n].a = view[n].a /\ t[n].b = view[n].b
             /\ Distinct(t[n].tabs)
             /\ t[n].active \in 0..Len(t[n].tabs) /\ (t[n].active = 0) = (t[n].tabs = <<>>)
             /\ t[n].tabs = view[n].tabs
  BY <1>4, <1>5, LeafFacts
<1>7. \A n \in Views : \A j \in 1..Len(t[n].tabs) :
          /\ \E h \in 1..Len(view[n].tabs) : t[n].tabs[j] = view[n].tabs[h]
          /\ file[t[n].tabs[j]].refs > 0
  BY <1>6, LeafFacts
<1>8. QED
  BY <1>1, <1>2, <1>5, <1>6, <1>7, FewerTabs

LEMMA SwitchTabKeeps ==
    ASSUME ViewsInv, NEW v \in Leaves, NEW forward \in BOOLEAN, SwitchTab(v, forward)
    PROVE  ViewsInv'
<1> DEFINE n == Len(view[v].tabs)
           i == view[v].active
           k == IF forward THEN (i % n) + 1 ELSE IF i <= 1 THEN n ELSE i - 1
<1>1. n \in Nat /\ i \in 0..n /\ v \in Views
  BY LeafFacts, LenProperties DEF Leaves
<1>2. CASE n = 0
  <2>1. UNCHANGED viewVars
    BY <1>2 DEF SwitchTab
  <2>2. QED
    BY <2>1 DEF ViewsInv, viewVars
<1>3. CASE n # 0
  <2>1. k \in 1..n
    BY <1>1, <1>3
  <2>2. SelectTab(v, k)
    BY <1>3 DEF SwitchTab
  <2> HIDE DEF k
  <2>3. QED
    BY <2>1, <2>2, SelectTabKeeps
<1>4. QED
  BY <1>2, <1>3

LEMMA OpenNewKeeps ==
    ASSUME ViewsInv, NEW v \in Leaves, NEW p \in Paths, NEW f \in FreeFiles, OpenNew(v, p, f)
    PROVE  ViewsInv'
<1> DEFINE m == Len(view[v].tabs)
           t == [view EXCEPT ![v].tabs = Append(@, f), ![v].active = m + 1]
           d == [file EXCEPT ![f] = Loaded(p)]
           s == Append(view[v].tabs, f)
           k == m + 1
           l == [view[v] EXCEPT !.tabs = s, !.active = k]
<1>1. view' = t /\ file' = d /\ focus' = v /\ viewCount' = viewCount
  BY DEF OpenNew, SetActive
<1>2. /\ v \in Views /\ v \in LeavesOf(view) /\ view \in [Views -> Node] /\ file \in [Files -> Doc]
      /\ f \in Files /\ file[f].refs = 0 /\ view[v] \in Node /\ view[v].type = "leaf"
  BY NodeAt DEF LeavesOf, Leaves, ViewsInv, FreeFiles
<1>3. view[v].tabs \in Seq(Files) /\ m \in Nat
  BY <1>2, TabsAre
<1>4. /\ s \in Seq(Files) /\ Len(s) = m + 1 /\ s[m + 1] = f
      /\ \A i \in 1..m : s[i] = view[v].tabs[i]
  BY <1>2, <1>3, AppendProperties
<1> HIDE DEF m
<1>5. t = [view EXCEPT ![v] = l]
  BY <1>2
<1>6. k \in Nat
  BY <1>3
<1> HIDE DEF s, k
<1>7. /\ l \in Node /\ l.type = "leaf" /\ l.a = view[v].a /\ l.b = view[v].b
      /\ l.tabs = s /\ l.active = k
  BY <1>2, <1>4, <1>6 DEF Node
<1> HIDE DEF l
<1>8. t \in [Views -> Node] /\ t[v] = l /\ \A n \in Views \ {v} : t[n] = view[n]
  BY <1>2, <1>5, <1>7
<1> HIDE DEF t
<1>9. Tree(t) /\ LeavesOf(t) = LeavesOf(view)
  <2>1. \A n \in Views : t[n].type = view[n].type /\ t[n].a = view[n].a /\ t[n].b = view[n].b
    BY <1>2, <1>7, <1>8
  <2>2. QED
    BY <1>8, <2>1, SameTree DEF ViewsInv
<1>10. ASSUME NEW n \in Views, NEW i \in 1..Len(t[n].tabs)
      PROVE  \/ t[n].tabs[i] = f /\ n = v /\ i = m + 1
             \/ t[n].tabs[i] = view[n].tabs[i] /\ i \in 1..Len(view[n].tabs)
                /\ view[n].tabs[i] # f /\ view[n].tabs[i] \in Files
                /\ file[view[n].tabs[i]].refs > 0
  <2>1. CASE n = v /\ i = m + 1
    BY <1>4, <1>7, <1>8, <2>1
  <2>2. CASE n = v /\ i \in 1..m
    <3>1. t[n].tabs[i] = view[n].tabs[i]
      BY <1>4, <1>7, <1>8, <2>2
    <3>2. QED
      BY <1>2, <2>2, <3>1, LeafFacts DEF m
  <2>3. CASE n # v
    <3>1. t[n].tabs[i] = view[n].tabs[i] /\ i \in 1..Len(view[n].tabs)
      BY <1>8, <1>10, <2>3
    <3>2. QED
      BY <1>2, <3>1, LeafFacts
  <2>4. n = v => i \in 1..(m + 1)
    BY <1>4, <1>7, <1>8, <1>10
  <2>5. QED
    BY <1>3, <2>1, <2>2, <2>3, <2>4
<1>11. TabsOnce(t)
  <2>1. SUFFICES ASSUME NEW x \in Views, NEW y \in Views, NEW i \in 1..Len(t[x].tabs),
                        NEW j \in 1..Len(t[y].tabs), t[x].tabs[i] = t[y].tabs[j]
                 PROVE  x = y /\ i = j
    BY DEF TabsOnce
  <2>2. CASE t[x].tabs[i] = f
    <3>1. x = v /\ i = m + 1
      BY <1>10, <2>2
    <3>2. t[y].tabs[j] = f
      BY <2>1, <2>2
    <3>3. y = v /\ j = m + 1
      BY <1>10, <3>2
    <3>4. QED
      BY <3>1, <3>3
  <2>3. CASE t[x].tabs[i] # f
    <3>1. /\ i \in 1..Len(view[x].tabs) /\ j \in 1..Len(view[y].tabs)
          /\ view[x].tabs[i] = view[y].tabs[j]
      BY <1>10, <2>1, <2>3
    <3>2. QED
      BY <3>1 DEF ViewsInv, TabsOnce
  <2>4. QED
    BY <2>2, <2>3
<1>12. TabsPlaced(t)
  <2>1. ASSUME NEW n \in Views
        PROVE  /\ t[n].active \in 0..Len(t[n].tabs)
               /\ (t[n].active = 0) = (t[n].tabs = <<>>)
               /\ t[n].tabs = <<>> \/ t[n].type = "leaf"
    <3>1. CASE n = v
      <4>1. t[n].active = m + 1 /\ Len(t[n].tabs) = m + 1 /\ t[n].type = "leaf"
            /\ t[n].tabs \in Seq(Files)
        BY <1>4, <1>7, <1>8, <3>1 DEF k
      <4>2. t[n].tabs # <<>>
        BY <1>3, <4>1, EmptySeq
      <4>3. QED
        BY <1>3, <4>1, <4>2
    <3>2. CASE n # v
      BY <1>8, <3>2, LeafFacts
    <3>3. QED
      BY <3>1, <3>2
  <2>2. QED
    BY <2>1 DEF TabsPlaced
<1>13. d \in [Files -> Doc] /\ d[f].refs > 0 /\ \A g \in Files \ {f} : d[g] = file[g]
  BY <1>2, LoadedIs
<1> HIDE DEF d
<1>14. Alive(t, d)
  BY <1>10, <1>13 DEF Alive
<1>15. QED
  BY <1>1, <1>2, <1>9, <1>11, <1>12, <1>13, <1>14 DEF ViewsInv

LEMMA OpenKeeps ==
    ASSUME ViewsInv, NEW v \in Leaves, NEW p \in Paths, Open(v, p)
    PROVE  ViewsInv'
<1>1. CASE Holds(v, p)
  <2>1. v \in Views
    BY DEF Leaves
  <2>2. DOMAIN view[v].tabs = 1..Len(view[v].tabs)
    BY <2>1, NodeAt, TabsAre DEF ViewsInv
  <2>3. TabOf(v, p) \in 1..Len(view[v].tabs)
    BY <1>1, <2>2 DEF Holds, TabOf
  <2>4. SelectTab(v, TabOf(v, p))
    BY <1>1 DEF Open
  <2>5. QED
    BY <2>3, <2>4, SelectTabKeeps
<1>2. CASE UNCHANGED viewVars
  BY <1>2 DEF viewVars, ViewsInv
<1>3. CASE \E f \in FreeFiles : OpenNew(v, p, f)
  BY <1>3, OpenNewKeeps
<1>4. QED
  BY <1>1, <1>2, <1>3 DEF Open

\* What the tabs left show was shown by tabs that were not freed.
LEMMA RaisedTabs ==
    ASSUME ViewsInv, NEW w \in Used(view), w # Root,
           NEW D, D = Below(view, Sibling(w)), NEW t, t = Raised(w, D)
    PROVE  /\ TabsOnce(t) /\ TabsPlaced(t)
           /\ \A n \in Views : \A i \in 1..Len(t[n].tabs) :
                  \E m \in Views \ D : \E j \in 1..Len(view[m].tabs) :
                      t[n].tabs[i] = view[m].tabs[j]
<1> DEFINE p == Parent(w)
<1>1. PICK F : F = [n \in Views |-> From(w, n)]
  OBVIOUS
<1>2. \A n \in Views : \/ t[n] = NoView
                       \/ /\ From(w, n) \in Views \ (D \cup {p})
                          /\ SameNode(t[n], view[From(w, n)])
                          /\ n # w \/ p # Root
  BY RaisedNodes DEF ViewsInv
<1>3. \A n \in Views : F[n] = From(w, n)
  BY <1>1
<1>4. Len(NoView.tabs) = 0 /\ NoView.tabs = <<>> /\ NoView.active = 0 /\ NoView.type = "none"
  BY NoViewFacts, EmptySeq DEF NoViewIs
<1>5. ASSUME NEW n \in Views, NEW i \in 1..Len(t[n].tabs)
      PROVE  /\ t[n] # NoView /\ F[n] \in Views \ D /\ (n # w \/ p # Root)
             /\ i \in 1..Len(view[F[n]].tabs) /\ t[n].tabs[i] = view[F[n]].tabs[i]
  BY <1>2, <1>3, <1>4, <1>5 DEF SameNode
<1>6. ASSUME NEW n \in Views, NEW m \in Views, NEW i \in 1..Len(t[n].tabs),
             NEW j \in 1..Len(t[m].tabs), F[n] = F[m]
      PROVE  n = m
  <2>1. (n # w \/ p # Root) /\ (m # w \/ p # Root)
    BY <1>2, <1>5, <1>6
  <2>2. QED
    BY <1>3, <1>6, <2>1 DEF From
<1>7. ASSUME NEW n \in Views
      PROVE  /\ Distinct(t[n].tabs)
             /\ t[n].active \in 0..Len(t[n].tabs)
             /\ (t[n].active = 0) = (t[n].tabs = <<>>)
             /\ t[n].tabs = <<>> \/ t[n].type = "leaf"
  <2>1. CASE t[n] = NoView
    BY <1>4, <2>1 DEF Distinct
  <2>2. CASE t[n] # NoView
    <3>1. From(w, n) \in Views /\ SameNode(t[n], view[From(w, n)])
      BY <1>2, <2>2
    <3>2. QED
      BY <3>1, LeafFacts DEF SameNode
  <2>3. QED
    BY <2>1, <2>2
<1>8. Carried(t, F)
  <2>1. \A n \in Views : Distinct(t[n].tabs)
    BY <1>7
  <2>2. \A n \in Views : \A i \in 1..Len(t[n].tabs) :
            /\ F[n] \in Views
            /\ \E j \in 1..Len(view[F[n]].tabs) : t[n].tabs[i] = view[F[n]].tabs[j]
    <3>1. ASSUME NEW n \in Views, NEW i \in 1..Len(t[n].tabs)
          PROVE  /\ F[n] \in Views /\ i \in 1..Len(view[F[n]].tabs)
                 /\ t[n].tabs[i] = view[F[n]].tabs[i]
      BY <1>5
    <3>2. QED
      BY <3>1
  <2>3. \A n, m \in Views : \A i \in 1..Len(t[n].tabs), j \in 1..Len(t[m].tabs) :
            F[n] = F[m] => n = m
    BY <1>6
  <2>4. QED
    BY <2>1, <2>2, <2>3 DEF Carried
<1>9. TabsOnce(t)
  BY <1>8, TabsCarried DEF ViewsInv
<1>10. TabsPlaced(t)
  BY <1>7 DEF TabsPlaced
<1>11. ASSUME NEW n \in Views, NEW i \in 1..Len(t[n].tabs)
       PROVE  \E m \in Views \ D : \E j \in 1..Len(view[m].tabs) :
                      t[n].tabs[i] = view[m].tabs[j]
  <2>1. F[n] \in Views \ D /\ i \in 1..Len(view[F[n]].tabs) /\ t[n].tabs[i] = view[F[n]].tabs[i]
    BY <1>5
  <2>2. QED
    BY <2>1
<1>12. QED
  BY <1>9, <1>10, <1>11

LEMMA CloseEmptyKeeps ==
    ASSUME ViewsInv, NEW v \in Leaves, CloseEmpty(v)
    PROVE  ViewsInv'
<1>1. CASE v = Root
  <2>1. UNCHANGED viewVars
    BY <1>1 DEF CloseEmpty
  <2>2. QED
    BY <2>1 DEF viewVars, ViewsInv
<1>2. CASE v # Root
  <2> DEFINE w == Sibling(v)
             t == Raised(w, {v})
  <2>1. view' = t /\ file' = file /\ focus' = LeftmostLeaf(view')
        /\ viewCount' = IF viewCount > 1 THEN viewCount - 1 ELSE viewCount
    BY <1>2 DEF CloseEmpty
  <2>2. v \in Views /\ v \in Used(view) /\ Tree(view) /\ v \in LeavesOf(view)
    BY DEF Leaves, Used, ViewsInv, LeavesOf
  <2>3. w \in Used(view) /\ w # Root /\ Sibling(w) = v
    BY <1>2, <2>2, SiblingIs
  <2>4. Below(view, v) = {v}
    <3> DEFINE S == {v}
    <3>1. Kids(view)[v] = {} /\ S \in SUBSET Views
      BY <2>2 DEF Kids, Leaves
    <3>2. Below(view, v) \subseteq S
      BY <2>2, <3>1, BelowLeast
    <3>3. QED
      BY <2>2, <3>2, BelowIs
  <2>5. {v} = Below(view, Sibling(w))
    BY <2>3, <2>4
  <2> HIDE DEF w, t
  <2>6. /\ Tree(t)
        /\ Cardinality(LeavesOf(t)) =
               Cardinality(LeavesOf(view)) - Cardinality({v} \cap LeavesOf(view))
        /\ Cardinality(LeavesOf(t)) > 0 /\ Cardinality(LeavesOf(view)) \in Nat
    <3>1. Tree(t)
      BY <2>2, <2>3, <2>5, RaisedTree DEF t
    <3>2. QED
      BY <2>2, <2>3, <2>5, <3>1, RaisedLeaves DEF t
  <2>7. /\ TabsOnce(t) /\ TabsPlaced(t)
         /\ \A n \in Views : \A i \in 1..Len(t[n].tabs) :
                \E m \in Views \ {v} : \E j \in 1..Len(view[m].tabs) :
                    t[n].tabs[i] = view[m].tabs[j]
    <3>1. Sibling(w) = v /\ {v} = Below(view, Sibling(w)) /\ t = Raised(w, {v})
      BY <2>3, <2>5 DEF t
    <3> HIDE DEF t
    <3>2. TabsOnce(t) /\ TabsPlaced(t)
      BY <2>3, <3>1, RaisedTabs
    <3>3. \A n \in Views : \A i \in 1..Len(t[n].tabs) :
              \E m \in Views \ {v} : \E j \in 1..Len(view[m].tabs) :
                    t[n].tabs[i] = view[m].tabs[j]
      <4> DEFINE D == {v}
      <4> HIDE DEF D
      <4>1. D = Below(view, Sibling(w)) /\ t = Raised(w, D)
        BY <3>1 DEF D
      <4>2. \A n \in Views : \A i \in 1..Len(t[n].tabs) :
                \E m \in Views \ D : \E j \in 1..Len(view[m].tabs) :
                      t[n].tabs[i] = view[m].tabs[j]
        BY <2>3, <4>1, RaisedTabs
      <4>3. QED
        BY <4>2 DEF D
    <3>4. QED
      BY <3>2, <3>3
  <2>8. Alive(t, file)
    <3>1. ASSUME NEW n \in Views, NEW i \in 1..Len(t[n].tabs) PROVE file[t[n].tabs[i]].refs > 0
      <4>1. PICK m \in Views \ {v} : \E j \in 1..Len(view[m].tabs) : t[n].tabs[i] = view[m].tabs[j]
        BY <2>7
      <4>2. PICK j \in 1..Len(view[m].tabs) : t[n].tabs[i] = view[m].tabs[j]
        BY <4>1
      <4>3. QED
        BY <4>2, LeafFacts
    <3>2. QED
      BY <3>1 DEF Alive
  <2>9. Cardinality({v} \cap LeavesOf(view)) = 1
    <3>1. {v} \cap LeavesOf(view) = {v}
      BY <2>2
    <3>2. QED
      BY <3>1, FS_Singleton
  <2>10. viewCount' = Cardinality(LeavesOf(t))
    BY <2>1, <2>6, <2>9 DEF ViewsInv
  <2>11. focus' \in LeavesOf(t)
    BY <2>1, <2>6, LeftmostIsLeaf
  <2>12. QED
    BY <2>1, <2>6, <2>8, <2>10, <2>11, <2>7 DEF ViewsInv
<1>3. QED
  BY <1>1, <1>2

LEMMA CollapseKeeps ==
    ASSUME ViewsInv, NEW v, Collapse(v)
    PROVE  ViewsInv'
<1>1. CASE v \notin Leaves \/ v = Root
  <2>1. UNCHANGED viewVars
    BY <1>1 DEF Collapse
  <2>2. QED
    BY <2>1 DEF viewVars, ViewsInv
<1>2. CASE v \in Leaves /\ v # Root
  <2> DEFINE D == Below(view, Sibling(v))
             t == Raised(v, D)
             removed == Cardinality(D \cap Leaves)
             d == Released(D, Files)
  <2>1. /\ view' = t /\ file' = d
        /\ focus' = IF Parent(v) = Root THEN Root ELSE v
        /\ viewCount' = IF viewCount > removed THEN viewCount - removed ELSE 1
    BY <1>2 DEF Collapse, LeavesBelow
  <2>2. v \in Views /\ v \in Used(view) /\ Tree(view) /\ v \in LeavesOf(view)
    BY <1>2 DEF Leaves, Used, ViewsInv, LeavesOf
  <2>3. Sibling(v) \in Views
    BY <1>2, <2>2, SiblingIs DEF Used
  <2>4. D \in SUBSET Views
    BY <2>3, BelowIs
  <2>5. /\ d \in [Files -> Doc]
        /\ \A f \in Files : (\A x \in D : f \in Files => ~HasTab(view, x, f)) => d[f] = file[f]
    BY <2>4, ReleasedDocs DEF ViewsInv, Tree
  <2>6. focus' \in LeavesOf(t)
    <3>1. CASE Parent(v) = Root
      <4>1. t[Root] = view[v]
        BY <1>2, <2>2, <3>1, RaisedToRoot
      <4>2. QED
        BY <2>1, <2>2, <3>1, <4>1, RootIsView DEF LeavesOf
    <3>2. CASE Parent(v) # Root
      <4> DEFINE p == Parent(v)
                 g == Parent(p)
      <4>1. /\ v \notin D /\ v # p /\ v # g
            /\ \A n \in Views \ ({p, g} \cup D) : t[n] = view[n]
        BY <1>2, <2>2, <3>2, RaisedBelow
      <4> HIDE DEF p, g
      <4>2. t[v] = view[v]
        BY <2>2, <4>1
      <4>3. QED
        BY <2>1, <2>2, <3>2, <4>2 DEF LeavesOf
    <3>3. QED
      BY <3>1, <3>2
  <2> HIDE DEF d, D, t
  <2>7. /\ Tree(t)
        /\ Cardinality(LeavesOf(t)) =
               Cardinality(LeavesOf(view)) - Cardinality(D \cap LeavesOf(view))
        /\ Cardinality(LeavesOf(t)) > 0
        /\ Cardinality(LeavesOf(view)) \in Nat /\ Cardinality(D \cap LeavesOf(view)) \in Nat
    <3>1. Tree(t)
      BY <1>2, <2>2, RaisedTree DEF t, D
    <3>2. QED
      BY <1>2, <2>2, <3>1, RaisedLeaves DEF t, D
  <2>8. /\ TabsOnce(t) /\ TabsPlaced(t)
         /\ \A n \in Views : \A i \in 1..Len(t[n].tabs) :
                \E m \in Views \ D : \E j \in 1..Len(view[m].tabs) :
                      t[n].tabs[i] = view[m].tabs[j]
    BY <1>2, <2>2, RaisedTabs DEF t, D
  <2>9. Alive(t, d)
    <3>1. ASSUME NEW n \in Views, NEW i \in 1..Len(t[n].tabs) PROVE d[t[n].tabs[i]].refs > 0
      <4>1. PICK m \in Views \ D : \E j \in 1..Len(view[m].tabs) : t[n].tabs[i] = view[m].tabs[j]
        BY <2>8
      <4>2. PICK j \in 1..Len(view[m].tabs) : t[n].tabs[i] = view[m].tabs[j]
        BY <4>1
      <4> DEFINE f == view[m].tabs[j]
      <4>3. f \in Files /\ file[f].refs > 0
        BY LeafFacts
      <4>4. ASSUME NEW x \in D PROVE ~HasTab(view, x, f)
        <5>1. SUFFICES ASSUME HasTab(view, x, f) PROVE FALSE
          OBVIOUS
        <5>2. x \in Views /\ view \in [Views -> Node]
          BY <2>2, <2>4, NodeAt
        <5> HIDE DEF f
        <5>3. PICK h \in 1..Len(view[x].tabs) : view[x].tabs[h] = f
          BY <5>1, <5>2, TabsAre
        <5>4. x = m
          BY <5>2, <5>3 DEF ViewsInv, TabsOnce, f
        <5>5. QED
          BY <5>4
      <4> HIDE DEF f
      <4>5. d[f] = file[f]
        BY <2>5, <4>3, <4>4
      <4>6. QED
        BY <4>2, <4>3, <4>5 DEF f
    <3>2. QED
      BY <3>1 DEF Alive
  <2>10. viewCount' = Cardinality(LeavesOf(t))
    <3>1. removed = Cardinality(D \cap LeavesOf(view)) /\ viewCount = Cardinality(LeavesOf(view))
      BY LeavesAre DEF ViewsInv
    <3> HIDE DEF removed
    <3>2. QED
      BY <2>1, <2>7, <3>1
  <2>11. QED
    BY <2>1, <2>5, <2>6, <2>7, <2>9, <2>10, <2>8 DEF ViewsInv
<1>3. QED
  BY <1>1, <1>2

LEMMA SplitKeeps ==
    ASSUME ViewsInv, NEW v, Split(v)
    PROVE  ViewsInv'
<1>1. CASE ~CanSplit(v)
  <2>1. UNCHANGED viewVars
    BY <1>1 DEF Split
  <2>2. QED
    BY <2>1 DEF viewVars, ViewsInv
<1>2. CASE CanSplit(v)
  <2> DEFINE a == Lowest(FreeViews)
             b == Lowest(FreeViews \ {a})
             t == SplitInto(v, a, b)
             d == Clone(v)
  <2>1. /\ view' = t /\ file' = d /\ focus' = (IF focus = v THEN a ELSE focus)
        /\ viewCount' = viewCount + 1
    BY <1>2 DEF Split, SplitInto
  <2>2. /\ v \in Views /\ view[v].type = "leaf" /\ view \in [Views -> Node] /\ Tree(view)
        /\ file \in [Files -> Doc] /\ Cardinality(LeavesOf(view)) < MaxLeaves
    BY <1>2, NodeAt DEF CanSplit, Leaves, ViewsInv
  <2>3. a \in FreeViews /\ b \in FreeViews /\ a # b
    BY <2>2, TwoFree
  <2> HIDE DEF a, b
  <2>4. /\ a \in Views /\ b \in Views /\ v # a /\ v # b
        /\ t \in [Views -> Node]
        /\ t[v].type = "split" /\ t[v].a = a /\ t[v].b = b /\ t[v].tabs = <<>>
        /\ t[a] = view[v]
        /\ t[b].type = "leaf" /\ t[b].tabs = <<>> /\ t[b].active = 0
        /\ \A n \in Views \ {v, a, b} : t[n] = view[n]
    BY <2>2, <2>3, SplitNodes
  <2>5. Tree(t) /\ Cardinality(LeavesOf(t)) = Cardinality(LeavesOf(view)) + 1
    BY <2>2, <2>3, SplitTree
  <2>6. t[v].active = 0
    BY <2>2, <2>3, SplitNodes
  <2> HIDE DEF t
  <2>7. PICK F : F = [n \in Views |-> IF n = a THEN v ELSE n]
    OBVIOUS
  <2>8. Len(t[v].tabs) = 0 /\ Len(t[b].tabs) = 0
    BY <2>4, EmptySeq
  <2>9. ASSUME NEW n \in Views, NEW i \in 1..Len(t[n].tabs)
        PROVE  /\ n # v /\ n # b
               /\ F[n] \in Views /\ i \in 1..Len(view[F[n]].tabs)
               /\ t[n].tabs[i] = view[F[n]].tabs[i]
    <3>1. n # v /\ n # b
      BY <2>8
    <3>2. CASE n = a
      BY <2>2, <2>4, <2>7, <3>1, <3>2
    <3>3. CASE n # a
      BY <2>4, <2>7, <3>1, <3>3
    <3>4. QED
      BY <3>1, <3>2, <3>3
  <2>10. ASSUME NEW n \in Views
         PROVE  /\ Distinct(t[n].tabs)
                /\ t[n].active \in 0..Len(t[n].tabs)
                /\ (t[n].active = 0) = (t[n].tabs = <<>>)
                /\ t[n].tabs = <<>> \/ t[n].type = "leaf"
    <3>1. CASE n \in {v, b}
      BY <2>4, <2>6, <2>8, <3>1 DEF Distinct
    <3>2. CASE n = a
      BY <2>2, <2>4, <3>2, LeafFacts
    <3>3. CASE n \notin {v, a, b}
      BY <2>4, <3>3, LeafFacts
    <3>4. QED
      BY <3>1, <3>2, <3>3
  <2>11. TabsOnce(t)
    <3>1. \A n \in Views : Distinct(t[n].tabs)
      BY <2>10
    <3>2. \A n \in Views : \A i \in 1..Len(t[n].tabs) :
              /\ F[n] \in Views
              /\ \E j \in 1..Len(view[F[n]].tabs) : t[n].tabs[i] = view[F[n]].tabs[j]
      BY <2>9
    <3>3. \A n, m \in Views : \A i \in 1..Len(t[n].tabs), j \in 1..Len(t[m].tabs) :
              F[n] = F[m] => n = m
      BY <2>7, <2>9
    <3>4. Carried(t, F)
      BY <3>1, <3>2, <3>3 DEF Carried
    <3>5. QED
      BY <3>4, TabsCarried DEF ViewsInv
  <2>12. TabsPlaced(t)
    BY <2>10 DEF TabsPlaced
  <2>13. /\ d \in [Files -> Doc]
         /\ \A f \in Files : file[f].refs > 0 => d[f].refs > 0
    <3>1. ASSUME NEW f \in Files
          PROVE  d[f] \in Doc /\ (file[f].refs > 0 => d[f].refs > 0)
      <4> DEFINE k == file[f].refs + 1
      <4>1. file[f] \in Doc /\ k \in Nat /\ (file[f].refs > 0 => k > 0)
        BY <2>2 DEF Doc
      <4>2. d[f] = IF HasTab(view, v, f) THEN [file[f] EXCEPT !.refs = k] ELSE file[f]
        BY DEF Clone
      <4> HIDE DEF k, d
      <4>3. [file[f] EXCEPT !.refs = k] \in Doc /\ [file[f] EXCEPT !.refs = k].refs = k
        BY <4>1 DEF Doc
      <4>4. QED
        BY <4>1, <4>2, <4>3
    <3>2. d = [f \in Files |-> d[f]]
      BY DEF Clone
    <3> HIDE DEF d
    <3>3. QED
      BY <3>1, <3>2
  <2> HIDE DEF d
  <2>14. Alive(t, d)
    <3>1. ASSUME NEW n \in Views, NEW i \in 1..Len(t[n].tabs) PROVE d[t[n].tabs[i]].refs > 0
      <4>1. F[n] \in Views /\ i \in 1..Len(view[F[n]].tabs) /\ t[n].tabs[i] = view[F[n]].tabs[i]
        BY <2>9
      <4>2. view[F[n]].tabs[i] \in Files /\ file[view[F[n]].tabs[i]].refs > 0
        BY <4>1, LeafFacts
      <4>3. QED
        BY <2>13, <4>1, <4>2
    <3>2. QED
      BY <3>1 DEF Alive
  <2>15. focus' \in LeavesOf(t)
    <3>1. a \in LeavesOf(t)
      BY <2>2, <2>4 DEF LeavesOf
    <3>2. focus # v => focus \in LeavesOf(t)
      <4>1. focus # a /\ focus # b /\ focus \in Views
        BY <2>3 DEF ViewsInv, LeavesOf, FreeViews
      <4>2. focus # v => t[focus] = view[focus]
        BY <2>4, <4>1
      <4>3. QED
        BY <4>1, <4>2 DEF ViewsInv, LeavesOf
    <3>3. QED
      BY <2>1, <3>1, <3>2
  <2>16. QED
    BY <2>1, <2>5, <2>11, <2>12, <2>13, <2>14, <2>15 DEF ViewsInv
<1>3. QED
  BY <1>1, <1>2

\* The tabs of a leaf when the layout is restored.
LEMMA RestoredIs ==
    ASSUME NEW l \in Node, NEW fs, Distinct(l.tabs)
    PROVE  LET x == Restored(l, fs) IN
           /\ x \in Node /\ x.type = l.type /\ x.a = l.a /\ x.b = l.b
           /\ x.active \in 0..Len(x.tabs) /\ (x.active = 0) = (x.tabs = <<>>)
           /\ Distinct(x.tabs)
           /\ \A i \in 1..Len(x.tabs) :
                  \E j \in 1..Len(l.tabs) : x.tabs[i] = l.tabs[j] /\ l.tabs[j] \in Files \cap fs
<1> DEFINE rest == Dropping(l.tabs, Files \ fs)
           n == IF l.active \in 1..Len(rest) THEN l.active ELSE Len(rest)
<1>1. l.tabs \in Seq(Files) /\ l.active \in Nat
  BY DEF Node
<1>2. /\ rest \in Seq(Files) /\ Distinct(rest)
      /\ \A i \in 1..Len(rest) : \E j \in 1..Len(l.tabs) :
             rest[i] = l.tabs[j] /\ l.tabs[j] \notin Files \ fs
  <2>1. PICK gone : gone = Files \ fs
    OBVIOUS
  <2>2. /\ Dropping(l.tabs, gone) \in Seq(Files)
        /\ \A i \in 1..Len(Dropping(l.tabs, gone)) : \E j \in 1..Len(l.tabs) :
               Dropping(l.tabs, gone)[i] = l.tabs[j] /\ l.tabs[j] \notin gone
        /\ Distinct(Dropping(l.tabs, gone))
    BY <1>1, DroppingKeeps
  <2>3. QED
    BY <2>1, <2>2
<1>3. Len(rest) \in Nat /\ (rest = <<>> <=> Len(rest) = 0)
  BY <1>1, <1>2, EmptySeq, LenProperties
<1>4. \A j \in 1..Len(l.tabs) : l.tabs[j] \in Files
  BY <1>1, ToSetIs
<1>5. Restored(l, fs) = [l EXCEPT !.tabs = rest, !.active = n]
  BY DEF Restored
<1> HIDE DEF rest
<1>6. n \in Nat /\ n \in 0..Len(rest) /\ (n = 0) = (rest = <<>>)
  BY <1>1, <1>3
<1> HIDE DEF n
<1> DEFINE x == Restored(l, fs)
<1>7. /\ x \in Node /\ x.type = l.type /\ x.a = l.a /\ x.b = l.b
      /\ x.tabs = rest /\ x.active = n
  BY <1>2, <1>5, <1>6 DEF Node
<1> HIDE DEF x
<1>8. /\ x.active \in 0..Len(x.tabs) /\ (x.active = 0) = (x.tabs = <<>>)
      /\ Distinct(x.tabs)
  BY <1>2, <1>6, <1>7
<1>9. \A i \in 1..Len(x.tabs) :
          \E j \in 1..Len(l.tabs) : x.tabs[i] = l.tabs[j] /\ l.tabs[j] \in Files \cap fs
  BY <1>2, <1>4, <1>7
<1>10. QED
  BY <1>7, <1>8, <1>9 DEF x

LEMMA RestoreKeeps ==
    ASSUME ViewsInv, NEW gone, Restore(gone)
    PROVE  ViewsInv'
<1> DEFINE kept == {f \in Files : file[f].path \notin gone /\ \E v \in Leaves : HasTab(view, v, f)}
           t == [v \in Views |-> Restored(view[v], kept)]
           d == [f \in Files |-> IF f \in kept THEN Loaded(file[f].path) ELSE NoFile]
<1>1. view' = t /\ file' = d /\ UNCHANGED <<focus, viewCount>>
  BY DEF Restore
<1>2. d \in [Files -> Doc] /\ \A f \in Files \cap kept : d[f].refs > 0
  <2>1. \A f \in Files : file[f].path \in Paths \cup {None}
    BY DEF ViewsInv, Doc
  <2> HIDE DEF kept
  <2>2. QED
    BY <2>1, LoadedIs, NoFileIs
<1> HIDE DEF kept, d
<1>3. ASSUME NEW n \in Views
      PROVE  /\ t[n] \in Node
             /\ t[n].type = view[n].type /\ t[n].a = view[n].a /\ t[n].b = view[n].b
             /\ Distinct(t[n].tabs)
             /\ t[n].active \in 0..Len(t[n].tabs) /\ (t[n].active = 0) = (t[n].tabs = <<>>)
             /\ \A i \in 1..Len(t[n].tabs) :
                    \E j \in 1..Len(view[n].tabs) :
                        t[n].tabs[i] = view[n].tabs[j] /\ view[n].tabs[j] \in Files \cap kept
  <2>1. t[n] = Restored(view[n], kept)
    OBVIOUS
  <2>2. view[n] \in Node /\ Distinct(view[n].tabs)
    BY LeafFacts
  <2> HIDE DEF t
  <2>3. QED
    BY <2>1, <2>2, RestoredIs
<1>4. t \in [Views -> Node]
  BY <1>3
<1> HIDE DEF t
<1>5. ASSUME NEW n \in Views, NEW i \in 1..Len(t[n].tabs)
      PROVE  /\ \E j \in 1..Len(view[n].tabs) : t[n].tabs[i] = view[n].tabs[j]
             /\ d[t[n].tabs[i]].refs > 0
  <2>1. PICK j \in 1..Len(view[n].tabs) :
            t[n].tabs[i] = view[n].tabs[j] /\ view[n].tabs[j] \in Files \cap kept
    BY <1>3
  <2>2. QED
    BY <1>2, <2>1
<1>6. focus' \in LeavesOf(view)
  BY <1>1 DEF ViewsInv
<1>7. QED
  BY <1>1, <1>2, <1>3, <1>4, <1>5, <1>6, FewerTabs

LEMMA InitViews == ViewsInit => ViewsInv
<1> SUFFICES ASSUME ViewsInit PROVE ViewsInv
  OBVIOUS
<1>1. Root \in Views /\ None \notin Views
  BY RootIsView
<1>2. NoView \in Node /\ NoView.type = "none" /\ NoView.tabs = <<>> /\ NoView.active = 0
  BY NoViewFacts DEF NoViewIs
<1>3. /\ EmptyLeaf \in Node /\ EmptyLeaf.type = "leaf" /\ EmptyLeaf.tabs = <<>>
      /\ EmptyLeaf.active = 0
  BY NoViewFacts DEF NoViewIs, NoView, Node, EmptyLeaf, None
<1>4. /\ view \in [Views -> Node] /\ view[Root] = EmptyLeaf
      /\ \A n \in Views \ {Root} : view[n] = NoView
  BY <1>1, <1>2, <1>3 DEF ViewsInit
<1>5. \A n \in Views : view[n].tabs = <<>> /\ Len(view[n].tabs) = 0 /\ view[n].active = 0
  BY <1>2, <1>3, <1>4, EmptySeq
<1>6. Tree(view)
  <2>1. \A n \in Views : Kids(view)[n] = {}
    BY <1>2, <1>3, <1>4 DEF Kids
  <2>2. Used(view) = {Root} /\ SplitsOf(view) = {}
    BY <1>1, <1>2, <1>3, <1>4 DEF Used, SplitsOf
  <2>3. Root \in Below(view, Root)
    BY <1>1, BelowIs
  <2>4. QED
    BY <1>4, <2>1, <2>2, <2>3 DEF Tree
<1>7. LeavesOf(view) = {Root}
  BY <1>1, <1>2, <1>3, <1>4 DEF LeavesOf
<1>8. Cardinality({Root}) = 1
  BY FS_Singleton
<1>9. TabsOnce(view) /\ TabsPlaced(view) /\ Alive(view, file)
  BY <1>5 DEF TabsOnce, TabsPlaced, Alive
<1>10. QED
  BY <1>6, <1>7, <1>8, <1>9, NoFileIs DEF ViewsInv, ViewsInit

LEMMA ViewsStep == ViewsInv /\ [ViewsNext]_viewVars => ViewsInv'
<1> SUFFICES ASSUME ViewsInv, [ViewsNext]_viewVars PROVE ViewsInv'
  OBVIOUS
<1>1. CASE UNCHANGED viewVars
  BY <1>1 DEF viewVars, ViewsInv
<1>2. ASSUME NEW v \in Leaves, NEW i \in DOMAIN view[v].tabs, SelectTab(v, i)
      PROVE  ViewsInv'
  <2>1. v \in Views
    BY DEF Leaves
  <2>2. DOMAIN view[v].tabs = 1..Len(view[v].tabs)
    BY <2>1, NodeAt, TabsAre DEF ViewsInv
  <2>3. QED
    BY <1>2, <2>2, SelectTabKeeps
<1>3. ASSUME NEW v \in Leaves, NEW fs, CloseTabs({v}, fs) PROVE ViewsInv'
  <2>1. {v} \in SUBSET Views
    BY DEF Leaves
  <2>2. QED
    BY <1>3, <2>1, CloseTabsKeeps
<1>4. ASSUME NEW v \in Leaves, NEW p \in Paths, Open(v, p) PROVE ViewsInv'
  BY <1>4, OpenKeeps
<1>5. ASSUME NEW v \in Leaves, CloseEmpty(v) PROVE ViewsInv'
  BY <1>5, CloseEmptyKeeps
<1>6. ASSUME NEW v \in Leaves, NEW forward \in BOOLEAN, SwitchTab(v, forward) PROVE ViewsInv'
  BY <1>6, SwitchTabKeeps
<1>7. ASSUME NEW v \in Leaves, Split(v) PROVE ViewsInv'
  BY <1>7, SplitKeeps
<1>8. ASSUME NEW v \in Leaves, Collapse(v) PROVE ViewsInv'
  BY <1>8, CollapseKeeps
<1>9. ASSUME NEW v \in Leaves, SetActive(v), UNCHANGED <<view, file, viewCount>> PROVE ViewsInv'
  BY <1>9, LeavesAre DEF SetActive, ViewsInv
<1>10. ASSUME NEW ps, CloseFiles(ps) PROVE ViewsInv'
  <2>1. Views \in SUBSET Views
    OBVIOUS
  <2>2. QED
    BY <1>10, <2>1, CloseTabsKeeps DEF CloseFiles
<1>11. ASSUME NEW ps, Restore(ps) PROVE ViewsInv'
  BY <1>11, RestoreKeeps
<1>12. CASE ViewsNext
  BY <1>2, <1>3, <1>4, <1>5, <1>6, <1>7, <1>8, <1>9, <1>10, <1>11, <1>12 DEF ViewsNext
<1>13. QED
  BY <1>1, <1>12

\* Every node but the root hangs under one split, all hang under the root.
LEMMA OneTree == ViewsInv => ViewsFormTree
<1> SUFFICES ASSUME ViewsInv PROVE ViewsFormTree
  OBVIOUS
<1>1. Tree(view) /\ Used(view) = Views \ FreeViews /\ Root \in Views
  BY RootIsView DEF ViewsInv, Used, FreeViews
<1>2. ASSUME NEW v \in Views \ FreeViews
      PROVE  Cardinality({s \in Splits : v \in {view[s].a, view[s].b}}) = IF v = Root THEN 0 ELSE 1
  <2> DEFINE P == {s \in Splits : v \in {view[s].a, view[s].b}}
  <2>1. \A s \in Views : s \in P <=> v \in Kids(view)[s]
    BY DEF Kids, Splits
  <2>2. \A s \in P : s \in Views
    BY DEF Splits
  <2> HIDE DEF P
  <2>3. CASE v = Root
    <3>1. P = {}
      BY <1>1, <2>1, <2>2, <2>3 DEF Tree
    <3>2. Cardinality(P) = 0
      BY <3>1, FS_EmptySet
    <3>3. QED
      BY <2>3, <3>2 DEF P
  <2>4. CASE v # Root
    <3>1. PICK p \in SplitsOf(view) : v \in Kids(view)[p]
      BY <1>1, <2>4, HasParent
    <3>2. p \in Views
      BY DEF SplitsOf
    <3>3. P = {p}
      BY <1>1, <2>1, <2>2, <3>1, <3>2 DEF Tree
    <3>4. Cardinality(P) = 1
      BY <3>3, FS_Singleton
    <3>5. QED
      BY <2>4, <3>4 DEF P
  <2>5. QED
    BY <2>3, <2>4
<1>3. \A s \in Splits : view[s].a # view[s].b
  BY <1>1 DEF Tree, Splits, SplitsOf
<1>4. Below(view, Root) = Views \ FreeViews
  <2>1. Root \in Used(view) /\ Used(view) \subseteq Below(view, Root)
    BY <1>1 DEF Tree
  <2>2. QED
    BY <1>1, <2>1, BelowUsed
<1>5. focus \in Leaves /\ viewCount = Cardinality(Leaves)
  BY LeavesAre DEF ViewsInv
<1>6. QED
  BY <1>2, <1>3, <1>4, <1>5 DEF ViewsFormTree

LEMMA TabsLive == ViewsInv => TabsShowLiveDocuments
<1> SUFFICES ASSUME ViewsInv PROVE TabsShowLiveDocuments
  OBVIOUS
<1>1. \A v \in Views : DOMAIN view[v].tabs = 1..Len(view[v].tabs)
  BY NodeAt, TabsAre DEF ViewsInv
<1>2. \A v \in Views : \A i \in DOMAIN view[v].tabs : file[view[v].tabs[i]].refs > 0
  BY <1>1, LeafFacts
<1>3. ASSUME NEW f \in Files
      PROVE  Cardinality({t \in Views \X (1..MaxFiles) :
                 t[2] \in DOMAIN view[t[1]].tabs /\ view[t[1]].tabs[t[2]] = f}) \in {0, 1}
  <2> DEFINE T == {t \in Views \X (1..MaxFiles) :
                       t[2] \in DOMAIN view[t[1]].tabs /\ view[t[1]].tabs[t[2]] = f}
  <2>1. ASSUME NEW x \in T, NEW y \in T PROVE x = y
    <3>1. /\ x = <<x[1], x[2]>> /\ y = <<y[1], y[2]>> /\ x[1] \in Views /\ y[1] \in Views
          /\ x[2] \in 1..Len(view[x[1]].tabs) /\ y[2] \in 1..Len(view[y[1]].tabs)
          /\ view[x[1]].tabs[x[2]] = view[y[1]].tabs[y[2]]
      BY <1>1
    <3>2. x[1] = y[1] /\ x[2] = y[2]
      BY <3>1 DEF ViewsInv, TabsOnce
    <3>3. QED
      BY <3>1, <3>2
  <2> HIDE DEF T
  <2>2. CASE T = {}
    BY <2>2, FS_EmptySet DEF T
  <2>3. CASE T # {}
    <3>1. PICK x : x \in T
      BY <2>3
    <3>2. T = {x}
      BY <2>1, <3>1
    <3>3. Cardinality(T) = 1
      BY <3>2, FS_Singleton
    <3>4. QED
      BY <3>3 DEF T
  <2>4. QED
    BY <2>2, <2>3
<1>4. \A v \in Leaves : (view[v].active = None) = (view[v].tabs = <<>>)
  BY LeafFacts DEF Leaves, None
<1>5. QED
  BY <1>2, <1>3, <1>4 DEF TabsShowLiveDocuments

\* Whatever is opened, split, closed, dragged or deleted, and in whatever order:
\* the nodes in use are one tree whose leaves are counted right, the active view
\* is one of its leaves, and every tab shows a document still in memory that no
\* other tab shows (editor_view.c, editor_view_file_helpers.c).
THEOREM ViewsAlwaysStand == ViewsSpec => []ViewsStand
<1>1. ViewsInv => ViewsStand
  BY OneTree, TabsLive DEF ViewsStand
<1>2. QED
  BY <1>1, InitViews, ViewsStep, PTL DEF ViewsSpec

-----------------------------------------------------------------------------
-----------------------------------------------------------------------------
(* The editor: edits that have to be handed over.                          *)

(* What is in memory at the place of a document says whether its last edit *)
(* was handed over.                                                        *)
Documented ==
    /\ DOMAIN file = Files
    /\ \A f \in Files : "handed" \in DOMAIN file[f] /\ file[f].handed \in BOOLEAN

(* Every edit that was not handed over is the open transaction's ...       *)
EditsHeld == \A f \in Files : ~file[f].handed => txn.active /\ txn.file = f

(* ... and the timer of that transaction is set.                           *)
TimerSet == txn.active => \E t \in timers : t.token = txn.generation

EditsInv ==
    /\ Documented
    /\ EditsHeld
    /\ TimerSet

-----------------------------------------------------------------------------
\* Whatever is opened, shown, split or closed: no edit becomes one that still
\* has to be handed over.
KeepsHanded ==
    /\ DOMAIN file' = Files
    /\ \A f \in Files : /\ "handed" \in DOMAIN file'[f] /\ file'[f].handed \in BOOLEAN
                        /\ file[f].handed => file'[f].handed

LEMMA ViewsKeep ==
    ASSUME EditsInv, KeepsHanded,
           (txn'.active = txn.active /\ txn'.file = txn.file /\ txn'.generation = txn.generation),
           timers' = timers
    PROVE  EditsInv'
BY DEF EditsInv, Documented, EditsHeld, TimerSet, KeepsHanded

LEMMA SameFiles ==
    ASSUME Documented, UNCHANGED file
    PROVE  KeepsHanded
BY DEF Documented, KeepsHanded

LEMMA NoFileHanded == "handed" \in DOMAIN NoFile /\ NoFile.handed = TRUE
BY DEF NoFile

LEMMA LoadedHanded ==
    ASSUME NEW p
    PROVE  "handed" \in DOMAIN Loaded(p) /\ Loaded(p).handed = TRUE
BY DEF Loaded, NoFile

LEMMA ReleasedHanded ==
    ASSUME Documented, NEW vs, NEW fs, file' = Released(vs, fs)
    PROVE  KeepsHanded
<1>1. ASSUME NEW f \in Files
      PROVE  /\ "handed" \in DOMAIN file'[f] /\ file'[f].handed \in BOOLEAN
             /\ file[f].handed => file'[f].handed
  <2> DEFINE gone == Cardinality({v \in vs : f \in fs /\ HasTab(view, v, f)})
  <2>1. file'[f] = IF gone = 0 THEN file[f]
                   ELSE IF file[f].refs > gone THEN [file[f] EXCEPT !.refs = @ - gone]
                   ELSE NoFile
    BY DEF Released
  <2> HIDE DEF gone
  <2>2. "handed" \in DOMAIN file[f] /\ file[f].handed \in BOOLEAN
    BY DEF Documented
  <2>3. /\ "handed" \in DOMAIN [file[f] EXCEPT !.refs = @ - gone]
        /\ [file[f] EXCEPT !.refs = @ - gone].handed = file[f].handed
    BY <2>2
  <2>4. QED
    BY <2>1, <2>2, <2>3, NoFileHanded
<1>2. DOMAIN file' = Files
  BY DEF Released
<1>3. QED
  BY <1>1, <1>2 DEF KeepsHanded

LEMMA CloneHanded ==
    ASSUME Documented, NEW v, file' = Clone(v)
    PROVE  KeepsHanded
<1>1. ASSUME NEW f \in Files
      PROVE  /\ "handed" \in DOMAIN file'[f] /\ file'[f].handed \in BOOLEAN
             /\ file[f].handed => file'[f].handed
  <2>1. file'[f] = IF HasTab(view, v, f) THEN [file[f] EXCEPT !.refs = @ + 1] ELSE file[f]
    BY DEF Clone
  <2>2. "handed" \in DOMAIN file[f] /\ file[f].handed \in BOOLEAN
    BY DEF Documented
  <2>3. /\ "handed" \in DOMAIN [file[f] EXCEPT !.refs = @ + 1]
        /\ [file[f] EXCEPT !.refs = @ + 1].handed = file[f].handed
    BY <2>2
  <2>4. QED
    BY <2>1, <2>2, <2>3
<1>2. DOMAIN file' = Files
  BY DEF Clone
<1>3. QED
  BY <1>1, <1>2 DEF KeepsHanded

LEMMA OpenHanded ==
    ASSUME Documented, NEW v, NEW p, Open(v, p)
    PROVE  KeepsHanded
<1>1. CASE UNCHANGED file
  BY <1>1, SameFiles
<1>2. CASE \E f \in FreeFiles : OpenNew(v, p, f)
  <2>1. PICK f \in Files : file' = [file EXCEPT ![f] = Loaded(p)]
    BY <1>2 DEF OpenNew, FreeFiles
  <2>2. QED
    BY <2>1, LoadedHanded DEF Documented, KeepsHanded
<1>3. QED
  BY <1>1, <1>2 DEF Open, SelectTab, viewVars

LEMMA CloseTabsHanded ==
    ASSUME Documented, NEW vs, NEW fs, CloseTabs(vs, fs)
    PROVE  KeepsHanded
BY ReleasedHanded DEF CloseTabs

LEMMA SplitHanded ==
    ASSUME Documented, NEW v, Split(v)
    PROVE  KeepsHanded
<1>1. UNCHANGED file \/ file' = Clone(v)
  BY DEF Split, viewVars
<1>2. QED
  BY <1>1, SameFiles, CloneHanded

LEMMA CollapseHanded ==
    ASSUME Documented, NEW v, Collapse(v)
    PROVE  KeepsHanded
<1>1. UNCHANGED file \/ file' = Released(Below(view, Sibling(v)), Files)
  BY DEF Collapse, viewVars
<1>2. QED
  BY <1>1, SameFiles, ReleasedHanded

LEMMA RestoreHanded ==
    ASSUME Documented, NEW gone, Restore(gone)
    PROVE  KeepsHanded /\ \A f \in Files : file'[f].handed
<1> DEFINE kept == {f \in Files : file[f].path \notin gone /\ \E v \in Leaves : HasTab(view, v, f)}
<1>1. file' = [f \in Files |-> IF f \in kept THEN Loaded(file[f].path) ELSE NoFile]
  BY DEF Restore
<1> HIDE DEF kept
<1>2. \A f \in Files : file'[f] = NoFile \/ file'[f] = Loaded(file[f].path)
  BY <1>1
<1>3. \A f \in Files : "handed" \in DOMAIN file'[f] /\ file'[f].handed = TRUE
  BY <1>2, NoFileHanded, LoadedHanded
<1>4. QED
  BY <1>1, <1>3 DEF KeepsHanded

\* The documents after one was handed over to the analysis.
LEMMA HandedOverStep ==
    ASSUME Documented, NEW f
    PROVE  /\ DOMAIN HandedOver(f) = Files
           /\ \A g \in Files : /\ "handed" \in DOMAIN HandedOver(f)[g]
                               /\ HandedOver(f)[g].handed \in BOOLEAN
                               /\ g # f => HandedOver(f)[g].handed = file[g].handed
           /\ f \in Files => HandedOver(f)[f].handed = TRUE
BY DEF Documented, HandedOver

\* The transaction is over, its document handed over.
LEMMA CommittedStep ==
    ASSUME EditsInv, txn.active, ~txn'.active, file' = HandedOver(txn.file)
    PROVE  EditsInv'
<1>1. ASSUME NEW g \in Files PROVE file'[g].handed = TRUE
  <2>1. g # txn.file => file[g].handed = TRUE
    BY DEF EditsInv, EditsHeld, Documented
  <2>2. QED
    BY <2>1, HandedOverStep DEF EditsInv
<1>2. Documented'
  BY HandedOverStep DEF EditsInv, Documented
<1>3. QED
  BY <1>1, <1>2 DEF EditsInv, EditsHeld, TimerSet

LEMMA NoTransactionOpen ==
    ASSUME NEW g
    PROVE  NoTransaction(g).active = FALSE
BY DEF NoTransaction

-----------------------------------------------------------------------------
\* Commands.

LEMMA EditStep ==
    ASSUME EditsInv, NEW f, Edit(f)
    PROVE  EditsInv'
<1> DEFINE continues == txn.active /\ ~ClosedBy(f)
           g == IF continues THEN txn.generation ELSE txn.generation + 1
           closed == IF ClosedBy(f) THEN HandedOver(txn.file) ELSE file
<1>1. /\ txn' = IF continues THEN [txn EXCEPT !.moved = FALSE]
                ELSE [active |-> TRUE, file |-> f, view |-> focus, generation |-> g, moved |-> FALSE]
      /\ timers' = Rearmed(f, g)
      /\ file' = [closed EXCEPT ![f].handed = FALSE]
  BY DEF Edit, NoteEdit
<1>2. continues => txn.file = f
  BY DEF ClosedBy
<1>3. txn'.active /\ txn'.file = f /\ txn'.generation = g
  BY <1>1, <1>2
<1>4. TimerSet'
  <2>1. Timer(g, FALSE) \in timers' /\ Timer(g, FALSE).token = g
    BY <1>1 DEF Rearmed, Timer
  <2>2. QED
    BY <1>3, <2>1 DEF TimerSet
<1>5. /\ DOMAIN closed = Files
      /\ \A h \in Files : /\ "handed" \in DOMAIN closed[h] /\ closed[h].handed \in BOOLEAN
                          /\ h # f => closed[h].handed = TRUE
  <2>1. CASE ClosedBy(f)
    <3>1. \A h \in Files : h # txn.file => file[h].handed = TRUE
      BY DEF EditsInv, EditsHeld, Documented
    <3>2. QED
      BY <2>1, <3>1, HandedOverStep DEF EditsInv
  <2>2. CASE ~ClosedBy(f)
    <3>1. \A h \in Files : h # f => file[h].handed = TRUE
      BY <2>2 DEF EditsInv, EditsHeld, Documented, ClosedBy
    <3>2. QED
      BY <2>2, <3>1 DEF EditsInv, Documented
  <2>3. QED
    BY <2>1, <2>2
<1> HIDE DEF closed
<1>6. /\ DOMAIN file' = Files
      /\ \A h \in Files : /\ "handed" \in DOMAIN file'[h] /\ file'[h].handed \in BOOLEAN
                          /\ h # f => file'[h].handed = TRUE
  BY <1>1, <1>5
<1>7. QED
  BY <1>3, <1>4, <1>6 DEF EditsInv, EditsHeld, Documented

LEMMA SaveStep ==
    ASSUME EditsInv, NEW f, Save(f)
    PROVE  EditsInv'
<1>1. file' = HandedOver(f) /\ txn' = txn /\ timers' = timers
  BY DEF Save, HandedOver
<1>2. KeepsHanded
  BY <1>1, HandedOverStep DEF EditsInv, Documented, KeepsHanded
<1>3. QED
  BY <1>1, <1>2, ViewsKeep

\* The cursor of the document was moved.
LEMMA MovedTxn ==
    ASSUME NEW b, txn' = [txn EXCEPT !.moved = b]
    PROVE  txn'.active = txn.active /\ txn'.file = txn.file /\ txn'.generation = txn.generation
OBVIOUS

LEMMA MoveCursorStep ==
    ASSUME EditsInv, NEW f, MoveCursor(f)
    PROVE  EditsInv'
<1>1. KeepsHanded
  BY SameFiles DEF MoveCursor, EditsInv
<1>2. txn'.active = txn.active /\ txn'.file = txn.file /\ txn'.generation = txn.generation
  BY MovedTxn DEF MoveCursor
<1>3. timers' = timers
  BY DEF MoveCursor
<1>4. QED
  BY <1>1, <1>2, <1>3, ViewsKeep

LEMMA ObeyStep ==
    ASSUME EditsInv, NEW c, Obey(c)
    PROVE  EditsInv'
<1> DEFINE v == focus
           f == Shown(v)
<1>1. CASE Edit(f)
  BY <1>1, EditStep
<1>2. CASE Save(f)
  BY <1>2, SaveStep
<1>3. CASE MoveCursor(f)
  BY <1>3, MoveCursorStep
<1>4. CASE UNCHANGED <<viewVars, txnVars>>
  <2>1. KeepsHanded
    BY <1>4, SameFiles DEF viewVars, EditsInv
  <2>2. QED
    BY <1>4, <2>1, ViewsKeep DEF txnVars
<1>5. CASE /\ \/ CloseTabs({v}, {f}) \/ CloseEmpty(v) \/ SwitchTab(v, c.op = "next")
              \/ Split(v) \/ Collapse(v) \/ Open(v, c.path) \/ CloseFiles({c.path})
           /\ UNCHANGED txnVars
  <2>1. Documented
    BY DEF EditsInv
  <2>2. CloseEmpty(v) \/ SwitchTab(v, c.op = "next") => UNCHANGED file
    BY DEF CloseEmpty, SwitchTab, SelectTab, viewVars
  <2>3. KeepsHanded
    BY <1>5, <2>1, <2>2, SameFiles, CloseTabsHanded, SplitHanded, CollapseHanded, OpenHanded
    DEF CloseFiles
  <2>4. QED
    BY <1>5, <2>3, ViewsKeep DEF txnVars
<1>6. QED
  BY <1>1, <1>2, <1>3, <1>4, <1>5 DEF Obey

-----------------------------------------------------------------------------
\* The frame.

LEMMA InputKeeps == EditsInv /\ Input => EditsInv'
<1>1. SUFFICES ASSUME EditsInv, Input PROVE EditsInv'
  OBVIOUS
<1>2. Documented
  BY <1>1 DEF EditsInv
<1>3. ASSUME NEW v \in Leaves, Hover(v) \/ ClickText(v) \/ ClickTab(v) \/ ClickClose(v) \/ Drop(v)
      PROVE  EditsInv'
  <2>1. timers' = timers
    BY <1>3 DEF Hover, ClickText, ClickTab, ClickClose, Drop
  <2>2. txn'.active = txn.active /\ txn'.file = txn.file /\ txn'.generation = txn.generation
    <3>1. txn' = txn \/ \E b : txn' = [txn EXCEPT !.moved = b]
      BY <1>3 DEF Hover, ClickText, ClickTab, ClickClose, Drop
    <3>2. QED
      BY <3>1, MovedTxn
  <2>3. KeepsHanded
    <3>1. CASE Drop(v)
      BY <1>2, <3>1, OpenHanded DEF Drop
    <3>2. CASE Hover(v) \/ ClickText(v) \/ ClickTab(v) \/ ClickClose(v)
      <4>1. UNCHANGED file
        BY <3>2 DEF Hover, ClickText, ClickTab, ClickClose, SelectTab
      <4>2. QED
        BY <1>2, <4>1, SameFiles
    <3>3. QED
      BY <1>3, <3>1, <3>2
  <2>4. QED
    BY <1>1, <2>1, <2>2, <2>3, ViewsKeep
<1>4. CASE ChooseWorkspace
  <2>1. KeepsHanded
    BY <1>2, <1>4, CloseTabsHanded DEF ChooseWorkspace, CloseFiles
  <2>2. UNCHANGED <<txn, timers>>
    BY <1>4 DEF ChooseWorkspace
  <2>3. QED
    BY <1>1, <2>1, <2>2, ViewsKeep
<1>5. CASE \E c \in Command : Press(c)
  <2>1. UNCHANGED <<file, txn, timers>>
    BY <1>5 DEF Press
  <2>2. QED
    BY <1>1, <1>2, <2>1, SameFiles, ViewsKeep
<1>6. QED
  BY <1>1, <1>3, <1>4, <1>5 DEF Input

LEMMA UpdateContextKeeps == EditsInv /\ UpdateContext => EditsInv'
<1>1. SUFFICES ASSUME EditsInv, UpdateContext PROVE EditsInv'
  OBVIOUS
<1>2. CASE Commit /\ file' = HandedOver(txn.file)
  <2>1. txn.active /\ ~txn'.active
    BY <1>2, NoTransactionOpen DEF Commit
  <2>2. QED
    BY <1>1, <1>2, <2>1, CommittedStep
<1>3. CASE UNCHANGED <<txn, timers, file>>
  BY <1>1, <1>3, SameFiles, ViewsKeep DEF EditsInv
<1>4. QED
  BY <1>1, <1>2, <1>3 DEF UpdateContext

LEMMA ServeSocketKeeps == EditsInv /\ ServeSocket => EditsInv'
<1>1. SUFFICES ASSUME EditsInv, ServeSocket PROVE EditsInv'
  OBVIOUS
<1>2. timers' = timers
  BY <1>1 DEF ServeSocket
<1>3. CASE UNCHANGED <<file, txn>>
  BY <1>1, <1>2, <1>3, SameFiles, ViewsKeep DEF EditsInv
<1>4. ASSUME NEW p \in Paths, Open(focus, p), NEW b, txn' = [txn EXCEPT !.moved = b]
      PROVE  EditsInv'
  <2>1. KeepsHanded
    BY <1>1, <1>4, OpenHanded DEF EditsInv
  <2>2. txn'.active = txn.active /\ txn'.file = txn.file /\ txn'.generation = txn.generation
    BY <1>4, MovedTxn
  <2>3. QED
    BY <1>1, <1>2, <2>1, <2>2, ViewsKeep
<1>5. QED
  BY <1>1, <1>3, <1>4 DEF ServeSocket

\* The timer of the open transaction either fires for it or waits on.
LEMMA FireTimersKeeps == EditsInv /\ FireTimers => EditsInv'
<1>1. SUFFICES ASSUME EditsInv, FireTimers PROVE EditsInv'
  OBVIOUS
<1>2. CASE \E t \in timers : t.due /\ FiresFor(t)
  <2>1. txn' = NoTransaction(txn.generation) /\ file' = HandedOver(txn.file)
    BY <1>1, <1>2 DEF FireTimers
  <2>2. txn.active /\ ~txn'.active
    BY <1>2, <2>1, NoTransactionOpen DEF FiresFor
  <2>3. QED
    BY <1>1, <2>1, <2>2, CommittedStep
<1>3. CASE ~ \E t \in timers : t.due /\ FiresFor(t)
  <2>1. UNCHANGED <<txn, file>> /\ timers' = {t \in timers : ~t.due}
    BY <1>1, <1>3 DEF FireTimers
  <2>2. TimerSet'
    BY <1>1, <1>3, <2>1 DEF EditsInv, TimerSet, FiresFor
  <2>3. QED
    BY <1>1, <2>1, <2>2 DEF EditsInv, EditsHeld, Documented
<1>4. QED
  BY <1>2, <1>3

LEMMA TickCommandBusKeeps == EditsInv /\ TickCommandBus => EditsInv'
<1>1. SUFFICES ASSUME EditsInv, TickCommandBus PROVE EditsInv'
  OBVIOUS
<1>2. CASE UNCHANGED <<viewVars, txnVars, queue>>
  BY <1>1, <1>2, SameFiles, ViewsKeep DEF EditsInv, viewVars, txnVars
<1>3. QED
  BY <1>1, <1>2, ObeyStep DEF TickCommandBus

LEMMA TickKeeps == EditsInv /\ Tick => EditsInv'
<1>1. SUFFICES ASSUME EditsInv, Tick PROVE EditsInv'
  OBVIOUS
<1>2. PICK t \in timers : timers' = (timers \ {t}) \cup {Timer(t.token, TRUE)}
  BY <1>1 DEF Tick, TimePasses
<1>3. UNCHANGED <<file, txn>>
  BY <1>1 DEF Tick, TimePasses, viewVars
<1>4. Timer(t.token, TRUE).token = t.token
  BY DEF Timer
<1>5. TimerSet'
  BY <1>1, <1>2, <1>3, <1>4 DEF EditsInv, TimerSet
<1>6. QED
  BY <1>1, <1>3, <1>5 DEF EditsInv, EditsHeld, Documented

LEMMA RestartKeeps == EditsInv /\ Restart => EditsInv'
<1>1. SUFFICES ASSUME EditsInv, Restart PROVE EditsInv'
  OBVIOUS
<1>2. KeepsHanded /\ \A f \in Files : file'[f].handed
  BY <1>1, RestoreHanded DEF Restart, EditsInv
<1>3. txn'.active = FALSE
  BY <1>1, NoTransactionOpen DEF Restart
<1>4. QED
  BY <1>2, <1>3 DEF EditsInv, Documented, EditsHeld, TimerSet, KeepsHanded

-----------------------------------------------------------------------------
\* The theorem.

LEMMA InitEdits == Init => EditsInv
BY NoFileHanded, NoTransactionOpen
DEF Init, ViewsInit, TxnInit, EditsInv, Documented, EditsHeld, TimerSet

LEMMA EditsStep == EditsInv /\ [Next]_vars => EditsInv'
<1>1. SUFFICES ASSUME EditsInv, [Next]_vars PROVE EditsInv'
  OBVIOUS
<1>2. CASE UNCHANGED vars
  BY <1>1, <1>2, SameFiles, ViewsKeep DEF vars, EditsInv
<1>3. QED
  BY <1>1, <1>2, InputKeeps, UpdateContextKeeps, ServeSocketKeeps, FireTimersKeeps,
     TickCommandBusKeeps, TickKeeps, RestartKeeps DEF Next, Frame

\* No edit is forgotten, whatever is typed, clicked, opened, split or closed
\* and whenever the debounce timer fires: it belongs to the open transaction,
\* and that one's timer is set (editor_edit_transaction_core.c).
THEOREM EditsAreHeld == Spec => []NoEditForgotten
<1>1. EditsInv => NoEditForgotten
  BY DEF EditsInv, EditsHeld, TimerSet, NoEditForgotten
<1>2. QED
  BY <1>1, InitEdits, EditsStep, PTL DEF Spec

-----------------------------------------------------------------------------
-----------------------------------------------------------------------------
(* The editor: its views, whatever command a frame takes.                  *)

\* The editor's views and the queue of the commands that change them.
PaneInv == ViewsInv /\ queue \in Seq(Command)

\* Handing a document over, or marking it edited, opens and closes nothing.
LEMMA MarkedDocs ==
    ASSUME NEW d \in [Files -> Doc], NEW f, NEW b \in BOOLEAN
    PROVE  /\ [d EXCEPT ![f].handed = b] \in [Files -> Doc]
           /\ \A g \in Files : [d EXCEPT ![f].handed = b][g].refs = d[g].refs
<1> DEFINE x == [d EXCEPT ![f].handed = b]
<1>1. ASSUME NEW g \in Files PROVE x[g] \in Doc /\ x[g].refs = d[g].refs
  <2>1. CASE g = f
    <3>1. x[g] = [d[g] EXCEPT !.handed = b]
      BY <2>1
    <3> HIDE DEF x
    <3>2. d[g] \in Doc
      OBVIOUS
    <3>3. QED
      BY <3>1, <3>2 DEF Doc
  <2>2. CASE g # f
    BY <2>2
  <2>3. QED
    BY <2>1, <2>2
<1>2. x = [g \in Files |-> x[g]]
  OBVIOUS
<1> HIDE DEF x
<1>3. x \in [Files -> Doc] /\ \A g \in Files : x[g].refs = d[g].refs
  BY <1>1, <1>2
<1>4. QED
  BY <1>3 DEF x

LEMMA MarkingKeeps ==
    ASSUME ViewsInv, UNCHANGED <<view, focus, viewCount>>, file' \in [Files -> Doc],
           \A f \in Files : file'[f].refs = file[f].refs
    PROVE  ViewsInv'
BY DocsKeep DEF ViewsInv

LEMMA HandingKeeps ==
    ASSUME ViewsInv, UNCHANGED <<view, focus, viewCount>>, NEW f, file' = HandedOver(f)
    PROVE  ViewsInv'
<1>1. file \in [Files -> Doc]
  BY DEF ViewsInv
<1>2. file' \in [Files -> Doc] /\ \A g \in Files : file'[g].refs = file[g].refs
  BY <1>1, MarkedDocs, ZenonT(40) DEF HandedOver
<1>3. QED
  BY <1>2, MarkingKeeps

LEMMA EditKeepsViews ==
    ASSUME ViewsInv, NEW f, Edit(f)
    PROVE  ViewsInv'
<1> DEFINE closed == IF ClosedBy(f) THEN HandedOver(txn.file) ELSE file
<1>1. file' = [closed EXCEPT ![f].handed = FALSE] /\ UNCHANGED <<view, focus, viewCount>>
  BY DEF Edit
<1>2. file \in [Files -> Doc]
  BY DEF ViewsInv
<1>3. closed \in [Files -> Doc] /\ \A g \in Files : closed[g].refs = file[g].refs
  BY <1>2, MarkedDocs, ZenonT(40) DEF HandedOver
<1> HIDE DEF closed
<1>4. file' \in [Files -> Doc] /\ \A g \in Files : file'[g].refs = closed[g].refs
  <2>1. PICK c \in [Files -> Doc] : c = closed
    BY <1>3
  <2>2. /\ [c EXCEPT ![f].handed = FALSE] \in [Files -> Doc]
        /\ \A g \in Files : [c EXCEPT ![f].handed = FALSE][g].refs = c[g].refs
    BY MarkedDocs, ZenonT(40)
  <2>3. QED
    BY <1>1, <2>1, <2>2
<1>5. QED
  BY <1>1, <1>3, <1>4, MarkingKeeps

LEMMA StandingStill ==
    ASSUME ViewsInv, UNCHANGED viewVars
    PROVE  ViewsInv'
BY DEF viewVars, ViewsInv

LEMMA ObeyKeepsViews ==
    ASSUME ViewsInv, NEW c \in Command, Obey(c)
    PROVE  ViewsInv'
<1> DEFINE v == focus
           f == Shown(v)
<1>1. v \in Leaves /\ {v} \in SUBSET Views /\ Views \in SUBSET Views
  BY LeavesAre DEF ViewsInv, Leaves
<1> HIDE DEF v
<1>2. CASE Edit(f)
  BY <1>2, EditKeepsViews
<1>3. CASE Save(f)
  <2>1. file' = HandedOver(f) /\ UNCHANGED <<view, focus, viewCount>>
    BY <1>3 DEF Save, HandedOver
  <2>2. QED
    BY <2>1, HandingKeeps
<1>4. CASE MoveCursor(f) \/ UNCHANGED viewVars
  BY <1>4, StandingStill DEF MoveCursor, viewVars
<1>5. CASE CloseTabs({v}, {f}) \/ CloseFiles({c.path})
  BY <1>1, <1>5, CloseTabsKeeps DEF CloseFiles
<1>6. CASE CloseEmpty(v)
  BY <1>1, <1>6, CloseEmptyKeeps
<1>7. CASE SwitchTab(v, c.op = "next")
  <2>1. (c.op = "next") \in BOOLEAN
    OBVIOUS
  <2>2. QED
    BY <1>1, <1>7, <2>1, SwitchTabKeeps
<1>8. CASE Split(v)
  BY <1>8, SplitKeeps
<1>9. CASE Collapse(v)
  BY <1>9, CollapseKeeps
<1>10. CASE c.op = "open" /\ Open(v, c.path)
  <2>1. c.path \in Paths
    BY <1>10 DEF Command, PlainCommands
  <2>2. QED
    BY <1>1, <1>10, <2>1, OpenKeeps
<1>11. QED
  BY <1>2, <1>3, <1>4, <1>5, <1>6, <1>7, <1>8, <1>9, <1>10 DEF Obey, v

LEMMA InputKeepsViews ==
    ASSUME PaneInv, Input
    PROVE  PaneInv'
<1>1. ViewsInv /\ queue \in Seq(Command)
  BY DEF PaneInv
<1>2. [op |-> "close", path |-> None] \in Command
  BY DEF Command, PlainCommands
<1>3. \A c \in Command : Append(queue, c) \in Seq(Command)
  BY <1>1, AppendProperties
<1>4. queue' \in Seq(Command)
  BY <1>1, <1>2, <1>3 DEF Input, Hover, ClickText, ClickTab, ClickClose, Drop,
              ChooseWorkspace, Press
<1>5. ASSUME NEW v \in Leaves, Hover(v) \/ ClickText(v) \/ ClickClose(v) PROVE ViewsInv'
  BY <1>1, <1>5, LeavesAre DEF Hover, ClickText, ClickClose, SetActive, ViewsInv
<1>6. ASSUME NEW v \in Leaves, ClickTab(v) PROVE ViewsInv'
  <2>1. v \in Views
    BY DEF Leaves
  <2>2. DOMAIN view[v].tabs = 1..Len(view[v].tabs)
    BY <1>1, <2>1, NodeAt, TabsAre DEF ViewsInv
  <2>3. QED
    BY <1>1, <1>6, <2>2, SelectTabKeeps DEF ClickTab
<1>7. ASSUME NEW v \in Leaves, Drop(v) PROVE ViewsInv'
  BY <1>1, <1>7, OpenKeeps DEF Drop
<1>8. CASE ChooseWorkspace
  <2>1. Views \in SUBSET Views
    OBVIOUS
  <2>2. QED
    BY <1>1, <1>4, <1>8, <2>1, CloseTabsKeeps DEF ChooseWorkspace, CloseFiles, PaneInv
<1>9. CASE \E c \in Command : Press(c)
  BY <1>1, <1>4, <1>9, StandingStill DEF Press, viewVars, PaneInv
<1>10. QED
  BY <1>4, <1>5, <1>6, <1>7, <1>8, <1>9 DEF Input, PaneInv

LEMMA PaneStep == PaneInv /\ [Next]_vars => PaneInv'
<1> SUFFICES ASSUME PaneInv, [Next]_vars PROVE PaneInv'
  OBVIOUS
<1>1. ViewsInv /\ queue \in Seq(Command)
  BY DEF PaneInv
<1>2. CASE UNCHANGED vars
  BY <1>1, <1>2, StandingStill DEF vars, viewVars, PaneInv
<1>3. CASE Input
  BY <1>3, InputKeepsViews
<1>4. CASE UpdateContext
  BY <1>1, <1>4, HandingKeeps, StandingStill DEF UpdateContext, PaneInv, viewVars
<1>5. CASE ServeSocket
  <2>1. focus \in Leaves
    BY <1>1, LeavesAre DEF ViewsInv
  <2>2. queue' = queue /\ (UNCHANGED viewVars \/ \E p \in Paths : Open(focus, p))
    BY <1>5 DEF ServeSocket, viewVars
  <2>3. ViewsInv'
    BY <1>1, <2>1, <2>2, OpenKeeps, StandingStill
  <2>4. QED
    BY <1>1, <2>2, <2>3 DEF PaneInv
<1>6. CASE FireTimers
  <2>1. /\ UNCHANGED <<view, focus, viewCount>> /\ queue' = queue
        /\ file' = HandedOver(txn.file) \/ UNCHANGED file
    BY <1>6 DEF FireTimers
  <2>2. ViewsInv'
    BY <1>1, <2>1, HandingKeeps, StandingStill DEF viewVars
  <2>3. QED
    BY <1>1, <2>1, <2>2 DEF PaneInv
<1>7. CASE TickCommandBus
  <2>1. CASE queue = <<>>
    <3>1. UNCHANGED viewVars /\ queue' = queue
      BY <1>7, <2>1 DEF TickCommandBus
    <3>2. ViewsInv'
      BY <1>1, <3>1, StandingStill
    <3>3. QED
      BY <1>1, <3>1, <3>2 DEF PaneInv
  <2>2. CASE queue # <<>>
    <3>1. Head(queue) \in Command /\ Tail(queue) \in Seq(Command)
      BY <1>1, <2>2, HeadTailProperties
    <3>2. Obey(Head(queue)) /\ queue' = Tail(queue)
      BY <1>7, <2>2 DEF TickCommandBus
    <3>3. QED
      BY <1>1, <3>1, <3>2, ObeyKeepsViews DEF PaneInv
  <2>3. QED
    BY <2>1, <2>2
<1>8. CASE Tick
  <2>1. UNCHANGED viewVars /\ queue' = queue
    BY <1>8 DEF Tick
  <2>2. ViewsInv'
    BY <1>1, <2>1, StandingStill
  <2>3. QED
    BY <1>1, <2>1, <2>2 DEF PaneInv
<1>9. CASE Restart
  <2>1. ViewsInv'
    BY <1>1, <1>9, RestoreKeeps DEF Restart
  <2>2. queue' \in Seq(Command)
    BY <1>9, EmptySeq DEF Restart
  <2>3. QED
    BY <2>1, <2>2 DEF PaneInv
<1>10. QED
  BY <1>2, <1>3, <1>4, <1>5, <1>6, <1>7, <1>8, <1>9 DEF Next, Frame

\* The same of the editor as a whole, where documents are also edited, saved and
\* handed over between the frames, and commands wait in its queue.
THEOREM EditorViewsStand == Spec => []ViewsStand
<1>1. Init => PaneInv
  BY InitViews, EmptySeq DEF Init, PaneInv
<1>2. PaneInv => ViewsStand
  BY OneTree, TabsLive DEF ViewsStand, PaneInv
<1>3. QED
  BY <1>1, <1>2, PaneStep, PTL DEF Spec

-----------------------------------------------------------------------------
-----------------------------------------------------------------------------
(* The git panel (GitPanel).                                               *)

\* The lines git may print.
Lines == UNION {ToSet(log) : log \in GitLogs}

LEMMA LinesAre ==
    /\ "no process" \notin Lines
    /\ \A log \in GitLogs : log \in Seq(Lines)
    /\ NoLog \notin Seq(Lines)
<1>1. "no process" \notin Lines
  BY GitAssumption DEF Lines
<1>2. ASSUME NEW log \in GitLogs PROVE log \in Seq(Lines)
  <2>1. log \in Seq(ToSet(log)) /\ ToSet(log) \subseteq Lines
    BY GitAssumption DEF Lines
  <2> DEFINE R == ToSet(log)
  <2> HIDE DEF R
  <2>2. log \in Seq(R) /\ R \subseteq Lines
    BY <2>1 DEF R
  <2>3. QED
    BY <2>2, SeqMonotonic
<1>3. ASSUME NoLog \in Seq(Lines) PROVE FALSE
  <2>1. Len(NoLog) = 1 /\ NoLog[1] = "no process"
    BY DEF NoLog
  <2>2. NoLog[1] \in Lines
    <3>1. NoLog \in [1..Len(NoLog) -> Lines]
      BY <1>3, LenProperties
    <3>2. 1 \in 1..1
      OBVIOUS
    <3>3. Len(NoLog) = 1
      BY <2>1, Zenon
    <3>4. QED
      BY <3>1, <3>2, <3>3, Zenon
  <2>3. QED
    BY <1>1, <2>1, <2>2
<1>4. QED
  BY <1>1, <1>2, <1>3

LEMMA CommitsAre ==
    ASSUME NEW lines \in Seq(Lines)
    PROVE  Commits(lines) \in Seq(Lines) /\ Len(Commits(lines)) \in Nat
BY DroppingKeeps, LenProperties DEF Commits

\* A batch ends with a commit that is among the lines.
LEMMA TakenIs ==
    ASSUME NEW lines \in Seq(Lines)
    PROVE  Taken(lines) \in 0..Len(lines)
<1> DEFINE m == Len(lines)
           F(n) == SubSeq(lines, 1, n)
           C(n) == Len(Commits(F(n)))
           Full(k) == C(k) = LogBatch /\ lines[k] # BadLine
<1>1. m \in Nat /\ LogBatch \in Nat /\ LogBatch # 0 /\ DOMAIN lines = 1..m
  BY GitAssumption, LenProperties
<1>2. CASE Len(Commits(lines)) < LogBatch
  BY <1>1, <1>2 DEF Taken
<1>3. CASE ~ Len(Commits(lines)) < LogBatch
  <2>1. \A n \in 0..m : F(n) \in Seq(Lines)
    <3>1. ASSUME NEW n \in 0..m PROVE F(n) \in Seq(Lines)
      <4>1. CASE n = 0
        BY <4>1, SubSeqEmpty, EmptySeq
      <4>2. CASE n # 0
        <5>1. \A i \in 1..n : i \in 1..m
          OBVIOUS
        <5>2. QED
          BY <1>1, <4>2, <5>1, SubSeqProperties
      <4>3. QED
        BY <4>1, <4>2
    <3>2. QED
      BY <3>1
  <2>2. F(0) = <<>> /\ F(m) = lines
    BY SubSeqEmpty, SubSeqFull
  <2>3. \A n \in 0..m : C(n) \in Nat
    BY <2>1, CommitsAre
  <2>4. C(0) = 0
    <3>1. Commits(<<>>) = <<>>
      BY DroppingNone DEF Commits
    <3>2. QED
      BY <2>2, <3>1, EmptySeq
  <2>5. ASSUME NEW n \in Nat, n + 1 <= m
        PROVE  C(n + 1) = IF lines[n + 1] = BadLine THEN C(n) ELSE C(n) + 1
    <3>1. n + 1 \in 1..m /\ (n + 1) - 1 = n /\ n \in 0..m /\ lines[n + 1] \in Lines
      BY <1>1, <2>5, ElementOfSeq
    <3>2. F(n + 1) = F(n) \o <<lines[n + 1]>>
      BY <1>1, <3>1, SubSeqRecursiveSecond
    <3>3. F(n) \o <<lines[n + 1]>> = Append(F(n), lines[n + 1])
      BY <2>1, <3>1, AppendIsConcat
    <3> DEFINE s == F(n)
               x == lines[n + 1]
    <3>4. s \in Seq(Lines) /\ x \in Lines /\ F(n + 1) = Append(s, x)
      BY <2>1, <3>1, <3>2, <3>3
    <3> HIDE DEF s, x, F
    <3>5. Commits(Append(s, x)) = IF x = BadLine THEN Commits(s) ELSE Append(Commits(s), x)
      BY <3>4, DroppingAppend DEF Commits
    <3>6. Len(Append(Commits(s), x)) = Len(Commits(s)) + 1
      BY <3>4, CommitsAre, AppendProperties
    <3>7. QED
      BY <3>4, <3>5, <3>6 DEF s, x
  <2> HIDE DEF F, C
  <2> DEFINE S == {n \in Nat : n <= m => C(n) < LogBatch}
  <2>6. ASSUME \A k \in 1..m : ~Full(k) PROVE FALSE
    <3>1. 0 \in S
      BY <1>1, <2>4
    <3>2. ASSUME NEW n \in Nat, n \in S PROVE n + 1 \in S
      <4>1. SUFFICES ASSUME n + 1 <= m PROVE C(n + 1) < LogBatch
        OBVIOUS
      <4>2. C(n) < LogBatch /\ C(n) \in Nat /\ n + 1 \in 1..m
        BY <1>1, <2>3, <3>2, <4>1
      <4>3. CASE lines[n + 1] = BadLine
        BY <2>5, <4>1, <4>2, <4>3
      <4>4. CASE lines[n + 1] # BadLine
        <5>1. C(n + 1) = C(n) + 1 /\ C(n + 1) # LogBatch
          BY <2>5, <2>6, <4>1, <4>2, <4>4
        <5>2. QED
          BY <1>1, <4>2, <5>1
      <4>5. QED
        BY <4>3, <4>4
    <3> HIDE DEF S
    <3>3. m \in S
      BY <1>1, <3>1, <3>2, Induction
    <3>4. C(m) < LogBatch
      BY <1>1, <3>3 DEF S
    <3>5. QED
      BY <1>3, <2>2, <3>4 DEF C
  <2>7. Taken(lines) = CHOOSE k \in 1..m : Full(k)
    BY <1>1, <1>3 DEF Taken, C, F
  <2>8. Taken(lines) \in 1..m
    BY <2>6, <2>7
  <2>9. QED
    BY <1>1, <2>8
<1>4. QED
  BY <1>2, <1>3

\* A batch and what is left are all the commits, in their order.
LEMMA BatchIs ==
    ASSUME NEW lines \in Seq(Lines)
    PROVE  /\ NewCommits(lines) \in Seq(Lines)
           /\ Rest(lines) # NoLog => Rest(lines) \in Seq(Lines)
           /\ IF Rest(lines) = NoLog THEN NewCommits(lines) = Commits(lines)
              ELSE NewCommits(lines) \o Commits(Rest(lines)) = Commits(lines)
<1> DEFINE m == Len(lines)
           k == Taken(lines)
           a == SubSeq(lines, 1, k)
           b == SubSeq(lines, k + 1, m)
<1>1. m \in Nat /\ k \in 0..m /\ m + 1 \in Nat /\ k + 1 \in Nat
  BY TakenIs, LenProperties
<1>2. a \in Seq(Lines)
  <2>1. CASE k = 0
    BY <2>1, SubSeqEmpty, EmptySeq
  <2>2. CASE k # 0
    <3>1. \A i \in 1..k : i \in 1..m
      BY <1>1
    <3>2. QED
      BY <1>1, <2>2, <3>1, SubSeqProperties
  <2>3. QED
    BY <2>1, <2>2
<1>3. CASE k = m
  <2>1. a = lines
    BY <1>3, SubSeqFull
  <2>2. Rest(lines) = NoLog
    BY <1>3 DEF Rest
  <2>3. QED
    BY <2>1, <2>2, CommitsAre DEF NewCommits
<1>4. CASE k # m
  <2>1. b \in Seq(Lines)
    <3>1. \A i \in (k + 1)..m : i \in 1..m
      BY <1>1
    <3>2. QED
      BY <1>1, <1>4, <3>1, SubSeqProperties
  <2>2. a \o b = lines
    <3>1. a \o b = SubSeq(lines, 1, m)
      BY <1>1, ConcatAdjacentSubSeq
    <3>2. QED
      BY <3>1, SubSeqFull
  <2>3. Rest(lines) = b /\ NewCommits(lines) = Commits(a)
    BY <1>4 DEF Rest, NewCommits
  <2> HIDE DEF a, b
  <2>4. Commits(a \o b) = Commits(a) \o Commits(b)
    <3>1. a \in Seq(Lines) /\ b \in Seq(Lines)
      BY <1>2, <2>1
    <3> DEFINE g == {BadLine}
    <3> HIDE DEF g
    <3>2. Dropping(a \o b, g) = Dropping(a, g) \o Dropping(b, g)
      BY <3>1, DroppingConcat
    <3>3. QED
      BY <3>2 DEF Commits, g
  <2>5. b # NoLog
    BY <2>1, LinesAre
  <2>6. QED
    BY <1>2, <2>1, <2>2, <2>3, <2>4, <2>5, CommitsAre
<1>5. QED
  BY <1>3, <1>4

\* What was read of the log and what is still to be printed are all of it.
LogStands(log, left) ==
    IF left = NoLog THEN log = Commits(logRead) ELSE log \o Commits(left) = Commits(logRead)

TreeStands ==
    /\ "files" \in DOMAIN gitTree /\ "log" \in DOMAIN gitTree /\ "loading" \in DOMAIN gitTree
    /\ gitTree.files = gitFiles /\ gitTree.log = gitLog /\ gitTree.loading = Loading

\* A tree is there only after something was read: what asks for new ones frees
\* it first.
GitInv ==
    /\ repository.log \in GitLogs
    /\ gitLog \in Seq(Lines)
    /\ Loading => logLeft \in Seq(Lines)
    /\ ~needsRefresh => LogStands(gitLog, logLeft)
    /\ gitTree # NoGitTree => ~needsRefresh /\ TreeStands

LEMMA TreeResetKeeps ==
    ASSUME NEW folding, TreeReset(folding), repository'.log \in GitLogs, gitLog' \in Seq(Lines)
    PROVE  GitInv'
BY DEF TreeReset, GitInv, Loading

LEMMA PollKeeps ==
    ASSUME GitInv, NEW runs, Poll(runs)
    PROVE  GitInv'
<1>1. repository' = repository /\ gitLog' = gitLog /\ gitFiles' = gitFiles /\ logRead' = logRead
  BY DEF Poll
<1>2. CASE \E folding : TreeReset(folding)
  BY <1>1, <1>2, TreeResetKeeps DEF GitInv
<1>3. CASE UNCHANGED <<sectionFolds, gitTree, gitRow, logLeft, needsRefresh>>
  BY <1>1, <1>3 DEF GitInv, LogStands, TreeStands, Loading
<1>4. QED
  BY <1>2, <1>3 DEF Poll

LEMMA BuiltTreeIs ==
    ASSUME NEW files, NEW log, NEW loading, NEW folding,
           NEW t, t = BuiltTree(files, log, loading, folding)
    PROVE  /\ "files" \in DOMAIN t /\ "log" \in DOMAIN t /\ "loading" \in DOMAIN t
           /\ t.files = files /\ t.log = log /\ t.loading = loading
BY DEF BuiltTree

\* One more batch.
LEMMA MoreStands ==
    ASSUME NEW log \in Seq(Lines), NEW left \in Seq(Lines), LogStands(log, left)
    PROVE  LogStands(log \o NewCommits(left), Rest(left))
<1> DEFINE more == NewCommits(left)
           rest == Rest(left)
<1>1. log \o Commits(left) = Commits(logRead)
  BY LinesAre DEF LogStands
<1>2. more \in Seq(Lines) /\ (rest # NoLog => rest \in Seq(Lines))
  BY BatchIs
<1>3. CASE rest = NoLog
  <2>1. more = Commits(left)
    BY <1>3, BatchIs
  <2>2. QED
    BY <1>1, <1>3, <2>1 DEF LogStands
<1>4. CASE rest # NoLog
  <2>1. more \o Commits(rest) = Commits(left)
    BY <1>4, BatchIs
  <2> HIDE DEF more, rest
  <2>2. Commits(rest) \in Seq(Lines)
    BY <1>2, <1>4, CommitsAre
  <2>3. (log \o more) \o Commits(rest) = log \o (more \o Commits(rest))
    BY <1>2, <2>2, ConcatAssociative
  <2>4. LogStands(log \o more, rest)
    BY <1>1, <1>4, <2>1, <2>3 DEF LogStands
  <2>5. QED
    BY <2>4 DEF more, rest
<1>5. QED
  BY <1>3, <1>4

LEMMA DrawLogKeeps ==
    ASSUME GitInv, DrawLog
    PROVE  GitInv'
<1> DEFINE more == IF Loading THEN NewCommits(logLeft) ELSE <<>>
           rest == IF Loading THEN Rest(logLeft) ELSE NoLog
           news == Loading /\ NewsFromLog(more, rest = NoLog)
           folding == IF news THEN Captured(sectionFolds, gitTree) ELSE sectionFolds
           built == BuiltTree(gitFiles, gitLog \o more, rest # NoLog, folding)
<1>1. /\ ~needsRefresh /\ needsRefresh' = needsRefresh /\ repository' = repository
      /\ gitLog' = gitLog \o more /\ logLeft' = rest /\ logRead' = logRead /\ gitFiles' = gitFiles
      /\ gitTree' = IF news \/ gitTree = NoGitTree THEN built ELSE gitTree
  BY DEF DrawLog
<1>2. more \in Seq(Lines) /\ (rest # NoLog => rest \in Seq(Lines))
  BY BatchIs, EmptySeq DEF GitInv
<1>3. LogStands(gitLog \o more, rest)
  <2>1. CASE Loading
    BY <1>1, <2>1, MoreStands DEF GitInv
  <2>2. CASE ~Loading
    <3>1. gitLog \o <<>> = gitLog
      BY ConcatEmptySeq DEF GitInv
    <3>2. QED
      BY <1>1, <2>2, <3>1 DEF GitInv, LogStands, Loading
  <2>3. QED
    BY <2>1, <2>2
<1>4. ~news => gitLog \o more = gitLog /\ (rest # NoLog) = Loading
  <2>1. ~news => more = <<>> /\ (rest # NoLog) = Loading
    <3>1. CASE Loading
      BY <3>1 DEF NewsFromLog
    <3>2. CASE ~Loading
      <4>1. more = <<>> /\ rest = NoLog
        BY <3>2
      <4>2. QED
        BY <3>2, <4>1 DEF Loading
    <3>3. QED
      BY <3>1, <3>2
  <2>2. QED
    BY <2>1, ConcatEmptySeq DEF GitInv
<1> HIDE DEF more, rest, news
<1>5. gitLog \o more \in Seq(Lines)
  BY <1>2, ConcatProperties DEF GitInv
<1>6. LogStands(gitLog, logLeft)'
  BY <1>1, <1>3 DEF LogStands
<1>7. CASE news \/ gitTree = NoGitTree
  <2>1. TreeStands'
    <3>1. gitTree' = built
      BY <1>1, <1>7
    <3>2. /\ "files" \in DOMAIN built /\ "log" \in DOMAIN built /\ "loading" \in DOMAIN built
          /\ built.files = gitFiles /\ built.log = gitLog \o more /\ built.loading = (rest # NoLog)
      <4> DEFINE loads == rest # NoLog
      <4> HIDE DEF loads, folding
      <4>1. built = BuiltTree(gitFiles, gitLog \o more, loads, folding)
        BY DEF loads
      <4> HIDE DEF built
      <4>2. built.loading = loads
        BY <4>1, BuiltTreeIs
      <4>3. /\ "files" \in DOMAIN built /\ "log" \in DOMAIN built /\ "loading" \in DOMAIN built
            /\ built.files = gitFiles /\ built.log = gitLog \o more
        BY <4>1 DEF BuiltTree
      <4>4. QED
        BY <4>2, <4>3 DEF loads
    <3> HIDE DEF built
    <3>3. Loading' = (rest # NoLog)
      BY <1>1 DEF Loading
    <3>4. QED
      BY <1>1, <3>1, <3>2, <3>3 DEF TreeStands
  <2>2. QED
    BY <1>1, <1>2, <1>3, <1>5, <2>1 DEF GitInv, LogStands, Loading
<1>8. CASE ~news /\ gitTree # NoGitTree
  <2>1. TreeStands'
    BY <1>1, <1>4, <1>8 DEF TreeStands, Loading, GitInv
  <2>2. QED
    BY <1>1, <1>2, <1>3, <1>5, <2>1 DEF GitInv, LogStands, Loading
<1>9. QED
  BY <1>7, <1>8

LEMMA DrawAnewKeeps ==
    ASSUME GitInv, NEW statusRuns \in BOOLEAN, NEW logRuns \in BOOLEAN,
           DrawAnew(statusRuns, logRuns)
    PROVE  GitInv'
<1> DEFINE files == IF statusRuns THEN Listed(repository.status) ELSE <<>>
           lines == IF logRuns THEN repository.log ELSE <<>>
           first == NewCommits(lines)
           left == IF logRuns THEN Rest(lines) ELSE NoLog
           second == IF left = NoLog THEN <<>> ELSE NewCommits(left)
           rest == IF left = NoLog THEN NoLog ELSE Rest(left)
           folding == Captured(sectionFolds, gitTree)
           built == BuiltTree(files, first \o second, rest # NoLog, folding)
<1>1. /\ gitFiles' = files /\ gitLog' = first \o second /\ logLeft' = rest /\ logRead' = lines
      /\ gitTree' = built /\ needsRefresh' = FALSE /\ repository' = repository
  BY DEF DrawAnew
<1>2. lines \in Seq(Lines)
  BY LinesAre, EmptySeq DEF GitInv
<1>3. /\ first \in Seq(Lines) /\ (left # NoLog => left \in Seq(Lines))
      /\ IF left = NoLog THEN first = Commits(lines) ELSE first \o Commits(left) = Commits(lines)
  <2>1. CASE logRuns
    BY <1>2, <2>1, BatchIs
  <2>2. CASE ~logRuns
    <3>1. lines = <<>> /\ left = NoLog
      BY <2>2
    <3>2. first \in Seq(Lines)
      BY <1>2, BatchIs
    <3>3. Rest(lines) = NoLog
      <4>1. Len(lines) = 0
        BY <3>1, EmptySeq
      <4>2. Taken(lines) \in 0..0
        BY <1>2, <4>1, TakenIs
      <4>3. Taken(lines) = Len(lines)
        BY <4>1, <4>2
      <4>4. QED
        BY <4>3 DEF Rest
    <3>4. QED
      BY <1>2, <3>1, <3>2, <3>3, BatchIs
  <2>3. QED
    BY <2>1, <2>2
<1>4. second \in Seq(Lines) /\ (rest # NoLog => rest \in Seq(Lines))
  BY <1>3, BatchIs, EmptySeq
<1> HIDE DEF lines, first, left
<1>5. IF rest = NoLog THEN first \o second = Commits(lines)
      ELSE (first \o second) \o Commits(rest) = Commits(lines)
  <2>1. CASE left = NoLog
    BY <1>3, <2>1, ConcatEmptySeq
  <2>2. CASE left # NoLog
    <3>1. IF rest = NoLog THEN second = Commits(left) ELSE second \o Commits(rest) = Commits(left)
      BY <1>3, <2>2, BatchIs
    <3>2. rest # NoLog => Commits(rest) \in Seq(Lines)
      BY <1>4, CommitsAre
    <3> HIDE DEF rest, second
    <3>3. rest # NoLog => (first \o second) \o Commits(rest) = first \o (second \o Commits(rest))
      BY <1>3, <1>4, <3>2, ConcatAssociative, SMTT(30)
    <3>4. QED
      BY <1>3, <2>2, <3>1, <3>3
  <2>3. QED
    BY <2>1, <2>2
<1> HIDE DEF rest, second
<1>6. first \o second \in Seq(Lines)
  BY <1>3, <1>4, ConcatProperties
<1>7. LogStands(gitLog, logLeft)'
  BY <1>1, <1>5 DEF LogStands
<1>8. TreeStands'
  <2>1. /\ "files" \in DOMAIN built /\ "log" \in DOMAIN built /\ "loading" \in DOMAIN built
        /\ built.files = files /\ built.log = first \o second /\ built.loading = (rest # NoLog)
    <3> DEFINE loads == rest # NoLog
    <3> HIDE DEF loads, folding, files
    <3>1. built = BuiltTree(files, first \o second, loads, folding)
      BY DEF loads
    <3> HIDE DEF built
    <3>2. built.loading = loads
      BY <3>1, BuiltTreeIs
    <3>3. /\ "files" \in DOMAIN built /\ "log" \in DOMAIN built /\ "loading" \in DOMAIN built
          /\ built.files = files /\ built.log = first \o second
      BY <3>1 DEF BuiltTree
    <3>4. QED
      BY <3>2, <3>3 DEF loads
  <2> HIDE DEF built, files
  <2>2. Loading' = (rest # NoLog)
    BY <1>1 DEF Loading
  <2>3. QED
    BY <1>1, <2>1, <2>2 DEF TreeStands
<1>9. QED
  BY <1>1, <1>4, <1>6, <1>7, <1>8 DEF GitInv, Loading

LEMMA GitStep == GitInv /\ [GitNext]_gitVars => GitInv'
<1> SUFFICES ASSUME GitInv, [GitNext]_gitVars PROVE GitInv'
  OBVIOUS
<1>1. CASE UNCHANGED gitVars
  BY <1>1 DEF gitVars, GitInv, LogStands, TreeStands, Loading
<1>2. CASE RepositoryChanges
  <2>1. repository' \in [status : GitStates, log : GitLogs]
    BY <1>2 DEF RepositoryChanges
  <2>2. repository'.log \in GitLogs
    BY <2>1
  <2>3. QED
    BY <1>2, <2>2 DEF RepositoryChanges, GitInv, LogStands, TreeStands, Loading
<1>3. CASE \E runs \in BOOLEAN : Poll(runs)
  BY <1>3, PollKeeps
<1>4. CASE DrawLog
  BY <1>4, DrawLogKeeps
<1>5. CASE \E statusRuns, logRuns \in BOOLEAN : DrawAnew(statusRuns, logRuns)
  BY <1>5, DrawAnewKeeps
<1>6. CASE RunGit
  <2>1. repository' \in [status : GitStates, log : GitLogs] /\ gitLog' = gitLog
        /\ TreeReset(sectionFolds)
    BY <1>6 DEF RunGit
  <2>2. repository'.log \in GitLogs /\ gitLog' \in Seq(Lines)
    BY <2>1 DEF GitInv
  <2>3. QED
    BY <2>1, <2>2, TreeResetKeeps
<1>7. CASE RefreshGit
  BY <1>7, TreeResetKeeps DEF RefreshGit, GitInv
<1>8. CASE ClickGitRow
  BY <1>8 DEF ClickGitRow, GitInv, LogStands, TreeStands, Loading
<1>9. CASE \E s \in FoldSections : FoldSection(s)
  <2>1. PICK x : gitTree' = [gitTree EXCEPT !.unfolded = x]
    BY <1>9 DEF FoldSection
  <2>2. gitTree # NoGitTree
    BY <1>9 DEF FoldSection
  <2>3. TreeStands'
    BY <1>9, <2>1, <2>2 DEF FoldSection, GitInv, TreeStands, Loading
  <2>4. QED
    BY <1>9, <2>2, <2>3 DEF FoldSection, GitInv, LogStands, Loading
<1>10. QED
  BY <1>1, <1>2, <1>3, <1>4, <1>5, <1>6, <1>7, <1>8, <1>9 DEF GitNext

\* However often the stream of git's log is cut off and begun again, and whatever
\* status is read meanwhile: the tree drawn is of the files and commits read last,
\* no commit is lost or there twice, and what is still to come is said to be
\* loading (tool_git.c).
THEOREM GitTreeAlwaysStands == GitSpec => []GitTreeStands
<1>1. GitInit => GitInv
  <2>1. SUFFICES ASSUME GitInit PROVE GitInv
    OBVIOUS
  <2>2. repository \in [status : GitStates, log : GitLogs]
    BY <2>1 DEF GitInit
  <2>3. repository.log \in GitLogs
    BY <2>2
  <2>4. QED
    BY <2>1, <2>3, EmptySeq DEF GitInit, GitInv, Loading
<1>2. GitInv => GitTreeStands
  BY DEF GitInv, GitTreeStands, TreeStands, LogStands, Loading
<1>3. QED
  BY <1>1, <1>2, GitStep, PTL DEF GitSpec

-----------------------------------------------------------------------------
-----------------------------------------------------------------------------
(* The tasks (TaskPanel).                                                  *)

\* The list a task is in, or the roots.
ListOf(nodes, roots, p) == IF p = NoTask THEN roots ELSE nodes[p].children

\* A list holds each child of its parent, once.
ListStands(nodes, roots, p) ==
    /\ Distinct(ListOf(nodes, roots, p))
    /\ \A i \in 1..Len(ListOf(nodes, roots, p)) :
           /\ ListOf(nodes, roots, p)[i] \in DOMAIN nodes
           /\ nodes[ListOf(nodes, roots, p)[i]].parent = p
    /\ \A c \in DOMAIN nodes :
           nodes[c].parent = p =>
               \E i \in 1..Len(ListOf(nodes, roots, p)) : ListOf(nodes, roots, p)[i] = c

TaskTree(nodes, roots) ==
    /\ DOMAIN nodes \subseteq TaskIds
    /\ roots \in Seq(TaskIds)
    /\ \A t \in DOMAIN nodes : nodes[t] \in TaskNode
    /\ \A t \in DOMAIN nodes : nodes[t].parent \in DOMAIN nodes \cup {NoTask}
    /\ \A p \in DOMAIN nodes \cup {NoTask} : ListStands(nodes, roots, p)
    /\ RootedIn(nodes)

\* The inductive invariant: that the parents lead out of every set of tasks is
\* what keeps a subtree from holding the parent it is freed from.
TaskInv ==
    /\ TaskTree(tasks, taskRoots)
    /\ selectedTask \in DOMAIN tasks \cup {NoTask}
    /\ \A t \in DOMAIN tasks : tasks[t].isSelected = (t = selectedTask)

LEMMA NoTaskIsNone ==
    /\ TaskRoom \in Nat
    /\ NoTask \notin TaskIds
    /\ TaskIds \subseteq Nat
BY TasksAssumption DEF NoTask, TaskIds

\* A task is never its own parent.
LEMMA NotOwnParent ==
    ASSUME NEW nodes, RootedIn(nodes), NEW t \in DOMAIN nodes
    PROVE  nodes[t].parent # t
<1>1. {t} \in SUBSET DOMAIN nodes /\ {t} # {}
  OBVIOUS
<1>2. QED
  BY <1>1 DEF RootedIn

\* What a list is without its i-th element.
LEMMA RemoveAtIs ==
    ASSUME NEW T, NEW s \in Seq(T), NEW i \in 1..Len(s)
    PROVE  /\ RemoveAt(s, i) \in Seq(T)
           /\ Len(RemoveAt(s, i)) = Len(s) - 1
           /\ \A j \in 1..(Len(s) - 1) : RemoveAt(s, i)[j] = IF j < i THEN s[j] ELSE s[j + 1]
<1> DEFINE n == Len(s)
           a == SubSeq(s, 1, i - 1)
           b == SubSeq(s, i + 1, n)
<1>1. n \in Nat /\ i \in 1..n /\ \A j \in 1..n : s[j] \in T
  BY LenProperties, ElementOfSeq
<1>2. /\ a \in Seq(T) /\ Len(a) = i - 1
      /\ \A j \in 1..(i - 1) : a[j] = s[j]
  <2>1. 1 \in Int /\ i - 1 \in Int /\ \A j \in 1..(i - 1) : s[j] \in T
    BY <1>1
  <2>2. /\ a \in Seq(T)
        /\ Len(a) = IF 1 <= i - 1 THEN i - 1 - 1 + 1 ELSE 0
        /\ \A j \in 1..(i - 1 - 1 + 1) : a[j] = s[1 + j - 1]
    BY <1>1
  <2>3. QED
    BY <1>1, <2>2
<1>3. /\ b \in Seq(T) /\ Len(b) = n - i
      /\ \A j \in 1..(n - i) : b[j] = s[j + i]
  BY <1>1
<1>4. RemoveAt(s, i) = a \o b
  BY DEF RemoveAt
<1> HIDE DEF a, b, n
<1>5. /\ a \o b \in Seq(T) /\ Len(a \o b) = Len(a) + Len(b)
      /\ \A j \in 1..(Len(a) + Len(b)) :
             (a \o b)[j] = IF j <= Len(a) THEN a[j] ELSE b[j - Len(a)]
  BY <1>2, <1>3, ConcatProperties
<1>6. Len(a) + Len(b) = n - 1
  BY <1>1, <1>2, <1>3
<1>7. ASSUME NEW j \in 1..(n - 1)
      PROVE  (a \o b)[j] = IF j < i THEN s[j] ELSE s[j + 1]
  <2>1. CASE j < i
    BY <1>1, <1>2, <1>5, <1>6, <2>1
  <2>2. CASE ~(j < i)
    <3>1. j - (i - 1) \in 1..(n - i) /\ (j - (i - 1)) + i = j + 1 /\ ~(j <= i - 1)
      BY <1>1, <2>2
    <3>2. (a \o b)[j] = b[j - (i - 1)]
      BY <1>2, <1>5, <1>6, <3>1
    <3>3. QED
      BY <1>3, <2>2, <3>1, <3>2
  <2>3. QED
    BY <2>1, <2>2
<1>8. QED
  BY <1>4, <1>5, <1>6, <1>7 DEF n

\* All others are still there, and once.
LEMMA RemoveAtKeeps ==
    ASSUME NEW T, NEW s \in Seq(T), NEW i \in 1..Len(s), Distinct(s)
    PROVE  /\ RemoveAt(s, i) \in Seq(T)
           /\ Distinct(RemoveAt(s, i))
           /\ \A j \in 1..Len(RemoveAt(s, i)) :
                  \E k \in 1..Len(s) : RemoveAt(s, i)[j] = s[k] /\ k # i
           /\ \A k \in 1..Len(s) :
                  k # i => \E j \in 1..Len(RemoveAt(s, i)) : RemoveAt(s, i)[j] = s[k]
<1> DEFINE r == RemoveAt(s, i)
           n == Len(s)
<1>1. n \in Nat /\ i \in 1..n
  BY LenProperties
<1>2. /\ r \in Seq(T) /\ Len(r) = n - 1
      /\ \A j \in 1..(n - 1) : r[j] = IF j < i THEN s[j] ELSE s[j + 1]
  BY RemoveAtIs
<1> HIDE DEF r
<1>3. \A j, k \in 1..n : s[j] = s[k] => j = k
  BY DEF Distinct
<1> HIDE DEF n
<1>4. ASSUME NEW j \in 1..(n - 1), NEW k \in 1..(n - 1), r[j] = r[k]
      PROVE  j = k
  <2> DEFINE p == IF j < i THEN j ELSE j + 1
             q == IF k < i THEN k ELSE k + 1
  <2>1. p \in 1..n /\ q \in 1..n
    BY <1>1
  <2>2. r[j] = s[p] /\ r[k] = s[q]
    BY <1>2
  <2>3. p = q
    BY <1>3, <1>4, <2>1, <2>2
  <2>4. QED
    BY <1>1, <2>3
<1>5. ASSUME NEW j \in 1..(n - 1)
      PROVE  \E k \in 1..n : r[j] = s[k] /\ k # i
  <2>1. CASE j < i
    BY <1>1, <1>2, <2>1
  <2>2. CASE ~(j < i)
    <3>1. j + 1 \in 1..n /\ j + 1 # i
      BY <1>1, <2>2
    <3>2. QED
      BY <1>2, <2>2, <3>1
  <2>3. QED
    BY <2>1, <2>2
<1>6. ASSUME NEW k \in 1..n, k # i
      PROVE  \E j \in 1..(n - 1) : r[j] = s[k]
  <2>1. CASE k < i
    <3>1. k \in 1..(n - 1)
      BY <1>1, <2>1
    <3>2. QED
      BY <1>2, <2>1, <3>1
  <2>2. CASE ~(k < i)
    <3>1. k - 1 \in 1..(n - 1) /\ ~(k - 1 < i) /\ (k - 1) + 1 = k
      BY <1>1, <1>6, <2>2
    <3>2. QED
      BY <1>2, <3>1
  <2>3. QED
    BY <2>1, <2>2
<1>7. Distinct(r)
  BY <1>2, <1>4 DEF Distinct
<1>8. QED
  BY <1>2, <1>5, <1>6, <1>7 DEF r, n

LEMMA NewIdIs ==
    ASSUME DOMAIN tasks \subseteq TaskIds, DOMAIN tasks # TaskIds
    PROVE  NewId \in TaskIds \ DOMAIN tasks
<1> DEFINE S == TaskIds \ DOMAIN tasks
           R == {p \in Nat \X Nat : p[1] < p[2]}
<1>1. OpToRel(<, Nat) = R
  BY DEF OpToRel
<1>2. IsWellFoundedOn(R, Nat)
  BY <1>1, NatLessThanWellFounded
<1>3. S \subseteq Nat /\ S # {}
  BY NoTaskIsNone
<1>4. NewId = CHOOSE t \in S : \A s \in S : t <= s
  BY DEF NewId
<1> HIDE DEF R, S
<1>5. PICK x \in S : \A y \in S : ~ (<<y, x>> \in R)
  BY <1>2, <1>3, WFMin
<1>6. ASSUME NEW y \in S PROVE x <= y
  <2>1. x \in Nat /\ y \in Nat /\ <<y, x>> \notin R
    BY <1>3, <1>5
  <2>2. ~ (y < x)
    BY <2>1 DEF R
  <2>3. QED
    BY <2>1, <2>2
<1>7. NewId \in S
  BY <1>4, <1>6
<1>8. QED
  BY <1>7 DEF S

\* What changes no parent and no list leaves the tree as it is.
LEMMA SameTaskTree ==
    ASSUME NEW nodes, NEW after, NEW roots, TaskTree(nodes, roots),
           DOMAIN after = DOMAIN nodes,
           \A t \in DOMAIN nodes : /\ after[t] \in TaskNode
                                   /\ after[t].parent = nodes[t].parent
                                   /\ after[t].children = nodes[t].children
    PROVE  TaskTree(after, roots)
<1>1. \A p \in DOMAIN nodes \cup {NoTask} : ListOf(after, roots, p) = ListOf(nodes, roots, p)
  BY DEF ListOf
<1>2. ASSUME NEW p \in DOMAIN nodes \cup {NoTask} PROVE ListStands(after, roots, p)
  <2>1. ListOf(after, roots, p) = ListOf(nodes, roots, p) /\ ListStands(nodes, roots, p)
    BY <1>1 DEF TaskTree
  <2>2. QED
    BY <2>1 DEF ListStands
<1>3. RootedIn(after)
  BY DEF RootedIn, TaskTree
<1>4. QED
  BY <1>2, <1>3 DEF TaskTree

\* The default groups, with those that have no parent as the roots.
LEMMA DefaultsAre ==
    TaskTree(DefaultGroups, DefaultRoots)
<1> DEFINE all == [i \in TaskIds |-> i]
           gone == {t \in TaskIds :
                        t \in DOMAIN DefaultGroups => DefaultGroups[t].parent # NoTask}
           roots == Dropping(all, gone)
<1>1. all \in Seq(TaskIds) /\ Len(all) = TaskRoom /\ \A i \in 1..TaskRoom : all[i] = i
  BY NoTaskIsNone DEF TaskIds
<1>2. Distinct(all)
  BY <1>1 DEF Distinct
<1>3. roots = DefaultRoots
  BY DEF DefaultRoots
<1> HIDE DEF all, gone
<1>4. /\ roots \in Seq(TaskIds)
      /\ \A i \in 1..Len(roots) : \E j \in 1..Len(all) : roots[i] = all[j] /\ all[j] \notin gone
      /\ \A j \in 1..Len(all) : all[j] \notin gone => \E i \in 1..Len(roots) : roots[i] = all[j]
      /\ Distinct(roots)
  BY <1>1, <1>2, DroppingKeeps, SMTT(30)
<1> HIDE DEF roots
<1>5. ListStands(DefaultGroups, roots, NoTask)
  <2>1. ListOf(DefaultGroups, roots, NoTask) = roots
    BY DEF ListOf
  <2>2. ASSUME NEW i \in 1..Len(roots)
        PROVE  roots[i] \in DOMAIN DefaultGroups /\ DefaultGroups[roots[i]].parent = NoTask
    BY <1>1, <1>4 DEF gone, TaskIds
  <2>3. ASSUME NEW c \in DOMAIN DefaultGroups, DefaultGroups[c].parent = NoTask
        PROVE  \E i \in 1..Len(roots) : roots[i] = c
    <3>1. c \in 1..TaskRoom /\ c \notin gone
      BY <2>3, TasksAssumption DEF TaskIds, gone
    <3>2. QED
      BY <1>1, <1>4, <3>1
  <2>4. QED
    BY <1>4, <2>1, <2>2, <2>3 DEF ListStands
<1>6. ASSUME NEW p \in DOMAIN DefaultGroups PROVE ListStands(DefaultGroups, roots, p)
  <2> DEFINE list == DefaultGroups[p].children
  <2>1. /\ list \in Seq(TaskIds) /\ IsInjective(list)
        /\ ToSet(list) = {c \in DOMAIN DefaultGroups : DefaultGroups[c].parent = p}
        /\ p # NoTask
    BY NoTaskIsNone, TasksAssumption DEF TaskNode
  <2>2. ListOf(DefaultGroups, roots, p) = list
    BY <2>1 DEF ListOf
  <2> HIDE DEF list
  <2>3. DOMAIN list = 1..Len(list)
    BY <2>1
  <2>4. Distinct(list)
    BY <2>1, <2>3 DEF IsInjective, Distinct
  <2>5. \A c : c \in ToSet(list) <=> \E i \in 1..Len(list) : list[i] = c
    BY <2>3 DEF ToSet
  <2>6. QED
    BY <2>1, <2>2, <2>4, <2>5 DEF ListStands
<1>7. QED
  BY <1>3, <1>4, <1>5, <1>6, TasksAssumption DEF TaskTree

LEMMA TasksInitStands ==
    ASSUME TasksInit
    PROVE  TaskInv
<1>1. TaskTree(tasks, taskRoots)
  BY DefaultsAre DEF TasksInit
<1>2. ASSUME NEW t \in DOMAIN tasks PROVE tasks[t].isSelected = (t = selectedTask)
  <2>1. t # selectedTask /\ ~tasks[t].isSelected
    BY NoTaskIsNone, TasksAssumption DEF TasksInit
  <2>2. tasks[t].isSelected \in BOOLEAN
    BY <1>1 DEF TaskTree, TaskNode
  <2>3. QED
    BY <2>1, <2>2
<1>3. QED
  BY <1>1, <1>2 DEF TaskInv, TasksInit

LEMMA StartTasksKeeps ==
    ASSUME StartTasks
    PROVE  TaskInv'
<1>1. tasks' = DefaultGroups /\ taskRoots' = DefaultRoots /\ selectedTask' = NoTask
  BY DEF StartTasks, DefaultTasks
<1>2. TaskTree(tasks', taskRoots')
  BY <1>1, DefaultsAre
<1>3. ASSUME NEW t \in DOMAIN tasks' PROVE tasks'[t].isSelected = (t = selectedTask')
  <2>1. t # NoTask /\ ~tasks'[t].isSelected
    BY <1>1, <1>3, NoTaskIsNone, TasksAssumption
  <2>2. tasks'[t].isSelected \in BOOLEAN
    BY <1>2, <1>3 DEF TaskTree, TaskNode
  <2>3. QED
    BY <1>1, <2>1, <2>2
<1>4. QED
  BY <1>1, <1>2, <1>3 DEF TaskInv

\* What leaves the marks alone as well.
LEMMA SameTasksKeep ==
    ASSUME TaskInv, taskRoots' = taskRoots, selectedTask' = selectedTask,
           DOMAIN tasks' = DOMAIN tasks,
           \A t \in DOMAIN tasks : /\ tasks'[t] \in TaskNode
                                   /\ tasks'[t].parent = tasks[t].parent
                                   /\ tasks'[t].children = tasks[t].children
                                   /\ tasks'[t].isSelected = tasks[t].isSelected
    PROVE  TaskInv'
<1>1. TaskTree(tasks', taskRoots)
  BY SameTaskTree DEF TaskInv
<1>2. QED
  BY <1>1 DEF TaskInv

LEMMA ClickExpandKeeps ==
    ASSUME TaskInv, NEW t \in TaskIds, ClickExpand(t)
    PROVE  TaskInv'
<1>1. /\ taskRoots' = taskRoots /\ selectedTask' = selectedTask
      /\ tasks' = [tasks EXCEPT ![t].isExpanded = ~@]
  BY DEF ClickExpand
<1>2. \A s \in DOMAIN tasks : /\ tasks'[s] \in TaskNode
                              /\ tasks'[s].parent = tasks[s].parent
                              /\ tasks'[s].children = tasks[s].children
                              /\ tasks'[s].isSelected = tasks[s].isSelected
  BY <1>1 DEF TaskInv, TaskTree, TaskNode
<1>3. QED
  BY <1>1, <1>2, SameTasksKeep

LEMMA SubmitTaskNameKeeps ==
    ASSUME TaskInv, NEW name \in TaskNames, SubmitTaskName(name)
    PROVE  TaskInv'
<1>1. /\ taskRoots' = taskRoots /\ selectedTask' = selectedTask
      /\ tasks' = [tasks EXCEPT ![renamedTask].label = name]
  BY DEF SubmitTaskName
<1>2. name \in Labels
  BY DEF Labels
<1>3. \A s \in DOMAIN tasks : /\ tasks'[s] \in TaskNode
                              /\ tasks'[s].parent = tasks[s].parent
                              /\ tasks'[s].children = tasks[s].children
                              /\ tasks'[s].isSelected = tasks[s].isSelected
  BY <1>1, <1>2 DEF TaskInv, TaskTree, TaskNode
<1>4. QED
  BY <1>1, <1>3, SameTasksKeep

LEMMA ClearedIs ==
    ASSUME NEW nodes, \A s \in DOMAIN nodes : nodes[s] \in TaskNode
    PROVE  /\ DOMAIN SelectionCleared(nodes) = DOMAIN nodes
           /\ \A s \in DOMAIN nodes :
                  /\ SelectionCleared(nodes)[s] \in TaskNode
                  /\ SelectionCleared(nodes)[s].parent = nodes[s].parent
                  /\ SelectionCleared(nodes)[s].children = nodes[s].children
                  /\ SelectionCleared(nodes)[s].isSelected = FALSE
BY DEF SelectionCleared, TaskNode

LEMMA ClickBesideTasksKeeps ==
    ASSUME TaskInv, ClickBesideTasks
    PROVE  TaskInv'
<1>1. /\ taskRoots' = taskRoots /\ selectedTask' = NoTask
      /\ tasks' = SelectionCleared(tasks)
  BY DEF ClickBesideTasks
<1>2. /\ DOMAIN tasks' = DOMAIN tasks
      /\ \A s \in DOMAIN tasks : /\ tasks'[s] \in TaskNode
                                 /\ tasks'[s].parent = tasks[s].parent
                                 /\ tasks'[s].children = tasks[s].children
                                 /\ tasks'[s].isSelected = FALSE
  BY <1>1, ClearedIs DEF TaskInv, TaskTree
<1>3. TaskTree(tasks', taskRoots)
  BY <1>2, SameTaskTree DEF TaskInv
<1>4. \A s \in DOMAIN tasks : s # NoTask
  BY NoTaskIsNone DEF TaskInv, TaskTree
<1>5. QED
  BY <1>1, <1>2, <1>3, <1>4 DEF TaskInv

LEMMA ClickTaskKeeps ==
    ASSUME TaskInv, NEW t \in TaskIds, ClickTask(t)
    PROVE  TaskInv'
<1> DEFINE clear == SelectionCleared(tasks)
<1>1. /\ taskRoots' = taskRoots /\ selectedTask' = t /\ t \in DOMAIN tasks
      /\ tasks' = [clear EXCEPT ![t].isSelected = TRUE]
  BY DEF ClickTask, TaskSelected
<1>2. /\ DOMAIN clear = DOMAIN tasks
      /\ \A s \in DOMAIN tasks : /\ clear[s] \in TaskNode
                                 /\ clear[s].parent = tasks[s].parent
                                 /\ clear[s].children = tasks[s].children
                                 /\ clear[s].isSelected = FALSE
  BY ClearedIs DEF TaskInv, TaskTree
<1> HIDE DEF clear
<1>3. /\ DOMAIN tasks' = DOMAIN tasks
      /\ \A s \in DOMAIN tasks : /\ tasks'[s] \in TaskNode
                                 /\ tasks'[s].parent = tasks[s].parent
                                 /\ tasks'[s].children = tasks[s].children
                                 /\ tasks'[s].isSelected = (s = t)
  <2>1. DOMAIN tasks' = DOMAIN tasks
    BY <1>1, <1>2
  <2>2. ASSUME NEW s \in DOMAIN tasks
        PROVE  /\ tasks'[s] \in TaskNode
               /\ tasks'[s].parent = tasks[s].parent
               /\ tasks'[s].children = tasks[s].children
               /\ tasks'[s].isSelected = (s = t)
    <3>1. CASE s = t
      <4>1. tasks'[s] = [clear[s] EXCEPT !.isSelected = TRUE]
        BY <1>1, <1>2, <3>1
      <4>2. QED
        BY <1>2, <3>1, <4>1 DEF TaskNode
    <3>2. CASE s # t
      <4>1. tasks'[s] = clear[s]
        BY <1>1, <1>2, <3>2
      <4>2. QED
        BY <1>2, <3>2, <4>1
    <3>3. QED
      BY <3>1, <3>2
  <2>3. QED
    BY <2>1, <2>2
<1>4. TaskTree(tasks', taskRoots)
  BY <1>3, SameTaskTree DEF TaskInv
<1>5. QED
  BY <1>1, <1>3, <1>4 DEF TaskInv

\* One task more, at the end of its parent's list.
Grown(nodes, roots, after, afterRoots, p, id) ==
    /\ p \in DOMAIN nodes \cup {NoTask}
    /\ id \in TaskIds \ DOMAIN nodes
    /\ DOMAIN after = DOMAIN nodes \cup {id}
    /\ after[id] \in TaskNode /\ after[id].parent = p /\ after[id].children = <<>>
    /\ afterRoots = IF p = NoTask THEN Append(roots, id) ELSE roots
    /\ \A t \in DOMAIN nodes :
           /\ after[t] \in TaskNode
           /\ after[t].parent = nodes[t].parent
           /\ after[t].children = IF t = p THEN Append(nodes[t].children, id) ELSE nodes[t].children

LEMMA GrownStands ==
    ASSUME NEW nodes, NEW roots, NEW after, NEW afterRoots, NEW p, NEW id, TaskTree(nodes, roots),
           Grown(nodes, roots, after, afterRoots, p, id)
    PROVE  TaskTree(after, afterRoots)
<1> USE DEF Grown
<1>1. /\ DOMAIN nodes \subseteq TaskIds /\ roots \in Seq(TaskIds)
      /\ \A t \in DOMAIN nodes : nodes[t] \in TaskNode
      /\ \A t \in DOMAIN nodes : nodes[t].parent \in DOMAIN nodes \cup {NoTask}
      /\ \A q \in DOMAIN nodes \cup {NoTask} : ListStands(nodes, roots, q)
      /\ RootedIn(nodes)
  BY DEF TaskTree
<1>2. NoTask \notin TaskIds /\ id # NoTask /\ id # p
  BY <1>1, NoTaskIsNone
<1>3. \A q \in DOMAIN nodes \cup {NoTask} : ListOf(nodes, roots, q) \in Seq(TaskIds)
  BY <1>1 DEF ListOf, TaskNode
<1>4. \A q \in DOMAIN nodes \cup {NoTask} :
          ListOf(after, afterRoots, q) = IF q = p THEN Append(ListOf(nodes, roots, q), id)
                                         ELSE ListOf(nodes, roots, q)
  BY <1>1, <1>2 DEF ListOf
<1>5. ASSUME NEW q \in DOMAIN nodes \cup {NoTask}, q # p
      PROVE  ListStands(after, afterRoots, q)
  <2> DEFINE list == ListOf(nodes, roots, q)
  <2>1. ListOf(after, afterRoots, q) = list
    BY <1>4, <1>5
  <2>2. /\ Distinct(list)
        /\ \A i \in 1..Len(list) : list[i] \in DOMAIN nodes /\ nodes[list[i]].parent = q
        /\ \A c \in DOMAIN nodes : nodes[c].parent = q => \E i \in 1..Len(list) : list[i] = c
    BY <1>1 DEF ListStands
  <2> HIDE DEF list
  <2>3. \A i \in 1..Len(list) : list[i] \in DOMAIN after /\ after[list[i]].parent = q
    BY <2>2
  <2>4. \A c \in DOMAIN after : after[c].parent = q => \E i \in 1..Len(list) : list[i] = c
    BY <1>5, <2>2
  <2>5. QED
    BY <2>1, <2>2, <2>3, <2>4 DEF ListStands
<1>6. ListStands(after, afterRoots, p)
  <2> DEFINE list == ListOf(nodes, roots, p)
             longer == Append(list, id)
             n == Len(list)
  <2>1. ListOf(after, afterRoots, p) = longer
    BY <1>4
  <2>2. /\ Distinct(list)
        /\ \A i \in 1..Len(list) : list[i] \in DOMAIN nodes /\ nodes[list[i]].parent = p
        /\ \A c \in DOMAIN nodes : nodes[c].parent = p => \E i \in 1..Len(list) : list[i] = c
    BY <1>1 DEF ListStands
  <2>3. /\ n \in Nat /\ Len(longer) = n + 1 /\ longer[n + 1] = id
        /\ \A i \in 1..n : longer[i] = list[i]
    BY <1>3, AppendProperties, LenProperties
  <2> HIDE DEF list, longer, n
  <2>4. \A i \in 1..(n + 1) : i \in 1..n \/ i = n + 1
    BY <2>3
  <2>5. \A i \in 1..n : i \in 1..(n + 1)
    BY <2>3
  <2>6. Distinct(longer)
    <3>1. \A i \in 1..n : list[i] # id
      BY <2>2 DEF n
    <3>2. \A i, j \in 1..n : list[i] = list[j] => i = j
      BY <2>2 DEF n, Distinct
    <3>3. \A i, j \in 1..(n + 1) : longer[i] = longer[j] => i = j
      BY <2>3, <2>4, <3>1, <3>2
    <3>4. QED
      BY <2>3, <3>3 DEF Distinct
  <2>7. ASSUME NEW i \in 1..(n + 1)
        PROVE  longer[i] \in DOMAIN after /\ after[longer[i]].parent = p
    <3>1. CASE i = n + 1
      BY <2>3, <3>1
    <3>2. CASE i \in 1..n
      BY <2>2, <2>3, <3>2 DEF n
    <3>3. QED
      BY <2>4, <3>1, <3>2
  <2>8. ASSUME NEW c \in DOMAIN after, after[c].parent = p
        PROVE  \E i \in 1..(n + 1) : longer[i] = c
    <3>1. CASE c = id
      <4>1. n + 1 \in 1..(n + 1)
        BY <2>3
      <4>2. QED
        BY <2>3, <3>1, <4>1
    <3>2. CASE c \in DOMAIN nodes
      <4>1. PICK i \in 1..n : list[i] = c
        BY <2>2, <2>8, <3>2 DEF n
      <4>2. QED
        BY <2>3, <2>5, <4>1
    <3>3. QED
      BY <3>1, <3>2
  <2>9. QED
    BY <2>1, <2>3, <2>6, <2>7, <2>8 DEF ListStands
<1>7. ListStands(after, afterRoots, id)
  <2>1. ListOf(after, afterRoots, id) = <<>> /\ Len(<<>>) = 0
    BY <1>2 DEF ListOf
  <2>2. \A c \in DOMAIN after : after[c].parent # id
    BY <1>1, <1>2
  <2>3. QED
    BY <2>1, <2>2 DEF ListStands, Distinct
<1>8. RootedIn(after)
  <2>1. ASSUME NEW S \in SUBSET DOMAIN after, S # {}
        PROVE  \E t \in S : after[t].parent \notin S
    <3>1. CASE S \ {id} = {}
      BY <1>2, <2>1, <3>1
    <3>2. CASE S \ {id} # {}
      <4>1. S \ {id} \in SUBSET DOMAIN nodes
        OBVIOUS
      <4>2. PICK t \in S \ {id} : nodes[t].parent \notin S \ {id}
        BY <1>1, <3>2, <4>1 DEF RootedIn
      <4>3. t \in DOMAIN nodes /\ nodes[t].parent # id
        BY <1>1, <1>2, <4>1
      <4>4. QED
        BY <4>2, <4>3
    <3>3. QED
      BY <3>1, <3>2
  <2>2. QED
    BY <2>1 DEF RootedIn
<1>9. afterRoots \in Seq(TaskIds)
  BY <1>1
<1>10. \A t \in DOMAIN after : after[t].parent \in DOMAIN after \cup {NoTask}
  BY <1>1
<1>11. \A q \in DOMAIN after \cup {NoTask} : ListStands(after, afterRoots, q)
  BY <1>5, <1>6, <1>7
<1>12. QED
  BY <1>1, <1>8, <1>9, <1>10, <1>11 DEF TaskTree

LEMMA WithTaskKeeps ==
    ASSUME TaskInv, NEW label \in Labels, WithTask(label), DOMAIN tasks # TaskIds,
           selectedTask' = selectedTask
    PROVE  TaskInv'
<1> DEFINE id == NewId
           new == [label |-> label, parent |-> selectedTask, children |-> <<>>,
                   isExpanded |-> TRUE, isSelected |-> FALSE]
<1>1. TaskTree(tasks, taskRoots) /\ DOMAIN tasks \subseteq TaskIds
  BY DEF TaskInv, TaskTree
<1>2. id \in TaskIds \ DOMAIN tasks
  BY <1>1, NewIdIs
<1>3. NoTask \notin TaskIds /\ id # NoTask
  BY <1>2, NoTaskIsNone
<1>4. \A t \in DOMAIN tasks : tasks[t] \in TaskNode /\ tasks[t].isSelected = (t = selectedTask)
  BY <1>1 DEF TaskInv, TaskTree
<1>5. selectedTask \in DOMAIN tasks \cup {NoTask}
  BY DEF TaskInv
<1>6. new \in TaskNode
  BY <1>1, <1>5 DEF TaskNode
<1>7. CASE selectedTask = NoTask
  <2>1. /\ tasks' = [t \in DOMAIN tasks \cup {id} |-> IF t = id THEN new ELSE tasks[t]]
        /\ taskRoots' = Append(taskRoots, id)
    BY <1>7 DEF WithTask
  <2> HIDE DEF id
  <2>2. TaskTree(tasks', taskRoots')
    <3>1. /\ DOMAIN tasks' = DOMAIN tasks \cup {id}
          /\ tasks'[id] \in TaskNode /\ tasks'[id].parent = NoTask /\ tasks'[id].children = <<>>
      BY <1>6, <1>7, <2>1
    <3>2. \A t \in DOMAIN tasks :
              /\ tasks'[t] \in TaskNode
              /\ tasks'[t].parent = tasks[t].parent
              /\ tasks'[t].children = IF t = NoTask THEN Append(tasks[t].children, id)
                                      ELSE tasks[t].children
      BY <1>1, <1>2, <1>3, <1>4, <2>1
    <3>3. taskRoots' = IF NoTask = NoTask THEN Append(taskRoots, id) ELSE taskRoots
      BY <2>1
    <3>4. NoTask \in DOMAIN tasks \cup {NoTask}
      OBVIOUS
    <3>5. Grown(tasks, taskRoots, tasks', taskRoots', NoTask, id)
      BY <1>2, <3>1, <3>2, <3>3, <3>4 DEF Grown
    <3>6. QED
      BY <1>1, <3>5, GrownStands
  <2>3. \A t \in DOMAIN tasks' : tasks'[t].isSelected = (t = selectedTask')
    BY <1>2, <1>3, <1>4, <1>7, <2>1
  <2>4. QED
    BY <1>7, <2>2, <2>3 DEF TaskInv
<1>8. CASE selectedTask # NoTask /\ Len(tasks[selectedTask].children) >= MaxTaskChildren
  <2>1. tasks' = tasks /\ taskRoots' = taskRoots
    BY <1>8 DEF WithTask
  <2>2. QED
    BY <2>1 DEF TaskInv
<1>9. CASE selectedTask # NoTask /\ ~(Len(tasks[selectedTask].children) >= MaxTaskChildren)
  <2> DEFINE held == [tasks EXCEPT ![selectedTask].children = Append(@, id),
                                   ![selectedTask].isExpanded = TRUE]
  <2>1. /\ tasks' = [t \in DOMAIN held \cup {id} |-> IF t = id THEN new ELSE held[t]]
        /\ taskRoots' = taskRoots
    BY <1>9 DEF WithTask
  <2>2. selectedTask \in DOMAIN tasks
    BY <1>5, <1>9
  <2> HIDE DEF id
  <2>3. /\ DOMAIN held = DOMAIN tasks
        /\ \A t \in DOMAIN tasks : t # selectedTask => held[t] = tasks[t]
        /\ held[selectedTask] = [tasks[selectedTask] EXCEPT !.children = Append(@, id),
                                                            !.isExpanded = TRUE]
    BY <2>2
  <2> DEFINE h == held[selectedTask]
             list == tasks[selectedTask].children
  <2>4. /\ h \in TaskNode /\ h.parent = tasks[selectedTask].parent
        /\ h.children = Append(list, id) /\ h.isSelected = tasks[selectedTask].isSelected
    <3> DEFINE node == tasks[selectedTask]
    <3>1. node \in TaskNode /\ Append(node.children, id) \in Seq(TaskIds)
      BY <1>2, <1>4, <2>2 DEF TaskNode
    <3>2. h = [node EXCEPT !.children = Append(@, id), !.isExpanded = TRUE]
      BY <2>3
    <3> HIDE DEF node, h
    <3>3. h \in TaskNode /\ h.parent = node.parent /\ h.children = Append(node.children, id)
          /\ h.isSelected = node.isSelected
      BY <3>1, <3>2 DEF TaskNode
    <3>4. QED
      BY <3>3 DEF node
  <2> HIDE DEF held
  <2>5. TaskTree(tasks', taskRoots')
    <3>1. /\ DOMAIN tasks' = DOMAIN tasks \cup {id}
          /\ tasks'[id] \in TaskNode /\ tasks'[id].parent = selectedTask
          /\ tasks'[id].children = <<>>
      BY <1>6, <2>1, <2>3
    <3>2. \A t \in DOMAIN tasks :
              /\ tasks'[t] \in TaskNode
              /\ tasks'[t].parent = tasks[t].parent
              /\ tasks'[t].children = IF t = selectedTask THEN Append(tasks[t].children, id)
                                      ELSE tasks[t].children
      BY <1>2, <1>4, <2>1, <2>3, <2>4
    <3>3. taskRoots' = IF selectedTask = NoTask THEN Append(taskRoots, id) ELSE taskRoots
      BY <1>9, <2>1
    <3>4. Grown(tasks, taskRoots, tasks', taskRoots', selectedTask, id)
      BY <1>2, <1>5, <3>1, <3>2, <3>3 DEF Grown
    <3>5. QED
      BY <1>1, <3>4, GrownStands
  <2>6. ASSUME NEW t \in DOMAIN tasks' PROVE tasks'[t].isSelected = (t = selectedTask')
    <3>1. CASE t = id
      BY <1>2, <2>1, <2>2, <3>1
    <3>2. CASE t # id /\ t = selectedTask
      BY <1>4, <2>1, <2>2, <2>4, <3>2
    <3>3. CASE t # id /\ t # selectedTask
      BY <1>4, <2>1, <2>3, <2>6, <3>3
    <3>4. QED
      BY <3>1, <3>2, <3>3
  <2>7. selectedTask' \in DOMAIN tasks'
    BY <2>1, <2>2, <2>3
  <2>8. QED
    BY <2>5, <2>6, <2>7 DEF TaskInv
<1>10. QED
  BY <1>7, <1>8, <1>9

KidsOf(nodes) == [s \in DOMAIN nodes |-> ToSet(nodes[s].children)]

\* The children of a task are those whose parent it is.
LEMMA KidsAre ==
    ASSUME NEW nodes, NEW roots, TaskTree(nodes, roots), NEW s \in DOMAIN nodes
    PROVE  KidsOf(nodes)[s] = {c \in DOMAIN nodes : nodes[c].parent = s}
<1>1. nodes[s].children \in Seq(TaskIds) /\ s # NoTask
  BY NoTaskIsNone DEF TaskTree, TaskNode
<1>2. ListStands(nodes, roots, s) /\ ListOf(nodes, roots, s) = nodes[s].children
  BY <1>1 DEF TaskTree, ListOf
<1> DEFINE list == nodes[s].children
<1>3. /\ \A i \in 1..Len(list) : list[i] \in DOMAIN nodes /\ nodes[list[i]].parent = s
      /\ \A c \in DOMAIN nodes : nodes[c].parent = s => \E i \in 1..Len(list) : list[i] = c
  BY <1>2 DEF ListStands
<1>4. ToSet(list) = {list[i] : i \in 1..Len(list)}
  BY <1>1 DEF ToSet
<1>5. KidsOf(nodes)[s] = ToSet(list)
  BY DEF KidsOf
<1> HIDE DEF list
<1>6. QED
  BY <1>3, <1>4, <1>5

\* Below a task are the task and what hangs under it: of those that stay none
\* is a child of one that goes, and of those that go only the task itself is a
\* child of one that stays, or a root.
LEMMA SubtreeIs ==
    ASSUME NEW nodes, NEW roots, TaskTree(nodes, roots), NEW v \in DOMAIN nodes,
           NEW gone, gone = Reached(KidsOf(nodes), v)
    PROVE  /\ v \in gone /\ gone \subseteq DOMAIN nodes
           /\ \A c \in DOMAIN nodes : nodes[c].parent \in gone => c \in gone
           /\ \A c \in gone : nodes[c].parent \notin gone => c = v
           /\ nodes[v].parent \notin gone
<1> DEFINE kids == KidsOf(nodes)
<1>1. DOMAIN kids = DOMAIN nodes
  BY DEF KidsOf
<1>2. \A s \in DOMAIN nodes : kids[s] = {c \in DOMAIN nodes : nodes[c].parent = s}
  BY KidsAre
<1> HIDE DEF kids
<1>3. v \in gone /\ gone \subseteq DOMAIN nodes
  <2>1. v \in DOMAIN kids /\ gone = Reached(kids, v)
    BY <1>1 DEF kids
  <2>2. QED
    BY <1>1, <2>1, ReachedHolds
<1>4. \A m \in gone : kids[m] \subseteq gone
  <2>1. gone = Reached(kids, v)
    BY DEF kids
  <2>2. \A m \in gone : kids[m] \subseteq DOMAIN kids
    BY <1>1, <1>2, <1>3
  <2>3. QED
    BY <2>1, <2>2, ReachedClosed
<1>5. ASSUME NEW c \in DOMAIN nodes, nodes[c].parent \in gone PROVE c \in gone
  BY <1>2, <1>3, <1>4, <1>5
<1>6. ASSUME NEW c \in gone, nodes[c].parent \notin gone, c # v PROVE FALSE
  <2> DEFINE S == gone \ {c}
  <2>1. S \in SUBSET DOMAIN kids /\ v \in S
    BY <1>1, <1>3, <1>6
  <2>2. \A m \in S : kids[m] \subseteq S
    BY <1>2, <1>3, <1>4, <1>6
  <2> HIDE DEF S
  <2>3. Reached(kids, v) \subseteq S
    BY <2>1, <2>2, ReachedLeast
  <2>4. QED
    BY <1>6, <2>3 DEF S, kids
<1>7. nodes[v].parent \notin gone
  <2>1. PICK c \in gone : nodes[c].parent \notin gone
    BY <1>3 DEF TaskTree, RootedIn
  <2>2. QED
    BY <1>6, <2>1
<1>8. QED
  BY <1>3, <1>5, <1>6, <1>7

\* The tree without the subtree of v, v's list being what is left of it.
Cut(nodes, roots, after, afterRoots, v, gone, left) ==
    /\ DOMAIN after = DOMAIN nodes \ gone
    /\ afterRoots = IF nodes[v].parent = NoTask THEN left ELSE roots
    /\ \A t \in DOMAIN nodes \ gone :
           /\ after[t] \in TaskNode
           /\ after[t].parent = nodes[t].parent
           /\ after[t].children = IF t = nodes[v].parent THEN left ELSE nodes[t].children

\* What is left of the list of v.
LeftOf(list, v, left) ==
    /\ left \in Seq(TaskIds)
    /\ Distinct(left)
    /\ \A j \in 1..Len(left) : \E k \in 1..Len(list) : left[j] = list[k] /\ list[k] # v
    /\ \A k \in 1..Len(list) : list[k] # v => \E j \in 1..Len(left) : left[j] = list[k]

LEMMA CutStands ==
    ASSUME NEW nodes, NEW roots, NEW after, NEW afterRoots, NEW v \in DOMAIN nodes,
           NEW gone, NEW left, TaskTree(nodes, roots), gone = Reached(KidsOf(nodes), v),
           LeftOf(ListOf(nodes, roots, nodes[v].parent), v, left),
           Cut(nodes, roots, after, afterRoots, v, gone, left)
    PROVE  TaskTree(after, afterRoots)
<1> USE DEF Cut
<1>1. /\ DOMAIN nodes \subseteq TaskIds /\ roots \in Seq(TaskIds)
      /\ \A t \in DOMAIN nodes : nodes[t] \in TaskNode
      /\ \A t \in DOMAIN nodes : nodes[t].parent \in DOMAIN nodes \cup {NoTask}
      /\ \A q \in DOMAIN nodes \cup {NoTask} : ListStands(nodes, roots, q)
      /\ RootedIn(nodes)
  BY DEF TaskTree
<1>2. NoTask \notin DOMAIN nodes
  BY <1>1, NoTaskIsNone
<1>3. /\ v \in gone /\ gone \subseteq DOMAIN nodes
      /\ \A c \in DOMAIN nodes : nodes[c].parent \in gone => c \in gone
      /\ \A c \in gone : nodes[c].parent \notin gone => c = v
      /\ nodes[v].parent \notin gone
  BY SubtreeIs
<1>4. \A q \in (DOMAIN nodes \ gone) \cup {NoTask} :
          ListOf(after, afterRoots, q) =
              IF q = nodes[v].parent THEN left ELSE ListOf(nodes, roots, q)
  BY <1>2, <1>3 DEF ListOf
<1>5. ASSUME NEW q \in (DOMAIN nodes \ gone) \cup {NoTask}, q # nodes[v].parent
      PROVE  ListStands(after, afterRoots, q)
  <2> DEFINE list == ListOf(nodes, roots, q)
  <2>1. ListOf(after, afterRoots, q) = list /\ q \notin gone
    BY <1>2, <1>3, <1>4, <1>5
  <2>2. /\ Distinct(list)
        /\ \A i \in 1..Len(list) : list[i] \in DOMAIN nodes /\ nodes[list[i]].parent = q
        /\ \A c \in DOMAIN nodes : nodes[c].parent = q => \E i \in 1..Len(list) : list[i] = c
    BY <1>1 DEF ListStands
  <2> HIDE DEF list
  <2>3. ASSUME NEW i \in 1..Len(list)
        PROVE  list[i] \in DOMAIN after /\ after[list[i]].parent = q
    <3>1. list[i] \notin gone
      BY <1>3, <1>5, <2>1, <2>2
    <3>2. QED
      BY <2>2, <3>1
  <2>4. \A c \in DOMAIN after : after[c].parent = q => \E i \in 1..Len(list) : list[i] = c
    BY <2>2
  <2>5. QED
    BY <2>1, <2>2, <2>3, <2>4 DEF ListStands
<1>6. ListStands(after, afterRoots, nodes[v].parent)
  <2> DEFINE p == nodes[v].parent
             list == ListOf(nodes, roots, p)
  <2>1. ListOf(after, afterRoots, p) = left /\ p \in DOMAIN nodes \cup {NoTask} /\ p \notin gone
    BY <1>1, <1>3, <1>4
  <2>2. /\ Distinct(list)
        /\ \A i \in 1..Len(list) : list[i] \in DOMAIN nodes /\ nodes[list[i]].parent = p
        /\ \A c \in DOMAIN nodes : nodes[c].parent = p => \E i \in 1..Len(list) : list[i] = c
    BY <1>1, <2>1 DEF ListStands
  <2>3. LeftOf(list, v, left)
    OBVIOUS
  <2> HIDE DEF p, list
  <2>4. ASSUME NEW i \in 1..Len(left)
        PROVE  left[i] \in DOMAIN after /\ after[left[i]].parent = p
    <3>1. PICK k \in 1..Len(list) : left[i] = list[k] /\ list[k] # v
      BY <2>3 DEF LeftOf
    <3>2. list[k] \notin gone
      BY <1>3, <2>1, <2>2, <3>1
    <3>3. QED
      BY <2>2, <3>1, <3>2
  <2>5. ASSUME NEW c \in DOMAIN after, after[c].parent = p
        PROVE  \E i \in 1..Len(left) : left[i] = c
    <3>1. PICK k \in 1..Len(list) : list[k] = c
      BY <2>2, <2>5
    <3>2. c # v
      BY <1>3
    <3>3. QED
      BY <2>3, <3>1, <3>2 DEF LeftOf
  <2>6. Distinct(left)
    BY <2>3 DEF LeftOf
  <2>7. ListStands(after, afterRoots, p)
    BY <2>1, <2>4, <2>5, <2>6 DEF ListStands
  <2>8. QED
    BY <2>7 DEF p
<1>7. RootedIn(after)
  BY <1>1 DEF RootedIn
<1>8. afterRoots \in Seq(TaskIds)
  BY <1>1 DEF LeftOf
<1>9. \A t \in DOMAIN after : after[t].parent \in DOMAIN after \cup {NoTask}
  BY <1>1, <1>3
<1>10. \A q \in DOMAIN after \cup {NoTask} : ListStands(after, afterRoots, q)
  BY <1>5, <1>6
<1>11. QED
  BY <1>1, <1>7, <1>8, <1>9, <1>10 DEF TaskTree

LEMMA WithoutSelectedKeeps ==
    ASSUME TaskInv, WithoutSelected, selectedTask # NoTask
    PROVE  TaskInv'
<1> DEFINE v == selectedTask
           p == tasks[v].parent
           list == Siblings(v)
           at == CHOOSE i \in DOMAIN list : list[i] = v
           left == RemoveAt(list, at)
           next == IF left = <<>> THEN NoTask ELSE left[IF at <= Len(left) THEN at ELSE Len(left)]
           gone == Subtree(v)
<1>1. /\ tasks' = [t \in DOMAIN tasks \ gone |->
                      IF t = p THEN [tasks[t] EXCEPT !.children = left]
                      ELSE IF t = next THEN [tasks[t] EXCEPT !.isSelected = TRUE]
                      ELSE tasks[t]]
      /\ taskRoots' = IF p = NoTask THEN left ELSE taskRoots
      /\ selectedTask' = next
  BY Zenon DEF WithoutSelected
<1>2. /\ TaskTree(tasks, taskRoots) /\ v \in DOMAIN tasks
      /\ \A t \in DOMAIN tasks : tasks[t] \in TaskNode /\ tasks[t].isSelected = (t = v)
  BY DEF TaskInv, TaskTree
<1>3. list = ListOf(tasks, taskRoots, p)
  BY DEF Siblings, ListOf
<1>4. gone = Reached(KidsOf(tasks), v)
  BY DEF Subtree, KidsOf
<1>5. /\ v \in gone /\ gone \subseteq DOMAIN tasks /\ p \notin gone
      /\ \A c \in gone : tasks[c].parent \notin gone => c = v
  BY <1>2, <1>4, SubtreeIs
<1>6. /\ p \in DOMAIN tasks \cup {NoTask} /\ NoTask \notin DOMAIN tasks /\ p # v
  BY <1>2, NoTaskIsNone, NotOwnParent DEF TaskTree
<1> HIDE DEF gone, next, p
<1>7. /\ list \in Seq(TaskIds) /\ Distinct(list)
      /\ \A i \in 1..Len(list) : list[i] \in DOMAIN tasks /\ tasks[list[i]].parent = p
      /\ \E i \in 1..Len(list) : list[i] = v
  <2>1. list \in Seq(TaskIds)
    BY <1>2, <1>3, <1>6 DEF ListOf, TaskNode, TaskTree
  <2>2. ListStands(tasks, taskRoots, p)
    BY <1>2, <1>6 DEF TaskTree
  <2>3. QED
    BY <1>2, <1>3, <2>1, <2>2 DEF ListStands, p
<1> HIDE DEF list, v
<1>8. at \in 1..Len(list) /\ list[at] = v
  <2>1. DOMAIN list = 1..Len(list)
    BY <1>7
  <2>2. QED
    BY <1>7, <2>1
<1> HIDE DEF at
<1>9. LeftOf(list, v, left)
  <2>1. /\ left \in Seq(TaskIds)
        /\ Distinct(left)
        /\ \A j \in 1..Len(left) : \E k \in 1..Len(list) : left[j] = list[k] /\ k # at
        /\ \A k \in 1..Len(list) : k # at => \E j \in 1..Len(left) : left[j] = list[k]
    BY <1>7, <1>8, RemoveAtKeeps
  <2>2. \A k \in 1..Len(list) : list[k] = v <=> k = at
    BY <1>7, <1>8 DEF Distinct
  <2> HIDE DEF left
  <2>3. QED
    BY <2>1, <2>2 DEF LeftOf
<1> HIDE DEF left
<1>10. left \in Seq(TaskIds) /\ Len(left) \in Nat
  BY <1>9, LenProperties DEF LeftOf
<1>11. Cut(tasks, taskRoots, tasks', taskRoots', v, gone, left)
  <2>1. DOMAIN tasks' = DOMAIN tasks \ gone
    BY <1>1
  <2>2. ASSUME NEW t \in DOMAIN tasks \ gone
        PROVE  /\ tasks'[t] \in TaskNode
               /\ tasks'[t].parent = tasks[t].parent
               /\ tasks'[t].children = IF t = p THEN left ELSE tasks[t].children
    BY <1>1, <1>2, <1>10 DEF TaskNode
  <2>3. QED
    BY <1>1, <2>1, <2>2 DEF Cut, p
<1>12. TaskTree(tasks', taskRoots')
  <2>1. LeftOf(ListOf(tasks, taskRoots, tasks[v].parent), v, left)
    BY <1>3, <1>9 DEF p
  <2>2. QED
    BY <1>2, <1>4, <1>11, <2>1, CutStands
<1>13. (next \in DOMAIN tasks \ gone /\ next # p) \/ next = NoTask
  <2>1. CASE left = <<>>
    BY <2>1 DEF next
  <2>2. CASE left # <<>>
    <3>1. Len(left) # 0
      BY <1>10, <2>2, EmptySeq
    <3>2. PICK j \in 1..Len(left) : next = left[j]
      <4>1. (IF at <= Len(left) THEN at ELSE Len(left)) \in 1..Len(left)
        BY <1>7, <1>8, <1>10, <3>1, LenProperties
      <4>2. QED
        BY <2>2, <4>1 DEF next
    <3>3. PICK k \in 1..Len(list) : next = list[k] /\ list[k] # v
      BY <1>9, <3>2 DEF LeftOf
    <3>4. next \in DOMAIN tasks /\ tasks[next].parent = p /\ next # v
      BY <1>7, <3>3
    <3>5. next \notin gone /\ next # p
      BY <1>2, <1>5, <3>4, NotOwnParent DEF TaskTree
    <3>6. QED
      BY <3>4, <3>5
  <2>3. QED
    BY <2>1, <2>2
<1>14. ASSUME NEW t \in DOMAIN tasks' PROVE tasks'[t].isSelected = (t = selectedTask')
  <2>1. t \in DOMAIN tasks /\ t \notin gone /\ t # v /\ t # NoTask
    BY <1>1, <1>5, <1>6, <1>14
  <2>2. tasks[t] \in TaskNode /\ tasks[t].isSelected = FALSE
    BY <1>2, <2>1
  <2>3. CASE t = p
    <3>1. tasks'[t] = [tasks[t] EXCEPT !.children = left] /\ t # next
      BY <1>1, <1>13, <2>1, <2>3
    <3>2. QED
      BY <1>1, <2>2, <3>1 DEF TaskNode
  <2>4. CASE t # p /\ t = next
    <3>1. tasks'[t] = [tasks[t] EXCEPT !.isSelected = TRUE]
      BY <1>1, <2>1, <2>4
    <3>2. QED
      BY <1>1, <2>2, <2>4, <3>1 DEF TaskNode
  <2>5. CASE t # p /\ t # next
    BY <1>1, <2>1, <2>2, <2>5
  <2>6. QED
    BY <2>3, <2>4, <2>5
<1>15. selectedTask' \in DOMAIN tasks' \cup {NoTask}
  BY <1>1, <1>13
<1>16. QED
  BY <1>12, <1>14, <1>15 DEF TaskInv

LEMMA RunTaskCommandKeeps ==
    ASSUME TaskInv, RunTaskCommand
    PROVE  TaskInv'
<1>1. \/ /\ DOMAIN tasks # TaskIds /\ WithTask("New Task") /\ selectedTask' = selectedTask
      \/ selectedTask # NoTask /\ WithoutSelected
      \/ UNCHANGED <<tasks, taskRoots, selectedTask>>
  <2>1. CASE Head(taskCommands) = "add"
    BY <2>1 DEF RunTaskCommand
  <2>2. CASE Head(taskCommands) = "delete" /\ selectedTask # NoTask
    <3>1. Head(taskCommands) # "add" /\ Head(taskCommands) # "rename"
      BY <2>2
    <3>2. QED
      BY <2>2, <3>1 DEF RunTaskCommand
  <2>3. CASE Head(taskCommands) = "rename" /\ selectedTask # NoTask
    <3>1. Head(taskCommands) # "add" /\ Head(taskCommands) # "delete"
      BY <2>3
    <3>2. QED
      BY <2>3, <3>1 DEF RunTaskCommand
  <2>4. CASE ~ (\/ Head(taskCommands) = "add"
                \/ Head(taskCommands) = "delete" /\ selectedTask # NoTask
                \/ Head(taskCommands) = "rename" /\ selectedTask # NoTask)
    BY <2>4 DEF RunTaskCommand
  <2>5. QED
    BY <2>1, <2>2, <2>3, <2>4
<1>2. CASE DOMAIN tasks # TaskIds /\ WithTask("New Task") /\ selectedTask' = selectedTask
  <2>1. "New Task" \in Labels
    BY DEF Labels
  <2>2. QED
    BY <1>2, <2>1, WithTaskKeeps
<1>3. CASE selectedTask # NoTask /\ WithoutSelected
  BY <1>3, WithoutSelectedKeeps
<1>4. CASE UNCHANGED <<tasks, taskRoots, selectedTask>>
  BY <1>4 DEF TaskInv
<1>5. QED
  BY <1>1, <1>2, <1>3, <1>4

LEMMA TasksStep ==
    ASSUME TaskInv, [TasksNext]_taskVars
    PROVE  TaskInv'
<1>1. CASE ClickBesideTasks
  BY <1>1, ClickBesideTasksKeeps
<1>2. CASE AddButton
  <2>1. "" \in Labels
    BY DEF Labels
  <2>2. WithTask("") /\ DOMAIN tasks # TaskIds /\ selectedTask' = selectedTask
    BY <1>2 DEF AddButton
  <2>3. QED
    BY <2>1, <2>2, WithTaskKeeps
<1>3. CASE RemoveButton
  BY <1>3, WithoutSelectedKeeps DEF RemoveButton
<1>4. CASE \E t \in TaskIds : ClickTask(t)
  BY <1>4, ClickTaskKeeps
<1>5. CASE \E t \in TaskIds : ClickExpand(t)
  BY <1>5, ClickExpandKeeps
<1>6. CASE RunTaskCommand
  BY <1>6, RunTaskCommandKeeps
<1>7. CASE \E name \in TaskNames : SubmitTaskName(name)
  BY <1>7, SubmitTaskNameKeeps
<1>8. CASE StartTasks
  BY <1>8, StartTasksKeeps
<1>9. CASE \E command \in {"add", "rename", "delete"} : TaskKey(command)
  BY <1>9 DEF TaskInv, TaskKey
<1>10. CASE CancelTaskName \/ SubmitFreedTask \/ \E hidden \in BOOLEAN : EndTasks(hidden)
  BY <1>10 DEF TaskInv, CancelTaskName, SubmitFreedTask, EndTasks
<1>11. CASE UNCHANGED taskVars
  BY <1>11 DEF TaskInv, taskVars
<1>12. QED
  BY <1>1, <1>2, <1>3, <1>4, <1>5, <1>6, <1>7, <1>8, <1>9, <1>10, <1>11 DEF TasksNext

\* The tree of tasks, as its reader knows it: every task is once in one list.
LEMMA TreeHolds ==
    ASSUME TaskInv
    PROVE  TasksStand
<1>1. TaskTree(tasks, taskRoots) /\ NoTask \notin DOMAIN tasks
  BY NoTaskIsNone DEF TaskInv, TaskTree
<1>2. /\ \A p \in DOMAIN tasks \cup {NoTask} :
             /\ ListOf(tasks, taskRoots, p) \in Seq(TaskIds)
             /\ DOMAIN ListOf(tasks, taskRoots, p) = 1..Len(ListOf(tasks, taskRoots, p))
             /\ ListStands(tasks, taskRoots, p)
      /\ \A t \in DOMAIN tasks : tasks[t].parent \in DOMAIN tasks \cup {NoTask}
  BY <1>1 DEF TaskTree, ListOf, TaskNode
<1>3. ASSUME NEW t \in DOMAIN tasks
      PROVE  Cardinality({i \in DOMAIN Siblings(t) : Siblings(t)[i] = t}) = 1
  <2> DEFINE list == Siblings(t)
  <2>1. list = ListOf(tasks, taskRoots, tasks[t].parent)
    BY DEF Siblings, ListOf
  <2>2. DOMAIN list = 1..Len(list) /\ Distinct(list) /\ \E i \in 1..Len(list) : list[i] = t
    BY <1>2, <2>1 DEF ListStands
  <2> HIDE DEF list
  <2>3. PICK i \in DOMAIN list : list[i] = t
    BY <2>2
  <2>4. {j \in DOMAIN list : list[j] = t} = {i}
    BY <2>2, <2>3 DEF Distinct
  <2>5. Cardinality({i}) = 1
    BY FS_Singleton
  <2>6. QED
    BY <2>4, <2>5 DEF list
<1>4. ToSet(taskRoots) \cup UNION {ToSet(tasks[t].children) : t \in DOMAIN tasks} = DOMAIN tasks
  <2>1. /\ ListOf(tasks, taskRoots, NoTask) = taskRoots
        /\ \A t \in DOMAIN tasks : ListOf(tasks, taskRoots, t) = tasks[t].children
    BY <1>1 DEF ListOf
  <2>2. ASSUME NEW p \in DOMAIN tasks \cup {NoTask}
        PROVE  ToSet(ListOf(tasks, taskRoots, p)) \subseteq DOMAIN tasks
    <3> DEFINE list == ListOf(tasks, taskRoots, p)
    <3>1. DOMAIN list = 1..Len(list) /\ \A i \in 1..Len(list) : list[i] \in DOMAIN tasks
      BY <1>2 DEF ListStands
    <3> HIDE DEF list
    <3>2. ToSet(list) \subseteq DOMAIN tasks
      BY <3>1 DEF ToSet
    <3>3. QED
      BY <3>2 DEF list
  <2>3. ASSUME NEW t \in DOMAIN tasks
        PROVE  t \in ToSet(ListOf(tasks, taskRoots, tasks[t].parent))
    <3> DEFINE list == ListOf(tasks, taskRoots, tasks[t].parent)
    <3>1. DOMAIN list = 1..Len(list) /\ \E i \in 1..Len(list) : list[i] = t
      BY <1>2 DEF ListStands
    <3> HIDE DEF list
    <3>2. t \in ToSet(list)
      BY <3>1 DEF ToSet
    <3>3. QED
      BY <3>2 DEF list
  <2>4. ToSet(taskRoots) \subseteq DOMAIN tasks
        /\ \A t \in DOMAIN tasks : ToSet(tasks[t].children) \subseteq DOMAIN tasks
    BY <2>1, <2>2
  <2>5. ASSUME NEW t \in DOMAIN tasks
        PROVE  t \in ToSet(taskRoots) \/ \E p \in DOMAIN tasks : t \in ToSet(tasks[p].children)
    <3>1. tasks[t].parent \in DOMAIN tasks \cup {NoTask}
      BY <1>2
    <3>2. QED
      BY <2>1, <2>3, <3>1
  <2>6. QED
    BY <2>4, <2>5
<1>5. {t \in DOMAIN tasks : tasks[t].isSelected} = {selectedTask} \ {NoTask}
  BY <1>1 DEF TaskInv
<1>6. QED
  BY <1>3, <1>4, <1>5 DEF TasksStand

\* Tasks added under one another, renamed and freed with all they hold:
\* every task left is in exactly one list, its parent's, and the selected task is
\* the one that commands act on (tool_tasks.c, command_tool_tasks.c).
THEOREM TasksAlwaysStand == TasksSpec => []TasksStand
<1>1. TasksInit => TaskInv
  BY TasksInitStands
<1>2. TaskInv /\ [TasksNext]_taskVars => TaskInv'
  BY TasksStep
<1>3. TaskInv => TasksStand
  BY TreeHolds
<1>4. QED
  BY <1>1, <1>2, <1>3, PTL DEF TasksSpec

-----------------------------------------------------------------------------
-----------------------------------------------------------------------------
(* The project panel (ProjectPanel).                                       *)

FileNames == Seq(Names)

LEMMA NoPaths ==
    /\ Top \in FileNames
    /\ Nothing \notin FileNames /\ Freed \notin FileNames /\ Truncated \notin FileNames
    /\ Nothing # Freed /\ Nothing # Truncated
<1>1. /\ Len(Nothing) = 1 /\ Nothing[1] = "nothing"
      /\ Len(Freed) = 1 /\ Freed[1] = "freed"
      /\ Len(Truncated) = 1 /\ Truncated[1] = "truncated"
  BY DEF Nothing, Freed, Truncated
<1>2. "nothing" \notin Names /\ "freed" \notin Names /\ "truncated" \notin Names
  BY ProjectAssumption
<1>3. \A s \in FileNames : Len(s) = 1 => s[1] \in Names
  <2>1. ASSUME NEW s \in FileNames, Len(s) = 1 PROVE s[1] \in Names
    BY <2>1 DEF FileNames
  <2>2. QED
    BY <2>1
<1>4. Nothing \notin FileNames
  BY <1>1, <1>2, <1>3, Zenon
<1>5. Freed \notin FileNames
  BY <1>1, <1>2, <1>3, Zenon
<1>6. Truncated \notin FileNames
  BY <1>1, <1>2, <1>3, Zenon
<1>7. Nothing # Freed /\ Nothing # Truncated
  <2>1. "nothing" # "freed" /\ "nothing" # "truncated"
    OBVIOUS
  <2>2. QED
    BY <1>1, <2>1, Zenon
<1>8. Top \in FileNames
  BY DEF Top, FileNames
<1>9. QED
  BY <1>4, <1>5, <1>6, <1>7, <1>8

\* A path that is not the workspace has a last name and a path above it.
LEMMA FrontIs ==
    ASSUME NEW s \in FileNames, s # Top
    PROVE  /\ Len(s) \in Nat \ {0} /\ Last(s) \in Names
           /\ Front(s) \in FileNames /\ Len(Front(s)) = Len(s) - 1
           /\ \A i \in 1..(Len(s) - 1) : Front(s)[i] = s[i]
<1>1. s \in Seq(Names) /\ s # <<>>
  BY DEF FileNames, Top
<1>2. Len(s) \in Nat /\ Len(s) # 0
  BY <1>1, EmptySeq, LenProperties
<1> DEFINE n == Len(s)
<1>3. \A i \in 1..n : s[i] \in Names
  BY <1>1, ElementOfSeq
<1>4. n \in 1..n /\ \A i \in 1..(n - 1) : s[i] \in Names
  BY <1>2, <1>3
<1> DEFINE f == SubSeq(s, 1, n - 1)
<1>5. f \in Seq(Names) /\ Len(f) = n - 1 /\ \A i \in 1..(n - 1) : f[i] = s[i]
  <2> DEFINE m == n - 1
  <2>1. m \in Nat /\ \A i \in 1..m : s[i] \in Names
    BY <1>2, <1>4
  <2> HIDE DEF n, m
  <2>2. /\ SubSeq(s, 1, m) \in Seq(Names) /\ Len(SubSeq(s, 1, m)) = m
        /\ \A i \in 1..m : SubSeq(s, 1, m)[i] = s[i]
    BY <1>1, <2>1
  <2>3. QED
    BY <2>2 DEF m
<1>6. Front(s) = f /\ Last(s) = s[n]
  BY DEF Front, Last
<1> HIDE DEF n, f
<1>7. n \in Nat \ {0}
  BY <1>2 DEF n
<1>8. QED
  BY <1>3, <1>4, <1>5, <1>6, <1>7 DEF n, FileNames

LEMMA AppendIs ==
    ASSUME NEW s \in FileNames, NEW n \in Names
    PROVE  /\ Append(s, n) \in FileNames /\ Append(s, n) # Top
           /\ Front(Append(s, n)) = s
<1>1. /\ Append(s, n) \in Seq(Names) /\ Len(Append(s, n)) = Len(s) + 1 /\ Len(s) \in Nat
      /\ \A i \in 1..Len(s) : Append(s, n)[i] = s[i]
  BY DEF FileNames
<1>2. Append(s, n) # Top
  BY <1>1 DEF Top
<1> DEFINE a == Append(s, n)
<1> HIDE DEF a
<1>3. /\ Front(a) \in Seq(Names) /\ Len(Front(a)) = Len(s)
      /\ \A i \in 1..Len(s) : Front(a)[i] = s[i]
  <2>1. a \in FileNames /\ a # Top /\ Len(a) = Len(s) + 1
    BY <1>1, <1>2 DEF a, FileNames
  <2>2. /\ Front(a) \in FileNames /\ Len(Front(a)) = Len(a) - 1
        /\ \A i \in 1..(Len(a) - 1) : Front(a)[i] = a[i]
    BY <2>1, FrontIs
  <2>3. Len(s) \in Nat /\ Len(a) - 1 = Len(s) /\ \A i \in 1..Len(s) : a[i] = s[i]
    BY <1>1, <2>1 DEF a
  <2>4. QED
    BY <2>2, <2>3 DEF FileNames
<1>4. Front(a) = s
  <2>1. Front(a) \in Seq(Names) /\ s \in Seq(Names)
    BY <1>3 DEF FileNames
  <2>2. QED
    BY <1>3, <2>1, SeqEqual
<1>5. QED
  BY <1>1, <1>2, <1>4 DEF a, FileNames

LEMMA PrefixIs ==
    ASSUME NEW s \in FileNames, NEW t \in FileNames
    PROVE  /\ IsPrefix(s, t) <=> Len(s) <= Len(t) /\ \A i \in 1..Len(s) : s[i] = t[i]
           /\ IsPrefix(s, t) /\ Len(s) = Len(t) => s = t
<1>1. s \in Seq(Names) /\ t \in Seq(Names) /\ Len(s) \in Nat /\ Len(t) \in Nat
  BY DEF FileNames
<1>2. SubSeq(s, 1, Len(s)) = s
  BY <1>1
<1>3. ASSUME Len(s) <= Len(t)
      PROVE  /\ SubSeq(t, 1, Len(s)) \in Seq(Names) /\ Len(SubSeq(t, 1, Len(s))) = Len(s)
             /\ \A i \in 1..Len(s) : SubSeq(t, 1, Len(s))[i] = t[i]
  BY <1>1, <1>3
<1>4. ASSUME Len(s) <= Len(t)
      PROVE  SubSeq(t, 1, Len(s)) = s <=> \A i \in 1..Len(s) : s[i] = t[i]
  <2> DEFINE u == SubSeq(t, 1, Len(s))
  <2>1. u \in Seq(Names) /\ Len(u) = Len(s) /\ \A i \in 1..Len(s) : u[i] = t[i]
    BY <1>3, <1>4
  <2> HIDE DEF u
  <2>2. u = s <=> \A i \in 1..Len(s) : u[i] = s[i]
    BY <1>1, <2>1, SeqEqual
  <2>3. QED
    BY <2>1, <2>2 DEF u
<1>5. IsPrefix(s, t) <=> Len(s) <= Len(t) /\ SubSeq(t, 1, Len(s)) = s
  BY <1>2 DEF IsPrefix
<1>6. Len(s) = Len(t) /\ (\A i \in 1..Len(s) : s[i] = t[i]) => s = t
  BY <1>1, SeqEqual
<1>7. QED
  BY <1>4, <1>5, <1>6

\* The path above a path is before it, and nothing else is between.
LEMMA PrefixOfFront ==
    ASSUME NEW s \in FileNames, NEW t \in FileNames, t # Top
    PROVE  /\ IsPrefix(s, Front(t)) => IsPrefix(s, t) /\ s # t
           /\ IsPrefix(s, t) /\ s # t => IsPrefix(s, Front(t))
           /\ IsPrefix(Front(t), t) /\ Front(t) # t
<1>1. /\ Front(t) \in FileNames /\ Len(Front(t)) = Len(t) - 1
      /\ \A i \in 1..(Len(t) - 1) : Front(t)[i] = t[i]
      /\ Len(s) \in Nat /\ Len(t) \in Nat
  BY FrontIs DEF FileNames
<1>2. /\ IsPrefix(s, t) <=> Len(s) <= Len(t) /\ \A i \in 1..Len(s) : s[i] = t[i]
      /\ IsPrefix(s, t) /\ Len(s) = Len(t) => s = t
  BY PrefixIs
<1> DEFINE f == Front(t)
<1>3. IsPrefix(s, f) <=> Len(s) <= Len(f) /\ \A i \in 1..Len(s) : s[i] = f[i]
  BY <1>1, PrefixIs
<1>4. IsPrefix(f, t) <=> Len(f) <= Len(t) /\ \A i \in 1..Len(f) : f[i] = t[i]
  BY <1>1, PrefixIs
<1> HIDE DEF f
<1>5. IsPrefix(s, f) => IsPrefix(s, t) /\ s # t
  BY <1>1, <1>2, <1>3 DEF f
<1>6. IsPrefix(s, t) /\ s # t => IsPrefix(s, f)
  BY <1>1, <1>2, <1>3 DEF f
<1>7. IsPrefix(f, t) /\ f # t
  BY <1>1, <1>4 DEF f
<1>8. QED
  BY <1>5, <1>6, <1>7 DEF f

DiskKinds == {"folder", "plain", "program"}

\* A disk: every entry is in a folder.
DiskStands(d) ==
    /\ Top \in DOMAIN d /\ d[Top] = "folder"
    /\ \A p \in DOMAIN d : p \in FileNames /\ d[p] \in DiskKinds
    /\ \A p \in DOMAIN d : p # Top => Front(p) \in DOMAIN d /\ d[Front(p)] = "folder"

LEMMA CreatedStands ==
    ASSUME DiskStands(disk), NEW p \in FileNames, p # Top, p \notin DOMAIN disk,
           IsFolder(Front(p)), NEW kind \in DiskKinds
    PROVE  DiskStands(Created(p, kind))
<1> DEFINE d == Created(p, kind)
<1>1. /\ DOMAIN d = DOMAIN disk \cup {p} /\ d[p] = kind
      /\ \A q \in DOMAIN disk : d[q] = disk[q]
  BY DEF Created
<1>2. Front(p) \in DOMAIN disk /\ disk[Front(p)] = "folder"
  BY DEF IsFolder
<1> HIDE DEF d
<1>3. QED
  BY <1>1, <1>2 DEF DiskStands, d

LEMMA RemovedStands ==
    ASSUME DiskStands(disk), NEW gone, Top \notin gone,
           \A q \in DOMAIN disk : q # Top /\ Front(q) \in gone => q \in gone
    PROVE  DiskStands(Removed(gone))
BY DEF DiskStands, Removed

LEMMA InsideIs ==
    ASSUME DiskStands(disk), NEW p \in FileNames
    PROVE  /\ Top \notin Inside(p)
           /\ \A q \in DOMAIN disk : q # Top /\ Front(q) \in {p} \cup Inside(p) => q \in Inside(p)
<1>1. Inside(p) = {q \in DOMAIN disk : IsPrefix(p, q) /\ p # q}
  BY DEF Inside, IsStrictPrefix
<1>2. Top \notin Inside(p)
  <2>1. SUFFICES ASSUME IsPrefix(p, Top) PROVE p = Top
    BY <1>1
  <2>2. Len(Top) = 0 /\ Top \in FileNames /\ Len(p) \in Nat
    BY NoPaths DEF Top, FileNames
  <2>3. Len(p) = Len(Top)
    BY <2>1, <2>2, PrefixIs
  <2>4. QED
    BY <2>1, <2>2, <2>3, PrefixIs
<1>3. ASSUME NEW q \in DOMAIN disk, q # Top, Front(q) \in {p} \cup Inside(p) PROVE q \in Inside(p)
  <2>1. q \in FileNames /\ Front(q) \in FileNames
    BY <1>3, FrontIs DEF DiskStands
  <2>2. IsPrefix(p, Front(q))
    <3>1. CASE Front(q) = p
      <4>1. \A i \in 1..Len(p) : p[i] = p[i]
        OBVIOUS
      <4>2. Len(p) <= Len(p)
        BY DEF FileNames
      <4>3. QED
        BY <3>1, <4>1, <4>2, PrefixIs
    <3>2. CASE Front(q) # p
      BY <1>1, <1>3, <3>2
    <3>3. QED
      BY <3>1, <3>2
  <2>3. IsPrefix(p, q) /\ p # q
    BY <1>3, <2>1, <2>2, PrefixOfFront
  <2>4. QED
    BY <1>1, <2>3
<1>4. QED
  BY <1>2, <1>3

LEMMA RemovedBelowStands ==
    ASSUME DiskStands(disk), NEW p \in FileNames, p # Top
    PROVE  DiskStands(Removed({p} \cup Inside(p)))
<1> DEFINE gone == {p} \cup Inside(p)
<1>1. Top \notin gone
  BY InsideIs
<1>2. \A q \in DOMAIN disk : q # Top /\ Front(q) \in gone => q \in gone
  BY InsideIs
<1> HIDE DEF gone
<1>3. DiskStands(Removed(gone))
  BY <1>1, <1>2, RemovedStands
<1>4. QED
  BY <1>3 DEF gone

\* Part of a folder is gone, and of what is gone everything inside.
LEMMA RemovedPartStands ==
    ASSUME DiskStands(disk), NEW p \in FileNames, NEW gone, gone \subseteq Inside(p),
           \A q \in gone : Inside(q) \subseteq gone
    PROVE  DiskStands(Removed(gone))
<1>1. Top \notin gone
  BY InsideIs
<1>2. ASSUME NEW q \in DOMAIN disk, q # Top, Front(q) \in gone PROVE q \in gone
  <2>1. Front(q) \in FileNames
    BY <1>2 DEF Inside, DiskStands
  <2>2. q \in Inside(Front(q))
    BY <1>2, <2>1, InsideIs
  <2>3. QED
    BY <1>2, <2>2
<1>3. QED
  BY <1>1, <1>2, RemovedStands

\* What is before an entry is an entry.
LEMMA PrefixStands ==
    ASSUME DiskStands(disk), NEW p \in DOMAIN disk, NEW q \in FileNames, IsPrefix(q, p)
    PROVE  q \in DOMAIN disk
<1> DEFINE S == {n \in Nat : \A r \in DOMAIN disk :
                               Len(r) = n /\ IsPrefix(q, r) => q \in DOMAIN disk}
<1>1. \A r \in DOMAIN disk : r \in FileNames /\ Len(r) \in Nat
  BY DEF DiskStands, FileNames
<1>2. 0 \in S
  <2>1. ASSUME NEW r \in DOMAIN disk, Len(r) = 0, IsPrefix(q, r) PROVE q \in DOMAIN disk
    <3>1. Len(q) \in Nat /\ Len(q) <= Len(r)
      BY <1>1, <2>1, PrefixIs DEF FileNames
    <3>2. q = r
      BY <1>1, <2>1, <3>1, PrefixIs
    <3>3. QED
      BY <3>2
  <2>2. QED
    BY <2>1
<1>3. ASSUME NEW n \in Nat, n \in S PROVE n + 1 \in S
  <2>1. ASSUME NEW r \in DOMAIN disk, Len(r) = n + 1, IsPrefix(q, r) PROVE q \in DOMAIN disk
    <3>1. CASE q = r
      BY <3>1
    <3>2. CASE q # r
      <4>1. r # Top
        BY <2>1 DEF Top
      <4>2. IsPrefix(q, Front(r)) /\ Front(r) \in DOMAIN disk /\ Len(Front(r)) = n
        BY <1>1, <2>1, <3>2, <4>1, PrefixOfFront, FrontIs DEF DiskStands
      <4>3. QED
        BY <1>3, <4>2
    <3>3. QED
      BY <3>1, <3>2
  <2>2. QED
    BY <2>1
<1> HIDE DEF S
<1>4. Len(p) \in S
  BY <1>1, <1>2, <1>3, Induction
<1>5. QED
  BY <1>4 DEF S

\* Where an entry below old is when old has become new.
LEMMA MovedIs ==
    ASSUME NEW old \in FileNames, NEW new \in FileNames, NEW q \in FileNames, IsPrefix(old, q)
    PROVE  /\ Moved(old, new, q) \in FileNames
           /\ Len(q) >= Len(old)
           /\ Len(Moved(old, new, q)) = Len(new) + (Len(q) - Len(old))
           /\ \A i \in 1..Len(new) : Moved(old, new, q)[i] = new[i]
           /\ \A j \in 1..(Len(q) - Len(old)) : Moved(old, new, q)[Len(new) + j] = q[Len(old) + j]
<1> DEFINE rest == SubSeq(q, Len(old) + 1, Len(q))
           m == Len(q) - Len(old)
           n == Len(new)
           k == Len(old)
<1>1. k \in Nat /\ Len(q) \in Nat /\ n \in Nat /\ k <= Len(q) /\ m \in Nat
  BY PrefixIs DEF FileNames
<1>2. rest \in Seq(Names) /\ Len(rest) = m /\ \A j \in 1..m : rest[j] = q[k + j]
  <2>1. q \in Seq(Names)
    BY DEF FileNames
  <2>2. QED
    BY <1>1, <2>1
<1>3. Moved(old, new, q) = new \o rest /\ new \in Seq(Names)
  BY DEF Moved, FileNames
<1> DEFINE moved == new \o rest
<1> HIDE DEF rest, m, n, k
<1>4. /\ moved \in Seq(Names) /\ Len(moved) = n + m
      /\ \A i \in 1..(n + m) : moved[i] = IF i <= n THEN new[i] ELSE rest[i - n]
  BY <1>2, <1>3, ConcatProperties DEF n
<1> HIDE DEF moved
<1>5. \A i \in 1..n : moved[i] = new[i]
  BY <1>1, <1>4
<1>6. ASSUME NEW j \in 1..m PROVE moved[n + j] = q[k + j]
  <2>1. n + j \in 1..(n + m) /\ ~(n + j <= n) /\ (n + j) - n = j
    BY <1>1
  <2>2. QED
    BY <1>2, <1>4, <2>1
<1>7. QED
  BY <1>1, <1>3, <1>4, <1>5, <1>6 DEF moved, n, m, k, FileNames

LEMMA MovedOnce ==
    ASSUME NEW old \in FileNames, NEW new \in FileNames,
           NEW q \in FileNames, IsPrefix(old, q), NEW r \in FileNames, IsPrefix(old, r),
           Moved(old, new, q) = Moved(old, new, r)
    PROVE  q = r
<1>1. /\ Len(q) >= Len(old) /\ Len(r) >= Len(old)
      /\ Len(new) + (Len(q) - Len(old)) = Len(new) + (Len(r) - Len(old))
      /\ Len(old) \in Nat /\ Len(new) \in Nat /\ Len(q) \in Nat /\ Len(r) \in Nat
  <2>1. Len(q) >= Len(old) /\ Len(Moved(old, new, q)) = Len(new) + (Len(q) - Len(old))
    BY MovedIs
  <2>2. Len(r) >= Len(old) /\ Len(Moved(old, new, r)) = Len(new) + (Len(r) - Len(old))
    BY MovedIs
  <2>3. QED
    BY <2>1, <2>2 DEF FileNames
<1>2. Len(q) = Len(r)
  BY <1>1
<1>3. \A j \in 1..(Len(q) - Len(old)) : q[Len(old) + j] = r[Len(old) + j]
  <2>1. \A j \in 1..(Len(q) - Len(old)) : Moved(old, new, q)[Len(new) + j] = q[Len(old) + j]
    BY MovedIs
  <2>2. \A j \in 1..(Len(r) - Len(old)) : Moved(old, new, r)[Len(new) + j] = r[Len(old) + j]
    BY MovedIs
  <2>3. QED
    BY <1>2, <2>1, <2>2
<1>4. /\ \A i \in 1..Len(old) : old[i] = q[i]
      /\ \A i \in 1..Len(old) : old[i] = r[i]
  BY PrefixIs
<1>5. ASSUME NEW i \in 1..Len(q) PROVE q[i] = r[i]
  <2>1. CASE i \in 1..Len(old)
    BY <1>4, <2>1
  <2>2. CASE i \notin 1..Len(old)
    <3>1. i - Len(old) \in 1..(Len(q) - Len(old)) /\ Len(old) + (i - Len(old)) = i
      BY <1>1, <2>2
    <3>2. QED
      BY <1>3, <3>1
  <2>3. QED
    BY <2>1, <2>2
<1>6. QED
  BY <1>2, <1>5, SeqEqual DEF FileNames

LEMMA MovedSelf ==
    ASSUME NEW old \in FileNames, NEW new \in FileNames
    PROVE  Moved(old, new, old) = new
<1>1. IsPrefix(old, old)
  <2>1. Len(old) <= Len(old) /\ \A i \in 1..Len(old) : old[i] = old[i]
    BY DEF FileNames
  <2>2. QED
    BY <2>1, PrefixIs
<1> DEFINE moved == Moved(old, new, old)
<1>2. /\ moved \in FileNames /\ Len(moved) = Len(new) + (Len(old) - Len(old))
      /\ \A i \in 1..Len(new) : moved[i] = new[i]
  BY <1>1, MovedIs
<1>3. Len(old) \in Nat /\ Len(new) \in Nat
  BY DEF FileNames
<1> HIDE DEF moved
<1>4. Len(moved) = Len(new) /\ moved \in Seq(Names) /\ new \in Seq(Names)
  BY <1>2, <1>3 DEF FileNames
<1>5. moved = new
  BY <1>2, <1>4, SeqEqual
<1>6. QED
  BY <1>5 DEF moved

\* What is in a folder stays in it.
LEMMA MovedFront ==
    ASSUME NEW old \in FileNames, NEW new \in FileNames, NEW q \in FileNames,
           IsPrefix(old, q), q # old
    PROVE  /\ q # Top /\ IsPrefix(old, Front(q))
           /\ Front(Moved(old, new, q)) = Moved(old, new, Front(q))
<1>1. q # Top
  <2>1. SUFFICES ASSUME q = Top PROVE FALSE
    OBVIOUS
  <2>2. Len(q) = 0 /\ Len(old) \in Nat
    BY <2>1 DEF Top, FileNames
  <2>3. Len(old) = Len(q)
    BY <2>2, PrefixIs
  <2>4. QED
    BY <2>3, PrefixIs
<1>2. IsPrefix(old, Front(q)) /\ Front(q) \in FileNames
  BY <1>1, PrefixOfFront, FrontIs
<1> DEFINE a == Moved(old, new, q)
           f == Front(q)
           b == Moved(old, new, f)
           n == Len(new)
           k == Len(old)
           m == Len(f) - k
<1>3. /\ a \in FileNames /\ Len(a) = n + (Len(q) - k)
      /\ \A i \in 1..n : a[i] = new[i]
      /\ \A j \in 1..(Len(q) - k) : a[n + j] = q[k + j]
  BY MovedIs
<1>4. f \in FileNames /\ IsPrefix(old, f)
  BY <1>2
<1> HIDE DEF f
<1>5. /\ b \in FileNames /\ Len(f) >= k /\ Len(b) = n + m
      /\ \A i \in 1..n : b[i] = new[i]
      /\ \A j \in 1..m : b[n + j] = f[k + j]
  BY <1>4, MovedIs, ZenonT(40)
<1>6. Len(q) \in Nat /\ Len(f) = Len(q) - 1 /\ \A i \in 1..(Len(q) - 1) : f[i] = q[i]
  BY <1>1, FrontIs DEF f
<1>7. n \in Nat /\ k \in Nat
  BY DEF FileNames
<1> HIDE DEF a, b, n, k
<1>8. m \in Nat /\ Len(a) = n + m + 1 /\ a # Top
  <2>1. m \in Nat /\ Len(a) = n + m + 1
    BY <1>3, <1>5, <1>6, <1>7
  <2>2. Len(Top) = 0
    BY DEF Top
  <2>3. QED
    BY <1>7, <2>1, <2>2
<1>9. /\ Front(a) \in FileNames /\ Len(Front(a)) = Len(a) - 1
      /\ \A i \in 1..(Len(a) - 1) : Front(a)[i] = a[i]
  BY <1>3, <1>8, FrontIs
<1> HIDE DEF m
<1>10. Len(a) - 1 = n + m
  BY <1>7, <1>8
<1>11. ASSUME NEW i \in 1..(n + m) PROVE Front(a)[i] = b[i]
  <2>1. Front(a)[i] = a[i]
    BY <1>9, <1>10
  <2>2. CASE i \in 1..n
    BY <1>3, <1>5, <2>1, <2>2
  <2>3. CASE i \notin 1..n
    <3> DEFINE j == i - n
    <3>1. j \in 1..m /\ n + j = i /\ j \in 1..(Len(q) - k) /\ k + j \in 1..(Len(q) - 1)
      BY <1>5, <1>6, <1>7, <1>8, <2>3, SMTT(30) DEF m
    <3> HIDE DEF j
    <3>2. a[i] = q[k + j] /\ b[i] = f[k + j] /\ f[k + j] = q[k + j]
      BY <1>3, <1>5, <1>6, <3>1
    <3>3. QED
      BY <2>1, <3>2
  <2>4. QED
    BY <2>2, <2>3
<1>12. Front(a) = b
  <2>1. Front(a) \in Seq(Names) /\ b \in Seq(Names) /\ Len(Front(a)) = n + m /\ Len(b) = n + m
    BY <1>5, <1>9, <1>10 DEF FileNames
  <2>2. QED
    BY <1>11, <2>1, SeqEqual
<1>13. QED
  BY <1>1, <1>2, <1>12 DEF a, b, f

LEMMA RenamedStands ==
    ASSUME DiskStands(disk), NEW old \in FileNames, NEW new \in FileNames, new # Top,
           CanRename(old, new)
    PROVE  DiskStands(Renamed(old, new))
<1> DEFINE gone == {old} \cup Inside(old)
           M(q) == Moved(old, new, q)
           d == Renamed(old, new)
<1>1. /\ old \in DOMAIN disk /\ old # new
      /\ Front(new) \in DOMAIN disk /\ disk[Front(new)] = "folder"
      /\ ~IsPrefix(old, new)
      /\ new \in DOMAIN disk => Inside(new) = {}
  BY DEF CanRename, IsFolder
<1>2. \A p \in DOMAIN disk : p \in FileNames /\ disk[p] \in DiskKinds
  BY DEF DiskStands
<1>3. \A p \in DOMAIN disk : p # Top => Front(p) \in DOMAIN disk /\ disk[Front(p)] = "folder"
  BY DEF DiskStands
<1>4. gone = {q \in DOMAIN disk : IsPrefix(old, q)}
  <2>1. IsPrefix(old, old)
    <3>1. Len(old) <= Len(old) /\ \A i \in 1..Len(old) : old[i] = old[i]
      BY DEF FileNames
    <3>2. QED
      BY <3>1, PrefixIs
  <2>2. QED
    BY <1>1, <2>1 DEF Inside, IsStrictPrefix
<1>5. old # Top
  <2>1. SUFFICES ASSUME old = Top PROVE IsPrefix(old, new)
    BY <1>1
  <2>2. Len(old) = 0 /\ Len(new) \in Nat
    BY <2>1 DEF Top, FileNames
  <2>3. Len(old) <= Len(new) /\ \A i \in 1..Len(old) : old[i] = new[i]
    BY <2>2
  <2>4. QED
    BY <2>3, PrefixIs
<1> HIDE DEF gone
<1>6. ASSUME NEW g \in gone PROVE g \in FileNames /\ M(g) \in FileNames /\ IsPrefix(old, g)
  BY <1>2, <1>4, MovedIs
<1>7. ASSUME NEW g \in gone, NEW h \in gone, M(g) = M(h) PROVE g = h
  BY <1>6, <1>7, MovedOnce
<1>8. M(old) = new /\ old \in gone
  <2>1. M(old) = new
    BY MovedSelf
  <2>2. old \in gone
    BY <1>1 DEF gone
  <2>3. QED
    BY <2>1, <2>2
<1>9. ASSUME NEW g \in gone, g # old
      PROVE  g # Top /\ Front(g) \in gone /\ Front(M(g)) = M(Front(g)) /\ disk[Front(g)] = "folder"
  <2>1. g \in DOMAIN disk /\ g \in FileNames /\ IsPrefix(old, g)
    BY <1>2, <1>4
  <2>2. g # Top /\ IsPrefix(old, Front(g)) /\ Front(M(g)) = M(Front(g))
    BY <1>9, <2>1, MovedFront
  <2>3. Front(g) \in DOMAIN disk /\ disk[Front(g)] = "folder"
    BY <1>3, <2>1, <2>2
  <2>4. QED
    BY <1>4, <2>2, <2>3
<1>10. ASSUME NEW g \in gone PROVE IsPrefix(new, M(g)) /\ M(g) # Front(new)
  <2>1. /\ M(g) \in FileNames /\ Len(g) >= Len(old)
        /\ Len(M(g)) = Len(new) + (Len(g) - Len(old))
        /\ \A i \in 1..Len(new) : M(g)[i] = new[i]
    BY <1>6, MovedIs
  <2>2. Len(new) \in Nat /\ Len(old) \in Nat /\ Len(g) \in Nat
    BY <1>6 DEF FileNames
  <2>3. Len(new) <= Len(M(g)) /\ \A i \in 1..Len(new) : new[i] = M(g)[i]
    BY <2>1, <2>2
  <2>4. Len(Front(new)) = Len(new) - 1
    BY FrontIs
  <2>5. M(g) # Front(new)
    BY <2>2, <2>3, <2>4
  <2>6. QED
    BY <2>1, <2>3, <2>5, PrefixIs
<1>11. DOMAIN d = (DOMAIN disk \ gone) \cup {M(g) : g \in gone}
  BY DEF Renamed, gone
<1>12. ASSUME NEW g \in gone PROVE d[M(g)] = disk[g]
  <2> DEFINE q == M(g)
  <2>1. d[q] = IF \E h \in gone : q = M(h)
               THEN disk[CHOOSE h \in gone : q = M(h)] ELSE disk[q]
    <3>1. q \in (DOMAIN disk \ gone) \cup {M(h) : h \in gone}
      OBVIOUS
    <3>2. QED
      BY <3>1 DEF Renamed, gone
  <2>2. \A h \in gone : q = M(h) <=> h = g
    BY <1>7
  <2>3. (CHOOSE h \in gone : q = M(h)) = g
    BY <2>2
  <2>4. \E h \in gone : q = M(h)
    OBVIOUS
  <2> HIDE DEF q, M
  <2>5. d[q] = disk[g]
    BY <2>1, <2>3, <2>4
  <2>6. QED
    BY <2>5 DEF q
<1>13. ASSUME NEW q \in DOMAIN disk \ gone, \A g \in gone : q # M(g) PROVE d[q] = disk[q]
  <2>1. q \in (DOMAIN disk \ gone) \cup {M(h) : h \in gone} /\ ~ \E h \in gone : q = M(h)
    BY <1>13
  <2>2. QED
    BY <2>1 DEF Renamed, gone
<1> HIDE DEF d, M
<1>14. Top \in DOMAIN d /\ d[Top] = "folder"
  <2>1. Top \in DOMAIN disk /\ disk[Top] = "folder" /\ Top \in FileNames
    BY NoPaths DEF DiskStands
  <2>2. \A q \in FileNames : IsPrefix(q, Top) => q = Top
    <3>1. ASSUME NEW q \in FileNames, IsPrefix(q, Top) PROVE q = Top
      <4>1. Len(Top) = 0 /\ Len(q) \in Nat
        BY DEF Top, FileNames
      <4>2. Len(q) = Len(Top)
        BY <2>1, <3>1, <4>1, PrefixIs
      <4>3. QED
        BY <2>1, <3>1, <4>2, PrefixIs
    <3>2. QED
      BY <3>1
  <2>3. Top \notin gone
    BY <1>4, <1>5, <2>2
  <2>4. \A g \in gone : Top # M(g)
    BY <1>10, <2>2
  <2>5. QED
    BY <1>11, <1>13, <2>1, <2>3, <2>4
<1>15. ASSUME NEW q \in DOMAIN d PROVE q \in FileNames /\ d[q] \in DiskKinds
  <2>1. CASE \E g \in gone : q = M(g)
    BY <1>2, <1>4, <1>6, <1>12, <2>1
  <2>2. CASE q \in DOMAIN disk \ gone /\ \A g \in gone : q # M(g)
    BY <1>2, <1>13, <2>2
  <2>3. QED
    BY <1>11, <2>1, <2>2
<1>16. ASSUME NEW q \in DOMAIN d, q # Top PROVE Front(q) \in DOMAIN d /\ d[Front(q)] = "folder"
  <2>1. CASE \E g \in gone \ {old} : q = M(g)
    BY <1>9, <1>11, <1>12, <2>1
  <2>2. CASE q = M(old)
    <3> DEFINE f == Front(new)
    <3>1. f \in DOMAIN disk /\ disk[f] = "folder" /\ \A g \in gone : f # M(g)
      BY <1>1, <1>10
    <3>2. f \notin gone
      <4>1. ~IsPrefix(old, f)
        BY <1>1, PrefixOfFront
      <4>2. QED
        BY <1>4, <4>1
    <3>3. q = new
      BY <1>8, <2>2
    <3> HIDE DEF f
    <3>4. f \in DOMAIN d /\ d[f] = "folder"
      BY <1>11, <1>13, <3>1, <3>2
    <3>5. QED
      BY <3>3, <3>4 DEF f
  <2>3. CASE q \in DOMAIN disk \ gone /\ \A g \in gone : q # M(g)
    <3> DEFINE f == Front(q)
    <3>1. f \in DOMAIN disk /\ disk[f] = "folder" /\ q \in FileNames
      BY <1>2, <1>3, <1>16, <2>3
    <3>2. f \notin gone
      BY <1>4, <1>16, <2>3, <3>1, PrefixOfFront
    <3>3. ASSUME NEW g \in gone, f = M(g) PROVE FALSE
      <4>1. IsPrefix(new, f)
        BY <1>10, <3>3
      <4>2. new \in DOMAIN disk
        BY <3>1, <4>1, PrefixStands
      <4>3. IsPrefix(new, q) /\ new # q
        BY <1>16, <3>1, <4>1, PrefixOfFront
      <4>4. q \in Inside(new)
        BY <2>3, <4>3 DEF Inside, IsStrictPrefix
      <4>5. QED
        BY <1>1, <4>2, <4>4
    <3> HIDE DEF f
    <3>4. f \in DOMAIN d /\ d[f] = "folder"
      BY <1>11, <1>13, <3>1, <3>2, <3>3
    <3>5. QED
      BY <3>4 DEF f
  <2>4. QED
    BY <1>8, <1>11, <2>1, <2>2, <2>3
<1>17. DiskStands(d)
  BY <1>14, <1>15, <1>16 DEF DiskStands
<1>18. QED
  BY <1>17 DEF d

MaybePath == FileNames \cup {Nothing}
TreeEntry == [path : FileNames, parent : MaybePath, type : {"file", "folder"}]
Selection == [entry : MaybePath, file : MaybePath, dir : MaybePath,
              filePath : MaybePath, dirPath : MaybePath]

\* A tree: every entry but the workspace is in a folder.
EntriesStand(t) ==
    /\ Top \in DOMAIN t /\ t[Top].type = "folder"
    /\ \A e \in DOMAIN t : e \in FileNames /\ t[e] \in TreeEntry
    /\ \A e \in DOMAIN t :
           e # Top => t[e].path # Top /\ t[e].parent \in DOMAIN t /\ t[t[e].parent].type = "folder"

SelStands(s, t) ==
    /\ s \in Selection
    /\ s.entry \in DOMAIN t \cup {Nothing}
    /\ s.file \in DOMAIN t \cup {Nothing} /\ (s.file # Nothing => t[s.file].type = "file")
    /\ s.dir \in DOMAIN t \cup {Nothing} /\ (s.dir # Nothing => t[s.dir].type = "folder")

TargetKnown(x) == x.core \in MaybePath /\ x.panel \in {x.core, Nothing, Truncated}
                  /\ x = [core |-> x.core, panel |-> x.panel]

\* The inductive invariant: the disk and the tree read from it are both closed
\* under the folder of an entry, though after changes they differ.
ProjectInv ==
    /\ DiskStands(disk)
    /\ EntriesStand(tree)
    /\ SelStands(sel, tree)
    /\ rename \in [entry : DOMAIN tree \cup {Nothing}, name : Names]
    /\ drag \in [entry : FileNames \cup {Nothing, Freed}, active : BOOLEAN]
    /\ drag.entry \in DOMAIN tree => tree[drag.entry].type = "file"
    /\ TargetKnown(target)
    /\ RunTargetStands

LEMMA ReadInStands ==
    ASSUME NEW d, DiskStands(d), NEW t, t = ReadIn(d)
    PROVE  EntriesStand(t) /\ DOMAIN t = DOMAIN d /\ \A e \in DOMAIN t : t[e].path = e
<1>1. /\ DOMAIN t = DOMAIN d
      /\ \A p \in DOMAIN d :
             /\ t[p] = [path |-> p, parent |-> IF p = Top THEN Nothing ELSE Front(p),
                        type |-> IF d[p] = "folder" THEN "folder" ELSE "file"]
             /\ t[p].path = p /\ t[p].parent = (IF p = Top THEN Nothing ELSE Front(p))
             /\ t[p].type = (IF d[p] = "folder" THEN "folder" ELSE "file")
  BY DEF ReadIn
<1>2. /\ Top \in DOMAIN d /\ d[Top] = "folder"
      /\ \A p \in DOMAIN d : p \in FileNames
      /\ \A p \in DOMAIN d : p # Top => Front(p) \in DOMAIN d /\ d[Front(p)] = "folder"
  BY DEF DiskStands
<1>3. \A p \in DOMAIN d : t[p] \in TreeEntry
  BY <1>1, <1>2 DEF TreeEntry, MaybePath
<1>4. QED
  BY <1>1, <1>2, <1>3 DEF EntriesStand

LEMMA FoundIs ==
    ASSUME NEW t, EntriesStand(t), NEW p, NEW e, e = FindEntry(t, p), e # Nothing
    PROVE  e \in DOMAIN t /\ t[e].path = p
BY DEF FindEntry

LEMMA SetFileIs ==
    ASSUME NEW s, NEW t, NEW e, s \in Selection, EntriesStand(t),
           e \in DOMAIN t \cup {Nothing}, NEW x, x = SetFile(s, t, e)
    PROVE  /\ x \in Selection /\ x.file = e /\ x.dir = s.dir /\ x.entry = s.entry
           /\ x.dirPath = s.dirPath
<1>1. (IF e = Nothing THEN Nothing ELSE t[e].path) \in MaybePath /\ e \in MaybePath
  BY DEF MaybePath, EntriesStand, TreeEntry
<1> DEFINE path == IF e = Nothing THEN Nothing ELSE t[e].path
<1>2. x = [s EXCEPT !.file = e, !.filePath = path]
  BY DEF SetFile
<1> HIDE DEF path
<1>3. path \in MaybePath
  BY <1>1 DEF path
<1>4. QED
  BY <1>1, <1>2, <1>3 DEF Selection

LEMMA SetDirectoryIs ==
    ASSUME NEW s, NEW t, NEW e, s \in Selection, EntriesStand(t),
           e \in DOMAIN t \cup {Nothing}, NEW x, x = SetDirectory(s, t, e)
    PROVE  /\ x \in Selection /\ x.dir = e /\ x.file = s.file /\ x.entry = s.entry
           /\ x.filePath = s.filePath
<1>1. (IF e = Nothing THEN Nothing ELSE t[e].path) \in MaybePath /\ e \in MaybePath
  BY DEF MaybePath, EntriesStand, TreeEntry
<1> DEFINE path == IF e = Nothing THEN Nothing ELSE t[e].path
<1>2. x = [s EXCEPT !.dir = e, !.dirPath = path]
  BY DEF SetDirectory
<1> HIDE DEF path
<1>3. path \in MaybePath
  BY <1>1 DEF path
<1>4. QED
  BY <1>1, <1>2, <1>3 DEF Selection

LEMMA EntrySetIs ==
    ASSUME NEW s, NEW e, s \in Selection, e \in MaybePath, NEW x, x = [s EXCEPT !.entry = e]
    PROVE  x \in Selection /\ x.entry = e /\ x.file = s.file /\ x.dir = s.dir
           /\ x.filePath = s.filePath /\ x.dirPath = s.dirPath
BY DEF Selection

LEMMA DirectorySelectedStands ==
    ASSUME NEW s, NEW t, NEW e, s \in Selection, EntriesStand(t), e \in DOMAIN t,
           t[e].type = "folder"
    PROVE  SelStands(DirectorySelected(s, t, e), t)
<1> DEFINE a == SetDirectory(s, t, e)
           b == [a EXCEPT !.entry = e]
           c == SetFile(b, t, Nothing)
<1>1. a \in Selection /\ a.dir = e
  BY SetDirectoryIs
<1> HIDE DEF a
<1>2. e \in MaybePath
  BY DEF EntriesStand, MaybePath
<1>3. b \in Selection /\ b.dir = e /\ b.entry = e
  BY <1>1, <1>2, EntrySetIs
<1> HIDE DEF b
<1>4. c \in Selection /\ c.file = Nothing /\ c.dir = e /\ c.entry = e
  <2>1. Nothing \in DOMAIN t \cup {Nothing}
    OBVIOUS
  <2>2. QED
    BY <1>3, <2>1, SetFileIs
<1> HIDE DEF c
<1>5. SelStands(c, t)
  BY <1>4 DEF SelStands
<1>6. QED
  BY <1>5 DEF DirectorySelected, a, b, c

LEMMA FileSelectedStands ==
    ASSUME NEW s, NEW t, NEW e, SelStands(s, t), EntriesStand(t), e \in DOMAIN t, t[e].type = "file"
    PROVE  SelStands(FileSelected(s, t, e), t)
<1> DEFINE a == SetFile(s, t, e)
           b == [a EXCEPT !.entry = e]
           p == t[e].parent
           c == SetDirectory(b, t, p)
<1>1. a \in Selection /\ a.file = e /\ a.dir = s.dir
  BY SetFileIs DEF SelStands
<1>2. e \in MaybePath /\ e # Top /\ p \in DOMAIN t /\ t[p].type = "folder"
  BY DEF EntriesStand, MaybePath
<1> HIDE DEF a
<1>3. b \in Selection /\ b.file = e /\ b.entry = e /\ b.dir = s.dir
  BY <1>1, <1>2, EntrySetIs
<1> HIDE DEF b, p
<1>4. c \in Selection /\ c.dir = p /\ c.file = e /\ c.entry = e
  BY <1>2, <1>3, SetDirectoryIs
<1> HIDE DEF c
<1>5. SelStands(b, t)
  BY <1>3 DEF SelStands
<1>6. SelStands(c, t)
  BY <1>2, <1>4 DEF SelStands
<1>7. FileSelected(s, t, e) = b \/ FileSelected(s, t, e) = c
  BY DEF FileSelected, a, b, c, p
<1>8. QED
  BY <1>5, <1>6, <1>7

LEMMA RestoredSelectionStands ==
    ASSUME NEW t, EntriesStand(t), sel \in Selection
    PROVE  SelStands(RestoredSelection(t), t)
<1> DEFINE none == [sel EXCEPT !.entry = Nothing, !.file = Nothing, !.dir = Nothing]
           new == FindEntry(t, created)
           oldFile == FindEntry(t, sel.filePath)
           oldDir == FindEntry(t, sel.dirPath)
           theFile == IF oldFile # Nothing /\ t[oldFile].type = "file" THEN oldFile ELSE Nothing
           theDir == IF oldDir # Nothing /\ t[oldDir].type = "folder" THEN oldDir ELSE Top
           withFile == SetFile(none, t, theFile)
           withDir == SetDirectory(withFile, t, theDir)
           theEntry == IF withDir.file # Nothing THEN withDir.file ELSE withDir.dir
           folder == SetDirectory(none, t, new)
           justFile == SetFile(none, t, new)
           both == SetDirectory(justFile, t, t[new].parent)
<1>1. /\ none \in Selection
      /\ none.entry = Nothing /\ none.file = Nothing /\ none.dir = Nothing
  BY DEF Selection, MaybePath
<1>2. Nothing \notin DOMAIN t /\ \A e \in DOMAIN t : e \in MaybePath
  BY NoPaths DEF EntriesStand, MaybePath
<1>3. /\ new # Nothing => new \in DOMAIN t
      /\ oldFile # Nothing => oldFile \in DOMAIN t
      /\ oldDir # Nothing => oldDir \in DOMAIN t
  BY FoundIs
<1>4. Top \in DOMAIN t /\ t[Top].type = "folder"
  BY DEF EntriesStand
<1>5. RestoredSelection(t) =
          IF created # Nothing
          THEN IF new = Nothing THEN none
               ELSE IF t[new].type = "folder" THEN [folder EXCEPT !.entry = new]
               ELSE [both EXCEPT !.entry = new]
          ELSE [withDir EXCEPT !.entry = theEntry]
  BY DEF RestoredSelection
<1> HIDE DEF none, new, oldFile, oldDir
<1>6. theFile \in DOMAIN t \cup {Nothing} /\ (theFile # Nothing => t[theFile].type = "file")
  BY <1>3
<1>7. theDir \in DOMAIN t /\ t[theDir].type = "folder"
  BY <1>3, <1>4
<1> HIDE DEF theFile, theDir
<1>8. withFile \in Selection /\ withFile.file = theFile
  BY <1>1, <1>6, SetFileIs
<1> HIDE DEF withFile
<1>9. withDir \in Selection /\ withDir.file = theFile /\ withDir.dir = theDir
  BY <1>7, <1>8, SetDirectoryIs
<1> HIDE DEF withDir
<1>10. theEntry \in DOMAIN t
  BY <1>2, <1>6, <1>7, <1>9
<1> HIDE DEF theEntry
<1>11. SelStands([withDir EXCEPT !.entry = theEntry], t)
  <2> DEFINE x == [withDir EXCEPT !.entry = theEntry]
  <2>1. x \in Selection /\ x.entry = theEntry /\ x.file = theFile /\ x.dir = theDir
    BY <1>2, <1>9, <1>10, EntrySetIs
  <2> HIDE DEF x
  <2>2. SelStands(x, t)
    BY <1>6, <1>7, <1>10, <2>1 DEF SelStands
  <2>3. QED
    BY <2>2 DEF x
<1>12. SelStands(none, t)
  BY <1>1 DEF SelStands
<1>13. ASSUME new # Nothing, t[new].type = "folder"
       PROVE  SelStands([folder EXCEPT !.entry = new], t)
  <2> DEFINE x == [folder EXCEPT !.entry = new]
  <2>1. folder \in Selection /\ folder.dir = new /\ folder.file = Nothing
    BY <1>1, <1>3, <1>13, SetDirectoryIs
  <2> HIDE DEF folder
  <2>2. x \in Selection /\ x.entry = new /\ x.file = Nothing /\ x.dir = new
    BY <1>2, <1>3, <1>13, <2>1, EntrySetIs
  <2> HIDE DEF x
  <2>3. SelStands(x, t)
    BY <1>3, <1>13, <2>2 DEF SelStands
  <2>4. QED
    BY <2>3 DEF x
<1>14. ASSUME new # Nothing, t[new].type # "folder"
       PROVE  SelStands([both EXCEPT !.entry = new], t)
  <2> DEFINE x == [both EXCEPT !.entry = new]
             p == t[new].parent
  <2>1. /\ new \in DOMAIN t /\ t[new].type = "file" /\ p \in DOMAIN t /\ t[p].type = "folder"
    BY <1>3, <1>4, <1>14 DEF EntriesStand, TreeEntry
  <2>2. justFile \in Selection /\ justFile.file = new
    BY <1>1, <2>1, SetFileIs
  <2> HIDE DEF justFile, p
  <2>3. SetDirectory(justFile, t, p) \in Selection /\ SetDirectory(justFile, t, p).file = new
        /\ SetDirectory(justFile, t, p).dir = p
    BY <2>1, <2>2, SetDirectoryIs
  <2>4. both \in Selection /\ both.file = new /\ both.dir = p
    BY <2>3 DEF p
  <2> HIDE DEF both
  <2>5. x \in Selection /\ x.entry = new /\ x.file = new /\ x.dir = p
    BY <1>2, <2>1, <2>4, EntrySetIs
  <2> HIDE DEF x
  <2>6. SelStands(x, t)
    BY <2>1, <2>5 DEF SelStands
  <2>7. QED
    BY <2>6 DEF x
<1> HIDE DEF folder, both
<1>15. QED
  BY <1>5, <1>11, <1>12, <1>13, <1>14

\* The run target that is chosen is there.
LEMMA RunTargetsAre ==
    ASSUME NEW d, \A p \in DOMAIN d : p \in FileNames, NEW t, NEW e, TargetKnown(target),
           NEW x \in RunTargets(d, t, e)
    PROVE  TargetKnown(x) /\ (x.core # Nothing => x.core \in DOMAIN d)
<1> DEFINE p == t[e].path
           found == IF t[e].type = "folder" THEN Programs(d, t, e)
                    ELSE IF p \in DOMAIN d /\ d[p] = "program" THEN {p} ELSE {}
           kept(f) == IF target.panel = f THEN target ELSE [core |-> f, panel |-> f]
<1>1. x = [core |-> Nothing, panel |-> Nothing] \/ \E f \in found : x = kept(f)
  BY DEF RunTargets
<1>2. found \subseteq DOMAIN d
  BY DEF Programs
<1> HIDE DEF found
<1>3. CASE x = [core |-> Nothing, panel |-> Nothing]
  BY <1>3 DEF TargetKnown, MaybePath
<1>4. CASE \E f \in found : x = kept(f)
  <2>1. PICK f \in found : x = kept(f)
    BY <1>4
  <2>2. f \in DOMAIN d /\ f \in FileNames /\ f # Nothing /\ f # Truncated
    BY <1>2, NoPaths
  <2>3. CASE target.panel = f
    <3>1. x = target /\ target.core = f
      BY <2>1, <2>2, <2>3 DEF TargetKnown
    <3>2. QED
      BY <2>2, <3>1
  <2>4. CASE target.panel # f
    <3>1. x = [core |-> f, panel |-> f]
      BY <2>1, <2>4
    <3>2. QED
      BY <2>2, <3>1 DEF TargetKnown, MaybePath
  <2>5. QED
    BY <2>3, <2>4
<1>5. QED
  BY <1>1, <1>3, <1>4

LEMMA RestoredRunTargetIs ==
    ASSUME NEW t, EntriesStand(t), \A e \in DOMAIN t : t[e].path = e, TargetKnown(target),
           NEW x, x = RestoredRunTarget(t)
    PROVE  TargetKnown(x) /\ (x.core # Nothing => x.core \in DOMAIN t)
<1>1. CASE target.core = Nothing
  <2>1. x = [target EXCEPT !.panel = Nothing]
    BY <1>1 DEF RestoredRunTarget
  <2>2. x = [core |-> Nothing, panel |-> Nothing]
    BY <1>1, <2>1 DEF TargetKnown
  <2>3. QED
    BY <2>2 DEF TargetKnown, MaybePath
<1>2. CASE target.core # Nothing /\ FindEntry(t, target.core) # Nothing
  <2> DEFINE f == FindEntry(t, target.core)
             c == target.core
  <2>1. f \in DOMAIN t /\ t[f].path = c
    BY <1>2, FoundIs
  <2>2. x = [target EXCEPT !.panel = Truncated]
    BY <1>2 DEF RestoredRunTarget
  <2> HIDE DEF f
  <2>3. x = [core |-> c, panel |-> Truncated] /\ c \in MaybePath
    BY <2>2 DEF TargetKnown
  <2>4. c \in DOMAIN t
    BY <2>1
  <2> HIDE DEF c
  <2>5. QED
    BY <2>3, <2>4 DEF TargetKnown
<1>3. CASE target.core # Nothing /\ FindEntry(t, target.core) = Nothing
  <2>1. x = [core |-> Nothing, panel |-> Nothing]
    BY <1>3 DEF RestoredRunTarget
  <2>2. QED
    BY <2>1 DEF TargetKnown, MaybePath
<1>4. QED
  BY <1>1, <1>2, <1>3

LEMMA SelectKeeps ==
    ASSUME ProjectInv, NEW e, IsEntry(e), Select(e)
    PROVE  /\ SelStands(sel', tree)
           /\ TargetKnown(target') /\ (target'.core # Nothing => target'.core \in DOMAIN disk)
<1>1. e \in DOMAIN tree /\ EntriesStand(tree) /\ SelStands(sel, tree) /\ TargetKnown(target)
  BY DEF IsEntry, ProjectInv
<1>2. tree[e].type \in {"file", "folder"}
  BY <1>1 DEF EntriesStand, TreeEntry
<1>3. SelStands(sel', tree)
  <2>1. CASE tree[e].type = "folder"
    <3>1. sel' = DirectorySelected(sel, tree, e)
      BY <2>1 DEF Select
    <3>2. QED
      BY <1>1, <2>1, <3>1, DirectorySelectedStands DEF SelStands
  <2>2. CASE tree[e].type = "file"
    <3>1. tree[e].type # "folder"
      BY <2>2
    <3>2. sel' = FileSelected(sel, tree, e)
      BY <3>1 DEF Select
    <3>3. QED
      BY <1>1, <2>2, <3>2, FileSelectedStands
  <2>3. QED
    BY <1>2, <2>1, <2>2
<1>4. \A p \in DOMAIN disk : p \in FileNames
  BY DEF ProjectInv, DiskStands
<1>5. target' \in RunTargets(disk, tree, e)
  BY DEF Select
<1>6. QED
  BY <1>1, <1>3, <1>4, <1>5, RunTargetsAre

LEMMA ClickRowKeeps ==
    ASSUME ProjectInv, NEW e, ClickRow(e)
    PROVE  ProjectInv'
<1>1. /\ Select(e) /\ IsEntry(e)
      /\ drag' = IF tree[e].type = "file" THEN [entry |-> e, active |-> FALSE] ELSE drag
      /\ UNCHANGED <<disk, tree, rename, pending, unseen>>
  BY DEF ClickRow, Hovered
<1>2. /\ SelStands(sel', tree)
      /\ TargetKnown(target') /\ (target'.core # Nothing => target'.core \in DOMAIN disk)
  BY <1>1, SelectKeeps
<1>3. e \in FileNames
  BY <1>1 DEF IsEntry, ProjectInv, EntriesStand
<1>4. /\ drag' \in [entry : FileNames \cup {Nothing, Freed}, active : BOOLEAN]
      /\ drag'.entry \in DOMAIN tree => tree[drag'.entry].type = "file"
  BY <1>1, <1>3 DEF ProjectInv
<1>5. RunTargetStands'
  BY <1>1, <1>2 DEF RunTargetStands
<1>6. QED
  BY <1>1, <1>2, <1>4, <1>5 DEF ProjectInv

LEMMA OtherClicksKeep ==
    ASSUME ProjectInv, NEW e, DoubleClickRow(e) \/ RightClickRow(e)
    PROVE  ProjectInv'
<1>1. Select(e) /\ IsEntry(e) /\ UNCHANGED <<disk, tree, rename, drag, pending, unseen>>
  BY DEF DoubleClickRow, RightClickRow, Hovered
<1>2. /\ SelStands(sel', tree)
      /\ TargetKnown(target') /\ (target'.core # Nothing => target'.core \in DOMAIN disk)
  BY <1>1, SelectKeeps
<1>3. RunTargetStands'
  BY <1>1, <1>2 DEF RunTargetStands
<1>4. QED
  BY <1>1, <1>2, <1>3 DEF ProjectInv

LEMMA DragKeeps ==
    ASSUME ProjectInv, DragFile \/ DropNowhere
    PROVE  ProjectInv'
<1>1. UNCHANGED <<disk, tree, sel, rename, target, pending, unseen>>
  BY DEF DragFile, DropNowhere
<1>2. RunTargetStands'
  BY <1>1 DEF RunTargetStands, ProjectInv
<1>3. CASE DragFile
  <2>1. drag' = [drag EXCEPT !.active = TRUE]
    BY <1>3 DEF DragFile
  <2>2. /\ drag' \in [entry : FileNames \cup {Nothing, Freed}, active : BOOLEAN]
        /\ drag'.entry = drag.entry
    BY <2>1 DEF ProjectInv
  <2>3. QED
    BY <1>1, <1>2, <2>2 DEF ProjectInv
<1>4. CASE DropNowhere
  <2>1. drag' = [entry |-> Nothing, active |-> FALSE]
    BY <1>4 DEF DropNowhere, NoDrag
  <2>2. drag' \in [entry : FileNames \cup {Nothing, Freed}, active : BOOLEAN]
        /\ drag'.entry \notin DOMAIN tree
    BY <2>1, NoPaths DEF ProjectInv, EntriesStand
  <2>3. QED
    BY <1>1, <1>2, <2>2 DEF ProjectInv
<1>5. QED
  BY <1>3, <1>4

\* A file is moved to a folder on the disk and in the tree.
LEMMA DropOnFolderKeeps ==
    ASSUME ProjectInv, NEW e, DropOnFolder(e)
    PROVE  ProjectInv'
<1> DEFINE g == drag.entry
           old == tree[g].path
           new == Append(tree[e].path, Last(old))
<1>1. /\ IsEntry(g) /\ IsEntry(e) /\ tree[e].type = "folder"
      /\ IF CanRename(old, new)
         THEN /\ disk' = Renamed(old, new)
              /\ tree' = [tree EXCEPT ![g].path = new, ![g].parent = e]
              /\ pending' = TRUE
         ELSE UNCHANGED <<disk, tree, pending>>
      /\ drag' = NoDrag
      /\ UNCHANGED <<sel, rename, target, unseen>>
  BY DEF DropOnFolder
<1>2. /\ g \in DOMAIN tree /\ e \in DOMAIN tree /\ tree[g].type = "file" /\ EntriesStand(tree)
      /\ DiskStands(disk) /\ SelStands(sel, tree) /\ TargetKnown(target)
      /\ rename \in [entry : DOMAIN tree \cup {Nothing}, name : Names]
  BY <1>1 DEF IsEntry, ProjectInv
<1>3. g # Top /\ old # Top /\ old \in FileNames /\ tree[e].path \in FileNames
  BY <1>2 DEF EntriesStand, TreeEntry
<1>4. new \in FileNames /\ new # Top
  <2>1. Last(old) \in Names
    BY <1>3, FrontIs
  <2>2. QED
    BY <1>3, <2>1, AppendIs
<1> HIDE DEF old, new
<1>5. drag' \in [entry : FileNames \cup {Nothing, Freed}, active : BOOLEAN] /\ drag'.entry = Nothing
  BY <1>1 DEF NoDrag
<1> HIDE DEF g
<1>6. CASE CanRename(old, new)
  <2>1. DiskStands(disk')
    BY <1>1, <1>2, <1>3, <1>4, <1>6, RenamedStands
  <2>2. tree' = [tree EXCEPT ![g].path = new, ![g].parent = e] /\ pending' = TRUE
    BY <1>1, <1>6
  <2>3. /\ DOMAIN tree' = DOMAIN tree
        /\ \A f \in DOMAIN tree : f # g => tree'[f] = tree[f]
        /\ tree'[g] = [tree[g] EXCEPT !.path = new, !.parent = e]
    BY <1>2, <2>2
  <2>4. tree[g] \in TreeEntry /\ e \in FileNames
    BY <1>2 DEF EntriesStand
  <2>5. /\ tree'[g] \in TreeEntry /\ tree'[g].path = new /\ tree'[g].parent = e
        /\ tree'[g].type = tree[g].type
    BY <1>4, <2>3, <2>4 DEF TreeEntry, MaybePath
  <2>6. \A f \in DOMAIN tree : tree'[f].type = tree[f].type
    BY <2>3, <2>5
  <2>7. EntriesStand(tree')
    <3>1. /\ Top \in DOMAIN tree /\ tree[Top].type = "folder"
          /\ \A f \in DOMAIN tree : f \in FileNames /\ tree[f] \in TreeEntry
          /\ \A f \in DOMAIN tree :
                 f # Top => /\ tree[f].path # Top /\ tree[f].parent \in DOMAIN tree
                            /\ tree[tree[f].parent].type = "folder"
      BY <1>2 DEF EntriesStand
    <3>2. ASSUME NEW f \in DOMAIN tree', f # Top
          PROVE  /\ tree'[f].path # Top /\ tree'[f].parent \in DOMAIN tree'
                 /\ tree'[tree'[f].parent].type = "folder"
      <4>1. CASE f = g
        BY <1>1, <1>2, <1>4, <2>3, <2>5, <2>6, <4>1
      <4>2. CASE f # g
        BY <2>3, <2>6, <3>1, <3>2, <4>2
      <4>3. QED
        BY <4>1, <4>2
    <3>3. \A f \in DOMAIN tree' : f \in FileNames /\ tree'[f] \in TreeEntry
      BY <2>3, <2>5, <3>1
    <3>4. Top \in DOMAIN tree' /\ tree'[Top].type = "folder"
      BY <2>3, <2>6, <3>1
    <3>5. QED
      BY <3>2, <3>3, <3>4 DEF EntriesStand
  <2>8. SelStands(sel', tree')
    BY <1>1, <1>2, <2>3, <2>6 DEF SelStands
  <2>9. Nothing \notin DOMAIN tree'
    BY <1>2, <2>3, NoPaths DEF EntriesStand
  <2>10. RunTargetStands'
    BY <2>2 DEF RunTargetStands
  <2>11. QED
    BY <1>1, <1>2, <1>5, <2>1, <2>3, <2>7, <2>8, <2>9, <2>10 DEF ProjectInv
<1>7. CASE ~CanRename(old, new)
  <2>1. UNCHANGED <<disk, tree, pending>>
    BY <1>1, <1>7
  <2>2. Nothing \notin DOMAIN tree
    BY <1>2, NoPaths DEF EntriesStand
  <2>3. RunTargetStands'
    BY <1>1, <2>1 DEF RunTargetStands, ProjectInv
  <2>4. QED
    BY <1>1, <1>2, <1>5, <2>1, <2>2, <2>3 DEF ProjectInv
<1>8. QED
  BY <1>6, <1>7

\* What leaves the tree and its pointers alone, and asks for a refresh or is
\* unseen if it changes the disk.
LEMMA OutsideKeeps ==
    ASSUME ProjectInv, DiskStands(disk'), UNCHANGED <<tree, sel, drag, target>>,
           rename' \in [entry : DOMAIN tree \cup {Nothing}, name : Names],
           UNCHANGED <<disk, pending, unseen>> \/ pending' = TRUE \/ unseen' = TRUE
    PROVE  ProjectInv'
<1>1. RunTargetStands'
  BY DEF RunTargetStands, ProjectInv
<1>2. QED
  BY <1>1 DEF ProjectInv

LEMMA TypeNameKeeps ==
    ASSUME ProjectInv, NEW name \in Names, TypeName(name)
    PROVE  ProjectInv'
<1>1. rename' \in [entry : DOMAIN tree \cup {Nothing}, name : Names]
  BY DEF TypeName, ProjectInv
<1>2. UNCHANGED <<disk, tree, sel, drag, target, pending, unseen>>
  BY DEF TypeName
<1>3. QED
  BY <1>1, <1>2, OutsideKeeps DEF ProjectInv

LEMMA SubmitPromptKeeps ==
    ASSUME ProjectInv, NEW name \in Names, SubmitPrompt(name)
    PROVE  ProjectInv'
<1> DEFINE new == Append(Front(prompt), name)
<1>1. /\ IF name # Last(prompt) /\ CanRename(prompt, new)
         THEN disk' = Renamed(prompt, new) /\ pending' = TRUE
         ELSE UNCHANGED <<disk, pending>>
      /\ UNCHANGED <<tree, sel, rename, drag, target, unseen>>
  BY DEF SubmitPrompt
<1>2. ASSUME CanRename(prompt, new) PROVE DiskStands(Renamed(prompt, new))
  <2>1. prompt \in FileNames /\ DiskStands(disk)
    BY <1>2 DEF CanRename, ProjectInv, DiskStands
  <2>2. Front(prompt) \in FileNames
    <3>1. CASE prompt = Top
      <4>1. Front(Top) = <<>>
        BY DEF Front, Top
      <4>2. QED
        BY <3>1, <4>1, NoPaths DEF Top
    <3>2. CASE prompt # Top
      BY <2>1, <3>2, FrontIs
    <3>3. QED
      BY <3>1, <3>2
  <2>3. new \in FileNames /\ new # Top
    BY <2>2, AppendIs
  <2> HIDE DEF new
  <2>4. QED
    BY <1>2, <2>1, <2>3, RenamedStands
<1>3. DiskStands(disk')
  BY <1>1, <1>2 DEF ProjectInv
<1>4. rename' \in [entry : DOMAIN tree \cup {Nothing}, name : Names]
  BY <1>1 DEF ProjectInv
<1>5. UNCHANGED <<disk, pending, unseen>> \/ pending' = TRUE
  BY <1>1
<1>6. QED
  BY <1>1, <1>3, <1>4, <1>5, OutsideKeeps

LEMMA ChangeOutsideKeeps ==
    ASSUME ProjectInv, NEW p \in Places \ {Top}, ChangeOutside(p)
    PROVE  ProjectInv'
<1>1. /\ UNCHANGED <<tree, sel, rename, drag, target>> /\ unseen' = TRUE
      /\ \/ /\ p \notin DOMAIN disk /\ IsFolder(Front(p))
            /\ \E kind \in {"plain", "program"} : disk' = Created(p, kind)
         \/ disk' = Removed({p} \cup Inside(p))
  BY DEF ChangeOutside
<1>2. p \in FileNames /\ p # Top
  <2>1. PICK n \in 0..Depth : p \in [1..n -> Names]
    BY DEF Places
  <2>2. QED
    BY <2>1 DEF FileNames
<1>3. DiskStands(disk')
  <2>1. DiskStands(disk)
    BY DEF ProjectInv
  <2>2. CASE p \notin DOMAIN disk /\ IsFolder(Front(p))
             /\ \E kind \in {"plain", "program"} : disk' = Created(p, kind)
    <3>1. PICK kind \in {"plain", "program"} : disk' = Created(p, kind)
      BY <2>2
    <3>2. kind \in DiskKinds
      BY DEF DiskKinds
    <3>3. QED
      BY <1>2, <2>1, <2>2, <3>1, <3>2, CreatedStands
  <2>3. CASE disk' = Removed({p} \cup Inside(p))
    BY <1>2, <2>1, <2>3, RemovedBelowStands
  <2>4. QED
    BY <1>1, <2>2, <2>3
<1>4. rename' \in [entry : DOMAIN tree \cup {Nothing}, name : Names]
  BY <1>1 DEF ProjectInv
<1>5. QED
  BY <1>1, <1>3, <1>4, OutsideKeeps

Renaming == [entry : DOMAIN tree \cup {Nothing}, name : Names]

LEMMA BeginRenameKeeps ==
    ASSUME ProjectInv, BeginRename, UNCHANGED <<tree, drag>>
    PROVE  ProjectInv'
<1>1. UNCHANGED <<disk, tree, sel, drag, target, pending, unseen>>
  BY DEF BeginRename
<1>2. EntriesStand(tree) /\ SelStands(sel, tree) /\ rename \in Renaming
  BY DEF ProjectInv, Renaming
<1>3. ASSUME NEW e \in DOMAIN tree \ {Top}
      PROVE  [entry |-> e, name |-> Last(tree[e].path)] \in Renaming
  <2>1. tree[e].path \in FileNames /\ tree[e].path # Top
    BY <1>2 DEF EntriesStand, TreeEntry
  <2>2. Last(tree[e].path) \in Names
    BY <2>1, FrontIs
  <2>3. QED
    BY <2>2 DEF Renaming
<1>4. [rename EXCEPT !.entry = Nothing] \in Renaming
  BY <1>2 DEF Renaming
<1>5. sel.file # Nothing => sel.file \in DOMAIN tree \ {Top}
  BY <1>2 DEF EntriesStand, SelStands
<1>6. sel.dir \notin {Nothing, Top} => sel.dir \in DOMAIN tree \ {Top}
  BY <1>2 DEF SelStands
<1>7. rename' \in Renaming
  <2>1. \/ sel.file # Nothing /\ rename' = [entry |-> sel.file, name |-> Last(tree[sel.file].path)]
        \/ /\ sel.dir \notin {Nothing, Top}
           /\ rename' = [entry |-> sel.dir, name |-> Last(tree[sel.dir].path)]
        \/ rename' = [rename EXCEPT !.entry = Nothing]
    BY DEF BeginRename
  <2>2. CASE /\ sel.file # Nothing
             /\ rename' = [entry |-> sel.file, name |-> Last(tree[sel.file].path)]
    BY <1>3, <1>5, <2>2
  <2>3. CASE /\ sel.dir \notin {Nothing, Top}
             /\ rename' = [entry |-> sel.dir, name |-> Last(tree[sel.dir].path)]
    BY <1>3, <1>6, <2>3
  <2>4. CASE rename' = [rename EXCEPT !.entry = Nothing]
    BY <1>4, <2>4
  <2>5. QED
    BY <2>1, <2>2, <2>3, <2>4
<1>8. DiskStands(disk')
  BY <1>1 DEF ProjectInv
<1>9. QED
  BY <1>1, <1>7, <1>8, OutsideKeeps DEF Renaming

LEMMA CancelRenameKeeps ==
    ASSUME ProjectInv, CancelRename, UNCHANGED <<tree, drag>>
    PROVE  ProjectInv'
<1>1. UNCHANGED <<disk, tree, sel, drag, target, pending, unseen>>
      /\ rename' = [rename EXCEPT !.entry = Nothing]
  BY DEF CancelRename
<1>2. rename' \in [entry : DOMAIN tree \cup {Nothing}, name : Names] /\ DiskStands(disk')
  BY <1>1 DEF ProjectInv
<1>3. QED
  BY <1>1, <1>2, OutsideKeeps

LEMMA ConfirmRenameKeeps ==
    ASSUME ProjectInv, ConfirmRename, UNCHANGED <<tree, drag>>
    PROVE  ProjectInv'
<1> DEFINE e == rename.entry
           old == tree[e].path
           new == Append(tree[tree[e].parent].path, rename.name)
<1>1. CASE e \notin {Nothing, Top}
  <2>1. /\ IF CanRename(old, new) THEN disk' = Renamed(old, new) ELSE UNCHANGED disk
        /\ rename' = [rename EXCEPT !.entry = Nothing] /\ pending' = TRUE
        /\ UNCHANGED <<sel, target>>
    BY <1>1 DEF ConfirmRename
  <2>2. EntriesStand(tree) /\ DiskStands(disk) /\ e \in DOMAIN tree /\ rename.name \in Names
    BY <1>1 DEF ProjectInv
  <2>3. tree[e].parent \in DOMAIN tree /\ old \in FileNames
    BY <1>1, <2>2 DEF EntriesStand, TreeEntry
  <2>4. tree[tree[e].parent].path \in FileNames
    BY <2>2, <2>3 DEF EntriesStand, TreeEntry
  <2>5. new \in FileNames /\ new # Top
    BY <2>2, <2>4, AppendIs
  <2>6. rename' \in [entry : DOMAIN tree \cup {Nothing}, name : Names]
    BY <2>1 DEF ProjectInv
  <2> HIDE DEF old, new
  <2>7. DiskStands(disk')
    BY <2>1, <2>2, <2>3, <2>5, RenamedStands
  <2>8. QED
    BY <2>1, <2>6, <2>7, OutsideKeeps
<1>2. CASE e \in {Nothing, Top}
  <2>1. UNCHANGED <<disk, sel, rename, target, pending, unseen>>
    BY <1>2 DEF ConfirmRename
  <2>2. rename' \in [entry : DOMAIN tree \cup {Nothing}, name : Names] /\ DiskStands(disk')
    BY <2>1 DEF ProjectInv
  <2>3. QED
    BY <2>1, <2>2, OutsideKeeps
<1>3. QED
  BY <1>1, <1>2

LEMMA CreateKeeps ==
    ASSUME ProjectInv, NEW name \in Names, NEW kind \in DiskKinds, Create(name, kind),
           UNCHANGED <<tree, drag>>
    PROVE  ProjectInv'
<1> DEFINE folder == tree[TargetDirectory].path
           new == Append(folder, name)
<1>1. /\ \/ IsFolder(folder) /\ new \notin DOMAIN disk /\ disk' = Created(new, kind)
         \/ disk' = disk
      /\ pending' = TRUE
      /\ UNCHANGED <<sel, rename, target>>
  BY DEF Create
<1>2. EntriesStand(tree) /\ DiskStands(disk) /\ SelStands(sel, tree)
  BY DEF ProjectInv
<1>3. ASSUME IsFolder(folder), new \notin DOMAIN disk PROVE DiskStands(Created(new, kind))
  <2>1. folder \in FileNames
    BY <1>2, <1>3 DEF IsFolder, DiskStands
  <2>2. new \in FileNames /\ new # Top /\ Front(new) = folder
    BY <2>1, AppendIs
  <2> HIDE DEF folder, new
  <2>3. QED
    BY <1>2, <1>3, <2>2, CreatedStands
<1>4. DiskStands(disk')
  BY <1>1, <1>2, <1>3
<1>5. rename' \in [entry : DOMAIN tree \cup {Nothing}, name : Names]
  BY <1>1 DEF ProjectInv
<1>6. QED
  BY <1>1, <1>4, <1>5, OutsideKeeps

LEMMA AfterDeleteStands ==
    ASSUME ProjectInv, NEW p \in DOMAIN tree, tree[p].type = "folder",
           NEW d, DOMAIN d \subseteq DOMAIN disk, SelectAfterDelete(d, sel, p)
    PROVE  SelStands(sel', tree) /\ TargetKnown(target')
<1>1. EntriesStand(tree) /\ SelStands(sel, tree) /\ TargetKnown(target)
      /\ \A q \in DOMAIN d : q \in FileNames
  BY DEF ProjectInv, DiskStands
<1> DEFINE s == SetFile(sel, tree, Nothing)
<1>2. s \in Selection
  <2>1. Nothing \in DOMAIN tree \cup {Nothing} /\ sel \in Selection
    BY <1>1 DEF SelStands
  <2>2. QED
    BY <1>1, <2>1, SetFileIs
<1>3. sel' = DirectorySelected(s, tree, p) /\ target' \in RunTargets(d, tree, p)
  BY DEF SelectAfterDelete
<1> HIDE DEF s
<1>4. SelStands(sel', tree)
  BY <1>1, <1>2, <1>3, DirectorySelectedStands
<1>5. TargetKnown(target')
  BY <1>1, <1>3, RunTargetsAre
<1>6. QED
  BY <1>4, <1>5

\* The disk has changed and the selection with it.
LEMMA DeletedKeeps ==
    ASSUME ProjectInv, DiskStands(disk'), SelStands(sel', tree), TargetKnown(target'),
           pending' = TRUE, UNCHANGED <<tree, rename, drag>>
    PROVE  ProjectInv'
<1>1. RunTargetStands'
  BY DEF RunTargetStands
<1>2. QED
  BY <1>1 DEF ProjectInv

LEMMA DeleteFileKeeps ==
    ASSUME ProjectInv, DeleteFile, UNCHANGED <<tree, drag>>
    PROVE  ProjectInv'
<1> DEFINE p == tree[sel.file].path
<1>1. EntriesStand(tree) /\ DiskStands(disk) /\ SelStands(sel, tree)
  BY DEF ProjectInv
<1>2. CASE sel.file # Nothing /\ p \in DOMAIN disk /\ Inside(p) = {}
  <2>1. /\ disk' = Removed({p}) /\ SelectAfterDelete(disk', sel, tree[sel.file].parent)
        /\ pending' = TRUE /\ UNCHANGED rename
    BY <1>2 DEF DeleteFile
  <2>2. sel.file \in DOMAIN tree /\ tree[sel.file].type = "file"
    BY <1>1, <1>2 DEF SelStands
  <2>3. sel.file # Top /\ p \in FileNames
    BY <1>1, <2>2 DEF EntriesStand, TreeEntry
  <2>4. /\ p # Top /\ tree[sel.file].parent \in DOMAIN tree
        /\ tree[tree[sel.file].parent].type = "folder"
    BY <1>1, <2>2, <2>3 DEF EntriesStand
  <2>5. DiskStands(disk') /\ DOMAIN disk' \subseteq DOMAIN disk
    <3>1. {p} \cup Inside(p) = {p}
      BY <1>2
    <3>2. DiskStands(Removed({p}))
      BY <1>1, <2>3, <2>4, <3>1, RemovedBelowStands
    <3>3. QED
      BY <2>1, <3>2 DEF Removed
  <2>6. SelStands(sel', tree) /\ TargetKnown(target')
    BY <2>1, <2>4, <2>5, AfterDeleteStands
  <2>7. QED
    BY <2>1, <2>5, <2>6, DeletedKeeps
<1>3. CASE ~(sel.file # Nothing /\ p \in DOMAIN disk /\ Inside(p) = {})
  <2>1. UNCHANGED <<disk, sel, rename, target, pending, unseen>>
    BY <1>3 DEF DeleteFile
  <2>2. rename' \in [entry : DOMAIN tree \cup {Nothing}, name : Names] /\ DiskStands(disk')
    BY <2>1 DEF ProjectInv
  <2>3. QED
    BY <2>1, <2>2, OutsideKeeps
<1>4. QED
  BY <1>2, <1>3

LEMMA DeleteDirectoryKeeps ==
    ASSUME ProjectInv, DeleteDirectory, UNCHANGED <<tree, drag>>
    PROVE  ProjectInv'
<1> DEFINE p == tree[sel.dir].path
<1>1. EntriesStand(tree) /\ DiskStands(disk) /\ SelStands(sel, tree)
  BY DEF ProjectInv
<1>2. CASE sel.dir \notin {Nothing, Top} /\ p \in DOMAIN disk
  <2>1. \/ /\ disk' = Removed({p} \cup Inside(p))
           /\ SelectAfterDelete(disk', sel, tree[sel.dir].parent)
           /\ pending' = TRUE /\ UNCHANGED rename
        \/ /\ \E gone \in SUBSET Inside(p) :
                 (\A q \in gone : Inside(q) \subseteq gone) /\ disk' = Removed(gone)
           /\ unseen' = TRUE /\ UNCHANGED <<sel, rename, target, pending>>
    BY <1>2 DEF DeleteDirectory
  <2>2. sel.dir \in DOMAIN tree \ {Top}
    BY <1>1, <1>2 DEF SelStands
  <2>3. /\ p # Top /\ p \in FileNames /\ tree[sel.dir].parent \in DOMAIN tree
        /\ tree[tree[sel.dir].parent].type = "folder"
    BY <1>1, <2>2 DEF EntriesStand, TreeEntry
  <2>4. CASE /\ disk' = Removed({p} \cup Inside(p))
             /\ SelectAfterDelete(disk', sel, tree[sel.dir].parent)
             /\ pending' = TRUE /\ UNCHANGED rename
    <3>1. DiskStands(disk') /\ DOMAIN disk' \subseteq DOMAIN disk
      <4>1. DiskStands(disk')
        BY <1>1, <2>3, <2>4, RemovedBelowStands
      <4>2. QED
        BY <2>4, <4>1 DEF Removed
    <3>2. SelStands(sel', tree) /\ TargetKnown(target')
      BY <2>3, <2>4, <3>1, AfterDeleteStands
    <3>3. QED
      BY <2>4, <3>1, <3>2, DeletedKeeps
  <2>5. CASE /\ \E gone \in SUBSET Inside(p) :
                    (\A q \in gone : Inside(q) \subseteq gone) /\ disk' = Removed(gone)
             /\ unseen' = TRUE /\ UNCHANGED <<sel, rename, target, pending>>
    <3>1. DiskStands(disk')
      BY <1>1, <2>3, <2>5, RemovedPartStands
    <3>2. rename' \in [entry : DOMAIN tree \cup {Nothing}, name : Names]
      BY <2>5 DEF ProjectInv
    <3>3. QED
      BY <2>5, <3>1, <3>2, OutsideKeeps
  <2>6. QED
    BY <2>1, <2>4, <2>5
<1>3. CASE ~(sel.dir \notin {Nothing, Top} /\ p \in DOMAIN disk)
  <2>1. UNCHANGED <<disk, sel, rename, target, pending, unseen>>
    BY <1>3 DEF DeleteDirectory
  <2>2. rename' \in [entry : DOMAIN tree \cup {Nothing}, name : Names] /\ DiskStands(disk')
    BY <2>1 DEF ProjectInv
  <2>3. QED
    BY <2>1, <2>2, OutsideKeeps
<1>4. QED
  BY <1>2, <1>3

LEMMA ExecuteCommandKeeps ==
    ASSUME ProjectInv, waiting \in Seq(Commands), ExecuteCommand
    PROVE  ProjectInv'
<1> DEFINE c == Head(waiting)
<1>1. Execute(c) /\ UNCHANGED <<tree, drag>> /\ waiting # <<>>
  BY DEF ExecuteCommand
<1>2. c \in Commands
  BY <1>1
<1>3. NewFile \in Names /\ NewFolder \in Names /\ "plain" \in DiskKinds /\ "folder" \in DiskKinds
  BY ProjectAssumption DEF DiskKinds
<1> HIDE DEF c
<1>4. /\ c = "rename" => BeginRename
      /\ c = "confirm" => ConfirmRename
      /\ c = "cancel" => CancelRename
      /\ c = "new_file" => Create(NewFile, "plain")
      /\ c = "new_folder" => Create(NewFolder, "folder")
      /\ c = "delete_file" => DeleteFile
      /\ c = "delete_folder" => DeleteDirectory
  BY <1>1 DEF Execute
<1>5. CASE c = "rename"
  BY <1>1, <1>4, <1>5, BeginRenameKeeps
<1>6. CASE c = "confirm"
  BY <1>1, <1>4, <1>6, ConfirmRenameKeeps
<1>7. CASE c = "cancel"
  BY <1>1, <1>4, <1>7, CancelRenameKeeps
<1>8. CASE c = "new_file"
  BY <1>1, <1>3, <1>4, <1>8, CreateKeeps
<1>9. CASE c = "new_folder"
  BY <1>1, <1>3, <1>4, <1>9, CreateKeeps
<1>10. CASE c = "delete_file"
  BY <1>1, <1>4, <1>10, DeleteFileKeeps
<1>11. CASE c = "delete_folder"
  BY <1>1, <1>4, <1>11, DeleteDirectoryKeeps
<1>12. QED
  BY <1>2, <1>5, <1>6, <1>7, <1>8, <1>9, <1>10, <1>11 DEF Commands

\* The tree is read anew: the rename is given up, the selection found again.
LEMMA RefreshKeeps ==
    ASSUME ProjectInv, Refresh
    PROVE  ProjectInv'
<1>1. /\ tree' = ReadIn(disk) /\ disk' = disk
      /\ rename' = [rename EXCEPT !.entry = Nothing]
      /\ drag' = [drag EXCEPT !.entry = Dangling(drag.entry)]
      /\ sel' = RestoredSelection(tree') /\ target' = RestoredRunTarget(tree')
  BY DEF Refresh, CleanPointers
<1>2. EntriesStand(tree') /\ DOMAIN tree' = DOMAIN disk /\ \A e \in DOMAIN tree' : tree'[e].path = e
  BY <1>1, ReadInStands DEF ProjectInv
<1>3. SelStands(sel', tree')
  BY <1>1, <1>2, RestoredSelectionStands DEF ProjectInv, SelStands
<1>4. TargetKnown(target') /\ (target'.core # Nothing => target'.core \in DOMAIN tree')
  BY <1>1, <1>2, RestoredRunTargetIs DEF ProjectInv
<1>5. RunTargetStands'
  BY <1>1, <1>2, <1>4 DEF RunTargetStands
<1>6. rename' \in [entry : DOMAIN tree' \cup {Nothing}, name : Names]
  BY <1>1 DEF ProjectInv
<1>7. drag' \in [entry : FileNames \cup {Nothing, Freed}, active : BOOLEAN]
      /\ drag'.entry \in {Nothing, Freed}
  BY <1>1 DEF ProjectInv, Dangling
<1>8. drag'.entry \notin DOMAIN tree'
  BY <1>2, <1>7, NoPaths DEF EntriesStand
<1>9. QED
  BY <1>1, <1>2, <1>3, <1>4, <1>5, <1>6, <1>7, <1>8 DEF ProjectInv

LEMMA ProjectInitStands ==
    ASSUME ProjectInit
    PROVE  ProjectInv /\ waiting \in Seq(Commands)
<1>1. DiskStands(disk)
  BY ProjectAssumption DEF ProjectInit, DiskStands, FileNames, DiskKinds
<1>2. tree = ReadIn(disk)
  BY DEF ProjectInit
<1>3. EntriesStand(tree)
  BY <1>1, <1>2, ReadInStands
<1>4. sel = [entry |-> Top, file |-> Nothing, dir |-> Top, filePath |-> Nothing, dirPath |-> Top]
  BY DEF ProjectInit
<1>5. SelStands(sel, tree)
  <2>1. sel \in Selection
    BY <1>4, NoPaths DEF Selection, MaybePath
  <2>2. sel.entry = Top /\ sel.file = Nothing /\ sel.dir = Top
    BY <1>4
  <2>3. QED
    BY <1>3, <2>1, <2>2 DEF SelStands, EntriesStand
<1>6. rename \in [entry : DOMAIN tree \cup {Nothing}, name : Names]
  BY ProjectAssumption DEF ProjectInit
<1>7. drag \in [entry : FileNames \cup {Nothing, Freed}, active : BOOLEAN] /\ drag.entry = Nothing
  BY DEF ProjectInit, NoDrag
<1>8. Nothing \notin DOMAIN tree
  BY <1>3, NoPaths DEF EntriesStand
<1>9. target = [core |-> Nothing, panel |-> Nothing]
  BY DEF ProjectInit
<1>10. TargetKnown(target) /\ target.core = Nothing
  BY <1>9 DEF TargetKnown, MaybePath
<1>11. RunTargetStands
  BY <1>10 DEF RunTargetStands
<1>12. waiting \in Seq(Commands)
  BY DEF ProjectInit
<1>13. QED
  BY <1>1, <1>3, <1>5, <1>6, <1>7, <1>8, <1>10, <1>11, <1>12 DEF ProjectInv

LEMMA ProjectStep ==
    ASSUME ProjectInv, waiting \in Seq(Commands), [ProjectNext]_projectVars
    PROVE  ProjectInv' /\ waiting' \in Seq(Commands)
<1>1. waiting' \in Seq(Commands)
  <2>1. CASE \E command \in Commands : PressKey(command)
    BY <2>1 DEF PressKey
  <2>2. CASE ExecuteCommand
    <3>1. waiting' = Tail(waiting) /\ waiting # <<>>
      BY <2>2 DEF ExecuteCommand
    <3>2. QED
      BY <3>1
  <2>3. CASE ~ (ExecuteCommand \/ \E command \in Commands : PressKey(command))
    <3>1. waiting' = waiting
      BY <2>3 DEF ProjectNext, projectVars, ClickRow, DoubleClickRow, RightClickRow, DropOnFolder,
                  DragFile, DropNowhere, UseFreedEntry, TypeName, SubmitPrompt, CancelPrompt,
                  NoCommand, Refresh, Draw, ChangeOutside, WatcherNotices
    <3>2. QED
      BY <3>1
  <2>4. QED
    BY <2>1, <2>2, <2>3
<1>2. CASE \E e \in Places : ClickRow(e) \/ DoubleClickRow(e) \/ RightClickRow(e) \/ DropOnFolder(e)
  BY <1>1, <1>2, ClickRowKeeps, OtherClicksKeep, DropOnFolderKeeps
<1>3. CASE DragFile \/ DropNowhere
  BY <1>1, <1>3, DragKeeps
<1>4. CASE \E name \in Names : TypeName(name) \/ SubmitPrompt(name)
  BY <1>1, <1>4, TypeNameKeeps, SubmitPromptKeeps
<1>5. CASE ExecuteCommand
  BY <1>1, <1>5, ExecuteCommandKeeps
<1>6. CASE Refresh
  BY <1>1, <1>6, RefreshKeeps
<1>7. CASE \E p \in Places \ {Top} : ChangeOutside(p)
  BY <1>1, <1>7, ChangeOutsideKeeps
<1>8. CASE \/ UseFreedEntry \/ CancelPrompt \/ NoCommand \/ Draw \/ WatcherNotices
           \/ \E command \in Commands : PressKey(command)
           \/ UNCHANGED projectVars
  <2>1. /\ UNCHANGED <<disk, tree, sel, rename, drag, target>>
        /\ (UNCHANGED <<disk, pending, unseen>> \/ pending' = TRUE)
    BY <1>8 DEF UseFreedEntry, CancelPrompt, NoCommand, Draw, WatcherNotices, PressKey, projectVars
  <2>2. rename' \in [entry : DOMAIN tree \cup {Nothing}, name : Names] /\ DiskStands(disk')
    BY <2>1 DEF ProjectInv
  <2>3. QED
    BY <1>1, <2>1, <2>2, OutsideKeeps
<1>9. QED
  BY <1>1, <1>2, <1>3, <1>4, <1>5, <1>6, <1>7, <1>8 DEF ProjectNext

\* Creating, renaming, moving and deleting files, and the refreshes that follow
\* them or are still due: what the panel selects or renames inline was not freed
\* with the tree it pointed into (what it drags may be), and once no refresh is
\* due the run target is on disk, unless the disk was changed unseen or a
\* deletion stopped half way (tool_project.c, command_tool_project.c).
THEOREM ProjectPointersAlwaysStand == ProjectSpec => []ProjectPointersStand
<1>1. ProjectInit => ProjectInv /\ waiting \in Seq(Commands)
  BY ProjectInitStands
<1>2. ProjectInv /\ waiting \in Seq(Commands) /\ [ProjectNext]_projectVars
          => ProjectInv' /\ (waiting \in Seq(Commands))'
  BY ProjectStep
<1>3. ProjectInv => ProjectPointersStand
  <2>1. SUFFICES ASSUME ProjectInv PROVE ProjectPointersStand
    OBVIOUS
  <2>2. SelStands(sel, tree) /\ RunTargetStands /\ rename.entry \in DOMAIN tree \cup {Nothing}
    BY <2>1 DEF ProjectInv
  <2>3. QED
    BY <2>2 DEF ProjectPointersStand, SelectionStands, SelStands
<1>4. QED
  BY <1>1, <1>2, <1>3, PTL DEF ProjectSpec

-----------------------------------------------------------------------------
-----------------------------------------------------------------------------
(* The panels that mark rows by number (ErrorsPanel, LibrariesPanel).      *)

\* Sequences strung together.

\* c is a followed by b.
Follows(a, b, c) ==
    /\ Len(a) \in Nat /\ Len(b) \in Nat /\ Len(c) = Len(a) + Len(b)
    /\ \A r \in 1..Len(a) : r \in 1..Len(c) /\ c[r] = a[r]
    /\ \A k \in 1..Len(b) : Len(a) + k \in 1..Len(c) /\ c[Len(a) + k] = b[k]
    /\ \A r \in 1..Len(c) : r \in 1..Len(a) \/ \E k \in 1..Len(b) : r = Len(a) + k

LEMMA Joined ==
    ASSUME NEW T, NEW a \in Seq(T), NEW b \in Seq(T)
    PROVE  a \o b \in Seq(T) /\ Follows(a, b, a \o b)
<1> DEFINE c == a \o b
<1>1. Len(a) \in Nat /\ Len(b) \in Nat
  BY LenProperties
<1>2. /\ c \in Seq(T) /\ Len(c) = Len(a) + Len(b)
      /\ \A r \in 1..(Len(a) + Len(b)) : c[r] = IF r <= Len(a) THEN a[r] ELSE b[r - Len(a)]
  BY ConcatProperties
<1> HIDE DEF c
<1> DEFINE la == Len(a)
           lb == Len(b)
<1> HIDE DEF la, lb
<1>3. la \in Nat /\ lb \in Nat /\ Len(c) = la + lb
      /\ \A r \in 1..(la + lb) : c[r] = IF r <= la THEN a[r] ELSE b[r - la]
  BY <1>1, <1>2 DEF la, lb
<1>4. \A r \in 1..la : r \in 1..Len(c) /\ c[r] = a[r]
  BY <1>3
<1>5. ASSUME NEW k \in 1..lb PROVE la + k \in 1..Len(c) /\ c[la + k] = b[k]
  <2>1. la + k \in 1..(la + lb) /\ ~(la + k <= la) /\ (la + k) - la = k
    BY <1>3
  <2>2. QED
    BY <1>3, <2>1
<1>6. ASSUME NEW r \in 1..Len(c), r \notin 1..la PROVE \E k \in 1..lb : r = la + k
  <2>1. r - la \in 1..lb /\ r = la + (r - la)
    BY <1>3, <1>6
  <2>2. QED
    BY <2>1
<1>7. QED
  BY <1>1, <1>2, <1>4, <1>5, <1>6 DEF la, lb, c, Follows

StrungUpTo(ss, m, f) == f = [i \in 1..m |-> IF i = 1 THEN ss[i] ELSE f[i - 1] \o ss[i]]

\* The function that FlattenSeq defines by recursion exists.
LEMMA StrungExists ==
    ASSUME NEW ss
    PROVE  \A m \in Nat : \E f : StrungUpTo(ss, m, f)
<1> DEFINE S == {m \in Nat : \E f : StrungUpTo(ss, m, f)}
<1>1. 0 \in S
  <2> DEFINE f == [i \in 1..0 |-> <<>>]
  <2>1. StrungUpTo(ss, 0, f)
    BY DEF StrungUpTo
  <2>2. QED
    BY <2>1
<1>2. ASSUME NEW m \in Nat, m \in S PROVE m + 1 \in S
  <2>1. PICK f : StrungUpTo(ss, m, f)
    BY <1>2
  <2> DEFINE last == IF m = 0 THEN ss[m + 1] ELSE f[m] \o ss[m + 1]
             g == [i \in 1..(m + 1) |-> IF i = m + 1 THEN last ELSE f[i]]
  <2> HIDE DEF last
  <2>2. ASSUME NEW i \in 1..(m + 1)
        PROVE  g[i] = IF i = 1 THEN ss[i] ELSE g[i - 1] \o ss[i]
    <3>1. CASE i = m + 1
      <4>1. i # 1 => i - 1 = m /\ m # 0 /\ i - 1 \in 1..(m + 1) /\ i - 1 # m + 1
        BY <3>1
      <4>2. g[i] = last /\ (i # 1 => g[i - 1] = f[m]) /\ (i = 1 => m = 0)
        BY <3>1, <4>1
      <4>3. QED
        BY <3>1, <4>1, <4>2 DEF last
    <3>2. CASE i # m + 1
      <4>1. i \in 1..m /\ (i # 1 => i - 1 \in 1..(m + 1) /\ i - 1 # m + 1)
        BY <3>2
      <4>2. g[i] = f[i] /\ (i # 1 => g[i - 1] = f[i - 1])
        BY <3>2, <4>1
      <4>3. f[i] = IF i = 1 THEN ss[i] ELSE f[i - 1] \o ss[i]
        BY <2>1, <4>1 DEF StrungUpTo
      <4>4. QED
        BY <4>2, <4>3
    <3>3. QED
      BY <3>1, <3>2
  <2>3. StrungUpTo(ss, m + 1, g)
    BY <2>2 DEF StrungUpTo
  <2>4. QED
    BY <2>3
<1> HIDE DEF S
<1>3. Nat \subseteq S
  BY <1>1, <1>2, Induction
<1>4. QED
  BY <1>3 DEF S

\* f[n] is the first n of them strung together.
Strung(ss, f) ==
    /\ FlattenSeq(ss) = f[Len(ss)]
    /\ f[0] = <<>>
    /\ \A n \in 1..Len(ss) : f[n] = f[n - 1] \o ss[n]

LEMMA StrungIs ==
    ASSUME NEW T, NEW ss \in Seq(Seq(T))
    PROVE  \E f : Strung(ss, f)
<1> DEFINE m == Len(ss)
           k == CHOOSE f : StrungUpTo(ss, m, f)
           f == [n \in 0..m |-> IF n = 0 THEN <<>> ELSE k[n]]
<1>1. m \in Nat /\ \A n \in 1..m : ss[n] \in Seq(T)
  BY LenProperties, ElementOfSeq
<1>2. StrungUpTo(ss, m, k)
  BY <1>1, StrungExists
<1>3. FlattenSeq(ss) = IF m = 0 THEN ss ELSE k[m]
  BY DEF FlattenSeq, StrungUpTo
<1> HIDE DEF m, k
<1>4. \A n \in 1..m : k[n] = IF n = 1 THEN ss[n] ELSE k[n - 1] \o ss[n]
  BY <1>2, Zenon DEF StrungUpTo
<1>5. m = 0 => ss = <<>>
  BY EmptySeq DEF m
<1>6. FlattenSeq(ss) = f[m] /\ f[0] = <<>>
  BY <1>1, <1>3, <1>5
<1>7. ASSUME NEW n \in 1..m PROVE f[n] = f[n - 1] \o ss[n]
  <2>1. f[n] = k[n] /\ n - 1 \in 0..m /\ (n # 1 => f[n - 1] = k[n - 1]) /\ (n = 1 => f[n - 1] = <<>>)
    BY <1>1
  <2>2. <<>> \o ss[n] = ss[n]
    BY <1>1, ConcatEmptySeq
  <2>3. QED
    BY <1>4, <2>1, <2>2
<1> HIDE DEF f
<1>8. QED
  BY <1>6, <1>7 DEF Strung, m

\* Each place of the first n strung together is a place of one of them.
Placed(ss, f, n) ==
    \A r \in 1..Len(f[n]) : \E i \in 1..n : \E k \in 1..Len(ss[i]) :
        r = Len(f[i - 1]) + k /\ f[n][r] = ss[i][k]

LEMMA StrungPlaces ==
    ASSUME NEW T, NEW ss \in Seq(Seq(T)), NEW f, Strung(ss, f)
    PROVE  \A n \in 0..Len(ss) : f[n] \in Seq(T) /\ Placed(ss, f, n)
<1> DEFINE m == Len(ss)
           All(n) == /\ f[n] \in Seq(T)
                     /\ \A r \in 1..Len(f[n]) : \E i \in 1..n : \E k \in 1..Len(ss[i]) :
                            r = Len(f[i - 1]) + k /\ f[n][r] = ss[i][k]
           S == {n \in Nat : n <= m => All(n)}
<1>1. m \in Nat /\ \A n \in 1..m : ss[n] \in Seq(T)
  BY LenProperties, ElementOfSeq
<1>2. f[0] = <<>> /\ \A n \in 1..m : f[n] = f[n - 1] \o ss[n]
  BY DEF Strung
<1>3. 0 \in S
  <2>1. Len(f[0]) = 0 /\ f[0] \in Seq(T)
    BY <1>2, EmptySeq
  <2>2. QED
    BY <2>1
<1>4. ASSUME NEW n \in Nat, n \in S PROVE n + 1 \in S
  <2>1. SUFFICES ASSUME n + 1 <= m PROVE All(n + 1)
    OBVIOUS
  <2>2. n + 1 \in 1..m /\ (n + 1) - 1 = n /\ All(n)
    BY <1>1, <1>4, <2>1
  <2> DEFINE a == f[n]
             b == ss[n + 1]
             c == f[n + 1]
  <2>3. a \in Seq(T) /\ b \in Seq(T) /\ c = a \o b
    BY <1>1, <1>2, <2>2
  <2> HIDE DEF a, b, c
  <2>4. c \in Seq(T) /\ Follows(a, b, c)
    BY <2>3, Joined
  <2>5. ASSUME NEW r \in 1..Len(c)
        PROVE  \E i \in 1..(n + 1) : \E k \in 1..Len(ss[i]) :
                   r = Len(f[i - 1]) + k /\ c[r] = ss[i][k]
    <3>1. CASE r \in 1..Len(a)
      <4>1. c[r] = a[r]
        BY <2>4, <3>1 DEF Follows
      <4>2. PICK i \in 1..n : \E k \in 1..Len(ss[i]) : r = Len(f[i - 1]) + k /\ a[r] = ss[i][k]
        BY <2>2, <3>1 DEF a
      <4>3. QED
        BY <4>1, <4>2
    <3>2. CASE \E k \in 1..Len(b) : r = Len(a) + k
      <4>1. PICK k \in 1..Len(b) : r = Len(a) + k /\ c[r] = b[k]
        BY <2>4, <3>2 DEF Follows
      <4>2. n + 1 \in 1..(n + 1) /\ (n + 1) - 1 = n
        OBVIOUS
      <4>3. QED
        BY <4>1, <4>2 DEF a, b
    <3>3. QED
      BY <2>4, <3>1, <3>2 DEF Follows
  <2>6. QED
    BY <2>4, <2>5 DEF c
<1> HIDE DEF S
<1>5. \A n \in Nat : n \in S
  BY <1>3, <1>4, Induction
<1> HIDE DEF All
<1>6. ASSUME NEW n \in 0..m PROVE All(n)
  <2>1. n \in Nat /\ n <= m
    BY <1>1
  <2>2. QED
    BY <1>5, <2>1 DEF S
<1>7. QED
  BY <1>6 DEF All, Placed

\* What the first n strung together hold stays at its place.
LEMMA StrungStays ==
    ASSUME NEW T, NEW ss \in Seq(Seq(T)), NEW f, Strung(ss, f), NEW h \in 0..Len(ss)
    PROVE  \A n \in h..Len(ss) :
               /\ Len(f[h]) <= Len(f[n])
               /\ \A r \in 1..Len(f[h]) : f[n][r] = f[h][r]
<1> DEFINE m == Len(ss)
           All(n) == Len(f[h]) <= Len(f[n]) /\ \A r \in 1..Len(f[h]) : f[n][r] = f[h][r]
           S == {d \in Nat : h + d <= m => All(h + d)}
<1>1. m \in Nat /\ h \in Nat /\ h <= m /\ \A n \in 1..m : ss[n] \in Seq(T)
  BY LenProperties, ElementOfSeq
<1>2. \A n \in 1..m : f[n] = f[n - 1] \o ss[n]
  BY DEF Strung
<1>3. \A n \in 0..m : f[n] \in Seq(T) /\ Len(f[n]) \in Nat
  BY StrungPlaces, LenProperties
<1>4. 0 \in S
  BY <1>1, <1>3
<1>5. ASSUME NEW d \in Nat, d \in S PROVE d + 1 \in S
  <2>1. SUFFICES ASSUME h + (d + 1) <= m PROVE All(h + (d + 1))
    OBVIOUS
  <2> DEFINE n == h + d
  <2>2. n + 1 = h + (d + 1) /\ n + 1 \in 1..m /\ (n + 1) - 1 = n /\ n \in 0..m /\ All(n)
    BY <1>1, <1>5, <2>1
  <2> HIDE DEF n
  <2> DEFINE a == f[n]
             b == ss[n + 1]
             c == f[n + 1]
  <2>3. a \in Seq(T) /\ b \in Seq(T) /\ c = a \o b
    BY <1>1, <1>2, <1>3, <2>2
  <2> HIDE DEF a, b, c
  <2>4. c \in Seq(T) /\ Follows(a, b, c)
    BY <2>3, Joined
  <2>5. Len(f[h]) \in Nat /\ Len(f[h]) <= Len(a) /\ \A r \in 1..Len(f[h]) : a[r] = f[h][r]
    BY <1>1, <1>3, <2>2 DEF a
  <2> DEFINE lh == Len(f[h])
  <2> HIDE DEF lh
  <2>6. lh \in Nat /\ lh <= Len(a) /\ lh <= Len(c)
    BY <2>4, <2>5 DEF lh, Follows
  <2>7. ASSUME NEW r \in 1..Len(f[h]) PROVE c[r] = f[h][r]
    <3>1. r \in 1..lh
      BY <2>7 DEF lh
    <3>2. r \in 1..Len(a)
      BY <2>4, <2>6, <3>1 DEF Follows
    <3>3. QED
      BY <2>4, <2>5, <2>7, <3>2 DEF Follows
  <2>8. QED
    BY <2>2, <2>6, <2>7 DEF lh, c
<1> HIDE DEF S
<1>6. \A d \in Nat : d \in S
  BY <1>4, <1>5, Induction
<1>7. ASSUME NEW n \in h..m PROVE All(n)
  <2>1. n - h \in Nat /\ h + (n - h) = n /\ n <= m
    BY <1>1
  <2>2. QED
    BY <1>6, <2>1 DEF S
<1>8. QED
  BY <1>7

\* Where two rows of sequences differ at i alone, and there not in the first
\* element, they are the same up to that element.
AlikeButAt(i, ss, tt) ==
    /\ Len(ss) = Len(tt)
    /\ \A j \in 1..Len(ss) : j # i => ss[j] = tt[j]
    /\ Len(ss[i]) >= 1 /\ Len(tt[i]) >= 1 /\ ss[i][1] = tt[i][1]

LEMMA HeadStays ==
    ASSUME NEW T, NEW ss \in Seq(Seq(T)), NEW tt \in Seq(Seq(T)),
           NEW i \in 1..Len(ss), AlikeButAt(i, ss, tt),
           NEW f, Strung(ss, f), NEW q, q = Len(f[i - 1]) + 1
    PROVE  /\ q \in 1..Len(FlattenSeq(ss)) /\ q \in 1..Len(FlattenSeq(tt))
           /\ FlattenSeq(ss)[q] = FlattenSeq(tt)[q]
<1> DEFINE m == Len(ss)
           r == Len(f[i - 1]) + 1
<1>1. /\ Len(ss) = Len(tt)
      /\ \A j \in 1..Len(ss) : j # i => ss[j] = tt[j]
      /\ Len(ss[i]) >= 1 /\ Len(tt[i]) >= 1 /\ ss[i][1] = tt[i][1]
  BY DEF AlikeButAt
<1>2. m \in Nat /\ i \in 1..m /\ i \in Nat /\ i - 1 \in Nat /\ i - 1 \in 0..m /\ i \in 0..m
  BY LenProperties
<1>3. \A n \in 1..m : ss[n] \in Seq(T) /\ tt[n] \in Seq(T)
  BY <1>1, LenProperties, ElementOfSeq
\* One of the two: its element comes at the place after what precedes it.
<1>4. ASSUME NEW uu \in Seq(Seq(T)), Len(uu) = m, NEW g, Strung(uu, g), Len(uu[i]) >= 1
      PROVE  LET p == Len(g[i - 1]) + 1
             IN p \in 1..Len(FlattenSeq(uu)) /\ FlattenSeq(uu)[p] = uu[i][1]
  <2> DEFINE a == g[i - 1]
             b == uu[i]
             c == g[i]
             e == g[m]
  <2>1. \A n \in 0..m : g[n] \in Seq(T)
    BY <1>4, StrungPlaces
  <2>2. b \in Seq(T) /\ Len(b) >= 1
    BY <1>2, <1>4, ElementOfSeq
  <2>3. a \in Seq(T) /\ c = a \o b /\ FlattenSeq(uu) = e /\ e \in Seq(T)
    <3>1. m \in 0..m
      BY <1>2
    <3>2. a \in Seq(T) /\ e \in Seq(T)
      BY <1>2, <2>1, <3>1
    <3>3. g[i] = g[i - 1] \o uu[i] /\ FlattenSeq(uu) = g[m]
      BY <1>2, <1>4 DEF Strung
    <3>4. QED
      BY <3>2, <3>3
  <2>4. Len(c) <= Len(e) /\ \A x \in 1..Len(c) : e[x] = c[x]
    <3>1. m \in i..m
      BY <1>2
    <3>2. \A n \in i..Len(uu) : Len(g[i]) <= Len(g[n]) /\ \A x \in 1..Len(g[i]) : g[n][x] = g[i][x]
      <4>1. i \in 0..Len(uu)
        BY <1>2, <1>4
      <4>2. QED
        BY <1>4, <4>1, StrungStays
    <3>3. QED
      BY <1>4, <3>1, <3>2
  <2> HIDE DEF a, b, c, e
  <2>5. Follows(a, b, c)
    BY <2>2, <2>3, Joined
  <2>6. Len(e) \in Nat /\ 1 \in 1..Len(b)
    BY <2>2, <2>3, <2>5, LenProperties DEF Follows
  <2>7. Len(a) + 1 \in 1..Len(c) /\ c[Len(a) + 1] = b[1]
    BY <2>5, <2>6 DEF Follows
  <2>8. Len(a) + 1 \in 1..Len(e) /\ e[Len(a) + 1] = b[1]
    BY <2>4, <2>5, <2>6, <2>7 DEF Follows
  <2>9. QED
    BY <2>3, <2>8 DEF a, b
<1>5. PICK g : Strung(tt, g)
  BY StrungIs
<1>6. g[i - 1] = f[i - 1]
  <2> DEFINE R == {n \in Nat : n < i => g[n] = f[n]}
  <2>1. 0 \in R
    BY <1>5 DEF Strung
  <2>2. ASSUME NEW n \in Nat, n \in R PROVE n + 1 \in R
    <3>1. SUFFICES ASSUME n + 1 < i PROVE g[n + 1] = f[n + 1]
      OBVIOUS
    <3>2. n + 1 \in 1..m /\ n + 1 # i /\ (n + 1) - 1 = n /\ n < i
      BY <1>2, <3>1
    <3>3. g[n] = f[n] /\ ss[n + 1] = tt[n + 1] /\ Len(ss) = Len(tt)
      BY <1>1, <2>2, <3>2
    <3>4. QED
      BY <1>5, <3>2, <3>3 DEF Strung
  <2> HIDE DEF R
  <2>3. i - 1 \in R
    BY <1>2, <2>1, <2>2, Induction
  <2>4. i - 1 < i
    BY <1>2
  <2>5. QED
    BY <2>3, <2>4 DEF R
<1>7. r \in 1..Len(FlattenSeq(ss)) /\ FlattenSeq(ss)[r] = ss[i][1]
  BY <1>1, <1>4
<1>8. r \in 1..Len(FlattenSeq(tt)) /\ FlattenSeq(tt)[r] = tt[i][1]
  BY <1>1, <1>4, <1>5, <1>6
<1>9. QED
  BY <1>1, <1>7, <1>8

LEMMA FunctionIsSeq ==
    ASSUME NEW T, NEW n \in Nat, NEW w \in [1..n -> T]
    PROVE  w \in Seq(T) /\ Len(w) = n
<1>1. w \in Seq(T)
  BY SeqDef
<1>2. DOMAIN w = 1..n /\ DOMAIN w = 1..Len(w) /\ Len(w) \in Nat
  BY <1>1, LenProperties
<1>3. QED
  BY <1>2

LEMMA DroppingShortens ==
    ASSUME NEW T, NEW s \in Seq(T), NEW gone
    PROVE  Len(Dropping(s, gone)) <= Len(s)
<1> DEFINE S == {n \in Nat : \A x \in Seq(T) : Len(x) = n => Len(Dropping(x, gone)) <= n}
<1>1. 0 \in S
  <2>1. ASSUME NEW x \in Seq(T), Len(x) = 0 PROVE Len(Dropping(x, gone)) <= 0
    <3>1. x = <<>> /\ Len(<<>>) = 0
      BY <2>1, EmptySeq
    <3>2. QED
      BY <3>1, DroppingNone
  <2>2. QED
    BY <2>1
<1>2. ASSUME NEW n \in Nat, n \in S PROVE n + 1 \in S
  <2>1. ASSUME NEW x \in Seq(T), Len(x) = n + 1 PROVE Len(Dropping(x, gone)) <= n + 1
    <3>1. x # <<>>
      BY <2>1, EmptySeq
    <3>2. PICK y \in Seq(T), e \in T : x = Append(y, e)
      BY <3>1, SequenceEmptyOrAppend
    <3>3. Len(y) = n
      BY <2>1, <3>2, AppendProperties, LenProperties
    <3> DEFINE d == Dropping(y, gone)
               c == Dropping(x, gone)
    <3>4. d \in Seq(T) /\ Len(d) <= n
      BY <1>2, <3>3, DroppingKeeps
    <3>5. c = IF e \in gone THEN d ELSE Append(d, e)
      BY <3>2, DroppingAppend
    <3> HIDE DEF d, c
    <3>6. Len(d) \in Nat /\ Len(Append(d, e)) = Len(d) + 1
      BY <3>4, AppendProperties, LenProperties
    <3>7. Len(c) <= n + 1
      BY <3>4, <3>5, <3>6
    <3>8. QED
      BY <3>7 DEF c
  <2>2. QED
    BY <2>1
<1> HIDE DEF S
<1>3. Len(s) \in S
  BY <1>1, <1>2, Induction, LenProperties
<1>4. QED
  BY <1>3 DEF S

-----------------------------------------------------------------------------
(* The errors panel.                                                       *)

DiagRow == [path : DiagPaths, diag : Diagnostic \cup {NoDiag}]

\* The rows of a file, folded or not.
Block(listed, folded, hidden) ==
    LET visible == Dropping(listed.diags, hidden)
    IN IF visible = <<>> THEN <<>>
       ELSE <<Header(listed.path)>> \o
            (IF folded THEN <<>>
             ELSE [k \in DOMAIN visible |-> [path |-> listed.path, diag |-> visible[k]]])

\* They are its header and, below, rows that are no headers.
LEMMA BlockIs ==
    ASSUME NEW p \in DiagPaths, NEW ds \in Seq(Diagnostic), NEW folded, NEW hidden
    PROVE  LET b == Block([path |-> p, diags |-> ds], folded, hidden)
           IN /\ b \in Seq(DiagRow)
              /\ Dropping(ds, hidden) # <<>> => Len(b) >= 1
              /\ Len(b) >= 1 => b[1] = Header(p)
              /\ \A k \in 1..Len(b) : b[k].path = p /\ (b[k].diag = NoDiag => k = 1)
<1> DEFINE v == Dropping(ds, hidden)
           body == IF folded THEN <<>> ELSE [k \in DOMAIN v |-> [path |-> p, diag |-> v[k]]]
           head == <<Header(p)>>
           b == Block([path |-> p, diags |-> ds], folded, hidden)
<1>1. v \in Seq(Diagnostic)
  BY DroppingKeeps
<1>2. b = IF v = <<>> THEN <<>> ELSE head \o body
  BY DEF Block
<1> HIDE DEF v
<1>3. Header(p) \in DiagRow /\ Header(p).path = p /\ NoDiag \notin Diagnostic
  BY DEF Header, DiagRow, NoDiag, Diagnostic, Severities
<1>4. head \in Seq(DiagRow) /\ Len(head) = 1 /\ head[1] = Header(p)
  BY <1>3
<1>5. /\ body \in Seq(DiagRow) /\ Len(body) \in Nat
      /\ \A k \in 1..Len(body) : body[k].path = p /\ body[k].diag # NoDiag
  <2>1. DOMAIN v = 1..Len(v) /\ Len(v) \in Nat /\ \A k \in 1..Len(v) : v[k] \in Diagnostic
    BY <1>1, LenProperties, ElementOfSeq
  <2>2. CASE folded
    BY <2>2, EmptySeq
  <2>3. CASE ~folded
    <3> DEFINE w == [k \in 1..Len(v) |-> [path |-> p, diag |-> v[k]]]
    <3>1. w \in Seq(DiagRow) /\ Len(w) = Len(v)
      <4>1. w \in [1..Len(v) -> DiagRow]
        BY <2>1 DEF DiagRow
      <4>2. QED
        BY <2>1, <4>1, FunctionIsSeq, ZenonT(40)
    <3>2. \A k \in 1..Len(v) : w[k].path = p /\ w[k].diag # NoDiag
      BY <1>3, <2>1
    <3>3. body = w
      BY <2>1, <2>3
    <3> HIDE DEF w, body
    <3>4. QED
      BY <2>1, <3>1, <3>2, <3>3
  <2>4. QED
    BY <2>2, <2>3
<1> HIDE DEF head, body, b
<1>6. CASE v = <<>>
  <2>1. b = <<>>
    BY <1>2, <1>6
  <2>2. b \in Seq(DiagRow) /\ Len(b) = 0
    BY <2>1, EmptySeq
  <2>3. QED
    BY <1>6, <2>2 DEF b, v
<1>7. CASE v # <<>>
  <2>1. b = head \o body
    BY <1>2, <1>7
  <2>2. b \in Seq(DiagRow) /\ Follows(head, body, b)
    BY <1>4, <1>5, <2>1, Joined
  <2>3. Len(b) >= 1 /\ b[1] = Header(p)
    BY <1>4, <1>5, <2>2 DEF Follows
  <2>4. ASSUME NEW k \in 1..Len(b) PROVE b[k].path = p /\ (b[k].diag = NoDiag => k = 1)
    <3>1. CASE k \in 1..Len(head)
      BY <1>3, <1>4, <2>3, <3>1
    <3>2. CASE \E j \in 1..Len(body) : k = Len(head) + j
      <4>1. PICK j \in 1..Len(body) : b[k] = body[j]
        BY <2>2, <3>2 DEF Follows
      <4>2. body[j].path = p /\ body[j].diag # NoDiag
        BY <1>5, <4>1
      <4>3. QED
        BY <4>1, <4>2
    <3>3. QED
      BY <2>2, <3>1, <3>2 DEF Follows
  <2>5. QED
    BY <2>2, <2>3, <2>4 DEF b
<1>8. QED
  BY <1>6, <1>7

ListedFile == [path : DiagPaths, diags : Seq(Diagnostic)]

\* A file is in the snapshot once, and each has a fold.
ErrorsInv ==
    /\ stored \in [DiagPaths -> Seq(Diagnostic)]
    /\ snapshot \in Seq(ListedFile)
    /\ \A i, j \in 1..Len(snapshot) : snapshot[i].path = snapshot[j].path => i = j
    /\ folds \in Seq(BOOLEAN)
    /\ Len(folds) >= Len(snapshot)

LEMMA ErrorsStart == ErrorsInit => ErrorsInv
<1>1. SUFFICES ASSUME ErrorsInit PROVE ErrorsInv
  OBVIOUS
<1>2. \A T : <<>> \in Seq(T) /\ Len(<<>>) = 0
  BY EmptySeq
<1>3. QED
  BY <1>1, <1>2 DEF ErrorsInit, ErrorsInv

LEMMA RenewKeeps ==
    ASSUME ErrorsInv, RenewSnapshot
    PROVE  ErrorsInv'
<1> DEFINE known == {snapshot[i].path : i \in DOMAIN snapshot}
           new == {p \in DiagPaths \ known : stored[p] # <<>>}
           gone == {p \in DiagPaths : stored[p] = <<>>}
           old == [i \in DOMAIN snapshot |-> snapshot[i].path]
           n == Len(snapshot)
<1>1. PICK added \in SetToSeqs(new) :
          LET paths == old \o added
              left == Dropping(paths, gone)
          IN /\ snapshot' = [i \in DOMAIN left |-> [path |-> left[i], diags |-> stored[left[i]]]]
             /\ folds' = [i \in 1..(IF Len(paths) > Len(folds) THEN Len(paths) ELSE Len(folds)) |->
                              IF i \in DOMAIN folds THEN folds[i] ELSE TRUE]
  BY DEF RenewSnapshot
<1>2. /\ n \in Nat /\ DOMAIN snapshot = 1..n
      /\ \A i \in 1..n : snapshot[i] \in ListedFile /\ snapshot[i].path \in DiagPaths
  <2>1. n \in Nat /\ DOMAIN snapshot = 1..n /\ \A i \in 1..n : snapshot[i] \in ListedFile
    BY LenProperties, ElementOfSeq DEF ErrorsInv
  <2>2. QED
    BY <2>1 DEF ListedFile
<1>3. old \in Seq(DiagPaths) /\ Len(old) = n /\ \A i \in 1..n : old[i] = snapshot[i].path
  <2>1. old \in [1..n -> DiagPaths]
    BY <1>2
  <2>2. QED
    BY <1>2, <2>1, FunctionIsSeq
<1>4. Distinct(old)
  BY <1>3 DEF Distinct, ErrorsInv
<1>5. /\ added \in Seq(new) /\ added \in Seq(DiagPaths) /\ Distinct(added)
      /\ \A k \in 1..Len(added) : added[k] \in new
  <2>1. IsFiniteSet(new) /\ Cardinality(new) \in Nat
    <3>1. new \subseteq DiagPaths /\ IsFiniteSet(DiagPaths)
      BY DiagsAssumption
    <3>2. QED
      BY <3>1, FS_Subset, FS_CardinalityType
  <2>2. /\ added \in [1..Cardinality(new) -> new]
        /\ \A i, j \in 1..Cardinality(new) : i # j => added[i] # added[j]
    BY DEF SetToSeqs
  <2>3. added \in Seq(new) /\ Len(added) = Cardinality(new)
    BY <2>1, <2>2, FunctionIsSeq, ZenonT(40)
  <2>4. added \in Seq(DiagPaths)
    BY <2>3, SeqMonotonic
  <2>5. QED
    BY <2>2, <2>3, <2>4, ElementOfSeq DEF Distinct
<1>6. \A i \in 1..n : old[i] \notin new
  BY <1>2, <1>3
<1> HIDE DEF known, new, old
<1> DEFINE paths == old \o added
           left == Dropping(paths, gone)
           m == IF Len(paths) > Len(folds) THEN Len(paths) ELSE Len(folds)
<1>7. paths \in Seq(DiagPaths) /\ Follows(old, added, paths)
  BY <1>3, <1>5, Joined
<1> HIDE DEF paths
<1>8. Distinct(paths)
  <2>1. SUFFICES ASSUME NEW i \in 1..Len(paths), NEW j \in 1..Len(paths), paths[i] = paths[j]
                 PROVE  i = j
    BY DEF Distinct
  <2>2. \/ i \in 1..Len(old) /\ paths[i] = old[i]
        \/ \E k \in 1..Len(added) : i = Len(old) + k /\ paths[i] = added[k]
    BY <1>7 DEF Follows
  <2>3. \/ j \in 1..Len(old) /\ paths[j] = old[j]
        \/ \E k \in 1..Len(added) : j = Len(old) + k /\ paths[j] = added[k]
    BY <1>7 DEF Follows
  <2>4. QED
    BY <1>3, <1>4, <1>5, <1>6, <2>1, <2>2, <2>3 DEF Distinct
<1>9. left \in Seq(DiagPaths) /\ Distinct(left) /\ Len(left) <= Len(paths)
  BY <1>7, <1>8, DroppingKeeps, DroppingShortens
<1>10. snapshot' = [i \in DOMAIN left |-> [path |-> left[i], diags |-> stored[left[i]]]]
  BY <1>1 DEF paths, old, new, known
<1>11. folds' = [i \in 1..m |-> IF i \in DOMAIN folds THEN folds[i] ELSE TRUE]
  BY <1>1 DEF paths, old, new, known
<1> HIDE DEF left, gone
<1>12. /\ snapshot' \in Seq(ListedFile) /\ Len(snapshot') = Len(left)
       /\ \A i \in 1..Len(left) : snapshot'[i].path = left[i]
  <2>1. DOMAIN left = 1..Len(left) /\ Len(left) \in Nat /\ \A i \in 1..Len(left) : left[i] \in DiagPaths
    BY <1>9, LenProperties, ElementOfSeq
  <2>2. snapshot' \in [1..Len(left) -> ListedFile] /\ \A i \in 1..Len(left) : snapshot'[i].path = left[i]
    BY <1>10, <2>1 DEF ListedFile, ErrorsInv
  <2>3. QED
    BY <2>1, <2>2, FunctionIsSeq
<1>13. folds' \in Seq(BOOLEAN) /\ Len(folds') >= Len(paths)
  <2>1. /\ Len(folds) \in Nat /\ Len(paths) \in Nat /\ DOMAIN folds = 1..Len(folds)
        /\ \A i \in 1..Len(folds) : folds[i] \in BOOLEAN
    BY <1>7, LenProperties, ElementOfSeq DEF ErrorsInv
  <2>2. m \in Nat /\ m >= Len(paths)
    BY <2>1
  <2> HIDE DEF m
  <2>3. folds' \in [1..m -> BOOLEAN]
    BY <1>11, <2>1
  <2>4. folds' \in Seq(BOOLEAN) /\ Len(folds') = m
    BY <2>2, <2>3, FunctionIsSeq
  <2>5. QED
    BY <2>2, <2>4
<1>14. stored' = stored
  BY DEF RenewSnapshot
<1>15. Len(folds') >= Len(snapshot')
  <2>1. Len(folds') \in Nat /\ Len(left) \in Nat /\ Len(paths) \in Nat
    BY <1>7, <1>9, <1>13, LenProperties
  <2>2. QED
    BY <1>9, <1>12, <1>13, <2>1
<1>16. \A i, j \in 1..Len(snapshot') : snapshot'[i].path = snapshot'[j].path => i = j
  BY <1>9, <1>12 DEF Distinct
<1>17. QED
  BY <1>12, <1>13, <1>14, <1>15, <1>16 DEF ErrorsInv

LEMMA ErrorsStep ==
    ErrorsInv /\ [ErrorsNext]_errorsVars => ErrorsInv'
<1>1. SUFFICES ASSUME ErrorsInv, [ErrorsNext]_errorsVars PROVE ErrorsInv'
  OBVIOUS
<1>2. CASE UNCHANGED <<stored, snapshot, folds>>
  BY <1>1, <1>2 DEF ErrorsInv
<1>3. CASE StorePublished
  <2>1. stored' \in [DiagPaths -> Seq(Diagnostic)]
    BY <1>1, <1>3, DiagsAssumption DEF StorePublished, ErrorsInv
  <2>2. QED
    BY <1>1, <1>3, <2>1 DEF StorePublished, ErrorsInv
<1>4. CASE RenewSnapshot
  BY <1>1, <1>4, RenewKeeps
<1>5. Len(folds) \in Nat /\ DOMAIN folds = 1..Len(folds) /\ \A i \in 1..Len(folds) : folds[i] \in BOOLEAN
  BY <1>1, LenProperties, ElementOfSeq DEF ErrorsInv
<1>6. ASSUME folds' \in [1..Len(folds) -> BOOLEAN], UNCHANGED <<stored, snapshot>> PROVE ErrorsInv'
  <2>1. folds' \in Seq(BOOLEAN) /\ Len(folds') = Len(folds)
    BY <1>5, <1>6, FunctionIsSeq
  <2>2. QED
    BY <1>1, <1>6, <2>1 DEF ErrorsInv
<1>7. ASSUME NEW r, FoldHeader(r) PROVE ErrorsInv'
  <2>1. folds' \in [1..Len(folds) -> BOOLEAN] /\ UNCHANGED <<stored, snapshot>>
    BY <1>5, <1>7 DEF FoldHeader
  <2>2. QED
    BY <1>6, <2>1
<1>8. ASSUME NEW b \in BOOLEAN, FoldAll(b) PROVE ErrorsInv'
  <2>1. folds' \in [1..Len(folds) -> BOOLEAN] /\ UNCHANGED <<stored, snapshot>>
    BY <1>5, <1>8 DEF FoldAll
  <2>2. QED
    BY <1>6, <2>1
<1>9. CASE UNCHANGED errorsVars
  BY <1>2, <1>9 DEF errorsVars
<1>10. CASE ClickBeside \/ ReleaseDrag \/ MarkAll
  BY <1>2, <1>10 DEF ClickBeside, ReleaseDrag, MarkAll
<1>11. ASSUME NEW r, NEW additive, DragTo(r) \/ ClickError(r, additive) PROVE ErrorsInv'
  BY <1>2, <1>11 DEF DragTo, ClickError
<1>12. ASSUME NEW b, Arrow(b) PROVE ErrorsInv'
  BY <1>2, <1>12 DEF Arrow
<1>13. ASSUME NEW x, ToggleFilter(x) \/ Search(x) PROVE ErrorsInv'
  BY <1>2, <1>13 DEF ToggleFilter, Search
<1>14. QED
  BY <1>1, <1>3, <1>4, <1>7, <1>8, <1>9, <1>10, <1>11, <1>12, <1>13 DEF ErrorsNext

-----------------------------------------------------------------------------
\* The rows of the panel.

Blocks == [i \in DOMAIN snapshot |-> RowsOfFile(i)]

LEMMA BlocksAre ==
    ASSUME ErrorsInv
    PROVE  /\ Blocks \in Seq(Seq(DiagRow)) /\ Len(Blocks) = Len(snapshot)
           /\ \A i \in 1..Len(snapshot) :
                  /\ snapshot[i].path \in DiagPaths /\ snapshot[i].diags \in Seq(Diagnostic)
                  /\ Blocks[i] = RowsOfFile(i)
                  /\ RowsOfFile(i) = Block(snapshot[i], folds[i], Hidden)
<1>1. /\ Len(snapshot) \in Nat /\ DOMAIN snapshot = 1..Len(snapshot)
      /\ \A i \in 1..Len(snapshot) : snapshot[i] \in ListedFile
  BY LenProperties, ElementOfSeq DEF ErrorsInv
<1>2. ASSUME NEW i \in 1..Len(snapshot)
      PROVE  /\ snapshot[i].path \in DiagPaths /\ snapshot[i].diags \in Seq(Diagnostic)
             /\ snapshot[i] = [path |-> snapshot[i].path, diags |-> snapshot[i].diags]
             /\ RowsOfFile(i) = Block(snapshot[i], folds[i], Hidden)
             /\ RowsOfFile(i) \in Seq(DiagRow)
  <2>1. /\ snapshot[i].path \in DiagPaths /\ snapshot[i].diags \in Seq(Diagnostic)
        /\ snapshot[i] = [path |-> snapshot[i].path, diags |-> snapshot[i].diags]
    BY <1>1 DEF ListedFile
  <2>2. RowsOfFile(i) = Block(snapshot[i], folds[i], Hidden)
    BY DEF RowsOfFile, Block
  <2>3. Block(snapshot[i], folds[i], Hidden) \in Seq(DiagRow)
    <3> DEFINE p == snapshot[i].path
               ds == snapshot[i].diags
    <3>1. Block([path |-> p, diags |-> ds], folds[i], Hidden) \in Seq(DiagRow)
      BY <2>1, BlockIs
    <3>2. QED
      BY <2>1, <3>1
  <2>4. QED
    BY <2>1, <2>2, <2>3
<1>3. Blocks \in [1..Len(snapshot) -> Seq(DiagRow)]
  BY <1>1, <1>2 DEF Blocks
<1>4. QED
  BY <1>1, <1>2, <1>3, FunctionIsSeq DEF Blocks

\* Rows are numbered from 0 and cut at the room there is.
CutRows(all) == SubSeq(all, 1, IF Len(all) > RowRoom THEN RowRoom ELSE Len(all))

LEMMA CutRowsAre ==
    ASSUME NEW T, NEW all \in Seq(T)
    PROVE  /\ Len(CutRows(all)) \in Nat
           /\ \A r : r \in 0..(Len(CutRows(all)) - 1)
                     <=> r \in Nat /\ r < RowRoom /\ r + 1 \in 1..Len(all)
           /\ \A r \in 0..(Len(CutRows(all)) - 1) : CutRows(all)[r + 1] = all[r + 1]
<1> DEFINE l == Len(all)
           m == IF l > RowRoom THEN RowRoom ELSE l
           c == CutRows(all)
<1>1. l \in Nat /\ RowRoom \in Nat /\ m \in Nat /\ m <= l /\ m <= RowRoom /\ (m = l \/ m = RowRoom)
  BY LenProperties, DiagsAssumption
<1>2. \A i \in 1..m : all[i] \in T
  BY <1>1, ElementOfSeq
<1>3. c = SubSeq(all, 1, m)
  BY DEF CutRows
<1> HIDE DEF l, m, c
<1>4. 1 \in Int /\ m \in Int
  BY <1>1
<1>5. /\ Len(c) = IF 1 <= m THEN m - 1 + 1 ELSE 0
      /\ \A i \in 1..(m - 1 + 1) : c[i] = all[1 + i - 1]
  BY <1>2, <1>3, <1>4, SubSeqProperties
<1>6. Len(c) = m /\ m - 1 + 1 = m
  BY <1>1, <1>5
<1>7. \A r : r \in 0..(m - 1) <=> r \in Nat /\ r < RowRoom /\ r + 1 \in 1..l
  BY <1>1
<1>8. ASSUME NEW r \in 0..(m - 1) PROVE c[r + 1] = all[r + 1]
  <2>1. r + 1 \in 1..m /\ 1 + (r + 1) - 1 = r + 1
    BY <1>1
  <2>2. QED
    BY <1>5, <1>6, <2>1
<1>9. QED
  BY <1>1, <1>6, <1>7, <1>8 DEF c, l

\* What a row number shows goes by the snapshot, the folds and the filters.
LEMMA ShowsGoesBy ==
    ASSUME UNCHANGED <<snapshot, folds, filters, query>>, NEW r
    PROVE  Shows(r)' = Shows(r)
BY DEF Shows, RowNumbers, RowAt, ShownRows, Rows, RowsOfFile, Hidden, DiagVisible

LEMMA FoldHeaderStands ==
    ASSUME ErrorsInv, ErrorsInv', NEW h, FoldHeader(h)
    PROVE  Shows(h)' = Shows(h)
<1> DEFINE ss == Blocks
           tt == [j \in DOMAIN snapshot |-> RowsOfFile(j)']
           all == FlattenSeq(ss)
           n == Len(snapshot)
<1>1. /\ Blocks \in Seq(Seq(DiagRow)) /\ Len(Blocks) = n
      /\ \A j \in 1..n : /\ snapshot[j].path \in DiagPaths /\ snapshot[j].diags \in Seq(Diagnostic)
                         /\ Blocks[j] = RowsOfFile(j)
                         /\ RowsOfFile(j) = Block(snapshot[j], folds[j], Hidden)
  BY BlocksAre
<1>2. /\ h \in RowNumbers /\ IsHeader(h)
      /\ folds' = [folds EXCEPT ![FileOf(h)] = ~@]
      /\ UNCHANGED <<snapshot, filters, query>>
  BY DEF FoldHeader
<1>3. Rows = CutRows(all) /\ Rows' = CutRows(FlattenSeq(tt))
  BY <1>2 DEF Rows, Blocks, CutRows
<1>4. n \in Nat /\ DOMAIN snapshot = 1..n
  BY LenProperties DEF ErrorsInv
<1>5. Hidden' = Hidden
  BY <1>2 DEF Hidden, DiagVisible
<1>6. ASSUME NEW j \in 1..n PROVE tt[j] = Block(snapshot[j], folds'[j], Hidden)
  <2>1. RowsOfFile(j)' = Block(snapshot[j], folds'[j], Hidden)
    BY <1>2, <1>5 DEF RowsOfFile, Block
  <2>2. QED
    BY <1>4, <2>1
<1> DEFINE B(j, f) == Block(snapshot[j], f, Hidden)
\* What a file shows, folded or not.
<1>7. ASSUME NEW j \in 1..n, NEW f
      PROVE  /\ B(j, f) \in Seq(DiagRow)
             /\ Dropping(snapshot[j].diags, Hidden) # <<>> => Len(B(j, f)) >= 1
             /\ Len(B(j, f)) >= 1 => B(j, f)[1] = Header(snapshot[j].path)
             /\ \A k \in 1..Len(B(j, f)) :
                    B(j, f)[k].path = snapshot[j].path /\ (B(j, f)[k].diag = NoDiag => k = 1)
  <2> DEFINE p == snapshot[j].path
             ds == snapshot[j].diags
  <2>1. snapshot[j] = [path |-> p, diags |-> ds]
    <3>1. snapshot[j] \in ListedFile
      BY ElementOfSeq DEF ErrorsInv
    <3>2. QED
      BY <3>1 DEF ListedFile
  <2>2. p \in DiagPaths /\ ds \in Seq(Diagnostic)
    BY <1>1
  <2> HIDE DEF p, ds
  <2>3. LET b == Block([path |-> p, diags |-> ds], f, Hidden)
        IN /\ b \in Seq(DiagRow)
           /\ Dropping(ds, Hidden) # <<>> => Len(b) >= 1
           /\ Len(b) >= 1 => b[1] = Header(p)
           /\ \A k \in 1..Len(b) : b[k].path = p /\ (b[k].diag = NoDiag => k = 1)
    BY <2>2, BlockIs
  <2>4. QED
    BY <2>1, <2>3 DEF p, ds
<1>8. tt \in Seq(Seq(DiagRow)) /\ Len(tt) = n
  <2>1. tt \in [1..n -> Seq(DiagRow)]
    BY <1>4, <1>6, <1>7
  <2> HIDE DEF tt
  <2>2. QED
    BY <1>4, <2>1, FunctionIsSeq
<1> HIDE DEF ss, tt, all
<1>9. PICK f : Strung(ss, f)
  BY <1>1, StrungIs DEF ss
<1>10. all \in Seq(DiagRow) /\ all = f[n]
       /\ \A r \in 1..Len(all) : \E i \in 1..n : \E k \in 1..Len(ss[i]) :
              r = Len(f[i - 1]) + k /\ all[r] = ss[i][k]
  <2>1. all = f[n]
    BY <1>1, <1>9 DEF Strung, all, ss
  <2>2. n \in 0..Len(ss) /\ ss \in Seq(Seq(DiagRow))
    BY <1>1, <1>4 DEF ss
  <2>3. f[n] \in Seq(DiagRow) /\ Placed(ss, f, n)
    BY <1>9, <2>2, StrungPlaces
  <2>4. QED
    BY <2>1, <2>3 DEF Placed
<1>11. /\ h \in Nat /\ h < RowRoom /\ h + 1 \in 1..Len(all)
       /\ RowAt(h) = all[h + 1]
  BY <1>2, <1>3, <1>10, CutRowsAre DEF RowNumbers, ShownRows, RowAt
\* The row is the header of one file, which is the one that is folded.
<1>12. PICK i \in 1..n : \E k \in 1..Len(ss[i]) : h + 1 = Len(f[i - 1]) + k /\ all[h + 1] = ss[i][k]
  BY <1>10, <1>11
<1>13. PICK k \in 1..Len(ss[i]) : h + 1 = Len(f[i - 1]) + k /\ all[h + 1] = ss[i][k]
  BY <1>12
<1>14. ss[i] = B(i, folds[i])
  BY <1>1 DEF ss
<1>15. k = 1 /\ RowAt(h).path = snapshot[i].path
  <2> DEFINE b == B(i, folds[i])
  <2>1. \A q \in 1..Len(b) : b[q].path = snapshot[i].path /\ (b[q].diag = NoDiag => q = 1)
    BY <1>7
  <2>2. k \in 1..Len(b) /\ RowAt(h) = b[k]
    BY <1>11, <1>13, <1>14
  <2>3. RowAt(h).diag = NoDiag
    BY <1>2 DEF IsHeader
  <2> HIDE DEF b
  <2>4. QED
    BY <2>1, <2>2, <2>3
<1>16. FileOf(h) = i
  BY <1>4, <1>15 DEF FileOf, ErrorsInv
<1>17. ASSUME NEW j \in 1..n, j # i PROVE ss[j] = tt[j]
  <2>1. folds'[j] = folds[j]
    BY <1>2, <1>16, <1>17
  <2>2. QED
    BY <1>1, <1>6, <1>17, <2>1 DEF ss
<1>18. Len(ss[i]) >= 1 /\ Dropping(snapshot[i].diags, Hidden) # <<>>
  <2>1. Len(ss[i]) >= 1
    BY <1>7, <1>13, <1>14, LenProperties
  <2>2. Dropping(snapshot[i].diags, Hidden) = <<>> => B(i, folds[i]) = <<>>
    BY DEF Block
  <2>3. Len(<<>>) = 0
    OBVIOUS
  <2>4. QED
    BY <1>14, <2>1, <2>2, <2>3
<1>19. tt[i] = B(i, folds'[i])
  BY <1>6
<1>20. Len(tt[i]) >= 1 /\ ss[i][1] = tt[i][1]
  BY <1>7, <1>14, <1>18, <1>19
<1> HIDE DEF B
<1>21. /\ h + 1 \in 1..Len(FlattenSeq(tt)) /\ FlattenSeq(tt)[h + 1] = all[h + 1]
  <2>1. ss \in Seq(Seq(DiagRow)) /\ Len(ss) = n
    BY <1>1 DEF ss
  <2>2. AlikeButAt(i, ss, tt)
    BY <1>8, <1>17, <1>18, <1>20, <2>1 DEF AlikeButAt
  <2>3. i \in 1..Len(ss) /\ h + 1 = Len(f[i - 1]) + 1
    BY <1>13, <1>15, <2>1
  <2>4. /\ h + 1 \in 1..Len(FlattenSeq(tt))
        /\ FlattenSeq(ss)[h + 1] = FlattenSeq(tt)[h + 1]
    BY <1>8, <1>9, <2>1, <2>2, <2>3, HeadStays
  <2>5. QED
    BY <2>4 DEF all
<1>22. FlattenSeq(tt) \in Seq(DiagRow)
  <2>1. PICK g : Strung(tt, g)
    BY <1>8, StrungIs
  <2>2. n \in 0..Len(tt)
    BY <1>4, <1>8
  <2>3. g[n] \in Seq(DiagRow) /\ FlattenSeq(tt) = g[n]
    BY <1>8, <2>1, <2>2, StrungPlaces DEF Strung
  <2>4. QED
    BY <2>3
<1>23. h \in RowNumbers' /\ RowAt(h)' = all[h + 1]
  BY <1>3, <1>11, <1>21, <1>22, CutRowsAre DEF RowNumbers, ShownRows, RowAt
<1>24. QED
  BY <1>2, <1>11, <1>23 DEF Shows

\* What the panel lists and where it is folded fits together.
THEOREM ErrorsPanelStands == ErrorsSpec => []ErrorsInv
<1>1. ErrorsInit => ErrorsInv
  BY ErrorsStart
<1>2. ErrorsInv /\ [ErrorsNext]_errorsVars => ErrorsInv'
  BY ErrorsStep
<1>3. QED
  BY <1>1, <1>2, PTL DEF ErrorsSpec

LEMMA ErrorMarksStep ==
    ASSUME ErrorsInv, ErrorsInv', [ErrorsNext]_errorsVars
    PROVE  RenumberedByErrors \/ \A r \in markedRows \cap markedRows' : Shows(r)' = Shows(r)
<1> DEFINE Stand == \A r \in markedRows \cap markedRows' : Shows(r)' = Shows(r)
<1>1. ASSUME UNCHANGED <<snapshot, folds, filters, query>> PROVE Stand
  BY <1>1, ShowsGoesBy
<1>2. ASSUME UNCHANGED errorsVars PROVE Stand
  BY <1>1, <1>2 DEF errorsVars
<1>3. ASSUME StorePublished PROVE Stand
  BY <1>1, <1>3 DEF StorePublished
<1>4. ASSUME ClickBeside \/ ReleaseDrag \/ MarkAll PROVE Stand
  BY <1>1, <1>4 DEF ClickBeside, ReleaseDrag, MarkAll
<1>5. ASSUME NEW r, DragTo(r) PROVE Stand
  BY <1>1, <1>5 DEF DragTo
<1>6. ASSUME NEW r, NEW additive, ClickError(r, additive) PROVE Stand
  BY <1>1, <1>6 DEF ClickError
<1>7. ASSUME NEW down, Arrow(down) PROVE Stand
  BY <1>1, <1>7 DEF Arrow
\* What renumbers rows on purpose leaves no marks.
<1>8. ASSUME NEW x, ToggleFilter(x) \/ Search(x) PROVE Stand
  BY <1>8 DEF ToggleFilter, Search, MarksCleared
<1>9. ASSUME NEW h, FoldHeader(h) PROVE Stand
  <2>1. markedRows' = {h}
    BY <1>9 DEF FoldHeader
  <2>2. Shows(h)' = Shows(h)
    BY <1>9, FoldHeaderStands
  <2>3. QED
    BY <2>1, <2>2
<1>10. RenewSnapshot \/ (\E folded \in BOOLEAN : FoldAll(folded)) => RenumberedByErrors
  BY DEF RenumberedByErrors
<1> HIDE DEF Stand
<1>11. RenumberedByErrors \/ Stand
  BY <1>2, <1>3, <1>4, <1>5, <1>6, <1>7, <1>8, <1>9, <1>10 DEF ErrorsNext
<1>12. QED
  BY <1>11 DEF Stand

\* ErrorMarksStand: a marked row of the errors panel stays the diagnostic it
\* was, whatever the user folds, filters or searches (tool_errors.c:301, 581).
THEOREM ErrorMarksAlwaysStand == ErrorsSpec => ErrorMarksStand
<1>1. ErrorsInv /\ ErrorsInv' /\ [ErrorsNext]_errorsVars
      => [RenumberedByErrors \/ \A r \in markedRows \cap markedRows' : Shows(r)' = Shows(r)]_errorsVars
  BY ErrorMarksStep
<1>2. QED
  BY <1>1, ErrorsPanelStands, PTL DEF ErrorsSpec, ErrorMarksStand

-----------------------------------------------------------------------------
(* The libraries panel.                                                    *)

\* LibraryMarksStand: a marked row of the libraries panel stays the row it was,
\* whatever is folded, published or chosen meanwhile (tool_libraries.c:236).
THEOREM LibraryMarksAlwaysStand == LibrariesSpec => LibraryMarksStand
<1> DEFINE Stand == \A r \in marks \cap marks' : RowShown(r)' = RowShown(r)
<1>1. ASSUME UNCHANGED flatRows PROVE Stand
  BY <1>1 DEF RowShown, RowHit
<1>2. ASSUME NEW v, NEW system, NEW buckets, NEW open, Rebuilt(v, system, buckets, open) PROVE Stand
  BY <1>2 DEF Rebuilt, MarksAfter
<1>3. ASSUME [LibrariesNext]_librariesVars PROVE Stand
  <2>1. CASE UNCHANGED librariesVars
    BY <1>1, <2>1 DEF librariesVars
  <2>2. CASE IndexBuilt \/ EndDrag \/ MarkAllRows
    BY <1>1, <2>2 DEF IndexBuilt, EndDrag, MarkAllRows
  <2>3. CASE RowsRenewed
    BY <1>2, <2>3 DEF RowsRenewed
  <2>4. CASE ToggleSystem
    BY <1>2, <2>4 DEF ToggleSystem
  <2>5. CASE NextView
    BY <1>2, <2>5 DEF NextView
  <2>6. ASSUME NEW r, ClickPrefix(r) PROVE Stand
    BY <1>2, <2>6 DEF ClickPrefix
  <2>7. ASSUME NEW r, NEW how, ClickLibraryRow(r, how) PROVE Stand
    BY <1>1, <2>7 DEF ClickLibraryRow
  <2>8. ASSUME NEW r, DragOverRow(r) PROVE Stand
    BY <1>1, <2>8 DEF DragOverRow
  <2>9. ASSUME NEW k, ClickNode(k) PROVE Stand
    BY <1>1, <2>9 DEF ClickNode
  <2> HIDE DEF Stand
  <2>10. QED
    BY <1>3, <2>1, <2>2, <2>3, <2>4, <2>5, <2>6, <2>7, <2>8, <2>9 DEF LibrariesNext
<1>4. [LibrariesNext]_librariesVars => [Stand]_librariesVars
  BY <1>3
<1>5. QED
  BY <1>4, PTL DEF LibrariesSpec, LibraryMarksStand

\* MarkedRowsStand: both at once, as the panels are checked.
THEOREM MarkedRowsAlwaysStand == ErrorsSpec /\ LibrariesSpec => MarkedRowsStand
BY ErrorMarksAlwaysStand, LibraryMarksAlwaysStand DEF MarkedRowsStand

=============================================================================
