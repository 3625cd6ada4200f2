----------------------------- MODULE WorldProofs -----------------------------
(***************************************************************************)
(* Theorems about World: for every set of commands (Jobs), any nodes,      *)
(* hosts and ports, any choice of PortSelect and any program of splits,    *)
(* the rank a process computes from its command line is the one ffrun has  *)
(* computed for it (RanksAreOne), the program gets its own arguments       *)
(* (ArgsAreDelivered), a job comes up as a whole or not at all             *)
(* (RanksAreCovered), joins as one job of Comm (JoinsAreOne), and has what *)
(* CommProofs says of such a job (JobsSplitRight).                         *)
(*                                                                         *)
(* The first two follow from LaunchInv, which says of every process ffrun  *)
(* has started which entry of which list it stands for, and what its       *)
(* command line looks like. Two arguments are needed. The lists of the two *)
(* languages are strictly sorted by the same order and have the same       *)
(* elements, and there is only one such list (SortedUnique, RanksAlike):   *)
(* nothing depends on how either side sorts. And parse_args, token by      *)
(* token, finds in the line ToArgv makes, with or without a container,     *)
(* the three values ffrun has put there and stops at the -- (ParsesLine,   *)
(* CommandLine).                                                           *)
(*                                                                         *)
(* The others need NodesInv too: on each node the processes of its own     *)
(* entries are there, up to where CmdResultGenerator stands, and no other  *)
(* ones. So no entry is started twice (OneOfEach) and none is left out     *)
(* (AllOfEach).                                                            *)
(***************************************************************************)
EXTENDS World, CommProofs, FiniteSetTheorems, TLAPS

-----------------------------------------------------------------------------
(* Induction, along a set of numbers. *)

\* A set of numbers that is not empty has a least one.
LEMMA Least ==
    ASSUME NEW T, T \subseteq Nat, T # {}
    PROVE  \E x \in T : \A y \in T : x =< y
<1> DEFINE R == OpToRel(<, Nat)
<1>1. IsWellFoundedOn(R, Nat)
  BY NatLessThanWellFounded
<1>2. \A x, y \in Nat : <<x, y>> \in R <=> x < y
  BY DEF OpToRel
<1> HIDE DEF R
<1>3. PICK x \in T : \A y \in T : ~(<<y, x>> \in R)
  BY <1>1, WFMin
<1>4. \A y \in T : x \in Nat /\ y \in Nat
  OBVIOUS
<1>5. \A y \in T : ~(y < x)
  BY <1>2, <1>3, <1>4
<1>6. \A y \in T : x =< y
  BY <1>4, <1>5
<1> WITNESS x \in T
<1> QED
  BY <1>6

\* A set with 1 that has, with a number, the next one too, up to n.
LEMMA Climb ==
    ASSUME NEW S, NEW n \in Nat, n >= 1 => 1 \in S,
           \A i \in 2..n : i - 1 \in S => i \in S
    PROVE  1..n \subseteq S
<1> DEFINE T == (1..n) \ S
<1> SUFFICES ASSUME T # {} PROVE FALSE
  OBVIOUS
<1>1. PICK x \in T : \A y \in T : x =< y
  <2>1. T \subseteq Nat
    OBVIOUS
  <2> HIDE DEF T
  <2> QED
    BY <2>1, Least
<1>2. x \in 2..n /\ x - 1 \in 1..n /\ ~(x =< x - 1)
  OBVIOUS
<1>3. x - 1 \in S
  BY <1>1, <1>2
<1> QED
  BY <1>2, <1>3

\* 1..n has n elements.
LEMMA IntervalSize == \A n \in Nat : IsFiniteSet(1..n) /\ Cardinality(1..n) = n
<1> TAKE n \in Nat
<1>1. n \in Int /\ 1 \in Int /\ (1 > n => n = 0) /\ n - 1 + 1 = n
  OBVIOUS
<1> QED
  BY <1>1, FS_Interval

-----------------------------------------------------------------------------
(* Strict orders of finite sets, as sets of pairs: how many are below an   *)
(* element gives its place.                                                *)

\* B is a strict total order of X.
StrictOrder(X, B) ==
    /\ \A x \in X : <<x, x>> \notin B
    /\ \A x, y, z \in X : <<x, y>> \in B /\ <<y, z>> \in B => <<x, z>> \in B
    /\ \A x, y \in X : x # y => <<x, y>> \in B \/ <<y, x>> \in B

Below(X, B) == [x \in X |-> Cardinality({y \in X : <<y, x>> \in B})]

\* The larger element has more below it.
LEMMA BelowRises ==
    ASSUME NEW X, IsFiniteSet(X), NEW B, StrictOrder(X, B)
    PROVE  /\ \A x \in X : Below(X, B)[x] \in 0..(Cardinality(X) - 1)
           /\ \A x, y \in X : <<x, y>> \in B => Below(X, B)[x] < Below(X, B)[y]
<1> DEFINE below(x) == {y \in X : <<y, x>> \in B}
<1>1. \A x \in X : Below(X, B)[x] = Cardinality(below(x))
  BY DEF Below
<1>2. \A x \in X : /\ IsFiniteSet(below(x)) /\ Cardinality(below(x)) \in Nat
                   /\ Cardinality(below(x)) < Cardinality(X)
  <2> TAKE x \in X
  <2>1. below(x) \in SUBSET X /\ x \notin below(x)
    BY DEF StrictOrder
  <2>2. below(x) # X
    BY <2>1
  <2> HIDE DEF below
  <2> QED
    BY <2>1, <2>2, FS_Subset, FS_CardinalityType
<1>3. ASSUME NEW x \in X, NEW y \in X, <<x, y>> \in B
      PROVE  Cardinality(below(x)) < Cardinality(below(y))
  <2>1. below(x) \in SUBSET below(y)
    BY <1>3 DEF StrictOrder
  <2>2. x \in below(y) /\ x \notin below(x)
    BY <1>3 DEF StrictOrder
  <2> HIDE DEF below
  <2> QED
    BY <1>2, <2>1, <2>2, FS_Subset, FS_CardinalityType
<1>4. Cardinality(X) \in Nat
  BY FS_CardinalityType
<1> HIDE DEF below
<1> QED
  BY <1>1, <1>2, <1>3, <1>4

\* Every place is taken by exactly one element.
LEMMA BelowBijective ==
    ASSUME NEW X, IsFiniteSet(X), NEW B, StrictOrder(X, B)
    PROVE  /\ \A x, y \in X : Below(X, B)[x] = Below(X, B)[y] => x = y
           /\ \A c \in 0..(Cardinality(X) - 1) : \E x \in X : Below(X, B)[x] = c
<1> DEFINE rank == Below(X, B)
           T == 0..(Cardinality(X) - 1)
<1>1. \A x \in X : rank[x] \in T
  BY BelowRises
<1>2. \A x, y \in X : rank[x] = rank[y] => x = y
  <2> SUFFICES ASSUME NEW x \in X, NEW y \in X, rank[x] = rank[y], x # y PROVE FALSE
    OBVIOUS
  <2>1. <<x, y>> \in B \/ <<y, x>> \in B
    BY DEF StrictOrder
  <2>2. rank[x] < rank[y] \/ rank[y] < rank[x]
    BY <2>1, BelowRises
  <2>3. rank[x] \in Int
    BY <1>1
  <2> QED
    BY <2>2, <2>3
<1>3. Cardinality(X) \in Nat
  BY FS_CardinalityType
<1>4. IsFiniteSet(T) /\ Cardinality(T) = Cardinality(X)
  <2> DEFINE b == Cardinality(X) - 1
  <2>1. 0 \in Int /\ b \in Int /\ (IF 0 > b THEN 0 ELSE b - 0 + 1) = Cardinality(X)
    BY <1>3
  <2> HIDE DEF b
  <2>2. IsFiniteSet(0..b) /\ Cardinality(0..b) = (IF 0 > b THEN 0 ELSE b - 0 + 1)
    BY <2>1, FS_Interval
  <2> QED
    BY <2>1, <2>2 DEF b
<1>5. rank \in Injection(X, T)
  <2>1. rank \in [X -> T]
    BY <1>1 DEF Below
  <2> QED
    BY <2>1, <1>2 DEF Injection, IsInjective
<1>6. rank \in Surjection(X, T)
  <2> HIDE DEF rank, T
  <2> QED
    BY <1>4, <1>5, FS_Injection
<1> QED
  BY <1>2, <1>6 DEF Surjection

\* at lists the elements of X by their places.
Lists(X, B, at) ==
    \A k \in 1..Cardinality(X) : at[k] \in X /\ Below(X, B)[at[k]] = k - 1

\* A list whose k-th entry has k - 1 elements below it has all elements, in order.
LEMMA ListsInOrder ==
    ASSUME NEW X, IsFiniteSet(X), NEW B, StrictOrder(X, B), NEW at, Lists(X, B, at)
    PROVE  /\ \A x \in X : \E k \in 1..Cardinality(X) : at[k] = x
           /\ \A j, k \in 1..Cardinality(X) : j < k => <<at[j], at[k]>> \in B
<1>1. Cardinality(X) \in Nat
  BY FS_CardinalityType
<1>2. ASSUME NEW x \in X PROVE \E k \in 1..Cardinality(X) : at[k] = x
  <2> DEFINE k == Below(X, B)[x] + 1
  <2>1. k \in 1..Cardinality(X) /\ k - 1 = Below(X, B)[x]
    BY <1>1, BelowRises
  <2>2. at[k] \in X /\ Below(X, B)[at[k]] = Below(X, B)[x]
    BY <2>1 DEF Lists
  <2>3. at[k] = x
    BY <2>2, BelowBijective
  <2> QED
    BY <2>1, <2>3
<1>3. ASSUME NEW j \in 1..Cardinality(X), NEW k \in 1..Cardinality(X), j < k
      PROVE  <<at[j], at[k]>> \in B
  <2>1. /\ at[j] \in X /\ at[k] \in X
        /\ Below(X, B)[at[j]] = j - 1 /\ Below(X, B)[at[k]] = k - 1
    BY DEF Lists
  <2>2. at[j] # at[k] /\ ~(Below(X, B)[at[k]] < Below(X, B)[at[j]])
    BY <2>1, <1>3
  <2>3. <<at[j], at[k]>> \in B \/ <<at[k], at[j]>> \in B
    BY <2>1, <2>2 DEF StrictOrder
  <2> QED
    BY <2>1, <2>2, <2>3, BelowRises
<1> QED
  BY <1>2, <1>3

-----------------------------------------------------------------------------
(* Sequences whose entries follow each other in an order. *)

\* The sequence follows the order R.
Follows(s, R) == \A j, k \in 1..Len(s) : j < k => <<s[j], s[k]>> \in R

\* Only one sequence of the same entries is in a strict order.
LEMMA SortedUnique ==
    ASSUME NEW X, NEW R, StrictOrder(X, R), NEW s \in Seq(X), NEW t \in Seq(X),
           Follows(s, R), Follows(t, R), Range(s) = Range(t)
    PROVE  s = t
<1>1. \A u \in Seq(X) : /\ Len(u) \in Nat /\ DOMAIN u = 1..Len(u)
                        /\ Range(u) = {u[i] : i \in 1..Len(u)}
                        /\ \A i \in 1..Len(u) : u[i] \in X
  BY DEF Range
<1>2. \A x, y \in X : ~(<<x, y>> \in R /\ <<y, x>> \in R)
  BY DEF StrictOrder
<1> DEFINE Agree(i) == i \in 1..Len(s) /\ i \in 1..Len(t) /\ s[i] = t[i]
\* If they agree before i, they agree at i.
<1>3. ASSUME NEW u \in Seq(X), NEW v \in Seq(X), Follows(u, R), Follows(v, R),
             Range(u) = Range(v), NEW i \in 1..Len(u),
             \A j \in 1..(i - 1) : j \in 1..Len(v) /\ u[j] = v[j]
      PROVE  \E k \in 1..Len(v) : i =< k /\ v[k] = u[i]
  <2>1. u[i] \in Range(v)
    BY <1>1, <1>3
  <2>2. PICK k \in 1..Len(v) : v[k] = u[i]
    BY <1>1, <2>1
  <2>3. ~(k < i)
    <3> SUFFICES ASSUME k < i PROVE FALSE
      OBVIOUS
    <3>1. k \in 1..(i - 1) /\ k \in 1..Len(u)
      BY <1>1
    <3>2. u[k] = v[k] /\ <<u[k], u[i]>> \in R
      BY <3>1, <1>3 DEF Follows
    <3> QED
      BY <3>2, <2>2, <1>1, <1>2
  <2> QED
    BY <2>2, <2>3, <1>1
<1>4. ASSUME NEW i \in Nat, i >= 1, \A j \in 1..(i - 1) : Agree(j),
             i \in 1..Len(s) \/ i \in 1..Len(t)
      PROVE  Agree(i)
  <2>1. i \in 1..Len(s) => \E k \in 1..Len(t) : i =< k /\ t[k] = s[i]
    BY <1>3, <1>4
  <2>2. i \in 1..Len(t) => \E k \in 1..Len(s) : i =< k /\ s[k] = t[i]
    <3>1. \A j \in 1..(i - 1) : j \in 1..Len(s) /\ t[j] = s[j]
      BY <1>4
    <3> QED
      BY <1>3, <3>1
  <2>3. i \in 1..Len(s) /\ i \in 1..Len(t)
    BY <1>1, <1>4, <2>1, <2>2
  <2>4. PICK k \in 1..Len(t) : i =< k /\ t[k] = s[i]
    BY <2>1, <2>3
  <2>5. PICK l \in 1..Len(s) : i =< l /\ s[l] = t[i]
    BY <2>2, <2>3
  <2>6. k # i => <<t[i], t[k]>> \in R
    BY <2>3, <2>4 DEF Follows
  <2>7. l # i => <<s[i], s[l]>> \in R
    BY <2>3, <2>5 DEF Follows
  <2>8. k = i \/ l = i
    BY <1>1, <1>2, <2>3, <2>4, <2>5, <2>6, <2>7
  <2>9. s[i] = t[i]
    BY <2>4, <2>5, <2>8
  <2> QED
    BY <2>3, <2>9
<1> DEFINE Wrong == {i \in Nat : i >= 1 /\ (i \in 1..Len(s) \/ i \in 1..Len(t)) /\ ~Agree(i)}
<1>5. Wrong = {}
  <2> SUFFICES ASSUME Wrong # {} PROVE FALSE
    OBVIOUS
  <2>1. PICK i \in Wrong : \A j \in Wrong : i =< j
    <3>1. Wrong \in SUBSET Nat
      OBVIOUS
    <3> HIDE DEF Wrong
    <3> QED
      BY <3>1, Least
  <2>2. \A j \in 1..(i - 1) : Agree(j)
    <3> TAKE j \in 1..(i - 1)
    <3>1. j \in Nat /\ j >= 1 /\ (j \in 1..Len(s) \/ j \in 1..Len(t)) /\ j \notin Wrong
      BY <1>1, <2>1
    <3> QED
      BY <3>1
  <2>3. Agree(i)
    <3>1. i \in Nat /\ i >= 1 /\ (i \in 1..Len(s) \/ i \in 1..Len(t))
      BY <2>1
    <3> HIDE DEF Agree
    <3> QED
      BY <1>4, <2>2, <3>1
  <2> HIDE DEF Agree
  <2> QED
    BY <2>1, <2>3
<1>6. \A i \in Nat : i >= 1 /\ (i \in 1..Len(s) \/ i \in 1..Len(t)) => Agree(i)
  <2> HIDE DEF Agree
  <2> QED
    BY <1>5
<1>7. \A i \in 1..Len(s) : i \in 1..Len(t) /\ s[i] = t[i]
  BY <1>1, <1>6
<1>8. \A i \in 1..Len(t) : i \in 1..Len(s)
  BY <1>1, <1>6
<1>9. 1..Len(s) = 1..Len(t)
  BY <1>7, <1>8
<1>10. s = [i \in 1..Len(s) |-> s[i]] /\ t = [i \in 1..Len(t) |-> t[i]]
  OBVIOUS
<1> HIDE DEF Agree, Wrong
<1> QED
  BY <1>7, <1>9, <1>10

-----------------------------------------------------------------------------
(* FlattenSeq *)

\* f is the list flattened up to every place until n.
Flattens(f, list, n) ==
    f = [i \in 1..n |-> IF i = 1 THEN list[i] ELSE f[i - 1] \o list[i]]

\* The function that appends the lists one after the other exists: by induction
\* on their number.
LEMMA FlattensExists ==
    ASSUME NEW list, NEW n \in Nat
    PROVE  \A m \in 1..n : \E f : Flattens(f, list, m)
<1> DEFINE S == {m \in 1..n : \E f : Flattens(f, list, m)}
<1>1. n >= 1 => 1 \in S
  <2> DEFINE g == [i \in 1..1 |-> list[i]]
             h == [i \in 1..1 |-> IF i = 1 THEN list[i] ELSE g[i - 1] \o list[i]]
  <2>1. \A i \in 1..1 : h[i] = g[i]
    OBVIOUS
  <2>2. g = [i \in 1..1 |-> g[i]] /\ h = [i \in 1..1 |-> h[i]]
    OBVIOUS
  <2>3. g = h
    <3> HIDE DEF g, h
    <3> QED
      BY <2>1, <2>2
  <2>4. Flattens(g, list, 1)
    BY <2>3 DEF Flattens
  <2> HIDE DEF g
  <2> QED
    BY <2>4
<1>2. ASSUME NEW m \in 2..n, m - 1 \in S PROVE m \in S
  <2>1. PICK f : Flattens(f, list, m - 1)
    BY <1>2
  <2> DEFINE g == [i \in 1..m |-> IF i = m THEN f[m - 1] \o list[m] ELSE f[i]]
             h == [i \in 1..m |-> IF i = 1 THEN list[i] ELSE g[i - 1] \o list[i]]
  <2>2. ASSUME NEW i \in 1..m PROVE g[i] = h[i]
    <3>1. CASE i = m
      <4>1. m - 1 \in 1..m /\ m \in 1..m /\ m - 1 # m /\ m # 1
        OBVIOUS
      <4>2. g[m - 1] = f[m - 1] /\ g[m] = f[m - 1] \o list[m]
        BY <4>1
      <4>3. h[m] = g[m - 1] \o list[m]
        BY <4>1
      <4> QED
        BY <3>1, <4>2, <4>3
    <3>2. CASE i # m
      <4>1. i \in 1..(m - 1)
        BY <3>2
      <4>2. f[i] = IF i = 1 THEN list[i] ELSE f[i - 1] \o list[i]
        BY <2>1, <4>1 DEF Flattens
      <4>3. i # 1 => i - 1 \in 1..m /\ i - 1 # m
        BY <4>1
      <4>4. g[i] = f[i] /\ (i # 1 => g[i - 1] = f[i - 1])
        BY <3>2, <4>3
      <4>5. h[i] = IF i = 1 THEN list[i] ELSE g[i - 1] \o list[i]
        OBVIOUS
      <4> QED
        BY <4>2, <4>4, <4>5
    <3> QED
      BY <3>1, <3>2
  <2>3. g = [i \in 1..m |-> g[i]] /\ h = [i \in 1..m |-> h[i]]
    OBVIOUS
  <2>4. g = h
    <3> HIDE DEF g, h
    <3> QED
      BY <2>2, <2>3
  <2>5. Flattens(g, list, m)
    BY <2>4 DEF Flattens
  <2>6. m \in 1..n
    OBVIOUS
  <2> HIDE DEF g
  <2> QED
    BY <2>5, <2>6
<1> HIDE DEF S
<1>3. 1..n \subseteq S
  BY <1>1, <1>2, Climb
<1> QED
  BY <1>3 DEF S

\* FlattenSeq puts the members of the list one after the other.
LEMMA FlattenRuns ==
    ASSUME NEW list, Len(list) \in Nat \ {0}
    PROVE  \E f : /\ f[1] = list[1] /\ f[Len(list)] = FlattenSeq(list)
                  /\ \A i \in 2..Len(list) : f[i] = f[i - 1] \o list[i]
<1> DEFINE n == Len(list)
           F == CHOOSE f : f = [i \in 1..n |-> IF i = 1 THEN list[i] ELSE f[i - 1] \o list[i]]
<1>1. \E f : Flattens(f, list, n)
  <2>1. n \in Nat /\ n \in 1..n
    OBVIOUS
  <2> QED
    BY <2>1, FlattensExists
<1>2. F = [i \in 1..n |-> IF i = 1 THEN list[i] ELSE F[i - 1] \o list[i]]
  BY <1>1 DEF Flattens
<1>3. FlattenSeq(list) = F[n]
  BY DEF FlattenSeq
<1> HIDE DEF F
<1>4. F[1] = list[1]
  BY <1>2
<1>5. \A i \in 2..n : F[i] = F[i - 1] \o list[i]
  <2>1. \A i \in 2..n : i \in 1..n /\ i # 1
    OBVIOUS
  <2> HIDE DEF n
  <2> QED
    BY <1>2, <2>1
<1> QED
  BY <1>3, <1>4, <1>5

\* The entries of the flattened list are those of its members, in their order.
LEMMA FlattenRight ==
    ASSUME NEW X, NEW R, NEW list \in Seq(Seq(X)),
           \A i \in DOMAIN list : Follows(list[i], R),
           \A i, j \in DOMAIN list : i < j =>
              \A x \in Range(list[i]), y \in Range(list[j]) : <<x, y>> \in R
    PROVE  /\ FlattenSeq(list) \in Seq(X) /\ Follows(FlattenSeq(list), R)
           /\ Range(FlattenSeq(list)) = UNION {Range(list[i]) : i \in DOMAIN list}
<1> DEFINE n == Len(list)
<1>1. n \in Nat /\ DOMAIN list = 1..n /\ \A i \in 1..n : list[i] \in Seq(X)
  OBVIOUS
<1>2. \A u \in Seq(X) : /\ Len(u) \in Nat /\ Range(u) = {u[k] : k \in 1..Len(u)}
                        /\ \A k \in 1..Len(u) : u[k] \in X
  BY DEF Range
<1>3. CASE n = 0
  <2>1. FlattenSeq(list) = list /\ list = <<>>
    BY <1>3 DEF FlattenSeq
  <2>2. <<>> \in Seq(X) /\ Len(<<>>) = 0
    OBVIOUS
  <2>3. Range(<<>>) = {}
    BY DEF Range
  <2> QED
    BY <1>1, <1>3, <2>1, <2>2, <2>3 DEF Follows
<1>4. CASE n # 0
  <2>1. PICK f : /\ f[1] = list[1] /\ f[n] = FlattenSeq(list)
                 /\ \A i \in 2..n : f[i] = f[i - 1] \o list[i]
    BY <1>1, <1>4, FlattenRuns
  <2> DEFINE S == {m \in 1..n : /\ f[m] \in Seq(X) /\ Follows(f[m], R)
                                /\ Range(f[m]) = UNION {Range(list[i]) : i \in 1..m}}
  <2>2. 1 \in S
    <3>1. 1 \in 1..n /\ list[1] \in Seq(X) /\ Follows(list[1], R)
      BY <1>1, <1>4
    <3>2. Range(list[1]) = UNION {Range(list[i]) : i \in 1..1}
      OBVIOUS
    <3> QED
      BY <2>1, <3>1, <3>2
  <2>3. ASSUME NEW m \in 2..n, m - 1 \in S PROVE m \in S
    <3>1. /\ m \in 1..n /\ m \in DOMAIN list /\ m - 1 \in 1..n
          /\ \A i \in 1..(m - 1) : i \in DOMAIN list /\ i < m
      BY <1>1
    <3> DEFINE u == f[m - 1]
               v == list[m]
    <3>2. /\ u \in Seq(X) /\ Follows(u, R)
          /\ Range(u) = UNION {Range(list[i]) : i \in 1..(m - 1)}
      BY <2>3
    <3>3. v \in Seq(X) /\ Follows(v, R)
      BY <1>1, <3>1
    <3>4. \A x \in Range(u), y \in Range(v) : <<x, y>> \in R
      BY <3>1, <3>2
    <3>5. f[m] = u \o v
      BY <2>1
    <3> HIDE DEF u, v
    <3>6. /\ u \o v \in Seq(X) /\ Len(u \o v) = Len(u) + Len(v)
          /\ \A k \in 1..Len(u) : (u \o v)[k] = u[k] /\ u[k] \in Range(u)
          /\ \A k \in (Len(u) + 1)..(Len(u) + Len(v)) :
               (u \o v)[k] = v[k - Len(u)] /\ v[k - Len(u)] \in Range(v)
      <4>1. Len(u) \in Nat /\ Len(v) \in Nat
        BY <1>2, <3>2, <3>3
      <4>2. \A k \in 1..Len(u) : u[k] \in Range(u)
        BY <1>2, <3>2
      <4>3. \A k \in 1..Len(v) : v[k] \in Range(v)
        BY <1>2, <3>3
      <4>4. /\ u \o v \in Seq(X) /\ Len(u \o v) = Len(u) + Len(v)
            /\ \A k \in 1..(Len(u) + Len(v)) :
                 (u \o v)[k] = IF k =< Len(u) THEN u[k] ELSE v[k - Len(u)]
        BY <3>2, <3>3
      <4>5. \A k \in (Len(u) + 1)..(Len(u) + Len(v)) :
               k - Len(u) \in 1..Len(v) /\ ~(k =< Len(u)) /\ k \in 1..(Len(u) + Len(v))
        BY <4>1
      <4>6. \A k \in 1..Len(u) : k =< Len(u) /\ k \in 1..(Len(u) + Len(v))
        BY <4>1
      <4> QED
        BY <4>2, <4>3, <4>4, <4>5, <4>6
    <3>7. Follows(u \o v, R)
      <4> SUFFICES ASSUME NEW j \in 1..Len(u \o v), NEW k \in 1..Len(u \o v), j < k
                   PROVE  <<(u \o v)[j], (u \o v)[k]>> \in R
        BY DEF Follows
      <4>1. Len(u) \in Nat /\ Len(v) \in Nat
        BY <3>2, <3>3
      <4>2. CASE k =< Len(u)
        <5>1. j \in 1..Len(u) /\ k \in 1..Len(u)
          BY <3>6, <4>1, <4>2
        <5>2. (u \o v)[j] = u[j] /\ (u \o v)[k] = u[k]
          BY <3>6, <5>1
        <5>3. <<u[j], u[k]>> \in R
          BY <3>2, <5>1 DEF Follows
        <5> QED
          BY <5>2, <5>3
      <4>3. CASE j =< Len(u) /\ k > Len(u)
        <5>1. j \in 1..Len(u) /\ k \in (Len(u) + 1)..(Len(u) + Len(v))
          BY <3>6, <4>1, <4>3
        <5>2. (u \o v)[j] \in Range(u) /\ (u \o v)[k] \in Range(v)
          BY <3>6, <5>1
        <5> QED
          BY <3>4, <5>2
      <4>4. CASE j > Len(u)
        <5>1. /\ j - Len(u) \in 1..Len(v) /\ k - Len(u) \in 1..Len(v)
              /\ j - Len(u) < k - Len(u)
          BY <3>6, <4>1, <4>4
        <5>2. <<v[j - Len(u)], v[k - Len(u)]>> \in R
          BY <3>3, <5>1 DEF Follows
        <5>3. (u \o v)[j] = v[j - Len(u)] /\ (u \o v)[k] = v[k - Len(u)]
          BY <3>6, <4>1, <4>4
        <5> QED
          BY <5>2, <5>3
      <4>5. j \in Nat /\ k \in Nat
        BY <4>1, <3>6
      <4>6. k =< Len(u) \/ (j =< Len(u) /\ k > Len(u)) \/ j > Len(u)
        BY <4>1, <4>5
      <4> QED
        BY <4>2, <4>3, <4>4, <4>6
    <3>8. Range(u \o v) = Range(u) \union Range(v)
      <4>1. Len(u) \in Nat /\ Len(v) \in Nat
        BY <3>2, <3>3
      <4>2. /\ Range(u \o v) = {(u \o v)[k] : k \in 1..(Len(u) + Len(v))}
            /\ Range(u) = {u[k] : k \in 1..Len(u)} /\ Range(v) = {v[k] : k \in 1..Len(v)}
        BY <1>2, <3>2, <3>3, <3>6
      <4>3. ASSUME NEW k \in 1..(Len(u) + Len(v))
            PROVE  (u \o v)[k] \in Range(u) \union Range(v)
        BY <3>6, <4>1
      <4>4. ASSUME NEW k \in 1..Len(u) PROVE u[k] \in Range(u \o v)
        BY <3>6, <4>1, <4>2
      <4>5. ASSUME NEW k \in 1..Len(v) PROVE v[k] \in Range(u \o v)
        <5>1. k + Len(u) \in (Len(u) + 1)..(Len(u) + Len(v)) /\ (k + Len(u)) - Len(u) = k
          BY <4>1
        <5>2. (u \o v)[k + Len(u)] = v[k] /\ k + Len(u) \in 1..(Len(u) + Len(v))
          BY <3>6, <4>1, <5>1
        <5> QED
          BY <4>2, <5>2
      <4> QED
        BY <4>2, <4>3, <4>4, <4>5
    <3>9. Range(u \o v) = UNION {Range(list[i]) : i \in 1..m}
      <4>1. 1..m = 1..(m - 1) \union {m}
        OBVIOUS
      <4> QED
        BY <3>2, <3>8, <4>1 DEF v
    <3> QED
      BY <3>1, <3>5, <3>6, <3>7, <3>9
  <2> HIDE DEF S
  <2>4. 1..n \subseteq S
    BY <1>1, <2>2, <2>3, Climb
  <2>5. n \in S
    BY <1>1, <1>4, <2>4
  <2> QED
    BY <1>1, <2>1, <2>5 DEF S
<1> QED
  BY <1>3, <1>4
-----------------------------------------------------------------------------
(* Sets as sequences *)

\* SetToSeq has the elements of a finite set, each once.
LEMMA SetToSeqRight ==
    ASSUME NEW S, IsFiniteSet(S)
    PROVE  /\ SetToSeq(S) \in Seq(S) /\ Range(SetToSeq(S)) = S
           /\ \A i, j \in DOMAIN SetToSeq(S) : i # j => SetToSeq(S)[i] # SetToSeq(S)[j]
<1> DEFINE n == Cardinality(S)
           s == SetToSeq(S)
<1>1. n \in Nat /\ IsFiniteSet(1..n) /\ Cardinality(1..n) = n
  BY FS_CardinalityType, FS_Interval
<1>2. \E f \in [1..n -> S] : IsInjective(f)
  <2>1. ExistsBijection(1..n, S)
    BY FS_CardinalityType
  <2> QED
    BY <2>1 DEF ExistsBijection, Bijection, Injection
<1>3. s \in [1..n -> S] /\ IsInjective(s)
  BY <1>2 DEF SetToSeq
<1> HIDE DEF s
<1>4. s \in Injection(1..n, S)
  BY <1>3 DEF Injection
<1>5. s \in Surjection(1..n, S)
  BY <1>1, <1>4, FS_Injection
<1>6. s \in Seq(S) /\ DOMAIN s = 1..n
  BY <1>1, <1>3
<1>7. Range(s) = S
  BY <1>3, <1>5 DEF Surjection, Range
<1> QED
  BY <1>3, <1>6, <1>7 DEF IsInjective, s

\* A std::set is visited from the least to the greatest, each element once.
LEMMA AscendingRight ==
    ASSUME NEW S, \A x \in S : x \in Nat, IsFiniteSet(S)
    PROVE  /\ Ascending(S) \in Seq(S) /\ Range(Ascending(S)) = S
           /\ Len(Ascending(S)) = Cardinality(S)
           /\ \A j, k \in DOMAIN Ascending(S) : j < k => Ascending(S)[j] < Ascending(S)[k]
<1> DEFINE B == {w \in S \X S : w[1] < w[2]}
           n == Cardinality(S)
           a == Ascending(S)
           below(x) == {y \in S : y < x}
           at(k) == CHOOSE x \in S : Cardinality(below(x)) = k - 1
<1>1. \A x, y \in S : <<x, y>> \in B <=> x < y
  OBVIOUS
<1>2. StrictOrder(S, B)
  <2> HIDE DEF B
  <2>1. \A x \in S : x \in Nat
    OBVIOUS
  <2> QED
    BY <1>1, <2>1 DEF StrictOrder
<1>3. \A x \in S : Below(S, B)[x] = Cardinality(below(x))
  <2> TAKE x \in S
  <2>1. {y \in S : <<y, x>> \in B} = below(x)
    BY <1>1
  <2> QED
    BY <2>1 DEF Below
<1>4. n \in Nat /\ \A c \in 0..(n - 1) : \E x \in S : Below(S, B)[x] = c
  <2> HIDE DEF B, at, a, below
  <2>1. n \in Nat
    BY FS_CardinalityType
  <2>2. \A c \in 0..(Cardinality(S) - 1) : \E x \in S : Below(S, B)[x] = c
    BY <1>2, BelowBijective
  <2> QED
    BY <2>1, <2>2
<1> HIDE DEF B, below
<1>5. \A k \in 1..n : at(k) \in S /\ Below(S, B)[at(k)] = k - 1
  <2> TAKE k \in 1..n
  <2>1. k - 1 \in 0..(n - 1)
    BY <1>4
  <2>2. \E x \in S : Below(S, B)[x] = k - 1
    BY <1>4, <2>1
  <2>3. \E x \in S : Cardinality(below(x)) = k - 1
    BY <1>3, <2>2
  <2> QED
    BY <1>3, <2>3
<1>6. a = [k \in 1..n |-> at(k)]
  BY DEF Ascending, below
<1> HIDE DEF at, a
<1>7. a \in Seq(S) /\ DOMAIN a = 1..n /\ Len(a) = n /\ \A k \in 1..n : a[k] = at(k)
  <2>1. a \in [1..n -> S]
    BY <1>5, <1>6
  <2>2. DOMAIN a = 1..n /\ \A k \in 1..n : a[k] = at(k)
    BY <1>6
  <2> QED
    BY <1>4, <2>1, <2>2
<1>8. Lists(S, B, a)
  BY <1>5, <1>7 DEF Lists
<1>9. /\ \A x \in S : \E k \in 1..n : a[k] = x
      /\ \A j, k \in 1..n : j < k => <<a[j], a[k]>> \in B
  BY <1>2, <1>8, ListsInOrder
<1>10. Range(a) = S
  <2>1. Range(a) = {a[k] : k \in 1..n}
    BY <1>7 DEF Range
  <2>2. \A k \in 1..n : a[k] \in S
    BY <1>5, <1>7
  <2>3. \A x \in S : x \in Range(a)
    BY <1>9, <2>1
  <2>4. \A x \in Range(a) : x \in S
    BY <2>1, <2>2
  <2> QED
    BY <2>3, <2>4
<1>11. ASSUME NEW j \in DOMAIN a, NEW k \in DOMAIN a, j < k PROVE a[j] < a[k]
  <2>1. j \in 1..n /\ k \in 1..n
    BY <1>7
  <2>2. a[j] \in S /\ a[k] \in S
    BY <1>5, <1>7, <2>1
  <2>3. <<a[j], a[k]>> \in B
    BY <1>9, <1>11, <2>1
  <2> QED
    BY <1>1, <2>2, <2>3
<1> QED
  BY <1>7, <1>10, <1>11 DEF a

-----------------------------------------------------------------------------
(* Lists of processes: pairs of a host and a port. *)

\* The pairs of host and port in a HostMapPorts.
Processes(m) == UNION {{<<h, m[h][j]>> : j \in DOMAIN m[h]} : h \in DOMAIN m}

\* What a ProcessInfo may be, and the order of Less on it as a set of pairs.
Infoset == Nat \X Nat

InOrderOfRanks == {w \in Infoset \X Infoset : Less(w[1], w[2])}

\* ProcessInfoSlice.Less orders hosts first, then ports: a strict order.
LEMMA RankOrder ==
    /\ StrictOrder(Infoset, InOrderOfRanks)
    /\ \A a, b \in Infoset : <<a, b>> \in InOrderOfRanks <=> Less(a, b)
<1>1. \A a, b \in Infoset : <<a, b>> \in InOrderOfRanks <=> Less(a, b)
  BY DEF InOrderOfRanks
<1>2. \A a \in Infoset : a[1] \in Nat /\ a[2] \in Nat /\ a = <<a[1], a[2]>>
  BY DEF Infoset
<1>3. \A a \in Infoset : ~Less(a, a)
  BY <1>2 DEF Less
<1>4. \A a, b, c \in Infoset : Less(a, b) /\ Less(b, c) => Less(a, c)
  BY <1>2 DEF Less
<1>5. \A a, b \in Infoset : a # b => Less(a, b) \/ Less(b, a)
  BY <1>2 DEF Less
<1> QED
  BY <1>1, <1>3, <1>4, <1>5 DEF StrictOrder

\* Infos lists the ports of every host, the hosts in the given order.
LEMMA InfosRight ==
    ASSUME NEW H, H \subseteq Nat, NEW m \in [H -> Seq(Nat)], NEW hosts \in Seq(H),
           Range(hosts) = H, NEW R,
           \A h \in H : \A j, k \in DOMAIN m[h] :
              j < k => <<<<h, m[h][j]>>, <<h, m[h][k]>>>> \in R,
           \A i, j \in DOMAIN hosts : i < j =>
              \A p, q \in Nat : <<<<hosts[i], p>>, <<hosts[j], q>>>> \in R
    PROVE  /\ Infos(m, hosts) \in Seq(Infoset) /\ Follows(Infos(m, hosts), R)
           /\ Range(Infos(m, hosts)) = Processes(m)
<1> DEFINE part(h) == [j \in DOMAIN m[h] |-> <<h, m[h][j]>>]
           list == [i \in DOMAIN hosts |-> part(hosts[i])]
<1>1. Infos(m, hosts) = FlattenSeq(list)
  BY DEF Infos
<1>2. ASSUME NEW h \in H
      PROVE  /\ part(h) \in Seq(Infoset) /\ Follows(part(h), R)
             /\ Range(part(h)) = {<<h, m[h][j]>> : j \in DOMAIN m[h]}
  <2>1. m[h] \in Seq(Nat) /\ DOMAIN m[h] = 1..Len(m[h]) /\ Len(m[h]) \in Nat /\ h \in Nat
    OBVIOUS
  <2>2. /\ DOMAIN part(h) = 1..Len(m[h])
        /\ \A j \in 1..Len(m[h]) : part(h)[j] = <<h, m[h][j]>> /\ m[h][j] \in Nat
    BY <2>1
  <2>3. part(h) \in [1..Len(m[h]) -> Infoset]
    BY <2>1, <2>2 DEF Infoset
  <2> DEFINE s == part(h)
  <2> HIDE DEF s
  <2>4. s \in Seq(Infoset) /\ Len(s) = Len(m[h])
    BY <2>1, <2>2, <2>3 DEF s
  <2>5. /\ DOMAIN s = 1..Len(m[h])
        /\ \A j \in 1..Len(m[h]) : s[j] = <<h, m[h][j]>>
    BY <2>2 DEF s
  <2>6. \A j, k \in 1..Len(m[h]) : j < k => <<s[j], s[k]>> \in R
    <3> TAKE j \in 1..Len(m[h]), k \in 1..Len(m[h])
    <3> HAVE j < k
    <3>1. <<<<h, m[h][j]>>, <<h, m[h][k]>>>> \in R
      BY <2>1
    <3> QED
      BY <2>5, <3>1
  <2>7. Range(s) = {<<h, m[h][j]>> : j \in DOMAIN m[h]}
    BY <2>1, <2>5 DEF Range
  <2> QED
    BY <2>4, <2>6, <2>7 DEF s, Follows
<1>3. /\ DOMAIN hosts = 1..Len(hosts) /\ Len(hosts) \in Nat
      /\ \A i \in DOMAIN hosts : hosts[i] \in H
  OBVIOUS
<1> HIDE DEF part
<1>4. /\ DOMAIN list = DOMAIN hosts
      /\ \A i \in DOMAIN hosts : list[i] = part(hosts[i])
  OBVIOUS
<1> HIDE DEF list
<1>5. list \in Seq(Seq(Infoset))
  <2>1. list \in [1..Len(hosts) -> Seq(Infoset)]
    <3>1. list = [i \in 1..Len(hosts) |-> part(hosts[i])]
      BY <1>3 DEF list
    <3> QED
      BY <1>2, <1>3, <3>1
  <2> QED
    BY <1>3, <2>1
<1>6. \A i \in DOMAIN list : Follows(list[i], R)
  BY <1>2, <1>3, <1>4
<1>7. ASSUME NEW i \in DOMAIN list, NEW j \in DOMAIN list, i < j,
             NEW x \in Range(list[i]), NEW y \in Range(list[j])
      PROVE  <<x, y>> \in R
  <2>1. /\ x \in {<<hosts[i], m[hosts[i]][k]>> : k \in DOMAIN m[hosts[i]]}
        /\ y \in {<<hosts[j], m[hosts[j]][k]>> : k \in DOMAIN m[hosts[j]]}
    BY <1>2, <1>3, <1>4, <1>7
  <2>2. PICK k \in DOMAIN m[hosts[i]] : x = <<hosts[i], m[hosts[i]][k]>>
    BY <2>1
  <2>3. PICK l \in DOMAIN m[hosts[j]] : y = <<hosts[j], m[hosts[j]][l]>>
    BY <2>1
  <2>4. m[hosts[i]] \in Seq(Nat) /\ m[hosts[j]] \in Seq(Nat)
    BY <1>3, <1>4
  <2>5. \A u \in Seq(Nat) : \A e \in DOMAIN u : u[e] \in Nat
    OBVIOUS
  <2>6. m[hosts[i]][k] \in Nat /\ m[hosts[j]][l] \in Nat
    BY <2>4, <2>5
  <2> QED
    BY <1>4, <1>7, <2>2, <2>3, <2>6
<1>8. /\ FlattenSeq(list) \in Seq(Infoset) /\ Follows(FlattenSeq(list), R)
      /\ Range(FlattenSeq(list)) = UNION {Range(list[i]) : i \in DOMAIN list}
  BY <1>5, <1>6, <1>7, FlattenRight
<1>9. UNION {Range(list[i]) : i \in DOMAIN list} = Processes(m)
  <2>1. \A i \in DOMAIN list : /\ hosts[i] \in H
                               /\ Range(list[i]) = {<<hosts[i], m[hosts[i]][j]>> :
                                                      j \in DOMAIN m[hosts[i]]}
    BY <1>2, <1>3, <1>4
  <2>2. \A h \in H : \E i \in DOMAIN list : hosts[i] = h
    BY <1>4 DEF Range
  <2>3. DOMAIN m = H
    OBVIOUS
  <2> DEFINE of(h) == {<<h, m[h][j]>> : j \in DOMAIN m[h]}
  <2>4. Processes(m) = UNION {of(h) : h \in H}
    BY <2>3 DEF Processes
  <2>5. \A i \in DOMAIN list : hosts[i] \in H /\ Range(list[i]) = of(hosts[i])
    BY <2>1
  <2> HIDE DEF of
  <2>6. \A x : x \in UNION {Range(list[i]) : i \in DOMAIN list} => x \in Processes(m)
    BY <2>4, <2>5
  <2>7. \A x : x \in Processes(m) => x \in UNION {Range(list[i]) : i \in DOMAIN list}
    BY <2>2, <2>4, <2>5
  <2> QED
    BY <2>6, <2>7
<1> QED
  BY <1>1, <1>8, <1>9

\* sort.Sort: the entries of a list without doubles, in the order of Less.
LEMMA CalculateRankRight ==
    ASSUME NEW H, H \subseteq Nat, IsFiniteSet(H), NEW m \in [H -> Seq(Nat)],
           \A h \in H : IsInjective(m[h])
    PROVE  /\ CalculateRank(m) \in Seq(Infoset)
           /\ Follows(CalculateRank(m), InOrderOfRanks)
           /\ Range(CalculateRank(m)) = Processes(m)
<1> DEFINE hosts == SetToSeq(H)
           D == {w \in Infoset \X Infoset : w[1] # w[2]}
           list == Infos(m, hosts)
           I == DOMAIN list
<1>1. /\ hosts \in Seq(H) /\ Range(hosts) = H
      /\ \A i, j \in DOMAIN hosts : i # j => hosts[i] # hosts[j]
  BY SetToSeqRight
<1>2. list \in Seq(Infoset) /\ Follows(list, D) /\ Range(list) = Processes(m)
  <2>1. ASSUME NEW h \in H, NEW j \in DOMAIN m[h], NEW k \in DOMAIN m[h], j < k
        PROVE  <<<<h, m[h][j]>>, <<h, m[h][k]>>>> \in D
    <3>1. m[h][j] \in Nat /\ m[h][k] \in Nat /\ h \in Nat /\ j # k
      <4>1. m[h] \in Seq(Nat)
        OBVIOUS
      <4> QED
        BY <2>1, <4>1
    <3>2. m[h][j] # m[h][k]
      BY <3>1 DEF IsInjective
    <3> QED
      BY <3>1, <3>2 DEF Infoset
  <2>2. ASSUME NEW i \in DOMAIN hosts, NEW j \in DOMAIN hosts, i < j,
               NEW p \in Nat, NEW q \in Nat
        PROVE  <<<<hosts[i], p>>, <<hosts[j], q>>>> \in D
    <3>1. i # j
      <4>1. i \in Nat /\ j \in Nat
        BY <1>1
      <4> QED
        BY <2>2, <4>1
    <3>2. hosts[i] # hosts[j] /\ hosts[i] \in Nat /\ hosts[j] \in Nat
      BY <1>1, <3>1
    <3> QED
      BY <3>1, <3>2 DEF Infoset
  <2> HIDE DEF D, hosts
  <2> QED
    BY <1>1, <2>1, <2>2, InfosRight
<1> HIDE DEF hosts, list
<1>3. /\ I = 1..Len(list) /\ Len(list) \in Nat
      /\ \A i \in I : list[i] \in Infoset
  BY <1>2
<1>4. \A i, j \in I : i # j => list[i] # list[j]
  <2> TAKE i \in I, j \in I
  <2> HAVE i # j
  <2>1. i < j \/ j < i
    BY <1>3
  <2>2. <<list[i], list[j]>> \in D \/ <<list[j], list[i]>> \in D
    BY <1>2, <1>3, <2>1 DEF Follows
  <2> QED
    BY <2>2
<1> HIDE DEF D
<1> DEFINE B == {w \in I \X I : Less(list[w[1]], list[w[2]])}
<1>5. \A i, j \in I : <<i, j>> \in B <=> Less(list[i], list[j])
  OBVIOUS
<1>6. \A i, j \in I : Less(list[i], list[j]) <=> <<list[i], list[j]>> \in InOrderOfRanks
  BY <1>3, RankOrder
<1> HIDE DEF B
<1>7. StrictOrder(I, B)
  <2> HIDE DEF I
  <2>1. \A i, j \in I : <<i, j>> \in B <=> <<list[i], list[j]>> \in InOrderOfRanks
    BY <1>5, <1>6
  <2>2. \A i \in I : <<i, i>> \notin B
    BY <1>3, <2>1, RankOrder DEF StrictOrder
  <2>3. \A i, j, k \in I : <<i, j>> \in B /\ <<j, k>> \in B => <<i, k>> \in B
    <3> TAKE i \in I, j \in I, k \in I
    <3>1. list[i] \in Infoset /\ list[j] \in Infoset /\ list[k] \in Infoset
      BY <1>3
    <3> QED
      BY <2>1, <3>1, RankOrder DEF StrictOrder
  <2>4. \A i, j \in I : i # j => <<i, j>> \in B \/ <<j, i>> \in B
    BY <1>3, <1>4, <2>1, RankOrder DEF StrictOrder
  <2> QED
    BY <2>2, <2>3, <2>4 DEF StrictOrder
<1>8. IsFiniteSet(I) /\ Cardinality(I) = Len(list)
  <2>1. IsFiniteSet(1..Len(list)) /\ Cardinality(1..Len(list)) = Len(list)
    BY <1>3, IntervalSize
  <2> QED
    BY <1>3, <2>1
<1>9. \A i \in I : Below(I, B)[i] = Cardinality(Earlier(list, i))
  <2> TAKE i \in I
  <2>1. \A j \in I : j = i \/ Less(list[j], list[i]) \/ Less(list[i], list[j])
    BY <1>5, <1>7 DEF StrictOrder
  <2>2. \A j \in I : ~Less(list[i], list[j]) /\ j < i => Less(list[j], list[i])
    BY <1>3, <2>1
  <2>3. Earlier(list, i) = {j \in I : <<j, i>> \in B}
    BY <1>5, <2>2 DEF Earlier
  <2> QED
    BY <2>3 DEF Below
<1> DEFINE at(k) == CHOOSE i \in I : Cardinality(Earlier(list, i)) = k - 1
           a == [k \in I |-> at(k)]
           c == CalculateRank(m)
<1>10. \A k \in I : at(k) \in I /\ Below(I, B)[at(k)] = k - 1
  <2> TAKE k \in I
  <2>1. k - 1 \in 0..(Cardinality(I) - 1)
    BY <1>3, <1>8
  <2>2. \E i \in I : Below(I, B)[i] = k - 1
    BY <1>7, <1>8, <2>1, BelowBijective
  <2>3. \E i \in I : Cardinality(Earlier(list, i)) = k - 1
    BY <1>9, <2>2
  <2> QED
    BY <1>9, <2>3
<1>11. c = [k \in I |-> list[at(k)]]
  <2>1. DOMAIN m = H
    OBVIOUS
  <2> QED
    BY <2>1 DEF CalculateRank, list, hosts
<1> HIDE DEF at
<1>12. \A k \in I : a[k] = at(k) /\ c[k] = list[a[k]]
  BY <1>11
<1> HIDE DEF a, c
<1>13. Lists(I, B, a)
  BY <1>3, <1>8, <1>10, <1>12 DEF Lists
<1>14. /\ \A i \in I : \E k \in I : a[k] = i
       /\ \A j, k \in I : j < k => <<a[j], a[k]>> \in B
  <2>1. /\ \A i \in I : \E k \in 1..Cardinality(I) : a[k] = i
        /\ \A j, k \in 1..Cardinality(I) : j < k => <<a[j], a[k]>> \in B
    <3> HIDE DEF I
    <3> QED
      BY <1>7, <1>8, <1>13, ListsInOrder
  <2> QED
    BY <1>3, <1>8, <2>1
<1>15. c \in Seq(Infoset) /\ DOMAIN c = I /\ Len(c) = Len(list)
  <2>1. c \in [1..Len(list) -> Infoset]
    BY <1>3, <1>10, <1>11
  <2> QED
    BY <1>3, <2>1
<1>16. Follows(c, InOrderOfRanks)
  <2> SUFFICES ASSUME NEW j \in I, NEW k \in I, j < k
               PROVE  <<c[j], c[k]>> \in InOrderOfRanks
    BY <1>3, <1>15 DEF Follows
  <2>1. a[j] \in I /\ a[k] \in I /\ <<a[j], a[k]>> \in B
    BY <1>10, <1>12, <1>14
  <2> QED
    BY <1>5, <1>6, <1>12, <2>1
<1>17. Range(c) = Range(list)
  <2>1. \A k \in I : a[k] \in I /\ c[k] = list[a[k]]
    BY <1>10, <1>12
  <2>2. Range(c) = {c[k] : k \in I} /\ Range(list) = {list[i] : i \in I}
    BY <1>15 DEF Range
  <2> QED
    BY <1>14, <2>1, <2>2
<1> QED
  BY <1>2, <1>15, <1>16, <1>17 DEF c
\* RankAlg.calRank: the ports of all hosts, in the order of Less.
LEMMA CalRankRight ==
    ASSUME NEW H, H \subseteq Nat, IsFiniteSet(H), NEW d, DOMAIN d = H,
           \A h \in H : d[h] \subseteq Nat /\ IsFiniteSet(d[h])
    PROVE  /\ CalRank(d) \in Seq(Infoset) /\ Follows(CalRank(d), InOrderOfRanks)
           /\ Range(CalRank(d)) = UNION {{<<h, p>> : p \in d[h]} : h \in H}
<1> DEFINE hosts == Ascending(H)
           m == [h \in H |-> Ascending(d[h])]
<1>1. /\ hosts \in Seq(H) /\ Range(hosts) = H
      /\ \A j, k \in DOMAIN hosts : j < k => hosts[j] < hosts[k]
  <2>1. \A h \in H : h \in Nat
    OBVIOUS
  <2> QED
    BY <2>1, AscendingRight
<1>2. ASSUME NEW h \in H
      PROVE  /\ m[h] \in Seq(Nat) /\ Range(m[h]) = d[h]
             /\ \A j, k \in DOMAIN m[h] : j < k => m[h][j] < m[h][k]
  <2>1. IsFiniteSet(d[h]) /\ \A p \in d[h] : p \in Nat
    OBVIOUS
  <2> DEFINE s == Ascending(d[h])
  <2>2. /\ s \in Seq(d[h]) /\ Range(s) = d[h]
        /\ \A j, k \in DOMAIN s : j < k => s[j] < s[k]
    BY <2>1, AscendingRight
  <2>3. m[h] = s
    OBVIOUS
  <2> HIDE DEF s, m
  <2>4. s \in Seq(Nat)
    BY <2>1, <2>2
  <2> QED
    BY <2>2, <2>3, <2>4
<1>3. CalRank(d) = Infos(m, hosts)
  BY DEF CalRank
<1>4. DOMAIN m = H /\ m = [h \in H |-> m[h]]
  OBVIOUS
<1> HIDE DEF m, hosts
<1>5. m \in [H -> Seq(Nat)]
  BY <1>2, <1>4
<1>6. ASSUME NEW h \in H, NEW j \in DOMAIN m[h], NEW k \in DOMAIN m[h], j < k
      PROVE  <<<<h, m[h][j]>>, <<h, m[h][k]>>>> \in InOrderOfRanks
  <2>1. h \in Nat /\ m[h][j] \in Nat /\ m[h][k] \in Nat /\ m[h][j] < m[h][k]
    <3>1. \A u \in Seq(Nat) : \A e \in DOMAIN u : u[e] \in Nat
      OBVIOUS
    <3> QED
      BY <1>2, <1>6, <3>1
  <2>2. <<h, m[h][j]>> \in Infoset /\ <<h, m[h][k]>> \in Infoset
    BY <2>1 DEF Infoset
  <2>3. Less(<<h, m[h][j]>>, <<h, m[h][k]>>)
    BY <2>1 DEF Less
  <2> QED
    BY <2>2, <2>3, RankOrder
<1>7. ASSUME NEW i \in DOMAIN hosts, NEW j \in DOMAIN hosts, i < j,
             NEW p \in Nat, NEW q \in Nat
      PROVE  <<<<hosts[i], p>>, <<hosts[j], q>>>> \in InOrderOfRanks
  <2>1. hosts[i] \in Nat /\ hosts[j] \in Nat /\ hosts[i] < hosts[j]
    <3>1. hosts[i] \in H /\ hosts[j] \in H
      BY <1>1
    <3>2. hosts[i] < hosts[j]
      BY <1>1, <1>7
    <3> QED
      BY <3>1, <3>2
  <2>2. <<hosts[i], p>> \in Infoset /\ <<hosts[j], q>> \in Infoset
    BY <2>1 DEF Infoset
  <2>3. Less(<<hosts[i], p>>, <<hosts[j], q>>)
    BY <2>1 DEF Less
  <2> QED
    BY <2>2, <2>3, RankOrder
<1>8. /\ Infos(m, hosts) \in Seq(Infoset) /\ Follows(Infos(m, hosts), InOrderOfRanks)
      /\ Range(Infos(m, hosts)) = Processes(m)
  BY <1>1, <1>5, <1>6, <1>7, InfosRight
<1>9. Processes(m) = UNION {{<<h, p>> : p \in d[h]} : h \in H}
  <2>1. ASSUME NEW h \in H
        PROVE  {<<h, m[h][j]>> : j \in DOMAIN m[h]} = {<<h, p>> : p \in d[h]}
    <3>1. d[h] = {m[h][j] : j \in DOMAIN m[h]}
      BY <1>2 DEF Range
    <3> QED
      BY <3>1
  <2> QED
    BY <1>4, <2>1 DEF Processes
<1> QED
  BY <1>3, <1>8, <1>9

\* The Decoder reads what HostMapPorts.String has written, whatever the order
\* of the hosts.
LEMMA Decoded ==
    ASSUME NEW H, IsFiniteSet(H), NEW m, DOMAIN m = H, NEW text \in Strings(m)
    PROVE  /\ Hosts(text) = H /\ DOMAIN text = 1..Cardinality(H)
           /\ DOMAIN Decode(text) = H
           /\ \A h \in H : Decode(text)[h] = Range(m[h])
           /\ \A i, j \in DOMAIN text : text[i][1] = text[j][1] => i = j
           /\ \A i \in DOMAIN text : text[i][2] = m[text[i][1]]
<1> DEFINE n == Cardinality(H)
<1>1. PICK hosts \in SetToSeqs(H) : text = [i \in DOMAIN hosts |-> <<hosts[i], m[hosts[i]]>>]
  BY DEF Strings
<1>2. hosts \in [1..n -> H] /\ \A i, j \in 1..n : i # j => hosts[i] # hosts[j]
  BY DEF SetToSeqs
<1>3. DOMAIN text = 1..n /\ \A i \in 1..n : text[i] = <<hosts[i], m[hosts[i]]>>
  BY <1>1, <1>2
<1>4. \A i \in 1..n : text[i][1] = hosts[i] /\ text[i][2] = m[hosts[i]]
  BY <1>3
<1>5. \A h \in H : \E i \in 1..n : hosts[i] = h
  <2>1. hosts \in Injection(1..n, H)
    BY <1>2 DEF Injection, IsInjective
  <2>2. n \in Nat /\ Cardinality(1..n) = n
    BY FS_CardinalityType, IntervalSize
  <2>3. hosts \in Surjection(1..n, H)
    BY <2>1, <2>2, FS_Injection
  <2> QED
    BY <2>3 DEF Surjection
<1>6. Hosts(text) = H
  <2>1. Hosts(text) = {hosts[i] : i \in 1..n}
    BY <1>3, <1>4 DEF Hosts
  <2> QED
    BY <1>2, <1>5, <2>1
<1>7. ASSUME NEW h \in H
      PROVE  Decode(text)[h] = Range(m[h])
  <2>1. Decode(text)[h] = UNION {Range(text[i][2]) : i \in {j \in DOMAIN text : text[j][1] = h}}
    BY <1>6 DEF Decode
  <2>2. PICK i \in 1..n : hosts[i] = h
    BY <1>5
  <2>3. {j \in DOMAIN text : text[j][1] = h} = {i}
    BY <1>2, <1>3, <1>4, <2>2
  <2>4. text[i][2] = m[h]
    BY <1>4, <2>2
  <2> QED
    BY <2>1, <2>3, <2>4
<1>8. DOMAIN Decode(text) = H
  BY <1>6 DEF Decode
<1> HIDE DEF n
<1>9. /\ \A i, j \in 1..n : text[i][1] = text[j][1] => i = j
      /\ \A i \in 1..n : text[i][2] = m[text[i][1]]
  BY <1>2, <1>4
<1> QED
  BY <1>3, <1>6, <1>7, <1>8, <1>9 DEF n

\* A list has finitely many values.
LEMMA RangeFinite ==
    ASSUME NEW s, s \in Seq(Nat)
    PROVE  Range(s) \subseteq Nat /\ IsFiniteSet(Range(s))
<1>1. DOMAIN s = 1..Len(s) /\ Len(s) \in Nat /\ \A i \in DOMAIN s : s[i] \in Nat
  OBVIOUS
<1>2. Range(s) \subseteq Nat
  BY <1>1 DEF Range
<1>3. s \in [1..Len(s) -> Range(s)]
  <2>1. s = [i \in 1..Len(s) |-> s[i]]
    OBVIOUS
  <2> QED
    BY <1>1, <2>1 DEF Range
<1>4. s \in Surjection(1..Len(s), Range(s))
  BY <1>1, <1>3 DEF Surjection, Range
<1>5. IsFiniteSet(1..Len(s))
  BY <1>1, IntervalSize
<1>6. IsFiniteSet(Range(s))
  BY <1>4, <1>5, FS_Surjection
<1> QED
  BY <1>2, <1>6

\* The list of processes ffrun computes is the one every process computes from
\* the host list ffrun gives it.
LEMMA RanksAlike ==
    ASSUME NEW H, H \subseteq Nat, IsFiniteSet(H), NEW m \in [H -> Seq(Nat)],
           \A h \in H : IsInjective(m[h]), NEW text \in Strings(m)
    PROVE  CalRank(Decode(text)) = CalculateRank(m)
<1> DEFINE d == Decode(text)
<1>1. DOMAIN d = H /\ \A h \in H : d[h] = Range(m[h])
  <2>1. DOMAIN m = H
    OBVIOUS
  <2> QED
    BY <2>1, Decoded
<1> HIDE DEF d
<1>2. \A h \in H : d[h] \subseteq Nat /\ IsFiniteSet(d[h])
  <2> TAKE h \in H
  <2>1. m[h] \in Seq(Nat)
    OBVIOUS
  <2> QED
    BY <1>1, <2>1, RangeFinite
<1>3. /\ CalRank(d) \in Seq(Infoset) /\ Follows(CalRank(d), InOrderOfRanks)
      /\ Range(CalRank(d)) = UNION {{<<h, p>> : p \in d[h]} : h \in H}
  BY <1>1, <1>2, CalRankRight
<1>4. /\ CalculateRank(m) \in Seq(Infoset)
      /\ Follows(CalculateRank(m), InOrderOfRanks)
      /\ Range(CalculateRank(m)) = Processes(m)
  BY CalculateRankRight
<1>5. Processes(m) = UNION {{<<h, p>> : p \in d[h]} : h \in H}
  <2>1. ASSUME NEW h \in H
        PROVE  {<<h, m[h][j]>> : j \in DOMAIN m[h]} = {<<h, p>> : p \in d[h]}
    <3>1. d[h] = {m[h][j] : j \in DOMAIN m[h]}
      BY <1>1 DEF Range
    <3> QED
      BY <3>1
  <2>2. DOMAIN m = H
    OBVIOUS
  <2> QED
    BY <2>1, <2>2 DEF Processes
<1> DEFINE s == CalRank(d)
           t == CalculateRank(m)
<1>6. s \in Seq(Infoset) /\ t \in Seq(Infoset) /\ Range(s) = Range(t)
      /\ Follows(s, InOrderOfRanks) /\ Follows(t, InOrderOfRanks)
  BY <1>3, <1>4, <1>5
<1> HIDE DEF s, t
<1>7. s = t
  BY <1>6, RankOrder, SortedUnique
<1> QED
  BY <1>7 DEF s, t, d
-----------------------------------------------------------------------------
(* The parser on the options that ffrun puts before the arguments *)

\* The three values; where parse_args stands before a --, and behind it.
Values(ip, port, text) ==
    [o \in Needed |-> IF o = "r_myip" THEN ip ELSE IF o = "r_myport" THEN port ELSE text]

Reading(prev, last, ip, port, text) ==
    [prev |-> prev, last |-> last, ended |-> FALSE, bad |-> FALSE, help |-> FALSE,
     value |-> Values(ip, port, text)]

\* Before the first token, no value is set and argv[0] is behind.
LEMMA ReadsFirst == NothingRead = Reading("none", 1, Unset, Unset, Unset)
  BY DEF NothingRead, Reading, Values

\* An option that is not r_help waits for its value.
LEMMA ReadsOption ==
    ASSUME NEW prev, NEW last, NEW ip, NEW port, NEW text, NEW o \in Needed
    PROVE  ReadToken(Reading(prev, last, ip, port, text), Long(o))
             = Reading(o, last + 1, ip, port, text)
<1> DEFINE read == Reading(prev, last, ip, port, text)
           token == Long(o)
           v == Values(ip, port, text)
<1>1. /\ token.kind \in {"short", "long"} /\ token.is = o /\ o \in Options /\ o # "r_help"
      /\ token.kind # "end" /\ token.kind \notin {"text", "num"}
  BY DEF Long, Token, Needed, Options
<1>2. /\ read = [prev |-> prev, last |-> last, ended |-> FALSE, bad |-> FALSE,
                 help |-> FALSE, value |-> v]
      /\ ~read.ended /\ ~read.bad /\ ~read.help
  BY DEF Reading
<1> HIDE DEF token, read, v
<1>3. ReadToken(read, token)
        = [read EXCEPT !.prev = token.is, !.last = @ + 1,
                       !.help = read.help \/ token.is = "r_help"]
  BY <1>1, <1>2 DEF ReadToken, ReadWith
<1>4. (read.help \/ token.is = "r_help") = FALSE
  BY <1>1, <1>2
<1>5. ReadToken(read, token)
        = [prev |-> o, last |-> last + 1, ended |-> FALSE, bad |-> FALSE,
           help |-> FALSE, value |-> v]
  BY <1>1, <1>2, <1>3, <1>4
<1> QED
  BY <1>5 DEF read, token, v, Reading

\* A value goes to the option before it.
LEMMA ReadsValue ==
    ASSUME NEW prev \in Needed, NEW last, NEW ip, NEW port, NEW text, NEW token,
           token.kind = (IF prev = "r_myport" THEN "num" ELSE "text")
    PROVE  ReadToken(Reading(prev, last, ip, port, text), token)
             = Reading("none", last + 1,
                       IF prev = "r_myip" THEN token ELSE ip,
                       IF prev = "r_myport" THEN token ELSE port,
                       IF prev = "r_hostmap" THEN token ELSE text)
<1> DEFINE read == Reading(prev, last, ip, port, text)
           v == Values(ip, port, text)
           w == Values(IF prev = "r_myip" THEN token ELSE ip,
                       IF prev = "r_myport" THEN token ELSE port,
                       IF prev = "r_hostmap" THEN token ELSE text)
<1>1. /\ token.kind \in {"text", "num"} /\ token.kind # "end" /\ token.kind \notin {"short", "long"}
      /\ (prev = "r_myport" => token.kind = "num")
      /\ prev # "none" /\ prev # "r_help"
  BY DEF Needed, Options
<1>2. /\ read = [prev |-> prev, last |-> last, ended |-> FALSE, bad |-> FALSE,
                 help |-> FALSE, value |-> v]
      /\ ~read.ended /\ ~read.bad /\ read.prev = prev
  BY DEF Reading
<1>3. [v EXCEPT ![prev] = token] = w
  <2>1. Needed = {"r_myip", "r_myport", "r_hostmap"}
    BY DEF Needed, Options
  <2> DEFINE x == [v EXCEPT ![prev] = token]
  <2>2. \A o \in Needed : x[o] = w[o]
    BY <2>1 DEF Values
  <2>3. x = [o \in Needed |-> x[o]] /\ w = [o \in Needed |-> w[o]]
    BY DEF Values
  <2> HIDE DEF x, w
  <2>4. x = w
    BY <2>2, <2>3
  <2> QED
    BY <2>4 DEF x
<1> HIDE DEF read, v, w
<1>4. ReadToken(read, token)
        = [read EXCEPT !.prev = "none", !.last = @ + 1, !.value[read.prev] = token]
  BY <1>1, <1>2 DEF ReadToken, ReadWith
<1>5. ReadToken(read, token)
        = [prev |-> "none", last |-> last + 1, ended |-> FALSE, bad |-> FALSE,
           help |-> FALSE, value |-> [v EXCEPT ![prev] = token]]
  BY <1>2, <1>4
<1> QED
  BY <1>3, <1>5 DEF read, w, Reading

AllRead(last, ip, port, text) ==
    [prev |-> "none", last |-> last, ended |-> TRUE, bad |-> FALSE, help |-> FALSE,
     value |-> Values(ip, port, text)]

\* A -- ends the options, behind it begin the arguments of the program.
LEMMA ReadsEnd ==
    ASSUME NEW last, NEW ip, NEW port, NEW text
    PROVE  ReadToken(Reading("none", last, ip, port, text), End)
             = AllRead(last + 1, ip, port, text)
<1> DEFINE read == Reading("none", last, ip, port, text)
<1>1. /\ read = [prev |-> "none", last |-> last, ended |-> FALSE, bad |-> FALSE,
                 help |-> FALSE, value |-> Values(ip, port, text)]
      /\ ~read.ended /\ ~read.bad /\ read.prev = "none" /\ read.last = last
  BY DEF Reading
<1>2. End.kind = "end" /\ End.kind \notin {"short", "long"} /\ End.kind \notin {"text", "num"}
  BY DEF End, Token
<1> HIDE DEF read
<1>3. ReadToken(read, End) = [read EXCEPT !.ended = TRUE, !.last = last + 1]
  BY <1>1, <1>2 DEF ReadToken, ReadWith
<1>4. ReadToken(read, End)
        = [prev |-> "none", last |-> last + 1, ended |-> TRUE, bad |-> FALSE,
           help |-> FALSE, value |-> Values(ip, port, text)]
  BY <1>1, <1>3
<1> QED
  BY <1>4 DEF read, AllRead

\* Behind the --, parse_args reads nothing.
LEMMA ReadsNoMore ==
    ASSUME NEW last, NEW ip, NEW port, NEW text, NEW token
    PROVE  ReadToken(AllRead(last, ip, port, text), token) = AllRead(last, ip, port, text)
<1> DEFINE read == AllRead(last, ip, port, text)
<1>1. read.ended
  BY DEF AllRead
<1> HIDE DEF read
<1>2. ReadToken(read, token) = read
  BY <1>1 DEF ReadToken, ReadWith
<1> QED
  BY <1>2 DEF read

\* A command line as ffrun makes it, from the name of the program on.
IsLine(argv, ip, port, text) ==
    /\ argv[2] = Long("r_myip") /\ argv[3] = Text(ip)
    /\ argv[4] = Long("r_myport") /\ argv[5] = Num(port)
    /\ argv[6] = Long("r_hostmap") /\ argv[7] = Text(text)
    /\ argv[8] = End

\* The parser reads the three options and stops at the --.
LEMMA ParsesLine ==
    ASSUME NEW argv, NEW n \in Nat, n >= 8, Len(argv) = n, DOMAIN argv = 1..n,
           NEW ip, NEW port, NEW text, IsLine(argv, ip, port, text)
    PROVE  ParseArgs(argv) = AllRead(8, Text(ip), Num(port), Text(text))
<1> DEFINE a == Text(ip)
           b == Num(port)
           c == Text(text)
           s1 == Reading("none", 1, Unset, Unset, Unset)
           s2 == Reading("r_myip", 2, Unset, Unset, Unset)
           s3 == Reading("none", 3, a, Unset, Unset)
           s4 == Reading("r_myport", 4, a, Unset, Unset)
           s5 == Reading("none", 5, a, b, Unset)
           s6 == Reading("r_hostmap", 6, a, b, Unset)
           s7 == Reading("none", 7, a, b, c)
           s8 == AllRead(8, a, b, c)
<1>1. /\ "r_myip" \in Needed /\ "r_myport" \in Needed /\ "r_hostmap" \in Needed
      /\ a.kind = "text" /\ b.kind = "num" /\ c.kind = "text"
  BY DEF Needed, Options, Text, Num, Token
<1>2. /\ 1 + 1 = 2 /\ 2 + 1 = 3 /\ 3 + 1 = 4 /\ 4 + 1 = 5 /\ 5 + 1 = 6 /\ 6 + 1 = 7
      /\ 7 + 1 = 8
  OBVIOUS
<1>3. /\ argv[2] = Long("r_myip") /\ argv[3] = a /\ argv[4] = Long("r_myport")
      /\ argv[5] = b /\ argv[6] = Long("r_hostmap") /\ argv[7] = c /\ argv[8] = End
  BY DEF IsLine
<1> HIDE DEF a, b, c
<1>4. ReadToken(s1, argv[2]) = s2
  BY <1>1, <1>2, <1>3, ReadsOption
<1>5. ReadToken(s2, argv[3]) = s3
  BY <1>1, <1>2, <1>3, ReadsValue
<1>6. ReadToken(s3, argv[4]) = s4
  BY <1>1, <1>2, <1>3, ReadsOption
<1>7. ReadToken(s4, argv[5]) = s5
  BY <1>1, <1>2, <1>3, ReadsValue
<1>8. ReadToken(s5, argv[6]) = s6
  BY <1>1, <1>2, <1>3, ReadsOption
<1>9. ReadToken(s6, argv[7]) = s7
  BY <1>1, <1>2, <1>3, ReadsValue
<1>10. ReadToken(s7, argv[8]) = s8
  BY <1>2, <1>3, ReadsEnd
<1>11. \A token : ReadToken(s8, token) = s8
  BY ReadsNoMore
<1>12. NothingRead = s1
  BY ReadsFirst
<1> HIDE DEF s1, s2, s3, s4, s5, s6, s7, s8
<1> DEFINE at(i) == CASE i = 1 -> s1 [] i = 2 -> s2 [] i = 3 -> s3 [] i = 4 -> s4
                      [] i = 5 -> s5 [] i = 6 -> s6 [] i = 7 -> s7 [] OTHER -> s8
           f == [i \in 1..n |-> at(i)]
           g == [i \in 1..n |-> IF i = 1 THEN NothingRead ELSE ReadToken(f[i - 1], argv[i])]
           F == CHOOSE h : h = [i \in DOMAIN argv |->
                    IF i = 1 THEN NothingRead ELSE ReadToken(h[i - 1], argv[i])]
<1>13. /\ at(1) = s1 /\ at(2) = s2 /\ at(3) = s3 /\ at(4) = s4 /\ at(5) = s5 /\ at(6) = s6
       /\ at(7) = s7 /\ \A i \in 8..n : at(i) = s8
  OBVIOUS
<1>14. ASSUME NEW i \in 2..n PROVE ReadToken(at(i - 1), argv[i]) = at(i)
  <2>1. \/ i \in {2, 3, 4, 5, 6, 7, 8} \/ i \in 9..n
    OBVIOUS
  <2>2. CASE i = 2
    <3>1. i - 1 = 1
      BY <2>2
    <3> HIDE DEF at
    <3> QED
      BY <1>4, <1>13, <2>2, <3>1
  <2>3. CASE i = 3
    <3>1. i - 1 = 2
      BY <2>3
    <3> HIDE DEF at
    <3> QED
      BY <1>5, <1>13, <2>3, <3>1
  <2>4. CASE i = 4
    <3>1. i - 1 = 3
      BY <2>4
    <3> HIDE DEF at
    <3> QED
      BY <1>6, <1>13, <2>4, <3>1
  <2>5. CASE i = 5
    <3>1. i - 1 = 4
      BY <2>5
    <3> HIDE DEF at
    <3> QED
      BY <1>7, <1>13, <2>5, <3>1
  <2>6. CASE i = 6
    <3>1. i - 1 = 5
      BY <2>6
    <3> HIDE DEF at
    <3> QED
      BY <1>8, <1>13, <2>6, <3>1
  <2>7. CASE i = 7
    <3>1. i - 1 = 6
      BY <2>7
    <3> HIDE DEF at
    <3> QED
      BY <1>9, <1>13, <2>7, <3>1
  <2>8. CASE i = 8
    <3>1. i - 1 = 7 /\ i \in 8..n
      BY <2>8
    <3> HIDE DEF at
    <3> QED
      BY <1>10, <1>13, <2>8, <3>1
  <2>9. CASE i \in 9..n
    <3>1. i - 1 \in 8..n /\ i \in 8..n
      BY <2>9
    <3> HIDE DEF at
    <3> QED
      BY <1>11, <1>13, <3>1
  <2> QED
    BY <2>1, <2>2, <2>3, <2>4, <2>5, <2>6, <2>7, <2>8, <2>9
<1> HIDE DEF at
<1>15. f = g
  <2>1. ASSUME NEW i \in 1..n PROVE f[i] = g[i]
    <3>1. CASE i = 1
      BY <1>12, <1>13, <3>1
    <3>2. CASE i # 1
      <4>1. i \in 2..n /\ i - 1 \in 1..n
        BY <3>2
      <4>2. f[i - 1] = at(i - 1) /\ f[i] = at(i)
        BY <4>1
      <4>3. g[i] = ReadToken(f[i - 1], argv[i])
        BY <3>2
      <4> HIDE DEF f, g
      <4> QED
        BY <1>14, <4>1, <4>2, <4>3
    <3> QED
      BY <3>1, <3>2
  <2>2. f = [i \in 1..n |-> f[i]] /\ g = [i \in 1..n |-> g[i]]
    OBVIOUS
  <2> HIDE DEF f, g
  <2> QED
    BY <2>1, <2>2
<1>16. \E h : h = [i \in DOMAIN argv |->
                     IF i = 1 THEN NothingRead ELSE ReadToken(h[i - 1], argv[i])]
  <2> HIDE DEF f
  <2>1. f = [i \in DOMAIN argv |->
               IF i = 1 THEN NothingRead ELSE ReadToken(f[i - 1], argv[i])]
    BY <1>15
  <2> QED
    BY <2>1
<1> HIDE DEF f, g
<1>17. F = [i \in DOMAIN argv |-> IF i = 1 THEN NothingRead ELSE ReadToken(F[i - 1], argv[i])]
  BY <1>16
<1>18. ParseArgs(argv) = F[n]
  BY DEF ParseArgs
<1> HIDE DEF F
<1>19. F[1] = NothingRead /\ \A i \in 2..n : F[i] = ReadToken(F[i - 1], argv[i])
  <2>1. 1 \in DOMAIN argv /\ \A i \in 2..n : i \in DOMAIN argv /\ i # 1
    OBVIOUS
  <2> QED
    BY <1>17, <2>1
<1> DEFINE S == {i \in 1..n : F[i] = at(i)}
<1>20. 1 \in S
  BY <1>12, <1>13, <1>19
<1>21. ASSUME NEW i \in 2..n, i - 1 \in S PROVE i \in S
  BY <1>14, <1>19, <1>21
<1> HIDE DEF S
<1>22. 1..n \subseteq S
  BY <1>20, <1>21, Climb
<1>23. n \in 1..n /\ n \in 8..n
  OBVIOUS
<1>24. F[n] = s8
  BY <1>13, <1>22, <1>23 DEF S
<1> QED
  BY <1>18, <1>24 DEF s8, a, b, c
-----------------------------------------------------------------------------
(* The command line of ffrun *)

\* No arguments are one empty argument.
SomeTokens == Tokens \union {Blank}

\* Lists of entries of X, flattened, are a list of entries of X.
LEMMA FlattenTyped ==
    ASSUME NEW X, NEW args \in Seq(Seq(X))
    PROVE  FlattenSeq(args) \in Seq(X)
<1> DEFINE R == X \X X
<1>1. \A i \in DOMAIN args : \A j \in DOMAIN args[i] : args[i][j] \in X
  <2>1. \A i \in DOMAIN args : args[i] \in Seq(X)
    OBVIOUS
  <2>2. \A u \in Seq(X) : \A j \in DOMAIN u : u[j] \in X
    OBVIOUS
  <2> QED
    BY <2>1, <2>2
<1>2. \A i \in DOMAIN args : Follows(args[i], R)
  <2>1. \A i \in DOMAIN args : DOMAIN args[i] = 1..Len(args[i])
    <3>1. \A i \in DOMAIN args : args[i] \in Seq(X)
      OBVIOUS
    <3> QED
      BY <3>1
  <2> QED
    BY <1>1, <2>1 DEF Follows
<1>3. \A i \in DOMAIN args : \A x \in Range(args[i]) : x \in X
  BY <1>1 DEF Range
<1>4. \A i, j \in DOMAIN args : i < j =>
         \A x \in Range(args[i]), y \in Range(args[j]) : <<x, y>> \in R
  BY <1>3
<1> HIDE DEF R
<1> QED
  BY <1>2, <1>4, FlattenRight

\* Splitting the arguments yields tokens.
LEMMA SplitTyped ==
    ASSUME NEW args \in Seq(Seq(Tokens))
    PROVE  Split(args) \in Seq(SomeTokens)
<1>1. CASE args = <<>>
  <2>1. Split(args) = <<Blank>> /\ Blank \in SomeTokens
    BY <1>1 DEF Split, SomeTokens
  <2> HIDE DEF Blank
  <2> QED
    BY <2>1
<1>2. CASE args # <<>>
  <2>1. FlattenSeq(args) \in Seq(Tokens)
    BY FlattenTyped
  <2>2. Seq(Tokens) \subseteq Seq(SomeTokens)
    BY DEF SomeTokens
  <2> QED
    BY <1>2, <2>1, <2>2 DEF Split
<1> QED
  BY <1>1, <1>2

\* So does dropping the empty words.
LEMMA WordsTyped ==
    ASSUME NEW args \in Seq(Seq(Tokens))
    PROVE  Words(args) \in Seq(SomeTokens)
<1> DEFINE words == Split(args)
           kept == [i \in DOMAIN words |-> IF words[i] = Blank THEN <<>> ELSE <<words[i]>>]
<1>1. words \in Seq(SomeTokens)
  BY SplitTyped
<1>2. Words(args) = IF job.mode # "generate" THEN words ELSE FlattenSeq(kept)
  BY Zenon DEF Words
<1> HIDE DEF words
<1>3. kept \in Seq(Seq(SomeTokens))
  <2>1. ASSUME NEW i \in 1..Len(words) PROVE kept[i] \in Seq(SomeTokens)
    <3> HIDE DEF Blank
    <3>1. words[i] \in SomeTokens /\ i \in DOMAIN words
      BY <1>1
    <3>2. <<>> \in Seq(SomeTokens) /\ <<words[i]>> \in Seq(SomeTokens)
      BY <3>1
    <3>3. kept[i] = IF words[i] = Blank THEN <<>> ELSE <<words[i]>>
      BY <3>1, Zenon
    <3> QED
      BY <3>2, <3>3
  <2>2. DOMAIN words = 1..Len(words) /\ Len(words) \in Nat
    BY <1>1
  <2>3. kept = [i \in 1..Len(words) |-> kept[i]]
    BY <2>2
  <2> HIDE DEF kept
  <2> QED
    BY <2>1, <2>2, <2>3
<1> HIDE DEF kept
<1> QED
  BY <1>1, <1>2, <1>3, FlattenTyped

\* Arguments of one word each
LEMMA SplitOnes ==
    ASSUME NEW args \in Seq(Seq(Tokens)), args # <<>>,
           \A i \in DOMAIN args : Len(args[i]) = 1
    PROVE  Len(Split(args)) = Len(args)
<1> DEFINE n == Len(args)
<1>1. n \in Nat \ {0} /\ DOMAIN args = 1..n /\ \A i \in 1..n : args[i] \in Seq(Tokens)
  OBVIOUS
<1>2. PICK f : /\ f[1] = args[1] /\ f[n] = FlattenSeq(args)
               /\ \A i \in 2..n : f[i] = f[i - 1] \o args[i]
  BY <1>1, FlattenRuns
<1> DEFINE S == {m \in 1..n : f[m] \in Seq(Tokens) /\ Len(f[m]) = m}
<1>3. 1 \in S
  <2>1. 1 \in 1..n
    BY <1>1
  <2> QED
    BY <1>1, <1>2, <2>1
<1>4. ASSUME NEW m \in 2..n, m - 1 \in S PROVE m \in S
  <2>1. m \in 1..n
    BY <1>1
  <2>2. /\ f[m - 1] \in Seq(Tokens) /\ Len(f[m - 1]) = m - 1
        /\ args[m] \in Seq(Tokens) /\ Len(args[m]) = 1
    BY <1>1, <1>4, <2>1
  <2>3. f[m] = f[m - 1] \o args[m]
    BY <1>2
  <2>4. \A u, v \in Seq(Tokens) : u \o v \in Seq(Tokens) /\ Len(u \o v) = Len(u) + Len(v)
    OBVIOUS
  <2>5. (m - 1) + 1 = m
    BY <2>1
  <2> QED
    BY <2>1, <2>2, <2>3, <2>4, <2>5
<1> HIDE DEF S
<1>5. 1..n \subseteq S
  BY <1>1, <1>3, <1>4, Climb
<1>6. n \in S
  BY <1>1, <1>5
<1> QED
  BY <1>2, <1>6 DEF S, Split

\* Two sequences, one behind the other.
LEMMA Joined ==
    ASSUME NEW X, NEW s \in Seq(X), NEW t \in Seq(X)
    PROVE  /\ s \o t \in Seq(X) /\ Len(s \o t) = Len(s) + Len(t)
           /\ Len(s) \in Nat /\ Len(t) \in Nat
           /\ \A i \in 1..Len(s) : (s \o t)[i] = s[i]
           /\ \A i \in 1..Len(t) : (s \o t)[Len(s) + i] = t[i]
  OBVIOUS

\* The two parts of a sequence.
LEMMA TwoParts ==
    ASSUME NEW X, NEW s \in Seq(X), NEW t \in Seq(X)
    PROVE  /\ SubSeq(s \o t, 1, Len(s)) = s
           /\ SubSeq(s \o t, Len(s) + 1, Len(s \o t)) = t
<1> DEFINE u == s \o t
           a == SubSeq(u, 1, Len(s))
           b == SubSeq(u, Len(s) + 1, Len(u))
<1>1. /\ Len(s) \in Nat /\ Len(t) \in Nat /\ u \in Seq(X) /\ Len(u) = Len(s) + Len(t)
      /\ \A i \in 1..Len(s) : u[i] = s[i]
      /\ \A i \in 1..Len(t) : u[i + Len(s)] = t[i]
  OBVIOUS
<1> HIDE DEF u
<1>2. a = [i \in 1..Len(s) |-> u[i]]
  <2>1. a = [i \in 1..(Len(s) - 1 + 1) |-> u[1 + i - 1]]
    BY <1>1
  <2>2. Len(s) - 1 + 1 = Len(s) /\ \A i \in 1..Len(s) : 1 + i - 1 = i
    BY <1>1
  <2> QED
    BY <2>1, <2>2
<1>3. b = [i \in 1..Len(t) |-> u[i + Len(s)]]
  <2>1. b = [i \in 1..(Len(u) - (Len(s) + 1) + 1) |-> u[Len(s) + 1 + i - 1]]
    BY <1>1
  <2>2. /\ Len(u) - (Len(s) + 1) + 1 = Len(t)
        /\ \A i \in 1..Len(t) : Len(s) + 1 + i - 1 = i + Len(s)
    BY <1>1
  <2> QED
    BY <2>1, <2>2
<1>4. s = [i \in 1..Len(s) |-> s[i]] /\ t = [i \in 1..Len(t) |-> t[i]]
  OBVIOUS
<1> HIDE DEF a, b
<1>5. a = s /\ b = t
  BY <1>1, <1>2, <1>3, <1>4
<1> QED
  BY <1>5 DEF a, b, u

\* The first argument of a list that is not an option, at n.
LEMMA FirstAt ==
    ASSUME NEW R, NEW n \in R, \A i \in R : i \in Nat, \A i \in R : n =< i
    PROVE  (CHOOSE i \in R : \A j \in R : i =< j) = n
<1>1. \A i \in R : (\A j \in R : i =< j) => i = n
  OBVIOUS
<1> QED
  BY <1>1

\* The places around the program behind the options of a container.
LEMMA Bounds ==
    ASSUME NEW n \in Nat, NEW start \in Nat, NEW t \in Nat, n >= start, start >= 3
    PROVE  /\ n \in 1..n /\ n \in start..(n + 1 + t)
           /\ n + 1 + t >= 3 /\ n + 1 =< n + 1 + t
  OBVIOUS

\* Singularity.Parse cuts the command of a container after the program.
LEMMA ContainerParsed ==
    ASSUME NEW c \in Seq(Seq(Tokens)), NEW prog \in Seq(Seq(Tokens)),
           NEW tail \in Seq(Seq(Tokens)), Len(prog) = 1, c # <<>>, IsContainer(c)
    PROVE  SingularityParse((c \o prog) \o tail) = [ok |-> TRUE, head |-> c \o prog, tail |-> tail]
<1> DEFINE head == c \o prog
           args == head \o tail
           n == Len(c)
           t == Len(tail)
           start == IF args[1][1] = Text("sudo") THEN 4 ELSE 3
           rest == {i \in start..Len(args) : ~IsFlag(args[i][1])}
           image == IF rest = {} THEN Len(args) + 1
                    ELSE CHOOSE i \in rest : \A j \in rest : i =< j
<1>1. /\ head \in Seq(Seq(Tokens)) /\ Len(head) = n + 1 /\ n \in Nat /\ t \in Nat
      /\ \A i \in 1..n : head[i] = c[i]
  <2>1. /\ head \in Seq(Seq(Tokens)) /\ Len(head) = Len(c) + Len(prog)
        /\ \A i \in 1..Len(c) : head[i] = c[i]
    BY Joined, ZenonT(30)
  <2>2. n \in Nat /\ t \in Nat
    OBVIOUS
  <2> HIDE DEF head
  <2> QED
    BY <2>1, <2>2
<1>2. n >= 1
  OBVIOUS
<1>3. /\ args \in Seq(Seq(Tokens)) /\ Len(args) = n + 1 + t
      /\ \A i \in 1..n : args[i] = c[i]
  <2> HIDE DEF head, n
  <2>1. /\ Len(args) = Len(head) + Len(tail) /\ args \in Seq(Seq(Tokens))
        /\ \A i \in 1..Len(head) : args[i] = head[i]
    BY <1>1, Joined, ZenonT(30)
  <2>2. \A i \in 1..n : i \in 1..(n + 1)
    BY <1>1
  <2> QED
    BY <1>1, <2>1, <2>2
<1>4. /\ SubSeq(args, 1, n + 1) = head /\ SubSeq(args, n + 2, Len(args)) = tail
  <2> HIDE DEF head, n
  <2>1. SubSeq(args, 1, Len(head)) = head /\ SubSeq(args, Len(head) + 1, Len(args)) = tail
    BY <1>1, TwoParts
  <2>2. (n + 1) + 1 = n + 2
    BY <1>1
  <2> QED
    BY <1>1, <2>1, <2>2
<1>5. /\ n >= start /\ ~IsFlag(c[n][1])
      /\ \A i \in start..(n - 1) : IsFlag(c[i][1])
      /\ start \in Nat /\ start >= 3
  <2>1. 1 \in 1..n
    BY <1>1, <1>2
  <2>2. args[1][1] = c[1][1]
    BY <1>3, <2>1
  <2>3. Text("sudo") = [kind |-> "text", is |-> "sudo"]
    BY DEF Text, Token
  <2> HIDE DEF args, n
  <2>4. n = Len(c)
    BY DEF n
  <2> QED
    BY <2>2, <2>3, <2>4 DEF IsContainer, IsFlag
<1>6. SingularityParse(args)
        = [ok |-> Len(args) >= 3 /\ image + 1 =< Len(args),
           head |-> IF Len(args) >= 3 /\ image + 1 =< Len(args)
                    THEN SubSeq(args, 1, image + 1) ELSE <<>>,
           tail |-> IF Len(args) >= 3 /\ image + 1 =< Len(args)
                    THEN SubSeq(args, image + 2, Len(args)) ELSE <<>>]
  BY DEF SingularityParse
<1> HIDE DEF start, args, n, head, t
<1>7. n \in rest /\ \A i \in rest : n =< i /\ i \in Nat
  <2>1. n \in 1..n /\ n \in start..Len(args)
    BY <1>1, <1>3, <1>5, Bounds
  <2>2. n \in rest
    BY <1>3, <1>5, <2>1
  <2>3. ASSUME NEW i \in rest, ~(n =< i) PROVE FALSE
    <3>1. i \in start..Len(args) /\ ~IsFlag(args[i][1])
      OBVIOUS
    <3>2. Len(args) \in Nat
      BY <1>3
    <3>3. i \in start..(n - 1) /\ i \in 1..n
      BY <1>1, <1>5, <2>3, <3>1, <3>2
    <3> QED
      BY <1>3, <1>5, <3>1, <3>3
  <2>4. \A i \in rest : i \in Nat
    BY <1>3, <1>5
  <2> QED
    BY <2>2, <2>3, <2>4
<1> HIDE DEF rest
<1>8. image = n
  BY <1>7, FirstAt
<1> HIDE DEF image
<1>9. Len(args) >= 3 /\ image + 1 =< Len(args)
  BY <1>1, <1>3, <1>5, <1>8, Bounds
<1>10. SingularityParse(args)
         = [ok |-> TRUE, head |-> SubSeq(args, 1, image + 1),
            tail |-> SubSeq(args, image + 2, Len(args))]
  BY <1>6, <1>9
<1> QED
  BY <1>4, <1>8, <1>10 DEF args, head

\* A place is among the first n or the last.
LEMMA LastOrNot ==
    ASSUME NEW n \in Nat
    PROVE  \A i \in 1..(n + 1) : i \in 1..n \/ i = n + 1
  OBVIOUS

\* A sequence followed by a single entry.
LEMMA OneMore ==
    ASSUME NEW X, NEW s \in Seq(X), NEW x \in X
    PROVE  /\ s \o <<x>> \in Seq(X) /\ s \o <<x>> # <<>> /\ Len(s \o <<x>>) = Len(s) + 1
           /\ DOMAIN (s \o <<x>>) = 1..(Len(s) + 1)
           /\ \A i \in 1..Len(s) : (s \o <<x>>)[i] = s[i]
           /\ (s \o <<x>>)[Len(s) + 1] = x
  OBVIOUS

\* The part of the command up to the program is split into one token each.
LEMMA HeadSplit ==
    ASSUME NEW c \in Seq(Seq(Tokens)), NEW x \in Tokens, c # <<>> => IsContainer(c)
    PROVE  /\ Len(Split(c \o <<<<x>>>>)) = Len(c) + 1
           /\ Split(c \o <<<<x>>>>) \in Seq(SomeTokens)
<1> DEFINE w == <<x>>
           head == c \o <<w>>
           n == Len(c)
<1>1. w \in Seq(Tokens) /\ Len(w) = 1 /\ n \in Nat
  OBVIOUS
<1> HIDE DEF w
<1>2. /\ head \in Seq(Seq(Tokens)) /\ head # <<>> /\ Len(head) = n + 1
      /\ DOMAIN head = 1..(n + 1) /\ \A i \in 1..n : head[i] = c[i]
      /\ head[n + 1] = w
  BY <1>1, OneMore
<1>3. \A i \in 1..n : Len(c[i]) = 1
  <2>1. n = Len(c)
    OBVIOUS
  <2>2. CASE c = <<>>
    <3>1. n = 0
      BY <2>2
    <3> QED
      BY <3>1
  <2>3. CASE c # <<>>
    BY <2>3 DEF IsContainer
  <2> QED
    BY <2>2, <2>3
<1> HIDE DEF head, n
<1>4. \A i \in DOMAIN head : Len(head[i]) = 1
  BY <1>1, <1>2, <1>3, LastOrNot
<1>5. Len(Split(head)) = n + 1 /\ Split(head) \in Seq(SomeTokens)
  BY <1>2, <1>4, SplitOnes, SplitTyped
<1> QED
  BY <1>5 DEF head, n, w

\* What the command line is cut into: everything up to the program, and the
\* arguments of the program.
LEMMA ParsedRight ==
    ASSUME job \in Jobs, job.mode # "manual"
    PROVE  /\ Parsed.ok /\ Parsed.tail = job.args
           /\ Len(Split(Parsed.head)) = Len(job.container) + 1
           /\ Split(Parsed.head) \in Seq(SomeTokens)
           /\ Words(Parsed.tail) \in Seq(SomeTokens)
<1> DEFINE c == job.container
           tail == job.args
           x == job.program
           prog == <<<<x>>>>
<1>1. /\ x \in Tokens /\ tail \in Seq(Seq(Tokens)) /\ c \in Seq(Seq(Tokens))
      /\ c # <<>> => IsContainer(c)
  BY JobsAssumption
<1>2. Command = (c \o prog) \o tail
  BY DEF Command
<1>3. Parsed = IF c # <<>> THEN SingularityParse(Command)
               ELSE [ok |-> TRUE, head |-> prog, tail |-> tail]
  BY DEF Parsed
<1> HIDE DEF c, tail, x
<1>4. prog \in Seq(Seq(Tokens)) /\ Len(prog) = 1
  BY <1>1
<1>5. Parsed = [ok |-> TRUE, head |-> c \o prog, tail |-> tail]
  <2>1. CASE c = <<>>
    <3>1. <<>> \o prog = prog
      BY <1>4
    <3> HIDE DEF prog
    <3> QED
      BY <1>3, <2>1, <3>1
  <2>2. CASE c # <<>>
    <3> HIDE DEF prog
    <3>1. SingularityParse((c \o prog) \o tail)
            = [ok |-> TRUE, head |-> c \o prog, tail |-> tail]
      BY <1>1, <1>4, <2>2, ContainerParsed
    <3> QED
      BY <1>2, <1>3, <2>2, <3>1
  <2> QED
    BY <2>1, <2>2
<1>6. /\ Len(Split(c \o prog)) = Len(c) + 1
      /\ Split(c \o prog) \in Seq(SomeTokens)
  BY <1>1, HeadSplit
<1>7. Words(tail) \in Seq(SomeTokens)
  BY <1>1, WordsTyped
<1> HIDE DEF prog
<1>8. Parsed.ok /\ Parsed.head = c \o prog /\ Parsed.tail = tail
  BY <1>5
<1>9. tail = job.args /\ c = job.container
  BY DEF tail, c
<1> QED
  BY <1>6, <1>7, <1>8, <1>9, Zenon

-----------------------------------------------------------------------------
(* The command line of a process *)

\* A sequence from an entry on.
LEMMA FromEntry ==
    ASSUME NEW X, NEW u \in Seq(X), NEW c \in 0..Len(u)
    PROVE  /\ SubSeq(u, c + 1, Len(u)) \in Seq(X)
           /\ Len(SubSeq(u, c + 1, Len(u))) = Len(u) - c
           /\ \A i \in 1..(Len(u) - c) : SubSeq(u, c + 1, Len(u))[i] = u[c + i]
<1> DEFINE w == SubSeq(u, c + 1, Len(u))
           n == Len(u) - c
<1>1. w = [i \in 1..(Len(u) - (c + 1) + 1) |-> u[c + 1 + i - 1]]
  OBVIOUS
<1>2. n \in Nat /\ Len(u) - (c + 1) + 1 = n /\ \A i \in 1..n : c + 1 + i - 1 = c + i
  OBVIOUS
<1>3. \A j \in 1..Len(u) : u[j] \in X
  OBVIOUS
<1>4. ASSUME NEW i \in 1..n PROVE c + i \in 1..Len(u)
  OBVIOUS
<1> HIDE DEF w, n
<1>5. w = [i \in 1..n |-> u[c + i]]
  BY <1>1, <1>2
<1>6. \A i \in 1..n : u[c + i] \in X
  BY <1>3, <1>4, Zenon
<1>7. w \in Seq(X)
  BY <1>2, <1>5, <1>6
<1>8. DOMAIN w = 1..n /\ Len(w) = n /\ \A i \in 1..n : w[i] = u[c + i]
  BY <1>2, <1>5
<1> QED
  BY <1>7, <1>8 DEF w, n

\* Sequences of one length with the same entries are equal.
LEMMA SameSeq ==
    ASSUME NEW X, NEW s \in Seq(X), NEW t \in Seq(X), Len(s) = Len(t),
           \A i \in 1..Len(t) : s[i] = t[i]
    PROVE  s = t
  OBVIOUS

\* A command line argv in three parts, cut after its first c entries.
Cuts(s, mid, t, c, front, argv, run, tail, k, n) ==
    /\ front = s \o mid /\ argv = front \o t /\ run = SubSeq(argv, c + 1, Len(argv))
    /\ tail = SubSeq(run, k + 1, Len(run))
    /\ Len(s) = c + 1 /\ k = Len(mid) + 1 /\ n = k + Len(t)

\* When only the last entry of the first part is left, the second and the third
\* part follow it.
LEMMA LineCut ==
    ASSUME NEW X, NEW s \in Seq(X), NEW mid \in Seq(X), NEW t \in Seq(X), NEW c \in Nat,
           NEW front, NEW argv, NEW run, NEW tail, NEW k, NEW n
    PROVE  Cuts(s, mid, t, c, front, argv, run, tail, k, n)
           => /\ n \in Nat /\ Len(run) = n /\ DOMAIN run = 1..n
              /\ \A i \in 1..Len(mid) : run[i + 1] = mid[i]
              /\ tail = t
<1>a. SUFFICES ASSUME front = s \o mid, argv = front \o t, run = SubSeq(argv, c + 1, Len(argv)),
                      tail = SubSeq(run, k + 1, Len(run)),
                      Len(s) = c + 1, k = Len(mid) + 1, n = k + Len(t)
               PROVE  /\ n \in Nat /\ Len(run) = n /\ DOMAIN run = 1..n
                      /\ \A i \in 1..Len(mid) : run[i + 1] = mid[i]
                      /\ tail = t
  BY Zenon DEF Cuts
<1>1. /\ front \in Seq(X) /\ Len(front) = Len(s) + Len(mid)
      /\ \A i \in 1..Len(mid) : front[Len(s) + i] = mid[i]
      /\ Len(mid) \in Nat /\ Len(t) \in Nat
  <2>1. /\ s \o mid \in Seq(X) /\ Len(s \o mid) = Len(s) + Len(mid)
        /\ \A i \in 1..Len(mid) : (s \o mid)[Len(s) + i] = mid[i]
        /\ Len(mid) \in Nat /\ Len(t) \in Nat
    OBVIOUS
  <2>2. front = s \o mid
    BY <1>a
  <2> QED
    BY <2>1, <2>2, Zenon
<1>2. k \in Nat /\ n \in Nat /\ n = k + Len(t)
  BY <1>1, <1>a
<1>3. /\ argv \in Seq(X) /\ Len(argv) = Len(front) + Len(t)
      /\ \A i \in 1..Len(front) : argv[i] = front[i]
      /\ \A i \in 1..Len(t) : argv[Len(front) + i] = t[i]
  <2>1. /\ front \o t \in Seq(X) /\ Len(front \o t) = Len(front) + Len(t)
        /\ \A i \in 1..Len(front) : (front \o t)[i] = front[i]
        /\ \A i \in 1..Len(t) : (front \o t)[Len(front) + i] = t[i]
    <3>1. front \in Seq(X)
      BY <1>1, Zenon
    <3> QED
      BY <3>1
  <2>2. argv = front \o t
    BY <1>a
  <2> QED
    BY <2>1, <2>2, Zenon
<1>4. Len(front) = c + k /\ Len(argv) = c + n
  BY <1>1, <1>2, <1>3, <1>a
<1>5. /\ run \in Seq(X) /\ Len(run) = n /\ DOMAIN run = 1..n
      /\ \A i \in 1..n : run[i] = argv[c + i]
  <2>1. argv \in Seq(X)
    BY <1>3, Zenon
  <2>2. c \in 0..Len(argv) /\ Len(argv) - c = n
    BY <1>2, <1>4
  <2>3. /\ SubSeq(argv, c + 1, Len(argv)) \in Seq(X)
        /\ Len(SubSeq(argv, c + 1, Len(argv))) = Len(argv) - c
        /\ \A i \in 1..(Len(argv) - c) : SubSeq(argv, c + 1, Len(argv))[i] = argv[c + i]
    BY <2>1, <2>2, FromEntry, Zenon
  <2>4. run = SubSeq(argv, c + 1, Len(argv))
    BY <1>a
  <2>5. run \in Seq(X) /\ Len(run) = n /\ \A i \in 1..n : run[i] = argv[c + i]
    BY <2>2, <2>3, <2>4, Zenon
  <2> QED
    BY <2>5
<1>8. ASSUME NEW i \in 1..Len(mid) PROVE run[i + 1] = mid[i]
  <2>1. /\ i + 1 \in 1..n /\ c + (i + 1) = Len(s) + i /\ Len(s) + i \in 1..Len(front)
    <3>1. /\ c \in Nat /\ Len(s) = c + 1 /\ n = k + Len(t) /\ Len(t) \in Nat
          /\ k = Len(mid) + 1 /\ Len(mid) \in Nat /\ Len(front) = Len(s) + Len(mid)
          /\ i \in 1..Len(mid)
      BY <1>1, <1>a, Zenon
    <3> QED
      BY <3>1
  <2>2. run[i + 1] = argv[Len(s) + i]
    BY <1>5, <2>1, Zenon
  <2> QED
    BY <1>1, <1>3, <2>1, <2>2, Zenon
<1>9. tail = t
  <2>1. /\ tail \in Seq(X) /\ Len(tail) = Len(t)
        /\ \A i \in 1..Len(t) : tail[i] = run[k + i]
    <3>1. run \in Seq(X)
      BY <1>5, Zenon
    <3>2. k \in 0..Len(run) /\ Len(run) - k = Len(t)
      BY <1>1, <1>2, <1>5
    <3>3. /\ SubSeq(run, k + 1, Len(run)) \in Seq(X)
          /\ Len(SubSeq(run, k + 1, Len(run))) = Len(run) - k
          /\ \A i \in 1..(Len(run) - k) : SubSeq(run, k + 1, Len(run))[i] = run[k + i]
      BY <3>1, <3>2, FromEntry, Zenon
    <3>4. tail = SubSeq(run, k + 1, Len(run))
      BY <1>a
    <3> QED
      BY <3>2, <3>3, <3>4, Zenon
  <2>2. ASSUME NEW i \in 1..Len(t) PROVE run[k + i] = t[i]
    <3>1. k + i \in 1..n /\ c + (k + i) = Len(front) + i
      <4>1. /\ c \in Nat /\ k \in Nat /\ n = k + Len(t) /\ Len(t) \in Nat
            /\ Len(front) = c + k /\ i \in 1..Len(t)
        BY <1>1, <1>2, <1>4, Zenon
      <4> QED
        BY <4>1
    <3>2. run[k + i] = argv[Len(front) + i]
      BY <1>5, <3>1, Zenon
    <3> QED
      BY <1>3, <3>2, Zenon
  <2>3. \A i \in 1..Len(t) : tail[i] = t[i]
    BY <2>1, <2>2, Zenon
  <2> QED
    BY <2>1, <2>3, SameSeq, Zenon
<1> QED
  BY <1>2, <1>5, <1>8, <1>9

\* What a process started for info finds on its command line.
Line(argv, info, text) ==
    /\ Len(Words(job.args)) \in Nat /\ Len(argv) = 8 + Len(Words(job.args))
    /\ DOMAIN argv = 1..Len(argv)
    /\ IsLine(argv, info[1], info[2], text)
    /\ SubSeq(argv, 9, Len(argv)) = Words(job.args)

\* CmdResult.ToArgv, without the words that start the container.
LEMMA CommandLine ==
    ASSUME job \in Jobs, job.mode # "manual", NEW info, NEW text, NEW argv,
           argv = ToArgv(info, text)
    PROVE  Line(SubSeq(argv, Len(job.container) + 1, Len(argv)), info, text)
<1> DEFINE s == Split(Parsed.head)
           t == Words(Parsed.tail)
           mid == <<Long("r_myip"), Text(info[1]), Long("r_myport"), Num(info[2]),
                    Long("r_hostmap"), Text(text), End>>
           X == SomeTokens \union {mid[i] : i \in 1..7}
           c == Len(job.container)
           run == SubSeq(argv, c + 1, Len(argv))
<1>1. /\ Len(s) = c + 1 /\ s \in Seq(SomeTokens) /\ t \in Seq(SomeTokens)
      /\ t = Words(job.args)
  BY ParsedRight
<1>2. c \in Nat
  <2>1. job.container \in Seq(Seq(Tokens))
    BY JobsAssumption
  <2> QED
    BY <2>1
<1>3. argv = (s \o mid) \o t
  BY DEF ToArgv
<1>4. /\ Len(mid) = 7 /\ DOMAIN mid = 1..7
      /\ mid[1] = Long("r_myip") /\ mid[2] = Text(info[1])
      /\ mid[3] = Long("r_myport") /\ mid[4] = Num(info[2])
      /\ mid[5] = Long("r_hostmap") /\ mid[6] = Text(text) /\ mid[7] = End
  <2> DEFINE a == Long("r_myip")
             b == Text(info[1])
             d == Long("r_myport")
             e == Num(info[2])
             f == Long("r_hostmap")
             g == Text(text)
             h == End
  <2> HIDE DEF a, b, d, e, f, g, h
  <2>1. /\ Len(<<a, b, d, e, f, g, h>>) = 7 /\ DOMAIN <<a, b, d, e, f, g, h>> = 1..7
        /\ <<a, b, d, e, f, g, h>>[1] = a /\ <<a, b, d, e, f, g, h>>[2] = b
        /\ <<a, b, d, e, f, g, h>>[3] = d /\ <<a, b, d, e, f, g, h>>[4] = e
        /\ <<a, b, d, e, f, g, h>>[5] = f /\ <<a, b, d, e, f, g, h>>[6] = g
        /\ <<a, b, d, e, f, g, h>>[7] = h
    OBVIOUS
  <2> QED
    BY <2>1 DEF a, b, d, e, f, g, h
<1>5. mid \in [1..7 -> {mid[i] : i \in 1..7}]
  <2>1. mid = [i \in 1..7 |-> mid[i]]
    OBVIOUS
  <2> HIDE DEF mid
  <2> QED
    BY <2>1
<1> HIDE DEF mid, s, t, c
<1>6. s \in Seq(X) /\ mid \in Seq(X) /\ t \in Seq(X)
  <2>1. SomeTokens \subseteq X /\ {mid[i] : i \in 1..7} \subseteq X
    OBVIOUS
  <2> HIDE DEF X
  <2>2. mid \in [1..7 -> X] /\ 7 \in Nat
    BY <1>5, <2>1
  <2>3. PICK n \in Nat : n = 7
    OBVIOUS
  <2>4. mid \in [1..n -> X]
    BY <2>2, <2>3, Zenon
  <2>5. mid \in Seq(X)
    BY <2>4
  <2> QED
    BY <1>1, <2>1, <2>5
<1> HIDE DEF X, run
<1>7. /\ Len(t) \in Nat /\ Len(run) = 8 + Len(t) /\ DOMAIN run = 1..(8 + Len(t))
      /\ \A i \in 1..7 : run[i + 1] = mid[i]
      /\ SubSeq(run, 9, Len(run)) = t
  <2>1. PICK front, k, n : front = s \o mid /\ k = Len(mid) + 1 /\ n = k + Len(t)
    OBVIOUS
  <2>2. PICK tail : tail = SubSeq(run, k + 1, Len(run))
    OBVIOUS
  <2>3. run = SubSeq(argv, c + 1, Len(argv))
    BY DEF run
  <2>4. argv = front \o t /\ Len(s) = c + 1
    BY <1>1, <1>3, <2>1, Zenon
  <2>5. /\ n \in Nat /\ Len(run) = n /\ DOMAIN run = 1..n
        /\ \A i \in 1..Len(mid) : run[i + 1] = mid[i]
        /\ tail = t
    <3>1. Cuts(s, mid, t, c, front, argv, run, tail, k, n)
      BY <2>1, <2>2, <2>3, <2>4, Zenon DEF Cuts
    <3> QED
      BY <1>2, <1>6, <3>1, LineCut, SMT
  <2>6. /\ Len(mid) = 7 /\ k = 8 /\ n = 8 + Len(t) /\ k + 1 = 9
    <3>1. Len(mid) = 7
      BY <1>4, Zenon
    <3> QED
      BY <2>1, <3>1
  <2>7. Len(t) \in Nat
    BY <1>1
  <2> QED
    BY <2>2, <2>5, <2>6, <2>7, Zenon
<1>8. IsLine(run, info[1], info[2], text)
  <2>1. /\ run[2] = mid[1] /\ run[3] = mid[2] /\ run[4] = mid[3] /\ run[5] = mid[4]
        /\ run[6] = mid[5] /\ run[7] = mid[6] /\ run[8] = mid[7]
    <3>1. /\ run[1 + 1] = mid[1] /\ run[2 + 1] = mid[2] /\ run[3 + 1] = mid[3]
          /\ run[4 + 1] = mid[4] /\ run[5 + 1] = mid[5] /\ run[6 + 1] = mid[6]
          /\ run[7 + 1] = mid[7]
      BY <1>7
    <3> QED
      BY <3>1
  <2> QED
    BY <1>4, <2>1, Zenon DEF IsLine
<1>9. Line(run, info, text)
  BY <1>1, <1>7, <1>8, Zenon DEF Line
<1> QED
  BY <1>9 DEF run, c

-----------------------------------------------------------------------------
(* The ports of the hosts *)

\* A set of numbers that is not empty has its Min.
LEMMA MinRight ==
    ASSUME NEW T, \A x \in T : x \in Nat, T # {}
    PROVE  Min(T) \in T /\ \A y \in T : Min(T) =< y
<1>1. T \subseteq Nat
  OBVIOUS
<1>2. PICK x \in T : \A y \in T : x =< y
  BY <1>1, Least
<1> QED
  BY <1>2 DEF Min

\* A set of places that is not empty has its Max.
LEMMA MaxRight ==
    ASSUME NEW n \in Nat, NEW T, \A x \in T : x \in 1..n, T # {}
    PROVE  Max(T) \in T
<1> DEFINE back(x) == n - x
           U == {back(x) : x \in T}
<1>1. U \subseteq Nat /\ U # {}
  OBVIOUS
<1>2. PICK u \in U : \A y \in U : u =< y
  BY <1>1, Least
<1>3. PICK x \in T : u = n - x
  BY <1>2
<1>4. \A y \in T : x >= y
  <2> SUFFICES ASSUME NEW y \in T PROVE x >= y
    OBVIOUS
  <2>1. n - x =< n - y
    BY <1>2, <1>3
  <2> QED
    BY <2>1
<1> QED
  BY <1>4 DEF Max

\* The list of hosts as ffrun reads it.
LEMMA ReadRight ==
    ASSUME NEW X, NEW text \in Seq(Nat \X X)
    PROVE  /\ Hosts(text) \subseteq Nat /\ IsFiniteSet(Hosts(text))
           /\ ReadNumproc(text) \in [Hosts(text) -> X]
           /\ ReadPorts(text) \in [Hosts(text) -> X]
<1> DEFINE n == Len(text)
<1>1. /\ n \in Nat /\ DOMAIN text = 1..n
      /\ \A i \in 1..n : text[i][1] \in Nat /\ text[i][2] \in X
  OBVIOUS
<1> HIDE DEF n
<1>2. Hosts(text) = {text[i][1] : i \in 1..n}
  BY <1>1 DEF Hosts
<1>3. Hosts(text) \subseteq Nat
  BY <1>1, <1>2
<1>4. IsFiniteSet(Hosts(text))
  <2>1. IsFiniteSet(1..n)
    BY <1>1, IntervalSize
  <2> DEFINE first == [i \in 1..n |-> text[i][1]]
  <2>2. first \in Surjection(1..n, Hosts(text))
    BY <1>2 DEF Surjection
  <2> QED
    BY <2>1, <2>2, FS_Surjection
<1>5. ASSUME NEW h \in Hosts(text)
      PROVE  /\ text[SelectInSeq(text, LAMBDA pair : pair[1] = h)][2] \in X
             /\ text[SelectLastInSeq(text, LAMBDA pair : pair[1] = h)][2] \in X
  <2> DEFINE I == {i \in 1..Len(text) : text[i][1] = h}
  <2>a. n = Len(text)
    BY DEF n
  <2>b. I # {}
    BY <1>2, <2>a
  <2>1. I # {} /\ \A i \in I : i \in 1..n /\ i \in Nat
    BY <1>1, <2>a, <2>b
  <2>2. /\ SelectInSeq(text, LAMBDA pair : pair[1] = h) = IF I # {} THEN Min(I) ELSE 0
        /\ SelectLastInSeq(text, LAMBDA pair : pair[1] = h) = IF I # {} THEN Max(I) ELSE 0
    BY DEF SelectInSeq, SelectLastInSeq
  <2> HIDE DEF I
  <2>3. Min(I) \in I /\ Max(I) \in I
    BY <1>1, <2>1, MinRight, MaxRight
  <2> QED
    BY <1>1, <2>1, <2>2, <2>3
<1>6. ReadNumproc(text) \in [Hosts(text) -> X]
  BY <1>5 DEF ReadNumproc
<1>7. ReadPorts(text) \in [Hosts(text) -> X]
  BY <1>5 DEF ReadPorts
<1> QED
  BY <1>3, <1>4, <1>6, <1>7

\* PortSelect: different ports.
LEMMA SelectRight ==
    ASSUME NEW num \in Nat, NEW s \in PortSelect(num)
    PROVE  s \in Seq(Nat) /\ IsInjective(s)
<1> DEFINE available == MinPort..(PortLimit - 1)
           count == IF num < Cardinality(available) THEN num ELSE Cardinality(available)
<1>1. Cardinality(available) \in Nat
  <2>1. IsFiniteSet(available)
    BY PortAssumption, FS_Interval
  <2> QED
    BY <2>1, FS_CardinalityType
<1>2. s \in [1..count -> available] /\ \A i, j \in 1..count : i # j => s[i] # s[j]
  BY DEF PortSelect
<1>3. \A x \in available : x \in Nat
  BY PortAssumption
<1> HIDE DEF available
<1>4. count \in Nat
  BY <1>1
<1> HIDE DEF count
<1>5. s \in [1..count -> Nat]
  BY <1>2, <1>3
<1>6. s \in Seq(Nat)
  BY <1>4, <1>5
<1>7. IsInjective(s)
  BY <1>2 DEF IsInjective
<1> QED
  BY <1>6, <1>7

\* What a node takes for the ports of the hosts.
LEMMA HostPortsRight ==
    ASSUME job \in Jobs, job.mode # "manual", NEW m \in HostPorts
    PROVE  /\ Hosts(job.text) \subseteq Nat /\ IsFiniteSet(Hosts(job.text))
           /\ m \in [Hosts(job.text) -> Seq(Nat)]
           /\ Distinct => \A h \in Hosts(job.text) : IsInjective(m[h])
<1> DEFINE text == job.text
           H == Hosts(text)
<1>1. text \in Seq(Nat \X (IF job.mode = "ports" THEN Seq(Nat) ELSE Nat))
  BY JobsAssumption
<1>2. CASE job.mode = "ports"
  <2>1. m = ReadPorts(text)
    BY <1>2 DEF HostPorts
  <2>2. text \in Seq(Nat \X Seq(Nat))
    BY <1>1, <1>2
  <2>3. H \subseteq Nat /\ IsFiniteSet(H) /\ m \in [H -> Seq(Nat)]
    BY <2>1, <2>2, ReadRight
  <2>4. Distinct => \A h \in H : IsInjective(m[h])
    BY <1>2, <2>1 DEF Distinct
  <2> QED
    BY <2>3, <2>4
<1>3. CASE job.mode # "ports"
  <2> DEFINE np == ReadNumproc(text)
  <2>1. text \in Seq(Nat \X Nat)
    BY <1>1, <1>3
  <2>2. H \subseteq Nat /\ IsFiniteSet(H) /\ np \in [H -> Nat]
    BY <2>1, ReadRight
  <2>3. /\ m \in [DOMAIN np -> UNION {PortSelect(np[h]) : h \in DOMAIN np}]
        /\ \A h \in DOMAIN np : m[h] \in PortSelect(np[h])
    BY <1>3 DEF HostPorts
  <2> HIDE DEF np, H
  <2>4. \A h \in H : m[h] \in Seq(Nat) /\ IsInjective(m[h])
    BY <2>2, <2>3, SelectRight
  <2>5. DOMAIN m = H /\ m = [h \in H |-> m[h]]
    BY <2>2, <2>3
  <2> QED
    BY <2>2, <2>4, <2>5 DEF H
<1> QED
  BY <1>2, <1>3

-----------------------------------------------------------------------------
(* RDMA_Init of a process that ffrun has started *)

\* getRank finds the process at its place.
LEMMA GetRankRight ==
    ASSUME NEW world \in Seq(Infoset), Follows(world, InOrderOfRanks),
           NEW k \in 1..Len(world), NEW ip, NEW port, world[k] = <<ip, port>>
    PROVE  GetRank(world, ip, port) = k - 1
<1> DEFINE I == {i \in 1..Len(world) : world[i] = <<ip, port>>}
<1>1. k \in I /\ \A i \in I : i \in Nat
  OBVIOUS
<1>2. ASSUME NEW i \in I PROVE k =< i
  <2>1. i \in 1..Len(world) /\ world[i] = world[k] /\ world[k] \in Infoset
    OBVIOUS
  <2>2. ~(i < k)
    <3>1. <<world[k], world[k]>> \notin InOrderOfRanks
      BY <2>1, RankOrder DEF StrictOrder
    <3>2. i < k => <<world[i], world[k]>> \in InOrderOfRanks
      BY <2>1 DEF Follows
    <3> QED
      BY <2>1, <3>1, <3>2
  <2> QED
    BY <2>1, <2>2
<1>3. SelectInSeq(world, LAMBDA info : info = <<ip, port>>) = IF I # {} THEN Min(I) ELSE 0
  BY DEF SelectInSeq
<1> HIDE DEF I
<1>4. Min(I) = k
  BY <1>1, <1>2, FirstAt DEF Min
<1> QED
  BY <1>1, <1>3, <1>4 DEF GetRank

\* What RDMA_Init makes of a command line of ffrun: it finds all options.
LEMMA InitReads ==
    ASSUME NEW info, NEW text, NEW argv, Line(argv, info, text)
    PROVE  LET world == CalRank(Decode(text))
           IN  RDMAInit(argv)
                 = IF Malformed(text) \/ Unlisted(world, info[1], info[2]) THEN Exited
                   ELSE [state |-> "up", rank |-> GetRank(world, info[1], info[2]),
                         world |-> world, args |-> SubSeq(argv, 9, Len(argv))]
<1> DEFINE read == ParseArgs(argv)
           n == Len(argv)
<1>1. read = AllRead(8, Text(info[1]), Num(info[2]), Text(text))
  <2>1. n \in Nat /\ n >= 8 /\ DOMAIN argv = 1..n
    BY DEF Line
  <2>2. IsLine(argv, info[1], info[2], text)
    BY DEF Line
  <2> HIDE DEF n
  <2>3. Len(argv) = n
    BY DEF n
  <2> QED
    BY <2>1, <2>2, <2>3, ParsesLine
<1>2. /\ read.last = 8
      /\ read.value["r_myip"].is = info[1] /\ read.value["r_myport"].is = info[2]
      /\ read.value["r_hostmap"].is = text
  <2> HIDE DEF read
  <2>1. /\ read.last = 8
        /\ read.value = Values(Text(info[1]), Num(info[2]), Text(text))
    BY <1>1 DEF AllRead
  <2>2. {"r_myip", "r_myport", "r_hostmap"} \subseteq Needed
    BY DEF Needed, Options
  <2> QED
    BY <2>1, <2>2 DEF Values, Text, Num, Token
<1>3. Valid(read)
  <2> HIDE DEF read
  <2>1. ~read.bad /\ ~read.help
    BY <1>1 DEF AllRead
  <2>2. read.value = Values(Text(info[1]), Num(info[2]), Text(text))
    BY <1>1 DEF AllRead
  <2>3. /\ Text(info[1]).kind # "unset" /\ Num(info[2]).kind # "unset"
        /\ Text(text).kind # "unset"
    BY DEF Text, Num, Token
  <2>4. \A o \in Needed : read.value[o].kind # "unset"
    BY <2>2, <2>3 DEF Values
  <2> QED
    BY <2>1, <2>4 DEF Valid
<1> DEFINE world == CalRank(Decode(text))
           out == ~Valid(read) \/ Malformed(text) \/ Unlisted(world, info[1], info[2])
<1> HIDE DEF read
<1>4. RDMAInit(argv)
        = IF out THEN Exited
          ELSE [state |-> "up", rank |-> GetRank(world, info[1], info[2]), world |-> world,
                args |-> SubSeq(argv, 9, Len(argv))]
  <2>1. 8 + 1 = 9
    OBVIOUS
  <2> QED
    BY <1>2, <2>1, Zenon DEF RDMAInit, read
<1> HIDE DEF world
<1>5. out <=> Malformed(text) \/ Unlisted(world, info[1], info[2])
  BY <1>3
<1> HIDE DEF out
<1> QED
  BY <1>4, <1>5 DEF world

\* A process that comes up has the arguments of the program, and, if no port is
\* listed twice, the list of ffrun and the rank ffrun has given it.
LEMMA InitRight ==
    ASSUME job \in Jobs, job.mode # "manual", NEW m \in HostPorts, NEW text \in Strings(m),
           NEW k \in 1..Len(CalculateRank(m)), NEW info, info = CalculateRank(m)[k],
           NEW argv, Line(argv, info, text), RDMAInit(argv).state = "up"
    PROVE  /\ RDMAInit(argv).args = Words(job.args)
           /\ Distinct => /\ RDMAInit(argv).rank = k - 1
                          /\ RDMAInit(argv).world = CalculateRank(m)
                          /\ CalculateRank(m) \in Seq(Infoset)
<1> DEFINE world == CalRank(Decode(text))
           out == Malformed(text) \/ Unlisted(world, info[1], info[2])
<1>3. RDMAInit(argv)
        = IF out THEN Exited
          ELSE [state |-> "up", rank |-> GetRank(world, info[1], info[2]), world |-> world,
                args |-> SubSeq(argv, 9, Len(argv))]
  BY InitReads, Zenon
<1> HIDE DEF world, out
<1>4. ~out
  <2>1. Exited.state = "exited"
    BY DEF Exited
  <2> QED
    BY <1>3, <2>1
<1>5. /\ RDMAInit(argv).rank = GetRank(world, info[1], info[2])
      /\ RDMAInit(argv).world = world /\ RDMAInit(argv).args = Words(job.args)
  BY <1>3, <1>4 DEF Line
<1>6. ASSUME Distinct
      PROVE  /\ GetRank(world, info[1], info[2]) = k - 1
             /\ world = CalculateRank(m) /\ CalculateRank(m) \in Seq(Infoset)
  <2> DEFINE H == Hosts(job.text)
  <2>1. /\ H \subseteq Nat /\ IsFiniteSet(H) /\ m \in [H -> Seq(Nat)]
        /\ \A h \in H : IsInjective(m[h])
    BY <1>6, HostPortsRight
  <2> HIDE DEF H
  <2>2. world = CalculateRank(m)
    BY <2>1, RanksAlike DEF world
  <2>3. CalculateRank(m) \in Seq(Infoset) /\ Follows(CalculateRank(m), InOrderOfRanks)
    BY <2>1, CalculateRankRight
  <2>4. k \in 1..Len(world) /\ world[k] = info
    BY <2>2
  <2>5. info = <<info[1], info[2]>>
    <3>1. info \in Infoset
      BY <2>2, <2>3, <2>4
    <3> QED
      BY <3>1 DEF Infoset
  <2>6. GetRank(world, info[1], info[2]) = k - 1
    BY <2>2, <2>3, <2>4, <2>5, GetRankRight
  <2> QED
    BY <2>2, <2>3, <2>6
<1> QED
  BY <1>5, <1>6

\* Whether the processes can read the host list depends on the ports alone.
LEMMA MalformedAlike ==
    ASSUME NEW H, IsFiniteSet(H), NEW m, DOMAIN m = H, NEW text \in Strings(m)
    PROVE  Malformed(text) <=> \E h \in H : m[h] = <<>>
<1>1. /\ Hosts(text) = H /\ \A i, j \in DOMAIN text : text[i][1] = text[j][1] => i = j
      /\ \A i \in DOMAIN text : text[i][2] = m[text[i][1]]
  BY Decoded
<1>2. H = {text[i][1] : i \in DOMAIN text}
  BY <1>1 DEF Hosts
<1> QED
  BY <1>1, <1>2 DEF Malformed

\* A process that ffrun has started comes up if the list has a port for every host.
LEMMA InitUp ==
    ASSUME job \in Jobs, job.mode # "manual", Distinct, NEW m \in HostPorts,
           NEW text \in Strings(m), ~Malformed(text),
           NEW k \in 1..Len(CalculateRank(m)), NEW info, info = CalculateRank(m)[k],
           NEW argv, Line(argv, info, text)
    PROVE  RDMAInit(argv).state = "up"
<1> DEFINE H == Hosts(job.text)
           world == CalRank(Decode(text))
<1>1. /\ H \subseteq Nat /\ IsFiniteSet(H) /\ m \in [H -> Seq(Nat)]
      /\ \A h \in H : IsInjective(m[h])
  BY HostPortsRight
<1> HIDE DEF H
<1>2. world = CalculateRank(m) /\ CalculateRank(m) \in Seq(Infoset)
  BY <1>1, RanksAlike, CalculateRankRight
<1>3. /\ info \in Infoset /\ info = <<info[1], info[2]>> /\ info \in Range(CalculateRank(m))
  BY <1>2 DEF Infoset, Range
<1> HIDE DEF world
<1>4. ~Unlisted(world, info[1], info[2])
  BY <1>2, <1>3 DEF Unlisted
<1>5. RDMAInit(argv) = [state |-> "up", rank |-> GetRank(world, info[1], info[2]),
                        world |-> world, args |-> SubSeq(argv, 9, Len(argv))]
  BY <1>4, InitReads, Zenon DEF world
<1> QED
  BY <1>5

-----------------------------------------------------------------------------
(* The invariant *)

Process(argv, info, is) == [argv |-> argv, info |-> info, is |-> is]

\* Process p was started by ffrun at node p[1] for entry p[2] of the list there,
\* with a command line that names the entry, and is what RDMA_Init makes of it.
StartedRight(p) ==
    /\ p[1] \in Nodes /\ stage[p[1]] # "new" /\ ports[p[1]] \in HostPorts
    /\ p[2] \in 1..Len(CalculateRank(ports[p[1]]))
    /\ procs[p] = Process(procs[p].argv, CalculateRank(ports[p[1]])[p[2]], procs[p].is)
    /\ \E text \in Strings(ports[p[1]]) : Line(procs[p].argv, procs[p].info, text)
    /\ procs[p].is.state # "started" => procs[p].is = RDMAInit(procs[p].argv)

\* ffrun runs on the ports it has chosen, and what it has started is right.
LaunchInv ==
    /\ job \in Jobs /\ DOMAIN stage = Nodes /\ DOMAIN ports = Nodes /\ next \in [Nodes -> Nat]
    /\ \A n \in Nodes : stage[n] = "running" => job.mode # "manual" /\ ports[n] \in HostPorts
    /\ job.mode # "manual" => \A p \in DOMAIN procs : StartedRight(p)

\* Nothing has been started yet.
LEMMA InitLaunch == WorldInit => LaunchInv
<1> SUFFICES ASSUME WorldInit PROVE LaunchInv
  OBVIOUS
<1>1. /\ job \in Jobs /\ stage = [n \in Nodes |-> "new"] /\ ports = [n \in Nodes |-> Unread]
      /\ next = [n \in Nodes |-> 0] /\ procs = <<>>
  BY DEF WorldInit, Init
<1>2. DOMAIN stage = Nodes /\ DOMAIN ports = Nodes /\ next \in [Nodes -> Nat]
  BY <1>1
<1>3. \A n \in Nodes : stage[n] # "running"
  BY <1>1
<1>4. DOMAIN procs = {}
  BY <1>1
<1> QED
  BY <1>1, <1>2, <1>3, <1>4 DEF LaunchInv

\* The processes stay what they are when their node keeps its ports.
LEMMA StartedKept ==
    ASSUME NEW p, StartedRight(p), UNCHANGED <<job, procs>>,
           stage'[p[1]] # "new", ports'[p[1]] = ports[p[1]]
    PROVE  StartedRight(p)'
<1>1. /\ Nodes' = Nodes /\ HostPorts' = HostPorts
      /\ \A argv, info, text : Line(argv, info, text)' <=> Line(argv, info, text)
  BY DEF Nodes, HostPorts, Line, Words
<1> QED
  BY <1>1 DEF StartedRight

\* ffrun that ends with an error starts nothing.
LEMMA FailKeeps ==
    ASSUME LaunchInv, NEW n \in Nodes, Fail(n)
    PROVE  LaunchInv'
<1>1. /\ UNCHANGED <<job, ports, local, next, procs>>
      /\ stage[n] = "new" /\ stage' = [stage EXCEPT ![n] = "failed"]
  BY DEF Fail
<1>2. Nodes' = Nodes /\ HostPorts' = HostPorts
  BY <1>1 DEF Nodes, HostPorts
<1>3. /\ DOMAIN stage' = Nodes /\ stage'[n] = "failed"
      /\ \A q \in Nodes : q # n => stage'[q] = stage[q]
  BY <1>1 DEF LaunchInv
<1>4. \A q \in Nodes : stage'[q] = "running" => job.mode # "manual" /\ ports'[q] \in HostPorts
  BY <1>1, <1>3 DEF LaunchInv
<1>5. ASSUME job.mode # "manual", NEW p \in DOMAIN procs PROVE StartedRight(p)'
  <2>1. StartedRight(p)
    BY <1>5 DEF LaunchInv
  <2>2. stage'[p[1]] # "new"
    BY <1>3, <2>1 DEF StartedRight
  <2> QED
    BY <1>1, <2>1, <2>2, StartedKept
<1> QED
  BY <1>1, <1>2, <1>3, <1>4, <1>5 DEF LaunchInv

\* runCmd chooses the ports of its node before its first process.
LEMMA PrepareKeeps ==
    ASSUME LaunchInv, NEW n \in Nodes, Prepare(n)
    PROVE  LaunchInv'
<1>1. /\ UNCHANGED <<job, next, procs>> /\ job.mode # "manual"
      /\ stage[n] = "new" /\ stage' = [stage EXCEPT ![n] = "running"]
  BY DEF Prepare
<1>2. PICK m \in HostPorts : ports' = [ports EXCEPT ![n] = m]
  BY DEF Prepare
<1>3. Nodes' = Nodes /\ HostPorts' = HostPorts
  BY <1>1 DEF Nodes, HostPorts
<1>4. /\ DOMAIN stage' = Nodes /\ DOMAIN ports' = Nodes
      /\ stage'[n] = "running" /\ ports'[n] = m
      /\ \A q \in Nodes : q # n => stage'[q] = stage[q] /\ ports'[q] = ports[q]
  BY <1>1, <1>2 DEF LaunchInv
<1>5. \A q \in Nodes : stage'[q] = "running" => job.mode # "manual" /\ ports'[q] \in HostPorts
  BY <1>1, <1>2, <1>4 DEF LaunchInv
<1>6. ASSUME job.mode # "manual", NEW p \in DOMAIN procs PROVE StartedRight(p)'
  <2>1. StartedRight(p)
    BY <1>6 DEF LaunchInv
  <2>2. p[1] \in Nodes /\ p[1] # n
    BY <1>1, <2>1 DEF StartedRight
  <2>3. stage'[p[1]] # "new" /\ ports'[p[1]] = ports[p[1]]
    BY <1>4, <2>1, <2>2 DEF StartedRight
  <2> QED
    BY <1>1, <2>1, <2>3, StartedKept
<1> QED
  BY <1>1, <1>3, <1>4, <1>5, <1>6 DEF LaunchInv

\* The end of ffrun leaves its processes.
LEMMA AllStartedKeeps ==
    ASSUME LaunchInv, NEW n \in Nodes, AllStarted(n)
    PROVE  LaunchInv'
<1>1. /\ UNCHANGED <<job, ports, local, next, procs>>
      /\ stage' = [stage EXCEPT ![n] = "done"]
  BY DEF AllStarted
<1>2. Nodes' = Nodes /\ HostPorts' = HostPorts
  BY <1>1 DEF Nodes, HostPorts
<1>3. DOMAIN stage' = Nodes /\ stage'[n] = "done" /\ \A q \in Nodes : q # n => stage'[q] = stage[q]
  BY <1>1 DEF LaunchInv
<1>4. \A q \in Nodes : stage'[q] = "running" => job.mode # "manual" /\ ports'[q] \in HostPorts
  BY <1>1, <1>3 DEF LaunchInv
<1>5. ASSUME job.mode # "manual", NEW p \in DOMAIN procs PROVE StartedRight(p)'
  <2>1. StartedRight(p)
    BY <1>5 DEF LaunchInv
  <2>2. stage'[p[1]] # "new"
    BY <1>3, <2>1 DEF StartedRight
  <2> QED
    BY <1>1, <2>1, <2>2, StartedKept
<1> QED
  BY <1>1, <1>2, <1>3, <1>4, <1>5 DEF LaunchInv

\* A job started by hand has nothing of ffrun.
LEMMA ByHandKeeps ==
    ASSUME LaunchInv, NEW n \in Nodes, StartByHand(n)
    PROVE  LaunchInv'
<1>1. /\ UNCHANGED <<job, ports, next>> /\ job.mode = "manual"
      /\ stage' = [stage EXCEPT ![n] = "done"]
  BY DEF StartByHand
<1>2. Nodes' = Nodes /\ HostPorts' = HostPorts
  BY <1>1 DEF Nodes, HostPorts
<1>3. DOMAIN stage' = Nodes /\ stage'[n] = "done" /\ \A q \in Nodes : q # n => stage'[q] = stage[q]
  BY <1>1 DEF LaunchInv
<1>4. \A q \in Nodes : stage'[q] = "running" => job.mode # "manual" /\ ports'[q] \in HostPorts
  BY <1>1, <1>3 DEF LaunchInv
<1> QED
  BY <1>1, <1>2, <1>3, <1>4 DEF LaunchInv

\* A process that is started gets the next entry of the list.
LEMMA StartKeeps ==
    ASSUME LaunchInv, NEW n \in Nodes, StartProcess(n)
    PROVE  LaunchInv'
<1> DEFINE Starts(i, info, text, argv, run) ==
             /\ i = (CHOOSE j \in Ahead(n) : \A k \in Ahead(n) : j =< k)
             /\ info = CalculateRank(ports[n])[i] /\ text \in Strings(ports[n])
             /\ argv = ToArgv(info, text)
             /\ run = SubSeq(argv, Len(job.container) + 1, Len(argv))
             /\ next' = [next EXCEPT ![n] = i]
             /\ procs' = [p \in DOMAIN procs \union {<<n, i>>} |->
                            IF p = <<n, i>> THEN Started(run, info) ELSE procs[p]]
<1>a. PICK i, info, text, argv, run : Starts(i, info, text, argv, run)
  <2> DEFINE first == CHOOSE j \in Ahead(n) : \A k \in Ahead(n) : j =< k
             entry == CalculateRank(ports[n])[first]
             line(text) == ToArgv(entry, text)
             cut(text) == SubSeq(line(text), Len(job.container) + 1, Len(line(text)))
  <2>1. /\ next' = [next EXCEPT ![n] = first]
        /\ \E text \in Strings(ports[n]) :
             procs' = [p \in DOMAIN procs \union {<<n, first>>} |->
                         IF p = <<n, first>> THEN Started(cut(text), entry) ELSE procs[p]]
    BY Zenon DEF StartProcess
  <2>2. PICK text \in Strings(ports[n]) :
          procs' = [p \in DOMAIN procs \union {<<n, first>>} |->
                      IF p = <<n, first>> THEN Started(cut(text), entry) ELSE procs[p]]
    BY <2>1
  <2>3. PICK i : i = first
    OBVIOUS
  <2>4. PICK info : info = entry
    OBVIOUS
  <2>5. PICK argv : argv = line(text)
    OBVIOUS
  <2>6. PICK run : run = cut(text)
    OBVIOUS
  <2>7. run = SubSeq(argv, Len(job.container) + 1, Len(argv)) /\ argv = ToArgv(info, text)
    BY <2>4, <2>5, <2>6
  <2>8. info = CalculateRank(ports[n])[i]
    BY <2>3, <2>4
  <2>9. i = (CHOOSE j \in Ahead(n) : \A k \in Ahead(n) : j =< k)
    BY <2>3
  <2> HIDE DEF first, entry, line, cut
  <2>10. /\ next' = [next EXCEPT ![n] = i]
         /\ procs' = [p \in DOMAIN procs \union {<<n, i>>} |->
                       IF p = <<n, i>> THEN Started(run, info) ELSE procs[p]]
    BY <2>1, <2>2, <2>3, <2>4, <2>6
  <2> QED
    <3>1. text \in Strings(ports[n])
      OBVIOUS
    <3>2. Starts(i, info, text, argv, run)
      BY <2>7, <2>8, <2>9, <2>10, <3>1, Zenon
    <3> HIDE DEF Starts
    <3> QED
      BY <3>2, Zenon
<1>1. /\ i = (CHOOSE j \in Ahead(n) : \A k \in Ahead(n) : j =< k)
      /\ info = CalculateRank(ports[n])[i] /\ text \in Strings(ports[n])
      /\ argv = ToArgv(info, text)
      /\ run = SubSeq(argv, Len(job.container) + 1, Len(argv))
      /\ next' = [next EXCEPT ![n] = i]
      /\ procs' = [p \in DOMAIN procs \union {<<n, i>>} |->
                     IF p = <<n, i>> THEN Started(run, info) ELSE procs[p]]
  BY <1>a, Zenon
<1> HIDE DEF Starts
<1>2. UNCHANGED <<job, stage, ports>> /\ stage[n] = "running" /\ Ahead(n) # {}
  BY DEF StartProcess
<1>3. Nodes' = Nodes /\ HostPorts' = HostPorts
      /\ \A line, at, list : Line(line, at, list)' <=> Line(line, at, list)
  BY <1>2 DEF Nodes, HostPorts, Line, Words
<1>4. i \in Nat /\ i \in 1..Len(CalculateRank(ports[n]))
  <2>1. next[n] \in Nat
    BY DEF LaunchInv
  <2>2. \A j \in Ahead(n) : j \in Nat /\ j \in 1..Len(CalculateRank(ports[n]))
    BY <2>1 DEF Ahead
  <2>3. PICK j \in Ahead(n) : \A k \in Ahead(n) : j =< k
    <3>1. Ahead(n) \subseteq Nat
      BY <2>2
    <3> QED
      BY <1>2, <3>1, Least
  <2>4. i \in Ahead(n)
    BY <1>1, <2>3
  <2> QED
    BY <2>2, <2>4
<1>5. ports[n] \in HostPorts /\ job \in Jobs /\ job.mode # "manual"
  BY <1>2 DEF LaunchInv
<1>6. Line(run, info, text)
  BY <1>1, <1>5, CommandLine
<1>7. PICK q : q = <<n, i>>
  OBVIOUS
<1>8. StartedRight(q)'
  <2>1. q[1] = n /\ q[2] = i
    BY <1>7
  <2>2. procs'[q] = Started(run, info)
    BY <1>1, <1>7
  <2>3. /\ procs'[q].argv = run /\ procs'[q].info = info /\ procs'[q].is.state = "started"
        /\ procs'[q] = Process(procs'[q].argv, info, procs'[q].is)
    BY <2>2 DEF Started, Exited, Process
  <2>4. ports'[n] = ports[n] /\ stage'[n] = "running"
    BY <1>2
  <2>5. Line(run, info, text)'
    BY <1>3, <1>6
  <2>6. \E at \in Strings(ports'[n]) : Line(procs[q].argv, procs[q].info, at)'
    BY <1>1, <2>3, <2>4, <2>5
  <2>7. n \in Nodes' /\ ports'[n] \in HostPorts' /\ i \in 1..Len(CalculateRank(ports'[n]))
        /\ info = CalculateRank(ports'[n])[i]
    BY <1>1, <1>3, <1>4, <1>5, <2>4
  <2> QED
    BY <2>1, <2>3, <2>4, <2>6, <2>7 DEF StartedRight
<1>9. ASSUME NEW p \in DOMAIN procs, p # q PROVE StartedRight(p)'
  <2>1. StartedRight(p)
    BY <1>5 DEF LaunchInv
  <2>2. procs'[p] = procs[p]
    BY <1>1, <1>7, <1>9
  <2> QED
    BY <1>2, <1>3, <2>1, <2>2 DEF StartedRight
<1>10. \A p \in DOMAIN procs' : StartedRight(p)'
  <2>1. DOMAIN procs' = DOMAIN procs \union {q}
    BY <1>1, <1>7
  <2> QED
    BY <1>8, <1>9, <2>1
<1>11. /\ DOMAIN stage' = Nodes' /\ DOMAIN ports' = Nodes' /\ job' \in Jobs
       /\ \A r \in Nodes' :
             stage'[r] = "running" => job'.mode # "manual" /\ ports'[r] \in HostPorts'
  BY <1>2, <1>3 DEF LaunchInv
<1>12. next' \in [Nodes' -> Nat]
  BY <1>1, <1>3, <1>4 DEF LaunchInv
<1> QED
  BY <1>10, <1>11, <1>12 DEF LaunchInv

\* RDMA_Init computes the rank from the command line and changes nothing else.
LEMMA InitProcessKeeps ==
    ASSUME LaunchInv, NEW p \in DOMAIN procs, InitProcess(p)
    PROVE  LaunchInv'
<1>1. /\ UNCHANGED <<job, stage, ports, next>>
      /\ procs' = [procs EXCEPT ![p].is = RDMAInit(procs[p].argv)]
  BY DEF InitProcess
<1>2. Nodes' = Nodes /\ HostPorts' = HostPorts
      /\ \A argv, at, list : Line(argv, at, list)' <=> Line(argv, at, list)
  BY <1>1 DEF Nodes, HostPorts, Line, Words
<1>3. ASSUME job.mode # "manual", NEW q \in DOMAIN procs PROVE StartedRight(q)'
  <2>1. StartedRight(q)
    BY <1>3 DEF LaunchInv
  <2>2. CASE q = p
    <3> DEFINE info == CalculateRank(ports[p[1]])[p[2]]
               argv == procs[p].argv
               is == procs[p].is
    <3>1. procs[p] = Process(argv, info, is)
      BY <2>1, <2>2 DEF StartedRight
    <3>2. procs'[p] = [procs[p] EXCEPT !.is = RDMAInit(argv)]
      BY <1>1
    <3> HIDE DEF info, argv, is
    <3>3. procs'[p] = Process(argv, info, RDMAInit(argv))
      BY <3>1, <3>2 DEF Process
    <3>4. /\ procs'[p].argv = argv /\ procs'[p].info = info
          /\ procs'[p].is = RDMAInit(argv) /\ procs[p].info = info
      BY <3>1, <3>3 DEF Process
    <3> QED
      BY <1>1, <1>2, <2>1, <2>2, <3>3, <3>4 DEF StartedRight, info, argv
  <2>3. CASE q # p
    <3>1. procs'[q] = procs[q]
      BY <1>1, <2>3
    <3> QED
      BY <1>1, <1>2, <2>1, <3>1 DEF StartedRight
  <2> QED
    BY <2>2, <2>3
<1>4. DOMAIN procs' = DOMAIN procs
  BY <1>1
<1> QED
  BY <1>1, <1>2, <1>3, <1>4 DEF LaunchInv

\* What the programs do in their splits leaves the launch as it is.
LEMMA RestKeeps == LaunchInv /\ UNCHANGED vars => LaunchInv'
<1> SUFFICES ASSUME LaunchInv, UNCHANGED vars PROVE LaunchInv'
  OBVIOUS
<1>1. UNCHANGED <<job, stage, ports, next, procs>>
  BY DEF vars
<1>2. Nodes' = Nodes /\ HostPorts' = HostPorts
  BY <1>1 DEF Nodes, HostPorts
<1>3. \A p \in DOMAIN procs : StartedRight(p) => StartedRight(p)'
  <2> SUFFICES ASSUME NEW p \in DOMAIN procs, StartedRight(p) PROVE StartedRight(p)'
    OBVIOUS
  <2>1. stage'[p[1]] # "new" /\ ports'[p[1]] = ports[p[1]]
    BY <1>1 DEF StartedRight
  <2> QED
    BY <1>1, <2>1, StartedKept
<1> QED
  BY <1>1, <1>2, <1>3 DEF LaunchInv

\* One step of the world: each action of the launch, then the rest.
LEMMA NextLaunch == LaunchInv /\ [WorldNext]_worldVars => LaunchInv'
<1> SUFFICES ASSUME LaunchInv, [WorldNext]_worldVars PROVE LaunchInv'
  OBVIOUS
<1>1. CASE Ffrun
  <2> SUFFICES ASSUME NEW n \in Nodes,
                      Fail(n) \/ Prepare(n) \/ StartProcess(n) \/ AllStarted(n) \/ StartByHand(n)
               PROVE  LaunchInv'
    BY <1>1 DEF Ffrun
  <2>1. CASE Fail(n)
    BY <2>1, FailKeeps
  <2>2. CASE Prepare(n)
    BY <2>2, PrepareKeeps
  <2>3. CASE StartProcess(n)
    BY <2>3, StartKeeps
  <2>4. CASE AllStarted(n)
    BY <2>4, AllStartedKeeps
  <2>5. CASE StartByHand(n)
    BY <2>5, ByHandKeeps
  <2> QED
    BY <2>1, <2>2, <2>3, <2>4, <2>5
<1>2. ASSUME NEW p \in DOMAIN procs, Join(p) PROVE LaunchInv'
  BY <1>2, InitProcessKeeps DEF Join
<1>3. ASSUME NEW r \in Procs, Work(r) PROVE LaunchInv'
  BY <1>3, RestKeeps DEF Work
<1>4. CASE UNCHANGED worldVars
  BY <1>4, RestKeeps DEF worldVars
<1> QED
  BY <1>1, <1>2, <1>3, <1>4 DEF WorldNext

\* Every process that ffrun has started stands for an entry of the list CalculateRank
\* has made on its node, its command line (ToArgv) names that entry and the host list
\* of that node, and what it is, is what RDMA_Init makes of that command line.
THEOREM LaunchRight == WorldSpec => []LaunchInv
<1> QED
  BY InitLaunch, NextLaunch, PTL DEF WorldSpec

\* The rank a process computes from its command line (RankAlg.calRank and
\* getRank) is the rank ffrun has computed for it (CalculateRank), and its
\* address and port stand there in its own list of processes.
THEOREM RanksAreOne == WorldSpec => []RanksAgree
<1>1. LaunchInv => RanksAgree
  <2> SUFFICES ASSUME LaunchInv, job.mode # "manual", Distinct, NEW p \in Up
               PROVE  LET is == procs[p].is
                      IN  /\ is.rank = p[2] - 1
                          /\ is.rank + 1 \in DOMAIN is.world
                          /\ is.world[is.rank + 1] = procs[p].info
    BY DEF RanksAgree
  <2> DEFINE m == ports[p[1]]
             k == p[2]
             argv == procs[p].argv
             is == procs[p].is
             info == procs[p].info
  <2>1. p \in DOMAIN procs /\ is.state = "up"
    BY DEF Up
  <2>2. StartedRight(p) /\ job \in Jobs
    BY <2>1 DEF LaunchInv
  <2>3. /\ m \in HostPorts /\ k \in 1..Len(CalculateRank(m))
        /\ info = CalculateRank(m)[k] /\ is = RDMAInit(argv)
    BY <2>1, <2>2 DEF StartedRight, Process
  <2>4. PICK text \in Strings(m) : Line(argv, info, text)
    BY <2>2 DEF StartedRight
  <2> HIDE DEF m, k, argv, is, info
  <2>5. is.rank = k - 1 /\ is.world = CalculateRank(m) /\ CalculateRank(m) \in Seq(Infoset)
    BY <2>1, <2>2, <2>3, <2>4, InitRight
  <2>6. (k - 1) + 1 = k /\ k \in DOMAIN CalculateRank(m)
    BY <2>3, <2>5
  <2> QED
    BY <2>3, <2>5, <2>6 DEF k, is, info
<1> QED
  BY <1>1, LaunchRight, PTL

\* The program gets the arguments written after -- on the command line of ffrun,
\* and nothing else.
THEOREM ArgsAreDelivered == WorldSpec => []ArgsDelivered
<1>1. LaunchInv => ArgsDelivered
  <2> SUFFICES ASSUME LaunchInv, job.mode # "manual", NEW p \in Up
               PROVE  procs[p].is.args = Words(job.args)
    BY DEF ArgsDelivered
  <2> DEFINE m == ports[p[1]]
             k == p[2]
             argv == procs[p].argv
             is == procs[p].is
             info == procs[p].info
  <2>1. p \in DOMAIN procs /\ is.state = "up"
    BY DEF Up
  <2>2. StartedRight(p) /\ job \in Jobs
    BY <2>1 DEF LaunchInv
  <2>3. /\ m \in HostPorts /\ k \in 1..Len(CalculateRank(m))
        /\ info = CalculateRank(m)[k] /\ is = RDMAInit(argv)
    BY <2>1, <2>2 DEF StartedRight, Process
  <2>4. PICK text \in Strings(m) : Line(argv, info, text)
    BY <2>2 DEF StartedRight
  <2> HIDE DEF m, k, argv, is, info
  <2>5. is.args = Words(job.args)
    BY <2>1, <2>2, <2>3, <2>4, InitRight
  <2> QED
    BY <2>5 DEF is
<1> QED
  BY <1>1, LaunchRight, PTL

-----------------------------------------------------------------------------
(* What each node has started *)

\* The entries of the list of node n that stand for its own processes.
Named(n) ==
    {i \in 1..Len(CalculateRank(ports[n])) : CalculateRank(ports[n])[i][1] \in local[n]}

Working(n) == stage[n] \in {"running", "done"}

\* Node n has started the processes of its entries, up to next[n].
NodeRight(n) ==
    /\ stage[n] \in {"new", "failed", "running", "done"}
    /\ stage[n] = "new" => next[n] = 0
    /\ Working(n) => ports[n] \in HostPorts /\ local[n] \in LocalHosts(n)
    /\ \A i : <<n, i>> \in DOMAIN procs <=> Working(n) /\ i \in Named(n) /\ i =< next[n]
    /\ stage[n] = "done" => \A i \in Named(n) : i =< next[n]

\* Every process is one of a node, and is an entry of its list.
NodesInv ==
    /\ DOMAIN local = Nodes
    /\ job.mode # "manual" /\ Distinct =>
         /\ \A p \in DOMAIN procs : p = <<p[1], p[2]>>
         /\ \A n \in Nodes : NodeRight(n)

\* The list that ffrun computes from the ports of the hosts.
LEMMA ListOf ==
    ASSUME job \in Jobs, job.mode # "manual", Distinct, NEW m \in HostPorts
    PROVE  /\ CalculateRank(m) \in Seq(Infoset) /\ Len(CalculateRank(m)) \in Nat
           /\ Follows(CalculateRank(m), InOrderOfRanks)
           /\ Range(CalculateRank(m)) = Processes(m)
           /\ DOMAIN m = Hosts(job.text)
           /\ \A i \in 1..Len(CalculateRank(m)) : CalculateRank(m)[i][1] \in Hosts(job.text)
<1> DEFINE H == Hosts(job.text)
           list == CalculateRank(m)
<1>1. /\ H \subseteq Nat /\ IsFiniteSet(H) /\ m \in [H -> Seq(Nat)]
      /\ \A h \in H : IsInjective(m[h])
  BY HostPortsRight
<1> HIDE DEF H
<1>2. /\ list \in Seq(Infoset) /\ Follows(list, InOrderOfRanks) /\ Range(list) = Processes(m)
  BY <1>1, CalculateRankRight
<1>3. DOMAIN m = H
  BY <1>1
<1> HIDE DEF list
<1>4. Len(list) \in Nat /\ DOMAIN list = 1..Len(list)
  BY <1>2
<1>5. ASSUME NEW i \in 1..Len(list) PROVE list[i][1] \in H
  <2>1. list[i] \in Processes(m)
    BY <1>2, <1>4 DEF Range
  <2> QED
    BY <1>3, <2>1 DEF Processes
<1> QED
  BY <1>2, <1>3, <1>4, <1>5 DEF list, H

\* The entries that are still to come.
LEMMA AheadOf ==
    ASSUME LaunchInv, job.mode # "manual", Distinct, NEW n \in Nodes, ports[n] \in HostPorts
    PROVE  /\ Ahead(n) = {i \in Named(n) : ~(i =< next[n])} /\ next[n] \in Nat
           /\ \A i \in Named(n) : i \in Nat
<1> DEFINE list == CalculateRank(ports[n])
           len == Len(list)
<1>1. next[n] \in Nat /\ len \in Nat
  BY ListOf DEF LaunchInv
<1>2. \A i : i \in (next[n] + 1)..len <=> i \in 1..len /\ ~(i =< next[n])
  <2> HIDE DEF len
  <2> QED
    BY <1>1
<1>3. \A i \in 1..len : i \in Nat
  OBVIOUS
<1> QED
  BY <1>1, <1>2, <1>3 DEF Ahead, Named

\* A node where nothing happens.
LEMMA NodeKept ==
    ASSUME NEW n, NodeRight(n), UNCHANGED job, stage'[n] = stage[n], ports'[n] = ports[n],
           local'[n] = local[n], next'[n] = next[n],
           \A i : <<n, i>> \in DOMAIN procs' <=> <<n, i>> \in DOMAIN procs
    PROVE  NodeRight(n)'
<1>1. HostPorts' = HostPorts /\ LocalHosts(n)' = LocalHosts(n)
  BY DEF HostPorts, LocalHosts
<1>2. Named(n)' = Named(n) /\ (Working(n)' <=> Working(n))
  BY DEF Named, Working
<1> QED
  BY <1>1, <1>2 DEF NodeRight

\* A step on one node that starts no process.
LEMMA OneNodeKeeps ==
    ASSUME LaunchInv, NodesInv, NEW n \in Nodes, UNCHANGED <<job, procs, next>>,
           \A q \in Nodes : q # n => /\ stage'[q] = stage[q] /\ ports'[q] = ports[q]
                                     /\ local'[q] = local[q],
           DOMAIN local' = Nodes,
           job.mode # "manual" /\ Distinct /\ NodeRight(n) => NodeRight(n)'
    PROVE  NodesInv'
<1>1. Nodes' = Nodes /\ (Distinct' <=> Distinct)
  BY DEF Nodes, Distinct
<1>2. ASSUME job.mode # "manual", Distinct, NEW q \in Nodes PROVE NodeRight(q)'
  <2>1. NodeRight(q)
    BY <1>2 DEF NodesInv
  <2>2. CASE q = n
    BY <1>2, <2>1, <2>2
  <2>3. CASE q # n
    BY <2>1, <2>3, NodeKept
  <2> QED
    BY <2>2, <2>3
<1> QED
  BY <1>1, <1>2 DEF NodesInv

\* ffrun ends with an error on a node.
LEMMA FailNodes ==
    ASSUME LaunchInv, NodesInv, NEW n \in Nodes, Fail(n)
    PROVE  NodesInv'
<1>1. /\ UNCHANGED <<job, ports, local, next, procs>>
      /\ stage[n] = "new" /\ stage' = [stage EXCEPT ![n] = "failed"]
  BY DEF Fail
<1>2. stage'[n] = "failed" /\ \A q \in Nodes : q # n => stage'[q] = stage[q]
  BY <1>1 DEF LaunchInv
<1>3. ASSUME NodeRight(n) PROVE NodeRight(n)'
  <2>1. ~Working(n) /\ ~Working(n)'
    BY <1>1, <1>2 DEF Working
  <2> QED
    BY <1>1, <1>2, <1>3, <2>1 DEF NodeRight
<1>4. DOMAIN local' = Nodes
  BY <1>1 DEF NodesInv
<1> QED
  BY <1>1, <1>2, <1>3, <1>4, OneNodeKeeps

\* runCmd has its list, and no process yet.
LEMMA PrepareNodes ==
    ASSUME LaunchInv, NodesInv, NEW n \in Nodes, Prepare(n)
    PROVE  NodesInv'
<1>1. /\ UNCHANGED <<job, next, procs>>
      /\ stage[n] = "new" /\ stage' = [stage EXCEPT ![n] = "running"]
  BY DEF Prepare
<1>2. PICK m \in HostPorts : ports' = [ports EXCEPT ![n] = m]
  BY DEF Prepare
<1>3. PICK hosts \in LocalHosts(n) : local' = [local EXCEPT ![n] = hosts]
  BY DEF Prepare
<1>4. /\ stage'[n] = "running" /\ ports'[n] = m /\ local'[n] = hosts
      /\ DOMAIN local' = Nodes
      /\ \A q \in Nodes : q # n => /\ stage'[q] = stage[q] /\ ports'[q] = ports[q]
                                   /\ local'[q] = local[q]
  BY <1>1, <1>2, <1>3 DEF LaunchInv, NodesInv
<1>5. HostPorts' = HostPorts /\ LocalHosts(n)' = LocalHosts(n)
  BY <1>1 DEF HostPorts, LocalHosts
<1>6. ASSUME NodeRight(n) PROVE NodeRight(n)'
  <2>1. ~Working(n) /\ next[n] = 0 /\ next'[n] = 0
    BY <1>1, <1>6 DEF Working, NodeRight
  <2>2. \A i : <<n, i>> \notin DOMAIN procs'
    BY <1>1, <1>6, <2>1 DEF NodeRight
  <2>3. \A i \in Named(n)' : ~(i =< next'[n])
    BY <2>1 DEF Named
  <2> QED
    BY <1>1, <1>2, <1>3, <1>4, <1>5, <2>2, <2>3 DEF NodeRight
<1> QED
  BY <1>1, <1>4, <1>6, OneNodeKeeps

\* CmdResultGenerator has come to the end of the list.
LEMMA AllStartedNodes ==
    ASSUME LaunchInv, NodesInv, NEW n \in Nodes, AllStarted(n)
    PROVE  NodesInv'
<1>1. /\ UNCHANGED <<job, ports, local, next, procs>> /\ Ahead(n) = {}
      /\ stage[n] = "running" /\ stage' = [stage EXCEPT ![n] = "done"]
  BY DEF AllStarted
<1>2. stage'[n] = "done" /\ \A q \in Nodes : q # n => stage'[q] = stage[q]
  BY <1>1 DEF LaunchInv
<1>3. ASSUME job.mode # "manual", Distinct, NodeRight(n) PROVE NodeRight(n)'
  <2>1. Working(n) /\ Working(n)' /\ ports[n] \in HostPorts
    BY <1>1, <1>2, <1>3 DEF Working, NodeRight
  <2>2. \A i \in Named(n) : i =< next[n]
    BY <1>1, <1>3, <2>1, AheadOf
  <2>3. Named(n)' = Named(n) /\ HostPorts' = HostPorts /\ LocalHosts(n)' = LocalHosts(n)
    BY <1>1 DEF Named, HostPorts, LocalHosts
  <2> QED
    BY <1>1, <1>2, <1>3, <2>1, <2>2, <2>3 DEF NodeRight
<1>4. DOMAIN local' = Nodes
  BY <1>1 DEF NodesInv
<1> QED
  BY <1>1, <1>2, <1>3, <1>4, OneNodeKeeps

\* The next process of a node is that of its next entry.
LEMMA StartNodes ==
    ASSUME LaunchInv, NodesInv, NEW n \in Nodes, StartProcess(n)
    PROVE  NodesInv'
<1> DEFINE i == CHOOSE j \in Ahead(n) : \A k \in Ahead(n) : j =< k
<1>1. /\ UNCHANGED <<job, stage, ports, local>> /\ stage[n] = "running" /\ Ahead(n) # {}
      /\ next' = [next EXCEPT ![n] = i]
  BY Zenon DEF StartProcess
<1>2. DOMAIN procs' = DOMAIN procs \union {<<n, i>>}
  <2> DEFINE info == CalculateRank(ports[n])[i]
             line(text) == ToArgv(info, text)
             run(text) == SubSeq(line(text), Len(job.container) + 1, Len(line(text)))
  <2>1. \E text \in Strings(ports[n]) :
          procs' = [p \in DOMAIN procs \union {<<n, i>>} |->
                      IF p = <<n, i>> THEN Started(run(text), info) ELSE procs[p]]
    BY Zenon DEF StartProcess
  <2> HIDE DEF i, info, line, run
  <2> QED
    BY <2>1
<1>3. Nodes' = Nodes /\ (Distinct' <=> Distinct) /\ DOMAIN local' = Nodes
  BY <1>1 DEF Nodes, Distinct, NodesInv
<1> SUFFICES ASSUME job.mode # "manual", Distinct
             PROVE  /\ \A p \in DOMAIN procs' : p = <<p[1], p[2]>>
                    /\ \A q \in Nodes : NodeRight(q)'
  BY <1>1, <1>3 DEF NodesInv
<1>4. /\ \A p \in DOMAIN procs : p = <<p[1], p[2]>>
      /\ \A q \in Nodes : NodeRight(q)
  BY DEF NodesInv
<1>5. ports[n] \in HostPorts /\ Working(n)
  BY <1>1, <1>4 DEF NodeRight, Working
<1>6. /\ Ahead(n) = {j \in Named(n) : ~(j =< next[n])} /\ next[n] \in Nat
      /\ \A j \in Named(n) : j \in Nat
  BY <1>5, AheadOf
<1>7. i \in Ahead(n) /\ \A k \in Ahead(n) : i =< k
  <2>1. Ahead(n) \subseteq Nat
    BY <1>6
  <2> QED
    BY <1>1, <2>1, Least
<1> HIDE DEF i
<1>8. next'[n] = i /\ \A q \in Nodes : q # n => next'[q] = next[q]
  BY <1>1 DEF LaunchInv
<1>9. NodeRight(n)'
  <2>1. Named(n)' = Named(n) /\ HostPorts' = HostPorts /\ LocalHosts(n)' = LocalHosts(n)
        /\ (Working(n)' <=> Working(n))
    BY <1>1 DEF Named, HostPorts, LocalHosts, Working
  <2>2. \A j \in Named(n) : j =< i <=> j =< next[n] \/ j = i
    <3> TAKE j \in Named(n)
    <3>1. i \in Nat /\ j \in Nat /\ ~(i =< next[n])
      BY <1>6, <1>7
    <3>2. ~(j =< next[n]) => i =< j
      BY <1>6, <1>7
    <3> QED
      BY <1>6, <3>1, <3>2
  <2>3. \A j : <<n, j>> \in DOMAIN procs' <=> <<n, j>> \in DOMAIN procs \/ j = i
    BY <1>2
  <2>4. i \in Named(n)
    BY <1>6, <1>7
  <2>5. \A j : <<n, j>> \in DOMAIN procs' <=> j \in Named(n) /\ j =< i
    BY <1>4, <1>5, <2>2, <2>3, <2>4 DEF NodeRight
  <2> QED
    BY <1>1, <1>4, <1>5, <1>8, <2>1, <2>5 DEF NodeRight
<1>10. ASSUME NEW q \in Nodes, q # n PROVE NodeRight(q)'
  <2>1. \A j : <<q, j>> \in DOMAIN procs' <=> <<q, j>> \in DOMAIN procs
    BY <1>2, <1>10
  <2> QED
    BY <1>1, <1>4, <1>8, <1>10, <2>1, NodeKept
<1>11. \A p \in DOMAIN procs' : p = <<p[1], p[2]>>
  BY <1>2, <1>4
<1> QED
  BY <1>9, <1>10, <1>11

\* A job started by hand is not ffrun's.
LEMMA ByHandNodes ==
    ASSUME LaunchInv, NodesInv, NEW n \in Nodes, StartByHand(n)
    PROVE  NodesInv'
<1>1. UNCHANGED <<job, local>> /\ job.mode = "manual"
  BY DEF StartByHand
<1> QED
  BY <1>1 DEF NodesInv, Nodes

\* RDMA_Init starts no process.
LEMMA InitNodes ==
    ASSUME LaunchInv, NodesInv, NEW p \in DOMAIN procs, InitProcess(p)
    PROVE  NodesInv'
<1>1. UNCHANGED <<job, stage, ports, local, next>> /\ DOMAIN procs' = DOMAIN procs
  BY DEF InitProcess
<1>2. Nodes' = Nodes /\ (Distinct' <=> Distinct)
  BY <1>1 DEF Nodes, Distinct
<1>3. ASSUME job.mode # "manual", Distinct, NEW n \in Nodes PROVE NodeRight(n)'
  BY <1>1, <1>3, NodeKept DEF NodesInv
<1> QED
  BY <1>1, <1>2, <1>3 DEF NodesInv

\* Nor do the programs.
LEMMA RestNodes ==
    ASSUME LaunchInv, NodesInv, UNCHANGED vars
    PROVE  NodesInv'
<1>1. UNCHANGED <<job, stage, ports, local, next, procs>>
  BY DEF vars
<1>2. Nodes' = Nodes /\ (Distinct' <=> Distinct)
  BY <1>1 DEF Nodes, Distinct
<1>3. ASSUME job.mode # "manual", Distinct, NEW n \in Nodes PROVE NodeRight(n)'
  BY <1>1, <1>3, NodeKept DEF NodesInv
<1> QED
  BY <1>1, <1>2, <1>3 DEF NodesInv

\* No node has started anything.
LEMMA FirstNodes == WorldInit => NodesInv
<1> SUFFICES ASSUME WorldInit PROVE NodesInv
  OBVIOUS
<1>1. /\ stage = [n \in Nodes |-> "new"] /\ local = [n \in Nodes |-> {}]
      /\ next = [n \in Nodes |-> 0] /\ procs = <<>>
  BY DEF WorldInit, Init
<1>2. DOMAIN procs = {}
  BY <1>1
<1>3. ASSUME NEW n \in Nodes PROVE NodeRight(n)
  <2>1. stage[n] = "new" /\ next[n] = 0
    BY <1>1
  <2> QED
    BY <1>2, <2>1 DEF NodeRight, Working
<1> QED
  BY <1>1, <1>2, <1>3 DEF NodesInv

\* One step of the world, for what the nodes have started.
LEMMA NextNodes == LaunchInv /\ NodesInv /\ [WorldNext]_worldVars => NodesInv'
<1> SUFFICES ASSUME LaunchInv, NodesInv, [WorldNext]_worldVars PROVE NodesInv'
  OBVIOUS
<1>1. CASE Ffrun
  <2> SUFFICES ASSUME NEW n \in Nodes,
                      Fail(n) \/ Prepare(n) \/ StartProcess(n) \/ AllStarted(n) \/ StartByHand(n)
               PROVE  NodesInv'
    BY <1>1 DEF Ffrun
  <2>1. CASE Fail(n)
    BY <2>1, FailNodes
  <2>2. CASE Prepare(n)
    BY <2>2, PrepareNodes
  <2>3. CASE StartProcess(n)
    BY <2>3, StartNodes
  <2>4. CASE AllStarted(n)
    BY <2>4, AllStartedNodes
  <2>5. CASE StartByHand(n)
    BY <2>5, ByHandNodes
  <2> QED
    BY <2>1, <2>2, <2>3, <2>4, <2>5
<1>2. ASSUME NEW p \in DOMAIN procs, Join(p) PROVE NodesInv'
  BY <1>2, InitNodes DEF Join
<1>3. ASSUME NEW r \in Procs, Work(r) PROVE NodesInv'
  BY <1>3, RestNodes DEF Work
<1>4. CASE UNCHANGED worldVars
  BY <1>4, RestNodes DEF worldVars
<1> QED
  BY <1>1, <1>2, <1>3, <1>4 DEF WorldNext

\* At every moment each node has started the processes of its own entries, in the
\* order of the list up to where CmdResultGenerator stands, and no other ones.
THEOREM NodesRight == WorldSpec => [](LaunchInv /\ NodesInv)
<1>1. WorldInit => LaunchInv /\ NodesInv
  BY InitLaunch, FirstNodes
<1>2. LaunchInv /\ NodesInv /\ [WorldNext]_worldVars => (LaunchInv /\ NodesInv)'
  BY NextLaunch, NextNodes
<1> QED
  BY <1>1, <1>2, PTL DEF WorldSpec

-----------------------------------------------------------------------------
(* The job as a whole *)

\* A set that a function maps one to one on another set is as large.
LEMMA OneToOne ==
    ASSUME NEW S, NEW T, IsFiniteSet(T), NEW f, DOMAIN f = S, f = [x \in S |-> f[x]],
           \A x \in S : f[x] \in T, \A x, y \in S : f[x] = f[y] => x = y,
           \A y \in T : \E x \in S : f[x] = y
    PROVE  IsFiniteSet(S) /\ Cardinality(S) = Cardinality(T)
<1>1. f \in [S -> T]
  OBVIOUS
<1>2. f \in Injection(S, T) /\ f \in Surjection(S, T)
  BY <1>1 DEF Injection, Surjection, IsInjective
<1> QED
  BY <1>2, FS_Injection

\* The entries of the list are all different.
LEMMA ListOnce ==
    ASSUME NEW list \in Seq(Infoset), Follows(list, InOrderOfRanks)
    PROVE  \A i, j \in 1..Len(list) : list[i] = list[j] => i = j
<1> SUFFICES ASSUME NEW i \in 1..Len(list), NEW j \in 1..Len(list), list[i] = list[j], i # j
             PROVE  FALSE
  OBVIOUS
<1>1. list[i] \in Infoset /\ i \in Nat /\ j \in Nat
  OBVIOUS
<1>2. <<list[i], list[i]>> \in InOrderOfRanks
  BY <1>1 DEF Follows
<1> QED
  BY <1>1, <1>2, RankOrder DEF StrictOrder

\* All nodes work with the same list: that of the command, or of the only ffrun.
LEMMA OneList ==
    ASSUME LaunchInv, NodesInv, Proper, OneLauncher, NEW n \in Nodes, NEW q \in Nodes,
           Working(n), Working(q)
    PROVE  ports[n] = ports[q]
<1>1. ports[n] \in HostPorts /\ ports[q] \in HostPorts
  BY DEF NodesInv, NodeRight, Proper
<1>2. CASE job.mode = "ports"
  BY <1>1, <1>2 DEF HostPorts
<1>3. CASE job.mode # "ports"
  BY <1>3 DEF OneLauncher
<1> QED
  BY <1>2, <1>3

\* An entry of the list is started on one node only.
LEMMA OneOfEach ==
    ASSUME LaunchInv, NodesInv, Proper, OneLauncher,
           NEW p \in DOMAIN procs, NEW q \in DOMAIN procs, p[2] = q[2]
    PROVE  p = q
<1> DEFINE list == CalculateRank(ports[p[1]])
<1>1. p = <<p[1], p[2]>> /\ q = <<q[1], q[2]>> /\ job.mode # "manual"
  BY DEF NodesInv, Proper
<1>2. p[1] \in Nodes /\ q[1] \in Nodes
  BY <1>1 DEF LaunchInv, StartedRight
<1>3. /\ NodeRight(p[1]) /\ NodeRight(q[1])
  BY <1>1, <1>2 DEF NodesInv, Proper
<1>4. /\ <<p[1], p[2]>> \in DOMAIN procs /\ <<q[1], q[2]>> \in DOMAIN procs
  BY <1>1
<1>5. /\ Working(p[1]) /\ p[2] \in Named(p[1]) /\ Working(q[1]) /\ q[2] \in Named(q[1])
      /\ local[p[1]] \in LocalHosts(p[1]) /\ local[q[1]] \in LocalHosts(q[1])
  BY <1>3, <1>4 DEF NodeRight
<1>6. ports[p[1]] = ports[q[1]]
  BY <1>2, <1>5, OneList
<1>7. list[p[2]][1] \in local[p[1]] /\ list[p[2]][1] \in local[q[1]]
  BY <1>5, <1>6 DEF Named
<1> HIDE DEF list
<1>8. p[1] = q[1]
  <2>1. CASE job.mode = "generate"
    BY <1>2, <2>1 DEF OneLauncher
  <2>2. CASE job.mode # "generate"
    <3>1. PICK h \in Hosts(job.text) \cap job.names[p[1]] : local[p[1]] = {h}
      BY <1>5, <2>2 DEF LocalHosts
    <3>2. PICK k \in Hosts(job.text) \cap job.names[q[1]] : local[q[1]] = {k}
      BY <1>5, <2>2 DEF LocalHosts
    <3>3. h = k
      BY <1>7, <3>1, <3>2
    <3> QED
      BY <1>2, <2>2, <3>1, <3>2, <3>3 DEF Proper
  <2> QED
    BY <2>1, <2>2
<1> QED
  BY <1>1, <1>8

\* All processes that are up have the same list, and each the rank of its entry.
LEMMA SameWorld ==
    ASSUME LaunchInv, NodesInv, Proper, OneLauncher, NEW p \in Up, NEW q \in Up
    PROVE  /\ procs[p].is.world = procs[q].is.world
           /\ procs[p].is.rank = p[2] - 1 /\ p[2] \in 1..Len(procs[p].is.world)
           /\ procs[p].is.world = CalculateRank(ports[p[1]])
           /\ Len(procs[p].is.world) \in Nat
<1>1. ASSUME NEW r \in Up
      PROVE  /\ procs[r].is.rank = r[2] - 1 /\ r[2] \in 1..Len(procs[r].is.world)
             /\ procs[r].is.world = CalculateRank(ports[r[1]])
             /\ Len(procs[r].is.world) \in Nat /\ r[1] \in Nodes /\ Working(r[1])
  <2> DEFINE m == ports[r[1]]
             k == r[2]
             argv == procs[r].argv
             is == procs[r].is
             info == procs[r].info
  <2>1. r \in DOMAIN procs /\ is.state = "up"
    BY DEF Up
  <2>2. StartedRight(r) /\ job \in Jobs /\ job.mode # "manual" /\ Distinct
    BY <2>1 DEF LaunchInv, Proper
  <2>3. /\ m \in HostPorts /\ k \in 1..Len(CalculateRank(m)) /\ r[1] \in Nodes
        /\ info = CalculateRank(m)[k] /\ is = RDMAInit(argv)
    BY <2>1, <2>2 DEF StartedRight, Process
  <2>4. PICK text \in Strings(m) : Line(argv, info, text)
    BY <2>2 DEF StartedRight
  <2>5. Working(r[1])
    <3>1. r = <<r[1], r[2]>> /\ NodeRight(r[1])
      BY <2>1, <2>2, <2>3 DEF NodesInv
    <3> QED
      BY <2>1, <3>1 DEF NodeRight
  <2> HIDE DEF m, k, argv, is, info
  <2>6. is.rank = k - 1 /\ is.world = CalculateRank(m) /\ CalculateRank(m) \in Seq(Infoset)
    BY <2>1, <2>2, <2>3, <2>4, InitRight
  <2>7. Len(CalculateRank(m)) \in Nat
    BY <2>6
  <2> QED
    BY <2>3, <2>5, <2>6, <2>7 DEF m, k, is
<1>2. ports[p[1]] = ports[q[1]]
  BY <1>1, OneList
<1> QED
  BY <1>1, <1>2

\* PortSelect finds as many ports as are asked for, or all there are.
LEMMA SelectLength ==
    ASSUME NEW num \in Nat, NEW s \in PortSelect(num), ~(num > PortLimit - MinPort)
    PROVE  DOMAIN s = 1..num
<1> DEFINE available == MinPort..(PortLimit - 1)
           count == IF num < Cardinality(available) THEN num ELSE Cardinality(available)
<1>1. Cardinality(available) = PortLimit - MinPort
  <2>1. MinPort \in Int /\ PortLimit - 1 \in Int /\ ~(MinPort > PortLimit - 1)
        /\ (PortLimit - 1) - MinPort + 1 = PortLimit - MinPort
    BY PortAssumption
  <2> QED
    BY <2>1, FS_Interval
<1>2. s \in [1..count -> available]
  BY DEF PortSelect
<1>3. PortLimit - MinPort \in Int
  BY PortAssumption
<1> HIDE DEF available
<1>4. count = num
  BY <1>1, <1>3
<1> QED
  BY <1>2, <1>4

\* The list has as many entries as there are pairs of a host and a port.
LEMMA ListLength ==
    ASSUME job \in Jobs, job.mode # "manual", Distinct, NEW m \in HostPorts
    PROVE  LET H == Hosts(job.text)
           IN  Cardinality(UNION {{h} \X DOMAIN m[h] : h \in H}) = Len(CalculateRank(m))
<1> DEFINE H == Hosts(job.text)
           list == CalculateRank(m)
           pairs == UNION {{h} \X DOMAIN m[h] : h \in H}
<1>1. /\ H \subseteq Nat /\ IsFiniteSet(H) /\ m \in [H -> Seq(Nat)]
      /\ \A h \in H : IsInjective(m[h])
  BY HostPortsRight
<1> HIDE DEF H
<1>2. /\ list \in Seq(Infoset) /\ Follows(list, InOrderOfRanks) /\ Range(list) = Processes(m)
  BY <1>1, CalculateRankRight
<1> HIDE DEF list
<1>3. /\ Len(list) \in Nat /\ DOMAIN list = 1..Len(list)
      /\ IsFiniteSet(1..Len(list)) /\ Cardinality(1..Len(list)) = Len(list)
  BY <1>2, IntervalSize
<1>4. \A i, j \in 1..Len(list) : list[i] = list[j] => i = j
  BY <1>2, ListOnce
\* The place of a pair in the list.
<1> DEFINE at(x) == CHOOSE i \in 1..Len(list) : list[i] = <<x[1], m[x[1]][x[2]]>>
           f == [x \in pairs |-> at(x)]
<1>5. \A x \in pairs : x[1] \in H /\ x[2] \in DOMAIN m[x[1]] /\ x = <<x[1], x[2]>>
  OBVIOUS
<1>6. \A h \in H : \A j \in DOMAIN m[h] : <<h, j>> \in pairs
  OBVIOUS
<1> HIDE DEF pairs
<1>7. ASSUME NEW x \in pairs
      PROVE  f[x] \in 1..Len(list) /\ list[f[x]] = <<x[1], m[x[1]][x[2]]>>
  <2>1. <<x[1], m[x[1]][x[2]]>> \in Processes(m)
    BY <1>1, <1>5 DEF Processes
  <2>2. \E i \in 1..Len(list) : list[i] = <<x[1], m[x[1]][x[2]]>>
    BY <1>2, <1>3, <2>1 DEF Range
  <2> QED
    BY <2>2
<1>8. ASSUME NEW i \in 1..Len(list) PROVE \E x \in pairs : f[x] = i
  <2>1. list[i] \in Processes(m)
    BY <1>2, <1>3 DEF Range
  <2>2. PICK h \in H : \E j \in DOMAIN m[h] : list[i] = <<h, m[h][j]>>
    BY <1>1, <2>1 DEF Processes
  <2>3. PICK j \in DOMAIN m[h] : list[i] = <<h, m[h][j]>>
    BY <2>2
  <2>4. <<h, j>> \in pairs /\ list[f[<<h, j>>]] = list[i] /\ f[<<h, j>>] \in 1..Len(list)
    BY <1>6, <1>7, <2>3
  <2> QED
    BY <1>4, <2>4
<1>9. DOMAIN f = pairs /\ f = [x \in pairs |-> f[x]]
  OBVIOUS
<1> HIDE DEF f
<1>10. ASSUME NEW x \in pairs, NEW y \in pairs, f[x] = f[y] PROVE x = y
  <2>1. x[1] = y[1] /\ m[x[1]][x[2]] = m[y[1]][y[2]]
    BY <1>7, <1>10
  <2>2. x[2] = y[2]
    BY <1>1, <1>5, <2>1 DEF IsInjective
  <2> QED
    BY <1>5, <2>1, <2>2
<1>11. Cardinality(pairs) = Cardinality(1..Len(list))
  <2> DEFINE T == 1..Len(list)
  <2>1. /\ IsFiniteSet(T) /\ \A x \in pairs : f[x] \in T
        /\ \A i \in T : \E x \in pairs : f[x] = i
    BY <1>3, <1>7, <1>8
  <2> HIDE DEF T
  <2>2. Cardinality(pairs) = Cardinality(T)
    BY <1>9, <1>10, <2>1, OneToOne
  <2> QED
    BY <2>2 DEF T
<1>12. Cardinality(pairs) = Len(list)
  BY <1>3, <1>11
<1> QED
  BY <1>12, Zenon DEF pairs, list, H

\* The list has as many entries as processes were asked for.
LEMMA ListAsked ==
    ASSUME job \in Jobs, job.mode # "manual", Distinct, NEW m \in HostPorts
    PROVE  Asked(Len(CalculateRank(m)))
<1> DEFINE H == Hosts(job.text)
           np == ReadNumproc(job.text)
<1> SUFFICES ASSUME job.mode \in {"np", "generate"},
                    ~\E h \in DOMAIN np : np[h] > PortLimit - MinPort
             PROVE  Len(CalculateRank(m))
                      = Cardinality(UNION {{h} \X (1..np[h]) : h \in DOMAIN np})
  BY Zenon DEF Asked
<1>1. np \in [H -> Nat]
  <2>1. job.text \in Seq(Nat \X Nat)
    BY JobsAssumption
  <2> QED
    BY <2>1, ReadRight
<1>2. \A h \in H : m[h] \in PortSelect(np[h])
  BY <1>1 DEF HostPorts
<1>3. DOMAIN np = H
  BY <1>1
<1> HIDE DEF np
<1>4. \A h \in H : DOMAIN m[h] = 1..np[h]
  BY <1>1, <1>2, <1>3, SelectLength
<1>5. \A h \in H : {h} \X DOMAIN m[h] = {h} \X (1..np[h])
  BY <1>4
<1>6. UNION {{h} \X DOMAIN m[h] : h \in H} = UNION {{h} \X (1..np[h]) : h \in H}
  BY <1>5
<1> QED
  BY <1>3, <1>6, ListLength

\* When ffrun has ended on all nodes, every entry of the list has been started.
LEMMA AllOfEach ==
    ASSUME LaunchInv, NodesInv, Proper, OneLauncher, NEW o \in Nodes,
           \A n \in Nodes : stage[n] = "done",
           NEW i \in 1..Len(CalculateRank(ports[o]))
    PROVE  \E n \in Nodes : <<n, i>> \in DOMAIN procs
<1> DEFINE list == CalculateRank(ports[o])
           h == list[i][1]
<1>1. job \in Jobs /\ job.mode # "manual" /\ Distinct
  BY DEF LaunchInv, Proper
<1>2. \A n \in Nodes : Working(n) /\ NodeRight(n)
  BY <1>1 DEF NodesInv, Working
<1>3. \A n \in Nodes : /\ ports[n] \in HostPorts /\ ports[n] = ports[o]
                       /\ local[n] \in LocalHosts(n)
  <2>1. \A n \in Nodes : ports[n] \in HostPorts /\ local[n] \in LocalHosts(n)
    BY <1>2 DEF NodeRight
  <2>2. \A n \in Nodes : ports[n] = ports[o]
    BY <1>2, OneList
  <2> QED
    BY <2>1, <2>2
<1>4. h \in Hosts(job.text)
  BY <1>1, <1>3, ListOf
<1>5. PICK n \in Nodes : h \in local[n]
  <2>1. CASE job.mode = "generate"
    <3>1. local[o] = Hosts(job.text)
      BY <1>3, <2>1 DEF LocalHosts
    <3> QED
      BY <1>4, <3>1
  <2>2. CASE job.mode # "generate"
    <3>1. PICK n \in Nodes : h \in job.names[n]
      BY <1>4, <2>2 DEF Proper
    <3>2. PICK k : Hosts(job.text) \cap job.names[n] = {k}
      BY <2>2 DEF Proper
    <3>3. local[n] = {k} /\ h = k
      BY <1>3, <1>4, <2>2, <3>1, <3>2 DEF LocalHosts
    <3> QED
      BY <3>3
  <2> QED
    BY <2>1, <2>2
<1>6. i \in Named(n)
  BY <1>3, <1>5 DEF Named
<1>7. i =< next[n]
  BY <1>2, <1>6 DEF NodeRight
<1>8. <<n, i>> \in DOMAIN procs
  BY <1>2, <1>6, <1>7 DEF NodeRight
<1> QED
  BY <1>8

\* What one process makes of the host list the others make of it too: if one comes
\* up, so do all.
LEMMA UpTogether ==
    ASSUME LaunchInv, NodesInv, Proper, OneLauncher, NEW p \in Up, NEW q \in DOMAIN procs,
           procs[q].is.state # "started"
    PROVE  q \in Up
<1> DEFINE m == ports[p[1]]
           H == Hosts(job.text)
<1>1. p \in DOMAIN procs /\ procs[p].is.state = "up" /\ job \in Jobs
      /\ job.mode # "manual" /\ Distinct
  BY DEF Up, LaunchInv, Proper
<1>2. StartedRight(p) /\ StartedRight(q)
  BY <1>1 DEF LaunchInv
<1>3. p[1] \in Nodes /\ q[1] \in Nodes /\ m \in HostPorts
  BY <1>2 DEF StartedRight
<1>4. Working(p[1]) /\ Working(q[1])
  <2>1. p = <<p[1], p[2]>> /\ q = <<q[1], q[2]>> /\ NodeRight(p[1]) /\ NodeRight(q[1])
    BY <1>1, <1>3 DEF NodesInv
  <2> QED
    BY <1>1, <2>1 DEF NodeRight
<1>5. ports[q[1]] = m
  BY <1>3, <1>4, OneList
<1> HIDE DEF m
<1>6. PICK text \in Strings(m) : Line(procs[p].argv, procs[p].info, text)
  BY <1>2 DEF StartedRight, m
<1>7. PICK line \in Strings(m) : Line(procs[q].argv, procs[q].info, line)
  BY <1>2, <1>5 DEF StartedRight
<1>8. IsFiniteSet(H) /\ DOMAIN m = H
  BY <1>1, <1>3, HostPortsRight
<1>9. ~Malformed(text)
  <2> SUFFICES ASSUME Malformed(text) PROVE FALSE
    OBVIOUS
  <2>1. RDMAInit(procs[p].argv) = Exited
    BY <1>6, InitReads
  <2>2. procs[p].is = Exited
    BY <1>1, <1>2, <2>1 DEF StartedRight
  <2> QED
    BY <1>1, <2>2 DEF Exited
<1> HIDE DEF H
<1>10. ~Malformed(line)
  BY <1>8, <1>9, MalformedAlike
<1>11. q[2] \in 1..Len(CalculateRank(m)) /\ procs[q].info = CalculateRank(m)[q[2]]
  BY <1>2, <1>5 DEF StartedRight, Process
<1>12. RDMAInit(procs[q].argv).state = "up"
  BY <1>1, <1>3, <1>7, <1>10, <1>11, InitUp
<1>13. procs[q].is.state = "up"
  BY <1>2, <1>12 DEF StartedRight
<1> QED
  BY <1>13 DEF Up

\* A job comes up as a whole or not at all: when ffrun has ended everywhere and one
\* process is past RDMA_Init, all that were asked for are, with one list of
\* processes and each with a rank of its own (runCmd, CmdResultGenerator, RDMA_Init).
THEOREM RanksAreCovered == WorldSpec => []RanksCovered
<1>1. LaunchInv /\ NodesInv => RanksCovered
  <2> SUFFICES ASSUME LaunchInv, NodesInv, Proper, OneLauncher, Finished, Up # {} PROVE AsOne
    BY DEF RanksCovered
  <2>1. PICK o \in Up : TRUE
    OBVIOUS
  <2> DEFINE m == ports[o[1]]
             n == Len(CalculateRank(m))
  <2>2. /\ o \in DOMAIN procs /\ job \in Jobs /\ job.mode # "manual" /\ Distinct
        /\ StartedRight(o)
    BY DEF Up, LaunchInv, Proper
  <2>3. o[1] \in Nodes /\ m \in HostPorts
    BY <2>2 DEF StartedRight
  <2>4. Up = DOMAIN procs
    <3>1. \A q \in DOMAIN procs : q \in Up
      BY UpTogether DEF Finished
    <3> QED
      BY <3>1 DEF Up
  <2>5. \A p \in Up : /\ procs[p].is.world = CalculateRank(m) /\ procs[p].is.rank = p[2] - 1
                      /\ p[2] \in 1..n
    BY SameWorld
  <2>6. n \in Nat /\ IsFiniteSet(1..n) /\ Cardinality(1..n) = n
    BY <2>2, <2>3, ListOf, IntervalSize
  <2>7. \A p, q \in Up : p[2] = q[2] => p = q
    BY <2>4, OneOfEach
  <2>8. \A i \in 1..n : \E p \in Up : p[2] = i
    <3> TAKE i \in 1..n
    <3>1. PICK q \in Nodes : <<q, i>> \in DOMAIN procs
      BY <2>3, AllOfEach DEF Finished
    <3> QED
      BY <2>4, <3>1
  <2>9. Asked(n)
    BY <2>2, <2>3, ListAsked
  <2> HIDE DEF n
  <2>10. Cardinality(Up) = n
    <3> DEFINE f == [p \in Up |-> p[2]]
               T == 1..n
    <3>1. /\ DOMAIN f = Up /\ f = [p \in Up |-> f[p]] /\ \A p \in Up : f[p] \in T
          /\ \A p, q \in Up : f[p] = f[q] => p = q
          /\ \A i \in T : \E p \in Up : f[p] = i
          /\ IsFiniteSet(T)
      BY <2>5, <2>6, <2>7, <2>8
    <3> HIDE DEF f, T
    <3>2. Cardinality(Up) = Cardinality(T)
      BY <3>1, OneToOne
    <3> QED
      BY <2>6, <3>2 DEF T
  <2>11. \A p, q \in Up : procs[p].is.rank = procs[q].is.rank => p = q
    <3> SUFFICES ASSUME NEW p \in Up, NEW q \in Up, procs[p].is.rank = procs[q].is.rank
                 PROVE  p = q
      OBVIOUS
    <3>1. p[2] - 1 = q[2] - 1 /\ p[2] \in Int /\ q[2] \in Int
      BY <2>5, <2>6
    <3> QED
      BY <2>7, <3>1
  <2> QED
    BY <2>4, <2>5, <2>9, <2>10, <2>11 DEF AsOne, n
<1> QED
  BY <1>1, NodesRight, PTL

-----------------------------------------------------------------------------
(* How the processes join Comm *)

\* One job of ffrun with as many processes as one of them counts.
OneJob == Proper /\ OneLauncher

\* Whoever is up has a rank of that many.
SizeInv ==
    OneJob => \A p \in Up : /\ Len(procs[p].is.world) = Size /\ Size \in Nat \ {0}
                            /\ procs[p].is.rank \in 0..(Size - 1)

\* What a rank has joined, it has joined as one of the processes.
JoinInv ==
    /\ DOMAIN pool = Procs
    /\ OneJob => \A r \in Procs : pool[r] # <<>> => \E p \in Up : procs[p].is.rank = r

WorldInv == LaunchInv /\ NodesInv /\ SizeInv /\ JoinInv

\* Whoever is up stays up, and ffrun does not touch what it has started.
LEMMA UpKept ==
    ASSUME LaunchInv, NodesInv, OneJob, [WorldNext]_worldVars, NEW p \in Up
    PROVE  p \in Up' /\ procs'[p] = procs[p]
<1>1. p \in DOMAIN procs /\ procs[p].is.state = "up" /\ job.mode # "manual" /\ Distinct
  BY DEF Up, OneJob, Proper
<1> SUFFICES p \in DOMAIN procs' /\ procs'[p] = procs[p]
  BY <1>1 DEF Up
<1>2. ASSUME NEW n \in Nodes, StartProcess(n) PROVE p \in DOMAIN procs' /\ procs'[p] = procs[p]
  <2> DEFINE i == CHOOSE j \in Ahead(n) : \A k \in Ahead(n) : j =< k
             info == CalculateRank(ports[n])[i]
             line(text) == ToArgv(info, text)
             run(text) == SubSeq(line(text), Len(job.container) + 1, Len(line(text)))
  <2>1. PICK text \in Strings(ports[n]) :
          procs' = [q \in DOMAIN procs \union {<<n, i>>} |->
                      IF q = <<n, i>> THEN Started(run(text), info) ELSE procs[q]]
    BY <1>2, Zenon DEF StartProcess
  <2>2. stage[n] = "running" /\ Ahead(n) # {} /\ NodeRight(n)
    BY <1>1, <1>2 DEF StartProcess, NodesInv
  <2>3. Ahead(n) = {j \in Named(n) : ~(j =< next[n])} /\ \A j \in Named(n) : j \in Nat
    BY <1>1, <2>2, AheadOf DEF NodeRight, Working
  <2>4. i \in Ahead(n)
    <3>1. Ahead(n) \subseteq Nat
      BY <2>3
    <3> QED
      BY <2>2, <3>1, Least
  <2> HIDE DEF i, info, line, run
  <2>5. <<n, i>> \notin DOMAIN procs
    BY <2>2, <2>3, <2>4 DEF NodeRight
  <2> QED
    BY <1>1, <2>1, <2>5
<1>3. CASE Ffrun
  <2>1. PICK n \in Nodes : Fail(n) \/ Prepare(n) \/ StartProcess(n) \/ AllStarted(n)
                             \/ StartByHand(n)
    BY <1>3 DEF Ffrun
  <2>2. CASE Fail(n) \/ Prepare(n) \/ AllStarted(n)
    BY <1>1, <2>2 DEF Fail, Prepare, AllStarted
  <2>3. CASE StartByHand(n)
    BY <1>1, <2>3 DEF StartByHand
  <2> QED
    BY <1>2, <2>1, <2>2, <2>3
<1>4. ASSUME NEW q \in DOMAIN procs, Join(q) PROVE p \in DOMAIN procs' /\ procs'[p] = procs[p]
  <2>1. /\ procs[q].is.state = "started"
        /\ procs' = [procs EXCEPT ![q].is = RDMAInit(procs[q].argv)]
    BY <1>4 DEF Join, InitProcess
  <2>2. p # q
    BY <1>1, <2>1
  <2> QED
    BY <1>1, <2>1, <2>2
<1>5. ASSUME NEW r \in Procs, Work(r) PROVE p \in DOMAIN procs' /\ procs'[p] = procs[p]
  BY <1>1, <1>5 DEF Work, vars
<1>6. CASE UNCHANGED worldVars
  BY <1>1, <1>6 DEF worldVars, vars
<1> QED
  BY <1>3, <1>4, <1>5, <1>6 DEF WorldNext

\* A command is given once.
LEMMA JobKept ==
    ASSUME [WorldNext]_worldVars
    PROVE  UNCHANGED job /\ (OneJob' <=> OneJob)
<1>1. UNCHANGED job
  BY DEF WorldNext, Ffrun, Fail, Prepare, StartProcess, AllStarted, StartByHand,
         Join, InitProcess, Work, worldVars, vars
<1> QED
  BY <1>1 DEF OneJob, Proper, OneLauncher, Nodes, Distinct

\* All processes that are up count the same number of processes.
LEMMA SizeRight == LaunchInv /\ NodesInv => SizeInv
<1> SUFFICES ASSUME LaunchInv, NodesInv, OneJob, NEW p \in Up
             PROVE  /\ Len(procs[p].is.world) = Size /\ Size \in Nat \ {0}
                    /\ procs[p].is.rank \in 0..(Size - 1)
  BY DEF SizeInv
<1> DEFINE o == CHOOSE q \in Up : TRUE
<1>1. o \in Up /\ Size = Len(procs[o].is.world)
  BY DEF Size
<1> HIDE DEF o
<1>2. /\ procs[p].is.world = procs[o].is.world
      /\ procs[p].is.rank = p[2] - 1 /\ p[2] \in 1..Len(procs[p].is.world)
      /\ Len(procs[p].is.world) \in Nat
  BY <1>1, SameWorld DEF OneJob
<1>3. Len(procs[p].is.world) = Size
  BY <1>1, <1>2
<1> QED
  BY <1>2, <1>3

\* A process of a communicator keeps being in it, and makes no others join.
LEMMA WorkPools ==
    ASSUME DOMAIN pool = Procs, NEW r \in Procs, Work(r)
    PROVE  DOMAIN pool' = Procs /\ \A q \in Procs : pool'[q] # <<>> => pool[q] # <<>>
<1>1. CommNext(r) /\ pool[r] # <<>>
  BY DEF Work, Connected
<1>2. CASE Gather(r)
  <2>1. PICK e : pool' = [pool EXCEPT ![r] = Append(@, e)]
    BY <1>2 DEF Gather
  <2> QED
    BY <1>1, <2>1
<1>3. CASE UNCHANGED pool
  BY <1>3
<1> QED
  BY <1>1, <1>2, <1>3 DEF CommNext, Skip, CommSplit, Barrier, Free

\* Nobody has joined yet.
LEMMA InitJoin == WorldInit => JoinInv
<1> SUFFICES ASSUME WorldInit PROVE JoinInv
  OBVIOUS
<1>1. pool = [p \in Procs |-> <<>>]
  BY DEF WorldInit, CommInit
<1> QED
  BY <1>1 DEF JoinInv

\* A process joins as itself.
LEMMA NextJoin ==
    LaunchInv /\ NodesInv /\ JoinInv /\ [WorldNext]_worldVars => JoinInv'
<1> SUFFICES ASSUME LaunchInv, NodesInv, JoinInv, [WorldNext]_worldVars PROVE JoinInv'
  OBVIOUS
<1>1. OneJob' <=> OneJob
  BY JobKept
<1>2. DOMAIN pool = Procs
  BY DEF JoinInv
\* Ranks that have joined before are those of processes that still are up.
<1>3. ASSUME OneJob, NEW r \in Procs, pool[r] # <<>>
      PROVE  \E p \in Up' : procs'[p].is.rank = r
  <2>1. PICK p \in Up : procs[p].is.rank = r
    BY <1>3 DEF JoinInv
  <2> QED
    BY <1>3, <2>1, UpKept
<1>4. CASE UNCHANGED pool
  BY <1>1, <1>2, <1>3, <1>4 DEF JoinInv
<1>5. ASSUME NEW p \in DOMAIN procs, Join(p) PROVE JoinInv'
  <2> DEFINE is == procs'[p].is
  <2>1. CASE is.state = "up" /\ pool[is.rank] = <<>>
    <3>1. PICK e : pool' = [pool EXCEPT ![is.rank] = e]
      BY <1>5, <2>1 DEF Join, SetupRoot
    <3>2. DOMAIN procs' = DOMAIN procs
      BY <1>5 DEF Join, InitProcess
    <3>3. p \in Up'
      BY <2>1, <3>2 DEF Up
    <3> HIDE DEF is
    <3>4. DOMAIN pool' = Procs /\ \A r \in Procs : r # is.rank => pool'[r] = pool[r]
      BY <1>2, <3>1
    <3>5. ASSUME OneJob, NEW r \in Procs, pool'[r] # <<>>
          PROVE  \E q \in Up' : procs'[q].is.rank = r
      <4>1. CASE r = is.rank
        BY <3>3, <4>1 DEF is
      <4>2. CASE r # is.rank
        BY <1>3, <3>4, <3>5, <4>2
      <4> QED
        BY <4>1, <4>2
    <3> QED
      BY <1>1, <3>4, <3>5 DEF JoinInv
  <2>2. CASE ~(is.state = "up" /\ pool[is.rank] = <<>>)
    BY <1>4, <1>5, <2>2 DEF Join, commVars
  <2> QED
    BY <2>1, <2>2
<1>6. ASSUME NEW r \in Procs, Work(r) PROVE JoinInv'
  BY <1>1, <1>2, <1>3, <1>6, WorkPools DEF JoinInv
<1>7. CASE Ffrun /\ UNCHANGED commVars
  BY <1>4, <1>7 DEF commVars
<1>8. CASE UNCHANGED worldVars
  BY <1>4, <1>8 DEF worldVars, commVars
<1> QED
  BY <1>5, <1>6, <1>7, <1>8 DEF WorldNext

\* The invariant of the world.
LEMMA WorldRight == WorldSpec => []WorldInv
<1>1. WorldInit => WorldInv
  BY InitLaunch, FirstNodes, SizeRight, InitJoin DEF WorldInv
<1>2. WorldInv /\ [WorldNext]_worldVars => LaunchInv' /\ NodesInv' /\ JoinInv'
  BY NextLaunch, NextNodes, NextJoin DEF WorldInv
<1>3. LaunchInv /\ NodesInv => SizeInv
  BY SizeRight
<1> QED
  BY <1>1, <1>2, <1>3, PTL DEF WorldSpec, WorldInv

\* A step of the world is a step of one job of Comm, or nothing there: a process
\* joins under a rank of the job, or works under one.
LEMMA JobSteps ==
    WorldInv /\ WorldInv' /\ [WorldNext]_worldVars =>
        [OneJob => /\ \A p \in Up' : Len(procs'[p].is.world) = Size'
                   /\ JobNext(Size')]_commVars
<1> SUFFICES ASSUME WorldInv, WorldInv', [WorldNext]_worldVars, OneJob, ~UNCHANGED commVars
             PROVE  /\ \A p \in Up' : Len(procs'[p].is.world) = Size'
                    /\ JobNext(Size')
  OBVIOUS
<1>1. OneJob'
  BY JobKept
<1>2. \A p \in Up' : /\ Len(procs'[p].is.world) = Size' /\ Size' \in Nat \ {0}
                     /\ procs'[p].is.rank \in 0..(Size' - 1)
  BY <1>1 DEF WorldInv, SizeInv
<1>3. JobNext(Size')
  <2>1. ASSUME NEW p \in DOMAIN procs, Join(p) PROVE JobNext(Size')
    <3> DEFINE is == procs'[p].is
    <3>1. is.state = "up" /\ SetupRoot(is.rank, Len(is.world))
      BY <2>1 DEF Join
    <3>2. DOMAIN procs' = DOMAIN procs
      BY <2>1 DEF Join, InitProcess
    <3>3. p \in Up'
      BY <3>1, <3>2 DEF Up
    <3>4. Len(is.world) = Size' /\ is.rank \in 0..(Size' - 1)
      BY <1>2, <3>3
    <3> QED
      BY <3>1, <3>4 DEF JobNext
  <2>2. ASSUME NEW r \in Procs, Work(r) PROVE JobNext(Size')
    <3>1. Connected(r) /\ CommNext(r) /\ pool[r] # <<>>
      BY <2>2 DEF Work, Connected
    <3>2. PICK p \in Up : procs[p].is.rank = r
      BY <3>1 DEF WorldInv, JoinInv
    <3>3. p \in Up' /\ procs'[p].is.rank = r
      BY <3>2, UpKept DEF WorldInv
    <3> QED
      BY <1>2, <3>1, <3>3 DEF JobNext
  <2>3. ~(Ffrun /\ UNCHANGED commVars) /\ ~UNCHANGED worldVars
    BY DEF worldVars
  <2> QED
    BY <2>1, <2>2, <2>3 DEF WorldNext
<1> QED
  BY <1>2, <1>3

\* The processes of one ffrun job join it as one job of Comm: all count the same
\* number of processes, and each step is one of the ranks below it (RDMA_Init,
\* RdmaProcess::Init, setupRootCommWorld).
THEOREM JoinsAreOne == WorldSpec => JoinsAgree
<1>1. WorldSpec => []WorldInv
  BY WorldRight
<1>2. WorldInv /\ WorldInv' /\ [WorldNext]_worldVars =>
        [Proper /\ OneLauncher =>
           /\ \A p \in Up' : Len(procs'[p].is.world) = Size'
           /\ JobNext(Size')]_commVars
  BY JobSteps DEF OneJob
<1> QED
  BY <1>1, <1>2, PTL DEF WorldSpec, JoinsAgree

\* What CommProofs says of a job of n processes holds here, for every n as long as
\* nobody is up, then for the number they count.
CommInv ==
    OneJob => \A n \in Nat \ {0} :
                0..(n - 1) \subseteq Procs /\ (Up # {} => n = Size) => IInv(n)

\* The number of processes does not change any more when one is up.
LEMMA SizeKept ==
    ASSUME WorldInv, WorldInv', [WorldNext]_worldVars, OneJob, Up # {}
    PROVE  Up' # {} /\ Size' = Size
<1>1. PICK p \in Up : TRUE
  OBVIOUS
<1>2. p \in Up' /\ procs'[p] = procs[p] /\ OneJob'
  BY JobKept, UpKept DEF WorldInv
<1>3. Len(procs[p].is.world) = Size
  BY DEF WorldInv, SizeInv
<1>4. Len(procs'[p].is.world) = Size'
  BY <1>2 DEF WorldInv, SizeInv
<1> QED
  BY <1>2, <1>3, <1>4

\* One step of the world, for the communicators.
LEMMA NextComm ==
    WorldInv /\ WorldInv' /\ CommInv /\ [WorldNext]_worldVars => CommInv'
<1> SUFFICES ASSUME WorldInv, WorldInv', CommInv, [WorldNext]_worldVars, OneJob,
                    NEW n \in Nat \ {0}, 0..(n - 1) \subseteq Procs, Up' # {} => n = Size'
             PROVE  IInv(n)'
  BY JobKept DEF CommInv
<1>1. IInv(n)
  <2>1. Up # {} => n = Size
    BY SizeKept
  <2> QED
    BY <2>1 DEF CommInv
<1>2. CASE UNCHANGED commVars
  BY <1>1, <1>2, InvNext
<1>3. CASE ~UNCHANGED commVars
  <2>1. JobNext(Size')
    BY <1>3, JobSteps
  <2>2. Up' # {}
    <3> SUFFICES ASSUME Up' = {} PROVE FALSE
      OBVIOUS
    <3>1. Size' = 0
      BY DEF Size
    <3>2. 0..(Size' - 1) = {}
      BY <3>1
    <3> QED
      BY <2>1, <3>2 DEF JobNext
  <2>3. JobNext(n)
    BY <2>1, <2>2
  <2> QED
    BY <1>1, <2>3, InvNext
<1> QED
  BY <1>2, <1>3

\* What is proved of the communicators of a job holds from the ffrun command on: the
\* processes of one ffrun job, with the ranks they have computed from their command
\* lines, have the same communicators with the right members, and take no message of
\* another step (Procs has to have the ranks, which are only names there).
THEOREM JobsSplitRight ==
    WorldSpec => [](/\ Proper /\ OneLauncher /\ Up # {} /\ 0..(Size - 1) \subseteq Procs
                    => GroupsAgree /\ SplitRight /\ NoMixup)
<1>1. WorldInit => CommInv
  <2> SUFFICES ASSUME WorldInit, NEW n \in Nat \ {0}, 0..(n - 1) \subseteq Procs PROVE IInv(n)
    BY DEF CommInv
  <2> QED
    BY InvInit DEF WorldInit
<1>2. WorldInv /\ CommInv =>
        (/\ Proper /\ OneLauncher /\ Up # {} /\ 0..(Size - 1) \subseteq Procs
         => GroupsAgree /\ SplitRight /\ NoMixup)
  <2> SUFFICES ASSUME WorldInv, CommInv, OneJob, Up # {}, 0..(Size - 1) \subseteq Procs
               PROVE  GroupsAgree /\ SplitRight /\ NoMixup
    BY DEF OneJob
  <2>1. Size \in Nat \ {0}
    BY DEF WorldInv, SizeInv
  <2>2. IInv(Size)
    BY <2>1 DEF CommInv
  <2> QED
    BY <2>2, NothingMixed, GroupsRight, SplitsRight
<1> QED
  BY <1>1, <1>2, WorldRight, NextComm, PTL DEF WorldSpec
=============================================================================
