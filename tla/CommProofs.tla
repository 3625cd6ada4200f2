------------------------------ MODULE CommProofs ------------------------------
(***************************************************************************)
(* Theorems about Comm, for any number of processes, any programs of       *)
(* splits and frees, and any order std::sort gives equal keys: all members *)
(* make the same communicator, it is the one the call asks for, nobody     *)
(* returns from a split before all have made it, and no message is taken   *)
(* for another.                                                            *)
(*                                                                         *)
(* The invariant IInv has three parts.  Tables: the entries of one process *)
(* and its handles.  Entries: what the entries of all processes have to do *)
(* with each other; communicators are named by the steps that made them,   *)
(* since handles mean nothing to others.  Wires: what is on the way between *)
(* two processes, as a function of where they stand.                       *)
(***************************************************************************)
EXTENDS Comm, FiniteSetTheorems, TLAPS

-----------------------------------------------------------------------------
(* Sorting: the new ranks are those from 0 on, each given once. *)

NewRanks(configs, S) == [i \in S |-> Cardinality({j \in S : Before(configs, j, i)})]

\* What is known of the members with one color, when they are sorted.
Sortable(configs, S) ==
    /\ IsFiniteSet(S)
    /\ \A i \in S : configs[i].key \in Int /\ tie[i] \in Int
    /\ \A i, j \in S : tie[i] = tie[j] => i = j

LEMMA BeforeIsOrder ==
    ASSUME NEW configs, NEW S, Sortable(configs, S)
    PROVE  /\ \A i \in S : ~Before(configs, i, i)
           /\ \A i, j, k \in S : Before(configs, i, j) /\ Before(configs, j, k)
                                   => Before(configs, i, k)
           /\ \A i, j \in S : i # j => Before(configs, i, j) \/ Before(configs, j, i)
  BY DEF Sortable, Before

LEMMA NewRanksRise ==
    ASSUME NEW configs, NEW S, Sortable(configs, S)
    PROVE  /\ \A i \in S : NewRanks(configs, S)[i] \in 0..(Cardinality(S) - 1)
           /\ \A i, j \in S : Before(configs, i, j)
                                => NewRanks(configs, S)[i] < NewRanks(configs, S)[j]
<1> DEFINE below(i) == {j \in S : Before(configs, j, i)}
<1>1. \A i \in S : NewRanks(configs, S)[i] = Cardinality(below(i))
  BY DEF NewRanks
<1>2. \A i \in S : /\ IsFiniteSet(below(i)) /\ Cardinality(below(i)) \in Nat
                   /\ Cardinality(below(i)) < Cardinality(S)
  <2> TAKE i \in S
  <2>1. IsFiniteSet(S) /\ below(i) \in SUBSET S /\ i \notin below(i)
    BY BeforeIsOrder DEF Sortable
  <2>2. below(i) # S
    BY <2>1
  <2> HIDE DEF below
  <2> QED
    BY <2>1, <2>2, FS_Subset, FS_CardinalityType
<1>3. ASSUME NEW i \in S, NEW j \in S, Before(configs, i, j)
      PROVE  Cardinality(below(i)) < Cardinality(below(j))
  <2>1. below(i) \in SUBSET below(j)
    BY <1>3, BeforeIsOrder
  <2>2. i \in below(j) /\ i \notin below(i)
    BY <1>3, BeforeIsOrder
  <2> HIDE DEF below
  <2> QED
    BY <1>2, <2>1, <2>2, FS_Subset, FS_CardinalityType
<1>4. IsFiniteSet(S) /\ Cardinality(S) \in Nat
  BY FS_CardinalityType DEF Sortable
<1> HIDE DEF below
<1> QED
  BY <1>1, <1>2, <1>3, <1>4

LEMMA NewRanksBijective ==
    ASSUME NEW configs, NEW S, Sortable(configs, S)
    PROVE  /\ \A i, j \in S : NewRanks(configs, S)[i] = NewRanks(configs, S)[j] => i = j
           /\ \A c \in 0..(Cardinality(S) - 1) : \E i \in S : NewRanks(configs, S)[i] = c
<1> DEFINE rank == NewRanks(configs, S)
           T == 0..(Cardinality(S) - 1)
<1>1. \A i \in S : rank[i] \in T
  BY NewRanksRise
<1>2. \A i, j \in S : rank[i] = rank[j] => i = j
  <2> SUFFICES ASSUME NEW i \in S, NEW j \in S, rank[i] = rank[j], i # j PROVE FALSE
    OBVIOUS
  <2>1. Before(configs, i, j) \/ Before(configs, j, i)
    BY BeforeIsOrder
  <2>2. rank[i] < rank[j] \/ rank[j] < rank[i]
    BY <2>1, NewRanksRise
  <2>3. rank[i] \in Int
    BY <1>1
  <2> QED
    BY <2>2, <2>3
<1>3. IsFiniteSet(S) /\ Cardinality(S) \in Nat
  BY FS_CardinalityType DEF Sortable
<1>4. IsFiniteSet(T) /\ Cardinality(T) = Cardinality(S)
  <2> DEFINE b == Cardinality(S) - 1
  <2>1. 0 \in Int /\ b \in Int /\ (IF 0 > b THEN 0 ELSE b - 0 + 1) = Cardinality(S)
    BY <1>3
  <2> HIDE DEF b
  <2>2. IsFiniteSet(0..b) /\ Cardinality(0..b) = (IF 0 > b THEN 0 ELSE b - 0 + 1)
    BY <2>1, FS_Interval
  <2> QED
    BY <2>1, <2>2 DEF b
<1>5. rank \in Injection(S, T)
  <2>1. rank \in [S -> T]
    BY <1>1 DEF NewRanks
  <2> QED
    BY <2>1, <1>2 DEF Injection, IsInjective
<1>6. rank \in Surjection(S, T)
  <2> HIDE DEF rank, T
  <2> QED
    BY <1>4, <1>5, FS_Injection
<1> QED
  BY <1>2, <1>6 DEF Surjection

-----------------------------------------------------------------------------
(* One communicator: the two tables of RDMA_Communicator. *)

Job(n) == 0..(n - 1)

Communicators(n) ==
    [color : Int, commWorldSize : 1..n, commRanks : [Job(n) -> Int],
     rootRanks : [Job(n) -> Int], myCommRank : Int]

\* The tables of p's entry e are the inverse of each other on its members.
WellFormed(n, p, e) ==
    /\ e \in Communicators(n)
    /\ e.myCommRank \in 0..(e.commWorldSize - 1) /\ e.rootRanks[e.myCommRank] = p
    /\ \A c \in 0..(e.commWorldSize - 1) :
         e.rootRanks[c] \in Job(n) /\ e.commRanks[e.rootRanks[c]] = c

\* A list of members as setRank needs it.
MemberList(n, members) ==
    /\ members \in Seq(Job(n)) /\ Len(members) \in 1..n
    /\ \A i, j \in DOMAIN members : members[i] = members[j] => i = j

LEMMA PlaceOfMember ==
    ASSUME NEW n, NEW members, MemberList(n, members), NEW i \in DOMAIN members
    PROVE  Place(members, members[i]) = i - 1
  BY DEF Place, MemberList

LEMMA CommunicatorRight ==
    ASSUME NEW n \in Nat, NEW members, MemberList(n, members), NEW color \in Int,
           NEW p \in Range(members)
    PROVE  LET e == Communicator(color, members, p, n)
           IN  /\ WellFormed(n, p, e) /\ e.color = color
               /\ Group(e) = Range(members)
               /\ \A i \in DOMAIN members : e.commRanks[members[i]] = i - 1
<1> DEFINE e == Communicator(color, members, p, n)
           m == Len(members)
<1>1. /\ m \in 1..n /\ DOMAIN members = 1..m
      /\ \A i \in 1..m : members[i] \in Job(n)
  BY DEF MemberList
<1>2. \A i \in 1..m : Place(members, members[i]) = i - 1
  BY <1>1, PlaceOfMember
<1>3. PICK me \in 1..m : members[me] = p
  BY <1>1 DEF Range
<1>4. /\ e.color = color /\ e.commWorldSize = m /\ e.myCommRank = me - 1
      /\ e.commRanks = [r \in Job(n) |-> IF r \in Range(members) THEN Place(members, r) ELSE -1]
      /\ e.rootRanks = [c \in Job(n) |-> IF c < m THEN members[c + 1] ELSE -1]
  BY <1>2, <1>3 DEF Communicator, Job
<1>5. \A i \in 1..m : /\ e.commRanks[members[i]] = i - 1
                      /\ e.rootRanks[i - 1] = members[i]
  <2> TAKE i \in 1..m
  <2>1. members[i] \in Range(members) /\ members[i] \in Job(n) /\ i - 1 \in Job(n)
        /\ i - 1 < m /\ (i - 1) + 1 = i
    BY <1>1 DEF Range, Job
  <2> HIDE DEF e, m
  <2> QED
    BY <2>1, <1>2, <1>4
<1>6. \A r \in Range(members) : Place(members, r) \in Int
  BY <1>1, <1>2 DEF Range
<1>7. e.commRanks \in [Job(n) -> Int] /\ e.rootRanks \in [Job(n) -> Int]
  <2>1. \A c \in Job(n) : c < m => members[c + 1] \in Int
    BY <1>1 DEF Job
  <2> HIDE DEF e, m
  <2> QED
    BY <2>1, <1>4, <1>6
<1>8. e \in Communicators(n)
  <2>1. e = [color |-> e.color, commWorldSize |-> e.commWorldSize, commRanks |-> e.commRanks,
             rootRanks |-> e.rootRanks, myCommRank |-> e.myCommRank]
    BY DEF Communicator
  <2> HIDE DEF e, m
  <2> QED
    BY <2>1, <1>1, <1>4, <1>7 DEF Communicators
<1>9. \A c \in 0..(m - 1) : c + 1 \in 1..m /\ (c + 1) - 1 = c
  BY <1>1
<1>10. Group(e) = Range(members)
  <2>1. Range(members) = {members[i] : i \in 1..m}
    BY <1>1 DEF Range
  <2>2. Group(e) = {e.rootRanks[c] : c \in 0..(m - 1)}
    BY <1>4 DEF Group
  <2>3. \A i \in 1..m : i - 1 \in 0..(m - 1)
    BY <1>1
  <2> HIDE DEF e, m
  <2> QED
    BY <2>1, <2>2, <2>3, <1>5, <1>9
<1>11. WellFormed(n, p, e)
  <2>1. me - 1 \in 0..(m - 1)
    BY <1>1
  <2>2. ASSUME NEW c \in 0..(m - 1)
        PROVE  e.rootRanks[c] \in Job(n) /\ e.commRanks[e.rootRanks[c]] = c
    <3> HIDE DEF e, m
    <3>1. c + 1 \in 1..m /\ (c + 1) - 1 = c
      BY <1>9
    <3> QED
      BY <3>1, <1>1, <1>5
  <2>3. e.rootRanks[e.myCommRank] = p
    <3> HIDE DEF e, m
    <3> QED
      BY <1>3, <1>4, <1>5
  <2> HIDE DEF e, m
  <2> QED
    BY <2>1, <2>2, <2>3, <1>4, <1>8 DEF WellFormed
<1> HIDE DEF e
<1> QED
  BY <1>1, <1>4, <1>5, <1>10, <1>11 DEF e

-----------------------------------------------------------------------------
(* splitComm: the list of members. *)

Configs == [color : Int, key : Int]

\* A parent and what the all-gather over it has returned.
Gatherable(n, p, parent, configs) ==
    /\ n \in Nat
    /\ WellFormed(n, p, parent)
    /\ configs \in [1..parent.commWorldSize -> Configs]
    /\ \A i, j \in 1..n : tie[i] \in Nat /\ (tie[i] = tie[j] => i = j)

LEMMA SameColorSortable ==
    ASSUME NEW n, NEW p, NEW parent, NEW configs, Gatherable(n, p, parent, configs)
    PROVE  /\ SameColor(parent, configs) \in SUBSET (1..parent.commWorldSize)
           /\ Sortable(configs, SameColor(parent, configs))
           /\ parent.myCommRank + 1 \in SameColor(parent, configs)
           /\ Cardinality(SameColor(parent, configs)) \in 1..parent.commWorldSize
<1> DEFINE S == SameColor(parent, configs)
           size == parent.commWorldSize
<1>1. size \in 1..n /\ n \in Nat /\ DOMAIN configs = 1..size
  BY DEF Gatherable, WellFormed, Communicators
<1>2. S \in SUBSET (1..size)
  BY <1>1 DEF SameColor
<1>3. IsFiniteSet(1..size) /\ Cardinality(1..size) = size
  BY <1>1, FS_Interval
<1>4. IsFiniteSet(S) /\ Cardinality(S) \in Nat /\ Cardinality(S) =< size
  <2> HIDE DEF S, size
  <2> QED
    BY <1>2, <1>3, FS_Subset, FS_CardinalityType
<1>5. parent.myCommRank + 1 \in S
  BY <1>1 DEF SameColor, Gatherable, WellFormed
<1>6. \A i \in 1..size : configs[i].key \in Int /\ tie[i] \in Int
  BY <1>1 DEF Gatherable, Configs
<1>7. \A i, j \in 1..size : tie[i] = tie[j] => i = j
  BY <1>1 DEF Gatherable
<1>8. Cardinality(S) # 0
  BY <1>4, <1>5, FS_EmptySet
<1> HIDE DEF S, size
<1>9. Sortable(configs, S)
  BY <1>2, <1>4, <1>6, <1>7 DEF Sortable
<1> QED
  BY <1>1, <1>2, <1>4, <1>5, <1>8, <1>9 DEF S, size

\* The root ranks of a communicator differ from each other.
LEMMA RootRanksDiffer ==
    ASSUME NEW n, NEW p, NEW e, WellFormed(n, p, e),
           NEW i \in 0..(e.commWorldSize - 1), NEW j \in 0..(e.commWorldSize - 1),
           e.rootRanks[i] = e.rootRanks[j]
    PROVE  i = j
  BY DEF WellFormed

LEMMA InOrderRight ==
    ASSUME NEW n, NEW p, NEW parent, NEW configs, Gatherable(n, p, parent, configs)
    PROVE  LET S == SameColor(parent, configs)
               rank == NewRanks(configs, S)
               list == InOrder(parent, rank)
           IN  /\ MemberList(n, list)
               /\ Range(list) = {parent.rootRanks[i - 1] : i \in S}
               /\ \A i \in S : rank[i] + 1 \in DOMAIN list
                                 /\ list[rank[i] + 1] = parent.rootRanks[i - 1]
<1> DEFINE S == SameColor(parent, configs)
           rank == NewRanks(configs, S)
           list == InOrder(parent, rank)
           m == Cardinality(S)
           size == parent.commWorldSize
           at(r) == CHOOSE i \in S : rank[i] = r - 1
<1>1. /\ S \in SUBSET (1..size) /\ Sortable(configs, S) /\ m \in 1..size
      /\ size \in 1..n /\ n \in Nat
  BY SameColorSortable DEF Gatherable, WellFormed, Communicators
<1>2. /\ \A i \in S : rank[i] \in 0..(m - 1)
      /\ \A i, j \in S : rank[i] = rank[j] => i = j
      /\ \A c \in 0..(m - 1) : \E i \in S : rank[i] = c
  BY <1>1, NewRanksRise, NewRanksBijective
<1>3. DOMAIN rank = S
  BY DEF NewRanks
<1>4. list = [r \in 1..m |-> parent.rootRanks[at(r) - 1]]
  BY <1>3 DEF InOrder
<1>5. \A r \in 1..m : at(r) \in S /\ rank[at(r)] = r - 1
  <2> TAKE r \in 1..m
  <2>1. r - 1 \in 0..(m - 1)
    BY <1>1
  <2> HIDE DEF S, rank, m
  <2> QED
    BY <2>1, <1>2
<1>6. \A i \in S : rank[i] + 1 \in 1..m /\ at(rank[i] + 1) = i
  <2> TAKE i \in S
  <2>1. rank[i] \in 0..(m - 1) /\ m \in Nat
    BY <1>1, <1>2
  <2> HIDE DEF rank, m, S
  <2>2. rank[i] + 1 \in 1..m /\ (rank[i] + 1) - 1 = rank[i]
    BY <2>1
  <2> HIDE DEF at
  <2> QED
    BY <2>2, <1>2, <1>5
<1>7. \A i \in S : i - 1 \in 0..(size - 1) /\ parent.rootRanks[i - 1] \in Job(n)
  BY <1>1 DEF Gatherable, WellFormed
<1>8. \A i, j \in S : parent.rootRanks[i - 1] = parent.rootRanks[j - 1] => i = j
  <2> TAKE i \in S, j \in S
  <2> HAVE parent.rootRanks[i - 1] = parent.rootRanks[j - 1]
  <2>1. WellFormed(n, p, parent) /\ i - 1 \in 0..(size - 1) /\ j - 1 \in 0..(size - 1)
    BY <1>7 DEF Gatherable
  <2>2. i - 1 = j - 1
    BY <2>1, RootRanksDiffer
  <2>3. i \in Int /\ j \in Int
    BY <1>1
  <2> QED
    BY <2>2, <2>3
<1> HIDE DEF S, rank, m, at
<1>9. list \in Seq(Job(n)) /\ Len(list) = m /\ DOMAIN list = 1..m
  <2>1. m \in Nat
    BY <1>1
  <2>2. ASSUME NEW r \in 1..m
        PROVE  parent.rootRanks[at(r) - 1] \in Job(n)
    <3>1. at(r) \in S
      BY <1>5
    <3> QED
      BY <3>1, <1>7
  <2> HIDE DEF list
  <2>3. list \in [1..m -> Job(n)]
    BY <2>2, <1>4
  <2> QED
    BY <2>1, <2>3
<1>10. \A r \in 1..m : list[r] = parent.rootRanks[at(r) - 1]
  <2> HIDE DEF list
  <2> QED
    BY <1>4
<1> HIDE DEF list
<1>11. \A i, j \in 1..m : list[i] = list[j] => i = j
  <2> TAKE i \in 1..m, j \in 1..m
  <2> HAVE list[i] = list[j]
  <2>1. at(i) = at(j)
    BY <1>5, <1>8, <1>10
  <2>2. i - 1 = j - 1
    BY <2>1, <1>5
  <2> QED
    BY <2>2
<1>12. Range(list) = {parent.rootRanks[i - 1] : i \in S}
  <2>1. Range(list) = {list[r] : r \in 1..m}
    BY <1>9 DEF Range
  <2>2. \A r \in 1..m : \E i \in S : list[r] = parent.rootRanks[i - 1]
    BY <1>5, <1>10
  <2>3. \A i \in S : list[rank[i] + 1] = parent.rootRanks[i - 1] /\ rank[i] + 1 \in 1..m
    BY <1>6, <1>10
  <2> QED
    BY <2>1, <2>2, <2>3
<1>13. MemberList(n, list)
  BY <1>1, <1>9, <1>11 DEF MemberList
<1>14. \A i \in S : rank[i] + 1 \in DOMAIN list /\ list[rank[i] + 1] = parent.rootRanks[i - 1]
  BY <1>6, <1>9, <1>10
<1> QED
  BY <1>12, <1>13, <1>14 DEF S, rank, list

LEMMA MembersRight ==
    ASSUME NEW n, NEW p, NEW parent, NEW configs, Gatherable(n, p, parent, configs)
    PROVE  LET S == SameColor(parent, configs)
               mine == configs[parent.myCommRank + 1].color
               list == Members(parent, configs)
           IN  /\ MemberList(n, list) /\ p \in Range(list)
               /\ Range(list) = IF mine = UNDEFINED THEN {p}
                                  ELSE {parent.rootRanks[i - 1] : i \in S}
               /\ mine # UNDEFINED => \A i, j \in S : configs[i].key < configs[j].key =>
                    \E x, y \in DOMAIN list : /\ x < y
                                              /\ list[x] = parent.rootRanks[i - 1]
                                              /\ list[y] = parent.rootRanks[j - 1]
<1> DEFINE S == SameColor(parent, configs)
           mine == configs[parent.myCommRank + 1].color
           rank == NewRanks(configs, S)
           list == Members(parent, configs)
<1>1. /\ p = parent.rootRanks[parent.myCommRank] /\ p \in Job(n) /\ n \in Nat
      /\ parent.myCommRank \in Int /\ parent.commWorldSize \in 1..n
  BY DEF Gatherable, WellFormed, Communicators
<1>2. CASE mine = UNDEFINED
  <2>1. list = <<p>>
    <3>1. (parent.myCommRank + 1) - 1 = parent.myCommRank
      BY <1>1
    <3> QED
      BY <1>1, <1>2, <3>1 DEF Members
  <2> HIDE DEF list
  <2>2. MemberList(n, list)
    BY <2>1, <1>1 DEF MemberList, Job
  <2>3. Range(list) = {p}
    BY <2>1 DEF Range
  <2> QED
    BY <1>2, <2>2, <2>3 DEF list
<1>3. CASE mine # UNDEFINED
  <2>1. list = InOrder(parent, rank)
    BY <1>3 DEF Members, NewRanks
  <2>2. /\ MemberList(n, list)
        /\ Range(list) = {parent.rootRanks[i - 1] : i \in S}
        /\ \A i \in S : rank[i] + 1 \in DOMAIN list
                          /\ list[rank[i] + 1] = parent.rootRanks[i - 1]
    BY <2>1, InOrderRight
  <2>3. parent.myCommRank + 1 \in S /\ (parent.myCommRank + 1) - 1 = parent.myCommRank
    BY <1>1, SameColorSortable
  <2>4. p \in Range(list)
    <3> HIDE DEF list, S
    <3> QED
      BY <1>1, <2>2, <2>3
  <2>5. ASSUME NEW i \in S, NEW j \in S, configs[i].key < configs[j].key
        PROVE  \E x, y \in DOMAIN list : /\ x < y
                                         /\ list[x] = parent.rootRanks[i - 1]
                                         /\ list[y] = parent.rootRanks[j - 1]
    <3>1. Before(configs, i, j)
      BY <2>5 DEF Before
    <3>2. Sortable(configs, S)
      BY SameColorSortable
    <3>3. rank[i] < rank[j] /\ rank[i] \in Int /\ rank[j] \in Int
      BY <3>1, <3>2, NewRanksRise
    <3>4. rank[i] + 1 < rank[j] + 1
      <4> HIDE DEF rank
      <4> QED
        BY <3>3
    <3> HIDE DEF list, rank, S
    <3> QED
      BY <3>4, <2>2
  <2> HIDE DEF list
  <2> QED
    BY <1>3, <2>2, <2>4, <2>5 DEF list
<1> QED
  BY <1>2, <1>3

-----------------------------------------------------------------------------
(* What a step of the program makes of a parent. *)

Steps == 1..Len(program)

\* A job of n processes that execute one of the programs.
Setting(n) ==
    /\ n \in Nat \ {0} /\ Job(n) \subseteq Procs
    /\ program \in Programs /\ tie \in Ties

LEMMA ProgramRight ==
    ASSUME NEW n, Setting(n)
    PROVE  /\ Len(program) \in Nat /\ DOMAIN program = Steps
           /\ \A k \in Steps : /\ program[k].on \in 0..(k - 1)
                               /\ \A q \in Job(n) : /\ program[k].color[q] \in Int
                                                    /\ program[k].key[q] \in Int
           /\ \A i, j \in 1..n : tie[i] \in Nat /\ (tie[i] = tie[j] => i = j)
<1>1. program \in Seq(SplitCall) /\ \A k \in DOMAIN program : program[k].on < k
  BY ProgramsAssumption DEF Setting
<1>2. Len(program) \in Nat /\ DOMAIN program = Steps /\ \A k \in Steps : program[k] \in SplitCall
  BY <1>1 DEF Steps
<1>3. ASSUME NEW k \in Steps
      PROVE  /\ program[k].on \in 0..(k - 1)
             /\ \A q \in Job(n) : program[k].color[q] \in Int /\ program[k].key[q] \in Int
  <2>1. /\ program[k].on \in Nat /\ program[k].key \in [Procs -> Nat]
        /\ program[k].color \in [Procs -> Nat \union {UNDEFINED}]
    BY <1>2 DEF SplitCall
  <2>2. program[k].on < k /\ k \in Nat
    BY <1>1, <1>2 DEF Steps
  <2>3. Job(n) \subseteq Procs
    BY DEF Setting
  <2> QED
    BY <2>1, <2>2, <2>3 DEF UNDEFINED
<1>4. n =< Cardinality(Procs) /\ Cardinality(Procs) \in Nat /\ n \in Nat
  <2>1. n \in Nat \ {0} /\ Job(n) \in SUBSET Procs /\ IsFiniteSet(Procs)
    BY ProcsAssumption DEF Setting
  <2>2. Cardinality(Job(n)) = n
    BY <2>1, FS_Interval DEF Job
  <2> QED
    BY <2>1, <2>2, FS_Subset, FS_CardinalityType
<1>5. tie \in [1..Cardinality(Procs) -> Nat] /\ IsInjective(tie)
  BY TiesAssumption DEF Setting
<1>6. \A i, j \in 1..n : tie[i] \in Nat /\ (tie[i] = tie[j] => i = j)
  BY <1>4, <1>5 DEF IsInjective
<1> QED
  BY <1>2, <1>3, <1>6

\* What every member knows after the all-gather: the colors and keys of the
\* parent's members in step k, by their rank there.
Ideal(parent, k) ==
    [i \in 1..parent.commWorldSize |->
        [color |-> program[k].color[parent.rootRanks[i - 1]],
         key |-> program[k].key[parent.rootRanks[i - 1]]]]

\* The entry of p for step k.
SplitOf(n, p, parent, k) ==
    Communicator(program[k].color[p], Members(parent, Ideal(parent, k)), p, n)

LEMMA RootRanksInJob ==
    ASSUME NEW n, NEW p, NEW e, WellFormed(n, p, e)
    PROVE  Group(e) \subseteq Job(n) /\ p \in Group(e) /\ e.rootRanks[0] \in Group(e)
<1>1. e.commWorldSize \in 1..n /\ e.myCommRank \in 0..(e.commWorldSize - 1)
  BY DEF WellFormed, Communicators
<1>2. 0 \in 0..(e.commWorldSize - 1)
  BY <1>1
<1> QED
  BY <1>1, <1>2 DEF WellFormed, Group

LEMMA IdealGatherable ==
    ASSUME NEW n, Setting(n), NEW p, NEW parent, WellFormed(n, p, parent), NEW k \in Steps
    PROVE  Gatherable(n, p, parent, Ideal(parent, k))
<1>1. /\ \A q \in Job(n) : program[k].color[q] \in Int /\ program[k].key[q] \in Int
      /\ \A i, j \in 1..n : tie[i] \in Nat /\ (tie[i] = tie[j] => i = j)
      /\ n \in Nat
  BY ProgramRight DEF Setting
<1>2. \A i \in 1..parent.commWorldSize : parent.rootRanks[i - 1] \in Job(n)
  BY DEF WellFormed, Communicators
<1>3. Ideal(parent, k) \in [1..parent.commWorldSize -> Configs]
  BY <1>1, <1>2 DEF Ideal, Configs
<1> QED
  BY <1>1, <1>3 DEF Gatherable

LEMMA SplitOfRight ==
    ASSUME NEW n, Setting(n), NEW p, NEW parent, WellFormed(n, p, parent), NEW k \in Steps
    PROVE  LET e == SplitOf(n, p, parent, k)
               call == program[k]
           IN  /\ WellFormed(n, p, e)
               /\ e.color = call.color[p]
               /\ Group(e) = IF e.color = UNDEFINED THEN {p}
                               ELSE {q \in Group(parent) : call.color[q] = e.color}
               /\ \A q, r \in Group(e) :
                    call.key[q] < call.key[r] => e.commRanks[q] < e.commRanks[r]
<1> DEFINE e == SplitOf(n, p, parent, k)
           call == program[k]
           configs == Ideal(parent, k)
           list == Members(parent, configs)
           S == SameColor(parent, configs)
           size == parent.commWorldSize
           mine == configs[parent.myCommRank + 1].color
<1>1. Gatherable(n, p, parent, configs)
  BY IdealGatherable
<1>2. size \in 1..n /\ n \in Nat /\ DOMAIN configs = 1..size /\ p \in Job(n)
  BY RootRanksInJob DEF Setting, WellFormed, Communicators, Ideal
<1>3. \A i \in 1..size : /\ configs[i].color = call.color[parent.rootRanks[i - 1]]
                         /\ configs[i].key = call.key[parent.rootRanks[i - 1]]
  BY DEF Ideal
<1>4. mine = call.color[p]
  <2>1. parent.myCommRank + 1 \in 1..size /\ (parent.myCommRank + 1) - 1 = parent.myCommRank
    BY <1>2 DEF WellFormed
  <2> HIDE DEF configs
  <2> QED
    BY <2>1, <1>3 DEF WellFormed
<1>5. call.color[p] \in Int
  BY <1>2, ProgramRight
<1>6. /\ MemberList(n, list) /\ p \in Range(list)
      /\ Range(list) = IF mine = UNDEFINED THEN {p} ELSE {parent.rootRanks[i - 1] : i \in S}
      /\ mine # UNDEFINED => \A i, j \in S : configs[i].key < configs[j].key =>
           \E x, y \in DOMAIN list : /\ x < y
                                     /\ list[x] = parent.rootRanks[i - 1]
                                     /\ list[y] = parent.rootRanks[j - 1]
  BY <1>1, MembersRight
<1>7. e = Communicator(call.color[p], list, p, n)
  BY DEF SplitOf
<1> HIDE DEF e, list
<1>8. /\ WellFormed(n, p, e) /\ e.color = call.color[p] /\ Group(e) = Range(list)
      /\ \A i \in DOMAIN list : e.commRanks[list[i]] = i - 1
  <2>1. MemberList(n, list) /\ p \in Range(list) /\ n \in Nat
    BY <1>2, <1>6
  <2>2. LET f == Communicator(call.color[p], list, p, n)
        IN  /\ WellFormed(n, p, f) /\ f.color = call.color[p]
            /\ Group(f) = Range(list)
            /\ \A i \in DOMAIN list : f.commRanks[list[i]] = i - 1
    <3> HIDE DEF call
    <3> QED
      BY <2>1, <1>5, CommunicatorRight
  <2> QED
    BY <2>2, <1>7
<1>9. S = {i \in 1..size : call.color[parent.rootRanks[i - 1]] = call.color[p]}
  BY <1>2, <1>3, <1>4 DEF SameColor
<1>10. Group(parent) = {parent.rootRanks[i - 1] : i \in 1..size}
  <2>1. \A c \in 0..(size - 1) : c + 1 \in 1..size /\ (c + 1) - 1 = c
    BY <1>2
  <2>2. \A i \in 1..size : i - 1 \in 0..(size - 1)
    BY <1>2
  <2> QED
    BY <2>1, <2>2 DEF Group
<1>11. {parent.rootRanks[i - 1] : i \in S}
         = {q \in Group(parent) : call.color[q] = call.color[p]}
  <2> HIDE DEF S, call, size
  <2> QED
    BY <1>9, <1>10
<1>12. Group(e) = IF e.color = UNDEFINED THEN {p}
                    ELSE {q \in Group(parent) : call.color[q] = e.color}
  BY <1>4, <1>6, <1>8, <1>11
<1>13. ASSUME NEW q \in Group(e), NEW r \in Group(e), call.key[q] < call.key[r]
       PROVE  e.commRanks[q] < e.commRanks[r]
  <2>1. CASE mine = UNDEFINED
    <3>1. q = p /\ r = p
      BY <2>1, <1>4, <1>8, <1>12
    <3>2. call.key[p] \in Int
      BY <1>2, ProgramRight
    <3> QED
      BY <3>1, <3>2, <1>13
  <2>2. CASE mine # UNDEFINED
    <3>1. PICK i \in S, j \in S : q = parent.rootRanks[i - 1] /\ r = parent.rootRanks[j - 1]
      BY <2>2, <1>6, <1>8
    <3>2. configs[i].key = call.key[q] /\ configs[j].key = call.key[r]
      <4>1. i \in 1..size /\ j \in 1..size
        BY <1>9
      <4> HIDE DEF configs, S
      <4> QED
        BY <4>1, <3>1, <1>3
    <3>3. configs[i].key < configs[j].key
      BY <3>2, <1>13
    <3>4. PICK x \in DOMAIN list, y \in DOMAIN list : x < y /\ list[x] = q /\ list[y] = r
      <4> HIDE DEF S, configs, mine
      <4> QED
        BY <3>1, <3>3, <2>2, <1>6
    <3>5. e.commRanks[q] = x - 1 /\ e.commRanks[r] = y - 1
      BY <3>4, <1>8
    <3>6. x \in Int /\ y \in Int
      BY <1>6 DEF MemberList
    <3> QED
      BY <3>4, <3>5, <3>6
  <2> QED
    BY <2>1, <2>2
<1> QED
  BY <1>8, <1>12, <1>13 DEF e

\* Two entries of one communicator: they differ in the rank of their owner.
Alike(e, f) ==
    /\ f.color = e.color /\ f.commWorldSize = e.commWorldSize
    /\ f.rootRanks = e.rootRanks /\ f.commRanks = e.commRanks

LEMMA AlikeGroups == \A e, f : Alike(e, f) => Group(f) = Group(e)
  BY DEF Alike, Group

LEMMA AlikeExcept ==
    ASSUME NEW n, NEW e \in Communicators(n), NEW f \in Communicators(n), Alike(e, f)
    PROVE  f = [e EXCEPT !.myCommRank = f.myCommRank]
<1>1. \A v \in Int : [e EXCEPT !.myCommRank = v]
         = [color |-> e.color, commWorldSize |-> e.commWorldSize, commRanks |-> e.commRanks,
            rootRanks |-> e.rootRanks, myCommRank |-> v]
  BY DEF Communicators
<1>2. f.myCommRank \in Int
      /\ f = [color |-> f.color, commWorldSize |-> f.commWorldSize, commRanks |-> f.commRanks,
              rootRanks |-> f.rootRanks, myCommRank |-> f.myCommRank]
  BY DEF Communicators
<1> QED
  BY <1>1, <1>2 DEF Alike

LEMMA CommunicatorAlike ==
    \A color, members, p, q, n :
        Alike(Communicator(color, members, p, n), Communicator(color, members, q, n))
  BY DEF Communicator, Alike

LEMMA SplitOfAlike ==
    ASSUME NEW n, NEW p, NEW e, WellFormed(n, p, e), NEW q, NEW f, WellFormed(n, q, f),
           Alike(e, f), Setting(n), NEW k \in Steps,
           program[k].color[p] = program[k].color[q], program[k].color[p] # UNDEFINED
    PROVE  Alike(SplitOf(n, p, e, k), SplitOf(n, q, f, k))
<1>1. f.commWorldSize = e.commWorldSize /\ f.rootRanks = e.rootRanks
  BY DEF Alike
<1>2. Ideal(f, k) = Ideal(e, k)
  BY <1>1 DEF Ideal
<1> DEFINE configs == Ideal(e, k)
<1>3. ASSUME NEW x, NEW g, WellFormed(n, x, g), Ideal(g, k) = configs
      PROVE  configs[g.myCommRank + 1].color = program[k].color[x]
  <2>1. g.commWorldSize \in 1..n /\ n \in Nat /\ g.myCommRank \in 0..(g.commWorldSize - 1)
    BY <1>3 DEF Setting, WellFormed, Communicators
  <2>2. /\ g.myCommRank + 1 \in 1..g.commWorldSize
        /\ (g.myCommRank + 1) - 1 = g.myCommRank
    BY <2>1
  <2>3. g.rootRanks[g.myCommRank] = x
    BY <1>3 DEF WellFormed
  <2> HIDE DEF configs
  <2>4. configs = Ideal(g, k)
    BY <1>3
  <2> QED
    BY <2>2, <2>3, <2>4 DEF Ideal
<1>4. /\ configs[e.myCommRank + 1].color = program[k].color[p]
      /\ configs[f.myCommRank + 1].color = program[k].color[p]
  <2> HIDE DEF configs
  <2> QED
    BY <1>2, <1>3 DEF configs
<1> HIDE DEF configs
<1>5. SameColor(f, configs) = SameColor(e, configs)
  BY <1>4 DEF SameColor
<1>6. Members(f, configs) = Members(e, configs)
  BY <1>1, <1>4, <1>5 DEF Members, InOrder
<1>7. /\ SplitOf(n, p, e, k) = Communicator(program[k].color[p], Members(e, configs), p, n)
      /\ SplitOf(n, q, f, k) = Communicator(program[k].color[p], Members(e, configs), q, n)
  BY <1>2, <1>6 DEF SplitOf, configs
<1> QED
  BY <1>7, CommunicatorAlike

RootEntry(p, n) == Communicator(0, [i \in 1..n |-> i - 1], p, n)

LEMMA RootEntryRight ==
    ASSUME NEW n \in Nat \ {0}, NEW p \in Job(n)
    PROVE  /\ WellFormed(n, p, RootEntry(p, n)) /\ RootEntry(p, n).color = 0
           /\ Group(RootEntry(p, n)) = Job(n)
<1> DEFINE members == [i \in 1..n |-> i - 1]
<1>1. MemberList(n, members)
  <2>1. members \in [1..n -> Job(n)] /\ n \in Nat
    BY DEF Job
  <2>2. members \in Seq(Job(n)) /\ Len(members) = n /\ DOMAIN members = 1..n
    <3> HIDE DEF members
    <3> QED
      BY <2>1
  <2> QED
    BY <2>2 DEF MemberList
<1>2. \A r \in Job(n) : r + 1 \in 1..n /\ members[r + 1] = r
  BY DEF Job
<1>3. Range(members) = Job(n)
  <2>1. \A i \in 1..n : members[i] \in Job(n)
    BY DEF Job
  <2>2. DOMAIN members = 1..n
    OBVIOUS
  <2> HIDE DEF members
  <2> QED
    BY <2>1, <2>2, <1>2 DEF Range
<1> HIDE DEF members
<1>4. RootEntry(p, n) = Communicator(0, members, p, n)
  BY DEF RootEntry, members
<1> QED
  <2>1. p \in Range(members) /\ 0 \in Int /\ n \in Nat
    BY <1>3
  <2>2. LET e == Communicator(0, members, p, n)
        IN  WellFormed(n, p, e) /\ e.color = 0 /\ Group(e) = Range(members)
    BY <1>1, <2>1, CommunicatorRight
  <2> QED
    BY <2>2, <1>3, <1>4

-----------------------------------------------------------------------------
(* The communicators by the steps that made them.  A handle is a place in    *)
(* m_commPool and means something to its owner only; the step is the name    *)
(* by which the entries of one communicator are found at all its members.    *)

MadeAt(p, k) == \E i \in DOMAIN pool[p] : made[p][i].step = k
Of(p, k) == pool[p][CHOOSE i \in DOMAIN pool[p] : made[p][i].step = k]

\* The step p is in or comes to next, and whether it is inside the call.
Turn(p) == step[p] + 1
Busy(p) == pc[p] \in {"gather", "barrier"}

\* What p splits in step k, its members, its rank 0; that p is to call it.
Parent(p, k) == Of(p, program[k].on)
Together(p, k) == Group(Parent(p, k))
RootOf(p, k) == Parent(p, k).rootRanks[0]
Calls(p, k) == MadeAt(p, program[k].on) /\ Parent(p, k).color \in program[k].who

AllUp(n) == \A p \in Job(n) : pool[p] # <<>>

Messages == [config : Configs, step : Nat]

Types(n) ==
    /\ Setting(n)
    /\ step \in [Procs -> Nat]
    /\ pc \in [Procs -> {"out", "run", "gather", "barrier", "crashed"}]
    /\ handle \in [Procs -> Seq(Int)]
    /\ pool \in [Procs -> Seq(Communicators(n))]
    /\ made \in [Procs -> Seq([step : Nat, from : Nat])]
    /\ chan \in [Procs -> [Procs -> Seq(Messages)]]
    /\ \A p \in Procs : step[p] =< Len(program) /\ Len(handle[p]) = step[p] + 1

\* Nobody has begun before all are there.
Begins(n, p) ==
    /\ pool[p] = <<>> <=> pc[p] = "out"
    /\ step[p] > 0 \/ pc[p] \notin {"out", "run"} => AllUp(n)

\* The places of the entries: in the order of the steps, after the parent's.
Places(p) ==
    /\ pool[p] # <<>> =>
         /\ Len(made[p]) = Len(pool[p])
         /\ made[p][1].step = 0
         /\ \A i, j \in DOMAIN pool[p] : i < j => made[p][i].step < made[p][j].step
         /\ \A i \in DOMAIN pool[p] : i # 1 =>
              /\ made[p][i].step \in Steps
              /\ made[p][i].from + 1 \in DOMAIN pool[p]
              /\ made[p][made[p][i].from + 1].step = program[made[p][i].step].on
         /\ \A i \in DOMAIN pool[p] :
              made[p][i].step =< step[p] \/ (made[p][i].step = Turn(p) /\ pc[p] = "barrier")
    /\ pc[p] = "barrier" => made[p][Len(pool[p])].step = Turn(p)
    /\ pool[p] = <<>> => /\ made[p] = <<[step |-> 0, from |-> Root]>>
                         /\ step[p] = 0 /\ handle[p] = <<Root>>

\* The handles: that of a step is its place, or -1; one that has been freed
\* is not used again.
Handles(p) ==
    pool[p] # <<>> => \A j \in 0..step[p] :
        \/ /\ handle[p][j + 1] >= 0 /\ handle[p][j + 1] + 1 \in DOMAIN pool[p]
           /\ made[p][handle[p][j + 1] + 1].step = j
        \/ /\ handle[p][j + 1] = -1
           /\ MadeAt(p, j) => \A k \in Steps : k > step[p] => program[k].on # j

Tables(n) ==
    /\ Types(n)
    /\ \A p \in Job(n) : Begins(n, p) /\ Places(p) /\ Handles(p)
    /\ \A p \in Procs \ Job(n) : pool[p] = <<>> /\ pc[p] = "out"

LEMMA OfEntry ==
    ASSUME NEW n, Tables(n), NEW p \in Job(n), NEW i \in DOMAIN pool[p]
    PROVE  MadeAt(p, made[p][i].step) /\ Of(p, made[p][i].step) = pool[p][i]
<1>1. pool[p] \in Seq(Communicators(n)) /\ made[p] \in Seq([step : Nat, from : Nat])
  BY DEF Tables, Types, Setting
<1>2. pool[p] # <<>> /\ Len(made[p]) = Len(pool[p])
  BY <1>1 DEF Tables, Places
<1>3. \A j \in DOMAIN pool[p] : made[p][j].step \in Nat /\ j \in Nat
  <2> TAKE j \in DOMAIN pool[p]
  <2>1. j \in 1..Len(made[p]) /\ j \in Nat
    BY <1>1, <1>2
  <2>2. made[p][j] \in [step : Nat, from : Nat]
    <3> DEFINE R == [step : Nat, from : Nat]
    <3>1. made[p] \in Seq(R)
      BY <1>1
    <3> HIDE DEF R
    <3>2. made[p][j] \in R
      BY <2>1, <3>1
    <3> QED
      BY <3>2 DEF R
  <2> QED
    BY <2>1, <2>2
<1>4. \A j \in DOMAIN pool[p] : made[p][j].step = made[p][i].step => j = i
  <2> TAKE j \in DOMAIN pool[p]
  <2>1. i < j => made[p][i].step < made[p][j].step
    BY <1>2 DEF Tables, Places
  <2>2. j < i => made[p][j].step < made[p][i].step
    BY <1>2 DEF Tables, Places
  <2> QED
    BY <2>1, <2>2, <1>3
<1> QED
  BY <1>4 DEF MadeAt, Of

LEMMA MadeBounds ==
    ASSUME NEW n, Tables(n), NEW p \in Job(n)
    PROVE  /\ \A k : MadeAt(p, k) => /\ k = 0 \/ k \in Steps
                                     /\ k =< step[p] \/ (k = Turn(p) /\ pc[p] = "barrier")
           /\ pool[p] # <<>> => MadeAt(p, 0) /\ Of(p, 0) = pool[p][1]
           /\ pc[p] = "barrier" => MadeAt(p, Turn(p))
           /\ step[p] \in Nat
<1>1. /\ pool[p] \in Seq(Communicators(n)) /\ made[p] \in Seq([step : Nat, from : Nat])
      /\ step[p] \in Nat
  BY DEF Tables, Types, Setting
<1>2. ASSUME NEW k, MadeAt(p, k)
      PROVE  /\ k = 0 \/ k \in Steps
             /\ k =< step[p] \/ (k = Turn(p) /\ pc[p] = "barrier")
  <2>1. PICK i \in DOMAIN pool[p] : made[p][i].step = k
    BY <1>2 DEF MadeAt
  <2>2. pool[p] # <<>>
    BY <1>1, <2>1
  <2> QED
    BY <2>1, <2>2 DEF Tables, Places
<1>3. pool[p] # <<>> => MadeAt(p, 0) /\ Of(p, 0) = pool[p][1]
  <2> HAVE pool[p] # <<>>
  <2>1. 1 \in DOMAIN pool[p] /\ made[p][1].step = 0
    BY <1>1 DEF Tables, Places
  <2> QED
    BY <2>1, OfEntry
<1>4. pc[p] = "barrier" => MadeAt(p, Turn(p))
  <2> HAVE pc[p] = "barrier"
  <2>1. pool[p] # <<>> /\ made[p][Len(pool[p])].step = Turn(p)
    BY DEF Tables, Begins, Places
  <2>2. Len(pool[p]) \in DOMAIN pool[p]
    BY <1>1, <2>1
  <2> QED
    BY <2>1, <2>2 DEF MadeAt
<1> QED
  BY <1>1, <1>2, <1>3, <1>4

\* A handle that is not -1 is the place of the entry of its step.
LEMMA HandleOf ==
    ASSUME NEW n, Tables(n), NEW p \in Job(n), pool[p] # <<>>, NEW j \in 0..step[p],
           handle[p][j + 1] >= 0
    PROVE  MadeAt(p, j) /\ Entry(p, handle[p][j + 1]) = Of(p, j)
<1>1. handle[p][j + 1] + 1 \in DOMAIN pool[p] /\ made[p][handle[p][j + 1] + 1].step = j
  BY DEF Tables, Handles
<1> QED
  BY <1>1, OfEntry DEF Entry

-----------------------------------------------------------------------------
(* What the entries are. *)

EntryRight(n, p, k) ==
    /\ WellFormed(n, p, Of(p, k))
    /\ k = 0 => Of(p, k) = RootEntry(p, n)
    /\ k # 0 => Calls(p, k) /\ Of(p, k) = SplitOf(n, p, Parent(p, k), k)

\* p has behind it exactly those calls that were its own.
CallsDone(p) == \A k \in Steps : k =< step[p] /\ Calls(p, k) => MadeAt(p, k)

\* Whoever is inside a call has one to make.
InCall(p) == Busy(p) => \E k \in Steps : Turn(p) = k /\ Calls(p, k)

\* Members of one communicator have the same.
AlikeAt(p, k) ==
    \A q \in Group(Of(p, k)) : MadeAt(q, k) => Alike(Of(p, k), Of(q, k))

\* Whoever has returned from the call: all members have made their entry.
MadeByAll(p, k) == k =< step[p] => \A q \in Together(p, k) : MadeAt(q, k)

\* Whoever has made its entry: all members are inside the call or past it.
BegunByAll(p, k) ==
    \A q \in Together(p, k) : step[q] >= k \/ (Turn(q) = k /\ Busy(q))

\* Rank 0 is the first to leave the barrier.
RootFirst(p, k) == k =< step[p] => step[RootOf(p, k)] >= k

Entries(n) ==
    \A p \in Job(n) :
        /\ CallsDone(p) /\ InCall(p)
        /\ \A k : MadeAt(p, k) =>
             /\ EntryRight(n, p, k) /\ AlikeAt(p, k)
             /\ k # 0 => MadeByAll(p, k) /\ BegunByAll(p, k) /\ RootFirst(p, k)

-----------------------------------------------------------------------------
(* What is on the way from p to q, oldest first: the answer of rank 0, which *)
(* may be in the next call already; the color and key of p; its report.      *)

Signal(k) == Message([color |-> UNDEFINED, key |-> 0], k)

\* Rank 0 has answered q in step k; p has sent its color and key to q, which
\* has not taken them; p has reported to rank 0, which has not answered.
Answered(p, q, k) == pc[q] = "barrier" /\ Turn(q) = k /\ RootOf(q, k) = p /\ step[p] >= k
Chosen(p, q, k) == Busy(p) /\ Turn(p) = k /\ q \in Together(p, k) /\ ~MadeAt(q, k)
Reported(p, q, k) == pc[p] = "barrier" /\ Turn(p) = k /\ RootOf(p, k) = q /\ step[q] < k

Answer(p, q) == IF \E k : Answered(p, q, k) THEN <<Signal(Turn(q))>> ELSE <<>>
Choice(p, q) ==
    IF \E k : Chosen(p, q, k) THEN <<Message(Config(p), Turn(p))>> ELSE <<>>
Report(p, q) == IF \E k : Reported(p, q, k) THEN <<Signal(Turn(p))>> ELSE <<>>

Wire(p, q) == chan[p][q] = Answer(p, q) \o (Choice(p, q) \o Report(p, q))

Wires(n) == \A p, q \in Job(n) : p # q => Wire(p, q)

IInv(n) == Tables(n) /\ Entries(n) /\ Wires(n)

-----------------------------------------------------------------------------
(* Consequences. *)

LEMMA StepFacts ==
    ASSUME NEW n, Tables(n), NEW k \in Steps
    PROVE  /\ k \in Nat \ {0} /\ program[k].on \in 0..(k - 1) /\ Len(program) \in Nat
<1>1. Setting(n)
  BY DEF Tables, Types
<1>2. Len(program) \in Nat /\ program[k].on \in 0..(k - 1)
  BY <1>1, ProgramRight
<1>3. k \in Nat \ {0}
  BY <1>2 DEF Steps
<1> QED
  BY <1>2, <1>3

\* The condition of the call, in terms of the steps.
LEMMA CalledIsCalls ==
    ASSUME NEW n, Tables(n), NEW p \in Job(n), pool[p] # <<>>, step[p] < Len(program)
    PROVE  /\ Turn(p) \in Steps
           /\ Now(p) = program[Turn(p)]
           /\ Called(p) <=> Calls(p, Turn(p))
           /\ Called(p) => Entry(p, From(p)) = Parent(p, Turn(p))
<1>1. step[p] \in Nat /\ Len(program) \in Nat
  BY MadeBounds, ProgramRight DEF Tables, Types
<1>2. Turn(p) \in Steps /\ Now(p) = program[Turn(p)]
  BY <1>1 DEF Turn, Steps, Now
<1> DEFINE j == program[Turn(p)].on
           h == handle[p][j + 1]
<1>3. j \in 0..step[p]
  BY <1>1, <1>2, StepFacts DEF Turn
<1>4. From(p) = h
  BY <1>2 DEF From
<1>5. h >= 0 => MadeAt(p, j) /\ Entry(p, h) = Of(p, j)
  BY <1>3, HandleOf
<1>6. h >= 0 \/ ~MadeAt(p, j)
  <2>1. Turn(p) > step[p]
    BY <1>1 DEF Turn
  <2>2. MadeAt(p, j) /\ h = -1 => FALSE
    BY <1>2, <1>3, <2>1 DEF Tables, Handles
  <2> QED
    BY <2>2, <1>3 DEF Tables, Handles
<1> HIDE DEF j, h
<1>7. Parent(p, Turn(p)) = Of(p, j)
  BY DEF Parent, j
<1>8. Called(p) <=> h >= 0 /\ Entry(p, h).color \in program[Turn(p)].who
  BY <1>2, <1>4 DEF Called
<1>9. Calls(p, Turn(p)) <=> MadeAt(p, j) /\ Of(p, j).color \in program[Turn(p)].who
  BY <1>7 DEF Calls, j
<1> QED
  BY <1>2, <1>4, <1>5, <1>6, <1>7, <1>8, <1>9

\* A parent, whose entry everybody who calls the step has.
LEMMA ParentRight ==
    ASSUME NEW n, Tables(n), Entries(n), NEW p \in Job(n), NEW k, Calls(p, k)
    PROVE  /\ WellFormed(n, p, Parent(p, k))
           /\ Together(p, k) \subseteq Job(n) /\ p \in Together(p, k)
           /\ RootOf(p, k) \in Together(p, k)
<1>1. WellFormed(n, p, Parent(p, k))
  BY DEF Calls, Parent, Entries, EntryRight
<1> QED
  BY <1>1, RootRanksInJob DEF Together, RootOf

LEMMA Peers ==
    ASSUME NEW n, Tables(n), Entries(n), AllUp(n), NEW p \in Job(n), NEW k \in Steps,
           k =< Turn(p), Calls(p, k), NEW q \in Together(p, k)
    PROVE  /\ q \in Job(n) /\ Calls(q, k)
           /\ Alike(Parent(p, k), Parent(q, k))
           /\ Together(q, k) = Together(p, k) /\ RootOf(q, k) = RootOf(p, k)
<1> DEFINE j == program[k].on
<1>1. q \in Job(n)
  BY ParentRight
<1>2. j \in 0..(k - 1) /\ k \in Nat /\ step[p] \in Nat
  BY StepFacts, MadeBounds
<1>3. j =< step[p] /\ MadeAt(p, j)
  BY <1>2 DEF Turn, Calls
<1>4. MadeAt(q, j)
  <2>1. CASE j = 0
    <3>1. pool[q] # <<>>
      BY <1>1 DEF AllUp
    <3> QED
      BY <2>1, <3>1, <1>1, MadeBounds
  <2>2. CASE j # 0
    <3>1. /\ Calls(p, j) /\ Of(p, j) = SplitOf(n, p, Parent(p, j), j)
          /\ \A r \in Together(p, j) : MadeAt(r, j)
      BY <2>2, <1>3 DEF Entries, EntryRight, MadeByAll
    <3>2. j \in Steps
      BY <1>2, <2>2 DEF Steps
    <3>3. WellFormed(n, p, Parent(p, j)) /\ Setting(n) /\ p \in Together(p, j)
      BY <3>1, ParentRight DEF Tables, Types
    <3>4. Group(Of(p, j)) = IF Of(p, j).color = UNDEFINED THEN {p}
             ELSE {r \in Together(p, j) : program[j].color[r] = Of(p, j).color}
      <4> HIDE DEF j
      <4> QED
        BY <3>1, <3>2, <3>3, SplitOfRight DEF Together
    <3>5. q \in Group(Of(p, j))
      BY DEF Together, Parent
    <3> QED
      BY <3>1, <3>3, <3>4, <3>5
  <2> QED
    BY <2>1, <2>2
<1>5. Alike(Of(p, j), Of(q, j))
  <2>1. AlikeAt(p, j)
    BY <1>3 DEF Entries
  <2> QED
    BY <2>1, <1>4 DEF AlikeAt, Together, Parent
<1>6. Alike(Parent(p, k), Parent(q, k))
  BY <1>5 DEF Parent
<1>7. Together(q, k) = Together(p, k) /\ RootOf(q, k) = RootOf(p, k)
  BY <1>6, AlikeGroups DEF Together, RootOf, Alike
<1>8. Calls(q, k)
  BY <1>4, <1>6 DEF Calls, Alike
<1> QED
  BY <1>1, <1>6, <1>7, <1>8

\* Somebody inside the call.
LEMMA BusyFacts ==
    ASSUME NEW n, Tables(n), Entries(n), NEW p \in Job(n), Busy(p)
    PROVE  /\ Turn(p) \in Steps /\ Calls(p, Turn(p)) /\ Now(p) = program[Turn(p)]
           /\ Entry(p, From(p)) = Parent(p, Turn(p))
           /\ Others(p, From(p)) = Together(p, Turn(p)) \ {p}
           /\ AllUp(n) /\ pool[p] # <<>> /\ step[p] < Len(program) /\ Called(p)
<1>1. pc[p] \notin {"out", "run"} /\ pc[p] # "out"
  BY DEF Busy
<1>2. AllUp(n) /\ pool[p] # <<>>
  BY <1>1 DEF Tables, Begins
<1>3. Turn(p) \in Steps /\ Calls(p, Turn(p)) /\ step[p] < Len(program)
  <2>1. Turn(p) \in Steps /\ Calls(p, Turn(p))
    BY DEF Entries, InCall
  <2>2. step[p] \in Nat /\ Len(program) \in Nat
    BY <2>1, MadeBounds, StepFacts
  <2> QED
    BY <2>1, <2>2 DEF Turn, Steps
<1>4. /\ Now(p) = program[Turn(p)] /\ Called(p)
      /\ Entry(p, From(p)) = Parent(p, Turn(p))
  BY <1>2, <1>3, CalledIsCalls
<1>5. Others(p, From(p)) = Together(p, Turn(p)) \ {p}
  BY <1>4 DEF Others, Together, Group
<1> QED
  BY <1>2, <1>3, <1>4, <1>5

\* An entry beyond the root communicator.
LEMMA MadeFacts ==
    ASSUME NEW n, Tables(n), Entries(n), NEW p \in Job(n), NEW k, MadeAt(p, k), k # 0
    PROVE  /\ k \in Steps /\ Calls(p, k) /\ k =< Turn(p) /\ AllUp(n)
           /\ k =< step[p] \/ (k = Turn(p) /\ pc[p] = "barrier")
<1>1. /\ k \in Steps /\ step[p] \in Nat
      /\ k =< step[p] \/ (k = Turn(p) /\ pc[p] = "barrier")
  BY MadeBounds
<1>2. k \in Nat \ {0}
  BY <1>1, StepFacts
<1>3. Calls(p, k)
  BY DEF Entries, EntryRight
<1>4. AllUp(n)
  BY <1>1, <1>2 DEF Tables, Begins
<1> QED
  BY <1>1, <1>2, <1>3, <1>4 DEF Turn

-----------------------------------------------------------------------------
(* What p takes. *)

LEMMA EmptyBefore == \A S : \A s \in Seq(S) : <<>> \o s = s /\ s \o <<>> = s
  OBVIOUS

LEMMA OneBefore ==
    ASSUME NEW S, NEW s \in Seq(S), NEW m \in S
    PROVE  /\ <<m>> \o s \in Seq(S) /\ <<m>> \o s # <<>>
           /\ Head(<<m>> \o s) = m /\ Tail(<<m>> \o s) = s
  OBVIOUS

LEMMA SignalTyped == \A k \in Nat : Signal(k) \in Messages
  BY DEF Signal, Messages, Message, Configs, UNDEFINED

LEMMA ConfigTyped ==
    ASSUME NEW n, Tables(n), Entries(n), NEW p \in Job(n), Busy(p)
    PROVE  /\ Message(Config(p), Turn(p)) \in Messages
           /\ Config(p) = [color |-> program[Turn(p)].color[p], key |-> program[Turn(p)].key[p]]
<1>1. Turn(p) \in Steps /\ Turn(p) \in Nat /\ Now(p) = program[Turn(p)]
  BY BusyFacts, StepFacts
<1>2. program[Turn(p)].color[p] \in Int /\ program[Turn(p)].key[p] \in Int
  BY <1>1, ProgramRight DEF Tables, Types
<1> QED
  BY <1>1, <1>2 DEF Config, Messages, Message, Configs

LEMMA PartsTyped ==
    ASSUME NEW n, Tables(n), Entries(n), NEW p \in Job(n), NEW q \in Job(n)
    PROVE  /\ Answer(p, q) \in Seq(Messages) /\ Choice(p, q) \in Seq(Messages)
           /\ Report(p, q) \in Seq(Messages)
           /\ Choice(p, q) \o Report(p, q) \in Seq(Messages)
<1>1. Signal(Turn(q)) \in Messages /\ Signal(Turn(p)) \in Messages
  BY MadeBounds, SignalTyped DEF Turn
<1>2. Answer(p, q) \in Seq(Messages)
  BY <1>1 DEF Answer, Answered
<1>3. Choice(p, q) \in Seq(Messages)
  BY ConfigTyped DEF Choice, Chosen
<1>4. Report(p, q) \in Seq(Messages)
  BY <1>1 DEF Report, Reported
<1> QED
  BY <1>2, <1>3, <1>4

\* Two members inside the same step are in one call of RDMA_Comm_split; one
\* that is behind it has the entry of the step.
LEMMA Partner ==
    ASSUME NEW n, Tables(n), Entries(n), NEW p \in Job(n), Busy(p),
           NEW q \in Together(p, Turn(p))
    PROVE  /\ q \in Job(n) /\ Calls(q, Turn(p)) /\ Together(q, Turn(p)) = Together(p, Turn(p))
           /\ RootOf(q, Turn(p)) = RootOf(p, Turn(p)) /\ p \in Together(q, Turn(p))
           /\ step[q] >= Turn(p) => MadeAt(q, Turn(p))
<1>1. /\ Turn(p) \in Steps /\ Calls(p, Turn(p)) /\ AllUp(n) /\ step[p] \in Nat
  BY BusyFacts, MadeBounds
<1>2. /\ q \in Job(n) /\ Calls(q, Turn(p)) /\ Together(q, Turn(p)) = Together(p, Turn(p))
      /\ RootOf(q, Turn(p)) = RootOf(p, Turn(p))
  BY <1>1, Peers DEF Turn
<1>3. p \in Together(p, Turn(p))
  BY <1>1, ParentRight
<1>4. step[q] >= Turn(p) => MadeAt(q, Turn(p))
  <2>1. CallsDone(q) /\ step[q] \in Nat
    BY <1>2, MadeBounds DEF Entries
  <2> QED
    BY <2>1, <1>1, <1>2 DEF CallsDone, Turn
<1> QED
  BY <1>2, <1>3, <1>4

\* Nobody has passed the barrier of a step as long as p gathers in it.
LEMMA NotPast ==
    ASSUME NEW n, Tables(n), Entries(n), NEW p \in Job(n), pc[p] = "gather",
           NEW q \in Together(p, Turn(p))
    PROVE  /\ step[q] =< step[p] /\ step[q] \in Nat /\ ~MadeAt(p, Turn(p))
           /\ RootOf(q, Turn(p)) = RootOf(p, Turn(p))
<1>1. Busy(p)
  BY DEF Busy
<1>2. q \in Job(n) /\ step[p] \in Nat /\ p \in Together(q, Turn(p))
      /\ RootOf(q, Turn(p)) = RootOf(p, Turn(p)) /\ Turn(p) \in Steps
  BY <1>1, Partner, BusyFacts, MadeBounds
<1>3. ~MadeAt(p, Turn(p))
  BY <1>2, MadeBounds DEF Turn
<1>4. ~(step[q] >= Turn(p))
  <2> SUFFICES ASSUME step[q] >= Turn(p) PROVE FALSE
    OBVIOUS
  <2>1. MadeAt(q, Turn(p)) /\ Turn(p) # 0
    BY <1>1, <1>2, Partner DEF Turn
  <2>2. MadeByAll(q, Turn(p))
    BY <2>1, <1>2 DEF Entries
  <2>3. MadeAt(p, Turn(p))
    BY <2>2, <1>2 DEF MadeByAll, Turn
  <2> QED
    BY <2>3, <1>3
<1>5. step[q] \in Nat
  BY <1>2, MadeBounds
<1> QED
  BY <1>2, <1>3, <1>4, <1>5 DEF Turn

\* In the all-gather p takes the color and key of the step from everybody.
LEMMA GatherFrom ==
    ASSUME NEW n, IInv(n), NEW p \in Job(n), pc[p] = "gather",
           NEW q \in Together(p, Turn(p)), q # p
    PROVE  /\ Answer(q, p) = <<>> /\ chan[q][p] = Choice(q, p) \o Report(q, p)
           /\ chan[q][p] # <<>> =>
                /\ Turn(q) = Turn(p) /\ Busy(q)
                /\ Choice(q, p) = <<Message(Config(q), Turn(p))>>
                /\ Head(chan[q][p]) = Message(Config(q), Turn(p))
                /\ Tail(chan[q][p]) = Report(q, p)
<1>1. Tables(n) /\ Entries(n) /\ Wires(n) /\ Busy(p)
  BY DEF IInv, Busy
<1>2. /\ step[q] =< step[p] /\ step[q] \in Nat /\ ~MadeAt(p, Turn(p)) /\ q \in Job(n)
      /\ step[p] \in Nat /\ AllUp(n)
  BY <1>1, NotPast, Partner, BusyFacts, MadeBounds
<1>3. Answer(q, p) = <<>>
  BY DEF Answer, Answered
<1>4. Choice(q, p) \in Seq(Messages) /\ Report(q, p) \in Seq(Messages)
      /\ Choice(q, p) \o Report(q, p) \in Seq(Messages)
  BY <1>1, <1>2, PartsTyped
<1>5. chan[q][p] = Choice(q, p) \o Report(q, p)
  BY <1>1, <1>2, <1>3, <1>4, EmptyBefore DEF Wires, Wire
<1>6. ASSUME chan[q][p] # <<>>
      PROVE  Turn(q) = Turn(p) /\ Busy(q) /\ p \in Together(q, Turn(q))
  <2>1. Choice(q, p) # <<>> \/ Report(q, p) # <<>>
    BY <1>4, <1>5, <1>6, EmptyBefore
  <2>2. Busy(q)
    BY <2>1 DEF Choice, Chosen, Report, Reported, Busy
  <2>3. Turn(q) \in Steps /\ Calls(q, Turn(q))
    BY <1>1, <1>2, <2>2, BusyFacts
  <2>4. p \in Together(q, Turn(q))
    BY <2>1, <2>3, <1>1, <1>2, ParentRight DEF Choice, Chosen, Report, Reported
  <2>5. ~MadeAt(p, Turn(q)) \/ step[p] < Turn(q)
    BY <2>1 DEF Choice, Chosen, Report, Reported
  <2>6. step[p] >= Turn(q) => MadeAt(p, Turn(q))
    BY <1>1, <1>2, <2>2, <2>4, Partner
  <2>7. step[p] < Turn(q)
    BY <2>5, <2>6, <1>2 DEF Turn
  <2> QED
    BY <2>2, <2>4, <2>7, <1>2 DEF Turn
<1>7. ASSUME chan[q][p] # <<>>
      PROVE  /\ Choice(q, p) = <<Message(Config(q), Turn(p))>>
             /\ Message(Config(q), Turn(p)) \in Messages
  <2>1. Turn(q) = Turn(p) /\ Busy(q) /\ p \in Together(q, Turn(q))
    BY <1>6, <1>7
  <2> QED
    BY <2>1, <1>1, <1>2, ConfigTyped DEF Choice, Chosen
<1>8. ASSUME chan[q][p] # <<>>
      PROVE  Head(chan[q][p]) = Message(Config(q), Turn(p)) /\ Tail(chan[q][p]) = Report(q, p)
  <2> DEFINE m == Message(Config(q), Turn(p))
             report == Report(q, p)
  <2>1. report \in Seq(Messages) /\ m \in Messages /\ chan[q][p] = <<m>> \o report
    BY <1>4, <1>5, <1>7, <1>8
  <2> HIDE DEF m, report
  <2>2. Head(chan[q][p]) = m /\ Tail(chan[q][p]) = report
    BY <2>1, OneBefore
  <2> QED
    BY <2>2 DEF m, report
<1> QED
  BY <1>3, <1>5, <1>6, <1>7, <1>8

\* Rank 0 takes the reports of the step.
LEMMA ReportFrom ==
    ASSUME NEW n, IInv(n), NEW p \in Job(n), pc[p] = "barrier", RootOf(p, Turn(p)) = p,
           NEW q \in Together(p, Turn(p)), q # p
    PROVE  /\ Answer(q, p) = <<>> /\ Choice(q, p) = <<>> /\ chan[q][p] = Report(q, p)
           /\ chan[q][p] # <<>> =>
                /\ Turn(q) = Turn(p) /\ pc[q] = "barrier"
                /\ chan[q][p] = <<Signal(Turn(p))>>
<1>1. Tables(n) /\ Entries(n) /\ Wires(n) /\ Busy(p)
  BY DEF IInv, Busy
<1>2. /\ q \in Job(n) /\ step[p] \in Nat /\ step[q] \in Nat /\ AllUp(n)
      /\ Turn(p) \in Steps /\ MadeAt(p, Turn(p)) /\ p \in Together(q, Turn(p))
      /\ RootOf(q, Turn(p)) = p
  <2>1. q \in Job(n) /\ p \in Together(q, Turn(p)) /\ RootOf(q, Turn(p)) = p
    BY <1>1, Partner
  <2> QED
    BY <2>1, <1>1, BusyFacts, MadeBounds
<1>3. Answer(q, p) = <<>>
  BY DEF Answer, Answered
\* q, not rank 0, has not passed the step before rank 0.
<1>4. step[q] =< step[p]
  <2> SUFFICES ASSUME ~(step[q] =< step[p]) PROVE FALSE
    OBVIOUS
  <2>1. step[q] >= Turn(p) /\ Turn(p) # 0
    BY <1>2 DEF Turn
  <2>2. MadeAt(q, Turn(p))
    BY <2>1, <1>1, Partner
  <2>3. RootFirst(q, Turn(p))
    BY <2>1, <2>2, <1>1, <1>2 DEF Entries
  <2>4. step[p] >= Turn(p)
    BY <2>1, <2>3, <1>2 DEF RootFirst, Turn
  <2> QED
    BY <2>4, <1>2 DEF Turn
<1>5. Busy(q) /\ p \in Together(q, Turn(q)) => MadeAt(p, Turn(q))
  <2> SUFFICES ASSUME Busy(q), p \in Together(q, Turn(q)) PROVE MadeAt(p, Turn(q))
    OBVIOUS
  <2>1. CASE step[q] = step[p]
    BY <2>1, <1>2 DEF Turn
  <2>2. CASE step[q] # step[p]
    <3>1. step[p] >= Turn(q)
      BY <2>2, <1>2, <1>4 DEF Turn
    <3> QED
      BY <3>1, <1>1, <1>2, Partner
  <2> QED
    BY <2>1, <2>2
<1>6. Choice(q, p) = <<>>
  BY <1>5 DEF Choice, Chosen
<1>7. Report(q, p) \in Seq(Messages)
  BY <1>1, <1>2, PartsTyped
<1>8. chan[q][p] = Report(q, p)
  <2>1. chan[q][p] = <<>> \o (<<>> \o Report(q, p))
    BY <1>1, <1>2, <1>3, <1>6 DEF Wires, Wire
  <2> QED
    BY <2>1, <1>7, EmptyBefore
<1>9. ASSUME Report(q, p) # <<>>
      PROVE  /\ Turn(q) = Turn(p) /\ pc[q] = "barrier"
             /\ Report(q, p) = <<Signal(Turn(p))>>
  <2>1. /\ pc[q] = "barrier" /\ step[p] < Turn(q)
        /\ Report(q, p) = <<Signal(Turn(q))>>
    BY <1>9 DEF Report, Reported
  <2>2. step[q] = step[p]
    BY <2>1, <1>2, <1>4 DEF Turn
  <2> QED
    BY <2>1, <2>2 DEF Turn
<1> QED
  BY <1>3, <1>6, <1>8, <1>9

\* The others take the answer of rank 0.
LEMMA AnswerFrom ==
    ASSUME NEW n, IInv(n), NEW p \in Job(n), pc[p] = "barrier",
           NEW r, r = RootOf(p, Turn(p)), r # p
    PROVE  /\ r \in Job(n) /\ r \in Together(p, Turn(p))
           /\ chan[r][p] # <<>> =>
                /\ step[r] >= Turn(p) /\ MadeAt(r, Turn(p))
                /\ Head(chan[r][p]) = Signal(Turn(p))
                /\ Tail(chan[r][p]) = Choice(r, p) \o Report(r, p)
<1>1. Tables(n) /\ Entries(n) /\ Wires(n) /\ Busy(p)
  BY DEF IInv, Busy
<1>2. r \in Together(p, Turn(p)) /\ Turn(p) \in Steps /\ AllUp(n) /\ MadeAt(p, Turn(p))
      /\ step[p] \in Nat
  BY <1>1, BusyFacts, ParentRight, MadeBounds
<1>3. r \in Job(n) /\ RootOf(r, Turn(p)) = r /\ step[r] \in Nat
  BY <1>1, <1>2, Partner, MadeBounds
<1>4. Choice(r, p) \o Report(r, p) \in Seq(Messages) /\ Choice(r, p) \in Seq(Messages)
      /\ Report(r, p) \in Seq(Messages)
  BY <1>1, <1>3, PartsTyped
<1>5. ASSUME chan[r][p] # <<>>
      PROVE  step[r] >= Turn(p)
  <2> SUFFICES ASSUME ~(step[r] >= Turn(p)) PROVE FALSE
    OBVIOUS
  <2>1. step[r] =< step[p] /\ Answer(r, p) = <<>>
    BY <1>2, <1>3 DEF Turn, Answer, Answered
  <2>2. Choice(r, p) = <<>>
    <3> SUFFICES ASSUME Busy(r), p \in Together(r, Turn(r)), ~MadeAt(p, Turn(r)) PROVE FALSE
      BY DEF Choice, Chosen
    <3>1. ~(step[p] >= Turn(r))
      BY <1>1, <1>3, Partner
    <3>2. Turn(r) = Turn(p)
      BY <3>1, <2>1, <1>2, <1>3 DEF Turn
    <3> QED
      BY <3>2, <1>2
  <2>3. Report(r, p) = <<>>
    <3> SUFFICES ASSUME pc[r] = "barrier", RootOf(r, Turn(r)) = p, step[p] < Turn(r)
                 PROVE  FALSE
      BY DEF Report, Reported
    <3>1. Turn(r) = Turn(p)
      BY <2>1, <1>2, <1>3 DEF Turn
    <3> QED
      BY <3>1, <1>3
  <2>4. chan[r][p] = <<>> \o (<<>> \o <<>>)
    BY <2>1, <2>2, <2>3, <1>1, <1>3 DEF Wires, Wire
  <2> QED
    BY <2>4, <1>5
<1>6. step[r] >= Turn(p) => MadeAt(r, Turn(p))
  BY <1>1, <1>2, Partner
<1>7. step[r] >= Turn(p) => Answer(r, p) = <<Signal(Turn(p))>>
  BY DEF Answer, Answered
<1>8. Signal(Turn(p)) \in Messages
  BY <1>2, SignalTyped DEF Turn
<1>9. chan[r][p] = Answer(r, p) \o (Choice(r, p) \o Report(r, p))
  BY <1>1, <1>3 DEF Wires, Wire
<1>10. ASSUME step[r] >= Turn(p)
       PROVE  /\ Head(chan[r][p]) = Signal(Turn(p))
              /\ Tail(chan[r][p]) = Choice(r, p) \o Report(r, p)
  <2> DEFINE rest == Choice(r, p) \o Report(r, p)
  <2>1. chan[r][p] = <<Signal(Turn(p))>> \o rest
    BY <1>7, <1>9, <1>10
  <2>2. rest \in Seq(Messages)
    BY <1>4
  <2> HIDE DEF rest
  <2>3. Head(chan[r][p]) = Signal(Turn(p)) /\ Tail(chan[r][p]) = rest
    BY <2>1, <2>2, <1>8, OneBefore
  <2> QED
    BY <2>3 DEF rest
<1> QED
  BY <1>2, <1>3, <1>5, <1>6, <1>10

\* NoMixup holds of every process of the job.
LEMMA InvNoMixup ==
    ASSUME NEW n, IInv(n), NEW p \in Job(n), Busy(p), NEW q \in Awaited(p), chan[q][p] # <<>>
    PROVE  Head(chan[q][p]).step = step[p] + 1
<1>1. Tables(n) /\ Entries(n)
  BY DEF IInv
<1>2. /\ Entry(p, From(p)) = Parent(p, Turn(p))
      /\ Others(p, From(p)) = Together(p, Turn(p)) \ {p}
      /\ step[p] \in Nat
  BY <1>1, BusyFacts, MadeBounds
<1>3. Awaited(p) = IF pc[p] = "gather" \/ p = RootOf(p, Turn(p))
                    THEN Together(p, Turn(p)) \ {p} ELSE {RootOf(p, Turn(p))}
  BY <1>2 DEF Awaited, RootOf
<1>4. CASE pc[p] = "gather"
  <2>1. Head(chan[q][p]) = Message(Config(q), Turn(p))
    BY <1>3, <1>4, GatherFrom
  <2> QED
    BY <2>1 DEF Message, Turn
<1>5. CASE pc[p] = "barrier" /\ RootOf(p, Turn(p)) = p
  <2>1. chan[q][p] = <<Signal(Turn(p))>>
    BY <1>3, <1>5, ReportFrom
  <2> QED
    BY <2>1 DEF Signal, Message, Turn
<1>6. CASE pc[p] = "barrier" /\ RootOf(p, Turn(p)) # p
  <2>1. Head(chan[q][p]) = Signal(Turn(p))
    BY <1>3, <1>6, AnswerFrom
  <2> QED
    BY <2>1 DEF Signal, Message, Turn
<1> QED
  BY <1>4, <1>5, <1>6 DEF Busy

-----------------------------------------------------------------------------
(* Steps that make no entry leave the tables as they are. *)

LEMMA NothingMade ==
    ASSUME UNCHANGED <<program, pool, made>>
    PROVE  \A q, k : /\ MadeAt(q, k)' = MadeAt(q, k) /\ Of(q, k)' = Of(q, k)
                     /\ Parent(q, k)' = Parent(q, k) /\ Calls(q, k)' = Calls(q, k)
                     /\ Together(q, k)' = Together(q, k) /\ RootOf(q, k)' = RootOf(q, k)
<1>1. \A q, k : MadeAt(q, k)' = MadeAt(q, k)
  BY DEF MadeAt
<1>2. \A q, k : Of(q, k)' = Of(q, k)
  BY DEF Of
<1>3. \A q, k : Parent(q, k)' = Parent(q, k)
  BY <1>2 DEF Parent
<1>4. \A q, k : Calls(q, k)' = Calls(q, k)
  BY <1>1, <1>3 DEF Calls
<1>5. \A q, k : Together(q, k)' = Together(q, k) /\ RootOf(q, k)' = RootOf(q, k)
  BY <1>3 DEF Together, RootOf, Group
<1> QED
  BY <1>1, <1>2, <1>3, <1>4, <1>5

LEMMA WorldOf ==
    ASSUME NEW n, Tables(n), Entries(n), NEW p \in Job(n), pool[p] # <<>>
    PROVE  World(p) = n
<1>1. pool[p] # <<>> /\ MadeAt(p, 0) /\ Of(p, 0) = pool[p][1]
  BY MadeBounds
<1>2. Of(p, 0) = RootEntry(p, n)
  BY <1>1 DEF Entries, EntryRight
<1>3. World(p) = n
  <2>1. Len([i \in 1..n |-> i - 1]) = n
    BY DEF Tables, Types, Setting
  <2>2. World(p) = RootEntry(p, n).commWorldSize
    BY <1>1, <1>2 DEF World
  <2>3. RootEntry(p, n).commWorldSize = Len([i \in 1..n |-> i - 1])
    BY DEF RootEntry, Communicator
  <2> QED
    BY <2>1, <2>2, <2>3
<1> QED
  BY <1>3

LEMMA ConnectedIsUp ==
    ASSUME NEW n, Tables(n), Entries(n), NEW p \in Job(n), Connected(p)
    PROVE  AllUp(n) /\ pc[p] # "out"
<1>1. pool[p] # <<>> /\ World(p) = n
  BY WorldOf DEF Connected
<1> QED
  BY <1>1 DEF Connected, AllUp, Job, Tables, Begins

\* The next step of p: a handle more.
LEMMA NextStepFacts ==
    ASSUME NEW n, Tables(n), NEW p \in Job(n), NEW h \in Int, NextStep(p, h),
           step[p] < Len(program)
    PROVE  /\ step' \in [Procs -> Nat] /\ handle' \in [Procs -> Seq(Int)]
           /\ \A q \in Procs : step'[q] =< Len(program) /\ Len(handle'[q]) = step'[q] + 1
           /\ step'[p] = Turn(p) /\ handle'[p][Turn(p) + 1] = h
           /\ \A j \in 0..step[p] : handle'[p][j + 1] = handle[p][j + 1]
           /\ \A q \in Procs : q # p => step'[q] = step[q] /\ handle'[q] = handle[q]
<1>1. /\ p \in Procs /\ step \in [Procs -> Nat] /\ handle \in [Procs -> Seq(Int)]
      /\ \A q \in Procs : step[q] =< Len(program) /\ Len(handle[q]) = step[q] + 1
      /\ Len(program) \in Nat
  BY ProgramRight DEF Tables, Types, Setting
<1>2. /\ step' = [step EXCEPT ![p] = step[p] + 1]
      /\ handle' = [handle EXCEPT ![p] = Append(handle[p], h)]
  BY <1>1 DEF NextStep
<1>3. /\ Append(handle[p], h) \in Seq(Int) /\ Len(Append(handle[p], h)) = step[p] + 2
      /\ Append(handle[p], h)[step[p] + 2] = h
      /\ \A j \in 0..step[p] : Append(handle[p], h)[j + 1] = handle[p][j + 1]
  <2> DEFINE s == handle[p]
             c == step[p]
  <2>1. s \in Seq(Int) /\ Len(s) = c + 1 /\ c \in Nat
    BY <1>1
  <2> HIDE DEF s, c
  <2>2. /\ Append(s, h) \in Seq(Int) /\ Len(Append(s, h)) = c + 2
        /\ Append(s, h)[c + 2] = h /\ \A j \in 0..c : Append(s, h)[j + 1] = s[j + 1]
    BY <2>1
  <2> QED
    BY <2>2 DEF s, c
<1>4. /\ step'[p] = step[p] + 1 /\ handle'[p] = Append(handle[p], h)
      /\ \A q \in Procs : q # p => step'[q] = step[q] /\ handle'[q] = handle[q]
  BY <1>1, <1>2
<1>5. step' \in [Procs -> Nat] /\ handle' \in [Procs -> Seq(Int)]
  <2>1. step[p] + 1 \in Nat
    BY <1>1
  <2> QED
    BY <2>1, <1>1, <1>2, <1>3
<1>6. ASSUME NEW q \in Procs
      PROVE  step'[q] =< Len(program) /\ Len(handle'[q]) = step'[q] + 1
  <2>1. CASE q = p
    BY <2>1, <1>1, <1>3, <1>4
  <2>2. CASE q # p
    BY <2>2, <1>1, <1>4
  <2> QED
    BY <2>1, <2>2
<1>7. Turn(p) + 1 = step[p] + 2 /\ Turn(p) = step[p] + 1
  BY <1>1 DEF Turn
<1> QED
  BY <1>3, <1>4, <1>5, <1>6, <1>7

\* A process whose variables do not change.
LEMMA TablesOfOthers ==
    ASSUME NEW q, Places(q), Handles(q), program' = program,
           pool'[q] = pool[q], made'[q] = made[q], step'[q] = step[q], pc'[q] = pc[q],
           handle'[q] = handle[q]
    PROVE  Places(q)' /\ Handles(q)'
<1>1. Places(q)'
  BY DEF Places, Turn, Steps
<1>2. Handles(q)'
  BY DEF Handles, MadeAt, Steps
<1> QED
  BY <1>1, <1>2

\* What a step of p, in a job that is all there, has to keep.
LEMMA TablesByStep ==
    ASSUME NEW n, Tables(n), AllUp(n), NEW p \in Job(n), Types(n)',
           UNCHANGED <<program, tie>>, Places(p)', Handles(p)',
           pool'[p] # <<>>, pc'[p] # "out",
           \A q \in Procs \ {p} : /\ pool'[q] = pool[q] /\ made'[q] = made[q]
                                  /\ step'[q] = step[q] /\ pc'[q] = pc[q]
                                  /\ handle'[q] = handle[q]
    PROVE  Tables(n)' /\ AllUp(n)'
<1>1. Job(n) \subseteq Procs
  BY DEF Tables, Types, Setting
<1>2. \A q \in Job(n) : pool'[q] # <<>> /\ pc'[q] # "out"
  BY <1>1 DEF AllUp, Tables, Begins
<1>3. AllUp(n)'
  BY <1>2 DEF AllUp
<1>4. \A q \in Job(n) : Begins(n, q)'
  BY <1>2, <1>3 DEF Begins
<1>5. ASSUME NEW q \in Job(n) PROVE Places(q)' /\ Handles(q)'
  <2>1. CASE q = p
    BY <2>1
  <2>2. CASE q # p
    <3>1. q \in Procs \ {p} /\ Places(q) /\ Handles(q)
      BY <2>2, <1>1 DEF Tables
    <3> QED
      BY <3>1, TablesOfOthers
  <2> QED
    BY <2>1, <2>2
<1>6. \A q \in Procs \ Job(n) : pool'[q] = <<>> /\ pc'[q] = "out"
  BY DEF Tables
<1> QED
  BY <1>3, <1>4, <1>5, <1>6 DEF Tables

\* The channels of p after it has sent something.
LEMMA SentFacts ==
    ASSUME NEW n, Tables(n), NEW p \in Job(n), NEW to, NEW m \in Messages, Sent(p, to, m)
    PROVE  /\ chan' \in [Procs -> [Procs -> Seq(Messages)]]
           /\ \A a, b \in Procs : chan'[a][b] = IF a = p /\ b \in to THEN Append(chan[a][b], m)
                                                  ELSE chan[a][b]
<1>1. p \in Procs /\ chan \in [Procs -> [Procs -> Seq(Messages)]]
  BY DEF Tables, Types, Setting
<1> DEFINE row == [q \in Procs |-> IF q \in to THEN Append(chan[p][q], m) ELSE chan[p][q]]
<1>2. chan' = [chan EXCEPT ![p] = row]
  BY <1>1 DEF Sent
<1>3. row \in [Procs -> Seq(Messages)]
  <2>1. \A q \in Procs : chan[p][q] \in Seq(Messages)
    BY <1>1
  <2>2. \A q \in Procs : Append(chan[p][q], m) \in Seq(Messages)
    BY <2>1
  <2> QED
    BY <2>1, <2>2
<1>4. chan' \in [Procs -> [Procs -> Seq(Messages)]]
  <2> HIDE DEF row
  <2> QED
    BY <1>1, <1>2, <1>3
<1>5. chan'[p] = row /\ \A a \in Procs : a # p => chan'[a] = chan[a]
  <2> HIDE DEF row
  <2> QED
    BY <1>1, <1>2
<1> QED
  BY <1>4, <1>5

LEMMA SkipTables ==
    ASSUME NEW n, Tables(n), Entries(n), NEW p \in Job(n), AllUp(n), Skip(p)
    PROVE  Tables(n)' /\ AllUp(n)'
<1>1. /\ pc[p] = "run" /\ step[p] < Len(program) /\ NextStep(p, -1)
      /\ UNCHANGED <<program, tie, pool, pc, chan, made>>
  BY DEF Skip
<1>2. p \in Procs /\ pool[p] # <<>> /\ Places(p) /\ Handles(p) /\ step[p] \in Nat
  BY MadeBounds DEF Tables, Types, Setting, AllUp
<1>3. /\ step' \in [Procs -> Nat] /\ handle' \in [Procs -> Seq(Int)]
      /\ \A q \in Procs : step'[q] =< Len(program) /\ Len(handle'[q]) = step'[q] + 1
      /\ step'[p] = Turn(p) /\ handle'[p][Turn(p) + 1] = -1
      /\ \A j \in 0..step[p] : handle'[p][j + 1] = handle[p][j + 1]
      /\ \A q \in Procs : q # p => step'[q] = step[q] /\ handle'[q] = handle[q]
  BY <1>1, NextStepFacts
<1>4. Types(n)'
  BY <1>1, <1>3 DEF Tables, Types, Setting
<1>5. \A q, k : MadeAt(q, k)' = MadeAt(q, k)
  BY <1>1, NothingMade
<1>6. Places(p)'
  <2>1. ASSUME NEW i \in DOMAIN pool[p] PROVE made[p][i].step =< Turn(p)
    <3>1. made[p][i].step =< step[p] /\ MadeAt(p, made[p][i].step)
      BY <1>1, <1>2, OfEntry DEF Places
    <3>2. made[p][i].step \in Nat
      BY <3>1, MadeBounds, StepFacts
    <3> QED
      BY <3>1, <3>2, <1>2 DEF Turn
  <2> QED
    BY <2>1, <1>1, <1>2, <1>3 DEF Places, Turn, Steps
<1>7. Handles(p)'
  <2> SUFFICES ASSUME NEW j \in 0..step'[p]
               PROVE  \/ /\ handle'[p][j + 1] >= 0 /\ handle'[p][j + 1] + 1 \in DOMAIN pool[p]
                         /\ made[p][handle'[p][j + 1] + 1].step = j
                      \/ /\ handle'[p][j + 1] = -1
                         /\ MadeAt(p, j) => \A k \in Steps : k > step'[p] => program[k].on # j
    BY <1>1, <1>5 DEF Handles, Steps
  <2>1. CASE j \in 0..step[p]
    <3>1. handle'[p][j + 1] = handle[p][j + 1]
      BY <2>1, <1>3
    <3>2. \A k \in Steps : k > step'[p] => k > step[p]
      BY <1>2, <1>3, StepFacts DEF Turn
    <3> QED
      BY <2>1, <3>1, <3>2, <1>2 DEF Handles
  <2>2. CASE j \notin 0..step[p]
    <3>1. j = Turn(p)
      BY <2>2, <1>2, <1>3 DEF Turn
    <3>2. ~MadeAt(p, j)
      BY <3>1, <1>1, <1>2, MadeBounds DEF Turn
    <3> QED
      BY <3>1, <3>2, <1>3
  <2> QED
    BY <2>1, <2>2
<1> QED
  BY <1>1, <1>2, <1>3, <1>4, <1>6, <1>7, TablesByStep

LEMMA CommSplitTables ==
    ASSUME NEW n, Tables(n), Entries(n), NEW p \in Job(n), AllUp(n), CommSplit(p)
    PROVE  Tables(n)' /\ AllUp(n)'
<1>1. /\ pc[p] = "run" /\ step[p] < Len(program) /\ Called(p)
      /\ UNCHANGED <<program, tie, pool, handle, step, made>>
      /\ p \in Procs /\ pool[p] # <<>> /\ Places(p) /\ Handles(p)
  BY DEF CommSplit, Tables, Types, Setting, AllUp
<1>2. Turn(p) \in Steps /\ Now(p) = program[Turn(p)] /\ step[p] \in Nat
  BY <1>1, CalledIsCalls, MadeBounds
<1>3. Message(Config(p), step[p] + 1) \in Messages
  <2>1. program[Turn(p)].color[p] \in Int /\ program[Turn(p)].key[p] \in Int
    BY <1>2, ProgramRight DEF Tables, Types
  <2> QED
    BY <2>1, <1>2 DEF Config, Message, Messages, Configs, Turn
<1>4. /\ chan' \in [Procs -> [Procs -> Seq(Messages)]]
      /\ pc' = [pc EXCEPT ![p] = "gather"] \/ pc' = [pc EXCEPT ![p] = "crashed"]
  <2>1. CASE Others(p, From(p)) = {}
    BY <2>1 DEF CommSplit, Tables, Types
  <2>2. CASE Others(p, From(p)) # {}
    BY <2>2, <1>3, SentFacts DEF CommSplit
  <2> QED
    BY <2>1, <2>2
<1>5. /\ pc' \in [Procs -> {"out", "run", "gather", "barrier", "crashed"}]
      /\ pc'[p] \in {"gather", "crashed"} /\ \A q \in Procs \ {p} : pc'[q] = pc[q]
  BY <1>1, <1>4 DEF Tables, Types
<1>6. Types(n)'
  BY <1>1, <1>4, <1>5 DEF Tables, Types, Setting
<1>7. Places(p)'
  BY <1>1, <1>5 DEF Places, Turn, Steps
<1>8. Handles(p)'
  BY <1>1 DEF Handles, MadeAt, Steps
<1> QED
  BY <1>1, <1>5, <1>6, <1>7, <1>8, TablesByStep

\* The channels after p has taken a message from each of a set of processes.
LEMMA ReceivedFacts ==
    ASSUME NEW n, Tables(n), NEW p \in Job(n), NEW from \in SUBSET Procs,
           \A q \in from : chan[q][p] # <<>>
    PROVE  /\ Received(p, from, chan) \in [Procs -> [Procs -> Seq(Messages)]]
           /\ \A a, b \in Procs : Received(p, from, chan)[a][b] =
                IF a \in from /\ b = p THEN Tail(chan[a][b]) ELSE chan[a][b]
<1>1. p \in Procs /\ chan \in [Procs -> [Procs -> Seq(Messages)]]
  BY DEF Tables, Types, Setting
<1> DEFINE left == Received(p, from, chan)
<1>2. \A a \in Procs : left[a] = IF a \in from THEN [chan[a] EXCEPT ![p] = Tail(chan[a][p])]
                                   ELSE chan[a]
  BY DEF Received
<1>3. DOMAIN left = Procs /\ left = [a \in Procs |-> left[a]]
  BY DEF Received
<1> HIDE DEF left
<1>4. ASSUME NEW a \in Procs
      PROVE  /\ left[a] \in [Procs -> Seq(Messages)]
             /\ \A b \in Procs : left[a][b] =
                  IF a \in from /\ b = p THEN Tail(chan[a][b]) ELSE chan[a][b]
  <2>1. chan[a] \in [Procs -> Seq(Messages)]
    BY <1>1
  <2>2. CASE a \in from
    <3>1. Tail(chan[a][p]) \in Seq(Messages)
      BY <1>1, <2>1, <2>2
    <3>2. left[a] = [chan[a] EXCEPT ![p] = Tail(chan[a][p])]
      BY <1>2, <2>2
    <3> QED
      BY <1>1, <2>1, <2>2, <3>1, <3>2
  <2>3. CASE a \notin from
    BY <1>2, <2>1, <2>3
  <2> QED
    BY <2>2, <2>3
<1>5. left \in [Procs -> [Procs -> Seq(Messages)]]
  BY <1>3, <1>4
<1> QED
  BY <1>4, <1>5 DEF left

\* Those whose messages p takes.
LEMMA AwaitedFacts ==
    ASSUME NEW n, Tables(n), Entries(n), NEW p \in Job(n), Busy(p)
    PROVE  /\ Awaited(p) = IF pc[p] = "gather" \/ p = RootOf(p, Turn(p))
                             THEN Together(p, Turn(p)) \ {p} ELSE {RootOf(p, Turn(p))}
           /\ Awaited(p) \in SUBSET Procs /\ p \notin Awaited(p)
<1>1. /\ Entry(p, From(p)) = Parent(p, Turn(p))
      /\ Others(p, From(p)) = Together(p, Turn(p)) \ {p}
      /\ Calls(p, Turn(p))
  BY BusyFacts
<1>2. Together(p, Turn(p)) \subseteq Job(n) /\ RootOf(p, Turn(p)) \in Together(p, Turn(p))
  BY <1>1, ParentRight
<1>3. Job(n) \subseteq Procs
  BY DEF Tables, Types, Setting
<1>4. Awaited(p) = IF pc[p] = "gather" \/ p = RootOf(p, Turn(p))
                    THEN Together(p, Turn(p)) \ {p} ELSE {RootOf(p, Turn(p))}
  BY <1>1 DEF Awaited, RootOf
<1> QED
  BY <1>2, <1>3, <1>4

\* The channels after the end of the barrier.
BarrierWires(p) ==
    \A a, b \in Procs : chan'[a][b] =
        IF a \in Awaited(p) /\ b = p THEN Tail(chan[a][b])
        ELSE IF a = p /\ RootOf(p, Turn(p)) = p /\ b \in Awaited(p)
             THEN Append(chan[a][b], Signal(Turn(p)))
        ELSE chan[a][b]

LEMMA BarrierChan ==
    ASSUME NEW n, Tables(n), Entries(n), NEW p \in Job(n), Barrier(p)
    PROVE  chan' \in [Procs -> [Procs -> Seq(Messages)]] /\ BarrierWires(p)
<1> DEFINE left == Received(p, Awaited(p), chan)
           root == RootOf(p, Turn(p))
           row == [q \in Procs |-> IF q \in Awaited(p) THEN Append(left[p][q], Signal(Turn(p)))
                                     ELSE left[p][q]]
<1>1. Busy(p) /\ p \in Procs
  BY DEF Barrier, Busy, Tables, Types, Setting
<1>2. Entry(p, From(p)) = Parent(p, Turn(p)) /\ step[p] \in Nat
  BY <1>1, BusyFacts, MadeBounds
<1>3. Awaited(p) \in SUBSET Procs /\ p \notin Awaited(p) /\ \A q \in Awaited(p) : chan[q][p] # <<>>
  BY <1>1, AwaitedFacts DEF Barrier
<1>4. chan' = IF p # root THEN left ELSE [left EXCEPT ![p] = row]
  BY <1>2 DEF Barrier, RootOf, Signal, Turn
<1>5. /\ left \in [Procs -> [Procs -> Seq(Messages)]]
      /\ \A a, b \in Procs : left[a][b] =
           IF a \in Awaited(p) /\ b = p THEN Tail(chan[a][b]) ELSE chan[a][b]
  BY <1>3, ReceivedFacts
<1>6. Signal(Turn(p)) \in Messages
  BY <1>2, SignalTyped DEF Turn
<1> HIDE DEF left, root
<1>7. row \in [Procs -> Seq(Messages)]
  <2>1. ASSUME NEW q \in Procs
        PROVE  left[p][q] \in Seq(Messages) /\ Append(left[p][q], Signal(Turn(p))) \in Seq(Messages)
    <3>1. left[p][q] \in Seq(Messages)
      BY <1>1, <1>5
    <3> QED
      BY <3>1, <1>6
  <2> QED
    BY <2>1
<1>8. CASE p # root
  <2>1. chan' = left
    BY <1>4, <1>8
  <2> QED
    BY <2>1, <1>5, <1>8 DEF BarrierWires, root
<1>9. CASE p = root
  <2>1. chan' = [left EXCEPT ![p] = row]
    BY <1>4, <1>9
  <2>2. chan' \in [Procs -> [Procs -> Seq(Messages)]] /\ chan'[p] = row
        /\ \A a \in Procs : a # p => chan'[a] = left[a]
    <3> HIDE DEF row
    <3> QED
      BY <2>1, <1>1, <1>5, <1>7
  <2>3. ASSUME NEW a \in Procs, NEW b \in Procs
        PROVE  chan'[a][b] = IF a \in Awaited(p) /\ b = p THEN Tail(chan[a][b])
                             ELSE IF a = p /\ b \in Awaited(p)
                                  THEN Append(chan[a][b], Signal(Turn(p)))
                             ELSE chan[a][b]
    <3>1. CASE a = p
      <4>1. left[p][b] = chan[p][b]
        BY <1>1, <1>3, <1>5
      <4> QED
        BY <4>1, <3>1, <2>2, <1>3
    <3>2. CASE a # p
      BY <3>2, <2>2, <1>5
    <3> QED
      BY <3>1, <3>2
  <2> QED
    BY <2>2, <2>3, <1>9 DEF BarrierWires, root
<1> QED
  BY <1>8, <1>9

LEMMA BarrierTables ==
    ASSUME NEW n, Tables(n), Entries(n), NEW p \in Job(n), Barrier(p)
    PROVE  /\ Tables(n)' /\ AllUp(n)' /\ step'[p] = Turn(p)
           /\ \A q \in Procs : q # p => step'[q] = step[q]
<1>1. /\ pc[p] = "barrier" /\ NextStep(p, Len(pool[p]) - 1) /\ Busy(p)
      /\ pc' = [pc EXCEPT ![p] = "run"]
      /\ UNCHANGED <<program, tie, pool, made>>
  BY DEF Barrier, Busy
<1>2. /\ p \in Procs /\ pool[p] # <<>> /\ Places(p) /\ Handles(p) /\ step[p] \in Nat
      /\ pool[p] \in Seq(Communicators(n)) /\ AllUp(n)
      /\ Turn(p) \in Steps /\ step[p] < Len(program)
  BY <1>1, MadeBounds, BusyFacts DEF Tables, Types, Setting
<1>3. Len(pool[p]) \in Nat \ {0} /\ Len(pool[p]) - 1 \in Int /\ Len(pool[p]) - 1 >= 0
      /\ (Len(pool[p]) - 1) + 1 = Len(pool[p]) /\ Len(pool[p]) \in DOMAIN pool[p]
  BY <1>2
<1>4. /\ step' \in [Procs -> Nat] /\ handle' \in [Procs -> Seq(Int)]
      /\ \A q \in Procs : step'[q] =< Len(program) /\ Len(handle'[q]) = step'[q] + 1
      /\ step'[p] = Turn(p) /\ handle'[p][Turn(p) + 1] = Len(pool[p]) - 1
      /\ \A j \in 0..step[p] : handle'[p][j + 1] = handle[p][j + 1]
      /\ \A q \in Procs : q # p => step'[q] = step[q] /\ handle'[q] = handle[q]
  BY <1>1, <1>2, <1>3, NextStepFacts
<1>5. /\ pc' \in [Procs -> {"out", "run", "gather", "barrier", "crashed"}]
      /\ pc'[p] = "run" /\ \A q \in Procs \ {p} : pc'[q] = pc[q]
  BY <1>1, <1>2 DEF Tables, Types
<1>6. Types(n)'
  <2>1. chan' \in [Procs -> [Procs -> Seq(Messages)]]
    BY BarrierChan
  <2> QED
    BY <2>1, <1>1, <1>4, <1>5 DEF Tables, Types, Setting
<1>7. \A q, k : MadeAt(q, k)' = MadeAt(q, k)
  BY <1>1, NothingMade
<1>8. Places(p)'
  <2>1. ASSUME NEW i \in DOMAIN pool[p] PROVE made[p][i].step =< Turn(p)
    <3>1. /\ made[p][i].step =< step[p] \/ made[p][i].step = Turn(p)
          /\ MadeAt(p, made[p][i].step)
      BY <1>1, <1>2, OfEntry DEF Places
    <3>2. made[p][i].step \in Nat
      BY <3>1, MadeBounds, StepFacts
    <3> QED
      BY <3>1, <3>2, <1>2 DEF Turn
  <2> QED
    BY <2>1, <1>1, <1>2, <1>4, <1>5 DEF Places, Turn, Steps
<1>9. Handles(p)'
  <2> SUFFICES ASSUME NEW j \in 0..step'[p]
               PROVE  \/ /\ handle'[p][j + 1] >= 0 /\ handle'[p][j + 1] + 1 \in DOMAIN pool[p]
                         /\ made[p][handle'[p][j + 1] + 1].step = j
                      \/ /\ handle'[p][j + 1] = -1
                         /\ MadeAt(p, j) => \A k \in Steps : k > step'[p] => program[k].on # j
    BY <1>1, <1>7 DEF Handles, Steps
  <2>1. CASE j \in 0..step[p]
    <3>1. handle'[p][j + 1] = handle[p][j + 1]
      BY <2>1, <1>4
    <3>2. \A k \in Steps : k > step'[p] => k > step[p]
      BY <1>2, <1>4, StepFacts DEF Turn
    <3> QED
      BY <2>1, <3>1, <3>2, <1>2 DEF Handles
  <2>2. CASE j \notin 0..step[p]
    <3>1. j = Turn(p)
      BY <2>2, <1>2, <1>4 DEF Turn
    <3>2. made[p][Len(pool[p])].step = j
      BY <3>1, <1>1, <1>2 DEF Places
    <3> QED
      BY <3>1, <3>2, <1>3, <1>4
  <2> QED
    BY <2>1, <2>2
<1> QED
  BY <1>1, <1>2, <1>4, <1>5, <1>6, <1>8, <1>9, TablesByStep

LEMMA FreeTables ==
    ASSUME NEW n, Tables(n), NEW p \in Job(n), AllUp(n), Free(p)
    PROVE  Tables(n)' /\ AllUp(n)'
<1>1. /\ pc[p] = "run" /\ UNCHANGED <<program, tie, pool, step, pc, chan, made>>
  BY DEF Free
<1>2. PICK k \in 2..Len(handle[p]) :
         /\ \A i \in (step[p] + 1)..Len(program) : program[i].on # k - 1
         /\ handle' = [handle EXCEPT ![p][k] = -1]
  BY DEF Free
<1>3. /\ p \in Procs /\ handle \in [Procs -> Seq(Int)] /\ handle[p] \in Seq(Int)
      /\ step[p] \in Nat /\ Len(handle[p]) = step[p] + 1 /\ Len(program) \in Nat
      /\ pool[p] # <<>> /\ pool[p] \in Seq(Communicators(n)) /\ Places(p) /\ Handles(p)
  BY ProgramRight DEF Tables, Types, Setting, AllUp
<1> DEFINE new == [handle[p] EXCEPT ![k] = -1]
<1>4. handle' = [handle EXCEPT ![p] = new]
  BY <1>2
<1>5. new \in Seq(Int) /\ Len(new) = Len(handle[p]) /\ new[k] = -1
      /\ \A j \in 1..Len(handle[p]) : j # k => new[j] = handle[p][j]
  BY <1>3
<1> HIDE DEF new
<1>6. /\ handle' \in [Procs -> Seq(Int)] /\ handle'[p] = new
      /\ \A q \in Procs : q # p => handle'[q] = handle[q]
  BY <1>3, <1>4, <1>5
<1>7. Types(n)'
  <2>1. \A q \in Procs : Len(handle'[q]) = Len(handle[q])
    BY <1>5, <1>6
  <2> QED
    BY <2>1, <1>1, <1>6 DEF Tables, Types, Setting
<1>8. Places(p)'
  BY <1>1, <1>3 DEF Places, Turn, Steps
<1>9. \A q, j : MadeAt(q, j)' = MadeAt(q, j)
  BY <1>1, NothingMade
<1>10. Handles(p)'
  <2> SUFFICES ASSUME NEW j \in 0..step[p]
               PROVE  \/ /\ new[j + 1] >= 0 /\ new[j + 1] + 1 \in DOMAIN pool[p]
                         /\ made[p][new[j + 1] + 1].step = j
                      \/ /\ new[j + 1] = -1
                         /\ MadeAt(p, j) => \A i \in Steps : i > step[p] => program[i].on # j
    BY <1>1, <1>6, <1>9 DEF Handles, Steps
  <2>1. CASE j + 1 = k
    <3>1. \A i \in Steps : i > step[p] => i \in (step[p] + 1)..Len(program)
      BY <1>3 DEF Steps
    <3>2. k - 1 = j
      BY <2>1, <1>3
    <3> QED
      BY <2>1, <3>1, <3>2, <1>2, <1>5
  <2>2. CASE j + 1 # k
    <3>1. new[j + 1] = handle[p][j + 1]
      <4>1. j + 1 \in 1..Len(handle[p])
        BY <1>3
      <4> QED
        BY <4>1, <2>2, <1>5
    <3> QED
      BY <3>1, <1>3 DEF Handles
  <2> QED
    BY <2>1, <2>2
<1> QED
  BY <1>1, <1>3, <1>6, <1>7, <1>8, <1>10, TablesByStep

-----------------------------------------------------------------------------
(* The step that makes an entry. *)

\* The all-gather has returned the colors and keys of the step.
LEMMA GatheredIsIdeal ==
    ASSUME NEW n, IInv(n), NEW p \in Job(n), pc[p] = "gather",
           \A q \in Others(p, From(p)) : chan[q][p] # <<>>
    PROVE  Gathered(p) = Ideal(Parent(p, Turn(p)), Turn(p))
<1>1. Tables(n) /\ Entries(n) /\ Busy(p)
  BY DEF IInv, Busy
<1> DEFINE parent == Parent(p, Turn(p))
           k == Turn(p)
<1>2. /\ Entry(p, From(p)) = parent /\ Calls(p, k)
      /\ Others(p, From(p)) = Together(p, k) \ {p}
  BY <1>1, BusyFacts
<1>3. WellFormed(n, p, parent)
  BY <1>1, <1>2, ParentRight
<1>4. parent.commWorldSize \in Int
  BY <1>3 DEF WellFormed, Communicators
<1>5. ASSUME NEW i \in 1..parent.commWorldSize
      PROVE  (IF parent.rootRanks[i - 1] = p THEN Config(p)
              ELSE Head(chan[parent.rootRanks[i - 1]][p]).config)
               = [color |-> program[k].color[parent.rootRanks[i - 1]],
                  key |-> program[k].key[parent.rootRanks[i - 1]]]
  <2> DEFINE q == parent.rootRanks[i - 1]
  <2>1. q \in Together(p, k)
    <3>1. i - 1 \in 0..(parent.commWorldSize - 1)
      BY <1>4
    <3> QED
      BY <3>1 DEF Together, Group
  <2> HIDE DEF q
  <2>2. CASE q = p
    BY <2>2, <1>1, ConfigTyped DEF q
  <2>3. CASE q # p
    <3>1. chan[q][p] # <<>>
      BY <1>2, <2>1, <2>3
    <3>2. /\ Turn(q) = k /\ Busy(q)
          /\ Head(chan[q][p]) = Message(Config(q), k)
      BY <2>1, <2>3, <3>1, GatherFrom
    <3>3. q \in Job(n)
      BY <1>1, <1>2, <2>1, ParentRight
    <3>4. Config(q) = [color |-> program[k].color[q], key |-> program[k].key[q]]
      BY <3>2, <3>3, <1>1, ConfigTyped
    <3> QED
      BY <2>3, <3>2, <3>4 DEF Message, q
  <2> QED
    BY <2>2, <2>3
<1>6. Gathered(p) = [i \in 1..parent.commWorldSize |->
                       IF parent.rootRanks[i - 1] = p THEN Config(p)
                       ELSE Head(chan[parent.rootRanks[i - 1]][p]).config]
  BY <1>2 DEF Gathered
<1> HIDE DEF parent, k
<1>7. Gathered(p) = Ideal(parent, k)
  BY <1>5, <1>6 DEF Ideal
<1> QED
  BY <1>7 DEF parent, k

\* What the step does, in terms of the steps.
GatherWires(p) ==
    \A a, b \in Procs : chan'[a][b] =
        IF a \in Awaited(p) /\ b = p THEN Tail(chan[a][b])
        ELSE IF a = p /\ b = RootOf(p, Turn(p)) /\ b # p
             THEN Append(chan[a][b], Signal(Turn(p)))
        ELSE chan[a][b]

LEMMA GatherFacts ==
    ASSUME NEW n, IInv(n), NEW p \in Job(n), Gather(p)
    PROVE  /\ UNCHANGED <<program, tie, handle, step>>
           /\ pc' = [pc EXCEPT ![p] = "barrier"]
           /\ pool' = [pool EXCEPT ![p] = Append(pool[p],
                         SplitOf(n, p, Parent(p, Turn(p)), Turn(p)))]
           /\ made' = [made EXCEPT ![p] = Append(made[p], [step |-> Turn(p), from |-> From(p)])]
           /\ chan' \in [Procs -> [Procs -> Seq(Messages)]] /\ GatherWires(p)
           /\ \A q \in Together(p, Turn(p)) \ {p} : chan[q][p] # <<>>
<1> DEFINE left == Received(p, Awaited(p), chan)
           root == RootOf(p, Turn(p))
<1>1. /\ Tables(n) /\ Entries(n) /\ Busy(p) /\ p \in Procs /\ pc[p] = "gather"
      /\ pool \in [Procs -> Seq(Communicators(n))]
      /\ made \in [Procs -> Seq([step : Nat, from : Nat])]
  BY DEF IInv, Gather, Busy, Tables, Types, Setting
<1>2. /\ Entry(p, From(p)) = Parent(p, Turn(p)) /\ Calls(p, Turn(p)) /\ pool[p] # <<>>
      /\ Others(p, From(p)) = Together(p, Turn(p)) \ {p}
      /\ step[p] \in Nat /\ Turn(p) = step[p] + 1
  BY <1>1, BusyFacts, MadeBounds DEF Turn
<1>3. /\ Awaited(p) = Others(p, From(p)) /\ Awaited(p) \in SUBSET Procs /\ p \notin Awaited(p)
      /\ \A q \in Awaited(p) : chan[q][p] # <<>>
  BY <1>1, <1>2, AwaitedFacts DEF Gather
<1>4. Gathered(p) = Ideal(Parent(p, Turn(p)), Turn(p))
  BY <1>1, <1>3, GatheredIsIdeal
<1>5. Config(p).color = program[Turn(p)].color[p] /\ World(p) = n
  BY <1>1, <1>2, ConfigTyped, WorldOf
<1>6. pool' = [pool EXCEPT ![p] = Append(pool[p], SplitOf(n, p, Parent(p, Turn(p)), Turn(p)))]
  BY <1>1, <1>2, <1>4, <1>5 DEF Gather, SplitOf
<1>7. made' = [made EXCEPT ![p] = Append(made[p], [step |-> Turn(p), from |-> From(p)])]
  BY <1>1, <1>2 DEF Gather
<1>8. chan' = IF p = root THEN left
              ELSE [left EXCEPT ![p][root] = Append(left[p][root], Signal(Turn(p)))]
  BY <1>2, <1>3 DEF Gather, RootOf, Signal, Turn
<1>9. /\ left \in [Procs -> [Procs -> Seq(Messages)]]
      /\ \A a, b \in Procs : left[a][b] =
           IF a \in Awaited(p) /\ b = p THEN Tail(chan[a][b]) ELSE chan[a][b]
  <2>1. /\ Tables(n) /\ Awaited(p) \in SUBSET Procs
        /\ \A q \in Awaited(p) : chan[q][p] # <<>>
    BY <1>1, <1>3
  <2> QED
    BY <2>1, ReceivedFacts
<1>10. Signal(Turn(p)) \in Messages /\ root \in Procs
  <2>1. root \in Job(n)
    BY <1>1, <1>2, ParentRight
  <2> QED
    BY <2>1, <1>1, <1>2, SignalTyped DEF Tables, Types, Setting
<1> HIDE DEF left, root
<1>11. chan' \in [Procs -> [Procs -> Seq(Messages)]] /\ GatherWires(p)
  <2>1. CASE p = root
    <3>1. chan' = left
      BY <1>8, <2>1
    <3> QED
      BY <3>1, <2>1, <1>9 DEF GatherWires, root
  <2>2. CASE p # root
    <3> DEFINE row == [left[p] EXCEPT ![root] = Append(left[p][root], Signal(Turn(p)))]
    <3>1. chan' = [left EXCEPT ![p] = row]
      BY <1>8, <2>2
    <3>2. left[p] \in [Procs -> Seq(Messages)] /\ left[p][root] \in Seq(Messages)
      BY <1>1, <1>9, <1>10
    <3>3. /\ row \in [Procs -> Seq(Messages)]
          /\ row[root] = Append(left[p][root], Signal(Turn(p)))
          /\ \A b \in Procs : b # root => row[b] = left[p][b]
      BY <3>2, <1>10
    <3> HIDE DEF row
    <3>4. /\ chan' \in [Procs -> [Procs -> Seq(Messages)]] /\ chan'[p] = row
          /\ \A a \in Procs : a # p => chan'[a] = left[a]
      BY <3>1, <3>3, <1>1, <1>9
    <3>5. ASSUME NEW a \in Procs, NEW b \in Procs
          PROVE  chan'[a][b] = IF a \in Awaited(p) /\ b = p THEN Tail(chan[a][b])
                               ELSE IF a = p /\ b = root /\ b # p
                                    THEN Append(chan[a][b], Signal(Turn(p)))
                               ELSE chan[a][b]
      <4>1. CASE a = p /\ b = root
        <5>1. left[p][root] = chan[p][root]
          BY <1>1, <1>3, <1>9, <1>10
        <5> QED
          BY <5>1, <4>1, <3>3, <3>4, <2>2, <1>3
      <4>2. CASE a = p /\ b # root
        <5>1. left[p][b] = chan[p][b]
          BY <1>1, <1>3, <1>9
        <5> QED
          BY <5>1, <4>2, <3>3, <3>4, <1>3
      <4>3. CASE a # p
        BY <4>3, <3>4, <1>9
      <4> QED
        BY <4>1, <4>2, <4>3
    <3> QED
      BY <3>4, <3>5 DEF GatherWires, root
  <2> QED
    BY <2>1, <2>2
<1>12. UNCHANGED <<program, tie, handle, step>> /\ pc' = [pc EXCEPT ![p] = "barrier"]
  BY DEF Gather
<1> QED
  BY <1>2, <1>3, <1>6, <1>7, <1>11, <1>12

\* One entry more, and the old ones stay.
Makes(p, entry, from) ==
    /\ pool' = [pool EXCEPT ![p] = Append(pool[p], entry)]
    /\ made' = [made EXCEPT ![p] = Append(made[p], [step |-> Turn(p), from |-> from])]

\* The entry gets the step as its name, the others keep theirs.
NewName(n, p, entry) ==
    /\ \A q \in Job(n) : \A k : MadeAt(q, k)' <=> MadeAt(q, k) \/ (q = p /\ k = Turn(p))
    /\ \A q \in Job(n) : \A k : MadeAt(q, k) => Of(q, k)' = Of(q, k)
    /\ \A k : k = Turn(p) => Of(p, k)' = entry

LEMMA OneMade ==
    ASSUME NEW n, Tables(n), NEW p \in Job(n), pool[p] # <<>>, pc[p] = "gather",
           NEW entry, NEW from, Makes(p, entry, from)
    PROVE  /\ NewName(n, p, entry)
           /\ DOMAIN pool'[p] = DOMAIN pool[p] \union {Len(pool[p]) + 1}
           /\ Len(pool[p]) \in Nat /\ Len(pool'[p]) = Len(pool[p]) + 1
           /\ Len(made'[p]) = Len(pool[p]) + 1
           /\ pool'[p][Len(pool[p]) + 1] = entry
           /\ made'[p][Len(pool[p]) + 1] = [step |-> Turn(p), from |-> from]
           /\ \A i \in DOMAIN pool[p] : /\ i \in 1..Len(pool[p])
                                        /\ pool'[p][i] = pool[p][i] /\ made'[p][i] = made[p][i]
           /\ \A q \in Procs : q # p => pool'[q] = pool[q] /\ made'[q] = made[q]
<1>1. /\ p \in Procs /\ pool \in [Procs -> Seq(Communicators(n))]
      /\ made \in [Procs -> Seq([step : Nat, from : Nat])]
      /\ Job(n) \subseteq Procs /\ Places(p)
  BY DEF Tables, Types, Setting
<1> DEFINE m == Len(pool[p])
           here == [step |-> Turn(p), from |-> from]
<1>2. Len(made[p]) = m /\ m \in Nat /\ DOMAIN pool[p] = 1..m
  BY <1>1 DEF Places
<1>3. /\ pool'[p] = Append(pool[p], entry) /\ made'[p] = Append(made[p], here)
      /\ \A q \in Procs : q # p => pool'[q] = pool[q] /\ made'[q] = made[q]
  BY <1>1 DEF Makes
<1> HIDE DEF here
<1>4. /\ Len(pool'[p]) = m + 1 /\ DOMAIN pool'[p] = 1..(m + 1)
      /\ pool'[p][m + 1] = entry /\ \A i \in 1..m : pool'[p][i] = pool[p][i]
  <2>1. pool[p] \in Seq(Communicators(n))
    BY <1>1
  <2> QED
    BY <2>1, <1>2, <1>3
<1>5. /\ Len(made'[p]) = m + 1
      /\ made'[p][m + 1] = here /\ \A i \in 1..m : made'[p][i] = made[p][i]
  <2> DEFINE R == [step : Nat, from : Nat]
  <2>1. made[p] \in Seq(R)
    BY <1>1
  <2> HIDE DEF R
  <2> QED
    BY <2>1, <1>2, <1>3
<1> HIDE DEF m
<1>6. 1..(m + 1) = (1..m) \union {m + 1}
  BY <1>2
<1>7. made'[p][m + 1].step = Turn(p)
  BY <1>5 DEF here
<1>8. ~MadeAt(p, Turn(p))
  BY MadeBounds DEF Turn
<1>9. ASSUME NEW q \in Job(n), NEW k
      PROVE  MadeAt(q, k)' <=> MadeAt(q, k) \/ (q = p /\ k = Turn(p))
  <2>1. CASE q = p
    BY <2>1, <1>2, <1>4, <1>5, <1>6, <1>7 DEF MadeAt
  <2>2. CASE q # p
    BY <2>2, <1>1, <1>3 DEF MadeAt
  <2> QED
    BY <2>1, <2>2
<1>10. ASSUME NEW q \in Job(n), NEW k, MadeAt(q, k)
       PROVE  Of(q, k)' = Of(q, k)
  <2>1. CASE q = p
    <3>1. PICK i \in 1..m : made[p][i].step = k
      BY <2>1, <1>2, <1>10 DEF MadeAt
    <3>2. k # Turn(p)
      BY <2>1, <1>8, <1>10
    <3>3. \A j \in DOMAIN pool[p] : made[p][j].step = k => j = i
      <4> TAKE j \in DOMAIN pool[p]
      <4> HAVE made[p][j].step = k
      <4>1. i \in Int /\ j \in Int /\ k \in Int
        BY <1>2, <1>10, <2>1, MadeBounds, StepFacts
      <4>2. (i < j => made[p][i].step < made[p][j].step)
            /\ (j < i => made[p][j].step < made[p][i].step)
        BY <1>1, <1>2 DEF Places
      <4> QED
        BY <3>1, <4>1, <4>2
    <3>4. Of(p, k) = pool[p][i]
      BY <3>1, <3>3, <1>2 DEF Of
    <3>5. \A j \in DOMAIN pool'[p] : made'[p][j].step = k => j = i
      BY <3>2, <3>3, <1>2, <1>4, <1>5, <1>6, <1>7
    <3>6. Of(p, k)' = pool'[p][i]
      BY <3>1, <3>5, <1>4, <1>5, <1>6 DEF Of
    <3> QED
      BY <2>1, <3>1, <3>4, <3>6, <1>4
  <2>2. CASE q # p
    BY <2>2, <1>1, <1>3 DEF Of
  <2> QED
    BY <2>1, <2>2
<1>11. ASSUME NEW k, k = Turn(p)
       PROVE  Of(p, k)' = entry
  <2>1. \A j \in DOMAIN pool'[p] : made'[p][j].step = Turn(p) => j = m + 1
    BY <1>2, <1>4, <1>5, <1>6, <1>8 DEF MadeAt
  <2>2. m + 1 \in DOMAIN pool'[p]
    BY <1>4, <1>6
  <2>3. (CHOOSE i \in DOMAIN pool'[p] : made'[p][i].step = k) = m + 1
    BY <2>1, <2>2, <1>7, <1>11
  <2> QED
    BY <2>3, <1>4 DEF Of
<1>12. NewName(n, p, entry)
  BY <1>9, <1>10, <1>11 DEF NewName
<1> QED
  BY <1>2, <1>3, <1>4, <1>5, <1>6, <1>12 DEF m, here

\* Where the parent is in m_commPool.
LEMMA FromPlace ==
    ASSUME NEW n, Tables(n), Entries(n), NEW p \in Job(n), Busy(p)
    PROVE  /\ From(p) \in Nat /\ From(p) + 1 \in DOMAIN pool[p]
           /\ made[p][From(p) + 1].step = program[Turn(p)].on
<1>1. /\ Turn(p) \in Steps /\ Now(p) = program[Turn(p)] /\ pool[p] # <<>>
      /\ step[p] \in Nat /\ pool[p] \in Seq(Communicators(n))
  BY BusyFacts, MadeBounds DEF Tables, Types, Setting
<1>2. Called(p) /\ From(p) >= 0 /\ From(p) = handle[p][program[Turn(p)].on + 1]
  BY <1>1, BusyFacts DEF Called, From
<1>3. program[Turn(p)].on \in 0..step[p]
  BY <1>1, StepFacts DEF Turn
<1>4. From(p) + 1 \in DOMAIN pool[p] /\ made[p][From(p) + 1].step = program[Turn(p)].on
  <2> DEFINE j == program[Turn(p)].on
  <2> HIDE DEF j
  <2>1. j \in 0..step[p] /\ handle[p][j + 1] >= 0 /\ From(p) = handle[p][j + 1]
    BY <1>2, <1>3 DEF j
  <2>2. handle[p][j + 1] + 1 \in DOMAIN pool[p] /\ made[p][handle[p][j + 1] + 1].step = j
    BY <1>1, <2>1 DEF Tables, Handles
  <2> QED
    BY <2>1, <2>2 DEF j
<1>5. From(p) \in Int
  <2>1. handle[p] \in Seq(Int) /\ Len(handle[p]) = step[p] + 1
    BY DEF Tables, Types, Setting
  <2>2. program[Turn(p)].on + 1 \in 1..Len(handle[p])
    BY <1>1, <1>3, <2>1
  <2> QED
    BY <1>2, <2>1, <2>2
<1> QED
  BY <1>2, <1>4, <1>5

LEMMA GatherTables ==
    ASSUME NEW n, IInv(n), NEW p \in Job(n), Gather(p)
    PROVE  Tables(n)' /\ AllUp(n)'
<1> DEFINE entry == SplitOf(n, p, Parent(p, Turn(p)), Turn(p))
           m == Len(pool[p])
<1>1. /\ Tables(n) /\ Entries(n) /\ Busy(p) /\ pc[p] = "gather" /\ p \in Procs
      /\ pool \in [Procs -> Seq(Communicators(n))]
      /\ made \in [Procs -> Seq([step : Nat, from : Nat])]
      /\ Places(p) /\ Handles(p)
  BY DEF IInv, Gather, Busy, Tables, Types, Setting
<1>2. /\ Turn(p) \in Steps /\ Calls(p, Turn(p)) /\ AllUp(n) /\ pool[p] # <<>>
      /\ step[p] \in Nat /\ Turn(p) \in Nat
  BY <1>1, BusyFacts, MadeBounds, StepFacts
<1>3. /\ UNCHANGED <<program, tie, handle, step>>
      /\ pc' = [pc EXCEPT ![p] = "barrier"]
      /\ pool' = [pool EXCEPT ![p] = Append(pool[p], entry)]
      /\ made' = [made EXCEPT ![p] = Append(made[p], [step |-> Turn(p), from |-> From(p)])]
      /\ chan' \in [Procs -> [Procs -> Seq(Messages)]]
  BY GatherFacts
<1>4. entry \in Communicators(n)
  <2>1. WellFormed(n, p, Parent(p, Turn(p)))
    BY <1>1, <1>2, ParentRight
  <2>2. Setting(n)
    BY <1>1 DEF Tables, Types
  <2> QED
    BY <1>2, <2>1, <2>2, SplitOfRight DEF WellFormed
<1>5. /\ From(p) \in Nat /\ From(p) + 1 \in DOMAIN pool[p]
      /\ made[p][From(p) + 1].step = program[Turn(p)].on
  BY <1>1, FromPlace
<1> HIDE DEF entry
<1>6. /\ \A k : MadeAt(p, k)' <=> MadeAt(p, k) \/ k = Turn(p)
      /\ DOMAIN pool'[p] = DOMAIN pool[p] \union {m + 1}
      /\ m \in Nat /\ Len(pool'[p]) = m + 1 /\ Len(made'[p]) = m + 1
      /\ made'[p][m + 1] = [step |-> Turn(p), from |-> From(p)]
      /\ \A i \in DOMAIN pool[p] : /\ i \in 1..m
                                   /\ pool'[p][i] = pool[p][i] /\ made'[p][i] = made[p][i]
      /\ \A q \in Procs : q # p => pool'[q] = pool[q] /\ made'[q] = made[q]
  <2> DEFINE from == From(p)
  <2>1. Tables(n) /\ pool[p] # <<>> /\ pc[p] = "gather" /\ Makes(p, entry, from)
    BY <1>1, <1>2, <1>3 DEF Makes
  <2> HIDE DEF from
  <2>2. /\ NewName(n, p, entry)
        /\ DOMAIN pool'[p] = DOMAIN pool[p] \union {Len(pool[p]) + 1}
        /\ Len(pool[p]) \in Nat /\ Len(pool'[p]) = Len(pool[p]) + 1
        /\ Len(made'[p]) = Len(pool[p]) + 1
        /\ made'[p][Len(pool[p]) + 1] = [step |-> Turn(p), from |-> from]
        /\ \A i \in DOMAIN pool[p] : /\ i \in 1..Len(pool[p])
                                     /\ pool'[p][i] = pool[p][i] /\ made'[p][i] = made[p][i]
        /\ \A q \in Procs : q # p => pool'[q] = pool[q] /\ made'[q] = made[q]
    BY <2>1, OneMade
  <2> QED
    BY <2>2 DEF from, NewName
<1>7. /\ pc' \in [Procs -> {"out", "run", "gather", "barrier", "crashed"}]
      /\ pc'[p] = "barrier" /\ \A q \in Procs \ {p} : pc'[q] = pc[q]
  BY <1>1, <1>3 DEF Tables, Types
<1>8. Types(n)'
  <2>1. Append(pool[p], entry) \in Seq(Communicators(n))
    BY <1>1, <1>4
  <2>2. pool' \in [Procs -> Seq(Communicators(n))]
    BY <1>1, <1>3, <2>1
  <2> DEFINE R == [step : Nat, from : Nat]
             here == [step |-> Turn(p), from |-> From(p)]
  <2>3. here \in R
    BY <1>2, <1>5
  <2>4. made \in [Procs -> Seq(R)] /\ made' = [made EXCEPT ![p] = Append(made[p], here)]
    BY <1>1, <1>3
  <2> HIDE DEF R, here
  <2>5. Append(made[p], here) \in Seq(R)
    BY <1>1, <2>3, <2>4
  <2>6. made' \in [Procs -> Seq(R)]
    BY <1>1, <2>4, <2>5
  <2> QED
    BY <2>2, <2>6, <1>1, <1>3, <1>7 DEF R, Tables, Types, Setting
<1>9. ASSUME NEW i \in DOMAIN pool[p]
      PROVE  made[p][i].step =< step[p] /\ made[p][i].step < Turn(p)
             /\ made[p][i].step \in Nat
  <2>1. made[p][i].step =< step[p]
    BY <1>1, <1>2, <1>9 DEF Places
  <2>2. made[p][i].step \in Nat
    BY <1>1, <1>9, OfEntry, MadeBounds, StepFacts
  <2> QED
    BY <2>1, <2>2, <1>2 DEF Turn
<1>10. Places(p)'
  <2>1. /\ Len(made'[p]) = Len(pool'[p]) /\ made'[p][Len(pool'[p])].step = Turn(p)
        /\ pool'[p] # <<>> /\ 1 \in DOMAIN pool[p]
    <3>1. pool'[p] # <<>>
      BY <1>6
    <3>2. 1 \in DOMAIN pool[p]
      BY <1>1, <1>2
    <3> QED
      BY <1>6, <3>1, <3>2
  <2>2. made'[p][1].step = 0
    BY <1>1, <1>2, <1>6, <2>1 DEF Places
  <2>3. ASSUME NEW i \in DOMAIN pool'[p], NEW j \in DOMAIN pool'[p], i < j
        PROVE  made'[p][i].step < made'[p][j].step
    <3>1. CASE j = m + 1
      <4>1. i \in DOMAIN pool[p]
        BY <3>1, <2>3, <1>6
      <4> QED
        BY <3>1, <4>1, <1>6, <1>9
    <3>2. CASE j # m + 1
      <4>1. j \in DOMAIN pool[p] /\ i \in DOMAIN pool[p]
        BY <3>2, <2>3, <1>6
      <4> QED
        BY <4>1, <2>3, <1>1, <1>2, <1>6 DEF Places
    <3> QED
      BY <3>1, <3>2
  <2>4. ASSUME NEW i \in DOMAIN pool'[p], i # 1
        PROVE  /\ made'[p][i].step \in Steps
               /\ made'[p][i].from + 1 \in DOMAIN pool'[p]
               /\ made'[p][made'[p][i].from + 1].step = program[made'[p][i].step].on
    <3>1. CASE i = m + 1
      <4>1. made'[p][i].step = Turn(p) /\ made'[p][i].from = From(p)
        BY <3>1, <1>6
      <4>2. made'[p][From(p) + 1].step = program[Turn(p)].on
        BY <1>5, <1>6
      <4> QED
        BY <4>1, <4>2, <1>2, <1>5, <1>6
    <3>2. CASE i # m + 1
      <4>1. i \in DOMAIN pool[p]
        BY <3>2, <1>6
      <4>2. /\ made[p][i].step \in Steps /\ made[p][i].from + 1 \in DOMAIN pool[p]
            /\ made[p][made[p][i].from + 1].step = program[made[p][i].step].on
        BY <4>1, <2>4, <1>1, <1>2 DEF Places
      <4>3. made'[p][i] = made[p][i]
            /\ made'[p][made[p][i].from + 1] = made[p][made[p][i].from + 1]
        BY <4>1, <4>2, <1>6
      <4> QED
        BY <4>2, <4>3, <1>6
    <3> QED
      BY <3>1, <3>2
  <2>5. ASSUME NEW i \in DOMAIN pool'[p]
        PROVE  made'[p][i].step =< step[p] \/ made'[p][i].step = Turn(p)
    BY <1>6, <1>9
  <2>6. Steps' = Steps /\ Turn(p)' = Turn(p) /\ program' = program /\ step' = step
    BY <1>3 DEF Steps, Turn
  <2> QED
    BY <2>1, <2>2, <2>3, <2>4, <2>5, <2>6, <1>7 DEF Places
<1>11. Handles(p)'
  <2> SUFFICES ASSUME NEW j \in 0..step[p]
               PROVE  \/ /\ handle[p][j + 1] >= 0 /\ handle[p][j + 1] + 1 \in DOMAIN pool'[p]
                         /\ made'[p][handle[p][j + 1] + 1].step = j
                      \/ /\ handle[p][j + 1] = -1
                         /\ MadeAt(p, j)' => \A k \in Steps : k > step[p] => program[k].on # j
    BY <1>3 DEF Handles, Steps
  <2>1. MadeAt(p, j)' <=> MadeAt(p, j)
    <3>1. j # Turn(p)
      BY <1>2 DEF Turn
    <3> QED
      BY <3>1, <1>6
  <2>2. CASE /\ handle[p][j + 1] >= 0 /\ handle[p][j + 1] + 1 \in DOMAIN pool[p]
             /\ made[p][handle[p][j + 1] + 1].step = j
    BY <2>2, <1>6
  <2>3. CASE /\ handle[p][j + 1] = -1
             /\ MadeAt(p, j) => \A k \in Steps : k > step[p] => program[k].on # j
    BY <2>1, <2>3
  <2> QED
    BY <2>2, <2>3, <1>1, <1>2 DEF Handles
<1> QED
  <2>1. pool'[p] # <<>> /\ pc'[p] # "out"
    BY <1>6, <1>7
  <2>2. \A q \in Procs \ {p} : /\ pool'[q] = pool[q] /\ made'[q] = made[q]
                               /\ step'[q] = step[q] /\ pc'[q] = pc[q]
                               /\ handle'[q] = handle[q]
    BY <1>3, <1>6, <1>7
  <2> QED
    BY <2>1, <2>2, <1>1, <1>2, <1>3, <1>8, <1>10, <1>11, TablesByStep

-----------------------------------------------------------------------------
(* What a step does to the entries. *)

LEMMA SplitOfKept ==
    ASSUME UNCHANGED <<program, tie>>
    PROVE  \A n, p, parent, k : SplitOf(n, p, parent, k)' = SplitOf(n, p, parent, k)
<1>1. \A parent, k : Ideal(parent, k)' = Ideal(parent, k)
  BY DEF Ideal
<1>2. \A configs, i, j : Before(configs, i, j)' <=> Before(configs, i, j)
  BY DEF Before
<1>3. \A parent, configs : Members(parent, configs)' = Members(parent, configs)
  <2> TAKE parent, configs
  <2> QED
    BY DEF Members, Before
<1> QED
  BY <1>1, <1>3 DEF SplitOf

\* An entry is right as long as it and its parent stay.
LEMMA EntryRightKept ==
    ASSUME NEW n, NEW p, NEW k, EntryRight(n, p, k), UNCHANGED <<program, tie>>,
           Of(p, k)' = Of(p, k), 
           k # 0 => Parent(p, k)' = Parent(p, k) /\ (Calls(p, k) => Calls(p, k)')
    PROVE  EntryRight(n, p, k)'
<1>1. \A parent : SplitOf(n, p, parent, k)' = SplitOf(n, p, parent, k)
  BY SplitOfKept
<1>2. WellFormed(n, p, Of(p, k))'
  BY DEF EntryRight, WellFormed
<1>3. k = 0 => Of(p, k)' = RootEntry(p, n)
  BY DEF EntryRight
<1>4. k # 0 => Calls(p, k)' /\ Of(p, k)' = SplitOf(n, p, Parent(p, k), k)'
  BY <1>1 DEF EntryRight
<1> QED
  BY <1>2, <1>3, <1>4 DEF EntryRight

\* A step that makes no entry: what remains to be shown of it.
LEMMA EntriesByStep ==
    ASSUME NEW n, Tables(n), Entries(n), NEW p \in Job(n), AllUp(n),
           UNCHANGED <<program, tie, pool, made>>,
           \A q \in Procs \ {p} : step'[q] = step[q] /\ pc'[q] = pc[q],
           CallsDone(p)', InCall(p)',
           step'[p] = step[p] \/ step'[p] = Turn(p),
           step'[p] = step[p] => (Busy(p) => Busy(p)'),
           step'[p] # step[p] => \A k : k = Turn(p) /\ MadeAt(p, k) =>
              /\ \A q \in Together(p, k) : MadeAt(q, k)
              /\ RootOf(p, k) = p \/ step[RootOf(p, k)] >= k
    PROVE  Entries(n)'
<1>1. /\ Job(n) \subseteq Procs /\ Setting(n) /\ \A q \in Job(n) : step[q] \in Nat
  BY MadeBounds DEF Tables, Types, Setting
<1>2. \A q, k : /\ MadeAt(q, k)' = MadeAt(q, k) /\ Of(q, k)' = Of(q, k)
                /\ Parent(q, k)' = Parent(q, k) /\ Calls(q, k)' = Calls(q, k)
                /\ Together(q, k)' = Together(q, k) /\ RootOf(q, k)' = RootOf(q, k)
  BY NothingMade
<1>3. Steps' = Steps
  BY DEF Steps
<1>4. \A q \in Job(n) : /\ step[q] =< step'[q] /\ step'[q] \in Nat
                        /\ q # p => step'[q] = step[q] /\ pc'[q] = pc[q]
  BY <1>1 DEF Turn
<1>5. ASSUME NEW q \in Job(n) PROVE CallsDone(q)' /\ InCall(q)'
  <2>1. CASE q = p
    BY <2>1
  <2>2. CASE q # p
    <3>1. CallsDone(q) /\ InCall(q) /\ step'[q] = step[q] /\ pc'[q] = pc[q]
      BY <2>2, <1>4 DEF Entries
    <3>2. CallsDone(q)'
      BY <3>1, <1>2, <1>3 DEF CallsDone
    <3>3. InCall(q)'
      BY <3>1, <1>2, <1>3 DEF InCall, Busy, Turn
    <3> QED
      BY <3>2, <3>3
  <2> QED
    BY <2>1, <2>2
<1>6. ASSUME NEW q \in Job(n), NEW k, MadeAt(q, k)
      PROVE  EntryRight(n, q, k)' /\ AlikeAt(q, k)'
  <2>1. EntryRight(n, q, k) /\ AlikeAt(q, k)
    BY <1>6 DEF Entries
  <2>2. EntryRight(n, q, k)'
    BY <2>1, <1>2, EntryRightKept
  <2>3. AlikeAt(q, k)'
    BY <2>1, <1>2 DEF AlikeAt
  <2> QED
    BY <2>2, <2>3
<1>7. ASSUME NEW q \in Job(n), NEW k, MadeAt(q, k), k # 0
      PROVE  MadeByAll(q, k)' /\ BegunByAll(q, k)' /\ RootFirst(q, k)'
  <2>1. /\ MadeByAll(q, k) /\ BegunByAll(q, k) /\ RootFirst(q, k)
        /\ Calls(q, k) /\ k \in Steps /\ k \in Nat
        /\ k =< step[q] \/ (k = Turn(q) /\ pc[q] = "barrier")
    BY <1>7, MadeFacts, StepFacts DEF Entries
  <2>2. Together(q, k) \subseteq Job(n) /\ RootOf(q, k) \in Job(n)
    BY <2>1, ParentRight
  <2>3. k =< step'[q] => k =< step[q] \/ (q = p /\ k = Turn(p) /\ step'[p] # step[p])
    BY <2>1, <1>1, <1>4 DEF Turn
  <2>4. ASSUME k =< step'[q]
        PROVE  /\ \A r \in Together(q, k) : MadeAt(r, k)
               /\ step'[RootOf(q, k)] >= k
    <3>1. CASE k =< step[q]
      <4>1. (\A r \in Together(q, k) : MadeAt(r, k)) /\ step[RootOf(q, k)] >= k
        BY <3>1, <2>1 DEF MadeByAll, RootFirst
      <4> QED
        BY <4>1, <2>1, <2>2, <1>1, <1>4
    <3>2. CASE q = p /\ k = Turn(p) /\ step'[p] # step[p]
      <4>1. /\ \A r \in Together(p, k) : MadeAt(r, k)
            /\ RootOf(p, k) = p \/ step[RootOf(p, k)] >= k
        BY <3>2, <1>7
      <4>2. step'[RootOf(p, k)] >= k
        BY <4>1, <3>2, <2>1, <2>2, <2>4, <1>1, <1>4
      <4> QED
        BY <4>1, <4>2, <3>2
    <3> QED
      BY <3>1, <3>2, <2>3, <2>4
  <2>5. ASSUME NEW r \in Together(q, k)
        PROVE  step'[r] >= k \/ (Turn(r)' = k /\ Busy(r)')
    <3>1. step[r] >= k \/ (Turn(r) = k /\ Busy(r))
      BY <2>1 DEF BegunByAll
    <3>2. r \in Job(n) /\ step[r] \in Nat /\ step'[r] \in Nat /\ step[r] =< step'[r]
      BY <2>2, <1>1, <1>4
    <3>3. CASE step[r] >= k
      BY <3>2, <3>3, <2>1
    <3>4. CASE Turn(r) = k /\ Busy(r)
      <4>1. CASE r # p
        BY <4>1, <3>2, <3>4, <1>4 DEF Turn, Busy
      <4>2. CASE r = p /\ step'[p] = step[p]
        BY <4>2, <3>4 DEF Turn
      <4>3. CASE r = p /\ step'[p] # step[p]
        BY <4>3, <3>2, <3>4
      <4> QED
        BY <4>1, <4>2, <4>3
    <3> QED
      BY <3>1, <3>3, <3>4
  <2>6. MadeByAll(q, k)'
    BY <2>4, <1>2 DEF MadeByAll
  <2>7. RootFirst(q, k)'
    BY <2>4, <1>2 DEF RootFirst
  <2>8. BegunByAll(q, k)'
    BY <2>5, <1>2 DEF BegunByAll
  <2> QED
    BY <2>6, <2>7, <2>8
<1> QED
  BY <1>2, <1>5, <1>6, <1>7 DEF Entries

LEMMA SkipEntries ==
    ASSUME NEW n, Tables(n), Entries(n), NEW p \in Job(n), AllUp(n), Skip(p)
    PROVE  Entries(n)'
<1>1. /\ pc[p] = "run" /\ step[p] < Len(program) /\ ~Called(p) /\ NextStep(p, -1)
      /\ UNCHANGED <<program, tie, pool, pc, made>> /\ pool[p] # <<>> /\ step[p] \in Nat
  BY MadeBounds DEF Skip, AllUp
<1>2. /\ step'[p] = Turn(p) /\ step'[p] # step[p]
      /\ \A q \in Procs : q # p => step'[q] = step[q]
  BY <1>1, NextStepFacts DEF Turn
<1>3. ~Calls(p, Turn(p))
  BY <1>1, CalledIsCalls
<1>4. \A k : MadeAt(p, k)' = MadeAt(p, k) /\ Calls(p, k)' = Calls(p, k)
  BY <1>1, NothingMade
<1>5. CallsDone(p)'
  <2>1. ASSUME NEW k \in Steps, k =< Turn(p), Calls(p, k) PROVE MadeAt(p, k)
    <3>1. k # Turn(p)
      BY <2>1, <1>3
    <3>2. k =< step[p]
      BY <2>1, <3>1, <1>1, StepFacts DEF Turn
    <3> QED
      BY <2>1, <3>2 DEF Entries, CallsDone
  <2>2. Steps' = Steps
    BY <1>1 DEF Steps
  <2> QED
    BY <2>1, <2>2, <1>2, <1>4 DEF CallsDone
<1>6. InCall(p)'
  BY <1>1 DEF InCall, Busy
<1>7. ~MadeAt(p, Turn(p))
  BY <1>1, MadeBounds DEF Turn
<1> QED
  BY <1>1, <1>2, <1>5, <1>6, <1>7, EntriesByStep

LEMMA CommSplitEntries ==
    ASSUME NEW n, Tables(n), Entries(n), NEW p \in Job(n), AllUp(n), CommSplit(p)
    PROVE  Entries(n)'
<1>1. /\ pc[p] = "run" /\ step[p] < Len(program) /\ Called(p)
      /\ UNCHANGED <<program, tie, pool, handle, step, made>> /\ pool[p] # <<>>
      /\ \A q \in Procs \ {p} : pc'[q] = pc[q]
  BY DEF CommSplit, AllUp, Tables, Types
<1>2. Turn(p) \in Steps /\ Calls(p, Turn(p))
  BY <1>1, CalledIsCalls
<1>3. \A k : MadeAt(p, k)' = MadeAt(p, k) /\ Calls(p, k)' = Calls(p, k)
  BY <1>1, NothingMade
<1>4. Steps' = Steps /\ Turn(p)' = Turn(p)
  BY <1>1 DEF Steps, Turn
<1>5. CallsDone(p)'
  BY <1>1, <1>3, <1>4 DEF Entries, CallsDone
<1>6. InCall(p)'
  BY <1>2, <1>3, <1>4 DEF InCall
<1>7. ~Busy(p)
  BY <1>1 DEF Busy
<1> QED
  BY <1>1, <1>5, <1>6, <1>7, EntriesByStep

LEMMA FreeEntries ==
    ASSUME NEW n, Tables(n), Entries(n), NEW p \in Job(n), AllUp(n), Free(p)
    PROVE  Entries(n)'
<1>1. pc[p] = "run" /\ UNCHANGED <<program, tie, pool, step, pc, made>>
  BY DEF Free
<1>2. \A k : MadeAt(p, k)' = MadeAt(p, k) /\ Calls(p, k)' = Calls(p, k)
  BY <1>1, NothingMade
<1>3. CallsDone(p)'
  BY <1>1, <1>2 DEF Entries, CallsDone, Steps
<1>4. InCall(p)' /\ ~Busy(p)
  BY <1>1 DEF InCall, Busy
<1> QED
  BY <1>1, <1>3, <1>4, EntriesByStep

\* When the barrier ends for p, all members have made their entry, and rank 0
\* has left it before.
LEMMA BarrierOver ==
    ASSUME NEW n, IInv(n), NEW p \in Job(n), Barrier(p)
    PROVE  /\ \A q \in Together(p, Turn(p)) : MadeAt(q, Turn(p))
           /\ RootOf(p, Turn(p)) = p \/ step[RootOf(p, Turn(p))] >= Turn(p)
<1>1. /\ Tables(n) /\ Entries(n) /\ pc[p] = "barrier" /\ Busy(p)
      /\ \A q \in Awaited(p) : chan[q][p] # <<>>
  BY DEF IInv, Barrier, Busy
<1>2. /\ Awaited(p) = IF p = RootOf(p, Turn(p)) THEN Together(p, Turn(p)) \ {p}
                       ELSE {RootOf(p, Turn(p))}
      /\ Turn(p) \in Steps /\ MadeAt(p, Turn(p))
  BY <1>1, AwaitedFacts, BusyFacts, MadeBounds
<1>3. CASE RootOf(p, Turn(p)) = p
  <2>1. ASSUME NEW q \in Together(p, Turn(p)), q # p PROVE MadeAt(q, Turn(p))
    <3>1. Turn(q) = Turn(p) /\ pc[q] = "barrier" /\ q \in Job(n)
      BY <1>1, <1>2, <1>3, <2>1, ReportFrom, Partner
    <3>2. MadeAt(q, Turn(q))
      BY <1>1, <3>1, MadeBounds
    <3> QED
      BY <3>1, <3>2
  <2> QED
    BY <2>1, <1>2, <1>3
<1>4. CASE RootOf(p, Turn(p)) # p
  <2> DEFINE root == RootOf(p, Turn(p))
  <2>1. chan[root][p] # <<>> /\ root # p
    BY <1>1, <1>2, <1>4
  <2> HIDE DEF root
  <2>2. root = RootOf(p, Turn(p))
    BY DEF root
  <2>3. /\ root \in Job(n) /\ root \in Together(p, Turn(p))
        /\ step[root] >= Turn(p) /\ MadeAt(root, Turn(p))
    BY <1>1, <2>1, <2>2, AnswerFrom
  <2>4. Together(root, Turn(p)) = Together(p, Turn(p))
    BY <1>1, <2>3, Partner
  <2>5. MadeByAll(root, Turn(p))
    <3>1. Turn(p) # 0 /\ Turn(p) \in Nat
      BY <1>1, <1>2, StepFacts
    <3> QED
      BY <1>1, <2>3, <3>1 DEF Entries
  <2>6. Turn(p) =< step[root]
    <3>1. Turn(p) \in Nat /\ step[root] \in Nat
      BY <1>1, <1>2, <2>3, StepFacts, MadeBounds
    <3> QED
      BY <3>1, <2>3
  <2> QED
    BY <2>2, <2>3, <2>4, <2>5, <2>6 DEF MadeByAll
<1> QED
  BY <1>3, <1>4

LEMMA BarrierEntries ==
    ASSUME NEW n, IInv(n), NEW p \in Job(n), Barrier(p)
    PROVE  Entries(n)'
<1>1. /\ Tables(n) /\ Entries(n) /\ pc[p] = "barrier" /\ Busy(p) /\ p \in Procs
      /\ pc' = [pc EXCEPT ![p] = "run"] /\ UNCHANGED <<program, tie, pool, made>>
  BY DEF IInv, Barrier, Busy, Tables, Types, Setting
<1>2. AllUp(n) /\ MadeAt(p, Turn(p)) /\ step[p] \in Nat
  BY <1>1, BusyFacts, MadeBounds
<1>3. /\ step'[p] = Turn(p) /\ step'[p] # step[p]
      /\ \A q \in Procs : q # p => step'[q] = step[q] /\ pc'[q] = pc[q]
      /\ pc'[p] = "run"
  <2>1. step'[p] = Turn(p) /\ \A q \in Procs : q # p => step'[q] = step[q]
    BY <1>1, BarrierTables
  <2>2. pc'[p] = "run" /\ \A q \in Procs : q # p => pc'[q] = pc[q]
    BY <1>1 DEF Tables, Types
  <2> QED
    BY <2>1, <2>2, <1>2 DEF Turn
<1>4. \A k : MadeAt(p, k)' = MadeAt(p, k) /\ Calls(p, k)' = Calls(p, k)
  BY <1>1, NothingMade
<1>5. CallsDone(p)'
  <2>1. ASSUME NEW k \in Steps, k =< Turn(p), Calls(p, k) PROVE MadeAt(p, k)
    <3>1. CASE k = Turn(p)
      BY <3>1, <1>2
    <3>2. CASE k # Turn(p)
      <4>1. k =< step[p]
        BY <2>1, <3>2, <1>1, <1>2, StepFacts DEF Turn
      <4> QED
        BY <2>1, <4>1, <1>1 DEF Entries, CallsDone
    <3> QED
      BY <3>1, <3>2
  <2>2. Steps' = Steps
    BY <1>1 DEF Steps
  <2> QED
    BY <2>1, <2>2, <1>3, <1>4 DEF CallsDone
<1>6. InCall(p)'
  BY <1>3 DEF InCall, Busy
<1>7. \A k : k = Turn(p) /\ MadeAt(p, k) =>
         /\ \A q \in Together(p, k) : MadeAt(q, k)
         /\ RootOf(p, k) = p \/ step[RootOf(p, k)] >= k
  BY BarrierOver
<1> QED
  BY <1>1, <1>2, <1>3, <1>5, <1>6, <1>7, EntriesByStep

\* Members of one group split alike.
LEMMA SameSplit ==
    ASSUME NEW n, Tables(n), Entries(n), AllUp(n), NEW p \in Job(n), NEW k \in Steps,
           k =< Turn(p), Calls(p, k), NEW q \in Group(SplitOf(n, p, Parent(p, k), k))
    PROVE  /\ q \in Together(p, k) /\ Calls(q, k)
           /\ Alike(SplitOf(n, p, Parent(p, k), k), SplitOf(n, q, Parent(q, k), k))
<1> DEFINE e == SplitOf(n, p, Parent(p, k), k)
<1>1. /\ WellFormed(n, p, Parent(p, k)) /\ p \in Together(p, k) /\ Setting(n)
  BY ParentRight DEF Tables, Types
<1>2. /\ e.color = program[k].color[p]
      /\ Group(e) = IF e.color = UNDEFINED THEN {p}
                      ELSE {r \in Together(p, k) : program[k].color[r] = e.color}
  BY <1>1, SplitOfRight DEF Together
<1> HIDE DEF e
<1>3. q \in Group(e)
  BY DEF e
<1>4. CASE e.color = UNDEFINED
  <2>1. q = p
    BY <1>2, <1>3, <1>4
  <2> QED
    BY <2>1, <1>1 DEF Alike
<1>5. CASE e.color # UNDEFINED
  <2>1. q \in Together(p, k) /\ program[k].color[q] = program[k].color[p]
    BY <1>2, <1>3, <1>5
  <2>2. q \in Job(n) /\ Calls(q, k) /\ Alike(Parent(p, k), Parent(q, k))
    BY <2>1, Peers
  <2>3. WellFormed(n, q, Parent(q, k))
    BY <2>2, ParentRight
  <2>4. program[k].color[p] # UNDEFINED
    BY <1>2, <1>5
  <2>5. Alike(SplitOf(n, p, Parent(p, k), k), SplitOf(n, q, Parent(q, k), k))
    BY <1>1, <2>1, <2>2, <2>3, <2>4, SplitOfAlike
  <2> QED
    BY <2>1, <2>2, <2>5
<1> QED
  BY <1>4, <1>5

\* The names of the steps after Gather.
LEMMA GatherNames ==
    ASSUME NEW n, IInv(n), NEW p \in Job(n), Gather(p)
    PROVE  /\ \A q \in Job(n) : \A k : MadeAt(q, k)' <=> MadeAt(q, k) \/ (q = p /\ k = Turn(p))
           /\ \A q \in Job(n) : \A k : MadeAt(q, k) => Of(q, k)' = Of(q, k)
           /\ \A k : k = Turn(p) => Of(p, k)' = SplitOf(n, p, Parent(p, k), k)
           /\ \A q \in Job(n) : \A k \in Steps : MadeAt(q, program[k].on) =>
                /\ Parent(q, k)' = Parent(q, k) /\ Together(q, k)' = Together(q, k)
                /\ RootOf(q, k)' = RootOf(q, k)
           /\ \A q \in Job(n) : \A k \in Steps : Calls(q, k) => Calls(q, k)'
           /\ \A q \in Job(n) : \A k \in Steps : k =< step[q] /\ Calls(q, k)' => Calls(q, k)
<1> DEFINE entry == SplitOf(n, p, Parent(p, Turn(p)), Turn(p))
           from == From(p)
<1>1. Tables(n) /\ Entries(n) /\ Busy(p) /\ pc[p] = "gather"
  BY DEF IInv, Gather, Busy
<1>2. /\ Makes(p, entry, from) /\ UNCHANGED <<program, step>> /\ pool[p] # <<>>
      /\ step[p] \in Nat
  BY <1>1, GatherFacts, BusyFacts, MadeBounds DEF Makes
<1> HIDE DEF entry, from
<1>3. /\ \A q \in Job(n) : \A k : MadeAt(q, k)' <=> MadeAt(q, k) \/ (q = p /\ k = Turn(p))
      /\ \A q \in Job(n) : \A k : MadeAt(q, k) => Of(q, k)' = Of(q, k)
      /\ \A k : k = Turn(p) => Of(p, k)' = entry
  <2>1. Tables(n) /\ pool[p] # <<>> /\ pc[p] = "gather" /\ Makes(p, entry, from)
    BY <1>1, <1>2
  <2>2. NewName(n, p, entry)
    BY <2>1, OneMade
  <2> QED
    BY <2>2 DEF NewName
<1>4. \A k : k = Turn(p) => Of(p, k)' = SplitOf(n, p, Parent(p, k), k)
  BY <1>3 DEF entry
<1>5. \A q \in Job(n) : \A k \in Steps : MadeAt(q, program[k].on) =>
         /\ Parent(q, k)' = Parent(q, k) /\ Together(q, k)' = Together(q, k)
         /\ RootOf(q, k)' = RootOf(q, k)
  <2> TAKE q \in Job(n)
  <2> TAKE k \in Steps
  <2> HAVE MadeAt(q, program[k].on)
  <2>1. \A j : MadeAt(q, j) => Of(q, j)' = Of(q, j)
    BY <1>3
  <2>2. Parent(q, k)' = Parent(q, k)
    BY <2>1, <1>2 DEF Parent
  <2> QED
    BY <2>2 DEF Together, RootOf, Group
<1>6. \A q \in Job(n) : \A k \in Steps : Calls(q, k) => Calls(q, k)'
  <2> TAKE q \in Job(n)
  <2> TAKE k \in Steps
  <2> HAVE Calls(q, k)
  <2>1. MadeAt(q, program[k].on) /\ Parent(q, k).color \in program[k].who
    BY DEF Calls
  <2>2. Parent(q, k)' = Parent(q, k) /\ program' = program
    BY <2>1, <1>2, <1>5
  <2>3. MadeAt(q, program[k].on)'
    BY <2>1, <1>2, <1>3 DEF MadeAt
  <2> QED
    BY <2>1, <2>2, <2>3 DEF Calls
<1>7. \A q \in Job(n) : \A k \in Steps : k =< step[q] /\ Calls(q, k)' => Calls(q, k)
  <2> TAKE q \in Job(n)
  <2> TAKE k \in Steps
  <2> HAVE k =< step[q] /\ Calls(q, k)'
  <2> DEFINE j == program[k].on
  <2>1. program' = program /\ j < k /\ k \in Nat /\ j \in Nat /\ step[q] \in Nat
    BY <1>1, <1>2, StepFacts, MadeBounds
  <2>2. \A i : i = j => MadeAt(q, i)'
    BY <2>1 DEF Calls, MadeAt
  <2>3. ~(q = p /\ j = Turn(p))
    BY <2>1 DEF Turn
  <2>4. MadeAt(q, j)
    <3> HIDE DEF j
    <3>1. \A i : MadeAt(q, i)' <=> MadeAt(q, i) \/ (q = p /\ i = Turn(p))
      BY <1>3
    <3> QED
      BY <2>2, <2>3, <3>1
  <2>5. Parent(q, k)' = Parent(q, k)
    BY <2>4, <1>5
  <2> QED
    BY <2>1, <2>4, <2>5 DEF Calls
<1> QED
  BY <1>3, <1>4, <1>5, <1>6, <1>7

\* All members of a call are inside it when p makes its entry.
LEMMA GatherPeers ==
    ASSUME NEW n, IInv(n), NEW p \in Job(n), Gather(p), NEW q \in Together(p, Turn(p)), q # p
    PROVE  /\ q \in Job(n) /\ Turn(q) = Turn(p) /\ Busy(q) /\ chan[q][p] # <<>>
           /\ Answer(q, p) = <<>> /\ chan[q][p] = Choice(q, p) \o Report(q, p)
           /\ Tail(chan[q][p]) = Report(q, p)
<1>1. pc[p] = "gather" /\ Tables(n) /\ Entries(n) /\ Busy(p)
  BY DEF Gather, IInv, Busy
<1>2. chan[q][p] # <<>>
  BY GatherFacts
<1> QED
  BY <1>1, <1>2, GatherFrom, Partner

LEMMA GatherEntries ==
    ASSUME NEW n, IInv(n), NEW p \in Job(n), Gather(p)
    PROVE  Entries(n)'
<1>1. /\ Tables(n) /\ Entries(n) /\ pc[p] = "gather" /\ Busy(p) /\ p \in Procs
      /\ Job(n) \subseteq Procs
  BY DEF IInv, Gather, Busy, Tables, Types, Setting
<1>2. /\ UNCHANGED <<program, tie, handle, step>> /\ Steps' = Steps
      /\ pc'[p] = "barrier" /\ \A q \in Procs : q # p => pc'[q] = pc[q]
  <2>1. UNCHANGED <<program, tie, handle, step>> /\ pc' = [pc EXCEPT ![p] = "barrier"]
    BY GatherFacts
  <2>2. pc'[p] = "barrier" /\ \A q \in Procs : q # p => pc'[q] = pc[q]
    BY <2>1, <1>1 DEF Tables, Types
  <2> QED
    BY <2>1, <2>2 DEF Steps
<1>3. /\ \A q \in Job(n) : \A k : MadeAt(q, k)' <=> MadeAt(q, k) \/ (q = p /\ k = Turn(p))
      /\ \A q \in Job(n) : \A k : MadeAt(q, k) => Of(q, k)' = Of(q, k)
      /\ \A k : k = Turn(p) => Of(p, k)' = SplitOf(n, p, Parent(p, k), k)
  BY GatherNames
<1>4. /\ \A q \in Job(n) : \A k \in Steps : MadeAt(q, program[k].on) =>
           /\ Parent(q, k)' = Parent(q, k) /\ Together(q, k)' = Together(q, k)
           /\ RootOf(q, k)' = RootOf(q, k)
      /\ \A q \in Job(n) : \A k \in Steps : Calls(q, k) => Calls(q, k)'
      /\ \A q \in Job(n) : \A k \in Steps : k =< step[q] /\ Calls(q, k)' => Calls(q, k)
  BY GatherNames
<1>5. /\ Turn(p) \in Steps /\ Calls(p, Turn(p)) /\ AllUp(n) /\ ~MadeAt(p, Turn(p))
      /\ step[p] \in Nat /\ Turn(p) \in Nat /\ Turn(p) # 0
  <2>1. Turn(p) \in Steps /\ Calls(p, Turn(p)) /\ AllUp(n) /\ step[p] \in Nat
    BY <1>1, BusyFacts, MadeBounds
  <2>2. ~MadeAt(p, Turn(p))
    BY <1>1, <2>1, MadeBounds DEF Turn
  <2> QED
    BY <2>1, <2>2, <1>1, StepFacts
<1>6. \A q \in Job(n) : \A k \in Steps : Calls(q, k) =>
         /\ Parent(q, k)' = Parent(q, k) /\ Together(q, k)' = Together(q, k)
         /\ RootOf(q, k)' = RootOf(q, k)
  BY <1>4 DEF Calls
<1>7. ASSUME NEW q \in Job(n) PROVE CallsDone(q)' /\ InCall(q)'
  <2>1. CallsDone(q)'
    <3>1. ASSUME NEW k \in Steps, k =< step[q], Calls(q, k)' PROVE MadeAt(q, k)'
      <4>1. Calls(q, k)
        BY <3>1, <1>4
      <4>2. MadeAt(q, k)
        BY <3>1, <4>1, <1>1 DEF Entries, CallsDone
      <4> QED
        BY <4>2, <1>3
    <3> QED
      BY <3>1, <1>2 DEF CallsDone
  <2>2. InCall(q)'
    <3>1. Busy(q)' => Busy(q)
      BY <1>1, <1>2 DEF Busy
    <3>2. \A k : (Turn(q) = k)' <=> Turn(q) = k
      BY <1>2 DEF Turn
    <3>3. InCall(q)
      BY <1>1 DEF Entries
    <3> QED
      BY <3>1, <3>2, <3>3, <1>2, <1>4 DEF InCall
  <2> QED
    BY <2>1, <2>2
<1>8. ASSUME NEW q \in Job(n), NEW k, MadeAt(q, k)
      PROVE  /\ EntryRight(n, q, k)'
             /\ k # 0 => /\ k \in Steps /\ Calls(q, k) /\ k =< Turn(q)
                         /\ Of(q, k) = SplitOf(n, q, Parent(q, k), k)
                         /\ Together(q, k) \subseteq Job(n)
  <2>1. EntryRight(n, q, k)
    BY <1>1, <1>8 DEF Entries
  <2>2. k # 0 => /\ k \in Steps /\ Calls(q, k) /\ k =< Turn(q)
                 /\ Of(q, k) = SplitOf(n, q, Parent(q, k), k)
                 /\ Together(q, k) \subseteq Job(n)
    BY <2>1, <1>1, <1>8, MadeFacts, ParentRight DEF EntryRight
  <2>3. k # 0 => Parent(q, k)' = Parent(q, k) /\ Calls(q, k)'
    BY <2>2, <1>4, <1>6
  <2>4. Of(q, k)' = Of(q, k)
    BY <1>3, <1>8
  <2> QED
    BY <2>1, <2>2, <2>3, <2>4, <1>2, EntryRightKept
<1>9. ASSUME NEW q \in Job(n), NEW k, MadeAt(q, k)
      PROVE  AlikeAt(q, k)'
  <2>1. AlikeAt(q, k) /\ Of(q, k)' = Of(q, k)
    BY <1>1, <1>3, <1>9 DEF Entries
  <2>2. Group(Of(q, k)) \subseteq Job(n)
    BY <1>1, <1>9, RootRanksInJob DEF Entries, EntryRight
  <2>3. ASSUME NEW r \in Group(Of(q, k)), MadeAt(r, k)'
        PROVE  Alike(Of(q, k), Of(r, k)')
    <3>1. r \in Job(n)
      BY <2>2
    <3>2. MadeAt(r, k) \/ (r = p /\ k = Turn(p))
      BY <3>1, <2>3, <1>3
    <3>3. CASE MadeAt(r, k)
      <4>1. Of(r, k)' = Of(r, k)
        BY <3>1, <3>3, <1>3
      <4> QED
        BY <4>1, <3>3, <2>1 DEF AlikeAt
    <3>4. CASE r = p /\ k = Turn(p)
      <4>1. /\ k \in Steps /\ Calls(q, k) /\ k =< Turn(q)
            /\ Of(q, k) = SplitOf(n, q, Parent(q, k), k)
        BY <3>4, <1>5, <1>8, <1>9
      <4>2. r \in Group(SplitOf(n, q, Parent(q, k), k))
        BY <4>1
      <4>3. Alike(Of(q, k), SplitOf(n, p, Parent(p, k), k))
        BY <4>1, <4>2, <3>4, <1>1, <1>5, SameSplit
      <4>4. Of(r, k)' = SplitOf(n, p, Parent(p, k), k)
        BY <3>4, <1>3
      <4> QED
        BY <4>3, <4>4
    <3> QED
      BY <3>2, <3>3, <3>4
  <2> QED
    BY <2>1, <2>3 DEF AlikeAt
<1>10. ASSUME NEW q \in Job(n), NEW k, MadeAt(q, k), k # 0
       PROVE  MadeByAll(q, k)' /\ BegunByAll(q, k)' /\ RootFirst(q, k)'
  <2>1. /\ MadeByAll(q, k) /\ BegunByAll(q, k) /\ RootFirst(q, k)
        /\ k \in Steps /\ Calls(q, k) /\ Together(q, k) \subseteq Job(n)
    BY <1>1, <1>8, <1>10 DEF Entries
  <2>2. Together(q, k)' = Together(q, k) /\ RootOf(q, k)' = RootOf(q, k)
    BY <2>1, <1>6
  <2>3. MadeByAll(q, k)'
    BY <2>1, <2>2, <1>2, <1>3 DEF MadeByAll
  <2>4. RootFirst(q, k)'
    BY <2>1, <2>2, <1>2 DEF RootFirst
  <2>5. \A r \in Together(q, k) : step[r] >= k \/ (Turn(r) = k /\ Busy(r)')
    BY <2>1, <1>1, <1>2 DEF BegunByAll, Busy
  <2>6. BegunByAll(q, k)'
    BY <2>2, <2>5, <1>2 DEF BegunByAll, Turn
  <2> QED
    BY <2>3, <2>4, <2>6
\* The new entry.
<1>11. ASSUME NEW k, k = Turn(p)
       PROVE  EntryRight(n, p, k)' /\ AlikeAt(p, k)'
  <2> DEFINE e == SplitOf(n, p, Parent(p, k), k)
  <2>1. Of(p, k)' = e /\ k \in Steps /\ Calls(p, k) /\ Calls(p, k)' /\ k # 0
        /\ Parent(p, k)' = Parent(p, k)
    BY <1>3, <1>4, <1>5, <1>6, <1>11
  <2>2. WellFormed(n, p, e)
    <3>1. WellFormed(n, p, Parent(p, k)) /\ Setting(n)
      BY <2>1, <1>1, ParentRight DEF Tables, Types
    <3> QED
      BY <2>1, <3>1, SplitOfRight
  <2>3. Of(p, k)' = SplitOf(n, p, Parent(p, k), k)'
    BY <2>1, <1>2, SplitOfKept
  <2>4. EntryRight(n, p, k)'
    <3> HIDE DEF e
    <3>1. WellFormed(n, p, Of(p, k))'
      BY <2>1, <2>2 DEF WellFormed
    <3> QED
      BY <2>1, <2>3, <3>1 DEF EntryRight
  <2>5. Group(e) \subseteq Job(n)
    BY <2>2, RootRanksInJob
  <2>6. ASSUME NEW r \in Group(e), MadeAt(r, k)'
        PROVE  Alike(e, Of(r, k)')
    <3>1. /\ r \in Job(n) /\ Alike(e, SplitOf(n, r, Parent(r, k), k))
      BY <2>1, <2>5, <2>6, <1>1, <1>5, <1>11, SameSplit
    <3>2. CASE r = p
      BY <3>2, <2>1 DEF Alike
    <3>3. CASE r # p
      <4>1. MadeAt(r, k)
        BY <3>1, <3>3, <2>6, <1>3
      <4>2. Of(r, k)' = SplitOf(n, r, Parent(r, k), k)
        BY <4>1, <3>1, <2>1, <1>3, <1>8
      <4> QED
        BY <4>2, <3>1
    <3> QED
      BY <3>2, <3>3
  <2> HIDE DEF e
  <2>7. AlikeAt(p, k)'
    BY <2>1, <2>6 DEF AlikeAt
  <2> QED
    BY <2>4, <2>7
<1>12. ASSUME NEW k, k = Turn(p)
       PROVE  MadeByAll(p, k)' /\ BegunByAll(p, k)' /\ RootFirst(p, k)'
  <2>1. ~(k =< step[p]) /\ Together(p, k)' = Together(p, k)
    BY <1>5, <1>6, <1>12 DEF Turn
  <2>2. MadeByAll(p, k)' /\ RootFirst(p, k)'
    BY <2>1, <1>2 DEF MadeByAll, RootFirst
  <2>3. \A r \in Together(p, k) : Turn(r) = k /\ Busy(r)'
    <3>1. \A r \in Together(p, k) : r # p => r \in Job(n) /\ Turn(r) = k /\ Busy(r)
      BY <1>12, GatherPeers
    <3> QED
      BY <3>1, <1>1, <1>2, <1>12 DEF Busy
  <2>4. BegunByAll(p, k)'
    BY <2>1, <2>3, <1>2 DEF BegunByAll, Turn
  <2> QED
    BY <2>2, <2>4
<1>13. ASSUME NEW q \in Job(n), NEW k, MadeAt(q, k)'
       PROVE  /\ EntryRight(n, q, k)' /\ AlikeAt(q, k)'
              /\ k # 0 => MadeByAll(q, k)' /\ BegunByAll(q, k)' /\ RootFirst(q, k)'
  <2>1. MadeAt(q, k) \/ (q = p /\ k = Turn(p))
    BY <1>3, <1>13
  <2> QED
    BY <2>1, <1>8, <1>9, <1>10, <1>11, <1>12
<1> QED
  BY <1>7, <1>13 DEF Entries

-----------------------------------------------------------------------------
(* What a step does to the messages on the way. *)

\* The parts of the channel from a to b are what they were.
WireParts(a, b) ==
    \A k : /\ Answered(a, b, k)' <=> Answered(a, b, k)
           /\ Chosen(a, b, k)' <=> Chosen(a, b, k)
           /\ Reported(a, b, k)' <=> Reported(a, b, k)

LEMMA PartKept ==
    ASSUME NEW a, NEW b, step[a] \in Int, step[b] \in Int, step'[a] \in Int, step'[b] \in Int,
           program' = program
    PROVE  /\ (\A k : Answered(a, b, k)' <=> Answered(a, b, k)) => Answer(a, b)' = Answer(a, b)
           /\ (\A k : Chosen(a, b, k)' <=> Chosen(a, b, k)) => Choice(a, b)' = Choice(a, b)
           /\ (\A k : Reported(a, b, k)' <=> Reported(a, b, k)) => Report(a, b)' = Report(a, b)
<1>1. ASSUME \A k : Answered(a, b, k)' <=> Answered(a, b, k)
      PROVE  Answer(a, b)' = Answer(a, b)
  <2>1. CASE \E k : Answered(a, b, k)
    <3>1. PICK k : Answered(a, b, k)
      BY <2>1
    <3>2. Turn(b) = k /\ (Turn(b) = k)'
      BY <3>1, <1>1 DEF Answered
    <3>3. step'[b] = step[b]
      BY <3>2 DEF Turn
    <3>4. Signal(Turn(b))' = Signal(Turn(b))
      BY <3>3 DEF Signal, Message, Turn
    <3> QED
      BY <2>1, <3>1, <3>4, <1>1 DEF Answer
  <2>2. CASE ~\E k : Answered(a, b, k)
    BY <2>2, <1>1 DEF Answer
  <2> QED
    BY <2>1, <2>2
<1>2. ASSUME \A k : Chosen(a, b, k)' <=> Chosen(a, b, k)
      PROVE  Choice(a, b)' = Choice(a, b)
  <2>1. CASE \E k : Chosen(a, b, k)
    <3>1. PICK k : Chosen(a, b, k)
      BY <2>1
    <3>2. Turn(a) = k /\ (Turn(a) = k)'
      BY <3>1, <1>2 DEF Chosen
    <3>3. step'[a] = step[a]
      BY <3>2 DEF Turn
    <3>4. Message(Config(a), Turn(a))' = Message(Config(a), Turn(a))
      BY <3>3 DEF Message, Turn, Config, Now
    <3> QED
      BY <2>1, <3>1, <3>4, <1>2 DEF Choice
  <2>2. CASE ~\E k : Chosen(a, b, k)
    BY <2>2, <1>2 DEF Choice
  <2> QED
    BY <2>1, <2>2
<1>3. ASSUME \A k : Reported(a, b, k)' <=> Reported(a, b, k)
      PROVE  Report(a, b)' = Report(a, b)
  <2>1. CASE \E k : Reported(a, b, k)
    <3>1. PICK k : Reported(a, b, k)
      BY <2>1
    <3>2. Turn(a) = k /\ (Turn(a) = k)'
      BY <3>1, <1>3 DEF Reported
    <3>3. step'[a] = step[a]
      BY <3>2 DEF Turn
    <3>4. Signal(Turn(a))' = Signal(Turn(a))
      BY <3>3 DEF Signal, Message, Turn
    <3> QED
      BY <2>1, <3>1, <3>4, <1>3 DEF Report
  <2>2. CASE ~\E k : Reported(a, b, k)
    BY <2>2, <1>3 DEF Report
  <2> QED
    BY <2>1, <2>2
<1> QED
  BY <1>1, <1>2, <1>3

LEMMA WireKept ==
    ASSUME NEW n, Tables(n), Tables(n)', Wires(n), NEW a \in Job(n), NEW b \in Job(n), a # b,
           program' = program, chan'[a][b] = chan[a][b], WireParts(a, b)
    PROVE  Wire(a, b)'
<1>1. step[a] \in Int /\ step[b] \in Int /\ step'[a] \in Int /\ step'[b] \in Int
  BY DEF Tables, Types, Setting
<1>2. Answer(a, b)' = Answer(a, b) /\ Choice(a, b)' = Choice(a, b) /\ Report(a, b)' = Report(a, b)
  BY <1>1, PartKept DEF WireParts
<1>3. chan[a][b] = Answer(a, b) \o (Choice(a, b) \o Report(a, b))
  BY DEF Wires, Wire
<1> QED
  BY <1>2, <1>3 DEF Wire

\* Processes a step has left alone.
LEMMA WiresOfOthers ==
    ASSUME NEW a, NEW b, 
           \A q \in {a, b} : step'[q] = step[q] /\ pc'[q] = pc[q],
           \A q \in {a, b} : \A k : MadeAt(q, k)' <=> MadeAt(q, k),
           \A q \in {a, b} : \A k : Busy(q) /\ Turn(q) = k =>
             Together(q, k)' = Together(q, k) /\ RootOf(q, k)' = RootOf(q, k)
    PROVE  WireParts(a, b)
<1>1. \A q \in {a, b} : \A k : /\ (Turn(q) = k)' <=> Turn(q) = k
                               /\ Busy(q)' <=> Busy(q)
  BY DEF Turn, Busy
<1>2. ASSUME NEW k PROVE Answered(a, b, k)' <=> Answered(a, b, k)
  BY <1>1 DEF Answered, Busy
<1>3. ASSUME NEW k PROVE Chosen(a, b, k)' <=> Chosen(a, b, k)
  BY <1>1 DEF Chosen
<1>4. ASSUME NEW k PROVE Reported(a, b, k)' <=> Reported(a, b, k)
  BY <1>1 DEF Reported, Busy
<1> QED
  BY <1>2, <1>3, <1>4 DEF WireParts

\* Whoever is outside of a call is behind the one that another member is in.
LEMMA OutsideIsPast ==
    ASSUME NEW n, Tables(n), Entries(n), NEW p \in Job(n), ~Busy(p),
           NEW a \in Job(n), pc[a] = "barrier", p \in Together(a, Turn(a))
    PROVE  step[p] >= Turn(a)
<1>1. MadeAt(a, Turn(a)) /\ Turn(a) # 0
  BY MadeBounds DEF Turn
<1>2. BegunByAll(a, Turn(a))
  BY <1>1 DEF Entries
<1> QED
  BY <1>2 DEF BegunByAll

LEMMA SkipWires ==
    ASSUME NEW n, IInv(n), NEW p \in Job(n), AllUp(n), Skip(p)
    PROVE  Wires(n)'
<1>1. /\ Tables(n) /\ Entries(n) /\ Wires(n) /\ Tables(n)'
      /\ pc[p] = "run" /\ UNCHANGED <<program, tie, pool, pc, chan, made>> /\ p \in Procs
      /\ Job(n) \subseteq Procs
  BY SkipTables DEF IInv, Skip, Tables, Types, Setting
<1>2. /\ step[p] \in Nat /\ step'[p] = Turn(p) /\ \A q \in Procs : q # p => step'[q] = step[q]
  BY <1>1, MadeBounds, NextStepFacts DEF Skip
<1>3. \A q, k : /\ MadeAt(q, k)' = MadeAt(q, k) /\ Together(q, k)' = Together(q, k)
                /\ RootOf(q, k)' = RootOf(q, k)
  BY <1>1, NothingMade
<1>4. ~Busy(p) /\ ~Busy(p)'
  BY <1>1 DEF Busy
<1>5. ASSUME NEW a \in Job(n), NEW k, pc[a] = "barrier", Turn(a) = k, RootOf(a, k) = p
      PROVE  step[p] >= k /\ step'[p] >= k
  <2>1. Busy(a)
    BY <1>5 DEF Busy
  <2>2. p \in Together(a, Turn(a)) /\ step[a] \in Nat
    BY <1>1, <1>5, <2>1, BusyFacts, ParentRight, MadeBounds
  <2>3. step[p] >= k
    BY <1>1, <1>4, <1>5, <2>2, OutsideIsPast
  <2> QED
    BY <2>2, <2>3, <1>2, <1>5 DEF Turn
<1>6. ASSUME NEW a \in Job(n), NEW b \in Job(n), a # b PROVE Wire(a, b)'
  <2>1. CASE a # p /\ b # p
    <3>1. \A q \in {a, b} : step'[q] = step[q] /\ pc'[q] = pc[q]
      BY <2>1, <1>1, <1>2
    <3> QED
      BY <3>1, <1>1, <1>3, <1>6, WiresOfOthers, WireKept
  <2>2. CASE a = p
    <3>1. step'[b] = step[b] /\ pc'[b] = pc[b]
      BY <2>2, <1>1, <1>2, <1>6
    <3>2. \A k : Answered(a, b, k)' <=> Answered(a, b, k)
      BY <2>2, <3>1, <1>3, <1>5 DEF Answered, Turn
    <3>3. \A k : /\ ~Chosen(a, b, k) /\ ~Chosen(a, b, k)'
                 /\ ~Reported(a, b, k) /\ ~Reported(a, b, k)'
      BY <2>2, <1>4 DEF Chosen, Reported, Busy
    <3>4. WireParts(a, b)
      BY <3>2, <3>3 DEF WireParts
    <3> QED
      BY <3>4, <1>1, <1>6, WireKept
  <2>3. CASE b = p
    <3>1. step'[a] = step[a] /\ pc'[a] = pc[a]
      BY <2>3, <1>1, <1>2, <1>6
    <3>2. \A k : ~Answered(a, b, k) /\ ~Answered(a, b, k)'
      BY <2>3, <1>4 DEF Answered, Busy
    <3>3. \A k : Chosen(a, b, k)' <=> Chosen(a, b, k)
      BY <3>1, <1>3 DEF Chosen, Busy, Turn
    <3>4. \A k : ~Reported(a, b, k) /\ ~Reported(a, b, k)'
      <4> TAKE k
      <4>1. (Turn(a) = k)' <=> Turn(a) = k
        BY <3>1 DEF Turn
      <4>2. pc[a] = "barrier" /\ Turn(a) = k /\ RootOf(a, k) = p =>
              ~(step[p] < k) /\ ~(step'[p] < k)
        <5> SUFFICES ASSUME pc[a] = "barrier", Turn(a) = k, RootOf(a, k) = p
                     PROVE  ~(step[p] < k) /\ ~(step'[p] < k)
          OBVIOUS
        <5>1. step[p] >= k /\ step'[p] >= k
          BY <1>5
        <5>2. k \in Nat /\ step[p] \in Nat /\ step'[p] \in Nat
          BY <1>1, <1>2, MadeBounds DEF Turn
        <5> QED
          BY <5>1, <5>2
      <4> QED
        BY <4>1, <4>2, <2>3, <3>1, <1>3 DEF Reported
    <3>5. WireParts(a, b)
      BY <3>2, <3>3, <3>4 DEF WireParts
    <3> QED
      BY <3>5, <1>1, <1>6, WireKept
  <2> QED
    BY <2>1, <2>2, <2>3
<1> QED
  BY <1>6 DEF Wires

LEMMA FreeWires ==
    ASSUME NEW n, IInv(n), NEW p \in Job(n), AllUp(n), Free(p)
    PROVE  Wires(n)'
<1>1. /\ Tables(n) /\ Wires(n) /\ Tables(n)'
      /\ UNCHANGED <<program, tie, pool, step, pc, chan, made>>
  BY FreeTables DEF IInv, Free
<1>2. \A q, k : /\ MadeAt(q, k)' = MadeAt(q, k) /\ Together(q, k)' = Together(q, k)
                /\ RootOf(q, k)' = RootOf(q, k)
  BY <1>1, NothingMade
<1>3. ASSUME NEW a \in Job(n), NEW b \in Job(n), a # b PROVE Wire(a, b)'
  <2>1. WireParts(a, b)
    BY <1>1, <1>2, WiresOfOthers
  <2> QED
    BY <2>1, <1>1, <1>3, WireKept
<1> QED
  BY <1>3 DEF Wires

LEMMA AppendParts ==
    ASSUME NEW S, NEW s \in Seq(S), NEW t \in Seq(S), NEW m \in S
    PROVE  /\ Append(s \o (t \o <<>>), m) = s \o (t \o <<m>>)
           /\ t \o <<m>> \in Seq(S) /\ t \o <<>> = t
<1>1. t \o <<>> = t
  OBVIOUS
<1>2. t \o <<m>> = Append(t, m) /\ Append(t, m) \in Seq(S)
  OBVIOUS
<1>3. Append(s \o t, m) = s \o Append(t, m)
  <2> DEFINE x == Append(s \o t, m)
             y == s \o Append(t, m)
  <2>1. s \o t \in Seq(S) /\ Len(s \o t) = Len(s) + Len(t)
        /\ \A i \in 1..(Len(s) + Len(t)) :
             (s \o t)[i] = IF i =< Len(s) THEN s[i] ELSE t[i - Len(s)]
    OBVIOUS
  <2>2. Append(t, m) \in Seq(S) /\ Len(Append(t, m)) = Len(t) + 1
        /\ Append(t, m)[Len(t) + 1] = m
        /\ \A i \in 1..Len(t) : Append(t, m)[i] = t[i]
    OBVIOUS
  <2>3. x \in Seq(S) /\ Len(x) = Len(s) + Len(t) + 1
        /\ x[Len(s) + Len(t) + 1] = m
        /\ \A i \in 1..(Len(s) + Len(t)) : x[i] = (s \o t)[i]
    BY <2>1
  <2> DEFINE u == Append(t, m)
  <2> HIDE DEF u
  <2>4. u \in Seq(S) /\ Len(u) = Len(t) + 1
    BY <2>2 DEF u
  <2>5. s \o u \in Seq(S) /\ Len(s \o u) = Len(s) + Len(t) + 1
        /\ \A i \in 1..(Len(s) + Len(t) + 1) :
             (s \o u)[i] = IF i =< Len(s) THEN s[i] ELSE u[i - Len(s)]
    BY <2>4
  <2> HIDE DEF x
  <2>6. ASSUME NEW i \in 1..(Len(s) + Len(t) + 1) PROVE x[i] = (s \o u)[i]
    <3>1. Len(s) \in Nat /\ Len(t) \in Nat /\ i \in Int
      OBVIOUS
    <3>2. CASE i = Len(s) + Len(t) + 1
      <4>1. i - Len(s) = Len(t) + 1 /\ ~(i =< Len(s))
        BY <3>1, <3>2
      <4> QED
        BY <4>1, <3>2, <2>2, <2>3, <2>5 DEF u
    <3>3. CASE i # Len(s) + Len(t) + 1
      <4>1. i \in 1..(Len(s) + Len(t)) /\ (~(i =< Len(s)) => i - Len(s) \in 1..Len(t))
        BY <3>1, <3>3
      <4> QED
        BY <4>1, <2>1, <2>2, <2>3, <2>5 DEF u
    <3> QED
      BY <3>2, <3>3
  <2>7. x = s \o u
    BY <2>3, <2>5, <2>6
  <2> QED
    BY <2>7 DEF x, u
<1> QED
  BY <1>1, <1>2, <1>3

LEMMA CommSplitWires ==
    ASSUME NEW n, IInv(n), NEW p \in Job(n), AllUp(n), CommSplit(p)
    PROVE  Wires(n)'
<1>1. /\ Tables(n) /\ Entries(n) /\ Wires(n) /\ Tables(n)' /\ Job(n) \subseteq Procs
      /\ pc[p] = "run" /\ step[p] < Len(program) /\ Called(p)
      /\ UNCHANGED <<program, tie, pool, handle, step, made>> /\ pool[p] # <<>>
      /\ \A q \in Procs : q # p => pc'[q] = pc[q]
      /\ chan \in [Procs -> [Procs -> Seq(Messages)]] /\ p \in Procs
  <2>1. Tables(n) /\ Entries(n) /\ Wires(n) /\ Tables(n)'
    BY CommSplitTables DEF IInv
  <2> QED
    BY <2>1 DEF CommSplit, Tables, Types, Setting, AllUp
<1> DEFINE k == Turn(p)
<1>2. /\ k \in Steps /\ Calls(p, k) /\ Now(p) = program[k] /\ step[p] \in Nat
      /\ Entry(p, From(p)) = Parent(p, k) /\ k # 0
  BY <1>1, CalledIsCalls, MadeBounds DEF Turn
<1>3. Others(p, From(p)) = Together(p, k) \ {p}
  BY <1>2 DEF Others, Together, Group
<1>4. \A q, j : /\ MadeAt(q, j)' = MadeAt(q, j) /\ Together(q, j)' = Together(q, j)
                /\ RootOf(q, j)' = RootOf(q, j)
  BY <1>1, NothingMade
<1>5. \A a \in Job(n) : \A j : /\ (Turn(a) = j)' <=> Turn(a) = j
                               /\ step'[a] = step[a] /\ step[a] \in Int
  BY <1>1, MadeBounds DEF Turn
<1>6. ~Busy(p) /\ pc[p] # "barrier" /\ pc'[p] # "barrier"
  BY <1>1 DEF Busy, CommSplit, Tables, Types
\* Nobody's entry is there before all are inside.
<1>7. \A b \in Together(p, k) : b \in Job(n) /\ ~MadeAt(b, k)
  <2> TAKE b \in Together(p, k)
  <2>1. b \in Job(n) /\ Together(b, k) = Together(p, k) /\ p \in Together(b, k)
    <3>1. k =< Turn(p) /\ p \in Together(p, k)
      BY <1>1, <1>2, ParentRight DEF Turn
    <3> HIDE DEF k
    <3>2. b \in Job(n) /\ Together(b, k) = Together(p, k)
      BY <3>1, <1>1, <1>2, Peers
    <3> QED
      BY <3>1, <3>2
  <2> SUFFICES ASSUME MadeAt(b, k) PROVE FALSE
    BY <2>1
  <2>2. BegunByAll(b, k)
    BY <2>1, <1>1, <1>2 DEF Entries
  <2>3. step[p] >= k \/ Busy(p)
    BY <2>1, <2>2 DEF BegunByAll
  <2> QED
    BY <2>3, <1>2, <1>6 DEF Turn
<1>8. \A a \in Job(n) : a # p => pc'[a] = pc[a] /\ (Busy(a)' <=> Busy(a))
  BY <1>1 DEF Busy
<1> HIDE DEF k
\* Only the color and key of p are new.
<1>9. ASSUME NEW a \in Job(n), NEW b \in Job(n), NEW j
      PROVE  /\ Answered(a, b, j)' <=> Answered(a, b, j)
             /\ Reported(a, b, j)' <=> Reported(a, b, j)
             /\ a # p => (Chosen(a, b, j)' <=> Chosen(a, b, j))
  <2>1. \A q \in Job(n) : pc'[q] = "barrier" <=> pc[q] = "barrier"
    BY <1>6, <1>8
  <2>2. Answered(a, b, j)' <=> Answered(a, b, j)
    BY <2>1, <1>4, <1>5 DEF Answered
  <2>3. Reported(a, b, j)' <=> Reported(a, b, j)
    BY <2>1, <1>4, <1>5 DEF Reported
  <2>4. a # p => (Chosen(a, b, j)' <=> Chosen(a, b, j))
    BY <1>4, <1>5, <1>8 DEF Chosen
  <2> QED
    BY <2>2, <2>3, <2>4
<1>10. \A b, j : ~Chosen(p, b, j)
  BY <1>6 DEF Chosen
<1>11. ASSUME NEW a \in Job(n), NEW b \in Job(n), a # b, a # p, chan'[a][b] = chan[a][b]
       PROVE  Wire(a, b)'
  <2>1. WireParts(a, b)
    BY <1>9, <1>11 DEF WireParts
  <2> QED
    BY <2>1, <1>1, <1>11, WireKept
<1>12. CASE Others(p, From(p)) = {}
  <2>1. UNCHANGED chan /\ pc'[p] = "crashed"
    BY <1>1, <1>12 DEF CommSplit, Tables, Types
  <2>2. ASSUME NEW b \in Job(n), p # b PROVE Wire(p, b)'
    <3>1. \A j : ~Chosen(p, b, j)'
      BY <2>1 DEF Chosen, Busy
    <3>2. WireParts(p, b)
      BY <3>1, <1>9, <1>10 DEF WireParts
    <3> QED
      BY <3>2, <2>1, <2>2, <1>1, WireKept
  <2> QED
    BY <2>1, <2>2, <1>11 DEF Wires
<1>13. CASE Others(p, From(p)) # {}
  <2> DEFINE m == Message(Config(p), k)
  <2>1. Sent(p, Together(p, k) \ {p}, m) /\ pc' = [pc EXCEPT ![p] = "gather"]
    BY <1>3, <1>13 DEF CommSplit, k, Turn
  <2>2. pc'[p] = "gather" /\ Busy(p)'
    BY <2>1, <1>1 DEF Busy, Tables, Types
  <2>3. m \in Messages
    <3>1. program[k].color[p] \in Int /\ program[k].key[p] \in Int /\ k \in Nat
      BY <1>1, <1>2, ProgramRight, StepFacts DEF Tables, Types
    <3> QED
      BY <3>1, <1>2 DEF Config, Message, Messages, Configs
  <2>4. (Message(Config(p), Turn(p)))' = m
    BY <1>1 DEF Message, Config, Now, Turn, k
  <2> HIDE DEF m
  <2>5. \A a, b \in Procs : chan'[a][b] =
          IF a = p /\ b \in Together(p, k) \ {p} THEN Append(chan[a][b], m) ELSE chan[a][b]
    BY <2>1, <2>3, <1>1, SentFacts
  <2>6. ASSUME NEW b \in Job(n), p # b PROVE Wire(p, b)'
    <3>1. /\ Answer(p, b)' = Answer(p, b) /\ Report(p, b)' = Report(p, b)
          /\ Answer(p, b) \in Seq(Messages)
      BY <1>1, <1>5, <1>9, PartKept, PartsTyped
    <3>2. Report(p, b) = <<>> /\ Choice(p, b) = <<>>
      BY <1>6, <1>10 DEF Report, Reported, Choice
    <3>3. chan[p][b] = Answer(p, b) \o (<<>> \o <<>>)
      BY <3>2, <2>6, <1>1 DEF Wires, Wire
    <3>4. CASE b \in Together(p, k)
      <4>1. Chosen(p, b, k)'
        BY <3>4, <2>2, <1>4, <1>5, <1>7 DEF Chosen, k
      <4>2. Choice(p, b)' = <<m>>
        BY <4>1, <2>4 DEF Choice
      <4>3. chan'[p][b] = Append(Answer(p, b) \o (<<>> \o <<>>), m)
        BY <3>3, <3>4, <2>5, <2>6, <1>1
      <4>4. <<>> \in Seq(Messages) /\ <<>> \o <<m>> = <<m>> /\ <<m>> \o <<>> = <<m>>
        BY <2>3
      <4>5. chan'[p][b] = Answer(p, b) \o (<<m>> \o <<>>)
        BY <4>3, <4>4, <3>1, <2>3, AppendParts
      <4> QED
        BY <4>2, <4>5, <3>1, <3>2 DEF Wire
    <3>5. CASE b \notin Together(p, k)
      <4>1. \A j : ~Chosen(p, b, j)'
        BY <3>5, <1>4, <1>5 DEF Chosen, k
      <4>2. WireParts(p, b)
        BY <4>1, <1>9, <1>10 DEF WireParts
      <4>3. chan'[p][b] = chan[p][b]
        BY <3>5, <2>5, <1>1
      <4> QED
        BY <4>2, <4>3, <2>6, <1>1, WireKept
    <3> QED
      BY <3>4, <3>5
  <2>7. ASSUME NEW a \in Job(n), NEW b \in Job(n), a # b, a # p PROVE Wire(a, b)'
    <3>1. chan'[a][b] = chan[a][b]
      BY <2>5, <2>7, <1>1
    <3> QED
      BY <3>1, <2>7, <1>11
  <2> QED
    BY <2>6, <2>7, <1>1 DEF Wires
<1> QED
  BY <1>12, <1>13

\* The wires at the end of the barrier, for rank 0.
LEMMA RootBarrierWires ==
    ASSUME NEW n, IInv(n), NEW p \in Job(n), Barrier(p), RootOf(p, Turn(p)) = p
    PROVE  Wires(n)'
<1> DEFINE k == Turn(p)
<1>1. /\ Tables(n) /\ Entries(n) /\ Wires(n) /\ Tables(n)' /\ Job(n) \subseteq Procs
      /\ pc[p] = "barrier" /\ Busy(p) /\ p \in Procs
      /\ pc' = [pc EXCEPT ![p] = "run"] /\ UNCHANGED <<program, tie, pool, made>>
      /\ step'[p] = k /\ \A q \in Procs : q # p => step'[q] = step[q]
  <2>1. Tables(n) /\ Entries(n) /\ Wires(n) /\ Tables(n)'
        /\ step'[p] = k /\ \A q \in Procs : q # p => step'[q] = step[q]
    BY BarrierTables DEF IInv
  <2> QED
    BY <2>1 DEF Barrier, Busy, Tables, Types, Setting
<1>2. /\ pc'[p] = "run" /\ \A q \in Procs : q # p => pc'[q] = pc[q]
      /\ ~Busy(p)'
  BY <1>1 DEF Tables, Types, Busy
<1>3. /\ k \in Steps /\ step[p] \in Nat /\ k = step[p] + 1
      /\ Awaited(p) = Together(p, k) \ {p} /\ p \in Together(p, k)
      /\ \A q \in Awaited(p) : chan[q][p] # <<>>
  <2>1. Calls(p, Turn(p)) /\ Turn(p) \in Steps /\ step[p] \in Nat
    BY <1>1, BusyFacts, MadeBounds
  <2> QED
    BY <2>1, <1>1, AwaitedFacts, ParentRight DEF Barrier, Turn
<1>4. \A q, j : /\ MadeAt(q, j)' = MadeAt(q, j) /\ Together(q, j)' = Together(q, j)
                /\ RootOf(q, j)' = RootOf(q, j)
  BY <1>1, NothingMade
<1>5. /\ \A a, b \in Procs : chan'[a][b] =
           IF a \in Awaited(p) /\ b = p THEN Tail(chan[a][b])
           ELSE IF a = p /\ b \in Awaited(p) THEN Append(chan[a][b], Signal(k))
           ELSE chan[a][b]
  <2>1. BarrierWires(p)
    BY <1>1, BarrierChan
  <2> QED
    BY <2>1 DEF BarrierWires
<1>6. Signal(k) \in Messages
  BY <1>3, SignalTyped
\* Everybody else is in the barrier of the step, and has reported.
<1>7. \A q \in Together(p, k) : q # p =>
         /\ q \in Job(n) /\ Turn(q) = k /\ pc[q] = "barrier" /\ RootOf(q, k) = p
         /\ chan[q][p] = <<Signal(k)>> /\ MadeAt(q, k)
         /\ Answer(q, p) = <<>> /\ Choice(q, p) = <<>>
  <2> TAKE q \in Together(p, k)
  <2> HAVE q # p
  <2>1. q \in Job(n) /\ RootOf(q, k) = p
    BY <1>1, Partner
  <2>2. chan[q][p] # <<>>
    BY <1>3
  <2>3. /\ Turn(q) = k /\ pc[q] = "barrier" /\ chan[q][p] = <<Signal(k)>>
        /\ Answer(q, p) = <<>> /\ Choice(q, p) = <<>>
    BY <1>1, <2>2, ReportFrom
  <2>4. MadeAt(q, Turn(q))
    BY <1>1, <2>1, <2>3, MadeBounds
  <2> QED
    BY <2>1, <2>3, <2>4
\* Nobody else waits for p in this step.
<1>8. ASSUME NEW q \in Job(n), Busy(q), Turn(q) = k, p \in Together(q, k)
      PROVE  q \in Together(p, k)
  <2>1. Together(p, k) = Together(q, k)
    BY <1>1, <1>8, Partner
  <2>2. q \in Together(q, k)
    BY <1>1, <1>8, BusyFacts, ParentRight
  <2> QED
    BY <2>1, <2>2
<1>9. ASSUME NEW q \in Job(n), Busy(q)
      PROVE  RootOf(q, Turn(q)) \in Together(q, Turn(q))
  BY <1>1, <1>9, BusyFacts, ParentRight
<1>10. \A q \in Job(n) : step[q] \in Nat
  BY <1>1, MadeBounds
<1> HIDE DEF k
<1>11. \A q \in Job(n) : q # p => /\ step'[q] = step[q] /\ pc'[q] = pc[q]
                                  /\ Busy(q)' <=> Busy(q)
                                  /\ \A j : (Turn(q) = j)' <=> Turn(q) = j
  BY <1>1, <1>2 DEF Busy, Turn
<1>12. ASSUME NEW b \in Job(n), b # p PROVE Wire(p, b)'
  <2>1. \A j : ~Chosen(p, b, j)' /\ ~Reported(p, b, j)'
    BY <1>2 DEF Chosen, Reported
  <2>2. \A j : ~Chosen(p, b, j) /\ ~Reported(p, b, j)
    <3>1. \A j : ~Reported(p, b, j)
      BY <1>12 DEF Reported, k
    <3>2. b \in Together(p, k) => MadeAt(b, k)
      BY <1>7, <1>12
    <3> QED
      BY <3>1, <3>2 DEF Chosen, k
  <2>3. CASE b \in Together(p, k)
    <3>1. Turn(b) = k /\ pc[b] = "barrier" /\ RootOf(b, k) = p
      BY <2>3, <1>7, <1>12
    <3>2. \A j : ~Answered(p, b, j)
      BY <3>1, <1>3 DEF Answered
    <3>3. chan[p][b] = <<>> \o (<<>> \o <<>>)
      BY <3>2, <2>2, <1>1, <1>12 DEF Wires, Wire, Answer, Choice, Report
    <3>4. chan'[p][b] = Append(chan[p][b], Signal(k))
      BY <2>3, <1>1, <1>3, <1>5, <1>12
    <3>5. chan'[p][b] = <<Signal(k)>>
      <4> DEFINE m == Signal(k)
      <4>1. m \in Messages /\ chan'[p][b] = Append(<<>> \o (<<>> \o <<>>), m)
        BY <3>3, <3>4, <1>6
      <4> HIDE DEF m
      <4>2. chan'[p][b] = <<m>>
        BY <4>1
      <4> QED
        BY <4>2 DEF m
    <3>6. \A j : j = k => Answered(p, b, j)'
      BY <3>1, <1>1, <1>3, <1>4, <1>11, <1>12 DEF Answered
    <3>7. Answer(p, b)' = <<Signal(k)>>
      <4>1. Answer(p, b)' = <<Signal(Turn(b))'>>
        BY <3>6 DEF Answer
      <4>2. step'[b] = step[b]
        BY <1>11, <1>12
      <4>3. Signal(Turn(b))' = Signal(Turn(b))
        BY <4>2 DEF Signal, Message, Turn
      <4> QED
        BY <4>1, <4>3, <3>1
    <3>8. Choice(p, b)' = <<>> /\ Report(p, b)' = <<>>
      BY <2>1 DEF Choice, Report
    <3>9. <<Signal(k)>> \o (<<>> \o <<>>) = <<Signal(k)>>
      <4> DEFINE m == Signal(k)
      <4> HIDE DEF m
      <4>1. <<m>> \o (<<>> \o <<>>) = <<m>>
        OBVIOUS
      <4> QED
        BY <4>1 DEF m
    <3> QED
      BY <3>5, <3>7, <3>8, <3>9 DEF Wire
  <2>4. CASE b \notin Together(p, k)
    <3>1. \A j : Answered(p, b, j)' <=> Answered(p, b, j)
      <4> TAKE j
      <4>1. ASSUME pc[b] = "barrier", Turn(b) = j, RootOf(b, j) = p PROVE j # k
        BY <4>1, <2>4, <1>8, <1>9 DEF Busy
      <4>2. ASSUME Turn(b) = j, j # k PROVE step'[p] >= j <=> step[p] >= j
        BY <4>2, <1>1, <1>3, <1>10 DEF Turn
      <4> QED
        BY <4>1, <4>2, <1>4, <1>11, <1>12 DEF Answered
    <3>2. WireParts(p, b)
      BY <3>1, <2>1, <2>2 DEF WireParts
    <3>3. chan'[p][b] = chan[p][b]
      BY <2>4, <1>1, <1>3, <1>5, <1>12
    <3> QED
      BY <3>2, <3>3, <1>1, <1>12, WireKept
  <2> QED
    BY <2>3, <2>4
<1>13. ASSUME NEW a \in Job(n), a # p PROVE Wire(a, p)'
  <2>1. \A j : ~Answered(a, p, j) /\ ~Answered(a, p, j)'
    BY <1>2, <1>13 DEF Answered, k
  <2>2. \A j : Chosen(a, p, j)' <=> Chosen(a, p, j)
    BY <1>4, <1>11, <1>13 DEF Chosen
  <2>3. CASE a \in Together(p, k)
    <3>1. Turn(a) = k /\ chan[a][p] = <<Signal(k)>> /\ Choice(a, p) = <<>>
      BY <2>3, <1>7, <1>13
    <3>2. chan'[a][p] = <<>>
      <4>1. chan'[a][p] = Tail(chan[a][p])
        BY <2>3, <1>1, <1>3, <1>5, <1>13
      <4> DEFINE m == Signal(k)
      <4> HIDE DEF m
      <4>2. Tail(<<m>>) = <<>>
        OBVIOUS
      <4> QED
        BY <4>1, <4>2, <3>1 DEF m
    <3>3. \A j : ~Reported(a, p, j)'
      <4> TAKE j
      <4>1. (Turn(a) = j)' => j = k
        BY <3>1, <1>11, <1>13
      <4> QED
        BY <4>1, <1>1, <1>3 DEF Reported
    <3>4. Answer(a, p)' = <<>> /\ Report(a, p)' = <<>>
      BY <2>1, <3>3 DEF Answer, Report
    <3>5. Choice(a, p)' = <<>>
      <4>1. \A j : ~Chosen(a, p, j)
        BY <3>1 DEF Choice
      <4> QED
        BY <4>1, <2>2 DEF Choice
    <3>6. <<>> = <<>> \o (<<>> \o <<>>)
      OBVIOUS
    <3> QED
      BY <3>2, <3>4, <3>5, <3>6 DEF Wire
  <2>4. CASE a \notin Together(p, k)
    <3>1. \A j : Reported(a, p, j)' <=> Reported(a, p, j)
      <4> TAKE j
      <4>1. ASSUME pc[a] = "barrier", Turn(a) = j, RootOf(a, j) = p PROVE j # k
        BY <4>1, <2>4, <1>8, <1>9, <1>13 DEF Busy
      <4>2. ASSUME Turn(a) = j, j # k PROVE step'[p] < j <=> step[p] < j
        BY <4>2, <1>1, <1>3, <1>10, <1>13 DEF Turn
      <4> QED
        BY <4>1, <4>2, <1>4, <1>11, <1>13 DEF Reported
    <3>2. WireParts(a, p)
      BY <3>1, <2>1, <2>2 DEF WireParts
    <3>3. chan'[a][p] = chan[a][p]
      BY <2>4, <1>1, <1>3, <1>5, <1>13
    <3> QED
      BY <3>2, <3>3, <1>1, <1>13, WireKept
  <2> QED
    BY <2>3, <2>4
<1>14. ASSUME NEW a \in Job(n), NEW b \in Job(n), a # b, a # p, b # p PROVE Wire(a, b)'
  <2>1. \A q \in {a, b} : step'[q] = step[q] /\ pc'[q] = pc[q]
    BY <1>11, <1>14
  <2>2. WireParts(a, b)
    BY <2>1, <1>4, WiresOfOthers
  <2>3. chan'[a][b] = chan[a][b]
    BY <1>1, <1>5, <1>14
  <2> QED
    BY <2>2, <2>3, <1>1, <1>14, WireKept
<1> QED
  BY <1>12, <1>13, <1>14 DEF Wires

\* The wires at the end of the barrier, for the others.
LEMMA MemberBarrierWires ==
    ASSUME NEW n, IInv(n), NEW p \in Job(n), Barrier(p), RootOf(p, Turn(p)) # p
    PROVE  Wires(n)'
<1> DEFINE k == Turn(p)
           root == RootOf(p, k)
<1>1. /\ Tables(n) /\ Entries(n) /\ Wires(n) /\ Tables(n)' /\ Job(n) \subseteq Procs
      /\ pc[p] = "barrier" /\ Busy(p) /\ p \in Procs
      /\ pc' = [pc EXCEPT ![p] = "run"] /\ UNCHANGED <<program, tie, pool, made>>
      /\ step'[p] = k /\ \A q \in Procs : q # p => step'[q] = step[q]
  <2>1. Tables(n) /\ Entries(n) /\ Wires(n) /\ Tables(n)'
        /\ step'[p] = k /\ \A q \in Procs : q # p => step'[q] = step[q]
    BY BarrierTables DEF IInv
  <2> QED
    BY <2>1 DEF Barrier, Busy, Tables, Types, Setting
<1>2. /\ pc'[p] = "run" /\ \A q \in Procs : q # p => pc'[q] = pc[q]
      /\ ~Busy(p)'
  BY <1>1 DEF Tables, Types, Busy
<1>3. /\ k \in Steps /\ step[p] \in Nat /\ k = step[p] + 1 /\ root # p
      /\ Awaited(p) = {root} /\ chan[root][p] # <<>>
  <2>1. Calls(p, Turn(p)) /\ Turn(p) \in Steps /\ step[p] \in Nat
    BY <1>1, BusyFacts, MadeBounds
  <2>2. Awaited(p) = {root}
    BY <1>1, AwaitedFacts
  <2> QED
    BY <2>1, <2>2 DEF Barrier, Turn
<1>4. \A q, j : /\ MadeAt(q, j)' = MadeAt(q, j) /\ Together(q, j)' = Together(q, j)
                /\ RootOf(q, j)' = RootOf(q, j)
  BY <1>1, NothingMade
<1>5. /\ \A a, b \in Procs : chan'[a][b] =
           IF a = root /\ b = p THEN Tail(chan[a][b]) ELSE chan[a][b]
  <2>1. BarrierWires(p)
    BY <1>1, BarrierChan
  <2> QED
    BY <2>1, <1>3 DEF BarrierWires
<1>6. /\ root \in Job(n) /\ step[root] >= k /\ Tail(chan[root][p]) = Choice(root, p) \o Report(root, p)
      /\ \A q \in Together(p, k) : MadeAt(q, k)
  <2>1. root = RootOf(p, Turn(p)) /\ root # p
    BY <1>3
  <2>2. \A q \in Together(p, k) : MadeAt(q, k)
    BY BarrierOver
  <2> HIDE DEF root
  <2> QED
    BY <2>1, <2>2, <1>1, <1>3, AnswerFrom
\* Nobody takes p for rank 0 of the step.
<1>7. ASSUME NEW q \in Job(n), Busy(q), Turn(q) = k PROVE RootOf(q, k) # p
  <2> SUFFICES ASSUME RootOf(q, k) = p PROVE FALSE
    OBVIOUS
  <2>1. p \in Together(q, k)
    BY <1>1, <1>7, BusyFacts, ParentRight
  <2>2. RootOf(p, k) = RootOf(q, k)
    BY <2>1, <1>1, <1>7, Partner
  <2> QED
    BY <2>2, <1>3
<1>8. \A q \in Job(n) : step[q] \in Nat
  BY <1>1, MadeBounds
<1>9. \A b : \A j : Chosen(p, b, j) => j = k /\ b \in Together(p, k) /\ ~MadeAt(b, k)
  BY DEF Chosen
<1>10. \A b : \A j : Reported(p, b, j) => j = k /\ b = root /\ step[b] < k
  BY DEF Reported
<1>11. \A a : \A j : Answered(a, p, j) => a = root
  BY DEF Answered
<1> HIDE DEF k, root
<1>12. \A q \in Job(n) : q # p => /\ step'[q] = step[q] /\ pc'[q] = pc[q]
                                  /\ Busy(q)' <=> Busy(q)
                                  /\ \A j : (Turn(q) = j)' <=> Turn(q) = j
  BY <1>1, <1>2 DEF Busy, Turn
<1>13. ASSUME NEW b \in Job(n), b # p PROVE Wire(p, b)'
  <2>1. \A j : ~Chosen(p, b, j)' /\ ~Reported(p, b, j)'
    BY <1>2 DEF Chosen, Reported
  <2>2. \A j : ~Chosen(p, b, j) /\ ~Reported(p, b, j)
    <3>1. k \in Nat /\ step[root] \in Nat
      BY <1>3, <1>6, <1>8
    <3> QED
      BY <3>1, <1>6, <1>9, <1>10
  <2>3. \A j : Answered(p, b, j)' <=> Answered(p, b, j)
    <3> TAKE j
    <3>1. ASSUME pc[b] = "barrier", Turn(b) = j, RootOf(b, j) = p PROVE j # k
      BY <3>1, <1>7, <1>13 DEF Busy
    <3>2. ASSUME Turn(b) = j, j # k PROVE step'[p] >= j <=> step[p] >= j
      BY <3>2, <1>1, <1>3, <1>8, <1>13 DEF Turn
    <3> QED
      BY <3>1, <3>2, <1>4, <1>12, <1>13 DEF Answered
  <2>4. WireParts(p, b)
    BY <2>1, <2>2, <2>3 DEF WireParts
  <2>5. chan'[p][b] = chan[p][b]
    BY <1>1, <1>5, <1>13
  <2> QED
    BY <2>4, <2>5, <1>1, <1>13, WireKept
<1>14. ASSUME NEW a \in Job(n), a # p PROVE Wire(a, p)'
  <2>1. \A j : ~Answered(a, p, j)'
    BY <1>2 DEF Answered
  <2>2. \A j : Chosen(a, p, j)' <=> Chosen(a, p, j)
    BY <1>4, <1>12, <1>14 DEF Chosen
  <2>3. \A j : Reported(a, p, j)' <=> Reported(a, p, j)
    <3> TAKE j
    <3>1. ASSUME pc[a] = "barrier", Turn(a) = j, RootOf(a, j) = p PROVE j # k
      BY <3>1, <1>7, <1>14 DEF Busy
    <3>2. ASSUME Turn(a) = j, j # k PROVE step'[p] < j <=> step[p] < j
      BY <3>2, <1>1, <1>3, <1>8, <1>14 DEF Turn
    <3> QED
      BY <3>1, <3>2, <1>4, <1>12, <1>14 DEF Reported
  <2>4. CASE a = root
    <3>1. chan'[a][p] = Choice(a, p) \o Report(a, p)
      BY <2>4, <1>1, <1>5, <1>6, <1>14
    <3>2. /\ Choice(a, p)' = Choice(a, p) /\ Report(a, p)' = Report(a, p)
      <4>1. step[a] \in Int /\ step[p] \in Int /\ step'[a] \in Int /\ step'[p] \in Int
        BY <1>1, <1>3, <1>8, <1>12, <1>14
      <4> QED
        BY <4>1, <2>2, <2>3, <1>1, PartKept
    <3>3. Answer(a, p)' = <<>>
      BY <2>1 DEF Answer
    <3>4. Choice(a, p) \o Report(a, p) \in Seq(Messages)
      BY <1>1, PartsTyped
    <3>5. <<>> \o (Choice(a, p) \o Report(a, p)) = Choice(a, p) \o Report(a, p)
      BY <3>4, EmptyBefore
    <3> QED
      BY <3>1, <3>2, <3>3, <3>5 DEF Wire
  <2>5. CASE a # root
    <3>1. WireParts(a, p)
      BY <2>1, <2>2, <2>3, <2>5, <1>11 DEF WireParts
    <3>2. chan'[a][p] = chan[a][p]
      BY <2>5, <1>1, <1>5
    <3> QED
      BY <3>1, <3>2, <1>1, <1>14, WireKept
  <2> QED
    BY <2>4, <2>5
<1>15. ASSUME NEW a \in Job(n), NEW b \in Job(n), a # b, a # p, b # p PROVE Wire(a, b)'
  <2>1. \A q \in {a, b} : step'[q] = step[q] /\ pc'[q] = pc[q]
    BY <1>12, <1>15
  <2>2. WireParts(a, b)
    BY <2>1, <1>4, WiresOfOthers
  <2>3. chan'[a][b] = chan[a][b]
    BY <1>1, <1>5, <1>15
  <2> QED
    BY <2>2, <2>3, <1>1, <1>15, WireKept
<1> QED
  BY <1>13, <1>14, <1>15 DEF Wires

LEMMA GatherKeepsWires ==
    ASSUME NEW n, IInv(n), NEW p \in Job(n), Gather(p)
    PROVE  Wires(n)'
<1> DEFINE k == Turn(p)
           root == RootOf(p, k)
<1>1. /\ Tables(n) /\ Entries(n) /\ Wires(n) /\ Tables(n)' /\ Job(n) \subseteq Procs
      /\ pc[p] = "gather" /\ Busy(p) /\ p \in Procs
      /\ UNCHANGED <<program, tie, handle, step>>
      /\ pc' = [pc EXCEPT ![p] = "barrier"]
  <2>1. /\ Tables(n) /\ Entries(n) /\ Wires(n) /\ Tables(n)'
        /\ UNCHANGED <<program, tie, handle, step>>
        /\ pc' = [pc EXCEPT ![p] = "barrier"]
    BY GatherTables, GatherFacts DEF IInv
  <2> QED
    BY <2>1 DEF Gather, Busy, Tables, Types, Setting
<1>2. /\ pc'[p] = "barrier" /\ \A q \in Procs : q # p => pc'[q] = pc[q]
      /\ \A q \in Procs : Busy(q)' <=> Busy(q)
  BY <1>1 DEF Tables, Types, Busy
<1>3. /\ k \in Steps /\ step[p] \in Nat /\ k = step[p] + 1 /\ k # 0
      /\ Calls(p, k) /\ Awaited(p) = Together(p, k) \ {p} /\ p \in Together(p, k)
      /\ root \in Together(p, k) /\ Together(p, k) \subseteq Job(n)
  <2>1. Calls(p, Turn(p)) /\ Turn(p) \in Steps /\ step[p] \in Nat
    BY <1>1, BusyFacts, MadeBounds
  <2> QED
    BY <2>1, <1>1, AwaitedFacts, ParentRight DEF Turn
<1>4. \A q \in Job(n) : step[q] \in Nat
  BY <1>1, MadeBounds
<1>5. \A q \in Job(n) : \A j : MadeAt(q, j)' <=> MadeAt(q, j) \/ (q = p /\ j = k)
  BY GatherNames
<1>6. \A q \in Job(n) : \A j : Busy(q) /\ Turn(q) = j =>
         Together(q, j)' = Together(q, j) /\ RootOf(q, j)' = RootOf(q, j)
  <2> TAKE q \in Job(n)
  <2> TAKE j
  <2> HAVE Busy(q) /\ Turn(q) = j
  <2>1. j \in Steps /\ MadeAt(q, program[j].on)
    BY <1>1, BusyFacts DEF Calls
  <2> QED
    BY <2>1, GatherNames
<1>7. /\ \A a, b \in Procs : chan'[a][b] =
           IF a \in Together(p, k) \ {p} /\ b = p THEN Tail(chan[a][b])
           ELSE IF a = p /\ b = root /\ b # p THEN Append(chan[a][b], Signal(k))
           ELSE chan[a][b]
  <2>1. GatherWires(p)
    BY GatherFacts
  <2> QED
    BY <2>1, <1>3 DEF GatherWires
<1>8. Signal(k) \in Messages
  BY <1>3, SignalTyped
\* All others are inside the call and none is behind it.
<1>9. \A q \in Together(p, k) : step[q] =< step[p]
  BY <1>1, NotPast
<1>10. \A q \in Together(p, k) : q # p =>
          /\ Turn(q) = k /\ Busy(q) /\ Answer(q, p) = <<>> /\ Tail(chan[q][p]) = Report(q, p)
  BY GatherPeers
\* Nobody else sends p anything in this step.
<1>11. ASSUME NEW q \in Job(n), Busy(q), Turn(q) = k, p \in Together(q, k)
       PROVE  q \in Together(p, k)
  <2>1. Together(p, k) = Together(q, k)
    BY <1>1, <1>11, Partner
  <2>2. q \in Together(q, k)
    BY <1>1, <1>11, BusyFacts, ParentRight
  <2> QED
    BY <2>1, <2>2
<1>12. \A b, j : Reported(p, b, j)' => j = k
  BY <1>1 DEF Reported, Turn
<1>13. \A q \in Job(n) : \A j : (Turn(q) = j)' <=> Turn(q) = j
  BY <1>1 DEF Turn
<1> HIDE DEF k, root
<1>14. \A a \in Job(n) : \A b \in Job(n) : b # p =>
          \A j : Answered(a, b, j)' <=> Answered(a, b, j)
  BY <1>1, <1>2, <1>6, <1>13 DEF Answered, Busy
<1>15. \A a \in Job(n) : \A b \in Job(n) : b # p =>
          \A j : Chosen(a, b, j)' <=> Chosen(a, b, j)
  BY <1>1, <1>2, <1>5, <1>6, <1>13 DEF Chosen
<1>16. \A a \in Job(n) : \A b \in Job(n) : a # p =>
          \A j : Reported(a, b, j)' <=> Reported(a, b, j)
  BY <1>1, <1>2, <1>6, <1>13 DEF Reported, Busy
<1>17. ASSUME NEW b \in Job(n), b # p PROVE Wire(p, b)'
  <2>1. \A j : ~Reported(p, b, j)
    BY <1>1 DEF Reported
  <2>2. /\ Answer(p, b)' = Answer(p, b) /\ Choice(p, b)' = Choice(p, b)
        /\ Answer(p, b) \in Seq(Messages) /\ Choice(p, b) \in Seq(Messages)
    <3>1. step[p] \in Int /\ step[b] \in Int /\ step'[p] \in Int /\ step'[b] \in Int
      BY <1>1, <1>4
    <3>2. Answer(p, b)' = Answer(p, b) /\ Choice(p, b)' = Choice(p, b)
      BY <3>1, <1>1, <1>14, <1>15, <1>17, PartKept
    <3> QED
      BY <3>2, <1>1, PartsTyped
  <2>3. CASE b = root
    <3>1. \A j : j = k => Reported(p, b, j)'
      <4>1. RootOf(p, k) = b /\ Turn(p) = k
        BY <2>3 DEF root, k
      <4>2. \A j : j = k => RootOf(p, j)' = b
        BY <4>1, <1>1, <1>6
      <4>3. step[b] < k
        BY <2>3, <1>3, <1>4, <1>9
      <4> QED
        BY <4>1, <4>2, <4>3, <1>1, <1>2, <1>13 DEF Reported
    <3>2. Report(p, b)' = <<Signal(k)>>
      <4>1. Report(p, b)' = <<Signal(Turn(p))'>>
        BY <3>1 DEF Report
      <4>2. Signal(Turn(p))' = Signal(Turn(p))
        BY <1>1 DEF Signal, Message, Turn
      <4> QED
        BY <4>1, <4>2 DEF k
    <3>3. chan[p][b] = Answer(p, b) \o (Choice(p, b) \o <<>>)
      BY <2>1, <1>1, <1>17 DEF Wires, Wire, Report
    <3>4. chan'[p][b] = Append(chan[p][b], Signal(k))
      BY <2>3, <1>1, <1>7, <1>17
    <3>5. chan'[p][b] = Answer(p, b) \o (Choice(p, b) \o <<Signal(k)>>)
      <4> DEFINE s == Answer(p, b)
                 c == Choice(p, b)
                 m == Signal(k)
      <4>1. /\ s \in Seq(Messages) /\ c \in Seq(Messages) /\ m \in Messages
            /\ chan'[p][b] = Append(s \o (c \o <<>>), m)
        BY <3>3, <3>4, <2>2, <1>8
      <4> HIDE DEF s, c, m
      <4>2. Append(s \o (c \o <<>>), m) = s \o (c \o <<m>>)
        BY <4>1, AppendParts
      <4> QED
        BY <4>1, <4>2 DEF s, c, m
    <3> QED
      BY <3>2, <3>5, <2>2 DEF Wire
  <2>4. CASE b # root
    <3>1. \A j : ~Reported(p, b, j)'
      <4>1. RootOf(p, k) = root /\ Turn(p) = k
        BY DEF root, k
      <4>2. \A j : j = k => RootOf(p, j)' = RootOf(p, j)
        BY <4>1, <1>1, <1>6
      <4> QED
        BY <4>1, <4>2, <2>4, <1>12 DEF Reported
    <3>2. WireParts(p, b)
      BY <3>1, <2>1, <1>14, <1>15, <1>17 DEF WireParts
    <3>3. chan'[p][b] = chan[p][b]
      BY <2>4, <1>1, <1>7, <1>17
    <3> QED
      BY <3>2, <3>3, <1>1, <1>17, WireKept
  <2> QED
    BY <2>3, <2>4
<1>18. ASSUME NEW a \in Job(n), a # p PROVE Wire(a, p)'
  <2>1. Report(a, p)' = Report(a, p)
    <3>1. step[a] \in Int /\ step[p] \in Int /\ step'[a] \in Int /\ step'[p] \in Int
      BY <1>1, <1>4
    <3> QED
      BY <3>1, <1>1, <1>16, <1>18, PartKept
  <2>2. \A j : ~Answered(a, p, j)
    BY <1>1 DEF Answered
  <2>3. \A j : ~Answered(a, p, j)'
    <3> TAKE j
    <3>1. Turn(p) = k /\ RootOf(p, k) = root
      BY DEF k, root
    <3>2. \A i : i = k => RootOf(p, i)' = root
      BY <3>1, <1>1, <1>6
    <3>3. (Turn(p) = j)' => j = k
      BY <3>1, <1>13
    <3>4. ~(step[root] >= k)
      <4>1. step[root] \in Nat /\ step[root] =< step[p]
        BY <1>3, <1>4, <1>9
      <4> QED
        BY <4>1, <1>3
    <3>5. SUFFICES ASSUME Answered(a, p, j)' PROVE FALSE
      OBVIOUS
    <3>6. j = k /\ RootOf(p, j)' = a /\ step'[a] >= j
      BY <3>3, <3>5 DEF Answered
    <3> QED
      BY <3>2, <3>4, <3>6, <1>1
  <2>4. CASE a \in Together(p, k)
    <3>1. chan'[a][p] = Report(a, p)
      BY <2>4, <1>1, <1>7, <1>10, <1>18
    <3>2. \A j : ~Chosen(a, p, j)'
      <4> TAKE j
      <4>1. (Turn(a) = j)' => j = k
        BY <2>4, <1>10, <1>13, <1>18
      <4>2. j = k => MadeAt(p, j)'
        BY <1>5
      <4> QED
        BY <4>1, <4>2 DEF Chosen
    <3>3. Answer(a, p)' = <<>> /\ Choice(a, p)' = <<>>
      BY <3>2, <2>3 DEF Answer, Choice
    <3>4. <<>> \o (<<>> \o Report(a, p)) = Report(a, p)
      <4>1. Report(a, p) \in Seq(Messages)
        BY <1>1, PartsTyped
      <4> QED
        BY <4>1, EmptyBefore
    <3> QED
      BY <3>1, <3>3, <3>4, <2>1 DEF Wire
  <2>5. CASE a \notin Together(p, k)
    <3>1. \A j : Chosen(a, p, j)' <=> Chosen(a, p, j)
      <4> TAKE j
      <4>1. ASSUME Busy(a), Turn(a) = j, p \in Together(a, j) PROVE j # k
        BY <4>1, <2>5, <1>11, <1>18
      <4>2. j # k => (MadeAt(p, j)' <=> MadeAt(p, j))
        BY <1>5
      <4> QED
        BY <4>1, <4>2, <1>1, <1>2, <1>6, <1>13, <1>18 DEF Chosen
    <3>2. WireParts(a, p)
      BY <3>1, <2>2, <2>3, <1>16, <1>18 DEF WireParts
    <3>3. chan'[a][p] = chan[a][p]
      BY <2>5, <1>1, <1>7, <1>18
    <3> QED
      BY <3>2, <3>3, <1>1, <1>18, WireKept
  <2> QED
    BY <2>4, <2>5
<1>19. ASSUME NEW a \in Job(n), NEW b \in Job(n), a # b, a # p, b # p PROVE Wire(a, b)'
  <2>1. WireParts(a, b)
    BY <1>14, <1>15, <1>16, <1>19 DEF WireParts
  <2>2. chan'[a][b] = chan[a][b]
    BY <1>1, <1>7, <1>19
  <2> QED
    BY <2>1, <2>2, <1>1, <1>19, WireKept
<1> QED
  BY <1>17, <1>18, <1>19 DEF Wires

-----------------------------------------------------------------------------
(* RDMA_Init: the root communicator. *)

LEMMA SetupRootFacts ==
    ASSUME NEW n, IInv(n), NEW p \in Job(n), SetupRoot(p, n)
    PROVE  /\ p \in Procs /\ pc[p] = "out" /\ pool[p] = <<>>
           /\ \A q \in Job(n) : step[q] = 0 /\ ~Busy(q) /\ pc[q] # "barrier"
           /\ UNCHANGED <<program, tie, handle, step, chan, made>>
           /\ pool'[p] = <<RootEntry(p, n)>> /\ pc'[p] = "run"
           /\ \A q \in Procs : q # p => pool'[q] = pool[q] /\ pc'[q] = pc[q]
<1>1. /\ Tables(n) /\ p \in Procs /\ pc[p] = "out"
      /\ pool \in [Procs -> Seq(Communicators(n))]
      /\ pc \in [Procs -> {"out", "run", "gather", "barrier", "crashed"}]
      /\ UNCHANGED <<program, tie, handle, step, chan, made>>
      /\ pool' = [pool EXCEPT ![p] = <<RootEntry(p, n)>>]
      /\ pc' = [pc EXCEPT ![p] = "run"]
  BY DEF IInv, SetupRoot, RootEntry, Tables, Types, Setting
<1>2. pool[p] = <<>> /\ ~AllUp(n)
  BY <1>1 DEF Tables, Begins, AllUp
<1>3. \A q \in Job(n) : step[q] = 0 /\ ~Busy(q) /\ pc[q] # "barrier"
  <2> TAKE q \in Job(n)
  <2>1. ~(step[q] > 0) /\ pc[q] \in {"out", "run"} /\ step[q] \in Nat
    BY <1>1, <1>2, MadeBounds DEF Tables, Begins
  <2> QED
    BY <2>1 DEF Busy
<1> QED
  BY <1>1, <1>2, <1>3

LEMMA SetupTables ==
    ASSUME NEW n, IInv(n), NEW p \in Job(n), SetupRoot(p, n)
    PROVE  Tables(n)'
<1> DEFINE entry == RootEntry(p, n)
<1>1. /\ p \in Procs /\ pc[p] = "out" /\ pool[p] = <<>>
      /\ \A q \in Job(n) : step[q] = 0 /\ ~Busy(q) /\ pc[q] # "barrier"
      /\ UNCHANGED <<program, tie, handle, step, chan, made>>
      /\ pool'[p] = <<entry>> /\ pc'[p] = "run"
      /\ \A q \in Procs : q # p => pool'[q] = pool[q] /\ pc'[q] = pc[q]
  BY SetupRootFacts
<1>2. /\ Tables(n) /\ Places(p) /\ n \in Nat \ {0} /\ Job(n) \subseteq Procs
      /\ pool' = [pool EXCEPT ![p] = <<entry>>] /\ pc' = [pc EXCEPT ![p] = "run"]
  BY DEF IInv, Tables, Types, Setting, SetupRoot, RootEntry
<1>3. entry \in Communicators(n)
  BY <1>2, RootEntryRight DEF WellFormed
<1> HIDE DEF entry
<1>4. Types(n)'
  <2>1. pool \in [Procs -> Seq(Communicators(n))] /\ <<entry>> \in Seq(Communicators(n))
    BY <1>2, <1>3 DEF Tables, Types
  <2>2. pool' \in [Procs -> Seq(Communicators(n))]
    BY <1>2, <2>1
  <2>3. pc' \in [Procs -> {"out", "run", "gather", "barrier", "crashed"}]
    BY <1>2 DEF Tables, Types
  <2> QED
    BY <2>2, <2>3, <1>1, <1>2 DEF Tables, Types, Setting
<1>5. ASSUME NEW q \in Job(n) PROVE Begins(n, q)'
  <2>1. step'[q] = 0 /\ pc'[q] \in {"out", "run"} /\ (pool'[q] = <<>> <=> pc'[q] = "out")
    <3>1. CASE q = p
      BY <3>1, <1>1
    <3>2. CASE q # p
      <4>1. pc[q] \in {"out", "run", "gather", "barrier", "crashed"} /\ q \in Procs
            /\ ~AllUp(n) /\ Begins(n, q)
        BY <1>1, <1>2 DEF Tables, Types, AllUp
      <4>2. pc[q] \in {"out", "run"}
        BY <4>1 DEF Begins
      <4> QED
        BY <4>1, <4>2, <3>2, <1>1 DEF Begins
    <3> QED
      BY <3>1, <3>2
  <2> QED
    BY <2>1 DEF Begins
<1>6. /\ made'[p] = <<[step |-> 0, from |-> Root]>> /\ step'[p] = 0 /\ handle'[p] = <<Root>>
      /\ pool'[p] = <<entry>> /\ pc'[p] = "run"
  BY <1>1, <1>2 DEF Places
<1>7. Places(p)' /\ Handles(p)'
  <2>1. DOMAIN pool'[p] = {1} /\ pool'[p] # <<>> /\ Len(pool'[p]) = 1
    BY <1>6
  <2>2. Len(made'[p]) = 1 /\ made'[p][1].step = 0
    BY <1>6
  <2>3. Places(p)'
    BY <2>1, <2>2, <1>6 DEF Places
  <2>4. \A j \in 0..step'[p] : j = 0 /\ handle'[p][j + 1] = 0
    BY <1>6 DEF Root
  <2>5. Handles(p)'
    BY <2>1, <2>2, <2>4 DEF Handles
  <2> QED
    BY <2>3, <2>5
<1>8. ASSUME NEW q \in Job(n) PROVE Places(q)' /\ Handles(q)'
  <2>1. CASE q = p
    BY <2>1, <1>7
  <2>2. CASE q # p
    <3>1. Places(q) /\ Handles(q) /\ q \in Procs
      BY <1>2 DEF Tables
    <3> QED
      BY <2>2, <3>1, <1>1, TablesOfOthers
  <2> QED
    BY <2>1, <2>2
<1>9. \A q \in Procs \ Job(n) : pool'[q] = <<>> /\ pc'[q] = "out"
  BY <1>1, <1>2 DEF Tables
<1> QED
  BY <1>4, <1>5, <1>8, <1>9 DEF Tables

LEMMA SetupEntries ==
    ASSUME NEW n, IInv(n), NEW p \in Job(n), SetupRoot(p, n)
    PROVE  Entries(n)'
<1>1. /\ p \in Procs /\ pool[p] = <<>>
      /\ \A q \in Job(n) : step[q] = 0 /\ ~Busy(q) /\ pc[q] # "barrier"
      /\ UNCHANGED <<program, tie, handle, step, chan, made>>
      /\ pool'[p] = <<RootEntry(p, n)>> /\ pc'[p] = "run"
      /\ \A q \in Procs : q # p => pool'[q] = pool[q] /\ pc'[q] = pc[q]
  BY SetupRootFacts
<1>2. /\ Tables(n) /\ Entries(n) /\ n \in Nat \ {0} /\ Job(n) \subseteq Procs /\ Setting(n)
  BY DEF IInv, Tables, Types, Setting
<1>3. made[p] = <<[step |-> 0, from |-> Root]>>
  BY <1>1, <1>2 DEF Tables, Places
\* There are only the root communicators.
<1>4. ASSUME NEW q \in Job(n), NEW k, MadeAt(q, k)'
      PROVE  k = 0 /\ Of(q, k)' = RootEntry(q, n)
  <2>1. CASE q = p
    <3>1. DOMAIN pool'[p] = {1} /\ pool'[p][1] = RootEntry(p, n)
      <4> DEFINE e == RootEntry(p, n)
      <4> HIDE DEF e
      <4>1. pool'[p] = <<e>>
        BY <1>1 DEF e
      <4>2. DOMAIN pool'[p] = {1} /\ pool'[p][1] = e
        BY <4>1
      <4> QED
        BY <4>2 DEF e
    <3>2. made'[p][1].step = 0
      BY <1>1, <1>3
    <3>3. k = 0
      BY <2>1, <3>1, <3>2, <1>4 DEF MadeAt
    <3>4. (CHOOSE i \in DOMAIN pool'[p] : made'[p][i].step = k) = 1
      BY <3>1, <3>2, <3>3
    <3> QED
      BY <2>1, <3>1, <3>3, <3>4 DEF Of
  <2>2. CASE q # p
    <3>1. pool'[q] = pool[q] /\ made'[q] = made[q] /\ step[q] = 0 /\ pc[q] # "barrier"
      BY <2>2, <1>1, <1>2
    <3>2. MadeAt(q, k) /\ Of(q, k)' = Of(q, k)
      BY <3>1, <1>4 DEF MadeAt, Of
    <3>3. k = 0
      <4>1. (k = 0 \/ k \in Steps) /\ k =< 0
        BY <3>1, <3>2, <1>2, MadeBounds
      <4>2. k \in Steps => k \in Nat \ {0}
        BY <1>2, StepFacts
      <4> QED
        BY <4>1, <4>2
    <3> QED
      BY <3>2, <3>3, <1>2 DEF Entries, EntryRight
  <2> QED
    BY <2>1, <2>2
<1>5. ASSUME NEW q \in Job(n) PROVE CallsDone(q)' /\ InCall(q)'
  <2>1. step'[q] = 0 /\ ~Busy(q)'
    BY <1>1, <1>2 DEF Busy
  <2>2. \A k \in Steps : ~(k =< 0)
    BY <1>2, StepFacts
  <2>3. Steps' = Steps
    BY <1>1 DEF Steps
  <2> QED
    BY <2>1, <2>2, <2>3 DEF CallsDone, InCall
<1>6. ASSUME NEW q \in Job(n), NEW k, MadeAt(q, k)'
      PROVE  EntryRight(n, q, k)' /\ AlikeAt(q, k)'
  <2>1. k = 0 /\ Of(q, k)' = RootEntry(q, n)
    BY <1>4, <1>6
  <2>2. WellFormed(n, q, RootEntry(q, n)) /\ Group(RootEntry(q, n)) = Job(n)
    BY <1>2, RootEntryRight
  <2>3. EntryRight(n, q, k)'
    <3>1. WellFormed(n, q, Of(q, k))'
      BY <2>1, <2>2 DEF WellFormed
    <3> QED
      BY <2>1, <3>1 DEF EntryRight
  <2>4. ASSUME NEW r \in Job(n), MadeAt(r, k)' PROVE Alike(RootEntry(q, n), Of(r, k)')
    <3>1. Of(r, k)' = RootEntry(r, n)
      BY <1>4, <2>4
    <3> QED
      BY <3>1, CommunicatorAlike DEF RootEntry
  <2>5. AlikeAt(q, k)'
    BY <2>1, <2>2, <2>4 DEF AlikeAt
  <2> QED
    BY <2>3, <2>5
<1> QED
  BY <1>4, <1>5, <1>6 DEF Entries

LEMMA SetupWires ==
    ASSUME NEW n, IInv(n), NEW p \in Job(n), SetupRoot(p, n)
    PROVE  Wires(n)'
<1>1. /\ p \in Procs
      /\ \A q \in Job(n) : step[q] = 0 /\ ~Busy(q) /\ pc[q] # "barrier"
      /\ UNCHANGED <<program, tie, handle, step, chan, made>>
      /\ pool'[p] = <<RootEntry(p, n)>> /\ pc'[p] = "run"
      /\ \A q \in Procs : q # p => pool'[q] = pool[q] /\ pc'[q] = pc[q]
  BY SetupRootFacts
<1>2. Wires(n) /\ Job(n) \subseteq Procs
  BY DEF IInv, Tables, Types, Setting
<1>3. \A q \in Job(n) : ~Busy(q)' /\ pc'[q] # "barrier"
  BY <1>1, <1>2 DEF Busy
<1>4. ASSUME NEW a \in Job(n), NEW b \in Job(n), a # b PROVE Wire(a, b)'
  <2>1. Answer(a, b) = <<>> /\ Choice(a, b) = <<>> /\ Report(a, b) = <<>>
    BY <1>1 DEF Answer, Answered, Choice, Chosen, Report, Reported
  <2>2. Answer(a, b)' = <<>> /\ Choice(a, b)' = <<>> /\ Report(a, b)' = <<>>
    BY <1>3 DEF Answer, Answered, Choice, Chosen, Report, Reported
  <2>3. chan'[a][b] = <<>> \o (<<>> \o <<>>)
    BY <2>1, <1>1, <1>2, <1>4 DEF Wires, Wire
  <2> QED
    BY <2>2, <2>3 DEF Wire
<1> QED
  BY <1>4 DEF Wires

-----------------------------------------------------------------------------
(* The invariant. *)

LEMMA InvInit ==
    ASSUME NEW n \in Nat \ {0}, 0..(n - 1) \subseteq Procs, CommInit
    PROVE  IInv(n)
<1>1. /\ Setting(n) /\ Job(n) \subseteq Procs
      /\ step = [p \in Procs |-> 0] /\ pc = [p \in Procs |-> "out"]
      /\ handle = [p \in Procs |-> <<Root>>] /\ pool = [p \in Procs |-> <<>>]
      /\ made = [p \in Procs |-> <<[step |-> 0, from |-> Root]>>]
      /\ chan = [p \in Procs |-> [q \in Procs |-> <<>>]]
  BY DEF CommInit, Setting, Job
<1>2. /\ Len(program) \in Nat
      /\ \A k \in Steps : k \in Nat \ {0}
  BY <1>1, ProgramRight DEF Steps
<1>3. \A p \in Procs : /\ step[p] = 0 /\ pc[p] = "out" /\ pool[p] = <<>> /\ handle[p] = <<Root>>
                       /\ made[p] = <<[step |-> 0, from |-> Root]>>
                       /\ \A q \in Procs : chan[p][q] = <<>>
  BY <1>1
<1>4. Types(n)
  <2>1. step \in [Procs -> Nat] /\ pc \in [Procs -> {"out", "run", "gather", "barrier", "crashed"}]
    BY <1>1
  <2>2. handle \in [Procs -> Seq(Int)] /\ pool \in [Procs -> Seq(Communicators(n))]
        /\ \A p \in Procs : Len(handle[p]) = 1
    <3>1. <<Root>> \in Seq(Int) /\ Len(<<Root>>) = 1 /\ <<>> \in Seq(Communicators(n))
      BY DEF Root
    <3> QED
      BY <3>1, <1>1
  <2>3. made \in [Procs -> Seq([step : Nat, from : Nat])]
    <3> DEFINE here == [step |-> 0, from |-> Root]
               R == [step : Nat, from : Nat]
    <3>1. here \in R
      BY DEF Root
    <3>2. made = [p \in Procs |-> <<here>>]
      BY <1>1
    <3> HIDE DEF here, R
    <3>3. <<here>> \in Seq(R)
      BY <3>1
    <3>4. made \in [Procs -> Seq(R)]
      BY <3>2, <3>3
    <3> QED
      BY <3>4 DEF R
  <2>4. chan \in [Procs -> [Procs -> Seq(Messages)]]
    <3>1. <<>> \in Seq(Messages)
      OBVIOUS
    <3>2. [q \in Procs |-> <<>>] \in [Procs -> Seq(Messages)]
      BY <3>1
    <3> QED
      BY <3>2, <1>1
  <2> QED
    BY <2>1, <2>2, <2>3, <2>4, <1>1, <1>2, <1>3 DEF Types
<1>5. Tables(n)
  BY <1>1, <1>3, <1>4 DEF Tables, Begins, Places, Handles
<1>6. \A p \in Job(n) : /\ ~Busy(p) /\ pc[p] # "barrier" /\ \A k : ~MadeAt(p, k)
  BY <1>1, <1>3 DEF Busy, MadeAt
<1>7. Entries(n)
  BY <1>1, <1>2, <1>3, <1>6 DEF Entries, CallsDone, InCall, Calls
<1>8. Wires(n)
  <2> SUFFICES ASSUME NEW a \in Job(n), NEW b \in Job(n) PROVE Wire(a, b)
    BY DEF Wires
  <2>1. Answer(a, b) = <<>> /\ Choice(a, b) = <<>> /\ Report(a, b) = <<>>
    BY <1>6 DEF Answer, Answered, Choice, Chosen, Report, Reported
  <2>2. chan[a][b] = <<>> \o (<<>> \o <<>>)
    BY <1>1, <1>3
  <2> QED
    BY <2>1, <2>2 DEF Wire
<1> QED
  BY <1>5, <1>7, <1>8 DEF IInv

LEMMA InvNext ==
    ASSUME NEW n, IInv(n), [JobNext(n)]_commVars
    PROVE  IInv(n)'
<1>1. Tables(n) /\ Entries(n) /\ Wires(n)
  BY DEF IInv
<1>2. ASSUME NEW p \in Job(n), SetupRoot(p, n) PROVE IInv(n)'
  BY <1>2, SetupTables, SetupEntries, SetupWires DEF IInv
<1>3. ASSUME NEW p \in Job(n), Connected(p), CommNext(p) PROVE IInv(n)'
  <2>1. AllUp(n)
    BY <1>1, <1>3, ConnectedIsUp
  <2>2. CASE Skip(p)
    BY <2>1, <2>2, <1>1, SkipTables, SkipEntries, SkipWires DEF IInv
  <2>3. CASE CommSplit(p)
    BY <2>1, <2>3, <1>1, CommSplitTables, CommSplitEntries, CommSplitWires DEF IInv
  <2>4. CASE Gather(p)
    BY <2>4, GatherTables, GatherEntries, GatherKeepsWires DEF IInv
  <2>5. CASE Barrier(p)
    <3>1. Tables(n)' /\ Entries(n)'
      BY <2>5, <1>1, BarrierTables, BarrierEntries
    <3>2. Wires(n)'
      BY <2>5, RootBarrierWires, MemberBarrierWires
    <3> QED
      BY <3>1, <3>2 DEF IInv
  <2>6. CASE Free(p)
    BY <2>1, <2>6, <1>1, FreeTables, FreeEntries, FreeWires DEF IInv
  <2> QED
    BY <2>2, <2>3, <2>4, <2>5, <2>6, <1>3 DEF CommNext
<1>4. CASE UNCHANGED commVars
  <2>1. UNCHANGED <<program, tie, pool, handle, step, pc, chan, made>>
    BY <1>4 DEF commVars
  <2>2. Tables(n)'
    <3>1. Types(n)' /\ AllUp(n)' = AllUp(n)
      BY <2>1, <1>1 DEF Tables, Types, Setting, AllUp
    <3>2. \A q \in Job(n) : Begins(n, q)'
      BY <2>1, <3>1, <1>1 DEF Tables, Begins
    <3>3. \A q \in Job(n) : Places(q)' /\ Handles(q)'
      BY <2>1, <1>1, TablesOfOthers DEF Tables
    <3>4. \A q \in Procs \ Job(n) : pool'[q] = <<>> /\ pc'[q] = "out"
      BY <2>1, <1>1 DEF Tables
    <3> QED
      BY <3>1, <3>2, <3>3, <3>4 DEF Tables
  <2>3. \A q, k : /\ MadeAt(q, k)' = MadeAt(q, k) /\ Of(q, k)' = Of(q, k)
                  /\ Parent(q, k)' = Parent(q, k) /\ Calls(q, k)' = Calls(q, k)
                  /\ Together(q, k)' = Together(q, k) /\ RootOf(q, k)' = RootOf(q, k)
    BY <2>1, NothingMade
  <2>4. Entries(n)'
    <3>1. ASSUME NEW q \in Job(n) PROVE CallsDone(q)' /\ InCall(q)'
      BY <2>1, <2>3, <1>1 DEF Entries, CallsDone, InCall, Busy, Turn, Steps
    <3>2. ASSUME NEW q \in Job(n), NEW k, MadeAt(q, k)
          PROVE  /\ EntryRight(n, q, k)' /\ AlikeAt(q, k)'
                 /\ k # 0 => MadeByAll(q, k)' /\ BegunByAll(q, k)' /\ RootFirst(q, k)'
      <4>1. /\ EntryRight(n, q, k) /\ AlikeAt(q, k)
            /\ k # 0 => MadeByAll(q, k) /\ BegunByAll(q, k) /\ RootFirst(q, k)
        BY <3>2, <1>1 DEF Entries
      <4>2. EntryRight(n, q, k)'
        BY <4>1, <2>1, <2>3, EntryRightKept
      <4>3. AlikeAt(q, k)'
        BY <4>1, <2>3 DEF AlikeAt
      <4>4. k # 0 => MadeByAll(q, k)' /\ BegunByAll(q, k)' /\ RootFirst(q, k)'
        BY <4>1, <2>1, <2>3 DEF MadeByAll, BegunByAll, RootFirst, Turn, Busy
      <4> QED
        BY <4>2, <4>3, <4>4
    <3> QED
      BY <2>3, <3>1, <3>2 DEF Entries
  <2>5. Wires(n)'
    <3> SUFFICES ASSUME NEW a \in Job(n), NEW b \in Job(n), a # b PROVE Wire(a, b)'
      BY DEF Wires
    <3>1. WireParts(a, b)
      BY <2>1, <2>3, WiresOfOthers
    <3> QED
      BY <3>1, <2>1, <2>2, <1>1, WireKept
  <2> QED
    BY <2>2, <2>4, <2>5 DEF IInv
<1> QED
  BY <1>2, <1>3, <1>4 DEF JobNext, Job

LEMMA InvariantHolds ==
    ASSUME NEW n \in Nat \ {0}, 0..(n - 1) \subseteq Procs
    PROVE  JobSpec(n) => []IInv(n)
<1>1. CommInit => IInv(n)
  BY InvInit
<1>2. IInv(n) /\ [JobNext(n)]_commVars => IInv(n)'
  BY InvNext
<1> QED
  BY <1>1, <1>2, PTL DEF JobSpec

-----------------------------------------------------------------------------
(***************************************************************************)
(* Every variable keeps its type, and the tables of a process hang         *)
(* together: its entries stand in the order of the steps, each after its   *)
(* parent's; a handle is the place of the entry of its step or -1, and one *)
(* that was freed is not asked for again (m_commPool, RDMA_Comm_free).     *)
(***************************************************************************)
THEOREM TablesKept ==
    ASSUME NEW n \in Nat \ {0}, 0..(n - 1) \subseteq Procs
    PROVE  JobSpec(n) => []Tables(n)
<1>1. IInv(n) => Tables(n)
  BY DEF IInv
<1> QED
  BY <1>1, InvariantHolds, PTL

\* A process takes what was sent for it in the step it is in.
LEMMA NothingMixed == ASSUME NEW n, IInv(n) PROVE NoMixup
<1> SUFFICES ASSUME NEW p \in Procs, Busy(p),
                    NEW q \in Awaited(p), chan[q][p] # <<>>
             PROVE  Head(chan[q][p]).step = step[p] + 1
  BY DEF NoMixup, Busy
<1>1. p \in Job(n)
  BY DEF IInv, Tables, Busy
<1> QED
  BY <1>1, InvNoMixup

(***************************************************************************)
(* Whatever the program and however the processes overtake each other, a   *)
(* process that is about to take a message of the all-gather or of the     *)
(* barrier takes the one that was sent for it in the same step.            *)
(***************************************************************************)
THEOREM MessagesNotMixedUp ==
    ASSUME NEW n \in Nat \ {0}, 0..(n - 1) \subseteq Procs
    PROVE  JobSpec(n) => []NoMixup
<1>1. IInv(n) => NoMixup
  BY NothingMixed
<1> QED
  BY <1>1, InvariantHolds, PTL

\* Where there are entries there is a process of the job.
LEMMA OwnerInJob ==
    ASSUME NEW n, Tables(n), NEW p \in Procs, NEW i \in DOMAIN pool[p]
    PROVE  p \in Job(n)
  BY DEF Tables

\* An entry beyond the root communicator, its parent and its step.
LEMMA EntryFrom ==
    ASSUME NEW n, Tables(n), Entries(n), NEW p \in Job(n), NEW i \in DOMAIN pool[p], i # 1
    PROVE  LET k == made[p][i].step
           IN  /\ k \in Steps /\ k # 0 /\ MadeAt(p, k) /\ Calls(p, k)
               /\ pool[p][made[p][i].from + 1] = Parent(p, k)
               /\ pool[p][i] = SplitOf(n, p, Parent(p, k), k)
<1> DEFINE k == made[p][i].step
           at == made[p][i].from + 1
<1>1. pool[p] \in Seq(Communicators(n)) /\ pool[p] # <<>>
  BY DEF Tables, Types, Setting
<1>2. k \in Steps /\ at \in DOMAIN pool[p] /\ made[p][at].step = program[k].on
  BY <1>1 DEF Tables, Places
<1>3. MadeAt(p, k) /\ Of(p, k) = pool[p][i]
  BY OfEntry
<1>4. Of(p, made[p][at].step) = pool[p][at]
  <2> HIDE DEF at
  <2> QED
    BY <1>2, OfEntry
<1> HIDE DEF k, at
<1>5. k # 0
  BY <1>2, StepFacts
<1>6. Calls(p, k) /\ Of(p, k) = SplitOf(n, p, Parent(p, k), k)
  BY <1>3, <1>5 DEF Entries, EntryRight
<1> QED
  BY <1>2, <1>3, <1>4, <1>5, <1>6 DEF Parent, k, at

\* The entries of one step are the same for all members, and their tables fit.
LEMMA GroupsRight == ASSUME NEW n, IInv(n) PROVE GroupsAgree
<1> SUFFICES ASSUME NEW p \in Procs, NEW i \in DOMAIN pool[p]
             PROVE  LET e == pool[p][i]
                    IN  /\ e.commRanks[p] = e.myCommRank /\ e.rootRanks[e.myCommRank] = p
                        /\ \A r \in Group(e) : e.rootRanks[e.commRanks[r]] = r
                        /\ \A q \in Group(e) : \A j \in DOMAIN pool[q] :
                             made[q][j].step = made[p][i].step =>
                               pool[q][j] = [e EXCEPT !.myCommRank = pool[q][j].myCommRank]
  BY DEF GroupsAgree
<1> DEFINE e == pool[p][i]
           k == made[p][i].step
<1>1. Tables(n) /\ Entries(n) /\ p \in Job(n)
  BY OwnerInJob DEF IInv
<1>2. MadeAt(p, k) /\ Of(p, k) = e
  BY <1>1, OfEntry
<1> HIDE DEF k, e
<1>3. WellFormed(n, p, e) /\ AlikeAt(p, k)
  BY <1>1, <1>2 DEF Entries, EntryRight
<1>4. e.rootRanks[e.myCommRank] = p /\ e.commRanks[p] = e.myCommRank
  BY <1>3 DEF WellFormed
<1>5. \A r \in Group(e) : e.rootRanks[e.commRanks[r]] = r
  BY <1>3 DEF WellFormed, Group
<1>6. ASSUME NEW q \in Group(e), NEW j \in DOMAIN pool[q], made[q][j].step = k
      PROVE  pool[q][j] = [e EXCEPT !.myCommRank = pool[q][j].myCommRank]
  <2>1. q \in Job(n)
    BY <1>3, RootRanksInJob
  <2>2. MadeAt(q, k) /\ Of(q, k) = pool[q][j]
    BY <1>1, <1>6, <2>1, OfEntry
  <2>3. Alike(e, pool[q][j])
    BY <1>2, <1>3, <2>2 DEF AlikeAt
  <2>4. e \in Communicators(n) /\ pool[q][j] \in Communicators(n)
    BY <1>1, <1>3, <2>1, <2>2 DEF Entries, EntryRight, WellFormed
  <2> QED
    BY <2>3, <2>4, AlikeExcept
<1> QED
  BY <1>4, <1>5, <1>6 DEF e, k

(***************************************************************************)
(* All members that have made a communicator in a step have made the same: *)
(* the same members in the same order, whatever order std::sort gives      *)
(* equal keys, and whatever handles the members know it by.                *)
(***************************************************************************)
THEOREM MembersAgree ==
    ASSUME NEW n \in Nat \ {0}, 0..(n - 1) \subseteq Procs
    PROVE  JobSpec(n) => []GroupsAgree
<1>1. IInv(n) => GroupsAgree
  BY GroupsRight
<1> QED
  BY <1>1, InvariantHolds, PTL

\* An entry is what its split asks for, and is there for all when one returns.
LEMMA SplitsRight == ASSUME NEW n, IInv(n) PROVE SplitRight
<1> SUFFICES ASSUME NEW p \in Procs, NEW i \in DOMAIN pool[p] \ {1}
             PROVE  LET e == pool[p][i]
                        parent == pool[p][made[p][i].from + 1]
                        call == program[made[p][i].step]
                    IN  /\ e.color = call.color[p]
                        /\ Group(e) = IF e.color = UNDEFINED THEN {p}
                                        ELSE {q \in Group(parent) : call.color[q] = e.color}
                        /\ \A q, r \in Group(e) :
                             call.key[q] < call.key[r] => e.commRanks[q] < e.commRanks[r]
                        /\ made[p][i].step =< step[p] =>
                             \A q \in Group(parent) :
                               \E j \in DOMAIN pool[q] : made[q][j].step = made[p][i].step
  BY DEF SplitRight
<1> DEFINE k == made[p][i].step
           e == pool[p][i]
<1>1. Tables(n) /\ Entries(n) /\ Setting(n) /\ p \in Job(n) /\ i # 1
  BY OwnerInJob DEF IInv, Tables, Types
<1>2. /\ k \in Steps /\ k # 0 /\ MadeAt(p, k) /\ Calls(p, k)
      /\ pool[p][made[p][i].from + 1] = Parent(p, k)
      /\ e = SplitOf(n, p, Parent(p, k), k)
  BY <1>1, EntryFrom
<1> HIDE DEF k, e
<1>3. WellFormed(n, p, Parent(p, k))
  BY <1>1, <1>2, ParentRight
<1>4. LET f == SplitOf(n, p, Parent(p, k), k)
      IN  /\ f.color = program[k].color[p]
          /\ Group(f) = IF f.color = UNDEFINED THEN {p}
                          ELSE {q \in Together(p, k) : program[k].color[q] = f.color}
          /\ \A q, r \in Group(f) :
               program[k].key[q] < program[k].key[r] => f.commRanks[q] < f.commRanks[r]
  BY <1>1, <1>2, <1>3, SplitOfRight DEF Together
<1>5. /\ e.color = program[k].color[p]
      /\ Group(e) = IF e.color = UNDEFINED THEN {p}
                      ELSE {q \in Together(p, k) : program[k].color[q] = e.color}
      /\ \A q, r \in Group(e) :
           program[k].key[q] < program[k].key[r] => e.commRanks[q] < e.commRanks[r]
  BY <1>2, <1>4
<1>6. Together(p, k) = Group(pool[p][made[p][i].from + 1])
  BY <1>2 DEF Together
<1>7. k =< step[p] => \A q \in Together(p, k) :
                        \E j \in DOMAIN pool[q] : made[q][j].step = k
  <2>1. MadeByAll(p, k)
    BY <1>1, <1>2 DEF Entries
  <2> QED
    BY <2>1 DEF MadeByAll, MadeAt
<1> QED
  BY <1>5, <1>6, <1>7 DEF k, e

(***************************************************************************)
(* A split yields the members of the parent with the caller's color, in    *)
(* the order of their keys, or the caller alone for RDMA_UNDEFINED, and    *)
(* nobody returns from it before every member of the parent has its entry. *)
(***************************************************************************)
THEOREM SplitsAreRight ==
    ASSUME NEW n \in Nat \ {0}, 0..(n - 1) \subseteq Procs
    PROVE  JobSpec(n) => []SplitRight
<1>1. IInv(n) => SplitRight
  BY SplitsRight
<1> QED
  BY <1>1, InvariantHolds, PTL
=============================================================================
