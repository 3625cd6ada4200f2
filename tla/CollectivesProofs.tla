------------------------- MODULE CollectivesProofs -------------------------
(***************************************************************************)
(* Proofs that the collective operations of module Collectives meet their  *)
(* messages and put the right data into every buffer, for any number of    *)
(* processes, any program of calls on any communicators and any capacity   *)
(* of the connections.                                                     *)
(*                                                                         *)
(* First what the loops of the scripts unroll to, then whom each operation *)
(* sends to and receives from, then the invariant of the connections, and  *)
(* on top of it that of the data.                                          *)
(***************************************************************************)
EXTENDS Collectives, FiniteSetTheorems, WellFoundedInduction, TLAPS

(* Induction *)

\* Induction over the natural numbers, for a set of them.
LEMMA NatSet ==
    ASSUME NEW S, 0 \in S, \A m \in Nat : m \in S => m + 1 \in S
    PROVE  Nat \subseteq S
<1> DEFINE T == Nat \ S
           R == OpToRel(<, Nat)
<1>1. IsWellFoundedOn(R, Nat)
  BY NatLessThanWellFounded
<1>2. \A x, y \in Nat : <<x, y>> \in R <=> x < y
  BY DEF OpToRel
<1> SUFFICES ASSUME T # {} PROVE FALSE
  OBVIOUS
<1>3. T \subseteq Nat
  OBVIOUS
<1> HIDE DEF T, R
<1>4. PICK x \in T : \A y \in T : ~(<<y, x>> \in R)
  BY <1>1, <1>3, WFMin
<1>5. \A y \in T : ~(y < x)
  BY <1>2, <1>3, <1>4
<1>6. x - 1 \in Nat /\ x - 1 < x
  BY <1>3 DEF T
<1>7. x - 1 \in S
  BY <1>5, <1>6 DEF T
<1> QED
  BY <1>3, <1>6, <1>7 DEF T

\* Induction along an interval.
LEMMA Along ==
    ASSUME NEW S, NEW lo \in Int, NEW hi \in Int, lo - 1 \in S,
           \A i \in lo..hi : i - 1 \in S => i \in S
    PROVE  (lo - 1)..hi \subseteq S
<1> DEFINE T == {m \in Nat : lo - 1 + m > hi \/ lo - 1 + m \in S}
<1>1. 0 \in T
  OBVIOUS
<1>2. ASSUME NEW m \in Nat, m \in T PROVE m + 1 \in T
  <2>1. CASE lo + m > hi
    BY <2>1
  <2>2. CASE ~(lo + m > hi)
    <3>1. lo + m \in lo..hi /\ (lo + m) - 1 \in S
      BY <1>2, <2>2
    <3>2. lo + m \in S
      BY <3>1
    <3>3. lo - 1 + (m + 1) = lo + m
      OBVIOUS
    <3> QED
      BY <3>2, <3>3
  <2> QED
    BY <2>1, <2>2
<1> HIDE DEF T
<1>3. Nat \subseteq T
  BY <1>1, <1>2, NatSet
<1>4. ASSUME NEW i \in (lo - 1)..hi PROVE i \in S
  <2>1. i - (lo - 1) \in Nat /\ lo - 1 + (i - (lo - 1)) = i /\ ~(i > hi)
    OBVIOUS
  <2>2. i - (lo - 1) \in T
    BY <1>3, <2>1
  <2> QED
    BY <2>1, <2>2 DEF T
<1> QED
  BY <1>4

(* Loops *)

\* Loop f is the loop up to i.
IsLoop(f, lo, i, body) ==
    f = [j \in (lo - 1)..i |-> IF j < lo THEN <<>> ELSE f[j - 1] \o body[j]]

\* The loop up to any point exists.
LEMMA LoopExists ==
    ASSUME NEW lo \in Int, NEW hi \in Int, NEW body
    PROVE  \A i \in (lo - 1)..hi : \E f : IsLoop(f, lo, i, body)
<1> DEFINE S == {i \in Int : \E f : IsLoop(f, lo, i, body)}
<1>1. lo - 1 \in S
  <2> DEFINE g == [j \in (lo - 1)..(lo - 1) |-> <<>>]
             h == [j \in (lo - 1)..(lo - 1) |->
                       IF j < lo THEN <<>> ELSE g[j - 1] \o body[j]]
  <2>1. \A j \in (lo - 1)..(lo - 1) : j < lo
    OBVIOUS
  <2>2. \A j \in (lo - 1)..(lo - 1) : h[j] = g[j]
    BY <2>1
  <2>3. g = [j \in (lo - 1)..(lo - 1) |-> g[j]] /\ h = [j \in (lo - 1)..(lo - 1) |-> h[j]]
    OBVIOUS
  <2>4. g = h
    <3> HIDE DEF g, h
    <3> QED
      BY <2>2, <2>3
  <2>5. IsLoop(g, lo, lo - 1, body)
    BY <2>4 DEF IsLoop
  <2> HIDE DEF g
  <2> QED
    BY <2>5
<1>2. ASSUME NEW i \in lo..hi, i - 1 \in S PROVE i \in S
  <2>1. PICK f : IsLoop(f, lo, i - 1, body)
    BY <1>2
  <2> DEFINE g == [j \in (lo - 1)..i |-> IF j = i THEN f[i - 1] \o body[i] ELSE f[j]]
  <2>2. ASSUME NEW j \in (lo - 1)..i
        PROVE g[j] = IF j < lo THEN <<>> ELSE g[j - 1] \o body[j]
    <3>1. CASE j = i
      <4>1. g[j] = f[i - 1] \o body[i] /\ ~(j < lo)
        <5>1. i \in (lo - 1)..i /\ ~(i < lo)
          OBVIOUS
        <5> QED
          BY <3>1, <5>1
      <4>2. g[j - 1] = f[i - 1]
        BY <3>1
      <4> QED
        BY <3>1, <4>1, <4>2
    <3>2. CASE j # i
      <4>1. j \in (lo - 1)..(i - 1)
        BY <3>2
      <4>2. f[j] = IF j < lo THEN <<>> ELSE f[j - 1] \o body[j]
        BY <2>1, <4>1 DEF IsLoop
      <4>3. g[j] = f[j]
        BY <3>2
      <4>4. ~(j < lo) => g[j - 1] = f[j - 1]
        BY <3>2
      <4> QED
        BY <4>2, <4>3, <4>4
    <3> QED
      BY <3>1, <3>2
  <2>3. IsLoop(g, lo, i, body)
    <3> DEFINE h == [j \in (lo - 1)..i |-> IF j < lo THEN <<>> ELSE g[j - 1] \o body[j]]
    <3>1. \A j \in (lo - 1)..i : g[j] = h[j]
      BY <2>2
    <3>2. g = h
      <4>1. g = [j \in (lo - 1)..i |-> g[j]]
        OBVIOUS
      <4>2. h = [j \in (lo - 1)..i |-> h[j]]
        OBVIOUS
      <4> HIDE DEF g, h
      <4> QED
        BY <3>1, <4>1, <4>2
    <3> QED
      BY <3>2 DEF IsLoop
  <2> QED
    BY <2>3
<1> HIDE DEF S
<1>3. (lo - 1)..hi \subseteq S
  BY <1>1, <1>2, Along
<1> QED
  BY <1>3 DEF S

\* A loop runs its bodies one after the other.
LEMMA LoopRuns ==
    ASSUME NEW lo \in Int, NEW hi \in Int, lo =< hi, NEW body
    PROVE  \E f : /\ f[lo - 1] = <<>> /\ f[hi] = For(lo, hi, body)
                  /\ \A i \in lo..hi : f[i] = f[i - 1] \o body[i]
<1> DEFINE F == CHOOSE f : f = [j \in (lo - 1)..hi |->
                                  IF j < lo THEN <<>> ELSE f[j - 1] \o body[j]]
<1>1. \E f : IsLoop(f, lo, hi, body)
  <2>1. hi \in (lo - 1)..hi
    OBVIOUS
  <2> QED
    BY <2>1, LoopExists
<1>2. F = [j \in (lo - 1)..hi |-> IF j < lo THEN <<>> ELSE F[j - 1] \o body[j]]
  BY <1>1 DEF IsLoop
<1>3. For(lo, hi, body) = F[hi]
  BY DEF For
<1> HIDE DEF F
<1>4. F[lo - 1] = <<>>
  <2>1. lo - 1 \in (lo - 1)..hi /\ lo - 1 < lo
    OBVIOUS
  <2> QED
    BY <1>2, <2>1
<1>5. ASSUME NEW i \in lo..hi PROVE F[i] = F[i - 1] \o body[i]
  <2>1. i \in (lo - 1)..hi /\ ~(i < lo)
    OBVIOUS
  <2> QED
    BY <1>2, <2>1
<1> QED
  BY <1>3, <1>4, <1>5

(* The steps of a script *)

Acts == {"send", "recv", "combine", "copy"}
Receiving == {"recv", "combine"}

\* The steps of a call of n members.
StepsOf(n) == [act : Acts, peer : 0..(n - 1), buf : {"in", "out"}, block : 0..(n - 1)]

Elems(s) == {s[i] : i \in DOMAIN s}

\* Whom a script sends to and receives from.
Out(s) == {x.peer : x \in {y \in Elems(s) : y.act = "send"}}
In(s) == {x.peer : x \in {y \in Elems(s) : y.act \in Receiving}}

\* What a script does at most once: a send to a peer, a receive from one, a copy.
Key(x) ==
    IF x.act = "send" THEN <<"send", x.peer>>
    ELSE IF x.act = "copy" THEN <<"copy", 0>> ELSE <<"recv", x.peer>>

Keys(s) == {Key(x) : x \in Elems(s)}

Once(s) == \A i, j \in DOMAIN s : i # j => Key(s[i]) # Key(s[j])

\* A copy, then receives, then sends.
Phase(x) == IF x.act = "copy" THEN 0 ELSE IF x.act = "send" THEN 2 ELSE 1

Ordered(s) == \A i, j \in DOMAIN s : i < j => Phase(s[i]) =< Phase(s[j])

\* One script after another.
LEMMA Both ==
    ASSUME NEW T, NEW s \in Seq(T), NEW t \in Seq(T)
    PROVE  /\ s \o t \in Seq(T)
           /\ Elems(s \o t) = Elems(s) \cup Elems(t)
           /\ Keys(s \o t) = Keys(s) \cup Keys(t)
           /\ Once(s) /\ Once(t) /\ Keys(s) \cap Keys(t) = {} => Once(s \o t)
           /\ Ordered(s) /\ Ordered(t)
                /\ (\A x \in Elems(s), y \in Elems(t) : Phase(x) =< Phase(y))
                => Ordered(s \o t)
<1> DEFINE u == s \o t
<1>1. u \in Seq(T) /\ Len(u) = Len(s) + Len(t)
  OBVIOUS
<1>2. \A i \in 1..Len(s) : i \in DOMAIN u /\ u[i] = s[i]
  OBVIOUS
<1>3. \A i \in 1..Len(t) : i + Len(s) \in DOMAIN u /\ u[i + Len(s)] = t[i]
  OBVIOUS
<1>4. ASSUME NEW i \in DOMAIN u
      PROVE \/ i \in DOMAIN s /\ u[i] = s[i]
            \/ i - Len(s) \in DOMAIN t /\ i > Len(s) /\ u[i] = t[i - Len(s)]
  OBVIOUS
<1>5. DOMAIN s = 1..Len(s) /\ DOMAIN t = 1..Len(t) /\ DOMAIN u = 1..Len(u)
      /\ Len(s) \in Nat /\ Len(t) \in Nat
  OBVIOUS
<1> HIDE DEF u
<1>6. Elems(u) = Elems(s) \cup Elems(t)
  <2>1. Elems(u) \subseteq Elems(s) \cup Elems(t)
    BY <1>4 DEF Elems
  <2>2. Elems(s) \subseteq Elems(u)
    BY <1>2, <1>5 DEF Elems
  <2>3. Elems(t) \subseteq Elems(u)
    BY <1>3, <1>5 DEF Elems
  <2> QED
    BY <2>1, <2>2, <2>3
<1>7. Keys(u) = Keys(s) \cup Keys(t)
  BY <1>6 DEF Keys
<1>8. ASSUME Once(s), Once(t), Keys(s) \cap Keys(t) = {} PROVE Once(u)
  <2> SUFFICES ASSUME NEW i \in DOMAIN u, NEW j \in DOMAIN u, i # j
               PROVE Key(u[i]) # Key(u[j])
    BY DEF Once
  <2>1. \A a \in DOMAIN s : Key(s[a]) \in Keys(s)
    BY DEF Keys, Elems
  <2>2. \A a \in DOMAIN t : Key(t[a]) \in Keys(t)
    BY DEF Keys, Elems
  <2>3. CASE i \in DOMAIN s /\ j \in DOMAIN s /\ u[i] = s[i] /\ u[j] = s[j]
    BY <1>8, <2>3 DEF Once
  <2>4. CASE /\ i - Len(s) \in DOMAIN t /\ j - Len(s) \in DOMAIN t
             /\ u[i] = t[i - Len(s)] /\ u[j] = t[j - Len(s)]
    <3>1. i - Len(s) # j - Len(s)
      BY <1>5
    <3> QED
      BY <1>8, <2>4, <3>1 DEF Once
  <2>5. CASE /\ i \in DOMAIN s /\ j - Len(s) \in DOMAIN t
             /\ u[i] = s[i] /\ u[j] = t[j - Len(s)]
    BY <1>8, <2>1, <2>2, <2>5
  <2>6. CASE /\ j \in DOMAIN s /\ i - Len(s) \in DOMAIN t
             /\ u[j] = s[j] /\ u[i] = t[i - Len(s)]
    BY <1>8, <2>1, <2>2, <2>6
  <2> QED
    BY <1>4, <2>3, <2>4, <2>5, <2>6
<1>9. ASSUME Ordered(s), Ordered(t),
             \A x \in Elems(s), y \in Elems(t) : Phase(x) =< Phase(y)
      PROVE Ordered(u)
  <2> SUFFICES ASSUME NEW i \in DOMAIN u, NEW j \in DOMAIN u, i < j
               PROVE Phase(u[i]) =< Phase(u[j])
    BY DEF Ordered
  <2>1. CASE i \in DOMAIN s /\ j \in DOMAIN s /\ u[i] = s[i] /\ u[j] = s[j]
    BY <1>9, <2>1 DEF Ordered
  <2>2. CASE /\ i - Len(s) \in DOMAIN t /\ j - Len(s) \in DOMAIN t
             /\ u[i] = t[i - Len(s)] /\ u[j] = t[j - Len(s)]
    <3>1. i - Len(s) < j - Len(s)
      BY <1>5
    <3> QED
      BY <1>9, <2>2, <3>1 DEF Ordered
  <2>3. CASE /\ i \in DOMAIN s /\ j - Len(s) \in DOMAIN t
             /\ u[i] = s[i] /\ u[j] = t[j - Len(s)]
    BY <1>9, <2>3 DEF Elems
  <2>4. ~(j \in DOMAIN s /\ i > Len(s))
    BY <1>5
  <2> QED
    BY <1>4, <2>1, <2>2, <2>3, <2>4
<1> QED
  BY <1>1, <1>6, <1>7, <1>8, <1>9 DEF u

\* No script and a script of one step.
LEMMA Nothing ==
    /\ Elems(<<>>) = {} /\ Keys(<<>>) = {} /\ Once(<<>>) /\ Ordered(<<>>)
    /\ \A T : <<>> \in Seq(T)
<1>1. DOMAIN <<>> = {}
  OBVIOUS
<1>2. Elems(<<>>) = {}
  BY <1>1 DEF Elems
<1> QED
  BY <1>1, <1>2 DEF Keys, Once, Ordered

\* A script of one step.
LEMMA Single ==
    ASSUME NEW x
    PROVE  /\ Elems(<<x>>) = {x} /\ Keys(<<x>>) = {Key(x)}
           /\ Once(<<x>>) /\ Ordered(<<x>>)
           /\ \A T : x \in T => <<x>> \in Seq(T)
<1>1. DOMAIN <<x>> = {1} /\ <<x>>[1] = x
  OBVIOUS
<1>2. Elems(<<x>>) = {x}
  BY <1>1 DEF Elems
<1>3. Once(<<x>>) /\ Ordered(<<x>>)
  BY <1>1 DEF Once, Ordered
<1>4. Keys(<<x>>) = {Key(x)}
  BY <1>2 DEF Keys
<1> QED
  BY <1>2, <1>3, <1>4

\* A script of one phase is ordered.
LEMMA OnePhase ==
    ASSUME NEW s, NEW c \in Nat, \A x \in Elems(s) : Phase(x) = c
    PROVE  Ordered(s)
  BY DEF Ordered, Elems

\* The scripts of a loop.
LEMMA ForScript ==
    ASSUME NEW T, NEW lo \in Int, NEW hi \in Int, NEW body \in [lo..hi -> Seq(T)]
    PROVE  /\ For(lo, hi, body) \in Seq(T)
           /\ Elems(For(lo, hi, body)) = UNION {Elems(body[i]) : i \in lo..hi}
           /\ Keys(For(lo, hi, body)) = UNION {Keys(body[i]) : i \in lo..hi}
           /\ (\A i \in lo..hi : Once(body[i]))
                /\ (\A i, j \in lo..hi : i # j => Keys(body[i]) \cap Keys(body[j]) = {})
                => Once(For(lo, hi, body))
<1>1. CASE hi < lo
  <2>1. lo..hi = {} /\ For(lo, hi, body) = <<>>
    BY <1>1 DEF For
  <2> QED
    BY <2>1, Nothing
<1>2. CASE ~(hi < lo)
  <2>1. PICK f : /\ f[lo - 1] = <<>> /\ f[hi] = For(lo, hi, body)
                 /\ \A i \in lo..hi : f[i] = f[i - 1] \o body[i]
    <3>1. lo =< hi
      BY <1>2
    <3> QED
      BY <3>1, LoopRuns
  <2> DEFINE Good == /\ \A i \in lo..hi : Once(body[i])
                     /\ \A i, j \in lo..hi : i # j => Keys(body[i]) \cap Keys(body[j]) = {}
             S == {i \in Int : /\ f[i] \in Seq(T)
                               /\ Elems(f[i]) = UNION {Elems(body[j]) : j \in lo..i}
                               /\ Good => Once(f[i])}
  <2> HIDE DEF Good
  <2>2. lo - 1 \in S
    <3>1. lo..(lo - 1) = {}
      OBVIOUS
    <3>2. Elems(f[lo - 1]) = {} /\ f[lo - 1] \in Seq(T) /\ Once(f[lo - 1])
      BY <2>1, Nothing
    <3> QED
      BY <3>1, <3>2
  <2>3. ASSUME NEW i \in lo..hi, i - 1 \in S PROVE i \in S
    <3>1. f[i] = f[i - 1] \o body[i]
      BY <2>1
    <3>2. f[i - 1] \in Seq(T) /\ body[i] \in Seq(T)
      BY <2>3
    <3>3. Elems(f[i - 1]) = UNION {Elems(body[j]) : j \in lo..(i - 1)}
      BY <2>3
    <3>4. f[i] \in Seq(T) /\ Elems(f[i]) = Elems(f[i - 1]) \cup Elems(body[i])
      BY <3>1, <3>2, Both
    <3>5. lo..i = (lo..(i - 1)) \cup {i}
      OBVIOUS
    <3>6. Elems(f[i]) = UNION {Elems(body[j]) : j \in lo..i}
      BY <3>3, <3>4, <3>5
    <3>7. ASSUME Good PROVE Once(f[i])
      <4>1. Once(f[i - 1]) /\ Once(body[i])
        BY <2>3, <3>7 DEF Good
      <4>2. ASSUME NEW k \in Keys(f[i - 1]), k \in Keys(body[i]) PROVE FALSE
        <5>1. PICK x \in Elems(f[i - 1]) : k = Key(x)
          BY DEF Keys
        <5>2. PICK j \in lo..(i - 1) : x \in Elems(body[j])
          BY <3>3
        <5>3. k \in Keys(body[j])
          BY <5>1, <5>2 DEF Keys
        <5>4. j \in lo..hi /\ j # i
          OBVIOUS
        <5> QED
          BY <3>7, <4>2, <5>3, <5>4 DEF Good
      <4> QED
        BY <3>1, <3>2, <4>1, <4>2, Both
    <3> QED
      BY <3>4, <3>6, <3>7
  <2> HIDE DEF S
  <2>4. (lo - 1)..hi \subseteq S
    BY <2>2, <2>3, Along
  <2>5. hi \in S
    BY <1>2, <2>4
  <2>6. /\ f[hi] \in Seq(T)
        /\ Elems(f[hi]) = UNION {Elems(body[j]) : j \in lo..hi}
        /\ Good => Once(f[hi])
    BY <2>5 DEF S
  <2>7. Keys(f[hi]) = UNION {Keys(body[i]) : i \in lo..hi}
    BY <2>6 DEF Keys
  <2> QED
    BY <2>1, <2>6, <2>7 DEF Good
<1> QED
  BY <1>1, <1>2

(* The scripts of the calls *)

SendRec(r, buf, i) == [act |-> "send", peer |-> r, buf |-> buf, block |-> i]
RecvRec(act, r, i) == [act |-> act, peer |-> r, buf |-> "out", block |-> i]
CopyRec(r, i) == [act |-> "copy", peer |-> r, buf |-> "out", block |-> i]

\* The script of n members consists of the given steps and does nothing twice.
Made(s, n, steps, keys) ==
    s \in Seq(StepsOf(n)) /\ Once(s) /\ Elems(s) = steps /\ Keys(s) = keys

\* Keys tell steps apart.
LEMMA KeysDiffer == \A a, b, c, d : <<a, b>> = <<c, d>> <=> a = c /\ b = d
  OBVIOUS

\* The single steps.
LEMMA SndMade ==
    ASSUME NEW n, NEW r \in 0..(n - 1), NEW buf \in {"in", "out"}, NEW i \in 0..(n - 1)
    PROVE  Made(Snd(r, buf, i), n, {SendRec(r, buf, i)}, {<<"send", r>>})
<1>1. Snd(r, buf, i) = <<SendRec(r, buf, i)>>
  BY DEF Snd, SendRec
<1>2. SendRec(r, buf, i) \in StepsOf(n)
  BY DEF SendRec, StepsOf, Acts
<1>3. Key(SendRec(r, buf, i)) = <<"send", r>>
  BY DEF Key, SendRec
<1> QED
  BY <1>1, <1>2, <1>3, Single DEF Made

\* A receive, of either kind.
LEMMA RecvRecMade ==
    ASSUME NEW n, NEW r \in 0..(n - 1), NEW i \in 0..(n - 1), NEW act \in Receiving
    PROVE  Made(<<RecvRec(act, r, i)>>, n, {RecvRec(act, r, i)}, {<<"recv", r>>})
<1>1. RecvRec(act, r, i) \in StepsOf(n)
  BY DEF RecvRec, StepsOf, Acts, Receiving
<1>2. Key(RecvRec(act, r, i)) = <<"recv", r>>
  BY DEF Key, RecvRec, Receiving
<1> QED
  BY <1>1, <1>2, Single DEF Made

\* A receive that overwrites its block.
LEMMA RcvMade ==
    ASSUME NEW n, NEW r \in 0..(n - 1), NEW i \in 0..(n - 1)
    PROVE  Made(Rcv(r, i), n, {RecvRec("recv", r, i)}, {<<"recv", r>>})
<1>1. Rcv(r, i) = <<RecvRec("recv", r, i)>> /\ "recv" \in Receiving
  BY DEF Rcv, RecvRec, Receiving
<1> QED
  BY <1>1, RecvRecMade

\* A receive that is appended to block 0.
LEMMA CombineMade ==
    ASSUME NEW n \in Nat, NEW r \in 0..(n - 1)
    PROVE  Made(Combine(r), n, {RecvRec("combine", r, 0)}, {<<"recv", r>>})
<1>1. Combine(r) = <<RecvRec("combine", r, 0)>> /\ "combine" \in Receiving
  BY DEF Combine, RecvRec, Receiving
<1>2. 0 \in 0..(n - 1)
  OBVIOUS
<1> QED
  BY <1>1, <1>2, RecvRecMade

\* A copy from the send buffer.
LEMMA CopyMade ==
    ASSUME NEW n, NEW r \in 0..(n - 1), NEW i \in 0..(n - 1)
    PROVE  Made(Copy(r, i), n, {CopyRec(r, i)}, {<<"copy", 0>>})
<1>1. Copy(r, i) = <<CopyRec(r, i)>>
  BY DEF Copy, CopyRec
<1>2. CopyRec(r, i) \in StepsOf(n)
  BY DEF CopyRec, StepsOf, Acts
<1>3. Key(CopyRec(r, i)) = <<"copy", 0>>
  BY DEF Key, CopyRec
<1> QED
  BY <1>1, <1>2, <1>3, Single DEF Made

\* The empty script.
LEMMA NothingMade == ASSUME NEW n PROVE Made(<<>>, n, {}, {})
  BY Nothing DEF Made

\* One script after another.
LEMMA Then ==
    ASSUME NEW n, NEW s, NEW t, NEW A, NEW B, NEW K, NEW L,
           Made(s, n, A, K), Made(t, n, B, L), K \cap L = {}
    PROVE  Made(s \o t, n, A \cup B, K \cup L)
<1> DEFINE T == StepsOf(n)
<1>1. /\ s \in Seq(T) /\ t \in Seq(T) /\ Once(s) /\ Once(t) /\ Elems(s) = A /\ Elems(t) = B
      /\ Keys(s) = K /\ Keys(t) = L
  BY DEF Made
<1> HIDE DEF T
<1>2. /\ s \o t \in Seq(T) /\ Elems(s \o t) = Elems(s) \cup Elems(t)
      /\ Keys(s \o t) = Keys(s) \cup Keys(t) /\ Once(s \o t)
  BY <1>1, Both
<1> QED
  BY <1>1, <1>2 DEF Made, T

\* The bodies of a loop are scripts that consist of the given steps, and no two do
\* the same.
Bodies(body, n, lo, hi, steps, keys) ==
    /\ body = [i \in lo..hi |-> body[i]]
    /\ \A i \in lo..hi : Made(body[i], n, steps[i], keys[i])
    /\ \A i, j \in lo..hi : i # j => keys[i] \cap keys[j] = {}

\* A loop of scripts.
LEMMA Loop ==
    ASSUME NEW n, NEW lo \in Int, NEW hi \in Int,
           NEW steps, NEW keys, NEW body, Bodies(body, n, lo, hi, steps, keys)
    PROVE  Made(For(lo, hi, body), n, UNION {steps[i] : i \in lo..hi},
                UNION {keys[i] : i \in lo..hi})
<1> DEFINE T == StepsOf(n)
<1>1. \A i \in lo..hi : /\ body[i] \in Seq(T) /\ Once(body[i]) /\ Elems(body[i]) = steps[i]
                        /\ Keys(body[i]) = keys[i]
  BY DEF Made, Bodies
<1>2. body \in [lo..hi -> Seq(T)]
  BY <1>1 DEF Bodies
<1> HIDE DEF T
<1>3. /\ For(lo, hi, body) \in Seq(T)
      /\ Elems(For(lo, hi, body)) = UNION {Elems(body[i]) : i \in lo..hi}
      /\ Keys(For(lo, hi, body)) = UNION {Keys(body[i]) : i \in lo..hi}
      /\ (\A i \in lo..hi : Once(body[i]))
           /\ (\A i, j \in lo..hi : i # j => Keys(body[i]) \cap Keys(body[j]) = {})
           => Once(For(lo, hi, body))
  BY <1>2, ForScript
<1>4. Once(For(lo, hi, body))
  BY <1>1, <1>3 DEF Bodies
<1>5. /\ {Elems(body[i]) : i \in lo..hi} = {steps[i] : i \in lo..hi}
      /\ {Keys(body[i]) : i \in lo..hi} = {keys[i] : i \in lo..hi}
  BY <1>1
<1> QED
  BY <1>3, <1>4, <1>5 DEF Made, T

Others(n, me) == (0..(n - 1)) \ {me}

\* The scripts of one step each with the members of S.
Each(S, n, name, one, rec) == \A r \in S : Made(one[r], n, {rec[r]}, {<<name, r>>})

\* No such step with anyone is in the keys.
Free(name, K) == \A r : <<name, r>> \notin K

\* A loop over the members, with a script for oneself and one step with each other.
LEMMA LoopOthers ==
    ASSUME NEW n \in Nat, NEW me \in 0..(n - 1), NEW name, NEW one, NEW rec,
           Each(Others(n, me), n, name, one, rec),
           NEW mine, NEW A, NEW K, Made(mine, n, A, K), Free(name, K)
    PROVE  Made(For(0, n - 1, [r \in 0..(n - 1) |-> IF r = me THEN mine ELSE one[r]]), n,
                A \cup {rec[r] : r \in Others(n, me)},
                K \cup {<<name, r>> : r \in Others(n, me)})
<1> DEFINE body == [r \in 0..(n - 1) |-> IF r = me THEN mine ELSE one[r]]
           steps == [r \in 0..(n - 1) |-> IF r = me THEN A ELSE {rec[r]}]
           keys == [r \in 0..(n - 1) |-> IF r = me THEN K ELSE {<<name, r>>}]
<1>1. ASSUME NEW r \in 0..(n - 1) PROVE Made(body[r], n, steps[r], keys[r])
  <2>1. CASE r = me
    <3>1. body[r] = mine /\ steps[r] = A /\ keys[r] = K
      BY <2>1
    <3> HIDE DEF body, steps, keys
    <3> QED
      BY <3>1
  <2>2. CASE r # me
    <3>1. body[r] = one[r] /\ steps[r] = {rec[r]} /\ keys[r] = {<<name, r>>}
      BY <2>2
    <3>2. Made(one[r], n, {rec[r]}, {<<name, r>>})
      BY <2>2 DEF Others, Each
    <3> HIDE DEF body, steps, keys
    <3> QED
      BY <3>1, <3>2
  <2> QED
    BY <2>1, <2>2
<1>2. body = [r \in 0..(n - 1) |-> body[r]]
  OBVIOUS
<1>3. \A r, q \in 0..(n - 1) : r # q => keys[r] \cap keys[q] = {}
  BY KeysDiffer DEF Free
<1>4. UNION {steps[r] : r \in 0..(n - 1)} = A \cup {rec[r] : r \in Others(n, me)}
  <2>1. steps[me] = A
    OBVIOUS
  <2>2. \A r \in Others(n, me) : r \in 0..(n - 1) /\ steps[r] = {rec[r]}
    BY DEF Others
  <2>3. \A r \in 0..(n - 1) : r = me \/ r \in Others(n, me)
    BY DEF Others
  <2> HIDE DEF steps
  <2> QED
    BY <2>1, <2>2, <2>3
<1>5. UNION {keys[r] : r \in 0..(n - 1)} = K \cup {<<name, r>> : r \in Others(n, me)}
  <2>1. keys[me] = K
    OBVIOUS
  <2>2. \A r \in Others(n, me) : r \in 0..(n - 1) /\ keys[r] = {<<name, r>>}
    BY DEF Others
  <2>3. \A r \in 0..(n - 1) : r = me \/ r \in Others(n, me)
    BY DEF Others
  <2> HIDE DEF keys
  <2> QED
    BY <2>1, <2>2, <2>3
<1> HIDE DEF body, steps, keys
<1>6. Bodies(body, n, 0, n - 1, steps, keys)
  BY <1>1, <1>2, <1>3 DEF Bodies
<1>7. n - 1 \in Int /\ 0 \in Int
  OBVIOUS
<1>8. Made(For(0, n - 1, body), n, UNION {steps[r] : r \in 0..(n - 1)},
           UNION {keys[r] : r \in 0..(n - 1)})
  BY <1>6, <1>7, Loop
<1> QED
  BY <1>4, <1>5, <1>8 DEF body

\* The keys of the steps with the members of a set.
SendKeys(S) == {<<"send", r>> : r \in S}
RecvKeys(S) == {<<"recv", r>> : r \in S}
CopyKeys == {<<"copy", 0>>}

\* Sends, receives and copies have different keys.
LEMMA KeySets ==
    /\ \A S, T : SendKeys(S) \cap RecvKeys(T) = {} /\ RecvKeys(T) \cap SendKeys(S) = {}
    /\ \A S : SendKeys(S) \cap CopyKeys = {} /\ CopyKeys \cap SendKeys(S) = {}
    /\ \A S : RecvKeys(S) \cap CopyKeys = {} /\ CopyKeys \cap RecvKeys(S) = {}
    /\ \A S, T : S \cap T = {} => SendKeys(S) \cap SendKeys(T) = {}
                                 /\ RecvKeys(S) \cap RecvKeys(T) = {}
    /\ \A S, T : SendKeys(S) \cup SendKeys(T) = SendKeys(S \cup T)
                 /\ RecvKeys(S) \cup RecvKeys(T) = RecvKeys(S \cup T)
    /\ \A r : {<<"send", r>>} = SendKeys({r}) /\ {<<"recv", r>>} = RecvKeys({r})
<1>1. \A S, T : SendKeys(S) \cap RecvKeys(T) = {} /\ RecvKeys(T) \cap SendKeys(S) = {}
  BY KeysDiffer DEF SendKeys, RecvKeys
<1>2. \A S : SendKeys(S) \cap CopyKeys = {} /\ CopyKeys \cap SendKeys(S) = {}
  BY KeysDiffer DEF SendKeys, CopyKeys
<1>3. \A S : RecvKeys(S) \cap CopyKeys = {} /\ CopyKeys \cap RecvKeys(S) = {}
  BY KeysDiffer DEF RecvKeys, CopyKeys
<1>4. \A S, T : S \cap T = {} => SendKeys(S) \cap SendKeys(T) = {}
                                /\ RecvKeys(S) \cap RecvKeys(T) = {}
  BY KeysDiffer DEF SendKeys, RecvKeys
<1>5. \A S, T : SendKeys(S) \cup SendKeys(T) = SendKeys(S \cup T)
                /\ RecvKeys(S) \cup RecvKeys(T) = RecvKeys(S \cup T)
  BY DEF SendKeys, RecvKeys
<1>6. \A r : {<<"send", r>>} = SendKeys({r}) /\ {<<"recv", r>>} = RecvKeys({r})
  BY DEF SendKeys, RecvKeys
<1> QED
  BY <1>1, <1>2, <1>3, <1>4, <1>5, <1>6

\* A broadcast.
LEMMA BcastMade ==
    ASSUME NEW n \in Nat, NEW me \in 0..(n - 1), NEW root \in 0..(n - 1),
           NEW buf \in {"in", "out"}, NEW i \in 0..(n - 1)
    PROVE  /\ me = root => Made(BcastScript(n, me, root, buf, i), n,
                                {SendRec(r, buf, i) : r \in Others(n, me)},
                                SendKeys(Others(n, me)))
           /\ me # root => Made(BcastScript(n, me, root, buf, i), n,
                                {RecvRec("recv", root, i)}, RecvKeys({root}))
<1>1. CASE me = root
  <2> DEFINE one == [r \in 0..(n - 1) |-> Snd(r, buf, i)]
             rec == [r \in 0..(n - 1) |-> SendRec(r, buf, i)]
  <2>1. \A r \in Others(n, me) : one[r] = Snd(r, buf, i) /\ rec[r] = SendRec(r, buf, i)
    BY DEF Others
  <2>2. [r \in 0..(n - 1) |-> IF r = me THEN <<>> ELSE Snd(r, buf, i)]
        = [r \in 0..(n - 1) |-> IF r = me THEN <<>> ELSE one[r]]
    OBVIOUS
  <2> HIDE DEF one, rec
  <2>3. ASSUME NEW r \in Others(n, me)
        PROVE  Made(one[r], n, {rec[r]}, {<<"send", r>>})
    <3>1. Made(Snd(r, buf, i), n, {SendRec(r, buf, i)}, {<<"send", r>>})
      BY SndMade DEF Others
    <3> QED
      BY <2>1, <3>1
  <2>6. Each(Others(n, me), n, "send", one, rec)
    BY <2>3 DEF Each
  <2>7. Made(<<>>, n, {}, {}) /\ Free("send", {})
    BY NothingMade DEF Free
  <2>4. Made(For(0, n - 1, [r \in 0..(n - 1) |-> IF r = me THEN <<>> ELSE one[r]]), n,
             {} \cup {rec[r] : r \in Others(n, me)},
             {} \cup {<<"send", r>> : r \in Others(n, me)})
    BY <2>6, <2>7, LoopOthers
  <2>5. {rec[r] : r \in Others(n, me)} = {SendRec(r, buf, i) : r \in Others(n, me)}
    BY <2>1
  <2> QED
    BY <1>1, <2>2, <2>4, <2>5 DEF BcastScript, SendKeys
<1>2. CASE me # root
  <2>1. BcastScript(n, me, root, buf, i) = Rcv(root, i)
    BY <1>2 DEF BcastScript
  <2>2. Made(Rcv(root, i), n, {RecvRec("recv", root, i)}, {<<"recv", root>>})
    BY RcvMade
  <2> QED
    BY <1>2, <2>1, <2>2, KeySets
<1> QED
  BY <1>1, <1>2

\* Going round to the right, and to the left, meets every other member once.
LEMMA Around ==
    ASSUME NEW n \in Nat, NEW me \in 0..(n - 1)
    PROVE  /\ \A i \in 1..(n - 1) : Right(n, me, i) \in Others(n, me)
                                    /\ Left(n, me, i) \in Others(n, me)
           /\ \A i, j \in 1..(n - 1) : i # j => Right(n, me, i) # Right(n, me, j)
                                               /\ Left(n, me, i) # Left(n, me, j)
           /\ \A r \in Others(n, me) : \E i \in 1..(n - 1) : Right(n, me, i) = r
           /\ \A r \in Others(n, me) : \E i \in 1..(n - 1) : Left(n, me, i) = r
<1>1. \A i \in 1..(n - 1) : Right(n, me, i) \in Others(n, me)
                            /\ Left(n, me, i) \in Others(n, me)
  BY DEF Right, Left, Others
<1>2. \A i, j \in 1..(n - 1) : i # j => Right(n, me, i) # Right(n, me, j)
                                       /\ Left(n, me, i) # Left(n, me, j)
  BY DEF Right, Left
<1>3. ASSUME NEW r \in Others(n, me)
      PROVE  /\ \E i \in 1..(n - 1) : Right(n, me, i) = r
             /\ \E i \in 1..(n - 1) : Left(n, me, i) = r
  <2>1. CASE r > me
    <3>1. r - me \in 1..(n - 1) /\ Right(n, me, r - me) = r
      BY <2>1 DEF Right, Others
    <3>2. me - r + n \in 1..(n - 1) /\ Left(n, me, me - r + n) = r
      BY <2>1 DEF Left, Others
    <3> QED
      BY <3>1, <3>2
  <2>2. CASE ~(r > me)
    <3>1. me - r \in 1..(n - 1) /\ Left(n, me, me - r) = r
      BY <2>2 DEF Left, Others
    <3>2. r - me + n \in 1..(n - 1) /\ Right(n, me, r - me + n) = r
      BY <2>2 DEF Right, Others
    <3> QED
      BY <3>1, <3>2
  <2> QED
    BY <2>1, <2>2
<1> QED
  BY <1>1, <1>2, <1>3

\* Allgather_exp and Alltoall: block sb[r] to rank r, block c copied.
Exchange(n, me, c, sb) ==
    Snd(Right(n, me, 1), "in", sb[Right(n, me, 1)]) \o Copy(c, me)
    \o For(2, n - 1, [i \in 2..(n - 1) |->
            Snd(Right(n, me, i), "in", sb[Right(n, me, i)])
            \o Rcv(Left(n, me, i - 1), Left(n, me, i - 1))])
    \o Rcv(Left(n, me, n - 1), Left(n, me, n - 1))

\* RDMA_Allgather_exp and RDMA_Alltoall are such exchanges.
LEMMA Exchanges ==
    ASSUME NEW n \in Nat, n > 1, NEW me \in 0..(n - 1)
    PROVE  /\ AllgatherExpScript(n, me) = Exchange(n, me, 0, [r \in 0..(n - 1) |-> 0])
           /\ AlltoallScript(n, me) = Exchange(n, me, me, [r \in 0..(n - 1) |-> r])
<1>1. \A i \in 1..(n - 1) : Right(n, me, i) \in 0..(n - 1)
  BY Around DEF Others
<1>2. 1 \in 1..(n - 1) /\ 2..(n - 1) \subseteq 1..(n - 1)
  OBVIOUS
<1>3. AllgatherExpScript(n, me) = Exchange(n, me, 0, [r \in 0..(n - 1) |-> 0])
  <2> DEFINE z == [r \in 0..(n - 1) |-> 0]
  <2>1. \A i \in 1..(n - 1) : z[Right(n, me, i)] = 0
    BY <1>1
  <2> HIDE DEF z
  <2>2. [i \in 2..(n - 1) |-> Snd(Right(n, me, i), "in", z[Right(n, me, i)])
                              \o Rcv(Left(n, me, i - 1), Left(n, me, i - 1))]
        = [i \in 2..(n - 1) |-> Snd(Right(n, me, i), "in", 0)
                              \o Rcv(Left(n, me, i - 1), Left(n, me, i - 1))]
    BY <1>2, <2>1
  <2>3. AllgatherExpScript(n, me) = Exchange(n, me, 0, z)
    BY <1>2, <2>1, <2>2 DEF AllgatherExpScript, Exchange
  <2> QED
    BY <2>3 DEF z
<1>4. AlltoallScript(n, me) = Exchange(n, me, me, [r \in 0..(n - 1) |-> r])
  <2> DEFINE z == [r \in 0..(n - 1) |-> r]
  <2>1. \A i \in 1..(n - 1) : z[Right(n, me, i)] = Right(n, me, i)
    BY <1>1
  <2> HIDE DEF z
  <2>2. [i \in 2..(n - 1) |-> Snd(Right(n, me, i), "in", z[Right(n, me, i)])
                              \o Rcv(Left(n, me, i - 1), Left(n, me, i - 1))]
        = [i \in 2..(n - 1) |-> Snd(Right(n, me, i), "in", Right(n, me, i))
                              \o Rcv(Left(n, me, i - 1), Left(n, me, i - 1))]
    BY <1>2, <2>1
  <2>3. AlltoallScript(n, me) = Exchange(n, me, me, z)
    BY <1>2, <2>1, <2>2 DEF AlltoallScript, Exchange
  <2> QED
    BY <2>3 DEF z
<1> QED
  BY <1>3, <1>4

\* Every other rank is sent to once and received from once.
LEMMA ExchangeMade ==
    ASSUME NEW n \in Nat, n > 1, NEW me \in 0..(n - 1), NEW c \in 0..(n - 1),
           NEW sb \in [0..(n - 1) -> 0..(n - 1)]
    PROVE  Made(Exchange(n, me, c, sb), n,
                {SendRec(r, "in", sb[r]) : r \in Others(n, me)}
                \cup {RecvRec("recv", r, r) : r \in Others(n, me)} \cup {CopyRec(c, me)},
                (SendKeys(Others(n, me)) \cup CopyKeys) \cup RecvKeys(Others(n, me)))
<1> DEFINE R(i) == Right(n, me, i)
           L(i) == Left(n, me, i)
           send(i) == Snd(R(i), "in", sb[R(i)])
           recv(i) == Rcv(L(i), L(i))
           sent(i) == SendRec(R(i), "in", sb[R(i)])
           got(i) == RecvRec("recv", L(i), L(i))
           body == [i \in 2..(n - 1) |-> send(i) \o recv(i - 1)]
           steps == [i \in 2..(n - 1) |-> {sent(i)} \cup {got(i - 1)}]
           keys == [i \in 2..(n - 1) |-> SendKeys({R(i)}) \cup RecvKeys({L(i - 1)})]
           a == send(1) \o Copy(c, me)
           b == For(2, n - 1, body)
           d == recv(n - 1)
<1>1. \A i \in 1..(n - 1) : R(i) \in 0..(n - 1) /\ L(i) \in 0..(n - 1)
  BY Around DEF Others
<1>2. ASSUME NEW i \in 1..(n - 1)
      PROVE  Made(send(i), n, {sent(i)}, SendKeys({R(i)}))
             /\ Made(recv(i), n, {got(i)}, RecvKeys({L(i)}))
  <2>1. R(i) \in 0..(n - 1) /\ L(i) \in 0..(n - 1)
    BY <1>1
  <2>2. sb[R(i)] \in 0..(n - 1)
    BY <2>1
  <2> HIDE DEF R, L
  <2>3. Made(send(i), n, {sent(i)}, {<<"send", R(i)>>})
    BY <2>1, <2>2, SndMade
  <2>4. Made(recv(i), n, {got(i)}, {<<"recv", L(i)>>})
    BY <2>1, RcvMade
  <2> QED
    BY <2>3, <2>4, KeySets
<1>3. \A i, j \in 1..(n - 1) : i # j => R(i) # R(j) /\ L(i) # L(j)
  BY Around
<1>4. Made(Copy(c, me), n, {CopyRec(c, me)}, CopyKeys)
  BY CopyMade DEF CopyKeys
<1>5. Exchange(n, me, c, sb) = (a \o b) \o d
  BY DEF Exchange
<1>6. Others(n, me) = {R(i) : i \in 1..(n - 1)} /\ Others(n, me) = {L(i) : i \in 1..(n - 1)}
  <2>1. \A i \in 1..(n - 1) : R(i) \in Others(n, me) /\ L(i) \in Others(n, me)
    BY Around
  <2>2. \A r \in Others(n, me) : \E i \in 1..(n - 1) : R(i) = r
    BY Around
  <2>3. \A r \in Others(n, me) : \E i \in 1..(n - 1) : L(i) = r
    BY Around
  <2> HIDE DEF R, L
  <2>4. Others(n, me) = {R(i) : i \in 1..(n - 1)}
    BY <2>1, <2>2
  <2>5. Others(n, me) = {L(i) : i \in 1..(n - 1)}
    BY <2>1, <2>3
  <2> QED
    BY <2>4, <2>5
<1>7. {SendRec(r, "in", sb[r]) : r \in Others(n, me)} = {sent(i) : i \in 1..(n - 1)}
      /\ {RecvRec("recv", r, r) : r \in Others(n, me)} = {got(i) : i \in 1..(n - 1)}
  <2> HIDE DEF R, L
  <2> QED
    BY <1>6
<1> HIDE DEF R, L, send, recv, sent, got
<1>8. \A i \in 2..(n - 1) : /\ body[i] = send(i) \o recv(i - 1)
                            /\ steps[i] = {sent(i)} \cup {got(i - 1)}
                            /\ keys[i] = SendKeys({R(i)}) \cup RecvKeys({L(i - 1)})
                            /\ i \in 1..(n - 1) /\ i - 1 \in 1..(n - 1)
  OBVIOUS
<1>9. body = [i \in 2..(n - 1) |-> body[i]]
  OBVIOUS
<1> HIDE DEF body, steps, keys
<1>10. ASSUME NEW i \in 2..(n - 1) PROVE Made(body[i], n, steps[i], keys[i])
  <2>1. /\ Made(send(i), n, {sent(i)}, SendKeys({R(i)}))
        /\ Made(recv(i - 1), n, {got(i - 1)}, RecvKeys({L(i - 1)}))
    BY <1>2, <1>8
  <2>2. SendKeys({R(i)}) \cap RecvKeys({L(i - 1)}) = {}
    BY KeySets
  <2>3. Made(send(i) \o recv(i - 1), n, {sent(i)} \cup {got(i - 1)},
             SendKeys({R(i)}) \cup RecvKeys({L(i - 1)}))
    BY <2>1, <2>2, Then
  <2> QED
    BY <1>8, <2>3
<1>11. ASSUME NEW i \in 2..(n - 1), NEW j \in 2..(n - 1), i # j
       PROVE  keys[i] \cap keys[j] = {}
  <2>1. R(i) # R(j) /\ L(i - 1) # L(j - 1)
    <3>1. i - 1 # j - 1
      BY <1>11
    <3> QED
      BY <1>3, <1>8, <1>11, <3>1
  <2>2. SendKeys({R(i)}) \cap SendKeys({R(j)}) = {}
        /\ RecvKeys({L(i - 1)}) \cap RecvKeys({L(j - 1)}) = {}
    <3>1. {R(i)} \cap {R(j)} = {} /\ {L(i - 1)} \cap {L(j - 1)} = {}
      BY <2>1
    <3> QED
      BY <3>1, KeySets
  <2>3. SendKeys({R(i)}) \cap RecvKeys({L(j - 1)}) = {}
        /\ RecvKeys({L(i - 1)}) \cap SendKeys({R(j)}) = {}
    BY KeySets
  <2> QED
    BY <1>8, <2>2, <2>3
<1> DEFINE midSteps == UNION {steps[i] : i \in 2..(n - 1)}
           midKeys == UNION {keys[i] : i \in 2..(n - 1)}
<1>12. Made(b, n, midSteps, midKeys)
  <2>1. Bodies(body, n, 2, n - 1, steps, keys)
    BY <1>9, <1>10, <1>11 DEF Bodies
  <2>2. 2 \in Int /\ n - 1 \in Int
    OBVIOUS
  <2> QED
    BY <2>1, <2>2, Loop
<1>13. 1 \in 1..(n - 1) /\ n - 1 \in 1..(n - 1)
  OBVIOUS
<1>14. \A i \in 1..(n - 1) : i = 1 \/ i \in 2..(n - 1)
  OBVIOUS
<1>15. \A i \in 1..(n - 1) : i = n - 1 \/ (i + 1 \in 2..(n - 1) /\ (i + 1) - 1 = i)
  OBVIOUS
<1> DEFINE rights == {R(i) : i \in 2..(n - 1)}
           lefts == {L(i - 1) : i \in 2..(n - 1)}
<1>16. midKeys = SendKeys(rights) \cup RecvKeys(lefts)
  <2>1. ASSUME NEW i \in 2..(n - 1)
        PROVE  keys[i] = {<<"send", R(i)>>, <<"recv", L(i - 1)>>}
    <3>1. SendKeys({R(i)}) = {<<"send", R(i)>>} /\ RecvKeys({L(i - 1)}) = {<<"recv", L(i - 1)>>}
      BY DEF SendKeys, RecvKeys
    <3> QED
      BY <1>8, <3>1
  <2>2. ASSUME NEW k \in midKeys PROVE k \in SendKeys(rights) \cup RecvKeys(lefts)
    <3>1. PICK i \in 2..(n - 1) : k \in keys[i]
      OBVIOUS
    <3>2. k = <<"send", R(i)>> \/ k = <<"recv", L(i - 1)>>
      BY <2>1, <3>1
    <3> QED
      BY <3>2 DEF SendKeys, RecvKeys
  <2>3. ASSUME NEW k \in SendKeys(rights) PROVE k \in midKeys
    <3>1. PICK i \in 2..(n - 1) : k = <<"send", R(i)>>
      BY DEF SendKeys
    <3>2. k \in keys[i]
      BY <2>1, <3>1
    <3> QED
      BY <3>2
  <2>4. ASSUME NEW k \in RecvKeys(lefts) PROVE k \in midKeys
    <3>1. PICK i \in 2..(n - 1) : k = <<"recv", L(i - 1)>>
      BY DEF RecvKeys
    <3>2. k \in keys[i]
      BY <2>1, <3>1
    <3> QED
      BY <3>2
  <2> HIDE DEF midKeys, rights, lefts
  <2> QED
    BY <2>2, <2>3, <2>4
<1>17. {R(1)} \cap rights = {} /\ {L(n - 1)} \cap lefts = {}
  <2>1. \A i \in 2..(n - 1) : i # 1 /\ i - 1 # n - 1
    OBVIOUS
  <2> QED
    BY <1>3, <1>8, <1>13, <2>1
<1>18. {R(1)} \cup rights = Others(n, me) /\ {L(n - 1)} \cup lefts = Others(n, me)
  <2>1. {R(1)} \cup rights = {R(i) : i \in 1..(n - 1)}
    BY <1>8, <1>13, <1>14
  <2>2. {L(n - 1)} \cup lefts = {L(i) : i \in 1..(n - 1)}
    BY <1>8, <1>13, <1>15
  <2> QED
    BY <1>6, <2>1, <2>2
<1>19. midSteps = {sent(i) : i \in 2..(n - 1)} \cup {got(i - 1) : i \in 2..(n - 1)}
  <2>1. ASSUME NEW x \in midSteps
        PROVE  x \in {sent(i) : i \in 2..(n - 1)} \cup {got(i - 1) : i \in 2..(n - 1)}
    <3>1. PICK i \in 2..(n - 1) : x \in steps[i]
      OBVIOUS
    <3>2. x = sent(i) \/ x = got(i - 1)
      BY <1>8, <3>1
    <3> QED
      BY <3>2
  <2>2. ASSUME NEW i \in 2..(n - 1) PROVE sent(i) \in midSteps /\ got(i - 1) \in midSteps
    <3>1. sent(i) \in steps[i] /\ got(i - 1) \in steps[i]
      BY <1>8
    <3> QED
      BY <3>1
  <2> HIDE DEF midSteps
  <2> QED
    BY <2>1, <2>2
<1>20. Made(a, n, {sent(1)} \cup {CopyRec(c, me)}, SendKeys({R(1)}) \cup CopyKeys)
  <2>1. SendKeys({R(1)}) \cap CopyKeys = {}
    BY KeySets
  <2>2. Made(send(1), n, {sent(1)}, SendKeys({R(1)}))
    BY <1>2, <1>13
  <2> QED
    BY <1>4, <2>1, <2>2, Then
<1>21. Made(d, n, {got(n - 1)}, RecvKeys({L(n - 1)}))
  BY <1>2, <1>13
<1> HIDE DEF a, b, d, midSteps, midKeys, rights, lefts
<1> DEFINE keysA == SendKeys({R(1)}) \cup CopyKeys
           stepsA == {sent(1)} \cup {CopyRec(c, me)}
<1>22. keysA \cap midKeys = {}
  <2>1. SendKeys({R(1)}) \cap SendKeys(rights) = {} /\ SendKeys({R(1)}) \cap RecvKeys(lefts) = {}
    BY <1>17, KeySets
  <2>2. CopyKeys \cap SendKeys(rights) = {} /\ CopyKeys \cap RecvKeys(lefts) = {}
    BY KeySets
  <2> QED
    BY <1>16, <2>1, <2>2
<1>23. Made(a \o b, n, stepsA \cup midSteps, keysA \cup midKeys)
  <2> HIDE DEF stepsA, keysA
  <2>1. Made(a, n, stepsA, keysA)
    BY <1>20 DEF stepsA, keysA
  <2> QED
    BY <1>12, <1>22, <2>1, Then
<1>24. (keysA \cup midKeys) \cap RecvKeys({L(n - 1)}) = {}
  <2>1. /\ SendKeys({R(1)}) \cap RecvKeys({L(n - 1)}) = {}
        /\ SendKeys(rights) \cap RecvKeys({L(n - 1)}) = {}
        /\ CopyKeys \cap RecvKeys({L(n - 1)}) = {}
    BY KeySets
  <2>2. RecvKeys({L(n - 1)}) \cap RecvKeys(lefts) = {}
    BY <1>17, KeySets
  <2> QED
    BY <1>16, <2>1, <2>2
<1> HIDE DEF stepsA, keysA
<1>25. Made((a \o b) \o d, n, (stepsA \cup midSteps) \cup {got(n - 1)},
            (keysA \cup midKeys) \cup RecvKeys({L(n - 1)}))
  BY <1>21, <1>23, <1>24, Then
<1>26. (stepsA \cup midSteps) \cup {got(n - 1)}
       = {sent(i) : i \in 1..(n - 1)} \cup {got(i) : i \in 1..(n - 1)} \cup {CopyRec(c, me)}
  <2>1. {sent(i) : i \in 1..(n - 1)} = {sent(1)} \cup {sent(i) : i \in 2..(n - 1)}
    BY <1>8, <1>13, <1>14
  <2>2. {got(i) : i \in 1..(n - 1)} = {got(n - 1)} \cup {got(i - 1) : i \in 2..(n - 1)}
    BY <1>8, <1>13, <1>15
  <2> QED
    BY <1>19, <2>1, <2>2 DEF stepsA
<1>27. (keysA \cup midKeys) \cup RecvKeys({L(n - 1)})
       = (SendKeys(Others(n, me)) \cup CopyKeys) \cup RecvKeys(Others(n, me))
  <2>1. SendKeys({R(1)}) \cup SendKeys(rights) = SendKeys(Others(n, me))
        /\ RecvKeys({L(n - 1)}) \cup RecvKeys(lefts) = RecvKeys(Others(n, me))
    <3>1. SendKeys({R(1)}) \cup SendKeys(rights) = SendKeys({R(1)} \cup rights)
          /\ RecvKeys({L(n - 1)}) \cup RecvKeys(lefts) = RecvKeys({L(n - 1)} \cup lefts)
      BY KeySets
    <3> QED
      BY <1>18, <3>1
  <2> QED
    BY <1>16, <2>1 DEF keysA
<1> QED
  BY <1>5, <1>7, <1>25, <1>26, <1>27 DEF a, b, d

(* What a call consists of *)

IsCall(call) ==
    /\ call \in [kind : Kinds, root : Nat, comm : Seq(Procs)]
    /\ call.root \in Ranks(call) /\ Size(call) > 1 /\ IsInjective(call.comm)

Everyone == {"Allgather", "Allgather_exp", "Alltoall"}
ByZero == {"Allreduce", "Barrier"}
Root(call) == IF call.kind \in ByZero THEN 0 ELSE call.root

\* Whom rank me sends to and receives from in a call.
Dests(call, me) ==
    LET n == Size(call) IN
      IF call.kind \in Everyone THEN Others(n, me)
      ELSE IF call.kind \in {"Bcast", "Scatter"} THEN IF me = call.root THEN Others(n, me) ELSE {}
      ELSE IF call.kind \in {"Gather", "Reduce"} THEN IF me = call.root THEN {} ELSE {call.root}
      ELSE IF call.kind \in ByZero THEN IF me = 0 THEN Others(n, me) ELSE {0}
      ELSE IF me = call.root THEN {Right(n, call.root, 1)} ELSE {}

Sources(call, me) ==
    LET n == Size(call) IN
      IF call.kind \in Everyone THEN Others(n, me)
      ELSE IF call.kind \in {"Bcast", "Scatter"} THEN IF me = call.root THEN {} ELSE {call.root}
      ELSE IF call.kind \in {"Gather", "Reduce"} THEN IF me = call.root THEN Others(n, me) ELSE {}
      ELSE IF call.kind \in ByZero THEN IF me = 0 THEN Others(n, me) ELSE {0}
      ELSE IF me = Right(n, call.root, 1) THEN {call.root} ELSE {}

\* From which buffer and block it sends, into which block it receives and how.
SentBuf(call, me) == IF call.kind \in ByZero /\ me = 0 THEN "out" ELSE "in"
SentBlock(call, r) == IF call.kind \in {"Alltoall", "Scatter"} THEN r ELSE 0
GotBlock(call, r) == IF call.kind \in Everyone \cup {"Gather"} THEN r ELSE 0
GotAct(call, me) ==
    IF call.kind \in {"Reduce", "Allreduce"} /\ me = Root(call) THEN "combine" ELSE "recv"

\* What it copies.
Copies(call, me) ==
    IF call.kind \in {"Allgather", "Allgather_exp"} THEN {CopyRec(0, me)}
    ELSE IF call.kind = "Alltoall" THEN {CopyRec(me, me)}
    ELSE IF call.kind = "Gather" /\ me = call.root THEN {CopyRec(0, me)}
    ELSE IF call.kind = "Scatter" /\ me = call.root THEN {CopyRec(me, 0)}
    ELSE IF call.kind \in {"Reduce", "Allreduce"} /\ me = Root(call) THEN {CopyRec(0, 0)}
    ELSE {}

ScriptSteps(call, me) ==
    {SendRec(r, SentBuf(call, me), SentBlock(call, r)) : r \in Dests(call, me)}
    \cup {RecvRec(GotAct(call, me), r, GotBlock(call, r)) : r \in Sources(call, me)}
    \cup Copies(call, me)

\* The script of a rank: these steps, none twice; where one rank serves the others,
\* it hears from all of them before it tells any.
Scripted(call, me, s) ==
    /\ s \in Seq(StepsOf(Size(call))) /\ Once(s) /\ Elems(s) = ScriptSteps(call, me)
    /\ call.kind \in ByZero \cup {"Reduce"} /\ me = Root(call) => Ordered(s)

\* The size and the ranks of a call.
LEMMA CallType ==
    ASSUME NEW call, IsCall(call)
    PROVE  Size(call) \in Nat /\ Ranks(call) = 0..(Size(call) - 1) /\ 0 \in Ranks(call)
  BY DEF IsCall, Size, Ranks

\* A script in which nobody serves the others need not be ordered.
LEMMA MadeScripted ==
    ASSUME NEW call, NEW me, NEW s, NEW A, NEW K, Made(s, Size(call), A, K),
           A = ScriptSteps(call, me), call.kind \notin ByZero \cup {"Reduce"}
    PROVE  Scripted(call, me, s)
  BY DEF Made, Scripted

\* The script of RDMA_Bcast.
LEMMA BcastScripted ==
    ASSUME NEW call, IsCall(call), NEW me \in Ranks(call), call.kind = "Bcast"
    PROVE  Scripted(call, me, BcastScript(Size(call), me, call.root, "in", 0))
<1> DEFINE n == Size(call)
           s == BcastScript(n, me, call.root, "in", 0)
<1>1. n \in Nat /\ me \in 0..(n - 1) /\ call.root \in 0..(n - 1) /\ 0 \in 0..(n - 1)
  BY CallType DEF IsCall
<1>2. /\ call.kind \notin Everyone /\ call.kind \notin ByZero
      /\ call.kind \notin ByZero \cup {"Reduce"}
      /\ call.kind \notin Everyone \cup {"Gather"}
  BY DEF Everyone, ByZero
<1>3. /\ \A r : SentBlock(call, r) = 0 /\ GotBlock(call, r) = 0
      /\ SentBuf(call, me) = "in" /\ GotAct(call, me) = "recv" /\ Copies(call, me) = {}
  BY <1>2 DEF SentBlock, GotBlock, SentBuf, GotAct, Copies
<1> HIDE DEF n
<1>4. CASE me = call.root
  <2>1. Dests(call, me) = Others(n, me) /\ Sources(call, me) = {}
    BY <1>2, <1>4 DEF Dests, Sources, n
  <2>2. ScriptSteps(call, me) = {SendRec(r, "in", 0) : r \in Others(n, me)}
    BY <1>3, <2>1 DEF ScriptSteps
  <2>3. Made(s, n, {SendRec(r, "in", 0) : r \in Others(n, me)}, SendKeys(Others(n, me)))
    BY <1>1, <1>4, BcastMade
  <2> QED
    BY <1>2, <2>2, <2>3, MadeScripted DEF n
<1>5. CASE me # call.root
  <2>1. Dests(call, me) = {} /\ Sources(call, me) = {call.root}
    BY <1>2, <1>5 DEF Dests, Sources
  <2>2. ScriptSteps(call, me) = {RecvRec("recv", call.root, 0)}
    BY <1>3, <2>1 DEF ScriptSteps
  <2>3. Made(s, n, {RecvRec("recv", call.root, 0)}, RecvKeys({call.root}))
    BY <1>1, <1>5, BcastMade
  <2> QED
    BY <1>2, <2>2, <2>3, MadeScripted DEF n
<1> QED
  BY <1>4, <1>5

\* The scripts of RDMA_Allgather_exp and RDMA_Alltoall.
LEMMA ExchangeScripted ==
    ASSUME NEW call, IsCall(call), NEW me \in Ranks(call)
    PROVE  /\ call.kind = "Allgather_exp"
                => Scripted(call, me, AllgatherExpScript(Size(call), me))
           /\ call.kind = "Alltoall" => Scripted(call, me, AlltoallScript(Size(call), me))
<1> DEFINE n == Size(call)
<1>1. n \in Nat /\ n > 1 /\ me \in 0..(n - 1) /\ 0 \in 0..(n - 1)
  BY CallType DEF IsCall
<1> HIDE DEF n
<1>2. CASE call.kind = "Allgather_exp"
  <2> DEFINE sb == [r \in 0..(n - 1) |-> 0]
             A == {SendRec(r, "in", sb[r]) : r \in Others(n, me)}
                  \cup {RecvRec("recv", r, r) : r \in Others(n, me)} \cup {CopyRec(0, me)}
  <2>1. /\ call.kind \in Everyone /\ call.kind \notin ByZero
      /\ call.kind \notin ByZero \cup {"Reduce"}
        /\ call.kind \in Everyone \cup {"Gather"}
    BY <1>2 DEF Everyone, ByZero
  <2>2. /\ \A r : SentBlock(call, r) = 0 /\ GotBlock(call, r) = r
        /\ SentBuf(call, me) = "in" /\ GotAct(call, me) = "recv"
        /\ Copies(call, me) = {CopyRec(0, me)}
    BY <1>2, <2>1 DEF SentBlock, GotBlock, SentBuf, GotAct, Copies
  <2>3. Dests(call, me) = Others(n, me) /\ Sources(call, me) = Others(n, me)
    BY <2>1 DEF Dests, Sources, n
  <2>4. sb \in [0..(n - 1) -> 0..(n - 1)] /\ \A r \in Others(n, me) : sb[r] = 0
    BY <1>1 DEF Others
  <2> HIDE DEF sb
  <2>5. ScriptSteps(call, me) = A
    BY <2>2, <2>3, <2>4 DEF ScriptSteps
  <2>6. Made(Exchange(n, me, 0, sb), n, A,
             (SendKeys(Others(n, me)) \cup CopyKeys) \cup RecvKeys(Others(n, me)))
    BY <1>1, <2>4, ExchangeMade
  <2>7. AllgatherExpScript(n, me) = Exchange(n, me, 0, sb)
    BY <1>1, Exchanges DEF sb
  <2> HIDE DEF A
  <2> QED
    BY <2>1, <2>5, <2>6, <2>7, <1>2, MadeScripted DEF n
<1>3. CASE call.kind = "Alltoall"
  <2> DEFINE sb == [r \in 0..(n - 1) |-> r]
             A == {SendRec(r, "in", sb[r]) : r \in Others(n, me)}
                  \cup {RecvRec("recv", r, r) : r \in Others(n, me)} \cup {CopyRec(me, me)}
  <2>1. /\ call.kind \in Everyone /\ call.kind \notin ByZero
      /\ call.kind \notin ByZero \cup {"Reduce"}
        /\ call.kind \in Everyone \cup {"Gather"}
    BY <1>3 DEF Everyone, ByZero
  <2>2. /\ \A r : SentBlock(call, r) = r /\ GotBlock(call, r) = r
        /\ SentBuf(call, me) = "in" /\ GotAct(call, me) = "recv"
        /\ Copies(call, me) = {CopyRec(me, me)}
    BY <1>3, <2>1 DEF SentBlock, GotBlock, SentBuf, GotAct, Copies
  <2>3. Dests(call, me) = Others(n, me) /\ Sources(call, me) = Others(n, me)
    BY <2>1 DEF Dests, Sources, n
  <2>4. sb \in [0..(n - 1) -> 0..(n - 1)] /\ \A r \in Others(n, me) : sb[r] = r
    BY <1>1 DEF Others
  <2> HIDE DEF sb
  <2>5. ScriptSteps(call, me) = A
    BY <2>2, <2>3, <2>4 DEF ScriptSteps
  <2>6. Made(Exchange(n, me, me, sb), n, A,
             (SendKeys(Others(n, me)) \cup CopyKeys) \cup RecvKeys(Others(n, me)))
    BY <1>1, <2>4, ExchangeMade
  <2>7. AlltoallScript(n, me) = Exchange(n, me, me, sb)
    BY <1>1, Exchanges DEF sb
  <2> HIDE DEF A
  <2> QED
    BY <2>1, <2>5, <2>6, <2>7, <1>3, MadeScripted DEF n
<1> QED
  BY <1>2, <1>3 DEF n

\* The script of RDMA_Allgather.
LEMMA AllgatherScripted ==
    ASSUME NEW call, IsCall(call), NEW me \in Ranks(call), call.kind = "Allgather"
    PROVE  Scripted(call, me, AllgatherScript(Size(call), me))
<1> DEFINE n == Size(call)
           mine == BcastScript(n, me, me, "in", 0) \o Copy(0, me)
           one == [r \in 0..(n - 1) |-> BcastScript(n, me, r, "out", r)]
           rec == [r \in 0..(n - 1) |-> RecvRec("recv", r, r)]
           A == {SendRec(r, "in", 0) : r \in Others(n, me)} \cup {CopyRec(0, me)}
           K == SendKeys(Others(n, me)) \cup CopyKeys
<1>1. n \in Nat /\ me \in 0..(n - 1) /\ 0 \in 0..(n - 1)
  BY CallType DEF IsCall
<1> HIDE DEF n
<1>2. /\ call.kind \in Everyone /\ call.kind \notin ByZero
      /\ call.kind \notin ByZero \cup {"Reduce"}
      /\ call.kind \in Everyone \cup {"Gather"}
  BY DEF Everyone, ByZero
<1>3. /\ \A r : SentBlock(call, r) = 0 /\ GotBlock(call, r) = r
      /\ SentBuf(call, me) = "in" /\ GotAct(call, me) = "recv"
      /\ Copies(call, me) = {CopyRec(0, me)}
  BY <1>2 DEF SentBlock, GotBlock, SentBuf, GotAct, Copies
<1>4. Dests(call, me) = Others(n, me) /\ Sources(call, me) = Others(n, me)
  BY <1>2 DEF Dests, Sources, n
<1>5. \A r \in Others(n, me) : one[r] = BcastScript(n, me, r, "out", r)
                               /\ rec[r] = RecvRec("recv", r, r)
  BY DEF Others
<1>6. AllgatherScript(n, me) = For(0, n - 1, [r \in 0..(n - 1) |-> IF r = me THEN mine ELSE one[r]])
  <2> DEFINE f == [i \in 0..(n - 1) |->
                     IF i = me THEN BcastScript(n, me, i, "in", 0) \o Copy(0, i)
                               ELSE BcastScript(n, me, i, "out", i)]
             g == [r \in 0..(n - 1) |-> IF r = me THEN mine ELSE one[r]]
  <2>1. \A r \in 0..(n - 1) : f[r] = g[r]
    OBVIOUS
  <2>2. f = [r \in 0..(n - 1) |-> f[r]] /\ g = [r \in 0..(n - 1) |-> g[r]]
    OBVIOUS
  <2>3. AllgatherScript(n, me) = For(0, n - 1, f)
    BY DEF AllgatherScript
  <2> HIDE DEF f, g
  <2>4. f = g
    BY <2>1, <2>2
  <2> QED
    BY <2>3, <2>4 DEF g
<1> HIDE DEF one, rec
<1>7. ASSUME NEW r \in Others(n, me) PROVE Made(one[r], n, {rec[r]}, {<<"recv", r>>})
  <2>1. r \in 0..(n - 1) /\ me # r
    BY DEF Others
  <2>2. Made(BcastScript(n, me, r, "out", r), n, {RecvRec("recv", r, r)}, RecvKeys({r}))
    BY <1>1, <2>1, BcastMade
  <2> QED
    BY <1>5, <2>2, KeySets
<1>8. Each(Others(n, me), n, "recv", one, rec)
  BY <1>7 DEF Each
<1>9. Made(mine, n, A, K)
  <2>1. Made(BcastScript(n, me, me, "in", 0), n, {SendRec(r, "in", 0) : r \in Others(n, me)},
             SendKeys(Others(n, me)))
    BY <1>1, BcastMade
  <2>2. Made(Copy(0, me), n, {CopyRec(0, me)}, CopyKeys)
    BY <1>1, CopyMade DEF CopyKeys
  <2>3. SendKeys(Others(n, me)) \cap CopyKeys = {}
    BY KeySets
  <2> QED
    BY <2>1, <2>2, <2>3, Then
<1>10. Free("recv", K)
  BY KeysDiffer DEF Free, SendKeys, CopyKeys
<1> DEFINE B == A \cup {rec[r] : r \in Others(n, me)}
           L == K \cup {<<"recv", r>> : r \in Others(n, me)}
<1>11. B = ScriptSteps(call, me)
  <2>1. {rec[r] : r \in Others(n, me)} = {RecvRec("recv", r, r) : r \in Others(n, me)}
    BY <1>5
  <2> QED
    BY <1>3, <1>4, <2>1 DEF ScriptSteps
<1> HIDE DEF mine, A, K
<1>12. Made(AllgatherScript(n, me), n, B, L)
  BY <1>1, <1>6, <1>8, <1>9, <1>10, LoopOthers
<1> HIDE DEF B, L
<1> QED
  BY <1>2, <1>11, <1>12, MadeScripted DEF n

\* The script of RDMA_Gather.
LEMMA GatherScripted ==
    ASSUME NEW call, IsCall(call), NEW me \in Ranks(call), call.kind = "Gather"
    PROVE  Scripted(call, me, GatherScript(Size(call), me, call.root))
<1> DEFINE n == Size(call)
           s == GatherScript(n, me, call.root)
<1>1. n \in Nat /\ me \in 0..(n - 1) /\ call.root \in 0..(n - 1) /\ 0 \in 0..(n - 1)
  BY CallType DEF IsCall
<1>2. /\ call.kind \notin Everyone /\ call.kind \notin ByZero
      /\ call.kind \notin ByZero \cup {"Reduce"}
      /\ call.kind \in Everyone \cup {"Gather"}
  BY DEF Everyone, ByZero
<1>3. /\ \A r : SentBlock(call, r) = 0 /\ GotBlock(call, r) = r
      /\ SentBuf(call, me) = "in" /\ GotAct(call, me) = "recv"
  BY <1>2 DEF SentBlock, GotBlock, SentBuf, GotAct
<1> HIDE DEF n
<1>4. CASE me = call.root
  <2> DEFINE one == [r \in 0..(n - 1) |-> Rcv(r, r)]
             rec == [r \in 0..(n - 1) |-> RecvRec("recv", r, r)]
             f == [i \in 0..(n - 1) |-> IF i = me THEN Copy(0, i) ELSE Rcv(i, i)]
             g == [r \in 0..(n - 1) |-> IF r = me THEN Copy(0, me) ELSE one[r]]
             B == {CopyRec(0, me)} \cup {rec[r] : r \in Others(n, me)}
             L == CopyKeys \cup {<<"recv", r>> : r \in Others(n, me)}
  <2>1. /\ Dests(call, me) = {} /\ Sources(call, me) = Others(n, me)
        /\ Copies(call, me) = {CopyRec(0, me)}
    BY <1>2, <1>4 DEF Dests, Sources, Copies, n
  <2>2. s = For(0, n - 1, f)
    BY <1>4 DEF GatherScript
  <2>3. f = g
    <3>1. \A r \in 0..(n - 1) : f[r] = g[r]
      OBVIOUS
    <3>2. f = [r \in 0..(n - 1) |-> f[r]] /\ g = [r \in 0..(n - 1) |-> g[r]]
      OBVIOUS
    <3> HIDE DEF f, g
    <3> QED
      BY <3>1, <3>2
  <2>4. \A r \in Others(n, me) : one[r] = Rcv(r, r) /\ rec[r] = RecvRec("recv", r, r)
    BY DEF Others
  <2> HIDE DEF one, rec
  <2>5. ASSUME NEW r \in Others(n, me) PROVE Made(one[r], n, {rec[r]}, {<<"recv", r>>})
    <3>1. Made(Rcv(r, r), n, {RecvRec("recv", r, r)}, {<<"recv", r>>})
      BY RcvMade DEF Others
    <3> QED
      BY <2>4, <3>1
  <2>6. Each(Others(n, me), n, "recv", one, rec)
    BY <2>5 DEF Each
  <2>7. Made(Copy(0, me), n, {CopyRec(0, me)}, CopyKeys)
    BY <1>1, CopyMade DEF CopyKeys
  <2>8. Free("recv", CopyKeys)
    BY KeysDiffer DEF Free, CopyKeys
  <2>9. B = ScriptSteps(call, me)
    <3>1. {rec[r] : r \in Others(n, me)} = {RecvRec("recv", r, r) : r \in Others(n, me)}
      BY <2>4
    <3> QED
      BY <1>3, <2>1, <3>1 DEF ScriptSteps
  <2>10. Made(For(0, n - 1, g), n, B, L)
    BY <1>1, <2>6, <2>7, <2>8, LoopOthers
  <2> HIDE DEF B, L, f, g, s
  <2>11. Made(s, n, B, L)
    BY <2>2, <2>3, <2>10
  <2> QED
    BY <1>2, <2>9, <2>11, MadeScripted DEF n, s
<1>5. CASE me # call.root
  <2>1. Dests(call, me) = {call.root} /\ Sources(call, me) = {} /\ Copies(call, me) = {}
    BY <1>2, <1>5 DEF Dests, Sources, Copies
  <2>2. ScriptSteps(call, me) = {SendRec(call.root, "in", 0)}
    BY <1>3, <2>1 DEF ScriptSteps
  <2>3. s = Snd(call.root, "in", 0)
    BY <1>5 DEF GatherScript
  <2>4. Made(Snd(call.root, "in", 0), n, {SendRec(call.root, "in", 0)}, {<<"send", call.root>>})
    BY <1>1, SndMade
  <2> HIDE DEF s
  <2> QED
    BY <1>2, <2>2, <2>3, <2>4, MadeScripted DEF n, s
<1> QED
  BY <1>4, <1>5

\* The script of RDMA_Scatter.
LEMMA ScatterScripted ==
    ASSUME NEW call, IsCall(call), NEW me \in Ranks(call), call.kind = "Scatter"
    PROVE  Scripted(call, me, ScatterScript(Size(call), me, call.root))
<1> DEFINE n == Size(call)
           s == ScatterScript(n, me, call.root)
<1>1. n \in Nat /\ me \in 0..(n - 1) /\ call.root \in 0..(n - 1) /\ 0 \in 0..(n - 1)
  BY CallType DEF IsCall
<1>2. /\ call.kind \notin Everyone /\ call.kind \notin ByZero
      /\ call.kind \notin ByZero \cup {"Reduce"}
      /\ call.kind \notin Everyone \cup {"Gather"}
  BY DEF Everyone, ByZero
<1>3. /\ \A r : SentBlock(call, r) = r /\ GotBlock(call, r) = 0
      /\ SentBuf(call, me) = "in" /\ GotAct(call, me) = "recv"
  BY <1>2 DEF SentBlock, GotBlock, SentBuf, GotAct
<1> HIDE DEF n
<1>4. CASE me = call.root
  <2> DEFINE one == [r \in 0..(n - 1) |-> Snd(r, "in", r)]
             rec == [r \in 0..(n - 1) |-> SendRec(r, "in", r)]
             f == [i \in 0..(n - 1) |-> IF i = me THEN Copy(i, 0) ELSE Snd(i, "in", i)]
             g == [r \in 0..(n - 1) |-> IF r = me THEN Copy(me, 0) ELSE one[r]]
             B == {CopyRec(me, 0)} \cup {rec[r] : r \in Others(n, me)}
             L == CopyKeys \cup {<<"send", r>> : r \in Others(n, me)}
  <2>1. /\ Sources(call, me) = {} /\ Dests(call, me) = Others(n, me)
        /\ Copies(call, me) = {CopyRec(me, 0)}
    BY <1>2, <1>4 DEF Dests, Sources, Copies, n
  <2>2. s = For(0, n - 1, f)
    BY <1>4 DEF ScatterScript
  <2>3. f = g
    <3>1. \A r \in 0..(n - 1) : f[r] = g[r]
      OBVIOUS
    <3>2. f = [r \in 0..(n - 1) |-> f[r]] /\ g = [r \in 0..(n - 1) |-> g[r]]
      OBVIOUS
    <3> HIDE DEF f, g
    <3> QED
      BY <3>1, <3>2
  <2>4. \A r \in Others(n, me) : one[r] = Snd(r, "in", r) /\ rec[r] = SendRec(r, "in", r)
    BY DEF Others
  <2> HIDE DEF one, rec
  <2>5. ASSUME NEW r \in Others(n, me) PROVE Made(one[r], n, {rec[r]}, {<<"send", r>>})
    <3>1. Made(Snd(r, "in", r), n, {SendRec(r, "in", r)}, {<<"send", r>>})
      BY SndMade DEF Others
    <3> QED
      BY <2>4, <3>1
  <2>6. Each(Others(n, me), n, "send", one, rec)
    BY <2>5 DEF Each
  <2>7. Made(Copy(me, 0), n, {CopyRec(me, 0)}, CopyKeys)
    BY <1>1, CopyMade DEF CopyKeys
  <2>8. Free("send", CopyKeys)
    BY KeysDiffer DEF Free, CopyKeys
  <2>9. B = ScriptSteps(call, me)
    <3>1. {rec[r] : r \in Others(n, me)} = {SendRec(r, "in", r) : r \in Others(n, me)}
      BY <2>4
    <3> QED
      BY <1>3, <2>1, <3>1 DEF ScriptSteps
  <2>10. Made(For(0, n - 1, g), n, B, L)
    BY <1>1, <2>6, <2>7, <2>8, LoopOthers
  <2> HIDE DEF B, L, f, g, s
  <2>11. Made(s, n, B, L)
    BY <2>2, <2>3, <2>10
  <2> QED
    BY <1>2, <2>9, <2>11, MadeScripted DEF n, s
<1>5. CASE me # call.root
  <2>1. Sources(call, me) = {call.root} /\ Dests(call, me) = {} /\ Copies(call, me) = {}
    BY <1>2, <1>5 DEF Dests, Sources, Copies
  <2>2. ScriptSteps(call, me) = {RecvRec("recv", call.root, 0)}
    BY <1>3, <2>1 DEF ScriptSteps
  <2>3. s = Rcv(call.root, 0)
    BY <1>5 DEF ScatterScript
  <2>4. Made(Rcv(call.root, 0), n, {RecvRec("recv", call.root, 0)}, {<<"recv", call.root>>})
    BY <1>1, RcvMade
  <2> HIDE DEF s
  <2> QED
    BY <1>2, <2>2, <2>3, <2>4, MadeScripted DEF n, s
<1> QED
  BY <1>4, <1>5

\* The script of a call of RDMA_Send or RDMA_Recv.
LEMMA SendRecvScripted ==
    ASSUME NEW call, IsCall(call), NEW me \in Ranks(call), call.kind = "SendRecv"
    PROVE  Scripted(call, me, SendRecvScript(Size(call), me, call.root))
<1> DEFINE n == Size(call)
           s == SendRecvScript(n, me, call.root)
           next == Right(n, call.root, 1)
<1>1. n \in Nat /\ n > 1 /\ me \in 0..(n - 1) /\ call.root \in 0..(n - 1) /\ 0 \in 0..(n - 1)
  BY CallType DEF IsCall
<1>2. /\ call.kind \notin Everyone /\ call.kind \notin ByZero
      /\ call.kind \notin ByZero \cup {"Reduce"}
      /\ call.kind \notin Everyone \cup {"Gather"}
  BY DEF Everyone, ByZero
<1>3. /\ \A r : SentBlock(call, r) = 0 /\ GotBlock(call, r) = 0
      /\ SentBuf(call, me) = "in" /\ GotAct(call, me) = "recv" /\ Copies(call, me) = {}
  BY <1>2 DEF SentBlock, GotBlock, SentBuf, GotAct, Copies
<1> HIDE DEF n
<1>4. next \in 0..(n - 1) /\ next # call.root
  BY <1>1 DEF Right
<1> HIDE DEF next
<1>5. /\ Dests(call, me) = IF me = call.root THEN {next} ELSE {}
      /\ Sources(call, me) = IF me = next THEN {call.root} ELSE {}
  BY <1>2 DEF Dests, Sources, n, next
<1>6. s = IF me = call.root THEN Snd(next, "in", 0)
          ELSE IF me = next THEN Rcv(call.root, 0) ELSE <<>>
  BY DEF SendRecvScript, next
<1> HIDE DEF s
<1>7. CASE me = call.root
  <2>1. ScriptSteps(call, me) = {SendRec(next, "in", 0)}
    BY <1>3, <1>4, <1>5, <1>7 DEF ScriptSteps
  <2>2. Made(Snd(next, "in", 0), n, {SendRec(next, "in", 0)}, {<<"send", next>>})
    BY <1>1, <1>4, SndMade
  <2>3. s = Snd(next, "in", 0)
    BY <1>6, <1>7
  <2> QED
    BY <1>2, <2>1, <2>2, <2>3, MadeScripted DEF n, s
<1>8. CASE me # call.root /\ me = next
  <2>1. ScriptSteps(call, me) = {RecvRec("recv", call.root, 0)}
    BY <1>3, <1>4, <1>5, <1>8 DEF ScriptSteps
  <2>2. Made(Rcv(call.root, 0), n, {RecvRec("recv", call.root, 0)}, {<<"recv", call.root>>})
    BY <1>1, RcvMade
  <2>3. s = Rcv(call.root, 0)
    BY <1>6, <1>8
  <2> QED
    BY <1>2, <2>1, <2>2, <2>3, MadeScripted DEF n, s
<1>9. CASE me # call.root /\ me # next
  <2>1. ScriptSteps(call, me) = {}
    BY <1>3, <1>5, <1>9 DEF ScriptSteps
  <2>2. Made(<<>>, n, {}, {})
    BY NothingMade
  <2>3. s = <<>>
    BY <1>6, <1>9
  <2> QED
    BY <1>2, <2>1, <2>2, <2>3, MadeScripted DEF n, s
<1> QED
  BY <1>7, <1>8, <1>9

\* The phases of the steps.
LEMMA Phases ==
    /\ \A r, i : Phase(CopyRec(r, i)) = 0
    /\ \A act \in Receiving : \A r, i : Phase(RecvRec(act, r, i)) = 1
    /\ \A r, buf, i : Phase(SendRec(r, buf, i)) = 2
  BY DEF Phase, CopyRec, RecvRec, SendRec, Receiving

\* A script of one phase, then one of a later phase.
LEMMA ThenOrdered ==
    ASSUME NEW n, NEW s, NEW t, NEW A, NEW B, NEW K, NEW L,
           Made(s, n, A, K), Made(t, n, B, L), Ordered(s), Ordered(t),
           \A x \in A, y \in B : Phase(x) =< Phase(y)
    PROVE  Ordered(s \o t)
<1> DEFINE T == StepsOf(n)
<1>1. s \in Seq(T) /\ t \in Seq(T) /\ Elems(s) = A /\ Elems(t) = B
  BY DEF Made
<1> HIDE DEF T
<1> QED
  BY <1>1, Both

\* The reduction to a root, which is the first half of Allreduce.
LEMMA ReduceMade ==
    ASSUME NEW n \in Nat, NEW me \in 0..(n - 1), NEW root \in 0..(n - 1)
    PROVE  /\ me = root =>
                /\ Made(ReduceScript(n, me, root), n,
                        {CopyRec(0, 0)} \cup {RecvRec("combine", r, 0) : r \in Others(n, me)},
                        CopyKeys \cup RecvKeys(Others(n, me)))
                /\ Ordered(ReduceScript(n, me, root))
           /\ me # root =>
                Made(ReduceScript(n, me, root), n, {SendRec(root, "in", 0)}, SendKeys({root}))
<1> DEFINE s == ReduceScript(n, me, root)
<1>0. 0 \in 0..(n - 1) /\ "in" \in {"in", "out"}
  OBVIOUS
<1>1. CASE me = root
  <2> DEFINE one == [r \in 0..(n - 1) |-> Combine(r)]
             rec == [r \in 0..(n - 1) |-> RecvRec("combine", r, 0)]
             g == [r \in 0..(n - 1) |-> IF r = me THEN <<>> ELSE one[r]]
             t == For(0, n - 1, g)
             B == {RecvRec("combine", r, 0) : r \in Others(n, me)}
             L == RecvKeys(Others(n, me))
  <2>1. s = Copy(0, 0) \o t
    <3> DEFINE f == [i \in 0..(n - 1) |-> IF i = root THEN <<>> ELSE Combine(i)]
    <3>1. \A r \in 0..(n - 1) : f[r] = g[r]
      BY <1>1
    <3>2. f = [r \in 0..(n - 1) |-> f[r]] /\ g = [r \in 0..(n - 1) |-> g[r]]
      OBVIOUS
    <3>3. s = Copy(0, 0) \o For(0, n - 1, f)
      BY <1>1 DEF ReduceScript
    <3> HIDE DEF f, g
    <3>4. f = g
      BY <3>1, <3>2
    <3> QED
      BY <3>3, <3>4
  <2>2. \A r \in Others(n, me) : one[r] = Combine(r) /\ rec[r] = RecvRec("combine", r, 0)
    BY DEF Others
  <2> HIDE DEF one, rec
  <2>3. ASSUME NEW r \in Others(n, me) PROVE Made(one[r], n, {rec[r]}, {<<"recv", r>>})
    <3>1. Made(Combine(r), n, {RecvRec("combine", r, 0)}, {<<"recv", r>>})
      BY CombineMade DEF Others
    <3> QED
      BY <2>2, <3>1
  <2>4. Each(Others(n, me), n, "recv", one, rec)
    BY <2>3 DEF Each
  <2>5. Made(<<>>, n, {}, {}) /\ Free("recv", {})
    BY NothingMade DEF Free
  <2>6. Made(t, n, {} \cup {rec[r] : r \in Others(n, me)},
             {} \cup {<<"recv", r>> : r \in Others(n, me)})
    BY <2>4, <2>5, LoopOthers
  <2>7. {} \cup {rec[r] : r \in Others(n, me)} = B
    BY <2>2
  <2>8. {} \cup {<<"recv", r>> : r \in Others(n, me)} = L
    BY DEF RecvKeys
  <2> HIDE DEF t, s
  <2>9. Made(t, n, B, L)
    BY <2>6, <2>7, <2>8
  <2>10. \A x \in B : Phase(x) = 1
    BY Phases DEF Receiving
  <2>11. Ordered(t)
    BY <2>9, <2>10, OnePhase DEF Made
  <2>12. Made(Copy(0, 0), n, {CopyRec(0, 0)}, CopyKeys)
    BY <1>0, CopyMade DEF CopyKeys
  <2>13. Ordered(Copy(0, 0))
    BY Single DEF Copy
  <2>14. CopyKeys \cap L = {}
    BY KeySets
  <2> HIDE DEF B, L
  <2>15. Made(Copy(0, 0) \o t, n, {CopyRec(0, 0)} \cup B, CopyKeys \cup L)
    BY <2>9, <2>12, <2>14, Then
  <2>16. \A x \in {CopyRec(0, 0)}, y \in B : Phase(x) =< Phase(y)
    BY <2>10, Phases
  <2>17. Ordered(Copy(0, 0) \o t)
    BY <2>9, <2>11, <2>12, <2>13, <2>16, ThenOrdered
  <2> QED
    BY <1>1, <2>1, <2>15, <2>17 DEF B, L, s
<1>2. CASE me # root
  <2>1. s = Snd(root, "in", 0)
    BY <1>2 DEF ReduceScript
  <2>2. Made(Snd(root, "in", 0), n, {SendRec(root, "in", 0)}, {<<"send", root>>})
    BY <1>0, SndMade
  <2> QED
    BY <1>2, <2>1, <2>2, KeySets
<1> QED
  BY <1>1, <1>2

\* The script of RDMA_Reduce.
LEMMA ReduceScripted ==
    ASSUME NEW call, IsCall(call), NEW me \in Ranks(call), call.kind = "Reduce"
    PROVE  Scripted(call, me, ReduceScript(Size(call), me, call.root))
<1> DEFINE n == Size(call)
           s == ReduceScript(n, me, call.root)
<1>1. n \in Nat /\ me \in 0..(n - 1) /\ call.root \in 0..(n - 1)
  BY CallType DEF IsCall
<1>2. /\ call.kind \notin Everyone /\ call.kind \notin ByZero
      /\ call.kind \notin Everyone \cup {"Gather"} /\ Root(call) = call.root
  BY DEF Everyone, ByZero, Root
<1>3. /\ \A r : SentBlock(call, r) = 0 /\ GotBlock(call, r) = 0
      /\ SentBuf(call, me) = "in"
  BY <1>2 DEF SentBlock, GotBlock, SentBuf
<1> HIDE DEF n
<1>4. CASE me = call.root
  <2>1. /\ Dests(call, me) = {} /\ Sources(call, me) = Others(n, me)
        /\ Copies(call, me) = {CopyRec(0, 0)} /\ GotAct(call, me) = "combine"
    BY <1>2, <1>4 DEF Dests, Sources, Copies, GotAct, n
  <2>2. ScriptSteps(call, me)
        = {CopyRec(0, 0)} \cup {RecvRec("combine", r, 0) : r \in Others(n, me)}
    BY <1>3, <2>1 DEF ScriptSteps
  <2>3. /\ Made(s, n, {CopyRec(0, 0)} \cup {RecvRec("combine", r, 0) : r \in Others(n, me)},
                CopyKeys \cup RecvKeys(Others(n, me)))
        /\ Ordered(s)
    BY <1>1, <1>4, ReduceMade
  <2> HIDE DEF s
  <2> QED
    BY <2>2, <2>3 DEF Made, Scripted, n, s
<1>5. CASE me # call.root
  <2>1. Dests(call, me) = {call.root} /\ Sources(call, me) = {} /\ Copies(call, me) = {}
    BY <1>2, <1>5 DEF Dests, Sources, Copies
  <2>2. ScriptSteps(call, me) = {SendRec(call.root, "in", 0)}
    BY <1>3, <2>1 DEF ScriptSteps
  <2>3. Made(s, n, {SendRec(call.root, "in", 0)}, SendKeys({call.root}))
    BY <1>1, <1>5, ReduceMade
  <2> HIDE DEF s
  <2> QED
    BY <1>2, <1>5, <2>2, <2>3 DEF Made, Scripted, n, s
<1> QED
  BY <1>4, <1>5

\* The script of RDMA_Allreduce: a reduction, then a broadcast of the result.
LEMMA AllreduceScripted ==
    ASSUME NEW call, IsCall(call), NEW me \in Ranks(call), call.kind = "Allreduce"
    PROVE  Scripted(call, me, ReduceScript(Size(call), me, 0)
                              \o BcastScript(Size(call), me, 0, "out", 0))
<1> DEFINE n == Size(call)
           s == ReduceScript(n, me, 0)
           t == BcastScript(n, me, 0, "out", 0)
<1>1. n \in Nat /\ me \in 0..(n - 1) /\ 0 \in 0..(n - 1)
  BY CallType DEF IsCall
<1>2. /\ call.kind \notin Everyone /\ call.kind \in ByZero
      /\ call.kind \notin Everyone \cup {"Gather"} /\ Root(call) = 0
  BY DEF Everyone, ByZero, Root
<1>3. \A r : SentBlock(call, r) = 0 /\ GotBlock(call, r) = 0
  BY <1>2 DEF SentBlock, GotBlock
<1> HIDE DEF n
<1>4. CASE me = 0
  <2> DEFINE A == {CopyRec(0, 0)} \cup {RecvRec("combine", r, 0) : r \in Others(n, me)}
             B == {SendRec(r, "out", 0) : r \in Others(n, me)}
             K == CopyKeys \cup RecvKeys(Others(n, me))
             L == SendKeys(Others(n, me))
  <2>1. /\ Dests(call, me) = Others(n, me) /\ Sources(call, me) = Others(n, me)
        /\ Copies(call, me) = {CopyRec(0, 0)} /\ GotAct(call, me) = "combine"
        /\ SentBuf(call, me) = "out"
    BY <1>2, <1>4 DEF Dests, Sources, Copies, GotAct, SentBuf, n
  <2>2. ScriptSteps(call, me) = A \cup B
    BY <1>3, <2>1 DEF ScriptSteps
  <2>3. Made(s, n, A, K) /\ Ordered(s)
    BY <1>1, <1>4, ReduceMade
  <2>4. Made(t, n, B, L)
    BY <1>1, <1>4, BcastMade
  <2>5. K \cap L = {}
    BY KeySets
  <2>6. (\A x \in A : Phase(x) =< 2) /\ \A y \in B : Phase(y) = 2
    <3>1. "combine" \in Receiving
      BY DEF Receiving
    <3> QED
      BY <3>1, Phases
  <2> HIDE DEF A, B, K, L, s, t
  <2>7. Ordered(t)
    BY <2>4, <2>6, OnePhase DEF Made
  <2>8. Made(s \o t, n, A \cup B, K \cup L)
    BY <2>3, <2>4, <2>5, Then
  <2>9. Ordered(s \o t)
    BY <2>3, <2>4, <2>6, <2>7, ThenOrdered
  <2> QED
    BY <2>2, <2>8, <2>9 DEF Made, Scripted, n, s, t
<1>5. CASE me # 0
  <2>1. /\ Dests(call, me) = {0} /\ Sources(call, me) = {0} /\ Copies(call, me) = {}
        /\ SentBuf(call, me) = "in" /\ GotAct(call, me) = "recv"
    BY <1>2, <1>5 DEF Dests, Sources, Copies, SentBuf, GotAct
  <2>2. ScriptSteps(call, me) = {SendRec(0, "in", 0)} \cup {RecvRec("recv", 0, 0)}
    BY <1>3, <2>1 DEF ScriptSteps
  <2>3. Made(s, n, {SendRec(0, "in", 0)}, SendKeys({0}))
    BY <1>1, <1>5, ReduceMade
  <2>4. Made(t, n, {RecvRec("recv", 0, 0)}, RecvKeys({0}))
    BY <1>1, <1>5, BcastMade
  <2>5. SendKeys({0}) \cap RecvKeys({0}) = {}
    BY KeySets
  <2> HIDE DEF s, t
  <2>6. Made(s \o t, n, {SendRec(0, "in", 0)} \cup {RecvRec("recv", 0, 0)},
             SendKeys({0}) \cup RecvKeys({0}))
    BY <2>3, <2>4, <2>5, Then
  <2> QED
    BY <1>2, <1>5, <2>2, <2>6 DEF Made, Scripted, n, s, t
<1> QED
  BY <1>4, <1>5

\* The script of RDMA_Barrier.
LEMMA BarrierScripted ==
    ASSUME NEW call, IsCall(call), NEW me \in Ranks(call), call.kind = "Barrier"
    PROVE  Scripted(call, me, BarrierScript(Size(call), me))
<1> DEFINE n == Size(call)
<1>1. n \in Nat /\ me \in 0..(n - 1) /\ 0 \in 0..(n - 1)
  BY CallType DEF IsCall
<1>2. /\ call.kind \notin Everyone /\ call.kind \in ByZero
      /\ call.kind \notin Everyone \cup {"Gather"} /\ Root(call) = 0
  BY DEF Everyone, ByZero, Root
<1>3. /\ \A r : SentBlock(call, r) = 0 /\ GotBlock(call, r) = 0
      /\ GotAct(call, me) = "recv" /\ Copies(call, me) = {}
  BY <1>2 DEF SentBlock, GotBlock, GotAct, Copies
<1> HIDE DEF n
<1>4. CASE me = 0
  <2> DEFINE body == [i \in 1..(n - 1) |-> Rcv(i, 0)]
             steps == [i \in 1..(n - 1) |-> {RecvRec("recv", i, 0)}]
             keys == [i \in 1..(n - 1) |-> RecvKeys({i})]
             s == For(1, n - 1, body)
             t == BcastScript(n, 0, 0, "out", 0)
             A == {RecvRec("recv", r, 0) : r \in Others(n, me)}
             B == {SendRec(r, "out", 0) : r \in Others(n, me)}
             K == RecvKeys(Others(n, me))
             L == SendKeys(Others(n, me))
  <2>1. /\ Dests(call, me) = Others(n, me) /\ Sources(call, me) = Others(n, me)
        /\ SentBuf(call, me) = "out"
    BY <1>2, <1>4 DEF Dests, Sources, SentBuf, n
  <2>2. ScriptSteps(call, me) = A \cup B
    BY <1>3, <2>1 DEF ScriptSteps
  <2>3. Others(n, me) = 1..(n - 1)
    BY <1>1, <1>4 DEF Others
  <2>4. Made(s, n, A, K)
    <3>1. \A i \in 1..(n - 1) : /\ body[i] = Rcv(i, 0) /\ steps[i] = {RecvRec("recv", i, 0)}
                                /\ keys[i] = RecvKeys({i})
      OBVIOUS
    <3>2. body = [i \in 1..(n - 1) |-> body[i]]
      OBVIOUS
    <3>3. UNION {steps[i] : i \in 1..(n - 1)} = A
      BY <2>3
    <3>4. UNION {keys[i] : i \in 1..(n - 1)} = K
      BY <2>3 DEF RecvKeys
    <3> HIDE DEF body, steps, keys
    <3>5. ASSUME NEW i \in 1..(n - 1) PROVE Made(body[i], n, steps[i], keys[i])
      <4>1. i \in 0..(n - 1) /\ {<<"recv", i>>} = RecvKeys({i})
        BY DEF RecvKeys
      <4>2. Made(Rcv(i, 0), n, {RecvRec("recv", i, 0)}, {<<"recv", i>>})
        BY <1>1, <4>1, RcvMade
      <4> QED
        BY <3>1, <4>1, <4>2
    <3>6. ASSUME NEW i \in 1..(n - 1), NEW j \in 1..(n - 1), i # j
          PROVE  keys[i] \cap keys[j] = {}
      <4>1. {i} \cap {j} = {}
        BY <3>6
      <4>2. RecvKeys({i}) \cap RecvKeys({j}) = {}
        BY <4>1, KeySets
      <4> QED
        BY <3>1, <4>2
    <3>7. Bodies(body, n, 1, n - 1, steps, keys)
      BY <3>2, <3>5, <3>6 DEF Bodies
    <3>8. 1 \in Int /\ n - 1 \in Int
      BY <1>1
    <3>9. Made(s, n, UNION {steps[i] : i \in 1..(n - 1)}, UNION {keys[i] : i \in 1..(n - 1)})
      BY <3>7, <3>8, Loop
    <3> QED
      BY <3>3, <3>4, <3>9
  <2>5. Made(t, n, B, L)
    BY <1>1, <1>4, BcastMade
  <2>6. K \cap L = {}
    BY KeySets
  <2>7. (\A x \in A : Phase(x) = 1) /\ \A y \in B : Phase(y) = 2
    <3>1. "recv" \in Receiving
      BY DEF Receiving
    <3> QED
      BY <3>1, Phases
  <2>8. BarrierScript(n, me) = s \o t
    BY <1>4 DEF BarrierScript
  <2> HIDE DEF A, B, K, L, s, t
  <2>9. Ordered(s) /\ Ordered(t)
    BY <2>4, <2>5, <2>7, OnePhase DEF Made
  <2>10. Made(s \o t, n, A \cup B, K \cup L)
    BY <2>4, <2>5, <2>6, Then
  <2>11. \A x \in A, y \in B : Phase(x) =< Phase(y)
    BY <2>7
  <2>12. Ordered(s \o t)
    BY <2>4, <2>5, <2>9, <2>11, ThenOrdered
  <2> QED
    BY <2>2, <2>8, <2>10, <2>12 DEF Made, Scripted, n
<1>5. CASE me # 0
  <2>1. /\ Dests(call, me) = {0} /\ Sources(call, me) = {0} /\ SentBuf(call, me) = "in"
    BY <1>2, <1>5 DEF Dests, Sources, SentBuf
  <2>2. ScriptSteps(call, me) = {SendRec(0, "in", 0)} \cup {RecvRec("recv", 0, 0)}
    BY <1>3, <2>1 DEF ScriptSteps
  <2>3. BarrierScript(n, me) = Snd(0, "in", 0) \o Rcv(0, 0)
    BY <1>5 DEF BarrierScript
  <2>4. Made(Snd(0, "in", 0), n, {SendRec(0, "in", 0)}, SendKeys({0}))
    <3>1. Made(Snd(0, "in", 0), n, {SendRec(0, "in", 0)}, {<<"send", 0>>})
      BY <1>1, SndMade
    <3> QED
      BY <3>1 DEF SendKeys
  <2>5. Made(Rcv(0, 0), n, {RecvRec("recv", 0, 0)}, RecvKeys({0}))
    <3>1. Made(Rcv(0, 0), n, {RecvRec("recv", 0, 0)}, {<<"recv", 0>>})
      BY <1>1, RcvMade
    <3> QED
      BY <3>1 DEF RecvKeys
  <2>6. SendKeys({0}) \cap RecvKeys({0}) = {}
    BY KeySets
  <2>7. Made(Snd(0, "in", 0) \o Rcv(0, 0), n, {SendRec(0, "in", 0)} \cup {RecvRec("recv", 0, 0)},
             SendKeys({0}) \cup RecvKeys({0}))
    BY <2>4, <2>5, <2>6, Then
  <2> QED
    BY <1>2, <1>5, <2>2, <2>3, <2>7 DEF Made, Scripted, n
<1> QED
  BY <1>4, <1>5

\* The rank of a member.
LEMMA RankOf ==
    ASSUME NEW call, IsCall(call)
    PROVE  /\ \A p \in Members(call) : Rank(call, p) \in Ranks(call)
                                       /\ RootRank(call, Rank(call, p)) = p
           /\ \A r \in Ranks(call) : /\ RootRank(call, r) \in Members(call)
                                     /\ RootRank(call, r) \in Procs
                                     /\ Rank(call, RootRank(call, r)) = r
<1>1. call.comm \in Seq(Procs) /\ DOMAIN call.comm = 1..Len(call.comm)
  BY DEF IsCall
<1>2. ASSUME NEW r \in Ranks(call)
      PROVE  r + 1 \in DOMAIN call.comm /\ RootRank(call, r) = call.comm[r + 1]
  BY <1>1 DEF Ranks, Size, RootRank
<1>3. ASSUME NEW p \in Members(call) PROVE \E r \in Ranks(call) : RootRank(call, r) = p
  <2>1. PICK i \in DOMAIN call.comm : p = call.comm[i]
    BY DEF Members
  <2>2. i - 1 \in Ranks(call) /\ (i - 1) + 1 = i
    BY <1>1 DEF Ranks, Size
  <2> QED
    BY <2>1, <2>2 DEF RootRank
<1>4. ASSUME NEW p \in Members(call)
      PROVE  Rank(call, p) \in Ranks(call) /\ RootRank(call, Rank(call, p)) = p
  BY <1>3 DEF Rank
<1>5. ASSUME NEW r \in Ranks(call)
      PROVE  RootRank(call, r) \in Members(call) /\ RootRank(call, r) \in Procs
  BY <1>1, <1>2 DEF Members
<1>6. ASSUME NEW r \in Ranks(call) PROVE Rank(call, RootRank(call, r)) = r
  <2> DEFINE q == Rank(call, RootRank(call, r))
  <2>1. q \in Ranks(call) /\ RootRank(call, q) = RootRank(call, r)
    BY <1>4, <1>5
  <2> HIDE DEF q
  <2>2. q + 1 = r + 1
    BY <1>2, <2>1 DEF IsCall, IsInjective
  <2>3. q \in Int /\ r \in Int
    BY <2>1, CallType
  <2> QED
    BY <2>2, <2>3 DEF q
<1> QED
  BY <1>4, <1>5, <1>6

\* Every script is as the call says.
LEMMA ScriptScripted ==
    ASSUME NEW call, IsCall(call), NEW p \in Members(call)
    PROVE  Scripted(call, Rank(call, p), Script(call, p))
<1> DEFINE me == Rank(call, p)
           n == Size(call)
<1>1. me \in Ranks(call)
  BY RankOf
<1>2. call.kind \in Kinds
  BY DEF IsCall
<1> HIDE DEF me
<1>3. CASE call.kind = "Bcast"
  <2>1. Script(call, p) = BcastScript(n, me, call.root, "in", 0)
    BY <1>3 DEF Script, me
  <2> QED
    BY <1>1, <1>3, <2>1, BcastScripted DEF me
<1>4. CASE call.kind = "Allgather_exp"
  <2>1. Script(call, p) = AllgatherExpScript(n, me)
    BY <1>4 DEF Script, me
  <2> QED
    BY <1>1, <1>4, <2>1, ExchangeScripted DEF me
<1>5. CASE call.kind = "Allgather"
  <2>1. Script(call, p) = AllgatherScript(n, me)
    BY <1>5 DEF Script, me
  <2> QED
    BY <1>1, <1>5, <2>1, AllgatherScripted DEF me
<1>6. CASE call.kind = "Alltoall"
  <2>1. Script(call, p) = AlltoallScript(n, me)
    BY <1>6 DEF Script, me
  <2> QED
    BY <1>1, <1>6, <2>1, ExchangeScripted DEF me
<1>7. CASE call.kind = "Gather"
  <2>1. Script(call, p) = GatherScript(n, me, call.root)
    BY <1>7 DEF Script, me
  <2> QED
    BY <1>1, <1>7, <2>1, GatherScripted DEF me
<1>8. CASE call.kind = "Scatter"
  <2>1. Script(call, p) = ScatterScript(n, me, call.root)
    BY <1>8 DEF Script, me
  <2> QED
    BY <1>1, <1>8, <2>1, ScatterScripted DEF me
<1>9. CASE call.kind = "Reduce"
  <2>1. Script(call, p) = ReduceScript(n, me, call.root)
    BY <1>9 DEF Script, me
  <2> QED
    BY <1>1, <1>9, <2>1, ReduceScripted DEF me
<1>10. CASE call.kind = "Allreduce"
  <2>1. Script(call, p) = ReduceScript(n, me, 0) \o BcastScript(n, me, 0, "out", 0)
    BY <1>10 DEF Script, me
  <2> QED
    BY <1>1, <1>10, <2>1, AllreduceScripted DEF me
<1>11. CASE call.kind = "Barrier"
  <2>1. Script(call, p) = BarrierScript(n, me)
    BY <1>11 DEF Script, me
  <2> QED
    BY <1>1, <1>11, <2>1, BarrierScripted DEF me
<1>12. CASE call.kind = "SendRecv"
  <2>1. Script(call, p) = SendRecvScript(n, me, call.root)
    BY <1>12 DEF Script, me
  <2> QED
    BY <1>1, <1>12, <2>1, SendRecvScripted DEF me
<1> QED
  BY <1>2, <1>3, <1>4, <1>5, <1>6, <1>7, <1>8, <1>9, <1>10, <1>11, <1>12 DEF Kinds

\* Whom a script sends to and receives from.
LEMMA OutIn ==
    ASSUME NEW call, IsCall(call), NEW me \in Ranks(call), NEW s, Scripted(call, me, s)
    PROVE  Out(s) = Dests(call, me) /\ In(s) = Sources(call, me)
<1>1. Elems(s) = ScriptSteps(call, me)
  BY DEF Scripted
<1>2. GotAct(call, me) \in Receiving
  BY DEF GotAct, Receiving
<1>3. \A x \in Copies(call, me) : x.act = "copy"
  BY DEF Copies, CopyRec
<1>4. \A r, b, i : SendRec(r, b, i).act = "send" /\ SendRec(r, b, i).peer = r
  BY DEF SendRec
<1>5. \A a, r, i : RecvRec(a, r, i).act = a /\ RecvRec(a, r, i).peer = r
  BY DEF RecvRec
<1>6. Out(s) = Dests(call, me)
  <2>1. ASSUME NEW x \in Elems(s), x.act = "send" PROVE x.peer \in Dests(call, me)
    <3>1. x \notin Copies(call, me)
      BY <1>3, <2>1
    <3>2. ~\E r : x = RecvRec(GotAct(call, me), r, GotBlock(call, r))
      BY <1>2, <1>5, <2>1 DEF Receiving
    <3>3. PICK r \in Dests(call, me) : x = SendRec(r, SentBuf(call, me), SentBlock(call, r))
      BY <1>1, <3>1, <3>2 DEF ScriptSteps
    <3> QED
      BY <1>4, <3>3
  <2>2. ASSUME NEW r \in Dests(call, me)
        PROVE  \E x \in Elems(s) : x.act = "send" /\ x.peer = r
    <3>1. SendRec(r, SentBuf(call, me), SentBlock(call, r)) \in Elems(s)
      BY <1>1 DEF ScriptSteps
    <3> QED
      BY <1>4, <3>1
  <2> QED
    BY <2>1, <2>2 DEF Out
<1>7. In(s) = Sources(call, me)
  <2>1. ASSUME NEW x \in Elems(s), x.act \in Receiving PROVE x.peer \in Sources(call, me)
    <3>1. x \notin Copies(call, me)
      BY <1>3, <2>1 DEF Receiving
    <3>2. ~\E r : x = SendRec(r, SentBuf(call, me), SentBlock(call, r))
      BY <1>4, <2>1 DEF Receiving
    <3>3. PICK r \in Sources(call, me) : x = RecvRec(GotAct(call, me), r, GotBlock(call, r))
      BY <1>1, <3>1, <3>2 DEF ScriptSteps
    <3> QED
      BY <1>5, <3>3
  <2>2. ASSUME NEW r \in Sources(call, me)
        PROVE  \E x \in Elems(s) : x.act \in Receiving /\ x.peer = r
    <3>1. RecvRec(GotAct(call, me), r, GotBlock(call, r)) \in Elems(s)
      BY <1>1 DEF ScriptSteps
    <3> QED
      BY <1>2, <1>5, <3>1
  <2> QED
    BY <2>1, <2>2 DEF In
<1> QED
  BY <1>6, <1>7

\* In every call, one member sends to another if and only if the other receives from it.
LEMMA Mirror ==
    ASSUME NEW call, IsCall(call), NEW r \in Ranks(call), NEW q \in Ranks(call)
    PROVE  q \in Dests(call, r) <=> r \in Sources(call, q)
<1> DEFINE n == Size(call)
<1>1. n \in Nat /\ n > 1 /\ r \in 0..(n - 1) /\ q \in 0..(n - 1) /\ call.root \in 0..(n - 1)
  BY CallType DEF IsCall
<1> HIDE DEF n
<1>2. q \in Others(n, r) <=> r \in Others(n, q)
  BY <1>1 DEF Others
<1>3. Others(n, 0) = (0..(n - 1)) \ {0} /\ Others(n, call.root) = (0..(n - 1)) \ {call.root}
  BY DEF Others
<1>4. CASE call.kind \in Everyone
  BY <1>2, <1>4 DEF Dests, Sources, n
<1>5. CASE call.kind \notin Everyone /\ call.kind \in {"Bcast", "Scatter"}
  BY <1>1, <1>3, <1>5 DEF Dests, Sources, n
<1>6. CASE /\ call.kind \notin Everyone /\ call.kind \notin {"Bcast", "Scatter"}
           /\ call.kind \in {"Gather", "Reduce"}
  BY <1>1, <1>3, <1>6 DEF Dests, Sources, n
<1>7. CASE /\ call.kind \notin Everyone /\ call.kind \notin {"Bcast", "Scatter"}
           /\ call.kind \notin {"Gather", "Reduce"} /\ call.kind \in ByZero
  BY <1>1, <1>3, <1>7 DEF Dests, Sources, n
<1>8. CASE /\ call.kind \notin Everyone /\ call.kind \notin {"Bcast", "Scatter"}
           /\ call.kind \notin {"Gather", "Reduce"} /\ call.kind \notin ByZero
  BY <1>1, <1>8 DEF Dests, Sources
<1> QED
  BY <1>4, <1>5, <1>6, <1>7, <1>8

\* Doing the first step of a script.
LEMMA FirstStep ==
    ASSUME NEW T, NEW s \in Seq(T), s # <<>>
    PROVE  /\ Head(s) \in T /\ Head(s) \in Elems(s) /\ Tail(s) \in Seq(T)
           /\ Elems(s) = {Head(s)} \cup Elems(Tail(s))
           /\ Once(s) => Once(Tail(s)) /\ Key(Head(s)) \notin Keys(Tail(s))
           /\ Ordered(s) => /\ Ordered(Tail(s))
                            /\ \A y \in Elems(Tail(s)) : Phase(Head(s)) =< Phase(y)
<1> DEFINE t == Tail(s)
<1>1. /\ Len(s) \in Nat /\ Len(s) > 0 /\ DOMAIN s = 1..Len(s) /\ Head(s) = s[1]
      /\ t \in Seq(T) /\ Len(t) = Len(s) - 1 /\ DOMAIN t = 1..Len(t)
  OBVIOUS
<1>2. \A i \in DOMAIN t : i + 1 \in DOMAIN s /\ t[i] = s[i + 1]
  OBVIOUS
<1>3. Head(s) \in T
  OBVIOUS
<1> HIDE DEF t
<1>4. \A i \in DOMAIN s : i = 1 \/ (i - 1 \in DOMAIN t /\ s[i] = t[i - 1])
  <2>1. \A i \in DOMAIN s : i = 1 \/ (i - 1 \in DOMAIN t /\ (i - 1) + 1 = i)
    BY <1>1
  <2> QED
    BY <1>2, <2>1
<1>5. 1 \in DOMAIN s
  BY <1>1
<1>6. Elems(s) = {Head(s)} \cup Elems(t)
  BY <1>1, <1>2, <1>4, <1>5 DEF Elems
<1>7. ASSUME Once(s) PROVE Once(t) /\ Key(Head(s)) \notin Keys(t)
  <2>1. \A i, j \in DOMAIN t : i # j => i + 1 # j + 1 /\ 1 # i + 1
    BY <1>1
  <2>2. \A i \in DOMAIN t : 1 # i + 1
    BY <1>1
  <2>3. Once(t)
    BY <1>2, <1>7, <2>1 DEF Once
  <2>4. \A i \in DOMAIN t : Key(t[i]) # Key(Head(s))
    BY <1>1, <1>2, <1>5, <1>7, <2>2 DEF Once
  <2> QED
    BY <2>3, <2>4 DEF Keys, Elems
<1>8. ASSUME Ordered(s) PROVE Ordered(t) /\ \A y \in Elems(t) : Phase(Head(s)) =< Phase(y)
  <2>1. \A i, j \in DOMAIN t : i < j => i + 1 < j + 1
    BY <1>1
  <2>2. \A i \in DOMAIN t : 1 < i + 1
    BY <1>1
  <2>3. Ordered(t)
    BY <1>2, <1>8, <2>1 DEF Ordered
  <2>4. \A i \in DOMAIN t : Phase(Head(s)) =< Phase(t[i])
    BY <1>1, <1>2, <1>5, <1>8, <2>2 DEF Ordered
  <2> QED
    BY <2>3, <2>4 DEF Elems
<1> QED
  BY <1>1, <1>3, <1>6, <1>7, <1>8 DEF t

\* What is left to send and to receive.
LEMMA FirstOutIn ==
    ASSUME NEW T, NEW s \in Seq(T), s # <<>>, Once(s)
    PROVE  /\ Head(s).act = "send"
                => /\ Out(Tail(s)) = Out(s) \ {Head(s).peer} /\ Head(s).peer \in Out(s)
                   /\ In(Tail(s)) = In(s)
           /\ Head(s).act \in Receiving
                => /\ In(Tail(s)) = In(s) \ {Head(s).peer} /\ Head(s).peer \in In(s)
                   /\ Out(Tail(s)) = Out(s)
           /\ Head(s).act = "copy" => Out(Tail(s)) = Out(s) /\ In(Tail(s)) = In(s)
<1> DEFINE h == Head(s)
           t == Tail(s)
<1>1. Elems(s) = {h} \cup Elems(t) /\ Key(h) \notin Keys(t)
  BY FirstStep
<1>2. \A y \in Elems(t) : Key(y) # Key(h)
  BY <1>1 DEF Keys
<1> HIDE DEF h, t
<1>3. "send" \notin Receiving /\ "copy" \notin Receiving
  BY DEF Receiving
<1>4. ASSUME h.act = "send"
      PROVE  Out(t) = Out(s) \ {h.peer} /\ h.peer \in Out(s) /\ In(t) = In(s)
  <2>1. \A y \in Elems(t) : y.act = "send" => y.peer # h.peer
    BY <1>2, <1>4 DEF Key
  <2> QED
    BY <1>1, <1>3, <1>4, <2>1 DEF Out, In
<1>5. ASSUME h.act \in Receiving
      PROVE  In(t) = In(s) \ {h.peer} /\ h.peer \in In(s) /\ Out(t) = Out(s)
  <2>1. \A y \in Elems(t) : y.act \in Receiving => y.peer # h.peer
    BY <1>2, <1>5 DEF Key, Receiving
  <2> QED
    BY <1>1, <1>3, <1>5, <2>1 DEF Out, In
<1>6. ASSUME h.act = "copy" PROVE Out(t) = Out(s) /\ In(t) = In(s)
  BY <1>1, <1>3, <1>6 DEF Out, In
<1> QED
  BY <1>4, <1>5, <1>6 DEF h, t

\* Nothing left to do means nothing left to send or receive.
LEMMA NoOutIn == Out(<<>>) = {} /\ In(<<>>) = {}
  BY Nothing DEF Out, In

(* The program *)

\* The calls of a program that is considered.
LEMMA CallsAreCalls ==
    ASSUME NEW prog \in Programs
    PROVE  /\ prog \in Seq([kind : Kinds, root : Nat, comm : Seq(Procs)])
           /\ Len(prog) \in Nat /\ DOMAIN prog = 1..Len(prog)
           /\ \A k \in 1..Len(prog) : IsCall(prog[k]) /\ Members(prog[k]) \subseteq Procs
<1> DEFINE C == [kind : Kinds, root : Nat, comm : Seq(Procs)]
<1>1. prog \in Seq(C)
  BY ProgramsAssumption
<1> HIDE DEF C
<1>2. Len(prog) \in Nat /\ DOMAIN prog = 1..Len(prog)
  BY <1>1
<1>3. ASSUME NEW k \in 1..Len(prog)
      PROVE  IsCall(prog[k]) /\ Members(prog[k]) \subseteq Procs
  <2>1. prog[k] \in C
    BY <1>1, <1>2
  <2>2. IsCall(prog[k])
    BY <1>2, <2>1, ProgramsAssumption DEF IsCall, C
  <2>3. prog[k].comm \in Seq(Procs)
    BY <2>1 DEF C
  <2> QED
    BY <2>2, <2>3 DEF Members
<1> QED
  BY <1>1, <1>2, <1>3 DEF C

(* The inductive invariant *)

\* In call k, p sends to q.
Linked(p, q, k) ==
    /\ p \in Members(program[k]) /\ q \in Members(program[k])
    /\ Rank(program[k], q) \in Dests(program[k], Rank(program[k], p))

\* It has sent.
Sent(p, q, k) ==
    /\ k \in 1..at[p] /\ Linked(p, q, k)
    /\ k = at[p] => Rank(program[k], q) \notin Out(rest[p])

\* And q has received.
Got(p, q, k) ==
    /\ k \in 1..at[q] /\ Linked(p, q, k)
    /\ k = at[q] => Rank(program[k], p) \notin In(rest[q])

Blocks == Seq(Nat \X Nat \X Nat)
Buffers == [Procs -> Blocks]
Messages == [call : Nat, data : Blocks]

Typed ==
    /\ program \in Programs /\ capacity \in Capacities
    /\ at \in [Procs -> Nat]
    /\ rest = [p \in Procs |-> rest[p]]
    /\ out \in [Procs -> Buffers]
    /\ chan \in [Procs -> [Procs -> Seq(Messages)]]
    /\ results \in [Procs -> Seq(Buffers)]
    /\ \A p \in Procs : at[p] =< Len(program) /\ Len(results[p]) \in {at[p], at[p] - 1}
    /\ \A p, q \in Procs : Len(chan[p][q]) =< capacity

\* What a process has still to do is a part of its script.
PartOf(call, me, s) ==
    /\ s \in Seq(StepsOf(Size(call))) /\ Once(s) /\ Elems(s) \subseteq ScriptSteps(call, me)
    /\ call.kind \in ByZero \cup {"Reduce"} /\ me = Root(call) =>
         /\ Ordered(s)
         /\ \A y \in Elems(s) : y.act # "send" => Out(s) = Dests(call, me)

Going(p) ==
    rest[p] # <<>> =>
        /\ at[p] \in 1..Len(program) /\ InCall(p) /\ p \in Members(Call(p))
        /\ PartOf(Call(p), Rank(Call(p), p), rest[p])

\* The calls of the messages of a queue, and that they are in order.
CallsOf(ch) == {ch[i].call : i \in DOMAIN ch}
Rising(ch) == \A i, j \in DOMAIN ch : i < j => ch[i].call < ch[j].call

\* What is on its way from p to q: what p has sent and q has not received, in the
\* order of the calls.
Wire(p, q) ==
    /\ Rising(chan[p][q])
    /\ CallsOf(chan[p][q]) = {k \in 1..Len(program) : Sent(p, q, k) /\ ~Got(p, q, k)}
    /\ \A k \in 1..Len(program) : Got(p, q, k) => Sent(p, q, k)

IInv ==
    /\ Typed
    /\ \A p \in Procs : Going(p)
    /\ \A p, q \in Procs : Wire(p, q)

\* A communicator is not larger than the root communicator.
LEMMA RanksProcs ==
    ASSUME NEW call, IsCall(call)
    PROVE  Size(call) =< N /\ Ranks(call) \subseteq Procs
<1> DEFINE n == Len(call.comm)
           f == call.comm
<1>1. n \in Nat /\ f \in [1..n -> Procs] /\ N \in Nat
  BY NAssumption DEF IsCall
<1>2. \A i, j \in 1..n : f[i] = f[j] => i = j
  <2>1. DOMAIN f = 1..n /\ IsInjective(f)
    BY DEF IsCall
  <2> QED
    BY <2>1 DEF IsInjective
<1>3. IsFiniteSet(1..n) /\ Cardinality(1..n) = n
  <2>1. n \in Int /\ 1 \in Int
    BY <1>1
  <2> HIDE DEF n
  <2>2. IsFiniteSet(1..n) /\ Cardinality(1..n) = IF 1 > n THEN 0 ELSE n - 1 + 1
    BY <2>1, FS_Interval
  <2> QED
    BY <1>1, <2>2
<1>4. IsFiniteSet(Procs) /\ Cardinality(Procs) = N
  <2>1. N - 1 \in Int /\ 0 \in Int /\ N \in Int
    BY <1>1
  <2>2. IsFiniteSet(0..(N - 1)) /\ Cardinality(0..(N - 1)) = IF 0 > N - 1 THEN 0 ELSE N - 1 - 0 + 1
    BY <2>1, FS_Interval
  <2> QED
    BY <2>1, <2>2, NAssumption DEF Procs
<1> HIDE DEF n, f
<1>5. ~(Cardinality(Procs) < Cardinality(1..n))
  BY <1>1, <1>2, <1>3, <1>4, FS_PigeonHole
<1>6. n =< N
  BY <1>1, <1>3, <1>4, <1>5
<1> QED
  BY <1>1, <1>6 DEF n, Size, Ranks, Procs

\* A process in the middle of a call.
LEMMA Doing ==
    ASSUME Typed, NEW p \in Procs, Going(p), rest[p] # <<>>
    PROVE  /\ at[p] \in 1..Len(program) /\ InCall(p) /\ p \in Members(Call(p))
           /\ Call(p) = program[at[p]] /\ IsCall(Call(p))
           /\ Rank(Call(p), p) \in Ranks(Call(p))
           /\ Step(p) \in StepsOf(Size(Call(p)))
           /\ Step(p) \in ScriptSteps(Call(p), Rank(Call(p), p))
           /\ Step(p).peer \in Ranks(Call(p)) /\ Step(p).block \in Procs
           /\ Peer(p) \in Members(Call(p)) /\ Peer(p) \in Procs
           /\ Rank(Call(p), Peer(p)) = Step(p).peer
           /\ Step(p).act \in Acts
<1> DEFINE call == Call(p)
           T == StepsOf(Size(call))
<1>1. /\ at[p] \in 1..Len(program) /\ InCall(p) /\ p \in Members(call)
      /\ PartOf(call, Rank(call, p), rest[p])
  BY DEF Going
<1>2. call = program[at[p]] /\ IsCall(call)
  BY <1>1, CallsAreCalls DEF Typed, Call
<1> HIDE DEF call
<1>3. Rank(call, p) \in Ranks(call)
  BY <1>1, <1>2, RankOf
<1>4. rest[p] \in Seq(T) /\ Elems(rest[p]) \subseteq ScriptSteps(call, Rank(call, p))
  BY <1>1 DEF PartOf
<1> HIDE DEF T
<1>5. Step(p) \in T /\ Step(p) \in Elems(rest[p])
  BY <1>4, FirstStep DEF Step
<1>6. /\ Step(p).act \in Acts /\ Step(p).peer \in Ranks(call) /\ Step(p).block \in Ranks(call)
  BY <1>2, <1>5, CallType DEF T, StepsOf
<1>7. Ranks(call) \subseteq Procs
  BY <1>2, RanksProcs
<1>8. Peer(p) = RootRank(call, Step(p).peer)
  BY DEF Peer, call
<1>9. /\ Peer(p) \in Members(call) /\ Peer(p) \in Procs
      /\ Rank(call, Peer(p)) = Step(p).peer
  BY <1>2, <1>6, <1>8, RankOf
<1> QED
  BY <1>1, <1>2, <1>3, <1>4, <1>5, <1>6, <1>7, <1>9 DEF call, T

\* The step of a script by its kind.
LEMMA StepIs ==
    ASSUME NEW call, NEW me, NEW x \in ScriptSteps(call, me)
    PROVE  /\ x.act = "send" => /\ x.peer \in Dests(call, me)
                                /\ x.buf = SentBuf(call, me)
                                /\ x.block = SentBlock(call, x.peer)
           /\ x.act \in Receiving => /\ x.peer \in Sources(call, me)
                                     /\ x.act = GotAct(call, me)
                                     /\ x.block = GotBlock(call, x.peer)
           /\ x.act = "copy" => x \in Copies(call, me)
<1>1. GotAct(call, me) \in Receiving /\ "send" \notin Receiving /\ "copy" \notin Receiving
  BY DEF GotAct, Receiving
<1>2. \A y \in Copies(call, me) : y.act = "copy"
  BY DEF Copies, CopyRec
<1>3. CASE x \in Copies(call, me)
  BY <1>1, <1>2, <1>3
<1>4. CASE \E r \in Dests(call, me) : x = SendRec(r, SentBuf(call, me), SentBlock(call, r))
  <2>1. PICK r \in Dests(call, me) : x = SendRec(r, SentBuf(call, me), SentBlock(call, r))
    BY <1>4
  <2>2. /\ x.act = "send" /\ x.peer = r /\ x.buf = SentBuf(call, me)
        /\ x.block = SentBlock(call, r)
    BY <2>1 DEF SendRec
  <2> QED
    BY <1>1, <2>2
<1>5. CASE \E r \in Sources(call, me) : x = RecvRec(GotAct(call, me), r, GotBlock(call, r))
  <2>1. PICK r \in Sources(call, me) : x = RecvRec(GotAct(call, me), r, GotBlock(call, r))
    BY <1>5
  <2>2. x.act = GotAct(call, me) /\ x.peer = r /\ x.block = GotBlock(call, r)
    BY <2>1 DEF RecvRec
  <2> QED
    BY <1>1, <2>2
<1> QED
  BY <1>3, <1>4, <1>5 DEF ScriptSteps

\* The whole of a script is a part of it.
LEMMA Whole ==
    ASSUME NEW call, IsCall(call), NEW p \in Members(call)
    PROVE  /\ PartOf(call, Rank(call, p), Script(call, p))
           /\ Out(Script(call, p)) = Dests(call, Rank(call, p))
           /\ In(Script(call, p)) = Sources(call, Rank(call, p))
<1>1. Rank(call, p) \in Ranks(call) /\ Scripted(call, Rank(call, p), Script(call, p))
  BY RankOf, ScriptScripted
<1>2. /\ Out(Script(call, p)) = Dests(call, Rank(call, p))
      /\ In(Script(call, p)) = Sources(call, Rank(call, p))
  BY <1>1, OutIn
<1> QED
  BY <1>1, <1>2 DEF Scripted, PartOf

\* And so is what is left of a part after its first step.
LEMMA Less ==
    ASSUME NEW call, NEW me, NEW s, s # <<>>, PartOf(call, me, s)
    PROVE  PartOf(call, me, Tail(s))
<1> DEFINE T == StepsOf(Size(call))
           t == Tail(s)
           h == Head(s)
<1>1. s \in Seq(T) /\ Once(s) /\ Elems(s) \subseteq ScriptSteps(call, me)
  BY DEF PartOf
<1> HIDE DEF T
<1>2. t \in Seq(T) /\ Once(t) /\ Elems(s) = {h} \cup Elems(t)
  BY <1>1, FirstStep
<1>3. ASSUME call.kind \in ByZero \cup {"Reduce"}, me = Root(call)
      PROVE  /\ Ordered(t)
             /\ \A y \in Elems(t) : y.act # "send" => Out(t) = Dests(call, me)
  <2>1. Ordered(s) /\ \A y \in Elems(s) : y.act # "send" => Out(s) = Dests(call, me)
    BY <1>3 DEF PartOf
  <2>2. Ordered(t) /\ \A y \in Elems(t) : Phase(h) =< Phase(y)
    BY <1>1, <2>1, FirstStep
  <2>3. ASSUME NEW y \in Elems(t), y.act # "send" PROVE Out(t) = Dests(call, me)
    <3>1. Out(s) = Dests(call, me)
      BY <1>2, <2>1, <2>3
    <3>2. h.act # "send"
      BY <2>2, <2>3 DEF Phase
    <3>3. h \in T
      BY <1>1, FirstStep
    <3>4. h.act \in Receiving \/ h.act = "copy"
      BY <3>2, <3>3 DEF T, StepsOf, Acts, Receiving
    <3> QED
      BY <1>1, <3>1, <3>4, FirstOutIn
  <2> QED
    BY <2>2, <2>3
<1>4. Elems(t) \subseteq ScriptSteps(call, me)
  BY <1>1, <1>2
<1> QED
  BY <1>2, <1>3, <1>4 DEF PartOf, T, t

(* What the actions do *)

\* The effect of doing the first step on what is left.
LEMMA DoneRest ==
    ASSUME Typed, NEW p \in Procs, Done(p)
    PROVE  /\ rest' = [q \in Procs |-> rest'[q]]
           /\ rest'[p] = Tail(rest[p]) /\ \A q \in Procs \ {p} : rest'[q] = rest[q]
  BY DEF Typed, Done

\* A message of a call.
LEMMA DataType ==
    ASSUME Typed, NEW p \in Procs, Going(p), rest[p] # <<>>, NEW buf \in {"in", "out"},
           NEW i \in Procs
    PROVE  Data(p, buf, i) \in Blocks
<1>1. at[p] \in Nat /\ Rank(Call(p), p) \in Nat /\ i \in Nat
  <2>1. Rank(Call(p), p) \in Ranks(Call(p)) /\ IsCall(Call(p))
    BY Doing
  <2> QED
    BY <2>1, RanksProcs, NAssumption DEF Typed, Procs
<1>2. out[p][i] \in Blocks
  BY DEF Typed, Buffers
<1>3. <<at[p], Rank(Call(p), p), i>> \in Nat \X Nat \X Nat
  BY <1>1
<1>4. Own(at[p], Rank(Call(p), p), i) \in Blocks
  BY <1>3 DEF Own, Blocks
<1> QED
  BY <1>2, <1>4 DEF Data

\* Two members are the same if their ranks are.
LEMMA SameRank ==
    ASSUME NEW call, IsCall(call), NEW p \in Members(call), NEW q \in Members(call)
    PROVE  Rank(call, p) = Rank(call, q) <=> p = q
<1>1. RootRank(call, Rank(call, p)) = p /\ RootRank(call, Rank(call, q)) = q
  BY RankOf
<1> QED
  BY <1>1

\* A send adds its message to what p has sent.
LEMMA SendMoves ==
    ASSUME Typed, NEW p \in Procs, Going(p), SendStep(p)
    PROVE  /\ ~Sent(p, Peer(p), at[p]) /\ Linked(p, Peer(p), at[p])
           /\ \A u, v \in Procs : \A k \in Nat :
                /\ Sent(u, v, k)' <=> Sent(u, v, k) \/ (u = p /\ v = Peer(p) /\ k = at[p])
                /\ Got(u, v, k)' <=> Got(u, v, k)
<1> DEFINE call == Call(p)
           me == Rank(call, p)
           b == Peer(p)
           x == Step(p)
<1>1. rest[p] # <<>> /\ x.act = "send" /\ Done(p) /\ UNCHANGED <<env, at, out, results>>
  BY DEF SendStep, Todo
<1>2. /\ at[p] \in 1..Len(program) /\ p \in Members(call) /\ call = program[at[p]]
      /\ IsCall(call) /\ me \in Ranks(call) /\ x \in ScriptSteps(call, me)
      /\ b \in Members(call) /\ b \in Procs /\ Rank(call, b) = x.peer
  BY <1>1, Doing
<1>3. PartOf(call, me, rest[p])
  BY <1>1 DEF Going
<1> HIDE DEF call, me
<1>4. x.peer \in Dests(call, me)
  BY <1>1, <1>2, StepIs
<1> HIDE DEF b
<1>5. Linked(p, b, at[p])
  BY <1>2, <1>4 DEF Linked, me
<1>6. /\ Out(Tail(rest[p])) = Out(rest[p]) \ {x.peer} /\ x.peer \in Out(rest[p])
      /\ In(Tail(rest[p])) = In(rest[p])
  <2> DEFINE T == StepsOf(Size(call))
  <2>1. rest[p] \in Seq(T) /\ Once(rest[p])
    BY <1>3 DEF PartOf
  <2> HIDE DEF T
  <2> QED
    BY <1>1, <2>1, FirstOutIn DEF Step
<1> HIDE DEF x
<1>7. /\ rest'[p] = Tail(rest[p]) /\ \A q \in Procs \ {p} : rest'[q] = rest[q]
      /\ at' = at /\ program' = program
  BY <1>1, DoneRest DEF env
<1>8. ~Sent(p, b, at[p])
  BY <1>2, <1>6 DEF Sent
<1>9. ASSUME NEW u \in Procs, NEW v \in Procs, NEW k \in Nat
      PROVE  Linked(u, v, k)' <=> Linked(u, v, k)
  BY <1>7 DEF Linked
<1>10. ASSUME NEW u \in Procs, NEW v \in Procs, NEW k \in Nat
       PROVE  Sent(u, v, k)' <=> Sent(u, v, k) \/ (u = p /\ v = b /\ k = at[p])
  <2>1. CASE u # p
    BY <1>7, <1>9, <2>1 DEF Sent
  <2>2. CASE u = p /\ k # at[p]
    BY <1>7, <1>9, <2>2 DEF Sent
  <2>3. CASE u = p /\ k = at[p]
    <3>1. Sent(p, v, k)' <=> k \in 1..at[p] /\ Linked(p, v, k)
                             /\ Rank(program[k], v) \notin Out(rest[p]) \ {x.peer}
      BY <1>6, <1>7, <1>9, <2>3 DEF Sent
    <3>2. Sent(p, v, k) <=> k \in 1..at[p] /\ Linked(p, v, k)
                             /\ Rank(program[k], v) \notin Out(rest[p])
      BY <2>3 DEF Sent
    <3>3. Linked(p, v, k) => v \in Members(call)
      BY <1>2, <2>3 DEF Linked
    <3>4. Linked(p, v, k) => (Rank(call, v) = x.peer <=> v = b)
      BY <1>2, <3>3, SameRank
    <3>5. k \in 1..at[p]
      BY <1>2, <2>3
    <3> QED
      BY <1>2, <1>5, <2>3, <3>1, <3>2, <3>4, <3>5
  <2> QED
    BY <2>1, <2>2, <2>3
<1>11. ASSUME NEW u \in Procs, NEW v \in Procs, NEW k \in Nat
       PROVE  Got(u, v, k)' <=> Got(u, v, k)
  <2>1. In(rest'[v]) = In(rest[v])
    BY <1>6, <1>7
  <2> QED
    BY <1>7, <1>9, <2>1 DEF Got
<1> QED
  BY <1>5, <1>8, <1>10, <1>11 DEF b

\* A receive adds it to what q has received.
LEMMA RecvMoves ==
    ASSUME Typed, NEW q \in Procs, Going(q), RecvStep(q)
    PROVE  /\ ~Got(Peer(q), q, at[q]) /\ Linked(Peer(q), q, at[q])
           /\ \A u, v \in Procs : \A k \in Nat :
                /\ Got(u, v, k)' <=> Got(u, v, k) \/ (v = q /\ u = Peer(q) /\ k = at[q])
                /\ Sent(u, v, k)' <=> Sent(u, v, k)
<1> DEFINE call == Call(q)
           me == Rank(call, q)
           b == Peer(q)
           x == Step(q)
<1>1. rest[q] # <<>> /\ x.act \in Receiving /\ Done(q) /\ UNCHANGED <<env, at, results>>
  BY DEF RecvStep, Todo, Receiving
<1>2. /\ at[q] \in 1..Len(program) /\ q \in Members(call) /\ call = program[at[q]]
      /\ IsCall(call) /\ me \in Ranks(call) /\ x \in ScriptSteps(call, me)
      /\ b \in Members(call) /\ b \in Procs /\ Rank(call, b) = x.peer
  BY <1>1, Doing
<1>3. PartOf(call, me, rest[q])
  BY <1>1 DEF Going
<1> HIDE DEF call, me
<1>4. x.peer \in Sources(call, me)
  BY <1>1, <1>2, StepIs
<1>5. me \in Dests(call, x.peer)
  <2>1. x.peer \in Ranks(call)
    BY <1>1, Doing DEF call
  <2> QED
    BY <1>2, <1>4, <2>1, Mirror
<1> HIDE DEF b
<1>6. Linked(b, q, at[q])
  BY <1>2, <1>5 DEF Linked, me
<1>7. /\ In(Tail(rest[q])) = In(rest[q]) \ {x.peer} /\ x.peer \in In(rest[q])
      /\ Out(Tail(rest[q])) = Out(rest[q])
  <2> DEFINE T == StepsOf(Size(call))
  <2>1. rest[q] \in Seq(T) /\ Once(rest[q])
    BY <1>3 DEF PartOf
  <2> HIDE DEF T
  <2> QED
    BY <1>1, <2>1, FirstOutIn DEF Step
<1> HIDE DEF x
<1>8. /\ rest'[q] = Tail(rest[q]) /\ \A p \in Procs \ {q} : rest'[p] = rest[p]
      /\ at' = at /\ program' = program
  BY <1>1, DoneRest DEF env
<1>9. ~Got(b, q, at[q])
  BY <1>2, <1>7 DEF Got
<1>10. ASSUME NEW u \in Procs, NEW v \in Procs, NEW k \in Nat
       PROVE  Linked(u, v, k)' <=> Linked(u, v, k)
  BY <1>8 DEF Linked
<1>11. ASSUME NEW u \in Procs, NEW v \in Procs, NEW k \in Nat
       PROVE  Got(u, v, k)' <=> Got(u, v, k) \/ (v = q /\ u = b /\ k = at[q])
  <2>1. CASE v # q
    BY <1>8, <1>10, <2>1 DEF Got
  <2>2. CASE v = q /\ k # at[q]
    BY <1>8, <1>10, <2>2 DEF Got
  <2>3. CASE v = q /\ k = at[q]
    <3>1. Got(u, q, k)' <=> k \in 1..at[q] /\ Linked(u, q, k)
                            /\ Rank(program[k], u) \notin In(rest[q]) \ {x.peer}
      BY <1>7, <1>8, <1>10, <2>3 DEF Got
    <3>2. Got(u, q, k) <=> k \in 1..at[q] /\ Linked(u, q, k)
                           /\ Rank(program[k], u) \notin In(rest[q])
      BY <2>3 DEF Got
    <3>3. Linked(u, q, k) => u \in Members(call)
      BY <1>2, <2>3 DEF Linked
    <3>4. Linked(u, q, k) => (Rank(call, u) = x.peer <=> u = b)
      BY <1>2, <3>3, SameRank
    <3>5. k \in 1..at[q]
      BY <1>2, <2>3
    <3> QED
      BY <1>2, <1>6, <2>3, <3>1, <3>2, <3>4, <3>5
  <2> QED
    BY <2>1, <2>2, <2>3
<1>12. ASSUME NEW u \in Procs, NEW v \in Procs, NEW k \in Nat
       PROVE  Sent(u, v, k)' <=> Sent(u, v, k)
  <2>1. Out(rest'[u]) = Out(rest[u])
    BY <1>7, <1>8
  <2> QED
    BY <1>8, <1>10, <2>1 DEF Sent
<1> QED
  BY <1>6, <1>9, <1>11, <1>12 DEF b

\* A process between two calls has nothing left to do.
LEMMA BetweenCalls ==
    ASSUME NEW p \in Procs, Going(p), ~InCall(p)
    PROVE  rest[p] = <<>>
  BY DEF Going

\* Beginning a call, copying, returning and stopping move no message.
LEMMA OtherMoves ==
    ASSUME Typed, NEW p \in Procs, Going(p), Begin(p) \/ CopyStep(p) \/ Return(p)
    PROVE  \A u, v \in Procs : \A k \in Nat :
                (Sent(u, v, k)' <=> Sent(u, v, k)) /\ (Got(u, v, k)' <=> Got(u, v, k))
<1>0. program' = program
  BY DEF Begin, CopyStep, Return, env
<1>1. ASSUME NEW u \in Procs, NEW v \in Procs, NEW k \in Nat
      PROVE  Linked(u, v, k)' <=> Linked(u, v, k)
  BY <1>0 DEF Linked
<1>2. CASE Begin(p)
  <2> DEFINE call == program[at[p] + 1]
  <2>1. /\ ~InCall(p) /\ at[p] < Len(program) /\ at[p] \in Nat
        /\ at'[p] = at[p] + 1 /\ \A q \in Procs \ {p} : at'[q] = at[q] /\ rest'[q] = rest[q]
        /\ rest'[p] = IF p \in Members(call) THEN Script(call, p) ELSE <<>>
    BY <1>2 DEF Begin, Typed
  <2>2. rest[p] = <<>>
    BY <2>1, BetweenCalls
  <2>3. IsCall(call)
    <3>0. Len(program) \in Nat
      BY CallsAreCalls DEF Typed
    <3>1. at[p] + 1 \in 1..Len(program)
      BY <2>1, <3>0
    <3> QED
      BY <3>1, CallsAreCalls DEF Typed
  <2>4. p \in Members(call) => /\ Out(rest'[p]) = Dests(call, Rank(call, p))
                               /\ In(rest'[p]) = Sources(call, Rank(call, p))
    BY <2>1, <2>3, Whole
  <2>5. ASSUME NEW v \in Procs, NEW k \in Nat, k = at[p] + 1, Linked(p, v, k)
        PROVE  Rank(program[k], v) \in Out(rest'[p])
    BY <2>4, <2>5 DEF Linked
  <2>6. ASSUME NEW u \in Procs, NEW k \in Nat, k = at[p] + 1, Linked(u, p, k)
        PROVE  Rank(program[k], u) \in In(rest'[p])
    <3>1. /\ u \in Members(call) /\ p \in Members(call)
          /\ Rank(call, p) \in Dests(call, Rank(call, u))
      BY <2>6 DEF Linked
    <3>2. Rank(call, u) \in Ranks(call) /\ Rank(call, p) \in Ranks(call)
      BY <2>3, <3>1, RankOf
    <3>3. Rank(call, u) \in Sources(call, Rank(call, p))
      BY <2>3, <3>1, <3>2, Mirror
    <3> QED
      BY <2>4, <2>6, <3>1, <3>3
  <2> HIDE DEF call
  <2>7. ASSUME NEW u \in Procs, NEW v \in Procs, NEW k \in Nat
        PROVE  Sent(u, v, k)' <=> Sent(u, v, k)
    <3>1. CASE u # p
      BY <1>0, <1>1, <2>1, <3>1 DEF Sent
    <3>2. CASE u = p
      <4>1. Sent(p, v, k) <=> k \in 1..at[p] /\ Linked(p, v, k)
        BY <2>2, NoOutIn DEF Sent
      <4>2. Sent(p, v, k)' <=> /\ k \in 1..(at[p] + 1) /\ Linked(p, v, k)
                               /\ k = at[p] + 1 => Rank(program[k], v) \notin Out(rest'[p])
        BY <1>0, <1>1, <2>1 DEF Sent, Linked
      <4>3. k \in 1..(at[p] + 1) <=> k \in 1..at[p] \/ k = at[p] + 1
        BY <2>1
      <4>4. k \in 1..at[p] => k # at[p] + 1
        BY <2>1
      <4> QED
        BY <2>5, <3>2, <4>1, <4>2, <4>3, <4>4
    <3> QED
      BY <3>1, <3>2
  <2>8. ASSUME NEW u \in Procs, NEW v \in Procs, NEW k \in Nat
        PROVE  Got(u, v, k)' <=> Got(u, v, k)
    <3>1. CASE v # p
      BY <1>0, <1>1, <2>1, <3>1 DEF Got
    <3>2. CASE v = p
      <4>1. Got(u, p, k) <=> k \in 1..at[p] /\ Linked(u, p, k)
        BY <2>2, NoOutIn DEF Got
      <4>2. Got(u, p, k)' <=> /\ k \in 1..(at[p] + 1) /\ Linked(u, p, k)
                              /\ k = at[p] + 1 => Rank(program[k], u) \notin In(rest'[p])
        BY <1>0, <1>1, <2>1 DEF Got, Linked
      <4>3. k \in 1..(at[p] + 1) <=> k \in 1..at[p] \/ k = at[p] + 1
        BY <2>1
      <4>4. k \in 1..at[p] => k # at[p] + 1
        BY <2>1
      <4> QED
        BY <2>6, <3>2, <4>1, <4>2, <4>3, <4>4
    <3> QED
      BY <3>1, <3>2
  <2> QED
    BY <2>7, <2>8
<1>3. CASE CopyStep(p)
  <2>1. rest[p] # <<>> /\ Step(p).act = "copy" /\ Done(p) /\ at' = at
    BY <1>3 DEF CopyStep, Todo
  <2> DEFINE T == StepsOf(Size(Call(p)))
  <2>2. rest[p] \in Seq(T) /\ Once(rest[p])
    BY <2>1 DEF Going, PartOf
  <2> HIDE DEF T
  <2>3. Out(Tail(rest[p])) = Out(rest[p]) /\ In(Tail(rest[p])) = In(rest[p])
    BY <2>1, <2>2, FirstOutIn DEF Step
  <2>4. \A q \in Procs : Out(rest'[q]) = Out(rest[q]) /\ In(rest'[q]) = In(rest[q])
    BY <2>1, <2>3, DoneRest
  <2> QED
    BY <1>0, <1>1, <2>1, <2>4 DEF Sent, Got, Linked
<1>4. CASE Return(p)
  BY <1>0, <1>4 DEF Return, Sent, Got, Linked
<1> QED
  BY <1>2, <1>3, <1>4

\* What a process has to do stays a part of its script.
LEMMA GoingKept ==
    ASSUME Typed, \A p \in Procs : Going(p), [Next]_vars, NEW q \in Procs
    PROVE  Going(q)'
<1>1. ASSUME NEW p \in Procs, Done(p), rest[p] # <<>>, UNCHANGED <<env, at, results>>
      PROVE  Going(q)'
  <2>1. /\ rest'[p] = Tail(rest[p]) /\ \A r \in Procs \ {p} : rest'[r] = rest[r]
        /\ at' = at /\ program' = program /\ results' = results
    BY <1>1, DoneRest DEF env
  <2>2. Going(q)
    OBVIOUS
  <2>3. CASE q # p
    BY <2>1, <2>2, <2>3 DEF Going, InCall, Call
  <2>4. CASE q = p
    <3>1. /\ at[p] \in 1..Len(program) /\ InCall(p) /\ p \in Members(Call(p))
          /\ PartOf(Call(p), Rank(Call(p), p), rest[p])
      BY <1>1, <2>2, <2>4 DEF Going
    <3>2. PartOf(Call(p), Rank(Call(p), p), Tail(rest[p]))
      BY <1>1, <3>1, Less
    <3> QED
      BY <2>1, <2>4, <3>1, <3>2 DEF Going, InCall, Call
  <2> QED
    BY <2>3, <2>4
<1>2. ASSUME NEW p \in Procs, Begin(p) PROVE Going(q)'
  <2> DEFINE call == program[at[p] + 1]
  <2>1. /\ at[p] < Len(program) /\ at[p] \in Nat
        /\ at'[p] = at[p] + 1 /\ \A r \in Procs \ {p} : at'[r] = at[r] /\ rest'[r] = rest[r]
        /\ rest'[p] = IF p \in Members(call) THEN Script(call, p) ELSE <<>>
        /\ program' = program /\ results' = results /\ ~InCall(p)
    BY <1>2 DEF Begin, Typed, env
  <2>2. Going(q)
    OBVIOUS
  <2>3. CASE q # p
    BY <2>1, <2>2, <2>3 DEF Going, InCall, Call
  <2>4. CASE q = p
    <3>0. Len(program) \in Nat
      BY CallsAreCalls DEF Typed
    <3>1. at[p] + 1 \in 1..Len(program)
      BY <2>1, <3>0
    <3>2. IsCall(call)
      BY <3>1, CallsAreCalls DEF Typed
    <3>3. p \in Members(call) => PartOf(call, Rank(call, p), Script(call, p))
      BY <3>2, Whole
    <3>4. Len(results[p]) < at[p] + 1
      BY <2>1 DEF Typed
    <3>5. Call(p)' = call /\ (InCall(p))'
      BY <2>1, <3>4 DEF Call, InCall
    <3> HIDE DEF call
    <3> QED
      BY <2>1, <2>4, <3>1, <3>3, <3>5 DEF Going
  <2> QED
    BY <2>3, <2>4
<1>3. ASSUME NEW p \in Procs, Return(p) PROVE Going(q)'
  <2>1. /\ rest' = rest /\ at' = at /\ program' = program /\ rest[p] = <<>>
        /\ \A r \in Procs \ {p} : results'[r] = results[r]
    BY <1>3 DEF Return, Typed, env
  <2>2. Going(q)
    OBVIOUS
  <2> QED
    BY <2>1, <2>2 DEF Going, InCall, Call
<1>4. ASSUME UNCHANGED vars PROVE Going(q)'
  <2>1. Going(q)
    OBVIOUS
  <2> QED
    BY <1>4, <2>1 DEF Going, InCall, Call, vars, env
<1>5. ASSUME NEW p \in Procs, SendStep(p) PROVE Going(q)'
  BY <1>1, <1>5 DEF SendStep, Todo
<1>6. ASSUME NEW p \in Procs, RecvStep(p) PROVE Going(q)'
  BY <1>1, <1>6 DEF RecvStep, Todo
<1>7. ASSUME NEW p \in Procs, CopyStep(p) PROVE Going(q)'
  BY <1>1, <1>7 DEF CopyStep, Todo
<1> QED
  BY <1>2, <1>3, <1>4, <1>5, <1>6, <1>7 DEF Next, Process, Exit

(* The order of the messages *)

\* A message behind all others.
LEMMA RisingAppend ==
    ASSUME NEW ch \in Seq(Messages), NEW m \in Messages, Rising(ch),
           \A k \in CallsOf(ch) : k < m.call
    PROVE  Rising(Append(ch, m)) /\ CallsOf(Append(ch, m)) = CallsOf(ch) \cup {m.call}
<1> DEFINE u == Append(ch, m)
<1>1. /\ Len(ch) \in Nat /\ DOMAIN ch = 1..Len(ch) /\ DOMAIN u = 1..(Len(ch) + 1)
      /\ \A i \in 1..Len(ch) : u[i] = ch[i]
      /\ u[Len(ch) + 1] = m
  OBVIOUS
<1> HIDE DEF u
<1>2. \A i \in DOMAIN u : i \in DOMAIN ch \/ i = Len(ch) + 1
  BY <1>1
<1>3. CallsOf(u) = CallsOf(ch) \cup {m.call}
  <2>1. DOMAIN ch \subseteq DOMAIN u /\ Len(ch) + 1 \in DOMAIN u
    BY <1>1
  <2> QED
    BY <1>1, <1>2, <2>1 DEF CallsOf
<1>4. Rising(u)
  <2> SUFFICES ASSUME NEW i \in DOMAIN u, NEW j \in DOMAIN u, i < j
               PROVE u[i].call < u[j].call
    BY DEF Rising
  <2>1. i \in DOMAIN ch
    BY <1>1
  <2>2. CASE j \in DOMAIN ch
    BY <1>1, <2>1, <2>2 DEF Rising
  <2>3. CASE j = Len(ch) + 1
    <3>1. ch[i].call \in CallsOf(ch)
      BY <2>1 DEF CallsOf
    <3> QED
      BY <1>1, <2>1, <2>3, <3>1
  <2> QED
    BY <1>2, <2>2, <2>3
<1> QED
  BY <1>3, <1>4 DEF u

\* Without the first message.
LEMMA RisingTail ==
    ASSUME NEW ch \in Seq(Messages), ch # <<>>, Rising(ch)
    PROVE  /\ Rising(Tail(ch)) /\ CallsOf(Tail(ch)) = CallsOf(ch) \ {Head(ch).call}
           /\ Head(ch) \in Messages /\ Tail(ch) \in Seq(Messages)
           /\ Head(ch).call \in CallsOf(ch) /\ \A k \in CallsOf(ch) : Head(ch).call =< k
<1> DEFINE t == Tail(ch)
<1>0. Head(ch) \in Messages /\ t \in Seq(Messages) /\ \A i \in DOMAIN ch : ch[i] \in Messages
  OBVIOUS
<1>1. /\ Len(ch) \in Nat /\ DOMAIN ch = 1..Len(ch) /\ 1 \in DOMAIN ch
      /\ DOMAIN t = 1..(Len(ch) - 1) /\ Head(ch) = ch[1]
      /\ \A i \in DOMAIN t : t[i] = ch[i + 1] /\ i + 1 \in DOMAIN ch /\ 1 < i + 1
  OBVIOUS
<1> HIDE DEF t
<1>2. \A i \in DOMAIN ch : i = 1 \/ (1 < i /\ i - 1 \in DOMAIN t /\ ch[i] = t[i - 1])
  <2>1. \A i \in DOMAIN ch : i = 1 \/ (1 < i /\ i - 1 \in DOMAIN t /\ (i - 1) + 1 = i)
    BY <1>1
  <2> QED
    BY <1>1, <2>1
<1>3. \A i \in DOMAIN ch : ch[i].call \in Nat
  BY <1>0 DEF Messages
<1>4. \A i \in DOMAIN ch : i # 1 => ch[1].call < ch[i].call
  BY <1>1, <1>2 DEF Rising
<1>5. Rising(t)
  <2>1. \A i, j \in DOMAIN t : i < j => i + 1 < j + 1
    BY <1>1
  <2> QED
    BY <1>1, <2>1 DEF Rising
<1>6. CallsOf(t) = CallsOf(ch) \ {Head(ch).call}
  <2>1. ASSUME NEW i \in DOMAIN t
        PROVE  t[i].call \in CallsOf(ch) /\ t[i].call # ch[1].call
    <3>1. i + 1 \in DOMAIN ch /\ i + 1 # 1 /\ t[i] = ch[i + 1]
      BY <1>1
    <3>2. ch[1].call < ch[i + 1].call /\ ch[1].call \in Nat /\ ch[i + 1].call \in Nat
      BY <1>1, <1>3, <1>4, <3>1
    <3> QED
      BY <3>1, <3>2 DEF CallsOf
  <2>2. ASSUME NEW i \in DOMAIN ch, ch[i].call # ch[1].call PROVE ch[i].call \in CallsOf(t)
    BY <1>2, <2>2 DEF CallsOf
  <2> QED
    BY <1>1, <2>1, <2>2 DEF CallsOf
<1>7. ch[1].call \in CallsOf(ch) /\ \A k \in CallsOf(ch) : ch[1].call =< k
  <2>1. \A i \in DOMAIN ch : ch[1].call =< ch[i].call
    BY <1>1, <1>3, <1>4
  <2> QED
    BY <1>1, <2>1 DEF CallsOf
<1> QED
  BY <1>0, <1>1, <1>5, <1>6, <1>7 DEF t

\* The message that a process receives is of its current call.
LEMMA HeadCall ==
    ASSUME Typed, NEW q \in Procs, Going(q), RecvStep(q), Wire(Peer(q), q)
    PROVE  /\ Peer(q) \in Procs /\ chan[Peer(q)][q] # <<>>
           /\ Head(chan[Peer(q)][q]).call = at[q]
<1> DEFINE b == Peer(q)
           ch == chan[b][q]
           h == Head(ch).call
           k == at[q]
<1>1. rest[q] # <<>> /\ ch # <<>>
  BY DEF RecvStep, Todo
<1>2. b \in Procs /\ k \in 1..Len(program)
  BY <1>1, Doing
<1>3. ~Got(b, q, k) /\ Linked(b, q, k)
  BY RecvMoves
<1> HIDE DEF b
<1>4. ch \in Seq(Messages)
  BY <1>2 DEF Typed
<1>5. /\ Rising(ch)
      /\ CallsOf(ch) = {j \in 1..Len(program) : Sent(b, q, j) /\ ~Got(b, q, j)}
  BY DEF Wire, b
<1> HIDE DEF ch
<1>6. h \in CallsOf(ch) /\ \A j \in CallsOf(ch) : h =< j
  BY <1>1, <1>4, <1>5, RisingTail
<1> HIDE DEF h
<1>7. h \in 1..Len(program) /\ Sent(b, q, h) /\ ~Got(b, q, h)
  BY <1>5, <1>6
<1>8. Linked(b, q, h) /\ h \in 1..at[b] /\ at[b] \in Nat
  BY <1>2, <1>7 DEF Sent, Typed
<1>9. ~(h < k)
  <2> SUFFICES ASSUME h < k PROVE FALSE
    OBVIOUS
  <2>1. h \in 1..k /\ h # k
    BY <1>2, <1>7
  <2> QED
    BY <1>7, <1>8, <2>1 DEF Got
<1>10. ~(k < h)
  <2> SUFFICES ASSUME k < h PROVE FALSE
    OBVIOUS
  <2>1. k \in 1..at[b] /\ k # at[b]
    BY <1>2, <1>8
  <2>2. Sent(b, q, k)
    BY <1>3, <2>1 DEF Sent
  <2>3. k \in CallsOf(ch)
    BY <1>2, <1>3, <1>5, <2>2
  <2>4. h =< k
    BY <1>6, <2>3
  <2> QED
    BY <1>2, <1>7, <2>4
<1>11. h = k
  BY <1>2, <1>7, <1>9, <1>10
<1> QED
  BY <1>1, <1>2, <1>11 DEF b, ch, h

(* The connections *)

\* Where nothing is sent or received, everything stays.
LEMMA WireSame ==
    ASSUME NEW u \in Procs, NEW v \in Procs, Wire(u, v), program' = program,
           chan'[u][v] = chan[u][v], NEW K, 1..Len(program) \subseteq K,
           \A k \in K : (Sent(u, v, k)' <=> Sent(u, v, k)) /\ (Got(u, v, k)' <=> Got(u, v, k))
    PROVE  Wire(u, v)'
<1>1. \A k \in 1..Len(program) :
          (Sent(u, v, k)' <=> Sent(u, v, k)) /\ (Got(u, v, k)' <=> Got(u, v, k))
  OBVIOUS
<1>2. {k \in 1..Len(program) : Sent(u, v, k)' /\ ~Got(u, v, k)'}
      = {k \in 1..Len(program) : Sent(u, v, k) /\ ~Got(u, v, k)}
  BY <1>1
<1> QED
  BY <1>1, <1>2 DEF Wire

\* Every step keeps what the wires carry.
LEMMA WiresKept ==
    ASSUME Typed, \A p \in Procs : Going(p), \A p, q \in Procs : Wire(p, q), [Next]_vars,
           NEW u \in Procs, NEW v \in Procs
    PROVE  Wire(u, v)'
<1>0. 1..Len(program) \subseteq Nat
  OBVIOUS
<1>1. ASSUME NEW p \in Procs, SendStep(p) PROVE Wire(u, v)'
  <2>0. PICK b, k : b = Peer(p) /\ k = at[p]
    OBVIOUS
  <2> DEFINE m == [call |-> k, data |-> Data(p, Step(p).buf, Step(p).block)]
  <2>1. rest[p] # <<>> /\ program' = program
        /\ chan' = [chan EXCEPT ![p][b] = Append(@, m)]
    BY <1>1, <2>0 DEF SendStep, Todo, env
  <2>2. /\ b \in Procs /\ k \in 1..Len(program) /\ Step(p).block \in Procs
        /\ Step(p) \in StepsOf(Size(Call(p)))
    BY <2>0, <2>1, Doing
  <2>3. /\ ~Sent(p, b, k) /\ Linked(p, b, k)
        /\ \A x, y \in Procs : \A j \in Nat :
              /\ Sent(x, y, j)' <=> Sent(x, y, j) \/ (x = p /\ y = b /\ j = k)
              /\ Got(x, y, j)' <=> Got(x, y, j)
    BY <1>1, <2>0, SendMoves
  <2>4. m \in Messages
    <3>1. Step(p).buf \in {"in", "out"}
      BY <2>2 DEF StepsOf
    <3>2. Data(p, Step(p).buf, Step(p).block) \in Blocks
      BY <2>1, <2>2, <3>1, DataType
    <3> QED
      BY <2>2, <3>2 DEF Messages
  <2> HIDE DEF m
  <2>5. /\ chan[p][b] \in Seq(Messages) /\ chan'[p][b] = Append(chan[p][b], m)
        /\ (u # p \/ v # b) => chan'[u][v] = chan[u][v]
    BY <2>1, <2>2 DEF Typed
  <2>6. CASE u # p \/ v # b
    <3>1. \A j \in Nat : (Sent(u, v, j)' <=> Sent(u, v, j)) /\ (Got(u, v, j)' <=> Got(u, v, j))
      BY <2>3, <2>6
    <3> QED
      BY <1>0, <2>1, <2>5, <2>6, <3>1, WireSame
  <2>7. CASE u = p /\ v = b
    <3> DEFINE ch == chan[p][b]
    <3>1. /\ Rising(ch)
          /\ CallsOf(ch) = {j \in 1..Len(program) : Sent(p, b, j) /\ ~Got(p, b, j)}
          /\ \A j \in 1..Len(program) : Got(p, b, j) => Sent(p, b, j)
      BY <2>2 DEF Wire
    <3>2. ASSUME NEW j \in CallsOf(ch) PROVE j < m.call
      <4>1. Sent(p, b, j) /\ j \in Nat
        BY <3>1
      <4>2. j \in 1..at[p] /\ j # k
        BY <2>0, <2>3, <4>1 DEF Sent
      <4> QED
        BY <2>0, <2>2, <4>2 DEF m
    <3>3. Rising(Append(ch, m)) /\ CallsOf(Append(ch, m)) = CallsOf(ch) \cup {m.call}
      BY <2>4, <2>5, <3>1, <3>2, RisingAppend
    <3>4. m.call = k
      BY DEF m
    <3>5. ~Got(p, b, k)
      BY <2>2, <2>3, <3>1
    <3>6. ASSUME NEW j \in 1..Len(program)
          PROVE  (Sent(p, b, j)' <=> Sent(p, b, j) \/ j = k) /\ (Got(p, b, j)' <=> Got(p, b, j))
      <4>1. j \in Nat
        OBVIOUS
      <4> QED
        BY <2>2, <2>3, <4>1
    <3>7. CallsOf(ch) \cup {k} = {j \in 1..Len(program) : Sent(p, b, j)' /\ ~Got(p, b, j)'}
      BY <2>2, <3>1, <3>5, <3>6
    <3>8. \A j \in 1..Len(program) : Got(p, b, j)' => Sent(p, b, j)'
      BY <3>1, <3>6
    <3> HIDE DEF ch
    <3>9. Rising(chan'[p][b]) /\ CallsOf(chan'[p][b]) = CallsOf(ch) \cup {k}
      BY <2>5, <3>3, <3>4 DEF ch
    <3>10. Wire(p, b)'
      BY <2>1, <3>7, <3>8, <3>9 DEF Wire
    <3> QED
      BY <2>7, <3>10
  <2> QED
    BY <2>6, <2>7
<1>2. ASSUME NEW q \in Procs, RecvStep(q) PROVE Wire(u, v)'
  <2>0. PICK b, k : b = Peer(q) /\ k = at[q]
    OBVIOUS
  <2>1. rest[q] # <<>> /\ program' = program
        /\ chan' = [chan EXCEPT ![b][q] = Tail(@)]
    BY <1>2, <2>0 DEF RecvStep, Todo, env
  <2>2. b \in Procs /\ k \in 1..Len(program)
    BY <2>0, <2>1, Doing
  <2>3. /\ ~Got(b, q, k) /\ Linked(b, q, k)
        /\ \A x, y \in Procs : \A j \in Nat :
              /\ Got(x, y, j)' <=> Got(x, y, j) \/ (y = q /\ x = b /\ j = k)
              /\ Sent(x, y, j)' <=> Sent(x, y, j)
    BY <1>2, <2>0, RecvMoves
  <2>4. chan[b][q] # <<>> /\ Head(chan[b][q]).call = k
    BY <1>2, <2>0, <2>2, HeadCall
  <2>5. /\ chan[b][q] \in Seq(Messages) /\ chan'[b][q] = Tail(chan[b][q])
        /\ (u # b \/ v # q) => chan'[u][v] = chan[u][v]
    BY <2>1, <2>2 DEF Typed
  <2>6. CASE u # b \/ v # q
    <3>1. \A j \in Nat : (Sent(u, v, j)' <=> Sent(u, v, j)) /\ (Got(u, v, j)' <=> Got(u, v, j))
      BY <2>3, <2>6
    <3> QED
      BY <1>0, <2>1, <2>5, <2>6, <3>1, WireSame
  <2>7. CASE u = b /\ v = q
    <3> DEFINE ch == chan[b][q]
    <3>1. /\ Rising(ch)
          /\ CallsOf(ch) = {j \in 1..Len(program) : Sent(b, q, j) /\ ~Got(b, q, j)}
          /\ \A j \in 1..Len(program) : Got(b, q, j) => Sent(b, q, j)
      BY <2>2 DEF Wire
    <3> HIDE DEF ch
    <3>2. /\ Rising(Tail(ch)) /\ CallsOf(Tail(ch)) = CallsOf(ch) \ {k} /\ k \in CallsOf(ch)
      BY <2>4, <2>5, <3>1, RisingTail DEF ch
    <3>3. Sent(b, q, k)
      BY <3>1, <3>2
    <3>4. ASSUME NEW j \in 1..Len(program)
          PROVE  (Sent(b, q, j)' <=> Sent(b, q, j)) /\ (Got(b, q, j)' <=> Got(b, q, j) \/ j = k)
      <4>1. j \in Nat
        OBVIOUS
      <4> QED
        BY <2>2, <2>3, <4>1
    <3>5. CallsOf(ch) \ {k} = {j \in 1..Len(program) : Sent(b, q, j)' /\ ~Got(b, q, j)'}
      BY <2>2, <3>1, <3>4
    <3>6. \A j \in 1..Len(program) : Got(b, q, j)' => Sent(b, q, j)'
      BY <3>1, <3>3, <3>4
    <3>7. Rising(chan'[b][q]) /\ CallsOf(chan'[b][q]) = CallsOf(ch) \ {k}
      BY <2>5, <3>2 DEF ch
    <3>8. Wire(b, q)'
      BY <2>1, <3>5, <3>6, <3>7 DEF Wire
    <3> QED
      BY <2>7, <3>8
  <2> QED
    BY <2>6, <2>7
<1>3. ASSUME NEW p \in Procs, Begin(p) \/ CopyStep(p) \/ Return(p) PROVE Wire(u, v)'
  <2>1. program' = program /\ chan'[u][v] = chan[u][v]
    BY <1>3 DEF Begin, CopyStep, Return, env
  <2>2. \A j \in Nat : (Sent(u, v, j)' <=> Sent(u, v, j)) /\ (Got(u, v, j)' <=> Got(u, v, j))
    BY <1>3, OtherMoves
  <2> QED
    BY <1>0, <2>1, <2>2, WireSame
<1>4. ASSUME UNCHANGED vars PROVE Wire(u, v)'
  <2>1. Wire(u, v)
    OBVIOUS
  <2> QED
    BY <1>4, <2>1 DEF Wire, Sent, Got, Linked, vars, env
<1> QED
  BY <1>1, <1>2, <1>3, <1>4 DEF Next, Process, Exit

(* The types *)

\* Every step keeps the types.
LEMMA TypedKept ==
    ASSUME Typed, \A p \in Procs : Going(p), [Next]_vars
    PROVE  Typed'
<1>0. /\ program \in Programs /\ capacity \in Capacities /\ at \in [Procs -> Nat]
      /\ rest = [p \in Procs |-> rest[p]] /\ out \in [Procs -> Buffers]
      /\ chan \in [Procs -> [Procs -> Seq(Messages)]] /\ results \in [Procs -> Seq(Buffers)]
      /\ \A p \in Procs : at[p] =< Len(program) /\ Len(results[p]) \in {at[p], at[p] - 1}
      /\ \A p, q \in Procs : Len(chan[p][q]) =< capacity
      /\ Len(program) \in Nat /\ capacity \in Nat
  BY CallsAreCalls, CapacitiesAssumption DEF Typed
<1>1. Blank \in Buffers
  <2>1. <<>> \in Blocks
    BY DEF Blocks
  <2> QED
    BY <2>1 DEF Blank, Buffers
<1>2. ASSUME NEW p \in Procs, Begin(p) PROVE Typed'
  <2>1. /\ ~InCall(p) /\ at[p] < Len(program) /\ at' = [at EXCEPT ![p] = @ + 1]
        /\ out' = [out EXCEPT ![p] = Blank] /\ UNCHANGED <<program, capacity, chan, results>>
    BY <1>2 DEF Begin, env
  <2>2. rest' = [q \in Procs |-> rest'[q]]
    <3> DEFINE s == LET call == program[at[p] + 1] IN
                      IF p \in Members(call) THEN Script(call, p) ELSE <<>>
    <3>1. rest' = [rest EXCEPT ![p] = s]
      BY <1>2 DEF Begin
    <3> HIDE DEF s
    <3> QED
      BY <1>0, <3>1
  <2>3. at' \in [Procs -> Nat] /\ out' \in [Procs -> Buffers]
    BY <1>0, <1>1, <2>1
  <2>4. Len(results[p]) = at[p]
    BY <1>0, <2>1 DEF InCall
  <2>5. \A q \in Procs : at'[q] =< Len(program) /\ Len(results[q]) \in {at'[q], at'[q] - 1}
    BY <1>0, <2>1, <2>4
  <2> QED
    BY <1>0, <2>1, <2>2, <2>3, <2>5 DEF Typed
<1>3. ASSUME NEW p \in Procs, SendStep(p) PROVE Typed'
  <2> DEFINE m == [call |-> at[p], data |-> Data(p, Step(p).buf, Step(p).block)]
  <2>0. PICK b : b = Peer(p)
    OBVIOUS
  <2>1. /\ rest[p] # <<>> /\ Len(chan[p][b]) < capacity /\ Done(p)
        /\ chan' = [chan EXCEPT ![p][b] = Append(@, m)]
        /\ UNCHANGED <<program, capacity, at, out, results>>
    BY <1>3, <2>0 DEF SendStep, Todo, env
  <2>2. b \in Procs /\ Step(p).block \in Procs /\ Step(p) \in StepsOf(Size(Call(p)))
    BY <2>0, <2>1, Doing
  <2>3. Step(p).buf \in {"in", "out"}
    BY <2>2 DEF StepsOf
  <2>4. m \in Messages
    <3>1. Data(p, Step(p).buf, Step(p).block) \in Blocks
      BY <2>1, <2>2, <2>3, DataType
    <3> QED
      BY <1>0, <3>1 DEF Messages
  <2> HIDE DEF m
  <2>5. rest' = [q \in Procs |-> rest'[q]]
    BY <2>1, DoneRest
  <2>6. chan[p][b] \in Seq(Messages) /\ Append(chan[p][b], m) \in Seq(Messages)
        /\ Len(Append(chan[p][b], m)) = Len(chan[p][b]) + 1 /\ Len(chan[p][b]) \in Nat
    BY <1>0, <2>2, <2>4
  <2>7. chan' \in [Procs -> [Procs -> Seq(Messages)]]
    BY <1>0, <2>1, <2>2, <2>6
  <2>8. ASSUME NEW x \in Procs, NEW y \in Procs PROVE Len(chan'[x][y]) =< capacity
    <3>1. CASE x = p /\ y = b
      <4>1. chan'[x][y] = Append(chan[p][b], m)
        BY <1>0, <2>1, <2>2, <3>1
      <4> QED
        BY <1>0, <2>1, <2>6, <4>1
    <3>2. CASE x # p \/ y # b
      <4>1. chan'[x][y] = chan[x][y]
        BY <1>0, <2>1, <2>2, <3>2
      <4> QED
        BY <1>0, <4>1
    <3> QED
      BY <3>1, <3>2
  <2> QED
    BY <1>0, <2>1, <2>5, <2>7, <2>8 DEF Typed
<1>4. ASSUME NEW p \in Procs, RecvStep(p) PROVE Typed'
  <2>0. PICK b : b = Peer(p)
    OBVIOUS
  <2> DEFINE ch == chan[b][p]
             i == Step(p).block
             new == IF Step(p).act = "combine" THEN out[p][i] \o Head(ch).data
                                               ELSE Head(ch).data
  <2>1. /\ rest[p] # <<>> /\ Done(p) /\ ch # <<>>
        /\ chan' = [chan EXCEPT ![b][p] = Tail(@)]
        /\ out' = [out EXCEPT ![p][i] = IF Step(p).act = "combine" THEN @ \o Head(ch).data
                                                                   ELSE Head(ch).data]
        /\ UNCHANGED <<program, capacity, at, results>>
    BY <1>4, <2>0 DEF RecvStep, Todo, env
  <2>2. b \in Procs /\ i \in Procs
    BY <2>0, <2>1, Doing
  <2> HIDE DEF i
  <2>3. /\ ch \in Seq(Messages) /\ Tail(ch) \in Seq(Messages) /\ Head(ch) \in Messages
        /\ Len(Tail(ch)) = Len(ch) - 1 /\ Len(ch) \in Nat
    <3>1. ch \in Seq(Messages)
      BY <1>0, <2>2
    <3> HIDE DEF ch
    <3> QED
      BY <2>1, <3>1
  <2>4. Head(ch).data \in Blocks /\ out[p][i] \in Blocks
    BY <1>0, <2>2, <2>3 DEF Messages, Buffers
  <2>5. new \in Blocks
    BY <2>4 DEF Blocks
  <2>6. out' = [out EXCEPT ![p] = [@ EXCEPT ![i] = new]]
    BY <1>0, <2>1, <2>2
  <2> HIDE DEF new
  <2>7. out' \in [Procs -> Buffers]
    BY <1>0, <2>2, <2>5, <2>6 DEF Buffers
  <2>8. rest' = [q \in Procs |-> rest'[q]]
    BY <2>1, DoneRest
  <2>9. chan' \in [Procs -> [Procs -> Seq(Messages)]]
    BY <1>0, <2>1, <2>2, <2>3
  <2>10. ASSUME NEW x \in Procs, NEW y \in Procs PROVE Len(chan'[x][y]) =< capacity
    <3>1. CASE x = b /\ y = p
      <4>1. chan'[x][y] = Tail(ch)
        BY <1>0, <2>1, <2>2, <3>1
      <4>2. Len(ch) =< capacity /\ capacity \in Nat
        BY <1>0, <2>2
      <4>3. Len(ch) - 1 =< capacity
        BY <2>3, <4>2
      <4>4. Len(chan'[x][y]) = Len(ch) - 1
        BY <2>3, <4>1
      <4> QED
        BY <4>3, <4>4
    <3>2. CASE x # b \/ y # p
      <4>1. chan'[x][y] = chan[x][y]
        BY <1>0, <2>1, <2>2, <3>2
      <4> QED
        BY <1>0, <4>1
    <3> QED
      BY <3>1, <3>2
  <2> QED
    BY <1>0, <2>1, <2>7, <2>8, <2>9, <2>10 DEF Typed
<1>5. ASSUME NEW p \in Procs, CopyStep(p) PROVE Typed'
  <2> DEFINE i == Step(p).block
             new == Data(p, "in", Step(p).peer)
  <2>1. /\ rest[p] # <<>> /\ Done(p) /\ out' = [out EXCEPT ![p][i] = new]
        /\ UNCHANGED <<program, capacity, at, chan, results>>
    BY <1>5 DEF CopyStep, Todo, env
  <2>2. i \in Procs /\ Step(p).peer \in Procs
    BY <2>1, Doing, RanksProcs
  <2>3. new \in Blocks
    BY <2>1, <2>2, DataType
  <2> HIDE DEF i, new
  <2>4. out' \in [Procs -> Buffers]
    BY <1>0, <2>1, <2>2, <2>3 DEF Buffers
  <2>5. rest' = [q \in Procs |-> rest'[q]]
    BY <2>1, DoneRest
  <2> QED
    BY <1>0, <2>1, <2>4, <2>5 DEF Typed
<1>6. ASSUME NEW p \in Procs, Return(p) PROVE Typed'
  <2>1. /\ InCall(p) /\ results' = [results EXCEPT ![p] = Append(@, out[p])]
        /\ UNCHANGED <<program, capacity, at, rest, out, chan>>
    BY <1>6 DEF Return, env
  <2>2. results[p] \in Seq(Buffers) /\ out[p] \in Buffers
    BY <1>0
  <2>3. /\ Append(results[p], out[p]) \in Seq(Buffers)
        /\ Len(Append(results[p], out[p])) = Len(results[p]) + 1 /\ Len(results[p]) \in Nat
    BY <2>2
  <2>4. results' \in [Procs -> Seq(Buffers)]
    BY <1>0, <2>1, <2>3
  <2>5. Len(results[p]) = at[p] - 1
    BY <1>0, <2>1, <2>3 DEF InCall
  <2>6. ASSUME NEW q \in Procs PROVE Len(results'[q]) \in {at[q], at[q] - 1}
    <3>1. CASE q = p
      <4>1. results'[q] = Append(results[p], out[p])
        BY <1>0, <2>1, <3>1
      <4>2. at[p] \in Nat
        BY <1>0
      <4> QED
        BY <2>3, <2>5, <3>1, <4>1, <4>2
    <3>2. CASE q # p
      BY <1>0, <2>1, <3>2
    <3> QED
      BY <3>1, <3>2
  <2> QED
    BY <1>0, <2>1, <2>4, <2>6 DEF Typed
<1>7. ASSUME UNCHANGED vars PROVE Typed'
  BY <1>0, <1>7 DEF Typed, vars, env
<1> QED
  BY <1>2, <1>3, <1>4, <1>5, <1>6, <1>7 DEF Next, Process, Exit

\* The invariant holds initially: nobody has begun a call.
LEMMA InitIInv == Init => IInv
<1> SUFFICES ASSUME Init PROVE IInv
  OBVIOUS
<1>1. /\ program \in Programs /\ capacity \in Capacities
      /\ at = [p \in Procs |-> 0] /\ rest = [p \in Procs |-> <<>>]
      /\ out = [p \in Procs |-> Blank]
      /\ chan = [p \in Procs |-> [q \in Procs |-> <<>>]]
      /\ results = [p \in Procs |-> <<>>]
  BY DEF Init
<1>2. Len(program) \in Nat /\ capacity \in Nat
  BY <1>1, CallsAreCalls, CapacitiesAssumption
<1>3. Blank \in Buffers
  <2>1. <<>> \in Blocks
    BY DEF Blocks
  <2> QED
    BY <2>1 DEF Blank, Buffers
<1>4. Typed
  <2>1. <<>> \in Seq(Messages) /\ <<>> \in Seq(Buffers)
    BY Nothing
  <2>2. /\ at \in [Procs -> Nat] /\ rest = [p \in Procs |-> rest[p]]
        /\ out \in [Procs -> Buffers] /\ results \in [Procs -> Seq(Buffers)]
    BY <1>1, <1>3, <2>1
  <2>3. chan \in [Procs -> [Procs -> Seq(Messages)]]
    BY <1>1, <2>1
  <2>4. Len(<<>>) = 0
    OBVIOUS
  <2>5. \A p \in Procs : at[p] =< Len(program) /\ Len(results[p]) \in {at[p], at[p] - 1}
    BY <1>1, <1>2, <2>4
  <2>6. \A p, q \in Procs : Len(chan[p][q]) =< capacity
    BY <1>1, <1>2, <2>4
  <2> QED
    BY <1>1, <2>2, <2>3, <2>5, <2>6 DEF Typed
<1>5. \A p \in Procs : Going(p)
  BY <1>1 DEF Going
<1>6. ASSUME NEW p \in Procs, NEW q \in Procs PROVE Wire(p, q)
  <2>1. chan[p][q] = <<>> /\ at[p] = 0 /\ at[q] = 0
    BY <1>1
  <2>2. DOMAIN <<>> = {}
    OBVIOUS
  <2>3. Rising(<<>>) /\ CallsOf(<<>>) = {}
    BY <2>2 DEF Rising, CallsOf
  <2>4. 1..0 = {}
    OBVIOUS
  <2>5. \A k : ~Sent(p, q, k) /\ ~Got(p, q, k)
    BY <2>1, <2>4 DEF Sent, Got
  <2> QED
    BY <2>1, <2>3, <2>5 DEF Wire
<1> QED
  BY <1>4, <1>5, <1>6 DEF IInv

\* Every step keeps the invariant.
LEMMA NextIInv == IInv /\ [Next]_vars => IInv'
<1> SUFFICES ASSUME IInv, [Next]_vars PROVE IInv'
  OBVIOUS
<1>1. Typed /\ (\A p \in Procs : Going(p)) /\ (\A p, q \in Procs : Wire(p, q))
  BY DEF IInv
<1>2. Typed'
  BY <1>1, TypedKept
<1>3. \A p \in Procs : Going(p)'
  BY <1>1, GoingKept
<1>4. \A p, q \in Procs : Wire(p, q)'
  BY <1>1, WiresKept
<1> QED
  BY <1>2, <1>3, <1>4 DEF IInv

\* The invariant holds in every state of the system.
LEMMA Invariant == Spec => []IInv
  BY InitIInv, NextIInv, PTL DEF Spec

\* It implies the type invariant.
LEMMA IInvTypeOK == IInv => TypeOK
<1> SUFFICES ASSUME IInv PROVE TypeOK
  OBVIOUS
<1>1. Typed /\ \A p \in Procs : Going(p)
  BY DEF IInv
<1>2. at \in [Procs -> 0..Len(program)]
  BY <1>1, CallsAreCalls DEF Typed
<1>3. \A p \in Procs : DOMAIN out[p] = Procs
  BY <1>1 DEF Typed, Buffers
<1>4. ASSUME NEW p \in Procs, NEW i \in DOMAIN rest[p]
      PROVE  rest[p][i].peer \in Ranks(Call(p))
  <2>1. rest[p] # <<>>
    <3>1. DOMAIN <<>> = {}
      OBVIOUS
    <3> QED
      BY <3>1
  <2> DEFINE T == StepsOf(Size(Call(p)))
  <2>2. rest[p] \in Seq(T) /\ IsCall(Call(p))
    BY <1>1, <2>1, Doing DEF Going, PartOf
  <2> HIDE DEF T
  <2>3. rest[p][i] \in T
    BY <2>2
  <2> QED
    BY <2>2, <2>3, CallType DEF T, StepsOf
<1> QED
  BY <1>1, <1>2, <1>3, <1>4 DEF TypeOK, Typed

(***************************************************************************)
(* The types are kept: in particular every step of a script names a rank   *)
(* of its communicator (RDMA_GetOffsetRank never leaves it), every process *)
(* is at most one call ahead of its results and no connection holds more   *)
(* than its capacity.                                                      *)
(***************************************************************************)
THEOREM CallsTyped == Spec => []TypeOK
  BY Invariant, IInvTypeOK, PTL

\* A step that takes a message from a wire is a receive of that call.
LEMMA StepMatched ==
    ASSUME IInv, [Next]_vars, NEW p \in Procs, NEW q \in Procs,
           chan[q][p] # <<>>, chan'[q][p] = Tail(chan[q][p])
    PROVE  Head(chan[q][p]).call = at[p]
<1>1. Typed /\ (\A r \in Procs : Going(r)) /\ (\A r, s \in Procs : Wire(r, s))
  BY DEF IInv
<1>2. /\ chan[q][p] \in Seq(Messages) /\ Len(chan[q][p]) \in Nat
      /\ chan \in [Procs -> [Procs -> Seq(Messages)]]
  BY <1>1 DEF Typed
<1>3. Len(chan'[q][p]) = Len(chan[q][p]) - 1
  BY <1>2
<1>4. chan'[q][p] # chan[q][p]
  <2> SUFFICES ASSUME chan'[q][p] = chan[q][p] PROVE FALSE
    OBVIOUS
  <2>1. Len(chan[q][p]) = Len(chan[q][p]) - 1
    BY <1>3
  <2> QED
    BY <1>2, <2>1
<1>5. ASSUME NEW r \in Procs, SendStep(r) PROVE FALSE
  <2> DEFINE m == [call |-> at[r], data |-> Data(r, Step(r).buf, Step(r).block)]
  <2>1. chan' = [chan EXCEPT ![r][Peer(r)] = Append(@, m)]
    BY <1>5 DEF SendStep
  <2> HIDE DEF m
  <2>2. chan'[q][p] = chan[q][p] \/ chan'[q][p] = Append(chan[q][p], m)
    BY <1>2, <2>1
  <2>3. Len(Append(chan[q][p], m)) = Len(chan[q][p]) + 1
    BY <1>2
  <2> QED
    BY <1>2, <1>3, <1>4, <2>2, <2>3
<1>6. ASSUME NEW r \in Procs, RecvStep(r) PROVE Head(chan[q][p]).call = at[p]
  <2>1. chan' = [chan EXCEPT ![Peer(r)][r] = Tail(@)]
    BY <1>6 DEF RecvStep
  <2>2. r = p /\ Peer(r) = q
    BY <1>2, <1>4, <2>1
  <2>3. Wire(Peer(r), r)
    BY <1>1, <2>2
  <2> QED
    BY <1>1, <1>6, <2>2, <2>3, HeadCall
<1>7. ASSUME NEW r \in Procs, Begin(r) \/ CopyStep(r) \/ Return(r) PROVE FALSE
  BY <1>4, <1>7 DEF Begin, CopyStep, Return
<1>8. ASSUME UNCHANGED vars PROVE FALSE
  BY <1>4, <1>8 DEF vars
<1> QED
  BY <1>5, <1>6, <1>7, <1>8 DEF Next, Process, Exit

(***************************************************************************)
(* Messages carry no tag, and still a receive of a call only ever takes a  *)
(* message that was sent in the same call, however far ahead the sender    *)
(* is.                                                                     *)
(***************************************************************************)
THEOREM ReceivesMatched == Spec => CallsMatched
<1>1. IInv /\ [Next]_vars =>
        [\A p, q \in Procs :
            chan[q][p] # <<>> /\ chan'[q][p] = Tail(chan[q][p])
               => Head(chan[q][p]).call = at[p]]_vars
  BY StepMatched
<1> QED
  BY Invariant, <1>1, PTL DEF CallsMatched, Spec

\* A process that has returned from a call has received all its messages.
LEMMA ReturnedGot ==
    ASSUME IInv, NEW p \in Procs, NEW k \in 1..Len(program), k =< Len(results[p])
    PROVE  /\ k =< at[p]
           /\ k = at[p] => rest[p] = <<>>
           /\ \A u \in Procs : Linked(u, p, k) => Got(u, p, k)
<1>1. Typed /\ Going(p)
  BY DEF IInv
<1>2. at[p] \in Nat /\ Len(results[p]) \in {at[p], at[p] - 1}
  BY <1>1 DEF Typed
<1>3. k =< at[p] /\ k \in 1..at[p]
  BY <1>2
<1>4. ASSUME k = at[p] PROVE rest[p] = <<>>
  <2>1. ~InCall(p)
    BY <1>2, <1>4 DEF InCall
  <2> QED
    BY <1>1, <2>1, BetweenCalls
<1>5. k = at[p] => In(rest[p]) = {}
  BY <1>4, NoOutIn
<1> QED
  BY <1>3, <1>4, <1>5 DEF Got

\* A rank that serves the others tells them only when it has heard from all.
LEMMA ToldLast ==
    ASSUME IInv, NEW z \in Procs, NEW p \in Procs, NEW k \in 1..Len(program),
           program[k].kind \in ByZero \cup {"Reduce"},
           Rank(program[k], z) = Root(program[k]), Sent(z, p, k), at[z] = k
    PROVE  \A y \in Elems(rest[z]) : y.act = "send"
<1>1. Typed /\ Going(z)
  BY DEF IInv
<1>2. CASE rest[z] = <<>>
  BY <1>2, Nothing
<1>3. CASE rest[z] # <<>>
  <2>1. Call(z) = program[k]
    BY DEF Call
  <2>2. PartOf(program[k], Rank(program[k], z), rest[z])
    BY <1>1, <1>3, <2>1 DEF Going
  <2>3. Rank(program[k], p) \in Dests(program[k], Rank(program[k], z))
        /\ Rank(program[k], p) \notin Out(rest[z])
    BY DEF Sent, Linked
  <2>4. \A y \in Elems(rest[z]) :
            y.act # "send" => Out(rest[z]) = Dests(program[k], Rank(program[k], z))
    BY <2>2 DEF PartOf
  <2> QED
    BY <2>3, <2>4
<1> QED
  BY <1>2, <1>3

\* It implies that a barrier separates.
LEMMA IInvBarrier == IInv => BarrierSeparates
<1> SUFFICES ASSUME IInv, NEW k \in DOMAIN program, program[k].kind = "Barrier",
                    NEW p \in Members(program[k]), NEW q \in Members(program[k]),
                    Len(results[p]) >= k
             PROVE  at[q] >= k
  BY DEF BarrierSeparates
<1> DEFINE call == program[k]
<1>1. Typed /\ (\A r \in Procs : Going(r)) /\ (\A r, s \in Procs : Wire(r, s))
  BY DEF IInv
<1>2. k \in 1..Len(program) /\ IsCall(call) /\ Members(call) \subseteq Procs
  BY <1>1, CallsAreCalls DEF Typed
<1>3. p \in Procs /\ q \in Procs /\ at[q] \in Nat /\ at[p] \in Nat /\ Len(results[p]) \in Nat
  BY <1>1, <1>2 DEF Typed
<1>4. /\ call.kind \notin Everyone /\ call.kind \notin {"Bcast", "Scatter"}
      /\ call.kind \notin {"Gather", "Reduce"} /\ call.kind \in ByZero /\ Root(call) = 0
      /\ call.kind \in ByZero \cup {"Reduce"}
  BY DEF Everyone, ByZero, Root
<1>5. k =< at[p] /\ \A u \in Procs : Linked(u, p, k) => Got(u, p, k)
  <2>1. k =< Len(results[p])
    BY <1>2, <1>3
  <2> QED
    BY <1>2, <1>3, <2>1, ReturnedGot
<1> DEFINE z == RootRank(call, 0)
<1>6. z \in Members(call) /\ z \in Procs /\ Rank(call, z) = 0
  <2>1. 0 \in Ranks(call)
    BY <1>2, CallType
  <2> QED
    BY <1>2, <2>1, RankOf
<1> HIDE DEF z
<1>7. ASSUME NEW u \in Members(call), u # z PROVE Linked(u, z, k) /\ Linked(z, u, k)
  <2>1. Rank(call, u) \in Ranks(call) /\ Rank(call, u) # 0
    BY <1>2, <1>6, <1>7, RankOf, SameRank
  <2>2. Dests(call, Rank(call, u)) = {0}
    BY <1>4, <2>1 DEF Dests
  <2>3. Rank(call, u) \in Dests(call, 0)
    BY <1>2, <1>4, <2>1, CallType DEF Dests, Others
  <2> QED
    BY <1>6, <2>2, <2>3 DEF Linked
<1>8. ASSUME NEW u \in Procs, NEW v \in Procs, Got(u, v, k) PROVE k =< at[u] /\ Sent(u, v, k)
  <2>1. Sent(u, v, k)
    BY <1>1, <1>2, <1>8 DEF Wire
  <2> QED
    BY <2>1 DEF Sent
<1>9. ASSUME NEW u \in Members(call), u # z, Got(u, z, k) PROVE at[u] >= k
  BY <1>2, <1>6, <1>8, <1>9
<1>10. ASSUME q # p, q # z, p = z PROVE at[q] >= k
  BY <1>3, <1>5, <1>7, <1>9, <1>10
<1>11. ASSUME p # z PROVE at[z] >= k /\ (q # z => at[q] >= k)
  <2>1. Got(z, p, k)
    BY <1>5, <1>6, <1>7, <1>11
  <2>2. k =< at[z] /\ Sent(z, p, k)
    BY <1>3, <1>6, <1>8, <2>1
  <2>3. ASSUME q # z PROVE Got(q, z, k)
    <3>1. Linked(q, z, k)
      BY <1>7, <2>3
    <3>2. at[z] \in Nat /\ k \in 1..at[z]
      BY <1>1, <1>2, <1>6, <2>2 DEF Typed
    <3>3. k = at[z] => In(rest[z]) = {}
      <4> SUFFICES ASSUME k = at[z] PROVE In(rest[z]) = {}
        OBVIOUS
      <4>1. \A y \in Elems(rest[z]) : y.act = "send"
        BY <1>2, <1>3, <1>4, <1>6, <2>2, ToldLast
      <4> QED
        BY <4>1 DEF In, Receiving
    <3> QED
      BY <3>1, <3>2, <3>3 DEF Got
  <2>4. q # z => at[q] >= k
    BY <1>9, <2>3
  <2> QED
    BY <1>2, <1>6, <2>2, <2>4
<1>12. CASE q = p
  BY <1>2, <1>3, <1>5, <1>12
<1>13. CASE q # p
  BY <1>10, <1>11, <1>13
<1> QED
  BY <1>12, <1>13

(***************************************************************************)
(* When a process has returned from a barrier, all members of its          *)
(* communicator have entered it, although nobody but rank 0 hears from     *)
(* more than one of them.                                                  *)
(***************************************************************************)
THEOREM BarriersSeparate == Spec => []BarrierSeparates
  BY Invariant, IInvBarrier, PTL

-----------------------------------------------------------------------------
(* The data *)

\* What process p holds of call k: its receive buffer, and the steps still to do.
Buffer(p, k) == IF k =< Len(results[p]) THEN results[p][k] ELSE out[p]
Ahead(p, k) == IF k = at[p] THEN rest[p] ELSE <<>>

\* What p sends to q in call k.
Payload(p, q, k) ==
    IF SentBuf(program[k], Rank(program[k], p)) = "in"
      THEN Own(k, Rank(program[k], p), SentBlock(program[k], Rank(program[k], q)))
      ELSE Buffer(p, k)[0]

\* The messages on their way from p to q are the payloads of their calls.
Carried(p, q) ==
    \A i \in DOMAIN chan[p][q] : chan[p][q][i].data = Payload(p, q, chan[p][q][i].call)

\* The calls whose receive buffers are filled block by block.
Plain == Kinds \ {"Reduce", "Allreduce", "Barrier"}

\* The steps that write the receive buffer, and what one of them leaves there.
Writes(call, me) == {y \in ScriptSteps(call, me) : y.act # "send"}
Written(k, call, me, y) ==
    IF y.act = "copy" THEN Own(k, me, y.peer) ELSE Own(k, y.peer, SentBlock(call, me))

\* Steps s are left: a block is written, its step is left, or it stays empty.
Filled(k, call, me, s, b) ==
    /\ \A y \in Writes(call, me) : y \in Elems(s) \/ b[y.block] = Written(k, call, me, y)
    /\ \A i \in Procs : (\A y \in Writes(call, me) : y.block # i) => b[i] = <<>>

\* The root has copied its own block and appended each block it has received.
Reduced(k, call, me, s, block) ==
    IF CopyRec(0, 0) \in Elems(s)
      THEN In(s) = Others(Size(call), me)
      ELSE /\ Len(block) + Cardinality(In(s)) = Size(call)
           /\ \A r \in Ranks(call) \ In(s) : \E j \in DOMAIN block : block[j] = <<k, r, 0>>

\* Rank 0 of a call.
Zero(call) == RootRank(call, 0)

Holds(p, k) ==
    LET call == program[k]
        me == Rank(call, p)
    IN  /\ call.kind \in Plain => Filled(k, call, me, Ahead(p, k), Buffer(p, k))
        /\ call.kind \in {"Reduce", "Allreduce"} /\ me = Root(call)
             => Reduced(k, call, me, Ahead(p, k), Buffer(p, k)[0])
        /\ call.kind = "Allreduce" /\ me # 0 /\ Got(Zero(call), p, k)
             => Buffer(p, k)[0] = Buffer(Zero(call), k)[0]

DataInv ==
    /\ \A p, q \in Procs : Carried(p, q)
    /\ \A p \in Procs : \A k \in 1..at[p] : p \in Members(program[k]) => Holds(p, k)

\* Only the steps of p in call k change its buffer and what it has still to do.
LEMMA BufferKept ==
    ASSUME Typed, \A r \in Procs : Going(r), [Next]_vars, NEW p \in Procs, NEW k \in 1..at[p]
    PROVE  /\ program' = program /\ k \in 1..at'[p]
           /\ ~(k = at[p] /\ (RecvStep(p) \/ CopyStep(p))) => Buffer(p, k)' = Buffer(p, k)
           /\ ~(k = at[p] /\ (SendStep(p) \/ RecvStep(p) \/ CopyStep(p)))
                => Ahead(p, k)' = Ahead(p, k)
<1>1. /\ at \in [Procs -> Nat] /\ rest = [q \in Procs |-> rest[q]]
      /\ out \in [Procs -> Buffers] /\ results \in [Procs -> Seq(Buffers)]
      /\ at[p] \in Nat /\ k \in Nat /\ k =< at[p] /\ k >= 1
      /\ results[p] \in Seq(Buffers) /\ Len(results[p]) \in Nat
      /\ Len(results[p]) \in {at[p], at[p] - 1}
  BY DEF Typed
<1>2. ASSUME NEW r \in Procs, Begin(r)
      PROVE  /\ program' = program /\ k \in 1..at'[p]
             /\ Buffer(p, k)' = Buffer(p, k) /\ Ahead(p, k)' = Ahead(p, k)
  <2>1. /\ program' = program /\ results' = results /\ ~InCall(r)
        /\ at' = [at EXCEPT ![r] = @ + 1]
        /\ \A q \in Procs \ {r} : rest'[q] = rest[q] /\ out'[q] = out[q]
    BY <1>1, <1>2 DEF Begin, env
  <2>2. CASE r # p
    <3>1. at'[p] = at[p] /\ rest'[p] = rest[p] /\ out'[p] = out[p]
      BY <1>1, <2>1, <2>2
    <3> QED
      BY <1>1, <2>1, <3>1 DEF Buffer, Ahead
  <2>3. CASE r = p
    <3>1. at'[p] = at[p] + 1 /\ rest[p] = <<>> /\ k =< Len(results[p])
      BY <1>1, <2>1, <2>3, BetweenCalls DEF InCall
    <3>2. k \in 1..at'[p] /\ k # at'[p]
      BY <1>1, <3>1
    <3>3. Ahead(p, k) = <<>>
      BY <3>1 DEF Ahead
    <3>4. Ahead(p, k)' = <<>>
      BY <3>2 DEF Ahead
    <3>5. Buffer(p, k) = results[p][k] /\ Buffer(p, k)' = results'[p][k]
      BY <2>1, <3>1 DEF Buffer
    <3> QED
      BY <2>1, <3>2, <3>3, <3>4, <3>5
  <2> QED
    BY <2>2, <2>3
<1>3. ASSUME NEW r \in Procs, SendStep(r)
      PROVE  /\ program' = program /\ k \in 1..at'[p] /\ Buffer(p, k)' = Buffer(p, k)
             /\ r # p \/ k # at[p] => Ahead(p, k)' = Ahead(p, k)
  <2>1. program' = program /\ at' = at /\ out' = out /\ results' = results /\ Done(r)
    BY <1>3 DEF SendStep, env
  <2>2. \A q \in Procs \ {r} : rest'[q] = rest[q]
    BY <2>1, DoneRest
  <2> QED
    BY <2>1, <2>2 DEF Buffer, Ahead
<1>4. ASSUME NEW r \in Procs, RecvStep(r) \/ CopyStep(r)
      PROVE  /\ program' = program /\ k \in 1..at'[p]
             /\ r # p \/ k # at[p]
                  => Ahead(p, k)' = Ahead(p, k) /\ Buffer(p, k)' = Buffer(p, k)
  <2>1. /\ program' = program /\ at' = at /\ results' = results /\ Done(r)
        /\ \A q \in Procs \ {r} : out'[q] = out[q]
    BY <1>1, <1>4 DEF RecvStep, CopyStep, env
  <2>2. \A q \in Procs \ {r} : rest'[q] = rest[q]
    BY <2>1, DoneRest
  <2>3. k # at[p] => k =< Len(results[p])
    BY <1>1
  <2>4. k # at[p] => Buffer(p, k) = results[p][k] /\ Buffer(p, k)' = results'[p][k]
    BY <2>1, <2>3 DEF Buffer
  <2>5. r # p => Buffer(p, k)' = Buffer(p, k)
    BY <2>1 DEF Buffer
  <2>6. r # p \/ k # at[p] => Ahead(p, k)' = Ahead(p, k)
    BY <2>1, <2>2 DEF Ahead
  <2> QED
    BY <2>1, <2>4, <2>5, <2>6
<1>5. ASSUME NEW r \in Procs, Return(r)
      PROVE  /\ program' = program /\ k \in 1..at'[p]
             /\ Buffer(p, k)' = Buffer(p, k) /\ Ahead(p, k)' = Ahead(p, k)
  <2>1. /\ program' = program /\ at' = at /\ rest' = rest /\ out' = out /\ InCall(r)
        /\ results' = [results EXCEPT ![r] = Append(@, out[r])]
    BY <1>5 DEF Return, env
  <2>2. Ahead(p, k)' = Ahead(p, k)
    BY <2>1 DEF Ahead
  <2>3. CASE r # p
    <3>1. results'[p] = results[p]
      BY <1>1, <2>1, <2>3
    <3> QED
      BY <2>1, <2>2, <3>1 DEF Buffer
  <2>4. CASE r = p
    <3>1. Len(results[p]) = at[p] - 1
      BY <1>1, <2>1, <2>4 DEF InCall
    <3>2. results'[p] = Append(results[p], out[p])
      BY <1>1, <2>1, <2>4
    <3>3. Len(results'[p]) = at[p] /\ k =< Len(results'[p])
      BY <1>1, <3>1, <3>2
    <3>4. CASE k = at[p]
      <4>1. results'[p][k] = out[p]
        BY <1>1, <3>1, <3>2, <3>4
      <4>2. Buffer(p, k) = out[p]
        BY <1>1, <3>1, <3>4 DEF Buffer
      <4> QED
        BY <2>1, <2>2, <3>3, <4>1, <4>2 DEF Buffer
    <3>5. CASE k # at[p]
      <4>1. k =< Len(results[p])
        BY <1>1, <3>1, <3>5
      <4>2. results'[p][k] = results[p][k]
        BY <1>1, <3>2, <4>1
      <4> QED
        BY <2>1, <2>2, <3>3, <4>1, <4>2 DEF Buffer
    <3> QED
      BY <3>4, <3>5
  <2> QED
    BY <2>3, <2>4
<1>6. ASSUME UNCHANGED vars
      PROVE  /\ program' = program /\ k \in 1..at'[p]
             /\ Buffer(p, k)' = Buffer(p, k) /\ Ahead(p, k)' = Ahead(p, k)
  BY <1>6 DEF vars, env, Buffer, Ahead
<1>7. ASSUME NEW r \in Procs, Process(r)
      PROVE  /\ program' = program /\ k \in 1..at'[p]
             /\ ~(k = at[p] /\ (RecvStep(p) \/ CopyStep(p))) => Buffer(p, k)' = Buffer(p, k)
             /\ ~(k = at[p] /\ (SendStep(p) \/ RecvStep(p) \/ CopyStep(p)))
                  => Ahead(p, k)' = Ahead(p, k)
  <2>1. CASE Begin(r)
    BY <1>2, <2>1
  <2>2. CASE SendStep(r)
    BY <1>3, <2>2
  <2>3. CASE RecvStep(r) \/ CopyStep(r)
    BY <1>4, <2>3
  <2>4. CASE Return(r)
    BY <1>5, <2>4
  <2> QED
    BY <1>7, <2>1, <2>2, <2>3, <2>4 DEF Process
<1> QED
  BY <1>6, <1>7 DEF Next, Exit

\* In the middle of a call p holds its receive buffer and its remaining steps.
LEMMA Middle ==
    ASSUME Typed, NEW p \in Procs, Going(p), rest[p] # <<>>
    PROVE  Ahead(p, at[p]) = rest[p] /\ Buffer(p, at[p]) = out[p]
<1>1. InCall(p) /\ at[p] \in Nat /\ Len(results[p]) \in Nat
  BY Doing DEF Typed
<1>2. ~(at[p] =< Len(results[p]))
  BY <1>1 DEF InCall
<1> QED
  BY <1>2 DEF Ahead, Buffer

\* Once rank 0 has told the others its block, the block stays.
LEMMA ToldStays ==
    ASSUME IInv, [Next]_vars, NEW z \in Procs, NEW p \in Procs, NEW k \in 1..Len(program),
           program[k].kind \in ByZero, Rank(program[k], z) = 0, Sent(z, p, k)
    PROVE  Buffer(z, k)' = Buffer(z, k)
<1>1. Typed /\ \A r \in Procs : Going(r)
  BY DEF IInv
<1>2. k \in 1..at[z]
  BY DEF Sent
<1>3. ASSUME k = at[z], RecvStep(z) \/ CopyStep(z) PROVE FALSE
  <2>1. rest[z] # <<>> /\ Step(z).act \in {"recv", "combine", "copy"}
    BY <1>3 DEF RecvStep, CopyStep, Todo
  <2>2. rest[z] \in Seq(StepsOf(Size(Call(z))))
    BY <1>1, <2>1 DEF Going, PartOf
  <2> DEFINE T == StepsOf(Size(Call(z)))
  <2> HIDE DEF T
  <2>3. Step(z) \in Elems(rest[z])
    <3>1. rest[z] \in Seq(T)
      BY <2>2 DEF T
    <3> QED
      BY <2>1, <3>1, FirstStep DEF Step
  <2>4. Rank(program[k], z) = Root(program[k]) /\ program[k].kind \in ByZero \cup {"Reduce"}
    BY DEF Root
  <2>5. Step(z).act = "send"
    BY <1>3, <2>3, <2>4, ToldLast
  <2> QED
    BY <2>1, <2>5
<1> QED
  BY <1>1, <1>2, <1>3, BufferKept

\* What was sent stays as it was sent.
LEMMA PayloadKept ==
    ASSUME IInv, [Next]_vars, NEW p \in Procs, NEW q \in Procs, NEW k \in 1..Len(program),
           Sent(p, q, k)
    PROVE  Payload(p, q, k)' = Payload(p, q, k)
<1> DEFINE call == program[k]
<1>1. program' = program
  <2>1. Typed /\ (\A r \in Procs : Going(r)) /\ k \in 1..at[p]
    BY DEF IInv, Sent
  <2> QED
    BY <2>1, BufferKept
<1>2. CASE SentBuf(call, Rank(call, p)) = "in"
  BY <1>1, <1>2 DEF Payload
<1>3. CASE SentBuf(call, Rank(call, p)) # "in"
  <2>1. call.kind \in ByZero /\ Rank(call, p) = 0
    BY <1>3 DEF SentBuf
  <2>2. Buffer(p, k)' = Buffer(p, k)
    BY <2>1, ToldStays
  <2>3. Payload(p, q, k) = Buffer(p, k)[0]
    BY <1>3 DEF Payload
  <2>4. Payload(p, q, k)' = Buffer(p, k)'[0]
    BY <1>1, <1>3 DEF Payload
  <2> QED
    BY <2>2, <2>3, <2>4
<1> QED
  BY <1>2, <1>3

\* What a send puts on the wire.
LEMMA SendsPayload ==
    ASSUME Typed, NEW p \in Procs, Going(p), SendStep(p)
    PROVE  Data(p, Step(p).buf, Step(p).block) = Payload(p, Peer(p), at[p])
<1> DEFINE call == Call(p)
           me == Rank(call, p)
<1>1. rest[p] # <<>> /\ Step(p).act = "send"
  BY DEF SendStep, Todo
<1>2. /\ call = program[at[p]] /\ Step(p) \in ScriptSteps(call, me)
      /\ Rank(call, Peer(p)) = Step(p).peer
  BY <1>1, Doing
<1> HIDE DEF call, me
<1>3. Step(p).buf = SentBuf(call, me) /\ Step(p).block = SentBlock(call, Step(p).peer)
  BY <1>1, <1>2, StepIs
<1>4. Buffer(p, at[p]) = out[p]
  BY <1>1, Middle
<1>5. CASE SentBuf(call, me) = "in"
  BY <1>2, <1>3, <1>5 DEF Data, Payload, call, me
<1>6. CASE SentBuf(call, me) # "in"
  <2>1. SentBuf(call, me) = "out" /\ call.kind \in ByZero
    BY <1>6 DEF SentBuf
  <2>2. SentBlock(call, Step(p).peer) = 0
    BY <2>1 DEF SentBlock, ByZero
  <2> QED
    BY <1>2, <1>3, <1>4, <2>1, <2>2 DEF Data, Payload, call, me
<1> QED
  BY <1>5, <1>6

\* The wires carry what was sent.
LEMMA CarriedKept ==
    ASSUME IInv, [Next]_vars, NEW u \in Procs, NEW v \in Procs, Carried(u, v)
    PROVE  Carried(u, v)'
<1>1. /\ Typed /\ (\A r \in Procs : Going(r)) /\ Wire(u, v)
  BY DEF IInv
<1>2. /\ chan \in [Procs -> [Procs -> Seq(Messages)]]
      /\ chan[u][v] \in Seq(Messages) /\ Len(chan[u][v]) \in Nat
      /\ DOMAIN chan[u][v] = 1..Len(chan[u][v])
  BY <1>1 DEF Typed
<1>3. ASSUME NEW m, NEW i \in DOMAIN chan[u][v], chan[u][v][i] = m
      PROVE  m.data = Payload(u, v, m.call)'
  <2>1. m.call \in 1..Len(program) /\ Sent(u, v, m.call)
    BY <1>1, <1>3 DEF Wire, CallsOf
  <2>2. Payload(u, v, m.call)' = Payload(u, v, m.call)
    BY <2>1, PayloadKept
  <2> QED
    BY <1>3, <2>2 DEF Carried
<1>4. ASSUME \A i \in DOMAIN chan'[u][v] : \E j \in DOMAIN chan[u][v] :
                chan'[u][v][i] = chan[u][v][j]
      PROVE  Carried(u, v)'
  <2>1. ASSUME NEW i \in DOMAIN chan'[u][v], NEW m, m = chan'[u][v][i]
        PROVE  m.data = Payload(u, v, m.call)'
    BY <1>3, <1>4, <2>1
  <2> QED
    BY <2>1 DEF Carried
<1>5. CASE chan'[u][v] = chan[u][v]
  BY <1>4, <1>5
<1>6. ASSUME NEW p \in Procs, SendStep(p), chan'[u][v] # chan[u][v]
      PROVE  Carried(u, v)'
  <2>1. PICK b : b = Peer(p)
    OBVIOUS
  <2>2. PICK m : m = [call |-> at[p], data |-> Data(p, Step(p).buf, Step(p).block)]
    OBVIOUS
  <2>3. chan' = [chan EXCEPT ![p][b] = Append(@, m)] /\ rest[p] # <<>> /\ Step(p).act = "send"
        /\ UNCHANGED <<env, at, out, results>>
    BY <1>6, <2>1, <2>2 DEF SendStep, Todo
  <2>4. u = p /\ v = b
    BY <1>2, <1>6, <2>3
  <2>5. chan'[u][v] = Append(chan[u][v], m)
    BY <1>2, <2>3, <2>4
  <2>6. m.call = at[p] /\ m.data = Payload(p, b, at[p])
    BY <1>1, <1>6, <2>1, <2>2, SendsPayload
  <2>7. m.data = Payload(u, v, m.call)
    BY <2>4, <2>6
  <2>8. Payload(u, v, m.call)' = Payload(u, v, m.call)
    BY <2>3 DEF Payload, Buffer, env
  <2>9. ASSUME NEW i \in DOMAIN chan'[u][v], NEW w, w = chan'[u][v][i]
        PROVE  w.data = Payload(u, v, w.call)'
    <3>1. w = m \/ \E j \in DOMAIN chan[u][v] : chan[u][v][j] = w
      BY <1>2, <2>5, <2>9
    <3> QED
      BY <1>3, <2>7, <2>8, <3>1
  <2> QED
    BY <2>9 DEF Carried
<1>7. ASSUME NEW p \in Procs, RecvStep(p), chan'[u][v] # chan[u][v]
      PROVE  Carried(u, v)'
  <2>1. chan' = [chan EXCEPT ![Peer(p)][p] = Tail(@)] /\ chan[Peer(p)][p] # <<>>
    BY <1>7 DEF RecvStep
  <2>2. Peer(p) = u /\ p = v
    BY <1>2, <1>7, <2>1
  <2>3. chan'[u][v] = Tail(chan[u][v]) /\ chan[u][v] # <<>>
    BY <1>2, <2>1, <2>2
  <2>4. \A i \in DOMAIN chan'[u][v] :
            i + 1 \in DOMAIN chan[u][v] /\ chan'[u][v][i] = chan[u][v][i + 1]
    BY <1>2, <2>3
  <2> QED
    BY <1>4, <2>4
<1>8. ASSUME NEW p \in Procs, Begin(p) \/ CopyStep(p) \/ Return(p)
      PROVE  chan'[u][v] = chan[u][v]
  BY <1>8 DEF Begin, CopyStep, Return
<1>9. UNCHANGED vars => chan'[u][v] = chan[u][v]
  BY DEF vars
<1> QED
  BY <1>5, <1>6, <1>7, <1>8, <1>9 DEF Next, Process, Exit

\* What a receive takes from the wire.
LEMMA GetsPayload ==
    ASSUME IInv, \A u, v \in Procs : Carried(u, v), NEW p \in Procs, RecvStep(p)
    PROVE  Head(chan[Peer(p)][p]).data = Payload(Peer(p), p, at[p])
<1> DEFINE b == Peer(p)
           ch == chan[b][p]
<1>1. Typed /\ Going(p) /\ rest[p] # <<>>
  BY DEF IInv, RecvStep, Todo
<1>2. b \in Procs
  BY <1>1, Doing
<1>3. Wire(b, p)
  BY <1>2 DEF IInv
<1>4. ch # <<>> /\ Head(ch).call = at[p]
  BY <1>1, <1>3, HeadCall
<1>5. ch \in Seq(Messages)
  BY <1>1, <1>2 DEF Typed
<1> HIDE DEF b
<1>6. Carried(b, p)
  BY <1>2
<1> HIDE DEF ch
<1>7. 1 \in DOMAIN ch /\ Head(ch) = ch[1]
  BY <1>4, <1>5
<1> QED
  BY <1>4, <1>6, <1>7 DEF Carried, ch, b

(* Calls that fill their buffers block by block *)

\* The steps that write are the receives and the copies.
LEMMA WritesAre ==
    ASSUME NEW call, NEW me
    PROVE  Writes(call, me) = {RecvRec(GotAct(call, me), r, GotBlock(call, r)) :
                                  r \in Sources(call, me)} \cup Copies(call, me)
<1>1. \A y \in Copies(call, me) : y.act # "send"
  BY DEF Copies, CopyRec
<1>2. \A r, i : RecvRec(GotAct(call, me), r, i).act # "send"
  BY DEF RecvRec, GotAct
<1>3. \A r, b, i : SendRec(r, b, i).act = "send"
  BY DEF SendRec
<1> QED
  BY <1>1, <1>2, <1>3 DEF Writes, ScriptSteps

\* A plain receive and what it leaves.
LEMMA PlainReceive ==
    ASSUME NEW call, call.kind \in Plain, NEW me, NEW r, NEW k
    PROVE  LET y == RecvRec(GotAct(call, me), r, GotBlock(call, r))
           IN  /\ y.act = "recv" /\ y.block = GotBlock(call, r)
               /\ Written(k, call, me, y) = Own(k, r, SentBlock(call, me))
<1>1. GotAct(call, me) = "recv"
  BY DEF GotAct, Plain
<1> QED
  BY <1>1 DEF RecvRec, Written

\* A copy and what it leaves.
LEMMA PlainCopy ==
    ASSUME NEW call, NEW me, NEW r, NEW i, NEW k
    PROVE  /\ CopyRec(r, i).block = i
           /\ Written(k, call, me, CopyRec(r, i)) = Own(k, me, r)
  BY DEF CopyRec, Written

\* The next rank.
LEMMA NextRank ==
    ASSUME NEW n \in Nat, n > 1, NEW r \in 0..(n - 1)
    PROVE  Right(n, r, 1) = (r + 1) % n
<1>1. CASE r + 1 > n - 1
  <2>1. r + 1 = n /\ Right(n, r, 1) = 0
    BY <1>1 DEF Right
  <2>2. n % n = 0
    OBVIOUS
  <2> QED
    BY <2>1, <2>2
<1>2. CASE ~(r + 1 > n - 1)
  <2>1. r + 1 < n /\ Right(n, r, 1) = r + 1 /\ r + 1 \in Nat
    BY <1>2 DEF Right
  <2>2. (r + 1) % n = r + 1
    BY <2>1
  <2> QED
    BY <2>1, <2>2
<1> QED
  BY <1>1, <1>2

\* The plain kinds one by one: who receives from whom, who copies what.
LEMMA PlainKinds ==
    ASSUME NEW call, IsCall(call), call.kind \in Plain, NEW me \in Ranks(call)
    PROVE  \/ /\ call.kind \in Everyone \/ (call.kind = "Gather" /\ me = call.root)
              /\ Sources(call, me) = Ranks(call) \ {me}
              /\ Copies(call, me) = {CopyRec(SentBlock(call, me), me)}
              /\ \A r : GotBlock(call, r) = r
              /\ Moves(call, me) = {<<r, r, SentBlock(call, me)>> : r \in Ranks(call)}
           \/ /\ call.kind = "Gather" /\ me # call.root
              /\ Sources(call, me) = {} /\ Copies(call, me) = {} /\ Moves(call, me) = {}
           \/ /\ call.kind \in {"Bcast", "SendRecv", "Scatter"}
              /\ Sources(call, me) = {call.root} /\ Copies(call, me) = {}
              /\ GotBlock(call, call.root) = 0
              /\ Moves(call, me) = {<<0, call.root, SentBlock(call, me)>>}
           \/ /\ call.kind \in {"Bcast", "SendRecv"}
              /\ Sources(call, me) = {} /\ Copies(call, me) = {} /\ Moves(call, me) = {}
           \/ /\ call.kind = "Scatter" /\ me = call.root
              /\ Sources(call, me) = {} /\ Copies(call, me) = {CopyRec(me, 0)}
              /\ Moves(call, me) = {<<0, me, me>>}
<1> DEFINE n == Size(call)
<1>1. /\ n \in Nat /\ n > 1 /\ me \in 0..(n - 1) /\ call.root \in 0..(n - 1)
      /\ Ranks(call) = 0..(n - 1)
  BY CallType DEF IsCall
<1>2. Others(n, me) = Ranks(call) \ {me}
  BY <1>1 DEF Others
<1> HIDE DEF n
<1>3. CASE call.kind \in {"Allgather", "Allgather_exp"}
  BY <1>2, <1>3 DEF Everyone, Sources, Copies, GotBlock, SentBlock, Moves, n
<1>4. CASE call.kind = "Alltoall"
  BY <1>2, <1>4 DEF Everyone, Sources, Copies, GotBlock, SentBlock, Moves, n
<1>5. CASE call.kind = "Gather"
  BY <1>2, <1>5 DEF Everyone, Sources, Copies, GotBlock, SentBlock, Moves, n
<1>6. CASE call.kind = "Bcast"
  BY <1>6 DEF Everyone, Sources, Copies, GotBlock, SentBlock, Moves
<1>7. CASE call.kind = "Scatter"
  BY <1>7 DEF Everyone, Sources, Copies, GotBlock, SentBlock, Moves
<1>8. CASE call.kind = "SendRecv"
  <2>1. Right(n, call.root, 1) = (call.root + 1) % n
    BY <1>1, NextRank
  <2>2. /\ Sources(call, me) = IF me = Right(n, call.root, 1) THEN {call.root} ELSE {}
        /\ Copies(call, me) = {} /\ GotBlock(call, call.root) = 0 /\ SentBlock(call, me) = 0
    BY <1>8 DEF Everyone, ByZero, Sources, Copies, GotBlock, SentBlock, n
  <2>3. Moves(call, me) = IF me = (call.root + 1) % n THEN {<<0, call.root, 0>>} ELSE {}
    BY <1>8 DEF Moves, n
  <2> QED
    BY <1>8, <2>1, <2>2, <2>3
<1>9. call.kind \in Everyone \cup {"Gather", "Bcast", "Scatter", "SendRecv"}
  BY DEF IsCall, Kinds, Plain, Everyone
<1> QED
  BY <1>3, <1>4, <1>5, <1>6, <1>7, <1>8, <1>9 DEF Everyone

\* No two steps write the same block.
LEMMA PlainBlocks ==
    ASSUME NEW call, IsCall(call), call.kind \in Plain, NEW me \in Ranks(call),
           NEW y \in Writes(call, me), NEW z \in Writes(call, me), y.block = z.block
    PROVE  y = z
<1> DEFINE R(r) == RecvRec(GotAct(call, me), r, GotBlock(call, r))
           S == Sources(call, me)
           C == Copies(call, me)
<1>1. Writes(call, me) = {R(r) : r \in S} \cup C
  BY WritesAre
<1>2. \A r : R(r).block = GotBlock(call, r)
  BY DEF RecvRec
<1> HIDE DEF R, S, C
<1>3. CASE C = {} /\ \E a : S \subseteq {a}
  BY <1>1, <1>3
<1>4. CASE S = {} /\ \E a : C \subseteq {a}
  BY <1>1, <1>4
<1>5. CASE /\ S = Ranks(call) \ {me} /\ \A r : GotBlock(call, r) = r
           /\ C = {CopyRec(SentBlock(call, me), me)}
  <2>1. CopyRec(SentBlock(call, me), me).block = me
    BY DEF CopyRec
  <2>2. \A r \in S : R(r).block = r /\ r # me
    BY <1>2, <1>5
  <2> QED
    BY <1>1, <1>5, <2>1, <2>2
<1>6. \/ C = {} /\ \E a : S \subseteq {a}
      \/ S = {} /\ \E a : C \subseteq {a}
      \/ /\ S = Ranks(call) \ {me} /\ \A r : GotBlock(call, r) = r
         /\ C = {CopyRec(SentBlock(call, me), me)}
  BY PlainKinds DEF S, C
<1> QED
  BY <1>3, <1>4, <1>5, <1>6

\* Step y puts where it belongs what the operation is to move.
Puts(k, call, me, y, m) == y.block = m[1] /\ Written(k, call, me, y) = Own(k, m[2], m[3])

\* The steps that write move what the operation is to move, and nothing else.
LEMMA PlainMoves ==
    ASSUME NEW call, IsCall(call), call.kind \in Plain, NEW me \in Ranks(call), NEW k
    PROVE  /\ \A m \in Moves(call, me) : \E y \in Writes(call, me) : Puts(k, call, me, y, m)
           /\ \A y \in Writes(call, me) : \E m \in Moves(call, me) : Puts(k, call, me, y, m)
<1> DEFINE R(r) == RecvRec(GotAct(call, me), r, GotBlock(call, r))
           S == Sources(call, me)
           C == Copies(call, me)
           W == Writes(call, me)
           M == Moves(call, me)
           sb == SentBlock(call, me)
           Good(y, m) == Puts(k, call, me, y, m)
<1>1. W = {R(r) : r \in S} \cup C
  BY WritesAre
<1>2. ASSUME NEW r PROVE Good(R(r), <<GotBlock(call, r), r, sb>>)
  BY PlainReceive DEF Puts
<1>3. ASSUME NEW r, NEW i PROVE Good(CopyRec(r, i), <<i, me, r>>)
  BY PlainCopy DEF Puts
<1>4. SUFFICES /\ \A m \in M : \E y \in W : Good(y, m)
               /\ \A y \in W : \E m \in M : Good(y, m)
  OBVIOUS
<1> HIDE DEF Good, R, S, C, W, M, sb
<1>5. CASE /\ S = Ranks(call) \ {me} /\ \A r : GotBlock(call, r) = r
           /\ C = {CopyRec(sb, me)} /\ M = {<<r, r, sb>> : r \in Ranks(call)}
  <2>1. \A r \in S : R(r) \in W /\ Good(R(r), <<r, r, sb>>)
    BY <1>1, <1>2, <1>5
  <2>2. CopyRec(sb, me) \in W /\ Good(CopyRec(sb, me), <<me, me, sb>>)
    BY <1>1, <1>3, <1>5
  <2>3. ASSUME NEW m \in M PROVE \E y \in W : Good(y, m)
    <3>1. PICK r \in Ranks(call) : m = <<r, r, sb>>
      BY <1>5, <2>3
    <3>2. r = me \/ r \in S
      BY <1>5
    <3> QED
      BY <2>1, <2>2, <3>1, <3>2
  <2>4. ASSUME NEW y \in W PROVE \E m \in M : Good(y, m)
    <3>1. CASE y = CopyRec(sb, me)
      BY <1>5, <2>2, <3>1
    <3>2. CASE \E r \in S : y = R(r)
      <4>1. PICK r \in S : y = R(r)
        BY <3>2
      <4>2. <<r, r, sb>> \in M
        BY <1>5
      <4> QED
        BY <2>1, <4>1, <4>2
    <3> QED
      BY <1>1, <1>5, <3>1, <3>2
  <2> QED
    BY <2>3, <2>4
<1>6. CASE S = {} /\ C = {} /\ M = {}
  BY <1>1, <1>6
<1>7. ASSUME NEW r, S = {r}, C = {}, GotBlock(call, r) = 0, M = {<<0, r, sb>>}
      PROVE  (\A m \in M : \E y \in W : Good(y, m)) /\ \A y \in W : \E m \in M : Good(y, m)
  <2>1. W = {R(r)} /\ Good(R(r), <<0, r, sb>>)
    BY <1>1, <1>2, <1>7
  <2> QED
    BY <1>7, <2>1
<1>8. CASE S = {} /\ C = {CopyRec(me, 0)} /\ M = {<<0, me, me>>}
  <2>1. W = {CopyRec(me, 0)} /\ Good(CopyRec(me, 0), <<0, me, me>>)
    BY <1>1, <1>3, <1>8
  <2> QED
    BY <1>8, <2>1
<1>9. \/ /\ S = Ranks(call) \ {me} /\ \A r : GotBlock(call, r) = r
         /\ C = {CopyRec(sb, me)} /\ M = {<<r, r, sb>> : r \in Ranks(call)}
      \/ S = {} /\ C = {} /\ M = {}
      \/ S = {call.root} /\ C = {} /\ GotBlock(call, call.root) = 0
         /\ M = {<<0, call.root, sb>>}
      \/ S = {} /\ C = {CopyRec(me, 0)} /\ M = {<<0, me, me>>}
  BY PlainKinds DEF S, C, M, sb
<1> QED
  BY <1>5, <1>6, <1>7, <1>8, <1>9

\* At the beginning of a call nothing is written.
LEMMA FilledStart ==
    ASSUME NEW call, IsCall(call), NEW p \in Members(call), NEW k
    PROVE  Filled(k, call, Rank(call, p), Script(call, p), Blank)
<1>1. Elems(Script(call, p)) = ScriptSteps(call, Rank(call, p))
  BY ScriptScripted DEF Scripted
<1>2. \A i \in Procs : Blank[i] = <<>>
  BY DEF Blank
<1> QED
  BY <1>1, <1>2 DEF Filled, Writes

\* A send writes nothing.
LEMMA FilledSend ==
    ASSUME NEW call, NEW me, NEW k, NEW s, NEW t, NEW h, Elems(s) = {h} \cup Elems(t),
           NEW b, Filled(k, call, me, s, b), h.act = "send"
    PROVE  Filled(k, call, me, t, b)
<1>1. \A y \in Writes(call, me) : y # h
  BY DEF Writes
<1> QED
  BY <1>1 DEF Filled

\* The blocks of a script are those of a buffer.
LEMMA BlocksProcs ==
    ASSUME NEW call, IsCall(call), NEW me \in Ranks(call), NEW y \in ScriptSteps(call, me)
    PROVE  y.block \in Procs
<1> DEFINE T == StepsOf(Size(call))
<1>1. PICK p \in Members(call) : Rank(call, p) = me
  BY RankOf
<1>2. PICK s \in Seq(T) : Elems(s) = ScriptSteps(call, me)
  BY <1>1, ScriptScripted DEF Scripted
<1>3. \A x \in T : x.block \in Ranks(call)
  BY DEF StepsOf, Ranks
<1> HIDE DEF T
<1>4. y \in T
  BY <1>2 DEF Elems
<1> QED
  BY <1>3, <1>4, RanksProcs

\* Another step writes what it is to write.
LEMMA FilledWrite ==
    ASSUME NEW call, IsCall(call), call.kind \in Plain, NEW me \in Ranks(call), NEW k,
           NEW s, NEW t, NEW h \in Writes(call, me), Elems(s) = {h} \cup Elems(t),
           NEW b \in Buffers, Filled(k, call, me, s, b),
           NEW w, w = Written(k, call, me, h)
    PROVE  Filled(k, call, me, t, [b EXCEPT ![h.block] = w])
<1>1. PICK c : c = [b EXCEPT ![h.block] = w]
  OBVIOUS
<1>2. c[h.block] = w /\ \A i \in Procs : i # h.block => c[i] = b[i]
  <2>1. DOMAIN b = Procs /\ h.block \in Procs
    BY BlocksProcs DEF Buffers, Writes
  <2> QED
    BY <1>1, <2>1
<1>3. ASSUME NEW y \in Writes(call, me), y \notin Elems(t)
      PROVE  c[y.block] = Written(k, call, me, y)
  <2>1. CASE y = h
    BY <1>2, <2>1
  <2>2. CASE y # h
    <3>1. y.block # h.block
      BY <2>2, PlainBlocks
    <3>2. y.block \in Procs
      BY BlocksProcs DEF Writes
    <3> QED
      BY <1>2, <1>3, <2>2, <3>1, <3>2 DEF Filled
  <2> QED
    BY <2>1, <2>2
<1>4. ASSUME NEW i \in Procs, \A y \in Writes(call, me) : y.block # i PROVE c[i] = <<>>
  BY <1>2, <1>4 DEF Filled
<1> QED
  BY <1>1, <1>3, <1>4 DEF Filled

\* When nothing is left to write, the buffer is right.
LEMMA FilledRight ==
    ASSUME NEW call, IsCall(call), call.kind \in Plain, NEW me \in Ranks(call), NEW k,
           NEW b, Filled(k, call, me, <<>>, b), NEW i \in Procs
    PROVE  LET here == {m \in Moves(call, me) : m[1] = i} IN
             IF here = {} THEN b[i] = <<>> ELSE \A m \in here : b[i] = Own(k, m[2], m[3])
<1> DEFINE here == {m \in Moves(call, me) : m[1] = i}
<1>1. Elems(<<>>) = {}
  BY Nothing
<1>2. /\ \A y \in Writes(call, me) : b[y.block] = Written(k, call, me, y)
      /\ (\A y \in Writes(call, me) : y.block # i) => b[i] = <<>>
  BY <1>1 DEF Filled
<1>3. CASE here = {}
  <2>1. \A y \in Writes(call, me) : y.block # i
    <3>1. \A y \in Writes(call, me) : \E m \in Moves(call, me) : m[1] = y.block
      BY PlainMoves DEF Puts
    <3> QED
      BY <1>3, <3>1
  <2> QED
    BY <1>2, <1>3, <2>1
<1>4. ASSUME NEW m \in here PROVE b[i] = Own(k, m[2], m[3])
  <2>1. m \in Moves(call, me)
    BY <1>4
  <2>2. PICK y \in Writes(call, me) : Puts(k, call, me, y, m)
    BY <2>1, PlainMoves
  <2>3. m[1] = i /\ b[y.block] = Written(k, call, me, y)
    BY <1>2, <1>4
  <2> QED
    BY <2>2, <2>3 DEF Puts
<1> QED
  BY <1>3, <1>4

(* The root of a reduction *)

Reducing(call, me) == call.kind \in {"Reduce", "Allreduce"} /\ me = Root(call)

\* What the root of a reduction does.
LEMMA ReducingRoot ==
    ASSUME NEW call, IsCall(call), NEW me \in Ranks(call), Reducing(call, me)
    PROVE  /\ Sources(call, me) = Others(Size(call), me) /\ Copies(call, me) = {CopyRec(0, 0)}
           /\ GotAct(call, me) = "combine" /\ \A r : GotBlock(call, r) = 0
           /\ call.kind \in ByZero \cup {"Reduce"}
           /\ Others(Size(call), me) = Ranks(call) \ {me}
           /\ \A r \in Ranks(call) \ {me} : SentBuf(call, r) = "in"
           /\ \A r : SentBlock(call, r) = 0
<1>1. me = Root(call) /\ Others(Size(call), me) = Ranks(call) \ {me}
  BY DEF Reducing, Others, Ranks
<1>2. CASE call.kind = "Reduce"
  <2>1. me = call.root
    BY <1>1, <1>2 DEF Root, ByZero
  <2> QED
    BY <1>1, <1>2, <2>1 DEF Sources, Copies, GotAct, GotBlock, SentBuf, SentBlock, Everyone,
                            ByZero
<1>3. CASE call.kind = "Allreduce"
  <2>1. me = 0
    BY <1>1, <1>3 DEF Root, ByZero
  <2> QED
    BY <1>1, <1>3, <2>1 DEF Sources, Copies, GotAct, GotBlock, SentBuf, SentBlock, Everyone,
                            ByZero
<1> QED
  BY <1>2, <1>3 DEF Reducing

\* At the beginning of a reduction nothing is copied or received.
LEMMA ReducedStart ==
    ASSUME NEW call, IsCall(call), NEW p \in Members(call), Reducing(call, Rank(call, p)),
           NEW k, NEW block
    PROVE  Reduced(k, call, Rank(call, p), Script(call, p), block)
<1>1. Rank(call, p) \in Ranks(call)
  BY RankOf
<1>2. CopyRec(0, 0) \in ScriptSteps(call, Rank(call, p))
  BY <1>1, ReducingRoot DEF ScriptSteps
<1>3. Elems(Script(call, p)) = ScriptSteps(call, Rank(call, p))
  BY ScriptScripted DEF Scripted
<1>4. In(Script(call, p)) = Others(Size(call), Rank(call, p))
  BY <1>1, Whole, ReducingRoot
<1> QED
  BY <1>2, <1>3, <1>4 DEF Reduced

\* What has still to be received comes from finitely many ranks.
LEMMA InFinite ==
    ASSUME NEW call, IsCall(call), NEW me, NEW s, PartOf(call, me, s)
    PROVE  In(s) \subseteq Ranks(call) /\ IsFiniteSet(In(s)) /\ Cardinality(In(s)) \in Nat
<1> DEFINE T == StepsOf(Size(call))
<1>1. s \in Seq(T)
  BY DEF PartOf
<1>2. \A x \in T : x.peer \in Ranks(call)
  BY DEF StepsOf, Ranks
<1> HIDE DEF T
<1>3. Elems(s) \subseteq T
  BY <1>1 DEF Elems
<1>4. In(s) \subseteq Ranks(call)
  BY <1>2, <1>3 DEF In
<1>5. IsFiniteSet(Ranks(call))
  <2> DEFINE n == Size(call)
  <2>1. 0 \in Int /\ n - 1 \in Int
    BY CallType
  <2> HIDE DEF n
  <2>2. IsFiniteSet(0..(n - 1))
    BY <2>1, FS_Interval
  <2> QED
    BY <2>2 DEF Ranks, n
<1>6. IsFiniteSet(In(s))
  BY <1>4, <1>5, FS_Subset
<1> QED
  BY <1>4, <1>6, FS_CardinalityType

\* A send leaves the block alone.
LEMMA ReducedSend ==
    ASSUME NEW call, NEW me, NEW k, NEW s, s # <<>>, PartOf(call, me, s),
           Head(s).act = "send", NEW block, Reduced(k, call, me, s, block)
    PROVE  Reduced(k, call, me, Tail(s), block)
<1> DEFINE T == StepsOf(Size(call))
<1>1. s \in Seq(T) /\ Once(s)
  BY DEF PartOf
<1> HIDE DEF T
<1>2. In(Tail(s)) = In(s) /\ Elems(s) = {Head(s)} \cup Elems(Tail(s))
  BY <1>1, FirstOutIn, FirstStep
<1>3. Head(s) # CopyRec(0, 0)
  BY DEF CopyRec
<1> QED
  BY <1>2, <1>3 DEF Reduced

\* The copy puts the root's own block first.
LEMMA ReducedCopy ==
    ASSUME NEW call, IsCall(call), NEW me \in Ranks(call), Reducing(call, me), NEW k,
           NEW s, s # <<>>, PartOf(call, me, s), Head(s) = CopyRec(0, 0),
           NEW old, Reduced(k, call, me, s, old)
    PROVE  Reduced(k, call, me, Tail(s), Own(k, me, 0))
<1> DEFINE T == StepsOf(Size(call))
           n == Size(call)
           block == Own(k, me, 0)
<1>1. s \in Seq(T) /\ Once(s)
  BY DEF PartOf
<1> HIDE DEF T
<1>2. /\ Elems(s) = {Head(s)} \cup Elems(Tail(s)) /\ Key(Head(s)) \notin Keys(Tail(s))
      /\ Head(s).act = "copy"
  BY <1>1, FirstStep DEF CopyRec
<1>3. CopyRec(0, 0) \notin Elems(Tail(s)) /\ CopyRec(0, 0) \in Elems(s)
  BY <1>2 DEF Keys
<1>4. In(Tail(s)) = In(s) /\ In(s) = Others(n, me)
  BY <1>1, <1>2, <1>3, FirstOutIn DEF Reduced
<1>5. Cardinality(Others(n, me)) = n - 1
  <2>1. n \in Nat /\ n > 1 /\ Ranks(call) = 0..(n - 1)
    BY CallType DEF IsCall
  <2> HIDE DEF n
  <2>2. 0 \in Int /\ n - 1 \in Int /\ me \in 0..(n - 1)
    BY <2>1
  <2>3. IsFiniteSet(0..(n - 1)) /\ Cardinality(0..(n - 1)) = IF 0 > n - 1 THEN 0 ELSE n - 1 - 0 + 1
    BY <2>2, FS_Interval
  <2>4. Cardinality(0..(n - 1)) = n
    BY <2>1, <2>3
  <2>5. Cardinality((0..(n - 1)) \ {me}) = Cardinality(0..(n - 1)) - 1
    BY <2>2, <2>3, FS_RemoveElement
  <2> QED
    BY <2>4, <2>5 DEF Others
<1>6. Len(block) = 1 /\ block[1] = <<k, me, 0>> /\ 1 \in DOMAIN block
  BY DEF Own
<1>7. Len(block) + Cardinality(In(Tail(s))) = n
  <2>1. n \in Nat
    BY CallType
  <2> HIDE DEF n, block
  <2> QED
    BY <1>4, <1>5, <1>6, <2>1
<1>8. Ranks(call) \ In(Tail(s)) = {me}
  <2>1. Others(n, me) = Ranks(call) \ {me}
    BY ReducingRoot
  <2> QED
    BY <1>4, <2>1
<1> QED
  BY <1>3, <1>6, <1>7, <1>8 DEF Reduced

\* A receive appends the block of its sender.
LEMMA ReducedCombine ==
    ASSUME NEW call, IsCall(call), NEW me \in Ranks(call), Reducing(call, me), NEW k,
           NEW s, s # <<>>, PartOf(call, me, s), Head(s).act = "combine",
           NEW old \in Seq(Nat \X Nat \X Nat), Reduced(k, call, me, s, old),
           k \in Nat, Head(s).peer \in Nat
    PROVE  Reduced(k, call, me, Tail(s), old \o Own(k, Head(s).peer, 0))
<1> DEFINE T == StepsOf(Size(call))
           C == Nat \X Nat \X Nat
<1>1. s \in Seq(T) /\ Once(s) /\ Ordered(s)
  BY ReducingRoot DEF PartOf, Reducing
<1> HIDE DEF T
<1>2. PICK r : r = Head(s).peer
  OBVIOUS
<1>3. PICK t : t = Tail(s)
  OBVIOUS
<1>4. PICK new : new = old \o Own(k, r, 0)
  OBVIOUS
<1>5. /\ Elems(s) = {Head(s)} \cup Elems(t) /\ \A y \in Elems(t) : Phase(Head(s)) =< Phase(y)
      /\ In(t) = In(s) \ {r} /\ r \in In(s)
  BY <1>1, <1>2, <1>3, FirstStep, FirstOutIn DEF Receiving
<1>6. CopyRec(0, 0) \notin Elems(s) /\ CopyRec(0, 0) \notin Elems(t)
  <2>1. Phase(CopyRec(0, 0)) = 0 /\ Phase(Head(s)) = 1 /\ Head(s) # CopyRec(0, 0)
    BY DEF Phase, CopyRec
  <2> QED
    BY <1>5, <2>1
<1>7. /\ Len(old) + Cardinality(In(s)) = Size(call)
      /\ \A q \in Ranks(call) \ In(s) : \E j \in DOMAIN old : old[j] = <<k, q, 0>>
  BY <1>6 DEF Reduced
<1>8. PICK x \in C : x = <<k, r, 0>>
  BY <1>2
<1>9. new = old \o <<x>>
  BY <1>4, <1>8 DEF Own
<1> HIDE DEF C
<1>10. old \in Seq(C)
  BY DEF C
<1>11. /\ Len(old) \in Nat /\ Len(new) = Len(old) + 1 /\ Len(new) \in DOMAIN new
       /\ new[Len(new)] = x /\ \A j \in DOMAIN old : j \in DOMAIN new /\ new[j] = old[j]
  BY <1>9, <1>10
<1>12. IsFiniteSet(In(s)) /\ Cardinality(In(s)) \in Nat
  BY InFinite
<1>13. Cardinality(In(t)) = Cardinality(In(s)) - 1
  <2>1. \A S : IsFiniteSet(S) /\ r \in S => Cardinality(S \ {r}) = Cardinality(S) - 1
    BY FS_RemoveElement
  <2> QED
    BY <1>5, <1>12, <2>1
<1>14. Len(new) + Cardinality(In(t)) = Size(call)
  BY <1>7, <1>11, <1>12, <1>13
<1>15. ASSUME NEW q \in Ranks(call) \ In(t) PROVE \E j \in DOMAIN new : new[j] = <<k, q, 0>>
  <2>1. CASE q = r
    BY <1>8, <1>11, <2>1
  <2>2. CASE q # r
    BY <1>5, <1>7, <1>11, <1>15, <2>2
  <2> QED
    BY <2>1, <2>2
<1>16. Reduced(k, call, me, t, new)
  BY <1>6, <1>14, <1>15 DEF Reduced
<1> QED
  BY <1>2, <1>3, <1>4, <1>16

(* What each step does to what a process holds *)

\* Rank 0 of a call is a member of it.
LEMMA ZeroIs ==
    ASSUME NEW call, IsCall(call)
    PROVE  Zero(call) \in Members(call) /\ Zero(call) \in Procs /\ Rank(call, Zero(call)) = 0
<1>1. 0 \in Ranks(call)
  BY CallType
<1> QED
  BY <1>1, RankOf DEF Zero

\* The calls in which p is.
LEMMA InCallOf ==
    ASSUME IInv, NEW p \in Procs, NEW k \in 1..at[p]
    PROVE  k \in 1..Len(program) /\ k \in Nat /\ IsCall(program[k])
           /\ Members(program[k]) \subseteq Procs
<1>1. Typed
  BY DEF IInv
<1>2. at[p] =< Len(program) /\ at[p] \in Nat /\ Len(program) \in Nat
  BY <1>1, CallsAreCalls DEF Typed
<1>3. k \in 1..Len(program) /\ k \in Nat
  BY <1>2
<1> QED
  BY <1>1, <1>3, CallsAreCalls DEF Typed

\* What p has got from rank 0 stays what rank 0 has.
LEMMA GotZeroStays ==
    ASSUME IInv, [Next]_vars, NEW p \in Procs, NEW k \in 1..at[p],
           program[k].kind = "Allreduce", NEW z \in Procs, Rank(program[k], z) = 0, Got(z, p, k)
    PROVE  Buffer(z, k)' = Buffer(z, k)
<1>1. k \in 1..Len(program)
  BY InCallOf
<1>2. Sent(z, p, k)
  BY <1>1 DEF IInv, Wire
<1> QED
  BY <1>1, <1>2, ToldStays DEF ByZero

\* What p has got of a call, from what it has still to do.
LEMMA GotAhead ==
    ASSUME NEW u, NEW p \in Procs, NEW k \in 1..at[p]
    PROVE  Got(u, p, k) <=> Linked(u, p, k) /\ Rank(program[k], u) \notin In(Ahead(p, k))
  BY NoOutIn DEF Got, Ahead

\* A step that leaves the buffer of p alone, and what p has still to receive.
LEMMA QuietHolds ==
    ASSUME IInv, [Next]_vars, NEW p \in Procs, NEW k \in 1..at[p], p \in Members(program[k]),
           Holds(p, k), Buffer(p, k)' = Buffer(p, k),
           \/ Ahead(p, k)' = Ahead(p, k)
           \/ k = at[p] /\ SendStep(p)
    PROVE  Holds(p, k)'
<1>1. Typed /\ \A r \in Procs : Going(r)
  BY DEF IInv
<1>2. program' = program /\ k \in 1..at'[p]
  BY <1>1, BufferKept
<1>3. PICK call : call = program[k]
  OBVIOUS
<1>4. PICK me : me = Rank(call, p)
  OBVIOUS
<1>5. IsCall(call) /\ me \in Ranks(call) /\ Zero(call) \in Procs /\ Rank(call, Zero(call)) = 0
  BY <1>3, <1>4, InCallOf, RankOf, ZeroIs
<1>6. PICK s : s = Ahead(p, k)
  OBVIOUS
<1>7. PICK t : t = Ahead(p, k)'
  OBVIOUS
<1>8. ASSUME k = at[p], SendStep(p)
      PROVE  /\ s # <<>> /\ Head(s).act = "send" /\ PartOf(call, me, s) /\ t = Tail(s)
             /\ Elems(s) = {Head(s)} \cup Elems(t) /\ In(t) = In(s)
  <2>1. rest[p] # <<>> /\ Step(p).act = "send" /\ Done(p) /\ at' = at
    BY <1>8 DEF SendStep, Todo
  <2>2. s = rest[p]
    BY <1>1, <1>6, <1>8, <2>1, Middle
  <2>3. PartOf(call, me, s)
    BY <1>1, <1>3, <1>4, <1>8, <2>1, <2>2 DEF Going, Call
  <2>4. t = Tail(s)
    BY <1>1, <1>7, <1>8, <2>1, <2>2, DoneRest DEF Ahead
  <2>5. PICK T : T = StepsOf(Size(call))
    OBVIOUS
  <2>6. s \in Seq(T) /\ Once(s)
    BY <2>3, <2>5 DEF PartOf
  <2>7. Head(s).act = "send" /\ s # <<>>
    BY <2>1, <2>2 DEF Step
  <2>8. Elems(s) = {Head(s)} \cup Elems(t) /\ In(t) = In(s)
    BY <2>4, <2>6, <2>7, FirstStep, FirstOutIn
  <2> QED
    BY <2>3, <2>4, <2>7, <2>8
<1>9. In(t) = In(s)
  BY <1>6, <1>7, <1>8
<1>10. PICK b : b = Buffer(p, k)
  OBVIOUS
<1>12. ASSUME call.kind \in Plain PROVE Filled(k, call, me, t, b)
  <2>1. Filled(k, call, me, s, b)
    BY <1>3, <1>4, <1>6, <1>10, <1>12 DEF Holds
  <2> QED
    BY <1>6, <1>7, <1>8, <2>1, FilledSend
<1>13. ASSUME call.kind \in {"Reduce", "Allreduce"}, me = Root(call)
       PROVE  Reduced(k, call, me, t, b[0])
  <2>1. Reduced(k, call, me, s, b[0])
    BY <1>3, <1>4, <1>6, <1>10, <1>13 DEF Holds
  <2> QED
    BY <1>6, <1>7, <1>8, <2>1, ReducedSend
<1>14. PICK z \in Procs : z = Zero(call) /\ Rank(call, z) = 0
  BY <1>5
<1>15. ASSUME call.kind = "Allreduce", me # 0, Got(z, p, k)'
       PROVE  b[0] = Buffer(z, k)'[0]
  <2>1. Linked(z, p, k)' <=> Linked(z, p, k)
    BY <1>2 DEF Linked
  <2>2. Got(z, p, k)' => Linked(z, p, k) /\ Rank(call, z) \notin In(t)
    BY <1>2, <1>3, <1>7, <2>1, NoOutIn DEF Got, Ahead
  <2>3. Got(z, p, k)
    BY <1>3, <1>6, <1>9, <1>15, <2>2, GotAhead
  <2>4. b[0] = Buffer(z, k)[0]
    BY <1>3, <1>4, <1>10, <1>14, <1>15, <2>3 DEF Holds
  <2>5. Buffer(z, k)' = Buffer(z, k)
    BY <1>3, <1>14, <1>15, <2>3, GotZeroStays
  <2> QED
    BY <2>4, <2>5
<1>16. program'[k] = call /\ Ahead(p, k)' = t /\ Buffer(p, k)' = b
  BY <1>2, <1>3, <1>7, <1>10
<1> QED
  BY <1>4, <1>12, <1>13, <1>14, <1>15, <1>16 DEF Holds

\* A process that begins a call holds nothing yet.
LEMMA BeginHolds ==
    ASSUME IInv, [Next]_vars, NEW p \in Procs, Begin(p), NEW k, k = at[p] + 1,
           p \in Members(program[k])
    PROVE  Holds(p, k)'
<1>1. Typed /\ Going(p)
  BY DEF IInv
<1>2. /\ program' = program /\ results' = results /\ ~InCall(p) /\ at[p] < Len(program)
      /\ at'[p] = k /\ rest'[p] = Script(program[k], p) /\ out'[p] = Blank
  BY <1>1 DEF Begin, env, Typed
<1>3. at[p] \in Nat /\ Len(program) \in Nat /\ Len(results[p]) \in {at[p], at[p] - 1}
  BY <1>1, CallsAreCalls DEF Typed
<1>4. k \in 1..Len(program) /\ ~(k =< Len(results[p]))
  BY <1>2, <1>3
<1>5. PICK call : call = program[k]
  OBVIOUS
<1>6. IsCall(call)
  BY <1>1, <1>4, <1>5, CallsAreCalls DEF Typed
<1>7. PICK me : me = Rank(call, p)
  OBVIOUS
<1>8. program'[k] = call /\ Ahead(p, k)' = Script(call, p) /\ Buffer(p, k)' = Blank
  BY <1>2, <1>4, <1>5 DEF Ahead, Buffer
<1>9. PICK z \in Procs : z = Zero(call)
  BY <1>6, ZeroIs
<1>10. ~Got(z, p, k)'
  <2>1. Got(z, p, k)' <=> Got(z, p, k)
    <3>1. k \in Nat
      BY <1>4
    <3> QED
      BY <1>1, <3>1, OtherMoves
  <2>2. ~Got(z, p, k)
    BY <1>3 DEF Got
  <2> QED
    BY <2>1, <2>2
<1>11. Filled(k, call, me, Script(call, p), Blank)
  BY <1>5, <1>6, <1>7, FilledStart
<1>12. call.kind \in {"Reduce", "Allreduce"} /\ me = Root(call)
         => Reduced(k, call, me, Script(call, p), Blank[0])
  BY <1>5, <1>6, <1>7, ReducedStart DEF Reducing
<1> QED
  BY <1>7, <1>8, <1>9, <1>10, <1>11, <1>12 DEF Holds

\* A step of p that writes its buffer: where in the script it stands.
LEMMA Writing ==
    ASSUME IInv, NEW p \in Procs, RecvStep(p) \/ CopyStep(p), NEW k, k = at[p],
           NEW call, call = program[k], NEW me, me = Rank(call, p), NEW s, s = rest[p]
    PROVE  /\ program' = program /\ k \in 1..at[p] /\ k \in 1..at'[p] /\ k \in Nat
           /\ p \in Members(call) /\ IsCall(call) /\ me \in Ranks(call)
           /\ s # <<>> /\ PartOf(call, me, s) /\ Elems(s) = {Head(s)} \cup Elems(Tail(s))
           /\ Head(s) = Step(p) /\ Head(s) \in Writes(call, me)
           /\ Head(s).block \in Procs /\ Head(s).peer \in Ranks(call)
           /\ Ahead(p, k) = s /\ Ahead(p, k)' = Tail(s)
           /\ Buffer(p, k) = out[p] /\ Buffer(p, k)' = out'[p]
<1>1. Typed /\ Going(p)
  BY DEF IInv
<1>2. /\ s # <<>> /\ Done(p) /\ Step(p).act \in {"recv", "combine", "copy"}
      /\ program' = program /\ at' = at /\ results' = results
  BY DEF RecvStep, CopyStep, Todo, env
<1>3. /\ k \in 1..Len(program) /\ InCall(p) /\ p \in Members(call) /\ Call(p) = call
      /\ IsCall(call) /\ me \in Ranks(call) /\ Step(p) \in ScriptSteps(call, me)
      /\ Step(p).peer \in Ranks(call) /\ Step(p).block \in Procs
  BY <1>1, <1>2, Doing
<1>4. PartOf(call, me, s)
  BY <1>1, <1>2, <1>3 DEF Going
<1>5. PICK T : T = StepsOf(Size(call))
  OBVIOUS
<1>6. s \in Seq(T)
  BY <1>4, <1>5 DEF PartOf
<1>7. Elems(s) = {Head(s)} \cup Elems(Tail(s)) /\ Head(s) = Step(p)
  BY <1>2, <1>6, FirstStep DEF Step
<1>8. Step(p) \in Writes(call, me)
  BY <1>2, <1>3 DEF Writes
<1>9. rest'[p] = Tail(s)
  BY <1>1, <1>2, DoneRest
<1>10. k \in Nat /\ k \in 1..at[p] /\ Len(results[p]) \in Nat /\ ~(k =< Len(results[p]))
  BY <1>1, <1>3 DEF Typed, InCall
<1>11. /\ Ahead(p, k) = s /\ Ahead(p, k)' = Tail(s)
       /\ Buffer(p, k) = out[p] /\ Buffer(p, k)' = out'[p]
  BY <1>2, <1>9, <1>10 DEF Ahead, Buffer
<1> QED
  BY <1>2, <1>3, <1>4, <1>7, <1>8, <1>10, <1>11

\* A copy writes what it is to write.
LEMMA CopyHolds ==
    ASSUME IInv, [Next]_vars, NEW p \in Procs, CopyStep(p), NEW k, k = at[p], Holds(p, k)
    PROVE  Holds(p, k)'
<1>1. PICK call : call = program[k]
  OBVIOUS
<1>2. PICK me : me = Rank(call, p)
  OBVIOUS
<1>3. PICK s : s = rest[p]
  OBVIOUS
<1>4. /\ program' = program /\ k \in 1..at[p] /\ k \in 1..at'[p] /\ k \in Nat
      /\ p \in Members(call) /\ IsCall(call) /\ me \in Ranks(call)
      /\ s # <<>> /\ PartOf(call, me, s) /\ Elems(s) = {Head(s)} \cup Elems(Tail(s))
      /\ Head(s) = Step(p) /\ Head(s) \in Writes(call, me)
      /\ Head(s).block \in Procs /\ Head(s).peer \in Ranks(call)
      /\ Ahead(p, k) = s /\ Ahead(p, k)' = Tail(s)
      /\ Buffer(p, k) = out[p] /\ Buffer(p, k)' = out'[p]
  BY <1>1, <1>2, <1>3, Writing
<1>5. PICK h : h = Head(s)
  OBVIOUS
<1>6. PICK b : b = out[p]
  OBVIOUS
<1>7. b \in Buffers /\ out \in [Procs -> Buffers]
  BY <1>6 DEF IInv, Typed
<1>8. h.act = "copy" /\ out' = [out EXCEPT ![p][h.block] = Data(p, "in", h.peer)]
  BY <1>4, <1>5 DEF CopyStep, Todo
<1>9. Data(p, "in", h.peer) = Own(k, me, h.peer)
  BY <1>1, <1>2 DEF Data, Call
<1>10. out'[p] = [b EXCEPT ![h.block] = Own(k, me, h.peer)]
  BY <1>6, <1>7, <1>8, <1>9
<1>11. Written(k, call, me, h) = Own(k, me, h.peer) /\ h \in Copies(call, me)
  <2>1. h \in ScriptSteps(call, me)
    BY <1>4, <1>5 DEF Writes
  <2> QED
    BY <1>8, <2>1, StepIs DEF Written
<1>12. PICK c : c = out'[p]
  OBVIOUS
<1>13. ASSUME call.kind \in Plain PROVE Filled(k, call, me, Tail(s), c)
  <2>1. Filled(k, call, me, s, b)
    BY <1>1, <1>2, <1>4, <1>6, <1>13 DEF Holds
  <2>2. PICK w : w = Written(k, call, me, h)
    OBVIOUS
  <2>3. h \in Writes(call, me) /\ Elems(s) = {h} \cup Elems(Tail(s))
    BY <1>4, <1>5
  <2>4. Filled(k, call, me, Tail(s), [b EXCEPT ![h.block] = w])
    BY <1>4, <1>7, <1>13, <2>1, <2>2, <2>3, FilledWrite
  <2> QED
    BY <1>10, <1>11, <1>12, <2>2, <2>4
<1>14. ASSUME call.kind \in {"Reduce", "Allreduce"}, me = Root(call)
       PROVE  Reduced(k, call, me, Tail(s), c[0])
  <2>1. Reduced(k, call, me, s, b[0]) /\ Reducing(call, me)
    BY <1>1, <1>2, <1>4, <1>6, <1>14 DEF Holds, Reducing
  <2>2. h = CopyRec(0, 0)
    BY <1>4, <1>11, <2>1, ReducingRoot
  <2>3. h.block = 0 /\ h.peer = 0
    BY <2>2 DEF CopyRec
  <2>4. c[0] = Own(k, me, 0)
    <3>1. DOMAIN b = Procs /\ 0 \in Procs
      BY <1>4, <1>5, <1>7, <2>3 DEF Buffers
    <3> QED
      BY <1>10, <1>12, <2>3, <3>1
  <2> QED
    BY <1>4, <1>5, <2>1, <2>2, <2>4, ReducedCopy
<1>15. call.kind = "Allreduce" => me = 0
  BY <1>11 DEF Copies, Root, ByZero
<1>16. program'[k] = call /\ Buffer(p, k)' = c
  BY <1>1, <1>4, <1>12
<1> QED
  BY <1>2, <1>4, <1>13, <1>14, <1>15, <1>16 DEF Holds

\* A receive writes what it is to write.
LEMMA RecvHolds ==
    ASSUME IInv, [Next]_vars, \A u, v \in Procs : Carried(u, v),
           NEW p \in Procs, RecvStep(p), NEW k, k = at[p], Holds(p, k)
    PROVE  Holds(p, k)'
<1>1. PICK call : call = program[k]
  OBVIOUS
<1>2. PICK me : me = Rank(call, p)
  OBVIOUS
<1>3. PICK s : s = rest[p]
  OBVIOUS
<1>4. /\ program' = program /\ k \in 1..at[p] /\ k \in 1..at'[p] /\ k \in Nat
      /\ p \in Members(call) /\ IsCall(call) /\ me \in Ranks(call)
      /\ s # <<>> /\ PartOf(call, me, s) /\ Elems(s) = {Head(s)} \cup Elems(Tail(s))
      /\ Head(s) = Step(p) /\ Head(s) \in Writes(call, me)
      /\ Head(s).block \in Procs /\ Head(s).peer \in Ranks(call)
      /\ Ahead(p, k) = s /\ Ahead(p, k)' = Tail(s)
      /\ Buffer(p, k) = out[p] /\ Buffer(p, k)' = out'[p]
  BY <1>1, <1>2, <1>3, Writing
<1>5. PICK h : h = Head(s)
  OBVIOUS
<1>6. PICK b : b = out[p]
  OBVIOUS
<1>7. b \in Buffers /\ out \in [Procs -> Buffers]
  BY <1>6 DEF IInv, Typed
<1>8. PICK q : q = Peer(p)
  OBVIOUS
<1>9. /\ q \in Procs /\ Rank(call, q) = h.peer /\ q \in Members(call)
  <2>1. Typed /\ Going(p) /\ rest[p] # <<>> /\ Call(p) = call
    BY <1>1, <1>3, <1>4 DEF IInv, Call
  <2> QED
    BY <1>4, <1>5, <1>8, <2>1, Doing
<1>10. PICK data : data = Payload(q, p, k)
  OBVIOUS
<1>11. /\ h.act \in Receiving
       /\ out' = [out EXCEPT ![p][h.block] = IF h.act = "combine" THEN @ \o data ELSE data]
  <2>1. Head(chan[q][p]).data = data
    BY <1>8, <1>10, GetsPayload
  <2>2. (h.act = "recv" \/ h.act = "combine") /\
        out' = [out EXCEPT ![p][h.block] = IF h.act = "combine"
                                             THEN @ \o Head(chan[q][p]).data
                                             ELSE Head(chan[q][p]).data]
    BY <1>4, <1>5, <1>8 DEF RecvStep, Todo
  <2> QED
    BY <2>1, <2>2 DEF Receiving
<1>12. /\ h.peer \in Sources(call, me) /\ h.act = GotAct(call, me)
       /\ h.block = GotBlock(call, h.peer)
  <2>1. h \in ScriptSteps(call, me)
    BY <1>4, <1>5 DEF Writes
  <2> QED
    BY <1>11, <2>1, StepIs
<1>13. PICK c : c = out'[p]
  OBVIOUS
<1>14. c = [b EXCEPT ![h.block] = IF h.act = "combine" THEN @ \o data ELSE data]
  BY <1>6, <1>7, <1>11, <1>13
<1>15. data = IF SentBuf(call, h.peer) = "in" THEN Own(k, h.peer, SentBlock(call, me))
                                             ELSE Buffer(q, k)[0]
  BY <1>1, <1>2, <1>9, <1>10 DEF Payload
<1>16. ASSUME call.kind \in Plain PROVE Filled(k, call, me, Tail(s), c)
  <2>1. Filled(k, call, me, s, b)
    BY <1>1, <1>2, <1>4, <1>6, <1>16 DEF Holds
  <2>2. PICK w : w = Written(k, call, me, h)
    OBVIOUS
  <2>3. h.act = "recv" /\ SentBuf(call, h.peer) = "in"
    BY <1>12, <1>16 DEF Plain, GotAct, SentBuf, ByZero
  <2>4. w = data
    BY <1>15, <2>2, <2>3 DEF Written
  <2>5. h \in Writes(call, me) /\ Elems(s) = {h} \cup Elems(Tail(s))
    BY <1>4, <1>5
  <2>6. Filled(k, call, me, Tail(s), [b EXCEPT ![h.block] = w])
    BY <1>4, <1>7, <1>16, <2>1, <2>2, <2>5, FilledWrite
  <2>7. c = [b EXCEPT ![h.block] = w]
    BY <1>14, <2>3, <2>4
  <2> QED
    BY <2>6, <2>7
<1>17. 0 \in Procs /\ DOMAIN b = Procs
  BY <1>7, NAssumption DEF Buffers, Procs
<1>18. ASSUME call.kind \in {"Reduce", "Allreduce"}, me = Root(call)
       PROVE  Reduced(k, call, me, Tail(s), c[0])
  <2>1. Reduced(k, call, me, s, b[0]) /\ Reducing(call, me)
    BY <1>1, <1>2, <1>4, <1>6, <1>18 DEF Holds, Reducing
  <2>2. /\ h.act = "combine" /\ h.block = 0 /\ h.peer \in Ranks(call) \ {me}
        /\ SentBuf(call, h.peer) = "in" /\ SentBlock(call, me) = 0
    BY <1>4, <1>12, <2>1, ReducingRoot
  <2>3. data = Own(k, h.peer, 0)
    BY <1>15, <2>2
  <2>4. c[0] = b[0] \o Own(k, h.peer, 0)
    BY <1>14, <1>17, <2>2, <2>3
  <2>5. b[0] \in Seq(Nat \X Nat \X Nat)
    BY <1>7, <1>17 DEF Buffers, Blocks
  <2>6. h.peer \in Nat
    BY <1>4, <2>2, CallType
  <2> QED
    BY <1>4, <1>5, <2>1, <2>2, <2>4, <2>5, <2>6, ReducedCombine
<1>19. PICK z \in Procs : z = Zero(call) /\ z \in Members(call) /\ Rank(call, z) = 0
  BY <1>4, ZeroIs
<1>20. ASSUME call.kind = "Allreduce", me # 0 PROVE c[0] = Buffer(z, k)'[0]
  <2>1. h.peer = 0 /\ h.act = "recv" /\ h.block = 0
    BY <1>12, <1>20 DEF Sources, Everyone, ByZero, GotAct, Root, GotBlock
  <2>2. q = z
    BY <1>4, <1>9, <1>19, <2>1, SameRank
  <2>3. SentBuf(call, h.peer) = "out"
    BY <1>20, <2>1 DEF SentBuf, ByZero
  <2>4. c[0] = Buffer(z, k)[0]
    BY <1>14, <1>15, <1>17, <2>1, <2>2, <2>3
  <2>5. Sent(z, p, k)
    <3>1. Typed /\ Going(p) /\ Wire(q, p)
      BY <1>9 DEF IInv
    <3>2. Wire(Peer(p), p)
      BY <1>8, <3>1
    <3>3. chan[q][p] # <<>> /\ Head(chan[q][p]).call = k
      BY <1>8, <3>1, <3>2, HeadCall
    <3>4. chan[q][p] \in Seq(Messages)
      BY <1>9, <3>1 DEF Typed
    <3>5. k \in CallsOf(chan[q][p])
      BY <3>3, <3>4 DEF CallsOf
    <3> QED
      BY <2>2, <3>1, <3>5 DEF Wire
  <2>6. Buffer(z, k)' = Buffer(z, k)
    <3>1. k \in 1..Len(program)
      BY <1>4, InCallOf
    <3> QED
      BY <1>1, <1>19, <1>20, <2>5, <3>1, ToldStays DEF ByZero
  <2> QED
    BY <2>4, <2>6
<1>21. program'[k] = call /\ Buffer(p, k)' = c
  BY <1>1, <1>4, <1>13
<1> QED
  BY <1>2, <1>4, <1>16, <1>18, <1>19, <1>20, <1>21 DEF Holds

\* Together, the data are right after every step.
LEMMA NextDataInv ==
    ASSUME IInv, DataInv, [Next]_vars
    PROVE  DataInv'
<1>1. Typed /\ (\A r \in Procs : Going(r))
  BY DEF IInv
<1>2. \A u, v \in Procs : Carried(u, v)
  BY DEF DataInv
<1>3. ASSUME NEW u \in Procs, NEW v \in Procs PROVE Carried(u, v)'
  BY <1>2, CarriedKept
<1>4. ASSUME NEW p \in Procs, NEW k \in 1..at'[p], p \in Members(program[k])' PROVE Holds(p, k)'
  <2>1. CASE k \in 1..at[p]
    <3>1. program' = program
      BY <1>1, <2>1, BufferKept
    <3>2. p \in Members(program[k])
      BY <1>4, <3>1
    <3>3. Holds(p, k)
      BY <2>1, <3>2 DEF DataInv
    <3>4. CASE k = at[p] /\ RecvStep(p)
      BY <1>2, <3>3, <3>4, RecvHolds
    <3>5. CASE k = at[p] /\ CopyStep(p)
      BY <3>3, <3>5, CopyHolds
    <3>6. CASE ~(k = at[p] /\ (RecvStep(p) \/ CopyStep(p)))
      <4>1. Buffer(p, k)' = Buffer(p, k)
        BY <1>1, <2>1, <3>6, BufferKept
      <4>2. Ahead(p, k)' = Ahead(p, k) \/ (k = at[p] /\ SendStep(p))
        BY <1>1, <2>1, <3>6, BufferKept
      <4> QED
        BY <2>1, <3>2, <3>3, <4>1, <4>2, QuietHolds
    <3> QED
      BY <3>4, <3>5, <3>6
  <2>2. CASE k \notin 1..at[p]
    <3>1. at \in [Procs -> Nat] /\ at[p] \in Nat
      BY <1>1 DEF Typed
    <3>2. at'[p] # at[p]
      BY <2>2
    <3>3. ASSUME NEW r \in Procs, Begin(r) PROVE r = p /\ at'[p] = at[p] + 1
      <4>1. at' = [at EXCEPT ![r] = @ + 1]
        BY <3>3 DEF Begin
      <4> QED
        BY <3>1, <3>2, <4>1
    <3>4. ASSUME NEW r \in Procs, SendStep(r) \/ RecvStep(r) \/ CopyStep(r) \/ Return(r)
          PROVE  FALSE
      BY <3>2, <3>4 DEF SendStep, RecvStep, CopyStep, Return
    <3>5. UNCHANGED vars => FALSE
      BY <3>2 DEF vars
    <3>6. Begin(p) /\ at'[p] = at[p] + 1
      BY <3>3, <3>4, <3>5 DEF Next, Process, Exit
    <3>7. k = at[p] + 1
      BY <2>2, <3>1, <3>6
    <3>8. program' = program
      BY <3>6 DEF Begin, env
    <3> QED
      BY <1>4, <3>6, <3>7, <3>8, BeginHolds
  <2> QED
    BY <2>1, <2>2
<1> QED
  BY <1>3, <1>4 DEF DataInv

\* The data are right initially: there are none.
LEMMA InitDataInv == Init => DataInv
<1> SUFFICES ASSUME Init PROVE DataInv
  OBVIOUS
<1>1. \A p \in Procs : at[p] = 0 /\ \A q \in Procs : chan[p][q] = <<>>
  BY DEF Init
<1>2. \A p, q \in Procs : Carried(p, q)
  <2>1. DOMAIN <<>> = {}
    OBVIOUS
  <2> QED
    BY <1>1, <2>1 DEF Carried
<1>3. 1..0 = {}
  OBVIOUS
<1> QED
  BY <1>1, <1>2, <1>3 DEF DataInv

\* Both invariants hold in every state.
LEMMA DataInvariant == Spec => [](IInv /\ DataInv)
<1>1. Init => DataInv
  BY InitDataInv
<1>2. IInv /\ DataInv /\ [Next]_vars => DataInv'
  BY NextDataInv
<1> QED
  BY <1>1, <1>2, Invariant, PTL DEF Spec

(* The results *)

\* The invariants imply that the results are right.
LEMMA DataRight == IInv /\ DataInv => ResultsCorrect
<1> SUFFICES ASSUME IInv, DataInv, NEW p \in Procs, NEW k \in 1..Len(results[p]),
                    p \in Members(program[k])
             PROVE  CorrectResult(k, p)
  BY DEF ResultsCorrect
<1>1. Typed /\ Going(p) /\ (\A u, v \in Procs : Wire(u, v))
  BY DEF IInv
<1>2. /\ at[p] \in Nat /\ Len(results[p]) \in {at[p], at[p] - 1} /\ k \in 1..at[p]
      /\ k =< Len(results[p])
  BY <1>1 DEF Typed
<1>3. k \in 1..Len(program) /\ IsCall(program[k]) /\ Members(program[k]) \subseteq Procs
  BY <1>2, InCallOf
<1>4. ASSUME NEW q \in Procs, k =< Len(results[q])
      PROVE  /\ k \in 1..at[q] /\ Ahead(q, k) = <<>> /\ Buffer(q, k) = results[q][k]
             /\ \A u \in Procs : Linked(u, q, k) => Got(u, q, k)
  <2>1. /\ k =< at[q] /\ (k = at[q] => rest[q] = <<>>)
        /\ \A u \in Procs : Linked(u, q, k) => Got(u, q, k)
    BY <1>3, <1>4, ReturnedGot
  <2>2. at[q] \in Nat
    BY <1>1 DEF Typed
  <2> QED
    BY <1>2, <1>4, <2>1, <2>2 DEF Ahead, Buffer
<1>5. PICK call : call = program[k]
  OBVIOUS
<1>6. PICK me : me = Rank(call, p)
  OBVIOUS
<1>7. PICK b : b = results[p][k]
  OBVIOUS
<1>8. IsCall(call) /\ me \in Ranks(call) /\ p \in Members(call) /\ Members(call) \subseteq Procs
  BY <1>3, <1>5, <1>6, RankOf
<1>9. Holds(p, k) /\ Ahead(p, k) = <<>> /\ Buffer(p, k) = b
  BY <1>2, <1>4, <1>7 DEF DataInv
<1>10. CASE call.kind \in Plain
  <2>1. Filled(k, call, me, <<>>, b)
    BY <1>5, <1>6, <1>9, <1>10 DEF Holds
  <2>2. \A i \in Procs :
          LET here == {m \in Moves(call, me) : m[1] = i} IN
            IF here = {} THEN b[i] = <<>> ELSE \A m \in here : b[i] = Own(k, m[2], m[3])
    BY <1>8, <1>10, <2>1, FilledRight
  <2> QED
    BY <1>5, <1>6, <1>7, <1>10, <2>2 DEF CorrectResult, Plain
<1>11. ASSUME NEW q \in Members(call), Reducing(call, Rank(call, q)), k \in 1..at[q],
              \A y \in Elems(Ahead(q, k)) : y.act = "send"
       PROVE  AllCombined(k, Buffer(q, k)[0])
  <2>1. PICK block : block = Buffer(q, k)[0]
    OBVIOUS
  <2>2. PICK s : s = Ahead(q, k)
    OBVIOUS
  <2>3. Holds(q, k)
    BY <1>5, <1>8, <1>11 DEF DataInv
  <2>4. Reduced(k, call, Rank(call, q), s, block)
    BY <1>5, <1>11, <2>1, <2>2, <2>3 DEF Holds, Reducing
  <2>5. CopyRec(0, 0) \notin Elems(s) /\ In(s) = {}
    BY <1>11, <2>2 DEF CopyRec, In, Receiving
  <2>6. /\ Len(block) + Cardinality({}) = Size(call)
        /\ \A r \in Ranks(call) : \E j \in DOMAIN block : block[j] = <<k, r, 0>>
    BY <2>4, <2>5 DEF Reduced
  <2>7. Len(block) = Size(call)
    <3>1. block \in Blocks
      <4>1. out[q] \in Buffers /\ results[q] \in Seq(Buffers) /\ Len(results[q]) \in Nat
        BY <1>1, <1>8 DEF Typed
      <4>2. k =< Len(results[q]) => results[q][k] \in Buffers
        BY <1>2, <4>1
      <4>3. Buffer(q, k) \in Buffers
        BY <4>1, <4>2 DEF Buffer
      <4>4. 0 \in Procs
        BY NAssumption DEF Procs
      <4> QED
        BY <2>1, <4>3, <4>4 DEF Buffers
    <3>2. Len(block) \in Nat
      BY <3>1 DEF Blocks
    <3>3. Cardinality({}) = 0
      BY FS_EmptySet
    <3> QED
      BY <2>6, <3>2, <3>3
  <2> QED
    BY <1>5, <2>1, <2>6, <2>7 DEF AllCombined
<1>12. CASE call.kind = "Reduce"
  <2>1. ASSUME me = call.root PROVE AllCombined(k, b[0])
    <3>1. Reducing(call, Rank(call, p))
      BY <1>6, <1>12, <2>1 DEF Reducing, Root, ByZero
    <3>2. \A y \in Elems(Ahead(p, k)) : y.act = "send"
      BY <1>9, Nothing
    <3> QED
      BY <1>2, <1>8, <1>9, <1>11, <3>1, <3>2
  <2> QED
    BY <1>5, <1>6, <1>7, <1>12, <2>1 DEF CorrectResult
<1>13. CASE call.kind = "Allreduce"
  <2>1. PICK z \in Procs : z = Zero(call) /\ z \in Members(call) /\ Rank(call, z) = 0
    BY <1>8, ZeroIs
  <2>2. Reducing(call, 0)
    BY <1>13 DEF Reducing, Root, ByZero
  \* Whoever has returned has the block of rank 0, which is complete.
  <2>3. ASSUME NEW q \in Members(call), k =< Len(results[q])
        PROVE  /\ results[q][k][0] = Buffer(z, k)[0]
               /\ k \in 1..at[z] /\ \A y \in Elems(Ahead(z, k)) : y.act = "send"
    <3>1. q \in Procs
      BY <1>8
    <3>2. k \in 1..at[q] /\ Ahead(q, k) = <<>> /\ Buffer(q, k) = results[q][k]
      BY <1>4, <2>3, <3>1
    <3>3. CASE q = z
      BY <3>2, <3>3, Nothing
    <3>4. CASE q # z
      <4>1. Rank(call, q) # 0 /\ Rank(call, q) \in Ranks(call)
        BY <1>8, <2>1, <3>4, SameRank, RankOf
      <4>2. Rank(call, q) \in Dests(call, 0)
        BY <1>13, <4>1 DEF Dests, Others, Everyone, ByZero, Ranks
      <4>3. Linked(z, q, k)
        BY <1>5, <2>1, <4>2 DEF Linked
      <4>4. Got(z, q, k)
        BY <1>4, <2>3, <3>1, <4>3
      <4>5. Holds(q, k)
        BY <1>5, <3>1, <3>2 DEF DataInv
      <4>6. Buffer(q, k)[0] = Buffer(z, k)[0]
        BY <1>5, <1>13, <2>1, <4>1, <4>4, <4>5 DEF Holds
      <4>7. Sent(z, q, k)
        BY <1>1, <1>3, <3>1, <4>4 DEF Wire
      <4>8. k \in 1..at[z]
        BY <4>7 DEF Sent
      <4>9. k = at[z] => \A y \in Elems(rest[z]) : y.act = "send"
        <5>1. Rank(program[k], z) = Root(program[k])
          BY <1>5, <1>13, <2>1 DEF Root, ByZero
        <5>2. program[k].kind \in ByZero \cup {"Reduce"}
          BY <1>5, <1>13 DEF ByZero
        <5> QED
          BY <1>3, <3>1, <4>7, <5>1, <5>2, ToldLast
      <4>10. \A y \in Elems(Ahead(z, k)) : y.act = "send"
        BY <4>9, Nothing DEF Ahead
      <4> QED
        BY <3>2, <4>6, <4>8, <4>10
    <3> QED
      BY <3>3, <3>4
  <2>4. AllCombined(k, Buffer(z, k)[0]) /\ b[0] = Buffer(z, k)[0]
    BY <1>2, <1>7, <1>8, <1>11, <2>1, <2>2, <2>3
  <2>5. \A q \in Members(call) : Len(results[q]) >= k => results[q][k][0] = b[0]
    <3>1. ASSUME NEW q \in Members(call), Len(results[q]) >= k PROVE results[q][k][0] = b[0]
      <4>1. k =< Len(results[q])
        BY <1>1, <1>2, <1>8, <3>1 DEF Typed
      <4> QED
        BY <2>3, <2>4, <4>1
    <3> QED
      BY <3>1
  <2> QED
    BY <1>5, <1>6, <1>7, <1>13, <2>4, <2>5 DEF CorrectResult
<1>14. CASE call.kind = "Barrier"
  BY <1>5, <1>14 DEF CorrectResult
<1> QED
  BY <1>8, <1>10, <1>12, <1>13, <1>14 DEF IsCall, Plain

(***************************************************************************)
(* RDMA_Bcast, Allgather_exp, Allgather, Alltoall, Gather, Scatter,        *)
(* Reduce, Allreduce, Send and Recv put the right blocks into every        *)
(* receive buffer, for any number of processes, any calls one after the    *)
(* other without synchronisation, and any communicators: a reduction       *)
(* combines each contribution once, and all members of an allreduce get    *)
(* the same.  Blocks have one size; RDMA_Allgatherv_exp is not among them. *)
(***************************************************************************)
THEOREM ResultsRight == Spec => []ResultsCorrect
  BY DataInvariant, DataRight, PTL
=============================================================================
