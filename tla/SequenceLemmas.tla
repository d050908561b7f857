---------------------------- MODULE SequenceLemmas ----------------------------
(***************************************************************************)
(* Facts about lists that the proofs of several components rest on: lists  *)
(* that are joined, lists of lists that are flattened, and counting.       *)
(***************************************************************************)
EXTENDS Integers, SequencesExt, FiniteSetTheorems, SequenceTheorems, WellFoundedInduction, TLAPS

(* ------------------------------------------------ counting up and down -- *)

(* A set of numbers has a least one (FS_StrictSubsetOrderingWellFounded).  *)
LEMMA LeastOf ==
    ASSUME NEW S \in SUBSET Nat, S # {}
    PROVE  \E x \in S : \A y \in S : x <= y
<1> DEFINE R == StrictSubsetOrdering(Nat)
           T == {0..(x - 1) : x \in S}
<1>1. IsWellFoundedOn(R, FiniteSubsetsOf(Nat))
  BY FS_StrictSubsetOrderingWellFounded
<1>2. T \subseteq FiniteSubsetsOf(Nat) /\ T # {}
  <2>1. \A x \in S : 0..(x - 1) \in FiniteSubsetsOf(Nat)
    <3> TAKE x \in S
    <3>1. IsFiniteSet(0..(x - 1))
      BY FS_Interval
    <3> QED
      BY <3>1 DEF FiniteSubsetsOf
  <2> QED
    BY <2>1
<1>3. PICK t \in T : \A u \in T : ~(<<u, t>> \in R)
  <2> HIDE DEF R, T
  <2> QED
    BY <1>1, <1>2, WFMin
<1>4. PICK x \in S : t = 0..(x - 1)
  OBVIOUS
<1>5. ASSUME NEW y \in S, y < x
      PROVE  FALSE
  <2> DEFINE u == 0..(y - 1)
  <2>1. u \in T /\ u \subseteq t /\ u \subseteq Nat /\ t \subseteq Nat
    BY <1>4, <1>5
  <2>2. y \in t /\ y \notin u
    BY <1>4, <1>5
  <2> HIDE DEF u, T
  <2>3. <<u, t>> \in R
    BY <2>1, <2>2 DEF StrictSubsetOrdering
  <2> QED
    BY <1>3, <2>1, <2>3
<1> QED
  BY <1>5

(* A set that has its top, and with a number the one before it, has all.   *)
LEMMA DownTo ==
    ASSUME NEW top \in Nat, NEW T \in SUBSET (0..top), top \in T,
           \A i \in 1..top : i \in T => i - 1 \in T
    PROVE  T = 0..top
<1> SUFFICES ASSUME 0..top \ T # {} PROVE FALSE
  OBVIOUS
<1> DEFINE S == {top - i : i \in 0..top \ T}
<1>1. S \in SUBSET Nat /\ S # {}
  OBVIOUS
<1>2. PICK x \in S : \A y \in S : x <= y
  <2> HIDE DEF S
  <2> QED
    BY <1>1, LeastOf
<1>3. PICK i \in 0..top \ T : x = top - i
  OBVIOUS
<1>4. i # top /\ i + 1 \in 1..top
  OBVIOUS
<1>5. i + 1 \notin T
  BY <1>4
<1>6. top - (i + 1) \in S
  BY <1>4, <1>5
<1>7. x <= top - (i + 1)
  BY <1>2, <1>6
<1>8. i \in Nat /\ x = top - i
  BY <1>3
<1> HIDE DEF S
<1> QED
  BY <1>7, <1>8

(* A set that has nought, and with a number the one after it, has all.     *)
LEMMA UpTo ==
    ASSUME NEW top \in Nat, NEW T \in SUBSET (0..top), 0 \in T,
           \A i \in 1..top : i - 1 \in T => i \in T
    PROVE  T = 0..top
<1> SUFFICES ASSUME 0..top \ T # {} PROVE FALSE
  OBVIOUS
<1> DEFINE S == 0..top \ T
<1>0. S \in SUBSET Nat /\ S # {}
  OBVIOUS
<1>1. PICK x \in S : \A y \in S : x <= y
  <2> HIDE DEF S
  <2> QED
    BY <1>0, LeastOf
<1>2. x # 0 /\ x \in 1..top /\ x - 1 \in 0..top
  OBVIOUS
<1>3. x - 1 \in T
  BY <1>1, <1>2
<1> QED
  BY <1>2, <1>3

(* Numbers up to some number have a largest one among them.                *)
LEMMA LargestOf ==
    ASSUME NEW top \in Nat, NEW T \in SUBSET (1..top), T # {}
    PROVE  \E m \in T : \A j \in T : j <= m
<1> DEFINE S == {top - i : i \in T}
<1>1. S \in SUBSET Nat /\ S # {}
  <2>1. \A i \in T : top - i \in Nat
    OBVIOUS
  <2> QED
    BY <2>1
<1>2. PICK x \in S : \A y \in S : x <= y
  <2> HIDE DEF S
  <2> QED
    BY <1>1, LeastOf
<1>3. PICK m \in T : x = top - m
  OBVIOUS
<1>4. \A j \in T : j <= m
  <2> TAKE j \in T
  <2>1. top - j \in S
    OBVIOUS
  <2>2. x <= top - j
    BY <1>2, <2>1
  <2>3. m \in Nat /\ j \in Nat
    OBVIOUS
  <2> QED
    BY <1>3, <2>2, <2>3
<1> QED
  BY <1>4

(* The joints of a flattened sequence: f[i] is what its first i make.      *)
Joins(f, u, S) ==
    /\ f \in [0..Len(u) -> Seq(S)]
    /\ f[0] = <<>>
    /\ \A i \in 1..Len(u) : f[i] = f[i - 1] \o u[i]

(* The recursion of FlattenSeq joins its parts one after the other.        *)
LEMMA FlattenJoins ==
    ASSUME NEW S, NEW u \in Seq(Seq(S))
    PROVE  \E f : Joins(f, u, S) /\ FlattenSeq(u) = f[Len(u)]
<1> DEFINE n == Len(u)
           Good(g, k) == \A i \in 1..k : g[i] = IF i = 1 THEN u[i] ELSE g[i - 1] \o u[i]
           T == {k \in 0..n : \E g \in [1..k -> Seq(S)] : Good(g, k)}
<1>1. n \in Nat /\ DOMAIN u = 1..n /\ \A i \in 1..n : u[i] \in Seq(S)
  OBVIOUS
<1> HIDE DEF n
<1>2. T = 0..n
  <2>1. 0 \in T
    <3> DEFINE g == [i \in 1..0 |-> <<>>]
    <3>1. g \in [1..0 -> Seq(S)] /\ Good(g, 0)
      OBVIOUS
    <3> HIDE DEF g
    <3>2. \E h \in [1..0 -> Seq(S)] : Good(h, 0)
      BY <3>1
    <3>3. 0 \in 0..n
      BY <1>1
    <3> HIDE DEF Good
    <3> QED
      BY <3>2, <3>3
  <2>2. ASSUME NEW k \in 1..n, k - 1 \in T
        PROVE  k \in T
    <3>1. PICK g \in [1..(k - 1) -> Seq(S)] : Good(g, k - 1)
      BY <2>2
    <3> DEFINE h == [i \in 1..k |-> IF i < k THEN g[i] ELSE IF k = 1 THEN u[1] ELSE g[k - 1] \o u[k]]
    <3>2. h \in [1..k -> Seq(S)]
      BY <1>1, <3>1
    <3>3. ASSUME NEW i \in 1..k
          PROVE  h[i] = IF i = 1 THEN u[i] ELSE h[i - 1] \o u[i]
      <4>1. CASE i < k
        <5>1. h[i] = g[i] /\ (i # 1 => h[i - 1] = g[i - 1]) /\ i \in 1..(k - 1)
          BY <1>1, <4>1
        <5>2. g[i] = IF i = 1 THEN u[i] ELSE g[i - 1] \o u[i]
          BY <3>1, <5>1
        <5> HIDE DEF h
        <5> QED
          BY <5>1, <5>2
      <4>2. CASE i = k
        <5>1. i # 1 => h[i - 1] = g[i - 1]
          BY <1>1, <4>2
        <5> QED
          BY <4>2, <5>1
      <4> QED
        BY <1>1, <4>1, <4>2
    <3>4. k \in 0..n
      BY <1>1
    <3> HIDE DEF h
    <3>5. Good(h, k)
      BY <3>3
    <3> QED
      BY <3>2, <3>4, <3>5
  <2> HIDE DEF T
  <2> QED
    BY <1>1, <2>1, <2>2, UpTo DEF T
<1>3. PICK g \in [1..n -> Seq(S)] : Good(g, n)
  <2>1. n \in 0..n
    BY <1>1
  <2>2. n \in T
    <3> HIDE DEF T
    <3> QED
      BY <1>2, <2>1
  <2> HIDE DEF Good
  <2> QED
    BY <2>2
<1> DEFINE fl == CHOOSE fl : fl = [i \in 1..n |-> IF i = 1 THEN u[i] ELSE fl[i - 1] \o u[i]]
<1>4. fl = [i \in 1..n |-> IF i = 1 THEN u[i] ELSE fl[i - 1] \o u[i]]
  <2>1. g = [i \in 1..n |-> IF i = 1 THEN u[i] ELSE g[i - 1] \o u[i]]
    BY <1>3
  <2> QED
    BY <2>1
<1>5. FlattenSeq(u) = IF n = 0 THEN u ELSE fl[n]
  BY DEF FlattenSeq, n
<1> HIDE DEF fl
<1> DEFINE V == {k \in 0..n : k = 0 \/ fl[k] \in Seq(S)}
<1>6. V = 0..n
  <2>1. 0 \in V
    BY <1>1
  <2>2. ASSUME NEW k \in 1..n, k - 1 \in V
        PROVE  k \in V
    <3>1. fl[k] = IF k = 1 THEN u[k] ELSE fl[k - 1] \o u[k]
      BY <1>4
    <3>2. CASE k = 1
      BY <1>1, <3>1, <3>2
    <3>3. CASE k # 1
      <4>1. fl[k - 1] \in Seq(S) /\ u[k] \in Seq(S)
        BY <1>1, <2>2, <3>3
      <4>2. fl[k] = fl[k - 1] \o u[k]
        BY <3>1, <3>3
      <4>3. fl[k] \in Seq(S)
        BY <4>1, <4>2
      <4> QED
        BY <1>1, <4>3
    <3> QED
      BY <3>2, <3>3
  <2>3. V \in SUBSET (0..n)
    OBVIOUS
  <2> HIDE DEF V
  <2> QED
    BY <1>1, <2>1, <2>2, <2>3, UpTo
<1> DEFINE f == [i \in 0..n |-> IF i = 0 THEN <<>> ELSE fl[i]]
<1>7. f \in [0..n -> Seq(S)]
  BY <1>6
<1>8. \A i \in 1..n : f[i] = f[i - 1] \o u[i]
  <2> TAKE i \in 1..n
  <2>1. fl[i] = IF i = 1 THEN u[i] ELSE fl[i - 1] \o u[i]
    BY <1>4
  <2>2. u[i] \in Seq(S) /\ <<>> \o u[i] = u[i]
    BY <1>1
  <2>3. f[i] = fl[i] /\ f[i - 1] = IF i = 1 THEN <<>> ELSE fl[i - 1]
    BY <1>1
  <2> HIDE DEF f
  <2> QED
    BY <2>1, <2>2, <2>3
<1>9. FlattenSeq(u) = f[n] /\ f[0] = <<>>
  <2>1. n = 0 => u = <<>>
    BY DEF n
  <2> QED
    BY <1>1, <1>5, <2>1
<1> HIDE DEF f
<1> QED
  BY <1>7, <1>8, <1>9 DEF Joins, n

(* Where the elements of two joined sequences are.                         *)
LEMMA Joined ==
    ASSUME NEW S, NEW s \in Seq(S), NEW t \in Seq(S)
    PROVE  /\ Len(s) \in Nat /\ Len(t) \in Nat
           /\ s \o t \in Seq(S) /\ Len(s \o t) = Len(s) + Len(t)
           /\ \A j \in 1..Len(s) : (s \o t)[j] = s[j]
           /\ \A j \in 1..Len(t) : (s \o t)[Len(s) + j] = t[j]
<1> DEFINE st == s \o t
<1>1. /\ st \in Seq(S) /\ Len(st) = Len(s) + Len(t)
      /\ \A i \in 1..Len(s) + Len(t) : st[i] = IF i <= Len(s) THEN s[i] ELSE t[i - Len(s)]
  BY ConcatProperties
<1>2. Len(s) \in Nat /\ Len(t) \in Nat
  OBVIOUS
<1> HIDE DEF st
<1>3. \A j \in 1..Len(s) : st[j] = s[j]
  BY <1>1, <1>2
<1>4. \A j \in 1..Len(t) : st[Len(s) + j] = t[j]
  <2> TAKE j \in 1..Len(t)
  <2>1. Len(s) + j \in 1..Len(s) + Len(t) /\ ~(Len(s) + j <= Len(s)) /\ (Len(s) + j) - Len(s) = j
    BY <1>2
  <2> QED
    BY <1>1, <2>1
<1> QED
  BY <1>1, <1>2, <1>3, <1>4 DEF st

(* A sequence is told by its three elements.                               *)
LEMMA Three ==
    ASSUME NEW a, NEW b, NEW c, NEW S, NEW t \in Seq(S), Len(t) = 3, t[1] = a, t[2] = b, t[3] = c
    PROVE  t = <<a, b, c>>
OBVIOUS

(* ------------------------------------------------------- lists as such -- *)

(* A list, of whatever there is. *)
IsList(s) == s \in Seq(Range(s))

(* What a list is.                                                         *)
LEMMA ListFacts ==
    ASSUME NEW s, IsList(s)
    PROVE  /\ Len(s) \in Nat /\ DOMAIN s = 1..Len(s)
           /\ Range(s) = {s[i] : i \in 1..Len(s)}
           /\ (s = <<>> <=> Len(s) = 0) /\ (Range(s) = {} <=> s = <<>>)
           /\ \A i \in 1..Len(s) : s[i] \in Range(s)
<1>1. Len(s) \in Nat /\ DOMAIN s = 1..Len(s)
  BY DEF IsList
<1>2. Range(s) = {s[i] : i \in 1..Len(s)}
  BY <1>1 DEF Range
<1>3. s = <<>> <=> Len(s) = 0
  BY DEF IsList
<1>4. \A i \in 1..Len(s) : s[i] \in Range(s)
  BY <1>2
<1>5. Range(s) = {} <=> Len(s) = 0
  <2>1. Len(s) # 0 => 1 \in 1..Len(s)
    BY <1>1
  <2>2. Len(s) = 0 => 1..Len(s) = {}
    BY <1>1
  <2> QED
    BY <1>2, <1>4, <2>1, <2>2
<1> QED
  BY <1>1, <1>2, <1>3, <1>4, <1>5

(* A sequence over any set is a list.                                      *)
LEMMA SeqIsList ==
    ASSUME NEW S, NEW s \in Seq(S)
    PROVE  IsList(s) /\ Range(s) \subseteq S
<1>1. DOMAIN s = 1..Len(s) /\ Len(s) \in Nat
  OBVIOUS
<1>2. \A i \in 1..Len(s) : s[i] \in Range(s) /\ s[i] \in S
  BY <1>1 DEF Range
<1> QED
  BY <1>1, <1>2, SMTT(30) DEF IsList, Range

(* What is given for every number up to one is a list.                     *)
LEMMA MadeIsList ==
    ASSUME NEW n \in Nat, NEW s, s = [i \in 1..n |-> s[i]]
    PROVE  IsList(s) /\ Len(s) = n
<1> DEFINE S == {s[i] : i \in 1..n}
<1>1. s \in [1..n -> S]
  OBVIOUS
<1>2. s \in Seq(S) /\ Len(s) = n
  BY <1>1
<1> QED
  BY <1>2, SeqIsList

(* The empty list, and a list of one.                                      *)
LEMMA ShortLists ==
    /\ IsList(<<>>) /\ Range(<<>>) = {} /\ Len(<<>>) = 0
    /\ \A x : /\ IsList(<<x>>) /\ Range(<<x>>) = {x} /\ Len(<<x>>) = 1
              /\ <<x>>[1] = x /\ <<x>> # <<>> /\ DOMAIN <<x>> = 1..1
<1>1. IsList(<<>>) /\ Range(<<>>) = {}
  BY DEF IsList, Range
<1>2. ASSUME NEW x
      PROVE  /\ IsList(<<x>>) /\ Range(<<x>>) = {x} /\ Len(<<x>>) = 1
             /\ <<x>>[1] = x /\ <<x>> # <<>> /\ DOMAIN <<x>> = 1..1
  <2>1. <<x>> \in Seq({x}) /\ DOMAIN <<x>> = {1}
    OBVIOUS
  <2>2. Range(<<x>>) = {x}
    BY <2>1 DEF Range
  <2> QED
    BY <2>1, <2>2 DEF IsList
<1> QED
  BY <1>1, <1>2

(* What joining two lists gives.                                           *)
LEMMA ListsJoin ==
    ASSUME NEW s, NEW t, IsList(s), IsList(t)
    PROVE  /\ IsList(s \o t) /\ Range(s \o t) = Range(s) \cup Range(t)
           /\ Len(s \o t) = Len(s) + Len(t)
           /\ \A i \in 1..Len(s) : (s \o t)[i] = s[i]
           /\ \A i \in 1..Len(t) : (s \o t)[Len(s) + i] = t[i]
           /\ \A i \in 1..Len(s) + Len(t) :
                 \/ i \in 1..Len(s)
                 \/ i - Len(s) \in 1..Len(t) /\ (s \o t)[i] = t[i - Len(s)]
           /\ s \o <<>> = s /\ <<>> \o s = s
<1> DEFINE S == Range(s) \cup Range(t)
<1>1. s \in Seq(S) /\ t \in Seq(S)
  BY DEF IsList
<1> HIDE DEF S
<1>2. /\ Len(s) \in Nat /\ Len(t) \in Nat
      /\ s \o t \in Seq(S) /\ Len(s \o t) = Len(s) + Len(t)
      /\ \A j \in 1..Len(s) : (s \o t)[j] = s[j]
      /\ \A j \in 1..Len(t) : (s \o t)[Len(s) + j] = t[j]
  BY ONLY <1>1, Joined
<1>3. Range(s \o t) = Range(s) \cup Range(t)
  BY <1>1, RangeConcatenation
<1>4. ASSUME NEW i \in 1..Len(s) + Len(t), i \notin 1..Len(s)
      PROVE  i - Len(s) \in 1..Len(t) /\ (s \o t)[i] = t[i - Len(s)]
  <2>1. i - Len(s) \in 1..Len(t) /\ Len(s) + (i - Len(s)) = i
    BY <1>2, <1>4
  <2> QED
    BY <1>2, <2>1
<1>5. s \o <<>> = s /\ <<>> \o s = s
  BY <1>1
<1>6. IsList(s \o t)
  BY <1>2, SeqIsList
<1> QED
  BY <1>2, <1>3, <1>4, <1>5, <1>6

(* Three lists may be joined in either order.                              *)
LEMMA JoinAssociates ==
    ASSUME NEW s, NEW t, NEW u, IsList(s), IsList(t), IsList(u)
    PROVE  (s \o t) \o u = s \o (t \o u)
<1> DEFINE S == Range(s) \cup Range(t) \cup Range(u)
<1>1. s \in Seq(S) /\ t \in Seq(S) /\ u \in Seq(S)
  BY DEF IsList
<1> HIDE DEF S
<1> QED
  BY <1>1

(* What adding one to a list gives.                                        *)
LEMMA ListAppends ==
    ASSUME NEW s, NEW x, IsList(s)
    PROVE  /\ Append(s, x) = s \o <<x>> /\ IsList(Append(s, x))
           /\ Len(Append(s, x)) = Len(s) + 1 /\ Append(s, x)[Len(s) + 1] = x
           /\ \A i \in 1..Len(s) : Append(s, x)[i] = s[i]
           /\ Range(Append(s, x)) = Range(s) \cup {x}
<1> DEFINE S == Range(s) \cup {x}
<1>1. s \in Seq(S) /\ x \in S
  BY DEF IsList
<1>2. Append(s, x) = s \o <<x>>
  BY <1>1
<1>3. IsList(<<x>>) /\ Range(<<x>>) = {x} /\ Len(<<x>>) = 1 /\ <<x>>[1] = x
  BY ShortLists
<1> HIDE DEF S
<1>4. /\ IsList(s \o <<x>>) /\ Range(s \o <<x>>) = Range(s) \cup {x}
      /\ Len(s \o <<x>>) = Len(s) + 1
      /\ \A i \in 1..Len(s) : (s \o <<x>>)[i] = s[i]
      /\ \A i \in 1..1 : (s \o <<x>>)[Len(s) + i] = <<x>>[i]
  BY <1>3, ListsJoin
<1> QED
  BY <1>2, <1>3, <1>4

(* Two lists of the same things at the same places are one.                *)
LEMMA SameLists ==
    ASSUME NEW s, NEW t, IsList(s), IsList(t), Len(s) = Len(t),
           \A i \in 1..Len(s) : s[i] = t[i]
    PROVE  s = t
<1> DEFINE S == Range(s) \cup Range(t)
<1>1. s \in Seq(S) /\ t \in Seq(S)
  BY DEF IsList
<1> HIDE DEF S
<1> QED
  BY <1>1

(* ------------------------------------------------------- lists of lists -- *)

(* A list of lists. *)
AreLists(u) == IsList(u) /\ \A i \in 1..Len(u) : IsList(u[i])

(* How the parts of a list of lists are joined, one after the other.       *)
LEMMA ListsFlatten ==
    ASSUME NEW u, AreLists(u)
    PROVE  \E f : /\ f[0] = <<>> /\ FlattenSeq(u) = f[Len(u)]
                  /\ \A i \in 0..Len(u) : IsList(f[i])
                  /\ \A i \in 1..Len(u) : f[i] = f[i - 1] \o u[i]
<1> DEFINE S == UNION {Range(u[i]) : i \in 1..Len(u)}
<1>1. Len(u) \in Nat /\ DOMAIN u = 1..Len(u)
  BY ListFacts DEF AreLists
<1>2. \A i \in 1..Len(u) : u[i] \in Seq(S)
  <2> TAKE i \in 1..Len(u)
  <2>1. u[i] \in Seq(Range(u[i])) /\ Range(u[i]) \subseteq S
    BY DEF AreLists, IsList
  <2> HIDE DEF S
  <2> QED
    BY <2>1
<1>3. u \in Seq(Seq(S))
  <2> HIDE DEF S
  <2>1. u \in Seq(Range(u)) /\ \A i \in 1..Len(u) : u[i] \in Seq(S)
    BY <1>2 DEF AreLists, IsList
  <2> QED
    BY <2>1
<1> HIDE DEF S
<1>4. PICK f : Joins(f, u, S) /\ FlattenSeq(u) = f[Len(u)]
  BY <1>3, FlattenJoins
<1>5. \A i \in 0..Len(u) : IsList(f[i])
  <2>1. \A i \in 0..Len(u) : f[i] \in Seq(S)
    BY <1>4 DEF Joins
  <2> QED
    BY <2>1, SeqIsList
<1>6. f[0] = <<>> /\ \A i \in 1..Len(u) : f[i] = f[i - 1] \o u[i]
  BY <1>4 DEF Joins
<1> QED
  BY <1>4, <1>5, <1>6

(* What is in a list of lists is in one of them.                           *)
LEMMA FlattenFacts ==
    ASSUME NEW u, AreLists(u)
    PROVE  /\ IsList(FlattenSeq(u))
           /\ Range(FlattenSeq(u)) = UNION {Range(u[i]) : i \in 1..Len(u)}
<1>1. PICK f : /\ f[0] = <<>> /\ FlattenSeq(u) = f[Len(u)]
               /\ \A i \in 0..Len(u) : IsList(f[i])
               /\ \A i \in 1..Len(u) : f[i] = f[i - 1] \o u[i]
  BY ListsFlatten
<1>2. Len(u) \in Nat
  BY ListFacts DEF AreLists
<1> DEFINE In(k) == UNION {Range(u[i]) : i \in 1..k}
           T == {k \in 0..Len(u) : Range(f[k]) = In(k)}
<1>3. 0 \in T
  <2>1. In(0) = {}
    OBVIOUS
  <2> QED
    BY <1>1, <1>2, <2>1, ShortLists
<1>4. ASSUME NEW k \in 1..Len(u), k - 1 \in T
      PROVE  k \in T
  <2>0. k - 1 \in 0..Len(u)
    BY <1>2
  <2>1. IsList(f[k - 1]) /\ IsList(u[k]) /\ f[k] = f[k - 1] \o u[k]
    <3>1. IsList(f[k - 1]) /\ f[k] = f[k - 1] \o u[k]
      BY <1>1, <2>0
    <3> QED
      BY <3>1 DEF AreLists
  <2>2. Range(f[k]) = Range(f[k - 1]) \cup Range(u[k])
    BY <2>1, ListsJoin
  <2>3. In(k) = In(k - 1) \cup Range(u[k])
    <3>1. 1..k = 1..(k - 1) \cup {k}
      BY <1>2
    <3> QED
      BY <3>1
  <2>4. Range(f[k - 1]) = In(k - 1) /\ k \in 0..Len(u)
    BY <1>2, <1>4
  <2> HIDE DEF In
  <2> QED
    BY <2>2, <2>3, <2>4
<1>5. T = 0..Len(u)
  <2>1. T \in SUBSET (0..Len(u))
    OBVIOUS
  <2> HIDE DEF T
  <2> QED
    BY <1>2, <1>3, <1>4, <2>1, UpTo
<1>6. Len(u) \in 0..Len(u)
  BY <1>2
<1>7. Range(f[Len(u)]) = In(Len(u))
  <2> HIDE DEF In
  <2> QED
    BY <1>5, <1>6
<1>8. IsList(f[Len(u)])
  BY <1>1, <1>6
<1> QED
  BY <1>1, <1>7, <1>8

(* Lists of lists that are joined are flattened one after the other.       *)
LEMMA FlattenOfJoin ==
    ASSUME NEW u, NEW v, AreLists(u), AreLists(v)
    PROVE  AreLists(u \o v) /\ FlattenSeq(u \o v) = FlattenSeq(u) \o FlattenSeq(v)
<1> DEFINE w == u \o v
           m == Len(u)
           n == Len(v)
<1>1. IsList(u) /\ IsList(v) /\ m \in Nat /\ n \in Nat
  BY ListFacts DEF AreLists
<1>2. /\ IsList(w) /\ Len(w) = m + n
      /\ \A i \in 1..m : w[i] = u[i]
      /\ \A i \in 1..n : w[m + i] = v[i]
      /\ \A i \in 1..m + n : i \in 1..m \/ (i - m \in 1..n /\ w[i] = v[i - m])
  BY <1>1, ListsJoin
<1>3. AreLists(w)
  <2>1. ASSUME NEW i \in 1..m + n
        PROVE  IsList(w[i])
    <3>1. CASE i \in 1..m
      BY <1>2, <3>1 DEF AreLists
    <3>2. CASE i - m \in 1..n /\ w[i] = v[i - m]
      BY <3>2 DEF AreLists
    <3> QED
      BY <1>2, <3>1, <3>2
  <2> QED
    BY <1>2, <2>1 DEF AreLists
<1>4. \A i \in 1..m : IsList(u[i])
  BY DEF AreLists
<1>5. \A i \in 1..n : IsList(v[i])
  BY DEF AreLists
<1>6. PICK f : /\ f[0] = <<>> /\ FlattenSeq(u) = f[m]
               /\ \A i \in 0..m : IsList(f[i])
               /\ \A i \in 1..m : f[i] = f[i - 1] \o u[i]
  BY ListsFlatten
<1>7. PICK h : /\ h[0] = <<>> /\ FlattenSeq(v) = h[n]
               /\ \A i \in 0..n : IsList(h[i])
               /\ \A i \in 1..n : h[i] = h[i - 1] \o v[i]
  BY ListsFlatten
<1>8. PICK g : /\ g[0] = <<>> /\ FlattenSeq(w) = g[m + n]
               /\ \A i \in 0..(m + n) : IsList(g[i])
               /\ \A i \in 1..(m + n) : g[i] = g[i - 1] \o w[i]
  <2> HIDE DEF w
  <2>1. \E g : /\ g[0] = <<>> /\ FlattenSeq(w) = g[Len(w)]
               /\ \A i \in 0..Len(w) : IsList(g[i])
               /\ \A i \in 1..Len(w) : g[i] = g[i - 1] \o w[i]
    BY <1>3, ListsFlatten
  <2>2. Len(w) = m + n
    BY <1>2
  <2> QED
    BY ONLY <2>1, <2>2
<1> HIDE DEF w, m, n
<1> DEFINE A == {i \in 0..m : g[i] = f[i]}
<1>9. A = 0..m
  <2>1. 0 \in A
    BY <1>1, <1>6, <1>8
  <2>2. ASSUME NEW i \in 1..m, i - 1 \in A
        PROVE  i \in A
    <3>1. i \in 1..(m + n) /\ i \in 0..m
      BY <1>1
    <3>2. g[i] = g[i - 1] \o w[i] /\ w[i] = u[i] /\ f[i] = f[i - 1] \o u[i] /\ g[i - 1] = f[i - 1]
      BY <1>2, <1>6, <1>8, <2>2, <3>1
    <3> QED
      BY <3>1, <3>2
  <2>3. A \in SUBSET (0..m)
    OBVIOUS
  <2> HIDE DEF A
  <2> QED
    BY <1>1, <2>1, <2>2, <2>3, UpTo
<1>10. g[m] = f[m] /\ IsList(f[m])
  <2>1. m \in 0..m
    BY <1>1
  <2> QED
    BY <1>6, <1>9, <2>1
<1> DEFINE B == {i \in 0..n : g[m + i] = f[m] \o h[i]}
<1>11. B = 0..n
  <2>1. 0 \in B
    <3>1. f[m] \o <<>> = f[m]
      BY <1>10, ListsJoin, ShortLists
    <3>2. m + 0 = m /\ 0 \in 0..n
      BY <1>1
    <3> QED
      BY <1>7, <1>10, <3>1, <3>2
  <2>2. ASSUME NEW i \in 1..n, i - 1 \in B
        PROVE  i \in B
    <3>1. m + i \in 1..(m + n) /\ i \in 0..n /\ i - 1 \in 0..n /\ (m + i) - 1 = m + (i - 1)
      BY <1>1
    <3>2. g[m + i] = g[m + (i - 1)] \o w[m + i] /\ w[m + i] = v[i]
      BY <1>2, <1>8, <3>1
    <3>3. g[m + (i - 1)] = f[m] \o h[i - 1] /\ h[i] = h[i - 1] \o v[i]
      BY <1>7, <2>2
    <3>4. IsList(h[i - 1]) /\ IsList(v[i])
      BY <1>5, <1>7, <3>1
    <3>5. (f[m] \o h[i - 1]) \o v[i] = f[m] \o (h[i - 1] \o v[i])
      <4> DEFINE a == f[m]
                 b == h[i - 1]
                 c == v[i]
      <4>1. IsList(a) /\ IsList(b) /\ IsList(c)
        BY <1>10, <3>4
      <4> HIDE DEF a, b, c
      <4>2. (a \o b) \o c = a \o (b \o c)
        BY <4>1, JoinAssociates
      <4> QED
        BY <4>2 DEF a, b, c
    <3> QED
      BY <3>1, <3>2, <3>3, <3>5
  <2>3. B \in SUBSET (0..n)
    OBVIOUS
  <2> HIDE DEF B
  <2> QED
    BY <1>1, <2>1, <2>2, <2>3, UpTo
<1>12. g[m + n] = f[m] \o h[n]
  <2>1. n \in 0..n
    BY <1>1
  <2> QED
    BY <1>11, <2>1
<1> QED
  BY <1>3, <1>6, <1>7, <1>8, <1>12 DEF w, m, n

(* Nothing flattened is nothing, and one list flattened is that list.      *)
LEMMA FlattenShort ==
    /\ AreLists(<<>>) /\ FlattenSeq(<<>>) = <<>>
    /\ \A x : IsList(x) => AreLists(<<x>>) /\ FlattenSeq(<<x>>) = x
<1>1. AreLists(<<>>) /\ FlattenSeq(<<>>) = <<>>
  <2>1. AreLists(<<>>)
    BY ShortLists DEF AreLists
  <2> QED
    BY <2>1, ShortLists, ListsFlatten
<1>2. ASSUME NEW x, IsList(x)
      PROVE  AreLists(<<x>>) /\ FlattenSeq(<<x>>) = x
  <2> DEFINE u == <<x>>
  <2>1. IsList(u) /\ Len(u) = 1 /\ u[1] = x
    BY ShortLists
  <2> HIDE DEF u
  <2>2. AreLists(u)
    <3>1. \A i \in 1..1 : i = 1
      OBVIOUS
    <3> QED
      BY <1>2, <2>1, <3>1 DEF AreLists
  <2>3. PICK f : /\ f[0] = <<>> /\ FlattenSeq(u) = f[Len(u)]
                 /\ \A i \in 0..Len(u) : IsList(f[i])
                 /\ \A i \in 1..Len(u) : f[i] = f[i - 1] \o u[i]
    BY <2>2, ListsFlatten
  <2>4. f[1] = f[1 - 1] \o u[1] /\ f[1 - 1] = <<>>
    BY <2>1, <2>3
  <2>5. <<>> \o x = x
    BY <1>2, ShortLists, ListsJoin
  <2> QED
    BY <2>1, <2>2, <2>3, <2>4, <2>5 DEF u
<1> QED
  BY <1>1, <1>2

(* Where what is flattened stood: in which list, and where in it.  What    *)
(* comes later stood in a later list, or later in the same.                *)
LEMMA FlattenPlaces ==
    ASSUME NEW u, AreLists(u)
    PROVE  \E of, in :
              /\ \A j \in 1..Len(FlattenSeq(u)) :
                    /\ of[j] \in 1..Len(u) /\ in[j] \in 1..Len(u[of[j]])
                    /\ FlattenSeq(u)[j] = u[of[j]][in[j]]
              /\ \A j, k \in 1..Len(FlattenSeq(u)) :
                    j < k => of[j] < of[k] \/ (of[j] = of[k] /\ in[j] < in[k])
<1>1. PICK f : /\ f[0] = <<>> /\ FlattenSeq(u) = f[Len(u)]
               /\ \A i \in 0..Len(u) : IsList(f[i])
               /\ \A i \in 1..Len(u) : f[i] = f[i - 1] \o u[i]
  BY ListsFlatten
<1>2. Len(u) \in Nat
  BY ListFacts DEF AreLists
<1> DEFINE Good(of, in, k) ==
              /\ \A j \in 1..Len(f[k]) :
                    /\ of[j] \in 1..k /\ in[j] \in 1..Len(u[of[j]])
                    /\ f[k][j] = u[of[j]][in[j]]
              /\ \A j, l \in 1..Len(f[k]) :
                    j < l => of[j] < of[l] \/ (of[j] = of[l] /\ in[j] < in[l])
           T == {k \in 0..Len(u) : \E of, in : Good(of, in, k)}
<1>3. 0 \in T
  <2>1. 1..Len(f[0]) = {} /\ 0 \in 0..Len(u)
    BY <1>1, <1>2, ShortLists
  <2>2. Good(<<>>, <<>>, 0)
    BY <2>1
  <2> HIDE DEF Good
  <2> QED
    BY <2>1, <2>2
<1>4. ASSUME NEW k \in 1..Len(u), k - 1 \in T
      PROVE  k \in T
  <2>1. PICK of, in : Good(of, in, k - 1)
    BY <1>4
  <2> DEFINE s == f[k - 1]
             t == u[k]
             m == Len(s)
             of1 == [j \in 1..(m + Len(t)) |-> IF j \in 1..m THEN of[j] ELSE k]
             in1 == [j \in 1..(m + Len(t)) |-> IF j \in 1..m THEN in[j] ELSE j - m]
  <2>2. k - 1 \in 0..Len(u) /\ k \in 0..Len(u) /\ k \in Nat /\ 1..(k - 1) \subseteq 1..k /\ k \in 1..k
    BY <1>2
  <2>3. f[k] = s \o t /\ IsList(s)
    BY <1>1, <2>2
  <2>4. IsList(t)
    BY DEF AreLists
  <2>5. m \in Nat /\ Len(t) \in Nat
    BY <2>3, <2>4, ListFacts
  <2> HIDE DEF s, t
  <2>6. /\ Len(f[k]) = m + Len(t)
        /\ \A i \in 1..m : f[k][i] = s[i]
        /\ \A i \in 1..m + Len(t) : i \in 1..m \/ (i - m \in 1..Len(t) /\ f[k][i] = t[i - m])
    BY <2>3, <2>4, ListsJoin
  <2>7. /\ \A j \in 1..m : of[j] \in 1..(k - 1) /\ in[j] \in 1..Len(u[of[j]]) /\ s[j] = u[of[j]][in[j]]
        /\ \A j, l \in 1..m : j < l => of[j] < of[l] \/ (of[j] = of[l] /\ in[j] < in[l])
    BY <2>1 DEF s
  <2> HIDE DEF m, Good
  <2>8. ASSUME NEW j \in 1..Len(f[k])
        PROVE  /\ of1[j] \in 1..k /\ in1[j] \in 1..Len(u[of1[j]])
               /\ f[k][j] = u[of1[j]][in1[j]]
    <3>1. CASE j \in 1..m
      <4>1. of1[j] = of[j] /\ in1[j] = in[j]
        BY <2>6, <3>1
      <4> HIDE DEF of1, in1
      <4>2. of[j] \in 1..k
        BY <2>2, <2>7, <3>1
      <4> QED
        BY <2>6, <2>7, <3>1, <4>1, <4>2
    <3>2. CASE j \notin 1..m
      <4>1. of1[j] = k /\ in1[j] = j - m
        BY <2>6, <3>2
      <4> HIDE DEF of1, in1
      <4>2. j - m \in 1..Len(t) /\ f[k][j] = t[j - m]
        BY <2>6, <3>2
      <4> QED
        BY <2>2, <4>1, <4>2 DEF t
    <3> QED
      BY <3>1, <3>2
  <2>9. ASSUME NEW j \in 1..Len(f[k]), NEW l \in 1..Len(f[k]), j < l
        PROVE  of1[j] < of1[l] \/ (of1[j] = of1[l] /\ in1[j] < in1[l])
    <3>0. /\ of1[j] = IF j \in 1..m THEN of[j] ELSE k
          /\ of1[l] = IF l \in 1..m THEN of[l] ELSE k
          /\ in1[j] = IF j \in 1..m THEN in[j] ELSE j - m
          /\ in1[l] = IF l \in 1..m THEN in[l] ELSE l - m
      BY <2>6
    <3> HIDE DEF of1, in1
    <3>1. CASE j \in 1..m /\ l \in 1..m
      BY <2>7, <2>9, <3>0, <3>1
    <3>2. CASE j \in 1..m /\ l \notin 1..m
      <4>1. of[j] < k
        BY <2>2, <2>7, <3>2
      <4> QED
        BY <3>0, <3>2, <4>1
    <3>3. CASE j \notin 1..m
      BY <2>5, <2>6, <2>9, <3>0, <3>3
    <3> QED
      BY <3>1, <3>2, <3>3
  <2> HIDE DEF of1, in1
  <2>10. Good(of1, in1, k)
    BY <2>8, <2>9 DEF Good
  <2> QED
    BY <2>2, <2>10
<1>5. Len(u) \in T
  <2>1. T \in SUBSET (0..Len(u))
    OBVIOUS
  <2> HIDE DEF T
  <2>2. T = 0..Len(u)
    BY <1>2, <1>3, <1>4, <2>1, UpTo
  <2> QED
    BY <1>2, <2>2
<1> DEFINE Placed(t) ==
              \E of, in :
                 /\ \A j \in 1..Len(t) :
                       /\ of[j] \in 1..Len(u) /\ in[j] \in 1..Len(u[of[j]])
                       /\ t[j] = u[of[j]][in[j]]
                 /\ \A j, k \in 1..Len(t) :
                       j < k => of[j] < of[k] \/ (of[j] = of[k] /\ in[j] < in[k])
<1>6. Placed(f[Len(u)])
  BY <1>5
<1>7. FlattenSeq(u) = f[Len(u)]
  BY <1>1
<1>8. Placed(FlattenSeq(u))
  <2> HIDE DEF Placed
  <2> QED
    BY <1>6, <1>7
<1> QED
  BY <1>8

(* Lists of one, flattened, are the list of what they hold.                *)
LEMMA SinglesFlatten ==
    ASSUME NEW s, IsList(s)
    PROVE  FlattenSeq([k \in DOMAIN s |-> <<s[k]>>]) = s
<1> DEFINE u == [k \in DOMAIN s |-> <<s[k]>>]
<1>1. DOMAIN s = 1..Len(s) /\ Len(s) \in Nat
  BY ListFacts
<1>2. \A k \in 1..Len(s) : u[k] = <<s[k]>>
  BY <1>1
<1>3. u = [k \in 1..Len(s) |-> u[k]]
  BY <1>1
<1> HIDE DEF u
<1>4. IsList(u) /\ Len(u) = Len(s)
  BY <1>1, <1>3, MadeIsList
<1>5. AreLists(u)
  <2>1. \A k \in 1..Len(s) : IsList(u[k])
    <3> TAKE k \in 1..Len(s)
    <3>1. IsList(<<s[k]>>) /\ u[k] = <<s[k]>>
      BY <1>2, ShortLists
    <3> QED
      BY <3>1
  <2> QED
    BY <1>4, <2>1 DEF AreLists
<1>6. PICK f : /\ f[0] = <<>> /\ FlattenSeq(u) = f[Len(u)]
               /\ \A i \in 0..Len(u) : IsList(f[i])
               /\ \A i \in 1..Len(u) : f[i] = f[i - 1] \o u[i]
  BY <1>5, ListsFlatten
<1> DEFINE T == {k \in 0..Len(s) : Len(f[k]) = k /\ \A j \in 1..k : f[k][j] = s[j]}
<1>7. 0 \in T
  BY <1>1, <1>6, ShortLists
<1>8. ASSUME NEW k \in 1..Len(s), k - 1 \in T
      PROVE  k \in T
  <2>1. k - 1 \in 0..Len(s) /\ k \in 0..Len(s) /\ (k - 1) + 1 = k /\ 1..k = 1..(k - 1) \cup {k}
    BY <1>1
  <2>2. Len(f[k - 1]) = k - 1 /\ \A j \in 1..(k - 1) : f[k - 1][j] = s[j]
    BY <1>8
  <2>3. IsList(f[k - 1]) /\ f[k] = f[k - 1] \o <<s[k]>>
    BY <1>2, <1>4, <1>6, <2>1
  <2>4. /\ Len(f[k]) = k /\ f[k][k] = s[k]
        /\ \A j \in 1..(k - 1) : f[k][j] = f[k - 1][j]
    <3> DEFINE t == f[k - 1]
               st == Append(t, s[k])
    <3>1. /\ st = t \o <<s[k]>> /\ Len(st) = Len(t) + 1 /\ st[Len(t) + 1] = s[k]
          /\ \A j \in 1..Len(t) : st[j] = t[j]
      BY <2>3, ListAppends
    <3> HIDE DEF st
    <3> QED
      BY <2>1, <2>2, <2>3, <3>1
  <2> QED
    BY <2>1, <2>2, <2>4
<1>9. T = 0..Len(s)
  <2>1. T \in SUBSET (0..Len(s))
    OBVIOUS
  <2> HIDE DEF T
  <2> QED
    BY <1>1, <1>7, <1>8, <2>1, UpTo
<1>10. Len(s) \in T
  BY <1>1, <1>9
<1>11. IsList(f[Len(s)]) /\ Len(f[Len(s)]) = Len(s) /\ \A j \in 1..Len(s) : f[Len(s)][j] = s[j]
  BY <1>1, <1>4, <1>6, <1>10
<1>12. f[Len(s)] = s
  BY <1>11, SameLists
<1> QED
  BY <1>4, <1>6, <1>12 DEF u

(* The beginning of a list.                                                *)
LEMMA BeginningOf ==
    ASSUME NEW s, IsList(s), NEW n \in 0..Len(s)
    PROVE  /\ IsList(SubSeq(s, 1, n)) /\ Len(SubSeq(s, 1, n)) = n
           /\ \A i \in 1..n : SubSeq(s, 1, n)[i] = s[i]
<1>1. s \in Seq(Range(s)) /\ Len(s) \in Nat
  BY ListFacts DEF IsList
<1>2. SubSeq(s, 1, n) \in Seq(Range(s)) /\ Len(SubSeq(s, 1, n)) = n /\ \A i \in 1..n : SubSeq(s, 1, n)[i] = s[i]
  BY <1>1
<1> QED
  BY <1>2, SeqIsList

(* A list that has at each of its places what another has is a prefix of   *)
(* it.                                                                     *)
LEMMA PrefixOf ==
    ASSUME NEW s, NEW t, IsList(s), IsList(t), Len(s) <= Len(t), \A j \in 1..Len(s) : s[j] = t[j]
    PROVE  IsPrefix(s, t)
<1> DEFINE n == Len(s)
           a == SubSeq(s, 1, n)
           b == SubSeq(t, 1, n)
<1>1. n \in Nat /\ Len(t) \in Nat /\ n \in 0..Len(s) /\ n \in 0..Len(t)
  BY ListFacts
<1>2. IsList(a) /\ Len(a) = n /\ \A j \in 1..n : a[j] = s[j]
  BY <1>1, BeginningOf
<1>3. IsList(b) /\ Len(b) = n /\ \A j \in 1..n : b[j] = t[j]
  BY <1>1, BeginningOf
<1> HIDE DEF a, b
<1>4. a = b
  BY <1>2, <1>3, SameLists
<1> QED
  BY <1>4 DEF a, b, IsPrefix

(* -------------------------------------------------- lists of events -- *)

(* What tells events apart: where they are, and what they are.             *)
Identity(e) == <<e.loc, e.kind>>

(* Events at one place, no two of them with one identity. *)
Own(evs, n) ==
    /\ IsList(evs)
    /\ \A i, j \in 1..Len(evs) : i < j => Identity(evs[i]) # Identity(evs[j])
    /\ \A e \in Range(evs) : e.loc[1] = n

(* Such events that are in some parts of the place, and all with one stamp *)
(* but for those that are unparsed.                                        *)
Tells(evs, n, parts, stamp) ==
    /\ Own(evs, n)
    /\ \A e \in Range(evs) :
          /\ e.loc[2] \in parts
          /\ e.kind = "unparsed.record" \/ e.stamp = stamp

(* The same of events that are all of one number. *)
TellsOf(evs, n, parts, k, stamp) ==
    Tells(evs, n, parts, stamp) /\ \A e \in Range(evs) : e.loc[3] = k

(* Two lists of events none of which is in the other. *)
Apart(s, t) == \A x \in Range(s), y \in Range(t) : Identity(x) # Identity(y)

(* Nothing, and one event.                                                 *)
LEMMA OwnShort ==
    /\ \A n : Own(<<>>, n)
    /\ \A n, e : e.loc[1] = n => Own(<<e>>, n)
<1>1. 1..Len(<<>>) = {}
  BY ShortLists
<1>2. \A n : Own(<<>>, n)
  BY <1>1, ShortLists DEF Own
<1>3. ASSUME NEW n, NEW e, e.loc[1] = n
      PROVE  Own(<<e>>, n)
  <2>1. IsList(<<e>>) /\ Range(<<e>>) = {e} /\ Len(<<e>>) = 1
    BY ShortLists
  <2>2. \A i, j \in 1..1 : ~(i < j)
    OBVIOUS
  <2> QED
    BY <1>3, <2>1, <2>2 DEF Own
<1> QED
  BY <1>2, <1>3

(* Events of which no two have one identity. *)
Distinct(evs) ==
    IsList(evs) /\ \A i, j \in 1..Len(evs) : i < j => Identity(evs[i]) # Identity(evs[j])

(* Some events after others.                                               *)
LEMMA DistinctJoin ==
    ASSUME NEW s, NEW t, Distinct(s), Distinct(t), Apart(s, t)
    PROVE  /\ Distinct(s \o t) /\ Range(s \o t) = Range(s) \cup Range(t)
           /\ (s # <<>> \/ t # <<>>) => s \o t # <<>>
<1> DEFINE st == s \o t
<1>0. IsList(s) /\ IsList(t)
  BY DEF Distinct
<1>1. /\ Len(s) \in Nat /\ Len(t) \in Nat
      /\ IsList(st) /\ Range(st) = Range(s) \cup Range(t) /\ Len(st) = Len(s) + Len(t)
      /\ \A i \in 1..Len(s) : st[i] = s[i]
      /\ \A i \in 1..Len(s) + Len(t) : i \in 1..Len(s) \/ (i - Len(s) \in 1..Len(t) /\ st[i] = t[i - Len(s)])
  BY <1>0, ListsJoin, ListFacts
<1>2. /\ \A i \in 1..Len(s) : s[i] \in Range(s)
      /\ \A i \in 1..Len(t) : t[i] \in Range(t)
  BY <1>0, ListFacts
<1> HIDE DEF st
<1>3. ASSUME NEW i \in 1..Len(st), NEW j \in 1..Len(st), i < j
      PROVE  Identity(st[i]) # Identity(st[j])
  <2>1. CASE i \in 1..Len(s) /\ j \in 1..Len(s)
    BY <1>1, <1>3, <2>1 DEF Distinct
  <2>2. CASE i \in 1..Len(s) /\ j \notin 1..Len(s)
    <3>1. st[i] \in Range(s) /\ st[j] \in Range(t)
      BY <1>1, <1>2, <2>2
    <3> QED
      BY <3>1 DEF Apart
  <2>3. CASE i \notin 1..Len(s)
    <3>1. /\ i - Len(s) \in 1..Len(t) /\ j - Len(s) \in 1..Len(t) /\ i - Len(s) < j - Len(s)
          /\ st[i] = t[i - Len(s)] /\ st[j] = t[j - Len(s)]
      BY <1>1, <1>3, <2>3
    <3> QED
      BY <3>1 DEF Distinct
  <2> QED
    BY <2>1, <2>2, <2>3
<1>4. Distinct(st)
  BY <1>1, <1>3 DEF Distinct
<1>5. (s # <<>> \/ t # <<>>) => st # <<>>
  BY <1>0, <1>1, ListFacts
<1> QED
  BY <1>1, <1>4, <1>5 DEF st

(* Some events of a place after others of it.                              *)
LEMMA OwnJoin ==
    ASSUME NEW s, NEW t, NEW n, Own(s, n), Own(t, n), Apart(s, t)
    PROVE  /\ Own(s \o t, n) /\ Range(s \o t) = Range(s) \cup Range(t)
           /\ (s # <<>> \/ t # <<>>) => s \o t # <<>>
<1>1. Distinct(s) /\ Distinct(t)
  BY DEF Own, Distinct
<1>2. /\ Distinct(s \o t) /\ Range(s \o t) = Range(s) \cup Range(t)
      /\ (s # <<>> \/ t # <<>>) => s \o t # <<>>
  BY <1>1, DistinctJoin
<1> QED
  BY <1>2 DEF Own, Distinct

(* The events of every one of a list, apart from those of the others.      *)
LEMMA OwnEach ==
    ASSUME NEW u, NEW n, IsList(u), \A i \in 1..Len(u) : Own(u[i], n),
           \A i, j \in 1..Len(u) : i < j => Apart(u[i], u[j])
    PROVE  /\ Own(FlattenSeq(u), n)
           /\ Range(FlattenSeq(u)) = UNION {Range(u[i]) : i \in 1..Len(u)}
           /\ (\E i \in 1..Len(u) : u[i] # <<>>) => FlattenSeq(u) # <<>>
<1> DEFINE F == FlattenSeq(u)
<1>1. AreLists(u)
  BY DEF AreLists, Own
<1>2. IsList(F) /\ Range(F) = UNION {Range(u[i]) : i \in 1..Len(u)}
  BY <1>1, FlattenFacts
<1>3. PICK of, in :
              /\ \A j \in 1..Len(F) :
                    /\ of[j] \in 1..Len(u) /\ in[j] \in 1..Len(u[of[j]])
                    /\ F[j] = u[of[j]][in[j]]
              /\ \A j, k \in 1..Len(F) :
                    j < k => of[j] < of[k] \/ (of[j] = of[k] /\ in[j] < in[k])
  BY <1>1, FlattenPlaces
<1>4. /\ Len(u) \in Nat
      /\ \A i \in 1..Len(u) : /\ IsList(u[i]) /\ Len(u[i]) \in Nat
                              /\ \A j \in 1..Len(u[i]) : u[i][j] \in Range(u[i])
  BY <1>1, ListFacts DEF AreLists
<1> HIDE DEF F
<1>5. ASSUME NEW i \in 1..Len(F), NEW j \in 1..Len(F), i < j
      PROVE  Identity(F[i]) # Identity(F[j])
  <2> DEFINE a == of[i]
             b == of[j]
  <2>1. /\ a \in 1..Len(u) /\ in[i] \in 1..Len(u[a]) /\ F[i] = u[a][in[i]]
        /\ b \in 1..Len(u) /\ in[j] \in 1..Len(u[b]) /\ F[j] = u[b][in[j]]
        /\ a < b \/ (a = b /\ in[i] < in[j])
    BY <1>3, <1>5
  <2> HIDE DEF a, b
  <2>2. CASE a < b
    <3>1. F[i] \in Range(u[a]) /\ F[j] \in Range(u[b])
      BY <1>4, <2>1
    <3>2. Apart(u[a], u[b])
      BY <2>1, <2>2
    <3> QED
      BY <3>1, <3>2 DEF Apart
  <2>3. CASE a = b /\ in[i] < in[j]
    <3>1. Own(u[a], n)
      BY <2>1
    <3> QED
      BY <2>1, <2>3, <3>1 DEF Own
  <2> QED
    BY <2>1, <2>2, <2>3
<1>6. \A e \in Range(F) : \E i \in 1..Len(u) : e \in Range(u[i])
  BY <1>2
<1>7. Own(F, n)
  <2>1. \A e \in Range(F) : e.loc[1] = n
    BY <1>6 DEF Own
  <2> QED
    BY <1>2, <1>5, <2>1 DEF Own
<1>8. ASSUME NEW i \in 1..Len(u), u[i] # <<>>
      PROVE  F # <<>>
  <2>1. Range(u[i]) # {}
    BY <1>4, <1>8, ListFacts
  <2>2. Range(F) # {}
    BY <1>2, <2>1
  <2> QED
    BY <2>2, ShortLists
<1> QED
  BY <1>2, <1>7, <1>8 DEF F

(* The same of events that are told of one element.                        *)
LEMMA TellsNone ==
    ASSUME NEW n, NEW parts, NEW k, NEW stamp
    PROVE  TellsOf(<<>>, n, parts, k, stamp) /\ Tells(<<>>, n, parts, stamp)
BY OwnShort, ShortLists DEF TellsOf, Tells

(* One event.                                                              *)
LEMMA TellsOne ==
    ASSUME NEW e, NEW n, NEW part, NEW k, NEW stamp, e.loc = <<n, part, k>>,
           e.kind = "unparsed.record" \/ e.stamp = stamp
    PROVE  /\ TellsOf(<<e>>, n, {part}, k, stamp) /\ Tells(<<e>>, n, {part}, stamp)
           /\ <<e>> # <<>>
<1>1. Range(<<e>>) = {e} /\ <<e>> # <<>>
  BY ShortLists
<1>2. e.loc[1] = n /\ e.loc[2] = part /\ e.loc[3] = k
  OBVIOUS
<1>3. Own(<<e>>, n)
  BY <1>2, OwnShort
<1> QED
  BY <1>1, <1>2, <1>3 DEF TellsOf, Tells

(* What is in some parts is in more of them.                               *)
LEMMA TellsMore ==
    ASSUME NEW evs, NEW n, NEW parts, NEW more, NEW k, NEW stamp, parts \subseteq more
    PROVE  /\ Tells(evs, n, parts, stamp) => Tells(evs, n, more, stamp)
           /\ TellsOf(evs, n, parts, k, stamp) => TellsOf(evs, n, more, k, stamp)
BY DEF TellsOf, Tells

(* Events that have other identities, one after the other.                 *)
LEMMA TellsApart ==
    ASSUME NEW s, NEW t, NEW n, NEW p, NEW q, NEW stamp,
           Tells(s, n, p, stamp), Tells(t, n, q, stamp),
           \A x \in Range(s), y \in Range(t) : Identity(x) # Identity(y)
    PROVE  /\ Tells(s \o t, n, p \cup q, stamp)
           /\ (s # <<>> \/ t # <<>>) => s \o t # <<>>
           /\ \A k : TellsOf(s, n, p, k, stamp) /\ TellsOf(t, n, q, k, stamp)
                        => TellsOf(s \o t, n, p \cup q, k, stamp)
           /\ Range(s \o t) = Range(s) \cup Range(t)
<1> DEFINE st == s \o t
<1>1. Own(s, n) /\ Own(t, n) /\ Apart(s, t)
  BY DEF Tells, Apart
<1>2. /\ Own(st, n) /\ Range(st) = Range(s) \cup Range(t)
      /\ (s # <<>> \/ t # <<>>) => st # <<>>
  BY <1>1, OwnJoin
<1> HIDE DEF st
<1>3. Tells(st, n, p \cup q, stamp)
  BY <1>2 DEF Tells
<1>4. ASSUME NEW k, TellsOf(s, n, p, k, stamp), TellsOf(t, n, q, k, stamp)
      PROVE  TellsOf(st, n, p \cup q, k, stamp)
  BY <1>2, <1>3, <1>4 DEF TellsOf
<1> QED
  BY <1>2, <1>3, <1>4 DEF st

(* Events of different parts have.                                         *)
LEMMA TellsJoin ==
    ASSUME NEW s, NEW t, NEW n, NEW p, NEW q, NEW stamp,
           Tells(s, n, p, stamp), Tells(t, n, q, stamp), p \cap q = {}
    PROVE  /\ Tells(s \o t, n, p \cup q, stamp)
           /\ (s # <<>> \/ t # <<>>) => s \o t # <<>>
           /\ \A k : TellsOf(s, n, p, k, stamp) /\ TellsOf(t, n, q, k, stamp)
                        => TellsOf(s \o t, n, p \cup q, k, stamp)
<1>1. ASSUME NEW x \in Range(s), NEW y \in Range(t)
      PROVE  Identity(x) # Identity(y)
  <2>1. x.loc[2] \in p /\ y.loc[2] \in q
    BY DEF Tells
  <2>2. x.loc # y.loc
    BY <2>1
  <2> QED
    BY <2>2 DEF Identity
<1> QED
  BY <1>1, TellsApart

(* Three of them.                                                          *)
LEMMA TellsThree ==
    ASSUME NEW a, NEW b, NEW c, NEW n, NEW p, NEW q, NEW r, NEW stamp,
           Tells(a, n, p, stamp), Tells(b, n, q, stamp), Tells(c, n, r, stamp),
           p \cap q = {}, (p \cup q) \cap r = {}
    PROVE  /\ Tells((a \o b) \o c, n, (p \cup q) \cup r, stamp)
           /\ (a # <<>> \/ b # <<>> \/ c # <<>>) => (a \o b) \o c # <<>>
<1> DEFINE ab == a \o b
           pq == p \cup q
<1>1. Tells(ab, n, pq, stamp) /\ ((a # <<>> \/ b # <<>>) => ab # <<>>)
  BY TellsJoin
<1>2. pq \cap r = {}
  OBVIOUS
<1> HIDE DEF ab, pq
<1>3. Tells(ab \o c, n, pq \cup r, stamp) /\ ((ab # <<>> \/ c # <<>>) => ab \o c # <<>>)
  BY <1>1, <1>2, TellsJoin
<1> QED
  BY <1>1, <1>3 DEF ab, pq

(* The events of every one of a list, each with a number of its own.       *)
LEMMA TellsEach ==
    ASSUME NEW u, NEW n, NEW parts, NEW stamp, NEW num, IsList(u),
           \A i \in 1..Len(u) : TellsOf(u[i], n, parts, num[i], stamp),
           \A i, j \in 1..Len(u) : i < j => num[i] # num[j]
    PROVE  /\ Tells(FlattenSeq(u), n, parts, stamp)
           /\ (\E i \in 1..Len(u) : u[i] # <<>>) => FlattenSeq(u) # <<>>
<1> DEFINE F == FlattenSeq(u)
<1>1. \A i \in 1..Len(u) : Own(u[i], n)
  BY DEF TellsOf, Tells
<1>2. ASSUME NEW i \in 1..Len(u), NEW j \in 1..Len(u), i < j
      PROVE  Apart(u[i], u[j])
  <2> SUFFICES ASSUME NEW x \in Range(u[i]), NEW y \in Range(u[j]) PROVE Identity(x) # Identity(y)
    BY DEF Apart
  <2>1. x.loc[3] = num[i] /\ y.loc[3] = num[j] /\ num[i] # num[j]
    BY <1>2 DEF TellsOf
  <2>2. x.loc # y.loc
    BY <2>1
  <2> QED
    BY <2>2 DEF Identity
<1>3. /\ Own(F, n) /\ Range(F) = UNION {Range(u[i]) : i \in 1..Len(u)}
      /\ (\E i \in 1..Len(u) : u[i] # <<>>) => F # <<>>
  BY <1>1, <1>2, OwnEach
<1> HIDE DEF F
<1>4. \A e \in Range(F) : e.loc[2] \in parts /\ (e.kind = "unparsed.record" \/ e.stamp = stamp)
  BY <1>3 DEF TellsOf, Tells
<1> QED
  BY <1>3, <1>4 DEF Tells, F

(* What is chosen out of a list is a list of what is in it.                *)
LEMMA ChosenFacts ==
    ASSUME NEW list, NEW u, IsList(list), u = [i \in DOMAIN list |-> u[i]],
           \A i \in DOMAIN list : u[i] \in {<<>>, <<list[i]>>}
    PROVE  IsList(FlattenSeq(u)) /\ Range(FlattenSeq(u)) \subseteq Range(list)
<1>1. DOMAIN list = 1..Len(list) /\ Len(list) \in Nat /\ \A i \in 1..Len(list) : list[i] \in Range(list)
  BY ListFacts
<1>2. IsList(u) /\ Len(u) = Len(list)
  BY <1>1, MadeIsList
<1>3. \A i \in 1..Len(list) : IsList(u[i]) /\ Range(u[i]) \subseteq Range(list)
  <2> TAKE i \in 1..Len(list)
  <2>1. u[i] = <<>> \/ u[i] = <<list[i]>>
    BY <1>1
  <2> QED
    BY <1>1, <2>1, ShortLists
<1>4. AreLists(u)
  BY <1>2, <1>3 DEF AreLists
<1>5. Range(FlattenSeq(u)) = UNION {Range(u[i]) : i \in 1..Len(u)}
  BY <1>4, FlattenFacts
<1> QED
  BY <1>2, <1>3, <1>4, <1>5, FlattenFacts

(* The events of every item of a list, the number of the item in each.     *)
LEMMA EachTells ==
    ASSUME NEW items0, IsList(items0), NEW u, u = [i \in DOMAIN items0 |-> u[i]],
           NEW n, NEW parts, NEW stamp,
           \A i \in 1..Len(items0) : TellsOf(u[i], n, parts, i - 1, stamp)
    PROVE  /\ Tells(FlattenSeq(u), n, parts, stamp)
           /\ (\A i \in 1..Len(items0) : u[i] # <<>>) /\ items0 # <<>> => FlattenSeq(u) # <<>>
<1>1. /\ DOMAIN items0 = 1..Len(items0) /\ Len(items0) \in Nat
      /\ (items0 # <<>> => 1 \in 1..Len(items0))
  BY ListFacts
<1>2. IsList(u) /\ Len(u) = Len(items0)
  BY <1>1, MadeIsList
<1> DEFINE num == [i \in 1..Len(u) |-> i - 1]
<1>3. /\ \A i \in 1..Len(u) : num[i] = i - 1
      /\ \A i, j \in 1..Len(u) : i < j => num[i] # num[j]
  BY <1>1, <1>2
<1> HIDE DEF num
<1>4. \A i \in 1..Len(u) : TellsOf(u[i], n, parts, num[i], stamp)
  BY <1>2, <1>3
<1>5. /\ Tells(FlattenSeq(u), n, parts, stamp)
      /\ (\E i \in 1..Len(u) : u[i] # <<>>) => FlattenSeq(u) # <<>>
  BY <1>2, <1>3, <1>4, TellsEach
<1> QED
  BY <1>1, <1>2, <1>5

(* Nothing, and one event, are no two events.                              *)
LEMMA OneIsDistinct == Distinct(<<>>) /\ \A e : Distinct(<<e>>)
<1>1. ASSUME NEW e
      PROVE  Distinct(<<e>>)
  <2>1. IsList(<<e>>) /\ Len(<<e>>) = 1
    BY ShortLists
  <2>2. \A i, j \in 1..1 : ~(i < j)
    OBVIOUS
  <2> QED
    BY <2>1, <2>2 DEF Distinct
<1>2. 1..Len(<<>>) = {}
  BY ShortLists
<1> QED
  BY <1>1, <1>2, ShortLists DEF Distinct

(* A key and a number after it.                                            *)
LEMMA Appended == \A key, j : Append(<<key>>, j) = <<key, j>>
<1> TAKE key, j
<1> DEFINE a == <<key>>
           s == Append(a, j)
           t == <<key, j>>
<1>1. IsList(a) /\ Len(a) = 1 /\ a[1] = key
  BY ShortLists
<1> HIDE DEF a
<1>2. IsList(s) /\ Len(s) = 2 /\ s[2] = j /\ s[1] = key
  <2>1. IsList(s) /\ Len(s) = Len(a) + 1 /\ s[Len(a) + 1] = j /\ \A i \in 1..Len(a) : s[i] = a[i]
    BY <1>1, ListAppends
  <2> HIDE DEF s
  <2> QED
    BY <1>1, <2>1
<1>3. t \in Seq({key, j}) /\ Len(t) = 2 /\ t[1] = key /\ t[2] = j
  OBVIOUS
<1> HIDE DEF s, t
<1>4. IsList(t)
  BY <1>3, SeqIsList
<1>5. \A i \in 1..Len(s) : s[i] = t[i]
  BY <1>2, <1>3
<1>6. s = t
  BY <1>2, <1>3, <1>4, <1>5, SameLists
<1> QED
  BY <1>6 DEF a, s, t

(* The largest number of a set that has one. *)
LEMMA LargestIs ==
    ASSUME NEW S, NEW m \in S, \A k \in S : k <= m /\ k \in Nat
    PROVE  Max(S) = m
<1>1. \A j \in S : (\A k \in S : j >= k) => j = m
  OBVIOUS
<1>2. \A k \in S : m >= k
  OBVIOUS
<1> QED
  BY <1>1, <1>2 DEF Max

(* As much of a list as there is room for.                                 *)
LEMMA RoomFor ==
    ASSUME NEW s, IsList(s), NEW room \in Nat
    PROVE  LET read == IF Len(s) <= room THEN s ELSE SubSeq(s, 1, room)
           IN  /\ IsList(read) /\ Len(read) \in 0..room
               /\ Len(read) <= Len(s) /\ \A j \in 1..Len(read) : read[j] = s[j]
               /\ IF Len(s) <= room THEN read = s ELSE Len(read) = room
<1>1. Len(s) \in Nat
  BY ListFacts
<1>2. CASE Len(s) <= room
  BY <1>1, <1>2
<1>3. CASE ~(Len(s) <= room)
  <2> DEFINE t == SubSeq(s, 1, room)
  <2>1. room \in 0..Len(s)
    BY <1>1, <1>3
  <2>2. IsList(t) /\ Len(t) = room /\ \A j \in 1..room : t[j] = s[j]
    BY <2>1, BeginningOf
  <2> HIDE DEF t
  <2>3. IsList(t) /\ Len(t) \in 0..room /\ Len(t) <= Len(s) /\ \A j \in 1..Len(t) : t[j] = s[j]
    BY <2>1, <2>2
  <2> QED
    BY <1>3, <2>2, <2>3 DEF t
<1> QED
  BY <1>2, <1>3

(* A list is its beginning and its rest.                                   *)
LEMMA BeginningAndRest ==
    ASSUME NEW t, IsList(t), NEW m \in 0..Len(t)
    PROVE  IsList(SubSeq(t, m + 1, Len(t))) /\ SubSeq(t, 1, m) \o SubSeq(t, m + 1, Len(t)) = t
<1> DEFINE a == SubSeq(t, 1, m)
           b == SubSeq(t, m + 1, Len(t))
<1>1. t \in Seq(Range(t)) /\ Len(t) \in Nat
  BY ListFacts DEF IsList
<1>2. b \in Seq(Range(t)) /\ Len(b) = Len(t) - m /\ \A i \in 1..(Len(t) - m) : b[i] = t[m + i]
  BY <1>1
<1>3. IsList(b)
  BY <1>2, SeqIsList
<1>4. IsList(a) /\ Len(a) = m /\ \A i \in 1..m : a[i] = t[i]
  BY BeginningOf
<1> HIDE DEF a, b
<1>5. /\ IsList(a \o b) /\ Len(a \o b) = Len(t)
      /\ \A i \in 1..m : (a \o b)[i] = a[i]
      /\ \A i \in 1..Len(t) : i \in 1..m \/ (i - m \in 1..(Len(t) - m) /\ (a \o b)[i] = b[i - m])
  <2>1. Len(a) + Len(b) = Len(t)
    BY <1>1, <1>2, <1>4
  <2> QED
    BY <1>2, <1>3, <1>4, <2>1, ListsJoin
<1>6. \A i \in 1..Len(t) : (a \o b)[i] = t[i]
  <2> TAKE i \in 1..Len(t)
  <2>1. CASE i \in 1..m
    BY <1>4, <1>5, <2>1
  <2>2. CASE i \notin 1..m
    <3>1. i - m \in 1..(Len(t) - m) /\ (a \o b)[i] = b[i - m] /\ m + (i - m) = i
      BY <1>1, <1>5, <2>2
    <3> QED
      BY <1>2, <3>1
  <2> QED
    BY <2>1, <2>2
<1>7. a \o b = t
  BY <1>5, <1>6, SameLists
<1> QED
  BY <1>3, <1>7 DEF a, b

(* Two lists flattened are the first and then the second.                  *)
LEMMA FlattenTwo ==
    ASSUME NEW x, NEW y, IsList(x), IsList(y), NEW u, u = [i \in 1..2 |-> u[i]], u[1] = x, u[2] = y
    PROVE  FlattenSeq(u) = x \o y
<1>1. IsList(u) /\ Len(u) = 2
  BY MadeIsList
<1>2. AreLists(u)
  <2>1. \A i \in 1..2 : i = 1 \/ i = 2
    OBVIOUS
  <2> QED
    BY <1>1, <2>1 DEF AreLists
<1>3. PICK f : /\ f[0] = <<>> /\ FlattenSeq(u) = f[Len(u)]
               /\ \A i \in 0..Len(u) : IsList(f[i])
               /\ \A i \in 1..Len(u) : f[i] = f[i - 1] \o u[i]
  BY <1>2, ListsFlatten
<1>2a. 1 \in 1..Len(u) /\ 2 \in 1..Len(u) /\ 1 - 1 = 0 /\ 2 - 1 = 1
  BY <1>1
<1>4. f[1] = f[0] \o u[1]
  BY <1>3, <1>2a
<1>5. f[2] = f[1] \o u[2]
  BY <1>3, <1>2a
<1>6. <<>> \o x = x
  BY ShortLists, ListsJoin
<1> QED
  BY <1>1, <1>3, <1>4, <1>5, <1>6

(* What is made of each of the elements of a list. *)
Made(g, s) == [i \in DOMAIN s |-> g[s[i]]]

(* What is made of each of the elements of two lists that are joined.      *)
LEMMA EachOfJoin ==
    ASSUME NEW s, NEW t, IsList(s), IsList(t), NEW g,
           \A x \in Range(s) \cup Range(t) : IsList(g[x])
    PROVE  AreLists(Made(g, s)) /\ FlattenSeq(Made(g, s \o t)) = FlattenSeq(Made(g, s)) \o FlattenSeq(Made(g, t))
<1> DEFINE st == s \o t
           u == Made(g, s)
           v == Made(g, t)
           w == Made(g, st)
<1>1. /\ Len(s) \in Nat /\ DOMAIN s = 1..Len(s) /\ \A i \in 1..Len(s) : s[i] \in Range(s)
      /\ Len(t) \in Nat /\ DOMAIN t = 1..Len(t) /\ \A i \in 1..Len(t) : t[i] \in Range(t)
  BY ListFacts
<1>2. /\ IsList(st) /\ Len(st) = Len(s) + Len(t)
      /\ \A i \in 1..Len(s) : st[i] = s[i]
      /\ \A i \in 1..Len(s) + Len(t) : i \in 1..Len(s) \/ (i - Len(s) \in 1..Len(t) /\ st[i] = t[i - Len(s)])
  BY ListsJoin
<1>3. DOMAIN st = 1..(Len(s) + Len(t))
  BY <1>2, ListFacts
<1> HIDE DEF st
<1>4. /\ IsList(u) /\ Len(u) = Len(s) /\ IsList(v) /\ Len(v) = Len(t)
      /\ IsList(w) /\ Len(w) = Len(s) + Len(t)
  BY <1>1, <1>3, MadeIsList DEF Made
<1>5. AreLists(u) /\ AreLists(v)
  BY <1>1, <1>4 DEF AreLists, Made
<1>6. w = u \o v
  <2>1. /\ IsList(u \o v) /\ Len(u \o v) = Len(s) + Len(t)
        /\ \A i \in 1..Len(s) : (u \o v)[i] = u[i]
        /\ \A i \in 1..Len(s) + Len(t) :
              i \in 1..Len(s) \/ (i - Len(s) \in 1..Len(t) /\ (u \o v)[i] = v[i - Len(s)])
    BY <1>4, ListsJoin
  <2>2. \A i \in 1..(Len(s) + Len(t)) : w[i] = (u \o v)[i]
    <3> TAKE i \in 1..(Len(s) + Len(t))
    <3>1. w[i] = g[st[i]]
      BY <1>3 DEF Made
    <3>2. CASE i \in 1..Len(s)
      BY <1>1, <1>2, <2>1, <3>1, <3>2 DEF Made
    <3>3. CASE i \notin 1..Len(s)
      <4>1. /\ i - Len(s) \in 1..Len(t) /\ st[i] = t[i - Len(s)]
            /\ (u \o v)[i] = v[i - Len(s)]
        BY <1>2, <2>1, <3>3
      <4> QED
        BY <1>1, <3>1, <4>1 DEF Made
    <3> QED
      BY <3>2, <3>3
  <2> HIDE DEF u, v, w
  <2> QED
    BY <1>4, <2>1, <2>2, SameLists
<1> QED
  BY <1>5, <1>6, FlattenOfJoin DEF st

(* Of an element: what its reader answers is told of it, and is something. *)
Answers(evs, n, stamp) == (\E parts : Tells(evs, n, parts, stamp)) /\ evs # <<>>

(* Events at one place, and at least one of them. *)
AllAt(evs, n) == IsList(evs) /\ evs # <<>> /\ \A e \in Range(evs) : e.loc[1] = n

(* What answers is at its place.                                           *)
LEMMA AnswersAt ==
    ASSUME NEW evs, NEW n, NEW stamp, Answers(evs, n, stamp)
    PROVE  AllAt(evs, n)
BY DEF Answers, Tells, Own, AllAt

(* More events at the same place.                                          *)
LEMMA AtJoin ==
    ASSUME NEW s, NEW t, NEW n, AllAt(s, n), IsList(t), \A e \in Range(t) : e.loc[1] = n
    PROVE  AllAt(s \o t, n)
<1>1. /\ IsList(s \o t) /\ Range(s \o t) = Range(s) \cup Range(t)
      /\ Len(s \o t) = Len(s) + Len(t)
  BY ListsJoin DEF AllAt
<1>2. Len(s) \in Nat /\ Len(t) \in Nat /\ Len(s) # 0
  BY ListFacts DEF AllAt
<1>3. s \o t # <<>>
  BY <1>1, <1>2, ListFacts
<1> QED
  BY <1>1, <1>3 DEF AllAt

(* The events of the items of a list, all at one place.                    *)
LEMMA EachAt ==
    ASSUME NEW items0, IsList(items0), items0 # <<>>, NEW u, u = [i \in DOMAIN items0 |-> u[i]],
           NEW n, \A i \in 1..Len(items0) : AllAt(u[i], n)
    PROVE  AllAt(FlattenSeq(u), n)
<1>1. /\ DOMAIN items0 = 1..Len(items0) /\ Len(items0) \in Nat /\ 1 \in 1..Len(items0)
  BY ListFacts
<1>2. IsList(u) /\ Len(u) = Len(items0)
  BY <1>1, MadeIsList
<1>3. AreLists(u)
  BY <1>2 DEF AllAt, AreLists
<1>4. IsList(FlattenSeq(u)) /\ Range(FlattenSeq(u)) = UNION {Range(u[i]) : i \in 1..Len(u)}
  BY <1>3, FlattenFacts
<1>5. Range(u[1]) # {}
  BY <1>1, ListFacts DEF AllAt
<1>6. Range(FlattenSeq(u)) # {}
  BY <1>1, <1>2, <1>4, <1>5
<1>7. FlattenSeq(u) # <<>>
  BY <1>6, ShortLists
<1>8. \A e \in Range(FlattenSeq(u)) : e.loc[1] = n
  BY <1>2, <1>4 DEF AllAt
<1> QED
  BY <1>4, <1>7, <1>8 DEF AllAt

(* Of an element: what its reader answers is told of it and nothing else   *)
(* is, and it is something.                                                *)
Tells1(evs, n) == Own(evs, n) /\ evs # <<>>

(* What answers is of that sort, and so is one event.                      *)
LEMMA AnswersTells1 ==
    ASSUME NEW evs, NEW n, NEW stamp, Answers(evs, n, stamp)
    PROVE  Tells1(evs, n)
BY DEF Answers, Tells, Tells1

(* Events of which no two are at one place. *)
Alone(evs) ==
    IsList(evs) /\ \A i, j \in 1..Len(evs) : i < j => evs[i].loc[1] # evs[j].loc[1]

(* Some events after others.                                               *)
LEMMA AloneJoin ==
    ASSUME NEW s, NEW t, Alone(s), Alone(t), \A x \in Range(s), y \in Range(t) : x.loc[1] # y.loc[1]
    PROVE  Alone(s \o t) /\ Range(s \o t) = Range(s) \cup Range(t)
<1> DEFINE st == s \o t
<1>0. IsList(s) /\ IsList(t)
  BY DEF Alone
<1>1. /\ Len(s) \in Nat /\ Len(t) \in Nat
      /\ IsList(st) /\ Range(st) = Range(s) \cup Range(t) /\ Len(st) = Len(s) + Len(t)
      /\ \A i \in 1..Len(s) : st[i] = s[i]
      /\ \A i \in 1..Len(s) + Len(t) : i \in 1..Len(s) \/ (i - Len(s) \in 1..Len(t) /\ st[i] = t[i - Len(s)])
  BY <1>0, ListsJoin, ListFacts
<1>2. /\ \A i \in 1..Len(s) : s[i] \in Range(s)
      /\ \A i \in 1..Len(t) : t[i] \in Range(t)
  BY <1>0, ListFacts
<1> HIDE DEF st
<1>3. ASSUME NEW i \in 1..Len(st), NEW j \in 1..Len(st), i < j
      PROVE  st[i].loc[1] # st[j].loc[1]
  <2>1. CASE i \in 1..Len(s) /\ j \in 1..Len(s)
    BY <1>1, <1>3, <2>1 DEF Alone
  <2>2. CASE i \in 1..Len(s) /\ j \notin 1..Len(s)
    <3>1. st[i] \in Range(s) /\ st[j] \in Range(t)
      BY <1>1, <1>2, <2>2
    <3> QED
      BY <3>1
  <2>3. CASE i \notin 1..Len(s)
    <3>1. /\ i - Len(s) \in 1..Len(t) /\ j - Len(s) \in 1..Len(t) /\ i - Len(s) < j - Len(s)
          /\ st[i] = t[i - Len(s)] /\ st[j] = t[j - Len(s)]
      BY <1>1, <1>3, <2>3
    <3> QED
      BY <3>1 DEF Alone
  <2> QED
    BY <2>1, <2>2, <2>3
<1> QED
  BY <1>1, <1>3 DEF st, Alone

(* The first lines of a file, and the next.                                *)
LEMMA OneMore ==
    ASSUME NEW s, IsList(s), NEW n \in 1..Len(s)
    PROVE  /\ SubSeq(s, 1, n) = Append(SubSeq(s, 1, n - 1), s[n])
           /\ IsList(SubSeq(s, 1, n - 1))
<1> DEFINE R == Range(s)
<1>1. s \in Seq(R) /\ Len(s) \in Nat
  BY ListFacts DEF IsList
<1> HIDE DEF R
<1>2. SubSeq(s, 1, n - 1) \in Seq(R) /\ s[n] \in R
  BY <1>1
<1>3. IsList(SubSeq(s, 1, n - 1))
  BY <1>2, SeqIsList
<1> QED
  BY <1>1, <1>2, <1>3

(* None of its lines, and all of them.                                     *)
LEMMA NoneAndAll ==
    ASSUME NEW s, IsList(s)
    PROVE  SubSeq(s, 1, 0) = <<>> /\ SubSeq(s, 1, Len(s)) = s
<1> DEFINE R == Range(s)
<1>1. s \in Seq(R) /\ Len(s) \in Nat
  BY ListFacts DEF IsList
<1> HIDE DEF R
<1> QED
  BY <1>1

(* The numbers up to which two lists are the same.                         *)
SameTo(s, t) == {n \in 1..(IF Len(s) < Len(t) THEN Len(s) ELSE Len(t)) : SubSeq(s, 1, n) = SubSeq(t, 1, n)}

(* These numbers are all up to one.                                        *)
LEMMA SameToOne ==
    ASSUME NEW s, NEW t, IsList(s), IsList(t)
    PROVE  \E m \in 0..Len(s) :
              /\ m <= Len(t) /\ SameTo(s, t) = 1..m /\ Cardinality(SameTo(s, t)) = m
              /\ SubSeq(s, 1, m) = SubSeq(t, 1, m)
<1> DEFINE S == SameTo(s, t)
           l == IF Len(s) < Len(t) THEN Len(s) ELSE Len(t)
<1>1. Len(s) \in Nat /\ Len(t) \in Nat
  BY ListFacts
<1>2. l \in Nat /\ l <= Len(s) /\ l <= Len(t)
  BY <1>1
<1>3. S \subseteq 1..l
  BY DEF SameTo
<1>4. ASSUME NEW n \in S, NEW k \in 1..n
      PROVE  k \in S
  <2>1. n \in 1..l /\ SubSeq(s, 1, n) = SubSeq(t, 1, n)
    BY DEF SameTo
  <2>2. n \in 0..Len(s) /\ n \in 0..Len(t) /\ k \in 1..l /\ k \in 0..Len(s) /\ k \in 0..Len(t)
    BY <1>1, <1>2, <2>1
  <2>3. /\ \A i \in 1..n : SubSeq(s, 1, n)[i] = s[i]
        /\ \A i \in 1..n : SubSeq(t, 1, n)[i] = t[i]
    BY <2>2, BeginningOf
  <2>4. \A i \in 1..k : s[i] = t[i]
    <3>1. \A i \in 1..k : i \in 1..n
      BY <2>1
    <3> QED
      BY <2>1, <2>3, <3>1
  <2>5. /\ IsList(SubSeq(s, 1, k)) /\ Len(SubSeq(s, 1, k)) = k
        /\ \A i \in 1..k : SubSeq(s, 1, k)[i] = s[i]
        /\ IsList(SubSeq(t, 1, k)) /\ Len(SubSeq(t, 1, k)) = k
        /\ \A i \in 1..k : SubSeq(t, 1, k)[i] = t[i]
    BY <2>2, BeginningOf
  <2>6. SubSeq(s, 1, k) = SubSeq(t, 1, k)
    BY <2>4, <2>5, SameLists
  <2> QED
    BY <2>2, <2>6 DEF SameTo
<1> DEFINE out == (1..(l + 1)) \ S
<1> HIDE DEF l
<1>5. out \in SUBSET Nat /\ l + 1 \in out
  BY <1>2, <1>3
<1>6. PICK x \in out : \A y \in out : x <= y
  <2> HIDE DEF out
  <2> QED
    BY <1>5, LeastOf
<1>7. S = 1..(x - 1)
  <2>1. ASSUME NEW k \in 1..(x - 1)
        PROVE  k \in S
    <3>1. k \in 1..(l + 1) /\ ~(x <= k)
      BY <1>2, <1>6
    <3>2. k \notin out
      BY <1>6, <3>1
    <3> QED
      BY <3>1, <3>2
  <2>2. ASSUME NEW k \in S
        PROVE  k \in 1..(x - 1)
    <3>1. k \in 1..l /\ x \in 1..(l + 1) /\ x \notin S
      BY <1>3, <1>6
    <3>2. ~(x <= k)
      <4> SUFFICES ASSUME x <= k PROVE FALSE
        OBVIOUS
      <4>1. x \in 1..k
        BY <1>2, <3>1
      <4> HIDE DEF S
      <4> QED
        BY <1>4, <3>1, <4>1
    <3> QED
      BY <1>2, <3>1, <3>2
  <2> QED
    BY <2>1, <2>2
<1>8. x - 1 \in 0..Len(s) /\ x - 1 <= Len(t)
  BY <1>1, <1>2, <1>6
<1>9. Cardinality(1..(x - 1)) = x - 1
  <2>1. x - 1 \in Nat /\ 1 <= x
    BY <1>8
  <2>2. Cardinality(1..(x - 1)) = IF 1 > x - 1 THEN 0 ELSE (x - 1) - 1 + 1
    BY <2>1, FS_Interval
  <2> QED
    BY <2>1, <2>2
<1>10. SubSeq(s, 1, x - 1) = SubSeq(t, 1, x - 1)
  <2>1. CASE x - 1 = 0
    <3>1. 0 \in 0..Len(s) /\ 0 \in 0..Len(t) /\ 1..0 = {}
      BY <1>1
    <3> QED
      BY <2>1, <3>1, BeginningOf, SameLists
  <2>2. CASE x - 1 # 0
    <3>1. x - 1 \in S
      BY <1>7, <1>8, <2>2
    <3> QED
      BY <3>1 DEF SameTo
  <2> QED
    BY <2>1, <2>2
<1> QED
  BY <1>7, <1>8, <1>9, <1>10

===============================================================================
