------------------------------- MODULE ScanProofs -------------------------------
(***************************************************************************)
(* A scan finds what its rules ask for, whatever the rules, the events and *)
(* their order, the window and the number of events asked for.             *)
(***************************************************************************)
EXTENDS Scan, FiniteSetTheorems, WellFoundedInduction, TLAPS

(* ------------------------------------------------- numbers and counting *)

(* A set of numbers that is not empty has a least one: induction is        *)
(* replaced by taking a least counterexample.                              *)
LEMMA LeastNat ==
    ASSUME NEW S \in SUBSET Nat, S # {}
    PROVE  \E x \in S : \A y \in S : x <= y
<1> DEFINE R == StrictSubsetOrdering(Nat)
           T == {0..(x - 1) : x \in S}
<1>1. IsWellFoundedOn(R, FiniteSubsetsOf(Nat))
  BY FS_StrictSubsetOrderingWellFounded
<1>2. T \subseteq FiniteSubsetsOf(Nat) /\ T # {}
  <2>1. \A x \in S : 0..(x - 1) \in FiniteSubsetsOf(Nat)
    <3> TAKE x \in S
    <3>1. IsFiniteSet(0..(x - 1))
      BY FS_Interval
    <3> QED
      BY <3>1 DEF FiniteSubsetsOf
  <2> QED
    BY <2>1
<1>3. PICK t \in T : \A u \in T : ~(<<u, t>> \in R)
  <2> HIDE DEF R, T
  <2> QED
    BY <1>1, <1>2, WFMin
<1>4. PICK x \in S : t = 0..(x - 1)
  OBVIOUS
<1>5. ASSUME NEW y \in S, y < x
      PROVE  FALSE
  <2> DEFINE u == 0..(y - 1)
  <2>1. u \in T /\ u \subseteq t /\ u \subseteq Nat /\ t \subseteq Nat
    BY <1>4, <1>5
  <2>2. y \in t /\ y \notin u
    BY <1>4, <1>5
  <2> HIDE DEF u, T
  <2>3. <<u, t>> \in R
    BY <2>1, <2>2 DEF StrictSubsetOrdering
  <2> QED
    BY <1>3, <2>1, <2>3
<1> QED
  BY <1>5

(* A set of numbers under a bound has a greatest one.                      *)
LEMMA GreatestNat ==
    ASSUME NEW S \in SUBSET Nat, S # {}, NEW bound \in Nat, \A x \in S : x <= bound
    PROVE  \E x \in S : \A y \in S : y <= x
<1> DEFINE T == {bound - x : x \in S}
<1>1. T \in SUBSET Nat /\ T # {}
  <2>1. \A x \in S : bound - x \in Nat
    OBVIOUS
  <2> QED
    BY <2>1
<1>2. PICK t \in T : \A u \in T : t <= u
  <2> HIDE DEF T
  <2> QED
    BY <1>1, LeastNat
<1>3. PICK x \in S : t = bound - x
  OBVIOUS
<1>4. \A y \in S : bound - x <= bound - y
  BY <1>2, <1>3
<1> QED
  BY <1>4

(* A function that tells the elements of S apart and reaches all of T      *)
(* pairs them.                                                             *)
LEMMA ImageBijection ==
    ASSUME NEW S, NEW T, NEW f, \A x, y \in S : f[x] = f[y] => x = y,
           \A x \in S : f[x] \in T, \A t \in T : \E x \in S : t = f[x]
    PROVE  ExistsBijection(S, T)
<1> DEFINE g == [x \in S |-> f[x]]
<1>1. g \in [S -> T] /\ \A x \in S : g[x] = f[x]
  OBVIOUS
<1> HIDE DEF g
<1>2. g \in Injection(S, T)
  BY <1>1 DEF Injection, IsInjective
<1>3. g \in Surjection(S, T)
  BY <1>1 DEF Surjection
<1> QED
  BY <1>2, <1>3 DEF ExistsBijection, Bijection

(* A function has n values on a set when n elements of it have values that *)
(* differ.                                                                 *)
LEMMA Representatives ==
    ASSUME NEW S, IsFiniteSet(S), NEW f, NEW n \in Nat
    PROVE  Cardinality({f[x] : x \in S}) >= n <=>
              \E some \in SUBSET S : /\ Cardinality(some) = n
                                     /\ \A x, y \in some : f[x] = f[y] => x = y
<1> DEFINE I == {f[x] : x \in S}
<1>1. IsFiniteSet(I) /\ Cardinality(I) \in Nat
  <2> DEFINE g == [x \in S |-> f[x]]
  <2>1. g \in Surjection(S, I)
    BY DEF Surjection
  <2> HIDE DEF g, I
  <2> QED
    BY <2>1, FS_Surjection, FS_CardinalityType
<1>2. ASSUME NEW some \in SUBSET S, Cardinality(some) = n,
             \A x, y \in some : f[x] = f[y] => x = y
      PROVE  Cardinality(I) >= n
  <2> DEFINE J == {f[x] : x \in some}
  <2>1. J \subseteq I
    OBVIOUS
  <2>2. ExistsBijection(some, J)
    <3>1. (\A x \in some : f[x] \in J) /\ (\A t \in J : \E x \in some : t = f[x])
      OBVIOUS
    <3> HIDE DEF J
    <3> QED
      BY <1>2, <3>1, ImageBijection
  <2>3. IsFiniteSet(some)
    BY FS_Subset
  <2> HIDE DEF I, J
  <2>4. Cardinality(J) = n
    BY <1>2, <2>2, <2>3, FS_Bijection
  <2>5. Cardinality(J) <= Cardinality(I)
    BY <1>1, <2>1, FS_Subset
  <2> QED
    BY <1>1, <2>4, <2>5
<1>3. ASSUME Cardinality(I) >= n
      PROVE  \E some \in SUBSET S : /\ Cardinality(some) = n
                                    /\ \A x, y \in some : f[x] = f[y] => x = y
  <2> DEFINE m == Cardinality(I)
  <2>1. PICK g : g \in Bijection(1..m, I)
    BY <1>1, FS_CardinalityType DEF ExistsBijection
  <2> DEFINE Rep(v) == CHOOSE x \in S : f[x] = v
             h == [k \in 1..n |-> Rep(g[k])]
             some == {h[k] : k \in 1..n}
  <2>2. \A k \in 1..n : k \in 1..m /\ g[k] \in I
    BY <1>1, <1>3, <2>1 DEF Bijection, Injection, IsInjective
  <2>3. \A v \in I : Rep(v) \in S /\ f[Rep(v)] = v
    OBVIOUS
  <2>4. \A k, l \in 1..n : g[k] = g[l] => k = l
    BY <2>1, <2>2 DEF Bijection, Injection, IsInjective
  <2> HIDE DEF Rep, I, m
  <2>5. \A k \in 1..n : h[k] \in S /\ f[h[k]] = g[k]
    BY <2>2, <2>3
  <2> HIDE DEF h
  <2>6. some \in SUBSET S /\ \A x, y \in some : f[x] = f[y] => x = y
    BY <2>4, <2>5
  <2>7. ExistsBijection(1..n, some)
    <3> DEFINE D == 1..n
    <3>1. \A k, l \in D : h[k] = h[l] => k = l
      BY <2>4, <2>5
    <3>2. (\A k \in D : h[k] \in some) /\ (\A t \in some : \E k \in D : t = h[k])
      OBVIOUS
    <3> HIDE DEF some, D
    <3>3. ExistsBijection(D, some)
      BY <3>1, <3>2, ImageBijection
    <3> QED
      BY <3>3 DEF D
  <2>8. Cardinality(some) = n
    <3> HIDE DEF some
    <3> QED
      BY <2>7, FS_CountingElements
  <2> QED
    BY <2>6, <2>8
<1> QED
  BY <1>2, <1>3

(* -------------------------------------------------------- the invariant *)

Rows == {Pool[n] : n \in DOMAIN Pool}

EventsOK ==
    /\ events \in Seq(Rows) /\ InOrder(events)
    /\ at \in 1..(Len(events) + 1)

RulesOK ==
    /\ pack \in Packs
    /\ rules = IF stage \in {"load", "refused"} THEN <<>> ELSE pack
    /\ \A i, j \in DOMAIN rules : rules[i].id = rules[j].id => i = j
    /\ DOMAIN buckets = DOMAIN rules

(* How far the scan is. *)
ProgressOK ==
    /\ stage \in {"load", "read", "group", "divide", "window", "done", "refused"}
    /\ turn \in Nat \ {0} /\ nth \in Nat \ {0}
    /\ stage \in {"load", "read", "refused"} => turn = 1 /\ nth = 1
    /\ stage \in {"load", "refused"} => at = 1 /\ findings = {} /\ unseen = 0
    /\ stage \in {"group", "divide", "window", "done"} => at > Len(events)
    /\ stage \in {"divide", "window"} =>
          turn <= Len(rules) /\ nth <= Len(buckets[turn]) /\ Rule.aggregate.windowed
    /\ stage = "done" => turn > Len(rules)

Ascending(s) == \A i, j \in DOMAIN s : i < j => s[i] < s[j]

(* A group has the events read so far that meet the rule and have its key. *)
GroupOK(rule, group, upTo) ==
    /\ group.members # <<>> /\ Ascending(group.members)
    /\ Range(group.members) \subseteq DOMAIN events
    /\ \A n \in DOMAIN events :
          n \in Range(group.members) <=>
              n < upTo /\ Asks(rule, events[n]) /\ GroupKey(rule, events[n]) = group.key

Groups(rule) == [key : {GroupKey(rule, e) : e \in Rows}, members : Seq(Nat)]

BucketOK(rule, bucket, upTo) ==
    /\ bucket \in Seq(Groups(rule))
    /\ \A i \in DOMAIN bucket : GroupOK(rule, bucket[i], upTo)
    /\ \A i, j \in DOMAIN bucket : bucket[i].key = bucket[j].key => i = j
    /\ \A n \in DOMAIN events :
          n < upTo /\ Asks(rule, events[n]) =>
              \E i \in DOMAIN bucket : bucket[i].key = GroupKey(rule, events[n])

BucketsOK ==
    \A i \in DOMAIN rules :
        IF rules[i].aggregate = None THEN buckets[i] = <<>> ELSE BucketOK(rules[i], buckets[i], at)

Ids(w) == {events[n].id : n \in w}

(* The groups of the rule of position i that the scan has been through.    *)
Handled(i) == {k \in DOMAIN buckets[i] : i < turn \/ (i = turn /\ k < nth)}

(* What is to be found of the rule so far. *)
Owed(i) ==
    IF rules[i].aggregate = None THEN {{n} : n \in {m \in DOMAIN events : m < at /\ Asks(rules[i], events[m])}}
    ELSE {w \in UNION {WindowsOf(rules[i], Range(buckets[i][k].members)) : k \in Handled(i)} : Suffices(rules[i], w)}

EvidenceOK ==
    \A i \in DOMAIN rules :
        /\ \A f \in findings : f.rule = rules[i].id => \E w \in Owed(i) : f.events = Ids(w)
        /\ \A w \in Owed(i) : \E f \in findings : f.rule = rules[i].id /\ f.events = Ids(w)

UnseenOK ==
    unseen = Cardinality({n \in DOMAIN events : n < at /\ \A j \in DOMAIN rules : ~AppliesTo(rules[j], events[n])})

(* The events of the group that the pass is about. *)
DatedOK ==
    /\ dated \in Seq(Nat) /\ Ascending(dated) /\ Range(dated) \subseteq DOMAIN events
    /\ \A i \in DOMAIN dated : events[dated[i]].ts # None
    /\ undated \in Seq(Nat) /\ Ascending(undated) /\ Range(undated) \subseteq DOMAIN events

DivideOK ==
    stage \in {"divide", "window"} =>
        /\ Divided <= Len(Members)
        /\ stage = "window" => Divided >= Len(Members)
        /\ \A n \in DOMAIN events :
              /\ n \in Range(dated) <=> \E k \in 1..Divided : n = Members[k] /\ events[n].ts # None
              /\ n \in Range(undated) <=> \E k \in 1..Divided : n = Members[k] /\ events[n].ts = None

Positions ==
    /\ start \in Nat \ {0} /\ end \in Nat \ {0}
    /\ longest \in [first : Nat \ {0}, last : Nat]
    /\ start <= end /\ end <= Len(dated) + 1
    /\ stage = "divide" => end = 1 /\ longest = NoRun

(* Events behind start are too far from the event at end.                  *)
LeftBehind ==
    end <= Len(dated) => \A i \in DOMAIN dated : i < start => Apart(i, end) > Span

LongestBehindEnd == longest.last < end

(* No burst that ends before end is longer than the longest, and none of   *)
(* its length ends before it.                                              *)
NoneMissed ==
    \A i, j \in DOMAIN dated :
        j < end /\ IsBurst(i, j) =>
            /\ longest # NoRun
            /\ \/ j - i + 1 < Length(longest)
               \/ j - i + 1 = Length(longest) /\ longest.last <= j

ReadInv == EventsOK /\ RulesOK /\ ProgressOK /\ BucketsOK
WindowInv == DatedOK /\ DivideOK /\ Positions /\ LeftBehind /\ LongestIsBurst /\ LongestBehindEnd /\ NoneMissed
ScanInv == ReadInv /\ UnseenOK /\ WindowInv /\ EvidenceOK

(* The rows of a case stay, and so does what is said of them alone.        *)
LEMMA CaseStays ==
    ASSUME [Next]_vars
    PROVE  events' = events /\ pack' = pack
BY DEF Next, vars, caseVars, groupVars, Load, ReadEvent, EndOfEvents, NextRule, WholeGroup,
       StartWindows, Divide, EndDivide, Advance, NextEvent, EndWindows, EndScan

(* A bucket is about the events, and no other variable.                    *)
LEMMA BucketStays ==
    ASSUME events' = events, NEW rule, NEW bucket, NEW upTo
    PROVE  BucketOK(rule, bucket, upTo)' <=> BucketOK(rule, bucket, upTo)
BY DEF BucketOK, GroupOK

(* So is what a rule asks of a group.                                      *)
LEMMA WindowsStay ==
    ASSUME events' = events, NEW rule, NEW group
    PROVE  /\ Ids(group)' = Ids(group)
           /\ WindowsOf(rule, group)' = WindowsOf(rule, group)
           /\ Suffices(rule, group)' <=> Suffices(rule, group)
<1>1. LargestWindow(group)' = LargestWindow(group)
  BY DEF LargestWindow, Within
<1> QED
  BY <1>1 DEF Ids, WindowsOf, Suffices, GroupValue

(* What a sequence has in it when one more is put at its end.              *)
LEMMA AppendFacts ==
    ASSUME NEW S, NEW s \in Seq(S), NEW x \in S
    PROVE  /\ Append(s, x) \in Seq(S) /\ Append(s, x) # <<>>
           /\ Len(Append(s, x)) = Len(s) + 1 /\ DOMAIN Append(s, x) = 1..(Len(s) + 1)
           /\ Append(s, x)[Len(s) + 1] = x
           /\ \A i \in DOMAIN s : i \in DOMAIN Append(s, x) /\ Append(s, x)[i] = s[i]
           /\ \A i \in DOMAIN Append(s, x) : i \in DOMAIN s \/ i = Len(s) + 1
           /\ \A y : y \in Range(Append(s, x)) <=> y \in Range(s) \/ y = x
BY DEF Range

(* A list that ascends still does with a greater number at its end.        *)
LEMMA AppendAscends ==
    ASSUME NEW s \in Seq(Nat), Ascending(s), NEW n \in Nat, \A m \in Range(s) : m < n
    PROVE  Ascending(Append(s, n))
<1>1. \A i \in DOMAIN s : s[i] < n
  BY DEF Range
<1> QED
  BY <1>1, AppendFacts DEF Ascending

(* The elements of a slice of a sequence that ascends are as many as its   *)
(* positions.                                                              *)
LEMMA SliceCounts ==
    ASSUME NEW s \in Seq(Nat), Ascending(s), NEW i \in Nat, NEW j \in Nat, i..j \subseteq DOMAIN s
    PROVE  /\ IsFiniteSet({s[k] : k \in i..j})
           /\ Cardinality({s[k] : k \in i..j}) = IF i > j THEN 0 ELSE j - i + 1
<1> DEFINE T == {s[k] : k \in i..j}
<1>1. ExistsBijection(i..j, T)
  <2> DEFINE D == i..j
  <2>1. \A k, l \in D : s[k] = s[l] => k = l
    <3>1. \A k \in D : k \in DOMAIN s /\ s[k] \in Nat /\ k \in Nat
      OBVIOUS
    <3> QED
      BY <3>1 DEF Ascending
  <2>2. (\A k \in D : s[k] \in T) /\ (\A t \in T : \E k \in D : t = s[k])
    OBVIOUS
  <2> HIDE DEF T, D
  <2>3. ExistsBijection(D, T)
    BY <2>1, <2>2, ImageBijection
  <2> QED
    BY <2>3 DEF D
<1>2. IsFiniteSet(i..j) /\ Cardinality(i..j) = IF i > j THEN 0 ELSE j - i + 1
  BY FS_Interval
<1> HIDE DEF T
<1>3. IsFiniteSet(T) /\ Cardinality(T) = Cardinality(i..j)
  BY <1>1, <1>2, FS_Bijection
<1> QED
  BY <1>2, <1>3 DEF T

(* Before an event is read, an empty bucket is as it should be.            *)
LEMMA EmptyBucket ==
    ASSUME events \in Seq(Rows), NEW rule
    PROVE  BucketOK(rule, <<>>, 1)
BY DEF BucketOK

(* An event that does not meet the rule changes nothing.                   *)
LEMMA BucketLeft ==
    ASSUME EventsOK, NEW rule, NEW bucket, NEW n \in DOMAIN events, BucketOK(rule, bucket, n), ~Asks(rule, events[n])
    PROVE  BucketOK(rule, bucket, n + 1)
<1> HIDE DEF Asks
<1>1. \A m \in DOMAIN events : Asks(rule, events[m]) => (m < n + 1 <=> m < n)
  BY DEF EventsOK
<1> QED
  BY <1>1 DEF BucketOK, GroupOK

(* An event that meets it is in the group of its key and in no other.      *)
LEMMA GatheredOK ==
    ASSUME EventsOK, NEW rule, NEW bucket, NEW n \in DOMAIN events, BucketOK(rule, bucket, n), Asks(rule, events[n])
    PROVE  BucketOK(rule, Gathered(bucket, GroupKey(rule, events[n]), n), n + 1)
<1> DEFINE key == GroupKey(rule, events[n])
           after == Gathered(bucket, key, n)
           grown(g) == [key |-> key, members |-> Append(g.members, n)]
           fresh == [key |-> key, members |-> <<n>>]
<1>1. /\ n \in Nat /\ key \in {GroupKey(rule, e) : e \in Rows}
      /\ \A m \in DOMAIN events : m \in Nat /\ (m < n + 1 <=> m < n \/ m = n)
  BY DEF EventsOK
<1> HIDE DEF key
<1>2. /\ bucket \in Seq(Groups(rule))
      /\ Len(bucket) \in Nat /\ DOMAIN bucket = 1..Len(bucket)
      /\ \A i \in DOMAIN bucket : bucket[i] \in Groups(rule) /\ bucket[i].members \in Seq(Nat)
  <2>1. bucket \in Seq(Groups(rule))
    BY DEF BucketOK
  <2>2. \A g \in Groups(rule) : g.members \in Seq(Nat)
    BY DEF Groups
  <2> QED
    BY <2>1, <2>2
<1>3. ASSUME NEW i \in DOMAIN bucket, bucket[i].key = key
      PROVE  grown(bucket[i]) \in Groups(rule) /\ GroupOK(rule, grown(bucket[i]), n + 1)
  <2> DEFINE s == bucket[i].members
  <2>1. /\ s \in Seq(Nat) /\ Ascending(s) /\ Range(s) \subseteq DOMAIN events
        /\ \A m \in DOMAIN events : m \in Range(s) <=> m < n /\ Asks(rule, events[m]) /\ GroupKey(rule, events[m]) = key
    BY <1>2, <1>3 DEF BucketOK, GroupOK
  <2> HIDE DEF s
  <2>2. Ascending(Append(s, n))
    BY <1>1, <2>1, AppendAscends
  <2>3. Append(s, n) \in Seq(Nat) /\ Append(s, n) # <<>> /\ \A m : m \in Range(Append(s, n)) <=> m \in Range(s) \/ m = n
    BY <1>1, <2>1, AppendFacts
  <2>4. \A m \in DOMAIN events : m \in Range(Append(s, n)) <=>
            m < n + 1 /\ Asks(rule, events[m]) /\ GroupKey(rule, events[m]) = key
    <3> HIDE DEF Asks, GroupKey
    <3> QED
      BY <1>1, <2>1, <2>3 DEF key
  <2>5. grown(bucket[i]) = [key |-> key, members |-> Append(s, n)]
    BY DEF s
  <2>6. [key |-> key, members |-> Append(s, n)] \in Groups(rule)
    BY <1>1, <2>3 DEF Groups
  <2>7. GroupOK(rule, [key |-> key, members |-> Append(s, n)], n + 1)
    BY <2>1, <2>2, <2>3, <2>4 DEF GroupOK
  <2> QED
    BY <2>5, <2>6, <2>7
<1>4. ASSUME NEW i \in DOMAIN bucket, bucket[i].key # key
      PROVE  GroupOK(rule, bucket[i], n + 1)
  <2>1. GroupOK(rule, bucket[i], n) /\ GroupKey(rule, events[n]) # bucket[i].key
    BY <1>4 DEF BucketOK, key
  <2> QED
    BY <1>1, <2>1 DEF GroupOK
<1>5. ASSUME \A i \in DOMAIN bucket : bucket[i].key # key
      PROVE  fresh \in Groups(rule) /\ GroupOK(rule, fresh, n + 1)
  <2>1. fresh \in Groups(rule)
    BY <1>1 DEF Groups
  <2>2. Range(<<n>>) = {n} /\ Ascending(<<n>>) /\ <<n>> # <<>>
    BY DEF Range, Ascending
  <2>3. \A m \in DOMAIN events : m < n /\ Asks(rule, events[m]) => GroupKey(rule, events[m]) # key
    BY <1>5 DEF BucketOK
  <2>4. GroupKey(rule, events[n]) = key
    BY DEF key
  <2> QED
    BY <1>1, <2>1, <2>2, <2>3, <2>4 DEF GroupOK
<1>6. CASE \E i \in DOMAIN bucket : bucket[i].key = key
  <2>1. after = [i \in DOMAIN bucket |-> IF bucket[i].key = key THEN grown(bucket[i]) ELSE bucket[i]]
    BY <1>6 DEF Gathered
  <2>2. /\ DOMAIN after = DOMAIN bucket
        /\ \A i \in DOMAIN bucket : after[i].key = bucket[i].key /\ after[i] \in Groups(rule) /\ GroupOK(rule, after[i], n + 1)
    BY <1>2, <1>3, <1>4, <2>1
  <2>a. after = [i \in 1..Len(bucket) |-> after[i]]
    BY <1>2, <2>1, <2>2
  <2> HIDE DEF after
  <2>3. after \in Seq(Groups(rule))
    BY <1>2, <2>2, <2>a
  <2>4. ASSUME NEW m \in DOMAIN events, m < n + 1, Asks(rule, events[m])
        PROVE  \E i \in DOMAIN after : after[i].key = GroupKey(rule, events[m])
    <3>1. CASE m < n
      <4>1. PICK i \in DOMAIN bucket : bucket[i].key = GroupKey(rule, events[m])
        BY <2>4, <3>1 DEF BucketOK
      <4> QED
        BY <2>2, <4>1
    <3>2. CASE m = n
      BY <1>6, <2>2, <3>2 DEF key
    <3> QED
      BY <1>1, <2>4, <3>1, <3>2
  <2>5. \A i, j \in DOMAIN after : after[i].key = after[j].key => i = j
    BY <2>2 DEF BucketOK
  <2> QED
    BY <2>2, <2>3, <2>4, <2>5 DEF BucketOK, after, key
<1>7. CASE \A i \in DOMAIN bucket : bucket[i].key # key
  <2>1. after = Append(bucket, fresh)
    BY <1>7 DEF Gathered
  <2>2. fresh \in Groups(rule) /\ GroupOK(rule, fresh, n + 1) /\ fresh.key = key
    BY <1>5, <1>7
  <2>3. /\ after \in Seq(Groups(rule)) /\ Len(bucket) + 1 \in DOMAIN after /\ after[Len(bucket) + 1] = fresh
        /\ \A i \in DOMAIN bucket : i \in DOMAIN after /\ after[i] = bucket[i]
        /\ \A i \in DOMAIN after : i \in DOMAIN bucket \/ i = Len(bucket) + 1
    <3> HIDE DEF after, fresh
    <3> QED
      BY <1>2, <2>1, <2>2, AppendFacts
  <2> HIDE DEF after, fresh
  <2>4. \A i \in DOMAIN after : GroupOK(rule, after[i], n + 1)
    BY <1>4, <1>7, <2>2, <2>3
  <2>5. \A i, j \in DOMAIN after : after[i].key = after[j].key => i = j
    BY <1>7, <2>2, <2>3 DEF BucketOK
  <2>6. ASSUME NEW m \in DOMAIN events, m < n + 1, Asks(rule, events[m])
        PROVE  \E i \in DOMAIN after : after[i].key = GroupKey(rule, events[m])
    <3>1. CASE m < n
      <4>1. PICK i \in DOMAIN bucket : bucket[i].key = GroupKey(rule, events[m])
        BY <2>6, <3>1 DEF BucketOK
      <4> QED
        BY <2>3, <4>1
    <3>2. CASE m = n
      BY <2>2, <2>3, <3>2 DEF key
    <3> QED
      BY <1>1, <2>6, <3>1, <3>2
  <2> QED
    BY <2>3, <2>4, <2>5, <2>6 DEF BucketOK, after, key
<1> QED
  BY <1>6, <1>7 DEF key

(* ------------------------------------------------------ reading the case *)

(* The rules are a sequence, and an aggregate's fields have their types.   *)
LEMMA RuleFacts ==
    ASSUME RulesOK
    PROVE  /\ Len(rules) \in Nat /\ DOMAIN rules = 1..Len(rules)
           /\ \A i \in DOMAIN rules : rules[i].aggregate # None =>
                  rules[i].aggregate.windowed \in BOOLEAN /\ rules[i].aggregate.distinctGte \in Nat
<1>1. pack \in Seq(Range(pack))
  BY PacksAssumption DEF RulesOK
<1>2. CASE rules = pack
  BY <1>1, <1>2, PacksAssumption DEF RulesOK
<1>3. CASE rules = <<>>
  BY <1>3
<1> QED
  BY <1>2, <1>3 DEF RulesOK

(* So is what a rule has gathered: lists of events that ascend.            *)
LEMMA BucketFacts ==
    ASSUME ReadInv, NEW i \in DOMAIN rules
    PROVE  /\ Len(buckets[i]) \in Nat /\ DOMAIN buckets[i] = 1..Len(buckets[i])
           /\ \A k \in DOMAIN buckets[i] :
                 /\ rules[i].aggregate # None
                 /\ buckets[i][k].members \in Seq(Nat) /\ Ascending(buckets[i][k].members)
                 /\ Range(buckets[i][k].members) \subseteq DOMAIN events
<1>1. CASE rules[i].aggregate = None
  BY <1>1 DEF ReadInv, BucketsOK
<1>2. CASE rules[i].aggregate # None
  <2>1. BucketOK(rules[i], buckets[i], at)
    BY <1>2 DEF ReadInv, BucketsOK
  <2>2. buckets[i] \in Seq(Groups(rules[i])) /\ \A k \in DOMAIN buckets[i] : GroupOK(rules[i], buckets[i][k], at)
    BY <2>1 DEF BucketOK
  <2>3. \A g \in Groups(rules[i]) : g.members \in Seq(Nat)
    BY DEF Groups
  <2> QED
    BY <1>2, <2>2, <2>3 DEF GroupOK
<1> QED
  BY <1>1, <1>2

(* Nothing has been read in the beginning.                                 *)
LEMMA ReadInit ==
    ASSUME Init
    PROVE  ReadInv
<1>1. events \in Seq(Rows)
  <2>1. PICK k \in 0..MaxMembers : \E s \in [1..k -> DOMAIN Pool] : events = [i \in 1..k |-> Pool[s[i]]]
    BY DEF Init
  <2>2. PICK s \in [1..k -> DOMAIN Pool] : events = [i \in 1..k |-> Pool[s[i]]]
    BY <2>1
  <2>3. \A i \in 1..k : Pool[s[i]] \in Rows
    BY DEF Rows
  <2>4. k \in Nat
    OBVIOUS
  <2> QED
    BY <2>2, <2>3, <2>4
<1>2. InOrder(events) /\ at = 1
  BY DEF Init
<1>3. EventsOK
  BY <1>1, <1>2 DEF EventsOK
<1>4. RulesOK /\ ProgressOK /\ BucketsOK
  BY DEF Init, RulesOK, ProgressOK, BucketsOK
<1> QED
  BY <1>3, <1>4 DEF ReadInv

(* A step that leaves the buckets and the position leaves what they hold.  *)
LEMMA BucketsStay ==
    ASSUME BucketsOK, UNCHANGED <<events, rules, buckets, at>>
    PROVE  BucketsOK'
<1> SUFFICES ASSUME NEW i \in DOMAIN rules, rules[i].aggregate # None
             PROVE  BucketOK(rules[i], buckets[i], at)'
  BY DEF BucketsOK
<1>1. BucketOK(rules[i], buckets[i], at)
  BY DEF BucketsOK
<1> QED
  BY <1>1, BucketStays

(* Every step keeps what was read in the groups it belongs to.             *)
LEMMA ReadStep ==
    ASSUME ReadInv, [Next]_vars
    PROVE  ReadInv'
<1>1. events' = events /\ pack' = pack /\ events \in Seq(Rows) /\ InOrder(events) /\ at \in 1..(Len(events) + 1)
  BY CaseStays DEF ReadInv, EventsOK
<1>2. /\ Len(rules) \in Nat /\ DOMAIN rules = 1..Len(rules)
      /\ \A i \in DOMAIN rules : Len(buckets[i]) \in Nat
  BY RuleFacts, BucketFacts DEF ReadInv
<1>3. CASE Load
  <2>1. /\ stage = "load" /\ at' = at /\ at = 1 /\ turn' = turn /\ nth' = nth
        /\ findings' = findings /\ unseen' = unseen
    BY <1>3 DEF Load, ReadInv, ProgressOK
  <2>2. CASE stage' = "read" /\ rules' = pack /\ buckets' = [i \in DOMAIN pack |-> <<>>]
             /\ \A i, j \in DOMAIN pack : pack[i].id = pack[j].id => i = j
    <3>1. EventsOK' /\ RulesOK' /\ ProgressOK'
      BY <1>1, <2>1, <2>2 DEF ReadInv, EventsOK, RulesOK, ProgressOK
    <3>2. ASSUME NEW i \in DOMAIN pack
          PROVE  buckets'[i] = <<>> /\ BucketOK(rules[i], buckets[i], at)'
      <4>1. BucketOK(pack[i], <<>>, 1)
        BY <1>1, EmptyBucket
      <4> QED
        BY <1>1, <2>1, <2>2, <4>1, BucketStays
    <3>3. BucketsOK'
      BY <2>2, <3>2 DEF BucketsOK
    <3> QED
      BY <3>1, <3>3 DEF ReadInv
  <2>3. CASE stage' = "refused" /\ rules' = rules /\ buckets' = buckets
    <3>1. EventsOK' /\ RulesOK' /\ ProgressOK'
      BY <1>1, <2>1, <2>3 DEF ReadInv, EventsOK, RulesOK, ProgressOK
    <3>2. BucketsOK'
      BY <1>1, <2>1, <2>3, BucketsStay DEF ReadInv
    <3> QED
      BY <3>1, <3>2 DEF ReadInv
  <2> QED
    BY <1>3, <2>2, <2>3 DEF Load
<1>4. CASE ReadEvent
  <2>1. /\ stage = "read" /\ at \in DOMAIN events /\ at' = at + 1 /\ stage' = stage /\ rules' = rules
        /\ turn' = turn /\ nth' = nth
        /\ buckets' = [i \in DOMAIN rules |->
                          IF rules[i].aggregate # None /\ Asks(rules[i], events[at])
                          THEN Gathered(buckets[i], GroupKey(rules[i], events[at]), at) ELSE buckets[i]]
    BY <1>1, <1>4 DEF ReadEvent
  <2>2. EventsOK' /\ RulesOK' /\ ProgressOK'
    BY <1>1, <2>1 DEF ReadInv, EventsOK, RulesOK, ProgressOK
  <2>3. ASSUME NEW i \in DOMAIN rules, rules[i].aggregate # None
        PROVE  BucketOK(rules[i], buckets'[i], at + 1)
    <3>1. BucketOK(rules[i], buckets[i], at) /\ EventsOK
      BY <2>3 DEF ReadInv, BucketsOK
    <3>2. CASE Asks(rules[i], events[at])
      <4>1. buckets'[i] = Gathered(buckets[i], GroupKey(rules[i], events[at]), at)
        BY <2>1, <2>3, <3>2
      <4> QED
        BY <2>1, <3>1, <3>2, <4>1, GatheredOK
    <3>3. CASE ~Asks(rules[i], events[at])
      <4>1. buckets'[i] = buckets[i]
        BY <2>1, <2>3, <3>3
      <4> QED
        BY <2>1, <3>1, <3>3, <4>1, BucketLeft
    <3> QED
      BY <3>2, <3>3
  <2>4. ASSUME NEW i \in DOMAIN rules, rules[i].aggregate = None
        PROVE  buckets'[i] = <<>>
    BY <2>1, <2>4 DEF ReadInv, BucketsOK
  <2>5. ASSUME NEW i \in DOMAIN rules, rules[i].aggregate # None
        PROVE  BucketOK(rules[i], buckets[i], at)'
    <3>1. BucketOK(rules[i], buckets'[i], at + 1)
      BY <2>3, <2>5
    <3> QED
      BY <1>1, <2>1, <3>1, BucketStays
  <2>6. BucketsOK'
    BY <2>1, <2>4, <2>5 DEF BucketsOK
  <2> QED
    BY <2>2, <2>6 DEF ReadInv
<1>5. ASSUME UNCHANGED <<rules, buckets, at>>, RulesOK', ProgressOK'
      PROVE  ReadInv'
  BY <1>1, <1>5, BucketsStay DEF ReadInv, EventsOK
<1>6. CASE EndOfEvents
  <2>1. RulesOK' /\ ProgressOK'
    BY <1>1, <1>6 DEF EndOfEvents, caseVars, groupVars, ReadInv, RulesOK, ProgressOK
  <2> QED
    BY <1>5, <1>6, <2>1 DEF EndOfEvents
<1>7. CASE NextRule \/ WholeGroup \/ EndWindows
  <2>1. /\ UNCHANGED <<rules, buckets, at>> /\ stage \in {"group", "window"} /\ stage' = "group"
        /\ turn' \in Nat \ {0} /\ nth' \in Nat \ {0}
    BY <1>7 DEF NextRule, WholeGroup, EndWindows, caseVars, groupVars, ReadInv, ProgressOK
  <2>2. RulesOK' /\ ProgressOK'
    BY <1>1, <2>1 DEF ReadInv, RulesOK, ProgressOK
  <2> QED
    BY <1>5, <2>1, <2>2
<1>8. CASE StartWindows
  <2>1. RulesOK' /\ ProgressOK'
    BY <1>1, <1>8 DEF StartWindows, Rule, caseVars, ReadInv, RulesOK, ProgressOK
  <2> QED
    BY <1>5, <1>8, <2>1 DEF StartWindows
<1>9. CASE Divide \/ EndDivide \/ Advance \/ NextEvent
  <2>1. /\ UNCHANGED <<rules, buckets, at, turn, nth, findings, unseen>>
        /\ stage \in {"divide", "window"} /\ stage' \in {"divide", "window"}
    BY <1>9 DEF Divide, EndDivide, Advance, NextEvent, caseVars, groupVars
  <2>2. RulesOK' /\ ProgressOK'
    BY <1>1, <2>1 DEF Rule, ReadInv, RulesOK, ProgressOK
  <2> QED
    BY <1>5, <2>1, <2>2
<1>10. CASE EndScan
  <2>1. RulesOK' /\ ProgressOK'
    BY <1>1, <1>2, <1>10 DEF EndScan, caseVars, groupVars, ReadInv, RulesOK, ProgressOK
  <2> QED
    BY <1>5, <1>10, <2>1 DEF EndScan
<1>11. CASE UNCHANGED vars
  <2>1. RulesOK' /\ ProgressOK'
    BY <1>1, <1>11 DEF vars, Rule, ReadInv, RulesOK, ProgressOK
  <2> QED
    BY <1>5, <1>11, <2>1 DEF vars
<1> QED
  BY <1>3, <1>4, <1>6, <1>7, <1>8, <1>9, <1>10, <1>11 DEF Next

(* No event has been passed over in the beginning.                         *)
LEMMA UnseenInit ==
    ASSUME Init
    PROVE  UnseenOK
<1>1. events \in Seq(Rows) /\ at = 1 /\ unseen = 0
  BY ReadInit DEF Init, ReadInv, EventsOK
<1>2. {n \in DOMAIN events : n < 1 /\ \A j \in DOMAIN rules : ~AppliesTo(rules[j], events[n])} = {}
  BY <1>1
<1> QED
  BY <1>1, <1>2, FS_EmptySet DEF UnseenOK

(* The events that no rule is about are counted one by one.                *)
LEMMA UnseenStep ==
    ASSUME ReadInv, UnseenOK, [Next]_vars
    PROVE  UnseenOK'
<1> DEFINE Nobody(n) == \A j \in DOMAIN rules : ~AppliesTo(rules[j], events[n])
           Passed(upTo) == {n \in DOMAIN events : n < upTo /\ Nobody(n)}
<1>1. events' = events /\ pack' = pack /\ events \in Seq(Rows) /\ at \in 1..(Len(events) + 1)
  BY CaseStays DEF ReadInv, EventsOK
<1>2. CASE Load
  <2>1. at' = 1 /\ unseen' = 0
    BY <1>2 DEF Load, ReadInv, ProgressOK
  <2>2. {n \in DOMAIN events : n < 1 /\ \A j \in DOMAIN rules' : ~AppliesTo(rules'[j], events[n])} = {}
    BY <1>1
  <2> QED
    BY <1>1, <2>1, <2>2, FS_EmptySet DEF UnseenOK, AppliesTo, Unmapped
<1>3. CASE ReadEvent
  <2>1. /\ at \in DOMAIN events /\ at' = at + 1 /\ rules' = rules /\ stage = "read"
        /\ unseen' = unseen + (IF Nobody(at) THEN 1 ELSE 0)
    BY <1>1, <1>3 DEF ReadEvent
  <2>2. unseen = Cardinality(Passed(at))
    BY DEF UnseenOK
  <2>3. IsFiniteSet(Passed(at)) /\ at \notin Passed(at) /\ Cardinality(Passed(at)) \in Nat
    <3>1. Passed(at) \subseteq 1..Len(events) /\ at \notin Passed(at)
      BY <1>1
    <3>2. IsFiniteSet(1..Len(events))
      BY <1>1, FS_Interval
    <3> DEFINE P == Passed(at)
    <3> HIDE DEF Passed, P
    <3>3. IsFiniteSet(P)
      BY <3>1, <3>2, FS_Subset DEF P
    <3> QED
      BY <3>1, <3>3, FS_CardinalityType DEF P
  <2>4. Passed(at + 1) = IF Nobody(at) THEN Passed(at) \cup {at} ELSE Passed(at)
    <3>1. \A n \in DOMAIN events : n < at + 1 <=> n < at \/ n = at
      BY <1>1
    <3> HIDE DEF Nobody
    <3>2. \A n : n \in Passed(at + 1) <=> n \in Passed(at) \/ (n = at /\ Nobody(at))
      BY <2>1, <3>1
    <3> HIDE DEF Passed
    <3>3. CASE Nobody(at)
      BY <3>2, <3>3
    <3>4. CASE ~Nobody(at)
      BY <3>2, <3>4
    <3> QED
      BY <3>3, <3>4
  <2>5. unseen' = Cardinality(Passed(at + 1))
    <3> DEFINE P == Passed(at)
    <3> HIDE DEF P, Nobody, Passed
    <3>1. IsFiniteSet(P) /\ at \notin P /\ Cardinality(P) \in Nat
      BY <2>3 DEF P
    <3>2. Cardinality(P \cup {at}) = Cardinality(P) + 1
      BY <3>1, FS_AddElement
    <3> QED
      BY <2>1, <2>2, <2>4, <3>1, <3>2 DEF P
  <2>6. unseen' = Cardinality({n \in DOMAIN events : n < at + 1 /\ Nobody(n)})
    BY <2>5
  <2> QED
    BY <1>1, <2>1, <2>6 DEF UnseenOK, AppliesTo, Unmapped
<1>4. CASE UNCHANGED <<rules, at, unseen>>
  BY <1>1, <1>4 DEF UnseenOK, AppliesTo, Unmapped
<1> QED
  BY <1>2, <1>3, <1>4 DEF Next, vars, caseVars, groupVars, EndOfEvents, NextRule, WholeGroup,
     StartWindows, Divide, EndDivide, Advance, NextEvent, EndWindows, EndScan

(* ------------------------------------------------------------- the pass *)

(* The group whose turn it is.                                             *)
LEMMA MembersFacts ==
    ASSUME ReadInv, turn <= Len(rules), nth <= Len(buckets[turn])
    PROVE  /\ turn \in DOMAIN rules /\ nth \in DOMAIN buckets[turn] /\ Rule.aggregate # None
           /\ Members \in Seq(Nat) /\ Ascending(Members) /\ Range(Members) \subseteq DOMAIN events
<1>1. turn \in DOMAIN rules
  BY RuleFacts DEF ReadInv, ProgressOK
<1>2. nth \in DOMAIN buckets[turn]
  BY <1>1, BucketFacts DEF ReadInv, ProgressOK
<1> QED
  BY <1>1, <1>2, BucketFacts DEF Rule, Members

(* An event has a time or none, and the fields of its class.               *)
LEMMA RowFacts ==
    ASSUME events \in Seq(Rows), NEW n \in DOMAIN events
    PROVE  events[n].ts \in Nat \cup {None} /\ DOMAIN events[n].says = Fields
<1>1. events[n] \in Rows
  OBVIOUS
<1> QED
  BY <1>1, PoolAssumption DEF Rows

(* The dated events of a group come in the order of their times.           *)
LEMMA TimesSorted ==
    ASSUME EventsOK, DatedOK
    PROVE  /\ Len(dated) \in Nat /\ DOMAIN dated = 1..Len(dated)
           /\ \A i \in DOMAIN dated : dated[i] \in DOMAIN events /\ events[dated[i]].ts \in Nat
           /\ \A i, j \in DOMAIN dated : i <= j => events[dated[i]].ts <= events[dated[j]].ts
<1>1. Len(dated) \in Nat /\ DOMAIN dated = 1..Len(dated)
  BY DEF DatedOK
<1>2. \A i \in DOMAIN dated : dated[i] \in DOMAIN events /\ events[dated[i]].ts \in Nat
  BY RowFacts DEF DatedOK, EventsOK, Range
<1>3. ASSUME NEW i \in DOMAIN dated, NEW j \in DOMAIN dated, i < j
      PROVE  events[dated[i]].ts <= events[dated[j]].ts
  <2>1. dated[i] < dated[j]
    BY <1>3 DEF DatedOK, Ascending
  <2>2. events[dated[i]].ts # None
    BY DEF DatedOK
  <2> QED
    BY <1>2, <2>1, <2>2 DEF EventsOK, InOrder
<1> QED
  BY <1>1, <1>2, <1>3

Pass == DatedOK /\ Positions /\ LeftBehind /\ LongestIsBurst /\ LongestBehindEnd /\ NoneMissed

(* The invariant of the pass is about the events and its own variables.    *)
LEMMA PassStays ==
    ASSUME Pass, UNCHANGED <<events, groupVars>>, stage' = "divide" => stage = "divide"
    PROVE  Pass'
BY DEF Pass, groupVars, DatedOK, Positions, LeftBehind, LongestIsBurst, LongestBehindEnd, NoneMissed,
       Apart, IsBurst, Length

(* There is no pass in the beginning.                                      *)
LEMMA PassInit ==
    ASSUME Init
    PROVE  Pass /\ DivideOK
<1> USE DEF Init, NoRun
<1>1. DatedOK /\ Positions
  BY DEF DatedOK, Positions, Ascending, Range
<1>2. LeftBehind /\ LongestIsBurst /\ LongestBehindEnd /\ NoneMissed /\ DivideOK
  BY DEF LeftBehind, LongestIsBurst, LongestBehindEnd, NoneMissed, DivideOK
<1> QED
  BY <1>1, <1>2 DEF Pass

(* A pass that has not begun has missed nothing.                           *)
LEMMA PassBegins ==
    ASSUME DatedOK', start' = 1, end' = 1, longest' = NoRun
    PROVE  Pass'
<1>1. Len(dated') \in Nat /\ DOMAIN dated' = 1..Len(dated')
  BY DEF DatedOK
<1>2. Positions'
  BY <1>1 DEF Positions, NoRun
<1>3. LeftBehind' /\ LongestIsBurst' /\ LongestBehindEnd' /\ NoneMissed'
  BY <1>1 DEF LeftBehind, LongestIsBurst, LongestBehindEnd, NoneMissed, NoRun
<1> QED
  BY <1>2, <1>3 DEF Pass

(* Every step keeps the dated and the undated events of a group apart.     *)
LEMMA DivideStep ==
    ASSUME ReadInv, Pass, DivideOK, Divide
    PROVE  Pass' /\ DivideOK'
<1> DEFINE n == Members[Divided + 1]
<1>1. /\ stage = "divide" /\ stage' = "divide" /\ events' = events /\ Members' = Members
      /\ Divided < Len(Members) /\ start' = start /\ end' = end /\ longest' = longest
      /\ start = 1 /\ end = 1 /\ longest = NoRun
  BY DEF Divide, caseVars, Members, Pass, Positions
<1>2. Members \in Seq(Nat) /\ Ascending(Members) /\ Range(Members) \subseteq DOMAIN events
  BY <1>1, MembersFacts DEF ReadInv, ProgressOK
<1>3. /\ dated \in Seq(Nat) /\ Ascending(dated) /\ Range(dated) \subseteq DOMAIN events
      /\ undated \in Seq(Nat) /\ Ascending(undated) /\ Range(undated) \subseteq DOMAIN events
      /\ \A i \in DOMAIN dated : events[dated[i]].ts # None
      /\ Divided \in Nat
  BY DEF Pass, DatedOK, Divided
<1>4. /\ Divided + 1 \in DOMAIN Members /\ n \in Range(Members) /\ n \in DOMAIN events /\ n \in Nat
      /\ \A k \in 1..Divided : Members[k] < n
  <2>1. DOMAIN Members = 1..Len(Members)
    BY <1>2
  <2>2. Divided + 1 \in DOMAIN Members /\ \A k \in 1..Divided : k \in DOMAIN Members /\ k < Divided + 1
    BY <1>1, <1>2, <1>3, <2>1
  <2> QED
    BY <1>2, <2>2 DEF Ascending, Range
<1>5. \A m \in DOMAIN events :
          /\ m \in Range(dated) <=> \E k \in 1..Divided : m = Members[k] /\ events[m].ts # None
          /\ m \in Range(undated) <=> \E k \in 1..Divided : m = Members[k] /\ events[m].ts = None
  BY <1>1 DEF DivideOK
<1>6. (\A m \in Range(dated) : m < n) /\ (\A m \in Range(undated) : m < n)
  BY <1>3, <1>4, <1>5
<1>7. \A k : k \in 1..(Divided + 1) <=> k \in 1..Divided \/ k = Divided + 1
  BY <1>3
<1> HIDE DEF Divided
<1>8. CASE events[n].ts # None
  <2>1. dated' = Append(dated, n) /\ undated' = undated
    BY <1>8 DEF Divide
  <2>2. Ascending(Append(dated, n))
    BY <1>3, <1>4, <1>6, AppendAscends
  <2>3. /\ Append(dated, n) \in Seq(Nat) /\ Divided' = Divided + 1
        /\ \A m : m \in Range(Append(dated, n)) <=> m \in Range(dated) \/ m = n
        /\ \A i \in DOMAIN Append(dated, n) : Append(dated, n)[i] \in Range(Append(dated, n))
    <3> HIDE DEF n
    <3>1. /\ Append(dated, n) \in Seq(Nat) /\ Len(Append(dated, n)) = Len(dated) + 1
          /\ \A m : m \in Range(Append(dated, n)) <=> m \in Range(dated) \/ m = n
      BY <1>3, <1>4, AppendFacts
    <3>2. Divided' = Divided + 1
      BY <1>3, <2>1, <3>1 DEF Divided
    <3> QED
      BY <3>1, <3>2 DEF Range
  <2> HIDE DEF n
  <2>a. \A i \in DOMAIN Append(dated, n) : events[Append(dated, n)[i]].ts # None
    <3>1. \A m \in Range(dated) : events[m].ts # None
      BY <1>3 DEF Range
    <3> QED
      BY <1>8, <2>3, <3>1
  <2>4. DatedOK'
    BY <1>1, <1>3, <1>4, <2>1, <2>2, <2>3, <2>a DEF DatedOK, Ascending
  <2>5. DivideOK'
    <3>1. \A m \in DOMAIN events :
              m \in Range(dated') <=> \E k \in 1..(Divided + 1) : m = Members[k] /\ events[m].ts # None
      BY <1>5, <1>7, <1>8, <2>1, <2>3 DEF n
    <3>2. \A m \in DOMAIN events :
              m \in Range(undated') <=> \E k \in 1..(Divided + 1) : m = Members[k] /\ events[m].ts = None
      BY <1>5, <1>7, <1>8, <2>1, <2>3 DEF n
    <3> QED
      BY <1>1, <1>2, <1>3, <2>3, <3>1, <3>2 DEF DivideOK
  <2> QED
    BY <1>1, <2>4, <2>5, PassBegins
<1>9. CASE events[n].ts = None
  <2>1. undated' = Append(undated, n) /\ dated' = dated
    BY <1>9 DEF Divide
  <2>2. Ascending(Append(undated, n))
    BY <1>3, <1>4, <1>6, AppendAscends
  <2>3. /\ Append(undated, n) \in Seq(Nat) /\ Divided' = Divided + 1
        /\ \A m : m \in Range(Append(undated, n)) <=> m \in Range(undated) \/ m = n
        /\ \A i \in DOMAIN Append(undated, n) : Append(undated, n)[i] \in Range(Append(undated, n))
    <3> HIDE DEF n
    <3>1. /\ Append(undated, n) \in Seq(Nat) /\ Len(Append(undated, n)) = Len(undated) + 1
          /\ \A m : m \in Range(Append(undated, n)) <=> m \in Range(undated) \/ m = n
      BY <1>3, <1>4, AppendFacts
    <3>2. Divided' = Divided + 1
      BY <1>3, <2>1, <3>1 DEF Divided
    <3> QED
      BY <3>1, <3>2 DEF Range
  <2> HIDE DEF n
  <2>4. DatedOK'
    BY <1>1, <1>3, <1>4, <2>1, <2>2, <2>3 DEF DatedOK, Ascending
  <2>5. DivideOK'
    <3>1. \A m \in DOMAIN events :
              m \in Range(dated') <=> \E k \in 1..(Divided + 1) : m = Members[k] /\ events[m].ts # None
      BY <1>5, <1>7, <1>9, <2>1, <2>3 DEF n
    <3>2. \A m \in DOMAIN events :
              m \in Range(undated') <=> \E k \in 1..(Divided + 1) : m = Members[k] /\ events[m].ts = None
      BY <1>5, <1>7, <1>9, <2>1, <2>3 DEF n
    <3> QED
      BY <1>1, <1>2, <1>3, <2>3, <3>1, <3>2 DEF DivideOK
  <2> QED
    BY <1>1, <2>4, <2>5, PassBegins
<1> QED
  BY <1>8, <1>9

(* An event that start leaves is too far from every event still to come.   *)
LEMMA AdvanceStep ==
    ASSUME EventsOK, Pass, Advance
    PROVE  Pass'
<1>1. /\ events' = events /\ dated' = dated /\ undated' = undated /\ end' = end /\ longest' = longest
      /\ stage = "window" /\ stage' = "window" /\ start' = start + 1
      /\ end <= Len(dated) /\ start < end /\ Apart(start, end) > Span
  BY DEF Advance, caseVars, TooFar
<1>2. DatedOK' /\ LongestIsBurst' /\ LongestBehindEnd' /\ NoneMissed'
  BY <1>1 DEF Pass, DatedOK, LongestIsBurst, LongestBehindEnd, NoneMissed, Apart, IsBurst, Length
<1>3. Positions'
  BY <1>1 DEF Pass, Positions
<1>4. LeftBehind'
  <2> SUFFICES ASSUME NEW i \in DOMAIN dated, i < start + 1
               PROVE  Apart(i, end) > Span
    BY <1>1 DEF LeftBehind, Apart
  <2>1. CASE i < start
    BY <1>1, <2>1 DEF Pass, LeftBehind
  <2>2. CASE i = start
    BY <1>1, <2>2
  <2> QED
    BY <2>1, <2>2, TimesSorted DEF Pass, Positions
<1> QED
  BY <1>2, <1>3, <1>4 DEF Pass

(* A run that ends at end is compared with the one kept, and no longer one *)
(* ends there: it would begin behind start.                                *)
LEMMA NextEventStep ==
    ASSUME EventsOK, Pass, NextEvent
    PROVE  Pass'
<1> USE WindowsAssumption
<1>t. /\ Len(dated) \in Nat /\ DOMAIN dated = 1..Len(dated)
      /\ \A i, j \in DOMAIN dated : Apart(i, j) \in Int
      /\ \A i, j \in DOMAIN dated : j + 1 \in DOMAIN dated => Apart(i, j) <= Apart(i, j + 1)
      /\ start \in Nat \ {0} /\ end \in Nat \ {0} /\ start <= end
      /\ longest \in [first : Nat \ {0}, last : Nat] /\ Length(longest) \in Int
  <2>1. \A i, j \in DOMAIN dated : Apart(i, j) \in Int
    BY TimesSorted DEF Pass, Apart
  <2>2. \A i, j \in DOMAIN dated : j + 1 \in DOMAIN dated => Apart(i, j) <= Apart(i, j + 1)
    BY TimesSorted DEF Pass, Apart
  <2> QED
    BY <2>1, <2>2, TimesSorted DEF Pass, Positions, Length
<1>1. /\ events' = events /\ dated' = dated /\ undated' = undated /\ start' = start /\ end' = end + 1
      /\ stage = "window" /\ stage' = "window" /\ start \in DOMAIN dated /\ end \in DOMAIN dated
      /\ \/ longest' = longest /\ ~(Enough(start, end) /\ end - start + 1 > Length(longest))
         \/ /\ longest' = [first |-> start, last |-> end]
            /\ Enough(start, end) /\ end - start + 1 > Length(longest)
  BY <1>t DEF NextEvent, caseVars
<1>2. Apart(start, end) <= Span
  <2>1. CASE start < end
    BY <1>1, <1>t, <2>1 DEF NextEvent, TooFar
  <2>2. CASE start = end
    BY <1>1, <1>t, <2>2, TimesSorted DEF Pass, Apart
  <2> QED
    BY <1>t, <2>1, <2>2
<1>3. DatedOK' /\ Positions'
  <2>1. DatedOK'
    BY <1>1 DEF Pass, DatedOK
  <2>2. Positions'
    BY <1>1, <1>t DEF Positions
  <2> QED
    BY <2>1, <2>2
<1>4. LeftBehind'
  <2> SUFFICES ASSUME end + 1 <= Len(dated), NEW i \in DOMAIN dated, i < start
               PROVE  Apart(i, end + 1) > Span
    BY <1>1 DEF LeftBehind, Apart
  <2>1. Apart(i, end) > Span
    BY <1>1, <1>t DEF Pass, LeftBehind
  <2>2. end + 1 \in DOMAIN dated
    BY <1>t
  <2>3. Apart(i, end) \in Int /\ Apart(i, end + 1) \in Int /\ Apart(i, end) <= Apart(i, end + 1)
    BY <1>1, <1>t, <2>2
  <2> QED
    BY <2>1, <2>3
<1>5. (LongestIsBurst /\ LongestBehindEnd)'
  <2>1. CASE longest' = longest
    BY <1>1, <1>t, <2>1 DEF Pass, LongestIsBurst, LongestBehindEnd, IsBurst, Apart
  <2>2. CASE longest' = [first |-> start, last |-> end] /\ Enough(start, end)
    <3>1. IsBurst(start, end)
      BY <1>1, <1>2, <1>t, <2>2 DEF IsBurst, Enough
    <3> QED
      BY <1>1, <1>t, <2>2, <3>1 DEF LongestIsBurst, LongestBehindEnd, IsBurst, Apart
  <2> QED
    BY <1>1, <2>1, <2>2
<1>6. NoneMissed'
  <2>0. \A i, j \in DOMAIN dated : (IsBurst(i, j)' <=> IsBurst(i, j)) /\ (j < end + 1 <=> j <= end)
    <3>1. \A i, j \in DOMAIN dated : IsBurst(i, j)' <=> IsBurst(i, j)
      BY <1>1 DEF IsBurst, Apart
    <3>2. \A j \in DOMAIN dated : j < end + 1 <=> j <= end
      BY <1>t
    <3> QED
      BY <3>1, <3>2
  <2> SUFFICES ASSUME NEW i \in DOMAIN dated, NEW j \in DOMAIN dated, j <= end, IsBurst(i, j)
               PROVE  /\ longest' # NoRun
                      /\ \/ j - i + 1 < Length(longest')
                         \/ j - i + 1 = Length(longest') /\ longest'.last <= j
    BY <1>1, <2>0 DEF NoneMissed, Length
  <2>1. /\ i \in Nat \ {0} /\ j \in Nat \ {0} /\ i <= j /\ j - i + 1 >= MinCount /\ Apart(i, j) <= Span
        /\ longest.first \in Nat /\ longest.last \in Nat /\ longest.last < end
    BY <1>t DEF Pass, LongestBehindEnd, IsBurst
  <2>2. j = end => i >= start
    <3>1. i < start => Apart(i, end) > Span
      BY <1>1, <1>t DEF Pass, LeftBehind
    <3>2. Apart(i, end) \in Int
      BY <1>1, <1>t
    <3> QED
      BY <1>t, <2>1, <3>1, <3>2
  <2>3. CASE longest' = longest /\ ~(Enough(start, end) /\ end - start + 1 > Length(longest))
    <3>1. CASE j < end
      BY <2>3, <3>1 DEF Pass, NoneMissed
    <3>2. CASE j = end
      <4>1. Enough(start, end)
        BY <1>t, <2>1, <2>2, <3>2 DEF Enough
      <4>2. j - i + 1 <= Length(longest)
        BY <1>t, <2>1, <2>2, <2>3, <3>2, <4>1
      <4>3. longest # NoRun
        BY <2>1, <4>2 DEF Length, NoRun
      <4> QED
        BY <1>t, <2>1, <2>3, <3>2, <4>2, <4>3
    <3> QED
      BY <1>t, <2>1, <3>1, <3>2
  <2>4. CASE longest' = [first |-> start, last |-> end] /\ end - start + 1 > Length(longest)
    <3>1. Length(longest') = end - start + 1 /\ longest' # NoRun /\ longest'.last = end
      BY <1>t, <2>4 DEF Length, NoRun
    <3>2. CASE j < end
      <4>1. j - i + 1 < Length(longest) \/ j - i + 1 = Length(longest)
        BY <3>2 DEF Pass, NoneMissed
      <4> QED
        BY <1>t, <2>1, <2>4, <3>1, <4>1
    <3>3. CASE j = end
      BY <1>t, <2>1, <2>2, <3>1, <3>3
    <3> QED
      BY <1>t, <2>1, <3>2, <3>3
  <2> QED
    BY <1>1, <2>3, <2>4
<1> QED
  BY <1>3, <1>4, <1>5, <1>6 DEF Pass

(* Every step keeps the invariant of the pass.                             *)
LEMMA PassStep ==
    ASSUME ReadInv, Pass, DivideOK, [Next]_vars
    PROVE  Pass' /\ DivideOK'
<1>1. events' = events
  BY CaseStays
<1>2. CASE StartWindows
  <2>1. DatedOK' /\ start' = 1 /\ end' = 1 /\ longest' = NoRun
    BY <1>2 DEF StartWindows, DatedOK, Ascending, Range
  <2>2. DivideOK'
    <3>1. Members' = Members /\ stage' = "divide" /\ dated' = <<>> /\ undated' = <<>>
      BY <1>2 DEF StartWindows, Members
    <3>2. Members \in Seq(Nat)
      BY <1>2, MembersFacts DEF StartWindows
    <3> QED
      BY <1>1, <3>1, <3>2 DEF DivideOK, Divided, Range
  <2> QED
    BY <2>1, <2>2, PassBegins
<1>3. CASE Divide
  BY <1>3, DivideStep
<1>4. ASSUME Members' = Members, dated' = dated, undated' = undated,
             stage' \in {"divide", "window"} => stage \in {"divide", "window"},
             stage' = "window" => stage = "window" \/ Divided >= Len(Members)
      PROVE  DivideOK'
  BY <1>1, <1>4 DEF DivideOK, Divided
<1>5. CASE EndDivide
  <2>1. Pass'
    BY <1>1, <1>5, PassStays DEF EndDivide
  <2> QED
    BY <1>4, <1>5, <2>1 DEF EndDivide, groupVars, Members
<1>6. CASE Advance
  <2>1. Pass'
    BY <1>6, AdvanceStep DEF ReadInv
  <2> QED
    BY <1>4, <1>6, <2>1 DEF Advance, Members
<1>7. CASE NextEvent
  <2>1. Pass'
    BY <1>7, NextEventStep DEF ReadInv
  <2> QED
    BY <1>4, <1>7, <2>1 DEF NextEvent, Members
<1>8. CASE Load \/ ReadEvent \/ EndOfEvents \/ NextRule \/ WholeGroup \/ EndWindows \/ EndScan
  <2>1. UNCHANGED groupVars /\ stage' \notin {"divide", "window"}
    BY <1>8 DEF Load, ReadEvent, EndOfEvents, NextRule, WholeGroup, EndWindows, EndScan
  <2> QED
    BY <1>1, <2>1, PassStays DEF DivideOK
<1>9. CASE UNCHANGED vars
  <2>1. Pass'
    BY <1>1, <1>9, PassStays DEF vars
  <2> QED
    BY <1>4, <1>9, <2>1 DEF vars, groupVars, Members
<1> QED
  BY <1>2, <1>3, <1>5, <1>6, <1>7, <1>8, <1>9 DEF Next

(* ------------------------------------------- what the pass is to find *)

(* The dated events of a group, in their order.                            *)
AreDated(group) == \A n : n \in Range(dated) <=> n \in group /\ events[n].ts # None

Time(p) == events[dated[p]].ts

(* The times of the dated events are numbers, in order.                    *)
LEMMA TimeFacts ==
    ASSUME EventsOK, DatedOK
    PROVE  /\ Len(dated) \in Nat /\ DOMAIN dated = 1..Len(dated)
           /\ \A p \in DOMAIN dated : Time(p) \in Nat /\ dated[p] \in DOMAIN events
           /\ \A p, q \in DOMAIN dated : p <= q => Time(p) <= Time(q)
           /\ \A p, q \in DOMAIN dated : dated[p] = dated[q] => p = q
           /\ \A p, q : Apart(p, q) = Time(q) - Time(p)
<1>1. ASSUME NEW p \in DOMAIN dated, NEW q \in DOMAIN dated, dated[p] = dated[q], p # q
      PROVE  FALSE
  <2>1. dated[p] \in Nat /\ dated[q] \in Nat /\ p \in Nat /\ q \in Nat
    BY DEF DatedOK
  <2> QED
    BY <1>1, <2>1 DEF DatedOK, Ascending
<1> QED
  BY <1>1, TimesSorted DEF Time, Apart

(* The events inside a span that begins with one of them are next to each  *)
(* other.                                                                  *)
LEMMA WithinIsSlice ==
    ASSUME EventsOK, DatedOK, NEW group, AreDated(group), NEW p \in DOMAIN dated
    PROVE  \E lo, hi \in DOMAIN dated :
              /\ lo <= hi /\ Time(lo) = Time(p)
              /\ \A k \in DOMAIN dated : Time(p) <= Time(k) /\ Time(k) <= Time(p) + Span <=> lo <= k /\ k <= hi
              /\ Within(group, Time(p)) = {dated[k] : k \in lo..hi}
              /\ Cardinality(Within(group, Time(p))) = hi - lo + 1
<1> USE WindowsAssumption
<1> DEFINE From == {k \in DOMAIN dated : Time(p) <= Time(k)}
           UpTo == {k \in DOMAIN dated : Time(k) <= Time(p) + Span}
<1>1. /\ Len(dated) \in Nat /\ DOMAIN dated = 1..Len(dated)
      /\ \A k \in DOMAIN dated : Time(k) \in Nat
      /\ \A k, l \in DOMAIN dated : k <= l => Time(k) <= Time(l)
      /\ \A k, l \in DOMAIN dated : dated[k] = dated[l] => k = l
  BY TimeFacts
<1>2. From \in SUBSET Nat /\ UpTo \in SUBSET Nat /\ p \in From /\ p \in UpTo /\ \A k \in UpTo : k <= Len(dated)
  BY <1>1
<1>3. PICK lo \in From : \A k \in From : lo <= k
  <2> HIDE DEF From
  <2> QED
    BY <1>2, LeastNat
<1>4. PICK hi \in UpTo : \A k \in UpTo : k <= hi
  <2> HIDE DEF UpTo
  <2> QED
    BY <1>1, <1>2, GreatestNat
<1>5. lo \in DOMAIN dated /\ hi \in DOMAIN dated /\ lo <= p /\ p <= hi
  BY <1>2, <1>3, <1>4
<1>6. Time(lo) = Time(p)
  BY <1>1, <1>3, <1>5
<1>7. ASSUME NEW k \in DOMAIN dated
      PROVE  Time(p) <= Time(k) /\ Time(k) <= Time(p) + Span <=> lo <= k /\ k <= hi
  <2>1. Time(hi) <= Time(p) + Span
    BY <1>4
  <2>2. lo <= k => Time(p) <= Time(k)
    BY <1>1, <1>5, <1>6
  <2>3. k <= hi => Time(k) <= Time(p) + Span
    <3>1. k <= hi => Time(k) <= Time(hi)
      BY <1>1, <1>5
    <3>2. Time(k) \in Nat /\ Time(hi) \in Nat /\ Time(p) \in Nat
      BY <1>1, <1>5
    <3> QED
      BY <2>1, <3>1, <3>2
  <2>4. (Time(p) <= Time(k) => lo <= k) /\ (Time(k) <= Time(p) + Span => k <= hi)
    BY <1>3, <1>4
  <2> QED
    BY <2>2, <2>3, <2>4
<1>8. Within(group, Time(p)) = {dated[k] : k \in lo..hi}
  <2>1. \A n : n \in Within(group, Time(p)) <=> n \in Range(dated) /\ Time(p) <= events[n].ts /\ events[n].ts <= Time(p) + Span
    BY DEF Within, AreDated
  <2>2. \A n : n \in Range(dated) <=> \E k \in DOMAIN dated : n = dated[k]
    BY DEF Range
  <2>3. \A k : k \in lo..hi <=> k \in DOMAIN dated /\ lo <= k /\ k <= hi
    BY <1>1, <1>5
  <2>4. \A n : n \in Within(group, Time(p)) <=> \E k \in lo..hi : n = dated[k]
    BY <1>7, <2>1, <2>2, <2>3 DEF Time
  <2> QED
    BY <2>4
<1>9. Cardinality({dated[k] : k \in lo..hi}) = hi - lo + 1
  <2>1. lo \in Nat /\ hi \in Nat /\ lo <= hi /\ lo..hi \subseteq DOMAIN dated
    BY <1>1, <1>5
  <2>2. dated \in Seq(Nat) /\ Ascending(dated)
    BY DEF DatedOK
  <2>3. Cardinality({dated[k] : k \in lo..hi}) = IF lo > hi THEN 0 ELSE hi - lo + 1
    BY <2>1, <2>2, SliceCounts
  <2> QED
    BY <2>1, <2>3
<1>10. lo <= hi
  BY <1>1, <1>5
<1> QED
  BY <1>5, <1>6, <1>7, <1>8, <1>9, <1>10

(* What the pass has kept when it is over is the first of the largest      *)
(* sets; when it has kept nothing, no set is large enough.                 *)
LEMMA LargestIsKept ==
    ASSUME EventsOK, Pass, end > Len(dated), NEW group, AreDated(group)
    PROVE  /\ longest # NoRun => LargestWindow(group) = {dated[k] : k \in longest.first..longest.last}
           /\ longest = NoRun => ~(Cardinality(LargestWindow(group)) >= MinCount)
<1> USE WindowsAssumption
<1> DEFINE times == {events[n].ts : n \in {m \in group : events[m].ts # None}}
           Size(t) == Cardinality(Within(group, t))
           largest == {t \in times : \A u \in times : Cardinality(Within(group, u)) <= Cardinality(Within(group, t))}
           chosen == CHOOSE t \in largest : \A u \in largest : t <= u
<1>1. /\ DatedOK /\ Len(dated) \in Nat /\ DOMAIN dated = 1..Len(dated)
      /\ \A p \in DOMAIN dated : Time(p) \in Nat
      /\ \A p, q \in DOMAIN dated : p <= q => Time(p) <= Time(q)
      /\ \A p, q : Apart(p, q) = Time(q) - Time(p)
  BY TimeFacts DEF Pass
<1>2. \A t : t \in times <=> \E p \in DOMAIN dated : t = Time(p)
  <2>1. \A t : t \in times <=> \E n \in Range(dated) : t = events[n].ts
    BY DEF AreDated
  <2> QED
    BY <2>1 DEF Range, Time
<1>3. LargestWindow(group) = IF times = {} THEN {} ELSE Within(group, chosen)
  BY DEF LargestWindow
<1>4. \A p \in DOMAIN dated : \E lo, hi \in DOMAIN dated :
              /\ lo <= hi /\ Time(lo) = Time(p)
              /\ \A k \in DOMAIN dated : Time(p) <= Time(k) /\ Time(k) <= Time(p) + Span <=> lo <= k /\ k <= hi
              /\ Within(group, Time(p)) = {dated[k] : k \in lo..hi}
              /\ Size(Time(p)) = hi - lo + 1
  BY <1>1, WithinIsSlice
<1>5. \A i, j \in DOMAIN dated : IsBurst(i, j) =>
          longest # NoRun /\ (j - i + 1 < Length(longest) \/ (j - i + 1 = Length(longest) /\ longest.last <= j))
  <2>1. \A j \in DOMAIN dated : j < end
    BY <1>1 DEF Pass, Positions
  <2> QED
    BY <2>1 DEF Pass, NoneMissed
<1>6. ASSUME NEW lo \in DOMAIN dated, NEW hi \in DOMAIN dated, lo <= hi,
             \A k \in DOMAIN dated : Time(lo) <= Time(k) /\ Time(k) <= Time(lo) + Span <=> lo <= k /\ k <= hi,
             hi - lo + 1 >= MinCount
      PROVE  IsBurst(lo, hi)
  <2>1. Time(hi) <= Time(lo) + Span
    BY <1>6
  <2>2. Time(hi) \in Nat /\ Time(lo) \in Nat
    BY <1>1
  <2> QED
    BY <1>1, <1>6, <2>1, <2>2 DEF IsBurst
<1> HIDE DEF times, Size
<1>7. ASSUME times # {}
      PROVE  chosen \in largest /\ \A u \in largest : chosen <= u
  <2> DEFINE sizes == {Size(t) : t \in times}
  <2>1. sizes \in SUBSET Nat /\ \A s \in sizes : s <= Len(dated)
    <3>1. ASSUME NEW t \in times
          PROVE  Size(t) \in Nat /\ Size(t) <= Len(dated)
      <4>1. PICK p \in DOMAIN dated : t = Time(p)
        BY <1>2
      <4>2. PICK lo \in DOMAIN dated, hi \in DOMAIN dated : lo <= hi /\ Size(Time(p)) = hi - lo + 1
        BY <1>4
      <4> QED
        BY <1>1, <4>1, <4>2
    <3> QED
      BY <3>1
  <2>2. PICK s \in sizes : \A r \in sizes : r <= s
    <3>1. sizes # {}
      BY <1>7
    <3> HIDE DEF sizes
    <3> QED
      BY <1>1, <2>1, <3>1, GreatestNat
  <2>3. largest # {} /\ largest \in SUBSET Nat
    <3>1. \A t \in times : t \in Nat
      BY <1>1, <1>2
    <3>2. \E t \in times : \A u \in times : Size(u) <= Size(t)
      BY <2>2
    <3> QED
      BY <3>1, <3>2 DEF Size
  <2> HIDE DEF largest
  <2>4. \E t \in largest : \A u \in largest : t <= u
    BY <2>3, LeastNat
  <2> QED
    BY <2>4
<1>8. CASE longest = NoRun
  <2>1. CASE times = {}
    BY <1>3, <1>8, <2>1, FS_EmptySet
  <2>2. CASE times # {}
    <3>1. PICK p \in DOMAIN dated : chosen = Time(p)
      BY <1>2, <1>7, <2>2
    <3>2. ~(Size(chosen) >= MinCount)
      <4> HIDE DEF chosen
      <4>1. PICK lo \in DOMAIN dated, hi \in DOMAIN dated :
                /\ lo <= hi /\ Time(lo) = Time(p)
                /\ \A k \in DOMAIN dated : Time(p) <= Time(k) /\ Time(k) <= Time(p) + Span <=> lo <= k /\ k <= hi
                /\ Size(Time(p)) = hi - lo + 1
        BY <1>4
      <4>2. hi - lo + 1 >= MinCount => IsBurst(lo, hi)
        BY <1>6, <4>1
      <4> QED
        BY <1>5, <1>8, <3>1, <4>1, <4>2
    <3> QED
      BY <1>3, <1>8, <2>2, <3>2 DEF Size
  <2> QED
    BY <2>1, <2>2
<1>9. CASE longest # NoRun
  <2> DEFINE f == longest.first
             l == longest.last
  <2>1. /\ l \in DOMAIN dated /\ f \in DOMAIN dated /\ f <= l /\ Time(l) <= Time(f) + Span
        /\ l - f + 1 >= MinCount /\ Length(longest) = l - f + 1
    <3>1. IsBurst(f, l) /\ l \in DOMAIN dated /\ f \in Nat \ {0}
      BY <1>9 DEF Pass, LongestIsBurst, Positions
    <3>2. f \in DOMAIN dated /\ f <= l /\ l - f + 1 >= MinCount
      BY <1>1, <3>1 DEF IsBurst
    <3>3. Time(l) <= Time(f) + Span
      <4>1. Time(l) - Time(f) <= Span /\ Time(l) \in Nat /\ Time(f) \in Nat
        BY <1>1, <3>1, <3>2 DEF IsBurst
      <4> QED
        BY <4>1
    <3> QED
      BY <3>1, <3>2, <3>3 DEF Length
  <2> HIDE DEF f, l
  <2>2. Within(group, Time(f)) = {dated[k] : k \in f..l} /\ Size(Time(f)) = l - f + 1
    <3>1. PICK lo \in DOMAIN dated, hi \in DOMAIN dated :
              /\ lo <= hi /\ Time(lo) = Time(f)
              /\ \A k \in DOMAIN dated : Time(f) <= Time(k) /\ Time(k) <= Time(f) + Span <=> lo <= k /\ k <= hi
              /\ Within(group, Time(f)) = {dated[k] : k \in lo..hi}
              /\ Size(Time(f)) = hi - lo + 1
      BY <1>4, <2>1
    <3>2. lo <= f /\ l <= hi
      BY <1>1, <2>1, <3>1
    <3>3. IsBurst(lo, hi)
      <4>1. hi - lo + 1 >= MinCount
        BY <1>1, <2>1, <3>2
      <4> QED
        BY <1>6, <3>1, <4>1
    <3>4. hi - lo + 1 <= l - f + 1
      BY <1>1, <1>5, <2>1, <3>3
    <3>5. lo = f /\ hi = l
      BY <1>1, <2>1, <3>2, <3>4
    <3> QED
      BY <3>1, <3>5
  <2>3. ASSUME NEW u \in times
        PROVE  Size(u) <= Size(Time(f)) /\ (Size(u) = Size(Time(f)) => Time(f) <= u)
    <3>1. PICK p \in DOMAIN dated : u = Time(p)
      BY <1>2
    <3>2. PICK lo \in DOMAIN dated, hi \in DOMAIN dated :
              /\ lo <= hi /\ Time(lo) = u
              /\ \A k \in DOMAIN dated : u <= Time(k) /\ Time(k) <= u + Span <=> lo <= k /\ k <= hi
              /\ Size(u) = hi - lo + 1
      BY <1>4, <3>1
    <3>3. CASE hi - lo + 1 < MinCount
      BY <1>1, <2>1, <2>2, <3>2, <3>3
    <3>4. CASE hi - lo + 1 >= MinCount
      <4>1. IsBurst(lo, hi)
        BY <1>6, <3>2, <3>4
      <4>2. hi - lo + 1 < l - f + 1 \/ (hi - lo + 1 = l - f + 1 /\ l <= hi)
        BY <1>5, <2>1, <4>1 DEF l
      <4>3. CASE hi - lo + 1 < l - f + 1
        BY <1>1, <2>1, <2>2, <3>2, <4>3
      <4>4. CASE hi - lo + 1 = l - f + 1 /\ l <= hi
        <5>1. f <= lo
          BY <1>1, <2>1, <4>4
        <5> QED
          BY <1>1, <2>1, <2>2, <3>2, <4>4, <5>1
      <4> QED
        BY <4>2, <4>3, <4>4
    <3> QED
      BY <1>1, <3>2, <3>3, <3>4
  <2>4. Time(f) \in times /\ times # {}
    BY <1>2, <2>1
  <2>5. Time(f) \in largest /\ \A u \in largest : Time(f) <= u
    <3>1. \A u \in times : Size(u) \in Int
      BY <1>1, <1>2, <1>4
    <3> QED
      BY <2>3, <2>4, <3>1 DEF Size
  <2>6. chosen = Time(f)
    <3>1. chosen \in largest /\ (\A u \in largest : chosen <= u) /\ \A t \in times : t \in Nat
      BY <1>1, <1>2, <1>7, <2>4, ZenonT(30)
    <3>2. chosen \in times
      BY <3>1
    <3> HIDE DEF chosen, largest
    <3> QED
      BY <2>4, <2>5, <3>1, <3>2
  <2> HIDE DEF chosen
  <2> QED
    BY <1>3, <1>9, <2>2, <2>4, <2>6 DEF f, l
<1> QED
  BY <1>8, <1>9

(* ---------------------------------------------------------- the findings *)

(* The list is long enough and says enough when the set does.              *)
LEMMA FiresSuffices ==
    ASSUME EventsOK, NEW rule, rule.aggregate.distinctGte \in Nat,
           NEW s \in Seq(Nat), Ascending(s), Range(s) \subseteq DOMAIN events
    PROVE  Fires(rule, s) <=> Suffices(rule, Range(s))
<1> DEFINE S == Range(s)
           d == rule.aggregate.distinct
           least == rule.aggregate.distinctGte
           f == [n \in DOMAIN events |-> GroupValue(events[n], d)]
<1>1. IsFiniteSet(S) /\ Cardinality(S) = Len(s)
  <2>1. S = {s[k] : k \in 1..Len(s)}
    BY DEF Range
  <2>2. 1..Len(s) \subseteq DOMAIN s /\ Len(s) \in Nat /\ 1 \in Nat
    OBVIOUS
  <2>3. /\ IsFiniteSet({s[k] : k \in 1..Len(s)})
        /\ Cardinality({s[k] : k \in 1..Len(s)}) = IF 1 > Len(s) THEN 0 ELSE Len(s) - 1 + 1
    BY <2>2, SliceCounts
  <2> QED
    BY <2>1, <2>2, <2>3
<1>2. ASSUME d # None
      PROVE  Cardinality({GroupValue(events[n], d) : n \in S}) >= least <=>
                \E some \in SUBSET S :
                    /\ Cardinality(some) = least
                    /\ \A m, n \in some : GroupValue(events[m], d) = GroupValue(events[n], d) => m = n
  <2>1. \A n \in S : f[n] = GroupValue(events[n], d)
    OBVIOUS
  <2>2. Cardinality({f[n] : n \in S}) >= least <=>
          \E some \in SUBSET S : Cardinality(some) = least /\ \A m, n \in some : f[m] = f[n] => m = n
    <3> HIDE DEF f, S
    <3> QED
      BY <1>1, Representatives
  <2>3. {f[n] : n \in S} = {GroupValue(events[n], d) : n \in S}
    <3> HIDE DEF f, S
    <3> QED
      BY <2>1
  <2>4. \A some \in SUBSET S :
          (\A m, n \in some : f[m] = f[n] => m = n) <=>
          (\A m, n \in some : GroupValue(events[m], d) = GroupValue(events[n], d) => m = n)
    <3> HIDE DEF f, S
    <3> QED
      BY <2>1
  <2> HIDE DEF f, S
  <2> QED
    BY <2>2, <2>3, <2>4
<1>3. DistinctEnough(rule, s) <=> d = None \/ Cardinality({GroupValue(events[n], d) : n \in S}) >= least
  BY DEF DistinctEnough
<1>4. Suffices(rule, S) <=>
        /\ Cardinality(S) >= MinCount
        /\ d # None => \E some \in SUBSET S :
                    /\ Cardinality(some) = least
                    /\ \A m, n \in some : GroupValue(events[m], d) = GroupValue(events[n], d) => m = n
  BY DEF Suffices
<1> HIDE DEF S, d
<1> QED
  BY <1>1, <1>2, <1>3, <1>4 DEF Fires, S

(* A finding names its rule and the events it rests on.                    *)
LEMMA FoundFacts ==
    ASSUME NEW rule, NEW s
    PROVE  Found(rule, s).rule = rule.id /\ Found(rule, s).events = Ids(Range(s))
BY DEF Found, Ids

OwedWith(rule, bucket, upTo, i, t, k, w) ==
    IF rule.aggregate = None THEN \E m \in DOMAIN events : m < upTo /\ Asks(rule, events[m]) /\ w = {m}
    ELSE \E j \in DOMAIN bucket :
            /\ i < t \/ (i = t /\ j < k)
            /\ w \in WindowsOf(rule, Range(bucket[j].members)) /\ Suffices(rule, w)

(* What is owed of a rule so far, in one formula.                          *)
LEMMA OwedNow ==
    ASSUME NEW i, NEW w
    PROVE  w \in Owed(i) <=> OwedWith(rules[i], buckets[i], at, i, turn, nth, w)
<1>1. CASE rules[i].aggregate = None
  BY <1>1 DEF Owed, OwedWith
<1>2. CASE rules[i].aggregate # None
  BY <1>2 DEF Owed, OwedWith, Handled
<1> QED
  BY <1>1, <1>2

(* The same, after a step.                                                 *)
LEMMA OwedNext ==
    ASSUME events' = events, NEW i, NEW w
    PROVE  w \in Owed(i)' <=> OwedWith(rules'[i], buckets'[i], at', i, turn', nth', w)
<1>1. CASE rules'[i].aggregate = None
  BY <1>1 DEF Owed, OwedWith, Asks, AppliesTo, Unmapped
<1>2. CASE rules'[i].aggregate # None
  <2>1. \A rule, g : (Suffices(rule, g)' <=> Suffices(rule, g)) /\ WindowsOf(rule, g)' = WindowsOf(rule, g)
    BY WindowsStay
  <2>2. w \in Owed(i)' <=> \E j \in DOMAIN buckets'[i] :
            /\ i < turn' \/ (i = turn' /\ j < nth')
            /\ w \in WindowsOf(rules[i], Range(buckets[i][j].members))' /\ Suffices(rules[i], w)'
    BY <1>2 DEF Owed, Handled
  <2> QED
    BY <1>2, <2>1, <2>2 DEF OwedWith
<1> QED
  BY <1>1, <1>2

(* One more group has been gone through.                                   *)
LEMMA GroupHandled ==
    ASSUME ReadInv, EvidenceOK, events' = events, UNCHANGED <<rules, buckets, at, turn>>, nth' = nth + 1,
           turn <= Len(rules), nth <= Len(buckets[turn]),
           NEW new, findings' = findings \cup new,
           \A f \in new : f.rule = Rule.id /\ \E w \in WindowsOf(Rule, Range(Members)) : Suffices(Rule, w) /\ f.events = Ids(w),
           \A w \in WindowsOf(Rule, Range(Members)) : Suffices(Rule, w) =>
               \E f \in new : f.rule = Rule.id /\ f.events = Ids(w)
    PROVE  EvidenceOK'
<1>1. turn \in DOMAIN rules /\ nth \in DOMAIN buckets[turn] /\ Rule.aggregate # None
  BY MembersFacts
<1>2. nth \in Nat /\ \A i \in DOMAIN rules : \A k \in DOMAIN buckets[i] : k < nth + 1 <=> k < nth \/ k = nth
  BY BucketFacts DEF ReadInv, ProgressOK
<1>3. \A i \in DOMAIN rules : rules[i].id = Rule.id => i = turn
  BY <1>1 DEF ReadInv, RulesOK, Rule
<1>4. ASSUME NEW i \in DOMAIN rules, NEW w
      PROVE  w \in Owed(i)' <=>
                w \in Owed(i) \/ (i = turn /\ w \in WindowsOf(Rule, Range(Members)) /\ Suffices(Rule, w))
  <2>1. w \in Owed(i)' <=> OwedWith(rules[i], buckets[i], at, i, turn, nth + 1, w)
    BY OwedNext
  <2>2. w \in Owed(i) <=> OwedWith(rules[i], buckets[i], at, i, turn, nth, w)
    BY OwedNow
  <2>3. CASE rules[i].aggregate = None
    BY <1>1, <2>1, <2>2, <2>3 DEF OwedWith, Rule
  <2>4. CASE rules[i].aggregate # None
    <3> HIDE DEF Suffices, WindowsOf
    <3>1. OwedWith(rules[i], buckets[i], at, i, turn, nth + 1, w) <=>
            \E j \in DOMAIN buckets[i] :
              /\ i < turn \/ (i = turn /\ j < nth + 1)
              /\ w \in WindowsOf(rules[i], Range(buckets[i][j].members)) /\ Suffices(rules[i], w)
      BY <2>4 DEF OwedWith
    <3>2. OwedWith(rules[i], buckets[i], at, i, turn, nth, w) <=>
            \E j \in DOMAIN buckets[i] :
              /\ i < turn \/ (i = turn /\ j < nth)
              /\ w \in WindowsOf(rules[i], Range(buckets[i][j].members)) /\ Suffices(rules[i], w)
      BY <2>4 DEF OwedWith
    <3> QED
      BY <1>1, <1>2, <2>1, <2>2, <3>1, <3>2 DEF Rule, Members
  <2> QED
    BY <2>3, <2>4
<1>5. ASSUME NEW i \in DOMAIN rules, NEW f \in findings', f.rule = rules[i].id
      PROVE  \E w : w \in Owed(i)' /\ f.events = Ids(w)
  <2>1. CASE f \in findings
    <3>1. PICK w \in Owed(i) : f.events = Ids(w)
      BY <1>5, <2>1 DEF EvidenceOK
    <3> QED
      BY <1>4, <3>1
  <2>2. CASE f \in new
    <3>1. PICK w \in WindowsOf(Rule, Range(Members)) : Suffices(Rule, w) /\ f.events = Ids(w)
      BY <2>2
    <3>2. i = turn
      BY <1>3, <1>5, <2>2
    <3> QED
      BY <1>4, <3>1, <3>2
  <2> QED
    BY <2>1, <2>2
<1>6. ASSUME NEW i \in DOMAIN rules, NEW w, w \in Owed(i)'
      PROVE  \E f \in findings' : f.rule = rules[i].id /\ f.events = Ids(w)
  <2>1. CASE w \in Owed(i)
    BY <2>1 DEF EvidenceOK
  <2>2. CASE i = turn /\ w \in WindowsOf(Rule, Range(Members)) /\ Suffices(Rule, w)
    BY <2>2 DEF Rule
  <2> QED
    BY <1>4, <1>6, <2>1, <2>2
<1>7. \A w : Ids(w)' = Ids(w)
  BY WindowsStay
<1> QED
  BY <1>5, <1>6, <1>7 DEF EvidenceOK

(* Nothing is found, and nothing more is owed.                             *)
LEMMA EvidenceStays ==
    ASSUME EvidenceOK, events' = events, UNCHANGED <<rules, findings>>,
           \A i \in DOMAIN rules : \A w : w \in Owed(i)' <=> w \in Owed(i)
    PROVE  EvidenceOK'
<1>1. \A w : Ids(w)' = Ids(w)
  BY WindowsStay
<1> QED
  BY <1>1 DEF EvidenceOK

(* Reading an event finds it for each simple rule that asks for it.        *)
LEMMA EvidenceRead ==
    ASSUME ReadInv, ReadInv', EvidenceOK, ReadEvent
    PROVE  EvidenceOK'
<1> DEFINE Hit(j) == rules[j].aggregate = None /\ Asks(rules[j], events[at])
           new == {Found(rules[j], <<at>>) : j \in {i \in DOMAIN rules : Hit(i)}}
<1>1. /\ events' = events /\ rules' = rules /\ at \in DOMAIN events /\ at' = at + 1
      /\ turn = 1 /\ nth = 1 /\ turn' = 1 /\ nth' = 1 /\ findings' = findings \cup new
      /\ events \in Seq(Rows)
  <2>1. stage = "read" /\ at <= Len(events) /\ at \in 1..(Len(events) + 1) /\ events \in Seq(Rows)
    BY DEF ReadEvent, ReadInv, EventsOK
  <2> QED
    BY <2>1 DEF ReadEvent, caseVars, ReadInv, ProgressOK
<1>2. \A i, j \in DOMAIN rules : rules[i].id = rules[j].id => i = j
  BY DEF ReadInv, RulesOK
<1>3. ASSUME NEW i \in DOMAIN rules, NEW w
      PROVE  w \in Owed(i)' <=> w \in Owed(i) \/ (Hit(i) /\ w = {at})
  <2>1. w \in Owed(i)' <=> OwedWith(rules[i], buckets'[i], at + 1, i, 1, 1, w)
    BY <1>1, OwedNext
  <2>2. w \in Owed(i) <=> OwedWith(rules[i], buckets[i], at, i, 1, 1, w)
    BY <1>1, OwedNow
  <2>3. CASE rules[i].aggregate = None
    <3>1. \A m \in DOMAIN events : m < at + 1 <=> m < at \/ m = at
      BY <1>1
    <3> HIDE DEF Asks
    <3> QED
      BY <1>1, <2>1, <2>2, <2>3, <3>1 DEF OwedWith
  <2>4. CASE rules[i].aggregate # None
    <3>1. i \in Nat /\ ~(i < 1)
      BY RuleFacts DEF ReadInv
    <3>2. \A k \in DOMAIN buckets[i] : ~(k < 1)
      BY BucketFacts
    <3>3. \A k \in DOMAIN buckets'[i] : ~(k < 1)
      <4>1. BucketOK(rules[i], buckets[i], at)'
        BY <1>1, <2>4 DEF ReadInv, BucketsOK
      <4>2. buckets'[i] \in Seq(Groups(rules[i]))
        BY <1>1, <4>1 DEF BucketOK
      <4> QED
        BY <4>2
    <3> QED
      BY <2>1, <2>2, <2>4, <3>1, <3>2, <3>3 DEF OwedWith
  <2> QED
    BY <2>3, <2>4
<1>4. Range(<<at>>) = {at}
  BY DEF Range
<1>5. ASSUME NEW i \in DOMAIN rules, NEW f \in findings', f.rule = rules[i].id
      PROVE  \E w : w \in Owed(i)' /\ f.events = Ids(w)
  <2>1. CASE f \in findings
    <3>1. PICK w \in Owed(i) : f.events = Ids(w)
      BY <1>5, <2>1 DEF EvidenceOK
    <3> QED
      BY <1>3, <3>1
  <2>2. CASE f \in new
    <3>1. PICK j \in DOMAIN rules : Hit(j) /\ f = Found(rules[j], <<at>>)
      BY <2>2
    <3>2. f.rule = rules[j].id /\ f.events = Ids({at})
      BY <1>4, <3>1, FoundFacts
    <3>3. j = i
      BY <1>2, <1>5, <3>2
    <3> HIDE DEF Hit
    <3> QED
      BY <1>3, <3>1, <3>2, <3>3
  <2> QED
    BY <1>1, <2>1, <2>2
<1>6. ASSUME NEW i \in DOMAIN rules, NEW w, w \in Owed(i)'
      PROVE  \E f \in findings' : f.rule = rules[i].id /\ f.events = Ids(w)
  <2>1. CASE w \in Owed(i)
    BY <1>1, <2>1 DEF EvidenceOK
  <2>2. CASE Hit(i) /\ w = {at}
    <3>1. Found(rules[i], <<at>>) \in new
      BY <2>2
    <3>2. Found(rules[i], <<at>>).rule = rules[i].id /\ Found(rules[i], <<at>>).events = Ids(w)
      BY <1>4, <2>2, FoundFacts
    <3> QED
      BY <1>1, <3>1, <3>2
  <2> QED
    BY <1>3, <1>6, <2>1, <2>2
<1>7. \A w : Ids(w)' = Ids(w)
  BY <1>1, WindowsStay
<1> HIDE DEF new
<1> QED
  BY <1>1, <1>5, <1>6, <1>7 DEF EvidenceOK

(* A part of a list that ascends.                                          *)
LEMMA SliceFacts ==
    ASSUME NEW s \in Seq(Nat), Ascending(s), NEW i \in Nat \ {0}, NEW j \in DOMAIN s, i <= j
    PROVE  /\ SubSeq(s, i, j) \in Seq(Nat) /\ Ascending(SubSeq(s, i, j))
           /\ Range(SubSeq(s, i, j)) = {s[k] : k \in i..j}
<1> DEFINE t == SubSeq(s, i, j)
<1>1. /\ t \in Seq(Nat) /\ Len(t) = j - i + 1 /\ DOMAIN t = 1..(j - i + 1)
      /\ \A k \in 1..(j - i + 1) : t[k] = s[i + k - 1]
  OBVIOUS
<1>2. DOMAIN s = 1..Len(s) /\ Len(s) \in Nat /\ j \in Nat /\ j <= Len(s) /\ i \in Nat /\ 1 <= i
  OBVIOUS
<1> HIDE DEF t
<1>3. Ascending(t)
  <2> SUFFICES ASSUME NEW k \in DOMAIN t, NEW l \in DOMAIN t, k < l
               PROVE  t[k] < t[l]
    BY DEF Ascending
  <2>0. k \in 1..(j - i + 1) /\ l \in 1..(j - i + 1)
    BY <1>1
  <2>1. i + k - 1 \in DOMAIN s /\ i + l - 1 \in DOMAIN s /\ i + k - 1 < i + l - 1
    <3>1. \A m \in 1..(j - i + 1) : i + m - 1 \in i..j
      BY <1>2
    <3>2. i..j \subseteq DOMAIN s
      BY <1>2
    <3>3. i + k - 1 < i + l - 1
      BY <1>2, <2>0
    <3> QED
      BY <2>0, <3>1, <3>2, <3>3
  <2> QED
    BY <1>1, <2>1 DEF Ascending
<1>4. \A n : n \in Range(t) <=> \E k \in i..j : n = s[k]
  <2>1. ASSUME NEW k \in i..j
        PROVE  k - i + 1 \in DOMAIN t /\ t[k - i + 1] = s[k]
    <3> DEFINE m == k - i + 1
    <3>1. m \in 1..(j - i + 1) /\ i + m - 1 = k
      BY <1>2
    <3> HIDE DEF m
    <3>2. m \in DOMAIN t /\ t[m] = s[k]
      BY <1>1, <3>1
    <3> QED
      BY <3>2 DEF m
  <2>2. ASSUME NEW k \in DOMAIN t
        PROVE  i + k - 1 \in i..j /\ t[k] = s[i + k - 1]
    <3>1. k \in 1..(j - i + 1)
      BY <1>1
    <3>2. i + k - 1 \in i..j
      BY <1>2, <3>1
    <3> QED
      BY <1>1, <3>1, <3>2
  <2> QED
    BY <2>1, <2>2, SMTT(30) DEF Range
<1> QED
  BY <1>1, <1>3, <1>4 DEF t

(* A group without a window is a finding when it suffices.                 *)
LEMMA EvidenceOfWhole ==
    ASSUME ReadInv, EvidenceOK, WholeGroup
    PROVE  EvidenceOK'
<1> DEFINE new == IF Fires(Rule, Members) THEN {Found(Rule, Members)} ELSE {}
<1>1. /\ UNCHANGED <<events, rules, buckets, at, turn>> /\ nth' = nth + 1 /\ findings' = findings \cup new
      /\ turn <= Len(rules) /\ nth <= Len(buckets[turn]) /\ ~Rule.aggregate.windowed
  BY DEF WholeGroup, caseVars
<1>2. /\ turn \in DOMAIN rules /\ Rule.aggregate # None
      /\ Members \in Seq(Nat) /\ Ascending(Members) /\ Range(Members) \subseteq DOMAIN events
  BY <1>1, MembersFacts
<1>3. Rule.aggregate.distinctGte \in Nat
  BY <1>2, RuleFacts DEF ReadInv, Rule
<1>4. Fires(Rule, Members) <=> Suffices(Rule, Range(Members))
  BY <1>2, <1>3, FiresSuffices DEF ReadInv
<1>5. WindowsOf(Rule, Range(Members)) = {Range(Members)}
  BY <1>1 DEF WindowsOf
<1>6. \A f \in new : f.rule = Rule.id /\ \E w \in WindowsOf(Rule, Range(Members)) : Suffices(Rule, w) /\ f.events = Ids(w)
  BY <1>4, <1>5, FoundFacts
<1>7. \A w \in WindowsOf(Rule, Range(Members)) : Suffices(Rule, w) =>
          \E f \in new : f.rule = Rule.id /\ f.events = Ids(w)
  BY <1>4, <1>5, FoundFacts
<1> HIDE DEF new
<1> QED
  BY <1>1, <1>6, <1>7, GroupHandled

(* The run kept and the undated events are findings when they suffice.     *)
LEMMA EvidenceOfWindows ==
    ASSUME ReadInv, Pass, DivideOK, EvidenceOK, EndWindows
    PROVE  EvidenceOK'
<1> USE WindowsAssumption
<1> DEFINE kept == SubSeq(dated, longest.first, longest.last)
           windows == {w \in {kept, undated} : w # <<>> /\ Fires(Rule, w)}
           new == {Found(Rule, w) : w \in windows}
           group == Range(Members)
           late == {n \in group : events[n].ts = None}
<1>1. /\ UNCHANGED <<events, rules, buckets, at, turn>> /\ nth' = nth + 1 /\ findings' = findings \cup new
      /\ stage = "window" /\ turn <= Len(rules) /\ nth <= Len(buckets[turn]) /\ Rule.aggregate.windowed
      /\ end > Len(dated)
  BY DEF EndWindows, caseVars, ReadInv, ProgressOK
<1>2. /\ turn \in DOMAIN rules /\ Rule.aggregate # None
      /\ Members \in Seq(Nat) /\ group \subseteq DOMAIN events
  BY <1>1, MembersFacts
<1>3. Rule.aggregate.distinctGte \in Nat
  BY <1>2, RuleFacts DEF ReadInv, Rule
<1>4. /\ dated \in Seq(Nat) /\ Ascending(dated) /\ Range(dated) \subseteq DOMAIN events
      /\ undated \in Seq(Nat) /\ Ascending(undated) /\ Range(undated) \subseteq DOMAIN events
  BY DEF Pass, DatedOK
<1>5. AreDated(group) /\ Range(undated) = late
  <2>1. Divided = Len(Members) /\ DOMAIN Members = 1..Divided
    <3>1. Divided <= Len(Members) /\ Divided >= Len(Members) /\ Divided \in Nat
      BY <1>1, <1>4 DEF DivideOK, Divided
    <3> QED
      BY <1>2, <3>1
  <2>2. \A n : n \in group <=> \E k \in 1..Divided : n = Members[k]
    BY <2>1 DEF Range
  <2>3. \A n \in DOMAIN events :
            /\ n \in Range(dated) <=> \E k \in 1..Divided : n = Members[k] /\ events[n].ts # None
            /\ n \in Range(undated) <=> \E k \in 1..Divided : n = Members[k] /\ events[n].ts = None
    BY <1>1 DEF DivideOK
  <2> HIDE DEF group
  <2>4. AreDated(group)
    BY <1>2, <1>4, <2>2, <2>3 DEF AreDated
  <2>5. \A n : n \in Range(undated) <=> n \in late
    BY <1>2, <1>4, <2>2, <2>3
  <2> QED
    BY <2>4, <2>5
<1>6. WindowsOf(Rule, group) = {LargestWindow(group), late}
  BY <1>1 DEF WindowsOf
<1>7. Fires(Rule, undated) <=> Suffices(Rule, late)
  BY <1>3, <1>4, <1>5, FiresSuffices DEF ReadInv
<1>8. ASSUME NEW w, Fires(Rule, w)
      PROVE  w # <<>>
  <2>1. Len(w) >= MinCount
    BY <1>8 DEF Fires
  <2>2. Len(<<>>) = 0
    OBVIOUS
  <2> QED
    BY <2>1, <2>2
<1>9. /\ Fires(Rule, kept) <=> Suffices(Rule, LargestWindow(group))
      /\ Fires(Rule, kept) => Range(kept) = LargestWindow(group)
  <2>1. CASE longest # NoRun
    <3>1. LargestWindow(group) = {dated[k] : k \in longest.first..longest.last}
      BY <1>1, <1>5, <2>1, LargestIsKept DEF ReadInv
    <3>2. longest.first \in Nat \ {0} /\ longest.last \in DOMAIN dated /\ longest.first <= longest.last
      BY <2>1 DEF Pass, Positions, LongestIsBurst, IsBurst
    <3>3. /\ kept \in Seq(Nat) /\ Ascending(kept)
          /\ Range(kept) = {dated[k] : k \in longest.first..longest.last}
      BY <1>4, <3>2, SliceFacts
    <3> HIDE DEF kept
    <3>4. LargestWindow(group) \subseteq DOMAIN events
      BY <1>4, <3>1, <3>2, SMTT(30) DEF Range
    <3> QED
      BY <1>3, <3>1, <3>3, <3>4, FiresSuffices DEF ReadInv
  <2>2. CASE longest = NoRun
    <3>1. kept = <<>>
      BY <1>4, <2>2 DEF NoRun
    <3>2. ~Fires(Rule, kept)
      BY <1>8, <3>1
    <3>3. ~Suffices(Rule, LargestWindow(group))
      <4>1. ~(Cardinality(LargestWindow(group)) >= MinCount)
        BY <1>1, <1>5, <2>2, LargestIsKept DEF ReadInv
      <4> QED
        BY <4>1 DEF Suffices
    <3> QED
      BY <3>2, <3>3
  <2> QED
    BY <2>1, <2>2
<1> HIDE DEF kept, late, group
<1>10. \A f \in new : f.rule = Rule.id /\ \E w \in WindowsOf(Rule, group) : Suffices(Rule, w) /\ f.events = Ids(w)
  <2> SUFFICES ASSUME NEW s \in windows
               PROVE  /\ Found(Rule, s).rule = Rule.id
                      /\ \E w \in WindowsOf(Rule, group) : Suffices(Rule, w) /\ Found(Rule, s).events = Ids(w)
    OBVIOUS
  <2>1. Found(Rule, s).rule = Rule.id /\ Found(Rule, s).events = Ids(Range(s)) /\ Fires(Rule, s)
    BY FoundFacts
  <2>2. CASE s = kept
    BY <1>6, <1>9, <2>1, <2>2
  <2>3. CASE s = undated
    BY <1>5, <1>6, <1>7, <2>1, <2>3
  <2> QED
    BY <2>2, <2>3
<1>11. ASSUME NEW w \in WindowsOf(Rule, group), Suffices(Rule, w)
       PROVE  \E f \in new : f.rule = Rule.id /\ f.events = Ids(w)
  <2>1. \E s \in windows : Range(s) = w
    <3>1. CASE w = LargestWindow(group)
      <4>1. Fires(Rule, kept) /\ Range(kept) = w
        BY <1>9, <1>11, <3>1
      <4> QED
        BY <1>8, <4>1
    <3>2. CASE w = late
      <4>1. Fires(Rule, undated) /\ Range(undated) = w
        BY <1>5, <1>7, <1>11, <3>2
      <4> QED
        BY <1>8, <4>1
    <3> QED
      BY <1>6, <3>1, <3>2
  <2> QED
    BY <2>1, FoundFacts
<1> HIDE DEF new
<1> QED
  BY <1>1, <1>10, <1>11, GroupHandled DEF group

(* Every step keeps the findings those that are owed.                      *)
LEMMA EvidenceStep ==
    ASSUME ReadInv, ReadInv', Pass, DivideOK, EvidenceOK, [Next]_vars
    PROVE  EvidenceOK'
<1>1. events' = events
  BY CaseStays
<1>2. CASE Load
  <2>1. findings' = {} /\ at' = 1 /\ turn' = 1 /\ nth' = 1 /\ events \in Seq(Rows)
    BY <1>2 DEF Load, ReadInv, ProgressOK, EventsOK
  <2>2. ASSUME NEW i \in DOMAIN rules', NEW w
        PROVE  w \notin Owed(i)'
    <3>1. w \in Owed(i)' <=> OwedWith(rules'[i], buckets'[i], 1, i, 1, 1, w)
      BY <1>1, <2>1, OwedNext
    <3>2. buckets'[i] = <<>>
      BY <1>2, <2>2 DEF Load, ReadInv, RulesOK, ProgressOK
    <3> QED
      BY <2>1, <3>1, <3>2 DEF OwedWith
  <2> QED
    BY <2>1, <2>2 DEF EvidenceOK
<1>3. CASE ReadEvent
  BY <1>3, EvidenceRead
<1>4. CASE WholeGroup
  BY <1>4, EvidenceOfWhole
<1>5. CASE EndWindows
  BY <1>5, EvidenceOfWindows
<1>6. CASE NextRule
  <2>1. /\ UNCHANGED <<rules, findings, buckets, at>> /\ turn' = turn + 1 /\ nth' = 1
        /\ turn \in DOMAIN rules /\ turn \in Nat /\ nth > Len(buckets[turn]) /\ nth \in Nat
    BY <1>6, RuleFacts DEF NextRule, caseVars, groupVars, ReadInv, ProgressOK
  <2>2. ASSUME NEW i \in DOMAIN rules, NEW w
        PROVE  w \in Owed(i)' <=> w \in Owed(i)
    <3>1. w \in Owed(i)' <=> OwedWith(rules[i], buckets[i], at, i, turn + 1, 1, w)
      BY <1>1, <2>1, OwedNext
    <3>2. w \in Owed(i) <=> OwedWith(rules[i], buckets[i], at, i, turn, nth, w)
      BY OwedNow
    <3>3. \A k \in DOMAIN buckets[i] : i < turn + 1 \/ (i = turn + 1 /\ k < 1) <=> i < turn \/ (i = turn /\ k < nth)
      <4>1. i \in Nat /\ Len(buckets[i]) \in Nat /\ \A k \in DOMAIN buckets[i] : k \in 1..Len(buckets[i])
        BY RuleFacts, BucketFacts DEF ReadInv
      <4> QED
        BY <2>1, <4>1
    <3> QED
      BY <3>1, <3>2, <3>3 DEF OwedWith
  <2> QED
    BY <1>1, <2>1, <2>2, EvidenceStays
<1>7. CASE UNCHANGED <<rules, findings, buckets, at, turn, nth>>
  <2>1. ASSUME NEW i \in DOMAIN rules, NEW w
        PROVE  w \in Owed(i)' <=> w \in Owed(i)
    BY <1>1, <1>7, OwedNow, OwedNext
  <2> QED
    BY <1>1, <1>7, <2>1, EvidenceStays
<1>8. CASE EndOfEvents \/ StartWindows \/ Divide \/ EndDivide \/ Advance \/ NextEvent \/ EndScan \/ UNCHANGED vars
  BY <1>7, <1>8 DEF EndOfEvents, StartWindows, Divide, EndDivide, Advance, NextEvent, EndScan, vars, caseVars, groupVars
<1> QED
  BY <1>2, <1>3, <1>4, <1>5, <1>6, <1>8 DEF Next

(* The inductive invariant.                                                *)
LEMMA ScanInvariance == Spec => []ScanInv
<1>1. ASSUME Init PROVE ScanInv
  <2>1. rules = <<>>
    BY <1>1 DEF Init
  <2> QED
    BY <1>1, <2>1, ReadInit, UnseenInit, PassInit DEF ScanInv, WindowInv, Pass, EvidenceOK
<1>2. ASSUME ScanInv, [Next]_vars PROVE ScanInv'
  <2>1. ReadInv' /\ UnseenOK'
    BY <1>2, ReadStep, UnseenStep DEF ScanInv
  <2>2. Pass' /\ DivideOK'
    BY <1>2, PassStep DEF ScanInv, WindowInv, Pass
  <2>3. EvidenceOK'
    BY <1>2, <2>1, EvidenceStep DEF ScanInv, WindowInv, Pass
  <2> QED
    BY <2>1, <2>2, <2>3 DEF ScanInv, WindowInv, Pass
<1> QED
  BY <1>1, <1>2, PTL DEF Spec

(* The pass of _windows keeps a burst, and of the bursts a longest one,    *)
(* whatever the window, the number of events asked for and the times.      *)
THEOREM BurstHolds == Spec => []BurstIsLongest
<1>1. ASSUME ScanInv PROVE BurstIsLongest
  <2>1. LongestIsBurst /\ Len(dated) \in Nat /\ DOMAIN dated = 1..Len(dated) /\ end \in Nat /\ NoneMissed /\ longest \in [first : Nat \ {0}, last : Nat]
    BY <1>1 DEF ScanInv, WindowInv, DatedOK, Positions
  <2>2. NoLongerBurst
    <3> SUFFICES ASSUME end > Len(dated), NEW i \in DOMAIN dated, NEW j \in DOMAIN dated, IsBurst(i, j)
                 PROVE  longest # NoRun /\ j - i + 1 <= Length(longest)
      BY DEF NoLongerBurst
    <3>1. j < end /\ i \in Nat /\ j \in Nat /\ Length(longest) \in Int
      BY <2>1 DEF Length
    <3> QED
      BY <2>1, <3>1 DEF NoneMissed
  <2> QED
    BY <2>1, <2>2 DEF BurstIsLongest
<1> QED
  BY <1>1, ScanInvariance, PTL

(* Two events have one key when they agree in what the rule groups by; a   *)
(* name that no event has tells nothing apart.                             *)
LEMMA KeyAgrees ==
    ASSUME events \in Seq(Rows), NEW rule, NEW m \in DOMAIN events, NEW n \in DOMAIN events
    PROVE  GroupKey(rule, events[m]) = GroupKey(rule, events[n]) <=> Agrees(rule, m, n)
<1> DEFINE names == rule.aggregate.groupBy
<1>1. DOMAIN events[m].says = Fields /\ DOMAIN events[n].says = Fields
  BY RowFacts
<1>2. GroupKey(rule, events[m]) = GroupKey(rule, events[n]) <=>
          \A i \in DOMAIN names : GroupValue(events[m], names[i]) = GroupValue(events[n], names[i])
  <2> DEFINE K(e) == [i \in DOMAIN names |-> GroupValue(e, names[i])]
  <2>1. \A e : GroupKey(rule, e) = K(e)
    BY DEF GroupKey
  <2>2. \A e : \A i \in DOMAIN names : K(e)[i] = GroupValue(e, names[i])
    OBVIOUS
  <2>3. (\A i \in DOMAIN names : GroupValue(events[m], names[i]) = GroupValue(events[n], names[i])) => K(events[m]) = K(events[n])
    OBVIOUS
  <2>4. (GroupKey(rule, events[m]) = GroupKey(rule, events[n])) = (K(events[m]) = K(events[n]))
    BY <2>1
  <2>5. K(events[m]) = K(events[n]) => \A i \in DOMAIN names : K(events[m])[i] = K(events[n])[i]
    OBVIOUS
  <2> HIDE DEF K
  <2>6. K(events[m]) = K(events[n]) => \A i \in DOMAIN names : GroupValue(events[m], names[i]) = GroupValue(events[n], names[i])
    BY <2>2, <2>5
  <2> QED
    BY <2>3, <2>4, <2>6
<1>3. \A name : GroupValue(events[m], name) = GroupValue(events[n], name) <=>
          (name \in Fields => events[m].says[name] = events[n].says[name])
  BY <1>1 DEF GroupValue
<1> QED
  BY <1>2, <1>3 DEF Agrees, Range

(* What is owed of a rule in the end is what it asks for.                  *)
LEMMA OwedIsAsked ==
    ASSUME ReadInv, stage = "done", NEW i \in DOMAIN rules, NEW w
    PROVE  w \in Owed(i) <=> w \in Asked(rules[i])
<1> DEFINE rule == rules[i]
           bucket == buckets[i]
<1>1. /\ at > Len(events) /\ at \in Nat /\ events \in Seq(Rows) /\ i < turn /\ DOMAIN bucket = 1..Len(bucket)
      /\ \A m \in DOMAIN events : m < at
  <2>1. /\ at > Len(events) /\ at \in 1..(Len(events) + 1) /\ events \in Seq(Rows)
        /\ turn > Len(rules) /\ turn \in Nat /\ i \in 1..Len(rules) /\ Len(rules) \in Nat
    BY RuleFacts DEF ReadInv, EventsOK, ProgressOK
  <2> QED
    BY <2>1, BucketFacts
<1>2. CASE rule.aggregate = None
  BY <1>1, <1>2 DEF Owed, Asked, Meeting
<1>3. CASE rule.aggregate # None
  <2>1. w \in Owed(i) <=> \E k \in DOMAIN bucket : w \in WindowsOf(rule, Range(bucket[k].members)) /\ Suffices(rule, w)
    <3> HIDE DEF WindowsOf, Suffices
    <3>1. OwedWith(rule, bucket, at, i, turn, nth, w) <=>
              \E k \in DOMAIN bucket : w \in WindowsOf(rule, Range(bucket[k].members)) /\ Suffices(rule, w)
      BY <1>1, <1>3 DEF OwedWith
    <3> QED
      BY <3>1, OwedNow
  <2>2. w \in Asked(rule) <=> \E n \in Meeting(rule) : w \in WindowsOf(rule, GroupAround(rule, n)) /\ Suffices(rule, w)
    BY <1>3 DEF Asked
  <2>3. BucketOK(rule, bucket, at)
    BY <1>3 DEF ReadInv, BucketsOK
  <2>4. \A m : m \in Meeting(rule) <=> m \in DOMAIN events /\ Asks(rule, events[m])
    BY DEF Meeting
  <2>5. ASSUME NEW k \in DOMAIN bucket, NEW n \in Meeting(rule), GroupKey(rule, events[n]) = bucket[k].key
        PROVE  Range(bucket[k].members) = GroupAround(rule, n)
    <3>1. GroupOK(rule, bucket[k], at)
      BY <2>3 DEF BucketOK
    <3>2. \A m \in DOMAIN events : GroupKey(rule, events[m]) = bucket[k].key <=> Agrees(rule, n, m)
      BY <1>1, <2>4, <2>5, KeyAgrees
    <3>3. \A m : m \in Range(bucket[k].members) <=> m \in Meeting(rule) /\ Agrees(rule, n, m)
      <4> HIDE DEF Asks, Agrees, GroupKey, Meeting
      <4> QED
        BY <1>1, <2>4, <3>1, <3>2 DEF GroupOK
    <3> QED
      BY <3>3 DEF GroupAround
  <2>6. \A n \in Meeting(rule) : \E k \in DOMAIN bucket : GroupKey(rule, events[n]) = bucket[k].key
    BY <1>1, <2>3, <2>4 DEF BucketOK
  <2>7. ASSUME NEW k \in DOMAIN bucket
        PROVE  \E n \in Meeting(rule) : GroupKey(rule, events[n]) = bucket[k].key
    <3>1. GroupOK(rule, bucket[k], at) /\ bucket[k].members \in Seq(Nat)
      BY <2>3, BucketFacts DEF BucketOK
    <3>2. bucket[k].members[1] \in Range(bucket[k].members)
      BY <3>1 DEF GroupOK, Range
    <3> QED
      BY <2>4, <3>1, <3>2 DEF GroupOK
  <2> HIDE DEF rule, bucket
  <2>8. ASSUME w \in Owed(i)
        PROVE  w \in Asked(rule)
    <3>1. PICK k \in DOMAIN bucket : w \in WindowsOf(rule, Range(bucket[k].members)) /\ Suffices(rule, w)
      BY <2>1, <2>8
    <3>2. PICK n \in Meeting(rule) : GroupKey(rule, events[n]) = bucket[k].key
      BY <2>7
    <3>3. Range(bucket[k].members) = GroupAround(rule, n)
      BY <2>5, <3>2
    <3> QED
      BY <2>2, <3>1, <3>3
  <2>9. ASSUME w \in Asked(rule)
        PROVE  w \in Owed(i)
    <3>1. PICK n \in Meeting(rule) : w \in WindowsOf(rule, GroupAround(rule, n)) /\ Suffices(rule, w)
      BY <2>2, <2>9
    <3>2. PICK k \in DOMAIN bucket : GroupKey(rule, events[n]) = bucket[k].key
      BY <2>6
    <3>3. Range(bucket[k].members) = GroupAround(rule, n)
      BY <2>5, <3>2
    <3> QED
      BY <2>1, <3>1, <3>3
  <2> QED
    BY <2>8, <2>9 DEF rule
<1> QED
  BY <1>2, <1>3

(* A scan finds what its rules ask for, once, whatever the order of what   *)
(* the query leaves tied; a silent rule was asked and had nothing; and the *)
(* events that no rule is about are counted.                               *)
THEOREM FindingsHold == Spec => []FindingsAreWhatIsAsked
<1>1. ASSUME ScanInv, stage = "done" PROVE FindingsAreWhatIsAsked
  <2> DEFINE Evidence(i) == {f.events : f \in {g \in findings : g.rule = rules[i].id}}
             Wanted(i) == {{events[n].id : n \in w} : w \in Asked(rules[i])}
  <2>1. ReadInv /\ UnseenOK /\ EvidenceOK
    BY <1>1 DEF ScanInv
  <2>2. ASSUME NEW i \in DOMAIN rules
        PROVE  /\ \A E : E \in Evidence(i) <=> \E w \in Asked(rules[i]) : E = Ids(w)
               /\ (\E f \in findings : f.rule = rules[i].id) <=> Asked(rules[i]) # {}
    <3>1. \A w : w \in Owed(i) <=> w \in Asked(rules[i])
      BY <1>1, <2>1, OwedIsAsked
    <3>2. /\ \A f \in findings : f.rule = rules[i].id => \E w \in Owed(i) : f.events = Ids(w)
          /\ \A w \in Owed(i) : \E f \in findings : f.rule = rules[i].id /\ f.events = Ids(w)
      BY <2>1 DEF EvidenceOK
    <3>3. \A E : E \in Evidence(i) <=> \E f \in findings : f.rule = rules[i].id /\ E = f.events
      OBVIOUS
    <3> HIDE DEF Evidence
    <3> QED
      BY <3>1, <3>2, <3>3
  <2>3. \A i \in DOMAIN rules : Evidence(i) = Wanted(i)
    <3> TAKE i \in DOMAIN rules
    <3>1. \A E : E \in Wanted(i) <=> \E w \in Asked(rules[i]) : E = Ids(w)
      BY DEF Ids
    <3> HIDE DEF Evidence, Wanted
    <3> QED
      BY <2>2, <3>1
  <2>4. Silent = {rules[i].id : i \in {j \in DOMAIN rules : Asked(rules[j]) = {}}}
    <3> HIDE DEF Evidence, Wanted
    <3>1. \A id : id \in Silent <=> (\E i \in DOMAIN rules : id = rules[i].id) /\ ~(\E f \in findings : f.rule = id)
      BY DEF Silent
    <3>2. \A id : id \in Silent <=> \E i \in DOMAIN rules : id = rules[i].id /\ Asked(rules[i]) = {}
      BY <2>2, <3>1
    <3> QED
      BY <3>2
  <2>5. unseen = Cardinality({n \in DOMAIN events : \A j \in DOMAIN rules : ~AppliesTo(rules[j], events[n])})
    <3>1. \A n \in DOMAIN events : n < at
      BY <1>1, <2>1 DEF ReadInv, EventsOK, ProgressOK
    <3>2. {n \in DOMAIN events : n < at /\ \A j \in DOMAIN rules : ~AppliesTo(rules[j], events[n])}
            = {n \in DOMAIN events : \A j \in DOMAIN rules : ~AppliesTo(rules[j], events[n])}
      BY <3>1
    <3> QED
      BY <2>1, <3>2 DEF UnseenOK
  <2> QED
    BY <2>3, <2>4, <2>5 DEF FindingsAreWhatIsAsked
<1>2. ScanInv => FindingsAreWhatIsAsked
  <2>1. CASE stage = "done"
    BY <1>1, <2>1
  <2>2. CASE stage # "done"
    BY <2>2 DEF FindingsAreWhatIsAsked
  <2> QED
    BY <2>1, <2>2
<1> QED
  BY <1>2, ScanInvariance, PTL
================================================================================
