---------------------------- MODULE LocateProofs ----------------------------
(***************************************************************************)
(* Where the collector searches and what it says of the places where it    *)
(* does not, for any catalogue, any machine and any environment; and that  *)
(* a name is read back from a bundle as it was.                            *)
(***************************************************************************)
EXTENDS Locate, SequenceLemmas

(* ------------------------------------------------------------- prefixes *)

(* A sequence is a tuple.                                                  *)
LEMMA SeqIsTuple ==
    ASSUME NEW S, NEW s \in Seq(S)
    PROVE  IsTuple(s)
<1>1. DOMAIN s = 1..Len(s) /\ Len(s) \in Nat
  OBVIOUS
<1>2. \A i \in 1..Len(s) : s[i] \in Range(s)
  BY <1>1 DEF Range
<1> QED
  BY <1>1, <1>2 DEF IsTuple

(* What joining two tuples gives.                                          *)
LEMMA TuplesJoin ==
    ASSUME NEW s, IsTuple(s), NEW t, IsTuple(t)
    PROVE  /\ IsTuple(s \o t) /\ Len(s) \in Nat /\ IsPrefix(s, s \o t)
           /\ Len(s \o t) = Len(s) + Len(t)
<1> DEFINE S == Range(s) \cup Range(t)
<1>1. DOMAIN s = 1..Len(s) /\ DOMAIN t = 1..Len(t) /\ Len(s) \in Nat /\ Len(t) \in Nat
  BY DEF IsTuple
<1>2. s \in Seq(S) /\ t \in Seq(S)
  BY <1>1 DEF IsTuple
<1> HIDE DEF S
<1>3. s \o t \in Seq(S) /\ Len(s \o t) = Len(s) + Len(t)
  BY <1>2
<1>4. IsTuple(s \o t)
  BY <1>3, SeqIsTuple
<1>5. IsPrefix(s, s \o t)
  BY <1>1, <1>2 DEF IsPrefix
<1> QED
  BY <1>1, <1>3, <1>4, <1>5

(* A tuple leads what is joined to it twice.                               *)
LEMMA PrefixJoins ==
    ASSUME NEW s, IsTuple(s), NEW t, IsTuple(t), NEW u, IsTuple(u)
    PROVE  IsPrefix(s, (s \o t) \o u) /\ (s \o t) \o u = s \o (t \o u)
<1> DEFINE S == Range(s) \cup Range(t) \cup Range(u)
<1>1. s \in Seq(S) /\ t \in Seq(S) /\ u \in Seq(S)
  BY DEF IsTuple
<1> HIDE DEF S
<1>2. (s \o t) \o u = s \o (t \o u)
  BY <1>1
<1>3. IsTuple(t \o u)
  BY TuplesJoin
<1> QED
  BY <1>2, <1>3, TuplesJoin

(* Names joined and then taken as parts of a pattern are the parts joined. *)
LEMMA NamesJoin ==
    ASSUME NEW s, IsTuple(s), NEW t, IsTuple(t)
    PROVE  /\ IsTuple(AreNames(s))
           /\ AreNames(s \o t) = AreNames(s) \o AreNames(t)
<1> DEFINE S == Range(s) \cup Range(t)
<1>1. DOMAIN s = 1..Len(s) /\ DOMAIN t = 1..Len(t) /\ Len(s) \in Nat /\ Len(t) \in Nat
  BY DEF IsTuple
<1>2. s \in Seq(S) /\ t \in Seq(S)
  BY <1>1 DEF IsTuple
<1> HIDE DEF S
<1> DEFINE a == AreNames(s)
           b == AreNames(t)
           T == {Is(x) : x \in S}
<1>3. /\ a \in Seq(T) /\ Len(a) = Len(s) /\ \A i \in 1..Len(s) : a[i] = Is(s[i])
      /\ b \in Seq(T) /\ Len(b) = Len(t) /\ \A i \in 1..Len(t) : b[i] = Is(t[i])
  BY <1>1, <1>2 DEF AreNames
<1>4. /\ s \o t \in Seq(S) /\ Len(s \o t) = Len(s) + Len(t) /\ DOMAIN (s \o t) = 1..Len(s) + Len(t)
      /\ \A i \in 1..Len(s) : (s \o t)[i] = s[i]
      /\ \A i \in 1..Len(t) : (s \o t)[Len(s) + i] = t[i]
  BY <1>2
<1>5. AreNames(s \o t) = [i \in 1..Len(s) + Len(t) |-> Is((s \o t)[i])]
  BY <1>4 DEF AreNames
<1> HIDE DEF a, b, T
<1>6. /\ a \o b \in Seq(T) /\ DOMAIN (a \o b) = 1..Len(s) + Len(t)
      /\ \A i \in 1..Len(s) : (a \o b)[i] = a[i]
      /\ \A i \in 1..Len(t) : (a \o b)[Len(s) + i] = b[i]
  BY <1>1, <1>3
<1>7. \A i \in 1..Len(s) + Len(t) : (a \o b)[i] = Is((s \o t)[i])
  <2> TAKE i \in 1..Len(s) + Len(t)
  <2>1. CASE i \in 1..Len(s)
    BY <1>3, <1>4, <1>6, <2>1
  <2>2. CASE i \notin 1..Len(s)
    <3>1. i - Len(s) \in 1..Len(t) /\ i = Len(s) + (i - Len(s))
      BY <1>1, <2>2
    <3> QED
      BY <1>3, <1>4, <1>6, <3>1
  <2> QED
    BY <2>1, <2>2
<1>8. a \o b = AreNames(s \o t)
  <2> DEFINE both == a \o b
             name == s \o t
  <2>1. /\ both \in Seq(T) /\ DOMAIN both = 1..Len(s) + Len(t)
        /\ \A i \in 1..Len(s) + Len(t) : both[i] = Is(name[i])
        /\ AreNames(name) = [i \in 1..Len(s) + Len(t) |-> Is(name[i])]
    BY <1>5, <1>6, <1>7
  <2> HIDE DEF both, name
  <2>2. both = [i \in DOMAIN both |-> both[i]]
    BY <2>1
  <2>3. both = AreNames(name)
    BY <2>1, <2>2
  <2> QED
    BY <2>3 DEF both, name
<1> QED
  BY <1>3, <1>8, SeqIsTuple DEF a, b

(* What leads a prefix leads the whole.                                    *)
LEMMA PrefixOfPrefix ==
    ASSUME NEW s, IsTuple(s), NEW t, IsTuple(t), NEW u, IsTuple(u), IsPrefix(s \o t, u)
    PROVE  IsPrefix(s, u)
<1>1. /\ Len(s) \in Nat /\ Len(t) \in Nat /\ Len(u) \in Nat
      /\ DOMAIN s = 1..Len(s) /\ DOMAIN u = 1..Len(u)
  BY DEF IsTuple
<1> DEFINE S == Range(s) \cup Range(t) \cup Range(u)
<1>2. s \in Seq(S) /\ t \in Seq(S) /\ u \in Seq(S)
  BY DEF IsTuple
<1> HIDE DEF S
<1>3. /\ Len(s \o t) = Len(s) + Len(t) /\ \A i \in 1..Len(s) : (s \o t)[i] = s[i]
  BY <1>2
<1> DEFINE both == s \o t
           n == Len(s) + Len(t)
<1>4. both \in Seq(S)
  BY <1>2
<1>5. n <= Len(u) /\ SubSeq(both, 1, n) = SubSeq(u, 1, n)
  BY <1>3 DEF IsPrefix
<1> HIDE DEF both
<1>6. \A i \in 1..n : SubSeq(both, 1, n)[i] = both[i] /\ SubSeq(u, 1, n)[i] = u[i]
  BY <1>1, <1>2, <1>3, <1>4, <1>5 DEF both
<1>7. \A i \in 1..Len(s) : u[i] = s[i]
  BY <1>1, <1>3, <1>5, <1>6 DEF both
<1>8. SubSeq(s, 1, Len(s)) = SubSeq(u, 1, Len(s))
  BY <1>1, <1>2, <1>5, <1>7
<1> QED
  BY <1>1, <1>5, <1>8 DEF IsPrefix

(* A prefix stays one under the same beginning.                            *)
LEMMA PrefixUnder ==
    ASSUME NEW s, IsTuple(s), NEW t, IsTuple(t), NEW u, IsTuple(u), IsPrefix(t, u)
    PROVE  IsPrefix(s \o t, s \o u)
<1>1. Len(s) \in Nat /\ Len(t) \in Nat /\ Len(u) \in Nat
  BY DEF IsTuple
<1> DEFINE S == Range(s) \cup Range(t) \cup Range(u)
<1>2. s \in Seq(S) /\ t \in Seq(S) /\ u \in Seq(S)
  BY DEF IsTuple
<1> HIDE DEF S
<1>3. Len(t) <= Len(u) /\ SubSeq(t, 1, Len(t)) = SubSeq(u, 1, Len(t))
  BY DEF IsPrefix
<1>4. \A i \in 1..Len(t) : SubSeq(t, 1, Len(t))[i] = t[i] /\ SubSeq(u, 1, Len(t))[i] = u[i]
  BY <1>1, <1>2, <1>3
<1>5. \A i \in 1..Len(t) : u[i] = t[i]
  BY <1>3, <1>4
<1> DEFINE a == s \o t
           b == s \o u
           n == Len(s) + Len(t)
<1>6. /\ a \in Seq(S) /\ b \in Seq(S) /\ Len(a) = n /\ Len(b) = Len(s) + Len(u)
      /\ \A i \in 1..Len(s) : a[i] = s[i] /\ b[i] = s[i]
      /\ \A i \in 1..Len(t) : a[Len(s) + i] = t[i]
      /\ \A i \in 1..Len(u) : b[Len(s) + i] = u[i]
  BY <1>2
<1> HIDE DEF a, b
<1>7. \A i \in 1..n : a[i] = b[i]
  <2> TAKE i \in 1..n
  <2>1. CASE i \in 1..Len(s)
    BY <1>6, <2>1
  <2>2. CASE i \notin 1..Len(s)
    <3>1. i - Len(s) \in 1..Len(t) /\ i = Len(s) + (i - Len(s)) /\ i - Len(s) \in 1..Len(u)
      BY <1>1, <1>3, <2>2
    <3> QED
      BY <1>5, <1>6, <3>1
  <2> QED
    BY <2>1, <2>2
<1>8. SubSeq(a, 1, n) = SubSeq(b, 1, n)
  BY <1>1, <1>3, <1>6, <1>7
<1>9. IsPrefix(a, b)
  BY <1>1, <1>3, <1>6, <1>8 DEF IsPrefix
<1> QED
  BY <1>9 DEF a, b

(* ---------------------------------------------------------------- globs *)

IsGlob(g) == g = [drive |-> g.drive, segs |-> g.segs] /\ IsTuple(g.segs)

(* A search below a path is a search, and it stays below that path.        *)
LEMMA GlobFacts ==
    ASSUME NEW path, IsPath(path), NEW tail, IsTuple(tail)
    PROVE  IsGlob(Glob(path, tail)) /\ Leads(path, Glob(path, tail))
<1>1. IsTuple(AreNames(path.names))
  BY NamesJoin DEF IsPath
<1>2. IsTuple(AreNames(path.names) \o tail) /\ IsPrefix(AreNames(path.names), AreNames(path.names) \o tail)
  BY <1>1, TuplesJoin
<1> QED
  BY <1>2 DEF Glob, IsGlob, Leads

(* A path with names added is a path; what is searched below it stays      *)
(* below it.                                                               *)
LEMMA BelowFacts ==
    ASSUME NEW path, IsPath(path), NEW names, IsTuple(names), NEW tail, IsTuple(tail)
    PROVE  /\ IsPath(Below1(path, names)) /\ Below1(path, names).names = path.names \o names
           /\ Below1(path, names).drive = path.drive
           /\ IsGlob(Glob(Below1(path, names), tail))
           /\ Leads(path, Glob(Below1(path, names), tail))
<1>1. IsTuple(path.names \o names)
  BY TuplesJoin DEF IsPath
<1>2. /\ IsPath(Below1(path, names)) /\ Below1(path, names).names = path.names \o names
      /\ Below1(path, names).drive = path.drive
  BY <1>1 DEF Below1, IsPath, Path
<1>3. /\ AreNames(path.names \o names) = AreNames(path.names) \o AreNames(names)
      /\ IsTuple(AreNames(path.names)) /\ IsTuple(AreNames(names))
  BY NamesJoin DEF IsPath
<1>4. IsPrefix(AreNames(path.names), (AreNames(path.names) \o AreNames(names)) \o tail)
  BY <1>3, PrefixJoins
<1>5. Leads(path, Glob(Below1(path, names), tail))
  BY <1>2, <1>3, <1>4 DEF Leads, Glob
<1> QED
  BY <1>2, <1>5, GlobFacts

(* A path that is the root of the image or below it. *)
Rooted(path) ==
    given.root # None =>
        /\ path.drive = given.root.drive
        /\ \E rest : IsTuple(rest) /\ path.names = given.root.names \o rest

(* The root and the starting points the caller gave are paths.             *)
LEMMA RootIs ==
    ASSUME given \in Given
    PROVE  /\ given.root # None => IsPath(given.root)
           /\ IsPath(given.own) /\ given.target \in DOMAIN VscodeUser
           /\ IsPath(Base) /\ Rooted(Base)
           /\ \A home : \A r \in ProjectRoots(home) : IsPath(r)
<1>1. /\ given.root # None => IsPath(given.root)
      /\ IsPath(given.own) /\ given.target \in DOMAIN VscodeUser
      /\ \A home \in DOMAIN fs.projects : \A r \in fs.projects[home] : IsPath(r)
  BY GivenAssumption DEF fs
<1>2. IsTuple(<<>>)
  <2>1. <<>> \in Seq({})
    OBVIOUS
  <2> QED
    BY <2>1, SeqIsTuple
<1>3. IsPath(Base)
  BY <1>1, <1>2 DEF Base, IsPath, Path
<1>4. Rooted(Base)
  <2> SUFFICES ASSUME given.root # None PROVE Rooted(given.root)
    BY DEF Rooted, Base
  <2>1. given.root.names = given.root.names \o <<>>
    <3>1. given.root.names \in Seq(Range(given.root.names))
      BY <1>1 DEF IsPath, IsTuple
    <3> QED
      BY <3>1
  <2> QED
    BY <1>2, <2>1 DEF Rooted
<1>5. \A home : \A r \in ProjectRoots(home) : IsPath(r)
  BY <1>1 DEF ProjectRoots
<1> QED
  BY <1>1, <1>3, <1>4, <1>5

(* What lies below a path of the image lies in the image. *)
LEMMA RootedBelow ==
    ASSUME given \in Given, NEW path, IsPath(path), Rooted(path), NEW names, IsTuple(names)
    PROVE  Rooted(Below1(path, names))
<1> SUFFICES ASSUME given.root # None PROVE Rooted(Below1(path, names))
  BY DEF Rooted
<1>1. PICK rest : IsTuple(rest) /\ path.names = given.root.names \o rest
  BY DEF Rooted
<1>2. IsTuple(given.root.names)
  BY RootIs DEF IsPath
<1>3. IsTuple(rest) /\ IsTuple(rest \o names) /\ IsTuple(names)
  BY <1>1, TuplesJoin
<1>4. (given.root.names \o rest) \o names = given.root.names \o (rest \o names)
  <2> DEFINE top == given.root.names
  <2>1. IsTuple(top)
    BY <1>2
  <2> HIDE DEF top
  <2>2. (top \o rest) \o names = top \o (rest \o names)
    BY <1>3, <2>1, PrefixJoins
  <2> QED
    BY <2>2 DEF top
<1> QED
  BY <1>1, <1>3, <1>4 DEF Rooted, Below1, Path

(* A name below a path under the root is a path under the root.            *)
LEMMA NameBelow ==
    ASSUME given \in Given, NEW path, IsPath(path), Rooted(path), NEW name
    PROVE  IsPath(At(path, name)) /\ Rooted(At(path, name))
<1>1. IsTuple(<<name>>)
  <2>1. <<name>> \in Seq({name})
    OBVIOUS
  <2> QED
    BY <2>1, SeqIsTuple
<1>2. At(path, name) = Below1(path, <<name>>)
  <2>1. path.names \in Seq(Range(path.names) \cup {name})
    BY DEF IsPath, IsTuple
  <2>2. Append(path.names, name) = path.names \o <<name>>
    BY <2>1
  <2> QED
    BY <2>2 DEF At, Below1
<1> QED
  BY <1>1, <1>2, RootedBelow, BelowFacts

(* Every home that is discovered is a path under the root.                 *)
LEMMA HomesAre ==
    ASSUME given \in Given, NEW home \in Discovered
    PROVE  IsPath(home) /\ Rooted(home)
<1>1. \A d \in Parents : IsPath(d) /\ Rooted(d)
  BY RootIs, NameBelow DEF Parents
<1>2. \A h \in UnderParents : IsPath(h) /\ Rooted(h)
  BY <1>1, NameBelow DEF UnderParents
<1>3. \A h \in RootHomes : IsPath(Below1(Base, h.names)) /\ Rooted(Below1(Base, h.names))
  <2> TAKE h \in RootHomes
  <2>1. IsTuple(h.names)
    BY GivenAssumption DEF IsPath
  <2> QED
    BY <2>1, RootIs, RootedBelow, BelowFacts
<1>4. \A h \in Profiles : IsPath(h) /\ Rooted(h)
  BY <1>2, <1>3 DEF Profiles
<1>5. \A homes : Asked(homes) \subseteq homes
  BY DEF Asked
<1>6. CASE given.root # None
  <2>1. home = given.root \/ home \in Profiles
    BY <1>5, <1>6 DEF Discovered
  <2>2. Base = given.root
    BY <1>6 DEF Base
  <2> QED
    BY <1>4, <2>1, <2>2, RootIs
<1>7. CASE given.root = None
  <2>1. home = given.own \/ home \in Profiles \cup UnderParents
    BY <1>5, <1>7 DEF Discovered
  <2> QED
    BY <1>2, <1>4, <1>7, <2>1, RootIs DEF Rooted
<1> QED
  BY <1>6, <1>7

(* ------------------------------------------------------------- searches *)

(* What is searched for a profile is its own, or a place for everyone.     *)
Theirs(p, home, g) ==
    \/ given.root = None /\ home = given.own
    \/ Leads(home, g)
    \/ p.head \in {"/", "C:"} \cup DOMAIN WinAbsolute
    \/ IsAnchored(p) /\ \E r \in ProjectRoots(home) : Leads(r, g) \/ Leads(Below1(Base, r.names), g)

UnderRoot(g) == given.root # None => Leads(given.root, g)

InPlace(s) == Theirs(s.pattern, s.user, s.glob) /\ UnderRoot(s.glob)

(* What _reanchor makes of a search is under the root, and it leaves alone *)
(* what already is.                                                        *)
LEMMA ReanchoredFacts ==
    ASSUME given \in Given, NEW g, IsGlob(g)
    PROVE  /\ UnderRoot(Reanchored(g))
           /\ \A path : IsPath(path) /\ Rooted(path) /\ Leads(path, g) => Reanchored(g) = g
           /\ \A path : IsPath(path) /\ Leads(path, g) =>
                 Leads(path, Reanchored(g)) \/ Leads(Below1(Base, path.names), Reanchored(g))
<1>1. CASE given.root = None
  BY <1>1 DEF Reanchored, UnderRoot
<1>2. CASE given.root # None /\ Reanchored(g) = g
  <2>1. Leads(given.root, g) \/ g = Glob(given.root, g.segs)
    BY <1>2 DEF Reanchored, Leads
  <2>2. Leads(given.root, g)
    BY <1>2, <2>1, RootIs, GlobFacts DEF IsGlob
  <2> QED
    BY <1>2, <2>2 DEF UnderRoot
<1>3. CASE given.root # None /\ Reanchored(g) # g
  <2>1. /\ Reanchored(g) = Glob(given.root, g.segs) /\ Base = given.root /\ IsPath(given.root)
        /\ ~(g.drive = given.root.drive /\ IsPrefix(AreNames(given.root.names), g.segs))
    BY <1>3, RootIs DEF Reanchored, Base
  <2>2. UnderRoot(Reanchored(g))
    BY <2>1, GlobFacts DEF UnderRoot, IsGlob
  <2>3. ASSUME NEW path, IsPath(path), Rooted(path), Leads(path, g) PROVE FALSE
    <3>1. PICK rest : IsTuple(rest) /\ path.names = given.root.names \o rest
      BY <1>3, <2>3 DEF Rooted
    <3>2. /\ AreNames(path.names) = AreNames(given.root.names) \o AreNames(rest)
          /\ IsTuple(AreNames(given.root.names)) /\ IsTuple(AreNames(rest))
      BY <2>1, <3>1, NamesJoin DEF IsPath
    <3>3. IsPrefix(AreNames(given.root.names), g.segs)
      BY <2>3, <3>2, PrefixOfPrefix DEF Leads, IsGlob
    <3> QED
      BY <1>3, <2>1, <2>3, <3>3 DEF Leads, Rooted
  <2>4. ASSUME NEW path, IsPath(path), Leads(path, g)
        PROVE  Leads(Below1(Base, path.names), Reanchored(g))
    <3>1. /\ AreNames(given.root.names \o path.names) =
                AreNames(given.root.names) \o AreNames(path.names)
          /\ IsTuple(AreNames(given.root.names)) /\ IsTuple(AreNames(path.names))
      BY <2>1, <2>4, NamesJoin DEF IsPath
    <3>2. IsPrefix(AreNames(given.root.names) \o AreNames(path.names),
                   AreNames(given.root.names) \o g.segs)
      BY <2>4, <3>1, PrefixUnder DEF Leads, IsGlob
    <3>3. /\ Below1(Base, path.names).names = given.root.names \o path.names
          /\ Below1(Base, path.names).drive = given.root.drive
      BY <2>1 DEF Below1, Path
    <3>4. /\ Reanchored(g).drive = given.root.drive
          /\ Reanchored(g).segs = AreNames(given.root.names) \o g.segs
      <4> DEFINE segs == AreNames(given.root.names) \o g.segs
                 anchored == Reanchored(g)
      <4>1. anchored = [drive |-> given.root.drive, segs |-> segs]
        BY <2>1 DEF Glob
      <4> HIDE DEF segs, anchored
      <4>2. anchored.drive = given.root.drive /\ anchored.segs = segs
        BY <4>1
      <4> QED
        BY <4>2 DEF segs, anchored
    <3>5. IsPrefix(AreNames(given.root.names \o path.names), AreNames(given.root.names) \o g.segs)
      BY <3>1, <3>2
    <3> QED
      BY <3>3, <3>4, <3>5 DEF Leads
  <2> QED
    BY <2>2, <2>3, <2>4
<1> QED
  BY <1>1, <1>2, <1>3

(* What a head stands for in a profile whose environment is not read.      *)
LEMMA HeadInPlace ==
    ASSUME given \in Given, NEW home, IsPath(home), ~(given.root = None /\ home = given.own),
           NEW e \in Catalogue, NEW p \in e.patterns, ~IsAnchored(p),
           NEW g \in ExpandHead(p, home).globs
    PROVE  /\ IsGlob(g)
           /\ Leads(home, g) \/ p.head \in {"/", "C:"} \cup DOMAIN WinAbsolute
<1>1. /\ p.head \in Heads /\ IsTuple(p.tail) /\ IsTuple(p.default)
      /\ \A head \in DOMAIN WinRelative : IsTuple(WinRelative[head])
      /\ \A head \in DOMAIN WinAbsolute : IsPath(WinAbsolute[head])
      /\ \A var \in DOMAIN XdgDefaults : IsTuple(XdgDefaults[var])
      /\ given.target \in DOMAIN VscodeUser /\ IsTuple(VscodeUser[given.target])
  BY CatalogueAssumption, RootIs
<1>2. ~EnvironmentAppliesTo(home)
  BY DEF EnvironmentAppliesTo
<1>3. IsTuple(<<>>) /\ \A x, y : IsTuple(<<x, y>>)
  <2>1. <<>> \in Seq({}) /\ \A x, y : <<x, y>> \in Seq({x, y})
    OBVIOUS
  <2> QED
    BY <2>1, SeqIsTuple
<1>4. \A names : IsTuple(names) =>
          /\ IsGlob(Glob(Below1(home, names), p.tail))
          /\ Leads(home, Glob(Below1(home, names), p.tail))
  BY <1>1, BelowFacts
<1>5. IsGlob(Glob(home, p.tail)) /\ Leads(home, Glob(home, p.tail))
  BY <1>1, GlobFacts
<1>6. \A drive : IsGlob(Glob(Path(drive, <<>>), p.tail))
  <2>1. \A drive : IsPath(Path(drive, <<>>))
    BY <1>3 DEF IsPath, Path
  <2> QED
    BY <1>1, <2>1, GlobFacts
<1>7. \A head \in DOMAIN WinAbsolute : IsGlob(Glob(WinAbsolute[head], p.tail))
  BY <1>1, GlobFacts
<1>8. CASE p.head = "<vscode-user>"
  <2>1. PICK product \in Products :
           g = Glob(Below1(home, VscodeUser[given.target] \o <<product, UserName>>), p.tail)
    BY <1>8 DEF ExpandHead, Found, VscodeGlobs
  <2>2. IsTuple(VscodeUser[given.target] \o <<product, UserName>>)
    BY <1>1, <1>3, TuplesJoin
  <2> QED
    BY <1>4, <2>1, <2>2
<1>9. CASE p.head \in {"$", "${"}
  <2>1. g \in ResolveEnv(p, home).globs
    BY <1>9 DEF ExpandHead, Silent
  <2>2. \/ g = Glob(home, p.tail) \/ g = Glob(Below1(home, p.default), p.tail)
        \/ p.var \in DOMAIN XdgDefaults /\ g = Glob(Below1(home, XdgDefaults[p.var]), p.tail)
    BY <1>2, <1>9, <2>1 DEF ResolveEnv, Found, Refused, Silent
  <2> QED
    BY <1>1, <1>4, <1>5, <2>2
<1>10. CASE p.head \in {"~", "/"}
  BY <1>5, <1>6, <1>10 DEF ExpandHead, Found
<1>11. CASE p.head \notin {"<vscode-user>", "$", "${", "~", "/"}
  <2>1. given.target = "windows"
    BY <1>11 DEF ExpandHead, Silent
  <2>2. p.head \in {"HK", "C:"} \cup DOMAIN WinRelative \cup DOMAIN WinAbsolute
    BY <1>1, <1>11 DEF Heads, IsAnchored
  <2>3. Redirected(p, home) = {}
    BY <1>2 DEF Redirected
  <2>4. \/ p.head = "C:" /\ g = Glob(Path("C", <<>>), p.tail)
        \/ p.head \in DOMAIN WinRelative /\ g = Glob(Below1(home, WinRelative[p.head]), p.tail)
        \/ p.head \in DOMAIN WinAbsolute /\ g = Glob(WinAbsolute[p.head], p.tail)
    BY <1>11, <2>1, <2>2, <2>3 DEF ExpandHead, Found, Refused
  <2> QED
    BY <1>1, <1>4, <1>6, <1>7, <2>4
<1> QED
  BY <1>8, <1>9, <1>10, <1>11

(* A search is made, or what stopped it is said.                           *)
LEMMA GuardedFacts ==
    ASSUME NEW g
    PROVE  /\ Guarded(g).globs \subseteq {g}
           /\ Guarded(g).globs # {} \/ Guarded(g).said # {}
BY DEF Guarded, Found, Refused

(* The expansion of a head either says why it finds nothing, or finds.     *)
LEMMA HeadSaysOrFinds ==
    ASSUME given \in Given, NEW home, NEW e \in Catalogue, NEW p \in e.patterns, ~IsAnchored(p)
    PROVE  ExpandHead(p, home).said = {} \/ ExpandHead(p, home).globs = {}
<1> DEFINE Either(result) == result.said = {} \/ result.globs = {}
<1>1. Either(Silent) /\ (\A globs : Either(Found(globs))) /\ (\A r : Either(Refused(r)))
  BY DEF Silent, Found, Refused
<1>2. Either(ResolveEnv(p, home))
  <2> HIDE DEF Either
  <2> QED
    BY <1>1 DEF ResolveEnv
<1>3. p.head \in Heads
  BY CatalogueAssumption
<1>4. Either(ExpandHead(p, home))
  <2> HIDE DEF Either
  <2> QED
    BY <1>1, <1>2, <1>3 DEF ExpandHead, Heads, IsAnchored
<1> QED
  BY <1>4

(* Every search of a pattern for a home is under the root, and where the   *)
(* pattern points for that home.                                           *)
LEMMA SearchInPlace ==
    ASSUME given \in Given, NEW home \in Discovered, NEW e \in Catalogue, NEW p \in e.patterns,
           NEW g \in Search(p, home).globs
    PROVE  Theirs(p, home, g) /\ UnderRoot(g)
<1>1. CASE given.root = None /\ home = given.own
  BY <1>1 DEF Theirs, UnderRoot
<1>2. CASE ~(given.root = None /\ home = given.own) /\ ~IsAnchored(p)
  <2>1. PICK h \in ExpandHead(p, home).globs : g \in Guarded(Reanchored(h)).globs
    <3>1. Search(p, home) = ExpandPaths(p, home)
      BY <1>2 DEF Search
    <3> DEFINE head == ExpandHead(p, home)
               results == {Guarded(Reanchored(x)) : x \in head.globs}
    <3>2. head.said = {}
      <4>1. ExpandPaths(p, home) = head \/ head.said = {}
        BY DEF ExpandPaths
      <4> HIDE DEF head
      <4> QED
        BY <1>2, <3>1, <4>1, HeadSaysOrFinds DEF head
    <3>3. Search(p, home) = Together(results)
      BY <3>1, <3>2 DEF ExpandPaths
    <3>4. PICK result \in results : g \in result.globs
      <4> HIDE DEF results
      <4> QED
        BY <3>3 DEF Together
    <3> QED
      BY <3>4
  <2>2. g = Reanchored(h)
    BY <2>1, GuardedFacts
  <2>3. IsPath(home) /\ Rooted(home)
    BY HomesAre
  <2>4. IsGlob(h) /\ (Leads(home, h) \/ p.head \in {"/", "C:"} \cup DOMAIN WinAbsolute)
    BY <1>2, <2>3, HeadInPlace
  <2>5. UnderRoot(g) /\ (Leads(home, h) => Leads(home, g))
    BY <2>2, <2>3, <2>4, ReanchoredFacts
  <2> QED
    BY <2>4, <2>5 DEF Theirs
<1>3. CASE IsAnchored(p)
  <2>1. PICK r \in ProjectRoots(home) : g \in Guarded(Reanchored(Glob(r, p.tail))).globs
    <3>1. ProjectRoots(home) # {}
      BY <1>3 DEF Search, Refused
    <3> DEFINE results == {Guarded(Reanchored(Glob(r, p.tail))) : r \in ProjectRoots(home)}
    <3>2. Search(p, home) = Together(results)
      BY <1>3, <3>1 DEF Search
    <3>3. PICK result \in results : g \in result.globs
      <4> HIDE DEF results
      <4> QED
        BY <3>2 DEF Together
    <3> QED
      BY <3>3
  <2>2. g = Reanchored(Glob(r, p.tail))
    BY <2>1, GuardedFacts
  <2>3. IsPath(r) /\ IsTuple(p.tail)
    BY RootIs, CatalogueAssumption
  <2>4. IsGlob(Glob(r, p.tail)) /\ Leads(r, Glob(r, p.tail))
    BY <2>3, GlobFacts
  <2>5. UnderRoot(g) /\ (Leads(r, g) \/ Leads(Below1(Base, r.names), g))
    BY <2>2, <2>3, <2>4, ReanchoredFacts
  <2> QED
    BY <1>3, <2>5 DEF Theirs
<1> QED
  BY <1>1, <1>2, <1>3

Says(result) == result.globs # {} \/ result.said # {}

(* Results that each search or say something do so together.               *)
LEMMA TogetherSays ==
    ASSUME NEW results, results # {}, \A r \in results : Says(r)
    PROVE  Says(Together(results))
BY DEF Together, Says

(* Expanding the head of a pattern searches or says why not, unless the    *)
(* pattern is for another system or its variable is unset.                 *)
LEMMA HeadSays ==
    ASSUME given \in Given, NEW home, NEW e \in Catalogue, NEW p \in e.patterns, ~IsAnchored(p)
    PROVE  Says(ExpandHead(p, home)) \/ Elsewhere(p) \/ Unset(p)
<1>1. p.head \in Heads /\ Products # {}
  BY CatalogueAssumption
<1>2. \A globs : globs # {} => Says(Found(globs))
  BY DEF Says, Found
<1>3. \A reason : Says(Refused(reason))
  BY DEF Says, Refused
<1>4. CASE p.head = "<vscode-user>"
  <2>1. VscodeGlobs(p, home) # {}
    BY <1>1 DEF VscodeGlobs
  <2>2. ExpandHead(p, home) = Found(VscodeGlobs(p, home))
    BY <1>4 DEF ExpandHead
  <2> QED
    BY <1>2, <2>1, <2>2
<1>5. CASE p.head \in {"$", "${"}
  <2>1. CASE given.target = "windows" /\ p.var \in PosixOnly
    BY <1>5, <2>1 DEF Elsewhere
  <2>2. CASE ~(given.target = "windows" /\ p.var \in PosixOnly)
    <3>1. ExpandHead(p, home) = ResolveEnv(p, home)
      BY <1>5, <2>2 DEF ExpandHead
    <3>2. Says(ResolveEnv(p, home)) \/ Unset(p)
      BY <1>2, <1>3, <1>5 DEF ResolveEnv, Unset, EnvironmentAppliesTo
    <3> QED
      BY <3>1, <3>2
  <2> QED
    BY <2>1, <2>2
<1>6. CASE p.head \in {"~", "/"}
  BY <1>2, <1>6 DEF ExpandHead
<1>7. CASE p.head \notin {"<vscode-user>", "$", "${", "~", "/"}
  <2>1. p.head \in {"HK", "C:"} \cup DOMAIN WinRelative \cup DOMAIN WinAbsolute
    BY <1>1, <1>7 DEF Heads, IsAnchored
  <2>2. CASE given.target # "windows"
    BY <2>1, <2>2 DEF Elsewhere
  <2>3. CASE given.target = "windows"
    BY <1>2, <1>3, <1>7, <2>1, <2>3 DEF ExpandHead
  <2> QED
    BY <2>2, <2>3
<1> QED
  BY <1>4, <1>5, <1>6, <1>7

(* A pattern that applies leaves a search, or a word why there is none.    *)
LEMMA SearchSays ==
    ASSUME given \in Given, NEW home, NEW e \in Catalogue, NEW p \in e.patterns
    PROVE  Says(Search(p, home)) \/ Elsewhere(p) \/ Unset(p)
<1>1. \A g : Says(Guarded(g))
  BY GuardedFacts DEF Says
<1>2. CASE ~IsAnchored(p)
  <2>1. Search(p, home) = ExpandPaths(p, home)
    BY <1>2 DEF Search
  <2>2. CASE ExpandHead(p, home).said # {}
    BY <2>1, <2>2 DEF ExpandPaths, Says
  <2>3. CASE ExpandHead(p, home).said = {} /\ ExpandHead(p, home).globs # {}
    <3> DEFINE results == {Guarded(Reanchored(g)) : g \in ExpandHead(p, home).globs}
    <3>1. results # {} /\ \A r \in results : Says(r)
      BY <1>1, <2>3
    <3>2. Search(p, home) = Together(results)
      BY <2>1, <2>3 DEF ExpandPaths
    <3> HIDE DEF results
    <3> QED
      BY <3>1, <3>2, TogetherSays
  <2>4. CASE ~Says(ExpandHead(p, home))
    BY <1>2, <2>4, HeadSays
  <2> QED
    BY <2>2, <2>3, <2>4 DEF Says
<1>3. CASE IsAnchored(p)
  <2>1. CASE ProjectRoots(home) = {}
    BY <1>3, <2>1 DEF Search, Refused, Says
  <2>2. CASE ProjectRoots(home) # {}
    <3> DEFINE results == {Guarded(Reanchored(Glob(r, p.tail))) : r \in ProjectRoots(home)}
    <3>1. results # {} /\ \A r \in results : Says(r)
      BY <1>1, <2>2
    <3>2. Search(p, home) = Together(results)
      BY <1>3, <2>2 DEF Search
    <3> HIDE DEF results
    <3> QED
      BY <3>1, <3>2, TogetherSays
  <2> QED
    BY <2>1, <2>2
<1> QED
  BY <1>2, <1>3

(* ----------------------------------------------------------------- runs *)

(* Only profiles that the run was to search are searched, and everything   *)
(* that is searched is in its place.                                       *)
LocateInv ==
    /\ given \in Given /\ users \subseteq Discovered
    /\ \A s \in searched : InPlace(s)

(* What a run was given stays, and so does all that follows from it.       *)
LEMMA GivenStays ==
    ASSUME UNCHANGED given
    PROVE  /\ Discovered' = Discovered /\ Artifacts' = Artifacts
           /\ \A s : InPlace(s)' <=> InPlace(s)
           /\ \A p : (Elsewhere(p)' <=> Elsewhere(p)) /\ (Unset(p)' <=> Unset(p))
<1>1. \A x : Real(x)' = Real(x)
  BY DEF Real, fs
<1>2. \A x : IsDir(x)' <=> IsDir(x)
  BY <1>1 DEF IsDir, fs
<1>3. \A x : IsLink(x)' <=> IsLink(x)
  BY <1>1 DEF IsLink, Node, fs
<1>4. \A x : Listing(x)' = Listing(x)
  BY DEF Listing, Nodes, fs
<1>5. Base' = Base
  BY DEF Base
<1>6. Parents' = Parents
  BY <1>2, <1>5 DEF Parents
<1>7. UnderParents' = UnderParents
  BY <1>1, <1>2, <1>4, <1>6 DEF UnderParents
<1>8. Profiles' = Profiles
  BY <1>2, <1>3, <1>5, <1>7 DEF Profiles
<1>9. \A x : Asked(x)' = Asked(x)
  BY DEF Asked
<1>10. Discovered' = Discovered
  BY <1>7, <1>8, <1>9 DEF Discovered
<1>11. \A x : ProjectRoots(x)' = ProjectRoots(x)
  BY <1>2 DEF ProjectRoots, fs
<1>12. \A s : InPlace(s)' <=> InPlace(s)
  BY <1>5, <1>11 DEF InPlace, Theirs, UnderRoot
<1> QED
  BY <1>10, <1>12 DEF Artifacts, Elsewhere, Unset, Variable

(* A pass over a profile searches each pattern of each entry, and keeps    *)
(* what the expansion says.                                                *)
LEMMA MatchUserSearches ==
    ASSUME NEW home, MatchUser(home)
    PROVE  /\ \A s \in searched' : \/ s \in searched
                                   \/ /\ s.user = home
                                      /\ \E e \in Artifacts : s.pattern \in e.patterns
                                      /\ s.glob \in Search(s.pattern, home).globs
           /\ \A e \in Artifacts : \A p \in e.patterns :
                 /\ \A g \in Search(p, home).globs :
                       \E s \in searched' : s.user = home /\ s.pattern = p
                 /\ \A r \in Search(p, home).said : \E x \in refused' : x.pattern = p
           /\ searched \subseteq searched' /\ refused \subseteq refused'
<1> DEFINE asked == UNION {{<<e, p>> : p \in e.patterns} : e \in Artifacts}
           globs == UNION {{<<c[1], c[2], g>> : g \in Search(c[2], home).globs} : c \in asked}
           found == {[user |-> home, pattern |-> x[2], glob |-> x[3]] : x \in globs}
           said == UNION {{[pattern |-> c[2], reason |-> r] : r \in Search(c[2], home).said} :
                              c \in asked}
<1>1. searched' = searched \cup found /\ refused' = refused \cup said
  BY DEF MatchUser
<1>2. ASSUME NEW s \in found
      PROVE  /\ s.user = home /\ \E e \in Artifacts : s.pattern \in e.patterns
             /\ s.glob \in Search(s.pattern, home).globs
  <2>1. PICK x \in globs : s = [user |-> home, pattern |-> x[2], glob |-> x[3]]
    OBVIOUS
  <2>2. PICK c \in asked : x \in {<<c[1], c[2], g>> : g \in Search(c[2], home).globs}
    BY <2>1
  <2>3. PICK g \in Search(c[2], home).globs : x = <<c[1], c[2], g>>
    BY <2>2
  <2>4. \E e \in Artifacts : c[2] \in e.patterns
    BY <2>2
  <2> HIDE DEF asked, globs
  <2>5. s.user = home /\ s.pattern = c[2] /\ s.glob = g
    BY <2>1, <2>3
  <2> QED
    BY <2>3, <2>4, <2>5
<1>3. ASSUME NEW e \in Artifacts, NEW p \in e.patterns
      PROVE  /\ \A g \in Search(p, home).globs : \E s \in found : s.user = home /\ s.pattern = p
             /\ \A r \in Search(p, home).said : \E x \in said : x.pattern = p
  <2>1. <<e, p>> \in asked /\ <<e, p>>[1] = e /\ <<e, p>>[2] = p
    BY <1>3
  <2>2. ASSUME NEW g \in Search(p, home).globs
        PROVE  [user |-> home, pattern |-> p, glob |-> g] \in found
    <3> DEFINE c == <<e, p>>
               reached == {<<c[1], c[2], x>> : x \in Search(c[2], home).globs}
    <3>1. <<e, p, g>> \in reached
      BY <2>2
    <3>2. reached \subseteq globs
      <4>1. c \in asked
        BY <2>1
      <4> HIDE DEF asked, c
      <4> QED
        BY <4>1
    <3>3. <<e, p, g>>[2] = p /\ <<e, p, g>>[3] = g
      OBVIOUS
    <3> HIDE DEF globs
    <3> QED
      BY <3>1, <3>2, <3>3
  <2>3. ASSUME NEW r \in Search(p, home).said
        PROVE  [pattern |-> p, reason |-> r] \in said
    <3> DEFINE c == <<e, p>>
               told == {[pattern |-> c[2], reason |-> x] : x \in Search(c[2], home).said}
    <3>1. [pattern |-> p, reason |-> r] \in told
      BY <2>3
    <3>2. told \subseteq said
      <4>1. c \in asked
        BY <2>1
      <4> HIDE DEF asked, c
      <4> QED
        BY <4>1
    <3> QED
      BY <3>1, <3>2
  <2> HIDE DEF found, said
  <2> QED
    BY <2>2, <2>3
<1> HIDE DEF found, said
<1> QED
  BY <1>1, <1>2, <1>3

(* Nothing has been searched in the beginning.                             *)
LEMMA LocateInit == Init => LocateInv /\ NothingUnsaid
<1> SUFFICES ASSUME Init PROVE LocateInv /\ NothingUnsaid
  OBVIOUS
<1> QED
  BY DEF Init, LocateInv, NothingUnsaid, Visited

(* Every step leaves searches in place and says what it does not search.   *)
LEMMA LocateStep ==
    ASSUME LocateInv, NothingUnsaid, [Next]_vars
    PROVE  LocateInv' /\ NothingUnsaid'
<1>1. UNCHANGED given
  BY DEF Next, MatchUser, Decide, NextUser, vars
<1>2. /\ Discovered' = Discovered /\ Artifacts' = Artifacts
      /\ \A s : InPlace(s)' <=> InPlace(s)
      /\ \A p : (Elsewhere(p)' <=> Elsewhere(p)) /\ (Unset(p)' <=> Unset(p))
  BY <1>1, GivenStays
<1>3. CASE UNCHANGED <<users, searched, refused>>
  BY <1>1, <1>2, <1>3 DEF LocateInv, NothingUnsaid, Visited
<1>4. ASSUME NEW home \in users, MatchUser(home)
      PROVE  LocateInv' /\ NothingUnsaid'
  <2>1. users' = users \ {home} /\ home \in Discovered /\ Artifacts \subseteq Catalogue
    BY <1>4 DEF MatchUser, LocateInv, Artifacts
  <2>2. \A s \in searched' : InPlace(s)
    <3> TAKE s \in searched'
    <3>1. CASE s \in searched
      BY <3>1 DEF LocateInv
    <3>2. CASE s \notin searched
      <4>1. s.user = home /\ s.glob \in Search(s.pattern, home).globs
        BY <1>4, <3>2, MatchUserSearches
      <4>2. PICK e \in Catalogue : s.pattern \in e.patterns
        BY <1>4, <2>1, <3>2, MatchUserSearches
      <4> QED
        BY <2>1, <4>1, <4>2, SearchInPlace DEF InPlace, LocateInv
    <3> QED
      BY <3>1, <3>2
  <2>3. LocateInv'
    BY <1>1, <1>2, <2>1, <2>2 DEF LocateInv
  <2>4. ASSUME NEW h \in Discovered \ (users \ {home}), NEW e \in Artifacts, NEW p \in e.patterns
        PROVE  \/ \E s \in searched' : s.user = h /\ s.pattern = p
               \/ \E r \in refused' : r.pattern = p
               \/ Elsewhere(p) \/ Unset(p)
    <3>1. CASE h = home
      <4>1. \/ Search(p, home).globs # {} \/ Search(p, home).said # {}
            \/ Elsewhere(p) \/ Unset(p)
        BY <2>1, SearchSays DEF LocateInv, Says
      <4>2. /\ \A g \in Search(p, home).globs : \E s \in searched' : s.user = home /\ s.pattern = p
            /\ \A r \in Search(p, home).said : \E x \in refused' : x.pattern = p
        BY <1>4, MatchUserSearches
      <4> QED
        BY <3>1, <4>1, <4>2
    <3>2. CASE h # home
      <4>1. h \in Visited
        BY <3>2 DEF Visited
      <4> QED
        BY <1>4, <4>1, MatchUserSearches DEF NothingUnsaid
    <3> QED
      BY <3>1, <3>2
  <2>5. Visited' = Discovered \ (users \ {home})
    BY <1>2, <2>1 DEF Visited
  <2>6. NothingUnsaid'
    BY <1>2, <2>4, <2>5 DEF NothingUnsaid
  <2> QED
    BY <2>3, <2>6
<1>5. ASSUME NEW t, Decide(t) PROVE LocateInv' /\ NothingUnsaid'
  BY <1>3, <1>5 DEF Decide
<1>6. CASE NextUser \/ UNCHANGED vars
  BY <1>3, <1>6 DEF NextUser, vars
<1> QED
  BY <1>4, <1>5, <1>6 DEF Next

(* Every search of a run is one for a profile that it was to search, and   *)
(* in its place (expand_paths, discover_users).                            *)
THEOREM LocateHolds == Spec => [](LocateInv /\ NothingUnsaid)
<1>1. LocateInv /\ NothingUnsaid /\ [Next]_vars => (LocateInv /\ NothingUnsaid)'
  BY LocateStep
<1> QED
  BY <1>1, LocateInit, PTL DEF Spec

(* Of every pattern that applies to a profile the bundle says where it was *)
(* searched, or why it was not, or its variable is one that nobody set     *)
(* (expand_paths, resolve_env_prefix).                                     *)
THEOREM NothingIsUnsaid == Spec => []NothingUnsaid
BY LocateHolds, PTL

(* Whatever the environment of whoever collects, each glob that is         *)
(* expanded for another profile names a place in it, in a working copy it  *)
(* used or where a pattern says for everyone, and of a mounted image a     *)
(* place under the mount (environment_applies_to, _windows_redirected,     *)
(* expand_paths).  It says where a search begins, not where links lead.    *)
THEOREM SearchesBegin == Spec => []SearchesBeginInPlace
<1>1. LocateInv => SearchesBeginInPlace
  BY DEF LocateInv, InPlace, Theirs, UnderRoot, SearchesBeginInPlace, SearchedIsTheirs,
         BeginsUnderTheRoot
<1> QED
  BY <1>1, LocateHolds, PTL

(* ---------------------------------------------------- escaping a name -- *)

(* The characters that codes are made of. *)
Codes == {"%"} \cup UNION {Range(Digits[c]) : c \in DOMAIN Digits}

(* The i-th character stands alone, or as its code, between two marks. *)
StandsAt(s, c, from, to) ==
    \/ to = from + 1 /\ c # "%" /\ s[from + 1] = c
    \/ /\ to = from + 3 /\ c \in DOMAIN Digits
       /\ s[from + 1] = "%" /\ s[from + 2] = Digits[c][1] /\ s[from + 3] = Digits[c][2]

(* What is written is the name: p marks where each character ends. *)
Marks(p, s, name) ==
    /\ p \in [0..Len(name) -> 0..Len(s)]
    /\ p[0] = 0 /\ p[Len(name)] = Len(s)
    /\ \A i \in 1..Len(name) : p[i - 1] < Len(s) /\ StandsAt(s, name[i], p[i - 1], p[i])

Spells(s, name, S) == s \in Seq(S) /\ \E p : Marks(p, s, name)

(* What a code is made of (_pct).                                          *)
LEMMA PctFacts ==
    ASSUME NEW S, Codes \subseteq S, NEW c \in DOMAIN Digits
    PROVE  /\ Pct(c) = <<"%", Digits[c][1], Digits[c][2]>>
           /\ "%" \in S /\ Digits[c][1] \in S /\ Digits[c][2] \in S /\ Pct(c) \in Seq(S)
           /\ Digits[c][2] \notin Stripped
           /\ Folded(<<Digits[c][1], Digits[c][2]>>) = Digits[c]
<1>0. /\ Digits[c] = <<Digits[c][1], Digits[c][2]>>
      /\ \A i \in 1..2 : Digits[c][i] \notin Stripped /\ CapitalOf(Digits[c][i]) = Digits[c][i]
  BY CodesAssumption
<1> DEFINE a == Digits[c][1]
           b == Digits[c][2]
<1>1. Digits[c] = <<a, b>>
  BY <1>0
<1>2. b \notin Stripped /\ CapitalOf(a) = a /\ CapitalOf(b) = b
  <2>1. 1 \in 1..2 /\ 2 \in 1..2
    OBVIOUS
  <2> QED
    BY <1>0, <2>1
<1>3. a \in S /\ b \in S /\ "%" \in S
  <2> HIDE DEF a, b
  <2>1. a \in Range(<<a, b>>) /\ b \in Range(<<a, b>>)
    BY DEF Range
  <2> QED
    BY <1>1, <2>1 DEF Codes
<1> HIDE DEF a, b
<1>4. Pct(c) = <<"%", a, b>>
  <2> DEFINE t == <<a, b>>
             o == <<"%">>
  <2>1. o \in Seq(S) /\ t \in Seq(S) /\ Len(o) = 1 /\ Len(t) = 2 /\ o[1] = "%" /\ t[1] = a /\ t[2] = b
    BY <1>3
  <2> HIDE DEF o, t
  <2>5. /\ o \o t \in Seq(S) /\ Len(o \o t) = Len(o) + Len(t)
        /\ \A j \in 1..Len(o) : (o \o t)[j] = o[j]
        /\ \A j \in 1..Len(t) : (o \o t)[Len(o) + j] = t[j]
    <3>1. o \in Seq(S) /\ t \in Seq(S)
      BY <2>1
    <3> QED
      BY ONLY <3>1, Joined
  <2>2. o \o t \in Seq(S) /\ Len(o \o t) = 3 /\ (o \o t)[1] = "%" /\ (o \o t)[2] = a /\ (o \o t)[3] = b
    BY <2>1, <2>5
  <2>3. o \o t = <<"%", a, b>>
    BY <2>2, Three
  <2>4. <<"%">> \o <<a, b>> = <<"%", a, b>>
    BY <2>3 DEF o, t
  <2> QED
    BY <1>1, <2>4 DEF Pct
<1>5. Folded(<<a, b>>) = <<a, b>>
  <2> DEFINE d == <<a, b>>
  <2>1. d[1] = a /\ d[2] = b /\ DOMAIN d = {1, 2}
    OBVIOUS
  <2>2. \A i \in DOMAIN d : CapitalOf(d[i]) = d[i]
    BY <1>2, <2>1
  <2>3. d = [i \in DOMAIN d |-> d[i]]
    OBVIOUS
  <2> HIDE DEF d
  <2>4. Folded(d) = d
    BY <2>2, <2>3 DEF Folded
  <2> QED
    BY <2>4 DEF d
<1>6. <<"%", a, b>> \in Seq(S)
  BY <1>3
<1> QED
  BY <1>1, <1>2, <1>3, <1>4, <1>5, <1>6 DEF a, b

(* Every character of an escaped name stands alone or as its code. *)
LEMMA EscapedSpells ==
    ASSUME NEW S, Codes \subseteq S, NEW name \in Seq(S)
    PROVE  Spells(Escaped(name), name, S)
<1> DEFINE u == [i \in DOMAIN name |->
                    IF name[i] \in Reserved \cup {"%"} THEN Pct(name[i]) ELSE <<name[i]>>]
           n == Len(name)
           Unit(i) == \/ u[i] = <<name[i]>> /\ name[i] # "%"
                      \/ name[i] \in DOMAIN Digits /\ u[i] = <<"%", Digits[name[i]][1], Digits[name[i]][2]>>
<1>1. DOMAIN name = 1..n /\ n \in Nat
  OBVIOUS
<1>2. ASSUME NEW i \in 1..n
      PROVE  u[i] \in Seq(S) /\ Unit(i)
  <2> DEFINE c == name[i]
  <2>1. c \in S
    BY <1>1
  <2>2. u[i] = IF c \in Reserved \cup {"%"} THEN Pct(c) ELSE <<c>>
    BY <1>1
  <2>3. c \in Reserved \cup {"%"} => c \in DOMAIN Digits
    BY PathNamesAssumption
  <2>4. c \in DOMAIN Digits => Pct(c) = <<"%", Digits[c][1], Digits[c][2]>> /\ Pct(c) \in Seq(S)
    BY PctFacts
  <2>5. <<c>> \in Seq(S)
    BY <2>1
  <2> HIDE DEF u, c
  <2>6. u[i] \in Seq(S)
    BY <2>2, <2>3, <2>4, <2>5
  <2>7. \/ u[i] = <<c>> /\ c # "%"
        \/ c \in DOMAIN Digits /\ u[i] = <<"%", Digits[c][1], Digits[c][2]>>
    BY <2>2, <2>3, <2>4
  <2> QED
    BY <2>6, <2>7 DEF c
<1>3. Escaped(name) = FlattenSeq(u)
  BY DEF Escaped
<1>4. u = [i \in 1..n |-> u[i]]
  BY <1>1
<1> HIDE DEF u
<1>5. u \in Seq(Seq(S)) /\ Len(u) = n
  <2> HIDE DEF n
  <2>1. [i \in 1..n |-> u[i]] \in Seq(Seq(S)) /\ Len([i \in 1..n |-> u[i]]) = n
    BY <1>1, <1>2
  <2> QED
    BY <1>4, <2>1
<1>6. PICK f : Joins(f, u, S) /\ FlattenSeq(u) = f[Len(u)]
  BY <1>5, FlattenJoins
<1> DEFINE s == f[n]
<1>7. /\ \A i \in 0..n : f[i] \in Seq(S)
      /\ f[0] = <<>> /\ \A i \in 1..n : f[i] = f[i - 1] \o u[i]
  BY <1>5, <1>6 DEF Joins
<1> HIDE DEF n
<1>8. ASSUME NEW i \in 1..n
      PROVE  /\ Len(f[i - 1]) \in Nat /\ Len(u[i]) \in {1, 3}
             /\ Len(f[i]) = Len(f[i - 1]) + Len(u[i])
             /\ \A j \in 1..Len(f[i - 1]) : f[i][j] = f[i - 1][j]
             /\ \A j \in 1..Len(u[i]) : f[i][Len(f[i - 1]) + j] = u[i][j]
  <2>1. i - 1 \in 0..n
    BY <1>1
  <2>2. f[i - 1] \in Seq(S) /\ u[i] \in Seq(S) /\ f[i] = f[i - 1] \o u[i]
    BY <1>2, <1>7, <2>1
  <2>3. Len(u[i]) \in {1, 3}
    <3> DEFINE d == Digits[name[i]][1]
               e == Digits[name[i]][2]
               c == name[i]
    <3>1. u[i] = <<c>> \/ u[i] = <<"%", d, e>>
      BY <1>2
    <3> HIDE DEF c, d, e
    <3>2. CASE u[i] = <<c>>
      BY <3>2
    <3>3. CASE u[i] = <<"%", d, e>>
      BY <3>3
    <3> QED
      BY <3>1, <3>2, <3>3
  <2> HIDE DEF Unit
  <2>4. /\ Len(f[i - 1]) \in Nat /\ Len(f[i]) = Len(f[i - 1]) + Len(u[i])
        /\ \A j \in 1..Len(f[i - 1]) : f[i][j] = f[i - 1][j]
        /\ \A j \in 1..Len(u[i]) : f[i][Len(f[i - 1]) + j] = u[i][j]
    <3> DEFINE a == f[i - 1]
               b == u[i]
    <3>1. a \in Seq(S) /\ b \in Seq(S) /\ f[i] = a \o b
      BY <2>2
    <3> HIDE DEF a, b
    <3>2. /\ Len(a) \in Nat /\ Len(a \o b) = Len(a) + Len(b)
          /\ \A j \in 1..Len(a) : (a \o b)[j] = a[j]
          /\ \A j \in 1..Len(b) : (a \o b)[Len(a) + j] = b[j]
      BY <3>1, Joined
    <3> QED
      BY <3>1, <3>2 DEF a, b
  <2> QED
    BY <2>3, <2>4
(* s begins as every join does. *)
<1> DEFINE T == {i \in 0..n : /\ Len(f[i]) <= Len(s) /\ (i < n => Len(f[i]) < Len(s))
                              /\ \A j \in 1..Len(f[i]) : s[j] = f[i][j]}
<1>9. T = 0..n
  <2>1. n \in T
    <3>1. n \in 0..n /\ Len(f[n]) \in Nat
      BY <1>1, <1>7
    <3> QED
      BY <3>1
  <2>2. ASSUME NEW i \in 1..n, i \in T
        PROVE  i - 1 \in T
    <3>1. /\ Len(f[i]) <= Len(s)
          /\ \A j \in 1..Len(f[i]) : s[j] = f[i][j]
      BY <2>2
    <3>2. i - 1 \in 0..n
      BY <1>1
    <3>3. Len(s) \in Nat
      <4>1. n \in 0..n
        BY <1>1
      <4> QED
        BY <1>7, <4>1
    <3> HIDE DEF s
    <3> DEFINE a == f[i - 1]
               b == f[i]
               e == u[i]
    <3>4. /\ Len(a) \in Nat /\ Len(e) \in {1, 3} /\ Len(b) = Len(a) + Len(e)
          /\ \A j \in 1..Len(a) : b[j] = a[j]
      BY <1>8
    <3>5. Len(b) <= Len(s) /\ \A j \in 1..Len(b) : s[j] = b[j]
      BY <3>1
    <3> HIDE DEF a, b, e
    <3>6. Len(a) < Len(s) /\ Len(a) <= Len(s)
      <4>1. Len(a) \in Nat /\ Len(e) \in {1, 3} /\ Len(b) = Len(a) + Len(e)
        BY <3>4
      <4>2. Len(b) <= Len(s) /\ Len(s) \in Nat
        BY <3>3, <3>5
      <4> QED
        BY ONLY <4>1, <4>2
    <3>7. \A j \in 1..Len(a) : s[j] = a[j]
      <4> TAKE j \in 1..Len(a)
      <4>1. j \in 1..Len(b)
        BY <3>4
      <4> QED
        BY <3>4, <3>5, <4>1
    <3> QED
      BY <3>2, <3>6, <3>7 DEF a
  <2>3. T \in SUBSET (0..n)
    OBVIOUS
  <2> HIDE DEF T
  <2> QED
    BY <1>1, <2>1, <2>2, <2>3, DownTo
<1> DEFINE p == [i \in 0..n |-> Len(f[i])]
<1>10. s \in Seq(S) /\ Len(s) \in Nat
  <2>1. n \in 0..n
    BY <1>1
  <2> QED
    BY <1>7, <2>1
<1>11. \A i \in 0..n : /\ Len(f[i]) \in 0..Len(s) /\ (i < n => Len(f[i]) < Len(s))
                       /\ \A j \in 1..Len(f[i]) : s[j] = f[i][j]
  <2>1. \A i \in 0..n : i \in T /\ Len(f[i]) \in Nat
    <3> HIDE DEF T
    <3> QED
      BY <1>7, <1>9
  <2> HIDE DEF s
  <2> QED
    BY <1>10, <2>1
<1>12. p \in [0..n -> 0..Len(s)] /\ p[0] = 0 /\ p[n] = Len(s) /\ \A i \in 0..n : p[i] = Len(f[i])
  <2>1. 0 \in 0..n /\ n \in 0..n /\ Len(f[0]) = 0
    BY <1>1, <1>7
  <2> QED
    BY <1>11, <2>1
<1>13. ASSUME NEW i \in 1..n
       PROVE  p[i - 1] < Len(s) /\ StandsAt(s, name[i], p[i - 1], p[i])
  <2> DEFINE c == name[i]
             q == Len(f[i - 1])
  <2>1. i - 1 \in 0..n /\ i - 1 < n /\ i \in 0..n
    BY <1>1
  <2>2. p[i - 1] = q /\ p[i] = q + Len(u[i]) /\ q < Len(s) /\ q \in Nat
    <3> HIDE DEF p, s
    <3> QED
      BY <1>8, <1>11, <1>12, <2>1
  <2>3. \A j \in 1..Len(u[i]) : s[q + j] = u[i][j]
    <3> DEFINE a == f[i - 1]
               b == f[i]
               e == u[i]
    <3>1. /\ Len(a) \in Nat /\ Len(e) \in {1, 3} /\ Len(b) = Len(a) + Len(e)
          /\ \A j \in 1..Len(e) : b[Len(a) + j] = e[j]
      BY <1>8
    <3>2. \A j \in 1..Len(b) : s[j] = b[j]
      <4> HIDE DEF s
      <4> QED
        BY <1>11, <2>1
    <3> HIDE DEF a, b, e, s
    <3>3. ASSUME NEW j \in 1..Len(e)
          PROVE  s[Len(a) + j] = e[j]
      <4>1. Len(a) + j \in 1..Len(b)
        BY <3>1
      <4> QED
        BY <3>1, <3>2, <4>1
    <3> QED
      BY <3>3 DEF a, e
  <2>4. \/ u[i] = <<c>> /\ c # "%"
        \/ c \in DOMAIN Digits /\ u[i] = <<"%", Digits[c][1], Digits[c][2]>>
    BY <1>2
  <2> HIDE DEF p, s, q, c
  <2>5. StandsAt(s, c, p[i - 1], p[i])
    <3>1. CASE u[i] = <<c>> /\ c # "%"
      <4>1. p[i] = q + 1 /\ s[q + 1] = c
        BY <2>2, <2>3, <3>1
      <4> QED
        BY <2>2, <3>1, <4>1 DEF StandsAt
    <3>2. CASE c \in DOMAIN Digits /\ u[i] = <<"%", Digits[c][1], Digits[c][2]>>
      <4> DEFINE d == Digits[c][1]
                 e == Digits[c][2]
      <4>0. u[i] = <<"%", d, e>>
        BY <3>2
      <4> HIDE DEF d, e
      <4>1. p[i] = q + 3 /\ s[q + 1] = "%" /\ s[q + 2] = d /\ s[q + 3] = e
        BY <2>2, <2>3, <4>0
      <4> QED
        BY <2>2, <3>2, <4>1 DEF StandsAt, d, e
    <3> QED
      BY <2>4, <3>1, <3>2
  <2> QED
    BY <2>2, <2>5 DEF c
<1>14. Escaped(name) = s
  BY <1>3, <1>5, <1>6
<1> HIDE DEF p, s
<1>15. Marks(p, s, name)
  BY <1>12, <1>13 DEF Marks, n
<1> QED
  BY <1>10, <1>14, <1>15 DEF Spells

(* The last dot or space gets its code: it stood alone. *)
LEMMA KeepEndSpells ==
    ASSUME NEW S, Codes \subseteq S, NEW name \in Seq(S), NEW s, Spells(s, name, S)
    PROVE  Spells(KeepEnd(s), name, S)
<1> DEFINE n == Len(name)
           m == Len(s)
<1>1. PICK p : Marks(p, s, name)
  BY DEF Spells
<1>2. /\ s \in Seq(S) /\ m \in Nat /\ n \in Nat
      /\ p \in [0..n -> 0..m] /\ p[0] = 0 /\ p[n] = m
      /\ \A i \in 1..n : p[i - 1] < m /\ StandsAt(s, name[i], p[i - 1], p[i])
  BY <1>1 DEF Spells, Marks
<1> SUFFICES ASSUME s # <<>>, Last(s) \in Stripped, KeepEnd(s) = Front(s) \o Pct(Last(s))
             PROVE  Spells(KeepEnd(s), name, S)
  BY DEF KeepEnd
<1> DEFINE c == s[m]
           k == p[n - 1]
<1>3. m \in Nat \ {0} /\ c \in Stripped /\ c \in DOMAIN Digits
  BY <1>2, PathNamesAssumption DEF Last
<1>4. n \in Nat \ {0}
  <2> HIDE DEF m
  <2> QED
    BY <1>2, <1>3
<1>5. k \in Nat /\ k < m /\ StandsAt(s, name[n], k, m)
  <2>1. n \in 1..n /\ n - 1 \in 0..n
    BY <1>4
  <2> HIDE DEF m, n
  <2> QED
    BY <1>2, <2>1
<1>6. m = k + 1 /\ name[n] = c
  <2> DEFINE d == name[n]
  <2>1. \/ m = k + 1 /\ s[k + 1] = d
        \/ m = k + 3 /\ d \in DOMAIN Digits /\ s[k + 3] = Digits[d][2]
    BY <1>5 DEF StandsAt
  <2>2. d \in DOMAIN Digits => Digits[d][2] \notin Stripped
    BY PctFacts
  <2> HIDE DEF d, m, k
  <2>3. ~(m = k + 3 /\ d \in DOMAIN Digits /\ s[k + 3] = Digits[d][2])
    BY <1>3, <2>2
  <2> QED
    BY <2>1, <2>3 DEF d
<1> DEFINE d == Digits[c][1]
           e == Digits[c][2]
           t == Front(s) \o Pct(c)
<1>7. /\ t \in Seq(S) /\ Len(t) = m + 2
      /\ \A j \in 1..(m - 1) : t[j] = s[j]
      /\ t[m] = "%" /\ t[m + 1] = d /\ t[m + 2] = e
  <2> DEFINE a == Front(s)
             b == Pct(c)
  <2>1. b = <<"%", d, e>> /\ b \in Seq(S)
    BY <1>3, PctFacts
  <2>2. a \in Seq(S) /\ Len(a) = m - 1 /\ \A j \in 1..(m - 1) : a[j] = s[j]
    BY <1>2, <1>3 DEF Front
  <2> HIDE DEF d, e, a, b
  <2>3. Len(b) = 3 /\ b[1] = "%" /\ b[2] = d /\ b[3] = e
    BY <2>1
  <2>4. /\ a \o b \in Seq(S) /\ Len(a \o b) = Len(a) + Len(b)
        /\ \A j \in 1..Len(a) : (a \o b)[j] = a[j]
        /\ \A j \in 1..Len(b) : (a \o b)[Len(a) + j] = b[j]
    BY <2>1, <2>2, Joined
  <2>5. t = a \o b
    BY DEF a, b
  <2> HIDE DEF t, m
  <2>6. t[(m - 1) + 1] = "%" /\ t[(m - 1) + 2] = d /\ t[(m - 1) + 3] = e
    BY <2>2, <2>3, <2>4, <2>5
  <2>7. (m - 1) + 1 = m /\ (m - 1) + 2 = m + 1 /\ (m - 1) + 3 = m + 2
    BY <1>3
  <2> QED
    BY <1>3, <2>2, <2>3, <2>4, <2>5, <2>6, <2>7
<1>8. KeepEnd(s) = t
  BY DEF Last
<1> DEFINE q == [i \in 0..n |-> IF i = n THEN m + 2 ELSE p[i]]
<1> HIDE DEF t, m, n, c, d, e, k
<1>9. q \in [0..n -> 0..(m + 2)] /\ q[0] = 0 /\ q[n] = m + 2
  BY <1>2, <1>4
<1>10. ASSUME NEW i \in 1..n
       PROVE  q[i - 1] < m + 2 /\ StandsAt(t, name[i], q[i - 1], q[i])
  <2> DEFINE j == i - 1
             x == p[j]
             y == p[i]
  <2>1. i \in 0..n /\ j \in 0..n /\ j # n /\ q[j] = x /\ x \in 0..m /\ y \in 0..m
    BY <1>2
  <2>2. x < m /\ StandsAt(s, name[i], x, y)
    BY <1>2
  <2>3. CASE i = n
    <3>1. x = k /\ q[i] = m + 2
      BY <1>9, <2>3 DEF k
    <3>2. q[i] = x + 3 /\ t[x + 1] = "%" /\ t[x + 2] = d /\ t[x + 3] = e /\ k + 1 = m
      <4>1. k \in Nat /\ m = k + 1
        BY <1>5, <1>6
      <4> HIDE DEF x
      <4>2. k + 1 = m /\ k + 2 = m + 1 /\ k + 3 = m + 2
        BY <4>1
      <4> QED
        BY <1>7, <3>1, <4>2
    <3>3. name[i] = c
      BY <1>6, <2>3
    <3> HIDE DEF x, q
    <3> QED
      BY <1>2, <1>3, <2>1, <2>2, <3>2, <3>3 DEF StandsAt, d, e
  <2>4. CASE i # n
    <3>1. q[i] = y
      BY <2>4
    <3>2. y < m /\ y <= m - 1
      <4>1. i + 1 \in 1..n /\ (i + 1) - 1 = i
        BY <1>2, <2>4
      <4>2. p[(i + 1) - 1] < m
        BY <1>2, <4>1
      <4> QED
        BY <1>2, <2>1, <4>1, <4>2
    <3> HIDE DEF x, y, q
    <3>3. \A l \in 1..(m - 1) : t[l] = s[l]
      BY <1>7
    <3>4. StandsAt(t, name[i], x, y)
      <4>1. CASE y = x + 1 /\ name[i] # "%" /\ s[x + 1] = name[i]
        <5>1. x + 1 \in 1..(m - 1)
          BY <1>2, <2>1, <3>2, <4>1
        <5> QED
          BY <3>3, <4>1, <5>1 DEF StandsAt
      <4>2. CASE /\ y = x + 3 /\ name[i] \in DOMAIN Digits
                 /\ s[x + 1] = "%" /\ s[x + 2] = Digits[name[i]][1] /\ s[x + 3] = Digits[name[i]][2]
        <5>1. x + 1 \in 1..(m - 1) /\ x + 2 \in 1..(m - 1) /\ x + 3 \in 1..(m - 1)
          BY <1>2, <2>1, <3>2, <4>2
        <5> QED
          BY <3>3, <4>2, <5>1 DEF StandsAt
      <4> QED
        BY <2>2, <4>1, <4>2 DEF StandsAt
    <3> QED
      BY <1>2, <2>1, <2>2, <3>1, <3>4
  <2> QED
    BY <2>3, <2>4
<1> HIDE DEF q
<1>11. Marks(q, t, name)
  BY <1>7, <1>9, <1>10 DEF Marks, n
<1> QED
  BY <1>7, <1>8, <1>11 DEF Spells

(* A device is told by its first character, and that one has a code. *)
LEMMA StemFacts ==
    ASSUME NEW S, NEW s \in Seq(S), Folded(Stem(s)) \in Devices
    PROVE  s # <<>> /\ s[1] # "%" /\ s[1] \in DOMAIN Digits
<1> DEFINE t == Stem(s)
           dev == Folded(t)
<1>1. dev # <<>> /\ \A c \in {dev[1]} \cup {x \in DOMAIN Capital : Capital[x] = dev[1]} :
                       c # "%" /\ c \in DOMAIN Digits
  BY CodesAssumption
<1>2. Len(s) \in Nat /\ DOMAIN s = 1..Len(s)
  OBVIOUS
<1>3. \E k \in Nat : DOMAIN t = 1..k /\ (k > 0 => t[1] = s[1]) /\ k <= Len(s)
  <2>1. CASE ~Contains(s, ".")
    <3>1. t = s
      BY <2>1 DEF Stem
    <3> HIDE DEF t
    <3> DEFINE l == Len(s)
    <3>2. l \in Nat /\ DOMAIN t = 1..l /\ (l > 0 => t[1] = s[1]) /\ l <= Len(s)
      BY <1>2, <3>1
    <3> HIDE DEF l
    <3> QED
      BY <3>2
  <2>2. CASE Contains(s, ".")
    <3> DEFINE k == SelectInSeq(s, LAMBDA c : c = ".")
    <3>1. t = SubSeq(s, 1, k - 1)
      BY <2>2 DEF Stem
    <3>2. k \in 0..Len(s)
      <4> DEFINE I == {i \in 1..Len(s) : s[i] = "."}
      <4>1. I \in SUBSET Nat /\ I # {}
        BY <1>2, <2>2 DEF Contains
      <4>2. k = CHOOSE x \in I : \A y \in I : x <= y
        BY <4>1 DEF SelectInSeq, Min
      <4> HIDE DEF k
      <4>3. I \subseteq 0..Len(s)
        BY <1>2
      <4> HIDE DEF I
      <4>4. \E x \in I : \A y \in I : x <= y
        BY <4>1, LeastOf
      <4>5. k \in I
        BY <4>2, <4>4
      <4> QED
        BY <4>3, <4>5
    <3> HIDE DEF k, t
    <3>3. \A i \in 1..(k - 1) : s[i] \in S
      BY <1>2, <3>2
    <3>4. CASE k \in {0, 1}
      <4>1. SubSeq(s, 1, k - 1) = <<>>
        BY <3>2, <3>4, SubSeqEmpty
      <4>2. t = <<>>
        BY <3>1, <4>1
      <4>3. DOMAIN t = 1..0
        BY <4>2
      <4> QED
        BY <1>2, <4>3
    <3>5. CASE k > 1
      <4>1. /\ Len(SubSeq(s, 1, k - 1)) = k - 1 /\ SubSeq(s, 1, k - 1) \in Seq(S)
            /\ SubSeq(s, 1, k - 1)[1] = s[1]
        <5> DEFINE h == k - 1
        <5>1. h \in Nat \ {0} /\ \A i \in 1..h : s[i] \in S
          BY <3>2, <3>3, <3>5
        <5> HIDE DEF h
        <5>2. /\ SubSeq(s, 1, h) \in Seq(S) /\ Len(SubSeq(s, 1, h)) = h
              /\ \A i \in 1..h : SubSeq(s, 1, h)[i] = s[i]
          BY <5>1
        <5>3. SubSeq(s, 1, h)[1] = s[1]
          BY <5>1, <5>2
        <5> QED
          BY <5>2, <5>3 DEF h
      <4>2. DOMAIN t = 1..(k - 1) /\ t[1] = s[1]
        BY <3>1, <4>1, LenProperties
      <4>3. k - 1 \in Nat /\ k - 1 <= Len(s)
        BY <1>2, <3>2, <3>5
      <4> QED
        BY <4>2, <4>3
    <3> QED
      BY <3>2, <3>4, <3>5
  <2> QED
    BY <2>1, <2>2
<1>4. PICK k \in Nat : DOMAIN t = 1..k /\ (k > 0 => t[1] = s[1]) /\ k <= Len(s)
  BY <1>3
<1>5. dev = [i \in 1..k |-> CapitalOf(t[i])]
  BY <1>4 DEF Folded
<1> HIDE DEF t, dev
<1>6. k > 0
  <2>1. k = 0 => dev = <<>>
    BY <1>5
  <2> QED
    BY <1>1, <1>4, <2>1
<1>7. dev[1] = CapitalOf(s[1]) /\ s # <<>>
  <2>1. 1 \in 1..k /\ Len(s) # 0
    BY <1>2, <1>4, <1>6
  <2> QED
    BY <1>4, <1>5, <1>6, <2>1
<1>8. s[1] \in {dev[1]} \cup {x \in DOMAIN Capital : Capital[x] = dev[1]}
  BY <1>7 DEF CapitalOf
<1> QED
  BY <1>1, <1>7, <1>8

(* The first character of a device name gets its code: it stood alone. *)
LEMMA NoDeviceSpells ==
    ASSUME NEW S, Codes \subseteq S, NEW name \in Seq(S), NEW s, Spells(s, name, S)
    PROVE  Spells(NoDevice(s), name, S)
<1> DEFINE n == Len(name)
           m == Len(s)
           c == s[1]
           d == Digits[c][1]
           e == Digits[c][2]
           t == Pct(Head(s)) \o Tail(s)
<1>1. PICK p : Marks(p, s, name)
  BY DEF Spells
<1>2. /\ s \in Seq(S) /\ m \in Nat /\ n \in Nat
      /\ p \in [0..n -> 0..m] /\ p[0] = 0 /\ p[n] = m
      /\ \A i \in 1..n : p[i - 1] < m /\ StandsAt(s, name[i], p[i - 1], p[i])
  BY <1>1 DEF Spells, Marks
<1> SUFFICES ASSUME Folded(Stem(s)) \in Devices
             PROVE  Spells(t, name, S)
  BY DEF NoDevice
<1>3. s # <<>> /\ c # "%" /\ c \in DOMAIN Digits
  BY <1>2, StemFacts
<1>4. m \in Nat \ {0}
  BY <1>2, <1>3
<1>5. n \in Nat \ {0}
  <2> HIDE DEF m
  <2> QED
    BY <1>2, <1>4
<1>6. /\ t \in Seq(S) /\ Len(t) = m + 2
      /\ t[1] = "%" /\ t[2] = d /\ t[3] = e
      /\ \A j \in 2..m : t[j + 2] = s[j]
  <2> DEFINE a == Pct(c)
             b == Tail(s)
  <2>1. a = <<"%", d, e>> /\ a \in Seq(S)
    BY <1>3, PctFacts
  <2>2. Head(s) = c /\ b \in Seq(S) /\ Len(b) = m - 1 /\ \A i \in 1..(m - 1) : b[i] = s[i + 1]
    <3>1. Head(s) = c
      BY <1>2, <1>3
    <3>2. b \in Seq(S) /\ Len(b) = m - 1 /\ \A i \in 1..Len(b) : b[i] = s[i + 1]
      BY <1>2, <1>3, HeadTailProperties
    <3> HIDE DEF b, c
    <3> QED
      BY <3>1, <3>2
  <2> HIDE DEF c, d, e
  <2>3. t = a \o b
    BY <2>2
  <2> HIDE DEF a, b, t
  <2>4. Len(a) = 3 /\ a[1] = "%" /\ a[2] = d /\ a[3] = e
    BY <2>1
  <2>5. /\ a \o b \in Seq(S) /\ Len(a \o b) = Len(a) + Len(b)
        /\ \A j \in 1..Len(a) : (a \o b)[j] = a[j]
        /\ \A j \in 1..Len(b) : (a \o b)[Len(a) + j] = b[j]
    BY <2>1, <2>2, Joined
  <2>6. \A j \in 2..m : t[j + 2] = s[j]
    <3> TAKE j \in 2..m
    <3> HIDE DEF m
    <3>1. j - 1 \in 1..(m - 1) /\ 3 + (j - 1) = j + 2 /\ (j - 1) + 1 = j
      BY <1>4
    <3>2. (a \o b)[3 + (j - 1)] = b[j - 1] /\ b[j - 1] = s[(j - 1) + 1]
      BY <2>2, <2>4, <2>5, <3>1
    <3> QED
      BY <2>3, <3>1, <3>2
  <2> HIDE DEF m
  <2>7. Len(t) = m + 2 /\ t[1] = "%" /\ t[2] = d /\ t[3] = e /\ t \in Seq(S)
    BY <1>4, <2>2, <2>3, <2>4, <2>5
  <2> QED
    BY <2>6, <2>7
<1> DEFINE q == [i \in 0..n |-> IF i = 0 THEN 0 ELSE p[i] + 2]
<1> HIDE DEF m, n, t
<1>7. \A i \in 1..n : p[i] \in 1..m /\ p[i - 1] \in 0..m
  <2> TAKE i \in 1..n
  <2> DEFINE x == p[i - 1]
             y == p[i]
  <2>1. i - 1 \in 0..n /\ i \in 0..n
    BY <1>5
  <2>2. x \in 0..m /\ y \in 0..m /\ (y = x + 1 \/ y = x + 3)
    BY <1>2, <2>1 DEF StandsAt
  <2> HIDE DEF x, y
  <2>3. y \in 1..m
    BY <1>4, <2>2
  <2> QED
    BY <2>2, <2>3 DEF x, y
<1>8. q \in [0..n -> 0..(m + 2)] /\ q[0] = 0 /\ q[n] = m + 2
  BY <1>2, <1>4, <1>5, <1>7
<1>9. name[1] = c /\ p[1] = 1
  <2>1. 1 \in 1..n /\ 1 - 1 = 0
    BY <1>5
  <2>2. StandsAt(s, name[1], 0, p[1])
    BY <1>2, <2>1
  <2> QED
    BY <1>3, <2>2 DEF StandsAt
<1>10. ASSUME NEW i \in 1..n
       PROVE  q[i - 1] < m + 2 /\ StandsAt(t, name[i], q[i - 1], q[i])
  <2>1. CASE i = 1
    <3>1. q[i - 1] = 0 /\ q[i] = 3
      BY <1>5, <1>9, <2>1
    <3> QED
      BY <1>3, <1>4, <1>6, <1>9, <2>1, <3>1 DEF StandsAt
  <2>2. CASE i # 1
    <3> DEFINE x == p[i - 1]
               y == p[i]
    <3>1. i - 1 \in 1..n /\ i - 1 \in 0..n /\ i \in 0..n
      BY <1>5, <2>2
    <3>2. q[i - 1] = x + 2 /\ q[i] = y + 2 /\ x \in 1..m /\ y \in 1..m
      BY <1>7, <2>2, <3>1
    <3>3. x < m /\ StandsAt(s, name[i], x, y)
      BY <1>2
    <3> HIDE DEF x, y, q, c, d, e
    <3>4. \A j \in 2..m : t[j + 2] = s[j]
      BY <1>6
    <3>5. StandsAt(t, name[i], x + 2, y + 2)
      <4>1. CASE y = x + 1 /\ name[i] # "%" /\ s[x + 1] = name[i]
        <5>1. x + 1 \in 2..m /\ (x + 1) + 2 = (x + 2) + 1 /\ y + 2 = (x + 2) + 1
          BY <1>4, <3>2, <4>1
        <5>2. t[(x + 1) + 2] = s[x + 1]
          BY <3>4, <5>1
        <5> QED
          BY <4>1, <5>1, <5>2 DEF StandsAt
      <4>2. CASE /\ y = x + 3 /\ name[i] \in DOMAIN Digits
                 /\ s[x + 1] = "%" /\ s[x + 2] = Digits[name[i]][1] /\ s[x + 3] = Digits[name[i]][2]
        <5>1. /\ x + 1 \in 2..m /\ (x + 1) + 2 = (x + 2) + 1 /\ y + 2 = (x + 2) + 3
              /\ x + 2 \in 2..m /\ (x + 2) + 2 = (x + 2) + 2
              /\ x + 3 \in 2..m /\ (x + 3) + 2 = (x + 2) + 3
          BY <1>4, <3>2, <4>2
        <5>2. /\ t[(x + 1) + 2] = s[x + 1] /\ t[(x + 2) + 2] = s[x + 2]
              /\ t[(x + 3) + 2] = s[x + 3]
          BY <3>4, <5>1
        <5> QED
          BY <4>2, <5>1, <5>2 DEF StandsAt
      <4> QED
        BY <3>3, <4>1, <4>2 DEF StandsAt
    <3>6. x + 2 < m + 2
      BY <1>4, <3>2, <3>3
    <3> QED
      BY <3>2, <3>5, <3>6
  <2> QED
    BY <2>1, <2>2
<1> HIDE DEF q, c, d, e
<1>11. Marks(q, t, name)
  BY <1>6, <1>8, <1>10 DEF Marks, n
<1> QED
  BY <1>6, <1>11 DEF Spells

(* ------------------------------------------------------- reading a name -- *)

(* F[i] is what is read of s from i on. *)
ReadAt(F, s, i) ==
    IF i > Len(s) THEN <<>>
    ELSE IF EscapeAt(s, i)
         THEN <<CharOf(Folded(SubSeq(s, i + 1, i + 2)))>> \o F[i + 3]
         ELSE <<s[i]>> \o F[i + 1]

Reads(F, s) == \A i \in 1..Len(s) + 1 : F[i] = ReadAt(F, s, i)

(* The recursion of DecodeSegment is well-founded: it reads every name. *)
LEMMA DecodeFacts ==
    ASSUME NEW S, NEW s \in Seq(S)
    PROVE  \E F : Reads(F, s) /\ DecodeSegment(s) = F[1]
<1> DEFINE m == Len(s)
           Onward(k) == (m + 1 - k)..(m + 1)
           Good(F, k) == F = [i \in Onward(k) |-> F[i]] /\ \A i \in Onward(k) : F[i] = ReadAt(F, s, i)
           T == {k \in 0..m : \E F : Good(F, k)}
<1>1. m \in Nat
  OBVIOUS
<1> HIDE DEF m
<1>2. ASSUME NEW i \in Nat, NEW F, NEW G, i \in 1..(m + 1), \A j \in (i + 1)..(m + 1) : F[j] = G[j]
      PROVE  ReadAt(F, s, i) = ReadAt(G, s, i)
  <2>1. CASE i > Len(s)
    BY <2>1 DEF ReadAt
  <2>2. CASE ~(i > Len(s)) /\ EscapeAt(s, i)
    <3>1. i + 3 \in (i + 1)..(m + 1)
      BY <1>1, <2>2 DEF EscapeAt, m
    <3> QED
      BY <1>2, <2>2, <3>1 DEF ReadAt
  <2>3. CASE ~(i > Len(s)) /\ ~EscapeAt(s, i)
    <3>1. i + 1 \in (i + 1)..(m + 1)
      BY <1>1, <1>2, <2>3 DEF m
    <3> QED
      BY <1>2, <2>3, <3>1 DEF ReadAt
  <2> QED
    BY <2>1, <2>2, <2>3
<1>3. T = 0..m
  <2>1. 0 \in T
    <3> DEFINE F == [i \in Onward(0) |-> <<>>]
    <3>1. F = [i \in Onward(0) |-> F[i]] /\ \A i \in Onward(0) : F[i] = <<>>
      OBVIOUS
    <3>2. \A i \in Onward(0) : i > Len(s)
      BY <1>1 DEF m
    <3> HIDE DEF F, Onward
    <3>3. \A i \in Onward(0) : F[i] = ReadAt(F, s, i)
      BY <3>1, <3>2 DEF ReadAt
    <3>4. Good(F, 0)
      BY <3>1, <3>3
    <3>5. \E G : Good(G, 0)
      <4> HIDE DEF Good
      <4> QED
        BY <3>4
    <3> HIDE DEF Good
    <3> QED
      BY <1>1, <3>5
  <2>2. ASSUME NEW k \in 1..m, k - 1 \in T
        PROVE  k \in T
    <3>1. PICK F : Good(F, k - 1)
      BY <2>2
    <3> DEFINE i0 == m + 1 - k
               H == [i \in Onward(k) |-> IF i = i0 THEN ReadAt(F, s, i) ELSE F[i]]
    <3>2. i0 \in 1..(m + 1) /\ i0 \in Nat /\ Onward(k) = {i0} \cup Onward(k - 1) /\ i0 \notin Onward(k - 1)
          /\ \A i \in Onward(k) : i \in Nat /\ i \in 1..(m + 1) /\ (i + 1)..(m + 1) \subseteq Onward(k - 1)
      BY <1>1
    <3>3. /\ \A i \in Onward(k - 1) : F[i] = ReadAt(F, s, i)
          /\ H = [i \in Onward(k) |-> H[i]]
          /\ \A i \in Onward(k) : H[i] = IF i = i0 THEN ReadAt(F, s, i) ELSE F[i]
      BY <3>1
    <3> HIDE DEF H, i0, Onward
    <3>4. \A i \in Onward(k) : H[i] = ReadAt(H, s, i)
      <4> TAKE i \in Onward(k)
      <4>1. H[i] = ReadAt(F, s, i)
        BY <3>2, <3>3
      <4>2. \A j \in (i + 1)..(m + 1) : F[j] = H[j]
        BY <3>2, <3>3
      <4> QED
        BY <1>2, <3>2, <4>1, <4>2
    <3>5. Good(H, k)
      BY <3>3, <3>4
    <3>6. \E G : Good(G, k)
      <4> HIDE DEF Good
      <4> QED
        BY <3>5
    <3>7. k \in 0..m
      BY <1>1
    <3> HIDE DEF Good
    <3> QED
      BY <3>6, <3>7
  <2>3. T \in SUBSET (0..m)
    OBVIOUS
  <2> HIDE DEF T
  <2> QED
    BY <1>1, <2>1, <2>2, <2>3, UpTo
<1>4. PICK F : Good(F, m)
  <2>1. m \in 0..m
    BY <1>1
  <2>2. m \in T
    <3> HIDE DEF T
    <3> QED
      BY <1>3, <2>1
  <2> HIDE DEF Good
  <2> QED
    BY <2>2
<1>5. F = [i \in 1..m + 1 |-> F[i]] /\ \A i \in 1..m + 1 : F[i] = ReadAt(F, s, i)
  <2>1. Onward(m) = 1..(m + 1)
    BY <1>1
  <2> HIDE DEF Onward
  <2> QED
    BY <1>4, <2>1
<1> DEFINE from == CHOOSE from : from = [i \in 1..m + 1 |->
                IF i > Len(s) THEN <<>>
                ELSE IF EscapeAt(s, i)
                     THEN <<CharOf(Folded(SubSeq(s, i + 1, i + 2)))>> \o from[i + 3]
                     ELSE <<s[i]>> \o from[i + 1]]
<1>6. from = [i \in 1..m + 1 |->
                IF i > Len(s) THEN <<>>
                ELSE IF EscapeAt(s, i)
                     THEN <<CharOf(Folded(SubSeq(s, i + 1, i + 2)))>> \o from[i + 3]
                     ELSE <<s[i]>> \o from[i + 1]]
  <2>1. F = [i \in 1..m + 1 |->
                IF i > Len(s) THEN <<>>
                ELSE IF EscapeAt(s, i)
                     THEN <<CharOf(Folded(SubSeq(s, i + 1, i + 2)))>> \o F[i + 3]
                     ELSE <<s[i]>> \o F[i + 1]]
    BY <1>5 DEF ReadAt
  <2> QED
    BY <2>1
<1>7. DecodeSegment(s) = from[1]
  BY DEF DecodeSegment, m
<1> HIDE DEF from
<1>8. Reads(from, s)
  BY <1>6 DEF Reads, ReadAt, m
<1> QED
  BY <1>7, <1>8

(* What is written as a name is read as that name. *)
LEMMA SpelledReadsBack ==
    ASSUME NEW S, Codes \subseteq S, NEW name \in Seq(S), NEW s, Spells(s, name, S)
    PROVE  DecodeSegment(s) = name
<1> DEFINE n == Len(name)
           m == Len(s)
<1>1. PICK p : Marks(p, s, name)
  BY DEF Spells
<1>2. /\ s \in Seq(S) /\ m \in Nat /\ n \in Nat
      /\ p \in [0..n -> 0..m] /\ p[0] = 0 /\ p[n] = m
      /\ \A i \in 1..n : p[i - 1] < m /\ StandsAt(s, name[i], p[i - 1], p[i])
  BY <1>1 DEF Spells, Marks
<1>3. PICK F : Reads(F, s) /\ DecodeSegment(s) = F[1]
  BY <1>2, DecodeFacts
<1>4. \A i \in 1..m + 1 : F[i] = ReadAt(F, s, i)
  BY <1>3 DEF Reads
<1> DEFINE T == {i \in 0..n : F[p[i] + 1] = SubSeq(name, i + 1, n)}
<1>5. n \in T
  <2>1. m + 1 \in 1..m + 1 /\ m + 1 > m
    BY <1>2
  <2>2. F[m + 1] = <<>>
    BY <1>4, <2>1 DEF ReadAt
  <2>3. SubSeq(name, n + 1, n) = <<>>
    BY <1>2, SubSeqEmpty
  <2>4. n \in 0..n
    BY <1>2
  <2> HIDE DEF m, n
  <2> QED
    BY <1>2, <2>2, <2>3, <2>4
<1>6. ASSUME NEW i \in 1..n, i \in T
      PROVE  i - 1 \in T
  <2> DEFINE x == p[i - 1]
             y == p[i]
             c == name[i]
             rest == SubSeq(name, i + 1, n)
  <2>1. i - 1 \in 0..n /\ i \in 0..n /\ (i - 1) + 1 = i
    BY <1>2
  <2>2. x \in 0..m /\ y \in 0..m /\ x < m /\ StandsAt(s, c, x, y) /\ F[y + 1] = rest
    BY <1>2, <1>6, <2>1
  <2>3. SubSeq(name, i, n) = <<c>> \o rest
    <3>1. n \in i..n
      BY <1>2
    <3> QED
      BY <3>1, SubSeqRecursiveFirst
  <2> HIDE DEF x, y, c, rest, n
  <2>4. x + 1 \in 1..m + 1 /\ ~(x + 1 > m)
    <3> HIDE DEF m
    <3> QED
      BY <1>2, <2>2
  <2>5. F[x + 1] = ReadAt(F, s, x + 1)
    BY <1>4, <2>4
  <2>6. F[x + 1] = <<c>> \o F[y + 1]
    <3>1. CASE y = x + 1 /\ c # "%" /\ s[x + 1] = c
      <4>1. ~EscapeAt(s, x + 1)
        BY <3>1 DEF EscapeAt
      <4>2. F[x + 1] = <<s[x + 1]>> \o F[(x + 1) + 1]
        BY <2>4, <2>5, <4>1 DEF ReadAt
      <4> QED
        BY <3>1, <4>2
    <3>2. CASE /\ y = x + 3 /\ c \in DOMAIN Digits
               /\ s[x + 1] = "%" /\ s[x + 2] = Digits[c][1] /\ s[x + 3] = Digits[c][2]
      <4> DEFINE d == Digits[c][1]
                 e == Digits[c][2]
      <4>1. s[x + 2] = d /\ s[x + 3] = e /\ Folded(<<d, e>>) = Digits[c]
        BY <3>2, PctFacts
      <4> HIDE DEF d, e
      <4>2. /\ (x + 1) + 1 = x + 2 /\ (x + 1) + 2 = x + 3 /\ (x + 1) + 3 = y + 1
            /\ x + 3 <= m /\ x + 2 \in 1..m /\ x + 3 \in 1..m
        <5> HIDE DEF m
        <5> QED
          BY <1>2, <2>2, <3>2
      <4>3. SubSeq(s, x + 2, x + 3) = <<d, e>>
        <5>1. x + 3 \in (x + 2)..m /\ x + 2 \in (x + 2)..m /\ (x + 2) + 1 = x + 3 /\ (x + 3) + 1 = x + 4
              /\ (x + 3) - 1 = x + 2 /\ x + 2 \in Int /\ x + 3 \in Int
          BY <2>2, <4>2
        <5>2. \A i1 \in (x + 2)..(x + 3) : s[i1] \in S
          <6>1. \A i1 \in (x + 2)..(x + 3) : i1 \in 1..m
            BY <2>2, <4>2
          <6> QED
            BY <1>2, <6>1
        <5> DEFINE v == SubSeq(s, x + 2, x + 3)
        <5>3. /\ v \in Seq(S) /\ Len(v) = IF x + 2 <= x + 3 THEN (x + 3) - (x + 2) + 1 ELSE 0
              /\ \A j \in 1..((x + 3) - (x + 2) + 1) : v[j] = s[x + 2 + j - 1]
          BY <5>1, <5>2, SubSeqProperties
        <5> HIDE DEF v
        <5>4. (x + 3) - (x + 2) + 1 = 2 /\ x + 2 <= x + 3 /\ x + 2 + 1 - 1 = x + 2 /\ x + 2 + 2 - 1 = x + 3
          BY <2>2
        <5>5. v \in Seq(S) /\ Len(v) = 2 /\ v[1] = s[x + 2] /\ v[2] = s[x + 3]
          <6>1. 1 \in 1..2 /\ 2 \in 1..2
            OBVIOUS
          <6> QED
            BY <5>3, <5>4, <6>1
        <5>6. v = <<d, e>>
          BY <4>1, <5>5
        <5> QED
          BY <5>6 DEF v
      <4>4. Folded(SubSeq(s, (x + 1) + 1, (x + 1) + 2)) = Digits[c]
        BY <4>1, <4>2, <4>3
      <4>5. EscapeAt(s, x + 1)
        BY <3>2, <4>2, <4>4 DEF EscapeAt
      <4>6. CharOf(Digits[c]) = c
        BY <3>2, PathNamesAssumption DEF CharOf, IsInjective
      <4>7. F[x + 1] = <<CharOf(Folded(SubSeq(s, (x + 1) + 1, (x + 1) + 2)))>> \o F[(x + 1) + 3]
        BY <2>4, <2>5, <4>5 DEF ReadAt
      <4> QED
        BY <4>2, <4>4, <4>6, <4>7
    <3> QED
      BY <2>2, <3>1, <3>2 DEF StandsAt
  <2>7. F[x + 1] = SubSeq(name, (i - 1) + 1, n)
    BY <2>1, <2>2, <2>3, <2>6
  <2> QED
    BY <2>1, <2>7 DEF x
<1>7. 0 \in T
  <2>1. T \in SUBSET (0..n) /\ 0 \in 0..n
    BY <1>2
  <2> HIDE DEF T, n
  <2> QED
    BY <1>2, <1>5, <1>6, <2>1, DownTo
<1>8. F[1] = SubSeq(name, 1, n)
  BY <1>2, <1>7
<1> QED
  BY <1>3, <1>8, SubSeqFull

(* encode_segment is reversible: every name that is not cut is read back   *)
(* from the bundle as it was on the machine, whatever its characters.      *)
THEOREM EncodedReadsBack ==
    ASSUME NEW S, NEW name \in Seq(S),
           Len(NoDevice(KeepEnd(Escaped(name)))) <= LongName
    PROVE  DecodeSegment(EncodeSegment(name)) = name
<1> DEFINE R == S \cup Codes
           s == NoDevice(KeepEnd(Escaped(name)))
<1>1. name \in Seq(R) /\ Codes \subseteq R
  BY SeqMonotonic
<1> HIDE DEF R
<1>2. Spells(s, name, R)
  BY <1>1, EscapedSpells, KeepEndSpells, NoDeviceSpells
<1>3. EncodeSegment(name) = s
  <2>1. Len(s) \in Nat /\ LongName \in Nat
    BY <1>2, PathNamesAssumption DEF Spells
  <2> HIDE DEF s
  <2>2. Short(s, name) = s
    BY <2>1 DEF Short, s
  <2> QED
    BY <2>2 DEF EncodeSegment, s
<1> HIDE DEF s
<1> QED
  BY <1>1, <1>2, <1>3, SpelledReadsBack

(* Two names that are not cut are told apart by what is written of them.   *)
THEOREM EncodedApart ==
    ASSUME NEW S, NEW name \in Seq(S), NEW other \in Seq(S),
           Len(NoDevice(KeepEnd(Escaped(name)))) <= LongName,
           Len(NoDevice(KeepEnd(Escaped(other)))) <= LongName,
           EncodeSegment(name) = EncodeSegment(other)
    PROVE  name = other
<1>1. DecodeSegment(EncodeSegment(name)) = name
  BY EncodedReadsBack
<1>2. DecodeSegment(EncodeSegment(other)) = other
  BY EncodedReadsBack
<1> QED
  BY <1>1, <1>2

(* -------------------------------------------------- places in a bundle -- *)

(* A path's place when it is free, and when another path has it. *)
Plain(path) == [i \in DOMAIN Segments(path) |-> EncodeSegment(Segments(path)[i])]
Tagged(path) == Front(Plain(path)) \o <<Last(Plain(path)) \o <<"~", Tag(path)>>>>

(* No name on the machine ends in "~" and the hash of another path, and no *)
(* two paths have one hash.                                                *)
TagsAreTheirs ==
    \A e, f \in entries :
        FoldedPath(Tagged(e.path)) \in {FoldedPath(Plain(f.path)), FoldedPath(Tagged(f.path))}
        => e = f

(* A drive is a capital letter, which is written as it is. *)
IsDrive(drive) == drive \in Letters /\ CapitalOf(drive) = drive /\ EncodeSegment(<<drive>>) = <<drive>>

(* A path that begins on a drive, or with a name that looks neither like a *)
(* drive nor like what a collecting tool puts above a tree.                *)
Ordinary(path) ==
    /\ IsPath(path) /\ path.names # <<>>
    /\ \A i \in DOMAIN path.names : IsTuple(path.names[i])
    /\ Folded(Plain(path)[1]) \notin Containers
    /\ \/ path.drive = "" /\ ~IsDriveName(Plain(path)[1])
       \/ path.drive \notin {"", "//"} /\ IsDrive(path.drive)

PathsAreOrdinary == \A e \in entries : Ordinary(e.path)

(* What is written of a name is a sequence, and one that was cut shows it. *)
LEMMA EncodedFacts ==
    ASSUME NEW name, IsTuple(name)
    PROVE  /\ \E S : EncodeSegment(name) \in Seq(S)
           /\ ~Contains(EncodeSegment(name), "~") => DecodeSegment(EncodeSegment(name)) = name
<1> DEFINE R == Range(name) \cup Codes
           s == NoDevice(KeepEnd(Escaped(name)))
           end == <<"~", Tag(name)>>
           T == R \cup {"~", Tag(name)}
<1>1. name \in Seq(Range(name)) /\ name \in Seq(R) /\ Codes \subseteq R
  <2>1. name \in Seq(Range(name))
    BY DEF IsTuple
  <2> QED
    BY <2>1, SeqMonotonic
<1> HIDE DEF R
<1>2. Spells(s, name, R)
  BY <1>1, EscapedSpells, KeepEndSpells, NoDeviceSpells
<1>3. s \in Seq(R) /\ Len(s) \in Nat /\ s \in Seq(T) /\ end \in Seq(T) /\ end[1] = "~" /\ Len(end) = 2
  <2>1. s \in Seq(R)
    BY <1>2 DEF Spells
  <2>2. R \subseteq T
    OBVIOUS
  <2> HIDE DEF s
  <2>3. s \in Seq(T)
    <3> HIDE DEF T
    <3> QED
      BY <2>1, <2>2, SeqMonotonic
  <2> QED
    BY <2>1, <2>3
<1>4. LongName \in Nat /\ CutName \in 0..LongName
  BY PathNamesAssumption
<1> DEFINE cut == SubSeq(s, 1, CutName)
<1>5. EncodeSegment(name) = IF Len(s) > LongName THEN cut \o end ELSE s
  BY DEF EncodeSegment, Short
<1>6. CASE ~(Len(s) > LongName)
  <2>1. Len(s) <= LongName
    <3> HIDE DEF s
    <3> QED
      BY <1>3, <1>4, <1>6
  <2>2. DecodeSegment(EncodeSegment(name)) = name
    BY <1>1, <2>1, EncodedReadsBack
  <2>3. EncodeSegment(name) \in Seq(T)
    BY <1>3, <1>5, <1>6
  <2> QED
    BY <2>2, <2>3
<1>7. CASE Len(s) > LongName
  <2> HIDE DEF s, end
  <2>1. cut \in Seq(T) /\ Len(cut) \in Nat
    <3>1. \A i \in 1..CutName : s[i] \in T
      <4>1. \A i \in 1..CutName : i \in 1..Len(s)
        BY <1>3, <1>4, <1>7
      <4> HIDE DEF T
      <4> QED
        BY <1>3, <4>1
    <3> HIDE DEF T
    <3>2. cut \in Seq(T)
      BY <1>4, <3>1, SubSeqProperties
    <3> QED
      BY <3>2
  <2> HIDE DEF cut, T
  <2>2. cut \o end \in Seq(T) /\ Len(cut \o end) = Len(cut) + 2 /\ (cut \o end)[Len(cut) + 1] = "~"
    <3>1. /\ cut \o end \in Seq(T) /\ Len(cut \o end) = Len(cut) + Len(end)
          /\ \A j \in 1..Len(end) : (cut \o end)[Len(cut) + j] = end[j]
      <4>1. cut \in Seq(T) /\ end \in Seq(T)
        BY <1>3, <2>1
      <4> QED
        BY ONLY <4>1, Joined
    <3> QED
      BY <1>3, <3>1
  <2>3. Len(cut) + 1 \in 1..Len(cut \o end)
    BY <2>1, <2>2
  <2>4. Contains(cut \o end, "~")
    BY <2>2, <2>3 DEF Contains
  <2> QED
    BY <1>5, <1>7, <2>2, <2>4
<1> QED
  BY <1>6, <1>7

(* Where a drive stands in a path, and the names behind it. *)
LEMMA PlainFacts ==
    ASSUME NEW path, Ordinary(path)
    PROVE  LET d == IF path.drive = "" THEN 0 ELSE 1
           IN  /\ Len(path.names) \in Nat \ {0}
               /\ DOMAIN Plain(path) = 1..(Len(path.names) + d)
               /\ \A i \in 1..Len(path.names) : Plain(path)[i + d] = EncodeSegment(path.names[i])
               /\ d = 1 => Plain(path)[1] = <<path.drive>>
               /\ \E S : Plain(path) \in Seq(S)
<1> DEFINE names == path.names
           n == Len(names)
           d == IF path.drive = "" THEN 0 ELSE 1
           segs == Segments(path)
           P == Plain(path)
<1>1. names \in Seq(Range(names)) /\ n \in Nat \ {0} /\ DOMAIN names = 1..n
  <2>1. names \in Seq(Range(names)) /\ names # <<>>
    BY DEF Ordinary, IsPath, IsTuple
  <2> HIDE DEF names
  <2> QED
    BY <2>1
<1>2. DOMAIN segs = 1..(n + d) /\ (\A i \in 1..n : segs[i + d] = names[i])
      /\ (d = 1 => segs[1] = <<path.drive>>)
  <2>1. CASE path.drive = ""
    <3>1. segs = names /\ d = 0
      BY <2>1 DEF Segments
    <3> HIDE DEF segs, names, d
    <3> QED
      BY <1>1, <3>1
  <2>2. CASE path.drive # ""
    <3> DEFINE S == Range(names) \cup {<<path.drive>>}
               one == <<<<path.drive>>>>
    <3>1. path.drive # "//" /\ CapitalOf(path.drive) = path.drive
      BY <2>2 DEF Ordinary, IsDrive
    <3>2. segs = one \o names /\ d = 1
      BY <2>2, <3>1 DEF Segments
    <3>3. one \in Seq(S) /\ Len(one) = 1 /\ one[1] = <<path.drive>>
      OBVIOUS
    <3>4. names \in Seq(S)
      BY <1>1, SeqMonotonic
    <3> HIDE DEF segs, names, d, S, one
    <3>5. /\ one \o names \in Seq(S) /\ Len(one \o names) = Len(one) + Len(names)
          /\ \A j \in 1..Len(one) : (one \o names)[j] = one[j]
          /\ \A j \in 1..Len(names) : (one \o names)[Len(one) + j] = names[j]
      <4>1. one \in Seq(S) /\ names \in Seq(S)
        BY <3>3, <3>4
      <4> QED
        BY ONLY <4>1, Joined
    <3>6. DOMAIN segs = 1..(1 + n) /\ segs[1] = <<path.drive>>
      BY <3>2, <3>3, <3>5
    <3>7. \A i \in 1..n : segs[i + 1] = names[i]
      <4> TAKE i \in 1..n
      <4>1. i + 1 = 1 + i
        BY <1>1
      <4> QED
        BY <3>2, <3>3, <3>5, <4>1
    <3>8. 1 + n = n + 1
      BY <1>1
    <3> QED
      BY <3>2, <3>6, <3>7, <3>8
  <2> QED
    BY <2>1, <2>2
<1>3. P = [i \in DOMAIN segs |-> EncodeSegment(segs[i])]
  BY DEF Plain
<1>4. d \in {0, 1}
  OBVIOUS
<1> HIDE DEF P, segs, n, d
<1>5. DOMAIN P = 1..(n + d)
  BY <1>2, <1>3
<1>6. \A i \in 1..n : P[i + d] = EncodeSegment(names[i])
  <2> TAKE i \in 1..n
  <2>1. i + d \in 1..(n + d)
    BY <1>1, <1>4
  <2> QED
    BY <1>2, <1>3, <2>1
<1>7. d = 1 => P[1] = <<path.drive>>
  <2> SUFFICES ASSUME d = 1 PROVE P[1] = <<path.drive>>
    OBVIOUS
  <2>1. 1 \in DOMAIN segs
    BY <1>1, <1>2
  <2>2. EncodeSegment(<<path.drive>>) = <<path.drive>>
    <3>1. path.drive # ""
      <4>1. path.drive = "" => d = 0
        BY DEF d
      <4>2. 0 # 1
        OBVIOUS
      <4> QED
        BY <4>1, <4>2
    <3> QED
      BY <3>1 DEF Ordinary, IsDrive
  <2> QED
    BY <1>2, <1>3, <2>1, <2>2
<1>8. P \in Seq(Range(P))
  <2>1. n + d \in Nat /\ P = [i \in 1..(n + d) |-> P[i]] /\ \A i \in 1..(n + d) : P[i] \in Range(P)
    BY <1>1, <1>3, <1>4, <1>5 DEF Range
  <2> QED
    BY <2>1
<1> QED
  BY <1>1, <1>5, <1>6, <1>7, <1>8 DEF n, d, P

(* The place of an ordinary path is read back as that path.                *)
LEMMA PlainReadsBack ==
    ASSUME NEW path, Ordinary(path), \A i \in DOMAIN Plain(path) : ~Contains(Plain(path)[i], "~")
    PROVE  OriginalPath(Plain(path), FALSE) = path
<1> DEFINE names == path.names
           n == Len(names)
           d == IF path.drive = "" THEN 0 ELSE 1
           P == Plain(path)
<1>1. /\ n \in Nat \ {0} /\ d \in {0, 1} /\ DOMAIN P = 1..(n + d)
      /\ \A i \in 1..n : P[i + d] = EncodeSegment(names[i])
      /\ d = 1 => P[1] = <<path.drive>>
      /\ \E S : P \in Seq(S)
  BY PlainFacts
<1>2. PICK S : P \in Seq(S)
  BY <1>1
<1>3. /\ path = Path(path.drive, names) /\ names = [i \in 1..n |-> names[i]]
      /\ \A i \in 1..n : IsTuple(names[i])
  <2>1. names \in Seq(Range(names)) /\ path = Path(path.drive, names)
    BY DEF Ordinary, IsPath, IsTuple
  <2>2. DOMAIN names = 1..n
    <3> HIDE DEF names
    <3> QED
      BY <2>1
  <2>3. \A i \in DOMAIN names : IsTuple(names[i])
    BY DEF Ordinary
  <2> HIDE DEF n
  <2>4. names = [i \in 1..n |-> names[i]]
    <3> HIDE DEF names
    <3> QED
      BY <2>1, <2>2
  <2> QED
    BY <2>1, <2>2, <2>3, <2>4
<1>4. Folded(P[1]) \notin Containers
  BY DEF Ordinary
<1>5. \A i \in DOMAIN P : ~Contains(P[i], "~")
  OBVIOUS
<1> HIDE DEF P, n, d
<1>6. Len(P) = n + d /\ n + d \in Nat \ {0} /\ 1 \in 1..(n + d)
  <2>1. n + d \in Nat \ {0} /\ 1 \in 1..(n + d)
    BY <1>1
  <2>2. Len(P) \in Nat /\ 1..Len(P) = 1..(n + d)
    BY <1>1, <1>2
  <2>3. Len(P) = n + d
    BY <2>1, <2>2
  <2> QED
    BY <2>1, <2>3
<1>7. Below(P) = P
  <2> DEFINE Top(k) == /\ \A i \in 1..k : Folded(P[i]) \in Containers
                       /\ k < Len(P) => Folded(P[k + 1]) \notin Containers
  <2>1. Top(0) /\ 0 \in 0..Len(P)
    BY <1>4, <1>6
  <2>2. ASSUME NEW k \in 0..Len(P), Top(k)
        PROVE  k = 0
    <3>1. k # 0 => 1 \in 1..k
      BY <1>6
    <3> QED
      BY <1>4, <2>2, <3>1
  <2> DEFINE top == CHOOSE k \in 0..Len(P) : Top(k)
  <2>3. top = 0
    <3> HIDE DEF Top
    <3> QED
      BY <2>1, <2>2
  <2>4. Below(P) = SubSeq(P, top + 1, Len(P))
    BY DEF Below
  <2> HIDE DEF top
  <2>5. SubSeq(P, 1, Len(P)) = P
    BY <1>2, SubSeqFull
  <2> QED
    BY <2>3, <2>4, <2>5
<1>8. \A i \in 1..n : DecodeSegment(P[i + d]) = names[i]
  <2> TAKE i \in 1..n
  <2>1. i + d \in DOMAIN P
    BY <1>1
  <2>2. ~Contains(EncodeSegment(names[i]), "~")
    BY <1>1, <1>5, <2>1
  <2> QED
    BY <1>1, <1>3, <2>2, EncodedFacts
<1> DEFINE driven == P # <<>> /\ IsDriveName(Head(P))
           rest == IF driven THEN Tail(P) ELSE P
           drive == CASE driven -> CapitalOf(Head(P)[1])
                      [] ~driven /\ FALSE -> "~"
                      [] OTHER -> ""
<1>9. OriginalPath(P, FALSE) = Path(drive, [i \in DOMAIN rest |-> DecodeSegment(rest[i])])
  BY <1>7 DEF OriginalPath
<1>10. Head(P) = P[1] /\ P # <<>>
  BY <1>2, <1>6
<1>11. drive = path.drive /\ DOMAIN rest = 1..n /\ \A i \in 1..n : rest[i] = P[i + d]
  <2>1. CASE path.drive = ""
    <3>1. ~IsDriveName(P[1])
      BY <2>1 DEF Ordinary, IsDrive, P, Letters
    <3>2. ~driven
      BY <1>10, <3>1
    <3>3. rest = P /\ drive = ""
      BY <3>2
    <3>4. d = 0
      BY <2>1 DEF d
    <3> HIDE DEF rest, drive, driven
    <3>5. n + d = n /\ \A i \in 1..n : i + d = i
      BY <1>1, <3>4
    <3> QED
      BY <1>1, <2>1, <3>3, <3>5
  <2>2. CASE path.drive # ""
    <3>1. IsDrive(path.drive) /\ d = 1
      BY <2>2 DEF Ordinary, d
    <3> DEFINE one == <<path.drive>>
    <3>2. P[1] = one
      BY <1>1, <3>1
    <3>3. one # <<>> /\ Head(one) = path.drive /\ Tail(one) = <<>> /\ one[1] = path.drive
      OBVIOUS
    <3> HIDE DEF one
    <3>4. IsDriveName(P[1])
      BY <3>1, <3>2, <3>3 DEF IsDriveName, IsDrive
    <3>5. driven
      BY <1>10, <3>4
    <3>6. rest = Tail(P) /\ drive = CapitalOf(Head(P)[1])
      BY <3>5
    <3>7. drive = path.drive
      BY <1>10, <3>1, <3>2, <3>3, <3>6 DEF IsDrive
    <3>8. d = 1
      BY <3>1
    <3> HIDE DEF rest, drive, driven
    <3>9. rest \in Seq(S) /\ Len(rest) = Len(P) - 1 /\ \A i \in 1..Len(rest) : rest[i] = P[i + 1]
      BY <1>2, <1>10, <3>6, HeadTailProperties
    <3>10. Len(rest) = n
      BY <1>1, <1>6, <3>8, <3>9
    <3> QED
      BY <3>7, <3>8, <3>9, <3>10
  <2> QED
    BY <2>1, <2>2
<1> HIDE DEF rest, drive, driven
<1>12. [i \in DOMAIN rest |-> DecodeSegment(rest[i])] = names
  <2>1. \A i \in 1..n : DecodeSegment(rest[i]) = names[i]
    BY <1>8, <1>11
  <2> HIDE DEF names
  <2> QED
    BY <1>3, <1>11, <2>1
<1> QED
  BY <1>3, <1>9, <1>11, <1>12 DEF P

(* A place with a hash shows it.                                           *)
LEMMA TaggedShows ==
    ASSUME NEW path, Ordinary(path)
    PROVE  \E i \in DOMAIN Tagged(path) : Contains(Tagged(path)[i], "~")
<1> DEFINE P == Plain(path)
           n == Len(path.names)
           d == IF path.drive = "" THEN 0 ELSE 1
           m == n + d
           last == P[m]
           end == <<"~", Tag(path)>>
           new == last \o end
           T == Tagged(path)
<1>1. /\ n \in Nat \ {0} /\ d \in {0, 1} /\ DOMAIN P = 1..(n + d)
      /\ \A i \in 1..n : P[i + d] = EncodeSegment(path.names[i])
      /\ \E S : P \in Seq(S)
  BY PlainFacts
<1>2. PICK S : P \in Seq(S)
  BY <1>1
<1>3. \E R : last \in Seq(R)
  <2>1. n \in 1..n
    <3> HIDE DEF n, d
    <3> QED
      BY <1>1
  <2>2. last = EncodeSegment(path.names[n])
    BY <1>1, <2>1
  <2>3. IsTuple(path.names[n])
    <3>1. path.names \in Seq(Range(path.names))
      BY DEF Ordinary, IsPath, IsTuple
    <3>2. n \in DOMAIN path.names
      BY <2>1, <3>1
    <3> QED
      BY <3>2 DEF Ordinary
  <2> HIDE DEF n, d, P
  <2> QED
    BY <2>2, <2>3, EncodedFacts
<1>4. PICK R : last \in Seq(R)
  BY <1>3
<1>5. T = Front(P) \o <<Last(P) \o end>>
  BY DEF Tagged
<1> HIDE DEF P, n, d, T
<1>6. m \in Nat \ {0} /\ Len(P) = m
  <2>1. n + d \in Nat \ {0} /\ 1 \in 1..(n + d)
    BY <1>1
  <2>2. Len(P) \in Nat /\ 1..Len(P) = 1..(n + d)
    BY <1>1, <1>2
  <2>3. Len(P) = n + d
    BY <2>1, <2>2
  <2> QED
    BY <2>1, <2>3
<1> HIDE DEF m
<1>7. Last(P) = last
  BY <1>6 DEF Last
<1>8. Front(P) \in Seq(S) /\ Len(Front(P)) = m - 1
  BY <1>2, <1>6 DEF Front
<1>9. Contains(new, "~")
  <2> DEFINE Q == R \cup {"~", Tag(path)}
  <2>1. last \in Seq(Q) /\ Len(last) \in Nat
    BY <1>4, SeqMonotonic
  <2>2. end \in Seq(Q) /\ Len(end) = 2 /\ end[1] = "~"
    OBVIOUS
  <2> HIDE DEF Q, last, end
  <2>3. /\ new \in Seq(Q) /\ Len(new) = Len(last) + Len(end)
        /\ \A j \in 1..Len(end) : new[Len(last) + j] = end[j]
    <3>1. last \in Seq(Q) /\ end \in Seq(Q)
      BY <2>1, <2>2
    <3> QED
      BY ONLY <3>1, Joined DEF new
  <2>4. Len(last) + 1 \in 1..Len(new) /\ new[Len(last) + 1] = "~"
    <3> HIDE DEF new
    <3> QED
      BY <2>1, <2>2, <2>3
  <2> HIDE DEF new
  <2> QED
    BY <2>4 DEF Contains
<1> HIDE DEF new, last, end
<1>10. m \in DOMAIN T /\ T[m] = new
  <2> DEFINE f == Front(P)
             one == <<new>>
             Q == S \cup {new}
  <2>1. f \in Seq(Q) /\ Len(f) = m - 1
    BY <1>8, SeqMonotonic
  <2>2. one \in Seq(Q) /\ Len(one) = 1 /\ one[1] = new
    OBVIOUS
  <2>3. T = f \o one
    BY <1>5, <1>7 DEF new
  <2> HIDE DEF f, one, Q
  <2>4. /\ f \o one \in Seq(Q) /\ Len(f \o one) = Len(f) + Len(one)
        /\ \A j \in 1..Len(one) : (f \o one)[Len(f) + j] = one[j]
    <3>1. f \in Seq(Q) /\ one \in Seq(Q)
      BY <2>1, <2>2
    <3> QED
      BY ONLY <3>1, Joined
  <2>5. (m - 1) + 1 = m /\ m \in 1..m
    BY <1>6
  <2> QED
    BY <1>6, <2>1, <2>2, <2>3, <2>4, <2>5
<1> QED
  BY <1>9, <1>10 DEF T

(* ---------------------------------------------- what survives, and when -- *)

NamesInv ==
    /\ \A e \in entries : e.bundle \in {Plain(e.path), Tagged(e.path)}
    /\ \A e \in entries : FoldedPath(e.bundle) \in DOMAIN used /\ used[FoldedPath(e.bundle)] = e.path
    /\ \A e, f \in entries : e.path = f.path => e = f

(* Every step keeps the names that were sealed apart.                      *)
LEMMA NamesStay ==
    ASSUME NamesInv, [Next]_vars, TagsAreTheirs'
    PROVE  NamesInv'
<1>1. ASSUME UNCHANGED <<used, entries>>
      PROVE  NamesInv'
  BY <1>1 DEF NamesInv, Plain, Tagged
<1>2. ASSUME NEW t \in DOMAIN matches, Decide(t)
      PROVE  NamesInv'
  <2> DEFINE b == BundlePath(t, used)
             new == [path |-> t, user |-> user, claims |-> matches[t],
                     primary |-> PrimaryOf(matches[t]), bundle |-> b]
  <2>1. /\ \A e \in entries : e.path # t
        /\ entries' = entries \cup {new}
        /\ used' = [k \in DOMAIN used \cup {FoldedPath(b)} |-> IF k = FoldedPath(b) THEN t ELSE used[k]]
    BY <1>2 DEF Decide
  <2>2. new.path = t /\ new.bundle = b
    OBVIOUS
  <2>3. \/ b = Plain(t) /\ (FoldedPath(b) \in DOMAIN used => used[FoldedPath(b)] = t)
        \/ b = Tagged(t)
    BY DEF BundlePath, Plain, Tagged
  <2> HIDE DEF new, b
  <2>4. ASSUME NEW e \in entries
        PROVE  FoldedPath(e.bundle) # FoldedPath(b)
    <3>1. /\ FoldedPath(e.bundle) \in DOMAIN used /\ used[FoldedPath(e.bundle)] = e.path
          /\ e.bundle \in {Plain(e.path), Tagged(e.path)} /\ e.path # t
      BY <2>1 DEF NamesInv
    <3>2. CASE b = Plain(t) /\ (FoldedPath(b) \in DOMAIN used => used[FoldedPath(b)] = t)
      BY <3>1, <3>2
    <3>3. CASE b = Tagged(t)
      <4>1. \A x, y \in entries' :
                FoldedPath(Tagged(x.path)) \in {FoldedPath(Plain(y.path)), FoldedPath(Tagged(y.path))}
                => x = y
        BY DEF TagsAreTheirs, Plain, Tagged
      <4>2. new \in entries' /\ e \in entries'
        BY <2>1
      <4>3. FoldedPath(Tagged(t)) \in {FoldedPath(Plain(e.path)), FoldedPath(Tagged(e.path))} => new = e
        BY <2>2, <4>1, <4>2
      <4> QED
        BY <2>2, <3>1, <3>3, <4>3
    <3> QED
      BY <2>3, <3>2, <3>3
  <2>5. ASSUME NEW e \in entries'
        PROVE  /\ e.bundle \in {Plain(e.path), Tagged(e.path)}
               /\ FoldedPath(e.bundle) \in DOMAIN used' /\ used'[FoldedPath(e.bundle)] = e.path
    <3>1. CASE e \in entries
      BY <2>1, <2>4, <3>1 DEF NamesInv
    <3>2. CASE e = new
      BY <2>1, <2>2, <2>3, <3>2
    <3> QED
      BY <2>1, <3>1, <3>2
  <2>6. ASSUME NEW e \in entries', NEW f \in entries', e.path = f.path
        PROVE  e = f
    BY <2>1, <2>2, <2>6 DEF NamesInv
  <2> QED
    BY <2>5, <2>6 DEF NamesInv, Plain, Tagged
<1>3. CASE \E home \in users : MatchUser(home)
  BY <1>1, <1>3 DEF MatchUser
<1>4. CASE NextUser
  BY <1>1, <1>4 DEF NextUser
<1>5. CASE UNCHANGED vars
  BY <1>1, <1>5 DEF vars
<1> QED
  BY <1>2, <1>3, <1>4, <1>5 DEF Next

(* Names kept apart and ordinary paths read back as they were.             *)
LEMMA NamesInvSurvives ==
    ASSUME NamesInv, PathsAreOrdinary
    PROVE  NamesSurvive
<1>1. NamesDistinct
  BY DEF NamesInv, NamesDistinct
<1>2. NamesReadBack
  <2> SUFFICES ASSUME NEW e \in entries, \A i \in DOMAIN e.bundle : ~Contains(e.bundle[i], "~")
               PROVE  OriginalPath(e.bundle, FALSE) = e.path
    BY DEF NamesReadBack
  <2>1. Ordinary(e.path)
    BY DEF PathsAreOrdinary
  <2>2. e.bundle # Tagged(e.path)
    BY <2>1, TaggedShows
  <2>3. e.bundle = Plain(e.path)
    BY <2>2 DEF NamesInv
  <2> QED
    BY <2>1, <2>3, PlainReadsBack
<1> QED
  BY <1>1, <1>2 DEF NamesSurvive

(* A name survives its way into the bundle, on every machine whose paths   *)
(* are ordinary and whose hashes are not forged by names: no two files     *)
(* have one place, and what was not cut or told apart by a hash is read    *)
(* back (bundle_path_for, CollectedTree.original_path).                    *)
THEOREM NamesDoSurvive == Spec /\ []PathsAreOrdinary /\ []TagsAreTheirs => []NamesSurvive
<1>1. Init => NamesInv
  BY DEF Init, NamesInv
<1>2. NamesInv /\ [Next]_vars /\ TagsAreTheirs' => NamesInv'
  BY NamesStay
<1>3. NamesInv /\ PathsAreOrdinary => NamesSurvive
  BY NamesInvSurvives
<1> QED
  BY <1>1, <1>2, <1>3, PTL DEF Spec
=============================================================================
