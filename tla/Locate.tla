------------------------------- MODULE Locate -------------------------------
(***************************************************************************)
(* Where the collector looks, what it says of the places where it does     *)
(* not, and which catalogue entry a file belongs to: once for the          *)
(* collector, which knows the patterns it searched, and once for a tree    *)
(* that is read without it (collector/collect.py expand_paths,             *)
(* iter_matches, discover_users, claim_order; ingest/match.py).            *)
(*                                                                         *)
(* A catalogue pattern is its head, a tail of segments below it and the    *)
(* variable of a "$" head.  A segment is a name or a hole behind the start *)
(* of a name ("*", "<id>", "rollout-*") or any depth ("**").  A glob is a  *)
(* drive ("?": relative) and segments.                                     *)
(***************************************************************************)
EXTENDS Naturals, FiniteSets, SequencesExt

(* ------------------------------------------------- names in a bundle -- *)
(* How the collector names a file inside a bundle, and how a tree without  *)
(* a manifest is read back (collector/collect.py encode_segment and        *)
(* bundle_path_for, ingest/tree.py).                                       *)
(*                                                                         *)
(* A name is a sequence of characters.  A path is its drive ("" without    *)
(* one, "//" before a server's share, "~" in a profile nobody names) and   *)
(* the sequence of its names.  A character stands for text: bytes that are *)
(* no UTF-8 are escaped one by one, and are not read back as they were.    *)

CONSTANTS
    Reserved,     \* the characters some file system will not hold
    Digits,       \* [characters -> the two hexadecimal digits of their code]
    Capital,      \* [small letters -> their capitals]
    Devices,      \* reserved device names, in capitals
    LongName,     \* a name longer than this is cut: 200
    CutName,      \* to this length: 190
    Tag(_),       \* the hash that follows "~": no two alike, and no name has one
    Containers    \* _ROOT_PREFIXES: names a collecting tool puts above a tree

(* What Windows strips from the end of a name. *)
Stripped == {".", " "}

ASSUME PathNamesAssumption ==
    /\ {"%"} \cup Stripped \cup Reserved \subseteq DOMAIN Digits
    /\ IsInjective(Digits)
    /\ LongName \in Nat /\ CutName \in 0..LongName

CapitalOf(c) == IF c \in DOMAIN Capital THEN Capital[c] ELSE c

(* A code is two hexadecimal digits, in capitals; a device is named by     *)
(* letters, which have a code.                                             *)
ASSUME CodesAssumption ==
    /\ \A c \in DOMAIN Digits :
          /\ Digits[c] = <<Digits[c][1], Digits[c][2]>>
          /\ \A i \in 1..2 : Digits[c][i] \notin Stripped /\ CapitalOf(Digits[c][i]) = Digits[c][i]
    /\ \A name \in Devices :
          /\ name # <<>>
          /\ \A c \in {name[1]} \cup {x \in DOMAIN Capital : Capital[x] = name[1]} :
                c # "%" /\ c \in DOMAIN Digits

Path(drive, names) == [drive |-> drive, names |-> names]

Folded(name) == [i \in DOMAIN name |-> CapitalOf(name[i])]

FoldedPath(path) == [i \in DOMAIN path |-> Folded(path[i])]

(* ------------------------------------------------------------- encoding *)

Pct(c) == <<"%">> \o Digits[c]

(* Slip: the percent sign of a real name is left as it is. *)
EscapedLoosely(name) ==
    FlattenSeq([i \in DOMAIN name |->
        IF name[i] \in Reserved \ {"%"} THEN Pct(name[i]) ELSE <<name[i]>>])

Escaped(name) ==
    FlattenSeq([i \in DOMAIN name |->
        IF name[i] \in Reserved \cup {"%"} THEN Pct(name[i]) ELSE <<name[i]>>])

KeepEnd(name) ==
    IF name # <<>> /\ Last(name) \in Stripped
    THEN Front(name) \o Pct(Last(name)) ELSE name

Stem(name) ==
    IF Contains(name, ".") THEN SubSeq(name, 1, SelectInSeq(name, LAMBDA c : c = ".") - 1)
                           ELSE name

NoDevice(name) ==
    IF Folded(Stem(name)) \in Devices THEN Pct(Head(name)) \o Tail(name) ELSE name

(* Nobody can read the original back from a cut name. *)
Short(name, original) ==
    IF Len(name) > LongName THEN SubSeq(name, 1, CutName) \o <<"~", Tag(original)>>
                            ELSE name

EncodeSegment(name) == Short(NoDevice(KeepEnd(Escaped(name))), name)

(* The names of a path inside the bundle: a drive is one more name. *)
Segments(path) ==
    CASE path.drive = "" -> path.names
      [] path.drive = "//" -> <<<<"UNC">>>> \o path.names
      [] OTHER -> <<<<CapitalOf(path.drive)>>>> \o path.names

(* Slip: two paths that differ in case are the same place. *)
BundlePathKept(path, used) == [i \in DOMAIN Segments(path) |-> EncodeSegment(Segments(path)[i])]

(* "used" holds the path behind every folded name already given: a name    *)
(* that is taken gets the hash of the path after its last segment.         *)
BundlePath(path, used) ==
    LET plain == [i \in DOMAIN Segments(path) |-> EncodeSegment(Segments(path)[i])]
        taken == FoldedPath(plain)
    IN  IF taken \in DOMAIN used /\ used[taken] # path
        THEN Front(plain) \o <<Last(plain) \o <<"~", Tag(path)>>>>
        ELSE plain

(* ------------------------------------------------------------- decoding *)

(* Is there an escape at i? Its digits may be small letters. *)
EscapeAt(name, i) ==
    /\ name[i] = "%" /\ i + 2 <= Len(name)
    /\ \E c \in DOMAIN Digits : Digits[c] = Folded(SubSeq(name, i + 1, i + 2))

CharOf(digits) == CHOOSE c \in DOMAIN Digits : Digits[c] = digits

(* _decode_segment: every escape there is, whoever wrote it. *)
DecodeSegment(name) ==
    LET from[i \in 1..Len(name) + 1] ==
            IF i > Len(name) THEN <<>>
            ELSE IF EscapeAt(name, i)
                 THEN <<CharOf(Folded(SubSeq(name, i + 1, i + 2)))>> \o from[i + 3]
                 ELSE <<name[i]>> \o from[i + 1]
    IN  from[1]

(* The names below the containers on top. *)
Below(names) ==
    LET top == CHOOSE n \in 0..Len(names) :
                  /\ \A i \in 1..n : Folded(names[i]) \in Containers
                  /\ n < Len(names) => Folded(names[n + 1]) \notin Containers
    IN  SubSeq(names, top + 1, Len(names))

Letters == DOMAIN Capital \cup Range(Capital)

(* _DRIVE_DIRECTORY: a letter, with its colon, its colon's code or neither. *)
IsDriveName(name) ==
    /\ name # <<>> /\ Head(name) \in Letters
    /\ Tail(name) \in {<<>>, <<":">>, Pct(":")}

(* CollectedTree.original_path: containers are taken off, a name of one    *)
(* letter is a drive, escapes are undone, and a profile stays nameless.    *)
OriginalPath(names, profileRooted) ==
    LET below == Below(names)
        driven == below # <<>> /\ IsDriveName(Head(below))
        rest == IF driven THEN Tail(below) ELSE below
    IN  Path(CASE driven -> CapitalOf(Head(below)[1])
               [] ~driven /\ profileRooted -> "~"
               [] OTHER -> "",
             [i \in DOMAIN rest |-> DecodeSegment(rest[i])])

(* --------------------------------------------------- a run's catalogue -- *)


CONSTANTS
    None,
    Catalogue,      \* the entries: [id, os, secret, patterns], ids in their order
    Given,          \* what runs are given: [target, root, users, env, own, fs]
    WinRelative,    \* _WIN_PLACEHOLDERS: [head -> names below a profile]
    WinAbsolute,    \* _WIN_SYSTEM_PLACEHOLDERS: [head -> path]
    XdgDefaults,    \* _XDG_DEFAULTS: [variable -> names below a profile]
    PosixOnly,      \* _POSIX_ONLY_VARIABLES
    VscodeUser,     \* _VSCODE_USER_TEMPLATES: [target -> names before the product]
    Products,       \* _VSCODE_PRODUCTS: names
    UserName,       \* the name below a product: User
    ProfileParents, \* names of directories that hold profiles
    RootHomes,      \* paths of the superuser's home
    PseudoProfiles, \* names under Users that are no users
    MinLiteral      \* the literals a relocated pattern needs to be matched: 8

(* The heads that a pattern may have. *)
Heads ==
    {"~", "<vscode-user>", "$", "${", "/", "HK", "C:", "<project>", "<plugin-root>"}
    \cup DOMAIN WinRelative \cup DOMAIN WinAbsolute

IsTuple(s) == s \in Seq(Range(s))

IsPath(path) == path = Path(path.drive, path.names) /\ IsTuple(path.names)

ASSUME CatalogueAssumption ==
    /\ \A e \in Catalogue : \A p \in e.patterns :
          p.head \in Heads /\ IsTuple(p.tail) /\ IsTuple(p.default)
    /\ \A head \in DOMAIN WinRelative : IsTuple(WinRelative[head])
    /\ \A head \in DOMAIN WinAbsolute : IsPath(WinAbsolute[head])
    /\ \A var \in DOMAIN XdgDefaults : IsTuple(XdgDefaults[var])
    /\ \A target \in DOMAIN VscodeUser : IsTuple(VscodeUser[target])
    /\ Products # {}

ASSUME GivenAssumption ==
    /\ \A g \in Given :
          /\ g.target \in DOMAIN VscodeUser /\ (g.root # None => IsPath(g.root)) /\ IsPath(g.own)
          /\ \A home \in DOMAIN g.fs.projects : \A r \in g.fs.projects[home] : IsPath(r)
    /\ \A h \in RootHomes : IsPath(h)

VARIABLES
    given,      \* what this run was given
    users,      \* the profiles not yet searched: [name, home]
    user,       \* the profile being decided, None between two
    searched,   \* [user, pattern, glob] that were expanded
    refused,    \* PATTERN_REFUSALS: [pattern, reason]
    errors,     \* what the manifest will call an error
    matches,    \* this profile's claims: [paths -> sets of <<entry, pattern>>]
    used,       \* [folded names in the bundle -> the path behind them]
    entries     \* what is decided: [path, user, claims, primary, bundle]

vars == <<given, users, user, searched, refused, errors, matches, used, entries>>

fs == given.fs

(* -------------------------------------------------------- a file system *)

At(path, name) == Path(path.drive, Append(path.names, name))

(* Where a path is when every link on the way is followed. *)
Followed(links, path) ==
    FoldLeft(LAMBDA at, name : IF At(at, name) \in DOMAIN links
                               THEN links[At(at, name)] ELSE At(at, name),
             Path(path.drive, <<>>), path.names)

Real(path) == Followed(fs.links, path)

Node(path) == At(Real(Path(path.drive, Front(path.names))), Last(path.names))

Nodes == fs.dirs \cup fs.files \cup DOMAIN fs.links

Exists(path) == path.names = <<>> \/ Node(path) \in Nodes

IsDir(path) == Real(path) \in fs.dirs

IsLink(path) == path.names # <<>> /\ Node(path) \in DOMAIN fs.links

(* The names in a directory; one that may not be listed shows none. *)
Listing(dir) ==
    IF dir \in fs.closed THEN {}
    ELSE {Last(q.names) : q \in {x \in Nodes : x.names # <<>> /\ x = At(dir, Last(x.names))}}

IsBelow(path, dir) == path.drive = dir.drive /\ IsPrefix(dir.names, path.names)

(* os.walk: the directories at and below one, entered through no link. *)
Walked(base) ==
    LET top == Real(base)
        Shut(q) == \E c \in fs.closed : c # q /\ IsBelow(c, top) /\ IsBelow(q, c)
        below == {q \in fs.dirs : IsBelow(q, top) /\ ~Shut(q)}
    IN  {Path(base.drive, base.names \o SubSeq(q.names, Len(top.names) + 1, Len(q.names))) :
            q \in below}

(* walk_regular_files: links to directories are passed over. *)
RegularFiles(base) ==
    UNION {{At(d, n) : n \in {x \in Listing(Real(d)) : ~IsDir(At(d, x))}} : d \in Walked(base)}

(* ---------------------------------------------------------- expansion *)

Is(name) == [wild |-> "", name |-> name]
AnyDepth == [wild |-> "**", name |-> <<>>]
Hole(start) == [wild |-> "*", name |-> start]

AreNames(names) == [i \in DOMAIN names |-> Is(names[i])]

Glob(path, tail) == [drive |-> path.drive, segs |-> AreNames(path.names) \o tail]

Below1(path, names) == Path(path.drive, path.names \o names)

(* environment_applies_to *)
EnvironmentAppliesAnyway(home) == given.root = None
EnvironmentAppliesTo(home) == given.root = None /\ home = given.own

Variable(var) == IF var \in DOMAIN given.env THEN given.env[var] ELSE None

Found(globs) == [globs |-> globs, said |-> {}]
Refused(reason) == [globs |-> {}, said |-> {reason}]
Silent == [globs |-> {}, said |-> {}]

(* resolve_env_prefix *)
ResolveEnv(p, home) ==
    LET mine == EnvironmentAppliesTo(home)
        value == IF mine THEN Variable(p.var) ELSE None
        default == IF p.var \in DOMAIN XdgDefaults THEN XdgDefaults[p.var] ELSE <<>>
    IN  CASE p.head = "${" ->
               Found({IF value # None THEN Glob(value, p.tail)
                                      ELSE Glob(Below1(home, p.default), p.tail)})
          [] p.head = "$" /\ p.var = "HOME" -> Found({Glob(home, p.tail)})
          [] p.head = "$" /\ p.var \in DOMAIN XdgDefaults ->
               Found({IF value # None THEN Glob(value, p.tail)
                                      ELSE Glob(Below1(home, default), p.tail)})
          [] OTHER ->
               CASE given.root # None -> Refused("environment_unreadable_offline")
                 [] given.root = None /\ ~mine -> Refused("environment_unreadable_other_user")
                 [] mine /\ value = None -> Silent
                 [] OTHER -> Found({Glob(value, p.tail)})

(* _windows_redirected: a second place, when the variable says another. *)
Redirected(p, home) ==
    LET value == Variable(p.head)
    IN  IF EnvironmentAppliesTo(home) /\ value # None
           /\ FoldedPath(value.names) # FoldedPath(home.names \o WinRelative[p.head])
        THEN {Glob(value, p.tail)} ELSE {}

(* One glob for every product. *)
VscodeGlobs(p, home) ==
    {Glob(Below1(home, VscodeUser[given.target] \o <<product, UserName>>), p.tail) :
        product \in Products}

(* Slip: on Windows every variable was another platform's spelling. *)
ExpandHeadDropping(p, home) ==
    CASE p.head = "<vscode-user>" -> Found(VscodeGlobs(p, home))
      [] p.head = "~" -> Found({Glob(home, p.tail)})
      [] p.head \in {"$", "${"} ->
           IF given.target = "windows" THEN Silent ELSE ResolveEnv(p, home)
      [] p.head = "/" -> Found({Glob(Path("", <<>>), p.tail)})
      [] OTHER -> Silent

(* What the head of a pattern stands for in this profile. *)
ExpandHead(p, home) ==
    CASE p.head = "<vscode-user>" -> Found(VscodeGlobs(p, home))
      [] p.head = "~" -> Found({Glob(home, p.tail)})
      [] p.head \in {"$", "${"} ->
           IF given.target = "windows" /\ p.var \in PosixOnly THEN Silent
                                                              ELSE ResolveEnv(p, home)
      [] p.head = "/" -> Found({Glob(Path("", <<>>), p.tail)})
      [] OTHER ->
           IF given.target # "windows" THEN Silent
           ELSE CASE p.head = "HK" -> Refused("registry_key")
                  [] p.head = "C:" -> Found({Glob(Path("C", <<>>), p.tail)})
                  [] p.head \in DOMAIN WinRelative ->
                       Found({Glob(Below1(home, WinRelative[p.head]), p.tail)}
                             \cup Redirected(p, home))
                  [] p.head \in DOMAIN WinAbsolute ->
                       Found({Glob(WinAbsolute[p.head], p.tail)})

(* Slip: a path is taken to lie under the root because it has a drive. *)
ReanchoredOnce(g) ==
    IF given.root # None /\ g.drive = ""
       /\ ~IsPrefix(AreNames(given.root.names), g.segs)
    THEN Glob(given.root, g.segs) ELSE g

(* What is not yet under the mounted root is put there. *)
Reanchored(g) ==
    IF given.root # None
       /\ ~(g.drive = given.root.drive /\ IsPrefix(AreNames(given.root.names), g.segs))
    THEN Glob(given.root, g.segs) ELSE g

IsHole(seg) == seg.wild # "" /\ seg.name = <<>>

(* The last guards: what would search everything, or nowhere known. *)
Guarded(g) ==
    CASE Len(g.segs) = (IF g.drive = "?" THEN 2 ELSE 1) /\ Last(g.segs) = Hole(<<>>) ->
            Refused("wildcard_too_broad")
      [] g.drive \in {"", "?"} /\ \A i \in DOMAIN g.segs : IsHole(g.segs[i]) ->
            Refused("wildcard_only")
      [] g.drive = "?" -> Refused("not_absolute")
      [] OTHER -> Found({g})

Together(results) ==
    [globs |-> UNION {r.globs : r \in results}, said |-> UNION {r.said : r \in results}]

ExpandPaths(p, home) ==
    LET head == ExpandHead(p, home)
    IN  IF head.said # {} THEN head
        ELSE Together({Guarded(Reanchored(g)) : g \in head.globs})

(* pattern_is_anchored, substitute_anchor *)
IsAnchored(p) == p.head \in {"<project>", "<plugin-root>"}

(* discover_project_roots: what the agent's state names, and what the      *)
(* names under its projects directory decode to, where it is a directory.  *)
ProjectRoots(home) ==
    {r \in (IF home \in DOMAIN fs.projects THEN fs.projects[home] ELSE {}) : IsDir(r)}

(* What one pattern is searched as for one profile. *)
Search(p, home) ==
    IF ~IsAnchored(p) THEN ExpandPaths(p, home)
    ELSE IF ProjectRoots(home) = {} THEN Refused("no_project_root")
    ELSE Together({Guarded(Reanchored(Glob(r, p.tail))) : r \in ProjectRoots(home)})

(* ------------------------------------------------------------ globbing *)

Covers(seg, name) ==
    IF seg.wild = "" THEN name = seg.name ELSE IsPrefix(seg.name, name)

GlobStep(bases, seg) ==
    LET dirs == {b \in bases : IsDir(b)}
    IN  CASE seg.wild = "**" -> UNION {Walked(b) : b \in dirs}
          [] seg.wild = "*" ->
               UNION {{At(b, n) : n \in {x \in Listing(Real(b)) : Covers(seg, x)}} : b \in dirs}
          [] seg.wild = "" -> {At(b, seg.name) : b \in {x \in dirs : Exists(At(x, seg.name))}}

(* iter_matches *)
IterMatches(g) == FoldLeft(GlobStep, {Path(g.drive, <<>>)}, g.segs)

(* What a match stands for: itself, or the files of a directory. *)
Targets(match) ==
    IF IsDir(match) /\ ~IsLink(match) THEN RegularFiles(match) ELSE {match}

(* --------------------------------------------------------- attribution *)

Literals(segs) == FoldLeft(LAMBDA n, seg : n + Len(seg.name), 0, segs)

(* root_rank, and _root_rank *)
RootRank(p) ==
    CASE p.head = "<project>" -> 1
      [] p.head \in {"<plugin-root>", "<vscode-user>", "$", "${"} -> 0
      [] OTHER -> 2

(* Slip: how deep a pattern goes, not how much of it is spelled. *)
SpecificityOfDepth(p) == Len(p.tail)

(* pattern_specificity: what stands below the first separator. *)
Specificity(p) ==
    CASE p.head = "${" -> Literals(AreNames(p.default)) + 1 + Literals(p.tail)
      [] p.head = "C:" -> 2 + Literals(p.tail)
      [] OTHER -> Literals(p.tail)

(* Is a claim the better one: more literals, then the better root, then    *)
(* the id.                                                                 *)
Before(a, b) ==
    \/ a.literal > b.literal
    \/ a.literal = b.literal /\ a.rank > b.rank
    \/ a.literal = b.literal /\ a.rank = b.rank /\ a.id < b.id

(* Each entry's best claim, as claim_order sorts them. *)
PrimaryOf(claims) ==
    LET keyed == {[id |-> c[1].id, literal |-> Specificity(c[2]), rank |-> RootRank(c[2])] :
                     c \in claims}
    IN  (CHOOSE a \in keyed : \A b \in keyed : a = b \/ Before(a, b)).id

(* Slip: any depth at the end of a pattern means directories. *)
FitsDirectories(segs, names) ==
    LET fits[i \in 1..Len(segs) + 1, j \in 1..Len(names) + 1] ==
            IF i > Len(segs) THEN TRUE
            ELSE IF segs[i].wild = "**"
                 THEN IF i = Len(segs) THEN j > Len(names)
                      ELSE \E k \in j..Len(names) + 1 : fits[i + 1, k]
                 ELSE /\ j <= Len(names)
                      /\ Covers([segs[i] EXCEPT !.name = Folded(@)], Folded(names[j]))
                      /\ fits[i + 1, j + 1]
    IN  fits[1, 1]

(* _tail_regex: a pattern names its place and everything below it. *)
Fits(segs, names) ==
    LET fits[i \in 1..Len(segs) + 1, j \in 1..Len(names) + 1] ==
            IF i > Len(segs) THEN TRUE
            ELSE IF segs[i].wild = "**"
                 THEN IF i = Len(segs) THEN j <= Len(names)
                      ELSE \E k \in j..Len(names) + 1 : fits[i + 1, k]
                 ELSE /\ j <= Len(names)
                      /\ Covers([segs[i] EXCEPT !.name = Folded(@)], Folded(names[j]))
                      /\ fits[i + 1, j + 1]
    IN  fits[1, 1]

(* How many names of a path are a profile directory: _PROFILE_PATTERNS. *)
ProfileDepths(path) ==
    {n \in 0..Len(path.names) :
        \/ path.drive = "~" /\ n = 0
        \/ path.drive # "~" /\ n = 2 /\ Folded(path.names[1]) \in {Folded(x) : x \in ProfileParents}
        \/ path.drive = "" /\ \E h \in RootHomes : n = Len(h.names) /\ IsPrefix(h.names, path.names)}

From(path, n) == SubSeq(path.names, n + 1, Len(path.names))

InProfile(path, segs) == \E n \in ProfileDepths(path) : Fits(segs, From(path, n))
AtAnyDepth(path, segs) == \E n \in 0..Len(path.names) : Fits(segs, From(path, n))
FromRoot(path, segs) == path.drive # "~" /\ Fits(segs, path.names)

Named(segs) == SelectSeq(segs, LAMBDA s : s.wild # "**")

(* The literals by which a pattern claims a path, for each of its regular  *)
(* expressions that does (_pattern_regexes).                               *)
ClaimedBy(p, path) ==
    CASE p.head = "<vscode-user>" ->
           {Literals(segs) : segs \in
               {s \in {AreNames(VscodeUser[t] \o <<product, UserName>>) \o p.tail :
                          t \in DOMAIN VscodeUser, product \in Products} : InProfile(path, s)}}
      [] p.head \in DOMAIN WinRelative ->
           LET segs == AreNames(WinRelative[p.head]) \o p.tail
           IN  IF InProfile(path, segs) THEN {Literals(segs)} ELSE {}
      [] p.head \in DOMAIN WinAbsolute ->
           IF FromRoot(path, AreNames(WinAbsolute[p.head].names) \o p.tail)
           THEN {Literals(p.tail)} ELSE {}
      [] p.head = "~" -> IF InProfile(path, p.tail) THEN {Literals(p.tail)} ELSE {}
      [] p.head \in {"/", "C:"} -> IF FromRoot(path, p.tail) THEN {Literals(p.tail)} ELSE {}
      [] IsAnchored(p) ->
           IF /\ Literals(p.tail) # 0
              /\ ~(Len(Named(p.tail)) = 1 /\ IsHole(Named(p.tail)[1]))
              /\ AtAnyDepth(path, p.tail)
           THEN {Literals(p.tail)} ELSE {}
      [] p.head = "$" ->
           IF Len(Named(p.tail)) >= 2 /\ Literals(p.tail) >= MinLiteral
              /\ AtAnyDepth(path, p.tail)
           THEN {Literals(p.tail)} ELSE {}
      [] OTHER -> {}

(* Matcher.matches: the claims on a path, by nothing but the path. *)
Matches(path) ==
    UNION {UNION {{[id |-> e.id, literal |-> n, rank |-> RootRank(p)] :
                      n \in ClaimedBy(p, path)} : p \in e.patterns} : e \in Catalogue}

(* Matcher.best *)
Best(path) ==
    LET claims == Matches(path)
    IN  IF claims = {} THEN None
        ELSE (CHOOSE a \in claims : \A b \in claims : a = b \/ Before(a, b)).id

(* ----------------------------------------------------------- one run *)

(* discover_users: the profiles under their usual parents, and the links   *)
(* among them, which are not followed.                                     *)
Base == IF given.root = None THEN Path("", <<>>) ELSE given.root

Parents == {At(Base, n) : n \in {x \in ProfileParents : IsDir(At(Base, x))}}

UnderParents ==
    UNION {{At(d, n) : n \in {x \in Listing(Real(d)) : IsDir(At(d, x))}} : d \in Parents}

Linked == {h \in UnderParents : IsLink(h) /\ Last(h.names) \notin PseudoProfiles}

Profiles ==
    {h \in UnderParents : ~IsLink(h) /\ Last(h.names) \notin PseudoProfiles}
    \cup {r \in {Below1(Base, h.names) : h \in RootHomes} : IsDir(r)}

Asked(homes) == {h \in homes : given.users = {} \/ Last(h.names) \in given.users}

Discovered ==
    CASE given.root # None -> Asked(IF Profiles = {} THEN {given.root} ELSE Profiles)
      [] given.root = None /\ given.all -> Asked(Profiles)
      [] given.root = None /\ ~given.all /\ given.users # {} -> Asked(UnderParents)
      [] OTHER -> {given.own}

Init ==
    /\ given \in Given
    /\ users = Discovered
    /\ refused = IF given.root # None \/ given.all
                 THEN {[pattern |-> h, reason |-> "profile_is_a_symlink"] : h \in Linked} ELSE {}
    /\ errors = IF users = {} THEN {"no_profiles_found"} ELSE {}
    /\ user = None /\ searched = {} /\ matches = [t \in {} |-> {}]
    /\ used = [n \in {} |-> None] /\ entries = {}

(* The entries that this platform has. *)
Artifacts == {e \in Catalogue : given.target \in e.os}

(* The first pass over a profile: every pattern of every entry. *)
MatchUser(home) ==
    LET asked == UNION {{<<e, p>> : p \in e.patterns} : e \in Artifacts}
        globs == UNION {{<<c[1], c[2], g>> : g \in Search(c[2], home).globs} : c \in asked}
        hits == UNION {UNION {{<<t, <<x[1], x[2]>>>> : t \in Targets(m)} :
                                 m \in IterMatches(x[3])} : x \in globs}
    IN  /\ user = None /\ home \in users
        /\ user' = home /\ users' = users \ {home}
        /\ searched' = searched \cup {[user |-> home, pattern |-> x[2], glob |-> x[3]] : x \in globs}
        /\ refused' = refused \cup UNION {{[pattern |-> c[2], reason |-> r] :
                                              r \in Search(c[2], home).said} : c \in asked}
        /\ errors' = errors \cup IF home \in fs.torn THEN {"unparsable_agent_state"} ELSE {}
        /\ matches' = [t \in {h[1] : h \in hits} |-> {h[2] : h \in {x \in hits : x[1] = t}}]
        /\ UNCHANGED <<given, used, entries>>

(* The second pass: a path that was not decided for an earlier profile. *)
Decide(t) ==
    /\ user # None /\ t \in DOMAIN matches
    /\ \A e \in entries : e.path # t
    /\ LET names == BundlePath(t, used)
       IN  /\ entries' = entries \cup
                 {[path |-> t, user |-> user, claims |-> matches[t],
                   primary |-> PrimaryOf(matches[t]), bundle |-> names]}
           /\ used' = [n \in DOMAIN used \cup {FoldedPath(names)} |->
                          IF n = FoldedPath(names) THEN t ELSE used[n]]
    /\ UNCHANGED <<given, users, user, searched, refused, errors, matches>>

NextUser ==
    /\ user # None
    /\ \A t \in DOMAIN matches : \E e \in entries : e.path = t
    /\ user' = None /\ matches' = [t \in {} |-> {}]
    /\ UNCHANGED <<given, users, searched, refused, errors, used, entries>>

Next ==
    \/ \E home \in users : MatchUser(home)
    \/ \E t \in DOMAIN matches : Decide(t)
    \/ NextUser

Spec == Init /\ [][Next]_vars

-----------------------------------------------------------------------------

Visited == Discovered \ users

(* A pattern in another platform's spelling. *)
Elsewhere(p) ==
    IF given.target = "windows"
    THEN p.head \in {"$", "${"} /\ p.var \in PosixOnly
    ELSE p.head \in {"HK", "C:"} \cup DOMAIN WinRelative \cup DOMAIN WinAbsolute

Unset(p) == p.head = "$" /\ Variable(p.var) = None

(* "Anything this function declines to search is recorded": of every       *)
(* pattern that applies to a profile the bundle says where it was searched,*)
(* or why it was not, or its variable is one that nobody set               *)
(* (expand_paths, resolve_env_prefix, run).                                *)
NothingUnsaid ==
    \A home \in Visited, e \in Artifacts : \A p \in e.patterns :
        \/ \E s \in searched : s.user = home /\ s.pattern = p
        \/ \E r \in refused : r.pattern = p
        \/ Elsewhere(p) \/ Unset(p)

Leads(path, g) == g.drive = path.drive /\ IsPrefix(AreNames(path.names), g.segs)

(* Nobody's environment but its own decides where a profile is searched,   *)
(* and under a mounted root nobody's does: every glob of a profile names a *)
(* place in the profile, in a working copy it used, or where a pattern     *)
(* says for everyone (environment_applies_to, _windows_redirected).        *)
SearchedIsTheirs ==
    \A s \in searched :
        \/ given.root = None /\ s.user = given.own
        \/ Leads(s.user, s.glob)
        \/ s.pattern.head \in {"/", "C:"} \cup DOMAIN WinAbsolute
        \/ IsAnchored(s.pattern) /\ \E r \in ProjectRoots(s.user) : Leads(r, s.glob)
                                                            \/ Leads(Below1(Base, r.names), s.glob)

(* Of a mounted image every glob names a place under the mount             *)
(* (expand_paths).                                                         *)
BeginsUnderTheRoot ==
    given.root # None => \A s \in searched : Leads(given.root, s.glob)

(* Every search begins where it belongs: at a place of the profile it is   *)
(* made for, and of the image that it is made of (expand_paths).  Where it *)
(* goes from there, through a link that is met on the way, is not said.    *)
SearchesBeginInPlace == SearchedIsTheirs /\ BeginsUnderTheRoot

(* Two files of an endpoint never share a place in a bundle, on a file     *)
(* system that does not tell capitals from small letters either            *)
(* (bundle_path_for).                                                      *)
NamesDistinct ==
    \A e, f \in entries : FoldedPath(e.bundle) = FoldedPath(f.bundle) => e = f

(* A path of which no name was cut or told apart by a hash can be read     *)
(* back from the bundle, its drive included, by whoever reads the files    *)
(* without the manifest (encode_segment: "reversibly"; original_path).     *)
NamesReadBack ==
    \A e \in entries :
        (\A i \in DOMAIN e.bundle : ~Contains(e.bundle[i], "~"))
        => OriginalPath(e.bundle, FALSE) = e.path

(* A file's name survives its way into the bundle: no other file has it    *)
(* there, and it can be read back (bundle_path_for, original_path).        *)
NamesSurvive == NamesDistinct /\ NamesReadBack

(* What a tree lists that is read without a bundle: of links only those    *)
(* to files, since os.walk counts the others among the directories, which  *)
(* nobody lists (tree.py, _walk).                                          *)
TreeLists(path) == ~(IsLink(path) /\ IsDir(path))

(* What the collector finds in a live profile by a pattern whose root can  *)
(* be named, the path matcher attributes to the same entry among others,   *)
(* when it is shown the path alone (Matcher.matches).                      *)
ClaimsAreMatched ==
    given.root = None /\ given.env = <<>> =>
        \A e \in entries : \A c \in e.claims :
            (RootRank(c[2]) = 2 \/ c[2].head = "<vscode-user>")
            /\ ProfileDepths(e.path) # {} /\ TreeLists(e.path)
            => \E m \in Matches(e.path) : m.id = c[1].id

(* A pattern that spells out a file's place. *)
Spelled(p) == p.head \in {"~", "/"} \cup DOMAIN WinAbsolute

(* Of several entries that the collector and the path matcher both see,    *)
(* and that spell out a file's place, the two choose the same: they count  *)
(* the same letters and break ties alike, so the file has one entry in a   *)
(* bundle and in a tree that is read without one (claim_order,             *)
(* Matcher.best).                                                          *)
SpelledChoicesAgree ==
    given.root = None /\ given.env = <<>> =>
        \A e \in entries :
            /\ TreeLists(e.path)
            /\ \A c \in e.claims : Spelled(c[2])
            /\ \A a \in Catalogue : \A p \in a.patterns :
                  ClaimedBy(p, e.path) # {} => a \in Artifacts /\ Spelled(p)
            => Best(e.path) = e.primary

(* A file is attributed alike by a bundle and by a tree read without one.  *)
AttributedAlike == ClaimsAreMatched /\ SpelledChoicesAgree

(* "a project root read out of the agent's own state carries the ORIGINAL  *)
(* machine's absolute path": it is put under the mounted root and searched *)
(* there (collector/collect.py:13716).                                     *)
RootedProjectsAreSearched ==
    given.root # None /\ Visited = Discovered =>
        \A home \in Visited \cap DOMAIN fs.projects : \A r \in fs.projects[home] :
            IsDir(Below1(Base, r.names)) =>
                \A e \in Artifacts : \A p \in {x \in e.patterns : IsAnchored(x)} :
                    \E s \in searched : s.pattern = p /\ Leads(Below1(Base, r.names), s.glob)
=============================================================================
