------------------------------ MODULE MCLocate ------------------------------
(* A machine with two profiles, a link between them and the superuser's,   *)
(* and the same machine as an image that is mounted on another one.        *)
EXTENDS Locate, TLC

N(token) == <<token>>

MCDigits ==
    ("%" :> <<"2", "5">>) @@ ("." :> <<"2", "E">>) @@ (":" :> <<"3", "A">>)
    @@ ("A" :> <<"4", "1">>) @@ ("a" :> <<"6", "1">>) @@ ("E" :> <<"4", "5">>)
    @@ ("/" :> <<"2", "F">>) @@ (" " :> <<"2", "0">>)

MCCapital == ("a" :> "A") @@ ("c" :> "C") @@ ("d" :> "D") @@ ("e" :> "E")

MCTag(x) == ToString(x)
MCDevices == {<<"A", "E">>}
MCContainers == {N("files"), N("uploads")}
MCProfileParents == {N("home"), N("Users")}
MCRootHomes == {Path("", <<N("root")>>)}
MCPseudo == {N("Public")}
MCProducts == {N("Code"), <<"Code", " - ", "Insiders">>}

(* ------------------------------------------------------------ patterns *)

Pattern(head, tail) == [head |-> head, var |-> "", default |-> <<>>, tail |-> tail]
OfVar(var, tail) == [head |-> "$", var |-> var, default |-> <<>>, tail |-> tail]
OrElse(var, default, tail) == [head |-> "${", var |-> var, default |-> default, tail |-> tail]

Config == N(".config")
Code == N("Code")
Insiders == <<"Code", " - ", "Insiders">>
User == N("User")
Global == N("globalStorage")
Cline == N("cline")
Tasks == N("tasks")
Metadata == <<"task", "_", "metadata">>
Claude == N(".claude")
Projects == N("projects")
Session == N("s1")
Gemini == N(".gemini")
Oauth == N("oauth")
Codex == N(".codex")
Rollout == <<"rollout-", "1">>
Zed == N("zed")
Logs == N("logs")
Notes == N("notes")
Roaming == N("Roaming")
Data == N("ProgramData")
Share == N("share")

Every == {"linux", "windows"}

MCCatalogue ==
    {[id |-> 1, os |-> Every, secret |-> FALSE, patterns |->
        {Pattern("<vscode-user>", <<Is(Global), Is(Cline), Is(Tasks), Hole(<<>>), Is(Metadata)>>)}],
     [id |-> 2, os |-> Every, secret |-> FALSE, patterns |->
        {Pattern("~", <<Is(Config), Is(Insiders), Is(User), Is(Global)>>),
         Pattern("~", <<Is(Config), Is(Code), Is(User), Is(Global)>>)}],
     [id |-> 3, os |-> Every, secret |-> FALSE, patterns |->
        {Pattern("~", <<Is(Claude), Is(Projects)>>),
         OfVar("CLAUDE_CONFIG_DIR", <<Is(Projects), Hole(<<>>)>>)}],
     [id |-> 4, os |-> Every, secret |-> TRUE, patterns |->
        {Pattern("~", <<Is(Gemini), Is(Oauth)>>)}],
     [id |-> 5, os |-> Every, secret |-> FALSE, patterns |->
        {Pattern("<project>", <<Is(Gemini)>>), Pattern("<project>", <<AnyDepth, Is(Notes)>>)}],
     [id |-> 6, os |-> Every, secret |-> FALSE, patterns |->
        {Pattern("~", <<Is(Codex), AnyDepth, Hole(N("rollout-"))>>),
         Pattern("~", <<Is(Codex), Is(Logs), AnyDepth>>)}],
     [id |-> 7, os |-> Every, secret |-> FALSE, patterns |->
        {OfVar("XDG_DATA_HOME", <<Is(Zed), Is(Logs)>>),
         OrElse("XDG_STATE_HOME", <<N(".local")>>, <<Is(Zed)>>),
         OrElse("ZED_DATA_DIR", <<N(".local")>>, <<Is(Zed)>>),
         OfVar("HOME", <<Is(Zed)>>)}],
     [id |-> 8, os |-> {"windows"}, secret |-> FALSE, patterns |->
        {Pattern("%APPDATA%", <<Is(Zed)>>), Pattern("%PROGRAMDATA%", <<Is(Zed)>>),
         Pattern("HK", <<Is(Zed)>>), Pattern("C:", <<Is(Data), Is(Zed)>>)}],
     [id |-> 9, os |-> Every, secret |-> FALSE, patterns |->
        {Pattern("/", <<Is(N("etc")), Is(Zed)>>), Pattern("%PROGRAMDATA%", <<Is(Zed)>>)}],
     [id |-> 10, os |-> Every, secret |-> FALSE, patterns |->
        {OfVar("OLLAMA_MODELS", <<Hole(<<>>)>>), Pattern("~", <<Is(Claude), Hole(N("a"))>>),
         Pattern("~", <<Is(Claude), Hole(N("A"))>>), Pattern("~", <<Is(Claude), Hole(N("%"))>>),
         Pattern("~", <<Is(Claude), Hole(N("E"))>>)}],
     [id |-> 11, os |-> Every, secret |-> FALSE, patterns |->
        {Pattern("~", <<Is(Claude), AnyDepth, Is(Session)>>), Pattern("/", <<Is(N("etc"))>>)}],
     [id |-> 12, os |-> Every, secret |-> FALSE, patterns |->
        {Pattern("~", <<Is(Codex), Is(Logs), Is(N("x"))>>)}]}

MCWinRelative == "%APPDATA%" :> <<N("AppData"), Roaming>>
MCWinAbsolute == "%PROGRAMDATA%" :> Path("C", <<Data>>)
MCXdgDefaults == ("XDG_DATA_HOME" :> <<N(".local"), Share>>) @@ ("XDG_STATE_HOME" :> <<N(".local")>>)
MCPosixOnly == {"HOME", "XDG_DATA_HOME", "XDG_STATE_HOME"}
MCVscodeUser == ("linux" :> <<Config>>) @@ ("windows" :> <<N("AppData"), Roaming>>)

(* ------------------------------------------------------------- machines *)

Home == N("home")
Root == N("root")
Mnt == N("mnt")
Alice == Path("", <<Home, N("alice")>>)
Bob == Path("", <<Home, N("bob")>>)
Moved == Path("", <<N("srv"), N("conf")>>)
Work == Path("", <<N("work")>>)

Files(home) ==
    {Below1(home, f) : f \in
        {<<Config, Insiders, User, Global, Cline, Tasks, N("t1"), Metadata>>,
         <<Claude, Projects, Session>>, <<Gemini, Oauth>>,
         <<Codex, N("2026"), Rollout>>, <<Codex, Logs, N("x")>>,
         <<N(".local"), Zed>>}}

Ancestors(path) == {Path(path.drive, SubSeq(path.names, 1, n)) : n \in 0..Len(path.names) - 1}

Machine(files, links, closed, projects, torn) ==
    [files |-> files, links |-> links, closed |-> closed, projects |-> projects, torn |-> torn,
     dirs |-> UNION {Ancestors(f) : f \in files}]

Under(mount, paths) == {Path(mount.drive, mount.names \o p.names) : p \in paths}

None2 == [x \in {} |-> None]

(* Alice's profile has two files of any names beside each other. *)
Odd ==
    {s \in UNION {[1..n -> {"a", "A", "%", "4", "1", "E", "."}] : n \in 1..3} :
        s[1] \in {"a", "%", "A", "E"} /\ (Len(s) = 3 => s[1] = "%")}
OddPairs ==
    {{a} : a \in Odd} \cup {{<<"a", "%">>, <<"A", "%">>}, {<<"a">>, <<"A">>}, {<<"%", "4", "1">>, <<"A">>},
     {<<"a", ".">>, <<"A", "%">>}, {<<"a", "A">>, <<"A", "a">>, <<"A", "A">>}}

Small(odd) ==
    Machine({At(Below1(Alice, <<Claude>>), o) : o \in odd}, None2, {}, None2, {})

Live ==
    Machine(Files(Alice) \cup {At(Below1(Bob, <<Gemini>>), Oauth), At(Work, Notes),
                               At(Below1(Work, <<Gemini>>), N("x")),
                               At(Below1(Moved, <<Projects>>), Session), Path("", <<N("etc"), Zed>>),
                               Path("", <<Root, Claude, Projects, Session>>), Path("", <<Root, Codex, Session>>)},
            (Path("", <<Home, N("carol")>>) :> Bob) @@ (At(Below1(Alice, <<Claude, Projects>>), N("out")) :> Moved)
            @@ (At(Below1(Alice, <<Codex, Logs>>), N("gone")) :> Path("", <<N("nowhere")>>))
            @@ (Path("", <<Root, Codex, Logs>>) :> Moved),
            {Below1(Bob, <<Claude>>)},
            (Alice :> {Work, Path("", <<N("lost")>>)}) @@ (Path("", <<Root>>) :> {Bob}), {Bob})

Mount == Path("", <<Mnt>>)

Image ==
    Machine(Under(Mount, Files(Alice) \cup {At(Work, Notes), Path("", <<N("etc"), Zed>>)})
            \cup {At(Below1(Path("", <<Home, N("analyst")>>), <<Claude>>), Projects)},
            None2, {}, (Path("", <<Mnt, Home, N("alice")>>) :> {Work}), {})

(* A Windows profile, live and as an image on a drive. *)
WinHome == Path("C", <<N("Users"), N("alice")>>)
WinFiles(home, top) ==
    {Below1(home, <<N("AppData"), Roaming, Zed>>), Below1(home, <<Claude, Projects, Session>>),
     Below1(top, <<Data, Zed>>)}
Windows ==
    Machine(WinFiles(WinHome, Path("C", <<>>)) \cup {Path("D", <<Roaming, Zed>>), Path("", <<N("x")>>)},
            None2, {}, None2, {})
WinImage ==
    Machine(WinFiles(Path("D", <<N("img"), N("Users"), N("alice")>>), Path("D", <<N("img")>>)),
            None2, {}, None2, {})

Run(target, root, all, named, env, own, machine) ==
    [target |-> target, root |-> root, all |-> all, users |-> named, env |-> env, own |-> own,
     fs |-> machine]

Envs == {<<>>, ("CLAUDE_CONFIG_DIR" :> Moved) @@ ("OLLAMA_MODELS" :> Path("", <<>>)),
         ("CLAUDE_CONFIG_DIR" :> Path("?", <<N("conf")>>)) @@ ("XDG_DATA_HOME" :> Moved)
         @@ ("ZED_DATA_DIR" :> Moved)}

MCGiven ==
    {Run("linux", None, FALSE, {}, <<>>, Alice, Small(odd)) : odd \in OddPairs}
    \cup {Run("linux", None, all, named, env, own, Live) :
            all \in BOOLEAN, named \in {{}, {N("bob"), N("carol")}, {N("dave")}},
            env \in Envs, own \in {Alice, Path("", <<Root>>)}}
    \cup {Run("linux", Mount, TRUE, {}, env, Path("", <<Home, N("analyst")>>), Image) : env \in Envs}
    \cup {Run("windows", None, FALSE, {}, env, WinHome, Windows) :
            env \in {<<>>, "%APPDATA%" :> Path("D", <<Roaming>>), "CLAUDE_CONFIG_DIR" :> Path("D", <<>>)}}
    \cup {Run("windows", Path("D", <<N("img")>>), FALSE, {}, <<>>, WinHome, WinImage)}
=============================================================================
