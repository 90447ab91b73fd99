---------------------------- MODULE Installation ----------------------------
(***************************************************************************)
(* `dapz init` and its --uninstall, --show and --dry-run (src/init): three  *)
(* files of one scope, each edited by one step, the first failing step      *)
(* being the last.                                                          *)
(*                                                                         *)
(* A step, and a command, is the set of its possible results: the files it  *)
(* leaves, and how it went.  Any of them may fail at its reads and writes.  *)
(* A write of an .md file goes straight to the file, so that one that fails *)
(* may leave anything in it; settings are replaced in one rename.           *)
(*                                                                         *)
(* DAPZ.md is a text, CLAUDE.md the number of its lines that are the        *)
(* reference and the rest of it, up to blanks at its end.  Settings are     *)
(* their MCP servers, entry by entry, and all the rest.                     *)
(***************************************************************************)
EXTENDS Naturals

CONSTANTS
    Absent,      \* no such file, no such key
    Broken,      \* a file that is no JSON, a value that is no JSON object
    Scalar,      \* JSON settings that are no object
    Docs,        \* texts of DAPZ.md
    Template,    \* the one of this binary with the adapters it finds
    Texts,       \* the rest of a CLAUDE.md
    Empty,       \* the rest of one that init creates
    Mentioning,  \* those with the reference in a line with other words
    Rests,       \* what settings hold besides mcpServers
    Bare,        \* the rest of an empty object
    Servers,     \* keys of mcpServers
    Dapz,        \* the one of dapz
    Entries,     \* values under these keys
    Binary       \* the path of this binary

ClaudeMd == [refs : Nat, rest : Texts]

Settings == {Absent, Broken, Scalar}
            \cup [rest : Rests, servers : {Absent, Broken} \cup [Servers -> Entries \cup {Absent}]]

Files == [dapz : Docs \cup {Absent}, claude : ClaudeMd \cup {Absent},
          settings : Settings, backup : Settings]

Result(files, how) == [files |-> files, how |-> how]

\* The home directory or a file cannot be read.
Fails(files) == {Result(files, "failed")}

----------------------------------------------------------------------------
(* DAPZ.md *)

WriteDapzMd(files, dryRun, force) ==
    Fails(files) \cup
    IF ~force /\ files.dapz = Template THEN {Result(files, "unchanged")}
    ELSE IF dryRun THEN {Result(files, "changed")}
    ELSE {Result([files EXCEPT !.dapz = Template], "changed")}
         \cup {Result([files EXCEPT !.dapz = torn], "failed") : torn \in Docs}

RemoveDapzMd(files, dryRun) ==
    Fails(files) \cup
    IF files.dapz = Absent THEN {Result(files, "unchanged")}
    ELSE IF dryRun THEN {Result(files, "changed")}
    ELSE {Result([files EXCEPT !.dapz = Absent], "changed")}

----------------------------------------------------------------------------
(* CLAUDE.md *)

\* content.contains(DAPZ_MD_REF)
HasRef(claude) == claude # Absent /\ (claude.refs > 0 \/ claude.rest \in Mentioning)

WriteClaudeMd(files, claude) ==
    {Result([files EXCEPT !.claude = claude], "changed")}
    \cup {Result([files EXCEPT !.claude = torn], "failed") : torn \in ClaudeMd}

\* With force the lines that are the reference are dropped before one is added.
PatchClaudeMdRef(files, dryRun, force) ==
    LET claude == files.claude
    IN Fails(files) \cup
       IF ~force /\ HasRef(claude) THEN {Result(files, "unchanged")}
       ELSE IF dryRun THEN {Result(files, "changed")}
       ELSE WriteClaudeMd(files, [refs |-> 1, rest |-> IF claude = Absent THEN Empty ELSE claude.rest])

\* A file that only mentions the reference is written as it was.
RemoveClaudeMdRef(files, dryRun) ==
    Fails(files) \cup
    IF ~HasRef(files.claude) THEN {Result(files, "unchanged")}
    ELSE IF dryRun THEN {Result(files, "changed")}
    ELSE WriteClaudeMd(files, [files.claude EXCEPT !.refs = 0])

----------------------------------------------------------------------------
(* settings.json or ~/.claude.json *)

IsObject(settings) == settings \notin {Absent, Broken, Scalar}

HasServers(settings) == IsObject(settings) /\ settings.servers \notin {Absent, Broken}

\* mcp_server_already_present: the command alone is compared.
Registered(settings) ==
    /\ HasServers(settings)
    /\ settings.servers[Dapz] # Absent /\ settings.servers[Dapz].command = Binary

Entry == [command |-> Binary, args |-> "mcp"]

\* The settings with dapz among the servers; those of no file are an empty object.
WithDapz(settings) ==
    LET none == [s \in Servers |-> Absent]
        root == IF settings = Absent THEN [rest |-> Bare, servers |-> Absent] ELSE settings
        servers == IF root.servers = Absent THEN none ELSE root.servers
    IN [root EXCEPT !.servers = [servers EXCEPT ![Dapz] = Entry]]

\* The copy of the old file comes before the rename, and may fail or be the last that succeeds.
PatchMcpServer(files, dryRun, force) ==
    LET settings == files.settings
        saved == IF settings = Absent THEN files ELSE [files EXCEPT !.backup = settings]
    IN Fails(files) \cup
       IF settings = Broken THEN {}
       ELSE IF ~force /\ Registered(settings) THEN {Result(files, "unchanged")}
       ELSE IF dryRun THEN {Result(files, "changed")}
       ELSE IF settings = Scalar \/ (IsObject(settings) /\ settings.servers = Broken) THEN {}
       ELSE {Result([saved EXCEPT !.settings = WithDapz(settings)], "changed"), Result(saved, "failed")}
            \cup {Result([saved EXCEPT !.backup = torn], "failed") : torn \in Settings}

RemoveMcpServer(files, dryRun) ==
    LET settings == files.settings
    IN Fails(files) \cup
       IF settings = Broken THEN {}
       ELSE IF ~HasServers(settings) THEN {Result(files, "unchanged")}
       ELSE IF settings.servers[Dapz] = Absent THEN {Result(files, "unchanged")}
       ELSE IF dryRun THEN {Result(files, "changed")}
       ELSE {Result([files EXCEPT !.settings.servers[Dapz] = Absent], "changed")}

----------------------------------------------------------------------------
(* The commands. *)

\* The next step, unless the one before has failed.
Then(results, Step(_)) ==
    UNION {IF r.how = "failed" THEN {r} ELSE Step(r.files) : r \in results}

RunInit(files, noPatch, dryRun, force) ==
    Then(Then(WriteDapzMd(files, dryRun, force), LAMBDA f : PatchClaudeMdRef(f, dryRun, force)),
         LAMBDA f : IF noPatch THEN {Result(f, "unchanged")}
                    ELSE PatchMcpServer(f, dryRun, force))

RunUninstall(files, dryRun) ==
    Then(Then(RemoveDapzMd(files, dryRun), LAMBDA f : RemoveClaudeMdRef(f, dryRun)),
         LAMBDA f : RemoveMcpServer(f, dryRun))

\* What --show calls [ok].
ShowConfig(files) ==
    [mcp |-> Registered(files.settings), dapz |-> files.dapz # Absent, claude |-> HasRef(files.claude)]
=============================================================================
