------------------------- MODULE InstallationProofs -------------------------
(***************************************************************************)
(* What the commands of Installation promise about the files of the user,   *)
(* whichever step fails and however often they are run again.               *)
(***************************************************************************)
EXTENDS Installation, TLAPS

Server(settings, name) == IF HasServers(settings) THEN settings.servers[name] ELSE Absent

\* Everything in the settings but the entry of dapz is as it was.
Kept(before, after) ==
    \/ after = before
    \/ /\ IsObject(after) /\ before \notin {Broken, Scalar}
       /\ after.rest = IF before = Absent THEN Bare ELSE before.rest
       /\ \A name \in Servers \ {Dapz} : Server(after, name) = Server(before, name)

Distinct == /\ Absent \notin {Broken, Scalar} /\ Broken # Scalar
            /\ \A x \in {Absent, Broken, Scalar} :
                 /\ x \notin [rest : Rests, servers : {Absent, Broken} \cup [Servers -> Entries \cup {Absent}]]
                 /\ x \notin [Servers -> Entries \cup {Absent}]
            /\ Absent \notin Docs \cup ClaudeMd \cup Entries

Constants == Distinct /\ Template \in Docs /\ Empty \in Texts /\ Bare \in Rests /\ Dapz \in Servers /\ Entry \in Entries

----------------------------------------------------------------------------
(* The commands, step by step. *)

\* init is three edits, each after the success of the one before.
LEMMA InitSteps ==
    ASSUME NEW files, NEW noPatch, NEW dryRun, NEW force, NEW r \in RunInit(files, noPatch, dryRun, force)
    PROVE  \/ r \in WriteDapzMd(files, dryRun, force) /\ r.how = "failed"
           \/ \E q \in WriteDapzMd(files, dryRun, force) :
                /\ q.how # "failed"
                /\ \/ r \in PatchClaudeMdRef(q.files, dryRun, force) /\ r.how = "failed"
                   \/ \E s \in PatchClaudeMdRef(q.files, dryRun, force) :
                        /\ s.how # "failed"
                        /\ r \in IF noPatch THEN {Result(s.files, "unchanged")}
                                 ELSE PatchMcpServer(s.files, dryRun, force)
  BY DEF RunInit, Then

\* So is uninstall.
LEMMA UninstallSteps ==
    ASSUME NEW files, NEW dryRun, NEW r \in RunUninstall(files, dryRun)
    PROVE  \/ r \in RemoveDapzMd(files, dryRun) /\ r.how = "failed"
           \/ \E q \in RemoveDapzMd(files, dryRun) :
                /\ q.how # "failed"
                /\ \/ r \in RemoveClaudeMdRef(q.files, dryRun) /\ r.how = "failed"
                   \/ \E s \in RemoveClaudeMdRef(q.files, dryRun) :
                        /\ s.how # "failed"
                        /\ r \in RemoveMcpServer(s.files, dryRun)
  BY DEF RunUninstall, Then

\* What one edit of DAPZ.md may leave.
LEMMA DapzMdStep ==
    ASSUME Constants, NEW files \in Files, NEW dryRun, NEW force,
           NEW r \in WriteDapzMd(files, dryRun, force) \cup RemoveDapzMd(files, dryRun)
    PROVE  /\ r.files \in Files
           /\ r.files.settings = files.settings /\ r.files.claude = files.claude
  BY DEF WriteDapzMd, RemoveDapzMd, Fails, Result, Files, Constants

\* What one edit of CLAUDE.md may leave.
LEMMA ClaudeMdStep ==
    ASSUME Constants, NEW files \in Files, NEW dryRun, NEW force,
           NEW r \in PatchClaudeMdRef(files, dryRun, force) \cup RemoveClaudeMdRef(files, dryRun)
    PROVE  /\ r.files \in Files
           /\ r.files.settings = files.settings /\ r.files.dapz = files.dapz
  BY DEF PatchClaudeMdRef, RemoveClaudeMdRef, WriteClaudeMd, HasRef, Fails, Result, Files, ClaudeMd, Constants

\* What one edit of the settings may leave.
LEMMA SettingsStep ==
    ASSUME Constants, NEW files \in Files, NEW dryRun, NEW force,
           NEW r \in PatchMcpServer(files, dryRun, force) \cup RemoveMcpServer(files, dryRun)
    PROVE  /\ r.files \in Files
           /\ r.files.dapz = files.dapz /\ r.files.claude = files.claude
           /\ Kept(files.settings, r.files.settings)
<1> DEFINE s == files.settings
<1> USE DEF Constants, Distinct
<1>1. s \in Settings /\ files.backup \in Settings
  BY DEF Files
<1>2. CASE r.files = files
  BY <1>2 DEF Kept
<1> DEFINE Objects == [rest : Rests, servers : {Absent, Broken} \cup [Servers -> Entries \cup {Absent}]]
<1>3. CASE r \in PatchMcpServer(files, dryRun, force) /\ r.files # files
  <2>1. /\ s = Absent \/ (s \in Objects /\ s.servers \in {Absent} \cup [Servers -> Entries \cup {Absent}])
        /\ \/ r.files.settings = s
           \/ r.files.settings = WithDapz(s)
        /\ r.files.backup \in Settings /\ r.files.dapz = files.dapz /\ r.files.claude = files.claude
        /\ r.files = [files EXCEPT !.backup = r.files.backup, !.settings = r.files.settings]
    <3> DEFINE saved == IF s = Absent THEN files ELSE [files EXCEPT !.backup = s]
    <3>1. /\ s # Broken /\ s # Scalar /\ (IsObject(s) => s.servers # Broken)
          /\ \/ r.files = [saved EXCEPT !.settings = WithDapz(s)]
             \/ r.files = saved
             \/ \E torn \in Settings : r.files = [saved EXCEPT !.backup = torn]
      <4> HIDE DEF Constants, Distinct
      <4>1. r # Result(files, "failed") /\ r # Result(files, "unchanged") /\ r # Result(files, "changed")
        BY <1>3 DEF Result
      <4>2. /\ s # Broken /\ ~(s = Scalar \/ (IsObject(s) /\ s.servers = Broken))
            /\ r \in {Result([saved EXCEPT !.settings = WithDapz(s)], "changed"), Result(saved, "failed")}
                      \cup {Result([saved EXCEPT !.backup = torn], "failed") : torn \in Settings}
        BY <1>3, <4>1, Zenon DEF PatchMcpServer, Fails
      <4> HIDE DEF saved
      <4> QED
        BY <4>2 DEF Result
    <3>2. s = Absent \/ (s \in Objects /\ s.servers \in {Absent} \cup [Servers -> Entries \cup {Absent}])
      BY <1>1, <3>1 DEF IsObject, Settings
    <3>3. saved \in Files /\ saved.settings = s /\ saved.dapz = files.dapz /\ saved.claude = files.claude
      BY <1>1 DEF Files
    <3> HIDE DEF saved
    <3>4. /\ r.files.settings = s \/ r.files.settings = WithDapz(s)
          /\ r.files.backup \in Settings /\ r.files.dapz = files.dapz /\ r.files.claude = files.claude
          /\ r.files = [dapz |-> files.dapz, claude |-> files.claude,
                        settings |-> r.files.settings, backup |-> r.files.backup]
      BY <3>1, <3>3 DEF Files
    <3> QED
      BY <3>2, <3>4 DEF Files
  <2>2. /\ WithDapz(s) \in Objects /\ IsObject(WithDapz(s)) /\ Kept(s, WithDapz(s))
    <3>1. CASE s = Absent
      <4>1. WithDapz(s) = [rest |-> Bare, servers |-> [n \in Servers |-> IF n = Dapz THEN Entry ELSE Absent]]
        BY <3>1 DEF WithDapz
      <4>2. WithDapz(s) \in Objects
        BY <4>1
      <4> QED
        BY <3>1, <4>1, <4>2 DEF Kept, Server, HasServers, IsObject
    <3>2. CASE s \in Objects
      <4> DEFINE old == IF s.servers = Absent THEN [n \in Servers |-> Absent] ELSE s.servers
                 new == [old EXCEPT ![Dapz] = Entry]
      <4>1. WithDapz(s) = [s EXCEPT !.servers = new]
        BY <3>2 DEF WithDapz
      <4>2. old \in [Servers -> Entries \cup {Absent}]
        BY <2>1, <3>2
      <4>3. new \in [Servers -> Entries \cup {Absent}] /\ \A n \in Servers \ {Dapz} : new[n] = old[n]
        BY <4>2
      <4> HIDE DEF new
      <4>4. WithDapz(s) \in Objects /\ WithDapz(s).servers = new /\ WithDapz(s).rest = s.rest
        BY <3>2, <4>1, <4>3
      <4>5. IsObject(WithDapz(s)) /\ IsObject(s)
        BY <3>2, <4>4 DEF IsObject
      <4>6. \A n \in Servers \ {Dapz} : Server(WithDapz(s), n) = new[n] /\ Server(s, n) = old[n]
        BY <2>1, <3>2, <4>3, <4>4, <4>5 DEF Server, HasServers
      <4> QED
        BY <3>2, <4>3, <4>4, <4>5, <4>6 DEF Kept, IsObject
    <3> QED
      BY <2>1, <3>1, <3>2
  <2>3. r.files.settings \in Settings
    BY <1>1, <2>1, <2>2 DEF Settings
  <2>4. r.files \in Files
    BY <2>1, <2>3 DEF Files
  <2> QED
    BY <2>1, <2>2, <2>4 DEF Kept
<1>4. CASE r \in RemoveMcpServer(files, dryRun) /\ r.files # files
  <2>1. HasServers(s) /\ r.files = [files EXCEPT !.settings.servers[Dapz] = Absent]
    BY <1>4 DEF RemoveMcpServer, Fails, Result
  <2>2. s \in Objects /\ s.servers \in [Servers -> Entries \cup {Absent}]
    BY <1>1, <2>1 DEF HasServers, IsObject, Settings
  <2> DEFINE new == [s.servers EXCEPT ![Dapz] = Absent]
  <2>3. r.files = [files EXCEPT !.settings = [s EXCEPT !.servers = new]]
    BY <2>1
  <2>4. new \in [Servers -> Entries \cup {Absent}] /\ \A n \in Servers \ {Dapz} : new[n] = s.servers[n]
    BY <2>2
  <2> HIDE DEF new
  <2>5. /\ r.files.settings = [s EXCEPT !.servers = new]
        /\ r.files.dapz = files.dapz /\ r.files.claude = files.claude
    BY <2>3 DEF Files
  <2>6. /\ r.files.settings \in Objects /\ r.files.settings.servers = new
        /\ r.files.settings.rest = s.rest
    BY <2>2, <2>4, <2>5
  <2>7. r.files \in Files
    BY <2>3, <2>5, <2>6 DEF Files, Settings
  <2>8. Kept(s, r.files.settings)
    BY <2>1, <2>2, <2>4, <2>6 DEF Kept, Server, HasServers, IsObject
  <2> QED
    BY <2>5, <2>7, <2>8
<1> QED
  BY <1>2, <1>3, <1>4

----------------------------------------------------------------------------
\* A dry run leaves every file as it is, however it goes.
THEOREM DryRunWritesNothing ==
    ASSUME NEW files, NEW noPatch, NEW force,
           NEW r \in RunInit(files, noPatch, TRUE, force) \cup RunUninstall(files, TRUE)
    PROVE  r.files = files
  BY DEF RunInit, RunUninstall, Then, WriteDapzMd, PatchClaudeMdRef, PatchMcpServer, RemoveDapzMd,
         RemoveClaudeMdRef, RemoveMcpServer, Fails, Result

\* However init or uninstall goes, even where it fails, the settings of the user and their
\* other servers are still there: the file is parsed, edited and replaced in one rename.
THEOREM SettingsKept ==
    ASSUME Constants, NEW files \in Files, NEW noPatch, NEW dryRun, NEW force,
           NEW r \in RunInit(files, noPatch, dryRun, force) \cup RunUninstall(files, dryRun)
    PROVE  r.files \in Files /\ Kept(files.settings, r.files.settings)
<1>1. CASE r \in RunInit(files, noPatch, dryRun, force)
  <2>1. CASE r \in WriteDapzMd(files, dryRun, force)
    BY <2>1, DapzMdStep DEF Kept
  <2>2. ASSUME NEW q \in WriteDapzMd(files, dryRun, force), r \in PatchClaudeMdRef(q.files, dryRun, force)
        PROVE  r.files \in Files /\ Kept(files.settings, r.files.settings)
    <3>1. q.files \in Files /\ q.files.settings = files.settings
      BY DapzMdStep
    <3> QED
      BY <2>2, <3>1, ClaudeMdStep DEF Kept
  <2>3. ASSUME NEW q \in WriteDapzMd(files, dryRun, force), NEW s \in PatchClaudeMdRef(q.files, dryRun, force),
               r \in IF noPatch THEN {Result(s.files, "unchanged")} ELSE PatchMcpServer(s.files, dryRun, force)
        PROVE  r.files \in Files /\ Kept(files.settings, r.files.settings)
    <3>1. q.files \in Files /\ q.files.settings = files.settings
      BY DapzMdStep
    <3>2. s.files \in Files /\ s.files.settings = files.settings
      BY <3>1, ClaudeMdStep
    <3>3. CASE r = Result(s.files, "unchanged")
      BY <3>2, <3>3 DEF Result, Kept
    <3>4. CASE r \in PatchMcpServer(s.files, dryRun, force)
      BY <3>2, <3>4, SettingsStep
    <3> QED
      BY <2>3, <3>3, <3>4
  <2> QED
    BY <1>1, <2>1, <2>2, <2>3, InitSteps, Zenon
<1>2. CASE r \in RunUninstall(files, dryRun)
  <2>1. CASE r \in RemoveDapzMd(files, dryRun)
    BY <2>1, DapzMdStep DEF Kept
  <2>2. ASSUME NEW q \in RemoveDapzMd(files, dryRun), r \in RemoveClaudeMdRef(q.files, dryRun)
        PROVE  r.files \in Files /\ Kept(files.settings, r.files.settings)
    <3>1. q.files \in Files /\ q.files.settings = files.settings
      BY DapzMdStep
    <3> QED
      BY <2>2, <3>1, ClaudeMdStep DEF Kept
  <2>3. ASSUME NEW q \in RemoveDapzMd(files, dryRun), NEW s \in RemoveClaudeMdRef(q.files, dryRun),
               r \in RemoveMcpServer(s.files, dryRun)
        PROVE  r.files \in Files /\ Kept(files.settings, r.files.settings)
    <3>1. q.files \in Files /\ q.files.settings = files.settings
      BY DapzMdStep
    <3>2. s.files \in Files /\ s.files.settings = files.settings
      BY <3>1, ClaudeMdStep
    <3> QED
      BY <2>3, <3>2, SettingsStep
  <2> QED
    BY <1>2, <2>1, <2>2, <2>3, UninstallSteps, Zenon
<1> QED
  BY <1>1, <1>2

----------------------------------------------------------------------------
(* What a command that succeeds has done. *)

\* What a successful edit of DAPZ.md leaves.
LEMMA DapzMdDone ==
    ASSUME Constants, NEW files \in Files, NEW force
    PROVE  /\ \A r \in WriteDapzMd(files, FALSE, force) : r.how # "failed" => r.files.dapz = Template
           /\ \A r \in RemoveDapzMd(files, FALSE) : r.how # "failed" => r.files.dapz = Absent
  BY DEF WriteDapzMd, RemoveDapzMd, Fails, Result, Files

\* What a successful edit of CLAUDE.md leaves.
LEMMA ClaudeMdDone ==
    ASSUME Constants, NEW files \in Files, NEW force
    PROVE  /\ \A r \in PatchClaudeMdRef(files, FALSE, force) :
                 r.how # "failed" => /\ HasRef(r.files.claude)
                                     /\ files.claude # Absent => r.files.claude.rest = files.claude.rest
           /\ \A r \in RemoveClaudeMdRef(files, FALSE) :
                 r.how # "failed" =>
                   \/ r.files.claude = Absent /\ files.claude = Absent
                   \/ /\ r.files.claude \in ClaudeMd /\ files.claude \in ClaudeMd
                      /\ r.files.claude.refs = 0 /\ r.files.claude.rest = files.claude.rest
<1> USE DEF Constants, Distinct
<1>1. files.claude = Absent \/ files.claude \in ClaudeMd
  BY DEF Files
<1>2. ASSUME NEW r \in PatchClaudeMdRef(files, FALSE, force), r.how # "failed"
      PROVE  /\ HasRef(r.files.claude)
             /\ files.claude # Absent => r.files.claude.rest = files.claude.rest
  <2> DEFINE new == [refs |-> 1, rest |-> IF files.claude = Absent THEN Empty ELSE files.claude.rest]
  <2>1. \/ r.files = files /\ HasRef(files.claude)
        \/ r.files = [files EXCEPT !.claude = new]
    BY <1>2 DEF PatchClaudeMdRef, WriteClaudeMd, Fails, Result
  <2>2. new \in ClaudeMd
    BY <1>1 DEF ClaudeMd
  <2> QED
    BY <2>1, <2>2 DEF HasRef, Files
<1>3. ASSUME NEW r \in RemoveClaudeMdRef(files, FALSE), r.how # "failed"
      PROVE  \/ r.files.claude = Absent /\ files.claude = Absent
             \/ /\ r.files.claude \in ClaudeMd /\ files.claude \in ClaudeMd
                /\ r.files.claude.refs = 0 /\ r.files.claude.rest = files.claude.rest
  <2>1. \/ r.files = files /\ ~HasRef(files.claude)
        \/ HasRef(files.claude) /\ r.files = [files EXCEPT !.claude = [files.claude EXCEPT !.refs = 0]]
    BY <1>3 DEF RemoveClaudeMdRef, WriteClaudeMd, Fails, Result
  <2> QED
    BY <1>1, <2>1 DEF HasRef, Files, ClaudeMd
<1> QED
  BY <1>2, <1>3

\* What a successful edit of the settings leaves.
LEMMA SettingsDone ==
    ASSUME Constants, NEW files \in Files, NEW force
    PROVE  /\ \A r \in PatchMcpServer(files, FALSE, force) :
                 r.how # "failed" => Registered(r.files.settings)
           /\ \A r \in RemoveMcpServer(files, FALSE) :
                 r.how # "failed" => Server(r.files.settings, Dapz) = Absent
<1> USE DEF Constants, Distinct
<1> DEFINE s == files.settings
           Objects == [rest : Rests, servers : {Absent, Broken} \cup [Servers -> Entries \cup {Absent}]]
<1>1. s \in {Absent, Broken, Scalar} \cup Objects /\ files.backup \in Settings
  BY DEF Files, Settings
<1>2. ASSUME NEW r \in PatchMcpServer(files, FALSE, force), r.how # "failed"
      PROVE  Registered(r.files.settings)
  <2> DEFINE saved == IF s = Absent THEN files ELSE [files EXCEPT !.backup = s]
  <2>1. \/ r.files = files /\ Registered(s)
        \/ /\ s \notin {Broken, Scalar} /\ (IsObject(s) => s.servers # Broken)
           /\ r.files = [saved EXCEPT !.settings = WithDapz(s)]
    BY <1>2 DEF PatchMcpServer, Fails, Result
  <2>2. CASE /\ s \notin {Broken, Scalar} /\ (IsObject(s) => s.servers # Broken)
             /\ r.files = [saved EXCEPT !.settings = WithDapz(s)]
    <3> DEFINE root == IF s = Absent THEN [rest |-> Bare, servers |-> Absent] ELSE s
               old == IF root.servers = Absent THEN [n \in Servers |-> Absent] ELSE root.servers
               new == [old EXCEPT ![Dapz] = Entry]
    <3>1. root \in [rest : Rests, servers : {Absent} \cup [Servers -> Entries \cup {Absent}]]
      BY <1>1, <2>2 DEF IsObject
    <3>2. new \in [Servers -> Entries \cup {Absent}] /\ new[Dapz] = Entry
      BY <3>1
    <3>3. WithDapz(s) = [root EXCEPT !.servers = new]
      BY DEF WithDapz
    <3> HIDE DEF root, new
    <3>4. WithDapz(s) \in Objects /\ WithDapz(s).servers = new
      BY <3>1, <3>2, <3>3
    <3>5. saved \in Files
      BY <1>1 DEF Files
    <3>6. r.files.settings = WithDapz(s)
      BY <2>2, <3>5 DEF Files
    <3> QED
      <4>1. HasServers(r.files.settings) /\ r.files.settings.servers[Dapz] = Entry
        BY <3>2, <3>4, <3>6 DEF HasServers, IsObject
      <4>2. Entry # Absent /\ Entry.command = Binary
        <5>1. Entry # Absent
          OBVIOUS
        <5> QED
          BY <5>1 DEF Entry
      <4> QED
        BY <4>1, <4>2, Zenon DEF Registered
  <2> QED
    BY <2>1, <2>2
<1>3. ASSUME NEW r \in RemoveMcpServer(files, FALSE), r.how # "failed"
      PROVE  Server(r.files.settings, Dapz) = Absent
  <2>1. \/ r.files = files /\ Server(s, Dapz) = Absent
        \/ HasServers(s) /\ r.files = [files EXCEPT !.settings.servers[Dapz] = Absent]
    <3> HIDE DEF Constants, Distinct
    <3>1. \/ r.files = files /\ (~HasServers(s) \/ s.servers[Dapz] = Absent)
          \/ HasServers(s) /\ r.files = [files EXCEPT !.settings.servers[Dapz] = Absent]
      BY <1>3 DEF RemoveMcpServer, Fails, Result
    <3> QED
      BY <3>1, Zenon DEF Server
  <2>2. CASE HasServers(s) /\ r.files = [files EXCEPT !.settings.servers[Dapz] = Absent]
    <3> DEFINE new == [s.servers EXCEPT ![Dapz] = Absent]
    <3>1. s \in Objects /\ s.servers \in [Servers -> Entries \cup {Absent}]
      BY <1>1, <2>2 DEF HasServers, IsObject
    <3>2. new[Dapz] = Absent /\ r.files.settings = [s EXCEPT !.servers = new]
      BY <2>2, <3>1 DEF Files
    <3> HIDE DEF new
    <3> QED
      BY <3>1, <3>2 DEF Server
  <2> QED
    BY <2>1, <2>2
<1> QED
  BY <1>2, <1>3

\* An init that succeeds, from any files, those a failed init has left among them, leaves what
\* --show calls ok, keeps the text of CLAUDE.md, and changes nothing when it is run once more.
THEOREM InitInstalls ==
    ASSUME Constants, NEW files \in Files, NEW force,
           NEW r \in RunInit(files, FALSE, FALSE, force)
    PROVE  r.how # "failed" =>
             /\ ShowConfig(r.files) = [mcp |-> TRUE, dapz |-> TRUE, claude |-> TRUE]
             /\ files.claude # Absent => r.files.claude.rest = files.claude.rest
             /\ \A again \in RunInit(r.files, FALSE, FALSE, FALSE) : again.files = r.files
<1>0. SUFFICES ASSUME r.how # "failed"
               PROVE  /\ ShowConfig(r.files) = [mcp |-> TRUE, dapz |-> TRUE, claude |-> TRUE]
                      /\ files.claude # Absent => r.files.claude.rest = files.claude.rest
                      /\ \A again \in RunInit(r.files, FALSE, FALSE, FALSE) : again.files = r.files
  OBVIOUS
<1>d. PICK dryRun : dryRun = FALSE
  OBVIOUS
<1>1. PICK q \in WriteDapzMd(files, FALSE, force) :
        /\ q.how # "failed"
        /\ \E s \in PatchClaudeMdRef(q.files, FALSE, force) :
             s.how # "failed" /\ r \in PatchMcpServer(s.files, FALSE, force)
  BY <1>0, InitSteps
<1>2. PICK s \in PatchClaudeMdRef(q.files, FALSE, force) :
        s.how # "failed" /\ r \in PatchMcpServer(s.files, FALSE, force)
  BY <1>1
<1>3. q.files \in Files /\ q.files.claude = files.claude /\ q.files.dapz = Template
  <2>1. q.files \in Files /\ q.files.claude = files.claude
    <3>1. q \in WriteDapzMd(files, dryRun, force) \cup RemoveDapzMd(files, dryRun)
      BY <1>d
    <3> QED
      BY <3>1, DapzMdStep
  <2>2. q.files.dapz = Template
    BY <1>1, DapzMdDone, Zenon
  <2> QED
    BY <2>1, <2>2
<1>4. /\ s.files \in Files /\ s.files.dapz = Template /\ HasRef(s.files.claude)
      /\ files.claude # Absent => s.files.claude.rest = files.claude.rest
  <2>1. s \in PatchClaudeMdRef(q.files, dryRun, force) \cup RemoveClaudeMdRef(q.files, dryRun)
    BY <1>d
  <2>2. s.files \in Files /\ s.files.dapz = q.files.dapz
    BY <1>3, <2>1, ClaudeMdStep
  <2>3. HasRef(s.files.claude) /\ (q.files.claude # Absent => s.files.claude.rest = q.files.claude.rest)
    BY <1>2, <1>3, ClaudeMdDone, Zenon
  <2> QED
    BY <1>3, <2>2, <2>3
<1>5. /\ r.files \in Files /\ r.files.dapz = Template /\ r.files.claude = s.files.claude
      /\ Registered(r.files.settings)
  <2>1. r \in PatchMcpServer(s.files, dryRun, force) \cup RemoveMcpServer(s.files, dryRun)
    BY <1>2, <1>d
  <2>2. r.files \in Files /\ r.files.dapz = s.files.dapz /\ r.files.claude = s.files.claude
    BY <1>4, <2>1, SettingsStep
  <2>3. Registered(r.files.settings)
    BY <1>0, <1>2, <1>4, SettingsDone, Zenon
  <2> QED
    BY <1>4, <2>2, <2>3
<1>6. Template # Absent
  BY DEF Constants, Distinct
<1>7. ASSUME NEW again \in RunInit(r.files, FALSE, FALSE, FALSE)
      PROVE  again.files = r.files
  <2>1. \A x \in WriteDapzMd(r.files, FALSE, FALSE) : x.files = r.files
    BY <1>5 DEF WriteDapzMd, Fails, Result
  <2>2. \A x \in PatchClaudeMdRef(r.files, FALSE, FALSE) : x.files = r.files
    BY <1>4, <1>5 DEF PatchClaudeMdRef, Fails, Result
  <2>3. \A x \in PatchMcpServer(r.files, FALSE, FALSE) : x.files = r.files
    BY <1>5 DEF PatchMcpServer, Fails, Result
  <2> QED
    BY <1>7, <2>1, <2>2, <2>3, InitSteps
<1> QED
  BY <1>4, <1>5, <1>6, <1>7 DEF ShowConfig

\* An uninstall that succeeds, from any files, leaves no DAPZ.md, no line in CLAUDE.md that is
\* the reference and no server dapz, and the text of CLAUDE.md as it was.
THEOREM UninstallUndoes ==
    ASSUME Constants, NEW files \in Files,
           NEW r \in RunUninstall(files, FALSE), r.how # "failed"
    PROVE  /\ r.files.dapz = Absent /\ Server(r.files.settings, Dapz) = Absent
           /\ \/ r.files.claude = Absent /\ files.claude = Absent
              \/ /\ r.files.claude \in ClaudeMd /\ files.claude \in ClaudeMd
                 /\ r.files.claude.refs = 0 /\ r.files.claude.rest = files.claude.rest
<1>1. PICK q \in RemoveDapzMd(files, FALSE) :
        /\ q.how # "failed"
        /\ \E s \in RemoveClaudeMdRef(q.files, FALSE) :
             s.how # "failed" /\ r \in RemoveMcpServer(s.files, FALSE)
  BY UninstallSteps
<1>2. PICK s \in RemoveClaudeMdRef(q.files, FALSE) :
        s.how # "failed" /\ r \in RemoveMcpServer(s.files, FALSE)
  BY <1>1
<1>3. q.files \in Files /\ q.files.claude = files.claude /\ q.files.dapz = Absent
  BY <1>1, DapzMdStep, DapzMdDone
<1>4. s.files \in Files /\ s.files.dapz = Absent
  BY <1>2, <1>3, ClaudeMdStep
<1>5. \/ s.files.claude = Absent /\ files.claude = Absent
      \/ /\ s.files.claude \in ClaudeMd /\ files.claude \in ClaudeMd
         /\ s.files.claude.refs = 0 /\ s.files.claude.rest = files.claude.rest
  BY <1>2, <1>3, ClaudeMdDone
<1>6. r.files.dapz = Absent /\ r.files.claude = s.files.claude
  BY <1>2, <1>4, SettingsStep
<1>7. Server(r.files.settings, Dapz) = Absent
  BY <1>2, <1>4, SettingsDone
<1> QED
  BY <1>5, <1>6, <1>7
=============================================================================
