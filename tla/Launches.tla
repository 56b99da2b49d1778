------------------------------ MODULE Launches ------------------------------
(***************************************************************************)
(* The program from one launch to the next (src/src/main.cpp): it loads    *)
(* its configuration, starts the MCP servers, looks for skills, runs, and  *)
(* ends by /quit or by a signal or an exception.  What is on the disk and  *)
(* the servers that outlive it are there at the next launch.  While it     *)
(* runs, /init writes AGENTS.md, pages are fetched, and commands are left  *)
(* in the background; turns, dialogs and the screen are the other modules'.*)
(***************************************************************************)
EXTENDS Config, Skills, McpServers, WebFetch

CONSTANTS Scenes,       \* what may be on the disk at first and in the environment,
                        \* the servers in the file mcp_config names, the pages there
                        \* are, the documents the user may write and what the model
                        \* may answer to /init
          Starter,      \* the settings of exampleConfig
          Torn,         \* what a write of it that fails may leave
          ServerTools,  \* each server's: the lists of tools it may answer with
          BuiltIns, WebTools,  \* default_tools' names
          MaxLaunches   \* bound: launches

ASSUME MaxLaunchesAssumption == MaxLaunches \in Nat

\* The name of a server or a tool is a sequence of pieces, "_" a piece of its own.
\* The program's own tools have, in the place of a server, the program.
Own == <<"the program">>

\* A disk has these files; no server is called what the model calls the program.
ASSUME ScenesAssumption ==
  \A s \in Scenes :
    /\ s.disk = [config |-> s.disk.config, agents |-> s.disk.agents, skills |-> s.disk.skills]
    /\ s.disk.config = [user |-> s.disk.config.user, bin |-> s.disk.config.bin,
                        local |-> s.disk.config.local]
    /\ s.disk.agents = [local |-> s.disk.agents.local, bin |-> s.disk.agents.bin]
    /\ s.servers \in Seq(Seq(STRING))
    /\ Own \notin ToSet(s.servers)
    /\ s.pages \subseteq Pages

\* Files and replies are texts.
ASSUME TextsAssumption ==
  /\ \A s \in Scenes :
       /\ \A place \in {"user", "bin", "local"} :
            s.disk.config[place] \in Seq(Settings) \cup {Absent}
       /\ s.docs \subseteq Seq(Settings)
       /\ s.replies \subseteq Seq(STRING)
       /\ s.env.base_url \in STRING /\ s.env.model \in STRING
  /\ {Starter} \cup Torn \subseteq Seq(Settings)

\* A name in lower case is in lower case.
ASSUME LowerAssumption ==
  \A s \in Scenes : \A word \in Words(s.disk.skills) : lower(lower(word)) = lower(word)

ASSUME ProcsAssumption ==
  /\ Procs \subseteq (1..MaxLaunches) \X Seq(STRING)
  /\ \A s \in Scenes : (1..MaxLaunches) \X ToSet(s.servers) \subseteq Procs

\* default_tools makes one tool of a name.
ASSUME ToolsAssumption ==
  /\ \A names \in {BuiltIns, BuiltIns \o WebTools} :
       names \in Seq(Seq(STRING)) /\ \A i, j \in DOMAIN names : names[i] = names[j] => i = j
  /\ \A s \in Scenes : \A server \in ToSet(s.servers) : ServerTools[server] \subseteq Seq(Seq(STRING))

\* Nothing in exampleConfig is rejected, and it says where the server is.
ASSUME StarterAssumption ==
  /\ Starter # Absent
  /\ Accepted(Starter)
  /\ InForce(Starter, "base_url") # <<>> /\ InForce(Starter, "base_url")[1].text # ""

VARIABLES
  phase,      \* "shell", "starting", "running" or "quitting"
  scene,      \* the one this behaviour began with
  launch,     \* the number of the current or last launch
  disk,       \* config.conf and AGENTS.md in their places, skills in theirs
  extra,      \* the command line's file, Absent if there is none
  cfg,        \* the configuration of the program that runs
  prompt,     \* its system prompt
  skills,     \* App::skills_
  tools,      \* Agent::tools_: [name, owner, remote]
  starting,   \* the servers make_mcp_tools has still to start
  said,       \* what the last launch said as it ended
  inited,     \* history: what /init made the prompt last, if AGENTS.md has it all
  meanings    \* history: what each launch's names of tools meant, with or without web

launchVars == <<scene, extra, launch>>
setupVars == <<cfg, prompt, skills, tools, starting>>
logVars == <<said, inited, meanings>>
programVars == <<phase, launchVars, disk, setupVars, logVars>>
vars == <<programVars, mcpVars, fetchVars>>

\* The process of a server in this launch.
Proc(server) == <<launch, server>>

NotRunning == [cfg |-> DefaultConfig, prompt |-> <<>>, skills |-> <<>>, tools |-> <<>>]

Forget ==
  /\ cfg' = NotRunning.cfg
  /\ prompt' = NotRunning.prompt
  /\ skills' = NotRunning.skills
  /\ tools' = NotRunning.tools
  /\ starting' = <<>>

Init ==
  /\ McpInit
  /\ FetchInit
  /\ phase = "shell"
  /\ launch = 0
  /\ scene \in Scenes
  /\ disk = scene.disk
  /\ extra = Absent
  /\ cfg = NotRunning.cfg
  /\ prompt = NotRunning.prompt
  /\ skills = NotRunning.skills
  /\ tools = NotRunning.tools
  /\ starting = <<>>
  /\ said = ""
  /\ inited = <<>>
  /\ meanings = {}

-----------------------------------------------------------------------------
(* Launching.                                                               *)

\* AGENTS.md of the working directory, else the one beside the binary, unless
\* empty; else the configuration's.
resolveSystemPrompt(config) ==
  LET candidates == <<disk.agents.local, disk.agents.bin>>
      filled == {i \in DOMAIN candidates : candidates[i] # <<>>}
  IN  IF filled = {} THEN <<config.system_prompt>> ELSE candidates[Min(filled)]

\* try_write: the whole of it, nothing, or no more than a part of it.  The stream is
\* looked at before it is closed: what is lost then is taken for written.
Writes(place, doc, done) ==
  \/ done = "written" /\ doc \in {Starter} \cup Torn
  \/ done = "unopened" /\ doc = disk.config[place]
  \/ done = "failed" /\ doc \in Torn

Created == [bin |-> "created beside the binary", local |-> "created where the user is"]

\* writeStarterConfig: beside the binary or, failing that, where the user is.
writeStarterConfig ==
  \E beside, here \in {"written", "unopened", "failed"},
     binDoc, localDoc \in {Starter, Absent} \cup Torn :
    /\ Writes("bin", binDoc, beside)
    /\ IF beside = "written" THEN here = "unopened" /\ localDoc = disk.config.local
       ELSE Writes("local", localDoc, here)
    /\ disk' = [disk EXCEPT !.config = [user |-> @.user, bin |-> binDoc, local |-> localDoc]]
    /\ said' = IF beside = "written" THEN Created.bin
               ELSE IF here = "written" THEN Created.local ELSE "create one"

\* The file of the command line is not one of those looked for.
HasConfig == \E i \in DOMAIN Layers : disk.config[Layers[i]] # Absent

\* A mistake: any missing base_url is answered with a starter configuration.
ConfigError_AlwaysWrites ==
  /\ writeStarterConfig
  /\ UNCHANGED <<phase, setupVars, scene, inited, meanings>>

\* The handler of ConfigError in main.
ConfigError ==
  /\ IF HasConfig
       THEN said' = "edit it" /\ disk' = disk
       ELSE writeStarterConfig
  /\ UNCHANGED <<phase, setupVars, scene, inited, meanings>>

\* main up to the servers: Agent::Agent reads their file, when one is named.
Configured(config) ==
  /\ phase' = "starting"
  /\ cfg' = config
  /\ prompt' = resolveSystemPrompt(config)
  /\ tools' = LET names == IF config.allow_web THEN BuiltIns \o WebTools ELSE BuiltIns
              IN [i \in DOMAIN names |-> [name |-> names[i], owner |-> Own, remote |-> names[i]]]
  /\ starting' = IF config.mcp_config = "" THEN <<>> ELSE scene.servers
  /\ said' = ""
  /\ UNCHANGED <<disk, scene, skills, inited, meanings>>

Launch(extraFile) ==
  /\ phase = "shell"
  /\ launch < MaxLaunches
  /\ launch' = launch + 1
  /\ extra' = extraFile
  /\ LET config == loadConfig(disk.config, extraFile, scene.env)
     IN  IF config.error = "" THEN Configured(config) ELSE ConfigError
  /\ UNCHANGED <<mcpVars, fetchVars>>

-----------------------------------------------------------------------------
(* make_mcp_tools, one server after the other.                              *)

Connecting == phase = "starting" /\ starting # <<>> /\ closing = Nobody

NextServer == starting' = Tail(starting)

SpawnServer ==
  /\ Connecting
  /\ Spawn(Proc(Head(starting)))
  /\ UNCHANGED <<programVars, fetchVars>>

\* pipe or fork fails.
SpawnFails ==
  /\ Connecting
  /\ proc[Proc(Head(starting))] = "none"
  /\ NextServer
  /\ UNCHANGED <<phase, launchVars, disk, logVars, cfg, prompt, skills, tools,
                 mcpVars, fetchVars>>

\* A mistake: names get their server's only when another server has started.
Exposed_IfOthers(server, tool) ==
  IF \E t \in ToSet(tools) : t.owner \notin {Own, server}
  THEN server \o <<"_", "_">> \o tool ELSE tool

\* The name a server's tool has for the model: the tool's own, as long as there
\* is but one server in the file.
Exposed(server, tool) ==
  IF Len(scene.servers) > 1 THEN server \o <<"_", "_">> \o tool ELSE tool

\* What the servers in the file may answer to tools/list.
ToolLists == UNION {ServerTools[server] : server \in ToSet(scene.servers)}

\* The handshake succeeds: the server's tools hold its client.
Handshaken(remote) ==
  LET server == Head(starting)
      added == [i \in DOMAIN remote |-> [name |-> Exposed(server, remote[i]), owner |-> server,
                                         remote |-> remote[i]]]
  IN  /\ Connecting
      /\ proc[Proc(server)] = "running"
      /\ remote # <<>> /\ remote \in ServerTools[server]
      /\ Keep(Proc(server))
      /\ tools' = tools \o added
      /\ NextServer
      /\ UNCHANGED <<phase, launchVars, disk, logVars, cfg, prompt, skills, fetchVars>>

\* It fails, for the server has exited, says no or says nothing in time; or it
\* succeeds and there are no tools.  The client goes, and its transport.
NotHandshaken ==
  /\ Connecting
  /\ proc[Proc(Head(starting))] \in {"running", "exited"}
  /\ ClosePipes(Proc(Head(starting)))
  /\ kept' = kept
  /\ NextServer
  /\ UNCHANGED <<phase, launchVars, disk, logVars, cfg, prompt, skills, tools,
                 fetchVars>>

\* The handshake of a server that has exited, or that does its part, ends.
HandshakeEnds ==
  /\ Connecting
  /\ Proc(Head(starting)) \in Answering \/ proc[Proc(Head(starting))] = "exited"
  /\ NotHandshaken \/ \E remote \in ToolLists : Handshaken(remote)

\* The first of that name, if there is one.
find_tool(name) ==
  LET named == {i \in DOMAIN tools : tools[i].name = name}
  IN  {tools[i] : i \in {j \in named : \A k \in named : j <= k}}

\* The tools that their names find.
Found == {t \in ToSet(tools) : find_tool(t.name) = {t}}

\* The Agent is there; App::skills_ is its next member.
Started ==
  /\ phase = "starting"
  /\ starting = <<>>
  /\ closing = Nobody
  /\ phase' = "running"
  /\ skills' = loadSkills(disk.skills)
  /\ meanings' = meanings \cup {[tool |-> t, web |-> cfg.allow_web] : t \in Found}
  /\ UNCHANGED <<launchVars, disk, said, inited, cfg, prompt, tools, starting, mcpVars,
                 fetchVars>>

-----------------------------------------------------------------------------
(* Running.                                                                 *)

Running == phase = "running"

FenceMark == "three backticks"
White == {" ", Newline}

\* A reply that opens with a fence loses that line and, if it ends with a fence,
\* its last line.  The search for that line begins three characters before the
\* end of the fence: a fence with nothing before it makes that wrap around.
stripCodeFence(s) ==
  LET Filled(t) == {i \in DOMAIN t : t[i] \notin White}
      Lines(t) == {i \in DOMAIN t : t[i] = Newline}
      first == IF Filled(s) = {} THEN 0 ELSE Min(Filled(s))
      lineEnds == {i \in Lines(s) : i > first}
      inner == SubSeq(s, Min(lineEnds) + 1, Len(s))
      last == IF Filled(inner) = {} THEN 0 ELSE Max(Filled(inner))
      before == IF last = 1 THEN Lines(inner) ELSE {i \in Lines(inner) : i < last}
  IN  IF first = 0 \/ s[first] # FenceMark \/ lineEnds = {} THEN s
      ELSE IF last = 0 \/ inner[last] # FenceMark THEN inner
      ELSE SubSeq(inner, 1, Max({0} \cup before))

Lined(text) == IF Last(text) = Newline THEN text ELSE Append(text, Newline)

\* finish_init.  That only a part of the file's contents, or nothing, has reached
\* the disk goes unnoticed.
FinishInit(reply) ==
  LET content == stripCodeFence(reply)
  IN  /\ Running
      /\ content # <<>>
      /\ \E n \in 0..Len(Lined(content)) :
           /\ disk' = [disk EXCEPT !.agents.local = SubSeq(Lined(content), 1, n)]
           /\ inited' = IF n = Len(Lined(content)) THEN content ELSE <<>>
      /\ prompt' = content
      /\ UNCHANGED <<phase, launchVars, said, meanings, cfg, skills, tools, starting,
                     mcpVars, fetchVars>>

CallFetch(p, chars) ==
  /\ Running
  /\ \E t \in find_tool(<<"fetch", "_", "url">>) : t.owner = Own
  /\ Fetch(p, chars)
  /\ UNCHANGED <<programVars, mcpVars>>

FetchStep == Running /\ FetchNext /\ UNCHANGED <<programVars, mcpVars>>

\* run_bash's shell leaves a command behind, which lives as long as it likes.
JobStarts ==
  /\ Running
  /\ writers' = Inherits(Job)
  /\ writers' # writers
  /\ UNCHANGED <<programVars, proc, termed, kept, closing, polls, fetchVars>>

JobEnds ==
  /\ writers' = Releases(Job)
  /\ writers' # writers
  /\ UNCHANGED <<programVars, proc, termed, kept, closing, polls, fetchVars>>

-----------------------------------------------------------------------------
(* Ending.                                                                  *)

\* A mistake: /quit does not ask for the turn to be over.
Quit_AnyTime ==
  /\ Running
  /\ phase' = "quitting"
  /\ UNCHANGED <<launchVars, disk, setupVars, logVars, mcpVars, fetchVars>>

\* No command is read while a turn is in flight.
Quit ==
  /\ Running
  /\ transfer # "receiving"
  /\ phase' = "quitting"
  /\ UNCHANGED <<launchVars, disk, setupVars, logVars, mcpVars, fetchVars>>

\* The tools are destroyed in their order, with its last tool each client.
CloseNext ==
  /\ phase = "quitting"
  /\ kept # <<>>
  /\ ClosePipes(Head(kept))
  /\ kept' = Tail(kept)
  /\ UNCHANGED <<programVars, fetchVars>>

Ended_Program ==
  /\ phase = "quitting"
  /\ kept = <<>>
  /\ closing = Nobody
  /\ phase' = "shell"
  /\ Forget
  /\ UNCHANGED <<launchVars, disk, logVars, mcpVars, fetchVars>>

Destroys == (Poll \/ Terminate \/ Reap) /\ UNCHANGED <<programVars, fetchVars>>

\* SIGPIPE, or an exception nobody catches: no destructor runs.
Dies ==
  /\ phase \in {"starting", "running"}
  /\ phase' = "shell"
  /\ Forget
  /\ Abandon
  /\ transfer' = "none"
  /\ UNCHANGED <<launchVars, disk, logVars, page, sent, body, max_chars, fetched,
                 fetches>>

\* Between launches the user writes the configuration of the working directory.
Edit(doc) ==
  /\ phase = "shell"
  /\ launch \in 1..(MaxLaunches - 1)
  /\ disk.config.local # doc
  /\ disk' = [disk EXCEPT !.config.local = doc]
  /\ said' = ""
  /\ UNCHANGED <<phase, launchVars, setupVars, inited, meanings, mcpVars, fetchVars>>

ServerStep(p) == Exits(p) /\ UNCHANGED <<programVars, fetchVars>>

\* Nothing is left to be done.
Done == phase = "shell" /\ launch = MaxLaunches /\ UNCHANGED vars

Program_Next ==
  \/ \E extraFile \in {Absent} \cup scene.docs : Launch(extraFile)
  \/ SpawnServer \/ SpawnFails \/ NotHandshaken \/ Started
  \/ \E remote \in ToolLists : Handshaken(remote)
  \/ \E reply \in scene.replies : FinishInit(reply)
  \/ \E p \in scene.pages, chars \in AskedChars : CallFetch(p, chars)
  \/ FetchStep
  \/ Quit \/ CloseNext \/ Destroys \/ Ended_Program
  \/ Dies

World_Next ==
  \/ JobStarts \/ JobEnds
  \/ \E doc \in scene.docs : Edit(doc)
  \/ \E p \in Procs : ServerStep(p)

Next == Program_Next \/ World_Next \/ Done

\* The program goes on with what it has begun, a handshake with what the server does:
\* a time limit is one for an answer's next piece.  A server exits at the end of its
\* input if it is polite, and when it is sent SIGTERM if it is obedient.
Spec ==
  /\ Init
  /\ [][Next]_vars
  /\ WF_vars(SpawnServer \/ CloseNext \/ Ended_Program)
  /\ WF_vars(HandshakeEnds)
  /\ WF_vars(Destroys)
  /\ \A p \in Polite : WF_vars(ExitsAtEof(p) /\ UNCHANGED <<programVars, fetchVars>>)
  /\ \A p \in Obedient : WF_vars(ExitsByTerm(p) /\ UNCHANGED <<programVars, fetchVars>>)

-----------------------------------------------------------------------------
LaunchTypeOK ==
  /\ McpTypeOK
  /\ phase \in {"shell", "starting", "running", "quitting"}
  /\ launch \in 0..MaxLaunches
  /\ cfg.error = ""
  /\ phase = "shell" => kept = <<>> /\ closing = Nobody
  /\ \A p \in Procs : proc[p] # "none" => p[1] <= launch
  /\ transfer \in {"none", "receiving", "done"}
  /\ transfer = "receiving" => phase = "running" /\ Len(body) <= MaxBytes
  /\ said \in {"", Created.bin, Created.local, "create one", "edit it"}

\* A launch runs with what the files say together: each key has its last value in
\* the user's, the binary's, the working directory's and the command line's file, a
\* number if an int can hold it, and the environment's wins; the nearest AGENTS.md
\* that says anything is the system prompt, and what /init has made the prompt of one
\* launch is that of the next, if all of it has reached the disk; a word runs the
\* nearest skill of that name (Config.hpp:98-108, SystemPrompt.cpp:18-26,
\* App.cpp:285-289, Skill.hpp:42-44).
LayersInOrder ==
  [][/\ phase = "shell" /\ phase' = "starting" =>
          /\ MeansLayers(cfg', disk.config, extra', scene.env)
          /\ disk.agents.local # <<>> => prompt' = disk.agents.local
          /\ disk.agents.local = <<>> /\ disk.agents.bin # <<>> => prompt' = disk.agents.bin
          /\ disk.agents.local = <<>> /\ disk.agents.bin = <<>> => prompt' = <<cfg'.system_prompt>>
          /\ inited # <<>> => prompt' = Lined(inited)
     /\ phase = "shell" /\ launch' # launch /\ phase' = "shell" =>
          ~MeansLayers([loadConfig(disk.config, extra', scene.env) EXCEPT !.error = ""],
                       disk.config, extra', scene.env)
     /\ disk'.agents # disk.agents => Running
     /\ phase' = "running" /\ phase # "running" => MeansFiles(skills', disk.skills)]_vars

\* No launch writes over a configuration.  And where it says it has created one, and
\* all of it has reached the disk, the next launch has one it can run with, whatever
\* other writes have left there that the program can read (main.cpp:75-95,
\* Config.cpp:299-313).
StarterHelps ==
  [][launch' # launch =>
       /\ \A place \in DOMAIN disk.config :
            disk.config[place] # Absent => disk'.config[place] = disk.config[place]
       /\ \A place \in DOMAIN Created :
            /\ said' = Created[place]
            /\ disk'.config[place] = Starter
            /\ Accepted(AllSettings(disk'.config, Absent))
            => loadConfig(disk'.config, Absent, scene.env).error = ""]_vars

\* Two servers, of one of which the name and "__" begin the other's, so that a tool
\* of each may have the same name: a's _b and a_'s b are both a___b.
Clash(server, other) ==
  LET front == server \o <<"_", "_">>
      rest == other \o <<"_", "_">>
  IN  server # other /\ (IsPrefix(front, rest) \/ IsPrefix(rest, front))

\* A name the model or a rule of the policy has for a tool means the same tool, and a
\* tool has the same name, in every launch with the same servers and allow_web,
\* whichever of the servers start, unless their own names clash; and no server's
\* tool takes the place of one of the program's own (McpClient.cpp:186-203,
\* Agent.cpp:11-17, 86-90).
NamesStable ==
  /\ \A m, n \in meanings :
       /\ m.web = n.web /\ m.tool.name = n.tool.name /\ ~Clash(m.tool.owner, n.tool.owner)
            => m.tool = n.tool
       /\ m.tool.owner = n.tool.owner /\ m.tool.remote = n.tool.remote => m.tool = n.tool
  /\ \A i \in DOMAIN tools : tools[i].owner = Own => find_tool(tools[i].name) = {tools[i]}

\* The program waits for a handshake that has no end, or for a server that ignores
\* the SIGTERM it has been sent.
Stuck ==
  \/ Connecting /\ proc[Proc(Head(starting))] = "running" /\ Proc(Head(starting)) \notin Answering
  \/ closing \in termed \ Obedient /\ proc[closing] = "running"

\* Unless it is stuck for ever, a launch gets past its servers and /quit ends; with
\* every server of the launch reaped, those too whose handshake failed; and when the
\* program dies instead, the polite servers end in time, all of them, though they
\* hold each other's pipes (Transport.cpp:35-49, 65-120).
ServersEnd ==
  /\ []<>~Stuck =>
       /\ phase = "starting" ~> (starting = <<>> /\ closing = Nobody)
       /\ phase = "quitting" ~> phase = "shell"
  /\ [][phase = "quitting" /\ phase' = "shell" =>
          \A p \in Procs : p[1] = launch => proc[p] \in {"none", "reaped"}]_vars
  /\ \A p \in Polite :
       proc[p] = "running" /\ writers[p] \subseteq Polite ~> proc[p] # "running"
=============================================================================
