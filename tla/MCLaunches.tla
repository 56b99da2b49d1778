----------------------------- MODULE MCLaunches -----------------------------
(***************************************************************************)
(* Small disks for Launches.  Each begins with one thing to tell: several  *)
(* layers of configuration, two servers, skills of the same name, a page   *)
(* to fetch, or nothing at all.                                            *)
(***************************************************************************)
EXTENDS Launches

Str(key, text) == [key |-> key, text |-> text, number |-> -1]
Num(key, n) == [key |-> key, text |-> "a number", number |-> n]

MClower(word) == CASE word = "Fix" -> "fix" [] word = "HELP" -> "help" [] OTHER -> word

MCStarter == <<Str("base_url", "http://localhost"), Str("model", "local-model"),
               Num("context_size", 0), Str("auto_compact", "true"),
               Num("max_tool_iterations", 50 % 8), Str("allow_web", "false"),
               Str("mcp_config", "")>>
MCTorn == {<<>>, <<Malformed>>, <<Str("base_url", "http://")>>}

Url == Str("base_url", "http://a")
Layered ==
  [user |-> <<Url, Str("model", "m1"), Str("allow", "run_bash"), Str("deny", ""),
              Str("system_prompt", "be brief"), Num("max_tool_iterations", 3)>>,
   bin |-> <<Str("model", ""), Str("auto_compact", "off"), Str("deny", "write_file"),
             Num("max_tool_iterations", 8)>>,
   local |-> <<Str("base_url", ""), Str("allow", "make_dir"), Str("allow", "run_bash"),
               Num("context_size", 5)>>]
Only(doc) == [user |-> doc, bin |-> Absent, local |-> Absent]
Bare == [user |-> Absent, bin |-> Absent, local |-> Absent]
Serving == Only(<<Url, Str("mcp_config", "servers.json")>>)
Browsing == Only(<<Url, Str("allow_web", "yes")>>)

Body(text) == [key |-> "text", value |-> text]
Name(name) == [key |-> "name", value |-> name]
NoSkills == [local |-> <<>>, user |-> <<>>]
ManySkills ==
  [local |-> [a |-> <<Blank, Fence, Name("x"), Name("Fix"), Fence, Blank, Body("1"), Blank>>,
              b |-> <<Fence, Name("fix"), Fence, Body("2")>>,
              c |-> <<Fence, Name("c"), Fence>>,
              help |-> <<Body("3")>>],
   user |-> [a |-> <<Fence, Name("a"), Body("4")>>,
             b |-> <<Body("5"), Fence>>,
             c |-> <<Body("6"), Blank, Body("7")>>,
             help |-> <<Fence, Name("fix"), Fence, Body("8")>>]]
MCStems == <<"a", "b", "c", "help">>

A == <<"a">>
A_ == <<"a", "_">>

Page(type, tokens) == [type |-> type, tokens |-> tokens]
MCPages ==
  {Page("html", <<"<script", ">", "var", "<", "x", "</script", ">", "<p", ">", "a", "&lt", ";">>),
   Page("html", <<"<p", ">", " ", Newline, "a", "<b", ">", "b", "</b", ">", " ", "&lt", ";", "p", ">",
                  "<br", ">", "<br", ">", "</p", ">", "c", " ">>),
   Page("html", <<"<style", " ", ">", "a">>),
   Page("", <<"<html", ">", "a", "&lt", "b">>),
   Page("plain", <<"<p", ">", " ", "a", Newline>>)}

Disk(config, local, bin, dirs) ==
  [config |-> config, agents |-> [local |-> local, bin |-> bin], skills |-> dirs]
Scene(files, servers, docs, replies) ==
  [disk |-> files, servers |-> servers, docs |-> docs, replies |-> replies, pages |-> {},
   env |-> [base_url |-> "", model |-> ""]]
Notes ==
  {<<"notes">>, <<FenceMark, "md", Newline, "notes", Newline, FenceMark>>,
   <<" ", FenceMark, Newline, FenceMark, Newline>>, <<FenceMark, Newline, FenceMark>>,
   <<FenceMark, "sh", Newline, "notes", Newline>>}
Docs == {<<Url>>, <<Str("auto_compact", "maybe")>>, <<Num("max_tool_iterations", 0)>>}
MCScenes ==
  {Scene(Disk(Bare, <<>>, <<>>, NoSkills), <<>>, Docs, {}),
   Scene(Disk(Layered, <<>>, <<>>, NoSkills), <<>>, Docs, {}),
   [Scene(Disk(Layered, <<>>, <<"rules">>, ManySkills), <<>>, Docs, {}) EXCEPT
     !.env = [base_url |-> "http://b", model |-> "m2"]],
   Scene(Disk(Only(<<Url>>), <<"old">>, <<"rules">>, ManySkills), <<>>, {}, Notes),
   Scene(Disk(Only(<<Malformed>>), <<>>, <<>>, NoSkills), <<>>, Docs, {}),
   Scene(Disk(Serving, <<>>, <<>>, NoSkills), <<A, A_>>, {}, {}),
   Scene(Disk(Serving, <<>>, <<>>, NoSkills), <<A_>>, {<<Str("allow_web", "1")>>}, {}),
   [Scene(Disk(Browsing, <<>>, <<>>, NoSkills), <<>>, {}, {}) EXCEPT !.pages = MCPages]}

ReadFile == <<"read", "_", "file">>
FetchUrl == <<"fetch", "_", "url">>
MCServerTools ==
  [server \in {A, A_} |->
     IF server = A THEN {<<>>, <<<<"_", "b">>>>} ELSE {<<>>, <<<<"b">>, FetchUrl, ReadFile>>}]
MCProcs == (1..MaxLaunches) \X {A, A_}
MCPolite == MCProcs \ {<<2, A>>, <<2, A_>>}
MCObedient == MCProcs \ {<<2, A>>}
MCAnswering == MCProcs \ {<<1, A_>>}
MCBuiltIns == <<ReadFile, <<"write", "_", "file">>, <<"run", "_", "bash">>>>
MCWebTools == <<FetchUrl, <<"web", "_", "search">>>>

MCAskedChars == {0, 3, 9}
=============================================================================
