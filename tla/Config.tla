------------------------------- MODULE Config -------------------------------
(***************************************************************************)
(* The configuration (src/src/app/Config.cpp): documents of `key = value`  *)
(* lines merged one over the other, then the environment.  A document is a *)
(* sequence of settings; comments, blank lines and unknown keys are left   *)
(* out, for they do nothing.  A setting's value is a text and, for the     *)
(* keys that want one, the number it spells: -1 stands for a text that     *)
(* spells none, which every such key rejects as it rejects -1.             *)
(***************************************************************************)
EXTENDS Integers, Sequences, SequencesExt

CONSTANT IntLimit   \* one more than the greatest int, 2^31 in the build; a long is wider

ASSUME IntLimitAssumption == IntLimit \in Nat \ {0}

TextKeys == {"base_url", "model", "system_prompt", "mcp_config"}
BoolKeys == {"allow_web", "auto_compact"}
RuleKeys == {"allow", "deny"}
NumberKeys == {"context_size", "max_tool_iterations"}
Keys == TextKeys \cup BoolKeys \cup RuleKeys \cup NumberKeys
Smallest == [context_size |-> 0, max_tool_iterations |-> 1]

\* A line without '=': the key of no setting.
Malformed == [key |-> "malformed", text |-> "", number |-> -1]

Settings == [key : Keys, text : STRING, number : Int] \cup {Malformed}

\* No file.
Absent == <<[key |-> "absent", text |-> "", number |-> -1]>>

DefaultConfig ==
  [base_url |-> "", model |-> "", system_prompt |-> "", mcp_config |-> "",
   allow_web |-> FALSE, auto_compact |-> TRUE, context_size |-> 0,
   max_tool_iterations |-> 50, allow |-> <<>>, deny |-> <<>>, error |-> ""]

\* static_cast<int>(long).
ToInt(n) == ((n + IntLimit) % (2 * IntLimit)) - IntLimit

True == {"true", "1", "yes", "on"}
False == {"false", "0", "no", "off"}

\* The settings that throw a ConfigError.
Rejected(setting) ==
  \/ setting = Malformed
  \/ setting.key \in BoolKeys /\ setting.text \notin True \cup False
  \/ setting.key \in NumberKeys /\ setting.number < Smallest[setting.key]

\* A mistake: an empty value leaves the key as it is.
apply_kv_KeepsIfEmpty(cfg, setting) ==
  IF Rejected(setting) THEN [cfg EXCEPT !.error = setting.key]
  ELSE IF setting.key \in BoolKeys THEN [cfg EXCEPT ![setting.key] = setting.text \in True]
  ELSE IF setting.key \in NumberKeys THEN [cfg EXCEPT ![setting.key] = ToInt(setting.number)]
  ELSE IF setting.text = "" THEN cfg
  ELSE IF setting.key \in RuleKeys THEN [cfg EXCEPT ![setting.key] = Append(@, setting.text)]
  ELSE [cfg EXCEPT ![setting.key] = setting.text]

apply_kv(cfg, setting) ==
  IF Rejected(setting) THEN [cfg EXCEPT !.error = setting.key]
  ELSE IF setting.key \in BoolKeys THEN [cfg EXCEPT ![setting.key] = setting.text \in True]
  ELSE IF setting.key \in NumberKeys THEN [cfg EXCEPT ![setting.key] = ToInt(setting.number)]
  ELSE IF setting.key \in TextKeys THEN [cfg EXCEPT ![setting.key] = setting.text]
  ELSE IF setting.text = "" THEN cfg
  ELSE [cfg EXCEPT ![setting.key] = Append(@, setting.text)]

\* An exception ends the merging: what follows it is not read.
ReadSetting(cfg, setting) == IF cfg.error = "" THEN apply_kv(cfg, setting) ELSE cfg

mergeConfString(cfg, doc) == FoldLeft(ReadSetting, cfg, doc)

mergeConfFile(cfg, file) == IF file = Absent THEN cfg ELSE mergeConfString(cfg, file)

\* getenvOpt passes over a variable that is set to nothing.
mergeEnv(cfg, env) ==
  IF cfg.error # "" THEN cfg
  ELSE [cfg EXCEPT !.base_url = IF env.base_url # "" THEN env.base_url ELSE @,
                   !.model = IF env.model # "" THEN env.model ELSE @]

validate(cfg) ==
  IF cfg.error = "" /\ cfg.base_url = "" THEN [cfg EXCEPT !.error = "base_url"] ELSE cfg

\* files[layer] for the user's, the binary's and the working directory's
\* config.conf; extra is the file of the command line, Absent when there is none.
Layers == <<"user", "bin", "local">>

loadConfig(files, extra, env) ==
  LET user == mergeConfFile(DefaultConfig, files.user)
      bin == mergeConfFile(user, files.bin)
      local == mergeConfFile(bin, files.local)
  IN  validate(mergeEnv(mergeConfFile(local, extra), env))

-----------------------------------------------------------------------------
(* What the layers mean, without merging: each key has the value of its    *)
(* last setting anywhere, the environment's if it has one; rules add up.   *)
(* What a number too big for an int becomes is not said.                   *)

Said(file) == IF file = Absent THEN <<>> ELSE file

AllSettings(files, extra) ==
  Said(files.user) \o Said(files.bin) \o Said(files.local) \o Said(extra)

InForce(settings, key) ==
  LET set == {i \in DOMAIN settings : settings[i].key = key}
  IN  IF set = {} THEN <<>> ELSE <<settings[CHOOSE i \in set : \A j \in set : j <= i]>>

Accepted(settings) == \A i \in DOMAIN settings : ~Rejected(settings[i])

Texts(settings, key) ==
  FlattenSeq([i \in DOMAIN settings |->
    IF settings[i].key = key /\ settings[i].text # "" THEN <<settings[i].text>> ELSE <<>>])

MeansLayers(cfg, files, extra, env) ==
  LET settings == AllSettings(files, extra)
      Final(key) == InForce(settings, key)
      Text(key) == IF Final(key) = <<>> THEN DefaultConfig[key] ELSE Final(key)[1].text
  IN  /\ Accepted(settings)
      /\ \A key \in {"system_prompt", "mcp_config"} : cfg[key] = Text(key)
      /\ \A key \in {"base_url", "model"} :
           cfg[key] = IF env[key] # "" THEN env[key] ELSE Text(key)
      /\ cfg.base_url # ""
      /\ \A key \in BoolKeys :
           cfg[key] = IF Final(key) = <<>> THEN DefaultConfig[key] ELSE Final(key)[1].text \in True
      /\ \A key \in NumberKeys :
           /\ Final(key) = <<>> => cfg[key] = DefaultConfig[key]
           /\ Final(key) # <<>> /\ Final(key)[1].number < IntLimit
                => cfg[key] = Final(key)[1].number
      /\ \A key \in RuleKeys : cfg[key] = Texts(settings, key)
=============================================================================
