---------------------------- MODULE ConfirmRules ----------------------------
(***************************************************************************)
(* The allow/deny rules of src/src/agent/Confirm.cpp as operators: a       *)
(* policy, the two ways to add a rule to it, and the verdict it gives on   *)
(* one tool call.                                                          *)
(*                                                                         *)
(* A rule is what split_rule makes of a configuration string: the text up  *)
(* to the first ':' and, when there is one, the text after it.  The empty  *)
(* string splits into EmptyRule.  A command line and a rule's prefix are   *)
(* sequences of tokens, so that "starts with" is IsPrefix.                 *)
(***************************************************************************)
LOCAL INSTANCE Sequences
LOCAL INSTANCE SequencesExt

EmptyRule == [tool |-> "", hasPrefix |-> FALSE, prefix |-> <<>>]

Verdicts == {"Prompt", "Allow", "Deny"}

\* ConfirmPolicy's four containers.  The two maps from a tool to its list of
\* prefixes are sets of pairs: decide() only asks whether some prefix matches.
EmptyPolicy ==
  [allow_tools |-> {}, allow_prefixes |-> {}, deny_tools |-> {}, deny_prefixes |-> {}]

AddAllow(policy, rule) ==
  CASE rule = EmptyRule -> policy
    [] rule.hasPrefix   -> [policy EXCEPT !.allow_prefixes = @ \cup {<<rule.tool, rule.prefix>>}]
    [] OTHER            -> [policy EXCEPT !.allow_tools = @ \cup {rule.tool}]

\* A mistake in add_deny: every rule is filed as one about the whole tool.
AddDeny_Whole(policy, rule) ==
  IF rule = EmptyRule THEN policy ELSE [policy EXCEPT !.deny_tools = @ \cup {rule.tool}]

AddDeny(policy, rule) ==
  CASE rule = EmptyRule -> policy
    [] rule.hasPrefix   -> [policy EXCEPT !.deny_prefixes = @ \cup {<<rule.tool, rule.prefix>>}]
    [] OTHER            -> [policy EXCEPT !.deny_tools = @ \cup {rule.tool}]

starts_with(details, prefix) == IsPrefix(prefix, details)

\* Some <<tool, prefix>> of pairs is about this tool and starts its details.
PrefixMatch(pairs, tool, details) ==
  \E pair \in pairs : pair[1] = tool /\ starts_with(details, pair[2])

\* ConfirmPolicy::decide: the deny rules are asked before the allow rules.
Decide(policy, tool, details) ==
  IF tool \in policy.deny_tools \/ PrefixMatch(policy.deny_prefixes, tool, details)
    THEN "Deny"
  ELSE IF tool \in policy.allow_tools \/ PrefixMatch(policy.allow_prefixes, tool, details)
    THEN "Allow"
  ELSE "Prompt"

\* makeConfirmPolicy: every allow rule, then every deny rule.
MakePolicy(allow_rules, deny_rules) ==
  FoldLeft(AddDeny, FoldLeft(AddAllow, EmptyPolicy, allow_rules), deny_rules)
=============================================================================
