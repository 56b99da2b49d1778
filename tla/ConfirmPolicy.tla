---------------------------- MODULE ConfirmPolicy ---------------------------
(***************************************************************************)
(* A ConfirmPolicy object while makeConfirmPolicy fills it from the        *)
(* configuration, one rule at a time, in any order of layers.  What it     *)
(* should decide is said separately, from the rules themselves, as a       *)
(* user reading the comment of Confirm.hpp:27-32 would expect.           *)
(***************************************************************************)
EXTENDS ConfirmRules, Sequences, SequencesExt

CONSTANTS Rules,      \* the rules a configuration may hold
          ToolNames,  \* the tools that may be called
          Details     \* the details they may be called with

ASSUME RulesAssumption ==
  Rules \subseteq [tool : ToolNames \cup {""}, hasPrefix : BOOLEAN, prefix : Seq(STRING)]
ASSUME DetailsAssumption == Details \subseteq Seq(STRING)

VARIABLES policy,   \* the object
          allowed,  \* the allow rules added so far
          denied    \* the deny rules added so far

vars == <<policy, allowed, denied>>

Init ==
  /\ policy = EmptyPolicy
  /\ allowed = {}
  /\ denied = {}

add_allow(rule) ==
  /\ policy' = AddAllow(policy, rule)
  /\ allowed' = allowed \cup {rule}
  /\ UNCHANGED denied

add_deny(rule) ==
  /\ policy' = AddDeny(policy, rule)
  /\ denied' = denied \cup {rule}
  /\ UNCHANGED allowed

Next == \E rule \in Rules : add_allow(rule) \/ add_deny(rule)

Spec == Init /\ [][Next]_vars

-----------------------------------------------------------------------------
PrefixPairs == (ToolNames \cup {""}) \X Seq(STRING)

TypeOK ==
  /\ policy.allow_tools \subseteq ToolNames \cup {""}
  /\ policy.deny_tools \subseteq ToolNames \cup {""}
  /\ \A pair \in policy.allow_prefixes \cup policy.deny_prefixes : pair \in PrefixPairs
  /\ allowed \subseteq Rules
  /\ denied \subseteq Rules

\* A rule covers a call when it names the tool and either stands for the whole
\* tool or gives the beginning of the details.  The empty rule covers nothing.
Covers(rule, tool, details) ==
  /\ rule # EmptyRule
  /\ rule.tool = tool
  /\ rule.hasPrefix => starts_with(details, rule.prefix)

\* The verdict read off the configured rules: deny wins over allow.
Expected(tool, details) ==
  IF \E rule \in denied : Covers(rule, tool, details) THEN "Deny"
  ELSE IF \E rule \in allowed : Covers(rule, tool, details) THEN "Allow"
  ELSE "Prompt"

\* The containers the rules were sorted into give, for every call, the verdict
\* of the rules as written: splitting them into tool sets and prefix lists
\* loses no rule and mixes none up (Confirm.hpp:27-32).
DecisionFollowsRules ==
  \A tool \in ToolNames, details \in Details :
    Decide(policy, tool, details) = Expected(tool, details)

\* What a configuration layer denies stays denied whatever rules a later layer
\* adds: "Deny always wins" (Confirm.hpp:30).
DenyIsFinal ==
  [][\A tool \in ToolNames, details \in Details :
       Decide(policy, tool, details) = "Deny"
         => Decide(policy', tool, details) = "Deny"]_vars
=============================================================================
