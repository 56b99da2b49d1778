-------------------------- MODULE GatedEditsProofs --------------------------
(***************************************************************************)
(* Proofs about GatedEdits, for every set of rules, files, texts and edits *)
(* and every length of a session: no edit a deny rule covers reaches the   *)
(* disk, an edit changes one place, it is carried out exactly when its     *)
(* preview says so, and the preview showed all that it changed but for a   *)
(* newline at the end of the text.                                         *)
(*                                                                         *)
(* First the policy alone: Filed says what the four containers hold in     *)
(* terms of the rules that were added, the bare rules' tools and the other *)
(* rules' pairs.  Then the calls: EditInv remembers, for as long as one is *)
(* under way, what the policy said of it, and FollowInv follows it from    *)
(* the file its preview read to the file it left.  Last the diff: the      *)
(* lengths and the walk of lcs_ops, by induction over the corners of the   *)
(* two texts, and the hunks that show it.                                  *)
(***************************************************************************)
EXTENDS FiniteSets, GatedEdits, FoldLemmas

-----------------------------------------------------------------------------
(* The policy, for any set of rules, tools and commands.                    *)

BareTools(rules) == {rule.tool : rule \in {r \in rules : r # EmptyRule /\ ~r.hasPrefix}}
Pairs(rules) == {<<rule.tool, rule.prefix>> : rule \in {r \in rules : r # EmptyRule /\ r.hasPrefix}}

Filed ==
  /\ allowed \subseteq Rules /\ denied \subseteq Rules
  /\ policy = [allow_tools |-> BareTools(allowed), allow_prefixes |-> Pairs(allowed),
               deny_tools |-> BareTools(denied), deny_prefixes |-> Pairs(denied)]

\* What one more rule adds to the containers' contents.
LEMMA BareGrows ==
  ASSUME NEW rules, NEW rule
  PROVE  BareTools(rules \cup {rule}) =
           BareTools(rules) \cup (IF rule # EmptyRule /\ ~rule.hasPrefix THEN {rule.tool} ELSE {})
BY DEF BareTools

LEMMA PairsGrow ==
  ASSUME NEW rules, NEW rule
  PROVE  Pairs(rules \cup {rule}) =
           Pairs(rules) \cup (IF rule # EmptyRule /\ rule.hasPrefix
                                THEN {<<rule.tool, rule.prefix>>} ELSE {})
BY DEF Pairs

LEMMA InitFiled == Init => Filed
BY DEF Init, Filed, EmptyPolicy, BareTools, Pairs

\* Adding an allow rule files it and moves no other.
LEMMA AllowFiles == ASSUME Filed, NEW rule \in Rules, add_allow(rule) PROVE Filed'
<1>1. /\ allowed' = allowed \cup {rule} /\ denied' = denied
      /\ policy' = AddAllow(policy, rule)
  BY DEF add_allow
<1>2. /\ BareTools(allowed') = BareTools(allowed)
           \cup (IF rule # EmptyRule /\ ~rule.hasPrefix THEN {rule.tool} ELSE {})
      /\ Pairs(allowed') = Pairs(allowed)
           \cup (IF rule # EmptyRule /\ rule.hasPrefix THEN {<<rule.tool, rule.prefix>>} ELSE {})
  BY <1>1, BareGrows, PairsGrow
<1>3. CASE rule = EmptyRule
  BY <1>1, <1>2, <1>3 DEF Filed, AddAllow
<1>4. CASE rule # EmptyRule /\ rule.hasPrefix
  BY <1>1, <1>2, <1>4 DEF Filed, AddAllow
<1>5. CASE rule # EmptyRule /\ ~rule.hasPrefix
  BY <1>1, <1>2, <1>5 DEF Filed, AddAllow
<1> QED
  BY <1>3, <1>4, <1>5

LEMMA DenyFiles == ASSUME Filed, NEW rule \in Rules, add_deny(rule) PROVE Filed'
<1>1. /\ denied' = denied \cup {rule} /\ allowed' = allowed
      /\ policy' = AddDeny(policy, rule)
  BY DEF add_deny
<1>2. /\ BareTools(denied') = BareTools(denied)
           \cup (IF rule # EmptyRule /\ ~rule.hasPrefix THEN {rule.tool} ELSE {})
      /\ Pairs(denied') = Pairs(denied)
           \cup (IF rule # EmptyRule /\ rule.hasPrefix THEN {<<rule.tool, rule.prefix>>} ELSE {})
  BY <1>1, BareGrows, PairsGrow
<1>3. CASE rule = EmptyRule
  BY <1>1, <1>2, <1>3 DEF Filed, AddDeny
<1>4. CASE rule # EmptyRule /\ rule.hasPrefix
  BY <1>1, <1>2, <1>4 DEF Filed, AddDeny
<1>5. CASE rule # EmptyRule /\ ~rule.hasPrefix
  BY <1>1, <1>2, <1>5 DEF Filed, AddDeny
<1> QED
  BY <1>3, <1>4, <1>5

\* Filed is inductive.
LEMMA StepFiled == Filed /\ [Next]_vars => Filed'
<1> SUFFICES ASSUME Filed, [Next]_vars PROVE Filed'
  OBVIOUS
<1>1. CASE Next
  BY <1>1, AllowFiles, DenyFiles DEF Next
<1>2. CASE UNCHANGED vars
  BY <1>2 DEF vars, Filed
<1> QED
  BY <1>1, <1>2

\* The containers always hold the rules that were added, no more and no less.
THEOREM AlwaysFiled == Spec => []Filed
BY InitFiled, StepFiled, PTL DEF Spec

\* Some rule covers the call exactly when the containers filled with the rules
\* match it.
LEMMA CoverIsMatch ==
  ASSUME NEW rules, NEW tool, NEW details
  PROVE  (\E rule \in rules : Covers(rule, tool, details)) <=>
           (tool \in BareTools(rules) \/ PrefixMatch(Pairs(rules), tool, details))
<1>1. ASSUME NEW rule \in rules, Covers(rule, tool, details)
      PROVE  tool \in BareTools(rules) \/ PrefixMatch(Pairs(rules), tool, details)
  <2>1. rule # EmptyRule /\ rule.tool = tool
    BY <1>1 DEF Covers
  <2>2. CASE rule.hasPrefix
    <3>1. <<rule.tool, rule.prefix>> \in Pairs(rules) /\ starts_with(details, rule.prefix)
      BY <1>1, <2>1, <2>2 DEF Covers, Pairs
    <3> QED
      BY <2>1, <3>1 DEF PrefixMatch
  <2>3. CASE ~rule.hasPrefix
    BY <2>1, <2>3 DEF BareTools
  <2> QED
    BY <2>2, <2>3
<1>2. ASSUME tool \in BareTools(rules) PROVE \E rule \in rules : Covers(rule, tool, details)
  BY <1>2 DEF BareTools, Covers
<1>3. ASSUME PrefixMatch(Pairs(rules), tool, details)
      PROVE  \E rule \in rules : Covers(rule, tool, details)
  <2>1. PICK pair \in Pairs(rules) : pair[1] = tool /\ starts_with(details, pair[2])
    BY <1>3 DEF PrefixMatch
  <2>2. PICK rule \in rules : /\ rule # EmptyRule /\ rule.hasPrefix
                              /\ pair = <<rule.tool, rule.prefix>>
    BY <2>1 DEF Pairs
  <2> QED
    BY <2>1, <2>2 DEF Covers
<1> QED
  BY <1>1, <1>2, <1>3

\* Containers that hold the rules decide as the rules say.
LEMMA FiledDecides == Filed => DecisionFollowsRules
<1> SUFFICES ASSUME Filed, NEW tool \in ToolNames, NEW details \in Details
             PROVE  Decide(policy, tool, details) = Expected(tool, details)
  BY DEF DecisionFollowsRules
<1>1. /\ policy.allow_tools = BareTools(allowed) /\ policy.allow_prefixes = Pairs(allowed)
      /\ policy.deny_tools = BareTools(denied) /\ policy.deny_prefixes = Pairs(denied)
  BY DEF Filed
<1>2. (\E rule \in denied : Covers(rule, tool, details)) <=>
        (tool \in policy.deny_tools \/ PrefixMatch(policy.deny_prefixes, tool, details))
  BY <1>1, CoverIsMatch
<1>3. (\E rule \in allowed : Covers(rule, tool, details)) <=>
        (tool \in policy.allow_tools \/ PrefixMatch(policy.allow_prefixes, tool, details))
  BY <1>1, CoverIsMatch
<1> QED
  BY <1>2, <1>3 DEF Decide, Expected

\* The policy decides every call as the rules that were added say, deny before allow
\* (Confirm.hpp:27-32): DecisionFollowsRules for every set of rules and calls.
THEOREM DecidesAsWritten == Spec => []DecisionFollowsRules
BY AlwaysFiled, FiledDecides, PTL

\* A rule that is added takes nothing out of the deny containers.
LEMMA DeniedStays ==
  ASSUME Filed, [Next]_vars, Filed',
         NEW tool \in ToolNames, NEW details \in Details,
         Decide(policy, tool, details) = "Deny"
  PROVE  Decide(policy', tool, details) = "Deny"
<1>1. Decide(policy, tool, details) = Expected(tool, details)
  BY FiledDecides DEF DecisionFollowsRules
<1>2. PICK rule \in denied : Covers(rule, tool, details)
  BY <1>1 DEF Expected
<1>3. rule \in denied'
  BY <1>2 DEF Next, add_allow, add_deny, vars
<1>4. /\ policy'.deny_tools = BareTools(denied') /\ policy'.deny_prefixes = Pairs(denied')
  BY DEF Filed
<1>5. tool \in policy'.deny_tools \/ PrefixMatch(policy'.deny_prefixes, tool, details)
  BY <1>2, <1>3, <1>4, CoverIsMatch
<1> QED
  BY <1>5 DEF Decide

\* "Deny always wins" (Confirm.hpp:30): no rule added later lifts a denial.
THEOREM DenialIsFinal == Spec => DenyIsFinal
<1>1. Filed /\ Filed' /\ [Next]_vars =>
        [\A tool \in ToolNames, details \in Details :
           Decide(policy, tool, details) = "Deny" => Decide(policy', tool, details) = "Deny"]_vars
  BY DeniedStays
<1> QED
  BY <1>1, AlwaysFiled, PTL DEF Spec, DenyIsFinal

-----------------------------------------------------------------------------
(* The calls.                                                               *)

UnderWay == {"asking", "executing", "saving"}

\* The policy has not refused the call that is under way.
CallPassed ==
  phase \in UnderWay => Decide(policy, call.tool, DetailsOf(call)) # "Deny"

EditInv == Filed /\ CallPassed

\* The policy is settled once the first call may come.
LEMMA PolicySettled ==
  ASSUME [EditNext]_allVars
  PROVE  \/ phase = "configuring" /\ phase' = phase /\ [Next]_vars
         \/ UNCHANGED vars
<1>1. ASSUME NEW rule \in Rules, Configure(rule)
      PROVE  phase = "configuring" /\ phase' = phase /\ Next
  BY <1>1 DEF Configure, editVars, Next
<1>2. ASSUME ~\E rule \in Rules : Configure(rule)
      PROVE  UNCHANGED vars
  BY <1>2 DEF EditNext, Start, Consider, Answer, Execute, Saved, NotOpened, Lost, SaveEnds,
     OthersWrite, allVars
<1> QED
  BY <1>1, <1>2

LEMMA FiledKept == Filed /\ [EditNext]_allVars => Filed'
<1> SUFFICES ASSUME Filed, [EditNext]_allVars PROVE Filed'
  OBVIOUS
<1>1. [Next]_vars
  BY PolicySettled
<1> QED
  BY <1>1, StepFiled

\* What the gate lets through is not denied.
LEMMA GatePasses ==
  ASSUME NEW c, Gate(c) \in UnderWay
  PROVE  Decide(policy, c.tool, DetailsOf(c)) # "Deny"
BY DEF Gate, UnderWay

\* The only way into a call is past the gate, and what follows keeps the call.
LEMMA PassedKept == CallPassed /\ [EditNext]_allVars => CallPassed'
<1> SUFFICES ASSUME CallPassed, [EditNext]_allVars, phase' \in UnderWay
             PROVE  Decide(policy', call'.tool, DetailsOf(call')) # "Deny"
  BY DEF CallPassed, DetailsOf
<1>1. UNCHANGED vars
  BY PolicySettled DEF UnderWay
<1>2. policy' = policy
  BY <1>1 DEF vars
<1>3. ASSUME NEW c \in EditCalls, Consider(c)
      PROVE  Decide(policy', call'.tool, DetailsOf(call')) # "Deny"
  <2>1. call' = c /\ Gate(c) \in UnderWay
    BY <1>3 DEF Consider
  <2> QED
    BY <1>2, <2>1, GatePasses
<1>4. CASE call' = call /\ phase \in UnderWay
  BY <1>2, <1>4 DEF CallPassed
<1>5. (\E c \in EditCalls : Consider(c)) \/ (call' = call /\ phase \in UnderWay)
  BY DEF EditNext, Configure, Start, Answer, Execute, Saved, NotOpened, Lost, SaveEnds,
     OthersWrite, allVars, editVars, UnderWay
<1> QED
  BY <1>3, <1>4, <1>5

\* What the policy's containers hold and that a call under way has passed the gate
\* holds in every state (Confirm.cpp:17-106, Agent.cpp:56).
THEOREM EditInvariance == EditSpec => []EditInv
<1>1. EditInit => EditInv
  BY InitFiled DEF EditInit, EditInv, CallPassed, UnderWay
<1>2. EditInv /\ [EditNext]_allVars => EditInv'
  BY FiledKept, PassedKept DEF EditInv
<1> QED
  BY <1>1, <1>2, PTL DEF EditSpec

\* From the gate's verdict to the end of the write no deny rule, as it was written
\* in any layer, covers the call: OnlyApprovedEdits for every session
\* (Agent.cpp:56, Confirm.cpp:82-92).
THEOREM ApprovedAlways == EditSpec => []OnlyApprovedEdits
<1>1. EditInv => OnlyApprovedEdits
  <2> SUFFICES ASSUME Filed, CallPassed, phase \in UnderWay
               PROVE  ~\E rule \in denied : Covers(rule, call.tool, DetailsOf(call))
    BY DEF EditInv, OnlyApprovedEdits, UnderWay
  <2>1. policy.deny_tools = BareTools(denied) /\ policy.deny_prefixes = Pairs(denied)
    BY DEF Filed
  <2>2. ~(call.tool \in policy.deny_tools
            \/ PrefixMatch(policy.deny_prefixes, call.tool, DetailsOf(call)))
    BY DEF CallPassed, Decide
  <2> QED
    BY <2>1, <2>2, CoverIsMatch
<1> QED
  BY <1>1, EditInvariance, PTL

-----------------------------------------------------------------------------
(* Searching a text.                                                        *)

\* The least of some numbers, as CHOOSE finds it, is one of them.
LEMMA MinIn ==
  ASSUME NEW S \in SUBSET Nat, S # {}
  PROVE  Min(S) \in S
<1> DEFINE R == {p \in Nat \X Nat : p[1] < p[2]}
<1>1. PICK x \in S : \A y \in S : ~(<<y, x>> \in R)
  <2> HIDE DEF R
  <2>1. WF!IsWellFoundedOn(R, Nat)
    BY NatOrder DEF R
  <2> QED
    BY <2>1, WF!WFMin
<1>2. ASSUME NEW y \in S PROVE x <= y
  <2>1. x \in Nat /\ y \in Nat
    OBVIOUS
  <2>2. ~(<<y, x>> \in R)
    BY <1>1
  <2>3. ~(y < x)
    BY <2>1, <2>2
  <2> QED
    BY <2>1, <2>3
<1> QED
  BY <1>2 DEF Min

\* Where find says a string is, it is.
LEMMA FindFinds ==
  ASSUME NEW text, NEW s, NEW from \in Nat \ {0}, find(text, s, from) # npos
  PROVE  /\ find(text, s, from) \in from..Len(text) - Len(s) + 1
         /\ SubSeq(text, find(text, s, from), find(text, s, from) + Len(s) - 1) = s
<1> DEFINE found == {i \in from..Len(text) - Len(s) + 1 : SubSeq(text, i, i + Len(s) - 1) = s}
<1>1. found # {} /\ find(text, s, from) = Min(found)
  BY DEF find, npos
<1>2. found \subseteq Nat
  OBVIOUS
<1>3. find(text, s, from) \in found
  <2> HIDE DEF found
  <2> QED
    BY <1>1, <1>2, MinIn
<1> QED
  BY <1>3

\* And where it says there is none, there is none.
LEMMA FindMisses ==
  ASSUME NEW text, NEW s, NEW from \in Nat \ {0}, find(text, s, from) = npos,
         NEW i \in from..Len(text) - Len(s) + 1
  PROVE  SubSeq(text, i, i + Len(s) - 1) # s
<1> DEFINE found == {k \in from..Len(text) - Len(s) + 1 : SubSeq(text, k, k + Len(s) - 1) = s}
<1>1. found = {}
  <2>1. SUFFICES ASSUME found # {} PROVE FALSE
    OBVIOUS
  <2>2. find(text, s, from) = Min(found)
    BY <2>1 DEF find
  <2>3. found \subseteq Nat \ {0}
    OBVIOUS
  <2>4. Min(found) \in found
    <3> HIDE DEF found
    <3> QED
      BY <2>1, <2>3, MinIn
  <2> QED
    BY <2>2, <2>3, <2>4 DEF npos
<1> QED
  BY <1>1

\* One occurrence of old in text has become new, and there is none behind it.
OnePlace(text, old, new, becomes) ==
  \E i \in 0..Len(text) :
    LET before == SubSeq(text, 1, i)
        after == SubSeq(text, i + Len(old) + 1, Len(text))
    IN /\ text = before \o old \o after
       /\ becomes = before \o new \o after
       /\ ~\E j \in 0..Len(after) : IsPrefix(old, SubSeq(after, j + 1, Len(after)))

\* What is before a part of a text, the part, and what is behind it are the text.
LEMMA JoinParts ==
  ASSUME NEW S, NEW text \in Seq(S), NEW n \in Nat, n = Len(text),
         NEW k \in 0..n, NEW l \in k..n
  PROVE  SubSeq(text, 1, k) \o SubSeq(text, k + 1, l) = SubSeq(text, 1, l)
<1>1. 1 \in 1..n + 1 /\ k \in 1 - 1..n /\ l \in k..n
  OBVIOUS
<1>2. 1 \in 1..Len(text) + 1 /\ k \in 1 - 1..Len(text) /\ l \in k..Len(text)
  BY <1>1
<1> QED
  BY <1>2, ConcatAdjacentSubSeq

LEMMA ThreeParts ==
  ASSUME NEW S, NEW text \in Seq(S), NEW n \in Nat, n = Len(text),
         NEW k \in 0..n, NEW l \in k..n
  PROVE  text = SubSeq(text, 1, k) \o SubSeq(text, k + 1, l) \o SubSeq(text, l + 1, n)
<1>1. l \in 0..n /\ n \in l..n
  OBVIOUS
<1>2. SubSeq(text, 1, k) \o SubSeq(text, k + 1, l) = SubSeq(text, 1, l)
  BY JoinParts
<1>3. SubSeq(text, 1, l) \o SubSeq(text, l + 1, n) = SubSeq(text, 1, n)
  BY <1>1, JoinParts
<1>4. SubSeq(text, 1, n) = text
  BY SubSeqFull
<1> QED
  BY <1>2, <1>3, <1>4

\* A string that begins what is behind a place is found behind that place.
BeginsAt(old, after, j) ==
  /\ j \in 0..Len(after)
  /\ IsPrefix(old, SubSeq(after, j + 1, Len(after)))

FoundAt(old, text, i, j) ==
  /\ i + 1 + j \in i + 1..Len(text) - Len(old) + 1
  /\ SubSeq(text, i + 1 + j, i + 1 + j + Len(old) - 1) = old

LEMMA FoundBehind ==
  ASSUME NEW S, NEW text \in Seq(S), NEW old \in Seq(S), old # <<>>, NEW i \in 0..Len(text),
         NEW j \in Nat, BeginsAt(old, SubSeq(text, i + 1, Len(text)), j)
  PROVE  FoundAt(old, text, i, j)
<1>0. /\ j \in 0..Len(SubSeq(text, i + 1, Len(text)))
      /\ IsPrefix(old, SubSeq(SubSeq(text, i + 1, Len(text)), j + 1,
                              Len(SubSeq(text, i + 1, Len(text)))))
  BY DEF BeginsAt
<1> SUFFICES ASSUME NEW n \in Nat, NEW m \in Nat, n = Len(text), m = Len(old)
             PROVE  /\ i + 1 + j \in i + 1..n - m + 1
                    /\ SubSeq(text, i + 1 + j, i + 1 + j + m - 1) = old
  BY LenProperties DEF FoundAt
<1>1. m > 0
  BY EmptySeq
<1>2. i \in 0..n
  OBVIOUS
<1>3. /\ j \in 0..Len(SubSeq(text, i + 1, n))
      /\ IsPrefix(old, SubSeq(SubSeq(text, i + 1, n), j + 1, Len(SubSeq(text, i + 1, n))))
  BY <1>0
<1> DEFINE after == SubSeq(text, i + 1, n)
           rest == SubSeq(after, j + 1, n - i)
<1>4. \A p \in i + 1..n : text[p] \in S
  BY ElementOfSeq
<1>5. after \in Seq(S) /\ Len(after) = n - i
  <2>1. Len(after) = IF i + 1 <= n THEN n - (i + 1) + 1 ELSE 0
    BY <1>4, SubSeqProperties
  <2> QED
    BY <1>4, <2>1, SubSeqProperties
<1>6. j \in 0..n - i
  BY <1>3, <1>5
<1>7. \A p \in 1..n - i : after[p] = text[i + p]
  <2>1. \A p \in 1..n - (i + 1) + 1 : after[p] = text[i + 1 + p - 1]
    BY <1>4, SubSeqProperties
  <2>2. n - (i + 1) + 1 = n - i /\ \A p \in 1..n - i : i + 1 + p - 1 = i + p
    OBVIOUS
  <2> HIDE DEF after
  <2> QED
    BY <2>1, <2>2
<1>8. \A p \in j + 1..n - i : after[p] \in S
  <2> HIDE DEF after
  <2> QED
    BY <1>5, <1>6, ElementOfSeq
<1>9. Len(rest) = n - i - j /\ \A p \in 1..n - i - j : rest[p] = text[i + j + p]
  <2> HIDE DEF after
  <2>1. Len(rest) = IF j + 1 <= n - i THEN n - i - (j + 1) + 1 ELSE 0
    BY <1>6, <1>8, SubSeqProperties
  <2>2. \A p \in 1..n - i - (j + 1) + 1 : rest[p] = after[j + 1 + p - 1]
    BY <1>6, <1>8, SubSeqProperties
  <2> HIDE DEF rest
  <2>3. Len(rest) = n - i - j
    BY <1>6, <2>1
  <2>4. ASSUME NEW p \in 1..n - i - j PROVE rest[p] = text[i + j + p]
    <3>1. p \in 1..n - i - (j + 1) + 1 /\ j + 1 + p - 1 = j + p /\ j + p \in 1..n - i
      BY <1>6
    <3>2. i + (j + p) = i + j + p
      BY <1>6
    <3> QED
      BY <1>7, <2>2, <3>1, <3>2
  <2> QED
    BY <2>3, <2>4
<1>10. IsPrefix(old, rest)
  BY <1>3, <1>5
<1>11. m <= n - i - j /\ \A p \in 1..m : rest[p] = old[p]
  <2> HIDE DEF rest
  <2>1. Len(old) <= Len(rest) /\ SubSeq(old, 1, Len(old)) = SubSeq(rest, 1, Len(old))
    BY <1>10 DEF IsPrefix
  <2>2. m <= n - i - j /\ old = SubSeq(rest, 1, m)
    BY <1>9, <2>1, SubSeqFull
  <2>3. \A p \in 1..m : rest[p] \in S
    <3>1. ASSUME NEW p \in 1..m PROVE i + j + p \in i + 1..n /\ p \in 1..n - i - j
      BY <1>6, <2>2
    <3> QED
      BY <1>4, <1>9, <3>1
  <2> QED
    BY <2>2, <2>3, SubSeqProperties
<1>12. \A p \in 1..m : text[i + j + p] = old[p]
  <2> HIDE DEF rest
  <2>1. \A p \in 1..m : p \in 1..n - i - j
    BY <1>6, <1>11
  <2> QED
    BY <1>9, <1>11, <2>1
<1>13. i + 1 + j \in Int /\ i + 1 + j + m - 1 \in Int /\ i + 1 + j <= i + 1 + j + m - 1
  BY <1>6
<1> DEFINE part == SubSeq(text, i + 1 + j, i + 1 + j + m - 1)
<1>14. \A p \in i + 1 + j..i + 1 + j + m - 1 : text[p] \in S
  <2>1. \A p \in i + 1 + j..i + 1 + j + m - 1 : p \in i + 1..n
    BY <1>6, <1>11
  <2> QED
    BY <1>4, <2>1
<1>15. part \in Seq(S) /\ Len(part) = m /\ \A p \in 1..m : part[p] = text[i + j + p]
  <2>1. Len(part) = i + 1 + j + m - 1 - (i + 1 + j) + 1
    BY <1>13, <1>14, SubSeqProperties
  <2>2. \A p \in 1..i + 1 + j + m - 1 - (i + 1 + j) + 1 : part[p] = text[i + 1 + j + p - 1]
    BY <1>13, <1>14, SubSeqProperties
  <2>3. part \in Seq(S)
    BY <1>13, <1>14, SubSeqProperties
  <2> HIDE DEF part
  <2>4. i + 1 + j + m - 1 - (i + 1 + j) + 1 = m
    BY <1>6
  <2>5. \A p \in 1..m : i + 1 + j + p - 1 = i + j + p
    BY <1>6
  <2> QED
    BY <2>1, <2>2, <2>3, <2>4, <2>5
<1>16. part = old
  <2> HIDE DEF part
  <2>1. \A p \in 1..m : part[p] = old[p]
    BY <1>12, <1>15
  <2> QED
    BY <1>15, <2>1, SeqEqual
<1>17. i + 1 + j \in i + 1..n - m + 1
  BY <1>6, <1>11
<1> QED
  BY <1>16, <1>17

\* A string found in a text and not again behind it is replaced in one place.
LEMMA ReplacedOnce ==
  ASSUME NEW S, NEW text \in Seq(S), NEW c, NEW old \in Seq(S), old = c.old_str, old # <<>>,
         NEW first, first = find(text, old, 1), first # npos,
         find(text, old, first + Len(old)) = npos
  PROVE  OnePlace(text, old, c.new_str, replaced(text, first, c))
<1>1. PICK m \in Nat : m = Len(old)
  <2> Len(old) \in Nat
    BY LenProperties
  <2> QED
    OBVIOUS
<1>2. PICK n \in Nat : n = Len(text)
  <2> Len(text) \in Nat
    BY LenProperties
  <2> QED
    OBVIOUS
<1>3. m > 0
  BY <1>1, EmptySeq
<1>4. first \in 1..n - m + 1 /\ SubSeq(text, first, first + m - 1) = old
  <2>1. 1 \in Nat \ {0} /\ find(text, old, 1) # npos
    OBVIOUS
  <2>2. /\ find(text, old, 1) \in 1..Len(text) - Len(old) + 1
        /\ SubSeq(text, find(text, old, 1), find(text, old, 1) + Len(old) - 1) = old
    BY <2>1, FindFinds
  <2> HIDE DEF npos
  <2> QED
    BY <1>1, <1>2, <2>2
<1>5. PICK i \in 0..n : first = i + 1 /\ i + m \in 0..n
  <2>1. first \in 1..n - m + 1
    BY <1>4
  <2>2. first - 1 \in 0..n /\ first = first - 1 + 1 /\ first - 1 + m \in 0..n
    BY <1>3, <2>1
  <2> QED
    BY <2>2
<1>6. text = SubSeq(text, 1, i) \o old \o SubSeq(text, i + m + 1, n)
  <2>1. i + m <= n /\ first + m - 1 = i + m /\ first = i + 1
    BY <1>5
  <2>2. SubSeq(text, first, first + m - 1) = old
    BY <1>4
  <2>3. SubSeq(text, i + 1, i + m) = old
    BY <2>1, <2>2
  <2>4. PICK l \in i..n : l = i + m
    BY <2>1
  <2>5. text = SubSeq(text, 1, i) \o SubSeq(text, i + 1, l) \o SubSeq(text, l + 1, n)
    BY <1>2, ThreeParts
  <2> QED
    BY <2>3, <2>4, <2>5
<1>7. replaced(text, first, c) = SubSeq(text, 1, i) \o c.new_str \o SubSeq(text, i + m + 1, n)
  <2>1. first - 1 = i /\ first + m = i + m + 1
    BY <1>5
  <2> QED
    BY <1>1, <1>2, <2>1 DEF replaced
<1>8. ASSUME NEW j \in 0..Len(SubSeq(text, i + m + 1, n)),
             IsPrefix(old, SubSeq(SubSeq(text, i + m + 1, n), j + 1,
                                  Len(SubSeq(text, i + m + 1, n))))
      PROVE  FALSE
  <2>1. /\ i + m + 1 + j \in i + m + 1..n - m + 1
        /\ SubSeq(text, i + m + 1 + j, i + m + 1 + j + m - 1) = old
    <3>1. PICK k \in 0..Len(text) : k = i + m
      BY <1>2, <1>5
    <3>2. BeginsAt(old, SubSeq(text, k + 1, Len(text)), j)
      BY <1>2, <1>8, <3>1 DEF BeginsAt
    <3>3. j \in Nat
      BY <3>2, LenProperties DEF BeginsAt
    <3>4. FoundAt(old, text, k, j)
      BY <1>1, <3>2, <3>3, FoundBehind
    <3>5. /\ k + 1 + j \in k + 1..Len(text) - Len(old) + 1
          /\ SubSeq(text, k + 1 + j, k + 1 + j + Len(old) - 1) = old
      BY <3>4 DEF FoundAt
    <3> QED
      BY <1>1, <1>2, <3>1, <3>5
  <2>2. first + m = i + m + 1 /\ first + m \in Nat \ {0}
    BY <1>5
  <2>3. find(text, old, first + m) = npos
    BY <1>1
  <2>4. /\ i + m + 1 + j \in first + m..Len(text) - Len(old) + 1
        /\ SubSeq(text, i + m + 1 + j, i + m + 1 + j + Len(old) - 1) = old
    BY <1>1, <1>2, <2>1, <2>2
  <2> QED
    BY <2>2, <2>3, <2>4, FindMisses
<1> QED
  BY <1>1, <1>2, <1>6, <1>7, <1>8 DEF OnePlace

-----------------------------------------------------------------------------
(* What confirm_details and execute make of a file and a call.              *)

FileKinds == [exists : BOOLEAN, text : Seq(STRING)]

LEMMA CallKinds ==
  ASSUME NEW c \in EditCalls
  PROVE  /\ c.tool \in {"write_file", "str_replace"} /\ c.path \in Paths
         /\ c.old_str \in Seq(STRING) /\ c.new_str \in Seq(STRING)
<1>1. <<>> \in Seq(STRING)
  OBVIOUS
<1>2. CASE c \in [tool : {"write_file"}, path : Paths, old_str : {<<>>}, new_str : Contents]
  BY <1>1, <1>2, TextsAreSequences
<1>3. CASE c \in [tool : {"str_replace"}, path : Paths, old_str : OldStrs, new_str : NewStrs]
  BY <1>3, TextsAreSequences
<1> QED
  BY <1>2, <1>3 DEF EditCalls

LEMMA FilesAreKinds == Absent \in FileKinds /\ \A text \in Seq(STRING) : File(text) \in FileKinds
BY DEF Absent, File, FileKinds

LEMMA TextOfFile == \A text : File(text).text = text
BY DEF File

\* What execute has looked at before it writes.
LEMMA ExecuteWrites ==
  ASSUME NEW file, NEW c \in EditCalls, execute(file, c).error = ""
  PROVE  /\ c.path # NoPath
         /\ c.tool = "write_file" => execute(file, c).text = c.new_str
         /\ c.tool = "str_replace" =>
              /\ file.exists /\ c.old_str # <<>>
              /\ find(file.text, c.old_str, 1) # npos
              /\ find(file.text, c.old_str, find(file.text, c.old_str, 1) + Len(c.old_str)) = npos
              /\ execute(file, c).text = replaced(file.text, find(file.text, c.old_str, 1), c)
<1>1. c.tool \in {"write_file", "str_replace"}
  BY CallKinds
<1>2. CASE c.tool = "write_file"
  BY <1>2 DEF execute, execute_write, Error, Writes
<1>3. CASE c.tool = "str_replace"
  BY <1>3 DEF execute, execute_replace, Error, Writes
<1> QED
  BY <1>1, <1>2, <1>3

\* Its errors have names of their own.
LEMMA ExecuteErrors ==
  ASSUME NEW file, NEW c \in EditCalls
  PROVE  execute(file, c).error \notin {"ok", "declined", "could not open for writing"}
<1>1. c.tool \in {"write_file", "str_replace"}
  BY CallKinds
<1>2. CASE c.tool = "write_file"
  BY <1>2 DEF execute, execute_write, Error, Writes
<1>3. CASE c.tool = "str_replace"
  BY <1>3 DEF execute, execute_replace, Error, Writes
<1> QED
  BY <1>1, <1>2, <1>3

\* A preview that says the edit will fail has no diff.
LEMMA FailsWithoutDiff ==
  ASSUME NEW file, NEW c, NEW context, NEW max_lines,
         confirm_details(file, c, context, max_lines).fails # ""
  PROVE  confirm_details(file, c, context, max_lines).diff = <<>>
BY DEF confirm_details, confirm_write, confirm_replace, Fails, Shows

\* The checks of confirm_details are those of execute, in its own words: on the same
\* file the one says that the edit fails exactly when the other refuses it.
LEMMA ConfirmForetells ==
  ASSUME NEW file, NEW c \in EditCalls, NEW context, NEW max_lines,
         c.path = NoPath => file = Absent
  PROVE  LET shown == confirm_details(file, c, context, max_lines)
         IN /\ shown.fails # "" => execute(file, c).error # ""
            /\ c.tool = "str_replace" /\ shown.fails = "" => execute(file, c).error = ""
            /\ execute(file, c).error = "" =>
                 shown.diff = unified_diff(file.text, execute(file, c).text, context, max_lines)
<1>1. c.tool \in {"write_file", "str_replace"}
  BY CallKinds
<1>2. CASE c.tool = "write_file"
  BY <1>2 DEF execute, execute_write, Error, Writes, confirm_details, confirm_write, Shows
<1>3. CASE c.tool = "str_replace" /\ c.path # NoPath
  BY <1>3 DEF execute, execute_replace, Error, Writes, confirm_details, confirm_replace,
     Fails, Shows
<1>4. CASE c.tool = "str_replace" /\ c.path = NoPath
  <2>1. ~file.exists
    BY <1>4 DEF Absent
  <2> QED
    BY <1>4, <2>1 DEF execute, execute_replace, Error, Writes, confirm_details,
       confirm_replace, Fails
<1> QED
  BY <1>1, <1>2, <1>3, <1>4

\* A part of a text is a text.
LEMMA PartOfText ==
  ASSUME NEW S, NEW text \in Seq(S), NEW a \in Nat \ {0}, NEW b \in 0..Len(text)
  PROVE  SubSeq(text, a, b) \in Seq(S)
<1>1. \A i \in a..b : i \in 1..Len(text)
  BY LenProperties
<1>2. \A i \in a..b : text[i] \in S
  BY <1>1, ElementOfSeq
<1> QED
  BY <1>2, SubSeqProperties

\* What execute would write is a text.
LEMMA PlanIsText ==
  ASSUME NEW file \in FileKinds, NEW c \in EditCalls
  PROVE  execute(file, c).text \in Seq(STRING)
<1>1. c.old_str \in Seq(STRING) /\ c.new_str \in Seq(STRING) /\ <<>> \in Seq(STRING)
  BY CallKinds
<1>2. c.tool \in {"write_file", "str_replace"} /\ file.text \in Seq(STRING)
  BY CallKinds DEF FileKinds
<1>3. ASSUME execute(file, c).error # "" PROVE execute(file, c).text = <<>>
  BY <1>2, <1>3 DEF execute, execute_write, execute_replace, Error, Writes
<1>4. CASE c.tool = "str_replace" /\ execute(file, c).error = ""
  <2> DEFINE first == find(file.text, c.old_str, 1)
  <2>1. /\ c.old_str # <<>> /\ first # npos
        /\ execute(file, c).text = replaced(file.text, first, c)
    BY <1>4, ExecuteWrites
  <2>2. 1 \in Nat \ {0}
    OBVIOUS
  <2>3. first \in 1..Len(file.text) - Len(c.old_str) + 1
    BY <2>1, <2>2, FindFinds
  <2> HIDE DEF first
  <2>4. PICK m \in Nat : m = Len(c.old_str)
    BY <1>1, LenProperties
  <2>5. PICK n \in Nat : n = Len(file.text)
    BY <1>2, LenProperties
  <2>6. first - 1 \in 0..n /\ first + m \in Nat \ {0}
    BY <2>3, <2>4, <2>5
  <2>7. SubSeq(file.text, 1, first - 1) \in Seq(STRING)
    BY <1>2, <2>2, <2>5, <2>6, PartOfText
  <2>8. SubSeq(file.text, first + m, n) \in Seq(STRING)
    <3>1. n \in 0..Len(file.text)
      BY <2>5
    <3> QED
      BY <1>2, <2>6, <3>1, PartOfText
  <2>9. SubSeq(file.text, 1, first - 1) \o c.new_str \o SubSeq(file.text, first + m, n)
          \in Seq(STRING)
    BY <1>1, <2>7, <2>8, ConcatProperties
  <2> QED
    BY <2>1, <2>4, <2>5, <2>9 DEF replaced
<1>5. CASE c.tool = "write_file" /\ execute(file, c).error = ""
  BY <1>1, <1>5, ExecuteWrites
<1> QED
  BY <1>1, <1>2, <1>3, <1>4, <1>5

-----------------------------------------------------------------------------
(* A call from its preview to its end.  The invariant ties what is on the   *)
(* disk to the file the preview was made of: they are the same until the    *)
(* call writes, and afterwards the one is what execute makes of the other,  *)
(* unless another program or the disk has interfered.                       *)

DiskInv ==
  /\ files \in [Paths -> FileKinds]
  /\ files[NoPath] = Absent

CallInv ==
  /\ call \in EditCalls \cup {NoCall}
  /\ seen \in FileKinds
  /\ call.path = NoPath => seen = Absent
  /\ plan.text \in Seq(STRING)
  /\ preview = IF call = NoCall THEN NoChanges
               ELSE confirm_details(seen, call, Context, MaxLines)

PhaseInv ==
  /\ phase \in {"configuring", "idle"} \cup UnderWay
  /\ phase # "idle" => result = ""
  /\ phase \in UnderWay => call \in EditCalls
  /\ always \subseteq {"write_file", "str_replace"}
  /\ disturbed \in BOOLEAN
  /\ calls \in 0..MaxCalls

\* Until the call writes, the file is the one that was shown; what it is about to
\* write was made of that file.
WayInv ==
  /\ phase \in UnderWay /\ ~disturbed => files[call.path] = seen
  /\ phase = "saving" => plan.error = "" /\ call.path # NoPath
  /\ phase = "saving" /\ ~disturbed => plan = execute(seen, call)

\* When it has ended, the file is what execute makes of the one that was shown, or
\* that one still.
EndInv ==
  EndedQuietly =>
    /\ call \in EditCalls
    /\ result # "ok" =>
         /\ files[call.path] = seen
         /\ result \in {"could not open for writing", execute(seen, call).error}
    /\ result = "ok" =>
         /\ execute(seen, call).error = ""
         /\ files[call.path] = File(execute(seen, call).text)

FollowInv == DiskInv /\ CallInv /\ PhaseInv /\ WayInv /\ EndInv

LEMMA InitFollowed == EditInit => FollowInv
<1> SUFFICES ASSUME EditInit PROVE FollowInv
  OBVIOUS
<1>1. <<>> \in Seq(STRING)
  BY EmptySeq
<1> USE DEF EditInit
<1>2. DiskInv
  <2>1. \A text \in Contents : File(text) \in FileKinds
    BY FilesAreKinds, TextsAreSequences
  <2>2. {Absent} \cup {File(text) : text \in Contents} \subseteq FileKinds
    BY <2>1, FilesAreKinds
  <2> QED
    BY <2>2 DEF DiskInv
<1>3. CallInv
  BY <1>1, FilesAreKinds DEF CallInv, Error
<1>4. PhaseInv
  <2>1. calls = 0 /\ always = {} /\ disturbed = FALSE /\ phase = "configuring" /\ result = ""
    OBVIOUS
  <2> HIDE DEF EditInit
  <2>2. 0 \in 0..MaxCalls
    BY BoundsAreNat
  <2> QED
    BY <2>1, <2>2 DEF PhaseInv, UnderWay
<1>5. WayInv
  BY DEF WayInv, UnderWay
<1>6. EndInv
  BY DEF EndInv, EndedQuietly
<1> QED
  BY <1>2, <1>3, <1>4, <1>5, <1>6 DEF FollowInv

LEMMA NoCallIsNone == NoCall \notin EditCalls /\ NoCall.path = NoPath
<1>1. NoCall.tool = "" /\ NoCall.path = NoPath
  BY DEF NoCall
<1>2. NoCall.tool \notin {"write_file", "str_replace"}
  BY <1>1
<1> QED
  BY <1>1, <1>2, CallKinds

LEMMA PathsOfCalls ==
  ASSUME CallInv
  PROVE  call.path \in Paths
BY CallKinds, NoCallIsNone, NoPathIsAPath DEF CallInv

\* Configuring and standing still leave the session alone.
LEMMA RestFollowed == ASSUME FollowInv, UNCHANGED editVars PROVE FollowInv'
<1> USE DEF editVars
<1>1. DiskInv'
  BY DEF FollowInv, DiskInv
<1>2. CallInv'
  BY DEF FollowInv, CallInv
<1>3. PhaseInv'
  BY DEF FollowInv, PhaseInv
<1>4. WayInv'
  BY DEF FollowInv, WayInv
<1>5. EndInv'
  BY DEF FollowInv, EndInv, EndedQuietly
<1> QED
  BY <1>1, <1>2, <1>3, <1>4, <1>5 DEF FollowInv

LEMMA StartFollowed == ASSUME FollowInv, Start PROVE FollowInv'
<1> USE DEF Start
<1>1. DiskInv'
  BY DEF FollowInv, DiskInv
<1>2. CallInv'
  BY DEF FollowInv, CallInv
<1>3. PhaseInv'
  BY DEF FollowInv, PhaseInv, UnderWay
<1>4. WayInv'
  BY DEF WayInv, UnderWay
<1>5. EndInv'
  <2>1. result' = ""
    BY DEF FollowInv, PhaseInv
  <2> QED
    BY <2>1 DEF EndInv, EndedQuietly
<1> QED
  BY <1>1, <1>2, <1>3, <1>4, <1>5 DEF FollowInv

LEMMA ConsiderFollowed ==
  ASSUME FollowInv, NEW c \in EditCalls, Consider(c)
  PROVE  FollowInv'
<1>1. /\ call' = c /\ seen' = files[c.path] /\ files' = files /\ disturbed' = FALSE
      /\ preview' = confirm_details(files[c.path], c, Context, MaxLines)
      /\ plan' = Error("") /\ always' = always
  BY DEF Consider
<1>2. phase' = Gate(c) /\ Gate(c) \in {"idle", "asking", "executing"}
  BY DEF Consider, Gate
<1>3. result' = IF phase' = "idle" THEN "declined" ELSE ""
  BY DEF Consider
<1>4. DiskInv'
  BY <1>1 DEF FollowInv, DiskInv
<1>5. CallInv'
  <2>1. c # NoCall
    BY NoCallIsNone
  <2>2. files[c.path] \in FileKinds /\ (c.path = NoPath => files[c.path] = Absent)
    BY CallKinds DEF FollowInv, DiskInv
  <2>3. Error("").text \in Seq(STRING)
    BY DEF Error
  <2> QED
    BY <1>1, <2>1, <2>2, <2>3 DEF CallInv
<1>6. PhaseInv'
  <2>1. calls' \in 0..MaxCalls
    <3>1. MaxCalls \in Nat
      BY BoundsAreNat
    <3>2. calls \in 0..MaxCalls /\ calls < MaxCalls /\ calls' = calls + 1
      BY DEF FollowInv, PhaseInv, Consider
    <3> QED
      BY <3>1, <3>2
  <2> QED
    BY <1>1, <1>2, <1>3, <2>1 DEF FollowInv, PhaseInv, UnderWay
<1>7. WayInv'
  BY <1>1, <1>2 DEF WayInv
<1>8. EndInv'
  BY <1>3 DEF EndInv, EndedQuietly
<1> QED
  BY <1>4, <1>5, <1>6, <1>7, <1>8 DEF FollowInv

LEMMA AnswerFollowed ==
  ASSUME FollowInv, NEW choice \in {"Yes", "No", "Always"}, Answer(choice)
  PROVE  FollowInv'
<1>1. UNCHANGED <<files, call, preview, seen, plan, disturbed, calls>>
  BY DEF Answer
<1>2. \/ phase' = "idle" /\ result' = "declined"
      \/ phase' = "executing" /\ result' = result
  BY DEF Answer
<1>3. phase = "asking" /\ call \in EditCalls /\ result = ""
  BY DEF FollowInv, PhaseInv, UnderWay, Answer
<1>4. DiskInv'
  BY <1>1 DEF FollowInv, DiskInv
<1>5. CallInv'
  BY <1>1 DEF FollowInv, CallInv
<1>6. PhaseInv'
  <2>1. always' \subseteq {"write_file", "str_replace"}
    BY <1>3, CallKinds DEF FollowInv, PhaseInv, Answer
  <2> QED
    BY <1>1, <1>2, <1>3, <2>1 DEF FollowInv, PhaseInv, UnderWay
<1>7. WayInv'
  BY <1>1, <1>2, <1>3 DEF FollowInv, WayInv, UnderWay
<1>8. EndInv'
  BY <1>2 DEF EndInv, EndedQuietly
<1> QED
  BY <1>4, <1>5, <1>6, <1>7, <1>8 DEF FollowInv

LEMMA ExecuteFollowed == ASSUME FollowInv, Execute PROVE FollowInv'
<1>1. /\ UNCHANGED <<files, call, preview, seen, always, disturbed, calls>>
      /\ plan' = execute(files[call.path], call)
  BY DEF Execute
<1>2. \/ plan'.error = "" /\ phase' = "saving" /\ result' = result
      \/ plan'.error # "" /\ phase' = "idle" /\ result' = plan'.error
  BY DEF Execute
<1>3. phase = "executing" /\ call \in EditCalls /\ result = ""
  BY DEF FollowInv, PhaseInv, UnderWay, Execute
<1>4. ~disturbed => files[call.path] = seen
  BY <1>3 DEF FollowInv, WayInv, UnderWay
<1>5. DiskInv'
  BY <1>1 DEF FollowInv, DiskInv
<1>6. CallInv'
  <2>1. files[call.path] \in FileKinds
    BY PathsOfCalls DEF FollowInv, DiskInv
  <2>2. execute(files[call.path], call).text \in Seq(STRING)
    BY <1>3, <2>1, PlanIsText
  <2> QED
    BY <1>1, <2>2 DEF FollowInv, CallInv
<1>7. PhaseInv'
  BY <1>1, <1>2, <1>3 DEF FollowInv, PhaseInv, UnderWay
<1>8. WayInv'
  <2>1. plan'.error = "" => call.path # NoPath
    BY <1>1, <1>3, ExecuteWrites
  <2> QED
    BY <1>1, <1>2, <1>4, <2>1 DEF WayInv, UnderWay
<1>9. EndInv'
  <2>1. execute(files[call.path], call).error # "ok"
    BY <1>3, ExecuteErrors
  <2> QED
    BY <1>1, <1>2, <1>3, <1>4, <2>1 DEF EndInv, EndedQuietly
<1> QED
  BY <1>5, <1>6, <1>7, <1>8, <1>9 DEF FollowInv

\* The ways a save may end have this in common.
LEMMA SaveKeepsKinds ==
  ASSUME FollowInv, NEW text \in FileKinds, NEW how, SaveEnds(text, how),
         disturbed' \in BOOLEAN
  PROVE  /\ DiskInv' /\ CallInv' /\ PhaseInv' /\ WayInv'
         /\ phase' = "idle" /\ result' = how /\ call \in EditCalls
         /\ UNCHANGED <<call, seen>>
         /\ files'[call.path] = text
<1>1. /\ phase = "saving" /\ phase' = "idle" /\ result' = how
      /\ files' = [files EXCEPT ![call.path] = text]
      /\ UNCHANGED <<call, preview, seen, plan, always, calls>>
  BY DEF SaveEnds
<1>2. call.path \in Paths /\ call.path # NoPath /\ call \in EditCalls
  BY <1>1, PathsOfCalls DEF FollowInv, WayInv, PhaseInv, UnderWay
<1>3. DiskInv' /\ files'[call.path] = text
  BY <1>1, <1>2, NoPathIsAPath DEF FollowInv, DiskInv
<1>4. CallInv'
  BY <1>1 DEF FollowInv, CallInv
<1>5. PhaseInv'
  BY <1>1 DEF FollowInv, PhaseInv, UnderWay
<1>6. WayInv'
  BY <1>1 DEF WayInv, UnderWay
<1> QED
  BY <1>1, <1>2, <1>3, <1>4, <1>5, <1>6

LEMMA SavedFollowed == ASSUME FollowInv, Saved PROVE FollowInv'
<1>1. SaveEnds(File(plan.text), "ok") /\ disturbed' = disturbed /\ phase = "saving"
  BY DEF Saved, SaveEnds
<1>2. File(plan.text) \in FileKinds /\ disturbed' \in BOOLEAN
  BY <1>1, FilesAreKinds DEF FollowInv, CallInv, PhaseInv
<1>3. /\ DiskInv' /\ CallInv' /\ PhaseInv' /\ WayInv'
      /\ phase' = "idle" /\ result' = "ok" /\ call \in EditCalls
      /\ UNCHANGED <<call, seen>>
      /\ files'[call.path] = File(plan.text)
  BY <1>1, <1>2, SaveKeepsKinds
<1>4. EndInv'
  <2>1. plan.error = "" /\ (~disturbed => plan = execute(seen, call))
    BY <1>1 DEF FollowInv, WayInv
  <2> QED
    BY <1>1, <1>3, <2>1 DEF EndInv, EndedQuietly
<1> QED
  BY <1>3, <1>4 DEF FollowInv

LEMMA NotOpenedFollowed == ASSUME FollowInv, NotOpened PROVE FollowInv'
<1> DEFINE how == "could not open for writing"
<1>1. SaveEnds(files[call.path], how) /\ disturbed' = disturbed /\ phase = "saving"
  BY DEF NotOpened, SaveEnds
<1>2. files[call.path] \in FileKinds /\ disturbed' \in BOOLEAN
  BY <1>1, PathsOfCalls DEF FollowInv, DiskInv, PhaseInv
<1>3. /\ DiskInv' /\ CallInv' /\ PhaseInv' /\ WayInv'
      /\ phase' = "idle" /\ result' = how /\ call \in EditCalls
      /\ UNCHANGED <<call, seen>>
      /\ files'[call.path] = files[call.path]
  BY <1>1, <1>2, SaveKeepsKinds
<1>4. EndInv'
  <2>1. ~disturbed => files[call.path] = seen
    BY <1>1 DEF FollowInv, WayInv, UnderWay
  <2> QED
    BY <1>1, <1>3, <2>1 DEF EndInv, EndedQuietly
<1> QED
  BY <1>3, <1>4 DEF FollowInv

LEMMA LostFollowed == ASSUME FollowInv, Lost PROVE FollowInv'
<1>1. PICK how : SaveEnds(File(<<>>), how)
  BY DEF Lost
<1>2. disturbed' = TRUE
  BY DEF Lost
<1>3. File(<<>>) \in FileKinds
  BY FilesAreKinds, EmptySeq
<1>4. DiskInv' /\ CallInv' /\ PhaseInv' /\ WayInv'
  BY <1>1, <1>2, <1>3, SaveKeepsKinds
<1>5. EndInv'
  BY <1>2 DEF EndInv, EndedQuietly
<1> QED
  BY <1>4, <1>5 DEF FollowInv

LEMMA OthersFollowed ==
  ASSUME FollowInv, NEW path \in Paths, NEW file \in FileKinds, OthersWrite(path, file)
  PROVE  FollowInv'
<1>1. /\ path # NoPath
      /\ files' = [files EXCEPT ![path] = file]
      /\ disturbed' = (disturbed \/ path = call.path)
      /\ UNCHANGED <<phase, call, preview, seen, plan, result, always, calls>>
  BY DEF OthersWrite
<1>2. ~disturbed' => ~disturbed /\ files'[call.path] = files[call.path]
  BY <1>1, PathsOfCalls DEF FollowInv, DiskInv
<1>3. DiskInv'
  BY <1>1, NoPathIsAPath DEF FollowInv, DiskInv
<1>4. CallInv'
  BY <1>1 DEF FollowInv, CallInv
<1>5. PhaseInv'
  <2>1. disturbed' \in BOOLEAN
    BY <1>1
  <2> QED
    BY <1>1, <2>1 DEF FollowInv, PhaseInv
<1>6. WayInv'
  BY <1>1, <1>2 DEF FollowInv, WayInv
<1>7. EndInv'
  BY <1>1, <1>2 DEF FollowInv, EndInv, EndedQuietly
<1> QED
  BY <1>3, <1>4, <1>5, <1>6, <1>7 DEF FollowInv

LEMMA StepFollowed == FollowInv /\ [EditNext]_allVars => FollowInv'
<1> SUFFICES ASSUME FollowInv, [EditNext]_allVars PROVE FollowInv'
  OBVIOUS
<1>1. ASSUME NEW rule \in Rules, Configure(rule) PROVE FollowInv'
  BY <1>1, RestFollowed DEF Configure
<1>2. CASE Start
  BY <1>2, StartFollowed
<1>3. ASSUME NEW c \in EditCalls, Consider(c) PROVE FollowInv'
  BY <1>3, ConsiderFollowed
<1>4. ASSUME NEW choice \in {"Yes", "No", "Always"}, Answer(choice) PROVE FollowInv'
  BY <1>4, AnswerFollowed
<1>5. CASE Execute
  BY <1>5, ExecuteFollowed
<1>6. CASE Saved
  BY <1>6, SavedFollowed
<1>7. CASE NotOpened
  BY <1>7, NotOpenedFollowed
<1>8. CASE Lost
  BY <1>8, LostFollowed
<1>9. ASSUME NEW path \in Paths, NEW text \in Contents, OthersWrite(path, File(text))
      PROVE  FollowInv'
  BY <1>9, OthersFollowed, FilesAreKinds, TextsAreSequences
<1>10. ASSUME NEW path \in Paths, OthersWrite(path, Absent) PROVE FollowInv'
  BY <1>10, OthersFollowed, FilesAreKinds
<1>11. CASE UNCHANGED allVars
  BY <1>11, RestFollowed DEF allVars
<1> QED
  BY <1>1, <1>2, <1>3, <1>4, <1>5, <1>6, <1>7, <1>8, <1>9, <1>10, <1>11 DEF EditNext

\* The invariant that follows a call holds in every state.
THEOREM FollowedAlways == EditSpec => []FollowInv
<1>1. EditInit => FollowInv
  BY InitFollowed
<1>2. FollowInv /\ [EditNext]_allVars => FollowInv'
  BY StepFollowed
<1> QED
  BY <1>1, <1>2, PTL DEF EditSpec

\* Types: EditTypeOK for every set of files, texts and rules (FileTools.tla's texts
\* stand for the contents of WriteFileTool.cpp and StrReplaceTool.cpp).
THEOREM EditTypes == EditSpec => []EditTypeOK
<1>1. Filed /\ FollowInv => EditTypeOK
  <2> SUFFICES ASSUME Filed, FollowInv PROVE EditTypeOK
    OBVIOUS
  <2>1. TypeOK
    <3>1. ASSUME NEW rules \in SUBSET Rules
          PROVE  /\ BareTools(rules) \subseteq ToolNames \cup {""}
                 /\ \A pair \in Pairs(rules) : pair \in PrefixPairs
      <4>1. \A rule \in rules : rule.tool \in ToolNames \cup {""} /\ rule.prefix \in Seq(STRING)
        BY RulesAssumption
      <4>2. \A rule \in rules : <<rule.tool, rule.prefix>> \in PrefixPairs
        BY <4>1 DEF PrefixPairs
      <4> QED
        BY <4>1, <4>2 DEF BareTools, Pairs
    <3> QED
      BY <3>1 DEF Filed, TypeOK
  <2>2. \A path \in Paths : files[path].exists \in BOOLEAN
    BY DEF FollowInv, DiskInv, FileKinds
  <2>3. preview.fails # "" => preview.diff = <<>>
    BY FailsWithoutDiff DEF FollowInv, CallInv, NoChanges, Shows
  <2> QED
    BY <2>1, <2>2, <2>3 DEF EditTypeOK, FollowInv, DiskInv, CallInv, PhaseInv, WayInv, UnderWay
<1>2. EditSpec => []Filed
  BY EditInvariance, PTL DEF EditInv
<1> QED
  BY <1>1, <1>2, FollowedAlways, PTL

\* A call that ended undisturbed with an error has left the file alone, and a
\* successful one has replaced one occurrence, the last one, or written the content:
\* EditsOnePlace for every text and every edit (StrReplaceTool.cpp:52-72).
THEOREM EditsOnePlaceAlways == EditSpec => []EditsOnePlace
<1>1. FollowInv => EditsOnePlace
  <2> SUFFICES ASSUME FollowInv, EndedQuietly PROVE EditsOnePlace
    BY DEF EditsOnePlace
  <2>1. /\ call \in EditCalls
        /\ result # "ok" => files[call.path] = seen
        /\ result = "ok" => /\ execute(seen, call).error = ""
                            /\ files[call.path] = File(execute(seen, call).text)
    BY DEF FollowInv, EndInv
  <2>2. result = "ok" /\ call.tool = "write_file" => files[call.path] = File(call.new_str)
    BY <2>1, ExecuteWrites
  <2>3. ASSUME result = "ok", call.tool = "str_replace"
        PROVE  OnePlace(seen.text, call.old_str, call.new_str, files[call.path].text)
    <3> DEFINE first == find(seen.text, call.old_str, 1)
    <3>1. /\ call.old_str # <<>> /\ first # npos
          /\ find(seen.text, call.old_str, first + Len(call.old_str)) = npos
          /\ execute(seen, call).text = replaced(seen.text, first, call)
      BY <2>1, <2>3, ExecuteWrites
    <3>2. seen.text \in Seq(STRING) /\ call.old_str \in Seq(STRING)
      BY <2>1, CallKinds DEF FollowInv, CallInv, FileKinds
    <3>3. OnePlace(seen.text, call.old_str, call.new_str, replaced(seen.text, first, call))
      BY <3>1, <3>2, ReplacedOnce
    <3>4. files[call.path].text = execute(seen, call).text
      BY <2>1, <2>3, TextOfFile
    <3> QED
      BY <3>1, <3>3, <3>4
  <2> QED
    BY <2>1, <2>2, <2>3 DEF EditsOnePlace, OnePlace
<1> QED
  BY <1>1, FollowedAlways, PTL

\* The control half of PreviewIsKept: a preview that says the edit will fail is kept,
\* a str_replace that is shown fails only if the file cannot be opened for writing,
\* and what was shown is unified_diff of the file read and the file left behind.
PreviewForetells ==
  EndedQuietly =>
    /\ preview.fails # "" => result # "ok"
    /\ call.tool = "str_replace" /\ preview.fails = "" =>
         result \in {"ok", "could not open for writing"}
    /\ result = "ok" =>
         preview.diff = unified_diff(seen.text, files[call.path].text, Context, MaxLines)

\* Whatever the texts: the checks of confirm_details, written twice in the code, agree
\* with those of execute for every call nobody interferes with, and the diff shown
\* is of what the call does (StrReplaceTool.cpp:76-113, WriteFileTool.cpp:56-75).
THEOREM ForetoldAlways == EditSpec => []PreviewForetells
<1>1. FollowInv => PreviewForetells
  <2> SUFFICES ASSUME FollowInv, EndedQuietly PROVE PreviewForetells
    BY DEF PreviewForetells
  <2>1. /\ call \in EditCalls
        /\ result # "ok" => result \in {"could not open for writing", execute(seen, call).error}
        /\ result = "ok" => /\ execute(seen, call).error = ""
                            /\ files[call.path] = File(execute(seen, call).text)
    BY DEF FollowInv, EndInv
  <2>2. preview = confirm_details(seen, call, Context, MaxLines)
    BY <2>1, NoCallIsNone DEF FollowInv, CallInv
  <2>3. /\ preview.fails # "" => execute(seen, call).error # ""
        /\ call.tool = "str_replace" /\ preview.fails = "" => execute(seen, call).error = ""
        /\ execute(seen, call).error = "" =>
             preview.diff = unified_diff(seen.text, execute(seen, call).text, Context, MaxLines)
    <3>1. call.path = NoPath => seen = Absent
      BY DEF FollowInv, CallInv
    <3> QED
      BY <2>1, <2>2, <3>1, ConfirmForetells
  <2>4. result # ""
    BY DEF EndedQuietly
  <2>5. result = "ok" => files[call.path].text = execute(seen, call).text
    BY <2>1, TextOfFile
  <2>6. preview.fails # "" => result # "ok"
    BY <2>1, <2>3
  <2>7. call.tool = "str_replace" /\ preview.fails = "" =>
          result \in {"ok", "could not open for writing"}
    BY <2>1, <2>3, <2>4
  <2>8. result = "ok" =>
          preview.diff = unified_diff(seen.text, files[call.path].text, Context, MaxLines)
    BY <2>1, <2>3, <2>5
  <2> QED
    BY <2>6, <2>7, <2>8 DEF PreviewForetells
<1> QED
  BY <1>1, FollowedAlways, PTL

-----------------------------------------------------------------------------
(* Functions whose values depend on those of a lower rank.                  *)

\* step[p] makes the value at p of a function that is right at every lower rank.
Grounded(step, C, V, rank) ==
  \A p \in C : \A f, g \in [C -> V] :
    (\A q \in C : rank[q] < rank[p] => f[q] = g[q]) => step[p][f] = step[p][g]

\* f is the function that the recursion asks for.
Recurs(f, step, C) == \A p \in C : f[p] = step[p][f]

\* A recursion whose steps go down in rank has its function.
LEMMA RecursionExists ==
  ASSUME NEW C, NEW V, V # {}, NEW N \in Nat, NEW rank \in [C -> 0..N],
         NEW step \in [C -> [[C -> V] -> V]], Grounded(step, C, V, rank)
  PROVE  \E f \in [C -> V] : Recurs(f, step, C)
<1> DEFINE G == {k \in 0..(N + 1) :
                   \E f \in [C -> V] : \A p \in C : rank[p] < k => f[p] = step[p][f]}
<1>1. 0 \in G
  <2>1. PICK v : v \in V
    OBVIOUS
  <2>2. [p \in C |-> v] \in [C -> V] /\ \A p \in C : ~(rank[p] < 0)
    BY <2>1
  <2>3. 0 \in 0..(N + 1)
    OBVIOUS
  <2> QED
    BY <2>2, <2>3
<1>2. ASSUME NEW k \in 1..(N + 1), k - 1 \in G
      PROVE  k \in G
  <2>1. PICK f \in [C -> V] : \A p \in C : rank[p] < k - 1 => f[p] = step[p][f]
    BY <1>2
  <2> DEFINE g == [p \in C |-> step[p][f]]
  <2>2. g \in [C -> V]
    OBVIOUS
  <2>3. \A p \in C : g[p] = step[p][f]
    OBVIOUS
  <2> HIDE DEF g
  <2>4. ASSUME NEW p \in C, rank[p] < k
        PROVE  g[p] = step[p][g]
    <3>1. ASSUME NEW q \in C, rank[q] < rank[p]
          PROVE  f[q] = g[q]
      <4>1. rank[q] \in 0..N /\ rank[p] \in 0..N
        OBVIOUS
      <4>2. rank[q] < k - 1
        BY <2>4, <3>1, <4>1
      <4> QED
        BY <2>1, <2>3, <4>2
    <3>2. step[p][f] = step[p][g]
      BY <2>2, <3>1 DEF Grounded
    <3> QED
      BY <2>3, <3>2
  <2>5. k \in 0..(N + 1)
    OBVIOUS
  <2> QED
    BY <2>2, <2>4, <2>5
<1>3. N + 1 \in G
  <2> HIDE DEF G
  <2>1. N + 1 \in Nat
    OBVIOUS
  <2>2. 0..(N + 1) \subseteq G
    BY <1>1, <1>2, <2>1, Climb
  <2> QED
    BY <2>1, <2>2
<1>4. PICK f \in [C -> V] : \A p \in C : rank[p] < N + 1 => f[p] = step[p][f]
  BY <1>3
<1>5. \A p \in C : rank[p] < N + 1
  OBVIOUS
<1> QED
  BY <1>4, <1>5 DEF Recurs

\* What every value has if it has it when all of a lower rank do.
Inherited(H, C, rank) == \A p \in C : (\A q \in C : rank[q] < rank[p] => q \in H) => p \in H

\* Induction on the rank.
LEMMA RankClimb ==
  ASSUME NEW C, NEW N \in Nat, NEW rank \in [C -> 0..N], NEW H, Inherited(H, C, rank)
  PROVE  C \subseteq H
<1> DEFINE G == {k \in 0..(N + 1) : \A p \in C : rank[p] < k => p \in H}
<1>1. 0 \in G
  OBVIOUS
<1>2. ASSUME NEW k \in 1..(N + 1), k - 1 \in G
      PROVE  k \in G
  <2>1. ASSUME NEW p \in C, rank[p] < k
        PROVE  p \in H
    <3>1. ASSUME NEW q \in C, rank[q] < rank[p]
          PROVE  q \in H
      <4>1. rank[q] \in 0..N /\ rank[p] \in 0..N
        OBVIOUS
      <4>2. rank[q] < k - 1
        BY <2>1, <3>1, <4>1
      <4> QED
        BY <1>2, <4>2
    <3> QED
      BY <3>1 DEF Inherited
  <2>2. k \in 0..(N + 1)
    OBVIOUS
  <2> QED
    BY <2>1, <2>2
<1>3. N + 1 \in G
  <2> HIDE DEF G
  <2>1. N + 1 \in Nat
    OBVIOUS
  <2>2. 0..(N + 1) \subseteq G
    BY <1>1, <1>2, <2>1, Climb
  <2> QED
    BY <2>1, <2>2
<1>4. \A p \in C : rank[p] < N + 1
  OBVIOUS
<1> QED
  BY <1>3, <1>4

-----------------------------------------------------------------------------
(* The walk over two sequences of lines.                                    *)

\* The greater of two numbers, as CHOOSE finds it.
LEMMA MaxOfTwo ==
  ASSUME NEW x \in Nat, NEW y \in Nat
  PROVE  Max({x, y}) = IF x >= y THEN x ELSE y
<1>1. PICK S : S = {x, y}
  OBVIOUS
<1>2. CASE x >= y
  <2>1. x \in S /\ \A j \in S : j \in Nat /\ j <= x
    BY <1>1, <1>2
  <2> QED
    BY <1>1, <1>2, <2>1, MaxIs
<1>3. CASE ~(x >= y)
  <2>1. y \in S /\ \A j \in S : j \in Nat /\ j <= y
    BY <1>1, <1>3
  <2> QED
    BY <1>1, <1>3, <2>1, MaxIs
<1> QED
  BY <1>2, <1>3

\* How far a place is from the end of both.
Left(p, n, m) == (n + 1 - p[1]) + (m + 1 - p[2])
Ranks(a, b, n, m) == [p \in Corners(a, b) |-> Left(p, n, m)]

\* p is the corner before line i of a and line j of b.
At(a, b, n, m, i, j, p) ==
  /\ p \in Corners(a, b) /\ p[1] = i /\ p[2] = j
  /\ Within(a, b, p) <=> i <= n /\ j <= m
  /\ Same(a, b, p) <=> i <= n /\ j <= m /\ a[i] = b[j]
  /\ Right(p) = <<i + 1, j>> /\ Down(p) = <<i, j + 1>> /\ Both(p) = <<i + 1, j + 1>>
  /\ Left(p, n, m) = (n + 1 - i) + (m + 1 - j)

\* What a corner is called in the other definitions.
LEMMA AtCorner ==
  ASSUME NEW a, NEW b, NEW n \in Nat, n = Len(a), NEW m \in Nat, m = Len(b),
         NEW i \in 1..(n + 1), NEW j \in 1..(m + 1), NEW p, p = <<i, j>>
  PROVE  At(a, b, n, m, i, j, p)
BY DEF At, Corners, Within, Same, Right, Down, Both, Left

\* A corner is before some line of a and some line of b.
LEMMA CornerIs ==
  ASSUME NEW a, NEW b, NEW n \in Nat, n = Len(a), NEW m \in Nat, m = Len(b),
         NEW p \in Corners(a, b)
  PROVE  \E i \in 1..(n + 1), j \in 1..(m + 1) : p = <<i, j>>
BY DEF Corners

\* No corner is farther from the end than the two are long.
LEMMA RanksType ==
  ASSUME NEW a, NEW b, NEW n \in Nat, n = Len(a), NEW m \in Nat, m = Len(b)
  PROVE  Ranks(a, b, n, m) \in [Corners(a, b) -> 0..(n + m)]
<1>1. ASSUME NEW p \in Corners(a, b) PROVE Left(p, n, m) \in 0..(n + m)
  <2>1. PICK i \in 1..(n + 1), j \in 1..(m + 1) : p = <<i, j>>
    BY CornerIs
  <2>2. At(a, b, n, m, i, j, p)
    BY <2>1, AtCorner
  <2>3. Left(p, n, m) = (n + 1 - i) + (m + 1 - j)
    BY <2>2 DEF At
  <2> QED
    BY <2>3
<1> QED
  BY <1>1 DEF Ranks

\* A step goes on to a corner that is nearer to the end.
Nearer(a, b, n, m, p, q) ==
  q \in Corners(a, b) /\ Ranks(a, b, n, m)[q] < Ranks(a, b, n, m)[p]

\* All three steps of the walk are nearer.
LEMMA StepsAreNearer ==
  ASSUME NEW a, NEW b, NEW n \in Nat, n = Len(a), NEW m \in Nat, m = Len(b),
         NEW p \in Corners(a, b)
  PROVE  /\ p[1] <= n => Nearer(a, b, n, m, p, Right(p))
         /\ p[2] <= m => Nearer(a, b, n, m, p, Down(p))
         /\ Within(a, b, p) => Nearer(a, b, n, m, p, Both(p))
<1>1. PICK i \in 1..(n + 1), j \in 1..(m + 1) : p = <<i, j>>
  BY CornerIs
<1>0. At(a, b, n, m, i, j, p)
  BY <1>1, AtCorner
<1>2. /\ p[1] = i /\ p[2] = j /\ (Within(a, b, p) <=> i <= n /\ j <= m)
      /\ Right(p) = <<i + 1, j>> /\ Down(p) = <<i, j + 1>> /\ Both(p) = <<i + 1, j + 1>>
      /\ Ranks(a, b, n, m)[p] = (n + 1 - i) + (m + 1 - j)
  BY <1>0 DEF At, Ranks
<1>3. ASSUME NEW k \in 1..(n + 1), NEW l \in 1..(m + 1)
      PROVE  <<k, l>> \in Corners(a, b) /\ Ranks(a, b, n, m)[<<k, l>>] = (n + 1 - k) + (m + 1 - l)
  <2>1. PICK q : q = <<k, l>>
    OBVIOUS
  <2>2. At(a, b, n, m, k, l, q)
    BY <2>1, AtCorner
  <2> QED
    BY <2>1, <2>2 DEF At, Ranks
<1>4. ASSUME i <= n PROVE Nearer(a, b, n, m, p, Right(p))
  <2>1. PICK k \in 1..(n + 1) : k = i + 1
    BY <1>4
  <2>2. <<k, j>> \in Corners(a, b) /\ Ranks(a, b, n, m)[<<k, j>>] = (n + 1 - k) + (m + 1 - j)
    BY <1>3
  <2>3. (n + 1 - k) + (m + 1 - j) < (n + 1 - i) + (m + 1 - j)
    BY <2>1
  <2> QED
    BY <1>2, <2>1, <2>2, <2>3 DEF Nearer
<1>5. ASSUME j <= m PROVE Nearer(a, b, n, m, p, Down(p))
  <2>1. PICK l \in 1..(m + 1) : l = j + 1
    BY <1>5
  <2>2. <<i, l>> \in Corners(a, b) /\ Ranks(a, b, n, m)[<<i, l>>] = (n + 1 - i) + (m + 1 - l)
    BY <1>3
  <2>3. (n + 1 - i) + (m + 1 - l) < (n + 1 - i) + (m + 1 - j)
    BY <2>1
  <2> QED
    BY <1>2, <2>1, <2>2, <2>3 DEF Nearer
<1>6. ASSUME i <= n, j <= m PROVE Nearer(a, b, n, m, p, Both(p))
  <2>1. PICK k \in 1..(n + 1) : k = i + 1
    BY <1>6
  <2>2. PICK l \in 1..(m + 1) : l = j + 1
    BY <1>6
  <2>3. <<k, l>> \in Corners(a, b) /\ Ranks(a, b, n, m)[<<k, l>>] = (n + 1 - k) + (m + 1 - l)
    BY <1>3
  <2>4. (n + 1 - k) + (m + 1 - l) < (n + 1 - i) + (m + 1 - j)
    BY <2>1, <2>2
  <2> QED
    BY <1>2, <2>1, <2>2, <2>3, <2>4 DEF Nearer
<1> QED
  BY <1>2, <1>4, <1>5, <1>6

\* The lengths of common subsequences, as their recursion gives them.
Lengths(L, a, b) ==
  /\ L \in [Corners(a, b) -> Nat]
  /\ \A p \in Corners(a, b) :
       /\ ~Within(a, b, p) => L[p] = 0
       /\ Same(a, b, p) => L[p] = L[Both(p)] + 1
       /\ Within(a, b, p) /\ ~Same(a, b, p) =>
            L[p] = IF L[Right(p)] >= L[Down(p)] THEN L[Right(p)] ELSE L[Down(p)]

\* The table of lcs_ops holds what its recursion says (Diff.cpp:38-46).
LEMMA DpIs ==
  ASSUME NEW a, NEW b, NEW n \in Nat, n = Len(a), NEW m \in Nat, m = Len(b)
  PROVE  Lengths(dp(a, b), a, b)
<1> DEFINE C == Corners(a, b)
           body(p, f) == IF ~Within(a, b, p) THEN 0
                         ELSE IF Same(a, b, p) THEN f[Both(p)] + 1
                         ELSE Max({f[Right(p)], f[Down(p)]})
           step == [p \in C |-> [f \in [C -> Nat] |-> body(p, f)]]
           P(f) == f = [p \in C |-> body(p, f)]
           L == CHOOSE f : P(f)
           rank == Ranks(a, b, n, m)
<1>1. dp(a, b) = L
  BY DEF dp
<1>2. rank \in [C -> 0..(n + m)] /\ n + m \in Nat
  BY RanksType
<1>3. ASSUME NEW p \in C, Within(a, b, p)
      PROVE  /\ Right(p) \in C /\ rank[Right(p)] < rank[p]
             /\ Down(p) \in C /\ rank[Down(p)] < rank[p]
             /\ Both(p) \in C /\ rank[Both(p)] < rank[p]
  <2>1. p[1] <= n /\ p[2] <= m
    BY <1>3 DEF Within
  <2> QED
    BY <1>3, <2>1, StepsAreNearer DEF Nearer
<1> HIDE DEF rank, C
<1>4. ASSUME NEW p \in C, NEW f,
             \A q \in C : rank[q] < rank[p] => f[q] \in Nat
      PROVE  body(p, f) \in Nat
  <2>1. CASE ~Within(a, b, p)
    BY <2>1
  <2>2. CASE Within(a, b, p)
    <3>1. f[Right(p)] \in Nat /\ f[Down(p)] \in Nat /\ f[Both(p)] \in Nat
      BY <1>3, <1>4, <2>2
    <3>2. Max({f[Right(p)], f[Down(p)]}) \in Nat
      BY <3>1, MaxOfTwo
    <3> QED
      BY <2>2, <3>1, <3>2
  <2> QED
    BY <2>1, <2>2
<1>5. \A p \in C : \A f, g :
        (\A q \in C : rank[q] < rank[p] => f[q] = g[q]) => body(p, f) = body(p, g)
  <2> SUFFICES ASSUME NEW p \in C, NEW f, NEW g,
                      \A q \in C : rank[q] < rank[p] => f[q] = g[q]
               PROVE  body(p, f) = body(p, g)
    OBVIOUS
  <2>1. CASE ~Within(a, b, p)
    BY <2>1
  <2>2. CASE Within(a, b, p)
    <3>1. f[Right(p)] = g[Right(p)] /\ f[Down(p)] = g[Down(p)] /\ f[Both(p)] = g[Both(p)]
      BY <1>3, <2>2
    <3> QED
      BY <3>1
  <2> QED
    BY <2>1, <2>2
<1>6. \A p \in C : \A f \in [C -> Nat] : body(p, f) \in Nat
  <2> SUFFICES ASSUME NEW p \in C, NEW f \in [C -> Nat] PROVE body(p, f) \in Nat
    OBVIOUS
  <2>1. \A q \in C : rank[q] < rank[p] => f[q] \in Nat
    OBVIOUS
  <2> HIDE DEF body
  <2> QED
    BY <1>4, <2>1
<1> HIDE DEF body
<1>7. step \in [C -> [[C -> Nat] -> Nat]] /\ \A p \in C : \A f \in [C -> Nat] : step[p][f] = body(p, f)
  BY <1>6
<1> HIDE DEF step
<1>8. Grounded(step, C, Nat, rank)
  <2> SUFFICES ASSUME NEW p \in C, NEW f \in [C -> Nat], NEW g \in [C -> Nat],
                      \A q \in C : rank[q] < rank[p] => f[q] = g[q]
               PROVE  step[p][f] = step[p][g]
    BY DEF Grounded
  <2>1. body(p, f) = body(p, g)
    BY <1>5
  <2> QED
    BY <1>7, <2>1
<1>9. PICK f \in [C -> Nat] : Recurs(f, step, C)
  <2>1. Nat # {}
    OBVIOUS
  <2> QED
    BY <1>2, <1>7, <1>8, <2>1, RecursionExists
<1>10. P(f)
  <2>1. \A p \in C : f[p] = body(p, f)
    BY <1>7, <1>9 DEF Recurs
  <2> QED
    BY <2>1
<1>11. P(L)
  <2> HIDE DEF P
  <2> QED
    BY <1>10
<1> HIDE DEF L
<1>12. \A p \in C : L[p] = body(p, L)
  BY <1>11
<1>13. L \in [C -> Nat]
  <2> DEFINE H == {p \in C : L[p] \in Nat}
  <2>1. ASSUME NEW p \in C, \A q \in C : rank[q] < rank[p] => q \in H
        PROVE  p \in H
    <3>1. \A q \in C : rank[q] < rank[p] => L[q] \in Nat
      BY <2>1
    <3>2. body(p, L) \in Nat
      BY <1>4, <3>1
    <3> QED
      BY <1>12, <3>2
  <2>2. C \subseteq H
    <3>1. Inherited(H, C, rank)
      BY <2>1 DEF Inherited
    <3>2. PICK N \in Nat : N = n + m
      BY <1>2
    <3>3. rank \in [C -> 0..N]
      BY <1>2, <3>2
    <3> HIDE DEF H, P
    <3> QED
      BY <3>1, <3>3, RankClimb
  <2>3. \A p \in C : L[p] \in Nat
    BY <2>2
  <2> QED
    BY <1>11, <2>3
<1>14. ASSUME NEW p \in C
       PROVE  /\ ~Within(a, b, p) => L[p] = 0
              /\ Same(a, b, p) => L[p] = L[Both(p)] + 1
              /\ Within(a, b, p) /\ ~Same(a, b, p) =>
                   L[p] = IF L[Right(p)] >= L[Down(p)] THEN L[Right(p)] ELSE L[Down(p)]
  <2>1. L[p] = body(p, L)
    BY <1>12
  <2>2. Same(a, b, p) => Within(a, b, p)
    BY DEF Same
  <2>3. Within(a, b, p) => L[Right(p)] \in Nat /\ L[Down(p)] \in Nat
    BY <1>3, <1>13
  <2>4. Within(a, b, p) =>
          Max({L[Right(p)], L[Down(p)]}) =
            IF L[Right(p)] >= L[Down(p)] THEN L[Right(p)] ELSE L[Down(p)]
    BY <2>3, MaxOfTwo
  <2> QED
    BY <2>1, <2>2, <2>4 DEF body
<1> QED
  BY <1>1, <1>13, <1>14 DEF Lengths, C

\* One of n sequences grows at its head, and there is nothing before it.
LeadsAt(r, q, n, k, t) ==
  /\ n = Len(q) /\ n = Len(r) /\ r[k] = t \o q[k]
  /\ \A i \in 1..n : /\ i # k => r[i] = q[i]
                     /\ i < k => q[i] = <<>>

\* Then what is joined of them grows at its head.
LEMMA FlattenLead ==
  ASSUME NEW S, NEW q \in Seq(Seq(S)), NEW r \in Seq(Seq(S)), NEW t \in Seq(S),
         NEW n \in Nat, NEW k \in 1..n, LeadsAt(r, q, n, k, t)
  PROVE  FlattenSeq(r) = t \o FlattenSeq(q)
<1>0. /\ n = Len(q) /\ n = Len(r) /\ r[k] = t \o q[k]
      /\ \A i \in 1..n : i # k => r[i] = q[i]
      /\ \A i \in 1..n : i < k => q[i] = <<>>
  BY DEF LeadsAt
<1>b. n = Len(q)
  BY <1>0
<1> DEFINE U == Seq(S)
<1>1. /\ <<>> \in U
      /\ \A s \in U : s \o <<>> = s /\ <<>> \o s = s
      /\ \A s, u \in U : s \o u \in U
  BY Concats
<1> DEFINE Cat(s, u) == s \o u
<1>a. \A s, u, v \in U : Cat(Cat(s, u), v) = Cat(s, Cat(u, v))
  BY Concats
<1> HIDE DEF Cat
<1>2. PICK a \in [0..n -> U] :
        /\ a[0] = <<>>
        /\ \A i \in 1..n : a[i] = a[i - 1] \o q[i]
        /\ FlattenSeq(q) = a[n]
  BY ONLY <1>b, q \in Seq(Seq(S)), FlattenRun
<1>3. t \in U /\ \A i \in 1..n : q[i] \in U
  BY ONLY <1>b, t \in Seq(S), q \in Seq(Seq(S))
<1>4. ASSUME NEW run \in [0..n -> U], run[0] = <<>>,
             \A i \in 1..n : run[i] = run[i - 1] \o r[i]
      PROVE  FlattenSeq(r) = run[n]
  <2>1. JoinsUp(run, r, n) /\ r \in Seq(Seq(S)) /\ n \in Nat /\ run \in [0..n -> Seq(S)]
    BY <1>4 DEF JoinsUp
  <2> QED
    BY ONLY <1>0, <2>1, FlattenIs
<1> HIDE DEF U
<1>c. \A i \in 0..n : i < k => a[i] = <<>>
  <2> DEFINE G == {i \in 0..n : i < k => a[i] = <<>>}
  <2>1. 0 \in G
    BY <1>2
  <2>2. ASSUME NEW i \in 1..n, i - 1 \in G PROVE i \in G
    <3>1. ASSUME i < k PROVE a[i] = <<>>
      <4>1. a[i - 1] = <<>> /\ q[i] = <<>>
        BY <1>0, <2>2, <3>1
      <4>2. a[i] = a[i - 1] \o q[i]
        BY <1>2
      <4> QED
        BY ONLY <1>1, <4>1, <4>2
    <3> QED
      BY <3>1
  <2>3. 0..n \subseteq G
    <3> HIDE DEF G
    <3> QED
      BY ONLY <2>1, <2>2, n \in Nat, Climb
  <2> QED
    BY <2>3
<1> DEFINE run == [i \in 0..n |-> IF i < k THEN <<>> ELSE t \o a[i]]
<1>5. run \in [0..n -> U]
  BY <1>1, <1>3
<1>6. run[0] = <<>>
  <2>1. 0 \in 0..n /\ 0 < k
    OBVIOUS
  <2> QED
    BY <2>1
<1>7. ASSUME NEW i \in 1..n PROVE run[i] = run[i - 1] \o r[i]
  <2>1. i \in 0..n /\ i - 1 \in 0..n
    OBVIOUS
  <2>2. a[i - 1] \in U /\ a[i] \in U /\ q[i] \in U /\ t \in U
    BY <1>3, <2>1
  <2>3. a[i] = a[i - 1] \o q[i]
    BY <1>2
  <2>4. /\ run[i] = IF i < k THEN <<>> ELSE t \o a[i]
        /\ run[i - 1] = IF i - 1 < k THEN <<>> ELSE t \o a[i - 1]
    BY <2>1
  <2> HIDE DEF run
  <2>5. CASE i < k
    <3>1. i - 1 < k /\ i # k
      BY ONLY <2>5, n \in Nat, i \in 1..n, k \in 1..n
    <3>2. r[i] = <<>>
      BY <1>0, <2>5, <3>1
    <3> QED
      BY ONLY <1>1, <2>4, <2>5, <3>1, <3>2
  <2>6. CASE i = k
    <3>1. i - 1 < k /\ ~(i < k)
      BY ONLY <2>6, n \in Nat, i \in 1..n, k \in 1..n
    <3>2. r[i] = t \o q[i]
      BY <1>0, <2>6
    <3>3. a[i - 1] = <<>>
      BY <1>c, <2>1, <3>1
    <3>4. a[i] = q[i]
      BY ONLY <1>1, <2>2, <2>3, <3>3
    <3>5. t \o q[i] \in U
      BY <1>1, <2>2
    <3> QED
      BY ONLY <1>1, <2>4, <3>1, <3>2, <3>4, <3>5
  <2>7. CASE i > k
    <3>1. ~(i - 1 < k) /\ ~(i < k) /\ i # k
      BY ONLY <2>7, n \in Nat, i \in 1..n, k \in 1..n
    <3>2. r[i] = q[i]
      BY <1>0, <3>1
    <3>3. t \o (a[i - 1] \o q[i]) = (t \o a[i - 1]) \o q[i]
      <4> DEFINE x == a[i - 1]
                 y == q[i]
      <4>1. x \in U /\ y \in U /\ t \in U
        BY <2>2
      <4> HIDE DEF x, y
      <4>2. Cat(Cat(t, x), y) = Cat(t, Cat(x, y))
        BY ONLY <1>a, <4>1
      <4> QED
        BY <4>2 DEF x, y, Cat
    <3> QED
      BY ONLY <2>3, <2>4, <3>1, <3>2, <3>3
  <2>8. i < k \/ i = k \/ i > k
    BY ONLY n \in Nat, i \in 1..n, k \in 1..n
  <2> QED
    BY ONLY <2>5, <2>6, <2>7, <2>8
<1>8. run[n] = t \o a[n]
  <2>1. n \in 0..n /\ ~(n < k)
    OBVIOUS
  <2> QED
    BY <2>1
<1> HIDE DEF run
<1>9. FlattenSeq(r) = run[n]
  BY <1>4, <1>5, <1>6, <1>7
<1> QED
  BY <1>2, <1>8, <1>9

-----------------------------------------------------------------------------
(* Some of the elements of a sequence.                                      *)

\* What Only joins.
Pieces(s, P) == [n \in DOMAIN s |-> IF n \in P THEN <<s[n]>> ELSE <<>>]

\* It is one sequence for each place, empty where there is nothing to take.
LEMMA PiecesType ==
  ASSUME NEW S, NEW s \in Seq(S), NEW n \in Nat, n = Len(s), NEW P
  PROVE  /\ Pieces(s, P) \in Seq(Seq(S)) /\ Len(Pieces(s, P)) = n
         /\ \A i \in 1..n : Pieces(s, P)[i] = IF i \in P THEN <<s[i]>> ELSE <<>>
<1>1. DOMAIN s = 1..n /\ \A i \in 1..n : s[i] \in S
  BY LenProperties, ElementOfSeq
<1>2. \A i \in 1..n : (IF i \in P THEN <<s[i]>> ELSE <<>>) \in Seq(S)
  BY <1>1
<1>3. Pieces(s, P) = [i \in 1..n |-> IF i \in P THEN <<s[i]>> ELSE <<>>]
  BY <1>1 DEF Pieces
<1>4. Pieces(s, P) \in Seq(Seq(S))
  BY <1>2, <1>3, IsASeq
<1>5. Len(Pieces(s, P)) = n
  <2>1. DOMAIN Pieces(s, P) = 1..n
    BY <1>3
  <2> QED
    BY <1>4, <2>1, LenProperties
<1> QED
  BY <1>3, <1>4, <1>5

\* Some of the lines of a text are lines.
LEMMA OnlyType ==
  ASSUME NEW S, NEW s \in Seq(S), NEW P
  PROVE  Only(s, P) \in Seq(S)
<1>1. PICK n \in Nat : n = Len(s)
  BY LenProperties
<1>2. Pieces(s, P) \in Seq(Seq(S))
  BY <1>1, PiecesType
<1> QED
  BY <1>2, FlattenType DEF Only, Pieces

\* No places, no lines.
LEMMA OnlyNothing ==
  ASSUME NEW S, NEW s \in Seq(S)
  PROVE  Only(s, {}) = <<>>
<1>1. PICK n \in Nat : n = Len(s)
  BY LenProperties
<1>0. PICK P : P = {}
  OBVIOUS
<1>2. PICK q \in Seq(Seq(S)) : q = Pieces(s, P)
  BY <1>1, PiecesType
<1>3. Len(q) = n /\ \A i \in 1..n : q[i] = IF i \in P THEN <<s[i]>> ELSE <<>>
  BY <1>1, <1>2, PiecesType
<1>4. \A i \in 1..Len(q) : q[i] = <<>>
  BY <1>0, <1>3
<1>5. FlattenSeq(q) = <<>>
  BY <1>4, FlattenNothing
<1> QED
  BY <1>0, <1>2, <1>5 DEF Only, Pieces

\* k comes before all of P.
Before(k, P, n) == k \in 1..n /\ P \subseteq (k + 1)..n

\* The line at k is the first of what is taken.
Leads(s, k, P) == Only(s, P \cup {k}) = <<s[k]>> \o Only(s, P)

\* A place before all others is the first.
LEMMA OnlyLead ==
  ASSUME NEW S, NEW s \in Seq(S), NEW n \in Nat, n = Len(s), NEW k, NEW P, Before(k, P, n)
  PROVE  Leads(s, k, P)
<1>0. k \in 1..n /\ P \subseteq (k + 1)..n
  BY DEF Before
<1>1. PICK q \in Seq(Seq(S)) : q = Pieces(s, P)
  BY PiecesType
<1>2. Len(q) = n /\ \A i \in 1..n : q[i] = IF i \in P THEN <<s[i]>> ELSE <<>>
  BY <1>1, PiecesType
<1>3. PICK Q : Q = P \cup {k}
  OBVIOUS
<1>4. PICK r \in Seq(Seq(S)) : r = Pieces(s, Q)
  BY PiecesType
<1>5. Len(r) = n /\ \A i \in 1..n : r[i] = IF i \in Q THEN <<s[i]>> ELSE <<>>
  BY <1>4, PiecesType
<1>6. PICK e \in S : e = s[k]
  BY <1>0, ElementOfSeq
<1>a. <<e>> \in Seq(S)
  BY AppendIsConcat
<1>7. PICK t \in Seq(S) : t = <<s[k]>>
  BY <1>6, <1>a
<1>8. r[k] = t \o q[k]
  <2>1. k \in Q /\ k \notin P
    BY <1>0, <1>3
  <2>2. r[k] = t /\ q[k] = <<>>
    BY <1>0, <1>2, <1>5, <1>7, <2>1
  <2> QED
    BY <2>2, Concats
<1>9. ASSUME NEW i \in 1..n
      PROVE  (i # k => r[i] = q[i]) /\ (i < k => q[i] = <<>>)
  <2>1. i # k => (i \in Q <=> i \in P)
    BY <1>3
  <2>2. i < k => i \notin P
    BY <1>0
  <2> QED
    BY <1>2, <1>5, <2>1, <2>2
<1>10. LeadsAt(r, q, n, k, t)
  BY <1>2, <1>5, <1>8, <1>9 DEF LeadsAt
<1>11. FlattenSeq(r) = t \o FlattenSeq(q)
  BY ONLY <1>0, <1>10, n \in Nat, q \in Seq(Seq(S)), r \in Seq(Seq(S)), t \in Seq(S), FlattenLead
<1> QED
  BY <1>1, <1>3, <1>4, <1>7, <1>11 DEF Only, Pieces, Leads

\* The marks that lcs_ops and Hunks make, of lines in S.
KindNames == {Equal, Del, Add, "hunk"}
Marks(S) == [kind : KindNames, text : S]

\* A mark keeps its kind and its line.
LEMMA MarkIs ==
  ASSUME NEW S, NEW kind \in KindNames, NEW text \in S
  PROVE  /\ Mark(kind, text) \in Marks(S)
         /\ Mark(kind, text).kind = kind /\ Mark(kind, text).text = text
BY DEF Mark, Marks

\* No kind of mark is taken for another.
LEMMA KindsDiffer ==
  /\ Equal # Del /\ Equal # Add /\ Del # Add
  /\ "hunk" # Equal /\ "hunk" # Del /\ "hunk" # Add
BY DEF Equal, Del, Add

\* Where the walk removes a line when the two differ.
Removes(L, a, b, p) == p[2] > Len(b) \/ (Within(a, b, p) /\ L[Right(p)] >= L[Down(p)])

\* Nothing is left of either.
Ends(a, b, p) == p[1] > Len(a) /\ p[2] > Len(b)

\* The walk from each corner, as the recursion gives it.
WalksFrom(O, L, a, b, p) ==
  /\ Ends(a, b, p) => O[p] = <<>>
  /\ ~Ends(a, b, p) /\ Same(a, b, p) => O[p] = <<Mark(Equal, a[p[1]])>> \o O[Both(p)]
  /\ ~Ends(a, b, p) /\ ~Same(a, b, p) /\ Removes(L, a, b, p) =>
       O[p] = <<Mark(Del, a[p[1]])>> \o O[Right(p)]
  /\ ~Ends(a, b, p) /\ ~Same(a, b, p) /\ ~Removes(L, a, b, p) =>
       O[p] = <<Mark(Add, b[p[2]])>> \o O[Down(p)]

\* It does so from all of them.
Walks(O, L, a, b) == \A p \in Corners(a, b) : WalksFrom(O, L, a, b, p)

\* A line of a text over S is in S.
LEMMA LineAt ==
  ASSUME NEW S, NEW s \in Seq(S), NEW i \in 1..Len(s)
  PROVE  s[i] \in S
BY ElementOfSeq

\* lcs_ops is the walk from the first corner (Diff.cpp:48-62).
LEMMA OpsAre ==
  ASSUME NEW S, NEW a \in Seq(S), NEW b \in Seq(S),
         NEW n \in Nat, n = Len(a), NEW m \in Nat, m = Len(b)
  PROVE  \E O \in [Corners(a, b) -> Seq(Marks(S))] :
           Walks(O, dp(a, b), a, b) /\ lcs_ops(a, b) = O[<<1, 1>>]
<1>0. PICK lcs : lcs = dp(a, b)
  OBVIOUS
<1> DEFINE C == Corners(a, b)
           V == Seq(Marks(S))
           removes(p) == p[2] > Len(b) \/ (Within(a, b, p) /\ lcs[Right(p)] >= lcs[Down(p)])
           body(p, f) == IF p[1] > Len(a) /\ p[2] > Len(b) THEN <<>>
                         ELSE IF Same(a, b, p) THEN <<Mark(Equal, a[p[1]])>> \o f[Both(p)]
                         ELSE IF removes(p) THEN <<Mark(Del, a[p[1]])>> \o f[Right(p)]
                         ELSE <<Mark(Add, b[p[2]])>> \o f[Down(p)]
           step == [p \in C |-> [f \in [C -> V] |-> body(p, f)]]
           P(f) == f = [p \in C |-> body(p, f)]
           O == CHOOSE f : P(f)
           rank == Ranks(a, b, n, m)
<1>1. lcs_ops(a, b) = O[<<1, 1>>]
  BY <1>0 DEF lcs_ops
<1>2. rank \in [C -> 0..(n + m)] /\ n + m \in Nat
  BY RanksType
<1>a. <<>> \in V /\ \A s, t \in V : s \o t \in V
  BY Concats
<1>b. ASSUME NEW kind \in KindNames, NEW text \in S PROVE <<Mark(kind, text)>> \in V
  <2>1. PICK e \in Marks(S) : e = Mark(kind, text)
    BY MarkIs
  <2> QED
    BY <2>1, AppendIsConcat
<1>c. Equal \in KindNames /\ Del \in KindNames /\ Add \in KindNames
  BY DEF KindNames
<1>d. \A p \in C : p[1] \in 1..(n + 1) /\ p[2] \in 1..(m + 1)
  BY DEF Corners
<1>e. /\ \A i \in 1..n : a[i] \in S
      /\ \A i \in 1..m : b[i] \in S
  BY LineAt
\* Every step goes on from a nearer corner.
<1> DEFINE Next1(p, q) == q \in C /\ rank[q] < rank[p]
<1>3. ASSUME NEW p \in C, ~(p[1] > Len(a) /\ p[2] > Len(b))
      PROVE  /\ Same(a, b, p) => Next1(p, Both(p)) /\ a[p[1]] \in S
             /\ ~Same(a, b, p) /\ removes(p) => Next1(p, Right(p)) /\ a[p[1]] \in S
             /\ ~Same(a, b, p) /\ ~removes(p) => Next1(p, Down(p)) /\ b[p[2]] \in S
  <2>1. /\ p[1] <= n => Next1(p, Right(p))
        /\ p[2] <= m => Next1(p, Down(p))
        /\ Within(a, b, p) => Next1(p, Both(p))
    BY StepsAreNearer DEF Nearer
  <2>2. Within(a, b, p) <=> p[1] <= n /\ p[2] <= m
    BY DEF Within
  <2>3. Same(a, b, p) => Within(a, b, p)
    BY DEF Same
  <2>4. removes(p) => p[1] <= n
    BY <1>3, <1>d, <2>2
  <2>5. ~removes(p) => p[2] <= m
    BY <1>d
  <2>6. /\ p[1] <= n => a[p[1]] \in S
        /\ p[2] <= m => b[p[2]] \in S
    BY <1>d, <1>e
  <2> QED
    BY <2>1, <2>2, <2>3, <2>4, <2>5, <2>6
<1> HIDE DEF rank, C, V, removes
<1>4. ASSUME NEW p \in C, NEW f, \A q \in C : rank[q] < rank[p] => f[q] \in V
      PROVE  body(p, f) \in V
  <2>1. CASE p[1] > Len(a) /\ p[2] > Len(b)
    BY <1>a, <2>1
  <2>2. CASE ~(p[1] > Len(a) /\ p[2] > Len(b))
    <3>1. CASE Same(a, b, p)
      <4>1. f[Both(p)] \in V /\ <<Mark(Equal, a[p[1]])>> \in V
        BY <1>3, <1>4, <1>b, <1>c, <2>2, <3>1
      <4> QED
        BY <1>a, <2>2, <3>1, <4>1
    <3>2. CASE ~Same(a, b, p) /\ removes(p)
      <4>1. f[Right(p)] \in V /\ <<Mark(Del, a[p[1]])>> \in V
        BY <1>3, <1>4, <1>b, <1>c, <2>2, <3>2
      <4> QED
        BY <1>a, <2>2, <3>2, <4>1
    <3>3. CASE ~Same(a, b, p) /\ ~removes(p)
      <4>1. f[Down(p)] \in V /\ <<Mark(Add, b[p[2]])>> \in V
        BY <1>3, <1>4, <1>b, <1>c, <2>2, <3>3
      <4> QED
        BY <1>a, <2>2, <3>3, <4>1
    <3> QED
      BY <3>1, <3>2, <3>3
  <2> QED
    BY <2>1, <2>2
<1>5. \A p \in C : \A f, g :
        (\A q \in C : rank[q] < rank[p] => f[q] = g[q]) => body(p, f) = body(p, g)
  <2> SUFFICES ASSUME NEW p \in C, NEW f, NEW g,
                      \A q \in C : rank[q] < rank[p] => f[q] = g[q]
               PROVE  body(p, f) = body(p, g)
    OBVIOUS
  <2>1. CASE p[1] > Len(a) /\ p[2] > Len(b)
    BY <2>1
  <2>2. CASE ~(p[1] > Len(a) /\ p[2] > Len(b))
    <3>1. /\ Same(a, b, p) => f[Both(p)] = g[Both(p)]
          /\ ~Same(a, b, p) /\ removes(p) => f[Right(p)] = g[Right(p)]
          /\ ~Same(a, b, p) /\ ~removes(p) => f[Down(p)] = g[Down(p)]
      BY <1>3, <2>2
    <3> QED
      BY <2>2, <3>1
  <2> QED
    BY <2>1, <2>2
<1>6. \A p \in C : \A f \in [C -> V] : body(p, f) \in V
  <2> SUFFICES ASSUME NEW p \in C, NEW f \in [C -> V] PROVE body(p, f) \in V
    OBVIOUS
  <2>1. \A q \in C : rank[q] < rank[p] => f[q] \in V
    OBVIOUS
  <2> HIDE DEF body
  <2> QED
    BY <1>4, <2>1
<1> HIDE DEF body
<1>7. step \in [C -> [[C -> V] -> V]] /\ \A p \in C : \A f \in [C -> V] : step[p][f] = body(p, f)
  BY <1>6
<1> HIDE DEF step
<1>8. Grounded(step, C, V, rank)
  <2> SUFFICES ASSUME NEW p \in C, NEW f \in [C -> V], NEW g \in [C -> V],
                      \A q \in C : rank[q] < rank[p] => f[q] = g[q]
               PROVE  step[p][f] = step[p][g]
    BY DEF Grounded
  <2>1. body(p, f) = body(p, g)
    BY <1>5
  <2> QED
    BY <1>7, <2>1
<1>9. PICK f \in [C -> V] : Recurs(f, step, C)
  <2>1. V # {}
    BY <1>a
  <2> QED
    BY <1>2, <1>7, <1>8, <2>1, RecursionExists
<1>10. P(f)
  <2>1. \A p \in C : f[p] = body(p, f)
    BY <1>7, <1>9 DEF Recurs
  <2> QED
    BY <2>1
<1>11. P(O)
  <2> HIDE DEF P
  <2> QED
    BY <1>10
<1> HIDE DEF O
<1>12. \A p \in C : O[p] = body(p, O)
  BY <1>11
<1>13. O \in [C -> V]
  <2> DEFINE H == {p \in C : O[p] \in V}
  <2>1. ASSUME NEW p \in C, \A q \in C : rank[q] < rank[p] => q \in H
        PROVE  p \in H
    <3>1. \A q \in C : rank[q] < rank[p] => O[q] \in V
      BY <2>1
    <3>2. body(p, O) \in V
      BY <1>4, <3>1
    <3> QED
      BY <1>12, <3>2
  <2>2. C \subseteq H
    <3>1. Inherited(H, C, rank)
      BY <2>1 DEF Inherited
    <3>2. PICK N \in Nat : N = n + m
      BY <1>2
    <3>3. rank \in [C -> 0..N]
      BY <1>2, <3>2
    <3> HIDE DEF H, P
    <3> QED
      BY <3>1, <3>3, RankClimb
  <2>3. \A p \in C : O[p] \in V
    BY <2>2
  <2> QED
    BY <1>11, <2>3
<1>14. ASSUME NEW p \in C PROVE WalksFrom(O, lcs, a, b, p)
  <2>1. O[p] = body(p, O)
    BY <1>12
  <2> QED
    BY <2>1 DEF body, removes, WalksFrom, Ends, Removes
<1> QED
  BY <1>0, <1>1, <1>13, <1>14 DEF Walks, C, V

-----------------------------------------------------------------------------
(* The texts of the marks of one kind.                                      *)

\* The line of a mark of this kind, and nothing of another.
TextOf(kind, S) == [e \in Marks(S) |-> IF e.kind = kind THEN <<e.text>> ELSE <<>>]

\* It is a function to sequences of lines.
LEMMA TextOfType ==
  ASSUME NEW S, NEW kind
  PROVE  /\ TextOf(kind, S) \in [Marks(S) -> Seq(S)]
         /\ \A e \in Marks(S) :
              TextOf(kind, S)[e] = IF e.kind = kind THEN <<e.text>> ELSE <<>>
<1>1. ASSUME NEW e \in Marks(S) PROVE (IF e.kind = kind THEN <<e.text>> ELSE <<>>) \in Seq(S)
  <2>1. PICK t \in S : t = e.text
    BY DEF Marks
  <2>2. <<t>> \in Seq(S) /\ <<>> \in Seq(S)
    BY AppendIsConcat
  <2> QED
    BY <2>1, <2>2
<1> QED
  BY <1>1 DEF TextOf

\* Texts joins these.
LEMMA TextsJoined ==
  ASSUME NEW S, NEW kind, NEW q \in Seq(Marks(S))
  PROVE  Texts(q, kind) = Joined(TextOf(kind, S), q) /\ Texts(q, kind) \in Seq(S)
<1>1. PICK f \in [Marks(S) -> Seq(S)] : f = TextOf(kind, S)
  BY TextOfType
<1>2. \A e \in Marks(S) : f[e] = IF e.kind = kind THEN <<e.text>> ELSE <<>>
  BY <1>1, TextOfType
<1>3. DOMAIN q = 1..Len(q) /\ \A i \in 1..Len(q) : q[i] \in Marks(S)
  BY LenProperties, ElementOfSeq
<1>4. Gathered(f, q) = [i \in DOMAIN q |-> IF q[i].kind = kind THEN <<q[i].text>> ELSE <<>>]
  BY <1>2, <1>3 DEF Gathered
<1>5. Joined(f, q) \in Seq(S)
  BY GatheredType
<1> QED
  BY <1>1, <1>4, <1>5 DEF Texts, Joined

\* What a mark in front adds to the texts of a kind.
TextAhead(e, q, kind) ==
  /\ e.kind = kind => Texts(<<e>> \o q, kind) = <<e.text>> \o Texts(q, kind)
  /\ e.kind # kind => Texts(<<e>> \o q, kind) = Texts(q, kind)

\* What is joined of two sequences is joined of each.
JoinsTwo(f, q, r) == Joined(f, q \o r) = Joined(f, q) \o Joined(f, r)

\* It is, for every function to sequences.
LEMMA JoinTwo ==
  ASSUME NEW S, NEW T, NEW f \in [S -> Seq(T)], NEW q \in Seq(S), NEW r \in Seq(S)
  PROVE  JoinsTwo(f, q, r)
BY GatheredConcat DEF JoinsTwo

\* A mark of the kind puts its line in front, another one nothing.
LEMMA TextsLead ==
  ASSUME NEW S, NEW kind, NEW q \in Seq(Marks(S)), NEW e \in Marks(S)
  PROVE  TextAhead(e, q, kind)
<1>1. PICK f \in [Marks(S) -> Seq(S)] : f = TextOf(kind, S)
  BY TextOfType
<1>2. f[e] = IF e.kind = kind THEN <<e.text>> ELSE <<>>
  BY <1>1, TextOfType
<1>a. <<e>> \in Seq(Marks(S))
  BY AppendIsConcat
<1>3. PICK r \in Seq(Marks(S)) : r = <<e>>
  BY <1>a
<1>4. Joined(f, r) = f[e]
  BY <1>3, GatheredOne
<1>5. Joined(f, r \o q) = Joined(f, r) \o Joined(f, q)
  <2>1. JoinsTwo(f, r, q)
    BY JoinTwo
  <2> QED
    BY <2>1 DEF JoinsTwo
<1>b. r \o q \in Seq(Marks(S))
  BY Concats
<1>6. PICK s \in Seq(Marks(S)) : s = r \o q
  BY <1>b
<1>7. Texts(s, kind) = Joined(f, s)
  BY <1>1, TextsJoined
<1>8. Texts(q, kind) = Joined(f, q) /\ Texts(q, kind) \in Seq(S)
  BY <1>1, TextsJoined
<1>9. Texts(<<e>> \o q, kind) = f[e] \o Texts(q, kind)
  BY <1>3, <1>4, <1>5, <1>6, <1>7, <1>8
<1>10. <<>> \o Texts(q, kind) = Texts(q, kind)
  BY <1>8, Concats
<1> QED
  BY <1>2, <1>9, <1>10 DEF TextAhead

\* One element in front makes a sequence longer by one.
LEMMA OneMore ==
  ASSUME NEW S, NEW t \in Seq(S), NEW e \in S
  PROVE  <<e>> \o t \in Seq(S) /\ Len(<<e>> \o t) = Len(t) + 1
<1>1. <<e>> \in Seq(S) /\ Len(<<e>>) = 1
  BY AppendIsConcat
<1>2. PICK u \in Seq(S) : u = <<e>>
  BY <1>1
<1>3. Len(u) = 1
  BY <1>1, <1>2
<1>4. u \o t \in Seq(S) /\ Len(u \o t) = Len(u) + Len(t)
  BY ConcatProperties
<1>5. Len(t) \in Nat
  BY LenProperties
<1> QED
  BY <1>2, <1>3, <1>4, <1>5

-----------------------------------------------------------------------------
(* The walk from line i of a and line j of b explains the rest of both.     *)

\* G are the lines of a it removes, D the lines of b it adds, l the number it keeps.
Explained(o, a, b, n, m, i, j, G, D, l) ==
  /\ G \subseteq i..n /\ D \subseteq j..m
  /\ Only(a, G) = Texts(o, Del) /\ Only(b, D) = Texts(o, Add)
  /\ Only(a, (i..n) \ G) = Only(b, (j..m) \ D)
  /\ Len(Texts(o, Del)) = n + 1 - i - l /\ Len(Texts(o, Add)) = m + 1 - j - l

\* A line both have is kept: neither removed nor added.
LEMMA KeepOne ==
  ASSUME NEW S, NEW a \in Seq(S), NEW b \in Seq(S),
         NEW n \in Nat, n = Len(a), NEW m \in Nat, m = Len(b),
         NEW o \in Seq(Marks(S)), NEW i \in 1..n, NEW j \in 1..m, a[i] = b[j],
         NEW k \in Nat, k = i + 1, NEW h \in Nat, h = j + 1,
         NEW G, NEW D, NEW l \in Nat, Explained(o, a, b, n, m, k, h, G, D, l)
  PROVE  Explained(<<Mark(Equal, a[i])>> \o o, a, b, n, m, i, j, G, D, l + 1)
<1>1. /\ G \subseteq k..n /\ D \subseteq h..m
      /\ Only(a, G) = Texts(o, Del) /\ Only(b, D) = Texts(o, Add)
      /\ Only(a, (k..n) \ G) = Only(b, (h..m) \ D)
      /\ Len(Texts(o, Del)) = n + 1 - k - l /\ Len(Texts(o, Add)) = m + 1 - h - l
  BY DEF Explained
<1>2. a[i] \in S
  BY LineAt
<1>3. PICK e \in Marks(S) : e = Mark(Equal, a[i]) /\ e.kind = Equal
  BY <1>2, MarkIs DEF KindNames
<1>t. TextAhead(e, o, Del) /\ TextAhead(e, o, Add)
  BY TextsLead
<1>4. Texts(<<e>> \o o, Del) = Texts(o, Del) /\ Texts(<<e>> \o o, Add) = Texts(o, Add)
  BY <1>3, KindsDiffer, <1>t DEF TextAhead
<1>5. Before(i, (k..n) \ G, n) /\ Before(j, (h..m) \ D, m)
  BY DEF Before
<1>6. /\ Only(a, ((k..n) \ G) \cup {i}) = <<a[i]>> \o Only(a, (k..n) \ G)
      /\ Only(b, ((h..m) \ D) \cup {j}) = <<b[j]>> \o Only(b, (h..m) \ D)
  <2>1. PICK P, Q : P = (k..n) \ G /\ Q = (h..m) \ D
    OBVIOUS
  <2>2. Leads(a, i, P)
    BY <1>5, <2>1, OnlyLead
  <2>3. Leads(b, j, Q)
    BY <1>5, <2>1, OnlyLead
  <2> QED
    BY <2>1, <2>2, <2>3 DEF Leads
<1>7. ((k..n) \ G) \cup {i} = (i..n) \ G /\ ((h..m) \ D) \cup {j} = (j..m) \ D
  <2>1. i \notin G /\ j \notin D
    BY <1>1
  <2>2. i..n = (k..n) \cup {i} /\ j..m = (h..m) \cup {j}
    OBVIOUS
  <2> QED
    BY <2>1, <2>2
<1>8. Only(a, (i..n) \ G) = Only(b, (j..m) \ D)
  BY <1>1, <1>6, <1>7
<1>9. G \subseteq i..n /\ D \subseteq j..m
  BY <1>1
<1>10. n + 1 - k - l = n + 1 - i - (l + 1) /\ m + 1 - h - l = m + 1 - j - (l + 1)
  BY ONLY n \in Nat, m \in Nat, i \in 1..n, j \in 1..m, k = i + 1, h = j + 1, l \in Nat
<1> QED
  BY <1>1, <1>3, <1>4, <1>8, <1>9, <1>10 DEF Explained

\* A line of a that is removed joins the removed ones.
LEMMA RemoveOne ==
  ASSUME NEW S, NEW a \in Seq(S), NEW b \in Seq(S),
         NEW n \in Nat, n = Len(a), NEW m \in Nat, m = Len(b),
         NEW o \in Seq(Marks(S)), NEW i \in 1..n, NEW j \in 1..(m + 1), NEW k \in Nat, k = i + 1,
         NEW G, NEW D, NEW l \in Nat, Explained(o, a, b, n, m, k, j, G, D, l)
  PROVE  Explained(<<Mark(Del, a[i])>> \o o, a, b, n, m, i, j, G \cup {i}, D, l)
<1>1. /\ G \subseteq k..n /\ D \subseteq j..m
      /\ Only(a, G) = Texts(o, Del) /\ Only(b, D) = Texts(o, Add)
      /\ Only(a, (k..n) \ G) = Only(b, (j..m) \ D)
      /\ Len(Texts(o, Del)) = n + 1 - k - l /\ Len(Texts(o, Add)) = m + 1 - j - l
  BY DEF Explained
<1>2. a[i] \in S
  BY LineAt
<1>3. PICK e \in Marks(S) : e = Mark(Del, a[i]) /\ e.kind = Del /\ e.text = a[i]
  BY <1>2, MarkIs DEF KindNames
<1>t. TextAhead(e, o, Del) /\ TextAhead(e, o, Add)
  BY TextsLead
<1>4. /\ Texts(<<e>> \o o, Del) = <<a[i]>> \o Texts(o, Del)
      /\ Texts(<<e>> \o o, Add) = Texts(o, Add)
  BY <1>3, KindsDiffer, <1>t DEF TextAhead
<1>5. Before(i, G, n)
  BY <1>1 DEF Before
<1>6. Only(a, G \cup {i}) = <<a[i]>> \o Only(a, G)
  <2>1. Leads(a, i, G)
    BY <1>5, OnlyLead
  <2> QED
    BY <2>1 DEF Leads
<1>7. (i..n) \ (G \cup {i}) = (k..n) \ G
  <2>1. (i..n) \ {i} = k..n
    OBVIOUS
  <2> QED
    BY <2>1
<1>8. G \cup {i} \subseteq i..n
  BY <1>1
<1>9. Len(<<a[i]>> \o Texts(o, Del)) = n + 1 - i - l
  <2>1. PICK t \in Seq(S) : t = Texts(o, Del)
    BY TextsJoined
  <2>2. PICK x \in S : x = a[i]
    BY <1>2
  <2>3. Len(<<x>> \o t) = Len(t) + 1
    BY OneMore
  <2>4. PICK c \in Nat : c = Len(t)
    BY LenProperties
  <2>5. c = n + 1 - k - l
    BY <1>1, <2>1, <2>4
  <2>6. c + 1 = n + 1 - i - l
    BY ONLY n \in Nat, i \in 1..n, k = i + 1, c \in Nat, l \in Nat, <2>5
  <2> QED
    BY ONLY <2>1, <2>2, <2>3, <2>4, <2>6
<1> QED
  BY <1>1, <1>3, <1>4, <1>6, <1>7, <1>8, <1>9 DEF Explained

\* A line of b that is added joins the added ones.
LEMMA AddOne ==
  ASSUME NEW S, NEW a \in Seq(S), NEW b \in Seq(S),
         NEW n \in Nat, n = Len(a), NEW m \in Nat, m = Len(b),
         NEW o \in Seq(Marks(S)), NEW i \in 1..(n + 1), NEW j \in 1..m, NEW h \in Nat, h = j + 1,
         NEW G, NEW D, NEW l \in Nat, Explained(o, a, b, n, m, i, h, G, D, l)
  PROVE  Explained(<<Mark(Add, b[j])>> \o o, a, b, n, m, i, j, G, D \cup {j}, l)
<1>1. /\ G \subseteq i..n /\ D \subseteq h..m
      /\ Only(a, G) = Texts(o, Del) /\ Only(b, D) = Texts(o, Add)
      /\ Only(a, (i..n) \ G) = Only(b, (h..m) \ D)
      /\ Len(Texts(o, Del)) = n + 1 - i - l /\ Len(Texts(o, Add)) = m + 1 - h - l
  BY DEF Explained
<1>2. b[j] \in S
  BY LineAt
<1>3. PICK e \in Marks(S) : e = Mark(Add, b[j]) /\ e.kind = Add /\ e.text = b[j]
  BY <1>2, MarkIs DEF KindNames
<1>t. TextAhead(e, o, Del) /\ TextAhead(e, o, Add)
  BY TextsLead
<1>4. /\ Texts(<<e>> \o o, Add) = <<b[j]>> \o Texts(o, Add)
      /\ Texts(<<e>> \o o, Del) = Texts(o, Del)
  BY <1>3, KindsDiffer, <1>t DEF TextAhead
<1>5. Before(j, D, m)
  BY <1>1 DEF Before
<1>6. Only(b, D \cup {j}) = <<b[j]>> \o Only(b, D)
  <2>1. Leads(b, j, D)
    BY <1>5, OnlyLead
  <2> QED
    BY <2>1 DEF Leads
<1>7. (j..m) \ (D \cup {j}) = (h..m) \ D
  <2>1. (j..m) \ {j} = h..m
    OBVIOUS
  <2> QED
    BY <2>1
<1>8. D \cup {j} \subseteq j..m
  BY <1>1
<1>9. Len(<<b[j]>> \o Texts(o, Add)) = m + 1 - j - l
  <2>1. PICK t \in Seq(S) : t = Texts(o, Add)
    BY TextsJoined
  <2>2. PICK x \in S : x = b[j]
    BY <1>2
  <2>3. Len(<<x>> \o t) = Len(t) + 1
    BY OneMore
  <2>4. PICK c \in Nat : c = Len(t)
    BY LenProperties
  <2>5. c = m + 1 - h - l
    BY <1>1, <2>1, <2>4
  <2>6. c + 1 = m + 1 - j - l
    BY ONLY m \in Nat, j \in 1..m, h = j + 1, c \in Nat, l \in Nat, <2>5
  <2> QED
    BY ONLY <2>1, <2>2, <2>3, <2>4, <2>6
<1> QED
  BY <1>1, <1>3, <1>4, <1>6, <1>7, <1>8, <1>9 DEF Explained

\* Two sequences of lines, with their lengths.
TextPair(a, b, n, m, S) ==
  a \in Seq(S) /\ b \in Seq(S) /\ n \in Nat /\ m \in Nat /\ n = Len(a) /\ m = Len(b)

\* At the end of both nothing is removed and nothing added.
LEMMA EndExplained ==
  ASSUME NEW S, NEW a, NEW b, NEW n, NEW m, TextPair(a, b, n, m, S)
  PROVE  Explained(<<>>, a, b, n, m, n + 1, m + 1, {}, {}, 0)
<1>1. a \in Seq(S) /\ b \in Seq(S) /\ n \in Nat /\ m \in Nat
  BY DEF TextPair
<1>2. PICK o \in Seq(Marks(S)) : o = <<>> /\ Len(o) = 0
  BY EmptySeq
<1>3. Only(a, {}) = <<>> /\ Only(b, {}) = <<>>
  BY <1>1, OnlyNothing
<1>4. ASSUME NEW kind PROVE Texts(o, kind) = <<>>
  <2>1. PICK f \in [Marks(S) -> Seq(S)] : f = TextOf(kind, S)
    BY TextOfType
  <2>2. PICK M : M = Marks(S)
    OBVIOUS
  <2>b. PICK z \in Nat : z = 0
    OBVIOUS
  <2>a. f \in [M -> Seq(S)] /\ o \in Seq(M) /\ z = Len(o) /\ \A i \in 1..z : f[o[i]] = <<>>
    BY <1>2, <2>2, <2>b
  <2>3. Joined(f, o) = <<>>
    BY ONLY z \in Nat, <2>a, GatheredNothing
  <2> QED
    BY <2>1, <2>3, TextsJoined
<1>5. ((n + 1)..n) \ {} = {} /\ ((m + 1)..m) \ {} = {}
  BY <1>1
<1>6. n + 1 - (n + 1) - 0 = 0 /\ m + 1 - (m + 1) - 0 = 0
  BY <1>1
<1>7. Texts(<<>>, Del) = <<>> /\ Texts(<<>>, Add) = <<>>
  BY <1>2, <1>4
<1>8. Len(Texts(<<>>, Del)) = 0 /\ Len(Texts(<<>>, Add)) = 0
  BY <1>2, <1>7
<1> QED
  BY <1>3, <1>5, <1>6, <1>7, <1>8 DEF Explained

\* The walk from a corner on explains the lines that are left there.
ExplainedAt(O, L, a, b, n, m, p) ==
  \E G, D : Explained(O[p], a, b, n, m, p[1], p[2], G, D, L[p])

\* O and L are the walks and the lengths of the two.
WalkedOver(O, L, a, b, S) ==
  /\ O \in [Corners(a, b) -> Seq(Marks(S))] /\ Walks(O, L, a, b) /\ Lengths(L, a, b)

\* A walk explains the lines from a corner on if it does from every nearer one.
LEMMA WalkStep ==
  ASSUME NEW S, NEW a, NEW b, NEW n, NEW m, TextPair(a, b, n, m, S),
         NEW O, NEW L, WalkedOver(O, L, a, b, S), NEW p \in Corners(a, b),
         \A q : Nearer(a, b, n, m, p, q) => ExplainedAt(O, L, a, b, n, m, q)
  PROVE  ExplainedAt(O, L, a, b, n, m, p)
<1>1. a \in Seq(S) /\ b \in Seq(S) /\ n \in Nat /\ m \in Nat /\ n = Len(a) /\ m = Len(b)
  BY DEF TextPair
<1>2. PICK i \in 1..(n + 1), j \in 1..(m + 1) : p = <<i, j>>
  BY <1>1, CornerIs
<1>3. At(a, b, n, m, i, j, p)
  BY <1>1, <1>2, AtCorner
<1>4. /\ p[1] = i /\ p[2] = j
      /\ Within(a, b, p) <=> i <= n /\ j <= m
      /\ Same(a, b, p) <=> i <= n /\ j <= m /\ a[i] = b[j]
      /\ Right(p) = <<i + 1, j>> /\ Down(p) = <<i, j + 1>> /\ Both(p) = <<i + 1, j + 1>>
  BY <1>3 DEF At
<1>5. /\ i <= n => Nearer(a, b, n, m, p, Right(p))
      /\ j <= m => Nearer(a, b, n, m, p, Down(p))
      /\ i <= n /\ j <= m => Nearer(a, b, n, m, p, Both(p))
  BY <1>1, <1>4, StepsAreNearer
<1>6. /\ i <= n => Right(p) \in Corners(a, b)
      /\ j <= m => Down(p) \in Corners(a, b)
      /\ i <= n /\ j <= m => Both(p) \in Corners(a, b)
  BY <1>5 DEF Nearer
<1>7. /\ O \in [Corners(a, b) -> Seq(Marks(S))]
      /\ WalksFrom(O, L, a, b, p)
      /\ L \in [Corners(a, b) -> Nat]
      /\ Ends(a, b, p) <=> i > n /\ j > m
  BY <1>1, <1>4 DEF WalkedOver, Walks, Lengths, Ends
<1>8. /\ ~Within(a, b, p) => L[p] = 0
      /\ Same(a, b, p) => L[p] = L[Both(p)] + 1
      /\ Within(a, b, p) /\ ~Same(a, b, p) =>
           L[p] = IF L[Right(p)] >= L[Down(p)] THEN L[Right(p)] ELSE L[Down(p)]
  BY DEF WalkedOver, Lengths
<1>9. CASE Ends(a, b, p)
  <2>1. i = n + 1 /\ j = m + 1
    BY <1>1, <1>7, <1>9
  <2>2. O[p] = <<>> /\ L[p] = 0
    BY <1>1, <1>4, <1>7, <1>8, <1>9 DEF WalksFrom
  <2>3. Explained(<<>>, a, b, n, m, n + 1, m + 1, {}, {}, 0)
    BY EndExplained
  <2>4. Explained(O[p], a, b, n, m, p[1], p[2], {}, {}, L[p])
    BY <1>4, <2>1, <2>2, <2>3
  <2> QED
    BY <2>4 DEF ExplainedAt
<1>10. CASE ~Ends(a, b, p) /\ Same(a, b, p)
  <2>1. i \in 1..n /\ j \in 1..m /\ a[i] = b[j]
    BY <1>1, <1>4, <1>10
  <2>2. PICK q \in Corners(a, b) : q = Both(p) /\ ExplainedAt(O, L, a, b, n, m, q)
    BY <1>5, <1>6, <2>1
  <2>3. PICK k \in Nat, h \in Nat : k = i + 1 /\ h = j + 1
    BY <2>1
  <2>4. q[1] = k /\ q[2] = h
    BY <1>4, <2>2, <2>3
  <2>5. PICK o \in Seq(Marks(S)) : o = O[q]
    BY <1>7
  <2>6. PICK l \in Nat : l = L[q]
    BY <1>7
  <2>7. PICK G, D : Explained(o, a, b, n, m, k, h, G, D, l)
    BY <2>2, <2>4, <2>5, <2>6 DEF ExplainedAt
  <2>8. Explained(<<Mark(Equal, a[i])>> \o o, a, b, n, m, i, j, G, D, l + 1)
    BY <1>1, <2>1, <2>3, <2>7, KeepOne
  <2>9. O[p] = <<Mark(Equal, a[i])>> \o o /\ L[p] = l + 1
    BY <1>4, <1>7, <1>8, <1>10, <2>2, <2>5, <2>6 DEF WalksFrom
  <2> QED
    BY <1>4, <2>8, <2>9 DEF ExplainedAt
<1>11. CASE ~Ends(a, b, p) /\ ~Same(a, b, p) /\ Removes(L, a, b, p)
  <2>1. i \in 1..n
    BY <1>1, <1>4, <1>7, <1>11 DEF Removes
  <2>2. PICK q \in Corners(a, b) : q = Right(p) /\ ExplainedAt(O, L, a, b, n, m, q)
    BY <1>5, <1>6, <2>1
  <2>3. PICK k \in Nat : k = i + 1
    BY <2>1
  <2>4. q[1] = k /\ q[2] = j
    BY <1>4, <2>2, <2>3
  <2>5. PICK o \in Seq(Marks(S)) : o = O[q]
    BY <1>7
  <2>6. PICK l \in Nat : l = L[q]
    BY <1>7
  <2>7. PICK G, D : Explained(o, a, b, n, m, k, j, G, D, l)
    BY <2>2, <2>4, <2>5, <2>6 DEF ExplainedAt
  <2>8. Explained(<<Mark(Del, a[i])>> \o o, a, b, n, m, i, j, G \cup {i}, D, l)
    BY <1>1, <2>1, <2>3, <2>7, RemoveOne
  <2>9. L[p] = l
    <3>1. CASE j <= m
      <4>1. L[Right(p)] >= L[Down(p)] /\ Within(a, b, p)
        BY <1>1, <1>4, <1>11, <2>1, <3>1 DEF Removes
      <4> QED
        BY <1>8, <1>11, <2>2, <2>6, <4>1
    <3>2. CASE j > m
      <4>1. ~Within(a, b, p) /\ ~Within(a, b, q)
        BY <1>1, <1>4, <2>4, <3>2 DEF Within
      <4>2. L[q] = 0
        BY <4>1 DEF WalkedOver, Lengths
      <4> QED
        BY <1>8, <2>6, <4>1, <4>2
    <3> QED
      BY <1>1, <3>1, <3>2
  <2>10. O[p] = <<Mark(Del, a[i])>> \o o
    BY <1>4, <1>7, <1>11, <2>2, <2>5 DEF WalksFrom
  <2> QED
    BY <1>4, <2>8, <2>9, <2>10 DEF ExplainedAt
<1>12. CASE ~Ends(a, b, p) /\ ~Same(a, b, p) /\ ~Removes(L, a, b, p)
  <2>1. j \in 1..m
    BY <1>1, <1>4, <1>12 DEF Removes
  <2>2. PICK q \in Corners(a, b) : q = Down(p) /\ ExplainedAt(O, L, a, b, n, m, q)
    BY <1>5, <1>6, <2>1
  <2>3. PICK h \in Nat : h = j + 1
    BY <2>1
  <2>4. q[1] = i /\ q[2] = h
    BY <1>4, <2>2, <2>3
  <2>5. PICK o \in Seq(Marks(S)) : o = O[q]
    BY <1>7
  <2>6. PICK l \in Nat : l = L[q]
    BY <1>7
  <2>7. PICK G, D : Explained(o, a, b, n, m, i, h, G, D, l)
    BY <2>2, <2>4, <2>5, <2>6 DEF ExplainedAt
  <2>8. Explained(<<Mark(Add, b[j])>> \o o, a, b, n, m, i, j, G, D \cup {j}, l)
    BY <1>1, <2>1, <2>3, <2>7, AddOne
  <2>9. L[p] = l
    <3>1. CASE i <= n
      <4>1. ~(L[Right(p)] >= L[Down(p)]) /\ Within(a, b, p)
        BY <1>1, <1>4, <1>12, <2>1, <3>1 DEF Removes
      <4> QED
        BY <1>8, <1>12, <2>2, <2>6, <4>1
    <3>2. CASE i > n
      <4>1. ~Within(a, b, p) /\ ~Within(a, b, q)
        BY <1>1, <1>4, <2>4, <3>2 DEF Within
      <4>2. L[q] = 0
        BY <4>1 DEF WalkedOver, Lengths
      <4> QED
        BY <1>8, <2>6, <4>1, <4>2
    <3> QED
      BY <1>1, <3>1, <3>2
  <2>10. O[p] = <<Mark(Add, b[j])>> \o o
    BY <1>4, <1>7, <1>12, <2>2, <2>5 DEF WalksFrom
  <2> QED
    BY <1>4, <2>8, <2>9, <2>10 DEF ExplainedAt
<1> QED
  BY <1>9, <1>10, <1>11, <1>12

\* What holds at every corner if it holds there when it does at every nearer one.
LEMMA CornerClimb ==
  ASSUME NEW S, NEW a, NEW b, NEW n, NEW m, TextPair(a, b, n, m, S), NEW H,
         \A p \in Corners(a, b) : (\A q : Nearer(a, b, n, m, p, q) => q \in H) => p \in H
  PROVE  Corners(a, b) \subseteq H
<1>1. n \in Nat /\ m \in Nat /\ n = Len(a) /\ m = Len(b)
  BY DEF TextPair
<1>2. PICK C : C = Corners(a, b)
  OBVIOUS
<1>3. PICK N \in Nat : N = n + m
  BY <1>1
<1>4. PICK rank \in [C -> 0..N] : rank = Ranks(a, b, n, m)
  <2>1. Ranks(a, b, n, m) \in [C -> 0..N]
    BY <1>1, <1>2, <1>3, RanksType
  <2> QED
    BY <2>1
<1>5. Inherited(H, C, rank)
  BY <1>2, <1>4 DEF Inherited, Nearer
<1> QED
  BY <1>2, <1>5, RankClimb

\* It explains them from every corner on.
LEMMA WalkExplains ==
  ASSUME NEW S, NEW a, NEW b, NEW n, NEW m, TextPair(a, b, n, m, S),
         NEW O, NEW L, WalkedOver(O, L, a, b, S), NEW p \in Corners(a, b)
  PROVE  ExplainedAt(O, L, a, b, n, m, p)
<1> DEFINE H == {q \in Corners(a, b) : ExplainedAt(O, L, a, b, n, m, q)}
<1>1. ASSUME NEW q \in Corners(a, b), \A r : Nearer(a, b, n, m, q, r) => r \in H
      PROVE  q \in H
  <2>1. \A r : Nearer(a, b, n, m, q, r) => ExplainedAt(O, L, a, b, n, m, r)
    BY <1>1
  <2> QED
    BY <2>1, WalkStep
<1>2. Corners(a, b) \subseteq H
  <2> HIDE DEF H
  <2> QED
    BY <1>1, CornerClimb
<1> QED
  BY <1>2

-----------------------------------------------------------------------------
(* No two sets of lines that are alike have more than the walk keeps.       *)

\* The line x and the lines s are alike with the line y and the lines t.
Alike(x, s, y, t) == <<x>> \o s = <<y>> \o t

\* Then they begin alike and go on alike.
LEMMA SameAhead ==
  ASSUME NEW S, NEW x \in S, NEW y \in S, NEW s \in Seq(S), NEW t \in Seq(S), Alike(x, s, y, t)
  PROVE  x = y /\ s = t
<1>1. PICK u \in Seq(S) : u = <<x>> /\ Len(u) = 1 /\ u[1] = x
  <2>1. <<x>> \in Seq(S) /\ Len(<<x>>) = 1 /\ <<x>>[1] = x
    OBVIOUS
  <2> QED
    BY <2>1
<1>2. PICK v \in Seq(S) : v = <<y>> /\ Len(v) = 1 /\ v[1] = y
  <2>1. <<y>> \in Seq(S) /\ Len(<<y>>) = 1 /\ <<y>>[1] = y
    OBVIOUS
  <2> QED
    BY <2>1
<1>3. PICK n \in Nat, m \in Nat : n = Len(s) /\ m = Len(t)
  BY LenProperties
<1>4. Len(u \o s) = 1 + n /\ \A i \in 1..(1 + n) : (u \o s)[i] = IF i <= 1 THEN u[i] ELSE s[i - 1]
  BY <1>1, <1>3, ConcatProperties
<1>5. Len(v \o t) = 1 + m /\ \A i \in 1..(1 + m) : (v \o t)[i] = IF i <= 1 THEN v[i] ELSE t[i - 1]
  BY <1>2, <1>3, ConcatProperties
<1>6. PICK w : w = u \o s /\ w = v \o t
  BY <1>1, <1>2 DEF Alike
<1>7. n = m
  BY <1>3, <1>4, <1>5, <1>6
<1>8. x = y
  <2>1. 1 \in 1..(1 + n) /\ 1 \in 1..(1 + m) /\ 1 <= 1
    BY <1>3
  <2>2. w[1] = u[1] /\ w[1] = v[1]
    BY <1>4, <1>5, <1>6, <2>1
  <2> QED
    BY <1>1, <1>2, <2>2
<1>9. ASSUME NEW i \in 1..n PROVE s[i] = t[i]
  <2>1. PICK k \in 1..(1 + n) : k = i + 1 /\ ~(k <= 1) /\ k - 1 = i
    BY <1>3
  <2>2. w[k] = s[i] /\ w[k] = t[i]
    BY <1>4, <1>5, <1>6, <1>7, <2>1
  <2> QED
    BY <2>2
<1>10. s = t
  BY <1>3, <1>7, <1>9, SeqEqual
<1> QED
  BY <1>8, <1>10

\* k is the first of K, and P the rest of it.
FirstOf(K, k, P, n) ==
  /\ Before(k, P, n) /\ K = P \cup {k}
  /\ Cardinality(P) \in Nat /\ Cardinality(K) = Cardinality(P) + 1

\* The places of a text can be counted.
LEMMA PlacesFinite ==
  ASSUME NEW i \in Nat \ {0}, NEW n \in Nat, NEW K \in SUBSET (i..n)
  PROVE  IsFiniteSet(K) /\ Cardinality(K) \in Nat
<1>1. IsFiniteSet(i..n)
  BY FS_Interval
<1>2. IsFiniteSet(K)
  BY <1>1, FS_Subset
<1> QED
  BY <1>2, FS_CardinalityType

\* Some places have a first one.
LEMMA HasFirst ==
  ASSUME NEW i \in Nat \ {0}, NEW n \in Nat, NEW K \in SUBSET (i..n), K # {}
  PROVE  \E k \in i..n : \E P \in SUBSET ((k + 1)..n) : FirstOf(K, k, P, n)
<1>1. K \in SUBSET (1..n)
  OBVIOUS
<1>2. Min(K) \in K /\ \A j \in K : Min(K) <= j
  BY <1>1, FirstPlace
<1>3. PICK k \in i..n : k \in K /\ \A j \in K : k <= j
  BY <1>2
<1>4. PICK P : P = K \ {k}
  OBVIOUS
<1>5. P \in SUBSET ((k + 1)..n) /\ K = P \cup {k} /\ k \notin P /\ P \in SUBSET (i..n)
  BY <1>3, <1>4
<1>6. IsFiniteSet(P) /\ Cardinality(P) \in Nat
  BY <1>5, PlacesFinite
<1>7. Cardinality(P \cup {k}) = Cardinality(P) + 1
  BY <1>5, <1>6, FS_AddElement
<1>8. Before(k, P, n)
  BY <1>5 DEF Before
<1>9. FirstOf(K, k, P, n)
  BY <1>5, <1>6, <1>7, <1>8 DEF FirstOf
<1> QED
  BY <1>5, <1>9

\* Places that take no line are none.
LEMMA NothingLess ==
  ASSUME NEW S, NEW s \in Seq(S), NEW n \in Nat, n = Len(s), NEW i \in Nat \ {0},
         NEW K \in SUBSET (i..n), Only(s, K) = <<>>
  PROVE  K = {}
<1> SUFFICES ASSUME K # {} PROVE FALSE
  OBVIOUS
<1>1. PICK k \in i..n : \E P \in SUBSET ((k + 1)..n) : FirstOf(K, k, P, n)
  BY HasFirst
<1>2. PICK P \in SUBSET ((k + 1)..n) : FirstOf(K, k, P, n)
  BY <1>1
<1>3. K = P \cup {k} /\ Before(k, P, n)
  BY <1>2 DEF FirstOf
<1>4. Leads(s, k, P)
  BY <1>3, OnlyLead
<1>5. Only(s, K) = <<s[k]>> \o Only(s, P)
  BY <1>3, <1>4 DEF Leads
<1>6. PICK x \in S : x = s[k]
  BY LineAt
<1>7. PICK t \in Seq(S) : t = Only(s, P)
  BY OnlyType
<1>8. Len(<<x>> \o t) = Len(t) + 1 /\ Len(t) \in Nat
  BY OneMore, LenProperties
<1>9. Len(<<>>) = 0
  BY EmptySeq
<1>10. <<x>> \o t = <<>>
  BY <1>5, <1>6, <1>7
<1> QED
  BY <1>8, <1>9, <1>10

\* From i of a and j of b on, no more than l lines of one are alike with as many of the other.
AtMost(a, b, n, m, i, j, l) ==
  \A K \in SUBSET (i..n), M \in SUBSET (j..m) :
    Only(a, K) = Only(b, M) => Cardinality(K) <= l /\ Cardinality(M) <= l

\* Where one has ended there are none.
LEMMA AtMostNone ==
  ASSUME NEW S, NEW a, NEW b, NEW n, NEW m, TextPair(a, b, n, m, S),
         NEW i \in Nat \ {0}, NEW j \in Nat \ {0}, i > n \/ j > m, NEW l, l = 0
  PROVE  AtMost(a, b, n, m, i, j, l)
<1>1. a \in Seq(S) /\ b \in Seq(S) /\ n \in Nat /\ m \in Nat /\ n = Len(a) /\ m = Len(b)
  BY DEF TextPair
<1> SUFFICES ASSUME NEW K \in SUBSET (i..n), NEW M \in SUBSET (j..m), Only(a, K) = Only(b, M)
             PROVE  Cardinality(K) <= l /\ Cardinality(M) <= l
  BY DEF AtMost
<1>2. Only(a, {}) = <<>> /\ Only(b, {}) = <<>>
  BY <1>1, OnlyNothing
<1>3. K = {} /\ M = {}
  <2>1. CASE i > n
    <3>1. K = {}
      BY <1>1, <2>1
    <3>2. Only(b, M) = <<>>
      BY <1>2, <3>1
    <3> QED
      BY <1>1, <3>1, <3>2, NothingLess
  <2>2. CASE j > m
    <3>1. M = {}
      BY <1>1, <2>2
    <3>2. Only(a, K) = <<>>
      BY <1>2, <3>1
    <3> QED
      BY <1>1, <3>1, <3>2, NothingLess
  <2> QED
    BY <2>1, <2>2
<1> QED
  BY <1>3, FS_EmptySet

\* The length at a corner bounds them.
AtMostAt(L, a, b, n, m, p) == AtMost(a, b, n, m, p[1], p[2], L[p])

\* It does at a corner if it does at every nearer one.
LEMMA AtMostStep ==
  ASSUME NEW S, NEW a, NEW b, NEW n, NEW m, TextPair(a, b, n, m, S),
         NEW L, Lengths(L, a, b), NEW p \in Corners(a, b),
         \A q : Nearer(a, b, n, m, p, q) => AtMostAt(L, a, b, n, m, q)
  PROVE  AtMostAt(L, a, b, n, m, p)
<1>1. a \in Seq(S) /\ b \in Seq(S) /\ n \in Nat /\ m \in Nat /\ n = Len(a) /\ m = Len(b)
  BY DEF TextPair
<1>2. PICK i \in 1..(n + 1), j \in 1..(m + 1) : p = <<i, j>>
  BY <1>1, CornerIs
<1>3. At(a, b, n, m, i, j, p)
  BY <1>1, <1>2, AtCorner
<1>4. /\ p[1] = i /\ p[2] = j
      /\ Within(a, b, p) <=> i <= n /\ j <= m
      /\ Same(a, b, p) <=> i <= n /\ j <= m /\ a[i] = b[j]
      /\ Right(p) = <<i + 1, j>> /\ Down(p) = <<i, j + 1>> /\ Both(p) = <<i + 1, j + 1>>
  BY <1>3 DEF At
<1>5. PICK l \in Nat : l = L[p]
  BY DEF Lengths
<1>6. CASE ~Within(a, b, p)
  <2>1. l = 0 /\ (i > n \/ j > m) /\ i \in Nat \ {0} /\ j \in Nat \ {0}
    BY <1>1, <1>4, <1>5, <1>6 DEF Lengths
  <2>2. AtMost(a, b, n, m, i, j, l)
    BY <2>1, AtMostNone
  <2> QED
    BY <1>4, <1>5, <2>2 DEF AtMostAt
<1>7. CASE Within(a, b, p)
  <2>1. i \in 1..n /\ j \in 1..m
    BY <1>1, <1>4, <1>7
  <2>2. PICK k \in Nat \ {0}, h \in Nat \ {0} : k = i + 1 /\ h = j + 1
    BY <2>1
  <2>3. PICK right \in Corners(a, b) : right = <<k, j>> /\ right = Right(p) /\ Nearer(a, b, n, m, p, right)
    <3>1. p[1] <= n
      BY <1>1, <1>4, <2>1
    <3>2. Nearer(a, b, n, m, p, Right(p))
      BY <1>1, <3>1, StepsAreNearer
    <3> QED
      BY <1>4, <2>2, <3>2 DEF Nearer
  <2>4. PICK down \in Corners(a, b) : down = <<i, h>> /\ down = Down(p) /\ Nearer(a, b, n, m, p, down)
    <3>1. p[2] <= m
      BY <1>1, <1>4, <2>1
    <3>2. Nearer(a, b, n, m, p, Down(p))
      BY <1>1, <3>1, StepsAreNearer
    <3> QED
      BY <1>4, <2>2, <3>2 DEF Nearer
  <2>5. PICK both \in Corners(a, b) : both = <<k, h>> /\ both = Both(p) /\ Nearer(a, b, n, m, p, both)
    <3>1. Nearer(a, b, n, m, p, Both(p))
      BY <1>1, <1>7, StepsAreNearer
    <3> QED
      BY <1>4, <2>2, <3>1 DEF Nearer
  <2>6. PICK r \in Nat, d \in Nat, e \in Nat : r = L[right] /\ d = L[down] /\ e = L[both]
    BY DEF Lengths
  <2>7. /\ Same(a, b, p) => l = e + 1
        /\ ~Same(a, b, p) => r <= l /\ d <= l
    BY <1>5, <1>7, <2>3, <2>4, <2>5, <2>6 DEF Lengths
  <2>8. AtMost(a, b, n, m, k, j, r) /\ AtMost(a, b, n, m, i, h, d) /\ AtMost(a, b, n, m, k, h, e)
    <3>1. right[1] = k /\ right[2] = j /\ down[1] = i /\ down[2] = h /\ both[1] = k /\ both[2] = h
      BY <2>3, <2>4, <2>5
    <3>2. AtMostAt(L, a, b, n, m, right) /\ AtMostAt(L, a, b, n, m, down) /\ AtMostAt(L, a, b, n, m, both)
      BY <2>3, <2>4, <2>5
    <3> QED
      BY <2>6, <3>1, <3>2 DEF AtMostAt
  <2>9. ASSUME NEW K \in SUBSET (i..n), NEW M \in SUBSET (j..m), Only(a, K) = Only(b, M)
        PROVE  Cardinality(K) <= l /\ Cardinality(M) <= l
    <3>0. i \in Nat \ {0} /\ j \in Nat \ {0}
      BY <2>1
    <3>1. CASE K = {} \/ M = {}
      <4>1. Only(a, {}) = <<>> /\ Only(b, {}) = <<>>
        BY <1>1, OnlyNothing
      <4>2. Only(a, K) = <<>> /\ Only(b, M) = <<>>
        BY <2>9, <3>1, <4>1
      <4>3. K = {}
        BY <1>1, <3>0, <4>2, NothingLess
      <4>4. M = {}
        BY <1>1, <3>0, <4>2, NothingLess
      <4> QED
        BY <4>3, <4>4, FS_EmptySet
    <3>2. CASE K # {} /\ M # {}
      <4>1. PICK x \in i..n : \E P \in SUBSET ((x + 1)..n) : FirstOf(K, x, P, n)
        BY <1>1, <3>0, <3>2, HasFirst
      <4>2. PICK P \in SUBSET ((x + 1)..n) : FirstOf(K, x, P, n)
        BY <4>1
      <4>3. PICK y \in j..m : \E Q \in SUBSET ((y + 1)..m) : FirstOf(M, y, Q, m)
        BY <1>1, <3>0, <3>2, HasFirst
      <4>4. PICK Q \in SUBSET ((y + 1)..m) : FirstOf(M, y, Q, m)
        BY <4>3
      <4>5. /\ Before(x, P, n) /\ K = P \cup {x}
            /\ Cardinality(P) \in Nat /\ Cardinality(K) = Cardinality(P) + 1
        BY <4>2 DEF FirstOf
      <4>6. /\ Before(y, Q, m) /\ M = Q \cup {y}
            /\ Cardinality(Q) \in Nat /\ Cardinality(M) = Cardinality(Q) + 1
        BY <4>4 DEF FirstOf
      <4>7. a[x] = b[y] /\ Only(a, P) = Only(b, Q)
        <5>1. Leads(a, x, P)
          BY <1>1, <4>5, OnlyLead
        <5>2. Leads(b, y, Q)
          BY <1>1, <4>6, OnlyLead
        <5>3. PICK u \in S : u = a[x]
          BY <1>1, <2>1, LineAt
        <5>4. PICK v \in S : v = b[y]
          BY <1>1, <2>1, LineAt
        <5>5. PICK s \in Seq(S) : s = Only(a, P)
          BY <1>1, OnlyType
        <5>6. PICK t \in Seq(S) : t = Only(b, Q)
          BY <1>1, OnlyType
        <5>7. Alike(u, s, v, t)
          BY <2>9, <4>5, <4>6, <5>1, <5>2, <5>3, <5>4, <5>5, <5>6 DEF Leads, Alike
        <5>8. u = v /\ s = t
          BY ONLY <5>7, u \in S, v \in S, s \in Seq(S), t \in Seq(S), SameAhead
        <5> QED
          BY <5>3, <5>4, <5>5, <5>6, <5>8
      <4>8. CASE Same(a, b, p)
        <5>1. P \in SUBSET (k..n) /\ Q \in SUBSET (h..m)
          BY <1>1, <2>1, <2>2
        <5>2. Cardinality(P) <= e /\ Cardinality(Q) <= e
          BY <2>8, <4>7, <5>1 DEF AtMost
        <5> QED
          BY <2>7, <4>5, <4>6, <4>8, <5>2
      <4>9. CASE ~Same(a, b, p)
        <5>1. x # i \/ y # j
          BY <1>4, <2>1, <4>7, <4>9
        <5>2. CASE x # i
          <6>1. K \in SUBSET (k..n)
            BY <2>1, <2>2, <4>5, <5>2
          <6>2. Cardinality(K) <= r /\ Cardinality(M) <= r
            BY <2>8, <2>9, <6>1 DEF AtMost
          <6> QED
            BY <2>7, <4>5, <4>6, <4>9, <6>2
        <5>3. CASE y # j
          <6>1. M \in SUBSET (h..m)
            BY <2>1, <2>2, <4>6, <5>3
          <6>2. Cardinality(K) <= d /\ Cardinality(M) <= d
            BY <2>8, <2>9, <6>1 DEF AtMost
          <6> QED
            BY <2>7, <4>5, <4>6, <4>9, <6>2
        <5> QED
          BY <5>1, <5>2, <5>3
      <4> QED
        BY <4>8, <4>9
    <3> QED
      BY <3>1, <3>2
  <2> QED
    BY <1>4, <1>5, <2>9 DEF AtMostAt, AtMost
<1> QED
  BY <1>6, <1>7

\* The lengths are those of longest common subsequences.
LEMMA NoneLonger ==
  ASSUME NEW S, NEW a, NEW b, NEW n, NEW m, TextPair(a, b, n, m, S),
         NEW L, Lengths(L, a, b), NEW p \in Corners(a, b)
  PROVE  AtMostAt(L, a, b, n, m, p)
<1> DEFINE H == {q \in Corners(a, b) : AtMostAt(L, a, b, n, m, q)}
<1>1. ASSUME NEW q \in Corners(a, b), \A r : Nearer(a, b, n, m, q, r) => r \in H
      PROVE  q \in H
  <2>1. \A r : Nearer(a, b, n, m, q, r) => AtMostAt(L, a, b, n, m, r)
    BY <1>1
  <2> QED
    BY <2>1, AtMostStep
<1>2. Corners(a, b) \subseteq H
  <2> HIDE DEF H
  <2> QED
    BY <1>1, CornerClimb
<1> QED
  BY <1>2

-----------------------------------------------------------------------------
(* The whole walk.                                                          *)

\* The places that are taken and those that are left are all there are.
LEMMA RestOf ==
  ASSUME NEW n \in Nat, NEW G \in SUBSET (1..n), NEW K, K = (1..n) \ G
  PROVE  Cardinality(K) \in Nat /\ Cardinality(G) \in Nat /\ n = Cardinality(K) + Cardinality(G)
<1>1. IsFiniteSet(1..n) /\ Cardinality(1..n) = n
  BY FS_Interval
<1>2. IsFiniteSet(G) /\ IsFiniteSet(K)
  BY <1>1, FS_Subset
<1>3. Cardinality(G) \in Nat /\ Cardinality(K) \in Nat
  BY <1>2, FS_CardinalityType
<1>4. G \cap K = {} /\ G \cup K = 1..n
  OBVIOUS
<1>5. Cardinality(G \cup K) = Cardinality(G) + Cardinality(K) - Cardinality(G \cap K)
  BY <1>2, FS_Union
<1>6. Cardinality(G \cap K) = 0
  BY <1>4, FS_EmptySet
<1>7. PICK g \in Nat, k \in Nat : g = Cardinality(G) /\ k = Cardinality(K)
  BY <1>3
<1>a. PICK c : c = Cardinality(G \cup K)
  OBVIOUS
<1>8. c = n /\ c = g + k - 0
  BY <1>1, <1>4, <1>5, <1>6, <1>7, <1>a
<1>9. n = k + g
  BY ONLY <1>8, n \in Nat, g \in Nat, k \in Nat
<1> QED
  BY <1>3, <1>7, <1>9

\* The walk of lcs_ops explains the change, with as few changes as that takes.
LEMMA OpsExplain ==
  ASSUME NEW S, NEW a \in Seq(S), NEW b \in Seq(S)
  PROVE  /\ lcs_ops(a, b) \in Seq(Marks(S))
         /\ Explains(lcs_ops(a, b), a, b) /\ Shortest(lcs_ops(a, b), a, b)
<1>1. PICK n \in Nat : n = Len(a)
  BY LenProperties
<1>2. PICK m \in Nat : m = Len(b)
  BY LenProperties
<1>3. TextPair(a, b, n, m, S)
  BY <1>1, <1>2 DEF TextPair
<1>4. PICK L : L = dp(a, b) /\ Lengths(L, a, b)
  BY <1>1, <1>2, DpIs
<1>5. PICK O \in [Corners(a, b) -> Seq(Marks(S))] :
        Walks(O, L, a, b) /\ lcs_ops(a, b) = O[<<1, 1>>]
  BY <1>1, <1>2, <1>4, OpsAre
<1>6. WalkedOver(O, L, a, b, S)
  BY <1>4, <1>5 DEF WalkedOver
<1>7. PICK p \in Corners(a, b) : p = <<1, 1>> /\ p[1] = 1 /\ p[2] = 1
  <2>1. 1 \in 1..(n + 1) /\ 1 \in 1..(m + 1)
    OBVIOUS
  <2>2. PICK p : p = <<1, 1>>
    OBVIOUS
  <2>3. At(a, b, n, m, 1, 1, p)
    BY <1>1, <1>2, <2>1, <2>2, AtCorner
  <2> QED
    BY <2>2, <2>3 DEF At
<1>8. PICK o \in Seq(Marks(S)) : o = lcs_ops(a, b) /\ o = O[p]
  BY <1>5, <1>7
<1>9. PICK l \in Nat : l = L[p]
  BY <1>4 DEF Lengths
<1>10. PICK G, D : Explained(o, a, b, n, m, 1, 1, G, D, l)
  <2>1. ExplainedAt(O, L, a, b, n, m, p)
    BY <1>3, <1>6, WalkExplains
  <2> QED
    BY <1>7, <1>8, <1>9, <2>1 DEF ExplainedAt
<1>11. AtMost(a, b, n, m, 1, 1, l)
  <2>1. AtMostAt(L, a, b, n, m, p)
    BY <1>3, <1>4, NoneLonger
  <2> QED
    BY <1>7, <1>9, <2>1 DEF AtMostAt
<1>12. DOMAIN a = 1..n /\ DOMAIN b = 1..m
  BY <1>1, <1>2, LenProperties
<1>13. /\ G \in SUBSET (1..n) /\ D \in SUBSET (1..m)
       /\ Only(a, G) = Texts(o, Del) /\ Only(b, D) = Texts(o, Add)
       /\ Only(a, (1..n) \ G) = Only(b, (1..m) \ D)
       /\ Len(Texts(o, Del)) = n + 1 - 1 - l /\ Len(Texts(o, Add)) = m + 1 - 1 - l
  BY <1>10 DEF Explained
<1>14. Explains(o, a, b)
  BY <1>12, <1>13 DEF Explains
<1>15. ASSUME NEW gone \in SUBSET (1..n), NEW come \in SUBSET (1..m),
              Only(a, (1..n) \ gone) = Only(b, (1..m) \ come)
       PROVE  Cardinality(gone) + Cardinality(come) >= Len(Texts(o, Del)) + Len(Texts(o, Add))
  <2>1. PICK K \in SUBSET (1..n) : K = (1..n) \ gone
    OBVIOUS
  <2>2. PICK M \in SUBSET (1..m) : M = (1..m) \ come
    OBVIOUS
  <2>3. Cardinality(K) <= l /\ Cardinality(M) <= l
    BY <1>11, <1>15, <2>1, <2>2 DEF AtMost
  <2>4. Cardinality(K) \in Nat /\ Cardinality(gone) \in Nat /\ n = Cardinality(K) + Cardinality(gone)
    BY <2>1, RestOf
  <2>5. Cardinality(M) \in Nat /\ Cardinality(come) \in Nat /\ m = Cardinality(M) + Cardinality(come)
    BY <2>2, RestOf
  <2>6. PICK x \in Nat, y \in Nat, u \in Nat, v \in Nat :
          x = Cardinality(K) /\ y = Cardinality(gone) /\ u = Cardinality(M) /\ v = Cardinality(come)
    BY <2>4, <2>5
  <2>7. n = x + y /\ m = u + v /\ x <= l /\ u <= l
    BY <2>3, <2>4, <2>5, <2>6
  <2>8. y + v >= (n + 1 - 1 - l) + (m + 1 - 1 - l)
    BY ONLY <2>7, n \in Nat, m \in Nat, l \in Nat, x \in Nat, y \in Nat, u \in Nat, v \in Nat
  <2> QED
    BY <1>13, <2>6, <2>8
<1>16. Shortest(o, a, b)
  BY <1>12, <1>15 DEF Shortest
<1> QED
  BY <1>8, <1>14, <1>16

-----------------------------------------------------------------------------
(* What is shown of the walk: every change.                                 *)

\* What Hunks shows at one place of the walk.
Piece(ops, kept, i) ==
  IF i \notin kept THEN <<>>
  ELSE IF i - 1 \notin kept /\ \E k \in kept : k < i THEN <<HunkSeparator, ops[i]>>
  ELSE <<ops[i]>>

\* It shows the changed line there, if a change is kept.
LEMMA PieceIs ==
  ASSUME NEW S, <<>> \in S, NEW ops \in Seq(Marks(S)), NEW i \in 1..Len(ops), NEW kept,
         NEW kind \in {Del, Add}, Changes(ops[i]) => i \in kept
  PROVE  /\ Piece(ops, kept, i) \in Seq(Marks(S))
         /\ Joined(TextOf(kind, S), Piece(ops, kept, i)) = TextOf(kind, S)[ops[i]]
<1>1. PICK M : M = Marks(S)
  OBVIOUS
<1>2. PICK f \in [M -> Seq(S)] : f = TextOf(kind, S)
  BY <1>1, TextOfType
<1>3. \A e \in M : f[e] = IF e.kind = kind THEN <<e.text>> ELSE <<>>
  BY <1>1, <1>2, TextOfType
<1>4. PICK e \in M : e = ops[i]
  BY <1>1, ElementOfSeq
<1>5. PICK h \in M : h = HunkSeparator /\ h.kind = "hunk"
  BY <1>1, MarkIs DEF HunkSeparator, KindNames
<1>6. f[h] = <<>>
  BY <1>3, <1>5, KindsDiffer
<1>7. <<e>> \in Seq(M) /\ <<h>> \in Seq(M) /\ <<>> \in Seq(M)
  BY AppendIsConcat
<1>8. CASE i \notin kept
  <2>1. Piece(ops, kept, i) = <<>>
    BY <1>8 DEF Piece
  <2>2. f[e] = <<>>
    BY <1>3, <1>4, <1>8 DEF Changes
  <2>3. Joined(f, <<>>) = <<>>
    <3>1. PICK o \in Seq(M) : o = <<>> /\ Len(o) = 0
      BY EmptySeq
    <3>2. PICK z \in Nat : z = 0
      OBVIOUS
    <3>3. z = Len(o) /\ \A j \in 1..z : f[o[j]] = <<>>
      BY <3>1, <3>2
    <3>4. Joined(f, o) = <<>>
      BY ONLY f \in [M -> Seq(S)], o \in Seq(M), z \in Nat, <3>3, GatheredNothing
    <3> QED
      BY <3>1, <3>4
  <2> QED
    BY <1>1, <1>2, <1>4, <1>7, <2>1, <2>2, <2>3
<1>9. CASE i \in kept /\ i - 1 \notin kept /\ \E k \in kept : k < i
  <2>1. Piece(ops, kept, i) = <<h, e>>
    BY <1>4, <1>5, <1>9 DEF Piece
  <2>2. PICK q \in Seq(M) : q = <<h>>
    BY <1>7
  <2>3. PICK r \in Seq(M) : r = <<e>>
    BY <1>7
  <2>4. <<h, e>> = q \o r
    BY <2>2, <2>3
  <2>5. Joined(f, q) = f[h]
    BY <2>2, GatheredOne
  <2>6. Joined(f, r) = f[e]
    BY <2>3, GatheredOne
  <2>7. Joined(f, q \o r) = Joined(f, q) \o Joined(f, r)
    <3>1. JoinsTwo(f, q, r)
      BY JoinTwo
    <3> QED
      BY <3>1 DEF JoinsTwo
  <2>8. PICK t \in Seq(S) : t = f[e]
    OBVIOUS
  <2>9. <<>> \o t = t
    BY Concats
  <2>10. q \o r \in Seq(M)
    BY Concats
  <2>11. Joined(f, <<h, e>>) = f[e] /\ <<h, e>> \in Seq(M)
    BY <1>6, <2>4, <2>5, <2>6, <2>7, <2>8, <2>9, <2>10
  <2> QED
    BY <1>1, <1>2, <1>4, <2>1, <2>11
<1>10. CASE i \in kept /\ ~(i - 1 \notin kept /\ \E k \in kept : k < i)
  <2>1. Piece(ops, kept, i) = <<e>>
    BY <1>4, <1>10 DEF Piece
  <2>2. Joined(f, <<e>>) = f[e]
    BY GatheredOne
  <2> QED
    BY <1>1, <1>2, <1>4, <1>7, <2>1, <2>2
<1> QED
  BY <1>8, <1>9, <1>10

\* Every removed or added line is among the kept ones.
ShowsChanges(ops, kept) == \A i \in 1..Len(ops) : Changes(ops[i]) => i \in kept

\* What is shown of a walk whose changes are kept has the same changes.
LEMMA HunksShow ==
  ASSUME NEW S, <<>> \in S, NEW ops \in Seq(Marks(S)), NEW kept, NEW kind \in {Del, Add},
         ShowsChanges(ops, kept)
  PROVE  Texts(Hunks(ops, kept), kind) = Texts(ops, kind)
<1>1. PICK M : M = Marks(S)
  OBVIOUS
<1>2. PICK f \in [M -> Seq(S)] : f = TextOf(kind, S)
  BY <1>1, TextOfType
<1>3. PICK n \in Nat : n = Len(ops) /\ DOMAIN ops = 1..n
  BY LenProperties
<1>4. \A i \in 1..n : /\ Piece(ops, kept, i) \in Seq(M)
                      /\ Joined(f, Piece(ops, kept, i)) = f[ops[i]]
  <2> SUFFICES ASSUME NEW i \in 1..n
               PROVE  /\ Piece(ops, kept, i) \in Seq(M)
                      /\ Joined(f, Piece(ops, kept, i)) = f[ops[i]]
    OBVIOUS
  <2>1. i \in 1..Len(ops)
    BY <1>3
  <2>2. Changes(ops[i]) => i \in kept
    BY <2>1 DEF ShowsChanges
  <2> QED
    BY <1>1, <1>2, <2>1, <2>2, PieceIs
<1>5. PICK q : q = [i \in 1..n |-> Piece(ops, kept, i)]
  OBVIOUS
<1>6. q \in Seq(Seq(M)) /\ Len(q) = n /\ \A i \in 1..n : q[i] \in Seq(M) /\ Joined(f, q[i]) = f[ops[i]]
  <2>1. q \in Seq(Seq(M))
    BY <1>4, <1>5, IsASeq
  <2>2. Len(q) = n
    BY <1>5, <2>1, LenProperties
  <2> QED
    BY <1>4, <1>5, <2>1, <2>2
<1>7. Hunks(ops, kept) = FlattenSeq(q)
  BY <1>3, <1>5 DEF Hunks, Piece
<1>8. PICK a \in [0..n -> Seq(M)] :
        a[0] = <<>> /\ FlattenSeq(q) = a[n] /\ \A i \in 1..n : a[i] = a[i - 1] \o q[i]
  <2>1. n = Len(q) /\ q \in Seq(Seq(M))
    BY <1>6
  <2> QED
    BY ONLY <2>1, FlattenRun
<1>9. PICK r \in Seq(Seq(S)) : r = Gathered(f, ops)
  BY <1>1, GatheredType
<1>10. n = Len(r) /\ \A i \in 1..n : r[i] = f[ops[i]]
  BY <1>3, <1>9, LenProperties DEF Gathered
<1>11. PICK run : run = [i \in 0..n |-> Joined(f, a[i])]
  OBVIOUS
<1>12. run \in [0..n -> Seq(S)] /\ \A i \in 0..n : run[i] = Joined(f, a[i])
  <2>1. \A i \in 0..n : Joined(f, a[i]) \in Seq(S)
    <3> SUFFICES ASSUME NEW i \in 0..n PROVE Joined(f, a[i]) \in Seq(S)
      OBVIOUS
    <3>1. PICK b \in Seq(M) : b = a[i]
      OBVIOUS
    <3>2. Joined(f, b) \in Seq(S)
      BY GatheredType
    <3> QED
      BY <3>1, <3>2
  <2> QED
    BY <1>11, <2>1
<1>13. run[0] = <<>>
  <2>1. PICK o \in Seq(M) : o = <<>> /\ Len(o) = 0
    BY EmptySeq
  <2>2. PICK z \in Nat : z = 0
    OBVIOUS
  <2>3. z = Len(o) /\ \A j \in 1..z : f[o[j]] = <<>>
    BY <2>1, <2>2
  <2>4. Joined(f, o) = <<>>
    BY ONLY f \in [M -> Seq(S)], o \in Seq(M), z \in Nat, <2>3, GatheredNothing
  <2>5. 0 \in 0..n
    OBVIOUS
  <2> QED
    BY <1>8, <1>12, <2>1, <2>4, <2>5
<1>14. ASSUME NEW i \in 1..n PROVE run[i] = run[i - 1] \o r[i]
  <2>1. i \in 0..n /\ i - 1 \in 0..n
    OBVIOUS
  <2>2. PICK b \in Seq(M) : b = a[i - 1]
    BY <2>1
  <2>3. PICK c \in Seq(M) : c = q[i]
    BY <1>6
  <2>4. a[i] = b \o c
    BY <1>8, <2>2, <2>3
  <2>5. Joined(f, b \o c) = Joined(f, b) \o Joined(f, c)
    <3>1. JoinsTwo(f, b, c)
      BY JoinTwo
    <3> QED
      BY <3>1 DEF JoinsTwo
  <2>6. Joined(f, c) = r[i]
    BY <1>6, <1>10, <2>3
  <2> QED
    BY <1>12, <2>1, <2>2, <2>4, <2>5, <2>6
<1>15. JoinsUp(run, r, n)
  BY <1>13, <1>14 DEF JoinsUp
<1>16. FlattenSeq(r) = run[n]
  <2>1. n = Len(r) /\ run \in [0..n -> Seq(S)] /\ JoinsUp(run, r, n)
    BY <1>10, <1>12, <1>15
  <2> QED
    BY ONLY n \in Nat, r \in Seq(Seq(S)), <2>1, FlattenIs
<1>17. PICK d \in Seq(M) : d = Hunks(ops, kept) /\ d = a[n]
  BY <1>7, <1>8
<1>18. Texts(d, kind) = Joined(f, d)
  BY <1>1, <1>2, TextsJoined
<1>19. Texts(ops, kind) = Joined(f, ops)
  BY <1>1, <1>2, TextsJoined
<1>20. Joined(f, d) = run[n]
  BY <1>12, <1>17
<1> QED
  BY <1>9, <1>16, <1>17, <1>18, <1>19, <1>20 DEF Joined

\* A diff explains a change as well as the walk whose changes it shows.
LEMMA ShownExplains ==
  ASSUME NEW o, NEW d, NEW a, NEW b, Explains(o, a, b), Shortest(o, a, b),
         Texts(d, Del) = Texts(o, Del), Texts(d, Add) = Texts(o, Add)
  PROVE  Explains(d, a, b) /\ Shortest(d, a, b)
BY DEF Explains, Shortest

\* Kept keeps every change: it is within any number of lines of itself.
LEMMA KeptShows ==
  ASSUME NEW S, NEW ops \in Seq(Marks(S)), NEW context \in Nat, NEW i \in 1..Len(ops),
         Changes(ops[i])
  PROVE  i \in Kept(ops, context)
<1>1. DOMAIN ops = 1..Len(ops)
  BY LenProperties
<1>2. i - i \in -context..context
  <2>1. PICK n \in Nat : n = Len(ops)
    BY LenProperties
  <2>2. i \in 1..n
    BY <2>1
  <2> QED
    BY ONLY <2>2, n \in Nat, context \in Nat
<1> QED
  BY <1>1, <1>2 DEF Kept

\* An empty diff explains no change.
LEMMA NothingExplains ==
  ASSUME NEW S, NEW a \in Seq(S)
  PROVE  Explains(<<>>, a, a) /\ Shortest(<<>>, a, a)
<1>1. PICK n \in Nat : n = Len(a) /\ DOMAIN a = 1..n
  BY LenProperties
<1>2. PICK o \in Seq(Marks(S)) : o = <<>> /\ Len(o) = 0
  BY EmptySeq
<1>3. ASSUME NEW kind PROVE Texts(o, kind) = <<>> /\ Len(Texts(o, kind)) = 0
  <2>1. PICK M : M = Marks(S)
    OBVIOUS
  <2>2. PICK f \in [M -> Seq(S)] : f = TextOf(kind, S)
    BY <2>1, TextOfType
  <2>3. PICK z \in Nat : z = 0
    OBVIOUS
  <2>4. o \in Seq(M) /\ z = Len(o) /\ \A i \in 1..z : f[o[i]] = <<>>
    BY <1>2, <2>1, <2>3
  <2>5. Joined(f, o) = <<>>
    BY ONLY f \in [M -> Seq(S)], z \in Nat, <2>4, GatheredNothing
  <2>6. Texts(o, kind) = <<>>
    BY <2>1, <2>2, <2>5, TextsJoined
  <2> QED
    BY <1>2, <2>6
<1>4. Explains(o, a, a)
  <2>1. Only(a, {}) = Texts(o, Del) /\ Only(a, {}) = Texts(o, Add)
    BY <1>3, OnlyNothing
  <2>2. {} \in SUBSET DOMAIN a
    OBVIOUS
  <2> QED
    BY <2>1, <2>2 DEF Explains
<1>5. ASSUME NEW gone \in SUBSET DOMAIN a, NEW come \in SUBSET DOMAIN a
      PROVE  Cardinality(gone) + Cardinality(come) >= Len(Texts(o, Del)) + Len(Texts(o, Add))
  <2>1. 1 \in Nat \ {0} /\ gone \in SUBSET (1..n) /\ come \in SUBSET (1..n)
    BY <1>1
  <2>2. PICK x \in Nat : x = Cardinality(gone)
    BY <2>1, PlacesFinite
  <2>3. PICK y \in Nat : y = Cardinality(come)
    BY <2>1, PlacesFinite
  <2>4. Len(Texts(o, Del)) = 0 /\ Len(Texts(o, Add)) = 0
    BY <1>3
  <2> QED
    BY <2>2, <2>3, <2>4
<1>6. Shortest(o, a, a)
  BY <1>5 DEF Shortest
<1> QED
  BY <1>2, <1>4, <1>6

-----------------------------------------------------------------------------
(* The lines of a text.                                                     *)

\* A text before its first character is read, and while it is.
ReadStart == [lines |-> <<>>, line |-> <<>>]
ReadKinds(S) == [lines : Seq(Seq(S)), line : Seq(S)]

\* Reading a character keeps the kinds of what was read.
LEMMA ReadStep ==
  ASSUME NEW S, NEW s \in ReadKinds(S), NEW c \in S
  PROVE  ReadChar(s, c) \in ReadKinds(S)
<1>1. PICK x \in Seq(Seq(S)) : x = s.lines
  BY DEF ReadKinds
<1>2. PICK y \in Seq(S) : y = s.line
  BY DEF ReadKinds
<1>3. Append(x, y) \in Seq(Seq(S)) /\ Append(y, c) \in Seq(S) /\ <<>> \in Seq(S)
  BY AppendProperties, EmptySeq
<1> QED
  BY <1>1, <1>2, <1>3 DEF ReadChar, ReadKinds

\* What is read of q, character by character.
ReadsUp(run, q, n) ==
  /\ run[0] = ReadStart
  /\ \A k \in 1..n : run[k] = ReadChar(run[k - 1], q[k])

ReadAs(read, q) == split_lines(q) = IF read.line = <<>> THEN read.lines ELSE Append(read.lines, read.line)

\* split_lines reads a text so.
LEMMA LinesRun ==
  ASSUME NEW S, NEW q \in Seq(S), NEW n \in Nat, n = Len(q)
  PROVE  \E run \in [0..n -> ReadKinds(S)] : ReadsUp(run, q, n) /\ ReadAs(run[n], q)
<1>0. DOMAIN q = 1..n /\ \A k \in 1..n : q[k] \in S
  BY LenProperties, ElementOfSeq
<1>1. PICK U : U = ReadKinds(S)
  OBVIOUS
<1>2. \A s \in U, c \in S : ReadChar(s, c) \in U
  BY <1>1, ReadStep
<1>3. PICK F \in [1..n -> [U -> U]] : \A k \in 1..n, s \in U : F[k][s] = ReadChar(s, q[k])
  <2> DEFINE G == [k \in 1..n |-> [s \in U |-> ReadChar(s, q[k])]]
  <2>1. G \in [1..n -> [U -> U]]
    BY <1>0, <1>2
  <2>2. \A k \in 1..n, s \in U : G[k][s] = ReadChar(s, q[k])
    OBVIOUS
  <2> QED
    BY <2>1, <2>2
<1>4. PICK base \in U : base = ReadStart
  BY <1>1, EmptySeq DEF ReadStart, ReadKinds
<1>5. PICK g \in [SUBSET (1..n) -> U] : Folds(g, base, n, F)
  BY FoldExists
<1> DEFINE Eq(h) == h = [s \in SUBSET (1..n) |-> IF s = {} THEN base
                         ELSE ReadChar(h[s \ {Max(s)}], q[Max(s)])]
           fold == CHOOSE h : Eq(h)
<1>6. ASSUME NEW s \in SUBSET (1..n), s # {} PROVE Max(s) \in 1..n
  <2>1. \E i \in s : \A j \in s : i >= j
    BY ONLY <1>6, n \in Nat, LastPlace
  <2> QED
    BY <2>1 DEF Max
<1>7. Eq(g)
  <2> SUFFICES ASSUME NEW s \in SUBSET (1..n), s # {}
               PROVE  F[Max(s)][g[s \ {Max(s)}]] = ReadChar(g[s \ {Max(s)}], q[Max(s)])
    BY <1>5 DEF Folds
  <2>1. g[s \ {Max(s)}] \in U
    OBVIOUS
  <2> QED
    BY <1>3, <1>6, <2>1
<1>8. Eq(fold)
  <2> HIDE DEF Eq
  <2> QED
    BY <1>7
<1>9. FoldLeft(ReadChar, base, q) = fold[1..n]
  BY <1>0 DEF FoldLeft, MapThenFoldSet
<1> HIDE DEF fold
<1>10. fold[{}] = base
  BY <1>8
<1>11. ASSUME NEW s \in SUBSET (1..n), s # {}, fold[s \ {Max(s)}] \in U
       PROVE  fold[s] = F[Max(s)][fold[s \ {Max(s)}]]
  <2>1. fold[s] = ReadChar(fold[s \ {Max(s)}], q[Max(s)])
    BY <1>8, <1>11
  <2>2. PICK k \in 1..n : k = Max(s)
    BY <1>6, <1>11
  <2>3. PICK v \in U : v = fold[s \ {Max(s)}]
    BY <1>11
  <2> QED
    BY <1>3, <2>1, <2>2, <2>3
<1>12. PICK run \in [0..n -> U] : Runs(run, base, n, F) /\ run[n] = fold[1..n]
  <2>1. FoldChosen(fold, U, base, n, F)
    BY <1>10, <1>11 DEF FoldChosen
  <2>2. PICK f : f = fold
    OBVIOUS
  <2>3. FoldChosen(f, U, base, n, F)
    BY <2>1, <2>2
  <2> HIDE DEF Eq
  <2>4. FoldRuns(f, U, base, n, F)
    BY <2>3, FoldOf
  <2> QED
    BY <2>2, <2>4 DEF FoldRuns
<1>13. ReadsUp(run, q, n)
  <2>1. ASSUME NEW k \in 1..n PROVE run[k] = ReadChar(run[k - 1], q[k])
    <3>1. PICK v \in U : v = run[k - 1]
      <4>1. k - 1 \in 0..n
        OBVIOUS
      <4> QED
        BY <4>1
    <3>2. run[k] = F[k][v]
      BY <1>12, <3>1 DEF Runs
    <3> QED
      BY <1>3, <3>1, <3>2
  <2>2. run[0] = ReadStart
    BY <1>4, <1>12 DEF Runs
  <2> QED
    BY <2>1, <2>2 DEF ReadsUp
<1>14. ReadAs(run[n], q)
  BY <1>4, <1>9, <1>12 DEF ReadAs, split_lines, ReadStart
<1> QED
  BY <1>1, <1>13, <1>14

\* The lines of a text over S are texts over S.
LEMMA LinesType ==
  ASSUME NEW S, NEW q \in Seq(S)
  PROVE  split_lines(q) \in Seq(Seq(S))
<1>1. PICK n \in Nat : n = Len(q)
  BY LenProperties
<1>2. PICK run \in [0..n -> ReadKinds(S)] : ReadAs(run[n], q)
  BY <1>1, LinesRun
<1>3. PICK read \in ReadKinds(S) : read = run[n]
  OBVIOUS
<1>4. PICK x \in Seq(Seq(S)) : x = read.lines
  BY DEF ReadKinds
<1>5. PICK y \in Seq(S) : y = read.line
  BY DEF ReadKinds
<1>6. split_lines(q) = IF y = <<>> THEN x ELSE Append(x, y)
  BY <1>2, <1>3, <1>4, <1>5 DEF ReadAs
<1>7. Append(x, y) \in Seq(Seq(S))
  BY AppendProperties
<1> QED
  BY <1>6, <1>7

\* A line with the newline that ends it, and a text that is read as these lines and the
\* beginning of another.
Ended(S) == [l \in Seq(S) |-> Append(l, Newline)]
TextRead(S, read) == Joined(Ended(S), read.lines) \o read.line

LEMMA EndedType ==
  ASSUME NEW S, Newline \in S
  PROVE  Ended(S) \in [Seq(S) -> Seq(S)] /\ \A l \in Seq(S) : Ended(S)[l] = Append(l, Newline)
BY AppendProperties DEF Ended

\* An element behind a text in two parts is behind its second.
LEMMA AppendSecond ==
  ASSUME NEW S, NEW s \in Seq(S), NEW t \in Seq(S), NEW e \in S
  PROVE  s \o Append(t, e) = Append(s \o t, e)
<1>0. <<e>> \in Seq(S)
  BY AppendIsConcat
<1>1. PICK u \in Seq(S) : u = <<e>>
  BY <1>0
<1>2. PICK v \in Seq(S) : v = s \o t
  BY Concats
<1>3. Append(t, e) = t \o u /\ Append(v, e) = v \o u
  BY <1>1, AppendIsConcat
<1>4. s \o (t \o u) = (s \o t) \o u
  BY Concats
<1> QED
  BY <1>2, <1>3, <1>4

\* What was read grows by the character read.
LEMMA ReadGrows ==
  ASSUME NEW S, Newline \in S, NEW read \in ReadKinds(S), NEW c \in S
  PROVE  TextRead(S, ReadChar(read, c)) = Append(TextRead(S, read), c)
<1>1. PICK x \in Seq(Seq(S)) : x = read.lines
  BY DEF ReadKinds
<1>2. PICK y \in Seq(S) : y = read.line
  BY DEF ReadKinds
<1>0. PICK Q : Q = Seq(S)
  OBVIOUS
<1>3. PICK f \in [Q -> Seq(S)] : f = Ended(S)
  BY <1>0, EndedType
<1>4. PICK j \in Seq(S) : j = Joined(f, x)
  BY <1>0, GatheredType
<1>5. TextRead(S, read) = j \o y
  BY <1>1, <1>2, <1>3, <1>4 DEF TextRead
<1>6. j \o Append(y, c) = Append(j \o y, c)
  BY AppendSecond
<1>7. CASE c = Newline
  <2>1. ReadChar(read, c).lines = Append(x, y) /\ ReadChar(read, c).line = <<>>
    BY <1>1, <1>2, <1>7 DEF ReadChar
  <2>2. Joined(f, Append(x, y)) = j \o f[y]
    <3>1. x \in Seq(Q) /\ y \in Q
      BY <1>0
    <3> QED
      BY <1>4, <3>1, GatheredAppend
  <2>3. PICK z \in Seq(S) : z = Append(y, c)
    BY AppendProperties
  <2>4. f[y] = z
    BY <1>3, <1>7, <2>3, EndedType
  <2>5. (j \o z) \o <<>> = j \o z
    BY Concats
  <2> QED
    BY <1>3, <1>5, <1>6, <2>1, <2>2, <2>3, <2>4, <2>5 DEF TextRead
<1>8. CASE c # Newline
  <2>1. ReadChar(read, c).lines = x /\ ReadChar(read, c).line = Append(y, c)
    BY <1>1, <1>2, <1>8 DEF ReadChar
  <2> QED
    BY <1>3, <1>4, <1>5, <1>6, <2>1 DEF TextRead
<1> QED
  BY <1>7, <1>8

\* The lines of a text, each with its newline, are the text but for the last newline.
SaidByLines(S, q) ==
  LET joined == Joined(Ended(S), split_lines(q)) IN joined = q \/ joined = Append(q, Newline)

LEMMA LinesSay ==
  ASSUME NEW S, Newline \in S, NEW q \in Seq(S)
  PROVE  SaidByLines(S, q)
<1>1. PICK n \in Nat : n = Len(q)
  BY LenProperties
<1>2. PICK run \in [0..n -> ReadKinds(S)] : ReadsUp(run, q, n) /\ ReadAs(run[n], q)
  BY <1>1, LinesRun
<1>0. PICK Q : Q = Seq(S)
  OBVIOUS
<1>3. PICK f \in [Q -> Seq(S)] : f = Ended(S)
  BY <1>0, EndedType
<1> DEFINE G == {k \in 0..n : TextRead(S, run[k]) = SubSeq(q, 1, k)}
<1>4. 0 \in G
  <2>1. run[0].lines = <<>> /\ run[0].line = <<>>
    BY <1>2 DEF ReadsUp, ReadStart
  <2>2. Joined(f, <<>>) = <<>>
    <3>1. PICK o \in Seq(Q) : o = <<>> /\ Len(o) = 0
      BY EmptySeq
    <3>2. PICK z \in Nat : z = 0
      OBVIOUS
    <3>3. z = Len(o) /\ \A i \in 1..z : f[o[i]] = <<>>
      BY <3>1, <3>2
    <3>4. Joined(f, o) = <<>>
      BY ONLY f \in [Q -> Seq(S)], o \in Seq(Q), z \in Nat, <3>3, GatheredNothing
    <3> QED
      BY <3>1, <3>4
  <2>3. <<>> \o <<>> = <<>> /\ SubSeq(q, 1, 0) = <<>>
    BY Concats, SubSeqEmpty
  <2>4. TextRead(S, run[0]) = SubSeq(q, 1, 0)
    BY <1>3, <2>1, <2>2, <2>3 DEF TextRead
  <2> QED
    BY <2>4
<1>5. ASSUME NEW k \in 1..n, k - 1 \in G PROVE k \in G
  <2>1. k \in 0..n /\ k - 1 \in 0..n
    OBVIOUS
  <2>2. PICK c \in S : c = q[k]
    BY <1>1, ElementOfSeq
  <2>3. PICK read \in ReadKinds(S) : read = run[k - 1]
    BY <2>1
  <2>4. run[k] = ReadChar(read, c)
    BY <1>2, <2>2, <2>3 DEF ReadsUp
  <2>5. TextRead(S, ReadChar(read, c)) = Append(TextRead(S, read), c)
    BY ReadGrows
  <2>6. PICK s \in Seq(S) : s = SubSeq(q, 1, k - 1)
    <3>1. 1 \in Nat /\ 1 >= 1 /\ k - 1 \in Nat /\ k - 1 <= Len(q)
      BY <1>1
    <3>2. SubSeq(q, 1, k - 1) \in Seq(S)
      BY <3>1, SliceType
    <3> QED
      BY <3>2
  <2>7. SubSeq(q, 1, k) = Append(s, c)
    <3>1. SubSeq(q, 1, k) = s \o <<c>>
      BY <1>1, <2>2, <2>6, SubSeqRecursiveSecond
    <3>2. Append(s, c) = s \o <<c>>
      BY AppendIsConcat
    <3> QED
      BY ONLY <3>1, <3>2
  <2>8. TextRead(S, read) = s
    BY <1>5, <2>3, <2>6
  <2>9. TextRead(S, run[k]) = SubSeq(q, 1, k)
    BY <2>4, <2>5, <2>7, <2>8
  <2> QED
    BY <2>1, <2>9
<1>6. TextRead(S, run[n]) = q
  <2>1. 0..n \subseteq G
    <3> HIDE DEF G
    <3> QED
      BY ONLY <1>4, <1>5, n \in Nat, Climb
  <2>2. TextRead(S, run[n]) = SubSeq(q, 1, n)
    BY <2>1
  <2> QED
    BY <1>1, <2>2, SubSeqFull
<1> HIDE DEF G
<1>7. PICK read \in ReadKinds(S) : read = run[n]
  OBVIOUS
<1>8. PICK x \in Seq(Seq(S)) : x = read.lines
  BY DEF ReadKinds
<1>9. PICK y \in Seq(S) : y = read.line
  BY DEF ReadKinds
<1>10. PICK j \in Seq(S) : j = Joined(f, x)
  BY <1>0, GatheredType
<1>11. q = j \o y
  BY <1>3, <1>6, <1>7, <1>8, <1>9, <1>10 DEF TextRead
<1>12. split_lines(q) = IF y = <<>> THEN x ELSE Append(x, y)
  BY <1>2, <1>7, <1>8, <1>9 DEF ReadAs
<1>13. CASE y = <<>>
  <2>1. j \o <<>> = j
    BY Concats
  <2>2. Joined(f, split_lines(q)) = q
    BY <1>10, <1>11, <1>12, <1>13, <2>1
  <2> QED
    BY <1>3, <2>2 DEF SaidByLines
<1>14. CASE y # <<>>
  <2>1. Joined(f, Append(x, y)) = j \o f[y]
    <3>1. x \in Seq(Q) /\ y \in Q
      BY <1>0
    <3> QED
      BY <1>10, <3>1, GatheredAppend
  <2>2. f[y] = Append(y, Newline)
    BY <1>3, EndedType
  <2>3. j \o Append(y, Newline) = Append(j \o y, Newline)
    BY AppendSecond
  <2>4. Joined(f, split_lines(q)) = Append(q, Newline)
    BY <1>11, <1>12, <1>14, <2>1, <2>2, <2>3
  <2> QED
    BY <1>3, <2>4 DEF SaidByLines
<1> QED
  BY <1>13, <1>14

\* Texts of the same lines differ by no more than the last newline.
LEMMA SameLines ==
  ASSUME NEW S, NEW s \in Seq(S), NEW t \in Seq(S), split_lines(s) = split_lines(t)
  PROVE  SameButEnd(s, t)
<1>1. PICK T : T = S \cup {Newline}
  OBVIOUS
<1>2. s \in Seq(T) /\ t \in Seq(T) /\ Newline \in T
  <2>1. S \subseteq T
    BY <1>1
  <2> QED
    BY <1>1, <2>1
<1>3. SaidByLines(T, s) /\ SaidByLines(T, t)
  BY <1>2, LinesSay
<1>4. PICK j : j = Joined(Ended(T), split_lines(s))
  OBVIOUS
<1>5. (j = s \/ j = Append(s, Newline)) /\ (j = t \/ j = Append(t, Newline))
  BY <1>3, <1>4 DEF SaidByLines
<1>6. Append(s, Newline) = Append(t, Newline) => s = t
  BY <1>2, AppendInjective
<1> QED
  BY <1>5, <1>6 DEF SameButEnd

-----------------------------------------------------------------------------
(* An empty diff.                                                           *)

\* All of a sequence is the sequence.
LEMMA OnlyAll ==
  ASSUME NEW S, NEW s \in Seq(S)
  PROVE  Only(s, DOMAIN s) = s
<1>1. PICK n \in Nat : n = Len(s) /\ DOMAIN s = 1..n
  BY LenProperties
<1>2. PICK P : P = 1..n
  OBVIOUS
<1>3. PICK q \in Seq(Seq(S)) : q = Pieces(s, P)
  BY <1>1, PiecesType
<1>4. Len(q) = n /\ \A i \in 1..n : q[i] = <<s[i]>>
  BY <1>1, <1>2, <1>3, PiecesType
<1>5. PICK run : run = [i \in 0..n |-> SubSeq(s, 1, i)]
  OBVIOUS
<1>6. run \in [0..n -> Seq(S)] /\ \A i \in 0..n : run[i] = SubSeq(s, 1, i)
  <2>1. ASSUME NEW i \in 0..n PROVE SubSeq(s, 1, i) \in Seq(S)
    <3>1. 1 \in Nat /\ 1 >= 1 /\ i \in Nat /\ i <= Len(s)
      BY <1>1
    <3> QED
      BY <3>1, SliceType
  <2> QED
    BY <1>5, <2>1
<1>7. JoinsUp(run, q, n)
  <2>1. run[0] = <<>>
    BY <1>6, SubSeqEmpty
  <2>2. ASSUME NEW i \in 1..n PROVE run[i] = run[i - 1] \o q[i]
    <3>1. i \in 0..n /\ i - 1 \in 0..n
      OBVIOUS
    <3>2. SubSeq(s, 1, i) = SubSeq(s, 1, i - 1) \o <<s[i]>>
      BY <1>1, SubSeqRecursiveSecond
    <3> QED
      BY <1>4, <1>6, <3>1, <3>2
  <2> QED
    BY <2>1, <2>2 DEF JoinsUp
<1>8. FlattenSeq(q) = run[n]
  <2>1. n = Len(q)
    BY <1>4
  <2> QED
    BY ONLY <1>6, <1>7, <2>1, n \in Nat, q \in Seq(Seq(S)), FlattenIs
<1>9. run[n] = s
  <2>1. n \in 0..n
    OBVIOUS
  <2> QED
    BY <1>1, <1>6, <2>1, SubSeqFull
<1> QED
  BY <1>1, <1>2, <1>3, <1>8, <1>9 DEF Only, Pieces

\* An empty diff has no texts.
LEMMA NoTexts ==
  ASSUME NEW kind
  PROVE  Texts(<<>>, kind) = <<>>
<1>1. PICK o \in Seq(Marks({})) : o = <<>> /\ Len(o) = 0
  BY EmptySeq
<1>2. PICK M : M = Marks({})
  OBVIOUS
<1>3. PICK f \in [M -> Seq({})] : f = TextOf(kind, {})
  BY <1>2, TextOfType
<1>4. PICK z \in Nat : z = 0
  OBVIOUS
<1>5. o \in Seq(M) /\ z = Len(o) /\ \A i \in 1..z : f[o[i]] = <<>>
  BY <1>1, <1>2, <1>4
<1>6. Joined(f, o) = <<>>
  BY ONLY f \in [M -> Seq({})], z \in Nat, <1>5, GatheredNothing
<1> QED
  BY <1>1, <1>2, <1>3, <1>5, <1>6, TextsJoined

\* An empty diff explains only what has not changed.
LEMMA NothingSame ==
  ASSUME NEW S, NEW a \in Seq(S), NEW b \in Seq(S), Explains(<<>>, a, b)
  PROVE  a = b
<1>a. Texts(<<>>, Del) = <<>>
  BY NoTexts
<1>b. Texts(<<>>, Add) = <<>>
  BY NoTexts
<1>1. PICK gone \in SUBSET DOMAIN a, come \in SUBSET DOMAIN b :
        /\ Only(a, gone) = <<>>
        /\ Only(b, come) = <<>>
        /\ Only(a, DOMAIN a \ gone) = Only(b, DOMAIN b \ come)
  BY <1>a, <1>b DEF Explains
<1>2. PICK n \in Nat : n = Len(a) /\ DOMAIN a = 1..n
  BY LenProperties
<1>3. PICK m \in Nat : m = Len(b) /\ DOMAIN b = 1..m
  BY LenProperties
<1>0. PICK i \in Nat \ {0} : i = 1
  OBVIOUS
<1>4. gone = {}
  <2>1. gone \in SUBSET (i..n)
    BY <1>0, <1>2
  <2> QED
    BY <1>1, <1>2, <2>1, NothingLess
<1>5. come = {}
  <2>1. come \in SUBSET (i..m)
    BY <1>0, <1>3
  <2> QED
    BY <1>1, <1>3, <2>1, NothingLess
<1>6. DOMAIN a \ gone = DOMAIN a /\ DOMAIN b \ come = DOMAIN b
  BY <1>4, <1>5
<1>7. Only(a, DOMAIN a) = Only(b, DOMAIN b)
  BY <1>1, <1>6
<1> QED
  BY <1>7, OnlyAll

-----------------------------------------------------------------------------
(* The diff.                                                                *)

\* A diff that is not too large explains the lines it was made of, with no more changes
\* than that takes, and an empty one is of texts that are the same but for a newline at
\* the end of the last line: unified_diff for every pair of texts (Diff.cpp:10-107).
THEOREM DiffExplains ==
  ASSUME NEW S, NEW s \in Seq(S), NEW t \in Seq(S), NEW context \in Nat, NEW max_lines,
         NEW d, d = unified_diff(s, t, context, max_lines), d # TooLarge
  PROVE  /\ Explains(d, split_lines(s), split_lines(t))
         /\ Shortest(d, split_lines(s), split_lines(t))
         /\ d = <<>> => SameButEnd(s, t)
<1>1. PICK Q : Q = Seq(S) /\ <<>> \in Q
  BY EmptySeq
<1>2. PICK a \in Seq(Q) : a = split_lines(s)
  BY <1>1, LinesType
<1>3. PICK b \in Seq(Q) : b = split_lines(t)
  BY <1>1, LinesType
<1>4. ASSUME Explains(d, a, b), Shortest(d, a, b)
      PROVE  /\ Explains(d, split_lines(s), split_lines(t))
             /\ Shortest(d, split_lines(s), split_lines(t))
             /\ d = <<>> => SameButEnd(s, t)
  <2>1. ASSUME d = <<>> PROVE SameButEnd(s, t)
    <3>1. a = b
      BY <1>4, <2>1, NothingSame
    <3> QED
      BY <1>2, <1>3, <3>1, SameLines
  <2> QED
    BY <1>2, <1>3, <1>4, <2>1
<1>5. CASE s = t
  <2>1. d = <<>> /\ a = b
    BY <1>2, <1>3, <1>5 DEF unified_diff
  <2> QED
    BY <1>4, <2>1, NothingExplains
<1>6. CASE s # t
  <2>1. PICK o \in Seq(Marks(Q)) : o = lcs_ops(a, b) /\ Explains(o, a, b) /\ Shortest(o, a, b)
    BY OpsExplain
  <2>2. PICK kept : kept = Kept(o, context)
    OBVIOUS
  <2>3. d = Hunks(o, kept)
    BY <1>2, <1>3, <1>6, <2>1, <2>2 DEF unified_diff
  <2>4. ShowsChanges(o, kept)
    BY <2>2, KeptShows DEF ShowsChanges
  <2>5. ASSUME NEW kind \in {Del, Add} PROVE Texts(d, kind) = Texts(o, kind)
    <3>1. <<>> \in Q /\ o \in Seq(Marks(Q))
      BY <1>1
    <3>2. Texts(Hunks(o, kept), kind) = Texts(o, kind)
      BY ONLY <2>4, <3>1, kind \in {Del, Add}, HunksShow
    <3> QED
      BY <2>3, <3>2
  <2>6. Texts(d, Del) = Texts(o, Del) /\ Texts(d, Add) = Texts(o, Add)
    BY <2>5
  <2> QED
    BY <1>4, <2>1, <2>6, ShownExplains
<1> QED
  BY <1>5, <1>6

-----------------------------------------------------------------------------
(* What was shown is what was done.                                         *)

\* Whatever the texts and however many: the diff the dialog showed of a call nobody
\* interferes with accounts for the difference between the lines of the file it read and
\* of the one it left, with no more removed and added lines than that takes, unless it
\* was too large to make; and when it showed none, the two texts are the same but for a
\* newline at the end of the last line (StrReplaceTool.cpp:76-113, Diff.cpp:10-107).
THEOREM PreviewKeptAlways == EditSpec => []PreviewIsKept
<1>1. FollowInv /\ PreviewForetells => PreviewIsKept
  <2> SUFFICES ASSUME FollowInv, PreviewForetells, EndedQuietly PROVE PreviewIsKept
    BY DEF PreviewIsKept
  <2>1. /\ preview.fails # "" => result # "ok"
        /\ call.tool = "str_replace" /\ preview.fails = "" =>
             result \in {"ok", "could not open for writing"}
    BY DEF PreviewForetells
  <2>2. ASSUME result = "ok", preview.diff # TooLarge
        PROVE  /\ Explains(preview.diff, Lines(seen), Lines(files[call.path]))
               /\ Shortest(preview.diff, Lines(seen), Lines(files[call.path]))
               /\ preview.diff = <<>> => SameButEnd(seen.text, files[call.path].text)
    <3>1. call \in EditCalls /\ call.path \in Paths
      BY CallKinds DEF FollowInv, EndInv
    <3>2. PICK s \in Seq(STRING) : s = seen.text
      BY DEF FollowInv, CallInv, FileKinds
    <3>3. PICK t \in Seq(STRING) : t = files[call.path].text
      BY <3>1 DEF FollowInv, DiskInv, FileKinds
    <3>4. PICK d : d = preview.diff
      OBVIOUS
    <3>5. PICK context \in Nat : context = Context
      BY BoundsAreNat
    <3>6. d = unified_diff(s, t, context, MaxLines) /\ d # TooLarge
      BY <2>2, <3>2, <3>3, <3>4, <3>5 DEF PreviewForetells
    <3>7. /\ Explains(d, split_lines(s), split_lines(t))
          /\ Shortest(d, split_lines(s), split_lines(t))
          /\ d = <<>> => SameButEnd(s, t)
      BY <3>6, DiffExplains
    <3> QED
      BY <3>2, <3>3, <3>4, <3>7 DEF Lines
  <2> QED
    BY <2>1, <2>2 DEF PreviewIsKept
<1> QED
  BY <1>1, FollowedAlways, ForetoldAlways, PTL
=============================================================================
