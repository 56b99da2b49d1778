--------------------------- MODULE LaunchesProofs ---------------------------
(***************************************************************************)
(* Proofs about Launches, for every disk, every list of servers, whatever  *)
(* tools they have and whichever of them start, every page, and any number *)
(* of launches: what the files say is what a launch runs with, a starter   *)
(* configuration helps the next launch, a name of a tool keeps its         *)
(* meaning, the model knows what it has of a page, and a program that has  *)
(* ended owns nothing.                                                     *)
(*                                                                         *)
(* The first two need what merging the files makes of each key, by         *)
(* induction over their settings, and the third that names are made from   *)
(* the list of servers in the file, not from those that start, and that    *)
(* the program's own tools stay in front of the list.                      *)
(***************************************************************************)
EXTENDS Launches, FoldLemmas

-----------------------------------------------------------------------------
(* The layers of the configuration.                                         *)

\* What a configuration's fields may hold while the files are merged.
ErrorNames == Keys \cup {"malformed", ""}
CfgValues == STRING \cup ErrorNames \cup BOOLEAN \cup Int \cup Seq(STRING)
CfgKeys == Keys \cup {"error"}
CfgKinds == {c \in [CfgKeys -> CfgValues] : \A key \in RuleKeys : c[key] \in Seq(STRING)}

LEMMA KeysApart ==
  /\ TextKeys \cap (BoolKeys \cup NumberKeys \cup RuleKeys) = {}
  /\ BoolKeys \cap (NumberKeys \cup RuleKeys) = {} /\ NumberKeys \cap RuleKeys = {}
  /\ "error" \notin Keys /\ "malformed" \notin Keys /\ "" \notin Keys /\ "absent" \notin Keys
  /\ "base_url" \in Keys /\ "model" \in Keys
BY DEF Keys, TextKeys, BoolKeys, NumberKeys, RuleKeys

LEMMA ToIntIs ==
  ASSUME NEW n \in Int
  PROVE  ToInt(n) \in Int /\ (n >= 0 /\ n < IntLimit => ToInt(n) = n)
<1>1. PICK h \in Nat : h = IntLimit /\ h > 0
  BY IntLimitAssumption
<1>2. PICK w \in Nat : w = 2 * h /\ w > 0
  BY <1>1
<1>3. ToInt(n) = ((n + h) % w) - h
  BY <1>1, <1>2 DEF ToInt
<1>4. (n + h) % w \in Int
  BY ONLY n \in Int, h \in Nat, w \in Nat, <1>2
<1>5. ASSUME n >= 0, n < h PROVE (n + h) % w = n + h
  <2>1. PICK k \in Nat : k = n + h /\ k < w
    BY <1>2, <1>5
  <2>2. k % w = k
    BY ONLY k \in Nat, w \in Nat, <2>1
  <2> QED
    BY <2>1, <2>2
<1> QED
  BY <1>1, <1>3, <1>4, <1>5

LEMMA DefaultKind == DefaultConfig \in CfgKinds /\ DefaultConfig.error = ""
<1>1. DefaultConfig = [key \in CfgKeys |-> DefaultConfig[key]]
  BY DEF DefaultConfig, CfgKeys, Keys, TextKeys, BoolKeys, RuleKeys, NumberKeys
<1>2. /\ DefaultConfig["base_url"] = "" /\ DefaultConfig["model"] = ""
      /\ DefaultConfig["system_prompt"] = "" /\ DefaultConfig["mcp_config"] = ""
      /\ DefaultConfig["allow_web"] = FALSE /\ DefaultConfig["auto_compact"] = TRUE
      /\ DefaultConfig["context_size"] = 0 /\ DefaultConfig["max_tool_iterations"] = 50
      /\ DefaultConfig["allow"] = <<>> /\ DefaultConfig["deny"] = <<>>
      /\ DefaultConfig["error"] = ""
  BY DEF DefaultConfig
<1>3. <<>> \in Seq(STRING)
  BY EmptySeq
<1>4. \A v \in {"", FALSE, TRUE, 0, 50, <<>>} : v \in CfgValues
  <2>1. "" \in CfgValues
    BY DEF CfgValues, ErrorNames
  <2>2. FALSE \in CfgValues /\ TRUE \in CfgValues
    BY Zenon DEF CfgValues
  <2>3. 0 \in CfgValues /\ 50 \in CfgValues
    BY DEF CfgValues
  <2>4. <<>> \in CfgValues
    BY <1>3 DEF CfgValues
  <2> QED
    BY <2>1, <2>2, <2>3, <2>4
<1> DEFINE d == DefaultConfig
<1> HIDE DEF d
<1>5. \A key \in CfgKeys : d[key] \in {"", FALSE, TRUE, 0, 50, <<>>}
  BY <1>2 DEF d, CfgKeys, Keys, TextKeys, BoolKeys, RuleKeys, NumberKeys
<1>6. \A key \in RuleKeys : d[key] = <<>>
  BY <1>2 DEF d, RuleKeys
<1>7. d \in [CfgKeys -> CfgValues]
  BY <1>1, <1>4, <1>5 DEF d
<1>8. d \in CfgKinds
  BY <1>3, <1>6, <1>7 DEF CfgKinds
<1> QED
  BY <1>2, <1>8 DEF d

\* What a setting that is not rejected holds.
Valid(e) ==
  /\ e.key \in Keys /\ e.text \in STRING /\ e.number \in Int
  /\ e.key \in NumberKeys => e.number >= Smallest[e.key]

HasKey(e) == e.key \in ErrorNames /\ e.key # "" /\ e.key # "absent"

LEMMA SettingIs ==
  ASSUME NEW e \in Settings
  PROVE  HasKey(e) /\ (~Rejected(e) => Valid(e))
<1>1. CASE e = Malformed
  BY <1>1 DEF Malformed, Rejected, ErrorNames, HasKey
<1>2. CASE e \in [key : Keys, text : STRING, number : Int]
  <2>1. e.key \in Keys /\ e.text \in STRING /\ e.number \in Int
    BY <1>2
  <2>2. e.key \in NumberKeys => Smallest[e.key] \in Int
    BY DEF NumberKeys, Smallest
  <2>3. e.key # "" /\ e.key # "absent"
    BY <2>1, KeysApart
  <2>4. e.key \in NumberKeys /\ ~Rejected(e) => e.number >= Smallest[e.key]
    BY <2>1, <2>2 DEF Rejected
  <2> QED
    BY <2>1, <2>3, <2>4 DEF ErrorNames, HasKey, Valid
<1> QED
  BY <1>1, <1>2 DEF Settings

\* What one setting makes of the key's value.
Spelled(key, e) ==
  IF key \in BoolKeys THEN e.text \in True
  ELSE IF key \in NumberKeys THEN ToInt(e.number) ELSE e.text

\* d is c with the setting e.
Takes(c, e, d) ==
  /\ d \in CfgKinds
  /\ Rejected(e) => d.error # ""
  /\ ~Rejected(e) =>
       /\ d.error = c.error
       /\ \A key \in Keys : key # e.key => d[key] = c[key]
       /\ e.key \notin RuleKeys => d[e.key] = Spelled(e.key, e)
       /\ e.key \in RuleKeys => d[e.key] = IF e.text = "" THEN c[e.key] ELSE Append(c[e.key], e.text)

\* A key and a value it may have; c with it.
Fits(key, v) == key \in CfgKeys /\ v \in CfgValues /\ (key \in RuleKeys => v \in Seq(STRING))

Puts(c, key, v, d) ==
  d \in CfgKinds /\ d[key] = v /\ \A k \in CfgKeys : k # key => d[k] = c[k]

LEMMA SetKey ==
  ASSUME NEW c \in CfgKinds, NEW key, NEW v, Fits(key, v)
  PROVE  Puts(c, key, v, [c EXCEPT ![key] = v])
<1>0. key \in CfgKeys /\ v \in CfgValues /\ (key \in RuleKeys => v \in Seq(STRING))
  BY DEF Fits
<1>1. c \in [CfgKeys -> CfgValues] /\ \A k \in RuleKeys : c[k] \in Seq(STRING)
  BY DEF CfgKinds
<1>2. PICK d \in [CfgKeys -> CfgValues] : d = [c EXCEPT ![key] = v]
  BY <1>0, <1>1
<1>3. d[key] = v /\ \A k \in CfgKeys : k # key => d[k] = c[k]
  BY <1>0, <1>1, <1>2
<1>4. \A k \in RuleKeys : k \in CfgKeys
  BY DEF CfgKeys, Keys
<1>5. d \in CfgKinds
  BY <1>0, <1>1, <1>3, <1>4 DEF CfgKinds
<1> QED
  BY <1>2, <1>3, <1>5 DEF Puts

LEMMA ApplyTakes ==
  ASSUME NEW c \in CfgKinds, NEW e \in Settings
  PROVE  Takes(c, e, apply_kv(c, e))
<1>1. /\ "error" \in CfgKeys /\ \A k \in Keys : k \in CfgKeys /\ k # "error"
      /\ "error" \notin RuleKeys
  BY KeysApart DEF CfgKeys, Keys
<1>2. CASE Rejected(e)
  <2>0. HasKey(e)
    BY SettingIs
  <2>1. PICK v : v = e.key /\ v # "" /\ v \in CfgValues
    BY <2>0 DEF CfgValues, HasKey
  <2>2. apply_kv(c, e) = [c EXCEPT !["error"] = v]
    BY <1>2, <2>1 DEF apply_kv
  <2>4. Fits("error", v)
    BY <1>1, <2>1 DEF Fits
  <2>5. Puts(c, "error", v, [c EXCEPT !["error"] = v])
    BY <2>4, SetKey
  <2>3. apply_kv(c, e) \in CfgKinds /\ apply_kv(c, e)["error"] = v
    BY <2>2, <2>5 DEF Puts
  <2> QED
    BY <1>2, <2>1, <2>3 DEF Takes
<1>3. ASSUME ~Rejected(e), NEW v \in CfgValues, e.key \in RuleKeys => v \in Seq(STRING),
             apply_kv(c, e) = [c EXCEPT ![e.key] = v],
             e.key \notin RuleKeys => v = Spelled(e.key, e),
             e.key \in RuleKeys => v = IF e.text = "" THEN c[e.key] ELSE Append(c[e.key], e.text)
      PROVE  Takes(c, e, apply_kv(c, e))
  <2>0. Valid(e)
    BY <1>3, SettingIs
  <2>1. PICK key \in CfgKeys : key = e.key /\ key \in Keys /\ key # "error"
    BY <1>1, <2>0 DEF Valid
  <2>2. PICK d : d = [c EXCEPT ![key] = v]
    OBVIOUS
  <2>3. d \in CfgKinds /\ d[key] = v /\ \A k \in CfgKeys : k # key => d[k] = c[k]
    <3>1. Fits(key, v)
      BY <1>3, <2>1 DEF Fits
    <3>2. Puts(c, key, v, [c EXCEPT ![key] = v])
      BY <3>1, SetKey
    <3> QED
      BY <2>2, <3>2 DEF Puts
  <2>4. d = apply_kv(c, e)
    BY <1>3, <2>1, <2>2
  <2>5. d.error = c.error /\ \A k \in Keys : k # e.key => d[k] = c[k]
    BY <1>1, <2>1, <2>3
  <2>6. /\ e.key \notin RuleKeys => d[e.key] = Spelled(e.key, e)
        /\ e.key \in RuleKeys => d[e.key] = IF e.text = "" THEN c[e.key] ELSE Append(c[e.key], e.text)
    BY <1>3, <2>1, <2>3
  <2>7. Takes(c, e, d)
    BY <1>3, <2>3, <2>5, <2>6 DEF Takes
  <2> QED
    BY <2>4, <2>7
<1>4. CASE ~Rejected(e)
  <2>0. Valid(e)
    BY <1>4, SettingIs
  <2>1. PICK t \in STRING, n \in Int : t = e.text /\ n = e.number
    BY <2>0 DEF Valid
  <2>2. e.key \in Keys
    BY <2>0 DEF Valid
  <2>3. CASE e.key \in BoolKeys
    <3>1. PICK v \in {TRUE, FALSE} : v = (e.text \in True)
      <4>1. CASE e.text \in True
        BY <4>1
      <4>2. CASE e.text \notin True
        <5>1. FALSE = (e.text \in True)
          BY <4>2
        <5> QED
          BY <5>1
      <4> QED
        BY <4>1, <4>2
    <3>2. v \in CfgValues
      <4>1. TRUE \in CfgValues /\ FALSE \in CfgValues
        BY Zenon DEF CfgValues
      <4> QED
        BY <4>1
    <3>3. v = Spelled(e.key, e) /\ e.key \notin RuleKeys
      BY <2>3, <3>1, KeysApart DEF Spelled
    <3>4. apply_kv(c, e) = [c EXCEPT ![e.key] = v]
      BY <1>4, <2>3, <3>1 DEF apply_kv
    <3> QED
      BY <1>3, <1>4, <3>2, <3>3, <3>4
  <2>4. CASE e.key \in NumberKeys
    <3>1. PICK v \in Int : v = ToInt(e.number)
      BY <2>1, ToIntIs
    <3>2. v \in CfgValues
      BY DEF CfgValues
    <3>3. v = Spelled(e.key, e) /\ e.key \notin RuleKeys /\ e.key \notin BoolKeys
      BY <2>4, <3>1, KeysApart DEF Spelled
    <3>4. apply_kv(c, e) = [c EXCEPT ![e.key] = v]
      BY <1>4, <2>4, <3>1, <3>3 DEF apply_kv
    <3> QED
      BY <1>3, <1>4, <3>2, <3>3, <3>4
  <2>5. CASE e.key \in TextKeys
    <3>2. t \in CfgValues
      BY DEF CfgValues
    <3>3. /\ t = Spelled(e.key, e) /\ e.key \notin RuleKeys /\ e.key \notin BoolKeys
          /\ e.key \notin NumberKeys
      BY <2>1, <2>5, KeysApart DEF Spelled
    <3>4. apply_kv(c, e) = [c EXCEPT ![e.key] = t]
      BY <1>4, <2>1, <2>5, <3>3 DEF apply_kv
    <3> QED
      BY <1>3, <1>4, <3>2, <3>3, <3>4
  <2>6. CASE e.key \in RuleKeys
    <3>1. e.key \notin TextKeys /\ e.key \notin BoolKeys /\ e.key \notin NumberKeys /\ e.key \in CfgKeys
      BY <1>1, <2>2, <2>6, KeysApart
    <3>2. PICK q \in Seq(STRING) : q = c[e.key]
      BY <2>6 DEF CfgKinds
    <3>3. PICK v \in Seq(STRING) : v = IF t = "" THEN q ELSE Append(q, t)
      <4>1. Append(q, t) \in Seq(STRING)
        BY AppendProperties
      <4> QED
        BY <4>1
    <3>4. v \in CfgValues
      BY DEF CfgValues
    <3>5. apply_kv(c, e) = [c EXCEPT ![e.key] = v]
      <4>1. PICK key : key = e.key
        OBVIOUS
      <4>2. c = [k \in CfgKeys |-> c[k]]
        BY DEF CfgKinds
      <4>3. key \in CfgKeys /\ q = c[key]
        BY <3>1, <3>2, <4>1
      <4>4. CASE t = ""
        <5>1. apply_kv(c, e) = c
          BY <1>4, <2>1, <3>1, <4>4 DEF apply_kv
        <5>2. [c EXCEPT ![key] = q] = c
          BY <4>2, <4>3
        <5> QED
          BY <3>3, <4>1, <4>4, <5>1, <5>2
      <4>5. CASE t # ""
        <5>1. apply_kv(c, e) = [c EXCEPT ![e.key] = Append(@, e.text)]
          BY <1>4, <2>1, <3>1, <4>5 DEF apply_kv
        <5>2. [c EXCEPT ![key] = Append(@, t)] = [c EXCEPT ![key] = Append(q, t)]
          BY <4>2, <4>3
        <5> QED
          BY <2>1, <3>3, <4>1, <4>5, <5>1, <5>2
      <4> QED
        BY <4>4, <4>5
    <3>6. v = IF e.text = "" THEN c[e.key] ELSE Append(c[e.key], e.text)
      BY <2>1, <3>2, <3>3
    <3> QED
      BY <1>3, <1>4, <2>6, <3>4, <3>5, <3>6
  <2> QED
    BY <2>2, <2>3, <2>4, <2>5, <2>6 DEF Keys
<1> QED
  BY <1>2, <1>4

-----------------------------------------------------------------------------
(* What the settings read so far say.                                       *)

\* Where a key is set.
Places(s, key) == {i \in DOMAIN s : s[i].key = key}

LEMMA InForceMore ==
  ASSUME NEW s \in Seq(Settings), NEW e \in Settings, NEW key
  PROVE  InForce(Append(s, e), key) = IF e.key = key THEN <<e>> ELSE InForce(s, key)
<1>1. PICK n \in Nat : n = Len(s) /\ DOMAIN s = 1..n
  BY LenProperties
<1>2. PICK r \in Seq(Settings) : r = Append(s, e)
  BY AppendProperties
<1>3. DOMAIN r = 1..(n + 1) /\ r[n + 1] = e /\ \A i \in 1..n : r[i] = s[i]
  BY <1>1, <1>2, AppendProperties, LenProperties
<1>4. PICK P \in SUBSET (1..n) : P = Places(s, key)
  BY <1>1 DEF Places
<1>5. PICK R \in SUBSET (1..(n + 1)) : R = Places(r, key)
  BY <1>3 DEF Places
<1>6. InForce(r, key) = IF R = {} THEN <<>> ELSE <<r[CHOOSE i \in R : \A j \in R : j <= i]>>
  BY <1>5 DEF InForce, Places
<1>7. InForce(s, key) = IF P = {} THEN <<>> ELSE <<s[CHOOSE i \in P : \A j \in P : j <= i]>>
  BY <1>4 DEF InForce, Places
<1>8. CASE e.key = key
  <2>1. n + 1 \in R /\ \A j \in R : j <= n + 1
    BY <1>3, <1>5, <1>8 DEF Places
  <2>2. (CHOOSE i \in R : \A j \in R : j <= i) = n + 1
    <3>1. \A i \in R : (\A j \in R : j <= i) => i = n + 1
      BY <2>1
    <3> QED
      BY <2>1, <3>1
  <2> QED
    BY <1>2, <1>3, <1>6, <1>8, <2>1, <2>2
<1>9. CASE e.key # key
  <2>1. R = P
    <3>1. \A i \in 1..n : r[i].key = s[i].key
      BY <1>3
    <3>2. \A i \in R : i # n + 1
      BY <1>3, <1>5, <1>9 DEF Places
    <3>3. \A i \in 1..(n + 1) : i # n + 1 => i \in 1..n
      OBVIOUS
    <3>4. \A i \in R : i \in 1..n /\ r[i].key = key
      BY <1>5, <3>2, <3>3 DEF Places
    <3>5. \A i \in 1..n : i \in 1..(n + 1)
      OBVIOUS
    <3>6. \A i \in P : i \in 1..(n + 1) /\ s[i].key = key /\ i \in 1..n
      BY <1>4, <3>5 DEF Places
    <3>7. R \subseteq P
      BY <1>1, <1>4, <3>1, <3>4 DEF Places
    <3>8. P \subseteq R
      BY <1>3, <1>5, <3>1, <3>6 DEF Places
    <3> QED
      BY <3>7, <3>8
  <2>2. CASE P = {}
    BY <1>2, <1>6, <1>7, <1>9, <2>1, <2>2
  <2>3. CASE P # {}
    <3>1. \E i \in P : \A j \in P : i >= j
      BY ONLY n \in Nat, P \in SUBSET (1..n), <2>3, LastPlace
    <3>2. \E i \in P : \A j \in P : j <= i
      BY <3>1
    <3>3. PICK k \in P : k = CHOOSE i \in P : \A j \in P : j <= i
      BY <3>2
    <3>4. r[k] = s[k]
      BY <1>3
    <3> QED
      BY <1>2, <1>6, <1>7, <1>9, <2>1, <2>3, <3>3, <3>4
  <2> QED
    BY <2>2, <2>3
<1> QED
  BY <1>8, <1>9

RuleText(key) == [e \in Settings |-> IF e.key = key /\ e.text # "" THEN <<e.text>> ELSE <<>>]

LEMMA OneOf == ASSUME NEW S, NEW t \in S PROVE <<t>> \in Seq(S)
OBVIOUS

LEMMA TextsMore ==
  ASSUME NEW s \in Seq(Settings), NEW e \in Settings, NEW key \in Keys
  PROVE  /\ Texts(s, key) \in Seq(STRING)
         /\ Texts(Append(s, e), key) =
              IF e.key = key /\ e.text # "" THEN Append(Texts(s, key), e.text) ELSE Texts(s, key)
<1>1. ASSUME NEW d \in Settings, d.key = key PROVE d.text \in STRING
  <2>0. Malformed.key = "malformed"
    BY DEF Malformed
  <2>1. d # Malformed
    BY <1>1, <2>0, KeysApart
  <2> QED
    BY <2>1 DEF Settings
<1>2. PICK f : f = RuleText(key)
  OBVIOUS
<1>3. \A d \in Settings : f[d] = IF d.key = key /\ d.text # "" THEN <<d.text>> ELSE <<>>
  BY <1>2 DEF RuleText
<1>4. f \in [Settings -> Seq(STRING)]
  <2>1. \A d \in Settings : f[d] \in Seq(STRING)
    <3> SUFFICES ASSUME NEW d \in Settings PROVE f[d] \in Seq(STRING)
      OBVIOUS
    <3>1. CASE d.key = key /\ d.text # ""
      <4>1. PICK t \in STRING : t = d.text
        BY <1>1, <3>1
      <4>2. <<t>> \in Seq(STRING)
        BY OneOf
      <4> QED
        BY <1>3, <3>1, <4>1, <4>2
    <3>2. CASE ~(d.key = key /\ d.text # "")
      BY <1>3, <3>2, EmptySeq
    <3> QED
      BY <3>1, <3>2
  <2> QED
    BY <1>2, <2>1 DEF RuleText
<1>5. ASSUME NEW q \in Seq(Settings) PROVE Texts(q, key) = Joined(f, q) /\ Texts(q, key) \in Seq(STRING)
  <2>1. \A i \in DOMAIN q : q[i] \in Settings
    BY LenProperties, ElementOfSeq
  <2>2. Gathered(f, q) = [i \in DOMAIN q |->
          IF q[i].key = key /\ q[i].text # "" THEN <<q[i].text>> ELSE <<>>]
    BY <1>3, <2>1 DEF Gathered
  <2>3. Texts(q, key) = Joined(f, q)
    BY <2>2 DEF Texts, Joined
  <2>4. PICK j \in Seq(STRING) : j = Joined(f, q)
    BY <1>4, GatheredType
  <2> QED
    BY <2>3, <2>4
<1>6. PICK r \in Seq(Settings) : r = Append(s, e)
  BY AppendProperties
<1>7. Joined(f, Append(s, e)) = Joined(f, s) \o f[e]
  BY <1>4, GatheredAppend
<1>8. PICK old \in Seq(STRING) : old = Texts(s, key)
  BY <1>5
<1>9. Texts(Append(s, e), key) = old \o f[e]
  BY <1>5, <1>6, <1>7, <1>8
<1>10. CASE e.key = key /\ e.text # ""
  <2>1. PICK t \in STRING : t = e.text
    BY <1>1, <1>10
  <2>2. f[e] = <<t>>
    BY <1>3, <1>10, <2>1
  <2>3. old \o <<t>> = Append(old, t)
    BY AppendIsConcat
  <2> QED
    BY <1>8, <1>9, <1>10, <2>1, <2>2, <2>3
<1>11. CASE ~(e.key = key /\ e.text # "")
  <2>1. f[e] = <<>>
    BY <1>3, <1>11
  <2>2. old \o <<>> = old
    BY Concats
  <2> QED
    BY <1>8, <1>9, <1>11, <2>1, <2>2
<1> QED
  BY <1>8, <1>10, <1>11

\* What the settings say of a key.
Told(s, key) ==
  IF key \in RuleKeys THEN Texts(s, key)
  ELSE IF InForce(s, key) = <<>> THEN DefaultConfig[key] ELSE Spelled(key, InForce(s, key)[1])

\* c is what the settings s make of the defaults.
Tells(c, s) ==
  /\ c \in CfgKinds
  /\ c.error = "" <=> Accepted(s)
  /\ c.error = "" => \A key \in Keys : c[key] = Told(s, key)

LEMMA AppendAfter ==
  ASSUME NEW S, NEW s \in Seq(S), NEW t \in Seq(S), NEW e \in S
  PROVE  s \o (t \o <<e>>) = Append(s \o t, e)
<1>1. PICK one \in Seq(S) : one = <<e>>
  BY OneOf
<1>2. (s \o t) \o one = s \o (t \o one)
  BY ConcatAssociative
<1>3. PICK u \in Seq(S) : u = s \o t
  BY Concats
<1>4. Append(u, e) = u \o <<e>>
  BY AppendIsConcat
<1> QED
  BY ONLY <1>1, <1>2, <1>3, <1>4

LEMMA AcceptedMore ==
  ASSUME NEW s \in Seq(Settings), NEW e \in Settings
  PROVE  Accepted(Append(s, e)) <=> Accepted(s) /\ ~Rejected(e)
<1>1. PICK n \in Nat : n = Len(s) /\ DOMAIN s = 1..n
  BY LenProperties
<1>2. PICK r \in Seq(Settings) : r = Append(s, e)
  BY AppendProperties
<1>3. DOMAIN r = 1..(n + 1) /\ r[n + 1] = e /\ \A i \in 1..n : r[i] = s[i]
  BY <1>1, <1>2, AppendProperties, LenProperties
<1>4. \A i \in 1..(n + 1) : i = n + 1 \/ i \in 1..n
  OBVIOUS
<1>5. n + 1 \in 1..(n + 1) /\ \A i \in 1..n : i \in 1..(n + 1)
  OBVIOUS
<1>6. Accepted(s) /\ ~Rejected(e) => Accepted(r)
  BY <1>1, <1>3, <1>4 DEF Accepted
<1>7. Accepted(r) => ~Rejected(e)
  BY <1>3, <1>5 DEF Accepted
<1>8. Accepted(r) => Accepted(s)
  BY <1>1, <1>3, <1>5 DEF Accepted
<1> QED
  BY <1>2, <1>6, <1>7, <1>8

LEMMA ToldMore ==
  ASSUME NEW s \in Seq(Settings), NEW e \in Settings, NEW key \in Keys, ~Rejected(e)
  PROVE  Told(Append(s, e), key) =
           IF key # e.key THEN Told(s, key)
           ELSE IF key \notin RuleKeys THEN Spelled(key, e)
           ELSE IF e.text = "" THEN Told(s, key) ELSE Append(Told(s, key), e.text)
<1>1. CASE key \in RuleKeys
  <2>1. Told(Append(s, e), key) = Texts(Append(s, e), key) /\ Told(s, key) = Texts(s, key)
    BY <1>1 DEF Told
  <2>2. Texts(Append(s, e), key) =
          IF e.key = key /\ e.text # "" THEN Append(Texts(s, key), e.text) ELSE Texts(s, key)
    BY TextsMore
  <2> QED
    BY <1>1, <2>1, <2>2
<1>2. CASE key \notin RuleKeys
  <2>1. InForce(Append(s, e), key) = IF e.key = key THEN <<e>> ELSE InForce(s, key)
    BY InForceMore
  <2>2. CASE e.key = key
    <3>1. <<e>> # <<>> /\ <<e>>[1] = e
      OBVIOUS
    <3>2. Told(Append(s, e), key) = Spelled(key, e)
      BY <1>2, <2>1, <2>2, <3>1 DEF Told
    <3> QED
      BY <1>2, <2>2, <3>2
  <2>3. CASE e.key # key
    BY <1>2, <2>1, <2>3 DEF Told
  <2> QED
    BY <2>2, <2>3
<1> QED
  BY <1>1, <1>2

LEMMA ReadTells ==
  ASSUME NEW s \in Seq(Settings), NEW e \in Settings, NEW c, Tells(c, s)
  PROVE  Tells(ReadSetting(c, e), Append(s, e))
<1>1. c \in CfgKinds
  BY DEF Tells
<1>2. PICK r \in Seq(Settings) : r = Append(s, e)
  BY AppendProperties
<1>3. Accepted(r) <=> Accepted(s) /\ ~Rejected(e)
  BY <1>2, AcceptedMore
<1>4. CASE c.error # ""
  <2>1. ReadSetting(c, e) = c
    BY <1>4 DEF ReadSetting
  <2>2. ~Accepted(r)
    BY <1>3, <1>4 DEF Tells
  <2>3. Tells(c, r)
    BY <1>1, <1>4, <2>2 DEF Tells
  <2> QED
    BY <1>2, <2>1, <2>3
<1>5. CASE c.error = ""
  <2>1. PICK d : d = ReadSetting(c, e)
    OBVIOUS
  <2>2. d = apply_kv(c, e)
    BY <1>5, <2>1 DEF ReadSetting
  <2>3. Takes(c, e, d)
    BY <1>1, <2>2, ApplyTakes
  <2>4. d \in CfgKinds
    BY <2>3 DEF Takes
  <2>5. Accepted(s)
    BY <1>5 DEF Tells
  <2>6. CASE Rejected(e)
    <3>1. d.error # "" /\ ~Accepted(r)
      BY <1>3, <2>3, <2>6 DEF Takes
    <3>2. Tells(d, r)
      BY <2>4, <3>1 DEF Tells
    <3> QED
      BY <1>2, <2>1, <3>2
  <2>7. CASE ~Rejected(e)
    <3>1. d.error = "" /\ Accepted(r)
      BY <1>3, <1>5, <2>3, <2>5, <2>7 DEF Takes
    <3>2. ASSUME NEW key \in Keys PROVE d[key] = Told(r, key)
      <4>1. c[key] = Told(s, key)
        BY <1>5 DEF Tells
      <4>2. Told(r, key) =
              IF key # e.key THEN Told(s, key)
              ELSE IF key \notin RuleKeys THEN Spelled(key, e)
              ELSE IF e.text = "" THEN Told(s, key) ELSE Append(Told(s, key), e.text)
        BY <1>2, <2>7, ToldMore
      <4>3. CASE key # e.key
        <5>1. d[key] = c[key]
          BY <2>3, <2>7, <4>3 DEF Takes
        <5> QED
          BY <4>1, <4>2, <4>3, <5>1
      <4>4. CASE key = e.key /\ key \notin RuleKeys
        <5>1. d[key] = Spelled(key, e)
          BY <2>3, <2>7, <4>4 DEF Takes
        <5> QED
          BY <4>2, <4>4, <5>1
      <4>5. CASE key = e.key /\ key \in RuleKeys
        <5>1. d[key] = IF e.text = "" THEN c[key] ELSE Append(c[key], e.text)
          BY <2>3, <2>7, <4>5 DEF Takes
        <5> QED
          BY <4>1, <4>2, <4>5, <5>1
      <4> QED
        BY <4>3, <4>4, <4>5
    <3>3. Tells(d, r)
      BY <2>4, <3>1, <3>2 DEF Tells
    <3> QED
      BY <1>2, <2>1, <3>3
  <2> QED
    BY <2>6, <2>7
<1> QED
  BY <1>4, <1>5

LEMMA ReadKind ==
  ASSUME NEW c \in CfgKinds, NEW e \in Settings
  PROVE  ReadSetting(c, e) \in CfgKinds
<1>1. Takes(c, e, apply_kv(c, e))
  BY ApplyTakes
<1>2. apply_kv(c, e) \in CfgKinds
  BY <1>1 DEF Takes
<1> QED
  BY <1>2 DEF ReadSetting

\* The settings as steps of a fold.
ReadF(q) == [k \in 1..Len(q) |-> [c \in CfgKinds |-> ReadSetting(c, q[k])]]

LEMMA ReadRun ==
  ASSUME NEW q \in Seq(Settings), NEW n \in Nat, n = Len(q), NEW base \in CfgKinds
  PROVE  /\ \A k \in 1..n, c \in CfgKinds : ReadF(q)[k][c] = ReadSetting(c, q[k])
         /\ \E run \in [0..n -> CfgKinds] :
              Runs(run, base, n, ReadF(q)) /\ mergeConfString(base, q) = run[n]
<1> DEFINE U == CfgKinds
<1> HIDE DEF U
<1>1. DOMAIN q = 1..n /\ \A k \in 1..n : q[k] \in Settings
  BY LenProperties, ElementOfSeq
<1>2. ReadF(q) = [k \in 1..n |-> [c \in U |-> ReadSetting(c, q[k])]]
  BY DEF ReadF, U
<1>3. ReadF(q) \in [1..n -> [U -> U]]
  <2>1. \A k \in 1..n : \A c \in U : ReadSetting(c, q[k]) \in U
    BY <1>1, ReadKind DEF U
  <2> QED
    BY <1>2, <2>1
<1>4. PICK F \in [1..n -> [U -> U]] : F = ReadF(q)
  BY <1>3
<1>5. \A k \in 1..n, c \in U : F[k][c] = ReadSetting(c, q[k])
  BY <1>2, <1>4
<1>6. base \in U
  BY DEF U
<1>7. PICK g \in [SUBSET (1..n) -> U] : Folds(g, base, n, F)
  BY <1>6, FoldExists
<1> DEFINE Eq(h) == h = [s \in SUBSET (1..n) |-> IF s = {} THEN base
                         ELSE ReadSetting(h[s \ {Max(s)}], q[Max(s)])]
           fold == CHOOSE h : Eq(h)
<1>8. ASSUME NEW s \in SUBSET (1..n), s # {} PROVE Max(s) \in 1..n
  <2>1. \E i \in s : \A j \in s : i >= j
    BY ONLY <1>8, n \in Nat, LastPlace
  <2> QED
    BY <2>1 DEF Max
<1>9. Eq(g)
  <2> SUFFICES ASSUME NEW s \in SUBSET (1..n), s # {}
               PROVE  F[Max(s)][g[s \ {Max(s)}]] = ReadSetting(g[s \ {Max(s)}], q[Max(s)])
    BY <1>7 DEF Folds
  <2>1. g[s \ {Max(s)}] \in U
    OBVIOUS
  <2> QED
    BY <1>5, <1>8, <2>1
<1>10. Eq(fold)
  <2> HIDE DEF Eq
  <2> QED
    BY <1>9
<1>11. FoldLeft(ReadSetting, base, q) = fold[1..n]
  BY <1>1 DEF FoldLeft, MapThenFoldSet
<1> HIDE DEF fold
<1>12. fold[{}] = base
  BY <1>10
<1>13. ASSUME NEW s \in SUBSET (1..n), s # {}, fold[s \ {Max(s)}] \in U
       PROVE  fold[s] = F[Max(s)][fold[s \ {Max(s)}]]
  <2>1. fold[s] = ReadSetting(fold[s \ {Max(s)}], q[Max(s)])
    BY <1>10, <1>13
  <2>2. PICK k \in 1..n : k = Max(s)
    BY <1>8, <1>13
  <2>3. PICK v \in U : v = fold[s \ {Max(s)}]
    BY <1>13
  <2> QED
    BY <1>5, <2>1, <2>2, <2>3
<1>14. PICK run \in [0..n -> U] : Runs(run, base, n, F) /\ run[n] = fold[1..n]
  <2>1. FoldChosen(fold, U, base, n, F)
    BY <1>12, <1>13 DEF FoldChosen
  <2>2. PICK f : f = fold
    OBVIOUS
  <2>3. FoldChosen(f, U, base, n, F)
    BY <2>1, <2>2
  <2> HIDE DEF Eq
  <2>4. FoldRuns(f, U, base, n, F)
    BY <1>6, <2>3, FoldOf
  <2> QED
    BY <2>2, <2>4 DEF FoldRuns
<1>15. mergeConfString(base, q) = run[n]
  BY <1>11, <1>14 DEF mergeConfString
<1> QED
  BY <1>4, <1>5, <1>14, <1>15 DEF U

\* A document read after the settings s.
LEMMA MergeTells ==
  ASSUME NEW s \in Seq(Settings), NEW doc \in Seq(Settings), NEW c, Tells(c, s)
  PROVE  Tells(mergeConfString(c, doc), s \o doc)
<1>1. PICK n \in Nat : n = Len(doc)
  BY LenProperties
<1>2. PICK b \in CfgKinds : b = c
  BY DEF Tells
<1>3. /\ \A k \in 1..n, x \in CfgKinds : ReadF(doc)[k][x] = ReadSetting(x, doc[k])
      /\ \E run \in [0..n -> CfgKinds] :
           Runs(run, b, n, ReadF(doc)) /\ mergeConfString(b, doc) = run[n]
  BY <1>1, ReadRun
<1>4. PICK run \in [0..n -> CfgKinds] :
        Runs(run, b, n, ReadF(doc)) /\ mergeConfString(b, doc) = run[n]
  BY <1>3
<1> DEFINE G == {k \in 0..n : Tells(run[k], s \o SubSeq(doc, 1, k))}
<1>5. 0 \in G
  <2>1. SubSeq(doc, 1, 0) = <<>>
    BY SubSeqEmpty
  <2>2. s \o <<>> = s
    BY Concats
  <2>3. run[0] = c
    BY <1>2, <1>4 DEF Runs
  <2>4. Tells(run[0], s \o SubSeq(doc, 1, 0))
    BY <2>1, <2>2, <2>3
  <2> QED
    BY <2>4
<1>6. ASSUME NEW k \in 1..n, k - 1 \in G PROVE k \in G
  <2>1. PICK e \in Settings : e = doc[k]
    BY <1>1, ElementOfSeq
  <2>2. PICK t \in Seq(Settings) : t = SubSeq(doc, 1, k - 1)
    <3>1. 1 \in Nat /\ 1 >= 1 /\ k - 1 \in Nat /\ k - 1 <= Len(doc)
      BY <1>1
    <3>2. SubSeq(doc, 1, k - 1) \in Seq(Settings)
      BY <3>1, SliceType
    <3> QED
      BY <3>2
  <2>3. SubSeq(doc, 1, k) = t \o <<e>>
    BY <1>1, <2>1, <2>2, SubSeqRecursiveSecond
  <2>4. PICK u \in Seq(Settings) : u = s \o t
    BY Concats
  <2>5. s \o SubSeq(doc, 1, k) = Append(u, e)
    <3>1. s \o (t \o <<e>>) = Append(s \o t, e)
      BY AppendAfter
    <3> QED
      BY ONLY <2>3, <2>4, <3>1
  <2>6. PICK d \in CfgKinds : d = run[k - 1]
    OBVIOUS
  <2>7. Tells(d, u)
    BY <1>6, <2>2, <2>4, <2>6
  <2>8. Tells(ReadSetting(d, e), Append(u, e))
    BY <2>7, ReadTells
  <2>9. run[k] = ReadSetting(d, e)
    <3>1. run[k] = ReadF(doc)[k][run[k - 1]]
      BY <1>4 DEF Runs
    <3> QED
      BY <1>3, <2>1, <2>6, <3>1
  <2>10. Tells(run[k], s \o SubSeq(doc, 1, k))
    BY ONLY <2>5, <2>8, <2>9
  <2>11. k \in 0..n
    OBVIOUS
  <2> QED
    BY ONLY <2>10, <2>11
<1> HIDE DEF G
<1>7. 0..n \subseteq G
  BY <1>5, <1>6, Climb
<1>8. Tells(run[n], s \o SubSeq(doc, 1, n))
  BY <1>7 DEF G
<1>9. SubSeq(doc, 1, n) = doc
  BY <1>1, SubSeqFull
<1> QED
  BY <1>2, <1>4, <1>8, <1>9

\* A file, or none, and the files of the three places.
ConfFiles == Seq(Settings) \cup {Absent}

LEMMA FileTells ==
  ASSUME NEW s \in Seq(Settings), NEW file \in ConfFiles, NEW c, Tells(c, s)
  PROVE  /\ s \o Said(file) \in Seq(Settings)
         /\ Tells(mergeConfFile(c, file), s \o Said(file))
<1>1. CASE file = Absent
  <2>1. s \o Said(file) = s
    BY <1>1, Concats DEF Said
  <2>2. mergeConfFile(c, file) = c
    BY <1>1 DEF mergeConfFile
  <2> QED
    BY <2>1, <2>2
<1>2. CASE file # Absent
  <2>1. PICK doc \in Seq(Settings) : doc = file
    BY <1>2 DEF ConfFiles
  <2>2. Said(file) = doc /\ mergeConfFile(c, file) = mergeConfString(c, doc)
    BY <1>2, <2>1 DEF Said, mergeConfFile
  <2>3. Tells(mergeConfString(c, doc), s \o doc)
    BY MergeTells
  <2>4. s \o doc \in Seq(Settings)
    BY Concats
  <2> QED
    BY <2>2, <2>3, <2>4
<1> QED
  BY <1>1, <1>2

LEMMA DefaultTells == Tells(DefaultConfig, <<>>)
<1>1. PICK s \in Seq(Settings) : s = <<>>
  BY EmptySeq
<1>2. DOMAIN s = {}
  BY <1>1
<1>3. Accepted(s)
  BY <1>2 DEF Accepted
<1>4. ASSUME NEW key \in Keys PROVE DefaultConfig[key] = Told(s, key)
  <2>1. CASE key \in RuleKeys
    <3>1. DefaultConfig[key] = <<>>
      <4>1. DefaultConfig["allow"] = <<>> /\ DefaultConfig["deny"] = <<>>
        BY DEF DefaultConfig
      <4>2. PICK d : d = DefaultConfig
        OBVIOUS
      <4>3. d["allow"] = <<>> /\ d["deny"] = <<>>
        BY <4>1, <4>2
      <4> QED
        BY ONLY <2>1, <4>2, <4>3 DEF RuleKeys
    <3>2. Texts(s, key) = FlattenSeq(<<>>)
      BY <1>2 DEF Texts
    <3>3. FlattenSeq(<<>>) = <<>>
      BY DEF FlattenSeq
    <3> QED
      BY <2>1, <3>1, <3>2, <3>3 DEF Told
  <2>2. CASE key \notin RuleKeys
    <3>1. InForce(s, key) = <<>>
      BY <1>2 DEF InForce
    <3> QED
      BY <2>2, <3>1 DEF Told
  <2> QED
    BY <2>1, <2>2
<1>5. DefaultConfig \in CfgKinds /\ DefaultConfig.error = ""
  BY DefaultKind
<1> HIDE DEF DefaultConfig
<1>6. Tells(DefaultConfig, s)
  BY <1>3, <1>4, <1>5 DEF Tells
<1> QED
  BY <1>1, <1>6

FilesKind(files) == files.user \in ConfFiles /\ files.bin \in ConfFiles /\ files.local \in ConfFiles

Merged(files, last) ==
  mergeConfFile(mergeConfFile(mergeConfFile(mergeConfFile(DefaultConfig, files.user), files.bin),
                              files.local), last)

LEMMA LayersTell ==
  ASSUME NEW files, FilesKind(files), NEW last \in ConfFiles
  PROVE  /\ AllSettings(files, last) \in Seq(Settings)
         /\ Tells(Merged(files, last), AllSettings(files, last))
<1>0. PICK a \in ConfFiles, b \in ConfFiles, l \in ConfFiles :
        a = files.user /\ b = files.bin /\ l = files.local
  BY DEF FilesKind
<1>1. PICK s0 \in Seq(Settings) : s0 = <<>>
  BY EmptySeq
<1>2. PICK c0 : c0 = DefaultConfig
  OBVIOUS
<1>3. Tells(c0, s0)
  BY <1>1, <1>2, DefaultTells
<1>4. s0 \o Said(a) \in Seq(Settings) /\ Tells(mergeConfFile(c0, a), s0 \o Said(a))
  BY <1>3, FileTells
<1>5. PICK s1 \in Seq(Settings) : s1 = s0 \o Said(a)
  BY <1>4
<1>6. PICK c1 : c1 = mergeConfFile(c0, a)
  OBVIOUS
<1>7. Tells(c1, s1)
  BY <1>4, <1>5, <1>6
<1>8. s1 \o Said(b) \in Seq(Settings) /\ Tells(mergeConfFile(c1, b), s1 \o Said(b))
  BY <1>7, FileTells
<1>9. PICK s2 \in Seq(Settings) : s2 = s1 \o Said(b)
  BY <1>8
<1>10. PICK c2 : c2 = mergeConfFile(c1, b)
  OBVIOUS
<1>11. Tells(c2, s2)
  BY <1>8, <1>9, <1>10
<1>12. s2 \o Said(l) \in Seq(Settings) /\ Tells(mergeConfFile(c2, l), s2 \o Said(l))
  BY <1>11, FileTells
<1>13. PICK s3 \in Seq(Settings) : s3 = s2 \o Said(l)
  BY <1>12
<1>14. PICK c3 : c3 = mergeConfFile(c2, l)
  OBVIOUS
<1>15. Tells(c3, s3)
  BY <1>12, <1>13, <1>14
<1>16. s3 \o Said(last) \in Seq(Settings) /\ Tells(mergeConfFile(c3, last), s3 \o Said(last))
  BY <1>15, FileTells
<1>17. s0 \o Said(a) = Said(a)
  <2>1. Said(a) \in Seq(Settings)
    BY EmptySeq DEF Said, ConfFiles
  <2> QED
    BY <1>1, <2>1, Concats
<1>18. s3 \o Said(last) = AllSettings(files, last)
  BY ONLY <1>0, <1>5, <1>9, <1>13, <1>17 DEF AllSettings
<1>19. mergeConfFile(c3, last) = Merged(files, last)
  BY ONLY <1>0, <1>2, <1>6, <1>10, <1>14 DEF Merged
<1> QED
  BY ONLY <1>16, <1>18, <1>19

LEMMA InForceIs ==
  ASSUME NEW s \in Seq(Settings), NEW key, InForce(s, key) # <<>>
  PROVE  \E i \in DOMAIN s : InForce(s, key) = <<s[i]>> /\ s[i].key = key /\ s[i] \in Settings
<1>1. PICK n \in Nat : n = Len(s) /\ DOMAIN s = 1..n
  BY LenProperties
<1>2. PICK P \in SUBSET (1..n) : P = Places(s, key)
  BY <1>1 DEF Places
<1>3. InForce(s, key) = IF P = {} THEN <<>> ELSE <<s[CHOOSE i \in P : \A j \in P : j <= i]>>
  BY <1>2 DEF InForce, Places
<1>4. P # {}
  BY <1>3
<1>5. \E i \in P : \A j \in P : i >= j
  BY ONLY n \in Nat, P \in SUBSET (1..n), <1>4, LastPlace
<1>6. \E i \in P : \A j \in P : j <= i
  BY <1>5
<1>7. PICK k \in P : k = CHOOSE i \in P : \A j \in P : j <= i
  BY <1>6
<1>8. k \in DOMAIN s /\ s[k].key = key
  BY <1>1, <1>2 DEF Places
<1>9. s[k] \in Settings
  BY <1>1, <1>8, ElementOfSeq
<1>10. InForce(s, key) = <<s[k]>>
  BY <1>3, <1>4, <1>7
<1> QED
  BY <1>8, <1>9, <1>10

\* A number an int can hold is kept.
LEMMA NumberKept ==
  ASSUME NEW s \in Seq(Settings), Accepted(s), NEW key \in NumberKeys, InForce(s, key) # <<>>
  PROVE  InForce(s, key)[1].number < IntLimit
           => ToInt(InForce(s, key)[1].number) = InForce(s, key)[1].number
<1>1. PICK i \in DOMAIN s : InForce(s, key) = <<s[i]>> /\ s[i].key = key /\ s[i] \in Settings
  BY InForceIs
<1>2. PICK e \in Settings : e = s[i]
  BY <1>1
<1>3. ~Rejected(e)
  BY <1>2 DEF Accepted
<1>4. Valid(e)
  BY <1>3, SettingIs
<1>5. PICK m \in Int : m = e.number /\ m >= Smallest[key]
  BY <1>1, <1>2, <1>4 DEF Valid
<1>6. Smallest[key] >= 0 /\ Smallest[key] \in Int
  BY DEF NumberKeys, Smallest
<1>7. PICK low \in Int : low = Smallest[key] /\ low >= 0
  BY <1>6
<1>8. m >= 0 /\ m >= low
  BY <1>5, <1>7
<1>9. m >= 0 /\ m < IntLimit => ToInt(m) = m
  BY ToIntIs
<1>10. InForce(s, key)[1].number = m
  BY <1>1, <1>2, <1>5
<1> QED
  BY <1>7, <1>8, <1>9, <1>10

LEMMA LoadedMeans ==
  ASSUME NEW files, FilesKind(files), NEW last \in ConfFiles, NEW env,
         loadConfig(files, last, env).error = ""
  PROVE  MeansLayers(loadConfig(files, last, env), files, last, env)
<1>1. PICK s \in Seq(Settings) : s = AllSettings(files, last)
  BY LayersTell
<1>2. PICK c : c = Merged(files, last)
  OBVIOUS
<1>3. Tells(c, s)
  BY <1>1, <1>2, LayersTell
<1>4. c \in CfgKinds /\ c \in [CfgKeys -> CfgValues]
  BY <1>3 DEF Tells, CfgKinds
<1>5. PICK d : d = mergeEnv(c, env)
  OBVIOUS
<1>6. loadConfig(files, last, env) = validate(d)
  BY <1>2, <1>5 DEF loadConfig, Merged
<1>7. c.error = ""
  <2> SUFFICES ASSUME c.error # "" PROVE FALSE
    OBVIOUS
  <2>1. d = c
    BY <1>5 DEF mergeEnv
  <2>2. validate(d) = c
    BY <2>1 DEF validate
  <2> QED
    BY <1>6, <2>2
<1>8. /\ "base_url" \in CfgKeys /\ "model" \in CfgKeys /\ "error" \in CfgKeys
      /\ \A key \in Keys : key \in CfgKeys
  BY KeysApart DEF CfgKeys
<1>9. d = [c EXCEPT !["base_url"] = IF env.base_url # "" THEN env.base_url ELSE c["base_url"],
                    !["model"] = IF env.model # "" THEN env.model ELSE c["model"]]
  BY <1>4, <1>5, <1>7, <1>8 DEF mergeEnv
<1>10. /\ DOMAIN d = CfgKeys
       /\ d["base_url"] = IF env.base_url # "" THEN env.base_url ELSE c["base_url"]
       /\ d["model"] = IF env.model # "" THEN env.model ELSE c["model"]
       /\ \A key \in CfgKeys : key # "base_url" /\ key # "model" => d[key] = c[key]
  BY <1>4, <1>8, <1>9
<1>11. d["error"] = ""
  BY <1>7, <1>8, <1>10
<1>12. d["base_url"] # ""
  <2> SUFFICES ASSUME d["base_url"] = "" PROVE FALSE
    OBVIOUS
  <2>1. validate(d) = [d EXCEPT !["error"] = "base_url"]
    BY <1>11 DEF validate
  <2>2. validate(d)["error"] = "base_url"
    BY <1>8, <1>10, <2>1
  <2> QED
    BY <1>6, <2>2
<1>13. loadConfig(files, last, env) = d
  BY <1>6, <1>11, <1>12 DEF validate
<1>14. Accepted(s) /\ \A key \in Keys : c[key] = Told(s, key)
  BY <1>3, <1>7 DEF Tells
<1> DEFINE Text(key) == IF InForce(s, key) = <<>> THEN DefaultConfig[key]
                        ELSE InForce(s, key)[1].text
<1>15. \A key \in TextKeys : c[key] = Text(key)
  BY <1>14, KeysApart DEF Told, Spelled, Keys
<1>16. \A key \in {"system_prompt", "mcp_config"} : d[key] = Text(key)
  BY <1>8, <1>10, <1>15 DEF TextKeys, Keys
<1>17. \A key \in {"base_url", "model"} : d[key] = IF env[key] # "" THEN env[key] ELSE Text(key)
  BY <1>10, <1>15 DEF TextKeys
<1>18. \A key \in Keys \ TextKeys : d[key] = Told(s, key)
  <2>1. "base_url" \in TextKeys /\ "model" \in TextKeys
    BY DEF TextKeys
  <2> QED
    BY <1>8, <1>10, <1>14, <2>1
<1>19. \A key \in BoolKeys : d[key] = IF InForce(s, key) = <<>> THEN DefaultConfig[key]
                                      ELSE InForce(s, key)[1].text \in True
  <2> SUFFICES ASSUME NEW key \in BoolKeys
               PROVE  d[key] = IF InForce(s, key) = <<>> THEN DefaultConfig[key]
                               ELSE InForce(s, key)[1].text \in True
    OBVIOUS
  <2>1. key \in Keys \ TextKeys /\ key \notin RuleKeys
    BY KeysApart DEF Keys
  <2>2. d[key] = Told(s, key)
    BY <1>18, <2>1
  <2> QED
    BY <2>1, <2>2 DEF Told, Spelled
<1>20. \A key \in NumberKeys :
         /\ InForce(s, key) = <<>> => d[key] = DefaultConfig[key]
         /\ InForce(s, key) # <<>> /\ InForce(s, key)[1].number < IntLimit
              => d[key] = InForce(s, key)[1].number
  <2> SUFFICES ASSUME NEW key \in NumberKeys
      PROVE /\ InForce(s, key) = <<>> => d[key] = DefaultConfig[key]
            /\ InForce(s, key) # <<>> /\ InForce(s, key)[1].number < IntLimit
                 => d[key] = InForce(s, key)[1].number
    OBVIOUS
  <2>1. key \in Keys \ TextKeys /\ key \notin RuleKeys /\ key \notin BoolKeys
    BY KeysApart DEF Keys
  <2>2. d[key] = Told(s, key)
    BY <1>18, <2>1
  <2>3. d[key] = IF InForce(s, key) = <<>> THEN DefaultConfig[key]
                 ELSE ToInt(InForce(s, key)[1].number)
    BY <2>1, <2>2 DEF Told, Spelled
  <2>4. InForce(s, key) # <<>> /\ InForce(s, key)[1].number < IntLimit
          => ToInt(InForce(s, key)[1].number) = InForce(s, key)[1].number
    BY <1>14, NumberKept
  <2> QED
    BY <2>3, <2>4
<1>21. \A key \in RuleKeys : d[key] = Texts(s, key)
  BY <1>18, KeysApart DEF Told, Keys
<1>22. Accepted(s)
  BY <1>14
<1>23. d.base_url # ""
  BY <1>12
<1>24. MeansLayers(d, files, last, env)
  BY <1>1, <1>16, <1>17, <1>19, <1>20, <1>21, <1>22, <1>23 DEF MeansLayers
<1> QED
  BY <1>13, <1>24

LEMMA FailedMeansNot ==
  ASSUME NEW files, FilesKind(files), NEW last \in ConfFiles, NEW env,
         loadConfig(files, last, env).error # ""
  PROVE  ~MeansLayers([loadConfig(files, last, env) EXCEPT !.error = ""], files, last, env)
<1>1. PICK s \in Seq(Settings) : s = AllSettings(files, last)
  BY LayersTell
<1>2. PICK c : c = Merged(files, last)
  OBVIOUS
<1>3. Tells(c, s)
  BY <1>1, <1>2, LayersTell
<1>4. c \in [CfgKeys -> CfgValues]
  BY <1>3 DEF Tells, CfgKinds
<1>5. PICK d : d = mergeEnv(c, env)
  OBVIOUS
<1>6. PICK r : r = loadConfig(files, last, env)
  OBVIOUS
<1>7. r = validate(d)
  BY <1>2, <1>5, <1>6 DEF loadConfig, Merged
<1>8. CASE c.error # ""
  <2>1. ~Accepted(s)
    BY <1>3, <1>8 DEF Tells
  <2> QED
    BY <1>1, <2>1 DEF MeansLayers
<1>9. CASE c.error = ""
  <2>1. "base_url" \in CfgKeys /\ "model" \in CfgKeys /\ "error" \in CfgKeys
    BY KeysApart DEF CfgKeys
  <2>2. d = [c EXCEPT !["base_url"] = IF env.base_url # "" THEN env.base_url ELSE c["base_url"],
                      !["model"] = IF env.model # "" THEN env.model ELSE c["model"]]
    BY <1>4, <1>5, <1>9, <2>1 DEF mergeEnv
  <2>3. DOMAIN d = CfgKeys /\ d["error"] = ""
    BY <1>4, <1>9, <2>1, <2>2
  <2>4. d["base_url"] = ""
    BY <1>6, <1>7, <2>3 DEF validate
  <2>5. r = [d EXCEPT !["error"] = "base_url"]
    BY <1>7, <2>3, <2>4 DEF validate
  <2>6. DOMAIN r = CfgKeys /\ r["base_url"] = ""
    <3>1. d = [key \in CfgKeys |-> d[key]]
      BY <1>4, <2>2
    <3> QED
      BY <2>1, <2>4, <2>5, <3>1
  <2>7. [r EXCEPT !.error = ""].base_url = ""
    BY <2>1, <2>6
  <2> QED
    BY <1>6, <2>7 DEF MeansLayers
<1> QED
  BY <1>8, <1>9

\* Of two documents the second's value is in force, if it has one.
LEMMA InForceLast ==
  ASSUME NEW s \in Seq(Settings), NEW t \in Seq(Settings), NEW key, InForce(t, key) # <<>>
  PROVE  InForce(s \o t, key) = InForce(t, key)
<1>1. PICK m \in Nat, n \in Nat : m = Len(s) /\ n = Len(t)
  BY LenProperties
<1>2. PICK u \in Seq(Settings) : u = s \o t
  BY Concats
<1>3. DOMAIN t = 1..n /\ DOMAIN u = 1..(m + n) /\ \A i \in 1..n : u[m + i] = t[i]
  <2>1. DOMAIN t = 1..n /\ Len(u) = m + n /\ DOMAIN u = 1..Len(u)
    BY <1>1, <1>2, ConcatProperties, LenProperties
  <2>2. ASSUME NEW i \in 1..n PROVE u[m + i] = t[i]
    <3>1. m + i \in 1..(Len(s) + Len(t)) /\ ~(m + i <= Len(s)) /\ m + i - Len(s) = i
      BY <1>1
    <3> QED
      BY <1>2, <3>1, ConcatProperties
  <2> QED
    BY <2>1, <2>2
<1>4. PICK P \in SUBSET (1..n) : P = Places(t, key)
  BY <1>3 DEF Places
<1>5. PICK Q \in SUBSET (1..(m + n)) : Q = Places(u, key)
  BY <1>3 DEF Places
<1>6. InForce(t, key) = IF P = {} THEN <<>> ELSE <<t[CHOOSE i \in P : \A j \in P : j <= i]>>
  BY <1>4 DEF InForce, Places
<1>7. InForce(u, key) = IF Q = {} THEN <<>> ELSE <<u[CHOOSE i \in Q : \A j \in Q : j <= i]>>
  BY <1>5 DEF InForce, Places
<1>8. P # {}
  BY <1>6
<1>9. \E i \in P : \A j \in P : i >= j
  BY ONLY n \in Nat, P \in SUBSET (1..n), <1>8, LastPlace
<1>10. \E i \in P : \A j \in P : j <= i
  BY <1>9
<1>11. PICK k \in P : k = CHOOSE i \in P : \A j \in P : j <= i
  BY <1>10
<1>12. k \in 1..n /\ \A j \in P : j <= k
  BY <1>10, <1>11
<1>13. \A i \in 1..n : i \in P <=> m + i \in Q
  <2> SUFFICES ASSUME NEW i \in 1..n PROVE i \in P <=> m + i \in Q
    OBVIOUS
  <2>1. m + i \in 1..(m + n) /\ u[m + i] = t[i]
    BY <1>3
  <2>2. i \in P <=> t[i].key = key
    BY <1>3, <1>4 DEF Places
  <2>3. m + i \in Q <=> u[m + i].key = key
    BY <1>3, <1>5, <2>1 DEF Places
  <2> QED
    BY <2>1, <2>2, <2>3
<1>14. ASSUME NEW q \in Q PROVE q <= m + k
  <2>1. q \in 1..(m + n)
    BY <1>5
  <2>2. CASE q <= m
    BY <1>12, <2>1, <2>2
  <2>3. CASE ~(q <= m)
    <3>1. PICK i \in 1..n : q = m + i
      <4>1. q - m \in 1..n /\ q = m + (q - m)
        BY <2>1, <2>3
      <4> QED
        BY <4>1
    <3>2. i \in P
      BY <1>13, <3>1
    <3>3. i <= k
      BY <1>12, <3>2
    <3> QED
      BY <1>12, <3>1, <3>3
  <2> QED
    BY <2>2, <2>3
<1>15. m + k \in Q
  BY <1>12, <1>13
<1>16. (CHOOSE i \in Q : \A j \in Q : j <= i) = m + k
  <2>1. \E i \in Q : \A j \in Q : j <= i
    BY <1>14, <1>15
  <2>2. PICK c \in Q : c = CHOOSE i \in Q : \A j \in Q : j <= i
    BY <2>1
  <2>3. \A j \in Q : j <= c
    BY <2>1, <2>2
  <2>4. m + k <= c /\ c <= m + k
    BY <1>14, <1>15, <2>3
  <2>5. c \in 1..(m + n)
    BY <1>5
  <2>6. c = m + k
    BY <1>12, <2>4, <2>5
  <2> QED
    BY <2>2, <2>6
<1>17. InForce(u, key) = <<u[m + k]>>
  BY <1>7, <1>15, <1>16
<1>18. InForce(t, key) = <<t[k]>>
  BY <1>6, <1>8, <1>11
<1>19. u[m + k] = t[k]
  BY <1>3, <1>12
<1> QED
  BY <1>2, <1>17, <1>18, <1>19

\* A configuration of which nothing is rejected and that says where the server is.
LEMMA AcceptedLoads ==
  ASSUME NEW files, FilesKind(files), NEW last \in ConfFiles, NEW env,
         Accepted(AllSettings(files, last)),
         InForce(AllSettings(files, last), "base_url") # <<>>,
         InForce(AllSettings(files, last), "base_url")[1].text # ""
  PROVE  loadConfig(files, last, env).error = ""
<1>1. PICK s \in Seq(Settings) : s = AllSettings(files, last)
  BY LayersTell
<1>2. PICK c : c = Merged(files, last)
  OBVIOUS
<1>3. Tells(c, s)
  BY <1>1, <1>2, LayersTell
<1>4. c \in [CfgKeys -> CfgValues]
  BY <1>3 DEF Tells, CfgKinds
<1>5. PICK d : d = mergeEnv(c, env)
  OBVIOUS
<1>6. loadConfig(files, last, env) = validate(d)
  BY <1>2, <1>5 DEF loadConfig, Merged
<1>7. c.error = "" /\ \A key \in Keys : c[key] = Told(s, key)
  BY <1>1, <1>3 DEF Tells
<1>8. "base_url" \in CfgKeys /\ "model" \in CfgKeys /\ "error" \in CfgKeys
  BY KeysApart DEF CfgKeys
<1>9. c["base_url"] # ""
  <2>1. "base_url" \in Keys /\ "base_url" \in TextKeys /\ "base_url" \notin RuleKeys
    BY KeysApart DEF TextKeys
  <2>2. c["base_url"] = InForce(s, "base_url")[1].text
    BY <1>1, <1>7, <2>1, KeysApart DEF Told, Spelled
  <2> QED
    BY <1>1, <2>2
<1>10. d = [c EXCEPT !["base_url"] = IF env.base_url # "" THEN env.base_url ELSE c["base_url"],
                     !["model"] = IF env.model # "" THEN env.model ELSE c["model"]]
  BY <1>4, <1>5, <1>7, <1>8 DEF mergeEnv
<1>11. d["error"] = "" /\ d["base_url"] # ""
  BY <1>4, <1>7, <1>8, <1>9, <1>10
<1>12. validate(d) = d
  BY <1>11 DEF validate
<1> QED
  BY <1>6, <1>11, <1>12

-----------------------------------------------------------------------------
(* Skills.                                                                  *)

\* The files among P that carry a name, and the first of some.
Bearing(dirs, P, word) ==
  {f \in P : SkillAt(dirs, f).body # <<>> /\ lower(SkillAt(dirs, f).name) = lower(word)}

IsFirst(h, S) == h \in S /\ \A g \in S \ {h} : Before(h, g)

\* The files read so far: k of the d-th directory.
Upto(dirs, d, k) == {f \in Files(dirs) : f[1] < d \/ (f[1] = d /\ f[2] <= k)}

SkillKinds(dirs) == {SkillAt(dirs, f) : f \in Files(dirs)}

\* reg holds the first of every name among the files P.
Answers(dirs, reg, P, word) ==
  \/ Bearing(dirs, P, word) = {} /\ find(reg, word) = <<>>
  \/ \E h : IsFirst(h, Bearing(dirs, P, word)) /\ find(reg, word) = <<SkillAt(dirs, h)>>

Registered(dirs, reg, P) ==
  /\ reg \in Seq(SkillKinds(dirs))
  /\ \A word : Answers(dirs, reg, P, word)

LEMMA FindIs ==
  ASSUME NEW K, NEW reg \in Seq(K), NEW e \in K, NEW word
  PROVE  find(Append(reg, e), word) =
           IF find(reg, word) # <<>> THEN find(reg, word)
           ELSE IF lower(e.name) = lower(word) THEN <<e>> ELSE <<>>
<1>1. PICK n \in Nat : n = Len(reg) /\ DOMAIN reg = 1..n
  BY LenProperties
<1>2. PICK r \in Seq(K) : r = Append(reg, e)
  BY AppendProperties
<1>3. DOMAIN r = 1..(n + 1) /\ r[n + 1] = e /\ \A i \in 1..n : r[i] = reg[i]
  BY <1>1, <1>2, AppendProperties, LenProperties
<1>4. PICK P \in SUBSET (1..n) : P = {i \in DOMAIN reg : lower(reg[i].name) = lower(word)}
  BY <1>1
<1>5. PICK R \in SUBSET (1..(n + 1)) : R = {i \in DOMAIN r : lower(r[i].name) = lower(word)}
  BY <1>3
<1>6. find(reg, word) = IF P = {} THEN <<>> ELSE <<reg[Min(P)]>>
  BY <1>4 DEF find
<1>7. find(r, word) = IF R = {} THEN <<>> ELSE <<r[Min(R)]>>
  BY <1>5 DEF find
<1>8. \A i \in 1..(n + 1) : i = n + 1 \/ i \in 1..n
  OBVIOUS
<1>9. n + 1 \in 1..(n + 1) /\ \A i \in 1..n : i \in 1..(n + 1) /\ i # n + 1
  OBVIOUS
<1>10. \A i \in 1..n : i \in R <=> i \in P
  BY <1>1, <1>3, <1>4, <1>5, <1>9
<1>11. n + 1 \in R <=> lower(e.name) = lower(word)
  BY <1>3, <1>5, <1>9
<1>12. CASE P # {}
  <2>1. Min(P) \in P /\ \A j \in P : Min(P) <= j
    BY ONLY n \in Nat, P \in SUBSET (1..n), <1>12, FirstPlace
  <2>2. PICK k \in 1..n : k = Min(P) /\ k \in P
    BY <2>1
  <2>3. k \in R /\ R # {}
    BY <1>10, <2>2
  <2>4. PICK m \in Nat : m = n + 1
    OBVIOUS
  <2>5. R \in SUBSET (1..m)
    BY <2>4
  <2>6. Min(R) \in R /\ \A j \in R : Min(R) <= j
    BY ONLY m \in Nat, <2>5, <2>3, FirstPlace
  <2>7. PICK l \in 1..(n + 1) : l = Min(R) /\ l \in R /\ l <= k
    BY <2>3, <2>6
  <2>8. l \in 1..n
    BY <2>7
  <2>9. l \in P /\ k <= l
    BY <1>10, <2>1, <2>2, <2>7, <2>8
  <2>10. l = k
    BY <2>7, <2>9
  <2>11. find(r, word) = <<reg[k]>> /\ find(reg, word) = <<reg[k]>>
    BY <1>3, <1>6, <1>7, <1>12, <2>2, <2>3, <2>7, <2>10
  <2> QED
    BY <1>2, <2>11
<1>13. CASE P = {}
  <2>1. find(reg, word) = <<>>
    BY <1>6, <1>13
  <2>2. CASE lower(e.name) = lower(word)
    <3>1. n + 1 \in R /\ \A i \in R : i = n + 1
      BY <1>8, <1>10, <1>11, <1>13, <2>2
    <3>2. R = {n + 1}
      BY <3>1
    <3>3. Min(R) = n + 1
      BY <3>2 DEF Min
    <3>4. find(r, word) = <<e>>
      BY <1>3, <1>7, <3>1, <3>3
    <3> QED
      BY <1>2, <2>1, <2>2, <3>4
  <2>3. CASE lower(e.name) # lower(word)
    <3>1. R = {}
      BY <1>8, <1>10, <1>11, <1>13, <2>3
    <3>2. find(r, word) = <<>>
      BY <1>7, <3>1
    <3> QED
      BY <1>2, <2>1, <2>3, <3>2
  <2> QED
    BY <2>2, <2>3
<1> QED
  BY <1>12, <1>13

LEMMA FileIs ==
  ASSUME NEW dirs, NEW f \in Files(dirs)
  PROVE  /\ f = <<f[1], f[2]>> /\ f[1] \in {1, 2} /\ f[2] \in 1..Len(Stems) /\ f[2] \in Nat
         /\ Stems[f[2]] \in DOMAIN dirs[skillDirs[f[1]]]
         /\ SkillAt(dirs, f) \in SkillKinds(dirs)
<1>1. Len(skillDirs) = 2
  BY DEF skillDirs
<1>2. PICK n \in Nat : n = Len(Stems)
  BY StemsAssumption, LenProperties
<1>3. f \in (1..2) \X (1..n) /\ Stems[f[2]] \in DOMAIN dirs[skillDirs[f[1]]]
  BY <1>1, <1>2 DEF Files
<1> QED
  BY <1>2, <1>3 DEF SkillKinds

LEMMA FileThere ==
  ASSUME NEW dirs, NEW d \in {1, 2}, NEW k \in 1..Len(Stems),
         Stems[k] \in DOMAIN dirs[skillDirs[d]]
  PROVE  <<d, k>> \in Files(dirs)
<1>1. Len(skillDirs) = 2
  BY DEF skillDirs
<1> QED
  BY <1>1 DEF Files

LEMMA UptoMore ==
  ASSUME NEW dirs, NEW d \in {1, 2}, NEW k \in 1..Len(Stems)
  PROVE  /\ Upto(dirs, d, k) =
              IF Stems[k] \in DOMAIN dirs[skillDirs[d]]
              THEN Upto(dirs, d, k - 1) \cup {<<d, k>>} ELSE Upto(dirs, d, k - 1)
         /\ \A g \in Upto(dirs, d, k - 1) : Before(g, <<d, k>>)
<1>0. k \in Nat
  BY StemsAssumption, LenProperties
<1>1. ASSUME NEW f \in Files(dirs), f \in Upto(dirs, d, k)
      PROVE  \/ f \in Upto(dirs, d, k - 1)
             \/ f = <<d, k>> /\ Stems[k] \in DOMAIN dirs[skillDirs[d]]
  <2>1. PICK a \in {1, 2}, b \in Nat : f[1] = a /\ f[2] = b /\ f = <<a, b>>
    BY FileIs
  <2>2. a < d \/ (a = d /\ b <= k)
    BY <1>1, <2>1 DEF Upto
  <2>3. CASE a < d \/ (a = d /\ b <= k - 1)
    BY <2>1, <2>3 DEF Upto
  <2>4. CASE a = d /\ b = k
    BY <2>1, <2>4, FileIs
  <2> QED
    BY <1>0, <2>2, <2>3, <2>4
<1>2. ASSUME NEW f \in Upto(dirs, d, k - 1) PROVE f \in Upto(dirs, d, k) /\ Before(f, <<d, k>>)
  <2>1. f \in Files(dirs)
    BY DEF Upto
  <2>2. PICK a \in {1, 2}, b \in Nat : f[1] = a /\ f[2] = b
    BY <2>1, FileIs
  <2>3. a < d \/ (a = d /\ b <= k - 1)
    BY <2>2 DEF Upto
  <2>4. a < d \/ (a = d /\ b <= k /\ b < k)
    BY <1>0, <2>3
  <2> QED
    BY <2>1, <2>2, <2>4 DEF Upto, Before
<1>3. Stems[k] \in DOMAIN dirs[skillDirs[d]] => <<d, k>> \in Upto(dirs, d, k)
  BY <1>0, FileThere DEF Upto
<1>4. \A f \in Upto(dirs, d, k) : f \in Files(dirs)
  BY DEF Upto
<1> QED
  BY <1>1, <1>2, <1>3, <1>4

LEMMA UptoNone ==
  ASSUME NEW dirs
  PROVE  Upto(dirs, 1, 0) = {} /\ Upto(dirs, 2, 0) = Upto(dirs, 1, Len(Stems))
         /\ Upto(dirs, 2, Len(Stems)) = Files(dirs)
<1>0. PICK n \in Nat : n = Len(Stems)
  BY StemsAssumption, LenProperties
<1>1. ASSUME NEW f \in Files(dirs)
      PROVE  /\ f \notin Upto(dirs, 1, 0)
             /\ f \in Upto(dirs, 2, 0) <=> f \in Upto(dirs, 1, n)
             /\ f \in Upto(dirs, 2, n)
  <2>1. PICK a \in {1, 2}, b \in 1..n : f[1] = a /\ f[2] = b
    BY <1>0, FileIs
  <2> QED
    BY <2>1 DEF Upto
<1>2. \A d, k : \A f \in Upto(dirs, d, k) : f \in Files(dirs)
  BY DEF Upto
<1> QED
  BY <1>0, <1>1, <1>2

\* The next file.
LEMMA LoadRegisters ==
  ASSUME NEW dirs, NEW d \in {1, 2}, NEW k \in 1..Len(Stems), NEW reg,
         Registered(dirs, reg, Upto(dirs, d, k - 1))
  PROVE  Registered(dirs, LoadFile(reg, dirs[skillDirs[d]], Stems[k]), Upto(dirs, d, k))
<1>1. PICK dir : dir = dirs[skillDirs[d]]
  OBVIOUS
<1>2. PICK stem : stem = Stems[k]
  OBVIOUS
<1>3. PICK P : P = Upto(dirs, d, k - 1)
  OBVIOUS
<1>4. PICK Q : Q = Upto(dirs, d, k)
  OBVIOUS
<1>5. /\ Q = IF stem \in DOMAIN dir THEN P \cup {<<d, k>>} ELSE P
      /\ \A g \in P : Before(g, <<d, k>>)
  BY <1>1, <1>2, <1>3, <1>4, UptoMore
<1>6. reg \in Seq(SkillKinds(dirs)) /\ \A word : Answers(dirs, reg, P, word)
  BY <1>3 DEF Registered
<1>7. CASE stem \notin DOMAIN dir
  <2>1. LoadFile(reg, dir, stem) = reg /\ Q = P
    BY <1>5, <1>7 DEF LoadFile
  <2> QED
    BY <1>1, <1>2, <1>3, <1>4, <2>1
<1>8. CASE stem \in DOMAIN dir
  <2>1. PICK f : f = <<d, k>>
    OBVIOUS
  <2>2. f \in Files(dirs) /\ f[1] = d /\ f[2] = k
    BY <1>1, <1>2, <1>8, <2>1, FileThere
  <2>3. PICK sk \in SkillKinds(dirs) : sk = SkillAt(dirs, f)
    BY <2>2, FileIs
  <2>4. sk = SkillOf(dir, stem)
    BY <1>1, <1>2, <2>2, <2>3 DEF SkillAt
  <2>5. Q = P \cup {f} /\ \A g \in P : Before(g, f)
    BY <1>5, <1>8, <2>1
  <2>6. \A word : Bearing(dirs, Q, word) =
          IF sk.body # <<>> /\ lower(sk.name) = lower(word)
          THEN Bearing(dirs, P, word) \cup {f} ELSE Bearing(dirs, P, word)
    BY <2>3, <2>5 DEF Bearing
  <2>7. \A word : Bearing(dirs, P, word) \subseteq P
    BY DEF Bearing
  <2>8. PICK new : new = LoadFile(reg, dir, stem)
    OBVIOUS
  <2>9. new = IF sk.body = <<>> THEN reg
              ELSE IF find(reg, sk.name) # <<>> THEN reg ELSE Append(reg, sk)
    BY <1>8, <2>4, <2>8 DEF LoadFile, add
  <2>10. new \in Seq(SkillKinds(dirs))
    BY <1>6, <2>9, AppendProperties
  <2>11. ASSUME NEW word PROVE Answers(dirs, new, Q, word)
    <3>1. PICK A : A = Bearing(dirs, P, word)
      OBVIOUS
    <3>2. PICK B : B = Bearing(dirs, Q, word)
      OBVIOUS
    <3>3. B = IF sk.body # <<>> /\ lower(sk.name) = lower(word) THEN A \cup {f} ELSE A
      BY <2>6, <3>1, <3>2
    <3>4. \A g \in A : Before(g, f)
      BY <2>5, <2>7, <3>1
    <3>5. \/ A = {} /\ find(reg, word) = <<>>
          \/ \E h : IsFirst(h, A) /\ find(reg, word) = <<SkillAt(dirs, h)>>
      BY <1>6, <3>1 DEF Answers
    <3>6. CASE ~(sk.body # <<>> /\ lower(sk.name) = lower(word))
      <4>1. B = A
        BY <3>3, <3>6
      <4>2. find(new, word) = find(reg, word)
        <5>1. CASE new = reg
          BY <5>1
        <5>2. CASE new # reg
          <6>1. sk.body # <<>> /\ new = Append(reg, sk)
            BY <2>9, <5>2
          <6>2. find(Append(reg, sk), word) =
                  IF find(reg, word) # <<>> THEN find(reg, word)
                  ELSE IF lower(sk.name) = lower(word) THEN <<sk>> ELSE <<>>
            BY <1>6, FindIs
          <6> QED
            BY <3>6, <6>1, <6>2
        <5> QED
          BY <5>1, <5>2
      <4> QED
        BY <3>2, <3>5, <4>1, <4>2 DEF Answers
    <3>7. CASE sk.body # <<>> /\ lower(sk.name) = lower(word)
      <4>0. B = A \cup {f}
        BY <3>3, <3>7
      <4>1. find(reg, sk.name) = find(reg, word)
        BY <3>7 DEF find
      <4>2. CASE A = {} /\ find(reg, word) = <<>>
        <5>1. new = Append(reg, sk)
          BY <2>9, <3>7, <4>1, <4>2
        <5>2. find(Append(reg, sk), word) =
                IF find(reg, word) # <<>> THEN find(reg, word)
                ELSE IF lower(sk.name) = lower(word) THEN <<sk>> ELSE <<>>
          BY <1>6, FindIs
        <5>3. find(new, word) = <<SkillAt(dirs, f)>>
          BY <2>3, <3>7, <4>2, <5>1, <5>2
        <5>4. IsFirst(f, B)
          BY <4>0, <4>2 DEF IsFirst
        <5> QED
          BY <3>2, <5>3, <5>4 DEF Answers
      <4>3. ASSUME NEW h, IsFirst(h, A), find(reg, word) = <<SkillAt(dirs, h)>>
            PROVE  Answers(dirs, new, Q, word)
        <5>1. <<SkillAt(dirs, h)>> # <<>>
          OBVIOUS
        <5>2. new = reg
          BY <2>9, <3>7, <4>1, <4>3, <5>1
        <5>3. IsFirst(h, B)
          BY <3>4, <4>0, <4>3 DEF IsFirst
        <5> QED
          BY <3>2, <4>3, <5>2, <5>3 DEF Answers
      <4> QED
        BY <3>5, <4>2, <4>3
    <3> QED
      BY <3>6, <3>7
  <2>12. Registered(dirs, new, Q)
    BY <2>10, <2>11 DEF Registered
  <2> QED
    BY <1>1, <1>2, <1>4, <2>8, <2>12
<1> QED
  BY <1>7, <1>8

LEMMA LoadKind ==
  ASSUME NEW dirs, NEW d \in {1, 2}, NEW k \in 1..Len(Stems), NEW reg \in Seq(SkillKinds(dirs))
  PROVE  LoadFile(reg, dirs[skillDirs[d]], Stems[k]) \in Seq(SkillKinds(dirs))
<1>1. PICK dir : dir = dirs[skillDirs[d]]
  OBVIOUS
<1>2. PICK stem : stem = Stems[k]
  OBVIOUS
<1>3. CASE stem \notin DOMAIN dir
  BY <1>1, <1>2, <1>3 DEF LoadFile
<1>4. CASE stem \in DOMAIN dir
  <2>1. PICK f : f = <<d, k>>
    OBVIOUS
  <2>2. f \in Files(dirs) /\ f[1] = d /\ f[2] = k
    BY <1>1, <1>2, <1>4, <2>1, FileThere
  <2>3. PICK sk \in SkillKinds(dirs) : sk = SkillAt(dirs, f)
    BY <2>2, FileIs
  <2>4. sk = SkillOf(dir, stem)
    BY <1>1, <1>2, <2>2, <2>3 DEF SkillAt
  <2>5. LoadFile(reg, dir, stem) =
          IF sk.body = <<>> THEN reg ELSE IF find(reg, sk.name) # <<>> THEN reg ELSE Append(reg, sk)
    BY <1>4, <2>4 DEF LoadFile, add
  <2>6. Append(reg, sk) \in Seq(SkillKinds(dirs))
    BY AppendProperties
  <2> QED
    BY <1>1, <1>2, <2>5, <2>6
<1> QED
  BY <1>3, <1>4

\* Reading a directory goes from file to file.
DirRuns(dirs, d, n, base) ==
  \E run \in [0..n -> Seq(SkillKinds(dirs))] :
    /\ run[0] = base /\ run[n] = loadDir(base, dirs[skillDirs[d]])
    /\ \A k \in 1..n : run[k] = LoadFile(run[k - 1], dirs[skillDirs[d]], Stems[k])

LEMMA DirRun ==
  ASSUME NEW dirs, NEW d \in {1, 2}, NEW n \in Nat, n = Len(Stems),
         NEW base \in Seq(SkillKinds(dirs))
  PROVE  DirRuns(dirs, d, n, base)
<1>1. PICK U : U = Seq(SkillKinds(dirs))
  OBVIOUS
<1>2. PICK q : q = Stems
  OBVIOUS
<1>3. PICK dir : dir = dirs[skillDirs[d]]
  OBVIOUS
<1>4. DOMAIN q = 1..n
  BY <1>2, StemsAssumption, LenProperties
<1> DEFINE Load(reg, stem) == LoadFile(reg, dir, stem)
<1>5. \A k \in 1..n : \A reg \in U : Load(reg, q[k]) \in U
  BY <1>1, <1>2, <1>3, LoadKind
<1>6. loadDir(base, dir) = FoldLeft(Load, base, q)
  BY <1>2 DEF loadDir
<1> HIDE DEF Load
<1>7. [k \in 1..n |-> [reg \in U |-> Load(reg, q[k])]] \in [1..n -> [U -> U]]
  BY <1>5
<1>8. PICK F \in [1..n -> [U -> U]] : F = [k \in 1..n |-> [reg \in U |-> Load(reg, q[k])]]
  BY <1>7
<1>9. \A k \in 1..n, reg \in U : F[k][reg] = Load(reg, q[k])
  BY <1>8
<1>10. base \in U
  BY <1>1
<1>11. PICK g \in [SUBSET (1..n) -> U] : Folds(g, base, n, F)
  BY <1>10, FoldExists
<1> DEFINE Eq(h) == h = [s \in SUBSET (1..n) |-> IF s = {} THEN base
                         ELSE Load(h[s \ {Max(s)}], q[Max(s)])]
           fold == CHOOSE h : Eq(h)
<1>12. ASSUME NEW s \in SUBSET (1..n), s # {} PROVE Max(s) \in 1..n
  <2>1. \E i \in s : \A j \in s : i >= j
    BY ONLY <1>12, n \in Nat, LastPlace
  <2> QED
    BY <2>1 DEF Max
<1>13. Eq(g)
  <2> SUFFICES ASSUME NEW s \in SUBSET (1..n), s # {}
               PROVE  F[Max(s)][g[s \ {Max(s)}]] = Load(g[s \ {Max(s)}], q[Max(s)])
    BY <1>11 DEF Folds
  <2>1. g[s \ {Max(s)}] \in U
    OBVIOUS
  <2> QED
    BY <1>9, <1>12, <2>1
<1>14. Eq(fold)
  <2> HIDE DEF Eq
  <2> QED
    BY <1>13
<1>15. FoldLeft(Load, base, q) = fold[1..n]
  BY <1>4 DEF FoldLeft, MapThenFoldSet
<1> HIDE DEF fold
<1>16. fold[{}] = base
  BY <1>14
<1>17. ASSUME NEW s \in SUBSET (1..n), s # {}, fold[s \ {Max(s)}] \in U
       PROVE  fold[s] = F[Max(s)][fold[s \ {Max(s)}]]
  <2>1. fold[s] = Load(fold[s \ {Max(s)}], q[Max(s)])
    BY <1>14, <1>17
  <2>2. PICK k \in 1..n : k = Max(s)
    BY <1>12, <1>17
  <2>3. PICK v \in U : v = fold[s \ {Max(s)}]
    BY <1>17
  <2> QED
    BY <1>9, <2>1, <2>2, <2>3
<1>18. PICK run \in [0..n -> U] : Runs(run, base, n, F) /\ run[n] = fold[1..n]
  <2>1. FoldChosen(fold, U, base, n, F)
    BY <1>16, <1>17 DEF FoldChosen
  <2>2. PICK f : f = fold
    OBVIOUS
  <2>3. FoldChosen(f, U, base, n, F)
    BY <2>1, <2>2
  <2> HIDE DEF Eq
  <2>4. FoldRuns(f, U, base, n, F)
    BY <1>10, <2>3, FoldOf
  <2> QED
    BY <2>2, <2>4 DEF FoldRuns
<1>19. run[0] = base /\ run[n] = loadDir(base, dir)
  BY <1>6, <1>15, <1>18 DEF Runs
<1>20. ASSUME NEW k \in 1..n PROVE run[k] = LoadFile(run[k - 1], dir, Stems[k])
  <2>1. run[k] = F[k][run[k - 1]]
    BY <1>18 DEF Runs
  <2>2. PICK v \in U : v = run[k - 1]
    OBVIOUS
  <2>3. run[k] = Load(v, q[k])
    BY <1>9, <2>1, <2>2
  <2> QED
    BY <1>2, <2>2, <2>3 DEF Load
<1> QED
  BY <1>1, <1>3, <1>19, <1>20 DEF DirRuns

\* A directory read after those before it.
LEMMA DirRegisters ==
  ASSUME NEW dirs, NEW d \in {1, 2}, NEW base, Registered(dirs, base, Upto(dirs, d, 0))
  PROVE  Registered(dirs, loadDir(base, dirs[skillDirs[d]]), Upto(dirs, d, Len(Stems)))
<1>1. PICK n \in Nat : n = Len(Stems)
  BY StemsAssumption, LenProperties
<1>2. PICK b \in Seq(SkillKinds(dirs)) : b = base
  BY DEF Registered
<1>3. PICK run \in [0..n -> Seq(SkillKinds(dirs))] :
        /\ run[0] = b /\ run[n] = loadDir(b, dirs[skillDirs[d]])
        /\ \A k \in 1..n : run[k] = LoadFile(run[k - 1], dirs[skillDirs[d]], Stems[k])
  <2>1. DirRuns(dirs, d, n, b)
    BY <1>1, DirRun
  <2> QED
    BY <2>1 DEF DirRuns
<1> DEFINE G == {k \in 0..n : Registered(dirs, run[k], Upto(dirs, d, k))}
<1>4. 0 \in G
  BY <1>2, <1>3
<1>5. ASSUME NEW k \in 1..n, k - 1 \in G PROVE k \in G
  <2>1. PICK r : r = run[k - 1]
    OBVIOUS
  <2>2. Registered(dirs, r, Upto(dirs, d, k - 1))
    BY <1>5, <2>1
  <2>3. k \in 1..Len(Stems)
    BY <1>1
  <2>4. Registered(dirs, LoadFile(r, dirs[skillDirs[d]], Stems[k]), Upto(dirs, d, k))
    BY <2>2, <2>3, LoadRegisters
  <2>5. run[k] = LoadFile(r, dirs[skillDirs[d]], Stems[k])
    BY <1>3, <2>1
  <2>6. k \in 0..n
    OBVIOUS
  <2> QED
    BY <2>4, <2>5, <2>6
<1> HIDE DEF G
<1>6. 0..n \subseteq G
  BY <1>4, <1>5, Climb
<1>7. Registered(dirs, run[n], Upto(dirs, d, n))
  BY <1>6 DEF G
<1> QED
  BY <1>1, <1>2, <1>3, <1>7

LEMMA SkillsRegister ==
  ASSUME NEW dirs
  PROVE  Registered(dirs, loadSkills(dirs), Files(dirs))
<1>1. /\ Upto(dirs, 1, 0) = {} /\ Upto(dirs, 2, 0) = Upto(dirs, 1, Len(Stems))
      /\ Upto(dirs, 2, Len(Stems)) = Files(dirs)
  BY UptoNone
<1>2. Registered(dirs, <<>>, Upto(dirs, 1, 0))
  <2>1. \A word : find(<<>>, word) = <<>>
    BY DEF find
  <2>2. \A word : Bearing(dirs, {}, word) = {}
    BY DEF Bearing
  <2>3. <<>> \in Seq(SkillKinds(dirs))
    BY EmptySeq
  <2> QED
    BY <1>1, <2>1, <2>2, <2>3 DEF Registered, Answers
<1>3. PICK first : first = loadDir(<<>>, dirs[skillDirs[1]])
  OBVIOUS
<1>4. Registered(dirs, first, Upto(dirs, 1, Len(Stems)))
  BY <1>2, <1>3, DirRegisters
<1>5. Registered(dirs, first, Upto(dirs, 2, 0))
  BY <1>1, <1>4
<1>6. Registered(dirs, loadDir(first, dirs[skillDirs[2]]), Upto(dirs, 2, Len(Stems)))
  BY <1>5, DirRegisters
<1> QED
  BY <1>1, <1>3, <1>6 DEF loadSkills

\* There is but one first file of a name.
LEMMA FirstIsOne ==
  ASSUME NEW dirs, NEW S \in SUBSET Files(dirs), NEW h, IsFirst(h, S)
  PROVE  (CHOOSE f \in S : \A g \in S \ {f} : Before(f, g)) = h
<1>1. h \in S /\ \A g \in S \ {h} : Before(h, g)
  BY DEF IsFirst
<1>2. ASSUME NEW f \in S, \A g \in S \ {f} : Before(f, g), f # h PROVE FALSE
  <2>1. Before(f, h) /\ Before(h, f)
    BY <1>1, <1>2
  <2>2. PICK a \in {1, 2}, b \in Nat : f[1] = a /\ f[2] = b
    BY FileIs
  <2>3. PICK c \in {1, 2}, e \in Nat : h[1] = c /\ h[2] = e
    BY <1>1, FileIs
  <2>4. (a < c \/ (a = c /\ b < e)) /\ (c < a \/ (c = a /\ e < b))
    BY <2>1, <2>2, <2>3 DEF Before
  <2> QED
    BY <2>4
<1> QED
  BY <1>1, <1>2

\* Skills, once loaded, mean the first of the files that carry their names.
LEMMA LoadedSkillsMean ==
  ASSUME NEW dirs, \A word \in Words(dirs) : lower(lower(word)) = lower(word)
  PROVE  MeansFiles(loadSkills(dirs), dirs)
<1>1. PICK reg : reg = loadSkills(dirs)
  OBVIOUS
<1>2. \A word : Answers(dirs, reg, Files(dirs), word)
  BY <1>1, SkillsRegister DEF Registered
<1>3. SUFFICES ASSUME NEW word \in Words(dirs)
               PROVE  RunWord(reg, word) =
                        IF lower(word) \in BuiltInWords \/ Named(dirs, word) = {} THEN <<>>
                        ELSE SkillAt(dirs, CHOOSE f \in Named(dirs, word) :
                                             \A g \in Named(dirs, word) \ {f} : Before(f, g)).body
  BY <1>1 DEF MeansFiles
<1>4. find(reg, lower(word)) = find(reg, word)
  <2>1. lower(lower(word)) = lower(word)
    OBVIOUS
  <2> QED
    BY <2>1 DEF find
<1>5. PICK S \in SUBSET Files(dirs) : S = Named(dirs, word)
  BY DEF Named
<1>6. Bearing(dirs, Files(dirs), word) = S
  BY <1>5 DEF Bearing, Named
<1>7. \/ S = {} /\ find(reg, word) = <<>>
      \/ \E h : IsFirst(h, S) /\ find(reg, word) = <<SkillAt(dirs, h)>>
  BY <1>2, <1>6 DEF Answers
<1>8. CASE S = {} /\ find(reg, word) = <<>>
  <2>1. RunWord(reg, word) = <<>>
    BY <1>4, <1>8 DEF RunWord
  <2> QED
    BY <1>5, <1>8, <2>1
<1>9. ASSUME NEW h, IsFirst(h, S), find(reg, word) = <<SkillAt(dirs, h)>>
      PROVE  RunWord(reg, word) =
               IF lower(word) \in BuiltInWords \/ S = {} THEN <<>>
               ELSE SkillAt(dirs, CHOOSE f \in S : \A g \in S \ {f} : Before(f, g)).body
  <2>1. (CHOOSE f \in S : \A g \in S \ {f} : Before(f, g)) = h
    BY <1>9, FirstIsOne
  <2>2. S # {}
    BY <1>9 DEF IsFirst
  <2>3. PICK skill : skill = SkillAt(dirs, h)
    OBVIOUS
  <2>4. find(reg, lower(word)) = <<skill>> /\ <<skill>> # <<>> /\ <<skill>>[1] = skill
    BY <1>4, <1>9, <2>3
  <2>5. RunWord(reg, word) = IF lower(word) \in BuiltInWords THEN <<>> ELSE skill.body
    BY <2>4 DEF RunWord
  <2> QED
    BY <2>1, <2>2, <2>3, <2>5
<1> QED
  BY <1>5, <1>7, <1>8, <1>9

-----------------------------------------------------------------------------
(* Sequences, one at the beginning of another.                              *)

\* t begins with s.
Begins(s, t) == Len(s) <= Len(t) /\ \A i \in 1..Len(s) : s[i] = t[i]

LEMMA BeginsIsPrefix ==
  ASSUME NEW S, NEW s \in Seq(S), NEW t \in Seq(S), Begins(s, t)
  PROVE  IsPrefix(s, t)
<1>1. PICK m \in Nat, n \in Nat : m = Len(s) /\ n = Len(t)
  BY LenProperties
<1>2. m <= n /\ \A i \in 1..m : s[i] = t[i]
  BY <1>1 DEF Begins
<1>3. m \in 0..Len(s) /\ m \in 0..Len(t)
  BY <1>1, <1>2
<1>4. SubSeq(s, 1, m) = [i \in 1..m |-> s[i]] /\ SubSeq(t, 1, m) = [i \in 1..m |-> t[i]]
  BY <1>1, <1>2
<1> QED
  BY <1>1, <1>2, <1>4 DEF IsPrefix

LEMMA Concatenated ==
  ASSUME NEW S, NEW a \in Seq(S), NEW x \in Seq(S)
  PROVE  /\ a \o x \in Seq(S) /\ Len(a \o x) = Len(a) + Len(x)
         /\ \A i \in 1..Len(a) : (a \o x)[i] = a[i]
         /\ \A i \in 1..Len(x) : (a \o x)[Len(a) + i] = x[i]
<1> DEFINE m == Len(a)
           k == Len(x)
<1>0. m \in Nat /\ k \in Nat
  BY LenProperties
<1>1. a \o x \in Seq(S) /\ Len(a \o x) = m + k
  BY ConcatProperties
<1>2. ASSUME NEW i \in 1..m PROVE (a \o x)[i] = a[i]
  <2>1. i \in 1..Len(a) + Len(x) /\ i <= Len(a)
    BY <1>0, <1>2
  <2> QED
    BY <2>1, ConcatProperties
<1>3. ASSUME NEW i \in 1..k PROVE (a \o x)[m + i] = x[i]
  <2>1. m + i \in 1..Len(a) + Len(x) /\ ~(m + i <= Len(a)) /\ m + i - Len(a) = i
    BY <1>0, <1>3
  <2> QED
    BY <2>1, ConcatProperties
<1> QED
  BY <1>1, <1>2, <1>3

\* What follows the same beginning tells two sequences apart.
LEMMA Cancels ==
  ASSUME NEW S, NEW a \in Seq(S), NEW x \in Seq(S), NEW y \in Seq(S), a \o x = a \o y
  PROVE  x = y
<1>1. PICK m \in Nat, k \in Nat, n \in Nat : m = Len(a) /\ k = Len(x) /\ n = Len(y)
  BY LenProperties
<1>2. Len(a \o x) = m + k /\ \A i \in 1..k : (a \o x)[m + i] = x[i]
  BY <1>1, Concatenated
<1>3. Len(a \o y) = m + n /\ \A i \in 1..n : (a \o y)[m + i] = y[i]
  BY <1>1, Concatenated
<1>4. k = n
  BY <1>2, <1>3
<1>5. \A i \in 1..k : x[i] = y[i]
  BY <1>2, <1>3, <1>4
<1>6. x \in [1..k -> S] /\ y \in [1..k -> S]
  BY <1>1, <1>4, LenProperties
<1> QED
  BY <1>5, <1>6

\* Of two beginnings of one sequence, one begins the other.
LEMMA OneBegins ==
  ASSUME NEW S, NEW a \in Seq(S), NEW x \in Seq(S), NEW b \in Seq(S), NEW y \in Seq(S),
         a \o x = b \o y
  PROVE  Begins(a, b) \/ Begins(b, a)
<1>1. PICK m \in Nat, k \in Nat : m = Len(a) /\ k = Len(x)
  BY LenProperties
<1>2. PICK n \in Nat, l \in Nat : n = Len(b) /\ l = Len(y)
  BY LenProperties
<1>3. \A i \in 1..m : (a \o x)[i] = a[i]
  BY <1>1, Concatenated
<1>4. \A i \in 1..n : (b \o y)[i] = b[i]
  BY <1>2, Concatenated
<1>5. CASE m <= n
  <2>1. \A i \in 1..m : i \in 1..n
    BY <1>5
  <2>2. \A i \in 1..m : a[i] = b[i]
    BY <1>3, <1>4, <2>1
  <2> QED
    BY <1>1, <1>2, <1>5, <2>2 DEF Begins
<1>6. CASE n <= m
  <2>1. \A i \in 1..n : i \in 1..m
    BY <1>6
  <2>2. \A i \in 1..n : b[i] = a[i]
    BY <1>3, <1>4, <2>1
  <2> QED
    BY <1>1, <1>2, <1>6, <2>2 DEF Begins
<1> QED
  BY <1>5, <1>6

\* Appending keeps the elements in place and in their set.
LEMMA Appended ==
  ASSUME NEW S, NEW s \in Seq(S), NEW t \in Seq(S)
  PROVE  /\ s \o t \in Seq(S)
         /\ \A i \in DOMAIN (s \o t) :
              IF i \in DOMAIN s THEN (s \o t)[i] = s[i]
              ELSE i - Len(s) \in DOMAIN t /\ (s \o t)[i] = t[i - Len(s)]
         /\ \A i, j \in DOMAIN (s \o t) : i < j /\ j \in DOMAIN s => i \in DOMAIN s
         /\ DOMAIN s \subseteq DOMAIN (s \o t)
<1>1. PICK m \in Nat : m = Len(s)
  BY LenProperties
<1>2. PICK n \in Nat : n = Len(t)
  BY LenProperties
<1>3. s \o t \in Seq(S) /\ Len(s \o t) = m + n
  BY <1>1, <1>2, ConcatProperties
<1>4. DOMAIN s = 1..m /\ DOMAIN t = 1..n /\ DOMAIN (s \o t) = 1..m + n
  BY <1>1, <1>2, <1>3, LenProperties
<1>5. ASSUME NEW i \in 1..m + n
      PROVE  (s \o t)[i] = IF i <= m THEN s[i] ELSE t[i - m]
  BY <1>1, <1>2, ConcatProperties
<1>6. ASSUME NEW i \in 1..m + n
      PROVE  IF i \in 1..m THEN (s \o t)[i] = s[i]
             ELSE i - m \in 1..n /\ (s \o t)[i] = t[i - m]
  <2>1. CASE i <= m
    <3>1. i \in 1..m
      BY <2>1
    <3>2. (s \o t)[i] = s[i]
      BY <1>5, <2>1
    <3> QED
      BY <3>1, <3>2
  <2>2. CASE ~(i <= m)
    <3>1. i - m \in 1..n /\ i \notin 1..m
      BY <2>2
    <3>2. (s \o t)[i] = t[i - m]
      BY <1>5, <2>2
    <3> QED
      BY <3>1, <3>2
  <2> QED
    BY <2>1, <2>2
<1>7. \A i, j \in 1..m + n : i < j /\ j \in 1..m => i \in 1..m
  OBVIOUS
<1>8. 1..m \subseteq 1..m + n
  OBVIOUS
<1> QED
  BY <1>1, <1>3, <1>4, <1>6, <1>7, <1>8

-----------------------------------------------------------------------------
(* The names of tools.  What a name means is settled by the scene, which    *)
(* nothing changes; the program's own tools stay in front, all of them.     *)

Servers == ToSet(scene.servers)
Strings == STRING
Pieces == Strings \cup {"_", "the program"}
Names == Seq(Pieces)
ToolKinds == [name : Names, owner : Names, remote : Names]

\* What the names rest on.
SceneInv == scene \in Scenes

StartingInv == starting \in Seq(Servers)

OwnNames(web) == IF web THEN BuiltIns \o WebTools ELSE BuiltIns

\* A tool's name is made of whose it is and what it is called there.
Called(t) ==
  /\ t \in ToolKinds
  /\ IF t.owner = Own THEN t.name = t.remote
     ELSE t.owner \in Servers /\ t.name = Exposed(t.owner, t.remote)

OwnFirst ==
  /\ tools \in Seq(ToolKinds)
  /\ \A i, j \in DOMAIN tools :
       i < j /\ tools[j].owner = Own => tools[i].owner = Own /\ tools[i].name # tools[j].name

AllCalled == \A i \in DOMAIN tools : Called(tools[i])

\* The program has the tools of its own that its configuration says, no others.
OwnAre(line, names) ==
  \A x : x \in ToSet(names) <=> \E i \in DOMAIN line : line[i].owner = Own /\ line[i].name = x

ToolsInv ==
  /\ OwnFirst
  /\ AllCalled
  /\ phase = "starting" => OwnAre(tools, OwnNames(cfg.allow_web))

\* What a launch's names meant is one tool each, its own only among its own names.
MeaningsInv ==
  \A m \in meanings :
    Called(m.tool) /\ (m.tool.owner = Own <=> m.tool.name \in ToSet(OwnNames(m.web)))

NamesInv == SceneInv /\ StartingInv /\ ToolsInv /\ MeaningsInv

LEMMA SceneStays == [Next]_vars => scene' = scene
<1> SUFFICES ASSUME [Next]_vars PROVE scene' = scene
  OBVIOUS
<1> USE DEF programVars, launchVars, setupVars, logVars
<1>1. ASSUME NEW x, Launch(x) PROVE scene' = scene
  BY <1>1 DEF Launch, Configured, ConfigError
<1>2. CASE \/ SpawnServer \/ SpawnFails \/ NotHandshaken \/ Started
           \/ \E remote \in ToolLists : Handshaken(remote)
  BY <1>2 DEF SpawnServer, SpawnFails, NotHandshaken, Started, Handshaken
<1>3. CASE \/ \E reply \in scene.replies : FinishInit(reply)
           \/ \E p \in scene.pages, chars \in AskedChars : CallFetch(p, chars)
           \/ FetchStep
  BY <1>3 DEF FinishInit, CallFetch, FetchStep
<1>4. CASE Quit \/ CloseNext \/ Destroys \/ Ended_Program \/ Dies
  BY <1>4 DEF Quit, CloseNext, Destroys, Ended_Program, Dies
<1>5. CASE World_Next \/ Done \/ UNCHANGED vars
  BY <1>5 DEF World_Next, JobStarts, JobEnds, Edit, ServerStep, Done, vars
<1> QED
  BY <1>1, <1>2, <1>3, <1>4, <1>5 DEF Next, Program_Next

\* The steps that touch the tools or the servers still to start.
LEMMA ToolSteps ==
  ASSUME [Next]_vars
  PROVE  \/ /\ UNCHANGED <<meanings, tools, starting>>
            /\ phase' = "starting" => phase = "starting" /\ cfg' = cfg
         \/ \E config : Configured(config)
         \/ starting # <<>> /\ starting' = Tail(starting) /\ UNCHANGED <<meanings, tools, phase, cfg>>
         \/ \E remote : Handshaken(remote)
         \/ Started
         \/ Forget /\ phase' = "shell" /\ UNCHANGED meanings
<1> USE DEF programVars, launchVars, setupVars, logVars
<1> DEFINE Same == /\ UNCHANGED <<meanings, tools, starting>>
                   /\ phase' = "starting" => phase = "starting" /\ cfg' = cfg
<1>1. ASSUME NEW x, Launch(x)
      PROVE  Same \/ \E config : Configured(config)
  BY <1>1 DEF Launch, ConfigError
<1>2. CASE SpawnServer
  BY <1>2 DEF SpawnServer
<1>3. CASE SpawnFails \/ NotHandshaken
  BY <1>3 DEF SpawnFails, NotHandshaken, Connecting, NextServer
<1>4. CASE \/ \E reply \in scene.replies : FinishInit(reply)
           \/ \E p \in scene.pages, chars \in AskedChars : CallFetch(p, chars)
           \/ FetchStep
  <2>1. Same
    BY <1>4 DEF FinishInit, CallFetch, FetchStep
  <2> QED
    BY <2>1
<1>5. CASE Quit \/ CloseNext \/ Destroys
  <2>1. Same
    BY <1>5 DEF Quit, CloseNext, Destroys
  <2> QED
    BY <2>1
<1>6. CASE Ended_Program \/ Dies
  BY <1>6 DEF Ended_Program, Dies
<1>7. CASE World_Next \/ Done \/ UNCHANGED vars
  <2>1. Same
    BY <1>7 DEF World_Next, JobStarts, JobEnds, Edit, ServerStep, Done, vars
  <2> QED
    BY <2>1
<1> QED
  BY <1>1, <1>2, <1>3, <1>4, <1>5, <1>6, <1>7 DEF Next, Program_Next

\* Sequences of strings are names.
LEMMA NamesAre == ASSUME NEW x \in Seq(STRING) PROVE x \in Names
<1>1. PICK n \in Nat : n = Len(x)
  BY LenProperties
<1>2. x \in [1..n -> STRING]
  BY <1>1, LenProperties
<1>3. x \in [1..n -> Pieces]
  BY <1>2 DEF Pieces, Strings
<1> QED
  BY <1>3 DEF Names

LEMMA TwoOf == ASSUME NEW S, NEW t \in S, NEW u \in S PROVE <<t, u>> \in Seq(S)
OBVIOUS

LEMMA FixedNames == Own \in Names /\ <<"_", "_">> \in Names
<1>1. "_" \in Pieces /\ "the program" \in Pieces
  BY DEF Pieces
<1>2. <<"the program">> \in Seq(Pieces)
  BY <1>1, OneOf
<1>3. <<"_", "_">> \in Seq(Pieces)
  BY <1>1, TwoOf
<1> QED
  BY <1>2, <1>3 DEF Names, Own

LEMMA ServersAre ==
  ASSUME SceneInv
  PROVE  scene.servers \in Seq(Servers) /\ Servers \subseteq Names /\ Own \notin Servers
<1>1. scene.servers \in Seq(Seq(STRING)) /\ Own \notin ToSet(scene.servers)
  BY ScenesAssumption DEF SceneInv
<1>2. PICK n \in Nat : n = Len(scene.servers)
  BY <1>1, LenProperties
<1>3. scene.servers \in [1..n -> Seq(STRING)] /\ DOMAIN scene.servers = 1..n
  BY <1>1, <1>2, LenProperties
<1>4. Servers \subseteq Seq(STRING)
  BY <1>3 DEF Servers, ToSet
<1>5. scene.servers \in [1..n -> Servers]
  BY <1>3 DEF Servers, ToSet
<1>6. scene.servers \in Seq(Servers)
  BY <1>2, <1>5
<1>7. Servers \subseteq Names
  BY <1>4, NamesAre
<1> QED
  BY <1>1, <1>6, <1>7 DEF Servers

\* The program's own tools, as a launch begins with them.
OwnTools(names) == [i \in DOMAIN names |-> [name |-> names[i], owner |-> Own, remote |-> names[i]]]

LEMMA OwnToolsAreFirst ==
  ASSUME NEW names \in {BuiltIns, BuiltIns \o WebTools}, tools' = OwnTools(names)
  PROVE  OwnFirst' /\ AllCalled' /\ OwnAre(tools', names)
<1>1. names \in Seq(Seq(STRING)) /\ \A i, j \in DOMAIN names : names[i] = names[j] => i = j
  BY ToolsAssumption
<1>2. PICK n \in Nat : n = Len(names)
  BY <1>1, LenProperties
<1>3. DOMAIN names = 1..n /\ \A i \in 1..n : names[i] \in Seq(STRING)
  BY <1>1, <1>2, LenProperties, ElementOfSeq
<1>4. ASSUME NEW i \in 1..n
      PROVE  [name |-> names[i], owner |-> Own, remote |-> names[i]] \in ToolKinds
  <2>1. names[i] \in Seq(STRING)
    BY <1>3
  <2>2. names[i] \in Names
    BY <2>1, NamesAre
  <2> QED
    BY <2>2, FixedNames DEF ToolKinds
<1>5. tools' \in [1..n -> ToolKinds]
  BY <1>3, <1>4 DEF OwnTools
<1>6. tools' \in Seq(ToolKinds) /\ DOMAIN tools' = 1..n
  BY <1>2, <1>5
<1>7. ASSUME NEW i \in 1..n
      PROVE  /\ tools'[i].owner = Own /\ tools'[i].name = names[i] /\ tools'[i].remote = names[i]
             /\ tools'[i] \in ToolKinds
  BY <1>3, <1>5 DEF OwnTools
<1>8. OwnFirst'
  <2>1. ASSUME NEW i \in DOMAIN tools', NEW j \in DOMAIN tools', i < j
        PROVE  tools'[i].owner = Own /\ tools'[i].name # tools'[j].name
    <3>1. i \in 1..n /\ j \in 1..n /\ i # j
      BY <1>6, <2>1
    <3>2. names[i] # names[j]
      BY <1>1, <1>3, <3>1
    <3> QED
      BY <1>7, <3>1, <3>2
  <2> QED
    BY <1>6, <2>1 DEF OwnFirst
<1>9. AllCalled'
  BY <1>6, <1>7 DEF AllCalled, Called
<1>10. OwnAre(tools', names)
  <2>1. \A x : x \in ToSet(names) <=> \E i \in 1..n : names[i] = x
    BY <1>3 DEF ToSet
  <2> QED
    BY <1>6, <1>7, <2>1 DEF OwnAre
<1> QED
  BY <1>8, <1>9, <1>10

LEMMA ConfiguredNames ==
  ASSUME NamesInv, NEW config, Configured(config), scene' = scene
  PROVE  NamesInv'
<1>1. /\ meanings' = meanings /\ (starting' = <<>> \/ starting' = scene.servers)
      /\ cfg' = config
  BY DEF Configured
<1>2. /\ OwnNames(config.allow_web) \in {BuiltIns, BuiltIns \o WebTools}
      /\ tools' = OwnTools(OwnNames(config.allow_web))
  BY DEF Configured, OwnTools, OwnNames
<1>3. SceneInv'
  BY DEF NamesInv, SceneInv
<1>4. StartingInv'
  BY <1>1, ServersAre, EmptySeq DEF NamesInv, StartingInv, Servers
<1>5. MeaningsInv'
  BY <1>1 DEF NamesInv, MeaningsInv, Called, Servers, Exposed
<1>6. /\ OwnFirst' /\ AllCalled'
      /\ OwnAre(tools', OwnNames(config.allow_web))
  BY <1>2, OwnToolsAreFirst
<1>7. ToolsInv'
  BY <1>1, <1>6 DEF ToolsInv
<1> QED
  BY <1>3, <1>4, <1>5, <1>7 DEF NamesInv

\* What a server adds.
AddedTools(server, remote) ==
  [i \in DOMAIN remote |-> [name |-> Exposed(server, remote[i]), owner |-> server,
                            remote |-> remote[i]]]

LEMMA ExposedIs ==
  ASSUME NEW server \in Names, NEW tool \in Names
  PROVE  Exposed(server, tool) \in Names
<1>1. server \o <<"_", "_">> \in Names
  BY FixedNames, ConcatProperties DEF Names
<1>2. server \o <<"_", "_">> \o tool \in Names
  BY <1>1, ConcatProperties DEF Names
<1> QED
  BY <1>2 DEF Exposed

LEMMA AddedAre ==
  ASSUME SceneInv, NEW server \in Servers, NEW remote \in ServerTools[server]
  PROVE  /\ AddedTools(server, remote) \in Seq(ToolKinds)
         /\ \A i \in DOMAIN AddedTools(server, remote) :
              Called(AddedTools(server, remote)[i]) /\ AddedTools(server, remote)[i].owner # Own
<1>1. remote \in Seq(Seq(STRING)) /\ server \in Names /\ server # Own
  BY ToolsAssumption, ServersAre DEF SceneInv, Servers
<1>2. PICK n \in Nat : n = Len(remote)
  BY <1>1, LenProperties
<1>3. DOMAIN remote = 1..n /\ \A i \in 1..n : remote[i] \in Seq(STRING)
  BY <1>1, <1>2, LenProperties, ElementOfSeq
<1>4. ASSUME NEW i \in 1..n PROVE remote[i] \in Names /\ Exposed(server, remote[i]) \in Names
  <2>1. remote[i] \in Seq(STRING)
    BY <1>3
  <2>2. remote[i] \in Names
    BY <2>1, NamesAre
  <2> QED
    BY <1>1, <2>2, ExposedIs
<1>5. \A i \in 1..n : [name |-> Exposed(server, remote[i]), owner |-> server,
                       remote |-> remote[i]] \in ToolKinds
  BY <1>1, <1>4 DEF ToolKinds
<1>6. AddedTools(server, remote) \in [1..n -> ToolKinds]
  BY <1>3, <1>5 DEF AddedTools
<1>7. AddedTools(server, remote) \in Seq(ToolKinds) /\ DOMAIN AddedTools(server, remote) = 1..n
  BY <1>2, <1>6
<1>8. ASSUME NEW i \in 1..n
      PROVE  /\ AddedTools(server, remote)[i] \in ToolKinds
             /\ AddedTools(server, remote)[i].owner = server
             /\ AddedTools(server, remote)[i].name =
                  Exposed(server, AddedTools(server, remote)[i].remote)
  BY <1>3, <1>6 DEF AddedTools
<1> QED
  BY <1>1, <1>7, <1>8 DEF Called

LEMMA HandshakenNames ==
  ASSUME NamesInv, NEW remote, Handshaken(remote), scene' = scene
  PROVE  NamesInv'
<1> DEFINE server == Head(starting)
           added == AddedTools(server, remote)
<1>1. /\ starting # <<>> /\ starting' = Tail(starting)
      /\ tools' = tools \o added
      /\ UNCHANGED <<meanings, phase, cfg>>
      /\ remote \in ServerTools[server]
  BY DEF Handshaken, Connecting, NextServer, AddedTools, logVars
<1>2. server \in Servers /\ Tail(starting) \in Seq(Servers)
  BY <1>1, HeadTailProperties DEF NamesInv, StartingInv
<1> HIDE DEF server
<1>3. added \in Seq(ToolKinds) /\ \A i \in DOMAIN added : Called(added[i]) /\ added[i].owner # Own
  BY <1>1, <1>2, AddedAre DEF NamesInv
<1> HIDE DEF added
<1>4. SceneInv' /\ StartingInv' /\ MeaningsInv'
  BY <1>1, <1>2 DEF NamesInv, SceneInv, StartingInv, MeaningsInv, Called, Servers, Exposed
<1>5. tools \in Seq(ToolKinds)
  BY DEF NamesInv, ToolsInv, OwnFirst
<1>6. /\ tools \o added \in Seq(ToolKinds)
      /\ \A i \in DOMAIN (tools \o added) :
           IF i \in DOMAIN tools THEN (tools \o added)[i] = tools[i]
           ELSE i - Len(tools) \in DOMAIN added /\ (tools \o added)[i] = added[i - Len(tools)]
      /\ \A i, j \in DOMAIN (tools \o added) : i < j /\ j \in DOMAIN tools => i \in DOMAIN tools
      /\ DOMAIN tools \subseteq DOMAIN (tools \o added)
  BY <1>3, <1>5, Appended
<1>7. OwnFirst'
  <2>1. ASSUME NEW i \in DOMAIN tools', NEW j \in DOMAIN tools', i < j, tools'[j].owner = Own
        PROVE  tools'[i].owner = Own /\ tools'[i].name # tools'[j].name
    <3>1. j \in DOMAIN tools
      BY <1>1, <1>3, <1>6, <2>1
    <3>2. i \in DOMAIN tools
      BY <1>1, <1>6, <2>1, <3>1
    <3>3. tools'[i] = tools[i] /\ tools'[j] = tools[j]
      BY <1>1, <1>6, <3>1, <3>2
    <3> QED
      BY <2>1, <3>1, <3>2, <3>3 DEF NamesInv, ToolsInv, OwnFirst
  <2> QED
    BY <1>1, <1>6, <2>1 DEF OwnFirst
<1>8. AllCalled'
  <2>1. \A i \in DOMAIN tools' : Called(tools'[i])
    BY <1>1, <1>3, <1>6 DEF NamesInv, ToolsInv, AllCalled
  <2> QED
    BY <2>1 DEF AllCalled, Called, Servers, Exposed
<1>9. ASSUME phase' = "starting" PROVE OwnAre(tools', OwnNames(cfg'.allow_web))
  <2>1. OwnAre(tools, OwnNames(cfg.allow_web))
    BY <1>1, <1>9 DEF NamesInv, ToolsInv
  <2>2. ASSUME NEW x
        PROVE  (\E i \in DOMAIN tools' : tools'[i].owner = Own /\ tools'[i].name = x) <=>
                 \E i \in DOMAIN tools : tools[i].owner = Own /\ tools[i].name = x
    BY <1>1, <1>3, <1>6
  <2> QED
    BY <1>1, <2>1, <2>2 DEF OwnAre
<1> QED
  BY <1>4, <1>7, <1>8, <1>9 DEF NamesInv, ToolsInv

LEMMA ToolsInLine == OwnFirst => DOMAIN tools \subseteq Nat
<1> SUFFICES ASSUME OwnFirst PROVE DOMAIN tools \subseteq Nat
  OBVIOUS
<1>1. PICK n \in Nat : n = Len(tools)
  BY LenProperties DEF OwnFirst
<1>2. DOMAIN tools = 1..n
  BY <1>1, LenProperties DEF OwnFirst
<1> QED
  BY <1>2

\* The first tool of the name of one of the program's own is that one.
LEMMA OwnIsFound ==
  ASSUME OwnFirst, NEW i \in DOMAIN tools, tools[i].owner = Own
  PROVE  find_tool(tools[i].name) = {tools[i]}
<1> DEFINE named == {j \in DOMAIN tools : tools[j].name = tools[i].name}
           first == {j \in named : \A k \in named : j <= k}
<1>1. DOMAIN tools \subseteq Nat
  BY ToolsInLine
<1>2. ASSUME NEW j \in named PROVE i <= j
  <2>1. ~(j < i)
    BY <1>2 DEF OwnFirst
  <2>2. i \in Nat /\ j \in Nat
    BY <1>1
  <2> HIDE DEF named
  <2> QED
    BY ONLY <2>1, <2>2
<1>3. i \in named /\ i \in first
  BY <1>2
<1>4. ASSUME NEW j \in first PROVE j = i
  <2>1. j <= i /\ i <= j
    BY <1>2, <1>3
  <2>2. i \in Nat /\ j \in Nat
    BY <1>1
  <2> QED
    BY ONLY <2>1, <2>2
<1>5. first = {i}
  BY <1>3, <1>4
<1> HIDE DEF first
<1>6. find_tool(tools[i].name) = {tools[j] : j \in first}
  BY DEF find_tool, first
<1> QED
  BY <1>5, <1>6

\* No server's tool that its name finds has the name of one of the program's own.
LEMMA StartedNames ==
  ASSUME NamesInv, Started, scene' = scene
  PROVE  NamesInv'
<1>1. /\ meanings' = meanings \cup {[tool |-> t, web |-> cfg.allow_web] : t \in Found}
      /\ UNCHANGED <<tools, starting, cfg>> /\ phase = "starting" /\ phase' = "running"
  BY DEF Started
<1>2. OwnFirst /\ OwnAre(tools, OwnNames(cfg.allow_web)) /\ AllCalled
  BY <1>1 DEF NamesInv, ToolsInv
<1>3. ASSUME NEW t \in Found
      PROVE  Called(t) /\ (t.owner = Own <=> t.name \in ToSet(OwnNames(cfg.allow_web)))
  <2>1. PICK i \in DOMAIN tools : t = tools[i] /\ find_tool(t.name) = {t}
    BY <1>3 DEF Found, ToSet
  <2>2. ASSUME t.name \in ToSet(OwnNames(cfg.allow_web)) PROVE t.owner = Own
    <3>1. PICK j \in DOMAIN tools : tools[j].owner = Own /\ tools[j].name = t.name
      BY <1>2, <2>2 DEF OwnAre
    <3>2. find_tool(tools[j].name) = {tools[j]}
      BY <1>2, <3>1, OwnIsFound
    <3>3. t = tools[j]
      BY <2>1, <3>1, <3>2
    <3> QED
      BY <3>1, <3>3
  <2>3. t.owner = Own => t.name \in ToSet(OwnNames(cfg.allow_web))
    BY <1>2, <2>1 DEF OwnAre
  <2> QED
    BY <1>2, <2>1, <2>2, <2>3 DEF AllCalled
<1>4. ASSUME NEW m \in meanings'
      PROVE  Called(m.tool)' /\ (m.tool.owner = Own <=> m.tool.name \in ToSet(OwnNames(m.web)))
  <2>1. Called(m.tool) /\ (m.tool.owner = Own <=> m.tool.name \in ToSet(OwnNames(m.web)))
    <3>1. CASE m \in meanings
      BY <3>1 DEF NamesInv, MeaningsInv
    <3>2. CASE m \notin meanings
      <4>1. PICK t \in Found : m = [tool |-> t, web |-> cfg.allow_web]
        BY <1>1, <1>4, <3>2
      <4>2. m.tool = t /\ m.web = cfg.allow_web
        BY <4>1
      <4> QED
        BY <1>3, <4>2
    <3> QED
      BY <3>1, <3>2
  <2> QED
    BY <2>1 DEF Called, Servers, Exposed
<1>5. SceneInv' /\ StartingInv' /\ OwnFirst' /\ AllCalled'
  BY <1>1, <1>2 DEF NamesInv, SceneInv, StartingInv, OwnFirst, AllCalled, Called, Servers, Exposed
<1> QED
  BY <1>1, <1>4, <1>5 DEF NamesInv, ToolsInv, MeaningsInv

LEMMA InitNames == Init => NamesInv
<1> SUFFICES ASSUME Init PROVE NamesInv
  OBVIOUS
<1>1. scene \in Scenes /\ tools = <<>> /\ starting = <<>> /\ meanings = {} /\ phase = "shell"
  BY DEF Init, NotRunning
<1>2. ToolsInv
  BY <1>1 DEF OwnFirst, AllCalled, ToolsInv
<1> QED
  BY <1>1, <1>2, EmptySeq DEF NamesInv, SceneInv, StartingInv, MeaningsInv

LEMMA StepNames == NamesInv /\ [Next]_vars => NamesInv'
<1> SUFFICES ASSUME NamesInv, [Next]_vars PROVE NamesInv'
  OBVIOUS
<1>1. scene' = scene
  BY SceneStays
<1>2. SceneInv' /\ (meanings' = meanings => MeaningsInv')
  BY <1>1 DEF NamesInv, SceneInv, MeaningsInv, Called, Servers, Exposed
<1>3. ASSUME tools' = tools, phase' = "starting" => phase = "starting" /\ cfg' = cfg
      PROVE  ToolsInv'
  <2>1. OwnFirst' /\ AllCalled'
    BY <1>1, <1>3 DEF NamesInv, ToolsInv, OwnFirst, AllCalled, Called, Servers, Exposed
  <2>2. phase' = "starting" => OwnAre(tools', OwnNames(cfg'.allow_web))
    BY <1>3 DEF NamesInv, ToolsInv
  <2> QED
    BY <2>1, <2>2 DEF ToolsInv
<1>4. CASE /\ UNCHANGED <<meanings, tools, starting>>
           /\ phase' = "starting" => phase = "starting" /\ cfg' = cfg
  BY <1>1, <1>2, <1>3, <1>4 DEF NamesInv, StartingInv, Servers
<1>5. ASSUME NEW config, Configured(config) PROVE NamesInv'
  BY <1>1, <1>5, ConfiguredNames
<1>6. CASE starting # <<>> /\ starting' = Tail(starting) /\ UNCHANGED <<meanings, tools, phase, cfg>>
  <2>1. Tail(starting) \in Seq(Servers)
    BY <1>6, HeadTailProperties DEF NamesInv, StartingInv
  <2>2. ToolsInv'
    BY <1>3, <1>6
  <2> QED
    BY <1>1, <1>2, <1>6, <2>1, <2>2 DEF NamesInv, StartingInv, Servers
<1>7. ASSUME NEW remote, Handshaken(remote) PROVE NamesInv'
  BY <1>1, <1>7, HandshakenNames
<1>8. CASE Started
  BY <1>1, <1>8, StartedNames
<1>9. CASE Forget /\ phase' = "shell" /\ UNCHANGED meanings
  <2>1. tools' = <<>> /\ starting' = <<>>
    BY <1>9 DEF Forget, NotRunning
  <2>2. ToolsInv' /\ StartingInv'
    BY <1>9, <2>1, EmptySeq DEF ToolsInv, OwnFirst, AllCalled, StartingInv
  <2> QED
    BY <1>2, <1>9, <2>2 DEF NamesInv
<1> QED
  BY <1>4, <1>5, <1>6, <1>7, <1>8, <1>9, ToolSteps

\* Every name's meaning, in all the launches there have been, is settled by the files.
THEOREM NamesInvariance == Spec => []NamesInv
BY InitNames, StepNames, PTL DEF Spec

\* Of two servers' tools, a name tells which they are, unless the servers' names clash.
LEMMA ExposedTells ==
  ASSUME SceneInv, NEW s1 \in Servers, NEW s2 \in Servers, ~Clash(s1, s2),
         NEW r1 \in Names, NEW r2 \in Names, Exposed(s1, r1) = Exposed(s2, r2)
  PROVE  s1 = s2 /\ r1 = r2
<1>1. scene.servers \in Seq(Servers) /\ s1 \in Names /\ s2 \in Names
  BY ServersAre
<1>2. PICK n \in Nat : n = Len(scene.servers)
  BY <1>1, LenProperties
<1>3. CASE n > 1
  <2>1. PICK f1 \in Names : f1 = s1 \o <<"_", "_">>
    BY <1>1, FixedNames, ConcatProperties DEF Names
  <2>2. PICK f2 \in Names : f2 = s2 \o <<"_", "_">>
    BY <1>1, FixedNames, ConcatProperties DEF Names
  <2>3. f1 \o r1 = f2 \o r2
    BY <1>2, <1>3, <2>1, <2>2 DEF Exposed
  <2>4. Begins(f1, f2) \/ Begins(f2, f1)
    BY <2>3, OneBegins DEF Names
  <2>5. IsPrefix(f1, f2) \/ IsPrefix(f2, f1)
    BY <2>4, BeginsIsPrefix DEF Names
  <2>6. s1 = s2
    <3>1. \/ IsPrefix(s1 \o <<"_", "_">>, s2 \o <<"_", "_">>)
          \/ IsPrefix(s2 \o <<"_", "_">>, s1 \o <<"_", "_">>)
      BY <2>1, <2>2, <2>5
    <3> QED
      BY <3>1, Zenon DEF Clash
  <2>7. f1 = f2
    BY <2>1, <2>2, <2>6
  <2>8. r1 = r2
    BY <2>3, <2>7, Cancels DEF Names
  <2> QED
    BY <2>6, <2>8
<1>4. CASE ~(n > 1)
  <2>1. \A i, j \in 1..n : i = j
    BY <1>4
  <2>2. DOMAIN scene.servers = 1..n
    BY <1>1, <1>2, LenProperties
  <2>3. s1 = s2
    <3>1. PICK i \in 1..n : s1 = scene.servers[i]
      BY <2>2 DEF Servers, ToSet
    <3>2. PICK j \in 1..n : s2 = scene.servers[j]
      BY <2>2 DEF Servers, ToSet
    <3> QED
      BY <2>1, <3>1, <3>2
  <2>4. Exposed(s1, r1) = r1 /\ Exposed(s2, r2) = r2
    BY <1>2, <1>4 DEF Exposed
  <2> QED
    BY <2>3, <2>4
<1> QED
  BY <1>3, <1>4

\* A tool is its owner and what it is called there.
LEMMA ToolIs ==
  ASSUME NEW t, NEW u, Called(t), Called(u), t.owner = u.owner, t.remote = u.remote
  PROVE  t = u
<1>1. t.name = u.name
  BY DEF Called
<1> QED
  BY <1>1 DEF Called, ToolKinds

\* A name the model or a rule of the policy has for a tool means the same tool, and a
\* tool has the same name, in every launch with the same servers and allow_web, unless
\* the names of two servers clash, and no server's tool hides one of the program's own:
\* NamesStable for any servers and tools (McpClient.cpp:186-203, Agent.cpp:11-17, 86-90).
THEOREM NamesAlwaysStable == Spec => []NamesStable
<1>1. NamesInv => NamesStable
  <2> SUFFICES ASSUME NamesInv PROVE NamesStable
    OBVIOUS
  <2>1. ASSUME NEW m \in meanings, NEW n \in meanings
        PROVE  /\ Called(m.tool) /\ (m.tool.owner = Own <=> m.tool.name \in ToSet(OwnNames(m.web)))
               /\ Called(n.tool) /\ (n.tool.owner = Own <=> n.tool.name \in ToSet(OwnNames(n.web)))
    BY DEF NamesInv, MeaningsInv
  <2>2. ASSUME NEW m \in meanings, NEW n \in meanings, m.web = n.web,
               m.tool.name = n.tool.name, ~Clash(m.tool.owner, n.tool.owner)
        PROVE  m.tool = n.tool
    <3>1. CASE m.tool.owner = Own
      <4>1. n.tool.owner = Own
        BY <2>1, <2>2, <3>1
      <4>2. m.tool.remote = n.tool.remote
        BY <2>1, <2>2, <3>1, <4>1 DEF Called
      <4> QED
        BY <2>1, <3>1, <4>1, <4>2, ToolIs
    <3>2. CASE m.tool.owner # Own
      <4>1. n.tool.owner # Own
        BY <2>1, <2>2, <3>2
      <4>2. /\ m.tool.owner \in Servers /\ n.tool.owner \in Servers
            /\ m.tool.remote \in Names /\ n.tool.remote \in Names
            /\ Exposed(m.tool.owner, m.tool.remote) = Exposed(n.tool.owner, n.tool.remote)
        BY <2>1, <2>2, <3>2, <4>1 DEF Called, ToolKinds
      <4>3. m.tool.owner = n.tool.owner /\ m.tool.remote = n.tool.remote
        BY <2>2, <4>2, ExposedTells DEF NamesInv
      <4> QED
        BY <2>1, <4>3, ToolIs
    <3> QED
      BY <3>1, <3>2
  <2>3. ASSUME NEW m \in meanings, NEW n \in meanings,
               m.tool.owner = n.tool.owner, m.tool.remote = n.tool.remote
        PROVE  m.tool = n.tool
    BY <2>1, <2>3, ToolIs
  <2>4. ASSUME NEW i \in DOMAIN tools, tools[i].owner = Own
        PROVE  find_tool(tools[i].name) = {tools[i]}
    BY <2>4, OwnIsFound DEF NamesInv, ToolsInv
  <2> QED
    BY <2>2, <2>3, <2>4 DEF NamesStable
<1> QED
  BY <1>1, NamesInvariance, PTL

-----------------------------------------------------------------------------
(* What is on the disk, and the starter configuration.                      *)

DiskInv ==
  /\ disk = [config |-> disk.config, agents |-> disk.agents, skills |-> disk.skills]
  /\ disk.config = [user |-> disk.config.user, bin |-> disk.config.bin,
                    local |-> disk.config.local]
  /\ disk.agents = [local |-> disk.agents.local, bin |-> disk.agents.bin]

\* The two places that are written to, on a disk that has them.
LEMMA PlacedOne ==
  ASSUME NEW config, NEW agents, NEW words, NEW new
  PROVE  [[config |-> config, agents |-> agents, skills |-> words] EXCEPT !.config = new] =
           [config |-> new, agents |-> agents, skills |-> words]
OBVIOUS

LEMMA Placed ==
  ASSUME DiskInv, NEW bin, NEW local
  PROVE  [disk EXCEPT !.config = [user |-> @.user, bin |-> bin, local |-> local]] =
           [config |-> [user |-> disk.config.user, bin |-> bin, local |-> local],
            agents |-> disk.agents, skills |-> disk.skills]
<1>1. \A new : [disk EXCEPT !.config = new] =
        [config |-> new, agents |-> disk.agents, skills |-> disk.skills]
  BY PlacedOne DEF DiskInv
<1> QED
  BY <1>1

LEMMA DiskSteps ==
  ASSUME [Next]_vars
  PROVE  \/ UNCHANGED <<disk, inited>>
         \/ writeStarterConfig /\ inited' = inited
         \/ \E reply \in scene.replies : FinishInit(reply)
         \/ \E doc \in scene.docs : Edit(doc)
<1> USE DEF programVars, launchVars, setupVars, logVars
<1>1. ASSUME NEW x, Launch(x)
      PROVE  UNCHANGED <<disk, inited>> \/ (writeStarterConfig /\ inited' = inited)
  BY <1>1 DEF Launch, Configured, ConfigError
<1>2. CASE SpawnServer \/ SpawnFails \/ NotHandshaken \/ Started
  BY <1>2 DEF SpawnServer, SpawnFails, NotHandshaken, Started
<1>3. ASSUME NEW remote, Handshaken(remote) PROVE UNCHANGED <<disk, inited>>
  BY <1>3 DEF Handshaken
<1>4. CASE (\E p \in scene.pages, chars \in AskedChars : CallFetch(p, chars)) \/ FetchStep
  BY <1>4 DEF CallFetch, FetchStep
<1>5. CASE Quit \/ CloseNext \/ Destroys
  BY <1>5 DEF Quit, CloseNext, Destroys
<1>6. CASE Ended_Program \/ Dies
  BY <1>6 DEF Ended_Program, Dies
<1>7. CASE JobStarts \/ JobEnds \/ \E p \in Procs : ServerStep(p)
  BY <1>7 DEF JobStarts, JobEnds, ServerStep
<1>8. CASE Done \/ UNCHANGED vars
  BY <1>8 DEF Done, vars
<1> QED
  BY <1>1, <1>2, <1>3, <1>4, <1>5, <1>6, <1>7, <1>8 DEF Next, Program_Next, World_Next

LEMMA InitDisk == Init => DiskInv
<1> SUFFICES ASSUME Init PROVE DiskInv
  OBVIOUS
<1>1. scene \in Scenes /\ disk = scene.disk
  BY DEF Init
<1> QED
  BY <1>1, ScenesAssumption DEF DiskInv

LEMMA StepDisk == DiskInv /\ [Next]_vars => DiskInv'
<1> SUFFICES ASSUME DiskInv, [Next]_vars PROVE DiskInv'
  OBVIOUS
<1>1. CASE disk' = disk
  BY <1>1 DEF DiskInv
<1>2. CASE writeStarterConfig
  <2>1. PICK bin, local :
          disk' = [disk EXCEPT !.config = [user |-> @.user, bin |-> bin, local |-> local]]
    BY <1>2 DEF writeStarterConfig
  <2>2. disk' = [config |-> [user |-> disk.config.user, bin |-> bin, local |-> local],
                 agents |-> disk.agents, skills |-> disk.skills]
    BY <2>1, Placed
  <2> QED
    BY <2>2 DEF DiskInv
<1>3. ASSUME NEW reply, FinishInit(reply) PROVE DiskInv'
  <2>1. PICK text : disk' = [disk EXCEPT !.agents.local = text]
    BY <1>3 DEF FinishInit
  <2> QED
    BY <2>1 DEF DiskInv
<1>4. ASSUME NEW doc, Edit(doc) PROVE DiskInv'
  <2>1. disk' = [disk EXCEPT !.config.local = doc]
    BY <1>4 DEF Edit
  <2> QED
    BY <2>1 DEF DiskInv
<1> QED
  BY <1>1, <1>2, <1>3, <1>4, DiskSteps

LEMMA NewLaunch == [Next]_vars /\ launch' # launch => \E x : Launch(x)
<1> SUFFICES ASSUME [Next]_vars, ~ \E x : Launch(x) PROVE launch' = launch
  OBVIOUS
<1> USE DEF programVars, launchVars, setupVars, logVars
<1>1. CASE SpawnServer \/ SpawnFails \/ NotHandshaken \/ Started
  BY <1>1 DEF SpawnServer, SpawnFails, NotHandshaken, Started
<1>2. ASSUME NEW remote, Handshaken(remote) PROVE launch' = launch
  BY <1>2 DEF Handshaken
<1>3. CASE \/ \E reply \in scene.replies : FinishInit(reply)
           \/ \E p \in scene.pages, chars \in AskedChars : CallFetch(p, chars)
           \/ FetchStep
  BY <1>3 DEF FinishInit, CallFetch, FetchStep
<1>4. CASE Quit \/ CloseNext \/ Destroys
  BY <1>4 DEF Quit, CloseNext, Destroys
<1>5. CASE Ended_Program \/ Dies
  BY <1>5 DEF Ended_Program, Dies
<1>6. CASE World_Next \/ Done \/ UNCHANGED vars
  BY <1>6 DEF World_Next, JobStarts, JobEnds, Edit, ServerStep, Done, vars
<1> QED
  BY <1>1, <1>2, <1>3, <1>4, <1>5, <1>6 DEF Next, Program_Next

\* What StarterHelps says of one step.
Works(place) ==
  /\ said' = Created[place]
  /\ disk'.config[place] = Starter
  /\ Accepted(AllSettings(disk'.config, Absent))
  => loadConfig(disk'.config, Absent, scene.env).error = ""

Helps ==
  launch' # launch =>
    /\ \A place \in DOMAIN disk.config :
         disk.config[place] # Absent => disk'.config[place] = disk.config[place]
    /\ \A place \in DOMAIN Created : Works(place)

LEMMA SaidText == ASSUME NEW file \in ConfFiles PROVE Said(file) \in Seq(Settings)
BY DEF ConfFiles, Said

\* The last file decides what is in force of the keys it has.
LEMMA NearestInForce ==
  ASSUME NEW files, FilesKind(files), NEW key, InForce(Said(files.local), key) # <<>>
  PROVE  InForce(AllSettings(files, Absent), key) = InForce(Said(files.local), key)
<1>1. PICK s \in Seq(Settings) : s = Said(files.user) \o Said(files.bin)
  BY SaidText, ConcatProperties DEF FilesKind
<1>2. PICK t \in Seq(Settings) : t = Said(files.local)
  BY SaidText DEF FilesKind
<1>3. Said(Absent) = <<>>
  BY DEF Said
<1>4. PICK u \in Seq(Settings) : u = s \o t
  BY ConcatProperties
<1>5. AllSettings(files, Absent) = u
  <2>1. AllSettings(files, Absent) = u \o <<>>
    BY <1>1, <1>2, <1>3, <1>4 DEF AllSettings
  <2> QED
    BY <1>4, <2>1, ConcatProperties
<1>6. InForce(u, key) = InForce(t, key)
  BY <1>2, <1>4, InForceLast
<1> QED
  BY <1>2, <1>5, <1>6

LEMMA MiddleInForce ==
  ASSUME NEW files, FilesKind(files), NEW key, files.local = Absent,
         InForce(Said(files.bin), key) # <<>>
  PROVE  InForce(AllSettings(files, Absent), key) = InForce(Said(files.bin), key)
<1>1. PICK s \in Seq(Settings) : s = Said(files.user)
  BY SaidText DEF FilesKind
<1>2. PICK t \in Seq(Settings) : t = Said(files.bin)
  BY SaidText DEF FilesKind
<1>3. Said(Absent) = <<>>
  BY DEF Said
<1>4. PICK u \in Seq(Settings) : u = s \o t
  BY ConcatProperties
<1>5. AllSettings(files, Absent) = u
  <2>1. AllSettings(files, Absent) = (u \o <<>>) \o <<>>
    BY <1>1, <1>2, <1>3, <1>4 DEF AllSettings
  <2>2. u \o <<>> = u
    BY <1>4, ConcatProperties
  <2> QED
    BY <2>1, <2>2
<1>6. InForce(u, key) = InForce(t, key)
  BY <1>2, <1>4, InForceLast
<1> QED
  BY <1>2, <1>5, <1>6

LEMMA WritingHelps ==
  ASSUME DiskInv, ~HasConfig, writeStarterConfig
  PROVE  Helps
<1>1. DOMAIN disk.config = {"user", "bin", "local"}
  BY DEF DiskInv
<1>2. disk.config.user = Absent /\ disk.config.bin = Absent /\ disk.config.local = Absent
  BY DEF HasConfig, Layers
<1>3. PICK beside \in {"written", "unopened", "failed"},
           here \in {"written", "unopened", "failed"},
           binDoc \in {Starter, Absent} \cup Torn, localDoc \in {Starter, Absent} \cup Torn :
        /\ Writes("bin", binDoc, beside)
        /\ IF beside = "written" THEN here = "unopened" /\ localDoc = disk.config.local
           ELSE Writes("local", localDoc, here)
        /\ disk' = [disk EXCEPT !.config = [user |-> @.user, bin |-> binDoc, local |-> localDoc]]
        /\ said' = IF beside = "written" THEN Created.bin
                   ELSE IF here = "written" THEN Created.local ELSE "create one"
  BY DEF writeStarterConfig
<1>4. PICK files : files = [user |-> Absent, bin |-> binDoc, local |-> localDoc]
  OBVIOUS
<1>5. disk'.config = files
  <2>1. disk' = [config |-> [user |-> disk.config.user, bin |-> binDoc, local |-> localDoc],
                 agents |-> disk.agents, skills |-> disk.skills]
    BY <1>3, Placed
  <2> QED
    BY <1>2, <1>4, <2>1
<1>6. {Starter, Absent} \cup Torn \subseteq ConfFiles
  BY TextsAssumption DEF ConfFiles
<1>7. FilesKind(files) /\ Absent \in ConfFiles
  BY <1>4, <1>6 DEF FilesKind
<1>8. /\ Said(Starter) = Starter
      /\ InForce(Starter, "base_url") # <<>> /\ InForce(Starter, "base_url")[1].text # ""
  BY StarterAssumption DEF Said
<1>9. DOMAIN Created = {"bin", "local"} /\ Created["bin"] # Created["local"]
  BY DEF Created
<1>10. ASSUME NEW place \in DOMAIN Created, said' = Created[place], files[place] = Starter,
              Accepted(AllSettings(files, Absent))
       PROVE  loadConfig(files, Absent, scene.env).error = ""
  <2>1. InForce(AllSettings(files, Absent), "base_url") = InForce(Starter, "base_url")
    <3>1. CASE place = "bin"
      <4>1. beside = "written"
        BY <1>3, <1>10, <3>1 DEF Created
      <4>2. files.local = Absent /\ files.bin = Starter
        BY <1>2, <1>3, <1>4, <1>10, <3>1, <4>1
      <4> QED
        BY <1>7, <1>8, <4>2, MiddleInForce
    <3>2. CASE place = "local"
      <4>1. files.local = Starter
        BY <1>4, <1>10, <3>2
      <4> QED
        BY <1>7, <1>8, <4>1, NearestInForce
    <3> QED
      BY <1>9, <3>1, <3>2
  <2> QED
    BY <1>7, <1>8, <1>10, <2>1, AcceptedLoads
<1>11. \A place \in DOMAIN Created : Works(place)
  BY <1>5, <1>10 DEF Works
<1> QED
  BY <1>1, <1>2, <1>11 DEF Helps

LEMMA StepHelps == DiskInv /\ [Next]_vars => Helps
<1> SUFFICES ASSUME DiskInv, [Next]_vars, launch' # launch PROVE Helps
  BY DEF Helps
<1>1. PICK x : Launch(x)
  BY NewLaunch
<1>2. CASE disk' = disk /\ said' \in {"", "edit it"}
  <2>1. DOMAIN Created = {"bin", "local"} /\ Created["bin"] \notin {"", "edit it"}
        /\ Created["local"] \notin {"", "edit it"}
    BY DEF Created
  <2>2. \A place \in DOMAIN Created : said' # Created[place]
    BY <1>2, <2>1
  <2> QED
    BY <1>2, <2>2 DEF Helps, Works
<1>3. CASE ~HasConfig /\ writeStarterConfig
  BY <1>3, WritingHelps
<1>4. (\E config : Configured(config)) \/ ConfigError
  BY <1>1 DEF Launch
<1>5. (\E config : Configured(config)) => disk' = disk /\ said' \in {"", "edit it"}
  BY DEF Configured
<1>6. ConfigError =>
        \/ disk' = disk /\ said' \in {"", "edit it"}
        \/ ~HasConfig /\ writeStarterConfig
  BY DEF ConfigError
<1> QED
  BY <1>2, <1>3, <1>4, <1>5, <1>6

\* No launch writes over a configuration, and where one says that it has created one
\* and all of it has reached the disk, the next can run with it, whatever else is there
\* that the program can read: StarterHelps (main.cpp:75-95, Config.cpp:299-313).
THEOREM StarterAlwaysHelps == Spec => StarterHelps
<1>1. Init => DiskInv
  BY InitDisk
<1>2. DiskInv /\ [Next]_vars => DiskInv'
  BY StepDisk
<1>3. DiskInv /\ [Next]_vars => [Helps]_vars
  BY StepHelps
<1>4. Init /\ [][Next]_vars => [][Helps]_vars
  BY <1>1, <1>2, <1>3, PTL
<1> QED
  BY <1>4, PTL DEF Spec, StarterHelps, Helps, Works

-----------------------------------------------------------------------------
(* What a launch runs with.                                                 *)

\* The texts /init may write; that the end of a line is a string is unknown to the
\* provers.
InitPieces == STRING \cup {Newline}

PromptInv ==
  /\ inited \in Seq(InitPieces)
  /\ inited # <<>> => disk.agents.local = Lined(inited)

LayersInv ==
  /\ SceneInv
  /\ DiskInv
  /\ FilesKind(disk.config)
  /\ disk.skills = scene.disk.skills
  /\ PromptInv

LEMMA StripType ==
  ASSUME NEW S, NEW s \in Seq(S)
  PROVE  stripCodeFence(s) \in Seq(S)
<1> DEFINE Filled(t) == {i \in DOMAIN t : t[i] \notin White}
           Lines(t) == {i \in DOMAIN t : t[i] = Newline}
           first == IF Filled(s) = {} THEN 0 ELSE Min(Filled(s))
           lineEnds == {i \in Lines(s) : i > first}
           inner == SubSeq(s, Min(lineEnds) + 1, Len(s))
           last == IF Filled(inner) = {} THEN 0 ELSE Max(Filled(inner))
           before == IF last = 1 THEN Lines(inner) ELSE {i \in Lines(inner) : i < last}
<1>1. stripCodeFence(s) =
        IF first = 0 \/ s[first] # FenceMark \/ lineEnds = {} THEN s
        ELSE IF last = 0 \/ inner[last] # FenceMark THEN inner
        ELSE SubSeq(inner, 1, Max({0} \cup before))
  BY DEF stripCodeFence
<1>2. PICK n \in Nat : n = Len(s) /\ DOMAIN s = 1..n
  BY LenProperties
<1>3. lineEnds \in SUBSET (1..n)
  BY <1>2
<1>4. before \subseteq DOMAIN inner
  OBVIOUS
<1> HIDE DEF Filled, Lines, first, lineEnds, inner, before, last
<1>5. CASE lineEnds = {}
  BY <1>1, <1>5
<1>6. CASE lineEnds # {}
  <2>1. Min(lineEnds) \in lineEnds
    BY <1>3, <1>6, FirstPlace
  <2>2. PICK a \in Nat : a = Min(lineEnds) + 1 /\ a >= 1
    <3>1. PICK i \in 1..n : i = Min(lineEnds)
      BY <1>3, <2>1
    <3>2. i + 1 \in Nat /\ i + 1 >= 1
      OBVIOUS
    <3> QED
      BY <3>1, <3>2
  <2>3. SubSeq(s, a, n) \in Seq(S)
    BY <1>2, <2>2, SliceType
  <2>4. PICK t \in Seq(S) : t = inner
    BY <1>2, <2>2, <2>3 DEF inner
  <2>5. PICK m \in Nat : m = Len(t) /\ DOMAIN t = 1..m
    BY LenProperties
  <2>6. PICK B \in SUBSET (1..m) : B = before
    BY <1>4, <2>4, <2>5
  <2>7. Max({0} \cup B) \in 0..m
    <3>1. CASE B = {}
      <4>1. \A j \in {0} \cup B : j \in Nat /\ j <= 0
        BY <3>1
      <4>2. 0 \in {0} \cup B
        OBVIOUS
      <4>3. Max({0} \cup B) = 0
        BY <4>1, <4>2, MaxIs
      <4> QED
        BY <4>3
    <3>2. CASE B # {}
      <4>1. PICK i \in B : \A j \in B : i >= j
        BY <3>2, LastPlace
      <4>2. \A j \in {0} \cup B : j \in Nat /\ j <= i
        BY <4>1
      <4>0. i \in {0} \cup B
        OBVIOUS
      <4>3. Max({0} \cup B) = i
        BY <4>0, <4>2, MaxIs
      <4> QED
        BY <4>3
    <3> QED
      BY <3>1, <3>2
  <2>8. PICK k \in 0..m : k = Max({0} \cup before)
    BY <2>6, <2>7
  <2>9. SubSeq(t, 1, k) \in Seq(S)
    <3>1. 1 \in Nat /\ 1 >= 1 /\ k \in Nat /\ k <= Len(t)
      BY <2>5
    <3> QED
      BY <3>1, SliceType
  <2>10. SubSeq(inner, 1, Max({0} \cup before)) \in Seq(S)
    BY <2>4, <2>8, <2>9
  <2> QED
    BY <1>1, <2>4, <2>10
<1> QED
  BY <1>5, <1>6

LEMMA LinedType ==
  ASSUME NEW t \in Seq(InitPieces)
  PROVE  Lined(t) \in Seq(InitPieces) /\ (t # <<>> => Lined(t) # <<>>)
<1>1. Newline \in InitPieces
  BY DEF InitPieces
<1>2. Append(t, Newline) \in Seq(InitPieces) /\ Append(t, Newline) # <<>>
  BY <1>1, AppendProperties
<1> QED
  BY <1>2 DEF Lined

LEMMA InitedText ==
  ASSUME SceneInv, PromptInv, DiskInv, NEW reply \in scene.replies, FinishInit(reply)
  PROVE  PromptInv'
<1>1. reply \in Seq(STRING)
  BY TextsAssumption DEF SceneInv
<1>2. reply \in Seq(InitPieces)
  <2>1. PICK n \in Nat : reply \in [1..n -> STRING]
    BY <1>1
  <2>2. reply \in [1..n -> InitPieces]
    BY <2>1 DEF InitPieces
  <2> QED
    BY <2>2
<1>3. PICK content \in Seq(InitPieces) : content = stripCodeFence(reply)
  BY <1>2, StripType
<1>4. PICK text \in Seq(InitPieces) : text = Lined(content)
  BY LinedType
<1>5. PICK m \in Nat : m = Len(text)
  BY LenProperties
<1>6. PICK n \in 0..m :
        /\ disk' = [disk EXCEPT !.agents.local = SubSeq(text, 1, n)]
        /\ inited' = IF n = m THEN content ELSE <<>>
  BY <1>3, <1>4, <1>5 DEF FinishInit
<1>7. disk'.agents.local = SubSeq(text, 1, n)
  <2>1. PICK part : part = SubSeq(text, 1, n)
    OBVIOUS
  <2>2. disk' = [disk EXCEPT !.agents.local = part]
    BY <1>6, <2>1
  <2>3. disk'.agents.local = part
    BY <2>2 DEF DiskInv
  <2> QED
    BY <2>1, <2>3
<1>8. inited' \in Seq(InitPieces)
  <2>1. <<>> \in Seq(InitPieces)
    BY EmptySeq
  <2> QED
    BY <1>6, <2>1
<1>9. ASSUME inited' # <<>> PROVE disk'.agents.local = Lined(inited')
  <2>1. n = m /\ inited' = content
    BY <1>6, <1>9
  <2>2. SubSeq(text, 1, m) = text
    BY <1>5, SubSeqFull
  <2>3. disk'.agents.local = text
    BY <1>7, <2>1, <2>2
  <2>4. Lined(inited') = Lined(content)
    BY <2>1 DEF Lined
  <2> QED
    BY <1>4, <2>3, <2>4
<1>10. PromptInv' <=> inited' \in Seq(InitPieces) /\ (inited' # <<>> => disk'.agents.local = Lined(inited)')
  BY DEF PromptInv
<1>11. Lined(inited)' = Lined(inited')
  BY DEF Lined
<1> QED
  BY <1>8, <1>9, <1>10, <1>11

LEMMA InitLayers == Init => LayersInv
<1> SUFFICES ASSUME Init PROVE LayersInv
  OBVIOUS
<1>1. scene \in Scenes /\ disk = scene.disk /\ inited = <<>>
  BY DEF Init
<1>2. \A place \in {"user", "bin", "local"} : scene.disk.config[place] \in ConfFiles
  BY <1>1, TextsAssumption DEF ConfFiles
<1>3. FilesKind(disk.config)
  BY <1>1, <1>2 DEF FilesKind
<1>4. PromptInv
  BY <1>1, EmptySeq DEF PromptInv
<1> QED
  BY <1>1, <1>3, <1>4, InitDisk DEF LayersInv, SceneInv

LEMMA StepFiles ==
  ASSUME LayersInv, [Next]_vars
  PROVE  FilesKind(disk.config)' /\ disk'.skills = disk.skills
<1>1. CASE disk' = disk
  BY <1>1 DEF LayersInv, FilesKind
<1>2. CASE writeStarterConfig
  <2>1. PICK bin \in {Starter, Absent} \cup Torn, local \in {Starter, Absent} \cup Torn \cup {disk.config.local} :
          disk' = [disk EXCEPT !.config = [user |-> @.user, bin |-> bin, local |-> local]]
    BY <1>2 DEF writeStarterConfig
  <2>2. disk' = [config |-> [user |-> disk.config.user, bin |-> bin, local |-> local],
                 agents |-> disk.agents, skills |-> disk.skills]
    BY <2>1, Placed DEF LayersInv
  <2>3. {Starter, Absent} \cup Torn \subseteq ConfFiles
    BY TextsAssumption DEF ConfFiles
  <2> QED
    BY <2>2, <2>3 DEF LayersInv, FilesKind
<1>3. ASSUME NEW reply, FinishInit(reply) PROVE FilesKind(disk.config)' /\ disk'.skills = disk.skills
  <2>1. PICK text : disk' = [disk EXCEPT !.agents.local = text]
    BY <1>3 DEF FinishInit
  <2>2. disk'.config = disk.config /\ disk'.skills = disk.skills
    BY <2>1 DEF LayersInv, DiskInv
  <2> QED
    BY <2>2 DEF LayersInv, FilesKind
<1>4. ASSUME NEW doc \in scene.docs, Edit(doc)
      PROVE  FilesKind(disk.config)' /\ disk'.skills = disk.skills
  <2>1. disk' = [disk EXCEPT !.config.local = doc]
    BY <1>4 DEF Edit
  <2>2. doc \in ConfFiles
    BY TextsAssumption DEF LayersInv, SceneInv, ConfFiles
  <2>3. disk'.skills = disk.skills /\ disk'.config.user = disk.config.user
        /\ disk'.config.bin = disk.config.bin /\ disk'.config.local = doc
    BY <2>1 DEF LayersInv, DiskInv
  <2> QED
    BY <2>2, <2>3 DEF LayersInv, FilesKind
<1> QED
  BY <1>1, <1>2, <1>3, <1>4, DiskSteps

LEMMA StepAgents ==
  ASSUME LayersInv, [Next]_vars
  PROVE  /\ disk'.agents # disk.agents => Running
         /\ PromptInv'
<1>1. CASE UNCHANGED <<disk, inited>>
  BY <1>1 DEF LayersInv, PromptInv, Lined
<1>2. CASE writeStarterConfig /\ inited' = inited
  <2>1. PICK bin, local :
          disk' = [disk EXCEPT !.config = [user |-> @.user, bin |-> bin, local |-> local]]
    BY <1>2 DEF writeStarterConfig
  <2>2. disk' = [config |-> [user |-> disk.config.user, bin |-> bin, local |-> local],
                 agents |-> disk.agents, skills |-> disk.skills]
    BY <2>1, Placed DEF LayersInv
  <2> QED
    BY <1>2, <2>2 DEF LayersInv, PromptInv, Lined
<1>3. ASSUME NEW reply \in scene.replies, FinishInit(reply) PROVE Running /\ PromptInv'
  BY <1>3, InitedText DEF LayersInv, FinishInit
<1>4. ASSUME NEW doc, Edit(doc) PROVE disk'.agents = disk.agents /\ PromptInv'
  <2>1. disk' = [disk EXCEPT !.config.local = doc] /\ inited' = inited
    BY <1>4 DEF Edit
  <2>2. disk'.agents = disk.agents
    BY <2>1 DEF LayersInv, DiskInv
  <2> QED
    BY <2>1, <2>2 DEF LayersInv, PromptInv, Lined
<1> QED
  BY <1>1, <1>2, <1>3, <1>4, DiskSteps

LEMMA StepLayers == LayersInv /\ [Next]_vars => LayersInv'
<1> SUFFICES ASSUME LayersInv, [Next]_vars PROVE LayersInv'
  OBVIOUS
<1>1. SceneInv' /\ scene' = scene
  BY SceneStays DEF LayersInv, SceneInv
<1>2. DiskInv'
  BY StepDisk DEF LayersInv
<1> QED
  BY <1>1, <1>2, StepFiles, StepAgents DEF LayersInv

\* What moves a launch on.
LEMMA PhaseSteps ==
  ASSUME [Next]_vars
  PROVE  /\ phase = "shell" /\ (phase' = "starting" \/ launch' # launch) =>
              \E x \in {Absent} \cup scene.docs : Launch(x)
         /\ phase' = "running" /\ phase # "running" => Started
<1> DEFINE Moves == /\ ~(phase = "shell" /\ (phase' = "starting" \/ launch' # launch))
                    /\ ~(phase' = "running" /\ phase # "running")
<1> USE DEF programVars, launchVars, setupVars, logVars
<1>1. ASSUME NEW x, Launch(x) PROVE phase = "shell" /\ phase' # "running"
  BY <1>1 DEF Launch, Configured, ConfigError
<1>2. CASE SpawnServer \/ SpawnFails \/ NotHandshaken
  BY <1>2 DEF SpawnServer, SpawnFails, NotHandshaken
<1>3. CASE Started
  BY <1>3 DEF Started
<1>4. ASSUME NEW remote, Handshaken(remote) PROVE Moves
  BY <1>4 DEF Handshaken
<1>5. CASE \/ \E reply \in scene.replies : FinishInit(reply)
           \/ \E p \in scene.pages, chars \in AskedChars : CallFetch(p, chars)
           \/ FetchStep
  BY <1>5 DEF FinishInit, CallFetch, FetchStep
<1>6. CASE Quit \/ CloseNext \/ Destroys
  BY <1>6 DEF Quit, CloseNext, Destroys
<1>7. CASE Ended_Program \/ Dies
  BY <1>7 DEF Ended_Program, Dies
<1>8. CASE World_Next \/ Done \/ UNCHANGED vars
  BY <1>8 DEF World_Next, JobStarts, JobEnds, Edit, ServerStep, Done, vars
<1> QED
  BY <1>1, <1>2, <1>3, <1>4, <1>5, <1>6, <1>7, <1>8 DEF Next, Program_Next

Configures ==
  /\ phase = "shell" /\ phase' = "starting" =>
       /\ MeansLayers(cfg', disk.config, extra', scene.env)
       /\ disk.agents.local # <<>> => prompt' = disk.agents.local
       /\ disk.agents.local = <<>> /\ disk.agents.bin # <<>> => prompt' = disk.agents.bin
       /\ disk.agents.local = <<>> /\ disk.agents.bin = <<>> => prompt' = <<cfg'.system_prompt>>
       /\ inited # <<>> => prompt' = Lined(inited)
  /\ phase = "shell" /\ launch' # launch /\ phase' = "shell" =>
       ~MeansLayers([loadConfig(disk.config, extra', scene.env) EXCEPT !.error = ""],
                    disk.config, extra', scene.env)

LEMMA PromptIs ==
  ASSUME NEW config
  PROVE  resolveSystemPrompt(config) =
           IF disk.agents.local # <<>> THEN disk.agents.local
           ELSE IF disk.agents.bin # <<>> THEN disk.agents.bin ELSE <<config.system_prompt>>
<1>1. PICK candidates : candidates = <<disk.agents.local, disk.agents.bin>>
  OBVIOUS
<1>2. candidates[1] = disk.agents.local /\ candidates[2] = disk.agents.bin
      /\ DOMAIN candidates = {1, 2}
  BY <1>1
<1>3. PICK filled \in SUBSET {1, 2} : filled = {i \in DOMAIN candidates : candidates[i] # <<>>}
  BY <1>2
<1>4. resolveSystemPrompt(config) =
        IF filled = {} THEN <<config.system_prompt>> ELSE candidates[Min(filled)]
  BY <1>1, <1>3 DEF resolveSystemPrompt
<1>5. 1 \in filled => Min(filled) = 1
  <2> SUFFICES ASSUME 1 \in filled PROVE Min(filled) = 1
    OBVIOUS
  <2>1. Min(filled) \in filled /\ \A j \in filled : Min(filled) <= j
    <3>1. filled \in SUBSET (1..2) /\ filled # {}
      OBVIOUS
    <3> QED
      BY <3>1, FirstPlace
  <2>2. PICK i \in {1, 2} : i = Min(filled) /\ i <= 1
    BY <2>1
  <2> QED
    BY <2>2
<1>6. filled = {2} => Min(filled) = 2
  BY DEF Min
<1>7. (1 \in filled <=> disk.agents.local # <<>>) /\ (2 \in filled <=> disk.agents.bin # <<>>)
  BY <1>2, <1>3
<1>8. filled = {} \/ 1 \in filled \/ filled = {2}
  OBVIOUS
<1> QED
  BY <1>2, <1>4, <1>5, <1>6, <1>7, <1>8

LEMMA StepConfigures == LayersInv /\ [Next]_vars => Configures
<1> SUFFICES ASSUME LayersInv, [Next]_vars,
                    phase = "shell" /\ (phase' = "starting" \/ launch' # launch)
             PROVE  Configures
  BY DEF Configures
<1>1. PICK x \in {Absent} \cup scene.docs : Launch(x)
  BY PhaseSteps
<1>2. x \in ConfFiles
  BY TextsAssumption DEF LayersInv, SceneInv, ConfFiles
<1>3. PICK files : files = disk.config
  OBVIOUS
<1>4. PICK env : env = scene.env
  OBVIOUS
<1>5. FilesKind(files)
  BY <1>3 DEF LayersInv
<1>6. PICK config : config = loadConfig(files, x, env)
  OBVIOUS
<1>7. /\ extra' = x
      /\ IF config.error = "" THEN Configured(config) ELSE ConfigError
  BY <1>1, <1>3, <1>4, <1>6 DEF Launch
<1>8. CASE config.error = ""
  <2>1. MeansLayers(config, files, x, env)
    BY <1>2, <1>5, <1>6, <1>8, LoadedMeans
  <2>2. phase' = "starting" /\ cfg' = config /\ prompt' = resolveSystemPrompt(config)
    BY <1>7, <1>8 DEF Configured
  <2>3. prompt' = IF disk.agents.local # <<>> THEN disk.agents.local
                  ELSE IF disk.agents.bin # <<>> THEN disk.agents.bin ELSE <<config.system_prompt>>
    BY <2>2, PromptIs
  <2>4. inited # <<>> => disk.agents.local = Lined(inited) /\ Lined(inited) # <<>>
    BY LinedType DEF LayersInv, PromptInv
  <2>5. MeansLayers(cfg', disk.config, extra', scene.env)
    BY <1>3, <1>4, <1>7, <2>1, <2>2
  <2> QED
    BY <2>2, <2>3, <2>4, <2>5 DEF Configures
<1>9. CASE config.error # ""
  <2>1. ~MeansLayers([config EXCEPT !.error = ""], files, x, env)
    BY <1>2, <1>5, <1>6, <1>9, FailedMeansNot
  <2>2. phase' = "shell"
    BY <1>7, <1>9 DEF ConfigError
  <2>3. [loadConfig(disk.config, extra', scene.env) EXCEPT !.error = ""] = [config EXCEPT !.error = ""]
    BY <1>3, <1>4, <1>6, <1>7
  <2>4. ~MeansLayers([loadConfig(disk.config, extra', scene.env) EXCEPT !.error = ""],
                     disk.config, extra', scene.env)
    BY <1>3, <1>4, <1>7, <2>1, <2>3
  <2> QED
    BY <2>2, <2>4 DEF Configures
<1> QED
  BY <1>8, <1>9

\* The skills, and when AGENTS.md changes.
Reads ==
  /\ disk'.agents # disk.agents => Running
  /\ phase' = "running" /\ phase # "running" => MeansFiles(skills', disk.skills)

LEMMA StepReads == LayersInv /\ [Next]_vars => Reads
<1> SUFFICES ASSUME LayersInv, [Next]_vars PROVE Reads
  OBVIOUS
<1>1. ASSUME phase' = "running", phase # "running" PROVE MeansFiles(skills', disk.skills)
  <2>1. skills' = loadSkills(disk.skills)
    BY <1>1, PhaseSteps DEF Started
  <2>2. PICK dirs : dirs = disk.skills
    OBVIOUS
  <2>3. \A word \in Words(dirs) : lower(lower(word)) = lower(word)
    BY <2>2, LowerAssumption DEF LayersInv, SceneInv
  <2>4. MeansFiles(loadSkills(dirs), dirs)
    BY <2>3, LoadedSkillsMean
  <2> QED
    BY <2>1, <2>2, <2>4
<1> QED
  BY <1>1, StepAgents DEF Reads

\* A launch runs with what the files and the environment say, whatever they say: each
\* key's last value, the nearest AGENTS.md, what /init wrote if all of it is there, and
\* of every name the nearest skill; and one that does not run has a reason
\* (Config.hpp:98-108, SystemPrompt.cpp:18-26, App.cpp:285-289, Skill.hpp:42-44).
THEOREM LayersAlwaysInOrder == Spec => LayersInOrder
<1>1. LayersInv /\ [Next]_vars => [Configures /\ Reads]_vars
  BY StepConfigures, StepReads
<1>2. Init /\ [][Next]_vars => [][Configures /\ Reads]_vars
  BY <1>1, InitLayers, StepLayers, PTL
<1> QED
  BY <1>2, PTL DEF Spec, LayersInOrder, Configures, Reads

-----------------------------------------------------------------------------
(* Types: what a launch may own.  A server that has been started is one of *)
(* a launch there has been, and only a program that runs holds pipes and   *)
(* receives pages.                                                          *)

ServersInv ==
  /\ proc \in [Procs -> {"none", "running", "exited", "reaped"}]
  /\ writers \in [Procs -> SUBSET (Procs \cup {Program, Job})]
  /\ termed \subseteq Procs
  /\ kept \in Seq(Procs)
  /\ closing \in Procs \cup {Nobody}
  /\ polls \in 0..(MaxPolls + 1)

PhaseInv ==
  /\ phase \in {"shell", "starting", "running", "quitting"}
  /\ launch \in 0..MaxLaunches
  /\ phase # "shell" => launch \in 1..MaxLaunches
  /\ phase = "shell" => kept = <<>> /\ closing = Nobody
  /\ cfg.error = ""
  /\ said \in {"", Created.bin, Created.local, "create one", "edit it"}

LivesInv == \A p \in Procs : proc[p] # "none" => p[1] <= launch

TransferInv ==
  /\ transfer \in {"none", "receiving", "done"}
  /\ transfer = "receiving" => phase = "running" /\ Len(body) <= MaxBytes

TypeInv == ServersInv /\ PhaseInv /\ LivesInv /\ TransferInv

\* The process make_mcp_tools is about to start or to hear from.
LEMMA ProcIsOne ==
  ASSUME SceneInv, StartingInv, PhaseInv, Connecting
  PROVE  Proc(Head(starting)) \in Procs /\ Proc(Head(starting))[1] = launch
<1>1. Head(starting) \in Servers
  BY HeadTailProperties DEF StartingInv, Connecting
<1>2. launch \in 1..MaxLaunches
  BY DEF PhaseInv, Connecting
<1>3. (1..MaxLaunches) \X Servers \subseteq Procs
  BY ProcsAssumption DEF SceneInv, Servers
<1> QED
  BY <1>1, <1>2, <1>3 DEF Proc

\* The steps that touch the processes.
LEMMA ServerSteps ==
  ASSUME [Next]_vars
  PROVE  \/ UNCHANGED mcpVars
         \/ Connecting /\ Spawn(Proc(Head(starting)))
         \/ Connecting /\ Keep(Proc(Head(starting)))
         \/ Connecting /\ ClosePipes(Proc(Head(starting))) /\ kept' = kept
         \/ kept # <<>> /\ ClosePipes(Head(kept)) /\ kept' = Tail(kept)
         \/ Poll \/ Terminate \/ Reap \/ Abandon
         \/ \E p \in Procs : Exits(p)
         \/ /\ \E holder \in {Program, Job} : writers' \in {Inherits(holder), Releases(holder)}
            /\ UNCHANGED <<proc, termed, kept, closing, polls>>
<1>1. ASSUME NEW x, Launch(x) PROVE UNCHANGED mcpVars
  BY <1>1 DEF Launch
<1>2. SpawnServer => Connecting /\ Spawn(Proc(Head(starting)))
  BY DEF SpawnServer
<1>3. SpawnFails \/ Started => UNCHANGED mcpVars
  BY DEF SpawnFails, Started
<1>4. NotHandshaken => Connecting /\ ClosePipes(Proc(Head(starting))) /\ kept' = kept
  BY DEF NotHandshaken
<1>5. ASSUME NEW remote, Handshaken(remote) PROVE Connecting /\ Keep(Proc(Head(starting)))
  BY <1>5 DEF Handshaken
<1>6. CASE \/ \E reply \in scene.replies : FinishInit(reply)
           \/ \E p \in scene.pages, chars \in AskedChars : CallFetch(p, chars)
           \/ FetchStep \/ Quit \/ Ended_Program
  BY <1>6 DEF FinishInit, CallFetch, FetchStep, Quit, Ended_Program
<1>7. CloseNext => kept # <<>> /\ ClosePipes(Head(kept)) /\ kept' = Tail(kept)
  BY DEF CloseNext
<1>8. (Destroys => Poll \/ Terminate \/ Reap) /\ (Dies => Abandon)
  BY DEF Destroys, Dies
<1>9. JobStarts \/ JobEnds =>
        /\ \E holder \in {Program, Job} : writers' \in {Inherits(holder), Releases(holder)}
        /\ UNCHANGED <<proc, termed, kept, closing, polls>>
  BY DEF JobStarts, JobEnds
<1>10. CASE \E doc \in scene.docs : Edit(doc)
  BY <1>10 DEF Edit
<1>11. ASSUME NEW p \in Procs, ServerStep(p) PROVE Exits(p)
  BY <1>11 DEF ServerStep
<1>12. Done \/ UNCHANGED vars => UNCHANGED mcpVars
  BY DEF Done, vars
<1> QED
  BY <1>1, <1>2, <1>3, <1>4, <1>5, <1>6, <1>7, <1>8, <1>9, <1>10, <1>11, <1>12
     DEF Next, Program_Next, World_Next

\* Who holds a pipe: the program, a command in the background or a server.
LEMMA Holders ==
  ASSUME ServersInv, NEW child \in Procs \cup {Program, Job}
  PROVE  /\ Inherits(child) \in [Procs -> SUBSET (Procs \cup {Program, Job})]
         /\ Releases(child) \in [Procs -> SUBSET (Procs \cup {Program, Job})]
BY DEF ServersInv, Inherits, Releases

LEMMA StepServers ==
  ASSUME SceneInv, StartingInv, TypeInv, [Next]_vars
  PROVE  ServersInv' /\ \A p \in Procs : proc'[p] # "none" => proc[p] # "none" \/ p[1] = launch
<1> USE DEF TypeInv
<1> DEFINE Lives == \A p \in Procs : proc'[p] # "none" => proc[p] # "none" \/ p[1] = launch
           Pids == SUBSET (Procs \cup {Program, Job})
<1>1. CASE UNCHANGED mcpVars
  BY <1>1 DEF mcpVars, ServersInv
<1>2. CASE Connecting /\ Spawn(Proc(Head(starting)))
  <2>1. PICK p \in Procs : p = Proc(Head(starting)) /\ p[1] = launch
    BY <1>2, ProcIsOne
  <2>2. Inherits(p) \in [Procs -> Pids]
    BY Holders
  <2> HIDE DEF Pids
  <2>3. {Program} \in Pids
    BY DEF Pids
  <2>4. writers' \in [Procs -> Pids]
    BY <1>2, <2>1, <2>2, <2>3 DEF Spawn
  <2>5. proc' = [proc EXCEPT ![p] = "running"] /\ UNCHANGED <<termed, kept, closing, polls>>
    BY <1>2, <2>1 DEF Spawn
  <2>6. Lives
    BY <2>1, <2>5 DEF ServersInv
  <2> QED
    BY <2>4, <2>5, <2>6 DEF ServersInv, Pids
<1>3. CASE Connecting /\ Keep(Proc(Head(starting)))
  <2>1. PICK p \in Procs : p = Proc(Head(starting))
    BY <1>3, ProcIsOne
  <2>2. kept' \in Seq(Procs) /\ UNCHANGED <<proc, writers, termed, closing, polls>>
    BY <1>3, <2>1, AppendProperties DEF Keep, ServersInv
  <2> QED
    BY <2>2 DEF ServersInv
<1>4. ASSUME NEW p \in Procs, ClosePipes(p), kept' \in Seq(Procs)
      PROVE  ServersInv' /\ Lives
  <2>1. writers' \in [Procs -> Pids]
    BY <1>4 DEF ClosePipes, ServersInv
  <2>2. polls' \in 0..(MaxPolls + 1)
    BY <1>4, MaxPollsAssumption DEF ClosePipes
  <2> QED
    BY <1>4, <2>1, <2>2 DEF ClosePipes, ServersInv
<1>5. CASE Connecting /\ ClosePipes(Proc(Head(starting))) /\ kept' = kept
  <2>1. kept' \in Seq(Procs)
    BY <1>5 DEF ServersInv
  <2> QED
    BY <1>4, <1>5, <2>1, ProcIsOne
<1>6. CASE kept # <<>> /\ ClosePipes(Head(kept)) /\ kept' = Tail(kept)
  <2>1. Head(kept) \in Procs /\ kept' \in Seq(Procs)
    BY <1>6, HeadTailProperties DEF ServersInv
  <2> QED
    BY <1>4, <1>6, <2>1
<1>7. CASE Poll
  <2>1. polls' \in 0..(MaxPolls + 1)
    BY <1>7, MaxPollsAssumption DEF Poll, ServersInv
  <2> QED
    BY <1>7, <2>1 DEF Poll, ServersInv
<1>8. CASE Terminate
  <2>1. polls' \in 0..(MaxPolls + 1)
    BY <1>8, MaxPollsAssumption DEF Terminate
  <2>2. termed' \subseteq Procs
    BY <1>8 DEF Terminate, ServersInv
  <2> QED
    BY <1>8, <2>1, <2>2 DEF Terminate, ServersInv
<1>9. CASE Reap
  BY <1>9 DEF Reap, ServersInv
<1>10. CASE Abandon
  <2>1. writers' \in [Procs -> Pids]
    BY <1>10, Holders DEF Abandon
  <2> QED
    BY <1>10, <2>1, EmptySeq DEF Abandon, ServersInv
<1>11. ASSUME NEW p \in Procs, Exits(p) PROVE ServersInv' /\ Lives
  <2>1. writers' \in [Procs -> Pids]
    BY <1>11, Holders DEF Exits
  <2>2. proc' = [proc EXCEPT ![p] = "exited"] /\ proc[p] = "running"
        /\ UNCHANGED <<termed, kept, closing, polls>>
    BY <1>11 DEF Exits
  <2> QED
    BY <2>1, <2>2 DEF ServersInv
<1>12. CASE /\ \E holder \in {Program, Job} : writers' \in {Inherits(holder), Releases(holder)}
            /\ UNCHANGED <<proc, termed, kept, closing, polls>>
  <2>1. writers' \in [Procs -> Pids]
    BY <1>12, Holders
  <2> QED
    BY <1>12, <2>1 DEF ServersInv
<1> QED
  BY <1>1, <1>2, <1>3, <1>5, <1>6, <1>7, <1>8, <1>9, <1>10, <1>11, <1>12, ServerSteps

LEMMA StepPhase == PhaseInv /\ [Next]_vars => PhaseInv' /\ launch' \in {launch, launch + 1}
<1> SUFFICES ASSUME PhaseInv, [Next]_vars PROVE PhaseInv' /\ launch' \in {launch, launch + 1}
  OBVIOUS
<1> USE DEF programVars, launchVars, setupVars, logVars, mcpVars
<1>1. ASSUME NEW x, Launch(x) PROVE PhaseInv' /\ launch' = launch + 1
  <2> DEFINE config == loadConfig(disk.config, x, scene.env)
  <2>1. launch \in 0..MaxLaunches /\ launch < MaxLaunches /\ launch' = launch + 1
    BY <1>1 DEF Launch, PhaseInv
  <2>2. launch' = launch + 1 /\ launch' \in 0..MaxLaunches /\ launch' \in 1..MaxLaunches
    BY ONLY <2>1, MaxLaunchesAssumption
  <2>3. \/ config.error = "" /\ Configured(config)
        \/ ConfigError
    BY <1>1 DEF Launch
  <2>4. phase = "shell" /\ UNCHANGED <<kept, closing>>
    BY <1>1 DEF Launch
  <2> HIDE DEF config
  <2>5. CASE config.error = "" /\ Configured(config)
    <3>1. phase' = "starting" /\ cfg' = config /\ said' = ""
      BY <2>5 DEF Configured
    <3> QED
      BY <2>2, <2>5, <3>1 DEF PhaseInv
  <2>6. CASE ConfigError
    <3>1. said' \in {"", Created.bin, Created.local, "create one", "edit it"}
      BY <2>6 DEF ConfigError, writeStarterConfig
    <3>2. UNCHANGED <<phase, cfg>>
      BY <2>6 DEF ConfigError
    <3> QED
      BY <2>2, <2>4, <3>1, <3>2 DEF PhaseInv
  <2> QED
    BY <2>2, <2>3, <2>5, <2>6
<1>2. CASE SpawnServer \/ SpawnFails \/ NotHandshaken
  BY <1>2 DEF SpawnServer, SpawnFails, NotHandshaken, Spawn, ClosePipes, Connecting, PhaseInv
<1>3. CASE Started
  BY <1>3 DEF Started, PhaseInv
<1>4. ASSUME NEW remote, Handshaken(remote) PROVE PhaseInv' /\ launch' = launch
  BY <1>4 DEF Handshaken, Keep, Connecting, PhaseInv
<1>5. CASE \/ \E reply \in scene.replies : FinishInit(reply)
           \/ \E p \in scene.pages, chars \in AskedChars : CallFetch(p, chars)
           \/ FetchStep
  BY <1>5 DEF FinishInit, CallFetch, FetchStep, PhaseInv
<1>6. CASE Quit
  BY <1>6 DEF Quit, Running, PhaseInv
<1>7. CASE CloseNext \/ Destroys
  BY <1>7 DEF CloseNext, ClosePipes, Destroys, Poll, Terminate, Reap, PhaseInv
<1>8. CASE Ended_Program \/ Dies
  <2>1. phase' = "shell" /\ kept' = <<>> /\ closing' = Nobody
    BY <1>8 DEF Ended_Program, Dies, Abandon
  <2>2. cfg' = DefaultConfig /\ UNCHANGED <<launch, said>>
    BY <1>8 DEF Ended_Program, Dies, Forget, NotRunning
  <2> QED
    BY <2>1, <2>2 DEF PhaseInv, DefaultConfig
<1>9. CASE JobStarts \/ JobEnds \/ Done \/ UNCHANGED vars
  BY <1>9 DEF JobStarts, JobEnds, Done, vars, PhaseInv
<1>10. CASE \E doc \in scene.docs : Edit(doc)
  BY <1>10 DEF Edit, PhaseInv
<1>11. CASE \E p \in Procs : ServerStep(p)
  BY <1>11 DEF ServerStep, Exits, PhaseInv
<1> QED
  BY <1>1, <1>2, <1>3, <1>4, <1>5, <1>6, <1>7, <1>8, <1>9, <1>10, <1>11
     DEF Next, Program_Next, World_Next

LEMMA StepLives ==
  ASSUME SceneInv, StartingInv, TypeInv, [Next]_vars
  PROVE  LivesInv'
<1>1. launch \in Nat /\ launch' \in {launch, launch + 1}
  <2>1. PhaseInv
    BY DEF TypeInv
  <2>2. launch \in 0..MaxLaunches
    BY <2>1 DEF PhaseInv
  <2>3. launch \in Nat
    BY ONLY <2>2, MaxLaunchesAssumption
  <2> QED
    BY <2>1, <2>3, StepPhase
<1>2. ASSUME NEW p \in Procs, proc'[p] # "none" PROVE p[1] <= launch'
  <2>1. p[1] \in Nat
    BY ProcsAssumption
  <2>2. p[1] <= launch
    <3>1. CASE proc[p] # "none"
      BY <3>1 DEF TypeInv, LivesInv
    <3>2. CASE p[1] = launch
      BY <1>1, <3>2
    <3> QED
      BY <1>2, <3>1, <3>2, StepServers
  <2> QED
    BY ONLY <1>1, <2>1, <2>2
<1> QED
  BY <1>2 DEF LivesInv

\* A piece of a page is received whole, within the cap, or the transfer is done.
LEMMA StepFetch ==
  ASSUME FetchNext
  PROVE  transfer' = "done" \/ (transfer' = transfer /\ Len(body') <= MaxBytes)
<1>1. ASSUME NEW n, Receive(n)
      PROVE  transfer' = "done" \/ (transfer' = transfer /\ Len(body') <= MaxBytes)
  BY <1>1 DEF Receive, Ended
<1>2. Received \/ TransferFails => transfer' = "done"
  BY DEF Received, TransferFails, Ended
<1> QED
  BY <1>1, <1>2 DEF FetchNext

LEMMA StepTransfer == TransferInv /\ [Next]_vars => TransferInv'
<1> SUFFICES ASSUME TransferInv, [Next]_vars PROVE TransferInv'
  OBVIOUS
<1> USE DEF programVars, launchVars, fetchVars, Running, Connecting
<1>1. CASE UNCHANGED <<transfer, body>> /\ (transfer = "receiving" => phase' = phase)
  BY <1>1 DEF TransferInv
<1>2. ASSUME NEW x, Launch(x)
      PROVE  UNCHANGED <<transfer, body>> /\ (transfer = "receiving" => phase' = phase)
  BY <1>2 DEF Launch, TransferInv
<1>3. CASE SpawnServer \/ SpawnFails \/ NotHandshaken
  BY <1>1, <1>3 DEF SpawnServer, SpawnFails, NotHandshaken
<1>4. CASE Started
  BY <1>1, <1>4 DEF Started, TransferInv
<1>5. ASSUME NEW remote, Handshaken(remote) PROVE TransferInv'
  BY <1>1, <1>5 DEF Handshaken
<1>6. ASSUME NEW reply, FinishInit(reply) PROVE TransferInv'
  BY <1>1, <1>6 DEF FinishInit
<1>7. ASSUME NEW p, NEW chars, CallFetch(p, chars) PROVE TransferInv'
  <2>1. transfer' = "receiving" /\ body' = <<>> /\ phase' = "running"
    BY <1>7 DEF CallFetch, Fetch
  <2>2. Len(body') <= MaxBytes
    BY <2>1, EmptySeq, FetchBoundsAssumption
  <2> QED
    BY <2>1, <2>2 DEF TransferInv
<1>8. CASE FetchStep
  BY <1>8, StepFetch DEF FetchStep, TransferInv
<1>9. CASE Quit
  BY <1>9 DEF Quit, TransferInv
<1>10. CASE CloseNext \/ Destroys
  BY <1>1, <1>10 DEF CloseNext, Destroys
<1>11. CASE Ended_Program
  BY <1>1, <1>11 DEF Ended_Program, TransferInv
<1>12. CASE Dies
  BY <1>12 DEF Dies, TransferInv
<1>13. CASE JobStarts \/ JobEnds \/ Done \/ UNCHANGED vars
  BY <1>1, <1>13 DEF JobStarts, JobEnds, Done, vars
<1>14. CASE \E doc \in scene.docs : Edit(doc)
  BY <1>1, <1>14 DEF Edit
<1>15. CASE \E p \in Procs : ServerStep(p)
  BY <1>1, <1>15 DEF ServerStep
<1> QED
  BY <1>1, <1>2, <1>3, <1>4, <1>5, <1>6, <1>7, <1>8, <1>9, <1>10, <1>11, <1>12, <1>13, <1>14,
     <1>15 DEF Next, Program_Next, World_Next

LEMMA InitTypes == Init => TypeInv
<1> SUFFICES ASSUME Init PROVE TypeInv
  OBVIOUS
<1>1. ServersInv /\ LivesInv
  <2>1. proc = [p \in Procs |-> "none"] /\ writers = [p \in Procs |-> {}]
        /\ termed = {} /\ kept = <<>> /\ closing = Nobody /\ polls = 0
    BY DEF Init, McpInit
  <2>2. polls \in 0..(MaxPolls + 1)
    BY <2>1, MaxPollsAssumption
  <2> QED
    BY <2>1, <2>2, EmptySeq DEF ServersInv, LivesInv
<1>2. PhaseInv
  <2>1. phase = "shell" /\ launch = 0 /\ cfg = DefaultConfig /\ said = ""
        /\ kept = <<>> /\ closing = Nobody
    BY DEF Init, McpInit, NotRunning
  <2>2. launch \in 0..MaxLaunches
    <3>1. launch = 0
      BY <2>1
    <3> QED
      BY ONLY <3>1, MaxLaunchesAssumption
  <2>3. cfg.error = ""
    BY <2>1 DEF DefaultConfig
  <2> QED
    BY <2>1, <2>2, <2>3 DEF PhaseInv
<1>3. TransferInv
  BY DEF Init, FetchInit, TransferInv
<1> QED
  BY <1>1, <1>2, <1>3 DEF TypeInv

\* Every server process that has been started is one of a launch there has been; a
\* program that has ended holds none; a page is received while one runs, within the
\* cap of a transfer (Transport.cpp:28-55, HttpClient.cpp:94-95): LaunchTypeOK for
\* any disk, servers and pages.
THEOREM LaunchTypes == Spec => []LaunchTypeOK
<1>1. Init => NamesInv /\ TypeInv
  BY InitNames, InitTypes
<1>2. NamesInv /\ TypeInv /\ [Next]_vars => (NamesInv /\ TypeInv)'
  <2> SUFFICES ASSUME NamesInv, TypeInv, [Next]_vars PROVE NamesInv' /\ TypeInv'
    OBVIOUS
  <2>1. SceneInv /\ StartingInv
    BY DEF NamesInv
  <2>2. ServersInv' /\ LivesInv'
    BY <2>1, StepServers, StepLives
  <2>3. PhaseInv' /\ TransferInv'
    BY StepPhase, StepTransfer DEF TypeInv
  <2> QED
    BY <2>2, <2>3, StepNames DEF TypeInv
<1>3. TypeInv => LaunchTypeOK
  <2> SUFFICES ASSUME TypeInv PROVE LaunchTypeOK
    OBVIOUS
  <2>1. ToSet(kept) \subseteq Procs
    BY LenProperties, ElementOfSeq DEF TypeInv, ServersInv, ToSet
  <2>2. McpTypeOK
    BY <2>1 DEF TypeInv, ServersInv, McpTypeOK
  <2>3. \A p \in Procs : proc[p] # "none" => p[1] <= launch
    BY DEF TypeInv, LivesInv
  <2> QED
    BY <2>2, <2>3 DEF TypeInv, PhaseInv, TransferInv, LaunchTypeOK
<1>4. Init /\ [][Next]_vars => []LaunchTypeOK
  BY <1>1, <1>2, <1>3, PTL
<1> QED
  BY <1>4, PTL DEF Spec

-----------------------------------------------------------------------------
(* The pages of the web.  html_to_text is three folds, one after the other: *)
(* what each makes of the beginning of a page is, but for an entity that    *)
(* was cut, the beginning of what it makes of the page.                     *)

\* The tokens of pages and texts; that literals are strings is unknown to the provers.
Tokens == Strings \cup {Tab, Newline, Entity, "<", ">", "", "</script", "</style"}

\* t begins with s.

\* The same, but that t may have decoded an entity at the end of s.
Almost(s, t) ==
  /\ Len(s) <= Len(t)
  /\ \A i \in 1..Len(s) : s[i] = t[i] \/ (i = Len(s) /\ s[i] = Entity /\ t[i] = "<")

DropKinds == [out : Seq(Tokens), skip : Tokens]
CollapseKinds == [out : Seq(Tokens), space : BOOLEAN, newlines : Nat]

LEMMA Literals ==
  /\ {Tab, Newline, Entity, "<", ">", ""} \subseteq Tokens
  /\ \A tag : Closing(tag) \in Tokens
BY DEF Tokens, Closing

LEMMA AppendBegins ==
  ASSUME NEW s \in Seq(Tokens), NEW token \in Tokens
  PROVE  Append(s, token) \in Seq(Tokens) /\ Begins(s, Append(s, token))
BY DEF Begins

LEMMA BeginsItself ==
  ASSUME NEW s \in Seq(Tokens)
  PROVE  Begins(s, s)
BY DEF Begins

LEMMA DropTagStep ==
  ASSUME NEW s \in DropKinds, NEW token \in Tokens
  PROVE  DropTag(s, token) \in DropKinds /\ Begins(s.out, DropTag(s, token).out)
<1>1. s.out \in Seq(Tokens) /\ s.skip \in Tokens
  BY DEF DropKinds
<1>2. CASE s.skip # "" /\ token = s.skip
  <2>1. PICK to \in Tokens : to = IF token = ">" THEN "" ELSE ">"
    BY Literals
  <2>2. DropTag(s, token) = [s EXCEPT !.skip = to]
    BY <1>2, <2>1, Zenon DEF DropTag
  <2> QED
    BY <1>1, <2>2, BeginsItself DEF DropKinds
<1>3. CASE s.skip # "" /\ token # s.skip
  <2>1. DropTag(s, token) = s
    BY <1>3, Zenon DEF DropTag
  <2> QED
    BY <1>1, <2>1, BeginsItself
<1>4. CASE s.skip = "" /\ ~Opens(token)
  <2>1. PICK mark \in Tokens : mark = IF token = Newline THEN Tab ELSE token
    BY Literals
  <2>2. DropTag(s, token) = [s EXCEPT !.out = Append(@, mark)]
    BY <1>4, <2>1, Zenon DEF DropTag
  <2> QED
    BY <1>1, <2>2, AppendBegins DEF DropKinds
<1>5. CASE s.skip = "" /\ Opens(token)
  <2>1. PICK mark \in Tokens : mark = IF token \in BlockTags \cup Verbatim THEN Newline ELSE Tab
    BY Literals
  <2>2. PICK to \in Tokens : to = IF token \in Verbatim THEN Closing(token) ELSE ">"
    BY Literals
  <2>3. DropTag(s, token) = [out |-> Append(s.out, mark), skip |-> to]
    BY <1>5, <2>1, <2>2, Zenon DEF DropTag
  <2> QED
    BY <1>1, <2>3, AppendBegins DEF DropKinds
<1> QED
  BY <1>2, <1>3, <1>4, <1>5

LEMMA DecodeStep ==
  ASSUME NEW out \in Seq(Tokens), NEW token \in Tokens
  PROVE  /\ Decode(out, token) \in Seq(Tokens)
         /\ Almost(out, Decode(out, token))
<1>1. PICK n \in Nat : n = Len(out)
  BY LenProperties
<1>2. CASE token = ";" /\ out # <<>> /\ Last(out) = Entity
  <2>1. Decode(out, token) = Append(Front(out), "<")
    BY <1>2, Zenon DEF Decode
  <2>2. n > 0 /\ out[n] = Entity
    <3>1. n # 0
      BY <1>1, <1>2, EmptySeq
    <3>2. out[n] = Entity
      BY <1>1, <1>2 DEF Last
    <3> QED
      BY <3>1, <3>2
  <2>3. Front(out) \in Seq(Tokens) /\ Len(Front(out)) = n - 1
        /\ \A i \in 1..n - 1 : Front(out)[i] = out[i]
    BY <1>1, <2>2 DEF Front
  <2>4. PICK f \in Seq(Tokens) : f = Front(out)
    BY <2>3
  <2>5. PICK c \in Tokens : c = "<"
    BY Literals
  <2>6. /\ Append(f, c) \in Seq(Tokens) /\ Len(Append(f, c)) = n
        /\ \A i \in 1..n : Append(f, c)[i] = IF i < n THEN out[i] ELSE c
    BY <2>2, <2>3, <2>4
  <2> QED
    BY <1>1, <2>1, <2>2, <2>4, <2>5, <2>6 DEF Almost
<1>3. CASE ~(token = ";" /\ out # <<>> /\ Last(out) = Entity)
  <2>1. Decode(out, token) = Append(out, token)
    BY <1>3, Zenon DEF Decode
  <2>2. /\ Append(out, token) \in Seq(Tokens) /\ Len(Append(out, token)) = n + 1
        /\ \A i \in 1..n : Append(out, token)[i] = out[i]
    BY <1>1
  <2> QED
    BY <1>1, <2>1, <2>2 DEF Almost
<1> QED
  BY <1>2, <1>3

LEMMA BeginsTransitive ==
  ASSUME NEW s \in Seq(Tokens), NEW t \in Seq(Tokens), NEW u \in Seq(Tokens), Begins(s, t), Begins(t, u)
  PROVE  Begins(s, u)
<1>1. Len(s) \in Nat /\ Len(t) \in Nat /\ Len(u) \in Nat
  BY LenProperties
<1> QED
  BY <1>1 DEF Begins

LEMMA BeginsAlmost ==
  ASSUME NEW s \in Seq(Tokens), NEW t \in Seq(Tokens), Begins(s, t)
  PROVE  Almost(s, t)
BY DEF Begins, Almost

LEMMA AlmostTransitive ==
  ASSUME NEW s \in Seq(Tokens), NEW t \in Seq(Tokens), NEW u \in Seq(Tokens), Almost(s, t), Almost(t, u)
  PROVE  Almost(s, u)
<1>1. PICK k \in Nat, m \in Nat, n \in Nat : k = Len(s) /\ m = Len(t) /\ n = Len(u)
  BY LenProperties
<1>2. k <= m /\ m <= n
  BY <1>1 DEF Almost
<1>3. ASSUME NEW i \in 1..k
      PROVE  s[i] = u[i] \/ (i = k /\ s[i] = Entity /\ u[i] = "<")
  <2>1. i \in 1..m
    BY <1>2
  <2>2. s[i] = t[i] \/ (i = k /\ s[i] = Entity /\ t[i] = "<")
    BY <1>1 DEF Almost
  <2>3. t[i] = u[i] \/ (i = m /\ t[i] = Entity /\ u[i] = "<")
    BY <1>1, <2>1 DEF Almost
  <2>4. i = m => i = k
    BY <1>2
  <2> QED
    BY <2>2, <2>3, <2>4 DEF Entity
<1> QED
  BY <1>1, <1>2, <1>3 DEF Almost

\* The texts between, whatever was seen.
LEMMA BetweenType ==
  ASSUME NEW s \in CollapseKinds
  PROVE  Between(s) \in Seq(Tokens)
<1>1. Tab \in Tokens /\ Newline \in Tokens
  BY Literals
<1>2. PICK tab \in Tokens, line \in Tokens : tab = Tab /\ line = Newline
  BY <1>1
<1>3. <<>> \in Seq(Tokens) /\ <<tab>> \in Seq(Tokens) /\ <<line>> \in Seq(Tokens)
      /\ <<line, line>> \in Seq(Tokens)
  OBVIOUS
<1>4. Between(s) \in {<<>>, <<tab>>, <<line>>, <<line, line>>}
  BY <1>2, Zenon DEF Between
<1> QED
  BY <1>3, <1>4

LEMMA CollapseStep ==
  ASSUME NEW s \in CollapseKinds, NEW token \in Tokens
  PROVE  /\ Collapse(s, token) \in CollapseKinds
         /\ Begins(s.out, Collapse(s, token).out)
<1>1. s.out \in Seq(Tokens) /\ s.space \in BOOLEAN /\ s.newlines \in Nat
  BY DEF CollapseKinds
<1>2. CASE token = Tab
  <2>1. Collapse(s, token) = [s EXCEPT !.space = TRUE]
    BY <1>2, Zenon DEF Collapse
  <2> QED
    BY <1>1, <2>1, BeginsItself DEF CollapseKinds
<1>3. CASE token # Tab /\ token = Newline
  <2>1. Collapse(s, token) = [s EXCEPT !.space = FALSE, !.newlines = s.newlines + 1]
    BY <1>3, Zenon DEF Collapse
  <2>2. PICK k \in Nat : k = s.newlines + 1
    BY <1>1
  <2>3. Collapse(s, token) = [out |-> s.out, space |-> FALSE, newlines |-> k]
    BY <2>1, <2>2 DEF CollapseKinds
  <2> QED
    BY <1>1, <2>3, BeginsItself DEF CollapseKinds
<1>4. CASE token # Tab /\ token # Newline
  <2>1. PICK between \in Seq(Tokens) : between = Between(s)
    BY BetweenType
  <2>2. PICK out \in Seq(Tokens) : out = s.out \o between \o <<token>>
    <3>1. PICK old \in Seq(Tokens) : old = s.out
      BY <1>1
    <3>2. old \o between \o <<token>> \in Seq(Tokens)
      OBVIOUS
    <3> QED
      BY <3>1, <3>2
  <2>3. Begins(s.out, out)
    <3>1. PICK old \in Seq(Tokens) : old = s.out
      BY <1>1
    <3>2. Begins(old, old \o between) /\ old \o between \in Seq(Tokens)
      BY DEF Begins
    <3>3. PICK before \in Seq(Tokens) : before = old \o between
      BY <3>2
    <3>4. Begins(before, before \o <<token>>)
      BY DEF Begins
    <3> QED
      BY <2>2, <3>1, <3>2, <3>3, <3>4, BeginsTransitive
  <2>4. Collapse(s, token) = [out |-> out, space |-> FALSE, newlines |-> 0]
    BY <1>4, <2>1, <2>2, Zenon DEF Collapse
  <2> QED
    BY <2>3, <2>4 DEF CollapseKinds
<1> QED
  BY <1>2, <1>3, <1>4

LEMMA CollapseAlmost ==
  ASSUME NEW s \in CollapseKinds
  PROVE  Almost(Collapse(s, Entity).out, Collapse(s, "<").out)
<1>1. Entity # Tab /\ Entity # Newline /\ "<" # Tab /\ "<" # Newline
  BY DEF Entity, Tab, Newline
<1>2. PICK between \in Seq(Tokens) : between = Between(s)
  BY BetweenType
<1>3. PICK before \in Seq(Tokens) : before = s.out \o between
  <2>1. PICK old \in Seq(Tokens) : old = s.out
    BY DEF CollapseKinds
  <2>2. old \o between \in Seq(Tokens)
    OBVIOUS
  <2> QED
    BY <2>1, <2>2
<1>4. /\ Collapse(s, Entity).out = before \o <<Entity>>
      /\ Collapse(s, "<").out = before \o <<"<">>
  BY <1>1, <1>2, <1>3 DEF Collapse
<1>5. PICK e \in Tokens, c \in Tokens : e = Entity /\ c = "<"
  BY Literals
<1>6. PICK n \in Nat : n = Len(before)
  BY LenProperties
<1>7. /\ Len(before \o <<e>>) = n + 1 /\ Len(before \o <<c>>) = n + 1
      /\ \A i \in 1..n : (before \o <<e>>)[i] = before[i] /\ (before \o <<c>>)[i] = before[i]
      /\ (before \o <<e>>)[n + 1] = e /\ (before \o <<c>>)[n + 1] = c
  BY <1>6
<1>8. ASSUME NEW i \in 1..n + 1
      PROVE  \/ (before \o <<e>>)[i] = (before \o <<c>>)[i]
             \/ i = n + 1 /\ (before \o <<e>>)[i] = Entity /\ (before \o <<c>>)[i] = "<"
  <2>1. i = n + 1 \/ i \in 1..n
    BY <1>6
  <2> QED
    BY <1>5, <1>7, <2>1
<1>9. Almost(before \o <<e>>, before \o <<c>>)
  BY <1>7, <1>8 DEF Almost
<1> QED
  BY <1>4, <1>5, <1>9

-----------------------------------------------------------------------------
(* The text of a page that begins as another does.                          *)

DropStart == [out |-> <<>>, skip |-> ""]
DecodeStart == <<>>
CollapseStart == [out |-> <<>>, space |-> FALSE, newlines |-> 0]

DropF(q) == [k \in 1..Len(q) |-> [s \in DropKinds |-> DropTag(s, q[k])]]

LEMMA DropRun ==
  ASSUME NEW q \in Seq(Tokens), NEW n \in Nat, n = Len(q)
  PROVE  /\ \A k \in 1..n, s \in DropKinds : DropF(q)[k][s] = DropTag(s, q[k])
         /\ \E run \in [0..n -> DropKinds] :
              Runs(run, DropStart, n, DropF(q)) /\ DropTags(q) = run[n].out
<1>1. DOMAIN q = 1..n /\ \A k \in 1..n : q[k] \in Tokens
  BY LenProperties, ElementOfSeq
<1>2. DropF(q) = [k \in 1..n |-> [s \in DropKinds |-> DropTag(s, q[k])]]
  BY DEF DropF
<1>3. DropF(q) \in [1..n -> [DropKinds -> DropKinds]]
  BY <1>1, <1>2, DropTagStep
<1>4. PICK F \in [1..n -> [DropKinds -> DropKinds]] : F = DropF(q)
  BY <1>3
<1>5. \A k \in 1..n, s \in DropKinds : F[k][s] = DropTag(s, q[k])
  BY <1>2, <1>4
<1>6. PICK base \in DropKinds : base = DropStart
  BY EmptySeq, Literals DEF DropStart, DropKinds
<1>7. PICK g \in [SUBSET (1..n) -> DropKinds] : Folds(g, base, n, F)
  BY FoldExists
<1> DEFINE Eq(h) == h = [s \in SUBSET (1..n) |-> IF s = {} THEN base
                         ELSE DropTag(h[s \ {Max(s)}], q[Max(s)])]
           fold == CHOOSE h : Eq(h)
<1>8. ASSUME NEW s \in SUBSET (1..n), s # {} PROVE Max(s) \in 1..n
  <2>1. \E i \in s : \A j \in s : i >= j
    BY ONLY <1>8, n \in Nat, LastPlace
  <2> QED
    BY <2>1 DEF Max
<1>9. Eq(g)
  <2> SUFFICES ASSUME NEW s \in SUBSET (1..n), s # {}
               PROVE  F[Max(s)][g[s \ {Max(s)}]] = DropTag(g[s \ {Max(s)}], q[Max(s)])
    BY <1>7 DEF Folds
  <2>1. g[s \ {Max(s)}] \in DropKinds
    OBVIOUS
  <2> QED
    BY <1>5, <1>8, <2>1
<1>10. Eq(fold)
  <2> HIDE DEF Eq
  <2> QED
    BY <1>9
<1>11. FoldLeft(DropTag, base, q) = fold[1..n]
  BY <1>1 DEF FoldLeft, MapThenFoldSet
<1> HIDE DEF fold
<1>12. fold[{}] = base
  BY <1>10
<1>13. ASSUME NEW s \in SUBSET (1..n), s # {}, fold[s \ {Max(s)}] \in DropKinds
       PROVE  fold[s] = F[Max(s)][fold[s \ {Max(s)}]]
  <2>1. fold[s] = DropTag(fold[s \ {Max(s)}], q[Max(s)])
    BY <1>10, <1>13
  <2>2. PICK k \in 1..n : k = Max(s)
    BY <1>8, <1>13
  <2>3. PICK v \in DropKinds : v = fold[s \ {Max(s)}]
    BY <1>13
  <2> QED
    BY <1>5, <2>1, <2>2, <2>3
<1>14. PICK run \in [0..n -> DropKinds] : Runs(run, base, n, F) /\ run[n] = fold[1..n]
  <2>1. FoldChosen(fold, DropKinds, base, n, F)
    BY <1>12, <1>13 DEF FoldChosen
  <2>2. PICK f : f = fold
    OBVIOUS
  <2>3. FoldChosen(f, DropKinds, base, n, F)
    BY <2>1, <2>2
  <2> HIDE DEF Eq
  <2>4. FoldRuns(f, DropKinds, base, n, F)
    BY <2>3, FoldOf
  <2> QED
    BY <2>2, <2>4 DEF FoldRuns
<1>15. DropTags(q) = run[n].out
  BY <1>6, <1>11, <1>14 DEF DropTags, DropStart
<1> QED
  BY <1>4, <1>5, <1>6, <1>14, <1>15

DecodeF(q) == [k \in 1..Len(q) |-> [s \in Seq(Tokens) |-> Decode(s, q[k])]]

LEMMA DecodeRun ==
  ASSUME NEW q \in Seq(Tokens), NEW n \in Nat, n = Len(q)
  PROVE  /\ \A k \in 1..n, s \in Seq(Tokens) : DecodeF(q)[k][s] = Decode(s, q[k])
         /\ \E run \in [0..n -> Seq(Tokens)] :
              Runs(run, DecodeStart, n, DecodeF(q)) /\ decode_entities(q) = run[n]
<1>1. DOMAIN q = 1..n /\ \A k \in 1..n : q[k] \in Tokens
  BY LenProperties, ElementOfSeq
<1>2. DecodeF(q) = [k \in 1..n |-> [s \in Seq(Tokens) |-> Decode(s, q[k])]]
  BY DEF DecodeF
<1>3. DecodeF(q) \in [1..n -> [Seq(Tokens) -> Seq(Tokens)]]
  BY <1>1, <1>2, DecodeStep
<1>4. PICK F \in [1..n -> [Seq(Tokens) -> Seq(Tokens)]] : F = DecodeF(q)
  BY <1>3
<1>5. \A k \in 1..n, s \in Seq(Tokens) : F[k][s] = Decode(s, q[k])
  BY <1>2, <1>4
<1>6. PICK base \in Seq(Tokens) : base = DecodeStart
  BY EmptySeq DEF DecodeStart
<1>7. PICK g \in [SUBSET (1..n) -> Seq(Tokens)] : Folds(g, base, n, F)
  BY FoldExists
<1> DEFINE Eq(h) == h = [s \in SUBSET (1..n) |-> IF s = {} THEN base
                         ELSE Decode(h[s \ {Max(s)}], q[Max(s)])]
           fold == CHOOSE h : Eq(h)
<1>8. ASSUME NEW s \in SUBSET (1..n), s # {} PROVE Max(s) \in 1..n
  <2>1. \E i \in s : \A j \in s : i >= j
    BY ONLY <1>8, n \in Nat, LastPlace
  <2> QED
    BY <2>1 DEF Max
<1>9. Eq(g)
  <2> SUFFICES ASSUME NEW s \in SUBSET (1..n), s # {}
               PROVE  F[Max(s)][g[s \ {Max(s)}]] = Decode(g[s \ {Max(s)}], q[Max(s)])
    BY <1>7 DEF Folds
  <2>1. g[s \ {Max(s)}] \in Seq(Tokens)
    OBVIOUS
  <2> QED
    BY <1>5, <1>8, <2>1
<1>10. Eq(fold)
  <2> HIDE DEF Eq
  <2> QED
    BY <1>9
<1>11. FoldLeft(Decode, base, q) = fold[1..n]
  BY <1>1 DEF FoldLeft, MapThenFoldSet
<1> HIDE DEF fold
<1>12. fold[{}] = base
  BY <1>10
<1>13. ASSUME NEW s \in SUBSET (1..n), s # {}, fold[s \ {Max(s)}] \in Seq(Tokens)
       PROVE  fold[s] = F[Max(s)][fold[s \ {Max(s)}]]
  <2>1. fold[s] = Decode(fold[s \ {Max(s)}], q[Max(s)])
    BY <1>10, <1>13
  <2>2. PICK k \in 1..n : k = Max(s)
    BY <1>8, <1>13
  <2>3. PICK v \in Seq(Tokens) : v = fold[s \ {Max(s)}]
    BY <1>13
  <2> QED
    BY <1>5, <2>1, <2>2, <2>3
<1>14. PICK run \in [0..n -> Seq(Tokens)] : Runs(run, base, n, F) /\ run[n] = fold[1..n]
  <2>1. FoldChosen(fold, Seq(Tokens), base, n, F)
    BY <1>12, <1>13 DEF FoldChosen
  <2>2. PICK f : f = fold
    OBVIOUS
  <2>3. FoldChosen(f, Seq(Tokens), base, n, F)
    BY <2>1, <2>2
  <2> HIDE DEF Eq
  <2>4. FoldRuns(f, Seq(Tokens), base, n, F)
    BY <2>3, FoldOf
  <2> QED
    BY <2>2, <2>4 DEF FoldRuns
<1>15. decode_entities(q) = run[n]
  BY <1>6, <1>11, <1>14 DEF decode_entities, DecodeStart
<1> QED
  BY <1>4, <1>5, <1>6, <1>14, <1>15

CollapseF(q) == [k \in 1..Len(q) |-> [s \in CollapseKinds |-> Collapse(s, q[k])]]

LEMMA CollapseRun ==
  ASSUME NEW q \in Seq(Tokens), NEW n \in Nat, n = Len(q)
  PROVE  /\ \A k \in 1..n, s \in CollapseKinds : CollapseF(q)[k][s] = Collapse(s, q[k])
         /\ \E run \in [0..n -> CollapseKinds] :
              Runs(run, CollapseStart, n, CollapseF(q)) /\ collapse_ws(q) = run[n].out
<1>1. DOMAIN q = 1..n /\ \A k \in 1..n : q[k] \in Tokens
  BY LenProperties, ElementOfSeq
<1>2. CollapseF(q) = [k \in 1..n |-> [s \in CollapseKinds |-> Collapse(s, q[k])]]
  BY DEF CollapseF
<1>3. CollapseF(q) \in [1..n -> [CollapseKinds -> CollapseKinds]]
  BY <1>1, <1>2, CollapseStep
<1>4. PICK F \in [1..n -> [CollapseKinds -> CollapseKinds]] : F = CollapseF(q)
  BY <1>3
<1>5. \A k \in 1..n, s \in CollapseKinds : F[k][s] = Collapse(s, q[k])
  BY <1>2, <1>4
<1>6. PICK base \in CollapseKinds : base = CollapseStart
  BY EmptySeq, Literals DEF CollapseStart, CollapseKinds
<1>7. PICK g \in [SUBSET (1..n) -> CollapseKinds] : Folds(g, base, n, F)
  BY FoldExists
<1> DEFINE Eq(h) == h = [s \in SUBSET (1..n) |-> IF s = {} THEN base
                         ELSE Collapse(h[s \ {Max(s)}], q[Max(s)])]
           fold == CHOOSE h : Eq(h)
<1>8. ASSUME NEW s \in SUBSET (1..n), s # {} PROVE Max(s) \in 1..n
  <2>1. \E i \in s : \A j \in s : i >= j
    BY ONLY <1>8, n \in Nat, LastPlace
  <2> QED
    BY <2>1 DEF Max
<1>9. Eq(g)
  <2> SUFFICES ASSUME NEW s \in SUBSET (1..n), s # {}
               PROVE  F[Max(s)][g[s \ {Max(s)}]] = Collapse(g[s \ {Max(s)}], q[Max(s)])
    BY <1>7 DEF Folds
  <2>1. g[s \ {Max(s)}] \in CollapseKinds
    OBVIOUS
  <2> QED
    BY <1>5, <1>8, <2>1
<1>10. Eq(fold)
  <2> HIDE DEF Eq
  <2> QED
    BY <1>9
<1>11. FoldLeft(Collapse, base, q) = fold[1..n]
  BY <1>1 DEF FoldLeft, MapThenFoldSet
<1> HIDE DEF fold
<1>12. fold[{}] = base
  BY <1>10
<1>13. ASSUME NEW s \in SUBSET (1..n), s # {}, fold[s \ {Max(s)}] \in CollapseKinds
       PROVE  fold[s] = F[Max(s)][fold[s \ {Max(s)}]]
  <2>1. fold[s] = Collapse(fold[s \ {Max(s)}], q[Max(s)])
    BY <1>10, <1>13
  <2>2. PICK k \in 1..n : k = Max(s)
    BY <1>8, <1>13
  <2>3. PICK v \in CollapseKinds : v = fold[s \ {Max(s)}]
    BY <1>13
  <2> QED
    BY <1>5, <2>1, <2>2, <2>3
<1>14. PICK run \in [0..n -> CollapseKinds] : Runs(run, base, n, F) /\ run[n] = fold[1..n]
  <2>1. FoldChosen(fold, CollapseKinds, base, n, F)
    BY <1>12, <1>13 DEF FoldChosen
  <2>2. PICK f : f = fold
    OBVIOUS
  <2>3. FoldChosen(f, CollapseKinds, base, n, F)
    BY <2>1, <2>2
  <2> HIDE DEF Eq
  <2>4. FoldRuns(f, CollapseKinds, base, n, F)
    BY <2>3, FoldOf
  <2> QED
    BY <2>2, <2>4 DEF FoldRuns
<1>15. collapse_ws(q) = run[n].out
  BY <1>6, <1>11, <1>14 DEF collapse_ws, CollapseStart
<1> QED
  BY <1>4, <1>5, <1>6, <1>14, <1>15

\* What has been made of a page's beginning stays: the growth of a run's outputs.
LEMMA DropGrows ==
  ASSUME NEW t \in Seq(Tokens), NEW n \in Nat, n = Len(t), NEW m \in 0..n,
         NEW run \in [0..n -> DropKinds], Runs(run, DropStart, n, DropF(t))
  PROVE  Begins(run[m].out, run[n].out)
<1>1. \A k \in 1..n, s \in DropKinds : DropF(t)[k][s] = DropTag(s, t[k])
  BY DropRun
<1>2. \A k \in 1..n : t[k] \in Tokens
  BY LenProperties, ElementOfSeq
<1>3. \A k \in 0..n : run[k] \in DropKinds /\ run[k].out \in Seq(Tokens)
  BY DEF DropKinds
<1> DEFINE G == {k \in 0..n : k >= m => Begins(run[m].out, run[k].out)}
<1>4. 0 \in G
  BY <1>3, BeginsItself
<1>5. ASSUME NEW k \in 1..n, k - 1 \in G PROVE k \in G
  <2>1. k \in 0..n /\ k - 1 \in 0..n
    OBVIOUS
  <2>2. run[k] = DropTag(run[k - 1], t[k])
    BY <1>1, <2>1 DEF Runs
  <2>3. Begins(run[k - 1].out, run[k].out)
    BY <1>2, <1>3, <2>1, <2>2, DropTagStep
  <2>4. CASE k - 1 >= m
    BY <1>3, <1>5, <2>1, <2>3, <2>4, BeginsTransitive
  <2>5. CASE k = m
    BY <1>3, <2>1, <2>5, BeginsItself
  <2>6. k >= m => k - 1 >= m \/ k = m
    BY <2>1
  <2> QED
    BY <2>1, <2>4, <2>5, <2>6
<1>6. n \in G
  <2> HIDE DEF G
  <2>1. 0..n \subseteq G
    BY <1>4, <1>5, Climb
  <2> QED
    BY <2>1
<1> QED
  BY <1>6

LEMMA DropsBegin ==
  ASSUME NEW p \in Seq(Tokens), NEW t \in Seq(Tokens), Begins(p, t)
  PROVE  /\ DropTags(p) \in Seq(Tokens) /\ DropTags(t) \in Seq(Tokens)
         /\ Begins(DropTags(p), DropTags(t))
<1>1. PICK m \in Nat, n \in Nat : m = Len(p) /\ n = Len(t)
  BY LenProperties
<1>2. m <= n /\ \A i \in 1..m : p[i] = t[i]
  BY <1>1 DEF Begins
<1>3. PICK run \in [0..m -> DropKinds] :
        Runs(run, DropStart, m, DropF(p)) /\ DropTags(p) = run[m].out
  BY <1>1, DropRun
<1>4. PICK other \in [0..n -> DropKinds] :
        Runs(other, DropStart, n, DropF(t)) /\ DropTags(t) = other[n].out
  BY <1>1, DropRun
<1>5. \A i \in 1..m : DropF(p)[i] = DropF(t)[i]
  <2>1. \A i \in 1..m : i \in 1..n
    BY <1>2
  <2> QED
    BY <1>1, <1>2, <2>1 DEF DropF
<1>6. run[m] = other[m]
  BY <1>2, <1>3, <1>4, <1>5, RunsAgree DEF Agree
<1>7. m \in 0..n
  BY <1>2
<1>8. Begins(other[m].out, other[n].out)
  BY <1>1, <1>4, <1>7, DropGrows
<1>9. \A s \in DropKinds : s.out \in Seq(Tokens)
  BY DEF DropKinds
<1> QED
  BY <1>3, <1>4, <1>6, <1>8, <1>9

LEMMA DecodeGrows ==
  ASSUME NEW t \in Seq(Tokens), NEW n \in Nat, n = Len(t), NEW m \in 0..n,
         NEW run \in [0..n -> Seq(Tokens)], Runs(run, DecodeStart, n, DecodeF(t))
  PROVE  Almost(run[m], run[n])
<1>1. \A k \in 1..n, s \in Seq(Tokens) : DecodeF(t)[k][s] = Decode(s, t[k])
  BY DecodeRun
<1>2. \A k \in 1..n : t[k] \in Tokens
  BY LenProperties, ElementOfSeq
<1>3. \A k \in 0..n : run[k] \in Seq(Tokens)
  OBVIOUS
<1> DEFINE G == {k \in 0..n : k >= m => Almost(run[m], run[k])}
<1>4. 0 \in G
  BY <1>3, BeginsItself, BeginsAlmost
<1>5. ASSUME NEW k \in 1..n, k - 1 \in G PROVE k \in G
  <2>1. k \in 0..n /\ k - 1 \in 0..n
    OBVIOUS
  <2>2. run[k] = Decode(run[k - 1], t[k])
    BY <1>1, <2>1 DEF Runs
  <2>3. Almost(run[k - 1], run[k])
    BY <1>2, <1>3, <2>1, <2>2, DecodeStep
  <2>4. CASE k - 1 >= m
    BY <1>3, <1>5, <2>1, <2>3, <2>4, AlmostTransitive
  <2>5. CASE k = m
    BY <1>3, <2>1, <2>5, BeginsItself, BeginsAlmost
  <2>6. k >= m => k - 1 >= m \/ k = m
    BY <2>1
  <2> QED
    BY <2>1, <2>4, <2>5, <2>6
<1>6. n \in G
  <2> HIDE DEF G
  <2>1. 0..n \subseteq G
    BY <1>4, <1>5, Climb
  <2> QED
    BY <2>1
<1> QED
  BY <1>6

PageTexts == Seq(Tokens)

LEMMA DecodesAlmost ==
  ASSUME NEW p \in Seq(Tokens), NEW t \in Seq(Tokens), Begins(p, t)
  PROVE  /\ decode_entities(p) \in Seq(Tokens) /\ decode_entities(t) \in Seq(Tokens)
         /\ Almost(decode_entities(p), decode_entities(t))
<1>1. PICK m \in Nat, n \in Nat : m = Len(p) /\ n = Len(t)
  BY LenProperties
<1>2. m <= n /\ \A i \in 1..m : p[i] = t[i]
  BY <1>1 DEF Begins
<1>3. PICK run \in [0..m -> PageTexts] :
        Runs(run, DecodeStart, m, DecodeF(p)) /\ decode_entities(p) = run[m]
  BY <1>1, DecodeRun DEF PageTexts
<1>4. PICK other \in [0..n -> PageTexts] :
        Runs(other, DecodeStart, n, DecodeF(t)) /\ decode_entities(t) = other[n]
  BY <1>1, DecodeRun DEF PageTexts
<1>5. \A i \in 1..m : DecodeF(p)[i] = DecodeF(t)[i]
  <2>1. \A i \in 1..m : i \in 1..n
    BY <1>2
  <2> QED
    BY <1>1, <1>2, <2>1 DEF DecodeF
<1>6. run[m] = other[m]
  BY <1>2, <1>3, <1>4, <1>5, RunsAgree DEF Agree
<1>7. m \in 0..n
  BY <1>2
<1>8. Almost(other[m], other[n])
  BY <1>1, <1>4, <1>7, DecodeGrows DEF PageTexts
<1> QED
  BY <1>3, <1>4, <1>6, <1>8 DEF PageTexts

LEMMA CollapseGrows ==
  ASSUME NEW t \in Seq(Tokens), NEW n \in Nat, n = Len(t), NEW m \in 0..n,
         NEW run \in [0..n -> CollapseKinds], Runs(run, CollapseStart, n, CollapseF(t))
  PROVE  Begins(run[m].out, run[n].out)
<1>1. \A k \in 1..n, s \in CollapseKinds : CollapseF(t)[k][s] = Collapse(s, t[k])
  BY CollapseRun
<1>2. \A k \in 1..n : t[k] \in Tokens
  BY LenProperties, ElementOfSeq
<1>3. \A k \in 0..n : run[k] \in CollapseKinds /\ run[k].out \in Seq(Tokens)
  BY DEF CollapseKinds
<1> DEFINE G == {k \in 0..n : k >= m => Begins(run[m].out, run[k].out)}
<1>4. 0 \in G
  BY <1>3, BeginsItself
<1>5. ASSUME NEW k \in 1..n, k - 1 \in G PROVE k \in G
  <2>1. k \in 0..n /\ k - 1 \in 0..n
    OBVIOUS
  <2>2. run[k] = Collapse(run[k - 1], t[k])
    BY <1>1, <2>1 DEF Runs
  <2>3. Begins(run[k - 1].out, run[k].out)
    BY <1>2, <1>3, <2>1, <2>2, CollapseStep
  <2>4. CASE k - 1 >= m
    BY <1>3, <1>5, <2>1, <2>3, <2>4, BeginsTransitive
  <2>5. CASE k = m
    BY <1>3, <2>1, <2>5, BeginsItself
  <2>6. k >= m => k - 1 >= m \/ k = m
    BY <2>1
  <2> QED
    BY <2>1, <2>4, <2>5, <2>6
<1>6. n \in G
  <2> HIDE DEF G
  <2>1. 0..n \subseteq G
    BY <1>4, <1>5, Climb
  <2> QED
    BY <2>1
<1> QED
  BY <1>6

LEMMA CollapsesAlmost ==
  ASSUME NEW p \in Seq(Tokens), NEW t \in Seq(Tokens), Almost(p, t)
  PROVE  /\ collapse_ws(p) \in Seq(Tokens) /\ collapse_ws(t) \in Seq(Tokens)
         /\ Almost(collapse_ws(p), collapse_ws(t))
<1>1. PICK m \in Nat, n \in Nat : m = Len(p) /\ n = Len(t)
  BY LenProperties
<1>2. /\ m <= n
      /\ \A i \in 1..m : p[i] = t[i] \/ (i = m /\ p[i] = Entity /\ t[i] = "<")
  BY <1>1 DEF Almost
<1>3. PICK run \in [0..m -> CollapseKinds] :
        Runs(run, CollapseStart, m, CollapseF(p)) /\ collapse_ws(p) = run[m].out
  BY <1>1, CollapseRun
<1>4. PICK other \in [0..n -> CollapseKinds] :
        Runs(other, CollapseStart, n, CollapseF(t)) /\ collapse_ws(t) = other[n].out
  BY <1>1, CollapseRun
<1>5. \A s \in CollapseKinds : s.out \in Seq(Tokens)
  BY DEF CollapseKinds
<1>6. /\ run[0] = CollapseStart /\ other[0] = CollapseStart
      /\ \A i \in 1..m : run[i] = Collapse(run[i - 1], p[i])
      /\ \A i \in 1..n : other[i] = Collapse(other[i - 1], t[i])
  <2>1. \A i \in 1..m, s \in CollapseKinds : CollapseF(p)[i][s] = Collapse(s, p[i])
    BY <1>1, CollapseRun
  <2>2. \A i \in 1..n, s \in CollapseKinds : CollapseF(t)[i][s] = Collapse(s, t[i])
    BY <1>1, CollapseRun
  <2>3. (\A i \in 1..m : run[i - 1] \in CollapseKinds) /\ \A i \in 1..n : other[i - 1] \in CollapseKinds
    <3>1. (\A i \in 1..m : i - 1 \in 0..m) /\ \A i \in 1..n : i - 1 \in 0..n
      OBVIOUS
    <3> QED
      BY <3>1
  <2> QED
    BY <1>3, <1>4, <2>1, <2>2, <2>3 DEF Runs
<1>7. Almost(run[m].out, other[m].out)
  <2>1. CASE m = 0
    BY <1>5, <1>6, <2>1, BeginsItself, BeginsAlmost
  <2>2. CASE m # 0
    <3>1. m - 1 \in Nat /\ m - 1 <= n /\ m \in 1..m /\ m \in 1..n
      BY <1>2, <2>2
    <3>2. Runs(run, CollapseStart, m - 1, CollapseF(p))
      <4>1. \A i \in 1..m - 1 : i \in 1..m
        OBVIOUS
      <4> QED
        BY <1>3, <4>1 DEF Runs
    <3>3. \A i \in 1..m - 1 : CollapseF(p)[i] = CollapseF(t)[i]
      <4>1. \A i \in 1..m - 1 : i \in 1..n /\ i \in 1..m /\ i # m
        BY <1>2
      <4>2. \A i \in 1..m - 1 : p[i] = t[i]
        BY <1>2, <4>1
      <4> QED
        BY <1>1, <4>1, <4>2 DEF CollapseF
    <3>4. run[m - 1] = other[m - 1]
      BY <1>4, <3>1, <3>2, <3>3, RunsAgree DEF Agree
    <3>5. run[m - 1] \in CollapseKinds
      BY <3>1
    <3>6. run[m] = Collapse(run[m - 1], p[m]) /\ other[m] = Collapse(run[m - 1], t[m])
      BY <1>6, <3>1, <3>4
    <3>7. CASE p[m] = t[m]
      <4>1. run[m] = other[m] /\ run[m].out \in Seq(Tokens)
        BY <1>5, <3>1, <3>6, <3>7
      <4> QED
        BY <4>1, BeginsItself, BeginsAlmost
    <3>8. CASE p[m] = Entity /\ t[m] = "<"
      BY <3>5, <3>6, <3>8, CollapseAlmost
    <3> QED
      BY <1>2, <3>1, <3>7, <3>8
  <2> QED
    BY <2>1, <2>2
<1>8. m \in 0..n /\ m \in 0..m /\ n \in 0..n
  BY <1>2
<1>9. Begins(other[m].out, other[n].out)
  BY <1>1, <1>4, <1>8, CollapseGrows
<1>10. Almost(run[m].out, other[n].out)
  <2>1. run[m].out \in Seq(Tokens) /\ other[m].out \in Seq(Tokens) /\ other[n].out \in Seq(Tokens)
    BY <1>5, <1>8
  <2>2. Almost(other[m].out, other[n].out)
    BY <1>9, <2>1, BeginsAlmost
  <2> QED
    BY <1>7, <2>1, <2>2, AlmostTransitive
<1> QED
  BY <1>3, <1>4, <1>5, <1>8, <1>10

\* A page is taken for HTML by its head, which a cap leaves whole.
LEMMA TextBegins ==
  ASSUME NEW type, NEW p \in Seq(Tokens), NEW t \in Seq(Tokens), Begins(p, t),
         Len(p) = Len(t) \/ HeadBytes <= Len(p)
  PROVE  /\ html_to_text(type, p) \in Seq(Tokens) /\ html_to_text(type, t) \in Seq(Tokens)
         /\ Almost(html_to_text(type, p), html_to_text(type, t))
<1>1. PICK m \in Nat, n \in Nat :
        m = Len(p) /\ n = Len(t) /\ DOMAIN p = 1..m /\ DOMAIN t = 1..n
  BY LenProperties
<1>2. m <= n /\ \A i \in 1..m : p[i] = t[i]
  BY <1>1 DEF Begins
<1>3. ASSUME NEW i \in 1..n, i <= HeadBytes PROVE i \in 1..m
  <2>1. HeadBytes \in Nat
    BY FetchBoundsAssumption
  <2> QED
    BY <1>1, <1>3, <2>1
<1>4. ASSUME NEW i \in 1..m PROVE i \in 1..n
  BY <1>2
<1>5. IsHtml(type, p) = IsHtml(type, t)
  BY <1>1, <1>2, <1>3, <1>4 DEF IsHtml
<1>6. CASE IsHtml(type, t)
  <2>1. /\ DropTags(p) \in Seq(Tokens) /\ DropTags(t) \in Seq(Tokens)
        /\ Begins(DropTags(p), DropTags(t))
    BY DropsBegin
  <2>2. /\ decode_entities(DropTags(p)) \in Seq(Tokens)
        /\ decode_entities(DropTags(t)) \in Seq(Tokens)
        /\ Almost(decode_entities(DropTags(p)), decode_entities(DropTags(t)))
    BY <2>1, DecodesAlmost
  <2> QED
    BY <1>5, <1>6, <2>2, CollapsesAlmost DEF html_to_text
<1>7. CASE ~IsHtml(type, t)
  BY <1>5, <1>7, BeginsAlmost DEF html_to_text
<1> QED
  BY <1>6, <1>7

LEMMA SubSeqIs ==
  ASSUME NEW s \in Seq(Tokens), NEW k \in 0..Len(s)
  PROVE  /\ SubSeq(s, 1, k) \in Seq(Tokens) /\ Len(SubSeq(s, 1, k)) = k
         /\ \A i \in 1..k : SubSeq(s, 1, k)[i] = s[i]
<1>1. PICK n \in Nat : n = Len(s) /\ \A i \in 1..n : s[i] \in Tokens
  BY LenProperties, ElementOfSeq
<1>2. \A i \in 1..k : s[i] \in Tokens
  BY <1>1
<1>3. SubSeq(s, 1, k) = [i \in 1..k |-> s[i]]
  BY <1>1
<1> QED
  BY <1>2, <1>3

LEMMA CutIsPrefix ==
  ASSUME NEW text \in Seq(Tokens), NEW whole \in Seq(Tokens), Almost(text, whole),
         NEW k \in 0..Len(text)
  PROVE  IsPrefix(WithoutCutEntity(SubSeq(text, 1, k)), whole)
<1>1. PICK m \in Nat, n \in Nat : m = Len(text) /\ n = Len(whole)
  BY LenProperties
<1>2. k \in Nat /\ k <= m /\ m <= n
  BY <1>1 DEF Almost
<1>3. PICK cut \in Seq(Tokens) : cut = SubSeq(text, 1, k)
  BY SubSeqIs
<1>4. Len(cut) = k /\ \A i \in 1..k : cut[i] = text[i]
  BY <1>3, SubSeqIs
<1>5. ASSUME NEW i \in 1..k
      PROVE  cut[i] = whole[i] \/ (i = k /\ cut[i] = Entity)
  <2>1. i \in 1..m /\ (i = m => i = k)
    BY <1>2
  <2> QED
    BY <1>1, <1>4, <2>1 DEF Almost
<1>6. CASE cut # <<>> /\ Last(cut) = Entity
  <2>1. k # 0
    BY <1>4, <1>6, EmptySeq
  <2>2. /\ Front(cut) \in Seq(Tokens) /\ Len(Front(cut)) = k - 1
        /\ \A i \in 1..k - 1 : Front(cut)[i] = cut[i]
    BY <1>2, <1>4, <2>1 DEF Front
  <2>3. \A i \in 1..k - 1 : i \in 1..k /\ i # k
    OBVIOUS
  <2>4. Begins(Front(cut), whole)
    BY <1>1, <1>2, <1>5, <2>1, <2>2, <2>3 DEF Begins
  <2> QED
    BY <1>3, <1>6, <2>2, <2>4, BeginsIsPrefix DEF WithoutCutEntity
<1>7. CASE ~(cut # <<>> /\ Last(cut) = Entity)
  <2>1. k # 0 => cut[k] # Entity
    BY <1>4, <1>7, EmptySeq DEF Last
  <2>2. \A i \in 1..k : cut[i] = whole[i]
    BY <1>2, <1>5, <2>1
  <2>3. Begins(cut, whole)
    BY <1>1, <1>2, <1>4, <2>2 DEF Begins
  <2> QED
    BY <1>3, <1>7, <2>3, BeginsIsPrefix DEF WithoutCutEntity
<1> QED
  BY <1>6, <1>7

LEMMA PageTokens ==
  ASSUME NEW p \in Pages \cup {NoPage}
  PROVE  p.tokens \in Seq(Tokens)
<1>1. p.tokens \in Seq(Strings)
  <2>1. CASE p = NoPage
    BY <2>1, EmptySeq DEF NoPage
  <2>2. CASE p \in Pages
    BY <2>2, PagesAssumption DEF Strings
  <2> QED
    BY <2>1, <2>2
<1>2. PICK q \in Seq(Strings) : q = p.tokens
  BY <1>1
<1>3. PICK n \in Nat : n = Len(q) /\ DOMAIN q = 1..n /\ \A i \in 1..n : q[i] \in Strings
  BY LenProperties, ElementOfSeq
<1>4. \A i \in 1..n : q[i] \in Tokens
  BY <1>3 DEF Tokens
<1>5. q \in [1..n -> Tokens]
  BY <1>3, <1>4, LenProperties
<1> QED
  BY <1>2, <1>5

LEMMA SubSeqWhole ==
  ASSUME NEW s \in Seq(Tokens)
  PROVE  SubSeq(s, 1, Len(s)) = s
<1>1. PICK n \in Nat : n = Len(s) /\ s = [i \in 1..n |-> s[i]]
  BY LenProperties
<1> QED
  BY <1>1

LEMMA SubSeqMore ==
  ASSUME NEW s \in Seq(Tokens), NEW a \in Nat, NEW b \in Nat, a + b <= Len(s)
  PROVE  SubSeq(s, 1, a) \o SubSeq(s, a + 1, a + b) = SubSeq(s, 1, a + b)
<1>1. PICK n \in Nat : n = Len(s)
  BY LenProperties
<1>2. PICK l \in Seq(Tokens) : l = SubSeq(s, 1, a)
  <2>1. a \in 0..Len(s)
    BY <1>1
  <2> QED
    BY <2>1, SubSeqIs
<1>3. Len(l) = a /\ \A i \in 1..a : l[i] = s[i]
  <2>1. a \in 0..Len(s)
    BY <1>1
  <2> QED
    BY <1>2, <2>1, SubSeqIs
<1>4. SubSeq(s, a + 1, a + b) = [i \in 1..b |-> s[a + i]]
  <2>1. (a + b) - (a + 1) + 1 = b /\ \A i \in 1..b : i + (a + 1) - 1 = a + i
    OBVIOUS
  <2> QED
    BY <1>1, <2>1
<1>5. \A i \in 1..b : s[a + i] \in Tokens
  <2>1. \A i \in 1..b : a + i \in 1..n
    BY <1>1
  <2> QED
    BY <1>1, <2>1, ElementOfSeq
<1>6. PICK r \in [1..b -> Tokens] : r = SubSeq(s, a + 1, a + b) /\ \A i \in 1..b : r[i] = s[a + i]
  <2>1. [i \in 1..b |-> s[a + i]] \in [1..b -> Tokens]
    BY <1>5
  <2> QED
    BY <1>4, <2>1
<1>7. r \in Seq(Tokens) /\ Len(r) = b /\ \A i \in 1..b : r[i] = s[a + i]
  BY <1>6
<1>8. /\ l \o r \in Seq(Tokens)
      /\ Len(l \o r) = Len(l) + Len(r)
      /\ \A i \in 1..Len(l) + Len(r) : (l \o r)[i] = IF i <= Len(l) THEN l[i] ELSE r[i - Len(l)]
  BY <1>7, ConcatProperties
<1>9. \A i \in 1..a + b : (l \o r)[i] = s[i]
  <2> SUFFICES ASSUME NEW i \in 1..a + b PROVE (l \o r)[i] = s[i]
    OBVIOUS
  <2>1. (l \o r)[i] = IF i <= a THEN l[i] ELSE r[i - a]
    BY <1>3, <1>7, <1>8
  <2>2. CASE i <= a
    BY <1>3, <2>1, <2>2
  <2>3. CASE ~(i <= a)
    <3>1. i - a \in 1..b /\ a + (i - a) = i
      BY <2>3
    <3> QED
      BY <1>7, <2>1, <2>3, <3>1
  <2> QED
    BY <2>2, <2>3
<1>10. l \o r = [i \in 1..a + b |-> s[i]]
  <2>1. Len(l \o r) = a + b
    BY <1>3, <1>7, <1>8
  <2>2. l \o r = [i \in 1..Len(l \o r) |-> (l \o r)[i]]
    BY <1>8, LenProperties
  <2> QED
    BY <1>9, <2>1, <2>2
<1>11. SubSeq(s, 1, a + b) = [i \in 1..a + b |-> s[i]]
  BY <1>1
<1> QED
  BY <1>2, <1>6, <1>10, <1>11

\* What FetchIsHonest says of a result.
Honest(result) ==
  LET whole == html_to_text(page.type, page.tokens)
  IN  IF result.note THEN IsPrefix(WithoutCutEntity(result.text), whole)
      ELSE result.text = IF whole = <<>> THEN NoText ELSE whole

\* What has been received is the beginning of the page, up to what the server has
\* sent; and a result, once there is one, is honest.
FetchInv ==
  /\ page \in Pages \cup {NoPage}
  /\ transfer = "receiving" =>
       /\ max_chars \in Nat \ {0}
       /\ sent \in 0..Len(page.tokens) /\ sent <= MaxBytes
       /\ body = SubSeq(page.tokens, 1, sent)
  /\ FetchIsHonest

LEMMA ReadableHonest ==
  ASSUME page \in Pages \cup {NoPage}, max_chars \in Nat \ {0}, NEW k \in 0..Len(page.tokens),
         NEW truncated \in BOOLEAN, truncated => k = MaxBytes, ~truncated => k = Len(page.tokens)
  PROVE  Honest(Readable(SubSeq(page.tokens, 1, k), truncated))
<1>1. PICK tokens \in Seq(Tokens) : tokens = page.tokens
  BY PageTokens
<1>2. PICK received \in Seq(Tokens) : received = SubSeq(tokens, 1, k)
  BY <1>1, SubSeqIs
<1>3. Len(received) = k /\ Begins(received, tokens)
  <2>1. Len(tokens) \in Nat
    BY LenProperties
  <2> QED
    BY <1>1, <1>2, <2>1, SubSeqIs DEF Begins
<1>4. Len(received) = Len(tokens) \/ HeadBytes <= Len(received)
  <2>1. HeadBytes <= MaxBytes
    BY FetchBoundsAssumption
  <2> QED
    BY <1>1, <1>3, <2>1
<1>5. PICK text \in Seq(Tokens), whole \in Seq(Tokens) :
        /\ text = html_to_text(page.type, received) /\ whole = html_to_text(page.type, tokens)
        /\ Almost(text, whole)
  BY <1>3, <1>4, TextBegins
<1>6. PICK m \in Nat : m = Len(text)
  BY LenProperties
<1>8. PICK j \in 0..m : j = IF m > max_chars THEN max_chars ELSE m
  <2>1. (IF m > max_chars THEN max_chars ELSE m) \in 0..m
    OBVIOUS
  <2> QED
    BY <2>1
<1>9. SubSeq(text, 1, j) = IF m > max_chars THEN SubSeq(text, 1, max_chars) ELSE text
  BY <1>6, <1>8, SubSeqWhole
<1>10. PICK shown \in Seq(Tokens) : shown = SubSeq(text, 1, j) /\ Len(shown) = j
  BY <1>6, <1>8, SubSeqIs
<1>11. /\ Readable(received, truncated).text = IF shown = <<>> /\ ~truncated THEN NoText ELSE shown
       /\ Readable(received, truncated).note = (m > max_chars \/ truncated)
  BY <1>5, <1>6, <1>9, <1>10 DEF Readable
<1>12. IsPrefix(WithoutCutEntity(shown), whole)
  BY <1>5, <1>6, <1>8, <1>10, CutIsPrefix
<1>13. CASE truncated
  <2>1. Readable(received, truncated).note /\ Readable(received, truncated).text = shown
    BY <1>11, <1>13
  <2> QED
    BY <1>1, <1>2, <1>5, <1>12, <2>1 DEF Honest
<1>14. CASE ~truncated /\ m > max_chars
  <2>1. shown # <<>>
    BY <1>8, <1>10, <1>14, EmptySeq
  <2>2. Readable(received, truncated).note /\ Readable(received, truncated).text = shown
    BY <1>11, <1>14, <2>1
  <2> QED
    BY <1>1, <1>2, <1>5, <1>12, <2>2 DEF Honest
<1>15. CASE ~truncated /\ ~(m > max_chars)
  <2>1. received = tokens /\ text = whole
    BY <1>1, <1>2, <1>5, <1>15, SubSeqWhole
  <2>2. shown = whole
    BY <1>6, <1>9, <1>10, <1>15, <2>1
  <2>3. /\ ~Readable(received, truncated).note
        /\ Readable(received, truncated).text = IF whole = <<>> THEN NoText ELSE whole
    BY <1>11, <1>15, <2>2
  <2> QED
    BY <1>1, <1>2, <1>5, <2>3 DEF Honest
<1> QED
  BY <1>13, <1>14, <1>15

\* A transfer ends with a result that is honest, or is none.
LEMMA EndedHonest ==
  ASSUME page \in Pages \cup {NoPage}, NEW result, Ended(result), ~result.ok \/ Honest(result)
  PROVE  FetchInv'
<1>1. transfer' = "done" /\ fetched' = result /\ page' = page
  BY DEF Ended
<1>2. FetchIsHonest'
  BY <1>1 DEF FetchIsHonest, Honest
<1> QED
  BY <1>1, <1>2 DEF FetchInv

LEMMA NoResultFails == ~NoResult.ok
BY DEF NoResult

LEMMA ReceiveHonest ==
  ASSUME FetchInv, NEW n \in 1..Len(page.tokens), Receive(n)
  PROVE  FetchInv'
<1>1. PICK tokens \in Seq(Tokens) : tokens = page.tokens
  BY PageTokens DEF FetchInv
<1>2. Len(tokens) \in Nat
  BY LenProperties
<1>3. /\ max_chars \in Nat \ {0} /\ sent \in 0..Len(tokens) /\ sent <= MaxBytes
      /\ body = SubSeq(tokens, 1, sent) /\ page \in Pages \cup {NoPage}
  BY <1>1 DEF FetchInv, Receive
<1>4. sent + n <= Len(tokens) /\ sent' = sent + n /\ sent + n \in 0..Len(tokens)
  BY <1>1, <1>2, <1>3 DEF Receive
<1>5. PICK all \in Seq(Tokens) : all = SubSeq(tokens, 1, sent + n) /\ Len(all) = sent + n
  BY <1>4, SubSeqIs
<1>6. body \o SubSeq(tokens, sent + 1, sent + n) = all
  BY <1>2, <1>3, <1>4, <1>5, SubSeqMore
<1>7. MaxBytes \in Nat
  BY FetchBoundsAssumption
<1>8. CASE Len(all) <= MaxBytes
  <2>1. body' = all /\ UNCHANGED <<transfer, page, max_chars, fetched>>
    BY <1>1, <1>6, <1>8 DEF Receive
  <2>2. FetchIsHonest'
    BY <2>1 DEF FetchInv, Receive, FetchIsHonest
  <2> QED
    BY <1>1, <1>3, <1>4, <1>5, <1>8, <2>1, <2>2 DEF FetchInv
<1>9. CASE ~(Len(all) <= MaxBytes)
  <2>1. body' = SubSeq(all, 1, MaxBytes) /\ (Ended(Readable(body', TRUE)) \/ Ended(NoResult))
    BY <1>1, <1>6, <1>9 DEF Receive
  <2>2. MaxBytes \in 0..Len(all) /\ MaxBytes \in 0..Len(page.tokens)
    BY <1>1, <1>2, <1>4, <1>5, <1>7, <1>9
  <2>3. body' = SubSeq(page.tokens, 1, MaxBytes)
    <3>1. /\ SubSeq(all, 1, MaxBytes) = [i \in 1..MaxBytes |-> all[i]]
          /\ SubSeq(tokens, 1, MaxBytes) = [i \in 1..MaxBytes |-> tokens[i]]
      BY <1>1, <1>7, <2>2
    <3>2. \A i \in 1..MaxBytes : all[i] = tokens[i]
      <4>1. \A i \in 1..MaxBytes : i \in 1..sent + n
        BY <1>3, <1>4, <1>5, <1>7, <1>9
      <4> QED
        BY <1>4, <1>5, <4>1, SubSeqIs
    <3> QED
      BY <1>1, <2>1, <3>1, <3>2
  <2>4. Honest(Readable(body', TRUE))
    BY <1>3, <2>2, <2>3, ReadableHonest
  <2> QED
    BY <1>3, <2>1, <2>4, EndedHonest, NoResultFails
<1> QED
  BY <1>8, <1>9

LEMMA ReceivedHonest ==
  ASSUME FetchInv, Received \/ TransferFails
  PROVE  FetchInv'
<1>1. page \in Pages \cup {NoPage}
  BY DEF FetchInv
<1>2. Ended(NoResult) => FetchInv'
  BY <1>1, EndedHonest, NoResultFails
<1>3. CASE Received /\ Ended(Readable(body, FALSE))
  <2>1. /\ max_chars \in Nat \ {0} /\ sent \in 0..Len(page.tokens) /\ sent = Len(page.tokens)
        /\ body = SubSeq(page.tokens, 1, sent)
    BY <1>3 DEF FetchInv, Received
  <2>2. Honest(Readable(body, FALSE))
    BY <1>1, <2>1, ReadableHonest
  <2> QED
    BY <1>1, <1>3, <2>2, EndedHonest
<1> QED
  BY <1>2, <1>3 DEF Received, TransferFails

\* A page is asked for, with room for some text.
LEMMA FetchHonest ==
  ASSUME NEW p \in Pages, NEW chars \in AskedChars, Fetch(p, chars)
  PROVE  FetchInv'
<1>1. /\ DefaultMaxChars \in Nat \ {0} /\ MaxMaxChars \in Nat \ {0} /\ chars \in Int
      /\ MaxBytes \in Nat
  BY FetchBoundsAssumption
<1>2. PICK wanted \in Nat \ {0} : wanted = IF chars <= 0 THEN DefaultMaxChars ELSE chars
  BY <1>1
<1>3. Min({wanted, MaxMaxChars}) \in {wanted, MaxMaxChars}
  <2>1. CASE wanted <= MaxMaxChars
    BY <1>1, <2>1 DEF Min
  <2>2. CASE ~(wanted <= MaxMaxChars)
    BY <1>1, <2>2 DEF Min
  <2> QED
    BY <2>1, <2>2
<1>4. max_chars' \in Nat \ {0}
  BY <1>1, <1>2, <1>3 DEF Fetch
<1>5. /\ transfer' = "receiving" /\ page' = p /\ sent' = 0 /\ body' = <<>>
  BY DEF Fetch
<1>6. PICK tokens \in Seq(Tokens) : tokens = p.tokens
  BY PageTokens
<1>7. PICK n \in Nat : n = Len(tokens)
  BY LenProperties
<1>8. body' = SubSeq(tokens, 1, 0)
  BY <1>5, <1>7
<1>9. 0 \in 0..Len(tokens)
  BY <1>7
<1>10. FetchIsHonest'
  BY <1>5 DEF FetchIsHonest
<1> QED
  BY <1>1, <1>4, <1>5, <1>6, <1>8, <1>9, <1>10 DEF FetchInv

\* The steps of a fetch, and those of the rest of the program.
LEMMA FetchSteps ==
  ASSUME SceneInv, [Next]_vars
  PROVE  \/ UNCHANGED fetchVars
         \/ transfer' = "none" /\ page' = page
         \/ \E p \in Pages, chars \in AskedChars : Fetch(p, chars)
         \/ FetchNext
<1>0. scene.pages \subseteq Pages
  BY ScenesAssumption DEF SceneInv
<1>1. ASSUME NEW x, Launch(x) PROVE UNCHANGED fetchVars
  BY <1>1 DEF Launch
<1>2. CASE SpawnServer \/ SpawnFails \/ NotHandshaken \/ Started
  BY <1>2 DEF SpawnServer, SpawnFails, NotHandshaken, Started
<1>3. ASSUME NEW remote, Handshaken(remote) PROVE UNCHANGED fetchVars
  BY <1>3 DEF Handshaken
<1>4. ASSUME NEW reply, FinishInit(reply) PROVE UNCHANGED fetchVars
  BY <1>4 DEF FinishInit
<1>5. ASSUME NEW p, NEW chars, CallFetch(p, chars) PROVE Fetch(p, chars)
  BY <1>5 DEF CallFetch
<1>6. CASE FetchStep
  BY <1>6 DEF FetchStep
<1>7. CASE Quit \/ CloseNext \/ Destroys \/ Ended_Program
  BY <1>7 DEF Quit, CloseNext, Destroys, Ended_Program
<1>8. Dies => transfer' = "none" /\ page' = page
  BY DEF Dies
<1>9. CASE JobStarts \/ JobEnds \/ Done \/ UNCHANGED vars
  BY <1>9 DEF JobStarts, JobEnds, Done, vars
<1>10. ASSUME NEW doc, Edit(doc) PROVE UNCHANGED fetchVars
  BY <1>10 DEF Edit
<1>11. ASSUME NEW p, ServerStep(p) PROVE UNCHANGED fetchVars
  BY <1>11 DEF ServerStep
<1> QED
  BY <1>0, <1>1, <1>2, <1>3, <1>4, <1>5, <1>6, <1>7, <1>8, <1>9, <1>10, <1>11
     DEF Next, Program_Next, World_Next

\* The model is told when it does not have the whole page, for any page, cut into any
\* pieces, whichever of the two caps is met and however the transfer ends
\* (FetchUrlTool.cpp:64-71, HttpClient.cpp:94-95).
THEOREM FetchAlwaysHonest == Spec => []FetchIsHonest
<1>1. Init => SceneInv /\ FetchInv
  <2> SUFFICES ASSUME Init PROVE SceneInv /\ FetchInv
    OBVIOUS
  <2>1. transfer = "none" /\ page = NoPage
    BY DEF Init, FetchInit
  <2> QED
    BY <2>1 DEF Init, SceneInv, FetchInv, FetchIsHonest
<1>2. SceneInv /\ FetchInv /\ [Next]_vars => (SceneInv /\ FetchInv)'
  <2> SUFFICES ASSUME SceneInv, FetchInv, [Next]_vars PROVE SceneInv' /\ FetchInv'
    OBVIOUS
  <2>0. SceneInv'
    BY SceneStays DEF SceneInv
  <2>1. CASE UNCHANGED fetchVars
    BY <2>0, <2>1 DEF FetchInv, FetchIsHonest, fetchVars
  <2>2. CASE transfer' = "none" /\ page' = page
    BY <2>0, <2>2 DEF FetchInv, FetchIsHonest
  <2>3. CASE \E p \in Pages, chars \in AskedChars : Fetch(p, chars)
    BY <2>0, <2>3, FetchHonest
  <2>4. CASE FetchNext
    BY <2>0, <2>4, ReceiveHonest, ReceivedHonest DEF FetchNext
  <2> QED
    BY <2>0, <2>1, <2>2, <2>3, <2>4, FetchSteps
<1>3. SceneInv /\ FetchInv => FetchIsHonest
  BY DEF FetchInv
<1> QED
  BY <1>1, <1>2, <1>3, PTL DEF Spec
=============================================================================
