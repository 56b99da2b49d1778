------------------------------- MODULE Skills -------------------------------
(***************************************************************************)
(* Skills (src/src/app/Skill.cpp) and the words that call them             *)
(* (src/src/app/Command.cpp): Markdown files with an optional frontmatter, *)
(* kept under their names, the nearest directory first.  A file is a       *)
(* sequence of trimmed lines: a fence, a `key: value` or a text.           *)
(***************************************************************************)
EXTENDS Naturals, Sequences, SequencesExt, FiniteSetsExt

CONSTANTS Stems,     \* the files' names in the order std::sort gives them
          lower(_)   \* a name in lower case

ASSUME StemsAssumption == Stems \in Seq(STRING)

Fence == [key |-> "---", value |-> ""]
Blank == [key |-> "", value |-> ""]

trim(lines) ==
  LET filled == {i \in DOMAIN lines : lines[i] # Blank}
  IN  IF filled = {} THEN <<>> ELSE SubSeq(lines, Min(filled), Max(filled))

\* Frontmatter opens with the first line that is not blank and must be closed;
\* of several names the last one counts.
parse_skill(lines) ==
  LET text == trim(lines)
      fences == {i \in DOMAIN text : text[i] = Fence}
      close == Min(fences \ {1})
      named == {i \in 2..(close - 1) : text[i].key = "name"}
  IN  IF 1 \in fences /\ fences # {1}
        THEN [name |-> IF named = {} THEN "" ELSE text[Max(named)].value,
              body |-> trim(SubSeq(text, close + 1, Len(text)))]
        ELSE [name |-> "", body |-> text]

\* The first of that name, if there is one.
find(skills, name) ==
  LET named == {i \in DOMAIN skills : lower(skills[i].name) = lower(name)}
  IN  IF named = {} THEN <<>> ELSE <<skills[Min(named)]>>

\* A mistake: a later skill takes the place of an earlier one.
add_LastWins(skills, skill) ==
  Append(SelectSeq(skills, LAMBDA s : lower(s.name) # lower(skill.name)), skill)

add(skills, skill) ==
  IF find(skills, skill.name) # <<>> THEN skills ELSE Append(skills, skill)

SkillOf(dir, stem) ==
  LET skill == parse_skill(dir[stem])
  IN  IF skill.name = "" THEN [skill EXCEPT !.name = stem] ELSE skill

\* A directory maps the stems of its *.md files to their lines.
LoadFile(skills, dir, stem) ==
  IF stem \notin DOMAIN dir \/ SkillOf(dir, stem).body = <<>> THEN skills
  ELSE add(skills, SkillOf(dir, stem))

loadDir(skills, dir) == FoldLeft(LAMBDA reg, stem : LoadFile(reg, dir, stem), skills, Stems)

\* ./skills, then the user's.
skillDirs == <<"local", "user">>

loadSkills(dirs) == loadDir(loadDir(<<>>, dirs[skillDirs[1]]), dirs[skillDirs[2]])

BuiltInWords ==
  {"help", "?", "clear", "retry", "model", "init", "compact", "skill", "skills", "quit", "exit"}

\* What typing /word does: a command of the program's, or a skill's body sent.
RunWord(skills, word) ==
  IF lower(word) \in BuiltInWords \/ find(skills, lower(word)) = <<>>
  THEN <<>> ELSE find(skills, lower(word))[1].body

-----------------------------------------------------------------------------
(* What a word means, without a registry. *)

\* The files by their places: the directory's and the name's.
Files(dirs) ==
  {f \in (1..Len(skillDirs)) \X (1..Len(Stems)) :
     Stems[f[2]] \in DOMAIN dirs[skillDirs[f[1]]]}
SkillAt(dirs, f) == SkillOf(dirs[skillDirs[f[1]]], Stems[f[2]])
Before(f, g) == f[1] < g[1] \/ (f[1] = g[1] /\ f[2] < g[2])

Named(dirs, word) ==
  {f \in Files(dirs) : SkillAt(dirs, f).body # <<>> /\ lower(SkillAt(dirs, f).name) = lower(word)}

Words(dirs) == {SkillAt(dirs, f).name : f \in Files(dirs)} \cup BuiltInWords

\* The first of the files that carry the name, the working directory's before the
\* user's and in a directory in the order of their stems.
MeansFiles(skills, dirs) ==
  \A word \in Words(dirs) :
    RunWord(skills, word) =
      IF lower(word) \in BuiltInWords \/ Named(dirs, word) = {} THEN <<>>
      ELSE SkillAt(dirs, CHOOSE f \in Named(dirs, word) :
                           \A g \in Named(dirs, word) \ {f} : Before(f, g)).body
=============================================================================
