------------------------------ MODULE FileTools -----------------------------
(***************************************************************************)
(* The two tools that edit a file, as operators on its text: what          *)
(* confirm_details shows of a call before it is approved, and what execute *)
(* makes of the file (WriteFileTool.cpp, StrReplaceTool.cpp).  The two     *)
(* functions of StrReplaceTool repeat the same checks in their own words,  *)
(* and so do the operators.                                                *)
(*                                                                         *)
(* A call is [tool, path, old_str, new_str]; write_file's content is its   *)
(* new_str.  A text is a sequence of characters, Absent a file that cannot *)
(* be opened for reading.                                                  *)
(***************************************************************************)
EXTENDS Diff

NoPath == ""
Absent == [exists |-> FALSE, text |-> <<>>]
File(text) == [exists |-> TRUE, text |-> text]

\* std::string::find: the first position from where s begins, or npos.
npos == 0
find(text, s, from) ==
  LET found == {i \in from..Len(text) - Len(s) + 1 : SubSeq(text, i, i + Len(s) - 1) = s}
  IN IF found = {} THEN npos ELSE Min(found)

replaced(text, first, call) ==
  SubSeq(text, 1, first - 1) \o call.new_str
    \o SubSeq(text, first + Len(call.old_str), Len(text))

-----------------------------------------------------------------------------
(* What the dialog shows: why the edit will fail, or its diff.             *)

Fails(why) == [fails |-> why, diff |-> <<>>]
Shows(diff) == [fails |-> "", diff |-> diff]
NoChanges == Shows(<<>>)

confirm_write(file, call, context, max_lines) ==
  Shows(unified_diff(file.text, call.new_str, context, max_lines))

\* A mistake: the preview does not look for a second occurrence.
confirm_replace_First(file, call, context, max_lines) ==
  LET first == find(file.text, call.old_str, 1)
  IN IF ~file.exists \/ call.old_str = <<>> \/ first = npos THEN Fails("old_str not found")
     ELSE Shows(unified_diff(file.text, replaced(file.text, first, call), context, max_lines))

confirm_replace(file, call, context, max_lines) ==
  LET first == find(file.text, call.old_str, 1)
  IN IF ~file.exists THEN Fails("cannot read")
     ELSE IF call.old_str = <<>> THEN Fails("old_str is empty")
     ELSE IF first = npos THEN Fails("old_str not found")
     ELSE IF find(file.text, call.old_str, first + Len(call.old_str)) # npos
       THEN Fails("old_str is not unique")
     ELSE Shows(unified_diff(file.text, replaced(file.text, first, call), context, max_lines))

confirm_details(file, call, context, max_lines) ==
  IF call.tool = "write_file" THEN confirm_write(file, call, context, max_lines)
  ELSE confirm_replace(file, call, context, max_lines)

-----------------------------------------------------------------------------
(* What execute does before it opens the file for writing: an error, or    *)
(* the text to write.                                                      *)

Error(why) == [error |-> why, text |-> <<>>]
Writes(text) == [error |-> "", text |-> text]

execute_write(file, call) ==
  IF call.path = NoPath THEN Error("path is required") ELSE Writes(call.new_str)

\* A mistake: the search for a second occurrence is left out.
execute_replace_First(file, call) ==
  LET first == find(file.text, call.old_str, 1)
  IN IF call.path = NoPath \/ call.old_str = <<>> \/ ~file.exists \/ first = npos
       THEN Error("old_str not found")
     ELSE Writes(replaced(file.text, first, call))

execute_replace(file, call) ==
  LET first == find(file.text, call.old_str, 1)
  IN IF call.path = NoPath THEN Error("path is required")
     ELSE IF call.old_str = <<>> THEN Error("old_str must not be empty")
     ELSE IF ~file.exists THEN Error("could not open")
     ELSE IF first = npos THEN Error("old_str not found")
     ELSE IF find(file.text, call.old_str, first + Len(call.old_str)) # npos
       THEN Error("old_str is not unique")
     ELSE Writes(replaced(file.text, first, call))

execute(file, call) ==
  IF call.tool = "write_file" THEN execute_write(file, call) ELSE execute_replace(file, call)
=============================================================================
