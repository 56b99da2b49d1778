------------------------------ MODULE WebFetch ------------------------------
(***************************************************************************)
(* The fetch_url tool (src/src/agent/tools/FetchUrlTool.cpp): a transfer   *)
(* that the server cuts into pieces, libcurl's callback caps and anything  *)
(* may end (src/src/net/HttpClient.cpp), and the page's readable text      *)
(* (src/src/net/Html.cpp).  A page is a sequence of tokens, each standing  *)
(* for some bytes: the beginnings of tags, ">", "&lt" and ";", blanks and  *)
(* line ends, anything else is text.  A cut may fall between any two.      *)
(***************************************************************************)
EXTENDS Integers, Sequences, SequencesExt, FiniteSetsExt

CONSTANTS Pages,          \* what servers answer: [type, tokens]
          MaxBytes,       \* HttpRequest::max_bytes, 2 MiB
          HeadBytes,      \* what looks_like_html looks at, 1024
          DefaultMaxChars, MaxMaxChars,  \* of fetch_url: 20000 and 200000
          AskedChars,     \* the max_chars the model gives
          MaxFetches      \* bound: pages fetched

ASSUME FetchBoundsAssumption ==
  /\ {MaxBytes, HeadBytes, MaxFetches} \subseteq Nat
  /\ {DefaultMaxChars, MaxMaxChars} \subseteq Nat \ {0}
  /\ HeadBytes <= MaxBytes
  /\ AskedChars \subseteq Int

ASSUME PagesAssumption == \A p \in Pages : p.tokens \in Seq(STRING)

Tab == " "    \* blanks of all kinds: they are treated alike
Newline == "\n"
BlockTags == {"<p", "</p", "<br", "<html"}
InlineTags == {"<b", "</b", "<"}
Verbatim == {"<script", "<style"}
Closing(tag) == IF tag = "<script" THEN "</script" ELSE "</style"
Opens(token) == token \in BlockTags \cup InlineTags \cup Verbatim \cup {"</script", "</style"}
Entity == "&lt"

\* The loop of html_to_text over a page's tokens: a tag is dropped up to its ">"
\* and leaves a blank or a line end, <script> and <style> with what they enclose.
\* Here skip is what is being skipped to, "" in text.
DropTag(s, token) ==
  IF s.skip # "" THEN
    IF token = s.skip THEN [s EXCEPT !.skip = IF token = ">" THEN "" ELSE ">"] ELSE s
  ELSE IF ~Opens(token) THEN
    [s EXCEPT !.out = Append(@, IF token = Newline THEN Tab ELSE token)]
  ELSE
    [out |-> Append(s.out, IF token \in BlockTags \cup Verbatim THEN Newline ELSE Tab),
     skip |-> IF token \in Verbatim THEN Closing(token) ELSE ">"]

DropTags(tokens) == FoldLeft(DropTag, [out |-> <<>>, skip |-> ""], tokens).out

\* An entity is decoded, without its ';' it is text.
Decode(out, token) ==
  IF token = ";" /\ out # <<>> /\ Last(out) = Entity THEN Append(Front(out), "<")
  ELSE Append(out, token)

decode_entities(tokens) == FoldLeft(Decode, <<>>, tokens)

\* Blanks between texts become one, lines at most one empty one between them.
Between(s) ==
  IF s.out = <<>> THEN <<>>
  ELSE IF s.newlines > 1 THEN <<Newline, Newline>>
  ELSE IF s.newlines = 1 THEN <<Newline>>
  ELSE IF s.space THEN <<Tab>> ELSE <<>>

Collapse(s, token) ==
  IF token = Tab THEN [s EXCEPT !.space = TRUE]
  ELSE IF token = Newline THEN [s EXCEPT !.space = FALSE, !.newlines = @ + 1]
  ELSE [out |-> s.out \o Between(s) \o <<token>>, space |-> FALSE, newlines |-> 0]

collapse_ws(tokens) ==
  FoldLeft(Collapse, [out |-> <<>>, space |-> FALSE, newlines |-> 0], tokens).out

\* Without a content type what begins like HTML is HTML (looks_like_html).
IsHtml(type, tokens) ==
  \/ type = "html"
  \/ type = "" /\ \E i \in DOMAIN tokens : i <= HeadBytes /\ tokens[i] = "<html"

html_to_text(type, tokens) ==
  IF IsHtml(type, tokens) THEN collapse_ws(decode_entities(DropTags(tokens))) ELSE tokens

-----------------------------------------------------------------------------
VARIABLES transfer,   \* "none", "receiving" or "done"
          page,       \* the page on the server
          sent,       \* how much of it the server has sent
          body,       \* WriteCtx::body
          max_chars,  \* the argument, defaulted and clamped
          fetched,    \* the ToolResult, its note apart
          fetches     \* pages fetched so far

fetchVars == <<transfer, page, sent, body, max_chars, fetched, fetches>>

NoPage == [type |-> "", tokens |-> <<>>]
NoResult == [ok |-> FALSE, text |-> <<>>, note |-> FALSE]
NoText == <<"(no readable text on page)">>

FetchInit ==
  /\ transfer = "none"
  /\ page = NoPage
  /\ sent = 0
  /\ body = <<>>
  /\ max_chars = 0
  /\ fetched = NoResult
  /\ fetches = 0

\* The call, up to the request.
Fetch(p, chars) ==
  /\ transfer # "receiving"
  /\ fetches < MaxFetches
  /\ fetches' = fetches + 1
  /\ transfer' = "receiving"
  /\ page' = p
  /\ sent' = 0
  /\ body' = <<>>
  /\ max_chars' = Min({IF chars <= 0 THEN DefaultMaxChars ELSE chars, MaxMaxChars})
  /\ fetched' = NoResult

\* The rest of execute: the text, cut if it is too long, and what says so.
Readable(received, truncated) ==
  LET text == html_to_text(page.type, received)
      long == Len(text) > max_chars
      kept == IF long THEN SubSeq(text, 1, max_chars) ELSE text
  IN  [ok |-> TRUE,
       text |-> IF kept = <<>> /\ ~truncated THEN NoText ELSE kept,
       note |-> long \/ truncated]

Ended(result) ==
  /\ transfer' = "done"
  /\ fetched' = result
  /\ UNCHANGED <<page, max_chars, fetches>>

\* A mistake: a body that was capped counts as the page.
Receive_CapsSilently(n) ==
  /\ transfer = "receiving"
  /\ sent + n <= Len(page.tokens)
  /\ sent' = sent + n
  /\ LET all == body \o SubSeq(page.tokens, sent + 1, sent + n)
     IN  IF Len(all) <= MaxBytes
         THEN body' = all /\ UNCHANGED <<transfer, page, max_chars, fetched, fetches>>
         ELSE /\ body' = SubSeq(all, 1, MaxBytes)
              /\ Ended(Readable(body', FALSE))

\* write_cb: a piece is appended, or what there is room for and the transfer is
\* ended, which is no failure.
Receive(n) ==
  /\ transfer = "receiving"
  /\ sent + n <= Len(page.tokens)
  /\ sent' = sent + n
  /\ LET all == body \o SubSeq(page.tokens, sent + 1, sent + n)
     IN  IF Len(all) <= MaxBytes
         THEN body' = all /\ UNCHANGED <<transfer, page, max_chars, fetched, fetches>>
         ELSE /\ body' = SubSeq(all, 1, MaxBytes)
              /\ Ended(Readable(body', TRUE)) \/ Ended(NoResult)

\* The whole answer has come: the page, or an error's with a status of 400 and more.
Received ==
  /\ transfer = "receiving"
  /\ sent = Len(page.tokens)
  /\ \/ Ended(Readable(body, FALSE))
     \/ Ended(NoResult)
  /\ UNCHANGED <<sent, body>>

\* The connection fails, breaks or has lasted for the time limit: status 0.
TransferFails ==
  /\ transfer = "receiving"
  /\ Ended(NoResult)
  /\ UNCHANGED <<sent, body>>

FetchNext ==
  \/ \E n \in 1..Len(page.tokens) : Receive(n)
  \/ Received
  \/ TransferFails

-----------------------------------------------------------------------------
\* A body cut behind "&lt" has that text where the page has "<".
WithoutCutEntity(text) ==
  IF text # <<>> /\ Last(text) = Entity THEN Front(text) ELSE text

\* The model is told when it does not have the whole page: a result without the
\* note "[truncated]" is all of the page's text, whatever cap was met or way the
\* transfer ended, and one with it begins as the page's text does
\* (FetchUrlTool.cpp:64-71, HttpClient.cpp:94-95).
FetchIsHonest ==
  transfer = "done" /\ fetched.ok =>
    LET whole == html_to_text(page.type, page.tokens)
    IN  IF fetched.note THEN IsPrefix(WithoutCutEntity(fetched.text), whole)
        ELSE fetched.text = IF whole = <<>> THEN NoText ELSE whole
=============================================================================
