----------------------------- MODULE BoardTools ------------------------------
(***************************************************************************)
(* The tools a board member may call (board/tools.py), as the results they *)
(* can give: what a handler tells the turn, not the text it returns.       *)
(***************************************************************************)
EXTENDS Integers, Sequences, FiniteSets

CONSTANTS
  Tool,       \* the tools registered in TOOLS that are offered
  Sources,    \* bound: the search results a claim may meet, each the tiers of its URLs
  Quoted      \* bound: the sets of verdicts a claim may quote ("VERDICT: ...") itself

(* Every result: the verdict of its summary ("none" when the summary is    *)
(* not exactly a verdict), the verdicts that stand in its text, those of   *)
(* them the claim itself quotes, an error, and whether the sources behind  *)
(* it pass the authority threshold.                                        *)
Verdict == {"SUPPORTED", "CONTRADICTED", "UNVERIFIED"}
Result == [summary : Verdict \cup {"none"}, text : SUBSET Verdict,
           quoted : SUBSET Verdict, error : BOOLEAN, backed : BOOLEAN]
Plain == [summary |-> "none", text |-> {}, quoted |-> {}, error |-> FALSE, backed |-> FALSE]
Failed == [Plain EXCEPT !.error = TRUE]

Count(tiers, t) == Cardinality({i \in DOMAIN tiers : tiers[i] = t})

(* One academic source, two of the major news, or three established blogs. *)
passes_authority_threshold(tiers) ==
  \/ Count(tiers, "academic") >= 1
  \/ Count(tiers, "major_news") >= 2
  \/ Count(tiers, "established_blog") >= 3

top_n(tiers) == SubSeq(tiers, 1, IF Len(tiers) < 5 THEN Len(tiers) ELSE 5)

(* Search, judge, and the downgrade of a verdict that lacks authority. The *)
(* summary of an empty search and of a failed judge is not a bare verdict; *)
(* every text begins with the claim, whatever the claim says.              *)
_handle_validate_claim(tiers, judge, quoted) ==
  LET backed == passes_authority_threshold(top_n(tiers))
      Unverified(r) == [r EXCEPT !.text = quoted \cup {"UNVERIFIED"}, !.quoted = quoted]
  IN IF tiers = <<>> THEN Unverified(Plain)
     ELSE IF judge = "fails" THEN Unverified(Failed)
     ELSE [summary |-> IF judge = "SUPPORTED" /\ ~backed THEN "UNVERIFIED" ELSE judge,
           text    |-> quoted \cup {judge},
           quoted  |-> quoted,
           error   |-> FALSE,
           backed  |-> backed]

(* The hops of a fetch: each is checked against the address guard before   *)
(* it is requested, and five requests are made at most.                    *)
max_redirects == 5
_safe_http_get(hops) ==
  LET ends == {i \in DOMAIN hops : hops[i] # "redirect"}
      stop == CHOOSE i \in ends : \A j \in ends : i <= j
  IN ends # {} /\ stop <= max_redirects /\ hops[stop] = "page"

_handle_fetch_url(hops) == IF _safe_http_get(hops) THEN Plain ELSE Failed

Hops == {<<"page">>, <<"blocked">>, <<"redirect", "page">>, <<"redirect", "blocked">>,
         <<"redirect", "redirect", "redirect", "redirect", "redirect", "page">>}

_handle_web_search == {Plain}
_handle_ask_user == {Plain}
_open_browser_via_playwright == {Plain, Failed}

(* expand_peer reads the letter through the session's map: a letter that   *)
(* is not there, the member's own, or one without a response is an error.  *)
_handle_expand_peer(letter, me, letters, answered) ==
  IF /\ letter \in DOMAIN letters
     /\ letters[letter] # me
     /\ letters[letter] \in answered
  THEN Plain ELSE Failed

(* execute_tool: a handler that raises, or a name nobody registered, gives *)
(* a result with an error.                                                 *)
execute_tool(name) ==
  CASE name = "validate_claim" ->
         {_handle_validate_claim(s, j, q) :
            s \in Sources, j \in Verdict \cup {"fails"}, q \in Quoted}
           \cup {Failed}
    [] name = "open_browser"   -> _open_browser_via_playwright
    [] name = "fetch_url"      -> {_handle_fetch_url(h) : h \in Hops}
    [] name = "web_search"     -> _handle_web_search \cup {Failed}
    [] name = "ask_user_clarifying_question" -> _handle_ask_user \cup {Failed}
    [] OTHER                   -> {Failed}

triggers_revision(r) == r.summary = "CONTRADICTED"

(* The first of the three that stands in the text, in this order. *)
_parse_tool_verdict(text) ==
  CASE "SUPPORTED" \in text    -> "SUPPORTED"
    [] "CONTRADICTED" \in text -> "CONTRADICTED"
    [] "UNVERIFIED" \in text   -> "UNVERIFIED"
    [] OTHER                   -> "none"

(* Slip: the record takes the verdict out of the text, which a downgrade   *)
(* leaves as the judge wrote it.                                           *)
VerdictOfText(r) == _parse_tool_verdict(r.text)

(* The verdict of a record: the summary's, and else the text's. *)
_make_tool_call_record(r) ==
  IF r.summary # "none" THEN r.summary ELSE _parse_tool_verdict(r.text)
=============================================================================
