----------------------------- MODULE HtmlPasses -----------------------------
(***************************************************************************)
(* The streams of XmlReader::parseHtml.  It reads a document up to three   *)
(* times, each time through a DataSource of its own: a check of the raw    *)
(* text; when that fails, a check of the tidied text; and then, from a     *)
(* third source that is not tidied, the parse whose events the application *)
(* gets.  That the last pass gets the text whose check has succeeded       *)
(* depends on what the earlier ones leave in the cache.                    *)
(*                                                                         *)
(* libxml is external and abstracted to its verdict: a raw text may have   *)
(* an error at one of its pieces, a tidied text has none.  What happens    *)
(* inside a pass is the subject of XmlReader.                              *)
(***************************************************************************)
EXTENDS TidyStream

CONSTANTS
  FlawAt,                       \* FlawAt[u][v]: the piece with the error, or 0
  ReaderCaches                  \* the settings of XmlReader's bUseCache

ASSUME FlawAssumption == FlawAt \in [Url -> [Version -> Nat]]
ASSUME ReaderAssumption == ReaderCaches \subseteq BOOLEAN

VARIABLE html                   \* the call of parseHtml, or its result

htmlVars == <<tidyVars, html>>

(***************************************************************************)
(* pass: "idle", "check", "tidied" or "handlers"; slot: the stream of its  *)
(* DataSource, or None between two of them; fed: what this pass has given  *)
(* libxml; checked: what the check that succeeded had been given;          *)
(* published: the versions of the document that have come out since the    *)
(* call was made; ret: the result of the last call, with what it was that  *)
(* failed.                                                                 *)
(***************************************************************************)
NoParse ==
  [pass |-> "idle", slot |-> None, url |-> None, bUseCache |-> TRUE,
   fed |-> <<>>, checked |-> <<>>, published |-> {}, ret |-> "none"]

HtmlInit == TidyInit /\ html = NoParse

(***************************************************************************)
(* DataSource's constructor asks for a cached stream, and parse tells that *)
(* the setting of the reader.                                              *)
(***************************************************************************)
DataSource(url, tidyflag, bUseCache) ==
  [url |-> url, tidy |-> tidyflag, useCache |-> TRUE, later |-> bUseCache]

ParseHtml(s, u, cached) ==
  /\ html.pass = "idle"
  /\ OpenStream(s, DataSource(u, FALSE, cached))
  /\ html' = [NoParse EXCEPT !.pass = "check", !.slot = s, !.url = u,
                             !.bUseCache = cached]

\* Mutant: the last pass is given the tidied text, needed or not.
SourceOfPassTidied(h) == DataSource(h.url, h.pass # "check", h.bUseCache)

SourceOfPass(h) == DataSource(h.url, h.pass = "tidied", h.bUseCache)

NextSource(s) ==
  /\ html.pass # "idle" /\ html.slot = None
  /\ OpenStream(s, SourceOfPass(html))
  /\ html' = [html EXCEPT !.slot = s]

-----------------------------------------------------------------------------
(***************************************************************************)
(* The loop of parse: read, and give libxml what has come.                 *)
(***************************************************************************)
Told(s) == IF IsTidied(s) THEN tidy[s].status ELSE status[s]
Got(s)  == IF IsTidied(s) THEN tidy[s].out ELSE out[s]

AtLoop(s) ==
  /\ html.pass # "idle" /\ html.slot = s
  /\ cur = None /\ calling = None

ReadSome(s) ==
  /\ AtLoop(s)
  /\ Told(s) = "open" /\ Got(s) = html.fed
  /\ ReadPlain(s, MaxRead) \/ BeginTidyRead(s, MaxRead)
  /\ UNCHANGED html

Flawed(text) ==
  \E i \in DOMAIN text :
    /\ text[i].form = "raw" /\ text[i].version # 0
    /\ text[i].n = FlawAt[text[i].url][text[i].version]

NewText(s) == SubSeq(Got(s), Len(html.fed) + 1, Len(Got(s)))

Feed(s) ==
  /\ AtLoop(s)
  /\ Got(s) # html.fed
  /\ ~Flawed(NewText(s))
  /\ html' = [html EXCEPT !.fed = Got(s)]
  /\ UNCHANGED tidyVars

(***************************************************************************)
(* The end of a pass deletes the DataSource, and the stream with it.       *)
(***************************************************************************)
Rejected(s)  == Flawed(NewText(s))
Unreadable(s) == Got(s) = html.fed /\ Told(s) = "error"
Accepted(s)  == Got(s) = html.fed /\ Told(s) = "eof"

Then(pass) ==
  html' = [html EXCEPT !.pass = pass, !.slot = None, !.fed = <<>>,
                       !.checked = html.fed]

Finish(ret) ==
  html' = [NoParse EXCEPT !.url = html.url, !.fed = html.fed,
                          !.published = html.published, !.ret = ret]

EndPass(s) ==
  /\ AtLoop(s)
  /\ \/ /\ Accepted(s)
        /\ IF html.pass = "handlers" THEN Finish("true") ELSE Then("handlers")
     \/ /\ Rejected(s)
        /\ IF html.pass = "check" THEN Then("tidied") ELSE Finish("rejected")
     \/ /\ Unreadable(s)
        /\ IF html.pass = "check" THEN Then("tidied") ELSE Finish("unreadable")
  /\ DeleteStream(s)

-----------------------------------------------------------------------------
\* A document changes at any time: between calls, between the passes of one,
\* and while one of them reads it.
Change(u) ==
  /\ Publish(u)
  /\ html' = IF html.pass # "idle" /\ html.url = u
             THEN [html EXCEPT !.published = @ \cup {ver'[u]}] ELSE html

Destroy ==
  /\ html.pass = "idle"
  /\ DestroyInstance
  /\ UNCHANGED html

StreamStep ==
  /\ CallStep \/ \E s \in Stream : TidyReadStep(s)
  /\ UNCHANGED html

PassStep(s) == ReadSome(s) \/ Feed(s) \/ EndPass(s) \/ NextSource(s)

HtmlNext ==
  \/ \E s \in Stream :
       \/ \E u \in Url, cached \in ReaderCaches : ParseHtml(s, u, cached)
       \/ PassStep(s)
  \/ StreamStep
  \/ \E u \in Url : Change(u)
  \/ Destroy

HtmlSpec == HtmlInit /\ [][HtmlNext]_htmlVars

(***************************************************************************)
(* A call of parseHtml runs until it returns; nobody is obliged to make    *)
(* one.  A transfer that does not advance is ended by curl's timeouts.     *)
(***************************************************************************)
HtmlFairness ==
  /\ WF_htmlVars(StreamStep)
  /\ WF_htmlVars(\E s \in Stream : PassStep(s))

HtmlLiveSpec == HtmlSpec /\ HtmlFairness

-----------------------------------------------------------------------------
\* Every variable has its type.
HtmlTypeOK ==
  /\ TidyTypeOK
  /\ html \in [pass : {"idle", "check", "tidied", "handlers"},
               slot : Stream \cup {None}, url : Url \cup {None},
               bUseCache : BOOLEAN, fed : Seq(Piece), checked : Seq(Piece),
               published : SUBSET Version,
               ret : {"none", "true", "rejected", "unreadable"}]

\* The application's handlers are given the text whose check has succeeded, or
\* the text of a version that has come out since the call was made: the last
\* pass reads the document anew, but never one older than the call, never a text
\* put together from two versions, and the raw text of the version that was
\* checked only when it was the raw text that was checked.
HandlersGetCheckedOrNewer ==
  html.pass = "handlers" =>
    \/ IsPrefix(html.fed, html.checked)
    \/ \E v \in html.published : IsPrefix(html.fed, Body(html.url, v))

\* parseHtml returns true only when the handlers have been given all of one
\* version of the document, in one form.
SuccessIsWhole ==
  html.ret = "true" =>
    Whole(html.fed, html.url) \/ WholeTidied(html.fed, html.url)

\* No document that stays as it is during the call is refused for errors that
\* libtidy can mend: the "fallback for cleaning up messy and malformed XML files"
\* (README.md:18).
FallbackMends == html.ret = "rejected" => html.published # {}

\* Every call of parseHtml returns.
ParseReturns == html.pass # "idle" ~> html.pass = "idle"

(***************************************************************************)
(* What the code does not keep, see README.                                *)
(***************************************************************************)
\* The handlers are given the text whose check has succeeded, and no other ("If
\* we have a valid document, setup sax handler to recieve events",
\* XmlReader.cpp:659).  (A newer version reaches them unchecked.)
HandlersGetChecked ==
  html.pass = "handlers" => IsPrefix(html.fed, html.checked)

=============================================================================
