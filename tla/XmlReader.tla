------------------------------ MODULE XmlReader ------------------------------
(***************************************************************************)
(* XmlReader (src/src/XmlReader.cpp): the loop that feeds a stream to      *)
(* libxml, libxml's callbacks into the reader, the reader's flags and      *)
(* namespace stack, and the calls of the application.                      *)
(*                                                                         *)
(* A document is the sequence of things libxml finds in its text:          *)
(*   start    a start tag, with its name and its xmlns declarations        *)
(*   end      an end tag, or the end libxml makes up for a missing one     *)
(*   text     character data, a processing instruction, a CDATA section    *)
(*   warning  an unknown entity or another reason for a warning            *)
(*   error    a violation of the syntax                                    *)
(*   extra    content after the end of the document                        *)
(*   bom      the byte order mark of UTF-8                                 *)
(* The application has a content handler; it may have an error handler,    *)
(* and any of its callbacks may call stopParsing.  Comments are left out:  *)
(* their handler changes nothing in the reader.                            *)
(***************************************************************************)
EXTENDS XmlNamespace

CONSTANTS
  Document,    \* the texts URLs may have
  Content,     \* for each text the sequence of what libxml finds in it
  Tidied,      \* for each text, what libtidy makes of it
  PrefixOf,    \* for each name its prefix, "" without a colon
  ErrorHandlers, \* whether the application has an error handler: a set of Booleans
  Refusals,    \* TRUE where startDocument of the application may say no
  MaxStale     \* bound: namespaces on the stack when a parse starts

ASSUME ResultAssumption == None \notin {"parsed", "failed"}
ASSUME ErrorHandlersAssumption == ErrorHandlers \subseteq BOOLEAN
ASSUME DocumentAssumption ==
  /\ None \notin Document
  /\ Tidied \in [Document -> Document]
  /\ \A d \in Document : \A i \in DOMAIN Content[d] :
       /\ Content[d][i].type \in {"start", "end", "text", "warning", "error", "extra", "bom"}
       /\ Content[d][i].type = "start" =>
            Content[d][i].name \in QName /\ Content[d][i].decls \in Seq(Decl)
\* How many of the first n things libxml finds in d are of a type.
Among(d, n, type) == Cardinality({i \in 1 .. n : Content[d][i].type = type})

\* libxml reports no end that has no start before it.
ASSUME NestingAssumption ==
  \A d \in Document :
    /\ Content[d] \in Seq({Content[d][i] : i \in DOMAIN Content[d]})
    /\ \A n \in 0 .. Len(Content[d]) : Among(d, n, "end") <= Among(d, n, "start")
ASSUME PrefixOfAssumption ==
  /\ PrefixOf \in [QName -> Prefix]
  /\ \A q \in QName : PrefixOf[q] \in Heads[q]
ASSUME NoEventAssumption == None \notin [name : QName, uri : Uri \cup {None}]

VARIABLES
  ns,         \* the heap of XmlNamespace objects
  nsStack,    \* nsStackCur and its prev pointers, the top last
  phase,      \* what the thread is doing
  job,        \* m_doctype, the pass of the call, the texts of the URL and the pass
  left,       \* what the stream has not delivered
  chunk,      \* what libxml has of the buffer
  lib,        \* libxml: errNo is set; xmlStopParser has been called
  m,          \* m_parserStopped, m_sawError, m_endDocumentHandlerCalled
  m_context,  \* m_context points to a parser context
  pLastError, \* the last error is that of this call, of an older one, or None
  result,     \* what the last parse returned: "parsed" (true) or "failed" (false)
  open,       \* what the application has seen start and not end
  closed,     \* what it has just seen end, or None
  ended,      \* how often it was told of the end of the document
  base        \* the height of the stack when the call was made

vars == <<ns, nsStack, phase, job, left, chunk, lib, m, m_context, pLastError,
          result, open, closed, ended, base>>

feed == <<job, left, base>>
namespaces == <<ns, nsStack>>
heard == <<open, closed, ended>>

NoFlags == [parserStopped |-> FALSE, sawError |-> FALSE,
            endDocumentHandlerCalled |-> FALSE]
Fresh == [error |-> FALSE, stopped |-> FALSE]
NoJob == [doctype |-> "xml", pass |-> "final", url |-> None, doc |-> None, errorHandler |-> FALSE]

XmlNamespaceTop == IF nsStack = <<>> THEN None ELSE Last(nsStack)

Init ==
  /\ ns = [a \in Node |-> None]
  /\ nsStack = <<>>
  /\ phase = "idle"
  /\ job = NoJob
  /\ left = <<>> /\ chunk = <<>>
  /\ lib = Fresh /\ m = NoFlags
  /\ m_context = FALSE
  /\ pLastError = None
  /\ result = None
  /\ open = <<>> /\ closed = None /\ ended = 0
  /\ base = 0

-----------------------------------------------------------------------------
(***************************************************************************)
(* The calls of the application.                                           *)
(***************************************************************************)
Older == IF pLastError = None THEN None ELSE "older"

\* parse() is entered with a context made for the pass.
StartPass(doctype, pass, url, d, e) ==
  /\ job' = [doctype |-> doctype, pass |-> pass, url |-> url, doc |-> d, errorHandler |-> e]
  /\ left' = Content[d]
  /\ chunk' = <<>>
  /\ lib' = Fresh
  /\ m' = NoFlags
  /\ m_context' = TRUE
  /\ phase' = "reading"

Called ==
  /\ phase = "idle"
  /\ Len(nsStack) <= MaxStale
  /\ open' = <<>> /\ closed' = None /\ ended' = 0
  /\ base' = Len(nsStack)
  /\ UNCHANGED namespaces

ParseXml(d, e) ==
  /\ Called
  /\ StartPass("xml", "final", d, d, e)
  /\ pLastError' = Older
  /\ UNCHANGED result

\* setupSAXHandler: startDocument of the content handler returns false.
RefuseXml(d, e) ==
  /\ Refusals
  /\ Called
  /\ job' = [doctype |-> "xml", pass |-> "refused", url |-> d, doc |-> d, errorHandler |-> e]
  /\ left' = Content[d] /\ chunk' = <<>>
  /\ pLastError' = "this"
  /\ result' = "failed"
  /\ UNCHANGED <<phase, lib, m, m_context>>

ParseHtml(d, e) ==
  /\ Called
  /\ StartPass("html", "check", d, d, e)
  /\ pLastError' = Older
  /\ UNCHANGED result

\* The destructor pops the stack and derefs nothing; then another is made.
DeleteReader ==
  /\ phase = "idle"
  /\ nsStack' = <<>>
  /\ phase' = "deleted"
  /\ pLastError' = None
  /\ UNCHANGED <<ns, feed, chunk, lib, m, m_context, result, heard>>

NewReader ==
  /\ phase = "deleted"
  /\ ns' = [a \in Node |-> None]
  /\ phase' = "idle"
  /\ job' = NoJob /\ left' = <<>> /\ base' = 0
  /\ chunk' = <<>> /\ lib' = Fresh /\ m' = NoFlags
  /\ m_context' = FALSE /\ result' = None
  /\ open' = <<>> /\ closed' = None /\ ended' = 0
  /\ UNCHANGED <<nsStack, pLastError>>

-----------------------------------------------------------------------------
(***************************************************************************)
(* parse(): readBytes, the byte order mark, and what a chunk returns.      *)
(***************************************************************************)
Returns(ret) ==
  /\ phase' = "ended"
  /\ result' = ret

\* The first read, of k things, brings the byte order mark and nothing else.
OnlyMark(k) == k = 1 /\ left = Content[job.doc] /\ Head(left).type = "bom"

\* As much as the stream has at the moment: it need not fill the buffer.
Read(k) ==
  LET read == SubSeq(left, 1, k)
      first == left = Content[job.doc]
  IN  /\ phase = "reading"
      /\ ~OnlyMark(k)
      /\ chunk' = IF first /\ Head(read).type = "bom" THEN Tail(read) ELSE read
      /\ left' = SubSeq(left, k + 1, Len(left))
      /\ phase' = "parsing"
      /\ UNCHANGED <<job, base, namespaces, lib, m, m_context, pLastError, result, heard>>

\* The mark is taken off bytes_read, which is then 0: the loop takes that for
\* the end of the stream.
ReadOnlyMark ==
  /\ phase = "reading"
  /\ left # <<>>
  /\ OnlyMark(1)
  /\ left' = Tail(left)
  /\ Returns(IF m.sawError THEN "failed" ELSE "parsed")
  /\ UNCHANGED <<job, base, namespaces, chunk, lib, m, m_context, pLastError, heard>>

\* Variant with a mistake: a short read is taken for the end.
AtEndEarly == Len(left) < 2

AtEnd == left = <<>>

ReadEnd ==
  /\ phase = "reading"
  /\ AtEnd
  /\ Returns(IF m.sawError THEN "failed" ELSE "parsed")
  /\ UNCHANGED <<feed, namespaces, chunk, lib, m, m_context, pLastError, heard>>

\* Variant with a mistake: the error of the stream is not kept.
ErrorOfReadLost == pLastError

ErrorOfRead == "this"

\* readBytes throws an XmlError (stop = FALSE) or returns -1.
ReadFails(stop) ==
  /\ phase = "reading"
  /\ lib' = [lib EXCEPT !.stopped = @ \/ stop]
  /\ m' = [m EXCEPT !.sawError = TRUE]
  /\ pLastError' = ErrorOfRead
  /\ Returns("failed")
  /\ UNCHANGED <<feed, namespaces, chunk, m_context, heard>>

\* Whether parseChunk returns an error.  After xmlStopParser alone it does in
\* the later versions of libxml.
ChunkReturns ==
  IF lib.error THEN {TRUE} ELSE IF lib.stopped THEN BOOLEAN ELSE {FALSE}

ChunkDone ==
  /\ phase = "parsing"
  /\ chunk = <<>>
  /\ \/ /\ FALSE \in ChunkReturns
        /\ phase' = "reading"
        /\ UNCHANGED <<lib, m, pLastError, result>>
     \/ /\ TRUE \in ChunkReturns
        /\ lib' = [lib EXCEPT !.stopped = TRUE]
        /\ m' = [m EXCEPT !.sawError = TRUE]
        /\ pLastError' = "this"
        /\ Returns("failed")
  /\ UNCHANGED <<feed, namespaces, chunk, m_context, heard>>

-----------------------------------------------------------------------------
(***************************************************************************)
(* libxml in a pass with the null handler: only errors are noticed.        *)
(***************************************************************************)
Unheard == {"error", "extra"}

CheckChunk ==
  /\ phase = "parsing"
  /\ job.pass # "final"
  /\ chunk # <<>>
  /\ lib' = [lib EXCEPT !.error = @ \/ \E i \in DOMAIN chunk : chunk[i].type \in Unheard]
  /\ chunk' = <<>>
  /\ UNCHANGED <<phase, feed, namespaces, m, m_context, pLastError, result, heard>>

(***************************************************************************)
(* libxml in the pass of the application's handlers.  After an error or    *)
(* xmlStopParser the XML parser calls nothing; the HTML parser recovers    *)
(* from errors and may go on to the end of the chunk even when stopped.    *)
(***************************************************************************)
Halted == lib.error \/ lib.stopped

Finds(type) ==
  /\ phase = "parsing"
  /\ job.pass = "final"
  /\ chunk # <<>>
  /\ Head(chunk).type = type
  /\ Halted => job.doctype = "html"
  /\ UNCHANGED <<phase, feed, m_context, result>>

Calls(type) ==
  /\ Finds(type)
  /\ chunk' = Tail(chunk)

Abandon ==
  /\ phase = "parsing"
  /\ job.pass = "final"
  /\ Halted
  /\ chunk # <<>>
  /\ chunk' = <<>>
  /\ UNCHANGED <<phase, feed, namespaces, lib, m, m_context, pLastError, result, heard>>

\* stopParsing
StopParsing(flags) ==
  /\ lib' = [lib EXCEPT !.stopped = TRUE]
  /\ m' = [flags EXCEPT !.parserStopped = TRUE]

MayStop(stop) ==
  IF stop THEN StopParsing(m) ELSE UNCHANGED <<lib, m>>

\* The first statement of the handlers.
ParserStopped == m.parserStopped

Ignored(type) ==
  /\ Calls(type)
  /\ ParserStopped
  /\ UNCHANGED <<namespaces, lib, m, pLastError, heard>>

StartElement(stop) ==
  /\ Calls("start")
  /\ ~ParserStopped
  /\ LET name  == Head(chunk).name
         decls == Head(chunk).decls
         pushed == PushNamespaces(ns, XmlNamespaceTop, decls)
     IN  /\ HasRoom(ns, decls)
         /\ ns' = pushed.ns
         /\ nsStack' = Append(nsStack, pushed.top)
         /\ open' = Append(open, [name |-> name, decls |-> decls,
                      uri |-> UriForPrefix(pushed.ns, pushed.top, name)])
  /\ closed' = None
  /\ MayStop(stop)
  /\ UNCHANGED <<pLastError, ended>>

\* Variant with a mistake: the namespace is popped before the name is resolved.
EndUriAfterPop(name) ==
  IF Len(nsStack) < 2 THEN None
  ELSE UriForPrefix(ns, Last(Front(nsStack)), name)

EndUri(name) == UriForPrefix(ns, XmlNamespaceTop, name)

EndElement(stop) ==
  /\ Calls("end")
  /\ ~ParserStopped
  /\ closed' = [name |-> Last(open).name, uri |-> EndUri(Last(open).name)]
  /\ open' = Front(open)
  /\ ns' = Deref(ns, XmlNamespaceTop)
  /\ nsStack' = Front(nsStack)
  /\ MayStop(stop)
  /\ UNCHANGED <<pLastError, ended>>

Characters(stop) ==
  /\ Calls("text")
  /\ ~ParserStopped
  /\ closed' = None
  /\ MayStop(stop)
  /\ UNCHANGED <<namespaces, pLastError, open, ended>>

\* warningHandler is set, and does anything, only with an error handler.
Warning(stop) ==
  /\ Calls("warning")
  /\ ~ParserStopped
  /\ IF job.errorHandler THEN MayStop(stop) /\ pLastError' = "this"
     ELSE UNCHANGED <<lib, m, pLastError>>
  /\ UNCHANGED <<namespaces, heard>>

(***************************************************************************)
(* normalErrorHandler and fatalErrorHandler: nothing once stopped; without *)
(* an error handler the parser is stopped; else the error is kept and      *)
(* recorded, and the handler says whether to go on.  For content behind    *)
(* the end of the document libxml then calls endDocument and stops.        *)
(***************************************************************************)
Stops(stop) == ~ParserStopped /\ (~job.errorHandler \/ stop)
Records     == ~ParserStopped /\ job.errorHandler

Reported(stop, atEnd) ==
  /\ lib' = [error |-> TRUE, stopped |-> lib.stopped \/ atEnd \/ Stops(stop)]
  /\ m' = [parserStopped |-> m.parserStopped \/ Stops(stop),
           sawError |-> m.sawError \/ Records,
           endDocumentHandlerCalled |-> m.endDocumentHandlerCalled \/ atEnd]
  /\ pLastError' = IF Records THEN "this" ELSE pLastError

Error(stop) ==
  /\ Calls("error")
  /\ Reported(stop, FALSE)
  /\ UNCHANGED <<namespaces, heard>>

Extra(stop) ==
  /\ Finds("extra")
  /\ chunk' = <<>>
  /\ Reported(stop, TRUE)
  /\ ended' = ended + 1
  /\ UNCHANGED <<namespaces, open, closed>>

-----------------------------------------------------------------------------
(***************************************************************************)
(* What parseXml and parseHtml do when parse() has returned.               *)
(***************************************************************************)
\* Variant with a mistake: endDocument is called whoever called it before.
EndDocumentMissingAlways == TRUE

EndDocumentMissing == ~m.endDocumentHandlerCalled

Finish ==
  /\ phase = "ended"
  /\ job.pass = "final"
  /\ IF EndDocumentMissing THEN ended' = ended + 1 ELSE UNCHANGED ended
  /\ m_context' = FALSE
  /\ phase' = "idle"
  /\ UNCHANGED <<feed, namespaces, chunk, lib, m, pLastError, result, open, closed>>

\* The text as it is fails: once more, tidied.
CheckTidied ==
  /\ phase = "ended"
  /\ job.pass = "check"
  /\ result = "failed"
  /\ StartPass("html", "tidied", job.url, Tidied[job.url], job.errorHandler)
  /\ UNCHANGED <<namespaces, base, pLastError, result, heard>>

GiveUp ==
  /\ phase = "ended"
  /\ job.pass = "tidied"
  /\ result = "failed"
  /\ m_context' = FALSE
  /\ phase' = "idle"
  /\ UNCHANGED <<feed, namespaces, chunk, lib, m, pLastError, result, heard>>

\* A pass went well: the text once more with the handlers.  It is the tidied
\* text where the cache has that, else the text as it is.
HandleHtml ==
  /\ phase = "ended"
  /\ job.pass # "final"
  /\ result = "parsed"
  /\ \E d \in {job.url, Tidied[job.url]} :
       StartPass("html", "final", job.url, d, job.errorHandler)
  /\ UNCHANGED <<namespaces, base, pLastError, result, heard>>

\* startDocument of the content handler returns false; the context is kept.
RefuseHtml ==
  /\ Refusals
  /\ phase = "ended"
  /\ job.pass # "final"
  /\ result = "parsed"
  /\ pLastError' = "this"
  /\ result' = "failed"
  /\ phase' = "idle"
  /\ UNCHANGED <<feed, namespaces, chunk, lib, m, m_context, heard>>

-----------------------------------------------------------------------------
Guarded == {"start", "end", "text", "warning"}

Call ==
  \/ \E d \in Document, e \in ErrorHandlers :
       ParseXml(d, e) \/ RefuseXml(d, e) \/ ParseHtml(d, e)
  \/ DeleteReader
  \/ NewReader

ParseStep ==
  \/ \E k \in 1 .. Len(left) : Read(k)
  \/ ReadOnlyMark
  \/ ReadEnd
  \/ \E stop \in BOOLEAN : ReadFails(stop)
  \/ ChunkDone

LibxmlStep ==
  \/ CheckChunk
  \/ Abandon
  \/ \E type \in Guarded : Ignored(type)
  \/ \E stop \in BOOLEAN :
       \/ StartElement(stop) \/ EndElement(stop) \/ Characters(stop)
       \/ Warning(stop) \/ Error(stop) \/ Extra(stop)

FinishStep ==
  \/ Finish
  \/ CheckTidied
  \/ GiveUp
  \/ HandleHtml
  \/ RefuseHtml

Next == Call \/ ParseStep \/ LibxmlStep \/ FinishStep

Spec == Init /\ [][Next]_vars

-----------------------------------------------------------------------------
(***************************************************************************)
(* Properties.                                                             *)
(***************************************************************************)
Flags == [parserStopped : BOOLEAN, sawError : BOOLEAN, endDocumentHandlerCalled : BOOLEAN]

\* Types: every live namespace has a reference between two handlers, and what
\* libxml has and what the stream has are the rest of the document of the pass.
TypeOK ==
  /\ ns \in [Node -> Namespace \cup {None}]
  /\ \A a \in InUse(ns) : ns[a].m_ref > 0
  /\ nsStack \in Seq(Node)
  /\ phase \in {"idle", "reading", "parsing", "ended", "deleted"}
  /\ job.doctype \in {"xml", "html"} /\ job.pass \in {"check", "tidied", "final", "refused"}
  /\ job.doc \in Document \cup {None}
  /\ job.doc # None => IsSuffix(left, Content[job.doc]) /\ IsSuffix(chunk \o left, Content[job.doc])
  /\ m \in Flags /\ lib \in [error : BOOLEAN, stopped : BOOLEAN]
  /\ m_context \in BOOLEAN
  /\ pLastError \in {None, "older", "this"}
  /\ result \in {None, "parsed", "failed"}
  /\ base \in Nat /\ ended \in Nat

\* m_ref of a namespace counts its places on the stack and the namespaces in
\* its scope, so that deref frees it with the last of both and never before;
\* and the stack is as high as the elements the application has open say, on
\* top of what older parses have left.
RefCounts ==
  phase # "deleted" =>
    /\ Len(nsStack) = base + Len(open)
    /\ \A i \in DOMAIN nsStack : nsStack[i] \in InUse(ns)
    /\ \A a \in InUse(ns) :
         /\ ns[a].m_parent # None => ns[a].m_parent \in InUse(ns)
         /\ ns[a].m_ref = Cardinality({i \in DOMAIN nsStack : nsStack[i] = a})
                        + Cardinality({b \in InUse(ns) : ns[b].m_parent = a})

(***************************************************************************)
(* The declarations an element is in the scope of, innermost last, and the *)
(* namespace they give its name.                                           *)
(***************************************************************************)
Scope(i) == FlattenSeq([j \in 1 .. i |-> open[j].decls])

DeclaredUri(i) ==
  LET here == {j \in DOMAIN Scope(i) : Scope(i)[j].prefix = PrefixOf[open[i].name]}
  IN  IF here = {} THEN "" ELSE Scope(i)[Max(here)].uri

\* No prefix in scope but its own is the beginning of the element's name.
Unambiguous(i) ==
  \A j \in DOMAIN Scope(i) :
    Scope(i)[j].prefix \in Heads[open[i].name] => Scope(i)[j].prefix = PrefixOf[open[i].name]

\* The namespace reported with a start tag is that of the innermost declaration
\* of its prefix, redeclared or not, for every name that starts with no other
\* prefix in scope, in a reader whose stack was empty when it was called.
ScopedUri ==
  base = 0 =>
    \A i \in DOMAIN open : Unambiguous(i) => open[i].uri = DeclaredUri(i)

\* The same of every name and every call: what "Get uri for prefix" promises.
ElementUri == \A i \in DOMAIN open : open[i].uri = DeclaredUri(i)

\* The end of an element is reported with the namespace of its start, whatever
\* was declared in between and whatever older parses have left on the stack.
EndReportsStart ==
  [][phase = "parsing" /\ Len(open') < Len(open) =>
       /\ closed' # None
       /\ closed'.uri = Last(open).uri]_vars

\* The application is told once of the end of a document whose start it has
\* accepted, whether libxml or the reader does it, and never in a check.
OneEndDocument ==
  /\ ended <= 1
  /\ phase = "idle" /\ job.pass = "final" /\ result # None => ended = 1
  /\ job.pass # "final" => ended = 0

Count(type) == Among(job.doc, Len(Content[job.doc]), type)

\* libxml had all of the document and found no error in it, and the application
\* heard of all of its elements.
WholeHeard ==
  /\ left = <<>> /\ chunk = <<>>
  /\ Count("error") = 0 /\ Count("extra") = 0
  /\ Len(open) = Count("start") - Count("end")

\* The document begins with a byte order mark; that was all of the first read,
\* and nothing has been read since.
StoppedAtMark ==
  /\ chunk = <<>> /\ open = <<>>
  /\ Content[job.doc] # <<>> /\ Head(Content[job.doc]).type = "bom"
  /\ left = Tail(Content[job.doc])

\* Success, unless the application has stopped the parser, means that libxml
\* had all of the document and found no error in it, and the application heard
\* of all of its elements; or that parse() went no further than the byte order
\* mark, and then the application heard of no element.
ParsedWholeOrMark ==
  phase = "idle" /\ result = "parsed" /\ ~m.parserStopped => WholeHeard \/ StoppedAtMark

\* After a failure getLastError gives an error of this call, not NULL and not
\* one of an older call.
FailureExplained ==
  phase = "idle" /\ result = "failed" => pLastError = "this"

(***************************************************************************)
(* What the code does not keep, see README.                                *)
(***************************************************************************)
\* Success means that the document was parsed.  (A first read of nothing but
\* the byte order mark ends the loop.)
ParsedWhole ==
  phase = "idle" /\ result = "parsed" /\ ~m.parserStopped => WholeHeard

\* Every namespace is freed with the reader.  (The destructor only pops.)
NoLostNamespaces == phase = "deleted" => InUse(ns) = {}

\* No call leaves a parser context behind.  (A refused parseHtml does.)
ContextFreed == phase = "idle" => ~m_context

\* Success means that every element of the document was ended.  (libxml is not
\* told of the end of the stream and does not object to a missing rest.)
ParsedComplete == phase = "idle" /\ result = "parsed" /\ ~m.parserStopped => open = <<>>
=============================================================================
