--------------------------- MODULE XmlReaderProofs ---------------------------
(***************************************************************************)
(* Theorems about XmlReader, for every value of its constants: documents   *)
(* of every length, cut into chunks of every size.                         *)
(*                                                                         *)
(* The first half is about the parse loop: the calls of endDocument and    *)
(* the last error, then what success means.  The second half is about the  *)
(* reference counts and the look-up of namespaces; uriForPrefix, deref and *)
(* the loop of pushNamespaces are recursive.                               *)
(***************************************************************************)
EXTENDS XmlReader, RecursionProofs, TLAPS, FiniteSetTheorems,
        SequenceTheorems

(***************************************************************************)
(* The types these proofs need: Booleans are Booleans.                     *)
(***************************************************************************)
Passes == {"check", "tidied", "final", "refused"}

ControlOK ==
  /\ phase \in {"idle", "reading", "parsing", "ended", "deleted"}
  /\ m \in Flags
  /\ lib \in [error : BOOLEAN, stopped : BOOLEAN]
  /\ result \in {None, "parsed", "failed"}
  /\ job.pass \in Passes
  /\ job.errorHandler \in BOOLEAN
  /\ ended \in Nat

InParse == phase \in {"reading", "parsing", "ended"}

(***************************************************************************)
(* While parse() runs, the flag says whether endDocument has been called;  *)
(* libxml does that only together with an error, after which it reads no   *)
(* more of the chunk and the loop reads no other.                          *)
(***************************************************************************)
EndDocumentInv ==
  /\ InParse =>
       /\ ended = IF m.endDocumentHandlerCalled THEN 1 ELSE 0
       /\ m.endDocumentHandlerCalled =>
            phase # "reading" /\ lib.error /\ chunk = <<>> /\ job.pass = "final"
  /\ ended <= 1
  /\ phase = "idle" /\ job.pass = "final" /\ result # None => ended = 1
  /\ job.pass # "final" => ended = 0

(***************************************************************************)
(* Whatever makes parse() return false has set the last error.             *)
(***************************************************************************)
LastErrorInv ==
  /\ InParse => (m.sawError => pLastError = "this")
  /\ phase \in {"ended", "idle"} => (result = "failed" => pLastError = "this")

ParseInv == ControlOK /\ EndDocumentInv /\ LastErrorInv

LEMMA ParseInit == Init => ParseInv
BY ResultAssumption
  DEF Init, ParseInv, ControlOK, EndDocumentInv, LastErrorInv, InParse,
      NoFlags, Fresh, NoJob, Flags, Passes

LEMMA ParseCall ==
  ASSUME ParseInv, Call
  PROVE  ParseInv'
<1> USE ErrorHandlersAssumption, ResultAssumption
        DEF ParseInv, ControlOK, EndDocumentInv, LastErrorInv, InParse,
            Flags, Passes, NoFlags, Fresh, NoJob
<1>1. CASE \E d \in Document, e \in ErrorHandlers :
             ParseXml(d, e) \/ ParseHtml(d, e)
  <2>1. PICK d \in Document, e \in ErrorHandlers : ParseXml(d, e) \/ ParseHtml(d, e)
    BY <1>1
  <2>2. /\ phase' = "reading" /\ lib' = Fresh /\ m' = NoFlags
        /\ ended' = 0 /\ UNCHANGED result
        /\ job'.pass \in {"final", "check"} /\ job'.errorHandler = e
    BY <2>1 DEF ParseXml, ParseHtml, StartPass, Called
  <2>3. e \in BOOLEAN
    OBVIOUS
  <2> QED  BY <2>2, <2>3
<1>2. CASE \E d \in Document, e \in ErrorHandlers : RefuseXml(d, e)
  <2>1. PICK d \in Document, e \in ErrorHandlers : RefuseXml(d, e)
    BY <1>2
  <2>2. /\ phase = "idle" /\ phase' = "idle" /\ UNCHANGED <<lib, m>>
        /\ ended' = 0 /\ pLastError' = "this" /\ result' = "failed"
        /\ job'.pass = "refused" /\ job'.errorHandler = e
    BY <2>1 DEF RefuseXml, Called
  <2>3. e \in BOOLEAN
    OBVIOUS
  <2> QED  BY <2>2, <2>3
<1>3. CASE DeleteReader
  BY <1>3 DEF DeleteReader, feed, heard
<1>4. CASE NewReader
  BY <1>4 DEF NewReader
<1> QED  BY <1>1, <1>2, <1>3, <1>4 DEF Call

LEMMA ParseLoop ==
  ASSUME ParseInv, ParseStep
  PROVE  ParseInv'
<1> USE DEF ParseInv, ControlOK, EndDocumentInv, LastErrorInv, InParse, Flags,
            Passes, feed, heard
<1>1. CASE \E k \in 1 .. Len(left) : Read(k)
  BY <1>1 DEF Read
<1>2. CASE ReadEnd
  BY <1>2 DEF ReadEnd, Returns
<1>3. CASE \E stop \in BOOLEAN : ReadFails(stop)
  BY <1>3 DEF ReadFails, Returns, ErrorOfRead
<1>4. CASE ChunkDone
  BY <1>4 DEF ChunkDone, Returns, ChunkReturns
<1>5. CASE ReadOnlyMark
  BY <1>5 DEF ReadOnlyMark, Returns
<1> QED  BY <1>1, <1>2, <1>3, <1>4, <1>5 DEF ParseStep

LEMMA ParseLibxml ==
  ASSUME ParseInv, LibxmlStep
  PROVE  ParseInv'
<1> USE DEF ParseInv, ControlOK, EndDocumentInv, LastErrorInv, InParse, Flags,
            Passes, feed, heard, Finds, Calls, MayStop, StopParsing
<1>1. CASE CheckChunk
  BY <1>1 DEF CheckChunk
<1>2. CASE Abandon
  BY <1>2 DEF Abandon
<1>3. CASE \E type \in Guarded : Ignored(type)
  BY <1>3 DEF Ignored
<1>4. CASE \E stop \in BOOLEAN : StartElement(stop)
  BY <1>4 DEF StartElement
<1>5. CASE \E stop \in BOOLEAN : EndElement(stop) \/ Characters(stop)
  BY <1>5 DEF EndElement, Characters
<1>6. CASE \E stop \in BOOLEAN : Warning(stop)
  BY <1>6 DEF Warning
<1>7. CASE \E stop \in BOOLEAN : Error(stop)
  BY <1>7 DEF Error, Reported, Stops, Records, ParserStopped
<1>8. CASE \E stop \in BOOLEAN : Extra(stop)
  <2>1. PICK stop \in BOOLEAN : Extra(stop)
    BY <1>8
  <2>2. /\ phase = "parsing" /\ job.pass = "final" /\ chunk # <<>>
        /\ UNCHANGED <<phase, job, result>>
        /\ chunk' = <<>> /\ ended' = ended + 1
    BY <2>1 DEF Extra
  <2>3. lib' = [error |-> TRUE, stopped |-> lib.stopped \/ TRUE \/ Stops(stop)]
    BY <2>1 DEF Extra, Reported
  <2>4. /\ m'.endDocumentHandlerCalled = TRUE
        /\ m' \in Flags
        /\ m'.sawError => m.sawError \/ Records
    BY <2>1 DEF Extra, Reported, Stops, Records, ParserStopped
  <2>5. pLastError' = IF Records THEN "this" ELSE pLastError
    BY <2>1 DEF Extra, Reported
  <2>6. ended = 0
    BY <2>2
  <2>7. lib'.error /\ lib' \in [error : BOOLEAN, stopped : BOOLEAN]
    BY <2>3
  <2>8. ControlOK'  BY <2>2, <2>4, <2>6, <2>7
  <2>9. EndDocumentInv'  BY <2>2, <2>4, <2>6, <2>7
  <2>10. LastErrorInv'  BY <2>2, <2>4, <2>5
  <2> QED  BY <2>8, <2>9, <2>10
<1> QED
  BY <1>1, <1>2, <1>3, <1>4, <1>5, <1>6, <1>7, <1>8 DEF LibxmlStep

LEMMA ParseFinish ==
  ASSUME ParseInv, FinishStep
  PROVE  ParseInv'
<1> USE DEF ParseInv, ControlOK, EndDocumentInv, LastErrorInv, InParse, Flags,
            Passes, feed, heard, StartPass, NoFlags, Fresh
<1>1. CASE Finish
  <2>1. ended' = 1
    <3>1. CASE m.endDocumentHandlerCalled
      BY <1>1, <3>1 DEF Finish, EndDocumentMissing
    <3>2. CASE ~m.endDocumentHandlerCalled
      <4>1. ended = 0  BY <1>1, <3>2 DEF Finish
      <4> QED  BY <1>1, <3>2, <4>1 DEF Finish, EndDocumentMissing
    <3> QED  BY <3>1, <3>2
  <2>2. /\ phase = "ended" /\ phase' = "idle" /\ job.pass = "final"
        /\ UNCHANGED <<job, m, lib, result, pLastError>>
    BY <1>1 DEF Finish
  <2>3. ControlOK'  BY <2>1, <2>2
  <2>4. EndDocumentInv'  BY <2>1, <2>2
  <2>5. LastErrorInv'  BY <2>2
  <2> QED  BY <2>3, <2>4, <2>5
<1>2. CASE CheckTidied
  BY <1>2 DEF CheckTidied
<1>3. CASE GiveUp
  BY <1>3 DEF GiveUp
<1>4. CASE HandleHtml
  BY <1>4 DEF HandleHtml
<1>5. CASE RefuseHtml
  BY <1>5 DEF RefuseHtml
<1> QED  BY <1>1, <1>2, <1>3, <1>4, <1>5 DEF FinishStep

LEMMA ParseNext == ParseInv /\ [Next]_vars => ParseInv'
<1> SUFFICES ASSUME ParseInv, [Next]_vars PROVE ParseInv'
  OBVIOUS
<1>1. CASE UNCHANGED vars
  BY <1>1 DEF ParseInv, ControlOK, EndDocumentInv, LastErrorInv, InParse, vars
<1> QED
  BY <1>1, ParseCall, ParseLoop, ParseLibxml, ParseFinish DEF Next

\* An application that has accepted the start of a document is told of its end
\* exactly once, by libxml or by the reader, however the parse ends; and never
\* by the checks that parseHtml makes first.
THEOREM EndDocumentCorrect == Spec => []OneEndDocument
<1>1. ParseInv => OneEndDocument
  BY DEF ParseInv, EndDocumentInv, OneEndDocument
<1> QED  BY <1>1, ParseInit, ParseNext, PTL DEF Spec

\* When parseXml or parseHtml returns false, getLastError gives an error of
\* this call: neither NULL nor that of an older one.
THEOREM LastErrorCorrect == Spec => []FailureExplained
<1>1. ParseInv => FailureExplained
  BY DEF ParseInv, LastErrorInv, FailureExplained
<1> QED  BY <1>1, ParseInit, ParseNext, PTL DEF Spec

-----------------------------------------------------------------------------
(***************************************************************************)
(* A document without the first n things libxml finds in it; and that the  *)
(* application has heard of all of these, has k elements open, and none of *)
(* them was of a type in bad.                                              *)
(***************************************************************************)
Events(d) == {Content[d][i] : i \in DOMAIN Content[d]}

Rest(d, n) == [i \in 1 .. Len(Content[d]) - n |-> Content[d][n + i]]

Heard(bad, d, rest, k) ==
  \E n \in 0 .. Len(Content[d]) :
    /\ rest = Rest(d, n)
    /\ \A i \in 1 .. n : Content[d][i].type \notin bad
    /\ k + Among(d, n, "end") = Among(d, n, "start")

(***************************************************************************)
(* Lemmas about the first n things of a document.                          *)
(***************************************************************************)
LEMMA AmongNone == \A d : \A type : Among(d, 0, type) = 0
<1> TAKE d
<1> TAKE type
<1>1. {i \in 1 .. 0 : Content[d][i].type = type} = {}
  OBVIOUS
<1> QED  BY <1>1, FS_EmptySet DEF Among

LEMMA AmongNat == \A d : \A n \in Nat : \A type : Among(d, n, type) \in Nat
<1> TAKE d
<1> TAKE n \in Nat
<1> TAKE type
<1>1. IsFiniteSet(1 .. n)
  BY FS_Interval
<1>2. {i \in 1 .. n : Content[d][i].type = type} \subseteq 1 .. n
  OBVIOUS
<1>3. IsFiniteSet({i \in 1 .. n : Content[d][i].type = type})
  BY <1>1, <1>2, FS_Subset
<1> QED  BY <1>3, FS_CardinalityType DEF Among

LEMMA AmongNext ==
  ASSUME NEW d, NEW n \in Nat, NEW type
  PROVE  Among(d, n + 1, type)
           = Among(d, n, type) + (IF Content[d][n + 1].type = type THEN 1 ELSE 0)
<1> DEFINE F == {i \in 1 .. n : Content[d][i].type = type}
           G == {i \in 1 .. n + 1 : Content[d][i].type = type}
<1>1. IsFiniteSet(1 .. n)
  BY FS_Interval
<1>2. IsFiniteSet(F)
  BY <1>1, FS_Subset, F \subseteq 1 .. n
<1>3. n + 1 \notin F
  OBVIOUS
<1>4. Cardinality(F) \in Nat
  BY <1>2, FS_CardinalityType
<1>5. CASE Content[d][n + 1].type = type
  <2>1. G = F \cup {n + 1}
    BY <1>5
  <2>2. Cardinality(G) = Cardinality(F) + 1
    BY <1>2, <1>3, <2>1, FS_AddElement
  <2> QED  BY <2>2, <1>5 DEF Among
<1>6. CASE Content[d][n + 1].type # type
  <2>1. G = F
    BY <1>6
  <2> QED  BY <2>1, <1>4, <1>6 DEF Among
<1> QED  BY <1>5, <1>6

LEMMA ContentType ==
  ASSUME NEW d \in Document
  PROVE  /\ Content[d] \in Seq(Events(d))
         /\ Len(Content[d]) \in Nat
         /\ DOMAIN Content[d] = 1 .. Len(Content[d])
<1>1. Content[d] \in Seq(Events(d))
  BY NestingAssumption DEF Events
<1> QED  BY <1>1

\* A rest that is a sequence, without its first element, is the next rest.
LEMMA RestNext ==
  ASSUME NEW d \in Document, NEW n \in 0 .. Len(Content[d]),
         Rest(d, n) \in Seq(Events(d)), Rest(d, n) # <<>>
  PROVE  Tail(Rest(d, n)) = Rest(d, n + 1)
<1> DEFINE N == Len(Content[d])
           rest == Rest(d, n)
           t == Tail(rest)
<1>1. N \in Nat /\ n \in Nat
  BY ContentType
<1>2. DOMAIN rest = 1 .. N - n /\ \A i \in 1 .. N - n : rest[i] = Content[d][n + i]
  BY DEF Rest
<1> HIDE DEF rest
<1>3. Len(rest) \in Nat /\ DOMAIN rest = 1 .. Len(rest) /\ Len(rest) > 0
  BY EmptySeq DEF rest
<1>4. Len(rest) = N - n
  BY <1>1, <1>2, <1>3
<1>5. /\ t \in Seq(Events(d)) /\ Len(t) = Len(rest) - 1
      /\ \A i \in 1 .. Len(t) : t[i] = rest[i + 1]
  BY HeadTailProperties DEF rest
<1> HIDE DEF t
<1>6. Len(t) = N - (n + 1)
  BY <1>1, <1>4, <1>5
<1>7. ASSUME NEW i \in 1 .. N - (n + 1)
      PROVE  t[i] = Content[d][n + 1 + i]
  <2>1. i + 1 \in 1 .. N - n /\ n + (i + 1) = n + 1 + i
    BY <1>1
  <2> QED  BY <2>1, <1>2, <1>5, <1>6
<1>8. t = [i \in 1 .. N - (n + 1) |-> t[i]]
  <2>1. t = [i \in 1 .. Len(t) |-> t[i]]
    BY <1>5
  <2> QED  BY <2>1, <1>6
<1> QED  BY <1>7, <1>8 DEF Rest, rest, t

LEMMA HeardStart ==
  ASSUME NEW bad, NEW d \in Document
  PROVE  Heard(bad, d, Content[d], 0)
<1>1. Content[d] = Rest(d, 0)
  BY ContentType DEF Rest
<1>2. 0 \in 0 .. Len(Content[d])
  BY ContentType
<1>3. \A i \in 1 .. 0 : Content[d][i].type \notin bad
  OBVIOUS
<1> QED  BY <1>1, <1>2, <1>3, AmongNone DEF Heard

\* With all of the document to come nothing is open.
LEMMA HeardNothing ==
  ASSUME NEW bad, NEW d \in Document, NEW k \in Nat, Heard(bad, d, Content[d], k)
  PROVE  k = 0
<1> DEFINE N == Len(Content[d])
<1>1. PICK n \in 0 .. N :
        /\ Content[d] = Rest(d, n)
        /\ k + Among(d, n, "end") = Among(d, n, "start")
  BY DEF Heard
<1>2. N \in Nat /\ DOMAIN Content[d] = 1 .. N
  BY ContentType
<1>3. DOMAIN Rest(d, n) = 1 .. N - n
  BY DEF Rest
<1> HIDE DEF N
<1>4. 1 .. N = 1 .. N - n /\ n \in Nat /\ n <= N
  BY <1>1, <1>2, <1>3
<1>5. n = 0
  <2>1. CASE N = 0
    BY <1>4, <2>1
  <2>2. CASE N > 0
    <3>1. N \in 1 .. N
      BY <1>2, <2>2
    <3>2. N <= N - n
      BY <1>4, <3>1
    <3> QED  BY <1>2, <1>4, <3>2
  <2> QED  BY <1>2, <2>1, <2>2
<1> QED  BY <1>1, <1>5, AmongNone

LEMMA HeardAll ==
  ASSUME NEW d \in Document, NEW k \in Nat, Heard(Unheard, d, <<>>, k)
  PROVE  /\ Among(d, Len(Content[d]), "error") = 0
         /\ Among(d, Len(Content[d]), "extra") = 0
         /\ k = Among(d, Len(Content[d]), "start") - Among(d, Len(Content[d]), "end")
<1> DEFINE N == Len(Content[d])
<1>1. PICK n \in 0 .. N :
         /\ <<>> = Rest(d, n)
         /\ \A i \in 1 .. n : Content[d][i].type \notin Unheard
         /\ k + Among(d, n, "end") = Among(d, n, "start")
  BY DEF Heard
<1>2. N \in Nat
  BY ContentType
<1>3. n = N
  <2>1. DOMAIN Rest(d, n) = 1 .. N - n
    BY DEF Rest
  <2>2. 1 .. N - n = {}
    BY <1>1, <2>1
  <2>3. n \in Int /\ n <= N
    BY <1>2
  <2>4. 1 \notin 1 .. N - n
    BY <2>2
  <2> QED  BY <2>3, <2>4, <1>2
<1>4. \A type \in Unheard : {i \in 1 .. N : Content[d][i].type = type} = {}
  BY <1>1, <1>3
<1>5. \A type \in Unheard : Among(d, N, type) = 0
  BY <1>4, FS_EmptySet DEF Among
<1> QED  BY <1>1, <1>2, <1>3, <1>5, AmongNat DEF Unheard

\* One thing more: the elements open change with it, and what ends has begun.
LEMMA HeardNext ==
  ASSUME NEW bad, NEW d \in Document, NEW rest \in Seq(Events(d)), NEW k \in Nat,
         rest # <<>>, Heard(bad, d, rest, k), Head(rest).type \notin bad
  PROVE  /\ Head(rest).type = "start" => Heard(bad, d, Tail(rest), k + 1)
         /\ Head(rest).type = "end" => k > 0 /\ Heard(bad, d, Tail(rest), k - 1)
         /\ Head(rest).type \notin {"start", "end"} => Heard(bad, d, Tail(rest), k)
<1> DEFINE N == Len(Content[d])
           type == Head(rest).type
<1>1. PICK n \in 0 .. N :
         /\ rest = Rest(d, n)
         /\ \A i \in 1 .. n : Content[d][i].type \notin bad
         /\ k + Among(d, n, "end") = Among(d, n, "start")
  BY DEF Heard
<1>2. N \in Nat
  BY ContentType
<1>3. Len(rest) \in Nat /\ Len(rest) > 0 /\ DOMAIN rest = 1 .. Len(rest)
  OBVIOUS
<1>4. Len(rest) = N - n
  BY <1>1, <1>2, <1>3 DEF Rest
<1>5. n + 1 \in 0 .. N
  BY <1>2, <1>3, <1>4
<1>6. Head(rest) = Content[d][n + 1]
  BY <1>1, <1>3, <1>4 DEF Rest
<1>7. Tail(rest) = Rest(d, n + 1)
  BY <1>1, RestNext
<1>8. \A i \in 1 .. n + 1 : Content[d][i].type \notin bad
  <2>1. \A i \in 1 .. n + 1 : i \in 1 .. n \/ i = n + 1
    BY <1>5
  <2> QED  BY <2>1, <1>1, <1>6
<1>9. /\ Among(d, n, "end") \in Nat /\ Among(d, n, "start") \in Nat
      /\ Among(d, n + 1, "end") \in Nat /\ Among(d, n + 1, "start") \in Nat
  BY AmongNat, <1>5
<1>10. /\ Among(d, n + 1, "start") = Among(d, n, "start") + (IF type = "start" THEN 1 ELSE 0)
       /\ Among(d, n + 1, "end") = Among(d, n, "end") + (IF type = "end" THEN 1 ELSE 0)
  <2>1. n \in Nat
    BY <1>2
  <2>2. Among(d, n + 1, "start")
          = Among(d, n, "start") + (IF Content[d][n + 1].type = "start" THEN 1 ELSE 0)
    BY <2>1, AmongNext
  <2>3. Among(d, n + 1, "end")
          = Among(d, n, "end") + (IF Content[d][n + 1].type = "end" THEN 1 ELSE 0)
    BY <2>1, AmongNext
  <2> QED  BY <2>2, <2>3, <1>6
<1>11. Among(d, n + 1, "end") <= Among(d, n + 1, "start")
  BY NestingAssumption, <1>5
<1>12. ASSUME NEW j \in Nat, j + Among(d, n + 1, "end") = Among(d, n + 1, "start")
       PROVE  Heard(bad, d, Tail(rest), j)
  <2> DEFINE next == n + 1
  <2>1. /\ next \in 0 .. N
        /\ Tail(rest) = Rest(d, next)
        /\ \A i \in 1 .. next : Content[d][i].type \notin bad
        /\ j + Among(d, next, "end") = Among(d, next, "start")
    BY <1>5, <1>7, <1>8, <1>12
  <2> HIDE DEF next
  <2> QED  BY <2>1 DEF Heard
<1>13. CASE type = "start"
  <2>1. k + 1 + Among(d, n + 1, "end") = Among(d, n + 1, "start")
    BY <1>1, <1>9, <1>10, <1>13
  <2> QED  BY <2>1, <1>12, <1>13
<1>14. CASE type = "end"
  <2>1. /\ k > 0 /\ k - 1 \in Nat
        /\ k - 1 + Among(d, n + 1, "end") = Among(d, n + 1, "start")
    BY <1>1, <1>9, <1>10, <1>11, <1>14
  <2>2. Heard(bad, d, Tail(rest), k - 1)
    BY <2>1, <1>12
  <2> QED  BY <2>1, <2>2, <1>14
<1>15. CASE type \notin {"start", "end"}
  <2>1. k + Among(d, n + 1, "end") = Among(d, n + 1, "start")
    BY <1>1, <1>9, <1>10, <1>15
  <2> QED  BY <2>1, <1>12, <1>15
<1> QED  BY <1>13, <1>14, <1>15

(***************************************************************************)
(* Lemmas about what libxml has and what the stream has.                   *)
(***************************************************************************)
LEMMA CutInTwo ==
  ASSUME NEW S, NEW s \in Seq(S), NEW k \in 1 .. Len(s)
  PROVE  /\ SubSeq(s, 1, k) \in Seq(S) /\ SubSeq(s, k + 1, Len(s)) \in Seq(S)
         /\ SubSeq(s, 1, k) # <<>>
         /\ SubSeq(s, 1, k) \o SubSeq(s, k + 1, Len(s)) = s
<1>1. Len(s) \in Nat /\ \A i \in 1 .. Len(s) : s[i] \in S
  BY ElementOfSeq
<1>2. SubSeq(s, 1, k) \in Seq(S) /\ Len(SubSeq(s, 1, k)) = k
  BY <1>1, SubSeqProperties
<1>3. SubSeq(s, k + 1, Len(s)) \in Seq(S)
  BY <1>1, SubSeqProperties
<1>4. SubSeq(s, 1, k) # <<>>
  BY <1>2, EmptySeq
<1>5. SubSeq(s, 1, k) \o SubSeq(s, k + 1, Len(s)) = SubSeq(s, 1, Len(s))
  BY <1>1, ConcatAdjacentSubSeq
<1> QED  BY <1>2, <1>3, <1>4, <1>5, SubSeqFull

LEMMA TailOfConcat ==
  ASSUME NEW S, NEW s \in Seq(S), NEW t \in Seq(S), s # <<>>
  PROVE  /\ s \o t \in Seq(S) /\ s \o t # <<>>
         /\ Head(s \o t) = Head(s)
         /\ Tail(s \o t) = Tail(s) \o t
<1>1. Len(s) \in Nat \ {0} /\ Len(t) \in Nat
  BY EmptySeq, LenProperties
<1>2. /\ s \o t \in Seq(S) /\ Len(s \o t) = Len(s) + Len(t)
      /\ \A i \in 1 .. Len(s) + Len(t) :
           (s \o t)[i] = IF i <= Len(s) THEN s[i] ELSE t[i - Len(s)]
  BY ConcatProperties
<1>3. s \o t # <<>>
  BY <1>1, <1>2, EmptySeq
<1>4. Head(s \o t) = Head(s)
  <2>1. (s \o t)[1] = s[1]
    BY <1>1, <1>2
  <2> QED  BY <2>1
<1>5. /\ Tail(s) \in Seq(S) /\ Len(Tail(s)) = Len(s) - 1
      /\ \A i \in 1 .. Len(Tail(s)) : Tail(s)[i] = s[i + 1]
  BY HeadTailProperties
<1>6. /\ Tail(s \o t) \in Seq(S) /\ Len(Tail(s \o t)) = Len(s) + Len(t) - 1
      /\ \A i \in 1 .. Len(Tail(s \o t)) : Tail(s \o t)[i] = (s \o t)[i + 1]
  BY <1>2, <1>3, HeadTailProperties
<1>7. /\ Tail(s) \o t \in Seq(S) /\ Len(Tail(s) \o t) = Len(s) - 1 + Len(t)
      /\ \A i \in 1 .. Len(s) - 1 + Len(t) :
           (Tail(s) \o t)[i] =
             IF i <= Len(s) - 1 THEN Tail(s)[i] ELSE t[i - (Len(s) - 1)]
  BY <1>5, ConcatProperties
<1>8. ASSUME NEW i \in 1 .. Len(s) + Len(t) - 1
      PROVE  Tail(s \o t)[i] = (Tail(s) \o t)[i]
  <2>1. /\ Tail(s \o t)[i] = (s \o t)[i + 1]
        /\ (s \o t)[i + 1] = IF i + 1 <= Len(s) THEN s[i + 1] ELSE t[i + 1 - Len(s)]
        /\ i + 1 - Len(s) = i - (Len(s) - 1)
    BY <1>1, <1>2, <1>6
  <2>2. CASE i <= Len(s) - 1
    <3>1. (Tail(s) \o t)[i] = Tail(s)[i] /\ Tail(s)[i] = s[i + 1] /\ i + 1 <= Len(s)
      BY <1>1, <1>5, <1>7, <2>2
    <3> QED  BY <2>1, <3>1
  <2>3. CASE ~(i <= Len(s) - 1)
    <3>1. (Tail(s) \o t)[i] = t[i - (Len(s) - 1)] /\ ~(i + 1 <= Len(s))
      BY <1>1, <1>7, <2>3
    <3> QED  BY <2>1, <3>1
  <2> QED  BY <2>2, <2>3
<1>9. Tail(s \o t) = Tail(s) \o t
  <2>1. Len(Tail(s \o t)) = Len(Tail(s) \o t)
    BY <1>1, <1>6, <1>7
  <2>2. \A i \in 1 .. Len(Tail(s \o t)) : Tail(s \o t)[i] = (Tail(s) \o t)[i]
    BY <1>6, <1>8
  <2> QED  BY <1>6, <1>7, <2>1, <2>2, SeqEqual
<1> QED  BY <1>2, <1>3, <1>4, <1>9

\* The elements open are a sequence, whatever is recorded of them.
IsSequence(s) == \E S : s \in Seq(S)

LEMMA OpenSequence ==
  /\ IsSequence(<<>>)
  /\ \A s : IsSequence(s) => Len(s) \in Nat
  /\ \A s, e : IsSequence(s) =>
       IsSequence(Append(s, e)) /\ Len(Append(s, e)) = Len(s) + 1
  /\ \A s : IsSequence(s) =>
       IsSequence(Front(s)) /\ (Len(s) > 0 => Len(Front(s)) = Len(s) - 1)
<1>1. IsSequence(<<>>)
  <2>1. <<>> \in Seq({0})
    OBVIOUS
  <2> QED  BY <2>1 DEF IsSequence
<1>2. ASSUME NEW s, IsSequence(s)
      PROVE  Len(s) \in Nat
  <2>1. PICK S : s \in Seq(S)
    BY <1>2 DEF IsSequence
  <2> QED  BY <2>1
<1>3. ASSUME NEW s, NEW e, IsSequence(s)
      PROVE  IsSequence(Append(s, e)) /\ Len(Append(s, e)) = Len(s) + 1
  <2>1. PICK S : s \in Seq(S)
    BY <1>3 DEF IsSequence
  <2>2. s \in Seq(S \cup {e}) /\ e \in S \cup {e}
    BY <2>1, SeqMonotonic
  <2>3. Append(s, e) \in Seq(S \cup {e}) /\ Len(Append(s, e)) = Len(s) + 1
    BY <2>2
  <2> QED  BY <2>3 DEF IsSequence
<1>4. ASSUME NEW s, IsSequence(s)
      PROVE  IsSequence(Front(s)) /\ (Len(s) > 0 => Len(Front(s)) = Len(s) - 1)
  <2>1. PICK S : s \in Seq(S)
    BY <1>4 DEF IsSequence
  <2>2. Len(s) \in Nat /\ \A i \in 1 .. Len(s) - 1 : s[i] \in S
    BY <2>1, ElementOfSeq
  <2>3. /\ SubSeq(s, 1, Len(s) - 1) \in Seq(S)
        /\ Len(SubSeq(s, 1, Len(s) - 1)) =
             IF 1 <= Len(s) - 1 THEN Len(s) - 1 - 1 + 1 ELSE 0
    BY <2>2, SubSeqProperties
  <2>4. Front(s) = SubSeq(s, 1, Len(s) - 1)
    BY DEF Front
  <2>5. IsSequence(Front(s))
    BY <2>3, <2>4 DEF IsSequence
  <2>6. Len(s) > 0 => Len(Front(s)) = Len(s) - 1
    <3>1. CASE Len(s) = 1
      BY <2>3, <2>4, <3>1
    <3>2. CASE Len(s) > 1
      BY <2>2, <2>3, <2>4, <3>2
    <3>3. Len(s) \in Nat
      BY <2>2
    <3>4. \A n \in Nat : n > 0 => n = 1 \/ n > 1
      OBVIOUS
    <3> QED  BY <3>1, <3>2, <3>3, <3>4
  <2> QED  BY <2>5, <2>6
<1> QED  BY <1>1, <1>2, <1>3, <1>4

(***************************************************************************)
(* The inductive invariant.  While nothing is wrong in the pass of the     *)
(* application's handlers, it has heard of all but the rest that libxml    *)
(* and the stream have; when parse() says so at the end of the stream, of  *)
(* everything, and when it says so at the byte order mark, of nothing.     *)
(***************************************************************************)
WholeTypes ==
  /\ job.doc \in Document /\ job.url \in Document
  /\ left \in Seq(Events(job.doc)) /\ chunk \in Seq(Events(job.doc))
  /\ IsSequence(open)
  /\ job.pass # "final" => open = <<>>
  /\ phase = "reading" => chunk = <<>> /\ ~lib.error

Intact == job.pass = "final" /\ ~m.parserStopped /\ ~lib.error

WholeSoFar ==
  phase \in {"reading", "parsing"} /\ Intact =>
    ~lib.stopped /\ Heard(Unheard, job.doc, chunk \o left, Len(open))

WholeOnSuccess ==
  phase \in {"ended", "idle"} /\ result = "parsed" =>
    /\ phase = "idle" => job.pass = "final"
    /\ job.pass = "final" /\ ~m.parserStopped =>
         /\ job.doc \in Document
         /\ \/ /\ left = <<>> /\ chunk = <<>>
               /\ Len(open) \in Nat /\ Heard(Unheard, job.doc, <<>>, Len(open))
            \/ StoppedAtMark

WholeInv == (InParse => WholeTypes) /\ WholeSoFar /\ WholeOnSuccess

LEMMA WholeInit == Init => WholeInv
BY ResultAssumption
  DEF Init, WholeInv, WholeSoFar, WholeOnSuccess, InParse, NoJob, NoFlags, Fresh

\* A pass that starts has the whole text before it and nothing open.
LEMMA WholeStart ==
  ASSUME NEW doctype, NEW pass, NEW url \in Document, NEW d \in Document, NEW e,
         StartPass(doctype, pass, url, d, e), open' = <<>>
  PROVE  WholeInv'
<1>1. /\ job' = [doctype |-> doctype, pass |-> pass, url |-> url, doc |-> d, errorHandler |-> e]
      /\ left' = Content[d] /\ chunk' = <<>> /\ lib' = Fresh /\ phase' = "reading"
  BY DEF StartPass
<1>2. job'.doc = d /\ job'.url = url
  BY <1>1
<1>3. Content[d] \in Seq(Events(d)) /\ <<>> \in Seq(Events(d))
  BY ContentType
<1>4. <<>> \o Content[d] = Content[d] /\ Len(<<>>) = 0
  BY <1>3, ConcatEmptySeq
<1>5. WholeTypes'
  BY <1>1, <1>2, <1>3, OpenSequence DEF WholeTypes, Fresh
<1>6. WholeSoFar'
  <2>1. Heard(Unheard, d, chunk' \o left', Len(open'))
    BY <1>1, <1>4, HeardStart
  <2>2. Heard(Unheard, job.doc, chunk \o left, Len(open))'
    BY <2>1, <1>2
  <2> QED  BY <2>2, <1>1 DEF WholeSoFar, Fresh
<1>7. WholeOnSuccess'
  BY <1>1 DEF WholeOnSuccess
<1> QED  BY <1>5, <1>6, <1>7 DEF WholeInv

LEMMA WholeCall ==
  ASSUME ParseInv, WholeInv, Call
  PROVE  WholeInv'
<1>1. CASE \E d \in Document, e \in ErrorHandlers : ParseXml(d, e) \/ ParseHtml(d, e)
  <2>1. PICK d \in Document, e \in ErrorHandlers : ParseXml(d, e) \/ ParseHtml(d, e)
    BY <1>1
  <2>2. /\ open' = <<>>
        /\ StartPass("xml", "final", d, d, e) \/ StartPass("html", "check", d, d, e)
    BY <2>1 DEF ParseXml, ParseHtml, Called
  <2> QED  BY <2>2, WholeStart
<1>2. CASE \E d \in Document, e \in ErrorHandlers : RefuseXml(d, e)
  <2>1. phase' = "idle" /\ result' = "failed"
    BY <1>2 DEF RefuseXml, Called
  <2> QED  BY <2>1 DEF WholeInv, InParse, WholeSoFar, WholeOnSuccess
<1>3. CASE DeleteReader
  BY <1>3 DEF DeleteReader, WholeInv, InParse, WholeSoFar, WholeOnSuccess
<1>4. CASE NewReader
  <2>1. phase' = "idle" /\ result' = None
    BY <1>4 DEF NewReader
  <2> QED  BY <2>1, ResultAssumption DEF WholeInv, InParse, WholeSoFar, WholeOnSuccess
<1> QED  BY <1>1, <1>2, <1>3, <1>4 DEF Call

\* A read moves the front of what the stream has to libxml, but for the mark.
LEMMA ReadMoves ==
  ASSUME WholeInv, NEW k \in 1 .. Len(left), Read(k)
  PROVE  /\ phase = "reading" /\ phase' = "parsing" /\ chunk = <<>> /\ left # <<>>
         /\ UNCHANGED <<job, lib, m, open, ns, nsStack, base, result>>
         /\ chunk' \in Seq(Events(job.doc)) /\ left' \in Seq(Events(job.doc))
         /\ \/ chunk' \o left' = left
            \/ chunk' \o left' = Tail(left) /\ Head(left).type = "bom"
<1> DEFINE E == Events(job.doc)
           read == SubSeq(left, 1, k)
           behind == SubSeq(left, k + 1, Len(left))
<1>1. /\ phase = "reading" /\ phase' = "parsing" /\ left' = behind
      /\ UNCHANGED <<job, lib, m, open, ns, nsStack, base, result>>
      /\ chunk' = read \/ (chunk' = Tail(read) /\ Head(read).type = "bom")
  BY DEF Read, heard, namespaces
<1>2. chunk = <<>> /\ left \in Seq(E)
  BY <1>1 DEF WholeInv, InParse, WholeTypes
<1>3. read \in Seq(E) /\ behind \in Seq(E) /\ read # <<>> /\ read \o behind = left
  BY <1>2, CutInTwo
<1>4. /\ left # <<>> /\ Head(left) = Head(read) /\ Tail(left) = Tail(read) \o behind
      /\ Tail(read) \in Seq(E)
  <2>1. /\ read \o behind # <<>> /\ Head(read \o behind) = Head(read)
        /\ Tail(read \o behind) = Tail(read) \o behind
    BY <1>3, TailOfConcat
  <2> QED  BY <2>1, <1>3, HeadTailProperties
<1> QED  BY <1>1, <1>2, <1>3, <1>4

LEMMA WholeRead ==
  ASSUME ParseInv, WholeInv, NEW k \in 1 .. Len(left), Read(k)
  PROVE  WholeInv'
<1>1. /\ phase = "reading" /\ phase' = "parsing" /\ chunk = <<>> /\ left # <<>>
      /\ UNCHANGED <<job, lib, m, open>>
      /\ chunk' \in Seq(Events(job.doc)) /\ left' \in Seq(Events(job.doc))
      /\ \/ chunk' \o left' = left
         \/ chunk' \o left' = Tail(left) /\ Head(left).type = "bom"
  BY ReadMoves
<1>2. WholeTypes
  BY <1>1 DEF WholeInv, InParse
<1>3. /\ job.doc \in Document /\ left \in Seq(Events(job.doc)) /\ IsSequence(open)
  BY <1>2 DEF WholeTypes
<1>4. WholeTypes'
  BY <1>1, <1>2 DEF WholeTypes, Events
<1>5. WholeSoFar'
  <2>1. SUFFICES ASSUME Intact
                 PROVE  ~lib.stopped /\ Heard(Unheard, job.doc, chunk' \o left', Len(open))
    BY <1>1 DEF WholeSoFar, Intact
  <2>2. ~lib.stopped /\ Heard(Unheard, job.doc, left, Len(open))
    BY <1>1, <1>3, <2>1, ConcatEmptySeq DEF WholeInv, WholeSoFar
  <2>3. Head(left).type = "bom" => Heard(Unheard, job.doc, Tail(left), Len(open))
    BY <2>2, <1>1, <1>3, OpenSequence, HeardNext DEF Unheard
  <2> QED  BY <2>2, <2>3, <1>1
<1>6. WholeOnSuccess'
  BY <1>1 DEF WholeOnSuccess
<1> QED  BY <1>4, <1>5, <1>6 DEF WholeInv

\* The mark alone has been read: the application has heard of nothing.
LEMMA WholeMark ==
  ASSUME ParseInv, WholeInv, ReadOnlyMark
  PROVE  WholeInv'
<1>1. /\ phase = "reading" /\ phase' = "ended"
      /\ left # <<>> /\ left = Content[job.doc] /\ Head(left).type = "bom"
      /\ left' = Tail(left)
      /\ UNCHANGED <<job, chunk, lib, m, open>>
  BY DEF ReadOnlyMark, OnlyMark, Returns, heard
<1>2. WholeTypes /\ chunk = <<>> /\ ~lib.error
  BY <1>1 DEF WholeInv, InParse, WholeTypes
<1>3. left' \in Seq(Events(job.doc))
  BY <1>1, <1>2, HeadTailProperties DEF WholeTypes
<1>4. WholeTypes'
  BY <1>1, <1>2, <1>3 DEF WholeTypes, Events
<1>5. WholeOnSuccess'
  <2>1. SUFFICES ASSUME job.pass = "final", ~m.parserStopped
                 PROVE  job.doc \in Document /\ StoppedAtMark'
    BY <1>1 DEF WholeOnSuccess
  <2>2. Heard(Unheard, job.doc, Content[job.doc], Len(open))
    <3>1. <<>> \o left = left
      BY <1>2, ConcatEmptySeq DEF WholeTypes
    <3> QED  BY <1>1, <1>2, <2>1, <3>1 DEF WholeInv, WholeSoFar, Intact
  <2>3. Len(open) = 0
    BY <1>2, <2>2, HeardNothing, OpenSequence DEF WholeTypes
  <2>4. open = <<>>
    BY <1>2, <2>3, EmptySeq DEF WholeTypes, IsSequence
  <2> QED  BY <1>1, <1>2, <2>4 DEF StoppedAtMark, WholeTypes
<1> QED  BY <1>1, <1>4, <1>5 DEF WholeInv, WholeSoFar

LEMMA WholeLoop ==
  ASSUME ParseInv, WholeInv, ParseStep
  PROVE  WholeInv'
<1>1. CASE \E k \in 1 .. Len(left) : Read(k)
  BY <1>1, WholeRead
<1>2. CASE ReadEnd
  <2>1. /\ phase = "reading" /\ left = <<>> /\ phase' = "ended"
        /\ UNCHANGED <<job, left, chunk, lib, m, open>>
    BY <1>2 DEF ReadEnd, Returns, AtEnd, feed, heard
  <2>2. WholeTypes /\ chunk = <<>> /\ ~lib.error
    BY <2>1 DEF WholeInv, InParse, WholeTypes
  <2>3. WholeTypes'
    BY <2>1, <2>2 DEF WholeTypes
  <2>4. Intact => Heard(Unheard, job.doc, <<>>, Len(open))
    <3>1. <<>> \o <<>> = <<>>
      BY <2>2, ConcatEmptySeq DEF WholeTypes
    <3> QED  BY <2>1, <2>2, <3>1 DEF WholeInv, WholeSoFar
  <2>5. WholeOnSuccess'
    <3>1. SUFFICES ASSUME job.pass = "final", ~m.parserStopped
                   PROVE  /\ job.doc \in Document
                          /\ left = <<>> /\ chunk = <<>>
                          /\ Len(open) \in Nat /\ Heard(Unheard, job.doc, <<>>, Len(open))
      BY <2>1 DEF WholeOnSuccess
    <3> QED  BY <3>1, <2>1, <2>2, <2>4, OpenSequence DEF Intact, WholeTypes
  <2> QED  BY <2>1, <2>3, <2>5 DEF WholeInv, WholeSoFar
<1>3. CASE \E stop \in BOOLEAN : ReadFails(stop)
  <2>1. /\ phase = "reading" /\ phase' = "ended" /\ result' = "failed"
        /\ UNCHANGED <<job, left, chunk, open>>
    BY <1>3 DEF ReadFails, Returns, feed, heard
  <2>2. WholeTypes'
    BY <2>1 DEF WholeInv, InParse, WholeTypes
  <2> QED  BY <2>1, <2>2 DEF WholeInv, WholeSoFar, WholeOnSuccess
<1>4. CASE ChunkDone
  <2>1. /\ phase = "parsing" /\ chunk = <<>>
        /\ UNCHANGED <<job, left, chunk, open>>
        /\ \/ FALSE \in ChunkReturns /\ phase' = "reading" /\ UNCHANGED <<lib, m>>
           \/ phase' = "ended" /\ result' = "failed"
    BY <1>4 DEF ChunkDone, Returns, feed, heard
  <2>2. WholeTypes
    BY <2>1 DEF WholeInv, InParse
  <2>3. CASE FALSE \in ChunkReturns /\ phase' = "reading" /\ UNCHANGED <<lib, m>>
    <3>1. ~lib.error
      BY <2>3 DEF ChunkReturns
    <3>2. WholeTypes'
      BY <2>1, <2>2, <2>3, <3>1 DEF WholeTypes
    <3>3. WholeSoFar'
      BY <2>1, <2>3 DEF WholeInv, WholeSoFar, Intact
    <3> QED  BY <2>3, <3>2, <3>3 DEF WholeInv, WholeOnSuccess
  <2>4. CASE phase' = "ended" /\ result' = "failed"
    <3>1. WholeTypes'
      BY <2>1, <2>2, <2>4 DEF WholeTypes
    <3> QED  BY <2>4, <3>1 DEF WholeInv, WholeSoFar, WholeOnSuccess
  <2> QED  BY <2>1, <2>3, <2>4
<1>5. CASE ReadOnlyMark
  BY <1>5, WholeMark
<1> QED  BY <1>1, <1>2, <1>3, <1>4, <1>5 DEF ParseStep

(***************************************************************************)
(* libxml takes one thing from the chunk: what the handlers leave open is  *)
(* what the document has open there.                                       *)
(***************************************************************************)
LEMMA WholeTaken ==
  ASSUME ParseInv, WholeInv, NEW type, Calls(type), IsSequence(open'),
         Intact' =>
           /\ Intact /\ type \notin Unheard /\ UNCHANGED lib
           /\ type = "start" => Len(open') = Len(open) + 1
           /\ type = "end" => (Len(open) > 0 => Len(open') = Len(open) - 1)
           /\ type \notin {"start", "end"} => Len(open') = Len(open)
  PROVE  WholeInv'
<1> DEFINE E == Events(job.doc)
<1>1. /\ phase = "parsing" /\ job.pass = "final" /\ chunk # <<>> /\ chunk' = Tail(chunk)
      /\ Head(chunk).type = type
      /\ UNCHANGED <<phase, job, left, result>>
  BY DEF Calls, Finds, feed
<1>2. /\ WholeTypes
      /\ job.doc \in Document /\ left \in Seq(E) /\ chunk \in Seq(E) /\ Len(open) \in Nat
  BY <1>1, OpenSequence DEF WholeInv, InParse, WholeTypes
<1>3. Tail(chunk) \in Seq(E)
  BY <1>1, <1>2, HeadTailProperties
<1>4. WholeTypes'
  BY <1>1, <1>2, <1>3 DEF WholeTypes, Events
<1>5. WholeSoFar'
  <2>1. SUFFICES ASSUME Intact'
                 PROVE  ~lib'.stopped /\ Heard(Unheard, job.doc, chunk' \o left, Len(open'))
    BY <1>1 DEF WholeSoFar
  <2> DEFINE rest == chunk \o left
  <2>2. ~lib.stopped /\ Heard(Unheard, job.doc, rest, Len(open)) /\ UNCHANGED lib
    BY <1>1, <2>1 DEF WholeInv, WholeSoFar
  <2>3. /\ rest \in Seq(E) /\ rest # <<>> /\ Head(rest).type = type
        /\ Tail(rest) = chunk' \o left
    BY <1>1, <1>2, TailOfConcat
  <2>4. type \notin Unheard
    BY <2>1
  <2> HIDE DEF rest
  <2>5. /\ type = "start" => Heard(Unheard, job.doc, Tail(rest), Len(open) + 1)
        /\ type = "end" => Len(open) > 0 /\ Heard(Unheard, job.doc, Tail(rest), Len(open) - 1)
        /\ type \notin {"start", "end"} => Heard(Unheard, job.doc, Tail(rest), Len(open))
    BY <1>2, <2>2, <2>3, <2>4, HeardNext
  <2>6. Heard(Unheard, job.doc, Tail(rest), Len(open'))
    <3>1. CASE type = "start"
      BY <2>1, <2>5, <3>1
    <3>2. CASE type = "end"
      BY <2>1, <2>5, <3>2
    <3>3. CASE type \notin {"start", "end"}
      BY <2>1, <2>5, <3>3
    <3> QED  BY <3>1, <3>2, <3>3
  <2> QED  BY <2>2, <2>3, <2>6
<1>6. WholeOnSuccess'
  BY <1>1 DEF WholeOnSuccess
<1> QED  BY <1>4, <1>5, <1>6 DEF WholeInv

\* What is thrown away with the chunk does not matter, once something is wrong.
LEMMA WholeDropped ==
  ASSUME WholeInv, phase = "parsing", UNCHANGED <<phase, job, left, open>>,
         chunk' = <<>>, ~Intact'
  PROVE  WholeInv'
<1>1. WholeTypes
  BY DEF WholeInv, InParse
<1>2. <<>> \in Seq(Events(job.doc))
  BY EmptySeq
<1>3. WholeTypes'
  BY <1>1, <1>2 DEF WholeTypes
<1> QED  BY <1>3 DEF WholeInv, WholeSoFar, WholeOnSuccess

LEMMA WholeLibxml ==
  ASSUME ParseInv, WholeInv, LibxmlStep
  PROVE  WholeInv'
<1>0. phase = "parsing" => IsSequence(open)
  BY DEF WholeInv, InParse, WholeTypes
<1>1. CASE CheckChunk
  <2>1. /\ phase = "parsing" /\ chunk' = <<>> /\ UNCHANGED <<phase, job, left, open>>
        /\ job'.pass # "final"
    BY <1>1 DEF CheckChunk, feed, heard
  <2> QED  BY <2>1, WholeDropped DEF Intact
<1>2. CASE Abandon
  <2>1. /\ phase = "parsing" /\ chunk' = <<>>
        /\ UNCHANGED <<phase, job, left, open, lib, m>> /\ Halted
    BY <1>2 DEF Abandon, feed, heard
  <2>2. ~Intact'
    BY <2>1 DEF Halted, Intact, WholeInv, WholeSoFar
  <2> QED  BY <2>1, <2>2, WholeDropped
<1>3. CASE \E type \in Guarded : Ignored(type)
  <2>1. PICK type \in Guarded : Ignored(type)
    BY <1>3
  <2>2. /\ Calls(type) /\ UNCHANGED open /\ ~Intact'
        /\ phase = "parsing"
    BY <2>1 DEF Ignored, heard, ParserStopped, Intact, Calls, Finds
  <2> QED  BY <1>0, <2>2, WholeTaken
<1>4. ASSUME NEW stop \in BOOLEAN, StartElement(stop)
      PROVE  WholeInv'
  <2>1. /\ Calls("start") /\ phase = "parsing" /\ UNCHANGED job
        /\ MayStop(stop)
        /\ \E e : open' = Append(open, e)
    BY <1>4 DEF StartElement, Calls, Finds, feed
  <2>2. IsSequence(open') /\ Len(open') = Len(open) + 1
    BY <1>0, <2>1, OpenSequence
  <2>3. Intact' => Intact /\ UNCHANGED lib
    BY <2>1 DEF MayStop, StopParsing, Intact, ParseInv, ControlOK, Flags
  <2> QED  BY <2>1, <2>2, <2>3, WholeTaken DEF Unheard
<1>5. ASSUME NEW stop \in BOOLEAN, EndElement(stop)
      PROVE  WholeInv'
  <2>1. /\ Calls("end") /\ phase = "parsing" /\ UNCHANGED job
        /\ MayStop(stop) /\ open' = Front(open)
    BY <1>5 DEF EndElement, Calls, Finds, feed
  <2>2. IsSequence(open') /\ (Len(open) > 0 => Len(open') = Len(open) - 1)
    BY <1>0, <2>1, OpenSequence
  <2>3. Intact' => Intact /\ UNCHANGED lib
    BY <2>1 DEF MayStop, StopParsing, Intact, ParseInv, ControlOK, Flags
  <2> QED  BY <2>1, <2>2, <2>3, WholeTaken DEF Unheard
<1>6. ASSUME NEW stop \in BOOLEAN, Characters(stop) \/ Warning(stop)
      PROVE  WholeInv'
  <2>1. /\ Calls("text") \/ Calls("warning")
        /\ phase = "parsing" /\ UNCHANGED <<job, open>>
        /\ MayStop(stop) \/ UNCHANGED <<lib, m>>
    BY <1>6 DEF Characters, Warning, Calls, Finds, feed, heard
  <2>2. IsSequence(open')
    BY <1>0, <2>1
  <2>3. Intact' => Intact /\ UNCHANGED lib
    BY <2>1 DEF MayStop, StopParsing, Intact, ParseInv, ControlOK, Flags
  <2> QED  BY <2>1, <2>2, <2>3, WholeTaken DEF Unheard
<1>7. ASSUME NEW stop \in BOOLEAN, Error(stop)
      PROVE  WholeInv'
  <2>1. /\ Calls("error") /\ phase = "parsing" /\ UNCHANGED open
        /\ lib'.error
    BY <1>7 DEF Error, Reported, Calls, Finds, heard
  <2> QED  BY <1>0, <2>1, WholeTaken DEF Intact
<1>8. ASSUME NEW stop \in BOOLEAN, Extra(stop)
      PROVE  WholeInv'
  <2>1. /\ phase = "parsing" /\ chunk' = <<>> /\ UNCHANGED <<phase, job, left, open>>
        /\ lib'.error
    BY <1>8 DEF Extra, Reported, Finds, feed
  <2> QED  BY <2>1, WholeDropped DEF Intact
<1> QED
  BY <1>1, <1>2, <1>3, <1>4, <1>5, <1>6, <1>7, <1>8 DEF LibxmlStep

LEMMA WholeFinish ==
  ASSUME ParseInv, WholeInv, FinishStep
  PROVE  WholeInv'
<1>1. CASE Finish
  <2>1. /\ phase = "ended" /\ phase' = "idle" /\ job.pass = "final"
        /\ UNCHANGED <<job, left, chunk, lib, m, result, open>>
    BY <1>1 DEF Finish, feed
  <2> QED
    BY <2>1 DEF WholeInv, InParse, WholeSoFar, WholeOnSuccess, StoppedAtMark
<1>2. CASE CheckTidied
  <2>1. /\ phase = "ended" /\ job.pass # "final" /\ open' = open
        /\ StartPass("html", "tidied", job.url, Tidied[job.url], job.errorHandler)
    BY <1>2 DEF CheckTidied, heard
  <2>2. job.url \in Document /\ Tidied[job.url] \in Document /\ open' = <<>>
    BY <2>1, DocumentAssumption DEF WholeInv, InParse, WholeTypes
  <2> QED  BY <2>1, <2>2, WholeStart
<1>3. CASE GiveUp
  <2>1. phase' = "idle" /\ result' = "failed"
    BY <1>3 DEF GiveUp
  <2> QED  BY <2>1 DEF WholeInv, InParse, WholeSoFar, WholeOnSuccess
<1>4. CASE HandleHtml
  <2>1. /\ phase = "ended" /\ job.pass # "final" /\ open' = open
        /\ \E d \in {job.url, Tidied[job.url]} :
             StartPass("html", "final", job.url, d, job.errorHandler)
    BY <1>4 DEF HandleHtml, heard
  <2>2. job.url \in Document /\ Tidied[job.url] \in Document /\ open' = <<>>
    BY <2>1, DocumentAssumption DEF WholeInv, InParse, WholeTypes
  <2> QED  BY <2>1, <2>2, WholeStart
<1>5. CASE RefuseHtml
  <2>1. phase' = "idle" /\ result' = "failed"
    BY <1>5 DEF RefuseHtml
  <2> QED  BY <2>1 DEF WholeInv, InParse, WholeSoFar, WholeOnSuccess
<1> QED  BY <1>1, <1>2, <1>3, <1>4, <1>5 DEF FinishStep

LEMMA WholeNext == ParseInv /\ WholeInv /\ [Next]_vars => WholeInv'
<1> SUFFICES ASSUME ParseInv, WholeInv, [Next]_vars PROVE WholeInv'
  OBVIOUS
<1>1. CASE UNCHANGED vars
  BY <1>1
  DEF WholeInv, InParse, WholeTypes, WholeSoFar, WholeOnSuccess, StoppedAtMark, Intact, vars
<1> QED
  BY <1>1, WholeCall, WholeLoop, WholeLibxml, WholeFinish DEF Next

\* When parseXml or parseHtml returns true and the application has not stopped
\* the parser, either the whole document has been read, no syntax error and
\* nothing behind its end were found in it, and the application has been told of
\* every element; or the first read brought the byte order mark and nothing else,
\* nothing more was read, and the application was told of no element.  That holds
\* for documents of any length, cut into reads of any size.
THEOREM ParsedWholeCorrect == Spec => []ParsedWholeOrMark
<1>1. ParseInv /\ WholeInv => ParsedWholeOrMark
  <2>1. SUFFICES ASSUME WholeInv, phase = "idle", result = "parsed", ~m.parserStopped,
                        ~StoppedAtMark
                 PROVE  WholeHeard
    BY DEF ParsedWholeOrMark
  <2>2. /\ job.doc \in Document /\ left = <<>> /\ chunk = <<>>
        /\ Len(open) \in Nat /\ Heard(Unheard, job.doc, <<>>, Len(open))
    BY <2>1 DEF WholeInv, WholeOnSuccess
  <2> QED  BY <2>2, HeardAll DEF WholeHeard, Count
<1>2. Init => ParseInv /\ WholeInv
  BY ParseInit, WholeInit
<1>3. ParseInv /\ WholeInv /\ [Next]_vars => (ParseInv /\ WholeInv)'
  BY ParseNext, WholeNext
<1> QED  BY <1>1, <1>2, <1>3, PTL DEF Spec

-----------------------------------------------------------------------------
(***************************************************************************)
(* A heap without cycles, in which every parent is in use; and another     *)
(* that has the same namespaces, and perhaps more.                         *)
(***************************************************************************)
Heap == [Node -> Namespace \cup {None}]

Ranked(h, rank) ==
  \A b \in InUse(h) : h[b].m_parent # None => rank[h[b].m_parent] < rank[b]

Forest(h) ==
  /\ h \in Heap
  /\ \A b \in InUse(h) : h[b].m_parent # None => h[b].m_parent \in InUse(h)
  /\ \E limit \in Nat : \E rank \in [Node -> 0 .. limit] : Ranked(h, rank)

Extends(old, new) ==
  /\ InUse(old) \subseteq InUse(new)
  /\ \A b \in InUse(old) :
       /\ new[b].m_prefix = old[b].m_prefix
       /\ new[b].m_uri = old[b].m_uri
       /\ new[b].m_parent = old[b].m_parent

LEMMA InUseType ==
  ASSUME NEW h \in Heap
  PROVE  /\ InUse(h) \subseteq Node
         /\ \A b \in Node : b \in InUse(h) <=> h[b] # None
         /\ \A b \in InUse(h) : h[b] \in Namespace
BY DEF InUse, Unused, Heap

LEMMA ForestRanks ==
  ASSUME NEW h, Forest(h), NEW up,
         \A b \in up : b \in InUse(h) /\ h[b].m_parent # None
  PROVE  \E limit \in Nat : \E rank \in [Node -> Nat] :
           /\ Ranks(rank, InUse(h), up, [b \in InUse(h) |-> h[b].m_parent])
           /\ \A b \in InUse(h) : rank[b] < limit
<1>1. PICK limit \in Nat : \E rank \in [Node -> 0 .. limit] : Ranked(h, rank)
  BY DEF Forest
<1>2. PICK rank \in [Node -> 0 .. limit] : Ranked(h, rank)
  BY <1>1
<1>3. \A b \in InUse(h) : b \in Node /\ rank[b] \in Nat /\ rank[b] < limit + 1
  BY DEF InUse
<1>4. Ranks(rank, InUse(h), up, [b \in InUse(h) |-> h[b].m_parent])
  BY <1>2, <1>3 DEF Ranks, Ranked, Forest
<1>5. rank \in [Node -> Nat] /\ limit + 1 \in Nat
  OBVIOUS
<1> QED  BY <1>3, <1>4, <1>5

\* What uriForPrefix returns is what its recursion says.
LEMMA UriForPrefixDef ==
  ASSUME NEW h, Forest(h), NEW q \in QName, NEW a \in InUse(h)
  PROVE  /\ UriForPrefix(h, a, q) \in Uri \cup {None}
         /\ UriForPrefix(h, a, q) =
              IF h[a].m_prefix \in Heads[q] THEN h[a].m_uri
              ELSE IF h[a].m_parent = None THEN None
              ELSE UriForPrefix(h, h[a].m_parent, q)
<1> DEFINE S == InUse(h)
           V == Uri \cup {None}
           up == {b \in S : h[b].m_prefix \notin Heads[q] /\ h[b].m_parent # None}
           par == [b \in S |-> h[b].m_parent]
           first == [b \in S |-> IF h[b].m_prefix \in Heads[q] THEN h[b].m_uri ELSE None]
           step == [x \in S \X V |-> x[2]]
           Fix(g) == g = [b \in S |-> IF h[b].m_prefix \in Heads[q] THEN h[b].m_uri
                                      ELSE IF h[b].m_parent = None THEN None
                                      ELSE g[h[b].m_parent]]
<1>1. PICK limit \in Nat : \E rank \in [Node -> Nat] :
           Ranks(rank, S, up, par) /\ \A b \in S : rank[b] < limit
  BY ForestRanks
<1>2. PICK rank \in [Node -> Nat] :
           Ranks(rank, S, up, par) /\ \A b \in S : rank[b] < limit
  BY <1>1
<1>3. first \in [S -> V]
  <2>1. \A b \in S : h[b] \in Namespace
    BY InUseType DEF Forest
  <2> QED  BY <2>1 DEF Namespace
<1>4. step \in [S \X V -> V]
  OBVIOUS
<1>5. PICK g : Computes(g, S, V, up, par, first, step)
  <2>1. /\ Ranks(rank, S, up, par)
        /\ \A b \in S : rank[b] < limit
        /\ first \in [S -> V] /\ step \in [S \X V -> V]
    BY <1>2, <1>3, <1>4
  <2> HIDE DEF S, V, up, par, first, step
  <2> QED  BY <2>1, RankedRecursion
<1>6. \A b \in up : b \in S /\ par[b] = h[b].m_parent /\ g[par[b]] \in V
  BY <1>2, <1>5 DEF Ranks, Computes
<1>7. \A b \in up : step[<<b, g[par[b]]>>] = g[h[b].m_parent]
  BY <1>6
<1>8. \A b \in S : g[b] = IF h[b].m_prefix \in Heads[q] THEN h[b].m_uri
                          ELSE IF h[b].m_parent = None THEN None
                          ELSE g[h[b].m_parent]
  BY <1>5, <1>7 DEF Computes
<1>9. Fix(g)
  BY <1>5, <1>8 DEF Computes
<1>10. \A x : UriForPrefix(h, x, q) = (CHOOSE f : Fix(f))[x]
  BY DEF UriForPrefix
<1>11. Fix(CHOOSE f : Fix(f))
  <2> HIDE DEF Fix
  <2> QED  BY <1>9
<1> DEFINE u == CHOOSE f : Fix(f)
<1>12. u = [b \in S |-> IF h[b].m_prefix \in Heads[q] THEN h[b].m_uri
                          ELSE IF h[b].m_parent = None THEN None
                          ELSE u[h[b].m_parent]]
  BY <1>11
<1> HIDE DEF u
<1>13. S \subseteq {b \in S : u[b] \in V}
  <2> DEFINE T == {b \in S : u[b] \in V}
  <2>1. ASSUME NEW b \in S, b \in up => par[b] \in T
        PROVE  b \in T
    <3>1. h[b].m_uri \in V /\ None \in V
      <4>1. h[b] \in Namespace
        BY InUseType DEF Forest
      <4> QED  BY <4>1 DEF Namespace
    <3> QED  BY <1>12, <2>1, <3>1
  <2>2. Ranks(rank, S, up, par)
    BY <1>2
  <2> HIDE DEF up, par, S
  <2>3. \A b \in S : (b \in up => par[b] \in T) => b \in T
    BY <2>1
  <2> HIDE DEF T
  <2>4. S \subseteq T
    BY <2>2, <2>3, RankedClaim
  <2> QED  BY <2>4 DEF T
<1>14. UriForPrefix(h, a, q) = u[a] /\ UriForPrefix(h, h[a].m_parent, q) = u[h[a].m_parent]
  BY <1>10 DEF u
<1> QED  BY <1>12, <1>13, <1>14

\* The namespace of a name does not change while those in scope stay.
LEMMA UriForPrefixKept ==
  ASSUME NEW old, NEW new, Forest(old), Forest(new), Extends(old, new),
         NEW q \in QName, NEW a \in InUse(old)
  PROVE  UriForPrefix(new, a, q) = UriForPrefix(old, a, q)
<1> DEFINE S == InUse(old)
           up == {b \in S : old[b].m_parent # None}
           par == [b \in S |-> old[b].m_parent]
           T == {b \in S : UriForPrefix(new, b, q) = UriForPrefix(old, b, q)}
<1>1. PICK limit \in Nat : \E rank \in [Node -> Nat] : Ranks(rank, S, up, par)
  BY ForestRanks
<1>2. PICK rank \in [Node -> Nat] : Ranks(rank, S, up, par)
  BY <1>1
<1>3. ASSUME NEW b \in S, b \in up => par[b] \in T
      PROVE  b \in T
  <2>1. /\ b \in InUse(new)
        /\ new[b].m_prefix = old[b].m_prefix
        /\ new[b].m_uri = old[b].m_uri
        /\ new[b].m_parent = old[b].m_parent
    BY DEF Extends
  <2>2. UriForPrefix(old, b, q) =
              IF old[b].m_prefix \in Heads[q] THEN old[b].m_uri
              ELSE IF old[b].m_parent = None THEN None
              ELSE UriForPrefix(old, old[b].m_parent, q)
    BY UriForPrefixDef
  <2>3. UriForPrefix(new, b, q) =
              IF new[b].m_prefix \in Heads[q] THEN new[b].m_uri
              ELSE IF new[b].m_parent = None THEN None
              ELSE UriForPrefix(new, new[b].m_parent, q)
    BY <2>1, UriForPrefixDef
  <2>4. CASE old[b].m_parent = None
    BY <2>1, <2>2, <2>3, <2>4
  <2>5. CASE old[b].m_parent # None
    <3>1. UriForPrefix(new, old[b].m_parent, q) = UriForPrefix(old, old[b].m_parent, q)
      BY <1>3, <2>5
    <3> QED  BY <2>1, <2>2, <2>3, <3>1
  <2> QED  BY <2>4, <2>5
<1>4. S \subseteq T
  <2> HIDE DEF S, up, par, T
  <2>1. \A b \in S : (b \in up => par[b] \in T) => b \in T
    BY <1>3
  <2> QED  BY <1>2, <2>1, RankedClaim
<1> QED  BY <1>4

(***************************************************************************)
(* What deref does from a upwards: the namespaces it frees, and the one it *)
(* leaves with a reference less.                                           *)
(***************************************************************************)
Fates == [freed : SUBSET Node, kept : Node \cup {None}]

LEMMA FateDef ==
  ASSUME NEW h, Forest(h), NEW a \in InUse(h)
  PROVE  /\ Fate(h)[a] \in Fates
         /\ Fate(h)[a] =
              IF h[a].m_ref > 1 THEN [freed |-> {}, kept |-> a]
              ELSE IF h[a].m_parent = None THEN [freed |-> {a}, kept |-> None]
              ELSE [freed |-> {a} \cup Fate(h)[h[a].m_parent].freed,
                    kept  |-> Fate(h)[h[a].m_parent].kept]
<1> DEFINE S == InUse(h)
           up == {b \in S : ~(h[b].m_ref > 1) /\ h[b].m_parent # None}
           par == [b \in S |-> h[b].m_parent]
           first == [b \in S |-> IF h[b].m_ref > 1 THEN [freed |-> {}, kept |-> b]
                                 ELSE [freed |-> {b}, kept |-> None]]
           step == [x \in S \X Fates |-> [freed |-> {x[1]} \cup x[2].freed,
                                          kept |-> x[2].kept]]
           Fix(g) == g = [b \in S |->
                            IF h[b].m_ref > 1 THEN [freed |-> {}, kept |-> b]
                            ELSE IF h[b].m_parent = None THEN [freed |-> {b}, kept |-> None]
                            ELSE [freed |-> {b} \cup g[h[b].m_parent].freed,
                                  kept  |-> g[h[b].m_parent].kept]]
<1>0. S \subseteq Node
  BY DEF InUse
<1>1. PICK limit \in Nat : \E rank \in [Node -> Nat] :
           Ranks(rank, S, up, par) /\ \A b \in S : rank[b] < limit
  BY ForestRanks
<1>2. PICK rank \in [Node -> Nat] :
           Ranks(rank, S, up, par) /\ \A b \in S : rank[b] < limit
  BY <1>1
<1>3. first \in [S -> Fates]
  BY <1>0 DEF Fates
<1>4. step \in [S \X Fates -> Fates]
  BY <1>0 DEF Fates
<1>5. PICK g : Computes(g, S, Fates, up, par, first, step)
  <2>1. /\ Ranks(rank, S, up, par)
        /\ \A b \in S : rank[b] < limit
        /\ first \in [S -> Fates] /\ step \in [S \X Fates -> Fates]
    BY <1>2, <1>3, <1>4
  <2> HIDE DEF S, Fates, up, par, first, step
  <2> QED  BY <2>1, RankedRecursion
<1>6. \A b \in up : b \in S /\ par[b] = h[b].m_parent /\ g[par[b]] \in Fates
  BY <1>2, <1>5 DEF Ranks, Computes
<1>7. \A b \in up : step[<<b, g[par[b]]>>] = [freed |-> {b} \cup g[h[b].m_parent].freed,
                                              kept |-> g[h[b].m_parent].kept]
  BY <1>6
<1>8. \A b \in S : g[b] = IF h[b].m_ref > 1 THEN [freed |-> {}, kept |-> b]
                          ELSE IF h[b].m_parent = None THEN [freed |-> {b}, kept |-> None]
                          ELSE [freed |-> {b} \cup g[h[b].m_parent].freed,
                                kept  |-> g[h[b].m_parent].kept]
  BY <1>5, <1>7 DEF Computes
<1>9. Fix(g)
  BY <1>5, <1>8 DEF Computes
<1>10. Fate(h) = CHOOSE f : Fix(f)
  BY DEF Fate
<1>11. Fix(CHOOSE f : Fix(f))
  <2> HIDE DEF Fix
  <2> QED  BY <1>9
<1> DEFINE u == CHOOSE f : Fix(f)
<1>12. u = [b \in S |->
                            IF h[b].m_ref > 1 THEN [freed |-> {}, kept |-> b]
                            ELSE IF h[b].m_parent = None THEN [freed |-> {b}, kept |-> None]
                            ELSE [freed |-> {b} \cup u[h[b].m_parent].freed,
                                  kept  |-> u[h[b].m_parent].kept]]
  BY <1>11
<1> HIDE DEF u
<1>13. S \subseteq {b \in S : u[b] \in Fates}
  <2> DEFINE T == {b \in S : u[b] \in Fates}
  <2>1. ASSUME NEW b \in S, b \in up => par[b] \in T
        PROVE  b \in T
    <3>1. CASE b \in up
      <4>1. u[h[b].m_parent] \in Fates
        BY <2>1, <3>1
      <4>2. u[b] = [freed |-> {b} \cup u[h[b].m_parent].freed,
                    kept  |-> u[h[b].m_parent].kept]
        BY <1>12, <3>1
      <4> QED  BY <1>0, <4>1, <4>2 DEF Fates
    <3>2. CASE b \notin up
      <4>1. u[b] = first[b]
        BY <1>12, <3>2
      <4> QED  BY <1>3, <4>1
    <3> QED  BY <3>1, <3>2
  <2>2. Ranks(rank, S, up, par)
    BY <1>2
  <2> HIDE DEF up, par, S
  <2>3. \A b \in S : (b \in up => par[b] \in T) => b \in T
    BY <2>1
  <2> HIDE DEF T
  <2>4. S \subseteq T
    BY <2>2, <2>3, RankedClaim
  <2> QED  BY <2>4 DEF T
<1>14. Fate(h) = u
  BY <1>10 DEF u
<1> QED  BY <1>12, <1>13, <1>14

Chain(h, a, freed, kept) ==
  /\ freed \subseteq InUse(h)
  /\ \A c \in freed :
       /\ ~(h[c].m_ref > 1)
       /\ h[c].m_parent = None \/ h[c].m_parent \in freed \/ h[c].m_parent = kept
       /\ c # a => \E e \in freed : h[e].m_parent = c
  /\ kept = None \/ (kept \in InUse(h) /\ h[kept].m_ref > 1)
  /\ a \in freed \/ (freed = {} /\ kept = a)
  /\ kept # None /\ freed # {} =>
       \E c \in freed : \A e \in freed : h[e].m_parent = kept <=> e = c

LEMMA FateChain ==
  ASSUME NEW h, Forest(h), NEW a \in InUse(h)
  PROVE  Chain(h, a, Fate(h)[a].freed, Fate(h)[a].kept)
<1> DEFINE S == InUse(h)
           up == {b \in S : h[b].m_parent # None}
           par == [b \in S |-> h[b].m_parent]
           T == {b \in S : Chain(h, b, Fate(h)[b].freed, Fate(h)[b].kept)}
<1>1. PICK limit \in Nat : \E rank \in [Node -> Nat] : Ranks(rank, S, up, par)
  BY ForestRanks
<1>2. PICK rank \in [Node -> Nat] : Ranks(rank, S, up, par)
  BY <1>1
<1>3. ASSUME NEW b \in S, b \in up => par[b] \in T
      PROVE  b \in T
  <2>1. Fate(h)[b] =
              IF h[b].m_ref > 1 THEN [freed |-> {}, kept |-> b]
              ELSE IF h[b].m_parent = None THEN [freed |-> {b}, kept |-> None]
              ELSE [freed |-> {b} \cup Fate(h)[h[b].m_parent].freed,
                    kept  |-> Fate(h)[h[b].m_parent].kept]
    BY FateDef
  <2>2. CASE h[b].m_ref > 1
    BY <2>1, <2>2 DEF Chain
  <2>3. CASE ~(h[b].m_ref > 1) /\ h[b].m_parent = None
    BY <2>1, <2>3 DEF Chain
  <2>4. CASE ~(h[b].m_ref > 1) /\ h[b].m_parent # None
    <3> DEFINE p == h[b].m_parent
               F == Fate(h)[p].freed
               k == Fate(h)[p].kept
    <3>1. Chain(h, p, F, k)
      BY <1>3, <2>4
    <3>2. Fate(h)[b].freed = {b} \cup F /\ Fate(h)[b].kept = k
      BY <2>1, <2>4
    <3>3. p \in S /\ p # None
      BY <2>4 DEF Forest
    <3> HIDE DEF F, k
    <3>4. {b} \cup F \subseteq InUse(h)
      BY <3>1 DEF Chain
    <3>5. ASSUME NEW c \in {b} \cup F
          PROVE  /\ ~(h[c].m_ref > 1)
                 /\ h[c].m_parent = None \/ h[c].m_parent \in {b} \cup F \/ h[c].m_parent = k
                 /\ c # b => \E e \in {b} \cup F : h[e].m_parent = c
      <4>1. CASE c = b
        BY <4>1, <2>4, <3>1 DEF Chain
      <4>2. CASE c \in F /\ c # b
        <5>1. CASE c = p
          BY <4>2, <5>1, <3>1 DEF Chain
        <5>2. CASE c # p
          BY <4>2, <5>2, <3>1 DEF Chain
        <5> QED  BY <5>1, <5>2
      <4> QED  BY <4>1, <4>2
    <3>6. k # None =>
            \E c \in {b} \cup F : \A e \in {b} \cup F : h[e].m_parent = k <=> e = c
      <4>1. CASE F = {}
        <5>1. k = p
          BY <4>1, <3>1 DEF Chain
        <5> QED  BY <4>1, <5>1
      <4>2. CASE F # {} /\ k # None
        <5>1. PICK c \in F : \A e \in F : h[e].m_parent = k <=> e = c
          BY <4>2, <3>1 DEF Chain
        <5>2. p \in F /\ p # k
          BY <4>2, <3>1 DEF Chain
        <5> QED  BY <5>1, <5>2
      <4> QED  BY <4>1, <4>2
    <3>7. Chain(h, b, {b} \cup F, k)
      <4> HIDE DEF p
      <4>1. k = None \/ (k \in InUse(h) /\ h[k].m_ref > 1)
        BY <3>1 DEF Chain
      <4>2. b \in {b} \cup F
        OBVIOUS
      <4> QED  BY <3>4, <3>5, <3>6, <4>1, <4>2 DEF Chain
    <3> QED  BY <3>2, <3>7
  <2> QED  BY <2>2, <2>3, <2>4
<1>4. S \subseteq T
  <2> HIDE DEF S, up, par, T
  <2>1. \A b \in S : (b \in up => par[b] \in T) => b \in T
    BY <1>3
  <2> QED  BY <1>2, <2>1, RankedClaim
<1> QED  BY <1>4

(***************************************************************************)
(* The counts: a namespace has a reference for each of its places on the   *)
(* stack s and for each of its children.                                   *)
(***************************************************************************)
Places(s, a)   == {i \in DOMAIN s : s[i] = a}
Children(h, a) == {b \in InUse(h) : h[b].m_parent = a}

Counted(h, s) ==
  /\ \A i \in DOMAIN s : s[i] \in InUse(h)
  /\ \A a \in InUse(h) :
       h[a].m_ref = Cardinality(Places(s, a)) + Cardinality(Children(h, a))

HeapInv(h, s) == Forest(h) /\ s \in Seq(Node) /\ Counted(h, s)

AllHeld(h) == \A a \in InUse(h) : h[a].m_ref > 0

LEMMA FiniteCounts ==
  ASSUME NEW h \in Heap, NEW s \in Seq(Node), NEW a
  PROVE  /\ IsFiniteSet(Places(s, a)) /\ Cardinality(Places(s, a)) \in Nat
         /\ IsFiniteSet(Children(h, a)) /\ Cardinality(Children(h, a)) \in Nat
<1>1. Len(s) \in Nat /\ DOMAIN s = 1 .. Len(s)
  OBVIOUS
<1>2. IsFiniteSet(1 .. Len(s))
  BY <1>1, FS_Interval
<1>3. Places(s, a) \subseteq 1 .. Len(s)
  BY <1>1 DEF Places
<1>4. Children(h, a) \subseteq Node
  BY InUseType DEF Children
<1> QED  BY <1>2, <1>3, <1>4, NodeAssumption, FS_Subset, FS_CardinalityType

LEMMA OnlyOne ==
  ASSUME NEW S, IsFiniteSet(S), Cardinality(S) <= 1, NEW x \in S
  PROVE  S = {x}
<1>1. IsFiniteSet(S \ {x}) /\ Cardinality(S \ {x}) = Cardinality(S) - 1
  BY FS_RemoveElement
<1>2. Cardinality(S) \in Nat /\ Cardinality(S \ {x}) \in Nat
  BY <1>1, FS_CardinalityType
<1>3. Cardinality(S \ {x}) = 0
  BY <1>1, <1>2
<1>4. S \ {x} = {}
  BY <1>1, <1>3, FS_EmptySet
<1> QED  BY <1>4

LEMMA PlacesPopped ==
  ASSUME NEW s \in Seq(Node), s # <<>>, NEW b
  PROVE  /\ Last(s) \in Node /\ Front(s) \in Seq(Node)
         /\ Len(Front(s)) = Len(s) - 1
         /\ \A i \in DOMAIN Front(s) : i \in DOMAIN s /\ Front(s)[i] = s[i]
         /\ Len(s) \in DOMAIN s /\ s[Len(s)] = Last(s)
         /\ Places(Front(s), b) = Places(s, b) \ {Len(s)}
<1>1. Len(s) \in Nat /\ Len(s) > 0 /\ DOMAIN s = 1 .. Len(s)
  BY EmptySeq
<1>2. Last(s) = s[Len(s)] /\ s[Len(s)] \in Node
  BY <1>1 DEF Last
<1>3. /\ Front(s) \in Seq(Node) /\ Len(Front(s)) = Len(s) - 1
      /\ \A i \in 1 .. Len(s) - 1 : Front(s)[i] = s[i]
  <2>1. Front(s) = SubSeq(s, 1, Len(s) - 1)
    BY DEF Front
  <2>2. \A i \in 1 .. Len(s) - 1 : s[i] \in Node
    BY <1>1, ElementOfSeq
  <2>3. /\ Front(s) \in Seq(Node)
        /\ Len(Front(s)) = IF 1 <= Len(s) - 1 THEN Len(s) - 1 - 1 + 1 ELSE 0
        /\ \A i \in 1 .. Len(s) - 1 - 1 + 1 : Front(s)[i] = s[1 + i - 1]
    BY <2>1, <2>2, <1>1, SubSeqProperties
  <2>4. \A n \in Nat : n > 0 =>
          /\ (IF 1 <= n - 1 THEN n - 1 - 1 + 1 ELSE 0) = n - 1
          /\ n - 1 - 1 + 1 = n - 1
    OBVIOUS
  <2>5. \A i \in 1 .. Len(s) - 1 : 1 + i - 1 = i
    BY <1>1
  <2> QED  BY <1>1, <2>3, <2>4, <2>5
<1>4. DOMAIN Front(s) = 1 .. Len(s) - 1
  BY <1>3
<1>5. \A i \in DOMAIN Front(s) : i \in DOMAIN s /\ Front(s)[i] = s[i] /\ i # Len(s)
  BY <1>1, <1>3, <1>4
<1>6. \A i \in DOMAIN s : i # Len(s) => i \in DOMAIN Front(s)
  BY <1>1, <1>4
<1>7. Places(Front(s), b) = Places(s, b) \ {Len(s)}
  BY <1>5, <1>6 DEF Places
<1> QED  BY <1>1, <1>2, <1>3, <1>5, <1>7

(***************************************************************************)
(* deref, as endElement calls it with the top of the stack: what is freed  *)
(* has no reference but the one that goes, so nothing points to it.        *)
(***************************************************************************)
LEMMA DerefNodes ==
  ASSUME NEW h, Forest(h), NEW a \in InUse(h)
  PROVE  LET F == Fate(h)[a].freed
             k == Fate(h)[a].kept
         IN  /\ Deref(h, a) \in Heap
             /\ InUse(Deref(h, a)) = InUse(h) \ F
             /\ \A b \in InUse(h) \ F :
                  /\ Deref(h, a)[b].m_prefix = h[b].m_prefix
                  /\ Deref(h, a)[b].m_uri = h[b].m_uri
                  /\ Deref(h, a)[b].m_parent = h[b].m_parent
                  /\ Deref(h, a)[b].m_ref = IF b = k THEN h[b].m_ref - 1 ELSE h[b].m_ref
<1> DEFINE F == Fate(h)[a].freed
           k == Fate(h)[a].kept
           new == [b \in Node |-> IF b \in F THEN None
                                  ELSE IF b = k THEN [h[b] EXCEPT !.m_ref = @ - 1]
                                  ELSE h[b]]
<1>1. Deref(h, a) = new
  BY DEF Deref
<1>2. Chain(h, a, F, k)
  BY FateChain
<1> HIDE DEF F, k
<1>3. /\ h \in Heap /\ InUse(h) \subseteq Node
      /\ \A b \in Node : b \in InUse(h) <=> h[b] # None
      /\ \A b \in InUse(h) : h[b] \in Namespace
  BY InUseType DEF Forest
<1>4. ASSUME NEW b \in InUse(h), b = k
      PROVE  /\ [h[b] EXCEPT !.m_ref = @ - 1] \in Namespace
             /\ [h[b] EXCEPT !.m_ref = @ - 1].m_prefix = h[b].m_prefix
             /\ [h[b] EXCEPT !.m_ref = @ - 1].m_uri = h[b].m_uri
             /\ [h[b] EXCEPT !.m_ref = @ - 1].m_parent = h[b].m_parent
             /\ [h[b] EXCEPT !.m_ref = @ - 1].m_ref = h[b].m_ref - 1
  <2>1. h[b] \in Namespace /\ h[b].m_ref > 1
    BY <1>2, <1>3, <1>4, NodeAssumption DEF Chain
  <2>2. h[b].m_ref \in Nat /\ h[b].m_ref - 1 \in Nat
    BY <2>1 DEF Namespace
  <2> QED  BY <2>1, <2>2 DEF Namespace
<1>5. k # None => k \in InUse(h)
  BY <1>2 DEF Chain
<1>6. \A b \in Node : new[b] \in Namespace \cup {None}
  BY <1>3, <1>4, <1>5, NodeAssumption DEF Heap
<1>7. \A b \in Node : new[b] # None <=> b \in InUse(h) \ F
  BY <1>3, <1>4, <1>5, NodeAssumption, NullAssumption
<1>8. new \in Heap
  BY <1>6 DEF Heap
<1>9. InUse(new) = InUse(h) \ F
  BY <1>3, <1>7, <1>8, InUseType
<1>10. \A b \in InUse(h) \ F :
         /\ new[b].m_prefix = h[b].m_prefix
         /\ new[b].m_uri = h[b].m_uri
         /\ new[b].m_parent = h[b].m_parent
         /\ new[b].m_ref = IF b = k THEN h[b].m_ref - 1 ELSE h[b].m_ref
  BY <1>3, <1>4
<1> HIDE DEF new
<1> QED  BY <1>1, <1>8, <1>9, <1>10 DEF F, k

\* What deref frees is neither on the rest of the stack nor the parent of a
\* namespace that stays.
LEMMA FreedUnheld ==
  ASSUME NEW h, NEW s, HeapInv(h, s), AllHeld(h), s # <<>>,
         NEW freed, NEW kept, Chain(h, Last(s), freed, kept), NEW c \in freed
  PROVE  Places(Front(s), c) = {} /\ Children(h, c) \subseteq freed
<1>1. /\ Forest(h) /\ h \in Heap /\ s \in Seq(Node)
      /\ c \in InUse(h) /\ h[c] \in Namespace
  BY InUseType DEF HeapInv, Forest, Chain
<1>2. /\ IsFiniteSet(Places(s, c)) /\ Cardinality(Places(s, c)) \in Nat
      /\ IsFiniteSet(Children(h, c)) /\ Cardinality(Children(h, c)) \in Nat
  BY <1>1, FiniteCounts
<1>3. Cardinality(Places(s, c)) + Cardinality(Children(h, c)) = 1
  <2>1. h[c].m_ref \in Nat /\ h[c].m_ref > 0 /\ ~(h[c].m_ref > 1)
    BY <1>1 DEF Namespace, AllHeld, Chain
  <2> QED  BY <1>1, <2>1 DEF HeapInv, Counted
<1>4. /\ Places(Front(s), c) = Places(s, c) \ {Len(s)}
      /\ Len(s) \in DOMAIN s /\ s[Len(s)] = Last(s)
  BY <1>1, PlacesPopped
<1>5. CASE c = Last(s)
  <2>1. Len(s) \in Places(s, c)
    BY <1>4, <1>5 DEF Places
  <2>2. Cardinality(Places(s, c)) # 0
    BY <1>2, <2>1, FS_EmptySet
  <2>3. Cardinality(Places(s, c)) <= 1 /\ Cardinality(Children(h, c)) = 0
    BY <1>2, <1>3, <2>2
  <2>4. Places(s, c) = {Len(s)} /\ Children(h, c) = {}
    BY <1>2, <2>1, <2>3, OnlyOne, FS_EmptySet
  <2> QED  BY <1>4, <2>4
<1>6. CASE c # Last(s)
  <2>1. PICK e \in freed : h[e].m_parent = c
    BY <1>6 DEF Chain
  <2>2. e \in Children(h, c)
    BY <2>1 DEF Chain, Children
  <2>3. Cardinality(Children(h, c)) # 0
    BY <1>2, <2>2, FS_EmptySet
  <2>4. Cardinality(Children(h, c)) <= 1 /\ Cardinality(Places(s, c)) = 0
    BY <1>2, <1>3, <2>3
  <2>5. Children(h, c) = {e} /\ Places(s, c) = {}
    BY <1>2, <2>2, <2>4, OnlyOne, FS_EmptySet
  <2> QED  BY <1>4, <2>5
<1> QED  BY <1>5, <1>6

LEMMA DerefKeeps ==
  ASSUME NEW h, NEW s, HeapInv(h, s), AllHeld(h), s # <<>>
  PROVE  /\ HeapInv(Deref(h, Last(s)), Front(s))
         /\ AllHeld(Deref(h, Last(s)))
         /\ Extends(Deref(h, Last(s)), h)
<1> DEFINE a == Last(s)
           t == Front(s)
           new == Deref(h, a)
           F == Fate(h)[a].freed
           k == Fate(h)[a].kept
<1>1. Forest(h) /\ h \in Heap /\ s \in Seq(Node) /\ Counted(h, s)
  BY DEF HeapInv, Forest
<1>2. /\ t \in Seq(Node)
      /\ \A i \in DOMAIN t : i \in DOMAIN s /\ t[i] = s[i]
      /\ Len(s) \in DOMAIN s /\ s[Len(s)] = a
      /\ \A b : Places(t, b) = Places(s, b) \ {Len(s)}
  BY <1>1, PlacesPopped
<1>3. a \in InUse(h)
  BY <1>1, <1>2 DEF Counted
<1>4. /\ new \in Heap
      /\ InUse(new) = InUse(h) \ F
      /\ \A b \in InUse(h) \ F :
           /\ new[b].m_prefix = h[b].m_prefix
           /\ new[b].m_uri = h[b].m_uri
           /\ new[b].m_parent = h[b].m_parent
           /\ new[b].m_ref = IF b = k THEN h[b].m_ref - 1 ELSE h[b].m_ref
  BY <1>1, <1>3, DerefNodes
<1>5. Chain(h, a, F, k)
  BY <1>1, <1>3, FateChain
<1>6. \A c \in F : Places(t, c) = {} /\ Children(h, c) \subseteq F
  BY <1>5, FreedUnheld
<1> HIDE DEF a, t, new, F, k
<1>7. InUse(h) \subseteq Node /\ \A b \in InUse(h) : h[b] \in Namespace
  BY <1>1, InUseType
<1>8. Extends(new, h)
  BY <1>4 DEF Extends
<1>9. Forest(new)
  <2>1. ASSUME NEW b \in InUse(new), new[b].m_parent # None
        PROVE  new[b].m_parent \in InUse(new)
    <3>1. b \in InUse(h) \ F /\ new[b].m_parent = h[b].m_parent
      BY <1>4
    <3>2. h[b].m_parent \in InUse(h) /\ b \in Children(h, h[b].m_parent)
      BY <2>1, <3>1, <1>1 DEF Forest, Children
    <3> QED  BY <3>1, <3>2, <1>4, <1>6
  <2>2. PICK limit \in Nat : \E rank \in [Node -> 0 .. limit] : Ranked(h, rank)
    BY <1>1 DEF Forest
  <2>3. PICK rank \in [Node -> 0 .. limit] : Ranked(h, rank)
    BY <2>2
  <2>4. Ranked(new, rank)
    BY <2>3, <1>4 DEF Ranked
  <2> QED  BY <2>1, <2>3, <2>4, <1>4 DEF Forest
<1>10. \A i \in DOMAIN t : t[i] \in InUse(new)
  <2> SUFFICES ASSUME NEW i \in DOMAIN t PROVE t[i] \in InUse(h) \ F
    BY <1>4
  <2>1. t[i] \in InUse(h) /\ i \in Places(t, t[i])
    BY <1>1, <1>2 DEF Counted, Places
  <2> QED  BY <2>1, <1>6
<1>11. ASSUME NEW b \in InUse(new)
       PROVE  new[b].m_ref = Cardinality(Places(t, b)) + Cardinality(Children(new, b))
  <2>1. b \in InUse(h) /\ b \notin F /\ b \in Node /\ b # None
    BY <1>4, <1>7, NodeAssumption
  <2>2. /\ IsFiniteSet(Places(s, b)) /\ Cardinality(Places(s, b)) \in Nat
        /\ IsFiniteSet(Children(h, b)) /\ Cardinality(Children(h, b)) \in Nat
        /\ h[b].m_ref = Cardinality(Places(s, b)) + Cardinality(Children(h, b))
    BY <2>1, <1>1, FiniteCounts DEF Counted
  <2>3. Children(new, b) = Children(h, b) \ F
    BY <1>4 DEF Children
  <2>4. b # a => Places(t, b) = Places(s, b)
    BY <1>2 DEF Places
  <2>5. Cardinality(Places(t, a)) = Cardinality(Places(s, a)) - 1
    <3>1. IsFiniteSet(Places(s, a)) /\ Len(s) \in Places(s, a)
      BY <1>1, <1>2, FiniteCounts DEF Places
    <3> QED  BY <3>1, <1>2, FS_RemoveElement
  <2>6. CASE b = k /\ F = {}
    <3>1. b = a
      BY <1>5, <2>6 DEF Chain
    <3>2. Children(new, b) = Children(h, b)
      BY <2>3, <2>6
    <3> QED  BY <3>1, <3>2, <2>1, <2>2, <2>5, <2>6, <1>4
  <2>7. CASE b = k /\ F # {}
    <3>1. a \in F
      BY <1>5, <2>7 DEF Chain
    <3>2. PICK c \in F : \A e \in F : h[e].m_parent = k <=> e = c
      BY <1>5, <2>1, <2>7 DEF Chain
    <3>3. c \in Children(h, b) /\ Children(new, b) = Children(h, b) \ {c}
      BY <3>2, <2>3, <2>7, <1>5 DEF Children, Chain
    <3>4. Cardinality(Children(new, b)) = Cardinality(Children(h, b)) - 1
      BY <3>3, <2>2, FS_RemoveElement
    <3> QED  BY <3>1, <3>4, <2>1, <2>2, <2>4, <2>7, <1>4
  <2>8. CASE b # k
    <3>1. b # a
      BY <1>5, <2>1, <2>8 DEF Chain
    <3>2. Children(new, b) = Children(h, b)
      <4>1. \A c \in F : h[c].m_parent # b
        BY <1>5, <2>1, <2>8 DEF Chain
      <4> QED  BY <4>1, <2>3 DEF Children
    <3> QED  BY <3>1, <3>2, <2>1, <2>2, <2>4, <2>8, <1>4
  <2> QED  BY <2>6, <2>7, <2>8
<1>12. AllHeld(new)
  <2> SUFFICES ASSUME NEW b \in InUse(new) PROVE new[b].m_ref > 0
    BY DEF AllHeld
  <2>1. b \in InUse(h) \ F /\ h[b].m_ref \in Nat /\ h[b].m_ref > 0 /\ b # None
    BY <1>4, <1>7, NodeAssumption DEF AllHeld, Namespace
  <2>2. b = k => h[b].m_ref > 1
    BY <2>1, <1>5 DEF Chain
  <2> QED  BY <2>1, <2>2, <1>4
<1>13. HeapInv(new, t)
  BY <1>2, <1>9, <1>10, <1>11 DEF HeapInv, Counted
<1> QED  BY <1>8, <1>12, <1>13 DEF new, t, a

(***************************************************************************)
(* pushNamespaces: one declaration, all of them, and the place on the      *)
(* stack.  Until that is taken the namespace made last has no reference.   *)
(***************************************************************************)
HeldBut(h, top) == \A b \in InUse(h) : b # top => h[b].m_ref > 0

Declaring(h, s, top) ==
  /\ HeapInv(h, s)
  /\ HeldBut(h, top)
  /\ top = None \/ top \in InUse(h)

LEMMA MinUnused ==
  ASSUME NEW h, Unused(h) # {}
  PROVE  Min(Unused(h)) \in Unused(h)
<1>1. Unused(h) \subseteq Nat
  BY NodeAssumption DEF Unused
<1>2. \E n \in Unused(h) : \A j \in Unused(h) : n <= j
  BY <1>1, LeastElement
<1> QED  BY <1>2 DEF Min

LEMMA DeclareNodes ==
  ASSUME NEW h \in Heap, NEW top, top = None \/ top \in InUse(h),
         Unused(h) # {}, NEW d \in Decl
  PROVE  LET r == Declare([ns |-> h, top |-> top], d)
         IN  /\ r.top \in Unused(h)
             /\ r.ns \in Heap
             /\ InUse(r.ns) = InUse(h) \cup {r.top}
             /\ r.ns[r.top].m_prefix = d.prefix /\ r.ns[r.top].m_uri = d.uri
             /\ r.ns[r.top].m_parent = top /\ r.ns[r.top].m_ref = 0
             /\ \A b \in InUse(h) :
                  /\ r.ns[b].m_prefix = h[b].m_prefix
                  /\ r.ns[b].m_uri = h[b].m_uri
                  /\ r.ns[b].m_parent = h[b].m_parent
                  /\ r.ns[b].m_ref = IF b = top THEN h[b].m_ref + 1 ELSE h[b].m_ref
<1> DEFINE a == Min(Unused(h))
           fresh == [m_prefix |-> d.prefix, m_uri |-> d.uri, m_parent |-> top, m_ref |-> 0]
           made == [h EXCEPT ![a] = fresh]
           new == NewNamespace(h, a, d, top)
<1>1. Declare([ns |-> h, top |-> top], d) = [ns |-> new, top |-> a]
  BY DEF Declare
<1>2. a \in Unused(h) /\ a \in Node /\ a \notin InUse(h)
  BY MinUnused DEF Unused, InUse
<1>3. new = IF top = None THEN made ELSE [made EXCEPT ![top].m_ref = @ + 1]
  BY DEF NewNamespace, WithRef
<1>4. /\ InUse(h) \subseteq Node
      /\ \A b \in Node : b \in InUse(h) <=> h[b] # None
      /\ \A b \in InUse(h) : h[b] \in Namespace
  BY InUseType
<1> HIDE DEF a, new
<1>5. /\ fresh \in Namespace /\ fresh.m_parent = top /\ fresh.m_ref = 0
      /\ fresh.m_prefix = d.prefix /\ fresh.m_uri = d.uri
  BY <1>4 DEF Namespace, Decl
<1>6. /\ made \in Heap /\ made[a] = fresh
      /\ \A b \in Node : b # a => made[b] = h[b]
  BY <1>2, <1>5 DEF Heap
<1> HIDE DEF made, fresh
<1>7. /\ new \in Heap
      /\ new[a].m_parent = top /\ new[a].m_ref = 0 /\ new[a] # None
      /\ new[a].m_prefix = d.prefix /\ new[a].m_uri = d.uri
      /\ \A b \in Node : b # a /\ h[b] = None => new[b] = None
      /\ \A b \in InUse(h) :
                  /\ new[b].m_prefix = h[b].m_prefix
                  /\ new[b].m_uri = h[b].m_uri
                  /\ new[b].m_parent = h[b].m_parent
                  /\ new[b].m_ref = IF b = top THEN h[b].m_ref + 1 ELSE h[b].m_ref
                  /\ new[b] # None
  <2>1. CASE top = None
    BY <2>1, <1>2, <1>3, <1>4, <1>5, <1>6, NodeAssumption, NullAssumption
  <2>2. CASE top # None
    <3>1. top \in InUse(h) /\ top \in Node /\ top # a /\ made[top] = h[top] /\ h[top] \in Namespace
      BY <2>2, <1>2, <1>4, <1>6
    <3>2. h[top].m_ref \in Nat
      BY <3>1 DEF Namespace
    <3>3. /\ [h[top] EXCEPT !.m_ref = @ + 1] \in Namespace
          /\ [h[top] EXCEPT !.m_ref = @ + 1].m_prefix = h[top].m_prefix
          /\ [h[top] EXCEPT !.m_ref = @ + 1].m_uri = h[top].m_uri
          /\ [h[top] EXCEPT !.m_ref = @ + 1].m_parent = h[top].m_parent
          /\ [h[top] EXCEPT !.m_ref = @ + 1].m_ref = h[top].m_ref + 1
      BY <3>1, <3>2 DEF Namespace
    <3>4. new = [made EXCEPT ![top] = [h[top] EXCEPT !.m_ref = @ + 1]]
      BY <2>2, <3>1, <1>3
    <3>5. /\ new \in Heap /\ new[a] = fresh
          /\ new[top] = [h[top] EXCEPT !.m_ref = @ + 1]
          /\ \A b \in Node : b # a /\ b # top => new[b] = h[b]
      BY <3>1, <3>3, <3>4, <1>2, <1>6 DEF Heap
    <3>6. \A b \in InUse(h) : b \in Node /\ b # a /\ h[b] # None
      BY <1>2, <1>4
    <3>7. \A b \in InUse(h) : b # top => new[b] = h[b] /\ h[b] # None
      BY <3>5, <3>6
    <3>8. fresh # None /\ new[top] # None
      BY <3>3, <3>5, <1>5, NullAssumption
    <3>9. \A b \in Node : b # a /\ h[b] = None => b # top /\ new[b] = None
      BY <3>5, <3>6, <3>1
    <3>10. \A b \in InUse(h) :
                  /\ new[b].m_prefix = h[b].m_prefix
                  /\ new[b].m_uri = h[b].m_uri
                  /\ new[b].m_parent = h[b].m_parent
                  /\ new[b].m_ref = IF b = top THEN h[b].m_ref + 1 ELSE h[b].m_ref
                  /\ new[b] # None
      <4> SUFFICES ASSUME NEW b \in InUse(h)
                   PROVE  /\ new[b].m_prefix = h[b].m_prefix
                          /\ new[b].m_uri = h[b].m_uri
                          /\ new[b].m_parent = h[b].m_parent
                          /\ new[b].m_ref = IF b = top THEN h[b].m_ref + 1 ELSE h[b].m_ref
                          /\ new[b] # None
        OBVIOUS
      <4>1. CASE b = top
        BY <4>1, <3>3, <3>5, <3>8
      <4>2. CASE b # top
        BY <4>2, <3>7
      <4> QED  BY <4>1, <4>2
    <3> QED  BY <3>5, <3>8, <3>9, <3>10, <1>5
  <2> QED  BY <2>1, <2>2
<1>8. InUse(new) = InUse(h) \cup {a}
  BY <1>2, <1>4, <1>7, InUseType
<1> QED  BY <1>1, <1>2, <1>7, <1>8

LEMMA DeclareKeeps ==
  ASSUME NEW h, NEW s, NEW top, Declaring(h, s, top), Unused(h) # {}, NEW d \in Decl
  PROVE  LET r == Declare([ns |-> h, top |-> top], d)
         IN  /\ Declaring(r.ns, s, r.top)
             /\ Extends(h, r.ns)
             /\ r.top # None
             /\ Cardinality(Unused(h)) = Cardinality(Unused(r.ns)) + 1
<1> DEFINE r == Declare([ns |-> h, top |-> top], d)
           a == r.top
           new == r.ns
<1>1. Forest(h) /\ h \in Heap /\ s \in Seq(Node) /\ Counted(h, s)
  BY DEF Declaring, HeapInv, Forest
<1>2. /\ a \in Unused(h)
      /\ new \in Heap
      /\ InUse(new) = InUse(h) \cup {a}
      /\ new[a].m_parent = top /\ new[a].m_ref = 0
      /\ \A b \in InUse(h) :
           /\ new[b].m_prefix = h[b].m_prefix
           /\ new[b].m_uri = h[b].m_uri
           /\ new[b].m_parent = h[b].m_parent
           /\ new[b].m_ref = IF b = top THEN h[b].m_ref + 1 ELSE h[b].m_ref
  BY <1>1, DeclareNodes DEF Declaring
<1>3. /\ a \in Node /\ a \notin InUse(h) /\ a # None
      /\ top # a /\ (top # None => top \in InUse(h))
  BY <1>2, NodeAssumption DEF InUse, Unused, Declaring
<1> HIDE DEF r, a, new
<1>4. /\ InUse(h) \subseteq Node /\ InUse(new) \subseteq Node
      /\ \A b \in InUse(h) : h[b] \in Namespace /\ h[b].m_ref \in Nat /\ b # a
      /\ \A b \in InUse(h) : h[b].m_parent # None => h[b].m_parent \in InUse(h)
  BY <1>1, <1>2, <1>3, InUseType DEF Namespace, Forest
<1>5. Extends(h, new)
  BY <1>2 DEF Extends
<1>6. Forest(new)
  <2>1. \A b \in InUse(new) : new[b].m_parent # None => new[b].m_parent \in InUse(new)
    BY <1>2, <1>3, <1>4
  <2>2. PICK limit \in Nat : \E rank \in [Node -> 0 .. limit] : Ranked(h, rank)
    BY <1>1 DEF Forest
  <2>3. PICK rank \in [Node -> 0 .. limit] : Ranked(h, rank)
    BY <2>2
  <2> DEFINE higher == [rank EXCEPT ![a] = limit + 1]
  <2>4. /\ higher \in [Node -> 0 .. limit + 1]
        /\ higher[a] = limit + 1
        /\ \A b \in Node : b # a => higher[b] = rank[b]
    BY <1>3
  <2>5. Ranked(new, higher)
    <3> SUFFICES ASSUME NEW b \in InUse(new), new[b].m_parent # None
                 PROVE  higher[new[b].m_parent] < higher[b]
      BY DEF Ranked
    <3> HIDE DEF higher
    <3>1. CASE b = a
      <4>1. top \in Node /\ higher[top] = rank[top] /\ rank[top] \in 0 .. limit
        BY <3>1, <1>2, <1>3, <1>4, <2>4
      <4> QED  BY <3>1, <4>1, <1>2, <2>4
    <3>2. CASE b # a
      <4>1. b \in InUse(h) /\ new[b].m_parent = h[b].m_parent /\ h[b].m_parent \in InUse(h)
        BY <3>2, <1>2, <1>4
      <4>2. rank[h[b].m_parent] < rank[b]
        BY <4>1, <2>3 DEF Ranked
      <4> QED  BY <4>1, <4>2, <1>4, <2>4
    <3> QED  BY <3>1, <3>2
  <2>6. \E limit1 \in Nat : \E rank1 \in [Node -> 0 .. limit1] : Ranked(new, rank1)
    <3> HIDE DEF higher
    <3>1. limit + 1 \in Nat
      OBVIOUS
    <3> QED  BY <3>1, <2>4, <2>5
  <2> QED  BY <2>1, <2>6, <1>2 DEF Forest
<1>7. ASSUME NEW b \in InUse(new)
      PROVE  new[b].m_ref = Cardinality(Places(s, b)) + Cardinality(Children(new, b))
  <2>1. CASE b = a
    <3>1. Places(s, b) = {} /\ Children(new, b) = {}
      BY <2>1, <1>1, <1>2, <1>3, <1>4 DEF Places, Children, Counted
    <3> QED  BY <3>1, <2>1, <1>2, FS_EmptySet
  <2>2. CASE b \in InUse(h)
    <3>1. /\ h[b].m_ref = Cardinality(Places(s, b)) + Cardinality(Children(h, b))
          /\ IsFiniteSet(Children(h, b)) /\ Cardinality(Children(h, b)) \in Nat
          /\ Cardinality(Places(s, b)) \in Nat
      BY <2>2, <1>1, FiniteCounts DEF Counted
    <3>2. CASE b = top
      <4>1. Children(new, b) = Children(h, b) \cup {a} /\ a \notin Children(h, b)
        BY <2>2, <3>2, <1>2, <1>3, <1>4 DEF Children
      <4>2. Cardinality(Children(new, b)) = Cardinality(Children(h, b)) + 1
        BY <3>1, <4>1, FS_AddElement
      <4> QED  BY <2>2, <3>1, <3>2, <4>2, <1>2
    <3>3. CASE b # top
      <4>1. Children(new, b) = Children(h, b)
        BY <2>2, <3>3, <1>2, <1>3, <1>4 DEF Children
      <4> QED  BY <2>2, <3>1, <3>3, <4>1, <1>2
    <3> QED  BY <3>2, <3>3
  <2> QED  BY <2>1, <2>2, <1>2
<1>8. HeapInv(new, s)
  <2>1. \A i \in DOMAIN s : s[i] \in InUse(new)
    BY <1>1, <1>2 DEF Counted
  <2> QED  BY <2>1, <1>1, <1>6, <1>7 DEF HeapInv, Counted
<1>9. HeldBut(new, a)
  <2> SUFFICES ASSUME NEW b \in InUse(new), b # a PROVE new[b].m_ref > 0
    BY DEF HeldBut
  <2>1. b \in InUse(h) /\ h[b].m_ref \in Nat
    BY <1>2, <1>4
  <2>2. b # top => h[b].m_ref > 0
    BY <2>1 DEF Declaring, HeldBut
  <2> QED  BY <2>1, <2>2, <1>2
<1>10. Cardinality(Unused(h)) = Cardinality(Unused(new)) + 1
  <2>1. Unused(new) = Unused(h) \ {a}
    BY <1>2, <1>3, <1>4 DEF InUse, Unused
  <2>2. IsFiniteSet(Unused(h))
    BY NodeAssumption, FS_Subset, Unused(h) \subseteq Node DEF Unused
  <2>3. IsFiniteSet(Unused(new)) /\ Cardinality(Unused(new)) = Cardinality(Unused(h)) - 1
    BY <2>1, <2>2, <1>2, FS_RemoveElement
  <2> QED  BY <2>2, <2>3, FS_CardinalityType
<1> QED  BY <1>2, <1>3, <1>5, <1>8, <1>9, <1>10 DEF Declaring, new, a, r

LEMMA ExtendsTransitive ==
  ASSUME NEW h1, NEW h2, NEW h3, Extends(h1, h2), Extends(h2, h3)
  PROVE  Extends(h1, h3)
BY DEF Extends

\* What Declared returns is what its recursion says, step by step.
LEMMA DeclaredDef ==
  ASSUME NEW acc, NEW decls, Len(decls) \in Nat
  PROVE  \E after :
           /\ Declared(acc, decls) = after[Len(decls)]
           /\ after[0] = acc
           /\ \A i \in 0 .. Len(decls) :
                i # 0 => after[i] = Declare(after[i - 1], decls[i])
<1> DEFINE N == Len(decls)
           Fix(g) == g = [i \in 0 .. N |-> IF i = 0 THEN acc
                                           ELSE Declare(g[i - 1], decls[i])]
           Upto(n, g) == g = [i \in 0 .. n |-> IF i = 0 THEN acc
                                               ELSE Declare(g[i - 1], decls[i])]
           T == {n \in Nat : \E g : Upto(n, g)}
<1>1. 0 \in T
  <2> DEFINE g == [i \in 0 .. 0 |-> acc]
  <2>1. Upto(0, g)
    OBVIOUS
  <2> HIDE DEF g, Upto
  <2> QED  BY <2>1
<1>2. ASSUME NEW n \in Nat, NEW g, Upto(n, g)
      PROVE  \E f : Upto(n + 1, f)
  <2> DEFINE f == [i \in 0 .. n + 1 |-> IF i <= n THEN g[i] ELSE Declare(g[n], decls[i])]
  <2>1. \A i \in 0 .. n + 1 : f[i] = IF i = 0 THEN acc ELSE Declare(f[i - 1], decls[i])
    <3> SUFFICES ASSUME NEW i \in 0 .. n + 1
                 PROVE  f[i] = IF i = 0 THEN acc ELSE Declare(f[i - 1], decls[i])
      OBVIOUS
    <3>1. CASE i <= n
      <4>1. i \in 0 .. n /\ f[i] = g[i]
        BY <3>1
      <4>2. i # 0 => i - 1 \in 0 .. n + 1 /\ i - 1 <= n
        BY <3>1
      <4>3. i # 0 => f[i - 1] = g[i - 1]
        BY <4>2
      <4>4. g[i] = IF i = 0 THEN acc ELSE Declare(g[i - 1], decls[i])
        BY <4>1, <1>2
      <4> HIDE DEF f
      <4> QED  BY <4>1, <4>3, <4>4
    <3>2. CASE ~(i <= n)
      <4>1. i = n + 1 /\ i - 1 = n /\ i # 0 /\ n \in 0 .. n + 1 /\ n <= n
        BY <3>2
      <4>2. f[n] = g[n] /\ f[i] = Declare(g[n], decls[i])
        BY <3>2, <4>1
      <4> HIDE DEF f
      <4> QED  BY <4>1, <4>2
    <3> QED  BY <3>1, <3>2
  <2>2. f = [i \in 0 .. n + 1 |-> IF i = 0 THEN acc ELSE Declare(f[i - 1], decls[i])]
    <3>1. f = [i \in 0 .. n + 1 |-> f[i]]
      OBVIOUS
    <3> HIDE DEF f
    <3> QED  BY <3>1, <2>1
  <2>3. Upto(n + 1, f)
    <3> HIDE DEF f
    <3> QED  BY <2>2
  <2> HIDE DEF f, Upto
  <2> QED  BY <2>3
<1>3. \A n \in Nat : n \in T => n + 1 \in T
  <2> HIDE DEF Upto
  <2> QED  BY <1>2
<1>4. Nat \subseteq T
  <2> HIDE DEF T
  <2> QED  BY <1>1, <1>3, Reaches
<1>5. \E g : Fix(g)
  <2>1. \E g : Upto(N, g)
    <3> HIDE DEF Upto
    <3> QED  BY <1>4
  <2> QED  BY <2>1
<1> DEFINE after == CHOOSE g : Fix(g)
<1>6. Fix(after)
  <2> HIDE DEF Fix
  <2> QED  BY <1>5
<1>7. Declared(acc, decls) = after[N]
  BY DEF Declared
<1> HIDE DEF after
<1>8. /\ after[0] = acc
      /\ \A i \in 0 .. N : i # 0 => after[i] = Declare(after[i - 1], decls[i])
  BY <1>6
<1> QED  BY <1>7, <1>8

(***************************************************************************)
(* The declarations a namespace is in the scope of, in the order of the    *)
(* start tags: those of its parent and its own; of a root none.            *)
(***************************************************************************)
Scoped(h, scope) ==
  /\ scope \in [Node -> Seq(Decl)]
  /\ \A b \in InUse(h) :
       /\ scope[b] \in Seq(Decl)
       /\ h[b].m_parent = None =>
            h[b].m_prefix = "" /\ h[b].m_uri = "" /\ scope[b] = <<>>
       /\ h[b].m_parent # None =>
            scope[b] = Append(scope[h[b].m_parent],
                              [prefix |-> h[b].m_prefix, uri |-> h[b].m_uri])

\* The innermost declaration whose prefix the name starts with gives u.
Innermost(s, q, u) ==
  \/ /\ \A j \in DOMAIN s : s[j].prefix \notin Heads[q]
     /\ u = ""
  \/ \E j \in DOMAIN s :
       /\ s[j].prefix \in Heads[q] /\ u = s[j].uri
       /\ \A k \in DOMAIN s : k > j => s[k].prefix \notin Heads[q]

LEMMA UriIsInnermost ==
  ASSUME NEW h, Forest(h), NEW scope, Scoped(h, scope), NEW q \in QName, NEW a \in InUse(h)
  PROVE  Innermost(scope[a], q, UriForPrefix(h, a, q))
<1> DEFINE S == InUse(h)
           up == {b \in S : h[b].m_parent # None}
           par == [b \in S |-> h[b].m_parent]
           T == {b \in S : Innermost(scope[b], q, UriForPrefix(h, b, q))}
<1>1. PICK limit \in Nat : \E rank \in [Node -> Nat] : Ranks(rank, S, up, par)
  BY ForestRanks
<1>2. PICK rank \in [Node -> Nat] : Ranks(rank, S, up, par)
  BY <1>1
<1>3. ASSUME NEW b \in S, b \in up => par[b] \in T
      PROVE  b \in T
  <2> DEFINE p == h[b].m_parent
             d == [prefix |-> h[b].m_prefix, uri |-> h[b].m_uri]
             u == UriForPrefix(h, b, q)
  <2>1. u = IF h[b].m_prefix \in Heads[q] THEN h[b].m_uri
            ELSE IF p = None THEN None
            ELSE UriForPrefix(h, p, q)
    BY UriForPrefixDef
  <2>2. CASE p = None
    <3>1. scope[b] = <<>> /\ u = ""
      BY <2>1, <2>2, HeadsAssumption DEF Scoped
    <3>2. DOMAIN scope[b] = {}
      <4>1. \A x \in Seq({0}) : Len(x) = 0 => DOMAIN x = {}
        OBVIOUS
      <4>2. <<>> \in Seq({0}) /\ Len(<<>>) = 0
        OBVIOUS
      <4> QED  BY <3>1, <4>1, <4>2
    <3> HIDE DEF u
    <3>3. Innermost(scope[b], q, u)
      BY <3>1, <3>2 DEF Innermost
    <3> QED  BY <3>3 DEF u
  <2>3. CASE p # None
    <3> DEFINE s == scope[p]
               N == Len(s)
               v == UriForPrefix(h, p, q)
    <3>1. /\ Innermost(s, q, v) /\ p \in S
      BY <1>3, <2>3
    <3>2. s \in Seq(Decl) /\ scope[b] = Append(s, d) /\ d.prefix = h[b].m_prefix /\ d.uri = h[b].m_uri
      BY <2>3, <3>1 DEF Scoped
    <3>3. /\ N \in Nat /\ DOMAIN s = 1 .. N /\ DOMAIN scope[b] = 1 .. N + 1
          /\ scope[b][N + 1] = d /\ \A j \in 1 .. N : scope[b][j] = s[j]
      BY <3>2
    <3>4. u = IF d.prefix \in Heads[q] THEN d.uri ELSE v
      BY <2>1, <2>3, <3>2
    <3> HIDE DEF s, N, v, u, d
    <3>5. CASE d.prefix \in Heads[q]
      <4>1. /\ N + 1 \in DOMAIN scope[b]
            /\ scope[b][N + 1].prefix \in Heads[q] /\ u = scope[b][N + 1].uri
            /\ \A k \in DOMAIN scope[b] : ~(k > N + 1)
        BY <3>3, <3>4, <3>5
      <4>2. Innermost(scope[b], q, u)
        BY <4>1 DEF Innermost
      <4> QED  BY <4>2 DEF u
    <3>6. CASE d.prefix \notin Heads[q]
      <4>1. u = v /\ \A k \in 1 .. N + 1 : k \in 1 .. N \/ k = N + 1
        BY <3>3, <3>4, <3>6
      <4>2. CASE /\ \A j \in DOMAIN s : s[j].prefix \notin Heads[q]
                 /\ v = ""
        BY <4>1, <4>2, <3>3, <3>6 DEF Innermost, u
      <4>3. CASE \E j \in DOMAIN s :
                   /\ s[j].prefix \in Heads[q] /\ v = s[j].uri
                   /\ \A k \in DOMAIN s : k > j => s[k].prefix \notin Heads[q]
        <5>1. PICK j \in 1 .. N :
                /\ s[j].prefix \in Heads[q] /\ v = s[j].uri
                /\ \A k \in 1 .. N : k > j => s[k].prefix \notin Heads[q]
          BY <4>3, <3>3
        <5>2. /\ j \in DOMAIN scope[b]
              /\ scope[b][j].prefix \in Heads[q] /\ u = scope[b][j].uri
          BY <5>1, <4>1, <3>3
        <5>3. \A k \in DOMAIN scope[b] : k > j => scope[b][k].prefix \notin Heads[q]
          BY <5>1, <4>1, <3>3, <3>6
        <5>4. Innermost(scope[b], q, u)
          BY <5>2, <5>3 DEF Innermost
        <5> QED  BY <5>4 DEF u
      <4> QED  BY <3>1, <4>2, <4>3 DEF Innermost
    <3> QED  BY <3>5, <3>6
  <2> QED  BY <2>2, <2>3
<1>4. S \subseteq T
  <2> HIDE DEF S, up, par, T
  <2>1. \A b \in S : (b \in up => par[b] \in T) => b \in T
    BY <1>3
  <2> QED  BY <1>2, <2>1, RankedClaim
<1> QED  BY <1>4

\* deref frees, and changes the scope of nothing that stays.
LEMMA DerefScoped ==
  ASSUME NEW old, NEW new, Extends(new, old), NEW scope, Scoped(old, scope)
  PROVE  Scoped(new, scope)
BY DEF Extends, Scoped

(***************************************************************************)
(* The scopes of a heap with more namespaces: the old ones as they were,   *)
(* that of the new top as given.                                           *)
(***************************************************************************)
Widened(h, new, a, scope, decls) ==
  \E wider :
    /\ Scoped(new, wider)
    /\ \A b \in InUse(h) : wider[b] = scope[b]
    /\ wider[a] = decls

LEMMA DeclareScoped ==
  ASSUME NEW h, NEW s, NEW top, Declaring(h, s, top), Unused(h) # {}, NEW d \in Decl,
         NEW scope, Scoped(h, scope), top = None => d = RootDecl
  PROVE  LET r == Declare([ns |-> h, top |-> top], d)
         IN  Widened(h, r.ns, r.top, scope, IF top = None THEN <<>> ELSE Append(scope[top], d))
<1> DEFINE r == Declare([ns |-> h, top |-> top], d)
           a == r.top
           new == r.ns
           own == IF top = None THEN <<>> ELSE Append(scope[top], d)
           wider == [scope EXCEPT ![a] = own]
<1>1. Forest(h) /\ h \in Heap /\ InUse(h) \subseteq Node
  BY InUseType DEF Declaring, HeapInv, Forest
<1>2. /\ a \in Unused(h)
      /\ InUse(new) = InUse(h) \cup {a}
      /\ new[a].m_prefix = d.prefix /\ new[a].m_uri = d.uri /\ new[a].m_parent = top
      /\ \A b \in InUse(h) :
           /\ new[b].m_prefix = h[b].m_prefix
           /\ new[b].m_uri = h[b].m_uri
           /\ new[b].m_parent = h[b].m_parent
  BY <1>1, DeclareNodes DEF Declaring
<1>3. /\ a \in Node /\ a \notin InUse(h)
      /\ top # None => top \in InUse(h) /\ top \in Node /\ top # a
  BY <1>1, <1>2 DEF InUse, Unused, Declaring
<1>10. scope \in [Node -> Seq(Decl)]
  BY DEF Scoped
<1> HIDE DEF r, a, new
<1>4. own \in Seq(Decl)
  <2>1. CASE top = None
    BY <2>1
  <2>2. CASE top # None
    <3>1. scope[top] \in Seq(Decl)
      BY <2>2, <1>3, <1>10
    <3> QED  BY <2>2, <3>1
  <2> QED  BY <2>1, <2>2
<1>5. /\ wider \in [Node -> Seq(Decl)] /\ wider[a] = own
      /\ \A b \in Node : b # a => wider[b] = scope[b]
  BY <1>3, <1>4, <1>10
<1> HIDE DEF wider
<1>6. \A b \in InUse(h) : wider[b] = scope[b]
  BY <1>1, <1>3, <1>5
<1>7. ASSUME NEW b \in InUse(new)
      PROVE  /\ wider[b] \in Seq(Decl)
             /\ new[b].m_parent = None =>
                  new[b].m_prefix = "" /\ new[b].m_uri = "" /\ wider[b] = <<>>
             /\ new[b].m_parent # None =>
                  wider[b] = Append(wider[new[b].m_parent],
                                    [prefix |-> new[b].m_prefix, uri |-> new[b].m_uri])
  <2>1. CASE b = a
    <3>1. CASE top = None
      <4>1. d.prefix = "" /\ d.uri = ""
        <5>1. d = RootDecl
          BY <3>1
        <5>2. RootDecl.prefix = "" /\ RootDecl.uri = ""
          BY DEF RootDecl
        <5> QED  BY <5>1, <5>2
      <4>2. wider[b] = <<>> /\ <<>> \in Seq(Decl)
        BY <2>1, <3>1, <1>5
      <4> QED  BY <2>1, <3>1, <4>1, <4>2, <1>2
    <3>2. CASE top # None
      <4>1. d = [prefix |-> new[b].m_prefix, uri |-> new[b].m_uri]
        BY <2>1, <1>2 DEF Decl
      <4>2. wider[b] = Append(scope[top], d) /\ wider[top] = scope[top]
        BY <2>1, <3>2, <1>3, <1>5, <1>6
      <4> QED  BY <2>1, <3>2, <4>1, <4>2, <1>2, <1>4, <1>5
    <3> QED  BY <3>1, <3>2
  <2>2. CASE b # a
    <3>1. b \in InUse(h) /\ wider[b] = scope[b]
      BY <2>2, <1>2, <1>6
    <3>2. h[b].m_parent # None => wider[h[b].m_parent] = scope[h[b].m_parent]
      BY <3>1, <1>1, <1>6 DEF Forest
    <3>3. /\ scope[b] \in Seq(Decl)
          /\ h[b].m_parent = None =>
               h[b].m_prefix = "" /\ h[b].m_uri = "" /\ scope[b] = <<>>
          /\ h[b].m_parent # None =>
               scope[b] = Append(scope[h[b].m_parent],
                                 [prefix |-> h[b].m_prefix, uri |-> h[b].m_uri])
      BY <3>1 DEF Scoped
    <3>4. /\ new[b].m_prefix = h[b].m_prefix /\ new[b].m_uri = h[b].m_uri
          /\ new[b].m_parent = h[b].m_parent
      BY <3>1, <1>2
    <3> QED  BY <3>1, <3>2, <3>3, <3>4
  <2> QED  BY <2>1, <2>2
<1>8. Scoped(new, wider)
  BY <1>5, <1>7 DEF Scoped
<1> HIDE DEF own
<1>9. Widened(h, new, a, scope, own)
  BY <1>5, <1>6, <1>8 DEF Widened
<1> QED  BY <1>9 DEF r, a, new, own

LEMMA DeclaredKeeps ==
  ASSUME NEW h, NEW s, NEW top, Declaring(h, s, top), top # None,
         NEW scope, Scoped(h, scope),
         NEW decls \in Seq(Decl), Cardinality(Unused(h)) >= Len(decls)
  PROVE  LET r == Declared([ns |-> h, top |-> top], decls)
         IN  /\ Declaring(r.ns, s, r.top)
             /\ Extends(h, r.ns)
             /\ r.top # None
             /\ Widened(h, r.ns, r.top, scope, scope[top] \o decls)
<1> DEFINE acc == [ns |-> h, top |-> top]
           N == Len(decls)
           Good(x, i) == /\ Declaring(x.ns, s, x.top) /\ Extends(h, x.ns) /\ x.top # None
                         /\ Cardinality(Unused(h)) = Cardinality(Unused(x.ns)) + i
                         /\ Widened(h, x.ns, x.top, scope, scope[top] \o SubSeq(decls, 1, i))
<1>1. N \in Nat /\ \A i \in 1 .. N : decls[i] \in Decl
  BY ElementOfSeq
<1>2. PICK after :
         /\ Declared(acc, decls) = after[N]
         /\ after[0] = acc
         /\ \A i \in 0 .. N : i # 0 => after[i] = Declare(after[i - 1], decls[i])
  BY <1>1, DeclaredDef
<1>3. Unused(h) \subseteq Node /\ IsFiniteSet(Unused(h)) /\ Cardinality(Unused(h)) \in Nat
  BY NodeAssumption, FS_Subset, FS_CardinalityType DEF Unused
<1>9. scope[top] \in Seq(Decl) /\ top \in Node
  BY InUseType DEF Declaring, HeapInv, Forest, Scoped
<1> DEFINE T == {i \in Nat : i <= N => Good(after[i], i)}
<1>4. 0 \in T
  <2>1. Extends(h, h)
    BY DEF Extends
  <2>2. scope[top] \o SubSeq(decls, 1, 0) = scope[top]
    <3>1. SubSeq(decls, 1, 0) = <<>>
      BY SubSeqEmpty
    <3> QED  BY <3>1, <1>9, ConcatEmptySeq
  <2>3. Widened(h, h, top, scope, scope[top])
    BY DEF Widened
  <2>4. after[0].ns = h /\ after[0].top = top
    BY <1>2
  <2>6. Cardinality(Unused(h)) = Cardinality(Unused(h)) + 0
    BY <1>3
  <2>7. Widened(h, h, top, scope, scope[top] \o SubSeq(decls, 1, 0))
    BY <2>2, <2>3
  <2>5. Good(after[0], 0)
    BY <2>1, <2>4, <2>6, <2>7
  <2> HIDE DEF Good
  <2> QED  BY <2>5
<1>5. ASSUME NEW i \in Nat, i + 1 <= N, Good(after[i], i)
      PROVE  Good(after[i + 1], i + 1)
  <2> DEFINE x == after[i]
             r == Declare([ns |-> x.ns, top |-> x.top], decls[i + 1])
  <2>1. after[i + 1] = Declare(x, decls[i + 1])
    <3>1. i + 1 \in 0 .. N /\ i + 1 # 0 /\ i + 1 - 1 = i
      BY <1>1, <1>5
    <3> QED  BY <3>1, <1>2
  <2>2. after[i + 1] = r
    BY <2>1 DEF Declare
  <2>3. Unused(x.ns) \subseteq Node /\ IsFiniteSet(Unused(x.ns))
        /\ Cardinality(Unused(x.ns)) \in Nat
    BY NodeAssumption, FS_Subset, FS_CardinalityType DEF Unused
  <2>4. Cardinality(Unused(x.ns)) # 0
    BY <1>1, <1>3, <1>5, <2>3
  <2>5. Unused(x.ns) # {} /\ decls[i + 1] \in Decl
    <3>1. i + 1 \in 1 .. N
      BY <1>1, <1>5
    <3> HIDE DEF x
    <3>2. Unused(x.ns) # {}
      BY <2>4, FS_EmptySet
    <3> QED  BY <3>1, <3>2, <1>1
  <2>6. /\ Declaring(r.ns, s, r.top) /\ Extends(x.ns, r.ns) /\ r.top # None
        /\ Cardinality(Unused(x.ns)) = Cardinality(Unused(r.ns)) + 1
    BY <1>5, <2>5, DeclareKeeps
  <2> DEFINE sofar == scope[top] \o SubSeq(decls, 1, i)
  <2>10. Widened(h, r.ns, r.top, scope, Append(sofar, decls[i + 1]))
    <3>1. PICK w :
            /\ Scoped(x.ns, w) /\ \A b \in InUse(h) : w[b] = scope[b]
            /\ w[x.top] = sofar
      BY <1>5 DEF Widened
    <3>2. Declaring(x.ns, s, x.top) /\ x.top # None /\ InUse(h) \subseteq InUse(x.ns)
      BY <1>5 DEF Extends
    <3> DEFINE y == x.ns
               t == x.top
               d == decls[i + 1]
    <3>5. /\ Declaring(y, s, t) /\ Unused(y) # {} /\ d \in Decl
          /\ Scoped(y, w) /\ (t = None => d = RootDecl)
      BY <2>5, <3>1, <3>2
    <3>6. r = Declare([ns |-> y, top |-> t], d)
      OBVIOUS
    <3> HIDE DEF x, y, t, d, r, sofar
    <3>7. Widened(y, r.ns, r.top, w, IF t = None THEN <<>> ELSE Append(w[t], d))
      BY <3>5, <3>6, DeclareScoped
    <3>3. PICK v :
            /\ Scoped(r.ns, v) /\ \A b \in InUse(x.ns) : v[b] = w[b]
            /\ v[r.top] = IF x.top = None THEN <<>> ELSE Append(w[x.top], decls[i + 1])
      BY <3>7 DEF y, t, d, Widened
    <3>4. v[r.top] = Append(sofar, decls[i + 1]) /\ \A b \in InUse(h) : v[b] = scope[b]
      BY <3>1, <3>2, <3>3
    <3> QED  BY <3>3, <3>4 DEF Widened
  <2>11. Append(sofar, decls[i + 1]) = scope[top] \o SubSeq(decls, 1, i + 1)
    <3> DEFINE first == SubSeq(decls, 1, i)
               e == decls[i + 1]
    <3>1. i + 1 \in 1 .. N /\ i + 1 \in 1 .. Len(decls) /\ 1 \in 1 .. N /\ i + 1 - 1 = i
      BY <1>1, <1>5
    <3>2. e \in Decl
      BY <3>1, <1>1
    <3>3. SubSeq(decls, 1, i + 1) = first \o <<e>>
      BY <3>1, SubSeqRecursiveSecond
    <3>4. first \in Seq(Decl)
      <4>1. \A j \in 1 .. i : decls[j] \in Decl
        BY <1>1, <3>1
      <4> QED  BY <4>1, SubSeqProperties
    <3> HIDE DEF first, e
    <3>5. sofar \in Seq(Decl) /\ sofar = scope[top] \o first
      BY <3>4, <1>9, ConcatProperties DEF first
    <3>6. <<e>> \in Seq(Decl)
      BY <3>2
    <3> HIDE DEF sofar
    <3>7. Append(sofar, e) = sofar \o <<e>>
      BY <3>2, <3>5, AppendIsConcat
    <3>8. sofar \o <<e>> = scope[top] \o (first \o <<e>>)
      <4>1. (scope[top] \o first) \o <<e>> = scope[top] \o (first \o <<e>>)
        <5> DEFINE p == scope[top]
                   z == <<e>>
        <5>1. p \in Seq(Decl) /\ first \in Seq(Decl) /\ z \in Seq(Decl)
          BY <3>4, <3>6, <1>9
        <5> HIDE DEF p, z
        <5>2. (p \o first) \o z = p \o (first \o z)
          BY ONLY <5>1, ConcatAssociative
        <5> QED  BY <5>2 DEF p, z
      <4> QED  BY <4>1, <3>5
    <3> QED  BY <3>3, <3>7, <3>8 DEF e
  <2> HIDE DEF x, r, sofar
  <2>7. Extends(h, r.ns)
    BY <2>6, <1>5, ExtendsTransitive DEF x
  <2>8. Unused(r.ns) \subseteq Node /\ Cardinality(Unused(r.ns)) \in Nat
    BY NodeAssumption, FS_Subset, FS_CardinalityType DEF Unused
  <2>9. Cardinality(Unused(h)) = Cardinality(Unused(r.ns)) + (i + 1)
    BY <2>6, <2>8, <2>3, <1>3, <1>5 DEF x
  <2> QED  BY <2>2, <2>6, <2>7, <2>9, <2>10, <2>11
<1>6. \A i \in Nat : i \in T => i + 1 \in T
  <2> SUFFICES ASSUME NEW i \in Nat, i <= N => Good(after[i], i), i + 1 <= N
               PROVE  Good(after[i + 1], i + 1)
    OBVIOUS
  <2>1. i <= N
    BY <1>1
  <2> HIDE DEF Good
  <2> QED  BY <2>1, <1>5
<1>7. Nat \subseteq T
  <2> HIDE DEF T
  <2> QED  BY <1>4, <1>6, Reaches
<1>8. Good(after[N], N)
  <2> HIDE DEF Good
  <2> QED  BY <1>1, <1>7
<1>10. SubSeq(decls, 1, N) = decls
  BY SubSeqFull
<1> QED  BY <1>2, <1>8, <1>10

LEMMA PushKeeps ==
  ASSUME NEW h, NEW s, HeapInv(h, s), AllHeld(h),
         NEW top, top = IF s = <<>> THEN None ELSE Last(s),
         NEW decls \in Seq(Decl), HasRoom(h, decls),
         NEW scope, Scoped(h, scope)
  PROVE  LET r == PushNamespaces(h, top, decls)
         IN  /\ HeapInv(r.ns, Append(s, r.top))
             /\ AllHeld(r.ns)
             /\ Extends(h, r.ns)
             /\ r.top \in InUse(r.ns)
             /\ Widened(h, r.ns, r.top, scope,
                        (IF s = <<>> THEN <<>> ELSE scope[top]) \o decls)
<1>1. /\ Forest(h) /\ s \in Seq(Node) /\ Len(decls) \in Nat
      /\ Cardinality(Unused(h)) \in Nat /\ Unused(h) # {}
      /\ Cardinality(Unused(h)) > Len(decls)
  <2>1. Unused(h) \subseteq Node /\ IsFiniteSet(Unused(h)) /\ Cardinality(Unused(h)) \in Nat
    BY NodeAssumption, FS_Subset, FS_CardinalityType DEF Unused
  <2>2. Len(decls) \in Nat /\ Cardinality(Unused(h)) > Len(decls)
    BY DEF HasRoom
  <2>3. Cardinality(Unused(h)) # 0
    BY <2>1, <2>2
  <2> QED  BY <2>1, <2>2, <2>3, FS_EmptySet DEF HeapInv
<1>2. Declaring(h, s, top)
  <2>1. top = None \/ top \in InUse(h)
    <3>1. CASE s # <<>>
      BY <3>1, <1>1, PlacesPopped DEF HeapInv, Counted
    <3> QED  BY <3>1
  <2> QED  BY <2>1 DEF Declaring, HeldBut, AllHeld
<1> DEFINE basis == Based(h, top)
<1>3. /\ Declaring(basis.ns, s, basis.top) /\ Extends(h, basis.ns) /\ basis.top # None
      /\ Cardinality(Unused(basis.ns)) >= Len(decls)
      /\ basis = [ns |-> basis.ns, top |-> basis.top]
      /\ Widened(h, basis.ns, basis.top, scope, IF top = None THEN <<>> ELSE scope[top])
  <2>1. CASE top = None
    <3> DEFINE r == Declare([ns |-> h, top |-> top], RootDecl)
    <3>1. basis = r
      BY <2>1 DEF Based
    <3>2. RootDecl \in Decl
      BY PrefixAssumption DEF RootDecl, Decl
    <3>3. /\ Declaring(r.ns, s, r.top) /\ Extends(h, r.ns) /\ r.top # None
          /\ Cardinality(Unused(h)) = Cardinality(Unused(r.ns)) + 1
      BY <1>1, <1>2, <3>2, DeclareKeeps
    <3>4. r = [ns |-> r.ns, top |-> r.top]
      BY DEF Declare
    <3>7. Widened(h, r.ns, r.top, scope, IF top = None THEN <<>> ELSE Append(scope[top], RootDecl))
      BY <1>1, <1>2, <3>2, DeclareScoped
    <3> HIDE DEF r, basis
    <3>8. Widened(h, r.ns, r.top, scope, <<>>)
      BY <2>1, <3>7
    <3>5. Unused(r.ns) \subseteq Node /\ Cardinality(Unused(r.ns)) \in Nat
      BY NodeAssumption, FS_Subset, FS_CardinalityType DEF Unused
    <3>6. Cardinality(Unused(r.ns)) >= Len(decls)
      BY <1>1, <3>3, <3>5
    <3> QED  BY <2>1, <3>1, <3>3, <3>4, <3>6, <3>8
  <2>2. CASE top # None
    <3>1. basis = [ns |-> h, top |-> top] /\ basis.ns = h /\ basis.top = top
      BY <2>2 DEF Based
    <3>2. Extends(h, h)
      BY DEF Extends
    <3>3. Widened(h, h, top, scope, scope[top])
      BY DEF Widened
    <3> HIDE DEF basis
    <3> QED  BY <2>2, <3>1, <3>2, <3>3, <1>1, <1>2
  <2> QED  BY <2>1, <2>2
<1> HIDE DEF basis
<1>23. \E after :
         /\ Declared(basis, decls) = after[Len(decls)]
         /\ after[0] = basis
         /\ \A i \in 0 .. Len(decls) :
              i # 0 => after[i] = Declare(after[i - 1], decls[i])
  <2>1. Len(decls) \in Nat
    BY <1>1
  <2> QED  BY ONLY SMTT(60), <2>1, DeclaredDef
<1> DEFINE done == Declared(basis, decls)
           x == done.ns
           a == done.top
           new == WithRef(x, a)
           r == PushNamespaces(h, top, decls)
<1> DEFINE outer == IF top = None THEN <<>> ELSE scope[top]
<1>4. Declaring(x, s, a) /\ Extends(h, x) /\ a # None
      /\ Widened(h, x, a, scope, outer \o decls)
  <2>4. PICK w :
           /\ Scoped(basis.ns, w) /\ \A b \in InUse(h) : w[b] = scope[b]
           /\ w[basis.top] = outer
    BY <1>3 DEF Widened
  <2>1. LET q == Declared([ns |-> basis.ns, top |-> basis.top], decls)
        IN  /\ Declaring(q.ns, s, q.top) /\ Extends(basis.ns, q.ns) /\ q.top # None
            /\ Widened(basis.ns, q.ns, q.top, w, w[basis.top] \o decls)
    BY <1>3, <2>4, DeclaredKeeps
  <2>2. /\ Declaring(x, s, a) /\ Extends(basis.ns, x) /\ a # None
        /\ Widened(basis.ns, x, a, w, outer \o decls)
    BY <2>1, <1>3, <2>4
  <2> HIDE DEF x, a, outer
  <2>3. Widened(h, x, a, scope, outer \o decls)
    <3>1. PICK v :
            /\ Scoped(x, v) /\ \A b \in InUse(basis.ns) : v[b] = w[b]
            /\ v[a] = outer \o decls
      BY <2>2 DEF Widened
    <3>2. InUse(h) \subseteq InUse(basis.ns)
      BY <1>3 DEF Extends
    <3>3. \A b \in InUse(h) : v[b] = scope[b]
      BY <3>1, <3>2, <2>4
    <3> QED  BY <3>1, <3>3 DEF Widened
  <2> QED  BY <2>2, <2>3, <1>3, ExtendsTransitive
<1>5. r.ns = new /\ r.top = a
  <2>1. r = [done EXCEPT !.ns = WithRef(@, done.top)]
    BY DEF PushNamespaces, basis
  <2>2. done \in [ns : {x}, top : {a}]
    <3>1. PICK after :
            /\ Declared(basis, decls) = after[Len(decls)]
            /\ after[0] = basis
            /\ \A i \in 0 .. Len(decls) :
                 i # 0 => after[i] = Declare(after[i - 1], decls[i])
      BY <1>23
    <3>2. done = basis \/ \E y, d : done = Declare(y, d)
      BY <3>1, <1>1
    <3>3. done = [ns |-> x, top |-> a]
      BY <3>2, <1>3 DEF Declare
    <3> HIDE DEF done
    <3> QED  BY <3>3
  <2> HIDE DEF done
  <2> QED  BY <2>1, <2>2
<1> HIDE DEF done, r
<1>6. /\ Forest(x) /\ x \in Heap /\ Counted(x, s) /\ HeldBut(x, a)
      /\ a \in InUse(x) /\ InUse(x) \subseteq Node
      /\ \A b \in Node : b \in InUse(x) <=> x[b] # None
      /\ \A b \in InUse(x) : x[b] \in Namespace /\ x[b].m_ref \in Nat
  BY <1>4, InUseType DEF Declaring, HeapInv, Forest, Namespace
<1>7. /\ [x[a] EXCEPT !.m_ref = @ + 1] \in Namespace
      /\ [x[a] EXCEPT !.m_ref = @ + 1].m_prefix = x[a].m_prefix
      /\ [x[a] EXCEPT !.m_ref = @ + 1].m_uri = x[a].m_uri
      /\ [x[a] EXCEPT !.m_ref = @ + 1].m_parent = x[a].m_parent
      /\ [x[a] EXCEPT !.m_ref = @ + 1].m_ref = x[a].m_ref + 1
  BY <1>6 DEF Namespace
<1>8. /\ new \in Heap
      /\ new[a] = [x[a] EXCEPT !.m_ref = @ + 1]
      /\ \A b \in Node : b # a => new[b] = x[b]
  BY <1>6, <1>7 DEF WithRef, Heap
<1> HIDE DEF new
<1>9. InUse(new) = InUse(x)
  <2>1. new[a] # None
    BY <1>7, <1>8, NullAssumption
  <2>2. \A b \in Node : new[b] # None <=> b \in InUse(x)
    BY <2>1, <1>6, <1>8
  <2> HIDE DEF x
  <2>3. /\ InUse(new) \subseteq Node
        /\ \A b \in Node : b \in InUse(new) <=> new[b] # None
    BY <1>8, InUseType
  <2> QED  BY <2>2, <2>3, <1>6
<1>10. \A b \in InUse(x) :
         /\ new[b].m_prefix = x[b].m_prefix
         /\ new[b].m_uri = x[b].m_uri
         /\ new[b].m_parent = x[b].m_parent
         /\ new[b].m_ref = IF b = a THEN x[b].m_ref + 1 ELSE x[b].m_ref
  <2> SUFFICES ASSUME NEW b \in InUse(x)
               PROVE  /\ new[b].m_prefix = x[b].m_prefix
                      /\ new[b].m_uri = x[b].m_uri
                      /\ new[b].m_parent = x[b].m_parent
                      /\ new[b].m_ref = IF b = a THEN x[b].m_ref + 1 ELSE x[b].m_ref
    OBVIOUS
  <2>1. CASE b = a
    BY <2>1, <1>7, <1>8
  <2>2. CASE b # a
    BY <2>2, <1>6, <1>8
  <2> QED  BY <2>1, <2>2
<1>11. Forest(new)
  <2>1. PICK limit \in Nat : \E rank \in [Node -> 0 .. limit] : Ranked(x, rank)
    BY <1>6 DEF Forest
  <2>2. PICK rank \in [Node -> 0 .. limit] : Ranked(x, rank)
    BY <2>1
  <2>3. Ranked(new, rank)
    BY <2>2, <1>9, <1>10 DEF Ranked
  <2>4. \A b \in InUse(new) : new[b].m_parent # None => new[b].m_parent \in InUse(new)
    BY <1>6, <1>9, <1>10 DEF Forest
  <2> QED  BY <2>2, <2>3, <2>4, <1>8 DEF Forest
<1> DEFINE t == Append(s, a)
<1>12. /\ t \in Seq(Node) /\ Len(s) \in Nat /\ Len(t) = Len(s) + 1
       /\ DOMAIN s = 1 .. Len(s) /\ DOMAIN t = 1 .. Len(s) + 1
       /\ t[Len(s) + 1] = a /\ \A i \in 1 .. Len(s) : t[i] = s[i]
  BY <1>1, <1>6
<1> HIDE DEF t
<1>13. Places(t, a) = Places(s, a) \cup {Len(s) + 1} /\ Len(s) + 1 \notin Places(s, a)
  BY <1>12 DEF Places
<1>14. \A b : b # a => Places(t, b) = Places(s, b)
  BY <1>12 DEF Places
<1>15. ASSUME NEW b \in InUse(new)
       PROVE  new[b].m_ref = Cardinality(Places(t, b)) + Cardinality(Children(new, b))
  <2>1. Children(new, b) = Children(x, b)
    BY <1>9, <1>10 DEF Children
  <2>2. /\ b \in InUse(x)
        /\ x[b].m_ref = Cardinality(Places(s, b)) + Cardinality(Children(x, b))
        /\ IsFiniteSet(Places(s, b)) /\ Cardinality(Places(s, b)) \in Nat
        /\ Cardinality(Children(x, b)) \in Nat
    BY <1>1, <1>6, <1>9, FiniteCounts DEF Counted
  <2>3. CASE b = a
    <3>1. Cardinality(Places(t, b)) = Cardinality(Places(s, b)) + 1
      BY <2>2, <2>3, <1>13, FS_AddElement
    <3> QED  BY <2>1, <2>2, <2>3, <3>1, <1>10
  <2>4. CASE b # a
    BY <2>1, <2>2, <2>4, <1>10, <1>14
  <2> QED  BY <2>3, <2>4
<1>16. HeapInv(new, t)
  <2>1. \A i \in DOMAIN t : t[i] \in InUse(new)
    <3>1. \A i \in 1 .. Len(s) + 1 : i = Len(s) + 1 \/ i \in 1 .. Len(s)
      BY <1>12
    <3> QED  BY <3>1, <1>6, <1>9, <1>12 DEF Counted
  <2> QED  BY <2>1, <1>11, <1>12, <1>15 DEF HeapInv, Counted
<1>17. AllHeld(new)
  BY <1>6, <1>9, <1>10 DEF AllHeld, HeldBut
<1>18. Extends(h, new)
  <2>1. Extends(x, new)
    BY <1>9, <1>10 DEF Extends
  <2> QED  BY <2>1, <1>4, ExtendsTransitive
<1>19. a \in InUse(new)
  BY <1>6, <1>9
<1>21. Widened(h, new, a, scope, outer \o decls)
  <2> HIDE DEF x, a, outer
  <2>1. PICK v :
          /\ Scoped(x, v) /\ \A b \in InUse(h) : v[b] = scope[b]
          /\ v[a] = outer \o decls
    BY <1>4 DEF Widened
  <2>2. Scoped(new, v)
    BY <2>1, <1>9, <1>10 DEF Scoped
  <2> QED  BY <2>1, <2>2 DEF Widened
<1>22. outer = IF s = <<>> THEN <<>> ELSE scope[top]
  <2>1. s # <<>> => Last(s) \in Node
    BY <1>1, PlacesPopped DEF HeapInv, Counted
  <2>2. s # <<>> => top # None
    BY <2>1, NodeAssumption
  <2>3. s = <<>> => top = None
    OBVIOUS
  <2> QED  BY <2>2, <2>3
<1> HIDE DEF x, a, outer
<1> QED  BY <1>5, <1>16, <1>17, <1>18, <1>19, <1>21, <1>22 DEF t, r

(***************************************************************************)
(* What the application has open is what the document has open, as long as *)
(* the application has not stopped the parser, errors or none; so an end   *)
(* it hears of is the end of something.                                    *)
(***************************************************************************)
Unstopped == job.pass = "final" /\ ~m.parserStopped

BalanceInv ==
  phase \in {"reading", "parsing"} /\ Unstopped =>
    /\ lib.stopped => lib.error
    /\ chunk # <<>> \/ ~lib.error => Heard({}, job.doc, chunk \o left, Len(open))

LEMMA BalanceInit == Init => BalanceInv
BY DEF Init, BalanceInv

LEMMA BalanceStart ==
  ASSUME NEW doctype, NEW pass, NEW url, NEW d \in Document, NEW e,
         StartPass(doctype, pass, url, d, e), open' = <<>>
  PROVE  BalanceInv'
<1>1. /\ job' = [doctype |-> doctype, pass |-> pass, url |-> url, doc |-> d, errorHandler |-> e]
      /\ left' = Content[d] /\ chunk' = <<>> /\ lib' = Fresh
  BY DEF StartPass
<1>2. <<>> \o Content[d] = Content[d] /\ Len(<<>>) = 0
  BY ContentType, ConcatEmptySeq
<1>3. Heard({}, d, chunk' \o left', Len(open'))
  BY <1>1, <1>2, HeardStart
<1>4. Heard({}, job.doc, chunk \o left, Len(open))'
  BY <1>1, <1>3
<1> QED  BY <1>1, <1>4 DEF BalanceInv, Fresh

LEMMA BalanceRead ==
  ASSUME WholeInv, BalanceInv, NEW k \in 1 .. Len(left), Read(k)
  PROVE  BalanceInv'
<1>1. /\ phase = "reading" /\ chunk = <<>> /\ left # <<>>
      /\ UNCHANGED <<job, lib, m, open>>
      /\ \/ chunk' \o left' = left
         \/ chunk' \o left' = Tail(left) /\ Head(left).type = "bom"
  BY ReadMoves
<1>2. /\ job.doc \in Document /\ left \in Seq(Events(job.doc)) /\ IsSequence(open)
      /\ ~lib.error
  BY <1>1 DEF WholeInv, InParse, WholeTypes
<1>3. SUFFICES ASSUME Unstopped
               PROVE  /\ lib.stopped => lib.error
                      /\ Heard({}, job.doc, chunk' \o left', Len(open))
  BY <1>1 DEF BalanceInv, Unstopped
<1>4. ~lib.stopped /\ Heard({}, job.doc, left, Len(open))
  BY <1>1, <1>2, <1>3, ConcatEmptySeq DEF BalanceInv
<1>5. Head(left).type = "bom" => Heard({}, job.doc, Tail(left), Len(open))
  BY <1>1, <1>2, <1>4, OpenSequence, HeardNext
<1> QED  BY <1>1, <1>4, <1>5

\* libxml takes one thing from the chunk, and what it then has to stop for is
\* an error, or the application has stopped it.
LEMMA BalanceTaken ==
  ASSUME WholeInv, BalanceInv, NEW type, Calls(type),
         Unstopped' =>
           /\ Unstopped
           /\ UNCHANGED lib \/ lib'.error
           /\ type = "start" => Len(open') = Len(open) + 1
           /\ type = "end" => (Len(open) > 0 => Len(open') = Len(open) - 1)
           /\ type \notin {"start", "end"} => Len(open') = Len(open)
  PROVE  /\ BalanceInv'
         /\ Unstopped /\ type = "end" => Len(open) > 0
<1> DEFINE E == Events(job.doc)
           rest == chunk \o left
<1>1. /\ phase = "parsing" /\ job.pass = "final" /\ chunk # <<>> /\ chunk' = Tail(chunk)
      /\ Head(chunk).type = type
      /\ UNCHANGED <<phase, job, left>>
  BY DEF Calls, Finds, feed
<1>2. job.doc \in Document /\ left \in Seq(E) /\ chunk \in Seq(E) /\ Len(open) \in Nat
  BY <1>1, OpenSequence DEF WholeInv, InParse, WholeTypes
<1>3. /\ rest \in Seq(E) /\ rest # <<>> /\ Head(rest).type = type
      /\ Tail(rest) = chunk' \o left
  BY <1>1, <1>2, TailOfConcat
<1>4. Unstopped => Heard({}, job.doc, rest, Len(open))
  BY <1>1 DEF BalanceInv
<1> HIDE DEF rest
<1>5. Unstopped =>
        /\ type = "start" => Heard({}, job.doc, Tail(rest), Len(open) + 1)
        /\ type = "end" => Len(open) > 0 /\ Heard({}, job.doc, Tail(rest), Len(open) - 1)
        /\ type \notin {"start", "end"} => Heard({}, job.doc, Tail(rest), Len(open))
  BY <1>2, <1>3, <1>4, HeardNext
<1>6. BalanceInv'
  <2>1. SUFFICES ASSUME Unstopped'
                 PROVE  /\ lib'.stopped => lib'.error
                        /\ Heard({}, job.doc, chunk' \o left, Len(open'))
    BY <1>1 DEF BalanceInv
  <2>2. lib'.stopped => lib'.error
    BY <1>1, <2>1 DEF BalanceInv
  <2>3. CASE type = "start"
    BY <2>1, <2>2, <2>3, <1>3, <1>5
  <2>4. CASE type = "end"
    BY <2>1, <2>2, <2>4, <1>3, <1>5
  <2>5. CASE type \notin {"start", "end"}
    BY <2>1, <2>2, <2>5, <1>3, <1>5
  <2> QED  BY <2>3, <2>4, <2>5
<1> QED  BY <1>5, <1>6

\* The end of an element is the end of one that the application has open.
LEMMA EndHasStart ==
  ASSUME WholeInv, BalanceInv, ParseInv, NEW stop \in BOOLEAN, EndElement(stop)
  PROVE  BalanceInv' /\ Len(open) > 0
<1>1. /\ Calls("end") /\ ~m.parserStopped /\ job.pass = "final" /\ phase = "parsing"
      /\ UNCHANGED job
      /\ MayStop(stop) /\ open' = Front(open)
  BY DEF EndElement, ParserStopped, Calls, Finds, feed
<1>2. Len(open) > 0 => Len(open') = Len(open) - 1
  BY <1>1, OpenSequence DEF WholeInv, InParse, WholeTypes
<1>3. Unstopped /\ (Unstopped' => UNCHANGED lib)
  BY <1>1 DEF Unstopped, MayStop, StopParsing, ParseInv, ControlOK, Flags
<1> QED  BY <1>1, <1>2, <1>3, BalanceTaken

LEMMA BalanceLibxml ==
  ASSUME ParseInv, WholeInv, BalanceInv, LibxmlStep
  PROVE  BalanceInv'
<1>0. phase = "parsing" => IsSequence(open)
  BY DEF WholeInv, InParse, WholeTypes
<1>1. CASE CheckChunk
  BY <1>1 DEF CheckChunk, BalanceInv, Unstopped, feed
<1>2. CASE Abandon
  BY <1>2 DEF Abandon, BalanceInv, Unstopped, Halted, feed, heard
<1>3. CASE \E type \in Guarded : Ignored(type)
  BY <1>3 DEF Ignored, BalanceInv, Unstopped, ParserStopped
<1>4. ASSUME NEW stop \in BOOLEAN, StartElement(stop)
      PROVE  BalanceInv'
  <2>1. /\ Calls("start") /\ phase = "parsing" /\ UNCHANGED job
        /\ MayStop(stop)
        /\ \E e : open' = Append(open, e)
    BY <1>4 DEF StartElement, Calls, Finds, feed
  <2>2. Len(open') = Len(open) + 1
    BY <1>0, <2>1, OpenSequence
  <2>3. Unstopped' => Unstopped /\ UNCHANGED lib
    BY <2>1 DEF MayStop, StopParsing, Unstopped, ParseInv, ControlOK, Flags
  <2> QED  BY <2>1, <2>2, <2>3, BalanceTaken
<1>5. ASSUME NEW stop \in BOOLEAN, EndElement(stop)
      PROVE  BalanceInv'
  BY <1>5, EndHasStart
<1>6. ASSUME NEW stop \in BOOLEAN, Characters(stop) \/ Warning(stop)
      PROVE  BalanceInv'
  <2>1. /\ Calls("text") \/ Calls("warning")
        /\ UNCHANGED <<job, open>>
        /\ MayStop(stop) \/ UNCHANGED <<lib, m>>
    BY <1>6 DEF Characters, Warning, Calls, Finds, feed, heard
  <2>2. Unstopped' => Unstopped /\ UNCHANGED lib
    BY <2>1 DEF MayStop, StopParsing, Unstopped, ParseInv, ControlOK, Flags
  <2> QED  BY <2>1, <2>2, BalanceTaken
<1>7. ASSUME NEW stop \in BOOLEAN, Error(stop)
      PROVE  BalanceInv'
  <2>1. /\ Calls("error") /\ UNCHANGED <<job, open>>
        /\ lib'.error /\ (~m'.parserStopped => ~m.parserStopped)
    BY <1>7 DEF Error, Reported, Calls, Finds, feed, heard
  <2> QED  BY <2>1, BalanceTaken DEF Unstopped
<1>8. ASSUME NEW stop \in BOOLEAN, Extra(stop)
      PROVE  BalanceInv'
  BY <1>8 DEF Extra, Reported, BalanceInv
<1> QED
  BY <1>1, <1>2, <1>3, <1>4, <1>5, <1>6, <1>7, <1>8 DEF LibxmlStep

LEMMA BalanceNext == ParseInv /\ WholeInv /\ BalanceInv /\ [Next]_vars => BalanceInv'
<1> SUFFICES ASSUME ParseInv, WholeInv, BalanceInv, [Next]_vars PROVE BalanceInv'
  OBVIOUS
<1>1. CASE UNCHANGED vars
  BY <1>1 DEF BalanceInv, Unstopped, vars
<1>2. CASE Call
  <2>1. CASE \E d \in Document, e \in ErrorHandlers : ParseXml(d, e) \/ ParseHtml(d, e)
    <3>1. PICK d \in Document, e \in ErrorHandlers : ParseXml(d, e) \/ ParseHtml(d, e)
      BY <2>1
    <3>2. /\ open' = <<>>
          /\ StartPass("xml", "final", d, d, e) \/ StartPass("html", "check", d, d, e)
      BY <3>1 DEF ParseXml, ParseHtml, Called
    <3> QED  BY <3>2, BalanceStart
  <2>2. CASE \/ \E d \in Document, e \in ErrorHandlers : RefuseXml(d, e)
             \/ DeleteReader \/ NewReader
    <3>1. phase' \in {"idle", "deleted"}
      BY <2>2 DEF RefuseXml, Called, DeleteReader, NewReader
    <3> QED  BY <3>1 DEF BalanceInv
  <2> QED  BY <1>2, <2>1, <2>2 DEF Call
<1>3. CASE ParseStep
  <2>1. CASE \E k \in 1 .. Len(left) : Read(k)
    BY <2>1, BalanceRead
  <2>2. CASE ReadEnd \/ ReadOnlyMark \/ \E stop \in BOOLEAN : ReadFails(stop)
    <3>1. phase' = "ended"
      BY <2>2 DEF ReadEnd, ReadOnlyMark, ReadFails, Returns
    <3> QED  BY <3>1 DEF BalanceInv
  <2>3. CASE ChunkDone
    BY <2>3 DEF ChunkDone, ChunkReturns, Returns, BalanceInv, Unstopped, feed, heard
  <2> QED  BY <1>3, <2>1, <2>2, <2>3 DEF ParseStep
<1>4. CASE LibxmlStep
  BY <1>4, BalanceLibxml
<1>5. CASE FinishStep
  <2>1. CASE Finish \/ GiveUp \/ RefuseHtml
    <3>1. phase' = "idle"
      BY <2>1 DEF Finish, GiveUp, RefuseHtml
    <3> QED  BY <3>1 DEF BalanceInv
  <2>2. CASE CheckTidied \/ HandleHtml
    <3>1. /\ phase = "ended" /\ job.pass # "final" /\ open' = open
          /\ \E pass, d : /\ d \in {job.url, Tidied[job.url]}
                          /\ StartPass("html", pass, job.url, d, job.errorHandler)
      BY <2>2 DEF CheckTidied, HandleHtml, heard
    <3>2. job.url \in Document /\ Tidied[job.url] \in Document /\ open' = <<>>
      BY <3>1, DocumentAssumption DEF WholeInv, InParse, WholeTypes
    <3> QED  BY <3>1, <3>2, BalanceStart
  <2> QED  BY <1>5, <2>1, <2>2 DEF FinishStep
<1> QED  BY <1>1, <1>2, <1>3, <1>4, <1>5 DEF Next

(***************************************************************************)
(* The inductive invariant of the stack: the counts are right and none is  *)
(* zero, the stack has a place for every element the application has open, *)
(* and from that place the name of the element gives the namespace it was  *)
(* reported with.                                                          *)
(***************************************************************************)
OpenElement == [name : QName, decls : Seq(Decl), uri : Uri \cup {None}]

Resolved ==
  \A i \in 1 .. Len(open) :
    open[i].uri = UriForPrefix(ns, nsStack[base + i], open[i].name)

NamespaceInv ==
  /\ Forest(ns) /\ AllHeld(ns)
  /\ nsStack \in Seq(Node) /\ base \in Nat /\ open \in Seq(OpenElement)
  /\ phase = "deleted" => nsStack = <<>>
  /\ phase # "deleted" =>
       Counted(ns, nsStack) /\ Len(nsStack) = base + Len(open) /\ Resolved

(***************************************************************************)
(* As long as older parses have left nothing on the stack, the namespace   *)
(* at the place of an open element is in the scope of what the elements up *)
(* to it have declared.                                                    *)
(***************************************************************************)
InScope(scope, places) ==
  \A i \in 1 .. Len(open) :
    /\ places[i] \in InUse(ns) /\ scope[places[i]] = Scope(i)
    /\ open[i].uri = UriForPrefix(ns, places[i], open[i].name)

ScopeInv ==
  \E scope, places :
    /\ Scoped(ns, scope)
    /\ phase # "deleted" => places = nsStack
    /\ base = 0 => InScope(scope, places)

LEMMA EmptyHeap ==
  ASSUME NEW h, h = [a \in Node |-> None]
  PROVE  /\ Forest(h) /\ AllHeld(h) /\ Counted(h, <<>>)
         /\ Scoped(h, [a \in Node |-> <<>>])
<1>1. InUse(h) = {}
  BY DEF InUse, Unused
<1>2. Forest(h)
  <2>1. [a \in Node |-> 0] \in [Node -> 0 .. 0] /\ 0 \in Nat
    OBVIOUS
  <2>2. Ranked(h, [a \in Node |-> 0])
    BY <1>1 DEF Ranked
  <2>3. h \in Heap
    BY DEF Heap
  <2> QED  BY <2>1, <2>2, <2>3, <1>1 DEF Forest
<1>3. Scoped(h, [a \in Node |-> <<>>])
  <2>1. [a \in Node |-> <<>>] \in [Node -> Seq(Decl)]
    <3>1. <<>> \in Seq(Decl)
      OBVIOUS
    <3> QED  BY <3>1
  <2> QED  BY <2>1, <1>1 DEF Scoped
<1> QED  BY <1>1, <1>2, <1>3 DEF AllHeld, Counted

LEMMA NamespaceInit == Init => NamespaceInv
<1> SUFFICES ASSUME Init PROVE NamespaceInv
  OBVIOUS
<1>1. /\ ns = [a \in Node |-> None] /\ nsStack = <<>> /\ open = <<>> /\ base = 0
  BY DEF Init
<1>2. nsStack \in Seq(Node) /\ open \in Seq(OpenElement) /\ Len(open) = 0 /\ Len(nsStack) = 0
  BY <1>1
<1>3. Resolved
  BY <1>2 DEF Resolved
<1> QED  BY <1>1, <1>2, <1>3, EmptyHeap DEF NamespaceInv

LEMMA NamespaceStart ==
  ASSUME ParseInv, WholeInv, NamespaceInv, ScopeInv,
         NEW stop \in BOOLEAN, StartElement(stop)
  PROVE  NamespaceInv'
<1> DEFINE name == Head(chunk).name
           decls == Head(chunk).decls
           r == PushNamespaces(ns, XmlNamespaceTop, decls)
           e == [name |-> name, decls |-> decls, uri |-> UriForPrefix(r.ns, r.top, name)]
           N == Len(open)
<1>1. /\ phase = "parsing" /\ chunk # <<>> /\ Head(chunk).type = "start"
      /\ HasRoom(ns, decls)
      /\ ns' = r.ns /\ nsStack' = Append(nsStack, r.top) /\ open' = Append(open, e)
      /\ UNCHANGED <<phase, base>>
  BY DEF StartElement, Calls, Finds, feed
<1>2. name \in QName /\ decls \in Seq(Decl)
  <2>1. job.doc \in Document /\ chunk \in Seq(Events(job.doc))
    BY <1>1 DEF WholeInv, InParse, WholeTypes
  <2>2. Head(chunk) \in Events(job.doc)
    BY <2>1, <1>1
  <2>3. PICK i \in DOMAIN Content[job.doc] : Head(chunk) = Content[job.doc][i]
    BY <2>2 DEF Events
  <2> QED  BY <2>1, <2>3, <1>1, DocumentAssumption
<1>3. /\ HeapInv(ns, nsStack) /\ AllHeld(ns) /\ Forest(ns)
      /\ nsStack \in Seq(Node) /\ base \in Nat /\ open \in Seq(OpenElement)
      /\ Len(nsStack) = base + N /\ Resolved /\ N \in Nat
      /\ \A i \in DOMAIN nsStack : nsStack[i] \in InUse(ns)
  BY <1>1 DEF NamespaceInv, HeapInv, Counted
<1>4. /\ HeapInv(r.ns, Append(nsStack, r.top)) /\ AllHeld(r.ns) /\ Extends(ns, r.ns)
      /\ r.top \in InUse(r.ns)
  <2>1. PICK scope : Scoped(ns, scope)
    BY DEF ScopeInv
  <2> HIDE DEF name, decls
  <2> QED  BY <1>1, <1>2, <1>3, <2>1, PushKeeps DEF XmlNamespaceTop
<1> HIDE DEF name, decls, r
<1>5. /\ Forest(r.ns) /\ Counted(r.ns, Append(nsStack, r.top))
      /\ Append(nsStack, r.top) \in Seq(Node) /\ r.top \in Node
  BY <1>4, InUseType DEF HeapInv, Forest
<1>6. e \in OpenElement
  BY <1>2, <1>4, <1>5, UriForPrefixDef DEF OpenElement
<1> HIDE DEF e
<1>7. /\ open' \in Seq(OpenElement) /\ Len(open') = N + 1
      /\ open'[N + 1] = e /\ \A i \in 1 .. N : open'[i] = open[i]
      /\ nsStack' \in Seq(Node) /\ Len(nsStack') = base + (N + 1)
      /\ nsStack'[base + (N + 1)] = r.top
      /\ \A i \in 1 .. base + N : nsStack'[i] = nsStack[i]
  <2>1. /\ open' \in Seq(OpenElement) /\ Len(open') = N + 1
        /\ open'[N + 1] = e /\ \A i \in 1 .. N : open'[i] = open[i]
    BY <1>1, <1>3, <1>6
  <2> DEFINE M == Len(nsStack)
  <2>2. M \in Nat /\ M = base + N /\ M + 1 = base + (N + 1)
    BY <1>3
  <2>3. /\ nsStack' \in Seq(Node) /\ Len(nsStack') = M + 1
        /\ nsStack'[M + 1] = r.top /\ \A i \in 1 .. M : nsStack'[i] = nsStack[i]
    BY <1>1, <1>3, <1>5
  <2> HIDE DEF M
  <2> QED  BY <2>1, <2>2, <2>3
<1>8. Resolved'
  <2> SUFFICES ASSUME NEW i \in 1 .. N + 1
               PROVE  open'[i].uri = UriForPrefix(r.ns, nsStack'[base + i], open'[i].name)
    BY <1>1, <1>7 DEF Resolved
  <2>1. CASE i = N + 1
    <3>1. open'[i] = e /\ nsStack'[base + i] = r.top
      BY <2>1, <1>7
    <3> QED  BY <3>1 DEF e
  <2>2. CASE i # N + 1
    <3>1. /\ i \in 1 .. N /\ base + i \in 1 .. base + N
          /\ open'[i] = open[i] /\ nsStack'[base + i] = nsStack[base + i]
      <4>1. N \in Nat /\ base \in Nat
        BY <1>3
      <4> HIDE DEF N
      <4>2. i \in 1 .. N /\ base + i \in 1 .. base + N
        BY <2>2, <4>1
      <4> QED  BY <4>2, <1>7
    <3>2. nsStack[base + i] \in InUse(ns) /\ open[i].name \in QName
      <4>1. base + i \in DOMAIN nsStack /\ open[i] \in OpenElement
        BY <3>1, <1>3
      <4> QED  BY <4>1, <1>3 DEF OpenElement
    <3>3. open[i].uri = UriForPrefix(ns, nsStack[base + i], open[i].name)
      BY <3>1, <1>3 DEF Resolved
    <3> QED  BY <3>1, <3>2, <3>3, <1>3, <1>4, <1>5, UriForPrefixKept
  <2> QED  BY <2>1, <2>2
<1> QED  BY <1>1, <1>3, <1>4, <1>5, <1>7, <1>8 DEF NamespaceInv

LEMMA NamespaceEnd ==
  ASSUME ParseInv, WholeInv, BalanceInv, NamespaceInv, NEW stop \in BOOLEAN,
         EndElement(stop)
  PROVE  /\ NamespaceInv'
         /\ closed'.uri = Last(open).uri
         /\ closed' # None
<1> DEFINE N == Len(open)
           new == Deref(ns, Last(nsStack))
<1>1. /\ phase = "parsing"
      /\ closed' = [name |-> Last(open).name, uri |-> EndUri(Last(open).name)]
      /\ open' = Front(open) /\ nsStack' = Front(nsStack)
      /\ ns' = Deref(ns, XmlNamespaceTop)
      /\ UNCHANGED <<phase, base>>
  BY DEF EndElement, Calls, Finds, feed
<1>2. N > 0
  BY EndHasStart
<1>3. /\ HeapInv(ns, nsStack) /\ AllHeld(ns) /\ Forest(ns)
      /\ nsStack \in Seq(Node) /\ base \in Nat /\ open \in Seq(OpenElement)
      /\ Len(nsStack) = base + N /\ Resolved /\ N \in Nat
      /\ \A i \in DOMAIN nsStack : nsStack[i] \in InUse(ns)
  BY <1>1 DEF NamespaceInv, HeapInv, Counted
<1>4. /\ nsStack # <<>> /\ XmlNamespaceTop = Last(nsStack)
      /\ Last(nsStack) = nsStack[base + N]
      /\ Last(open) = open[N] /\ N \in 1 .. N
      /\ base + N \in DOMAIN nsStack
  BY <1>2, <1>3 DEF XmlNamespaceTop, Last
<1>5. closed'.uri = Last(open).uri
  <2>1. closed'.uri = UriForPrefix(ns, Last(nsStack), Last(open).name)
    BY <1>1, <1>4 DEF EndUri
  <2> QED  BY <2>1, <1>3, <1>4 DEF Resolved
<1>6. closed' # None
  <2>1. open[N] \in OpenElement
    BY <1>3, <1>4
  <2>2. open[N].name \in QName /\ nsStack[base + N] \in InUse(ns)
    BY <2>1, <1>3, <1>4 DEF OpenElement
  <2>3. EndUri(Last(open).name) \in Uri \cup {None}
    BY <2>2, <1>3, <1>4, UriForPrefixDef DEF EndUri
  <2> QED  BY <2>2, <2>3, <1>1, <1>4, NoEventAssumption
<1>7. /\ HeapInv(new, Front(nsStack)) /\ AllHeld(new) /\ Extends(new, ns)
  BY <1>3, <1>4, DerefKeeps
<1> HIDE DEF new
<1>8. ns' = new /\ Forest(new) /\ Counted(new, Front(nsStack)) /\ Front(nsStack) \in Seq(Node)
  BY <1>1, <1>4, <1>7 DEF HeapInv, new
<1>9. /\ Len(Front(nsStack)) = base + (N - 1)
      /\ \A i \in DOMAIN Front(nsStack) :
           i \in DOMAIN nsStack /\ Front(nsStack)[i] = nsStack[i]
  <2>1. /\ Len(Front(nsStack)) = Len(nsStack) - 1
        /\ \A i \in DOMAIN Front(nsStack) :
             i \in DOMAIN nsStack /\ Front(nsStack)[i] = nsStack[i]
    BY <1>3, <1>4, PlacesPopped
  <2>2. Len(nsStack) = base + N /\ N \in Nat /\ base \in Nat
    BY <1>3
  <2> HIDE DEF N
  <2>3. Len(nsStack) - 1 = base + (N - 1)
    BY <2>2
  <2> QED  BY <2>1, <2>3
<1>10. /\ open' \in Seq(OpenElement) /\ Len(open') = N - 1
       /\ \A i \in 1 .. N - 1 : open'[i] = open[i]
  <2>1. open' = SubSeq(open, 1, N - 1)
    BY <1>1 DEF Front
  <2>2. N - 1 \in Nat /\ \A i \in 1 .. N - 1 : open[i] \in OpenElement
    BY <1>2, <1>3
  <2>3. /\ open' \in Seq(OpenElement)
        /\ Len(open') = IF 1 <= N - 1 THEN N - 1 - 1 + 1 ELSE 0
        /\ \A i \in 1 .. N - 1 - 1 + 1 : open'[i] = open[1 + i - 1]
    BY <2>1, <2>2, SubSeqProperties
  <2> HIDE DEF N
  <2>4. \A i \in 1 .. N - 1 : i \in 1 .. N - 1 - 1 + 1 /\ 1 + i - 1 = i
    BY <1>3
  <2>5. (IF 1 <= N - 1 THEN N - 1 - 1 + 1 ELSE 0) = N - 1
    BY <1>2, <1>3
  <2> QED  BY <2>3, <2>4, <2>5
<1>11. Resolved'
  <2> SUFFICES ASSUME NEW i \in 1 .. N - 1
               PROVE  open'[i].uri = UriForPrefix(new, nsStack'[base + i], open'[i].name)
    BY <1>1, <1>8, <1>10 DEF Resolved
  <2>1. /\ i \in 1 .. N /\ open'[i] = open[i] /\ open[i].name \in QName
    <3>1. i \in 1 .. N /\ open'[i] = open[i]
      BY <1>3, <1>10
    <3>2. open[i] \in OpenElement
      BY <3>1, <1>3
    <3> QED  BY <3>1, <3>2 DEF OpenElement
  <2>2. base + i \in DOMAIN Front(nsStack)
    <3>1. DOMAIN Front(nsStack) = 1 .. base + (N - 1)
      BY <1>8, <1>9
    <3> QED  BY <3>1, <1>3
  <2>3. Front(nsStack)[base + i] = nsStack[base + i] /\ Front(nsStack)[base + i] \in InUse(new)
    BY <2>2, <1>8, <1>9 DEF Counted
  <2>4. open[i].uri = UriForPrefix(ns, nsStack[base + i], open[i].name)
    BY <2>1, <1>3 DEF Resolved
  <2>5. UriForPrefix(ns, nsStack[base + i], open[i].name)
          = UriForPrefix(new, nsStack[base + i], open[i].name)
    BY <2>1, <2>3, <1>3, <1>7, <1>8, UriForPrefixKept
  <2> QED  BY <2>1, <2>3, <2>4, <2>5, <1>1
<1>12. NamespaceInv'
  BY <1>1, <1>3, <1>7, <1>8, <1>9, <1>10, <1>11 DEF NamespaceInv
<1> QED  BY <1>5, <1>6, <1>12

\* A step that leaves the namespaces and the application's elements alone.
LEMMA NamespaceSame ==
  ASSUME NamespaceInv, UNCHANGED <<ns, nsStack, open, base>>,
         phase = "deleted" <=> phase' = "deleted"
  PROVE  NamespaceInv'
BY DEF NamespaceInv, Resolved

LEMMA NamespaceCall ==
  ASSUME NamespaceInv, Call
  PROVE  NamespaceInv'
<1>1. CASE \E d \in Document, e \in ErrorHandlers :
             ParseXml(d, e) \/ RefuseXml(d, e) \/ ParseHtml(d, e)
  <2>1. /\ phase # "deleted" /\ phase' # "deleted" /\ open' = <<>>
        /\ base' = Len(nsStack) /\ UNCHANGED <<ns, nsStack>>
    BY <1>1 DEF ParseXml, RefuseXml, ParseHtml, StartPass, Called, namespaces
  <2>2. /\ nsStack \in Seq(Node) /\ Len(nsStack) \in Nat /\ <<>> \in Seq(OpenElement)
        /\ Len(<<>>) = 0
    BY DEF NamespaceInv
  <2>3. Len(nsStack') = base' + Len(open') /\ Resolved'
    BY <2>1, <2>2 DEF Resolved
  <2> QED  BY <2>1, <2>2, <2>3 DEF NamespaceInv
<1>2. CASE DeleteReader
  <2>1. /\ phase' = "deleted" /\ nsStack' = <<>> /\ UNCHANGED <<ns, open, base>>
    BY <1>2 DEF DeleteReader, heard, feed
  <2> QED  BY <2>1 DEF NamespaceInv
<1>3. CASE NewReader
  <2>1. /\ phase = "deleted" /\ phase' = "idle" /\ ns' = [a \in Node |-> None]
        /\ open' = <<>> /\ base' = 0 /\ nsStack' = nsStack
    BY <1>3 DEF NewReader
  <2>2. /\ nsStack = <<>> /\ <<>> \in Seq(OpenElement) /\ Len(<<>>) = 0
        /\ <<>> \in Seq(Node)
    BY <2>1 DEF NamespaceInv
  <2>3. Len(nsStack') = base' + Len(open') /\ Resolved'
    BY <2>1, <2>2 DEF Resolved
  <2> QED  BY <2>1, <2>2, <2>3, EmptyHeap DEF NamespaceInv
<1> QED  BY <1>1, <1>2, <1>3 DEF Call

\* Only calls and the handlers of tags touch the namespaces or what is open.
LEMMA NamespaceSteps ==
  ASSUME [Next]_vars
  PROVE  \/ Call \/ \E stop \in BOOLEAN : StartElement(stop) \/ EndElement(stop)
         \/ /\ UNCHANGED <<ns, nsStack, open, base>>
            /\ phase = "deleted" <=> phase' = "deleted"
<1>1. CASE UNCHANGED vars
  BY <1>1 DEF vars
<1>2. CASE Call
  BY <1>2
<1>3. CASE ParseStep
  BY <1>3 DEF ParseStep, Read, ReadEnd, ReadOnlyMark, ReadFails, ChunkDone, Returns, feed, namespaces, heard
<1>4. CASE LibxmlStep
  <2>1. CASE \/ CheckChunk \/ Abandon \/ \E type \in Guarded : Ignored(type)
             \/ \E stop \in BOOLEAN :
                  Characters(stop) \/ Warning(stop) \/ Error(stop) \/ Extra(stop)
    BY <2>1 DEF CheckChunk, Abandon, Ignored, Characters, Warning, Error, Extra,
                Calls, Finds, feed, namespaces, heard
  <2> QED  BY <1>4, <2>1 DEF LibxmlStep
<1>5. CASE FinishStep
  BY <1>5 DEF FinishStep, Finish, CheckTidied, GiveUp, HandleHtml, RefuseHtml, StartPass,
              feed, namespaces, heard
<1> QED  BY <1>1, <1>2, <1>3, <1>4, <1>5 DEF Next

LEMMA NamespaceNext ==
  ParseInv /\ WholeInv /\ BalanceInv /\ NamespaceInv /\ ScopeInv /\ [Next]_vars
    => NamespaceInv'
<1> SUFFICES ASSUME ParseInv, WholeInv, BalanceInv, NamespaceInv, ScopeInv, [Next]_vars
             PROVE  NamespaceInv'
  OBVIOUS
<1>1. CASE Call
  BY <1>1, NamespaceCall
<1>2. CASE \E stop \in BOOLEAN : StartElement(stop)
  BY <1>2, NamespaceStart
<1>3. CASE \E stop \in BOOLEAN : EndElement(stop)
  BY <1>3, NamespaceEnd
<1>4. CASE /\ UNCHANGED <<ns, nsStack, open, base>>
           /\ phase = "deleted" <=> phase' = "deleted"
  BY <1>4, NamespaceSame
<1> QED  BY <1>1, <1>2, <1>3, <1>4, NamespaceSteps

\* FlattenSeq by its loop.
LEMMA FlattenDef ==
  ASSUME NEW seqs, NEW n \in Nat, n # 0, Len(seqs) = n
  PROVE  \E after :
           /\ FlattenSeq(seqs) = after[n]
           /\ after[1] = seqs[1]
           /\ \A i, k \in 1 .. n : i = k + 1 => after[i] = after[k] \o seqs[i]
<1> DEFINE Fix(g) == g = [i \in 1 .. n |-> IF i = 1 THEN seqs[i] ELSE g[i - 1] \o seqs[i]]
           Upto(k, g) == g = [i \in 1 .. k |-> IF i = 1 THEN seqs[i] ELSE g[i - 1] \o seqs[i]]
           T == {k \in Nat : \E g : Upto(k, g)}
<1>1. 0 \in T
  <2> DEFINE g == [i \in 1 .. 0 |-> seqs[i]]
  <2>1. \A i \in 1 .. 0 : i = 1
    OBVIOUS
  <2>2. Upto(0, g)
    BY <2>1
  <2> HIDE DEF g, Upto
  <2> QED  BY <2>2
<1>2. ASSUME NEW k \in Nat, NEW g, Upto(k, g)
      PROVE  \E f : Upto(k + 1, f)
  <2> DEFINE f == [i \in 1 .. k + 1 |-> IF i <= k THEN g[i]
                                        ELSE IF i = 1 THEN seqs[i] ELSE g[k] \o seqs[i]]
  <2>1. \A i \in 1 .. k + 1 : f[i] = IF i = 1 THEN seqs[i] ELSE f[i - 1] \o seqs[i]
    <3> SUFFICES ASSUME NEW i \in 1 .. k + 1
                 PROVE  f[i] = IF i = 1 THEN seqs[i] ELSE f[i - 1] \o seqs[i]
      OBVIOUS
    <3>1. CASE i <= k
      <4>1. i \in 1 .. k /\ f[i] = g[i]
        BY <3>1
      <4>2. i # 1 => i - 1 \in 1 .. k + 1 /\ i - 1 <= k
        BY <3>1
      <4>3. i # 1 => f[i - 1] = g[i - 1]
        BY <4>2
      <4>4. g[i] = IF i = 1 THEN seqs[i] ELSE g[i - 1] \o seqs[i]
        BY <4>1, <1>2
      <4> HIDE DEF f
      <4> QED  BY <4>1, <4>3, <4>4
    <3>2. CASE ~(i <= k)
      <4>1. i = k + 1 /\ i - 1 = k /\ (i # 1 => k \in 1 .. k + 1) /\ k <= k
        BY <3>2
      <4>2. /\ i # 1 => f[k] = g[k]
            /\ f[i] = IF i = 1 THEN seqs[i] ELSE g[k] \o seqs[i]
        BY <3>2, <4>1
      <4> HIDE DEF f
      <4> QED  BY <4>1, <4>2
    <3> QED  BY <3>1, <3>2
  <2>2. f = [i \in 1 .. k + 1 |-> IF i = 1 THEN seqs[i] ELSE f[i - 1] \o seqs[i]]
    <3>1. f = [i \in 1 .. k + 1 |-> f[i]]
      OBVIOUS
    <3> HIDE DEF f
    <3> QED  BY <2>1, <3>1
  <2>3. Upto(k + 1, f)
    <3> HIDE DEF f
    <3> QED  BY <2>2
  <2> HIDE DEF f, Upto
  <2> QED  BY <2>3
<1>3. \A k \in Nat : k \in T => k + 1 \in T
  <2> HIDE DEF Upto
  <2> QED  BY <1>2
<1>4. Nat \subseteq T
  <2> HIDE DEF T
  <2> QED  BY <1>1, <1>3, Reaches
<1>5. \E g : Fix(g)
  <2>1. \E g : Upto(n, g)
    <3> HIDE DEF Upto
    <3> QED  BY <1>4
  <2> QED  BY <2>1
<1> DEFINE after == CHOOSE g : Fix(g)
<1>6. Fix(after)
  <2> HIDE DEF Fix
  <2> QED  BY <1>5
<1>7. FlattenSeq(seqs) = after[n]
  BY DEF FlattenSeq
<1> HIDE DEF after
<1>8. \A i \in 1 .. n : after[i] = IF i = 1 THEN seqs[i] ELSE after[i - 1] \o seqs[i]
  BY <1>6, Zenon
<1>9. 1 \in 1 .. n
  OBVIOUS
<1>10. after[1] = seqs[1]
  BY <1>8, <1>9, Zenon
<1>11. \A i \in 1 .. n : i # 1 => after[i] = after[i - 1] \o seqs[i]
  BY <1>8, Zenon
<1>12. \A i, k \in 1 .. n : i = k + 1 => i # 1 /\ i - 1 = k
  OBVIOUS
<1>13. \A i, k \in 1 .. n : i = k + 1 => after[i] = after[k] \o seqs[i]
  BY <1>11, <1>12, Zenon
<1> QED  BY <1>7, <1>10, <1>13

\* One more element brings its own declarations behind those before.
LEMMA FlattenGrows ==
  ASSUME NEW o, NEW n \in Nat, \A j \in 1 .. n + 1 : o[j].decls \in Seq(Decl)
  PROVE  FlattenSeq([j \in 1 .. n + 1 |-> o[j].decls])
           = IF n = 0 THEN o[1].decls
             ELSE FlattenSeq([j \in 1 .. n |-> o[j].decls]) \o o[n + 1].decls
<1> DEFINE long == [j \in 1 .. n + 1 |-> o[j].decls]
           short == [j \in 1 .. n |-> o[j].decls]
<1>1. /\ Len(long) = n + 1 /\ Len(short) = n
      /\ \A j \in 1 .. n + 1 : long[j] = o[j].decls
      /\ \A j \in 1 .. n : short[j] = o[j].decls
  <2>1. \A k \in Nat : \A f \in [1 .. k -> Seq(Decl)] : Len(f) = k
    OBVIOUS
  <2>2. long \in [1 .. n + 1 -> Seq(Decl)] /\ short \in [1 .. n -> Seq(Decl)]
    OBVIOUS
  <2> HIDE DEF long, short
  <2>3. Len(long) = n + 1 /\ Len(short) = n
    BY <2>1, <2>2
  <2> QED  BY <2>3 DEF long, short
<1> HIDE DEF long, short
<1>2. PICK after :
        /\ FlattenSeq(long) = after[n + 1]
        /\ after[1] = long[1]
        /\ \A i, k \in 1 .. n + 1 : i = k + 1 => after[i] = after[k] \o long[i]
  <2>1. n + 1 \in Nat /\ n + 1 # 0
    OBVIOUS
  <2> QED  BY <1>1, <2>1, FlattenDef
<1>3. CASE n = 0
  BY <1>1, <1>2, <1>3 DEF long
<1>4. CASE n # 0
  <2>1. PICK before :
          /\ FlattenSeq(short) = before[n]
          /\ before[1] = short[1]
          /\ \A i, k \in 1 .. n : i = k + 1 => before[i] = before[k] \o short[i]
    BY <1>1, <1>4, FlattenDef
  <2> DEFINE T == {i \in Nat : i \in 1 .. n => after[i] = before[i]}
  <2>2. 0 \in T
    OBVIOUS
  <2>3. ASSUME NEW i \in Nat, i \in T PROVE i + 1 \in T
    <3> SUFFICES ASSUME i + 1 \in 1 .. n PROVE after[i + 1] = before[i + 1]
      OBVIOUS
    <3>1. long[i + 1] = short[i + 1] /\ i + 1 \in 1 .. n + 1
      BY <1>1
    <3>2. CASE i = 0
      BY <3>1, <3>2, <1>2, <2>1
    <3>3. CASE i # 0
      <4>1. i \in 1 .. n /\ i \in 1 .. n + 1 /\ i + 1 \in 1 .. n
        BY <3>3
      <4>2. after[i] = before[i]
        BY <4>1, <2>3
      <4>3. after[i + 1] = after[i] \o long[i + 1]
        BY <3>1, <4>1, <1>2, Zenon
      <4>4. before[i + 1] = before[i] \o short[i + 1]
        BY <4>1, <2>1, Zenon
      <4> QED  BY <3>1, <4>2, <4>3, <4>4
    <3> QED  BY <3>2, <3>3
  <2>4. Nat \subseteq T
    <3> HIDE DEF T
    <3> QED  BY <2>2, <2>3, Reaches
  <2>5. n \in 1 .. n /\ n \in 1 .. n + 1 /\ n + 1 \in 1 .. n + 1
    BY <1>4
  <2>6. after[n] = before[n]
    BY <2>4, <2>5
  <2>7. after[n + 1] = after[n] \o long[n + 1]
    BY <2>5, <1>2, Zenon
  <2> QED  BY <1>1, <1>2, <1>4, <2>1, <2>5, <2>6, <2>7 DEF long, short
<1> QED  BY <1>3, <1>4 DEF long, short

\* For a name that starts with no prefix in scope but its own, the innermost
\* declaration whose prefix the name starts with is the last of that prefix.
LEMMA InnermostIsLast ==
  ASSUME NEW s \in Seq(Decl), NEW q \in QName, NEW u, Innermost(s, q, u),
         \A j \in DOMAIN s : s[j].prefix \in Heads[q] => s[j].prefix = PrefixOf[q]
  PROVE  LET here == {j \in DOMAIN s : s[j].prefix = PrefixOf[q]}
         IN  u = IF here = {} THEN "" ELSE s[Max(here)].uri
<1> DEFINE here == {j \in DOMAIN s : s[j].prefix = PrefixOf[q]}
<1>1. \A j \in DOMAIN s : s[j].prefix \in Heads[q] <=> j \in here
  BY PrefixOfAssumption
<1>2. here \subseteq Nat /\ here \subseteq DOMAIN s
  OBVIOUS
<1> HIDE DEF here
<1>3. CASE \A j \in DOMAIN s : s[j].prefix \notin Heads[q]
  <2>1. here = {}
    BY <1>1, <1>2, <1>3
  <2> QED  BY <2>1, <1>3 DEF here, Innermost
<1>4. CASE \E j \in DOMAIN s :
             /\ s[j].prefix \in Heads[q] /\ u = s[j].uri
             /\ \A k \in DOMAIN s : k > j => s[k].prefix \notin Heads[q]
  <2>1. PICK j \in DOMAIN s :
          /\ s[j].prefix \in Heads[q] /\ u = s[j].uri
          /\ \A k \in DOMAIN s : k > j => s[k].prefix \notin Heads[q]
    BY <1>4
  <2>2. j \in here /\ j \in Nat /\ \A k \in here : k \in Nat /\ ~(k > j)
    BY <2>1, <1>1, <1>2
  <2>3. \A k \in here : j >= k
    BY <2>2
  <2>4. PICK m1 \in here : m1 = Max(here) /\ \A k \in here : m1 >= k
    BY <2>2, <2>3 DEF Max
  <2>5. m1 = j
    BY <2>2, <2>3, <2>4
  <2> QED  BY <2>1, <2>2, <2>4, <2>5 DEF here
<1> QED  BY <1>3, <1>4 DEF Innermost

LEMMA ScopeInit == Init => ScopeInv
<1> SUFFICES ASSUME Init PROVE ScopeInv
  OBVIOUS
<1>1. ns = [a \in Node |-> None] /\ open = <<>> /\ Len(open) = 0
  BY DEF Init
<1>2. Scoped(ns, [a \in Node |-> <<>>])
  BY <1>1, EmptyHeap
<1>3. InScope([a \in Node |-> <<>>], nsStack)
  BY <1>1 DEF InScope
<1> QED  BY <1>2, <1>3 DEF ScopeInv

LEMMA ScopeCall ==
  ASSUME ScopeInv, NamespaceInv, Call
  PROVE  ScopeInv'
<1>1. PICK scope, places :
        /\ Scoped(ns, scope)
        /\ phase # "deleted" => places = nsStack
        /\ base = 0 => InScope(scope, places)
  BY DEF ScopeInv
<1>2. CASE \E d \in Document, e \in ErrorHandlers :
             ParseXml(d, e) \/ RefuseXml(d, e) \/ ParseHtml(d, e)
  <2>1. open' = <<>> /\ Len(open') = 0 /\ UNCHANGED <<ns, nsStack>>
    BY <1>2 DEF ParseXml, RefuseXml, ParseHtml, StartPass, Called, namespaces
  <2>2. InScope(scope, nsStack)'
    BY <2>1 DEF InScope
  <2> QED  BY <1>1, <2>1, <2>2 DEF ScopeInv
<1>3. CASE DeleteReader
  <2>1. phase' = "deleted" /\ UNCHANGED <<ns, open, base>>
    BY <1>3 DEF DeleteReader, heard, feed
  <2>2. InScope(scope, places) => InScope(scope, places)'
    BY <2>1 DEF InScope, Scope
  <2> QED  BY <1>1, <2>1, <2>2 DEF ScopeInv
<1>4. CASE NewReader
  <2>1. ns' = [a \in Node |-> None] /\ open' = <<>> /\ Len(open') = 0
    BY <1>4 DEF NewReader
  <2>2. Scoped(ns', [a \in Node |-> <<>>])
    BY <2>1, EmptyHeap
  <2>3. PICK now : now = nsStack'
    OBVIOUS
  <2>4. InScope([a \in Node |-> <<>>], now)'
    BY <2>1 DEF InScope
  <2> QED  BY <2>2, <2>3, <2>4 DEF ScopeInv
<1> QED  BY <1>2, <1>3, <1>4 DEF Call

LEMMA ScopeStart ==
  ASSUME ParseInv, WholeInv, NamespaceInv, NamespaceInv', ScopeInv,
         NEW stop \in BOOLEAN, StartElement(stop)
  PROVE  ScopeInv'
<1> DEFINE decls == Head(chunk).decls
           name == Head(chunk).name
           r == PushNamespaces(ns, XmlNamespaceTop, decls)
           e == [name |-> name, decls |-> decls, uri |-> UriForPrefix(r.ns, r.top, name)]
           M == Len(nsStack)
<1>9. PICK n : n = Len(open)
  OBVIOUS
<1>1. /\ phase = "parsing" /\ phase' = "parsing" /\ chunk # <<>>
      /\ Head(chunk).type = "start" /\ HasRoom(ns, decls)
      /\ ns' = r.ns /\ nsStack' = Append(nsStack, r.top) /\ open' = Append(open, e)
      /\ base' = base
  BY DEF StartElement, Calls, Finds, feed
<1>2. decls \in Seq(Decl) /\ name \in QName
  <2>1. job.doc \in Document /\ chunk \in Seq(Events(job.doc))
    BY <1>1 DEF WholeInv, InParse, WholeTypes
  <2>2. Head(chunk) \in Events(job.doc)
    BY <2>1, <1>1
  <2>3. PICK i \in DOMAIN Content[job.doc] : Head(chunk) = Content[job.doc][i]
    BY <2>2 DEF Events
  <2> QED  BY <2>1, <2>3, <1>1, DocumentAssumption
<1>3. /\ HeapInv(ns, nsStack) /\ AllHeld(ns)
      /\ nsStack \in Seq(Node) /\ base \in Nat /\ open \in Seq(OpenElement)
      /\ M = base + n /\ n \in Nat /\ M \in Nat /\ n = Len(open)
      /\ \A i \in DOMAIN nsStack : nsStack[i] \in InUse(ns)
  BY <1>1, <1>9 DEF NamespaceInv, HeapInv, Counted
<1>4. PICK scope, places :
        /\ Scoped(ns, scope)
        /\ places = nsStack
        /\ base = 0 => InScope(scope, places)
  BY <1>1 DEF ScopeInv
<1> HIDE DEF name, decls
<1>5. /\ r.top \in InUse(r.ns)
      /\ Widened(ns, r.ns, r.top, scope,
                 (IF nsStack = <<>> THEN <<>> ELSE scope[XmlNamespaceTop]) \o decls)
  BY <1>1, <1>2, <1>3, <1>4, PushKeeps DEF XmlNamespaceTop
<1> HIDE DEF r
<1>6. PICK wider :
        /\ Scoped(ns', wider) /\ \A b \in InUse(ns) : wider[b] = scope[b]
        /\ wider[r.top] = (IF nsStack = <<>> THEN <<>> ELSE scope[XmlNamespaceTop]) \o decls
  BY <1>1, <1>5 DEF Widened
<1>7. ASSUME base = 0
      PROVE  \A i \in 1 .. Len(open') : wider[nsStack'[i]] = Scope(i)'
  <2>1. InScope(scope, nsStack) /\ M = n /\ n = Len(open)
    BY <1>3, <1>4, <1>7
  <2>2. /\ Len(open') = n + 1 /\ open'[n + 1].decls = decls
        /\ \A i \in 1 .. n : open'[i] = open[i]
        /\ \A i \in 1 .. n + 1 : open'[i].decls \in Seq(Decl)
    <3>1. e \in OpenElement /\ e.decls = decls
      <4>1. open' \in Seq(OpenElement) /\ Len(open') \in Nat
        BY DEF NamespaceInv
      <4>2. Len(open') = n + 1 /\ open'[n + 1] = e
        BY <1>1, <1>3
      <4>3. e.decls = decls
        OBVIOUS
      <4> HIDE DEF e
      <4>4. n + 1 \in 1 .. Len(open')
        BY <4>2, <1>3
      <4>5. open'[n + 1] \in OpenElement
        BY <4>1, <4>4, ElementOfSeq
      <4> QED  BY <4>2, <4>3, <4>5
    <3> HIDE DEF e
    <3>2. /\ open' \in Seq(OpenElement) /\ Len(open') = n + 1 /\ open'[n + 1] = e
          /\ \A i \in 1 .. n : open'[i] = open[i]
      BY <1>1, <1>3, <3>1
    <3>3. \A i \in 1 .. n + 1 : open'[i] \in OpenElement
      BY <3>2
    <3> QED  BY <3>1, <3>2, <3>3 DEF OpenElement
  <2>3. /\ nsStack'[n + 1] = r.top
        /\ \A i \in 1 .. n : nsStack'[i] = nsStack[i] /\ nsStack[i] \in InUse(ns)
    <3>1. r.top \in Node
      BY <1>1, <1>5, InUseType DEF NamespaceInv, Forest
    <3>2. DOMAIN nsStack = 1 .. n
      BY <2>1, <1>3
    <3>3. nsStack \in Seq(Node) /\ Len(nsStack) = n /\ n \in Nat
      BY <2>1, <1>3
    <3>4. /\ Append(nsStack, r.top)[n + 1] = r.top
          /\ \A i \in 1 .. n : Append(nsStack, r.top)[i] = nsStack[i]
      BY <3>1, <3>3
    <3>5. \A i \in 1 .. n : nsStack[i] \in InUse(ns)
      BY <3>2, <1>3
    <3> QED  BY <3>4, <3>5, <1>1
  <2>4. Scope(n + 1)' = (IF n = 0 THEN <<>> ELSE Scope(n)) \o decls
    <3>1. Scope(n + 1)' = FlattenSeq([j \in 1 .. n + 1 |-> open'[j].decls])
      BY DEF Scope
    <3>2. Scope(n) = FlattenSeq([j \in 1 .. n |-> open'[j].decls])
      <4>1. [j \in 1 .. n |-> open'[j].decls] = [j \in 1 .. n |-> open[j].decls]
        BY <2>2
      <4> QED  BY <4>1 DEF Scope
    <3>3. n = 0 => <<>> \o decls = decls
      BY <1>2, ConcatEmptySeq
    <3> DEFINE o == open'
    <3>4. n \in Nat /\ \A i \in 1 .. n + 1 : o[i].decls \in Seq(Decl)
      BY <1>3, <2>2
    <3> HIDE DEF o
    <3>5. FlattenSeq([j \in 1 .. n + 1 |-> o[j].decls])
            = IF n = 0 THEN o[1].decls
              ELSE FlattenSeq([j \in 1 .. n |-> o[j].decls]) \o o[n + 1].decls
      BY <3>4, FlattenGrows
    <3>6. n = 0 => o[1].decls = decls
      BY <2>2 DEF o
    <3> QED  BY <3>1, <3>2, <3>3, <3>5, <3>6, <2>2 DEF o
  <2>5. XmlNamespaceTop = IF n = 0 THEN None ELSE nsStack[n]
    BY <2>1, <1>3 DEF XmlNamespaceTop, Last
  <2>6. nsStack = <<>> <=> n = 0
    BY <2>1, <1>3
  <2>7. wider[nsStack'[n + 1]] = Scope(n + 1)'
    <3>1. n # 0 => scope[nsStack[n]] = Scope(n)
      <4>1. n # 0 => n \in 1 .. n
        BY <1>3
      <4> QED  BY <4>1, <2>1 DEF InScope
    <3> QED  BY <3>1, <2>3, <2>4, <2>5, <2>6, <1>6
  <2>8. ASSUME NEW i \in 1 .. n PROVE wider[nsStack'[i]] = Scope(i)'
    <3>1. [j \in 1 .. i |-> open'[j].decls] = [j \in 1 .. i |-> open[j].decls]
      <4>1. \A j \in 1 .. i : open'[j] = open[j]
        BY <2>2, <1>3
      <4> QED  BY <4>1
    <3>2. Scope(i)' = Scope(i)
      BY <3>1 DEF Scope
    <3>3. wider[nsStack'[i]] = scope[nsStack[i]]
      BY <2>3, <1>6
    <3> QED  BY <3>2, <3>3, <2>1 DEF InScope
  <2>9. \A i \in 1 .. n + 1 : i = n + 1 \/ i \in 1 .. n
    BY <1>3
  <2> QED  BY <2>2, <2>7, <2>8, <2>9
<1>8. PICK now : now = nsStack'
  OBVIOUS
<1>10. ASSUME base = 0 PROVE InScope(wider, now)'
  <2>1. /\ Resolved' /\ Counted(ns', nsStack')
        /\ Len(nsStack') = Len(open') /\ nsStack' \in Seq(Node)
    BY <1>1, <1>10 DEF NamespaceInv
  <2>2. ASSUME NEW i \in 1 .. Len(open')
        PROVE  /\ now[i] \in InUse(ns') /\ wider[now[i]] = Scope(i)'
               /\ open'[i].uri = UriForPrefix(ns', now[i], open'[i].name)
    <3>1. base' + i = i /\ i \in DOMAIN nsStack'
      BY <2>1, <1>1, <1>10
    <3>2. open'[i].uri = UriForPrefix(ns', nsStack'[i], open'[i].name)
      BY <2>1, <3>1 DEF Resolved
    <3> QED  BY <2>1, <3>1, <3>2, <1>7, <1>8, <1>10 DEF Counted
  <2> QED  BY <2>2 DEF InScope
<1> QED  BY <1>1, <1>6, <1>8, <1>10 DEF ScopeInv

LEMMA ScopeEnd ==
  ASSUME ParseInv, WholeInv, BalanceInv, NamespaceInv, NamespaceInv', ScopeInv,
         NEW stop \in BOOLEAN, EndElement(stop)
  PROVE  ScopeInv'
<1>1. /\ phase = "parsing" /\ phase' = "parsing"
      /\ open' = Front(open) /\ nsStack' = Front(nsStack)
      /\ ns' = Deref(ns, XmlNamespaceTop)
      /\ base' = base
  BY DEF EndElement, Calls, Finds, feed
<1>2. Len(open) > 0
  BY EndHasStart
<1>3. PICK n : n = Len(open)
  OBVIOUS
<1>4. /\ HeapInv(ns, nsStack) /\ AllHeld(ns)
      /\ nsStack \in Seq(Node) /\ base \in Nat /\ open \in Seq(OpenElement)
      /\ Len(nsStack) = base + n /\ n \in Nat /\ n > 0
  BY <1>1, <1>2, <1>3 DEF NamespaceInv, HeapInv
<1>5. PICK scope, places :
        /\ Scoped(ns, scope)
        /\ places = nsStack
        /\ base = 0 => InScope(scope, places)
  BY <1>1 DEF ScopeInv
<1>6. nsStack # <<>> /\ XmlNamespaceTop = Last(nsStack)
  BY <1>4 DEF XmlNamespaceTop
<1>7. Extends(ns', ns)
  BY <1>1, <1>4, <1>6, DerefKeeps
<1>8. Scoped(ns', scope)
  BY <1>5, <1>7, DerefScoped
<1>9. /\ open' \in Seq(OpenElement) /\ Len(open') = n - 1
      /\ \A i \in 1 .. n - 1 : open'[i] = open[i]
  <2>1. open' = SubSeq(open, 1, n - 1)
    BY <1>1, <1>3 DEF Front
  <2>2. n - 1 \in Nat /\ \A i \in 1 .. n - 1 : open[i] \in OpenElement
    BY <1>3, <1>4
  <2>3. /\ open' \in Seq(OpenElement)
        /\ Len(open') = IF 1 <= n - 1 THEN n - 1 - 1 + 1 ELSE 0
        /\ \A i \in 1 .. n - 1 - 1 + 1 : open'[i] = open[1 + i - 1]
    BY <2>1, <2>2, SubSeqProperties
  <2>4. \A i \in 1 .. n - 1 : i \in 1 .. n - 1 - 1 + 1 /\ 1 + i - 1 = i
    BY <1>4
  <2>5. (IF 1 <= n - 1 THEN n - 1 - 1 + 1 ELSE 0) = n - 1
    BY <1>4
  <2> QED  BY <2>3, <2>4, <2>5
<1>10. /\ Len(nsStack') = Len(nsStack) - 1
       /\ \A i \in DOMAIN nsStack' : i \in DOMAIN nsStack /\ nsStack'[i] = nsStack[i]
  BY <1>1, <1>4, <1>6, PlacesPopped
<1>11. PICK now : now = nsStack'
  OBVIOUS
<1>12. ASSUME base = 0 PROVE InScope(scope, now)'
  <2>1. /\ Resolved' /\ Counted(ns', nsStack')
        /\ Len(nsStack') = Len(open') /\ nsStack' \in Seq(Node)
    BY <1>1, <1>12 DEF NamespaceInv
  <2>2. ASSUME NEW i \in 1 .. Len(open')
        PROVE  /\ now[i] \in InUse(ns') /\ scope[now[i]] = Scope(i)'
               /\ open'[i].uri = UriForPrefix(ns', now[i], open'[i].name)
    <3>1. base' + i = i /\ i \in DOMAIN nsStack' /\ i \in 1 .. n - 1 /\ i \in 1 .. n
      BY <2>1, <1>1, <1>4, <1>9, <1>12
    <3>2. open'[i].uri = UriForPrefix(ns', nsStack'[i], open'[i].name)
      BY <2>1, <3>1 DEF Resolved
    <3>3. [j \in 1 .. i |-> open'[j].decls] = [j \in 1 .. i |-> open[j].decls]
      <4>1. \A j \in 1 .. i : open'[j] = open[j]
        BY <3>1, <1>4, <1>9
      <4> QED  BY <4>1
    <3>4. Scope(i)' = Scope(i)
      BY <3>3 DEF Scope
    <3>5. scope[nsStack[i]] = Scope(i)
      BY <3>1, <1>3, <1>5, <1>12 DEF InScope
    <3> QED  BY <2>1, <3>1, <3>2, <3>4, <3>5, <1>10, <1>11 DEF Counted
  <2> QED  BY <2>2 DEF InScope
<1> QED  BY <1>1, <1>8, <1>11, <1>12 DEF ScopeInv

LEMMA ScopeNext ==
  ParseInv /\ WholeInv /\ BalanceInv /\ NamespaceInv /\ ScopeInv /\ [Next]_vars => ScopeInv'
<1> SUFFICES ASSUME ParseInv, WholeInv, BalanceInv, NamespaceInv, ScopeInv, [Next]_vars
             PROVE  ScopeInv'
  OBVIOUS
<1>1. CASE Call
  BY <1>1, ScopeCall
<1>2. CASE \E stop \in BOOLEAN : StartElement(stop)
  BY <1>2, NamespaceNext, ScopeStart
<1>3. CASE \E stop \in BOOLEAN : EndElement(stop)
  BY <1>3, NamespaceNext, ScopeEnd
<1>4. CASE /\ UNCHANGED <<ns, nsStack, open, base>>
           /\ phase = "deleted" <=> phase' = "deleted"
  <2>1. PICK scope, places :
          /\ Scoped(ns, scope)
          /\ phase # "deleted" => places = nsStack
          /\ base = 0 => InScope(scope, places)
    BY DEF ScopeInv
  <2>2. InScope(scope, places) => InScope(scope, places)'
    BY <1>4 DEF InScope, Scope
  <2>3. /\ Scoped(ns', scope)
        /\ phase' # "deleted" => places = nsStack'
        /\ base' = 0 => InScope(scope, places)'
    BY <1>4, <2>1, <2>2
  <2> QED  BY <2>3 DEF ScopeInv
<1> QED  BY <1>1, <1>2, <1>3, <1>4, NamespaceSteps

ReaderInv == ParseInv /\ WholeInv /\ BalanceInv /\ NamespaceInv /\ ScopeInv

LEMMA ReaderInvariant == Spec => []ReaderInv
<1>1. Init => ReaderInv
  BY ParseInit, WholeInit, BalanceInit, NamespaceInit, ScopeInit DEF ReaderInv
<1>2. ReaderInv /\ [Next]_vars => ReaderInv'
  BY ParseNext, WholeNext, BalanceNext, NamespaceNext, ScopeNext DEF ReaderInv
<1> QED  BY <1>1, <1>2, PTL DEF Spec

\* For documents of any depth and with any declarations: the reference count of
\* a namespace is the number of its places on the stack and of the namespaces
\* declared in its scope, so deref frees it with the last of both and never
\* before; and the stack is as high as the elements that the application has
\* open say, on top of what older parses have left.
THEOREM RefCountsCorrect == Spec => []RefCounts
<1>1. ReaderInv => RefCounts
  BY DEF ReaderInv, NamespaceInv, Counted, Forest, Places, Children, RefCounts
<1> QED  BY <1>1, ReaderInvariant, PTL

\* For documents of any depth and with any declarations: an element is reported
\* with the namespace of the innermost declaration of its prefix, redeclared or
\* not and after any number of elements that came and went, whenever its name
\* starts with no other prefix in scope and the stack was empty at the call.
THEOREM ScopedUriCorrect == Spec => []ScopedUri
<1>1. ReaderInv => ScopedUri
  <2> SUFFICES ASSUME ReaderInv, base = 0, NEW i \in DOMAIN open, Unambiguous(i)
               PROVE  open[i].uri = DeclaredUri(i)
    BY DEF ScopedUri
  <2>1. PICK scope, places : Scoped(ns, scope) /\ InScope(scope, places)
    BY DEF ReaderInv, ScopeInv
  <2>2. open \in Seq(OpenElement) /\ Forest(ns)
    BY DEF ReaderInv, NamespaceInv
  <2>3. i \in 1 .. Len(open) /\ open[i] \in OpenElement
    BY <2>2
  <2>4. /\ places[i] \in InUse(ns) /\ scope[places[i]] = Scope(i)
        /\ open[i].uri = UriForPrefix(ns, places[i], open[i].name)
    BY <2>1, <2>3 DEF InScope
  <2> DEFINE q == open[i].name
             s == Scope(i)
  <2>5. q \in QName /\ s \in Seq(Decl)
    BY <2>1, <2>3, <2>4 DEF OpenElement, Scoped
  <2>6. Innermost(s, q, open[i].uri)
    BY <2>1, <2>2, <2>4, <2>5, UriIsInnermost
  <2>7. \A j \in DOMAIN s : s[j].prefix \in Heads[q] => s[j].prefix = PrefixOf[q]
    BY DEF Unambiguous
  <2> HIDE DEF s, q
  <2>8. LET here == {j \in DOMAIN s : s[j].prefix = PrefixOf[q]}
        IN  open[i].uri = IF here = {} THEN "" ELSE s[Max(here)].uri
    BY <2>5, <2>6, <2>7, InnermostIsLast
  <2> QED  BY <2>8 DEF DeclaredUri, s, q
<1> QED  BY <1>1, ReaderInvariant, PTL

\* For every document: the end of an element is reported with the namespace of
\* its start, whatever was declared in between, shadowed or freed, and whatever
\* older parses have left on the stack.
THEOREM EndReportsStartCorrect == Spec => EndReportsStart
<1> DEFINE SameNamespace == phase = "parsing" /\ Len(open') < Len(open) =>
                          closed' # None /\ closed'.uri = Last(open).uri
<1>1. ReaderInv /\ [Next]_vars => SameNamespace
  <2> SUFFICES ASSUME ReaderInv, [Next]_vars, phase = "parsing", Len(open') < Len(open)
               PROVE  closed' # None /\ closed'.uri = Last(open).uri
    OBVIOUS
  <2>1. open \in Seq(OpenElement) /\ Len(open) \in Nat
    BY DEF ReaderInv, NamespaceInv
  <2>2. open' # open
    BY <2>1
  <2>3. CASE \E stop \in BOOLEAN : EndElement(stop)
    BY <2>3, NamespaceEnd DEF ReaderInv
  <2>4. CASE \E stop \in BOOLEAN : StartElement(stop)
    <3>1. \E e : open' = Append(open, e)
      BY <2>4 DEF StartElement
    <3>2. Len(open') = Len(open) + 1
      BY <3>1, <2>1, OpenSequence DEF IsSequence
    <3> QED  BY <3>2, <2>1
  <2>5. ~Call /\ ~FinishStep
    BY DEF Call, ParseXml, RefuseXml, ParseHtml, Called, DeleteReader, NewReader,
           FinishStep, Finish, CheckTidied, GiveUp, HandleHtml, RefuseHtml
  <2>6. ParseStep => open' = open
    BY DEF ParseStep, Read, ReadEnd, ReadOnlyMark, ReadFails, ChunkDone, Returns, heard
  <2>7. \/ CheckChunk \/ Abandon \/ \E type \in Guarded : Ignored(type)
        \/ \E stop \in BOOLEAN :
             Characters(stop) \/ Warning(stop) \/ Error(stop) \/ Extra(stop)
        => open' = open
    BY DEF CheckChunk, Abandon, Ignored, Characters, Warning, Error, Extra, heard
  <2> QED  BY <2>2, <2>3, <2>4, <2>5, <2>6, <2>7 DEF Next, LibxmlStep, vars
<1> QED  BY <1>1, ReaderInvariant, PTL DEF Spec, EndReportsStart

(***************************************************************************)
(* Types.  What libxml has and what the stream has are rests of the text.  *)
(***************************************************************************)
RestInv ==
  job.doc # None =>
    /\ job.doc \in Document
    /\ left \in Seq(Events(job.doc)) /\ chunk \in Seq(Events(job.doc))
    /\ \E n \in 0 .. Len(Content[job.doc]) : left = Rest(job.doc, n)
    /\ \E n \in 0 .. Len(Content[job.doc]) : chunk \o left = Rest(job.doc, n)

LEMMA RestOf ==
  ASSUME NEW d \in Document, NEW n \in 0 .. Len(Content[d])
  PROVE  /\ Rest(d, n) \in Seq(Events(d))
         /\ Len(Rest(d, n)) = Len(Content[d]) - n
         /\ Rest(d, 0) = Content[d]
<1>1. Len(Content[d]) \in Nat /\ DOMAIN Content[d] = 1 .. Len(Content[d])
  BY ContentType
<1> DEFINE N == Len(Content[d])
<1>2. N - n \in Nat /\ \A i \in 1 .. N - n : n + i \in 1 .. N
  BY <1>1
<1>3. \A i \in 1 .. N - n : Content[d][n + i] \in Events(d)
  BY <1>1, <1>2 DEF Events
<1>4. Rest(d, n) \in [1 .. N - n -> Events(d)]
  BY <1>3 DEF Rest
<1> HIDE DEF N
<1>5. Rest(d, n) \in Seq(Events(d)) /\ Len(Rest(d, n)) = N - n
  BY <1>2, <1>4
<1> QED  BY <1>5, ContentType DEF N, Rest

LEMMA RestIsSuffix ==
  ASSUME NEW d \in Document, NEW n \in 0 .. Len(Content[d])
  PROVE  IsSuffix(Rest(d, n), Content[d])
<1> DEFINE N == Len(Content[d])
           r == Rest(d, n)
           front == Reverse(r)
           all == Reverse(Content[d])
<1>1. N \in Nat /\ n \in Nat /\ n <= N /\ N - n \in Nat
  BY ContentType
<1>2. Len(r) = N - n
  BY RestOf
<1>3. front = [i \in 1 .. N - n |-> r[N - n - i + 1]]
  BY <1>2 DEF Reverse
<1>4. all = [i \in 1 .. N |-> Content[d][N - i + 1]]
  BY DEF Reverse
<1>5. \A i \in 1 .. N - n : r[i] = Content[d][n + i]
  BY DEF Rest
<1> HIDE DEF N, r, front, all
<1>6. Len(front) = N - n /\ Len(all) = N
  <2>1. DOMAIN front = 1 .. N - n /\ DOMAIN all = 1 .. N
    BY <1>3, <1>4
  <2>2. /\ front \in [1 .. N - n -> {front[i] : i \in 1 .. N - n}]
        /\ all \in [1 .. N -> {all[i] : i \in 1 .. N}]
    BY <1>3, <1>4
  <2>3. \A S : \A k \in Nat : \A f \in [1 .. k -> S] : Len(f) = k
    OBVIOUS
  <2> QED  BY <1>1, <2>2, <2>3
<1>7. ASSUME NEW i \in 1 .. N - n
      PROVE  front[i] = all[i]
  <2>1. /\ N - n - i + 1 \in 1 .. N - n /\ i \in 1 .. N
        /\ n + (N - n - i + 1) = N - i + 1
    BY <1>1
  <2>2. front[i] = r[N - n - i + 1]
    BY <1>3
  <2>3. r[N - n - i + 1] = Content[d][n + (N - n - i + 1)]
    BY <2>1, <1>5
  <2>4. all[i] = Content[d][N - i + 1]
    BY <2>1, <1>4
  <2> QED  BY <2>1, <2>2, <2>3, <2>4
<1>8. SubSeq(front, 1, N - n) = SubSeq(all, 1, N - n)
  <2>1. \A i \in 1 .. N - n : front[i] \in {front[j] : j \in 1 .. N - n}
    OBVIOUS
  <2> DEFINE S == {front[j] : j \in 1 .. N - n}
  <2>2. \A i \in 1 .. N - n : front[i] \in S /\ all[i] \in S
    BY <2>1, <1>7
  <2> HIDE DEF S
  <2>3. /\ SubSeq(front, 1, N - n) \in Seq(S) /\ SubSeq(all, 1, N - n) \in Seq(S)
        /\ Len(SubSeq(front, 1, N - n)) = Len(SubSeq(all, 1, N - n))
        /\ \A i \in 1 .. N - n - 1 + 1 :
             SubSeq(front, 1, N - n)[i] = front[1 + i - 1]
        /\ \A i \in 1 .. N - n - 1 + 1 :
             SubSeq(all, 1, N - n)[i] = all[1 + i - 1]
        /\ Len(SubSeq(front, 1, N - n)) = IF 1 <= N - n THEN N - n - 1 + 1 ELSE 0
    BY <2>2, <1>1, SubSeqProperties
  <2>4. \A i \in 1 .. Len(SubSeq(front, 1, N - n)) :
          /\ i \in 1 .. N - n - 1 + 1 /\ 1 + i - 1 = i /\ i \in 1 .. N - n
    BY <2>3, <1>1
  <2>5. \A i \in 1 .. Len(SubSeq(front, 1, N - n)) :
          SubSeq(front, 1, N - n)[i] = SubSeq(all, 1, N - n)[i]
    BY <2>3, <2>4, <1>7
  <2> QED  BY <2>3, <2>5, SeqEqual
<1>9. Len(front) <= Len(all) /\ SubSeq(front, 1, Len(front)) = SubSeq(all, 1, Len(front))
  BY <1>1, <1>6, <1>8
<1> QED  BY <1>9 DEF IsSuffix, IsPrefix, front, all, r

LEMMA RestBehind ==
  ASSUME NEW d \in Document, NEW n \in 0 .. Len(Content[d]),
         NEW k \in 1 .. Len(Rest(d, n))
  PROVE  /\ n + k \in 0 .. Len(Content[d])
         /\ SubSeq(Rest(d, n), k + 1, Len(Rest(d, n))) = Rest(d, n + k)
<1> DEFINE N == Len(Content[d])
           r == Rest(d, n)
           q == Rest(d, n + k)
           s == SubSeq(r, k + 1, N - n)
<1>1. N \in Nat /\ n \in Nat /\ n <= N /\ r \in Seq(Events(d)) /\ Len(r) = N - n
  BY ContentType, RestOf
<1>2. n + k \in 0 .. N /\ k \in Nat /\ k >= 1
  BY <1>1
<1>3. q \in Seq(Events(d)) /\ Len(q) = N - (n + k)
  BY <1>2, RestOf
<1>4. /\ \A i \in 1 .. N - n : r[i] = Content[d][n + i]
      /\ \A i \in 1 .. N - (n + k) : q[i] = Content[d][n + k + i]
  BY DEF Rest
<1>5. \A i \in k + 1 .. N - n : r[i] \in Events(d)
  <2>1. \A i \in 1 .. N - n : r[i] \in Events(d)
    BY <1>1, ElementOfSeq
  <2> QED  BY <1>2, <2>1
<1> HIDE DEF N, r, q
<1>6. /\ s \in Seq(Events(d))
      /\ Len(s) = IF k + 1 <= N - n THEN N - n - (k + 1) + 1 ELSE 0
      /\ \A i \in 1 .. N - n - (k + 1) + 1 : s[i] = r[k + 1 + i - 1]
  BY <1>1, <1>2, <1>5, SubSeqProperties
<1> HIDE DEF s
<1>7. Len(s) = Len(q)
  BY <1>1, <1>2, <1>3, <1>6
<1>8. \A i \in 1 .. Len(s) : s[i] = q[i]
  <2> SUFFICES ASSUME NEW i \in 1 .. Len(s) PROVE s[i] = q[i]
    OBVIOUS
  <2>1. /\ i \in 1 .. N - n - (k + 1) + 1 /\ i \in 1 .. N - (n + k)
        /\ k + 1 + i - 1 = k + i /\ k + i \in 1 .. N - n /\ n + (k + i) = n + k + i
    BY <1>1, <1>2, <1>3, <1>7
  <2>2. s[i] = r[k + i] /\ r[k + i] = Content[d][n + (k + i)]
    BY <2>1, <1>4, <1>6
  <2> QED  BY <2>1, <2>2, <1>4
<1>9. s = q
  BY <1>3, <1>6, <1>7, <1>8, SeqEqual
<1> QED  BY <1>1, <1>2, <1>9 DEF s, r, q, N

LEMMA RestInit == Init => RestInv
BY DEF Init, RestInv, NoJob

\* A pass that starts, or a call that is refused, has the whole text before it.
LEMMA RestStart ==
  ASSUME NEW d \in Document, job'.doc = d, left' = Content[d], chunk' = <<>>
  PROVE  RestInv'
<1>1. /\ 0 \in 0 .. Len(Content[d]) /\ Content[d] = Rest(d, 0)
      /\ <<>> \o Content[d] = Content[d]
      /\ Content[d] \in Seq(Events(d)) /\ <<>> \in Seq(Events(d))
  BY ContentType, RestOf, ConcatEmptySeq
<1>2. \E n \in 0 .. Len(Content[d]) : Content[d] = Rest(d, n)
  BY <1>1
<1>3. /\ job'.doc \in Document
      /\ left' \in Seq(Events(job'.doc)) /\ chunk' \in Seq(Events(job'.doc))
      /\ \E n \in 0 .. Len(Content[job'.doc]) : left' = Rest(job'.doc, n)
      /\ \E n \in 0 .. Len(Content[job'.doc]) : chunk' \o left' = Rest(job'.doc, n)
  BY <1>1, <1>2
<1>4. (/\ job.doc \in Document
       /\ left \in Seq(Events(job.doc)) /\ chunk \in Seq(Events(job.doc))
       /\ \E n \in 0 .. Len(Content[job.doc]) : left = Rest(job.doc, n)
       /\ \E n \in 0 .. Len(Content[job.doc]) : chunk \o left = Rest(job.doc, n))'
  BY <1>3
<1> QED  BY <1>4 DEF RestInv

LEMMA RestRead ==
  ASSUME WholeInv, RestInv, NEW k \in 1 .. Len(left), Read(k)
  PROVE  RestInv'
<1> DEFINE d == job.doc
           N == Len(Content[d])
<1>1. /\ phase = "reading" /\ chunk = <<>> /\ left # <<>> /\ UNCHANGED job
      /\ chunk' \in Seq(Events(d)) /\ left' \in Seq(Events(d))
      /\ \/ chunk' \o left' = left
         \/ chunk' \o left' = Tail(left) /\ Head(left).type = "bom"
      /\ left' = SubSeq(left, k + 1, Len(left))
  BY ReadMoves DEF Read
<1>2. d \in Document /\ d # None /\ left \in Seq(Events(d))
  BY <1>1, DocumentAssumption DEF WholeInv, InParse, WholeTypes
<1>3. PICK n \in 0 .. N : left = Rest(d, n)
  BY <1>2 DEF RestInv
<1>4. n + k \in 0 .. N /\ left' = Rest(d, n + k)
  BY <1>1, <1>2, <1>3, RestBehind
<1>5. Tail(left) = Rest(d, n + 1)
  BY <1>1, <1>2, <1>3, RestNext
<1>6. n + 1 \in 0 .. N
  BY <1>2, <1>4, ContentType
<1>7. \E j \in 0 .. N : chunk' \o left' = Rest(d, j)
  BY <1>1, <1>3, <1>5, <1>6
<1>8. \E j \in 0 .. N : left' = Rest(d, j)
  <2> DEFINE next == n + k
  <2> HIDE DEF next
  <2> QED  BY <1>4 DEF next
<1> HIDE DEF d, N
<1>9. (/\ d \in Document
       /\ left \in Seq(Events(d)) /\ chunk \in Seq(Events(d))
       /\ \E j \in 0 .. N : left = Rest(d, j)
       /\ \E j \in 0 .. N : chunk \o left = Rest(d, j))'
  BY <1>1, <1>2, <1>7, <1>8 DEF d, N
<1> QED  BY <1>9 DEF RestInv, d, N

\* The byte order mark alone: what comes behind it is the next rest.
LEMMA RestMark ==
  ASSUME WholeInv, RestInv, ReadOnlyMark
  PROVE  RestInv'
<1> DEFINE d == job.doc
           N == Len(Content[d])
<1>1. /\ phase = "reading" /\ left # <<>> /\ left = Content[d] /\ left' = Tail(left)
      /\ UNCHANGED <<job, chunk>>
  BY DEF ReadOnlyMark, OnlyMark
<1>2. chunk = <<>> /\ d \in Document /\ left \in Seq(Events(d))
  BY <1>1 DEF WholeInv, InParse, WholeTypes
<1>3. /\ left' \in Seq(Events(d)) /\ N \in Nat /\ N # 0
  BY <1>1, <1>2, HeadTailProperties, ContentType, EmptySeq
<1>4. 0 \in 0 .. N /\ 1 \in 0 .. N /\ left = Rest(d, 0)
  BY <1>1, <1>2, <1>3, RestOf
<1>5. left' = Rest(d, 1)
  BY <1>1, <1>2, <1>4, RestNext
<1>6. <<>> \o left' = left'
  BY <1>3, ConcatEmptySeq
<1> HIDE DEF d, N
<1>7. (/\ d \in Document
       /\ left \in Seq(Events(d)) /\ chunk \in Seq(Events(d))
       /\ \E j \in 0 .. N : left = Rest(d, j)
       /\ \E j \in 0 .. N : chunk \o left = Rest(d, j))'
  BY <1>1, <1>2, <1>3, <1>4, <1>5, <1>6, EmptySeq DEF d, N
<1> QED  BY <1>7 DEF RestInv, d, N

\* libxml takes one thing from the chunk, or throws the chunk away.
LEMMA RestTaken ==
  ASSUME RestInv, UNCHANGED <<job, left>>,
         chunk' = <<>> \/ (chunk # <<>> /\ chunk' = Tail(chunk))
  PROVE  RestInv'
<1> DEFINE d == job.doc
           N == Len(Content[d])
<1> SUFFICES ASSUME d # None
             PROVE  /\ chunk' \in Seq(Events(d))
                    /\ \E n \in 0 .. N : chunk' \o left = Rest(d, n)
  <2>1. d # None => (/\ d \in Document /\ left \in Seq(Events(d))
                     /\ \E n \in 0 .. N : left = Rest(d, n))
    BY DEF RestInv
  <2> QED  BY <2>1 DEF RestInv, Events, Rest
<1>1. d \in Document /\ left \in Seq(Events(d)) /\ chunk \in Seq(Events(d))
  BY DEF RestInv
<1>2. CASE chunk' = <<>>
  <2>1. chunk' \o left = left /\ chunk' \in Seq(Events(d))
    BY <1>1, <1>2, ConcatEmptySeq
  <2> QED  BY <2>1 DEF RestInv
<1>3. CASE chunk # <<>> /\ chunk' = Tail(chunk)
  <2> DEFINE rest == chunk \o left
  <2>1. /\ chunk' \in Seq(Events(d)) /\ rest \in Seq(Events(d)) /\ rest # <<>>
        /\ chunk' \o left = Tail(rest)
    BY <1>1, <1>3, TailOfConcat, HeadTailProperties
  <2>2. PICK n \in 0 .. N : rest = Rest(d, n)
    BY DEF RestInv
  <2>3. Tail(rest) = Rest(d, n + 1)
    BY <1>1, <2>1, <2>2, RestNext
  <2>4. n + 1 \in 0 .. N
    <3>1. Len(rest) = N - n /\ N \in Nat /\ n \in Nat
      BY <1>1, <2>2, RestOf, ContentType
    <3> HIDE DEF rest, N
    <3>2. Len(rest) \in Nat /\ Len(rest) # 0
      BY <2>1, EmptySeq
    <3> QED  BY <3>1, <3>2
  <2> DEFINE next == n + 1
  <2> HIDE DEF next, N, rest
  <2>5. next \in 0 .. N /\ chunk' \o left = Rest(d, next)
    BY <2>1, <2>3, <2>4 DEF next
  <2> QED  BY <2>1, <2>5
<1> QED  BY <1>2, <1>3

LEMMA RestSame ==
  ASSUME RestInv, UNCHANGED <<job, left, chunk>>
  PROVE  RestInv'
BY DEF RestInv, Events, Rest

LEMMA RestCall ==
  ASSUME RestInv, Call
  PROVE  RestInv'
<1>1. CASE \E d \in Document, e \in ErrorHandlers :
             ParseXml(d, e) \/ RefuseXml(d, e) \/ ParseHtml(d, e)
  <2>1. PICK d \in Document, e \in ErrorHandlers :
             ParseXml(d, e) \/ RefuseXml(d, e) \/ ParseHtml(d, e)
    BY <1>1
  <2>2. job'.doc = d /\ left' = Content[d] /\ chunk' = <<>>
    BY <2>1 DEF ParseXml, RefuseXml, ParseHtml, StartPass
  <2> QED  BY <2>2, RestStart
<1>2. CASE DeleteReader
  BY <1>2, RestSame DEF DeleteReader, feed
<1>3. CASE NewReader
  BY <1>3 DEF NewReader, NoJob, RestInv
<1> QED  BY <1>1, <1>2, <1>3 DEF Call

LEMMA RestLibxml ==
  ASSUME RestInv, LibxmlStep
  PROVE  RestInv'
<1>1. CASE CheckChunk \/ Abandon \/ \E stop \in BOOLEAN : Extra(stop)
  BY <1>1, RestTaken DEF CheckChunk, Abandon, Extra, Finds, feed
<1>2. CASE \E type \in Guarded : Ignored(type)
  BY <1>2, RestTaken DEF Ignored, Calls, Finds, feed
<1>3. CASE \E stop \in BOOLEAN : StartElement(stop)
  BY <1>3, RestTaken DEF StartElement, Calls, Finds, feed
<1>4. CASE \E stop \in BOOLEAN : EndElement(stop)
  BY <1>4, RestTaken DEF EndElement, Calls, Finds, feed
<1>5. CASE \E stop \in BOOLEAN : Characters(stop) \/ Warning(stop) \/ Error(stop)
  BY <1>5, RestTaken DEF Characters, Warning, Error, Calls, Finds, feed
<1> QED  BY <1>1, <1>2, <1>3, <1>4, <1>5 DEF LibxmlStep

LEMMA RestStep == WholeInv /\ RestInv /\ [Next]_vars => RestInv'
<1> SUFFICES ASSUME WholeInv, RestInv, [Next]_vars PROVE RestInv'
  OBVIOUS
<1>1. CASE UNCHANGED vars
  BY <1>1, RestSame DEF vars
<1>2. CASE ParseStep
  <2>1. CASE \E k \in 1 .. Len(left) : Read(k)
    BY <2>1, RestRead
  <2>2. CASE ReadEnd \/ ChunkDone \/ \E stop \in BOOLEAN : ReadFails(stop)
    BY <2>2, RestSame DEF ReadEnd, ReadFails, ChunkDone, Returns, feed
  <2>3. CASE ReadOnlyMark
    BY <2>3, RestMark
  <2> QED  BY <1>2, <2>1, <2>2, <2>3 DEF ParseStep
<1>3. CASE FinishStep
  <2>1. CASE Finish \/ GiveUp \/ RefuseHtml
    BY <2>1, RestSame DEF Finish, GiveUp, RefuseHtml, feed
  <2>2. CASE CheckTidied \/ HandleHtml
    <3>1. \E d \in {job.url, Tidied[job.url]} :
            job'.doc = d /\ left' = Content[d] /\ chunk' = <<>>
      BY <2>2 DEF CheckTidied, HandleHtml, StartPass
    <3>2. phase = "ended"
      BY <2>2 DEF CheckTidied, HandleHtml
    <3>3. job.url \in Document /\ Tidied[job.url] \in Document
      BY <3>2, DocumentAssumption DEF WholeInv, InParse, WholeTypes
    <3> QED  BY <3>1, <3>3, RestStart
  <2> QED  BY <1>3, <2>1, <2>2 DEF FinishStep
<1> QED  BY <1>1, <1>2, <1>3, RestCall, RestLibxml DEF Next

(***************************************************************************)
(* The parts of TypeOK that no other invariant has.                        *)
(***************************************************************************)
JobOK ==
  /\ job.doctype \in {"xml", "html"} /\ job.doc \in Document \cup {None}
  /\ job.url \in Document \cup {None}

OtherOK == m_context \in BOOLEAN /\ pLastError \in {None, "older", "this"}

LEMMA JobNext == WholeInv /\ JobOK /\ [Next]_vars => JobOK'
<1> SUFFICES ASSUME WholeInv, JobOK, [Next]_vars PROVE JobOK'
  OBVIOUS
<1> DEFINE Made(doctype, url, d) ==
             \E pass, e : job' = [doctype |-> doctype, pass |-> pass, url |-> url,
                                  doc |-> d, errorHandler |-> e]
<1>1. CASE job' = job
  BY <1>1 DEF JobOK
<1>2. CASE \E doctype \in {"xml", "html"} : \E url \in Document : \E d \in Document :
             Made(doctype, url, d)
  BY <1>2 DEF JobOK
<1>3. CASE job' = NoJob
  BY <1>3 DEF JobOK, NoJob
<1>4. Call => \/ job' = job \/ job' = NoJob
              \/ \E doctype \in {"xml", "html"} : \E d \in Document : Made(doctype, d, d)
  BY DEF Call, ParseXml, RefuseXml, ParseHtml, DeleteReader, NewReader, StartPass, feed
<1>5. ParseStep \/ LibxmlStep => job' = job
  BY DEF ParseStep, Read, ReadEnd, ReadOnlyMark, ReadFails, ChunkDone, LibxmlStep, CheckChunk, Abandon,
         Ignored, StartElement, EndElement, Characters, Warning, Error, Extra, Calls,
         Finds, feed
<1>6. ASSUME FinishStep, job' # job
      PROVE  \E url \in Document : \E d \in Document : Made("html", url, d)
  <2>1. CheckTidied \/ HandleHtml
    BY <1>6 DEF FinishStep, Finish, GiveUp, RefuseHtml, feed
  <2>2. job.url \in Document /\ Tidied[job.url] \in Document
    BY <2>1, DocumentAssumption DEF CheckTidied, HandleHtml, WholeInv, InParse, WholeTypes
  <2>3. \E d \in {job.url, Tidied[job.url]} : Made("html", job.url, d)
    BY <2>1 DEF CheckTidied, HandleHtml, StartPass
  <2> HIDE DEF Made
  <2> QED  BY <2>2, <2>3
<1>7. CASE Call \/ FinishStep
  <2> HIDE DEF Made
  <2> QED  BY <1>1, <1>2, <1>3, <1>4, <1>6, <1>7
<1>8. UNCHANGED vars => job' = job
  BY DEF vars
<1> QED  BY <1>1, <1>5, <1>7, <1>8 DEF Next

LEMMA OtherNext == OtherOK /\ [Next]_vars => OtherOK'
<1> SUFFICES ASSUME OtherOK, [Next]_vars PROVE OtherOK'
  OBVIOUS
<1>1. m_context' \in {m_context, TRUE, FALSE}
  <2>1. CASE UNCHANGED vars
    BY <2>1 DEF vars
  <2>2. CASE Call
    BY <2>2 DEF Call, ParseXml, RefuseXml, ParseHtml, DeleteReader, NewReader, StartPass
  <2>3. CASE ParseStep \/ LibxmlStep
    BY <2>3 DEF ParseStep, Read, ReadEnd, ReadOnlyMark, ReadFails, ChunkDone, LibxmlStep, CheckChunk,
                Abandon, Ignored, StartElement, EndElement, Characters, Warning, Error,
                Extra, Calls, Finds
  <2>4. CASE FinishStep
    BY <2>4 DEF FinishStep, Finish, GiveUp, RefuseHtml, CheckTidied, HandleHtml, StartPass
  <2> QED  BY <2>1, <2>2, <2>3, <2>4 DEF Next
<1>2. pLastError' \in {pLastError, None, "older", "this"}
  <2>1. CASE UNCHANGED vars
    BY <2>1 DEF vars
  <2>2. CASE Call
    BY <2>2 DEF Call, ParseXml, RefuseXml, ParseHtml, DeleteReader, NewReader, Older
  <2>3. CASE ParseStep \/ LibxmlStep
    BY <2>3 DEF ParseStep, Read, ReadEnd, ReadOnlyMark, ReadFails, ChunkDone, LibxmlStep, CheckChunk,
                Abandon, Ignored, StartElement, EndElement, Characters, Warning, Error,
                Extra, Reported, ErrorOfRead
  <2>4. CASE FinishStep
    BY <2>4 DEF FinishStep, Finish, GiveUp, RefuseHtml, CheckTidied, HandleHtml
  <2> QED  BY <2>1, <2>2, <2>3, <2>4 DEF Next
<1> QED  BY <1>1, <1>2 DEF OtherOK

\* Every namespace that is not freed has a reference between two handlers, and
\* what libxml has of a document and what the stream has are its rest.
THEOREM ReaderTypes == Spec => []TypeOK
<1> DEFINE Inv == ReaderInv /\ RestInv /\ JobOK /\ OtherOK
<1>1. Inv => TypeOK
  <2> SUFFICES ASSUME Inv PROVE TypeOK
    OBVIOUS
  <2>1. /\ ns \in [Node -> Namespace \cup {None}] /\ \A a \in InUse(ns) : ns[a].m_ref > 0
        /\ nsStack \in Seq(Node) /\ base \in Nat
    BY DEF ReaderInv, NamespaceInv, Forest, Heap, AllHeld
  <2>2. job.doc # None =>
          IsSuffix(left, Content[job.doc]) /\ IsSuffix(chunk \o left, Content[job.doc])
    BY RestIsSuffix DEF RestInv
  <2> QED  BY <2>1, <2>2 DEF ReaderInv, ParseInv, ControlOK, Passes, JobOK, OtherOK, TypeOK
<1>2. Init => JobOK /\ OtherOK
  <2> SUFFICES ASSUME Init PROVE JobOK /\ OtherOK
    OBVIOUS
  <2>1. job = NoJob /\ m_context = FALSE /\ pLastError = None
    BY DEF Init
  <2>2. JobOK
    BY <2>1 DEF JobOK, NoJob
  <2> QED  BY <2>1, <2>2 DEF OtherOK
<1>3. RestInv /\ JobOK /\ OtherOK /\ ReaderInv /\ [Next]_vars => RestInv' /\ JobOK' /\ OtherOK'
  BY RestStep, JobNext, OtherNext DEF ReaderInv
<1> QED  BY <1>1, <1>2, <1>3, RestInit, ReaderInvariant, PTL DEF Spec
=============================================================================
