----------------------------- MODULE TidyProofs -----------------------------
(***************************************************************************)
(* Theorems about the streams of every kind together, and about the passes *)
(* of parseHtml over them, for every value of the constants.               *)
(*                                                                         *)
(* A TidyStream and a file stream work through the operations of           *)
(* HttpStream and on the heap and the map it shares with them, so that an  *)
(* invariant of HttpStream is kept by the composition if it is kept by     *)
(* what file streams and TidyStreams do to heap and map.                   *)
(***************************************************************************)
EXTENDS HtmlPasses, SequentialProofs

(***************************************************************************)
(* The steps the streams make when the application opens what "openings"   *)
(* says, and reads before it closes; and all the steps, of TidySpec and of *)
(* HtmlSpec.                                                               *)
(***************************************************************************)
Closes(s) ==
  DeletePlain(s) \/ DeleteTidied(s) \/ DeleteCached(s) \/ DeletePassThrough(s)

ReadingStep(openings) ==
  \/ \E s \in Stream :
       \/ \E o \in openings : OpenStream(s, o)
       \/ \E n \in 1 .. MaxRead : ReadPlain(s, n) \/ BeginTidyRead(s, n)
       \/ TidyReadStep(s)
       \/ Closes(s)
  \/ CallStep
  \/ DestroyInstance
  \/ \E u \in Url : Publish(u)
  \/ UNCHANGED tidyVars

StreamsStep(openings) ==
  ReadingStep(openings) \/ \E s \in Stream : DeleteUnread(s)

\* What parseHtml opens.
HtmlOpens == {o \in Opens : o.useCache /\ o.later \in ReaderCaches}

LEMMA TidySteps == [TidyNext]_tidyVars => StreamsStep(Openings)
BY DEF TidyNext, StreamsStep, ReadingStep, DeleteStream, Closes

-----------------------------------------------------------------------------
(***************************************************************************)
(* Types.                                                                  *)
(***************************************************************************)
FilesSetUp ==
  \A s \in Stream : file[s].mode # "NONE" =>
    /\ file[s].sFilename \in Url
    /\ file[s].mode = "READ" =>
         IF file[s].bIsOpen
         THEN file[s].fTotalBytesRead <= Len(file[s].text)
         ELSE file[s].fTotalBytesRead = 0

TidiesSetUp == \A s \in Stream : tidy[s].mode # "NONE" => tidy[s].sURL \in Url

CallerWants == calling # None => tidy[calling].want \in 1 .. MaxRead

FilePart == file \in [Stream -> FileRecord] /\ FilesSetUp

TidyPart ==
  /\ tidy \in [Stream -> TidyRecord]
  /\ calling \in Stream \cup {None}
  /\ instance \in {"live", "destroyed"}
  /\ TidiesSetUp
  /\ CallerWants

TidyTypeInv == TypeInv /\ FilePart /\ TidyPart

\* What file streams and TidyStreams do to the state of HttpStream.
LEMMA TypeHeapStep ==
  ASSUME TypeInv,
         heap' \in [Obj -> CacheRecord],
         HttpCache' \in [Url -> Obj \cup {None}],
         freeHandles' \in Seq(Handle),
         faults' \subseteq Undefined \cup {"leak"},
         status' \in [Stream -> Statuses],
         out' \in [Stream -> Seq(Piece)],
         since' \in [Stream -> [Url -> Version]],
         UNCHANGED <<fEasy, st, xfer, msgs, cur, phase, ver>>
  PROVE  TypeInv'
<1>1. TypeOK'
  BY DEF TypeInv, TypeOK, Statuses
<1>2. StreamsSetUp' /\ CurrentExists'
  BY DEF TypeInv, StreamsSetUp, CurrentExists, Open
<1> QED  BY <1>1, <1>2 DEF TypeInv

LEMMA TypeReadStep ==
  ASSUME TypeInv, ReadStep
  PROVE  TypeInv'
<1>1. CASE \E t \in Stream : Transfer(t)
  BY <1>1, TypeHeader, TypeData, TypeComplete DEF Transfer
<1>2. CASE TakeMessage
  BY <1>2, TypeTakeMessage, TypeTakeRedirect DEF TakeMessage
<1>3. CASE PerformAgain \/ EndRead \/ EndReadFromCache
  BY <1>3, TypePerformAgain, TypeEndRead, TypeEndReadFromCache
<1> QED  BY <1>1, <1>2, <1>3 DEF ReadStep

LEMMA NoFileType == NoFile \in FileRecord
BY EmptyPieces DEF NoFile, FileRecord

LEMMA FilePartStep ==
  ASSUME FilePart, NEW s \in Stream, NEW f \in FileRecord,
         f.mode # "NONE" =>
           /\ f.sFilename \in Url
           /\ f.mode = "READ" =>
                IF f.bIsOpen THEN f.fTotalBytesRead <= Len(f.text)
                             ELSE f.fTotalBytesRead = 0,
         file' = [file EXCEPT ![s] = f]
  PROVE  FilePart'
BY DEF FilePart, FilesSetUp

LEMMA TidyPartStep ==
  ASSUME TidyPart, NEW s \in Stream, NEW m \in TidyRecord,
         m.mode # "NONE" => m.sURL \in Url,
         tidy' = [tidy EXCEPT ![s] = m],
         calling' = None
           \/ (calling' = calling /\ m.want = tidy[s].want)
           \/ (calling' = s /\ m.want \in 1 .. MaxRead),
         instance' = instance
  PROVE  TidyPart'
<1>1. tidy' \in [Stream -> TidyRecord] /\ TidiesSetUp'
  BY DEF TidyPart, TidiesSetUp
<1>2. calling' \in Stream \cup {None} /\ CallerWants'
  BY StreamAssumption DEF TidyPart, CallerWants
<1> QED  BY <1>1, <1>2 DEF TidyPart

(***************************************************************************)
(* File streams.                                                           *)
(***************************************************************************)
LEMMA TypeOpenFile ==
  ASSUME TypeInv, FilePart, NEW s \in Stream, NEW u \in Url, NEW useCache \in BOOLEAN,
         OpenFile(s, u, useCache)
  PROVE  TypeInv' /\ FilePart'
<1> DEFINE co == Lookup(useCache, u)
<1>1. co \in Obj \cup {None}
  BY LookupType DEF TypeInv
<1>2. /\ file' = [file EXCEPT ![s] = Constructed(u, co)]
      /\ faults' = faults \cup UseOfEntry(useCache, u)
      /\ status' = [status EXCEPT ![s] = "open"]
      /\ since' = [since EXCEPT ![s] = ver]
      /\ UNCHANGED <<heap, HttpCache, freeHandles, fEasy, st, xfer, msgs, cur,
                     phase, ver, out>>
  BY DEF OpenFile, handlerVars, callVars
<1> HIDE DEF co
<1>3. TypeInv'
  <2>1. faults' \subseteq Undefined \cup {"leak"}
    BY <1>2 DEF UseOfEntry, Use, Undefined, TypeInv, TypeOK
  <2>2. /\ status' \in [Stream -> Statuses]
        /\ since' \in [Stream -> [Url -> Version]]
    BY <1>2 DEF TypeInv, TypeOK, Statuses
  <2> QED  BY <1>2, <2>1, <2>2, TypeHeapStep DEF TypeInv, TypeOK
<1>4. /\ Constructed(u, co) \in FileRecord
      /\ Constructed(u, co).sFilename \in Url
      /\ Constructed(u, co).mode = "READ" =>
           ~Constructed(u, co).bIsOpen /\ Constructed(u, co).fTotalBytesRead = 0
  BY <1>1, EmptyPieces DEF Constructed, NoFile, FileRecord
<1>5. FilePart'
  <2> DEFINE f == Constructed(u, co)
  <2>1. f \in FileRecord /\ f.sFilename \in Url /\ file' = [file EXCEPT ![s] = f]
        /\ (f.mode = "READ" => ~f.bIsOpen /\ f.fTotalBytesRead = 0)
    BY <1>2, <1>4
  <2> HIDE DEF f
  <2> QED  BY <2>1, FilePartStep
<1> QED  BY <1>3, <1>5

\* What is returned is added to what the reader has.
LEMMA ReturnedType ==
  ASSUME TypeInv, NEW s \in Stream, NEW data \in Seq(Piece), Returned(s, data)
  PROVE  /\ out' \in [Stream -> Seq(Piece)]
         /\ status' \in [Stream -> Statuses]
<1>1. out[s] \o data \in Seq(Piece)
  BY ConcatProperties DEF TypeInv, TypeOK
<1> QED  BY <1>1 DEF Returned, TypeInv, TypeOK, Statuses

\* A part of a sequence of pieces.
LEMMA PartType ==
  ASSUME NEW text \in Seq(Piece), NEW i \in Nat, NEW j \in Int, j <= Len(text)
  PROVE  SubSeq(text, i + 1, j) \in Seq(Piece)
<1>1. Len(text) \in Nat
  BY LenProperties
<1>2. \A k \in i + 1 .. j : text[k] \in Piece
  BY <1>1, ElementOfSeq
<1> QED  BY <1>1, <1>2, SubSeqProperties

LEMMA TypeReadDisk ==
  ASSUME TypeInv, FilePart, NEW s \in Stream, NEW n \in Nat, ReadDisk(s, n)
  PROVE  TypeInv' /\ FilePart'
<1> DEFINE f     == file[s]
           text  == IF f.bIsOpen THEN f.text ELSE Body(f.sFilename, ver[f.sFilename])
           total == f.fTotalBytesRead
           k     == Least(n, Len(text) - total)
           sum   == total + k
           data  == SubSeq(text, total + 1, sum)
           f1    == [f EXCEPT !.bIsOpen = TRUE, !.text = text, !.fTotalBytesRead = sum]
<1>1. /\ f.mode = "READ" /\ f \in FileRecord /\ f.sFilename \in Url
      /\ IF f.bIsOpen THEN total <= Len(f.text) ELSE total = 0
      /\ file' = [file EXCEPT ![s] = f1] /\ Returned(s, data)
      /\ UNCHANGED <<httpVars, since>>
  BY DEF ReadDisk, FilePart, FilesSetUp
<1>2. /\ text \in Seq(Piece) /\ total \in Nat
  <2>1. ver[f.sFilename] \in Version
    BY <1>1 DEF TypeInv, TypeOK
  <2>2. Body(f.sFilename, ver[f.sFilename]) \in Seq(Piece)
    BY <1>1, <2>1, BodyType
  <2>3. f.text \in Seq(Piece) /\ total \in Nat
    BY <1>1 DEF FileRecord
  <2> QED  BY <2>2, <2>3
<1>3. total <= Len(text) /\ Len(text) \in Nat
  <2>1. Len(text) \in Nat
    BY <1>2, LenProperties
  <2>2. CASE f.bIsOpen
    <3>1. text = f.text  BY <2>2
    <3> QED  BY <1>1, <2>1, <2>2, <3>1
  <2>3. CASE ~f.bIsOpen
    <3> HIDE DEF text
    <3> QED  BY <1>1, <2>1, <2>3
  <2> QED  BY <2>2, <2>3
<1> HIDE DEF text
<1>4. k \in Nat /\ sum \in Nat /\ sum <= Len(text)
  BY <1>2, <1>3 DEF Least
<1>5. data \in Seq(Piece)
  <2>1. sum \in Int  BY <1>4
  <2> HIDE DEF sum
  <2> QED  BY <1>2, <1>4, <2>1, PartType
<1>6. TypeInv'
  <2>1. UNCHANGED <<heap, HttpCache, freeHandles, fEasy, st, xfer, msgs, cur, phase,
                    ver, faults, since>>
    BY <1>1 DEF httpVars
  <2>2. /\ out' \in [Stream -> Seq(Piece)] /\ status' \in [Stream -> Statuses]
    <3> HIDE DEF data
    <3> QED  BY <1>1, <1>5, ReturnedType
  <2> QED  BY <2>1, <2>2, TypeHeapStep DEF TypeInv, TypeOK
<1>7. FilePart'
  <2> HIDE DEF sum, f, total
  <2>1. f1 \in FileRecord /\ f1.mode = f.mode /\ f1.sFilename = f.sFilename
        /\ f1.bIsOpen /\ f1.text = text /\ f1.fTotalBytesRead = sum
    BY <1>1, <1>2, <1>4 DEF FileRecord
  <2>2. f1.sFilename \in Url /\ f1.fTotalBytesRead <= Len(f1.text)
    BY <1>1, <1>4, <2>1
  <2>3. file' = [file EXCEPT ![s] = f1]
    BY <1>1
  <2> HIDE DEF f1
  <2> QED  BY <2>1, <2>2, <2>3, FilePartStep
<1> QED  BY <1>6, <1>7

\* Objects that are there have types; others are not looked at.
LEMMA LiveObject ==
  ASSUME TypeInv, NEW o \in Obj \cup {None}
  PROVE  /\ Live(o) => o \in Obj /\ heap[o] \in CacheRecord
         /\ Use(o) \subseteq Undefined
         /\ \A new \in CacheRecord : Update(o, new) \in [Obj -> CacheRecord]
<1>1. Live(o) => o \in Obj /\ heap[o] \in CacheRecord
  BY DEF Live, TypeInv, TypeOK
<1>2. Use(o) \subseteq Undefined
  BY DEF Use, Undefined
<1>3. \A new \in CacheRecord : Update(o, new) \in [Obj -> CacheRecord]
  BY <1>1 DEF Update, TypeInv, TypeOK
<1> QED  BY <1>1, <1>2, <1>3

\* What a reader of a copy is given, and the heap it leaves.
LEMMA CopyReadType ==
  ASSUME TypeInv, NEW o \in Obj \cup {None}, NEW n \in Nat,
         NEW r \in IF Live(o) THEN ReadOutcomes(heap[o], n) ELSE NothingRead(o)
  PROVE  /\ r.data \in Seq(Piece)
         /\ Update(o, r.obj) \in [Obj -> CacheRecord]
<1>1. CASE Live(o)
  <2>1. heap[o] \in CacheRecord
    BY <1>1, LiveObject
  <2>2. r.data \in Seq(Piece) /\ r.obj \in CacheRecord
    BY <1>1, <2>1, ReadOutcomesType
  <2> QED  BY <2>2, LiveObject
<1>2. CASE ~Live(o)
  <2>1. r = [data |-> <<>>, obj |-> None]
    BY <1>2 DEF NothingRead
  <2>2. Update(o, r.obj) = heap
    BY <1>2 DEF Update
  <2> QED  BY <2>1, <2>2, EmptyPieces DEF TypeInv, TypeOK
<1> QED  BY <1>1, <1>2

LEMMA TypeReadDiskFails ==
  ASSUME TypeInv, FilePart, NEW s \in Stream, ReadDiskFails(s)
  PROVE  TypeInv' /\ FilePart'
<1>1. /\ status' = [status EXCEPT ![s] = "error"]
      /\ UNCHANGED <<heap, HttpCache, freeHandles, fEasy, st, xfer, msgs, cur, phase,
                     ver, faults, file, out, since>>
  BY DEF ReadDiskFails, httpVars
<1>2. status' \in [Stream -> Statuses]
  BY <1>1 DEF TypeInv, TypeOK, Statuses
<1>3. TypeInv'
  BY <1>1, <1>2, TypeHeapStep DEF TypeInv, TypeOK
<1> QED  BY <1>1, <1>3 DEF FilePart, FilesSetUp

LEMMA TypeReadCopy ==
  ASSUME TypeInv, FilePart, NEW s \in Stream, NEW n \in Nat, ReadCopy(s, n)
  PROVE  TypeInv' /\ FilePart'
<1> DEFINE f == file[s]
           o == f.cacheObject
<1>1. /\ f \in FileRecord /\ f.sFilename \in Url /\ f.mode = "CACHED"
      /\ o \in Obj \cup {None} /\ f.fTotalBytesRead \in Nat
  BY DEF ReadCopy, FilePart, FilesSetUp, FileRecord
<1>2. PICK r \in IF Live(o) THEN ReadOutcomes(heap[o], n) ELSE NothingRead(o) :
        /\ heap' = Update(o, r.obj)
        /\ file' = [file EXCEPT ![s].fTotalBytesRead = @ + Len(r.data)]
        /\ Returned(s, r.data)
  BY DEF ReadCopy
<1>3. /\ faults' = faults \cup Use(o)
      /\ UNCHANGED <<HttpCache, freeHandles, fEasy, st, xfer, msgs, cur, phase,
                     ver, since>>
  BY DEF ReadCopy, callVars
<1> DEFINE data == r.data
           sum  == f.fTotalBytesRead + Len(data)
           f1   == [f EXCEPT !.fTotalBytesRead = sum]
<1>4. data \in Seq(Piece) /\ Update(o, r.obj) \in [Obj -> CacheRecord]
  BY <1>1, <1>2, CopyReadType
<1>5. TypeInv'
  <2>1. Returned(s, data)  BY <1>2
  <2>2. faults' \subseteq Undefined \cup {"leak"}
    BY <1>1, <1>3, LiveObject DEF TypeInv, TypeOK
  <2> HIDE DEF data
  <2>3. /\ out' \in [Stream -> Seq(Piece)] /\ status' \in [Stream -> Statuses]
    BY <1>4, <2>1, ReturnedType
  <2> QED  BY <1>2, <1>3, <1>4, <2>2, <2>3, TypeHeapStep DEF TypeInv, TypeOK
<1>6. FilePart'
  <2>1. file' = [file EXCEPT ![s] = f1]
    BY <1>2
  <2>2. Len(data) \in Nat
    BY <1>4, LenProperties
  <2> HIDE DEF data, f
  <2>3. sum \in Nat
    BY <1>1, <2>2
  <2> HIDE DEF sum
  <2>4. f1 \in FileRecord /\ f1.mode = "CACHED" /\ f1.sFilename = f.sFilename
    BY <1>1, <2>3 DEF FileRecord
  <2> HIDE DEF f1
  <2> QED  BY <1>1, <2>1, <2>4, FilePartStep
<1> QED  BY <1>5, <1>6

LEMMA TypeCloseFile ==
  ASSUME TypeInv, FilePart, NEW s \in Stream, CloseFile(s)
  PROVE  TypeInv' /\ FilePart'
<1> DEFINE f == file[s]
           o == f.cacheObject
<1>1. f \in FileRecord /\ o \in Obj \cup {None}
  BY DEF FilePart, FileRecord
<1>2. /\ heap' = IF f.mode = "CACHED" /\ Live(o)
                 THEN [heap EXCEPT ![o] = Released(@)] ELSE heap
      /\ faults' = IF f.mode = "CACHED" THEN faults \cup Use(o) ELSE faults
      /\ file' = [file EXCEPT ![s] = NoFile]
      /\ status' = [status EXCEPT ![s] = "closed"]
      /\ out' = [out EXCEPT ![s] = <<>>]
      /\ since' = [since EXCEPT ![s] = [u \in Url |-> 1]]
      /\ UNCHANGED <<HttpCache, freeHandles, fEasy, st, xfer, msgs, cur, phase, ver>>
  BY DEF CloseFile, callVars
<1> HIDE DEF f, o
<1>3. heap' \in [Obj -> CacheRecord]
  <2>1. CASE Live(o)
    <3>1. o \in Obj /\ heap[o] \in CacheRecord
      BY <1>1, <2>1, LiveObject
    <3>2. Released(heap[o]) \in CacheRecord
      BY <3>1, ObjectOps DEF Released
    <3> QED  BY <1>2, <3>1, <3>2 DEF TypeInv, TypeOK
  <2>2. CASE ~Live(o)
    BY <1>2, <2>2 DEF TypeInv, TypeOK
  <2> QED  BY <2>1, <2>2
<1>4. faults' \subseteq Undefined \cup {"leak"}
  BY <1>1, <1>2, LiveObject DEF TypeInv, TypeOK
<1>5. 1 \in Version
  BY ServerAssumption DEF Version
<1>6. /\ status' \in [Stream -> Statuses] /\ out' \in [Stream -> Seq(Piece)]
      /\ since' \in [Stream -> [Url -> Version]]
  BY <1>2, <1>5, EmptyPieces DEF TypeInv, TypeOK, Statuses
<1>7. TypeInv'
  BY <1>2, <1>3, <1>4, <1>6, TypeHeapStep DEF TypeInv, TypeOK
<1>8. FilePart'
  <2>1. NoFile.mode = "NONE"  BY DEF NoFile
  <2> QED  BY <1>2, <2>1, NoFileType, FilePartStep
<1> QED  BY <1>7, <1>8

-----------------------------------------------------------------------------
(***************************************************************************)
(* The inputs of TidyStreams, or streams read without one.                 *)
(***************************************************************************)
LEMMA TypeOpenInput ==
  ASSUME TypeInv, FilePart, NEW s \in Stream, NEW o \in Opens, OpenInput(s, o)
  PROVE  TypeInv' /\ FilePart'
<1>1. o.url \in Url /\ o.useCache \in BOOLEAN
  BY DEF Opens
<1>2. CASE NewStream(s, o.url, Mode(o)) /\ UNCHANGED file
  BY <1>1, <1>2, TypeNewStream DEF FilePart, FilesSetUp
<1>3. CASE OpenFile(s, o.url, o.useCache)
  BY <1>1, <1>3, TypeOpenFile
<1> QED  BY <1>2, <1>3 DEF OpenInput

LEMMA TypeReadInput ==
  ASSUME TypeInv, FilePart, NEW s \in Stream, NEW n \in 1 .. MaxRead, ReadInput(s, n)
  PROVE  TypeInv' /\ FilePart'
<1>1. n \in Nat
  BY ClientAssumption
<1>2. CASE BeginRead(s, n) /\ UNCHANGED file
  BY <1>2, TypeBeginRead DEF FilePart, FilesSetUp
<1>3. CASE ReadFile(s, n)
  BY <1>1, <1>3, TypeReadDisk, TypeReadDiskFails, TypeReadCopy DEF ReadFile
<1> QED  BY <1>2, <1>3 DEF ReadInput

LEMMA TypeDeleteInput ==
  ASSUME TypeInv, FilePart, NEW s \in Stream, DeleteInput(s)
  PROVE  TypeInv' /\ FilePart'
<1>1. CASE Delete(s) /\ UNCHANGED file
  BY <1>1, TypeDelete DEF FilePart, FilesSetUp
<1>2. CASE CloseFile(s)
  BY <1>2, TypeCloseFile
<1> QED  BY <1>1, <1>2 DEF DeleteInput

-----------------------------------------------------------------------------
(***************************************************************************)
(* TidyStreams.                                                            *)
(***************************************************************************)
LEMMA TidyKept ==
  ASSUME TidyPart, UNCHANGED <<tidy, calling, instance>>
  PROVE  TidyPart'
BY DEF TidyPart, TidiesSetUp, CallerWants

LEMMA NoTidyType == NoTidy \in TidyRecord /\ NoTidy.mode = "NONE"
<1>1. 1 \in Version
  BY ServerAssumption DEF Version
<1> QED  BY <1>1, EmptyPieces DEF NoTidy, TidyRecord

\* What is known of a TidyStream.
LEMMA TidyMembers ==
  ASSUME TidyPart, NEW s \in Stream
  PROVE  /\ tidy[s] \in TidyRecord
         /\ tidy[s].mode # "NONE" => tidy[s].sURL \in Url
         /\ tidy[s].docbuf \in Seq(Piece) /\ tidy[s].outbuf \in Seq(Piece)
         /\ tidy[s].out \in Seq(Piece)
         /\ tidy[s].fTotalBytesRead \in Nat /\ tidy[s].want \in Nat
         /\ tidy[s].cacheObject \in Obj \cup {None}
BY DEF TidyPart, TidiesSetUp, TidyRecord

LEMMA TypeOpenStream ==
  ASSUME TidyTypeInv, NEW s \in Stream, NEW o \in Opens, OpenStream(s, o)
  PROVE  TidyTypeInv'
<1>1. /\ OpenInput(s, o) /\ calling = None
      /\ tidy' = IF o.tidy THEN [tidy EXCEPT ![s] = TidyConstructed(o)] ELSE tidy
      /\ UNCHANGED <<calling, instance>>
  BY DEF OpenStream
<1>2. TypeInv' /\ FilePart'
  BY <1>1, TypeOpenInput DEF TidyTypeInv
<1>3. o.url \in Url /\ o.later \in BOOLEAN
  BY DEF Opens
<1>4. ver \in [Url -> Version]
  BY DEF TidyTypeInv, TypeInv, TypeOK
<1>5. TidyConstructed(o) \in TidyRecord /\ TidyConstructed(o).sURL \in Url
  <2> DEFINE how == IF PassesThrough(o.url) THEN "PASSTROUGH" ELSE "TIDY"
  <2>1. how \in {"PASSTROUGH", "TIDY"}
    OBVIOUS
  <2>2. TidyConstructed(o) =
          [NoTidy EXCEPT !.mode = how, !.sURL = o.url, !.bUseCache = o.later,
                         !.inStream = "live", !.status = "open", !.since = ver]
    BY DEF TidyConstructed
  <2> HIDE DEF how
  <2> QED  BY <1>3, <1>4, <2>1, <2>2, NoTidyType DEF TidyRecord
<1>6. TidyPart'
  <2>1. CASE o.tidy
    <3> DEFINE m == TidyConstructed(o)
    <3>1. m \in TidyRecord /\ m.sURL \in Url /\ tidy' = [tidy EXCEPT ![s] = m]
      BY <1>1, <1>5, <2>1
    <3> HIDE DEF m
    <3> QED  BY <1>1, <3>1, TidyPartStep DEF TidyTypeInv
  <2>2. CASE ~o.tidy
    BY <1>1, <2>2, TidyKept DEF TidyTypeInv
  <2> QED  BY <2>1, <2>2
<1> QED  BY <1>2, <1>6 DEF TidyTypeInv

\* Nothing moves but the streams below.
LEMMA TypeBelow ==
  ASSUME TidyTypeInv, UNCHANGED <<tidy, calling, instance>>, TypeInv' /\ FilePart'
  PROVE  TidyTypeInv'
BY TidyKept DEF TidyTypeInv

LEMMA TypeUnmoved ==
  ASSUME TidyTypeInv, UNCHANGED baseVars
  PROVE  TypeInv' /\ FilePart'
BY TypeStutter DEF baseVars, TidyTypeInv, FilePart, FilesSetUp

LEMMA TypeBeginTidyRead ==
  ASSUME TidyTypeInv, NEW s \in Stream, NEW n \in 1 .. MaxRead, BeginTidyRead(s, n)
  PROVE  TidyTypeInv'
<1> DEFINE m == [tidy[s] EXCEPT !.want = n]
<1>1. TypeInv' /\ FilePart'
  BY TypeUnmoved DEF BeginTidyRead
<1>2. /\ tidy' = [tidy EXCEPT ![s] = m] /\ calling' = s /\ instance' = instance
  BY DEF BeginTidyRead, TidyTypeInv, TidyPart
<1>3. n \in Nat
  BY ClientAssumption
<1>4. m \in TidyRecord /\ m.want = n /\ m.mode = tidy[s].mode /\ m.sURL = tidy[s].sURL
  BY ZenonT(60), <1>3, TidyMembers DEF TidyRecord, TidyTypeInv
<1>5. m.mode # "NONE" => m.sURL \in Url
  BY <1>4, TidyMembers DEF TidyTypeInv
<1> HIDE DEF m
<1>6. TidyPart'
  BY <1>2, <1>4, <1>5, TidyPartStep DEF TidyTypeInv
<1> QED  BY <1>1, <1>6 DEF TidyTypeInv

\* readBytes of a TidyStream returns.
LEMMA TypeTidyReturns ==
  ASSUME TidyPart, NEW s \in Stream, NEW data \in Seq(Piece),
         TidyReturns(s, data, tidy[s]), instance' = instance
  PROVE  TidyPart'
<1> DEFINE m0  == tidy[s]
           sum == m0.fTotalBytesRead + Len(data)
           had == m0.out \o data
           how == IF data = <<>> THEN "eof" ELSE "open"
           m   == [m0 EXCEPT !.want = 0, !.asked = FALSE, !.fTotalBytesRead = sum,
                             !.out = had, !.status = how]
<1>1. tidy' = [tidy EXCEPT ![s] = m] /\ calling' = None
  BY DEF TidyReturns
<1>2. m0 \in TidyRecord /\ (m0.mode # "NONE" => m0.sURL \in Url)
      /\ m0.out \in Seq(Piece) /\ m0.fTotalBytesRead \in Nat
  BY TidyMembers
<1>3. sum \in Nat /\ had \in Seq(Piece) /\ how \in {"eof", "open"}
  BY <1>2, LenProperties, ConcatProperties
<1> HIDE DEF sum, had, how, m0
<1>4. m \in TidyRecord /\ m.mode = m0.mode /\ m.sURL = m0.sURL
  BY <1>2, <1>3 DEF TidyRecord
<1> HIDE DEF m
<1> QED  BY <1>1, <1>2, <1>4, TidyPartStep

LEMMA TypeAskInput ==
  ASSUME TidyTypeInv, NEW s \in Stream, AskInput(s)
  PROVE  TidyTypeInv'
<1>1. MaxRead \in 1 .. MaxRead
  BY ClientAssumption
<1> QED  BY <1>1, TypeReadInput, TypeBelow DEF AskInput, TidyTypeInv

LEMMA TypeDeleteAtEnd ==
  ASSUME TidyTypeInv, NEW s \in Stream, DeleteAtEnd(s)
  PROVE  TidyTypeInv'
<1> DEFINE m == [tidy[s] EXCEPT !.docbuf = out[s], !.inStream = "NULL"]
<1>1. TypeInv' /\ FilePart'
  BY TypeDeleteInput DEF DeleteAtEnd, TidyTypeInv
<1>2. /\ tidy' = [tidy EXCEPT ![s] = m] /\ UNCHANGED <<calling, instance>>
  BY DEF DeleteAtEnd, TidyTypeInv, TidyPart
<1>3. out[s] \in Seq(Piece)
  BY DEF TidyTypeInv, TypeInv, TypeOK
<1>4. m \in TidyRecord /\ m.mode = tidy[s].mode /\ m.sURL = tidy[s].sURL
      /\ m.want = tidy[s].want
  BY <1>3, TidyMembers DEF TidyRecord, TidyTypeInv
<1> HIDE DEF m
<1>5. TidyPart'
  BY <1>2, <1>4, TidyMembers, TidyPartStep DEF TidyTypeInv
<1> QED  BY <1>1, <1>5 DEF TidyTypeInv

LEMMA TypeDeleteOnError ==
  ASSUME TidyTypeInv, NEW s \in Stream, DeleteOnError(s)
  PROVE  TidyTypeInv'
<1> DEFINE m == [tidy[s] EXCEPT !.inStream = "freed", !.status = "error", !.want = 0]
<1>1. TypeInv' /\ FilePart'
  BY TypeCloseFile DEF DeleteOnError, TidyTypeInv
<1>2. /\ tidy' = [tidy EXCEPT ![s] = m] /\ calling' = None /\ instance' = instance
  BY DEF DeleteOnError, TidyTypeInv, TidyPart
<1>3. m \in TidyRecord /\ m.mode = tidy[s].mode /\ m.sURL = tidy[s].sURL
  BY TidyMembers DEF TidyRecord, TidyTypeInv
<1> HIDE DEF m
<1>4. TidyPart'
  BY <1>2, <1>3, TidyMembers, TidyPartStep DEF TidyTypeInv
<1> QED  BY <1>1, <1>4 DEF TidyTypeInv

\* getCacheObject for a TidyStream.
LEMMA CopyFoundType ==
  ASSUME TidyTypeInv, NEW s \in Stream, tidy[s].mode # "NONE"
  PROVE  CopyFound(s) \in Obj \cup {None}
<1>1. tidy[s].sURL \in Url
  BY TidyMembers DEF TidyTypeInv
<1> QED  BY <1>1 DEF CopyFound, GetCacheObject, TidyTypeInv, TypeInv, TypeOK

LEMMA TypeUseTidiedCopy ==
  ASSUME TidyTypeInv, NEW s \in Stream, UseTidiedCopy(s)
  PROVE  TidyTypeInv'
<1> DEFINE o == CopyFound(s)
           m == [tidy[s] EXCEPT !.mode = "CACHED", !.cacheObject = o, !.bTidied = TRUE]
<1>1. /\ Live(o) /\ heap' = Update(o, ResetState(heap[o]))
      /\ UNCHANGED <<HttpCache, freeHandles, fEasy, st, xfer, msgs, cur, phase,
                     ver, status, out, since, faults, file, calling, instance>>
      /\ tidy[s].mode # "NONE"
  BY DEF UseTidiedCopy, Mends, Performs, callVars, clientVars
<1>2. o \in Obj \cup {None}
  BY <1>1, CopyFoundType
<1>3. /\ tidy' = [tidy EXCEPT ![s] = m]
  BY DEF UseTidiedCopy, TidyTypeInv, TidyPart
<1> HIDE DEF o
<1>4. heap' \in [Obj -> CacheRecord]
  BY <1>1, <1>2, LiveObject, ObjectOps DEF TidyTypeInv
<1>5. TypeInv'
  BY <1>1, <1>4, TypeHeapStep DEF TidyTypeInv, TypeInv, TypeOK, Statuses
<1>6. m \in TidyRecord /\ m.sURL = tidy[s].sURL /\ m.want = tidy[s].want
  BY <1>2, TidyMembers DEF TidyRecord, TidyTypeInv
<1> HIDE DEF m
<1>7. TidyPart'
  BY <1>1, <1>3, <1>6, TidyMembers, TidyPartStep DEF TidyTypeInv
<1>8. FilePart'
  BY <1>1 DEF TidyTypeInv, FilePart, FilesSetUp
<1> QED  BY <1>5, <1>7, <1>8 DEF TidyTypeInv

LEMMA TidyType ==
  ASSUME NEW u \in Url, NEW text \in Seq(Piece)
  PROVE  Tidy(u, text) \in Seq(Piece)
<1>1. CASE text = <<>>
  <2>1. [url |-> u, version |-> 0, n |-> 1, form |-> "tidied"] \in Piece
    BY DEF Piece
  <2> QED  BY <1>1, <2>1 DEF Tidy
<1>2. CASE text # <<>>
  <2>1. PICK n \in Nat : text \in [1 .. n -> Piece]
    BY SeqDef
  <2>2. Tidy(u, text) = [i \in 1 .. n |-> [text[i] EXCEPT !.form = "tidied"]]
    BY <1>2, <2>1 DEF Tidy
  <2>3. \A i \in 1 .. n : [text[i] EXCEPT !.form = "tidied"] \in Piece
    BY <2>1 DEF Piece
  <2>4. Tidy(u, text) \in [1 .. n -> Piece]
    BY <2>2, <2>3
  <2> QED  BY <2>4, SeqDef
<1> QED  BY <1>1, <1>2

LEMMA TidiedObjectType ==
  ASSUME NEW o \in CacheRecord, NEW text \in Seq(Piece)
  PROVE  TidiedObject(o, text) \in CacheRecord
<1>1. WriteBytes(ResetState(o), text) \in CacheRecord
  BY ObjectOps, WriteBytesType
<1>2. ResetState(FinishBytes(WriteBytes(ResetState(o), text))) \in CacheRecord
  BY <1>1, ObjectOps
<1> QED  BY <1>2 DEF TidiedObject, SetTidyFlag, CacheRecord

\* What Perform does to heap and map when it has mended a text.
LEMMA MendsHeap ==
  ASSUME TidyTypeInv, NEW s \in Stream, MendInput(s)
  PROVE  /\ heap' \in [Obj -> CacheRecord]
         /\ HttpCache' \in [Url -> Obj \cup {None}]
         /\ faults' \subseteq Undefined \cup {"leak"}
<1> DEFINE m     == tidy[s]
           found == CopyFound(s)
           text  == Tidy(m.sURL, m.docbuf)
<1>1. /\ m.sURL \in Url /\ m.docbuf \in Seq(Piece)
      /\ found \in Obj \cup {None}
  <2>1. tidy[s].mode # "NONE"
    BY DEF MendInput, Mends, Performs
  <2>2. CopyFound(s) \in Obj \cup {None}
    BY <2>1, CopyFoundType
  <2> QED  BY <2>1, <2>2, TidyMembers DEF TidyTypeInv
<1>2. text \in Seq(Piece)
  BY <1>1, TidyType
<1>3. PICK new \in NewAddresses(found = None) :
        LET o      == IF found = None THEN new ELSE found
            before == HeapWith(new)
            filled == IF Exists(before[o])
                      THEN [before EXCEPT ![o] = TidiedObject(@, text)]
                      ELSE before
            after  == IF StoresTidied(m)
                      THEN AddCacheObject(filled, HttpCache, m.sURL, o)
                      ELSE [heap |-> IF found = None THEN heap ELSE filled,
                            cache |-> HttpCache,
                            bad |-> IF found = None THEN {"leak"} ELSE {}]
        IN
        /\ heap' = after.heap
        /\ HttpCache' = after.cache
        /\ faults' = faults \cup after.bad
                       \cup IF found = None THEN {} ELSE UseOfEntry(TRUE, m.sURL)
  BY DEF MendInput
<1> DEFINE o      == IF found = None THEN new ELSE found
           before == HeapWith(new)
           filled == IF Exists(before[o])
                     THEN [before EXCEPT ![o] = TidiedObject(@, text)]
                     ELSE before
           stored == AddCacheObject(filled, HttpCache, m.sURL, o)
           after  == IF StoresTidied(m)
                     THEN stored
                     ELSE [heap |-> IF found = None THEN heap ELSE filled,
                           cache |-> HttpCache,
                           bad |-> IF found = None THEN {"leak"} ELSE {}]
           bad2   == IF found = None THEN {} ELSE UseOfEntry(TRUE, m.sURL)
<1>4. heap' = after.heap /\ HttpCache' = after.cache /\ faults' = faults \cup after.bad \cup bad2
  BY <1>3
<1>5. /\ heap \in [Obj -> CacheRecord] /\ HttpCache \in [Url -> Obj \cup {None}]
      /\ faults \subseteq Undefined \cup {"leak"}
  BY DEF TidyTypeInv, TypeInv, TypeOK
<1>6. new \in Obj \cup {None} /\ (found = None => new \in Obj)
  BY DEF NewAddresses, Unused
<1> HIDE DEF found, text, m
<1>7. o \in Obj /\ before \in [Obj -> CacheRecord]
  <2>1. o \in Obj
    BY <1>1, <1>6
  <2>2. before \in [Obj -> CacheRecord]
    BY <1>5, <1>6, NewObjectType DEF HeapWith
  <2> QED  BY <2>1, <2>2
<1> HIDE DEF o, before
<1>8. filled \in [Obj -> CacheRecord]
  BY <1>2, <1>7, TidiedObjectType
<1> HIDE DEF filled
<1>9. /\ stored.heap \in [Obj -> CacheRecord]
      /\ stored.cache \in [Url -> Obj \cup {None}]
      /\ stored.bad \subseteq {"iterator"}
  <2> DEFINE u == m.sURL
  <2>1. u \in Url /\ stored = AddCacheObject(filled, HttpCache, u, o)
    BY <1>1
  <2> HIDE DEF u, stored
  <2> QED  BY <1>5, <1>7, <1>8, <2>1, AddCacheObjectType
<1> HIDE DEF stored
<1>10. /\ after.heap \in [Obj -> CacheRecord]
       /\ after.cache \in [Url -> Obj \cup {None}]
       /\ after.bad \subseteq {"iterator", "leak"}
  BY <1>5, <1>8, <1>9
<1>11. bad2 \subseteq Undefined
  BY DEF UseOfEntry, Use, Undefined
<1> HIDE DEF after, bad2
<1> QED  BY <1>4, <1>5, <1>10, <1>11 DEF Undefined

LEMMA TypeMendInput ==
  ASSUME TidyTypeInv, NEW s \in Stream, MendInput(s)
  PROVE  TidyTypeInv'
<1> DEFINE text == Tidy(tidy[s].sURL, tidy[s].docbuf)
           m    == [tidy[s] EXCEPT !.bTidied = TRUE, !.outbuf = text, !.docbuf = <<>>]
<1>1. /\ UNCHANGED <<freeHandles, fEasy, st, xfer, msgs, cur, phase, ver,
                     status, out, since, file, calling, instance>>
      /\ tidy[s].mode # "NONE"
  BY DEF MendInput, Mends, Performs, callVars, clientVars
<1>2. tidy' = [tidy EXCEPT ![s] = m]
  BY DEF MendInput, TidyTypeInv, TidyPart
<1>3. TypeInv'
  BY <1>1, MendsHeap, TypeHeapStep DEF TidyTypeInv, TypeInv, TypeOK, Statuses
<1>4. text \in Seq(Piece)
  BY <1>1, TidyMembers, TidyType DEF TidyTypeInv
<1> HIDE DEF text
<1>5. m \in TidyRecord /\ m.sURL = tidy[s].sURL /\ m.want = tidy[s].want
  BY <1>4, EmptyPieces, TidyMembers DEF TidyRecord, TidyTypeInv
<1> HIDE DEF m
<1>6. TidyPart'
  BY <1>1, <1>2, <1>5, TidyMembers, TidyPartStep DEF TidyTypeInv
<1>7. FilePart'
  BY <1>1 DEF TidyTypeInv, FilePart, FilesSetUp
<1> QED  BY <1>3, <1>6, <1>7 DEF TidyTypeInv

LEMMA TypeDeliverBuffer ==
  ASSUME TidyTypeInv, NEW s \in Stream, DeliverBuffer(s)
  PROVE  TidyTypeInv'
<1> DEFINE m    == tidy[s]
           k    == Least(m.want, Len(m.outbuf) - m.fTotalBytesRead)
           last == m.fTotalBytesRead + k
           data == SubSeq(m.outbuf, m.fTotalBytesRead + 1, last)
<1>1. TidyReturns(s, data, m) /\ UNCHANGED baseVars /\ instance' = instance
  BY DEF DeliverBuffer
<1>2. m.outbuf \in Seq(Piece) /\ m.fTotalBytesRead \in Nat /\ m.want \in Nat
  BY TidyMembers DEF TidyTypeInv
<1> HIDE DEF m
<1>3. Len(m.outbuf) \in Nat
  BY <1>2, LenProperties
<1>4. last \in Int /\ last <= Len(m.outbuf)
  BY <1>2, <1>3 DEF Least
<1>5. data \in Seq(Piece)
  <2> HIDE DEF last
  <2> QED  BY <1>2, <1>4, PartType
<1>6. TidyPart'
  <2> HIDE DEF data
  <2> QED  BY <1>1, <1>5, TypeTidyReturns DEF TidyTypeInv, m
<1> QED  BY <1>1, <1>6, TypeUnmoved DEF TidyTypeInv

LEMMA TypeDeliverCopy ==
  ASSUME TidyTypeInv, NEW s \in Stream, DeliverCopy(s)
  PROVE  TidyTypeInv'
<1> DEFINE m == tidy[s]
           o == m.cacheObject
<1>1. m.want \in Nat /\ o \in Obj \cup {None}
  BY TidyMembers DEF TidyTypeInv
<1>2. PICK r \in IF Live(o) THEN ReadOutcomes(heap[o], m.want) ELSE NothingRead(o) :
        heap' = Update(o, r.obj) /\ TidyReturns(s, r.data, m)
  BY DEF DeliverCopy
<1>3. /\ faults' = faults \cup Use(o)
      /\ UNCHANGED <<HttpCache, freeHandles, fEasy, st, xfer, msgs, cur, phase,
                     ver, status, out, since, file, instance>>
  BY DEF DeliverCopy, callVars, clientVars
<1> DEFINE data == r.data
<1>4. data \in Seq(Piece) /\ heap' \in [Obj -> CacheRecord]
  BY <1>1, <1>2, CopyReadType DEF TidyTypeInv
<1>5. faults' \subseteq Undefined \cup {"leak"}
  BY <1>1, <1>3, LiveObject DEF TidyTypeInv, TypeInv, TypeOK
<1>6. TypeInv'
  BY <1>3, <1>4, <1>5, TypeHeapStep DEF TidyTypeInv, TypeInv, TypeOK, Statuses
<1>7. TidyPart'
  <2>1. TidyReturns(s, data, tidy[s])  BY <1>2
  <2> HIDE DEF data
  <2> QED  BY <1>3, <1>4, <2>1, TypeTidyReturns DEF TidyTypeInv
<1>8. FilePart'
  BY <1>3 DEF TidyTypeInv, FilePart, FilesSetUp
<1> QED  BY <1>6, <1>7, <1>8 DEF TidyTypeInv

LEMMA TypePassing ==
  ASSUME TidyTypeInv, NEW s \in Stream,
         AskAndPassOn(s) \/ PassOn(s) \/ PassErrorOn(s)
  PROVE  TidyTypeInv'
<1>1. CASE AskAndPassOn(s)
  <2> DEFINE m == [tidy[s] EXCEPT !.asked = TRUE]
  <2>1. tidy[s].want \in 1 .. MaxRead
    BY <1>1, StreamAssumption DEF AskAndPassOn, Calls, TidyTypeInv, TidyPart, CallerWants
  <2>2. ReadInput(s, tidy[s].want)
    BY <1>1 DEF AskAndPassOn
  <2>3. TypeInv' /\ FilePart'
    BY <2>1, <2>2, TypeReadInput DEF TidyTypeInv
  <2>4. tidy' = [tidy EXCEPT ![s] = m] /\ UNCHANGED <<calling, instance>>
    BY <1>1 DEF AskAndPassOn, TidyTypeInv, TidyPart
  <2>5. m \in TidyRecord /\ m.mode = tidy[s].mode /\ m.sURL = tidy[s].sURL
        /\ m.want = tidy[s].want
    BY TidyMembers DEF TidyRecord, TidyTypeInv
  <2> HIDE DEF m
  <2>6. TidyPart'
    BY <2>4, <2>5, TidyMembers, TidyPartStep DEF TidyTypeInv
  <2> QED  BY <2>3, <2>6 DEF TidyTypeInv
<1>2. CASE PassOn(s)
  <2> DEFINE m    == tidy[s]
             data == SubSeq(out[s], Len(m.out) + 1, Len(out[s]))
  <2>1. TidyReturns(s, data, m) /\ UNCHANGED baseVars /\ instance' = instance
    BY <1>2 DEF PassOn
  <2>2. out[s] \in Seq(Piece) /\ m.out \in Seq(Piece)
    BY TidyMembers DEF TidyTypeInv, TypeInv, TypeOK
  <2>3. data \in Seq(Piece)
    <3>1. Len(out[s]) \in Nat /\ Len(m.out) \in Nat
      BY <2>2, LenProperties
    <3> QED  BY <2>2, <3>1, PartType
  <2>4. TidyPart'
    <3> HIDE DEF data
    <3> QED  BY <2>1, <2>3, TypeTidyReturns DEF TidyTypeInv
  <2> QED  BY <2>1, <2>4, TypeUnmoved DEF TidyTypeInv
<1>3. CASE PassErrorOn(s)
  <2> DEFINE m == [tidy[s] EXCEPT !.status = "error", !.asked = FALSE, !.want = 0]
  <2>1. /\ tidy' = [tidy EXCEPT ![s] = m] /\ calling' = None /\ instance' = instance
        /\ UNCHANGED baseVars
    BY <1>3 DEF PassErrorOn, TidyTypeInv, TidyPart
  <2>2. m \in TidyRecord /\ m.mode = tidy[s].mode /\ m.sURL = tidy[s].sURL
    BY TidyMembers DEF TidyRecord, TidyTypeInv
  <2> HIDE DEF m
  <2>3. TidyPart'
    BY <2>1, <2>2, TidyMembers, TidyPartStep DEF TidyTypeInv
  <2> QED  BY <2>1, <2>3, TypeUnmoved DEF TidyTypeInv
<1> QED  BY <1>1, <1>2, <1>3

\* The members of a TidyStream that is closed, if its input is.
LEMMA TypeTidyClosed ==
  ASSUME TidyTypeInv, NEW s \in Stream, tidy' = [tidy EXCEPT ![s] = NoTidy],
         UNCHANGED <<calling, instance>>, calling = None
  PROVE  TidyPart'
BY NoTidyType, TidyPartStep DEF TidyTypeInv

LEMMA TypeDeleteStream ==
  ASSUME TidyTypeInv, NEW s \in Stream, DeleteStream(s)
  PROVE  TidyTypeInv'
<1>1. CASE DeletePlain(s)
  BY <1>1, TypeDeleteInput, TypeBelow DEF DeletePlain, TidyTypeInv
<1>2. CASE DeleteUnread(s)
  <2> DEFINE m == [tidy[s] EXCEPT !.mode = "LOST", !.status = "closed",
                                  !.since = NoTidy.since]
  <2>1. /\ tidy' = [tidy EXCEPT ![s] = m] /\ faults' = faults \cup {"leak"}
        /\ UNCHANGED <<heap, HttpCache, freeHandles, fEasy, st, xfer, msgs, cur, phase,
                       ver, status, out, since, file, calling, instance>>
        /\ tidy[s].mode # "NONE"
    BY <1>2 DEF DeleteUnread, handlerVars, callVars, clientVars
  <2>2. TypeInv'
    BY <2>1, TypeHeapStep DEF TidyTypeInv, TypeInv, TypeOK, Statuses
  <2>3. NoTidy.since \in [Url -> Version]
    BY NoTidyType DEF TidyRecord
  <2>4. m \in TidyRecord /\ m.sURL = tidy[s].sURL /\ m.want = tidy[s].want
    BY ZenonT(60), <2>3, TidyMembers DEF TidyRecord, TidyTypeInv
  <2> HIDE DEF m
  <2>5. TidyPart'
    BY <2>1, <2>4, TidyMembers, TidyPartStep DEF TidyTypeInv
  <2>6. FilePart'
    BY <2>1 DEF TidyTypeInv, FilePart, FilesSetUp
  <2> QED  BY <2>2, <2>5, <2>6 DEF TidyTypeInv
<1>3. CASE DeleteTidied(s)
  BY <1>3, TypeUnmoved, TypeTidyClosed DEF DeleteTidied, TidyTypeInv
<1>4. CASE DeleteCached(s)
  <2> DEFINE o == tidy[s].cacheObject
  <2>1. /\ heap' = IF Live(o) THEN [heap EXCEPT ![o] = Released(@)] ELSE heap
        /\ faults' = faults \cup Use(o)
        /\ tidy' = [tidy EXCEPT ![s] = NoTidy]
        /\ UNCHANGED <<HttpCache, freeHandles, fEasy, st, xfer, msgs, cur, phase,
                       ver, status, out, since, file, calling, instance>>
        /\ calling = None
    BY <1>4 DEF DeleteCached, callVars, clientVars
  <2>2. o \in Obj \cup {None}
    BY TidyMembers DEF TidyTypeInv
  <2> HIDE DEF o
  <2>3. heap' \in [Obj -> CacheRecord]
    <3>1. CASE Live(o)
      <4>1. o \in Obj /\ heap[o] \in CacheRecord
        BY <2>2, <3>1, LiveObject DEF TidyTypeInv
      <4>2. Released(heap[o]) \in CacheRecord
        BY <4>1, ObjectOps DEF Released
      <4> QED  BY <2>1, <4>1, <4>2 DEF TidyTypeInv, TypeInv, TypeOK
    <3>2. CASE ~Live(o)
      BY <2>1, <3>2 DEF TidyTypeInv, TypeInv, TypeOK
    <3> QED  BY <3>1, <3>2
  <2>4. faults' \subseteq Undefined \cup {"leak"}
    BY <2>1, <2>2, LiveObject DEF TidyTypeInv, TypeInv, TypeOK
  <2>5. TypeInv'
    BY <2>1, <2>3, <2>4, TypeHeapStep DEF TidyTypeInv, TypeInv, TypeOK, Statuses
  <2>6. TidyPart'
    BY <2>1, TypeTidyClosed
  <2>7. FilePart'
    BY <2>1 DEF TidyTypeInv, FilePart, FilesSetUp
  <2> QED  BY <2>5, <2>6, <2>7 DEF TidyTypeInv
<1>5. CASE DeletePassThrough(s)
  BY <1>5, TypeDeleteInput, TypeTidyClosed DEF DeletePassThrough, TidyTypeInv
<1> QED  BY <1>1, <1>2, <1>3, <1>4, <1>5 DEF DeleteStream

LEMMA TypeDestroyInstance ==
  ASSUME TidyTypeInv, DestroyInstance
  PROVE  TidyTypeInv'
<1>1. /\ heap' = [o \in Obj |-> IF o \in FreedWithInstance THEN NoObject ELSE heap[o]]
      /\ HttpCache' = [u \in Url |-> None] /\ freeHandles' = <<>>
      /\ instance' = "destroyed"
      /\ UNCHANGED <<fEasy, st, xfer, msgs, cur, phase, ver, status, out, since, faults,
                     file, tidy, calling>>
  BY DEF DestroyInstance, callVars, clientVars
<1>2. heap' \in [Obj -> CacheRecord]
  BY <1>1, NewObjectType DEF TidyTypeInv, TypeInv, TypeOK
<1>3. freeHandles' \in Seq(Handle)
  BY <1>1, EmptySeq
<1>4. TypeInv'
  BY <1>1, <1>2, <1>3, TypeHeapStep DEF TidyTypeInv, TypeInv, TypeOK, Statuses
<1>5. FilePart' /\ TidyPart'
  BY <1>1 DEF TidyTypeInv, FilePart, FilesSetUp, TidyPart, TidiesSetUp, CallerWants
<1> QED  BY <1>4, <1>5 DEF TidyTypeInv

LEMMA TypeTidyReadStep ==
  ASSUME TidyTypeInv, NEW s \in Stream, TidyReadStep(s)
  PROVE  TidyTypeInv'
BY TypeAskInput, TypeDeleteAtEnd, TypeDeleteOnError, TypeUseTidiedCopy, TypeMendInput,
   TypeDeliverBuffer, TypeDeliverCopy, TypePassing DEF TidyReadStep

LEMMA TypeStreamsStep ==
  ASSUME TidyTypeInv, StreamsStep(Opens)
  PROVE  TidyTypeInv'
<1>1. CASE \E s \in Stream, o \in Opens : OpenStream(s, o)
  BY <1>1, TypeOpenStream
<1>2. ASSUME NEW s \in Stream, NEW n \in 1 .. MaxRead, ReadPlain(s, n)
      PROVE  TidyTypeInv'
  BY <1>2, TypeReadInput, TypeBelow DEF ReadPlain, TidyTypeInv
<1>3. CASE \E s \in Stream, n \in 1 .. MaxRead : BeginTidyRead(s, n)
  BY <1>3, TypeBeginTidyRead
<1>4. CASE \E s \in Stream : TidyReadStep(s) \/ Closes(s) \/ DeleteUnread(s)
  BY <1>4, TypeTidyReadStep, TypeDeleteStream DEF Closes, DeleteStream
<1>5. CASE CallStep
  BY <1>5, TypeReadStep, TypeBelow DEF CallStep, TidyTypeInv, FilePart, FilesSetUp
<1>6. CASE DestroyInstance
  BY <1>6, TypeDestroyInstance
<1>7. CASE \E u \in Url : Publish(u)
  BY <1>7, TypeServerUpdate, TypeBelow DEF Publish, TidyTypeInv, FilePart, FilesSetUp
<1>8. CASE UNCHANGED tidyVars
  BY <1>8, TypeUnmoved, TypeBelow DEF tidyVars, baseVars
<1> QED
  BY <1>1, <1>2, <1>3, <1>4, <1>5, <1>6, <1>7, <1>8 DEF StreamsStep, ReadingStep

LEMMA TypeTidyInit == TidyInit => TidyTypeInv
<1> SUFFICES ASSUME TidyInit PROVE TidyTypeInv  OBVIOUS
<1>1. TypeInv
  BY TypeInit DEF TidyInit
<1>2. FilePart
  BY NoFileType DEF TidyInit, FileInit, FilePart, FilesSetUp, NoFile
<1>3. TidyPart
  BY NoTidyType DEF TidyInit, TidyPart, TidiesSetUp, CallerWants
<1> QED  BY <1>1, <1>2, <1>3 DEF TidyTypeInv

LEMMA TypesImplied == TidyTypeInv => TidyTypeOK
BY DEF TidyTypeInv, TypeInv, FilePart, TidyPart, TidyTypeOK

\* Every variable of the composition has its type: no stream of any kind is
\* read past the end of its text, or looks up the copy of no URL.
THEOREM TidyTypesCorrect == TidySpec => []TidyTypeOK
<1>1. StreamsStep(Openings) => StreamsStep(Opens)
  BY OpeningsAssumption DEF StreamsStep, ReadingStep
<1>2. TidyTypeInv /\ [TidyNext]_tidyVars => TidyTypeInv'
  BY <1>1, TidySteps, TypeStreamsStep
<1> QED  BY <1>2, TypeTidyInit, TypesImplied, PTL DEF TidySpec

-----------------------------------------------------------------------------
(***************************************************************************)
(* The passes of parseHtml.                                                *)
(***************************************************************************)
HtmlRecord ==
  [pass : {"idle", "check", "tidied", "handlers"},
   slot : Stream \cup {None}, url : Url \cup {None},
   bUseCache : BOOLEAN, fed : Seq(Piece), checked : Seq(Piece),
   published : SUBSET Version,
   ret : {"none", "true", "rejected", "unreadable"}]

HtmlPart ==
  /\ html \in HtmlRecord
  /\ html.pass # "idle" => html.url \in Url /\ html.bUseCache \in ReaderCaches

LEMMA HtmlInitPart == HtmlInit => HtmlPart
BY EmptyPieces DEF HtmlInit, NoParse, HtmlPart, HtmlRecord

LEMMA HtmlSteps ==
  ASSUME HtmlPart, [HtmlNext]_htmlVars
  PROVE  ReadingStep(HtmlOpens) \/ \E s \in Stream : EndPass(s)
<1>1. ASSUME NEW u \in Url, NEW tidied \in BOOLEAN, NEW cached \in ReaderCaches
      PROVE  DataSource(u, tidied, cached) \in HtmlOpens
  BY ReaderAssumption DEF DataSource, HtmlOpens, Opens
<1>2. ASSUME NEW s \in Stream, NEW u \in Url, NEW cached \in ReaderCaches,
             ParseHtml(s, u, cached)
      PROVE  ReadingStep(HtmlOpens)
  <2>1. OpenStream(s, DataSource(u, FALSE, cached))
    BY <1>2 DEF ParseHtml
  <2>2. DataSource(u, FALSE, cached) \in HtmlOpens
    BY <1>1
  <2> QED  BY <2>1, <2>2 DEF ReadingStep
<1>3. ASSUME NEW s \in Stream, NextSource(s)
      PROVE  ReadingStep(HtmlOpens)
  <2>1. OpenStream(s, SourceOfPass(html)) /\ html.pass # "idle"
    BY <1>3 DEF NextSource
  <2>2. SourceOfPass(html) \in HtmlOpens
    BY <1>1, <2>1 DEF SourceOfPass, HtmlPart
  <2> QED  BY <2>1, <2>2 DEF ReadingStep
<1>4. ASSUME NEW s \in Stream, ReadSome(s)
      PROVE  ReadingStep(HtmlOpens)
  <2>1. MaxRead \in 1 .. MaxRead
    BY ClientAssumption
  <2> QED  BY <1>4, <2>1 DEF ReadSome, ReadingStep
<1>5. ASSUME NEW s \in Stream, Feed(s)
      PROVE  ReadingStep(HtmlOpens)
  BY <1>5 DEF Feed, ReadingStep
<1>7. CASE StreamStep
  BY <1>7 DEF StreamStep, ReadingStep
<1>8. CASE Destroy \/ \E u \in Url : Change(u)
  BY <1>8 DEF Change, Destroy, ReadingStep
<1>9. CASE UNCHANGED htmlVars
  BY <1>9 DEF htmlVars, ReadingStep
<1> QED
  BY <1>2, <1>3, <1>4, <1>5, <1>7, <1>8, <1>9 DEF HtmlNext, PassStep

LEMMA HtmlPartStep ==
  ASSUME TidyTypeInv, HtmlPart, [HtmlNext]_htmlVars
  PROVE  HtmlPart'
<1>1. ASSUME NEW s \in Stream, NEW u \in Url, NEW cached \in ReaderCaches,
             ParseHtml(s, u, cached)
      PROVE  HtmlPart'
  BY <1>1, EmptyPieces, ReaderAssumption DEF ParseHtml, NoParse, HtmlPart, HtmlRecord
<1>2. ASSUME NEW s \in Stream, NextSource(s)
      PROVE  HtmlPart'
  BY <1>2 DEF NextSource, HtmlPart, HtmlRecord
<1>3. ASSUME NEW s \in Stream, Feed(s)
      PROVE  HtmlPart'
  <2>1. Got(s) \in Seq(Piece)
    BY TidyMembers DEF Got, TidyTypeInv, TypeInv, TypeOK
  <2>2. html' = [html EXCEPT !.fed = Got(s)]
    BY <1>3 DEF Feed
  <2> QED  BY <2>1, <2>2 DEF HtmlPart, HtmlRecord
<1>4. ASSUME NEW s \in Stream, EndPass(s)
      PROVE  HtmlPart'
  <2>1. \/ \E ret \in {"true", "rejected", "unreadable"} : Finish(ret)
        \/ Then("handlers") \/ Then("tidied")
    BY <1>4 DEF EndPass
  <2>2. html.pass # "idle"
    BY <1>4 DEF EndPass, AtLoop
  <2>3. ASSUME NEW ret \in {"true", "rejected", "unreadable"}, Finish(ret)
        PROVE  HtmlPart'
    BY <2>3, EmptyPieces DEF Finish, NoParse, HtmlPart, HtmlRecord
  <2>4. CASE Then("handlers") \/ Then("tidied")
    BY <2>2, <2>4, EmptyPieces DEF Then, HtmlPart, HtmlRecord
  <2> QED  BY <2>1, <2>3, <2>4
<1>5. ASSUME NEW u \in Url, Change(u)
      PROVE  HtmlPart'
  <2>1. ver'[u] \in Version
    <3>1. ver \in [Url -> Version]
      BY DEF TidyTypeInv, TypeInv, TypeOK
    <3>2. ver'[u] = ver[u] + 1 /\ ver[u] < MaxVer
      BY <1>5, <3>1 DEF Change, Publish, ServerUpdate
    <3>3. ver[u] + 1 \in Version
      BY <3>1, <3>2, ServerAssumption DEF Version
    <3> QED  BY <3>2, <3>3
  <2>2. html' = html \/ html' = [html EXCEPT !.published = @ \cup {ver'[u]}]
    BY <1>5 DEF Change
  <2> QED  BY <2>1, <2>2 DEF HtmlPart, HtmlRecord
<1>6. CASE UNCHANGED html
  BY <1>6 DEF HtmlPart
<1> QED
  BY <1>1, <1>2, <1>3, <1>4, <1>5, <1>6
     DEF HtmlNext, PassStep, ReadSome, StreamStep, Destroy, htmlVars

\* Every variable of parseHtml's passes has its type; no pass is begun without
\* a document.
THEOREM HtmlTypesCorrect == HtmlSpec => []HtmlTypeOK
<1> DEFINE IInv == TidyTypeInv /\ HtmlPart
<1>1. HtmlInit => IInv
  BY TypeTidyInit, HtmlInitPart DEF HtmlInit
<1>2. IInv /\ [HtmlNext]_htmlVars => IInv'
  <2>1. ReadingStep(HtmlOpens) => StreamsStep(Opens)
    BY DEF StreamsStep, ReadingStep, HtmlOpens
  <2>2. ASSUME NEW s \in Stream, EndPass(s)
        PROVE  StreamsStep(Opens)
    BY <2>2 DEF EndPass, DeleteStream, Closes, StreamsStep, ReadingStep
  <2> QED  BY <2>1, <2>2, HtmlSteps, TypeStreamsStep, HtmlPartStep
<1>3. IInv => HtmlTypeOK
  BY TypesImplied DEF HtmlPart, HtmlRecord, HtmlTypeOK
<1> QED  BY <1>1, <1>2, <1>3, PTL DEF HtmlSpec

-----------------------------------------------------------------------------
(***************************************************************************)
(* Custody: who deletes what, with streams of every kind.  A slot holds an *)
(* HTTP stream or a file stream, and over either a TidyStream, which may   *)
(* have deleted it.  Both file streams and TidyStreams read copies that    *)
(* are the map's.                                                          *)
(***************************************************************************)
InputGone(m) == m.mode = "CACHED" \/ (m.mode = "TIDY" /\ m.inStream # "live")

InMap(u, o) == o # None /\ HttpCache[u] = o

SlotSound(s) ==
  /\ fEasy[s] # None => file[s].mode = "NONE"
  /\ InputGone(tidy[s]) => fEasy[s] = None /\ file[s].mode = "NONE"
  /\ file[s].mode = "CACHED" => InMap(file[s].sFilename, file[s].cacheObject)
  /\ tidy[s].mode = "CACHED" => InMap(tidy[s].sURL, tidy[s].cacheObject)
  /\ tidy[s].mode = "NONE" => tidy[s].status # "open"
  /\ tidy[s].mode # "NONE" => tidy[s].bUseCache
  /\ tidy[s].mode = "TIDY" /\ tidy[s].inStream = "live" =>
       tidy[s].status = "open" /\ tidy[s].out = <<>>
  /\ tidy[s].bTidied => tidy[s].inStream # "live"

SlotsSound == \A s \in Stream : SlotSound(s)

NothingAfter ==
  instance = "destroyed" =>
    /\ AllClosed /\ calling = None
    /\ \A o \in Obj : ~Exists(heap[o])

CustodyInv == TidyTypeInv /\ SeqInv /\ SlotsSound /\ NothingAfter

\* What a TidyStream is told to keep, so that its object becomes the map's.
KeepsTidied == \A o \in Openings : o.tidy => o.later

\* A copy that the map has is a live object.
LEMMA CopyLive ==
  ASSUME SeqInv, NEW u \in Url, NEW o, InMap(u, o)
  PROVE  /\ o \in Obj /\ Live(o) /\ Use(o) = {}
         /\ heap \in [Obj -> CacheRecord] /\ heap[o] \in CacheRecord
<1>1. HttpCache \in [Url -> Obj \cup {None}] /\ heap \in [Obj -> CacheRecord]
  BY DEF SeqInv, TypeInv, TypeOK
<1>2. o \in Obj /\ Exists(heap[o])
  BY <1>1 DEF InMap, SeqInv, Custody, MapIntact, Cached
<1> QED  BY <1>1, <1>2, ObjAssumption DEF Live, Use

\* A lookup finds the map's object of the URL or nothing, and touches no freed
\* one.
LEMMA LookupSound ==
  ASSUME SeqInv, NEW u \in Url, NEW wanted
  PROVE  /\ Lookup(wanted, u) # None => InMap(u, Lookup(wanted, u))
         /\ UseOfEntry(wanted, u) = {}
         /\ GetCacheObject(heap, HttpCache, u) # None =>
              InMap(u, GetCacheObject(heap, HttpCache, u))
<1>1. HttpCache[u] # None => Use(HttpCache[u]) = {}
  BY CopyLive DEF InMap
<1> QED  BY <1>1 DEF Lookup, GetCacheObject, UseOfEntry, InMap

\* What is done to objects while no HTTP stream is open.
LEMMA SeqHeapStep ==
  ASSUME SeqInv, TypeInv', Open = {},
         \A o \in Obj : Exists(heap'[o]) = Exists(heap[o]),
         UNCHANGED <<HttpCache, fEasy, faults>>
  PROVE  SeqInv'
<1>1. Custody'
  BY CustodyKept DEF SeqInv, Custody, NoUseAfterFree, NoLeak
<1>2. Open' = {}
  BY DEF Open
<1>3. OnlyBorrowersRevalidate'
  BY <1>2 DEF OnlyBorrowersRevalidate
<1> QED  BY <1>1, <1>3 DEF SeqInv, OneAtATime, NoRedirection

\* With one slot, all of it may be said of that.
LEMMA OneSlot ==
  ASSUME SeqInv, NEW s \in Stream
  PROVE  /\ Stream = {s}
         /\ fEasy[s] = None => Open = {}
<1>1. Stream = {s}
  BY DEF SeqInv, OneAtATime
<1> QED  BY <1>1 DEF Open

LEMMA SeqUnmoved ==
  ASSUME SeqInv, UNCHANGED vars
  PROVE  SeqInv'
BY SeqElsewhere

LEMMA SeqReadStep ==
  ASSUME SeqInv, ReadStep
  PROVE  SeqInv'
BY SeqHeader, SeqBody, SeqTakeMessage, SeqPerformAgain, SeqEndRead
   DEF ReadStep, Transfer

\* Inside readBytes of an HTTP stream nothing is opened, closed or stored.
LEMMA ReadStepKeeps ==
  ASSUME ReadStep
  PROVE  UNCHANGED <<HttpCache, fEasy>>
BY DEF ReadStep, Transfer, Header, Data, Complete, Fail, TakeMessage, TakeFinished,
       TakeUnmodified, TakeRedirect, TakeError, PerformAgain, EndRead, EndReadFromCache,
       handlerVars

-----------------------------------------------------------------------------
(***************************************************************************)
(* The inputs.                                                             *)
(***************************************************************************)
LEMMA CustodyOpenInput ==
  ASSUME SeqInv, FilePart, NEW s \in Stream, NEW o \in Opens, OpenInput(s, o),
         Free(s), TypeInv'
  PROVE  /\ SeqInv' /\ HttpCache' = HttpCache
         /\ fEasy'[s] # None => file'[s].mode = "NONE"
         /\ file'[s].mode = "CACHED" =>
              InMap(file'[s].sFilename, file'[s].cacheObject)
<1>1. o.url \in Url
  BY DEF Opens
<1>2. CASE NewStream(s, o.url, Mode(o)) /\ UNCHANGED file
  <2>1. SeqInv'
    BY <1>1, <1>2, SeqNewStream
  <2>2. HttpCache' = HttpCache
    BY <1>2 DEF NewStream
  <2> QED  BY <1>2, <2>1, <2>2 DEF Free
<1>3. CASE OpenFile(s, o.url, o.useCache)
  <2> DEFINE co == Lookup(o.useCache, o.url)
             bad == UseOfEntry(o.useCache, o.url)
  <2>1. /\ file' = [file EXCEPT ![s] = Constructed(o.url, co)]
        /\ faults' = faults \cup bad
        /\ UNCHANGED <<heap, HttpCache, fEasy>> /\ fEasy[s] = None
    BY <1>3 DEF OpenFile, handlerVars
  <2>2. bad = {} /\ (co # None => InMap(o.url, co))
    BY <1>1, LookupSound
  <2> HIDE DEF co, bad
  <2>3. SeqInv'
    BY <2>1, <2>2, OneSlot, SeqHeapStep
  <2>4. file'[s] = Constructed(o.url, co)
    BY <2>1 DEF FilePart
  <2>5. file'[s].mode = "CACHED" => co # None /\ file'[s].sFilename = o.url
                                    /\ file'[s].cacheObject = co
    BY <2>4 DEF Constructed, NoFile
  <2> QED  BY <2>1, <2>2, <2>3, <2>5
<1> QED  BY <1>2, <1>3 DEF OpenInput

\* What a reader of a copy does to the heap.
LEMMA CopyReadKeeps ==
  ASSUME SeqInv, NEW u \in Url, NEW o, InMap(u, o), NEW n \in Nat,
         NEW r \in IF Live(o) THEN ReadOutcomes(heap[o], n) ELSE NothingRead(o)
  PROVE  \A p \in Obj : Exists(Update(o, r.obj)[p]) = Exists(heap[p])
<1>1. o \in Obj /\ Live(o) /\ heap \in [Obj -> CacheRecord] /\ heap[o] \in CacheRecord
  BY CopyLive
<1>2. Exists(r.obj)
  BY <1>1, OperationsKeepObjects DEF Live
<1> QED  BY <1>1, <1>2 DEF Update, Live

LEMMA CustodyReadInput ==
  ASSUME SeqInv, FilePart, TypeInv', NEW s \in Stream, SlotSound(s),
         NEW n \in 1 .. MaxRead, ReadInput(s, n)
  PROVE  /\ SeqInv' /\ UNCHANGED <<HttpCache, fEasy>>
         /\ file'[s].mode = file[s].mode
         /\ file'[s].sFilename = file[s].sFilename
         /\ file'[s].cacheObject = file[s].cacheObject
<1>1. n \in Nat
  BY ClientAssumption
<1>2. file[s] \in FileRecord /\ (file[s].mode # "NONE" => file[s].sFilename \in Url)
  BY DEF FilePart, FilesSetUp
<1>3. CASE BeginRead(s, n) /\ UNCHANGED file
  BY <1>3, SeqBeginRead DEF BeginRead, handlerVars
<1>4. ASSUME file[s].mode # "NONE", UNCHANGED httpVars
      PROVE  SeqInv' /\ UNCHANGED <<HttpCache, fEasy>>
  BY <1>4, OneSlot, SeqHeapStep DEF SlotSound, httpVars
<1>5. CASE ReadDisk(s, n)
  BY <1>2, <1>4, <1>5 DEF ReadDisk, ReadsFile, FilePart, FileRecord
<1>6. CASE ReadDiskFails(s)
  BY <1>4, <1>6 DEF ReadDiskFails, ReadsFile
<1>7. CASE ReadCopy(s, n)
  <2> DEFINE o == file[s].cacheObject
             u == file[s].sFilename
  <2>1. PICK r \in IF Live(o) THEN ReadOutcomes(heap[o], n) ELSE NothingRead(o) :
          /\ heap' = Update(o, r.obj)
          /\ file' = [file EXCEPT ![s].fTotalBytesRead = @ + Len(r.data)]
    BY <1>7 DEF ReadCopy
  <2>2. /\ faults' = faults \cup Use(o) /\ UNCHANGED <<HttpCache, fEasy>>
        /\ file[s].mode = "CACHED" /\ fEasy[s] = None
    BY <1>7 DEF ReadCopy, SlotSound
  <2>3. InMap(u, o) /\ u \in Url
    BY <1>2, <2>2 DEF SlotSound
  <2>4. /\ file'[s].mode = file[s].mode /\ file'[s].sFilename = file[s].sFilename
        /\ file'[s].cacheObject = file[s].cacheObject
    BY <1>2, <2>1 DEF FilePart, FileRecord
  <2> HIDE DEF o, u
  <2>5. Use(o) = {}
    BY <2>3, CopyLive
  <2>6. \A p \in Obj : Exists(heap'[p]) = Exists(heap[p])
    BY <1>1, <2>1, <2>3, CopyReadKeeps
  <2>7. SeqInv'
    BY <2>2, <2>5, <2>6, OneSlot, SeqHeapStep
  <2> QED  BY <2>2, <2>4, <2>7
<1> QED  BY <1>3, <1>5, <1>6, <1>7 DEF ReadInput, ReadFile

\* A copy that was read is put back.
LEMMA ReleasedKeeps ==
  ASSUME SeqInv, NEW u \in Url, NEW o, InMap(u, o)
  PROVE  /\ Live(o) /\ Use(o) = {}
         /\ \A p \in Obj : Exists([heap EXCEPT ![o] = Released(@)][p]) = Exists(heap[p])
<1>1. o \in Obj /\ Live(o) /\ heap \in [Obj -> CacheRecord] /\ heap[o] \in CacheRecord
      /\ Use(o) = {}
  BY CopyLive
<1>2. Exists(Released(heap[o]))
  BY <1>1, OperationsKeepObjects DEF Live, Released
<1> QED  BY <1>1, <1>2 DEF Live

LEMMA CustodyCloseFile ==
  ASSUME SeqInv, FilePart, TypeInv', NEW s \in Stream, SlotSound(s), CloseFile(s)
  PROVE  /\ SeqInv' /\ HttpCache' = HttpCache
         /\ fEasy'[s] = None /\ file'[s].mode = "NONE"
<1> DEFINE o == file[s].cacheObject
           u == file[s].sFilename
<1>1. /\ file[s].mode # "NONE"
      /\ heap' = IF file[s].mode = "CACHED" /\ Live(o)
                 THEN [heap EXCEPT ![o] = Released(@)] ELSE heap
      /\ faults' = IF file[s].mode = "CACHED" THEN faults \cup Use(o) ELSE faults
      /\ file' = [file EXCEPT ![s] = NoFile]
      /\ UNCHANGED <<HttpCache, fEasy>>
  BY DEF CloseFile
<1>2. fEasy[s] = None /\ u \in Url
  BY <1>1 DEF SlotSound, FilePart, FilesSetUp
<1>3. file'[s].mode = "NONE"
  BY <1>1 DEF FilePart, NoFile
<1>4. file[s].mode = "CACHED" => InMap(u, o)
  BY DEF SlotSound
<1> HIDE DEF o, u
<1>5. (\A p \in Obj : Exists(heap'[p]) = Exists(heap[p])) /\ faults' = faults
  BY <1>1, <1>2, <1>4, ReleasedKeeps
<1>6. SeqInv'
  BY <1>1, <1>2, <1>5, OneSlot, SeqHeapStep
<1> QED  BY <1>1, <1>2, <1>3, <1>6

LEMMA CustodyDeleteInput ==
  ASSUME SeqInv, FilePart, TypeInv', NEW s \in Stream, SlotSound(s), DeleteInput(s)
  PROVE  /\ SeqInv' /\ fEasy'[s] = None /\ file'[s].mode = "NONE"
<1>1. CASE fEasy[s] # None /\ Delete(s) /\ UNCHANGED file
  <2>1. fEasy'[s] = None
    BY <1>1 DEF Delete, SeqInv, TypeInv, TypeOK
  <2> QED  BY <1>1, <2>1, SeqDelete DEF SlotSound
<1>2. CASE CloseFile(s)
  BY <1>2, CustodyCloseFile
<1> QED  BY <1>1, <1>2 DEF DeleteInput

-----------------------------------------------------------------------------
(***************************************************************************)
(* TidyStreams and their input.                                            *)
(***************************************************************************)
\* With one slot, and the instance live, it is enough to look at that slot.
LEMMA CustodyAt ==
  ASSUME CustodyInv, TidyTypeInv', SeqInv', NEW s \in Stream, SlotSound(s)',
         instance = "live", instance' = "live"
  PROVE  CustodyInv'
<1>1. Stream = {s}
  BY OneSlot DEF CustodyInv
<1>2. SlotsSound'
  BY <1>1 DEF SlotsSound
<1>3. NothingAfter'
  BY DEF NothingAfter
<1> QED  BY <1>2, <1>3 DEF CustodyInv

\* What is known of the slot of a TidyStream.
LEMMA SlotKnown ==
  ASSUME CustodyInv, NEW s \in Stream
  PROVE  /\ SeqInv /\ TidyTypeInv /\ FilePart /\ TidyPart /\ SlotSound(s)
         /\ tidy[s] \in TidyRecord /\ tidy \in [Stream -> TidyRecord]
         /\ file \in [Stream -> FileRecord]
         /\ tidy[s].mode # "NONE" => tidy[s].sURL \in Url
BY TidyMembers DEF CustodyInv, SlotsSound, TidyTypeInv, TidyPart, FilePart

\* A change of the members of a TidyStream that moves nothing below it.
LEMMA SlotKept ==
  ASSUME CustodyInv, NEW s \in Stream, NEW m \in TidyRecord,
         tidy' = [tidy EXCEPT ![s] = m],
         UNCHANGED <<HttpCache, fEasy>>,
         file'[s].mode = file[s].mode,
         file'[s].sFilename = file[s].sFilename,
         file'[s].cacheObject = file[s].cacheObject,
         m.mode = tidy[s].mode, m.mode # "NONE",
         m.sURL = tidy[s].sURL, m.bUseCache = tidy[s].bUseCache,
         m.inStream = tidy[s].inStream, m.cacheObject = tidy[s].cacheObject,
         m.bTidied = tidy[s].bTidied,
         m.mode = "TIDY" /\ m.inStream = "live" =>
           m.status = tidy[s].status /\ m.out = tidy[s].out
  PROVE  SlotSound(s)'
<1>1. tidy'[s] = m
  BY SlotKnown
<1>2. SlotSound(s)
  BY SlotKnown
<1> QED  BY <1>1, <1>2 DEF SlotSound, InputGone, InMap

LEMMA CustodyOpenStream ==
  ASSUME CustodyInv, TidyTypeInv', NEW s \in Stream, NEW o \in Opens,
         o.tidy => o.later, OpenStream(s, o)
  PROVE  CustodyInv'
<1>1. /\ instance = "live" /\ instance' = "live" /\ Free(s) /\ OpenInput(s, o)
      /\ tidy' = IF o.tidy THEN [tidy EXCEPT ![s] = TidyConstructed(o)] ELSE tidy
  BY DEF OpenStream
<1>2. /\ SeqInv' /\ HttpCache' = HttpCache
      /\ fEasy'[s] # None => file'[s].mode = "NONE"
      /\ file'[s].mode = "CACHED" =>
           InMap(file'[s].sFilename, file'[s].cacheObject)
  BY <1>1, SlotKnown, CustodyOpenInput DEF TidyTypeInv
<1>3. SlotSound(s) /\ tidy \in [Stream -> TidyRecord]
  BY SlotKnown
<1>4. SlotSound(s)'
  <2>1. CASE ~o.tidy
    BY <1>1, <1>2, <1>3, <2>1 DEF SlotSound, InMap, InputGone, Free
  <2>2. CASE o.tidy
    <3> DEFINE m == TidyConstructed(o)
    <3>1. tidy'[s] = m
      BY <1>1, <1>3, <2>2
    <3>2. /\ m.mode \in {"PASSTROUGH", "TIDY"} /\ m.inStream = "live"
          /\ m.status = "open" /\ m.out = <<>> /\ m.bUseCache /\ ~m.bTidied
      BY <2>2 DEF TidyConstructed, NoTidy
    <3> HIDE DEF m
    <3> QED  BY <1>2, <3>1, <3>2 DEF SlotSound, InMap, InputGone
  <2> QED  BY <2>1, <2>2
<1> QED  BY <1>1, <1>2, <1>4, CustodyAt

\* While a slot is in use, or a call is in progress, the instance is live.
LEMMA InUse ==
  ASSUME CustodyInv, NEW s \in Stream,
         calling = s \/ fEasy[s] # None \/ file[s].mode # "NONE"
           \/ tidy[s].mode # "NONE"
  PROVE  instance = "live"
<1>1. instance \in {"live", "destroyed"} /\ s # None
  BY StreamAssumption DEF CustodyInv, TidyTypeInv, TidyPart
<1> QED  BY <1>1 DEF CustodyInv, NothingAfter, AllClosed, Free

LEMMA CustodyReads ==
  ASSUME CustodyInv, TidyTypeInv', NEW s \in Stream,
         \/ \E n \in 1 .. MaxRead : ReadPlain(s, n)
         \/ AskInput(s) \/ AskAndPassOn(s)
  PROVE  CustodyInv'
<1>1. PICK n \in 1 .. MaxRead : ReadInput(s, n)
  <2>1. MaxRead \in 1 .. MaxRead
    BY ClientAssumption
  <2>2. AskAndPassOn(s) => tidy[s].want \in 1 .. MaxRead
    BY StreamAssumption, SlotKnown DEF AskAndPassOn, Calls, TidyPart, CallerWants
  <2> QED  BY <2>1, <2>2 DEF ReadPlain, AskInput, AskAndPassOn
<1>2. /\ SeqInv' /\ UNCHANGED <<HttpCache, fEasy>>
      /\ file'[s].mode = file[s].mode
      /\ file'[s].sFilename = file[s].sFilename
      /\ file'[s].cacheObject = file[s].cacheObject
  BY <1>1, SlotKnown, CustodyReadInput DEF TidyTypeInv
<1>3. instance = "live" /\ instance' = "live"
  <2>1. fEasy[s] # None \/ file[s].mode # "NONE"
    BY <1>1 DEF ReadInput, ReadFile, ReadDisk, ReadDiskFails, ReadCopy, ReadsFile
  <2> QED  BY <2>1, InUse DEF ReadPlain, AskInput, AskAndPassOn
<1>4. SlotSound(s)'
  <2>1. CASE tidy' = tidy
    BY <1>2, <2>1, SlotKnown DEF SlotSound, InMap, InputGone
  <2>2. CASE AskAndPassOn(s)
    <3> DEFINE m == [tidy[s] EXCEPT !.asked = TRUE]
    <3>1. tidy' = [tidy EXCEPT ![s] = m] /\ tidy[s].mode = "PASSTROUGH"
      BY <2>2, SlotKnown DEF AskAndPassOn
    <3>2. /\ m \in TidyRecord /\ m.mode = tidy[s].mode /\ m.sURL = tidy[s].sURL
          /\ m.bUseCache = tidy[s].bUseCache /\ m.inStream = tidy[s].inStream
          /\ m.cacheObject = tidy[s].cacheObject /\ m.bTidied = tidy[s].bTidied
      BY ZenonT(60), SlotKnown DEF TidyRecord
    <3> HIDE DEF m
    <3> QED  BY <1>2, <3>1, <3>2, SlotKept
  <2> QED  BY <2>1, <2>2 DEF ReadPlain, AskInput
<1> QED  BY <1>2, <1>3, <1>4, CustodyAt

\* Steps of a TidyStream on its own members only.
LEMMA CustodyReturns ==
  ASSUME CustodyInv, TidyTypeInv', NEW s \in Stream, UNCHANGED <<vars, file, instance>>,
         NEW m \in TidyRecord, tidy' = [tidy EXCEPT ![s] = m],
         m.mode = tidy[s].mode, m.mode # "NONE",
         m.sURL = tidy[s].sURL, m.bUseCache = tidy[s].bUseCache,
         m.inStream = tidy[s].inStream, m.cacheObject = tidy[s].cacheObject,
         m.bTidied = tidy[s].bTidied,
         m.mode = "TIDY" /\ m.inStream = "live" =>
           m.status = tidy[s].status /\ m.out = tidy[s].out
  PROVE  CustodyInv'
<1>1. SeqInv'
  BY SlotKnown, SeqUnmoved
<1>2. SlotSound(s)'
  BY SlotKept DEF vars
<1>3. instance = "live" /\ instance' = "live"
  BY InUse
<1> QED  BY <1>1, <1>2, <1>3, CustodyAt

\* What readBytes of a TidyStream leaves in its members when it returns.
LEMMA ReturnedMembers ==
  ASSUME TidyPart, NEW s \in Stream, NEW data \in Seq(Piece),
         TidyReturns(s, data, tidy[s])
  PROVE  \E m \in TidyRecord :
           /\ tidy' = [tidy EXCEPT ![s] = m]
           /\ m.mode = tidy[s].mode
           /\ m.sURL = tidy[s].sURL /\ m.bUseCache = tidy[s].bUseCache
           /\ m.inStream = tidy[s].inStream /\ m.cacheObject = tidy[s].cacheObject
           /\ m.bTidied = tidy[s].bTidied
<1> DEFINE m0  == tidy[s]
           sum == m0.fTotalBytesRead + Len(data)
           had == m0.out \o data
           how == IF data = <<>> THEN "eof" ELSE "open"
           m   == [m0 EXCEPT !.want = 0, !.asked = FALSE, !.fTotalBytesRead = sum,
                             !.out = had, !.status = how]
<1>1. tidy' = [tidy EXCEPT ![s] = m]
  BY DEF TidyReturns
<1>2. m0 \in TidyRecord /\ m0.out \in Seq(Piece) /\ m0.fTotalBytesRead \in Nat
  BY TidyMembers
<1>3. sum \in Nat /\ had \in Seq(Piece) /\ how \in {"eof", "open"}
  BY <1>2, LenProperties, ConcatProperties
<1> HIDE DEF sum, had, how, m0
<1>4. /\ m \in TidyRecord /\ m.mode = m0.mode
      /\ m.sURL = m0.sURL /\ m.bUseCache = m0.bUseCache
      /\ m.inStream = m0.inStream /\ m.cacheObject = m0.cacheObject
      /\ m.bTidied = m0.bTidied
  BY <1>2, <1>3 DEF TidyRecord
<1> HIDE DEF m
<1> QED  BY <1>1, <1>4 DEF m0

LEMMA CustodyOwnSteps ==
  ASSUME CustodyInv, TidyTypeInv', NEW s \in Stream,
         \/ \E n \in 1 .. MaxRead : BeginTidyRead(s, n)
         \/ DeliverBuffer(s) \/ PassOn(s) \/ PassErrorOn(s)
  PROVE  CustodyInv'
<1>1. /\ tidy[s] \in TidyRecord /\ tidy \in [Stream -> TidyRecord] /\ TidyPart
      /\ SlotSound(s)
  BY SlotKnown
<1>2. UNCHANGED <<vars, file, instance>>
  BY DEF BeginTidyRead, DeliverBuffer, PassOn, PassErrorOn, baseVars
<1>3. CASE \E n \in 1 .. MaxRead : BeginTidyRead(s, n)
  <2>1. PICK n \in 1 .. MaxRead : BeginTidyRead(s, n)
    BY <1>3
  <2> DEFINE m == [tidy[s] EXCEPT !.want = n]
  <2>2. /\ tidy' = [tidy EXCEPT ![s] = m] /\ tidy[s].status = "open"
    BY <1>1, <2>1 DEF BeginTidyRead
  <2>3. n \in Nat
    BY ClientAssumption
  <2>4. /\ m \in TidyRecord /\ m.mode = tidy[s].mode
        /\ m.sURL = tidy[s].sURL /\ m.bUseCache = tidy[s].bUseCache
        /\ m.inStream = tidy[s].inStream /\ m.cacheObject = tidy[s].cacheObject
        /\ m.bTidied = tidy[s].bTidied
        /\ m.status = tidy[s].status /\ m.out = tidy[s].out
    BY <1>1, <2>3 DEF TidyRecord
  <2> HIDE DEF m
  <2>5. m.mode # "NONE"
    BY <1>1, <2>2, <2>4 DEF SlotSound
  <2> QED  BY <1>2, <2>2, <2>4, <2>5, CustodyReturns
<1>4. ASSUME NEW data \in Seq(Piece), TidyReturns(s, data, tidy[s]),
             tidy[s].mode # "NONE", tidy[s].mode = "TIDY" => tidy[s].bTidied
      PROVE  CustodyInv'
  <2>1. PICK m \in TidyRecord :
          /\ tidy' = [tidy EXCEPT ![s] = m]
          /\ m.mode = tidy[s].mode
          /\ m.sURL = tidy[s].sURL /\ m.bUseCache = tidy[s].bUseCache
          /\ m.inStream = tidy[s].inStream /\ m.cacheObject = tidy[s].cacheObject
          /\ m.bTidied = tidy[s].bTidied
    BY <1>1, <1>4, ReturnedMembers
  <2> QED  BY <1>1, <1>2, <1>4, <2>1, CustodyReturns DEF SlotSound
<1>5. CASE DeliverBuffer(s)
  <2> DEFINE m    == tidy[s]
             k    == Least(m.want, Len(m.outbuf) - m.fTotalBytesRead)
             last == m.fTotalBytesRead + k
             data == SubSeq(m.outbuf, m.fTotalBytesRead + 1, last)
  <2>1. TidyReturns(s, data, tidy[s]) /\ m.mode = "TIDY" /\ m.bTidied
    BY <1>5 DEF DeliverBuffer
  <2>2. data \in Seq(Piece)
    <3>1. m.outbuf \in Seq(Piece) /\ m.fTotalBytesRead \in Nat /\ m.want \in Nat
      BY <1>1, TidyMembers
    <3> HIDE DEF m
    <3>2. Len(m.outbuf) \in Nat
      BY <3>1, LenProperties
    <3>3. last \in Int /\ last <= Len(m.outbuf)
      BY <3>1, <3>2 DEF Least
    <3> HIDE DEF last
    <3> QED  BY <3>1, <3>3, PartType
  <2> HIDE DEF data
  <2> QED  BY <1>4, <2>1, <2>2
<1>6. CASE PassOn(s)
  <2> DEFINE m    == tidy[s]
             data == SubSeq(out[s], Len(m.out) + 1, Len(out[s]))
  <2>1. TidyReturns(s, data, m) /\ m.mode = "PASSTROUGH"
    BY <1>6 DEF PassOn
  <2>2. data \in Seq(Piece)
    <3>1. out[s] \in Seq(Piece) /\ m.out \in Seq(Piece)
      BY <1>1, TidyMembers, SlotKnown DEF TidyTypeInv, TypeInv, TypeOK
    <3>2. Len(out[s]) \in Nat /\ Len(m.out) \in Nat
      BY <3>1, LenProperties
    <3> QED  BY <3>1, <3>2, PartType
  <2> HIDE DEF data
  <2> QED  BY <1>4, <2>1, <2>2
<1>7. CASE PassErrorOn(s)
  <2> DEFINE m == [tidy[s] EXCEPT !.status = "error", !.asked = FALSE, !.want = 0]
  <2>1. tidy' = [tidy EXCEPT ![s] = m] /\ tidy[s].mode = "PASSTROUGH"
    BY <1>1, <1>7 DEF PassErrorOn
  <2>2. /\ m \in TidyRecord /\ m.mode = tidy[s].mode
        /\ m.sURL = tidy[s].sURL /\ m.bUseCache = tidy[s].bUseCache
        /\ m.inStream = tidy[s].inStream /\ m.cacheObject = tidy[s].cacheObject
        /\ m.bTidied = tidy[s].bTidied
    BY <1>1 DEF TidyRecord
  <2> HIDE DEF m
  <2> QED  BY <1>2, <2>1, <2>2, CustodyReturns
<1> QED  BY <1>3, <1>5, <1>6, <1>7

\* The end of the input, of a TidyStream or with it.
LEMMA CustodyDeletes ==
  ASSUME CustodyInv, TidyTypeInv', NEW s \in Stream,
         \/ DeleteAtEnd(s) \/ DeleteOnError(s)
         \/ DeletePlain(s) \/ DeletePassThrough(s)
  PROVE  CustodyInv'
<1>1. /\ tidy[s] \in TidyRecord /\ tidy \in [Stream -> TidyRecord]
      /\ SlotSound(s) /\ SeqInv /\ FilePart
  BY SlotKnown
<1>2. DeleteInput(s) /\ instance' = instance
  BY DEF DeleteAtEnd, DeleteOnError, DeletePlain, DeletePassThrough, DeleteInput
<1>3. SeqInv' /\ fEasy'[s] = None /\ file'[s].mode = "NONE"
  BY <1>1, <1>2, CustodyDeleteInput DEF TidyTypeInv
<1>4. instance = "live" /\ instance' = "live"
  <2>1. fEasy[s] # None \/ file[s].mode # "NONE"
    BY <1>2 DEF DeleteInput, CloseFile
  <2> QED  BY <1>2, <2>1, InUse
<1>5. tidy'[s].mode # "CACHED"
      /\ (tidy'[s].mode = "NONE" => tidy'[s].status # "open")
      /\ (tidy'[s].mode # "NONE" => tidy'[s].bUseCache)
      /\ (tidy'[s].mode = "TIDY" => tidy'[s].inStream # "live")
      /\ (tidy'[s].bTidied => tidy'[s].inStream # "live")
  <2>1. CASE DeleteAtEnd(s)
    BY <1>1, <2>1 DEF DeleteAtEnd, Performs, SlotSound, TidyRecord
  <2>2. CASE DeleteOnError(s)
    BY <1>1, <2>2 DEF DeleteOnError, Performs, SlotSound, TidyRecord
  <2>3. CASE DeletePlain(s)
    BY <1>1, <2>3 DEF DeletePlain, SlotSound
  <2>4. CASE DeletePassThrough(s)
    BY <1>1, <2>4 DEF DeletePassThrough, NoTidy
  <2> QED  BY <2>1, <2>2, <2>3, <2>4
<1>6. SlotSound(s)'
  BY <1>3, <1>5 DEF SlotSound, InMap, InputGone
<1> QED  BY <1>3, <1>4, <1>6, CustodyAt

\* The copies a TidyStream has found, read and put back.
LEMMA CustodyCopies ==
  ASSUME CustodyInv, TidyTypeInv', NEW s \in Stream,
         UseTidiedCopy(s) \/ DeliverCopy(s) \/ DeleteCached(s) \/ DeleteTidied(s)
  PROVE  CustodyInv'
<1>1. /\ tidy[s] \in TidyRecord /\ tidy \in [Stream -> TidyRecord] /\ TidyPart
      /\ SlotSound(s) /\ SeqInv /\ TidyTypeInv
      /\ tidy[s].mode # "NONE" => tidy[s].sURL \in Url
  BY SlotKnown
<1>2. /\ UNCHANGED <<HttpCache, fEasy, file>> /\ instance' = instance
      /\ tidy[s].mode # "NONE"
      /\ InputGone(tidy[s])
  BY DEF UseTidiedCopy, Mends, Performs, DeliverCopy, DeleteCached, DeleteTidied,
         InputGone, baseVars, vars
<1>3. /\ instance = "live" /\ instance' = "live"
      /\ fEasy[s] = None /\ file[s].mode = "NONE"
  BY <1>1, <1>2, InUse DEF SlotSound
<1>4. ASSUME \A p \in Obj : Exists(heap'[p]) = Exists(heap[p]), faults' = faults
      PROVE  SeqInv'
  BY <1>1, <1>2, <1>3, <1>4, OneSlot, SeqHeapStep DEF TidyTypeInv
<1>5. CASE UseTidiedCopy(s)
  <2> DEFINE o == CopyFound(s)
             u == tidy[s].sURL
             m == [tidy[s] EXCEPT !.mode = "CACHED", !.cacheObject = o, !.bTidied = TRUE]
  <2>1. /\ Live(o) /\ heap' = Update(o, ResetState(heap[o])) /\ faults' = faults
        /\ tidy' = [tidy EXCEPT ![s] = m] /\ tidy[s].inStream = "NULL"
    BY <1>1, <1>5 DEF UseTidiedCopy, Mends
  <2>2. InMap(u, o) /\ u \in Url
    BY <1>1, <1>2, <2>1, LookupSound DEF CopyFound, Live
  <2>3. /\ m \in TidyRecord /\ m.mode = "CACHED" /\ m.cacheObject = o
        /\ m.sURL = tidy[s].sURL /\ m.bUseCache = tidy[s].bUseCache
        /\ m.inStream = tidy[s].inStream
    <3>1. o \in Obj
      BY <1>1, <2>2, CopyLive
    <3> HIDE DEF o
    <3> QED  BY <1>1, <3>1 DEF TidyRecord
  <2>4. SlotSound(s)'
    <3> HIDE DEF m, o
    <3> QED  BY <1>1, <1>2, <1>3, <2>1, <2>2, <2>3 DEF SlotSound, InMap, InputGone
  <2>5. \A p \in Obj : Exists(heap'[p]) = Exists(heap[p])
    <3> HIDE DEF m, o, u
    <3>1. /\ o \in Obj /\ heap \in [Obj -> CacheRecord] /\ heap[o] \in CacheRecord
      BY <1>1, <2>2, CopyLive
    <3>2. Exists(ResetState(heap[o]))
      BY <2>1, <3>1, OperationsKeepObjects DEF Live
    <3> QED  BY <2>1, <3>1, <3>2 DEF Update, Live
  <2>6. SeqInv'
    BY <1>4, <2>1, <2>5
  <2> QED  BY <1>3, <2>4, <2>6, CustodyAt
<1>6. CASE DeliverCopy(s)
  <2> DEFINE o == tidy[s].cacheObject
             u == tidy[s].sURL
  <2>1. PICK r \in IF Live(o) THEN ReadOutcomes(heap[o], tidy[s].want)
                   ELSE NothingRead(o) :
          heap' = Update(o, r.obj) /\ TidyReturns(s, r.data, tidy[s])
    BY <1>6 DEF DeliverCopy
  <2>2. faults' = faults \cup Use(o) /\ tidy[s].mode = "CACHED"
    BY <1>6 DEF DeliverCopy
  <2>3. InMap(u, o) /\ u \in Url /\ tidy[s].want \in Nat /\ o \in Obj \cup {None}
    BY <1>1, <1>2, <2>2, TidyMembers DEF SlotSound
  <2>4. r.data \in Seq(Piece)
    BY <1>1, <2>1, <2>3, CopyReadType DEF TidyTypeInv
  <2>5. PICK m \in TidyRecord :
          /\ tidy' = [tidy EXCEPT ![s] = m]
          /\ m.mode = tidy[s].mode
          /\ m.sURL = tidy[s].sURL /\ m.bUseCache = tidy[s].bUseCache
          /\ m.inStream = tidy[s].inStream /\ m.cacheObject = tidy[s].cacheObject
          /\ m.bTidied = tidy[s].bTidied
    BY <1>1, <2>1, <2>4, ReturnedMembers
  <2>6. SlotSound(s)'
    BY <1>2, <2>2, <2>5, SlotKept
  <2> HIDE DEF o, u
  <2>7. Use(o) = {}
    BY <1>1, <2>3, CopyLive
  <2>8. \A p \in Obj : Exists(heap'[p]) = Exists(heap[p])
    BY <1>1, <2>1, <2>3, CopyReadKeeps
  <2>9. SeqInv'
    BY <1>4, <2>2, <2>7, <2>8
  <2> QED  BY <1>3, <2>6, <2>9, CustodyAt
<1>7. ASSUME tidy' = [tidy EXCEPT ![s] = NoTidy]
      PROVE  SlotSound(s)'
  BY <1>1, <1>2, <1>3, <1>7 DEF SlotSound, InMap, InputGone, NoTidy
<1>8. CASE DeleteCached(s)
  <2> DEFINE o == tidy[s].cacheObject
             u == tidy[s].sURL
  <2>1. /\ heap' = IF Live(o) THEN [heap EXCEPT ![o] = Released(@)] ELSE heap
        /\ faults' = faults \cup Use(o) /\ tidy[s].mode = "CACHED"
        /\ tidy' = [tidy EXCEPT ![s] = NoTidy]
    BY <1>8 DEF DeleteCached
  <2>2. InMap(u, o) /\ u \in Url
    BY <1>1, <1>2, <2>1 DEF SlotSound
  <2> HIDE DEF o, u
  <2>3. SeqInv'
    BY <1>1, <1>4, <2>1, <2>2, ReleasedKeeps
  <2> QED  BY <1>3, <1>7, <2>1, <2>3, CustodyAt
<1>9. CASE DeleteTidied(s)
  BY <1>1, <1>3, <1>7, <1>9, SeqUnmoved, CustodyAt DEF DeleteTidied, baseVars
<1> QED  BY <1>5, <1>6, <1>8, <1>9

\* The object of a tidied text is one.
LEMMA TidiedObjectExists ==
  ASSUME NEW o \in CacheRecord, NEW text \in Seq(Piece)
  PROVE  Exists(TidiedObject(o, text))
<1> DEFINE p == WriteBytes(ResetState(o), text)
           q == FinishBytes(p)
<1>1. p \in CacheRecord
  BY ObjectOps, WriteBytesType
<1> HIDE DEF p
<1>2. q \in CacheRecord /\ Exists(q)
  BY <1>1, ObjectOps, OperationsKeepObjects
<1> HIDE DEF q
<1>3. ResetState(q) \in CacheRecord /\ Exists(ResetState(q))
  BY <1>2, ObjectOps, OperationsKeepObjects
<1>4. Exists(SetTidyFlag(ResetState(q)))
  <2> DEFINE r == ResetState(q)
  <2>1. r \in CacheRecord /\ Exists(r)
    BY <1>3
  <2> HIDE DEF r
  <2>2. Exists(SetTidyFlag(r))
    BY <2>1 DEF SetTidyFlag, Exists, CacheRecord
  <2> QED  BY <2>2 DEF r
<1> QED  BY <1>4 DEF TidiedObject, q, p

\* With no HTTP stream open all objects are the map's.
LEMMA AllInMap ==
  ASSUME SeqInv, Open = {}
  PROVE  Intact(heap, HttpCache) /\ AllKept(heap, HttpCache, {})
BY DEF SeqInv, Custody, MapIntact, NoLeak, Intact, AllKept, Cached

\* What Perform does to heap and map when it has mended a text: the object it
\* has found or made is the map's, whatever had to be freed for it.
LEMMA MendedSound ==
  ASSUME CustodyInv, NEW s \in Stream, MendInput(s)
  PROVE  /\ Intact(heap', HttpCache') /\ AllKept(heap', HttpCache', {})
         /\ "use_after_free" \notin faults' /\ "leak" \notin faults'
<1> DEFINE m     == tidy[s]
           u     == m.sURL
           found == CopyFound(s)
           text  == Tidy(u, m.docbuf)
<1>1. /\ SeqInv /\ SlotSound(s) /\ m.mode = "TIDY" /\ m.inStream = "NULL"
      /\ u \in Url /\ m.docbuf \in Seq(Piece) /\ m.bUseCache
  <2>1. m.mode = "TIDY" /\ m.inStream = "NULL"
    BY DEF MendInput, Mends, Performs
  <2> QED  BY <2>1, SlotKnown, TidyMembers DEF SlotSound
<1>2. Open = {} /\ Intact(heap, HttpCache) /\ AllKept(heap, HttpCache, {})
  BY <1>1, OneSlot, AllInMap DEF SlotSound, InputGone
<1>3. /\ found # None => InMap(u, found) /\ found \in Obj /\ Exists(heap[found])
      /\ UseOfEntry(TRUE, u) = {}
  <2>1. /\ found # None => InMap(u, found)
        /\ UseOfEntry(TRUE, u) = {}
    BY <1>1, LookupSound DEF CopyFound
  <2> QED  BY <1>1, <2>1, CopyLive DEF Live
<1>4. text \in Seq(Piece)
  BY <1>1, TidyType
<1>5. PICK new \in NewAddresses(found = None) :
        LET o      == IF found = None THEN new ELSE found
            before == HeapWith(new)
            filled == IF Exists(before[o])
                      THEN [before EXCEPT ![o] = TidiedObject(@, text)]
                      ELSE before
            after  == IF StoresTidied(m)
                      THEN AddCacheObject(filled, HttpCache, u, o)
                      ELSE [heap |-> IF found = None THEN heap ELSE filled,
                            cache |-> HttpCache,
                            bad |-> IF found = None THEN {"leak"} ELSE {}]
        IN
        /\ heap' = after.heap
        /\ HttpCache' = after.cache
        /\ faults' = faults \cup after.bad
                       \cup IF found = None THEN {} ELSE UseOfEntry(TRUE, u)
  BY DEF MendInput
<1> DEFINE o      == IF found = None THEN new ELSE found
           before == HeapWith(new)
           filled == IF Exists(before[o])
                     THEN [before EXCEPT ![o] = TidiedObject(@, text)]
                     ELSE before
           stored == AddCacheObject(filled, HttpCache, u, o)
<1>6. /\ heap' = stored.heap /\ HttpCache' = stored.cache
      /\ faults' = faults \cup stored.bad
  BY <1>1, <1>3, <1>5 DEF StoresTidied
<1>7. /\ found = None => new \in Obj /\ ~Exists(heap[new])
                         /\ \A w \in Url : HttpCache[w] # new
      /\ found # None => new = None
  BY DEF NewAddresses, Unused
<1>8. heap \in [Obj -> CacheRecord] /\ HttpCache \in [Url -> Obj \cup {None}]
  BY <1>1 DEF SeqInv, TypeInv, TypeOK
<1> HIDE DEF found, text, m, u
<1>9. /\ o \in Obj /\ before \in [Obj -> CacheRecord] /\ Exists(before[o])
      /\ \A p \in Obj : p # o => before[p] = heap[p]
  <2>1. CASE found = None
    <3>1. before = [heap EXCEPT ![new] = NewObject] /\ o = new
      BY <1>7, <2>1, ObjAssumption DEF HeapWith
    <3>2. Exists(NewObject) /\ NewObject \in CacheRecord
      BY NewObjectType DEF Exists, NewObject
    <3> QED  BY <1>7, <1>8, <2>1, <3>1, <3>2
  <2>2. CASE found # None
    BY <1>3, <1>7, <1>8, <2>2 DEF HeapWith
  <2> QED  BY <2>1, <2>2
<1>10. HttpCache[u] = o \/ \A w \in Url : HttpCache[w] # o
  BY <1>3, <1>7 DEF InMap
<1> HIDE DEF o, before
<1>11. /\ filled \in [Obj -> CacheRecord] /\ Exists(filled[o])
       /\ \A p \in Obj : p # o => filled[p] = heap[p]
  <2>1. TidiedObject(before[o], text) \in CacheRecord
        /\ Exists(TidiedObject(before[o], text))
    BY <1>4, <1>9, TidiedObjectType, TidiedObjectExists
  <2> QED  BY <1>9, <2>1
<1> HIDE DEF filled
<1>12. Intact(filled, HttpCache)
  BY <1>2, <1>10, <1>11, <1>8 DEF Intact
<1>13. AllKept(filled, HttpCache, {o})
  BY <1>2, <1>11 DEF AllKept
<1>14. /\ Intact(stored.heap, stored.cache) /\ AllKept(stored.heap, stored.cache, {})
       /\ stored.bad \subseteq {"iterator"}
  BY <1>1, <1>8, <1>9, <1>10, <1>11, <1>12, <1>13, AddCacheObjectIntact,
     AddCacheObjectType DEF m, u
<1> HIDE DEF stored
<1>15. "use_after_free" \notin faults' /\ "leak" \notin faults'
  BY <1>1, <1>6, <1>14 DEF SeqInv, Custody, NoUseAfterFree, NoLeak
<1> QED  BY <1>6, <1>14, <1>15

\* Custody, of a heap and map that are intact with no HTTP stream open.
LEMMA SeqIntactStep ==
  ASSUME SeqInv, TypeInv', Open = {}, UNCHANGED fEasy,
         Intact(heap', HttpCache'), AllKept(heap', HttpCache', {}),
         "use_after_free" \notin faults', "leak" \notin faults'
  PROVE  SeqInv'
<1>1. Open' = {}
  BY DEF Open
<1>2. MapIntact' /\ NoLeak' /\ NoUseAfterFree'
  BY DEF MapIntact, Cached, Intact, NoLeak, AllKept, NoUseAfterFree
<1>3. SoleDeleter' /\ OnlyBorrowersRevalidate'
  BY <1>1 DEF SoleDeleter, OnlyBorrowersRevalidate
<1> QED  BY <1>2, <1>3 DEF SeqInv, Custody, OneAtATime, NoRedirection

LEMMA CustodyMendInput ==
  ASSUME CustodyInv, TidyTypeInv', NEW s \in Stream, MendInput(s)
  PROVE  CustodyInv'
<1> DEFINE text == Tidy(tidy[s].sURL, tidy[s].docbuf)
           m    == [tidy[s] EXCEPT !.bTidied = TRUE, !.outbuf = text, !.docbuf = <<>>]
<1>1. /\ tidy[s] \in TidyRecord /\ tidy \in [Stream -> TidyRecord]
      /\ SlotSound(s) /\ SeqInv
  BY SlotKnown
<1>2. /\ UNCHANGED <<fEasy, file, instance>> /\ tidy' = [tidy EXCEPT ![s] = m]
      /\ tidy[s].mode = "TIDY" /\ tidy[s].inStream = "NULL"
  BY <1>1 DEF MendInput, Mends, Performs
<1>3. fEasy[s] = None /\ file[s].mode = "NONE"
  BY <1>1, <1>2 DEF SlotSound, InputGone
<1>4. SeqInv'
  BY <1>1, <1>2, <1>3, OneSlot, MendedSound, SeqIntactStep DEF TidyTypeInv
<1>5. /\ m.mode = "TIDY" /\ m.inStream = "NULL" /\ m.bUseCache
  BY <1>1, <1>2 DEF TidyRecord, SlotSound
<1> HIDE DEF m
<1>6. SlotSound(s)'
  BY <1>1, <1>2, <1>3, <1>5 DEF SlotSound, InMap, InputGone
<1>7. instance = "live" /\ instance' = "live"
  BY <1>2, InUse
<1> QED  BY <1>4, <1>6, <1>7, CustodyAt

\* DestroyInstance frees what the map has, and with all streams closed that is
\* everything.
LEMMA CustodyDestroyInstance ==
  ASSUME CustodyInv, TidyTypeInv', DestroyInstance
  PROVE  CustodyInv'
<1>1. /\ heap' = [o \in Obj |-> IF o \in FreedWithInstance THEN NoObject ELSE heap[o]]
      /\ HttpCache' = [u \in Url |-> None]
      /\ calling = None /\ AllClosed
      /\ UNCHANGED <<fEasy, faults, file, tidy, calling>>
  BY DEF DestroyInstance, AllClosed
<1>2. SeqInv /\ Open = {}
  BY <1>1 DEF CustodyInv, AllClosed, Free, Open
<1>3. ~Exists(NoObject)
  BY DEF Exists, NoObject, NewObject
<1>4. \A o \in Obj : ~Exists(heap'[o])
  <2> SUFFICES ASSUME NEW o \in Obj, Exists(heap'[o]) PROVE FALSE
    OBVIOUS
  <2>1. o \notin FreedWithInstance /\ Exists(heap[o])
    BY <1>1, <1>3
  <2>2. PICK u \in Url : HttpCache[u] = o
    BY <1>2, <2>1, AllInMap DEF AllKept
  <2> QED  BY <2>1, <2>2, ObjAssumption DEF FreedWithInstance, Cached
<1>5. SeqInv'
  <2>1. Intact(heap', HttpCache') /\ AllKept(heap', HttpCache', {})
    BY <1>1, <1>4 DEF Intact, AllKept
  <2>2. "use_after_free" \notin faults' /\ "leak" \notin faults'
    BY <1>1, <1>2 DEF SeqInv, Custody, NoUseAfterFree, NoLeak
  <2> QED  BY <1>1, <1>2, <2>1, <2>2, SeqIntactStep DEF TidyTypeInv
<1>6. SlotsSound'
  <2> SUFFICES ASSUME NEW s \in Stream PROVE SlotSound(s)'
    BY DEF SlotsSound
  <2>1. SlotSound(s) /\ Free(s)
    BY <1>1, SlotKnown DEF AllClosed
  <2> QED  BY <1>1, <2>1 DEF SlotSound, InMap, InputGone, Free
<1>7. NothingAfter'
  BY <1>1, <1>4 DEF NothingAfter, AllClosed, Free
<1> QED  BY <1>5, <1>6, <1>7 DEF CustodyInv

\* Steps that no TidyStream and no file stream takes part in.
LEMMA CustodyElsewhere ==
  ASSUME CustodyInv, TidyTypeInv',
         CallStep \/ (\E u \in Url : Publish(u)) \/ UNCHANGED tidyVars
  PROVE  CustodyInv'
<1>1. /\ UNCHANGED <<HttpCache, fEasy, file, tidy, calling, instance>>
      /\ instance = "destroyed" => heap' = heap
  <2>1. CASE CallStep
    <3>1. ReadStep /\ UNCHANGED <<file, tidy, calling, instance>>
      BY <2>1 DEF CallStep
    <3>2. instance # "destroyed"
      <4>1. PICK s \in Stream : fEasy[s] # None
        BY <3>1, StreamAssumption
           DEF ReadStep, Transfer, Header, Data, Complete, Fail, Performing, Running,
               TakeMessage, TakeFinished, TakeUnmodified, TakeRedirect, TakeError,
               Message, PerformAgain, EndRead, EndReadFromCache, CustodyInv,
               TidyTypeInv, TypeInv, TypeOK, CurrentExists, Open
      <4> QED  BY <4>1, InUse
    <3> QED  BY <3>1, <3>2, ReadStepKeeps
  <2>2. CASE (\E u \in Url : Publish(u)) \/ UNCHANGED tidyVars
    BY <2>2 DEF Publish, ServerUpdate, handlerVars, tidyVars, vars
  <2> QED  BY <2>1, <2>2
<1>2. SeqInv'
  BY SeqReadStep, SeqElsewhere DEF CallStep, Publish, tidyVars, CustodyInv
<1>3. SlotsSound'
  BY <1>1 DEF CustodyInv, SlotsSound, SlotSound, InMap, InputGone
<1>4. NothingAfter'
  BY <1>1 DEF CustodyInv, NothingAfter, AllClosed, Free
<1> QED  BY <1>2, <1>3, <1>4 DEF CustodyInv

LEMMA CustodyStep ==
  ASSUME CustodyInv, NEW openings, openings \subseteq Opens,
         \A o \in openings : o.tidy => o.later,
         ReadingStep(openings)
  PROVE  CustodyInv'
<1>1. TidyTypeInv'
  <2>1. StreamsStep(Opens)
    BY DEF StreamsStep, ReadingStep
  <2> QED  BY <2>1, TypeStreamsStep DEF CustodyInv
<1>2. CASE \E s \in Stream, o \in openings : OpenStream(s, o)
  BY <1>1, <1>2, CustodyOpenStream
<1>3. CASE \E s \in Stream : \/ \E n \in 1 .. MaxRead : ReadPlain(s, n)
                             \/ AskInput(s) \/ AskAndPassOn(s)
  BY <1>1, <1>3, CustodyReads
<1>4. CASE \E s \in Stream : \/ \E n \in 1 .. MaxRead : BeginTidyRead(s, n)
                             \/ DeliverBuffer(s) \/ PassOn(s) \/ PassErrorOn(s)
  BY <1>1, <1>4, CustodyOwnSteps
<1>5. CASE \E s \in Stream : \/ DeleteAtEnd(s) \/ DeleteOnError(s)
                             \/ DeletePlain(s) \/ DeletePassThrough(s)
  BY <1>1, <1>5, CustodyDeletes
<1>6. CASE \E s \in Stream : \/ UseTidiedCopy(s) \/ DeliverCopy(s)
                             \/ DeleteCached(s) \/ DeleteTidied(s)
  BY <1>1, <1>6, CustodyCopies
<1>7. CASE \E s \in Stream : MendInput(s)
  BY <1>1, <1>7, CustodyMendInput
<1>8. CASE DestroyInstance
  BY <1>1, <1>8, CustodyDestroyInstance
<1>9. CASE CallStep \/ (\E u \in Url : Publish(u)) \/ UNCHANGED tidyVars
  BY <1>1, <1>9, CustodyElsewhere
<1>10. CASE \E s \in Stream : TidyReadStep(s)
  BY <1>3, <1>4, <1>5, <1>6, <1>7, <1>10 DEF TidyReadStep
<1>11. CASE \E s \in Stream : Closes(s)
  BY <1>5, <1>6, <1>11 DEF Closes
<1> QED
  BY <1>2, <1>3, <1>4, <1>8, <1>9, <1>10, <1>11 DEF ReadingStep

LEMMA CustodyInit ==
  OneAtATime /\ NoRedirection /\ TidyInit => CustodyInv
<1> SUFFICES ASSUME OneAtATime, NoRedirection, TidyInit PROVE CustodyInv
  OBVIOUS
<1>1. TidyTypeInv /\ SeqInv
  BY TypeTidyInit, SeqInit DEF TidyInit
<1>2. SlotsSound
  BY DEF TidyInit, Init, FileInit, NoFile, NoTidy, SlotsSound, SlotSound, InputGone
<1>3. NothingAfter
  BY DEF TidyInit, NothingAfter
<1> QED  BY <1>1, <1>2, <1>3 DEF CustodyInv

LEMMA CustodyImplies ==
  CustodyInv => MapIntact /\ NoUseAfterFree /\ NoLeak /\ NothingLeft
BY DEF CustodyInv, SeqInv, Custody, NoLeak, NothingAfter, NothingLeft

(***************************************************************************)
(* With one stream at a time, of whatever kind, no redirects, and streams  *)
(* that are read before they are closed and told to cache what they tidy   *)
(* (UnreadTidied and LeakedCopy show why, see README):                     *)
(***************************************************************************)
TidySequential ==
  OneAtATime /\ NoRedirection /\ KeepsTidied /\ ~Abandons /\ TidySpec

LEMMA CustodyInvariant == TidySequential => []CustodyInv
<1> DEFINE IInv == KeepsTidied /\ ~Abandons /\ CustodyInv
<1>1. KeepsTidied /\ ~Abandons /\ OneAtATime /\ NoRedirection /\ TidyInit => IInv
  BY CustodyInit
<1>2. IInv /\ [TidyNext]_tidyVars => IInv'
  <2> SUFFICES ASSUME KeepsTidied, ~Abandons, CustodyInv, [TidyNext]_tidyVars
               PROVE  IInv'
    OBVIOUS
  <2>1. ReadingStep(Openings)
    BY TidySteps DEF StreamsStep, DeleteUnread
  <2>2. CustodyInv'
    BY <2>1, CustodyStep, OpeningsAssumption DEF KeepsTidied
  <2> QED  BY <2>2 DEF KeepsTidied
<1> QED  BY <1>1, <1>2, PTL DEF TidySequential, TidySpec

\* No copy that a file stream or a TidyStream reads or refills is freed under
\* it, and no stream leaves an object behind that neither it nor the map has.
THEOREM EveryKindSound == TidySequential => [](NoUseAfterFree /\ MapIntact /\ NoLeak)
<1>1. CustodyInv => NoUseAfterFree /\ MapIntact /\ NoLeak
  BY CustodyImplies
<1> QED  BY <1>1, CustodyInvariant, PTL

\* DestroyInstance finds, in the map, everything that streams of every kind
\* have made.
THEOREM NothingLeftCorrect == TidySequential => []NothingLeft
<1>1. CustodyInv => NothingLeft
  BY CustodyImplies
<1> QED  BY <1>1, CustodyInvariant, PTL

-----------------------------------------------------------------------------
(***************************************************************************)
(* What the passes of parseHtml leave behind.  They read one stream after  *)
(* the other, and none is closed before it was read.                       *)
(***************************************************************************)
HtmlSequential ==
  OneAtATime /\ NoRedirection /\ ReaderCaches \subseteq {TRUE} /\ HtmlSpec

LEMMA PassesRead ==
  ASSUME CustodyInv, NEW s \in Stream, EndPass(s)
  PROVE  Closes(s)
<1> SUFFICES ASSUME DeleteUnread(s) PROVE FALSE
  BY DEF EndPass, DeleteStream, Closes
<1>1. tidy[s].mode = "TIDY" /\ tidy[s].inStream = "live"
  BY DEF DeleteUnread
<1>2. tidy[s].status = "open" /\ tidy[s].out = <<>>
  BY <1>1, SlotKnown DEF SlotSound
<1>3. Told(s) = "open" /\ Got(s) = <<>>
  BY <1>1, <1>2 DEF Told, Got, IsTidied
<1>4. NewText(s) = SubSeq(<<>>, Len(html.fed) + 1, 0)
  BY <1>3, EmptySeq DEF NewText
<1> QED  BY <1>3, <1>4 DEF EndPass, Accepted, Rejected, Unreadable, Flawed

LEMMA HtmlCustody == HtmlSequential => []CustodyInv
<1> DEFINE AllKeep == ReaderCaches \subseteq {TRUE}
           IInv == AllKeep /\ CustodyInv /\ HtmlPart
<1>1. AllKeep /\ OneAtATime /\ NoRedirection /\ HtmlInit => IInv
  BY CustodyInit, HtmlInitPart DEF HtmlInit
<1>2. IInv /\ [HtmlNext]_htmlVars => IInv'
  <2> SUFFICES ASSUME IInv, [HtmlNext]_htmlVars
               PROVE  IInv'
    OBVIOUS
  <2>1. ReadingStep(HtmlOpens)
    BY HtmlSteps, PassesRead DEF EndPass, ReadingStep
  <2>2. HtmlOpens \subseteq Opens /\ \A o \in HtmlOpens : o.tidy => o.later
    BY DEF HtmlOpens
  <2>3. CustodyInv'
    BY <2>1, <2>2, CustodyStep
  <2>4. HtmlPart'
    BY HtmlPartStep DEF CustodyInv
  <2> QED  BY <2>3, <2>4
<1> QED  BY <1>1, <1>2, PTL DEF HtmlSequential, HtmlSpec

\* Whatever calls of parseHtml have cached, evicted, tidied and replaced,
\* DestroyInstance finds all of it in the map ("The instance and all stored
\* data is deleted", DataStreamHandler.cpp:85).
THEOREM ParsesLeaveNothing == HtmlSequential => []NothingLeft
<1>1. CustodyInv => NothingLeft
  BY CustodyImplies
<1> QED  BY <1>1, HtmlCustody, PTL
=============================================================================
