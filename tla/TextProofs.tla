----------------------------- MODULE TextProofs -----------------------------
(***************************************************************************)
(* Theorems about what readers are given, for every value of the constants *)
(* of TidyStream and HtmlPasses: that the flag of an entry of the cache    *)
(* tells what the entry holds, so that every reader gets one version of a  *)
(* document in one form; that parseHtml, which opens a document up to      *)
(* three times, hands the application the text it has checked; and that    *)
(* TidyStream implements DocumentStream with tidied documents.             *)
(***************************************************************************)
EXTENDS TidyProofs, CompleteProofs

(***************************************************************************)
(* What servers and application have to keep to.                           *)
(***************************************************************************)
SteadyServers ==
  /\ Faults = {} /\ Framing \subseteq {"length"} /\ Validators
  /\ Changing \subseteq File

SteadyUse(openings) ==
  \A o \in openings : o.tidy \/ o.useCache => o.useCache /\ o.later

\* What an entry of the map holds, v being the current version.
EntrySound(o, u, v) ==
  /\ o.eState \in {"FULL", "READ"} /\ o.ended
  /\ IF o.bTidyFlag THEN WholeTidied(o.zBuffer, u)
     ELSE u \notin File /\ o.zBuffer = Body(u, v)
  /\ u \notin File => o.pEtag = v

EntriesSound ==
  \A u \in Url : HttpCache[u] # None => EntrySound(heap[HttpCache[u]], u, ver[u])

\* The copy at u is being read.
ReadsCopy(s, u) ==
  \/ fEasy[s] # None /\ st[s].sURL = u /\ st[s].bStreamFromCache
  \/ file[s].mode = "CACHED" /\ file[s].sFilename = u
  \/ tidy[s].mode = "CACHED" /\ tidy[s].sURL = u

OnlyReadersOpen ==
  \A u \in Url : HttpCache[u] # None /\ heap[HttpCache[u]].eState = "READ" =>
    \E s \in Stream : ReadsCopy(s, u)

\* What has been read of the copy o.
CopyRead(o, told, text) ==
  /\ told \in {"open", "eof"}
  /\ o.eState \in {"FULL", "READ"}
  /\ told = "eof" => text = o.zBuffer
  /\ told = "open" => IF o.eState = "READ"
                      THEN /\ o.pos <= Len(o.zBuffer)
                           /\ text = SubSeq(o.zBuffer, 1, o.pos)
                      ELSE text = <<>>

Fills(m, x, o, v) ==
  /\ ~o.bTidyFlag /\ o.eState \in {"EMPTY", "WRITE"}
  /\ IF x.phase = "sent" THEN o.zBuffer = <<>>
     ELSE o.zBuffer \o x.left = Body(m.sURL, v) /\ o.pEtag = v

Fetches(m, x, o, told, text, v) ==
  /\ Flow(m, x, told, text, v, v)
  /\ m.bDeleteCache
  /\ m.fTotalBytesRead = Len(text) + Len(m.filled)
  /\ IF x.phase = "sent"
     THEN /\ ~m.bStoreCache /\ ~m.bTransferFinished
          /\ m.hContent_length_response = 0 /\ x.code = 0
     ELSE /\ m.bStoreCache /\ x.sized
          /\ m.hContent_length_response = BodyLen[m.sURL]
  /\ x.phase = "body" => x.left # <<>>
  /\ m.bTransferFinished => x.phase = "done"
  /\ told = "eof" => m.bTransferFinished
  /\ m.bUseCache => Fills(m, x, o, v)

Revalidates(m, x, o, told, text, v, queue) ==
  /\ m.bUseCache /\ ~m.bStoreCache /\ ~m.bDeleteCache
  /\ m.filled = <<>> /\ m.fBuffer = <<>>
  /\ x.cond = v /\ x.ok
  /\ IF m.bStreamFromCache
     THEN x.phase = "done" /\ x.code = 304 /\ CopyRead(o, told, text)
     ELSE /\ text = <<>> /\ told = "open" /\ o.eState = "FULL"
          /\ \/ x.phase = "sent" /\ x.code = 0
             \/ x.phase = "done" /\ x.code = 304 /\ queue # <<>>

InCall(m, x, told, where) ==
  /\ told = "open"
  /\ IF x.cond = None
     THEN IF m.fBytesToRead = 0 THEN m.filled # <<>>
          ELSE m.fBuffer = <<>> /\ where # "return"
     ELSE m.fBytesToRead > 0 /\ (where = "return" => m.bStreamFromCache)

HttpTexts(s) ==
  LET m == st[s]
      x == xfer[s]
      u == m.sURL
      o == heap[m.cacheObject]
  IN
  /\ u \notin File
  /\ \/ /\ Fetches(m, x, o, status[s], out[s], ver[u])
        /\ m.bUseCache => HttpCache[u] = None
     \/ Revalidates(m, x, o, status[s], out[s], ver[u], msgs)
  /\ IF cur = s THEN InCall(m, x, status[s], phase)
     ELSE m.filled = <<>> /\ m.fBytesToRead = 0

\* What has been read of the file f, opened at version first or later.
FileRead(f, told, text, first, last) ==
  /\ told \in {"open", "eof", "error"}
  /\ IF f.bIsOpen
     THEN /\ \E w \in first .. last : f.text = Body(f.sFilename, w)
          /\ text = SubSeq(f.text, 1, f.fTotalBytesRead)
          /\ told = "eof" => text = f.text
     ELSE text = <<>> /\ told # "eof"

FileTexts(s) ==
  LET f == file[s]
      u == f.sFilename
  IN
  /\ u \in File
  /\ IF f.mode = "READ" THEN FileRead(f, status[s], out[s], since[s][u], ver[u])
     ELSE CopyRead(heap[f.cacheObject], status[s], out[s])

InputTexts(s) ==
  /\ fEasy[s] # None => HttpTexts(s)
  /\ file[s].mode # "NONE" => FileTexts(s)
  /\ fEasy[s] = None /\ file[s].mode = "NONE" =>
       status[s] = "closed" /\ out[s] = <<>>
  /\ \A u \in Url : since[s][u] <= ver[u]

\* What it takes for a text to be mended, and what has been read of it then.
MendableIn(h, c, u, text) ==
  IF c[u] = None THEN u \in File /\ Whole(text, u)
  ELSE h[c[u]].bTidyFlag \/ Whole(text, u)

Mendable(u, text) == MendableIn(heap, HttpCache, u, text)

BufferRead(m) ==
  /\ m.status \in {"open", "eof"}
  /\ m.fTotalBytesRead <= Len(m.outbuf)
  /\ m.out = SubSeq(m.outbuf, 1, m.fTotalBytesRead)
  /\ m.status = "eof" => m.out = m.outbuf

InMapTidied(u, text) ==
  /\ HttpCache[u] # None
  /\ heap[HttpCache[u]].bTidyFlag /\ heap[HttpCache[u]].zBuffer = text

InputUrl(s) ==
  IF fEasy[s] # None THEN st[s].sURL
  ELSE IF file[s].mode # "NONE" THEN file[s].sFilename ELSE None

SourceUrl(s) == IF tidy[s].mode # "NONE" THEN tidy[s].sURL ELSE InputUrl(s)

TidyTexts(s) ==
  LET m == tidy[s]
      u == m.sURL
  IN
  /\ m.mode # "LOST"
  /\ m.mode = "PASSTROUGH" => InputUrl(s) = u
  /\ m.mode = "CACHED" => /\ heap[m.cacheObject].bTidyFlag
                          /\ CopyRead(heap[m.cacheObject], m.status, m.out)
  /\ m.mode = "TIDY" =>
       IF m.bTidied THEN BufferRead(m) /\ InMapTidied(u, m.outbuf)
       ELSE /\ m.fTotalBytesRead = 0
            /\ IF m.inStream = "live" THEN InputUrl(s) = u
               ELSE /\ m.out = <<>>
                    /\ IF m.inStream = "NULL"
                       THEN m.status = "open" /\ Mendable(u, m.docbuf)
                       ELSE m.status = "error"

\* A stream that uses the cache reads a source only when there is no copy.
UsesCache(s) ==
  /\ fEasy[s] # None => st[s].bUseCache
  /\ file[s].mode = "READ" => HttpCache[file[s].sFilename] = None

SlotTexts(s, openings) ==
  /\ InputTexts(s)
  /\ tidy[s].mode # "NONE" => TidyTexts(s)
  /\ calling = s => tidy[s].status = "open"
  /\ tidy[s].mode # "NONE" \/ (\A o \in openings : o.useCache) => UsesCache(s)

Texts(openings) ==
  /\ EntriesSound /\ OnlyReadersOpen
  /\ \A s \in Stream : SlotTexts(s, openings)
-----------------------------------------------------------------------------
(***************************************************************************)
(* Copies: what is read of one stays what it was.                          *)
(***************************************************************************)
SameCopy(a, b) ==
  /\ b.zBuffer = a.zBuffer /\ b.ended = a.ended
  /\ b.bTidyFlag = a.bTidyFlag /\ b.pEtag = a.pEtag
  /\ b.eState \in {"FULL", "READ"}

\* The next part of a text goes to the end of what came before.
LEMMA NextPart ==
  ASSUME NEW text \in Seq(Piece), NEW i \in 0 .. Len(text), NEW k \in Nat,
         i + k <= Len(text)
  PROVE  /\ SubSeq(text, i + 1, i + k) \in Seq(Piece)
         /\ Len(SubSeq(text, i + 1, i + k)) = k
         /\ SubSeq(text, 1, i) \o SubSeq(text, i + 1, i + k) = SubSeq(text, 1, i + k)
         /\ Len(SubSeq(text, 1, i)) = i
<1>1. Len(text) \in Nat /\ \A j \in 1 .. Len(text) : text[j] \in Piece
  BY LenProperties, ElementOfSeq
<1>2. /\ SubSeq(text, i + 1, i + k) \in Seq(Piece)
      /\ Len(SubSeq(text, i + 1, i + k)) = k
  <2>1. \A j \in i + 1 .. i + k : text[j] \in Piece
    BY <1>1
  <2>2. i + 1 \in Int /\ i + k \in Int
    BY <1>1
  <2> QED  BY <1>1, <2>1, <2>2, SubSeqProperties
<1>3. Len(SubSeq(text, 1, i)) = i
  <2>1. \A j \in 1 .. i : text[j] \in Piece
    BY <1>1
  <2> QED  BY <1>1, <2>1, SubSeqProperties
<1>4. SubSeq(text, 1, i) \o SubSeq(text, i + 1, i + k) = SubSeq(text, 1, i + k)
  <2>1. 1 \in 1 .. Len(text) + 1 /\ i \in 1 - 1 .. Len(text)
        /\ i + k \in i .. Len(text)
    BY <1>1
  <2> QED  BY <2>1, ConcatAdjacentSubSeq
<1> QED  BY <1>2, <1>3, <1>4

LEMMA CopyReads ==
  ASSUME NEW o \in CacheRecord, o.ended, NEW text, CopyRead(o, "open", text),
         NEW n \in Nat \ {0}, NEW r \in ReadOutcomes(o, n)
  PROVE  /\ SameCopy(o, r.obj) /\ r.obj.eState = "READ"
         /\ r.data \in Seq(Piece) /\ text \in Seq(Piece)
         /\ CopyRead(r.obj, IF r.data = <<>> THEN "eof" ELSE "open", text \o r.data)
<1> DEFINE q    == ReadOpened(o)
           z    == o.zBuffer
           rest == Len(z) - q.pos
           most == Least(n, rest)
           data == SubSeq(z, q.pos + 1, q.pos + most)
           p1   == [q EXCEPT !.pos = q.pos + most]
<1>1. o.eState \in {"FULL", "READ"} /\ z \in Seq(Piece) /\ o.pos \in Nat
  BY DEF CopyRead, CacheRecord
<1>2. /\ q.eState = "READ" /\ q.zBuffer = z /\ q.ended = o.ended
      /\ q.bTidyFlag = o.bTidyFlag /\ q.pEtag = o.pEtag
      /\ q.pos = IF o.eState = "READ" THEN o.pos ELSE 0
  BY <1>1 DEF ReadOpened, ResetState, CacheRecord
<1>3. q \in CacheRecord
  BY ObjectOps
<1>4. Len(z) \in Nat /\ q.pos \in 0 .. Len(z) /\ text = SubSeq(z, 1, q.pos)
  <2>1. Len(z) \in Nat
    BY <1>1, LenProperties
  <2>2. CASE o.eState = "READ"
    BY <1>1, <1>2, <2>1, <2>2 DEF CopyRead
  <2>3. CASE o.eState # "READ"
    <3>1. q.pos = 0 /\ text = <<>>
      BY <1>2, <2>3 DEF CopyRead
    <3>2. SubSeq(z, 1, 0) = <<>>
      BY <1>1, <2>1, SubSeqEmpty
    <3> QED  BY <2>1, <3>1, <3>2
  <2> QED  BY <2>2, <2>3
<1>5. r.data = data /\ r.obj = p1
  <2>1. r \in {[data |-> SubSeq(q.zBuffer, q.pos + 1, q.pos + k),
                obj  |-> [q EXCEPT !.pos = q.pos + k]] : k \in {most}}
    <3>1. o.eState # "EMPTY" /\ q.ended /\ q.zBuffer = z
      BY <1>1, <1>2
    <3> QED  BY <3>1 DEF ReadOutcomes
  <2>2. r = [data |-> SubSeq(q.zBuffer, q.pos + 1, q.pos + most),
             obj  |-> [q EXCEPT !.pos = q.pos + most]]
    BY <2>1
  <2> QED  BY <1>2, <2>2
<1> HIDE DEF q, data
<1>6. /\ most \in Nat /\ q.pos + most <= Len(z)
      /\ (most = 0) <=> (q.pos = Len(z))
  BY <1>4 DEF Least
<1> HIDE DEF most, rest
<1> DEFINE i == q.pos
           j == i + most
<1>7. /\ data \in Seq(Piece) /\ Len(data) = most
      /\ SubSeq(z, 1, i) \o data = SubSeq(z, 1, j) /\ Len(SubSeq(z, 1, i)) = i
      /\ SubSeq(z, 1, i) \in Seq(Piece)
  <2>1. SubSeq(z, 1, i) \in Seq(Piece)
    BY <1>1, <1>4, FromHolding, EmptyPieces
  <2>2. z \in Seq(Piece) /\ i \in 0 .. Len(z) /\ most \in Nat /\ i + most <= Len(z)
    BY <1>1, <1>4, <1>6
  <2>3. data = SubSeq(z, i + 1, i + most)
    BY DEF data
  <2> HIDE DEF i, z
  <2> QED  BY <2>1, <2>2, <2>3, NextPart
<1>8. /\ p1.eState = "READ" /\ p1.zBuffer = z /\ p1.pos = j
      /\ p1.ended = o.ended /\ p1.bTidyFlag = o.bTidyFlag /\ p1.pEtag = o.pEtag
  BY <1>2, <1>3 DEF CacheRecord
<1> HIDE DEF p1, i, j, z
<1>9. text \o data = SubSeq(z, 1, j)
  BY <1>4, <1>7 DEF i
<1>10. (data = <<>>) <=> (most = 0)
  BY <1>7, EmptySeq
<1>11. data = <<>> => SubSeq(z, 1, j) = z
  <2>1. data = <<>> => j = Len(z)
    BY <1>4, <1>6, <1>10 DEF i, j
  <2> QED  BY <1>1, <2>1, SubSeqFull DEF z
<1>12. CopyRead(p1, IF data = <<>> THEN "eof" ELSE "open", text \o data)
  BY <1>6, <1>8, <1>9, <1>11 DEF CopyRead, i, j
<1> QED  BY <1>4, <1>5, <1>7, <1>8, <1>12 DEF SameCopy, i, z

\* Closing the codec of a copy, or finding it closed.
LEMMA CopyClosed ==
  ASSUME NEW o \in CacheRecord, o.eState \in {"FULL", "READ"}
  PROVE  /\ SameCopy(o, ResetState(o)) /\ ResetState(o).eState = "FULL"
         /\ \A text : CopyRead(o, "eof", text) => CopyRead(ResetState(o), "eof", text)
<1>1. /\ ResetState(o).eState = "FULL" /\ ResetState(o).zBuffer = o.zBuffer
      /\ ResetState(o).ended = o.ended
      /\ ResetState(o).bTidyFlag = o.bTidyFlag /\ ResetState(o).pEtag = o.pEtag
  BY DEF ResetState, CacheRecord
<1> QED  BY <1>1 DEF SameCopy, CopyRead

LEMMA SameSound ==
  ASSUME NEW a, NEW b, NEW u, NEW v, EntrySound(a, u, v), SameCopy(a, b)
  PROVE  EntrySound(b, u, v)
BY DEF EntrySound, SameCopy

LEMMA ReadAtOnce ==
  ASSUME NEW o, o.eState = "FULL"
  PROVE  CopyRead(o, "open", <<>>)
BY DEF CopyRead

-----------------------------------------------------------------------------
(***************************************************************************)
(* A fetch, through each step of its life.                                 *)
(***************************************************************************)
LEMMA LengthOfBody ==
  ASSUME NEW u \in Url, NEW v
  PROVE  BodyLen[u] \in Nat /\ Len(Body(u, v)) = BodyLen[u]
BY ServerAssumption DEF Body

\* What is returned, handed over, held back and still to come.
LEMMA LengthOfPieces ==
  ASSUME NEW m \in Members, NEW x \in TransferRecord, NEW text \in Seq(Piece)
  PROVE  /\ Len(text) \in Nat /\ Len(m.filled) \in Nat
         /\ Len(m.fBuffer) \in Nat /\ Len(x.left) \in Nat
         /\ Len(AllPieces(m, x, text))
              = Len(text) + (Len(m.filled) + (Len(m.fBuffer) + Len(x.left)))
<1>1. /\ m.filled \in Seq(Piece) /\ m.fBuffer \in Seq(Piece) /\ x.left \in Seq(Piece)
  BY DEF Members, TransferRecord
<1> DEFINE a == m.fBuffer \o x.left
           b == m.filled \o a
<1>2. a \in Seq(Piece) /\ Len(a) = Len(m.fBuffer) + Len(x.left)
  BY <1>1, ConcatProperties
<1> HIDE DEF a
<1>3. b \in Seq(Piece) /\ Len(b) = Len(m.filled) + Len(a)
  BY <1>1, <1>2, ConcatProperties
<1> HIDE DEF b
<1>4. Len(text \o b) = Len(text) + Len(b)
  BY <1>3, ConcatProperties
<1>5. AllPieces(m, x, text) = text \o b
  BY DEF AllPieces, a, b
<1>6. /\ Len(text) \in Nat /\ Len(m.filled) \in Nat
      /\ Len(m.fBuffer) \in Nat /\ Len(x.left) \in Nat
  BY <1>1, LenProperties
<1> QED  BY <1>2, <1>3, <1>4, <1>5, <1>6

\* A transfer whose length is known ends with its last piece.
LEMMA AfterSized ==
  ASSUME NEW r \in TransferRecord, r.sized, NEW y, y = After(r)
  PROVE  /\ y \in TransferRecord
         /\ y.sized /\ y.left = r.left /\ y.cond = r.cond
         /\ y.ok = r.ok /\ y.code = r.code
         /\ y.phase \in {"body", "done"}
         /\ y.phase = "done" <=> r.left = <<>>
<1>1. y \in TransferRecord
  BY AfterType
<1>2. CASE r.left = <<>>
  <2>1. y = [r EXCEPT !.phase = "done"]
    BY <1>2 DEF After, Ends
  <2> QED  BY <1>1, <1>2, <2>1 DEF TransferRecord
<1>3. CASE r.left # <<>>
  <2>1. y = [r EXCEPT !.phase = "body"]
    BY <1>3 DEF After, Ends
  <2> QED  BY <1>1, <1>3, <2>1 DEF TransferRecord
<1> QED  BY <1>2, <1>3

HeadOf(m, x, o, v, m1, y, o1) ==
  /\ m1 = [m EXCEPT !.bStoreCache = TRUE,
                    !.hContent_length_response = BodyLen[m.sURL]]
  /\ y = After(Response(x, 200, Body(m.sURL, v), TRUE))
  /\ o1 = IF m.bUseCache THEN [o EXCEPT !.pEtag = v] ELSE o

\* With the head of its response a fetch learns how much is to come.
LEMMA FetchHead ==
  ASSUME NEW m \in Members, NEW x \in TransferRecord, NEW o \in CacheRecord,
         NEW told, NEW text, m.sURL \in Url, NEW v \in Version,
         Fetches(m, x, o, told, text, v), x.phase = "sent",
         NEW m1, NEW y, NEW o1, HeadOf(m, x, o, v, m1, y, o1)
  PROVE  Fetches(m1, y, o1, told, text, v)
<1>  /\ m1 = [m EXCEPT !.bStoreCache = TRUE,
                       !.hContent_length_response = BodyLen[m.sURL]]
     /\ y = After(Response(x, 200, Body(m.sURL, v), TRUE))
     /\ o1 = IF m.bUseCache THEN [o EXCEPT !.pEtag = v] ELSE o
  BY DEF HeadOf
<1> DEFINE body == Body(m.sURL, v)
           r    == Response(x, 200, body, TRUE)
<1>1. Flow(m, x, told, text, v, v)
  BY DEF Fetches
<1>2. v \in Nat /\ BodyLen[m.sURL] \in Nat
  BY LengthOfBody DEF Version
<1>3. Flow(m1, y, told, text, v, v)
  BY ZenonT(60), <1>1, <1>2, FlowHead
<1>4. /\ r.phase = x.phase /\ r.sized /\ r.left = body /\ r.cond = x.cond
      /\ r \in TransferRecord
  <2>1. body \in Seq(Piece) /\ 200 \in Codes /\ TRUE \in BOOLEAN
    BY BodyType DEF Codes
  <2> HIDE DEF body
  <2>2. r \in TransferRecord
    BY <2>1, ResponseType
  <2> QED  BY <2>2 DEF Response, TransferRecord
<1>5. /\ y.sized /\ y.left = body /\ y.phase \in {"body", "done"} /\ y.cond = x.cond
      /\ (y.phase = "body" => y.left # <<>>)
  <2>1. y = After(r)
    OBVIOUS
  <2> HIDE DEF r, body
  <2>2. y.sized /\ y.left = r.left /\ y.cond = r.cond
        /\ y.phase \in {"body", "done"} /\ (y.phase = "done" <=> r.left = <<>>)
    BY ONLY <1>4, <2>1, AfterSized
  <2> QED  BY ONLY <1>4, <2>2
<1> HIDE DEF r
<1>6. /\ m1.bStoreCache /\ m1.hContent_length_response = BodyLen[m.sURL]
      /\ m1.sURL = m.sURL /\ m1.bDeleteCache = m.bDeleteCache
      /\ m1.fTotalBytesRead = m.fTotalBytesRead /\ m1.filled = m.filled
      /\ m1.bTransferFinished = m.bTransferFinished /\ m1.bUseCache = m.bUseCache
  BY DEF Members
<1>7. ~m.bTransferFinished /\ m.bDeleteCache
      /\ m.fTotalBytesRead = Len(text) + Len(m.filled)
      /\ (m.bUseCache => Fills(m, x, o, v)) /\ told # "eof"
  BY DEF Fetches, Flow
<1>8. m.bUseCache => Fills(m1, y, o1, v)
  <2> SUFFICES ASSUME m.bUseCache PROVE Fills(m1, y, o1, v)  OBVIOUS
  <2>1. ~o.bTidyFlag /\ o.eState \in {"EMPTY", "WRITE"} /\ o.zBuffer = <<>>
    BY <1>7 DEF Fills
  <2>2. o1 = [o EXCEPT !.pEtag = v]
    OBVIOUS
  <2>3. /\ o1.pEtag = v /\ o1.zBuffer = <<>> /\ o1.eState \in {"EMPTY", "WRITE"}
        /\ ~o1.bTidyFlag
    BY <2>1, <2>2 DEF CacheRecord
  <2>4. <<>> \o body = body
    BY BodyType, ConcatEmptySeq
  <2>5. o1.zBuffer \o y.left = Body(m1.sURL, v)
    BY ONLY <1>5, <1>6, <2>3, <2>4 DEF body
  <2>6. y.phase # "sent"
    BY ONLY <1>5
  <2> QED  BY ONLY <2>3, <2>5, <2>6 DEF Fills
<1> HIDE DEF body
<1>9. y.phase # "sent"
  BY ONLY <1>5
<1>10. m1.fTotalBytesRead = Len(text) + Len(m1.filled)
  BY ONLY <1>6, <1>7
<1>11. m1.bDeleteCache /\ m1.bStoreCache /\ ~m1.bTransferFinished
       /\ m1.hContent_length_response = BodyLen[m1.sURL]
  BY ONLY <1>6, <1>7
<1>12. m1.bUseCache => Fills(m1, y, o1, v)
  BY ONLY <1>6, <1>8
<1> QED  BY ONLY <1>3, <1>5, <1>7, <1>9, <1>10, <1>11, <1>12 DEF Fetches

\* The next piece.
LEMMA FetchData ==
  ASSUME NEW m \in Members, NEW x \in TransferRecord, NEW o \in CacheRecord,
         NEW told, NEW text \in Seq(Piece), m.sURL \in Url, NEW v,
         Fetches(m, x, o, told, text, v), x.phase = "body",
         HasRoom(m) => m.fBuffer = <<>>,
         NEW p, p = Head(x.left),
         NEW m1 \in Members,
         \/ /\ HasRoom(m) /\ m1.fBuffer = m.fBuffer
            /\ m1.filled = Append(m.filled, p)
            /\ m1.fTotalBytesRead = m.fTotalBytesRead + 1
         \/ /\ m1.filled = m.filled /\ m1.fBuffer = Append(m.fBuffer, p)
            /\ m1.fTotalBytesRead = m.fTotalBytesRead,
         m1.sURL = m.sURL, m1.bDeleteCache = m.bDeleteCache,
         m1.bUseCache = m.bUseCache, m1.bStoreCache = m.bStoreCache,
         m1.bTransferFinished = m.bTransferFinished,
         m1.bStreamFromCache = m.bStreamFromCache,
         m1.hContent_length_response = m.hContent_length_response,
         NEW y, y = After([x EXCEPT !.left = Tail(@)]),
         NEW o1, o1 = IF m.bUseCache THEN WriteBytes(o, <<p>>) ELSE o
  PROVE  Fetches(m1, y, o1, told, text, v) /\ y.cond = x.cond
<1>1. /\ Flow(m, x, told, text, v, v) /\ m.bDeleteCache /\ x.left # <<>> /\ x.sized
      /\ m.bStoreCache /\ m.hContent_length_response = BodyLen[m.sURL]
      /\ m.fTotalBytesRead = Len(text) + Len(m.filled)
      /\ ~m.bTransferFinished /\ told # "eof"
      /\ (m.bUseCache => Fills(m, x, o, v))
  BY DEF Fetches
<1>2. /\ x.left \in Seq(Piece) /\ m.filled \in Seq(Piece) /\ o.zBuffer \in Seq(Piece)
      /\ Len(text) \in Nat /\ Len(m.filled) \in Nat
  BY LenProperties DEF TransferRecord, Members, CacheRecord
<1>3. Flow(m1, y, told, text, v, v)
  BY <1>1, FlowData
<1>4. p \in Piece /\ Tail(x.left) \in Seq(Piece)
  BY <1>1, <1>2, NextPiece
<1> DEFINE r == [x EXCEPT !.left = Tail(@)]
<1>5. /\ r.phase = "body" /\ r.sized /\ r.left = Tail(x.left) /\ r.cond = x.cond
      /\ r \in TransferRecord
  BY <1>1, <1>4 DEF TransferRecord
<1> HIDE DEF r
<1>6. /\ y.sized /\ y.left = Tail(x.left) /\ y.phase \in {"body", "done"}
      /\ (y.phase = "body" => y.left # <<>>) /\ y.cond = x.cond
  <2>1. y = After(r)
    BY DEF r
  <2> QED  BY ONLY <1>1, <1>5, <2>1, AfterSized
<1>7. m1.fTotalBytesRead = Len(text) + Len(m1.filled)
  <2>1. Len(Append(m.filled, p)) = Len(m.filled) + 1
    BY <1>2, <1>4, AppendProperties
  <2>2. \/ /\ m1.filled = Append(m.filled, p)
           /\ m1.fTotalBytesRead = m.fTotalBytesRead + 1
        \/ m1.filled = m.filled /\ m1.fTotalBytesRead = m.fTotalBytesRead
    OBVIOUS
  <2>3. CASE m1.filled = Append(m.filled, p)
             /\ m1.fTotalBytesRead = m.fTotalBytesRead + 1
    <3>1. Len(m1.filled) = Len(m.filled) + 1
      BY ONLY <2>1, <2>3
    <3> HIDE <2>3
    <3>2. m1.fTotalBytesRead = (Len(text) + Len(m.filled)) + 1
      BY <1>1, <2>3
    <3> QED  BY ONLY <1>2, <3>1, <3>2
  <2>4. CASE m1.filled = m.filled /\ m1.fTotalBytesRead = m.fTotalBytesRead
    BY ONLY <1>1, <2>4
  <2> QED  BY <2>2, <2>3, <2>4
<1>8. m.bUseCache => Fills(m1, y, o1, v)
  <2> SUFFICES ASSUME m.bUseCache PROVE Fills(m1, y, o1, v)  OBVIOUS
  <2>1. /\ ~o.bTidyFlag /\ o.eState \in {"EMPTY", "WRITE"}
        /\ o.zBuffer \o x.left = Body(m.sURL, v) /\ o.pEtag = v
    BY <1>1 DEF Fills
  <2>2. o1 = WriteBytes(o, <<p>>)
    OBVIOUS
  <2>3. /\ o1.eState = "WRITE" /\ o1.zBuffer = o.zBuffer \o <<p>>
        /\ o1.bTidyFlag = o.bTidyFlag /\ o1.pEtag = o.pEtag
    BY <2>1, <2>2 DEF WriteBytes, Prepared, CacheRecord
  <2>4. o.zBuffer \o <<p>> = Append(o.zBuffer, p)
    BY <1>2, <1>4, AppendIsConcat
  <2>5. Append(o.zBuffer, p) \o Tail(x.left) = o.zBuffer \o x.left
    BY <1>1, <1>2, NextPiece
  <2> QED  BY <1>6, <2>1, <2>3, <2>4, <2>5 DEF Fills
<1> QED  BY SMTT(30), <1>1, <1>3, <1>6, <1>7, <1>8 DEF Fetches

\* What a fetch is, apart from how far it has come.
SameFetch(m, m1) ==
  /\ m1.sURL = m.sURL /\ m1.bDeleteCache = m.bDeleteCache
  /\ m1.bUseCache = m.bUseCache /\ m1.bStoreCache = m.bStoreCache
  /\ m1.bStreamFromCache = m.bStreamFromCache
  /\ m1.hContent_length_response = m.hContent_length_response

\* A call begins with what is held back.
LEMMA FetchBegin ==
  ASSUME NEW m \in Members, NEW x \in TransferRecord, NEW o,
         NEW text \in Seq(Piece), NEW v,
         Fetches(m, x, o, "open", text, v), m.filled = <<>>,
         NEW k \in 0 .. Len(m.fBuffer), NEW m1 \in Members, SameFetch(m, m1),
         m1.bTransferFinished = m.bTransferFinished,
         m1.filled = SubSeq(m.fBuffer, 1, k),
         m1.fBuffer = SubSeq(m.fBuffer, k + 1, Len(m.fBuffer)),
         m1.fTotalBytesRead = m.fTotalBytesRead + k
  PROVE  Fetches(m1, x, o, "open", text, v)
<1>1. /\ Flow(m, x, "open", text, v, v)
      /\ m.bDeleteCache
      /\ m.fTotalBytesRead = Len(text) + Len(m.filled)
      /\ IF x.phase = "sent"
         THEN /\ ~m.bStoreCache /\ ~m.bTransferFinished
              /\ m.hContent_length_response = 0 /\ x.code = 0
         ELSE /\ m.bStoreCache /\ x.sized
              /\ m.hContent_length_response = BodyLen[m.sURL]
      /\ (x.phase = "body" => x.left # <<>>)
      /\ (m.bTransferFinished => x.phase = "done")
      /\ (m.bUseCache => Fills(m, x, o, v))
  BY DEF Fetches
<1>2. Flow(m1, x, "open", text, v, v)
  BY <1>1, FlowBegin DEF SameFetch
<1>3. m1.fTotalBytesRead = Len(text) + Len(m1.filled)
  <2>1. m.fBuffer \in Seq(Piece) /\ x.left \in Seq(Piece)
    BY DEF Members, TransferRecord
  <2>2. Len(m1.filled) = k
    BY <2>1, FromHolding
  <2>3. Len(m.filled) = 0 /\ Len(text) \in Nat /\ k \in Nat
    BY <2>1, EmptySeq, LenProperties
  <2> QED  BY ONLY <1>1, <2>2, <2>3, m1.fTotalBytesRead = m.fTotalBytesRead + k
<1>4. m1.bUseCache => Fills(m1, x, o, v)
  BY ONLY <1>1, SameFetch(m, m1) DEF SameFetch, Fills
<1>5. /\ m1.bDeleteCache
      /\ IF x.phase = "sent"
         THEN /\ ~m1.bStoreCache /\ ~m1.bTransferFinished
              /\ m1.hContent_length_response = 0 /\ x.code = 0
         ELSE /\ m1.bStoreCache /\ x.sized
              /\ m1.hContent_length_response = BodyLen[m1.sURL]
      /\ (m1.bTransferFinished => x.phase = "done")
  BY <1>1 DEF SameFetch
<1> HIDE DEF SameFetch
<1> QED  BY ONLY <1>1, <1>2, <1>3, <1>4, <1>5 DEF Fetches

\* A call returns what it has got; without anything the body has ended, and
\* the stream knows that from its length.
LEMMA FetchReturn ==
  ASSUME NEW m \in Members, NEW x \in TransferRecord, NEW o, m.sURL \in Url,
         NEW text \in Seq(Piece), NEW v \in Version,
         Fetches(m, x, o, "open", text, v),
         m.filled = <<>> => x.phase = "done" /\ m.fBuffer = <<>>,
         NEW m1 \in Members, SameFetch(m, m1),
         m1.bTransferFinished <=> TransferFinished(m, m.fTotalBytesRead),
         m1.filled = <<>>, m1.fBuffer = m.fBuffer,
         m1.fTotalBytesRead = m.fTotalBytesRead
  PROVE  Fetches(m1, x, o, IF m.filled = <<>> THEN "eof" ELSE "open",
                 text \o m.filled, v)
<1> DEFINE told == IF m.filled = <<>> THEN "eof" ELSE "open"
           all  == text \o m.filled
<1>1. /\ Flow(m, x, "open", text, v, v)
      /\ m.bDeleteCache
      /\ m.fTotalBytesRead = Len(text) + Len(m.filled)
      /\ IF x.phase = "sent"
         THEN /\ ~m.bStoreCache /\ ~m.bTransferFinished
              /\ m.hContent_length_response = 0 /\ x.code = 0
         ELSE /\ m.bStoreCache /\ x.sized
              /\ m.hContent_length_response = BodyLen[m.sURL]
      /\ (x.phase = "body" => x.left # <<>>)
      /\ (m.bTransferFinished => x.phase = "done")
      /\ (m.bUseCache => Fills(m, x, o, v))
  BY DEF Fetches
<1>2. x.phase \in {"body", "done"} /\ (x.phase = "done" => x.left = <<>>)
      /\ \E w \in v .. v : AllPieces(m, x, text) = Body(m.sURL, w)
  BY <1>1 DEF Flow
<1>3. Flow(m1, x, told, all, v, v)
  BY <1>1, FlowReturn DEF SameFetch
<1> DEFINE total == m.fTotalBytesRead
           sent  == BodyLen[m.sURL]
           a == Len(text)
           b == Len(m.filled)
           c == Len(m.fBuffer)
           d == Len(x.left)
<1>4. sent = total + (c + d) /\ total \in Nat /\ c \in Nat /\ d \in Nat
  <2>1. AllPieces(m, x, text) = Body(m.sURL, v)
    <3>1. v \in Nat
      BY DEF Version
    <3> QED  BY <1>2, <3>1
  <2>2. Len(AllPieces(m, x, text)) = BodyLen[m.sURL]
    BY <2>1, LengthOfBody
  <2>3. /\ a \in Nat /\ b \in Nat /\ c \in Nat /\ d \in Nat
        /\ Len(AllPieces(m, x, text)) = a + (b + (c + d))
    BY LengthOfPieces
  <2>4. total = a + b
    BY <1>1
  <2>5. sent = a + (b + (c + d))
    BY <2>2, <2>3
  <2> HIDE DEF all, told, total, sent, a, b, c, d
  <2> QED  BY ONLY <2>3, <2>4, <2>5
<1>5. m.fBuffer \in Seq(Piece) /\ m.filled \in Seq(Piece) /\ x.left \in Seq(Piece)
  BY DEF Members, TransferRecord
<1>6. Len(all) = Len(text) + Len(m.filled) /\ Len(m1.filled) = 0
      /\ Len(text) \in Nat /\ Len(m.filled) \in Nat
  BY <1>5, ConcatProperties, LenProperties, EmptySeq
<1>7. m1.fTotalBytesRead = Len(all) + Len(m1.filled)
  <2> HIDE DEF all
  <2> QED  BY ONLY <1>1, <1>6, m1.fTotalBytesRead = m.fTotalBytesRead
<1>8. m1.bTransferFinished => x.phase = "done"
  <2> SUFFICES ASSUME m1.bTransferFinished, ~m.bTransferFinished
               PROVE  x.phase = "done"
    BY <1>1
  <2>1. m.hContent_length_response = m.fTotalBytesRead
    BY DEF TransferFinished
  <2>2. sent = total
    BY <1>1, <1>2, <2>1
  <2> HIDE DEF total, sent, c, d
  <2>3. d = 0
    BY ONLY <1>4, <2>2
  <2>4. x.left = <<>>
    BY <1>5, <2>3, EmptySeq DEF d
  <2> QED  BY <1>1, <1>2, <2>4
<1>9. told = "eof" => m1.bTransferFinished
  <2> SUFFICES ASSUME m.filled = <<>> PROVE m1.bTransferFinished
    BY DEF told
  <2>1. x.phase = "done" /\ c = 0 /\ d = 0
    BY <1>2, EmptySeq
  <2>2. sent = total
    <3> HIDE DEF total, sent, c, d
    <3> QED  BY ONLY <1>4, <2>1
  <2>3. m.hContent_length_response = m.fTotalBytesRead
    BY <1>1, <2>1, <2>2
  <2> QED  BY <2>3 DEF TransferFinished
<1>10. m1.bUseCache => Fills(m1, x, o, v)
  BY ONLY <1>1, SameFetch(m, m1) DEF SameFetch, Fills
<1>11. /\ m1.bDeleteCache /\ m1.bStoreCache /\ x.sized
       /\ m1.hContent_length_response = BodyLen[m1.sURL] /\ x.phase # "sent"
  BY <1>1, <1>2 DEF SameFetch
<1> HIDE DEF told, all
<1>12. Fetches(m1, x, o, told, all, v)
  BY ONLY <1>1, <1>3, <1>7, <1>8, <1>9, <1>10, <1>11 DEF Fetches
<1> QED  BY <1>12 DEF told, all

\* A finished fetch leaves a copy of the version.
LEMMA FetchStored ==
  ASSUME NEW m \in Members, NEW x \in TransferRecord, NEW o \in CacheRecord,
         NEW told, NEW text, m.sURL \in Url, NEW v \in Version,
         Fetches(m, x, o, told, text, v), StoreWanted(m),
         NEW f, f = ResetState(FinishBytes(o))
  PROVE  /\ f.eState = "FULL" /\ f.ended /\ ~f.bTidyFlag
         /\ f.zBuffer = Body(m.sURL, v) /\ f.pEtag = v
<1>1. /\ m.bUseCache /\ m.bStoreCache /\ m.bTransferFinished
  BY DEF StoreWanted
<1>2. x.phase = "done" /\ Flow(m, x, told, text, v, v) /\ Fills(m, x, o, v)
  BY <1>1 DEF Fetches
<1>3. x.left = <<>>
  BY <1>2 DEF Flow
<1>4. /\ ~o.bTidyFlag /\ o.eState \in {"EMPTY", "WRITE"} /\ o.pEtag = v
      /\ o.zBuffer \o x.left = Body(m.sURL, v)
  BY <1>2 DEF Fills
<1>5. o.zBuffer \in Seq(Piece)
  BY DEF CacheRecord
<1>6. o.zBuffer = Body(m.sURL, v)
  BY <1>3, <1>4, <1>5, ConcatEmptySeq
<1>7. f = [o EXCEPT !.eState = "FULL", !.ended = TRUE]
  <2>1. FinishBytes(o) = [o EXCEPT !.eState = "FULL", !.ended = TRUE]
    BY <1>4 DEF FinishBytes, Prepared
  <2> QED  BY <2>1 DEF ResetState, CacheRecord
<1>8. f.eState = "FULL" /\ f.ended /\ f.zBuffer = o.zBuffer /\ f.pEtag = o.pEtag
      /\ (f.bTidyFlag <=> o.bTidyFlag)
  BY <1>7 DEF CacheRecord
<1> QED  BY <1>4, <1>6, <1>8

\* A stream that has sent its request, and heard nothing yet.
Sent(m, x) ==
  /\ ~m.bStoreCache /\ ~m.bTransferFinished /\ ~m.bStreamFromCache
  /\ m.hContent_length_response = 0 /\ m.fTotalBytesRead = 0
  /\ m.filled = <<>> /\ m.fBuffer = <<>>
  /\ x.phase = "sent" /\ x.code = 0 /\ x.ok

LEMMA FetchNew ==
  ASSUME NEW m \in Members, NEW x, NEW o, NEW v \in Version, Sent(m, x),
         m.bDeleteCache, x.cond = None,
         o.eState = "EMPTY", o.zBuffer = <<>>, ~o.bTidyFlag
  PROVE  Fetches(m, x, o, "open", <<>>, v)
<1>1. Flow(m, x, "open", <<>>, v, v)
  BY DEF Flow, Sent, Version
<1>2. m.fTotalBytesRead = Len(<<>>) + Len(m.filled)
  BY EmptySeq DEF Sent
<1>3. Fills(m, x, o, v)
  BY DEF Fills, Sent
<1> QED  BY <1>1, <1>2, <1>3 DEF Fetches, Sent

LEMMA RevalidationNew ==
  ASSUME NEW m, NEW x, NEW o, NEW v, NEW queue, Sent(m, x),
         m.bUseCache, ~m.bDeleteCache, x.cond = v, o.eState = "FULL"
  PROVE  Revalidates(m, x, o, "open", <<>>, v, queue)
BY DEF Revalidates, Sent

\* A revalidation before and after a step that does not tell it anything.
SameRevalidation(m, m1) ==
  /\ m1.bUseCache = m.bUseCache /\ m1.bStoreCache = m.bStoreCache
  /\ m1.bDeleteCache = m.bDeleteCache /\ m1.bStreamFromCache = m.bStreamFromCache
  /\ m1.filled = <<>> /\ m1.fBuffer = <<>>

LEMMA RevalidationKept ==
  ASSUME NEW m, NEW x, NEW o, NEW told, NEW text, NEW v, NEW queue,
         Revalidates(m, x, o, told, text, v, queue),
         NEW m1, SameRevalidation(m, m1), NEW later,
         x.code = 304 => m.bStreamFromCache \/ later # <<>>
  PROVE  Revalidates(m1, x, o, told, text, v, later)
BY DEF Revalidates, SameRevalidation

NotModified(x, y) == y = After(Response(x, 304, <<>>, TRUE))

\* The server has nothing newer.
LEMMA RevalidationAnswered ==
  ASSUME NEW m, NEW x \in TransferRecord, NEW o, NEW told, NEW text, NEW v, NEW queue,
         Revalidates(m, x, o, told, text, v, queue), x.phase = "sent",
         NEW y, NotModified(x, y), NEW later, later # <<>>
  PROVE  Revalidates(m, y, o, told, text, v, later)
<1>  y = After(Response(x, 304, <<>>, TRUE))
  BY DEF NotModified
<1> DEFINE r == Response(x, 304, <<>>, TRUE)
<1>1. r \in TransferRecord
  <2>1. <<>> \in Seq(Piece) /\ 304 \in Codes /\ TRUE \in BOOLEAN
    BY EmptyPieces DEF Codes
  <2> QED  BY <2>1, ResponseType
<1>2. r.sized /\ r.left = <<>> /\ r.cond = x.cond /\ r.ok = x.ok /\ r.code = 304
  BY <1>1 DEF Response, TransferRecord
<1>3. y = After(r)
  OBVIOUS
<1> HIDE DEF r
<1>4. /\ y.phase = "done" /\ y.code = 304 /\ y.cond = x.cond /\ y.ok = x.ok
  BY ONLY <1>1, <1>2, <1>3, AfterSized
<1>5. /\ m.bUseCache /\ ~m.bStoreCache /\ ~m.bDeleteCache
      /\ m.filled = <<>> /\ m.fBuffer = <<>> /\ ~m.bStreamFromCache
      /\ x.cond = v /\ x.ok
      /\ text = <<>> /\ told = "open" /\ o.eState = "FULL"
  BY DEF Revalidates
<1> QED  BY ONLY <1>4, <1>5, later # <<>> DEF Revalidates

\* The stream is told so, and turns to the copy.
LEMMA RevalidationTaken ==
  ASSUME NEW m \in Members, NEW x, NEW o, NEW told, NEW text, NEW v, NEW queue,
         Revalidates(m, x, o, told, text, v, queue), x.code = 304,
         NEW m1, m1 = [m EXCEPT !.bStreamFromCache = TRUE], NEW later
  PROVE  Revalidates(m1, x, o, told, text, v, later)
<1>1. /\ m1.bUseCache = m.bUseCache /\ m1.bStoreCache = m.bStoreCache
      /\ m1.bDeleteCache = m.bDeleteCache /\ m1.bStreamFromCache
      /\ m1.filled = m.filled /\ m1.fBuffer = m.fBuffer
  BY DEF Members
<1>2. CopyRead(o, told, text) /\ x.phase = "done"
  BY ReadAtOnce DEF Revalidates
<1> QED  BY <1>1, <1>2 DEF Revalidates

\* And reads it.
LEMMA RevalidationReads ==
  ASSUME NEW m, NEW x, NEW o \in CacheRecord, NEW text, NEW v, NEW queue,
         Revalidates(m, x, o, "open", text, v, queue), m.bStreamFromCache, o.ended,
         NEW n \in Nat \ {0}, NEW r0 \in ReadOutcomes(o, n),
         NEW o1, o1 = IF r0.data = <<>> THEN ResetState(r0.obj) ELSE r0.obj,
         NEW m1, SameRevalidation(m, m1)
  PROVE  /\ Revalidates(m1, x, o1, IF r0.data = <<>> THEN "eof" ELSE "open",
                        text \o r0.data, v, queue)
         /\ SameCopy(o, o1)
<1> DEFINE told == IF r0.data = <<>> THEN "eof" ELSE "open"
           all  == text \o r0.data
<1>1. CopyRead(o, "open", text)
  BY DEF Revalidates
<1>2. SameCopy(o, r0.obj) /\ r0.obj.eState = "READ" /\ CopyRead(r0.obj, told, all)
  BY <1>1, CopyReads
<1>3. r0.obj \in CacheRecord
  BY ReadOutcomesType
<1>4. SameCopy(o, o1) /\ CopyRead(o1, told, all)
  <2>1. CASE r0.data = <<>>
    <3>1. o1 = ResetState(r0.obj) /\ told = "eof"
      BY <2>1
    <3>2. SameCopy(r0.obj, o1) /\ CopyRead(o1, told, all)
      BY <1>2, <1>3, <3>1, CopyClosed
    <3> QED  BY <1>2, <3>2 DEF SameCopy
  <2>2. CASE r0.data # <<>>
    BY <1>2, <2>2
  <2> QED  BY <2>1, <2>2
<1> HIDE DEF told, all
<1>5. Revalidates(m1, x, o1, told, all, v, queue)
  BY ONLY <1>4, Revalidates(m, x, o, "open", text, v, queue), m.bStreamFromCache,
          SameRevalidation(m, m1)
     DEF Revalidates, SameRevalidation
<1> QED  BY <1>4, <1>5 DEF told, all

-----------------------------------------------------------------------------
(***************************************************************************)
(* The entries through a step that leaves the map alone.                   *)
(***************************************************************************)
TextsInv(openings) ==
  CustodyInv /\ FiniteCache /\ SteadyServers /\ Texts(openings)

LEMMA EntriesStay ==
  ASSUME EntriesSound, UNCHANGED HttpCache,
         \A u \in Url \ File : ver'[u] = ver[u],
         \A u \in Url : HttpCache[u] # None =>
           \/ heap'[HttpCache[u]] = heap[HttpCache[u]]
           \/ SameCopy(heap[HttpCache[u]], heap'[HttpCache[u]])
  PROVE  EntriesSound'
<1> SUFFICES ASSUME NEW u \in Url, HttpCache[u] # None
             PROVE  EntrySound(heap'[HttpCache[u]], u, ver'[u])
  BY DEF EntriesSound, EntrySound, WholeTidied
<1>1. EntrySound(heap[HttpCache[u]], u, ver[u])
  BY DEF EntriesSound
<1>2. EntrySound(heap'[HttpCache[u]], u, ver[u])
  BY <1>1, SameSound
<1> QED  BY <1>2 DEF EntrySound

\* A copy nobody reads is closed.
LEMMA Shut ==
  ASSUME CustodyInv, EntriesSound, OnlyReadersOpen, NEW s \in Stream, NEW u \in Url,
         HttpCache[u] # None, ~ReadsCopy(s, u)
  PROVE  heap[HttpCache[u]].eState = "FULL"
<1>1. Stream = {s}
  BY SlotKnown, OneSlot
<1>2. heap[HttpCache[u]].eState # "READ"
  BY <1>1 DEF OnlyReadersOpen
<1> QED  BY <1>2 DEF EntriesSound, EntrySound

\* A stream reads one copy.
LEMMA ReadsOne ==
  ASSUME CustodyInv, NEW s \in Stream, NEW u, NEW w, ReadsCopy(s, u), ReadsCopy(s, w)
  PROVE  u = w
<1>1. SlotSound(s)
  BY SlotKnown
<1> QED  BY <1>1 DEF SlotSound, InputGone, ReadsCopy

\* The one stream there is.
LEMMA OneSlotTexts ==
  ASSUME NEW openings, CustodyInv, NEW s \in Stream,
         EntriesSound', OnlyReadersOpen', SlotTexts(s, openings)'
  PROVE  Texts(openings)'
<1>1. Stream = {s}
  BY SlotKnown, OneSlot
<1> QED  BY <1>1 DEF Texts

LEMMA OwnObject ==
  ASSUME CustodyInv, NEW s \in Stream, fEasy[s] # None
  PROVE  /\ s \in Open /\ TypeInv /\ file[s].mode = "NONE" /\ ~InputGone(tidy[s])
         /\ st[s] \in Members /\ st[s].sURL \in Url /\ xfer[s] \in TransferRecord
         /\ st[s].cacheObject \in Obj /\ st[s].cacheObject # None
         /\ heap \in [Obj -> CacheRecord] /\ heap[st[s].cacheObject] \in CacheRecord
         /\ Live(st[s].cacheObject)
         /\ st \in [Stream -> Members] /\ xfer \in [Stream -> TransferRecord]
         /\ out \in [Stream -> Seq(Piece)] /\ ver \in [Url -> Version]
         /\ msgs \in Seq(Stream)
         /\ st[s].bDeleteCache => \A u \in Url : HttpCache[u] # st[s].cacheObject
         /\ ~st[s].bDeleteCache =>
              /\ HttpCache[st[s].sURL] = st[s].cacheObject
              /\ \A u \in Url : HttpCache[u] = st[s].cacheObject => u = st[s].sURL
<1>1. SeqInv /\ SlotSound(s) /\ s \in Open
  BY SlotKnown DEF Open
<1>2. /\ TypeInv /\ MapIntact /\ SoleDeleter
  BY <1>1 DEF SeqInv, Custody
<1>3. /\ st[s].sURL \in Url /\ st[s].cacheObject \in Obj
      /\ st \in [Stream -> Members] /\ xfer \in [Stream -> TransferRecord]
      /\ out \in [Stream -> Seq(Piece)] /\ ver \in [Url -> Version]
      /\ msgs \in Seq(Stream) /\ heap \in [Obj -> CacheRecord]
      /\ HttpCache \in [Url -> Obj \cup {None}]
  BY <1>1, <1>2 DEF TypeInv, TypeOK, StreamsSetUp
<1>4. /\ (st[s].bDeleteCache => \A u \in Url : HttpCache[u] # st[s].cacheObject)
      /\ (~st[s].bDeleteCache => HttpCache[st[s].sURL] = st[s].cacheObject)
  BY <1>1, <1>2 DEF SoleDeleter
<1>5. ~st[s].bDeleteCache =>
        \A u \in Url : HttpCache[u] = st[s].cacheObject => u = st[s].sURL
  BY <1>2, <1>3, <1>4, ObjAssumption DEF MapIntact, Cached
<1>6. file[s].mode = "NONE" /\ ~InputGone(tidy[s])
  BY <1>1 DEF SlotSound
<1>7. Live(st[s].cacheObject) /\ st[s].cacheObject # None
  BY <1>1, <1>3, OpenStreamsLive, ObjAssumption
<1> QED  BY <1>1, <1>2, <1>3, <1>4, <1>5, <1>6, <1>7

\* What a TidyStream has does not depend on what it is asking for.
SameTidy(s) ==
  /\ tidy'[s].mode = tidy[s].mode /\ tidy'[s].sURL = tidy[s].sURL
  /\ tidy'[s].inStream = tidy[s].inStream
  /\ tidy'[s].bTidied = tidy[s].bTidied /\ tidy'[s].status = tidy[s].status
  /\ tidy'[s].fTotalBytesRead = tidy[s].fTotalBytesRead

\* A step of an HTTP stream: of its members, its transfer and its object.
HttpStep(s, m, x, o1) ==
  /\ UNCHANGED <<HttpCache, fEasy, file, calling, ver, since>> /\ SameTidy(s)
  /\ st' = [st EXCEPT ![s] = m] /\ xfer' = [xfer EXCEPT ![s] = x]
  /\ m.sURL = st[s].sURL /\ m.cacheObject = st[s].cacheObject
  /\ m.bUseCache = st[s].bUseCache /\ m.bDeleteCache = st[s].bDeleteCache
  /\ st[s].bStreamFromCache => m.bStreamFromCache
  /\ heap' = [heap EXCEPT ![m.cacheObject] = o1]
  /\ \/ m.bDeleteCache \/ o1 = heap[m.cacheObject]
     \/ SameCopy(heap[m.cacheObject], o1) /\ m.bStreamFromCache

\* What holds of it then.
HttpHolds(s, m, x, o1) ==
  /\ \/ Fetches(m, x, o1, status'[s], out'[s], ver[m.sURL])
     \/ Revalidates(m, x, o1, status'[s], out'[s], ver[m.sURL], msgs')
  /\ IF cur' = s THEN InCall(m, x, status'[s], phase')
     ELSE m.filled = <<>> /\ m.fBytesToRead = 0

\* The texts of the map stay, and so does the source of s.
TextsStay ==
  /\ UNCHANGED <<HttpCache, ver>>
  /\ \A u \in Url : HttpCache[u] # None =>
       heap'[HttpCache[u]].zBuffer = heap[HttpCache[u]].zBuffer

\* What the map has after a step is a raw text, or was there before.
TextsKept ==
  /\ UNCHANGED ver
  /\ \A u \in Url : HttpCache'[u] # None =>
       \/ ~heap'[HttpCache'[u]].bTidyFlag
       \/ /\ HttpCache[u] # None
          /\ heap'[HttpCache'[u]].zBuffer = heap[HttpCache[u]].zBuffer

\* What is offered at u: the copy, and the document where there is none.
OfferIn(h, c, v, u) == IF c[u] = None THEN Body(u, v[u]) ELSE h[c[u]].zBuffer

Offer(u) == OfferIn(heap, HttpCache, ver, u)

OfferStays(u) == OfferIn(heap', HttpCache', ver', u) = Offer(u)

SourceStays(s) ==
  /\ fEasy'[s] = fEasy[s] /\ st'[s].sURL = st[s].sURL /\ since'[s] = since[s]
  /\ file'[s].mode = file[s].mode /\ file'[s].sFilename = file[s].sFilename

LEMMA StayKept == TextsStay => TextsKept
BY DEF TextsStay, TextsKept

LEMMA OffersStay ==
  ASSUME TextsStay, NEW u \in Url
  PROVE  OfferStays(u)
BY DEF TextsStay, OfferStays, Offer, OfferIn

LEMMA HttpStepTexts ==
  ASSUME NEW openings, TextsInv(openings), NEW s \in Stream, fEasy[s] # None,
         NEW m, NEW x, NEW o1, HttpStep(s, m, x, o1), HttpHolds(s, m, x, o1)
  PROVE  Texts(openings)' /\ TextsStay /\ SourceStays(s)
<1> DEFINE u == m.sURL
           o == m.cacheObject
<1>1. /\ CustodyInv /\ EntriesSound /\ OnlyReadersOpen /\ SlotTexts(s, openings)
  BY DEF TextsInv, Texts
<1>2. /\ file[s].mode = "NONE" /\ ~InputGone(tidy[s])
      /\ st'[s] = m /\ xfer'[s] = x
      /\ u \in Url /\ o \in Obj /\ o # None /\ heap'[o] = o1
      /\ \A p \in Obj : p # o => heap'[p] = heap[p]
  BY <1>1, OwnObject DEF HttpStep
<1>3. /\ m.bDeleteCache => \A w \in Url : HttpCache[w] # o
      /\ ~m.bDeleteCache => \A w \in Url : HttpCache[w] = o => w = u
  BY <1>1, OwnObject DEF HttpStep
<1>4. HttpCache' = HttpCache /\ fEasy' = fEasy /\ file' = file /\ SameTidy(s)
      /\ calling' = calling /\ ver' = ver /\ since' = since
  BY DEF HttpStep
<1>5. \A w \in Url : HttpCache[w] # None => HttpCache[w] \in Obj
  BY <1>1, SlotKnown DEF SeqInv, TypeInv, TypeOK
<1>6. \A w \in Url : HttpCache[w] # None =>
        \/ heap'[HttpCache[w]] = heap[HttpCache[w]]
        \/ /\ SameCopy(heap[HttpCache[w]], heap'[HttpCache[w]])
           /\ w = u /\ m.bStreamFromCache
  BY <1>2, <1>3, <1>5 DEF HttpStep
<1>7. EntriesSound'
  BY <1>1, <1>4, <1>6, EntriesStay
<1>8. \A w \in Url : ReadsCopy(s, w) => ReadsCopy(s, w)'
  BY <1>2, <1>4 DEF ReadsCopy, HttpStep, SameTidy
<1>9. OnlyReadersOpen'
  <2> SUFFICES ASSUME NEW w \in Url, HttpCache[w] # None,
                      heap'[HttpCache[w]].eState = "READ"
               PROVE  ReadsCopy(s, w)'
    BY <1>4 DEF OnlyReadersOpen
  <2>1. CASE heap'[HttpCache[w]] = heap[HttpCache[w]]
    BY <1>1, <1>8, <2>1, Shut
  <2>2. CASE w = u /\ m.bStreamFromCache
    BY <1>2, <1>4, <2>2 DEF ReadsCopy
  <2> QED  BY <1>6, <2>1, <2>2
<1>10. HttpTexts(s)'
  <2>1. u \notin File /\ (st[s].bUseCache /\ m.bDeleteCache => HttpCache[u] = None)
    <3>1. HttpTexts(s)
      BY <1>1 DEF SlotTexts, InputTexts
    <3>2. st[s].sURL = u /\ st[s].bDeleteCache = m.bDeleteCache
      BY DEF HttpStep
    <3> QED  BY <3>1, <3>2 DEF HttpTexts, Revalidates
  <2>2. Fetches(m, x, o1, status'[s], out'[s], ver[u]) => m.bDeleteCache
    BY DEF Fetches
  <2>3. m.bUseCache = st[s].bUseCache
    BY DEF HttpStep
  <2> QED  BY <1>2, <1>4, <2>1, <2>2, <2>3 DEF HttpTexts, HttpHolds
<1>11. InputTexts(s)'
  <2>1. \A w \in Url : since[s][w] <= ver[w]
    BY <1>1 DEF SlotTexts, InputTexts
  <2> QED  BY <1>2, <1>4, <1>10, <2>1 DEF InputTexts
<1>12. tidy[s].mode # "NONE" => TidyTexts(s)'
  <2>1. tidy[s].mode # "NONE" => TidyTexts(s)
    BY <1>1 DEF SlotTexts
  <2>2. InputUrl(s)' = InputUrl(s)
    BY <1>2, <1>4 DEF InputUrl, HttpStep
  <2>3. SlotSound(s)
    BY <1>1, SlotKnown
  <2> QED  BY <1>2, <1>4, <2>1, <2>2, <2>3 DEF TidyTexts, InputGone, SlotSound, SameTidy
<1>13. UsesCache(s) => UsesCache(s)'
  BY <1>2, <1>4 DEF UsesCache, HttpStep
<1>14. SlotTexts(s, openings)'
  BY <1>1, <1>4, <1>11, <1>12, <1>13 DEF SlotTexts, SameTidy
<1>15. TextsStay
  BY <1>4, <1>6 DEF TextsStay, SameCopy
<1>16. SourceStays(s)
  BY <1>2, <1>4 DEF SourceStays, HttpStep
<1> QED  BY <1>1, <1>7, <1>9, <1>14, <1>15, <1>16, OneSlotTexts

\* What is known of an HTTP stream, by what it is doing.
LEMMA HttpKnown ==
  ASSUME NEW openings, TextsInv(openings), NEW s \in Stream, fEasy[s] # None
  PROVE  LET m == st[s]
             x == xfer[s]
             o == heap[m.cacheObject]
             v == ver[m.sURL]
         IN  /\ CustodyInv /\ v \in Version /\ m.sURL \notin File
             /\ \/ /\ Fetches(m, x, o, status[s], out[s], v)
                   /\ m.bUseCache => HttpCache[m.sURL] = None
                \/ /\ Revalidates(m, x, o, status[s], out[s], v, msgs)
                   /\ EntrySound(o, m.sURL, v)
             /\ IF cur = s THEN InCall(m, x, status[s], phase)
                ELSE m.filled = <<>> /\ m.fBytesToRead = 0
<1>1. CustodyInv /\ HttpTexts(s) /\ EntriesSound
  BY DEF TextsInv, Texts, SlotTexts, InputTexts
<1>2. ver[st[s].sURL] \in Version
  BY <1>1, OwnObject
<1>3. Revalidates(st[s], xfer[s], heap[st[s].cacheObject], status[s], out[s],
                  ver[st[s].sURL], msgs)
        => EntrySound(heap[st[s].cacheObject], st[s].sURL, ver[st[s].sURL])
  <2>1. /\ st[s].sURL \in Url /\ (~st[s].bDeleteCache =>
             HttpCache[st[s].sURL] = st[s].cacheObject /\ st[s].cacheObject # None)
    BY <1>1, OwnObject
  <2> QED  BY <1>1, <2>1 DEF Revalidates, EntriesSound
<1> QED  BY <1>1, <1>2, <1>3 DEF HttpTexts

LEMMA TextsBeginRead ==
  ASSUME NEW openings, TextsInv(openings), NEW s \in Stream, NEW n \in 1 .. MaxRead,
         BeginRead(s, n), UNCHANGED <<file, calling>>, SameTidy(s)
  PROVE  Texts(openings)' /\ TextsStay /\ SourceStays(s)
<1> DEFINE m    == st[s]
           x    == xfer[s]
           o    == heap[m.cacheObject]
           v    == ver[m.sURL]
           k    == IF m.bStreamFromCache THEN 0 ELSE Least(n, Len(m.fBuffer))
           rest == n - k
           m1   == [m EXCEPT !.maxToRead = n,
                             !.fBytesToRead = rest,
                             !.filled = SubSeq(m.fBuffer, 1, k),
                             !.fBuffer = SubSeq(m.fBuffer, k + 1, Len(m.fBuffer)),
                             !.fTotalBytesRead = m.fTotalBytesRead + k]
<1>1. /\ cur = None /\ fEasy[s] # None /\ status[s] = "open" /\ cur' = s
      /\ phase' = (IF m.bStreamFromCache \/ rest = 0 THEN "return" ELSE "perform")
      /\ st' = [st EXCEPT ![s] = m1]
      /\ UNCHANGED <<handlerVars, fEasy, xfer, msgs, ver, clientVars, faults>>
  BY DEF BeginRead
<1>2. cur # s
  BY <1>1, StreamAssumption
<1>3. /\ CustodyInv /\ v \in Version
      /\ \/ Fetches(m, x, o, "open", out[s], v)
         \/ Revalidates(m, x, o, "open", out[s], v, msgs)
      /\ m.filled = <<>>
  BY <1>1, <1>2, HttpKnown
<1>4. /\ m \in Members /\ x \in TransferRecord /\ out[s] \in Seq(Piece)
      /\ st \in [Stream -> Members] /\ xfer \in [Stream -> TransferRecord]
      /\ heap \in [Obj -> CacheRecord]
  BY <1>1, <1>3, OwnObject
<1>5. /\ n \in Nat \ {0} /\ Len(m.fBuffer) \in Nat /\ m.fBuffer \in Seq(Piece)
      /\ m.fTotalBytesRead \in Nat
  BY <1>4, ClientAssumption, LenProperties DEF Members
<1>6. k \in 0 .. Len(m.fBuffer) /\ k <= n /\ (k < n /\ ~m.bStreamFromCache => k = Len(m.fBuffer))
      /\ rest \in Nat /\ (rest = 0 <=> k = n)
  <2> DEFINE l == Len(m.fBuffer)
  <2>1. l \in Nat
    BY <1>5
  <2> HIDE DEF l
  <2> QED  BY <1>5, <2>1 DEF Least, l
<1> HIDE DEF k, rest
<1>7. /\ SubSeq(m.fBuffer, 1, k) \in Seq(Piece)
      /\ SubSeq(m.fBuffer, k + 1, Len(m.fBuffer)) \in Seq(Piece)
      /\ Len(SubSeq(m.fBuffer, 1, k)) = k
      /\ (k = Len(m.fBuffer) => SubSeq(m.fBuffer, k + 1, Len(m.fBuffer)) = <<>>)
  <2>1. x.left \in Seq(Piece)
    BY <1>4 DEF TransferRecord
  <2> QED  BY ONLY <1>5, <1>6, <2>1, FromHolding
<1>8. /\ m1 \in Members /\ SameFetch(m, m1) /\ m1.cacheObject = m.cacheObject
      /\ m1.bTransferFinished = m.bTransferFinished
      /\ m1.fBytesToRead = rest
      /\ m1.filled = SubSeq(m.fBuffer, 1, k)
      /\ m1.fBuffer = SubSeq(m.fBuffer, k + 1, Len(m.fBuffer))
      /\ m1.fTotalBytesRead = m.fTotalBytesRead + k
  <2>1. m.fTotalBytesRead + k \in Nat
    BY <1>5, <1>6
  <2> HIDE <1>7
  <2>2. /\ SubSeq(m.fBuffer, 1, k) \in Seq(Piece)
        /\ SubSeq(m.fBuffer, k + 1, Len(m.fBuffer)) \in Seq(Piece)
        /\ rest \in Nat /\ n \in Nat
    BY <1>5, <1>6, <1>7
  <2>3. m1 \in Members
    BY ZenonT(60), <1>4, <2>1, <2>2 DEF Members
  <2> QED  BY <1>4, <2>3 DEF Members, SameFetch
<1> HIDE DEF m1
<1>9. HttpStep(s, m1, x, o)
  <2>1. xfer' = [xfer EXCEPT ![s] = x] /\ heap' = [heap EXCEPT ![m1.cacheObject] = o]
    BY <1>1, <1>4, <1>8 DEF handlerVars
  <2>2. UNCHANGED <<HttpCache, fEasy, ver, since>>
    BY <1>1 DEF handlerVars, clientVars
  <2> QED  BY <1>1, <1>8, <2>1, <2>2 DEF HttpStep, SameFetch
<1>10. /\ \/ Fetches(m1, x, o, "open", out[s], v)
          \/ Revalidates(m1, x, o, "open", out[s], v, msgs)
       /\ InCall(m1, x, "open", phase')
  <2>1. CASE Fetches(m, x, o, "open", out[s], v)
    <3>1. Fetches(m1, x, o, "open", out[s], v)
      BY <1>3, <1>4, <1>6, <1>8, <2>1, FetchBegin
    <3>2. x.cond = None /\ ~m.bStreamFromCache
      BY <2>1 DEF Fetches, Flow
    <3>3. CASE rest = 0
      <4>1. Len(m1.filled) # 0
        BY <1>5, <1>6, <1>7, <1>8, <3>3
      <4>2. m1.filled # <<>>
        BY <1>7, <1>8, <4>1, EmptySeq
      <4> QED  BY <1>8, <3>1, <3>2, <3>3, <4>2 DEF InCall
    <3>4. CASE rest # 0
      <4>1. k = Len(m.fBuffer)
        BY <1>5, <1>6, <3>2, <3>4
      <4>2. m1.fBuffer = <<>>
        BY <1>7, <1>8, <4>1
      <4>3. phase' = "perform"
        BY <1>1, <3>2, <3>4
      <4> QED  BY <1>8, <3>1, <3>2, <3>4, <4>2, <4>3 DEF InCall
    <3> QED  BY <3>3, <3>4
  <2>2. CASE Revalidates(m, x, o, "open", out[s], v, msgs)
    <3>1. m.fBuffer = <<>> /\ x.cond = v /\ v # None
          /\ (m.bUseCache /\ ~m.bStoreCache /\ ~m.bDeleteCache)
      BY <1>3, <2>2, ServerAssumption DEF Revalidates, Version
    <3>2. k = 0
      BY <1>6, <3>1, EmptySeq
    <3>3. m1.filled = <<>> /\ m1.fBuffer = <<>>
      BY <1>7, <1>8, <3>1, <3>2, EmptySeq
    <3>4. SameRevalidation(m, m1)
      BY <1>8, <3>3 DEF SameRevalidation, SameFetch
    <3>5. x.code = 304 => m.bStreamFromCache \/ msgs # <<>>
      BY <2>2 DEF Revalidates
    <3>6. Revalidates(m1, x, o, "open", out[s], v, msgs)
      BY <2>2, <3>4, <3>5, RevalidationKept
    <3>7. rest > 0
      BY <1>5, <1>6, <3>2
    <3>8. InCall(m1, x, "open", phase')
      <4>1. m1.fBytesToRead > 0 /\ m1.bStreamFromCache = m.bStreamFromCache
        BY <1>8, <3>7 DEF SameFetch
      <4>2. phase' = "return" => m.bStreamFromCache
        BY <1>1, <3>7
      <4> QED  BY <3>1, <4>1, <4>2 DEF InCall
    <3> QED  BY <3>6, <3>8
  <2> QED  BY <1>3, <2>1, <2>2
<1>11. HttpHolds(s, m1, x, o)
  <2>1. status'[s] = "open" /\ out'[s] = out[s] /\ msgs' = msgs /\ cur' = s
        /\ ver[m1.sURL] = v
    BY <1>1, <1>8 DEF clientVars, SameFetch
  <2> QED  BY <1>10, <2>1 DEF HttpHolds
<1> QED  BY <1>1, <1>9, <1>11, HttpStepTexts

LEMMA TextsHeader ==
  ASSUME NEW openings, TextsInv(openings), NEW s \in Stream, NEW t \in Stream,
         cur = s, Header(t), UNCHANGED <<file, tidy, calling>>
  PROVE  Texts(openings)' /\ TextsStay /\ SourceStays(s)
<1> DEFINE m == st[s]
           x == xfer[s]
           a == m.cacheObject
           o == heap[a]
           v == ver[m.sURL]
<1>1. Stream = {s} /\ t = s
  BY SlotKnown, OneSlot DEF TextsInv
<1>2. /\ fEasy[s] # None /\ phase = "perform" /\ x.phase = "sent"
      /\ HeadNotModified(s)
         \/ \E f \in Framing : HeadOK(s, f) \/ HeadRedirect(s, f) \/ HeadError(s, f)
      /\ UNCHANGED <<HttpCache, freeHandles, fEasy, callVars, ver, clientVars>>
  BY <1>1 DEF Header, Performing, Running, Open
<1>3. /\ CustodyInv /\ v \in Version
      /\ \/ Fetches(m, x, o, status[s], out[s], v)
         \/ Revalidates(m, x, o, status[s], out[s], v, msgs)
      /\ InCall(m, x, status[s], "perform")
  BY <1>2, HttpKnown
<1>4. /\ m \in Members /\ x \in TransferRecord /\ m.sURL \in Url
      /\ st \in [Stream -> Members] /\ xfer \in [Stream -> TransferRecord]
      /\ heap \in [Obj -> CacheRecord] /\ a \in Obj /\ o \in CacheRecord
      /\ Live(a) /\ msgs \in Seq(Stream)
  BY <1>2, <1>3, OwnObject
<1>5. /\ Faults = {} /\ Framing \subseteq {"length"} /\ Validators /\ NoRedirection
  BY <1>3, SlotKnown DEF TextsInv, SteadyServers, SeqInv
<1>6. /\ cur' = s /\ phase' = "perform" /\ status' = status /\ out' = out
      /\ SameTidy(s) /\ UNCHANGED <<HttpCache, fEasy, file, calling, ver, since>>
  BY <1>2 DEF callVars, clientVars, SameTidy
<1>7. Fetches(m, x, o, status[s], out[s], v) => x.cond # v
  BY <1>3, ServerAssumption DEF Fetches, Flow, Version
<1>8. CASE HeadNotModified(s)
  <2>0. PICK y : y = After(Response(x, 304, <<>>, TRUE))
    OBVIOUS
  <2>1. /\ x.cond = v /\ xfer' = [xfer EXCEPT ![s] = y]
        /\ Announce(s, Response(x, 304, <<>>, TRUE))
        /\ UNCHANGED <<st, heap>>
    BY <1>8, <2>0 DEF HeadNotModified
  <2>2. Revalidates(m, x, o, status[s], out[s], v, msgs)
    BY <1>3, <1>7, <2>1
  <2>3. msgs' # <<>>
    <3>1. Ends(Response(x, 304, <<>>, TRUE))
      BY <1>4 DEF Ends, Response, TransferRecord
    <3>2. msgs' = Append(msgs, s)
      BY <2>1, <3>1 DEF Announce
    <3> QED  BY <1>4, <3>2, AppendProperties
  <2>4. Revalidates(m, y, o, status[s], out[s], v, msgs')
    <3>1. NotModified(x, y)
      BY <2>0 DEF NotModified
    <3> QED  BY <1>2, <1>4, <2>2, <2>3, <3>1, RevalidationAnswered
  <2>41. y.cond = x.cond
    BY <2>2, <2>4 DEF Revalidates
  <2>5. HttpStep(s, m, y, o)
    <3>1. st' = [st EXCEPT ![s] = m] /\ heap' = [heap EXCEPT ![m.cacheObject] = o]
      BY <1>4, <2>1
    <3> QED  BY <1>6, <2>1, <3>1 DEF HttpStep
  <2>6. HttpHolds(s, m, y, o)
    BY <1>3, <1>6, <2>4, <2>41 DEF HttpHolds, InCall
  <2> QED  BY <1>2, <2>5, <2>6, HttpStepTexts
<1>9. CASE HeadOK(s, "length")
  <2>01. PICK y : y = After(Response(x, 200, Body(m.sURL, v), TRUE))
    OBVIOUS
  <2>02. PICK m1 : m1 = [m EXCEPT !.bStoreCache = TRUE,
                                  !.hContent_length_response = BodyLen[m.sURL]]
    OBVIOUS
  <2>03. PICK o1 : o1 = IF m.bUseCache THEN [o EXCEPT !.pEtag = v] ELSE o
    OBVIOUS
  <2>1. /\ x.cond # v /\ st' = [st EXCEPT ![s] = m1]
        /\ xfer' = [xfer EXCEPT ![s] = y]
        /\ heap' = IF m.bUseCache THEN [heap EXCEPT ![a].pEtag = v] ELSE heap
    BY <1>4, <1>5, <1>9, <2>01, <2>02 DEF HeadOK, SetsEtag
  <2>2. Fetches(m, x, o, status[s], out[s], v)
    BY <1>3, <2>1 DEF Revalidates
  <2>3. heap' = [heap EXCEPT ![a] = o1]
    BY <1>4, <2>03, <2>1
  <2>4. /\ m1.sURL = m.sURL /\ m1.cacheObject = a /\ m1.bUseCache = m.bUseCache
        /\ m1.bDeleteCache = m.bDeleteCache /\ m1.bStreamFromCache = m.bStreamFromCache
        /\ m1.fBytesToRead = m.fBytesToRead /\ m1.filled = m.filled
        /\ m1.fBuffer = m.fBuffer
    BY <1>4, <2>02 DEF Members
  <2>5. Fetches(m1, y, o1, status[s], out[s], v)
    <3>1. HeadOf(m, x, o, v, m1, y, o1)
      BY <2>01, <2>02, <2>03 DEF HeadOf
    <3> QED  BY <1>2, <1>3, <1>4, <2>2, <3>1, FetchHead
  <2>51. y.cond = x.cond
    BY <2>2, <2>5 DEF Fetches, Flow
  <2>6. m.bDeleteCache
    BY <2>2 DEF Fetches
  <2>7. HttpStep(s, m1, y, o1)
    BY <1>6, <2>1, <2>3, <2>4, <2>6 DEF HttpStep
  <2>8. HttpHolds(s, m1, y, o1)
    <3>1. InCall(m1, y, status[s], "perform")
      BY <1>3, <2>4, <2>51 DEF InCall
    <3> QED  BY <1>6, <2>4, <2>5, <3>1 DEF HttpHolds
  <2> QED  BY <1>2, <2>7, <2>8, HttpStepTexts
<1>10. \A f \in Framing : ~HeadRedirect(s, f) /\ ~HeadError(s, f)
  BY <1>4, <1>5 DEF HeadRedirect, HeadError, NoRedirection
<1> QED  BY <1>2, <1>5, <1>8, <1>9, <1>10

\* writeCallback: of what the stream fetches.
LEMMA TextsData ==
  ASSUME NEW openings, TextsInv(openings), NEW s \in Stream, NEW t \in Stream,
         cur = s, Data(t), UNCHANGED <<file, tidy, calling>>
  PROVE  Texts(openings)' /\ TextsStay /\ SourceStays(s)
<1> DEFINE m == st[s]
           x == xfer[s]
           a == m.cacheObject
           o == heap[a]
           v == ver[m.sURL]
           p == Head(x.left)
           y == After([x EXCEPT !.left = Tail(@)])
           m1 == IF HasRoom(m)
                 THEN [m EXCEPT !.filled = Append(@, p),
                                !.fBytesToRead = @ - 1,
                                !.fTotalBytesRead = @ + 1]
                 ELSE [m EXCEPT !.fBuffer = Append(@, p)]
           o1 == IF m.bUseCache THEN WriteBytes(o, <<p>>) ELSE o
<1>1. Stream = {s} /\ t = s
  BY SlotKnown, OneSlot DEF TextsInv
<1>2. /\ fEasy[s] # None /\ phase = "perform" /\ x.phase = "body" /\ x.left # <<>>
      /\ st' = [st EXCEPT ![s] = m1] /\ xfer' = [xfer EXCEPT ![s] = y]
      /\ heap' = (IF Compresses(m) /\ Live(a)
                  THEN [heap EXCEPT ![a] = WriteBytes(@, <<p>>)] ELSE heap)
      /\ UNCHANGED <<HttpCache, freeHandles, fEasy, callVars, ver, clientVars>>
  BY <1>1 DEF Data, Performing, Running, Open
<1>3. /\ CustodyInv /\ v \in Version
      /\ \/ Fetches(m, x, o, status[s], out[s], v)
         \/ Revalidates(m, x, o, status[s], out[s], v, msgs)
      /\ InCall(m, x, status[s], "perform")
  BY <1>2, HttpKnown
<1>4. /\ m \in Members /\ x \in TransferRecord /\ m.sURL \in Url
      /\ st \in [Stream -> Members] /\ xfer \in [Stream -> TransferRecord]
      /\ heap \in [Obj -> CacheRecord] /\ a \in Obj /\ o \in CacheRecord
      /\ Live(a) /\ out[s] \in Seq(Piece)
  BY <1>2, <1>3, OwnObject
<1>5. /\ cur' = s /\ phase' = "perform" /\ status' = status /\ out' = out
      /\ SameTidy(s) /\ UNCHANGED <<HttpCache, fEasy, file, calling, ver, since>>
  BY <1>2 DEF callVars, clientVars, SameTidy
<1>6. Fetches(m, x, o, status[s], out[s], v)
  BY <1>2, <1>3 DEF Revalidates
<1>7. /\ m.bDeleteCache /\ x.cond = None /\ m.bStoreCache
  BY <1>2, <1>6 DEF Fetches, Flow
<1>8. HasRoom(m) => m.fBuffer = <<>>
  BY <1>3, <1>4, <1>7 DEF HasRoom, InCall, Members
<1>9. p \in Piece /\ Append(m.filled, p) \in Seq(Piece)
      /\ Append(m.fBuffer, p) \in Seq(Piece) /\ Append(m.filled, p) # <<>>
  BY <1>2, <1>4, NextPiece DEF TransferRecord, Members
<1>10. /\ m1 \in Members
       /\ m1.sURL = m.sURL /\ m1.cacheObject = a /\ m1.bUseCache = m.bUseCache
       /\ m1.bDeleteCache = m.bDeleteCache /\ m1.bStreamFromCache = m.bStreamFromCache
       /\ m1.bStoreCache = m.bStoreCache
       /\ m1.bTransferFinished = m.bTransferFinished
       /\ m1.hContent_length_response = m.hContent_length_response
  <2>1. CASE HasRoom(m)
    <3>1. m.fBytesToRead - 1 \in Nat /\ m.fTotalBytesRead + 1 \in Nat
      <4>1. /\ m.fBytesToRead \in Nat /\ m.fTotalBytesRead \in Nat
            /\ m.fBytesToRead > 0
        BY <1>4, <2>1 DEF HasRoom, Members
      <4> QED  BY ONLY <4>1
    <3> HIDE DEF HasRoom, p
    <3>2. m1 = [m EXCEPT !.filled = Append(@, p), !.fBytesToRead = @ - 1,
                         !.fTotalBytesRead = @ + 1]
      BY <2>1
    <3>3. m1 \in Members
      BY ZenonT(60), <1>4, <1>9, <3>1, <3>2 DEF Members
    <3> QED  BY <1>4, <3>2, <3>3 DEF Members
  <2>2. CASE ~HasRoom(m)
    <3> HIDE DEF HasRoom, p
    <3>1. m1 = [m EXCEPT !.fBuffer = Append(@, p)]
      BY <2>2
    <3>2. m1 \in Members
      BY ZenonT(60), <1>4, <1>9, <3>1 DEF Members
    <3> QED  BY <1>4, <3>1, <3>2 DEF Members
  <2> QED  BY <2>1, <2>2
<1>11. \/ /\ HasRoom(m) /\ m1.fBuffer = m.fBuffer
          /\ m1.filled = Append(m.filled, p)
          /\ m1.fTotalBytesRead = m.fTotalBytesRead + 1
       \/ /\ ~HasRoom(m) /\ m1.filled = m.filled
          /\ m1.fBuffer = Append(m.fBuffer, p)
          /\ m1.fTotalBytesRead = m.fTotalBytesRead
          /\ m1.fBytesToRead = m.fBytesToRead
  <2> HIDE DEF p
  <2> QED  BY <1>4 DEF Members
<1> HIDE DEF m1, p
<1>12. Fetches(m1, y, o1, status[s], out[s], v) /\ y.cond = x.cond
  <2>1. /\ p = Head(x.left) /\ y = After([x EXCEPT !.left = Tail(@)])
        /\ o1 = (IF m.bUseCache THEN WriteBytes(o, <<p>>) ELSE o)
    BY DEF p
  <2>2. x.phase = "body"
    BY <1>2
  <2>3. /\ m \in Members /\ x \in TransferRecord /\ m.sURL \in Url
        /\ o \in CacheRecord /\ out[s] \in Seq(Piece)
    BY <1>4
  <2> HIDE DEF y, o1, o, a, x, m, v
  <2> QED  BY <1>6, <1>8, <1>10, <1>11, <2>1, <2>2, <2>3, FetchData
<1>13. heap' = [heap EXCEPT ![a] = o1]
  BY <1>2, <1>4, <1>7 DEF Compresses
<1> HIDE DEF y, o1
<1>14. HttpStep(s, m1, y, o1)
  BY <1>2, <1>5, <1>7, <1>10, <1>13 DEF HttpStep
<1>15. InCall(m1, y, status[s], "perform")
  <2>1. IF m1.fBytesToRead = 0 THEN m1.filled # <<>> ELSE m1.fBuffer = <<>>
    <3>1. CASE HasRoom(m)
      BY <1>8, <1>9, <1>11, <3>1
    <3>2. CASE ~HasRoom(m)
      <4>1. m.fBytesToRead = 0
        BY <1>4, <3>2 DEF HasRoom, Members
      <4>2. m.filled # <<>>
        BY <1>3, <1>7, <4>1 DEF InCall
      <4> QED  BY <1>11, <3>2, <4>1, <4>2
    <3> QED  BY <3>1, <3>2
  <2> QED  BY <1>3, <1>7, <1>12, <2>1 DEF InCall
<1>16. HttpHolds(s, m1, y, o1)
  BY <1>5, <1>10, <1>12, <1>15 DEF HttpHolds
<1> QED  BY <1>2, <1>14, <1>16, HttpStepTexts

\* The end of a response whose length is known has come with its last piece,
\* and no connection is lost.
LEMMA TextsTransfer ==
  ASSUME NEW openings, TextsInv(openings), NEW s \in Stream, NEW t \in Stream,
         cur = s, Transfer(t), UNCHANGED <<file, tidy, calling>>
  PROVE  Texts(openings)' /\ TextsStay /\ SourceStays(s)
<1>1. Stream = {s} /\ t = s
  BY SlotKnown, OneSlot DEF TextsInv
<1>2. ~Fail(t)
  BY DEF Fail, TextsInv, SteadyServers
<1>3. ~Complete(t)
  <2> SUFFICES ASSUME Complete(s) PROVE FALSE  BY <1>1
  <2>1. fEasy[s] # None /\ xfer[s].phase = "body" /\ xfer[s].left = <<>>
    BY DEF Complete, Performing, Running, Open
  <2> QED  BY <2>1, HttpKnown DEF Fetches, Revalidates
<1> QED  BY <1>2, <1>3, TextsHeader, TextsData DEF Transfer

\* What a message leaves of the stream that takes it.
LEMMA TextsMessage ==
  ASSUME NEW openings, TextsInv(openings), NEW s \in Stream, NEW t \in Stream,
         cur = s,
         TakeFinished(t) \/ TakeUnmodified(t) \/ TakeRedirect(t) \/ TakeError(t),
         UNCHANGED <<file, tidy, calling>>
  PROVE  Texts(openings)' /\ TextsStay /\ SourceStays(s)
<1> DEFINE m == st[s]
           x == xfer[s]
           o == heap[m.cacheObject]
           v == ver[m.sURL]
           m1 == [m EXCEPT !.bStreamFromCache = TRUE]
<1>1. Stream = {s} /\ t = s
  BY SlotKnown, OneSlot DEF TextsInv
<1>2. fEasy[s] # None
  BY SlotKnown, StreamAssumption DEF TextsInv, SeqInv, TypeInv, CurrentExists, Open
<1>3. /\ CustodyInv /\ v \in Version
      /\ \/ Fetches(m, x, o, status[s], out[s], v)
         \/ Revalidates(m, x, o, status[s], out[s], v, msgs)
      /\ InCall(m, x, status[s], phase)
  BY <1>2, HttpKnown
<1>4. /\ m \in Members /\ x \in TransferRecord
      /\ st \in [Stream -> Members] /\ xfer \in [Stream -> TransferRecord]
      /\ heap \in [Obj -> CacheRecord]
  BY <1>2, <1>3, OwnObject
<1>5. x.ok /\ x.code \in {0, 200, 304}
  BY <1>3 DEF Fetches, Flow, Revalidates
<1>6. CASE TakeFinished(t)
  <2>1. /\ x.code # 304 /\ cur' = s /\ phase' = "messages"
        /\ UNCHANGED <<handlerVars, fEasy, st, xfer, ver, clientVars>>
    BY <1>6 DEF TakeFinished, Finished
  <2>2. HttpStep(s, m, x, o)
    BY <1>4, <2>1 DEF HttpStep, SameTidy, handlerVars, clientVars
  <2>3. Fetches(m, x, o, status[s], out[s], v)
          \/ Revalidates(m, x, o, status[s], out[s], v, msgs')
    <3>1. CASE Revalidates(m, x, o, status[s], out[s], v, msgs)
      <4>1. SameRevalidation(m, m)
        BY <3>1 DEF SameRevalidation, Revalidates
      <4> QED  BY <2>1, <3>1, <4>1, RevalidationKept
    <3> QED  BY <1>3, <3>1
  <2>4. InCall(m, x, status[s], "messages")
    BY <1>3 DEF InCall
  <2>5. HttpHolds(s, m, x, o)
    BY <2>1, <2>3, <2>4 DEF HttpHolds, clientVars
  <2> QED  BY <1>2, <2>2, <2>5, HttpStepTexts
<1>7. CASE TakeUnmodified(t)
  <2>1. /\ x.code = 304 /\ cur' = s /\ phase' = "messages"
        /\ st' = [st EXCEPT ![s] = m1]
        /\ UNCHANGED <<handlerVars, fEasy, xfer, ver, clientVars>>
    BY <1>4, <1>7 DEF TakeUnmodified, Unmodified
  <2>2. Revalidates(m, x, o, status[s], out[s], v, msgs)
    BY <1>3, <2>1 DEF Fetches, Flow
  <2>3. /\ m1.sURL = m.sURL /\ m1.cacheObject = m.cacheObject
        /\ m1.bUseCache = m.bUseCache /\ m1.bDeleteCache = m.bDeleteCache
        /\ m1.bStreamFromCache /\ m1.fBytesToRead = m.fBytesToRead
        /\ m1.filled = m.filled /\ m1.fBuffer = m.fBuffer
    BY <1>4 DEF Members
  <2>4. Revalidates(m1, x, o, status[s], out[s], v, msgs')
    BY <1>4, <2>1, <2>2, RevalidationTaken
  <2> HIDE DEF m1
  <2>5. HttpStep(s, m1, x, o)
    BY <1>4, <2>1, <2>3 DEF HttpStep, SameTidy, handlerVars, clientVars
  <2>6. InCall(m1, x, status[s], "messages")
    BY <1>3, <2>3 DEF InCall
  <2>7. HttpHolds(s, m1, x, o)
    BY <2>1, <2>3, <2>4, <2>6 DEF HttpHolds, clientVars
  <2> QED  BY <1>2, <2>5, <2>7, HttpStepTexts
<1>8. ~TakeRedirect(t) /\ ~TakeError(t)
  BY <1>1, <1>5 DEF TakeRedirect, TakeError, Redirected, Refused
<1> QED  BY <1>6, <1>7, <1>8

\* The loop goes on: a request that is still out has no answer yet.
LEMMA TextsAgain ==
  ASSUME NEW openings, TextsInv(openings), NEW s \in Stream, cur = s,
         PerformAgain, UNCHANGED <<file, tidy, calling>>
  PROVE  Texts(openings)' /\ TextsStay /\ SourceStays(s)
<1> DEFINE m == st[s]
           x == xfer[s]
           o == heap[m.cacheObject]
           v == ver[m.sURL]
<1>1. fEasy[s] # None
  BY SlotKnown, StreamAssumption DEF TextsInv, SeqInv, TypeInv, CurrentExists, Open
<1>2. /\ CustodyInv /\ v \in Version
      /\ \/ Fetches(m, x, o, status[s], out[s], v)
         \/ Revalidates(m, x, o, status[s], out[s], v, msgs)
      /\ InCall(m, x, status[s], phase)
  BY <1>1, HttpKnown
<1>3. /\ m \in Members /\ x \in TransferRecord
      /\ st \in [Stream -> Members] /\ xfer \in [Stream -> TransferRecord]
      /\ heap \in [Obj -> CacheRecord]
  BY <1>1, <1>2, OwnObject
<1>4. /\ cur' = s /\ phase' = "perform"
      /\ xfer' = IF x.phase = "sent" THEN [xfer EXCEPT ![s].code = 0] ELSE xfer
      /\ UNCHANGED <<handlerVars, fEasy, st, msgs, ver, clientVars>>
  BY DEF PerformAgain
<1>5. x.phase = "sent" => x.code = 0
  BY <1>2 DEF Fetches, Revalidates
<1>6. xfer' = [xfer EXCEPT ![s] = x]
  BY <1>3, <1>4, <1>5 DEF TransferRecord
<1>7. HttpStep(s, m, x, o)
  BY <1>3, <1>4, <1>6 DEF HttpStep, SameTidy, handlerVars, clientVars
<1>8. InCall(m, x, status[s], "perform")
  BY <1>2 DEF InCall
<1>9. HttpHolds(s, m, x, o)
  BY <1>2, <1>4, <1>8 DEF HttpHolds, clientVars
<1> QED  BY <1>1, <1>7, <1>9, HttpStepTexts

\* The call returns what was received: nothing only at the end.
LEMMA TextsEnd ==
  ASSUME NEW openings, TextsInv(openings), NEW s \in Stream, cur = s,
         EndRead, UNCHANGED <<file, tidy, calling>>
  PROVE  Texts(openings)' /\ TextsStay /\ SourceStays(s)
<1> DEFINE m == st[s]
           x == xfer[s]
           o == heap[m.cacheObject]
           v == ver[m.sURL]
           m1 == [AtRest(m) EXCEPT !.bTransferFinished =
                                      TransferFinished(m, m.fTotalBytesRead)]
           told == IF m.filled = <<>> THEN "eof" ELSE "open"
<1>1. fEasy[s] # None
  BY SlotKnown, StreamAssumption DEF TextsInv, SeqInv, TypeInv, CurrentExists, Open
<1>2. /\ CustodyInv /\ v \in Version
      /\ \/ Fetches(m, x, o, status[s], out[s], v)
         \/ Revalidates(m, x, o, status[s], out[s], v, msgs)
      /\ InCall(m, x, status[s], phase)
  BY <1>1, HttpKnown
<1>3. /\ m \in Members /\ x \in TransferRecord /\ m.sURL \in Url
      /\ st \in [Stream -> Members] /\ xfer \in [Stream -> TransferRecord]
      /\ heap \in [Obj -> CacheRecord] /\ out \in [Stream -> Seq(Piece)]
      /\ TypeInv
  BY <1>1, <1>2, OwnObject
<1>4. /\ ReadsEnd /\ ~FromCache(m) /\ Return(s, m.filled, m)
      /\ UNCHANGED <<handlerVars, fEasy, xfer, msgs, ver, since>>
  BY DEF EndRead
<1>5. /\ m.fBytesToRead # 0 /\ m.filled = <<>> /\ ~m.bStreamFromCache
         /\ phase # "return"
      => x.phase \notin {"sent", "body"} /\ msgs = <<>>
  BY <1>1, <1>4 DEF ReadsEnd, LoopEnds, Running, Open
<1>6. Fetches(m, x, o, "open", out[s], v)
  <2>1. ~Revalidates(m, x, o, status[s], out[s], v, msgs)
    <3> SUFFICES ASSUME Revalidates(m, x, o, status[s], out[s], v, msgs)
                 PROVE  FALSE
      OBVIOUS
    <3>1. ~m.bStreamFromCache /\ m.filled = <<>> /\ x.cond # None
      BY <1>2, <1>4, ServerAssumption DEF Revalidates, FromCache, Version
    <3>2. m.fBytesToRead # 0 /\ phase # "return"
      BY <1>2, <1>3, <3>1 DEF InCall, Members
    <3> QED  BY <1>5, <3>1, <3>2 DEF Revalidates
  <2> QED  BY <1>2, <2>1 DEF InCall
<1>7. m.filled = <<>> => x.phase = "done" /\ m.fBuffer = <<>>
  <2> SUFFICES ASSUME m.filled = <<>> PROVE x.phase = "done" /\ m.fBuffer = <<>>
    OBVIOUS
  <2>1. x.cond = None /\ ~m.bStreamFromCache /\ x.phase \in {"sent", "body", "done"}
    BY <1>6 DEF Fetches, Flow
  <2>2. m.fBytesToRead # 0 /\ m.fBuffer = <<>> /\ phase # "return"
    BY <1>2, <2>1 DEF InCall
  <2> QED  BY <1>5, <2>1, <2>2
<1>8. /\ m1 \in Members /\ SameFetch(m, m1) /\ m1.cacheObject = m.cacheObject
      /\ m1.bTransferFinished <=> TransferFinished(m, m.fTotalBytesRead)
      /\ m1.filled = <<>> /\ m1.fBuffer = m.fBuffer
      /\ m1.fTotalBytesRead = m.fTotalBytesRead /\ m1.fBytesToRead = 0
  <2>1. /\ TransferFinished(m, m.fTotalBytesRead) \in BOOLEAN
        /\ 0 \in Nat /\ <<>> \in Seq(Piece)
    BY <1>3, EmptyPieces DEF TransferFinished, Members
  <2> HIDE DEF TransferFinished
  <2>2. m1 = [m EXCEPT !.fBytesToRead = 0, !.filled = <<>>, !.maxToRead = 0,
                       !.bTransferFinished = TransferFinished(m, m.fTotalBytesRead)]
    BY <1>3 DEF AtRest, Members
  <2> HIDE DEF m1
  <2>3. m1 \in Members
    BY ZenonT(60), <1>3, <2>1, <2>2 DEF Members
  <2> QED  BY <1>3, <2>1, <2>2, <2>3 DEF SameFetch, Members
<1>9. /\ st' = [st EXCEPT ![s] = m1] /\ out' = [out EXCEPT ![s] = @ \o m.filled]
      /\ status' = [status EXCEPT ![s] = told] /\ cur' = None
  BY <1>4 DEF Return
<1> HIDE DEF m1
<1>10. Fetches(m1, x, o, told, out[s] \o m.filled, v)
  BY <1>2, <1>3, <1>6, <1>7, <1>8, FetchReturn
<1>11. HttpStep(s, m1, x, o)
  BY <1>3, <1>4, <1>8, <1>9 DEF HttpStep, SameTidy, SameFetch, handlerVars
<1>12. HttpHolds(s, m1, x, o)
  <2>1. status'[s] = told /\ out'[s] = out[s] \o m.filled /\ cur' # s
    <3>1. status \in [Stream -> {"closed", "open", "eof", "error"}]
      BY <1>3 DEF TypeInv, TypeOK
    <3> QED  BY <1>3, <1>9, <3>1, StreamAssumption
  <2>2. ver[m1.sURL] = v
    BY <1>8 DEF SameFetch
  <2> QED  BY <1>8, <1>10, <2>1, <2>2 DEF HttpHolds
<1> QED  BY <1>1, <1>11, <1>12, HttpStepTexts

\* It returns what the copy has, after a 304.
LEMMA TextsEndFromCache ==
  ASSUME NEW openings, TextsInv(openings), NEW s \in Stream, cur = s,
         EndReadFromCache, UNCHANGED <<file, tidy, calling>>
  PROVE  Texts(openings)' /\ TextsStay /\ SourceStays(s)
<1> DEFINE m == st[s]
           x == xfer[s]
           a == m.cacheObject
           o == heap[a]
           v == ver[m.sURL]
<1>1. fEasy[s] # None
  BY SlotKnown, StreamAssumption DEF TextsInv, SeqInv, TypeInv, CurrentExists, Open
<1>2. /\ CustodyInv /\ v \in Version
      /\ \/ Fetches(m, x, o, status[s], out[s], v)
         \/ /\ Revalidates(m, x, o, status[s], out[s], v, msgs)
            /\ EntrySound(o, m.sURL, v)
      /\ InCall(m, x, status[s], phase)
  BY <1>1, HttpKnown
<1>3. /\ m \in Members /\ x \in TransferRecord /\ m.sURL \in Url
      /\ st \in [Stream -> Members] /\ xfer \in [Stream -> TransferRecord]
      /\ heap \in [Obj -> CacheRecord] /\ out \in [Stream -> Seq(Piece)]
      /\ TypeInv /\ a \in Obj /\ Live(a) /\ o \in CacheRecord
  BY <1>1, <1>2, OwnObject
<1>4. FromCache(m) /\ UNCHANGED <<HttpCache, fEasy, xfer, msgs, ver, since>>
  BY DEF EndReadFromCache
<1>5. PICK r \in CacheReads(a, m.fBytesToRead) :
        /\ heap' = Update(a, r.obj)
        /\ Return(s, r.data, [m EXCEPT !.fTotalBytesRead = @ + Len(r.data)])
  BY <1>3 DEF EndReadFromCache
<1>6. PICK r0 \in ReadOutcomes(o, m.fBytesToRead) :
        /\ r.data = r0.data
        /\ r.obj = IF r0.data = <<>> THEN ResetState(r0.obj) ELSE r0.obj
  BY DEF CacheReads
<1> DEFINE m2 == [m EXCEPT !.fTotalBytesRead = @ + Len(r.data)]
           m1 == [AtRest(m2) EXCEPT !.bTransferFinished =
                                      TransferFinished(m2, m2.fTotalBytesRead)]
           told == IF r0.data = <<>> THEN "eof" ELSE "open"
           o1 == r.obj
<1>7. /\ Revalidates(m, x, o, "open", out[s], v, msgs) /\ m.bStreamFromCache
      /\ o.ended
      /\ m.fBytesToRead \in Nat \ {0}
  <2>1. m.bStreamFromCache
    BY <1>4 DEF FromCache
  <2>2. Revalidates(m, x, o, "open", out[s], v, msgs) /\ EntrySound(o, m.sURL, v)
    BY <1>2, <2>1 DEF Fetches, Flow, InCall
  <2>3. x.cond # None
    BY <1>2, <2>2, ServerAssumption DEF Revalidates, Version
  <2> QED  BY <1>2, <1>3, <2>1, <2>2, <2>3 DEF InCall, EntrySound, Members
<1>8. /\ m1.sURL = m.sURL /\ m1.cacheObject = a /\ m1.bUseCache = m.bUseCache
      /\ m1.bDeleteCache = m.bDeleteCache /\ m1.bStoreCache = m.bStoreCache
      /\ m1.bStreamFromCache = m.bStreamFromCache
      /\ m1.filled = <<>> /\ m1.fBuffer = m.fBuffer /\ m1.fBytesToRead = 0
  BY <1>3 DEF AtRest, Members
<1>9. /\ st' = [st EXCEPT ![s] = m1] /\ out' = [out EXCEPT ![s] = @ \o r0.data]
      /\ status' = [status EXCEPT ![s] = told] /\ cur' = None
  BY <1>5, <1>6 DEF Return
<1> HIDE DEF m1
<1>10. SameRevalidation(m, m1)
  BY <1>7, <1>8 DEF SameRevalidation, Revalidates
<1>11. /\ Revalidates(m1, x, o1, told, out[s] \o r0.data, v, msgs)
       /\ SameCopy(o, o1)
  BY <1>3, <1>6, <1>7, <1>10, RevalidationReads
<1>12. HttpStep(s, m1, x, o1)
  <2>1. heap' = [heap EXCEPT ![a] = o1]
    BY <1>3, <1>5 DEF Update
  <2> QED  BY <1>3, <1>4, <1>7, <1>8, <1>9, <1>11, <2>1 DEF HttpStep, SameTidy
<1>13. HttpHolds(s, m1, x, o1)
  <2>1. status'[s] = told /\ out'[s] = out[s] \o r0.data /\ cur' # s
    <3>1. status \in [Stream -> {"closed", "open", "eof", "error"}]
      BY <1>3 DEF TypeInv, TypeOK
    <3> QED  BY <1>3, <1>9, <3>1, StreamAssumption
  <2>2. ver[m1.sURL] = v /\ msgs' = msgs
    BY <1>4, <1>8
  <2> QED  BY <1>8, <1>11, <2>1, <2>2 DEF HttpHolds
<1> QED  BY <1>1, <1>12, <1>13, HttpStepTexts

\* Each step of a call of HttpStream's readBytes.
LEMMA TextsCall ==
  ASSUME NEW openings, TextsInv(openings), ReadStep,
         UNCHANGED <<file, tidy, calling>>
  PROVE  Texts(openings)' /\ TextsStay /\ \A s \in Stream : SourceStays(s)
<1>1. PICK s \in Stream : cur = s
  <2>1. cur # None
    BY DEF ReadStep, Transfer, Header, Data, Complete, Fail, Performing, TakeMessage,
           TakeFinished, TakeUnmodified, TakeRedirect, TakeError, Message,
           PerformAgain, EndRead, EndReadFromCache
  <2> QED  BY <2>1, SlotKnown DEF TextsInv, CustodyInv, SeqInv, TypeInv, TypeOK
<1>2. ASSUME NEW t \in Stream, Transfer(t)
      PROVE  Texts(openings)' /\ TextsStay /\ SourceStays(s)
  BY <1>1, <1>2, TextsTransfer
<1>3. ASSUME TakeMessage
      PROVE  Texts(openings)' /\ TextsStay /\ SourceStays(s)
  BY <1>1, <1>3, TextsMessage DEF TakeMessage
<1>4. Stream = {s}
  BY SlotKnown, OneSlot DEF TextsInv
<1>5. Texts(openings)' /\ TextsStay /\ SourceStays(s)
  BY <1>1, <1>2, <1>3, TextsAgain, TextsEnd, TextsEndFromCache DEF ReadStep
<1> QED  BY <1>4, <1>5

-----------------------------------------------------------------------------
(***************************************************************************)
(* Opening a stream.  Nobody reads a copy then, so none is open.           *)
(***************************************************************************)
AllShut == \A u \in Url : HttpCache[u] # None => heap[HttpCache[u]].eState = "FULL"

LEMMA ShutAtRest ==
  ASSUME NEW openings, TextsInv(openings), NEW s \in Stream,
         fEasy[s] = None, file[s].mode = "NONE", tidy[s].mode # "CACHED"
  PROVE  AllShut
<1>1. CustodyInv /\ EntriesSound /\ OnlyReadersOpen
  BY DEF TextsInv, Texts
<1>2. \A u : ~ReadsCopy(s, u)
  BY DEF ReadsCopy
<1> QED  BY <1>1, <1>2, Shut DEF AllShut

LEMMA OpenAllShut ==
  ASSUME AllShut
  PROVE  OnlyReadersOpen
BY DEF AllShut, OnlyReadersOpen

\* A copy that is shut is found.
LEMMA ShutFound ==
  ASSUME AllShut, NEW u \in Url
  PROVE  /\ GetCacheObject(heap, HttpCache, u) = HttpCache[u]
         /\ Lookup(TRUE, u) = HttpCache[u] /\ Lookup(FALSE, u) = None
<1>1. HttpCache[u] # None => State(heap[HttpCache[u]]) # "BUSY"
  BY DEF AllShut, State
<1> QED  BY <1>1 DEF GetCacheObject, Lookup

\* What newStream makes, with the copy it found.
Makes(s, u, mode, pCache, h, new) ==
  LET m == SetupConnection([NoMembers EXCEPT !.sURL = u, !.bUseCache = TRUE],
                           pCache, new)
  IN
  /\ fEasy' = [fEasy EXCEPT ![s] = h]
  /\ heap' = HeapWith(new)
  /\ st' = [st EXCEPT ![s] = [m EXCEPT !.bUseCache = (mode = "cache")]]
  /\ xfer' = [xfer EXCEPT ![s] = Request(RequestHeaders(m, pCache), 0)]

LEMMA NewStreamMakes ==
  ASSUME NEW s \in Stream, NEW u \in Url, NEW mode, NewStream(s, u, mode),
         NEW c, c = Lookup(mode # "nocache", u)
  PROVE  \E h \in Handle, new \in NewAddresses(c = None) :
           Makes(s, u, mode, c, h, new)
<1> DEFINE pCache == Lookup(mode # "nocache", u)
<1>1. PICK h \in Handle, new \in NewAddresses(pCache = None) :
        LET m == SetupConnection([NoMembers EXCEPT !.sURL = u, !.bUseCache = TRUE],
                                 pCache, new)
        IN
        /\ fEasy' = [fEasy EXCEPT ![s] = h]
        /\ heap' = HeapWith(new)
        /\ st' = [st EXCEPT ![s] = [m EXCEPT !.bUseCache = (mode = "cache")]]
        /\ xfer' = [xfer EXCEPT ![s] = Request(RequestHeaders(m, pCache), 0)]
  BY ZenonT(60) DEF NewStream
<1>2. Makes(s, u, mode, pCache, h, new)
  BY <1>1 DEF Makes
<1>3. pCache = c
  OBVIOUS
<1> HIDE DEF pCache
<1> QED  BY <1>2, <1>3

LEMMA NewStreamTexts ==
  ASSUME NEW openings, TextsInv(openings), NEW s \in Stream, AllShut,
         NEW u \in Url \ File, NEW mode, mode \in {"cache", "nocache"},
         fEasy[s] = None, out[s] = <<>>, NewStream(s, u, mode)
  PROVE  /\ EntriesSound' /\ AllShut' /\ HttpTexts(s)'
         /\ fEasy'[s] # None /\ st'[s].sURL = u
         /\ st'[s].bUseCache <=> mode = "cache"
         /\ TextsStay
<1> DEFINE wanted == mode # "nocache"
           pCache == Lookup(wanted, u)
           m0 == [NoMembers EXCEPT !.sURL = u, !.bUseCache = TRUE]
<1>01. s \in Stream /\ u \in Url /\ NewStream(s, u, mode)
  OBVIOUS
<1>1. PICK h \in Handle, new \in NewAddresses(pCache = None) :
        Makes(s, u, mode, pCache, h, new)
  <2> HIDE DEF pCache
  <2>1. pCache = Lookup(mode # "nocache", u)
    BY DEF pCache
  <2> QED  BY ONLY <1>01, <2>1, NewStreamMakes
<1> DEFINE m  == SetupConnection(m0, pCache, new)
           m1 == [m EXCEPT !.bUseCache = (mode = "cache")]
           x1 == Request(RequestHeaders(m, pCache), 0)
           v  == ver[u]
<1>02. /\ fEasy' = [fEasy EXCEPT ![s] = h] /\ heap' = HeapWith(new)
       /\ st' = [st EXCEPT ![s] = m1] /\ xfer' = [xfer EXCEPT ![s] = x1]
  BY <1>1 DEF Makes
<1>2. /\ cur = None /\ UNCHANGED <<HttpCache, msgs, cur, ver, out>>
      /\ status' = [status EXCEPT ![s] = "open"]
  BY DEF NewStream, callVars
<1>3. /\ CustodyInv /\ EntriesSound /\ SeqInv /\ TypeOK
  BY SlotKnown DEF TextsInv, Texts, SeqInv, TypeInv
<1>4. /\ fEasy'[s] # None /\ st'[s] = m1 /\ xfer'[s] = x1 /\ status'[s] = "open"
      /\ out'[s] = <<>> /\ cur' # s /\ v \in Version
      /\ heap \in [Obj -> CacheRecord] /\ HttpCache \in [Url -> Obj \cup {None}]
  BY <1>02, <1>2, <1>3, HandleAssumption, StreamAssumption DEF TypeOK
<1>5. pCache = (IF wanted THEN HttpCache[u] ELSE None)
  BY ShutFound
<1>6. pCache = None =>
        /\ new \in Obj /\ new # None /\ \A w \in Url : HttpCache[w] # new
        /\ heap' = [heap EXCEPT ![new] = NewObject]
  BY <1>02, ObjAssumption DEF NewAddresses, Unused, HeapWith
<1>7. pCache # None => heap' = heap
  BY <1>02 DEF NewAddresses, HeapWith
<1>8. \A w \in Url : HttpCache[w] # None => heap'[HttpCache[w]] = heap[HttpCache[w]]
  <2> HIDE DEF pCache
  <2> QED  BY <1>4, <1>6, <1>7
<1>9. pCache # None =>
        /\ Live(pCache) /\ heap[pCache].pEtag = v /\ heap[pCache].eState = "FULL"
  <2> SUFFICES ASSUME pCache # None
               PROVE  /\ Live(pCache) /\ heap[pCache].pEtag = v
                      /\ heap[pCache].eState = "FULL"
    OBVIOUS
  <2>1. pCache = HttpCache[u] /\ HttpCache[u] # None
    BY <1>5
  <2>2. EntrySound(heap[pCache], u, v)
    BY <1>3, <2>1 DEF EntriesSound
  <2> QED  BY <2>1, <2>2 DEF EntrySound, AllShut, Live, Exists
<1> HIDE DEF pCache
<1>10. /\ m1.sURL = u /\ ~m1.bStoreCache /\ ~m1.bTransferFinished
       /\ ~m1.bStreamFromCache /\ m1.hContent_length_response = 0
       /\ m1.fTotalBytesRead = 0 /\ m1.fBytesToRead = 0
       /\ m1.filled = <<>> /\ m1.fBuffer = <<>>
       /\ (m1.bUseCache <=> mode = "cache")
       /\ pCache = None => m1.bDeleteCache /\ m1.cacheObject = new
       /\ pCache # None => ~m1.bDeleteCache /\ m1.cacheObject = pCache
  BY DEF SetupConnection, NoMembers
<1>11. /\ x1.phase = "sent" /\ x1.code = 0 /\ x1.ok
       /\ pCache = None => x1.cond = None
       /\ pCache # None => x1.cond = v
  <2>1. m.bUseCache
    BY DEF SetupConnection, NoMembers
  <2>2. /\ pCache = None => RequestHeaders(m, pCache) = None
        /\ pCache # None => RequestHeaders(m, pCache) = v
    BY <1>9, <2>1 DEF RequestHeaders, Live
  <2> QED  BY <2>2 DEF Request, NoTransfer
<1> HIDE DEF m, m0, m1, x1
<1>12. m1 \in Members
  <2>1. TypeOK'
    BY <1>3, SeqNewStream DEF SeqInv, TypeInv
  <2>2. st' \in [Stream -> Members]
    BY <2>1 DEF TypeOK
  <2> QED  BY <1>4, <2>2
<1>13. Sent(m1, x1)
  BY <1>10, <1>11 DEF Sent
<1>14. HttpTexts(s)'
  <2> DEFINE o1 == heap'[m1.cacheObject]
  <2>1. CASE pCache = None
    <3>1. o1.eState = "EMPTY" /\ o1.zBuffer = <<>> /\ ~o1.bTidyFlag
      BY <1>4, <1>6, <1>10, <2>1 DEF NewObject
    <3>2. Fetches(m1, x1, o1, "open", <<>>, v)
      BY <1>4, <1>10, <1>11, <1>12, <1>13, <2>1, <3>1, FetchNew
    <3>3. m1.bUseCache => HttpCache[u] = None
      BY <1>5, <1>10, <2>1
    <3> QED  BY <1>2, <1>4, <1>10, <3>2, <3>3 DEF HttpTexts
  <2>2. CASE pCache # None
    <3>1. o1.eState = "FULL"
      BY <1>7, <1>9, <1>10, <2>2
    <3>2. m1.bUseCache
      BY <1>5, <1>10, <2>2
    <3>3. Revalidates(m1, x1, o1, "open", <<>>, v, msgs)
      BY <1>10, <1>11, <1>13, <2>2, <3>1, <3>2, RevalidationNew
    <3> QED  BY <1>2, <1>4, <1>10, <3>3 DEF HttpTexts
  <2> QED  BY <2>1, <2>2
<1>15. EntriesSound' /\ AllShut'
  BY <1>2, <1>3, <1>8, EntriesStay DEF AllShut
<1>16. TextsStay
  BY <1>2, <1>8 DEF TextsStay
<1> QED  BY <1>4, <1>10, <1>14, <1>15, <1>16

LEMMA OpenFileTexts ==
  ASSUME NEW openings, TextsInv(openings), NEW s \in Stream, AllShut,
         NEW u \in Url, NEW use \in BOOLEAN, out[s] = <<>>, OpenFile(s, u, use)
  PROVE  /\ EntriesSound' /\ AllShut' /\ FileTexts(s)'
         /\ fEasy'[s] = None /\ file'[s].mode # "NONE" /\ file'[s].sFilename = u
         /\ use /\ file'[s].mode = "READ" => HttpCache'[u] = None
         /\ TextsStay
<1> DEFINE co == Lookup(use, u)
           f1 == Constructed(u, co)
<1>1. /\ fEasy[s] = None /\ u \in File /\ file' = [file EXCEPT ![s] = f1]
      /\ status' = [status EXCEPT ![s] = "open"]
      /\ UNCHANGED <<handlerVars, fEasy, ver, out>>
  BY DEF OpenFile
<1>2. /\ CustodyInv /\ EntriesSound /\ TypeOK /\ file \in [Stream -> FileRecord]
  BY SlotKnown DEF TextsInv, Texts, SeqInv, TypeInv
<1>3. file'[s] = f1 /\ status'[s] = "open" /\ out'[s] = <<>>
  BY <1>1, <1>2 DEF TypeOK
<1>4. co = (IF use THEN HttpCache[u] ELSE None)
  BY ShutFound
<1> HIDE DEF co
<1>5. /\ f1.sFilename = u
      /\ co # None => f1.mode = "CACHED" /\ f1.cacheObject = co
      /\ co = None => f1.mode = "READ" /\ ~f1.bIsOpen
  BY DEF Constructed, NoFile
<1> HIDE DEF f1
<1>6. FileTexts(s)'
  <2>1. CASE co = None
    BY <1>1, <1>3, <1>5, <2>1 DEF FileTexts, FileRead
  <2>2. CASE co # None
    <3>1. heap'[f1.cacheObject].eState = "FULL"
      BY <1>1, <1>4, <1>5, <2>2 DEF AllShut, handlerVars
    <3>2. CopyRead(heap'[f1.cacheObject], "open", <<>>)
      BY <3>1, ReadAtOnce
    <3> QED  BY <1>1, <1>3, <1>5, <2>2, <3>2 DEF FileTexts
  <2> QED  BY <2>1, <2>2
<1>7. EntriesSound' /\ AllShut'
  BY <1>1, <1>2, EntriesStay DEF AllShut, handlerVars
<1>8. TextsStay
  BY <1>1 DEF TextsStay, handlerVars
<1> QED  BY <1>1, <1>3, <1>4, <1>5, <1>6, <1>7, <1>8 DEF handlerVars

Opened(s, o) ==
  /\ ~Free(s)' /\ SourceUrl(s)' = o.url /\ since'[s] = ver'
  /\ tidy'[s].mode = IF ~o.tidy THEN "NONE"
                     ELSE IF PassesThrough(o.url) THEN "PASSTROUGH" ELSE "TIDY"

LEMMA TextsOpen ==
  ASSUME NEW openings, TextsInv(openings), SteadyUse(openings),
         NEW s \in Stream, NEW o \in Opens, o \in openings, OpenStream(s, o)
  PROVE  Texts(openings)' /\ TextsStay /\ Opened(s, o)
<1> DEFINE u == o.url
<1>1. /\ Free(s) /\ OpenInput(s, o) /\ calling = None /\ calling' = calling
      /\ tidy' = IF o.tidy THEN [tidy EXCEPT ![s] = TidyConstructed(o)] ELSE tidy
  BY DEF OpenStream
<1>2. /\ CustodyInv /\ InputTexts(s) /\ tidy \in [Stream -> TidyRecord]
      /\ AllShut /\ out[s] = <<>> /\ SeqInv
      /\ since \in [Stream -> [Url -> Version]] /\ ver \in [Url -> Version]
  <2>1. AllShut
    BY <1>1, ShutAtRest DEF Free
  <2>2. CustodyInv /\ InputTexts(s)
    BY DEF TextsInv, Texts, SlotTexts
  <2> QED  BY <1>1, <2>1, <2>2, SlotKnown DEF InputTexts, Free, SeqInv, TypeInv, TypeOK
<1>3. u \in Url /\ o.tidy \in BOOLEAN /\ o.useCache \in BOOLEAN
  BY DEF Opens
<1>4. o.tidy \/ o.useCache => o.useCache /\ o.later
  BY DEF SteadyUse
<1>5. /\ EntriesSound' /\ AllShut' /\ InputUrl(s)' = u /\ InputTexts(s)'
      /\ o.useCache => UsesCache(s)'
      /\ TextsStay /\ (fEasy'[s] # None => file'[s].mode = "NONE")
  <2>1. since' = [since EXCEPT ![s] = ver] /\ ver' = ver
    BY <1>1 DEF OpenInput, NewStream, OpenFile
  <2>2. \A w \in Url : since'[s][w] <= ver'[w]
    BY <1>2, <2>1 DEF Version
  <2>3. CASE u \notin File /\ NewStream(s, u, Mode(o)) /\ UNCHANGED file
    <3>1. Mode(o) \in {"cache", "nocache"} /\ (o.useCache => Mode(o) = "cache")
      BY <1>4 DEF Mode
    <3>2. /\ EntriesSound' /\ AllShut' /\ HttpTexts(s)'
          /\ fEasy'[s] # None /\ st'[s].sURL = u
          /\ (st'[s].bUseCache <=> Mode(o) = "cache") /\ TextsStay
      BY <1>1, <1>2, <1>3, <2>3, <3>1, NewStreamTexts DEF Free
    <3>3. file'[s].mode = "NONE"
      BY <1>1, <2>3 DEF Free
    <3> QED  BY <2>2, <3>1, <3>2, <3>3 DEF InputTexts, InputUrl, UsesCache
  <2>4. CASE OpenFile(s, u, o.useCache)
    <3>1. /\ EntriesSound' /\ AllShut' /\ FileTexts(s)'
          /\ fEasy'[s] = None /\ file'[s].mode # "NONE" /\ file'[s].sFilename = u
          /\ (o.useCache /\ file'[s].mode = "READ" => HttpCache'[u] = None)
          /\ TextsStay
      BY <1>2, <1>3, <2>4, OpenFileTexts
    <3> QED  BY <2>2, <3>1 DEF InputTexts, InputUrl, UsesCache
  <2> QED  BY <1>1, <2>3, <2>4 DEF OpenInput
<1>6. /\ ~o.tidy => tidy'[s].mode = "NONE"
      /\ o.tidy => /\ tidy'[s].sURL = u
                   /\ tidy'[s].inStream = "live" /\ ~tidy'[s].bTidied
                   /\ tidy'[s].fTotalBytesRead = 0
                   /\ tidy'[s].mode = IF PassesThrough(u) THEN "PASSTROUGH"
                                      ELSE "TIDY"
  BY <1>1, <1>2 DEF TidyConstructed, NoTidy, Free
<1>7. tidy'[s].mode # "NONE" => TidyTexts(s)'
  BY <1>5, <1>6 DEF TidyTexts
<1>8. (tidy'[s].mode # "NONE" \/ \A p \in openings : p.useCache) => UsesCache(s)'
  BY <1>4, <1>5, <1>6
<1>9. calling' # s
  BY <1>1, StreamAssumption
<1>10. SlotTexts(s, openings)'
  BY <1>5, <1>7, <1>8, <1>9 DEF SlotTexts
<1>11. OnlyReadersOpen'
  BY <1>5 DEF AllShut, OnlyReadersOpen
<1>12. Opened(s, o)
  <2>1. since'[s] = ver'
    BY <1>1, <1>2 DEF OpenInput, NewStream, OpenFile
  <2>2. fEasy'[s] # None \/ file'[s].mode # "NONE"
    BY <1>3, <1>5, UrlAssumption DEF InputUrl
  <2>3. SourceUrl(s)' = u
    BY <1>5, <1>6, <2>2 DEF SourceUrl, InputUrl
  <2> QED  BY <1>6, <2>1, <2>2, <2>3 DEF Opened, Free
<1> QED  BY <1>2, <1>5, <1>10, <1>11, <1>12, OneSlotTexts

-----------------------------------------------------------------------------
(***************************************************************************)
(* Closing a stream.                                                       *)
(***************************************************************************)
\* An object put into the map where there is none, or where it is already,
\* stays there, and what else stays is as it was.
KeepsStored(h, c, u, item, h1, c1) ==
  /\ IsFiniteSet(Cached(c1))
  /\ c1[u] = item
  /\ \A w \in Url : c1[w] # None =>
       h1[c1[w]] = h[c1[w]] /\ (w # u => c1[w] = c[w] /\ c1[w] # item)

LEMMA StoredStays ==
  ASSUME NEW h \in [Obj -> CacheRecord], NEW c \in [Url -> Obj \cup {None}],
         NEW u \in Url, NEW item \in Obj, Intact(h, c), IsFiniteSet(Cached(c)),
         Exists(h[item]),
         c[u] = item \/ (c[u] = None /\ \A w \in Url : c[w] # item)
  PROVE  LET r == AddCacheObject(h, c, u, item)
         IN  KeepsStored(h, c, u, item, r.heap, r.cache)
<1> DEFINE d == [c EXCEPT ![u] = item]
           r == CheckCacheSize(h, d, item)
<1>1. AddCacheObject(h, c, u, item) = r
  BY DEF AddCacheObject, DeletesItem
<1>2. /\ d \in [Url -> Obj \cup {None}] /\ d[u] = item /\ item # None
      /\ \A w \in Url : w # u => d[w] = c[w]
  BY ObjAssumption
<1>3. Intact(h, d)
  <2>1. Freed(h, c, u, item) = h
    BY DEF Freed
  <2>2. PutInPlace(h, c, u, item, Freed(h, c, u, item), d)
    BY PutInPlaceIntact
  <2> QED  BY <2>1, <2>2 DEF PutInPlace
<1> HIDE DEF d
<1>4. IsFiniteSet(Cached(d)) /\ u \in Cached(d)
  <2>1. Cached(d) = Cached(c) \cup {u}
    BY <1>2 DEF Cached
  <2> QED  BY <2>1, FS_AddElement
<1>5. Leaves(h, d, item, Walk(h, d, item), r)
  BY <1>2, <1>3, <1>4, CheckCacheSizeLeaves
<1> DEFINE gone == Walk(h, d, item).gone
           E == Cached(d) \ {Min(Cached(d))}
<1>6. \A w \in gone : d[w] # item
  <2>1. Walked(h, d, item, E, Walk(h, d, item))
    BY <1>5 DEF Leaves
  <2> HIDE DEF E
  <2> QED  BY <2>1 DEF Walked, CanGo
<1> HIDE DEF r
<1>7. /\ Cached(r.cache) = Cached(d) \ gone /\ IsFiniteSet(Cached(r.cache))
      /\ \A w \in Cached(r.cache) : r.cache[w] = d[w] /\ r.heap[d[w]] = h[d[w]]
  BY <1>5 DEF Leaves
<1> HIDE DEF gone
<1>8. u \in Cached(r.cache)
  BY <1>2, <1>4, <1>6, <1>7
<1>9. ASSUME NEW w \in Url, r.cache[w] # None
      PROVE  /\ r.heap[r.cache[w]] = h[r.cache[w]]
             /\ w # u => r.cache[w] = c[w] /\ r.cache[w] # item
  <2>1. w \in Cached(r.cache)
    BY <1>9 DEF Cached
  <2>2. r.cache[w] = d[w] /\ r.heap[d[w]] = h[d[w]]
    BY <1>7, <2>1
  <2>3. w # u => d[w] # d[u]
    BY <1>2, <1>3 DEF Intact
  <2> QED  BY <1>2, <2>2, <2>3
<1>10. r.cache[u] = item
  BY <1>2, <1>7, <1>8
<1> QED  BY <1>1, <1>7, <1>9, <1>10 DEF KeepsStored

\* What an HTTP stream has read when its reader was told of the end.
LEMMA FetchedWhole ==
  ASSUME NEW m \in Members, NEW x, NEW o, NEW text \in Seq(Piece),
         NEW v \in Version, Fetches(m, x, o, "eof", text, v)
  PROVE  text = Body(m.sURL, v)
<1>1. /\ m.filled = <<>> /\ m.fBuffer = <<>> /\ x.left = <<>>
      /\ \E w \in v .. v : AllPieces(m, x, text) = Body(m.sURL, w)
  BY DEF Fetches, Flow
<1>2. AllPieces(m, x, text) = text
  BY <1>1, ConcatEmptySeq, EmptyPieces DEF AllPieces
<1>3. v \in Int
  BY ServerAssumption DEF Version
<1>4. PICK w \in v .. v : AllPieces(m, x, text) = Body(m.sURL, w)
  BY <1>1
<1>5. w = v
  BY ONLY <1>3, w \in v .. v
<1> QED  BY <1>2, <1>4, <1>5

\* The destructor of an HTTP stream, to the objects and the map.
LEMMA DeleteEntries ==
  ASSUME NEW openings, TextsInv(openings), NEW s \in Stream, Delete(s)
  PROVE  /\ EntriesSound' /\ AllShut'
         /\ status[s] = "eof" /\ st[s].bUseCache =>
              /\ HttpCache'[st[s].sURL] # None
              /\ heap'[HttpCache'[st[s].sURL]].bTidyFlag \/ Whole(out[s], st[s].sURL)
         /\ OfferStays(st[s].sURL) /\ TextsKept
<1> DEFINE m == st[s]
           x == xfer[s]
           a == m.cacheObject
           o == heap[a]
           u == m.sURL
           v == ver[u]
<1>1. /\ cur = None /\ fEasy[s] # None /\ ver' = ver
      /\ heap' = Destroyed(m).heap /\ HttpCache' = Destroyed(m).cache
  BY DEF Delete
<1>2. /\ CustodyInv /\ v \in Version /\ u \notin File /\ EntriesSound /\ FiniteCache
      /\ OnlyReadersOpen
      /\ \/ /\ Fetches(m, x, o, status[s], out[s], v)
            /\ m.bUseCache => HttpCache[u] = None
         \/ /\ Revalidates(m, x, o, status[s], out[s], v, msgs)
            /\ EntrySound(o, u, v)
  BY <1>1, HttpKnown DEF TextsInv, Texts
<1>3. /\ m \in Members /\ x \in TransferRecord /\ u \in Url
      /\ heap \in [Obj -> CacheRecord] /\ a \in Obj /\ a # None /\ o \in CacheRecord
      /\ Live(a) /\ out[s] \in Seq(Piece) /\ HttpCache \in [Url -> Obj \cup {None}]
      /\ m.bDeleteCache => \A w \in Url : HttpCache[w] # a
      /\ ~m.bDeleteCache => /\ HttpCache[u] = a
                            /\ \A w \in Url : HttpCache[w] = a => w = u
  <2>1. TypeOK
    BY <1>2, SlotKnown DEF SeqInv, TypeInv
  <2> QED  BY <1>1, <1>2, <2>1, OwnObject DEF TypeOK
<1>4. \A w \in Url : HttpCache[w] # None /\ (w # u \/ ~m.bStreamFromCache) =>
        heap[HttpCache[w]].eState = "FULL"
  <2> SUFFICES ASSUME NEW w \in Url, HttpCache[w] # None, w # u \/ ~m.bStreamFromCache
               PROVE  heap[HttpCache[w]].eState = "FULL"
    OBVIOUS
  <2>1. ~ReadsCopy(s, w)
    BY <1>1, <1>2, SlotKnown DEF ReadsCopy, SlotSound, InputGone
  <2> QED  BY <1>2, <2>1, Shut
<1>5. CASE StoreWanted(m)
  <2> DEFINE f  == ResetState(FinishBytes(o))
             h1 == [heap EXCEPT ![a] = f]
  <2>1. /\ Fetches(m, x, o, status[s], out[s], v)
        /\ HttpCache[u] = None /\ m.bDeleteCache /\ m.bUseCache
    BY <1>2, <1>5 DEF StoreWanted, Revalidates, Fetches
  <2>2. EntrySound(f, u, v) /\ f.eState = "FULL" /\ ~f.bTidyFlag
    BY <1>2, <1>3, <1>5, <2>1, FetchStored DEF EntrySound
  <2>3. /\ f \in CacheRecord /\ Exists(f) /\ h1 \in [Obj -> CacheRecord]
        /\ h1[a] = f /\ \A p \in Obj : p # a => h1[p] = heap[p]
    <3>1. FinishBytes(o) \in CacheRecord
      BY <1>3, ObjectOps
    <3>2. f \in CacheRecord
      BY <3>1, ObjectOps
    <3> HIDE DEF f
    <3> QED  BY <1>3, <2>2, <3>2 DEF Exists
  <2>4. /\ heap' = AddCacheObject(h1, HttpCache, u, a).heap
        /\ HttpCache' = AddCacheObject(h1, HttpCache, u, a).cache
    BY <1>1, <1>3, <1>5 DEF Destroyed, Stored, Update
  <2> HIDE DEF f, h1
  <2>5. Intact(h1, HttpCache)
    <3>1. Intact(heap, HttpCache)
      BY <1>2, SlotKnown DEF Intact, SeqInv, Custody, MapIntact, Cached
    <3> QED  BY <1>3, <2>3, <3>1 DEF Intact
  <2>6. KeepsStored(h1, HttpCache, u, a, heap', HttpCache')
    <3>1. IsFiniteSet(Cached(HttpCache)) /\ \A w \in Url : HttpCache[w] # a
      BY <1>2, <1>3, <2>1 DEF FiniteCache
    <3> QED  BY <1>3, <2>1, <2>3, <2>4, <2>5, <3>1, StoredStays
  <2>7. /\ HttpCache'[u] = a
        /\ \A w \in Url : HttpCache'[w] # None =>
             IF w = u THEN heap'[HttpCache'[w]] = f
             ELSE /\ HttpCache'[w] = HttpCache[w]
                  /\ heap'[HttpCache'[w]] = heap[HttpCache[w]]
    BY <1>3, <2>3, <2>6 DEF KeepsStored
  <2>8. EntriesSound' /\ AllShut'
    <3>1. ~m.bStreamFromCache
      BY <2>1 DEF Fetches, Flow
    <3>2. \A w \in Url : HttpCache[w] # None /\ w # u =>
            EntrySound(heap[HttpCache[w]], w, ver[w]) /\ heap[HttpCache[w]].eState = "FULL"
      BY <1>2, <1>4 DEF EntriesSound
    <3>3. EntrySound(f, u, ver[u]) /\ f.eState = "FULL"
      BY <2>2
    <3> SUFFICES ASSUME NEW w \in Url, HttpCache'[w] # None
                 PROVE  /\ EntrySound(heap'[HttpCache'[w]], w, ver[w])
                        /\ heap'[HttpCache'[w]].eState = "FULL"
      BY <1>1 DEF EntriesSound, AllShut, EntrySound
    <3>4. CASE w = u
      BY <2>7, <3>3, <3>4
    <3>5. CASE w # u
      BY <2>7, <3>2, <3>5
    <3> QED  BY <3>4, <3>5
  <2>9. status[s] = "eof" => Whole(out[s], u)
    BY <1>2, <1>3, <2>1, FetchedWhole DEF Whole
  <2>10. OfferStays(u)
    BY <1>3, <2>1, <2>2, <2>7 DEF OfferStays, Offer, OfferIn, EntrySound
  <2>11. TextsKept
    <3>1. f.bTidyFlag = FALSE
      BY <2>2, <2>3 DEF CacheRecord
    <3> QED  BY <1>1, <2>7, <3>1 DEF TextsKept
  <2> QED  BY <1>3, <2>7, <2>8, <2>9, <2>10, <2>11
<1>6. CASE ~StoreWanted(m) /\ Fetches(m, x, o, status[s], out[s], v)
  <2>1. m.bDeleteCache /\ ~m.bStreamFromCache
    BY <1>6 DEF Fetches, Flow
  <2>2. HttpCache' = HttpCache /\ heap' = [heap EXCEPT ![a] = NoObject]
    BY <1>1, <1>6, <2>1 DEF Destroyed, FromCache, DeletesOwn
  <2>3. \A w \in Url : HttpCache[w] # None => heap'[HttpCache[w]] = heap[HttpCache[w]]
    BY <1>3, <2>1, <2>2
  <2>4. EntriesSound' /\ AllShut'
    BY <1>1, <1>2, <1>4, <2>1, <2>2, <2>3 DEF EntriesSound, AllShut
  <2>5. ~(status[s] = "eof" /\ m.bUseCache)
    BY <1>6 DEF Fetches, Flow, StoreWanted
  <2>6. OfferStays(u)
    BY <1>1, <1>3, <2>2, <2>3 DEF OfferStays, Offer, OfferIn
  <2>7. TextsKept
    BY <1>1, <2>2, <2>3 DEF TextsKept
  <2> QED  BY <2>4, <2>5, <2>6, <2>7
<1>7. CASE /\ Revalidates(m, x, o, status[s], out[s], v, msgs)
           /\ EntrySound(o, u, v)
  <2>1. ~m.bStoreCache /\ ~m.bDeleteCache /\ m.bUseCache
    BY <1>7 DEF Revalidates
  <2>2. /\ HttpCache' = HttpCache /\ HttpCache[u] = a
        /\ heap' = IF m.bStreamFromCache THEN [heap EXCEPT ![a] = ResetState(o)]
                   ELSE heap
    BY <1>1, <1>3, <2>1 DEF Destroyed, FromCache, DeletesOwn, StoreWanted, Update
  <2>3. SameCopy(o, ResetState(o)) /\ ResetState(o).eState = "FULL"
    BY <1>3, <1>7, CopyClosed DEF EntrySound
  <2>4. /\ SameCopy(o, heap'[a]) \/ heap'[a] = o
        /\ m.bStreamFromCache => heap'[a].eState = "FULL"
        /\ \A w \in Url : HttpCache[w] # None /\ w # u =>
             heap'[HttpCache[w]] = heap[HttpCache[w]]
        /\ ~m.bStreamFromCache => heap' = heap
    BY <1>3, <2>1, <2>2, <2>3
  <2>5. EntriesSound'
    BY <1>1, <1>2, <2>2, <2>4, EntriesStay
  <2>6. AllShut'
    BY <1>3, <1>4, <2>2, <2>4 DEF AllShut
  <2>7. status[s] = "eof" => heap'[a].bTidyFlag \/ Whole(out[s], u)
    <3>1. status[s] = "eof" => out[s] = o.zBuffer
      BY <1>7 DEF Revalidates, CopyRead
    <3>2. o.bTidyFlag \/ Whole(o.zBuffer, u)
      BY <1>2, <1>7 DEF EntrySound, Whole
    <3> QED  BY <2>4, <3>1, <3>2 DEF SameCopy
  <2>8. OfferStays(u)
    BY <1>3, <2>2, <2>4 DEF OfferStays, Offer, OfferIn, SameCopy
  <2>9. TextsKept
    <3>1. heap'[a].zBuffer = heap[a].zBuffer
      BY <2>4 DEF SameCopy
    <3> QED  BY <1>1, <1>3, <2>1, <2>2, <2>4, <3>1 DEF TextsKept
  <2> QED  BY <1>3, <2>2, <2>5, <2>6, <2>7, <2>8, <2>9
<1> QED  BY <1>2, <1>5, <1>6, <1>7

\* What is left of the slot of a stream whose input is deleted.
InputDeletes(s) ==
  /\ EntriesSound' /\ AllShut' /\ FiniteCache' /\ InputTexts(s)'
  /\ fEasy'[s] = None /\ file'[s].mode = "NONE"
  /\ OfferStays(InputUrl(s)) /\ TextsKept

EndsMendable(s) ==
  InputEnds(s) /\ UsesCache(s) =>
    MendableIn(heap', HttpCache', InputUrl(s), out[s])

LEMMA SlotCleared ==
  ASSUME CustodyInv, NEW s \in Stream,
         fEasy'[s] = None, file'[s].mode = "NONE", UNCHANGED ver,
         status' = [status EXCEPT ![s] = "closed"],
         out' = [out EXCEPT ![s] = <<>>],
         since' = [since EXCEPT ![s] = [u \in Url |-> 1]]
  PROVE  InputTexts(s)'
<1>1. TypeOK
  BY SlotKnown DEF SeqInv, TypeInv
<1>2. status'[s] = "closed" /\ out'[s] = <<>> /\ \A u \in Url : since'[s][u] = 1
  BY <1>1 DEF TypeOK
<1>3. \A u \in Url : 1 <= ver[u]
  BY <1>1, ServerAssumption DEF TypeOK, Version
<1> QED  BY <1>2, <1>3 DEF InputTexts

LEMMA HttpDeleted ==
  ASSUME NEW openings, TextsInv(openings), NEW s \in Stream, Delete(s), UNCHANGED file
  PROVE  InputDeletes(s) /\ EndsMendable(s)
<1>1. /\ fEasy[s] # None /\ ver' = ver /\ fEasy' = [fEasy EXCEPT ![s] = None]
      /\ status' = [status EXCEPT ![s] = "closed"]
      /\ out' = [out EXCEPT ![s] = <<>>]
      /\ since' = [since EXCEPT ![s] = [u \in Url |-> 1]]
  BY DEF Delete
<1>2. CustodyInv /\ FiniteCache
  BY DEF TextsInv
<1>3. /\ file[s].mode = "NONE" /\ SeqInv /\ fEasy'[s] = None
  <2>1. TypeOK /\ SeqInv
    BY <1>2, SlotKnown DEF SeqInv, TypeInv
  <2> QED  BY <1>1, <1>2, <2>1, OwnObject DEF TypeOK
<1>4. InputTexts(s)'
  BY <1>1, <1>2, <1>3, SlotCleared
<1>5. FiniteCache'
  BY <1>2, <1>3, DestructorFinite
<1>6. /\ EntriesSound' /\ AllShut'
      /\ status[s] = "eof" /\ st[s].bUseCache =>
           /\ HttpCache'[st[s].sURL] # None
           /\ heap'[HttpCache'[st[s].sURL]].bTidyFlag \/ Whole(out[s], st[s].sURL)
      /\ OfferStays(st[s].sURL) /\ TextsKept
  BY DeleteEntries
<1>7. status[s] # "error"
  BY <1>1, HttpKnown DEF Fetches, Flow, Revalidates, CopyRead
<1>8. InputUrl(s) = st[s].sURL
  BY <1>1 DEF InputUrl
<1>9. EndsMendable(s)
  BY <1>1, <1>6, <1>7, <1>8 DEF EndsMendable, InputEnds, UsesCache, MendableIn
<1> QED  BY <1>1, <1>3, <1>4, <1>5, <1>6, <1>8, <1>9 DEF InputDeletes

\* A copy that was read and is let go.
LEMMA CopyLetGo ==
  ASSUME NEW openings, TextsInv(openings), NEW s \in Stream, NEW u \in Url,
         NEW o, InMap(u, o), ReadsCopy(s, u),
         heap' = [heap EXCEPT ![o] = Released(@)],
         UNCHANGED <<HttpCache, ver>>
  PROVE  /\ EntriesSound' /\ AllShut' /\ SameCopy(heap[o], heap'[o])
         /\ TextsStay
<1>1. /\ CustodyInv /\ EntriesSound /\ OnlyReadersOpen /\ SeqInv
  BY SlotKnown DEF TextsInv, Texts
<1>2. /\ o \in Obj /\ o # None /\ heap \in [Obj -> CacheRecord]
      /\ heap[o] \in CacheRecord /\ HttpCache[u] = o
      /\ HttpCache \in [Url -> Obj \cup {None}]
  BY <1>1, CopyLive, ObjAssumption DEF InMap, SeqInv, TypeInv, TypeOK
<1>3. heap[o].eState \in {"FULL", "READ"}
  BY <1>1, <1>2 DEF EntriesSound, EntrySound
<1>4. SameCopy(heap[o], heap'[o]) /\ heap'[o].eState = "FULL"
  BY <1>2, <1>3, CopyClosed DEF Released
<1>5. \A p \in Obj : p # o => heap'[p] = heap[p]
  BY <1>2
<1>6. \A w \in Url : HttpCache[w] # None =>
        \/ heap'[HttpCache[w]] = heap[HttpCache[w]]
        \/ SameCopy(heap[HttpCache[w]], heap'[HttpCache[w]])
  BY <1>2, <1>4, <1>5
<1>7. EntriesSound'
  BY <1>1, <1>6, EntriesStay
<1>8. AllShut'
  <2> SUFFICES ASSUME NEW w \in Url, HttpCache[w] # None
               PROVE  heap'[HttpCache[w]].eState = "FULL"
    BY DEF AllShut
  <2>1. CASE HttpCache[w] = o
    BY <1>4, <2>1
  <2>2. CASE HttpCache[w] # o
    <3>1. w # u /\ heap'[HttpCache[w]] = heap[HttpCache[w]]
      BY <1>2, <1>5, <2>2
    <3>2. ~ReadsCopy(s, w)
      BY <1>1, <3>1, ReadsOne
    <3> QED  BY <1>1, <3>1, <3>2, Shut
  <2> QED  BY <2>1, <2>2
<1>9. TextsStay
  BY <1>6 DEF TextsStay, SameCopy
<1> QED  BY <1>4, <1>7, <1>8, <1>9

LEMMA FileDeleted ==
  ASSUME NEW openings, TextsInv(openings), NEW s \in Stream, CloseFile(s),
         tidy[s].mode # "CACHED"
  PROVE  InputDeletes(s) /\ EndsMendable(s)
<1> DEFINE f == file[s]
           o == f.cacheObject
           u == f.sFilename
<1>1. /\ f.mode # "NONE" /\ ver' = ver /\ fEasy' = fEasy /\ HttpCache' = HttpCache
      /\ heap' = IF f.mode = "CACHED" /\ Live(o)
                 THEN [heap EXCEPT ![o] = Released(@)] ELSE heap
      /\ file' = [file EXCEPT ![s] = NoFile]
      /\ status' = [status EXCEPT ![s] = "closed"]
      /\ out' = [out EXCEPT ![s] = <<>>]
      /\ since' = [since EXCEPT ![s] = [w \in Url |-> 1]]
  BY DEF CloseFile
<1>2. /\ CustodyInv /\ FiniteCache /\ EntriesSound /\ OnlyReadersOpen /\ FileTexts(s)
  BY <1>1 DEF TextsInv, Texts, SlotTexts, InputTexts
<1>3. /\ fEasy[s] = None /\ u \in Url /\ f \in FileRecord /\ SeqInv /\ TypeOK
      /\ file'[s].mode = "NONE"
      /\ f.mode = "CACHED" => InMap(u, o)
  <2>1. SeqInv /\ FilePart /\ SlotSound(s) /\ file \in [Stream -> FileRecord]
    BY <1>2, SlotKnown
  <2>2. TypeOK
    BY <2>1 DEF SeqInv, TypeInv
  <2> QED  BY <1>1, <2>1, <2>2 DEF FilePart, FilesSetUp, SlotSound, NoFile
<1>4. InputTexts(s)'
  BY <1>1, <1>2, <1>3, SlotCleared
<1>5. FiniteCache'
  BY <1>1, <1>2 DEF FiniteCache, Cached
<1>6. u \in File /\ InputUrl(s) = u
  BY <1>1, <1>2, <1>3 DEF FileTexts, InputUrl
<1>7. CASE f.mode = "CACHED"
  <2>1. ReadsCopy(s, u) /\ Live(o)
    BY <1>3, <1>7, CopyLive DEF ReadsCopy
  <2> HIDE DEF u, o
  <2>2. /\ EntriesSound' /\ AllShut' /\ SameCopy(heap[o], heap'[o])
        /\ TextsStay
    BY <1>1, <1>3, <1>7, <2>1, CopyLetGo
  <2>3. HttpCache[u] = o /\ o # None /\ heap[o].bTidyFlag
    BY <1>2, <1>3, <1>6, <1>7 DEF InMap, EntriesSound, EntrySound
  <2>4. EndsMendable(s)
    BY <1>1, <1>6, <2>2, <2>3 DEF EndsMendable, MendableIn, SameCopy
  <2> QED  BY <1>1, <1>3, <1>4, <1>5, <1>6, <2>2, <2>4, OffersStay, StayKept
              DEF InputDeletes
<1>8. CASE f.mode # "CACHED"
  <2>1. heap' = heap /\ f.mode = "READ"
    BY <1>1, <1>3, <1>8 DEF FileRecord
  <2>2. EntriesSound'
    BY <1>1, <1>2, <2>1, EntriesStay
  <2>3. AllShut'
    <3>1. \A w \in Url : ~ReadsCopy(s, w)
      BY <1>3, <1>8 DEF ReadsCopy
    <3> QED  BY <1>1, <1>2, <2>1, <3>1, Shut DEF AllShut
  <2>4. EndsMendable(s)
    <3> SUFFICES ASSUME InputEnds(s), UsesCache(s)
                 PROVE  MendableIn(heap', HttpCache', u, out[s])
      BY <1>6 DEF EndsMendable
    <3>1. status[s] = "eof"
      BY <1>3 DEF InputEnds
    <3>2. FileRead(f, status[s], out[s], since[s][u], ver[u])
      BY <1>2, <2>1 DEF FileTexts
    <3>3. \E w \in since[s][u] .. ver[u] : out[s] = Body(u, w)
      BY <3>1, <3>2 DEF FileRead
    <3>4. since[s][u] \in Version /\ ver[u] \in Version
      BY <1>3 DEF TypeOK
    <3>5. Whole(out[s], u)
      BY <3>3, <3>4, ServerAssumption DEF Whole, Version
    <3>6. HttpCache[u] = None
      BY <2>1 DEF UsesCache
    <3> QED  BY <1>1, <1>6, <3>5, <3>6 DEF MendableIn
  <2>5. TextsStay
    BY <1>1, <2>1 DEF TextsStay
  <2> QED  BY <1>1, <1>3, <1>4, <1>5, <1>6, <2>2, <2>3, <2>4, <2>5, OffersStay,
              StayKept DEF InputDeletes
<1> QED  BY <1>7, <1>8

LEMMA InputDeleted ==
  ASSUME NEW openings, TextsInv(openings), NEW s \in Stream, DeleteInput(s)
  PROVE  InputDeletes(s) /\ EndsMendable(s)
<1>1. CASE CloseFile(s)
  <2>1. tidy[s].mode # "CACHED"
    <3>1. file[s].mode # "NONE"
      BY <1>1 DEF CloseFile
    <3> QED  BY <3>1, SlotKnown DEF TextsInv, SlotSound, InputGone
  <2> QED  BY <1>1, <2>1, FileDeleted
<1> QED  BY <1>1, HttpDeleted DEF DeleteInput

-----------------------------------------------------------------------------
(***************************************************************************)
(* Steps of a TidyStream that leave everything below it as it is.          *)
(***************************************************************************)
LEMMA BelowKept ==
  ASSUME NEW openings, TextsInv(openings), NEW s \in Stream, UNCHANGED baseVars,
         \A u \in Url : ReadsCopy(s, u) => ReadsCopy(s, u)'
  PROVE  /\ EntriesSound' /\ OnlyReadersOpen' /\ FiniteCache'
         /\ InputTexts(s)' /\ InputUrl(s)' = InputUrl(s)
         /\ UsesCache(s) => UsesCache(s)'
         /\ \A u, text : InMapTidied(u, text) => InMapTidied(u, text)'
<1>1. CustodyInv /\ EntriesSound /\ OnlyReadersOpen /\ InputTexts(s) /\ FiniteCache
  BY DEF TextsInv, Texts, SlotTexts
<1>2. UNCHANGED <<heap, HttpCache, fEasy, st, xfer, msgs, cur, phase, ver, file,
                  status, out, since>>
  BY DEF baseVars, vars, handlerVars, callVars, clientVars
<1>3. EntriesSound'
  BY <1>1, <1>2, EntriesStay
<1>4. OnlyReadersOpen'
  <2>1. Stream = {s}
    BY <1>1, SlotKnown, OneSlot
  <2> QED  BY <1>1, <1>2, <2>1 DEF OnlyReadersOpen
<1>5. FiniteCache'
  BY <1>1, <1>2 DEF FiniteCache, Cached
<1>6. InputTexts(s)'
  BY <1>1, <1>2 DEF InputTexts, HttpTexts, FileTexts
<1>7. InputUrl(s)' = InputUrl(s)
  BY <1>2 DEF InputUrl
<1>8. UsesCache(s) => UsesCache(s)'
  BY <1>2 DEF UsesCache
<1>9. \A u, text : InMapTidied(u, text) => InMapTidied(u, text)'
  BY <1>2 DEF InMapTidied
<1> QED  BY <1>3, <1>4, <1>5, <1>6, <1>7, <1>8, <1>9

LEMMA TidyMoves ==
  ASSUME NEW openings, TextsInv(openings), NEW s \in Stream, UNCHANGED baseVars,
         NEW m \in TidyRecord, tidy' = [tidy EXCEPT ![s] = m],
         tidy[s].mode = "CACHED" => m.mode = "CACHED" /\ m.sURL = tidy[s].sURL,
         m.mode # "NONE" => tidy[s].mode # "NONE" /\ TidyTexts(s)',
         calling' = s => m.status = "open"
  PROVE  Texts(openings)' /\ FiniteCache'
<1>1. CustodyInv /\ SlotTexts(s, openings) /\ tidy'[s] = m
  BY SlotKnown DEF TextsInv, Texts
<1>2. \A u \in Url : ReadsCopy(s, u) => ReadsCopy(s, u)'
  BY <1>1 DEF ReadsCopy, baseVars, vars
<1>3. /\ EntriesSound' /\ OnlyReadersOpen' /\ FiniteCache' /\ InputTexts(s)'
      /\ UsesCache(s) => UsesCache(s)'
  BY <1>2, BelowKept
<1>4. SlotTexts(s, openings)'
  BY <1>1, <1>3 DEF SlotTexts
<1> QED  BY <1>1, <1>3, <1>4, OneSlotTexts

LEMMA TextsBeginTidyRead ==
  ASSUME NEW openings, TextsInv(openings), NEW s \in Stream, NEW n \in 1 .. MaxRead,
         BeginTidyRead(s, n)
  PROVE  Texts(openings)' /\ FiniteCache'
<1> DEFINE t == tidy[s]
           m == [t EXCEPT !.want = n]
<1>1. /\ t.status = "open" /\ tidy' = [tidy EXCEPT ![s] = m] /\ calling' = s
      /\ UNCHANGED baseVars
  BY DEF BeginTidyRead
<1>2. CustodyInv /\ t \in TidyRecord /\ SlotTexts(s, openings) /\ SlotSound(s)
      /\ tidy \in [Stream -> TidyRecord]
  BY SlotKnown DEF TextsInv, Texts
<1>3. /\ m \in TidyRecord /\ m.mode = t.mode /\ m.sURL = t.sURL
      /\ m.status = t.status /\ m.out = t.out /\ m.inStream = t.inStream
      /\ m.bTidied = t.bTidied /\ m.cacheObject = t.cacheObject
      /\ m.docbuf = t.docbuf /\ m.outbuf = t.outbuf
      /\ m.fTotalBytesRead = t.fTotalBytesRead
  <2>1. n \in Nat
    BY ClientAssumption
  <2> QED  BY <1>2, <2>1 DEF TidyRecord
<1>4. t.mode # "NONE" /\ TidyTexts(s)
  BY <1>1, <1>2 DEF SlotSound, SlotTexts
<1> HIDE DEF m
<1>5. TidyTexts(s)'
  <2>1. tidy'[s] = m
    BY <1>1, <1>2
  <2>2. UNCHANGED <<heap, HttpCache, fEasy, st, file>>
    BY <1>1 DEF baseVars, vars, handlerVars
  <2>3. InputUrl(s)' = InputUrl(s)
    BY <2>2 DEF InputUrl
  <2> QED  BY <1>3, <1>4, <2>1, <2>2, <2>3
           DEF TidyTexts, BufferRead, InMapTidied, Mendable
<1> QED  BY <1>1, <1>3, <1>4, <1>5, TidyMoves

\* What readBytes of a TidyStream returns.
TidyReturned(t, data, m) ==
  /\ m.mode = t.mode /\ m.sURL = t.sURL /\ m.inStream = t.inStream
  /\ m.bTidied = t.bTidied /\ m.cacheObject = t.cacheObject
  /\ m.docbuf = t.docbuf /\ m.outbuf = t.outbuf
  /\ m.fTotalBytesRead = t.fTotalBytesRead + Len(data)
  /\ m.out = t.out \o data /\ m.since = t.since /\ ~m.asked
  /\ m.status = IF data = <<>> THEN "eof" ELSE "open"

LEMMA TidyReturn ==
  ASSUME NEW s \in Stream, CustodyInv, NEW data \in Seq(Piece),
         TidyReturns(s, data, tidy[s])
  PROVE  \E m \in TidyRecord :
           /\ tidy' = [tidy EXCEPT ![s] = m] /\ TidyReturned(tidy[s], data, m)
<1> DEFINE t   == tidy[s]
           sum == t.fTotalBytesRead + Len(data)
           had == t.out \o data
           how == IF data = <<>> THEN "eof" ELSE "open"
           m   == [t EXCEPT !.want = 0, !.asked = FALSE, !.fTotalBytesRead = sum,
                            !.out = had, !.status = how]
<1>1. t \in TidyRecord /\ tidy' = [tidy EXCEPT ![s] = m]
  BY SlotKnown DEF TidyReturns
<1>2. sum \in Nat /\ had \in Seq(Piece) /\ how \in {"eof", "open"}
  BY <1>1, LenProperties, ConcatProperties DEF TidyRecord
<1> HIDE DEF sum, had, how, t
<1>3. /\ m \in TidyRecord
      /\ m.mode = t.mode /\ m.sURL = t.sURL /\ m.inStream = t.inStream
      /\ m.bTidied = t.bTidied /\ m.cacheObject = t.cacheObject
      /\ m.docbuf = t.docbuf /\ m.outbuf = t.outbuf
      /\ m.fTotalBytesRead = sum /\ m.out = had /\ m.status = how
      /\ m.since = t.since /\ m.asked = FALSE
  BY <1>1, <1>2 DEF TidyRecord
<1> HIDE DEF m
<1>4. TidyReturned(t, data, m)
  BY <1>3 DEF TidyReturned, sum, had, how
<1> QED  BY <1>1, <1>3, <1>4 DEF t

LEMMA TextsDeliverBuffer ==
  ASSUME NEW openings, TextsInv(openings), NEW s \in Stream, DeliverBuffer(s)
  PROVE  Texts(openings)' /\ FiniteCache'
<1> DEFINE t    == tidy[s]
           z    == t.outbuf
           i    == t.fTotalBytesRead
           k    == Least(t.want, Len(z) - i)
           data == SubSeq(z, i + 1, i + k)
<1>1. /\ t.mode = "TIDY" /\ t.bTidied /\ calling = s
      /\ TidyReturns(s, data, t) /\ UNCHANGED baseVars
  BY DEF DeliverBuffer, Calls
<1>2. CustodyInv /\ t \in TidyRecord /\ SlotTexts(s, openings)
      /\ tidy \in [Stream -> TidyRecord] /\ CallerWants
  BY SlotKnown DEF TextsInv, Texts, TidyPart
<1>3. BufferRead(t) /\ InMapTidied(t.sURL, t.outbuf) /\ t.status = "open"
  BY <1>1, <1>2 DEF SlotTexts, TidyTexts
<1>4. /\ t.want \in Nat /\ t.want >= 1 /\ Len(z) \in Nat
      /\ i \in 0 .. Len(z) /\ z \in Seq(Piece)
      /\ t.out = SubSeq(z, 1, i)
  <2>1. t.want \in 1 .. MaxRead
    BY <1>1, <1>2, StreamAssumption DEF CallerWants
  <2>2. z \in Seq(Piece) /\ i \in Nat
    BY <1>2 DEF TidyRecord
  <2>3. Len(z) \in Nat
    BY <2>2, LenProperties
  <2> QED  BY <1>3, <2>1, <2>2, <2>3, ClientAssumption DEF BufferRead
<1> HIDE DEF i, z
<1>5. k \in Nat /\ i + k <= Len(z) /\ (k = 0 <=> i = Len(z))
  BY <1>4 DEF Least
<1> HIDE DEF k
<1>6. /\ data \in Seq(Piece) /\ Len(data) = k
      /\ SubSeq(z, 1, i) \o data = SubSeq(z, 1, i + k)
  BY <1>4, <1>5, NextPart
<1> HIDE DEF data
<1>7. PICK m \in TidyRecord : /\ tidy' = [tidy EXCEPT ![s] = m]
                              /\ TidyReturned(t, data, m)
  BY <1>1, <1>2, <1>6, TidyReturn
<1>8. tidy'[s] = m
  BY <1>2, <1>7
<1>9. BufferRead(m)
  <2>1. m.out = SubSeq(z, 1, i + k) /\ m.fTotalBytesRead = i + k /\ m.outbuf = z
    BY <1>4, <1>6, <1>7 DEF TidyReturned, i, z
  <2>2. m.status \in {"open", "eof"}
    BY <1>7 DEF TidyReturned
  <2>3. m.status = "eof" => m.out = m.outbuf
    <3> SUFFICES ASSUME m.status = "eof" PROVE m.out = m.outbuf
      OBVIOUS
    <3>1. data = <<>>
      BY <1>7 DEF TidyReturned
    <3>2. i + k = Len(z)
      BY <1>4, <1>5, <1>6, <3>1, EmptySeq
    <3> QED  BY <1>4, <2>1, <3>2, SubSeqFull
  <2> QED  BY <1>5, <2>1, <2>2, <2>3 DEF BufferRead
<1>10. TidyTexts(s)'
  <2>1. UNCHANGED <<heap, HttpCache>>
    BY <1>1 DEF baseVars, vars, handlerVars
  <2>2. m.mode = "TIDY" /\ m.bTidied /\ m.sURL = t.sURL /\ m.outbuf = t.outbuf
    BY <1>1, <1>7 DEF TidyReturned
  <2> QED  BY <1>3, <1>8, <1>9, <2>1, <2>2 DEF TidyTexts, InMapTidied
<1>11. calling' # s
  BY <1>1, StreamAssumption DEF TidyReturns
<1>12. m.mode = "TIDY"
  BY <1>1, <1>7 DEF TidyReturned
<1> QED  BY <1>1, <1>7, <1>10, <1>11, <1>12, TidyMoves

LEMMA TextsPassOn ==
  ASSUME NEW openings, TextsInv(openings), NEW s \in Stream,
         PassOn(s) \/ PassErrorOn(s)
  PROVE  Texts(openings)' /\ FiniteCache'
<1> DEFINE t == tidy[s]
<1>1. /\ t.mode = "PASSTROUGH" /\ calling = s /\ calling' = None /\ UNCHANGED baseVars
  BY DEF PassOn, PassErrorOn, Calls, TidyReturns
<1>2. /\ CustodyInv /\ t \in TidyRecord /\ SlotTexts(s, openings) /\ TypeOK
      /\ tidy \in [Stream -> TidyRecord]
  BY SlotKnown DEF TextsInv, Texts, SeqInv, TypeInv
<1>3. PICK m \in TidyRecord : /\ tidy' = [tidy EXCEPT ![s] = m]
                              /\ m.mode = t.mode /\ m.sURL = t.sURL
  <2>1. CASE PassErrorOn(s)
    <3> DEFINE m == [t EXCEPT !.status = "error", !.asked = FALSE, !.want = 0]
    <3>1. tidy' = [tidy EXCEPT ![s] = m]
      BY <2>1 DEF PassErrorOn
    <3>2. m \in TidyRecord /\ m.mode = t.mode /\ m.sURL = t.sURL
      BY <1>2 DEF TidyRecord
    <3> QED  BY <3>1, <3>2
  <2>2. CASE PassOn(s)
    <3> DEFINE data == SubSeq(out[s], Len(t.out) + 1, Len(out[s]))
    <3>1. data \in Seq(Piece)
      <4>1. out[s] \in Seq(Piece) /\ t.out \in Seq(Piece)
        BY <1>2 DEF TypeOK, TidyRecord
      <4> QED  BY <4>1, PartType, LenProperties
    <3>2. TidyReturns(s, data, t)
      BY <2>2 DEF PassOn
    <3> HIDE DEF data
    <3> QED  BY <1>2, <3>1, <3>2, TidyReturn DEF TidyReturned
  <2> QED  BY <2>1, <2>2
<1>4. TidyTexts(s)'
  <2>1. tidy'[s] = m
    BY <1>2, <1>3
  <2>2. InputUrl(s)' = InputUrl(s)
    BY <1>1 DEF baseVars, vars, InputUrl
  <2>3. InputUrl(s) = t.sURL
    BY <1>1, <1>2 DEF SlotTexts, TidyTexts
  <2> QED  BY <1>1, <1>3, <2>1, <2>2, <2>3 DEF TidyTexts
<1>5. calling' # s
  BY <1>1, StreamAssumption
<1> QED  BY <1>1, <1>3, <1>4, <1>5, TidyMoves

\* A copy that is read, or put back, stays what it was.
CopyStep(s, u, o, o1) ==
  /\ InMap(u, o) /\ SameCopy(heap[o], o1)
  /\ heap' = [heap EXCEPT ![o] = o1] /\ UNCHANGED <<HttpCache, ver>>
  /\ \A w \in Url : ReadsCopy(s, w) => w = u
  /\ ReadsCopy(s, u)'

LEMMA CopyMoves ==
  ASSUME NEW openings, TextsInv(openings), NEW s \in Stream, NEW u \in Url,
         NEW o, NEW o1, CopyStep(s, u, o, o1)
  PROVE  /\ EntriesSound' /\ OnlyReadersOpen' /\ FiniteCache' /\ heap'[o] = o1
         /\ TextsStay
<1>1. /\ CustodyInv /\ EntriesSound /\ OnlyReadersOpen /\ SeqInv /\ FiniteCache
  BY SlotKnown DEF TextsInv, Texts
<1> USE DEF CopyStep
<1>2. /\ o \in Obj /\ heap'[o] = o1 /\ HttpCache[u] = o
      /\ \A p \in Obj : p # o => heap'[p] = heap[p]
  BY <1>1, CopyLive DEF InMap
<1>3. HttpCache \in [Url -> Obj \cup {None}]
  BY <1>1 DEF SeqInv, TypeInv, TypeOK
<1>4. EntriesSound'
  BY <1>1, <1>2, <1>3, EntriesStay
<1>5. OnlyReadersOpen'
  <2> SUFFICES ASSUME NEW w \in Url, HttpCache[w] # None,
                      heap'[HttpCache[w]].eState = "READ"
               PROVE  ReadsCopy(s, w)'
    BY DEF OnlyReadersOpen
  <2>1. ASSUME w # u PROVE FALSE
    <3>1. HttpCache[w] # o
      BY <1>1, <1>2, <2>1, ObjAssumption DEF SeqInv, Custody, MapIntact, Cached
    <3>2. heap'[HttpCache[w]] = heap[HttpCache[w]]
      BY <1>2, <1>3, <3>1
    <3>3. ~ReadsCopy(s, w)
      BY <2>1
    <3> QED  BY <1>1, <3>2, <3>3, Shut
  <2> QED  BY <2>1
<1>6. FiniteCache'
  BY <1>1 DEF FiniteCache, Cached
<1>7. TextsStay
  BY <1>2, <1>3 DEF TextsStay, SameCopy
<1> QED  BY <1>2, <1>4, <1>5, <1>6, <1>7

\* With the input gone the slot has nothing but the TidyStream.
LEMMA InputNone ==
  ASSUME NEW openings, TextsInv(openings), NEW s \in Stream, InputGone(tidy[s]),
         UNCHANGED <<fEasy, file, status, out, since, ver>>
  PROVE  /\ InputTexts(s)' /\ UsesCache(s)'
         /\ fEasy[s] = None /\ file[s].mode = "NONE"
<1>1. fEasy[s] = None /\ file[s].mode = "NONE" /\ InputTexts(s)
  BY SlotKnown DEF TextsInv, SlotSound, Texts, SlotTexts
<1> QED  BY <1>1 DEF InputTexts, UsesCache

LEMMA TextsDeliverCopy ==
  ASSUME NEW openings, TextsInv(openings), NEW s \in Stream, DeliverCopy(s)
  PROVE  Texts(openings)' /\ FiniteCache' /\ TextsStay
<1> DEFINE t == tidy[s]
           o == t.cacheObject
           u == t.sURL
<1>1. /\ t.mode = "CACHED" /\ calling = s
      /\ UNCHANGED <<HttpCache, fEasy, ver, file, status, out, since>>
  BY DEF DeliverCopy, Calls, clientVars
<1>2. CustodyInv /\ t \in TidyRecord /\ SlotTexts(s, openings) /\ SeqInv
      /\ EntriesSound /\ tidy \in [Stream -> TidyRecord] /\ CallerWants /\ u \in Url
      /\ SlotSound(s)
  BY <1>1, SlotKnown DEF TextsInv, Texts, TidyPart
<1>3. /\ heap[o].bTidyFlag /\ CopyRead(heap[o], "open", t.out)
      /\ InMap(u, o)
  BY <1>1, <1>2 DEF SlotTexts, TidyTexts, SlotSound
<1>4. Live(o) /\ o \in Obj /\ heap[o] \in CacheRecord /\ heap[o].ended
  BY <1>2, <1>3, CopyLive DEF InMap, EntriesSound, EntrySound
<1>5. PICK r \in ReadOutcomes(heap[o], t.want) :
         heap' = Update(o, r.obj) /\ TidyReturns(s, r.data, t)
  BY <1>4 DEF DeliverCopy
<1>6. t.want \in Nat \ {0}
  BY <1>1, <1>2, StreamAssumption, ClientAssumption DEF CallerWants
<1>7. /\ SameCopy(heap[o], r.obj) /\ r.data \in Seq(Piece)
      /\ CopyRead(r.obj, IF r.data = <<>> THEN "eof" ELSE "open", t.out \o r.data)
  BY <1>3, <1>4, <1>6, CopyReads
<1>8. PICK m \in TidyRecord : /\ tidy' = [tidy EXCEPT ![s] = m]
                              /\ TidyReturned(t, r.data, m)
  BY <1>2, <1>5, <1>7, TidyReturn
<1>9. tidy'[s] = m /\ m.mode = "CACHED" /\ m.sURL = u /\ m.cacheObject = o
  BY <1>1, <1>2, <1>8 DEF TidyReturned
<1>10. EntriesSound' /\ OnlyReadersOpen' /\ FiniteCache' /\ heap'[o] = r.obj
       /\ TextsStay
  <2>1. heap' = [heap EXCEPT ![o] = r.obj]
    BY <1>4, <1>5 DEF Update
  <2>2. \A w \in Url : ReadsCopy(s, w) => w = u
    BY <1>1, <1>2, ReadsOne DEF ReadsCopy
  <2>3. ReadsCopy(s, u)'
    BY <1>9 DEF ReadsCopy
  <2>4. CopyStep(s, u, o, r.obj)
    BY <1>1, <1>3, <1>7, <2>1, <2>2, <2>3 DEF CopyStep
  <2> QED  BY <1>2, <2>4, CopyMoves
<1>11. TidyTexts(s)'
  BY <1>3, <1>7, <1>8, <1>9, <1>10 DEF TidyTexts, TidyReturned, SameCopy
<1>12. calling' # s
  BY <1>5, StreamAssumption DEF TidyReturns
<1>13. SlotTexts(s, openings)'
  BY <1>1, <1>11, <1>12, InputNone DEF SlotTexts, InputGone
<1> QED  BY <1>2, <1>10, <1>13, OneSlotTexts

LEMMA TextsUseTidiedCopy ==
  ASSUME NEW openings, TextsInv(openings), NEW s \in Stream, UseTidiedCopy(s)
  PROVE  Texts(openings)' /\ FiniteCache' /\ TextsStay
<1> DEFINE t == tidy[s]
           o == CopyFound(s)
           u == t.sURL
           m == [t EXCEPT !.mode = "CACHED", !.cacheObject = o, !.bTidied = TRUE]
<1>1. /\ t.mode = "TIDY" /\ ~t.bTidied /\ t.inStream = "NULL" /\ calling = s
      /\ Live(o) /\ heap[o].bTidyFlag
      /\ heap' = Update(o, ResetState(heap[o]))
      /\ tidy' = [tidy EXCEPT ![s] = m]
      /\ UNCHANGED <<HttpCache, fEasy, ver, file, status, out, since, calling>>
  BY DEF UseTidiedCopy, Mends, Performs, Calls, HasTidyFlag, clientVars
<1>2. /\ CustodyInv /\ t \in TidyRecord /\ SlotTexts(s, openings) /\ SeqInv
      /\ EntriesSound /\ tidy \in [Stream -> TidyRecord] /\ u \in Url
      /\ InputGone(t)
  BY <1>1, SlotKnown DEF TextsInv, Texts, InputGone
<1>3. InMap(u, o)
  BY <1>1, <1>2, LookupSound DEF CopyFound, Live
<1>4. o \in Obj /\ heap[o] \in CacheRecord /\ heap[o].eState \in {"FULL", "READ"}
  BY <1>2, <1>3, CopyLive DEF InMap, EntriesSound, EntrySound
<1>5. SameCopy(heap[o], ResetState(heap[o])) /\ ResetState(heap[o]).eState = "FULL"
  BY <1>4, CopyClosed
<1> HIDE DEF o
<1>6. /\ m \in TidyRecord /\ m.mode = "CACHED" /\ m.cacheObject = o /\ m.sURL = u
      /\ m.status = t.status /\ m.out = t.out
  BY <1>2, <1>4 DEF TidyRecord
<1> HIDE DEF m
<1>7. tidy'[s] = m
  BY <1>1, <1>2
<1>8. t.status = "open" /\ t.out = <<>>
  BY <1>1, <1>2 DEF SlotTexts, TidyTexts
<1>9. InputTexts(s)' /\ UsesCache(s)' /\ fEasy[s] = None /\ file[s].mode = "NONE"
  BY <1>1, <1>2, InputNone
<1>10. EntriesSound' /\ OnlyReadersOpen' /\ FiniteCache'
       /\ heap'[o] = ResetState(heap[o]) /\ TextsStay
  <2>1. heap' = [heap EXCEPT ![o] = ResetState(heap[o])]
    BY <1>1 DEF Update
  <2>2. \A w \in Url : ~ReadsCopy(s, w)
    BY <1>1, <1>9 DEF ReadsCopy
  <2>3. ReadsCopy(s, u)'
    BY <1>6, <1>7 DEF ReadsCopy
  <2>4. CopyStep(s, u, o, ResetState(heap[o]))
    BY <1>1, <1>3, <1>5, <2>1, <2>2, <2>3 DEF CopyStep
  <2> QED  BY <1>2, <2>4, CopyMoves
<1>11. TidyTexts(s)'
  <2>1. CopyRead(heap'[o], "open", <<>>)
    BY <1>5, <1>10, ReadAtOnce
  <2>2. heap'[o].bTidyFlag
    BY <1>1, <1>5, <1>10 DEF SameCopy
  <2> QED  BY <1>6, <1>7, <1>8, <2>1, <2>2 DEF TidyTexts
<1>12. SlotTexts(s, openings)'
  BY <1>6, <1>7, <1>8, <1>9, <1>11 DEF SlotTexts
<1> QED  BY <1>2, <1>10, <1>12, OneSlotTexts

\* The object of a tidied text.
LEMMA TidiedObjectHolds ==
  ASSUME NEW o \in CacheRecord, NEW text \in Seq(Piece),
         o.eState \in {"FULL", "READ"} \/ o = NewObject
  PROVE  LET p == TidiedObject(o, text)
         IN  /\ p.eState = "FULL" /\ p.ended /\ p.bTidyFlag
             /\ p.zBuffer = text /\ p.pEtag = o.pEtag
<1> DEFINE r == ResetState(o)
           q == Prepared(r)
           w == WriteBytes(r, text)
           f == FinishBytes(w)
           e == ResetState(f)
<1>1. /\ q \in CacheRecord /\ q.zBuffer = <<>> /\ q.pEtag = o.pEtag
      /\ q.eState = "EMPTY"
  <2>1. CASE o = NewObject
    BY <2>1 DEF NewObject, ResetState, Prepared
  <2>2. CASE o.eState \in {"FULL", "READ"}
    <3>1. r \in CacheRecord /\ r.eState = "FULL" /\ r.pEtag = o.pEtag
      BY <2>2 DEF ResetState, CacheRecord, CacheStates
    <3> HIDE DEF r
    <3>2. q = ResetBuffer(r)
      BY <3>1 DEF Prepared, ResetState
    <3>3. <<>> \in Seq(Piece)
      BY EmptyPieces
    <3> QED  BY <3>1, <3>2, <3>3 DEF ResetBuffer, CacheRecord, CacheStates
  <2> QED  BY <2>1, <2>2
<1>2. w = [q EXCEPT !.eState = "WRITE", !.zBuffer = q.zBuffer \o text]
  BY DEF WriteBytes
<1> HIDE DEF q
<1>3. /\ w \in CacheRecord /\ w.eState = "WRITE" /\ w.zBuffer = text
      /\ w.pEtag = o.pEtag
  <2>1. r \in CacheRecord
    BY ObjectOps
  <2> HIDE DEF r
  <2>2. w \in CacheRecord
    BY <2>1, WriteBytesType
  <2>3. q.zBuffer \o text = text
    BY <1>1, ConcatEmptySeq
  <2> HIDE DEF w
  <2>4. w.eState = "WRITE" /\ w.zBuffer = text /\ w.pEtag = o.pEtag
    BY <1>1, <1>2, <2>3 DEF CacheRecord
  <2> QED  BY <2>2, <2>4
<1> HIDE DEF w
<1>4. /\ f \in CacheRecord /\ f.eState = "FULL" /\ f.zBuffer = text
      /\ f.pEtag = o.pEtag /\ f.ended
  <2>1. f = [w EXCEPT !.eState = "FULL", !.ended = TRUE]
    BY <1>3 DEF FinishBytes, Prepared
  <2> QED  BY <1>3, <2>1 DEF CacheRecord, CacheStates
<1> HIDE DEF f
<1>5. e = f
  BY <1>4 DEF ResetState
<1>6. TidiedObject(o, text) = [f EXCEPT !.bTidyFlag = TRUE]
  BY <1>5 DEF TidiedObject, SetTidyFlag, f, w
<1> QED  BY <1>4, <1>6 DEF CacheRecord

\* Perform mends what it has read whole, and its object is then the map's.
TidiesInto(s, o, before, filled) ==
  LET u    == tidy[s].sURL
      text == Tidy(u, tidy[s].docbuf)
  IN
  /\ o \in Obj
  /\ IF HttpCache[u] = None
     THEN /\ \A w \in Url : HttpCache[w] # o
          /\ before = [heap EXCEPT ![o] = NewObject]
     ELSE o = HttpCache[u] /\ before = heap
  /\ filled = [before EXCEPT ![o] = TidiedObject(before[o], text)]
  /\ heap' = AddCacheObject(filled, HttpCache, u, o).heap
  /\ HttpCache' = AddCacheObject(filled, HttpCache, u, o).cache

LEMMA MendTidies ==
  ASSUME CustodyInv, AllShut, NEW s \in Stream, MendInput(s)
  PROVE  \E o, before, filled : TidiesInto(s, o, before, filled)
<1> DEFINE m     == tidy[s]
           u     == m.sURL
           found == CopyFound(s)
           text  == Tidy(u, m.docbuf)
<1>1. /\ SeqInv /\ u \in Url /\ m.bUseCache
  <2>1. m.mode = "TIDY" /\ m.inStream = "NULL"
    BY DEF MendInput, Mends, Performs
  <2> QED  BY <2>1, SlotKnown DEF SlotSound
<1>2. found = HttpCache[u]
  BY <1>1, ShutFound DEF CopyFound
<1>3. /\ found # None => InMap(u, found) /\ found \in Obj /\ Exists(heap[found])
      /\ heap \in [Obj -> CacheRecord]
  <2>1. found # None => InMap(u, found)
    BY <1>2 DEF InMap
  <2> QED  BY <1>1, <2>1, CopyLive DEF Live, SeqInv, TypeInv, TypeOK
<1>4. PICK new \in NewAddresses(found = None) :
        LET o      == IF found = None THEN new ELSE found
            before == HeapWith(new)
            filled == IF Exists(before[o])
                      THEN [before EXCEPT ![o] = TidiedObject(@, text)]
                      ELSE before
            after  == IF StoresTidied(m)
                      THEN AddCacheObject(filled, HttpCache, u, o)
                      ELSE [heap |-> IF found = None THEN heap ELSE filled,
                            cache |-> HttpCache,
                            bad |-> IF found = None THEN {"leak"} ELSE {}]
        IN
        /\ heap' = after.heap
        /\ HttpCache' = after.cache
  BY DEF MendInput
<1> DEFINE o      == IF found = None THEN new ELSE found
           before == HeapWith(new)
           filled == IF Exists(before[o])
                     THEN [before EXCEPT ![o] = TidiedObject(@, text)]
                     ELSE before
           stored == AddCacheObject(filled, HttpCache, u, o)
<1>5. heap' = stored.heap /\ HttpCache' = stored.cache
  BY <1>1, <1>4 DEF StoresTidied
<1>6. /\ found = None => new \in Obj /\ \A w \in Url : HttpCache[w] # new
      /\ found # None => new = None
  BY DEF NewAddresses, Unused
<1> HIDE DEF found, text
<1>7. /\ o \in Obj
      /\ IF found = None
         THEN /\ \A w \in Url : HttpCache[w] # o
              /\ before = [heap EXCEPT ![o] = NewObject]
         ELSE o = found /\ before = heap
  BY <1>3, <1>6, ObjAssumption DEF HeapWith
<1>8. Exists(before[o])
  <2>1. CASE found = None
    BY <1>3, <1>7, <2>1 DEF Exists, NewObject
  <2>2. CASE found # None
    BY <1>3, <1>7, <2>2
  <2> QED  BY <2>1, <2>2
<1> HIDE DEF o, before
<1>9. filled = [before EXCEPT ![o] = TidiedObject(before[o], text)]
  BY <1>8
<1> HIDE DEF filled
<1>10. TidiesInto(s, o, before, filled)
  BY <1>2, <1>5, <1>7, <1>9 DEF TidiesInto, text
<1> QED  BY <1>10

LEMMA TidiedSound ==
  ASSUME NEW u \in Url, NEW text \in Seq(Piece), Whole(text, u)
  PROVE  Tidy(u, text) \in Seq(Piece) /\ WholeTidied(Tidy(u, text), u)
BY TidyType DEF Whole, WholeTidied

LEMMA TextsMendInput ==
  ASSUME NEW openings, TextsInv(openings), NEW s \in Stream, MendInput(s)
  PROVE  /\ Texts(openings)' /\ FiniteCache' /\ Whole(tidy[s].docbuf, tidy[s].sURL)
         /\ \A u \in Url : HttpCache'[u] # None =>
              IF u = tidy[s].sURL
              THEN heap'[HttpCache'[u]].zBuffer = Tidy(u, tidy[s].docbuf)
              ELSE /\ HttpCache[u] # None
                   /\ heap'[HttpCache'[u]].zBuffer = heap[HttpCache[u]].zBuffer
<1> DEFINE t    == tidy[s]
           u    == t.sURL
           text == Tidy(u, t.docbuf)
           m    == [t EXCEPT !.bTidied = TRUE, !.outbuf = text, !.docbuf = <<>>]
<1>1. /\ t.mode = "TIDY" /\ ~t.bTidied /\ t.inStream = "NULL" /\ calling = s
      /\ tidy' = [tidy EXCEPT ![s] = m]
      /\ UNCHANGED <<fEasy, ver, file, status, out, since, calling>>
      /\ CopyFound(s) # None => ~Live(CopyFound(s)) \/ ~heap[CopyFound(s)].bTidyFlag
  BY DEF MendInput, Mends, Performs, Calls, HasTidyFlag, clientVars
<1>2. /\ CustodyInv /\ t \in TidyRecord /\ SlotTexts(s, openings) /\ SeqInv
      /\ EntriesSound /\ tidy \in [Stream -> TidyRecord] /\ u \in Url
      /\ InputGone(t) /\ FiniteCache
  BY <1>1, SlotKnown DEF TextsInv, Texts, InputGone
<1>3. InputTexts(s)' /\ UsesCache(s)' /\ fEasy[s] = None /\ file[s].mode = "NONE"
  BY <1>1, <1>2, InputNone
<1>4. AllShut
  BY <1>1, <1>3, ShutAtRest
<1>5. /\ heap \in [Obj -> CacheRecord] /\ HttpCache \in [Url -> Obj \cup {None}]
      /\ t.docbuf \in Seq(Piece) /\ Open = {} /\ Intact(heap, HttpCache)
  BY <1>2, <1>3, OneSlot, AllInMap DEF TidyRecord, SeqInv, TypeInv, TypeOK
<1>6. /\ t.status = "open" /\ t.out = <<>> /\ Whole(t.docbuf, u)
      /\ t.fTotalBytesRead = 0
      /\ HttpCache[u] = None => u \in File
  <2>1. t.status = "open" /\ t.out = <<>> /\ Mendable(u, t.docbuf)
        /\ t.fTotalBytesRead = 0
    BY <1>1, <1>2 DEF SlotTexts, TidyTexts
  <2>2. HttpCache[u] # None => ~heap[HttpCache[u]].bTidyFlag
    <3>1. CopyFound(s) = HttpCache[u]
      BY <1>2, <1>4, ShutFound DEF CopyFound
    <3>2. HttpCache[u] # None => Live(HttpCache[u])
      BY <1>2, CopyLive DEF InMap
    <3> QED  BY <1>1, <3>1, <3>2
  <2> QED  BY <2>1, <2>2 DEF Mendable, MendableIn
<1>7. text \in Seq(Piece) /\ WholeTidied(text, u)
  BY <1>2, <1>5, <1>6, TidiedSound
<1>8. PICK o, before, filled : TidiesInto(s, o, before, filled)
  BY <1>2, <1>4, MendTidies
<1> DEFINE p == filled[o]
<1> HIDE DEF text
<1>9. /\ o \in Obj /\ filled \in [Obj -> CacheRecord] /\ Exists(p)
      /\ EntrySound(p, u, ver[u]) /\ p.eState = "FULL"
      /\ p.bTidyFlag /\ p.zBuffer = text
      /\ \A q \in Obj : q # o => filled[q] = heap[q]
      /\ HttpCache[u] = o \/ (HttpCache[u] = None /\ \A w \in Url : HttpCache[w] # o)
  <2>1. /\ o \in Obj /\ before[o] \in CacheRecord /\ before \in [Obj -> CacheRecord]
        /\ \A q \in Obj : q # o => before[q] = heap[q]
        /\ before[o].eState = "FULL" \/ before[o] = NewObject
        /\ u \notin File => before[o].pEtag = ver[u]
    <3>1. CASE HttpCache[u] = None
      <4>1. before = [heap EXCEPT ![o] = NewObject] /\ o \in Obj
        BY <1>8, <3>1 DEF TidiesInto
      <4> QED  BY <1>5, <1>6, <3>1, <4>1, NewObjectType
    <3>2. CASE HttpCache[u] # None
      <4>1. before = heap /\ o = HttpCache[u] /\ o \in Obj
        BY <1>8, <3>2 DEF TidiesInto
      <4> QED  BY <1>2, <1>4, <1>5, <3>2, <4>1 DEF AllShut, EntriesSound, EntrySound
    <3> QED  BY <3>1, <3>2
  <2>2. filled = [before EXCEPT ![o] = TidiedObject(before[o], text)]
    BY <1>8 DEF TidiesInto, text
  <2>3. TidiedObject(before[o], text) \in CacheRecord
    BY <1>7, <2>1, TidiedObjectType
  <2>4. p = TidiedObject(before[o], text)
    BY <2>1, <2>2
  <2>5. /\ p.eState = "FULL" /\ p.ended /\ p.bTidyFlag
        /\ p.zBuffer = text /\ p.pEtag = before[o].pEtag
    BY <1>7, <2>1, <2>4, TidiedObjectHolds
  <2>6. HttpCache[u] = o \/ (HttpCache[u] = None /\ \A w \in Url : HttpCache[w] # o)
    BY <1>8 DEF TidiesInto
  <2>7. filled \in [Obj -> CacheRecord] /\ \A q \in Obj : q # o => filled[q] = heap[q]
    BY <2>1, <2>2, <2>3
  <2> QED  BY <1>7, <2>1, <2>5, <2>6, <2>7 DEF EntrySound, Exists
<1>10. Intact(filled, HttpCache)
  BY <1>5, <1>9 DEF Intact
<1>11. KeepsStored(filled, HttpCache, u, o, heap', HttpCache')
  <2>1. /\ heap' = AddCacheObject(filled, HttpCache, u, o).heap
        /\ HttpCache' = AddCacheObject(filled, HttpCache, u, o).cache
    BY <1>8 DEF TidiesInto
  <2> QED  BY <1>2, <1>5, <1>9, <1>10, <2>1, StoredStays DEF FiniteCache
<1>12. /\ HttpCache'[u] = o /\ FiniteCache'
       /\ \A w \in Url : HttpCache'[w] # None =>
            IF w = u THEN heap'[HttpCache'[w]] = p
            ELSE /\ HttpCache'[w] = HttpCache[w]
                 /\ heap'[HttpCache'[w]] = heap[HttpCache[w]]
  BY <1>5, <1>9, <1>11 DEF KeepsStored, FiniteCache
<1> HIDE DEF p
<1>13. EntriesSound' /\ AllShut'
  BY <1>1, <1>2, <1>4, <1>9, <1>12 DEF EntriesSound, AllShut
<1>14. /\ m \in TidyRecord /\ m.mode = "TIDY" /\ m.bTidied /\ m.sURL = u
       /\ m.status = "open" /\ m.out = <<>> /\ m.outbuf = text
       /\ m.fTotalBytesRead = 0
  BY <1>1, <1>2, <1>6, <1>7, EmptyPieces DEF TidyRecord
<1> HIDE DEF m
<1>15. tidy'[s] = m
  BY <1>1, <1>2
<1>16. SlotTexts(s, openings)'
  <2>1. BufferRead(m)
    <3>1. SubSeq(text, 1, 0) = <<>> /\ Len(text) >= 0
      BY <1>7, LenProperties, SubSeqEmpty
    <3> QED  BY <1>14, <3>1 DEF BufferRead
  <2>2. /\ HttpCache'[u] # None
        /\ heap'[HttpCache'[u]].bTidyFlag /\ heap'[HttpCache'[u]].zBuffer = text
    BY <1>2, <1>9, <1>12, ObjAssumption
  <2>3. TidyTexts(s)'
    BY <1>14, <1>15, <2>1, <2>2 DEF TidyTexts, InMapTidied
  <2> QED  BY <1>3, <1>14, <1>15, <2>3 DEF SlotTexts
<1>17. \A w \in Url : HttpCache'[w] # None =>
         IF w = u THEN heap'[HttpCache'[w]].zBuffer = text
         ELSE /\ HttpCache[w] # None
              /\ heap'[HttpCache'[w]].zBuffer = heap[HttpCache[w]].zBuffer
  BY <1>9, <1>12
<1>18. Texts(openings)'
  BY <1>2, <1>13, <1>16, OpenAllShut, OneSlotTexts DEF AllShut, OnlyReadersOpen
<1> QED  BY <1>6, <1>12, <1>17, <1>18 DEF text

\* The destructors, and Perform's when it has what it needs.
LEMMA TextsCloses ==
  ASSUME NEW openings, TextsInv(openings), NEW s \in Stream, Closes(s)
  PROVE  /\ Texts(openings)' /\ FiniteCache' /\ OfferStays(SourceUrl(s)) /\ Free(s)'
         /\ TextsKept
<1> DEFINE t == tidy[s]
<1>1. /\ CustodyInv /\ t \in TidyRecord /\ SlotTexts(s, openings) /\ SeqInv
      /\ tidy \in [Stream -> TidyRecord] /\ SlotSound(s) /\ EntriesSound
      /\ (t.mode # "NONE" => t.sURL \in Url)
  BY SlotKnown DEF TextsInv, Texts
<1>2. calling = None /\ calling' = None /\ s # None
  BY StreamAssumption
     DEF Closes, DeletePlain, DeleteTidied, DeleteCached, DeletePassThrough
<1>3. CASE DeletePlain(s) \/ DeletePassThrough(s)
  <2>1. InputDeletes(s)
    BY <1>3, InputDeleted DEF DeletePlain, DeletePassThrough
  <2>2. tidy'[s].mode = "NONE"
    BY <1>1, <1>3, NoTidyType DEF DeletePlain, DeletePassThrough
  <2>3. SlotTexts(s, openings)'
    BY <1>2, <2>1, <2>2 DEF SlotTexts, InputDeletes, UsesCache
  <2>4. InputUrl(s) = SourceUrl(s)
    BY <1>1, <1>3 DEF SlotTexts, TidyTexts, SourceUrl, DeletePlain, DeletePassThrough
  <2> QED
    BY <1>1, <2>1, <2>2, <2>3, <2>4, OneSlotTexts
       DEF InputDeletes, AllShut, OnlyReadersOpen, Free
<1>4. CASE DeleteTidied(s)
  <2>1. tidy' = [tidy EXCEPT ![s] = NoTidy] /\ UNCHANGED baseVars /\ t.mode = "TIDY"
    BY <1>4 DEF DeleteTidied
  <2>2. OfferStays(SourceUrl(s))
    BY <2>1 DEF baseVars, vars, handlerVars, OfferStays, Offer, OfferIn
  <2>3. Free(s)'
    BY <1>1, <1>4, <2>1, NoTidyType
       DEF DeleteTidied, SlotSound, InputGone, Free, baseVars, vars
  <2>4. TextsKept
    BY <2>1, StayKept DEF TextsStay, baseVars, vars, handlerVars
  <2> QED  BY <1>2, <2>1, <2>2, <2>3, <2>4, NoTidyType, TidyMoves
<1>5. CASE DeleteCached(s)
  <2> DEFINE o == t.cacheObject
             u == t.sURL
  <2>1. /\ t.mode = "CACHED" /\ tidy' = [tidy EXCEPT ![s] = NoTidy]
        /\ heap' = IF Live(o) THEN [heap EXCEPT ![o] = Released(@)] ELSE heap
        /\ UNCHANGED <<HttpCache, fEasy, ver, file, status, out, since>>
    BY <1>5 DEF DeleteCached, clientVars
  <2>2. InMap(u, o) /\ u \in Url /\ Live(o)
    BY <1>1, <2>1, CopyLive DEF SlotSound
  <2>3. ReadsCopy(s, u)
    BY <2>1 DEF ReadsCopy
  <2>4. tidy'[s].mode = "NONE"
    BY <1>1, <2>1, NoTidyType
  <2> HIDE DEF o, u
  <2>5. EntriesSound' /\ AllShut' /\ OfferStays(u) /\ TextsKept
    BY <2>1, <2>2, <2>3, CopyLetGo, OffersStay, StayKept
  <2>6. FiniteCache'
    BY <2>1 DEF TextsInv, FiniteCache, Cached
  <2>7. InputTexts(s)' /\ UsesCache(s)'
    BY <2>1, InputNone DEF InputGone
  <2>8. SlotTexts(s, openings)'
    BY <1>2, <2>4, <2>7 DEF SlotTexts
  <2>9. SourceUrl(s) = u /\ Free(s)'
    BY <1>1, <2>1, <2>4 DEF SlotSound, InputGone, SourceUrl, Free, u
  <2> QED
    BY <1>1, <2>5, <2>6, <2>8, <2>9, OneSlotTexts DEF AllShut, OnlyReadersOpen
<1> QED  BY <1>3, <1>4, <1>5 DEF Closes

LEMMA TextsDeletesInput ==
  ASSUME NEW openings, TextsInv(openings), NEW s \in Stream,
         DeleteAtEnd(s) \/ DeleteOnError(s)
  PROVE  Texts(openings)' /\ FiniteCache' /\ TextsKept
<1> DEFINE t == tidy[s]
           u == t.sURL
<1>1. /\ CustodyInv /\ t \in TidyRecord /\ SlotTexts(s, openings)
      /\ tidy \in [Stream -> TidyRecord] /\ SlotSound(s)
  BY SlotKnown DEF TextsInv, Texts
<1>2. /\ t.mode = "TIDY" /\ ~t.bTidied /\ t.inStream = "live" /\ DeleteInput(s)
      /\ calling = s /\ s # None
  BY StreamAssumption DEF DeleteAtEnd, DeleteOnError, Performs, Calls, DeleteInput
<1>3. /\ t.status = "open" /\ t.out = <<>> /\ t.fTotalBytesRead = 0
      /\ InputUrl(s) = u /\ UsesCache(s)
  BY <1>1, <1>2 DEF SlotSound, SlotTexts, TidyTexts
<1>4. InputDeletes(s) /\ EndsMendable(s)
  BY <1>2, InputDeleted
<1>5. CASE DeleteAtEnd(s)
  <2> DEFINE m == [t EXCEPT !.docbuf = out[s], !.inStream = "NULL"]
  <2>1. tidy' = [tidy EXCEPT ![s] = m] /\ calling' = calling /\ InputEnds(s)
    BY <1>5 DEF DeleteAtEnd
  <2>2. /\ m.mode = "TIDY" /\ ~m.bTidied /\ m.inStream = "NULL" /\ m.sURL = u
        /\ m.docbuf = out[s] /\ m.status = "open" /\ m.out = <<>>
        /\ m.fTotalBytesRead = 0
    BY <1>1, <1>2, <1>3 DEF TidyRecord
  <2> HIDE DEF m
  <2>3. tidy'[s] = m
    BY <1>1, <2>1
  <2>4. MendableIn(heap', HttpCache', m.sURL, m.docbuf)
    BY <1>3, <1>4, <2>1, <2>2 DEF EndsMendable
  <2>5. TidyTexts(s)'
    BY <2>2, <2>3, <2>4 DEF TidyTexts, Mendable
  <2>6. SlotTexts(s, openings)'
    BY <1>4, <2>2, <2>3, <2>5 DEF SlotTexts, InputDeletes, UsesCache
  <2> QED  BY <1>1, <1>4, <2>6, OneSlotTexts DEF InputDeletes, AllShut, OnlyReadersOpen
<1>6. CASE DeleteOnError(s)
  <2> DEFINE m == [t EXCEPT !.inStream = "freed", !.status = "error", !.want = 0]
  <2>1. tidy' = [tidy EXCEPT ![s] = m] /\ calling' = None
    BY <1>6 DEF DeleteOnError
  <2>2. /\ m.mode = "TIDY" /\ ~m.bTidied /\ m.inStream = "freed"
        /\ m.status = "error" /\ m.out = <<>> /\ m.fTotalBytesRead = 0
    BY <1>1, <1>2, <1>3 DEF TidyRecord
  <2> HIDE DEF m
  <2>3. tidy'[s] = m
    BY <1>1, <2>1
  <2>4. TidyTexts(s)'
    BY <2>2, <2>3 DEF TidyTexts
  <2>5. SlotTexts(s, openings)'
    BY <1>2, <1>4, <2>1, <2>4 DEF SlotTexts, InputDeletes, UsesCache
  <2> QED  BY <1>1, <1>4, <2>5, OneSlotTexts DEF InputDeletes, AllShut, OnlyReadersOpen
<1> QED  BY <1>5, <1>6

-----------------------------------------------------------------------------
(***************************************************************************)
(* Reading a file stream.                                                  *)
(***************************************************************************)
\* A step of a file stream, or of nothing, in terms of the slot.
LEMMA FileStepTexts ==
  ASSUME NEW openings, TextsInv(openings), NEW s \in Stream,
         file[s].mode # "NONE", EntriesSound', OnlyReadersOpen',
         UNCHANGED <<HttpCache, fEasy, calling, ver, since>>, SameTidy(s),
         file'[s].mode = file[s].mode, file'[s].sFilename = file[s].sFilename,
         FileTexts(s)'
  PROVE  Texts(openings)'
<1>1. /\ CustodyInv /\ SlotTexts(s, openings) /\ SlotSound(s) /\ SlotSound(s)
  BY SlotKnown DEF TextsInv, Texts
<1>2. fEasy[s] = None /\ ~InputGone(tidy[s])
  BY <1>1 DEF SlotSound
<1>3. InputTexts(s)'
  BY <1>1, <1>2 DEF SlotTexts, InputTexts
<1>4. UsesCache(s) => UsesCache(s)'
  BY <1>2 DEF UsesCache
<1>5. tidy[s].mode # "NONE" => TidyTexts(s)'
  <2>1. InputUrl(s)' = InputUrl(s)
    BY <1>2 DEF InputUrl
  <2> QED  BY <1>1, <1>2, <2>1 DEF SlotTexts, TidyTexts, InputGone, SlotSound, SameTidy
<1>6. SlotTexts(s, openings)'
  BY <1>1, <1>3, <1>4, <1>5 DEF SlotTexts, SameTidy
<1> QED  BY <1>1, <1>6, OneSlotTexts

\* The next part of the file behind fp.
FileGoesOn(f, f1, text, data) ==
  /\ f1.mode = f.mode /\ f1.sFilename = f.sFilename /\ f1.bIsOpen
  /\ f1.text = text /\ f1.fTotalBytesRead = f.fTotalBytesRead + Len(data)
  /\ text \in Seq(Piece) /\ data \in Seq(Piece)
  /\ f.fTotalBytesRead + Len(data) <= Len(text)
  /\ data = <<>> => f.fTotalBytesRead = Len(text)
  /\ SubSeq(text, 1, f.fTotalBytesRead) \o data
       = SubSeq(text, 1, f.fTotalBytesRead + Len(data))

LEMMA DiskReads ==
  ASSUME TypeInv, FilePart, NEW s \in Stream, NEW n \in 1 .. MaxRead, ReadDisk(s, n),
         NEW text, text = IF file[s].bIsOpen THEN file[s].text
                          ELSE Body(file[s].sFilename, ver[file[s].sFilename])
  PROVE  \E f1, data : /\ file' = [file EXCEPT ![s] = f1]
                       /\ FileGoesOn(file[s], f1, text, data) /\ Returned(s, data)
<1> DEFINE f    == file[s]
           i    == f.fTotalBytesRead
           k    == Least(n, Len(text) - i)
           data == SubSeq(text, i + 1, i + k)
           f1   == [f EXCEPT !.bIsOpen = TRUE, !.text = text,
                             !.fTotalBytesRead = @ + k]
<1>1. /\ f.mode = "READ" /\ file' = [file EXCEPT ![s] = f1] /\ Returned(s, data)
  BY DEF ReadDisk
<1>2. /\ f \in FileRecord /\ f.sFilename \in Url
      /\ IF f.bIsOpen THEN i <= Len(f.text) ELSE i = 0
  BY <1>1 DEF FilePart, FilesSetUp
<1>3. /\ text \in Seq(Piece) /\ Len(text) \in Nat /\ i \in 0 .. Len(text)
  <2>1. text \in Seq(Piece)
    <3>1. CASE f.bIsOpen
      BY <1>2, <3>1 DEF FileRecord
    <3>2. CASE ~f.bIsOpen
      <4>1. ver[f.sFilename] \in Version
        BY <1>2 DEF TypeInv, TypeOK
      <4> QED  BY <1>2, <3>2, <4>1, BodyType
    <3> QED  BY <3>1, <3>2
  <2>2. Len(text) \in Nat /\ i \in Nat
    BY <1>2, <2>1, LenProperties DEF FileRecord
  <2> QED  BY <1>2, <2>1, <2>2
<1> HIDE DEF i
<1>4. k \in Nat /\ i + k <= Len(text) /\ (k = 0 <=> i = Len(text))
  BY <1>3, ClientAssumption DEF Least
<1> HIDE DEF k
<1>5. /\ data \in Seq(Piece) /\ Len(data) = k
      /\ SubSeq(text, 1, i) \o data = SubSeq(text, 1, i + k)
  BY <1>3, <1>4, NextPart
<1> HIDE DEF data
<1>6. /\ f1.mode = f.mode /\ f1.sFilename = f.sFilename /\ f1.bIsOpen
      /\ f1.text = text /\ f1.fTotalBytesRead = i + k
  BY <1>2 DEF FileRecord, i
<1> HIDE DEF f1
<1>7. data = <<>> => i = Len(text)
  BY <1>4, <1>5, EmptySeq
<1>8. FileGoesOn(f, f1, text, data)
  BY <1>3, <1>4, <1>5, <1>6, <1>7 DEF FileGoesOn, i
<1> QED  BY <1>1, <1>8

LEMMA TextsReadFile ==
  ASSUME NEW openings, TextsInv(openings), NEW s \in Stream, NEW n \in 1 .. MaxRead,
         ReadFile(s, n), UNCHANGED calling, SameTidy(s)
  PROVE  Texts(openings)' /\ FiniteCache' /\ TextsStay /\ SourceStays(s)
<1> DEFINE f == file[s]
           u == f.sFilename
<1>1. /\ f.mode # "NONE" /\ status[s] = "open"
      /\ UNCHANGED <<HttpCache, fEasy, st, ver, since>>
  BY DEF ReadFile, ReadDisk, ReadDiskFails, ReadCopy, ReadsFile, httpVars
<1>2. /\ CustodyInv /\ SlotTexts(s, openings) /\ SeqInv /\ FilePart /\ TypeOK
      /\ file \in [Stream -> FileRecord] /\ SlotSound(s)
      /\ EntriesSound /\ OnlyReadersOpen
  BY SlotKnown DEF TextsInv, Texts, SeqInv, TypeInv
<1>3. /\ FileTexts(s) /\ u \in File /\ u \in Url /\ since[s][u] <= ver[u]
  BY <1>1, <1>2 DEF SlotTexts, InputTexts, FileTexts, FilePart, FilesSetUp
<1>4. FiniteCache'
  BY <1>1 DEF TextsInv, FiniteCache, Cached
<1>5. UNCHANGED heap => EntriesSound'
  BY <1>1, <1>2, EntriesStay
<1>6. UNCHANGED heap /\ file'[s].mode = f.mode /\ file'[s].sFilename = u
        => OnlyReadersOpen'
  <2>1. Stream = {s}
    BY <1>2, OneSlot
  <2>2. ASSUME file'[s].mode = f.mode, file'[s].sFilename = u, NEW w,
               ReadsCopy(s, w)
        PROVE  ReadsCopy(s, w)'
    BY <1>1, <1>2, <2>2 DEF ReadsCopy, SameTidy, SlotSound
  <2> QED  BY <1>1, <1>2, <2>1, <2>2 DEF OnlyReadersOpen
<1>10. UNCHANGED heap => TextsStay
  BY <1>1 DEF TextsStay
<1>11. file'[s].mode = f.mode /\ file'[s].sFilename = u => SourceStays(s)
  BY <1>1 DEF SourceStays
<1>7. CASE ReadDisk(s, n)
  <2> DEFINE text == IF f.bIsOpen THEN f.text ELSE Body(u, ver[u])
  <2>1. PICK f1, data : /\ file' = [file EXCEPT ![s] = f1]
                        /\ FileGoesOn(f, f1, text, data) /\ Returned(s, data)
    BY <1>2, <1>7, DiskReads DEF SeqInv
  <2>2. UNCHANGED heap /\ f.mode = "READ"
    BY <1>7 DEF ReadDisk, httpVars
  <2>3. file'[s] = f1 /\ f1.mode = f.mode /\ f1.sFilename = u
    BY <1>2, <2>1 DEF FileGoesOn
  <2>4. /\ out'[s] = out[s] \o data
        /\ status'[s] = IF data = <<>> THEN "eof" ELSE "open"
    BY <1>2, <2>1 DEF Returned, TypeOK
  <2>5. /\ \E w \in since[s][u] .. ver[u] : text = Body(u, w)
        /\ out[s] = SubSeq(text, 1, f.fTotalBytesRead)
    <3>1. FileRead(f, "open", out[s], since[s][u], ver[u])
      BY <1>1, <1>3, <2>2 DEF FileTexts
    <3>2. CASE f.bIsOpen
      BY <3>1, <3>2 DEF FileRead
    <3>3. CASE ~f.bIsOpen
      <4>1. ver[u] \in Int /\ since[s][u] \in Int
        BY <1>2, <1>3, ServerAssumption DEF TypeOK, Version
      <4>2. f.fTotalBytesRead = 0
        BY <1>1, <1>2, <2>2, <3>3 DEF FilePart, FilesSetUp
      <4>3. ver[u] \in since[s][u] .. ver[u] /\ text = Body(u, ver[u])
        BY <1>3, <3>3, <4>1
      <4>4. out[s] = <<>> /\ SubSeq(text, 1, 0) = <<>>
        BY <3>1, <3>3, SubSeqEmpty DEF FileRead
      <4> QED  BY <4>2, <4>3, <4>4
    <3> QED  BY <3>2, <3>3
  <2> HIDE DEF text
  <2>6. FileRead(f1, status'[s], out'[s], since[s][u], ver[u])
    <3>1. data = <<>> => SubSeq(text, 1, f.fTotalBytesRead + Len(data)) = text
      <4>1. Len(<<>>) = 0
        BY EmptySeq
      <4>2. ASSUME data = <<>>
            PROVE  f.fTotalBytesRead + Len(data) = Len(text)
        BY <2>1, <4>1, <4>2, LenProperties DEF FileGoesOn
      <4> QED  BY <2>1, <4>2, SubSeqFull DEF FileGoesOn
    <3>2. out'[s] = SubSeq(text, 1, f.fTotalBytesRead + Len(data))
      BY <2>1, <2>4, <2>5 DEF FileGoesOn
    <3> QED  BY <2>1, <2>3, <2>4, <2>5, <3>1, <3>2 DEF FileGoesOn, FileRead
  <2>7. FileTexts(s)'
    BY <1>1, <1>3, <2>2, <2>3, <2>6 DEF FileTexts
  <2>8. EntriesSound' /\ OnlyReadersOpen'
    BY <1>5, <1>6, <2>2, <2>3
  <2> QED  BY <1>1, <1>4, <1>10, <1>11, <2>2, <2>3, <2>7, <2>8, FileStepTexts
<1>8. CASE ReadDiskFails(s)
  <2>1. UNCHANGED <<heap, file, out>> /\ f.mode = "READ" /\ status'[s] = "error"
    BY <1>2, <1>8 DEF ReadDiskFails, httpVars, TypeOK
  <2>2. FileRead(f, status'[s], out'[s], since[s][u], ver[u])
    BY <1>1, <1>3, <2>1 DEF FileTexts, FileRead
  <2>3. FileTexts(s)'
    BY <1>1, <1>3, <2>1, <2>2 DEF FileTexts
  <2>4. EntriesSound' /\ OnlyReadersOpen'
    BY <1>5, <1>6, <2>1
  <2> QED  BY <1>1, <1>4, <1>10, <1>11, <2>1, <2>3, <2>4, FileStepTexts
<1>9. CASE ReadCopy(s, n)
  <2> DEFINE o == f.cacheObject
  <2>1. f.mode = "CACHED" /\ InMap(u, o) /\ CopyRead(heap[o], "open", out[s])
    BY <1>1, <1>2, <1>3, <1>9 DEF ReadCopy, SlotSound, FileTexts
  <2>2. Live(o) /\ o \in Obj /\ heap[o] \in CacheRecord /\ heap[o].ended
    BY <1>2, <1>3, <2>1, CopyLive DEF InMap, EntriesSound, EntrySound
  <2>3. PICK r \in ReadOutcomes(heap[o], n) :
           /\ heap' = Update(o, r.obj)
           /\ file' = [file EXCEPT ![s].fTotalBytesRead = @ + Len(r.data)]
           /\ Returned(s, r.data)
    BY <1>9, <2>2 DEF ReadCopy
  <2>4. n \in Nat \ {0}
    BY ClientAssumption
  <2>5. /\ SameCopy(heap[o], r.obj) /\ r.data \in Seq(Piece)
        /\ CopyRead(r.obj, IF r.data = <<>> THEN "eof" ELSE "open", out[s] \o r.data)
    BY <2>1, <2>2, <2>4, CopyReads
  <2>6. /\ out'[s] = out[s] \o r.data
        /\ status'[s] = IF r.data = <<>> THEN "eof" ELSE "open"
    BY <1>2, <2>3 DEF Returned, TypeOK
  <2>7. /\ file'[s].mode = f.mode /\ file'[s].sFilename = u
        /\ file'[s].cacheObject = o
    BY <1>2, <2>3 DEF FileRecord
  <2>8. CopyStep(s, u, o, r.obj)
    <3>1. heap' = [heap EXCEPT ![o] = r.obj]
      BY <2>2, <2>3 DEF Update
    <3>2. ReadsCopy(s, u)
      BY <2>1 DEF ReadsCopy
    <3>3. \A w \in Url : ReadsCopy(s, w) => w = u
      BY <1>2, <3>2, ReadsOne
    <3>4. ReadsCopy(s, u)'
      BY <2>1, <2>7 DEF ReadsCopy
    <3> QED  BY <1>1, <2>1, <2>5, <3>1, <3>3, <3>4 DEF CopyStep
  <2> HIDE DEF o
  <2>9. EntriesSound' /\ OnlyReadersOpen' /\ heap'[o] = r.obj /\ TextsStay
    BY <1>3, <2>8, CopyMoves
  <2>10. FileTexts(s)'
    BY <1>3, <2>1, <2>5, <2>6, <2>7, <2>9 DEF FileTexts
  <2> QED  BY <1>1, <1>4, <1>11, <2>7, <2>9, <2>10, FileStepTexts
<1> QED  BY <1>7, <1>8, <1>9 DEF ReadFile

-----------------------------------------------------------------------------
(***************************************************************************)
(* Every step.                                                             *)
(***************************************************************************)
LEMMA TextsReads ==
  ASSUME NEW openings, TextsInv(openings), NEW s \in Stream, NEW n \in 1 .. MaxRead,
         ReadInput(s, n), UNCHANGED calling, SameTidy(s)
  PROVE  Texts(openings)' /\ FiniteCache' /\ TextsStay /\ SourceStays(s)
<1>1. CASE ReadFile(s, n)
  BY <1>1, TextsReadFile
<1>2. CASE BeginRead(s, n) /\ UNCHANGED file
  <2>1. HttpCache' = HttpCache
    BY <1>2 DEF BeginRead, handlerVars
  <2> QED  BY <1>2, <2>1, TextsBeginRead DEF TextsInv, FiniteCache, Cached
<1> QED  BY <1>1, <1>2 DEF ReadInput

LEMMA TextsTidyReads ==
  ASSUME NEW openings, TextsInv(openings), NEW s \in Stream, TidyReadStep(s)
  PROVE  Texts(openings)' /\ FiniteCache'
<1>1. MaxRead \in 1 .. MaxRead
  BY ClientAssumption
<1>2. CASE AskInput(s)
  BY <1>1, <1>2, TextsReads DEF AskInput, SameTidy
<1>3. CASE AskAndPassOn(s)
  <2>1. CustodyInv /\ tidy \in [Stream -> TidyRecord] /\ CallerWants
    BY SlotKnown DEF TextsInv, TidyPart
  <2>2. calling = s /\ tidy' = [tidy EXCEPT ![s].asked = TRUE] /\ calling' = calling
        /\ ReadInput(s, tidy[s].want)
    BY <1>3 DEF AskAndPassOn, Calls
  <2>3. tidy[s].want \in 1 .. MaxRead
    BY <2>1, <2>2, StreamAssumption DEF CallerWants
  <2>4. SameTidy(s)
    BY <2>1, <2>2 DEF SameTidy, TidyRecord
  <2> QED  BY <2>2, <2>3, <2>4, TextsReads
<1> QED
  BY <1>2, <1>3, TextsDeletesInput, TextsUseTidiedCopy, TextsMendInput,
     TextsDeliverBuffer, TextsDeliverCopy, TextsPassOn DEF TidyReadStep

LEMMA TextsDestroyInstance ==
  ASSUME NEW openings, TextsInv(openings), DestroyInstance
  PROVE  Texts(openings)' /\ FiniteCache'
<1>1. /\ \A s \in Stream : Free(s)
      /\ HttpCache' = [u \in Url |-> None] /\ calling = None
      /\ UNCHANGED <<fEasy, file, tidy, calling, ver, status, out, since>>
  BY DEF DestroyInstance, clientVars
<1>2. Cached(HttpCache') = {}
  BY <1>1 DEF Cached
<1>3. EntriesSound' /\ OnlyReadersOpen'
  BY <1>1 DEF EntriesSound, OnlyReadersOpen
<1>4. FiniteCache'
  BY <1>2, FS_EmptySet DEF FiniteCache, Cached
<1>5. ASSUME NEW s \in Stream PROVE SlotTexts(s, openings)'
  <2>1. InputTexts(s)
    BY DEF TextsInv, Texts, SlotTexts
  <2> QED  BY <1>1, <2>1, StreamAssumption DEF SlotTexts, InputTexts, UsesCache, Free
<1> QED  BY <1>3, <1>4, <1>5 DEF Texts

LEMMA TextsPublish ==
  ASSUME NEW openings, TextsInv(openings), NEW w \in Url, Publish(w)
  PROVE  Texts(openings)' /\ FiniteCache'
<1>1. /\ w \in Changing /\ ver' = [ver EXCEPT ![w] = @ + 1]
      /\ UNCHANGED <<heap, HttpCache, fEasy, st, xfer, msgs, cur, phase, file, tidy,
                     calling, status, out, since>>
  BY DEF Publish, ServerUpdate, handlerVars, callVars, clientVars
<1>2. /\ CustodyInv /\ EntriesSound /\ OnlyReadersOpen /\ FiniteCache
      /\ \A s \in Stream : SlotTexts(s, openings)
      /\ w \in File
  BY <1>1 DEF TextsInv, Texts, SteadyServers
<1>3. FiniteCache'
  BY <1>1, <1>2 DEF FiniteCache, Cached
<1> SUFFICES ASSUME NEW s \in Stream
             PROVE  EntriesSound' /\ OnlyReadersOpen' /\ SlotTexts(s, openings)'
  <2>1. \E s \in Stream : TRUE
    BY <1>2 DEF CustodyInv, SeqInv, OneAtATime
  <2> QED  BY <1>3, <2>1 DEF Texts
<1>4. TypeOK
  BY <1>2, SlotKnown DEF SeqInv, TypeInv
<1>5. \A u \in Url : /\ u \notin File => ver'[u] = ver[u]
                     /\ ver[u] \in Int /\ ver'[u] \in Int /\ ver[u] <= ver'[u]
                     /\ since[s][u] \in Int
  <2>1. \A u \in Url : ver[u] \in Nat /\ since[s][u] \in Nat
    BY <1>4, ServerAssumption DEF TypeOK, Version
  <2>2. \A u \in Url : ver'[u] = IF u = w THEN ver[u] + 1 ELSE ver[u]
    BY <1>1, <1>4 DEF TypeOK
  <2> QED  BY <1>2, <2>1, <2>2
<1>6. EntriesSound'
  BY <1>1, <1>2, <1>5, EntriesStay
<1>7. OnlyReadersOpen'
  BY <1>1, <1>2 DEF OnlyReadersOpen, ReadsCopy
<1>8. InputTexts(s)'
  <2>1. InputTexts(s)
    BY <1>2 DEF SlotTexts
  <2>2. fEasy[s] # None => HttpTexts(s)'
    <3>1. ASSUME fEasy[s] # None PROVE st[s].sURL \in Url
      BY <1>2, <3>1, OwnObject
    <3>2. ASSUME fEasy[s] # None
          PROVE  HttpTexts(s) /\ ver'[st[s].sURL] = ver[st[s].sURL]
      BY <1>5, <2>1, <3>1, <3>2 DEF InputTexts, HttpTexts
    <3> QED  BY <1>1, <3>2 DEF HttpTexts
  <2>3. file[s].mode # "NONE" => FileTexts(s)'
    <3> SUFFICES ASSUME file[s].mode # "NONE" PROVE FileTexts(s)'
      OBVIOUS
    <3> DEFINE u == file[s].sFilename
    <3>1. FileTexts(s) /\ u \in Url
      BY <1>2, <2>1, SlotKnown DEF InputTexts, FilePart, FilesSetUp
    <3>2. ver[u] \in Int /\ ver'[u] \in Int /\ ver[u] <= ver'[u] /\ since[s][u] \in Int
      BY <1>5, <3>1
    <3>3. \A x \in since[s][u] .. ver[u] : x \in since[s][u] .. ver'[u]
      BY <3>2
    <3>4. FileRead(file[s], status[s], out[s], since[s][u], ver[u])
            => FileRead(file[s], status[s], out[s], since[s][u], ver'[u])
      BY <3>3 DEF FileRead
    <3> QED  BY <1>1, <3>1, <3>4 DEF FileTexts
  <2>4. \A u \in Url : since[s][u] <= ver'[u]
    BY <1>5, <2>1 DEF InputTexts
  <2> QED  BY <1>1, <2>1, <2>2, <2>3, <2>4 DEF InputTexts
<1>9. SlotTexts(s, openings)'
  <2>1. InputUrl(s)' = InputUrl(s)
    BY <1>1 DEF InputUrl
  <2>2. TidyTexts(s) => TidyTexts(s)'
    BY <1>1, <2>1 DEF TidyTexts, BufferRead, InMapTidied, Mendable, CopyRead
  <2>3. UsesCache(s) => UsesCache(s)'
    BY <1>1 DEF UsesCache
  <2>4. SlotTexts(s, openings)
    BY <1>2
  <2> QED  BY <1>1, <1>8, <2>2, <2>3, <2>4 DEF SlotTexts
<1> QED  BY <1>6, <1>7, <1>9

LEMMA TextsUnmoved ==
  ASSUME NEW openings, TextsInv(openings), UNCHANGED tidyVars
  PROVE  Texts(openings)' /\ FiniteCache'
<1>1. UNCHANGED baseVars /\ tidy' = tidy /\ calling' = calling
  BY DEF tidyVars, baseVars
<1>2. CustodyInv /\ \A s \in Stream : SlotTexts(s, openings)
  BY DEF TextsInv, Texts
<1>3. PICK s \in Stream : TRUE
  BY <1>2 DEF CustodyInv, SeqInv, OneAtATime
<1>4. \A u \in Url : ReadsCopy(s, u) => ReadsCopy(s, u)'
  BY <1>1 DEF ReadsCopy, baseVars, vars
<1>5. /\ EntriesSound' /\ OnlyReadersOpen' /\ FiniteCache' /\ InputTexts(s)'
      /\ InputUrl(s)' = InputUrl(s) /\ (UsesCache(s) => UsesCache(s)')
  BY <1>4, <1>1, BelowKept
<1>6. TidyTexts(s) => TidyTexts(s)'
  <2>1. heap' = heap /\ HttpCache' = HttpCache
    BY <1>1 DEF baseVars, vars, handlerVars
  <2> QED  BY <1>1, <1>5, <2>1
           DEF TidyTexts, BufferRead, InMapTidied, Mendable, CopyRead
<1>7. SlotTexts(s, openings)'
  BY <1>1, <1>2, <1>5, <1>6 DEF SlotTexts
<1> QED  BY <1>2, <1>5, <1>7, OneSlotTexts

LEMMA TextsStep ==
  ASSUME NEW openings, openings \subseteq Opens, SteadyUse(openings),
         TextsInv(openings), ReadingStep(openings)
  PROVE  TextsInv(openings)'
<1>1. CustodyInv'
  BY CustodyStep DEF TextsInv, SteadyUse
<1>2. CASE \E s \in Stream, o \in openings : OpenStream(s, o)
  <2>1. PICK s \in Stream, o \in openings : OpenStream(s, o)
    BY <1>2
  <2>2. Texts(openings)'
    BY <2>1, TextsOpen
  <2>3. HttpCache' = HttpCache
    BY <2>1 DEF OpenStream, OpenInput, NewStream, OpenFile, handlerVars
  <2> QED  BY <1>1, <2>2, <2>3 DEF TextsInv, SteadyServers, FiniteCache, Cached
<1>3. CASE \E s \in Stream, n \in 1 .. MaxRead : ReadPlain(s, n)
  BY <1>1, <1>3, TextsReads DEF ReadPlain, SameTidy, TextsInv, SteadyServers
<1>4. CASE \E s \in Stream, n \in 1 .. MaxRead : BeginTidyRead(s, n)
  BY <1>1, <1>4, TextsBeginTidyRead DEF TextsInv, SteadyServers
<1>5. CASE \E s \in Stream : TidyReadStep(s)
  BY <1>1, <1>5, TextsTidyReads DEF TextsInv, SteadyServers
<1>6. CASE \E s \in Stream : Closes(s)
  BY <1>1, <1>6, TextsCloses DEF TextsInv, SteadyServers
<1>7. CASE CallStep
  <2>1. Texts(openings)' /\ HttpCache' = HttpCache
    BY <1>7, TextsCall, ReadStepKeeps DEF CallStep
  <2> QED  BY <1>1, <2>1 DEF TextsInv, SteadyServers, FiniteCache, Cached
<1>8. CASE DestroyInstance
  BY <1>1, <1>8, TextsDestroyInstance DEF TextsInv, SteadyServers
<1>9. CASE \E u \in Url : Publish(u)
  BY <1>1, <1>9, TextsPublish DEF TextsInv, SteadyServers
<1>10. CASE UNCHANGED tidyVars
  BY <1>1, <1>10, TextsUnmoved DEF TextsInv, SteadyServers
<1> QED
  BY <1>2, <1>3, <1>4, <1>5, <1>6, <1>7, <1>8, <1>9, <1>10 DEF ReadingStep

LEMMA TextsInit ==
  ASSUME NEW openings, SteadyServers, OneAtATime, NoRedirection, TidyInit
  PROVE  TextsInv(openings)
<1>1. CustodyInv
  BY CustodyInit
<1>2. /\ HttpCache = [u \in Url |-> None]
      /\ fEasy = [s \in Stream |-> None] /\ file = [s \in Stream |-> NoFile]
      /\ tidy = [s \in Stream |-> NoTidy] /\ calling = None
      /\ status = [s \in Stream |-> "closed"] /\ out = [s \in Stream |-> <<>>]
      /\ ver = [u \in Url |-> 1] /\ since = [s \in Stream |-> [u \in Url |-> 1]]
  BY DEF TidyInit, Init, HandlerInit, FileInit
<1>3. FiniteCache
  <2>1. Cached(HttpCache) = {}
    BY <1>2 DEF Cached
  <2> QED  BY <2>1, FS_EmptySet DEF FiniteCache
<1>4. EntriesSound /\ OnlyReadersOpen
  BY <1>2 DEF EntriesSound, OnlyReadersOpen
<1>5. ASSUME NEW s \in Stream PROVE SlotTexts(s, openings)
  <2>1. file[s].mode = "NONE" /\ tidy[s].mode = "NONE" /\ fEasy[s] = None
        /\ calling # s
    BY <1>2, StreamAssumption DEF NoFile, NoTidy
  <2> QED  BY <1>2, <2>1 DEF SlotTexts, InputTexts, UsesCache
<1> QED  BY <1>1, <1>3, <1>4, <1>5 DEF TextsInv, Texts

-----------------------------------------------------------------------------
(***************************************************************************)
(* What TidySpec's streams deliver and store, one at a time.               *)
(***************************************************************************)
LEMMA TextsInvariant ==
  TidySequential /\ SteadyServers /\ SteadyUse(Openings) => []TextsInv(Openings)
<1> DEFINE Set  == ~Abandons /\ SteadyServers /\ SteadyUse(Openings)
           IInv == Set /\ TextsInv(Openings)
<1>1. Set /\ OneAtATime /\ NoRedirection /\ TidyInit => IInv
  BY TextsInit
<1>2. IInv /\ [TidyNext]_tidyVars => IInv'
  <2> SUFFICES ASSUME IInv, [TidyNext]_tidyVars
               PROVE  IInv'
    OBVIOUS
  <2>1. ReadingStep(Openings)
    BY TidySteps DEF StreamsStep, DeleteUnread
  <2>2. TextsInv(Openings)'
    BY <2>1, TextsStep, OpeningsAssumption
  <2>3. Set'
    BY DEF SteadyServers, SteadyUse
  <2> QED  BY <2>2, <2>3
<1> QED  BY <1>1, <1>2, PTL DEF TidySequential, TidySpec

LEMMA VersionsNow ==
  ASSUME TidyTypeInv, NEW u \in Url
  PROVE  ver[u] \in Version
BY DEF TidyTypeInv, TypeInv, TypeOK

LEMMA FlagTold ==
  ASSUME TextsInv(Openings)
  PROVE  FlagTells
<1> SUFFICES ASSUME NEW u \in Url, HttpCache[u] # None
             PROVE  IF heap[HttpCache[u]].bTidyFlag
                    THEN WholeTidied(heap[HttpCache[u]].zBuffer, u)
                    ELSE Whole(heap[HttpCache[u]].zBuffer, u)
  BY DEF FlagTells, Cached
<1>1. EntrySound(heap[HttpCache[u]], u, ver[u])
  BY DEF TextsInv, Texts, EntriesSound
<1>2. ver[u] \in Version
  BY VersionsNow DEF TextsInv, CustodyInv
<1> QED  BY <1>1, <1>2 DEF EntrySound, Whole

LEMMA ReusableAtRest ==
  ASSUME TextsInv(Openings)
  PROVE  AllReusable
<1> SUFFICES ASSUME AllClosed, NEW u \in Url, HttpCache[u] # None
             PROVE  State(heap[HttpCache[u]]) # "BUSY"
  BY DEF AllReusable, Cached
<1>1. PICK s \in Stream : TRUE
  BY DEF TextsInv, CustodyInv, SeqInv, OneAtATime
<1>2. fEasy[s] = None /\ file[s].mode = "NONE" /\ tidy[s].mode # "CACHED"
  BY DEF AllClosed, Free
<1>3. AllShut
  BY <1>2, ShutAtRest
<1> QED  BY <1>3 DEF AllShut, State

\* Where a stream that is not tidied reads.
LEMMA UrlOfPlain ==
  ASSUME NEW s, tidy[s].mode = "NONE"
  PROVE  /\ file[s].mode # "NONE" => UrlAt(s) = file[s].sFilename
         /\ file[s].mode = "NONE" => UrlAt(s) = st[s].sURL
BY DEF UrlAt

\* What has been read of a copy to its end is a version of the document, or
\* that tidied.
LEMMA CopyWhole ==
  ASSUME NEW o, NEW u, NEW v \in Version, EntrySound(o, u, v), NEW text,
         CopyRead(o, "eof", text)
  PROVE  text = Body(u, v) \/ WholeTidied(text, u)
BY DEF EntrySound, CopyRead

\* What a stream has delivered when it tells the end.
LEMMA ReadToEnd ==
  ASSUME NEW openings, TextsInv(openings), NEW s \in Stream, status[s] = "eof"
  PROVE  LET u == IF file[s].mode # "NONE" THEN file[s].sFilename ELSE st[s].sURL
         IN  /\ u \in Url
             /\ \/ \E w \in since[s][u] .. MaxVer : out[s] = Body(u, w)
                \/ WholeTidied(out[s], u)
<1>1. /\ CustodyInv /\ InputTexts(s) /\ EntriesSound /\ TypeOK
      /\ \A u \in Url : ver[u] \in Version
  BY VersionsNow DEF TextsInv, Texts, SlotTexts, CustodyInv, TidyTypeInv, TypeInv
<1>2. \A u \in Url : /\ since[s][u] \in Int /\ ver[u] \in Int /\ MaxVer \in Int
                     /\ since[s][u] <= ver[u] /\ ver[u] <= MaxVer
  <2>1. \A u \in Url : since[s][u] \in Version
    BY <1>1 DEF TypeOK
  <2> QED  BY <1>1, <2>1, ServerAssumption DEF Version, InputTexts
<1>3. \A u \in Url : ver[u] \in since[s][u] .. MaxVer
  BY <1>2
<1>4. CASE fEasy[s] # None
  <2> DEFINE m == st[s]
             x == xfer[s]
             o == heap[m.cacheObject]
             v == ver[m.sURL]
  <2>1. /\ m.sURL \in Url /\ m \in Members /\ out[s] \in Seq(Piece)
        /\ file[s].mode = "NONE"
    BY <1>1, <1>4, OwnObject
  <2>2. \/ Fetches(m, x, o, "eof", out[s], v)
        \/ Revalidates(m, x, o, "eof", out[s], v, msgs) /\ EntrySound(o, m.sURL, v)
    BY <1>4, HttpKnown
  <2>3. v \in Version /\ v \in since[s][m.sURL] .. MaxVer
    BY <1>1, <1>3, <2>1
  <2>4. CASE Fetches(m, x, o, "eof", out[s], v)
    <3> HIDE DEF m, x, o, v
    <3>1. out[s] = Body(m.sURL, v)
      BY <2>1, <2>3, <2>4, FetchedWhole
    <3> QED  BY <2>1, <2>3, <3>1 DEF m
  <2>5. CASE Revalidates(m, x, o, "eof", out[s], v, msgs) /\ EntrySound(o, m.sURL, v)
    <3> HIDE DEF m, x, o, v
    <3>1. CopyRead(o, "eof", out[s])
      BY <2>5 DEF Revalidates
    <3>2. out[s] = Body(m.sURL, v) \/ WholeTidied(out[s], m.sURL)
      BY <2>3, <2>5, <3>1, CopyWhole
    <3> QED  BY <2>1, <2>3, <3>2 DEF m
  <2> QED  BY <2>2, <2>4, <2>5
<1>5. CASE file[s].mode # "NONE"
  <2> DEFINE f == file[s]
             u == f.sFilename
  <2>1. FileTexts(s) /\ u \in File /\ u \in Url
    BY <1>1, <1>5, FileAssumption DEF InputTexts, FileTexts
  <2>2. CASE f.mode = "READ"
    <3>1. FileRead(f, "eof", out[s], since[s][u], ver[u])
      BY <2>1, <2>2 DEF FileTexts
    <3>2. PICK w \in since[s][u] .. ver[u] : f.text = Body(u, w)
      BY <3>1 DEF FileRead
    <3>3. out[s] = Body(u, w)
      BY <3>1, <3>2 DEF FileRead
    <3>4. w \in since[s][u] .. MaxVer
      BY <1>2, <2>1
    <3> QED  BY <1>5, <2>1, <3>3, <3>4
  <2>3. CASE f.mode # "READ"
    <3>1. CopyRead(heap[f.cacheObject], "eof", out[s])
      BY <2>1, <2>3 DEF FileTexts
    <3>2. f.cacheObject = HttpCache[u] /\ HttpCache[u] # None
      <4>1. f.mode = "CACHED"
        BY <1>1, <1>5, <2>3 DEF CustodyInv, TidyTypeInv, FilePart, FileRecord
      <4> QED  BY <1>1, <4>1 DEF CustodyInv, SlotsSound, SlotSound, InMap
    <3>3. EntrySound(heap[f.cacheObject], u, ver[u])
      BY <1>1, <2>1, <3>2 DEF EntriesSound
    <3>4. out[s] = Body(u, ver[u]) \/ WholeTidied(out[s], u)
      BY <1>1, <2>1, <3>1, <3>3, CopyWhole
    <3> QED  BY <1>3, <1>5, <2>1, <3>4
  <2> QED  BY <2>2, <2>3
<1> QED  BY <1>1, <1>4, <1>5 DEF InputTexts

LEMMA OneForm ==
  ASSUME TextsInv(Openings)
  PROVE  WholeInOneForm
BY ReadToEnd, UrlOfPlain DEF WholeInOneForm

\* The flag of every entry tells what it holds, for servers that neither fail
\* nor change the documents they can say nothing about, and an application that
\* tells every stream it tidies or caches to use the cache, throughout.
THEOREM FlagTellsCorrect ==
  TidySequential /\ SteadyServers /\ SteadyUse(Openings) => []FlagTells
<1> QED  BY TextsInvariant, FlagTold, PTL

\* Under the same premises the reader of a stream that is not tidied gets one
\* version of the document whole, raw or tidied, whoever has filled the cache.
THEOREM OneFormCorrect ==
  TidySequential /\ SteadyServers /\ SteadyUse(Openings) => []WholeInOneForm
<1> QED  BY TextsInvariant, OneForm, PTL

\* And no stream of any kind leaves a codec running in an entry.
THEOREM AllReusableCorrect ==
  TidySequential /\ SteadyServers /\ SteadyUse(Openings) => []AllReusable
<1> QED  BY TextsInvariant, ReusableAtRest, PTL

-----------------------------------------------------------------------------
(***************************************************************************)
(* parseHtml.  The texts that its passes are given, in parts.              *)
(***************************************************************************)
\* The beginning of a text.
LEMMA Beginning ==
  ASSUME NEW text \in Seq(Piece), NEW k \in 0 .. Len(text)
  PROVE  SubSeq(text, 1, k) \in Seq(Piece) /\ IsPrefix(SubSeq(text, 1, k), text)
<1>1. Len(text) \in Nat
  BY LenProperties
<1>2. SubSeq(text, 1, k) \in Seq(Piece) /\ Len(SubSeq(text, 1, k)) = k
  BY FromHolding, EmptyPieces
<1>3. SubSeq(SubSeq(text, 1, k), 1, k) = SubSeq(text, 1, k)
  BY <1>2, SubSeqFull
<1> QED  BY <1>1, <1>2, <1>3 DEF IsPrefix

LEMMA AllAndNothing ==
  ASSUME NEW text \in Seq(Piece)
  PROVE  IsPrefix(text, text) /\ IsPrefix(<<>>, text)
<1>1. Len(text) \in Nat /\ 0 \in 0 .. Len(text) /\ Len(text) \in 0 .. Len(text)
  BY LenProperties
<1>2. SubSeq(text, 1, Len(text)) = text /\ SubSeq(text, 1, 0) = <<>>
  BY SubSeqFull, SubSeqEmpty
<1> QED  BY <1>1, <1>2, Beginning

LEMMA BeforeMore ==
  ASSUME NEW a \in Seq(Piece), NEW b \in Seq(Piece)
  PROVE  IsPrefix(a, a \o b)
<1>1. /\ Len(a) \in Nat /\ Len(b) \in Nat
      /\ a \o b \in Seq(Piece) /\ Len(a \o b) = Len(a) + Len(b)
  BY LenProperties, ConcatProperties
<1>2. CASE Len(a) = 0
  <2>1. a = <<>>
    BY <1>1, <1>2, EmptySeq
  <2> QED  BY <1>1, <2>1, AllAndNothing
<1>3. CASE Len(a) # 0
  <2>1. 1 \in 1 .. Len(a) /\ Len(a) \in 1 .. Len(a)
    BY <1>1, <1>3
  <2>2. SubSeq(a \o b, 1, Len(a)) = SubSeq(a, 1, Len(a))
    BY <2>1, SubSeqOfConcat1
  <2> QED  BY <1>1, <2>2 DEF IsPrefix
<1> QED  BY <1>2, <1>3

\* The pieces of a beginning are those of the text.
LEMMA SamePieces ==
  ASSUME NEW a \in Seq(Piece), NEW b \in Seq(Piece), IsPrefix(a, b)
  PROVE  /\ Len(a) \in Nat /\ Len(b) \in Nat /\ Len(a) <= Len(b)
         /\ DOMAIN a = 1 .. Len(a) /\ DOMAIN b = 1 .. Len(b)
         /\ \A i \in 1 .. Len(a) : a[i] = b[i]
<1>1. /\ Len(a) \in Nat /\ Len(b) \in Nat
      /\ DOMAIN a = 1 .. Len(a) /\ DOMAIN b = 1 .. Len(b)
  BY LenProperties
<1>2. Len(a) <= Len(b) /\ SubSeq(a, 1, Len(a)) = SubSeq(b, 1, Len(a))
  BY DEF IsPrefix
<1>3. a = SubSeq(b, 1, Len(a))
  BY <1>2, SubSeqFull
<1>4. \A i \in 1 .. Len(a) : b[i] \in Piece
  BY <1>1, <1>2, ElementOfSeq
<1>5. \A i \in 1 .. Len(a) - 1 + 1 : SubSeq(b, 1, Len(a))[i] = b[1 + i - 1]
  BY <1>1, <1>4, SubSeqProperties
<1>6. ASSUME NEW i \in 1 .. Len(a) PROVE a[i] = b[i]
  <2>1. i \in 1 .. Len(a) - 1 + 1 /\ 1 + i - 1 = i
    BY <1>1
  <2> QED  BY <1>3, <1>5, <2>1
<1> QED  BY <1>1, <1>2, <1>6

LEMMA NoFlawInPart ==
  ASSUME NEW a \in Seq(Piece), NEW b \in Seq(Piece), IsPrefix(a, b), Flawed(a)
  PROVE  Flawed(b)
<1>1. PICK i \in DOMAIN a : /\ a[i].form = "raw" /\ a[i].version # 0
                            /\ a[i].n = FlawAt[a[i].url][a[i].version]
  BY DEF Flawed
<1>2. i \in DOMAIN b /\ b[i] = a[i]
  <2>1. /\ Len(a) \in Nat /\ Len(b) \in Nat /\ Len(a) <= Len(b)
        /\ DOMAIN a = 1 .. Len(a) /\ DOMAIN b = 1 .. Len(b)
        /\ \A j \in 1 .. Len(a) : a[j] = b[j]
    BY SamePieces
  <2>2. i \in 1 .. Len(a)
    BY <1>1, <2>1
  <2> QED  BY ONLY <2>1, <2>2
<1> QED  BY <1>1, <1>2 DEF Flawed

\* A flaw is in what was there or in what is new.
LEMMA FlawIsNew ==
  ASSUME NEW fed \in Seq(Piece), NEW got \in Seq(Piece), NEW offer \in Seq(Piece),
         IsPrefix(fed, offer), IsPrefix(got, offer), Flawed(got)
  PROVE  Flawed(fed) \/ Flawed(SubSeq(got, Len(fed) + 1, Len(got)))
<1> DEFINE n   == Len(fed)
           new == SubSeq(got, n + 1, Len(got))
<1>1. PICK i \in DOMAIN got : /\ got[i].form = "raw" /\ got[i].version # 0
                              /\ got[i].n = FlawAt[got[i].url][got[i].version]
  BY DEF Flawed
<1>2. /\ n \in Nat /\ Len(got) \in Nat /\ i \in 1 .. Len(got)
      /\ DOMAIN fed = 1 .. n
      /\ \A j \in 1 .. n : fed[j] = offer[j]
      /\ \A j \in 1 .. Len(got) : got[j] = offer[j]
  BY SamePieces
<1>3. CASE i <= n
  <2>1. i \in DOMAIN fed /\ fed[i] = got[i]
    BY <1>2, <1>3
  <2> QED  BY <1>1, <2>1 DEF Flawed
<1>4. CASE i > n
  <2>1. \A j \in n + 1 .. Len(got) : got[j] \in Piece
    BY <1>2, ElementOfSeq
  <2>2. /\ new \in Seq(Piece)
        /\ Len(new) = IF n + 1 <= Len(got) THEN Len(got) - (n + 1) + 1 ELSE 0
        /\ \A j \in 1 .. Len(got) - (n + 1) + 1 : new[j] = got[n + 1 + j - 1]
    <3>1. n + 1 \in Int /\ Len(got) \in Int
      BY <1>2
    <3> QED  BY <2>1, <3>1, SubSeqProperties
  <2>3. DOMAIN new = 1 .. Len(new)
    BY <2>2, LenProperties
  <2> HIDE DEF n, new
  <2>4. /\ i - n \in 1 .. Len(got) - (n + 1) + 1
        /\ n + 1 + (i - n) - 1 = i /\ i - n \in 1 .. Len(new)
    BY <1>2, <1>4, <2>2
  <2>5. i - n \in DOMAIN new /\ new[i - n] = got[i]
    BY <2>2, <2>3, <2>4
  <2>6. Flawed(new)
    BY <1>1, <2>5 DEF Flawed
  <2> QED  BY <2>6 DEF new, n
<1> QED  BY <1>2, <1>3, <1>4

LEMMA NewIsFlawed ==
  ASSUME NEW got \in Seq(Piece), NEW n \in Nat,
         Flawed(SubSeq(got, n + 1, Len(got)))
  PROVE  Flawed(got)
<1> DEFINE new == SubSeq(got, n + 1, Len(got))
<1>1. PICK i \in DOMAIN new : /\ new[i].form = "raw" /\ new[i].version # 0
                              /\ new[i].n = FlawAt[new[i].url][new[i].version]
  BY DEF Flawed
<1>2. Len(got) \in Nat /\ DOMAIN got = 1 .. Len(got)
  BY LenProperties
<1>3. /\ new \in Seq(Piece)
      /\ Len(new) = IF n + 1 <= Len(got) THEN Len(got) - (n + 1) + 1 ELSE 0
      /\ \A j \in 1 .. Len(got) - (n + 1) + 1 : new[j] = got[n + 1 + j - 1]
  <2>1. n + 1 \in Int /\ Len(got) \in Int
    BY <1>2
  <2>2. \A j \in n + 1 .. Len(got) : got[j] \in Piece
    BY <1>2, ElementOfSeq
  <2> QED  BY <2>1, <2>2, SubSeqProperties
<1>4. DOMAIN new = 1 .. Len(new)
  BY <1>3, LenProperties
<1> HIDE DEF new
<1>5. i \in 1 .. Len(new)
  BY <1>1, <1>4
<1>6. /\ i \in 1 .. Len(got) - (n + 1) + 1 /\ n + 1 + i - 1 = n + i
      /\ n + i \in 1 .. Len(got)
  <2> DEFINE a == Len(got)
             b == Len(new)
  <2>1. a \in Nat /\ (b = IF n + 1 <= a THEN a - (n + 1) + 1 ELSE 0) /\ i \in 1 .. b
    BY <1>2, <1>3, <1>5
  <2> HIDE DEF a, b
  <2>2. i \in 1 .. a - (n + 1) + 1 /\ n + 1 + i - 1 = n + i /\ n + i \in 1 .. a
    BY ONLY <2>1, n \in Nat
  <2> QED  BY <2>2 DEF a
<1>7. new[i] = got[n + i]
  BY <1>3, <1>6
<1> QED  BY <1>1, <1>2, <1>6, <1>7 DEF Flawed

\* libtidy has mended every piece.
LEMMA TidiedClean ==
  ASSUME NEW u \in Url, NEW text \in Seq(Piece), WholeTidied(text, u)
  PROVE  ~Flawed(text)
<1>1. PICK v \in Version : text = Tidy(u, Body(u, v))
  BY DEF WholeTidied
<1>2. Body(u, v) \in Seq(Piece)
  BY BodyType
<1>3. CASE Body(u, v) = <<>>
  <2>1. text = <<[url |-> u, version |-> 0, n |-> 1, form |-> "tidied"]>>
    BY <1>1, <1>3 DEF Tidy
  <2>2. \A i \in DOMAIN text : text[i].form = "tidied"
    BY <2>1
  <2> QED  BY <2>2 DEF Flawed
<1>4. CASE Body(u, v) # <<>>
  <2>1. text = [i \in DOMAIN Body(u, v) |-> [Body(u, v)[i] EXCEPT !.form = "tidied"]]
    BY <1>1, <1>4 DEF Tidy
  <2>2. \A i \in DOMAIN Body(u, v) : Body(u, v)[i] \in Piece
    BY <1>2, LenProperties, ElementOfSeq
  <2>3. \A i \in DOMAIN text : text[i].form = "tidied"
    BY <2>1, <2>2 DEF Piece
  <2> QED  BY <2>3 DEF Flawed
<1> QED  BY <1>3, <1>4

-----------------------------------------------------------------------------
(***************************************************************************)
(* What a stream of parseHtml delivers is a part of what is offered.       *)
(***************************************************************************)
LEMMA OfferType ==
  ASSUME NEW openings, TextsInv(openings), NEW u \in Url
  PROVE  /\ Offer(u) \in Seq(Piece)
         /\ HttpCache[u] # None => EntrySound(heap[HttpCache[u]], u, ver[u])
<1>1. TypeOK /\ EntriesSound
  BY DEF TextsInv, Texts, CustodyInv, TidyTypeInv, TypeInv
<1>2. HttpCache[u] = None => Body(u, ver[u]) \in Seq(Piece)
  BY <1>1, BodyType DEF TypeOK
<1>3. HttpCache[u] # None => heap[HttpCache[u]].zBuffer \in Seq(Piece)
  BY <1>1 DEF TypeOK, CacheRecord
<1> QED  BY <1>1, <1>2, <1>3 DEF Offer, OfferIn, EntriesSound

PartOf(text, told, offer) ==
  IsPrefix(text, offer) /\ (told = "eof" => text = offer)

LEMMA CopyPart ==
  ASSUME NEW o \in CacheRecord, NEW told, NEW text, CopyRead(o, told, text)
  PROVE  PartOf(text, told, o.zBuffer)
<1>1. o.zBuffer \in Seq(Piece) /\ Len(o.zBuffer) \in Nat
  BY LenProperties DEF CacheRecord
<1>2. CASE told = "eof"
  BY <1>1, <1>2, AllAndNothing DEF CopyRead, PartOf
<1>3. CASE told # "eof" /\ o.eState = "READ"
  <2>1. text = SubSeq(o.zBuffer, 1, o.pos) /\ o.pos \in 0 .. Len(o.zBuffer)
    BY <1>1, <1>3 DEF CopyRead, CacheRecord
  <2> QED  BY <1>1, <1>3, <2>1, Beginning DEF PartOf
<1>4. CASE told # "eof" /\ o.eState # "READ"
  <2>1. text = <<>>
    BY <1>4 DEF CopyRead
  <2> QED  BY <1>1, <1>4, <2>1, AllAndNothing DEF PartOf
<1> QED  BY <1>2, <1>3, <1>4

LEMMA FetchPart ==
  ASSUME NEW m \in Members, m.sURL \in Url, NEW x \in TransferRecord, NEW o,
         NEW told, NEW text \in Seq(Piece), NEW v \in Version,
         Fetches(m, x, o, told, text, v)
  PROVE  PartOf(text, told, Body(m.sURL, v))
<1>1. Body(m.sURL, v) \in Seq(Piece)
  BY BodyType
<1>2. CASE told = "eof"
  <2>1. text = Body(m.sURL, v)
    BY <1>2, FetchedWhole
  <2> QED  BY <1>1, <2>1, AllAndNothing DEF PartOf
<1>3. CASE told # "eof" /\ x.phase = "sent"
  <2>1. text = <<>>
    BY <1>3 DEF Fetches, Flow
  <2> QED  BY <1>1, <1>3, <2>1, AllAndNothing DEF PartOf
<1>4. CASE told # "eof" /\ x.phase # "sent"
  <2>1. PICK w \in v .. v : AllPieces(m, x, text) = Body(m.sURL, w)
    BY <1>4 DEF Fetches, Flow
  <2>2. v \in Int
    BY ServerAssumption DEF Version
  <2>3. w = v
    BY ONLY <2>2, w \in v .. v
  <2>4. m.filled \in Seq(Piece) /\ m.fBuffer \in Seq(Piece) /\ x.left \in Seq(Piece)
    BY DEF Members, TransferRecord
  <2>5. m.filled \o (m.fBuffer \o x.left) \in Seq(Piece)
    BY <2>4, ConcatProperties
  <2>6. IsPrefix(text, AllPieces(m, x, text))
    BY <2>5, BeforeMore DEF AllPieces
  <2> QED  BY <1>4, <2>1, <2>3, <2>6 DEF PartOf
<1> QED  BY <1>2, <1>3, <1>4

\* Where a stream reads.
Reads(s, u) ==
  SourceUrl(s) = u /\ ~Free(s) /\ tidy[s].mode # "PASSTROUGH"

\* The text a stream reads: the file behind fp, once it is open, or the offer.
SourceText(s, u) ==
  IF file[s].mode = "READ" THEN IF file[s].bIsOpen THEN file[s].text ELSE <<>>
  ELSE Offer(u)

LEMMA HttpReadsOffer ==
  ASSUME NEW openings, TextsInv(openings), NEW s \in Stream, NEW u \in Url,
         Reads(s, u), tidy[s].mode = "NONE", UsesCache(s), fEasy[s] # None
  PROVE  PartOf(out[s], status[s], Offer(u))
<1> DEFINE m == st[s]
           x == xfer[s]
           o == heap[m.cacheObject]
           v == ver[u]
<1>1. CustodyInv
  BY DEF TextsInv
<1>2. /\ m \in Members /\ x \in TransferRecord /\ o \in CacheRecord
      /\ out[s] \in Seq(Piece) /\ file[s].mode = "NONE"
      /\ ~m.bDeleteCache => HttpCache[m.sURL] = m.cacheObject
      /\ m.cacheObject # None
  BY <1>1, OwnObject
<1>3. m.sURL = u /\ m.bUseCache
  BY <1>2 DEF Reads, SourceUrl, InputUrl, UsesCache
<1>4. /\ v \in Version
      /\ \/ Fetches(m, x, o, status[s], out[s], v) /\ HttpCache[u] = None
         \/ Revalidates(m, x, o, status[s], out[s], v, msgs)
  BY <1>3, HttpKnown
<1>5. Offer(u) \in Seq(Piece)
  BY OfferType
<1>6. CASE Fetches(m, x, o, status[s], out[s], v) /\ HttpCache[u] = None
  <2>1. Offer(u) = Body(u, v)
    BY <1>6 DEF Offer, OfferIn
  <2> HIDE DEF m, x, o, v
  <2> QED  BY <1>2, <1>3, <1>4, <1>6, <2>1, FetchPart
<1>7. CASE Revalidates(m, x, o, status[s], out[s], v, msgs)
  <2>1. Offer(u) = o.zBuffer
    BY <1>2, <1>3, <1>7 DEF Offer, OfferIn, Revalidates
  <2> HIDE DEF m, x, o, v
  <2>2. CASE m.bStreamFromCache
    <3>1. CopyRead(o, status[s], out[s])
      BY <1>7, <2>2 DEF Revalidates
    <3> QED  BY <1>2, <2>1, <3>1, CopyPart
  <2>3. CASE ~m.bStreamFromCache
    <3>1. out[s] = <<>> /\ status[s] = "open"
      BY <1>7, <2>3 DEF Revalidates
    <3> QED  BY <1>5, <3>1, AllAndNothing DEF PartOf
  <2> QED  BY <2>2, <2>3
<1> QED  BY <1>4, <1>6, <1>7

LEMMA FileReadsSource ==
  ASSUME NEW openings, TextsInv(openings), NEW s \in Stream, NEW u \in Url,
         Reads(s, u), tidy[s].mode = "NONE", file[s].mode # "NONE"
  PROVE  /\ SourceText(s, u) \in Seq(Piece)
         /\ PartOf(out[s], status[s], SourceText(s, u))
<1> DEFINE f == file[s]
<1>1. /\ CustodyInv /\ FileTexts(s) /\ f.sFilename = u /\ f \in FileRecord
      /\ (f.mode = "CACHED" => HttpCache[u] = f.cacheObject /\ HttpCache[u] # None)
  <2>1. FileTexts(s)
    BY DEF TextsInv, Texts, SlotTexts, InputTexts
  <2>2. CustodyInv
    BY DEF TextsInv
  <2>3. f.sFilename = u
    BY <2>2, SlotKnown DEF Reads, SourceUrl, InputUrl, SlotSound
  <2> QED  BY <2>1, <2>3, SlotKnown DEF TextsInv, SlotSound, InMap
<1>2. Offer(u) \in Seq(Piece)
  BY OfferType
<1>3. CASE f.mode = "READ"
  <2>1. FileRead(f, status[s], out[s], since[s][u], ver[u])
    BY <1>1, <1>3 DEF FileTexts
  <2>2. CASE f.bIsOpen
    <3>1. /\ SourceText(s, u) = f.text /\ out[s] = SubSeq(f.text, 1, f.fTotalBytesRead)
          /\ status[s] = "eof" => out[s] = f.text
      BY <1>3, <2>1, <2>2 DEF FileRead, SourceText
    <3>2. f.text \in Seq(Piece) /\ f.fTotalBytesRead \in 0 .. Len(f.text)
      <4>1. f.fTotalBytesRead <= Len(f.text)
        BY <1>1, <1>3, <2>2, SlotKnown DEF FilePart, FilesSetUp
      <4>2. /\ f.fTotalBytesRead \in Nat /\ f.text \in Seq(Piece)
            /\ Len(f.text) \in Nat
        BY <1>1, LenProperties DEF FileRecord
      <4> QED  BY <4>1, <4>2
    <3> QED  BY <3>1, <3>2, Beginning DEF PartOf
  <2>3. CASE ~f.bIsOpen
    <3>1. out[s] = <<>> /\ SourceText(s, u) = <<>>
      BY <1>3, <2>1, <2>3 DEF FileRead, SourceText
    <3> QED  BY <3>1, EmptyPieces, AllAndNothing DEF PartOf
  <2> QED  BY <2>2, <2>3
<1>4. CASE f.mode # "READ"
  <2>1. f.mode = "CACHED"
    BY <1>1, <1>4 DEF FileRecord
  <2>2. CopyRead(heap[f.cacheObject], status[s], out[s])
    BY <1>1, <1>4 DEF FileTexts
  <2>3. SourceText(s, u) = heap[f.cacheObject].zBuffer /\ SourceText(s, u) = Offer(u)
    BY <1>1, <2>1 DEF SourceText, Offer, OfferIn
  <2>4. heap[f.cacheObject] \in CacheRecord
    BY <1>1, <2>1, SlotKnown DEF SeqInv, TypeInv, TypeOK
  <2> QED  BY <1>2, <2>2, <2>3, <2>4, CopyPart
<1> QED  BY <1>3, <1>4

\* Of a TidyStream: nothing, or a part of the tidied copy.
LEMMA TidyReadsOffer ==
  ASSUME NEW openings, TextsInv(openings), NEW s \in Stream, NEW u \in Url,
         Reads(s, u), tidy[s].mode # "NONE"
  PROVE  /\ PartOf(tidy[s].out, tidy[s].status, Offer(u))
         /\ ~Flawed(tidy[s].out)
         /\ tidy[s].status = "eof" => HttpCache[u] # None
<1> DEFINE m == tidy[s]
           o == heap[m.cacheObject]
<1>1. /\ TidyTexts(s) /\ CustodyInv /\ m \in TidyRecord /\ SlotSound(s) /\ TypeOK
      /\ m.sURL = u /\ m.mode \in {"TIDY", "CACHED"} /\ m.out \in Seq(Piece)
  <2>1. TidyTexts(s) /\ CustodyInv
    BY DEF TextsInv, Texts, SlotTexts
  <2>2. m.sURL = u
    BY DEF Reads, SourceUrl
  <2>3. m \in TidyRecord /\ SlotSound(s) /\ TypeOK
    BY <2>1, SlotKnown DEF SeqInv, TypeInv
  <2> QED  BY <2>1, <2>2, <2>3 DEF TidyTexts, Reads, TidyRecord
<1>2. Offer(u) \in Seq(Piece) /\ (HttpCache[u] # None => EntrySound(heap[HttpCache[u]], u, ver[u]))
  BY OfferType
<1>3. ASSUME HttpCache[u] # None, heap[HttpCache[u]].bTidyFlag,
             PartOf(m.out, m.status, Offer(u))
      PROVE  ~Flawed(m.out)
  <2>1. WholeTidied(Offer(u), u)
    BY <1>2, <1>3 DEF Offer, OfferIn, EntrySound
  <2>2. ~Flawed(Offer(u))
    BY <1>2, <2>1, TidiedClean
  <2> HIDE DEF m
  <2> QED  BY <1>1, <1>2, <1>3, <2>2, NoFlawInPart DEF PartOf
<1>4. CASE m.mode = "CACHED"
  <2>1. /\ o.bTidyFlag /\ CopyRead(o, m.status, m.out)
        /\ HttpCache[u] = m.cacheObject /\ HttpCache[u] # None
    BY <1>1, <1>4 DEF TidyTexts, SlotSound, InMap
  <2>2. o \in CacheRecord
    BY <1>1, <2>1 DEF TypeOK
  <2>3. Offer(u) = o.zBuffer
    BY <2>1 DEF Offer, OfferIn
  <2>4. PartOf(m.out, m.status, Offer(u))
    <3> HIDE DEF m, o
    <3> QED  BY <2>1, <2>2, <2>3, CopyPart
  <2> QED  BY <1>3, <2>1, <2>4
<1>5. CASE m.mode = "TIDY" /\ m.bTidied
  <2>1. BufferRead(m) /\ InMapTidied(u, m.outbuf)
    BY <1>1, <1>5 DEF TidyTexts
  <2>2. Offer(u) = m.outbuf
    BY <2>1 DEF Offer, OfferIn, InMapTidied
  <2>3. m.fTotalBytesRead \in 0 .. Len(m.outbuf) /\ m.outbuf \in Seq(Piece)
    BY <1>1, <2>1, LenProperties DEF BufferRead, TidyRecord
  <2>4. PartOf(m.out, m.status, Offer(u))
    <3>1. /\ m.out = SubSeq(m.outbuf, 1, m.fTotalBytesRead)
          /\ m.status = "eof" => m.out = m.outbuf
      BY <2>1 DEF BufferRead
    <3> HIDE DEF m
    <3> QED  BY <2>2, <2>3, <3>1, Beginning DEF PartOf
  <2> QED  BY <1>3, <2>1, <2>4 DEF InMapTidied
<1>6. CASE m.mode = "TIDY" /\ ~m.bTidied
  <2>1. m.out = <<>> /\ m.status # "eof"
    BY <1>1, <1>6 DEF TidyTexts, SlotSound
  <2>2. ~Flawed(<<>>)
    BY DEF Flawed
  <2> QED  BY <1>2, <2>1, <2>2, AllAndNothing DEF PartOf
<1> QED  BY <1>1, <1>4, <1>5, <1>6

LEMMA ReadsSource ==
  ASSUME NEW openings, TextsInv(openings), \A o \in openings : o.useCache,
         NEW s \in Stream, NEW u \in Url, Reads(s, u), tidy[s].mode = "NONE"
  PROVE  /\ Got(s) \in Seq(Piece) /\ SourceText(s, u) \in Seq(Piece)
         /\ PartOf(Got(s), Told(s), SourceText(s, u))
<1>1. /\ CustodyInv /\ UsesCache(s) /\ out[s] \in Seq(Piece)
      /\ fEasy[s] # None => file[s].mode = "NONE"
  <2>1. CustodyInv /\ SlotTexts(s, openings)
    BY DEF TextsInv, Texts
  <2>2. out[s] \in Seq(Piece) /\ SlotSound(s)
    BY <2>1, SlotKnown DEF SeqInv, TypeInv, TypeOK
  <2> QED  BY <2>1, <2>2 DEF SlotTexts, SlotSound
<1>2. Got(s) = out[s] /\ Told(s) = status[s]
  BY DEF Got, Told, IsTidied
<1>3. CASE file[s].mode # "NONE"
  BY <1>1, <1>2, <1>3, FileReadsSource
<1>4. CASE file[s].mode = "NONE"
  <2>1. fEasy[s] # None /\ SourceText(s, u) = Offer(u)
    BY <1>4 DEF Reads, Free, SourceText
  <2> QED  BY <1>1, <1>2, <2>1, HttpReadsOffer, OfferType
<1> QED  BY <1>3, <1>4

\* A document that is a file without a copy, and the stream that reads it.
OnDisk(u) == u \in File /\ HttpCache[u] = None

LEMMA DiskRead ==
  ASSUME NEW openings, TextsInv(openings), \A o \in openings : o.useCache,
         NEW s \in Stream, NEW u \in Url, Reads(s, u), tidy[s].mode = "NONE"
  PROVE  /\ file[s].mode = "READ" <=> OnDisk(u)
         /\ u \in File => fEasy[s] = None
         /\ file[s].mode = "READ" /\ file[s].bIsOpen =>
              \E w \in since[s][u] .. ver[u] : file[s].text = Body(u, w)
<1>1. /\ CustodyInv /\ UsesCache(s) /\ SlotSound(s) /\ InputTexts(s)
      /\ file[s] \in FileRecord
  <2>1. CustodyInv /\ SlotTexts(s, openings)
    BY DEF TextsInv, Texts
  <2> QED  BY <2>1, SlotKnown DEF SlotTexts
<1>2. CASE fEasy[s] # None
  <2>1. file[s].mode = "NONE" /\ st[s].sURL = u /\ u \notin File
    BY <1>1, <1>2 DEF SlotSound, Reads, SourceUrl, InputUrl, InputTexts, HttpTexts
  <2> QED  BY <2>1 DEF OnDisk
<1>3. CASE fEasy[s] = None
  <2>1. file[s].mode # "NONE" /\ file[s].sFilename = u /\ FileTexts(s) /\ u \in File
    BY <1>1, <1>3 DEF Reads, Free, SourceUrl, InputUrl, InputTexts, FileTexts
  <2>2. file[s].mode = "READ" => HttpCache[u] = None
    BY <1>1, <2>1 DEF UsesCache
  <2>3. file[s].mode # "READ" => HttpCache[u] # None
    BY <1>1, <2>1 DEF FileRecord, SlotSound, InMap
  <2>4. file[s].mode = "READ" /\ file[s].bIsOpen =>
          \E w \in since[s][u] .. ver[u] : file[s].text = Body(u, w)
    BY <2>1 DEF FileTexts, FileRead
  <2> QED  BY <1>3, <2>1, <2>2, <2>3, <2>4 DEF OnDisk
<1> QED  BY <1>2, <1>3

-----------------------------------------------------------------------------
(***************************************************************************)
(* The passes.  A pass reads what is offered at its URL.  A copy, and what *)
(* a steady server has, is still what the check has read when the          *)
(* handlers' pass reads it; of a file without a copy it may be a later     *)
(* version, which has come out since the check has opened the file.        *)
(***************************************************************************)
NothingPassesThrough == \A u \in Url : ~PassesThrough(u)

\* Every version after v has come out during the call.
CameOutAfter(v) ==
  \A x \in Version : v < x /\ x <= ver[html.url] => x \in html.published

SourceKnown(s) ==
  /\ Reads(s, html.url)
  /\ tidy[s].mode # "NONE" <=> html.pass = "tidied"
  /\ file[s].mode = "READ" => CameOutAfter(since[s][html.url])

PassOpen ==
  IF html.slot = None
  THEN /\ \A s \in Stream : Free(s)
       /\ html.pass # "idle" => html.fed = <<>>
  ELSE html.pass # "idle" /\ SourceKnown(html.slot)

CheckedVersion(c) ==
  /\ html.checked = Body(html.url, c) /\ CameOutAfter(c)
  /\ c <= ver[html.url]
  /\ html.slot # None => c <= since[html.slot][html.url]

CheckedKnown ==
  /\ ~Flawed(html.checked)
  /\ IF OnDisk(html.url) THEN \E c \in Version : CheckedVersion(c)
     ELSE html.checked = Offer(html.url)

PassTexts ==
  html.pass \in {"check", "handlers"} =>
    /\ html.fed # <<>> => IsPrefix(html.fed, SourceText(html.slot, html.url))
    /\ html.pass = "handlers" => CheckedKnown

Results ==
  /\ ~Flawed(html.fed)
  /\ html.pass # "idle" => html.ret = "none"
  /\ html.ret = "rejected" => html.published # {}
  /\ html.ret = "true" =>
       Whole(html.fed, html.url) \/ WholeTidied(html.fed, html.url)

\* What libxml and the cache need for a parse to succeed.
HtmlKeeps == ReaderCaches \subseteq {TRUE} /\ NothingPassesThrough

HtmlInv ==
  /\ HtmlKeeps /\ TextsInv(HtmlOpens) /\ HtmlPart
  /\ PassOpen /\ PassTexts /\ Results

LEMMA HtmlUse ==
  ASSUME HtmlKeeps
  PROVE  /\ HtmlOpens \subseteq Opens /\ SteadyUse(HtmlOpens)
         /\ \A o \in HtmlOpens : o.useCache
BY DEF HtmlKeeps, HtmlOpens, SteadyUse

LEMMA HtmlKnown ==
  ASSUME HtmlInv
  PROVE  /\ CustodyInv /\ HtmlKeeps /\ html \in HtmlRecord
         /\ html.pass # "idle" => html.url \in Url
         /\ html.fed \in Seq(Piece) /\ html.checked \in Seq(Piece)
         /\ html.slot \in Stream \cup {None}
         /\ \A u \in Url : ver[u] \in Version
         /\ \A s \in Stream, u \in Url : since[s][u] \in Version
         /\ Version \subseteq Nat
<1>1. CustodyInv /\ HtmlPart /\ HtmlKeeps
  BY DEF HtmlInv, TextsInv
<1>2. TypeOK
  BY <1>1 DEF CustodyInv, TidyTypeInv, TypeInv
<1>3. Version \subseteq Nat
  BY ServerAssumption DEF Version
<1> QED  BY <1>1, <1>2, <1>3 DEF HtmlPart, HtmlRecord, TypeOK

\* Every stream that is there is that of the pass.
LEMMA PassStream ==
  ASSUME HtmlInv, NEW s \in Stream, ~Free(s)
  PROVE  html.slot = s /\ html.pass # "idle" /\ SourceKnown(s) /\ html.url \in Url
<1>1. html.slot # None /\ html.slot \in Stream
  BY HtmlKnown DEF HtmlInv, PassOpen
<1>2. Stream = {s}
  BY HtmlKnown, SlotKnown, OneSlot
<1> QED  BY <1>1, <1>2, HtmlKnown DEF HtmlInv, PassOpen

\* What a raw pass reads stays, or begins to be known.
SourceGoesOn(s, u) ==
  SourceText(s, u)' = SourceText(s, u) \/ SourceText(s, u) = <<>>

FedKept(s, u) ==
  /\ Offer(u)' = Offer(u) /\ (OnDisk(u)' <=> OnDisk(u))
  /\ SourceGoesOn(s, u) /\ since'[s] = since[s]

LEMMA FedStays ==
  ASSUME HtmlInv, UNCHANGED <<html, ver>>, NEW s \in Stream, html.slot = s,
         NEW u, u = html.url, html.pass \in {"check", "handlers"} => FedKept(s, u)
  PROVE  PassTexts' /\ Results'
<1>1. Results'
  BY DEF HtmlInv, Results, Whole, WholeTidied, Flawed
<1>2. ASSUME html.pass \in {"check", "handlers"}, html.fed # <<>>
      PROVE  IsPrefix(html.fed, SourceText(s, u)')
  <2>1. IsPrefix(html.fed, SourceText(s, u))
    BY <1>2 DEF HtmlInv, PassTexts
  <2>2. SourceText(s, u) # <<>>
    <3> SUFFICES ASSUME SourceText(s, u) = <<>> PROVE FALSE
      OBVIOUS
    <3>1. Len(html.fed) <= 0
      BY <2>1, EmptySeq DEF IsPrefix
    <3>2. html.fed \in Seq(Piece) /\ Len(html.fed) \in Nat
      BY HtmlKnown, LenProperties
    <3>3. Len(html.fed) = 0
      BY <3>1, <3>2
    <3> QED  BY <1>2, <3>2, <3>3, EmptySeq
  <2> QED  BY <1>2, <2>1, <2>2 DEF FedKept, SourceGoesOn
<1>3. ASSUME html.pass = "handlers" PROVE CheckedKnown'
  <2>1. CheckedKnown /\ FedKept(s, u)
    BY <1>3 DEF HtmlInv, PassTexts
  <2>2. html' = html /\ ver' = ver /\ since'[s] = since[s]
    BY <2>1 DEF FedKept
  <2>3. ASSUME NEW c \in Version, CheckedVersion(c) PROVE CheckedVersion(c)'
    BY <2>2, <2>3 DEF CheckedVersion, CameOutAfter
  <2>4. /\ Offer(html.url)' = Offer(html.url)
        /\ OnDisk(html.url)' <=> OnDisk(html.url)
    BY <2>1, <2>2 DEF FedKept, Offer, OfferIn, OnDisk
  <2> QED  BY <2>1, <2>2, <2>3, <2>4 DEF CheckedKnown, Flawed
<1>4. html' = html /\ SourceText(html.slot, html.url)' = SourceText(s, u)'
  BY DEF SourceText, Offer, OfferIn
<1> QED  BY <1>1, <1>2, <1>3, <1>4 DEF PassTexts

\* A step of the stream of a pass.
LEMMA PassGoesOn ==
  ASSUME HtmlInv, NEW s \in Stream, ~Free(s), UNCHANGED <<html, ver>>,
         NEW u, u = html.url, Reads(s, u)',
         tidy'[s].mode # "NONE" <=> tidy[s].mode # "NONE",
         file'[s].mode = "READ" => file[s].mode = "READ" /\ since'[s] = since[s],
         html.pass = "tidied" \/ FedKept(s, u)
  PROVE  PassOpen' /\ PassTexts' /\ Results'
<1>1. html.slot = s /\ html.pass # "idle" /\ SourceKnown(s) /\ s # None
  BY PassStream, StreamAssumption
<1>2. Reads(s, html.url)'
  BY DEF Reads, SourceUrl, InputUrl
<1>3. PassOpen'
  BY <1>1, <1>2 DEF PassOpen, SourceKnown, CameOutAfter
<1> QED  BY <1>1, <1>3, FedStays

\* When the stream keeps its source, and the map its texts.
LEMMA SourceKept ==
  ASSUME NEW s \in Stream, NEW u, Reads(s, u), SourceStays(s),
         tidy'[s].mode = tidy[s].mode, tidy'[s].sURL = tidy[s].sURL
  PROVE  Reads(s, u)'
BY DEF Reads, SourceStays, SourceUrl, InputUrl, Free

FileStays(s) ==
  file[s].mode = "READ" /\ file[s].bIsOpen =>
    file'[s].bIsOpen /\ file'[s].text = file[s].text

LEMMA FedOn ==
  ASSUME NEW s \in Stream, NEW u \in Url, TextsStay, SourceStays(s), FileStays(s)
  PROVE  FedKept(s, u)
<1>1. Offer(u)' = Offer(u)
  BY OffersStay DEF OfferStays, Offer
<1>2. OnDisk(u)' <=> OnDisk(u)
  BY DEF OnDisk, TextsStay
<1>3. SourceGoesOn(s, u)
  BY <1>1 DEF SourceGoesOn, SourceText, SourceStays, FileStays
<1> QED  BY <1>1, <1>2, <1>3 DEF FedKept, SourceStays

\* A file that is open stays open, at the text it was opened at.
LEMMA ReadKeepsFile ==
  ASSUME CustodyInv, NEW s \in Stream, NEW n \in 1 .. MaxRead, ReadInput(s, n)
  PROVE  FileStays(s)
<1> DEFINE f == file[s]
<1>1. file \in [Stream -> FileRecord]
  BY SlotKnown
<1>2. CASE ReadDisk(s, n)
  <2>1. PICK text, k : file' = [file EXCEPT ![s] =
                         [f EXCEPT !.bIsOpen = TRUE, !.text = text,
                                   !.fTotalBytesRead = f.fTotalBytesRead + k]]
                       /\ text = IF f.bIsOpen THEN f.text
                                 ELSE Body(f.sFilename, ver[f.sFilename])
    BY <1>2 DEF ReadDisk
  <2> QED  BY <1>1, <2>1 DEF FileStays, FileRecord
<1>3. CASE ReadDiskFails(s) \/ UNCHANGED file
  BY <1>3 DEF ReadDiskFails, FileStays
<1>4. CASE ReadCopy(s, n)
  BY <1>4 DEF ReadCopy, FileStays
<1> QED  BY <1>2, <1>3, <1>4 DEF ReadInput, ReadFile

\* The DataSource of a pass.
LEMMA PassOpens ==
  ASSUME HtmlInv, NEW s \in Stream, NEW u \in Url, NEW tidied \in BOOLEAN,
         NEW cached \in ReaderCaches, OpenStream(s, DataSource(u, tidied, cached))
  PROVE  /\ TextsStay /\ Reads(s, u)' /\ Stream = {s} /\ s # None
         /\ since'[s] = ver /\ (tidy'[s].mode # "NONE" <=> tidied)
<1> DEFINE o == DataSource(u, tidied, cached)
<1>1. /\ o \in Opens /\ o \in HtmlOpens /\ o.url = u /\ o.tidy = tidied
      /\ ~PassesThrough(u)
  BY ReaderAssumption
     DEF HtmlInv, HtmlKeeps, NothingPassesThrough, DataSource, HtmlOpens, Opens
<1> HIDE DEF o
<1>2. TextsInv(HtmlOpens) /\ SteadyUse(HtmlOpens) /\ OpenStream(s, o)
  BY HtmlUse DEF HtmlInv, o
<1>3. TextsStay /\ Opened(s, o)
  BY <1>1, <1>2, TextsOpen
<1>4. /\ Reads(s, u)' /\ since'[s] = ver
      /\ (tidy'[s].mode # "NONE" <=> tidied)
  BY <1>1, <1>3 DEF Opened, Reads, TextsStay
<1>5. Stream = {s} /\ s # None
  BY HtmlKnown, SlotKnown, OneSlot, StreamAssumption
<1> QED  BY <1>3, <1>4, <1>5

LEMMA TextsParseHtml ==
  ASSUME HtmlInv, NEW s \in Stream, NEW u \in Url, NEW cached \in ReaderCaches,
         ParseHtml(s, u, cached)
  PROVE  PassOpen' /\ PassTexts' /\ Results'
<1>1. /\ html' = [NoParse EXCEPT !.pass = "check", !.slot = s, !.url = u,
                                 !.bUseCache = cached]
      /\ OpenStream(s, DataSource(u, FALSE, cached))
  BY DEF ParseHtml
<1>2. /\ html'.pass = "check" /\ html'.slot = s /\ html'.url = u
      /\ html'.fed = <<>> /\ html'.ret = "none"
  BY <1>1 DEF NoParse
<1>3. /\ TextsStay /\ Reads(s, u)' /\ tidy'[s].mode = "NONE" /\ s # None
      /\ since'[s] = ver
  BY <1>1, PassOpens
<1>4. PassOpen'
  <2>1. Reads(s, html.url)'
    BY <1>2, <1>3 DEF Reads, SourceUrl, InputUrl
  <2>2. ver' = ver /\ ver[u] \in Nat /\ Version \subseteq Nat
    BY <1>3, HtmlKnown DEF TextsStay
  <2>3. \A x \in Version : ~(since'[s][u] < x /\ x <= ver'[u])
    <3>1. since'[s][u] = ver[u] /\ ver'[u] = ver[u]
      BY <1>3, <2>2
    <3>2. \A x \in Version : ~(ver[u] < x /\ x <= ver[u])
      BY <2>2
    <3> QED  BY ONLY <3>1, <3>2
  <2> QED  BY <1>2, <1>3, <2>1, <2>3 DEF PassOpen, SourceKnown, CameOutAfter
<1>5. PassTexts' /\ Results'
  BY <1>2 DEF PassTexts, Results, Flawed
<1> QED  BY <1>4, <1>5

LEMMA TextsNextSource ==
  ASSUME HtmlInv, NEW s \in Stream, NextSource(s)
  PROVE  PassOpen' /\ PassTexts' /\ Results'
<1>1. /\ html.pass # "idle" /\ html.slot = None
      /\ OpenStream(s, SourceOfPass(html))
      /\ html' = [html EXCEPT !.slot = s]
  BY DEF NextSource
<1>2. /\ html \in HtmlRecord /\ html.bUseCache \in ReaderCaches /\ html.fed = <<>>
  BY <1>1 DEF HtmlInv, HtmlPart, PassOpen
<1>3. PICK u \in Url : u = html.url
  BY <1>1 DEF HtmlInv, HtmlPart
<1>4. /\ html'.slot = s /\ html'.pass = html.pass /\ html'.url = u
      /\ html'.fed = html.fed /\ html'.checked = html.checked
      /\ html'.ret = html.ret /\ html'.published = html.published
  BY <1>1, <1>2, <1>3 DEF HtmlRecord
<1>5. /\ TextsStay /\ Reads(s, u)' /\ s # None /\ since'[s] = ver
      /\ tidy'[s].mode # "NONE" <=> html.pass = "tidied"
  <2>1. OpenStream(s, DataSource(u, html.pass = "tidied", html.bUseCache))
    BY <1>1, <1>3 DEF SourceOfPass
  <2>2. PICK tidied \in BOOLEAN : tidied <=> html.pass = "tidied"
    OBVIOUS
  <2>3. OpenStream(s, DataSource(u, tidied, html.bUseCache))
    BY <2>1, <2>2
  <2> QED  BY <1>2, <2>2, <2>3, PassOpens
<1>6. ver' = ver /\ ver[u] \in Nat /\ Version \subseteq Nat
  BY <1>5, HtmlKnown DEF TextsStay
<1>7. PassOpen'
  <2>1. Reads(s, html.url)'
    BY <1>4, <1>5 DEF Reads, SourceUrl, InputUrl
  <2>2. \A x \in Version : ~(since'[s][u] < x /\ x <= ver'[u])
    BY <1>5, <1>6
  <2> QED  BY <1>1, <1>4, <1>5, <2>1, <2>2 DEF PassOpen, SourceKnown, CameOutAfter
<1>8. ASSUME html.pass = "handlers" PROVE CheckedKnown'
  <2>1. CheckedKnown
    BY <1>8 DEF HtmlInv, PassTexts
  <2>2. Offer(u)' = Offer(u) /\ (OnDisk(u)' <=> OnDisk(u))
    BY <1>5, OffersStay DEF OfferStays, Offer, OnDisk, TextsStay
  <2>3. ASSUME NEW c \in Version, CheckedVersion(c) PROVE CheckedVersion(c)'
    BY <1>3, <1>4, <1>5, <1>6, <2>3 DEF CheckedVersion, CameOutAfter
  <2>4. /\ Offer(html.url)' = Offer(u)' /\ (OnDisk(html.url)' <=> OnDisk(u)')
    BY <1>4 DEF Offer, OfferIn, OnDisk
  <2> QED  BY <1>3, <1>4, <2>1, <2>2, <2>3, <2>4 DEF CheckedKnown, Flawed
<1>9. PassTexts'
  BY <1>2, <1>4, <1>8 DEF PassTexts
<1>10. Results'
  BY <1>4, <1>3 DEF HtmlInv, Results, Flawed, Whole, WholeTidied
<1> QED  BY <1>7, <1>9, <1>10

LEMMA TextsReadSome ==
  ASSUME HtmlInv, NEW s \in Stream, ReadSome(s)
  PROVE  PassOpen' /\ PassTexts' /\ Results'
<1>1. /\ html.pass # "idle" /\ html.slot = s /\ UNCHANGED html
      /\ ReadPlain(s, MaxRead) \/ BeginTidyRead(s, MaxRead)
  BY DEF ReadSome, AtLoop
<1>2. /\ SourceKnown(s) /\ ~Free(s) /\ SlotSound(s) /\ s # None
      /\ tidy \in [Stream -> TidyRecord] /\ MaxRead \in 1 .. MaxRead
      /\ TextsInv(HtmlOpens) /\ CustodyInv
  BY <1>1, HtmlKnown, SlotKnown, StreamAssumption, ClientAssumption
     DEF HtmlInv, PassOpen, SourceKnown, Reads
<1>3. PICK u \in Url : u = html.url /\ Reads(s, u)
  BY <1>1, <1>2, HtmlKnown DEF SourceKnown
<1>4. CASE ReadPlain(s, MaxRead)
  <2>1. UNCHANGED <<tidy, calling>> /\ ReadInput(s, MaxRead)
    BY <1>4 DEF ReadPlain
  <2>2. TextsStay /\ SourceStays(s)
    BY <1>2, <2>1, TextsReads DEF SameTidy
  <2>3. Reads(s, u)' /\ FedKept(s, u)
    BY <1>2, <1>3, <2>1, <2>2, SourceKept, ReadKeepsFile, FedOn
  <2>4. ver' = ver /\ file'[s].mode = file[s].mode /\ since'[s] = since[s]
    BY <2>2 DEF TextsStay, SourceStays
  <2> QED  BY <1>1, <1>2, <1>3, <2>1, <2>3, <2>4, PassGoesOn
<1>5. CASE BeginTidyRead(s, MaxRead)
  <2>1. /\ tidy[s].status = "open" /\ UNCHANGED baseVars
        /\ tidy' = [tidy EXCEPT ![s].want = MaxRead]
    BY <1>5 DEF BeginTidyRead
  <2>2. tidy[s].mode # "NONE" /\ html.pass = "tidied"
    BY <1>2, <2>1 DEF SlotSound, SourceKnown
  <2>3. tidy'[s].mode = tidy[s].mode /\ tidy'[s].sURL = tidy[s].sURL
    BY <1>2, <2>1 DEF TidyRecord
  <2>4. SourceStays(s) /\ ver' = ver
    BY <2>1 DEF SourceStays, baseVars, vars
  <2>5. Reads(s, u)'
    BY <1>3, <2>3, <2>4, SourceKept
  <2>6. file'[s].mode = file[s].mode /\ since'[s] = since[s]
    BY <2>4 DEF SourceStays
  <2> QED  BY <1>1, <1>2, <1>3, <2>2, <2>3, <2>4, <2>5, <2>6, PassGoesOn
<1> QED  BY <1>1, <1>4, <1>5

LEMMA TextsCallStep ==
  ASSUME HtmlInv, CallStep, UNCHANGED html
  PROVE  PassOpen' /\ PassTexts' /\ Results'
<1>1. ReadStep /\ UNCHANGED <<file, tidy, calling, instance>>
  BY DEF CallStep
<1>2. PICK s \in Stream : fEasy[s] # None
  BY <1>1, HtmlKnown, StreamAssumption
     DEF ReadStep, Transfer, Header, Data, Complete, Fail, Performing, Running,
         TakeMessage, TakeFinished, TakeUnmodified, TakeRedirect, TakeError,
         Message, PerformAgain, EndRead, EndReadFromCache, CustodyInv,
         TidyTypeInv, TypeInv, TypeOK, CurrentExists, Open
<1>3. ~Free(s) /\ SourceKnown(s)
  BY <1>2, PassStream DEF Free
<1>4. PICK u \in Url : u = html.url /\ Reads(s, u)
  BY <1>3, PassStream DEF SourceKnown
<1>5. TextsStay /\ SourceStays(s)
  BY <1>1, TextsCall DEF HtmlInv
<1>6. FileStays(s)
  BY <1>1 DEF FileStays
<1>7. Reads(s, u)' /\ FedKept(s, u)
  BY <1>1, <1>4, <1>5, <1>6, SourceKept, FedOn
<1>8. ver' = ver /\ file'[s].mode = file[s].mode /\ since'[s] = since[s]
  BY <1>5 DEF TextsStay, SourceStays
<1> QED  BY <1>1, <1>3, <1>4, <1>7, <1>8, PassGoesOn

\* A TidyStream that mends goes on reading where it reads.
LEMMA TidySourceKept ==
  ASSUME NEW openings, TextsInv(openings), NEW s \in Stream, TidyReadStep(s),
         NEW u, Reads(s, u), tidy[s].mode # "NONE"
  PROVE  /\ Reads(s, u)' /\ tidy'[s].mode # "NONE" /\ ver' = ver
         /\ file'[s].mode = "READ" => file[s].mode = "READ" /\ since'[s] = since[s]
<1> DEFINE m == tidy[s]
<1>1. /\ CustodyInv /\ m \in TidyRecord /\ tidy \in [Stream -> TidyRecord]
      /\ m.sURL = u /\ m.mode \in {"TIDY", "CACHED"} /\ TidyTexts(s)
  BY SlotKnown DEF TextsInv, Texts, SlotTexts, TidyTexts, Reads, SourceUrl, TidyRecord
<1>2. CASE AskInput(s)
  <2>1. tidy' = tidy /\ calling' = calling /\ ReadInput(s, MaxRead)
    BY <1>2 DEF AskInput
  <2>2. TextsStay /\ SourceStays(s)
    BY <2>1, ClientAssumption, TextsReads DEF SameTidy
  <2>3. Reads(s, u)'
    BY <2>1, <2>2, SourceKept
  <2> QED  BY <2>1, <2>2, <2>3 DEF TextsStay, SourceStays
<1>3. CASE DeleteAtEnd(s) \/ DeleteOnError(s)
  <2>1. DeleteInput(s) /\ m.mode = "TIDY"
    BY <1>3 DEF DeleteAtEnd, DeleteOnError, Performs, DeleteInput
  <2>2. file'[s].mode = "NONE" /\ ver' = ver
    BY <1>3, <2>1, InputDeleted, TextsDeletesInput DEF InputDeletes, TextsKept
  <2>3. tidy'[s].mode = "TIDY" /\ tidy'[s].sURL = m.sURL
    BY <1>1, <1>3, <2>1 DEF DeleteAtEnd, DeleteOnError, TidyRecord
  <2> QED  BY <1>1, <2>2, <2>3 DEF Reads, SourceUrl, Free
<1>4. CASE UseTidiedCopy(s) \/ MendInput(s)
  <2>1. UNCHANGED <<file, since, ver>>
    BY <1>4 DEF UseTidiedCopy, MendInput, clientVars
  <2>2. tidy'[s].mode \in {"TIDY", "CACHED"} /\ tidy'[s].sURL = m.sURL
    <3>1. CASE UseTidiedCopy(s)
      <4>1. tidy' = [tidy EXCEPT ![s].mode = "CACHED",
                                 ![s].cacheObject = CopyFound(s), ![s].bTidied = TRUE]
        BY <3>1 DEF UseTidiedCopy
      <4> QED  BY <1>1, <4>1 DEF TidyRecord
    <3>2. CASE MendInput(s)
      <4>1. tidy' = [tidy EXCEPT ![s].bTidied = TRUE,
                                 ![s].outbuf = Tidy(m.sURL, m.docbuf),
                                 ![s].docbuf = <<>>]
        BY <3>2 DEF MendInput
      <4> QED  BY <1>1, <4>1 DEF TidyRecord
    <3> QED  BY <1>4, <3>1, <3>2
  <2> QED  BY <1>1, <2>1, <2>2 DEF Reads, SourceUrl, Free
<1>5. CASE DeliverBuffer(s) \/ DeliverCopy(s)
  <2>1. UNCHANGED <<file, since, ver>>
    BY <1>5 DEF DeliverBuffer, DeliverCopy, baseVars, vars, clientVars
  <2>2. tidy'[s].mode = m.mode /\ tidy'[s].sURL = m.sURL
    <3>1. PICK data : TidyReturns(s, data, m)
      BY <1>5 DEF DeliverBuffer, DeliverCopy
    <3>2. PICK read, told, all :
            tidy' = [tidy EXCEPT ![s] =
                      [m EXCEPT !.want = 0, !.asked = FALSE, !.fTotalBytesRead = read,
                                !.out = all, !.status = told]]
      BY <3>1 DEF TidyReturns
    <3> QED  BY <1>1, <3>2 DEF TidyRecord
  <2> QED  BY <1>1, <2>1, <2>2 DEF Reads, SourceUrl, Free
<1>6. m.mode # "PASSTROUGH"
  BY <1>1
<1> QED
  BY <1>2, <1>3, <1>4, <1>5, <1>6
     DEF TidyReadStep, AskAndPassOn, PassOn, PassErrorOn

LEMMA TextsTidySteps ==
  ASSUME HtmlInv, NEW s \in Stream, TidyReadStep(s), UNCHANGED html
  PROVE  PassOpen' /\ PassTexts' /\ Results'
<1>1. calling = s /\ s # None
  BY StreamAssumption
     DEF TidyReadStep, AskInput, DeleteAtEnd, DeleteOnError, UseTidiedCopy,
         MendInput, Mends, Performs, DeliverBuffer, DeliverCopy, AskAndPassOn,
         PassOn, PassErrorOn, Calls
<1>2. tidy[s].mode # "NONE"
  <2>1. tidy[s].status = "open"
    BY <1>1 DEF HtmlInv, TextsInv, Texts, SlotTexts
  <2> QED  BY <2>1, HtmlKnown, SlotKnown DEF SlotSound
<1>3. ~Free(s) /\ SourceKnown(s) /\ html.pass = "tidied"
  BY <1>2, PassStream DEF Free, SourceKnown
<1>4. PICK u : u = html.url /\ Reads(s, u)
  BY <1>3 DEF SourceKnown
<1>5. /\ Reads(s, u)' /\ tidy'[s].mode # "NONE" /\ ver' = ver
      /\ file'[s].mode = "READ" => file[s].mode = "READ" /\ since'[s] = since[s]
  BY <1>2, <1>4, TidySourceKept DEF HtmlInv
<1> QED  BY <1>2, <1>3, <1>4, <1>5, PassGoesOn

\* What the pass has been given is a part of what its stream reads.
LEMMA PassReads ==
  ASSUME HtmlInv, NEW s \in Stream, html.slot = s
  PROVE  /\ html.pass # "idle" /\ html.url \in Url /\ Reads(s, html.url)
         /\ SourceKnown(s) /\ TextsInv(HtmlOpens)
         /\ \A o \in HtmlOpens : o.useCache
         /\ (tidy[s].mode # "NONE" <=> html.pass = "tidied")
         /\ Got(s) \in Seq(Piece)
         /\ html.pass = "tidied" =>
              /\ PartOf(Got(s), Told(s), Offer(html.url)) /\ ~Flawed(Got(s))
              /\ Told(s) = "eof" => HttpCache[html.url] # None
         /\ html.pass # "tidied" =>
              /\ SourceText(s, html.url) \in Seq(Piece)
              /\ PartOf(Got(s), Told(s), SourceText(s, html.url))
<1>1. /\ html.pass # "idle" /\ SourceKnown(s) /\ html.url \in Url
      /\ TextsInv(HtmlOpens) /\ \A o \in HtmlOpens : o.useCache
      /\ (tidy[s].mode # "NONE" <=> html.pass = "tidied")
  BY HtmlKnown, HtmlUse, StreamAssumption DEF HtmlInv, PassOpen, SourceKnown
<1>2. CASE html.pass = "tidied"
  <2>1. tidy[s].mode \notin {"NONE", "LOST"} /\ tidy[s].out \in Seq(Piece)
    <3>1. SlotTexts(s, HtmlOpens) /\ tidy[s].mode # "NONE"
      BY <1>1, <1>2 DEF TextsInv, Texts
    <3>2. tidy[s].out \in Seq(Piece)
      BY HtmlKnown, SlotKnown, TidyMembers DEF CustodyInv
    <3> QED  BY <3>1, <3>2 DEF SlotTexts, TidyTexts
  <2>2. Got(s) = tidy[s].out /\ Told(s) = tidy[s].status
    BY <2>1 DEF Got, Told, IsTidied
  <2> QED  BY <1>1, <1>2, <2>1, <2>2, TidyReadsOffer DEF SourceKnown
<1>3. CASE html.pass # "tidied"
  BY <1>1, <1>3, ReadsSource DEF SourceKnown
<1> QED  BY <1>1, <1>2, <1>3

LEMMA TextsFeed ==
  ASSUME HtmlInv, NEW s \in Stream, Feed(s)
  PROVE  PassOpen' /\ PassTexts' /\ Results'
<1>1. /\ html.slot = s /\ ~Flawed(NewText(s)) /\ UNCHANGED tidyVars
      /\ html' = [html EXCEPT !.fed = Got(s)] /\ s # None
  BY StreamAssumption DEF Feed, AtLoop
<1>2. /\ html \in HtmlRecord /\ html.fed \in Seq(Piece)
      /\ html.pass \in {"check", "handlers", "tidied"}
      /\ Got(s) \in Seq(Piece) /\ SourceKnown(s)
      /\ html.pass = "tidied" => ~Flawed(Got(s))
  BY <1>1, HtmlKnown, PassReads DEF HtmlRecord
<1>3. PICK u \in Url : u = html.url
  BY <1>1, PassReads
<1>4. /\ html'.slot = s /\ html'.pass = html.pass /\ html'.url = u
      /\ html'.fed = Got(s) /\ html'.checked = html.checked
      /\ html'.ret = html.ret /\ html'.published = html.published
  BY <1>1, <1>2, <1>3 DEF HtmlRecord
<1>5. /\ ~Flawed(html.fed) /\ html.ret = "none"
  BY <1>2 DEF HtmlInv, Results
<1>6. html.pass # "tidied" =>
        /\ SourceText(s, u) \in Seq(Piece) /\ IsPrefix(Got(s), SourceText(s, u))
        /\ IsPrefix(html.fed, SourceText(s, u))
  <2> SUFFICES ASSUME html.pass # "tidied"
               PROVE  /\ SourceText(s, u) \in Seq(Piece)
                      /\ IsPrefix(Got(s), SourceText(s, u))
                      /\ IsPrefix(html.fed, SourceText(s, u))
    OBVIOUS
  <2>1. SourceText(s, u) \in Seq(Piece) /\ IsPrefix(Got(s), SourceText(s, u))
    BY <1>1, <1>3, PassReads DEF PartOf
  <2>2. html.fed # <<>> => IsPrefix(html.fed, SourceText(s, u))
    BY <1>1, <1>2, <1>3 DEF HtmlInv, PassTexts
  <2> QED  BY <2>1, <2>2, AllAndNothing
<1>7. ~Flawed(Got(s))
  <2>1. CASE html.pass # "tidied"
    BY <1>1, <1>2, <1>5, <1>6, <2>1, FlawIsNew DEF NewText
  <2> QED  BY <1>2, <2>1
<1>8. Results'
  BY <1>4, <1>5, <1>7 DEF Results, Flawed
<1>9. UNCHANGED <<heap, HttpCache, ver, fEasy, st, since, file, tidy>>
  BY <1>1 DEF tidyVars, vars, handlerVars
<1>10. PassOpen'
  <2>1. SourceKnown(s)'
    BY <1>2, <1>3, <1>4, <1>9
       DEF SourceKnown, Reads, SourceUrl, InputUrl, Free, CameOutAfter
  <2> QED  BY <1>1, <1>2, <1>4, <2>1 DEF PassOpen
<1>11. PassTexts'
  <2>1. SourceText(html.slot, html.url)' = SourceText(s, u)
    BY <1>4, <1>9 DEF SourceText, Offer, OfferIn
  <2>2. ASSUME html.pass = "handlers" PROVE CheckedKnown'
    <3>1. CheckedKnown
      BY <2>2 DEF HtmlInv, PassTexts
    <3>2. ASSUME NEW c \in Version, CheckedVersion(c) PROVE CheckedVersion(c)'
      BY <1>1, <1>3, <1>4, <1>9, <3>2 DEF CheckedVersion, CameOutAfter
    <3>3. /\ Offer(html.url)' = Offer(html.url)
          /\ OnDisk(html.url)' <=> OnDisk(html.url)
      BY <1>3, <1>4, <1>9 DEF Offer, OfferIn, OnDisk
    <3> QED  BY <1>4, <3>1, <3>2, <3>3 DEF CheckedKnown, Flawed
  <2> QED  BY <1>2, <1>4, <1>6, <2>1, <2>2 DEF PassTexts
<1> QED  BY <1>8, <1>10, <1>11

\* What the handlers' pass reads: nothing yet, what the check has read, or a
\* version that has come out during the call.
LEMMA HandlersText ==
  ASSUME HtmlInv, NEW s \in Stream, html.slot = s, html.pass = "handlers"
  PROVE  \/ SourceText(s, html.url) = <<>>
         \/ SourceText(s, html.url) = html.checked
         \/ \E v \in html.published : SourceText(s, html.url) = Body(html.url, v)
<1>1. PICK u \in Url : u = html.url
  BY PassReads
<1>2. Reads(s, u) /\ tidy[s].mode = "NONE" /\ TextsInv(HtmlOpens) /\ CheckedKnown
  BY <1>1, PassReads DEF HtmlInv, PassTexts
<1>3. /\ file[s].mode = "READ" <=> OnDisk(u)
      /\ file[s].mode = "READ" /\ file[s].bIsOpen =>
           \E w \in since[s][u] .. ver[u] : file[s].text = Body(u, w)
  BY <1>2, PassReads, DiskRead
<1>4. CASE ~OnDisk(u)
  BY <1>1, <1>2, <1>3, <1>4 DEF SourceText, CheckedKnown
<1>5. CASE OnDisk(u) /\ file[s].bIsOpen
  <2>1. PICK w \in since[s][u] .. ver[u] : SourceText(s, u) = Body(u, w)
    BY <1>3, <1>5 DEF SourceText
  <2>2. PICK c \in Version : /\ html.checked = Body(u, c) /\ CameOutAfter(c)
                             /\ c <= since[s][u]
    BY <1>1, <1>2, <1>5, StreamAssumption DEF CheckedKnown, CheckedVersion
  <2>3. /\ since[s][u] \in Version /\ ver[u] \in Version /\ Version \subseteq Nat
        /\ Version = 1 .. MaxVer /\ MaxVer \in Nat
    BY HtmlKnown, ServerAssumption DEF Version
  <2>4. w \in Version /\ w <= ver[u] /\ (w = c \/ c < w)
    BY <2>1, <2>2, <2>3
  <2> QED  BY <1>1, <2>1, <2>2, <2>4 DEF CameOutAfter
<1>6. CASE OnDisk(u) /\ ~file[s].bIsOpen
  BY <1>1, <1>3, <1>6 DEF SourceText
<1> QED  BY <1>4, <1>5, <1>6

\* libxml has no quarrel with what its check has accepted, nor with what
\* libtidy has mended.
LEMMA OnlyCheckRejects ==
  ASSUME HtmlInv, NEW s \in Stream, html.slot = s, Rejected(s)
  PROVE  html.pass = "check" \/ html.published # {}
<1>1. html.pass # "idle" /\ html \in HtmlRecord /\ Got(s) \in Seq(Piece)
  BY HtmlKnown, PassReads
<1>2. Flawed(Got(s))
  <2>1. Len(html.fed) \in Nat
    BY HtmlKnown, LenProperties
  <2> QED  BY <1>1, <2>1, NewIsFlawed DEF Rejected, NewText
<1>3. html.pass # "tidied"
  BY <1>2, PassReads
<1>4. ASSUME html.pass = "handlers" PROVE html.published # {}
  <2>1. Flawed(SourceText(s, html.url))
    BY <1>1, <1>2, <1>3, PassReads, NoFlawInPart DEF PartOf
  <2>2. ~Flawed(<<>>)
    BY DEF Flawed
  <2>3. ~Flawed(html.checked)
    BY <1>4 DEF HtmlInv, PassTexts, CheckedKnown
  <2> QED  BY <1>4, <2>1, <2>2, <2>3, HandlersText
<1> QED  BY <1>1, <1>3, <1>4 DEF HtmlRecord

\* What the handlers' pass has read to the end.
LEMMA HandlersGetAll ==
  ASSUME HtmlInv, NEW s \in Stream, html.slot = s, html.pass = "handlers",
         Accepted(s)
  PROVE  Whole(html.fed, html.url) \/ WholeTidied(html.fed, html.url)
<1> DEFINE u == IF file[s].mode # "NONE" THEN file[s].sFilename ELSE st[s].sURL
<1>1. /\ Reads(s, html.url) /\ tidy[s].mode = "NONE" /\ TextsInv(HtmlOpens)
      /\ html.url \in Url
  BY PassReads
<1>2. html.fed = out[s] /\ status[s] = "eof"
  BY <1>1 DEF Accepted, Got, Told, IsTidied
<1>3. u = html.url
  <2>1. fEasy[s] # None => file[s].mode = "NONE"
    BY HtmlKnown, SlotKnown DEF SlotSound
  <2> QED  BY <1>1, <2>1 DEF Reads, Free, SourceUrl, InputUrl
<1>4. \/ \E w \in since[s][html.url] .. MaxVer : out[s] = Body(html.url, w)
      \/ WholeTidied(out[s], html.url)
  BY <1>1, <1>2, <1>3, ReadToEnd
<1>5. since[s][html.url] \in Version
  BY <1>1, HtmlKnown
<1>6. \A w \in since[s][html.url] .. MaxVer : w \in Version
  BY <1>5, ServerAssumption DEF Version
<1> QED  BY <1>2, <1>4, <1>6 DEF Whole

\* The end of a pass leaves a file without a copy, or with the one it had.
LEMMA CloseKeepsDisk ==
  ASSUME HtmlInv, NEW s \in Stream, html.slot = s, Closes(s), NEW u, u = html.url
  PROVE  OnDisk(u)' <=> OnDisk(u)
<1> SUFFICES ASSUME u \in File PROVE HttpCache' = HttpCache
  BY DEF OnDisk
<1>1. CASE DeletePlain(s)
  <2>1. tidy[s].mode = "NONE"
    BY <1>1 DEF DeletePlain
  <2>2. fEasy[s] = None
    BY <2>1, PassReads, DiskRead
  <2> QED  BY <1>1, <2>2 DEF DeletePlain, DeleteInput, Delete, CloseFile
<1>2. CASE DeletePassThrough(s)
  BY <1>2, PassReads DEF DeletePassThrough, Reads
<1>3. CASE DeleteTidied(s)
  BY <1>3 DEF DeleteTidied, baseVars, vars, handlerVars
<1>4. CASE DeleteCached(s)
  BY <1>4 DEF DeleteCached
<1> QED  BY <1>1, <1>2, <1>3, <1>4 DEF Closes

\* What the check has accepted, when the handlers' pass begins.
LEMMA AcceptedChecked ==
  ASSUME HtmlInv, NEW s \in Stream, html.slot = s, Accepted(s)
  PROVE  IF OnDisk(html.url)
         THEN \E c \in Version : /\ html.fed = Body(html.url, c) /\ CameOutAfter(c)
                                 /\ c <= ver[html.url]
         ELSE html.fed = Offer(html.url)
<1>1. PICK u \in Url : u = html.url
  BY PassReads
<1>2. html.fed = Got(s) /\ Told(s) = "eof" /\ SourceKnown(s) /\ TextsInv(HtmlOpens)
  BY PassReads DEF Accepted
<1>3. CASE html.pass = "tidied"
  <2>1. html.fed = Offer(u) /\ HttpCache[u] # None
    BY <1>1, <1>2, <1>3, PassReads DEF PartOf
  <2> QED  BY <1>1, <2>1 DEF OnDisk
<1>4. CASE html.pass # "tidied"
  <2>1. html.fed = SourceText(s, u) /\ Reads(s, u) /\ tidy[s].mode = "NONE"
    BY <1>1, <1>2, <1>4, PassReads DEF PartOf
  <2>2. /\ file[s].mode = "READ" <=> OnDisk(u)
        /\ file[s].mode = "READ" /\ file[s].bIsOpen =>
             \E w \in since[s][u] .. ver[u] : file[s].text = Body(u, w)
    BY <1>2, <2>1, PassReads, DiskRead
  <2>3. CASE OnDisk(u)
    <3>1. file[s].bIsOpen
      <4>1. status[s] = "eof" /\ file[s].sFilename = u /\ FileTexts(s)
        <5>1. SlotTexts(s, HtmlOpens) /\ SlotSound(s)
          BY <1>2, HtmlKnown, SlotKnown DEF TextsInv, Texts
        <5> QED
          BY <1>2, <2>1, <2>2, <2>3, <5>1
             DEF Told, IsTidied, SlotTexts, InputTexts, SlotSound, Reads,
                 SourceUrl, InputUrl
      <4> QED  BY <2>2, <2>3, <4>1 DEF FileTexts, FileRead
    <3>2. PICK w \in since[s][u] .. ver[u] : html.fed = Body(u, w)
      BY <2>1, <2>2, <2>3, <3>1 DEF SourceText
    <3>3. CameOutAfter(since[s][u])
      BY <1>1, <1>2, <2>2, <2>3 DEF SourceKnown
    <3>4. /\ since[s][u] \in Version /\ ver[u] \in Version /\ Version \subseteq Nat
          /\ Version = 1 .. MaxVer /\ MaxVer \in Nat
      BY HtmlKnown, ServerAssumption DEF Version
    <3>5. w \in Version /\ w <= ver[u] /\ \A x \in Version : w < x => since[s][u] < x
      BY <3>2, <3>4
    <3>6. CameOutAfter(w)
      BY <3>3, <3>5 DEF CameOutAfter
    <3> QED  BY <1>1, <2>3, <3>2, <3>5, <3>6
  <2>4. CASE ~OnDisk(u)
    BY <1>1, <2>1, <2>2, <2>4 DEF SourceText
  <2> QED  BY <2>3, <2>4
<1> QED  BY <1>3, <1>4

LEMMA TextsEndPass ==
  ASSUME HtmlInv, NEW s \in Stream, EndPass(s)
  PROVE  PassOpen' /\ PassTexts' /\ Results'
<1>1. html.slot = s /\ Closes(s)
  BY HtmlKnown, PassesRead DEF EndPass, AtLoop
<1>2. /\ html.pass \in {"check", "handlers", "tidied"} /\ html.url \in Url
      /\ html \in HtmlRecord /\ Reads(s, html.url)
      /\ html.ret = "none" /\ ~Flawed(html.fed)
  BY <1>1, HtmlKnown, PassReads DEF HtmlRecord, HtmlInv, Results
<1>3. PICK u \in Url : u = html.url
  BY <1>2
<1>4. /\ Offer(u)' = Offer(u) /\ (OnDisk(u)' <=> OnDisk(u))
      /\ ver' = ver /\ \A t \in Stream : Free(t)'
  <2>1. OfferStays(SourceUrl(s)) /\ Free(s)' /\ ver' = ver
    BY <1>1, TextsCloses DEF HtmlInv, TextsKept
  <2>2. Stream = {s}
    BY HtmlKnown, SlotKnown, OneSlot
  <2>3. Offer(u)' = Offer(u)
    BY <1>2, <1>3, <2>1 DEF Reads, OfferStays, Offer
  <2> QED  BY <1>1, <1>3, <2>1, <2>2, <2>3, CloseKeepsDisk
<1>5. ASSUME NEW ret \in {"true", "rejected", "unreadable"}, Finish(ret),
             ret = "true" => Whole(html.fed, html.url) \/ WholeTidied(html.fed, html.url),
             ret = "rejected" => html.published # {}
      PROVE  PassOpen' /\ PassTexts' /\ Results'
  <2>1. /\ html'.pass = "idle" /\ html'.slot = None /\ html'.url = html.url
        /\ html'.fed = html.fed /\ html'.ret = ret
        /\ html'.published = html.published
    BY <1>5 DEF Finish, NoParse
  <2>2. Results'
    BY <1>2, <1>5, <2>1 DEF Results, Flawed, Whole, WholeTidied
  <2> QED  BY <1>4, <2>1, <2>2 DEF PassOpen, PassTexts
<1>6. ASSUME NEW pass \in {"handlers", "tidied"}, Then(pass),
             pass = "handlers" => Accepted(s)
      PROVE  PassOpen' /\ PassTexts' /\ Results'
  <2>1. /\ html'.pass = pass /\ html'.slot = None /\ html'.url = u
        /\ html'.fed = <<>> /\ html'.checked = html.fed /\ html'.ret = "none"
        /\ html'.published = html.published
    BY <1>2, <1>3, <1>6 DEF Then, HtmlRecord
  <2>2. ASSUME pass = "handlers" PROVE CheckedKnown'
    <3>1. IF OnDisk(u)
          THEN \E c \in Version : /\ html.fed = Body(u, c) /\ CameOutAfter(c)
                                  /\ c <= ver[u]
          ELSE html.fed = Offer(u)
      BY <1>1, <1>3, <1>6, <2>2, AcceptedChecked
    <3>2. ASSUME NEW c \in Version, html.fed = Body(u, c), CameOutAfter(c), c <= ver[u]
          PROVE  CheckedVersion(c)'
      BY <1>3, <1>4, <2>1, <3>2 DEF CheckedVersion, CameOutAfter
    <3>3. /\ Offer(html.url)' = Offer(u) /\ (OnDisk(html.url)' <=> OnDisk(u))
      BY <1>4, <2>1 DEF Offer, OfferIn, OnDisk
    <3> QED  BY <1>2, <2>1, <3>1, <3>2, <3>3 DEF CheckedKnown, Flawed
  <2>3. PassTexts'
    BY <2>1, <2>2 DEF PassTexts
  <2>4. Results'
    BY <2>1 DEF Results, Flawed
  <2> QED  BY <1>4, <2>1, <2>3, <2>4 DEF PassOpen
<1>7. CASE Accepted(s) /\ IF html.pass = "handlers" THEN Finish("true") ELSE Then("handlers")
  BY <1>1, <1>5, <1>6, <1>7, HandlersGetAll
<1>8. CASE Rejected(s) /\ IF html.pass = "check" THEN Then("tidied") ELSE Finish("rejected")
  BY <1>1, <1>5, <1>6, <1>8, OnlyCheckRejects
<1>9. CASE Unreadable(s) /\ IF html.pass = "check" THEN Then("tidied") ELSE Finish("unreadable")
  BY <1>5, <1>6, <1>9
<1> QED  BY <1>7, <1>8, <1>9 DEF EndPass

\* A file changes, while it is read or not.
LEMMA TextsChange ==
  ASSUME HtmlInv, NEW w \in Url, Change(w)
  PROVE  PassOpen' /\ PassTexts' /\ Results'
<1>1. /\ w \in File /\ ver' = [ver EXCEPT ![w] = @ + 1]
      /\ UNCHANGED <<heap, HttpCache, fEasy, st, since, file, tidy>>
  BY DEF Change, Publish, ServerUpdate, handlerVars, clientVars, HtmlInv, TextsInv,
         SteadyServers
<1>2. /\ html'.pass = html.pass /\ html'.slot = html.slot /\ html'.url = html.url
      /\ html'.fed = html.fed /\ html'.checked = html.checked /\ html'.ret = html.ret
      /\ html.published \subseteq html'.published
      /\ html.pass # "idle" /\ html.url = w => ver'[w] \in html'.published
  <2>1. html \in HtmlRecord
    BY HtmlKnown
  <2> QED  BY <2>1 DEF Change, HtmlRecord
<1>3. /\ \A u \in Url : ver'[u] = IF u = w THEN ver[u] + 1 ELSE ver[u]
      /\ \A u \in Url : ver[u] \in Nat
      /\ \A s \in Stream, u \in Url : since[s][u] \in Nat
      /\ Version \subseteq Nat
  <2>1. ver \in [Url -> Version]
    BY HtmlKnown DEF CustodyInv, TidyTypeInv, TypeInv, TypeOK
  <2> QED  BY <1>1, <2>1, HtmlKnown
<1>4. Results'
  BY <1>2 DEF HtmlInv, Results, Flawed, Whole, WholeTidied
<1>5. CASE html.pass = "idle"
  <2>1. PassOpen'
    BY <1>1, <1>2, <1>5 DEF HtmlInv, PassOpen, Free
  <2> QED  BY <1>2, <1>4, <1>5, <2>1 DEF PassTexts
<1>6. CASE html.pass # "idle"
  <2>1. PICK u \in Url : u = html.url
    BY <1>6, HtmlKnown
  <2>2. ASSUME NEW c \in Nat, CameOutAfter(c) PROVE CameOutAfter(c)'
    <3> SUFFICES ASSUME NEW x \in Version, c < x, x <= ver'[u]
                 PROVE  x \in html'.published
      BY <1>2, <2>1 DEF CameOutAfter
    <3>1. x \in Nat /\ (x <= ver[u] \/ (u = w /\ x = ver'[u]))
      BY <1>3
    <3> QED  BY <1>2, <1>6, <2>1, <2>2, <3>1 DEF CameOutAfter
  <2>3. PassOpen'
    <3>1. CASE html.slot = None
      BY <1>1, <1>2, <3>1 DEF HtmlInv, PassOpen, Free
    <3>2. CASE html.slot # None
      <4>1. PICK s \in Stream : s = html.slot
        BY <3>2, HtmlKnown
      <4>2. SourceKnown(s)
        BY <3>2, <4>1 DEF HtmlInv, PassOpen
      <4>3. Reads(s, html.url)'
        BY <1>1, <1>2, <4>2 DEF SourceKnown, Reads, SourceUrl, InputUrl, Free
      <4>4. file'[s].mode = "READ" => CameOutAfter(since[s][u])'
        BY <1>1, <1>3, <2>1, <2>2, <4>2 DEF SourceKnown
      <4>5. SourceKnown(s)'
        BY <1>1, <1>2, <2>1, <4>2, <4>3, <4>4 DEF SourceKnown, CameOutAfter
      <4> QED  BY <1>2, <1>6, <3>2, <4>1, <4>5 DEF PassOpen
    <3> QED  BY <3>1, <3>2
  <2>4. ~OnDisk(u) => Offer(u)' = Offer(u)
    BY <1>1, <1>3 DEF OnDisk, Offer, OfferIn
  <2>5. /\ OnDisk(html.url)' <=> OnDisk(u)
        /\ Offer(html.url)' = Offer(u)'
    BY <1>1, <1>2, <2>1 DEF OnDisk, Offer, OfferIn
  <2>6. ASSUME html.pass \in {"check", "handlers"}, html.fed # <<>>
        PROVE  IsPrefix(html.fed, SourceText(html.slot, html.url)')
    <3>1. html.slot # None
      BY <1>6, <2>6 DEF HtmlInv, PassOpen
    <3>2. PICK s \in Stream : s = html.slot
      BY <3>1, HtmlKnown
    <3>3. Reads(s, u) /\ tidy[s].mode = "NONE" /\ TextsInv(HtmlOpens)
      BY <2>1, <2>6, <3>2, PassReads
    <3>4. file[s].mode = "READ" <=> OnDisk(u)
      BY <3>2, <3>3, PassReads, DiskRead
    <3>5. SourceText(html.slot, html.url)' = SourceText(s, u)
      BY <1>1, <1>2, <2>1, <2>4, <2>5, <3>2, <3>4 DEF SourceText
    <3> QED  BY <2>1, <2>6, <3>2, <3>5 DEF HtmlInv, PassTexts
  <2>7. ASSUME html.pass = "handlers" PROVE CheckedKnown'
    <3>1. CheckedKnown
      BY <2>7 DEF HtmlInv, PassTexts
    <3>2. ASSUME NEW c \in Version, CheckedVersion(c) PROVE CheckedVersion(c)'
      <4>1. c \in Nat /\ c <= ver[u] /\ ver[u] <= ver'[u] /\ ver[u] \in Nat /\ ver'[u] \in Nat
        BY <1>3, <2>1, <3>2 DEF CheckedVersion
      <4>2. c <= ver'[u] /\ CameOutAfter(c)'
        BY <2>2, <3>2, <4>1 DEF CheckedVersion
      <4> QED  BY <1>1, <1>2, <2>1, <3>2, <4>2 DEF CheckedVersion
    <3> QED  BY <1>2, <2>1, <2>4, <2>5, <3>1, <3>2 DEF CheckedKnown, Flawed
  <2>8. PassTexts'
    BY <1>2, <2>6, <2>7 DEF PassTexts
  <2> QED  BY <1>4, <2>3, <2>8
<1> QED  BY <1>5, <1>6

\* The application shuts down, or nothing happens.
LEMMA TextsRest ==
  ASSUME HtmlInv, UNCHANGED html,
         (html.pass = "idle" /\ DestroyInstance) \/ UNCHANGED tidyVars
  PROVE  PassOpen' /\ PassTexts' /\ Results'
<1>1. Results'
  BY DEF HtmlInv, Results, Whole, WholeTidied, Flawed
<1>2. CASE html.pass = "idle" /\ DestroyInstance
  <2>1. UNCHANGED <<fEasy, file, tidy>>
    BY <1>2 DEF DestroyInstance
  <2>2. PassOpen'
    BY <1>2, <2>1 DEF HtmlInv, PassOpen, Free
  <2> QED  BY <1>1, <1>2, <2>2 DEF PassTexts
<1>3. CASE UNCHANGED tidyVars
  <2>1. UNCHANGED <<heap, HttpCache, ver, fEasy, st, since, file, tidy>>
    BY <1>3 DEF tidyVars, vars, handlerVars
  <2>2. PassOpen'
    BY <2>1
       DEF HtmlInv, PassOpen, SourceKnown, Reads, SourceUrl, InputUrl, Free,
           CameOutAfter
  <2>3. ASSUME NEW c, CheckedVersion(c) PROVE CheckedVersion(c)'
    BY <2>1, <2>3 DEF CheckedVersion, CameOutAfter
  <2>4. CheckedKnown => CheckedKnown'
    BY <2>1, <2>3 DEF CheckedKnown, Flawed, Offer, OfferIn, OnDisk
  <2>5. SourceText(html.slot, html.url)' = SourceText(html.slot, html.url)
    BY <2>1 DEF SourceText, Offer, OfferIn
  <2> QED  BY <1>1, <2>2, <2>4, <2>5 DEF HtmlInv, PassTexts
<1> QED  BY <1>2, <1>3

LEMMA HtmlTextsStep ==
  ASSUME HtmlInv, [HtmlNext]_htmlVars
  PROVE  HtmlInv'
<1>1. TextsInv(HtmlOpens)'
  <2>1. ReadingStep(HtmlOpens)
    BY HtmlKnown, HtmlSteps, PassesRead DEF HtmlInv, EndPass, ReadingStep
  <2> QED  BY <2>1, HtmlUse, TextsStep DEF HtmlInv
<1>2. HtmlPart' /\ HtmlKeeps'
  BY HtmlKnown, HtmlPartStep DEF HtmlInv, CustodyInv, HtmlKeeps, NothingPassesThrough
<1>3. PassOpen' /\ PassTexts' /\ Results'
  <2>1. ASSUME NEW s \in Stream, PassStep(s)
        PROVE  PassOpen' /\ PassTexts' /\ Results'
    BY <2>1, TextsReadSome, TextsFeed, TextsEndPass, TextsNextSource DEF PassStep
  <2>2. CASE StreamStep
    BY <2>2, TextsCallStep, TextsTidySteps DEF StreamStep
  <2>3. CASE Destroy \/ UNCHANGED htmlVars
    BY <2>3, TextsRest DEF Destroy, htmlVars
  <2> QED  BY <2>1, <2>2, <2>3, TextsParseHtml, TextsChange DEF HtmlNext
<1> QED  BY <1>1, <1>2, <1>3 DEF HtmlInv

LEMMA HtmlTextsInit ==
  ASSUME HtmlKeeps, SteadyServers, OneAtATime, NoRedirection, HtmlInit
  PROVE  HtmlInv
<1>1. TextsInv(HtmlOpens) /\ HtmlPart
  BY TextsInit, HtmlInitPart DEF HtmlInit
<1>2. /\ html.pass = "idle" /\ html.slot = None /\ html.fed = <<>>
      /\ html.ret = "none"
  BY DEF HtmlInit, NoParse
<1>3. PassOpen
  BY <1>2 DEF PassOpen, HtmlInit, TidyInit, Init, FileInit, NoFile, NoTidy, Free
<1>4. PassTexts /\ Results
  BY <1>2 DEF PassTexts, Results, Flawed
<1> QED  BY <1>1, <1>3, <1>4 DEF HtmlInv

(***************************************************************************)
(* Parses whose servers keep to what their answers say, of documents whose *)
(* names TidyStream does not exempt from mending.  Files change at any     *)
(* time, between the passes of a call and while one reads them.            *)
(***************************************************************************)
SteadyParses == HtmlSequential /\ SteadyServers /\ NothingPassesThrough

LEMMA HtmlInvariant == SteadyParses => []HtmlInv
<1>1. SteadyServers /\ HtmlKeeps /\ OneAtATime /\ NoRedirection /\ HtmlInit => HtmlInv
  BY HtmlTextsInit
<1>2. HtmlInv /\ [HtmlNext]_htmlVars => HtmlInv'
  BY HtmlTextsStep
<1>3. SteadyParses => SteadyServers /\ HtmlKeeps /\ OneAtATime /\ NoRedirection /\ HtmlSpec
  BY DEF SteadyParses, HtmlSequential, HtmlKeeps
<1> QED  BY <1>1, <1>2, <1>3, PTL DEF HtmlSpec

\* The pass whose events the application gets reads, from its beginning, the
\* text that the check had found to be valid ("If we have a valid document,
\* setup sax handler to recieve events", XmlReader.cpp:659), or one version
\* that has come out since the call was made; never an older one, although each
\* pass opens the document anew and files change in between.
THEOREM HandlersCorrect == SteadyParses => []HandlersGetCheckedOrNewer
<1>1. HtmlInv => HandlersGetCheckedOrNewer
  <2> SUFFICES ASSUME HtmlInv, html.pass = "handlers"
               PROVE  \/ IsPrefix(html.fed, html.checked)
                      \/ \E v \in html.published : IsPrefix(html.fed, Body(html.url, v))
    BY DEF HandlersGetCheckedOrNewer
  <2>1. CASE html.fed = <<>>
    BY <2>1, HtmlKnown, AllAndNothing
  <2>2. CASE html.fed # <<>>
    <3>1. PICK s \in Stream : html.slot = s
      BY <2>2, HtmlKnown DEF HtmlInv, PassOpen
    <3>2. IsPrefix(html.fed, SourceText(s, html.url))
      BY <2>2, <3>1 DEF HtmlInv, PassTexts
    <3>3. SourceText(s, html.url) # <<>>
      <4> SUFFICES ASSUME SourceText(s, html.url) = <<>> PROVE FALSE
        OBVIOUS
      <4>1. Len(html.fed) <= 0 /\ html.fed \in Seq(Piece) /\ Len(html.fed) \in Nat
        BY <3>2, EmptySeq, HtmlKnown, LenProperties DEF IsPrefix
      <4>2. Len(html.fed) = 0
        BY <4>1
      <4> QED  BY <2>2, <4>1, <4>2, EmptySeq
    <3> QED  BY <3>1, <3>2, <3>3, HandlersText
  <2> QED  BY <2>1, <2>2
<1> QED  BY <1>1, HtmlInvariant, PTL

\* parseHtml returns true only when the handlers have been given one version
\* of the document to its end, all of it tidied or all of it as it was.
THEOREM SuccessCorrect == SteadyParses => []SuccessIsWhole
<1>1. HtmlInv => SuccessIsWhole
  BY DEF HtmlInv, Results, SuccessIsWhole
<1> QED  BY <1>1, HtmlInvariant, PTL

\* No document that stays as it is during the call is refused for an error that
\* libtidy can mend, whatever earlier parses have left in the cache, and
\* whatever has changed before (README.md:18).
THEOREM FallbackCorrect == SteadyParses => []FallbackMends
<1>1. HtmlInv => FallbackMends
  BY DEF HtmlInv, Results, FallbackMends
<1> QED  BY <1>1, HtmlInvariant, PTL

-----------------------------------------------------------------------------
(***************************************************************************)
(* TidyStream implements DocumentStream where the URLs the constructor     *)
(* takes for ".smil" are those, and no document is tidied that changes.    *)
(***************************************************************************)
OnlySmilPasses == \A u \in Url : PassesThrough(u) <=> u \in Smil

TidiedStay == \A o \in Openings : o.tidy => o.url \notin Changing

\* The document at u as it is delivered, and one of the two forms it has.
Shown(u) == TidiedBody(u, 1)

OneOfBoth(text, u) == text = Body(u, 1) \/ text = Shown(u)

CopiesShown ==
  \A u \in Url \ Changing :
    /\ ver[u] = 1
    /\ HttpCache[u] # None => OneOfBoth(heap[HttpCache[u]].zBuffer, u)

\* What PASSTROUGH has passed on, and what the input has returned since.
PassedOn(s) ==
  LET m == tidy[s]
  IN  IF m.asked
      THEN /\ calling = s
           /\ IF cur = s THEN out[s] = m.out
              ELSE IF status[s] = "open"
              THEN IsPrefix(m.out, out[s]) /\ m.out # out[s]
              ELSE m.out = out[s]
      ELSE cur # s /\ m.out = out[s] /\ m.status = status[s]

Delivers(s) ==
  LET m == tidy[s]
      u == m.sURL
  IN
  /\ u \notin Changing /\ m.since[u] = 1 /\ m.status # "closed"
  /\ m.mode = "PASSTROUGH" <=> u \in Smil
  /\ m.mode = "PASSTROUGH" => PassedOn(s)
  /\ m.mode = "TIDY" /\ ~m.bTidied /\ m.inStream = "NULL" =>
       OneOfBoth(m.docbuf, u)

SlotDelivers(s) == IF tidy[s].mode = "NONE" THEN tidy[s] = NoTidy ELSE Delivers(s)

TidiedInv ==
  /\ TextsInv(Openings) /\ SteadyUse(Openings) /\ OnlySmilPasses /\ TidiedStay
  /\ CopiesShown
  /\ \A s \in Stream : SlotDelivers(s)

-----------------------------------------------------------------------------
(***************************************************************************)
(* The two forms of a document, and what a stream has delivered of one.    *)
(***************************************************************************)
\* A document is never what libtidy makes of it.
LEMMA FormsDiffer ==
  ASSUME NEW u \in Url, NEW text, Whole(text, u), WholeTidied(text, u)
  PROVE  FALSE
<1>1. PICK v \in Version : text = Body(u, v)
  BY DEF Whole
<1>2. PICK w \in Version : text = Tidy(u, Body(u, w))
  BY DEF WholeTidied
<1>3. \A i \in DOMAIN text : text[i].form = "raw"
  BY <1>1 DEF Body
<1>4. Body(u, w) \in Seq(Piece)
  BY BodyType
<1>5. CASE Body(u, w) = <<>>
  <2>1. text = <<[url |-> u, version |-> 0, n |-> 1, form |-> "tidied"]>>
    BY <1>2, <1>5 DEF Tidy
  <2>2. 1 \in DOMAIN text /\ text[1].form = "tidied"
    BY <2>1
  <2> QED  BY <1>3, <2>2
<1>6. CASE Body(u, w) # <<>>
  <2>1. text = [i \in DOMAIN Body(u, w) |-> [Body(u, w)[i] EXCEPT !.form = "tidied"]]
    BY <1>2, <1>6 DEF Tidy
  <2>2. 1 \in DOMAIN Body(u, w) /\ Body(u, w)[1] \in Piece
    <3>1. Len(Body(u, w)) \in Nat /\ Len(Body(u, w)) # 0
          /\ DOMAIN Body(u, w) = 1 .. Len(Body(u, w))
      BY <1>4, <1>6, LenProperties, EmptySeq
    <3> QED  BY <1>4, <3>1, ElementOfSeq
  <2>3. text[1].form = "tidied" /\ 1 \in DOMAIN text
    BY <2>1, <2>2 DEF Piece
  <2> QED  BY <1>3, <2>3
<1> QED  BY <1>5, <1>6

LEMMA FirstIsVersion == 1 \in Version
BY ServerAssumption DEF Version

LEMMA ShownType ==
  ASSUME NEW u \in Url
  PROVE  /\ Body(u, 1) \in Seq(Piece) /\ Shown(u) \in Seq(Piece)
         /\ u \in Smil => Shown(u) = Body(u, 1)
         /\ u \notin Smil => WholeTidied(Shown(u), u)
<1>1. Body(u, 1) \in Seq(Piece)
  BY FirstIsVersion, BodyType
<1>2. Tidy(u, Body(u, 1)) \in Seq(Piece) /\ WholeTidied(Tidy(u, Body(u, 1)), u)
  BY <1>1, FirstIsVersion, TidyType DEF WholeTidied
<1> QED  BY <1>1, <1>2 DEF Shown, TidiedBody

\* A text of one of the two forms is known by its form.
LEMMA FormKnown ==
  ASSUME NEW u \in Url, NEW text, OneOfBoth(text, u)
  PROVE  /\ Whole(text, u) => text = Body(u, 1)
         /\ WholeTidied(text, u) => text = Shown(u) /\ u \notin Smil
<1>1. Whole(text, u) /\ u \notin Smil => text # Shown(u)
  BY ShownType, FormsDiffer
<1>2. WholeTidied(text, u) => text # Body(u, 1)
  BY FirstIsVersion, FormsDiffer DEF Whole
<1> QED  BY <1>1, <1>2, ShownType DEF OneOfBoth

\* What a copy of a document that stays holds.
LEMMA CopyKnown ==
  ASSUME TextsInv(Openings), CopiesShown, NEW u \in Url \ Changing,
         HttpCache[u] # None
  PROVE  LET o == heap[HttpCache[u]]
         IN  /\ o \in CacheRecord /\ OneOfBoth(o.zBuffer, u)
             /\ o.bTidyFlag => o.zBuffer = Shown(u) /\ u \notin Smil
<1>1. EntrySound(heap[HttpCache[u]], u, ver[u])
  BY DEF TextsInv, Texts, EntriesSound
<1>2. OneOfBoth(heap[HttpCache[u]].zBuffer, u)
  BY DEF CopiesShown
<1>3. heap[HttpCache[u]] \in CacheRecord
  BY DEF TextsInv, CustodyInv, TidyTypeInv, TypeInv, TypeOK
<1> QED  BY <1>1, <1>2, <1>3, FormKnown DEF EntrySound

\* What an input has delivered is a part of one of the two, and only a file
\* has ever failed.
LEMMA InputPart ==
  ASSUME TextsInv(Openings), CopiesShown, NEW s \in Stream,
         NEW u \in Url \ Changing, InputUrl(s) = u
  PROVE  /\ \E text \in Seq(Piece) :
              OneOfBoth(text, u) /\ PartOf(out[s], status[s], text)
         /\ file[s].mode = "NONE" => status[s] \in {"open", "eof"}
         /\ status[s] \in {"open", "eof", "error"}
<1>1. /\ CustodyInv /\ InputTexts(s) /\ TypeOK /\ file[s] \in FileRecord /\ SlotSound(s)
      /\ ver[u] = 1 /\ u # None
  <2>1. CustodyInv /\ InputTexts(s)
    BY DEF TextsInv, Texts, SlotTexts
  <2>2. ver[u] = 1 /\ u # None
    BY UrlAssumption DEF CopiesShown
  <2> QED  BY <2>1, <2>2, SlotKnown DEF SeqInv, TypeInv
<1>2. Body(u, 1) \in Seq(Piece) /\ OneOfBoth(Body(u, 1), u)
  BY ShownType DEF OneOfBoth
<1>3. HttpCache[u] # None =>
        /\ heap[HttpCache[u]] \in CacheRecord /\ heap[HttpCache[u]].zBuffer \in Seq(Piece)
        /\ OneOfBoth(heap[HttpCache[u]].zBuffer, u)
  BY CopyKnown DEF CacheRecord
<1>4. CASE fEasy[s] # None
  <2> DEFINE m == st[s]
             x == xfer[s]
             o == heap[m.cacheObject]
  <2>1. /\ m \in Members /\ x \in TransferRecord /\ out[s] \in Seq(Piece)
        /\ m.sURL = u
        /\ ~m.bDeleteCache => HttpCache[u] = m.cacheObject /\ m.cacheObject # None
    BY <1>1, <1>4, OwnObject DEF InputUrl
  <2>2. \/ Fetches(m, x, o, status[s], out[s], 1)
        \/ Revalidates(m, x, o, status[s], out[s], 1, msgs)
    BY <1>1, <1>4, <2>1, HttpKnown
  <2>3. CASE Fetches(m, x, o, status[s], out[s], 1)
    <3>1. status[s] \in {"open", "eof"}
      BY <2>3 DEF Fetches, Flow
    <3> HIDE DEF m, x, o
    <3>2. PartOf(out[s], status[s], Body(u, 1))
      BY <2>1, <2>3, FirstIsVersion, FetchPart
    <3> QED  BY <1>2, <3>1, <3>2
  <2>4. CASE Revalidates(m, x, o, status[s], out[s], 1, msgs)
    <3>1. HttpCache[u] # None /\ o = heap[HttpCache[u]]
      BY <2>1, <2>4 DEF Revalidates
    <3>2. CASE m.bStreamFromCache
      <4>1. CopyRead(o, status[s], out[s])
        BY <2>4, <3>2 DEF Revalidates
      <4> HIDE DEF m, x, o
      <4>2. PartOf(out[s], status[s], o.zBuffer) /\ status[s] \in {"open", "eof"}
        BY <1>3, <3>1, <4>1, CopyPart DEF CopyRead
      <4> QED  BY <1>3, <3>1, <4>2
    <3>3. CASE ~m.bStreamFromCache
      <4>1. out[s] = <<>> /\ status[s] = "open"
        BY <2>4, <3>3 DEF Revalidates
      <4> QED  BY <1>2, <4>1, AllAndNothing DEF PartOf
    <3> QED  BY <3>2, <3>3
  <2> QED  BY <2>2, <2>3, <2>4
<1>5. CASE fEasy[s] = None
  <2> DEFINE f == file[s]
  <2>1. f.mode # "NONE" /\ f.sFilename = u /\ FileTexts(s)
    BY <1>1, <1>5 DEF InputUrl, InputTexts
  <2>2. CASE f.mode = "READ"
    <3>1. FileRead(f, status[s], out[s], since[s][u], 1)
      BY <1>1, <2>1, <2>2 DEF FileTexts
    <3>2. CASE f.bIsOpen
      <4>1. PICK w \in since[s][u] .. 1 : f.text = Body(u, w)
        BY <2>1, <3>1, <3>2 DEF FileRead
      <4>2. since[s][u] \in Nat /\ since[s][u] >= 1
        BY <1>1 DEF TypeOK, Version
      <4>3. w = 1
        BY <4>1, <4>2
      <4>4. /\ f.text = Body(u, 1) /\ out[s] = SubSeq(f.text, 1, f.fTotalBytesRead)
            /\ (status[s] = "eof" => out[s] = f.text)
        BY <3>1, <3>2, <4>1, <4>3 DEF FileRead
      <4>5. f.fTotalBytesRead \in 0 .. Len(f.text)
        <5>1. f.fTotalBytesRead <= Len(f.text)
          BY <1>1, <2>1, <2>2, <3>2, SlotKnown DEF FilePart, FilesSetUp
        <5>2. f.fTotalBytesRead \in Nat /\ Len(f.text) \in Nat
          BY <1>1, LenProperties DEF FileRecord
        <5> QED  BY <5>1, <5>2
      <4>6. PartOf(out[s], status[s], Body(u, 1))
        BY <1>2, <4>4, <4>5, Beginning DEF PartOf
      <4> QED  BY <1>2, <2>1, <3>1, <4>6 DEF FileRead
    <3>3. CASE ~f.bIsOpen
      <4>1. out[s] = <<>> /\ status[s] # "eof"
        BY <3>1, <3>3 DEF FileRead
      <4>2. PartOf(out[s], status[s], Body(u, 1))
        BY <1>2, <4>1, AllAndNothing DEF PartOf
      <4> QED  BY <1>2, <2>1, <3>1, <4>2 DEF FileRead
    <3> QED  BY <3>2, <3>3
  <2>3. CASE f.mode # "READ"
    <3>1. f.mode = "CACHED"
      BY <1>1, <2>1, <2>3 DEF FileRecord
    <3>2. HttpCache[u] = f.cacheObject /\ HttpCache[u] # None
      BY <1>1, <2>1, <3>1 DEF SlotSound, InMap
    <3>3. CopyRead(heap[HttpCache[u]], status[s], out[s])
      BY <2>1, <2>3, <3>2 DEF FileTexts
    <3>4. /\ PartOf(out[s], status[s], heap[HttpCache[u]].zBuffer)
          /\ status[s] \in {"open", "eof"}
      BY <1>3, <3>2, <3>3, CopyPart DEF CopyRead
    <3> QED  BY <1>3, <3>2, <3>4
  <2> QED  BY <2>2, <2>3
<1> QED  BY <1>4, <1>5

\* The input of a TidyStream that passes it through.
LEMMA InputPasses ==
  ASSUME TextsInv(Openings), CopiesShown, NEW s \in Stream, Delivers(s),
         tidy[s].mode = "PASSTROUGH"
  PROVE  /\ InputUrl(s) = tidy[s].sURL
         /\ PartOf(out[s], status[s], Shown(tidy[s].sURL))
         /\ file[s].mode = "NONE" => status[s] \in {"open", "eof"}
         /\ status[s] \in {"open", "eof", "error"}
<1> DEFINE u == tidy[s].sURL
<1>1. InputUrl(s) = u /\ u \in Url \ Changing /\ u \in Smil
  <2>1. TidyTexts(s) /\ CustodyInv
    BY DEF TextsInv, Texts, SlotTexts
  <2> QED  BY <2>1, SlotKnown DEF TidyTexts, Delivers
<1>2. PICK text \in Seq(Piece) : OneOfBoth(text, u) /\ PartOf(out[s], status[s], text)
  BY <1>1, InputPart
<1>3. text = Shown(u)
  BY <1>1, <1>2, ShownType DEF OneOfBoth
<1> QED  BY <1>1, <1>2, <1>3, InputPart

\* What a TidyStream has returned, between two calls or in one that has mended.
LEMMA TidiedPart ==
  ASSUME TextsInv(Openings), CopiesShown, NEW s \in Stream, Delivers(s),
         LET m == tidy[s]
         IN  \/ m.mode = "TIDY" /\ m.bTidied
             \/ m.mode = "CACHED"
             \/ m.mode = "PASSTROUGH" /\ ~m.asked
  PROVE  PartOf(tidy[s].out, tidy[s].status, Shown(tidy[s].sURL))
<1> DEFINE m == tidy[s]
           u == m.sURL
<1>1. /\ TidyTexts(s) /\ CustodyInv /\ m \in TidyRecord /\ SlotSound(s)
  BY SlotKnown DEF TextsInv, Texts, SlotTexts
<1>2. u \in Url \ Changing
  BY <1>1, SlotKnown DEF Delivers
<1>3. CASE m.mode = "PASSTROUGH" /\ ~m.asked
  BY <1>3, InputPasses DEF Delivers, PassedOn
<1>4. CASE m.mode = "CACHED" \/ (m.mode = "TIDY" /\ m.bTidied)
  <2>1. HttpCache[u] # None /\ heap[HttpCache[u]].bTidyFlag
    BY <1>1, <1>4 DEF TidyTexts, SlotSound, InMap, InMapTidied
  <2>2. Offer(u) = Shown(u)
    BY <1>2, <2>1, CopyKnown DEF Offer, OfferIn
  <2>3. Reads(s, u)
    BY <1>1, <1>4 DEF Reads, SourceUrl, Free, SlotSound, InputGone
  <2>4. PartOf(m.out, m.status, Offer(u))
    BY <1>2, <1>4, <2>3, TidyReadsOffer
  <2> QED  BY <2>2, <2>4
<1> QED  BY <1>3, <1>4

TidiedLoc == [s \in Stream |-> IF IsTidied(s) THEN tidy[s].sURL ELSE None]
TidiedStatus == [s \in Stream |-> tidy[s].status]
TidiedOut == [s \in Stream |-> tidy[s].out]
TidiedSince == [s \in Stream |-> tidy[s].since]

LEMMA TidiedInitial == TidyInit => TidiedDocument!Init
<1> SUFFICES ASSUME TidyInit PROVE TidiedDocument!Init
  OBVIOUS
<1>1. tidy = [s \in Stream |-> NoTidy] /\ ver = [u \in Url |-> 1]
  BY DEF TidyInit, Init
<1>2. \A s \in Stream : tidy[s] = NoTidy /\ ~IsTidied(s)
  BY <1>1 DEF IsTidied, NoTidy
<1>3. /\ NoTidy.status = "closed" /\ NoTidy.out = <<>>
      /\ NoTidy.since = [u \in Url |-> 1]
  BY DEF NoTidy
<1> QED  BY <1>1, <1>2, <1>3 DEF TidiedDocument!Init

LEMMA TidiedMoved ==
  ASSUME NEW s \in Stream, NEW m, tidy'[s] = m,
         \A t \in Stream \ {s} : tidy'[t] = tidy[t]
  PROVE  /\ TidiedLoc' = [TidiedLoc EXCEPT ![s] =
                 IF m.mode \notin {"NONE", "LOST"} THEN m.sURL ELSE None]
         /\ TidiedStatus' = [TidiedStatus EXCEPT ![s] = m.status]
         /\ TidiedOut' = [TidiedOut EXCEPT ![s] = m.out]
         /\ TidiedSince' = [TidiedSince EXCEPT ![s] = m.since]
<1>1. TidiedLoc' = [TidiedLoc EXCEPT ![s] =
                 IF m.mode \notin {"NONE", "LOST"} THEN m.sURL ELSE None]
  BY DEF TidiedLoc, IsTidied
<1>2. TidiedStatus' = [TidiedStatus EXCEPT ![s] = m.status]
  BY DEF TidiedStatus
<1>3. TidiedOut' = [TidiedOut EXCEPT ![s] = m.out]
  BY DEF TidiedOut
<1>4. TidiedSince' = [TidiedSince EXCEPT ![s] = m.since]
  BY DEF TidiedSince
<1> QED  BY <1>1, <1>2, <1>3, <1>4

LEMMA TidiedMapped ==
  ASSUME TidyPart, NEW s \in Stream, NEW m \in TidyRecord,
         tidy' = [tidy EXCEPT ![s] = m]
  PROVE  /\ TidiedLoc' = [TidiedLoc EXCEPT ![s] =
                 IF m.mode \notin {"NONE", "LOST"} THEN m.sURL ELSE None]
         /\ TidiedStatus' = [TidiedStatus EXCEPT ![s] = m.status]
         /\ TidiedOut' = [TidiedOut EXCEPT ![s] = m.out]
         /\ TidiedSince' = [TidiedSince EXCEPT ![s] = m.since]
<1>1. tidy'[s] = m /\ \A t \in Stream \ {s} : tidy'[t] = tidy[t]
  BY DEF TidyPart
<1> QED  BY <1>1, TidiedMoved

\* The reader of the tidied stream sees nothing of the step.
LEMMA TidiedStill ==
  ASSUME UNCHANGED ver,
         \A t \in Stream :
           /\ IsTidied(t)' <=> IsTidied(t)
           /\ tidy'[t].sURL = tidy[t].sURL /\ tidy'[t].status = tidy[t].status
           /\ tidy'[t].out = tidy[t].out /\ tidy'[t].since = tidy[t].since
  PROVE  UNCHANGED TidiedDocument!vars
<1>1. TidiedLoc' = TidiedLoc
  BY DEF TidiedLoc, IsTidied
<1>2. TidiedStatus' = TidiedStatus /\ TidiedOut' = TidiedOut /\ TidiedSince' = TidiedSince
  BY DEF TidiedStatus, TidiedOut, TidiedSince
<1> QED
  BY <1>1, <1>2
     DEF TidiedDocument!vars, TidiedLoc, TidiedStatus, TidiedOut, TidiedSince

\* A beginning, its length, and a beginning of it.
LEMMA BeginningOf ==
  ASSUME NEW text \in Seq(Piece), NEW got \in Seq(Piece), IsPrefix(got, text)
  PROVE  /\ Len(got) \in Nat /\ Len(text) \in Nat /\ Len(got) <= Len(text)
         /\ got = SubSeq(text, 1, Len(got))
<1>1. SubSeq(got, 1, Len(got)) = got
  BY SubSeqFull
<1> QED  BY <1>1, LenProperties DEF IsPrefix

LEMMA BeginsOf ==
  ASSUME NEW text \in Seq(Piece), NEW more \in Seq(Piece), NEW got \in Seq(Piece),
         IsPrefix(got, more), IsPrefix(more, text)
  PROVE  IsPrefix(got, text)
<1>1. /\ Len(got) \in Nat /\ Len(text) \in Nat /\ Len(more) \in Nat
      /\ Len(got) <= Len(more) /\ Len(more) <= Len(text)
      /\ got = SubSeq(more, 1, Len(got)) /\ more = SubSeq(text, 1, Len(more))
  BY BeginningOf
<1> DEFINE k == Len(got)
           n == Len(more)
<1>2. CASE k = 0
  <2>1. got = <<>>
    BY <1>2, EmptySeq
  <2> QED  BY <2>1, AllAndNothing
<1>3. CASE k # 0
  <2>1. k \in 0 .. Len(text) /\ 1 \in 1 .. Len(text) /\ n \in 1 .. Len(text)
        /\ 1 \in 1 .. n - 1 + 1 /\ k \in 1 .. n - 1 + 1
        /\ 1 + 1 - 1 = 1 /\ 1 + k - 1 = k
    BY <1>1, <1>3
  <2>2. SubSeq(SubSeq(text, 1, n), 1, k) = SubSeq(text, 1 + 1 - 1, 1 + k - 1)
    <3> HIDE DEF k, n
    <3> QED  BY <2>1, SubSeqOfSubSeq
  <2>3. got = SubSeq(text, 1, k)
    BY <1>1, <2>1, <2>2
  <2> QED  BY <2>1, <2>3, Beginning
<1> QED  BY <1>2, <1>3

\* The rest of a text, from where the reader has got to.
LEMMA Further ==
  ASSUME NEW text \in Seq(Piece), NEW got \in Seq(Piece), NEW data \in Seq(Piece),
         data # <<>>, IsPrefix(got \o data, text)
  PROVE  /\ Len(got \o data) \in Len(got) + 1 .. Len(text)
         /\ got = SubSeq(text, 1, Len(got))
         /\ got \o data = SubSeq(text, 1, Len(got \o data))
<1>1. /\ got \o data \in Seq(Piece) /\ Len(got \o data) = Len(got) + Len(data)
      /\ Len(got) \in Nat /\ Len(data) \in Nat
  BY ConcatProperties, LenProperties
<1>2. Len(data) # 0
  BY EmptySeq
<1>3. IsPrefix(got, got \o data)
  BY BeforeMore
<1> DEFINE more == got \o data
<1> HIDE DEF more
<1>4. /\ Len(text) \in Nat /\ Len(more) <= Len(text)
      /\ more = SubSeq(text, 1, Len(more))
  BY <1>1, BeginningOf DEF more
<1>5. got = SubSeq(text, 1, Len(got))
  <2>1. IsPrefix(got, text)
    BY <1>1, <1>3, BeginsOf DEF more
  <2> QED  BY <2>1, BeginningOf
<1> QED  BY <1>1, <1>2, <1>4, <1>5 DEF more

LEMMA TidiedDelivers ==
  ASSUME UNCHANGED ver, NEW s \in Stream, NEW u, NEW text,
         TidiedLoc' = TidiedLoc, TidiedStatus' = TidiedStatus,
         TidiedSince' = TidiedSince,
         TidiedLoc[s] = u, TidiedStatus[s] = "open",
         TidiedSince[s][u] = 1, ver[u] = 1, text = TidiedBody(u, 1),
         NEW got, TidiedOut[s] = got, got = SubSeq(text, 1, Len(got)),
         NEW n \in Len(got) + 1 .. Len(text),
         TidiedOut' = [TidiedOut EXCEPT ![s] = SubSeq(text, 1, n)]
  PROVE  TidiedDocument!Deliver(s)
<1>1. TidiedDocument!Offered(s) = TidiedSince[s][TidiedLoc[s]] .. ver[TidiedLoc[s]]
  BY DEF TidiedDocument!Offered, TidiedLoc, TidiedSince
<1>2. 1 \in TidiedDocument!Offered(s)
  BY <1>1
<1>3. \E v \in TidiedDocument!Offered(s) :
        \E k \in Len(TidiedOut[s]) + 1 .. Len(TidiedBody(TidiedLoc[s], v)) :
             /\ TidiedOut[s] = SubSeq(TidiedBody(TidiedLoc[s], v), 1, Len(TidiedOut[s]))
             /\ TidiedOut' = [TidiedOut EXCEPT ![s] =
                               SubSeq(TidiedBody(TidiedLoc[s], v), 1, k)]
  BY <1>2
<1> QED
  BY <1>3 DEF TidiedDocument!Deliver, TidiedLoc, TidiedStatus, TidiedOut, TidiedSince

LEMMA TidiedEnds ==
  ASSUME UNCHANGED ver, NEW s \in Stream, NEW u, NEW text,
         TidiedLoc' = TidiedLoc, TidiedOut' = TidiedOut,
         TidiedSince' = TidiedSince,
         TidiedStatus' = [TidiedStatus EXCEPT ![s] = "eof"],
         TidiedLoc[s] = u, TidiedStatus[s] = "open",
         TidiedSince[s][u] = 1, ver[u] = 1, text = TidiedBody(u, 1),
         TidiedOut[s] = text
  PROVE  TidiedDocument!End(s)
<1>1. TidiedDocument!Offered(s) = TidiedSince[s][TidiedLoc[s]] .. ver[TidiedLoc[s]]
  BY DEF TidiedDocument!Offered, TidiedLoc, TidiedSince
<1>2. 1 \in TidiedDocument!Offered(s)
  BY <1>1
<1>3. \E v \in TidiedDocument!Offered(s) :
        TidiedOut[s] = TidiedBody(TidiedLoc[s], v)
  BY <1>2
<1> QED
  BY <1>3 DEF TidiedDocument!End, TidiedLoc, TidiedStatus, TidiedOut, TidiedSince

LEMMA TidiedOpens ==
  ASSUME UNCHANGED ver, NEW s \in Stream, NEW u, TidiedStatus[s] = "closed",
         TidiedLoc' = [TidiedLoc EXCEPT ![s] = u],
         TidiedStatus' = [TidiedStatus EXCEPT ![s] = "open"],
         TidiedSince' = [TidiedSince EXCEPT ![s] = ver],
         TidiedOut' = TidiedOut
  PROVE  TidiedDocument!Open(s, u)
BY DEF TidiedDocument!Open, TidiedLoc, TidiedStatus, TidiedOut, TidiedSince

LEMMA TidiedFails ==
  ASSUME UNCHANGED ver, NEW s \in Stream, TidiedStatus[s] = "open",
         TidiedStatus' = [TidiedStatus EXCEPT ![s] = "error"],
         UNCHANGED <<TidiedLoc, TidiedOut, TidiedSince>>
  PROVE  TidiedDocument!Fail(s)
BY DEF TidiedDocument!Fail, TidiedLoc, TidiedStatus, TidiedOut, TidiedSince

LEMMA TidiedClosed ==
  ASSUME UNCHANGED ver, NEW s \in Stream, TidiedStatus[s] # "closed",
         TidiedLoc' = [TidiedLoc EXCEPT ![s] = None],
         TidiedStatus' = [TidiedStatus EXCEPT ![s] = "closed"],
         TidiedOut' = [TidiedOut EXCEPT ![s] = <<>>],
         TidiedSince' = [TidiedSince EXCEPT ![s] = [u \in Url |-> 1]]
  PROVE  TidiedDocument!Close(s)
BY DEF TidiedDocument!Close, TidiedLoc, TidiedStatus, TidiedOut, TidiedSince

LEMMA TidiedPublished ==
  ASSUME NEW u \in Url, ServerUpdate(u), UNCHANGED tidy
  PROVE  TidiedDocument!Publish(u)
<1>1. UNCHANGED <<TidiedLoc, TidiedStatus, TidiedOut, TidiedSince>>
  BY DEF TidiedLoc, TidiedStatus, TidiedOut, TidiedSince, IsTidied
<1> QED
  BY <1>1 DEF ServerUpdate, TidiedDocument!Publish, TidiedLoc, TidiedStatus,
              TidiedOut, TidiedSince

LEMMA TidiedKnown ==
  ASSUME TidiedInv, NEW s \in Stream
  PROVE  /\ TextsInv(Openings) /\ CopiesShown /\ CustodyInv /\ TypeOK /\ TidyPart
         /\ Stream = {s} /\ s # None
         /\ cur \in {s, None} /\ calling \in {s, None}
         /\ SlotSound(s) /\ SlotDelivers(s) /\ SlotTexts(s, Openings)
         /\ tidy[s] \in TidyRecord /\ out[s] \in Seq(Piece)
         /\ tidy[s].mode # "NONE" =>
              /\ tidy[s].sURL \in Url /\ IsTidied(s) /\ TidyTexts(s) /\ Delivers(s)
         /\ tidy[s].mode = "NONE" => tidy[s] = NoTidy
<1>1. /\ TextsInv(Openings) /\ CopiesShown /\ CustodyInv /\ SlotDelivers(s)
      /\ SlotTexts(s, Openings)
  BY DEF TidiedInv, TextsInv, Texts
<1>2. /\ SeqInv /\ TidyPart /\ SlotSound(s) /\ tidy[s] \in TidyRecord
      /\ tidy[s].mode # "NONE" => tidy[s].sURL \in Url
  BY <1>1, SlotKnown
<1>3. TypeOK
  BY <1>2 DEF SeqInv, TypeInv
<1>4. Stream = {s} /\ s # None
  BY <1>2, OneSlot, StreamAssumption
<1>5. cur \in {s, None} /\ calling \in {s, None}
  BY <1>2, <1>3, <1>4 DEF TypeOK, TidyPart
<1>6. out[s] \in Seq(Piece)
  BY <1>3 DEF TypeOK
<1>7. tidy[s].mode # "NONE" => IsTidied(s) /\ TidyTexts(s) /\ Delivers(s)
  BY <1>1 DEF SlotTexts, SlotDelivers, IsTidied, TidyTexts
<1> QED  BY <1>1, <1>2, <1>3, <1>4, <1>5, <1>6, <1>7 DEF SlotDelivers

-----------------------------------------------------------------------------
(***************************************************************************)
(* The copies.                                                             *)
(***************************************************************************)
LEMMA CopiesStay ==
  ASSUME TextsInv(Openings)', CopiesShown, TextsKept
  PROVE  CopiesShown'
<1> SUFFICES ASSUME NEW u \in Url \ Changing
             PROVE  /\ ver'[u] = 1
                    /\ HttpCache'[u] # None =>
                         OneOfBoth(heap'[HttpCache'[u]].zBuffer, u)
  BY DEF CopiesShown, OneOfBoth, Shown
<1>1. ver'[u] = 1
  BY DEF CopiesShown, TextsKept
<1>2. CASE HttpCache'[u] # None /\ ~heap'[HttpCache'[u]].bTidyFlag
  <2>1. EntrySound(heap'[HttpCache'[u]], u, ver'[u])
    BY <1>2 DEF TextsInv, Texts, EntriesSound
  <2> QED  BY <1>1, <1>2, <2>1 DEF EntrySound, OneOfBoth
<1>3. CASE HttpCache'[u] # None /\ heap'[HttpCache'[u]].bTidyFlag
  <2>1. /\ HttpCache[u] # None
        /\ heap'[HttpCache'[u]].zBuffer = heap[HttpCache[u]].zBuffer
    BY <1>3 DEF TextsKept
  <2>2. OneOfBoth(heap[HttpCache[u]].zBuffer, u)
    BY <2>1 DEF CopiesShown
  <2> QED  BY <1>1, <2>1, <2>2
<1> QED  BY <1>1, <1>2, <1>3

LEMMA CopiesUnmoved ==
  ASSUME CopiesShown, UNCHANGED <<heap, HttpCache>>,
         \A u \in Url \ Changing : ver'[u] = ver[u]
  PROVE  CopiesShown'
BY DEF CopiesShown, OneOfBoth, Shown

\* What libtidy makes of a document that stays is what is shown of it.
LEMMA CopiesMended ==
  ASSUME TidiedInv, NEW s \in Stream, MendInput(s)
  PROVE  CopiesShown'
<1> DEFINE w == tidy[s].sURL
           text == tidy[s].docbuf
<1>1. /\ TextsInv(Openings) /\ CopiesShown /\ w \in Url \ Changing
      /\ w \notin Smil /\ OneOfBoth(text, w) /\ ver' = ver
  BY TidiedKnown DEF MendInput, Mends, Performs, Delivers
<1>2. /\ Whole(text, w)
      /\ \A u \in Url : HttpCache'[u] # None =>
           IF u = w THEN heap'[HttpCache'[u]].zBuffer = Tidy(u, text)
           ELSE /\ HttpCache[u] # None
                /\ heap'[HttpCache'[u]].zBuffer = heap[HttpCache[u]].zBuffer
  BY <1>1, TextsMendInput
<1>3. text = Body(w, 1)
  BY <1>1, <1>2, FormKnown
<1>4. Tidy(w, text) = Shown(w)
  BY <1>1, <1>3 DEF Shown, TidiedBody
<1> HIDE DEF w, text
<1>5. ASSUME NEW u \in Url \ Changing, HttpCache'[u] # None
      PROVE  OneOfBoth(heap'[HttpCache'[u]].zBuffer, u)
  <2>1. CASE u = w
    BY <1>2, <1>4, <1>5, <2>1 DEF OneOfBoth
  <2>2. CASE u # w
    <3>1. /\ HttpCache[u] # None
          /\ heap'[HttpCache'[u]].zBuffer = heap[HttpCache[u]].zBuffer
      BY <1>2, <1>5, <2>2
    <3>2. OneOfBoth(heap[HttpCache[u]].zBuffer, u)
      BY <1>1, <3>1 DEF CopiesShown
    <3> QED  BY <3>1, <3>2
  <2> QED  BY <2>1, <2>2
<1>6. \A u \in Url \ Changing : ver'[u] = 1
  BY <1>1 DEF CopiesShown
<1> QED  BY <1>5, <1>6 DEF CopiesShown, OneOfBoth, Shown

LEMMA CopiesTidyRead ==
  ASSUME TidiedInv, TextsInv(Openings)', NEW s \in Stream, TidyReadStep(s)
  PROVE  CopiesShown'
<1>1. TextsInv(Openings) /\ CopiesShown
  BY TidiedKnown
<1>2. CASE AskInput(s)
  <2>1. TextsStay
    BY <1>1, <1>2, ClientAssumption, TextsReads DEF AskInput, SameTidy
  <2> QED  BY <1>1, <2>1, CopiesStay, StayKept
<1>3. CASE AskAndPassOn(s)
  <2>1. tidy[s].want \in 1 .. MaxRead
    BY <1>3, TidiedKnown DEF AskAndPassOn, Calls, TidyPart, CallerWants
  <2>2. SameTidy(s)
    BY <1>3, TidiedKnown DEF AskAndPassOn, SameTidy, TidyPart, TidyRecord
  <2>3. TextsStay
    BY <1>1, <1>3, <2>1, <2>2, TextsReads DEF AskAndPassOn
  <2> QED  BY <1>1, <2>3, CopiesStay, StayKept
<1>4. CASE DeleteAtEnd(s) \/ DeleteOnError(s)
  BY <1>1, <1>4, TextsDeletesInput, CopiesStay
<1>5. CASE UseTidiedCopy(s) \/ DeliverCopy(s)
  BY <1>1, <1>5, TextsUseTidiedCopy, TextsDeliverCopy, CopiesStay, StayKept
<1>6. CASE MendInput(s)
  BY <1>6, CopiesMended
<1>7. CASE DeliverBuffer(s) \/ PassOn(s) \/ PassErrorOn(s)
  BY <1>1, <1>7, CopiesUnmoved
     DEF DeliverBuffer, PassOn, PassErrorOn, baseVars, vars
<1> QED  BY <1>2, <1>3, <1>4, <1>5, <1>6, <1>7 DEF TidyReadStep

LEMMA CopiesStep ==
  ASSUME TidiedInv, TextsInv(Openings)', ReadingStep(Openings)
  PROVE  CopiesShown'
<1>1. TextsInv(Openings) /\ CopiesShown /\ SteadyUse(Openings)
  BY DEF TidiedInv
<1>2. CASE \E s \in Stream, o \in Openings : OpenStream(s, o)
  <2>1. PICK s \in Stream, o \in Openings : OpenStream(s, o)
    BY <1>2
  <2>2. TextsStay
    BY <1>1, <2>1, TextsOpen, OpeningsAssumption
  <2> QED  BY <1>1, <2>2, CopiesStay, StayKept
<1>3. CASE \E s \in Stream, n \in 1 .. MaxRead : ReadPlain(s, n)
  <2>1. PICK s \in Stream, n \in 1 .. MaxRead : ReadPlain(s, n)
    BY <1>3
  <2>2. TextsStay
    BY <1>1, <2>1, TextsReads DEF ReadPlain, SameTidy
  <2> QED  BY <1>1, <2>2, CopiesStay, StayKept
<1>4. CASE \E s \in Stream, n \in 1 .. MaxRead : BeginTidyRead(s, n)
  BY <1>1, <1>4, CopiesUnmoved DEF BeginTidyRead, baseVars, vars
<1>5. CASE \E s \in Stream : TidyReadStep(s)
  BY <1>5, CopiesTidyRead
<1>6. CASE \E s \in Stream : Closes(s)
  BY <1>1, <1>6, TextsCloses, CopiesStay
<1>7. CASE CallStep
  <2>1. TextsStay
    BY <1>1, <1>7, TextsCall DEF CallStep
  <2> QED  BY <1>1, <2>1, CopiesStay, StayKept
<1>8. CASE DestroyInstance
  <2>1. ver' = ver /\ \A u \in Url : HttpCache'[u] = None
    BY <1>8 DEF DestroyInstance
  <2> QED  BY <1>1, <2>1 DEF CopiesShown, OneOfBoth, Shown
<1>9. CASE \E u \in Url : Publish(u)
  <2>1. PICK w \in Changing : ServerUpdate(w)
    BY <1>9 DEF Publish
  <2>2. UNCHANGED <<heap, HttpCache>> /\ \A u \in Url \ Changing : ver'[u] = ver[u]
    BY <2>1, ChangingAssumption DEF ServerUpdate, handlerVars
  <2> QED  BY <1>1, <2>2, CopiesUnmoved
<1>10. CASE UNCHANGED tidyVars
  BY <1>1, <1>10, CopiesUnmoved DEF tidyVars, vars
<1> QED
  BY <1>2, <1>3, <1>4, <1>5, <1>6, <1>7, <1>8, <1>9, <1>10 DEF ReadingStep

-----------------------------------------------------------------------------
(***************************************************************************)
(* The streams.                                                            *)
(***************************************************************************)
LEMMA NothingTidied ==
  ASSUME NEW s \in Stream, tidy'[s] = NoTidy
  PROVE  SlotDelivers(s)'
BY NoTidyType DEF SlotDelivers

LEMMA StillMends ==
  ASSUME NEW s \in Stream, Delivers(s), tidy[s].mode # "PASSTROUGH",
         tidy'[s].mode \notin {"NONE", "PASSTROUGH"},
         tidy'[s].sURL = tidy[s].sURL, tidy'[s].since = tidy[s].since,
         tidy'[s].status # "closed",
         \/ tidy'[s].mode # "TIDY" \/ tidy'[s].bTidied \/ tidy'[s].inStream # "NULL"
         \/ OneOfBoth(tidy'[s].docbuf, tidy[s].sURL)
  PROVE  SlotDelivers(s)'
BY DEF SlotDelivers, Delivers, OneOfBoth, Shown

LEMMA StillPasses ==
  ASSUME NEW s \in Stream, Delivers(s), tidy[s].mode = "PASSTROUGH",
         tidy'[s].mode = "PASSTROUGH",
         tidy'[s].sURL = tidy[s].sURL, tidy'[s].since = tidy[s].since,
         tidy'[s].status # "closed", PassedOn(s)'
  PROVE  SlotDelivers(s)'
BY DEF SlotDelivers, Delivers

LEMMA DeliversUnmoved ==
  ASSUME NEW s \in Stream, SlotDelivers(s),
         UNCHANGED <<tidy, calling, cur, status, out>>
  PROVE  SlotDelivers(s)'
BY DEF SlotDelivers, Delivers, PassedOn, OneOfBoth, Shown

(***************************************************************************)
(* What a call of readBytes has done to the input of s, that had "got".    *)
(***************************************************************************)
Answers(s, got) ==
  \/ cur' = s /\ out'[s] = got
  \/ /\ cur' = None
     /\ \/ status'[s] # "open" /\ out'[s] = got
        \/ /\ status'[s] = "open"
           /\ \E data \in Seq(Piece) : data # <<>> /\ out'[s] = got \o data

LEMMA ReturnAnswers ==
  ASSUME NEW s \in Stream, out[s] \in Seq(Piece), NEW data \in Seq(Piece),
         cur' = None, out'[s] = out[s] \o data,
         status'[s] = IF data = <<>> THEN "eof" ELSE "open"
  PROVE  Answers(s, out[s])
<1>1. data = <<>> => out'[s] = out[s]
  BY EmptyPieces, ConcatEmptySeq
<1> QED  BY <1>1 DEF Answers

LEMMA CallAnswers ==
  ASSUME CustodyInv, NEW s \in Stream, Stream = {s}, s # None, ReadStep
  PROVE  cur = s /\ Answers(s, out[s])
<1>1. cur # None
  BY DEF ReadStep, Transfer, Header, Data, Complete, Fail, Performing, TakeMessage,
         TakeFinished, TakeUnmodified, TakeRedirect, TakeError, Message,
         PerformAgain, EndRead, EndReadFromCache
<1>2. TypeInv /\ TypeOK
  BY SlotKnown DEF SeqInv, TypeInv
<1>3. /\ cur = s /\ st[s] \in Members /\ heap[st[s].cacheObject] \in CacheRecord
      /\ out[s] \in Seq(Piece)
  BY <1>1, <1>2, CurrentStream DEF TypeOK
<1>4. CASE EndRead
  <2> DEFINE data == st[s].filled
  <2>1. data \in Seq(Piece)
    BY <1>3 DEF Members
  <2>2. /\ cur' = None /\ out'[s] = out[s] \o data
        /\ status'[s] = IF data = <<>> THEN "eof" ELSE "open"
    BY <1>2, <1>3, <1>4 DEF EndRead, Return, TypeOK
  <2> HIDE DEF data
  <2> QED  BY <1>3, <2>1, <2>2, ReturnAnswers
<1>5. CASE EndReadFromCache
  <2> DEFINE m == st[s]
             o == m.cacheObject
  <2>1. PICK r \in IF Live(o) THEN CacheReads(o, m.fBytesToRead)
                   ELSE NothingRead(o) :
          Return(s, r.data, [m EXCEPT !.fTotalBytesRead = @ + Len(r.data)])
    BY <1>3, <1>5 DEF EndReadFromCache
  <2>2. m.fBytesToRead \in Nat
    BY <1>3 DEF Members
  <2> HIDE DEF m
  <2>3. r.data \in Seq(Piece)
    <3>1. CASE Live(o)
      <4>1. PICK q \in ReadOutcomes(heap[o], m.fBytesToRead) : r.data = q.data
        BY <2>1, <3>1 DEF CacheReads
      <4>2. heap[o] \in CacheRecord
        BY <1>3 DEF m
      <4> HIDE DEF o
      <4> QED  BY <2>2, <4>1, <4>2, ReadOutcomesType
    <3>2. CASE ~Live(o)
      <4>1. r \in NothingRead(o)
        BY <2>1, <3>2
      <4>2. r.data = <<>>
        BY <4>1 DEF NothingRead
      <4> QED  BY <4>2, EmptyPieces
    <3> QED  BY <3>1, <3>2
  <2>4. /\ cur' = None /\ out'[s] = out[s] \o r.data
        /\ status'[s] = IF r.data = <<>> THEN "eof" ELSE "open"
    BY <1>2, <2>1 DEF Return, TypeOK
  <2> QED  BY <1>3, <2>3, <2>4, ReturnAnswers
<1>6. CASE \E t \in Stream : TakeError(t)
  BY <1>2, <1>3, <1>6 DEF TakeError, Answers, TypeOK
<1>7. CASE PerformAgain \/ (\E t \in Stream : Transfer(t))
           \/ \E t \in Stream : TakeFinished(t) \/ TakeUnmodified(t) \/ TakeRedirect(t)
  <2>1. UNCHANGED <<cur, out>>
    BY <1>7 DEF PerformAgain, Transfer, Header, Data, Complete, Fail, TakeFinished,
                TakeUnmodified, TakeRedirect, callVars, clientVars
  <2> QED  BY <1>3, <2>1 DEF Answers
<1> QED  BY <1>3, <1>4, <1>5, <1>6, <1>7 DEF ReadStep, TakeMessage

LEMMA ReadAnswers ==
  ASSUME CustodyInv, NEW s \in Stream, NEW n \in 1 .. MaxRead, ReadInput(s, n)
  PROVE  Answers(s, out[s])
<1>1. /\ TypeInv /\ TypeOK /\ FilePart /\ SeqInv /\ SlotSound(s)
      /\ out[s] \in Seq(Piece) /\ n \in Nat
  BY SlotKnown, ClientAssumption DEF SeqInv, TypeInv, TypeOK
<1>2. CASE BeginRead(s, n)
  BY <1>2 DEF BeginRead, clientVars, Answers
<1>3. CASE ReadDisk(s, n)
  <2>1. PICK f1, data :
           /\ FileGoesOn(file[s], f1,
                IF file[s].bIsOpen THEN file[s].text
                ELSE Body(file[s].sFilename, ver[file[s].sFilename]), data)
           /\ Returned(s, data)
    BY <1>1, <1>3, DiskReads
  <2>2. /\ cur' = None /\ data \in Seq(Piece) /\ out'[s] = out[s] \o data
        /\ status'[s] = IF data = <<>> THEN "eof" ELSE "open"
    BY <1>1, <1>3, <2>1
       DEF ReadDisk, ReadsFile, httpVars, callVars, Returned, FileGoesOn, TypeOK
  <2> QED  BY <1>1, <2>2, ReturnAnswers
<1>4. CASE ReadDiskFails(s)
  BY <1>1, <1>4 DEF ReadDiskFails, ReadsFile, httpVars, callVars, Answers, TypeOK
<1>5. CASE ReadCopy(s, n)
  <2> DEFINE o == file[s].cacheObject
  <2>1. PICK r \in IF Live(o) THEN ReadOutcomes(heap[o], n) ELSE NothingRead(o) :
          Returned(s, r.data)
    BY <1>5 DEF ReadCopy
  <2>2. o \in Obj \cup {None}
    BY <1>1 DEF FilePart, FileRecord
  <2> HIDE DEF o
  <2>3. r.data \in Seq(Piece)
    BY <1>1, <2>1, <2>2, CopyReadType
  <2>4. /\ cur' = None /\ out'[s] = out[s] \o r.data
        /\ status'[s] = IF r.data = <<>> THEN "eof" ELSE "open"
    BY <1>1, <1>5, <2>1 DEF ReadCopy, ReadsFile, callVars, Returned, TypeOK
  <2> QED  BY <1>1, <2>3, <2>4, ReturnAnswers
<1> QED  BY <1>2, <1>3, <1>4, <1>5 DEF ReadInput, ReadFile

\* What has come since a TidyStream has asked.
LEMMA AnswerPasses ==
  ASSUME TidiedInv, NEW s \in Stream, tidy[s].mode = "PASSTROUGH",
         Answers(s, out[s]), out[s] = tidy[s].out,
         tidy'[s].asked, tidy'[s].out = tidy[s].out, calling' = s
  PROVE  PassedOn(s)'
<1>1. out[s] \in Seq(Piece) /\ s # None
  BY TidiedKnown
<1>2. ASSUME NEW data \in Seq(Piece), data # <<>>
      PROVE  IsPrefix(out[s], out[s] \o data) /\ out[s] # out[s] \o data
  <2>1. Len(out[s] \o data) = Len(out[s]) + Len(data)
        /\ Len(out[s]) \in Nat /\ Len(data) \in Nat /\ Len(data) # 0
    BY <1>1, <1>2, ConcatProperties, LenProperties, EmptySeq
  <2> QED  BY <1>1, <2>1, BeforeMore
<1>3. CASE cur' = s
  BY <1>1, <1>3 DEF Answers, PassedOn
<1>4. CASE cur' # s /\ status'[s] # "open" /\ out'[s] = out[s]
  BY <1>1, <1>4 DEF PassedOn
<1>5. CASE /\ cur' = None /\ status'[s] = "open"
           /\ \E data \in Seq(Piece) : data # <<>> /\ out'[s] = out[s] \o data
  BY <1>1, <1>2, <1>5 DEF PassedOn
<1> QED  BY <1>1, <1>3, <1>4, <1>5 DEF Answers

LEMMA OpenDelivers ==
  ASSUME TidiedInv, NEW s \in Stream, NEW o \in Openings, OpenStream(s, o)
  PROVE  SlotDelivers(s)'
<1> DEFINE m == TidyConstructed(o)
<1>1. /\ TidyPart /\ TypeOK /\ s # None /\ TextsInv(Openings) /\ CopiesShown
      /\ tidy[s].mode = "NONE" => tidy[s] = NoTidy
  BY TidiedKnown
<1>2. /\ Free(s) /\ OpenInput(s, o) /\ calling' = calling
      /\ tidy' = IF o.tidy THEN [tidy EXCEPT ![s] = m] ELSE tidy
  BY DEF OpenStream
<1>3. CASE ~o.tidy
  BY <1>1, <1>2, <1>3, NothingTidied DEF Free
<1>4. CASE o.tidy
  <2>1. tidy'[s] = m
    BY <1>1, <1>2, <1>4 DEF TidyPart
  <2>2. o.url \in Url \ Changing /\ (PassesThrough(o.url) <=> o.url \in Smil)
    BY <1>4, OpeningsAssumption DEF TidiedInv, TidiedStay, OnlySmilPasses, Opens
  <2>3. /\ m.mode = IF PassesThrough(o.url) THEN "PASSTROUGH" ELSE "TIDY"
        /\ m.sURL = o.url /\ m.since = ver /\ m.status = "open"
        /\ m.inStream = "live" /\ ~m.asked /\ m.out = <<>>
    BY DEF TidyConstructed, NoTidy
  <2> HIDE DEF m
  <2>4. ver[o.url] = 1
    BY <1>1, <2>2 DEF CopiesShown
  <2>5. /\ cur' = None /\ status'[s] = "open" /\ out'[s] = out[s]
    BY <1>1, <1>2 DEF OpenInput, NewStream, OpenFile, callVars, TypeOK
  <2>6. out[s] = <<>>
    BY <1>1, <1>2 DEF TextsInv, Texts, SlotTexts, InputTexts, Free
  <2>7. PassedOn(s)'
    BY <1>1, <2>1, <2>3, <2>5, <2>6 DEF PassedOn
  <2> QED  BY <2>1, <2>2, <2>3, <2>4, <2>7 DEF SlotDelivers, Delivers
<1> QED  BY <1>3, <1>4

LEMMA BeginDelivers ==
  ASSUME TidiedInv, NEW s \in Stream, NEW n \in 1 .. MaxRead, BeginTidyRead(s, n)
  PROVE  SlotDelivers(s)'
<1> DEFINE m == tidy[s]
<1>1. /\ TidyPart /\ m \in TidyRecord /\ s # None
      /\ m.mode # "NONE" => Delivers(s)
      /\ m.mode = "NONE" => m = NoTidy
  BY TidiedKnown
<1>2. /\ m.status = "open" /\ calling = None
      /\ tidy' = [tidy EXCEPT ![s].want = n] /\ UNCHANGED <<cur, status, out>>
  BY DEF BeginTidyRead, baseVars, vars
<1>3. m.mode # "NONE"
  BY <1>1, <1>2 DEF NoTidy
<1>4. /\ tidy'[s].mode = m.mode /\ tidy'[s].sURL = m.sURL
      /\ tidy'[s].since = m.since /\ tidy'[s].status = m.status
      /\ tidy'[s].bTidied = m.bTidied /\ tidy'[s].inStream = m.inStream
      /\ tidy'[s].docbuf = m.docbuf /\ tidy'[s].asked = m.asked
      /\ tidy'[s].out = m.out
  BY <1>1, <1>2 DEF TidyPart, TidyRecord
<1> HIDE DEF m
<1>5. CASE m.mode = "PASSTROUGH"
  <2>1. PassedOn(s)'
    BY <1>1, <1>2, <1>3, <1>4, <1>5 DEF Delivers, PassedOn, m
  <2> QED  BY <1>1, <1>2, <1>3, <1>4, <1>5, <2>1, StillPasses DEF m
<1>6. CASE m.mode # "PASSTROUGH"
  <2>1. m.mode = "TIDY" /\ ~m.bTidied /\ m.inStream = "NULL" =>
          OneOfBoth(m.docbuf, m.sURL)
    BY <1>1, <1>3 DEF Delivers, m
  <2>2. m.mode \in {"TIDY", "CACHED", "LOST"} /\ m.bTidied \in BOOLEAN
    BY <1>1, <1>3, <1>6 DEF TidyRecord
  <2> QED  BY <1>1, <1>2, <1>3, <1>4, <1>6, <2>1, <2>2, StillMends DEF m
<1> QED  BY <1>5, <1>6

LEMMA MendingDelivers ==
  ASSUME TidiedInv, NEW s \in Stream,
         \/ AskInput(s) \/ DeleteAtEnd(s) \/ DeleteOnError(s)
         \/ UseTidiedCopy(s) \/ MendInput(s)
  PROVE  SlotDelivers(s)'
<1> DEFINE m == tidy[s]
<1>1. /\ TidyPart /\ m \in TidyRecord /\ s # None /\ SlotSound(s)
      /\ TextsInv(Openings) /\ CopiesShown
      /\ m.mode # "NONE" => Delivers(s) /\ TidyTexts(s) /\ m.sURL \in Url
  BY TidiedKnown
<1>2. /\ m.mode = "TIDY" /\ ~m.bTidied
  BY DEF AskInput, DeleteAtEnd, DeleteOnError, UseTidiedCopy, MendInput, Mends,
         Performs
<1>3. Delivers(s) /\ TidyTexts(s) /\ m.sURL \in Url \ Changing /\ m.status # "closed"
  BY <1>1, <1>2 DEF Delivers
<1>4. CASE AskInput(s)
  <2>1. tidy' = tidy /\ m.inStream = "live"
    BY <1>4 DEF AskInput
  <2> QED  BY <1>2, <1>3, <2>1, StillMends
<1>5. CASE DeleteAtEnd(s)
  <2>1. m.inStream = "live" /\ InputEnds(s) /\ InputUrl(s) = m.sURL
    BY <1>2, <1>3, <1>5 DEF DeleteAtEnd, TidyTexts
  <2>2. PICK text \in Seq(Piece) :
          OneOfBoth(text, m.sURL) /\ PartOf(out[s], status[s], text)
    BY <1>1, <1>3, <2>1, InputPart
  <2>3. file[s].mode = "NONE" => status[s] \in {"open", "eof"}
    BY <1>1, <1>3, <2>1, InputPart
  <2>4. out[s] = text
    BY <1>1, <2>1, <2>2, <2>3 DEF InputEnds, PartOf, SlotSound
  <2>5. /\ tidy'[s].mode = m.mode /\ tidy'[s].sURL = m.sURL
        /\ tidy'[s].since = m.since /\ tidy'[s].status = m.status
        /\ tidy'[s].docbuf = out[s]
    BY <1>1, <1>5 DEF DeleteAtEnd, TidyPart, TidyRecord
  <2> QED  BY <1>2, <1>3, <2>2, <2>4, <2>5, StillMends
<1>6. CASE DeleteOnError(s)
  <2>1. /\ tidy'[s].mode = m.mode /\ tidy'[s].sURL = m.sURL
        /\ tidy'[s].since = m.since /\ tidy'[s].status = "error"
        /\ tidy'[s].inStream = "freed"
    BY <1>1, <1>6 DEF DeleteOnError, TidyPart, TidyRecord
  <2> QED  BY <1>2, <1>3, <2>1, StillMends
<1>7. CASE UseTidiedCopy(s)
  <2>1. /\ tidy'[s].mode = "CACHED" /\ tidy'[s].sURL = m.sURL
        /\ tidy'[s].since = m.since /\ tidy'[s].status = m.status
    BY <1>1, <1>7 DEF UseTidiedCopy, TidyPart, TidyRecord
  <2> QED  BY <1>2, <1>3, <2>1, StillMends
<1>8. CASE MendInput(s)
  <2>1. \E text : tidy' = [tidy EXCEPT ![s].bTidied = TRUE, ![s].outbuf = text,
                                       ![s].docbuf = <<>>]
    BY <1>8 DEF MendInput
  <2>2. /\ tidy'[s].mode = m.mode /\ tidy'[s].sURL = m.sURL
        /\ tidy'[s].since = m.since /\ tidy'[s].status = m.status
        /\ tidy'[s].bTidied
    BY <1>1, <2>1 DEF TidyPart, TidyRecord
  <2> QED  BY <1>2, <1>3, <2>2, StillMends
<1> QED  BY <1>4, <1>5, <1>6, <1>7, <1>8

\* What is returned is what the reader has then, besides what it had.
ReturnsTo(s, data) ==
  /\ calling' = None /\ ver' = ver
  /\ \E m \in TidyRecord :
       tidy' = [tidy EXCEPT ![s] = m] /\ TidyReturned(tidy[s], data, m)

LEMMA DeliverReturns ==
  ASSUME TidiedInv, NEW s \in Stream,
         DeliverBuffer(s) \/ DeliverCopy(s) \/ PassOn(s)
  PROVE  \E data \in Seq(Piece) :
           /\ ReturnsTo(s, data)
           /\ PassOn(s) => data = SubSeq(out[s], Len(tidy[s].out) + 1, Len(out[s]))
<1> DEFINE m == tidy[s]
<1>1. /\ CustodyInv /\ m \in TidyRecord /\ out[s] \in Seq(Piece)
  BY TidiedKnown
<1>2. TidyTypeInv
  BY <1>1 DEF CustodyInv
<1>3. ASSUME NEW data \in Seq(Piece), TidyReturns(s, data, m), ver' = ver
      PROVE  ReturnsTo(s, data)
  BY <1>1, <1>3, TidyReturn DEF ReturnsTo, TidyReturns
<1>4. CASE DeliverBuffer(s)
  <2> DEFINE k    == Least(m.want, Len(m.outbuf) - m.fTotalBytesRead)
             last == m.fTotalBytesRead + k
             data == SubSeq(m.outbuf, m.fTotalBytesRead + 1, last)
  <2>1. TidyReturns(s, data, m) /\ ver' = ver /\ ~PassOn(s)
    BY <1>4 DEF DeliverBuffer, PassOn, baseVars, vars
  <2>2. m.outbuf \in Seq(Piece) /\ m.fTotalBytesRead \in Nat /\ m.want \in Nat
    BY <1>1 DEF TidyRecord
  <2> HIDE DEF m
  <2>3. Len(m.outbuf) \in Nat
    BY <2>2, LenProperties
  <2>4. last \in Int /\ last <= Len(m.outbuf)
    BY <2>2, <2>3 DEF Least
  <2>5. data \in Seq(Piece)
    <3> HIDE DEF last
    <3> QED  BY <2>2, <2>4, PartType
  <2> HIDE DEF data
  <2> QED  BY <1>3, <2>1, <2>5
<1>5. CASE DeliverCopy(s)
  <2> DEFINE o == m.cacheObject
  <2>1. PICK r \in IF Live(o) THEN ReadOutcomes(heap[o], m.want) ELSE NothingRead(o) :
          TidyReturns(s, r.data, m)
    BY <1>5 DEF DeliverCopy
  <2>2. ver' = ver /\ ~PassOn(s)
    BY <1>5 DEF DeliverCopy, PassOn
  <2>3. m.want \in Nat /\ o \in Obj \cup {None}
    BY <1>1 DEF TidyRecord
  <2> HIDE DEF o
  <2>4. r.data \in Seq(Piece)
    BY <1>2, <2>1, <2>3, CopyReadType DEF TidyTypeInv
  <2> QED  BY <1>3, <2>1, <2>2, <2>4
<1>6. CASE PassOn(s)
  <2> DEFINE data == SubSeq(out[s], Len(m.out) + 1, Len(out[s]))
  <2>1. TidyReturns(s, data, m) /\ ver' = ver
    BY <1>6 DEF PassOn, baseVars, vars
  <2>2. m.out \in Seq(Piece)
    BY <1>1 DEF TidyRecord
  <2>3. data \in Seq(Piece)
    <3>1. Len(out[s]) \in Nat /\ Len(m.out) \in Nat
      BY <1>1, <2>2, LenProperties
    <3> QED  BY <1>1, <2>2, <3>1, PartType
  <2>4. ReturnsTo(s, data)
    <3> HIDE DEF data, m
    <3> QED  BY <1>3, <2>1, <2>3
  <2> QED  BY <2>3, <2>4
<1> QED  BY <1>4, <1>5, <1>6

\* What PASSTROUGH passes on is all that its input has returned.
LEMMA RestOf ==
  ASSUME NEW got \in Seq(Piece), NEW all \in Seq(Piece), IsPrefix(got, all)
  PROVE  LET data == SubSeq(all, Len(got) + 1, Len(all))
         IN  /\ got \o data = all
             /\ (data = <<>> <=> got = all)
<1> DEFINE data == SubSeq(all, Len(got) + 1, Len(all))
           i == Len(got)
           k == Len(all) - i
<1>1. /\ i \in 0 .. Len(all) /\ k \in Nat /\ i + k = Len(all)
      /\ got = SubSeq(all, 1, i)
  BY BeginningOf
<1>2. /\ SubSeq(all, i + 1, i + k) \in Seq(Piece)
      /\ Len(SubSeq(all, i + 1, i + k)) = k
      /\ SubSeq(all, 1, i) \o SubSeq(all, i + 1, i + k) = SubSeq(all, 1, i + k)
  <2> HIDE DEF i, k
  <2> QED  BY <1>1, NextPart
<1>3. got \o data = all
  BY <1>1, <1>2, SubSeqFull
<1>4. data \in Seq(Piece) /\ Len(data) = k
  BY <1>1, <1>2
<1> HIDE DEF data, i
<1>5. data = <<>> => got = all
  BY <1>3, ConcatEmptySeq
<1>6. got = all => k = 0
  BY <1>1 DEF i
<1>7. k = 0 => data = <<>>
  BY <1>4, EmptySeq
<1> QED  BY <1>3, <1>5, <1>6, <1>7 DEF data, i

LEMMA ReturnDelivers ==
  ASSUME TidiedInv, NEW s \in Stream, DeliverBuffer(s) \/ DeliverCopy(s)
  PROVE  SlotDelivers(s)'
<1> DEFINE m == tidy[s]
<1>1. /\ TidyPart /\ ((m.mode = "TIDY" /\ m.bTidied) \/ m.mode = "CACHED")
  BY TidiedKnown DEF DeliverBuffer, DeliverCopy
<1>2. Delivers(s)
  BY <1>1, TidiedKnown
<1>3. PICK data \in Seq(Piece), p \in TidyRecord :
         tidy' = [tidy EXCEPT ![s] = p] /\ TidyReturned(m, data, p)
  BY DeliverReturns DEF ReturnsTo
<1>4. tidy'[s] = p
  BY <1>1, <1>3 DEF TidyPart
<1>5. /\ p.mode = m.mode /\ p.sURL = m.sURL /\ p.since = m.since
      /\ p.status # "closed" /\ p.bTidied = m.bTidied
  BY <1>3 DEF TidyReturned
<1> QED  BY <1>1, <1>2, <1>4, <1>5, StillMends

LEMMA PassOnDelivers ==
  ASSUME TidiedInv, NEW s \in Stream, PassOn(s)
  PROVE  SlotDelivers(s)'
<1> DEFINE m == tidy[s]
           data == SubSeq(out[s], Len(m.out) + 1, Len(out[s]))
<1>1. /\ m.mode = "PASSTROUGH" /\ m.asked /\ cur = None
      /\ ~(status[s] = "error" /\ file[s].mode # "NONE")
      /\ UNCHANGED <<cur, status, out>>
  BY DEF PassOn, Calls, baseVars, vars
<1>2. /\ TextsInv(Openings) /\ CopiesShown /\ Delivers(s) /\ TidyPart /\ s # None
      /\ m \in TidyRecord /\ out[s] \in Seq(Piece)
  BY <1>1, TidiedKnown
<1>3. status[s] \in {"open", "eof"}
  BY <1>1, <1>2, InputPasses
<1>4. /\ IF status[s] = "open" THEN IsPrefix(m.out, out[s]) /\ m.out # out[s]
         ELSE m.out = out[s]
      /\ m.out \in Seq(Piece)
  BY <1>1, <1>2 DEF Delivers, PassedOn, TidyRecord
<1>5. m.out \o data = out[s] /\ (data = <<>> <=> status[s] = "eof")
  <2>1. IsPrefix(m.out, out[s])
    BY <1>2, <1>4, AllAndNothing
  <2> DEFINE got == m.out
             all == out[s]
  <2> HIDE DEF m, got, all
  <2>2. got \o SubSeq(all, Len(got) + 1, Len(all)) = all
        /\ (SubSeq(all, Len(got) + 1, Len(all)) = <<>> <=> got = all)
    BY <1>2, <1>4, <2>1, RestOf DEF got, all
  <2> QED  BY <1>3, <1>4, <2>2 DEF got, all
<1>6. PICK p \in TidyRecord : /\ tidy' = [tidy EXCEPT ![s] = p]
                              /\ TidyReturned(m, data, p)
  BY DeliverReturns DEF ReturnsTo
<1>7. tidy'[s] = p
  BY <1>2, <1>6 DEF TidyPart
<1>8. /\ p.mode = m.mode /\ p.sURL = m.sURL /\ p.since = m.since /\ ~p.asked
      /\ p.out = out[s] /\ p.status = status[s] /\ p.status # "closed"
  BY <1>3, <1>5, <1>6 DEF TidyReturned
<1>9. PassedOn(s)'
  BY <1>1, <1>2, <1>7, <1>8 DEF PassedOn
<1> QED  BY <1>1, <1>2, <1>7, <1>8, <1>9, StillPasses

LEMMA PassErrorDelivers ==
  ASSUME TidiedInv, NEW s \in Stream, PassErrorOn(s)
  PROVE  SlotDelivers(s)'
<1> DEFINE m == tidy[s]
<1>1. /\ m.mode = "PASSTROUGH" /\ m.asked /\ cur = None /\ status[s] = "error"
      /\ UNCHANGED <<cur, status, out>>
  BY DEF PassErrorOn, Calls, baseVars, vars
<1>2. /\ Delivers(s) /\ TidyPart /\ s # None /\ m \in TidyRecord
  BY <1>1, TidiedKnown
<1>3. m.out = out[s]
  BY <1>1, <1>2 DEF Delivers, PassedOn
<1>4. /\ tidy'[s].mode = m.mode /\ tidy'[s].sURL = m.sURL
      /\ tidy'[s].since = m.since /\ tidy'[s].status = "error"
      /\ ~tidy'[s].asked /\ tidy'[s].out = m.out
  BY <1>2 DEF PassErrorOn, TidyPart, TidyRecord
<1>5. PassedOn(s)'
  BY <1>1, <1>2, <1>3, <1>4 DEF PassedOn
<1> QED  BY <1>1, <1>2, <1>4, <1>5, StillPasses

LEMMA AskDelivers ==
  ASSUME TidiedInv, NEW s \in Stream, AskAndPassOn(s)
  PROVE  SlotDelivers(s)'
<1> DEFINE m == tidy[s]
<1>1. /\ m.mode = "PASSTROUGH" /\ ~m.asked /\ calling = s /\ calling' = s
      /\ ReadInput(s, m.want) /\ tidy' = [tidy EXCEPT ![s].asked = TRUE]
  BY DEF AskAndPassOn, Calls
<1>2. /\ Delivers(s) /\ TidyPart /\ s # None /\ m \in TidyRecord /\ CustodyInv
  BY <1>1, TidiedKnown
<1>3. m.want \in 1 .. MaxRead
  BY <1>1, <1>2 DEF TidyPart, CallerWants
<1>4. out[s] = m.out
  BY <1>1, <1>2 DEF Delivers, PassedOn
<1>5. /\ tidy'[s].mode = m.mode /\ tidy'[s].sURL = m.sURL
      /\ tidy'[s].since = m.since /\ tidy'[s].status = m.status
      /\ tidy'[s].asked /\ tidy'[s].out = m.out
  BY <1>1, <1>2 DEF TidyPart, TidyRecord
<1>6. PassedOn(s)'
  BY <1>1, <1>2, <1>3, <1>4, <1>5, ReadAnswers, AnswerPasses
<1>7. m.status # "closed"
  BY <1>2 DEF Delivers
<1> QED  BY <1>1, <1>2, <1>5, <1>6, <1>7, StillPasses

LEMMA CallDelivers ==
  ASSUME TidiedInv, NEW s \in Stream, CallStep
  PROVE  SlotDelivers(s)'
<1> DEFINE m == tidy[s]
<1>1. /\ CustodyInv /\ Stream = {s} /\ s # None /\ m \in TidyRecord
      /\ m.mode = "NONE" => m = NoTidy
      /\ m.mode # "NONE" => Delivers(s)
  BY TidiedKnown
<1>2. ReadStep /\ tidy' = tidy /\ calling' = calling
  BY DEF CallStep
<1>3. cur = s /\ Answers(s, out[s])
  BY <1>1, <1>2, CallAnswers
<1>4. CASE m.mode = "NONE"
  BY <1>1, <1>2, <1>4, NothingTidied
<1>5. CASE m.mode = "PASSTROUGH"
  <2>1. m.asked /\ calling = s /\ out[s] = m.out /\ m.status # "closed"
    BY <1>1, <1>3, <1>5 DEF Delivers, PassedOn
  <2>2. PassedOn(s)'
    BY <1>2, <1>3, <1>5, <2>1, AnswerPasses
  <2> QED  BY <1>1, <1>2, <1>5, <2>1, <2>2, StillPasses
<1>6. CASE m.mode \notin {"NONE", "PASSTROUGH"}
  <2>1. /\ m.mode = "TIDY" /\ ~m.bTidied /\ m.inStream = "NULL" =>
             OneOfBoth(m.docbuf, m.sURL)
        /\ m.status # "closed"
    BY <1>1, <1>6 DEF Delivers
  <2> QED  BY <1>1, <1>2, <1>6, <2>1, StillMends
<1> QED  BY <1>4, <1>5, <1>6

LEMMA CloseDelivers ==
  ASSUME TidiedInv, NEW s \in Stream, Closes(s)
  PROVE  SlotDelivers(s)'
<1>1. /\ TidyPart /\ (tidy[s].mode = "NONE" => tidy[s] = NoTidy)
  BY TidiedKnown
<1>2. \/ tidy' = tidy /\ tidy[s].mode = "NONE"
      \/ tidy' = [tidy EXCEPT ![s] = NoTidy]
  BY DEF Closes, DeletePlain, DeleteTidied, DeleteCached, DeletePassThrough
<1>3. tidy'[s] = NoTidy
  BY <1>1, <1>2 DEF TidyPart
<1> QED  BY <1>3, NothingTidied

LEMMA DeliversStep ==
  ASSUME TidiedInv, NEW s \in Stream, ReadingStep(Openings)
  PROVE  SlotDelivers(s)'
<1>1. Stream = {s} /\ SlotDelivers(s)
  BY TidiedKnown
<1>2. CASE \E o \in Openings : OpenStream(s, o)
  BY <1>2, OpenDelivers
<1>3. CASE \E n \in 1 .. MaxRead : ReadPlain(s, n)
  <2>1. tidy' = tidy /\ tidy[s] = NoTidy
    BY <1>3, TidiedKnown DEF ReadPlain
  <2> QED  BY <2>1, NothingTidied
<1>4. CASE \E n \in 1 .. MaxRead : BeginTidyRead(s, n)
  BY <1>4, BeginDelivers
<1>5. CASE TidyReadStep(s)
  BY <1>5, MendingDelivers, ReturnDelivers, AskDelivers, PassOnDelivers,
     PassErrorDelivers DEF TidyReadStep
<1>6. CASE Closes(s)
  BY <1>6, CloseDelivers
<1>7. CASE CallStep
  BY <1>7, CallDelivers
<1>8. CASE DestroyInstance \/ (\E u \in Url : Publish(u)) \/ UNCHANGED tidyVars
  <2>1. UNCHANGED <<tidy, calling, cur, status, out>>
    BY <1>8 DEF DestroyInstance, Publish, ServerUpdate, tidyVars, vars, callVars,
                clientVars
  <2> QED  BY <1>1, <2>1, DeliversUnmoved
<1> QED  BY <1>1, <1>2, <1>3, <1>4, <1>5, <1>6, <1>7, <1>8 DEF ReadingStep

LEMMA TidiedStep ==
  ASSUME TidiedInv, ReadingStep(Openings)
  PROVE  TidiedInv'
<1>1. TextsInv(Openings) /\ SteadyUse(Openings) /\ OnlySmilPasses /\ TidiedStay
  BY DEF TidiedInv
<1>2. TextsInv(Openings)'
  BY <1>1, TextsStep, OpeningsAssumption
<1>3. CopiesShown'
  BY <1>2, CopiesStep
<1>4. \A s \in Stream : SlotDelivers(s)'
  BY DeliversStep
<1>5. SteadyUse(Openings)' /\ OnlySmilPasses' /\ TidiedStay'
  BY <1>1 DEF SteadyUse, OnlySmilPasses, TidiedStay, PassesThrough, RfindSmil
<1> QED  BY <1>2, <1>3, <1>4, <1>5 DEF TidiedInv

LEMMA TidiedStarts ==
  ASSUME TextsInv(Openings), SteadyUse(Openings), OnlySmilPasses, TidiedStay, TidyInit
  PROVE  TidiedInv
<1>1. /\ ver = [u \in Url |-> 1] /\ HttpCache = [u \in Url |-> None]
      /\ tidy = [s \in Stream |-> NoTidy]
  BY DEF TidyInit, Init, HandlerInit
<1>2. CopiesShown
  BY <1>1 DEF CopiesShown
<1>3. \A s \in Stream : SlotDelivers(s)
  BY <1>1, NoTidyType DEF SlotDelivers
<1> QED  BY <1>2, <1>3 DEF TidiedInv

\* A TidyStream is only in a call while its reader has neither the end nor an
\* error.
CallerReads == calling # None => tidy[calling].status = "open"

\* What of a step the reader of the tidied stream cannot see.
Unseen(s) ==
  LET m == tidy[s]
      p == tidy'[s]
  IN
  /\ m.mode \notin {"NONE", "LOST"} /\ p.mode \notin {"NONE", "LOST"}
  /\ p.sURL = m.sURL /\ p.status = m.status /\ p.out = m.out /\ p.since = m.since

LEMMA StepsUnseen ==
  ASSUME TidyPart, NEW s \in Stream,
         DeleteAtEnd(s) \/ UseTidiedCopy(s) \/ MendInput(s) \/ AskAndPassOn(s)
  PROVE  Unseen(s)
<1>1. tidy \in [Stream -> TidyRecord] /\ tidy[s] \in TidyRecord
  BY DEF TidyPart
<1>2. CASE DeleteAtEnd(s)
  <2>1. tidy' = [tidy EXCEPT ![s].docbuf = out[s], ![s].inStream = "NULL"]
        /\ tidy[s].mode = "TIDY"
    BY <1>2 DEF DeleteAtEnd, Performs
  <2> QED  BY <1>1, <2>1 DEF TidyRecord, Unseen
<1>3. CASE UseTidiedCopy(s)
  <2>1. tidy' = [tidy EXCEPT ![s].mode = "CACHED", ![s].cacheObject = CopyFound(s),
                             ![s].bTidied = TRUE]
        /\ tidy[s].mode = "TIDY"
    BY <1>3 DEF UseTidiedCopy, Mends, Performs
  <2> QED  BY <1>1, <2>1 DEF TidyRecord, Unseen
<1>4. CASE MendInput(s)
  <2>1. tidy' = [tidy EXCEPT ![s].bTidied = TRUE,
                             ![s].outbuf = Tidy(tidy[s].sURL, tidy[s].docbuf),
                             ![s].docbuf = <<>>]
        /\ tidy[s].mode = "TIDY"
    BY <1>4 DEF MendInput, Mends, Performs
  <2> QED  BY <1>1, <2>1 DEF TidyRecord, Unseen
<1>5. CASE AskAndPassOn(s)
  <2>1. tidy' = [tidy EXCEPT ![s].asked = TRUE] /\ tidy[s].mode = "PASSTROUGH"
    BY <1>5 DEF AskAndPassOn
  <2> QED  BY <1>1, <2>1 DEF TidyRecord, Unseen
<1> QED  BY <1>2, <1>3, <1>4, <1>5

LEMMA CallerReadsStep ==
  ASSUME TidyPart, CallerReads, ReadingStep(Openings)
  PROVE  CallerReads'
<1>1. ASSUME NEW s \in Stream, NEW n, BeginTidyRead(s, n)
      PROVE  CallerReads'
  BY <1>1 DEF BeginTidyRead, TidyPart, TidyRecord, CallerReads
<1>2. CASE UNCHANGED <<tidy, calling>>
  BY <1>2 DEF CallerReads
<1>3. CASE calling' = None
  BY <1>3 DEF CallerReads
<1>4. ASSUME NEW s \in Stream,
             DeleteAtEnd(s) \/ UseTidiedCopy(s) \/ MendInput(s) \/ AskAndPassOn(s)
      PROVE  CallerReads'
  <2>1. /\ calling = s /\ calling' = calling
        /\ s # None
    BY <1>4, StreamAssumption
       DEF DeleteAtEnd, UseTidiedCopy, MendInput, AskAndPassOn, Mends, Performs,
           Calls, TidyPart
  <2>2. tidy'[s].status = tidy[s].status
    BY <1>4, StepsUnseen DEF Unseen
  <2> QED  BY <2>1, <2>2 DEF CallerReads
<1>5. ASSUME NEW s \in Stream, TidyReadStep(s) PROVE CallerReads'
  BY <1>2, <1>3, <1>4, <1>5
     DEF TidyReadStep, AskInput, DeleteOnError, DeliverBuffer, DeliverCopy, PassOn,
         PassErrorOn, TidyReturns
<1>6. ASSUME NEW s \in Stream, NEW o, OpenStream(s, o) PROVE CallerReads'
  BY <1>3, <1>6 DEF OpenStream
<1>7. ASSUME NEW s \in Stream, Closes(s) PROVE CallerReads'
  BY <1>3, <1>7
     DEF Closes, DeletePlain, DeleteTidied, DeleteCached, DeletePassThrough
<1>8. ASSUME NEW s \in Stream, NEW n, ReadPlain(s, n) PROVE CallerReads'
  BY <1>2, <1>8 DEF ReadPlain
<1>9. CASE CallStep \/ DestroyInstance \/ (\E u \in Url : Publish(u))
           \/ UNCHANGED tidyVars
  BY <1>2, <1>9 DEF CallStep, DestroyInstance, Publish, tidyVars
<1> QED
  BY <1>1, <1>5, <1>6, <1>7, <1>8, <1>9 DEF ReadingStep

ShowingInv == ~Abandons /\ SteadyServers /\ TidiedInv /\ CallerReads

LEMMA TidiedInvariant ==
  TidySequential /\ SteadyServers /\ SteadyUse(Openings) /\ OnlySmilPasses /\ TidiedStay
    => []ShowingInv
<1> DEFINE Set == /\ ~Abandons /\ SteadyServers /\ SteadyUse(Openings)
                  /\ OnlySmilPasses /\ TidiedStay
<1>1. Set /\ OneAtATime /\ NoRedirection /\ TidyInit => ShowingInv
  <2> SUFFICES ASSUME Set, OneAtATime, NoRedirection, TidyInit PROVE ShowingInv
    OBVIOUS
  <2>1. TextsInv(Openings)
    BY TextsInit
  <2>2. CallerReads
    BY DEF CallerReads, TidyInit
  <2> QED  BY <2>1, <2>2, TidiedStarts DEF ShowingInv
<1>2. ShowingInv /\ [TidyNext]_tidyVars => ShowingInv'
  <2> SUFFICES ASSUME ShowingInv, [TidyNext]_tidyVars
               PROVE  ShowingInv'
    OBVIOUS
  <2>1. ReadingStep(Openings)
    BY TidySteps DEF StreamsStep, DeleteUnread, ShowingInv
  <2>2. TidyPart
    BY DEF ShowingInv, TidiedInv, TextsInv, CustodyInv, TidyTypeInv
  <2>3. TidiedInv' /\ CallerReads'
    BY <2>1, <2>2, TidiedStep, CallerReadsStep DEF ShowingInv
  <2>4. ~Abandons' /\ SteadyServers'
    BY DEF ShowingInv, SteadyServers
  <2> QED  BY <2>3, <2>4 DEF ShowingInv
<1> QED  BY <1>1, <1>2, PTL DEF TidySequential, TidySpec

\* What is delivered of a tidied document is a part of it.
TidiedShown ==
  \A s \in Stream :
    LET m == tidy[s]
    IN  \/ m.mode = "TIDY" /\ m.bTidied
        \/ m.mode = "CACHED"
        \/ m.mode = "PASSTROUGH" /\ ~m.asked
        => PartOf(m.out, m.status, Shown(m.sURL))

LEMMA ShownOf == TidiedInv => TidiedShown
<1> SUFFICES ASSUME TidiedInv PROVE TidiedShown
  OBVIOUS
<1>1. ASSUME NEW s \in Stream,
             LET m == tidy[s]
             IN  \/ m.mode = "TIDY" /\ m.bTidied
                 \/ m.mode = "CACHED"
                 \/ m.mode = "PASSTROUGH" /\ ~m.asked
      PROVE  PartOf(tidy[s].out, tidy[s].status, Shown(tidy[s].sURL))
  <2>1. TextsInv(Openings) /\ CopiesShown /\ Delivers(s)
    BY <1>1, TidiedKnown
  <2> QED  BY <1>1, <2>1, TidiedPart
<1> QED  BY <1>1 DEF TidiedShown

-----------------------------------------------------------------------------
(***************************************************************************)
(* The steps, as the reader of the tidied document sees them.              *)
(***************************************************************************)
LEMMA TidiedNow ==
  ASSUME NEW s \in Stream
  PROVE  /\ TidiedLoc[s] = IF IsTidied(s) THEN tidy[s].sURL ELSE None
         /\ TidiedStatus[s] = tidy[s].status
         /\ TidiedOut[s] = tidy[s].out /\ TidiedSince[s] = tidy[s].since
BY DEF TidiedLoc, TidiedStatus, TidiedOut, TidiedSince

LEMMA TidiedFunctions ==
  /\ TidiedLoc = [s \in Stream |-> TidiedLoc[s]]
  /\ TidiedStatus = [s \in Stream |-> TidiedStatus[s]]
  /\ TidiedOut = [s \in Stream |-> TidiedOut[s]]
  /\ TidiedSince = [s \in Stream |-> TidiedSince[s]]
BY DEF TidiedLoc, TidiedStatus, TidiedOut, TidiedSince

\* A function is what it is updated to be already.
LEMMA NotUpdated ==
  ASSUME NEW f, f = [s \in Stream |-> f[s]], NEW s \in Stream, NEW x, f[s] = x
  PROVE  [f EXCEPT ![s] = x] = f
OBVIOUS

LEMMA ReturnShows ==
  ASSUME TidiedInv, CallerReads, TidiedShown', NEW s \in Stream,
         DeliverBuffer(s) \/ DeliverCopy(s) \/ PassOn(s)
  PROVE  TidiedDocument!Next
<1> DEFINE m == tidy[s]
           u == m.sURL
           text == Shown(u)
<1>1. /\ calling = s
      /\ \/ m.mode = "TIDY" /\ m.bTidied
         \/ m.mode = "CACHED"
         \/ m.mode = "PASSTROUGH"
  BY DEF DeliverBuffer, DeliverCopy, PassOn, Calls
<1>2. /\ TidyPart /\ CopiesShown /\ s # None /\ IsTidied(s) /\ Delivers(s)
      /\ m \in TidyRecord /\ u \in Url
  BY <1>1, TidiedKnown
<1>3. /\ m.status = "open" /\ m.since[u] = 1 /\ ver[u] = 1
      /\ m.out \in Seq(Piece) /\ text \in Seq(Piece)
  BY <1>1, <1>2, ShownType DEF CallerReads, Delivers, CopiesShown, TidyRecord
<1>4. PICK data \in Seq(Piece) : ReturnsTo(s, data)
  BY DeliverReturns
<1>5. PICK p \in TidyRecord : tidy' = [tidy EXCEPT ![s] = p] /\ TidyReturned(m, data, p)
  BY <1>4 DEF ReturnsTo
<1>6. ver' = ver
  BY <1>4 DEF ReturnsTo
<1>7. /\ p.mode = m.mode /\ p.bTidied = m.bTidied /\ p.sURL = u /\ ~p.asked
      /\ p.out = m.out \o data /\ p.since = m.since
      /\ p.status = IF data = <<>> THEN "eof" ELSE "open"
  BY <1>5 DEF TidyReturned
<1>8. PartOf(p.out, p.status, text)
  <2>1. tidy'[s] = p
    BY <1>2, <1>5 DEF TidyPart
  <2>2. LET q == tidy'[s]
        IN  \/ q.mode = "TIDY" /\ q.bTidied
            \/ q.mode = "CACHED"
            \/ q.mode = "PASSTROUGH" /\ ~q.asked
            => PartOf(q.out, q.status, Shown(q.sURL))
    BY DEF TidiedShown, Shown, PartOf
  <2> QED  BY <1>1, <1>7, <2>1, <2>2
<1>9. /\ TidiedLoc[s] = u /\ TidiedStatus[s] = "open"
      /\ TidiedOut[s] = m.out /\ TidiedSince[s] = m.since
  BY <1>2, <1>3, TidiedNow
<1>10. /\ TidiedLoc' = TidiedLoc /\ TidiedSince' = TidiedSince
       /\ TidiedStatus' = [TidiedStatus EXCEPT ![s] = p.status]
       /\ TidiedOut' = [TidiedOut EXCEPT ![s] = p.out]
  <2>1. m.mode \notin {"NONE", "LOST"}
    BY <1>1
  <2>2. /\ TidiedLoc' = [TidiedLoc EXCEPT ![s] = u]
        /\ TidiedStatus' = [TidiedStatus EXCEPT ![s] = p.status]
        /\ TidiedOut' = [TidiedOut EXCEPT ![s] = p.out]
        /\ TidiedSince' = [TidiedSince EXCEPT ![s] = m.since]
    <3> HIDE DEF m, u
    <3> QED  BY <1>2, <1>5, <1>7, <2>1, TidiedMapped
  <2> HIDE DEF m, u
  <2>3. /\ [TidiedLoc EXCEPT ![s] = u] = TidiedLoc
        /\ [TidiedSince EXCEPT ![s] = m.since] = TidiedSince
    BY <1>9, TidiedFunctions, NotUpdated
  <2> QED  BY <2>2, <2>3
<1> HIDE DEF m, u, text
<1>11. TidiedSince[s][u] = 1 /\ text = TidiedBody(u, 1)
  BY <1>3, <1>9 DEF text, Shown
<1>12. CASE data = <<>>
  <2>1. p.out = m.out /\ p.status = "eof" /\ m.out = text
    BY <1>3, <1>7, <1>8, <1>12, ConcatEmptySeq DEF PartOf
  <2>2. TidiedOut' = TidiedOut
    BY <1>9, <1>10, <2>1, TidiedFunctions, NotUpdated
  <2>3. TidiedStatus' = [TidiedStatus EXCEPT ![s] = "eof"] /\ TidiedOut[s] = text
    BY <1>9, <1>10, <2>1
  <2>4. TidiedDocument!End(s)
    BY <1>3, <1>6, <1>9, <1>10, <1>11, <2>2, <2>3, TidiedEnds
  <2> QED  BY <2>4 DEF TidiedDocument!Next
<1>13. CASE data # <<>>
  <2> DEFINE got == m.out
             n   == Len(got \o data)
  <2>1. p.status = "open"
    BY <1>7, <1>13
  <2>2. TidiedStatus' = TidiedStatus
    BY <1>9, <1>10, <2>1, TidiedFunctions, NotUpdated
  <2>3. IsPrefix(got \o data, text)
    BY <1>7, <1>8 DEF PartOf
  <2>4. got \in Seq(Piece) /\ TidiedOut[s] = got
    BY <1>3, <1>9
  <2>5. p.out = got \o data
    BY <1>7
  <2> HIDE DEF got
  <2>6. /\ n \in Len(got) + 1 .. Len(text)
        /\ got = SubSeq(text, 1, Len(got))
        /\ got \o data = SubSeq(text, 1, n)
    BY <1>3, <1>13, <2>3, <2>4, Further
  <2>7. TidiedOut' = [TidiedOut EXCEPT ![s] = SubSeq(text, 1, n)]
    BY <1>10, <2>5, <2>6
  <2> HIDE DEF n
  <2>8. TidiedDocument!Deliver(s)
    <3>1. /\ UNCHANGED ver /\ ver[u] = 1 /\ text = TidiedBody(u, 1)
          /\ TidiedLoc' = TidiedLoc /\ TidiedStatus' = TidiedStatus
          /\ TidiedSince' = TidiedSince
          /\ TidiedLoc[s] = u /\ TidiedStatus[s] = "open" /\ TidiedSince[s][u] = 1
      BY <1>3, <1>6, <1>9, <1>10, <1>11, <2>2
    <3>2. /\ TidiedOut[s] = got /\ got = SubSeq(text, 1, Len(got))
          /\ n \in Len(got) + 1 .. Len(text)
          /\ TidiedOut' = [TidiedOut EXCEPT ![s] = SubSeq(text, 1, n)]
      BY <2>4, <2>6, <2>7
    <3> QED  BY <3>1, <3>2, TidiedDelivers, ZenonT(60)
  <2> QED  BY <2>8 DEF TidiedDocument!Next
<1> QED  BY <1>12, <1>13

\* Only a server publishes versions.
LEMMA InputKeepsVersions ==
  ASSUME NEW s \in Stream
  PROVE  /\ \A n : ReadInput(s, n) => ver' = ver
         /\ DeleteInput(s) => ver' = ver
         /\ \A o : OpenInput(s, o) => ver' = ver
         /\ CallStep => ver' = ver
<1>1. \A n : ReadInput(s, n) => ver' = ver
  <2>1. ASSUME NEW n, BeginRead(s, n) PROVE ver' = ver
    BY <2>1 DEF BeginRead
  <2>2. ASSUME NEW n, ReadFile(s, n) PROVE ver' = ver
    BY <2>2 DEF ReadFile, ReadDisk, ReadDiskFails, ReadCopy, httpVars
  <2> QED  BY <2>1, <2>2 DEF ReadInput
<1>2. DeleteInput(s) => ver' = ver
  <2>1. Delete(s) => ver' = ver
    <3> SUFFICES ASSUME Delete(s) PROVE ver' = ver
      OBVIOUS
    <3>1. UNCHANGED <<callVars, ver>>
      BY ZenonT(60) DEF Delete
    <3> QED  BY <3>1
  <2>2. CloseFile(s) => ver' = ver
    BY DEF CloseFile
  <2> QED  BY <2>1, <2>2 DEF DeleteInput
<1>3. \A o : OpenInput(s, o) => ver' = ver
  <2>1. ASSUME NEW u, NEW mode, NewStream(s, u, mode) PROVE ver' = ver
    BY <2>1, ZenonT(60) DEF NewStream
  <2> QED  BY <2>1 DEF OpenInput, OpenFile
<1>4. CallStep => ver' = ver
  <2>1. ASSUME NEW t \in Stream, Transfer(t) PROVE ver' = ver
    <3>1. CASE Header(t)
      BY <3>1 DEF Header, HeadOK, HeadNotModified, HeadRedirect, HeadError
    <3>2. CASE Data(t) \/ Complete(t) \/ Fail(t)
      BY <3>2 DEF Data, Complete, Fail
    <3> QED  BY <2>1, <3>1, <3>2 DEF Transfer
  <2>2. ASSUME TakeMessage PROVE ver' = ver
    BY <2>2 DEF TakeMessage, TakeFinished, TakeUnmodified, TakeRedirect, TakeError
  <2>3. PerformAgain \/ EndRead \/ EndReadFromCache => ver' = ver
    BY DEF PerformAgain, EndRead, EndReadFromCache
  <2> QED  BY <2>1, <2>2, <2>3 DEF CallStep, ReadStep
<1> QED  BY <1>1, <1>2, <1>3, <1>4

LEMMA UnseenStutters ==
  ASSUME NEW s \in Stream, Stream = {s}, Unseen(s), ver' = ver
  PROVE  UNCHANGED TidiedDocument!vars
<1>1. IsTidied(s)' <=> IsTidied(s)
  BY DEF Unseen, IsTidied
<1> QED  BY <1>1, TidiedStill DEF Unseen

LEMMA NothingShows ==
  ASSUME UNCHANGED <<tidy, ver>>
  PROVE  UNCHANGED TidiedDocument!vars
BY TidiedStill DEF IsTidied

LEMMA OpenShows ==
  ASSUME TidiedInv, NEW s \in Stream, NEW o \in Openings, OpenStream(s, o)
  PROVE  [TidiedDocument!Next]_(TidiedDocument!vars)
<1>1. /\ OpenInput(s, o) /\ tidy[s].mode = "NONE"
      /\ tidy' = IF o.tidy THEN [tidy EXCEPT ![s] = TidyConstructed(o)] ELSE tidy
  BY DEF OpenStream, Free
<1>2. ver' = ver
  BY <1>1, InputKeepsVersions
<1>3. CASE ~o.tidy
  BY <1>1, <1>2, <1>3, NothingShows
<1>4. CASE o.tidy
  <2> DEFINE m == TidyConstructed(o)
  <2>1. /\ tidy[s] = NoTidy /\ tidy[s].mode \in {"NONE"} /\ TidyPart
        /\ TypeOK /\ o.url \in Url /\ o.later \in BOOLEAN
    BY <1>1, TidiedKnown, OpeningsAssumption DEF Opens
  <2>2. /\ m \in TidyRecord /\ m.mode \in {"PASSTROUGH", "TIDY"}
        /\ m.sURL = o.url /\ m.status = "open" /\ m.since = ver
        /\ m.out = NoTidy.out
    <3> DEFINE how == IF PassesThrough(o.url) THEN "PASSTROUGH" ELSE "TIDY"
    <3>1. how \in {"PASSTROUGH", "TIDY"}
      OBVIOUS
    <3>2. m = [NoTidy EXCEPT !.mode = how, !.sURL = o.url, !.bUseCache = o.later,
                             !.inStream = "live", !.status = "open", !.since = ver]
      BY DEF TidyConstructed
    <3>3. ver \in [Url -> Version]
      BY <2>1 DEF TypeOK
    <3> HIDE DEF how, m
    <3> QED  BY <2>1, <3>1, <3>2, <3>3, NoTidyType DEF TidyRecord
  <2>3. tidy' = [tidy EXCEPT ![s] = m]
    BY <1>1, <1>4
  <2> HIDE DEF m
  <2>4. /\ TidiedLoc' = [TidiedLoc EXCEPT ![s] = o.url]
        /\ TidiedStatus' = [TidiedStatus EXCEPT ![s] = "open"]
        /\ TidiedOut' = [TidiedOut EXCEPT ![s] = NoTidy.out]
        /\ TidiedSince' = [TidiedSince EXCEPT ![s] = ver]
    BY <2>1, <2>2, <2>3, TidiedMapped
  <2>5. TidiedStatus[s] = "closed" /\ TidiedOut[s] = NoTidy.out
    BY <2>1, TidiedNow DEF NoTidy
  <2>6. TidiedOut' = TidiedOut
    BY <2>4, <2>5, TidiedFunctions, NotUpdated
  <2>7. TidiedDocument!Open(s, o.url)
    <3> DEFINE u == o.url
    <3>1. TidiedLoc' = [TidiedLoc EXCEPT ![s] = u]
      BY <2>4
    <3> HIDE DEF u
    <3>2. TidiedDocument!Open(s, u)
      BY <1>2, <2>4, <2>5, <2>6, <3>1, TidiedOpens
    <3> QED  BY <3>2 DEF u
  <2> QED  BY <2>1, <2>7 DEF TidiedDocument!Next
<1> QED  BY <1>3, <1>4

LEMMA FailureShows ==
  ASSUME TidiedInv, CallerReads, NEW s \in Stream,
         DeleteOnError(s) \/ PassErrorOn(s)
  PROVE  TidiedDocument!Next
<1> DEFINE m == tidy[s]
           p == tidy'[s]
<1>1. /\ calling = s /\ m.mode \in {"TIDY", "PASSTROUGH"}
  BY DEF DeleteOnError, PassErrorOn, Performs, Calls
<1>2. /\ TidyPart /\ s # None /\ Stream = {s} /\ m \in TidyRecord
  BY TidiedKnown
<1>3. ver' = ver
  BY DEF DeleteOnError, CloseFile, PassErrorOn, baseVars, vars
<1>4. /\ p.mode = m.mode /\ p.sURL = m.sURL /\ p.status = "error"
      /\ p.out = m.out /\ p.since = m.since
  <2>1. CASE DeleteOnError(s)
    <3>1. tidy' = [tidy EXCEPT ![s].inStream = "freed", ![s].status = "error",
                               ![s].want = 0]
      BY <2>1 DEF DeleteOnError
    <3> QED  BY <1>2, <3>1 DEF TidyPart, TidyRecord
  <2>2. CASE PassErrorOn(s)
    <3>1. tidy' = [tidy EXCEPT ![s].status = "error", ![s].asked = FALSE,
                               ![s].want = 0]
      BY <2>2 DEF PassErrorOn
    <3> QED  BY <1>2, <3>1 DEF TidyPart, TidyRecord
  <2> QED  BY <2>1, <2>2
<1>5. m.status = "open"
  BY <1>1, <1>2 DEF CallerReads
<1>6. TidiedLoc[s] = m.sURL /\ TidiedStatus[s] = "open"
      /\ TidiedOut[s] = m.out /\ TidiedSince[s] = m.since
  BY <1>1, <1>5, TidiedNow DEF IsTidied
<1>7. /\ TidiedLoc' = [TidiedLoc EXCEPT ![s] = m.sURL]
      /\ TidiedStatus' = [TidiedStatus EXCEPT ![s] = "error"]
      /\ TidiedOut' = [TidiedOut EXCEPT ![s] = m.out]
      /\ TidiedSince' = [TidiedSince EXCEPT ![s] = m.since]
  <2>1. \A t \in Stream \ {s} : tidy'[t] = tidy[t]
    BY <1>2
  <2>2. p.mode \notin {"NONE", "LOST"}
    BY <1>1, <1>4
  <2> DEFINE q == p
  <2>3. tidy'[s] = q
    OBVIOUS
  <2> HIDE DEF q
  <2>4. /\ TidiedLoc' = [TidiedLoc EXCEPT ![s] =
                 IF q.mode \notin {"NONE", "LOST"} THEN q.sURL ELSE None]
        /\ TidiedStatus' = [TidiedStatus EXCEPT ![s] = q.status]
        /\ TidiedOut' = [TidiedOut EXCEPT ![s] = q.out]
        /\ TidiedSince' = [TidiedSince EXCEPT ![s] = q.since]
    BY <2>1, <2>3, TidiedMoved
  <2> QED  BY <1>4, <2>2, <2>4 DEF q
<1> HIDE DEF m, p
<1>8. UNCHANGED <<TidiedLoc, TidiedOut, TidiedSince>>
  BY <1>6, <1>7, TidiedFunctions, NotUpdated
<1>9. TidiedDocument!Fail(s)
  BY <1>3, <1>6, <1>7, <1>8, TidiedFails
<1> QED  BY <1>9 DEF TidiedDocument!Next

LEMMA CloseShows ==
  ASSUME TidiedInv, NEW s \in Stream, Closes(s)
  PROVE  [TidiedDocument!Next]_(TidiedDocument!vars)
<1>1. ver' = ver
  BY InputKeepsVersions
     DEF Closes, DeletePlain, DeleteTidied, DeleteCached, DeletePassThrough, baseVars,
         vars
<1>2. \/ tidy' = tidy
      \/ tidy' = [tidy EXCEPT ![s] = NoTidy] /\ tidy[s].mode # "NONE"
  BY DEF Closes, DeletePlain, DeleteTidied, DeleteCached, DeletePassThrough
<1>3. CASE tidy' = tidy
  BY <1>1, <1>3, NothingShows
<1>4. CASE tidy' = [tidy EXCEPT ![s] = NoTidy] /\ tidy[s].mode # "NONE"
  <2>1. TidyPart /\ Delivers(s)
    BY <1>4, TidiedKnown
  <2>2. TidiedStatus[s] # "closed"
    BY <2>1, TidiedNow DEF Delivers
  <2>3. /\ TidiedLoc' = [TidiedLoc EXCEPT ![s] =
                 IF NoTidy.mode \notin {"NONE", "LOST"} THEN NoTidy.sURL ELSE None]
        /\ TidiedStatus' = [TidiedStatus EXCEPT ![s] = NoTidy.status]
        /\ TidiedOut' = [TidiedOut EXCEPT ![s] = NoTidy.out]
        /\ TidiedSince' = [TidiedSince EXCEPT ![s] = NoTidy.since]
    BY <1>4, <2>1, NoTidyType, TidiedMapped
  <2>4. /\ NoTidy.mode = "NONE" /\ NoTidy.status = "closed" /\ NoTidy.out = <<>>
        /\ NoTidy.since = [u \in Url |-> 1]
    BY DEF NoTidy
  <2>5. TidiedDocument!Close(s)
    BY <1>1, <2>2, <2>3, <2>4, TidiedClosed
  <2> QED  BY <2>5 DEF TidiedDocument!Next
<1> QED  BY <1>2, <1>3, <1>4

\* Every step of the streams is one of DocumentStream, or none.
LEMMA TidiedSteps ==
  ASSUME TidiedInv, CallerReads, TidiedShown', ReadingStep(Openings)
  PROVE  [TidiedDocument!Next]_(TidiedDocument!vars)
<1>1. ASSUME NEW s \in Stream, NEW o \in Openings, OpenStream(s, o)
      PROVE  [TidiedDocument!Next]_(TidiedDocument!vars)
  BY <1>1, OpenShows
<1>2. ASSUME NEW s \in Stream, NEW n, ReadPlain(s, n)
      PROVE  UNCHANGED TidiedDocument!vars
  BY <1>2, InputKeepsVersions, NothingShows DEF ReadPlain
<1>3. ASSUME NEW s \in Stream, NEW n, BeginTidyRead(s, n)
      PROVE  UNCHANGED TidiedDocument!vars
  <2>1. /\ tidy[s].status = "open" /\ tidy' = [tidy EXCEPT ![s].want = n]
        /\ ver' = ver
    BY <1>3 DEF BeginTidyRead, baseVars, vars
  <2>2. Stream = {s} /\ TidyPart /\ SlotSound(s) /\ tidy[s] \in TidyRecord
    BY TidiedKnown
  <2>3. IsTidied(s)
    BY <2>1, <2>2, TidiedKnown DEF SlotSound
  <2>4. Unseen(s)
    BY <2>1, <2>2, <2>3 DEF Unseen, IsTidied, TidyPart, TidyRecord
  <2> QED  BY <2>1, <2>2, <2>4, UnseenStutters
<1>4. ASSUME NEW s \in Stream, TidyReadStep(s)
      PROVE  [TidiedDocument!Next]_(TidiedDocument!vars)
  <2>1. CASE AskInput(s)
    BY <2>1, InputKeepsVersions, NothingShows DEF AskInput
  <2>2. CASE DeleteAtEnd(s) \/ UseTidiedCopy(s) \/ MendInput(s) \/ AskAndPassOn(s)
    <3>1. ver' = ver
      BY <2>2, InputKeepsVersions
         DEF DeleteAtEnd, UseTidiedCopy, MendInput, AskAndPassOn
    <3>2. Stream = {s} /\ TidyPart
      BY TidiedKnown
    <3> QED  BY <2>2, <3>1, <3>2, StepsUnseen, UnseenStutters
  <2>3. CASE DeleteOnError(s) \/ PassErrorOn(s)
    BY <2>3, FailureShows
  <2>4. CASE DeliverBuffer(s) \/ DeliverCopy(s) \/ PassOn(s)
    BY <2>4, ReturnShows
  <2> QED  BY <1>4, <2>1, <2>2, <2>3, <2>4 DEF TidyReadStep
<1>5. ASSUME NEW s \in Stream, Closes(s)
      PROVE  [TidiedDocument!Next]_(TidiedDocument!vars)
  BY <1>5, CloseShows
<1>6. CASE CallStep
  <2>1. PICK s \in Stream : TRUE
    BY <1>6 DEF CallStep, ReadStep, TakeMessage, PerformAgain, EndRead,
               EndReadFromCache, TidiedInv, TextsInv, CustodyInv, SeqInv, OneAtATime
  <2> QED  BY <1>6, InputKeepsVersions, NothingShows DEF CallStep
<1>7. CASE DestroyInstance \/ UNCHANGED tidyVars
  BY <1>7, NothingShows DEF DestroyInstance, tidyVars, vars
<1>8. ASSUME NEW u \in Url, Publish(u)
      PROVE  TidiedDocument!Next
  BY <1>8, TidiedPublished DEF Publish, TidiedDocument!Next
<1> QED
  BY <1>1, <1>2, <1>3, <1>4, <1>5, <1>6, <1>7, <1>8 DEF ReadingStep

LEMMA TidiedDocumentStep ==
  ShowingInv /\ ShowingInv' /\ [TidyNext]_tidyVars
    => [TidiedDocument!Next]_(TidiedDocument!vars)
<1> SUFFICES ASSUME ShowingInv, ShowingInv', [TidyNext]_tidyVars
             PROVE  [TidiedDocument!Next]_(TidiedDocument!vars)
  OBVIOUS
<1>1. ReadingStep(Openings)
  BY TidySteps DEF StreamsStep, DeleteUnread, ShowingInv
<1>2. TidiedShown'
  <2>1. TidiedInv'
    BY DEF ShowingInv
  <2> QED  BY <2>1, ShownOf, PTL
<1>3. TidiedInv /\ CallerReads
  BY DEF ShowingInv
<1> QED  BY <1>1, <1>2, <1>3, TidiedSteps

(***************************************************************************)
(* TidyStream implements DocumentStream, with tidied documents: what its   *)
(* reader receives, from the buffer Perform has filled, from the copy that *)
(* is already tidied, or passed on from a ".smil" input, are the pieces of *)
(* the tidied document in order, none lost and none twice, and the end     *)
(* comes only after the last of them.                                      *)
(***************************************************************************)
THEOREM TidiedImplements ==
  TidySequential /\ SteadyServers /\ SteadyUse(Openings) /\ OnlySmilPasses /\ TidiedStay
    => ImplementsTidied
<1>1. TidyInit => TidiedDocument!Init
  BY TidiedInitial
<1>2. ShowingInv /\ ShowingInv' /\ [TidyNext]_tidyVars
        => [TidiedDocument!Next]_(TidiedDocument!vars)
  BY TidiedDocumentStep
<1> QED
  BY <1>1, <1>2, TidiedInvariant, PTL
     DEF TidySequential, TidySpec, ImplementsTidied, TidiedDocument!Spec

=============================================================================
