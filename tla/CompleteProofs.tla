---------------------------- MODULE CompleteProofs ----------------------------
(***************************************************************************)
(* What a stream leaves in the cache: with one stream at a time, no        *)
(* redirects, and servers whose Content-Length is the number of bytes curl *)
(* hands over, an entry that can be handed out holds one whole version of  *)
(* its document.  Connections may be lost, servers may answer 404,         *)
(* documents may change, and streams may be closed at any point.  Then the *)
(* same of the validators it is stored with.                               *)
(***************************************************************************)
EXTENDS SequentialProofs, InterleavedProofs

TrueLengths == "encoded" \notin Framing

-----------------------------------------------------------------------------
(***************************************************************************)
(* The copies.  An object of the map that is not being written is whole,   *)
(* also while a stream reads it.                                           *)
(***************************************************************************)
IsBlank(o) == o.eState = "EMPTY" => o.zBuffer = <<>>

HoldsWhole(o, u) ==
  o.eState \in {"FULL", "READ"} => o.ended /\ Whole(o.zBuffer, u)

Blank == \A o \in Obj : IsBlank(heap[o])

HeldWhole ==
  \A u \in Url : HttpCache[u] # None => HoldsWhole(heap[HttpCache[u]], u)

(***************************************************************************)
(* A stream and its object.  What of a body has arrived has gone to the    *)
(* caller or into the holding buffer.                                      *)
(***************************************************************************)
Received(m) == m.fTotalBytesRead + Len(m.fBuffer)

\* The object is being written and has all that was received of version v,
\* or it has not been touched and all is still to come.
Written(m, x, o, v) ==
  IF o.eState = "WRITE"
  THEN o.zBuffer \o x.left = Body(m.sURL, v) /\ Len(o.zBuffer) = Received(m)
  ELSE x.left = Body(m.sURL, v) /\ Received(m) = 0

Untouched(m) ==
  /\ ~m.bStoreCache /\ ~m.bTransferFinished /\ ~m.bStreamFromCache
  /\ m.hContent_length_response = 0 /\ Received(m) = 0

Storing(m, x, o) ==
  /\ m.hContent_length_response \in {0, BodyLen[m.sURL]}
  /\ m.bTransferFinished => m.fTotalBytesRead = BodyLen[m.sURL]
  /\ \E v \in Version : Written(m, x, o, v)

Tells(m, x, o) ==
  /\ ~m.bStoreCache => o.eState # "WRITE"
  /\ x.phase = "sent" => Untouched(m) /\ x.code = 0
  /\ m.bStoreCache => /\ x.code = 200 /\ ~m.bStreamFromCache
                      /\ x.phase \in {"body", "done"}
  /\ x.phase = "done" /\ x.ok => x.left = <<>>
  /\ m.bUseCache /\ m.bStoreCache => Storing(m, x, o)

StreamsTell == \A s \in Open : Tells(st[s], xfer[s], heap[st[s].cacheObject])

\* Nobody reads on after a failure without having been told of it.
FailuresAnnounced ==
  \A s \in Open : status[s] = "open" /\ ~xfer[s].ok => msgs # <<>>

\* A call of readBytes that curl feeds has room only when the holding buffer
\* is empty, and returns at once only with something.
Counts(m, where) ==
  /\ Len(m.filled) <= m.fTotalBytesRead
  /\ ~m.bStreamFromCache =>
       IF m.fBytesToRead = 0 THEN m.filled # <<>>
       ELSE m.fBuffer = <<>> /\ where # "return"

CallCounts == cur # None => status[cur] = "open" /\ Counts(st[cur], phase)

CompleteInv ==
  /\ SeqInv
  /\ TrueLengths
  /\ Blank
  /\ HeldWhole
  /\ StreamsTell
  /\ FailuresAnnounced
  /\ CallCounts

LEMMA CompleteInit == SeqInv /\ TrueLengths /\ Init => CompleteInv
<1> SUFFICES ASSUME SeqInv, TrueLengths, Init PROVE CompleteInv  OBVIOUS
<1>1. /\ Open = {} /\ \A u \in Url : HttpCache[u] = None
      /\ \A o \in Obj : heap[o] = NoObject
      /\ cur = None
  BY DEF Init, HandlerInit, Open
<1>2. Blank  BY <1>1 DEF Blank, IsBlank, NoObject, NewObject
<1> QED
  BY <1>1, <1>2
     DEF CompleteInv, HeldWhole, StreamsTell, FailuresAnnounced, CallCounts

-----------------------------------------------------------------------------
(***************************************************************************)
(* Objects.                                                                *)
(***************************************************************************)
\* A step that leaves no copy behind that was not one before.
Kept(a, b) ==
  /\ IsBlank(b)
  /\ b.eState \in {"FULL", "READ"} =>
       /\ a.eState \in {"FULL", "READ"}
       /\ b.zBuffer = a.zBuffer /\ b.ended = a.ended

LEMMA CopiesKept ==
  ASSUME CompleteInv, UNCHANGED HttpCache,
         \A o \in Obj : Kept(heap[o], heap'[o])
  PROVE  Blank' /\ HeldWhole'
<1>1. Blank'  BY DEF Blank, Kept
<1>2. ASSUME NEW u \in Url, HttpCache[u] # None
      PROVE  HoldsWhole(heap'[HttpCache[u]], u)
  <2>1. HttpCache[u] \in Obj
    BY <1>2 DEF CompleteInv, SeqInv, TypeInv, TypeOK
  <2>2. HoldsWhole(heap[HttpCache[u]], u)
    BY <1>2 DEF CompleteInv, HeldWhole
  <2> QED  BY <2>1, <2>2 DEF Kept, HoldsWhole
<1> QED  BY <1>1, <1>2 DEF HeldWhole

LEMMA SameIsKept == ASSUME NEW o, IsBlank(o) PROVE Kept(o, o)
BY DEF Kept

LEMMA OtherStates ==
  ASSUME NEW o \in CacheRecord, IsBlank(o), o.eState # "WRITE"
  PROVE  Kept(o, ResetState(o)) /\ ResetState(o).eState # "WRITE"
<1>1. CASE o.eState = "READ"
  <2>1. ResetState(o) = [o EXCEPT !.eState = "FULL", !.pos = 0]
    BY <1>1 DEF ResetState
  <2>2. /\ ResetState(o).eState = "FULL" /\ ResetState(o).zBuffer = o.zBuffer
        /\ ResetState(o).ended = o.ended
    BY <2>1 DEF CacheRecord
  <2> QED  BY <1>1, <2>2 DEF Kept, IsBlank
<1>2. CASE o.eState # "READ"
  <2>1. ResetState(o) = o  BY <1>2 DEF ResetState
  <2> QED  BY <2>1 DEF Kept
<1> QED  BY <1>1, <1>2

\* readBytes of a copy keeps it.
LEMMA ReadingKeeps ==
  ASSUME NEW o \in CacheRecord, IsBlank(o), o.eState # "WRITE", Exists(o),
         NEW n \in Nat, NEW r \in ReadOutcomes(o, n)
  PROVE  Kept(o, r.obj) /\ r.obj.eState # "WRITE"
<1>1. CASE o.eState = "EMPTY"
  <2>1. r.obj = o  BY <1>1 DEF ReadOutcomes
  <2> QED  BY <2>1 DEF Kept
<1>2. CASE o.eState # "EMPTY"
  <2> DEFINE q == ReadOpened(o)
             rest == Len(q.zBuffer) - q.pos
             most == Least(n, rest)
             counts == IF q.ended THEN {most} ELSE 0 .. most
  <2>1. o.eState \in {"FULL", "READ"}
    BY <1>2 DEF CacheRecord, CacheStates, Exists
  <2>2. q.eState = "READ" /\ q.zBuffer = o.zBuffer /\ q.ended = o.ended
    BY <2>1 DEF ReadOpened, ResetState, CacheRecord
  <2>3. q \in CacheRecord  BY ObjectOps
  <2> HIDE DEF q
  <2>4. PICK k \in counts :
          r = [data |-> SubSeq(q.zBuffer, q.pos + 1, q.pos + k),
               obj  |-> [q EXCEPT !.pos = q.pos + k]]
    BY <1>2 DEF ReadOutcomes, q
  <2>5. r.obj.eState = "READ" /\ r.obj.zBuffer = o.zBuffer
        /\ r.obj.ended = o.ended
    BY <2>2, <2>3, <2>4 DEF CacheRecord
  <2> QED  BY <2>1, <2>5 DEF Kept, IsBlank
<1> QED  BY <1>1, <1>2

\* Both forms of writeBytes start over what is not being written.
LEMMA StartsOver ==
  ASSUME NEW o \in CacheRecord, IsBlank(o), Exists(o)
  PROVE  Prepared(o).zBuffer = IF o.eState = "WRITE" THEN o.zBuffer ELSE <<>>
<1>1. CASE o.eState \in {"WRITE", "EMPTY"}
  BY <1>1 DEF Prepared, IsBlank
<1>2. CASE o.eState \in {"FULL", "READ"}
  <2> DEFINE r == ResetState(o)
  <2>1. r \in CacheRecord  BY ObjectOps
  <2>2. Prepared(o) = ResetBuffer(r)  BY <1>2 DEF Prepared
  <2> HIDE DEF r
  <2>3. ResetBuffer(r).zBuffer = <<>>  BY <2>1 DEF ResetBuffer, CacheRecord
  <2> QED  BY <1>2, <2>2, <2>3
<1> QED  BY <1>1, <1>2 DEF CacheRecord, CacheStates, Exists

\* writeBytes appends to what it has written, or starts over.
LEMMA Writing ==
  ASSUME NEW o \in CacheRecord, IsBlank(o), Exists(o), NEW p \in Piece
  PROVE  LET w == WriteBytes(o, <<p>>)
         IN  /\ w.eState = "WRITE"
             /\ w.zBuffer = IF o.eState = "WRITE" THEN Append(o.zBuffer, p)
                            ELSE Append(<<>>, p)
             /\ Kept(o, w)
<1> DEFINE q == Prepared(o)
           text == q.zBuffer \o <<p>>
           w == [q EXCEPT !.eState = "WRITE", !.zBuffer = text]
<1>1. q \in CacheRecord  BY ObjectOps
<1>2. q.zBuffer = IF o.eState = "WRITE" THEN o.zBuffer ELSE <<>>
  BY StartsOver
<1> HIDE DEF q
<1>3. w.eState = "WRITE" /\ w.zBuffer = text
  BY <1>1 DEF CacheRecord
<1>4. text = Append(q.zBuffer, p)
  BY <1>1, AppendIsConcat DEF CacheRecord
<1>5. WriteBytes(o, <<p>>) = w
  BY DEF WriteBytes, q
<1> HIDE DEF w, text
<1> QED  BY <1>2, <1>3, <1>4, <1>5 DEF Kept, IsBlank

\* The end of writing: what was written, or nothing, becomes the copy.
LEMMA Finishing ==
  ASSUME NEW o \in CacheRecord, IsBlank(o), Exists(o)
  PROVE  LET f == ResetState(FinishBytes(o))
         IN  /\ f.eState = "FULL" /\ f.ended
             /\ f.zBuffer = IF o.eState = "WRITE" THEN o.zBuffer ELSE <<>>
<1> DEFINE q == Prepared(o)
           f == [q EXCEPT !.eState = "FULL", !.ended = TRUE]
<1>1. q \in CacheRecord  BY ObjectOps
<1>2. q.zBuffer = IF o.eState = "WRITE" THEN o.zBuffer ELSE <<>>
  BY StartsOver
<1> HIDE DEF q
<1>3. f.eState = "FULL" /\ f.ended /\ f.zBuffer = q.zBuffer
  BY <1>1 DEF CacheRecord
<1>4. FinishBytes(o) = f /\ ResetState(f) = f
  <2>1. FinishBytes(o) = f  BY DEF FinishBytes, q
  <2> HIDE DEF f
  <2> QED  BY <1>3, <2>1 DEF ResetState
<1> HIDE DEF f
<1> QED  BY <1>2, <1>3, <1>4

-----------------------------------------------------------------------------
(***************************************************************************)
(* What a stream tells of its object, through each step of its life.       *)
(***************************************************************************)
\* What has come and what is still to come make up the document.
LEMMA Amounts ==
  ASSUME NEW m \in Members, NEW x \in TransferRecord, NEW o \in CacheRecord,
         m.sURL \in Url, NEW v \in Version, Written(m, x, o, v)
  PROVE  Received(m) + Len(x.left) = BodyLen[m.sURL]
<1>1. Len(Body(m.sURL, v)) = BodyLen[m.sURL] /\ BodyLen[m.sURL] \in Nat
  <2>1. BodyLen[m.sURL] \in Nat  BY ServerAssumption
  <2>2. /\ DOMAIN Body(m.sURL, v) = 1 .. BodyLen[m.sURL]
        /\ Body(m.sURL, v) \in Seq(Piece)
    BY BodyType DEF Body
  <2> QED  BY <2>1, <2>2, LenProperties
<1>2. x.left \in Seq(Piece) /\ o.zBuffer \in Seq(Piece)
  BY DEF TransferRecord, CacheRecord
<1>3. Len(x.left) \in Nat /\ Len(o.zBuffer \o x.left) = Len(o.zBuffer) + Len(x.left)
  BY <1>2, ConcatProperties, LenProperties
<1>4. CASE o.eState = "WRITE"
  BY <1>1, <1>3, <1>4 DEF Written
<1>5. CASE o.eState # "WRITE"
  BY <1>1, <1>3, <1>5 DEF Written
<1> QED  BY <1>4, <1>5

LEMMA ReceivedType ==
  ASSUME NEW m \in Members
  PROVE  /\ m.fTotalBytesRead \in Nat /\ Len(m.fBuffer) \in Nat
         /\ Received(m) \in Nat /\ Received(m) >= m.fTotalBytesRead
<1>1. m.fTotalBytesRead \in Nat /\ m.fBuffer \in Seq(Piece)
  BY DEF Members
<1>2. Len(m.fBuffer) \in Nat  BY <1>1, LenProperties
<1> QED  BY <1>1, <1>2 DEF Received

\* A complete response is one with nothing left.
LEMMA AfterFields ==
  ASSUME NEW x \in TransferRecord
  PROVE  /\ After(x).phase \in {"body", "done"}
         /\ After(x).phase = "done" => x.left = <<>>
         /\ After(x).left = x.left /\ After(x).code = x.code
         /\ After(x).ok = x.ok
<1>1. CASE Ends(x)
  <2>1. After(x) = [x EXCEPT !.phase = "done"]  BY <1>1 DEF After
  <2>2. x.left = <<>>  BY <1>1 DEF Ends
  <2> QED  BY <2>1, <2>2 DEF TransferRecord
<1>2. CASE ~Ends(x)
  <2>1. After(x) = [x EXCEPT !.phase = "body"]  BY <1>2 DEF After
  <2> QED  BY <2>1 DEF TransferRecord
<1> QED  BY <1>1, <1>2

LEMMA TellsSame ==
  ASSUME NEW m, NEW x, NEW o, Tells(m, x, o),
         NEW o1, o1.eState = o.eState, o1.zBuffer = o.zBuffer
  PROVE  Tells(m, x, o1)
BY DEF Tells, Storing, Written

LEMMA TellsOK ==
  ASSUME NEW m \in Members, NEW x \in TransferRecord, NEW o, Tells(m, x, o),
         x.phase = "sent", m.sURL \in Url, NEW v \in Version,
         NEW sent \in {0, BodyLen[m.sURL]}, NEW sized \in BOOLEAN
  PROVE  Tells([m EXCEPT !.bStoreCache = TRUE,
                         !.hContent_length_response = sent],
               After(Response(x, 200, Body(m.sURL, v), sized)), o)
<1> DEFINE m1 == [m EXCEPT !.bStoreCache = TRUE,
                           !.hContent_length_response = sent]
           left == Body(m.sURL, v)
           y  == Response(x, 200, left, sized)
           x1 == After(y)
<1>1. Untouched(m) /\ o.eState # "WRITE"
  BY DEF Tells, Untouched
<1>2. /\ m1.bStoreCache /\ m1.hContent_length_response = sent
      /\ m1.sURL = m.sURL /\ ~m1.bTransferFinished /\ ~m1.bStreamFromCache
      /\ Received(m1) = 0
  BY <1>1 DEF Untouched, Received, Members
<1> HIDE DEF m1
<1>3. left \in Seq(Piece)  BY BodyType
<1> HIDE DEF left
<1>4. y \in TransferRecord
  BY <1>3, ResponseType DEF Codes
<1>5. y.left = left /\ y.code = 200 /\ y.ok = x.ok
  BY DEF Response, TransferRecord
<1> HIDE DEF y
<1>6. /\ x1.phase \in {"body", "done"} /\ (x1.phase = "done" => x1.left = <<>>)
      /\ x1.left = left /\ x1.code = 200
  BY <1>4, <1>5, AfterFields
<1> HIDE DEF x1
<1>7. Written(m1, x1, o, v)  BY <1>1, <1>2, <1>6 DEF Written, left
<1>8. Storing(m1, x1, o)  BY <1>2, <1>7 DEF Storing
<1>9. Tells(m1, x1, o)  BY <1>2, <1>6, <1>8 DEF Tells
<1> QED  BY <1>9 DEF m1, x1, y, left

LEMMA TellsOther ==
  ASSUME NEW m \in Members, NEW x \in TransferRecord, NEW o, Tells(m, x, o),
         x.phase = "sent", NEW code \in Codes, NEW left \in Seq(Piece),
         NEW sized \in BOOLEAN, NEW sent \in Nat
  PROVE  Tells([m EXCEPT !.hContent_length_response = sent],
               After(Response(x, code, left, sized)), o)
<1> DEFINE m1 == [m EXCEPT !.hContent_length_response = sent]
           y  == Response(x, code, left, sized)
           x1 == After(y)
<1>1. ~m.bStoreCache /\ o.eState # "WRITE"
  BY DEF Tells, Untouched
<1>2. ~m1.bStoreCache  BY <1>1 DEF Members
<1>3. y \in TransferRecord  BY ResponseType
<1> HIDE DEF y, m1
<1>4. x1.phase \in {"body", "done"} /\ (x1.phase = "done" => x1.left = <<>>)
  BY <1>3, AfterFields
<1> HIDE DEF x1
<1>5. Tells(m1, x1, o)  BY <1>1, <1>2, <1>4 DEF Tells
<1> QED  BY <1>5 DEF m1, x1, y

\* A piece moves from what is to come to what was received.
LEMMA WrittenData ==
  ASSUME NEW m, NEW m1, NEW x \in TransferRecord, NEW o \in CacheRecord,
         IsBlank(o), Exists(o), x.left # <<>>, m1.sURL = m.sURL,
         Received(m1) = Received(m) + 1, NEW v, Written(m, x, o, v),
         NEW x1, x1.left = Tail(x.left)
  PROVE  Written(m1, x1, WriteBytes(o, <<Head(x.left)>>), v)
<1> DEFINE p  == Head(x.left)
           rest == Tail(x.left)
           o1 == WriteBytes(o, <<p>>)
<1>1. p \in Piece /\ rest \in Seq(Piece) /\ x.left \in Seq(Piece)
  BY EmptyPieces, NextPiece DEF TransferRecord
<1>2. /\ o1.eState = "WRITE"
      /\ o1.zBuffer = IF o.eState = "WRITE" THEN Append(o.zBuffer, p)
                      ELSE Append(<<>>, p)
  BY <1>1, Writing
<1>3. o.zBuffer \in Seq(Piece)  BY DEF CacheRecord
<1> HIDE DEF p, rest, o1
<1>4. CASE o.eState = "WRITE"
  <2>1. Append(o.zBuffer, p) \o rest = o.zBuffer \o x.left
    BY <1>1, <1>3, NextPiece DEF p, rest
  <2>2. Len(Append(o.zBuffer, p)) = Len(o.zBuffer) + 1
    BY <1>1, <1>3, AppendProperties
  <2>3. Written(m1, x1, o1, v)
    BY <1>2, <1>4, <2>1, <2>2 DEF Written, rest
  <2> QED  BY <2>3 DEF o1, p
<1>5. CASE o.eState # "WRITE"
  <2>1. Append(<<>>, p) \o rest = <<>> \o x.left
    BY <1>1, EmptyPieces, NextPiece DEF p, rest
  <2>2. <<>> \o x.left = x.left  BY <1>1, ConcatEmptySeq
  <2>3. Len(Append(<<>>, p)) = 1  BY <1>1
  <2>4. x.left = Body(m.sURL, v) /\ Received(m) = 0
    BY <1>5 DEF Written
  <2>5. o1.zBuffer = Append(<<>>, p)  BY <1>2, <1>5
  <2>6. o1.zBuffer \o x1.left = Body(m1.sURL, v)
    BY <2>1, <2>2, <2>4, <2>5 DEF rest
  <2>7. Len(o1.zBuffer) = Received(m1)  BY <2>3, <2>4, <2>5
  <2>8. Written(m1, x1, o1, v)  BY <1>2, <2>6, <2>7 DEF Written
  <2> QED  BY <2>8 DEF o1, p
<1> QED  BY <1>4, <1>5

LEMMA TellsData ==
  ASSUME NEW m \in Members, NEW x \in TransferRecord, NEW o \in CacheRecord,
         Tells(m, x, o), IsBlank(o), Exists(o), m.sURL \in Url,
         x.phase = "body", x.left # <<>>,
         NEW m1 \in Members, m1.sURL = m.sURL,
         m1.bUseCache = m.bUseCache, m1.bStoreCache = m.bStoreCache,
         m1.bTransferFinished = m.bTransferFinished,
         m1.bStreamFromCache = m.bStreamFromCache,
         m1.hContent_length_response = m.hContent_length_response,
         Received(m1) = Received(m) + 1,
         NEW o1, o1 = IF Compresses(m) THEN WriteBytes(o, <<Head(x.left)>>)
                      ELSE o
  PROVE  Tells(m1, After([x EXCEPT !.left = Tail(@)]), o1)
<1> DEFINE p  == Head(x.left)
           rest == Tail(x.left)
           y  == [x EXCEPT !.left = rest]
           x1 == After(y)
<1>1. p \in Piece /\ rest \in Seq(Piece) /\ x.left \in Seq(Piece)
  BY NextPiece, EmptyPieces DEF TransferRecord
<1>2. y \in TransferRecord  BY <1>1 DEF TransferRecord
<1>3. y.left = rest /\ y.code = x.code /\ y.ok = x.ok
  BY DEF TransferRecord
<1> HIDE DEF y
<1>4. /\ x1.phase \in {"body", "done"} /\ (x1.phase = "done" => x1.left = <<>>)
      /\ x1.left = rest /\ x1.code = x.code
  BY <1>2, <1>3, AfterFields
<1> HIDE DEF x1
<1>5. ASSUME m.bUseCache, m.bStoreCache PROVE Storing(m1, x1, o1)
  <2>1. Storing(m, x, o)  BY <1>5 DEF Tells
  <2>2. PICK v \in Version : Written(m, x, o, v)  BY <2>1 DEF Storing
  <2>3. Received(m) + Len(x.left) = BodyLen[m.sURL]
    BY <2>2, Amounts
  <2>4. Len(x.left) \in Nat \ {0}
    BY <1>1, LenProperties, EmptySeq
  <2>5. ~m.bTransferFinished
    BY <2>1, <2>3, <2>4, ReceivedType DEF Storing
  <2>6. Written(m1, x1, o1, v)
    BY <1>4, <1>5, <2>2, WrittenData DEF Compresses
  <2> QED  BY <2>1, <2>5, <2>6 DEF Storing
<1>6. ~m.bStoreCache => o1 = o  BY DEF Compresses
<1>7. Tells(m1, x1, o1)
  BY <1>4, <1>5, <1>6 DEF Tells
<1> QED  BY <1>7 DEF x1, y, rest

\* A transfer that ends with nothing left, or fails.
LEMMA TellsDone ==
  ASSUME NEW m \in Members, NEW x \in TransferRecord, NEW o, Tells(m, x, o),
         x.phase \in {"sent", "body"},
         NEW x1, x1.phase = "done", x1.ok => x1.left = <<>>,
         x1.left = x.left, x1.code = x.code
  PROVE  Tells(m, x1, o)
<1>1. Storing(m, x, o) => Storing(m, x1, o)
  BY DEF Storing, Written
<1> QED  BY <1>1 DEF Tells, Untouched

LEMMA TellsBegin ==
  ASSUME NEW m \in Members, NEW x \in TransferRecord, NEW o \in CacheRecord,
         Tells(m, x, o), m.sURL \in Url,
         NEW k \in 0 .. Len(m.fBuffer),
         NEW m1 \in Members, m1.sURL = m.sURL,
         m1.bUseCache = m.bUseCache, m1.bStoreCache = m.bStoreCache,
         m1.bTransferFinished = m.bTransferFinished,
         m1.bStreamFromCache = m.bStreamFromCache,
         m1.hContent_length_response = m.hContent_length_response,
         Len(m1.fBuffer) = Len(m.fBuffer) - k,
         m1.fTotalBytesRead = m.fTotalBytesRead + k
  PROVE  Tells(m1, x, o)
<1>1. Received(m1) = Received(m)
  BY ReceivedType DEF Received
<1>2. ASSUME Storing(m, x, o) PROVE Storing(m1, x, o)
  <2>1. PICK v \in Version : Written(m, x, o, v)  BY <1>2 DEF Storing
  <2>2. Received(m) + Len(x.left) = BodyLen[m.sURL]  BY <2>1, Amounts
  <2>3. Len(x.left) \in Nat  BY LenProperties DEF TransferRecord
  <2>4. m.bTransferFinished => k = 0
    BY <1>2, <2>2, <2>3, ReceivedType DEF Storing, Received
  <2>5. Written(m1, x, o, v)  BY <1>1, <2>1 DEF Written
  <2> QED  BY <1>2, <2>4, <2>5, ReceivedType DEF Storing
<1> QED  BY <1>1, <1>2 DEF Tells, Untouched

LEMMA TellsNothing ==
  ASSUME NEW m, NEW x, NEW o, Tells(m, x, o), x.phase # "sent",
         NEW m1, ~m1.bStoreCache, NEW o1, o1.eState # "WRITE"
  PROVE  Tells(m1, x, o1)
BY DEF Tells

\* A call that ends with nothing returned and nothing to wait for has read
\* all there is: when that is stored, the document is empty.
LEMMA ReturnsNothing ==
  ASSUME NEW m \in Members, NEW x \in TransferRecord, NEW o \in CacheRecord,
         Tells(m, x, o), m.sURL \in Url, ~m.bStreamFromCache,
         NEW where, Counts(m, where),
         \/ where = "return" \/ m.fBytesToRead = 0 \/ m.filled # <<>>
         \/ x.phase \notin {"sent", "body"} /\ x.ok,
         m.fTotalBytesRead = 0
  PROVE  /\ x.phase \notin {"sent", "body"} /\ x.ok /\ m.fBuffer = <<>>
         /\ m.bUseCache /\ m.bStoreCache => BodyLen[m.sURL] = 0
<1>1. m.filled \in Seq(Piece) /\ Len(m.filled) <= 0
  BY DEF Members, Counts
<1>2. m.filled = <<>>  BY <1>1, EmptySeq
<1>3. m.fBytesToRead # 0 /\ m.fBuffer = <<>> /\ where # "return"
  BY <1>2 DEF Counts
<1>4. x.phase \notin {"sent", "body"} /\ x.ok  BY <1>2, <1>3
<1>5. ASSUME m.bUseCache, m.bStoreCache PROVE BodyLen[m.sURL] = 0
  <2>1. Storing(m, x, o) /\ x.phase = "done"  BY <1>4, <1>5 DEF Tells
  <2>2. PICK v \in Version : Written(m, x, o, v)  BY <2>1 DEF Storing
  <2>3. x.left = <<>>  BY <1>4, <2>1 DEF Tells
  <2>4. Received(m) = 0  BY <1>3 DEF Received
  <2>5. Received(m) + Len(x.left) = BodyLen[m.sURL]  BY <2>2, Amounts
  <2> QED  BY <2>3, <2>4, <2>5
<1> QED  BY <1>3, <1>4, <1>5

\* The end of a call takes a transfer for finished when it has returned as
\* much as was announced, or when nothing was announced, nothing is running
\* and nothing has come: then the document is empty.
LEMMA TellsReturn ==
  ASSUME NEW m \in Members, NEW x \in TransferRecord, NEW o \in CacheRecord,
         Tells(m, x, o), m.sURL \in Url, ~m.bStreamFromCache,
         NEW where, Counts(m, where),
         \/ where = "return" \/ m.fBytesToRead = 0 \/ m.filled # <<>>
         \/ x.phase \notin {"sent", "body"} /\ x.ok
  PROVE  Tells([AtRest(m) EXCEPT !.bTransferFinished =
                                    TransferFinished(m, m.fTotalBytesRead)],
               x, o)
<1> DEFINE rest == AtRest(m)
           fin == TransferFinished(m, m.fTotalBytesRead)
           m1 == [rest EXCEPT !.bTransferFinished = fin]
<1>1. /\ rest.sURL = m.sURL /\ rest.bUseCache = m.bUseCache
      /\ rest.bStoreCache = m.bStoreCache
      /\ rest.bStreamFromCache = m.bStreamFromCache
      /\ rest.hContent_length_response = m.hContent_length_response
      /\ rest.fTotalBytesRead = m.fTotalBytesRead /\ rest.fBuffer = m.fBuffer
      /\ rest \in Members
  BY EmptyPieces DEF AtRest, Members
<1> HIDE DEF rest, fin
<1>2. /\ m1.sURL = m.sURL /\ m1.bUseCache = m.bUseCache
      /\ m1.bStoreCache = m.bStoreCache
      /\ m1.bStreamFromCache = m.bStreamFromCache
      /\ m1.hContent_length_response = m.hContent_length_response
      /\ m1.fTotalBytesRead = m.fTotalBytesRead /\ m1.fBuffer = m.fBuffer
      /\ m1.bTransferFinished = fin
  BY <1>1 DEF Members
<1>3. Received(m1) = Received(m)  BY <1>2 DEF Received
<1> HIDE DEF m1
<1>4. m.fTotalBytesRead = 0 =>
        /\ x.phase # "sent"
        /\ m.bUseCache /\ m.bStoreCache => BodyLen[m.sURL] = 0
  BY ReturnsNothing
<1>5. x.phase # "sent"
  <2>1. ASSUME x.phase = "sent" PROVE FALSE
    <3>1. Received(m) = 0  BY <2>1 DEF Tells, Untouched
    <3>2. m.fTotalBytesRead = 0  BY <3>1, ReceivedType DEF Received
    <3> QED  BY <1>4, <2>1, <3>2
  <2> QED  BY <2>1
<1>6. ASSUME m.bUseCache, m.bStoreCache PROVE Storing(m1, x, o)
  <2>1. Storing(m, x, o)  BY <1>6 DEF Tells
  <2>2. PICK v \in Version : Written(m, x, o, v)  BY <2>1 DEF Storing
  <2>3. Written(m1, x, o, v)  BY <1>2, <1>3, <2>2 DEF Written
  <2>4. m.fTotalBytesRead = 0 => BodyLen[m.sURL] = 0
    BY <1>4, <1>6
  <2>5. m1.bTransferFinished => m.fTotalBytesRead = BodyLen[m.sURL]
    BY <1>2, <2>1, <2>4 DEF fin, TransferFinished, Storing
  <2> QED  BY <1>2, <2>1, <2>3, <2>5 DEF Storing
<1>7. Tells(m1, x, o)  BY <1>2, <1>5, <1>6 DEF Tells
<1> QED  BY <1>7 DEF m1, rest, fin

-----------------------------------------------------------------------------
(***************************************************************************)
(* The steps.                                                              *)
(***************************************************************************)
\* A step of stream t that neither opens nor closes it.
LEMMA CompleteStreamStep ==
  ASSUME CompleteInv, SeqInv', NEW t \in Open,
         UNCHANGED <<HttpCache, fEasy>>,
         \A o \in Obj : Kept(heap[o], heap'[o]),
         NEW m, st' = [st EXCEPT ![t] = m],
         NEW x, xfer' = [xfer EXCEPT ![t] = x],
         NEW o1, heap'[m.cacheObject] = o1, Tells(m, x, o1),
         status'[t] = "open" /\ ~x.ok => msgs' # <<>>,
         cur' # None => cur' = t /\ status'[t] = "open" /\ Counts(m, phase')
  PROVE  CompleteInv'
<1>1. Open' = Open /\ Open = {t}
  BY DEF Open, CompleteInv, SeqInv, OneAtATime
<1>2. st'[t] = m /\ xfer'[t] = x
  BY DEF CompleteInv, SeqInv, TypeInv, TypeOK, Open
<1>3. Blank' /\ HeldWhole'  BY CopiesKept
<1>4. StreamsTell'
  <2>1. Tells(st'[t], xfer'[t], heap'[st'[t].cacheObject])  BY <1>2
  <2> QED  BY <1>1, <2>1 DEF StreamsTell
<1>5. FailuresAnnounced'  BY <1>1, <1>2 DEF FailuresAnnounced
<1>6. CallCounts'  BY <1>2 DEF CallCounts
<1> QED  BY <1>3, <1>4, <1>5, <1>6 DEF CompleteInv, TrueLengths

\* What a stream that curl works for has.
LEMMA WorkedFor ==
  ASSUME CompleteInv, NEW t \in Stream, Performing(t)
  PROVE  /\ t \in Open /\ cur = t
         /\ st[t] \in Members /\ st[t].sURL \in Url
         /\ xfer[t] \in TransferRecord /\ msgs \in Seq(Stream)
         /\ ver[st[t].sURL] \in Version
         /\ st[t].cacheObject \in Obj /\ Live(st[t].cacheObject)
         /\ heap[st[t].cacheObject] \in CacheRecord
         /\ heap \in [Obj -> CacheRecord]
         /\ IsBlank(heap[st[t].cacheObject])
         /\ Tells(st[t], xfer[t], heap[st[t].cacheObject])
         /\ status[t] = "open" /\ Counts(st[t], "perform")
         /\ status[t] = "open" /\ ~xfer[t].ok => msgs # <<>>
         /\ \A o \in Obj : IsBlank(heap[o])
<1>1. SeqInv /\ TypeInv  BY DEF CompleteInv, SeqInv
<1>2. /\ t \in Open /\ st[t] \in Members /\ xfer[t] \in TransferRecord
      /\ st[t].sURL \in Url /\ ver[st[t].sURL] \in Version
      /\ msgs \in Seq(Stream)
  BY <1>1, RunningStream
<1>3. /\ st[t].cacheObject \in Obj /\ Live(st[t].cacheObject)
      /\ heap[st[t].cacheObject] \in CacheRecord
      /\ heap \in [Obj -> CacheRecord]
  BY <1>1, <1>2, OpenStreamsLive
<1>4. cur = t
  BY <1>1, CurrentStream DEF Performing, SeqInv, OneAtATime
<1>5. status[t] = "open" /\ Counts(st[t], "perform")
  BY <1>4 DEF Performing, CompleteInv, CallCounts
<1>6. Tells(st[t], xfer[t], heap[st[t].cacheObject])
  BY <1>2 DEF CompleteInv, StreamsTell
<1>7. \A o \in Obj : IsBlank(heap[o])  BY DEF CompleteInv, Blank
<1>8. status[t] = "open" /\ ~xfer[t].ok => msgs # <<>>
  BY <1>2 DEF CompleteInv, FailuresAnnounced
<1> QED  BY <1>2, <1>3, <1>4, <1>5, <1>6, <1>7, <1>8

LEMMA AnnounceKeeps ==
  ASSUME msgs \in Seq(Stream), NEW t \in Stream, NEW x, Announce(t, x)
  PROVE  msgs # <<>> => msgs' # <<>>
BY AppendProperties DEF Announce

\* A response head other than that of a redirect, in what it has in common.
LEMMA CompleteResponse ==
  ASSUME CompleteInv, SeqInv', NEW t \in Stream, Performing(t),
         UNCHANGED <<HttpCache, freeHandles, fEasy, callVars, ver, clientVars>>,
         NEW m, st' = [st EXCEPT ![t] = m],
         m.filled = st[t].filled, m.fBuffer = st[t].fBuffer,
         m.fTotalBytesRead = st[t].fTotalBytesRead,
         m.fBytesToRead = st[t].fBytesToRead,
         m.bStreamFromCache = st[t].bStreamFromCache,
         m.cacheObject = st[t].cacheObject,
         NEW x, xfer' = [xfer EXCEPT ![t] = x], x.ok = xfer[t].ok,
         NEW y, Announce(t, y),
         \A o \in Obj : Kept(heap[o], heap'[o]),
         NEW o1, heap'[st[t].cacheObject] = o1, Tells(m, x, o1)
  PROVE  CompleteInv'
<1>1. /\ t \in Open /\ cur = t /\ msgs \in Seq(Stream)
      /\ status[t] = "open" /\ Counts(st[t], "perform") /\ phase = "perform"
      /\ status[t] = "open" /\ ~xfer[t].ok => msgs # <<>>
  BY WorkedFor DEF Performing
<1>2. cur' = t /\ status'[t] = "open" /\ phase' = phase
  BY <1>1 DEF callVars, clientVars
<1>3. Counts(m, phase')  BY <1>1, <1>2 DEF Counts
<1>4. status'[t] = "open" /\ ~x.ok => msgs' # <<>>
  BY <1>1, AnnounceKeeps
<1>5. heap'[m.cacheObject] = o1  OBVIOUS
<1> QED  BY <1>1, <1>2, <1>3, <1>4, <1>5, CompleteStreamStep

LEMMA ResponseOk ==
  ASSUME NEW x \in TransferRecord, NEW code \in Codes, NEW left \in Seq(Piece),
         NEW sized \in BOOLEAN
  PROVE  After(Response(x, code, left, sized)).ok = x.ok
<1> DEFINE y == Response(x, code, left, sized)
<1>1. y \in TransferRecord  BY ResponseType
<1>2. y.ok = x.ok  BY DEF Response, TransferRecord
<1> HIDE DEF y
<1>3. After(y).ok = x.ok  BY <1>1, <1>2, AfterFields
<1> QED  BY <1>3 DEF y

LEMMA CompleteHeader ==
  ASSUME CompleteInv, NEW t \in Stream, Header(t)
  PROVE  CompleteInv'
<1> DEFINE m == st[t]
           o == m.cacheObject
           x == xfer[t]
<1>1. /\ Performing(t) /\ x.phase = "sent"
      /\ UNCHANGED <<HttpCache, freeHandles, fEasy, callVars, ver, clientVars>>
  BY DEF Header
<1>2. /\ t \in Open /\ cur = t /\ m \in Members /\ m.sURL \in Url
      /\ x \in TransferRecord /\ ver[m.sURL] \in Version
      /\ o \in Obj /\ heap \in [Obj -> CacheRecord] /\ Live(o)
      /\ Tells(m, x, heap[o])
      /\ \A p \in Obj : IsBlank(heap[p])
  BY <1>1, WorkedFor
<1>3. SeqInv'  BY SeqHeader DEF CompleteInv
<1>4. st = [st EXCEPT ![t] = m] /\ Target[m.sURL] = None /\ TrueLengths
  BY <1>1, <1>2, RunningStream DEF CompleteInv, SeqInv, NoRedirection
<1>5. CASE HeadNotModified(t)
  <2> DEFINE left == <<>>
             sized == TRUE
             sent == m.hContent_length_response
             m1 == [m EXCEPT !.hContent_length_response = sent]
             y == Response(x, 304, left, sized)
             x1 == After(y)
  <2>1. /\ xfer' = [xfer EXCEPT ![t] = x1] /\ Announce(t, y)
        /\ UNCHANGED <<st, heap>>
    BY <1>5 DEF HeadNotModified
  <2>2. left \in Seq(Piece) /\ sized \in BOOLEAN /\ 304 \in Codes /\ sent \in Nat
    BY <1>2, EmptyPieces DEF Codes, Members
  <2>3. m1 = m  BY <1>2 DEF Members
  <2> HIDE DEF left, sized, sent
  <2>4. Tells(m1, x1, heap[o])  BY <1>1, <1>2, <2>2, TellsOther
  <2>5. x1.ok = x.ok  BY <1>2, <2>2, ResponseOk
  <2> HIDE DEF m1, x1, y
  <2>6. \A p \in Obj : Kept(heap[p], heap'[p])
    BY <1>2, <2>1, SameIsKept
  <2>7. st' = [st EXCEPT ![t] = m] /\ Tells(m, x1, heap[o]) /\ heap'[o] = heap[o]
    BY <1>4, <2>1, <2>3, <2>4
  <2> QED  BY <1>1, <1>3, <2>1, <2>5, <2>6, <2>7, CompleteResponse
<1>6. ASSUME NEW f \in Framing, HeadOK(t, f) PROVE CompleteInv'
  <2> DEFINE u    == m.sURL
             sent == CASE f = "length"  -> BodyLen[u]
                       [] f = "encoded" -> BodyLen[u] - 1
                       [] OTHER         -> m.hContent_length_response
             v == ver[u]
             sized == f # "chunked"
             y == Response(x, 200, Body(u, v), sized)
             x1 == After(y)
             m1 == [m EXCEPT !.bStoreCache = TRUE,
                             !.hContent_length_response = sent]
  <2>1. /\ st' = [st EXCEPT ![t] = m1]
        /\ heap' = IF SetsEtag(m) /\ Live(o)
                   THEN [heap EXCEPT ![o].pEtag = ver[u]] ELSE heap
        /\ xfer' = [xfer EXCEPT ![t] = x1] /\ Announce(t, y)
    BY <1>6 DEF HeadOK
  <2>2. sent \in {0, BodyLen[u]}
    <3>1. m.hContent_length_response = 0
      BY <1>1, <1>2 DEF Tells, Untouched
    <3>2. f # "encoded"  BY <1>4 DEF TrueLengths
    <3> QED  BY <3>1, <3>2
  <2>3. sized \in BOOLEAN  OBVIOUS
  <2> HIDE DEF sent, sized
  <2>4. /\ \A p \in Obj : /\ heap'[p].eState = heap[p].eState
                          /\ heap'[p].zBuffer = heap[p].zBuffer
                          /\ heap'[p].ended = heap[p].ended
    BY <1>2, <2>1 DEF CacheRecord
  <2>5. Tells(m1, x1, heap'[o])
    <3>1. heap'[o].eState = heap[o].eState /\ heap'[o].zBuffer = heap[o].zBuffer
      BY <1>2, <2>4
    <3> DEFINE o1 == heap'[o]
               o0 == heap[o]
    <3>2. o1.eState = o0.eState /\ o1.zBuffer = o0.zBuffer
          /\ Tells(m, x, o0) /\ v \in Version
      BY <1>2, <3>1
    <3>3. m \in Members /\ x \in TransferRecord /\ x.phase = "sent"
          /\ m.sURL \in Url
      BY <1>1, <1>2
    <3> HIDE DEF o1, o0, v, m, x
    <3>4. Tells(m1, x1, o0)
      <4>1. sent \in {0, BodyLen[m.sURL]}  BY <2>2 DEF u
      <4> HIDE DEF u
      <4>2. Tells([m EXCEPT !.bStoreCache = TRUE,
                            !.hContent_length_response = sent],
                  After(Response(x, 200, Body(m.sURL, v), sized)), o0)
        BY <2>3, <3>2, <3>3, <4>1, TellsOK, ZenonT(60)
      <4> QED  BY <4>2 DEF u
    <3> HIDE DEF m1, x1
    <3>5. Tells(m1, x1, o1)  BY <3>2, <3>4, TellsSame
    <3> QED  BY <3>5 DEF o1
  <2>6. x1.ok = x.ok
    <3>1. Body(u, v) \in Seq(Piece) /\ 200 \in Codes
      BY <1>2, BodyType DEF Codes
    <3> QED  BY <1>2, <2>3, <3>1, ResponseOk
  <2>7. /\ m1.filled = m.filled /\ m1.fBuffer = m.fBuffer
        /\ m1.fTotalBytesRead = m.fTotalBytesRead
        /\ m1.fBytesToRead = m.fBytesToRead
        /\ m1.bStreamFromCache = m.bStreamFromCache
        /\ m1.cacheObject = m.cacheObject
    BY <1>2 DEF Members
  <2> HIDE DEF m1, x1, y
  <2>8. \A p \in Obj : Kept(heap[p], heap'[p])
    BY <1>2, <2>4 DEF Kept, IsBlank
  <2> QED  BY <1>1, <1>3, <2>1, <2>5, <2>6, <2>7, <2>8, CompleteResponse
<1>7. ASSUME NEW f \in Framing, HeadRedirect(t, f) PROVE CompleteInv'
  BY <1>4, <1>7 DEF HeadRedirect
<1>8. ASSUME NEW f \in Framing, HeadError(t, f) PROVE CompleteInv'
  <2> DEFINE sent == IF f = "length" THEN NoiseLen
                     ELSE m.hContent_length_response
             left == Noise(m.sURL)
             sized == f # "chunked"
             y == Response(x, 404, left, sized)
             x1 == After(y)
             m1 == [m EXCEPT !.hContent_length_response = sent]
  <2>1. /\ st' = [st EXCEPT ![t] = m1] /\ heap' = heap
        /\ xfer' = [xfer EXCEPT ![t] = x1] /\ Announce(t, y)
    BY <1>4, <1>8 DEF HeadError
  <2>2. sent \in Nat /\ left \in Seq(Piece) /\ sized \in BOOLEAN /\ 404 \in Codes
    BY <1>2, NoiseType, ServerAssumption DEF Codes, Members
  <2> HIDE DEF left, sized, sent
  <2>3. Tells(m1, x1, heap[o])  BY <1>1, <1>2, <2>2, TellsOther
  <2>4. x1.ok = x.ok  BY <1>2, <2>2, ResponseOk
  <2>5. /\ m1.filled = m.filled /\ m1.fBuffer = m.fBuffer
        /\ m1.fTotalBytesRead = m.fTotalBytesRead
        /\ m1.fBytesToRead = m.fBytesToRead
        /\ m1.bStreamFromCache = m.bStreamFromCache
        /\ m1.cacheObject = m.cacheObject
    BY <1>2 DEF Members
  <2> HIDE DEF m1, x1, y
  <2>6. \A p \in Obj : Kept(heap[p], heap'[p])
    BY <1>2, <2>1, SameIsKept
  <2>7. heap'[o] = heap[o]  BY <2>1
  <2> QED  BY <1>1, <1>3, <2>1, <2>3, <2>4, <2>5, <2>6, <2>7, CompleteResponse
<1> QED  BY <1>5, <1>6, <1>7, <1>8 DEF Header

LEMMA CompletePiece ==
  ASSUME CompleteInv, NEW t \in Stream, Data(t)
  PROVE  CompleteInv'
<1> DEFINE m == st[t]
           o == m.cacheObject
           x == xfer[t]
           p == Head(x.left)
           y == [x EXCEPT !.left = Tail(@)]
           x1 == After(y)
           m1 == IF HasRoom(m)
                 THEN [m EXCEPT !.filled = Append(@, p),
                                !.fBytesToRead = @ - 1,
                                !.fTotalBytesRead = @ + 1]
                 ELSE [m EXCEPT !.fBuffer = Append(@, p)]
           o1 == IF Compresses(m) THEN WriteBytes(heap[o], <<p>>) ELSE heap[o]
<1>1. /\ Performing(t) /\ x.phase = "body" /\ x.left # <<>>
      /\ st' = [st EXCEPT ![t] = m1]
      /\ heap' = IF Compresses(m) /\ Live(o)
                 THEN [heap EXCEPT ![o] = WriteBytes(@, <<p>>)] ELSE heap
      /\ xfer' = [xfer EXCEPT ![t] = x1] /\ Announce(t, y)
      /\ UNCHANGED <<HttpCache, fEasy, callVars, clientVars>>
  BY DEF Data
<1>2. /\ t \in Open /\ cur = t /\ m \in Members /\ m.sURL \in Url
      /\ x \in TransferRecord /\ msgs \in Seq(Stream)
      /\ o \in Obj /\ heap \in [Obj -> CacheRecord] /\ Live(o)
      /\ heap[o] \in CacheRecord /\ IsBlank(heap[o])
      /\ Tells(m, x, heap[o]) /\ Counts(m, "perform")
      /\ status[t] = "open" /\ ~x.ok => msgs # <<>>
      /\ status[t] = "open" /\ \A q \in Obj : IsBlank(heap[q])
  BY <1>1, WorkedFor
<1>3. SeqInv'  BY SeqBody DEF CompleteInv
<1>4. /\ p \in Piece /\ Tail(x.left) \in Seq(Piece) /\ x.left \in Seq(Piece)
  BY <1>1, <1>2, EmptyPieces, NextPiece DEF TransferRecord
<1>5. Exists(heap[o])  BY <1>2 DEF Live
<1>6. heap' = [heap EXCEPT ![o] = o1]
  BY <1>1, <1>2
<1>7. \A q \in Obj : Kept(heap[q], heap'[q])
  <2>1. Kept(heap[o], o1)
    BY <1>2, <1>4, <1>5, Writing, SameIsKept
  <2> HIDE DEF o1
  <2> QED  BY <1>2, <1>6, <2>1, SameIsKept
<1>8. heap'[o] = o1  BY <1>2, <1>6
<1>9. /\ m1 \in Members /\ m1.sURL = m.sURL /\ m1.cacheObject = o
      /\ m1.bUseCache = m.bUseCache /\ m1.bStoreCache = m.bStoreCache
      /\ m1.bTransferFinished = m.bTransferFinished
      /\ m1.bStreamFromCache = m.bStreamFromCache
      /\ m1.hContent_length_response = m.hContent_length_response
      /\ Received(m1) = Received(m) + 1
      /\ Counts(m1, "perform")
  <2>1. /\ m.filled \in Seq(Piece) /\ m.fBuffer \in Seq(Piece)
        /\ m.fBytesToRead \in Nat /\ m.fTotalBytesRead \in Nat
    BY <1>2 DEF Members
  <2> DEFINE a == Append(m.filled, p)
             b == Append(m.fBuffer, p)
  <2>2. /\ a \in Seq(Piece) /\ b \in Seq(Piece) /\ a # <<>>
        /\ Len(a) = Len(m.filled) + 1 /\ Len(b) = Len(m.fBuffer) + 1
    BY <1>4, <2>1, AppendProperties
  <2>3. Len(m.fBuffer) \in Nat /\ Len(m.filled) \in Nat
    BY <2>1, LenProperties
  <2> HIDE DEF p
  <2>4. CASE HasRoom(m)
    <3> DEFINE less == m.fBytesToRead - 1
               more == m.fTotalBytesRead + 1
    <3>1. less \in Nat /\ more \in Nat /\ m.fBytesToRead # 0
      BY <2>1, <2>4 DEF HasRoom
    <3>2. m1 = [m EXCEPT !.filled = a, !.fBytesToRead = less,
                         !.fTotalBytesRead = more]
      BY <2>4
    <3> HIDE DEF m1, a, b, less, more
    <3>3. /\ m1.filled = a /\ m1.fBytesToRead = less
          /\ m1.fTotalBytesRead = more /\ m1.fBuffer = m.fBuffer
          /\ m1.sURL = m.sURL /\ m1.cacheObject = o
          /\ m1.bUseCache = m.bUseCache /\ m1.bStoreCache = m.bStoreCache
          /\ m1.bTransferFinished = m.bTransferFinished
          /\ m1.bStreamFromCache = m.bStreamFromCache
          /\ m1.hContent_length_response = m.hContent_length_response
      BY <1>2, <3>2 DEF Members
    <3>4. m1 \in Members  BY <1>2, <2>2, <3>1, <3>2 DEF Members
    <3>5. Received(m1) = Received(m) + 1
      BY <2>1, <2>3, <3>3 DEF Received, more
    <3>6. Len(m1.filled) <= m1.fTotalBytesRead
      BY <1>2, <2>1, <2>2, <2>3, <3>3 DEF Counts, more
    <3>7. Counts(m1, "perform")
      BY <1>2, <2>2, <3>1, <3>3, <3>6 DEF Counts
    <3> QED  BY <3>3, <3>4, <3>5, <3>7
  <2>5. CASE ~HasRoom(m)
    <3>1. m1 = [m EXCEPT !.fBuffer = b]  BY <2>5
    <3> HIDE DEF m1, a, b
    <3>2. /\ m1.filled = m.filled /\ m1.fBytesToRead = m.fBytesToRead
          /\ m1.fTotalBytesRead = m.fTotalBytesRead /\ m1.fBuffer = b
          /\ m1.sURL = m.sURL /\ m1.cacheObject = o
          /\ m1.bUseCache = m.bUseCache /\ m1.bStoreCache = m.bStoreCache
          /\ m1.bTransferFinished = m.bTransferFinished
          /\ m1.bStreamFromCache = m.bStreamFromCache
          /\ m1.hContent_length_response = m.hContent_length_response
      BY <1>2, <3>1 DEF Members
    <3>3. m1 \in Members  BY <1>2, <2>2, <3>1 DEF Members
    <3>4. Received(m1) = Received(m) + 1
      <4>1. Len(m1.fBuffer) = Len(m.fBuffer) + 1  BY <2>2, <3>2
      <4>2. m1.fTotalBytesRead = m.fTotalBytesRead  BY <3>2
      <4> HIDE DEF m
      <4> QED  BY <2>1, <2>3, <4>1, <4>2 DEF Received
    <3>5. m.fBytesToRead = 0  BY <2>1, <2>5 DEF HasRoom
    <3>6. Counts(m1, "perform")
      BY <1>2, <3>2, <3>5 DEF Counts
    <3> QED  BY <3>2, <3>3, <3>4, <3>6
  <2> QED  BY <2>4, <2>5
<1> HIDE DEF m1
<1>10. Tells(m1, x1, o1)
  BY <1>1, <1>2, <1>5, <1>9, TellsData
<1>11. x1.ok = x.ok
  <2>1. y \in TransferRecord /\ y.ok = x.ok
    BY <1>2, <1>4 DEF TransferRecord
  <2> HIDE DEF y
  <2> QED  BY <2>1, AfterFields
<1>12. status'[t] = "open" /\ ~x1.ok => msgs' # <<>>
  BY <1>1, <1>2, <1>11, AnnounceKeeps DEF clientVars
<1>13. cur' = t /\ status'[t] = "open" /\ phase' = "perform"
  BY <1>1, <1>2 DEF callVars, clientVars, Performing
<1> HIDE DEF x1, y, o1, x, o, m
<1> QED
  BY <1>1, <1>2, <1>3, <1>7, <1>8, <1>9, <1>10, <1>12, <1>13,
     CompleteStreamStep DEF m

LEMMA CompleteEnd ==
  ASSUME CompleteInv, NEW t \in Stream, Complete(t) \/ Fail(t)
  PROVE  CompleteInv'
<1> DEFINE m == st[t]
           o == m.cacheObject
           x == xfer[t]
<1>1. /\ Performing(t) /\ msgs' = Append(msgs, t)
      /\ UNCHANGED <<heap, HttpCache, fEasy, st, callVars, clientVars>>
  BY DEF Complete, Fail, handlerVars
<1>2. /\ t \in Open /\ cur = t /\ m \in Members /\ x \in TransferRecord
      /\ msgs \in Seq(Stream) /\ Tells(m, x, heap[o])
      /\ Counts(m, "perform") /\ status[t] = "open"
      /\ \A q \in Obj : IsBlank(heap[q])
  BY <1>1, WorkedFor
<1>3. SeqInv'  BY SeqBody DEF CompleteInv
<1>4. PICK x1 : /\ xfer' = [xfer EXCEPT ![t] = x1]
                /\ x1.phase = "done" /\ (x1.ok => x1.left = <<>>)
                /\ x1.left = x.left /\ x1.code = x.code
  <2>1. CASE Complete(t)
    <3> DEFINE x1 == [x EXCEPT !.phase = "done"]
    <3>1. xfer' = [xfer EXCEPT ![t] = x1] /\ x.left = <<>>
      BY <2>1 DEF Complete
    <3>2. x1.phase = "done" /\ x1.left = x.left /\ x1.code = x.code
      BY <1>2 DEF TransferRecord
    <3> HIDE DEF x1
    <3> QED  BY <3>1, <3>2
  <2>2. CASE Fail(t)
    <3> DEFINE x1 == [x EXCEPT !.phase = "done", !.ok = FALSE]
    <3>1. xfer' = [xfer EXCEPT ![t] = x1]
      BY <2>2 DEF Fail
    <3>2. /\ x1.phase = "done" /\ x1.left = x.left /\ x1.code = x.code
          /\ x1.ok = FALSE
      BY <1>2 DEF TransferRecord
    <3> HIDE DEF x1
    <3> QED  BY <3>1, <3>2
  <2> QED  BY <2>1, <2>2
<1>5. x.phase \in {"sent", "body"}
  BY <1>1 DEF Performing, Running
<1>6. Tells(m, x1, heap[o])  BY <1>2, <1>4, <1>5, TellsDone
<1>7. msgs' # <<>>  BY <1>1, <1>2, AppendProperties
<1>8. st' = [st EXCEPT ![t] = m]
  BY <1>1, RunningStream DEF CompleteInv, SeqInv
<1>9. /\ \A q \in Obj : Kept(heap[q], heap'[q])
      /\ heap'[o] = heap[o]
  BY <1>1, <1>2, SameIsKept
<1>10. status'[t] = "open" /\ Counts(m, phase') /\ cur' = t
  BY <1>1, <1>2 DEF Performing, callVars, clientVars
<1>11. UNCHANGED <<HttpCache, fEasy>>  BY <1>1
<1> HIDE DEF m, x
<1> QED
  BY <1>2, <1>3, <1>4, <1>6, <1>7, <1>8, <1>9, <1>10, <1>11,
     CompleteStreamStep

\* What is known of an open stream, in whatever step.
LEMMA OpenOne ==
  ASSUME CompleteInv, NEW s \in Open
  PROVE  /\ st[s] \in Members /\ st[s].sURL \in Url
         /\ xfer[s] \in TransferRecord /\ msgs \in Seq(Stream)
         /\ st[s].cacheObject \in Obj /\ Exists(heap[st[s].cacheObject])
         /\ Live(st[s].cacheObject)
         /\ heap[st[s].cacheObject] \in CacheRecord
         /\ heap \in [Obj -> CacheRecord]
         /\ Tells(st[s], xfer[s], heap[st[s].cacheObject])
         /\ status[s] = "open" /\ ~xfer[s].ok => msgs # <<>>
         /\ \A o \in Obj : IsBlank(heap[o])
         /\ st = [st EXCEPT ![s] = st[s]] /\ xfer = [xfer EXCEPT ![s] = xfer[s]]
<1>1. SeqInv /\ TypeInv /\ TypeOK  BY DEF CompleteInv, SeqInv, TypeInv
<1>2. /\ st[s] \in Members /\ st[s].sURL \in Url /\ xfer[s] \in TransferRecord
      /\ msgs \in Seq(Stream)
      /\ st = [st EXCEPT ![s] = st[s]] /\ xfer = [xfer EXCEPT ![s] = xfer[s]]
  BY <1>1 DEF TypeInv, TypeOK, StreamsSetUp, Open
<1>3. /\ st[s].cacheObject \in Obj /\ Live(st[s].cacheObject)
      /\ heap[st[s].cacheObject] \in CacheRecord
      /\ heap \in [Obj -> CacheRecord]
  BY <1>1, OpenStreamsLive
<1>4. Exists(heap[st[s].cacheObject])  BY <1>3 DEF Live
<1>5. /\ Tells(st[s], xfer[s], heap[st[s].cacheObject])
      /\ status[s] = "open" /\ ~xfer[s].ok => msgs # <<>>
      /\ \A o \in Obj : IsBlank(heap[o])
  BY DEF CompleteInv, StreamsTell, FailuresAnnounced, Blank
<1> QED  BY <1>2, <1>3, <1>4, <1>5

LEMMA CompleteBeginRead ==
  ASSUME CompleteInv, NEW s \in Stream, NEW n \in 1 .. MaxRead, BeginRead(s, n)
  PROVE  CompleteInv'
<1> DEFINE m == st[s]
           o == m.cacheObject
           k == IF m.bStreamFromCache THEN 0 ELSE Least(n, Len(m.fBuffer))
           rest == n - k
           first == SubSeq(m.fBuffer, 1, k)
           later == SubSeq(m.fBuffer, k + 1, Len(m.fBuffer))
           total == m.fTotalBytesRead + k
           m1 == [m EXCEPT !.maxToRead = n, !.fBytesToRead = rest,
                           !.filled = first, !.fBuffer = later,
                           !.fTotalBytesRead = total]
<1>1. /\ s \in Open /\ status[s] = "open" /\ cur' = s
      /\ phase' = IF m.bStreamFromCache \/ rest = 0 THEN "return" ELSE "perform"
      /\ st' = [st EXCEPT ![s] = m1]
      /\ UNCHANGED <<heap, HttpCache, fEasy, xfer, msgs, status>>
  BY DEF BeginRead, Open, handlerVars, clientVars
<1>2. /\ m \in Members /\ m.sURL \in Url /\ heap[o] \in CacheRecord
      /\ xfer[s] \in TransferRecord /\ Tells(m, xfer[s], heap[o])
      /\ ~xfer[s].ok => msgs # <<>>
      /\ \A q \in Obj : IsBlank(heap[q])
      /\ xfer = [xfer EXCEPT ![s] = xfer[s]]
  BY <1>1, OpenOne
<1>3. SeqInv'  BY SeqBeginRead DEF CompleteInv
<1>4. /\ n \in Nat /\ n # 0 /\ m.fTotalBytesRead \in Nat
      /\ Len(m.fBuffer) \in Nat /\ m.fBuffer \in Seq(Piece)
      /\ m.bStreamFromCache \in BOOLEAN
  BY <1>2, ClientAssumption, LenProperties DEF Members
<1>5. /\ k \in 0 .. Len(m.fBuffer) /\ rest \in Nat
      /\ ~m.bStreamFromCache => (rest = 0 => k # 0)
                                /\ (rest # 0 => k = Len(m.fBuffer))
  BY <1>4 DEF Least
<1> HIDE DEF k
<1>6. /\ first \in Seq(Piece) /\ later \in Seq(Piece) /\ Len(first) = k
      /\ (k = Len(m.fBuffer) => later = <<>>)
      /\ Len(later) = Len(m.fBuffer) - k
      /\ total \in Nat /\ k \in Nat
  <2>1. /\ first \in Seq(Piece) /\ later \in Seq(Piece) /\ Len(first) = k
        /\ k = Len(m.fBuffer) => later = <<>>
    BY <1>4, <1>5, EmptyPieces, FromHolding
  <2>2. Len(later) = Len(m.fBuffer) - k
    BY <1>4, <1>5, SubSeqProperties
  <2>3. total \in Nat /\ k \in Nat  BY <1>4, <1>5
  <2> QED  BY <2>1, <2>2, <2>3
<1> HIDE DEF rest, first, later, total
<1>7. /\ m1 \in Members /\ m1.sURL = m.sURL /\ m1.cacheObject = o
      /\ m1.bUseCache = m.bUseCache /\ m1.bStoreCache = m.bStoreCache
      /\ m1.bTransferFinished = m.bTransferFinished
      /\ m1.bStreamFromCache = m.bStreamFromCache
      /\ m1.hContent_length_response = m.hContent_length_response
      /\ m1.filled = first /\ m1.fBuffer = later
      /\ m1.fTotalBytesRead = total /\ m1.fBytesToRead = rest
  BY <1>2, <1>4, <1>5, <1>6 DEF Members
<1> HIDE DEF m1
<1>8. Counts(m1, phase')
  <2>1. Len(m1.filled) <= m1.fTotalBytesRead
    BY <1>4, <1>6, <1>7 DEF total
  <2>2. ASSUME ~m.bStreamFromCache, rest = 0 PROVE first # <<>>
    BY <1>5, <1>6, <2>2
  <2>3. ASSUME ~m.bStreamFromCache, rest # 0
        PROVE  later = <<>> /\ phase' # "return"
    BY <1>1, <1>5, <1>6, <2>3
  <2> QED  BY <1>7, <2>1, <2>2, <2>3 DEF Counts
<1>9. Tells(m1, xfer[s], heap[o])
  <2>1. /\ Len(m1.fBuffer) = Len(m.fBuffer) - k
        /\ m1.fTotalBytesRead = m.fTotalBytesRead + k
    BY <1>6, <1>7 DEF total
  <2> HIDE DEF m, o
  <2> QED  BY <1>2, <1>5, <1>7, <2>1, TellsBegin
<1>10. /\ \A q \in Obj : Kept(heap[q], heap'[q])
       /\ heap'[m1.cacheObject] = heap[o]
  BY <1>1, <1>2, <1>7, SameIsKept
<1>11. xfer' = [xfer EXCEPT ![s] = xfer[s]]  BY <1>1, <1>2
<1> HIDE DEF o
<1> QED
  BY <1>1, <1>2, <1>3, <1>8, <1>9, <1>10, <1>11, CompleteStreamStep

LEMMA CompleteTakeMessage ==
  ASSUME CompleteInv, TakeMessage
  PROVE  CompleteInv'
<1>1. PICK t \in Stream : \/ TakeFinished(t) \/ TakeUnmodified(t)
                          \/ TakeRedirect(t) \/ TakeError(t)
  BY DEF TakeMessage
<1> DEFINE m == st[cur]
           x == xfer[cur]
           o == m.cacheObject
<1>2. cur # None
  BY <1>1 DEF TakeFinished, TakeUnmodified, TakeRedirect, TakeError, Message
<1>3. cur \in Open
  BY <1>2 DEF CompleteInv, SeqInv, TypeInv, CurrentExists
<1>4. t = cur
  BY <1>3 DEF CompleteInv, SeqInv, OneAtATime, Open
<1>5. /\ m \in Members /\ x \in TransferRecord /\ Tells(m, x, heap[o])
      /\ st = [st EXCEPT ![cur] = m] /\ xfer = [xfer EXCEPT ![cur] = x]
      /\ \A q \in Obj : IsBlank(heap[q])
  BY <1>3, OpenOne
<1>6. status[cur] = "open" /\ Counts(m, phase)
  BY <1>2 DEF CompleteInv, CallCounts
<1>7. SeqInv'  BY SeqTakeMessage DEF CompleteInv
<1>8. ~TakeRedirect(t)
  BY <1>3 DEF TakeRedirect, Redirected, CompleteInv, SeqInv, OnlyBorrowersRevalidate
<1>9. /\ UNCHANGED <<heap, HttpCache, fEasy, xfer>>
      /\ phase \in {"perform", "messages"}
  BY <1>1, <1>8 DEF TakeFinished, TakeUnmodified, TakeError, handlerVars, Message
<1>10. /\ \A q \in Obj : Kept(heap[q], heap'[q])
       /\ heap'[o] = heap[o] /\ xfer' = [xfer EXCEPT ![cur] = x]
       /\ UNCHANGED <<HttpCache, fEasy>>
  BY <1>5, <1>9, SameIsKept
<1>11. CASE TakeFinished(t)
  <2>1. /\ x.ok /\ st' = st /\ cur' = cur /\ phase' = "messages"
        /\ status' = status
    BY <1>4, <1>11 DEF TakeFinished, Finished, clientVars
  <2>2. Counts(m, phase')
    BY <1>6, <2>1 DEF Counts
  <2>3. st' = [st EXCEPT ![cur] = m]  BY <1>5, <2>1
  <2>4. status'[cur] = "open" /\ ~x.ok => msgs' # <<>>  BY <2>1
  <2>5. cur' = cur /\ status'[cur] = "open"  BY <1>6, <2>1
  <2> HIDE DEF m, x
  <2> QED
    BY <1>3, <1>5, <1>7, <1>10, <2>2, <2>3, <2>4, <2>5, CompleteStreamStep
<1>12. CASE TakeUnmodified(t)
  <2> DEFINE m1 == [m EXCEPT !.bStreamFromCache = TRUE]
  <2>1. /\ x.ok /\ x.code = 304 /\ st' = [st EXCEPT ![cur] = m1] /\ cur' = cur
        /\ phase' = "messages" /\ status' = status
    BY <1>4, <1>12 DEF TakeUnmodified, Unmodified, clientVars
  <2>2. /\ m1.bStreamFromCache = TRUE /\ m1.bStoreCache = m.bStoreCache
        /\ m1.filled = m.filled /\ m1.fTotalBytesRead = m.fTotalBytesRead
        /\ m1.cacheObject = o
    BY <1>5 DEF Members
  <2> HIDE DEF m1
  <2>3. Counts(m1, phase')
    BY <1>6, <2>2 DEF Counts
  <2>4. ~m1.bStoreCache /\ x.phase # "sent" /\ heap[o].eState # "WRITE"
    BY <1>5, <2>1, <2>2 DEF Tells
  <2>5. Tells(m1, x, heap[o])  BY <1>5, <2>4, TellsNothing
  <2>6. heap'[m1.cacheObject] = heap[o]  BY <1>10, <2>2
  <2>7. status'[cur] = "open" /\ ~x.ok => msgs' # <<>>  BY <2>1
  <2>8. cur' = cur /\ status'[cur] = "open" /\ st' = [st EXCEPT ![cur] = m1]
    BY <1>6, <2>1
  <2> HIDE DEF m, x, o
  <2> QED
    BY <1>3, <1>7, <1>10, <2>3, <2>5, <2>6, <2>7, <2>8, CompleteStreamStep
<1>13. CASE TakeError(t)
  <2>1. /\ st' = st /\ cur' = None /\ status' = [status EXCEPT ![cur] = "error"]
    BY <1>13 DEF TakeError
  <2>2. status'[cur] = "error"
    BY <1>3, <2>1 DEF CompleteInv, SeqInv, TypeInv, TypeOK, Open
  <2>3. st' = [st EXCEPT ![cur] = m]  BY <1>5, <2>1
  <2> HIDE DEF m, x
  <2> QED
    BY <1>3, <1>5, <1>7, <1>10, <2>1, <2>2, <2>3, CompleteStreamStep
<1> QED  BY <1>1, <1>8, <1>11, <1>12, <1>13

LEMMA CompletePerformAgain ==
  ASSUME CompleteInv, PerformAgain
  PROVE  CompleteInv'
<1> DEFINE m == st[cur]
           x == xfer[cur]
           o == m.cacheObject
           x1 == IF x.phase = "sent" THEN [x EXCEPT !.code = 0] ELSE x
<1>1. /\ cur # None /\ cur \in Open
  BY DEF PerformAgain, CompleteInv, SeqInv, TypeInv, CurrentExists
<1>2. /\ m \in Members /\ x \in TransferRecord /\ Tells(m, x, heap[o])
      /\ st = [st EXCEPT ![cur] = m] /\ xfer = [xfer EXCEPT ![cur] = x]
      /\ \A q \in Obj : IsBlank(heap[q])
      /\ status[cur] = "open" /\ ~x.ok => msgs # <<>>
  BY <1>1, OpenOne
<1>3. status[cur] = "open" /\ Counts(m, phase)
  BY <1>1 DEF CompleteInv, CallCounts
<1>4. SeqInv'  BY SeqPerformAgain DEF CompleteInv
<1>5. /\ UNCHANGED <<heap, HttpCache, fEasy, st, msgs, cur, status>>
      /\ phase' = "perform"
      /\ xfer' = IF x.phase = "sent" THEN [xfer EXCEPT ![cur].code = 0]
                 ELSE xfer
  BY DEF PerformAgain, handlerVars, clientVars
<1>6. xfer' = [xfer EXCEPT ![cur] = x1]
  BY <1>2, <1>5
<1>7. x1 = x
  <2>1. x.phase = "sent" => x.code = 0  BY <1>2 DEF Tells
  <2> QED  BY <1>2, <2>1 DEF TransferRecord
<1> HIDE DEF x1
<1>8. /\ \A q \in Obj : Kept(heap[q], heap'[q])
      /\ heap'[o] = heap[o] /\ xfer' = [xfer EXCEPT ![cur] = x]
      /\ st' = [st EXCEPT ![cur] = m] /\ UNCHANGED <<HttpCache, fEasy>>
  BY <1>2, <1>5, <1>6, <1>7, SameIsKept
<1>9. /\ Counts(m, phase') /\ cur' = cur /\ status'[cur] = "open"
      /\ status'[cur] = "open" /\ ~x.ok => msgs' # <<>>
  BY <1>2, <1>3, <1>5 DEF Counts
<1> HIDE DEF m, x
<1> QED  BY <1>1, <1>2, <1>4, <1>8, <1>9, CompleteStreamStep

\* When a call ends for want of anything to wait for, the transfer has ended
\* well.
LEMMA NothingToWaitFor ==
  ASSUME CompleteInv, cur # None, ReadsEnd
  PROVE  \/ phase = "return" \/ st[cur].fBytesToRead = 0
         \/ st[cur].filled # <<>> \/ st[cur].bStreamFromCache
         \/ xfer[cur].phase \notin {"sent", "body"} /\ xfer[cur].ok
<1>1. cur \in Open
  BY DEF CompleteInv, SeqInv, TypeInv, CurrentExists
<1>2. CASE msgs = <<>> /\ Running = {}
  <2>1. xfer[cur].phase \notin {"sent", "body"}
    BY <1>1, <1>2 DEF Running
  <2>2. status[cur] = "open"  BY DEF CompleteInv, CallCounts
  <2>3. xfer[cur].ok
    BY <1>1, <1>2, <2>2 DEF CompleteInv, FailuresAnnounced
  <2> QED  BY <2>1, <2>3
<1> QED  BY <1>2 DEF ReadsEnd, LoopEnds

LEMMA CompleteEndRead ==
  ASSUME CompleteInv, EndRead
  PROVE  CompleteInv'
<1> DEFINE m == st[cur]
           x == xfer[cur]
           o == m.cacheObject
           rest == AtRest(m)
           fin == TransferFinished(m, m.fTotalBytesRead)
           m1 == [rest EXCEPT !.bTransferFinished = fin]
<1>1. /\ cur # None /\ ReadsEnd /\ Return(cur, m.filled, m)
      /\ UNCHANGED <<heap, HttpCache, fEasy, xfer, msgs>>
  BY DEF EndRead, handlerVars
<1>2. cur \in Open
  BY <1>1 DEF CompleteInv, SeqInv, TypeInv, CurrentExists
<1>3. /\ m \in Members /\ m.sURL \in Url /\ x \in TransferRecord
      /\ heap[o] \in CacheRecord /\ Tells(m, x, heap[o])
      /\ xfer = [xfer EXCEPT ![cur] = x]
      /\ \A q \in Obj : IsBlank(heap[q])
      /\ status[cur] = "open" /\ ~x.ok => msgs # <<>>
  BY <1>2, OpenOne
<1>4. status[cur] = "open" /\ Counts(m, phase)
  BY <1>1 DEF CompleteInv, CallCounts
<1>5. SeqInv'  BY SeqEndRead DEF CompleteInv
<1>6. st' = [st EXCEPT ![cur] = m1] /\ cur' = None
  BY <1>1 DEF Return
<1>7. \/ phase = "return" \/ m.fBytesToRead = 0 \/ m.filled # <<>>
      \/ m.bStreamFromCache
      \/ x.phase \notin {"sent", "body"} /\ x.ok
  BY <1>1, NothingToWaitFor
<1>8. m1.cacheObject = o /\ m1.bStoreCache = m.bStoreCache
  BY <1>3 DEF AtRest, Members
<1>9. Tells(m1, x, heap[o])
  <2>1. CASE ~m.bStreamFromCache
    <3> HIDE DEF m, x, o
    <3> QED  BY <1>3, <1>4, <1>7, <2>1, TellsReturn
  <2>2. CASE m.bStreamFromCache
    <3>1. ~m1.bStoreCache /\ x.phase # "sent" /\ heap[o].eState # "WRITE"
      BY <1>3, <1>8, <2>2 DEF Tells, Untouched
    <3> HIDE DEF m1, m, x, o
    <3> QED  BY <1>3, <3>1, TellsNothing
  <2> QED  BY <2>1, <2>2
<1> HIDE DEF m1
<1>10. /\ \A q \in Obj : Kept(heap[q], heap'[q])
       /\ heap'[m1.cacheObject] = heap[o] /\ xfer' = [xfer EXCEPT ![cur] = x]
       /\ UNCHANGED <<HttpCache, fEasy>>
  BY <1>1, <1>3, <1>8, SameIsKept
<1>11. status'[cur] = "open" /\ ~x.ok => msgs' # <<>>
  BY <1>1, <1>3, <1>4
<1> HIDE DEF m, x, o
<1> QED
  BY <1>2, <1>5, <1>6, <1>9, <1>10, <1>11, CompleteStreamStep

LEMMA CompleteEndReadFromCache ==
  ASSUME CompleteInv, EndReadFromCache
  PROVE  CompleteInv'
<1> DEFINE m == st[cur]
           x == xfer[cur]
           o == m.cacheObject
<1>1. /\ cur # None /\ FromCache(m)
      /\ UNCHANGED <<HttpCache, fEasy, xfer, msgs>>
  BY DEF EndReadFromCache
<1>2. cur \in Open
  BY <1>1 DEF CompleteInv, SeqInv, TypeInv, CurrentExists
<1>3. /\ m \in Members /\ x \in TransferRecord /\ o \in Obj /\ Live(o)
      /\ Exists(heap[o]) /\ heap[o] \in CacheRecord
      /\ heap \in [Obj -> CacheRecord] /\ Tells(m, x, heap[o])
      /\ xfer = [xfer EXCEPT ![cur] = x] /\ IsBlank(heap[o])
      /\ \A q \in Obj : IsBlank(heap[q])
      /\ status[cur] = "open" /\ ~x.ok => msgs # <<>>
  BY <1>2, OpenOne
<1>4. status[cur] = "open"
  BY <1>1 DEF CompleteInv, CallCounts
<1>5. SeqInv'  BY SeqEndRead DEF CompleteInv
<1>6. PICK r \in CacheReads(o, m.fBytesToRead) :
        /\ heap' = Update(o, r.obj)
        /\ Return(cur, r.data, [m EXCEPT !.fTotalBytesRead = @ + Len(r.data)])
  BY <1>3 DEF EndReadFromCache
<1>7. ~m.bStoreCache /\ x.phase # "sent" /\ heap[o].eState # "WRITE"
  BY <1>1, <1>3 DEF FromCache, Tells, Untouched
<1>8. Kept(heap[o], r.obj) /\ r.obj.eState # "WRITE"
  <2> DEFINE n == m.fBytesToRead
             a == heap[o]
  <2>1. n \in Nat /\ a \in CacheRecord /\ IsBlank(a) /\ Exists(a)
        /\ a.eState # "WRITE"
    BY <1>3, <1>7 DEF Members
  <2>2. PICK q \in ReadOutcomes(a, n) :
          r = [data |-> q.data,
               obj |-> IF q.data = <<>> THEN ResetState(q.obj) ELSE q.obj]
    BY <1>6 DEF CacheReads
  <2> HIDE DEF a, n
  <2>3. Kept(a, q.obj) /\ q.obj.eState # "WRITE" /\ q.obj \in CacheRecord
    BY <2>1, ReadingKeeps, ReadOutcomesType
  <2>4. Kept(q.obj, ResetState(q.obj)) /\ ResetState(q.obj).eState # "WRITE"
    BY <2>3, OtherStates DEF Kept
  <2>5. r.obj = q.obj \/ r.obj = ResetState(q.obj)  BY <2>2
  <2>6. Kept(a, r.obj) /\ r.obj.eState # "WRITE"
    BY <2>3, <2>4, <2>5 DEF Kept
  <2> QED  BY <2>6 DEF a
<1>9. heap' = [heap EXCEPT ![o] = r.obj]
  BY <1>3, <1>6 DEF Update
<1>10. /\ \A q \in Obj : Kept(heap[q], heap'[q])
       /\ heap'[o] = r.obj
  BY <1>3, <1>8, <1>9, SameIsKept
<1> DEFINE total == m.fTotalBytesRead + Len(r.data)
           m0 == [m EXCEPT !.fTotalBytesRead = total]
           fin == TransferFinished(m0, m0.fTotalBytesRead)
           m1 == [AtRest(m0) EXCEPT !.bTransferFinished = fin]
<1>11. st' = [st EXCEPT ![cur] = m1] /\ cur' = None
  BY <1>6 DEF Return
<1> HIDE DEF total, fin
<1>12. m1.cacheObject = o /\ m1.bStoreCache = m.bStoreCache
  BY <1>3 DEF AtRest, Members
<1> HIDE DEF m1
<1>13. Tells(m1, x, r.obj)
  <2>1. ~m1.bStoreCache  BY <1>7, <1>12
  <2> HIDE DEF m, x, o
  <2> QED  BY <1>3, <1>7, <1>8, <2>1, TellsNothing
<1>14. status'[cur] = "open" /\ ~x.ok => msgs' # <<>>
  BY <1>1, <1>3, <1>4
<1>15. /\ xfer' = [xfer EXCEPT ![cur] = x] /\ heap'[m1.cacheObject] = r.obj
       /\ UNCHANGED <<HttpCache, fEasy>>
  BY <1>1, <1>3, <1>10, <1>12
<1> HIDE DEF m, x, o
<1> QED
  BY <1>2, <1>5, <1>10, <1>11, <1>13, <1>14, <1>15, CompleteStreamStep

(***************************************************************************)
(* Opening: what is handed out is not being written, and a new object is   *)
(* empty.                                                                  *)
(***************************************************************************)
LEMMA CompleteNewStream ==
  ASSUME CompleteInv, NEW s \in Stream, NEW u \in Url, NEW mode \in Modes,
         NewStream(s, u, mode)
  PROVE  CompleteInv'
<1> DEFINE wanted == mode # "nocache"
           pCache == Lookup(wanted, u)
           m0 == [NoMembers EXCEPT !.sURL = u, !.bUseCache = TRUE]
<1>1. SeqInv'  BY SeqNewStream DEF CompleteInv
<1>2. PICK h \in Handle, new \in NewAddresses(pCache = None) :
        LET m == SetupConnection(m0, pCache, new)
        IN
        /\ fEasy' = [fEasy EXCEPT ![s] = h]
        /\ heap' = HeapWith(new)
        /\ st' = [st EXCEPT ![s] = [m EXCEPT !.bUseCache = (mode = "cache")]]
        /\ xfer' = [xfer EXCEPT ![s] = Request(RequestHeaders(m, pCache), 0)]
  BY ZenonT(60) DEF NewStream
<1> DEFINE m  == SetupConnection(m0, pCache, new)
           m1 == [m EXCEPT !.bUseCache = (mode = "cache")]
           x1 == Request(RequestHeaders(m, pCache), 0)
<1>3. fEasy[s] = None /\ cur = None /\ UNCHANGED <<HttpCache, callVars>>
  BY DEF NewStream
<1>4. Open' = {s} /\ st'[s] = m1 /\ xfer'[s] = x1
  <2>1. Stream = {s}  BY DEF CompleteInv, SeqInv, OneAtATime
  <2>2. h # None  BY HandleAssumption
  <2> QED
    BY <1>2, <1>3, <2>1, <2>2
       DEF Open, CompleteInv, SeqInv, TypeInv, TypeOK
<1>5. /\ heap \in [Obj -> CacheRecord] /\ HttpCache \in [Url -> Obj \cup {None}]
      /\ pCache \in Obj \cup {None}
      /\ \A o \in Obj : IsBlank(heap[o])
  BY LookupType DEF CompleteInv, SeqInv, TypeInv, TypeOK, Blank
<1>6. pCache # None => Exists(heap[pCache]) /\ heap[pCache].eState # "WRITE"
  <2>1. ASSUME pCache # None
        PROVE  /\ HttpCache[u] = pCache
               /\ Exists(heap[pCache]) => State(heap[pCache]) # "BUSY"
    BY <2>1 DEF Lookup, GetCacheObject
  <2>2. ASSUME pCache # None PROVE Exists(heap[pCache])
    BY <2>1, <2>2 DEF CompleteInv, SeqInv, Custody, MapIntact, Cached
  <2> QED  BY <2>1, <2>2 DEF State
<1>7. /\ pCache = None => new \in Obj
      /\ pCache # None => new = None
  BY <1>2 DEF NewAddresses, Unused
<1> HIDE DEF pCache, wanted
<1>8. heap' = IF pCache = None THEN [heap EXCEPT ![new] = NewObject] ELSE heap
  BY <1>2, <1>7, ObjAssumption DEF HeapWith, m
<1>9. /\ m1.cacheObject = IF pCache = None THEN new ELSE pCache
      /\ Untouched(m1)
  <2>1. Len(<<>>) = 0 /\ 0 + 0 = 0  OBVIOUS
  <2>2. /\ m1.cacheObject = IF pCache = None THEN new ELSE pCache
        /\ ~m1.bStoreCache /\ ~m1.bTransferFinished /\ ~m1.bStreamFromCache
        /\ m1.hContent_length_response = 0 /\ m1.fTotalBytesRead = 0
        /\ m1.fBuffer = <<>>
    BY DEF SetupConnection, NoMembers
  <2> HIDE DEF m1
  <2> QED  BY <2>1, <2>2 DEF Untouched, Received
<1> HIDE DEF m1
<1>10. x1.phase = "sent" /\ x1.code = 0 /\ x1.ok
  BY DEF Request, NoTransfer
<1> HIDE DEF m, m0, x1
<1>11. NewObject.eState = "EMPTY" /\ NewObject.zBuffer = <<>>
  BY DEF NewObject
<1>12. \A o \in Obj : Kept(heap[o], heap'[o])
  BY <1>5, <1>7, <1>8, <1>11 DEF Kept, IsBlank
<1>13. heap'[m1.cacheObject].eState # "WRITE"
  BY <1>5, <1>6, <1>7, <1>8, <1>9, <1>11
<1>14. Tells(m1, x1, heap'[m1.cacheObject])
  BY <1>9, <1>10, <1>13 DEF Tells, Untouched
<1>15. Blank' /\ HeldWhole'  BY <1>3, <1>12, CopiesKept
<1>16. StreamsTell'
  <2>1. Tells(st'[s], xfer'[s], heap'[st'[s].cacheObject])
    BY <1>4, <1>14
  <2> QED  BY <1>4, <2>1 DEF StreamsTell
<1>17. FailuresAnnounced'  BY <1>4, <1>10 DEF FailuresAnnounced
<1>18. CallCounts'  BY <1>3 DEF CallCounts, callVars
<1> QED
  BY <1>1, <1>15, <1>16, <1>17, <1>18 DEF CompleteInv, TrueLengths

(***************************************************************************)
(* Closing.                                                                *)
(***************************************************************************)
\* addCacheObject makes and changes no objects, and no entries but its own.
LEMMA AddsOnlyItem ==
  ASSUME NEW h \in [Obj -> CacheRecord], NEW c \in [Url -> Obj \cup {None}],
         NEW u \in Url, NEW item \in Obj
  PROVE  LET r == AddCacheObject(h, c, u, item)
         IN  /\ \A o \in Obj : r.heap[o] = h[o] \/ r.heap[o] = NoObject
             /\ \A w \in Url : r.cache[w] # None =>
                  r.cache[w] = c[w] \/ (w = u /\ r.cache[w] = item)
<1>1. CASE DeletesItem(h, c, u, item)
  <2> DEFINE g == [h EXCEPT ![item] = NoObject]
  <2>1. AddCacheObject(h, c, u, item).heap = g
        /\ AddCacheObject(h, c, u, item).cache = c
    BY <1>1 DEF AddCacheObject
  <2>2. \A o \in Obj : g[o] = h[o] \/ g[o] = NoObject  OBVIOUS
  <2> HIDE DEF g
  <2> QED  BY <2>1, <2>2
<1>2. CASE ~DeletesItem(h, c, u, item)
  <2> DEFINE freed == IF c[u] # None /\ c[u] # item
                      THEN [h EXCEPT ![c[u]] = NoObject] ELSE h
             d == [c EXCEPT ![u] = item]
             gone == Walk(freed, d, item).gone
             g == [o \in Obj |-> IF \E w \in Url : w \in gone /\ d[w] = o
                                 THEN NoObject ELSE freed[o]]
             e == [w \in Url |-> IF w \in gone THEN None ELSE d[w]]
  <2>1. AddCacheObject(h, c, u, item) = CheckCacheSize(freed, d, item)
    BY <1>2 DEF AddCacheObject
  <2>2. /\ AddCacheObject(h, c, u, item).heap = g
        /\ AddCacheObject(h, c, u, item).cache = e
    BY <2>1 DEF CheckCacheSize
  <2>3. \A o \in Obj : freed[o] = h[o] \/ freed[o] = NoObject
    OBVIOUS
  <2>4. \A w \in Url : d[w] = c[w] \/ (w = u /\ d[w] = item)
    OBVIOUS
  <2> HIDE DEF gone, freed, d
  <2>5. \A o \in Obj : g[o] = h[o] \/ g[o] = NoObject
    BY <2>3
  <2>6. \A w \in Url : e[w] # None =>
          e[w] = c[w] \/ (w = u /\ e[w] = item)
    BY <2>4
  <2> QED  BY <2>2, <2>5, <2>6
<1> QED  BY <1>1, <1>2

\* What the destructor stores is what was to be received.
LEMMA FinishedCopy ==
  ASSUME NEW m \in Members, NEW x \in TransferRecord, NEW o \in CacheRecord,
         Tells(m, x, o), IsBlank(o), Exists(o), m.sURL \in Url,
         StoreWanted(m), NEW v \in Version, Written(m, x, o, v)
  PROVE  LET f == ResetState(FinishBytes(o))
         IN  f.eState = "FULL" /\ f.ended /\ f.zBuffer = Body(m.sURL, v)
<1> DEFINE f == ResetState(FinishBytes(o))
<1>1. m.fTotalBytesRead = BodyLen[m.sURL]
  BY DEF Tells, StoreWanted, Storing
<1>2. x.left = <<>>
  <2>1. Received(m) + Len(x.left) = BodyLen[m.sURL]  BY Amounts
  <2>2. x.left \in Seq(Piece) /\ Len(x.left) \in Nat
    BY LenProperties DEF TransferRecord
  <2>3. Len(x.left) = 0
    BY <1>1, <2>1, <2>2, ReceivedType
  <2> QED  BY <2>2, <2>3, EmptySeq
<1>3. f.eState = "FULL" /\ f.ended
      /\ f.zBuffer = IF o.eState = "WRITE" THEN o.zBuffer ELSE <<>>
  BY Finishing
<1> HIDE DEF f
<1>4. o.zBuffer \o <<>> = o.zBuffer
  BY ConcatEmptySeq DEF CacheRecord
<1>5. f.zBuffer = Body(m.sURL, v)
  BY <1>2, <1>3, <1>4 DEF Written
<1> QED  BY <1>3, <1>5 DEF f

LEMMA StoresWhole ==
  ASSUME NEW m \in Members, NEW x \in TransferRecord, NEW o \in CacheRecord,
         Tells(m, x, o), IsBlank(o), Exists(o), m.sURL \in Url, StoreWanted(m)
  PROVE  HoldsWhole(ResetState(FinishBytes(o)), m.sURL)
<1>1. PICK v \in Version : Written(m, x, o, v)
  BY DEF Tells, StoreWanted, Storing
<1>2. /\ ResetState(FinishBytes(o)).ended
      /\ ResetState(FinishBytes(o)).zBuffer = Body(m.sURL, v)
  BY <1>1, FinishedCopy
<1> QED  BY <1>2 DEF HoldsWhole, Whole

\* The destructor that stores finishes its object, frees some, and makes no
\* entry but its own.
LEMMA StoringDelete ==
  ASSUME CompleteInv, NEW s \in Stream, Delete(s), StoreWanted(st[s])
  PROVE  LET o == st[s].cacheObject
         IN  /\ heap'[o] \in {ResetState(FinishBytes(heap[o])), NoObject}
             /\ \A q \in Obj : q # o => heap'[q] \in {heap[q], NoObject}
             /\ \A w \in Url : HttpCache'[w] # None =>
                  IF HttpCache'[w] = o THEN w = st[s].sURL
                  ELSE HttpCache'[w] = HttpCache[w]
<1> DEFINE m == st[s]
           o == m.cacheObject
           f == ResetState(FinishBytes(heap[o]))
           g == [heap EXCEPT ![o] = f]
<1>1. s \in Open  BY DEF Delete, Open
<1>2. /\ m.sURL \in Url /\ o \in Obj /\ Live(o) /\ heap[o] \in CacheRecord
      /\ heap \in [Obj -> CacheRecord]
      /\ HttpCache \in [Url -> Obj \cup {None}]
  BY <1>1, OpenOne DEF CompleteInv, SeqInv, TypeInv, TypeOK
<1>3. f \in CacheRecord  BY <1>2, ObjectOps
<1>4. Stored(m) = AddCacheObject(g, HttpCache, m.sURL, o)
  BY <1>2 DEF Stored, Update
<1>5. heap' = Stored(m).heap /\ HttpCache' = Stored(m).cache
  BY DEF Destroyed, Delete
<1>6. \A w \in Url : HttpCache[w] = o => w = m.sURL
  BY <1>1, <1>2, ObjAssumption
     DEF CompleteInv, SeqInv, Custody, SoleDeleter, MapIntact, Cached
<1> HIDE DEF f
<1>7. g \in [Obj -> CacheRecord]  BY <1>2, <1>3
<1>8. g[o] = f /\ \A q \in Obj : q # o => g[q] = heap[q]
  BY <1>2
<1> HIDE DEF g
<1>9. /\ \A q \in Obj : heap'[q] = g[q] \/ heap'[q] = NoObject
      /\ \A w \in Url : HttpCache'[w] # None =>
           \/ HttpCache'[w] = HttpCache[w]
           \/ w = m.sURL /\ HttpCache'[w] = o
  <2> DEFINE a == AddCacheObject(g, HttpCache, m.sURL, o)
  <2>1. heap' = a.heap /\ HttpCache' = a.cache  BY <1>4, <1>5
  <2> HIDE DEF m, o
  <2> QED  BY <1>2, <1>7, <2>1, AddsOnlyItem
<1>10. /\ heap'[o] \in {f, NoObject}
       /\ \A q \in Obj : q # o => heap'[q] \in {heap[q], NoObject}
       /\ \A w \in Url : HttpCache'[w] # None =>
            IF HttpCache'[w] = o THEN w = m.sURL
            ELSE HttpCache'[w] = HttpCache[w]
  <2> HIDE DEF m, o
  <2> QED  BY <1>2, <1>6, <1>8, <1>9
<1> QED  BY <1>10 DEF f

LEMMA CompleteDelete ==
  ASSUME CompleteInv, NEW s \in Stream, Delete(s)
  PROVE  CompleteInv'
<1> DEFINE m == st[s]
           o == m.cacheObject
           r == Destroyed(m)
<1>1. /\ s \in Open /\ fEasy' = [fEasy EXCEPT ![s] = None]
      /\ heap' = r.heap /\ HttpCache' = r.cache /\ cur = None /\ cur' = cur
  BY DEF Delete, Open, callVars
<1>2. /\ m \in Members /\ m.sURL \in Url /\ xfer[s] \in TransferRecord
      /\ o \in Obj /\ Exists(heap[o]) /\ Live(o) /\ heap[o] \in CacheRecord
      /\ heap \in [Obj -> CacheRecord] /\ Tells(m, xfer[s], heap[o])
      /\ IsBlank(heap[o]) /\ \A q \in Obj : IsBlank(heap[q])
  BY <1>1, OpenOne
<1>3. SeqInv'  BY SeqDelete DEF CompleteInv
<1>4. Open' = {}
  BY <1>1 DEF CompleteInv, SeqInv, OneAtATime, TypeInv, TypeOK, Open
<1>5. HttpCache \in [Url -> Obj \cup {None}]
      /\ HttpCache' \in [Url -> Obj \cup {None}]
  BY <1>3 DEF CompleteInv, SeqInv, TypeInv, TypeOK
<1>6. IsBlank(NoObject) /\ ~(NoObject.eState \in {"FULL", "READ"})
  BY DEF IsBlank, NoObject, NewObject
<1>7. Blank' /\ HeldWhole'
  <2>1. CASE StoreWanted(m)
    <3> DEFINE f == ResetState(FinishBytes(heap[o]))
    <3>1. HoldsWhole(f, m.sURL) /\ f.eState = "FULL"
      <4>1. f.eState = "FULL"  BY <1>2, Finishing
      <4> HIDE DEF m, o
      <4>2. HoldsWhole(f, m.sURL)  BY <1>2, <2>1, StoresWhole
      <4> QED  BY <4>1, <4>2 DEF m, o
    <3>2. /\ heap'[o] \in {f, NoObject}
          /\ \A q \in Obj : q # o => heap'[q] \in {heap[q], NoObject}
          /\ \A w \in Url : HttpCache'[w] # None =>
               IF HttpCache'[w] = o THEN w = m.sURL
               ELSE HttpCache'[w] = HttpCache[w]
      BY <2>1, StoringDelete
    <3> HIDE DEF m, o, r, f
    <3>3. Blank'
      BY <1>2, <1>6, <3>1, <3>2 DEF Blank, IsBlank
    <3>4. HeldWhole'
      <4> SUFFICES ASSUME NEW w \in Url, HttpCache'[w] # None
                   PROVE  HoldsWhole(heap'[HttpCache'[w]], w)
        BY DEF HeldWhole
      <4>1. HttpCache'[w] \in Obj  BY <1>5
      <4>2. HoldsWhole(NoObject, w)  BY <1>6 DEF HoldsWhole
      <4>3. CASE HttpCache'[w] = o
        BY <3>1, <3>2, <4>2, <4>3
      <4>4. CASE HttpCache'[w] # o
        <5>1. HoldsWhole(heap[HttpCache'[w]], w)
          BY <3>2, <4>4 DEF CompleteInv, HeldWhole
        <5> QED  BY <3>2, <4>1, <4>2, <4>4, <5>1
      <4> QED  BY <4>3, <4>4
    <3> QED  BY <3>3, <3>4
  <2>2. CASE ~StoreWanted(m) /\ FromCache(m)
    <3> DEFINE f == ResetState(heap[o])
    <3>1. heap[o].eState # "WRITE"
      BY <1>2, <2>2 DEF FromCache, Tells
    <3>2. Kept(heap[o], f)  BY <1>2, <3>1, OtherStates
    <3>3. heap' = [heap EXCEPT ![o] = f] /\ HttpCache' = HttpCache
      BY <1>1, <1>2, <2>2 DEF Destroyed, Update
    <3> HIDE DEF f
    <3>4. \A q \in Obj : Kept(heap[q], heap'[q])
      BY <1>2, <3>2, <3>3, SameIsKept
    <3> QED  BY <3>3, <3>4, CopiesKept
  <2>3. CASE ~StoreWanted(m) /\ ~FromCache(m) /\ DeletesOwn(m)
    <3>1. heap' = [heap EXCEPT ![o] = NoObject] /\ HttpCache' = HttpCache
      BY <1>1, <2>3 DEF Destroyed
    <3>2. \A q \in Obj : Kept(heap[q], heap'[q])
      BY <1>2, <1>6, <3>1, SameIsKept DEF Kept
    <3> QED  BY <3>1, <3>2, CopiesKept
  <2>4. CASE ~StoreWanted(m) /\ ~FromCache(m) /\ ~DeletesOwn(m)
    <3>1. heap' = heap /\ HttpCache' = HttpCache
      BY <1>1, <2>4 DEF Destroyed
    <3>2. \A q \in Obj : Kept(heap[q], heap'[q])
      BY <1>2, <3>1, SameIsKept
    <3> QED  BY <3>1, <3>2, CopiesKept
  <2> QED  BY <2>1, <2>2, <2>3, <2>4
<1>8. StreamsTell' /\ FailuresAnnounced'
  BY <1>4 DEF StreamsTell, FailuresAnnounced
<1>9. CallCounts'  BY <1>1 DEF CallCounts
<1> QED  BY <1>3, <1>7, <1>8, <1>9 DEF CompleteInv, TrueLengths

LEMMA CompleteElsewhere ==
  ASSUME CompleteInv, UNCHANGED vars \/ (\E u \in Url : ServerUpdate(u))
  PROVE  CompleteInv'
<1>1. UNCHANGED <<heap, HttpCache, fEasy, st, xfer, msgs, cur, phase, status>>
  BY DEF vars, ServerUpdate, handlerVars, callVars, clientVars
<1>2. SeqInv'  BY SeqElsewhere DEF CompleteInv
<1>3. Open' = Open  BY <1>1 DEF Open
<1>4. Blank' /\ HeldWhole'
  BY <1>1 DEF CompleteInv, Blank, HeldWhole
<1>5. StreamsTell' /\ FailuresAnnounced' /\ CallCounts'
  BY <1>1, <1>3
     DEF CompleteInv, StreamsTell, FailuresAnnounced, CallCounts
<1> QED  BY <1>2, <1>4, <1>5 DEF CompleteInv, TrueLengths

LEMMA CompleteStep == CompleteInv /\ [Next]_vars => CompleteInv'
<1> SUFFICES ASSUME CompleteInv, [Next]_vars PROVE CompleteInv'  OBVIOUS
<1>1. CASE \E s \in Stream, u \in Url, mode \in Modes : NewStream(s, u, mode)
  BY <1>1, CompleteNewStream
<1>2. CASE \E s \in Stream, n \in 1 .. MaxRead : BeginRead(s, n)
  BY <1>2, CompleteBeginRead
<1>3. CASE \E s \in Stream : Delete(s)
  BY <1>3, CompleteDelete
<1>4. CASE \E t \in Stream : Transfer(t)
  BY <1>4, CompleteHeader, CompletePiece, CompleteEnd DEF Transfer
<1>5. CASE TakeMessage
  BY <1>5, CompleteTakeMessage
<1>6. CASE PerformAgain \/ EndRead \/ EndReadFromCache
  BY <1>6, CompletePerformAgain, CompleteEndRead, CompleteEndReadFromCache
<1>7. CASE UNCHANGED vars \/ \E u \in Url : ServerUpdate(u)
  BY <1>7, CompleteElsewhere
<1> QED
  BY <1>1, <1>2, <1>3, <1>4, <1>5, <1>6, <1>7 DEF Next, ReadStep

LEMMA CompleteInvariant == Sequential /\ TrueLengths => []CompleteInv
<1>1. OneAtATime /\ NoRedirection /\ TrueLengths /\ Init => CompleteInv
  BY SeqInit, CompleteInit
<1> QED  BY <1>1, CompleteStep, PTL DEF Sequential, Spec

\* What getCacheObject may hand out is one whole version of the document: no
\* interleaving of opening, reading, failing and closing makes the destructor
\* store a part of a body, or puts a half-written object where it is found.
THEOREM EntriesWhole == Sequential /\ TrueLengths => []EntriesComplete
<1>1. CompleteInv => EntriesComplete
  <2> SUFFICES ASSUME CompleteInv, NEW u \in Cached(HttpCache),
                      State(heap[HttpCache[u]]) = "FULL"
               PROVE  /\ heap[HttpCache[u]].ended
                      /\ Whole(heap[HttpCache[u]].zBuffer, u)
    BY DEF EntriesComplete
  <2>1. u \in Url /\ HttpCache[u] # None  BY DEF Cached
  <2>2. HoldsWhole(heap[HttpCache[u]], u)
    BY <2>1 DEF CompleteInv, HeldWhole
  <2>3. heap[HttpCache[u]].eState = "FULL"  BY DEF State
  <2> QED  BY <2>2, <2>3 DEF HoldsWhole
<1> QED  BY <1>1, CompleteInvariant, PTL

-----------------------------------------------------------------------------
(***************************************************************************)
(* The validators of the cache: with one stream at a time, no redirects,   *)
(* true lengths, and connections that hold, the ETag of an entry no stream *)
(* works on is that of the version it holds.  Documents may change,        *)
(* servers may answer 404, and streams may be closed at any point.  (The   *)
(* ETag is put into a cached object before any of the new body; a lost     *)
(* connection leaves the two apart, as a run of MCHttpStream shows.)       *)
(***************************************************************************)
Lossless == TrueLengths /\ Validators /\ "drop" \notin Faults

(***************************************************************************)
(* An entry may hold the body of one version and the ETag of another only  *)
(* while the stream that is replacing it is open, and then that stream     *)
(* will not leave it so: it is in readBytes, or has written, or there is   *)
(* nothing to write.                                                       *)
(***************************************************************************)
Matches(o, u) ==
  o.eState \in {"FULL", "READ"} /\ o.pEtag # None =>
    o.zBuffer = Body(u, o.pEtag)

Replaced(p) == \E s \in Open : st[s].cacheObject = p /\ Compresses(st[s])

CopiesMatch ==
  \A u \in Url : HttpCache[u] # None =>
    Matches(heap[HttpCache[u]], u) \/ Replaced(HttpCache[u])

Replaces(m, x, o) == o.pEtag \in Version /\ Written(m, x, o, o.pEtag)

StreamsReplace ==
  \A s \in Open :
    Compresses(st[s]) => Replaces(st[s], xfer[s], heap[st[s].cacheObject])

AtRestWritten(m) ==
  Compresses(m) /\ Received(m) = 0 => m.bTransferFinished

RestingWritten == cur = None => \A s \in Open : AtRestWritten(st[s])

AllWell == \A s \in Open : xfer[s].ok

MatchInv ==
  /\ CompleteInv
  /\ Lossless
  /\ CopiesMatch
  /\ StreamsReplace
  /\ RestingWritten
  /\ AllWell

LEMMA MatchInit == CompleteInv /\ Lossless /\ Init => MatchInv
<1> SUFFICES ASSUME CompleteInv, Lossless, Init PROVE MatchInv  OBVIOUS
<1>1. Open = {} /\ \A u \in Url : HttpCache[u] = None
  BY DEF Init, HandlerInit, Open
<1> QED
  BY <1>1 DEF MatchInv, CopiesMatch, StreamsReplace, RestingWritten, AllWell

\* No entry is being replaced but by the open stream.
LEMMA OnlyReplaced ==
  ASSUME MatchInv, NEW u \in Url, HttpCache[u] # None,
         \A s \in Open : Compresses(st[s]) => st[s].cacheObject # HttpCache[u]
  PROVE  Matches(heap[HttpCache[u]], u)
BY DEF MatchInv, CopiesMatch, Replaced

\* An operation that changes neither copy nor ETag.
SameMatch(a, b) == Kept(a, b) /\ b.pEtag = a.pEtag

LEMMA SameMatches ==
  ASSUME NEW a, NEW b, NEW u, SameMatch(a, b), Matches(a, u)
  PROVE  Matches(b, u)
BY DEF SameMatch, Kept, Matches

\* A step of stream t that neither opens nor closes it.
LEMMA MatchStreamStep ==
  ASSUME MatchInv, CompleteInv', NEW t \in Open,
         UNCHANGED <<HttpCache, fEasy>>,
         \A o \in Obj : o # st[t].cacheObject => heap'[o] = heap[o],
         NEW m, st' = [st EXCEPT ![t] = m],
         m.cacheObject = st[t].cacheObject,
         NEW x, xfer' = [xfer EXCEPT ![t] = x], x.ok,
         NEW o1, heap'[st[t].cacheObject] = o1,
         \/ Compresses(m)
         \/ ~Compresses(st[t]) /\ SameMatch(heap[st[t].cacheObject], o1),
         Compresses(m) => Replaces(m, x, o1),
         cur' = None => AtRestWritten(m)
  PROVE  MatchInv'
<1>1. Open' = Open /\ Open = {t}
  BY DEF Open, MatchInv, CompleteInv, SeqInv, OneAtATime
<1>2. st'[t] = m /\ xfer'[t] = x
  BY DEF MatchInv, CompleteInv, SeqInv, TypeInv, TypeOK, Open
<1>3. CopiesMatch'
  <2> SUFFICES ASSUME NEW u \in Url, HttpCache'[u] # None
               PROVE  \/ Matches(heap'[HttpCache'[u]], u)
                      \/ Replaced(HttpCache[u])'
    BY DEF CopiesMatch
  <2>1. /\ HttpCache'[u] = HttpCache[u] /\ HttpCache[u] \in Obj
        /\ HttpCache[u] # None
    BY DEF MatchInv, CompleteInv, SeqInv, TypeInv, TypeOK
  <2>2. CASE HttpCache[u] # st[t].cacheObject
    <3>1. Matches(heap[HttpCache[u]], u)
      BY <1>1, <2>1, <2>2, OnlyReplaced
    <3> QED  BY <2>1, <2>2, <3>1
  <2>3. CASE HttpCache[u] = st[t].cacheObject /\ Compresses(m)
    <3>1. st'[t].cacheObject = HttpCache'[u] /\ Compresses(st'[t])
      BY <1>2, <2>1, <2>3
    <3>2. \E s \in Open' : /\ st'[s].cacheObject = HttpCache'[u]
                           /\ Compresses(st'[s])
      BY <1>1, <3>1
    <3> QED  BY <3>2 DEF Replaced
  <2>4. CASE HttpCache[u] = st[t].cacheObject /\ ~Compresses(m)
    <3>1. Matches(heap[HttpCache[u]], u)
      BY <1>1, <2>1, <2>4, OnlyReplaced
    <3>2. Matches(o1, u)  BY <2>4, <3>1, SameMatches
    <3> QED  BY <2>1, <2>4, <3>2
  <2> QED  BY <2>2, <2>3, <2>4
<1>4. StreamsReplace'
  <2>1. Compresses(st'[t]) =>
          Replaces(st'[t], xfer'[t], heap'[st'[t].cacheObject])
    BY <1>2
  <2> QED  BY <1>1, <2>1 DEF StreamsReplace
<1>5. RestingWritten'
  <2>1. cur' = None => AtRestWritten(st'[t])  BY <1>2
  <2> QED  BY <1>1, <2>1 DEF RestingWritten
<1>6. AllWell'
  <2>1. xfer'[t].ok  BY <1>2
  <2> QED  BY <1>1, <2>1 DEF AllWell
<1> QED
  BY <1>3, <1>4, <1>5, <1>6 DEF MatchInv, Lossless, TrueLengths

\* What is known of an open stream.
LEMMA MatchOne ==
  ASSUME MatchInv, NEW s \in Open
  PROVE  /\ xfer[s].ok
         /\ Compresses(st[s]) =>
              /\ Replaces(st[s], xfer[s], heap[st[s].cacheObject])
              /\ st[s].bUseCache /\ st[s].bStoreCache
         /\ cur = None => AtRestWritten(st[s])
BY DEF MatchInv, AllWell, StreamsReplace, RestingWritten, Compresses

LEMMA SameIsMatch ==
  ASSUME NEW o, IsBlank(o)
  PROVE  SameMatch(o, o)
BY SameIsKept DEF SameMatch

-----------------------------------------------------------------------------
(***************************************************************************)
(* The steps.                                                              *)
(***************************************************************************)
LEMMA MatchHeader ==
  ASSUME MatchInv, NEW t \in Stream, Header(t)
  PROVE  MatchInv'
<1> DEFINE m == st[t]
           o == m.cacheObject
           x == xfer[t]
<1>1. CompleteInv /\ CompleteInv' /\ Validators /\ TrueLengths
  BY CompleteHeader DEF MatchInv, Lossless
<1>2. /\ Performing(t) /\ x.phase = "sent"
      /\ UNCHANGED <<HttpCache, fEasy, cur>>
  BY DEF Header, callVars
<1>3. /\ t \in Open /\ cur = t /\ m \in Members /\ m.sURL \in Url
      /\ x \in TransferRecord /\ ver[m.sURL] \in Version
      /\ o \in Obj /\ heap \in [Obj -> CacheRecord] /\ Live(o)
      /\ heap[o] \in CacheRecord /\ IsBlank(heap[o])
      /\ Tells(m, x, heap[o])
  BY <1>1, <1>2, WorkedFor
<1>4. cur' # None /\ x.ok /\ ~m.bStoreCache /\ ~Compresses(m)
      /\ heap[o].eState # "WRITE" /\ Untouched(m)
  <2>1. cur # None  BY <1>2 DEF Performing
  <2> QED  BY <1>2, <1>3, <2>1, MatchOne DEF Tells, Untouched, Compresses
<1>5. st = [st EXCEPT ![t] = m] /\ Target[m.sURL] = None
  BY <1>1, <1>2, <1>3, RunningStream DEF CompleteInv, SeqInv, NoRedirection
<1>6. SameMatch(heap[o], heap[o])  BY <1>3, SameIsMatch
<1>7. ASSUME NEW m1, st' = [st EXCEPT ![t] = m1], m1.cacheObject = o,
             ~m1.bStoreCache, heap' = heap,
             NEW x1, xfer' = [xfer EXCEPT ![t] = x1], x1.ok = x.ok
      PROVE  MatchInv'
  <2>1. ~Compresses(m1)  BY <1>7 DEF Compresses
  <2>2. heap'[o] = heap[o] /\ \A p \in Obj : p # o => heap'[p] = heap[p]
    BY <1>7
  <2>3. x1.ok  BY <1>4, <1>7
  <2> QED
    BY <1>1, <1>2, <1>3, <1>4, <1>6, <1>7, <2>1, <2>2, <2>3, MatchStreamStep
<1>8. CASE HeadNotModified(t)
  <2> DEFINE left == <<>>
             sized == TRUE
             x1 == After(Response(x, 304, left, sized))
  <2>1. xfer' = [xfer EXCEPT ![t] = x1] /\ UNCHANGED <<st, heap>>
    BY <1>8 DEF HeadNotModified
  <2>2. left \in Seq(Piece) /\ sized \in BOOLEAN /\ 304 \in Codes
    BY EmptyPieces DEF Codes
  <2> HIDE DEF left, sized
  <2>3. x1.ok = x.ok  BY <1>3, <2>2, ResponseOk
  <2> HIDE DEF x1
  <2> QED  BY <1>4, <1>5, <1>7, <2>1, <2>3
<1>9. ASSUME NEW f \in Framing, HeadRedirect(t, f) PROVE MatchInv'
  BY <1>5, <1>9 DEF HeadRedirect
<1>10. ASSUME NEW f \in Framing, HeadError(t, f) PROVE MatchInv'
  <2> DEFINE sent == IF f = "length" THEN NoiseLen
                     ELSE m.hContent_length_response
             left == Noise(m.sURL)
             sized == f # "chunked"
             x1 == After(Response(x, 404, left, sized))
             m1 == [m EXCEPT !.hContent_length_response = sent]
  <2>1. /\ st' = [st EXCEPT ![t] = m1] /\ heap' = heap
        /\ xfer' = [xfer EXCEPT ![t] = x1]
    BY <1>5, <1>10 DEF HeadError
  <2>2. left \in Seq(Piece) /\ sized \in BOOLEAN /\ 404 \in Codes
    BY <1>3, NoiseType DEF Codes
  <2> HIDE DEF left, sized, sent
  <2>3. x1.ok = x.ok  BY <1>3, <2>2, ResponseOk
  <2>4. m1.cacheObject = o /\ ~m1.bStoreCache
    BY <1>3, <1>4 DEF Members
  <2> HIDE DEF x1, m1
  <2> QED  BY <1>7, <2>1, <2>3, <2>4
<1>11. ASSUME NEW f \in Framing, HeadOK(t, f) PROVE MatchInv'
  <2> DEFINE u    == m.sURL
             v    == ver[u]
             sent == CASE f = "length"  -> BodyLen[u]
                       [] f = "encoded" -> BodyLen[u] - 1
                       [] OTHER         -> m.hContent_length_response
             left == Body(u, v)
             sized == f # "chunked"
             y == Response(x, 200, left, sized)
             x1 == After(y)
             m1 == [m EXCEPT !.bStoreCache = TRUE,
                             !.hContent_length_response = sent]
  <2>1. /\ st' = [st EXCEPT ![t] = m1]
        /\ heap' = IF SetsEtag(m) /\ Live(o)
                   THEN [heap EXCEPT ![o].pEtag = v] ELSE heap
        /\ xfer' = [xfer EXCEPT ![t] = x1]
    BY <1>11 DEF HeadOK
  <2>2. left \in Seq(Piece) /\ sized \in BOOLEAN /\ 200 \in Codes
    BY <1>3, BodyType DEF Codes
  <2> HIDE DEF sent
  <2>3. /\ m1.cacheObject = o /\ m1.sURL = u /\ m1.bUseCache = m.bUseCache
        /\ m1.bStoreCache /\ Received(m1) = Received(m)
    BY <1>3 DEF Members, Received
  <2>4. x1.ok = x.ok /\ x1.left = left
    <3> HIDE DEF left, sized
    <3>1. y \in TransferRecord /\ y.left = left
      <4>1. y \in TransferRecord  BY <1>3, <2>2, ResponseType
      <4>2. y.left = left  BY <1>3 DEF Response, TransferRecord
      <4> QED  BY <4>1, <4>2
    <3>2. x1.ok = x.ok  BY <1>3, <2>2, ResponseOk
    <3> HIDE DEF y
    <3> QED  BY <3>1, <3>2, AfterFields
  <2> HIDE DEF x1, y, sized, m1
  <2>5. CASE m.bUseCache
    <3> DEFINE o1 == [heap[o] EXCEPT !.pEtag = v]
    <3>1. heap' = [heap EXCEPT ![o] = o1]
      BY <1>1, <1>3, <2>1, <2>5 DEF SetsEtag
    <3>2. o1.pEtag = v /\ o1.eState # "WRITE"
      BY <1>3, <1>4 DEF CacheRecord
    <3> HIDE DEF o1
    <3>3. heap'[o] = o1 /\ \A p \in Obj : p # o => heap'[p] = heap[p]
      BY <1>3, <3>1
    <3>4. Written(m1, x1, o1, v)
      BY <1>4, <2>3, <2>4, <3>2 DEF Written, Untouched, left
    <3>5. Replaces(m1, x1, o1)  BY <1>3, <3>2, <3>4 DEF Replaces
    <3>6. Compresses(m1) /\ x1.ok
      BY <1>4, <2>3, <2>4, <2>5 DEF Compresses
    <3> QED
      BY <1>1, <1>2, <1>3, <1>4, <2>1, <2>3, <3>3, <3>5, <3>6, MatchStreamStep
  <2>6. CASE ~m.bUseCache
    <3>1. heap' = heap  BY <2>1, <2>6 DEF SetsEtag
    <3>2. ~Compresses(m1) /\ x1.ok
      BY <1>4, <2>3, <2>4, <2>6 DEF Compresses
    <3>3. heap'[o] = heap[o] /\ \A p \in Obj : p # o => heap'[p] = heap[p]
      BY <3>1
    <3> QED
      BY <1>1, <1>2, <1>3, <1>4, <1>6, <2>1, <2>3, <3>2, <3>3, MatchStreamStep
  <2> QED  BY <2>5, <2>6
<1> QED  BY <1>8, <1>9, <1>10, <1>11 DEF Header

LEMMA MatchPiece ==
  ASSUME MatchInv, NEW t \in Stream, Data(t)
  PROVE  MatchInv'
<1> DEFINE m == st[t]
           o == m.cacheObject
           x == xfer[t]
           p == Head(x.left)
           rest == Tail(x.left)
           y == [x EXCEPT !.left = rest]
           x1 == After(y)
           m1 == IF HasRoom(m)
                 THEN [m EXCEPT !.filled = Append(@, p),
                                !.fBytesToRead = @ - 1,
                                !.fTotalBytesRead = @ + 1]
                 ELSE [m EXCEPT !.fBuffer = Append(@, p)]
           o1 == WriteBytes(heap[o], <<p>>)
<1>1. CompleteInv /\ CompleteInv'  BY CompletePiece DEF MatchInv
<1>2. /\ Performing(t) /\ x.left # <<>> /\ st' = [st EXCEPT ![t] = m1]
      /\ heap' = IF Compresses(m) /\ Live(o)
                 THEN [heap EXCEPT ![o] = WriteBytes(@, <<p>>)] ELSE heap
      /\ xfer' = [xfer EXCEPT ![t] = x1]
      /\ UNCHANGED <<HttpCache, fEasy, cur>>
  BY DEF Data, callVars
<1>3. /\ t \in Open /\ cur # None /\ m \in Members /\ x \in TransferRecord
      /\ o \in Obj /\ heap \in [Obj -> CacheRecord] /\ Live(o)
      /\ heap[o] \in CacheRecord /\ IsBlank(heap[o]) /\ Exists(heap[o])
  BY <1>1, <1>2, WorkedFor DEF Live, Performing
<1>4. x.ok /\ (Compresses(m) => Replaces(m, x, heap[o]))
  BY <1>3, MatchOne
<1>5. p \in Piece /\ rest \in Seq(Piece)
  BY <1>2, <1>3, EmptyPieces, NextPiece DEF TransferRecord
<1>6. x1.ok /\ x1.left = rest
  <2>1. y \in TransferRecord /\ y.ok = x.ok /\ y.left = rest
    BY <1>3, <1>5 DEF TransferRecord
  <2> HIDE DEF y, rest
  <2> QED  BY <1>4, <2>1, AfterFields
<1>7. /\ m1.cacheObject = o /\ m1.sURL = m.sURL
      /\ m1.bUseCache = m.bUseCache /\ m1.bStoreCache = m.bStoreCache
      /\ Received(m1) = Received(m) + 1
  <2>1. /\ m.fBuffer \in Seq(Piece) /\ m.fTotalBytesRead \in Nat
        /\ Len(m.fBuffer) \in Nat
    BY <1>3, ReceivedType DEF Members
  <2>2. Len(Append(m.fBuffer, p)) = Len(m.fBuffer) + 1
    BY <1>5, <2>1, AppendProperties
  <2> DEFINE b == Append(m.fBuffer, p)
             more == m.fTotalBytesRead + 1
  <2> HIDE DEF p
  <2>3. CASE HasRoom(m)
    <3>1. /\ m1.cacheObject = o /\ m1.sURL = m.sURL
          /\ m1.bUseCache = m.bUseCache /\ m1.bStoreCache = m.bStoreCache
          /\ m1.fBuffer = m.fBuffer /\ m1.fTotalBytesRead = more
      BY <1>3, <2>3 DEF Members
    <3> HIDE DEF m1, m
    <3> QED  BY <2>1, <3>1 DEF Received
  <2>4. CASE ~HasRoom(m)
    <3> HIDE DEF b
    <3>1. m1 = [m EXCEPT !.fBuffer = b]  BY <2>4 DEF b
    <3> HIDE DEF m1
    <3>2. /\ m1.cacheObject = o /\ m1.sURL = m.sURL
          /\ m1.bUseCache = m.bUseCache /\ m1.bStoreCache = m.bStoreCache
          /\ m1.fBuffer = b /\ m1.fTotalBytesRead = m.fTotalBytesRead
      BY <1>3, <3>1 DEF Members
    <3>3. Len(m1.fBuffer) = Len(m.fBuffer) + 1  BY <2>2, <3>2 DEF b
    <3>4. m1.fTotalBytesRead = m.fTotalBytesRead  BY <3>2
    <3> HIDE DEF m
    <3>5. Received(m1) = Received(m) + 1
      BY <2>1, <3>3, <3>4 DEF Received
    <3> QED  BY <3>2, <3>5
  <2> QED  BY <2>3, <2>4
<1> HIDE DEF m1, x1
<1>8. CASE Compresses(m)
  <2>1. heap' = [heap EXCEPT ![o] = o1]  BY <1>2, <1>3, <1>8
  <2>2. heap'[o] = o1 /\ \A q \in Obj : q # o => heap'[q] = heap[q]
    BY <1>3, <2>1
  <2>3. o1.pEtag = heap[o].pEtag  BY <1>3, OperationsKeepEtag
  <2>4. Written(m1, x1, o1, heap[o].pEtag)
    <3> DEFINE v == heap[o].pEtag
               a == heap[o]
    <3>1. Written(m, x, a, v) /\ a \in CacheRecord /\ IsBlank(a) /\ Exists(a)
      BY <1>3, <1>4, <1>8 DEF Replaces
    <3>2. x1.left = Tail(x.left)  BY <1>6
    <3> HIDE DEF a, v, m, x
    <3>3. Written(m1, x1, WriteBytes(a, <<Head(x.left)>>), v)
      BY <1>2, <1>3, <1>7, <3>1, <3>2, WrittenData
    <3> QED  BY <3>3 DEF a, v
  <2> HIDE DEF o1
  <2>5. Replaces(m1, x1, o1)  BY <1>4, <1>8, <2>3, <2>4 DEF Replaces
  <2>6. Compresses(m1) /\ cur' # None  BY <1>2, <1>3, <1>7, <1>8 DEF Compresses
  <2> QED
    BY <1>1, <1>2, <1>3, <1>6, <1>7, <2>2, <2>5, <2>6, MatchStreamStep
<1>9. CASE ~Compresses(m)
  <2>1. heap'[o] = heap[o] /\ \A q \in Obj : q # o => heap'[q] = heap[q]
    BY <1>2, <1>9
  <2>2. ~Compresses(m1) /\ cur' # None  BY <1>2, <1>3, <1>7, <1>9 DEF Compresses
  <2>3. SameMatch(heap[o], heap[o])  BY <1>3, SameIsMatch
  <2> QED
    BY <1>1, <1>2, <1>3, <1>6, <1>7, <1>9, <2>1, <2>2, <2>3, MatchStreamStep
<1> QED  BY <1>8, <1>9

\* A step that leaves the object of the stream, and what is to come, alone.
LEMMA MatchQuietStep ==
  ASSUME MatchInv, CompleteInv', NEW t \in Open,
         UNCHANGED <<heap, HttpCache, fEasy>>,
         NEW m, st' = [st EXCEPT ![t] = m],
         m.cacheObject = st[t].cacheObject, m.sURL = st[t].sURL,
         Compresses(m) => Compresses(st[t]) /\ Received(m) = Received(st[t]),
         Compresses(st[t]) => Compresses(m),
         NEW x, xfer' = [xfer EXCEPT ![t] = x],
         x.ok = xfer[t].ok, x.left = xfer[t].left,
         cur' = None => AtRestWritten(m)
  PROVE  MatchInv'
<1> DEFINE o == st[t].cacheObject
<1>1. /\ xfer[t].ok
      /\ Compresses(st[t]) => Replaces(st[t], xfer[t], heap[o])
  BY MatchOne
<1>2. CompleteInv /\ IsBlank(heap[o])
  BY OpenOne DEF MatchInv
<1>3. SameMatch(heap[o], heap[o])  BY <1>2, SameIsMatch
<1>4. Compresses(m) => Replaces(m, x, heap[o])
  BY <1>1 DEF Replaces, Written
<1>5. heap'[o] = heap[o] /\ \A q \in Obj : q # o => heap'[q] = heap[q]
  OBVIOUS
<1>6. x.ok  BY <1>1
<1> QED  BY <1>3, <1>4, <1>5, <1>6, MatchStreamStep

LEMMA MatchEnd ==
  ASSUME MatchInv, NEW t \in Stream, Complete(t) \/ Fail(t)
  PROVE  MatchInv'
<1> DEFINE m == st[t]
           x == [xfer[t] EXCEPT !.phase = "done"]
<1>1. CompleteInv /\ CompleteInv' /\ ~Fail(t)
  BY CompleteEnd DEF MatchInv, Lossless, Fail
<1>2. /\ Performing(t) /\ UNCHANGED <<heap, HttpCache, fEasy, st, cur>>
      /\ xfer' = [xfer EXCEPT ![t] = x]
  BY <1>1 DEF Complete, handlerVars, callVars
<1>3. t \in Open /\ xfer[t] \in TransferRecord /\ cur # None
  BY <1>1, <1>2, WorkedFor DEF Performing
<1>4. x.ok = xfer[t].ok /\ x.left = xfer[t].left
  BY <1>3 DEF TransferRecord
<1>5. st' = [st EXCEPT ![t] = m]
  BY <1>1, <1>2, <1>3, OpenOne
<1> HIDE DEF x
<1> QED  BY <1>1, <1>2, <1>3, <1>4, <1>5, MatchQuietStep

LEMMA MatchBeginRead ==
  ASSUME MatchInv, NEW s \in Stream, NEW n \in 1 .. MaxRead, BeginRead(s, n)
  PROVE  MatchInv'
<1> DEFINE m == st[s]
           k == IF m.bStreamFromCache THEN 0 ELSE Least(n, Len(m.fBuffer))
           rest == n - k
           first == SubSeq(m.fBuffer, 1, k)
           later == SubSeq(m.fBuffer, k + 1, Len(m.fBuffer))
           total == m.fTotalBytesRead + k
           m1 == [m EXCEPT !.maxToRead = n, !.fBytesToRead = rest,
                           !.filled = first, !.fBuffer = later,
                           !.fTotalBytesRead = total]
<1>1. CompleteInv /\ CompleteInv'  BY CompleteBeginRead DEF MatchInv
<1>2. /\ s \in Open /\ cur' = s /\ st' = [st EXCEPT ![s] = m1]
      /\ UNCHANGED <<heap, HttpCache, fEasy, xfer>>
  BY DEF BeginRead, Open, handlerVars
<1>3. /\ m \in Members /\ s # None
      /\ xfer = [xfer EXCEPT ![s] = xfer[s]]
  BY <1>1, <1>2, OpenOne, StreamAssumption
<1>4. /\ n \in Nat /\ m.fTotalBytesRead \in Nat
      /\ Len(m.fBuffer) \in Nat /\ m.fBuffer \in Seq(Piece)
  BY <1>3, ReceivedType DEF Members
<1>5. k \in 0 .. Len(m.fBuffer)  BY <1>4 DEF Least
<1> HIDE DEF k
<1>6. Len(later) = Len(m.fBuffer) - k  BY <1>4, <1>5, SubSeqProperties
<1> HIDE DEF rest, first, later, total
<1>7. /\ m1.cacheObject = m.cacheObject /\ m1.sURL = m.sURL
      /\ m1.bUseCache = m.bUseCache /\ m1.bStoreCache = m.bStoreCache
      /\ m1.fBuffer = later /\ m1.fTotalBytesRead = total
  BY <1>3 DEF Members
<1> HIDE DEF m1
<1>8. Received(m1) = Received(m)
  BY <1>4, <1>5, <1>6, <1>7 DEF Received, total
<1>9. Compresses(m1) = Compresses(m)  BY <1>7 DEF Compresses
<1>10. xfer' = [xfer EXCEPT ![s] = xfer[s]]  BY <1>2, <1>3
<1> QED
  BY <1>1, <1>2, <1>3, <1>7, <1>8, <1>9, <1>10, MatchQuietStep

LEMMA MatchTakeMessage ==
  ASSUME MatchInv, TakeMessage
  PROVE  MatchInv'
<1>1. PICK t \in Stream : \/ TakeFinished(t) \/ TakeUnmodified(t)
                          \/ TakeRedirect(t) \/ TakeError(t)
  BY DEF TakeMessage
<1> DEFINE m == st[cur]
           x == xfer[cur]
<1>2. CompleteInv /\ CompleteInv'  BY CompleteTakeMessage DEF MatchInv
<1>3. cur # None
  BY <1>1 DEF TakeFinished, TakeUnmodified, TakeRedirect, TakeError, Message
<1>4. cur \in Open /\ t = cur
  BY <1>2, <1>3
     DEF CompleteInv, SeqInv, OneAtATime, TypeInv, CurrentExists, Open
<1>5. /\ m \in Members /\ x.ok
      /\ m.bStoreCache => x.code = 200
      /\ st = [st EXCEPT ![cur] = m] /\ xfer = [xfer EXCEPT ![cur] = x]
  BY <1>2, <1>4, OpenOne, MatchOne DEF Tells
<1>6. ~TakeRedirect(t)
  BY <1>4 DEF TakeRedirect, Redirected, MatchInv, CompleteInv, SeqInv,
              OnlyBorrowersRevalidate
<1>7. UNCHANGED <<heap, HttpCache, fEasy, xfer>>
  BY <1>1, <1>6 DEF TakeFinished, TakeUnmodified, TakeError, handlerVars
<1>8. xfer' = [xfer EXCEPT ![cur] = x]  BY <1>5, <1>7
<1>9. CASE TakeFinished(t)
  <2>1. st' = [st EXCEPT ![cur] = m] /\ cur' # None
    BY <1>3, <1>5, <1>9 DEF TakeFinished
  <2> QED  BY <1>2, <1>4, <1>7, <1>8, <2>1, MatchQuietStep
<1>10. CASE TakeUnmodified(t)
  <2> DEFINE m1 == [m EXCEPT !.bStreamFromCache = TRUE]
  <2>1. st' = [st EXCEPT ![cur] = m1] /\ cur' # None /\ x.code = 304
    BY <1>3, <1>10 DEF TakeUnmodified, Unmodified
  <2>2. /\ m1.cacheObject = m.cacheObject /\ m1.sURL = m.sURL
        /\ m1.bStoreCache = m.bStoreCache
    BY <1>5 DEF Members
  <2> HIDE DEF m1
  <2>3. ~Compresses(m) /\ ~Compresses(m1)
    BY <1>5, <2>1, <2>2 DEF Compresses
  <2>4. /\ m1.cacheObject = st[cur].cacheObject /\ m1.sURL = st[cur].sURL
        /\ x.ok = xfer[cur].ok /\ x.left = xfer[cur].left
        /\ ~Compresses(st[cur]) /\ cur' # None
    BY <2>1, <2>2, <2>3
  <2>5. st' = [st EXCEPT ![cur] = m1]  BY <2>1
  <2> HIDE DEF m, x
  <2> QED
    BY <1>2, <1>4, <1>7, <1>8, <2>3, <2>4, <2>5, MatchQuietStep
<1>11. CASE TakeError(t)
  <2>1. st' = [st EXCEPT ![cur] = m] /\ x.code # 200
    BY <1>4, <1>5, <1>11 DEF TakeError, Refused
  <2>2. ~Compresses(m) /\ AtRestWritten(m)
    BY <1>5, <2>1 DEF Compresses, AtRestWritten
  <2> QED  BY <1>2, <1>4, <1>7, <1>8, <2>1, <2>2, MatchQuietStep
<1> QED  BY <1>1, <1>6, <1>9, <1>10, <1>11

LEMMA MatchPerformAgain ==
  ASSUME MatchInv, PerformAgain
  PROVE  MatchInv'
<1> DEFINE m == st[cur]
           x == xfer[cur]
           x1 == IF x.phase = "sent" THEN [x EXCEPT !.code = 0] ELSE x
<1>1. CompleteInv /\ CompleteInv'  BY CompletePerformAgain DEF MatchInv
<1>2. cur # None /\ cur \in Open
  BY <1>1 DEF PerformAgain, CompleteInv, SeqInv, TypeInv, CurrentExists
<1>3. /\ x \in TransferRecord
      /\ st = [st EXCEPT ![cur] = m] /\ xfer = [xfer EXCEPT ![cur] = x]
  BY <1>1, <1>2, OpenOne
<1>4. /\ UNCHANGED <<heap, HttpCache, fEasy, st, cur>>
      /\ xfer' = [xfer EXCEPT ![cur] = x1]
  BY <1>3 DEF PerformAgain, handlerVars
<1>5. x1.ok = x.ok /\ x1.left = x.left  BY <1>3 DEF TransferRecord
<1>6. st' = [st EXCEPT ![cur] = m]  BY <1>3, <1>4
<1> HIDE DEF x1
<1> QED  BY <1>1, <1>2, <1>4, <1>5, <1>6, MatchQuietStep

LEMMA MatchEndRead ==
  ASSUME MatchInv, EndRead
  PROVE  MatchInv'
<1> DEFINE m == st[cur]
           x == xfer[cur]
           o == m.cacheObject
           rest == AtRest(m)
           fin == TransferFinished(m, m.fTotalBytesRead)
           m1 == [rest EXCEPT !.bTransferFinished = fin]
<1>1. CompleteInv /\ CompleteInv'  BY CompleteEndRead DEF MatchInv
<1>2. /\ cur # None /\ ReadsEnd /\ Return(cur, m.filled, m)
      /\ UNCHANGED <<heap, HttpCache, fEasy, xfer>>
  BY DEF EndRead, handlerVars
<1>3. cur \in Open
  BY <1>1, <1>2 DEF CompleteInv, SeqInv, TypeInv, CurrentExists
<1>4. /\ m \in Members /\ m.sURL \in Url /\ x \in TransferRecord
      /\ heap[o] \in CacheRecord /\ Tells(m, x, heap[o])
      /\ xfer = [xfer EXCEPT ![cur] = x]
  BY <1>1, <1>3, OpenOne
<1>5. st' = [st EXCEPT ![cur] = m1]
  BY <1>2 DEF Return
<1>6. /\ rest.sURL = m.sURL /\ rest.bUseCache = m.bUseCache
      /\ rest.bStoreCache = m.bStoreCache /\ rest.cacheObject = o
      /\ rest.fTotalBytesRead = m.fTotalBytesRead /\ rest.fBuffer = m.fBuffer
      /\ rest \in Members
  BY <1>4, EmptyPieces DEF AtRest, Members
<1> HIDE DEF rest, fin
<1>7. /\ m1.cacheObject = o /\ m1.sURL = m.sURL
      /\ m1.bUseCache = m.bUseCache /\ m1.bStoreCache = m.bStoreCache
      /\ m1.fTotalBytesRead = m.fTotalBytesRead /\ m1.fBuffer = m.fBuffer
      /\ m1.bTransferFinished = fin
  BY <1>6 DEF Members
<1> HIDE DEF m1
<1>8. Compresses(m1) = Compresses(m) /\ Received(m1) = Received(m)
  BY <1>7 DEF Compresses, Received
<1>9. ASSUME Compresses(m), Received(m) = 0 PROVE fin
  <2>1. /\ m.bUseCache /\ m.bStoreCache /\ ~m.bStreamFromCache
        /\ m.hContent_length_response \in {0, BodyLen[m.sURL]}
    BY <1>4, <1>9 DEF Compresses, Tells, Storing
  <2>2. m.fTotalBytesRead = 0
    BY <1>4, <1>9, ReceivedType DEF Received
  <2>3. Counts(m, phase)
    BY <1>1, <1>2 DEF CompleteInv, CallCounts
  <2>4. \/ phase = "return" \/ m.fBytesToRead = 0 \/ m.filled # <<>>
        \/ x.phase \notin {"sent", "body"} /\ x.ok
    BY <1>1, <1>2, <2>1, NothingToWaitFor
  <2>5. BodyLen[m.sURL] = 0
    <3> HIDE DEF m, x, o
    <3> QED  BY <1>4, <2>1, <2>2, <2>3, <2>4, ReturnsNothing
  <2> QED  BY <2>1, <2>2, <2>5 DEF fin, TransferFinished
<1>10. AtRestWritten(m1)  BY <1>7, <1>8, <1>9 DEF AtRestWritten
<1>11. /\ xfer' = [xfer EXCEPT ![cur] = x] /\ UNCHANGED <<heap, HttpCache, fEasy>>
       /\ m1.cacheObject = st[cur].cacheObject /\ m1.sURL = st[cur].sURL
       /\ Compresses(m1) = Compresses(st[cur])
       /\ Received(m1) = Received(st[cur])
       /\ x.ok = xfer[cur].ok /\ x.left = xfer[cur].left
  BY <1>2, <1>4, <1>7, <1>8
<1> HIDE DEF m, x
<1> QED  BY <1>1, <1>3, <1>5, <1>10, <1>11, MatchQuietStep

LEMMA ReadingKeepsEtag ==
  ASSUME NEW o \in CacheRecord, NEW n \in Nat, NEW r \in ReadOutcomes(o, n)
  PROVE  r.obj.pEtag = o.pEtag
<1>1. CASE o.eState = "EMPTY"
  BY <1>1 DEF ReadOutcomes
<1>2. CASE o.eState # "EMPTY"
  <2> DEFINE q == ReadOpened(o)
             rest == Len(q.zBuffer) - q.pos
             most == Least(n, rest)
             counts == IF q.ended THEN {most} ELSE 0 .. most
  <2>1. q.pEtag = o.pEtag
    <3>1. ResetState(o) \in CacheRecord /\ ResetState(o).pEtag = o.pEtag
      BY ObjectOps, OperationsKeepEtag
    <3> QED  BY <3>1 DEF ReadOpened, CacheRecord
  <2>2. q \in CacheRecord  BY ObjectOps
  <2> HIDE DEF q
  <2>3. PICK k \in counts :
          r = [data |-> SubSeq(q.zBuffer, q.pos + 1, q.pos + k),
               obj  |-> [q EXCEPT !.pos = q.pos + k]]
    BY <1>2 DEF ReadOutcomes, q
  <2>4. r.obj.pEtag = q.pEtag  BY <2>2, <2>3 DEF CacheRecord
  <2> QED  BY <2>1, <2>4
<1> QED  BY <1>1, <1>2

LEMMA MatchEndReadFromCache ==
  ASSUME MatchInv, EndReadFromCache
  PROVE  MatchInv'
<1> DEFINE m == st[cur]
           x == xfer[cur]
           o == m.cacheObject
<1>1. CompleteInv /\ CompleteInv'  BY CompleteEndReadFromCache DEF MatchInv
<1>2. /\ cur # None /\ FromCache(m)
      /\ UNCHANGED <<HttpCache, fEasy, xfer>>
  BY DEF EndReadFromCache
<1>3. cur \in Open
  BY <1>1, <1>2 DEF CompleteInv, SeqInv, TypeInv, CurrentExists
<1>4. /\ m \in Members /\ o \in Obj /\ Live(o)
      /\ Exists(heap[o]) /\ heap[o] \in CacheRecord
      /\ heap \in [Obj -> CacheRecord] /\ Tells(m, x, heap[o])
      /\ xfer = [xfer EXCEPT ![cur] = x] /\ IsBlank(heap[o])
      /\ x.ok
  BY <1>1, <1>3, OpenOne, MatchOne
<1>5. PICK r \in CacheReads(o, m.fBytesToRead) :
        /\ heap' = Update(o, r.obj)
        /\ Return(cur, r.data, [m EXCEPT !.fTotalBytesRead = @ + Len(r.data)])
  BY <1>4 DEF EndReadFromCache
<1>6. ~m.bStoreCache /\ heap[o].eState # "WRITE"
  BY <1>2, <1>4 DEF FromCache, Tells
<1>7. SameMatch(heap[o], r.obj)
  <2> DEFINE n == m.fBytesToRead
             a == heap[o]
  <2>1. n \in Nat /\ a \in CacheRecord /\ IsBlank(a) /\ Exists(a)
        /\ a.eState # "WRITE"
    BY <1>4, <1>6 DEF Members
  <2>2. PICK q \in ReadOutcomes(a, n) :
          r = [data |-> q.data,
               obj |-> IF q.data = <<>> THEN ResetState(q.obj) ELSE q.obj]
    BY <1>5 DEF CacheReads
  <2> HIDE DEF a, n
  <2>3. /\ Kept(a, q.obj) /\ q.obj.eState # "WRITE" /\ q.obj \in CacheRecord
        /\ q.obj.pEtag = a.pEtag
    BY <2>1, ReadingKeeps, ReadOutcomesType, ReadingKeepsEtag
  <2>4. Kept(q.obj, ResetState(q.obj)) /\ ResetState(q.obj).pEtag = a.pEtag
    BY <2>3, OtherStates, OperationsKeepEtag DEF Kept
  <2>5. r.obj = q.obj \/ r.obj = ResetState(q.obj)  BY <2>2
  <2>6. SameMatch(a, r.obj)
    BY <2>3, <2>4, <2>5 DEF Kept, SameMatch
  <2> QED  BY <2>6 DEF a
<1>8. heap' = [heap EXCEPT ![o] = r.obj]
  BY <1>4, <1>5 DEF Update
<1>9. heap'[o] = r.obj /\ \A q \in Obj : q # o => heap'[q] = heap[q]
  BY <1>4, <1>8
<1> DEFINE total == m.fTotalBytesRead + Len(r.data)
           m0 == [m EXCEPT !.fTotalBytesRead = total]
           fin == TransferFinished(m0, m0.fTotalBytesRead)
           m1 == [AtRest(m0) EXCEPT !.bTransferFinished = fin]
<1>10. st' = [st EXCEPT ![cur] = m1]
  BY <1>5 DEF Return
<1> HIDE DEF total, fin
<1>11. m1.cacheObject = o /\ m1.bStoreCache = m.bStoreCache
  BY <1>4 DEF AtRest, Members
<1> HIDE DEF m1
<1>12. ~Compresses(m1) /\ ~Compresses(m) /\ AtRestWritten(m1)
  BY <1>6, <1>11 DEF Compresses, AtRestWritten
<1>13. xfer' = [xfer EXCEPT ![cur] = x]  BY <1>2, <1>4
<1>14. /\ m1.cacheObject = st[cur].cacheObject /\ ~Compresses(st[cur])
       /\ SameMatch(heap[st[cur].cacheObject], r.obj)
       /\ heap'[st[cur].cacheObject] = r.obj
       /\ \A q \in Obj : q # st[cur].cacheObject => heap'[q] = heap[q]
  BY <1>7, <1>9, <1>11, <1>12
<1> HIDE DEF m, x, o
<1> QED
  BY <1>1, <1>2, <1>3, <1>4, <1>10, <1>12, <1>13, <1>14, MatchStreamStep

(***************************************************************************)
(* Opening: every copy matches then, and the new stream stores nothing.    *)
(***************************************************************************)
LEMMA MatchNewStream ==
  ASSUME MatchInv, NEW s \in Stream, NEW u \in Url, NEW mode \in Modes,
         NewStream(s, u, mode)
  PROVE  MatchInv'
<1> DEFINE pCache == Lookup(mode # "nocache", u)
           m0 == [NoMembers EXCEPT !.sURL = u, !.bUseCache = TRUE]
<1>1. CompleteInv /\ CompleteInv'  BY CompleteNewStream DEF MatchInv
<1>2. PICK h \in Handle, new \in NewAddresses(pCache = None) :
        LET m == SetupConnection(m0, pCache, new)
        IN
        /\ fEasy' = [fEasy EXCEPT ![s] = h]
        /\ heap' = HeapWith(new)
        /\ st' = [st EXCEPT ![s] = [m EXCEPT !.bUseCache = (mode = "cache")]]
        /\ xfer' = [xfer EXCEPT ![s] = Request(RequestHeaders(m, pCache), 0)]
  BY ZenonT(60) DEF NewStream
<1> DEFINE m  == SetupConnection(m0, pCache, new)
           m1 == [m EXCEPT !.bUseCache = (mode = "cache")]
           x1 == Request(RequestHeaders(m, pCache), 0)
<1>3. fEasy[s] = None /\ UNCHANGED HttpCache
  BY DEF NewStream
<1>4. Open = {} /\ Open' = {s} /\ st'[s] = m1 /\ xfer'[s] = x1
  <2>1. Stream = {s}  BY <1>1 DEF CompleteInv, SeqInv, OneAtATime
  <2>2. h # None  BY HandleAssumption
  <2> QED
    BY <1>1, <1>2, <1>3, <2>1, <2>2
       DEF Open, CompleteInv, SeqInv, TypeInv, TypeOK
<1>5. /\ heap \in [Obj -> CacheRecord]
      /\ HttpCache \in [Url -> Obj \cup {None}]
  BY <1>1 DEF CompleteInv, SeqInv, TypeInv, TypeOK
<1>6. new # None => \A w \in Url : HttpCache[w] # new
  BY <1>2 DEF NewAddresses, Unused
<1>7. /\ ~m1.bStoreCache
      /\ x1.ok
  <2>1. ~m1.bStoreCache  BY DEF SetupConnection, NoMembers
  <2>2. x1.ok  BY DEF Request, NoTransfer
  <2> QED  BY <2>1, <2>2
<1> HIDE DEF m1, x1
<1>8. ~Compresses(m1)  BY <1>7 DEF Compresses
<1>9. CopiesMatch'
  <2> SUFFICES ASSUME NEW w \in Url, HttpCache'[w] # None
               PROVE  Matches(heap'[HttpCache'[w]], w)
    BY DEF CopiesMatch
  <2>1. Matches(heap[HttpCache[w]], w)
    BY <1>3, <1>4, OnlyReplaced
  <2>2. heap' = HeapWith(new)  BY <1>2
  <2>3. heap'[HttpCache[w]] = heap[HttpCache[w]]
    BY <1>3, <1>5, <1>6, <2>2 DEF HeapWith
  <2> QED  BY <1>3, <2>1, <2>3
<1>10. StreamsReplace'
  <2>1. ~Compresses(st'[s])  BY <1>4, <1>8
  <2> QED  BY <1>4, <2>1 DEF StreamsReplace
<1>11. RestingWritten'
  <2>1. AtRestWritten(st'[s])  BY <1>4, <1>8 DEF AtRestWritten
  <2> QED  BY <1>4, <2>1 DEF RestingWritten
<1>12. AllWell'
  <2>1. xfer'[s].ok  BY <1>4, <1>7
  <2> QED  BY <1>4, <2>1 DEF AllWell
<1> QED
  BY <1>1, <1>9, <1>10, <1>11, <1>12 DEF MatchInv, Lossless, TrueLengths

(***************************************************************************)
(* Closing: the copy is finished, or the old one was not touched, or it is *)
(* one that was begun and shows as such, or it is gone.                    *)
(***************************************************************************)
LEMMA MatchDelete ==
  ASSUME MatchInv, NEW s \in Stream, Delete(s)
  PROVE  MatchInv'
<1> DEFINE m == st[s]
           o == m.cacheObject
           x == xfer[s]
           r == Destroyed(m)
<1>1. CompleteInv /\ CompleteInv'  BY CompleteDelete DEF MatchInv
<1>2. /\ s \in Open /\ fEasy' = [fEasy EXCEPT ![s] = None]
      /\ heap' = r.heap /\ HttpCache' = r.cache /\ cur = None
  BY DEF Delete, Open
<1>3. Open = {s} /\ Open' = {}
  BY <1>1, <1>2 DEF CompleteInv, SeqInv, OneAtATime, TypeInv, TypeOK, Open
<1>4. /\ m \in Members /\ m.sURL \in Url /\ x \in TransferRecord
      /\ o \in Obj /\ Exists(heap[o]) /\ Live(o) /\ heap[o] \in CacheRecord
      /\ heap \in [Obj -> CacheRecord] /\ Tells(m, x, heap[o])
      /\ IsBlank(heap[o])
      /\ HttpCache \in [Url -> Obj \cup {None}]
      /\ HttpCache' \in [Url -> Obj \cup {None}]
  BY <1>1, <1>2, OpenOne DEF CompleteInv, SeqInv, TypeInv, TypeOK
<1>5. /\ Compresses(m) => Replaces(m, x, heap[o])
      /\ AtRestWritten(m)
  BY <1>2, MatchOne
<1>6. \A w \in Url : HttpCache[w] # None /\ (HttpCache[w] = o => ~Compresses(m))
        => Matches(heap[HttpCache[w]], w)
  <2> SUFFICES ASSUME NEW w \in Url, HttpCache[w] # None,
                      HttpCache[w] = o => ~Compresses(m)
               PROVE  Matches(heap[HttpCache[w]], w)
    OBVIOUS
  <2>1. \A t \in Open : Compresses(st[t]) => st[t].cacheObject # HttpCache[w]
    BY <1>3
  <2> QED  BY <2>1, OnlyReplaced
<1>7. \A w : Matches(NoObject, w)
  BY NoEtagInNew DEF Matches
<1>8. \A w \in Url : HttpCache'[w] # None => Matches(heap'[HttpCache'[w]], w)
  <2>1. CASE StoreWanted(m)
    <3> DEFINE f == ResetState(FinishBytes(heap[o]))
               v == heap[o].pEtag
    <3>1. v \in Version /\ Written(m, x, heap[o], v)
      BY <1>5, <2>1 DEF StoreWanted, Compresses, Replaces
    <3>2. f.zBuffer = Body(m.sURL, v)
      <4> HIDE DEF m, o, x
      <4> QED  BY <1>4, <2>1, <3>1, FinishedCopy
    <3>3. f.pEtag = v
      BY <1>4, ObjectOps, OperationsKeepEtag
    <3>4. /\ heap'[o] \in {f, NoObject}
          /\ \A q \in Obj : q # o => heap'[q] \in {heap[q], NoObject}
          /\ \A w \in Url : HttpCache'[w] # None =>
               IF HttpCache'[w] = o THEN w = m.sURL
               ELSE HttpCache'[w] = HttpCache[w]
      BY <1>1, <2>1, StoringDelete
    <3>5. Matches(f, m.sURL)
      <4> HIDE DEF f, v
      <4> QED  BY <3>2, <3>3 DEF Matches
    <3> HIDE DEF m, o, r, f, v
    <3> TAKE w \in Url
    <3> HAVE HttpCache'[w] # None
    <3>6. HttpCache'[w] \in Obj  BY <1>4
    <3>7. CASE HttpCache'[w] = o
      BY <1>7, <3>4, <3>5, <3>7
    <3>8. CASE HttpCache'[w] # o
      <4>1. Matches(heap[HttpCache'[w]], w)
        BY <1>6, <3>4, <3>8
      <4> QED  BY <1>7, <3>4, <3>6, <3>8, <4>1
    <3> QED  BY <3>7, <3>8
  <2>2. CASE ~StoreWanted(m) /\ FromCache(m)
    <3> DEFINE f == ResetState(heap[o])
    <3>1. ~Compresses(m) /\ heap[o].eState # "WRITE"
      BY <1>4, <2>2 DEF FromCache, Tells, Compresses
    <3>2. SameMatch(heap[o], f)
      BY <1>4, <3>1, OtherStates, OperationsKeepEtag DEF SameMatch
    <3>3. heap' = [heap EXCEPT ![o] = f] /\ HttpCache' = HttpCache
      BY <1>2, <1>4, <2>2 DEF Destroyed, Update
    <3> HIDE DEF f, m, o, r
    <3> TAKE w \in Url
    <3> HAVE HttpCache'[w] # None
    <3>4. Matches(heap[HttpCache[w]], w) /\ HttpCache[w] \in Obj
      BY <1>4, <1>6, <3>1, <3>3
    <3>5. CASE HttpCache[w] = o
      <4>1. Matches(f, w)  BY <3>2, <3>4, <3>5, SameMatches
      <4> QED  BY <1>4, <3>3, <3>5, <4>1
    <3>6. CASE HttpCache[w] # o
      BY <1>4, <3>3, <3>4, <3>6
    <3> QED  BY <3>5, <3>6
  <2>3. CASE ~StoreWanted(m) /\ ~FromCache(m) /\ DeletesOwn(m)
    <3>1. heap' = [heap EXCEPT ![o] = NoObject] /\ HttpCache' = HttpCache
      BY <1>2, <2>3 DEF Destroyed
    <3> HIDE DEF m, o, r
    <3> TAKE w \in Url
    <3> HAVE HttpCache'[w] # None
    <3>2. HttpCache[w] \in Obj  BY <1>4, <3>1
    <3> QED  BY <1>4, <1>6, <1>7, <3>1, <3>2
  <2>4. CASE ~StoreWanted(m) /\ ~FromCache(m) /\ ~DeletesOwn(m)
    <3>1. heap' = heap /\ HttpCache' = HttpCache
      BY <1>2, <2>4 DEF Destroyed
    <3>2. Compresses(m) => heap[o].eState = "WRITE"
      <4>1. ASSUME Compresses(m), heap[o].eState # "WRITE" PROVE FALSE
        <5>1. Received(m) = 0
          BY <1>5, <4>1 DEF Replaces, Written
        <5>2. m.bTransferFinished
          BY <1>5, <4>1, <5>1 DEF AtRestWritten
        <5> QED  BY <2>4, <4>1, <5>2 DEF StoreWanted, Compresses
      <4> QED  BY <4>1
    <3>3. Compresses(m) => \A w \in Url : Matches(heap[o], w)
      BY <3>2 DEF Matches
    <3> HIDE DEF m, o, r
    <3> QED  BY <1>6, <3>1, <3>3
  <2> QED  BY <2>1, <2>2, <2>3, <2>4
<1>9. CopiesMatch'  BY <1>8 DEF CopiesMatch
<1>10. StreamsReplace' /\ RestingWritten' /\ AllWell'
  BY <1>3 DEF StreamsReplace, RestingWritten, AllWell
<1> QED  BY <1>1, <1>9, <1>10 DEF MatchInv, Lossless, TrueLengths

LEMMA MatchElsewhere ==
  ASSUME MatchInv, UNCHANGED vars \/ (\E u \in Url : ServerUpdate(u))
  PROVE  MatchInv'
<1>1. UNCHANGED <<heap, HttpCache, fEasy, st, xfer, cur>>
  BY DEF vars, ServerUpdate, handlerVars, callVars
<1>2. CompleteInv'  BY CompleteElsewhere DEF MatchInv
<1>3. Open' = Open  BY <1>1 DEF Open
<1>4. CopiesMatch' /\ StreamsReplace' /\ RestingWritten' /\ AllWell'
  BY <1>1, <1>3
     DEF MatchInv, CopiesMatch, Replaced, StreamsReplace, RestingWritten, AllWell
<1> QED  BY <1>2, <1>4 DEF MatchInv, Lossless, TrueLengths

LEMMA MatchStep == MatchInv /\ [Next]_vars => MatchInv'
<1> SUFFICES ASSUME MatchInv, [Next]_vars PROVE MatchInv'  OBVIOUS
<1>1. CASE \E s \in Stream, u \in Url, mode \in Modes : NewStream(s, u, mode)
  BY <1>1, MatchNewStream
<1>2. CASE \E s \in Stream, n \in 1 .. MaxRead : BeginRead(s, n)
  BY <1>2, MatchBeginRead
<1>3. CASE \E s \in Stream : Delete(s)
  BY <1>3, MatchDelete
<1>4. CASE \E t \in Stream : Transfer(t)
  BY <1>4, MatchHeader, MatchPiece, MatchEnd DEF Transfer
<1>5. CASE TakeMessage
  BY <1>5, MatchTakeMessage
<1>6. CASE PerformAgain \/ EndRead \/ EndReadFromCache
  BY <1>6, MatchPerformAgain, MatchEndRead, MatchEndReadFromCache
<1>7. CASE UNCHANGED vars \/ \E u \in Url : ServerUpdate(u)
  BY <1>7, MatchElsewhere
<1> QED
  BY <1>1, <1>2, <1>3, <1>4, <1>5, <1>6, <1>7 DEF Next, ReadStep

LEMMA MatchInvariant == Sequential /\ Lossless => []MatchInv
<1>1. OneAtATime /\ NoRedirection /\ Lossless /\ Init => MatchInv
  BY SeqInit, CompleteInit, MatchInit DEF Lossless
<1> QED  BY <1>1, MatchStep, PTL DEF Sequential, Spec

\* The validators revalidation relies on: setEtag is called when the head of
\* a response arrives, the body is compressed piece by piece after it, and
\* yet the ETag of an entry no stream works on is never that of a version
\* other than the one the entry holds, as long as connections hold.
THEOREM EtagsMatch == Sequential /\ Lossless => []EtagMatchesBody
<1>1. MatchInv => EtagMatchesBody
  <2> SUFFICES ASSUME MatchInv, NEW u \in Cached(HttpCache),
                      ~Borrowed(HttpCache[u]),
                      State(heap[HttpCache[u]]) = "FULL",
                      heap[HttpCache[u]].pEtag # None
               PROVE  heap[HttpCache[u]].zBuffer
                        = Body(u, heap[HttpCache[u]].pEtag)
    BY DEF EtagMatchesBody
  <2>1. u \in Url /\ HttpCache[u] # None  BY DEF Cached
  <2>2. Matches(heap[HttpCache[u]], u)
    BY <2>1, OnlyReplaced DEF Borrowed
  <2>3. heap[HttpCache[u]].eState = "FULL"  BY DEF State
  <2> QED  BY <2>2, <2>3 DEF Matches
<1> QED  BY <1>1, MatchInvariant, PTL
=============================================================================
