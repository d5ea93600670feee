--------------------------- MODULE InterleavedProofs ---------------------------
(***************************************************************************)
(* Any number of streams, open at once and read in turns, on servers that  *)
(* answer every request with the document: curl runs the callbacks of all  *)
(* of them inside the readBytes of one.  Each reader still gets its own    *)
(* document, whole and in order, and curl writes into no buffer of a call  *)
(* that has ended.                                                         *)
(*                                                                         *)
(* What is assumed of the servers (no redirects, no failures) and of the   *)
(* requests (none is conditional) is what the counterexamples LateNoCache, *)
(* StolenMessage and AbandonedRead need.                                   *)
(***************************************************************************)
EXTENDS HttpStreamProofs

ReliableServers == Faults = {} /\ \A u \in Url : Target[u] = None

\* No object has a validator, or none is looked up.
Unconditional == ~Validators \/ Modes = {"nocache"}

(***************************************************************************)
(* Where the pieces of a document are: with the reader ("text"), in the    *)
(* caller's buffer, in the holding buffer, and still to come.              *)
(***************************************************************************)
AllPieces(m, x, text) == text \o (m.filled \o (m.fBuffer \o x.left))

Flow(m, x, told, text, first, last) ==
  /\ told \in {"open", "eof"}
  /\ first <= last
  /\ ~m.bStreamFromCache
  /\ x.cond = None /\ x.code \in {0, 200} /\ x.ok
  /\ x.phase \in {"sent", "body", "done"}
  /\ x.phase = "sent" => text = <<>> /\ m.filled = <<>> /\ m.fBuffer = <<>>
  /\ x.phase # "sent" =>
       \E v \in first .. last : AllPieces(m, x, text) = Body(m.sURL, v)
  /\ x.phase = "done" => x.left = <<>>
  /\ told = "eof" => x.phase = "done" /\ m.filled = <<>> /\ m.fBuffer = <<>>

Flows ==
  \A s \in Open : Flow(st[s], xfer[s], status[s], out[s],
                       since[s][st[s].sURL], ver[st[s].sURL])

ClosedAtRest ==
  \A s \in Stream \ Open :
    status[s] = "closed" /\ out[s] = <<>> /\ xfer[s] = NoTransfer

(***************************************************************************)
(* Only the stream inside readBytes wants bytes; while it wants more, it   *)
(* has taken all that was held for it.                                     *)
(***************************************************************************)
OnlyCurrentWants ==
  \A s \in Open : s # cur => st[s].fBytesToRead = 0 /\ st[s].filled = <<>>

CurrentWants ==
  cur # None =>
    /\ status[cur] = "open"
    /\ IF st[cur].fBytesToRead = 0 THEN st[cur].filled # <<>>
       ELSE st[cur].fBuffer = <<>> /\ phase # "return"

NoValidatorStored == ~Validators => \A o \in Obj : heap[o].pEtag = None

FlowInv ==
  /\ ReliableServers /\ Unconditional
  /\ TypeInv
  /\ Flows /\ ClosedAtRest
  /\ OnlyCurrentWants /\ CurrentWants
  /\ NoValidatorStored
  /\ NoStaleWrite

-----------------------------------------------------------------------------
(***************************************************************************)
(* Moving pieces from one place to the next changes nothing of the whole.  *)
(***************************************************************************)
LEMMA FromHolding ==
  ASSUME NEW buffer \in Seq(Piece), NEW left \in Seq(Piece),
         NEW k \in 0 .. Len(buffer)
  PROVE  /\ SubSeq(buffer, 1, k) \in Seq(Piece)
         /\ SubSeq(buffer, k + 1, Len(buffer)) \in Seq(Piece)
         /\ Len(SubSeq(buffer, 1, k)) = k
         /\ k = Len(buffer) => SubSeq(buffer, k + 1, Len(buffer)) = <<>>
         /\ SubSeq(buffer, 1, k) \o (SubSeq(buffer, k + 1, Len(buffer)) \o left)
              = buffer \o left
<1>1. Len(buffer) \in Nat /\ \A i \in 1 .. Len(buffer) : buffer[i] \in Piece
  BY LenProperties, ElementOfSeq
<1>2. /\ SubSeq(buffer, 1, k) \in Seq(Piece)
      /\ Len(SubSeq(buffer, 1, k)) = k
  BY <1>1, SubSeqProperties
<1>3. SubSeq(buffer, k + 1, Len(buffer)) \in Seq(Piece)
  BY <1>1, SubSeqProperties
<1>4. k = Len(buffer) => SubSeq(buffer, k + 1, Len(buffer)) = <<>>
  BY <1>1, SubSeqEmpty
<1>5. SubSeq(buffer, 1, k) \o SubSeq(buffer, k + 1, Len(buffer)) = buffer
  <2>1. 1 \in 1 .. Len(buffer) + 1 /\ k \in 1 - 1 .. Len(buffer)
        /\ Len(buffer) \in k .. Len(buffer)
    BY <1>1
  <2>2. SubSeq(buffer, 1, k) \o SubSeq(buffer, k + 1, Len(buffer))
          = SubSeq(buffer, 1, Len(buffer))
    BY <2>1, ConcatAdjacentSubSeq
  <2> QED  BY <2>2, SubSeqFull
<1>6. ASSUME NEW a \in Seq(Piece), NEW b \in Seq(Piece), a \o b = buffer
      PROVE  a \o (b \o left) = buffer \o left
  <2>1. (a \o b) \o left = a \o (b \o left)  BY ConcatAssociative
  <2> QED  BY <1>6, <2>1
<1> QED  BY <1>2, <1>3, <1>4, <1>5, <1>6

\* The next piece of a body goes to the end of what came before.
LEMMA NextPiece ==
  ASSUME NEW a \in Seq(Piece), NEW left \in Seq(Piece), left # <<>>
  PROVE  /\ Head(left) \in Piece /\ Tail(left) \in Seq(Piece)
         /\ Append(a, Head(left)) \in Seq(Piece)
         /\ Append(a, Head(left)) # <<>>
         /\ Append(a, Head(left)) \o Tail(left) = a \o left
<1> DEFINE p == Head(left)
           rest == Tail(left)
<1>1. p \in Piece /\ rest \in Seq(Piece)
  BY HeadTailProperties
<1>2. left = <<p>> \o rest
  <2>1. Len(left) \in Nat \ {0}  BY EmptySeq
  <2>2. 1 \in 1 .. Len(left) /\ Len(left) \in 1 .. Len(left)  BY <2>1
  <2>3. SubSeq(left, 1, Len(left)) = <<left[1]>> \o SubSeq(left, 1 + 1, Len(left))
    BY <2>2, SubSeqRecursiveFirst
  <2>4. SubSeq(left, 1, Len(left)) = left /\ rest = SubSeq(left, 2, Len(left))
    BY SubSeqFull, TailIsSubSeq
  <2>5. 1 + 1 = 2 /\ Head(left) = left[1]  OBVIOUS
  <2> QED  BY <2>3, <2>4, <2>5
<1> HIDE DEF p, rest
<1>3. <<p>> \in Seq(Piece)  BY <1>1
<1>4. /\ Append(a, p) = a \o <<p>> /\ Append(a, p) \in Seq(Piece)
      /\ Append(a, p) # <<>>
  BY <1>1, AppendIsConcat, AppendProperties
<1>5. (a \o <<p>>) \o rest = a \o (<<p>> \o rest)
  BY <1>1, <1>3, ConcatAssociative
<1> QED  BY <1>1, <1>2, <1>4, <1>5 DEF p, rest

-----------------------------------------------------------------------------
(***************************************************************************)
(* The flow of one stream through each step of its life.                   *)
(***************************************************************************)
\* The head of a 200: the whole body is still to come.
LEMMA FlowHead ==
  ASSUME NEW m \in Members, NEW x \in TransferRecord, NEW told, NEW text,
         NEW first \in Nat, NEW last \in Version, Flow(m, x, told, text, first, last),
         x.phase = "sent", NEW n \in Nat, NEW sized \in BOOLEAN,
         m.sURL \in Url,
         NEW m1, m1 = [m EXCEPT !.bStoreCache = TRUE,
                                !.hContent_length_response = n],
         NEW y, y = After(Response(x, 200, Body(m.sURL, last), sized))
  PROVE  Flow(m1, y, told, text, first, last)
<1> DEFINE body == Body(m.sURL, last)
           r == Response(x, 200, body, sized)
<1>1. body \in Seq(Piece)  BY BodyType
<1>2. /\ r.cond = x.cond /\ r.code = 200 /\ r.ok = x.ok /\ r.left = body
      /\ r \in TransferRecord
  <2>1. 200 \in Codes  BY DEF Codes
  <2>2. r \in TransferRecord  BY <1>1, <2>1, ResponseType
  <2>3. /\ r.cond = x.cond /\ r.code = 200 /\ r.ok = x.ok /\ r.left = body
    BY DEF Response, TransferRecord
  <2> QED  BY <2>2, <2>3
<1> HIDE DEF body, r
<1>3. /\ y.cond = x.cond /\ y.code = 200 /\ y.ok = x.ok /\ y.left = body
      /\ y.phase \in {"body", "done"} /\ (y.phase = "done" => body = <<>>)
  <2>1. y = After(r)  BY DEF r, body
  <2> QED  BY <1>2, <2>1 DEF After, Ends, TransferRecord
<1>4. /\ m1.filled = m.filled /\ m1.fBuffer = m.fBuffer /\ m1.sURL = m.sURL
      /\ m1.bStreamFromCache = m.bStreamFromCache
  BY DEF Members
<1>5. text = <<>> /\ m.filled = <<>> /\ m.fBuffer = <<>> /\ told = "open"
  BY DEF Flow
<1>6. AllPieces(m1, y, text) = body
  <2>1. /\ text = <<>> /\ m1.filled = <<>> /\ m1.fBuffer = <<>> /\ y.left = body
    BY <1>3, <1>4, <1>5
  <2> QED  BY ONLY <1>1, <2>1, ConcatEmptySeq DEF AllPieces
<1>7. last \in first .. last  BY DEF Flow, Version
<1>8. \E v \in first .. last : AllPieces(m1, y, text) = Body(m1.sURL, v)
  BY <1>4, <1>6, <1>7 DEF body
<1> QED  BY <1>3, <1>4, <1>5, <1>8 DEF Flow

\* A piece arrives in the caller's buffer or in the holding buffer.
LEMMA FlowData ==
  ASSUME NEW m \in Members, NEW x \in TransferRecord, NEW told,
         NEW text \in Seq(Piece), NEW first, NEW last,
         Flow(m, x, told, text, first, last),
         x.phase = "body", x.left # <<>>,
         NEW m1 \in Members, m1.sURL = m.sURL,
         m1.bStreamFromCache = m.bStreamFromCache,
         \/ /\ m.fBuffer = <<>> /\ m1.fBuffer = <<>>
            /\ m1.filled = Append(m.filled, Head(x.left))
         \/ /\ m1.filled = m.filled
            /\ m1.fBuffer = Append(m.fBuffer, Head(x.left))
  PROVE  Flow(m1, After([x EXCEPT !.left = Tail(@)]), told, text, first, last)
<1> DEFINE z == [x EXCEPT !.left = Tail(@)]
           y == After(z)
<1>1. /\ x.left \in Seq(Piece) /\ m.filled \in Seq(Piece)
      /\ m.fBuffer \in Seq(Piece)
  BY DEF TransferRecord, Members
<1>2. Tail(x.left) \in Seq(Piece)  BY <1>1, NextPiece
<1>3. /\ z.left = Tail(x.left) /\ z.cond = x.cond /\ z.code = x.code
      /\ z.ok = x.ok /\ z \in TransferRecord
  BY <1>2 DEF TransferRecord
<1> HIDE DEF z
<1>4. /\ y.left = Tail(x.left) /\ y.cond = x.cond /\ y.code = x.code
      /\ y.ok = x.ok /\ y.phase \in {"body", "done"}
      /\ (y.phase = "done" => y.left = <<>>)
  BY <1>3 DEF After, Ends, TransferRecord
<1> HIDE DEF y
<1>5. told = "open"  BY DEF Flow
<1>6. AllPieces(m1, y, text) = AllPieces(m, x, text)
  <2>1. CASE m.fBuffer = <<>> /\ m1.fBuffer = <<>>
             /\ m1.filled = Append(m.filled, Head(x.left))
    <3>1. m1.filled \o Tail(x.left) = m.filled \o x.left
      BY <1>1, <2>1, NextPiece
    <3>2. <<>> \o Tail(x.left) = Tail(x.left) /\ <<>> \o x.left = x.left
      BY <1>1, <1>2, ConcatEmptySeq
    <3> QED  BY <1>4, <2>1, <3>1, <3>2 DEF AllPieces
  <2>2. CASE m1.filled = m.filled
             /\ m1.fBuffer = Append(m.fBuffer, Head(x.left))
    <3>1. m1.fBuffer \o Tail(x.left) = m.fBuffer \o x.left
      BY <1>1, <2>2, NextPiece
    <3> QED  BY <1>4, <2>2, <3>1 DEF AllPieces
  <2> QED  BY <2>1, <2>2
<1> QED  BY <1>4, <1>5, <1>6 DEF Flow, y, z

\* readBytes takes from the holding buffer.
LEMMA FlowBegin ==
  ASSUME NEW m \in Members, NEW x \in TransferRecord, NEW told,
         NEW text \in Seq(Piece), NEW first, NEW last,
         Flow(m, x, told, text, first, last), told = "open",
         m.filled = <<>>, NEW k \in 0 .. Len(m.fBuffer),
         NEW m1 \in Members, m1.sURL = m.sURL,
         m1.bStreamFromCache = m.bStreamFromCache,
         m1.filled = SubSeq(m.fBuffer, 1, k),
         m1.fBuffer = SubSeq(m.fBuffer, k + 1, Len(m.fBuffer))
  PROVE  Flow(m1, x, told, text, first, last)
<1>1. m.fBuffer \in Seq(Piece) /\ x.left \in Seq(Piece)
  BY DEF Members, TransferRecord
<1>2. m.fBuffer \o x.left \in Seq(Piece)
  BY <1>1, ConcatProperties
<1>3. m1.filled \o (m1.fBuffer \o x.left) = m.fBuffer \o x.left
  <2>1. \A b, l \in Seq(Piece) : \A j \in 0 .. Len(b) :
          SubSeq(b, 1, j) \o (SubSeq(b, j + 1, Len(b)) \o l) = b \o l
    BY FromHolding
  <2> QED  BY <1>1, <2>1
<1>4. AllPieces(m1, x, text) = AllPieces(m, x, text)
  BY <1>2, <1>3, ConcatEmptySeq DEF AllPieces
<1>5. m.fBuffer = <<>> => m1.filled = <<>> /\ m1.fBuffer = <<>>
  <2>1. m.fBuffer = <<>> => Len(m.fBuffer) = 0  BY EmptySeq
  <2>2. m.fBuffer = <<>> => m1.filled = SubSeq(m.fBuffer, 1, 0)
                            /\ m1.fBuffer = SubSeq(m.fBuffer, 0 + 1, 0)
    BY <2>1
  <2> QED  BY <2>2, SubSeqEmpty
<1> QED  BY <1>4, <1>5 DEF Flow

\* readBytes returns what is in the caller's buffer; nothing means the end.
LEMMA FlowReturn ==
  ASSUME NEW m \in Members, NEW x \in TransferRecord,
         NEW text \in Seq(Piece), NEW first, NEW last,
         Flow(m, x, "open", text, first, last),
         m.filled = <<>> => x.phase = "done" /\ m.fBuffer = <<>>,
         NEW m1 \in Members, m1.sURL = m.sURL,
         m1.bStreamFromCache = m.bStreamFromCache,
         m1.filled = <<>>, m1.fBuffer = m.fBuffer
  PROVE  Flow(m1, x, IF m.filled = <<>> THEN "eof" ELSE "open",
              text \o m.filled, first, last)
<1>1. /\ m.filled \in Seq(Piece) /\ m.fBuffer \in Seq(Piece)
      /\ x.left \in Seq(Piece)
  BY DEF Members, TransferRecord
<1>2. m.fBuffer \o x.left \in Seq(Piece)
  BY <1>1, ConcatProperties
<1>3. (text \o m.filled) \o (m.fBuffer \o x.left)
        = text \o (m.filled \o (m.fBuffer \o x.left))
  <2>1. \A a, b, c \in Seq(Piece) : (a \o b) \o c = a \o (b \o c)
    BY ConcatAssociative
  <2> QED  BY <1>1, <1>2, <2>1
<1>4. AllPieces(m1, x, text \o m.filled) = AllPieces(m, x, text)
  BY <1>2, <1>3, ConcatEmptySeq DEF AllPieces
<1>5. text = <<>> /\ m.filled = <<>> => text \o m.filled = <<>>
  BY ConcatEmptySeq
<1> QED  BY <1>4, <1>5 DEF Flow

-----------------------------------------------------------------------------
(***************************************************************************)
(* Without validators in the responses there are none in the cache.        *)
(***************************************************************************)
LEMMA OperationsKeepEtag ==
  ASSUME NEW o \in CacheRecord
  PROVE  /\ ResetState(o).pEtag = o.pEtag
         /\ FinishBytes(o).pEtag = o.pEtag
         /\ \A data : WriteBytes(o, data).pEtag = o.pEtag
<1>1. \A p \in CacheRecord :
        ResetState(p).pEtag = p.pEtag /\ ResetBuffer(p).pEtag = p.pEtag
  BY DEF ResetState, ResetBuffer, CacheRecord
<1>2. Prepared(o).pEtag = o.pEtag
  <2>1. ResetState(o) \in CacheRecord  BY ObjectOps
  <2> QED  BY <1>1, <2>1 DEF Prepared
<1>3. Prepared(o) \in CacheRecord  BY ObjectOps
<1>4. \A data : WriteBytes(o, data).pEtag = o.pEtag
  BY <1>2, <1>3 DEF WriteBytes, CacheRecord
<1>5. FinishBytes(o).pEtag = o.pEtag
  BY <1>2, <1>3 DEF FinishBytes, CacheRecord
<1> QED  BY <1>1, <1>4, <1>5

LEMMA NoEtagInNew == NewObject.pEtag = None /\ NoObject.pEtag = None
BY DEF NewObject, NoObject

\* addCacheObject leaves objects as they are or frees them.
LEMMA AddKeepsEtags ==
  ASSUME NEW h \in [Obj -> CacheRecord], NEW c, NEW u, NEW item \in Obj,
         \A o \in Obj : h[o].pEtag = None
  PROVE  \A o \in Obj : AddCacheObject(h, c, u, item).heap[o].pEtag = None
<1>1. ASSUME NEW g \in [Obj -> CacheRecord], NEW d,
             \A o \in Obj : g[o].pEtag = None
      PROVE  \A o \in Obj : CheckCacheSize(g, d, item).heap[o].pEtag = None
  BY <1>1, NoEtagInNew DEF CheckCacheSize
<1>2. ASSUME NEW a
      PROVE  /\ [h EXCEPT ![a] = NoObject] \in [Obj -> CacheRecord]
             /\ \A o \in Obj : [h EXCEPT ![a] = NoObject][o].pEtag = None
  BY NoEtagInNew, NewObjectType
<1>3. CASE DeletesItem(h, c, u, item)
  BY <1>2, <1>3 DEF AddCacheObject
<1>4. CASE ~DeletesItem(h, c, u, item)
  <2> DEFINE freed == IF c[u] # None /\ c[u] # item
                      THEN [h EXCEPT ![c[u]] = NoObject] ELSE h
  <2>1. freed \in [Obj -> CacheRecord] /\ \A o \in Obj : freed[o].pEtag = None
    BY <1>2
  <2>2. AddCacheObject(h, c, u, item).heap
          = CheckCacheSize(freed, [c EXCEPT ![u] = item], item).heap
    BY <1>4 DEF AddCacheObject
  <2> HIDE DEF freed
  <2> QED  BY <1>1, <2>1, <2>2
<1> QED  BY <1>3, <1>4

LEMMA DestroyedKeepsEtags ==
  ASSUME TypeInv, NEW s \in Open, \A o \in Obj : heap[o].pEtag = None
  PROVE  \A o \in Obj : Destroyed(st[s]).heap[o].pEtag = None
<1> DEFINE m == st[s]
           o == m.cacheObject
<1>1. /\ o \in Obj /\ heap[o] \in CacheRecord /\ heap \in [Obj -> CacheRecord]
  BY DEF TypeInv, TypeOK, StreamsSetUp
<1> HIDE DEF m, o
<1>2. ASSUME NEW new \in CacheRecord, new.pEtag = None
      PROVE  /\ Update(o, new) \in [Obj -> CacheRecord]
             /\ \A a \in Obj : Update(o, new)[a].pEtag = None
  BY <1>1, <1>2 DEF Update
<1>3. /\ ResetState(heap[o]) \in CacheRecord
      /\ ResetState(heap[o]).pEtag = None
      /\ ResetState(FinishBytes(heap[o])) \in CacheRecord
      /\ ResetState(FinishBytes(heap[o])).pEtag = None
  <2>1. FinishBytes(heap[o]) \in CacheRecord  BY <1>1, ObjectOps
  <2> QED  BY <1>1, <2>1, ObjectOps, OperationsKeepEtag
<1>4. CASE StoreWanted(m)
  <2> DEFINE g == Update(o, ResetState(FinishBytes(heap[o])))
  <2>1. g \in [Obj -> CacheRecord] /\ \A a \in Obj : g[a].pEtag = None
    BY <1>2, <1>3
  <2>2. Stored(m) = AddCacheObject(g, HttpCache, m.sURL, o)
    BY DEF Stored, o
  <2> HIDE DEF g
  <2>3. \A a \in Obj : Stored(m).heap[a].pEtag = None
    BY <1>1, <2>1, <2>2, AddKeepsEtags
  <2> QED  BY <1>4, <2>3 DEF Destroyed, m
<1>5. CASE ~StoreWanted(m) /\ FromCache(m)
  BY <1>2, <1>3, <1>5 DEF Destroyed, m, o
<1>6. CASE ~StoreWanted(m) /\ ~FromCache(m)
  BY <1>1, <1>6, NoEtagInNew DEF Destroyed, m, o
<1> QED  BY <1>4, <1>5, <1>6

-----------------------------------------------------------------------------
(***************************************************************************)
(* The steps.  One stream moves on and the others stay where they are.     *)
(***************************************************************************)
LEMMA FlowsStep ==
  ASSUME FlowInv, NEW s \in Open, NEW m, NEW x,
         st' = [st EXCEPT ![s] = m], xfer' = [xfer EXCEPT ![s] = x],
         m.sURL = st[s].sURL, UNCHANGED <<fEasy, since, ver>>,
         \A t \in Stream \ {s} : status'[t] = status[t] /\ out'[t] = out[t],
         Flow(m, x, status'[s], out'[s], since[s][m.sURL], ver[m.sURL])
  PROVE  Flows' /\ ClosedAtRest'
<1>1. Open' = Open /\ s \in Stream  BY DEF Open
<1>2. /\ st'[s] = m /\ xfer'[s] = x
      /\ \A t \in Stream \ {s} : st'[t] = st[t] /\ xfer'[t] = xfer[t]
  BY <1>1 DEF FlowInv, TypeInv, TypeOK
<1>3. ASSUME NEW t \in Open
      PROVE  Flow(st'[t], xfer'[t], status'[t], out'[t],
                  since'[t][st'[t].sURL], ver'[st'[t].sURL])
  <2>1. CASE t = s
    BY <1>2, <2>1
  <2>2. CASE t # s
    <3>1. t \in Stream \ {s}  BY <2>2 DEF Open
    <3>2. Flow(st[t], xfer[t], status[t], out[t],
               since[t][st[t].sURL], ver[st[t].sURL])
      BY DEF FlowInv, Flows
    <3> QED  BY <1>2, <3>1, <3>2
  <2> QED  BY <2>1, <2>2
<1>4. ClosedAtRest'
  BY <1>1, <1>2 DEF FlowInv, ClosedAtRest
<1> QED  BY <1>1, <1>3, <1>4 DEF Flows

LEMMA FlowInit == ReliableServers /\ Unconditional /\ Init => FlowInv
<1> SUFFICES ASSUME ReliableServers, Unconditional, Init PROVE FlowInv
  OBVIOUS
<1>1. Open = {}  BY DEF Init, Open
<1>2. NoValidatorStored
  BY NoEtagInNew DEF Init, HandlerInit, NoValidatorStored
<1>3. ClosedAtRest  BY DEF Init, ClosedAtRest
<1>4. Flows /\ OnlyCurrentWants  BY <1>1 DEF Flows, OnlyCurrentWants
<1>5. CurrentWants /\ NoStaleWrite  BY DEF Init, CurrentWants, NoStaleWrite
<1> QED  BY <1>2, <1>3, <1>4, <1>5, TypeInit DEF FlowInv

LEMMA FlowNewStream ==
  ASSUME FlowInv, NEW s \in Stream, NEW u \in Url, NEW mode \in Modes,
         NewStream(s, u, mode)
  PROVE  FlowInv'
<1> DEFINE wanted == mode # "nocache"
           pCache == Lookup(wanted, u)
           m0 == [NoMembers EXCEPT !.sURL = u, !.bUseCache = TRUE]
<1>1. TypeInv'  BY TypeNewStream DEF FlowInv
<1>2. PICK h \in Handle, new \in NewAddresses(pCache = None) :
        LET m == SetupConnection(m0, pCache, new)
        IN
        /\ fEasy' = [fEasy EXCEPT ![s] = h]
        /\ heap' = HeapWith(new)
        /\ st' = [st EXCEPT ![s] = [m EXCEPT !.bUseCache = (mode = "cache")]]
        /\ xfer' = [xfer EXCEPT ![s] = Request(RequestHeaders(m, pCache), 0)]
  BY DEF NewStream
<1> DEFINE m  == SetupConnection(m0, pCache, new)
           m1 == [m EXCEPT !.bUseCache = (mode = "cache")]
           x1 == Request(RequestHeaders(m, pCache), 0)
<1>3. /\ cur = None /\ fEasy[s] = None
      /\ faults' = faults \cup UseOfEntry(wanted, u)
      /\ status' = [status EXCEPT ![s] = "open"]
      /\ since' = [since EXCEPT ![s] = ver]
      /\ UNCHANGED <<HttpCache, msgs, cur, phase, ver, out>>
  BY DEF NewStream, callVars
<1>4. /\ heap \in [Obj -> CacheRecord] /\ HttpCache \in [Url -> Obj \cup {None}]
      /\ pCache \in Obj \cup {None} /\ ver \in [Url -> Version]
  BY LookupType DEF FlowInv, TypeInv, TypeOK
<1>5. RequestHeaders(m, pCache) = None
  <2>1. CASE ~Validators
    BY <1>4, <2>1 DEF RequestHeaders, Live, FlowInv, NoValidatorStored
  <2>2. CASE Modes = {"nocache"}
    <3>1. pCache = None  BY <2>2 DEF Lookup
    <3> QED  BY <3>1 DEF RequestHeaders, Live
  <2> QED  BY <2>1, <2>2 DEF FlowInv, Unconditional
<1>6. /\ m1.sURL = u /\ ~m1.bStreamFromCache /\ m1.filled = <<>>
      /\ m1.fBuffer = <<>> /\ m1.fBytesToRead = 0
  BY DEF SetupConnection, NoMembers
<1>7. /\ x1.cond = None /\ x1.code = 0 /\ x1.ok /\ x1.phase = "sent"
  BY <1>5 DEF Request, NoTransfer
<1> HIDE DEF m, m0, m1, x1, pCache, wanted
<1>8. /\ st' = [st EXCEPT ![s] = m1] /\ xfer' = [xfer EXCEPT ![s] = x1]
  BY <1>2 DEF m, m1, x1
<1>9. Open' = Open \cup {s} /\ s \notin Open
  BY <1>2, <1>3, HandleAssumption DEF Open, FlowInv, TypeInv, TypeOK
<1>10. /\ st'[s] = m1 /\ xfer'[s] = x1 /\ status'[s] = "open"
       /\ since'[s] = ver /\ out'[s] = <<>>
       /\ \A t \in Stream \ {s} :
            /\ st'[t] = st[t] /\ xfer'[t] = xfer[t] /\ status'[t] = status[t]
            /\ since'[t] = since[t] /\ out'[t] = out[t]
  BY <1>3, <1>8, <1>9 DEF FlowInv, TypeInv, TypeOK, ClosedAtRest
<1>11. Flow(m1, x1, "open", <<>>, ver[u], ver[u])
  BY <1>4, <1>6, <1>7 DEF Flow, Version
<1>12. Flows'
  <2> SUFFICES ASSUME NEW t \in Open'
               PROVE  Flow(st'[t], xfer'[t], status'[t], out'[t],
                           since'[t][st'[t].sURL], ver'[st'[t].sURL])
    BY DEF Flows
  <2>1. CASE t = s
    BY <1>3, <1>6, <1>10, <1>11, <2>1
  <2>2. CASE t # s
    <3>1. t \in Open /\ t \in Stream \ {s}  BY <1>9, <2>2 DEF Open
    <3>2. Flow(st[t], xfer[t], status[t], out[t],
               since[t][st[t].sURL], ver[st[t].sURL])
      BY <3>1 DEF FlowInv, Flows
    <3> QED  BY <1>3, <1>10, <3>1, <3>2
  <2> QED  BY <2>1, <2>2
<1>13. ClosedAtRest'
  BY <1>9, <1>10 DEF FlowInv, ClosedAtRest
<1>14. OnlyCurrentWants' /\ CurrentWants'
  <2>1. \A t \in Open : t \in Stream \ {s}  BY <1>9 DEF Open
  <2>2. OnlyCurrentWants'
    BY <1>3, <1>6, <1>9, <1>10, <2>1 DEF FlowInv, OnlyCurrentWants
  <2> QED  BY <1>3, <2>2 DEF CurrentWants
<1>15. NoValidatorStored'
  BY <1>2, <1>4, NoEtagInNew DEF HeapWith, FlowInv, NoValidatorStored
<1>16. NoStaleWrite'
  BY <1>3 DEF UseOfEntry, Use, FlowInv, NoStaleWrite
<1> QED
  BY <1>1, <1>12, <1>13, <1>14, <1>15, <1>16
     DEF FlowInv, ReliableServers, Unconditional

LEMMA FlowBeginRead ==
  ASSUME FlowInv, NEW s \in Stream, NEW n \in 1 .. MaxRead, BeginRead(s, n)
  PROVE  FlowInv'
<1> DEFINE m  == st[s]
           k  == Least(n, Len(m.fBuffer))
           m1 == [m EXCEPT !.maxToRead = n,
                       !.fBytesToRead = n - k,
                       !.filled = SubSeq(m.fBuffer, 1, k),
                       !.fBuffer = SubSeq(m.fBuffer, k + 1, Len(m.fBuffer)),
                       !.fTotalBytesRead = m.fTotalBytesRead + k]
<1>1. TypeInv'  BY TypeBeginRead DEF FlowInv
<1>2. /\ cur = None /\ s \in Open /\ status[s] = "open" /\ cur' = s
      /\ UNCHANGED <<heap, HttpCache, freeHandles, fEasy, xfer, msgs, ver,
                     status, out, since, faults>>
  BY DEF BeginRead, Open, handlerVars, clientVars
<1>3. /\ m \in Members /\ xfer[s] \in TransferRecord /\ out[s] \in Seq(Piece)
      /\ Flow(m, xfer[s], "open", out[s], since[s][m.sURL], ver[m.sURL])
      /\ m.filled = <<>> /\ ~m.bStreamFromCache
  <2>1. Flow(m, xfer[s], status[s], out[s], since[s][m.sURL], ver[m.sURL])
    BY <1>2 DEF FlowInv, Flows
  <2>2. ~m.bStreamFromCache  BY <2>1 DEF Flow
  <2>3. m.filled = <<>>
    <3>1. s # cur  BY <1>2, StreamAssumption
    <3> QED  BY <1>2, <3>1 DEF FlowInv, OnlyCurrentWants
  <2> QED  BY <1>2, <2>1, <2>2, <2>3 DEF FlowInv, TypeInv, TypeOK
<1>4. st' = [st EXCEPT ![s] = m1]
  BY <1>3 DEF BeginRead
<1>5. phase' = IF n - k = 0 THEN "return" ELSE "perform"
  BY <1>3 DEF BeginRead
<1>6. /\ m.fBuffer \in Seq(Piece) /\ Len(m.fBuffer) \in Nat /\ n \in Nat \ {0}
      /\ k \in 0 .. Len(m.fBuffer) /\ n - k \in Nat
      /\ n - k # 0 => k = Len(m.fBuffer)
  <2>1. m.fBuffer \in Seq(Piece)  BY <1>3 DEF Members
  <2>2. n \in Nat \ {0}  BY ClientAssumption
  <2>3. Len(m.fBuffer) \in Nat  BY <2>1, LenProperties
  <2> QED  BY <2>1, <2>2, <2>3 DEF Least
<1>7. /\ SubSeq(m.fBuffer, 1, k) \in Seq(Piece)
      /\ SubSeq(m.fBuffer, k + 1, Len(m.fBuffer)) \in Seq(Piece)
      /\ Len(SubSeq(m.fBuffer, 1, k)) = k
      /\ k = Len(m.fBuffer) => SubSeq(m.fBuffer, k + 1, Len(m.fBuffer)) = <<>>
  BY <1>6, EmptyPieces, FromHolding
<1> HIDE DEF k
<1>8. /\ m1 \in Members /\ m1.sURL = m.sURL
      /\ m1.bStreamFromCache = m.bStreamFromCache
      /\ m1.filled = SubSeq(m.fBuffer, 1, k)
      /\ m1.fBuffer = SubSeq(m.fBuffer, k + 1, Len(m.fBuffer))
      /\ m1.fBytesToRead = n - k
  <2> DEFINE taken == SubSeq(m.fBuffer, 1, k)
             kept  == SubSeq(m.fBuffer, k + 1, Len(m.fBuffer))
             rest  == n - k
             total == m.fTotalBytesRead + k
  <2>1. /\ taken \in Seq(Piece) /\ kept \in Seq(Piece) /\ rest \in Nat
        /\ total \in Nat /\ n \in Nat
    BY <1>3, <1>6, <1>7 DEF Members
  <2> HIDE DEF taken, kept, rest, total
  <2>2. m1 = [m EXCEPT !.maxToRead = n, !.fBytesToRead = rest,
                       !.filled = taken, !.fBuffer = kept,
                       !.fTotalBytesRead = total]
    BY DEF taken, kept, rest, total
  <2> HIDE DEF m1
  <2>3. /\ m1 \in Members /\ m1.sURL = m.sURL
        /\ m1.bStreamFromCache = m.bStreamFromCache
        /\ m1.filled = taken /\ m1.fBuffer = kept /\ m1.fBytesToRead = rest
    BY <1>3, <2>1, <2>2 DEF Members
  <2> QED  BY <2>3 DEF taken, kept, rest
<1> HIDE DEF m1, m
<1>9. Flow(m1, xfer[s], "open", out[s], since[s][m.sURL], ver[m.sURL])
  BY <1>3, <1>6, <1>8, FlowBegin
<1>10. xfer' = [xfer EXCEPT ![s] = xfer[s]]
  BY <1>2 DEF FlowInv, TypeInv, TypeOK
<1>11. Flows' /\ ClosedAtRest'
  BY <1>2, <1>4, <1>8, <1>9, <1>10, FlowsStep DEF m
<1>12. /\ st'[s] = m1 /\ Open' = Open
       /\ \A t \in Open : t # s => st'[t] = st[t]
  BY <1>2, <1>4 DEF FlowInv, TypeInv, TypeOK, Open
<1>13. CurrentWants'
  <2>1. n - k = 0 => m1.filled # <<>>
    <3>1. n - k = 0 => Len(m1.filled) # 0  BY <1>6, <1>7, <1>8
    <3> QED  BY <3>1, EmptySeq
  <2> QED  BY <1>2, <1>5, <1>6, <1>7, <1>8, <1>12, <2>1 DEF CurrentWants
<1>14. OnlyCurrentWants'
  BY <1>2, <1>12, StreamAssumption DEF FlowInv, OnlyCurrentWants, Open
<1> QED
  BY <1>1, <1>2, <1>11, <1>13, <1>14
     DEF FlowInv, ReliableServers, Unconditional, NoValidatorStored, NoStaleWrite

LEMMA FlowHeader ==
  ASSUME FlowInv, NEW t \in Stream, Header(t)
  PROVE  FlowInv'
<1> DEFINE m == st[t]
           x == xfer[t]
           u == m.sURL
<1>1. TypeInv'  BY TypeHeader DEF FlowInv
<1>2. /\ Performing(t) /\ x.phase = "sent"
      /\ UNCHANGED <<HttpCache, freeHandles, fEasy, cur, phase, ver,
                     status, out, since>>
  BY DEF Header, callVars, clientVars
<1>3. /\ t \in Open /\ m \in Members /\ x \in TransferRecord /\ u \in Url
      /\ ver[u] \in Version /\ BodyLen[u] \in Nat /\ since[t][u] \in Nat
      /\ heap \in [Obj -> CacheRecord] /\ Target[u] = None
      /\ st = [st EXCEPT ![t] = m]
  BY <1>2, RunningStream, ServerAssumption
     DEF FlowInv, TypeInv, TypeOK, Version, ReliableServers
<1>4. Flow(m, x, status[t], out[t], since[t][u], ver[u])
  BY <1>3 DEF FlowInv, Flows
<1>5. PICK f \in Framing : HeadOK(t, f)
  <2>1. ~HeadNotModified(t)
    <3>1. x.cond = None  BY <1>4 DEF Flow
    <3> QED  BY <1>3, <3>1, ServerAssumption DEF HeadNotModified, Version
  <2>2. \A f \in Framing : ~HeadRedirect(t, f) /\ ~HeadError(t, f)
    BY <1>3 DEF HeadRedirect, HeadError, FlowInv, ReliableServers
  <2> QED  BY <2>1, <2>2 DEF Header
<1> DEFINE n == CASE f = "length"  -> BodyLen[u]
                  [] f = "encoded" -> BodyLen[u] - 1
                  [] OTHER         -> m.hContent_length_response
           m1 == [m EXCEPT !.bStoreCache = TRUE, !.hContent_length_response = n]
           sized == f # "chunked"
           x1 == After(Response(x, 200, Body(u, ver[u]), sized))
<1>6. /\ st' = [st EXCEPT ![t] = m1] /\ xfer' = [xfer EXCEPT ![t] = x1]
      /\ heap' = IF SetsEtag(m) /\ Live(m.cacheObject)
                 THEN [heap EXCEPT ![m.cacheObject].pEtag = ver[u]] ELSE heap
      /\ faults' = faults \cup IF SetsEtag(m) THEN Use(m.cacheObject) ELSE {}
      /\ BodyLen[u] > 0 \/ f # "encoded"
  BY <1>5 DEF HeadOK
<1>7. n \in Nat
  <2>1. CASE f = "length"
    BY <1>3, <2>1
  <2>2. CASE f = "encoded"
    BY <1>3, <1>6, <2>2
  <2>3. CASE f # "length" /\ f # "encoded"
    <3>1. n = m.hContent_length_response  BY <2>3
    <3> QED  BY <1>3, <3>1 DEF Members
  <2> QED  BY <2>1, <2>2, <2>3
<1> HIDE DEF n
<1>8. /\ m1.sURL = u /\ m1.filled = m.filled /\ m1.fBuffer = m.fBuffer
      /\ m1.fBytesToRead = m.fBytesToRead
  BY <1>3 DEF Members
<1>9. Flow(m1, x1, status[t], out[t], since[t][u], ver[u])
  <2>1. sized \in BOOLEAN  OBVIOUS
  <2>2. /\ since[t][u] \in Nat /\ ver[u] \in Version
        /\ Flow(m, x, status[t], out[t], since[t][u], ver[u])
        /\ m \in Members /\ x \in TransferRecord /\ x.phase = "sent" /\ n \in Nat
        /\ m.sURL \in Url
    BY <1>2, <1>3, <1>4, <1>7
  <2>3. /\ m1 = [m EXCEPT !.bStoreCache = TRUE, !.hContent_length_response = n]
        /\ x1 = After(Response(x, 200, Body(m.sURL, ver[u]), sized))
    OBVIOUS
  <2> HIDE DEF sized, m, x, u, m1, x1
  <2> QED  BY ZenonT(60), <2>1, <2>2, <2>3, FlowHead
<1> HIDE DEF m1, x1
<1>10. Flows' /\ ClosedAtRest'
  BY <1>2, <1>3, <1>6, <1>8, <1>9, FlowsStep
<1>11. /\ Open' = Open /\ st'[t] = m1
       /\ \A s \in Open : s # t => st'[s] = st[s]
  BY <1>2, <1>3, <1>6 DEF FlowInv, TypeInv, TypeOK, Open
<1>12. OnlyCurrentWants' /\ CurrentWants'
  BY <1>2, <1>3, <1>8, <1>11
     DEF FlowInv, OnlyCurrentWants, CurrentWants, TypeInv, CurrentExists
<1>13. NoValidatorStored'
  BY <1>6 DEF SetsEtag, FlowInv, NoValidatorStored
<1>14. NoStaleWrite'
  BY <1>6 DEF Use, FlowInv, NoStaleWrite
<1> QED
  BY <1>1, <1>10, <1>12, <1>13, <1>14
     DEF FlowInv, ReliableServers, Unconditional

LEMMA FlowPiece ==
  ASSUME FlowInv, NEW t \in Stream, Data(t)
  PROVE  FlowInv'
<1> DEFINE m == st[t]
           x == xfer[t]
           p == Head(x.left)
           o == m.cacheObject
           m1 == IF HasRoom(m)
                 THEN [m EXCEPT !.filled = Append(@, p),
                                !.fBytesToRead = @ - 1,
                                !.fTotalBytesRead = @ + 1]
                 ELSE [m EXCEPT !.fBuffer = Append(@, p)]
           x1 == After([x EXCEPT !.left = Tail(@)])
<1>1. TypeInv'  BY TypeData DEF FlowInv
<1>2. /\ Performing(t) /\ x.phase = "body" /\ x.left # <<>>
      /\ UNCHANGED <<HttpCache, freeHandles, fEasy, cur, phase, ver,
                     status, out, since>>
      /\ st' = [st EXCEPT ![t] = m1] /\ xfer' = [xfer EXCEPT ![t] = x1]
      /\ heap' = IF Compresses(m) /\ Live(o)
                 THEN [heap EXCEPT ![o] = WriteBytes(@, <<p>>)] ELSE heap
      /\ faults' = faults \cup (IF Compresses(m) THEN Use(o) ELSE {})
                          \cup (IF HasRoom(m) /\ t # cur
                                THEN {"stale_write"} ELSE {})
  BY DEF Data, callVars, clientVars
<1>3. /\ t \in Open /\ m \in Members /\ x \in TransferRecord
      /\ o \in Obj /\ heap \in [Obj -> CacheRecord] /\ out[t] \in Seq(Piece)
      /\ cur # None /\ phase # "return"
      /\ m.fBytesToRead \in Nat /\ m.filled \in Seq(Piece)
      /\ m.fBuffer \in Seq(Piece) /\ x.left \in Seq(Piece)
      /\ m.fTotalBytesRead \in Nat
  BY <1>2, RunningStream
     DEF FlowInv, TypeInv, TypeOK, Performing, Members, TransferRecord
<1>4. Flow(m, x, status[t], out[t], since[t][m.sURL], ver[m.sURL])
  BY <1>3 DEF FlowInv, Flows
<1>5. HasRoom(m) => t = cur /\ m.fBuffer = <<>>
  BY <1>3 DEF HasRoom, FlowInv, OnlyCurrentWants, CurrentWants
<1>6. /\ p \in Piece /\ Append(m.filled, p) \in Seq(Piece)
      /\ Append(m.fBuffer, p) \in Seq(Piece) /\ Append(m.filled, p) # <<>>
  BY <1>2, <1>3, NextPiece
<1> HIDE DEF p
<1>7. /\ m1 \in Members /\ m1.sURL = m.sURL
      /\ m1.bStreamFromCache = m.bStreamFromCache
      /\ IF HasRoom(m)
         THEN /\ m1.filled = Append(m.filled, p) /\ m1.fBuffer = m.fBuffer
              /\ m1.fBytesToRead = m.fBytesToRead - 1
         ELSE /\ m1.filled = m.filled /\ m1.fBuffer = Append(m.fBuffer, p)
              /\ m1.fBytesToRead = m.fBytesToRead
  <2>1. CASE HasRoom(m)
    <3>1. m.fBytesToRead - 1 \in Nat /\ m.fTotalBytesRead + 1 \in Nat
      BY <1>3, <2>1 DEF HasRoom
    <3> QED  BY <1>3, <1>6, <2>1, <3>1 DEF Members
  <2>2. CASE ~HasRoom(m)
    BY <1>3, <1>6, <2>2 DEF Members
  <2> QED  BY <2>1, <2>2
<1> HIDE DEF m1
<1>8. Flow(m1, x1, status[t], out[t], since[t][m.sURL], ver[m.sURL])
  BY <1>2, <1>3, <1>4, <1>5, <1>7, FlowData DEF p
<1> HIDE DEF x1
<1>9. Flows' /\ ClosedAtRest'
  BY <1>2, <1>3, <1>7, <1>8, FlowsStep
<1>10. /\ Open' = Open /\ st'[t] = m1
       /\ \A s \in Open : s # t => st'[s] = st[s]
  BY <1>2, <1>3 DEF FlowInv, TypeInv, TypeOK, Open
<1>11. OnlyCurrentWants'
  <2>1. t # cur => m1.fBytesToRead = m.fBytesToRead /\ m1.filled = m.filled
    BY <1>5, <1>7
  <2> QED  BY <1>2, <1>3, <1>10, <2>1 DEF FlowInv, OnlyCurrentWants
<1>12. CurrentWants'
  <2>1. CASE t = cur
    <3>1. CASE HasRoom(m)
      BY <1>2, <1>3, <1>5, <1>6, <1>7, <1>10, <2>1, <3>1
         DEF FlowInv, CurrentWants
    <3>2. CASE ~HasRoom(m)
      <4>1. m.fBytesToRead = 0  BY <1>3, <3>2 DEF HasRoom
      <4> QED  BY <1>2, <1>3, <1>7, <1>10, <2>1, <3>2, <4>1
                  DEF FlowInv, CurrentWants
    <3> QED  BY <3>1, <3>2
  <2>2. CASE t # cur
    <3>1. cur \in Open  BY <1>3 DEF FlowInv, TypeInv, CurrentExists
    <3> QED  BY <1>2, <1>10, <2>2, <3>1 DEF FlowInv, CurrentWants
  <2> QED  BY <2>1, <2>2
<1>13. NoValidatorStored'
  <2>1. WriteBytes(heap[o], <<p>>).pEtag = heap[o].pEtag
    BY <1>3, OperationsKeepEtag
  <2> QED  BY <1>2, <1>3, <2>1 DEF FlowInv, NoValidatorStored
<1>14. NoStaleWrite'
  BY <1>2, <1>5 DEF Use, FlowInv, NoStaleWrite
<1> QED
  BY <1>1, <1>9, <1>11, <1>12, <1>13, <1>14
     DEF FlowInv, ReliableServers, Unconditional

LEMMA FlowComplete ==
  ASSUME FlowInv, NEW t \in Stream, Complete(t)
  PROVE  FlowInv'
<1> DEFINE m == st[t]
           x1 == [xfer[t] EXCEPT !.phase = "done"]
<1>1. TypeInv'  BY TypeComplete DEF FlowInv
<1>2. /\ Performing(t) /\ xfer[t].phase = "body" /\ xfer[t].left = <<>>
      /\ xfer' = [xfer EXCEPT ![t].phase = "done"]
      /\ UNCHANGED <<heap, HttpCache, freeHandles, fEasy, st, cur, phase, ver,
                     status, out, since, faults>>
  BY DEF Complete, handlerVars, callVars, clientVars
<1>3. /\ t \in Open /\ m \in Members /\ xfer[t] \in TransferRecord
      /\ st = [st EXCEPT ![t] = m]
  BY <1>2, RunningStream DEF FlowInv
<1>4. Flow(m, xfer[t], status[t], out[t], since[t][m.sURL], ver[m.sURL])
  BY <1>3 DEF FlowInv, Flows
<1>5. /\ x1.phase = "done" /\ x1.left = xfer[t].left /\ x1.ok = xfer[t].ok
      /\ x1.cond = xfer[t].cond /\ x1.code = xfer[t].code
      /\ xfer' = [xfer EXCEPT ![t] = x1]
  BY <1>2, <1>3 DEF TransferRecord
<1> HIDE DEF x1
<1>6. Flow(m, x1, status[t], out[t], since[t][m.sURL], ver[m.sURL])
  BY <1>2, <1>4, <1>5 DEF Flow, AllPieces
<1>7. Flows' /\ ClosedAtRest'
  <2>1. st' = [st EXCEPT ![t] = m]  BY <1>2, <1>3
  <2>2. Flow(m, x1, status'[t], out'[t], since[t][m.sURL], ver[m.sURL])
    BY <1>2, <1>6
  <2>3. /\ m.sURL = st[t].sURL /\ UNCHANGED <<fEasy, since, ver>>
        /\ \A s \in Stream \ {t} : status'[s] = status[s] /\ out'[s] = out[s]
    BY <1>2
  <2> HIDE DEF m
  <2> QED  BY <1>3, <1>5, <2>1, <2>2, <2>3, FlowsStep
<1>8. Open' = Open  BY <1>2 DEF Open
<1> QED
  BY <1>1, <1>2, <1>7, <1>8
     DEF FlowInv, ReliableServers, Unconditional, NoValidatorStored,
         NoStaleWrite, OnlyCurrentWants, CurrentWants

\* Every message tells of a transfer that went well, and is taken as one.
LEMMA OnlyFinished ==
  ASSUME FlowInv, NEW t \in Stream,
         TakeFinished(t) \/ TakeUnmodified(t) \/ TakeRedirect(t) \/ TakeError(t)
  PROVE  TakeFinished(t)
<1>1. cur # None
  BY DEF TakeFinished, TakeUnmodified, TakeRedirect, TakeError, Message
<1>2. cur \in Open  BY <1>1, CurrentStream DEF FlowInv
<1>3. xfer[cur].code \in {0, 200}  BY <1>2 DEF FlowInv, Flows, Flow
<1>4. xfer[t].ok
  <2>1. CASE t \in Open  BY <2>1 DEF FlowInv, Flows, Flow
  <2>2. CASE t \notin Open
    <3>1. xfer[t] = NoTransfer  BY <2>2 DEF FlowInv, ClosedAtRest
    <3> QED  BY <3>1 DEF NoTransfer
  <2> QED  BY <2>1, <2>2
<1> QED
  BY <1>3, <1>4
     DEF TakeUnmodified, TakeRedirect, TakeError, Unmodified, Redirected, Refused

LEMMA FlowMessage ==
  ASSUME FlowInv, NEW t \in Stream, TakeFinished(t)
  PROVE  FlowInv'
<1>1. TypeInv'  BY TypeTakeMessage DEF FlowInv
<1>2. /\ phase' = "messages"
      /\ UNCHANGED <<heap, fEasy, st, xfer, cur, ver, status, out, since, faults>>
      /\ phase # "return"
  BY DEF TakeFinished, Message, handlerVars, clientVars
<1>3. Open' = Open  BY <1>2 DEF Open
<1>4. Flows' /\ ClosedAtRest'
  BY <1>2, <1>3 DEF FlowInv, Flows, ClosedAtRest
<1> QED
  BY <1>1, <1>2, <1>3, <1>4
     DEF FlowInv, ReliableServers, Unconditional, NoValidatorStored,
         NoStaleWrite, OnlyCurrentWants, CurrentWants

LEMMA FlowPerformAgain ==
  ASSUME FlowInv, PerformAgain
  PROVE  FlowInv'
<1> DEFINE s == cur
           m == st[s]
           x1 == IF xfer[s].phase = "sent" THEN [xfer[s] EXCEPT !.code = 0]
                 ELSE xfer[s]
<1>1. TypeInv'  BY TypePerformAgain DEF FlowInv
<1>2. /\ cur # None /\ phase' = "perform" /\ ~LoopEnds(cur)
      /\ UNCHANGED <<heap, fEasy, st, cur, ver, status, out, since, faults>>
      /\ xfer' = IF xfer[s].phase = "sent"
                 THEN [xfer EXCEPT ![s].code = 0] ELSE xfer
  BY DEF PerformAgain, handlerVars, clientVars
<1>3. /\ s \in Open /\ xfer[s] \in TransferRecord
      /\ xfer = [xfer EXCEPT ![s] = xfer[s]] /\ st = [st EXCEPT ![s] = m]
      /\ xfer \in [Stream -> TransferRecord]
  BY <1>2, CurrentStream DEF FlowInv, TypeInv, TypeOK
<1>4. xfer' = [xfer EXCEPT ![s] = x1]
  BY <1>2, <1>3
<1>5. /\ x1.phase = xfer[s].phase /\ x1.left = xfer[s].left
      /\ x1.ok = xfer[s].ok /\ x1.cond = xfer[s].cond
      /\ x1.code \in {0, xfer[s].code}
  BY <1>3 DEF TransferRecord
<1> HIDE DEF x1, m, s
<1>6. Flow(m, xfer[s], status[s], out[s], since[s][m.sURL], ver[m.sURL])
  BY <1>3 DEF FlowInv, Flows, m
<1>7. Flow(m, x1, status[s], out[s], since[s][m.sURL], ver[m.sURL])
  BY ZenonT(60), <1>5, <1>6 DEF Flow, AllPieces
<1>8. Flows' /\ ClosedAtRest'
  <2>1. /\ st' = [st EXCEPT ![s] = m] /\ m.sURL = st[s].sURL
        /\ Flow(m, x1, status'[s], out'[s], since[s][m.sURL], ver[m.sURL])
    BY <1>2, <1>3, <1>7 DEF m
  <2> QED  BY <1>2, <1>3, <1>4, <2>1, FlowsStep
<1>9. Open' = Open  BY <1>2 DEF Open
<1>10. CurrentWants' /\ OnlyCurrentWants'
  BY <1>2, <1>9 DEF FlowInv, CurrentWants, OnlyCurrentWants
<1> QED
  BY <1>1, <1>2, <1>8, <1>9, <1>10
     DEF FlowInv, ReliableServers, Unconditional, NoValidatorStored, NoStaleWrite

\* readBytes that returns nothing has met the end of the transfer.
LEMMA ReturnsAtEnd ==
  ASSUME FlowInv, cur # None, ReadsEnd, st[cur].filled = <<>>
  PROVE  xfer[cur].phase = "done" /\ st[cur].fBuffer = <<>>
<1>1. cur \in Open /\ st[cur].fBytesToRead # 0 /\ st[cur].fBuffer = <<>>
      /\ phase # "return"
  BY CurrentStream DEF FlowInv, CurrentWants
<1>2. ~st[cur].bStreamFromCache /\ xfer[cur].phase \in {"sent", "body", "done"}
  BY <1>1 DEF FlowInv, Flows, Flow
<1>3. Running = {}
  BY <1>1, <1>2 DEF ReadsEnd, LoopEnds
<1> QED  BY <1>1, <1>2, <1>3 DEF Running

LEMMA FlowEndRead ==
  ASSUME FlowInv, EndRead
  PROVE  FlowInv'
<1> DEFINE s == cur
           m == st[s]
           fin == TransferFinished(m, m.fTotalBytesRead)
           m1 == [AtRest(m) EXCEPT !.bTransferFinished = fin]
<1>1. TypeInv'  BY TypeEndRead DEF FlowInv
<1>2. /\ cur # None /\ ReadsEnd
      /\ st' = [st EXCEPT ![s] = m1]
      /\ out' = [out EXCEPT ![s] = @ \o m.filled]
      /\ status' = [status EXCEPT ![s] = IF m.filled = <<>> THEN "eof" ELSE "open"]
      /\ cur' = None
      /\ UNCHANGED <<heap, fEasy, xfer, ver, since, faults>>
  BY DEF EndRead, Return, handlerVars
<1>3. /\ s \in Open /\ s \in Stream /\ m \in Members
      /\ xfer[s] \in TransferRecord
      /\ xfer = [xfer EXCEPT ![s] = xfer[s]]
      /\ st \in [Stream -> Members] /\ status \in [Stream -> Statuses]
      /\ out \in [Stream -> Seq(Piece)] /\ out[s] \in Seq(Piece)
  BY <1>2, CurrentStream DEF FlowInv, TypeInv, TypeOK
<1>4. /\ m1 \in Members /\ m1.sURL = m.sURL /\ m1.fBuffer = m.fBuffer
      /\ m1.bStreamFromCache = m.bStreamFromCache
      /\ m1.filled = <<>> /\ m1.fBytesToRead = 0
  <2>1. fin \in BOOLEAN
    BY <1>3 DEF TransferFinished, Members
  <2> HIDE DEF fin, m
  <2>2. /\ AtRest(m) \in Members /\ AtRest(m).sURL = m.sURL
        /\ AtRest(m).fBuffer = m.fBuffer
        /\ AtRest(m).bStreamFromCache = m.bStreamFromCache
        /\ AtRest(m).filled = <<>> /\ AtRest(m).fBytesToRead = 0
    BY <1>3, EmptyPieces DEF AtRest, Members
  <2> QED  BY <2>1, <2>2 DEF Members
<1> HIDE DEF m1
<1>5. m.filled = <<>> => xfer[s].phase = "done" /\ m.fBuffer = <<>>
  BY <1>2, ReturnsAtEnd
<1>6. Flow(m, xfer[s], "open", out[s], since[s][m.sURL], ver[m.sURL])
  BY <1>2, <1>3 DEF FlowInv, Flows, CurrentWants
<1>7. /\ st'[s] = m1 /\ out'[s] = out[s] \o m.filled
      /\ status'[s] = IF m.filled = <<>> THEN "eof" ELSE "open"
      /\ \A t \in Stream \ {s} :
           st'[t] = st[t] /\ status'[t] = status[t] /\ out'[t] = out[t]
  BY <1>2, <1>3
<1> HIDE DEF m, s
<1>8. Flow(m1, xfer[s], status'[s], out'[s], since[s][m.sURL], ver[m.sURL])
  BY <1>3, <1>4, <1>5, <1>6, <1>7, FlowReturn
<1>9. Flows' /\ ClosedAtRest'
  <2>1. xfer' = [xfer EXCEPT ![s] = xfer[s]] /\ m1.sURL = st[s].sURL
    BY <1>2, <1>3, <1>4 DEF m
  <2> QED  BY <1>2, <1>3, <1>4, <1>7, <1>8, <2>1, FlowsStep
<1>10. Open' = Open  BY <1>2 DEF Open
<1>11. OnlyCurrentWants'
  <2> SUFFICES ASSUME NEW t \in Open
               PROVE  st'[t].fBytesToRead = 0 /\ st'[t].filled = <<>>
    BY <1>10 DEF OnlyCurrentWants
  <2>1. CASE t = s  BY <1>4, <1>7, <2>1
  <2>2. CASE t # s
    BY <1>7, <2>2 DEF Open, s, FlowInv, OnlyCurrentWants
  <2> QED  BY <2>1, <2>2
<1> QED
  BY <1>1, <1>2, <1>9, <1>11
     DEF FlowInv, ReliableServers, Unconditional, NoValidatorStored,
         NoStaleWrite, CurrentWants

LEMMA FlowDelete ==
  ASSUME FlowInv, NEW s \in Stream, Delete(s)
  PROVE  FlowInv'
<1> DEFINE after == Destroyed(st[s])
<1>1. TypeInv'  BY TypeDelete DEF FlowInv
<1>2. /\ cur = None /\ s \in Open /\ s \in Stream
      /\ heap' = after.heap /\ faults' = faults \cup after.bad
      /\ fEasy' = [fEasy EXCEPT ![s] = None]
      /\ st' = [st EXCEPT ![s] = NoMembers]
      /\ xfer' = [xfer EXCEPT ![s] = NoTransfer]
      /\ status' = [status EXCEPT ![s] = "closed"]
      /\ out' = [out EXCEPT ![s] = <<>>]
      /\ since' = [since EXCEPT ![s] = [u \in Url |-> 1]]
      /\ UNCHANGED <<cur, phase, ver>>
  BY DEF Delete, Open, callVars
<1> HIDE DEF after
<1>3. /\ Open' = Open \ {s}
      /\ status'[s] = "closed" /\ out'[s] = <<>> /\ xfer'[s] = NoTransfer
      /\ \A t \in Stream \ {s} :
           /\ st'[t] = st[t] /\ xfer'[t] = xfer[t] /\ status'[t] = status[t]
           /\ out'[t] = out[t] /\ since'[t] = since[t]
  BY <1>2 DEF Open, FlowInv, TypeInv, TypeOK
<1>4. Flows'
  <2> SUFFICES ASSUME NEW t \in Open \ {s}
               PROVE  Flow(st'[t], xfer'[t], status'[t], out'[t],
                           since'[t][st'[t].sURL], ver'[st'[t].sURL])
    BY <1>3 DEF Flows
  <2>1. Flow(st[t], xfer[t], status[t], out[t],
             since[t][st[t].sURL], ver[st[t].sURL])
    BY DEF FlowInv, Flows
  <2>2. t \in Stream \ {s}  BY DEF Open
  <2> QED  BY <1>2, <1>3, <2>1, <2>2
<1>5. ClosedAtRest'  BY <1>3 DEF FlowInv, ClosedAtRest
<1>6. OnlyCurrentWants' /\ CurrentWants'
  <2>1. \A t \in Open \ {s} : t \in Stream \ {s}  BY DEF Open
  <2> QED  BY <1>2, <1>3, <2>1 DEF FlowInv, OnlyCurrentWants, CurrentWants
<1>7. NoValidatorStored'
  BY <1>2, DestroyedKeepsEtags DEF FlowInv, NoValidatorStored, after
<1>8. "stale_write" \notin after.bad
  <2> DEFINE m == st[s]
             o == m.cacheObject
             g == Update(o, ResetState(FinishBytes(heap[o])))
  <2>1. /\ o \in Obj /\ heap \in [Obj -> CacheRecord] /\ m.sURL \in Url
        /\ HttpCache \in [Url -> Obj \cup {None}]
    BY <1>2 DEF FlowInv, TypeInv, TypeOK, StreamsSetUp
  <2>2. g \in [Obj -> CacheRecord]
    <3>1. ResetState(FinishBytes(heap[o])) \in CacheRecord
      BY <2>1, ObjectOps
    <3> QED  BY <2>1, <3>1 DEF Update
  <2>3. Stored(m).bad \subseteq {"iterator"}
    <3>1. Stored(m) = AddCacheObject(g, HttpCache, m.sURL, o)  BY DEF Stored
    <3> HIDE DEF g, m, o
    <3> QED  BY <2>1, <2>2, <3>1, AddCacheObjectType
  <2> HIDE DEF m, o, g
  <2>4. Use(m.cacheObject) \subseteq {"use_after_free"}  BY DEF Use
  <2> QED  BY <2>3, <2>4 DEF Destroyed, after, m
<1>9. NoStaleWrite'  BY <1>2, <1>8 DEF FlowInv, NoStaleWrite
<1> QED
  BY <1>1, <1>4, <1>5, <1>6, <1>7, <1>9
     DEF FlowInv, ReliableServers, Unconditional

LEMMA FlowServerUpdate ==
  ASSUME FlowInv, NEW u \in Url, ServerUpdate(u)
  PROVE  FlowInv'
<1>1. TypeInv'  BY TypeServerUpdate DEF FlowInv
<1>2. /\ ver' = [ver EXCEPT ![u] = @ + 1]
      /\ UNCHANGED <<heap, fEasy, st, xfer, cur, phase, status, out, since,
                     faults>>
  BY DEF ServerUpdate, handlerVars, callVars, clientVars
<1>3. Open' = Open  BY <1>2 DEF Open
<1>4. Flows'
  <2> SUFFICES ASSUME NEW t \in Open
               PROVE  Flow(st[t], xfer[t], status[t], out[t],
                           since[t][st[t].sURL], ver'[st[t].sURL])
    BY <1>2, <1>3 DEF Flows
  <2> DEFINE w == st[t].sURL
             first == since[t][w]
             last == ver[w]
  <2>1. /\ w \in Url /\ first \in Nat /\ last \in Nat /\ ver'[w] \in Nat
        /\ last <= ver'[w]
    BY <1>2 DEF Open, FlowInv, TypeInv, TypeOK, StreamsSetUp, Version
  <2>2. Flow(st[t], xfer[t], status[t], out[t], first, last)
    BY DEF FlowInv, Flows
  <2> HIDE DEF w, first, last
  <2>3. \A v \in first .. last : v \in first .. ver'[w]
    BY <2>1
  <2>4. Flow(st[t], xfer[t], status[t], out[t], first, ver'[w])
    BY <2>1, <2>2, <2>3 DEF Flow
  <2> QED  BY <2>4 DEF w, first
<1> QED
  BY <1>1, <1>2, <1>3, <1>4
     DEF FlowInv, ReliableServers, Unconditional, NoValidatorStored,
         NoStaleWrite, ClosedAtRest, OnlyCurrentWants, CurrentWants

LEMMA FlowStep == FlowInv /\ [Next]_vars => FlowInv'
<1> SUFFICES ASSUME FlowInv, [Next]_vars PROVE FlowInv'
  OBVIOUS
<1>1. CASE UNCHANGED vars
  <2>1. TypeInv'  BY <1>1, TypeStutter DEF FlowInv
  <2> QED
    BY <1>1, <2>1
       DEF vars, FlowInv, ReliableServers, Unconditional, Flows, ClosedAtRest,
           OnlyCurrentWants, CurrentWants, NoValidatorStored, NoStaleWrite, Open
<1>2. ASSUME NEW s \in Stream, NEW u \in Url, NEW mode \in Modes,
             NewStream(s, u, mode)
      PROVE  FlowInv'
  BY <1>2, FlowNewStream
<1>3. ASSUME NEW s \in Stream, NEW n \in 1 .. MaxRead, BeginRead(s, n)
      PROVE  FlowInv'
  BY <1>3, FlowBeginRead
<1>4. ASSUME NEW s \in Stream, Delete(s) PROVE FlowInv'
  BY <1>4, FlowDelete
<1>5. ASSUME NEW t \in Stream, Transfer(t) PROVE FlowInv'
  <2>1. ~Fail(t)  BY DEF Fail, FlowInv, ReliableServers
  <2> QED
    BY <1>5, <2>1, FlowHeader, FlowPiece, FlowComplete DEF Transfer
<1>6. CASE TakeMessage
  BY <1>6, OnlyFinished, FlowMessage DEF TakeMessage
<1>7. CASE PerformAgain  BY <1>7, FlowPerformAgain
<1>8. CASE EndRead  BY <1>8, FlowEndRead
<1>9. ~EndReadFromCache
  <2>1. cur # None => ~st[cur].bStreamFromCache
    BY CurrentStream DEF FlowInv, Flows, Flow
  <2> QED  BY <2>1 DEF EndReadFromCache, FromCache
<1>10. ASSUME NEW u \in Url, ServerUpdate(u) PROVE FlowInv'
  BY <1>10, FlowServerUpdate
<1> QED
  BY <1>1, <1>2, <1>3, <1>4, <1>5, <1>6, <1>7, <1>8, <1>9, <1>10
     DEF Next, ReadStep

\* The streams of an application that asks for every document anew, or whose
\* servers name no versions, on servers that answer every request with the
\* document itself.
Interleaving == ReliableServers /\ Unconditional /\ Spec

LEMMA FlowInvariant == Interleaving => []FlowInv
<1>1. ReliableServers /\ Unconditional /\ Init => FlowInv  BY FlowInit
<1>2. FlowInv /\ [Next]_vars => FlowInv'  BY FlowStep
<1> QED  BY <1>1, <1>2, PTL DEF Interleaving, Spec

\* However the calls of the readers and curl's callbacks interleave, curl
\* writes into no buffer of a readBytes that has returned: the stream that is
\* not being read has fBytesToRead = 0 (writeCallback, HttpStream.cpp).
THEOREM NothingStale == Interleaving => []NoStaleWrite
<1>1. FlowInv => NoStaleWrite  BY DEF FlowInv
<1> QED  BY <1>1, FlowInvariant, PTL

\* The reader has the whole body at its end.
LEMMA FlowWhole == FlowInv => WholeAtEnd
<1> SUFFICES ASSUME FlowInv, NEW s \in Open, status[s] = "eof"
             PROVE  LET u == st[s].sURL
                    IN  \E v \in since[s][u] .. MaxVer : out[s] = Body(u, v)
  BY DEF WholeAtEnd
<1> DEFINE m == st[s]
           x == xfer[s]
           u == m.sURL
<1>1. /\ m \in Members /\ x \in TransferRecord /\ u \in Url
      /\ out[s] \in Seq(Piece) /\ ver[u] \in Version /\ since[s][u] \in Version
  BY DEF Open, FlowInv, TypeInv, TypeOK, StreamsSetUp
<1>2. Flow(m, x, status[s], out[s], since[s][u], ver[u])
  BY DEF FlowInv, Flows
<1>3. x.left = <<>> /\ m.filled = <<>> /\ m.fBuffer = <<>>
  BY <1>2 DEF Flow
<1>4. AllPieces(m, x, out[s]) = out[s]
  BY <1>1, <1>3, ConcatEmptySeq, EmptyPieces DEF AllPieces
<1>5. PICK v \in since[s][u] .. ver[u] : out[s] = Body(u, v)
  BY <1>2, <1>4 DEF Flow
<1>6. v \in since[s][u] .. MaxVer
  BY <1>1, ServerAssumption DEF Version
<1> QED  BY <1>5, <1>6

\* readBytes returns 0 to a reader that has all of one version of its document,
\* and one the server had while the stream was open, whichever stream's
\* readBytes the pieces have arrived in.
THEOREM WholeDocuments == Interleaving => []WholeAtEnd
BY FlowInvariant, FlowWhole, PTL

-----------------------------------------------------------------------------
(***************************************************************************)
(* The refinement: opening, returning from readBytes, closing and          *)
(* publishing are steps of DocumentStream, and all that curl does in       *)
(* between is hidden from the reader.                                      *)
(***************************************************************************)
LEMMA PrefixOfConcat ==
  ASSUME NEW a \in Seq(Piece), NEW b \in Seq(Piece)
  PROVE  /\ a = SubSeq(a \o b, 1, Len(a))
         /\ Len(a) \in Nat /\ Len(a \o b) = Len(a) + Len(b)
<1>1. Len(a) \in Nat /\ Len(b) \in Nat /\ Len(a \o b) = Len(a) + Len(b)
  BY LenProperties, ConcatProperties
<1>2. CASE a = <<>>
  <2>1. Len(a) = 0  BY <1>2, EmptySeq
  <2> QED  BY <1>1, <1>2, <2>1, SubSeqEmpty
<1>3. CASE a # <<>>
  <2>1. Len(a) # 0  BY <1>3, EmptySeq
  <2>2. 1 \in 1 .. Len(a) /\ Len(a) \in 1 .. Len(a)  BY <1>1, <2>1
  <2> QED  BY <1>1, <2>2, SubSeqOfConcat1, SubSeqFull
<1> QED  BY <1>2, <1>3

\* Without redirects a stream delivers the document of its own URL.
Docs == [s \in Stream |-> IF s \in Open THEN st[s].sURL ELSE None]

LEMMA NoHop ==
  ASSUME ReliableServers, NEW open, NEW m, \A s \in open : m[s].sURL \in Url
  PROVE  [s \in Stream |-> IF s \in open THEN Hop(Hop(m[s].sURL)) ELSE None]
           = [s \in Stream |-> IF s \in open THEN m[s].sURL ELSE None]
<1>1. \A u \in Url : Hop(u) = u  BY DEF Hop, ReliableServers
<1>2. \A s \in open : Hop(Hop(m[s].sURL)) = m[s].sURL  BY <1>1
<1> QED  BY <1>2

LEMMA DocsMapped ==
  ASSUME FlowInv, FlowInv'
  PROVE  /\ [s \in Stream |-> IF s \in Open THEN Hop(Hop(st[s].sURL)) ELSE None]
              = Docs
         /\ [s \in Stream |-> IF s \in Open' THEN Hop(Hop(st'[s].sURL)) ELSE None]
              = Docs'
<1>1. ReliableServers  BY DEF FlowInv
<1>2. \A s \in Open : st[s].sURL \in Url
  BY DEF FlowInv, TypeInv, StreamsSetUp
<1>3. \A s \in Open' : st'[s].sURL \in Url
  BY DEF FlowInv, TypeInv, StreamsSetUp
<1> QED  BY <1>1, <1>2, <1>3, NoHop DEF Docs

LEMMA DocumentInit == ReliableServers /\ Init => Document!Init
<1> SUFFICES ASSUME Init PROVE Document!Init
  OBVIOUS
<1>1. Open = {}  BY DEF Init, Open
<1> QED  BY <1>1 DEF Init, Document!Init

LEMMA DocumentStutter ==
  ASSUME FlowInv, FlowInv', Docs' = Docs, UNCHANGED <<status, out, since, ver>>
  PROVE  UNCHANGED Document!vars
BY DocsMapped DEF Document!vars

\* What keeps the streams open and their URLs keeps the documents.
LEMMA DocsKept ==
  ASSUME Open' = Open, \A s \in Open : st'[s].sURL = st[s].sURL
  PROVE  Docs' = Docs
BY DEF Docs

LEMMA DeliversDocument ==
  ASSUME FlowInv, FlowInv', NEW s \in Stream, NEW u, Docs[s] = u, Docs' = Docs,
         status[s] = "open", UNCHANGED <<status, since, ver>>,
         NEW w \in since[s][u] .. ver[u],
         NEW k \in Len(out[s]) + 1 .. Len(Body(u, w)),
         out[s] = SubSeq(Body(u, w), 1, Len(out[s])),
         out' = [out EXCEPT ![s] = SubSeq(Body(u, w), 1, k)]
  PROVE  Document!Deliver(s)
<1>1. Document!Offered(s) = since[s][u] .. ver[u]
  BY DocsMapped DEF Document!Offered
<1>2. [r \in Stream |-> IF r \in Open THEN Hop(Hop(st[r].sURL)) ELSE None][s] = u
  BY DocsMapped
<1>3. [r \in Stream |-> IF r \in Open' THEN Hop(Hop(st'[r].sURL)) ELSE None]
        = [r \in Stream |-> IF r \in Open THEN Hop(Hop(st[r].sURL)) ELSE None]
  BY DocsMapped
<1> QED  BY <1>1, <1>2, <1>3 DEF Document!Deliver

LEMMA TransferKeepsURLs ==
  ASSUME TypeInv, NEW t \in Stream, Transfer(t)
  PROVE  \A s \in Stream : st'[s].sURL = st[s].sURL
<1>1. /\ st \in [Stream -> Members] /\ st[t] \in Members
  BY DEF TypeInv, TypeOK
<1>2. ASSUME NEW m, m.sURL = st[t].sURL, st' = [st EXCEPT ![t] = m]
      PROVE  \A s \in Stream : st'[s].sURL = st[s].sURL
  BY <1>1, <1>2
<1>3. ASSUME NEW n, NEW b
      PROVE  /\ [st[t] EXCEPT !.bStoreCache = b,
                              !.hContent_length_response = n].sURL = st[t].sURL
             /\ [st[t] EXCEPT !.fLocation = b,
                              !.hContent_length_response = n].sURL = st[t].sURL
             /\ [st[t] EXCEPT !.hContent_length_response = n].sURL = st[t].sURL
  BY <1>1 DEF Members
<1>4. ASSUME NEW f \in Framing, HeadOK(t, f)
      PROVE  \E n : st' = [st EXCEPT ![t] = [st[t] EXCEPT !.bStoreCache = TRUE,
                                          !.hContent_length_response = n]]
  BY <1>4 DEF HeadOK
<1>5. ASSUME NEW f \in Framing, HeadRedirect(t, f)
      PROVE  \E n, b : st' = [st EXCEPT ![t] = [st[t] EXCEPT !.fLocation = b,
                                          !.hContent_length_response = n]]
  BY <1>5 DEF HeadRedirect
<1>6. ASSUME NEW f \in Framing, HeadError(t, f)
      PROVE  \E n : st' = [st EXCEPT ![t] =
                             [st[t] EXCEPT !.hContent_length_response = n]]
  BY <1>6 DEF HeadError
<1>7. CASE Header(t)
  BY <1>2, <1>3, <1>4, <1>5, <1>6, <1>7 DEF Header, HeadNotModified
<1>8. CASE Data(t)
  BY <1>1, <1>8 DEF Data, Members
<1>9. CASE Complete(t) \/ Fail(t)
  BY <1>9 DEF Complete, Fail
<1> QED  BY <1>7, <1>8, <1>9 DEF Transfer

LEMMA OpensDocument ==
  ASSUME FlowInv, FlowInv', NEW s \in Stream, NEW u \in Url, NEW mode \in Modes,
         NewStream(s, u, mode)
  PROVE  Document!Open(s, u)
<1>1. PICK h \in Handle, new \in NewAddresses(Lookup(mode # "nocache", u) = None) :
        LET m == SetupConnection(
                   [NoMembers EXCEPT !.sURL = u, !.bUseCache = TRUE],
                   Lookup(mode # "nocache", u), new)
        IN  /\ fEasy' = [fEasy EXCEPT ![s] = h]
            /\ st' = [st EXCEPT ![s] = [m EXCEPT !.bUseCache = (mode = "cache")]]
  BY ZenonT(60) DEF NewStream
<1>2. /\ fEasy[s] = None /\ status' = [status EXCEPT ![s] = "open"]
      /\ since' = [since EXCEPT ![s] = ver] /\ UNCHANGED <<out, ver>>
  BY DEF NewStream
<1>3. /\ fEasy \in [Stream -> Handle \cup {None}] /\ st \in [Stream -> Members]
  BY DEF FlowInv, TypeInv, TypeOK
<1>4. Open' = Open \cup {s} /\ s \notin Open
  BY <1>1, <1>2, <1>3, HandleAssumption DEF Open
<1>5. st'[s].sURL = u /\ \A t \in Stream \ {s} : st'[t] = st[t]
  BY <1>1, <1>3 DEF SetupConnection, NoMembers
<1>6. Docs' = [Docs EXCEPT ![s] = u]
  BY <1>4, <1>5 DEF Docs
<1>7. status[s] = "closed"  BY <1>4 DEF FlowInv, ClosedAtRest
<1> QED  BY <1>2, <1>6, <1>7, DocsMapped DEF Document!Open

\* readBytes returns: a further piece of one version, or the end.
LEMMA ReturnsDocument ==
  ASSUME FlowInv, FlowInv', EndRead
  PROVE  \E s \in Stream : Document!Deliver(s) \/ Document!End(s)
<1> DEFINE s == cur
           m == st[s]
           x == xfer[s]
           u == m.sURL
<1>1. /\ cur # None /\ ReadsEnd
      /\ st' = [st EXCEPT ![s] = [AtRest(m) EXCEPT !.bTransferFinished =
                                TransferFinished(m, m.fTotalBytesRead)]]
      /\ out' = [out EXCEPT ![s] = @ \o m.filled]
      /\ status' = [status EXCEPT ![s] = IF m.filled = <<>> THEN "eof" ELSE "open"]
      /\ UNCHANGED <<fEasy, ver, since>>
  BY DEF EndRead, Return, handlerVars
<1>2. /\ s \in Open /\ s \in Stream /\ m \in Members /\ x \in TransferRecord
      /\ status \in [Stream -> Statuses] /\ out \in [Stream -> Seq(Piece)]
      /\ st \in [Stream -> Members] /\ out[s] \in Seq(Piece) /\ u \in Url
      /\ status[s] = "open" /\ ver[u] \in Version
  BY <1>1, CurrentStream DEF FlowInv, TypeInv, TypeOK, CurrentWants
<1>3. Docs' = Docs
  <2>1. AtRest(m).sURL = m.sURL /\ AtRest(m) \in Members
    BY <1>2, EmptyPieces DEF AtRest, Members
  <2>2. st'[s].sURL = st[s].sURL /\ \A t \in Stream \ {s} : st'[t] = st[t]
    BY <1>1, <1>2, <2>1 DEF Members
  <2>3. Open' = Open /\ Open \subseteq Stream  BY <1>1 DEF Open
  <2> QED  BY <2>2, <2>3, DocsKept
<1>4. Flow(m, x, "open", out[s], since[s][u], ver[u]) /\ Docs[s] = u
  BY <1>2 DEF FlowInv, Flows, Docs
<1>5. /\ m.filled \in Seq(Piece) /\ m.fBuffer \in Seq(Piece)
      /\ x.left \in Seq(Piece)
  BY <1>2 DEF Members, TransferRecord
<1> DEFINE text == out[s]
           more == m.filled
           rest == m.fBuffer \o x.left
<1>6. /\ text \in Seq(Piece) /\ more \in Seq(Piece) /\ rest \in Seq(Piece)
      /\ AllPieces(m, x, text) = text \o (more \o rest)
      /\ more \o rest \in Seq(Piece) /\ text \o more \in Seq(Piece)
  BY <1>2, <1>5, ConcatProperties DEF AllPieces
<1> HIDE DEF rest
<1>7. text \o (more \o rest) = (text \o more) \o rest
  <2>1. \A a, b, c \in Seq(Piece) : (a \o b) \o c = a \o (b \o c)
    BY ConcatAssociative
  <2> QED  BY <1>6, <2>1
<1>8. CASE more # <<>>
  <2>1. PICK v \in since[s][u] .. ver[u] : AllPieces(m, x, text) = Body(u, v)
    <3>1. x.phase # "sent"  BY <1>4, <1>8 DEF Flow
    <3> QED  BY <1>4, <3>1 DEF Flow
  <2> DEFINE n == Len(text \o more)
             body == Body(u, v)
  <2>2. /\ text = SubSeq(body, 1, Len(text))
        /\ text \o more = SubSeq(body, 1, n)
        /\ Len(text) \in Nat /\ Len(more) \in Nat /\ Len(rest) \in Nat
        /\ n = Len(text) + Len(more) /\ Len(body) = n + Len(rest)
    <3>1. body = text \o (more \o rest) /\ body = (text \o more) \o rest
      BY <1>6, <1>7, <2>1
    <3> HIDE DEF text, more, body
    <3>2. \A a, b \in Seq(Piece) :
            /\ a = SubSeq(a \o b, 1, Len(a))
            /\ Len(a) \in Nat /\ Len(a \o b) = Len(a) + Len(b)
      BY PrefixOfConcat
    <3> QED  BY <1>6, <3>1, <3>2
  <2>3. Len(more) # 0  BY <1>6, <1>8, EmptySeq
  <2>4. status' = status /\ out' = [out EXCEPT ![s] = SubSeq(body, 1, n)]
    BY <1>1, <1>2, <1>8, <2>2
  <2> HIDE DEF n, body
  <2>5. n \in Len(text) + 1 .. Len(body)
    <3> HIDE DEF text, more
    <3> QED  BY <2>2, <2>3
  <2>6. /\ v \in since[s][u] .. ver[u]
        /\ n \in Len(out[s]) + 1 .. Len(Body(u, v))
        /\ out[s] = SubSeq(Body(u, v), 1, Len(out[s]))
        /\ out' = [out EXCEPT ![s] = SubSeq(Body(u, v), 1, n)]
    BY <2>1, <2>2, <2>4, <2>5 DEF body
  <2> HIDE DEF m, u, text, more
  <2>7. /\ s \in Stream /\ Docs[s] = u /\ Docs' = Docs /\ status[s] = "open"
        /\ UNCHANGED <<status, since, ver>>
    BY <1>1, <1>2, <1>3, <1>4, <2>4
  <2>8. Document!Deliver(s)
    <3> HIDE DEF s
    <3> QED  BY <2>6, <2>7, DeliversDocument
  <2> QED  BY <1>2, <2>8
<1>9. CASE more = <<>>
  <2>1. x.phase = "done" /\ m.fBuffer = <<>> /\ x.left = <<>>
    BY <1>1, <1>4, <1>9, ReturnsAtEnd DEF Flow
  <2>2. rest = <<>> /\ more \o rest = <<>> /\ text \o <<>> = text
    BY <1>6, <1>9, <2>1, EmptyPieces, ConcatEmptySeq DEF rest
  <2>3. PICK v \in since[s][u] .. ver[u] : text = Body(u, v)
    <3>1. AllPieces(m, x, text) = text
      <4> HIDE DEF text, more
      <4> QED  BY <1>6, <1>9, <2>2
    <3>2. \E v \in since[s][u] .. ver[u] : AllPieces(m, x, text) = Body(u, v)
      BY <1>4, <2>1 DEF Flow
    <3> QED  BY <3>1, <3>2
  <2>4. /\ out' = out /\ status' = [status EXCEPT ![s] = "eof"]
    BY <1>1, <1>2, <1>9, <2>2
  <2>5. \E w \in since[s][u] .. ver[u] : out[s] = Body(u, w)
    BY <2>3
  <2> HIDE DEF m, u, text, more
  <2>6. Document!End(s)
    BY <1>1, <1>2, <1>3, <1>4, <2>4, <2>5, DocsMapped
       DEF Document!End, Document!Offered
  <2> QED  BY <1>2, <2>6
<1> QED  BY <1>8, <1>9

LEMMA ClosesDocument ==
  ASSUME FlowInv, FlowInv', NEW s \in Stream, Delete(s)
  PROVE  Document!Close(s)
<1>1. /\ s \in Open
      /\ fEasy' = [fEasy EXCEPT ![s] = None]
      /\ st' = [st EXCEPT ![s] = NoMembers]
      /\ status' = [status EXCEPT ![s] = "closed"]
      /\ out' = [out EXCEPT ![s] = <<>>]
      /\ since' = [since EXCEPT ![s] = [u \in Url |-> 1]]
      /\ ver' = ver
  BY DEF Delete, Open
<1>2. /\ Open' = Open \ {s} /\ \A t \in Stream \ {s} : st'[t] = st[t]
  BY <1>1 DEF Open, FlowInv, TypeInv, TypeOK
<1>3. Docs' = [Docs EXCEPT ![s] = None]
  BY <1>2 DEF Docs
<1>4. status[s] # "closed"  BY <1>1 DEF FlowInv, Flows, Flow
<1> QED  BY <1>1, <1>3, <1>4, DocsMapped DEF Document!Close

LEMMA DocumentStep ==
  FlowInv /\ FlowInv' /\ [Next]_vars => [Document!Next]_(Document!vars)
<1> SUFFICES ASSUME FlowInv, FlowInv', [Next]_vars
             PROVE  Document!Next \/ UNCHANGED Document!vars
  OBVIOUS
<1>1. CASE UNCHANGED vars
  <2>1. Open' = Open  BY <1>1 DEF vars, Open
  <2>2. Docs' = Docs  BY <1>1, <2>1, DocsKept DEF vars
  <2> QED  BY <1>1, <2>2, DocumentStutter DEF vars
<1>2. ASSUME NEW s \in Stream, NEW u \in Url, NEW mode \in Modes,
             NewStream(s, u, mode)
      PROVE  Document!Next
  BY <1>2, OpensDocument DEF Document!Next
<1>3. ASSUME NEW s \in Stream, Delete(s) PROVE Document!Next
  BY <1>3, ClosesDocument DEF Document!Next
<1>4. CASE EndRead
  BY <1>4, ReturnsDocument DEF Document!Next
<1>5. ASSUME NEW u \in Url, ServerUpdate(u) PROVE Document!Next
  <2>1. /\ UNCHANGED <<fEasy, st, status, out, since>>
        /\ ver[u] < MaxVer /\ ver' = [ver EXCEPT ![u] = @ + 1]
    BY <1>5 DEF ServerUpdate, clientVars
  <2>2. Open' = Open  BY <2>1 DEF Open
  <2>3. Docs' = Docs  BY <2>1, <2>2, DocsKept
  <2>4. Document!Publish(u)
    BY <2>1, <2>3, DocsMapped DEF Document!Publish
  <2> QED  BY <2>4 DEF Document!Next
<1>6. ASSUME NEW s \in Stream, NEW n \in 1 .. MaxRead, BeginRead(s, n)
      PROVE  UNCHANGED Document!vars
  <2>1. UNCHANGED <<fEasy, status, out, since, ver>>
    BY <1>6 DEF BeginRead, clientVars
  <2>2. \A t \in Stream : st'[t].sURL = st[t].sURL
    BY <1>6 DEF BeginRead, FlowInv, TypeInv, TypeOK, Members
  <2>3. Open' = Open /\ Open \subseteq Stream  BY <2>1 DEF Open
  <2> QED  BY <2>1, <2>2, <2>3, DocsKept, DocumentStutter
<1>7. ASSUME NEW t \in Stream, Transfer(t) PROVE UNCHANGED Document!vars
  <2>1. UNCHANGED <<fEasy, status, out, since, ver>>
    BY <1>7 DEF Transfer, Header, Data, Complete, Fail, clientVars
  <2>2. \A s \in Stream : st'[s].sURL = st[s].sURL
    BY <1>7, TransferKeepsURLs DEF FlowInv
  <2>3. Open' = Open /\ Open \subseteq Stream  BY <2>1 DEF Open
  <2> QED  BY <2>1, <2>2, <2>3, DocsKept, DocumentStutter
<1>8. CASE TakeMessage
  <2>1. PICK t \in Stream : TakeFinished(t)
    BY <1>8, OnlyFinished DEF TakeMessage
  <2>2. UNCHANGED <<fEasy, st, status, out, since, ver>>
    BY <2>1 DEF TakeFinished, clientVars
  <2>3. Open' = Open  BY <2>2 DEF Open
  <2> QED  BY <2>2, <2>3, DocsKept, DocumentStutter
<1>9. CASE PerformAgain
  <2>1. UNCHANGED <<fEasy, st, status, out, since, ver>>
    BY <1>9 DEF PerformAgain, clientVars
  <2>2. Open' = Open  BY <2>1 DEF Open
  <2> QED  BY <2>1, <2>2, DocsKept, DocumentStutter
<1>10. ~EndReadFromCache
  <2>1. cur # None => ~st[cur].bStreamFromCache
    BY CurrentStream DEF FlowInv, Flows, Flow
  <2> QED  BY <2>1 DEF EndReadFromCache, FromCache
<1> QED
  BY <1>1, <1>2, <1>3, <1>4, <1>5, <1>6, <1>7, <1>8, <1>9, <1>10
     DEF Next, ReadStep

\* Streams that are read in turns are DocumentStreams: what each reader is
\* given is the next pieces of one version of its document, whatever curl has
\* delivered to whom meanwhile (readBytes, writeCallback, HttpStream.cpp).
THEOREM InterleavedImplements == Interleaving => ImplementsDocument
<1>1. ReliableServers /\ Init => Document!Init  BY DocumentInit
<1>2. FlowInv /\ FlowInv' /\ [Next]_vars => [Document!Next]_(Document!vars)
  BY DocumentStep
<1> QED
  BY <1>1, <1>2, FlowInvariant, PTL
     DEF Interleaving, Spec, ImplementsDocument, Document!Spec

=============================================================================
