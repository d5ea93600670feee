-------------------------- MODULE HttpStreamProofs --------------------------
(***************************************************************************)
(* Theorems about HttpStream, for every value of its constants.            *)
(***************************************************************************)
EXTENDS HttpStream, SequenceTheorems, FiniteSetTheorems, TLAPS

(***************************************************************************)
(* Types of the data operators.                                            *)
(***************************************************************************)
LEMMA BodyType ==
  ASSUME NEW u \in Url, NEW v \in Version
  PROVE  Body(u, v) \in Seq(Piece)
<1>1. BodyLen[u] \in Nat  BY ServerAssumption
<1>2. \A i \in 1 .. BodyLen[u] :
        [url |-> u, version |-> v, n |-> i, form |-> "raw"] \in Piece
  BY <1>1 DEF Piece, Version
<1>3. Body(u, v) \in [1 .. BodyLen[u] -> Piece]  BY <1>2 DEF Body
<1> QED  BY <1>1, <1>3, SeqDef

LEMMA NoiseType ==
  ASSUME NEW u \in Url
  PROVE  Noise(u) \in Seq(Piece)
<1>1. NoiseLen \in Nat  BY ServerAssumption
<1>2. \A i \in 1 .. NoiseLen :
        [url |-> u, version |-> 0, n |-> i, form |-> "raw"] \in Piece
  BY <1>1 DEF Piece
<1>3. Noise(u) \in [1 .. NoiseLen -> Piece]  BY <1>2 DEF Noise
<1> QED  BY <1>1, <1>3, SeqDef

LEMMA EmptyPieces == <<>> \in Seq(Piece)
BY EmptySeq

LEMMA NewObjectType ==
  /\ NewObject \in CacheRecord
  /\ NoObject \in CacheRecord
BY EmptyPieces DEF NewObject, NoObject, CacheRecord, CacheStates

LEMMA ObjectOps ==
  ASSUME NEW o \in CacheRecord
  PROVE  /\ ResetState(o) \in CacheRecord
         /\ ResetBuffer(o) \in CacheRecord
         /\ Prepared(o) \in CacheRecord
         /\ FinishBytes(o) \in CacheRecord
         /\ ReadOpened(o) \in CacheRecord
<1>1. \A p \in CacheRecord : ResetState(p) \in CacheRecord
  BY DEF ResetState, CacheRecord, CacheStates
<1>2. \A p \in CacheRecord : ResetBuffer(p) \in CacheRecord
  BY EmptyPieces DEF ResetBuffer, CacheRecord, CacheStates
<1>3. Prepared(o) \in CacheRecord  BY <1>1, <1>2 DEF Prepared
<1>4. FinishBytes(o) \in CacheRecord
  BY <1>3 DEF FinishBytes, CacheRecord, CacheStates
<1>5. ReadOpened(o) \in CacheRecord
  BY <1>1 DEF ReadOpened, CacheRecord, CacheStates
<1> QED  BY <1>1, <1>2, <1>3, <1>4, <1>5

LEMMA WriteBytesType ==
  ASSUME NEW o \in CacheRecord, NEW data \in Seq(Piece)
  PROVE  WriteBytes(o, data) \in CacheRecord
<1> DEFINE p == Prepared(o)
<1>1. p \in CacheRecord  BY ObjectOps
<1>2. p.zBuffer \o data \in Seq(Piece)
  BY <1>1, ConcatProperties DEF CacheRecord
<1> QED  BY <1>1, <1>2 DEF WriteBytes, CacheRecord, CacheStates

LEMMA ReadOutcomesType ==
  ASSUME NEW o \in CacheRecord, NEW n \in Nat, NEW r \in ReadOutcomes(o, n)
  PROVE  r.data \in Seq(Piece) /\ r.obj \in CacheRecord
<1>1. CASE o.eState = "EMPTY"
  <2>1. ReadOutcomes(o, n) = {[data |-> <<>>, obj |-> o]}
    BY <1>1 DEF ReadOutcomes
  <2>2. r = [data |-> <<>>, obj |-> o]  BY <2>1
  <2> QED  BY <2>2, EmptyPieces
<1>2. CASE o.eState # "EMPTY"
  <2> DEFINE q == ReadOpened(o)
             rest == Len(q.zBuffer) - q.pos
             most == Least(n, rest)
             counts == IF q.ended THEN {most} ELSE 0 .. most
  <2>1. q \in CacheRecord  BY ObjectOps
  <2>2. q.zBuffer \in Seq(Piece) /\ q.pos \in Nat /\ Len(q.zBuffer) \in Nat
    BY <2>1, LenProperties DEF CacheRecord
  <2> HIDE DEF q
  <2>3. PICK k \in counts :
          r = [data |-> SubSeq(q.zBuffer, q.pos + 1, q.pos + k),
               obj  |-> [q EXCEPT !.pos = q.pos + k]]
    BY <1>2 DEF ReadOutcomes, q
  <2>4. k \in Int /\ q.pos + k \in Nat /\ q.pos + k <= q.pos + most
    BY <2>2 DEF Least
  <2>5. \A i \in q.pos + 1 .. q.pos + k : q.zBuffer[i] \in Piece
    <3>1. ASSUME NEW i \in q.pos + 1 .. q.pos + k
          PROVE  i \in 1 .. Len(q.zBuffer)
      BY <2>2, <2>4 DEF Least
    <3> QED  BY <2>2, <3>1, ElementOfSeq
  <2>6. SubSeq(q.zBuffer, q.pos + 1, q.pos + k) \in Seq(Piece)
    BY <2>2, <2>4, <2>5, SubSeqProperties
  <2>7. [q EXCEPT !.pos = q.pos + k] \in CacheRecord
    BY <2>1, <2>4 DEF CacheRecord
  <2> QED  BY <2>3, <2>6, <2>7
<1> QED  BY <1>1, <1>2

\* Taking back a message leaves a queue of messages.
LEMMA WithoutType ==
  ASSUME NEW S, NEW queue \in Seq(S), NEW s
  PROVE  Without(queue, s) \in Seq(S)
<1>1. CASE \E i \in DOMAIN queue : queue[i] = s
  <2> DEFINE i == CHOOSE i \in DOMAIN queue : queue[i] = s
  <2>1. i \in 1 .. Len(queue)  BY <1>1, LenProperties
  <2>2. Len(queue) \in Nat  BY LenProperties
  <2> HIDE DEF i
  <2>3. SubSeq(queue, 1, i - 1) \in Seq(S)
    <3>1. \A j \in 1 .. i - 1 : queue[j] \in S
      BY <2>1, <2>2, ElementOfSeq
    <3> QED  BY <2>1, <3>1, SubSeqProperties
  <2>4. SubSeq(queue, i + 1, Len(queue)) \in Seq(S)
    <3>1. \A j \in i + 1 .. Len(queue) : queue[j] \in S
      BY <2>1, <2>2, ElementOfSeq
    <3> QED  BY <2>1, <2>2, <3>1, SubSeqProperties
  <2>5. Without(queue, s) =
          SubSeq(queue, 1, i - 1) \o SubSeq(queue, i + 1, Len(queue))
    BY <1>1 DEF Without, RemoveAt, i
  <2> QED  BY <2>3, <2>4, <2>5, ConcatProperties
<1>2. CASE ~\E i \in DOMAIN queue : queue[i] = s
  BY <1>2 DEF Without
<1> QED  BY <1>1, <1>2

\* addCacheObject and checkCacheSize keep the shape of heap and map, and add
\* at most the iterator fault.
LEMMA AddCacheObjectType ==
  ASSUME NEW h \in [Obj -> CacheRecord], NEW c \in [Url -> Obj \cup {None}],
         NEW u \in Url, NEW item \in Obj
  PROVE  /\ AddCacheObject(h, c, u, item).heap \in [Obj -> CacheRecord]
         /\ AddCacheObject(h, c, u, item).cache \in [Url -> Obj \cup {None}]
         /\ AddCacheObject(h, c, u, item).bad \subseteq {"iterator"}
<1>1. ASSUME NEW g \in [Obj -> CacheRecord],
             NEW d \in [Url -> Obj \cup {None}]
      PROVE  /\ CheckCacheSize(g, d, item).heap \in [Obj -> CacheRecord]
             /\ CheckCacheSize(g, d, item).cache \in [Url -> Obj \cup {None}]
             /\ CheckCacheSize(g, d, item).bad \subseteq {"iterator"}
  BY <1>1, NewObjectType DEF CheckCacheSize
<1>2. [h EXCEPT ![item] = NoObject] \in [Obj -> CacheRecord]
  BY NewObjectType
<1>3. [h EXCEPT ![c[u]] = NoObject] \in [Obj -> CacheRecord]
  BY NewObjectType
<1>4. [c EXCEPT ![u] = item] \in [Url -> Obj \cup {None}]
  OBVIOUS
<1> QED  BY <1>1, <1>2, <1>3, <1>4 DEF AddCacheObject

-----------------------------------------------------------------------------
(***************************************************************************)
(* Type correctness.  The types alone are not inductive: what a stream     *)
(* that exists works on, and that readBytes runs on such a stream, is      *)
(* needed to know that an object is looked up where there are objects.     *)
(***************************************************************************)
StreamsSetUp ==
  \A s \in Open : st[s].sURL \in Url /\ st[s].cacheObject \in Obj

CurrentExists == cur # None => cur \in Open

TypeInv == TypeOK /\ StreamsSetUp /\ CurrentExists

LEMMA NoMembersType == NoMembers \in Members
BY EmptyPieces DEF NoMembers, Members

LEMMA NoTransferType == NoTransfer \in TransferRecord
BY EmptyPieces
   DEF NoTransfer, TransferRecord, TransferPhases, Codes, Validator

LEMMA RequestType ==
  ASSUME NEW cond \in Version \cup {None}, NEW code \in {0, 302}
  PROVE  Request(cond, code) \in TransferRecord
BY EmptyPieces
   DEF Request, NoTransfer, TransferRecord, TransferPhases, Codes, Validator

\* A transfer that goes on or is announced as done.
LEMMA AfterType ==
  ASSUME NEW x \in TransferRecord
  PROVE  After(x) \in TransferRecord
BY DEF After, TransferRecord, TransferPhases

\* A response head changes three fields of the transfer.
LEMMA ResponseType ==
  ASSUME NEW x \in TransferRecord, NEW code \in Codes,
         NEW left \in Seq(Piece), NEW sized \in BOOLEAN
  PROVE  Response(x, code, left, sized) \in TransferRecord
BY DEF Response, TransferRecord

LEMMA AnnounceType ==
  ASSUME msgs \in Seq(Stream), NEW t \in Stream, NEW x, Announce(t, x)
  PROVE  msgs' \in Seq(Stream)
BY AppendProperties DEF Announce

LEMMA LookupType ==
  ASSUME TypeOK, NEW wanted \in BOOLEAN, NEW u \in Url
  PROVE  Lookup(wanted, u) \in Obj \cup {None}
BY DEF Lookup, GetCacheObject, TypeOK

LEMMA SetupConnectionType ==
  ASSUME TypeOK, NEW m \in Members, NEW pCache \in Obj \cup {None},
         NEW new \in Obj \cup {None}, m.bUseCache /\ pCache = None => new \in Obj
  PROVE  /\ SetupConnection(m, pCache, new) \in Members
         /\ SetupConnection(m, pCache, new).sURL = m.sURL
         /\ SetupConnection(m, pCache, new).bUseCache = m.bUseCache
         /\ m.bUseCache \/ m.cacheObject \in Obj
            => SetupConnection(m, pCache, new).cacheObject \in Obj
         /\ RequestHeaders(m, pCache) \in Version \cup {None}
<1>1. pCache # None => heap[pCache] \in CacheRecord
  BY DEF TypeOK
<1>2. Live(pCache) => heap[pCache].pEtag \in Version \cup {None}
                      /\ heap[pCache].pLocation \in Url \cup {None}
  BY <1>1 DEF Live, CacheRecord
<1>3. RequestHeaders(m, pCache) \in Version \cup {None}
  BY <1>2 DEF RequestHeaders
<1>4. CASE ~m.bUseCache
  BY <1>3, <1>4 DEF SetupConnection, Members
<1>5. CASE m.bUseCache /\ pCache = None
  BY <1>3, <1>5 DEF SetupConnection, Members
<1>6. CASE m.bUseCache /\ pCache # None
  <2> DEFINE loc == IF Live(pCache) THEN heap[pCache].pLocation ELSE None
  <2>1. loc \in Url \cup {None}  BY <1>2
  <2>2. SetupConnection(m, pCache, new)
          = [m EXCEPT !.cacheObject = pCache, !.fLocation = loc]
    BY <1>6 DEF SetupConnection
  <2> HIDE DEF loc
  <2> QED  BY <1>3, <1>6, <2>1, <2>2 DEF Members
<1> QED  BY <1>4, <1>5, <1>6

LEMMA TypeInit == Init => TypeInv
<1> SUFFICES ASSUME Init PROVE TypeInv  OBVIOUS
<1>1. 1 \in Version  BY ServerAssumption DEF Version
<1>2. <<>> \in Seq(Handle) /\ <<>> \in Seq(Stream) /\ <<>> \in Seq(Piece)
  BY EmptySeq
<1>3. TypeOK
  BY <1>1, <1>2, NewObjectType, NoMembersType, NoTransferType
     DEF Init, HandlerInit, TypeOK
<1>4. StreamsSetUp /\ CurrentExists
  BY DEF Init, StreamsSetUp, CurrentExists, Open
<1> QED  BY <1>3, <1>4 DEF TypeInv

LEMMA TypeNewStream ==
  ASSUME TypeInv, NEW s \in Stream, NEW u \in Url, NEW mode,
         NewStream(s, u, mode)
  PROVE  TypeInv'
<1> DEFINE wanted == mode # "nocache"
           pCache == Lookup(wanted, u)
<1>1. PICK h \in Handle, new \in NewAddresses(pCache = None) :
        LET m == SetupConnection(
                   [NoMembers EXCEPT !.sURL = u, !.bUseCache = TRUE],
                   pCache, new)
        IN
        /\ HandleToUse(Held, h)
        /\ fEasy' = [fEasy EXCEPT ![s] = h]
        /\ freeHandles' = HandlesLeft
        /\ heap' = HeapWith(new)
        /\ st' = [st EXCEPT ![s] = [m EXCEPT !.bUseCache = (mode = "cache")]]
        /\ xfer' = [xfer EXCEPT ![s] = Request(RequestHeaders(m, pCache), 0)]
  BY DEF NewStream
<1> DEFINE m0 == [NoMembers EXCEPT !.sURL = u, !.bUseCache = TRUE]
           m  == SetupConnection(m0, pCache, new)
           m1 == [m EXCEPT !.bUseCache = (mode = "cache")]
<1>2. m0 \in Members /\ m0.bUseCache /\ m0.sURL = u
  BY NoMembersType DEF Members
<1>3. pCache \in Obj \cup {None}
  BY LookupType DEF TypeInv
<1>4. new \in Obj \cup {None} /\ (pCache = None => new \in Obj)
  BY <1>1 DEF NewAddresses, Unused
<1> HIDE DEF m0, pCache
<1>5. /\ m \in Members /\ m.sURL = u /\ m.cacheObject \in Obj /\ m.bUseCache
  BY <1>2, <1>3, <1>4, SetupConnectionType DEF TypeInv
<1>6. RequestHeaders(m, pCache) \in Version \cup {None}
  BY <1>3, <1>4, <1>5, SetupConnectionType DEF TypeInv
<1>7. m1 \in Members /\ m1.sURL = u /\ m1.cacheObject \in Obj
  BY <1>5 DEF Members
<1>8. Request(RequestHeaders(m, pCache), 0) \in TransferRecord
  BY <1>6, RequestType
<1>9. st' = [st EXCEPT ![s] = m1]
      /\ xfer' = [xfer EXCEPT ![s] = Request(RequestHeaders(m, pCache), 0)]
  BY <1>1 DEF m0, pCache
<1> HIDE DEF m, m1
<1>10. heap' \in [Obj -> CacheRecord]
  BY <1>1, NewObjectType DEF HeapWith, TypeInv, TypeOK
<1>11. freeHandles' \in Seq(Handle)
  BY <1>1, HeadTailProperties DEF HandlesLeft, TypeInv, TypeOK
<1>12. /\ UNCHANGED <<HttpCache, msgs, cur, phase, ver, out>>
       /\ status' = [status EXCEPT ![s] = "open"]
       /\ since' = [since EXCEPT ![s] = ver]
       /\ faults' = faults \cup UseOfEntry(wanted, u)
       /\ cur = None
  BY DEF NewStream, callVars
<1>13. UseOfEntry(wanted, u) \subseteq Undefined
  BY DEF UseOfEntry, Use, Undefined
<1>14. TypeOK'
  <2>1. st' \in [Stream -> Members]  BY <1>7, <1>9 DEF TypeInv, TypeOK
  <2>2. xfer' \in [Stream -> TransferRecord]
    BY <1>8, <1>9 DEF TypeInv, TypeOK
  <2>3. fEasy' \in [Stream -> Handle \cup {None}]
    BY <1>1 DEF TypeInv, TypeOK
  <2>4. /\ status' \in [Stream -> {"closed", "open", "eof", "error"}]
        /\ since' \in [Stream -> [Url -> Version]]
        /\ faults' \subseteq Undefined \cup {"leak"}
    BY <1>12, <1>13 DEF TypeInv, TypeOK
  <2> QED
    BY <1>10, <1>11, <1>12, <2>1, <2>2, <2>3, <2>4 DEF TypeInv, TypeOK
<1>15. StreamsSetUp'
  BY <1>1, <1>7, <1>9 DEF TypeInv, TypeOK, StreamsSetUp, Open
<1>16. CurrentExists'
  BY <1>12 DEF CurrentExists
<1> QED  BY <1>14, <1>15, <1>16 DEF TypeInv

LEMMA TypeBeginRead ==
  ASSUME TypeInv, NEW s \in Stream, NEW n \in 1 .. MaxRead, BeginRead(s, n)
  PROVE  TypeInv'
<1> DEFINE m    == st[s]
           k    == IF m.bStreamFromCache THEN 0 ELSE Least(n, Len(m.fBuffer))
           m1   == [m EXCEPT !.maxToRead = n,
                       !.fBytesToRead = n - k,
                       !.filled = SubSeq(m.fBuffer, 1, k),
                       !.fBuffer = SubSeq(m.fBuffer, k + 1, Len(m.fBuffer)),
                       !.fTotalBytesRead = m.fTotalBytesRead + k]
<1>1. m \in Members /\ m.fBuffer \in Seq(Piece) /\ m.fTotalBytesRead \in Nat
  BY DEF TypeInv, TypeOK, Members
<1>2. Len(m.fBuffer) \in Nat  BY <1>1, LenProperties
<1>3. n \in Nat  BY ClientAssumption
<1>4. k \in Nat /\ k <= n /\ k <= Len(m.fBuffer)
  BY <1>2, <1>3 DEF Least
<1>5. /\ SubSeq(m.fBuffer, 1, k) \in Seq(Piece)
      /\ SubSeq(m.fBuffer, k + 1, Len(m.fBuffer)) \in Seq(Piece)
  <2>1. \A i \in 1 .. Len(m.fBuffer) : m.fBuffer[i] \in Piece
    BY <1>1, ElementOfSeq
  <2>2. \A i \in 1 .. k : m.fBuffer[i] \in Piece
    BY <1>2, <1>4, <2>1
  <2>3. \A i \in k + 1 .. Len(m.fBuffer) : m.fBuffer[i] \in Piece
    BY <1>2, <1>4, <2>1
  <2> QED  BY <1>2, <1>4, <2>2, <2>3, SubSeqProperties
<1>6. st' = [st EXCEPT ![s] = m1] /\ cur' = s
      /\ phase' \in {"return", "perform"} /\ fEasy[s] # None
      /\ UNCHANGED <<heap, HttpCache, freeHandles, fEasy, xfer, msgs, ver,
                     status, out, since, faults>>
  BY DEF BeginRead, handlerVars, clientVars
<1>7. m1 \in Members /\ m1.sURL = m.sURL /\ m1.cacheObject = m.cacheObject
  <2> DEFINE left == n - k
             total == m.fTotalBytesRead + k
             head == SubSeq(m.fBuffer, 1, k)
             tail == SubSeq(m.fBuffer, k + 1, Len(m.fBuffer))
  <2>1. left \in Nat /\ total \in Nat
        /\ head \in Seq(Piece) /\ tail \in Seq(Piece)
    BY <1>1, <1>3, <1>4, <1>5
  <2>2. m1 = [m EXCEPT !.maxToRead = n, !.fBytesToRead = left,
                       !.filled = head, !.fBuffer = tail,
                       !.fTotalBytesRead = total]
    OBVIOUS
  <2> HIDE DEF left, total, head, tail, m, m1
  <2> QED  BY <1>1, <1>3, <2>1, <2>2 DEF Members
<1> HIDE DEF k, m1
<1>8. TypeOK'  BY <1>6, <1>7 DEF TypeInv, TypeOK
<1>9. StreamsSetUp' /\ CurrentExists'
  BY <1>6, <1>7 DEF TypeInv, TypeOK, StreamsSetUp, CurrentExists, Open
<1> QED  BY <1>8, <1>9 DEF TypeInv

(***************************************************************************)
(* The steps of curl.                                                      *)
(***************************************************************************)
\* What every step of a transfer leaves alone, and all it may do.
LEMMA TypeTransferStep ==
  ASSUME TypeInv, NEW t \in Stream, NEW m \in Members, NEW x \in TransferRecord,
         NEW g \in [Obj -> CacheRecord], NEW bad \in SUBSET Undefined,
         m.sURL = st[t].sURL, m.cacheObject = st[t].cacheObject,
         st' = [st EXCEPT ![t] = m],
         xfer' = [xfer EXCEPT ![t] = x],
         msgs' \in Seq(Stream), heap' = g, faults' = faults \cup bad,
         UNCHANGED <<HttpCache, freeHandles, fEasy, callVars, ver, clientVars>>
  PROVE  TypeInv'
<1>1. TypeOK'
  <2>1. st' \in [Stream -> Members]  BY DEF TypeInv, TypeOK
  <2>2. xfer' \in [Stream -> TransferRecord]  BY DEF TypeInv, TypeOK
  <2> QED  BY <2>1, <2>2 DEF TypeInv, TypeOK, callVars, clientVars
<1>2. StreamsSetUp' /\ CurrentExists'
  BY DEF TypeInv, TypeOK, StreamsSetUp, CurrentExists, Open, callVars
<1> QED  BY <1>1, <1>2 DEF TypeInv

\* What is known of a stream whose transfer is running.
LEMMA RunningStream ==
  ASSUME TypeInv, NEW t \in Stream, Performing(t)
  PROVE  /\ t \in Open /\ st[t] \in Members /\ xfer[t] \in TransferRecord
         /\ st[t].sURL \in Url /\ st[t].cacheObject \in Obj
         /\ ver[st[t].sURL] \in Version
         /\ heap[st[t].cacheObject] \in CacheRecord
         /\ heap \in [Obj -> CacheRecord]
         /\ msgs \in Seq(Stream)
         /\ st = [st EXCEPT ![t] = st[t]]
BY DEF TypeInv, TypeOK, StreamsSetUp, Performing, Running, Open

LEMMA TypeHeader ==
  ASSUME TypeInv, NEW t \in Stream, Header(t)
  PROVE  TypeInv'
<1> DEFINE m == st[t]
           u == m.sURL
           o == m.cacheObject
<1>1. Performing(t)
      /\ UNCHANGED <<HttpCache, freeHandles, fEasy, callVars, ver, clientVars>>
  BY DEF Header
<1>2. /\ m \in Members /\ xfer[t] \in TransferRecord
      /\ u \in Url /\ o \in Obj /\ ver[u] \in Version
      /\ heap[o] \in CacheRecord /\ heap \in [Obj -> CacheRecord]
      /\ msgs \in Seq(Stream) /\ st = [st EXCEPT ![t] = m]
  BY <1>1, RunningStream
<1>3. /\ BodyLen[u] \in Nat /\ NoiseLen \in Nat
      /\ Target[u] \in Url \cup {None}
      /\ m.hContent_length_response \in Nat
  BY <1>2, ServerAssumption DEF Members
<1>4. Body(u, ver[u]) \in Seq(Piece) /\ Noise(u) \in Seq(Piece)
  BY <1>2, BodyType, NoiseType
<1>5. Use(o) \subseteq Undefined  BY DEF Use, Undefined
<1> HIDE DEF m, u, o
<1>6. ASSUME NEW f \in Framing, HeadOK(t, f)
      PROVE  TypeInv'
  <2> DEFINE sent == CASE f = "length"  -> BodyLen[u]
                       [] f = "encoded" -> BodyLen[u] - 1
                       [] OTHER         -> m.hContent_length_response
             x  == Response(xfer[t], 200, Body(u, ver[u]), f # "chunked")
             m1 == [m EXCEPT !.bStoreCache = TRUE,
                             !.hContent_length_response = sent]
             g  == IF SetsEtag(m) /\ Live(o)
                   THEN [heap EXCEPT ![o].pEtag = ver[u]] ELSE heap
             bad == IF SetsEtag(m) THEN Use(o) ELSE {}
  <2>1. /\ BodyLen[u] > 0 \/ f # "encoded"
        /\ st' = [st EXCEPT ![t] = m1]
        /\ heap' = g
        /\ faults' = faults \cup bad
        /\ xfer' = [xfer EXCEPT ![t] = After(x)]
        /\ Announce(t, x)
    BY <1>6 DEF HeadOK, m, u, o
  <2>2. sent \in Nat  BY <1>3, <2>1
  <2>3. x \in TransferRecord
    <3>1. 200 \in Codes /\ (f # "chunked") \in BOOLEAN  BY DEF Codes
    <3> QED  BY <1>2, <1>4, <3>1, ResponseType
  <2>4. After(x) \in TransferRecord  BY <2>3, AfterType
  <2>5. msgs' \in Seq(Stream)  BY <1>2, <2>1, AnnounceType
  <2>6. g \in [Obj -> CacheRecord]
    BY <1>2 DEF CacheRecord
  <2>7. bad \subseteq Undefined  BY <1>5
  <2> HIDE DEF sent, x, g, bad
  <2>8. m1 \in Members /\ m1.sURL = m.sURL /\ m1.cacheObject = m.cacheObject
    BY <1>2, <2>2 DEF Members
  <2> HIDE DEF m1
  <2> QED
    BY <1>1, <2>1, <2>4, <2>5, <2>6, <2>7, <2>8, TypeTransferStep DEF m
<1>7. ASSUME HeadNotModified(t)
      PROVE  TypeInv'
  <2> DEFINE x   == Response(xfer[t], 304, <<>>, TRUE)
             g   == heap
             bad == {}
  <2>1. /\ st' = [st EXCEPT ![t] = m] /\ heap' = g
        /\ faults' = faults \cup bad
        /\ xfer' = [xfer EXCEPT ![t] = After(x)]
        /\ Announce(t, x)
    BY <1>2, <1>7 DEF HeadNotModified
  <2>2. x \in TransferRecord
    <3>1. 304 \in Codes /\ TRUE \in BOOLEAN /\ <<>> \in Seq(Piece)
      BY EmptyPieces DEF Codes
    <3> QED  BY <1>2, <3>1, ResponseType
  <2>3. After(x) \in TransferRecord /\ msgs' \in Seq(Stream)
    BY <1>2, <2>1, <2>2, AfterType, AnnounceType
  <2>4. g \in [Obj -> CacheRecord] /\ bad \subseteq Undefined  BY <1>2
  <2> HIDE DEF x, g, bad
  <2> QED  BY <1>1, <1>2, <2>1, <2>3, <2>4, TypeTransferStep DEF m
<1>8. ASSUME NEW f \in Framing, HeadRedirect(t, f)
      PROVE  TypeInv'
  <2> DEFINE sent == IF f = "length" THEN NoiseLen
                     ELSE m.hContent_length_response
             x  == Response(xfer[t], 302, Noise(u), f # "chunked")
             m1 == [m EXCEPT !.fLocation = Target[u],
                             !.hContent_length_response = sent]
             g  == IF m.bUseCache /\ Live(o)
                   THEN [heap EXCEPT ![o].pLocation = Target[u]] ELSE heap
             bad == IF m.bUseCache THEN Use(o) ELSE {}
  <2>1. /\ st' = [st EXCEPT ![t] = m1]
        /\ heap' = g
        /\ faults' = faults \cup bad
        /\ xfer' = [xfer EXCEPT ![t] = After(x)]
        /\ Announce(t, x)
    BY <1>8 DEF HeadRedirect, m, u, o
  <2>2. sent \in Nat  BY <1>3
  <2>3. x \in TransferRecord
    <3>1. 302 \in Codes /\ (f # "chunked") \in BOOLEAN  BY DEF Codes
    <3> QED  BY <1>2, <1>4, <3>1, ResponseType
  <2>4. After(x) \in TransferRecord  BY <2>3, AfterType
  <2>5. msgs' \in Seq(Stream)  BY <1>2, <2>1, AnnounceType
  <2>6. g \in [Obj -> CacheRecord]
    BY <1>2, <1>3 DEF CacheRecord
  <2>7. bad \subseteq Undefined  BY <1>5
  <2> HIDE DEF sent, x, g, bad
  <2>8. m1 \in Members /\ m1.sURL = m.sURL /\ m1.cacheObject = m.cacheObject
    BY <1>2, <1>3, <2>2 DEF Members
  <2> HIDE DEF m1
  <2> QED
    BY <1>1, <2>1, <2>4, <2>5, <2>6, <2>7, <2>8, TypeTransferStep DEF m
<1>9. ASSUME NEW f \in Framing, HeadError(t, f)
      PROVE  TypeInv'
  <2> DEFINE sent == IF f = "length" THEN NoiseLen
                     ELSE m.hContent_length_response
             x  == Response(xfer[t], 404, Noise(u), f # "chunked")
             m1 == [m EXCEPT !.hContent_length_response = sent]
             g   == heap
             bad == {}
  <2>1. /\ st' = [st EXCEPT ![t] = m1]
        /\ heap' = g
        /\ faults' = faults \cup bad
        /\ xfer' = [xfer EXCEPT ![t] = After(x)]
        /\ Announce(t, x)
    BY <1>2, <1>9 DEF HeadError, m, u
  <2>2. sent \in Nat  BY <1>3
  <2>3. x \in TransferRecord
    <3>1. 404 \in Codes  BY DEF Codes
    <3> QED  BY <1>2, <1>4, <3>1, ResponseType, ZenonT(20)
  <2>4. After(x) \in TransferRecord  BY <2>3, AfterType
  <2>5. msgs' \in Seq(Stream)  BY <1>2, <2>1, AnnounceType
  <2>7. g \in [Obj -> CacheRecord] /\ bad \subseteq Undefined  BY <1>2
  <2> HIDE DEF sent, x, g, bad
  <2>6. m1 \in Members /\ m1.sURL = m.sURL /\ m1.cacheObject = m.cacheObject
    BY <1>2, <2>2 DEF Members
  <2> HIDE DEF m1
  <2> QED
    BY <1>1, <2>1, <2>4, <2>5, <2>6, <2>7, TypeTransferStep DEF m
<1> QED  BY <1>6, <1>7, <1>8, <1>9 DEF Header

LEMMA TypeData ==
  ASSUME TypeInv, NEW t \in Stream, Data(t)
  PROVE  TypeInv'
<1> DEFINE m == st[t]
           p == Head(xfer[t].left)
           o == m.cacheObject
           x == [xfer[t] EXCEPT !.left = Tail(@)]
           m1 == IF HasRoom(m)
                 THEN [m EXCEPT !.filled = Append(@, p),
                                !.fBytesToRead = @ - 1,
                                !.fTotalBytesRead = @ + 1]
                 ELSE [m EXCEPT !.fBuffer = Append(@, p)]
           g == IF Compresses(m) /\ Live(o)
                THEN [heap EXCEPT ![o] = WriteBytes(@, <<p>>)] ELSE heap
           bad == (IF Compresses(m) THEN Use(o) ELSE {})
                    \cup (IF HasRoom(m) /\ t # cur THEN {"stale_write"} ELSE {})
<1>1. /\ Performing(t) /\ xfer[t].left # <<>>
      /\ st' = [st EXCEPT ![t] = m1] /\ heap' = g
      /\ faults' = faults \cup bad
      /\ xfer' = [xfer EXCEPT ![t] = After(x)] /\ Announce(t, x)
      /\ UNCHANGED <<HttpCache, freeHandles, fEasy, callVars, ver, clientVars>>
  BY DEF Data
<1>2. /\ m \in Members /\ xfer[t] \in TransferRecord /\ o \in Obj
      /\ heap[o] \in CacheRecord /\ heap \in [Obj -> CacheRecord]
      /\ msgs \in Seq(Stream)
  BY <1>1, RunningStream
<1>3. xfer[t].left \in Seq(Piece) /\ xfer[t].left # <<>>
  BY <1>1, <1>2 DEF TransferRecord
<1>4. p \in Piece /\ Tail(xfer[t].left) \in Seq(Piece)
  BY <1>3, HeadTailProperties
<1>5. x \in TransferRecord
  BY <1>2, <1>4 DEF TransferRecord
<1>6. After(x) \in TransferRecord /\ msgs' \in Seq(Stream)
  BY <1>1, <1>2, <1>5, AfterType, AnnounceType
<1> HIDE DEF p, x
<1>7. <<p>> \in Seq(Piece)  BY <1>4
<1>8. g \in [Obj -> CacheRecord]
  <2>1. WriteBytes(heap[o], <<p>>) \in CacheRecord
    BY <1>2, <1>7, WriteBytesType
  <2> QED  BY <1>2, <2>1
<1>9. bad \subseteq Undefined  BY DEF Use, Undefined
<1> HIDE DEF g, bad, o
<1>10. m1 \in Members /\ m1.sURL = m.sURL /\ m1.cacheObject = m.cacheObject
  <2> HIDE DEF m
  <2>1. CASE HasRoom(m)
    <3> DEFINE filled == Append(m.filled, p)
               room   == m.fBytesToRead - 1
               total  == m.fTotalBytesRead + 1
    <3>1. /\ m.filled \in Seq(Piece) /\ m.fBytesToRead \in Nat
          /\ m.fTotalBytesRead \in Nat /\ m.fBytesToRead > 0
      BY <1>2, <2>1 DEF Members, HasRoom
    <3>2. filled \in Seq(Piece) /\ room \in Nat /\ total \in Nat
      BY <1>4, <3>1, AppendProperties
    <3>3. m1 = [m EXCEPT !.filled = filled, !.fBytesToRead = room,
                         !.fTotalBytesRead = total]
      BY <2>1
    <3> HIDE DEF filled, room, total, m1
    <3> QED  BY <1>2, <3>2, <3>3 DEF Members
  <2>2. CASE ~HasRoom(m)
    <3> DEFINE kept == Append(m.fBuffer, p)
    <3>1. kept \in Seq(Piece)
      BY <1>2, <1>4, AppendProperties DEF Members
    <3>2. m1 = [m EXCEPT !.fBuffer = kept]  BY <2>2
    <3> HIDE DEF kept, m1
    <3> QED  BY <1>2, <3>1, <3>2 DEF Members
  <2> QED  BY <2>1, <2>2
<1> HIDE DEF m1
<1> QED
  BY <1>1, <1>6, <1>8, <1>9, <1>10, TypeTransferStep

LEMMA TypeComplete ==
  ASSUME TypeInv, NEW t \in Stream, Complete(t) \/ Fail(t)
  PROVE  TypeInv'
<1>1. /\ Performing(t)
      /\ UNCHANGED <<heap, HttpCache, freeHandles, fEasy, st, callVars, ver,
                     clientVars, faults>>
      /\ msgs' = Append(msgs, t)
  BY DEF Complete, Fail, handlerVars
<1>2. \E x \in TransferRecord : xfer' = [xfer EXCEPT ![t] = x]
  <2>1. xfer[t] \in TransferRecord  BY <1>1, RunningStream
  <2>2. CASE Complete(t)
    <3> DEFINE x == [xfer[t] EXCEPT !.phase = "done"]
    <3>1. x \in TransferRecord
      BY <2>1 DEF TransferRecord, TransferPhases
    <3>2. xfer' = [xfer EXCEPT ![t] = x]  BY <2>2 DEF Complete
    <3> QED  BY <3>1, <3>2
  <2>3. CASE Fail(t)
    <3> DEFINE x == [xfer[t] EXCEPT !.phase = "done", !.ok = FALSE]
    <3>1. x \in TransferRecord
      BY <2>1 DEF TransferRecord, TransferPhases
    <3>2. xfer' = [xfer EXCEPT ![t] = x]
      BY <2>3 DEF Fail, TypeInv, TypeOK
    <3> QED  BY <3>1, <3>2
  <2> QED  BY <2>2, <2>3
<1>3. xfer' \in [Stream -> TransferRecord] /\ msgs' \in Seq(Stream)
  BY <1>1, <1>2, AppendProperties DEF TypeInv, TypeOK
<1>4. TypeOK'
  BY <1>1, <1>3 DEF TypeInv, TypeOK, callVars, clientVars
<1>5. StreamsSetUp' /\ CurrentExists'
  BY <1>1 DEF TypeInv, StreamsSetUp, CurrentExists, Open, callVars
<1> QED  BY <1>4, <1>5 DEF TypeInv

(***************************************************************************)
(* The steps of readBytes itself.                                          *)
(***************************************************************************)
Statuses == {"closed", "open", "eof", "error"}

LEMMA TypeCurrentStep ==
  ASSUME TypeInv, cur # None,
         NEW m \in Members, NEW x \in TransferRecord,
         NEW g \in [Obj -> CacheRecord],
         NEW bad \in SUBSET (Undefined \cup {"leak"}),
         m.sURL \in Url, m.cacheObject \in Obj,
         st' = [st EXCEPT ![cur] = m], xfer' = [xfer EXCEPT ![cur] = x],
         msgs' \in Seq(Stream), heap' = g, faults' = faults \cup bad,
         cur' \in {cur, None},
         phase' \in {"outside", "perform", "messages", "return"},
         out' \in [Stream -> Seq(Piece)], status' \in [Stream -> Statuses],
         UNCHANGED <<HttpCache, freeHandles, fEasy, ver, since>>
  PROVE  TypeInv'
<1>1. cur \in Open /\ cur \in Stream
  BY DEF TypeInv, CurrentExists, Open
<1>2. TypeOK'
  <2>1. st' \in [Stream -> Members]  BY <1>1 DEF TypeInv, TypeOK
  <2>2. xfer' \in [Stream -> TransferRecord]  BY <1>1 DEF TypeInv, TypeOK
  <2>3. cur' \in Stream \cup {None}  BY <1>1
  <2> QED  BY <2>1, <2>2, <2>3 DEF TypeInv, TypeOK, Statuses
<1>3. StreamsSetUp' /\ CurrentExists'
  BY <1>1 DEF TypeInv, TypeOK, StreamsSetUp, CurrentExists, Open
<1> QED  BY <1>2, <1>3 DEF TypeInv

\* What is known of the stream inside readBytes.
LEMMA CurrentStream ==
  ASSUME TypeInv, cur # None
  PROVE  /\ cur \in Open /\ cur \in Stream
         /\ st[cur] \in Members /\ xfer[cur] \in TransferRecord
         /\ st[cur].sURL \in Url /\ st[cur].cacheObject \in Obj
         /\ heap[st[cur].cacheObject] \in CacheRecord
         /\ heap \in [Obj -> CacheRecord] /\ msgs \in Seq(Stream)
         /\ st = [st EXCEPT ![cur] = st[cur]]
         /\ xfer = [xfer EXCEPT ![cur] = xfer[cur]]
         /\ out \in [Stream -> Seq(Piece)] /\ status \in [Stream -> Statuses]
         /\ faults = faults \cup {}
         /\ phase \in {"outside", "perform", "messages", "return"}
<1>1. cur \in Open /\ cur \in Stream
  BY DEF TypeInv, CurrentExists, Open
<1> QED  BY <1>1 DEF TypeInv, TypeOK, StreamsSetUp, Statuses

LEMMA TypeTakeMessage ==
  ASSUME TypeInv, NEW t \in Stream,
         TakeFinished(t) \/ TakeUnmodified(t) \/ TakeError(t)
  PROVE  TypeInv'
<1>1. cur # None /\ msgs # <<>> /\ msgs' = Tail(msgs)
  BY DEF TakeFinished, TakeUnmodified, TakeError, Message
<1> DEFINE g == heap
           m == st[cur]
           bad == {}
<1>2. m \in Members /\ xfer[cur] \in TransferRecord /\ bad \subseteq Undefined
      /\ m.sURL \in Url /\ m.cacheObject \in Obj /\ g \in [Obj -> CacheRecord]
      /\ st = [st EXCEPT ![cur] = m] /\ xfer = [xfer EXCEPT ![cur] = xfer[cur]]
      /\ out \in [Stream -> Seq(Piece)] /\ status \in [Stream -> Statuses]
      /\ cur \in Stream
  BY <1>1, CurrentStream
<1>3. msgs' \in Seq(Stream)
  BY <1>1, CurrentStream, HeadTailProperties
<1>4. CASE TakeFinished(t)
  <2>1. /\ UNCHANGED <<heap, HttpCache, freeHandles, fEasy, st, xfer, cur, ver,
                       status, out, since>>
        /\ faults' = faults \cup bad /\ phase' = "messages"
    BY <1>4 DEF TakeFinished, handlerVars, clientVars
  <2> HIDE DEF g, m, bad
  <2> QED  BY <1>1, <1>2, <1>3, <2>1, TypeCurrentStep DEF g
<1>5. CASE TakeUnmodified(t)
  <2> DEFINE n == [m EXCEPT !.bStreamFromCache = TRUE]
  <2>1. /\ UNCHANGED <<heap, HttpCache, freeHandles, fEasy, xfer, cur, ver,
                       status, out, since>>
        /\ faults' = faults \cup bad /\ phase' = "messages"
        /\ st' = [st EXCEPT ![cur] = n]
    BY <1>5 DEF TakeUnmodified, handlerVars, clientVars
  <2>2. n \in Members /\ n.sURL = m.sURL /\ n.cacheObject = m.cacheObject
    BY <1>2 DEF Members
  <2> HIDE DEF g, m, n, bad
  <2> QED  BY <1>1, <1>2, <1>3, <2>1, <2>2, TypeCurrentStep DEF g
<1>6. CASE TakeError(t)
  <2>1. /\ UNCHANGED <<heap, HttpCache, freeHandles, fEasy, st, xfer, ver,
                       out, since>>
        /\ faults' = faults \cup bad /\ phase' = "outside" /\ cur' = None
        /\ status' = [status EXCEPT ![cur] = "error"]
    BY <1>6 DEF TakeError, handlerVars
  <2>2. status' \in [Stream -> Statuses]  BY <1>2, <2>1 DEF Statuses
  <2> HIDE DEF g, m, bad
  <2> QED  BY <1>1, <1>2, <1>3, <2>1, <2>2, TypeCurrentStep DEF g
<1> QED  BY <1>4, <1>5, <1>6

LEMMA TypeTakeRedirect ==
  ASSUME TypeInv, NEW t \in Stream, TakeRedirect(t)
  PROVE  TypeInv'
<1> DEFINE m0     == st[cur]
           m      == ResetForRedirect(m0)
           pCache == Lookup(m.bUseCache, m.sURL)
<1>1. /\ cur # None /\ msgs # <<>> /\ m0.fLocation # None
      /\ msgs' = Without(Tail(msgs), cur) /\ phase' = "messages"
      /\ UNCHANGED <<HttpCache, freeHandles, fEasy, cur, ver, status, out,
                     since>>
  BY DEF TakeRedirect, Message, Redirected, clientVars
<1>2. m0 \in Members /\ m0.cacheObject \in Obj /\ cur \in Stream
      /\ heap \in [Obj -> CacheRecord]
      /\ out \in [Stream -> Seq(Piece)] /\ status \in [Stream -> Statuses]
  BY <1>1, CurrentStream
<1>3. /\ m \in Members /\ m.sURL \in Url /\ m.cacheObject = m0.cacheObject
      /\ m.bUseCache \in BOOLEAN
  <2>1. m0.fLocation \in Url /\ m0.maxToRead \in Nat
    BY <1>1, <1>2 DEF Members
  <2> HIDE DEF m0
  <2> QED  BY <1>2, <2>1, EmptyPieces DEF ResetForRedirect, Members
<1>4. PICK new \in NewAddresses(m.bUseCache /\ pCache = None) :
        LET m2   == SetupConnection(m, pCache, new)
            lost == Orphan(cur, m2.cacheObject)
        IN
        /\ st' = [st EXCEPT ![cur] = m2]
        /\ heap' = IF lost
                   THEN [HeapWith(new) EXCEPT ![st[cur].cacheObject] = NoObject]
                   ELSE HeapWith(new)
        /\ faults' = faults
             \cup UseOfEntry(m.bUseCache, m.sURL)
             \cup (IF st[cur].fBuffer # <<>> THEN {"double_free"} ELSE {})
             \cup (IF lost THEN {"leak"} ELSE {})
        /\ xfer' = [xfer EXCEPT ![cur] = Request(RequestHeaders(m2, pCache), 302)]
  BY DEF TakeRedirect
<1> DEFINE m2   == SetupConnection(m, pCache, new)
           lost == Orphan(cur, m2.cacheObject)
           g    == IF lost
                   THEN [HeapWith(new) EXCEPT ![m0.cacheObject] = NoObject]
                   ELSE HeapWith(new)
           bad  == UseOfEntry(m.bUseCache, m.sURL)
                   \cup (IF m0.fBuffer # <<>> THEN {"double_free"} ELSE {})
                   \cup (IF lost THEN {"leak"} ELSE {})
           x    == Request(RequestHeaders(m2, pCache), 302)
<1>5. st' = [st EXCEPT ![cur] = m2] /\ xfer' = [xfer EXCEPT ![cur] = x]
      /\ heap' = g /\ faults' = faults \cup bad
  BY <1>4
<1>6. bad \subseteq Undefined \cup {"leak"}
  BY DEF UseOfEntry, Use, Undefined
<1> HIDE DEF m0, m
<1>7. pCache \in Obj \cup {None}
  BY <1>3, LookupType DEF TypeInv
<1>8. new \in Obj \cup {None} /\ (m.bUseCache /\ pCache = None => new \in Obj)
  BY <1>4 DEF NewAddresses, Unused
<1> HIDE DEF pCache
<1>9. /\ m2 \in Members /\ m2.sURL = m.sURL /\ m2.cacheObject \in Obj
      /\ m2.bUseCache = m.bUseCache
  BY <1>2, <1>3, <1>7, <1>8, SetupConnectionType DEF TypeInv
<1> HIDE DEF m2
<1>10. x \in TransferRecord
  <2>1. m2.bUseCache /\ pCache = None => m.bUseCache /\ pCache = None
    BY <1>9
  <2>2. RequestHeaders(m2, pCache) \in Version \cup {None}
    BY <1>7, <1>8, <1>9, <2>1, SetupConnectionType DEF TypeInv
  <2> QED  BY <2>2, RequestType
<1>11. g \in [Obj -> CacheRecord]
  BY <1>2, <1>8, NewObjectType DEF HeapWith
<1>12. msgs' \in Seq(Stream)
  BY <1>1, CurrentStream, HeadTailProperties, WithoutType
<1> HIDE DEF g, bad, x, lost
<1> QED
  BY <1>1, <1>2, <1>3, <1>5, <1>6, <1>9, <1>10, <1>11, <1>12, TypeCurrentStep

LEMMA TypePerformAgain ==
  ASSUME TypeInv, PerformAgain
  PROVE  TypeInv'
<1>1. /\ cur # None /\ phase' = "perform"
      /\ UNCHANGED <<heap, HttpCache, freeHandles, fEasy, st, msgs, cur, ver,
                     status, out, since, faults>>
      /\ xfer' = IF xfer[cur].phase = "sent"
                 THEN [xfer EXCEPT ![cur].code = 0] ELSE xfer
  BY DEF PerformAgain, handlerVars, clientVars
<1>2. cur \in Stream /\ xfer[cur] \in TransferRecord
  BY <1>1, CurrentStream
<1>3. [xfer[cur] EXCEPT !.code = 0] \in TransferRecord
  BY <1>2 DEF TransferRecord, Codes
<1>4. xfer' \in [Stream -> TransferRecord]
  BY <1>1, <1>2, <1>3 DEF TypeInv, TypeOK
<1>5. TypeOK'  BY <1>1, <1>4 DEF TypeInv, TypeOK
<1>6. StreamsSetUp' /\ CurrentExists'
  BY <1>1 DEF TypeInv, StreamsSetUp, CurrentExists, Open
<1> QED  BY <1>5, <1>6 DEF TypeInv

\* The end of a call of readBytes, whatever delivered its data.
LEMMA TypeReturn ==
  ASSUME TypeInv, cur # None, NEW data \in Seq(Piece), NEW m \in Members,
         m.sURL = st[cur].sURL, m.cacheObject = st[cur].cacheObject,
         Return(cur, data, m),
         NEW g \in [Obj -> CacheRecord], heap' = g,
         NEW bad \in SUBSET Undefined, faults' = faults \cup bad,
         UNCHANGED <<HttpCache, freeHandles, fEasy, xfer, msgs, ver, since>>
  PROVE  TypeInv'
<1> DEFINE fin == TransferFinished(m, m.fTotalBytesRead)
           m1 == [AtRest(m) EXCEPT !.bTransferFinished = fin]
<1>1. /\ st' = [st EXCEPT ![cur] = m1]
      /\ out' = [out EXCEPT ![cur] = @ \o data]
      /\ status' = [status EXCEPT ![cur] = IF data = <<>> THEN "eof" ELSE "open"]
      /\ cur' = None /\ phase' = "outside"
  BY DEF Return
<1>2. fin \in BOOLEAN  BY DEF TransferFinished, Members
<1> HIDE DEF fin
<1>3. m1 \in Members /\ m1.sURL = m.sURL /\ m1.cacheObject = m.cacheObject
  BY <1>2, EmptyPieces DEF AtRest, Members
<1>4. /\ out \in [Stream -> Seq(Piece)] /\ status \in [Stream -> Statuses]
      /\ cur \in Stream /\ xfer[cur] \in TransferRecord
      /\ xfer' = [xfer EXCEPT ![cur] = xfer[cur]]
      /\ st[cur].sURL \in Url /\ st[cur].cacheObject \in Obj
      /\ msgs' \in Seq(Stream)
  BY CurrentStream
<1>5. out' \in [Stream -> Seq(Piece)] /\ status' \in [Stream -> Statuses]
  <2>1. out[cur] \o data \in Seq(Piece)  BY <1>4, ConcatProperties
  <2> QED  BY <1>1, <1>4, <2>1 DEF Statuses
<1> HIDE DEF m1
<1> QED  BY <1>1, <1>3, <1>4, <1>5, TypeCurrentStep

LEMMA TypeEndRead ==
  ASSUME TypeInv, EndRead
  PROVE  TypeInv'
<1> DEFINE m == st[cur]
           g == heap
           bad == {}
<1>1. /\ cur # None /\ Return(cur, m.filled, m)
      /\ heap' = g /\ faults' = faults \cup bad
      /\ UNCHANGED <<HttpCache, freeHandles, fEasy, xfer, msgs, ver, since>>
  BY DEF EndRead, handlerVars
<1>2. m \in Members /\ g \in [Obj -> CacheRecord] /\ bad \subseteq Undefined
  BY <1>1, CurrentStream
<1>3. m.filled \in Seq(Piece)  BY <1>2 DEF Members
<1> HIDE DEF g, bad
<1> QED  BY <1>1, <1>2, <1>3, TypeReturn

LEMMA TypeEndReadFromCache ==
  ASSUME TypeInv, EndReadFromCache
  PROVE  TypeInv'
<1> DEFINE m == st[cur]
           o == m.cacheObject
<1>1. cur # None
      /\ UNCHANGED <<HttpCache, freeHandles, fEasy, xfer, msgs, ver, since>>
  BY DEF EndReadFromCache
<1>2. PICK r \in IF Live(o) THEN CacheReads(o, m.fBytesToRead)
                 ELSE NothingRead(o) :
        /\ heap' = Update(o, r.obj)
        /\ Return(cur, r.data, [m EXCEPT !.fTotalBytesRead = @ + Len(r.data)])
        /\ faults' = faults \cup Use(o)
  BY DEF EndReadFromCache
<1>3. /\ m \in Members /\ o \in Obj /\ heap[o] \in CacheRecord
      /\ heap \in [Obj -> CacheRecord]
  BY <1>1, CurrentStream
<1>4. m.fBytesToRead \in Nat /\ m.fTotalBytesRead \in Nat
  BY <1>3 DEF Members
<1> HIDE DEF m, o
<1>5. r.data \in Seq(Piece) /\ (Live(o) => r.obj \in CacheRecord)
  <2>1. CASE Live(o)
    <3>1. PICK q \in ReadOutcomes(heap[o], m.fBytesToRead) :
            r = [data |-> q.data,
                 obj |-> IF q.data = <<>> THEN ResetState(q.obj) ELSE q.obj]
      BY <1>2, <2>1 DEF CacheReads
    <3>2. q.data \in Seq(Piece) /\ q.obj \in CacheRecord
      BY <1>3, <1>4, ReadOutcomesType
    <3>3. ResetState(q.obj) \in CacheRecord  BY <3>2, ObjectOps
    <3> QED  BY <3>1, <3>2, <3>3
  <2>2. CASE ~Live(o)
    <3>1. r \in NothingRead(o)  BY <1>2, <2>2
    <3>2. r.data = <<>>  BY <3>1 DEF NothingRead
    <3> QED  BY <2>2, <3>2, EmptyPieces
  <2> QED  BY <2>1, <2>2
<1> DEFINE total == m.fTotalBytesRead + Len(r.data)
           m1 == [m EXCEPT !.fTotalBytesRead = total]
           g == Update(o, r.obj)
           bad == Use(o)
<1>6. total \in Nat  BY <1>4, <1>5, LenProperties
<1>7. Return(cur, r.data, m1) /\ heap' = g /\ faults' = faults \cup bad
  BY <1>2
<1> HIDE DEF total
<1>8. m1 \in Members /\ m1.sURL = m.sURL /\ m1.cacheObject = m.cacheObject
  BY <1>3, <1>6 DEF Members
<1>9. g \in [Obj -> CacheRecord] /\ bad \subseteq Undefined
  BY <1>3, <1>5 DEF Update, Use, Undefined
<1> HIDE DEF m1, g, bad
<1> QED  BY <1>1, <1>5, <1>7, <1>8, <1>9, TypeReturn DEF m

\* What a destructor leaves of heap and map.
LEMMA DestroyedType ==
  ASSUME TypeInv, NEW s \in Open
  PROVE  /\ Destroyed(st[s]).heap \in [Obj -> CacheRecord]
         /\ Destroyed(st[s]).cache \in [Url -> Obj \cup {None}]
         /\ Destroyed(st[s]).bad \subseteq Undefined \ {"double_free"}
<1> DEFINE m == st[s]
           o == m.cacheObject
<1>1. /\ m.sURL \in Url /\ o \in Obj /\ heap[o] \in CacheRecord
      /\ heap \in [Obj -> CacheRecord] /\ HttpCache \in [Url -> Obj \cup {None}]
  BY DEF TypeInv, TypeOK, StreamsSetUp
<1> HIDE DEF m, o
<1>2. ASSUME NEW new \in CacheRecord
      PROVE  Update(o, new) \in [Obj -> CacheRecord]
  BY <1>1 DEF Update
<1>3. /\ ResetState(heap[o]) \in CacheRecord
      /\ ResetState(FinishBytes(heap[o])) \in CacheRecord
  BY <1>1, ObjectOps
<1>4. Use(o) \subseteq Undefined \ {"double_free"}  BY DEF Use, Undefined
<1>5. CASE StoreWanted(m)
  <2> DEFINE g == Update(o, ResetState(FinishBytes(heap[o])))
  <2>1. g \in [Obj -> CacheRecord]  BY <1>2, <1>3
  <2>2. Stored(m) = AddCacheObject(g, HttpCache, m.sURL, o)
    BY DEF Stored, o
  <2> HIDE DEF g
  <2>3. /\ Stored(m).heap \in [Obj -> CacheRecord]
        /\ Stored(m).cache \in [Url -> Obj \cup {None}]
        /\ Stored(m).bad \subseteq {"iterator"}
    BY <1>1, <2>1, <2>2, AddCacheObjectType
  <2> QED  BY <1>4, <1>5, <2>3 DEF Destroyed, Undefined, m, o
<1>6. CASE ~StoreWanted(m) /\ FromCache(m)
  BY <1>1, <1>2, <1>3, <1>4, <1>6 DEF Destroyed, m, o
<1>7. CASE ~StoreWanted(m) /\ ~FromCache(m) /\ DeletesOwn(m)
  <2>1. [heap EXCEPT ![o] = NoObject] \in [Obj -> CacheRecord]
    BY <1>1, NewObjectType
  <2> QED  BY <1>1, <1>4, <1>7, <2>1 DEF Destroyed, m, o
<1>8. CASE ~StoreWanted(m) /\ ~FromCache(m) /\ ~DeletesOwn(m)
  BY <1>1, <1>8 DEF Destroyed, m
<1> QED  BY <1>5, <1>6, <1>7, <1>8

LEMMA TypeDelete ==
  ASSUME TypeInv, NEW s \in Stream, Delete(s)
  PROVE  TypeInv'
<1> DEFINE after == Destroyed(st[s])
<1>1. /\ cur = None /\ fEasy[s] # None
      /\ heap' = after.heap /\ HttpCache' = after.cache
      /\ faults' = faults \cup after.bad
      /\ freeHandles' = Append(freeHandles, fEasy[s])
      /\ fEasy' = [fEasy EXCEPT ![s] = None]
      /\ st' = [st EXCEPT ![s] = NoMembers]
      /\ xfer' = [xfer EXCEPT ![s] = NoTransfer]
      /\ msgs' = Without(msgs, s)
      /\ status' = [status EXCEPT ![s] = "closed"]
      /\ out' = [out EXCEPT ![s] = <<>>]
      /\ since' = [since EXCEPT ![s] = [u \in Url |-> 1]]
      /\ UNCHANGED <<cur, phase, ver>>
  BY DEF Delete, ReleaseHandle, callVars
<1>2. s \in Open  BY <1>1 DEF Open
<1>3. /\ after.heap \in [Obj -> CacheRecord]
      /\ after.cache \in [Url -> Obj \cup {None}]
      /\ after.bad \subseteq Undefined
  BY <1>2, DestroyedType
<1> HIDE DEF after
<1>4. freeHandles' \in Seq(Handle)
  BY <1>1, AppendProperties DEF TypeInv, TypeOK
<1>5. msgs' \in Seq(Stream)
  BY <1>1, WithoutType DEF TypeInv, TypeOK
<1>6. 1 \in Version  BY ServerAssumption DEF Version
<1>7. TypeOK'
  <2>1. st' \in [Stream -> Members]
    BY <1>1, NoMembersType DEF TypeInv, TypeOK
  <2>2. xfer' \in [Stream -> TransferRecord]
    BY <1>1, NoTransferType DEF TypeInv, TypeOK
  <2>3. /\ fEasy' \in [Stream -> Handle \cup {None}]
        /\ status' \in [Stream -> Statuses]
        /\ faults' \subseteq Undefined \cup {"leak"}
    BY <1>1, <1>3 DEF TypeInv, TypeOK, Statuses
  <2>4. out' \in [Stream -> Seq(Piece)]
    BY <1>1, EmptyPieces DEF TypeInv, TypeOK
  <2>5. since' \in [Stream -> [Url -> Version]]
    BY <1>1, <1>6 DEF TypeInv, TypeOK
  <2> QED
    BY <1>1, <1>3, <1>4, <1>5, <2>1, <2>2, <2>3, <2>4, <2>5
       DEF TypeInv, TypeOK, Statuses
<1>8. StreamsSetUp' /\ CurrentExists'
  BY <1>1 DEF TypeInv, TypeOK, StreamsSetUp, CurrentExists, Open
<1> QED  BY <1>7, <1>8 DEF TypeInv

LEMMA TypeServerUpdate ==
  ASSUME TypeInv, NEW u \in Url, ServerUpdate(u)
  PROVE  TypeInv'
<1>1. /\ ver[u] < MaxVer /\ ver' = [ver EXCEPT ![u] = @ + 1]
      /\ UNCHANGED <<heap, HttpCache, freeHandles, fEasy, st, xfer, msgs, cur,
                     phase, status, out, since, faults>>
  BY DEF ServerUpdate, handlerVars, callVars, clientVars
<1>2. ver' \in [Url -> Version]
  BY <1>1, ServerAssumption DEF TypeInv, TypeOK, Version
<1>3. TypeOK'  BY <1>1, <1>2 DEF TypeInv, TypeOK
<1>4. StreamsSetUp' /\ CurrentExists'
  BY <1>1 DEF TypeInv, StreamsSetUp, CurrentExists, Open
<1> QED  BY <1>3, <1>4 DEF TypeInv

LEMMA TypeStutter ==
  ASSUME TypeInv, UNCHANGED vars
  PROVE  TypeInv'
BY DEF vars, clientVars, callVars, TypeInv, TypeOK, StreamsSetUp,
       CurrentExists, Open

LEMMA TypeStep == TypeInv /\ [Next]_vars => TypeInv'
<1> SUFFICES ASSUME TypeInv, [Next]_vars PROVE TypeInv'  OBVIOUS
<1>1. CASE \E s \in Stream, u \in Url, mode \in Modes : NewStream(s, u, mode)
  BY <1>1, TypeNewStream
<1>2. CASE \E s \in Stream, n \in 1 .. MaxRead : BeginRead(s, n)
  BY <1>2, TypeBeginRead
<1>3. CASE \E s \in Stream : Delete(s)
  BY <1>3, TypeDelete
<1>4. CASE \E t \in Stream : Transfer(t)
  BY <1>4, TypeHeader, TypeData, TypeComplete DEF Transfer
<1>5. CASE TakeMessage
  BY <1>5, TypeTakeMessage, TypeTakeRedirect DEF TakeMessage
<1>6. CASE PerformAgain \/ EndRead \/ EndReadFromCache
  BY <1>6, TypePerformAgain, TypeEndRead, TypeEndReadFromCache
<1>7. CASE \E u \in Url : ServerUpdate(u)
  BY <1>7, TypeServerUpdate
<1>8. CASE UNCHANGED vars
  BY <1>8, TypeStutter
<1> QED
  BY <1>1, <1>2, <1>3, <1>4, <1>5, <1>6, <1>7, <1>8 DEF Next, ReadStep

\* Every variable has its type, for any sets of URLs, objects, handles and
\* streams, with any redirects, framings, faults and readers.
THEOREM TypeCorrect == Spec => []TypeOK
<1>1. TypeInv => TypeOK  BY DEF TypeInv
<1> QED  BY <1>1, TypeInit, TypeStep, PTL DEF Spec

-----------------------------------------------------------------------------
(***************************************************************************)
(* Handles.  Both invariants are inductive relative to the types; only the *)
(* constructor and the destructor of a stream touch what they speak of.    *)
(***************************************************************************)
LEMMA OthersKeepHandles ==
  ASSUME [Next]_vars,
         ~(\E s \in Stream, u \in Url, mode \in Modes : NewStream(s, u, mode)),
         ~(\E s \in Stream : Delete(s))
  PROVE  UNCHANGED <<fEasy, freeHandles>>
<1>1. CASE UNCHANGED vars
  BY <1>1 DEF vars
<1>2. CASE \E s \in Stream, n \in 1 .. MaxRead : BeginRead(s, n)
  BY <1>2 DEF BeginRead, handlerVars
<1>3. CASE \E t \in Stream : Transfer(t)
  BY <1>3 DEF Transfer, Header, Data, Complete, Fail, handlerVars
<1>4. CASE TakeMessage
  BY <1>4 DEF TakeMessage, TakeFinished, TakeUnmodified, TakeRedirect,
              TakeError, handlerVars
<1>5. CASE PerformAgain \/ EndRead \/ EndReadFromCache
  BY <1>5 DEF PerformAgain, EndRead, EndReadFromCache, handlerVars
<1>6. CASE \E u \in Url : ServerUpdate(u)
  BY <1>6 DEF ServerUpdate, handlerVars
<1> QED
  BY <1>1, <1>2, <1>3, <1>4, <1>5, <1>6 DEF Next, ReadStep

LEMMA HandlesInit == Init => HandleOwnership /\ PoolBound
<1> SUFFICES ASSUME Init PROVE HandleOwnership /\ PoolBound  OBVIOUS
<1>1. Open = {} /\ freeHandles = <<>>
  BY DEF Init, HandlerInit, Open
<1>2. Len(freeHandles) = 0 /\ DOMAIN freeHandles = {}
  BY <1>1
<1>3. Cardinality(Open) = 0  BY <1>1, FS_EmptySet
<1>4. Cardinality(Stream) \in Nat
  BY StreamAssumption, FS_CardinalityType
<1> QED  BY <1>1, <1>2, <1>3, <1>4 DEF HandleOwnership, PoolBound

LEMMA HandlesNewStream ==
  ASSUME TypeOK, HandleOwnership, PoolBound,
         NEW s \in Stream, NEW u \in Url, NEW mode \in Modes,
         NewStream(s, u, mode)
  PROVE  HandleOwnership' /\ PoolBound'
<1>1. PICK h \in Handle :
        /\ HandleToUse(Held, h)
        /\ fEasy' = [fEasy EXCEPT ![s] = h]
        /\ freeHandles' = HandlesLeft
  BY DEF NewStream
<1>2. /\ fEasy \in [Stream -> Handle \cup {None}] /\ fEasy[s] = None
      /\ freeHandles \in Seq(Handle) /\ h # None
  BY HandleAssumption DEF NewStream, TypeOK
<1>3. Open' = Open \cup {s} /\ s \notin Open
  BY <1>1, <1>2 DEF Open
<1>4. h \notin Held
  <2>1. CASE freeHandles = <<>>
    BY <1>1, <2>1 DEF HandleToUse
  <2>2. CASE freeHandles # <<>>
    <3>1. 1 \in DOMAIN freeHandles /\ h = freeHandles[1]
      BY <1>1, <1>2, <2>2, EmptySeq DEF HandleToUse
    <3> QED  BY <3>1 DEF HandleOwnership
  <2> QED  BY <2>1, <2>2
<1>5. Held' = Held \cup {h}
  BY <1>1, <1>2, <1>3 DEF Held, Open
<1>6. IsFiniteSet(Open) /\ IsFiniteSet(Stream)
  BY StreamAssumption, FS_Subset DEF Open
<1>7. /\ Cardinality(Open') = Cardinality(Open) + 1
      /\ Cardinality(Open) \in Nat /\ Cardinality(Stream) \in Nat
      /\ Cardinality(Open') <= Cardinality(Stream)
  <2>1. Open' \subseteq Stream  BY <1>3 DEF Open
  <2> QED
    BY <1>3, <1>6, <2>1, FS_AddElement, FS_CardinalityType, FS_Subset
<1>8. \A r, t \in Open' : fEasy'[r] = fEasy'[t] => r = t
  <2>1. \A t \in Open : fEasy'[t] = fEasy[t] /\ fEasy[t] # h
    BY <1>1, <1>2, <1>3, <1>4 DEF Open, Held
  <2>2. fEasy'[s] = h  BY <1>1, <1>2
  <2> QED  BY <1>3, <2>1, <2>2 DEF HandleOwnership
<1>9. CASE freeHandles = <<>>
  <2>1. freeHandles' = <<>>  BY <1>1, <1>9 DEF HandlesLeft
  <2>2. DOMAIN freeHandles' = {} /\ Len(freeHandles') = 0  BY <2>1
  <2> QED  BY <1>7, <1>8, <2>2 DEF HandleOwnership, PoolBound
<1>10. CASE freeHandles # <<>>
  <2>1. /\ freeHandles' = Tail(freeHandles) /\ h = freeHandles[1]
        /\ Len(freeHandles) \in Nat /\ Len(freeHandles) > 0
    BY <1>1, <1>2, <1>10, EmptySeq, LenProperties DEF HandlesLeft, HandleToUse
  <2>2. /\ Len(freeHandles') = Len(freeHandles) - 1
        /\ \A i \in DOMAIN freeHandles' :
             /\ i \in 1 .. Len(freeHandles) - 1
             /\ i + 1 \in DOMAIN freeHandles
             /\ 1 \in DOMAIN freeHandles
             /\ freeHandles'[i] = freeHandles[i + 1]
    BY <1>2, <1>10, <2>1, HeadTailProperties, LenProperties
  <2>3. \A i, j \in DOMAIN freeHandles' :
          freeHandles'[i] = freeHandles'[j] => i = j
    <3> SUFFICES ASSUME NEW i \in DOMAIN freeHandles',
                        NEW j \in DOMAIN freeHandles',
                        freeHandles'[i] = freeHandles'[j]
                 PROVE  i = j
      OBVIOUS
    <3>1. i + 1 = j + 1  BY <2>2 DEF HandleOwnership
    <3>2. i \in Int /\ j \in Int  BY <2>1, <2>2
    <3> QED  BY <3>1, <3>2
  <2>4. \A i \in DOMAIN freeHandles' : freeHandles'[i] \notin Held'
    <3> SUFFICES ASSUME NEW i \in DOMAIN freeHandles'
                 PROVE  freeHandles'[i] \notin Held'
      OBVIOUS
    <3>1. freeHandles'[i] \notin Held  BY <2>2 DEF HandleOwnership
    <3>2. i + 1 # 1  BY <2>1, <2>2
    <3>3. freeHandles'[i] # h  BY <2>1, <2>2, <3>2 DEF HandleOwnership
    <3> QED  BY <1>5, <3>1, <3>3
  <2>5. PoolBound'
    BY <1>7, <2>1, <2>2 DEF PoolBound
  <2> QED  BY <1>8, <2>3, <2>4, <2>5 DEF HandleOwnership
<1> QED  BY <1>9, <1>10

LEMMA HandlesDelete ==
  ASSUME TypeOK, HandleOwnership, PoolBound, NEW s \in Stream, Delete(s)
  PROVE  HandleOwnership' /\ PoolBound'
<1> DEFINE h == fEasy[s]
<1>1. /\ fEasy \in [Stream -> Handle \cup {None}] /\ h # None
      /\ freeHandles \in Seq(Handle) /\ h \in Handle
      /\ freeHandles' = Append(freeHandles, h)
      /\ fEasy' = [fEasy EXCEPT ![s] = None]
  BY DEF Delete, ReleaseHandle, TypeOK
<1>2. Open' = Open \ {s} /\ s \in Open
  BY <1>1 DEF Open
<1>3. /\ \A t \in Open' : t \in Open /\ fEasy'[t] = fEasy[t]
      /\ \A t \in Open' : fEasy[t] # h
  BY <1>1, <1>2 DEF Open, HandleOwnership
<1>4. Held' \subseteq Held /\ h \notin Held' /\ h \in Held
  BY <1>2, <1>3 DEF Held
<1>5. /\ Len(freeHandles) \in Nat
      /\ Len(freeHandles') = Len(freeHandles) + 1
      /\ DOMAIN freeHandles = 1 .. Len(freeHandles)
      /\ DOMAIN freeHandles' = 1 .. Len(freeHandles) + 1
      /\ \A i \in 1 .. Len(freeHandles) : freeHandles'[i] = freeHandles[i]
      /\ freeHandles'[Len(freeHandles) + 1] = h
  BY <1>1, AppendProperties, LenProperties
<1> HIDE DEF h
<1>6. \A r, t \in Open' : fEasy'[r] = fEasy'[t] => r = t
  BY <1>3 DEF HandleOwnership
<1>7. \A i \in DOMAIN freeHandles : freeHandles[i] # h
  BY <1>4 DEF HandleOwnership
<1>8. \A i, j \in DOMAIN freeHandles' :
        freeHandles'[i] = freeHandles'[j] => i = j
  <2> SUFFICES ASSUME NEW i \in DOMAIN freeHandles',
                      NEW j \in DOMAIN freeHandles',
                      freeHandles'[i] = freeHandles'[j]
               PROVE  i = j
    OBVIOUS
  <2>1. CASE i \in DOMAIN freeHandles /\ j \in DOMAIN freeHandles
    BY <1>5, <2>1 DEF HandleOwnership
  <2>2. CASE i \notin DOMAIN freeHandles \/ j \notin DOMAIN freeHandles
    BY <1>5, <1>7, <2>2
  <2> QED  BY <2>1, <2>2
<1>9. \A i \in DOMAIN freeHandles' : freeHandles'[i] \notin Held'
  <2> SUFFICES ASSUME NEW i \in DOMAIN freeHandles'
               PROVE  freeHandles'[i] \notin Held'
    OBVIOUS
  <2>1. CASE i \in DOMAIN freeHandles
    BY <1>4, <1>5, <2>1 DEF HandleOwnership
  <2>2. CASE i \notin DOMAIN freeHandles
    BY <1>4, <1>5, <2>2
  <2> QED  BY <2>1, <2>2
<1>10. PoolBound'
  <2>1. IsFiniteSet(Open)  BY StreamAssumption, FS_Subset DEF Open
  <2>2. Cardinality(Open') = Cardinality(Open) - 1
        /\ Cardinality(Open) \in Nat
    BY <1>2, <2>1, FS_RemoveElement, FS_CardinalityType
  <2>3. Cardinality(Stream) \in Nat
    BY StreamAssumption, FS_CardinalityType
  <2> QED  BY <1>5, <2>2, <2>3 DEF PoolBound
<1> QED  BY <1>6, <1>8, <1>9, <1>10 DEF HandleOwnership

LEMMA HandlesStep ==
  TypeOK /\ HandleOwnership /\ PoolBound /\ [Next]_vars
    => HandleOwnership' /\ PoolBound'
<1> SUFFICES ASSUME TypeOK, HandleOwnership, PoolBound, [Next]_vars
             PROVE  HandleOwnership' /\ PoolBound'
  OBVIOUS
<1>1. CASE \E s \in Stream, u \in Url, mode \in Modes : NewStream(s, u, mode)
  BY <1>1, HandlesNewStream
<1>2. CASE \E s \in Stream : Delete(s)
  BY <1>2, HandlesDelete
<1>3. CASE UNCHANGED <<fEasy, freeHandles>>
  BY <1>3 DEF HandleOwnership, PoolBound, Held, Open
<1> QED  BY <1>1, <1>2, <1>3, OthersKeepHandles

\* However streams are opened and closed, every curl handle has one owner:
\* one stream, or one place in the queue of idle handles.
THEOREM OwnershipCorrect == Spec => []HandleOwnership
<1> QED  BY TypeCorrect, HandlesInit, HandlesStep, PTL DEF Spec

\* The handler never has more handles than streams have been open at once.
THEOREM PoolCorrect == Spec => []PoolBound
<1> QED  BY TypeCorrect, HandlesInit, HandlesStep, PTL DEF Spec

=============================================================================
