--------------------------- MODULE SequentialProofs ---------------------------
(***************************************************************************)
(* The cache under the readers the library was written for: one stream at  *)
(* a time, and no redirects.  Then no object is used after it was freed,   *)
(* the map is sound, and nothing leaks, for any number of documents and    *)
(* objects, any limit on the cache, and with any mixture of framings,      *)
(* faults and modes.  (With two streams or a redirect this is not so; the  *)
(* runs of MCHttpStream that end in a violation show how.)  At the end,    *)
(* what is left of it when any number of streams are open.                 *)
(***************************************************************************)
EXTENDS HttpStreamProofs, RecursionProofs

OneAtATime == \E s : Stream = {s}

NoRedirection == \A u \in Url : Target[u] = None

\* What heap, map and stream have to do with each other.
Custody == MapIntact /\ SoleDeleter /\ NoUseAfterFree /\ NoLeak

\* Only a stream that borrows an entry of the map asks whether it is fresh,
\* so only such a stream is told to read from the cache.
OnlyBorrowersRevalidate ==
  \A s \in Open :
    /\ xfer[s].cond # None \/ xfer[s].code = 304 => ~st[s].bDeleteCache
    /\ xfer[s].code # 302

SeqInv ==
  /\ OneAtATime
  /\ NoRedirection
  /\ TypeInv
  /\ Custody
  /\ OnlyBorrowersRevalidate

LEMMA SeqInit == OneAtATime /\ NoRedirection /\ Init => SeqInv
<1> SUFFICES ASSUME OneAtATime, NoRedirection, Init PROVE SeqInv  OBVIOUS
<1>1. /\ Open = {} /\ Cached(HttpCache) = {} /\ faults = {}
      /\ \A o \in Obj : heap[o] = NoObject
  BY DEF Init, HandlerInit, Open, Cached
<1>2. \A o \in Obj : ~Exists(heap[o])
  BY <1>1 DEF Exists, NoObject, NewObject
<1>3. Custody
  BY <1>1, <1>2 DEF Custody, MapIntact, SoleDeleter, NoUseAfterFree, NoLeak
<1>4. OnlyBorrowersRevalidate
  BY <1>1 DEF OnlyBorrowersRevalidate
<1> QED  BY <1>3, <1>4, TypeInit DEF SeqInv

(***************************************************************************)
(* Most steps create and free nothing and change hands of nothing.         *)
(***************************************************************************)
LEMMA CustodyKept ==
  ASSUME SeqInv, TypeInv',
         \A o \in Obj : Exists(heap'[o]) = Exists(heap[o]),
         UNCHANGED <<HttpCache, fEasy>>,
         \A s \in Open :
           /\ st'[s].cacheObject = st[s].cacheObject
           /\ st'[s].sURL = st[s].sURL
           /\ st'[s].bDeleteCache = st[s].bDeleteCache
           /\ st'[s].bStreamFromCache =>
                st[s].bStreamFromCache \/ ~st[s].bDeleteCache,
         "use_after_free" \notin faults', "leak" \notin faults'
  PROVE  Custody'
<1>1. Open' = Open /\ Cached(HttpCache') = Cached(HttpCache)
  BY DEF Open
<1>2. /\ HttpCache \in [Url -> Obj \cup {None}]
      /\ \A s \in Open : st[s].cacheObject \in Obj
  BY DEF SeqInv, TypeInv, TypeOK, StreamsSetUp
<1>3. MapIntact'
  <2>1. \A u \in Cached(HttpCache) : HttpCache[u] \in Obj
    BY <1>2 DEF Cached
  <2> QED  BY <1>1, <2>1 DEF SeqInv, Custody, MapIntact
<1>4. SoleDeleter'
  BY <1>1, <1>2 DEF SeqInv, Custody, SoleDeleter
<1>5. NoLeak'
  BY <1>1 DEF SeqInv, Custody, NoLeak
<1>6. NoUseAfterFree'  BY DEF NoUseAfterFree
<1> QED  BY <1>3, <1>4, <1>5, <1>6 DEF Custody

\* An operation on an object leaves it an object.
LEMMA OperationsKeepObjects ==
  ASSUME NEW o \in CacheRecord
  PROVE  /\ Exists(o) => Exists(ResetState(o))
         /\ \A data : Exists(WriteBytes(o, data))
         /\ Exists(FinishBytes(o))
         /\ \A n \in Nat : \A r \in ReadOutcomes(o, n) :
              Exists(o) => Exists(r.obj)
<1>1. \A p \in CacheRecord :
        /\ Exists(p) => Exists(ResetState(p))
        /\ ResetState(p) \in CacheRecord
  BY ObjectOps DEF Exists, ResetState, CacheRecord
<1>2. \A data : Exists(WriteBytes(o, data))
  <2>1. Prepared(o) \in CacheRecord  BY ObjectOps
  <2> QED  BY <2>1 DEF WriteBytes, Exists, CacheRecord
<1>3. Exists(FinishBytes(o))
  <2>1. Prepared(o) \in CacheRecord  BY ObjectOps
  <2> QED  BY <2>1 DEF FinishBytes, Exists, CacheRecord
<1>4. ASSUME NEW n \in Nat, NEW r \in ReadOutcomes(o, n), Exists(o)
      PROVE  Exists(r.obj)
  <2>1. CASE o.eState = "EMPTY"
    BY <1>4, <2>1 DEF ReadOutcomes
  <2>2. CASE o.eState # "EMPTY"
    <3> DEFINE q == ReadOpened(o)
               rest == Len(q.zBuffer) - q.pos
               most == Least(n, rest)
               counts == IF q.ended THEN {most} ELSE 0 .. most
    <3>1. q \in CacheRecord /\ Exists(q)
      <4>1. q \in CacheRecord  BY ObjectOps
      <4>2. ResetState(o) \in CacheRecord  BY <1>1
      <4>3. [ResetState(o) EXCEPT !.eState = "READ", !.pos = 0].eState = "READ"
        BY <4>2 DEF CacheRecord
      <4>4. Exists(q)  BY <1>4, <4>3 DEF ReadOpened, Exists
      <4> QED  BY <4>1, <4>4
    <3> HIDE DEF q
    <3>2. PICK k \in counts :
            r = [data |-> SubSeq(q.zBuffer, q.pos + 1, q.pos + k),
                 obj  |-> [q EXCEPT !.pos = q.pos + k]]
      BY <2>2, r \in ReadOutcomes(o, n) DEF ReadOutcomes, q
    <3> QED  BY <3>1, <3>2 DEF Exists, CacheRecord
  <2> QED  BY <2>1, <2>2
<1> QED  BY <1>1, <1>2, <1>3, <1>4

\* What an open stream works on is there.
LEMMA OpenStreamsLive ==
  ASSUME SeqInv, NEW s \in Open
  PROVE  /\ st[s].cacheObject \in Obj /\ Live(st[s].cacheObject)
         /\ heap[st[s].cacheObject] \in CacheRecord
         /\ heap \in [Obj -> CacheRecord]
         /\ Use(st[s].cacheObject) = {}
<1>1. st[s].cacheObject \in Obj /\ heap \in [Obj -> CacheRecord]
  BY DEF SeqInv, TypeInv, TypeOK, StreamsSetUp
<1>2. Live(st[s].cacheObject)
  BY <1>1, ObjAssumption DEF SeqInv, Custody, SoleDeleter, Live
<1> QED  BY <1>1, <1>2 DEF Use

(***************************************************************************)
(* Opening and reading.                                                    *)
(***************************************************************************)
LEMMA SeqNewStream ==
  ASSUME SeqInv, NEW s \in Stream, NEW u \in Url, NEW mode,
         NewStream(s, u, mode)
  PROVE  SeqInv'
<1> DEFINE wanted == mode # "nocache"
           pCache == Lookup(wanted, u)
           m0 == [NoMembers EXCEPT !.sURL = u, !.bUseCache = TRUE]
<1>1. TypeInv'  BY TypeNewStream DEF SeqInv
<1>2. PICK h \in Handle, new \in NewAddresses(pCache = None) :
        LET m == SetupConnection(m0, pCache, new)
        IN
        /\ fEasy' = [fEasy EXCEPT ![s] = h]
        /\ heap' = HeapWith(new)
        /\ st' = [st EXCEPT ![s] = [m EXCEPT !.bUseCache = (mode = "cache")]]
        /\ xfer' = [xfer EXCEPT ![s] = Request(RequestHeaders(m, pCache), 0)]
  BY ZenonT(60) DEF NewStream
<1> DEFINE m  == SetupConnection(m0, pCache, new)
           m1 == [m EXCEPT !.bUseCache = (mode = "cache")]
<1>3. /\ fEasy[s] = None /\ UNCHANGED HttpCache
      /\ faults' = faults \cup UseOfEntry(wanted, u)
  BY DEF NewStream
<1>4. /\ Open = {} /\ Open' = {s}
      /\ st'[s] = m1 /\ xfer'[s] = Request(RequestHeaders(m, pCache), 0)
  <2>1. Stream = {s}  BY DEF SeqInv, OneAtATime
  <2>2. h # None  BY HandleAssumption
  <2> QED  BY <1>2, <1>3, <2>1, <2>2 DEF Open, SeqInv, TypeInv, TypeOK
<1>5. /\ heap \in [Obj -> CacheRecord] /\ HttpCache \in [Url -> Obj \cup {None}]
      /\ pCache \in Obj \cup {None}
  BY LookupType DEF SeqInv, TypeInv, TypeOK
<1>6. UseOfEntry(wanted, u) = {}
  <2>1. HttpCache[u] # None => Live(HttpCache[u])
    BY <1>5 DEF SeqInv, Custody, MapIntact, Cached, Live
  <2> QED  BY <2>1 DEF UseOfEntry, Use
<1>7. pCache # None => HttpCache[u] = pCache /\ Exists(heap[pCache])
  BY <1>5 DEF Lookup, GetCacheObject, SeqInv, Custody, MapIntact, Cached
<1>8. pCache = None =>
        /\ new \in Obj /\ ~Exists(heap[new])
        /\ \A w \in Url : HttpCache[w] # new
  BY <1>2 DEF NewAddresses, Unused
<1>9. pCache # None => new = None
  BY <1>2 DEF NewAddresses
<1> HIDE DEF pCache, wanted
<1>10. /\ m1.sURL = u /\ ~m1.bStreamFromCache
       /\ pCache = None => m1.bDeleteCache /\ m1.cacheObject = new
       /\ pCache # None => ~m1.bDeleteCache /\ m1.cacheObject = pCache
       /\ m1.bDeleteCache = m.bDeleteCache
  BY DEF SetupConnection, NoMembers
<1>11. RequestHeaders(m, pCache) # None => ~m.bDeleteCache
  BY <1>10 DEF RequestHeaders, Live
<1> HIDE DEF m, m0, m1
<1>12. /\ pCache = None => heap' = [heap EXCEPT ![new] = NewObject]
       /\ pCache # None => heap' = heap
  BY <1>2, <1>8, <1>9, ObjAssumption DEF HeapWith, m
<1>13. \A o \in Obj : o # new \/ pCache # None => heap'[o] = heap[o]
  BY <1>5, <1>12
<1>14. pCache = None => Exists(heap'[new])
  BY <1>5, <1>8, <1>12 DEF Exists, NewObject
<1>15. MapIntact'
  <2> SUFFICES ASSUME NEW w \in Url, HttpCache[w] # None
               PROVE  /\ Exists(heap'[HttpCache[w]])
                      /\ \A v \in Url : HttpCache[v] = HttpCache[w] => v = w
    BY <1>3 DEF MapIntact, Cached
  <2>1. /\ Exists(heap[HttpCache[w]]) /\ HttpCache[w] \in Obj
        /\ \A v \in Url : HttpCache[v] = HttpCache[w] => v = w
    BY <1>5 DEF SeqInv, Custody, MapIntact, Cached
  <2> QED  BY <1>8, <1>13, <2>1
<1>16. SoleDeleter'
  <2>1. Exists(heap'[m1.cacheObject])
    BY <1>5, <1>7, <1>10, <1>12, <1>14
  <2>2. IF m1.bDeleteCache
        THEN (\A w \in Url : HttpCache'[w] # m1.cacheObject)
             /\ ~m1.bStreamFromCache
        ELSE HttpCache'[m1.sURL] = m1.cacheObject
    BY <1>3, <1>7, <1>8, <1>10
  <2> QED  BY <1>4, <2>1, <2>2 DEF SoleDeleter
<1>17. NoLeak'
  <2>1. "leak" \notin faults'
    BY <1>3, <1>6 DEF SeqInv, Custody, NoLeak
  <2>2. ASSUME NEW o \in Obj, Exists(heap'[o])
        PROVE  (\E w \in Url : HttpCache'[w] = o)
               \/ (\E t \in Open' : st'[t].cacheObject = o)
    <3>1. CASE Exists(heap[o])
      BY <1>3, <1>4, <3>1 DEF SeqInv, Custody, NoLeak
    <3>2. CASE ~Exists(heap[o])
      BY <1>4, <1>10, <1>13, <2>2, <3>2
    <3> QED  BY <3>1, <3>2
  <2> QED  BY <2>1, <2>2 DEF NoLeak
<1>18. NoUseAfterFree'
  BY <1>3, <1>6 DEF SeqInv, Custody, NoUseAfterFree
<1>19. OnlyBorrowersRevalidate'
  <2>1. /\ xfer'[s].cond = RequestHeaders(m, pCache)
        /\ xfer'[s].code = 0
    BY <1>4 DEF Request, NoTransfer
  <2> QED  BY <1>4, <1>10, <1>11, <2>1 DEF OnlyBorrowersRevalidate
<1> QED
  BY <1>1, <1>15, <1>16, <1>17, <1>18, <1>19
     DEF SeqInv, Custody, OneAtATime, NoRedirection

LEMMA SeqBeginRead ==
  ASSUME SeqInv, NEW s \in Stream, NEW n \in 1 .. MaxRead, BeginRead(s, n)
  PROVE  SeqInv'
<1>1. TypeInv'  BY TypeBeginRead DEF SeqInv
<1>2. UNCHANGED <<heap, HttpCache, fEasy, xfer, faults>>
  BY DEF BeginRead, handlerVars
<1>3. \A t \in Open : /\ st'[t].cacheObject = st[t].cacheObject
                      /\ st'[t].sURL = st[t].sURL
                      /\ st'[t].bDeleteCache = st[t].bDeleteCache
                      /\ st'[t].bStreamFromCache = st[t].bStreamFromCache
  BY SMTT(30) DEF BeginRead, SeqInv, TypeInv, TypeOK, Members, Open
<1>4. Custody'
  BY <1>1, <1>2, <1>3, CustodyKept
     DEF SeqInv, Custody, NoUseAfterFree, NoLeak
<1>5. OnlyBorrowersRevalidate'
  BY <1>2, <1>3 DEF SeqInv, OnlyBorrowersRevalidate, Open
<1> QED  BY <1>1, <1>4, <1>5 DEF SeqInv, OneAtATime, NoRedirection

\* What of a stream decides who deletes its object.
SameCustody(m, m1) ==
  /\ m1.cacheObject = m.cacheObject
  /\ m1.sURL = m.sURL
  /\ m1.bDeleteCache = m.bDeleteCache
  /\ m1.bStreamFromCache = m.bStreamFromCache

LEMMA ResponseFields ==
  ASSUME NEW x \in TransferRecord, NEW code, NEW left, NEW sized
  PROVE  /\ After(Response(x, code, left, sized)).code = code
         /\ After(Response(x, code, left, sized)).cond = x.cond
<1> DEFINE y == Response(x, code, left, sized)
<1>1. /\ y.code = code /\ y.cond = x.cond
      /\ [y EXCEPT !.phase = "done"].code = y.code
      /\ [y EXCEPT !.phase = "done"].cond = y.cond
      /\ [y EXCEPT !.phase = "body"].code = y.code
      /\ [y EXCEPT !.phase = "body"].cond = y.cond
  BY DEF Response, TransferRecord
<1> HIDE DEF y
<1> QED  BY <1>1 DEF After, y

\* A response head: the validator of the request is the borrower's, and
\* without redirection no code is 302.
LEMMA SeqResponse ==
  ASSUME SeqInv, TypeInv', NEW t \in Open,
         NEW x, xfer' = [xfer EXCEPT ![t] = x],
         x.code # 302, x.code = 304 => x.cond # None, x.cond = xfer[t].cond,
         NEW m, st' = [st EXCEPT ![t] = m], SameCustody(st[t], m),
         \A o \in Obj : Exists(heap'[o]) = Exists(heap[o]),
         UNCHANGED <<HttpCache, fEasy, faults>>
  PROVE  SeqInv'
<1>1. \A s \in Open : SameCustody(st[s], st'[s])
  BY DEF SameCustody, SeqInv, TypeInv, TypeOK, Open
<1>2. Custody'
  BY <1>1, CustodyKept
     DEF SameCustody, SeqInv, Custody, NoUseAfterFree, NoLeak
<1>3. xfer'[t] = x
  BY DEF SeqInv, TypeInv, TypeOK, Open
<1>4. \A s \in Open : s # t => xfer'[s] = xfer[s]
  BY DEF SeqInv, TypeInv, TypeOK, Open
<1>5. Open' = Open  BY DEF Open
<1>6. ~st[t].bDeleteCache \/ (x.cond = None /\ x.code # 304)
  BY DEF SeqInv, OnlyBorrowersRevalidate
<1>7. OnlyBorrowersRevalidate'
  BY <1>1, <1>3, <1>4, <1>5, <1>6
     DEF SameCustody, SeqInv, OnlyBorrowersRevalidate
<1> QED  BY <1>2, <1>7 DEF SeqInv, OneAtATime, NoRedirection

LEMMA SeqHeader ==
  ASSUME SeqInv, NEW t \in Stream, Header(t)
  PROVE  SeqInv'
<1> DEFINE m == st[t]
           o == m.cacheObject
<1>1. TypeInv'  BY TypeHeader DEF SeqInv
<1>2. /\ t \in Open /\ m \in Members /\ xfer[t] \in TransferRecord
      /\ m.sURL \in Url /\ ver[m.sURL] \in Version
      /\ Target[m.sURL] = None /\ st = [st EXCEPT ![t] = m]
      /\ UNCHANGED <<HttpCache, fEasy>>
  BY RunningStream DEF Header, SeqInv, NoRedirection
<1>3. /\ o \in Obj /\ Live(o) /\ heap[o] \in CacheRecord
      /\ heap \in [Obj -> CacheRecord] /\ Use(o) = {}
  BY <1>2, OpenStreamsLive
<1>4. CASE HeadNotModified(t)
  <2> DEFINE sized == TRUE
             left == <<>>
             x == After(Response(xfer[t], 304, left, sized))
  <2>1. /\ xfer' = [xfer EXCEPT ![t] = x]
        /\ xfer[t].cond = ver[m.sURL]
        /\ UNCHANGED <<st, heap, faults>>
    BY <1>4 DEF HeadNotModified
  <2>2. xfer[t].cond # None
    BY <1>2, <2>1, ServerAssumption DEF Version
  <2>3. st' = [st EXCEPT ![t] = m] /\ SameCustody(st[t], m)
    BY <1>2, <2>1 DEF SameCustody
  <2> HIDE DEF left, sized
  <2>4. x.code = 304 /\ x.cond = xfer[t].cond
    BY <1>2, ResponseFields
  <2> HIDE DEF m, o, x
  <2>5. t \in Open /\ xfer' = [xfer EXCEPT ![t] = x]
    BY <1>2, <2>1
  <2>6. /\ x.code # 302 /\ (x.code = 304 => x.cond # None)
        /\ x.cond = xfer[t].cond
    BY <2>1, <2>2, <2>4
  <2>7. \A p \in Obj : Exists(heap'[p]) = Exists(heap[p])
    BY <2>1
  <2>8. UNCHANGED <<HttpCache, fEasy, faults>>
    BY <1>2, <2>1
  <2> QED  BY <1>1, <2>3, <2>5, <2>6, <2>7, <2>8, SeqResponse
<1>5. ASSUME NEW f \in Framing, HeadOK(t, f)
      PROVE  SeqInv'
  <2> DEFINE u    == m.sURL
             sent == CASE f = "length"  -> BodyLen[u]
                       [] f = "encoded" -> BodyLen[u] - 1
                       [] OTHER         -> m.hContent_length_response
             left == Body(u, ver[u])
             sized == f # "chunked"
             x    == After(Response(xfer[t], 200, left, sized))
             m1   == [m EXCEPT !.bStoreCache = TRUE,
                               !.hContent_length_response = sent]
  <2>1. /\ st' = [st EXCEPT ![t] = m1]
        /\ heap' = IF SetsEtag(m) /\ Live(o)
                   THEN [heap EXCEPT ![o].pEtag = ver[u]] ELSE heap
        /\ faults' = faults \cup IF SetsEtag(m) THEN Use(o) ELSE {}
        /\ xfer' = [xfer EXCEPT ![t] = x]
    BY <1>5 DEF HeadOK
  <2> HIDE DEF sent, left, sized
  <2>2. SameCustody(m, m1)  BY <1>2 DEF SameCustody, Members
  <2>3. faults' = faults  BY <1>3, <2>1
  <2>4. \A p \in Obj : Exists(heap'[p]) = Exists(heap[p])
    BY <1>3, <2>1 DEF Exists, CacheRecord
  <2>5. x.code = 200 /\ x.cond = xfer[t].cond
    BY <1>2, ResponseFields
  <2> HIDE DEF m1, o, x
  <2>6. t \in Open /\ xfer' = [xfer EXCEPT ![t] = x]
    BY <1>2, <2>1
  <2>7. /\ x.code # 302 /\ (x.code = 304 => x.cond # None)
        /\ x.cond = xfer[t].cond
    BY <2>5
  <2>8. st' = [st EXCEPT ![t] = m1] /\ SameCustody(st[t], m1)
    BY <2>1, <2>2
  <2>9. UNCHANGED <<HttpCache, fEasy, faults>>
    BY <1>2, <2>3
  <2> QED  BY <1>1, <2>4, <2>6, <2>7, <2>8, <2>9, SeqResponse
<1>6. ASSUME NEW f \in Framing, HeadRedirect(t, f)
      PROVE  SeqInv'
  BY <1>2, <1>6 DEF HeadRedirect
<1>7. ASSUME NEW f \in Framing, HeadError(t, f)
      PROVE  SeqInv'
  <2> DEFINE sent == IF f = "length" THEN NoiseLen
                     ELSE m.hContent_length_response
             left == Noise(m.sURL)
             sized == f # "chunked"
             x  == After(Response(xfer[t], 404, left, sized))
             m1 == [m EXCEPT !.hContent_length_response = sent]
  <2>1. /\ st' = [st EXCEPT ![t] = m1] /\ UNCHANGED <<heap, faults>>
        /\ xfer' = [xfer EXCEPT ![t] = x]
    BY <1>2, <1>7 DEF HeadError
  <2> HIDE DEF sent, left, sized
  <2>2. SameCustody(m, m1)  BY <1>2 DEF SameCustody, Members
  <2>3. x.code = 404 /\ x.cond = xfer[t].cond
    BY <1>2, ResponseFields
  <2> HIDE DEF m1, o, x
  <2>4. t \in Open /\ TypeInv' /\ xfer' = [xfer EXCEPT ![t] = x]
    BY <1>1, <1>2, <2>1
  <2>5. /\ x.code # 302 /\ (x.code = 304 => x.cond # None)
        /\ x.cond = xfer[t].cond
    BY <2>3
  <2>6. st' = [st EXCEPT ![t] = m1] /\ SameCustody(st[t], m1)
    BY <2>1, <2>2
  <2>7. \A p \in Obj : Exists(heap'[p]) = Exists(heap[p])
    BY <2>1
  <2>8. UNCHANGED <<HttpCache, fEasy, faults>>
    BY <1>2, <2>1
  <2> QED  BY <2>4, <2>5, <2>6, <2>7, <2>8, SeqResponse
<1> QED  BY <1>4, <1>5, <1>6, <1>7 DEF Header

\* The rest of a response changes neither.
LEMMA SeqBody ==
  ASSUME SeqInv, NEW t \in Stream, Data(t) \/ Complete(t) \/ Fail(t)
  PROVE  SeqInv'
<1>1. TypeInv'  BY TypeData, TypeComplete DEF SeqInv
<1>2. /\ t \in Open /\ st[t] \in Members /\ xfer[t] \in TransferRecord
      /\ UNCHANGED <<HttpCache, fEasy>>
  BY RunningStream DEF Data, Complete, Fail, SeqInv, handlerVars
<1>3. /\ st[t].cacheObject \in Obj /\ Live(st[t].cacheObject)
      /\ heap[st[t].cacheObject] \in CacheRecord
      /\ heap \in [Obj -> CacheRecord] /\ Use(st[t].cacheObject) = {}
  BY <1>2, OpenStreamsLive
<1>4. "use_after_free" \notin faults' /\ "leak" \notin faults'
  BY <1>3 DEF Data, Complete, Fail, SeqInv, Custody, NoUseAfterFree, NoLeak
<1>5. \A p \in Obj : Exists(heap'[p]) = Exists(heap[p])
  <2> DEFINE o == st[t].cacheObject
             p == Head(xfer[t].left)
  <2>1. CASE heap' = heap  BY <2>1
  <2>2. CASE heap' = [heap EXCEPT ![o] = WriteBytes(@, <<p>>)]
    <3>1. Exists(WriteBytes(heap[o], <<p>>))  BY <1>3, OperationsKeepObjects
    <3>2. Exists(heap[o])  BY <1>3 DEF Live
    <3> HIDE DEF o, p
    <3> QED  BY <2>2, <1>3, <3>1, <3>2
  <2> QED  BY <2>1, <2>2 DEF Data, Complete, Fail, handlerVars
<1>6. \A s \in Open : /\ st'[s].cacheObject = st[s].cacheObject
                      /\ st'[s].sURL = st[s].sURL
                      /\ st'[s].bDeleteCache = st[s].bDeleteCache
                      /\ st'[s].bStreamFromCache = st[s].bStreamFromCache
  <2>1. st \in [Stream -> Members]  BY DEF SeqInv, TypeInv, TypeOK
  <2>2. CASE Data(t)
    <3> DEFINE m == st[t]
               p == Head(xfer[t].left)
               m1 == IF HasRoom(m)
                     THEN [m EXCEPT !.filled = Append(@, p),
                                    !.fBytesToRead = @ - 1,
                                    !.fTotalBytesRead = @ + 1]
                     ELSE [m EXCEPT !.fBuffer = Append(@, p)]
    <3>1. st' = [st EXCEPT ![t] = m1]  BY <2>2 DEF Data
    <3> HIDE DEF p
    <3>2. SameCustody(m, m1)  BY <1>2 DEF SameCustody, Members
    <3> HIDE DEF m1
    <3> QED  BY <2>1, <3>1, <3>2 DEF SameCustody, Open
  <2>3. CASE st' = st  BY <2>3
  <2> QED  BY <2>2, <2>3 DEF Complete, Fail
<1>7. Custody'
  BY <1>1, <1>2, <1>4, <1>5, <1>6, CustodyKept
<1>8. \A s \in Open : /\ xfer'[s].cond = xfer[s].cond
                      /\ xfer'[s].code = xfer[s].code
  <2>1. xfer \in [Stream -> TransferRecord]
    BY DEF SeqInv, TypeInv, TypeOK
  <2>2. CASE Data(t)
    <3> DEFINE x == [xfer[t] EXCEPT !.left = Tail(@)]
    <3>1. xfer' = [xfer EXCEPT ![t] = After(x)]  BY <2>2 DEF Data
    <3>2. After(x).cond = xfer[t].cond /\ After(x).code = xfer[t].code
      BY <1>2 DEF After, TransferRecord
    <3> HIDE DEF x
    <3> QED  BY <2>1, <3>1, <3>2 DEF Open
  <2>3. CASE Complete(t)
    BY <2>1, <2>3 DEF Complete, TransferRecord, Open
  <2>4. CASE Fail(t)
    BY <2>1, <2>4 DEF Fail, TransferRecord, Open
  <2> QED  BY <2>2, <2>3, <2>4
<1>9. OnlyBorrowersRevalidate'
  BY <1>2, <1>6, <1>8 DEF SeqInv, OnlyBorrowersRevalidate, Open
<1> QED  BY <1>1, <1>7, <1>9 DEF SeqInv, OneAtATime, NoRedirection

(***************************************************************************)
(* The steps of readBytes itself.                                          *)
(***************************************************************************)
\* A step that changes neither heap nor map, and of the stream inside
\* readBytes no more than what SameCustody allows.
LEMMA SeqCurrentStep ==
  ASSUME SeqInv, TypeInv', cur # None,
         NEW m, st' = [st EXCEPT ![cur] = m],
         m.cacheObject = st[cur].cacheObject, m.sURL = st[cur].sURL,
         m.bDeleteCache = st[cur].bDeleteCache,
         m.bStreamFromCache =>
           st[cur].bStreamFromCache \/ ~st[cur].bDeleteCache,
         \A o \in Obj : Exists(heap'[o]) = Exists(heap[o]),
         \A s \in Open : /\ xfer'[s].cond = xfer[s].cond
                         /\ xfer'[s].code \in {0, xfer[s].code},
         UNCHANGED <<HttpCache, fEasy, faults>>
  PROVE  SeqInv'
<1>1. \A s \in Open :
        /\ st'[s].cacheObject = st[s].cacheObject
        /\ st'[s].sURL = st[s].sURL
        /\ st'[s].bDeleteCache = st[s].bDeleteCache
        /\ st'[s].bStreamFromCache =>
             st[s].bStreamFromCache \/ ~st[s].bDeleteCache
  BY DEF SeqInv, TypeInv, TypeOK, Open
<1>2. Custody'
  BY <1>1, CustodyKept DEF SeqInv, Custody, NoUseAfterFree, NoLeak
<1>3. Open' = Open  BY DEF Open
<1>4. OnlyBorrowersRevalidate'
  BY <1>1, <1>3 DEF SeqInv, OnlyBorrowersRevalidate
<1> QED  BY <1>2, <1>4 DEF SeqInv, OneAtATime, NoRedirection

LEMMA SeqTakeMessage ==
  ASSUME SeqInv, TakeMessage
  PROVE  SeqInv'
<1>1. PICK t \in Stream : \/ TakeFinished(t) \/ TakeUnmodified(t)
                          \/ TakeRedirect(t) \/ TakeError(t)
  BY DEF TakeMessage
<1>2. cur # None
  BY <1>1 DEF TakeFinished, TakeUnmodified, TakeRedirect, TakeError, Message
<1>3. cur \in Open /\ st[cur] \in Members /\ st = [st EXCEPT ![cur] = st[cur]]
  BY <1>2, CurrentStream DEF SeqInv
<1>4. ~TakeRedirect(t)
  BY <1>3 DEF TakeRedirect, Redirected, SeqInv, OnlyBorrowersRevalidate
<1>5. TypeInv'  BY <1>1, <1>4, TypeTakeMessage DEF SeqInv
<1>6. UNCHANGED <<heap, HttpCache, fEasy, xfer, faults>>
  BY <1>1, <1>4 DEF TakeFinished, TakeUnmodified, TakeError, handlerVars
<1>7. \A s \in Open : /\ xfer'[s].cond = xfer[s].cond
                      /\ xfer'[s].code \in {0, xfer[s].code}
  BY <1>6
<1>8. \A o \in Obj : Exists(heap'[o]) = Exists(heap[o])
  BY <1>6
<1>9. CASE TakeUnmodified(t)
  <2> DEFINE m == [st[cur] EXCEPT !.bStreamFromCache = TRUE]
  <2>1. st' = [st EXCEPT ![cur] = m] /\ xfer[cur].code = 304
    BY <1>9 DEF TakeUnmodified, Unmodified
  <2>2. ~st[cur].bDeleteCache
    BY <1>3, <2>1 DEF SeqInv, OnlyBorrowersRevalidate
  <2>3. /\ m.cacheObject = st[cur].cacheObject /\ m.sURL = st[cur].sURL
        /\ m.bDeleteCache = st[cur].bDeleteCache
    BY <1>3 DEF Members
  <2> HIDE DEF m
  <2> QED
    BY <1>2, <1>5, <1>6, <1>7, <1>8, <2>1, <2>2, <2>3, SeqCurrentStep
<1>10. CASE TakeFinished(t) \/ TakeError(t)
  <2> DEFINE m == st[cur]
  <2>1. st' = [st EXCEPT ![cur] = m]
    BY <1>3, <1>10 DEF TakeFinished, TakeError
  <2>2. /\ m.cacheObject = st[cur].cacheObject /\ m.sURL = st[cur].sURL
        /\ m.bDeleteCache = st[cur].bDeleteCache
        /\ m.bStreamFromCache = st[cur].bStreamFromCache
    OBVIOUS
  <2> HIDE DEF m
  <2> QED
    BY <1>2, <1>5, <1>6, <1>7, <1>8, <2>1, <2>2, SeqCurrentStep
<1> QED  BY <1>1, <1>4, <1>9, <1>10

LEMMA SeqPerformAgain ==
  ASSUME SeqInv, PerformAgain
  PROVE  SeqInv'
<1> DEFINE m == st[cur]
<1>1. TypeInv'  BY TypePerformAgain DEF SeqInv
<1>2. /\ cur # None /\ UNCHANGED <<heap, HttpCache, fEasy, st, faults>>
      /\ xfer' = IF xfer[cur].phase = "sent"
                 THEN [xfer EXCEPT ![cur].code = 0] ELSE xfer
  BY DEF PerformAgain, handlerVars
<1>3. st' = [st EXCEPT ![cur] = m]
  BY <1>2, CurrentStream DEF SeqInv
<1>4. \A s \in Open : /\ xfer'[s].cond = xfer[s].cond
                      /\ xfer'[s].code \in {0, xfer[s].code}
  BY <1>2 DEF SeqInv, TypeInv, TypeOK, TransferRecord, Open
<1>5. \A o \in Obj : Exists(heap'[o]) = Exists(heap[o])
  BY <1>2
<1>6. /\ m.cacheObject = st[cur].cacheObject /\ m.sURL = st[cur].sURL
      /\ m.bDeleteCache = st[cur].bDeleteCache
      /\ m.bStreamFromCache = st[cur].bStreamFromCache
  OBVIOUS
<1> HIDE DEF m
<1> QED  BY <1>1, <1>2, <1>3, <1>4, <1>5, <1>6, SeqCurrentStep

\* The end of a call of readBytes changes nothing that matters here.
LEMMA SeqReturn ==
  ASSUME SeqInv, TypeInv', cur # None, NEW m \in Members, NEW data,
         SameCustody(st[cur], m), Return(cur, data, m),
         \A o \in Obj : Exists(heap'[o]) = Exists(heap[o]),
         UNCHANGED <<HttpCache, fEasy, xfer, faults>>
  PROVE  SeqInv'
<1> DEFINE m1 == [AtRest(m) EXCEPT !.bTransferFinished =
                                      TransferFinished(m, m.fTotalBytesRead)]
<1>1. st' = [st EXCEPT ![cur] = m1]  BY DEF Return
<1>2. /\ m1.cacheObject = st[cur].cacheObject /\ m1.sURL = st[cur].sURL
      /\ m1.bDeleteCache = st[cur].bDeleteCache
      /\ m1.bStreamFromCache = st[cur].bStreamFromCache
  BY DEF AtRest, Members, SameCustody
<1>3. \A s \in Open : /\ xfer'[s].cond = xfer[s].cond
                      /\ xfer'[s].code \in {0, xfer[s].code}
  OBVIOUS
<1> HIDE DEF m1
<1> QED  BY <1>1, <1>2, <1>3, SeqCurrentStep

LEMMA SeqEndRead ==
  ASSUME SeqInv, EndRead \/ EndReadFromCache
  PROVE  SeqInv'
<1>1. /\ TypeInv' /\ cur # None /\ UNCHANGED <<HttpCache, fEasy, xfer>>
  BY TypeEndRead, TypeEndReadFromCache
     DEF SeqInv, EndRead, EndReadFromCache, handlerVars
<1> DEFINE m == st[cur]
           o == m.cacheObject
<1>2. /\ m \in Members /\ o \in Obj /\ Live(o) /\ Use(o) = {}
      /\ heap \in [Obj -> CacheRecord] /\ heap[o] \in CacheRecord
  BY <1>1, CurrentStream, OpenStreamsLive DEF SeqInv
<1>3. CASE EndRead
  <2>1. /\ Return(cur, m.filled, m) /\ UNCHANGED <<heap, faults>>
        /\ SameCustody(st[cur], m)
    BY <1>3 DEF EndRead, handlerVars, SameCustody
  <2>2. \A p \in Obj : Exists(heap'[p]) = Exists(heap[p])
    BY <2>1
  <2> QED  BY <1>1, <1>2, <2>1, <2>2, SeqReturn
<1>4. CASE EndReadFromCache
  <2>1. PICK r \in CacheReads(o, m.fBytesToRead) :
          /\ heap' = Update(o, r.obj)
          /\ Return(cur, r.data, [m EXCEPT !.fTotalBytesRead = @ + Len(r.data)])
    BY <1>2, <1>4 DEF EndReadFromCache
  <2>2. faults' = faults
    BY <1>2, <1>4 DEF EndReadFromCache
  <2> DEFINE total == m.fTotalBytesRead + Len(r.data)
             m1 == [m EXCEPT !.fTotalBytesRead = total]
             data == r.data
  <2>3. SameCustody(st[cur], m1)
    BY <1>2 DEF SameCustody, Members
  <2>4. m.fBytesToRead \in Nat /\ m.fTotalBytesRead \in Nat
    BY <1>2 DEF Members
  <2> HIDE DEF m, o
  <2>5. PICK q \in ReadOutcomes(heap[o], m.fBytesToRead) :
          r = [data |-> q.data,
               obj |-> IF q.data = <<>> THEN ResetState(q.obj) ELSE q.obj]
    BY <2>1 DEF CacheReads
  <2>6. q.data \in Seq(Piece) /\ q.obj \in CacheRecord
    BY <1>2, <2>4, ReadOutcomesType
  <2>7. Exists(r.obj)
    <3>1. Exists(q.obj)
      BY <1>2, <2>4, OperationsKeepObjects DEF Live
    <3>2. Exists(ResetState(q.obj))  BY <2>6, <3>1, OperationsKeepObjects
    <3> QED  BY <2>5, <3>1, <3>2
  <2>8. \A p \in Obj : Exists(heap'[p]) = Exists(heap[p])
    BY <1>2, <2>1, <2>7 DEF Update, Live
  <2>9. m1 \in Members
    <3>1. total \in Nat  BY <2>4, <2>5, <2>6, LenProperties
    <3> HIDE DEF total
    <3> QED  BY <1>2, <3>1 DEF Members
  <2>10. Return(cur, data, m1)  BY <2>1
  <2>11. UNCHANGED <<HttpCache, fEasy, xfer, faults>>
    BY <1>1, <2>2
  <2> HIDE DEF m1, data
  <2> QED  BY <1>1, <2>3, <2>8, <2>9, <2>10, <2>11, SeqReturn
<1> QED  BY <1>3, <1>4

(***************************************************************************)
(* Closing.                                                                *)
(***************************************************************************)
\* MapIntact and, but for the objects in "others", NoLeak, of a heap and map.
Intact(h, c) ==
  \A u \in Url : c[u] # None =>
    /\ Exists(h[c[u]])
    /\ \A w \in Url : c[w] = c[u] => w = u

AllKept(h, c, others) ==
  \A o \in Obj \ others : Exists(h[o]) => \E u \in Url : c[u] = o

\* Whatever entries the walk of checkCacheSize picks, the map stays intact:
\* an object goes with its entry, and no other entry has it.
LEMMA CheckCacheSizeIntact ==
  ASSUME NEW h \in [Obj -> CacheRecord], NEW c \in [Url -> Obj \cup {None}],
         NEW item, Intact(h, c), AllKept(h, c, {})
  PROVE  LET r == CheckCacheSize(h, c, item)
         IN  Intact(r.heap, r.cache) /\ AllKept(r.heap, r.cache, {})
<1> DEFINE gone == Walk(h, c, item).gone
           g == [o \in Obj |-> IF \E u \in Url : u \in gone /\ c[u] = o
                               THEN NoObject ELSE h[o]]
           d == [u \in Url |-> IF u \in gone THEN None ELSE c[u]]
<1>1. CheckCacheSize(h, c, item).heap = g /\ CheckCacheSize(h, c, item).cache = d
  BY DEF CheckCacheSize
<1>2. ~Exists(NoObject)  BY DEF Exists, NoObject, NewObject
<1> HIDE DEF gone
<1>4. \A u \in Url : d[u] # None => u \notin gone /\ d[u] = c[u] /\ c[u] \in Obj
  OBVIOUS
<1>5. ASSUME NEW u \in Url, d[u] # None
      PROVE  Exists(g[d[u]]) /\ \A w \in Url : d[w] = d[u] => w = u
  <2>1. d[u] = c[u] /\ c[u] \in Obj /\ u \notin gone  BY <1>4, <1>5
  <2>2. \A w \in Url : c[w] = c[u] => w = u
    BY <2>1, ObjAssumption DEF Intact
  <2>3. Exists(h[c[u]])  BY <2>1, ObjAssumption DEF Intact
  <2>4. g[c[u]] = h[c[u]]  BY <2>1, <2>2
  <2> QED  BY <1>4, <1>5, <2>1, <2>2, <2>3, <2>4
<1>6. ASSUME NEW o \in Obj, Exists(g[o])
      PROVE  \E u \in Url : d[u] = o
  <2>1. Exists(h[o]) /\ \A u \in Url : u \in gone => c[u] # o
    BY <1>2, <1>6
  <2>2. PICK u \in Url : c[u] = o  BY <2>1 DEF AllKept
  <2>3. d[u] = o  BY <2>1, <2>2
  <2> QED  BY <2>3
<1> QED  BY <1>1, <1>5, <1>6 DEF Intact, AllKept

\* Putting an object into the map, over an idle one or none, keeps it intact.
Freed(h, c, u, item) ==
  IF c[u] # None /\ c[u] # item THEN [h EXCEPT ![c[u]] = NoObject] ELSE h

PutInPlace(h, c, u, item, g, d) ==
  /\ g \in [Obj -> CacheRecord] /\ d \in [Url -> Obj \cup {None}]
  /\ \A o \in Obj : o # c[u] \/ o = item => g[o] = h[o]
  /\ c[u] # None /\ c[u] # item => ~Exists(g[c[u]])
  /\ d[u] = item /\ \A w \in Url : w # u => d[w] = c[w]
  /\ Intact(g, d)

LEMMA PutInPlaceIntact ==
  ASSUME NEW h \in [Obj -> CacheRecord], NEW c \in [Url -> Obj \cup {None}],
         NEW u \in Url, NEW item \in Obj, Intact(h, c), Exists(h[item]),
         c[u] = item \/ \A w \in Url : c[w] # item
  PROVE  PutInPlace(h, c, u, item, Freed(h, c, u, item), [c EXCEPT ![u] = item])
<1> DEFINE g == Freed(h, c, u, item)
           d == [c EXCEPT ![u] = item]
<1>1. ~Exists(NoObject) /\ NoObject \in CacheRecord /\ item # None
  BY NewObjectType, ObjAssumption DEF Exists, NoObject, NewObject
<1>2. g \in [Obj -> CacheRecord] /\ d \in [Url -> Obj \cup {None}]
  BY <1>1 DEF Freed
<1>3. /\ \A o \in Obj : o # c[u] \/ o = item => g[o] = h[o]
      /\ c[u] # None /\ c[u] # item => ~Exists(g[c[u]])
      /\ d[u] = item /\ \A w \in Url : w # u => d[w] = c[w]
  BY <1>1 DEF Freed
<1> HIDE DEF g, d
<1>4. ASSUME NEW w \in Url, d[w] # None
      PROVE  /\ Exists(g[d[w]])
             /\ \A v \in Url : d[v] = d[w] => v = w
  <2>1. CASE w = u
    <3>1. Exists(g[item])  BY <1>3
    <3>2. \A v \in Url : v # u => c[v] # item
      BY <1>1 DEF Intact
    <3> QED  BY <1>3, <2>1, <3>1, <3>2
  <2>2. CASE w # u
    <3>1. d[w] = c[w] /\ c[w] # None /\ c[w] \in Obj  BY <1>3, <1>4, <2>2
    <3>2. Exists(h[c[w]]) /\ \A v \in Url : c[v] = c[w] => v = w
      BY <3>1 DEF Intact
    <3>3. c[w] # c[u] /\ c[w] # item
      BY <1>1, <2>2, <3>2 DEF Intact
    <3> QED  BY <1>3, <2>2, <3>1, <3>2, <3>3
  <2> QED  BY <2>1, <2>2
<1>5. Intact(g, d)
  BY <1>4 DEF Intact
<1> QED  BY <1>2, <1>3, <1>5 DEF g, d, PutInPlace

LEMMA AddCacheObjectIntact ==
  ASSUME NEW h \in [Obj -> CacheRecord], NEW c \in [Url -> Obj \cup {None}],
         NEW u \in Url, NEW item \in Obj,
         Intact(h, c), AllKept(h, c, {item}), Exists(h[item]),
         c[u] = item \/ \A w \in Url : c[w] # item
  PROVE  LET r == AddCacheObject(h, c, u, item)
         IN  Intact(r.heap, r.cache) /\ AllKept(r.heap, r.cache, {})
<1>1. ~Exists(NoObject) /\ NoObject \in CacheRecord /\ item # None
  BY NewObjectType, ObjAssumption DEF Exists, NoObject, NewObject
<1>2. CASE DeletesItem(h, c, u, item)
  <2> DEFINE g == [h EXCEPT ![item] = NoObject]
  <2>1. \A w \in Url : c[w] # item
    BY <1>2 DEF DeletesItem
  <2>2. AddCacheObject(h, c, u, item).heap = g
        /\ AddCacheObject(h, c, u, item).cache = c
    BY <1>2 DEF AddCacheObject
  <2>3. /\ \A o \in Obj : o # item => g[o] = h[o]
        /\ ~Exists(g[item])
    BY <1>1
  <2> HIDE DEF g
  <2>4. Intact(g, c)  BY <2>1, <2>3, ObjAssumption DEF Intact
  <2>5. AllKept(g, c, {})  BY <2>3 DEF AllKept
  <2> QED  BY <2>2, <2>4, <2>5
<1>3. CASE ~DeletesItem(h, c, u, item)
  <2> DEFINE g == Freed(h, c, u, item)
             d == [c EXCEPT ![u] = item]
  <2>1. AddCacheObject(h, c, u, item) = CheckCacheSize(g, d, item)
    BY <1>3 DEF AddCacheObject, Freed
  <2>2. PutInPlace(h, c, u, item, g, d)
    BY PutInPlaceIntact
  <2> HIDE DEF g, d
  <2>3. /\ g \in [Obj -> CacheRecord] /\ d \in [Url -> Obj \cup {None}]
        /\ \A o \in Obj : o # c[u] \/ o = item => g[o] = h[o]
        /\ c[u] # None /\ c[u] # item => ~Exists(g[c[u]])
        /\ d[u] = item /\ \A w \in Url : w # u => d[w] = c[w]
    BY <2>2 DEF PutInPlace
  <2>4. Intact(g, d)
    BY <2>2 DEF PutInPlace
  <2>5. AllKept(g, d, {})
    <3> SUFFICES ASSUME NEW o \in Obj, Exists(g[o])
                 PROVE  \E w \in Url : d[w] = o
      BY DEF AllKept
    <3>1. CASE o = item  BY <2>3, <3>1
    <3>2. CASE o # item
      <4>1. o # c[u]  BY <2>3, <3>2, ObjAssumption
      <4>2. Exists(h[o])  BY <2>3, <4>1
      <4>3. PICK w \in Url : c[w] = o  BY <3>2, <4>2 DEF AllKept
      <4> QED  BY <2>3, <4>1, <4>3
    <3> QED  BY <3>1, <3>2
  <2> QED  BY <2>1, <2>3, <2>4, <2>5, CheckCacheSizeIntact
<1> QED  BY <1>2, <1>3

LEMMA DestroyedIntact ==
  ASSUME SeqInv, NEW s \in Open
  PROVE  LET r == Destroyed(st[s])
         IN  /\ Intact(r.heap, r.cache) /\ AllKept(r.heap, r.cache, {})
             /\ "use_after_free" \notin r.bad /\ "leak" \notin r.bad
<1> DEFINE m == st[s]
           o == m.cacheObject
<1>1. /\ o \in Obj /\ Live(o) /\ Use(o) = {} /\ heap[o] \in CacheRecord
      /\ heap \in [Obj -> CacheRecord] /\ HttpCache \in [Url -> Obj \cup {None}]
      /\ m.sURL \in Url /\ m \in Members
  BY OpenStreamsLive DEF SeqInv, TypeInv, TypeOK, StreamsSetUp, Open
<1>2. Intact(heap, HttpCache)
  BY DEF Intact, SeqInv, Custody, MapIntact, Cached
<1>3. Open = {s}
  BY DEF SeqInv, OneAtATime, Open
<1>4. AllKept(heap, HttpCache, {o})
  BY <1>3 DEF AllKept, SeqInv, Custody, NoLeak
<1>5. /\ m.bDeleteCache => \A u \in Url : HttpCache[u] # o
      /\ ~m.bDeleteCache => HttpCache[m.sURL] = o
      /\ m.bStreamFromCache => ~m.bDeleteCache
  BY DEF SeqInv, Custody, SoleDeleter
<1>6. ~Dangling(HttpCache)
  BY <1>2 DEF Dangling, Intact
<1> HIDE DEF m, o
<1>7. ASSUME NEW new \in CacheRecord, Exists(new)
      PROVE  /\ Intact(Update(o, new), HttpCache)
             /\ AllKept(Update(o, new), HttpCache, {o})
             /\ ~m.bDeleteCache => AllKept(Update(o, new), HttpCache, {})
             /\ Update(o, new) \in [Obj -> CacheRecord]
             /\ Exists(Update(o, new)[o])
  <2>1. /\ Update(o, new) = [heap EXCEPT ![o] = new] /\ Exists(heap[o])
    BY <1>1 DEF Update, Live
  <2>2. \A p \in Obj : Exists(Update(o, new)[p]) <=> Exists(heap[p])
    BY <1>1, <1>7, <2>1
  <2>3. Intact(Update(o, new), HttpCache)
    BY <1>1, <1>2, <2>2 DEF Intact
  <2> QED  BY <1>1, <1>4, <1>5, <1>7, <2>1, <2>2, <2>3 DEF AllKept
<1>8. CASE StoreWanted(m)
  <2> DEFINE new == ResetState(FinishBytes(heap[o]))
             g == Update(o, new)
  <2>1. new \in CacheRecord /\ Exists(new)
    <3>1. FinishBytes(heap[o]) \in CacheRecord /\ Exists(FinishBytes(heap[o]))
      BY <1>1, ObjectOps, OperationsKeepObjects
    <3> QED  BY <3>1, ObjectOps, OperationsKeepObjects
  <2>2. Stored(m) = AddCacheObject(g, HttpCache, m.sURL, o)
    BY DEF Stored, o
  <2> HIDE DEF new
  <2>3. /\ Intact(g, HttpCache) /\ AllKept(g, HttpCache, {o})
        /\ Exists(g[o]) /\ g \in [Obj -> CacheRecord]
    BY <1>7, <2>1
  <2> HIDE DEF g
  <2>4. HttpCache[m.sURL] = o \/ \A w \in Url : HttpCache[w] # o
    BY <1>5
  <2>5. Intact(Stored(m).heap, Stored(m).cache)
        /\ AllKept(Stored(m).heap, Stored(m).cache, {})
    BY <1>1, <2>2, <2>3, <2>4, AddCacheObjectIntact
  <2>6. Stored(m).bad \subseteq {"iterator"}
    BY <1>1, <2>2, <2>3, AddCacheObjectType
  <2>7. /\ Destroyed(m).heap = Stored(m).heap
        /\ Destroyed(m).cache = Stored(m).cache
        /\ Destroyed(m).bad = Stored(m).bad
    BY <1>1, <1>6, <1>8 DEF Destroyed, o
  <2> QED  BY <2>5, <2>6, <2>7 DEF m
<1>9. CASE ~StoreWanted(m) /\ FromCache(m)
  <2>1. ~m.bDeleteCache  BY <1>5, <1>9 DEF FromCache
  <2>2. ResetState(heap[o]) \in CacheRecord /\ Exists(ResetState(heap[o]))
    BY <1>1, ObjectOps, OperationsKeepObjects DEF Live
  <2>3. /\ Destroyed(m).heap = Update(o, ResetState(heap[o]))
        /\ Destroyed(m).cache = HttpCache
        /\ Destroyed(m).bad = {}
    BY <1>1, <1>9 DEF Destroyed, o
  <2> QED  BY <1>7, <2>1, <2>2, <2>3 DEF m
<1>10. CASE ~StoreWanted(m) /\ ~FromCache(m) /\ DeletesOwn(m)
  <2> DEFINE g == [heap EXCEPT ![o] = NoObject]
  <2>1. /\ Destroyed(m).heap = g /\ Destroyed(m).cache = HttpCache
        /\ Destroyed(m).bad = {}
    BY <1>1, <1>10 DEF Destroyed, o
  <2>2. \A u \in Url : HttpCache[u] # o  BY <1>5, <1>10 DEF DeletesOwn
  <2>3. /\ \A p \in Obj : p # o => g[p] = heap[p]
        /\ ~Exists(g[o])
    BY <1>1 DEF Exists, NoObject, NewObject
  <2> HIDE DEF g
  <2>4. Intact(g, HttpCache)  BY <1>1, <1>2, <2>2, <2>3 DEF Intact
  <2>5. AllKept(g, HttpCache, {})  BY <1>4, <2>3 DEF AllKept
  <2> QED  BY <2>1, <2>4, <2>5 DEF m
<1>11. CASE ~StoreWanted(m) /\ ~FromCache(m) /\ ~DeletesOwn(m)
  <2>1. /\ Destroyed(m).heap = heap /\ Destroyed(m).cache = HttpCache
        /\ Destroyed(m).bad = {}
    BY <1>11 DEF Destroyed
  <2>2. HttpCache[m.sURL] = o  BY <1>5, <1>11 DEF DeletesOwn
  <2>3. AllKept(heap, HttpCache, {})
    BY <1>1, <1>4, <2>2 DEF AllKept
  <2> QED  BY <1>2, <2>1, <2>3 DEF m
<1> QED  BY <1>8, <1>9, <1>10, <1>11

LEMMA SeqDelete ==
  ASSUME SeqInv, NEW s \in Stream, Delete(s)
  PROVE  SeqInv'
<1> DEFINE r == Destroyed(st[s])
<1>1. TypeInv'  BY TypeDelete DEF SeqInv
<1>2. /\ s \in Open /\ fEasy' = [fEasy EXCEPT ![s] = None]
      /\ heap' = r.heap /\ HttpCache' = r.cache
      /\ faults' = faults \cup r.bad
  BY DEF Delete, Open
<1>3. /\ Intact(r.heap, r.cache) /\ AllKept(r.heap, r.cache, {})
      /\ "use_after_free" \notin r.bad /\ "leak" \notin r.bad
  BY <1>2, DestroyedIntact
<1> HIDE DEF r
<1>4. Open' = {}
  BY <1>2 DEF SeqInv, OneAtATime, TypeInv, TypeOK, Open
<1>5. /\ "use_after_free" \notin faults' /\ "leak" \notin faults'
  BY <1>2, <1>3 DEF SeqInv, Custody, NoUseAfterFree, NoLeak
<1>6. MapIntact'
  BY <1>2, <1>3 DEF MapIntact, Cached, Intact
<1>7. NoLeak'
  BY <1>2, <1>3, <1>5 DEF NoLeak, AllKept
<1>8. SoleDeleter' /\ OnlyBorrowersRevalidate'
  BY <1>4 DEF SoleDeleter, OnlyBorrowersRevalidate
<1> QED
  BY <1>1, <1>5, <1>6, <1>7, <1>8
     DEF SeqInv, Custody, NoUseAfterFree, OneAtATime, NoRedirection

LEMMA SeqElsewhere ==
  ASSUME SeqInv, UNCHANGED vars \/ (\E u \in Url : ServerUpdate(u))
  PROVE  SeqInv'
<1>1. UNCHANGED <<heap, HttpCache, fEasy, st, xfer, faults>>
  BY DEF vars, ServerUpdate, handlerVars
<1>2. TypeInv'  BY TypeStutter, TypeServerUpdate DEF SeqInv
<1>3. Custody'
  BY <1>1 DEF SeqInv, Custody, MapIntact, SoleDeleter, NoUseAfterFree, NoLeak,
              Cached, Open
<1>4. OnlyBorrowersRevalidate'
  BY <1>1 DEF SeqInv, OnlyBorrowersRevalidate, Open
<1> QED  BY <1>2, <1>3, <1>4 DEF SeqInv, OneAtATime, NoRedirection

LEMMA SeqStep == SeqInv /\ [Next]_vars => SeqInv'
<1> SUFFICES ASSUME SeqInv, [Next]_vars PROVE SeqInv'  OBVIOUS
<1>1. CASE \E s \in Stream, u \in Url, mode \in Modes : NewStream(s, u, mode)
  BY <1>1, SeqNewStream
<1>2. CASE \E s \in Stream, n \in 1 .. MaxRead : BeginRead(s, n)
  BY <1>2, SeqBeginRead
<1>3. CASE \E s \in Stream : Delete(s)
  BY <1>3, SeqDelete
<1>4. CASE \E t \in Stream : Transfer(t)
  BY <1>4, SeqHeader, SeqBody DEF Transfer
<1>5. CASE TakeMessage
  BY <1>5, SeqTakeMessage
<1>6. CASE PerformAgain \/ EndRead \/ EndReadFromCache
  BY <1>6, SeqPerformAgain, SeqEndRead
<1>7. CASE UNCHANGED vars \/ \E u \in Url : ServerUpdate(u)
  BY <1>7, SeqElsewhere
<1> QED
  BY <1>1, <1>2, <1>3, <1>4, <1>5, <1>6, <1>7 DEF Next, ReadStep

Sequential == OneAtATime /\ NoRedirection /\ Spec

LEMMA SeqInvariant == Sequential => []SeqInv
BY SeqInit, SeqStep, PTL DEF Sequential, Spec

(***************************************************************************)
(* In spite of drops, error pages, evictions and streams closed at any     *)
(* point, with one stream at a time and no redirects:                      *)
(***************************************************************************)
\* The object of an open stream exists and has one owner, the stream or the
\* map, that will delete it (setupConnection, addCacheObject).
THEOREM SequentialCorrect == Sequential => []SoleDeleter
<1>1. SeqInv => SoleDeleter  BY DEF SeqInv, Custody
<1> QED  BY <1>1, SeqInvariant, PTL

\* Every entry of HttpCache points to a live object of its own: checkCacheSize
\* and the destructor of a stream free no object without its entry.
THEOREM MapCorrect == Sequential => []MapIntact
<1>1. SeqInv => MapIntact  BY DEF SeqInv, Custody
<1> QED  BY <1>1, SeqInvariant, PTL

\* No stream works on a freed object, whatever is evicted or replaced.
THEOREM NoFreedObjectUsed == Sequential => []NoUseAfterFree
<1>1. SeqInv => NoUseAfterFree  BY DEF SeqInv, Custody
<1> QED  BY <1>1, SeqInvariant, PTL

\* Every cache object that setupConnection creates can still be deleted.
THEOREM NothingLeaks == Sequential => []NoLeak
<1>1. SeqInv => NoLeak  BY DEF SeqInv, Custody
<1> QED  BY <1>1, SeqInvariant, PTL

(***************************************************************************)
(* What checkCacheSize frees: its loop as a recursion on the set of keys   *)
(* it examines, and what each turn of it leaves true.                      *)
(***************************************************************************)
\* What is idle and not the object just added can be freed.
CanGo(h, c, item, u) == c[u] # item /\ Idle(h, c[u])

LEMMA LeastKey ==
  ASSUME NEW A, A \subseteq Url, A # {}
  PROVE  Min(A) \in A /\ \A u \in A : Min(A) <= u
<1>1. A \subseteq Nat
  BY UrlAssumption
<1>2. \E u \in A : \A w \in A : u <= w
  BY <1>1, LeastElement
<1> QED  BY <1>2 DEF Min

\* The loop of checkCacheSize as a recursion on the keys still to be examined,
\* the least of them last.
Turns(h, c, item, E, after) ==
  /\ Walk(h, c, item) = after[E]
  /\ after[{}] = [size |-> CacheSize(h, c, Cached(c)), gone |-> {}, bad |-> FALSE]
  /\ \A A \in SUBSET E : A # {} =>
       after[A] = Examine(h, c, item, after[A \ {Min(A)}], Min(A))

LEMMA WalkLoop ==
  ASSUME NEW h \in [Obj -> CacheRecord], NEW c \in [Url -> Obj \cup {None}],
         NEW item, NEW E, E = Cached(c) \ {Min(Cached(c))}, IsFiniteSet(E),
         CacheSize(h, c, Cached(c)) \in Nat
  PROVE  \E after : Turns(h, c, item, E, after)
<1> DEFINE total == CacheSize(h, c, Cached(c))
           start == [size |-> total, gone |-> {}, bad |-> FALSE]
           Fix(g) == g = [A \in SUBSET E |->
                            IF A = {} THEN start
                            ELSE LET x == Min(A)
                                 IN  Examine(h, c, item, g[A \ {x}], x)]
           V == [size : Int, gone : SUBSET E, bad : BOOLEAN]
           pick == [A \in SUBSET E |-> Min(A)]
           step == [p \in E \X V |-> Examine(h, c, item, p[2], p[1])]
<1>1. Walk(h, c, item) = (CHOOSE g : Fix(g))[E]
  BY DEF Walk, MapThenFoldSet
<1>2. E \subseteq Url /\ \A A \in SUBSET E : A # {} => Min(A) \in A
  BY LeastKey DEF Cached
<1>3. Picks(pick, E)
  BY <1>2 DEF Picks
<1>4. start \in V
  OBVIOUS
<1>5. step \in [E \X V -> V]
  <2> SUFFICES ASSUME NEW u \in E, NEW walk \in V
               PROVE  Examine(h, c, item, walk, u) \in V
    OBVIOUS
  <2>1. CASE CanGo(h, c, item, u) /\ walk.size > MAX_CACHE_SIZE
    <3>1. SizeAt(h, c, u) \in Nat
      <4>1. u \in Url /\ c[u] # None
        BY DEF Cached
      <4>2. h[c[u]] \in CacheRecord
        BY <4>1
      <4>3. h[c[u]].zBuffer \in Seq(Piece)
        BY <4>2 DEF CacheRecord
      <4> QED  BY <4>3 DEF SizeAt, BufferSize
    <3> DEFINE left == walk.size - SizeAt(h, c, u)
    <3>2. left \in Int
      BY <3>1
    <3>3. Examine(h, c, item, walk, u) =
            [size |-> left, gone |-> walk.gone \cup {u},
             bad |-> walk.bad \/ left > MAX_CACHE_SIZE]
      BY <2>1 DEF Examine, CanGo
    <3>4. (walk.bad \/ left > MAX_CACHE_SIZE) \in BOOLEAN
      OBVIOUS
    <3> HIDE DEF left
    <3> QED  BY <3>2, <3>3, <3>4
  <2>2. CASE ~(CanGo(h, c, item, u) /\ walk.size > MAX_CACHE_SIZE)
    BY <2>2 DEF Examine, CanGo
  <2> QED  BY <2>1, <2>2
<1> HIDE DEF start, V
<1>6. PICK g \in [SUBSET E -> V] : FoldsOver(g, E, pick, start, step)
  <2> HIDE DEF pick, step
  <2> QED  BY <1>3, <1>4, <1>5, FoldExists
<1>7. Fix(g)
  <2>1. ASSUME NEW A \in SUBSET E
        PROVE  g[A] = IF A = {} THEN start
                      ELSE Examine(h, c, item, g[A \ {Min(A)}], Min(A))
    <3>1. g[A] = IF A = {} THEN start ELSE step[<<pick[A], g[A \ {pick[A]}]>>]
      BY <1>6 DEF FoldsOver
    <3>2. A # {} => Min(A) \in E /\ g[A \ {Min(A)}] \in V
      BY <1>2
    <3> QED  BY <3>1, <3>2
  <2>2. g = [A \in SUBSET E |-> g[A]]
    OBVIOUS
  <2> QED  BY <2>1, <2>2
<1> DEFINE after == CHOOSE f : Fix(f)
<1>8. Fix(after)
  <2> HIDE DEF Fix
  <2> QED  BY <1>7
<1>9. /\ after[{}] = start
      /\ \A A \in SUBSET E : A # {} =>
           after[A] = Examine(h, c, item, after[A \ {Min(A)}], Min(A))
  <2> HIDE DEF after
  <2> QED  BY <1>8
<1> QED  BY <1>1, <1>9 DEF start, Turns

(***************************************************************************)
(* The total of getBufferSize: taking any entry out takes its size off.    *)
(***************************************************************************)
AnyOf(A) == CHOOSE u \in A : TRUE

LEMMA SizeAtType ==
  ASSUME NEW h \in [Obj -> CacheRecord], NEW c \in [Url -> Obj \cup {None}],
         NEW u \in Cached(c)
  PROVE  SizeAt(h, c, u) \in Nat
<1>1. u \in Url /\ c[u] # None
  BY DEF Cached
<1>2. h[c[u]] \in CacheRecord
  BY <1>1
<1>3. h[c[u]].zBuffer \in Seq(Piece)
  BY <1>2 DEF CacheRecord
<1> QED  BY <1>3 DEF SizeAt, BufferSize

LEMMA SizeLoop ==
  ASSUME NEW h \in [Obj -> CacheRecord], NEW c \in [Url -> Obj \cup {None}],
         NEW A, A \subseteq Cached(c), IsFiniteSet(A)
  PROVE  \E sum \in [SUBSET A -> Nat] :
           /\ CacheSize(h, c, A) = sum[A]
           /\ sum[{}] = 0
           /\ \A B \in SUBSET A : B # {} =>
                sum[B] = SizeAt(h, c, AnyOf(B)) + sum[B \ {AnyOf(B)}]
<1> DEFINE Fix(g) == g = [B \in SUBSET A |->
                            IF B = {} THEN 0
                            ELSE LET x == CHOOSE u \in B : TRUE
                                 IN  SizeAt(h, c, x) + g[B \ {x}]]
           pick == [B \in SUBSET A |-> AnyOf(B)]
           step == [p \in A \X Nat |-> SizeAt(h, c, p[1]) + p[2]]
<1>1. CacheSize(h, c, A) = (CHOOSE g : Fix(g))[A]
  BY DEF CacheSize, MapThenSumSet, MapThenFoldSet
<1>2. \A B \in SUBSET A : B # {} => AnyOf(B) \in B
  BY DEF AnyOf
<1>3. Picks(pick, A)
  BY <1>2 DEF Picks
<1>4. step \in [A \X Nat -> Nat]
  BY SizeAtType
<1>5. PICK g \in [SUBSET A -> Nat] : FoldsOver(g, A, pick, 0, step)
  <2> HIDE DEF pick, step
  <2> QED  BY <1>3, <1>4, FoldExists
<1>6. ASSUME NEW B \in SUBSET A
      PROVE  g[B] = IF B = {} THEN 0
                    ELSE SizeAt(h, c, AnyOf(B)) + g[B \ {AnyOf(B)}]
  <2>1. g[B] = IF B = {} THEN 0 ELSE step[<<pick[B], g[B \ {pick[B]}]>>]
    BY <1>5 DEF FoldsOver
  <2>2. B # {} => AnyOf(B) \in A /\ g[B \ {AnyOf(B)}] \in Nat
    BY <1>2
  <2> QED  BY <2>1, <2>2
<1>7. Fix(g)
  <2>1. g = [B \in SUBSET A |-> g[B]]
    OBVIOUS
  <2> QED  BY <1>6, <2>1 DEF AnyOf
<1> DEFINE sum == CHOOSE f : Fix(f)
<1>8. Fix(sum)
  <2> HIDE DEF Fix
  <2> QED  BY <1>7
<1>9. /\ sum[{}] = 0
      /\ \A B \in SUBSET A : B # {} =>
           sum[B] = SizeAt(h, c, AnyOf(B)) + sum[B \ {AnyOf(B)}]
  <2> HIDE DEF sum
  <2> QED  BY <1>8 DEF AnyOf
<1>10. sum \in [SUBSET A -> Nat]
  <2> DEFINE T == {B \in SUBSET A : sum[B] \in Nat}
  <2>1. {} \in T
    BY <1>9
  <2>2. ASSUME NEW B \in SUBSET A, B # {}, B \ {pick[B]} \in T
        PROVE  B \in T
    <3>1. SizeAt(h, c, AnyOf(B)) \in Nat
      BY <1>2, <2>2, SizeAtType
    <3>2. sum[B \ {AnyOf(B)}] \in Nat
      BY <2>2
    <3>3. sum[B] = SizeAt(h, c, AnyOf(B)) + sum[B \ {AnyOf(B)}]
      BY <1>9, <2>2
    <3> HIDE DEF sum
    <3> QED  BY <3>1, <3>2, <3>3
  <2>3. \A B \in SUBSET A : B \in T
    <3> HIDE DEF T, pick
    <3> QED  BY <1>3, <2>1, <2>2, SubsetClaim
  <2>4. sum = [B \in SUBSET A |-> sum[B]]
    <3> HIDE DEF sum
    <3> QED  BY <1>8
  <2> HIDE DEF sum
  <2> QED  BY <2>3, <2>4
<1> QED  BY <1>1, <1>9, <1>10

LEMMA SizeByChoice ==
  ASSUME NEW h \in [Obj -> CacheRecord], NEW c \in [Url -> Obj \cup {None}],
         NEW A, A \subseteq Cached(c), IsFiniteSet(A)
  PROVE  /\ CacheSize(h, c, A) \in Nat
         /\ A = {} => CacheSize(h, c, A) = 0
         /\ A # {} => CacheSize(h, c, A) = SizeAt(h, c, AnyOf(A))
                                           + CacheSize(h, c, A \ {AnyOf(A)})
<1>1. PICK sum \in [SUBSET A -> Nat] :
        /\ CacheSize(h, c, A) = sum[A]
        /\ sum[{}] = 0
        /\ \A B \in SUBSET A : B # {} =>
             sum[B] = SizeAt(h, c, AnyOf(B)) + sum[B \ {AnyOf(B)}]
  BY SizeLoop
<1>2. ASSUME A # {}
      PROVE  CacheSize(h, c, A \ {AnyOf(A)}) = sum[A \ {AnyOf(A)}]
  <2> DEFINE R == A \ {AnyOf(A)}
             pick == [B \in SUBSET R |-> AnyOf(B)]
  <2>1. R \subseteq Cached(c) /\ IsFiniteSet(R) /\ R \subseteq A
    BY FS_RemoveElement
  <2>2. PICK less \in [SUBSET R -> Nat] :
          /\ CacheSize(h, c, R) = less[R]
          /\ less[{}] = 0
          /\ \A B \in SUBSET R : B # {} =>
               less[B] = SizeAt(h, c, AnyOf(B)) + less[B \ {AnyOf(B)}]
    <3> HIDE DEF R
    <3> QED  BY <2>1, SizeLoop
  <2> DEFINE T == {B \in SUBSET R : less[B] = sum[B]}
  <2> HIDE DEF R
  <2>3. {} \in T
    BY <1>1, <2>2
  <2>4. ASSUME NEW B \in SUBSET R, B # {}, B \ {pick[B]} \in T
        PROVE  B \in T
    <3>1. B \in SUBSET A
      BY <2>1
    <3>2. less[B \ {AnyOf(B)}] = sum[B \ {AnyOf(B)}]
      BY <2>4
    <3>3. less[B] = SizeAt(h, c, AnyOf(B)) + less[B \ {AnyOf(B)}]
      BY <2>2, <2>4
    <3>4. sum[B] = SizeAt(h, c, AnyOf(B)) + sum[B \ {AnyOf(B)}]
      BY <1>1, <2>4, <3>1
    <3> QED  BY <3>2, <3>3, <3>4
  <2>5. Picks(pick, R)
    BY DEF Picks, AnyOf
  <2>6. \A B \in SUBSET R : B \in T
    <3> HIDE DEF T, pick
    <3> QED  BY <2>1, <2>3, <2>4, <2>5, SubsetClaim
  <2>7. less[R] = sum[R]
    BY <2>6
  <2> QED  BY <2>2, <2>7 DEF R
<1> QED  BY <1>1, <1>2

LEMMA SizeWithout ==
  ASSUME NEW h \in [Obj -> CacheRecord], NEW c \in [Url -> Obj \cup {None}],
         NEW A, A \subseteq Cached(c), IsFiniteSet(A), NEW x \in A
  PROVE  CacheSize(h, c, A) = SizeAt(h, c, x) + CacheSize(h, c, A \ {x})
<1> DEFINE Holds(B) == \A u \in B :
                         CacheSize(h, c, B) = SizeAt(h, c, u) + CacheSize(h, c, B \ {u})
           T == {n \in Nat : \A B \in SUBSET A : Cardinality(B) = n => Holds(B)}
<1>1. \A B \in SUBSET A : B \subseteq Cached(c) /\ IsFiniteSet(B)
                          /\ CacheSize(h, c, B) \in Nat
                          /\ Cardinality(B) \in Nat
  BY FS_Subset, FS_CardinalityType, SizeByChoice
<1>2. 0 \in T
  BY <1>1, FS_EmptySet
<1>3. ASSUME NEW n \in Nat, n \in T, NEW B \in SUBSET A, Cardinality(B) = n + 1,
             NEW u \in B
      PROVE  CacheSize(h, c, B) = SizeAt(h, c, u) + CacheSize(h, c, B \ {u})
  <2> DEFINE y == AnyOf(B)
             R == (B \ {y}) \ {u}
  <2>1. y \in B
    BY DEF AnyOf
  <2>2. CacheSize(h, c, B) = SizeAt(h, c, y) + CacheSize(h, c, B \ {y})
    BY <1>1, SizeByChoice
  <2> HIDE DEF y
  <2>3. CASE y = u
    BY <2>2, <2>3
  <2>4. CASE y # u
    <3>1. /\ B \ {y} \in SUBSET A /\ B \ {u} \in SUBSET A
          /\ R \in SUBSET A /\ R = (B \ {u}) \ {y}
          /\ u \in B \ {y} /\ y \in B \ {u}
      BY <2>1, <2>4
    <3>2. ASSUME NEW z \in B PROVE Cardinality(B \ {z}) = n
      <4>1. IsFiniteSet(B)
        BY <1>1
      <4>2. Cardinality(B \ {z}) = Cardinality(B) - 1
        BY <4>1, FS_RemoveElement
      <4> QED  BY <1>3, <4>2
    <3>3. CacheSize(h, c, B \ {y}) = SizeAt(h, c, u) + CacheSize(h, c, R)
      BY <1>3, <2>1, <3>1, <3>2
    <3>4. CacheSize(h, c, B \ {u}) = SizeAt(h, c, y) + CacheSize(h, c, R)
      BY <1>3, <2>1, <3>1, <3>2
    <3>5. /\ SizeAt(h, c, u) \in Nat /\ SizeAt(h, c, y) \in Nat
          /\ CacheSize(h, c, R) \in Nat
      BY <1>1, <2>1, <3>1, SizeAtType
    <3> QED  BY <2>2, <3>3, <3>4, <3>5
  <2> QED  BY <2>3, <2>4
<1>4. Nat \subseteq T
  <2>1. \A n \in Nat : n \in T => n + 1 \in T
    BY <1>3
  <2> HIDE DEF T
  <2> QED  BY <1>2, <2>1, Reaches
<1>5. Cardinality(A) \in T
  BY <1>1, <1>4
<1> QED  BY <1>5

LEMMA SizeSame ==
  ASSUME NEW h \in [Obj -> CacheRecord], NEW c \in [Url -> Obj \cup {None}],
         NEW g \in [Obj -> CacheRecord], NEW d \in [Url -> Obj \cup {None}],
         NEW A, A \subseteq Cached(c), A \subseteq Cached(d), IsFiniteSet(A),
         \A u \in A : SizeAt(h, c, u) = SizeAt(g, d, u)
  PROVE  CacheSize(h, c, A) = CacheSize(g, d, A)
<1> DEFINE pick == [B \in SUBSET A |-> AnyOf(B)]
           T == {B \in SUBSET A : CacheSize(h, c, B) = CacheSize(g, d, B)}
<1>1. \A B \in SUBSET A : B \subseteq Cached(c) /\ B \subseteq Cached(d)
                          /\ IsFiniteSet(B)
  BY FS_Subset
<1>2. {} \in T
  BY <1>1, SizeByChoice
<1>3. ASSUME NEW B \in SUBSET A, B # {}, B \ {pick[B]} \in T
      PROVE  B \in T
  <2>1. CacheSize(h, c, B \ {AnyOf(B)}) = CacheSize(g, d, B \ {AnyOf(B)})
    BY <1>3
  <2>2. SizeAt(h, c, AnyOf(B)) = SizeAt(g, d, AnyOf(B))
    BY <1>3 DEF AnyOf
  <2>3. CacheSize(h, c, B) = SizeAt(h, c, AnyOf(B)) + CacheSize(h, c, B \ {AnyOf(B)})
    BY <1>1, <1>3, SizeByChoice
  <2>4. CacheSize(g, d, B) = SizeAt(g, d, AnyOf(B)) + CacheSize(g, d, B \ {AnyOf(B)})
    BY <1>1, <1>3, SizeByChoice
  <2> QED  BY <2>1, <2>2, <2>3, <2>4
<1>4. Picks(pick, A)
  BY DEF Picks, AnyOf
<1>5. \A B \in SUBSET A : B \in T
  <2> HIDE DEF T, pick
  <2> QED  BY <1>2, <1>3, <1>4, SubsetClaim
<1> QED  BY <1>5

(***************************************************************************)
(* What is known when a set A of keys has been examined, the least last:   *)
(* the size counted is that of what is left; nothing has been freed that   *)
(* is in use, or is the object just added, or was not examined; above the  *)
(* limit nothing that could be freed was passed over; and before the last  *)
(* entry was freed the size was above the limit.                           *)
(***************************************************************************)
Walked(h, c, item, A, walk) ==
  /\ walk.gone \subseteq A
  /\ walk.size = CacheSize(h, c, Cached(c) \ walk.gone)
  /\ \A u \in walk.gone : CanGo(h, c, item, u)
  /\ walk.size > MAX_CACHE_SIZE =>
       \A u \in A : CanGo(h, c, item, u) => u \in walk.gone
  /\ walk.gone # {} =>
       walk.size + SizeAt(h, c, Min(walk.gone)) > MAX_CACHE_SIZE

LEMMA LeastOf ==
  ASSUME NEW A, A \subseteq Url, NEW x \in A, \A u \in A : x <= u
  PROVE  Min(A) = x
<1>1. Min(A) \in A /\ Min(A) <= x
  BY LeastKey
<1>2. x <= Min(A) /\ x \in Nat /\ Min(A) \in Nat
  BY <1>1, UrlAssumption
<1> QED  BY <1>1, <1>2

LEMMA WalkTurn ==
  ASSUME NEW h \in [Obj -> CacheRecord], NEW c \in [Url -> Obj \cup {None}],
         NEW item, IsFiniteSet(Cached(c)),
         NEW A, A \subseteq Cached(c), A # {},
         NEW walk, Walked(h, c, item, A \ {Min(A)}, walk)
  PROVE  Walked(h, c, item, A, Examine(h, c, item, walk, Min(A)))
<1> DEFINE x == Min(A)
           left == walk.size - SizeAt(h, c, x)
           kept == Cached(c) \ walk.gone
<1>1. x \in A /\ \A u \in A : x <= u
  BY LeastKey DEF Cached
<1>2. x \notin walk.gone /\ walk.gone \subseteq A /\ x \in kept
  BY <1>1 DEF Walked
<1>3. /\ SizeAt(h, c, x) \in Nat /\ kept \subseteq Cached(c)
      /\ IsFiniteSet(kept) /\ walk.size = CacheSize(h, c, kept)
      /\ walk.size \in Nat
  <2>1. kept \subseteq Cached(c) /\ IsFiniteSet(kept)
    BY FS_Subset
  <2>2. walk.size = CacheSize(h, c, kept)
    BY DEF Walked
  <2>3. CacheSize(h, c, kept) \in Nat
    <3> HIDE DEF kept
    <3> QED  BY <2>1, SizeByChoice
  <2> QED  BY <1>1, <2>1, <2>2, <2>3, SizeAtType
<1>4. CASE walk.size > MAX_CACHE_SIZE /\ CanGo(h, c, item, x)
  <2> DEFINE next == [size |-> left, gone |-> walk.gone \cup {x},
                      bad |-> walk.bad \/ left > MAX_CACHE_SIZE]
  <2>1. Examine(h, c, item, walk, x) = next
    BY <1>4 DEF Examine, CanGo
  <2>2. next.size = left /\ next.gone = walk.gone \cup {x}
    OBVIOUS
  <2> HIDE DEF next
  <2>3. left = CacheSize(h, c, Cached(c) \ next.gone)
    <3>1. Cached(c) \ next.gone = kept \ {x}
      BY <2>2
    <3>2. kept \ {x} \subseteq Cached(c) /\ IsFiniteSet(kept \ {x})
      BY <1>3, FS_RemoveElement
    <3> HIDE DEF kept, x
    <3>3. CacheSize(h, c, kept) = SizeAt(h, c, x) + CacheSize(h, c, kept \ {x})
      BY <1>2, <1>3, SizeWithout
    <3>4. CacheSize(h, c, kept \ {x}) \in Nat
      BY <3>2, SizeByChoice
    <3>5. left = CacheSize(h, c, kept \ {x})
      BY <1>3, <3>3, <3>4
    <3> QED  BY <3>1, <3>5
  <2>4. Min(next.gone) = x
    <3>1. next.gone \subseteq Url /\ x \in next.gone /\ \A u \in next.gone : x <= u
      BY <1>1, <1>2, <2>2 DEF Cached
    <3> HIDE DEF x
    <3> QED  BY <3>1, LeastOf
  <2>5. left + SizeAt(h, c, x) > MAX_CACHE_SIZE
    BY <1>3, <1>4, CacheSizeAssumption
  <2>6. \A u \in A : CanGo(h, c, item, u) => u \in next.gone
    BY <1>4, <2>2 DEF Walked
  <2>7. \A u \in next.gone : CanGo(h, c, item, u)
    BY <1>4, <2>2 DEF Walked
  <2>8. next.gone \subseteq A
    BY <1>1, <1>2, <2>2
  <2> QED  BY <2>1, <2>2, <2>3, <2>4, <2>5, <2>6, <2>7, <2>8 DEF Walked
<1>5. CASE ~(walk.size > MAX_CACHE_SIZE /\ CanGo(h, c, item, x))
  <2>1. Examine(h, c, item, walk, x) = walk
    BY <1>5 DEF Examine, CanGo
  <2>2. walk.size > MAX_CACHE_SIZE => \A u \in A : CanGo(h, c, item, u) => u \in walk.gone
    BY <1>5 DEF Walked
  <2> QED  BY <1>2, <2>1, <2>2 DEF Walked
<1> QED  BY <1>4, <1>5

LEMMA WalkDone ==
  ASSUME NEW h \in [Obj -> CacheRecord], NEW c \in [Url -> Obj \cup {None}],
         NEW item, IsFiniteSet(Cached(c))
  PROVE  Walked(h, c, item, Cached(c) \ {Min(Cached(c))}, Walk(h, c, item))
<1> DEFINE E == Cached(c) \ {Min(Cached(c))}
           total == CacheSize(h, c, Cached(c))
           start == [size |-> total, gone |-> {}, bad |-> FALSE]
           pick == [A \in SUBSET E |-> Min(A)]
<1>1. IsFiniteSet(E) /\ E \subseteq Cached(c) /\ E \subseteq Url
  BY FS_RemoveElement DEF Cached
<1>2. total \in Nat
  BY SizeByChoice
<1> HIDE DEF E
<1>3. PICK after : Turns(h, c, item, E, after)
  BY <1>1, <1>2, WalkLoop DEF E
<1>4. Picks(pick, E)
  BY <1>1, LeastKey DEF Picks
<1> DEFINE T == {A \in SUBSET E : Walked(h, c, item, A, after[A])}
<1>5. {} \in T
  <2>1. start.gone = {} /\ start.size = total /\ Cached(c) \ {} = Cached(c)
    OBVIOUS
  <2> QED  BY <1>3, <2>1 DEF Walked, Turns
<1>6. ASSUME NEW A \in SUBSET E, A # {}, A \ {pick[A]} \in T
      PROVE  A \in T
  <2>1. Walked(h, c, item, A \ {Min(A)}, after[A \ {Min(A)}])
    BY <1>6
  <2>2. A \subseteq Cached(c)
    BY <1>1
  <2>3. Walked(h, c, item, A, Examine(h, c, item, after[A \ {Min(A)}], Min(A)))
    BY <1>6, <2>1, <2>2, WalkTurn
  <2> QED  BY <1>3, <1>6, <2>3 DEF Turns
<1>7. \A A \in SUBSET E : A \in T
  <2> HIDE DEF T, pick
  <2> QED  BY <1>1, <1>4, <1>5, <1>6, SubsetClaim
<1>8. Walked(h, c, item, E, Walk(h, c, item))
  BY <1>3, <1>7 DEF Turns
<1> QED  BY <1>8 DEF E

\* What checkCacheSize leaves is what the walk has not freed, unchanged; so
\* the size the walk has counted is that of the cache it leaves.
Leaves(h, c, item, walk, r) ==
  /\ Walked(h, c, item, Cached(c) \ {Min(Cached(c))}, walk)
  /\ Cached(r.cache) = Cached(c) \ walk.gone
  /\ IsFiniteSet(Cached(r.cache))
  /\ \A u \in Cached(r.cache) : r.cache[u] = c[u] /\ r.heap[c[u]] = h[c[u]]
  /\ CacheSize(r.heap, r.cache, Cached(r.cache)) = walk.size

LEMMA CheckCacheSizeLeaves ==
  ASSUME NEW h \in [Obj -> CacheRecord], NEW c \in [Url -> Obj \cup {None}],
         NEW item, Intact(h, c), IsFiniteSet(Cached(c))
  PROVE  Leaves(h, c, item, Walk(h, c, item), CheckCacheSize(h, c, item))
<1> DEFINE walk == Walk(h, c, item)
           r == CheckCacheSize(h, c, item)
           g == [o \in Obj |-> IF \E u \in Url : u \in walk.gone /\ c[u] = o
                               THEN NoObject ELSE h[o]]
           d == [u \in Url |-> IF u \in walk.gone THEN None ELSE c[u]]
<1>1. r.heap = g /\ r.cache = d
  BY DEF CheckCacheSize
<1>2. Walked(h, c, item, Cached(c) \ {Min(Cached(c))}, walk)
  BY WalkDone
<1>3. walk.gone \subseteq Cached(c) /\ walk.size = CacheSize(h, c, Cached(c) \ walk.gone)
  BY <1>2 DEF Walked
<1>4. Cached(d) = Cached(c) \ walk.gone /\ \A u \in Cached(d) : d[u] = c[u]
  BY DEF Cached
<1>5. IsFiniteSet(Cached(d)) /\ Cached(d) \subseteq Cached(c)
  BY <1>4, FS_Subset
<1>6. g \in [Obj -> CacheRecord] /\ d \in [Url -> Obj \cup {None}]
  BY NewObjectType
<1>7. ASSUME NEW u \in Cached(d) PROVE g[c[u]] = h[c[u]]
  <2>1. u \in Url /\ c[u] \in Obj /\ u \notin walk.gone
    BY <1>4 DEF Cached
  <2>2. \A w \in Url : c[w] = c[u] => w = u
    BY <2>1, ObjAssumption DEF Intact
  <2> QED  BY <2>1, <2>2
<1> HIDE DEF g, d
<1>8. \A u \in Cached(d) : SizeAt(h, c, u) = SizeAt(g, d, u)
  BY <1>4, <1>7 DEF SizeAt
<1>9. CacheSize(h, c, Cached(d)) = CacheSize(g, d, Cached(d))
  BY <1>5, <1>6, <1>8, SizeSame
<1> HIDE DEF walk, r
<1>10. Leaves(h, c, item, walk, r)
  BY <1>1, <1>2, <1>3, <1>4, <1>5, <1>7, <1>9 DEF Leaves
<1> QED  BY <1>10 DEF walk, r

(***************************************************************************)
(* The map is finite: the destructor adds one entry at most, and nothing   *)
(* else adds any.                                                          *)
(***************************************************************************)
FiniteCache == IsFiniteSet(Cached(HttpCache))

\* The destructor of s puts its object into the map c, of objects h, and
\* leaves what checkCacheSize does not free of it.
PutsInto(s, h, c) ==
  /\ StoreWanted(st[s])
  /\ h \in [Obj -> CacheRecord] /\ c \in [Url -> Obj \cup {None}]
  /\ c = [HttpCache EXCEPT ![st[s].sURL] = st[s].cacheObject]
  /\ Intact(h, c) /\ IsFiniteSet(Cached(c))
  /\ heap' = CheckCacheSize(h, c, st[s].cacheObject).heap
  /\ HttpCache' = CheckCacheSize(h, c, st[s].cacheObject).cache
  /\ \A u \in Cached(c) : c[u] # st[s].cacheObject => h[c[u]] = heap[c[u]]

LEMMA DestructorStores ==
  ASSUME SeqInv, FiniteCache, NEW s \in Stream, Delete(s)
  PROVE  \/ /\ HttpCache' = HttpCache /\ ~Stores(s)
         \/ \E h, c : PutsInto(s, h, c)
<1> DEFINE m == st[s]
           o == m.cacheObject
           u == m.sURL
           new == ResetState(FinishBytes(heap[o]))
           f == Update(o, new)
           g == Freed(f, HttpCache, u, o)
           d == [HttpCache EXCEPT ![u] = o]
<1>1. /\ s \in Open /\ heap' = Destroyed(m).heap /\ HttpCache' = Destroyed(m).cache
      /\ faults' = faults \cup Destroyed(m).bad
  BY DEF Delete, Open
<1>2. /\ o \in Obj /\ Live(o) /\ heap[o] \in CacheRecord
      /\ heap \in [Obj -> CacheRecord] /\ HttpCache \in [Url -> Obj \cup {None}]
      /\ u \in Url /\ o # None
  BY <1>1, OpenStreamsLive, ObjAssumption
     DEF SeqInv, TypeInv, TypeOK, StreamsSetUp, Open
<1>3. HttpCache[u] = o \/ \A w \in Url : HttpCache[w] # o
  BY <1>1 DEF SeqInv, Custody, SoleDeleter
<1>4. Intact(heap, HttpCache)
  BY DEF Intact, SeqInv, Custody, MapIntact, Cached
<1>5. new \in CacheRecord /\ Exists(new)
  <2>1. FinishBytes(heap[o]) \in CacheRecord /\ Exists(FinishBytes(heap[o]))
    BY <1>2, ObjectOps, OperationsKeepObjects
  <2> QED  BY <2>1, ObjectOps, OperationsKeepObjects
<1>6. /\ f \in [Obj -> CacheRecord] /\ Exists(f[o])
      /\ \A p \in Obj : p # o => f[p] = heap[p]
      /\ \A p \in Obj : Exists(f[p]) <=> Exists(heap[p])
  <2> HIDE DEF new, o
  <2>1. f = [heap EXCEPT ![o] = new]
    BY <1>2 DEF Update
  <2> QED  BY <1>2, <1>5, <2>1 DEF Live
<1>7. Intact(f, HttpCache)
  BY <1>2, <1>4, <1>6 DEF Intact
<1>8. CASE ~StoreWanted(m)
  <2>1. HttpCache' = HttpCache
    BY <1>1, <1>8 DEF Destroyed
  <2> QED  BY <1>8, <2>1 DEF Stores
<1>10. CASE StoreWanted(m) /\ DeletesItem(f, HttpCache, u, o)
  <2>1. HttpCache' = HttpCache
    BY <1>1, <1>10 DEF Destroyed, Stored, AddCacheObject
  <2>2. HttpCache[u] # o
    BY <1>10 DEF DeletesItem
  <2> QED  BY <2>1, <2>2 DEF Stores
<1>11. CASE StoreWanted(m) /\ ~DeletesItem(f, HttpCache, u, o)
  <2>1. /\ heap' = CheckCacheSize(g, d, o).heap
        /\ HttpCache' = CheckCacheSize(g, d, o).cache
    BY <1>1, <1>11 DEF Destroyed, Stored, AddCacheObject, Freed
  <2> HIDE DEF f, g, d, o, u, m, new
  <2>4. /\ g \in [Obj -> CacheRecord] /\ d \in [Url -> Obj \cup {None}]
        /\ \A p \in Obj : p # HttpCache[u] \/ p = o => g[p] = f[p]
        /\ d[u] = o /\ \A w \in Url : w # u => d[w] = HttpCache[w]
        /\ Intact(g, d)
    <3>1. /\ f \in [Obj -> CacheRecord] /\ HttpCache \in [Url -> Obj \cup {None}]
          /\ u \in Url /\ o \in Obj /\ Intact(f, HttpCache) /\ Exists(f[o])
          /\ HttpCache[u] = o \/ \A w \in Url : HttpCache[w] # o
      BY <1>2, <1>3, <1>6, <1>7
    <3>2. PutInPlace(f, HttpCache, u, o, g, d)
      BY <3>1, PutInPlaceIntact DEF g, d
    <3> QED  BY <3>2 DEF PutInPlace
  <2>5. IsFiniteSet(Cached(d))
    <3>1. Cached(d) = Cached(HttpCache) \cup {u}
      BY <1>2, <2>4 DEF Cached
    <3> QED  BY <3>1, FS_AddElement DEF FiniteCache
  <2>6. ASSUME NEW w \in Cached(d), d[w] # o PROVE g[d[w]] = heap[d[w]]
    <3>1. w \in Url /\ w # u /\ d[w] = HttpCache[w] /\ HttpCache[w] \in Obj
      BY <1>2, <2>4, <2>6 DEF Cached
    <3>2. HttpCache[w] # HttpCache[u]
      BY <1>2, <1>4, <3>1, ObjAssumption DEF Intact
    <3> QED  BY <1>6, <2>4, <2>6, <3>1, <3>2
  <2>7. PutsInto(s, g, d)
    <3>1. /\ d = [HttpCache EXCEPT ![st[s].sURL] = st[s].cacheObject]
          /\ o = st[s].cacheObject /\ m = st[s]
      BY DEF d, u, o, m
    <3> QED  BY <1>11, <2>1, <2>4, <2>5, <2>6, <3>1 DEF PutsInto
  <2> QED  BY <2>7
<1> QED  BY <1>8, <1>10, <1>11

LEMMA DestructorFinite ==
  ASSUME SeqInv, FiniteCache, NEW s \in Stream, Delete(s)
  PROVE  FiniteCache'
<1>1. CASE HttpCache' = HttpCache
  BY <1>1 DEF FiniteCache, Cached
<1>2. CASE \E h, c : PutsInto(s, h, c)
  <2>1. PICK h, c : PutsInto(s, h, c)
    BY <1>2
  <2> DEFINE o == st[s].cacheObject
             r == CheckCacheSize(h, c, o)
  <2>2. /\ h \in [Obj -> CacheRecord] /\ c \in [Url -> Obj \cup {None}]
        /\ Intact(h, c) /\ IsFiniteSet(Cached(c))
    BY <2>1 DEF PutsInto
  <2>3. IsFiniteSet(Cached(r.cache))
    <3>1. Leaves(h, c, o, Walk(h, c, o), r)
      BY <2>2, CheckCacheSizeLeaves
    <3> HIDE DEF r
    <3> QED  BY <3>1 DEF Leaves
  <2>4. HttpCache' = r.cache
    BY <2>1 DEF PutsInto
  <2> HIDE DEF r
  <2> QED  BY <2>3, <2>4 DEF FiniteCache, Cached
<1> QED  BY <1>1, <1>2, DestructorStores

\* Only the destructor changes the map.
LEMMA MapElsewhere ==
  ASSUME [Next]_vars, \A s \in Stream : ~Delete(s)
  PROVE  HttpCache' = HttpCache
<1>1. CASE \E s \in Stream, u \in Url, mode \in Modes : NewStream(s, u, mode)
  BY <1>1 DEF NewStream
<1>2. CASE \E s \in Stream, n \in 1 .. MaxRead : BeginRead(s, n)
  BY <1>2 DEF BeginRead, handlerVars
<1>3. CASE \E t \in Stream : Transfer(t)
  BY <1>3 DEF Transfer, Header, Data, Complete, Fail, handlerVars
<1>4. CASE TakeMessage
  BY <1>4 DEF TakeMessage, TakeFinished, TakeUnmodified, TakeRedirect, TakeError,
              handlerVars
<1>5. CASE PerformAgain \/ EndRead \/ EndReadFromCache
  BY <1>5 DEF PerformAgain, EndRead, EndReadFromCache, handlerVars
<1>6. CASE UNCHANGED vars \/ \E u \in Url : ServerUpdate(u)
  BY <1>6 DEF vars, ServerUpdate, handlerVars
<1> QED
  BY <1>1, <1>2, <1>3, <1>4, <1>5, <1>6 DEF Next, ReadStep

LEMMA FiniteStep == SeqInv /\ FiniteCache /\ [Next]_vars => FiniteCache'
<1> SUFFICES ASSUME SeqInv, FiniteCache, [Next]_vars PROVE FiniteCache'
  OBVIOUS
<1>1. CASE \E s \in Stream : Delete(s)
  BY <1>1, DestructorFinite
<1>2. CASE \A s \in Stream : ~Delete(s)
  BY <1>2, MapElsewhere DEF FiniteCache, Cached
<1> QED  BY <1>1, <1>2

LEMMA FiniteInvariant == Sequential => []FiniteCache
<1>1. Init => FiniteCache
  <2>1. Init => Cached(HttpCache) = {}
    BY DEF Init, HandlerInit, Cached
  <2> QED  BY <2>1, FS_EmptySet DEF FiniteCache
<1> QED  BY <1>1, FiniteStep, SeqInvariant, PTL DEF Sequential, Spec

LEMMA DestructorReachesLimit ==
  ASSUME SeqInv, FiniteCache, NEW s \in Stream, Delete(s), Stores(s)
  PROVE  \/ CacheSizeNow' <= MAX_CACHE_SIZE
         \/ \A u \in Cached(HttpCache') \ {Min(Cached(HttpCache'))} :
              \/ HttpCache'[u] = st[s].cacheObject
              \/ State(heap'[HttpCache'[u]]) = "BUSY"
<1> DEFINE o == st[s].cacheObject
<1>1. PICK h, c : PutsInto(s, h, c)
  BY DestructorStores
<1> DEFINE r == CheckCacheSize(h, c, o)
           walk == Walk(h, c, o)
           E == Cached(c) \ {Min(Cached(c))}
<1>2. /\ h \in [Obj -> CacheRecord] /\ c \in [Url -> Obj \cup {None}]
      /\ Intact(h, c) /\ IsFiniteSet(Cached(c))
      /\ heap' = r.heap /\ HttpCache' = r.cache
  BY <1>1 DEF PutsInto
<1>3. /\ Walked(h, c, o, E, walk)
      /\ Cached(r.cache) = Cached(c) \ walk.gone
      /\ \A u \in Cached(r.cache) : r.cache[u] = c[u] /\ r.heap[c[u]] = h[c[u]]
      /\ CacheSize(r.heap, r.cache, Cached(r.cache)) = walk.size
  <2>1. Leaves(h, c, o, walk, r)
    BY <1>2, CheckCacheSizeLeaves
  <2> HIDE DEF o, r, walk
  <2> QED  BY <2>1 DEF Leaves
<1> HIDE DEF o, r, walk
<1>4. CacheSizeNow' = walk.size
  BY <1>2, <1>3 DEF CacheSizeNow
<1>5. walk.size \in Nat
  <2>1. IsFiniteSet(Cached(c) \ walk.gone) /\ Cached(c) \ walk.gone \subseteq Cached(c)
    BY <1>2, FS_Subset
  <2>2. CacheSize(h, c, Cached(c) \ walk.gone) \in Nat
    BY <1>2, <2>1, SizeByChoice
  <2> QED  BY <1>3, <2>2 DEF Walked
<1>6. CASE walk.size > MAX_CACHE_SIZE
  <2>1. \A u \in E : CanGo(h, c, o, u) => u \in walk.gone
    BY <1>3, <1>6 DEF Walked
  <2>2. walk.gone \subseteq E
    BY <1>3 DEF Walked
  <2>3. Cached(HttpCache') # {} => Min(Cached(HttpCache')) = Min(Cached(c))
    <3> SUFFICES ASSUME NEW u \in Cached(HttpCache')
                 PROVE  Min(Cached(HttpCache')) = Min(Cached(c))
      OBVIOUS
    <3>1. Cached(c) \subseteq Url /\ Cached(c) # {} /\ Cached(HttpCache') \subseteq Cached(c)
      BY <1>2, <1>3 DEF Cached
    <3>2. Min(Cached(c)) \in Cached(c) /\ \A w \in Cached(c) : Min(Cached(c)) <= w
      BY <3>1, LeastKey
    <3>3. Min(Cached(c)) \in Cached(HttpCache')
      BY <1>2, <1>3, <2>2, <3>2
    <3> QED  BY <3>1, <3>2, <3>3, LeastOf
  <2>4. ASSUME NEW u \in Cached(HttpCache') \ {Min(Cached(HttpCache'))}
        PROVE  HttpCache'[u] = o \/ State(heap'[HttpCache'[u]]) = "BUSY"
    <3>1. u \in E /\ u \notin walk.gone
      BY <1>2, <1>3, <2>3
    <3>2. ~CanGo(h, c, o, u)
      BY <2>1, <3>1
    <3>3. HttpCache'[u] = c[u] /\ heap'[c[u]] = h[c[u]]
      BY <1>2, <1>3
    <3>4. Exists(h[c[u]])
      BY <1>2, <3>1 DEF Intact, Cached
    <3> QED  BY <3>2, <3>3, <3>4 DEF CanGo, Idle
  <2> QED  BY <2>4 DEF o
<1>7. CASE ~(walk.size > MAX_CACHE_SIZE)
  <2>1. walk.size <= MAX_CACHE_SIZE
    BY <1>5, <1>7, CacheSizeAssumption
  <2> QED  BY <1>4, <2>1
<1> QED  BY <1>6, <1>7

LEMMA DestructorEvictsForSpace ==
  ASSUME SeqInv, FiniteCache, NEW s \in Stream, Delete(s), Gone # {}
  PROVE  CacheSizeNow' + SizeAt(heap, HttpCache, Min(Gone)) > MAX_CACHE_SIZE
<1> DEFINE o == st[s].cacheObject
<1>1. PICK h, c : PutsInto(s, h, c)
  <2>1. HttpCache' # HttpCache
    BY DEF Gone
  <2> QED  BY <2>1, DestructorStores
<1> DEFINE r == CheckCacheSize(h, c, o)
           walk == Walk(h, c, o)
           E == Cached(c) \ {Min(Cached(c))}
<1>2. /\ h \in [Obj -> CacheRecord] /\ c \in [Url -> Obj \cup {None}]
      /\ Intact(h, c) /\ IsFiniteSet(Cached(c))
      /\ heap' = r.heap /\ HttpCache' = r.cache
      /\ c = [HttpCache EXCEPT ![st[s].sURL] = o]
      /\ \A u \in Cached(c) : c[u] # o => h[c[u]] = heap[c[u]]
  BY <1>1 DEF PutsInto
<1>3. /\ Walked(h, c, o, E, walk)
      /\ Cached(r.cache) = Cached(c) \ walk.gone
      /\ \A u \in Cached(r.cache) : r.cache[u] = c[u] /\ r.heap[c[u]] = h[c[u]]
      /\ CacheSize(r.heap, r.cache, Cached(r.cache)) = walk.size
  <2>1. Leaves(h, c, o, walk, r)
    BY <1>2, CheckCacheSizeLeaves
  <2> HIDE DEF o, r, walk
  <2> QED  BY <2>1 DEF Leaves
<1>4. /\ HttpCache \in [Url -> Obj \cup {None}]
      /\ o \in Obj /\ st[s].sURL \in Url /\ o # None
  BY OpenStreamsLive, ObjAssumption
     DEF SeqInv, TypeInv, TypeOK, StreamsSetUp, Open, Delete
<1> HIDE DEF o, r, walk
<1>5. \A u \in walk.gone : u \in Cached(c) /\ CanGo(h, c, o, u)
  BY <1>3 DEF Walked
<1>6. \A u \in Url : c[u] # o => c[u] = HttpCache[u]
  BY <1>2, <1>4
<1>7. Gone = walk.gone
  <2>1. ASSUME NEW u \in Gone PROVE u \in walk.gone
    <3>1. u \in Url /\ HttpCache[u] # None /\ HttpCache'[u] = None
      BY DEF Gone
    <3>2. u \in Cached(c) /\ u \notin Cached(HttpCache')
      BY <1>4, <1>6, <3>1 DEF Cached
    <3> QED  BY <1>2, <1>3, <3>2
  <2>2. ASSUME NEW u \in walk.gone PROVE u \in Gone
    <3>1. u \in Cached(c) /\ c[u] # o
      BY <1>5 DEF CanGo
    <3>2. u \in Url /\ HttpCache[u] # None
      BY <1>6, <3>1 DEF Cached
    <3>3. u \notin Cached(HttpCache')
      BY <1>2, <1>3
    <3> QED  BY <3>2, <3>3 DEF Gone, Cached
  <2> QED  BY <2>1, <2>2
<1>8. walk.size + SizeAt(h, c, Min(walk.gone)) > MAX_CACHE_SIZE
  BY <1>3, <1>7 DEF Walked
<1>9. SizeAt(h, c, Min(walk.gone)) = SizeAt(heap, HttpCache, Min(walk.gone))
  <2> DEFINE last == Min(walk.gone)
  <2>1. last \in walk.gone
    BY <1>5, <1>7, LeastKey DEF Cached
  <2> HIDE DEF last
  <2>2. last \in Cached(c) /\ last \in Url /\ c[last] # o
    BY <1>5, <2>1 DEF CanGo, Cached
  <2>3. c[last] = HttpCache[last] /\ h[c[last]] = heap[c[last]]
    BY <1>2, <1>6, <2>2
  <2> QED  BY <2>3 DEF SizeAt, last
<1>10. CacheSizeNow' = walk.size
  BY <1>2, <1>3 DEF CacheSizeNow
<1> QED  BY <1>7, <1>8, <1>9, <1>10

\* Storing an object leaves the cache above its limit only when all that
\* could still be freed is the first entry, the new one, or in use: the loop
\* of checkCacheSize passes over nothing else (DataStreamHandler.cpp).
THEOREM EvictionCorrect == Sequential => EvictionReachesLimit
<1>1. ASSUME SeqInv, FiniteCache, [Next]_vars
      PROVE  \A s \in Stream : Stores(s) =>
               \/ CacheSizeNow' <= MAX_CACHE_SIZE
               \/ \A u \in Cached(HttpCache') \ {Min(Cached(HttpCache'))} :
                    \/ HttpCache'[u] = st[s].cacheObject
                    \/ State(heap'[HttpCache'[u]]) = "BUSY"
  <2> SUFFICES ASSUME NEW s \in Stream, Stores(s)
               PROVE  \/ CacheSizeNow' <= MAX_CACHE_SIZE
                      \/ \A u \in Cached(HttpCache') \ {Min(Cached(HttpCache'))} :
                           \/ HttpCache'[u] = st[s].cacheObject
                           \/ State(heap'[HttpCache'[u]]) = "BUSY"
    OBVIOUS
  <2>1. Delete(s)
    <3>1. fEasy[s] # None /\ fEasy'[s] = None /\ Stream = {s}
      BY <1>1 DEF Stores, SeqInv, OneAtATime
    <3>2. ASSUME ~Delete(s) PROVE fEasy' = fEasy \/ \E h \in Handle : fEasy'[s] = h
      <4>1. CASE \E t \in Stream, u \in Url, mode \in Modes : NewStream(t, u, mode)
        BY <3>1, <4>1 DEF NewStream
      <4>2. CASE \E t \in Stream, n \in 1 .. MaxRead : BeginRead(t, n)
        BY <4>2 DEF BeginRead
      <4>3. CASE \E t \in Stream : Transfer(t)
        BY <4>3 DEF Transfer, Header, Data, Complete, Fail
      <4>4. CASE TakeMessage
        BY <4>4 DEF TakeMessage, TakeFinished, TakeUnmodified, TakeRedirect, TakeError
      <4>5. CASE PerformAgain \/ EndRead \/ EndReadFromCache
        BY <4>5 DEF PerformAgain, EndRead, EndReadFromCache
      <4>6. CASE UNCHANGED vars \/ \E u \in Url : ServerUpdate(u)
        BY <4>6 DEF vars, ServerUpdate
      <4> QED
        BY <1>1, <3>1, <3>2, <4>1, <4>2, <4>3, <4>4, <4>5, <4>6 DEF Next, ReadStep
    <3> QED  BY <3>1, <3>2, HandleAssumption
  <2> QED  BY <1>1, <2>1, DestructorReachesLimit
<1> QED
  BY <1>1, SeqInvariant, FiniteInvariant, PTL
     DEF EvictionReachesLimit, Sequential, Spec

\* Entries are dropped for space only, and no more of them than that takes:
\* checkCacheSize stops as soon as the total is within the limit.
THEOREM EvictionNeeded == Sequential => EvictsOnlyForSpace
<1>1. ASSUME SeqInv, FiniteCache, [Next]_vars, Gone # {}
      PROVE  CacheSizeNow' + SizeAt(heap, HttpCache, Min(Gone)) > MAX_CACHE_SIZE
  <2>1. HttpCache' # HttpCache
    BY <1>1 DEF Gone
  <2>2. PICK s \in Stream : Delete(s)
    BY <1>1, <2>1, MapElsewhere
  <2> QED  BY <1>1, <2>2, DestructorEvictsForSpace
<1> QED
  BY <1>1, SeqInvariant, FiniteInvariant, PTL
     DEF EvictsOnlyForSpace, Sequential, Spec

-----------------------------------------------------------------------------
(***************************************************************************)
(* Several streams at once.  A stream that has asked a server about an     *)
(* entry may lose it to another's destructor (FreedWhileBorrowed), but an  *)
(* object that is being written or read does not go.  Three things spare   *)
(* it: what a stream deletes as its own is nobody else's; what it borrowed *)
(* is the entry of its URL for as long as it exists; and addCacheObject    *)
(* and checkCacheSize free what is idle only.                              *)
(***************************************************************************)
OwnedApart ==
  \A s \in Open : st[s].bDeleteCache =>
    /\ \A u \in Url : HttpCache[u] # st[s].cacheObject
    /\ \A t \in Open : st[t].cacheObject = st[s].cacheObject => t = s

BorrowedThere ==
  \A s \in Open : ~st[s].bDeleteCache =>
    \/ HttpCache[st[s].sURL] = st[s].cacheObject
    \/ ~Exists(heap[st[s].cacheObject])

NothingMoved == \A s \in Open : xfer[s].code # 302

SharedInv ==
  /\ NoRedirection
  /\ TypeInv
  /\ FiniteCache
  /\ OwnedApart
  /\ BorrowedThere
  /\ NothingMoved

\* What of a stream decides which object it has and who deletes it.
SameObject(m, m1) ==
  /\ m1.cacheObject = m.cacheObject
  /\ m1.sURL = m.sURL
  /\ m1.bDeleteCache = m.bDeleteCache

LEMMA SharedInit == NoRedirection /\ Init => SharedInv
<1> SUFFICES ASSUME NoRedirection, Init PROVE SharedInv  OBVIOUS
<1>1. Open = {} /\ Cached(HttpCache) = {}
  BY DEF Init, HandlerInit, Open, Cached
<1>2. FiniteCache
  BY <1>1, FS_EmptySet DEF FiniteCache
<1> QED
  BY <1>1, <1>2, TypeInit
     DEF SharedInv, OwnedApart, BorrowedThere, NothingMoved

\* A step that creates and frees nothing and changes hands of nothing.
LEMMA SharedQuiet ==
  ASSUME SharedInv, TypeInv', UNCHANGED <<HttpCache, fEasy>>,
         \A o \in Obj : Exists(heap'[o]) = Exists(heap[o]),
         \A s \in Open : SameObject(st[s], st'[s]) /\ xfer'[s].code # 302
  PROVE  SharedInv' /\ SparesWork
<1>1. Open' = Open /\ Cached(HttpCache') = Cached(HttpCache)
  BY DEF Open
<1>2. \A s \in Open : st[s].cacheObject \in Obj /\ Exists(heap'[st[s].cacheObject])
                                    = Exists(heap[st[s].cacheObject])
  BY DEF SharedInv, TypeInv, StreamsSetUp
<1>3. OwnedApart' /\ BorrowedThere' /\ NothingMoved'
  BY <1>1, <1>2
     DEF SharedInv, OwnedApart, BorrowedThere, NothingMoved, SameObject
<1>4. FiniteCache'
  BY <1>1 DEF SharedInv, FiniteCache
<1>5. SparesWork
  BY <1>2 DEF SparesWork, Live
<1> QED  BY <1>3, <1>4, <1>5 DEF SharedInv, NoRedirection

\* The same, of one object, one stream and one transfer at most.
LEMMA SharedOne ==
  ASSUME SharedInv, TypeInv', UNCHANGED <<HttpCache, fEasy>>,
         NEW t \in Open, NEW m, st' = [st EXCEPT ![t] = m], SameObject(st[t], m),
         NEW x, xfer' = [xfer EXCEPT ![t] = x], x.code # 302,
         \A o \in Obj : Exists(heap'[o]) = Exists(heap[o])
  PROVE  SharedInv' /\ SparesWork
<1>1. st \in [Stream -> Members] /\ xfer \in [Stream -> TransferRecord]
  BY DEF SharedInv, TypeInv, TypeOK
<1>2. \A s \in Open : SameObject(st[s], st'[s]) /\ xfer'[s].code # 302
  BY <1>1 DEF SameObject, SharedInv, NothingMoved, Open
<1> QED  BY <1>2, SharedQuiet

LEMMA SharedHeader ==
  ASSUME SharedInv, NEW t \in Stream, Header(t)
  PROVE  SharedInv' /\ SparesWork
<1> DEFINE m == st[t]
           o == m.cacheObject
<1>1. TypeInv'  BY TypeHeader DEF SharedInv
<1>2. /\ t \in Open /\ m \in Members /\ xfer[t] \in TransferRecord
      /\ m.sURL \in Url /\ Target[m.sURL] = None /\ st = [st EXCEPT ![t] = m]
      /\ o \in Obj /\ heap[o] \in CacheRecord /\ heap \in [Obj -> CacheRecord]
      /\ UNCHANGED <<HttpCache, fEasy>>
  BY RunningStream DEF Header, SharedInv, NoRedirection
<1>4. CASE HeadNotModified(t)
  <2> DEFINE sized == TRUE
             left == <<>>
             x == After(Response(xfer[t], 304, left, sized))
  <2>1. xfer' = [xfer EXCEPT ![t] = x] /\ UNCHANGED <<st, heap>>
    BY <1>4 DEF HeadNotModified
  <2>2. st' = [st EXCEPT ![t] = m] /\ SameObject(st[t], m)
    BY <1>2, <2>1 DEF SameObject
  <2> HIDE DEF left, sized
  <2>3. x.code # 302
    BY <1>2, ResponseFields
  <2>4. \A p \in Obj : Exists(heap'[p]) = Exists(heap[p])
    BY <2>1
  <2> HIDE DEF m, o, x
  <2> QED  BY <1>1, <1>2, <2>1, <2>2, <2>3, <2>4, SharedOne
<1>5. ASSUME NEW f \in Framing, HeadOK(t, f)
      PROVE  SharedInv' /\ SparesWork
  <2> DEFINE u    == m.sURL
             sent == CASE f = "length"  -> BodyLen[u]
                       [] f = "encoded" -> BodyLen[u] - 1
                       [] OTHER         -> m.hContent_length_response
             left == Body(u, ver[u])
             sized == f # "chunked"
             x    == After(Response(xfer[t], 200, left, sized))
             m1   == [m EXCEPT !.bStoreCache = TRUE,
                               !.hContent_length_response = sent]
  <2>1. /\ st' = [st EXCEPT ![t] = m1]
        /\ heap' = IF SetsEtag(m) /\ Live(o)
                   THEN [heap EXCEPT ![o].pEtag = ver[u]] ELSE heap
        /\ xfer' = [xfer EXCEPT ![t] = x]
    BY <1>5 DEF HeadOK
  <2> HIDE DEF sent, left, sized
  <2>2. SameObject(m, m1)  BY <1>2 DEF SameObject, Members
  <2>3. \A p \in Obj : Exists(heap'[p]) = Exists(heap[p])
    BY <1>2, <2>1 DEF Exists, CacheRecord
  <2>4. x.code # 302
    BY <1>2, ResponseFields
  <2>5. st' = [st EXCEPT ![t] = m1] /\ SameObject(st[t], m1)
    BY <2>1, <2>2
  <2> HIDE DEF m, m1, o, x
  <2> QED  BY <1>1, <1>2, <2>1, <2>3, <2>4, <2>5, SharedOne
<1>6. ASSUME NEW f \in Framing, HeadRedirect(t, f)
      PROVE  SharedInv' /\ SparesWork
  BY <1>2, <1>6 DEF HeadRedirect
<1>7. ASSUME NEW f \in Framing, HeadError(t, f)
      PROVE  SharedInv' /\ SparesWork
  <2> DEFINE sent == IF f = "length" THEN NoiseLen
                     ELSE m.hContent_length_response
             left == Noise(m.sURL)
             sized == f # "chunked"
             x  == After(Response(xfer[t], 404, left, sized))
             m1 == [m EXCEPT !.hContent_length_response = sent]
  <2>1. /\ st' = [st EXCEPT ![t] = m1] /\ UNCHANGED heap
        /\ xfer' = [xfer EXCEPT ![t] = x]
    BY <1>2, <1>7 DEF HeadError
  <2> HIDE DEF sent, left, sized
  <2>2. SameObject(m, m1)  BY <1>2 DEF SameObject, Members
  <2>3. x.code # 302
    BY <1>2, ResponseFields
  <2>4. st' = [st EXCEPT ![t] = m1] /\ SameObject(st[t], m1)
    BY <2>1, <2>2
  <2>5. \A p \in Obj : Exists(heap'[p]) = Exists(heap[p])
    BY <2>1
  <2> HIDE DEF m, m1, o, x
  <2> QED  BY <1>1, <1>2, <2>1, <2>3, <2>4, <2>5, SharedOne
<1> QED  BY <1>4, <1>5, <1>6, <1>7 DEF Header

LEMMA SharedBody ==
  ASSUME SharedInv, NEW t \in Stream, Data(t) \/ Complete(t) \/ Fail(t)
  PROVE  SharedInv' /\ SparesWork
<1> DEFINE o == st[t].cacheObject
<1>1. TypeInv'  BY TypeData, TypeComplete DEF SharedInv
<1>2. /\ t \in Open /\ st[t] \in Members /\ xfer[t] \in TransferRecord
      /\ st = [st EXCEPT ![t] = st[t]]
      /\ o \in Obj /\ heap[o] \in CacheRecord /\ heap \in [Obj -> CacheRecord]
      /\ UNCHANGED <<HttpCache, fEasy>>
  BY RunningStream DEF Data, Complete, Fail, SharedInv, handlerVars
<1>3. xfer[t].code # 302
  BY <1>2 DEF SharedInv, NothingMoved
<1>4. CASE Data(t)
  <2> DEFINE m == st[t]
             p == Head(xfer[t].left)
             y == [xfer[t] EXCEPT !.left = Tail(@)]
             x == After(y)
             new == WriteBytes(heap[o], <<p>>)
             m1 == IF HasRoom(m)
                   THEN [m EXCEPT !.filled = Append(@, p),
                                  !.fBytesToRead = @ - 1,
                                  !.fTotalBytesRead = @ + 1]
                   ELSE [m EXCEPT !.fBuffer = Append(@, p)]
  <2>1. /\ st' = [st EXCEPT ![t] = m1] /\ xfer' = [xfer EXCEPT ![t] = x]
        /\ heap' = IF Compresses(m) /\ Live(o)
                   THEN [heap EXCEPT ![o] = new] ELSE heap
    BY <1>4 DEF Data
  <2>2. Exists(new)  BY <1>2, OperationsKeepObjects
  <2> HIDE DEF p, new
  <2>3. SameObject(st[t], m1)  BY <1>2 DEF SameObject, Members
  <2>4. x.code # 302
    BY <1>2, <1>3 DEF After, TransferRecord
  <2>5. \A q \in Obj : Exists(heap'[q]) = Exists(heap[q])
    BY <1>2, <2>1, <2>2 DEF Live
  <2> HIDE DEF m1, x
  <2> QED  BY <1>1, <1>2, <2>1, <2>3, <2>4, <2>5, SharedOne
<1>5. CASE Complete(t) \/ Fail(t)
  <2> DEFINE m == st[t]
  <2>1. st' = [st EXCEPT ![t] = m] /\ SameObject(st[t], m)
    BY <1>2, <1>5 DEF Complete, Fail, SameObject
  <2>2. \A q \in Obj : Exists(heap'[q]) = Exists(heap[q])
    BY <1>5 DEF Complete, Fail, handlerVars
  <2>3. PICK x : xfer' = [xfer EXCEPT ![t] = x] /\ x.code # 302
    BY <1>2, <1>3, <1>5 DEF Complete, Fail, TransferRecord
  <2> HIDE DEF m
  <2> QED  BY <1>1, <1>2, <2>1, <2>2, <2>3, SharedOne
<1> QED  BY <1>4, <1>5

LEMMA SharedTakeMessage ==
  ASSUME SharedInv, TakeMessage
  PROVE  SharedInv' /\ SparesWork
<1>1. PICK t \in Stream : \/ TakeFinished(t) \/ TakeUnmodified(t)
                          \/ TakeRedirect(t) \/ TakeError(t)
  BY DEF TakeMessage
<1>2. cur # None
  BY <1>1 DEF TakeFinished, TakeUnmodified, TakeRedirect, TakeError, Message
<1>3. /\ cur \in Open /\ st[cur] \in Members /\ xfer[cur].code # 302
      /\ st = [st EXCEPT ![cur] = st[cur]]
      /\ xfer = [xfer EXCEPT ![cur] = xfer[cur]]
  BY <1>2, CurrentStream DEF SharedInv, NothingMoved
<1>4. ~TakeRedirect(t)
  BY <1>3 DEF TakeRedirect, Redirected
<1>5. TypeInv'  BY <1>1, <1>4, TypeTakeMessage DEF SharedInv
<1>6. UNCHANGED <<heap, HttpCache, fEasy, xfer>>
  BY <1>1, <1>4 DEF TakeFinished, TakeUnmodified, TakeError, handlerVars
<1>7. PICK m : st' = [st EXCEPT ![cur] = m] /\ SameObject(st[cur], m)
  <2>1. CASE TakeUnmodified(t)
    <3> DEFINE m == [st[cur] EXCEPT !.bStreamFromCache = TRUE]
    <3>1. st' = [st EXCEPT ![cur] = m]
      BY <2>1 DEF TakeUnmodified
    <3>2. SameObject(st[cur], m)
      BY <1>3 DEF SameObject, Members
    <3> HIDE DEF m
    <3> QED  BY <3>1, <3>2
  <2>2. CASE TakeFinished(t) \/ TakeError(t)
    BY <1>3, <2>2 DEF TakeFinished, TakeError, SameObject
  <2> QED  BY <1>1, <1>4, <2>1, <2>2
<1>8. \A o \in Obj : Exists(heap'[o]) = Exists(heap[o])
  BY <1>6
<1>9. xfer' = [xfer EXCEPT ![cur] = xfer[cur]]
  BY <1>3, <1>6
<1> QED  BY <1>3, <1>5, <1>6, <1>7, <1>8, <1>9, SharedOne

LEMMA SharedPerformAgain ==
  ASSUME SharedInv, PerformAgain
  PROVE  SharedInv' /\ SparesWork
<1> DEFINE m == st[cur]
           x == IF xfer[cur].phase = "sent" THEN [xfer[cur] EXCEPT !.code = 0]
                ELSE xfer[cur]
<1>1. TypeInv'  BY TypePerformAgain DEF SharedInv
<1>2. /\ cur # None /\ UNCHANGED <<heap, HttpCache, fEasy, st>>
      /\ xfer' = IF xfer[cur].phase = "sent"
                 THEN [xfer EXCEPT ![cur].code = 0] ELSE xfer
  BY DEF PerformAgain, handlerVars
<1>3. /\ cur \in Open /\ xfer[cur] \in TransferRecord /\ xfer[cur].code # 302
      /\ st = [st EXCEPT ![cur] = m] /\ xfer = [xfer EXCEPT ![cur] = xfer[cur]]
  BY <1>2, CurrentStream DEF SharedInv, NothingMoved
<1>4. xfer' = [xfer EXCEPT ![cur] = x] /\ x.code # 302
  <2>1. CASE xfer[cur].phase = "sent"
    <3>1. x = [xfer[cur] EXCEPT !.code = 0] /\ x.code = 0
      BY <1>3, <2>1 DEF TransferRecord
    <3> HIDE DEF x
    <3> QED  BY <1>2, <2>1, <3>1
  <2>2. CASE xfer[cur].phase # "sent"
    BY <1>2, <1>3, <2>2
  <2> QED  BY <2>1, <2>2
<1>5. st' = [st EXCEPT ![cur] = m] /\ SameObject(st[cur], m)
  BY <1>2, <1>3 DEF SameObject
<1>6. \A o \in Obj : Exists(heap'[o]) = Exists(heap[o])
  BY <1>2
<1> HIDE DEF m, x
<1> QED  BY <1>1, <1>2, <1>3, <1>4, <1>5, <1>6, SharedOne

\* The end of a call of readBytes.  The object may have been freed: then there
\* is nothing to be read from it.
LEMMA SharedReturn ==
  ASSUME SharedInv, TypeInv', cur # None, NEW m \in Members, NEW data,
         SameObject(st[cur], m), Return(cur, data, m),
         \A o \in Obj : Exists(heap'[o]) = Exists(heap[o]),
         UNCHANGED <<HttpCache, fEasy, xfer>>
  PROVE  SharedInv' /\ SparesWork
<1> DEFINE m1 == [AtRest(m) EXCEPT !.bTransferFinished =
                                      TransferFinished(m, m.fTotalBytesRead)]
<1>1. st' = [st EXCEPT ![cur] = m1]  BY DEF Return
<1>2. SameObject(st[cur], m1)
  BY DEF AtRest, Members, SameObject
<1>3. /\ cur \in Open /\ xfer[cur].code # 302
      /\ xfer = [xfer EXCEPT ![cur] = xfer[cur]]
  BY CurrentStream DEF SharedInv, NothingMoved
<1> HIDE DEF m1
<1> QED  BY <1>1, <1>2, <1>3, SharedOne

LEMMA SharedEndRead ==
  ASSUME SharedInv, EndRead \/ EndReadFromCache
  PROVE  SharedInv' /\ SparesWork
<1>1. /\ TypeInv' /\ cur # None /\ UNCHANGED <<HttpCache, fEasy, xfer>>
  BY TypeEndRead, TypeEndReadFromCache
     DEF SharedInv, EndRead, EndReadFromCache, handlerVars
<1> DEFINE m == st[cur]
           o == m.cacheObject
<1>2. /\ m \in Members /\ o \in Obj /\ heap \in [Obj -> CacheRecord]
      /\ heap[o] \in CacheRecord
      /\ m.fBytesToRead \in Nat /\ m.fTotalBytesRead \in Nat
  BY <1>1, CurrentStream DEF SharedInv, Members
<1>3. CASE EndRead
  <2>1. /\ Return(cur, m.filled, m) /\ UNCHANGED heap
        /\ SameObject(st[cur], m)
    BY <1>3 DEF EndRead, handlerVars, SameObject
  <2>2. \A p \in Obj : Exists(heap'[p]) = Exists(heap[p])
    BY <2>1
  <2> QED  BY <1>1, <1>2, <2>1, <2>2, SharedReturn
<1>4. CASE EndReadFromCache
  <2>1. PICK r \in IF Live(o) THEN CacheReads(o, m.fBytesToRead)
                   ELSE NothingRead(o) :
          /\ heap' = Update(o, r.obj)
          /\ Return(cur, r.data, [m EXCEPT !.fTotalBytesRead = @ + Len(r.data)])
    BY <1>4 DEF EndReadFromCache
  <2> DEFINE total == m.fTotalBytesRead + Len(r.data)
             m1 == [m EXCEPT !.fTotalBytesRead = total]
             data == r.data
  <2>2. SameObject(st[cur], m1)
    BY <1>2 DEF SameObject, Members
  <2> HIDE DEF m, o
  <2>3. r.data \in Seq(Piece) /\ (Live(o) => Exists(r.obj))
    <3>1. CASE Live(o)
      <4>1. PICK q \in ReadOutcomes(heap[o], m.fBytesToRead) :
              r = [data |-> q.data,
                   obj |-> IF q.data = <<>> THEN ResetState(q.obj) ELSE q.obj]
        BY <2>1, <3>1 DEF CacheReads
      <4>2. q.data \in Seq(Piece) /\ q.obj \in CacheRecord
        BY <1>2, ReadOutcomesType
      <4>3. Exists(q.obj)
        BY <1>2, <3>1, OperationsKeepObjects DEF Live
      <4>4. Exists(ResetState(q.obj))  BY <4>2, <4>3, OperationsKeepObjects
      <4> QED  BY <4>1, <4>2, <4>3, <4>4
    <3>2. CASE ~Live(o)
      <4>1. r \in NothingRead(o)
        BY <2>1, <3>2
      <4>2. r.data = <<>>
        BY <4>1 DEF NothingRead
      <4> QED  BY <3>2, <4>2, EmptyPieces
    <3> QED  BY <3>1, <3>2
  <2>4. \A p \in Obj : Exists(heap'[p]) = Exists(heap[p])
    BY <1>2, <2>1, <2>3 DEF Update, Live
  <2>5. m1 \in Members
    <3>1. total \in Nat  BY <1>2, <2>3, LenProperties
    <3> HIDE DEF total
    <3> QED  BY <1>2, <3>1 DEF Members
  <2>6. Return(cur, data, m1)  BY <2>1
  <2> HIDE DEF m1, data
  <2> QED  BY <1>1, <2>2, <2>4, <2>5, <2>6, SharedReturn
<1> QED  BY <1>3, <1>4

\* A new object is at an address no pointer has; one taken from the map is
\* the entry of the stream's URL.
LEMMA SharedNewStream ==
  ASSUME SharedInv, NEW s \in Stream, NEW u \in Url, NEW mode,
         NewStream(s, u, mode)
  PROVE  SharedInv' /\ SparesWork
<1> DEFINE wanted == mode # "nocache"
           pCache == Lookup(wanted, u)
           m0 == [NoMembers EXCEPT !.sURL = u, !.bUseCache = TRUE]
<1>1. TypeInv'  BY TypeNewStream DEF SharedInv
<1>2. PICK h \in Handle, new \in NewAddresses(pCache = None) :
        LET m == SetupConnection(m0, pCache, new)
        IN
        /\ fEasy' = [fEasy EXCEPT ![s] = h]
        /\ heap' = HeapWith(new)
        /\ st' = [st EXCEPT ![s] = [m EXCEPT !.bUseCache = (mode = "cache")]]
        /\ xfer' = [xfer EXCEPT ![s] = Request(RequestHeaders(m, pCache), 0)]
  BY ZenonT(60) DEF NewStream
<1> DEFINE m  == SetupConnection(m0, pCache, new)
           m1 == [m EXCEPT !.bUseCache = (mode = "cache")]
           x  == Request(RequestHeaders(m, pCache), 0)
<1>3. fEasy[s] = None /\ UNCHANGED HttpCache
  BY DEF NewStream
<1>4. /\ fEasy \in [Stream -> Handle \cup {None}] /\ st \in [Stream -> Members]
      /\ xfer \in [Stream -> TransferRecord]
      /\ heap \in [Obj -> CacheRecord] /\ HttpCache \in [Url -> Obj \cup {None}]
      /\ pCache \in Obj \cup {None}
      /\ \A t \in Open : st[t].cacheObject \in Obj
  BY LookupType DEF SharedInv, TypeInv, TypeOK, StreamsSetUp
<1>5. pCache # None => HttpCache[u] = pCache
  BY DEF Lookup, GetCacheObject
<1>6. pCache = None =>
        /\ new \in Obj /\ ~Exists(heap[new])
        /\ \A w \in Url : HttpCache[w] # new
        /\ \A t \in Stream : st[t].cacheObject # new
  BY <1>2 DEF NewAddresses, Unused
<1>7. pCache # None => new = None
  BY <1>2 DEF NewAddresses
<1> HIDE DEF pCache, wanted
<1>8. /\ m1.sURL = u
      /\ pCache = None => m1.bDeleteCache /\ m1.cacheObject = new
      /\ pCache # None => ~m1.bDeleteCache /\ m1.cacheObject = pCache
  BY DEF SetupConnection, NoMembers
<1>9. x.code = 0
  BY DEF Request, NoTransfer
<1> HIDE DEF m, m0, m1, x
<1>10. \A o \in Obj : o # new \/ pCache # None => heap'[o] = heap[o]
  BY <1>2, <1>4, <1>6, <1>7, ObjAssumption DEF HeapWith, m
<1>11. /\ s \notin Open /\ Open' = Open \cup {s}
       /\ st'[s] = m1 /\ xfer'[s] = x
       /\ \A t \in Open : st'[t] = st[t] /\ xfer'[t] = xfer[t]
  <2>1. h # None  BY HandleAssumption
  <2>2. st' = [st EXCEPT ![s] = m1] /\ xfer' = [xfer EXCEPT ![s] = x]
    BY <1>2 DEF m, m1, x
  <2>3. fEasy' = [fEasy EXCEPT ![s] = h]
    BY <1>2
  <2>4. s \notin Open /\ Open' = Open \cup {s}
    BY <1>3, <1>4, <2>1, <2>3 DEF Open
  <2>5. st'[s] = m1 /\ xfer'[s] = x
    BY <1>4, <2>2
  <2>6. \A t \in Open : t \in Stream /\ t # s
    BY <2>4 DEF Open
  <2> QED  BY <1>4, <2>2, <2>4, <2>5, <2>6
<1>12. \A t \in Open : Exists(heap[st[t].cacheObject])
                         = Exists(heap'[st[t].cacheObject])
  <2> SUFFICES ASSUME NEW t \in Open
               PROVE  heap'[st[t].cacheObject] = heap[st[t].cacheObject]
    OBVIOUS
  <2>1. t \in Stream  BY DEF Open
  <2> QED  BY <1>4, <1>6, <1>10, <2>1
<1>13. OwnedApart'
  <2> SUFFICES ASSUME NEW t \in Open', st'[t].bDeleteCache
               PROVE  /\ \A w \in Url : HttpCache[w] # st'[t].cacheObject
                      /\ \A r \in Open' :
                           st'[r].cacheObject = st'[t].cacheObject => r = t
    BY <1>3 DEF OwnedApart
  <2>1. CASE t = s
    <3>1. pCache = None /\ st'[s].cacheObject = new
      BY <1>8, <1>11, <2>1
    <3>2. \A r \in Open : st'[r].cacheObject # new
      BY <1>6, <1>11, <3>1 DEF Open
    <3> QED  BY <1>6, <1>11, <2>1, <3>1, <3>2
  <2>2. CASE t # s
    <3>1. t \in Open /\ st'[t] = st[t]
      BY <1>11, <2>2
    <3>2. /\ \A w \in Url : HttpCache[w] # st[t].cacheObject
          /\ \A r \in Open : st[r].cacheObject = st[t].cacheObject => r = t
      BY <3>1 DEF SharedInv, OwnedApart
    <3>3. m1.cacheObject # st[t].cacheObject
      <4>1. CASE pCache = None
        BY <1>6, <1>8, <3>1, <4>1 DEF Open
      <4>2. CASE pCache # None
        BY <1>5, <1>8, <3>2, <4>2
      <4> QED  BY <4>1, <4>2
    <3> QED  BY <1>11, <3>1, <3>2, <3>3
  <2> QED  BY <2>1, <2>2
<1>14. BorrowedThere'
  <2> SUFFICES ASSUME NEW t \in Open', ~st'[t].bDeleteCache
               PROVE  \/ HttpCache[st'[t].sURL] = st'[t].cacheObject
                      \/ ~Exists(heap'[st'[t].cacheObject])
    BY <1>3 DEF BorrowedThere
  <2>1. CASE t = s
    BY <1>5, <1>8, <1>11, <2>1
  <2>2. CASE t # s
    <3>1. t \in Open /\ st'[t] = st[t]
      BY <1>11, <2>2
    <3> QED  BY <1>12, <3>1 DEF SharedInv, BorrowedThere
  <2> QED  BY <2>1, <2>2
<1>15. NothingMoved'
  BY <1>9, <1>11 DEF SharedInv, NothingMoved
<1>16. FiniteCache'
  BY <1>3 DEF SharedInv, FiniteCache, Cached
<1>17. SparesWork
  BY <1>12 DEF SparesWork, Live
<1> QED
  BY <1>1, <1>13, <1>14, <1>15, <1>16, <1>17 DEF SharedInv, NoRedirection

\* A destructor that changes what it changes of heap and map like this.
Spares(s, h, c) ==
  LET o == st[s].cacheObject
  IN  /\ \A p \in Obj : Exists(h[p]) => Exists(heap[p])
      /\ \A p \in Obj : p # o /\ Exists(heap[p]) /\ State(heap[p]) = "BUSY"
                          => Exists(h[p])
      /\ ~st[s].bDeleteCache /\ Exists(heap[o]) => Exists(h[o])
      /\ \A u \in Url : c[u] \in {HttpCache[u], None, o}
      /\ \A u \in Url : HttpCache[u] # None /\ c[u] # HttpCache[u]
                          => ~Exists(h[HttpCache[u]])
      /\ IsFiniteSet(Cached(c))

\* Of a map that has the new object at u, and freed what was there before,
\* checkCacheSize frees what is idle only.
LEMMA EvictionSpares ==
  ASSUME NEW g \in [Obj -> CacheRecord], NEW d \in [Url -> Obj \cup {None}],
         NEW item \in Obj, IsFiniteSet(Cached(d))
  PROVE  LET r == CheckCacheSize(g, d, item)
         IN  /\ \A p \in Obj : Exists(r.heap[p]) => Exists(g[p])
             /\ \A p \in Obj : Exists(g[p]) /\ (p = item \/ State(g[p]) = "BUSY")
                                 => Exists(r.heap[p])
             /\ \A u \in Url : r.cache[u] \in {d[u], None}
             /\ \A u \in Url : r.cache[u] # d[u] => ~Exists(r.heap[d[u]])
             /\ IsFiniteSet(Cached(r.cache))
<1> DEFINE walk == Walk(g, d, item)
           k == [p \in Obj |-> IF \E u \in Url : u \in walk.gone /\ d[u] = p
                               THEN NoObject ELSE g[p]]
           e == [u \in Url |-> IF u \in walk.gone THEN None ELSE d[u]]
<1>1. CheckCacheSize(g, d, item).heap = k /\ CheckCacheSize(g, d, item).cache = e
  BY DEF CheckCacheSize
<1>2. Walked(g, d, item, Cached(d) \ {Min(Cached(d))}, walk)
  BY WalkDone
<1>3. \A u \in walk.gone :
        /\ u \in Url /\ d[u] \in Obj
        /\ d[u] # item /\ State(g[d[u]]) # "BUSY"
  BY <1>2 DEF Walked, CanGo, Idle, Cached
<1>4. ~Exists(NoObject)  BY DEF Exists, NoObject, NewObject
<1> HIDE DEF walk
<1>5. \A p \in Obj : Exists(k[p]) => Exists(g[p])
  BY <1>4
<1>6. \A p \in Obj : Exists(g[p]) /\ (p = item \/ State(g[p]) = "BUSY")
                       => Exists(k[p])
  BY <1>3
<1>7. \A u \in Url : e[u] \in {d[u], None}
  OBVIOUS
<1>8. \A u \in Url : e[u] # d[u] => ~Exists(k[d[u]])
  BY <1>3, <1>4
<1>9. IsFiniteSet(Cached(e))
  <2>1. Cached(e) \subseteq Cached(d)
    BY DEF Cached
  <2> QED  BY <2>1, FS_Subset
<1> HIDE DEF k, e
<1> QED  BY <1>1, <1>5, <1>6, <1>7, <1>8, <1>9

LEMMA DestroyedSpares ==
  ASSUME SharedInv, NEW s \in Open
  PROVE  Spares(s, Destroyed(st[s]).heap, Destroyed(st[s]).cache)
<1> DEFINE m == st[s]
           o == m.cacheObject
           u == m.sURL
           new == ResetState(FinishBytes(heap[o]))
           f == Update(o, new)
           g == Freed(f, HttpCache, u, o)
           d == [HttpCache EXCEPT ![u] = o]
<1>1. /\ o \in Obj /\ o # None /\ heap[o] \in CacheRecord /\ u \in Url
      /\ heap \in [Obj -> CacheRecord] /\ HttpCache \in [Url -> Obj \cup {None}]
      /\ IsFiniteSet(Cached(HttpCache))
  BY ObjAssumption DEF SharedInv, FiniteCache, TypeInv, TypeOK, StreamsSetUp
<1>2. /\ ~m.bDeleteCache => HttpCache[u] = o \/ ~Exists(heap[o])
      /\ m.bDeleteCache => \A w \in Url : HttpCache[w] # o
  BY DEF SharedInv, OwnedApart, BorrowedThere
<1>3. ~Exists(NoObject) /\ NoObject \in CacheRecord
  BY NewObjectType DEF Exists, NoObject, NewObject
<1>4. /\ new \in CacheRecord /\ Exists(new)
      /\ ResetState(heap[o]) \in CacheRecord
      /\ Exists(heap[o]) => Exists(ResetState(heap[o]))
  <2>1. FinishBytes(heap[o]) \in CacheRecord /\ Exists(FinishBytes(heap[o]))
    BY <1>1, ObjectOps, OperationsKeepObjects
  <2> QED  BY <1>1, <2>1, ObjectOps, OperationsKeepObjects
<1> HIDE DEF new, o, u, m
<1>5. ASSUME NEW upd \in CacheRecord, Exists(heap[o]) => Exists(upd)
      PROVE  /\ Update(o, upd) \in [Obj -> CacheRecord]
             /\ \A p \in Obj : p # o => Update(o, upd)[p] = heap[p]
             /\ \A p \in Obj : Exists(Update(o, upd)[p]) = Exists(heap[p])
  BY <1>1, <1>5 DEF Update, Live
<1>6. ASSUME NEW h, NEW c, Destroyed(m).heap = h, Destroyed(m).cache = c,
             \A p \in Obj : Exists(h[p]) => Exists(heap[p]),
             \A p \in Obj : p # o /\ Exists(heap[p]) /\ State(heap[p]) = "BUSY"
                              => Exists(h[p]),
             ~m.bDeleteCache /\ Exists(heap[o]) => Exists(h[o]),
             \A w \in Url : c[w] \in {HttpCache[w], None, o},
             \A w \in Url : HttpCache[w] # None /\ c[w] # HttpCache[w]
                              => ~Exists(h[HttpCache[w]]),
             IsFiniteSet(Cached(c))
      PROVE  Spares(s, Destroyed(st[s]).heap, Destroyed(st[s]).cache)
  BY <1>6 DEF Spares, m, o
<1>7. CASE StoreWanted(m) /\ DeletesItem(f, HttpCache, u, o)
  <2> DEFINE h == [f EXCEPT ![o] = NoObject]
  <2>1. Destroyed(m).heap = h /\ Destroyed(m).cache = HttpCache
    BY <1>7 DEF Destroyed, Stored, AddCacheObject, o, u, new
  <2>2. HttpCache[u] # o
    BY <1>7 DEF DeletesItem
  <2>3. /\ f \in [Obj -> CacheRecord]
        /\ \A p \in Obj : p # o => f[p] = heap[p]
    BY <1>4, <1>5
  <2> HIDE DEF f
  <2>4. ~Exists(h[o]) /\ \A p \in Obj : p # o => h[p] = heap[p]
    BY <1>1, <1>3, <2>3
  <2> HIDE DEF h
  <2> QED  BY <1>1, <1>2, <1>6, <2>1, <2>2, <2>4
<1>8. CASE StoreWanted(m) /\ ~DeletesItem(f, HttpCache, u, o)
  <2> DEFINE r == CheckCacheSize(g, d, o)
  <2>1. Destroyed(m).heap = r.heap /\ Destroyed(m).cache = r.cache
    BY <1>8 DEF Destroyed, Stored, AddCacheObject, Freed, o, u, new
  <2>2. /\ f \in [Obj -> CacheRecord]
        /\ \A p \in Obj : p # o => f[p] = heap[p]
        /\ \A p \in Obj : Exists(f[p]) = Exists(heap[p])
    BY <1>4, <1>5
  <2>3. HttpCache[u] # None /\ HttpCache[u] # o /\ Exists(heap[HttpCache[u]])
          => State(heap[HttpCache[u]]) # "BUSY"
    BY <1>1, <1>8, <2>2 DEF DeletesItem
  <2> HIDE DEF f
  <2>4. /\ g \in [Obj -> CacheRecord]
        /\ \A p \in Obj : p # HttpCache[u] \/ p = o => g[p] = f[p]
        /\ HttpCache[u] # None /\ HttpCache[u] # o => ~Exists(g[HttpCache[u]])
        /\ \A p \in Obj : Exists(g[p]) => Exists(f[p])
    BY <1>1, <1>3, <2>2 DEF Freed
  <2>5. /\ d \in [Url -> Obj \cup {None}] /\ d[u] = o
        /\ \A w \in Url : w # u => d[w] = HttpCache[w]
    BY <1>1
  <2>6. IsFiniteSet(Cached(d))
    <3>1. Cached(d) \subseteq Cached(HttpCache) \cup {u}
      BY <1>1, <2>5 DEF Cached
    <3>2. IsFiniteSet(Cached(HttpCache) \cup {u})
      BY <1>1, FS_AddElement
    <3> QED  BY <3>1, <3>2, FS_Subset
  <2> HIDE DEF g, d
  <2>7. /\ \A p \in Obj : Exists(r.heap[p]) => Exists(g[p])
        /\ \A p \in Obj : Exists(g[p]) /\ (p = o \/ State(g[p]) = "BUSY")
                            => Exists(r.heap[p])
        /\ \A w \in Url : r.cache[w] \in {d[w], None}
        /\ \A w \in Url : r.cache[w] # d[w] => ~Exists(r.heap[d[w]])
        /\ IsFiniteSet(Cached(r.cache))
    BY <1>1, <2>4, <2>5, <2>6, EvictionSpares
  <2> HIDE DEF r
  <2>8. \A p \in Obj : Exists(r.heap[p]) => Exists(heap[p])
    BY <2>2, <2>4, <2>7
  <2>9. ASSUME NEW p \in Obj, p # o, Exists(heap[p]), State(heap[p]) = "BUSY"
        PROVE  Exists(r.heap[p])
    <3>1. p # HttpCache[u]
      BY <1>1, <2>3, <2>9, ObjAssumption
    <3>2. g[p] = heap[p]
      BY <2>2, <2>4, <2>9, <3>1
    <3> QED  BY <2>7, <2>9, <3>2
  <2>10. Exists(heap[o]) => Exists(r.heap[o])
    BY <1>1, <2>2, <2>4, <2>7
  <2>11. \A w \in Url : r.cache[w] \in {HttpCache[w], None, o}
    BY <1>1, <2>5, <2>7
  <2>12. ASSUME NEW w \in Url, HttpCache[w] # None, r.cache[w] # HttpCache[w]
         PROVE  ~Exists(r.heap[HttpCache[w]])
    <3>1. HttpCache[w] \in Obj
      BY <1>1, <2>12
    <3>2. CASE d[w] = HttpCache[w]
      BY <2>7, <2>12, <3>2
    <3>3. CASE d[w] # HttpCache[w]
      <4>1. w = u /\ HttpCache[u] # o
        BY <1>1, <2>5, <3>3
      <4> QED  BY <2>4, <2>7, <2>12, <3>1, <4>1
    <3> QED  BY <3>2, <3>3
  <2> QED
    BY <1>6, <2>1, <2>7, <2>8, <2>9, <2>10, <2>11, <2>12
<1>9. CASE ~StoreWanted(m) /\ FromCache(m)
  <2> DEFINE h == Update(o, ResetState(heap[o]))
  <2>1. Destroyed(m).heap = h /\ Destroyed(m).cache = HttpCache
    BY <1>9 DEF Destroyed, o
  <2>2. \A p \in Obj : Exists(h[p]) = Exists(heap[p])
    BY <1>4, <1>5
  <2> HIDE DEF h
  <2> QED  BY <1>1, <1>6, <2>1, <2>2
<1>10. CASE ~StoreWanted(m) /\ ~FromCache(m) /\ DeletesOwn(m)
  <2> DEFINE h == [heap EXCEPT ![o] = NoObject]
  <2>1. Destroyed(m).heap = h /\ Destroyed(m).cache = HttpCache
    BY <1>10 DEF Destroyed, o
  <2>2. ~Exists(h[o]) /\ \A p \in Obj : p # o => h[p] = heap[p]
    BY <1>1, <1>3
  <2>3. m.bDeleteCache  BY <1>10 DEF DeletesOwn
  <2> HIDE DEF h
  <2> QED  BY <1>1, <1>6, <2>1, <2>2, <2>3
<1>11. CASE ~StoreWanted(m) /\ ~FromCache(m) /\ ~DeletesOwn(m)
  <2>1. Destroyed(m).heap = heap /\ Destroyed(m).cache = HttpCache
    BY <1>11 DEF Destroyed
  <2> QED  BY <1>1, <1>6, <2>1
<1> QED  BY <1>7, <1>8, <1>9, <1>10, <1>11

LEMMA SharedDelete ==
  ASSUME SharedInv, NEW s \in Stream, Delete(s)
  PROVE  SharedInv' /\ SparesWork
<1> DEFINE o == st[s].cacheObject
<1>1. TypeInv'  BY TypeDelete DEF SharedInv
<1>2. /\ s \in Open /\ fEasy' = [fEasy EXCEPT ![s] = None]
      /\ heap' = Destroyed(st[s]).heap /\ HttpCache' = Destroyed(st[s]).cache
      /\ st' = [st EXCEPT ![s] = NoMembers]
      /\ xfer' = [xfer EXCEPT ![s] = NoTransfer]
  BY DEF Delete, Open
<1>3. Spares(s, heap', HttpCache')
  BY <1>2, DestroyedSpares
<1>4. /\ \A p \in Obj : Exists(heap'[p]) => Exists(heap[p])
      /\ \A p \in Obj : p # o /\ Exists(heap[p]) /\ State(heap[p]) = "BUSY"
                          => Exists(heap'[p])
      /\ ~st[s].bDeleteCache /\ Exists(heap[o]) => Exists(heap'[o])
      /\ \A w \in Url : HttpCache'[w] \in {HttpCache[w], None, o}
      /\ \A w \in Url : HttpCache[w] # None /\ HttpCache'[w] # HttpCache[w]
                          => ~Exists(heap'[HttpCache[w]])
      /\ IsFiniteSet(Cached(HttpCache'))
  BY <1>3 DEF Spares
<1>5. /\ Open' = Open \ {s}
      /\ fEasy'[s] = None
      /\ \A t \in Open' : st'[t] = st[t] /\ xfer'[t] = xfer[t]
  BY <1>2 DEF SharedInv, TypeInv, TypeOK, Open
<1>6. \A t \in Open : st[t].cacheObject \in Obj /\ st[t].cacheObject # None
                      /\ st[t].sURL \in Url /\ t \in Stream
  BY ObjAssumption DEF SharedInv, TypeInv, StreamsSetUp, Open
<1> HIDE DEF o
<1>7. ASSUME NEW t \in Open'
      PROVE  /\ t \in Open /\ t # s
             /\ st'[t] = st[t]
             /\ st[t].bDeleteCache =>
                  /\ st[t].cacheObject # o
                  /\ \A w \in Url : HttpCache[w] # st[t].cacheObject
                  /\ \A r \in Open :
                       st[r].cacheObject = st[t].cacheObject => r = t
             /\ st[t].cacheObject = o => ~st[s].bDeleteCache
  BY <1>2, <1>5 DEF SharedInv, OwnedApart, o
<1>8. OwnedApart'
  <2> SUFFICES ASSUME NEW t \in Open', st'[t].bDeleteCache
               PROVE  /\ \A w \in Url : HttpCache'[w] # st'[t].cacheObject
                      /\ \A r \in Open' :
                           st'[r].cacheObject = st'[t].cacheObject => r = t
    BY DEF OwnedApart
  <2> QED  BY <1>4, <1>6, <1>7
<1>9. BorrowedThere'
  <2> SUFFICES ASSUME NEW t \in Open', ~st'[t].bDeleteCache
               PROVE  \/ HttpCache'[st'[t].sURL] = st'[t].cacheObject
                      \/ ~Exists(heap'[st'[t].cacheObject])
    BY DEF BorrowedThere
  <2>1. t \in Open /\ st'[t] = st[t]
    BY <1>7
  <2>2. \/ HttpCache[st[t].sURL] = st[t].cacheObject
        \/ ~Exists(heap[st[t].cacheObject])
    BY <2>1 DEF SharedInv, BorrowedThere
  <2> QED  BY <1>4, <1>6, <2>1, <2>2
<1>10. NothingMoved' /\ FiniteCache'
  <2>1. FiniteCache'
    BY <1>4 DEF FiniteCache, Cached
  <2>2. NothingMoved'
    BY <1>5, <1>7 DEF SharedInv, NothingMoved
  <2> QED  BY <2>1, <2>2
<1>11. SparesWork
  <2> SUFFICES ASSUME NEW t \in Open, Live(st[t].cacheObject), fEasy'[t] # None,
                      State(heap[st[t].cacheObject]) = "BUSY"
               PROVE  Exists(heap'[st[t].cacheObject])
    BY DEF SparesWork
  <2>1. t \in Open'
    BY <1>5
  <2> QED  BY <1>4, <1>6, <1>7, <2>1 DEF Live
<1> QED
  BY <1>1, <1>8, <1>9, <1>10, <1>11 DEF SharedInv, NoRedirection

LEMMA SharedStep ==
  ASSUME SharedInv, [Next]_vars
  PROVE  SharedInv' /\ [SparesWork]_vars
<1>1. CASE \E s \in Stream, u \in Url, mode \in Modes : NewStream(s, u, mode)
  BY <1>1, SharedNewStream
<1>2. ASSUME NEW s \in Stream, NEW n \in 1 .. MaxRead, BeginRead(s, n)
      PROVE  SharedInv' /\ SparesWork
  <2>1. UNCHANGED <<heap, HttpCache, fEasy, xfer>>
    BY <1>2 DEF BeginRead, handlerVars
  <2>2. \A t \in Open : SameObject(st[t], st'[t])
    BY <1>2, SMTT(30)
       DEF BeginRead, SharedInv, TypeInv, TypeOK, Members, Open, SameObject
  <2>3. TypeInv'
    BY <1>2, TypeBeginRead DEF SharedInv
  <2> QED  BY <2>1, <2>2, <2>3, SharedQuiet DEF SharedInv, NothingMoved
<1>3. CASE \E s \in Stream : Delete(s)
  BY <1>3, SharedDelete
<1>4. CASE \E t \in Stream : Transfer(t)
  BY <1>4, SharedHeader, SharedBody DEF Transfer
<1>5. CASE TakeMessage
  BY <1>5, SharedTakeMessage
<1>6. CASE PerformAgain \/ EndRead \/ EndReadFromCache
  BY <1>6, SharedPerformAgain, SharedEndRead
<1>7. CASE UNCHANGED vars \/ \E u \in Url : ServerUpdate(u)
  <2>1. UNCHANGED <<heap, HttpCache, fEasy, st, xfer>>
    BY <1>7 DEF vars, ServerUpdate, handlerVars
  <2>2. TypeInv'
    BY <1>7, TypeStutter, TypeServerUpdate DEF SharedInv
  <2> QED
    BY <2>1, <2>2, SharedQuiet DEF SharedInv, NothingMoved, SameObject
<1> QED
  BY <1>1, <1>2, <1>3, <1>4, <1>5, <1>6, <1>7 DEF Next, ReadStep

\* However many streams are open at once, on the same documents or on others,
\* and however small the cache is, no destructor frees the object another
\* stream is writing or reading, while there are no redirects.
THEOREM WorkIsSpared == NoRedirection /\ Spec => WorkSpared
<1>1. SharedInv /\ [Next]_vars => SharedInv' /\ [SparesWork]_vars
  BY SharedStep
<1> QED  BY <1>1, SharedInit, PTL DEF WorkSpared, Spec
=============================================================================
