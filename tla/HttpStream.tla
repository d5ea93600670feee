----------------------------- MODULE HttpStream -----------------------------
(***************************************************************************)
(* The HTTP streams of an application (HttpStream.cpp) over the state they *)
(* share (DataStreamHandler.cpp), curl's multi interface and the servers.  *)
(*                                                                         *)
(* The library is single threaded: the application opens, reads and closes *)
(* streams one call at a time, and curl runs the header and write          *)
(* callbacks of every transfer of the multi handle, whichever stream it    *)
(* belongs to, inside the readBytes call of one of them.                   *)
(*                                                                         *)
(* A document is a sequence of pieces, the unit of one write callback.  A  *)
(* server keeps one version per URL at a time; versions stand for the      *)
(* ETag and Last-Modified validators.  What servers send is "raw"; only    *)
(* TidyStream makes "tidied" pieces.                                       *)
(***************************************************************************)
EXTENDS DataStreamHandler, Integers

CONSTANTS
  Stream,                       \* slots for HttpStream objects
  \* The servers.
  Target,                       \* Target[u]: where u redirects to, or None
  BodyLen,                      \* BodyLen[u]: pieces in each version of u
  NoiseLen,                     \* pieces in the body of a 302 or 404
  MaxVer,                       \* bound: versions of one document
  Framing,                      \* of bodies: "length", "chunked", "encoded"
  Validators,                   \* whether responses carry an ETag
  Faults,                       \* "drop": a transfer fails; "status": a 404
  \* The application.
  Modes,                        \* "cache", "nocache", "late"
  Shared,                       \* two streams may be open on one URL
  MaxRead                       \* bound: pieces asked for in one call

ASSUME StreamAssumption ==
  None \notin Stream /\ IsFiniteSet(Stream)
ASSUME ServerAssumption ==
  /\ Target \in [Url -> Url \cup {None}]
  /\ BodyLen \in [Url -> Nat]
  /\ NoiseLen \in Nat
  /\ MaxVer \in Nat \ {0} /\ None \notin 1 .. MaxVer
  /\ Framing \subseteq {"length", "chunked", "encoded"}
  /\ Validators \in BOOLEAN
  /\ Faults \subseteq {"drop", "status"}
ASSUME ClientAssumption ==
  /\ Modes \subseteq {"cache", "nocache", "late"}
  /\ Shared \in BOOLEAN
  /\ MaxRead \in Nat \ {0}

VARIABLES
  fEasy,                        \* fEasy[s]: the handle of s; None: no stream
  st,                           \* st[s]: the other members of stream s
  xfer,                         \* xfer[s]: curl's transfer for s
  msgs,                         \* curl's queue of DONE messages
  cur,                          \* the stream inside readBytes, or None
  phase,                        \* where in readBytes it is
  ver,                          \* ver[u]: the version the server has now
  status,                       \* status[s]: what the reader of s has seen
  out,                          \* out[s]: the pieces returned to it
  since,                        \* since[s]: the versions when it opened s
  faults                        \* undefined behaviour met so far

clientVars == <<status, out, since>>
callVars   == <<cur, phase>>
vars == <<heap, HttpCache, freeHandles, fEasy, st, xfer, msgs, cur, phase,
          ver, status, out, since, faults>>

Version == 1 .. MaxVer
Piece   == [url : Url, version : Version \cup {0}, n : Nat,
            form : {"raw", "tidied"}]

Body(u, v) ==
  [i \in 1 .. BodyLen[u] |->
     [url |-> u, version |-> v, n |-> i, form |-> "raw"]]

\* The page that comes with a redirect or an error.
Noise(u) ==
  [i \in 1 .. NoiseLen |->
     [url |-> u, version |-> 0, n |-> i, form |-> "raw"]]

(***************************************************************************)
(* The members of a stream.  fBytesRead is the length of "filled", the     *)
(* pieces put at fWritePtr in this call; fBufferSize that of fBuffer.      *)
(***************************************************************************)
NoMembers ==
  [sURL |-> None, cacheObject |-> None, bDeleteCache |-> FALSE,
   bUseCache |-> FALSE, bStoreCache |-> FALSE, bTransferFinished |-> FALSE,
   bStreamFromCache |-> FALSE, fLocation |-> None,
   hContent_length_response |-> 0, fTotalBytesRead |-> 0,
   fBytesToRead |-> 0, maxToRead |-> 0, filled |-> <<>>, fBuffer |-> <<>>]

\* A transfer: the validator its request carries, the last status code, the
\* body still to come, whether its end is known from Content-Length.
NoTransfer ==
  [phase |-> "none", cond |-> None, code |-> 0, left |-> <<>>,
   sized |-> FALSE, ok |-> TRUE]

Request(cond, code) ==
  [NoTransfer EXCEPT !.phase = "sent", !.cond = cond, !.code = code]

Open    == {s \in Stream : fEasy[s] # None}
Held    == {fEasy[s] : s \in Open}
Running == {s \in Open : xfer[s].phase \in {"sent", "body"}}

Live(o) == o # None /\ Exists(heap[o])
Use(o)  == IF Live(o) THEN {} ELSE {"use_after_free"}
Update(o, new) == IF Live(o) THEN [heap EXCEPT ![o] = new] ELSE heap

\* Addresses operator new may return: not live, and not in any pointer.
Unused ==
  {o \in Obj : /\ ~Exists(heap[o])
               /\ \A u \in Url : HttpCache[u] # o
               /\ \A s \in Stream : st[s].cacheObject # o}

Init ==
  /\ HandlerInit
  /\ fEasy = [s \in Stream |-> None]
  /\ st = [s \in Stream |-> NoMembers]
  /\ xfer = [s \in Stream |-> NoTransfer]
  /\ msgs = <<>>
  /\ cur = None /\ phase = "outside"
  /\ ver = [u \in Url |-> 1]
  /\ status = [s \in Stream |-> "closed"]
  /\ out = [s \in Stream |-> <<>>]
  /\ since = [s \in Stream |-> [u \in Url |-> 1]]
  /\ faults = {}

-----------------------------------------------------------------------------
(***************************************************************************)
(* setupConnection: keep a cached object to revalidate it, or start a new  *)
(* one (at address "new") and note that it is the stream's to delete.      *)
(***************************************************************************)
\* Mutant: bDeleteCache is set for a cached object too.
SetupConnectionOwningAll(m, pCache, new) ==
  [m EXCEPT !.cacheObject = IF ~m.bUseCache THEN m.cacheObject
                            ELSE IF pCache = None THEN new ELSE pCache,
            !.bDeleteCache = m.bDeleteCache \/ m.bUseCache,
            !.fLocation = None]

SetupConnection(m, pCache, new) ==
  IF ~m.bUseCache THEN [m EXCEPT !.fLocation = None]
  ELSE IF pCache = None
  THEN [m EXCEPT !.cacheObject = new, !.bDeleteCache = TRUE,
                 !.fLocation = None]
  ELSE [m EXCEPT !.cacheObject = pCache,
                 !.fLocation = IF Live(pCache) THEN heap[pCache].pLocation
                               ELSE None]

RequestHeaders(m, pCache) ==
  IF m.bUseCache /\ Live(pCache) THEN heap[pCache].pEtag ELSE None

\* The object looked up for u, and where a new one would be put.
Lookup(wanted, u) ==
  IF wanted THEN GetCacheObject(heap, HttpCache, u) ELSE None

NewAddresses(needed) == IF needed THEN Unused ELSE {None}

HeapWith(new) == IF new = None THEN heap ELSE [heap EXCEPT ![new] = NewObject]

UseOfEntry(wanted, u) ==
  IF wanted /\ HttpCache[u] # None THEN Use(HttpCache[u]) ELSE {}

(***************************************************************************)
(* newStream, the constructor, and useCache.  The constructor always runs  *)
(* with bUseCache set; "late" is an application (XmlReader::parse is one)  *)
(* that turns the cache off once it has the stream.                        *)
(***************************************************************************)
NewStream(s, u, mode) ==
  LET wanted == mode # "nocache"
      pCache == Lookup(wanted, u)
  IN
  /\ cur = None
  /\ fEasy[s] = None
  /\ Shared \/ \A t \in Open : st[t].sURL # u
  /\ \E h \in Handle, new \in NewAddresses(pCache = None) :
       LET m == SetupConnection(
                  [NoMembers EXCEPT !.sURL = u, !.bUseCache = TRUE],
                  pCache, new)
       IN
       /\ HandleToUse(Held, h)
       /\ fEasy' = [fEasy EXCEPT ![s] = h]
       /\ freeHandles' = HandlesLeft
       /\ heap' = HeapWith(new)
       /\ st' = [st EXCEPT ![s] = [m EXCEPT !.bUseCache = (mode = "cache")]]
       /\ xfer' = [xfer EXCEPT ![s] = Request(RequestHeaders(m, pCache), 0)]
  /\ faults' = faults \cup UseOfEntry(wanted, u)
  /\ status' = [status EXCEPT ![s] = "open"]
  /\ since' = [since EXCEPT ![s] = ver]
  /\ UNCHANGED <<HttpCache, msgs, callVars, ver, out>>

(***************************************************************************)
(* The first part of readBytes(toFill, n): what is buffered is returned    *)
(* first; if that is not enough curl is asked to work.                     *)
(***************************************************************************)
BeginRead(s, n) ==
  LET m    == st[s]
      k    == IF m.bStreamFromCache THEN 0 ELSE Least(n, Len(m.fBuffer))
      rest == n - k
  IN
  /\ cur = None
  /\ fEasy[s] # None
  /\ status[s] = "open"
  /\ cur' = s
  /\ phase' = IF m.bStreamFromCache \/ rest = 0 THEN "return" ELSE "perform"
  /\ st' = [st EXCEPT ![s] =
             [m EXCEPT !.maxToRead = n,
                       !.fBytesToRead = rest,
                       !.filled = SubSeq(m.fBuffer, 1, k),
                       !.fBuffer = SubSeq(m.fBuffer, k + 1, Len(m.fBuffer)),
                       !.fTotalBytesRead = m.fTotalBytesRead + k]]
  /\ UNCHANGED <<handlerVars, fEasy, xfer, msgs, ver, clientVars, faults>>

-----------------------------------------------------------------------------
(***************************************************************************)
(* curl_multi_perform: any of the running transfers makes progress.        *)
(***************************************************************************)
Performing(t) == cur # None /\ phase = "perform" /\ t \in Running

\* The transfer with its body cut down to "left", and the DONE message sent
\* at once when that is known to be the end.
Response(x, code, body, sized) ==
  [x EXCEPT !.code = code, !.left = body, !.sized = sized]

Ends(x) == x.sized /\ x.left = <<>>
After(x) == IF Ends(x) THEN [x EXCEPT !.phase = "done"]
            ELSE [x EXCEPT !.phase = "body"]
Announce(t, x) == msgs' = IF Ends(x) THEN Append(msgs, t) ELSE msgs

(***************************************************************************)
(* headerCallback for a complete response head, by kind of response.       *)
(* Headers of every kind are looked at: a 200 asks for storing, and an     *)
(* ETag goes into the object at once, before any of the body.              *)
(***************************************************************************)
SetsEtag(m) == m.bUseCache /\ Validators

HeadOK(t, f) ==
  LET m    == st[t]
      u    == m.sURL
      o    == m.cacheObject
      sent == CASE f = "length"  -> BodyLen[u]
                [] f = "encoded" -> BodyLen[u] - 1
                [] OTHER         -> m.hContent_length_response
      x    == Response(xfer[t], 200, Body(u, ver[u]), f # "chunked")
  IN
  /\ Target[u] = None
  /\ xfer[t].cond # ver[u]
  /\ BodyLen[u] > 0 \/ f # "encoded"
  /\ st' = [st EXCEPT ![t] = [m EXCEPT !.bStoreCache = TRUE,
                                       !.hContent_length_response = sent]]
  /\ heap' = IF SetsEtag(m) /\ Live(o)
             THEN [heap EXCEPT ![o].pEtag = ver[u]] ELSE heap
  /\ faults' = faults \cup IF SetsEtag(m) THEN Use(o) ELSE {}
  /\ xfer' = [xfer EXCEPT ![t] = After(x)]
  /\ Announce(t, x)

HeadNotModified(t) ==
  LET x == Response(xfer[t], 304, <<>>, TRUE)
  IN
  /\ Target[st[t].sURL] = None
  /\ xfer[t].cond = ver[st[t].sURL]
  /\ xfer' = [xfer EXCEPT ![t] = After(x)]
  /\ Announce(t, x)
  /\ UNCHANGED <<st, heap, faults>>

HeadRedirect(t, f) ==
  LET m == st[t]
      o == m.cacheObject
      x == Response(xfer[t], 302, Noise(m.sURL), f # "chunked")
  IN
  /\ Target[m.sURL] # None
  /\ f # "encoded"
  /\ st' = [st EXCEPT ![t] =
             [m EXCEPT !.fLocation = Target[m.sURL],
                       !.hContent_length_response =
                          IF f = "length" THEN NoiseLen
                          ELSE m.hContent_length_response]]
  /\ heap' = IF m.bUseCache /\ Live(o)
             THEN [heap EXCEPT ![o].pLocation = Target[m.sURL]] ELSE heap
  /\ faults' = faults \cup IF m.bUseCache THEN Use(o) ELSE {}
  /\ xfer' = [xfer EXCEPT ![t] = After(x)]
  /\ Announce(t, x)

HeadError(t, f) ==
  LET x == Response(xfer[t], 404, Noise(st[t].sURL), f # "chunked")
  IN
  /\ "status" \in Faults
  /\ f # "encoded"
  /\ st' = [st EXCEPT ![t].hContent_length_response =
              IF f = "length" THEN NoiseLen ELSE @]
  /\ xfer' = [xfer EXCEPT ![t] = After(x)]
  /\ Announce(t, x)
  /\ UNCHANGED <<heap, faults>>

Header(t) ==
  /\ Performing(t)
  /\ xfer[t].phase = "sent"
  /\ \/ HeadNotModified(t)
     \/ \E f \in Framing :
          HeadOK(t, f) \/ HeadRedirect(t, f) \/ HeadError(t, f)
  /\ UNCHANGED <<HttpCache, freeHandles, fEasy, callVars, ver, clientVars>>

(***************************************************************************)
(* writeCallback: to the caller while it has room, the rest to the holding *)
(* buffer; and all of it into the cache object of a 200.                   *)
(***************************************************************************)
\* Mutant: without the test that anything is left to fill.
HasRoomAlways(m) == TRUE

HasRoom(m) == m.fBytesToRead > 0

Compresses(m) == m.bUseCache /\ m.bStoreCache

Data(t) ==
  LET m == st[t]
      p == Head(xfer[t].left)
      o == m.cacheObject
      x == [xfer[t] EXCEPT !.left = Tail(@)]
  IN
  /\ Performing(t)
  /\ xfer[t].phase = "body"
  /\ xfer[t].left # <<>>
  /\ st' = [st EXCEPT ![t] =
             IF HasRoom(m)
             THEN [m EXCEPT !.filled = Append(@, p),
                            !.fBytesToRead = @ - 1,
                            !.fTotalBytesRead = @ + 1]
             ELSE [m EXCEPT !.fBuffer = Append(@, p)]]
  /\ heap' = IF Compresses(m) /\ Live(o)
             THEN [heap EXCEPT ![o] = WriteBytes(@, <<p>>)] ELSE heap
  /\ faults' = faults \cup (IF Compresses(m) THEN Use(o) ELSE {})
                      \cup (IF HasRoom(m) /\ t # cur
                            THEN {"stale_write"} ELSE {})
  /\ xfer' = [xfer EXCEPT ![t] = After(x)]
  /\ Announce(t, x)
  /\ UNCHANGED <<HttpCache, freeHandles, fEasy, callVars, ver, clientVars>>

\* The last chunk of a body of unknown length.
Complete(t) ==
  /\ Performing(t)
  /\ xfer[t].phase = "body"
  /\ xfer[t].left = <<>>
  /\ xfer' = [xfer EXCEPT ![t].phase = "done"]
  /\ msgs' = Append(msgs, t)
  /\ UNCHANGED <<handlerVars, fEasy, st, callVars, ver, clientVars, faults>>

\* A lost connection, or a timeout.
Fail(t) ==
  /\ "drop" \in Faults
  /\ Performing(t)
  /\ xfer' = [xfer EXCEPT ![t].phase = "done", ![t].ok = FALSE]
  /\ msgs' = Append(msgs, t)
  /\ UNCHANGED <<handlerVars, fEasy, st, callVars, ver, clientVars, faults>>

-----------------------------------------------------------------------------
(***************************************************************************)
(* readBytes takes the DONE messages of the multi handle, of whichever     *)
(* transfer they are: the result is the message's, the response code that  *)
(* of the stream inside readBytes.                                         *)
(***************************************************************************)
\* curl_multi_remove_handle takes back the message of a handle that has one.
Without(queue, s) ==
  IF \E i \in DOMAIN queue : queue[i] = s
  THEN RemoveAt(queue, CHOOSE i \in DOMAIN queue : queue[i] = s)
  ELSE queue

Message(t) ==
  /\ cur # None
  /\ phase \in {"perform", "messages"}
  /\ msgs # <<>>
  /\ t = Head(msgs)

\* Mutant: the result of a transfer is not looked at.
FinishedAnyhow(s, t) == xfer[s].code \in {0, 200}

Finished(s, t) == xfer[t].ok /\ xfer[s].code \in {0, 200}
Unmodified(s, t) == xfer[t].ok /\ xfer[s].code = 304
Redirected(s, t) == xfer[t].ok /\ xfer[s].code = 302 /\ st[s].fLocation # None
Refused(s, t) ==
  ~xfer[t].ok \/ xfer[s].code = 404
    \/ (xfer[s].code = 302 /\ st[s].fLocation = None)

TakeFinished(t) ==
  /\ Message(t)
  /\ Finished(cur, t)
  /\ msgs' = Tail(msgs)
  /\ phase' = "messages"
  /\ UNCHANGED <<handlerVars, fEasy, st, xfer, cur, ver, clientVars, faults>>

TakeUnmodified(t) ==
  /\ Message(t)
  /\ Unmodified(cur, t)
  /\ st' = [st EXCEPT ![cur].bStreamFromCache = TRUE]
  /\ msgs' = Tail(msgs)
  /\ phase' = "messages"
  /\ UNCHANGED <<handlerVars, fEasy, xfer, cur, ver, clientVars, faults>>

(***************************************************************************)
(* A redirect starts the stream over at its new location.  resetBuffer     *)
(* frees the holding buffer that destroyConnection has just freed.         *)
(***************************************************************************)
ResetForRedirect(m) ==
  [m EXCEPT !.sURL = m.fLocation, !.fTotalBytesRead = 0, !.fBuffer = <<>>,
            !.bStoreCache = FALSE, !.bStreamFromCache = FALSE,
            !.filled = <<>>, !.fBytesToRead = m.maxToRead]

\* The object the stream pointed to and nothing points to any more.  It is
\* dropped from heap, and the leak remembered.
Orphan(s, new) ==
  LET o == st[s].cacheObject
  IN  /\ Live(o) /\ o # new
      /\ \A u \in Url : HttpCache[u] # o
      /\ \A t \in Stream \ {s} : st[t].cacheObject # o

TakeRedirect(t) ==
  LET s      == cur
      m      == ResetForRedirect(st[s])
      pCache == Lookup(m.bUseCache, m.sURL)
  IN
  /\ Message(t)
  /\ Redirected(s, t)
  /\ \E new \in NewAddresses(m.bUseCache /\ pCache = None) :
       LET m2   == SetupConnection(m, pCache, new)
           lost == Orphan(s, m2.cacheObject)
       IN
       /\ st' = [st EXCEPT ![s] = m2]
       /\ heap' = IF lost
                  THEN [HeapWith(new) EXCEPT ![st[s].cacheObject] = NoObject]
                  ELSE HeapWith(new)
       /\ faults' = faults
            \cup UseOfEntry(m.bUseCache, m.sURL)
            \cup (IF st[s].fBuffer # <<>> THEN {"double_free"} ELSE {})
            \cup (IF lost THEN {"leak"} ELSE {})
       /\ xfer' = [xfer EXCEPT ![s] = Request(RequestHeaders(m2, pCache), 302)]
  /\ msgs' = Without(Tail(msgs), s)
  /\ phase' = "messages"
  /\ UNCHANGED <<HttpCache, freeHandles, fEasy, cur, ver, clientVars>>

\* Everything else is thrown as an XmlError out of readBytes.
TakeError(t) ==
  /\ Message(t)
  /\ Refused(cur, t)
  /\ msgs' = Tail(msgs)
  /\ status' = [status EXCEPT ![cur] = "error"]
  /\ cur' = None
  /\ phase' = "outside"
  /\ UNCHANGED <<handlerVars, fEasy, st, xfer, ver, out, since, faults>>

(***************************************************************************)
(* The loop ends when the caller has something, or when nothing is         *)
(* running any longer, and otherwise asks curl again.                      *)
(***************************************************************************)
\* Mutant: the loop goes on until there is data, running transfers or not.
LoopEndsWithData(s) ==
  st[s].fBytesToRead = 0 \/ st[s].filled # <<>> \/ st[s].bStreamFromCache

\* Mutant: one curl_multi_perform for each call.
LoopEndsAtOnce(s) == TRUE

LoopEnds(s) ==
  \/ st[s].fBytesToRead = 0
  \/ st[s].filled # <<>>
  \/ st[s].bStreamFromCache
  \/ Running = {}

PerformAgain ==
  /\ cur # None
  /\ phase = "messages"
  /\ msgs = <<>>
  /\ ~LoopEnds(cur)
  /\ phase' = "perform"
  /\ xfer' = IF xfer[cur].phase = "sent"
             THEN [xfer EXCEPT ![cur].code = 0] ELSE xfer
  /\ UNCHANGED <<handlerVars, fEasy, st, msgs, cur, ver, clientVars, faults>>

(***************************************************************************)
(* The last part of readBytes.  After a 304 the bytes come from the cache. *)
(* Nothing returned means the end of the document to the caller.           *)
(***************************************************************************)
FromCache(m) == m.bUseCache /\ m.bStreamFromCache

\* readBytes of the object, and resetState when it had nothing.
CacheReads(o, n) ==
  {[data |-> r.data,
    obj  |-> IF r.data = <<>> THEN ResetState(r.obj) ELSE r.obj] :
     r \in ReadOutcomes(heap[o], n)}

NothingRead(o) == {[data |-> <<>>, obj |-> None]}

TransferFinished(m, total) ==
  m.bTransferFinished \/ m.hContent_length_response = total

\* fBytesToRead is reset, so that later data is buffered instead.
\* Mutant: fBytesToRead is left as it is.
AtRestStillWanting(m) == [m EXCEPT !.filled = <<>>]

AtRest(m) == [m EXCEPT !.fBytesToRead = 0, !.filled = <<>>, !.maxToRead = 0]

Return(s, data, m) ==
  LET total == m.fTotalBytesRead
  IN
  /\ st' = [st EXCEPT ![s] =
             [AtRest(m) EXCEPT !.bTransferFinished =
                                  TransferFinished(m, total)]]
  /\ out' = [out EXCEPT ![s] = @ \o data]
  /\ status' = [status EXCEPT ![s] = IF data = <<>> THEN "eof" ELSE "open"]
  /\ cur' = None
  /\ phase' = "outside"

ReadsEnd == phase = "return" \/ (msgs = <<>> /\ LoopEnds(cur))

EndRead ==
  LET s == cur
      m == st[s]
  IN
  /\ cur # None
  /\ ReadsEnd
  /\ ~FromCache(m)
  /\ Return(s, m.filled, m)
  /\ UNCHANGED <<handlerVars, fEasy, xfer, msgs, ver, since, faults>>

EndReadFromCache ==
  LET s == cur
      m == st[s]
      o == m.cacheObject
  IN
  /\ cur # None
  /\ ReadsEnd
  /\ FromCache(m)
  /\ \E r \in IF Live(o) THEN CacheReads(o, m.fBytesToRead)
              ELSE NothingRead(o) :
       /\ heap' = Update(o, r.obj)
       /\ Return(s, r.data,
                 [m EXCEPT !.fTotalBytesRead = @ + Len(r.data)])
  /\ faults' = faults \cup Use(o)
  /\ UNCHANGED <<HttpCache, freeHandles, fEasy, xfer, msgs, ver, since>>

-----------------------------------------------------------------------------
(***************************************************************************)
(* The destructor: finish and store a complete copy, or close the cached   *)
(* copy that was read, or delete an object that is the stream's own; then  *)
(* give the handle back.                                                   *)
(***************************************************************************)
\* Mutant: what was received is stored, finished or not.
StoreWantedEarly(m) == m.bStoreCache /\ m.bUseCache

StoreWanted(m) == m.bStoreCache /\ m.bTransferFinished /\ m.bUseCache

\* Mutant: only an object that was to be stored is deleted.
DeletesOwnIfStoring(m) == m.bDeleteCache /\ m.bStoreCache

DeletesOwn(m) == m.bDeleteCache

Dangling(c) == \E u \in Url : c[u] # None /\ ~Exists(heap[c[u]])

Stored(m) ==
  LET o == m.cacheObject
  IN  AddCacheObject(Update(o, ResetState(FinishBytes(heap[o]))),
                     HttpCache, m.sURL, o)

Destroyed(m) ==
  LET o == m.cacheObject
  IN  IF StoreWanted(m)
      THEN [heap |-> Stored(m).heap, cache |-> Stored(m).cache,
            bad  |-> Stored(m).bad \cup Use(o)
                       \cup IF Dangling(HttpCache) THEN {"use_after_free"}
                            ELSE {}]
      ELSE IF FromCache(m)
      THEN [heap |-> Update(o, ResetState(heap[o])), cache |-> HttpCache,
            bad  |-> Use(o)]
      ELSE IF DeletesOwn(m)
      THEN [heap |-> [heap EXCEPT ![o] = NoObject], cache |-> HttpCache,
            bad  |-> Use(o)]
      ELSE [heap |-> heap, cache |-> HttpCache, bad |-> {}]

Delete(s) ==
  LET after == Destroyed(st[s])
  IN
  /\ cur = None
  /\ fEasy[s] # None
  /\ heap' = after.heap
  /\ HttpCache' = after.cache
  /\ faults' = faults \cup after.bad
  /\ ReleaseHandle(fEasy[s])
  /\ fEasy' = [fEasy EXCEPT ![s] = None]
  /\ st' = [st EXCEPT ![s] = NoMembers]
  /\ xfer' = [xfer EXCEPT ![s] = NoTransfer]
  /\ msgs' = Without(msgs, s)
  /\ status' = [status EXCEPT ![s] = "closed"]
  /\ out' = [out EXCEPT ![s] = <<>>]
  /\ since' = [since EXCEPT ![s] = [u \in Url |-> 1]]
  /\ UNCHANGED <<callVars, ver>>

-----------------------------------------------------------------------------
\* A server publishes a new version of a document.
ServerUpdate(u) ==
  /\ ver[u] < MaxVer
  /\ Target[u] = None
  /\ ver' = [ver EXCEPT ![u] = @ + 1]
  /\ UNCHANGED <<handlerVars, fEasy, st, xfer, msgs, callVars, clientVars,
                 faults>>

Transfer(t) == Header(t) \/ Data(t) \/ Complete(t) \/ Fail(t)

TakeMessage ==
  \E t \in Stream : \/ TakeFinished(t) \/ TakeUnmodified(t)
                    \/ TakeRedirect(t) \/ TakeError(t)

ReadStep ==
  \/ \E t \in Stream : Transfer(t)
  \/ TakeMessage
  \/ PerformAgain
  \/ EndRead
  \/ EndReadFromCache

Next ==
  \/ \E s \in Stream :
       \/ \E u \in Url, mode \in Modes : NewStream(s, u, mode)
       \/ \E n \in 1 .. MaxRead : BeginRead(s, n)
       \/ Delete(s)
  \/ ReadStep
  \/ \E u \in Url : ServerUpdate(u)

Spec == Init /\ [][Next]_vars

(***************************************************************************)
(* While an application waits in readBytes, its loop keeps calling curl;   *)
(* a transfer advances, or its timeouts (CURLOPT_CONNECTTIMEOUT and        *)
(* CURLOPT_LOW_SPEED_TIME) end it.  Nobody is obliged to call readBytes.   *)
(***************************************************************************)
Fairness ==
  /\ \A t \in Stream : WF_vars(Transfer(t))
  /\ WF_vars(TakeMessage)
  /\ WF_vars(PerformAgain)
  /\ WF_vars(EndRead)
  /\ WF_vars(EndReadFromCache)

LiveSpec == Spec /\ Fairness

-----------------------------------------------------------------------------
(***************************************************************************)
(* Properties.                                                             *)
(***************************************************************************)
CacheRecord ==
  [eState : CacheStates \cup {"FREED"}, zBuffer : Seq(Piece),
   ended : BOOLEAN, pos : Nat,
   pEtag : Version \cup {None}, pLocation : Url \cup {None},
   bTidyFlag : BOOLEAN]

Members ==
  [sURL : Url \cup {None}, cacheObject : Obj \cup {None},
   bDeleteCache : BOOLEAN, bUseCache : BOOLEAN, bStoreCache : BOOLEAN,
   bTransferFinished : BOOLEAN, bStreamFromCache : BOOLEAN,
   fLocation : Url \cup {None}, hContent_length_response : Nat,
   fTotalBytesRead : Nat, fBytesToRead : Nat, maxToRead : Nat,
   filled : Seq(Piece), fBuffer : Seq(Piece)]

TransferPhases == {"none", "sent", "body", "done"}
Codes == {0, 200, 302, 304, 404}
Validator == Version \cup {None}

TransferRecord ==
  [phase : TransferPhases, cond : Validator, code : Codes,
   left : Seq(Piece), sized : BOOLEAN, ok : BOOLEAN]

Undefined == {"use_after_free", "double_free", "iterator", "stale_write"}

\* Every variable has its type.
TypeOK ==
  /\ heap \in [Obj -> CacheRecord]
  /\ HttpCache \in [Url -> Obj \cup {None}]
  /\ freeHandles \in Seq(Handle)
  /\ fEasy \in [Stream -> Handle \cup {None}]
  /\ st \in [Stream -> Members]
  /\ xfer \in [Stream -> TransferRecord]
  /\ msgs \in Seq(Stream)
  /\ cur \in Stream \cup {None}
  /\ phase \in {"outside", "perform", "messages", "return"}
  /\ ver \in [Url -> Version]
  /\ status \in [Stream -> {"closed", "open", "eof", "error"}]
  /\ out \in [Stream -> Seq(Piece)]
  /\ since \in [Stream -> [Url -> Version]]
  /\ faults \subseteq Undefined \cup {"leak"}

\* A curl easy handle has one owner (newStream and releaseHandle): no two
\* streams share one, and the queue of idle handles holds none twice and
\* none that a stream still uses.
HandleOwnership ==
  /\ \A s, t \in Open : fEasy[s] = fEasy[t] => s = t
  /\ \A i, j \in DOMAIN freeHandles :
       freeHandles[i] = freeHandles[j] => i = j
  /\ \A i \in DOMAIN freeHandles : freeHandles[i] \notin Held

\* Handles are recycled, never piled up: newStream creates one only when no
\* idle one exists, so there are never more than streams open at once.
PoolBound == Cardinality(Open) + Len(freeHandles) <= Cardinality(Stream)

\* Every entry of HttpCache points to a live object of its own, so that
\* getCacheObject returns a "pointer to the cached object"
\* (DataStreamHandler.cpp:430).
MapIntact ==
  \A u \in Cached(HttpCache) :
    /\ Exists(heap[HttpCache[u]])
    /\ \A w \in Url : HttpCache[w] = HttpCache[u] => w = u

\* The objects streams work on are not freed under them by the destructor of
\* another stream or by checkCacheSize.
NoUseAfterFree == "use_after_free" \notin faults

\* What curl delivers for a stream nobody is reading is buffered, not written
\* where its last readBytes was asked to: "Reset the fBytesToRead so that the
\* following data will be buffered instead" (HttpStream.cpp:883).
NoStaleWrite == "stale_write" \notin faults

\* The holding buffer is freed once (destroyConnection, resetBuffer).
NoDoubleFree == "double_free" \notin faults

\* checkCacheSize does not step from an erased map entry.
NoErasedIterator == "iterator" \notin faults

\* Every live cache object can still be deleted: it is in the map or it is
\* the object of an open stream.
NoLeak ==
  /\ "leak" \notin faults
  /\ \A o \in Obj : Exists(heap[o]) =>
       \/ \E u \in Url : HttpCache[u] = o
       \/ \E s \in Open : st[s].cacheObject = o

\* The object of an open stream exists and has one owner that will delete it:
\* the stream when bDeleteCache is set, and then the map must not have it and
\* the stream must not take its bytes for a cached copy; or else the map, at
\* the URL of the stream.  setupConnection sets the flag and nothing but
\* addCacheObject, in the destructor, moves an object from one to the other.
SoleDeleter ==
  \A s \in Open :
    LET m == st[s]
    IN  /\ Exists(heap[m.cacheObject])
        /\ IF m.bDeleteCache
           THEN /\ \A u \in Url : HttpCache[u] # m.cacheObject
                /\ ~m.bStreamFromCache
           ELSE HttpCache[m.sURL] = m.cacheObject

Whole(pieces, u) == \E v \in Version : pieces = Body(u, v)

\* What getCacheObject may hand out is a finished copy of one version of the
\* document: no interleaving of opening, reading, failing and closing leaves
\* a part of a body behind as a complete entry.
EntriesComplete ==
  \A u \in Cached(HttpCache) :
    LET o == heap[HttpCache[u]]
    IN  State(o) = "FULL" => o.ended /\ Whole(o.zBuffer, u)

Borrowed(o) == \E s \in Open : st[s].cacheObject = o

\* The ETag of an entry no stream works on is that of the body it holds: the
\* ETag arrives with the head of a response, the body piece by piece after.
EtagMatchesBody ==
  \A u \in Cached(HttpCache) :
    LET o == heap[HttpCache[u]]
    IN  /\ ~Borrowed(HttpCache[u])
        /\ State(o) = "FULL" /\ o.pEtag # None
        => o.zBuffer = Body(u, o.pEtag)

\* A reader that is told the document has ended has received all of one
\* version of it, and none that was already outdated when it opened the
\* stream, whether curl or the cache delivered it.
WholeAtEnd ==
  \A s \in Open :
    status[s] = "eof" =>
      LET u == st[s].sURL
      IN  \E v \in since[s][u] .. MaxVer : out[s] = Body(u, v)

\* With no stream open every entry can be used again.
NoStuckEntry ==
  Open = {} => \A u \in Cached(HttpCache) :
                 Exists(heap[HttpCache[u]]) =>
                   State(heap[HttpCache[u]]) # "BUSY"

\* "Cached objects are freed until current cache size is smaller then
\* MAX_CACHE_SIZE" (DataStreamHandler.cpp:332).
CacheBounded ==
  CacheSize(heap, HttpCache, Cached(HttpCache)) <= MAX_CACHE_SIZE

(***************************************************************************)
(* Properties of steps.                                                    *)
(***************************************************************************)
\* The destructor of s puts its object into the cache.
Stores(s) ==
  /\ fEasy[s] # None /\ fEasy'[s] = None
  /\ StoreWanted(st[s])
  /\ HttpCache'[st[s].sURL] = st[s].cacheObject

CacheSizeNow == CacheSize(heap, HttpCache, Cached(HttpCache))

\* Storing an object leaves the cache above its limit only when all that
\* could still be freed is the first entry, the new one, or in use.
EvictionReachesLimit ==
  [][\A s \in Stream : Stores(s) =>
       \/ CacheSizeNow' <= MAX_CACHE_SIZE
       \/ \A u \in Cached(HttpCache') \ {Min(Cached(HttpCache'))} :
            \/ HttpCache'[u] = st[s].cacheObject
            \/ State(heap'[HttpCache'[u]]) = "BUSY"]_vars

\* What an open stream is writing or reading is there after the step.
SparesWork ==
  \A s \in Open :
    LET o == st[s].cacheObject
    IN  Live(o) /\ State(heap[o]) = "BUSY" /\ fEasy'[s] # None
          => Exists(heap'[o])

\* The destructor of one stream leaves alone what another works on: an object
\* that shows as BUSY, because it is being written or read, outlives whatever
\* a stream other than its own stores, replaces, evicts or deletes.  (One that
\* waits to be revalidated does not; see NoUseAfterFree.)
WorkSpared == [][SparesWork]_vars

Gone == {u \in Url : HttpCache[u] # None /\ HttpCache'[u] = None}

\* Entries are dropped for space only, and no more of them than that takes:
\* with the last one dropped still there the cache would be too big.
EvictsOnlyForSpace ==
  [][Gone # {} =>
       CacheSizeNow' + SizeAt(heap, HttpCache, Min(Gone)) > MAX_CACHE_SIZE]_vars

\* A call of readBytes returns or throws.
ReadReturns == \A s \in Stream : cur = s ~> cur # s

(***************************************************************************)
(* The abstract specification, under the mapping that forgets everything   *)
(* but what readers see; a stream delivers the document its redirects lead *)
(* to (Target may chain two redirects here).                               *)
(***************************************************************************)
Hop(u) == IF Target[u] = None THEN u ELSE Target[u]

Document ==
  INSTANCE DocumentStream
    WITH loc <- [s \in Stream |->
                   IF s \in Open THEN Hop(Hop(st[s].sURL)) ELSE None]

\* HttpStream implements DocumentStream.
ImplementsDocument == Document!Spec

=============================================================================
