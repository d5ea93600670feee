----------------------------- MODULE TidyStream -----------------------------
(***************************************************************************)
(* All the streams newStream makes: HTTP streams, file streams, and either *)
(* of them inside a TidyStream (TidyStream.cpp), which reads it to its     *)
(* end, has libtidy mend the text, and leaves that in the cache under the  *)
(* same URL, in the object that may have held the raw text.                *)
(*                                                                         *)
(* libtidy is external: Tidy gives every piece the form "tidied".          *)
(***************************************************************************)
EXTENDS FileStream

CONSTANTS
  Openings,                     \* how the application opens what: see Opens
  Smil,                         \* the URLs that end in ".smil"
  UrlLength,                    \* UrlLength[u]: characters of u
  SizeMax,                      \* the largest size_t, which is string::npos
  Changing,                     \* the documents that change
  Abandons                      \* whether streams are closed before a read

(* The parameter useCache of newStream, and that of the stream's useCache  *)
(* afterwards.                                                             *)
Opens == [url : Url, tidy : BOOLEAN, useCache : BOOLEAN, later : BOOLEAN]

ASSUME OpeningsAssumption == Openings \subseteq Opens
ASSUME NameAssumption ==
  /\ Smil \subseteq Url
  /\ SizeMax \in Nat \ {0}
  /\ UrlLength \in [Url -> 0 .. SizeMax]
  /\ \A u \in Smil : UrlLength[u] >= 5
ASSUME ChangingAssumption == Changing \subseteq Url /\ Abandons \in BOOLEAN

VARIABLES
  tidy,                         \* tidy[s]: the members of a TidyStream
  calling,                      \* the TidyStream inside readBytes, or None
  instance                      \* "live" until DestroyInstance

baseVars == <<vars, file>>
tidyVars == <<vars, file, tidy, calling, instance>>

(***************************************************************************)
(* inStream: "live", "NULL", or "freed" (deleted, and still pointed to).   *)
(* docbuf is the text read from it; asked: it has been asked and its       *)
(* answer not looked at.  status, out and since are what the reader of the *)
(* tidied stream sees, as status[s] and so on are for its input; want is   *)
(* what the call in progress asks for.  A stream closed before it was read *)
(* is "LOST": nothing can delete its input any more.                       *)
(***************************************************************************)
NoTidy ==
  [mode |-> "NONE", sURL |-> None, bTidied |-> FALSE, bUseCache |-> FALSE,
   inStream |-> "NULL", cacheObject |-> None, docbuf |-> <<>>,
   outbuf |-> <<>>, fTotalBytesRead |-> 0, asked |-> FALSE, want |-> 0,
   status |-> "closed", out |-> <<>>, since |-> [u \in Url |-> 1]]

TidyInit ==
  /\ Init
  /\ FileInit
  /\ tidy = [s \in Stream |-> NoTidy]
  /\ calling = None
  /\ instance = "live"

Free(s) == fEasy[s] = None /\ file[s].mode = "NONE" /\ tidy[s].mode = "NONE"

UrlAt(s) == CASE tidy[s].mode # "NONE" -> tidy[s].sURL
              [] file[s].mode # "NONE" -> file[s].sFilename
              [] OTHER                 -> st[s].sURL

(***************************************************************************)
(* Addresses operator new returns are not in a pointer of any stream.      *)
(***************************************************************************)
Pointed(o) ==
  \E s \in Stream : file[s].cacheObject = o \/ tidy[s].cacheObject = o

FreshAddresses ==
  \A o \in Obj : Exists(heap'[o]) /\ ~Exists(heap[o]) => ~Pointed(o)

-----------------------------------------------------------------------------
(***************************************************************************)
(* libtidy: TidyForceOutput makes a page even of nothing.                  *)
(***************************************************************************)
Tidy(u, text) ==
  IF text = <<>>
  THEN <<[url |-> u, version |-> 0, n |-> 1, form |-> "tidied"]>>
  ELSE [i \in DOMAIN text |-> [text[i] EXCEPT !.form = "tidied"]]

(***************************************************************************)
(* The constructor: sURL.rfind(".smil") == sURL.length() - 5, in size_t.   *)
(***************************************************************************)
RfindSmil(u) == IF u \in Smil THEN UrlLength[u] - 5 ELSE SizeMax

PassesThrough(u) == RfindSmil(u) = (UrlLength[u] - 5) % (SizeMax + 1)

TidyConstructed(o) ==
  [NoTidy EXCEPT !.mode = IF PassesThrough(o.url) THEN "PASSTROUGH"
                          ELSE "TIDY",
                 !.sURL = o.url, !.bUseCache = o.later, !.inStream = "live",
                 !.status = "open", !.since = ver]

(***************************************************************************)
(* newStream, and the useCache that follows it.  The input of a TidyStream *)
(* is not told of that.                                                    *)
(***************************************************************************)
Mode(o) == IF ~o.useCache THEN "nocache"
           ELSE IF o.later \/ o.tidy THEN "cache" ELSE "late"

OpenInput(s, o) ==
  \/ /\ o.url \notin File
     /\ NewStream(s, o.url, Mode(o))
     /\ UNCHANGED file
  \/ OpenFile(s, o.url, o.useCache)

OpenStream(s, o) ==
  /\ instance = "live" /\ calling = None
  /\ Free(s)
  /\ Shared \/ \A t \in Stream : UrlAt(t) # o.url
  /\ OpenInput(s, o)
  /\ FreshAddresses
  /\ tidy' = IF o.tidy THEN [tidy EXCEPT ![s] = TidyConstructed(o)] ELSE tidy
  /\ UNCHANGED <<calling, instance>>

-----------------------------------------------------------------------------
(***************************************************************************)
(* readBytes of an HTTP or file stream, for n pieces.                      *)
(***************************************************************************)
ReadInput(s, n) ==
  \/ /\ fEasy[s] # None
     /\ BeginRead(s, n)
     /\ UNCHANGED file
  \/ ReadFile(s, n)

DeleteInput(s) ==
  \/ /\ fEasy[s] # None
     /\ Delete(s)
     /\ UNCHANGED file
  \/ CloseFile(s)

ReadPlain(s, n) ==
  /\ calling = None
  /\ tidy[s].mode = "NONE"
  /\ ReadInput(s, n)
  /\ UNCHANGED <<tidy, calling, instance>>

\* A step of a call of HttpStream's readBytes, whoever made it.
CallStep ==
  /\ ReadStep
  /\ FreshAddresses
  /\ UNCHANGED <<file, tidy, calling, instance>>

(***************************************************************************)
(* readBytes(toFill, n) of a TidyStream.                                   *)
(***************************************************************************)
BeginTidyRead(s, n) ==
  /\ cur = None /\ calling = None
  /\ tidy[s].status = "open"
  /\ calling' = s
  /\ tidy' = [tidy EXCEPT ![s].want = n]
  /\ UNCHANGED <<baseVars, instance>>

TidyReturns(s, data, m) ==
  /\ calling' = None
  /\ tidy' = [tidy EXCEPT ![s] =
               [m EXCEPT !.want = 0, !.asked = FALSE,
                         !.fTotalBytesRead = @ + Len(data),
                         !.out = @ \o data,
                         !.status = IF data = <<>> THEN "eof" ELSE "open"]]

(***************************************************************************)
(* Perform.  The input is read until it returns nothing; an XmlError it    *)
(* throws is logged and taken for the end, and a return of -1 ends the     *)
(* call with the input deleted and still pointed to.                       *)
(***************************************************************************)
Calls(s) == calling = s /\ cur = None
Performs(s) == Calls(s) /\ tidy[s].mode = "TIDY" /\ ~tidy[s].bTidied

AskInput(s) ==
  /\ Performs(s)
  /\ tidy[s].inStream = "live"
  /\ ReadInput(s, MaxRead)
  /\ UNCHANGED <<tidy, calling, instance>>

\* Mutant: the last answer is taken for the end.
InputEndsEarly(s) == status[s] = "eof" \/ out[s] # <<>>

InputEnds(s) == status[s] = "eof" \/ (status[s] = "error" /\ fEasy[s] # None)

DeleteAtEnd(s) ==
  /\ Performs(s)
  /\ tidy[s].inStream = "live"
  /\ InputEnds(s)
  /\ DeleteInput(s)
  /\ tidy' = [tidy EXCEPT ![s].docbuf = out[s], ![s].inStream = "NULL"]
  /\ UNCHANGED <<calling, instance>>

DeleteOnError(s) ==
  /\ Performs(s)
  /\ tidy[s].inStream = "live"
  /\ status[s] = "error" /\ file[s].mode # "NONE"
  /\ CloseFile(s)
  /\ tidy' = [tidy EXCEPT ![s].inStream = "freed", ![s].status = "error",
                          ![s].want = 0]
  /\ calling' = None
  /\ UNCHANGED instance

(***************************************************************************)
(* Then the object of the URL is looked up: a copy that is already tidied  *)
(* will be read; another, or a new one, is filled with the tidied text.    *)
(***************************************************************************)
HasTidyFlag(o) == o.bTidyFlag

\* Mutant: the flag is not set.
TidiedObjectUnmarked(o, text) ==
  ResetState(FinishBytes(WriteBytes(ResetState(o), text)))

TidiedObject(o, text) ==
  SetTidyFlag(ResetState(FinishBytes(WriteBytes(ResetState(o), text))))

\* Mutant: the test of the setting is the wrong way round.
StoresTidiedSwapped(m) == ~m.bUseCache

StoresTidied(m) == m.bUseCache

CopyFound(s) == GetCacheObject(heap, HttpCache, tidy[s].sURL)

\* Between the end of the input and the return of Perform.
Mends(s) == Performs(s) /\ tidy[s].inStream = "NULL"

UseTidiedCopy(s) ==
  LET o == CopyFound(s)
  IN
  /\ Mends(s)
  /\ Live(o) /\ HasTidyFlag(heap[o])
  /\ heap' = Update(o, ResetState(heap[o]))
  /\ tidy' = [tidy EXCEPT ![s].mode = "CACHED", ![s].cacheObject = o,
                          ![s].bTidied = TRUE]
  /\ UNCHANGED <<HttpCache, freeHandles, fEasy, st, xfer, msgs, callVars,
                 ver, clientVars, faults, file, calling, instance>>

MendInput(s) ==
  LET m     == tidy[s]
      found == CopyFound(s)
      text  == Tidy(m.sURL, m.docbuf)
  IN
  /\ Mends(s)
  /\ found # None => ~Live(found) \/ ~HasTidyFlag(heap[found])
  /\ \E new \in NewAddresses(found = None) :
       LET o      == IF found = None THEN new ELSE found
           before == HeapWith(new)
           filled == IF Exists(before[o])
                     THEN [before EXCEPT ![o] = TidiedObject(@, text)]
                     ELSE before
           after  == IF StoresTidied(m)
                     THEN AddCacheObject(filled, HttpCache, m.sURL, o)
                     ELSE [heap |-> IF found = None THEN heap ELSE filled,
                           cache |-> HttpCache,
                           bad |-> IF found = None THEN {"leak"} ELSE {}]
       IN
       /\ heap' = after.heap
       /\ HttpCache' = after.cache
       /\ faults' = faults \cup after.bad
                      \cup IF found = None THEN {} ELSE UseOfEntry(TRUE, m.sURL)
  /\ FreshAddresses
  /\ tidy' = [tidy EXCEPT ![s].bTidied = TRUE, ![s].outbuf = text,
                          ![s].docbuf = <<>>]
  /\ UNCHANGED <<freeHandles, fEasy, st, xfer, msgs, callVars, ver,
                 clientVars, file, calling, instance>>

(***************************************************************************)
(* The rest of readBytes, by mode.                                         *)
(***************************************************************************)
DeliverBuffer(s) ==
  LET m == tidy[s]
      k == Least(m.want, Len(m.outbuf) - m.fTotalBytesRead)
  IN
  /\ Calls(s) /\ m.mode = "TIDY" /\ m.bTidied
  /\ TidyReturns(s, SubSeq(m.outbuf, m.fTotalBytesRead + 1,
                           m.fTotalBytesRead + k), m)
  /\ UNCHANGED <<baseVars, instance>>

DeliverCopy(s) ==
  LET m == tidy[s]
      o == m.cacheObject
  IN
  /\ Calls(s) /\ m.mode = "CACHED"
  /\ \E r \in IF Live(o) THEN ReadOutcomes(heap[o], m.want)
              ELSE NothingRead(o) :
       /\ heap' = Update(o, r.obj)
       /\ TidyReturns(s, r.data, m)
  /\ faults' = faults \cup Use(o)
  /\ UNCHANGED <<HttpCache, freeHandles, fEasy, st, xfer, msgs, callVars,
                 ver, clientVars, file, instance>>

\* PASSTROUGH: the input is asked, and what it returns is passed on; an
\* XmlError again becomes the end.
AskAndPassOn(s) ==
  /\ Calls(s) /\ tidy[s].mode = "PASSTROUGH" /\ ~tidy[s].asked
  /\ ReadInput(s, tidy[s].want)
  /\ tidy' = [tidy EXCEPT ![s].asked = TRUE]
  /\ UNCHANGED <<calling, instance>>

PassOn(s) ==
  LET m == tidy[s]
  IN
  /\ Calls(s) /\ m.mode = "PASSTROUGH" /\ m.asked
  /\ ~(status[s] = "error" /\ file[s].mode # "NONE")
  /\ TidyReturns(s, SubSeq(out[s], Len(m.out) + 1, Len(out[s])), m)
  /\ UNCHANGED <<baseVars, instance>>

PassErrorOn(s) ==
  /\ Calls(s) /\ tidy[s].mode = "PASSTROUGH" /\ tidy[s].asked
  /\ status[s] = "error" /\ file[s].mode # "NONE"
  /\ calling' = None
  /\ tidy' = [tidy EXCEPT ![s].status = "error", ![s].asked = FALSE,
                          ![s].want = 0]
  /\ UNCHANGED <<baseVars, instance>>

-----------------------------------------------------------------------------
(***************************************************************************)
(* The destructors.                                                        *)
(***************************************************************************)
DeletePlain(s) ==
  /\ calling = None
  /\ tidy[s].mode = "NONE"
  /\ DeleteInput(s)
  /\ UNCHANGED <<tidy, calling, instance>>

\* tidyBufFree(&outbuf), of a buffer that nothing has initialised and with an
\* input that is not deleted when readBytes was never called.
DeleteUnread(s) ==
  /\ Abandons
  /\ cur = None /\ calling = None
  /\ tidy[s].mode = "TIDY" /\ tidy[s].inStream = "live"
  /\ tidy' = [tidy EXCEPT ![s] =
               [@ EXCEPT !.mode = "LOST", !.status = "closed",
                         !.since = NoTidy.since]]
  /\ faults' = faults \cup {"leak"}
  /\ UNCHANGED <<handlerVars, fEasy, st, xfer, msgs, callVars, ver,
                 clientVars, file, calling, instance>>

DeleteTidied(s) ==
  /\ cur = None /\ calling = None
  /\ tidy[s].mode = "TIDY" /\ tidy[s].inStream # "live"
  /\ tidy' = [tidy EXCEPT ![s] = NoTidy]
  /\ UNCHANGED <<baseVars, calling, instance>>

DeleteCached(s) ==
  LET o == tidy[s].cacheObject
  IN
  /\ cur = None /\ calling = None
  /\ tidy[s].mode = "CACHED"
  /\ heap' = IF Live(o) THEN [heap EXCEPT ![o] = Released(@)] ELSE heap
  /\ faults' = faults \cup Use(o)
  /\ tidy' = [tidy EXCEPT ![s] = NoTidy]
  /\ UNCHANGED <<HttpCache, freeHandles, fEasy, st, xfer, msgs, callVars,
                 ver, clientVars, file, calling, instance>>

DeletePassThrough(s) ==
  /\ calling = None
  /\ tidy[s].mode = "PASSTROUGH"
  /\ DeleteInput(s)
  /\ tidy' = [tidy EXCEPT ![s] = NoTidy]
  /\ UNCHANGED <<calling, instance>>

DeleteStream(s) ==
  \/ DeletePlain(s) \/ DeleteUnread(s) \/ DeleteTidied(s)
  \/ DeleteCached(s) \/ DeletePassThrough(s)

(***************************************************************************)
(* DestroyInstance frees what the map and the queue hold.  pinstance still *)
(* points to it, so that nothing can be opened afterwards.                 *)
(***************************************************************************)
\* Mutant: the cached objects are left to the process.
FreedWithInstanceNot == {}

FreedWithInstance == {HttpCache[u] : u \in Cached(HttpCache)}

DestroyInstance ==
  /\ instance = "live" /\ calling = None
  /\ \A s \in Stream : Free(s)
  /\ instance' = "destroyed"
  /\ heap' = [o \in Obj |-> IF o \in FreedWithInstance THEN NoObject
                            ELSE heap[o]]
  /\ HttpCache' = [u \in Url |-> None]
  /\ freeHandles' = <<>>
  /\ UNCHANGED <<fEasy, st, xfer, msgs, callVars, ver, clientVars, faults,
                 file, tidy, calling>>

-----------------------------------------------------------------------------
Publish(u) ==
  /\ u \in Changing
  /\ ServerUpdate(u)
  /\ UNCHANGED <<file, tidy, calling, instance>>

TidyReadStep(s) ==
  \/ AskInput(s) \/ DeleteAtEnd(s) \/ DeleteOnError(s)
  \/ UseTidiedCopy(s) \/ MendInput(s)
  \/ DeliverBuffer(s) \/ DeliverCopy(s)
  \/ AskAndPassOn(s) \/ PassOn(s) \/ PassErrorOn(s)

TidyNext ==
  \/ \E s \in Stream :
       \/ \E o \in Openings : OpenStream(s, o)
       \/ \E n \in 1 .. MaxRead : ReadPlain(s, n) \/ BeginTidyRead(s, n)
       \/ TidyReadStep(s)
       \/ DeleteStream(s)
  \/ CallStep
  \/ DestroyInstance
  \/ \E u \in Url : Publish(u)

TidySpec == TidyInit /\ [][TidyNext]_tidyVars

-----------------------------------------------------------------------------
TidyRecord ==
  [mode : {"NONE", "TIDY", "CACHED", "PASSTROUGH", "LOST"},
   sURL : Url \cup {None}, bTidied : BOOLEAN, bUseCache : BOOLEAN,
   inStream : {"live", "NULL", "freed"}, cacheObject : Obj \cup {None},
   docbuf : Seq(Piece), outbuf : Seq(Piece), fTotalBytesRead : Nat,
   asked : BOOLEAN, want : Nat,
   status : {"closed", "open", "eof", "error"}, out : Seq(Piece),
   since : [Url -> Version]]

\* Every variable of the composition has its type.
TidyTypeOK ==
  /\ TypeOK
  /\ file \in [Stream -> FileRecord]
  /\ tidy \in [Stream -> TidyRecord]
  /\ calling \in Stream \cup {None}
  /\ instance \in {"live", "destroyed"}

WholeTidied(pieces, u) ==
  \E v \in Version : pieces = Tidy(u, Body(u, v))

\* The flag of an idle entry tells what the object holds: it is set by one
\* stream, of a text that others write and read under the same URL.
FlagTells ==
  \A u \in Cached(HttpCache) :
    LET o == heap[HttpCache[u]]
    IN  State(o) = "FULL" =>
          IF o.bTidyFlag THEN WholeTidied(o.zBuffer, u)
          ELSE Whole(o.zBuffer, u)

\* A reader of a stream that is not tidied gets a whole document, raw from its
\* source or tidied from the cache, and never some of each.
WholeInOneForm ==
  \A s \in Stream :
    tidy[s].mode = "NONE" /\ status[s] = "eof" =>
      \/ \E v \in since[s][UrlAt(s)] .. MaxVer : out[s] = Body(UrlAt(s), v)
      \/ WholeTidied(out[s], UrlAt(s))

\* "@param useCache store resouce in cache" (DataStreamHandler.cpp:209): what
\* is only asked for without it is not stored.
NotCachedUnasked ==
  (\A o \in Openings : ~o.useCache) => Cached(HttpCache) = {}

AllClosed == \A s \in Stream : Free(s)

\* With all streams closed, of whatever kind, every entry can be used again.
AllReusable ==
  AllClosed => \A u \in Cached(HttpCache) :
                 State(heap[HttpCache[u]]) # "BUSY"

\* "The instance and all stored data is deleted" (DataStreamHandler.cpp:85):
\* no stream of any kind has left an object that DestroyInstance misses.
NothingLeft ==
  instance = "destroyed" =>
    "leak" \notin faults /\ \A o \in Obj : ~Exists(heap[o])

(***************************************************************************)
(* A TidyStream is an input stream that delivers tidied documents ("tidy   *)
(* parse the resource with libtidy", DataStreamHandler.cpp:208); those     *)
(* that end in ".smil" it leaves alone.                                    *)
(***************************************************************************)
TidiedBody(u, v) == IF u \in Smil THEN Body(u, v) ELSE Tidy(u, Body(u, v))

IsTidied(s) == tidy[s].mode \notin {"NONE", "LOST"}

TidiedDocument ==
  INSTANCE DocumentStream
    WITH loc    <- [s \in Stream |-> IF IsTidied(s) THEN tidy[s].sURL
                                     ELSE None],
         status <- [s \in Stream |-> tidy[s].status],
         out    <- [s \in Stream |-> tidy[s].out],
         since  <- [s \in Stream |-> tidy[s].since],
         Body   <- TidiedBody

\* TidyStream implements DocumentStream, with tidied documents.
ImplementsTidied == TidiedDocument!Spec

=============================================================================
