----------------------------- MODULE CacheObject -----------------------------
(***************************************************************************)
(* One compressed copy of a document (CacheObject.cpp), as operators on a  *)
(* record: each member function becomes an operator from the object before *)
(* the call to the object after it.                                        *)
(*                                                                         *)
(* The compressed bytes are abstracted to the sequence of document pieces  *)
(* they stand for.  zlib is external: deflate keeps what it is given in    *)
(* order and only Z_FINISH makes all of it recoverable ("ended"); inflate  *)
(* returns an ended stream piece by piece and an unended one in part.      *)
(***************************************************************************)
EXTENDS Naturals, Sequences

CONSTANT
  None                          \* the null pointer

Least(a, b) == IF a < b THEN a ELSE b

CacheStates == {"EMPTY", "WRITE", "FULL", "READ"}

(***************************************************************************)
(* zBuffer: the pieces written since the buffer was last reset.            *)
(* ended  : the stream in zBuffer carries its trailer.                     *)
(* pos    : pieces inflated so far, when eState = "READ".                  *)
(* pEtag stands for both validators, Etag and Last-Modified.               *)
(* bTidyFlag: the buffer was last filled by TidyStream.  Nothing that      *)
(* resets or rewrites the buffer clears it.                                *)
(***************************************************************************)
NewObject ==
  [eState |-> "EMPTY", zBuffer |-> <<>>, ended |-> FALSE, pos |-> 0,
   pEtag |-> None, pLocation |-> None, bTidyFlag |-> FALSE]

(* Memory no object occupies: what a dangling pointer points to. *)
NoObject == [NewObject EXCEPT !.eState = "FREED"]
Exists(o) == o.eState # "FREED"

(* getState: a codec in use shows as BUSY. *)
State(o) == IF o.eState \in {"EMPTY", "FULL"} THEN o.eState ELSE "BUSY"

(* getBufferSize, in pieces. *)
BufferSize(o) == Len(o.zBuffer)

(* resetState ends the codec and keeps the buffer; an unfinished deflate   *)
(* leaves a stream without its trailer behind.                             *)
ResetState(o) ==
  IF o.eState \in {"WRITE", "READ"}
  THEN [o EXCEPT !.eState = "FULL", !.pos = 0]
  ELSE o

ResetBuffer(o) ==
  [o EXCEPT !.eState = "EMPTY", !.zBuffer = <<>>, !.ended = FALSE]

SetTidyFlag(o) == [o EXCEPT !.bTidyFlag = TRUE]

\* Mutant: new data is added to what the object holds.
PreparedAppending(o) == ResetState(o)

(* Both forms of writeBytes start over an object that is FULL or READ. *)
Prepared(o) ==
  IF o.eState \in {"READ", "FULL"} THEN ResetBuffer(ResetState(o)) ELSE o

WriteBytes(o, data) ==
  LET p == Prepared(o)
  IN  [p EXCEPT !.eState = "WRITE", !.zBuffer = p.zBuffer \o data]

(* writeBytes(NULL, 0): Z_FINISH. *)
FinishBytes(o) ==
  [Prepared(o) EXCEPT !.eState = "FULL", !.ended = TRUE]

(* readBytes opens the inflater on an object that is not being read. *)
ReadOpened(o) ==
  IF o.eState = "READ" THEN o
  ELSE [ResetState(o) EXCEPT !.eState = "READ", !.pos = 0]

(* The possible outcomes of readBytes for n pieces: what it returns and    *)
(* the object it leaves.  A stream without trailer yields what deflate had *)
(* flushed, which may be anything up to what was written.                  *)
ReadOutcomes(o, n) ==
  IF o.eState = "EMPTY" THEN {[data |-> <<>>, obj |-> o]}
  ELSE LET r      == ReadOpened(o)
           rest   == Len(r.zBuffer) - r.pos
           most   == Least(n, rest)
           counts == IF r.ended THEN {most} ELSE 0 .. most
       IN  {[data |-> SubSeq(r.zBuffer, r.pos + 1, r.pos + k),
             obj  |-> [r EXCEPT !.pos = r.pos + k]] : k \in counts}

=============================================================================
