----------------------------- MODULE FileStream -----------------------------
(***************************************************************************)
(* Streams of local files (FileStream.cpp): the branch of newStream for a  *)
(* URL that does not begin with "http".  A file stream reads a copy from   *)
(* the cache when there is one, and otherwise the file, which it opens at  *)
(* the first read.  It stores nothing and checks no copy against the file. *)
(*                                                                         *)
(* A file shares its slot, and what its reader sees, with HttpStream: a    *)
(* slot holds either kind.  ver[u] is the version of the file on disk;     *)
(* who changes a file replaces it, so that an open stream goes on with the *)
(* version it has opened.                                                  *)
(***************************************************************************)
EXTENDS HttpStream

CONSTANTS
  File,                         \* the URLs that name files
  FileFaults                    \* whether opening or reading a file may fail

ASSUME FileAssumption ==
  /\ File \subseteq Url
  /\ \A u \in File : Target[u] = None
  /\ FileFaults \in BOOLEAN

VARIABLE file                   \* file[s]: the members of a FileStream

httpVars == <<heap, HttpCache, freeHandles, fEasy, st, xfer, msgs, cur,
              phase, ver, faults>>

(***************************************************************************)
(* "text" is the file behind fp, once it is open.                          *)
(***************************************************************************)
NoFile ==
  [mode |-> "NONE", sFilename |-> None, cacheObject |-> None,
   bIsOpen |-> FALSE, text |-> <<>>, fTotalBytesRead |-> 0]

FileInit == file = [s \in Stream |-> NoFile]

OpenFiles == {s \in Stream : file[s].mode # "NONE"}

(***************************************************************************)
(* newStream and the constructor.  useCache() sets a flag that nothing     *)
(* reads.                                                                  *)
(***************************************************************************)
Constructed(u, co) ==
  IF co # None
  THEN [NoFile EXCEPT !.mode = "CACHED", !.sFilename = u,
                      !.cacheObject = co, !.bIsOpen = TRUE]
  ELSE [NoFile EXCEPT !.mode = "READ", !.sFilename = u]

OpenFile(s, u, useCache) ==
  /\ cur = None
  /\ fEasy[s] = None /\ file[s].mode = "NONE"
  /\ u \in File
  /\ file' = [file EXCEPT ![s] = Constructed(u, Lookup(useCache, u))]
  /\ faults' = faults \cup UseOfEntry(useCache, u)
  /\ status' = [status EXCEPT ![s] = "open"]
  /\ since' = [since EXCEPT ![s] = ver]
  /\ UNCHANGED <<handlerVars, fEasy, st, xfer, msgs, callVars, ver, out>>

-----------------------------------------------------------------------------
Returned(s, data) ==
  /\ out' = [out EXCEPT ![s] = @ \o data]
  /\ status' = [status EXCEPT ![s] = IF data = <<>> THEN "eof" ELSE "open"]

ReadsFile(s) ==
  /\ cur = None
  /\ file[s].mode # "NONE"
  /\ status[s] = "open"

\* fread, after openStream at the first read.
ReadDisk(s, n) ==
  LET f    == file[s]
      text == IF f.bIsOpen THEN f.text ELSE Body(f.sFilename, ver[f.sFilename])
      k    == Least(n, Len(text) - f.fTotalBytesRead)
  IN
  /\ ReadsFile(s)
  /\ f.mode = "READ"
  /\ file' = [file EXCEPT ![s] = [f EXCEPT !.bIsOpen = TRUE, !.text = text,
                                           !.fTotalBytesRead = @ + k]]
  /\ Returned(s, SubSeq(text, f.fTotalBytesRead + 1, f.fTotalBytesRead + k))
  /\ UNCHANGED <<httpVars, since>>

\* openStream or fread fails: readBytes returns -1.
ReadDiskFails(s) ==
  /\ FileFaults
  /\ ReadsFile(s)
  /\ file[s].mode = "READ"
  /\ status' = [status EXCEPT ![s] = "error"]
  /\ UNCHANGED <<httpVars, file, out, since>>

ReadCopy(s, n) ==
  LET o == file[s].cacheObject
  IN
  /\ ReadsFile(s)
  /\ file[s].mode = "CACHED"
  /\ \E r \in IF Live(o) THEN ReadOutcomes(heap[o], n) ELSE NothingRead(o) :
       /\ heap' = Update(o, r.obj)
       /\ file' = [file EXCEPT ![s].fTotalBytesRead = @ + Len(r.data)]
       /\ Returned(s, r.data)
  /\ faults' = faults \cup Use(o)
  /\ UNCHANGED <<HttpCache, freeHandles, fEasy, st, xfer, msgs, callVars,
                 ver, since>>

ReadFile(s, n) == ReadDisk(s, n) \/ ReadDiskFails(s) \/ ReadCopy(s, n)

-----------------------------------------------------------------------------
(***************************************************************************)
(* The destructor.                                                         *)
(***************************************************************************)
\* Mutant: the copy that was read is left open.
ReleasedAsIs(o) == o

Released(o) == ResetState(o)

CloseFile(s) ==
  LET f == file[s]
      o == f.cacheObject
  IN
  /\ cur = None
  /\ f.mode # "NONE"
  /\ heap' = IF f.mode = "CACHED" /\ Live(o)
             THEN [heap EXCEPT ![o] = Released(@)] ELSE heap
  /\ faults' = IF f.mode = "CACHED" THEN faults \cup Use(o) ELSE faults
  /\ file' = [file EXCEPT ![s] = NoFile]
  /\ status' = [status EXCEPT ![s] = "closed"]
  /\ out' = [out EXCEPT ![s] = <<>>]
  /\ since' = [since EXCEPT ![s] = [u \in Url |-> 1]]
  /\ UNCHANGED <<HttpCache, freeHandles, fEasy, st, xfer, msgs, callVars,
                 ver>>

-----------------------------------------------------------------------------
FileRecord ==
  [mode : {"NONE", "READ", "CACHED"}, sFilename : Url \cup {None},
   cacheObject : Obj \cup {None}, bIsOpen : BOOLEAN, text : Seq(Piece),
   fTotalBytesRead : Nat]

=============================================================================
