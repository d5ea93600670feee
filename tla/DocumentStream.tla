--------------------------- MODULE DocumentStream ---------------------------
(***************************************************************************)
(* What an input stream promises its reader (InputStream.h), whatever the  *)
(* mixture of network and cache that serves it: the pieces of one version  *)
(* of the document, in order, none lost and none twice, of a version not   *)
(* older than the stream; and the end of the stream only after the last    *)
(* of them.  A stream may fail at any time.                                *)
(***************************************************************************)
EXTENDS Naturals, Sequences

CONSTANTS
  Stream, Url, None,
  MaxVer,                       \* bound: versions of a document
  Body(_, _)                    \* Body(u, v): version v of the document at u

VARIABLES
  loc,                          \* loc[s]: the document s delivers, or None
  status,
  out,                          \* out[s]: what its reader has received
  since,                        \* since[s]: the versions when s was opened
  ver

vars == <<loc, status, out, since, ver>>

Init ==
  /\ loc = [s \in Stream |-> None]
  /\ status = [s \in Stream |-> "closed"]
  /\ out = [s \in Stream |-> <<>>]
  /\ since = [s \in Stream |-> [u \in Url |-> 1]]
  /\ ver = [u \in Url |-> 1]

Open(s, u) ==
  /\ status[s] = "closed"
  /\ loc' = [loc EXCEPT ![s] = u]
  /\ status' = [status EXCEPT ![s] = "open"]
  /\ since' = [since EXCEPT ![s] = ver]
  /\ UNCHANGED <<out, ver>>

Offered(s) == since[s][loc[s]] .. ver[loc[s]]

Deliver(s) ==
  /\ status[s] = "open"
  /\ \E v \in Offered(s) :
       LET body == Body(loc[s], v)
       IN  \E n \in Len(out[s]) + 1 .. Len(body) :
             /\ out[s] = SubSeq(body, 1, Len(out[s]))
             /\ out' = [out EXCEPT ![s] = SubSeq(body, 1, n)]
  /\ UNCHANGED <<loc, status, since, ver>>

End(s) ==
  /\ status[s] = "open"
  /\ \E v \in Offered(s) : out[s] = Body(loc[s], v)
  /\ status' = [status EXCEPT ![s] = "eof"]
  /\ UNCHANGED <<loc, out, since, ver>>

Fail(s) ==
  /\ status[s] = "open"
  /\ status' = [status EXCEPT ![s] = "error"]
  /\ UNCHANGED <<loc, out, since, ver>>

Close(s) ==
  /\ status[s] # "closed"
  /\ loc' = [loc EXCEPT ![s] = None]
  /\ status' = [status EXCEPT ![s] = "closed"]
  /\ out' = [out EXCEPT ![s] = <<>>]
  /\ since' = [since EXCEPT ![s] = [u \in Url |-> 1]]
  /\ UNCHANGED ver

Publish(u) ==
  /\ ver[u] < MaxVer
  /\ ver' = [ver EXCEPT ![u] = @ + 1]
  /\ UNCHANGED <<loc, status, out, since>>

Next ==
  \/ \E s \in Stream :
       \/ \E u \in Url : Open(s, u)
       \/ Deliver(s)
       \/ End(s)
       \/ Fail(s)
       \/ Close(s)
  \/ \E u \in Url : Publish(u)

Spec == Init /\ [][Next]_vars
=============================================================================
