---------------------------- MODULE MCHttpStream ----------------------------
(***************************************************************************)
(* Instances of HttpStream for TLC.                                        *)
(***************************************************************************)
EXTENDS HttpStream, TLC

CONSTANTS o1, o2, o3, o4, h1, h2, h3, s1, s2

Objects  == {o1, o2}
Objects3 == {o1, o2, o3}
Objects4 == {o1, o2, o3, o4}
Handles  == {h1, h2}
Handles3 == {h1, h2, h3}

OneUrl  == {1}
TwoUrls == {1, 2}

OneStream  == {s1}
TwoStreams == {s1, s2}

NoRedirects   == [u \in Url |-> None]
OneRedirect   == [u \in Url |-> IF u = 1 THEN 2 ELSE None]
Circle        == [u \in Url |-> IF u = 1 THEN 2 ELSE 1]

ChainTo3 == [u \in Url |-> IF u < 3 THEN u + 1 ELSE None]

OnePiece  == [u \in Url |-> 1]
TwoPieces == [u \in Url |-> 2]
LastIsLong == [u \in Url |-> u]

ThreeUrls == {1, 2, 3}

Length  == {"length"}
Sized   == {"length", "chunked"}
Encoded == {"encoded"}
Reliable == {}
Drops == {"drop"}
AllFaults == {"drop", "status"}

Caching == {"cache"}
CacheOrNot == {"cache", "nocache"}
NoCaching == {"nocache"}
AllModes == {"cache", "nocache", "late"}

Symmetry == Permutations(Obj) \cup Permutations(Handle)

\* Two streams that share a document may hand its cached copy back and forth
\* for ever; here nobody asks for more once MaxOut pieces have come.
MaxOut == 2

Contending ==
  Init /\ [][Next /\ (cur = None /\ cur' # None => Len(out[cur']) < MaxOut)]_vars
=============================================================================
