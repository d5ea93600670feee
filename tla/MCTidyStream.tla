---------------------------- MODULE MCTidyStream ----------------------------
(***************************************************************************)
(* Instances of TidyStream for TLC.  Document 1 is behind HTTP, the others *)
(* are files.                                                              *)
(***************************************************************************)
EXTENDS TidyStream, TLC

CONSTANTS o1, o2, o3, h1, h2, s1, s2

Objects3 == {o1, o2, o3}
Handles  == {h1, h2}

TwoStreams == {s1, s2}

FourUrls  == {1, 2, 3, 4}

Files      == Url \ {1}
TheSecond  == {2}
TheFirst   == {1}
TheFourth  == {4}
Nothing    == {}

NoRedirects == [u \in Url |-> None]
TwoPieces   == [u \in Url |-> 2]

\* Sizes of names, for a size_t of four bits.
LongNames == [u \in Url |-> 9]
FourLetters == [u \in Url |-> 4]

Length   == {"length"}
Reliable == {}
Drops    == {"drop"}
Caching  == {"cache"}

Opening(u, tidied, cached, later) ==
  [url |-> u, tidy |-> tidied, useCache |-> cached, later |-> later]

\* The HTTP document is read in every way; the second document, a file that
\* changes, is never left in the cache; the third is; the fourth is a ".smil".
EveryUse ==
  {Opening(1, t, TRUE, TRUE) : t \in BOOLEAN}
    \cup {Opening(1, TRUE, TRUE, FALSE)}
    \cup {Opening(2, TRUE, TRUE, FALSE), Opening(2, FALSE, FALSE, FALSE)}
    \cup {Opening(3, t, TRUE, TRUE) : t \in BOOLEAN}
    \cup {Opening(4, TRUE, TRUE, TRUE)}

\* The file that changes is read as libtidy leaves it, with and without cache.
CachedUse   == {Opening(2, TRUE, TRUE, TRUE)}
UncachedUse == {Opening(2, TRUE, FALSE, TRUE)}

Symmetry ==
  Permutations(Obj) \cup Permutations(Handle) \cup Permutations(Stream)
=============================================================================
