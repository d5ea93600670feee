---------------------------- MODULE MCHtmlPasses ----------------------------
(***************************************************************************)
(* Instances of HtmlPasses for TLC.  Document 2 is a file, the others are  *)
(* behind HTTP.                                                            *)
(***************************************************************************)
EXTENDS HtmlPasses, TLC

CONSTANTS o1, o2, o3, h1, s1

Objects  == {o1, o2, o3}
Handles  == {h1}
OneStream == {s1}
FourUrls  == {1, 2, 3, 4}
ThreeUrls == {1, 2, 3}

TheSecond == {2}
TheFirst  == {1}
TheMiddle == {2, 3}
Nothing   == {}

NoRedirects == [u \in Url |-> None]
TwoPieces   == [u \in Url |-> 2]

LongNames == [u \in Url |-> 9]

Length   == {"length"}
Chunked  == {"chunked"}
Reliable == {}
Drops    == {"drop"}
Caching  == {"cache"}
Always   == {TRUE}
Never    == {FALSE}

\* Document 1 has an error in its first piece.  The file has one in its first
\* and third version and none in the second, document 3 in its second version
\* only, document 4 none.
Flaws ==
  [u \in Url |-> [v \in Version |->
     CASE u = 1                      -> 1
       [] u = 2 /\ v \in {1, 3}      -> 2
       [] u = 3 /\ v = 2             -> 2
       [] OTHER                      -> 0]]

=============================================================================
