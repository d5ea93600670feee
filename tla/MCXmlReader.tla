---------------------------- MODULE MCXmlReader ----------------------------
(***************************************************************************)
(* Instances of XmlReader for TLC: names, namespaces and small documents.  *)
(***************************************************************************)
EXTENDS XmlReader

Nodes == 1 .. 8
PrefixNames == {"", "x", "m"}
Uris == {"", "U", "V", "D"}
QNames == {"a", "x:b", "memo"}

\* memo begins with the prefix m, and has none.
HeadsOfNames == [q \in QNames |->
  CASE q = "a" -> {""} [] q = "x:b" -> {"", "x"} [] q = "memo" -> {"", "m"}]
PrefixOfNames == [q \in QNames |-> IF q = "x:b" THEN "x" ELSE ""]

X(u)   == [prefix |-> "x", uri |-> u]
M(u)   == [prefix |-> "m", uri |-> u]
Def(u) == [prefix |-> "", uri |-> u]
Start(q, decls) == [type |-> "start", name |-> q, decls |-> decls]
Found(type)     == [type |-> type, name |-> None, decls |-> <<>>]
End     == Found("end")
Text    == Found("text")

\* <a xmlns:x="U"> <x:b xmlns:x="V"> <x:b/> </x:b> <x:b/> </a>
Shadowing == << Start("a", <<X("U")>>), Start("x:b", <<X("V")>>), Start("x:b", <<>>),
                End, End, Start("x:b", <<>>), End, End >>
\* BOM <a xmlns="D" xmlns:x="U"> text <a/> &unknown; <memo/> </a>
Default == << Found("bom"), Start("a", <<Def("D"), X("U")>>), Text, Start("a", <<>>), End,
              Found("warning"), Start("memo", <<>>), End, End >>
\* <a xmlns:m="V"> <memo/> </a>
Memo == << Start("a", <<M("V")>>), Start("memo", <<>>), End, End >>
\* <a xmlns:x="U"> <x:b> with an error inside, mended by libxml or libtidy
Broken == << Start("a", <<X("U")>>), Start("x:b", <<>>), Found("error"), Text, End, End >>
Mended == << Start("a", <<X("U")>>), Start("x:b", <<>>), Text, End, End >>
\* <a xmlns:x="U"> <memo xmlns="D">
Truncated == << Start("a", <<X("U")>>), Start("memo", <<Def("D")>>) >>
\* <a xmlns="D"/> and more
Trailing == << Start("a", <<Def("D")>>), End, Found("extra") >>
\* no markup at all
Hopeless == << Found("error") >>

Texts == [Shadowing |-> Shadowing, Default |-> Default, Memo |-> Memo, Broken |-> Broken,
          Mended |-> Mended, Truncated |-> Truncated, Trailing |-> Trailing,
          Hopeless |-> Hopeless]

TidiedTexts == [d \in Document |-> IF d = "Broken" THEN "Mended" ELSE d]

WithAndWithout == BOOLEAN
=============================================================================
