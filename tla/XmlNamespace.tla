---------------------------- MODULE XmlNamespace ----------------------------
(***************************************************************************)
(* The reference counted namespaces of XmlReader (src/src/XmlReader.h) and *)
(* what XmlReader::pushNamespaces does with them.                          *)
(*                                                                         *)
(* A heap ns gives each address of Node the namespace that lives there, or *)
(* None.  Every namespace points to the one in whose scope it was          *)
(* declared; several may share a parent.  Names are abstract: Heads[q] is  *)
(* the set of prefixes whose text is a head of the text of the qualified   *)
(* name q, which is all that uriForPrefix asks of them.                    *)
(***************************************************************************)
EXTENDS Naturals, FiniteSetsExt, SequencesExt

CONSTANTS
  None,   \* the NULL pointer
  Node,   \* addresses, numbered
  Prefix, \* prefixes, with "" for the default namespace
  Uri,    \* namespace names, with "" for no namespace
  QName,  \* names of elements as written
  Heads   \* for each name the prefixes it starts with, as texts

ASSUME NodeAssumption ==
  Node \subseteq Nat /\ IsFiniteSet(Node) /\ None \notin Node
ASSUME PrefixAssumption == "" \in Prefix /\ "" \in Uri
ASSUME HeadsAssumption ==
  /\ Heads \in [QName -> SUBSET Prefix]
  /\ \A q \in QName : "" \in Heads[q]

Decl == [prefix : Prefix, uri : Uri]

Namespace ==
  [m_prefix : Prefix, m_uri : Uri, m_parent : Node \cup {None}, m_ref : Nat]

ASSUME NullAssumption == None \notin Namespace

Unused(ns) == {a \in Node : ns[a] = None}
InUse(ns)  == Node \ Unused(ns)

(***************************************************************************)
(* The two constructors: a namespace nobody refers to yet; making one that *)
(* has a parent counts as a reference to the parent.                       *)
(***************************************************************************)
WithRef(ns, a) == [ns EXCEPT ![a].m_ref = @ + 1]

\* Variant with a mistake: a child does not count as a reference to its parent.
NewNamespaceUncounted(ns, a, d, parent) ==
  [ns EXCEPT ![a] = [m_prefix |-> d.prefix, m_uri |-> d.uri,
                     m_parent |-> parent, m_ref |-> 0]]

NewNamespace(ns, a, d, parent) ==
  LET made == [ns EXCEPT ![a] = [m_prefix |-> d.prefix, m_uri |-> d.uri,
                                 m_parent |-> parent, m_ref |-> 0]]
  IN  IF parent = None THEN made ELSE WithRef(made, parent)

(***************************************************************************)
(* The first namespace, from a towards the root, whose prefix is a head of *)
(* the qualified name (xmlStrncmp over the length of the prefix).  The     *)
(* empty prefix is a head of every name.                                   *)
(***************************************************************************)
\* Variant with a mistake: an outer declaration wins over an inner one.
UriForPrefixOutermost(ns, a, q) ==
  LET uri[b \in InUse(ns)] ==
        IF ns[b].m_parent # None /\ uri[ns[b].m_parent] # "" THEN uri[ns[b].m_parent]
        ELSE IF ns[b].m_prefix \in Heads[q] THEN ns[b].m_uri ELSE ""
  IN  uri[a]

UriForPrefix(ns, a, q) ==
  LET uri[b \in InUse(ns)] ==
        IF ns[b].m_prefix \in Heads[q] THEN ns[b].m_uri
        ELSE IF ns[b].m_parent = None THEN None
        ELSE uri[ns[b].m_parent]
  IN  uri[a]

(***************************************************************************)
(* deref: a namespace whose last reference goes is freed, and with it its  *)
(* reference to its parent.  So the run of namespaces from a upwards that  *)
(* have one reference is freed, and the first that has more loses one.     *)
(***************************************************************************)
Fate(ns) ==
  LET fate[b \in InUse(ns)] ==
        IF ns[b].m_ref > 1 THEN [freed |-> {}, kept |-> b]
        ELSE IF ns[b].m_parent = None THEN [freed |-> {b}, kept |-> None]
        ELSE [freed |-> {b} \cup fate[ns[b].m_parent].freed,
              kept  |-> fate[ns[b].m_parent].kept]
  IN  fate

Deref(ns, a) ==
  LET fate == Fate(ns)[a]
  IN  [b \in Node |-> IF b \in fate.freed THEN None
                      ELSE IF b = fate.kept THEN [ns[b] EXCEPT !.m_ref = @ - 1]
                      ELSE ns[b]]

(***************************************************************************)
(* The heap and the top of stack after the declarations of a start tag,    *)
(* each in the scope of the one before, on the namespace that was on top,  *)
(* or on a new root that maps everything to no namespace.                  *)
(***************************************************************************)
RootDecl == [prefix |-> "", uri |-> ""]

HasRoom(ns, decls) == Cardinality(Unused(ns)) > Len(decls)

Declare(acc, d) ==
  LET a == Min(Unused(acc.ns))
  IN  [ns |-> NewNamespace(acc.ns, a, d, acc.top), top |-> a]

Declared(acc, decls) ==
  LET after[i \in 0 .. Len(decls)] ==
        IF i = 0 THEN acc ELSE Declare(after[i - 1], decls[i])
  IN  after[Len(decls)]

Based(ns, top) ==
  LET start == [ns |-> ns, top |-> top]
  IN  IF top = None THEN Declare(start, RootDecl) ELSE start

\* Variant with a mistake: the top of the stack is not counted as a reference.
PushNamespacesUncounted(ns, top, decls) == Declared(Based(ns, top), decls)

PushNamespaces(ns, top, decls) ==
  LET done == Declared(Based(ns, top), decls)
  IN  [done EXCEPT !.ns = WithRef(@, done.top)]
=============================================================================
