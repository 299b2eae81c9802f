----------------------------- MODULE LexicalCast -----------------------------
(***************************************************************************)
(* LexicalCast (src/src/config.hpp 46-253): how the values of the          *)
(* variables, containers above all, are read from YAML and written to it,  *)
(* and ConfigVar's fromString and toString, which use it.                  *)
(*                                                                         *)
(* A type is a leaf, int or string, and the containers that are around it, *)
(* the innermost first: vector<set<int>> is the leaf int in the sequence   *)
(* <<"set", "vector">>.  A cast is a record of the values that it is for   *)
(* and the two functions, from strings and to strings; the cast of a       *)
(* container is made from that of its elements, as the templates are.      *)
(*                                                                         *)
(* A YAML node is a map (a sequence of <<key, node>> pairs, as yaml-cpp    *)
(* keeps them), a list or a scalar, or null.  What yaml-cpp writes it      *)
(* reads back; a stringstream is the sequence of the nodes written to it,  *)
(* so that a text that says one node is a sequence of length 1.  A         *)
(* std::string is the text that it holds.                                  *)
(*                                                                         *)
(* A definition named "...Mutant" is the code with one mistake in it; no   *)
(* specification uses it.                                                  *)
(***************************************************************************)
EXTENDS Naturals, Sequences, FiniteSets, SequencesExt

CONSTANTS
  Type,          \* the types of variables
  Word,          \* the scalars of documents
  Number,        \* those that boost::lexical_cast makes an int of
  Key,           \* the keys of maps
  Depth,         \* bound on how deep nodes are in one another
  Document(_)    \* the nodes given to a variable of a type

VARIABLES
  type,    \* the type of the variable
  m_val,   \* its value
  text,    \* what toString returned, or what fromString was given
  ok       \* what fromString returned

vars == <<type, m_val, text, ok>>

-----------------------------------------------------------------------------
(* YAML::Node *)

Null == [null |-> TRUE]
Scalar(s) == [scalar |-> s]
List(nodes) == [list |-> nodes]
Map(pairs) == [map |-> pairs]

IsList(node) == "list" \in DOMAIN node
IsMap(node) == "map" \in DOMAIN node

Leaf == {Null} \cup {Scalar(s) : s \in Word}

(* What is made of nodes, and the nodes that have up to d around them. *)
Around(nodes) == Leaf \cup [list : Seq(nodes)] \cup [map : Seq(Key \X nodes)]

Within[d \in 0 .. Depth] == IF d = 0 THEN Leaf ELSE Around(Within[d - 1])

Node == Within[Depth]

Text == Seq(Node)

(* YAML::Load *)
Load(string) == IF string = <<>> THEN Null ELSE string[1]

(* What push_back and operator[] make of a node that is null at first. *)
PushedMutant(nodes) == IF nodes = <<>> THEN Null ELSE Last(nodes)

Pushed(nodes) == IF nodes = <<>> THEN Null ELSE List(nodes)

Assigned(pairs) == IF pairs = <<>> THEN Null ELSE Map(pairs)

(* A scalar, or null, has no elements: its size is 0. *)
Elements(node) == IF IsList(node) THEN node.list ELSE <<>>
Pairs(node) == IF IsMap(node) THEN node.map ELSE <<>>

-----------------------------------------------------------------------------
(* From strings.  The result is the set of the value, or the empty set when *)
(* an exception is thrown.  "of" is the cast of the elements.               *)

(* ss.str("") before each element: its text is the element's alone. *)
ElementTextsMutant(nodes) == [k \in DOMAIN nodes |-> SubSeq(nodes, 1, k)]

ElementTexts(nodes) == [k \in DOMAIN nodes |-> <<nodes[k]>>]

(* All of the elements, of which one that throws ends the loop. *)
AllOf(results) ==
  IF \E k \in DOMAIN results : results[k] = {} THEN {}
  ELSE {[k \in DOMAIN results |-> CHOOSE v \in results[k] : TRUE]}

ReadElements(of, nodes) ==
  LET texts == ElementTexts(nodes) IN AllOf([k \in DOMAIN texts |-> of.read[texts[k]]])

ReadList(of, node) == ReadElements(of, Elements(node))

ReadSet(of, node) == {Range(values) : values \in ReadElements(of, Elements(node))}

(* A map is the set of its pairs; insert leaves the value that a key has. *)
IsNew(pairs, k) == \A j \in 1 .. k - 1 : pairs[j][1] # pairs[k][1]

Inserted(pairs, values) ==
  {<<pairs[k][1], values[k]>> : k \in {j \in DOMAIN pairs : IsNew(pairs, j)}}

Seconds(pairs) == [k \in DOMAIN pairs |-> pairs[k][2]]

(* The pairs of a list have no key: Scalar() throws. *)
ReadMap(of, node) ==
  IF Elements(node) # <<>> THEN {}
  ELSE {Inserted(Pairs(node), values) : values \in ReadElements(of, Seconds(Pairs(node)))}

-----------------------------------------------------------------------------
(* To strings *)

WriteList(of, v) == Pushed([k \in DOMAIN v |-> Load(of.write[v[k]])])

(* A set, or a map, in some order; what is read back does not tell it. *)
WriteSet(of, v) == Pushed(SetToSeq({Load(of.write[e]) : e \in v}))

WriteMap(of, v) == Assigned(SetToSeq({<<p[1], Load(of.write[p[2]])>> : p \in v}))

-----------------------------------------------------------------------------
(* The casts *)

IntCast ==
  [ value |-> Number,
    read |-> [string \in Text |-> {s \in Number : string = <<Scalar(s)>>}],
    write |-> [s \in Number |-> <<Scalar(s)>>] ]

StringCast ==
  [ value |-> Text,
    read |-> [string \in Text |-> {string}],
    write |-> [string \in Text |-> string] ]

ListCast(of) ==
  [ value |-> Seq(of.value),
    read |-> [string \in Text |-> ReadList(of, Load(string))],
    write |-> [v \in Seq(of.value) |-> <<WriteList(of, v)>>] ]

SetCast(of) ==
  [ value |-> SUBSET of.value,
    read |-> [string \in Text |-> ReadSet(of, Load(string))],
    write |-> [v \in SUBSET of.value |-> <<WriteSet(of, v)>>] ]

MapCast(of) ==
  [ value |-> SUBSET (Key \X of.value),
    read |-> [string \in Text |-> ReadMap(of, Load(string))],
    write |-> [v \in SUBSET (Key \X of.value) |-> <<WriteMap(of, v)>>] ]

Sequential == {"vector", "list"}
Unique == {"set", "unordered_set"}
Associative == {"map", "unordered_map"}
Container == Sequential \cup Unique \cup Associative

LeafCast(leaf) == IF leaf = "int" THEN IntCast ELSE StringCast

CastIn(c, of) ==
  CASE c \in Sequential -> ListCast(of)
    [] c \in Unique -> SetCast(of)
    [] c \in Associative -> MapCast(of)

(* The casts of the leaf of T, in its innermost container, and so on. *)
Casts(T) ==
  LET cast[k \in 0 .. Len(T.in)] ==
        IF k = 0 THEN LeafCast(T.leaf) ELSE CastIn(T.in[k], cast[k - 1])
  IN cast

Cast(T) == Casts(T)[Len(T.in)]

Read(T, string) == Cast(T).read[string]
Write(T, v) == Cast(T).write[v]

(* The nodes that have no map where a cast of T expects a list: what         *)
(* yaml-cpp makes of node[i] for a map is not modelled.                      *)
Taken(T) ==
  LET taken[k \in 0 .. Len(T.in)] ==
        {node \in Node :
           \/ k = 0
           \/ /\ k > 0 /\ T.in[k] \in Associative
              /\ \A p \in Range(Pairs(node)) : p[2] \in taken[k - 1]
           \/ /\ k > 0 /\ T.in[k] \notin Associative
              /\ ~ IsMap(node) /\ \A n \in Range(Elements(node)) : n \in taken[k - 1]}
  IN {node \in Node : node \in taken[Len(T.in)]}

ASSUME TypeAssumption ==
  /\ Type \subseteq [leaf : {"int", "string"}, in : Seq(Container)]
  /\ Number \subseteq Word /\ Depth \in Nat
  /\ \A T \in Type : Document(T) \subseteq Taken(T)

-----------------------------------------------------------------------------
(* ConfigVar *)

(* Declared with a default value that some document says: a value that     *)
(* none says, a set of strings that are texts of several nodes, has no     *)
(* YAML of its own.                                                        *)
Init ==
  /\ type \in Type
  /\ \E node \in Document(type) : m_val \in Read(type, <<node>>)
  /\ text = <<Null>>
  /\ ok = TRUE

(* fromString catches what the conversion throws, and says so. *)
Refused(string) == Read(type, string) = {} /\ ok' = FALSE /\ UNCHANGED m_val

Accepted(string) == m_val' \in Read(type, string) /\ ok' = TRUE

FromString(string) ==
  /\ text' = string
  /\ Refused(string) \/ Accepted(string)
  /\ UNCHANGED type

toString ==
  /\ text' = Write(type, m_val)
  /\ UNCHANGED <<type, m_val, ok>>

Next ==
  \/ \E node \in Document(type) : FromString(<<node>>)
  \/ FromString(text)
  \/ toString

Spec == Init /\ [][Next]_vars
-----------------------------------------------------------------------------
(* Properties *)

(* The kind of node a container is written to, null when it is empty, and  *)
(* the documents that are of the kinds of T to their leaves.               *)
HasShape(c, node) ==
  node = Null \/ IF c \in Associative THEN IsMap(node) ELSE IsList(node)

ShapedIn(c, within, node) ==
  /\ HasShape(c, node)
  /\ Range(Elements(node)) \subseteq within
  /\ Range(Seconds(Pairs(node))) \subseteq within

Shaped(T) ==
  LET shaped[k \in 0 .. Len(T.in)] ==
        IF k = 0 THEN Node ELSE {node \in Node : ShapedIn(T.in[k], shaped[k - 1], node)}
  IN shaped[Len(T.in)]

(* What a node says of a value, without the loops of the casts: the        *)
(* elements in their order, their set, or the first that stands for a key. *)
(* A node of another kind says no value: a scalar is not an empty vector.  *)
(* "says" is this relation for the elements.                               *)
SaysInOrder(says, node, v) ==
  /\ DOMAIN v = DOMAIN Elements(node)
  /\ \A k \in DOMAIN v : <<Elements(node)[k], v[k]>> \in says

SaysTogether(says, node, v) ==
  /\ \A n \in Range(Elements(node)) : \E e \in v : <<n, e>> \in says
  /\ \A e \in v : \E n \in Range(Elements(node)) : <<n, e>> \in says

SaysByKey(says, node, v) ==
  /\ \A k \in DOMAIN Pairs(node) :
       IsNew(Pairs(node), k) =>
         \E e \in v : e[1] = Pairs(node)[k][1] /\ <<Pairs(node)[k][2], e[2]>> \in says
  /\ \A e \in v : e[1] \in {p[1] : p \in Range(Pairs(node))}
  /\ \A e, f \in v : e[1] = f[1] => e = f

SaysLeaf(leaf, node, v) == IF leaf = "int" THEN node = Scalar(v) ELSE v = <<node>>

SaysIn(c, says, node, v) ==
  /\ HasShape(c, node)
  /\ CASE c \in Sequential -> SaysInOrder(says, node, v)
       [] c \in Unique -> SaysTogether(says, node, v)
       [] c \in Associative -> SaysByKey(says, node, v)

Says(T) ==
  LET says[k \in 0 .. Len(T.in)] ==
        {p \in Node \X Casts(T)[k].value :
           IF k = 0 THEN SaysLeaf(T.leaf, p[1], p[2])
           ELSE SaysIn(T.in[k], says[k - 1], p[1], p[2])}
  IN says[Len(T.in)]

(* A document of the shape of the type is taken whole or not at all: after *)
(* fromString the variable has what the document says, to its last element,*)
(* or the value it had, and the result tells which (config.hpp 287-297).   *)
(* A refused document of any shape changes nothing, and what toString      *)
(* writes is of the shape and says the value.  Of documents of another     *)
(* shape the casts make what they like: a scalar in the place of a list or *)
(* a map has size 0 and no pairs, so that it is read as an empty container *)
(* and fromString returns true (config.hpp 67, 180).                       *)
LoadedWhole ==
  [][ /\ ok' \/ m_val' = m_val
      /\ ok' /\ Load(text') \in Shaped(type) => <<Load(text'), m_val'>> \in Says(type)
      /\ toString => <<Load(text'), m_val>> \in Says(type) ]_vars

(* What a variable has read it writes so that it reads the same again, of   *)
(* every type the casts are specialised for and of those in one another.    *)
CastReadsBack == Read(type, Write(type, m_val)) = {m_val}
=============================================================================
