---------------------------- MODULE LexicalCastMC ----------------------------
(* Types and documents for TLC. *)
EXTENDS LexicalCast

OfInt == [leaf |-> "int", in |-> <<>>]
OfString == [leaf |-> "string", in |-> <<>>]
Of(c, T) == [T EXCEPT !.in = Append(@, c)]

Types ==
  {OfInt, OfString} \cup {Of(c, T) : c \in Container, T \in {OfInt, OfString}}
    \cup {Of("vector", Of("set", OfInt)), Of("map", Of("vector", OfInt)),
          Of("set", Of("map", OfInt))}

Numbers == {"1", "2"}
Words == Numbers \cup {"x"}
Keys == {"a", "b"}

UpTo(n, S) == UNION {[1 .. m -> S] : m \in 0 .. n}

(* The nodes the cast of containers can be given: those of its kind, lists  *)
(* that some element of is of another kind, and a scalar.  A map is not     *)
(* given to a cast that expects a list.                                     *)
RECURSIVE NodesFor(_, _)

NodesFor(containers, n) ==
  IF containers = <<>> THEN Leaf
  ELSE LET within == NodesFor(Front(containers), n - 1)
       IN {Scalar("1"), Null} \cup
          IF Last(containers) \in Associative
          THEN {Map(pairs) : pairs \in UpTo(n, Keys \X within)} \cup {List(<<Scalar("1")>>)}
          ELSE {List(nodes) : nodes \in UpTo(n, within)}

Documents(T) ==
  NodesFor(T.in, IF Len(T.in) = 1 /\ T.leaf = "int" /\ T.in[1] \notin Associative THEN 3 ELSE 2)
=============================================================================
