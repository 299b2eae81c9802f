------------------------------ MODULE ConfigMC -------------------------------
(* Names and documents for TLC: 1 is "A.b", 2 is "a", 3 is "a.b" and 4 is  *)
(* "z~", with a character that Config does not accept.                     *)
EXTENDS Config

CONSTANTS num, str, x, y

LowerOf == <<3, 2, 3, 4>>

Node(key, text) == [key |-> key, text |-> text]

(* The text y is not a number. *)
NotNumbers == {<<num, y>>}

(* A parent before its child, one path in two cases, a path left out.       *)
Documents == {<<Node(2, y), Node(3, x)>>,
              <<Node(1, x), Node(3, y), Node(4, x)>>,
              <<Node(3, x), Node(1, y)>>}
=============================================================================
