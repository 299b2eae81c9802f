-------------------------- MODULE LexicalCastProofs --------------------------
(***************************************************************************)
(* Proofs about LexicalCast.                                               *)
(***************************************************************************)
EXTENDS LexicalCast, SequenceTheorems, FiniteSetTheorems, WellFoundedInduction, TLAPS

(* Induction up to m: P is the set of the numbers that have the property. *)
LEMMA InductionTo ==
  ASSUME NEW m \in Nat, NEW P, 0 \in P, \A n \in Nat : n < m /\ n \in P => n + 1 \in P
  PROVE  \A n \in 0..m : n \in P
<1> DEFINE S == (0..m) \ P
<1>1. SUFFICES ASSUME S # {} PROVE FALSE
  OBVIOUS
<1>2. S \subseteq Nat /\ S \subseteq 0..m
  OBVIOUS
<1>3. PICK x \in S : \A y \in S : x <= y
  <2>1. PICK x \in S : \A y \in S : <<y, x>> \notin OpToRel(<, Nat)
    BY <1>1, <1>2, NatLessThanWellFounded, WFMin
  <2>2. x \in Nat /\ \A y \in S : y \in Nat /\ ~ (y < x)
    BY <1>1, <1>2, <2>1 DEF OpToRel
  <2>3. QED
    BY <2>2
<1>4. x \in 1..m
  OBVIOUS
<1>5. x - 1 \in Nat /\ x - 1 < m /\ x - 1 \in 0..m /\ ~ (x <= x - 1) /\ (x - 1) + 1 = x
  BY <1>4
<1>6. x - 1 \in P
  BY <1>3, <1>5
<1>7. x \in P
  <2>1. (x - 1) + 1 \in P
    BY <1>5, <1>6
  <2>2. QED
    BY <1>5, <2>1
<1>8. QED
  BY <1>7

-----------------------------------------------------------------------------
(* The recursive functions are what their definitions say.  There is one    *)
(* up to each n, by induction: the one up to n is extended by one value.    *)

LEMMA WithinRead ==
  /\ Within = [d \in 0 .. Depth |-> IF d = 0 THEN Leaf ELSE Around(Within[d - 1])]
<1> DEFINE Body(f, n) == [d \in 0 .. n |-> IF d = 0 THEN Leaf ELSE Around(f[d - 1])]
           P == {n \in Nat : \E f : f = Body(f, n)}
<1>1. 0 \in P
  <2> DEFINE f == [d \in 0 .. 0 |-> Leaf]
  <2>1. f = Body(f, 0)
    OBVIOUS
  <2>2. \E g : g = Body(g, 0)
    BY <2>1
  <2>3. QED
    BY <2>2
<1>2. ASSUME NEW n \in Nat, n \in P PROVE n + 1 \in P
  <2>1. PICK f : f = Body(f, n)
    BY <1>2
  <2> DEFINE g == [d \in 0 .. n + 1 |-> IF d = n + 1 THEN Around(f[n]) ELSE f[d]]
  <2>2. ASSUME NEW d \in 0 .. n + 1
        PROVE  g[d] = IF d = 0 THEN Leaf ELSE Around(g[d - 1])
    <3>1. CASE d = n + 1
      <4>1. d # 0 /\ d - 1 = n /\ g[n] = f[n]
        BY <3>1
      <4>2. QED
        BY <3>1, <4>1
    <3>2. CASE d \in 0 .. n
      <4>1. g[d] = f[d] /\ (d # 0 => g[d - 1] = f[d - 1])
        BY <3>2
      <4>2. f[d] = IF d = 0 THEN Leaf ELSE Around(f[d - 1])
        <5> HIDE DEF g
        <5>1. QED
          BY <2>1, <3>2, Zenon
      <4>3. QED
        BY <4>1, <4>2
    <3>3. QED
      BY <3>1, <3>2
  <2>3. g = Body(g, n + 1)
    BY <2>2
  <2>4. \E h : h = Body(h, n + 1)
    BY <2>3
  <2>5. QED
    BY <2>4
<1>3. Depth \in 0 .. Depth
  BY TypeAssumption
<1>4. Depth \in P
  <2> HIDE DEF P
  <2>1. QED
    BY <1>1, <1>2, <1>3, TypeAssumption, InductionTo
<1>5. PICK f : f = Body(f, Depth)
  BY <1>4
<1>6. QED
  BY <1>5, Zenon DEF Within

LEMMA CastsRead ==
  ASSUME NEW T, Len(T.in) \in Nat
  PROVE  Casts(T) =
           [k \in 0 .. Len(T.in) |->
              IF k = 0 THEN LeafCast(T.leaf) ELSE CastIn(T.in[k], Casts(T)[k - 1])]
<1> DEFINE Step(k, of) == CastIn(T.in[k], of)
           First == LeafCast(T.leaf)
           Body(f, n) == [k \in 0 .. n |-> IF k = 0 THEN First ELSE Step(k, f[k - 1])]
           P == {n \in Nat : \E f : f = Body(f, n)}
<1> HIDE DEF Step, First
<1>1. 0 \in P
  <2> DEFINE f == [k \in 0 .. 0 |-> First]
  <2>1. f = Body(f, 0)
    OBVIOUS
  <2>2. \E g : g = Body(g, 0)
    BY <2>1
  <2>3. QED
    BY <2>2
<1>2. ASSUME NEW n \in Nat, n \in P PROVE n + 1 \in P
  <2>1. PICK f : f = Body(f, n)
    BY <1>2
  <2> DEFINE g == [k \in 0 .. n + 1 |-> IF k = n + 1 THEN Step(k, f[n]) ELSE f[k]]
  <2>2. ASSUME NEW k \in 0 .. n + 1
        PROVE  g[k] = IF k = 0 THEN First ELSE Step(k, g[k - 1])
    <3>1. CASE k = n + 1
      <4>1. k # 0 /\ k - 1 = n /\ g[n] = f[n]
        BY <3>1
      <4>2. QED
        BY <3>1, <4>1
    <3>2. CASE k \in 0 .. n
      <4>1. g[k] = f[k] /\ (k # 0 => g[k - 1] = f[k - 1])
        BY <3>2
      <4>2. f[k] = IF k = 0 THEN First ELSE Step(k, f[k - 1])
        <5> HIDE DEF g
        <5>1. QED
          BY <2>1, <3>2, Zenon
      <4>3. QED
        BY <4>1, <4>2
    <3>3. QED
      BY <3>1, <3>2
  <2>3. g = Body(g, n + 1)
    BY <2>2
  <2>4. \E h : h = Body(h, n + 1)
    BY <2>3
  <2>5. QED
    BY <2>4
<1>3. Len(T.in) \in 0 .. Len(T.in)
  OBVIOUS
<1>4. Len(T.in) \in P
  <2> HIDE DEF P
  <2>1. QED
    BY <1>1, <1>2, <1>3, InductionTo
<1>5. PICK f : f = Body(f, Len(T.in))
  BY <1>4
<1>6. QED
  BY <1>5, Zenon DEF Casts, Step, First

ShapedOf(T, k, within) == {node \in Node : ShapedIn(T.in[k], within, node)}

LEMMA ShapedRead ==
  ASSUME NEW T, Len(T.in) \in Nat
  PROVE  \E shaped :
           /\ shaped = [k \in 0 .. Len(T.in) |->
                          IF k = 0 THEN Node ELSE ShapedOf(T, k, shaped[k - 1])]
           /\ Shaped(T) = shaped[Len(T.in)]
<1> DEFINE Step(k, of) == ShapedOf(T, k, of)
           First == Node
           Body(f, n) == [k \in 0 .. n |-> IF k = 0 THEN First ELSE Step(k, f[k - 1])]
           P == {n \in Nat : \E f : f = Body(f, n)}
<1> HIDE DEF Step, First
<1>1. 0 \in P
  <2> DEFINE f == [k \in 0 .. 0 |-> First]
  <2>1. f = Body(f, 0)
    OBVIOUS
  <2>2. \E g : g = Body(g, 0)
    BY <2>1
  <2>3. QED
    BY <2>2
<1>2. ASSUME NEW n \in Nat, n \in P PROVE n + 1 \in P
  <2>1. PICK f : f = Body(f, n)
    BY <1>2
  <2> DEFINE g == [k \in 0 .. n + 1 |-> IF k = n + 1 THEN Step(k, f[n]) ELSE f[k]]
  <2>2. ASSUME NEW k \in 0 .. n + 1
        PROVE  g[k] = IF k = 0 THEN First ELSE Step(k, g[k - 1])
    <3>1. CASE k = n + 1
      <4>1. k # 0 /\ k - 1 = n /\ g[n] = f[n]
        BY <3>1
      <4>2. QED
        BY <3>1, <4>1
    <3>2. CASE k \in 0 .. n
      <4>1. g[k] = f[k] /\ (k # 0 => g[k - 1] = f[k - 1])
        BY <3>2
      <4>2. f[k] = IF k = 0 THEN First ELSE Step(k, f[k - 1])
        <5> HIDE DEF g
        <5>1. QED
          BY <2>1, <3>2, Zenon
      <4>3. QED
        BY <4>1, <4>2
    <3>3. QED
      BY <3>1, <3>2
  <2>3. g = Body(g, n + 1)
    BY <2>2
  <2>4. \E h : h = Body(h, n + 1)
    BY <2>3
  <2>5. QED
    BY <2>4
<1>3. Len(T.in) \in 0 .. Len(T.in)
  OBVIOUS
<1>4. Len(T.in) \in P
  <2> HIDE DEF P
  <2>1. QED
    BY <1>1, <1>2, <1>3, InductionTo
<1>5. PICK f : f = Body(f, Len(T.in))
  BY <1>4
<1> DEFINE g == CHOOSE g : g = Body(g, Len(T.in))
<1>6. g = Body(g, Len(T.in))
  BY <1>5
<1>7. Shaped(T) = g[Len(T.in)]
  BY Zenon DEF Shaped, Step, First, ShapedOf
<1>8. QED
  BY <1>6, <1>7 DEF Step, First

SaysLeafOf(T, k) == {p \in Node \X Casts(T)[k].value : SaysLeaf(T.leaf, p[1], p[2])}

SaysInOf(T, k, says) == {p \in Node \X Casts(T)[k].value : SaysIn(T.in[k], says, p[1], p[2])}

LEMMA SaysRead ==
  ASSUME NEW T, Len(T.in) \in Nat
  PROVE  \E says :
           /\ says = [k \in 0 .. Len(T.in) |->
                        IF k = 0 THEN SaysLeafOf(T, 0) ELSE SaysInOf(T, k, says[k - 1])]
           /\ Says(T) = says[Len(T.in)]
<1> DEFINE Step(k, of) == SaysInOf(T, k, of)
           First == SaysLeafOf(T, 0)
           Body(f, n) == [k \in 0 .. n |-> IF k = 0 THEN First ELSE Step(k, f[k - 1])]
           P == {n \in Nat : \E f : f = Body(f, n)}
<1> HIDE DEF Step, First
<1>1. 0 \in P
  <2> DEFINE f == [k \in 0 .. 0 |-> First]
  <2>1. f = Body(f, 0)
    OBVIOUS
  <2>2. \E g : g = Body(g, 0)
    BY <2>1
  <2>3. QED
    BY <2>2
<1>2. ASSUME NEW n \in Nat, n \in P PROVE n + 1 \in P
  <2>1. PICK f : f = Body(f, n)
    BY <1>2
  <2> DEFINE g == [k \in 0 .. n + 1 |-> IF k = n + 1 THEN Step(k, f[n]) ELSE f[k]]
  <2>2. ASSUME NEW k \in 0 .. n + 1
        PROVE  g[k] = IF k = 0 THEN First ELSE Step(k, g[k - 1])
    <3>1. CASE k = n + 1
      <4>1. k # 0 /\ k - 1 = n /\ g[n] = f[n]
        BY <3>1
      <4>2. QED
        BY <3>1, <4>1
    <3>2. CASE k \in 0 .. n
      <4>1. g[k] = f[k] /\ (k # 0 => g[k - 1] = f[k - 1])
        BY <3>2
      <4>2. f[k] = IF k = 0 THEN First ELSE Step(k, f[k - 1])
        <5> HIDE DEF g
        <5>1. QED
          BY <2>1, <3>2, Zenon
      <4>3. QED
        BY <4>1, <4>2
    <3>3. QED
      BY <3>1, <3>2
  <2>3. g = Body(g, n + 1)
    BY <2>2
  <2>4. \E h : h = Body(h, n + 1)
    BY <2>3
  <2>5. QED
    BY <2>4
<1>3. Len(T.in) \in 0 .. Len(T.in)
  OBVIOUS
<1>4. Len(T.in) \in P
  <2> HIDE DEF P
  <2>1. QED
    BY <1>1, <1>2, <1>3, InductionTo
<1>5. \E f : f = Body(f, Len(T.in))
  BY <1>4
<1> DEFINE Made(f) ==
      [k \in 0 .. Len(T.in) |->
         {p \in Node \X Casts(T)[k].value :
            IF k = 0 THEN SaysLeaf(T.leaf, p[1], p[2])
            ELSE SaysIn(T.in[k], f[k - 1], p[1], p[2])}]
<1>6. ASSUME NEW f PROVE Made(f) = Body(f, Len(T.in))
  <2>1. ASSUME NEW k \in 0 .. Len(T.in)
        PROVE  Made(f)[k] = IF k = 0 THEN First ELSE Step(k, f[k - 1])
    BY DEF First, Step, SaysLeafOf, SaysInOf
  <2>2. QED
    BY <2>1
<1> HIDE DEF Made
<1>7. PICK f : f = Body(f, Len(T.in)) /\ f = (CHOOSE g : g = Made(g))
  <2>1. PICK f : f = Made(f)
    BY <1>5, <1>6
  <2>2. (CHOOSE g : g = Made(g)) = Made(CHOOSE g : g = Made(g))
    BY <2>1
  <2>3. QED
    BY <1>6, <2>2
<1>8. Says(T) = f[Len(T.in)]
  BY <1>7, Zenon DEF Says, Made
<1>9. QED
  BY <1>7, <1>8 DEF Step, First

-----------------------------------------------------------------------------
(* Nodes *)

(* What the nodes of Within[d] are made of. *)
Inner(d) == IF d = 0 THEN {} ELSE Within[d - 1]

LEMMA AroundGrows ==
  ASSUME NEW S, NEW R, S \subseteq R
  PROVE  Around(S) \subseteq Around(R)
<1>1. Seq(S) \subseteq Seq(R)
  OBVIOUS
<1>2. Key \X S \subseteq Key \X R
  OBVIOUS
<1>3. Seq(Key \X S) \subseteq Seq(Key \X R)
  BY <1>2
<1>4. [list : Seq(S)] \subseteq [list : Seq(R)]
  BY <1>1
<1>5. [map : Seq(Key \X S)] \subseteq [map : Seq(Key \X R)]
  BY <1>3
<1>6. QED
  BY <1>4, <1>5, Zenon DEF Around

LEMMA WithinStep ==
  ASSUME NEW d \in 1 .. Depth
  PROVE  Within[d] = Around(Within[d - 1])
<1>1. d \in 0 .. Depth /\ d # 0
  BY TypeAssumption
<1>2. QED
  BY <1>1, WithinRead

LEMMA WithinNone == Within[0] = Leaf
<1>1. 0 \in 0 .. Depth
  BY TypeAssumption
<1>2. QED
  BY <1>1, WithinRead

LEMMA WithinNext ==
  ASSUME NEW d \in 1 .. Depth
  PROVE  Within[d - 1] \subseteq Within[d]
<1> DEFINE P == {n \in Nat : n + 1 <= Depth => Within[n] \subseteq Within[n + 1]}
<1>1. 0 \in P
  <2>1. ASSUME 1 <= Depth PROVE Within[0] \subseteq Within[1]
    <3>1. 1 \in 1 .. Depth /\ 1 - 1 = 0
      BY <2>1, TypeAssumption
    <3>2. Within[1] = Around(Within[0])
      BY <3>1, WithinStep
    <3>3. QED
      BY <3>2, WithinNone, Zenon DEF Around
  <2>2. QED
    BY <2>1
<1>2. ASSUME NEW n \in Nat, n \in P PROVE n + 1 \in P
  <2>1. ASSUME (n + 1) + 1 <= Depth PROVE Within[n + 1] \subseteq Within[(n + 1) + 1]
    <3>1. /\ n + 1 \in 1 .. Depth /\ (n + 1) - 1 = n /\ n + 1 <= Depth
          /\ (n + 1) + 1 \in 1 .. Depth /\ ((n + 1) + 1) - 1 = n + 1
      BY <2>1, TypeAssumption
    <3>2. Within[n + 1] = Around(Within[n]) /\ Within[(n + 1) + 1] = Around(Within[n + 1])
      <4>1. Within[n + 1] = Around(Within[(n + 1) - 1])
        BY <3>1, WithinStep
      <4>2. Within[(n + 1) + 1] = Around(Within[((n + 1) + 1) - 1])
        BY <3>1, WithinStep
      <4>3. QED
        BY <3>1, <4>1, <4>2
    <3>3. Within[n] \subseteq Within[n + 1]
      BY <1>2, <3>1
    <3>4. QED
      BY <3>2, <3>3, AroundGrows
  <2>2. QED
    BY <2>1
<1>3. d - 1 \in 0 .. Depth /\ d - 1 \in Nat /\ (d - 1) + 1 = d /\ d <= Depth
  BY TypeAssumption
<1>4. d - 1 \in P
  <2> HIDE DEF P
  <2>1. QED
    BY <1>1, <1>2, <1>3, TypeAssumption, InductionTo
<1>5. QED
  BY <1>3, <1>4

LEMMA WithinNode ==
  ASSUME NEW d \in 0 .. Depth
  PROVE  Within[d] \subseteq Node
<1> DEFINE P == {n \in Nat : n <= Depth => Within[Depth - n] \subseteq Node}
<1>1. 0 \in P
  <2>1. Depth - 0 = Depth
    BY TypeAssumption
  <2>2. QED
    BY <2>1 DEF Node
<1>2. ASSUME NEW n \in Nat, n \in P PROVE n + 1 \in P
  <2>1. ASSUME n + 1 <= Depth PROVE Within[Depth - (n + 1)] \subseteq Node
    <3>1. n <= Depth /\ Depth - n \in 1 .. Depth /\ Depth - (n + 1) = (Depth - n) - 1
      BY <2>1, TypeAssumption
    <3>2. Within[(Depth - n) - 1] \subseteq Within[Depth - n]
      BY <3>1, WithinNext
    <3>3. QED
      BY <1>2, <3>1, <3>2
  <2>2. QED
    BY <2>1
<1>3. Depth - d \in 0 .. Depth /\ Depth - d \in Nat /\ Depth - (Depth - d) = d /\ Depth - d <= Depth
  BY TypeAssumption
<1>4. Depth - d \in P
  <2> HIDE DEF P
  <2>1. QED
    BY <1>1, <1>2, <1>3, TypeAssumption, InductionTo
<1>5. QED
  BY <1>3, <1>4

LEMMA LoadOne == \A n : Load(<<n>>) = n
BY DEF Load

LEMMA TextOf ==
  ASSUME NEW n \in Node
  PROVE  <<n>> \in Text /\ Load(<<n>>) = n
BY DEF Text, Load

(* The nodes around others say which. *)
LEMMA InnerOf ==
  ASSUME NEW d \in 0 .. Depth, NEW node \in Within[d]
  PROVE  Elements(node) \in Seq(Inner(d)) /\ Pairs(node) \in Seq(Key \X Inner(d))
<1>1. CASE node \in Leaf
  <2>1. ~ IsList(node) /\ ~ IsMap(node)
    BY <1>1 DEF Leaf, Null, Scalar, IsList, IsMap
  <2>2. QED
    BY <2>1 DEF Elements, Pairs
<1>2. CASE node \notin Leaf
  <2>1. d \in 1 .. Depth /\ Within[d] = Around(Within[d - 1]) /\ Inner(d) = Within[d - 1]
    <3>1. d # 0
      BY <1>2, WithinNone
    <3>2. d \in 1 .. Depth
      BY <3>1, TypeAssumption
    <3>3. QED
      BY <3>1, <3>2, WithinStep DEF Inner
  <2>2. CASE node \in [list : Seq(Within[d - 1])]
    <3>1. IsList(node) /\ ~ IsMap(node) /\ node.list \in Seq(Within[d - 1])
      BY <2>2 DEF IsList, IsMap
    <3>2. QED
      BY <2>1, <3>1 DEF Elements, Pairs
  <2>3. CASE node \in [map : Seq(Key \X Within[d - 1])]
    <3>1. ~ IsList(node) /\ IsMap(node) /\ node.map \in Seq(Key \X Within[d - 1])
      BY <2>3 DEF IsList, IsMap
    <3>2. QED
      BY <2>1, <3>1 DEF Elements, Pairs
  <2>4. QED
    BY <1>2, <2>1, <2>2, <2>3, Zenon DEF Around
<1>3. QED
  BY <1>1, <1>2

(* What is made of nodes says them. *)
LEMMA PushedNode ==
  ASSUME NEW d \in 0 .. Depth, NEW nodes \in Seq(Inner(d))
  PROVE  Pushed(nodes) \in Within[d] /\ Elements(Pushed(nodes)) = nodes
<1>1. CASE nodes = <<>>
  <2>1. Pushed(nodes) = Null /\ ~ IsList(Null)
    BY <1>1 DEF Pushed, Null, IsList
  <2>2. Null \in Within[d]
    <3>1. Null \in Leaf
      BY DEF Leaf
    <3>2. Leaf \subseteq Within[d]
      <4>1. CASE d = 0
        BY <4>1, WithinNone
      <4>2. CASE d \in 1 .. Depth
        BY <4>2, WithinStep DEF Around
      <4>3. QED
        BY <4>1, <4>2, TypeAssumption
    <3>3. QED
      BY <3>1, <3>2
  <2>3. QED
    BY <1>1, <2>1, <2>2 DEF Elements
<1>2. CASE nodes # <<>>
  <2>1. d \in 1 .. Depth /\ Within[d] = Around(Within[d - 1]) /\ Inner(d) = Within[d - 1]
    <3>1. d # 0
      BY <1>2 DEF Inner
    <3>2. d \in 1 .. Depth
      BY <3>1, TypeAssumption
    <3>3. QED
      BY <3>1, <3>2, WithinStep DEF Inner
  <2>2. Pushed(nodes) = List(nodes) /\ List(nodes) \in [list : Seq(Within[d - 1])]
    BY <1>2, <2>1 DEF Pushed, List
  <2>3. IsList(List(nodes)) /\ List(nodes).list = nodes
    BY DEF IsList, List
  <2>4. QED
    BY <2>1, <2>2, <2>3 DEF Around, Elements
<1>3. QED
  BY <1>1, <1>2

LEMMA AssignedNode ==
  ASSUME NEW d \in 0 .. Depth, NEW pairs \in Seq(Key \X Inner(d))
  PROVE  /\ Assigned(pairs) \in Within[d]
         /\ Pairs(Assigned(pairs)) = pairs /\ Elements(Assigned(pairs)) = <<>>
<1>1. CASE pairs = <<>>
  <2>1. Assigned(pairs) = Null /\ ~ IsList(Null) /\ ~ IsMap(Null)
    BY <1>1 DEF Assigned, Null, IsList, IsMap
  <2>2. Null \in Within[d]
    <3>1. <<>> \in Seq(Inner(d)) /\ Pushed(<<>>) = Null
      BY DEF Pushed
    <3>2. QED
      BY <3>1, PushedNode
  <2>3. QED
    BY <1>1, <2>1, <2>2 DEF Elements, Pairs
<1>2. CASE pairs # <<>>
  <2>1. d \in 1 .. Depth /\ Within[d] = Around(Within[d - 1]) /\ Inner(d) = Within[d - 1]
    <3>1. d # 0
      BY <1>2 DEF Inner
    <3>2. d \in 1 .. Depth
      BY <3>1, TypeAssumption
    <3>3. QED
      BY <3>1, <3>2, WithinStep DEF Inner
  <2>2. Assigned(pairs) = Map(pairs) /\ Map(pairs) \in [map : Seq(Key \X Within[d - 1])]
    BY <1>2, <2>1 DEF Assigned, Map
  <2>3. IsMap(Map(pairs)) /\ ~ IsList(Map(pairs)) /\ Map(pairs).map = pairs
    BY DEF IsMap, IsList, Map
  <2>4. QED
    BY <2>1, <2>2, <2>3 DEF Around, Elements, Pairs
<1>3. QED
  BY <1>1, <1>2

-----------------------------------------------------------------------------
(* Sequences *)

(* SetToSeq gives each element of a finite set once. *)
LEMMA InSomeOrder ==
  ASSUME NEW S, NEW R, R \subseteq S, IsFiniteSet(R)
  PROVE  /\ SetToSeq(R) \in Seq(S) /\ Range(SetToSeq(R)) = R
         /\ IsInjective(SetToSeq(R))
<1> DEFINE q == SetToSeq(R)
           N == Cardinality(R)
<1>1. N \in Nat /\ ExistsBijection(1 .. N, R)
  BY FS_CardinalityType
<1>2. PICK f \in [1 .. N -> R] : IsInjective(f)
  BY <1>1 DEF ExistsBijection, Bijection, Injection
<1>3. q \in [1 .. N -> R] /\ IsInjective(q)
  BY <1>2 DEF SetToSeq
<1> HIDE DEF q
<1>4. q \in Injection(1 .. N, R)
  BY <1>3 DEF Injection
<1>5. IsFiniteSet(1 .. N) /\ Cardinality(1 .. N) = N
  BY <1>1, FS_Interval
<1>6. q \in Surjection(1 .. N, R)
  BY <1>4, <1>5, FS_Injection DEF N
<1> HIDE DEF N
<1>7. Range(q) = R
  BY <1>3, <1>6 DEF Range, Surjection
<1>8. q \in [1 .. N -> S]
  BY <1>3
<1>9. q \in Seq(S)
  BY <1>1, <1>8
<1>10. QED
  BY <1>3, <1>7, <1>9 DEF q

(* What some of the elements of a sequence are mapped to is a finite set. *)
LEMMA ImageFinite ==
  ASSUME NEW n \in Nat, NEW D, D \subseteq 1 .. n, NEW f, f = [k \in D |-> f[k]]
  PROVE  IsFiniteSet(Range(f))
<1>1. IsFiniteSet(1 .. n)
  BY FS_Interval
<1>2. IsFiniteSet(D)
  BY <1>1, FS_Subset
<1>3. f \in Surjection(D, Range(f))
  <2>1. DOMAIN f = D
    OBVIOUS
  <2>2. f \in [D -> Range(f)]
    BY <2>1 DEF Range
  <2>3. \A r \in Range(f) : \E k \in D : f[k] = r
    BY <2>1 DEF Range
  <2>4. QED
    BY <2>2, <2>3 DEF Surjection
<1>4. QED
  BY <1>2, <1>3, FS_Surjection

-----------------------------------------------------------------------------
(* What is read *)

LEMMA ElementsRead ==
  ASSUME NEW of, NEW nodes, NEW values \in ReadElements(of, nodes)
  PROVE  /\ values = [k \in DOMAIN nodes |-> values[k]]
         /\ \A k \in DOMAIN nodes : values[k] \in of.read[<<nodes[k]>>]
<1> DEFINE results == [k \in DOMAIN nodes |-> of.read[<<nodes[k]>>]]
<1>1. ReadElements(of, nodes) = AllOf(results)
  <2>1. /\ DOMAIN ElementTexts(nodes) = DOMAIN nodes
        /\ \A k \in DOMAIN nodes : ElementTexts(nodes)[k] = <<nodes[k]>>
    BY DEF ElementTexts
  <2>2. [k \in DOMAIN ElementTexts(nodes) |-> of.read[ElementTexts(nodes)[k]]] = results
    BY <2>1
  <2>3. QED
    BY <2>2, Zenon DEF ReadElements
<1>2. DOMAIN results = DOMAIN nodes
  OBVIOUS
<1>3. \A k \in DOMAIN nodes : results[k] = of.read[<<nodes[k]>>]
  OBVIOUS
<1> HIDE DEF results
<1>4. /\ \A k \in DOMAIN results : results[k] # {}
      /\ values = [k \in DOMAIN results |-> CHOOSE v \in results[k] : TRUE]
  BY <1>1, Zenon DEF AllOf
<1>5. \A k \in DOMAIN results : (CHOOSE v \in results[k] : TRUE) \in results[k]
  BY <1>4
<1>6. \A k \in DOMAIN nodes : values[k] \in results[k]
  BY <1>2, <1>4, <1>5
<1>7. values = [k \in DOMAIN nodes |-> values[k]]
  BY <1>2, <1>4
<1>8. QED
  BY <1>3, <1>6, <1>7

LEMMA ElementsReadBack ==
  ASSUME NEW of, NEW nodes, NEW values, values = [k \in DOMAIN nodes |-> values[k]],
         \A k \in DOMAIN nodes : of.read[<<nodes[k]>>] = {values[k]}
  PROVE  ReadElements(of, nodes) = {values}
<1> DEFINE results == [k \in DOMAIN nodes |-> of.read[<<nodes[k]>>]]
<1>1. ReadElements(of, nodes) = AllOf(results)
  <2>1. /\ DOMAIN ElementTexts(nodes) = DOMAIN nodes
        /\ \A k \in DOMAIN nodes : ElementTexts(nodes)[k] = <<nodes[k]>>
    BY DEF ElementTexts
  <2>2. [k \in DOMAIN ElementTexts(nodes) |-> of.read[ElementTexts(nodes)[k]]] = results
    BY <2>1
  <2>3. QED
    BY <2>2, Zenon DEF ReadElements
<1>2. DOMAIN results = DOMAIN nodes /\ \A k \in DOMAIN nodes : results[k] = {values[k]}
  OBVIOUS
<1> HIDE DEF results
<1>3. \A k \in DOMAIN results : results[k] # {} /\ (CHOOSE v \in results[k] : TRUE) = values[k]
  BY <1>2
<1>4. [k \in DOMAIN results |-> CHOOSE v \in results[k] : TRUE] = values
  BY <1>2, <1>3
<1>5. AllOf(results) = {[k \in DOMAIN results |-> CHOOSE v \in results[k] : TRUE]}
  BY <1>3, Zenon DEF AllOf
<1>6. QED
  BY <1>1, <1>4, <1>5

(* A cast is sound in S when what it reads of the nodes of S is among its   *)
(* values and is written to nodes of S, of which it reads the same.         *)
SoundIn(c, S) ==
  \A n \in S : \A v \in c.read[<<n>>] :
    v \in c.value /\ \E m \in S : c.write[v] = <<m>> /\ c.read[<<m>>] = {v}

(* The nodes ms of S are what values that were read of nodes are written to. *)
WrittenTo(of, S, nodes, values, ms) ==
  /\ ms \in Seq(S) /\ DOMAIN ms = DOMAIN nodes
  /\ \A k \in DOMAIN nodes :
       of.write[values[k]] = <<ms[k]>> /\ of.read[<<ms[k]>>] = {values[k]}

(* The elements that were read are written so. *)
LEMMA Rewritten ==
  ASSUME NEW of, NEW S, SoundIn(of, S), NEW nodes \in Seq(S),
         NEW values \in ReadElements(of, nodes)
  PROVE  /\ values \in Seq(of.value) /\ DOMAIN values = DOMAIN nodes
         /\ \E ms : WrittenTo(of, S, nodes, values, ms)
<1>1. /\ values = [k \in DOMAIN nodes |-> values[k]]
      /\ \A k \in DOMAIN nodes : values[k] \in of.read[<<nodes[k]>>]
  BY ElementsRead
<1>2. Len(nodes) \in Nat /\ DOMAIN nodes = 1 .. Len(nodes) /\ \A k \in DOMAIN nodes : nodes[k] \in S
  OBVIOUS
<1>3. \A k \in DOMAIN nodes :
        /\ values[k] \in of.value
        /\ \E m \in S : of.write[values[k]] = <<m>> /\ of.read[<<m>>] = {values[k]}
  BY <1>1, <1>2 DEF SoundIn
<1> DEFINE ms == [k \in DOMAIN nodes |->
                    CHOOSE m \in S : of.write[values[k]] = <<m>> /\ of.read[<<m>>] = {values[k]}]
<1>4. /\ DOMAIN ms = DOMAIN nodes
      /\ \A k \in DOMAIN nodes :
           ms[k] \in S /\ of.write[values[k]] = <<ms[k]>> /\ of.read[<<ms[k]>>] = {values[k]}
  BY <1>3
<1>5. ms \in Seq(S)
  <2>1. ms \in [1 .. Len(nodes) -> S]
    BY <1>2, <1>4
  <2> HIDE DEF ms
  <2>2. QED
    BY <1>2, <2>1
<1>6. values \in Seq(of.value) /\ DOMAIN values = DOMAIN nodes
  <2>1. DOMAIN values = DOMAIN nodes
    BY <1>1
  <2>2. values \in [1 .. Len(nodes) -> of.value]
    BY <1>1, <1>2, <1>3
  <2>3. QED
    BY <1>2, <2>1, <2>2
<1> HIDE DEF ms
<1>7. WrittenTo(of, S, nodes, values, ms)
  BY <1>4, <1>5 DEF WrittenTo
<1>8. QED
  BY <1>6, <1>7

-----------------------------------------------------------------------------
(* Every cast is sound *)

(* In the nodes of every depth, so that the elements of a container are    *)
(* written to nodes that are less deep.                                    *)
Sound(c) == \A d \in 0 .. Depth : SoundIn(c, Within[d])

LEMMA SoundInner ==
  ASSUME NEW c, Sound(c), NEW d \in 0 .. Depth
  PROVE  SoundIn(c, Inner(d))
<1>1. CASE d = 0
  BY <1>1 DEF Inner, SoundIn
<1>2. CASE d # 0
  <2>1. d - 1 \in 0 .. Depth
    BY <1>2, TypeAssumption
  <2>2. QED
    BY <1>2, <2>1 DEF Inner, Sound
<1>3. QED
  BY <1>1, <1>2

LEMMA IntSound == Sound(IntCast)
<1> SUFFICES ASSUME NEW d \in 0 .. Depth, NEW n \in Within[d], NEW v \in IntCast.read[<<n>>]
             PROVE  /\ v \in IntCast.value
                    /\ \E m \in Within[d] : IntCast.write[v] = <<m>> /\ IntCast.read[<<m>>] = {v}
  BY Zenon DEF Sound, SoundIn
<1>1. n \in Node /\ <<n>> \in Text
  BY WithinNode, TextOf
<1>2. IntCast.read[<<n>>] = {s \in Number : <<n>> = <<Scalar(s)>>}
  BY <1>1 DEF IntCast
<1>3. v \in Number /\ n = Scalar(v)
  BY <1>2
<1>4. {s \in Number : <<n>> = <<Scalar(s)>>} = {v}
  BY <1>3 DEF Scalar
<1>5. IntCast.value = Number /\ IntCast.write[v] = <<n>>
  BY <1>3 DEF IntCast
<1>6. QED
  BY <1>2, <1>3, <1>4, <1>5

LEMMA StringSound == Sound(StringCast)
<1> SUFFICES ASSUME NEW d \in 0 .. Depth, NEW n \in Within[d], NEW v \in StringCast.read[<<n>>]
             PROVE  /\ v \in StringCast.value
                    /\ \E m \in Within[d] :
                         StringCast.write[v] = <<m>> /\ StringCast.read[<<m>>] = {v}
  BY Zenon DEF Sound, SoundIn
<1>1. n \in Node /\ <<n>> \in Text
  BY WithinNode, TextOf
<1>2. StringCast.read[<<n>>] = {<<n>>} /\ StringCast.value = Text /\ StringCast.write[<<n>>] = <<n>>
  BY <1>1 DEF StringCast
<1>3. QED
  BY <1>1, <1>2

LEMMA ListSound ==
  ASSUME NEW of, Sound(of)
  PROVE  Sound(ListCast(of))
<1> SUFFICES ASSUME NEW d \in 0 .. Depth, NEW n \in Within[d], NEW v \in ListCast(of).read[<<n>>]
             PROVE  /\ v \in ListCast(of).value
                    /\ \E m \in Within[d] :
                         ListCast(of).write[v] = <<m>> /\ ListCast(of).read[<<m>>] = {v}
  BY Zenon DEF Sound, SoundIn
<1> DEFINE nodes == Elements(n)
<1>1. \A m \in Within[d] : m \in Node /\ <<m>> \in Text /\ Load(<<m>>) = m
  BY WithinNode, TextOf
<1>2. \A m \in Within[d] : ListCast(of).read[<<m>>] = ReadElements(of, Elements(m))
  BY <1>1 DEF ListCast, ReadList
<1>3. v \in ReadElements(of, nodes) /\ nodes \in Seq(Inner(d)) /\ SoundIn(of, Inner(d))
  BY <1>2, InnerOf, SoundInner
<1> HIDE DEF nodes
<1>4. v \in Seq(of.value) /\ DOMAIN v = DOMAIN nodes
  BY <1>3, Rewritten
<1>45. PICK ms : WrittenTo(of, Inner(d), nodes, v, ms)
  BY <1>3, Rewritten
<1>5. /\ ms \in Seq(Inner(d)) /\ DOMAIN ms = DOMAIN nodes
      /\ \A k \in DOMAIN nodes : of.write[v[k]] = <<ms[k]>> /\ of.read[<<ms[k]>>] = {v[k]}
  BY <1>45 DEF WrittenTo
<1>6. ListCast(of).write[v] = <<Pushed(ms)>>
  <2>1. ListCast(of).write[v] = <<WriteList(of, v)>>
    BY <1>4 DEF ListCast
  <2>2. \A k \in DOMAIN v : Load(of.write[v[k]]) = ms[k]
    BY <1>4, <1>5, LoadOne
  <2>3. [k \in DOMAIN v |-> Load(of.write[v[k]])] = [k \in DOMAIN ms |-> ms[k]]
    BY <1>4, <1>5, <2>2
  <2>4. [k \in DOMAIN ms |-> ms[k]] = ms
    BY <1>5
  <2>5. QED
    BY <2>1, <2>3, <2>4 DEF WriteList
<1>7. Pushed(ms) \in Within[d] /\ Elements(Pushed(ms)) = ms
  BY <1>5, PushedNode
<1>8. ListCast(of).read[<<Pushed(ms)>>] = {v}
  <2>1. v = [k \in DOMAIN ms |-> v[k]]
    BY <1>4, <1>5
  <2>2. \A k \in DOMAIN ms : of.read[<<ms[k]>>] = {v[k]}
    BY <1>5
  <2>3. ReadElements(of, ms) = {v}
    BY <2>1, <2>2, ElementsReadBack
  <2>4. QED
    BY <1>2, <1>7, <2>3
<1>9. ListCast(of).value = Seq(of.value)
  BY DEF ListCast
<1>10. QED
  BY <1>4, <1>6, <1>7, <1>8, <1>9

LEMMA SetSound ==
  ASSUME NEW of, Sound(of)
  PROVE  Sound(SetCast(of))
<1> SUFFICES ASSUME NEW d \in 0 .. Depth, NEW n \in Within[d], NEW v \in SetCast(of).read[<<n>>]
             PROVE  /\ v \in SetCast(of).value
                    /\ \E m \in Within[d] :
                         SetCast(of).write[v] = <<m>> /\ SetCast(of).read[<<m>>] = {v}
  BY Zenon DEF Sound, SoundIn
<1> DEFINE nodes == Elements(n)
<1>1. \A m \in Within[d] : m \in Node /\ <<m>> \in Text /\ Load(<<m>>) = m
  BY WithinNode, TextOf
<1>2. \A m \in Within[d] :
        SetCast(of).read[<<m>>] = {Range(values) : values \in ReadElements(of, Elements(m))}
  BY <1>1 DEF SetCast, ReadSet
<1>3. nodes \in Seq(Inner(d)) /\ SoundIn(of, Inner(d))
  BY InnerOf, SoundInner
<1>4. PICK values \in ReadElements(of, nodes) : v = Range(values)
  BY <1>2
<1> HIDE DEF nodes
<1>5. values \in Seq(of.value) /\ DOMAIN values = DOMAIN nodes
  BY <1>3, Rewritten
<1>55. PICK ms : WrittenTo(of, Inner(d), nodes, values, ms)
  BY <1>3, Rewritten
<1>6. /\ ms \in Seq(Inner(d)) /\ DOMAIN ms = DOMAIN nodes
      /\ \A k \in DOMAIN nodes :
           of.write[values[k]] = <<ms[k]>> /\ of.read[<<ms[k]>>] = {values[k]}
  BY <1>55 DEF WrittenTo
<1>7. v \in SUBSET of.value
  BY <1>4, <1>5 DEF Range
<1> DEFINE q == SetToSeq(Range(ms))
<1>8. q \in Seq(Inner(d)) /\ Range(q) = Range(ms)
  <2>1. Len(ms) \in Nat /\ DOMAIN ms = 1 .. Len(ms) /\ ms = [k \in 1 .. Len(ms) |-> ms[k]]
    BY <1>6
  <2>2. IsFiniteSet(Range(ms))
    BY <2>1, ImageFinite
  <2>3. Range(ms) \subseteq Inner(d)
    BY <1>6 DEF Range
  <2>4. QED
    BY <2>2, <2>3, InSomeOrder
<1>9. {Load(of.write[e]) : e \in v} = Range(ms)
  <2>1. \A k \in DOMAIN values : Load(of.write[values[k]]) = ms[k]
    BY <1>5, <1>6, LoadOne
  <2>2. QED
    BY <1>4, <1>5, <1>6, <2>1 DEF Range
<1>10. SetCast(of).write[v] = <<Pushed(q)>>
  BY <1>7, <1>9 DEF SetCast, WriteSet
<1> HIDE DEF q
<1>11. Pushed(q) \in Within[d] /\ Elements(Pushed(q)) = q
  BY <1>8, PushedNode
<1>12. \A k \in DOMAIN q : \E j \in DOMAIN ms : ms[j] = q[k]
  BY <1>8 DEF Range
<1> DEFINE At(k) == CHOOSE j \in DOMAIN ms : ms[j] = q[k]
           vs == [k \in DOMAIN q |-> values[At(k)]]
<1>13. \A k \in DOMAIN q : At(k) \in DOMAIN ms /\ ms[At(k)] = q[k]
  BY <1>12
<1> HIDE DEF At
<1>14. ReadElements(of, q) = {vs}
  <2>1. vs = [k \in DOMAIN q |-> vs[k]]
    OBVIOUS
  <2>2. \A k \in DOMAIN q : of.read[<<q[k]>>] = {vs[k]}
    BY <1>6, <1>13
  <2> HIDE DEF vs
  <2>3. QED
    BY <2>1, <2>2, ElementsReadBack
<1>15. Range(vs) = v
  <2>1. Range(vs) \subseteq Range(values)
    BY <1>5, <1>6, <1>13 DEF Range
  <2>2. ASSUME NEW j \in DOMAIN values PROVE values[j] \in Range(vs)
    <3>0. ms[j] \in Range(q)
      BY <1>5, <1>6, <1>8 DEF Range
    <3>1. PICK k \in DOMAIN q : q[k] = ms[j]
      BY <3>0 DEF Range
    <3>2. {values[j]} = {values[At(k)]}
      <4>1. of.read[<<ms[j]>>] = {values[j]}
        BY <1>5, <1>6
      <4>2. of.read[<<ms[At(k)]>>] = {values[At(k)]} /\ ms[At(k)] = ms[j]
        BY <1>6, <1>13, <3>1
      <4>3. QED
        BY <4>1, <4>2
    <3>3. values[j] = vs[k]
      BY <3>2
    <3>4. QED
      BY <3>3 DEF Range
  <2> HIDE DEF vs
  <2>3. QED
    BY <1>4, <2>1, <2>2 DEF Range
<1> HIDE DEF vs
<1>16. SetCast(of).read[<<Pushed(q)>>] = {v}
  BY <1>2, <1>11, <1>14, <1>15
<1>17. SetCast(of).value = SUBSET of.value
  BY DEF SetCast
<1>18. QED
  BY <1>7, <1>10, <1>11, <1>16, <1>17

(* Of two places with one key one is not the first. *)
LEMMA NewOnce ==
  ASSUME NEW S, NEW pairs \in Seq(S), NEW i \in DOMAIN pairs, NEW j \in DOMAIN pairs,
         IsNew(pairs, i), IsNew(pairs, j), pairs[i][1] = pairs[j][1]
  PROVE  i = j
<1>1. i \in Nat /\ j \in Nat /\ i >= 1 /\ j >= 1
  OBVIOUS
<1>2. ~ (i \in 1 .. j - 1) /\ ~ (j \in 1 .. i - 1)
  BY Zenon DEF IsNew
<1>3. QED
  BY <1>1, <1>2

(* In the sequence q each new key of pairs is once, with its node of ms;     *)
(* At tells its place in pairs.                                              *)
Placed(pairs, ms, q, At) ==
  /\ q \in Seq(Range(q)) /\ IsInjective(q) /\ DOMAIN At = DOMAIN q
  /\ \A k \in DOMAIN q : /\ At[k] \in DOMAIN pairs /\ IsNew(pairs, At[k])
                         /\ q[k] = <<pairs[At[k]][1], ms[At[k]]>>
  /\ \A j \in DOMAIN pairs : IsNew(pairs, j) =>
       \E k \in DOMAIN q : q[k] = <<pairs[j][1], ms[j]>>

(* What insert makes of the pairs that a map was written to is the map. *)
LEMMA InsertedBack ==
  ASSUME NEW S, NEW pairs \in Seq(S), NEW values, NEW ms, NEW q, NEW At,
         Placed(pairs, ms, q, At)
  PROVE  Inserted(q, [k \in DOMAIN q |-> values[At[k]]]) = Inserted(pairs, values)
<1>0. /\ q \in Seq(Range(q)) /\ IsInjective(q) /\ DOMAIN At = DOMAIN q
      /\ \A k \in DOMAIN q : /\ At[k] \in DOMAIN pairs /\ IsNew(pairs, At[k])
                             /\ q[k] = <<pairs[At[k]][1], ms[At[k]]>>
      /\ \A j \in DOMAIN pairs : IsNew(pairs, j) =>
           \E k \in DOMAIN q : q[k] = <<pairs[j][1], ms[j]>>
  BY DEF Placed
<1> DEFINE vs == [k \in DOMAIN q |-> values[At[k]]]
<1>1. ASSUME NEW i \in DOMAIN q, NEW k \in DOMAIN q, q[i][1] = q[k][1] PROVE i = k
  <2>1. pairs[At[i]][1] = pairs[At[k]][1]
    <3>1. q[i] = <<pairs[At[i]][1], ms[At[i]]>> /\ q[k] = <<pairs[At[k]][1], ms[At[k]]>>
      BY <1>0, Zenon
    <3>2. q[i][1] = pairs[At[i]][1]
      BY <3>1
    <3>3. q[k][1] = pairs[At[k]][1]
      BY <3>1
    <3>4. QED
      BY <1>1, <3>2, <3>3, Zenon
  <2>2. At[i] = At[k]
    BY <1>0, <2>1, NewOnce
  <2>3. q[i] = q[k]
    BY <1>0, <2>2
  <2>4. QED
    BY <1>0, <2>3 DEF IsInjective
<1>2. ASSUME NEW k \in DOMAIN q PROVE IsNew(q, k)
  <2>1. DOMAIN q = 1 .. Len(q) /\ Len(q) \in Nat
    BY <1>0
  <2>2. ASSUME NEW i \in 1 .. k - 1 PROVE q[i][1] # q[k][1]
    <3>1. i \in DOMAIN q /\ i # k
      BY <2>1
    <3>2. QED
      BY <1>1, <3>1
  <2>3. QED
    BY <2>2 DEF IsNew
<1>3. Inserted(q, vs) = {<<q[k][1], vs[k]>> : k \in DOMAIN q}
  <2>1. {j \in DOMAIN q : IsNew(q, j)} = DOMAIN q
    BY <1>2
  <2>2. QED
    BY <2>1, Zenon DEF Inserted
<1>4. \A k \in DOMAIN q : <<q[k][1], vs[k]>> = <<pairs[At[k]][1], values[At[k]]>>
  BY <1>0
<1>6. ASSUME NEW j \in DOMAIN pairs, IsNew(pairs, j)
      PROVE  \E k \in DOMAIN q : At[k] = j
  <2>1. PICK k \in DOMAIN q : q[k] = <<pairs[j][1], ms[j]>>
    BY <1>0, <1>6
  <2>2. pairs[At[k]][1] = pairs[j][1]
    BY <1>0, <2>1
  <2>3. QED
    BY <1>0, <1>6, <2>2, NewOnce
<1> HIDE DEF vs
<1> DEFINE D == {j \in DOMAIN pairs : IsNew(pairs, j)}
<1>7. ASSUME NEW k \in DOMAIN q
      PROVE  \E j \in D : <<q[k][1], vs[k]>> = <<pairs[j][1], values[j]>>
  BY <1>0, <1>4
<1>8. ASSUME NEW j \in D
      PROVE  \E k \in DOMAIN q : <<q[k][1], vs[k]>> = <<pairs[j][1], values[j]>>
  <2>1. PICK k \in DOMAIN q : At[k] = j
    BY <1>6
  <2>2. QED
    BY <1>4, <2>1
<1>9. Inserted(pairs, values) = {<<pairs[j][1], values[j]>> : j \in D}
  BY Zenon DEF Inserted
<1> HIDE DEF D
<1> DEFINE L == {<<q[k][1], vs[k]>> : k \in DOMAIN q}
           R == {<<pairs[j][1], values[j]>> : j \in D}
<1>10. L = R
  <2>1. ASSUME NEW p \in L PROVE p \in R
    <3>1. PICK k \in DOMAIN q : p = <<q[k][1], vs[k]>>
      OBVIOUS
    <3>2. PICK j \in D : <<q[k][1], vs[k]>> = <<pairs[j][1], values[j]>>
      BY <1>7
    <3>3. p = <<pairs[j][1], values[j]>>
      BY <3>1, <3>2, Zenon
    <3>4. QED
      BY <3>3
  <2>2. ASSUME NEW p \in R PROVE p \in L
    <3>1. PICK j \in D : p = <<pairs[j][1], values[j]>>
      OBVIOUS
    <3>2. PICK k \in DOMAIN q : <<q[k][1], vs[k]>> = <<pairs[j][1], values[j]>>
      BY <1>8
    <3>3. p = <<q[k][1], vs[k]>>
      BY <3>1, <3>2, Zenon
    <3>4. QED
      BY <3>3
  <2> HIDE DEF L, R
  <2>3. QED
    BY <2>1, <2>2
<1>11. Inserted(q, vs) = Inserted(pairs, values)
  BY <1>3, <1>9, <1>10
<1>12. QED
  BY <1>11 DEF vs

LEMMA MapSound ==
  ASSUME NEW of, Sound(of)
  PROVE  Sound(MapCast(of))
<1> SUFFICES ASSUME NEW d \in 0 .. Depth, NEW n \in Within[d], NEW v \in MapCast(of).read[<<n>>]
             PROVE  /\ v \in MapCast(of).value
                    /\ \E m \in Within[d] :
                         MapCast(of).write[v] = <<m>> /\ MapCast(of).read[<<m>>] = {v}
  BY Zenon DEF Sound, SoundIn
<1> DEFINE pairs == Pairs(n)
           S == Key \X Inner(d)
<1>1. \A m \in Within[d] : m \in Node /\ <<m>> \in Text /\ Load(<<m>>) = m
  BY WithinNode, TextOf
<1>2. \A m \in Within[d] :
        MapCast(of).read[<<m>>] =
          IF Elements(m) # <<>> THEN {}
          ELSE {Inserted(Pairs(m), values) : values \in ReadElements(of, Seconds(Pairs(m)))}
  BY <1>1 DEF MapCast, ReadMap
<1>3. pairs \in Seq(S) /\ SoundIn(of, Inner(d))
  BY InnerOf, SoundInner
<1>4. PICK values \in ReadElements(of, Seconds(pairs)) : v = Inserted(pairs, values)
  BY <1>2
<1> HIDE DEF pairs
<1>5. Seconds(pairs) \in Seq(Inner(d)) /\ DOMAIN Seconds(pairs) = DOMAIN pairs
  <2>1. Len(pairs) \in Nat /\ DOMAIN pairs = 1 .. Len(pairs)
    BY <1>3
  <2>2. \A k \in DOMAIN pairs : pairs[k][2] \in Inner(d)
    BY <1>3
  <2>3. Seconds(pairs) \in [1 .. Len(pairs) -> Inner(d)]
    BY <2>1, <2>2 DEF Seconds
  <2>4. QED
    BY <2>1, <2>3
<1>6. values \in Seq(of.value) /\ DOMAIN values = DOMAIN pairs
  BY <1>3, <1>5, Rewritten
<1>7. PICK ms : WrittenTo(of, Inner(d), Seconds(pairs), values, ms)
  BY <1>3, <1>5, Rewritten
<1>8. /\ ms \in Seq(Inner(d)) /\ DOMAIN ms = DOMAIN pairs
      /\ \A k \in DOMAIN pairs :
           of.write[values[k]] = <<ms[k]>> /\ of.read[<<ms[k]>>] = {values[k]}
  BY <1>5, <1>7 DEF WrittenTo
<1>9. v \in SUBSET (Key \X of.value)
  <2>1. \A k \in DOMAIN pairs : pairs[k][1] \in Key /\ values[k] \in of.value
    BY <1>3, <1>6
  <2>2. QED
    BY <1>4, <2>1 DEF Inserted
<1> DEFINE D == {j \in DOMAIN pairs : IsNew(pairs, j)}
           f == [j \in D |-> <<pairs[j][1], ms[j]>>]
           q == SetToSeq(Range(f))
<1>10. q \in Seq(S) /\ Range(q) = Range(f) /\ IsInjective(q)
  <2>1. Len(pairs) \in Nat /\ D \subseteq 1 .. Len(pairs) /\ f = [j \in D |-> f[j]]
    BY <1>3
  <2>2. IsFiniteSet(Range(f))
    <3> HIDE DEF f, D
    <3>1. QED
      BY <2>1, ImageFinite
  <2>3. \A j \in DOMAIN pairs : pairs[j][1] \in Key /\ ms[j] \in Inner(d)
    BY <1>3, <1>8
  <2>4. Range(f) \subseteq S
    BY <2>3 DEF Range
  <2> HIDE DEF f, S
  <2>5. QED
    BY <2>2, <2>4, InSomeOrder
<1>11. {<<p[1], Load(of.write[p[2]])>> : p \in v} = Range(f)
  <2>1. v = {<<pairs[j][1], values[j]>> : j \in D}
    BY <1>4, Zenon DEF Inserted
  <2>2. \A j \in D : Load(of.write[values[j]]) = ms[j]
    BY <1>8, LoadOne
  <2>3. Range(f) = {<<pairs[j][1], ms[j]>> : j \in D}
    BY DEF Range
  <2> HIDE DEF f, D
  <2>4. ASSUME NEW p \in v
        PROVE  \E j \in D : <<p[1], Load(of.write[p[2]])>> = <<pairs[j][1], ms[j]>>
    <3>1. PICK j \in D : p = <<pairs[j][1], values[j]>>
      BY <2>1
    <3>2. p[1] = pairs[j][1] /\ p[2] = values[j]
      BY <3>1
    <3>3. QED
      BY <2>2, <3>2
  <2>5. ASSUME NEW j \in D
        PROVE  \E p \in v : <<p[1], Load(of.write[p[2]])>> = <<pairs[j][1], ms[j]>>
    <3> DEFINE p == <<pairs[j][1], values[j]>>
    <3>1. p \in v /\ p[1] = pairs[j][1] /\ p[2] = values[j]
      BY <2>1
    <3> HIDE DEF p
    <3>2. QED
      BY <2>2, <3>1
  <2>6. QED
    BY <2>3, <2>4, <2>5
<1>12. MapCast(of).write[v] = <<Assigned(q)>>
  <2>1. MapCast(of).write[v] = <<WriteMap(of, v)>>
    BY <1>9 DEF MapCast
  <2>2. QED
    BY <1>11, <2>1 DEF WriteMap
<1> HIDE DEF q
<1>13. Assigned(q) \in Within[d] /\ Pairs(Assigned(q)) = q /\ Elements(Assigned(q)) = <<>>
  BY <1>10, AssignedNode
<1>14. \A k \in DOMAIN q : \E j \in D : q[k] = <<pairs[j][1], ms[j]>>
  <2>1. \A k \in DOMAIN q : q[k] \in Range(f)
    BY <1>10 DEF Range
  <2>2. QED
    BY <2>1 DEF Range
<1>15. \A j \in D : \E k \in DOMAIN q : q[k] = <<pairs[j][1], ms[j]>>
  <2>1. \A j \in D : <<pairs[j][1], ms[j]>> \in Range(q)
    BY <1>10 DEF Range
  <2>2. QED
    BY <2>1 DEF Range
<1> HIDE DEF f
<1> DEFINE At == [k \in DOMAIN q |-> CHOOSE j \in D : q[k] = <<pairs[j][1], ms[j]>>]
           vs == [k \in DOMAIN q |-> values[At[k]]]
<1>16. /\ DOMAIN At = DOMAIN q
       /\ \A k \in DOMAIN q : At[k] \in D /\ q[k] = <<pairs[At[k]][1], ms[At[k]]>>
  BY <1>14
<1> HIDE DEF At
<1>17. ReadElements(of, Seconds(q)) = {vs}
  <2>1. DOMAIN Seconds(q) = DOMAIN q /\ \A k \in DOMAIN q : Seconds(q)[k] = ms[At[k]]
    BY <1>16 DEF Seconds
  <2>2. vs = [k \in DOMAIN Seconds(q) |-> vs[k]]
    BY <2>1
  <2>3. \A k \in DOMAIN Seconds(q) : of.read[<<Seconds(q)[k]>>] = {vs[k]}
    BY <1>8, <1>16, <2>1
  <2> HIDE DEF vs
  <2>4. QED
    BY <2>2, <2>3, ElementsReadBack
<1>18. Inserted(q, vs) = v
  <2>1. q \in Seq(Range(q))
    <3>1. Len(q) \in Nat /\ DOMAIN q = 1 .. Len(q) /\ q \in [1 .. Len(q) -> Range(q)]
      BY <1>10 DEF Range
    <3>2. QED
      BY <3>1
  <2> HIDE DEF S
  <2>2. Inserted(q, vs) = Inserted(pairs, values)
    <3>1. \A k \in DOMAIN q : /\ At[k] \in DOMAIN pairs /\ IsNew(pairs, At[k])
                              /\ q[k] = <<pairs[At[k]][1], ms[At[k]]>>
      BY <1>16
    <3>2. \A j \in DOMAIN pairs : IsNew(pairs, j) =>
            \E k \in DOMAIN q : q[k] = <<pairs[j][1], ms[j]>>
      BY <1>15
    <3>3. pairs \in Seq(S) /\ IsInjective(q) /\ DOMAIN At = DOMAIN q
      BY <1>3, <1>10, <1>16
    <3>4. Placed(pairs, ms, q, At)
      BY <2>1, <3>1, <3>2, <3>3 DEF Placed
    <3>5. QED
      BY <3>3, <3>4, InsertedBack
  <2>3. QED
    BY <1>4, <2>2
<1> HIDE DEF vs
<1>19. MapCast(of).read[<<Assigned(q)>>] = {v}
  <2>1. {Inserted(q, w) : w \in {vs}} = {v}
    BY <1>18
  <2>2. MapCast(of).read[<<Assigned(q)>>] = {Inserted(q, w) : w \in ReadElements(of, Seconds(q))}
    BY <1>2, <1>13
  <2>3. QED
    BY <1>17, <2>1, <2>2
<1>20. MapCast(of).value = SUBSET (Key \X of.value)
  BY DEF MapCast
<1>21. QED
  BY <1>9, <1>12, <1>13, <1>19, <1>20

LEMMA ContainerSound ==
  ASSUME NEW c \in Container, NEW of, Sound(of)
  PROVE  Sound(CastIn(c, of))
<1>1. CASE c \in Sequential
  <2>1. CastIn(c, of) = ListCast(of)
    BY <1>1 DEF CastIn, Sequential, Unique, Associative
  <2>2. QED
    BY <2>1, ListSound
<1>2. CASE c \in Unique
  <2>1. CastIn(c, of) = SetCast(of)
    BY <1>2 DEF CastIn, Sequential, Unique, Associative
  <2>2. QED
    BY <2>1, SetSound
<1>3. CASE c \in Associative
  <2>1. CastIn(c, of) = MapCast(of)
    BY <1>3 DEF CastIn, Sequential, Unique, Associative
  <2>2. QED
    BY <2>1, MapSound
<1>4. QED
  BY <1>1, <1>2, <1>3 DEF Container

LEMMA TypeParts ==
  ASSUME NEW T \in Type
  PROVE  /\ T.in \in Seq(Container) /\ Len(T.in) \in Nat
         /\ \A k \in 1 .. Len(T.in) : T.in[k] \in Container
<1>1. T \in [leaf : {"int", "string"}, in : Seq(Container)]
  BY TypeAssumption
<1> HIDE DEF Container
<1>2. T.in \in Seq(Container)
  BY <1>1
<1>3. QED
  BY <1>2

(* The casts of every depth of a type. *)
LEMMA CastsSound ==
  ASSUME NEW T \in Type, NEW k \in 0 .. Len(T.in)
  PROVE  Sound(Casts(T)[k])
<1> DEFINE m == Len(T.in)
           P == {i \in Nat : i <= m => Sound(Casts(T)[i])}
<1>1. m \in Nat
  BY TypeParts
<1>2. \A i \in 0 .. m :
        Casts(T)[i] = IF i = 0 THEN LeafCast(T.leaf) ELSE CastIn(T.in[i], Casts(T)[i - 1])
  BY <1>1, CastsRead, Zenon
<1>3. 0 \in P
  <2>1. 0 \in 0 .. m
    BY <1>1
  <2>2. Casts(T)[0] = LeafCast(T.leaf)
    BY <1>2, <2>1
  <2>3. Sound(LeafCast(T.leaf))
    BY IntSound, StringSound DEF LeafCast
  <2>4. QED
    BY <2>2, <2>3
<1>4. ASSUME NEW i \in Nat, i < m, i \in P PROVE i + 1 \in P
  <2>1. /\ i \in 0 .. m /\ i <= m /\ i + 1 \in 0 .. m /\ i + 1 \in 1 .. m
        /\ i + 1 # 0 /\ (i + 1) - 1 = i
    BY <1>1, <1>4
  <2>2. Casts(T)[i + 1] = CastIn(T.in[i + 1], Casts(T)[i])
    BY <1>2, <2>1
  <2>3. Sound(Casts(T)[i]) /\ T.in[i + 1] \in Container
    BY <1>4, <2>1, TypeParts
  <2>4. Sound(Casts(T)[i + 1])
    BY <2>2, <2>3, ContainerSound
  <2>5. QED
    BY <2>4
<1>5. k \in P
  <2> HIDE DEF P
  <2>1. k \in 0 .. m
    OBVIOUS
  <2> HIDE DEF m
  <2>2. QED
    BY <1>1, <1>3, <1>4, <2>1, InductionTo
<1>6. k \in Nat /\ k <= m
  BY <1>1
<1>7. QED
  BY <1>5, <1>6

(* What is read of one node is written to one, and read again. *)
LEMMA CastSound ==
  ASSUME NEW T \in Type, NEW n \in Node, NEW v \in Read(T, <<n>>)
  PROVE  \E m \in Node : Write(T, v) = <<m>> /\ Read(T, <<m>>) = {v}
<1>1. Len(T.in) \in 0 .. Len(T.in) /\ Depth \in 0 .. Depth
  BY TypeParts, TypeAssumption
<1>2. Sound(Cast(T))
  BY <1>1, CastsSound DEF Cast
<1>3. SoundIn(Cast(T), Node)
  BY <1>1, <1>2 DEF Sound, Node
<1>4. v \in Cast(T).read[<<n>>]
  BY DEF Read
<1>5. \E m \in Node : Cast(T).write[v] = <<m>> /\ Cast(T).read[<<m>>] = {v}
  BY <1>3, <1>4, Zenon DEF SoundIn
<1>6. QED
  BY <1>5, Zenon DEF Read, Write

-----------------------------------------------------------------------------
(* The variable *)

(* The value is one that was read, and the text says one node. *)
ValueRead ==
  /\ type \in Type
  /\ \E n \in Node : text = <<n>>
  /\ \E n \in Node : m_val \in Read(type, <<n>>)

LEMMA DocumentNode == \A T \in Type : Document(T) \subseteq Node
BY TypeAssumption, Zenon DEF Taken

LEMMA InitValue == Init => ValueRead
<1> SUFFICES ASSUME Init PROVE ValueRead
  OBVIOUS
<1>1. type \in Type /\ Document(type) \subseteq Node /\ text = <<Null>>
  BY DocumentNode DEF Init
<1>2. Null \in Node
  <2>1. 0 \in 0 .. Depth
    BY TypeAssumption
  <2>2. Null \in Within[0]
    BY WithinNone DEF Leaf
  <2>3. QED
    BY <2>1, <2>2, WithinNode
<1>3. PICK n \in Document(type) : m_val \in Read(type, <<n>>)
  BY DEF Init
<1>4. QED
  BY <1>1, <1>2, <1>3 DEF ValueRead

LEMMA FromStringValue ==
  ASSUME ValueRead, NEW n \in Node, FromString(<<n>>)
  PROVE  ValueRead'
<1>1. type' = type /\ type \in Type /\ text' = <<n>>
  BY DEF FromString, ValueRead
<1>2. CASE Refused(<<n>>)
  <2>1. m_val' = m_val
    BY <1>2 DEF Refused
  <2>2. QED
    BY <1>1, <2>1 DEF ValueRead
<1>3. CASE Accepted(<<n>>)
  <2>1. m_val' \in Read(type, <<n>>)
    BY <1>3 DEF Accepted
  <2>2. m_val' \in Read(type', <<n>>)
    BY <1>1, <2>1
  <2>3. \E w \in Node : m_val' \in Read(type', <<w>>)
    BY <2>2
  <2>4. QED
    BY <1>1, <2>3, Zenon DEF ValueRead
<1>4. QED
  BY <1>2, <1>3 DEF FromString

LEMMA NextValue == ValueRead /\ [Next]_vars => ValueRead'
<1> SUFFICES ASSUME ValueRead, [Next]_vars PROVE ValueRead'
  OBVIOUS
<1>1. type \in Type
  BY DEF ValueRead
<1>2. ASSUME NEW n \in Document(type), FromString(<<n>>) PROVE ValueRead'
  <2>1. n \in Node
    BY <1>1, DocumentNode
  <2>2. QED
    BY <1>2, <2>1, FromStringValue
<1>3. CASE FromString(text)
  <2>1. PICK n \in Node : text = <<n>>
    BY DEF ValueRead
  <2>2. QED
    BY <1>3, <2>1, FromStringValue
<1>4. CASE toString
  <2>1. UNCHANGED <<type, m_val>> /\ text' = Write(type, m_val)
    BY <1>4 DEF toString
  <2>2. PICK n \in Node : m_val \in Read(type, <<n>>)
    BY DEF ValueRead
  <2>3. PICK m \in Node : Write(type, m_val) = <<m>>
    BY <1>1, <2>2, CastSound
  <2>4. QED
    BY <1>1, <2>1, <2>2, <2>3 DEF ValueRead
<1>5. CASE UNCHANGED vars
  BY <1>5 DEF ValueRead, vars
<1>6. QED
  BY <1>2, <1>3, <1>4, <1>5 DEF Next

LEMMA ValueSound == ValueRead => CastReadsBack
<1> SUFFICES ASSUME ValueRead PROVE CastReadsBack
  OBVIOUS
<1>1. PICK n \in Node : type \in Type /\ m_val \in Read(type, <<n>>)
  BY DEF ValueRead
<1>2. PICK m \in Node : Write(type, m_val) = <<m>> /\ Read(type, <<m>>) = {m_val}
  BY <1>1, CastSound
<1>3. QED
  BY <1>2 DEF CastReadsBack

(* Whatever variable, of any type, has read it writes so that it reads the   *)
(* same again: with any words, numbers and keys, and documents of any depth. *)
THEOREM WrittenReadsBack == Spec => []CastReadsBack
<1>1. QED
  BY InitValue, NextValue, ValueSound, PTL DEF Spec

-----------------------------------------------------------------------------
(* What is read is what the node says *)

(* What a cast reads of a node that fits is told of it by the relation says. *)
Tells(says, fits, c) ==
  \A n \in Node : n \in fits => \A v \in c.read[<<n>>] : <<n, v>> \in says

(* What a cast reads is written to nodes that fit. *)
Fits(fits, c) == \A n \in Node : \A v \in c.read[<<n>>] : Load(c.write[v]) \in fits

LEMMA NodesOf ==
  ASSUME NEW n \in Node
  PROVE  Elements(n) \in Seq(Node) /\ Pairs(n) \in Seq(Key \X Node)
<1>1. Depth \in 0 .. Depth /\ n \in Within[Depth]
  BY TypeAssumption DEF Node
<1>2. Elements(n) \in Seq(Inner(Depth)) /\ Pairs(n) \in Seq(Key \X Inner(Depth))
  BY <1>1, InnerOf
<1>3. Inner(Depth) \subseteq Node
  <2>1. CASE Depth = 0
    BY <2>1 DEF Inner
  <2>2. CASE Depth # 0
    <3>1. Depth - 1 \in 0 .. Depth
      BY <2>2, TypeAssumption
    <3>2. QED
      BY <2>2, <3>1, WithinNode DEF Inner
  <2>3. QED
    BY <2>1, <2>2
<1>4. Key \X Inner(Depth) \subseteq Key \X Node
  BY <1>3
<1>5. QED
  BY <1>2, <1>3, <1>4

LEMMA ListTells ==
  ASSUME NEW of, NEW says, NEW fits, Tells(says, fits, of), NEW n \in Node,
         Range(Elements(n)) \subseteq fits, NEW v \in ListCast(of).read[<<n>>]
  PROVE  SaysInOrder(says, n, v)
<1>1. v \in ReadElements(of, Elements(n))
  BY TextOf DEF ListCast, ReadList
<1>2. /\ DOMAIN v = DOMAIN Elements(n)
      /\ \A k \in DOMAIN Elements(n) : v[k] \in of.read[<<Elements(n)[k]>>]
  BY <1>1, ElementsRead
<1>3. \A k \in DOMAIN Elements(n) : Elements(n)[k] \in Node /\ Elements(n)[k] \in fits
  <2>1. \A k \in DOMAIN Elements(n) : Elements(n)[k] \in Range(Elements(n))
    BY DEF Range
  <2>2. QED
    BY <2>1, NodesOf
<1>4. QED
  BY <1>2, <1>3 DEF Tells, SaysInOrder

LEMMA SetTells ==
  ASSUME NEW of, NEW says, NEW fits, Tells(says, fits, of), NEW n \in Node,
         Range(Elements(n)) \subseteq fits, NEW v \in SetCast(of).read[<<n>>]
  PROVE  SaysTogether(says, n, v)
<1>1. PICK values \in ReadElements(of, Elements(n)) : v = Range(values)
  BY TextOf DEF SetCast, ReadSet
<1>2. /\ DOMAIN values = DOMAIN Elements(n)
      /\ \A k \in DOMAIN Elements(n) : values[k] \in of.read[<<Elements(n)[k]>>]
  BY ElementsRead
<1>3. \A k \in DOMAIN Elements(n) : Elements(n)[k] \in Node /\ Elements(n)[k] \in fits
  <2>1. \A k \in DOMAIN Elements(n) : Elements(n)[k] \in Range(Elements(n))
    BY DEF Range
  <2>2. QED
    BY <2>1, NodesOf
<1>4. \A k \in DOMAIN Elements(n) : <<Elements(n)[k], values[k]>> \in says
  BY <1>2, <1>3 DEF Tells
<1>5. ASSUME NEW m \in Range(Elements(n)) PROVE \E e \in v : <<m, e>> \in says
  <2>1. PICK k \in DOMAIN Elements(n) : m = Elements(n)[k]
    BY DEF Range
  <2>2. values[k] \in v
    BY <1>1, <1>2 DEF Range
  <2>3. QED
    BY <1>4, <2>1, <2>2
<1>6. ASSUME NEW e \in v PROVE \E m \in Range(Elements(n)) : <<m, e>> \in says
  <2>1. PICK k \in DOMAIN Elements(n) : e = values[k]
    BY <1>1, <1>2 DEF Range
  <2>2. Elements(n)[k] \in Range(Elements(n))
    BY DEF Range
  <2>3. QED
    BY <1>4, <2>1, <2>2
<1>7. QED
  BY <1>5, <1>6 DEF SaysTogether

LEMMA MapTells ==
  ASSUME NEW of, NEW says, NEW fits, Tells(says, fits, of), NEW n \in Node,
         Range(Seconds(Pairs(n))) \subseteq fits, NEW v \in MapCast(of).read[<<n>>]
  PROVE  SaysByKey(says, n, v)
<1> DEFINE pairs == Pairs(n)
           D == {j \in DOMAIN pairs : IsNew(pairs, j)}
<1>1. MapCast(of).read[<<n>>] =
        IF Elements(n) # <<>> THEN {}
        ELSE {Inserted(pairs, values) : values \in ReadElements(of, Seconds(pairs))}
  BY TextOf DEF MapCast, ReadMap
<1>2. PICK values \in ReadElements(of, Seconds(pairs)) : v = Inserted(pairs, values)
  BY <1>1
<1>3. pairs \in Seq(Key \X Node)
  BY NodesOf
<1> HIDE DEF pairs
<1>4. \A k \in DOMAIN pairs : pairs[k][2] \in Node /\ <<pairs[k][2], values[k]>> \in says
  <2>1. /\ DOMAIN Seconds(pairs) = DOMAIN pairs
        /\ \A k \in DOMAIN pairs : Seconds(pairs)[k] = pairs[k][2]
    BY DEF Seconds
  <2>2. \A k \in DOMAIN pairs : values[k] \in of.read[<<pairs[k][2]>>]
    BY <2>1, ElementsRead
  <2>3. \A k \in DOMAIN pairs : pairs[k][2] \in Node
    BY <1>3
  <2>4. \A k \in DOMAIN pairs : pairs[k][2] \in fits
    <3>1. Range(Seconds(pairs)) \subseteq fits
      BY DEF pairs
    <3>2. QED
      BY <2>1, <3>1 DEF Range
  <2>5. QED
    BY <2>2, <2>3, <2>4 DEF Tells
<1>5. v = {<<pairs[j][1], values[j]>> : j \in D}
  BY <1>2, Zenon DEF Inserted
<1>6. ASSUME NEW k \in DOMAIN pairs, IsNew(pairs, k)
      PROVE  \E e \in v : e[1] = pairs[k][1] /\ <<pairs[k][2], e[2]>> \in says
  <2> DEFINE e == <<pairs[k][1], values[k]>>
  <2>1. e \in v /\ e[1] = pairs[k][1] /\ e[2] = values[k]
    BY <1>5, <1>6
  <2> HIDE DEF e
  <2>2. QED
    BY <1>4, <2>1
<1>7. ASSUME NEW e \in v PROVE e[1] \in {p[1] : p \in Range(pairs)}
  <2>1. PICK j \in D : e = <<pairs[j][1], values[j]>>
    BY <1>5
  <2>2. pairs[j] \in Range(pairs)
    BY DEF Range
  <2>3. e[1] = pairs[j][1]
    BY <2>1
  <2>4. QED
    BY <2>2, <2>3
<1>8. ASSUME NEW e \in v, NEW f \in v, e[1] = f[1] PROVE e = f
  <2>1. PICK i \in D : e = <<pairs[i][1], values[i]>>
    BY <1>5
  <2>2. PICK j \in D : f = <<pairs[j][1], values[j]>>
    BY <1>5
  <2>3. pairs[i][1] = pairs[j][1]
    BY <1>8, <2>1, <2>2
  <2>4. i = j
    BY <1>3, <2>3, NewOnce
  <2>5. QED
    BY <2>1, <2>2, <2>4
<1>9. QED
  BY <1>6, <1>7, <1>8, Zenon DEF SaysByKey, pairs

LEMMA ContainerTells ==
  ASSUME NEW c \in Container, NEW of, NEW says, NEW fits, Tells(says, fits, of), NEW n \in Node,
         ShapedIn(c, fits, n), NEW v \in CastIn(c, of).read[<<n>>]
  PROVE  SaysIn(c, says, n, v)
<1>0. /\ HasShape(c, n)
      /\ Range(Elements(n)) \subseteq fits /\ Range(Seconds(Pairs(n))) \subseteq fits
  BY DEF ShapedIn
<1>1. CASE c \in Sequential
  <2>1. CastIn(c, of) = ListCast(of)
    BY <1>1 DEF CastIn, Sequential, Unique, Associative
  <2>2. SaysInOrder(says, n, v)
    BY <1>0, <2>1, ListTells
  <2>3. QED
    BY <1>0, <1>1, <2>2 DEF SaysIn, Sequential, Unique, Associative
<1>2. CASE c \in Unique
  <2>1. CastIn(c, of) = SetCast(of)
    BY <1>2 DEF CastIn, Sequential, Unique, Associative
  <2>2. SaysTogether(says, n, v)
    BY <1>0, <2>1, SetTells
  <2>3. QED
    BY <1>0, <1>2, <2>2 DEF SaysIn, Sequential, Unique, Associative
<1>3. CASE c \in Associative
  <2>1. CastIn(c, of) = MapCast(of)
    BY <1>3 DEF CastIn, Sequential, Unique, Associative
  <2>2. SaysByKey(says, n, v)
    BY <1>0, <2>1, MapTells
  <2>3. QED
    BY <1>0, <1>3, <2>2 DEF SaysIn, Sequential, Unique, Associative
<1>4. QED
  BY <1>1, <1>2, <1>3 DEF Container

LEMMA LeafTells ==
  ASSUME NEW leaf, NEW n \in Node, NEW v \in LeafCast(leaf).read[<<n>>]
  PROVE  SaysLeaf(leaf, n, v)
<1>1. <<n>> \in Text
  BY TextOf
<1>2. CASE leaf = "int"
  BY <1>1, <1>2 DEF LeafCast, IntCast, SaysLeaf
<1>3. CASE leaf # "int"
  BY <1>1, <1>3 DEF LeafCast, StringCast, SaysLeaf
<1>4. QED
  BY <1>2, <1>3

LEMMA ReadSays ==
  ASSUME NEW T \in Type, NEW n \in Node, n \in Shaped(T), NEW v \in Read(T, <<n>>)
  PROVE  <<n, v>> \in Says(T)
<1> DEFINE m == Len(T.in)
<1>1. m \in Nat /\ \A k \in 1 .. m : T.in[k] \in Container
  BY TypeParts
<1>2. PICK says :
        /\ says = [k \in 0 .. m |->
                     IF k = 0 THEN SaysLeafOf(T, 0) ELSE SaysInOf(T, k, says[k - 1])]
        /\ Says(T) = says[m]
  BY <1>1, SaysRead
<1>25. PICK shaped :
         /\ shaped = [k \in 0 .. m |->
                        IF k = 0 THEN Node ELSE ShapedOf(T, k, shaped[k - 1])]
         /\ Shaped(T) = shaped[m]
  BY <1>1, ShapedRead
<1>3. ASSUME NEW k \in 0 .. m, NEW w \in Node, NEW x \in Casts(T)[k].read[<<w>>]
      PROVE  x \in Casts(T)[k].value
  <2>1. Depth \in 0 .. Depth
    BY TypeAssumption
  <2>2. SoundIn(Casts(T)[k], Node)
    BY <2>1, CastsSound DEF Sound, Node
  <2>3. QED
    BY <2>2, Zenon DEF SoundIn
<1>4. \A k \in 0 .. m :
        Casts(T)[k] = IF k = 0 THEN LeafCast(T.leaf) ELSE CastIn(T.in[k], Casts(T)[k - 1])
  BY <1>1, CastsRead, Zenon
<1> DEFINE P == {i \in Nat : i <= m => Tells(says[i], shaped[i], Casts(T)[i])}
<1>5. 0 \in P
  <2>1. 0 \in 0 .. m
    BY <1>1
  <2>2. says[0] = SaysLeafOf(T, 0) /\ Casts(T)[0] = LeafCast(T.leaf)
    BY <1>2, <1>4, <2>1
  <2>3. ASSUME NEW w \in Node, NEW x \in Casts(T)[0].read[<<w>>] PROVE <<w, x>> \in says[0]
    <3>1. x \in Casts(T)[0].value
      BY <1>3, <2>1
    <3>2. SaysLeaf(T.leaf, w, x)
      BY <2>2, LeafTells
    <3>3. <<w, x>> \in SaysLeafOf(T, 0)
      BY <3>1, <3>2 DEF SaysLeafOf
    <3>4. QED
      BY <2>2, <3>3
  <2>4. Tells(says[0], shaped[0], Casts(T)[0])
    BY <2>3 DEF Tells
  <2>5. QED
    BY <2>4
<1>6. ASSUME NEW i \in Nat, i < m, i \in P PROVE i + 1 \in P
  <2>1. i <= m /\ i + 1 \in 0 .. m /\ i + 1 \in 1 .. m /\ i + 1 # 0 /\ (i + 1) - 1 = i
    BY <1>1, <1>6
  <2>2. Tells(says[i], shaped[i], Casts(T)[i])
    BY <1>6, <2>1
  <2>3. Casts(T)[i + 1] = CastIn(T.in[i + 1], Casts(T)[i])
    BY <1>4, <2>1
  <2>4. says[i + 1] = SaysInOf(T, i + 1, says[i])
    BY <1>2, <2>1
  <2>5. ASSUME NEW w \in Node, w \in shaped[i + 1], NEW x \in Casts(T)[i + 1].read[<<w>>]
        PROVE  <<w, x>> \in says[i + 1]
    <3>0. ShapedIn(T.in[i + 1], shaped[i], w)
      <4>1. shaped[i + 1] = ShapedOf(T, i + 1, shaped[i])
        BY <1>25, <2>1
      <4>2. QED
        BY <2>5, <4>1 DEF ShapedOf
    <3>1. x \in Casts(T)[i + 1].value
      BY <1>3, <2>1
    <3>2. T.in[i + 1] \in Container
      BY <1>1, <2>1
    <3>3. SaysIn(T.in[i + 1], says[i], w, x)
      BY <2>2, <2>3, <3>0, <3>2, ContainerTells
    <3>4. <<w, x>> \in SaysInOf(T, i + 1, says[i])
      BY <3>1, <3>3 DEF SaysInOf
    <3>5. QED
      BY <2>4, <3>4
  <2>6. Tells(says[i + 1], shaped[i + 1], Casts(T)[i + 1])
    BY <2>5 DEF Tells
  <2>7. QED
    BY <2>6
<1>7. m \in P
  <2> HIDE DEF P
  <2>1. m \in 0 .. m
    BY <1>1
  <2> HIDE DEF m
  <2>2. QED
    BY <1>1, <1>5, <1>6, <2>1, InductionTo
<1>8. Tells(Says(T), Shaped(T), Cast(T))
  <2>1. m <= m
    BY <1>1
  <2>2. Tells(says[m], shaped[m], Casts(T)[m])
    BY <1>7, <2>1
  <2>3. QED
    BY <1>2, <1>25, <2>2 DEF Cast
<1>9. v \in Cast(T).read[<<n>>]
  BY DEF Read
<1>10. QED
  BY <1>8, <1>9, Zenon DEF Tells

-----------------------------------------------------------------------------
(* What is written is of the shape *)

LEMMA PushedShape ==
  ASSUME NEW c, c \notin Associative, NEW fits, NEW nodes, Range(nodes) \subseteq fits
  PROVE  ShapedIn(c, fits, Pushed(nodes))
<1>1. CASE nodes = <<>>
  <2>1. Pushed(nodes) = Null /\ ~ IsList(Null) /\ ~ IsMap(Null)
    BY <1>1 DEF Pushed, Null, IsList, IsMap
  <2>2. Range(Elements(Null)) = {} /\ Range(Seconds(Pairs(Null))) = {}
    BY <2>1 DEF Elements, Pairs, Seconds, Range
  <2>3. QED
    BY <2>1, <2>2 DEF ShapedIn, HasShape
<1>2. CASE nodes # <<>>
  <2>1. Pushed(nodes) = List(nodes)
    BY <1>2 DEF Pushed
  <2>2. IsList(List(nodes)) /\ ~ IsMap(List(nodes)) /\ List(nodes).list = nodes
    BY DEF List, IsList, IsMap
  <2>3. Elements(List(nodes)) = nodes /\ Range(Seconds(Pairs(List(nodes)))) = {}
    BY <2>2 DEF Elements, Pairs, Seconds, Range
  <2>4. QED
    BY <2>1, <2>2, <2>3 DEF ShapedIn, HasShape
<1>3. QED
  BY <1>1, <1>2

LEMMA AssignedShape ==
  ASSUME NEW c \in Associative, NEW fits, NEW pairs, Range(Seconds(pairs)) \subseteq fits
  PROVE  ShapedIn(c, fits, Assigned(pairs))
<1>1. CASE pairs = <<>>
  <2>1. Assigned(pairs) = Null /\ ~ IsList(Null) /\ ~ IsMap(Null)
    BY <1>1 DEF Assigned, Null, IsList, IsMap
  <2>2. Range(Elements(Null)) = {} /\ Range(Seconds(Pairs(Null))) = {}
    BY <2>1 DEF Elements, Pairs, Seconds, Range
  <2>3. QED
    BY <2>1, <2>2 DEF ShapedIn, HasShape
<1>2. CASE pairs # <<>>
  <2>1. Assigned(pairs) = Map(pairs)
    BY <1>2 DEF Assigned
  <2>2. IsMap(Map(pairs)) /\ ~ IsList(Map(pairs)) /\ Map(pairs).map = pairs
    BY DEF Map, IsList, IsMap
  <2>3. Pairs(Map(pairs)) = pairs /\ Range(Elements(Map(pairs))) = {}
    BY <2>2 DEF Elements, Pairs, Range
  <2>4. QED
    BY <2>1, <2>2, <2>3 DEF ShapedIn, HasShape
<1>3. QED
  BY <1>1, <1>2

LEMMA ListShape ==
  ASSUME NEW c \in Sequential, NEW of, NEW fits, Fits(fits, of), NEW n \in Node,
         NEW v \in ListCast(of).read[<<n>>], v \in ListCast(of).value
  PROVE  ShapedIn(c, fits, Load(ListCast(of).write[v]))
<1> DEFINE nodes == [k \in DOMAIN v |-> Load(of.write[v[k]])]
<1>1. v \in ReadElements(of, Elements(n))
  BY TextOf DEF ListCast, ReadList
<1>2. DOMAIN v = DOMAIN Elements(n) /\ \A k \in DOMAIN v : v[k] \in of.read[<<Elements(n)[k]>>]
  BY <1>1, ElementsRead
<1>3. \A k \in DOMAIN v : Elements(n)[k] \in Node
  BY <1>2, NodesOf
<1>4. \A k \in DOMAIN v : Load(of.write[v[k]]) \in fits
  BY <1>2, <1>3 DEF Fits
<1>5. Range(nodes) \subseteq fits
  BY <1>4 DEF Range
<1>6. Load(ListCast(of).write[v]) = Pushed(nodes)
  <2>1. v \in Seq(of.value)
    BY DEF ListCast
  <2>2. ListCast(of).write[v] = <<WriteList(of, v)>>
    BY <2>1 DEF ListCast
  <2>3. QED
    BY <2>2, LoadOne DEF WriteList
<1> HIDE DEF nodes
<1>7. c \notin Associative
  BY DEF Sequential, Associative
<1>8. QED
  BY <1>5, <1>6, <1>7, PushedShape

LEMMA SetShape ==
  ASSUME NEW c \in Unique, NEW of, NEW fits, Fits(fits, of), NEW n \in Node,
         NEW v \in SetCast(of).read[<<n>>], v \in SetCast(of).value
  PROVE  ShapedIn(c, fits, Load(SetCast(of).write[v]))
<1>1. PICK values \in ReadElements(of, Elements(n)) : v = Range(values)
  BY TextOf DEF SetCast, ReadSet
<1>2. /\ DOMAIN values = DOMAIN Elements(n)
      /\ \A k \in DOMAIN values : values[k] \in of.read[<<Elements(n)[k]>>]
  BY ElementsRead
<1>3. \A k \in DOMAIN values : Elements(n)[k] \in Node
  BY <1>2, NodesOf
<1>4. \A k \in DOMAIN values : Load(of.write[values[k]]) \in fits
  BY <1>2, <1>3 DEF Fits
<1> DEFINE f == [k \in DOMAIN values |-> Load(of.write[values[k]])]
           X == {Load(of.write[e]) : e \in v}
<1>5. X = Range(f) /\ Range(f) \subseteq fits
  BY <1>1, <1>4 DEF Range
<1>6. IsFiniteSet(Range(f))
  <2>1. Elements(n) \in Seq(Node)
    BY NodesOf
  <2>2. Len(Elements(n)) \in Nat /\ DOMAIN values \subseteq 1 .. Len(Elements(n))
    BY <1>2, <2>1
  <2>3. f = [k \in DOMAIN values |-> f[k]]
    OBVIOUS
  <2> HIDE DEF f
  <2>4. QED
    BY <2>2, <2>3, ImageFinite
<1> HIDE DEF f
<1>7. Range(SetToSeq(X)) \subseteq fits
  BY <1>5, <1>6, InSomeOrder
<1>8. Load(SetCast(of).write[v]) = Pushed(SetToSeq(X))
  <2>1. v \in SUBSET of.value
    BY DEF SetCast
  <2>2. SetCast(of).write[v] = <<WriteSet(of, v)>>
    BY <2>1 DEF SetCast
  <2>3. QED
    BY <2>2, LoadOne DEF WriteSet
<1> HIDE DEF X
<1>9. c \notin Associative
  BY DEF Unique, Associative
<1>10. QED
  BY <1>7, <1>8, <1>9, PushedShape

LEMMA MapShape ==
  ASSUME NEW c \in Associative, NEW of, NEW fits, Fits(fits, of), NEW n \in Node,
         NEW v \in MapCast(of).read[<<n>>], v \in MapCast(of).value
  PROVE  ShapedIn(c, fits, Load(MapCast(of).write[v]))
<1> DEFINE pairs == Pairs(n)
           D == {j \in DOMAIN pairs : IsNew(pairs, j)}
<1>1. MapCast(of).read[<<n>>] =
        IF Elements(n) # <<>> THEN {}
        ELSE {Inserted(pairs, values) : values \in ReadElements(of, Seconds(pairs))}
  BY TextOf DEF MapCast, ReadMap
<1>2. PICK values \in ReadElements(of, Seconds(pairs)) : v = Inserted(pairs, values)
  BY <1>1
<1>3. pairs \in Seq(Key \X Node)
  BY NodesOf
<1> HIDE DEF pairs
<1>4. \A j \in DOMAIN pairs : Load(of.write[values[j]]) \in fits
  <2>1. /\ DOMAIN Seconds(pairs) = DOMAIN pairs
        /\ \A k \in DOMAIN pairs : Seconds(pairs)[k] = pairs[k][2]
    BY DEF Seconds
  <2>2. \A k \in DOMAIN pairs : values[k] \in of.read[<<pairs[k][2]>>]
    BY <2>1, ElementsRead
  <2>3. \A k \in DOMAIN pairs : pairs[k][2] \in Node
    BY <1>3
  <2>4. QED
    BY <2>2, <2>3 DEF Fits
<1>5. v = {<<pairs[j][1], values[j]>> : j \in D}
  BY <1>2, Zenon DEF Inserted
<1> DEFINE f == [j \in D |-> <<pairs[j][1], Load(of.write[values[j]])>>]
           Y == {<<p[1], Load(of.write[p[2]])>> : p \in v}
<1>6. Range(f) = {<<pairs[j][1], Load(of.write[values[j]])>> : j \in D}
  BY DEF Range
<1>7. IsFiniteSet(Range(f))
  <2>1. Len(pairs) \in Nat /\ D \subseteq 1 .. Len(pairs) /\ f = [j \in D |-> f[j]]
    BY <1>3
  <2> HIDE DEF f, D
  <2>2. QED
    BY <2>1, ImageFinite
<1>8. Y = Range(f)
  <2> HIDE DEF f
  <2>1. ASSUME NEW p \in v
        PROVE  \E j \in D : <<p[1], Load(of.write[p[2]])>>
                            = <<pairs[j][1], Load(of.write[values[j]])>>
    <3>1. PICK j \in D : p = <<pairs[j][1], values[j]>>
      BY <1>5
    <3>2. p[1] = pairs[j][1] /\ p[2] = values[j]
      BY <3>1
    <3>3. QED
      BY <3>2
  <2>2. ASSUME NEW j \in D
        PROVE  \E p \in v : <<p[1], Load(of.write[p[2]])>>
                            = <<pairs[j][1], Load(of.write[values[j]])>>
    <3> DEFINE p == <<pairs[j][1], values[j]>>
    <3>1. p \in v /\ p[1] = pairs[j][1] /\ p[2] = values[j]
      BY <1>5
    <3> HIDE DEF p
    <3>2. QED
      BY <3>1
  <2>3. QED
    BY <1>6, <2>1, <2>2
<1> DEFINE q == SetToSeq(Y)
<1>9. Range(q) = Range(f)
  <2> HIDE DEF f
  <2>1. QED
    BY <1>7, <1>8, InSomeOrder
<1>10. Load(MapCast(of).write[v]) = Assigned(q)
  <2>1. v \in SUBSET (Key \X of.value)
    BY DEF MapCast
  <2>2. MapCast(of).write[v] = <<WriteMap(of, v)>>
    BY <2>1 DEF MapCast
  <2>3. QED
    BY <2>2, LoadOne DEF WriteMap
<1>11. Range(Seconds(q)) \subseteq fits
  <2> HIDE DEF q, f
  <2>1. ASSUME NEW k \in DOMAIN q PROVE q[k][2] \in fits
    <3>1. q[k] \in Range(f)
      BY <1>9 DEF Range
    <3>2. PICK j \in D : q[k] = <<pairs[j][1], Load(of.write[values[j]])>>
      BY <1>6, <3>1
    <3>3. QED
      BY <1>4, <3>2
  <2>2. QED
    BY <2>1 DEF Seconds, Range
<1> HIDE DEF q
<1>12. QED
  BY <1>10, <1>11, AssignedShape

LEMMA ContainerShape ==
  ASSUME NEW c \in Container, NEW of, NEW fits, Fits(fits, of), NEW n \in Node,
         NEW v \in CastIn(c, of).read[<<n>>], v \in CastIn(c, of).value
  PROVE  ShapedIn(c, fits, Load(CastIn(c, of).write[v]))
<1>1. CASE c \in Sequential
  <2>1. CastIn(c, of) = ListCast(of)
    BY <1>1 DEF CastIn, Sequential, Unique, Associative
  <2>2. QED
    BY <1>1, <2>1, ListShape
<1>2. CASE c \in Unique
  <2>1. CastIn(c, of) = SetCast(of)
    BY <1>2 DEF CastIn, Sequential, Unique, Associative
  <2>2. QED
    BY <1>2, <2>1, SetShape
<1>3. CASE c \in Associative
  <2>1. CastIn(c, of) = MapCast(of)
    BY <1>3 DEF CastIn, Sequential, Unique, Associative
  <2>2. QED
    BY <1>3, <2>1, MapShape
<1>4. QED
  BY <1>1, <1>2, <1>3 DEF Container

LEMMA WrittenShape ==
  ASSUME NEW T \in Type, NEW n \in Node, NEW v \in Read(T, <<n>>)
  PROVE  Load(Write(T, v)) \in Shaped(T)
<1> DEFINE m == Len(T.in)
<1>1. m \in Nat /\ \A k \in 1 .. m : T.in[k] \in Container
  BY TypeParts
<1>2. PICK shaped :
        /\ shaped = [k \in 0 .. m |->
                       IF k = 0 THEN Node ELSE ShapedOf(T, k, shaped[k - 1])]
        /\ Shaped(T) = shaped[m]
  BY <1>1, ShapedRead
<1>3. ASSUME NEW k \in 0 .. m, NEW w \in Node, NEW x \in Casts(T)[k].read[<<w>>]
      PROVE  x \in Casts(T)[k].value /\ Load(Casts(T)[k].write[x]) \in Node
  <2>1. Depth \in 0 .. Depth
    BY TypeAssumption
  <2>2. SoundIn(Casts(T)[k], Node)
    BY <2>1, CastsSound DEF Sound, Node
  <2>3. x \in Casts(T)[k].value /\ \E u \in Node : Casts(T)[k].write[x] = <<u>>
    BY <2>2, Zenon DEF SoundIn
  <2>4. QED
    BY <2>3, LoadOne
<1>4. \A k \in 0 .. m :
        Casts(T)[k] = IF k = 0 THEN LeafCast(T.leaf) ELSE CastIn(T.in[k], Casts(T)[k - 1])
  BY <1>1, CastsRead, Zenon
<1> DEFINE P == {i \in Nat : i <= m => Fits(shaped[i], Casts(T)[i])}
<1>5. 0 \in P
  <2>1. 0 \in 0 .. m
    BY <1>1
  <2>2. shaped[0] = Node
    BY <1>2, <2>1
  <2>3. Fits(shaped[0], Casts(T)[0])
    BY <1>3, <2>1, <2>2 DEF Fits
  <2>4. QED
    BY <2>3
<1>6. ASSUME NEW i \in Nat, i < m, i \in P PROVE i + 1 \in P
  <2>1. i <= m /\ i + 1 \in 0 .. m /\ i + 1 \in 1 .. m /\ i + 1 # 0 /\ (i + 1) - 1 = i
    BY <1>1, <1>6
  <2>2. Fits(shaped[i], Casts(T)[i])
    BY <1>6, <2>1
  <2>3. Casts(T)[i + 1] = CastIn(T.in[i + 1], Casts(T)[i])
    BY <1>4, <2>1
  <2>4. shaped[i + 1] = ShapedOf(T, i + 1, shaped[i])
    BY <1>2, <2>1
  <2>5. ASSUME NEW w \in Node, NEW x \in Casts(T)[i + 1].read[<<w>>]
        PROVE  Load(Casts(T)[i + 1].write[x]) \in shaped[i + 1]
    <3>1. x \in Casts(T)[i + 1].value /\ Load(Casts(T)[i + 1].write[x]) \in Node
      BY <1>3, <2>1
    <3>2. T.in[i + 1] \in Container
      BY <1>1, <2>1
    <3>3. ShapedIn(T.in[i + 1], shaped[i], Load(Casts(T)[i + 1].write[x]))
      BY <2>2, <2>3, <3>1, <3>2, ContainerShape
    <3>4. QED
      BY <2>4, <3>1, <3>3 DEF ShapedOf
  <2>6. Fits(shaped[i + 1], Casts(T)[i + 1])
    BY <2>5 DEF Fits
  <2>7. QED
    BY <2>6
<1>7. m \in P
  <2> HIDE DEF P
  <2>1. m \in 0 .. m
    BY <1>1
  <2> HIDE DEF m
  <2>2. QED
    BY <1>1, <1>5, <1>6, <2>1, InductionTo
<1>8. Fits(Shaped(T), Cast(T))
  <2>1. m <= m
    BY <1>1
  <2>2. Fits(shaped[m], Casts(T)[m])
    BY <1>7, <2>1
  <2>3. QED
    BY <1>2, <2>2 DEF Cast
<1>9. v \in Cast(T).read[<<n>>]
  BY DEF Read
<1>10. QED
  BY <1>8, <1>9, Zenon DEF Fits, Write

-----------------------------------------------------------------------------
(* The steps of the variable *)

WholeStep ==
  /\ ok' \/ m_val' = m_val
  /\ ok' /\ Load(text') \in Shaped(type) => <<Load(text'), m_val'>> \in Says(type)
  /\ toString => <<Load(text'), m_val>> \in Says(type)

LEMMA ToStringWhole ==
  ASSUME ValueRead, toString
  PROVE  <<Load(text'), m_val>> \in Says(type)
<1>1. type \in Type /\ text' = Write(type, m_val)
  BY DEF toString, ValueRead
<1>2. PICK n \in Node : m_val \in Read(type, <<n>>)
  BY DEF ValueRead
<1>3. PICK m \in Node : Write(type, m_val) = <<m>> /\ Read(type, <<m>>) = {m_val}
  BY <1>1, <1>2, CastSound
<1>4. Load(text') = m
  BY <1>1, <1>3, LoadOne
<1>5. m \in Shaped(type)
  BY <1>1, <1>2, <1>4, WrittenShape
<1>6. <<m, m_val>> \in Says(type)
  BY <1>1, <1>3, <1>5, ReadSays
<1>7. QED
  BY <1>4, <1>6

LEMMA FromStringWhole ==
  ASSUME ValueRead, NEW n \in Node, FromString(<<n>>)
  PROVE  WholeStep
<1>1. text' = <<n>> /\ type \in Type /\ Load(<<n>>) = n
  BY LoadOne DEF FromString, ValueRead
<1>2. ok' \/ m_val' = m_val
  BY DEF FromString, Refused, Accepted
<1>3. ASSUME ok', Load(text') \in Shaped(type)
      PROVE  <<Load(text'), m_val'>> \in Says(type)
  <2>1. m_val' \in Read(type, <<n>>)
    BY <1>3 DEF FromString, Refused, Accepted
  <2>2. <<n, m_val'>> \in Says(type)
    BY <1>1, <1>3, <2>1, ReadSays
  <2>3. QED
    BY <1>1, <2>2
<1>4. QED
  BY <1>2, <1>3, ToStringWhole DEF WholeStep

LEMMA NextWhole == ValueRead /\ [Next]_vars => [WholeStep]_vars
<1> SUFFICES ASSUME ValueRead, Next PROVE WholeStep
  OBVIOUS
<1>1. type \in Type
  BY DEF ValueRead
<1>2. ASSUME NEW n \in Document(type), FromString(<<n>>) PROVE WholeStep
  <2>1. n \in Node
    BY <1>1, DocumentNode
  <2>2. QED
    BY <1>2, <2>1, FromStringWhole
<1>3. CASE FromString(text)
  <2>1. PICK n \in Node : text = <<n>>
    BY DEF ValueRead
  <2>2. QED
    BY <1>3, <2>1, FromStringWhole
<1>4. CASE toString
  <2>1. m_val' = m_val
    BY <1>4 DEF toString
  <2>2. <<Load(text'), m_val>> \in Says(type)
    BY <1>4, ToStringWhole
  <2>3. QED
    BY <2>1, <2>2 DEF WholeStep
<1>5. QED
  BY <1>2, <1>3, <1>4 DEF Next

(* A document of the shape of the type is taken whole, as it says, or not   *)
(* at all, a refused one of any shape changes nothing, and what toString    *)
(* writes is of the shape and says the value (config.hpp 279-297): of every *)
(* type, with documents of any depth.                                       *)
THEOREM DocumentsWhole == Spec => LoadedWhole
<1>1. LoadedWhole <=> [][WholeStep]_vars
  BY PTL DEF LoadedWhole, WholeStep
<1>2. QED
  BY <1>1, InitValue, NextValue, NextWhole, PTL DEF Spec

=============================================================================
