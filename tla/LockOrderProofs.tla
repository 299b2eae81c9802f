--------------------------- MODULE LockOrderProofs ---------------------------
(***************************************************************************)
(* Threads whose programs keep an order of the locks never wait for each   *)
(* other, however many they are and whatever the programs.  The programs   *)
(* of SystemLocks keep one.                                                *)
(***************************************************************************)
EXTENDS SystemLocks, SequenceTheorems, WellFoundedInduction, TLAPS

USE DEF vars

TypeOK ==
  /\ prog \in [Thread -> Program \cup {<<>>}]
  /\ at \in [Thread -> Nat]
  /\ \A t \in Thread : 1 <= at[t] /\ at[t] <= Len(prog[t]) + 1
  /\ holder \in [Lock -> Thread \cup {NoThread}]
  /\ readers \in [Lock -> [Thread -> Nat]]

(* The guards of thread t. *)
Guards(t) == Open(prog[t], at[t])

(* Whoever is in the scope of a guard has its lock. *)
ScopesOwned == \A t \in Thread : \A j \in Guards(t) : Owns(t, prog[t][j])

(* What a thread owns, a guard of it has taken.                             *)
OwnedByGuard ==
  /\ \A l \in Lock, t \in Thread : holder[l] = t =>
       \E j \in Guards(t) : prog[t][j].lock = l /\ prog[t][j].op = "write"
  /\ \A l \in Lock, t \in Thread : readers[l][t] > 0 =>
       \E j \in Guards(t) : prog[t][j].lock = l /\ prog[t][j].op = "read"
  /\ \A l \in Lock, t \in Thread : readers[l][t] <= 1

Inv == TypeOK /\ ScopesOwned /\ OwnedByGuard
-----------------------------------------------------------------------------
(* Programs *)

LEMMA ProgramIs ==
  ASSUME NEW p \in Program \cup {<<>>}
  PROVE  p \in Seq(Steps) /\ Len(p) \in Nat /\ DOMAIN p = 1 .. Len(p)
         /\ \A j \in 1 .. Len(p) : p[j] \in Steps
<1>1. CASE p \in Program
  <2>1. p \in Seq(Steps)
    BY <1>1, LockAssumption
  <2>2. QED
    BY <2>1
<1>2. CASE p = <<>>
  BY <1>2
<1>3. QED
  BY <1>1, <1>2

LEMMA StepIs ==
  ASSUME TypeOK, NEW t \in Thread, Inside(t)
  PROVE  /\ at[t] \in DOMAIN prog[t] /\ at[t] \in Nat
         /\ Step(t) = prog[t][at[t]]
         /\ Step(t).lock \in Lock /\ Step(t).op \in {"read", "write", "drop"}
         /\ prog[t] \in Program
<1>1. prog[t] \in Program \cup {<<>>} /\ at[t] \in Nat /\ 1 <= at[t] /\ at[t] <= Len(prog[t])
  BY DEF TypeOK, Inside
<1>2. Len(prog[t]) \in Nat /\ DOMAIN prog[t] = 1 .. Len(prog[t])
      /\ \A j \in 1 .. Len(prog[t]) : prog[t][j] \in Steps
  BY <1>1, ProgramIs
<1>3. at[t] \in 1 .. Len(prog[t])
  BY <1>1, <1>2
<1>4. prog[t] # <<>>
  BY <1>2, <1>3
<1>5. prog[t][at[t]] \in Steps
  BY <1>2, <1>3
<1>6. QED
  BY <1>1, <1>2, <1>3, <1>4, <1>5 DEF Step, Steps

(* The guards after a step that takes a lock.                               *)
LEMMA OpenTake ==
  ASSUME NEW p, NEW i \in Nat, 1 <= i, Takes(p, i)
  PROVE  Open(p, i + 1) = Open(p, i) \cup {i}
<1>1. p[i].op # "drop"
  BY DEF Takes
<1>2. ASSUME NEW j \in Open(p, i + 1) PROVE j \in Open(p, i) \cup {i}
  <2>1. j \in 1 .. i /\ Takes(p, j)
        /\ \A k \in j + 1 .. i : p[k].op = "drop" => p[k].lock # p[j].lock
    BY <1>2 DEF Open
  <2>2. CASE j = i
    BY <2>2
  <2>3. CASE j # i
    BY <2>1, <2>3 DEF Open
  <2>4. QED
    BY <2>2, <2>3
<1>3. ASSUME NEW j \in Open(p, i) PROVE j \in Open(p, i + 1)
  <2>1. j \in 1 .. i - 1 /\ Takes(p, j)
        /\ \A k \in j + 1 .. i - 1 : p[k].op = "drop" => p[k].lock # p[j].lock
    BY <1>3 DEF Open
  <2>2. \A k \in j + 1 .. i : k = i \/ k \in j + 1 .. i - 1
    BY <2>1
  <2>3. QED
    BY <1>1, <2>1, <2>2 DEF Open
<1>4. i \in Open(p, i + 1)
  <2>1. i + 1 .. i + 1 - 1 = {}
    OBVIOUS
  <2>2. QED
    BY <2>1 DEF Open
<1>5. QED
  BY <1>2, <1>3, <1>4

(* ... and after one that drops it.                                         *)
LEMMA OpenDrop ==
  ASSUME NEW p, NEW i \in Nat, 1 <= i, p[i].op = "drop"
  PROVE  Open(p, i + 1) = {j \in Open(p, i) : p[j].lock # p[i].lock}
<1>1. ~ Takes(p, i)
  BY DEF Takes
<1>2. ASSUME NEW j \in Open(p, i + 1) PROVE j \in Open(p, i) /\ p[j].lock # p[i].lock
  <2>1. j \in 1 .. i /\ Takes(p, j)
        /\ \A k \in j + 1 .. i : p[k].op = "drop" => p[k].lock # p[j].lock
    BY <1>2 DEF Open
  <2>2. j # i
    BY <1>1, <2>1
  <2>3. QED
    BY <2>1, <2>2 DEF Open
<1>3. ASSUME NEW j \in Open(p, i), p[j].lock # p[i].lock PROVE j \in Open(p, i + 1)
  <2>1. j \in 1 .. i - 1 /\ Takes(p, j)
        /\ \A k \in j + 1 .. i - 1 : p[k].op = "drop" => p[k].lock # p[j].lock
    BY <1>3 DEF Open
  <2>2. \A k \in j + 1 .. i : k = i \/ k \in j + 1 .. i - 1
    BY <2>1
  <2>3. QED
    BY <1>3, <2>1, <2>2 DEF Open
<1>4. QED
  BY <1>2, <1>3

LEMMA OpenTakes ==
  ASSUME NEW p, NEW i, NEW j \in Open(p, i)
  PROVE  j \in 1 .. i - 1 /\ p[j].op \in {"read", "write"}
BY DEF Open, Takes

(* Two guards of one program are of different locks.                        *)
LEMMA OneGuard ==
  ASSUME NEW p \in Program, Ordered(p), NEW i \in Nat, i <= Len(p) + 1,
         NEW j \in Open(p, i), NEW k \in Open(p, i), p[j].lock = p[k].lock
  PROVE  j = k
<1>1. SUFFICES ASSUME NEW a \in Open(p, i), NEW b \in Open(p, i), a < b, p[a].lock = p[b].lock
               PROVE  FALSE
  <2>1. j \in Int /\ k \in Int
    BY DEF Open
  <2>2. QED
    BY <1>1, <2>1
<1>2. a \in 1 .. i - 1 /\ b \in 1 .. i - 1 /\ Takes(p, b) /\ Takes(p, a)
  BY DEF Open
<1>3. Len(p) \in Nat /\ DOMAIN p = 1 .. Len(p) /\ \A n \in 1 .. Len(p) : p[n] \in Steps
  BY ProgramIs
<1>4. b \in DOMAIN p /\ a \in 1 .. b - 1
  BY <1>1, <1>2, <1>3
<1>5. a \in Open(p, b)
  <2>1. \A n \in a + 1 .. b - 1 : n \in a + 1 .. i - 1
    BY <1>2
  <2>2. QED
    BY <1>2, <1>4, <2>1 DEF Open
<1>6. Rank[p[a].lock] < Rank[p[b].lock]
  BY <1>2, <1>4, <1>5 DEF Ordered
<1>7. Rank[p[b].lock] \in Nat
  BY <1>3, <1>4, LockAssumption DEF Steps
<1>8. QED
  BY <1>1, <1>6, <1>7
-----------------------------------------------------------------------------
(* Programs one after another, and guards around them *)

LEMMA ConcatIs ==
  ASSUME NEW p \in Seq(Steps), NEW q \in Seq(Steps)
  PROVE  /\ p \o q \in Seq(Steps) /\ Len(p) \in Nat /\ Len(q) \in Nat
         /\ Len(p \o q) = Len(p) + Len(q) /\ DOMAIN (p \o q) = 1 .. Len(p) + Len(q)
         /\ DOMAIN p = 1 .. Len(p) /\ DOMAIN q = 1 .. Len(q)
         /\ \A i \in 1 .. Len(p) : (p \o q)[i] = p[i]
         /\ \A i \in 1 .. Len(q) : (p \o q)[Len(p) + i] = q[i]
<1>1. p \o q \in Seq(Steps) /\ Len(p) \in Nat /\ Len(q) \in Nat
      /\ DOMAIN p = 1 .. Len(p) /\ DOMAIN q = 1 .. Len(q)
  OBVIOUS
<1>2. Len(p \o q) = Len(p) + Len(q)
  OBVIOUS
<1>3. DOMAIN (p \o q) = 1 .. Len(p) + Len(q)
  BY <1>1, <1>2
<1>4. \A i \in 1 .. Len(p) : (p \o q)[i] = p[i]
  OBVIOUS
<1>5. ASSUME NEW i \in 1 .. Len(q) PROVE (p \o q)[Len(p) + i] = q[i]
  OBVIOUS
<1>6. QED
  BY <1>1, <1>2, <1>3, <1>4, <1>5

(* ... by the place before i. *)
LEMMA InOpen ==
  ASSUME NEW p, NEW i \in Nat, NEW j, NEW e \in Int, e = i - 1
  PROVE  j \in Open(p, i) <=>
           /\ j \in 1 .. e /\ Takes(p, j)
           /\ \A k \in j + 1 .. e : p[k].op = "drop" => p[k].lock # p[j].lock
BY DEF Open

(* The guards of p \o q in p ... *)
LEMMA OpenBefore ==
  ASSUME NEW p \in Seq(Steps), NEW q \in Seq(Steps), NEW i \in 1 .. Len(p) + 1
  PROVE  Open(p \o q, i) = Open(p, i)
<1> DEFINE s == p \o q
<1>1. Len(p) \in Nat /\ \A j \in 1 .. Len(p) : s[j] = p[j]
  BY ConcatIs
<1> HIDE DEF s
<1>2. \A j \in 1 .. i - 1 : s[j] = p[j] /\ \A k \in j + 1 .. i - 1 : s[k] = p[k]
  BY <1>1
<1>3. QED
  BY <1>2 DEF Open, Takes, s

(* ... and in q: those of p that q does not drop, and those of q. *)
LEMMA OpenBehind ==
  ASSUME NEW p \in Seq(Steps), NEW q \in Seq(Steps), NEW k \in 1 .. Len(q) + 1
  PROVE  Open(p \o q, Len(p) + k) =
           {j \in Open(p, Len(p) + 1) :
              \A n \in 1 .. k - 1 : q[n].op = "drop" => q[n].lock # p[j].lock}
           \cup {Len(p) + j : j \in Open(q, k)}
<1> DEFINE s == p \o q
           m == Len(p)
           Kept == {j \in Open(p, m + 1) :
                      \A n \in 1 .. k - 1 : q[n].op = "drop" => q[n].lock # p[j].lock}
           Own == {m + j : j \in Open(q, k)}
<1>1. m \in Nat /\ Len(q) \in Nat
      /\ (\A j \in 1 .. m : s[j] = p[j]) /\ \A j \in 1 .. Len(q) : s[m + j] = q[j]
  BY ConcatIs
<1>2. \A n \in 1 .. k - 1 : n \in 1 .. Len(q) /\ s[m + n] = q[n]
  BY <1>1
<1>3. m + k \in Nat /\ (m + k) - 1 \in Int /\ m + 1 \in Nat /\ m \in Int /\ m = (m + 1) - 1
  BY <1>1
<1> HIDE DEF s, m
<1>4. Open(s, m + k) =
        {j \in 1 .. (m + k) - 1 :
           Takes(s, j) /\ \A n \in j + 1 .. (m + k) - 1 : s[n].op = "drop" => s[n].lock # s[j].lock}
  BY DEF Open
<1>5. ASSUME NEW j \in Open(s, m + k) PROVE j \in Kept \cup Own
  <2>1. j \in 1 .. (m + k) - 1 /\ Takes(s, j)
        /\ \A n \in j + 1 .. (m + k) - 1 : s[n].op = "drop" => s[n].lock # s[j].lock
    BY <1>5, <1>4
  <2>2. CASE j <= m
    <3>1. s[j] = p[j] /\ Takes(p, j) /\ j \in 1 .. m
      BY <1>1, <2>1, <2>2 DEF Takes
    <3>2. \A n \in j + 1 .. m : n \in j + 1 .. (m + k) - 1 /\ s[n] = p[n]
      BY <1>1, <2>1
    <3>3. j \in Open(p, m + 1)
      <4>1. \A n \in j + 1 .. m : p[n].op = "drop" => p[n].lock # p[j].lock
        BY <2>1, <3>1, <3>2
      <4>2. QED
        BY <1>3, <3>1, <4>1, InOpen
    <3>4. \A n \in 1 .. k - 1 : m + n \in j + 1 .. (m + k) - 1
      BY <1>1, <2>1, <2>2
    <3>5. \A n \in 1 .. k - 1 : q[n].op = "drop" => q[n].lock # p[j].lock
      BY <1>2, <2>1, <3>1, <3>4
    <3>6. QED
      BY <3>3, <3>5
  <2>3. CASE ~ (j <= m)
    <3>1. PICK i \in 1 .. k - 1 : j = m + i
      <4>1. j - m \in 1 .. k - 1 /\ j = m + (j - m)
        BY <1>1, <2>1, <2>3
      <4>2. QED
        BY <4>1
    <3>2. s[j] = q[i] /\ Takes(q, i)
      BY <1>2, <2>1, <3>1 DEF Takes
    <3>3. \A n \in i + 1 .. k - 1 : m + n \in j + 1 .. (m + k) - 1 /\ n \in 1 .. k - 1
      BY <1>1, <3>1
    <3>4. \A n \in i + 1 .. k - 1 : q[n].op = "drop" => q[n].lock # q[i].lock
      BY <1>2, <2>1, <3>2, <3>3
    <3>5. i \in Open(q, k)
      BY <3>2, <3>4 DEF Open
    <3>6. QED
      BY <3>1, <3>5
  <2>4. QED
    BY <2>2, <2>3
<1>6. ASSUME NEW j \in Kept PROVE j \in Open(s, m + k)
  <2>1. j \in 1 .. m /\ Takes(p, j)
        /\ \A n \in j + 1 .. m : p[n].op = "drop" => p[n].lock # p[j].lock
    <3>1. j \in Open(p, m + 1)
      BY <1>6
    <3>2. QED
      BY <1>3, <3>1, InOpen
  <2>2. \A n \in 1 .. k - 1 : q[n].op = "drop" => q[n].lock # p[j].lock
    BY <1>6
  <2>3. s[j] = p[j] /\ Takes(s, j)
    BY <1>1, <2>1 DEF Takes
  <2>4. ASSUME NEW n \in j + 1 .. (m + k) - 1, s[n].op = "drop" PROVE s[n].lock # s[j].lock
    <3>1. CASE n <= m
      <4>1. n \in j + 1 .. m /\ n \in 1 .. m
        BY <1>1, <2>1, <3>1
      <4>2. QED
        BY <1>1, <2>1, <2>3, <2>4, <4>1
    <3>2. CASE ~ (n <= m)
      <4>1. n - m \in 1 .. k - 1 /\ m + (n - m) = n
        BY <1>1, <2>1, <3>2
      <4>2. QED
        BY <1>2, <2>2, <2>3, <2>4, <4>1
    <3>3. QED
      BY <3>1, <3>2
  <2>5. j \in 1 .. (m + k) - 1
    BY <1>1, <2>1
  <2>6. QED
    BY <1>4, <2>3, <2>4, <2>5
<1>7. ASSUME NEW i \in Open(q, k), NEW w, w = m + i PROVE w \in Open(s, m + k)
  <2>1. i \in 1 .. k - 1 /\ Takes(q, i)
        /\ \A n \in i + 1 .. k - 1 : q[n].op = "drop" => q[n].lock # q[i].lock
    BY <1>7 DEF Open
  <2>2. s[w] = q[i] /\ Takes(s, w) /\ w \in 1 .. (m + k) - 1
    BY <1>1, <1>2, <1>7, <2>1 DEF Takes
  <2>3. ASSUME NEW n \in w + 1 .. (m + k) - 1, s[n].op = "drop"
        PROVE  s[n].lock # s[w].lock
    <3>1. n - m \in i + 1 .. k - 1 /\ n - m \in 1 .. k - 1 /\ m + (n - m) = n
      BY <1>1, <1>7, <2>1
    <3>2. QED
      BY <1>2, <2>1, <2>2, <2>3, <3>1
  <2>4. \A n \in w + 1 .. (m + k) - 1 : s[n].op = "drop" => s[n].lock # s[w].lock
    BY <2>3
  <2> HIDE <1>7
  <2>5. QED
    BY <1>4, <2>2, <2>4
<1>8. Open(s, m + k) = Kept \cup Own
  BY <1>5, <1>6, <1>7
<1>9. QED
  BY <1>8 DEF s, m

(* A program all of whose guards have the place r in the order or a later   *)
(* one.                                                                     *)
LEMMA FromEarlier ==
  ASSUME NEW r \in Nat, NEW s \in Nat, s <= r, NEW p, From(r, p)
  PROVE  From(s, p)
<1>1. ASSUME NEW i \in DOMAIN p PROVE s <= Rank[p[i].lock]
  <2>1. i \in 1 .. Len(p) /\ p \in Seq(Steps)
    BY DEF From
  <2>2. p[i] \in Steps
    BY <2>1, ElementOfSeq
  <2>3. Rank[p[i].lock] \in Nat
    BY <2>2, LockAssumption DEF Steps
  <2>4. r <= Rank[p[i].lock]
    BY DEF From
  <2>5. QED
    BY <2>3, <2>4
<1>2. QED
  BY <1>1 DEF From

LEMMA FromEmpty ==
  ASSUME NEW r \in Nat
  PROVE  From(r, <<>>)
<1>1. <<>> \in Seq(Steps) /\ DOMAIN <<>> = {} /\ Len(<<>>) = 0
  OBVIOUS
<1>2. Open(<<>>, 1) = {}
  BY DEF Open
<1>3. QED
  BY <1>1, <1>2 DEF From, Ordered

LEMMA FromBoth ==
  ASSUME NEW r \in Nat, NEW p, NEW q, From(r, p), From(r, q)
  PROVE  From(r, p \o q)
<1> DEFINE s == p \o q
           m == Len(p)
<1>1. p \in Seq(Steps) /\ q \in Seq(Steps) /\ Ordered(p) /\ Ordered(q)
      /\ (\A i \in DOMAIN p : r <= Rank[p[i].lock]) /\ (\A i \in DOMAIN q : r <= Rank[q[i].lock])
  BY DEF From
<1>2. /\ s \in Seq(Steps) /\ m \in Nat /\ Len(q) \in Nat
      /\ Len(s) = m + Len(q) /\ DOMAIN s = 1 .. m + Len(q)
      /\ DOMAIN p = 1 .. m /\ DOMAIN q = 1 .. Len(q)
      /\ \A i \in 1 .. m : s[i] = p[i]
      /\ \A i \in 1 .. Len(q) : s[m + i] = q[i]
  BY <1>1, ConcatIs
<1>3. \A i \in 1 .. m + 1 : Open(s, i) = Open(p, i)
  BY <1>1, OpenBefore
<1>4. Open(p, m + 1) = {}
  BY <1>1 DEF Ordered
<1>5. \A k \in 1 .. Len(q) + 1 : Open(s, m + k) = {m + j : j \in Open(q, k)}
  <2> TAKE k \in 1 .. Len(q) + 1
  <2>1. Open(s, m + k) = {j \in Open(p, m + 1) :
              \A n \in 1 .. k - 1 : q[n].op = "drop" => q[n].lock # p[j].lock}
           \cup {m + j : j \in Open(q, k)}
    BY <1>1, OpenBehind
  <2>2. QED
    BY <1>4, <2>1
<1> HIDE DEF s, m
<1>6. \A i \in 1 .. m + Len(q) : i \in 1 .. m \/ \E k \in 1 .. Len(q) : i = m + k
  <2> TAKE i \in 1 .. m + Len(q)
  <2>1. CASE i <= m
    BY <1>2, <2>1
  <2>2. CASE ~ (i <= m)
    <3>1. i - m \in 1 .. Len(q) /\ i = m + (i - m)
      BY <1>2, <2>2
    <3>2. QED
      BY <3>1
  <2>3. QED
    BY <2>1, <2>2
<1>7. ASSUME NEW i \in 1 .. m
      PROVE  /\ IF Takes(s, i) THEN \A j \in Open(s, i) : Rank[s[j].lock] < Rank[s[i].lock]
                ELSE \E j \in Open(s, i) : s[j].lock = s[i].lock
             /\ s[i].op = "read" => s[i].lock \in RW
             /\ r <= Rank[s[i].lock]
  <2>1. s[i] = p[i] /\ i \in DOMAIN p /\ i \in 1 .. m + 1 /\ (Takes(s, i) <=> Takes(p, i))
    BY <1>2 DEF Takes
  <2>2. Open(s, i) = Open(p, i)
    BY <1>3, <2>1
  <2>3. \A j \in Open(p, i) : s[j] = p[j]
    <3>1. \A j \in Open(p, i) : j \in 1 .. i - 1
      BY OpenTakes
    <3>2. QED
      BY <1>2, <3>1
  <2>4. QED
    BY <1>1, <2>1, <2>2, <2>3 DEF Ordered
<1>8. ASSUME NEW k \in 1 .. Len(q), NEW i, i = m + k
      PROVE  /\ IF Takes(s, i) THEN \A j \in Open(s, i) : Rank[s[j].lock] < Rank[s[i].lock]
                ELSE \E j \in Open(s, i) : s[j].lock = s[i].lock
             /\ s[i].op = "read" => s[i].lock \in RW
             /\ r <= Rank[s[i].lock]
  <2>1. s[i] = q[k] /\ k \in DOMAIN q /\ k \in 1 .. Len(q) + 1 /\ (Takes(s, i) <=> Takes(q, k))
    BY <1>2, <1>8 DEF Takes
  <2>2. Open(s, i) = {m + j : j \in Open(q, k)}
    BY <1>5, <1>8, <2>1
  <2>3. \A j \in Open(q, k) : s[m + j] = q[j]
    <3>1. \A j \in Open(q, k) : j \in 1 .. k - 1
      BY OpenTakes
    <3>2. QED
      BY <1>2, <3>1
  <2>4. IF Takes(q, k) THEN \A j \in Open(q, k) : Rank[q[j].lock] < Rank[q[k].lock]
        ELSE \E j \in Open(q, k) : q[j].lock = q[k].lock
    BY <1>1, <2>1 DEF Ordered
  <2>5. CASE Takes(q, k)
    <3>1. \A j \in Open(s, i) : Rank[s[j].lock] < Rank[s[i].lock]
      BY <2>1, <2>2, <2>3, <2>4, <2>5
    <3>2. QED
      BY <1>1, <2>1, <2>5, <3>1 DEF Ordered
  <2>6. CASE ~ Takes(q, k)
    <3>1. \E j \in Open(s, i) : s[j].lock = s[i].lock
      BY <2>1, <2>2, <2>3, <2>4, <2>6
    <3>2. QED
      BY <1>1, <2>1, <2>6, <3>1 DEF Ordered
  <2>7. QED
    BY <2>5, <2>6
<1>9. Open(s, Len(s) + 1) = {}
  <2>1. Len(s) + 1 = m + (Len(q) + 1) /\ Len(q) + 1 \in 1 .. Len(q) + 1
    BY <1>2
  <2>2. Open(q, Len(q) + 1) = {}
    BY <1>1 DEF Ordered
  <2>3. Open(s, m + (Len(q) + 1)) = {m + j : j \in Open(q, Len(q) + 1)}
    BY <1>5, <2>1
  <2>4. QED
    BY <2>1, <2>2, <2>3
<1>10. Ordered(s)
  BY <1>2, <1>6, <1>7, <1>8, <1>9 DEF Ordered
<1>11. \A i \in DOMAIN s : r <= Rank[s[i].lock]
  BY <1>2, <1>6, <1>7, <1>8
<1>12. From(r, s)
  BY <1>2, <1>10, <1>11 DEF From
<1>13. QED
  BY <1>12 DEF s

(* A guard takes its lock and goes on with what it is around. *)
LEMMA UnderIs ==
  ASSUME NEW l \in Lock, NEW op \in {"read", "write"}, NEW body \in Seq(Steps)
  PROVE  /\ Under(l, op, body) \in Seq(Steps) /\ Len(body) \in Nat
         /\ DOMAIN Under(l, op, body) = 1 .. Len(body) + 2
         /\ Under(l, op, body)[1] = [op |-> op, lock |-> l]
         /\ \A i \in 1 .. Len(body) : Under(l, op, body)[1 + i] = body[i]
<1> DEFINE a == [op |-> op, lock |-> l]
           d == [op |-> "drop", lock |-> l]
           u == <<a>> \o body
<1>1. /\ <<a>> \in Seq(Steps) /\ <<d>> \in Seq(Steps)
      /\ Len(<<a>>) = 1 /\ Len(<<d>>) = 1 /\ <<a>>[1] = a
  BY DEF Steps
<1>2. Under(l, op, body) = u \o <<d>>
  BY DEF Under
<1> HIDE DEF a, d
<1>3. /\ u \in Seq(Steps) /\ Len(body) \in Nat /\ Len(u) = 1 + Len(body)
      /\ u[1] = a /\ \A i \in 1 .. Len(body) : u[1 + i] = body[i]
  BY <1>1, ConcatIs
<1> HIDE DEF u
<1>4. /\ u \o <<d>> \in Seq(Steps) /\ DOMAIN (u \o <<d>>) = 1 .. Len(u) + 1
      /\ \A i \in 1 .. Len(u) : (u \o <<d>>)[i] = u[i]
  BY <1>1, <1>3, ConcatIs
<1>5. (u \o <<d>>)[1] = a /\ \A i \in 1 .. Len(body) : (u \o <<d>>)[1 + i] = body[i]
  BY <1>3, <1>4
<1>6. Len(u) + 1 = Len(body) + 2
  BY <1>3
<1>7. QED
  BY <1>2, <1>3, <1>4, <1>5, <1>6 DEF a

(* A guard around a program all of whose guards come later in the order.    *)
LEMMA FromUnder ==
  ASSUME NEW l \in Lock, NEW op \in {"read", "write"}, op = "read" => l \in RW,
         NEW r \in Nat, r <= Rank[l],
         NEW body, From(Rank[l] + 1, body)
  PROVE  From(r, Under(l, op, body))
<1> DEFINE a == [op |-> op, lock |-> l]
           d == [op |-> "drop", lock |-> l]
           u == <<a>> \o body
           s == u \o <<d>>
           m == Len(body)
<1>1. Under(l, op, body) = s
  BY DEF Under
<1>2. /\ <<a>> \in Seq(Steps) /\ <<d>> \in Seq(Steps)
      /\ Len(<<a>>) = 1 /\ Len(<<d>>) = 1 /\ <<a>>[1] = a /\ <<d>>[1] = d
  BY DEF Steps
<1>3. /\ body \in Seq(Steps) /\ Ordered(body)
      /\ \A i \in DOMAIN body : Rank[l] + 1 <= Rank[body[i].lock]
  BY DEF From
<1>4. a.op = op /\ a.lock = l /\ d.op = "drop" /\ d.lock = l
  OBVIOUS
<1>5. /\ u \in Seq(Steps) /\ m \in Nat /\ Len(u) = 1 + m /\ DOMAIN body = 1 .. m
      /\ u[1] = a /\ \A i \in 1 .. m : u[1 + i] = body[i]
  BY <1>2, <1>3, ConcatIs
<1> HIDE DEF a, d
<1>6. Open(<<a>>, 2) = {1}
  <2>1. Takes(<<a>>, 1)
    BY <1>2, <1>4 DEF Takes
  <2>2. Open(<<a>>, 1) = {}
    BY DEF Open
  <2>3. Open(<<a>>, 1 + 1) = Open(<<a>>, 1) \cup {1}
    BY <2>1, OpenTake
  <2>4. QED
    BY <2>2, <2>3
<1>7. ASSUME NEW k \in 1 .. m + 1
      PROVE  Open(u, 1 + k) = {1} \cup {1 + j : j \in Open(body, k)}
  <2> DEFINE t == <<a>>
  <2>0. t \in Seq(Steps) /\ Len(t) = 1 /\ Open(t, 2) = {1} /\ t[1] = a /\ u = t \o body
    BY <1>2, <1>6
  <2> HIDE DEF t, u
  <2>1. Open(u, 1 + k) =
          {j \in {1} : \A n \in 1 .. k - 1 : body[n].op = "drop" => body[n].lock # t[j].lock}
          \cup {1 + j : j \in Open(body, k)}
    <3>1. Open(t \o body, Len(t) + k) =
            {j \in Open(t, Len(t) + 1) :
               \A n \in 1 .. k - 1 : body[n].op = "drop" => body[n].lock # t[j].lock}
            \cup {Len(t) + j : j \in Open(body, k)}
      BY <1>3, <2>0, OpenBehind
    <3>2. QED
      BY <2>0, <3>1
  <2>2. ASSUME NEW n \in 1 .. k - 1 PROVE body[n].lock # t[1].lock
    <3>1. n \in 1 .. m
      BY <1>5
    <3>2. Rank[l] + 1 <= Rank[body[n].lock]
      BY <1>3, <1>5, <3>1
    <3>3. Rank[l] \in Nat
      BY LockAssumption
    <3>4. body[n].lock # l
      BY <3>2, <3>3
    <3>5. QED
      BY <1>4, <2>0, <3>4
  <2>3. QED
    BY <2>1, <2>2
<1> HIDE DEF u
<1>8. /\ s \in Seq(Steps) /\ Len(s) = m + 2 /\ DOMAIN s = 1 .. m + 2
      /\ s[1] = a /\ s[m + 2] = d
      /\ \A i \in 1 .. m : s[1 + i] = body[i]
  <2>1. /\ s \in Seq(Steps) /\ Len(s) = Len(u) + 1 /\ DOMAIN s = 1 .. Len(u) + 1
        /\ \A i \in 1 .. Len(u) : s[i] = u[i]
        /\ \A i \in 1 .. 1 : s[Len(u) + i] = <<d>>[i]
    BY <1>2, <1>5, ConcatIs
  <2>2. s[Len(u) + 1] = d
    BY <1>2, <2>1
  <2>3. Len(u) + 1 = m + 2 /\ 1 \in 1 .. Len(u) /\ \A i \in 1 .. m : 1 + i \in 1 .. Len(u)
    BY <1>5
  <2>4. QED
    BY <1>5, <2>1, <2>2, <2>3
<1>9. ASSUME NEW i \in 1 .. m + 2 PROVE Open(s, i) = Open(u, i)
  <2>1. i \in 1 .. Len(u) + 1
    BY <1>5
  <2>2. QED
    BY <1>2, <1>5, <2>1, OpenBefore
<1> HIDE DEF s
<1>10. Rank[l] \in Nat
  BY LockAssumption
<1> DEFINE Good(i) ==
      /\ IF Takes(s, i) THEN \A j \in Open(s, i) : Rank[s[j].lock] < Rank[s[i].lock]
         ELSE \E j \in Open(s, i) : s[j].lock = s[i].lock
      /\ s[i].op = "read" => s[i].lock \in RW
      /\ r <= Rank[s[i].lock]
<1>11. Good(1)
  <2>1. Open(s, 1) = {}
    BY DEF Open
  <2>2. Takes(s, 1)
    BY <1>4, <1>8 DEF Takes
  <2>3. QED
    BY <1>4, <1>8, <2>1, <2>2
<1>12. ASSUME NEW k \in 1 .. m, NEW i, i = 1 + k PROVE Good(i)
  <2>1. s[i] = body[k] /\ k \in DOMAIN body /\ i \in 1 .. m + 2 /\ k \in 1 .. m + 1
        /\ (Takes(s, i) <=> Takes(body, k))
    BY <1>5, <1>8, <1>12 DEF Takes
  <2>2. Open(s, i) = {1} \cup {1 + j : j \in Open(body, k)}
    BY <1>7, <1>9, <1>12, <2>1
  <2>3. \A j \in Open(body, k) : s[1 + j] = body[j]
    <3>1. \A j \in Open(body, k) : j \in 1 .. k - 1
      BY OpenTakes
    <3>2. QED
      BY <1>5, <1>8, <3>1
  <2>4. IF Takes(body, k) THEN \A j \in Open(body, k) : Rank[body[j].lock] < Rank[body[k].lock]
        ELSE \E j \in Open(body, k) : body[j].lock = body[k].lock
    BY <1>3, <2>1 DEF Ordered
  <2>5. Rank[l] + 1 <= Rank[body[k].lock] /\ Rank[body[k].lock] \in Nat
    <3>1. body[k] \in Steps
      BY <1>3, ElementOfSeq
    <3>2. Rank[body[k].lock] \in Nat
      BY <3>1, LockAssumption DEF Steps
    <3>3. QED
      BY <1>3, <2>1, <3>2
  <2>6. r <= Rank[s[i].lock] /\ Rank[l] < Rank[s[i].lock]
    BY <1>10, <2>1, <2>5
  <2>7. s[i].op = "read" => s[i].lock \in RW
    BY <1>3, <2>1 DEF Ordered
  <2>8. CASE Takes(body, k)
    <3>1. \A j \in Open(s, i) : Rank[s[j].lock] < Rank[s[i].lock]
      <4>1. Rank[s[1].lock] < Rank[s[i].lock]
        BY <1>4, <1>8, <2>6
      <4>2. \A j \in Open(body, k) : Rank[s[1 + j].lock] < Rank[s[i].lock]
        BY <2>1, <2>3, <2>4, <2>8
      <4>3. QED
        BY <2>2, <4>1, <4>2
    <3>2. QED
      BY <2>1, <2>6, <2>7, <2>8, <3>1
  <2>9. CASE ~ Takes(body, k)
    <3>1. \E j \in Open(s, i) : s[j].lock = s[i].lock
      BY <2>1, <2>2, <2>3, <2>4, <2>9
    <3>2. QED
      BY <2>1, <2>6, <2>7, <2>9, <3>1
  <2>10. QED
    BY <2>8, <2>9
<1>13. Open(s, m + 2) = {1}
  <2>1. m + 1 \in 1 .. m + 1 /\ 1 + (m + 1) = m + 2 /\ m + 2 \in 1 .. m + 2
    BY <1>5
  <2>2. Open(body, m + 1) = {}
    BY <1>3 DEF Ordered
  <2>3. Open(u, 1 + (m + 1)) = {1} \cup {1 + j : j \in Open(body, m + 1)}
    BY <1>7, <2>1
  <2>4. QED
    BY <1>9, <2>1, <2>2, <2>3
<1>14. Good(m + 2)
  <2>1. ~ Takes(s, m + 2)
    BY <1>4, <1>8 DEF Takes
  <2>2. s[1].lock = s[m + 2].lock
    BY <1>4, <1>8
  <2>3. s[m + 2].op # "read" /\ r <= Rank[s[m + 2].lock]
    BY <1>4, <1>8
  <2>4. QED
    BY <1>13, <2>1, <2>2, <2>3
<1>15. Open(s, Len(s) + 1) = {}
  <2>1. m + 2 \in Nat /\ 1 <= m + 2 /\ s[m + 2].op = "drop"
    BY <1>4, <1>5, <1>8
  <2>2. Open(s, (m + 2) + 1) = {j \in Open(s, m + 2) : s[j].lock # s[m + 2].lock}
    BY <2>1, OpenDrop
  <2>3. s[1].lock = s[m + 2].lock
    BY <1>4, <1>8
  <2>4. QED
    BY <1>8, <1>13, <2>2, <2>3
<1>16. \A i \in DOMAIN s : Good(i)
  <2> TAKE i \in DOMAIN s
  <2>1. i = 1 \/ i = m + 2 \/ \E k \in 1 .. m : i = 1 + k
    <3>1. i \in 1 .. m + 2
      BY <1>8
    <3>2. CASE i # 1 /\ i # m + 2
      <4>1. i - 1 \in 1 .. m /\ i = 1 + (i - 1)
        BY <1>5, <3>1, <3>2
      <4>2. QED
        BY <4>1
    <3>3. QED
      BY <3>2
  <2> HIDE DEF Good
  <2>2. QED
    BY <1>11, <1>12, <1>14, <2>1
<1>17. Ordered(s)
  BY <1>15, <1>16 DEF Ordered
<1>18. From(r, s)
  BY <1>8, <1>16, <1>17 DEF From
<1>19. QED
  BY <1>1, <1>18
-----------------------------------------------------------------------------
(* Steps *)

LEMMA ScopesOwnedNext ==
  ScopesOwned' <=>
    \A t \in Thread : \A j \in Open(prog'[t], at'[t]) :
      IF prog'[t][j].op = "read" THEN readers'[prog'[t][j].lock][t] > 0
      ELSE holder'[prog'[t][j].lock] = t
BY DEF ScopesOwned, Guards, Owns

LEMMA OwnedByGuardNext ==
  OwnedByGuard' <=>
    /\ \A l \in Lock, t \in Thread : holder'[l] = t =>
         \E j \in Open(prog'[t], at'[t]) : prog'[t][j].lock = l /\ prog'[t][j].op = "write"
    /\ \A l \in Lock, t \in Thread : readers'[l][t] > 0 =>
         \E j \in Open(prog'[t], at'[t]) : prog'[t][j].lock = l /\ prog'[t][j].op = "read"
    /\ \A l \in Lock, t \in Thread : readers'[l][t] <= 1
BY DEF OwnedByGuard, Guards

(* The guards of a thread are of locks, and none are left at the end of its *)
(* program.                                                                 *)
LEMMA GuardsAre ==
  ASSUME TypeOK, Disciplined, NEW t \in Thread
  PROVE  /\ \A j \in Guards(t) : prog[t][j].lock \in Lock /\ prog[t][j].op \in {"read", "write"}
         /\ ~ Inside(t) => Guards(t) = {}
<1>1. prog[t] \in Program \cup {<<>>} /\ at[t] \in Nat /\ 1 <= at[t] /\ at[t] <= Len(prog[t]) + 1
  BY DEF TypeOK
<1>2. Len(prog[t]) \in Nat /\ \A j \in 1 .. Len(prog[t]) : prog[t][j] \in Steps
  BY <1>1, ProgramIs
<1>3. \A j \in Guards(t) : j \in 1 .. Len(prog[t])
  BY <1>1, <1>2, OpenTakes DEF Guards
<1>4. ASSUME NEW j \in Guards(t)
      PROVE  prog[t][j].lock \in Lock /\ prog[t][j].op \in {"read", "write"}
  BY <1>2, <1>3, <1>4, OpenTakes DEF Steps, Guards
<1>5. ASSUME ~ Inside(t) PROVE Guards(t) = {}
  <2>1. at[t] = Len(prog[t]) + 1
    BY <1>1, <1>2, <1>5 DEF Inside
  <2>2. CASE prog[t] \in Program
    BY <2>1, <2>2 DEF Disciplined, Ordered, Guards
  <2>3. CASE prog[t] = <<>>
    <3>1. Len(prog[t]) = 0
      BY <2>3
    <3>2. QED
      BY <1>3, <3>1
  <2>4. QED
    BY <1>1, <2>2, <2>3
<1>6. QED
  BY <1>4, <1>5

(* A thread that asks for a lock does not have it: those it has come before *)
(* it in the order.                                                         *)
LEMMA Fresh ==
  ASSUME Inv, Disciplined, NEW t \in Thread, Inside(t), Step(t).op \in {"read", "write"}
  PROVE  /\ \A j \in Guards(t) : Rank[prog[t][j].lock] < Rank[Step(t).lock]
         /\ \A j \in Guards(t) : prog[t][j].lock # Step(t).lock
         /\ holder[Step(t).lock] # t /\ readers[Step(t).lock][t] = 0
         /\ ~ Again(t, Step(t).lock)
<1> DEFINE l == Step(t).lock
<1>1. /\ at[t] \in DOMAIN prog[t] /\ prog[t] \in Program /\ Step(t) = prog[t][at[t]]
      /\ l \in Lock
  BY StepIs DEF Inv
<1>2. \A j \in Guards(t) : Rank[prog[t][j].lock] < Rank[l]
  BY <1>1 DEF Disciplined, Ordered, Takes, Guards
<1>3. Rank[l] \in Nat
  BY <1>1, LockAssumption
<1>4. \A j \in Guards(t) : prog[t][j].lock # l
  BY <1>2, <1>3
<1>5. holder[l] # t /\ ~ (readers[l][t] > 0)
  BY <1>1, <1>4 DEF Inv, OwnedByGuard
<1>6. readers[l][t] \in Nat
  BY <1>1 DEF Inv, TypeOK
<1>7. QED
  BY <1>2, <1>4, <1>5, <1>6 DEF Again

(* What Advance does to the guards.                                         *)
LEMMA Advanced ==
  ASSUME TypeOK, NEW t \in Thread, NEW op, Advance(t, op)
  PROVE  /\ Inside(t) /\ Step(t).op = op
         /\ prog' = prog
         /\ at'[t] = at[t] + 1
         /\ \A u \in Thread : u # t => at'[u] = at[u]
         /\ at' \in [Thread -> Nat]
         /\ \A u \in Thread : 1 <= at'[u] /\ at'[u] <= Len(prog'[u]) + 1
<1>1. Inside(t) /\ Step(t).op = op /\ prog' = prog /\ at' = [at EXCEPT ![t] = @ + 1]
  BY DEF Advance
<1>2. at \in [Thread -> Nat] /\ \A u \in Thread : 1 <= at[u] /\ at[u] <= Len(prog[u]) + 1
  BY DEF TypeOK
<1>3. at[t] \in DOMAIN prog[t] /\ at[t] \in Nat /\ prog[t] \in Program
  BY <1>1, StepIs
<1>4. Len(prog[t]) \in Nat
  BY <1>3, ProgramIs
<1>5. at'[t] = at[t] + 1 /\ \A u \in Thread : u # t => at'[u] = at[u]
  BY <1>1, <1>2
<1>6. at' \in [Thread -> Nat]
  BY <1>1, <1>2
<1>7. at[t] <= Len(prog[t])
  BY <1>1 DEF Inside
<1>8. \A u \in Thread : 1 <= at'[u] /\ at'[u] <= Len(prog[u]) + 1
  BY <1>2, <1>4, <1>5, <1>7
<1>9. QED
  BY <1>1, <1>5, <1>6, <1>8

LEMMA ReadKeeps ==
  ASSUME Inv, Disciplined, NEW t \in Thread, Read(t)
  PROVE  Inv'
<1> DEFINE l == Step(t).lock
           i == at[t]
<1>1. /\ Inside(t) /\ Step(t).op = "read" /\ prog' = prog /\ at'[t] = at[t] + 1
      /\ \A u \in Thread : u # t => at'[u] = at[u]
      /\ at' \in [Thread -> Nat]
      /\ \A u \in Thread : 1 <= at'[u] /\ at'[u] <= Len(prog'[u]) + 1
  BY Advanced DEF Read, Inv
<1>2. i \in Nat /\ 1 <= i /\ Step(t) = prog[t][i] /\ l \in Lock /\ prog[t] \in Program
  BY <1>1, StepIs DEF Inv, TypeOK
<1>3. /\ \A j \in Guards(t) : prog[t][j].lock # l
      /\ readers[l][t] = 0 /\ ~ Again(t, l)
  BY <1>1, Fresh
<1>4. readers' = [readers EXCEPT ![l][t] = @ + 1] /\ holder' = holder
  BY <1>3 DEF Read
<1>5. readers \in [Lock -> [Thread -> Nat]]
  BY DEF Inv, TypeOK
<1>6. /\ readers' \in [Lock -> [Thread -> Nat]]
      /\ readers'[l][t] = 1
      /\ \A m \in Lock, u \in Thread : m # l \/ u # t => readers'[m][u] = readers[m][u]
  <2> DEFINE row == [readers[l] EXCEPT ![t] = 1]
  <2>1. row \in [Thread -> Nat] /\ row[t] = 1 /\ \A u \in Thread : u # t => row[u] = readers[l][u]
    BY <1>2, <1>5
  <2>2. readers' = [readers EXCEPT ![l] = row]
    BY <1>2, <1>3, <1>4, <1>5
  <2> HIDE DEF row
  <2>3. readers'[l] = row /\ \A m \in Lock : m # l => readers'[m] = readers[m]
    BY <1>2, <1>5, <2>2
  <2>4. QED
    BY <1>2, <1>5, <2>1, <2>2, <2>3
<1>7. Open(prog'[t], at'[t]) = Guards(t) \cup {i}
  <2>1. Takes(prog[t], i)
    BY <1>1, <1>2 DEF Takes
  <2>2. Open(prog[t], i + 1) = Open(prog[t], i) \cup {i}
    BY <1>2, <2>1, OpenTake
  <2>3. QED
    BY <1>1, <2>2 DEF Guards
<1>8. \A u \in Thread : u # t => Open(prog'[u], at'[u]) = Guards(u)
  BY <1>1 DEF Guards
<1>9. \A u \in Thread : \A j \in Guards(u) :
        prog[u][j].lock \in Lock /\ prog[u][j].op \in {"read", "write"}
  BY GuardsAre DEF Inv
<1>10. \A u \in Thread : \A j \in Guards(u) :
         IF prog[u][j].op = "read" THEN readers[prog[u][j].lock][u] > 0
         ELSE holder[prog[u][j].lock] = u
  BY DEF Inv, ScopesOwned, Owns, Guards
<1> HIDE DEF l, i
<1>11. TypeOK'
  BY <1>1, <1>4, <1>6 DEF Inv, TypeOK
<1>12. ScopesOwned'
  <2> SUFFICES ASSUME NEW u \in Thread, NEW j \in Open(prog'[u], at'[u])
               PROVE  IF prog'[u][j].op = "read" THEN readers'[prog'[u][j].lock][u] > 0
                      ELSE holder'[prog'[u][j].lock] = u
    BY ScopesOwnedNext
  <2>1. CASE j \in Guards(u)
    BY <1>1, <1>3, <1>4, <1>6, <1>9, <1>10, <2>1
  <2>2. CASE u = t /\ j = i
    BY <1>1, <1>2, <1>6, <2>2 DEF l
  <2>3. QED
    BY <1>7, <1>8, <2>1, <2>2
<1>13. OwnedByGuard'
  <2>1. ASSUME NEW m \in Lock, NEW u \in Thread, holder'[m] = u
        PROVE  \E j \in Open(prog'[u], at'[u]) : prog'[u][j].lock = m /\ prog'[u][j].op = "write"
    BY <1>1, <1>4, <1>7, <1>8, <2>1 DEF Inv, OwnedByGuard
  <2>2. ASSUME NEW m \in Lock, NEW u \in Thread, readers'[m][u] > 0
        PROVE  \E j \in Open(prog'[u], at'[u]) : prog'[u][j].lock = m /\ prog'[u][j].op = "read"
    <3>1. CASE m = l /\ u = t
      BY <1>1, <1>2, <1>7, <3>1 DEF l
    <3>2. CASE m # l \/ u # t
      <4>1. readers[m][u] > 0
        BY <1>6, <2>2, <3>2
      <4>2. PICK j \in Guards(u) : prog[u][j].lock = m /\ prog[u][j].op = "read"
        BY <4>1 DEF Inv, OwnedByGuard
      <4>3. j \in Open(prog'[u], at'[u])
        BY <1>7, <1>8, <4>2
      <4>4. QED
        BY <1>1, <4>2, <4>3
    <3>3. QED
      BY <3>1, <3>2
  <2>3. \A m \in Lock, u \in Thread : readers'[m][u] <= 1
    BY <1>6 DEF Inv, OwnedByGuard
  <2>4. QED
    BY <2>1, <2>2, <2>3, OwnedByGuardNext
<1>14. QED
  BY <1>11, <1>12, <1>13 DEF Inv
LEMMA WriteKeeps ==
  ASSUME Inv, Disciplined, NEW t \in Thread, Write(t)
  PROVE  Inv'
<1> DEFINE l == Step(t).lock
           i == at[t]
<1>1. /\ Inside(t) /\ Step(t).op = "write" /\ prog' = prog /\ at'[t] = at[t] + 1
      /\ \A u \in Thread : u # t => at'[u] = at[u]
      /\ at' \in [Thread -> Nat]
      /\ \A u \in Thread : 1 <= at'[u] /\ at'[u] <= Len(prog'[u]) + 1
  BY Advanced DEF Write, Inv
<1>2. i \in Nat /\ 1 <= i /\ Step(t) = prog[t][i] /\ l \in Lock /\ prog[t] \in Program
  BY <1>1, StepIs DEF Inv, TypeOK
<1>3. /\ \A j \in Guards(t) : prog[t][j].lock # l
      /\ ~ Again(t, l)
  BY <1>1, Fresh
<1>4. /\ readers' = readers /\ holder' = [holder EXCEPT ![l] = t]
      /\ holder[l] = NoThread /\ \A u \in Thread : readers[l][u] = 0
  BY <1>3 DEF Write, CanWrite
<1>5. holder \in [Lock -> Thread \cup {NoThread}] /\ NoThread \notin Thread
  BY LockAssumption DEF Inv, TypeOK
<1>6. /\ holder' \in [Lock -> Thread \cup {NoThread}]
      /\ holder'[l] = t
      /\ \A m \in Lock : m # l => holder'[m] = holder[m]
  BY <1>2, <1>4, <1>5
<1>7. Open(prog'[t], at'[t]) = Guards(t) \cup {i}
  <2>1. Takes(prog[t], i)
    BY <1>1, <1>2 DEF Takes
  <2>2. Open(prog[t], i + 1) = Open(prog[t], i) \cup {i}
    BY <1>2, <2>1, OpenTake
  <2>3. QED
    BY <1>1, <2>2 DEF Guards
<1>8. \A u \in Thread : u # t => Open(prog'[u], at'[u]) = Guards(u)
  BY <1>1 DEF Guards
<1>9. \A u \in Thread : \A j \in Guards(u) :
        prog[u][j].lock \in Lock /\ prog[u][j].op \in {"read", "write"}
  BY GuardsAre DEF Inv
<1>10. \A u \in Thread : \A j \in Guards(u) :
         IF prog[u][j].op = "read" THEN readers[prog[u][j].lock][u] > 0
         ELSE holder[prog[u][j].lock] = u
  BY DEF Inv, ScopesOwned, Owns, Guards
<1> HIDE DEF l, i
<1>11. TypeOK'
  BY <1>1, <1>4, <1>6 DEF Inv, TypeOK
<1>12. ScopesOwned'
  <2> SUFFICES ASSUME NEW u \in Thread, NEW j \in Open(prog'[u], at'[u])
               PROVE  IF prog'[u][j].op = "read" THEN readers'[prog'[u][j].lock][u] > 0
                      ELSE holder'[prog'[u][j].lock] = u
    BY ScopesOwnedNext
  <2>1. CASE j \in Guards(u)
    BY <1>1, <1>4, <1>5, <1>6, <1>9, <1>10, <2>1
  <2>2. CASE u = t /\ j = i
    BY <1>1, <1>2, <1>6, <2>2 DEF l
  <2>3. QED
    BY <1>7, <1>8, <2>1, <2>2
<1>13. OwnedByGuard'
  <2>1. ASSUME NEW m \in Lock, NEW u \in Thread, holder'[m] = u
        PROVE  \E j \in Open(prog'[u], at'[u]) : prog'[u][j].lock = m /\ prog'[u][j].op = "write"
    <3>1. CASE m = l
      <4>1. u = t
        BY <1>6, <2>1, <3>1
      <4>2. i \in Open(prog'[u], at'[u])
        BY <1>7, <4>1
      <4>3. prog'[u][i].lock = m /\ prog'[u][i].op = "write"
        BY <1>1, <1>2, <3>1, <4>1 DEF l
      <4>4. QED
        BY <4>2, <4>3
    <3>2. CASE m # l
      <4>1. PICK j \in Guards(u) : prog[u][j].lock = m /\ prog[u][j].op = "write"
        BY <1>6, <2>1, <3>2 DEF Inv, OwnedByGuard
      <4>2. j \in Open(prog'[u], at'[u])
        BY <1>7, <1>8, <4>1
      <4>3. QED
        BY <1>1, <4>1, <4>2
    <3>3. QED
      BY <3>1, <3>2
  <2>2. ASSUME NEW m \in Lock, NEW u \in Thread, readers'[m][u] > 0
        PROVE  \E j \in Open(prog'[u], at'[u]) : prog'[u][j].lock = m /\ prog'[u][j].op = "read"
    <3>1. PICK j \in Guards(u) : prog[u][j].lock = m /\ prog[u][j].op = "read"
      BY <1>4, <2>2 DEF Inv, OwnedByGuard
    <3>2. j \in Open(prog'[u], at'[u])
      BY <1>7, <1>8, <3>1
    <3>3. QED
      BY <1>1, <3>1, <3>2
  <2>3. \A m \in Lock, u \in Thread : readers'[m][u] <= 1
    BY <1>4 DEF Inv, OwnedByGuard
  <2>4. QED
    BY <2>1, <2>2, <2>3, OwnedByGuardNext
<1>14. QED
  BY <1>11, <1>12, <1>13 DEF Inv

(* A thread that drops a lock has it, in the mode of the one guard of it.   *)
LEMMA Dropped ==
  ASSUME Inv, Disciplined, NEW t \in Thread, Inside(t), Step(t).op = "drop"
  PROVE  \E g \in Guards(t) :
           /\ prog[t][g].lock = Step(t).lock
           /\ prog[t][g].op = "read" => Step(t).lock \in RW
           /\ Owns(t, prog[t][g])
           /\ \A j \in Guards(t) : prog[t][j].lock = Step(t).lock => j = g
<1>1. /\ at[t] \in DOMAIN prog[t] /\ prog[t] \in Program /\ Step(t) = prog[t][at[t]]
      /\ at[t] \in Nat
  BY StepIs DEF Inv
<1>2. Len(prog[t]) \in Nat /\ DOMAIN prog[t] = 1 .. Len(prog[t])
  BY <1>1, ProgramIs
<1>3. Ordered(prog[t])
  BY <1>1 DEF Disciplined
<1>4. PICK g \in Guards(t) : prog[t][g].lock = Step(t).lock
  BY <1>1, <1>3 DEF Ordered, Takes, Guards
<1>5. g \in 1 .. at[t] - 1
  BY OpenTakes DEF Guards
<1>6. g \in DOMAIN prog[t]
  BY <1>1, <1>2, <1>5
<1>7. prog[t][g].op = "read" => Step(t).lock \in RW
  BY <1>3, <1>4, <1>6 DEF Ordered
<1>8. Owns(t, prog[t][g])
  BY DEF Inv, ScopesOwned, Guards
<1>9. at[t] <= Len(prog[t]) + 1
  BY <1>1, <1>2
<1>10. \A j \in Guards(t) : prog[t][j].lock = Step(t).lock => j = g
  BY <1>1, <1>3, <1>4, <1>9, OneGuard DEF Guards
<1>11. QED
  BY <1>4, <1>7, <1>8, <1>10

LEMMA DropAloneKeeps ==
  ASSUME Inv, Disciplined, NEW t \in Thread, DropAlone(t)
  PROVE  Inv'
<1> DEFINE l == Step(t).lock
           i == at[t]
<1>1. /\ Inside(t) /\ Step(t).op = "drop" /\ prog' = prog /\ at'[t] = at[t] + 1
      /\ \A u \in Thread : u # t => at'[u] = at[u]
      /\ at' \in [Thread -> Nat]
      /\ \A u \in Thread : 1 <= at'[u] /\ at'[u] <= Len(prog'[u]) + 1
  BY Advanced DEF DropAlone, Inv
<1>2. i \in Nat /\ 1 <= i /\ Step(t) = prog[t][i] /\ l \in Lock /\ prog[t] \in Program
  BY <1>1, StepIs DEF Inv, TypeOK
<1>3. PICK g \in Guards(t) :
        /\ prog[t][g].lock = l
        /\ prog[t][g].op = "read" => l \in RW
        /\ Owns(t, prog[t][g])
        /\ \A j \in Guards(t) : prog[t][j].lock = l => j = g
  BY <1>1, Dropped
<1>4. readers' = readers /\ holder' = [holder EXCEPT ![l] = NoThread]
      /\ (holder[l] = t \/ l \notin RW)
  BY DEF DropAlone
<1>5. holder \in [Lock -> Thread \cup {NoThread}] /\ NoThread \notin Thread
  BY LockAssumption DEF Inv, TypeOK
<1>6. /\ holder' \in [Lock -> Thread \cup {NoThread}]
      /\ holder'[l] = NoThread
      /\ \A m \in Lock : m # l => holder'[m] = holder[m]
  BY <1>2, <1>4, <1>5
<1>7. holder[l] = t
  BY <1>3, <1>4 DEF Owns
<1>8. prog[t][g].op = "write"
  <2>1. PICK j \in Guards(t) : prog[t][j].lock = l /\ prog[t][j].op = "write"
    BY <1>2, <1>7 DEF Inv, OwnedByGuard
  <2>2. QED
    BY <1>3, <2>1
<1>9. Open(prog'[t], at'[t]) = {j \in Guards(t) : prog[t][j].lock # l}
  <2>1. Open(prog[t], i + 1) = {j \in Open(prog[t], i) : prog[t][j].lock # prog[t][i].lock}
    BY <1>1, <1>2, OpenDrop
  <2>2. QED
    BY <1>1, <1>2, <2>1 DEF Guards
<1>10. \A u \in Thread : u # t => Open(prog'[u], at'[u]) = Guards(u)
  BY <1>1 DEF Guards
<1>11. \A u \in Thread : \A j \in Guards(u) :
        prog[u][j].lock \in Lock /\ prog[u][j].op \in {"read", "write"}
  BY GuardsAre DEF Inv
<1>12. \A u \in Thread : \A j \in Guards(u) :
         IF prog[u][j].op = "read" THEN readers[prog[u][j].lock][u] > 0
         ELSE holder[prog[u][j].lock] = u
  BY DEF Inv, ScopesOwned, Owns, Guards
<1> HIDE DEF l, i
<1>13. TypeOK'
  BY <1>1, <1>4, <1>6 DEF Inv, TypeOK
<1>14. ScopesOwned'
  <2> SUFFICES ASSUME NEW u \in Thread, NEW j \in Open(prog'[u], at'[u])
               PROVE  IF prog'[u][j].op = "read" THEN readers'[prog'[u][j].lock][u] > 0
                      ELSE holder'[prog'[u][j].lock] = u
    BY ScopesOwnedNext
  <2>1. j \in Guards(u) /\ (u = t => prog[u][j].lock # l)
    BY <1>9, <1>10
  <2>2. QED
    BY <1>1, <1>4, <1>6, <1>7, <1>11, <1>12, <2>1
<1>15. OwnedByGuard'
  <2>1. ASSUME NEW m \in Lock, NEW u \in Thread, holder'[m] = u
        PROVE  \E j \in Open(prog'[u], at'[u]) : prog'[u][j].lock = m /\ prog'[u][j].op = "write"
    <3>1. m # l
      BY <1>5, <1>6, <2>1
    <3>2. PICK j \in Guards(u) : prog[u][j].lock = m /\ prog[u][j].op = "write"
      BY <1>6, <2>1, <3>1 DEF Inv, OwnedByGuard
    <3>3. j \in Open(prog'[u], at'[u])
      BY <1>9, <1>10, <3>1, <3>2
    <3>4. QED
      BY <1>1, <3>2, <3>3
  <2>2. ASSUME NEW m \in Lock, NEW u \in Thread, readers'[m][u] > 0
        PROVE  \E j \in Open(prog'[u], at'[u]) : prog'[u][j].lock = m /\ prog'[u][j].op = "read"
    <3>1. PICK j \in Guards(u) : prog[u][j].lock = m /\ prog[u][j].op = "read"
      BY <1>4, <2>2 DEF Inv, OwnedByGuard
    <3>2. u = t => m # l
      BY <1>3, <1>8, <3>1
    <3>3. j \in Open(prog'[u], at'[u])
      BY <1>9, <1>10, <3>1, <3>2
    <3>4. QED
      BY <1>1, <3>1, <3>3
  <2>3. \A m \in Lock, u \in Thread : readers'[m][u] <= 1
    BY <1>4 DEF Inv, OwnedByGuard
  <2>4. QED
    BY <2>1, <2>2, <2>3, OwnedByGuardNext
<1>16. QED
  BY <1>13, <1>14, <1>15 DEF Inv

LEMMA DropShareKeeps ==
  ASSUME Inv, Disciplined, NEW t \in Thread, DropShare(t)
  PROVE  Inv'
<1> DEFINE l == Step(t).lock
           i == at[t]
<1>1. /\ Inside(t) /\ Step(t).op = "drop" /\ prog' = prog /\ at'[t] = at[t] + 1
      /\ \A u \in Thread : u # t => at'[u] = at[u]
      /\ at' \in [Thread -> Nat]
      /\ \A u \in Thread : 1 <= at'[u] /\ at'[u] <= Len(prog'[u]) + 1
  BY Advanced DEF DropShare, Inv
<1>2. i \in Nat /\ 1 <= i /\ Step(t) = prog[t][i] /\ l \in Lock /\ prog[t] \in Program
  BY <1>1, StepIs DEF Inv, TypeOK
<1>3. PICK g \in Guards(t) :
        /\ prog[t][g].lock = l
        /\ Owns(t, prog[t][g])
        /\ \A j \in Guards(t) : prog[t][j].lock = l => j = g
  BY <1>1, Dropped
<1>4. /\ readers' = [readers EXCEPT ![l][t] = IF @ = 0 THEN 0 ELSE @ - 1] /\ holder' = holder
      /\ holder[l] # t
  BY DEF DropShare
<1>5. readers \in [Lock -> [Thread -> Nat]]
  BY DEF Inv, TypeOK
<1>6. prog[t][g].op = "read" /\ readers[l][t] > 0
  BY <1>3, <1>4 DEF Owns
<1>7. readers[l][t] = 1
  <2>1. readers[l][t] \in Nat /\ readers[l][t] <= 1
    BY <1>2, <1>5 DEF Inv, OwnedByGuard
  <2>2. QED
    BY <1>6, <2>1
<1>8. /\ readers' \in [Lock -> [Thread -> Nat]]
      /\ readers'[l][t] = 0
      /\ \A m \in Lock, u \in Thread : m # l \/ u # t => readers'[m][u] = readers[m][u]
  <2> DEFINE row == [readers[l] EXCEPT ![t] = 0]
  <2>1. row \in [Thread -> Nat] /\ row[t] = 0 /\ \A u \in Thread : u # t => row[u] = readers[l][u]
    BY <1>2, <1>5
  <2>2. readers' = [readers EXCEPT ![l] = row]
    BY <1>2, <1>4, <1>5, <1>7
  <2> HIDE DEF row
  <2>3. readers'[l] = row /\ \A m \in Lock : m # l => readers'[m] = readers[m]
    BY <1>2, <1>5, <2>2
  <2>4. QED
    BY <1>2, <1>5, <2>1, <2>2, <2>3
<1>9. Open(prog'[t], at'[t]) = {j \in Guards(t) : prog[t][j].lock # l}
  <2>1. Open(prog[t], i + 1) = {j \in Open(prog[t], i) : prog[t][j].lock # prog[t][i].lock}
    BY <1>1, <1>2, OpenDrop
  <2>2. QED
    BY <1>1, <1>2, <2>1 DEF Guards
<1>10. \A u \in Thread : u # t => Open(prog'[u], at'[u]) = Guards(u)
  BY <1>1 DEF Guards
<1>11. \A u \in Thread : \A j \in Guards(u) :
        prog[u][j].lock \in Lock /\ prog[u][j].op \in {"read", "write"}
  BY GuardsAre DEF Inv
<1>12. \A u \in Thread : \A j \in Guards(u) :
         IF prog[u][j].op = "read" THEN readers[prog[u][j].lock][u] > 0
         ELSE holder[prog[u][j].lock] = u
  BY DEF Inv, ScopesOwned, Owns, Guards
<1> HIDE DEF l, i
<1>13. TypeOK'
  BY <1>1, <1>4, <1>8 DEF Inv, TypeOK
<1>14. ScopesOwned'
  <2> SUFFICES ASSUME NEW u \in Thread, NEW j \in Open(prog'[u], at'[u])
               PROVE  IF prog'[u][j].op = "read" THEN readers'[prog'[u][j].lock][u] > 0
                      ELSE holder'[prog'[u][j].lock] = u
    BY ScopesOwnedNext
  <2>1. j \in Guards(u) /\ (u = t => prog[u][j].lock # l)
    BY <1>9, <1>10
  <2>2. QED
    BY <1>1, <1>4, <1>8, <1>11, <1>12, <2>1
<1>15. OwnedByGuard'
  <2>1. ASSUME NEW m \in Lock, NEW u \in Thread, holder'[m] = u
        PROVE  \E j \in Open(prog'[u], at'[u]) : prog'[u][j].lock = m /\ prog'[u][j].op = "write"
    <3>1. PICK j \in Guards(u) : prog[u][j].lock = m /\ prog[u][j].op = "write"
      BY <1>4, <2>1 DEF Inv, OwnedByGuard
    <3>2. u = t => m # l
      BY <1>4, <2>1
    <3>3. j \in Open(prog'[u], at'[u])
      BY <1>9, <1>10, <3>1, <3>2
    <3>4. QED
      BY <1>1, <3>1, <3>3
  <2>2. ASSUME NEW m \in Lock, NEW u \in Thread, readers'[m][u] > 0
        PROVE  \E j \in Open(prog'[u], at'[u]) : prog'[u][j].lock = m /\ prog'[u][j].op = "read"
    <3>1. m # l \/ u # t
      BY <1>8, <2>2
    <3>2. readers[m][u] > 0
      BY <1>8, <2>2, <3>1
    <3>3. PICK j \in Guards(u) : prog[u][j].lock = m /\ prog[u][j].op = "read"
      BY <3>2 DEF Inv, OwnedByGuard
    <3>4. j \in Open(prog'[u], at'[u])
      BY <1>9, <1>10, <3>1, <3>3
    <3>5. QED
      BY <1>1, <3>3, <3>4
  <2>3. ASSUME NEW m \in Lock, NEW u \in Thread PROVE readers'[m][u] <= 1
    <3>1. CASE m = l /\ u = t
      BY <1>8, <3>1
    <3>2. CASE m # l \/ u # t
      BY <1>8, <3>2 DEF Inv, OwnedByGuard
    <3>3. QED
      BY <3>1, <3>2
  <2>4. QED
    BY <2>1, <2>2, <2>3, OwnedByGuardNext
<1>16. QED
  BY <1>13, <1>14, <1>15 DEF Inv
LEMMA StartKeeps ==
  ASSUME Inv, Disciplined, NEW t \in Thread, Start(t)
  PROVE  Inv'
<1>1. PICK p \in Program : prog' = [prog EXCEPT ![t] = p]
  BY DEF Start
<1>2. at' = [at EXCEPT ![t] = 1] /\ holder' = holder /\ readers' = readers /\ ~ Inside(t)
  BY DEF Start
<1>3. /\ prog \in [Thread -> Program \cup {<<>>}] /\ at \in [Thread -> Nat]
      /\ \A u \in Thread : 1 <= at[u] /\ at[u] <= Len(prog[u]) + 1
  BY DEF Inv, TypeOK
<1>4. /\ prog' \in [Thread -> Program \cup {<<>>}] /\ at' \in [Thread -> Nat]
      /\ prog'[t] = p /\ at'[t] = 1
      /\ \A u \in Thread : u # t => prog'[u] = prog[u] /\ at'[u] = at[u]
  BY <1>1, <1>2, <1>3
<1>5. Len(p) \in Nat
  BY ProgramIs
<1>6. ASSUME NEW u \in Thread PROVE 1 <= at'[u] /\ at'[u] <= Len(prog'[u]) + 1
  <2>1. CASE u = t
    BY <1>4, <1>5, <2>1
  <2>2. CASE u # t
    BY <1>3, <1>4, <2>2
  <2>3. QED
    BY <2>1, <2>2
<1>7. TypeOK'
  BY <1>2, <1>4, <1>6 DEF Inv, TypeOK
<1>8. Guards(t) = {}
  BY <1>2, GuardsAre DEF Inv
<1>9. Open(prog'[t], at'[t]) = {}
  BY <1>4 DEF Open
<1>10. \A u \in Thread : u # t => Open(prog'[u], at'[u]) = Guards(u)
  BY <1>4 DEF Guards
<1>11. \A u \in Thread : \A j \in Guards(u) :
         IF prog[u][j].op = "read" THEN readers[prog[u][j].lock][u] > 0
         ELSE holder[prog[u][j].lock] = u
  BY DEF Inv, ScopesOwned, Owns, Guards
<1>12. ScopesOwned'
  BY <1>2, <1>4, <1>9, <1>10, <1>11, ScopesOwnedNext
<1>13. OwnedByGuard'
  <2>1. ASSUME NEW m \in Lock, NEW u \in Thread, holder'[m] = u
        PROVE  \E j \in Open(prog'[u], at'[u]) : prog'[u][j].lock = m /\ prog'[u][j].op = "write"
    <3>1. PICK j \in Guards(u) : prog[u][j].lock = m /\ prog[u][j].op = "write"
      BY <1>2, <2>1 DEF Inv, OwnedByGuard
    <3>2. u # t
      BY <1>8, <3>1
    <3>3. QED
      BY <1>4, <1>10, <3>1, <3>2
  <2>2. ASSUME NEW m \in Lock, NEW u \in Thread, readers'[m][u] > 0
        PROVE  \E j \in Open(prog'[u], at'[u]) : prog'[u][j].lock = m /\ prog'[u][j].op = "read"
    <3>1. PICK j \in Guards(u) : prog[u][j].lock = m /\ prog[u][j].op = "read"
      BY <1>2, <2>2 DEF Inv, OwnedByGuard
    <3>2. u # t
      BY <1>8, <3>1
    <3>3. QED
      BY <1>4, <1>10, <3>1, <3>2
  <2>3. \A m \in Lock, u \in Thread : readers'[m][u] <= 1
    BY <1>2 DEF Inv, OwnedByGuard
  <2>4. QED
    BY <2>1, <2>2, <2>3, OwnedByGuardNext
<1>14. QED
  BY <1>7, <1>12, <1>13 DEF Inv

LEMMA Initially == Init => Inv
<1> SUFFICES ASSUME Init PROVE Inv
  OBVIOUS
<1>1. /\ \A t \in Thread : prog[t] = <<>> /\ at[t] = 1
      /\ \A l \in Lock : holder[l] = NoThread
      /\ \A l \in Lock, t \in Thread : readers[l][t] = 0
  BY DEF Init
<1>2. Len(<<>>) = 0
  OBVIOUS
<1>3. TypeOK
  <2>1. prog \in [Thread -> Program \cup {<<>>}] /\ at \in [Thread -> Nat]
    BY DEF Init
  <2>2. holder \in [Lock -> Thread \cup {NoThread}] /\ readers \in [Lock -> [Thread -> Nat]]
    BY DEF Init
  <2>3. ASSUME NEW t \in Thread PROVE 1 <= at[t] /\ at[t] <= Len(prog[t]) + 1
    <3>1. at[t] = 1 /\ Len(prog[t]) = 0
      BY <1>1, <1>2
    <3>2. QED
      BY <3>1
  <2>4. QED
    BY <2>1, <2>2, <2>3 DEF TypeOK
<1>4. \A t \in Thread : Open(prog[t], at[t]) = {}
  <2>1. 1 .. 1 - 1 = {}
    OBVIOUS
  <2>2. QED
    BY <1>1, <2>1 DEF Open
<1>5. ScopesOwned
  BY <1>4 DEF ScopesOwned, Guards
<1>6. OwnedByGuard
  BY <1>1, LockAssumption DEF OwnedByGuard
<1>7. QED
  BY <1>3, <1>5, <1>6 DEF Inv

LEMMA StepKeeps ==
  ASSUME Inv, Disciplined, [Next]_vars
  PROVE  Inv'
<1>1. ASSUME NEW t \in Thread, Start(t) PROVE Inv'
  BY <1>1, StartKeeps
<1>2. ASSUME NEW t \in Thread, Move(t) PROVE Inv'
  BY <1>2, ReadKeeps, WriteKeeps, DropAloneKeeps, DropShareKeeps DEF Move
<1>3. CASE UNCHANGED vars
  BY <1>3 DEF Inv, TypeOK, ScopesOwned, OwnedByGuard, Guards, Owns
<1>4. QED
  BY <1>1, <1>2, <1>3 DEF Next
-----------------------------------------------------------------------------
(* Exclusion *)

(* A lock that somebody holds alone, nobody reads. *)
Alone == \A l \in Lock : holder[l] # NoThread => \A u \in Thread : readers[l][u] = 0

LEMMA StepAlone ==
  ASSUME Inv, Alone, [Next]_vars
  PROVE  Alone'
<1> SUFFICES ASSUME NEW l \in Lock, holder'[l] # NoThread, NEW u \in Thread
             PROVE  readers'[l][u] = 0
  BY DEF Alone
<1>1. holder[l] # NoThread => readers[l][u] = 0
  BY DEF Alone
<1>2. /\ holder \in [Lock -> Thread \cup {NoThread}] /\ readers \in [Lock -> [Thread -> Nat]]
      /\ readers[l] \in [Thread -> Nat] /\ readers[l][u] \in Nat
  BY DEF Inv, TypeOK
<1>3. ASSUME NEW t \in Thread, Start(t) PROVE readers'[l][u] = 0
  BY <1>1, <1>3 DEF Start
<1>4. ASSUME NEW t \in Thread, Read(t) PROVE readers'[l][u] = 0
  <2> DEFINE m == Step(t).lock
  <2>1. holder' = holder /\ CanRead(t, m)
        /\ readers' = IF Again(t, m) THEN readers ELSE [readers EXCEPT ![m][t] = @ + 1]
    BY <1>4 DEF Read
  <2>2. CASE Again(t, m) \/ l # m
    BY <1>1, <1>2, <2>1, <2>2
  <2>3. CASE ~ Again(t, m) /\ l = m
    BY <2>1, <2>3 DEF CanRead
  <2>4. QED
    BY <2>2, <2>3
<1>5. ASSUME NEW t \in Thread, Write(t) PROVE readers'[l][u] = 0
  <2> DEFINE m == Step(t).lock
  <2>1. readers' = readers /\ CanWrite(t, m) /\ holder' = [holder EXCEPT ![m] = t]
    BY <1>5 DEF Write
  <2>2. CASE l # m
    BY <1>1, <1>2, <2>1, <2>2
  <2>3. CASE l = m
    <3>1. Again(t, m) => holder[l] # NoThread
      BY <2>3, LockAssumption DEF Again
    <3>2. QED
      BY <1>1, <2>1, <2>3, <3>1 DEF CanWrite
  <2>4. QED
    BY <2>2, <2>3
<1>6. ASSUME NEW t \in Thread, DropAlone(t) PROVE readers'[l][u] = 0
  <2>1. readers' = readers /\ holder' = [holder EXCEPT ![Step(t).lock] = NoThread]
    BY <1>6 DEF DropAlone
  <2>2. holder'[l] = holder[l]
    BY <1>2, <2>1
  <2>3. QED
    BY <1>1, <2>1, <2>2
<1>7. ASSUME NEW t \in Thread, DropShare(t) PROVE readers'[l][u] = 0
  <2> DEFINE m == Step(t).lock
  <2>1. holder' = holder /\ readers' = [readers EXCEPT ![m][t] = IF @ = 0 THEN 0 ELSE @ - 1]
    BY <1>7 DEF DropShare
  <2>2. readers[l][u] = 0
    BY <1>1, <2>1
  <2>3. CASE l = m /\ u = t
    BY <1>2, <2>1, <2>2, <2>3
  <2>4. CASE ~ (l = m /\ u = t)
    BY <1>2, <2>1, <2>2, <2>4
  <2>5. QED
    BY <2>3, <2>4
<1>8. CASE UNCHANGED vars
  BY <1>1, <1>8
<1>9. QED
  BY <1>3, <1>4, <1>5, <1>6, <1>7, <1>8 DEF Next, Move

LEMMA OwnersExclude ==
  ASSUME Inv, Alone, Disciplined
  PROVE  ScopesHold
<1> SUFFICES ASSUME NEW t \in Thread, NEW j \in Guards(t)
             PROVE  Owns(t, prog[t][j]) /\ Excludes(t, prog[t][j])
  BY DEF ScopesHold, Guards
<1> DEFINE l == prog[t][j].lock
<1>1. Owns(t, prog[t][j])
  BY DEF Inv, ScopesOwned
<1>2. l \in Lock /\ prog[t][j].op \in {"read", "write"}
  BY GuardsAre DEF Inv
<1>3. readers[l][t] \in Nat /\ (\A u \in Thread : u # NoThread)
      /\ (holder[l] # NoThread => \A u \in Thread : readers[l][u] = 0)
  BY <1>2, LockAssumption DEF Inv, TypeOK, Alone
<1>4. CASE prog[t][j].op = "read"
  <2>1. holder[l] = NoThread
    BY <1>1, <1>3, <1>4 DEF Owns
  <2>2. QED
    BY <1>1, <1>3, <1>4, <2>1 DEF Excludes
<1>5. CASE prog[t][j].op = "write"
  <2>1. holder[l] = t
    BY <1>1, <1>5 DEF Owns
  <2>2. QED
    BY <1>1, <1>3, <2>1 DEF Excludes
<1>6. QED
  BY <1>2, <1>4, <1>5
-----------------------------------------------------------------------------
(* Waiting *)

(* A thread that waits, waits for a lock of another one, which is in a call *)
(* of its own.                                                              *)
LEMMA WaitsForOther ==
  ASSUME Inv, Disciplined, NEW t \in Thread, Inside(t), ~ CanMove(t)
  PROVE  /\ Step(t).op \in {"read", "write"} /\ Step(t).lock \in Lock
         /\ \E u \in Thread : /\ Inside(u)
                              /\ \E j \in Guards(u) : prog[u][j].lock = Step(t).lock
<1> DEFINE l == Step(t).lock
<1>1. Step(t).op \in {"read", "write", "drop"} /\ l \in Lock
  BY StepIs DEF Inv
<1>2. Step(t).op \in {"read", "write"}
  BY <1>1 DEF CanMove
<1>3. holder[l] # NoThread \/ \E u \in Thread : readers[l][u] # 0
  BY <1>1 DEF CanMove, CanRead, CanWrite
<1>4. holder[l] \in Thread \cup {NoThread} /\ readers[l] \in [Thread -> Nat]
  BY <1>1 DEF Inv, TypeOK
<1>5. PICK u \in Thread : holder[l] = u \/ readers[l][u] > 0
  <2>1. CASE holder[l] # NoThread
    BY <1>4, <2>1
  <2>2. CASE \E u \in Thread : readers[l][u] # 0
    <3>1. PICK u \in Thread : readers[l][u] # 0
      BY <2>2
    <3>2. readers[l][u] > 0
      BY <1>4, <3>1
    <3>3. QED
      BY <3>2
  <2>3. QED
    BY <1>3, <2>1, <2>2
<1>6. \E j \in Guards(u) : prog[u][j].lock = l
  BY <1>1, <1>5 DEF Inv, OwnedByGuard
<1>7. Inside(u)
  BY <1>6, GuardsAre DEF Inv
<1>8. QED
  BY <1>1, <1>2, <1>6, <1>7

(* The thread that waits for the last lock in the order waits for a thread  *)
(* that does not wait.                                                      *)
LEMMA SomeoneMoves ==
  ASSUME Inv, Disciplined
  PROVE  NotStuck
<1> SUFFICES ASSUME \E t \in Thread : Inside(t),
                    \A t \in Thread : Inside(t) => ~ CanMove(t)
             PROVE  FALSE
  BY DEF NotStuck
<1> DEFINE In == {t \in Thread : Inside(t)}
           Place(t) == Rank[Step(t).lock]
           Left == {MaxRank - Place(t) : t \in In}
<1>1. \A t \in In : Place(t) \in Nat /\ Place(t) <= MaxRank /\ MaxRank \in Nat
  <2> SUFFICES ASSUME NEW t \in In
               PROVE  Place(t) \in Nat /\ Place(t) <= MaxRank /\ MaxRank \in Nat
    OBVIOUS
  <2>1. Step(t).lock \in Lock
    BY WaitsForOther
  <2>2. QED
    BY <2>1, LockAssumption
<1>2. \A t \in In : \E u \in In : Place(t) < Place(u)
  <2> SUFFICES ASSUME NEW t \in In PROVE \E u \in In : Place(t) < Place(u)
    OBVIOUS
  <2>1. PICK u \in Thread : Inside(u) /\ \E j \in Guards(u) : prog[u][j].lock = Step(t).lock
    BY WaitsForOther
  <2>2. Step(u).op \in {"read", "write"}
    BY <2>1, WaitsForOther
  <2>3. \A j \in Guards(u) : Rank[prog[u][j].lock] < Rank[Step(u).lock]
    BY <2>1, <2>2, Fresh
  <2>4. QED
    BY <2>1, <2>3
<1> HIDE DEF Place
<1>3. Left \subseteq Nat /\ Left # {}
  <2>1. \A a, b \in Nat : a <= b => b - a \in Nat
    OBVIOUS
  <2> HIDE DEF In
  <2>2. \A t \in In : MaxRank - Place(t) \in Nat
    BY <1>1, <2>1
  <2> USE DEF In
  <2>3. In # {}
    OBVIOUS
  <2>4. QED
    BY <2>2, <2>3
<1> HIDE DEF In
<1>4. PICK x \in Left : \A y \in Left : x <= y
  <2>1. PICK x \in Left : \A y \in Left : <<y, x>> \notin OpToRel(<, Nat)
    BY <1>3, NatLessThanWellFounded, WFMin
  <2>2. x \in Nat /\ \A y \in Left : y \in Nat /\ ~ (y < x)
    BY <1>3, <2>1 DEF OpToRel
  <2>3. QED
    BY <2>2
<1>5. PICK t \in In : x = MaxRank - Place(t)
  BY <1>4
<1>6. PICK u \in In : Place(t) < Place(u)
  BY <1>2
<1>7. MaxRank - Place(t) <= MaxRank - Place(u)
  BY <1>4, <1>5
<1>8. QED
  BY <1>1, <1>6, <1>7
-----------------------------------------------------------------------------
(* The programs of the system *)

(* The threads run the functions of SystemLocks, on its locks. *)
OnLocks == Lock = Locks /\ RW = RWLocks /\ Rank = Order

OfSystem == OnLocks /\ Program = Programs

LEMMA Places ==
  ASSUME OnLocks
  PROVE  /\ {Registry, Logs, Plain, Manager, Root, Named, Out, File} \subseteq Lock
         /\ {Registry, Logs, Plain} \subseteq RW
         /\ Rank[Registry] = 0 /\ Rank[Logs] = 1 /\ Rank[Plain] = 1 /\ Rank[Manager] = 2
         /\ Rank[Root] = 3 /\ Rank[Named] = 3 /\ Rank[Out] = 4 /\ Rank[File] = 4
<1>1. Lock = Locks /\ RW = RWLocks /\ Rank = Order
  BY DEF OnLocks
<1>2. {Registry, Logs, Plain, Manager, Root, Named, Out, File} \subseteq Lock
  BY <1>1 DEF Locks
<1>3. {Registry, Logs, Plain} \subseteq RW
  BY <1>1 DEF RWLocks
<1>4. Order[Registry] = 0
  BY KindsAssumption DEF Order, Locks
<1>5. Order[Logs] = 1 /\ Order[Plain] = 1
  BY KindsAssumption DEF Order, Locks
<1>6. Order[Manager] = 2
  BY KindsAssumption DEF Order, Locks
<1>7. Order[Root] = 3 /\ Order[Named] = 3
  BY KindsAssumption DEF Order, Locks
<1>8. Order[Out] = 4 /\ Order[File] = 4
  BY KindsAssumption DEF Order, Locks
<1>9. QED
  BY <1>1, <1>2, <1>3, <1>4, <1>5, <1>6, <1>7, <1>8

LEMMA TouchFrom ==
  ASSUME NEW l \in Lock, NEW r \in Nat, r <= Rank[l]
  PROVE  From(r, Touch(l))
<1>1. Rank[l] + 1 \in Nat
  BY LockAssumption
<1>2. From(Rank[l] + 1, <<>>)
  BY <1>1, FromEmpty
<1>3. From(r, Under(l, "write", <<>>))
  BY <1>2, FromUnder
<1>4. QED
  BY <1>3 DEF Touch, WriteUnder

LEMMA WriteFrom ==
  ASSUME NEW l \in Lock, NEW r \in Nat, r <= Rank[l],
         NEW body, NEW n \in Nat, From(n, body), Rank[l] < n
  PROVE  From(r, WriteUnder(l, body))
<1>1. Rank[l] + 1 \in Nat /\ Rank[l] + 1 <= n
  BY LockAssumption
<1>2. From(Rank[l] + 1, body)
  BY <1>1, FromEarlier
<1>3. QED
  BY <1>2, FromUnder DEF WriteUnder

LEMMA ReadFrom ==
  ASSUME NEW l \in Lock, l \in RW, NEW r \in Nat, r <= Rank[l],
         NEW body, NEW n \in Nat, From(n, body), Rank[l] < n
  PROVE  From(r, ReadUnder(l, body))
<1>1. Rank[l] + 1 \in Nat /\ Rank[l] + 1 <= n
  BY LockAssumption
<1>2. From(Rank[l] + 1, body)
  BY <1>1, FromEarlier
<1>3. QED
  BY <1>2, FromUnder DEF ReadUnder

(* What logging does takes the lock of a logger and then that of an         *)
(* appender, after that of the manager if it needs it.                      *)
LEMMA LoggerFrom ==
  ASSUME OfSystem, NEW logger \in {Root, Named}
  PROVE  /\ From(3, Log(logger)) /\ From(3, addAppender(logger))
         /\ From(3, clearAppender(logger)) /\ From(3, LoggerToYaml(logger))
<1>1. AppenderOf(logger) \in Lock /\ Rank[AppenderOf(logger)] = 4
  BY Places DEF AppenderOf, OfSystem
<1>2. From(4, Touch(AppenderOf(logger)))
  BY <1>1, TouchFrom
<1>3. logger \in Lock /\ Rank[logger] = 3
  BY Places DEF OfSystem
<1>4. From(3, WriteUnder(logger, Touch(AppenderOf(logger))))
  BY <1>2, <1>3, WriteFrom
<1>5. From(3, Touch(logger))
  BY <1>3, TouchFrom
<1>6. QED
  BY <1>4, <1>5 DEF Log, addAppender, clearAppender, LoggerToYaml

LEMMA LoggingFrom ==
  ASSUME OfSystem, NEW p \in Logging
  PROVE  From(2, p)
<1>1. From(2, getLogger)
  BY Places, TouchFrom DEF getLogger, OfSystem
<1>2. From(2, LogByName)
  <2>1. From(2, Log(Named))
    <3>1. From(3, Log(Named))
      BY LoggerFrom
    <3>2. QED
      BY <3>1, FromEarlier
  <2>2. QED
    BY <1>1, <2>1, FromBoth DEF LogByName
<1>3. From(2, ManagerToYaml)
  <2>1. From(3, LoggerToYaml(Named))
    BY LoggerFrom
  <2>2. Manager \in Lock /\ Rank[Manager] = 2
    BY Places DEF OfSystem
  <2>3. QED
    BY <2>1, <2>2, WriteFrom DEF ManagerToYaml
<1>4. ASSUME NEW l \in {Root, Named}, p \in OnLogger(l) PROVE From(2, p)
  <2>1. From(3, p)
    BY <1>4, LoggerFrom DEF OnLogger
  <2>2. QED
    BY <2>1, FromEarlier
<1>5. ASSUME NEW a \in {Out, File} PROVE From(2, reopen(a))
  <2>1. a \in Lock /\ Rank[a] = 4
    BY Places DEF OfSystem
  <2>2. QED
    BY <2>1, TouchFrom DEF reopen
<1>6. QED
  BY <1>1, <1>2, <1>3, <1>4, <1>5 DEF Logging

LEMMA ListenersFrom ==
  ASSUME OfSystem, NEW var, NEW heard \in Listeners(var)
  PROVE  From(2, heard)
<1>1. From(2, Log(Root)) /\ From(2, addAppender(Named)) /\ From(2, clearAppender(Named))
  <2>1. From(3, Log(Root)) /\ From(3, addAppender(Named)) /\ From(3, clearAppender(Named))
    BY LoggerFrom
  <2>2. QED
    BY <2>1, FromEarlier
<1>2. From(2, getLogger) /\ From(2, reopen(File))
  <2>1. getLogger \in Logging /\ reopen(File) \in Logging
    BY DEF Logging
  <2>2. QED
    BY <2>1, LoggingFrom
<1>3. From(2, Apply)
  <2>1. From(2, getLogger \o clearAppender(Named))
    BY <1>1, <1>2, FromBoth
  <2>2. From(2, getLogger \o clearAppender(Named) \o clearAppender(Named))
    BY <1>1, <2>1, FromBoth
  <2>3. From(2, getLogger \o clearAppender(Named) \o clearAppender(Named) \o reopen(File))
    BY <1>2, <2>2, FromBoth
  <2>4. QED
    BY <1>1, <2>3, FromBoth DEF Apply
<1>4. From(2, Delete)
  BY <1>1, <1>2, FromBoth DEF Delete
<1>5. From(2, Log(Root) \o Apply)
  BY <1>1, <1>3, FromBoth
<1>6. From(2, Log(Root) \o Apply \o Delete)
  BY <1>4, <1>5, FromBoth
<1>7. CASE var = Logs
  BY <1>1, <1>5, <1>6, <1>7 DEF Listeners, Listener
<1>8. CASE var # Logs
  BY <1>8, UserAssumption DEF Listeners
<1>9. QED
  BY <1>7, <1>8

LEMMA VariablesFrom ==
  ASSUME OfSystem, NEW var \in {Logs, Plain}
  PROVE  /\ From(1, getValue(var)) /\ From(1, addListener(var))
         /\ \A p \in fromString(var) \cup toString(var) : From(1, p)
<1>1. var \in Lock /\ var \in RW /\ Rank[var] = 1
  BY Places DEF OfSystem
<1>2. From(1, ReadUnder(var, <<>>))
  BY <1>1, ReadFrom, FromEmpty
<1>3. \A heard \in Listeners(var) : From(1, WriteUnder(var, heard))
  BY <1>1, WriteFrom, ListenersFrom
<1>4. \A p \in setValue(var) : From(1, p)
  BY <1>2, <1>3, FromBoth DEF setValue
<1>5. From(1, addListener(var))
  BY <1>1, TouchFrom DEF addListener
<1>6. From(1, Log(Root))
  <2>1. From(3, Log(Root))
    BY LoggerFrom
  <2>2. QED
    BY <2>1, FromEarlier
<1>7. From(1, getValue(var) \o Log(Root))
  BY <1>2, <1>6, FromBoth DEF getValue
<1>8. \A heard \in Listeners(var) : From(1, WriteUnder(var, heard) \o Log(Root))
  BY <1>3, <1>6, FromBoth
<1>9. \A p \in fromString(var) : From(1, p)
  BY <1>4, <1>6, <1>8 DEF fromString
<1>10. \A p \in toString(var) : From(1, p)
  BY <1>2, <1>7 DEF toString, getValue
<1>11. QED
  BY <1>2, <1>5, <1>9, <1>10 DEF getValue

LEMMA RegistryFrom ==
  ASSUME OfSystem, NEW p \in Lookup \cup find \cup {LookupBase} \cup LoadFromYaml \cup Visit
  PROVE  From(0, p)
<1>1. Registry \in Lock /\ Registry \in RW /\ Rank[Registry] = 0
  BY Places DEF OfSystem
<1>2. From(1, <<>>)
  BY FromEmpty
<1>3. From(3, Log(Root)) /\ From(0, Log(Root))
  <2>1. From(3, Log(Root))
    BY LoggerFrom
  <2>2. QED
    BY <2>1, FromEarlier
<1>4. From(0, ReadUnder(Registry, <<>>)) /\ From(0, WriteUnder(Registry, <<>>))
  BY <1>1, <1>2, ReadFrom, WriteFrom
<1>5. From(0, ReadUnder(Registry, Log(Root))) /\ From(0, WriteUnder(Registry, Log(Root)))
  BY <1>1, <1>3, ReadFrom, WriteFrom
<1>6. CASE p \in Lookup
  BY <1>4, <1>5, <1>6 DEF Lookup
<1>7. CASE p \in find \cup {LookupBase}
  BY <1>4, <1>5, <1>7 DEF find, LookupBase
<1>8. CASE p \in LoadFromYaml
  <2>1. From(0, LookupBase)
    BY <1>4 DEF LookupBase
  <2>2. ASSUME NEW set \in fromString(Logs) \cup fromString(Plain) PROVE From(0, LookupBase \o set)
    <3>1. From(1, set)
      BY VariablesFrom
    <3>2. From(0, set)
      BY <3>1, FromEarlier
    <3>3. QED
      BY <2>1, <3>2, FromBoth
  <2>3. From(0, Log(Root) \o LookupBase)
    BY <1>3, <2>1, FromBoth
  <2>4. QED
    BY <1>8, <2>2, <2>3 DEF LoadFromYaml
<1>9. CASE p \in Visit
  <2>1. PICK one \in Callback, other \in Callback : p = ReadUnder(Registry, one \o other)
    BY <1>9 DEF Visit
  <2>2. From(1, one) /\ From(1, other)
    BY UserAssumption
  <2>3. From(1, one \o other)
    BY <2>2, FromBoth
  <2>4. QED
    BY <1>1, <2>1, <2>3, ReadFrom
<1>10. QED
  BY <1>6, <1>7, <1>8, <1>9

LEMMA SystemDisciplined == OfSystem => Disciplined
<1> SUFFICES ASSUME OfSystem, NEW p \in Programs PROVE Ordered(p)
  BY DEF Disciplined, OfSystem
<1>1. CASE p \in Logging
  BY <1>1, LoggingFrom DEF From
<1>2. ASSUME NEW v \in {Logs, Plain}, p \in OnVariable(v) PROVE Ordered(p)
  <2>1. From(1, p)
    BY <1>2, VariablesFrom DEF OnVariable
  <2>2. QED
    BY <2>1 DEF From
<1>3. CASE p \in Lookup \cup find \cup {LookupBase} \cup LoadFromYaml \cup Visit
  BY <1>3, RegistryFrom DEF From
<1>4. \/ p \in Logging \/ p \in OnVariable(Logs) \/ p \in OnVariable(Plain)
      \/ p \in Lookup \cup find \cup {LookupBase} \cup LoadFromYaml \cup Visit
  BY DEF Programs
<1>5. QED
  BY <1>1, <1>2, <1>3, <1>4
-----------------------------------------------------------------------------
(* Theorems *)

LEMMA Invariance == Disciplined => (Spec => []Inv)
<1> SUFFICES ASSUME Disciplined PROVE Spec => []Inv
  OBVIOUS
<1>1. Inv /\ [Next]_vars => Inv'
  BY StepKeeps
<1>2. QED
  BY <1>1, Initially, PTL DEF Spec

(* Whatever the programs, the locks and the number of threads: when the     *)
(* programs keep the order, no set of threads waits for each other in the   *)
(* guards of threads.hpp.                                                   *)
THEOREM NeverStuck == Disciplined => (Spec => []NotStuck)
<1> SUFFICES ASSUME Disciplined PROVE Spec => []NotStuck
  OBVIOUS
<1>1. Inv => NotStuck
  BY SomeoneMoves
<1>2. QED
  BY <1>1, Invariance, PTL

(* ... and a guard has its lock until its scope ends, for itself alone if   *)
(* it writes, so that the results of rdlock and wrlock, which the code      *)
(* ignores, are never EDEADLK.                                              *)
THEOREM GuardsHold == Disciplined => (Spec => []ScopesHold)
<1> SUFFICES ASSUME Disciplined PROVE Spec => []ScopesHold
  OBVIOUS
<1>1. Init => Alone
  BY DEF Init, Alone
<1>2. Inv /\ Alone /\ [Next]_vars => Alone'
  BY StepAlone
<1>3. Inv /\ Alone => ScopesHold
  BY OwnersExclude
<1>4. QED
  BY <1>1, <1>2, <1>3, Invariance, PTL DEF Spec

(* The functions of config.hpp, config.cpp and log.cpp, all but addLogger,   *)
(* take locks in the order registry, variable, manager, logger, appender,    *)
(* and so do threads in them never wait for each other, however many they    *)
(* are: with any listeners and callbacks that use no lock of the registry    *)
(* and, the listeners, none of a variable (UserAssumption) ...               *)
THEOREM SystemNeverStuck == OfSystem => (Spec => []NotStuck)
BY SystemDisciplined, NeverStuck

(* ... and their guards exclude each other. *)
THEOREM SystemGuardsHold == OfSystem => (Spec => []ScopesHold)
BY SystemDisciplined, GuardsHold

(* addLogger (log.cpp 550-556) waits for itself: a thread that is in the     *)
(* call of getLogger there has the manager's lock and can never move on,     *)
(* whatever the others do.                                                   *)
THEOREM AddLoggerWaits ==
  ASSUME OnLocks, NEW t \in Thread, prog[t] = addLogger, at[t] = 2, holder[Manager] = t
  PROVE  ~ CanMove(t) /\ ~ Ordered(addLogger)
<1> DEFINE w == [op |-> "write", lock |-> Manager]
<1>1. addLogger[1] = w /\ addLogger[2] = w /\ {1, 2} \subseteq DOMAIN addLogger
  <2>1. Manager \in Lock /\ <<>> \in Seq(Steps) /\ Len(<<>>) = 0
    BY Places
  <2>2. /\ getLogger \in Seq(Steps) /\ DOMAIN getLogger = 1 .. 2 /\ getLogger[1] = w
    <3> DEFINE g == Under(Manager, "write", <<>>)
    <3>1. g \in Seq(Steps) /\ DOMAIN g = 1 .. Len(<<>>) + 2 /\ g[1] = w
      BY <2>1, UnderIs
    <3>2. getLogger = g
      BY DEF getLogger, Touch, WriteUnder
    <3> HIDE DEF g
    <3>3. DOMAIN g = 1 .. 2
      BY <2>1, <3>1
    <3>4. QED
      BY <3>1, <3>2, <3>3
  <2>3. Len(getLogger) = 2
    BY <2>2
  <2>4. /\ DOMAIN addLogger = 1 .. 2 + 2 /\ addLogger[1] = w
        /\ \A i \in 1 .. 2 : addLogger[1 + i] = getLogger[i]
    <3> DEFINE g == Under(Manager, "write", getLogger)
    <3>1. /\ DOMAIN g = 1 .. Len(getLogger) + 2 /\ g[1] = w
          /\ \A i \in 1 .. Len(getLogger) : g[1 + i] = getLogger[i]
      BY <2>1, <2>2, UnderIs
    <3>2. addLogger = g
      BY DEF addLogger, WriteUnder
    <3> HIDE DEF g
    <3>3. QED
      BY <2>3, <3>1, <3>2
  <2>5. addLogger[1 + 1] = w
    BY <2>2, <2>4
  <2>6. QED
    BY <2>4, <2>5
<1>2. Manager \notin RW /\ t # NoThread
  BY KindsAssumption, LockAssumption DEF OnLocks, RWLocks
<1>3. ~ CanMove(t)
  <2>1. addLogger[2] = [op |-> "write", lock |-> Manager]
    BY <1>1
  <2>2. Step(t) = [op |-> "write", lock |-> Manager]
    BY <2>1 DEF Step
  <2>3. Step(t).op = "write" /\ Step(t).lock = Manager
    BY <2>2
  <2>4. ~ CanWrite(t, Manager)
    BY <1>2 DEF CanWrite, Again
  <2>5. CanMove(t) <=> CanWrite(t, Step(t).lock)
    BY <2>3 DEF CanMove
  <2>6. QED
    BY <2>3, <2>4, <2>5, Zenon
<1>4. ~ Ordered(addLogger)
  <2>0. w.op = "write" /\ w.lock = Manager /\ 1 .. 2 - 1 = {1} /\ 1 + 1 .. 2 - 1 = {}
    OBVIOUS
  <2> HIDE DEF w
  <2>1. 2 \in DOMAIN addLogger /\ Takes(addLogger, 2) /\ 1 \in Open(addLogger, 2)
    BY <1>1, <2>0 DEF Takes, Open
  <2>2. ~ (Rank[addLogger[1].lock] < Rank[addLogger[2].lock])
    BY <1>1, <2>0, Places
  <2>3. QED
    BY <2>1, <2>2 DEF Ordered
<1>5. QED
  BY <1>3, <1>4
=============================================================================
