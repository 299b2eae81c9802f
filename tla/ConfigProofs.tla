---------------------------- MODULE ConfigProofs -----------------------------
(***************************************************************************)
(* What the lock of the registry guarantees, for any number of threads and *)
(* any names, types and documents.                                         *)
(***************************************************************************)
EXTENDS Config, SequenceTheorems, WellFoundedInduction, TLAPS

USE DEF frames, history, vars, Goto

(* The places between the acquisition and the release of the lock.         *)
Writing == {"lookup", "create"}
Reading == {"find", "load_find", "visit"}

LockHeld ==
  /\ \A t \in Thread : pc[t] \in Writing => s_lock.writer = t
  /\ \A t \in Thread : pc[t] \in Reading => t \in s_lock.readers
  /\ s_lock.writer # NoThread => s_lock.readers = {}

Typed == pc \in [Thread -> Label] /\ s_lock \in RWLockOf(Thread)

-----------------------------------------------------------------------------
(* The lock *)

(* The lock is taken by a reader ... *)
LEMMA ReadLockSteps ==
  ASSUME Typed, LockHeld, NEW t \in Thread, NEW from, NEW to \in Reading, ReadLock(t, from, to)
  PROVE  Typed' /\ LockHeld'
<1>1. pc' = [pc EXCEPT ![t] = to] /\ s_lock' = RdLocked(s_lock, t) /\ s_lock.writer = NoThread
  BY DEF ReadLock, CanRdLock
<1>2. Typed'
  BY <1>1 DEF Typed, RdLocked, RWLockOf, Label, Reading
<1>3. LockHeld'
  BY <1>1 DEF Typed, LockHeld, RdLocked, RWLockOf, Writing, Reading
<1>4. QED
  BY <1>2, <1>3

(* ... by a writer ... *)
LEMMA WriteLockSteps ==
  ASSUME Typed, LockHeld, NEW t \in Thread, NEW from, NEW to \in Writing, WriteLock(t, from, to)
  PROVE  Typed' /\ LockHeld'
<1>1. /\ pc' = [pc EXCEPT ![t] = to] /\ s_lock' = WrLocked(s_lock, t)
      /\ s_lock.writer = NoThread /\ s_lock.readers = {}
  BY DEF WriteLock, CanWrLock
<1>2. Typed'
  BY <1>1 DEF Typed, WrLocked, RWLockOf, Label, Writing
<1>3. \A u \in Thread : pc[u] \notin Writing \cup Reading
  BY <1>1, ValueAssumption DEF LockHeld
<1>4. LockHeld'
  BY <1>1, <1>3 DEF Typed, LockHeld, WrLocked, RWLockOf, Writing, Reading
<1>5. QED
  BY <1>2, <1>4

(* ... and given back by the thread that has it.                            *)
LEMMA UnlockSteps ==
  ASSUME Typed, LockHeld, NEW t \in Thread, pc[t] \in Writing \cup Reading,
         NEW to \in Label \ (Writing \cup Reading), pc' = [pc EXCEPT ![t] = to],
         s_lock' = RWUnlocked(s_lock, t)
  PROVE  Typed' /\ LockHeld'
<1>1. /\ s_lock'.writer = IF s_lock.writer = t THEN NoThread ELSE s_lock.writer
      /\ s_lock'.readers = IF s_lock.writer = t THEN s_lock.readers ELSE s_lock.readers \ {t}
  BY DEF RWUnlocked
<1>2. Typed'
  BY DEF Typed, RWUnlocked, RWLockOf
<1>3. ASSUME NEW u \in Thread, pc'[u] \in Writing \cup Reading PROVE u # t /\ pc'[u] = pc[u]
  BY <1>3 DEF Typed
<1>4. ASSUME NEW u \in Thread, pc'[u] \in Writing PROVE s_lock'.writer = u
  BY <1>1, <1>3, <1>4 DEF LockHeld
<1>5. ASSUME NEW u \in Thread, pc'[u] \in Reading PROVE u \in s_lock'.readers
  BY <1>1, <1>3, <1>5 DEF LockHeld
<1>6. s_lock'.writer # NoThread => s_lock'.readers = {}
  BY <1>1 DEF LockHeld
<1>7. QED
  BY <1>2, <1>4, <1>5, <1>6 DEF LockHeld

(* A step that leaves the lock alone stays on its side of it.               *)
LEMMA OtherSteps ==
  ASSUME Typed, LockHeld, NEW t \in Thread, NEW to \in Label, pc' = [pc EXCEPT ![t] = to],
         to \in Writing => pc[t] \in Writing, to \in Reading => pc[t] \in Reading,
         UNCHANGED s_lock
  PROVE  Typed' /\ LockHeld'
BY DEF Typed, LockHeld

(* Every step keeps LockHeld.                                               *)
LEMMA NextLock == Typed /\ LockHeld /\ [Next]_vars => Typed' /\ LockHeld'
<1> SUFFICES ASSUME Typed, LockHeld, [Next]_vars PROVE Typed' /\ LockHeld'
  OBVIOUS
<1> USE DEF Label, Writing, Reading
<1>1. ASSUME NEW t \in Thread, Call(t) PROVE Typed' /\ LockHeld'
  <2>1. UNCHANGED s_lock /\ \E to \in {"lookup_lock", "find_lock", "load", "visit_lock"} :
          pc' = [pc EXCEPT ![t] = to]
    BY <1>1 DEF Call, CallLookup, CallFind, CallLoad, CallVisit, Enter
  <2>2. QED
    BY <2>1, OtherSteps
<1>2. ASSUME NEW t \in Thread, Lookup(t) PROVE Typed' /\ LockHeld'
  <2>1. CASE LookupLock(t)
    BY <2>1, WriteLockSteps DEF LookupLock
  <2>2. CASE LookupExists(t) \/ LookupInvalid(t) \/ LookupCreate(t)
    BY <2>2, UnlockSteps DEF LookupExists, LookupInvalid, LookupCreate, Return
  <2>3. CASE LookupMissing(t)
    BY <2>3, OtherSteps DEF LookupMissing
  <2>4. QED
    BY <1>2, <2>1, <2>2, <2>3 DEF Lookup
<1>3. ASSUME NEW t \in Thread, FindLock(t) \/ Find(t) PROVE Typed' /\ LockHeld'
  <2>1. CASE FindLock(t)
    BY <2>1, ReadLockSteps DEF FindLock
  <2>2. CASE Find(t)
    BY <2>2, UnlockSteps DEF Find, Return
  <2>3. QED
    BY <1>3, <2>1, <2>2
<1>4. ASSUME NEW t \in Thread, Load(t) PROVE Typed' /\ LockHeld'
  <2>1. CASE LoadLock(t)
    BY <2>1, ReadLockSteps DEF LoadLock
  <2>2. CASE LoadMissing(t) \/ LoadFind(t)
    BY <2>2, UnlockSteps DEF LoadMissing, LoadFind
  <2>3. CASE LoadSet(t) \/ LoadThrows(t) \/ LoadEnd(t)
    BY <2>3, OtherSteps DEF LoadSet, LoadThrows, LoadEnd
  <2>4. QED
    BY <1>4, <2>1, <2>2, <2>3 DEF Load
<1>5. ASSUME NEW t \in Thread, Visit(t) PROVE Typed' /\ LockHeld'
  <2>1. CASE VisitLock(t)
    BY <2>1, ReadLockSteps DEF VisitLock
  <2>2. CASE VisitCall(t)
    BY <2>2, OtherSteps DEF VisitCall
  <2>3. CASE VisitEnd(t)
    BY <2>3, UnlockSteps DEF VisitEnd, Return
  <2>4. QED
    BY <1>5, <2>1, <2>2, <2>3 DEF Visit
<1>6. CASE UNCHANGED vars
  BY <1>6 DEF Typed, LockHeld
<1> HIDE DEF Label, Writing, Reading
<1>7. QED
  BY <1>1, <1>2, <1>3, <1>4, <1>5, <1>6 DEF Next, Step, Finished

-----------------------------------------------------------------------------
(* Induction up to m: P is the set of the numbers that have the property. *)
LEMMA InductionTo ==
  ASSUME NEW m \in Nat, NEW P, 0 \in P, \A n \in Nat : n < m /\ n \in P => n + 1 \in P
  PROVE  \A n \in 0..m : n \in P
<1> DEFINE S == (0..m) \ P
<1>1. SUFFICES ASSUME S # {} PROVE FALSE
  OBVIOUS
<1>2. S \subseteq Nat /\ S \subseteq 0..m
  OBVIOUS
<1>3. PICK x \in S : \A y \in S : x <= y
  <2>1. PICK x \in S : \A y \in S : <<y, x>> \notin OpToRel(<, Nat)
    BY <1>1, <1>2, NatLessThanWellFounded, WFMin
  <2>2. x \in Nat /\ \A y \in S : y \in Nat /\ ~ (y < x)
    BY <1>1, <1>2, <2>1 DEF OpToRel
  <2>3. QED
    BY <2>2
<1>4. x \in 1..m
  OBVIOUS
<1>5. x - 1 \in Nat /\ x - 1 < m /\ x - 1 \in 0..m /\ ~ (x <= x - 1) /\ (x - 1) + 1 = x
  BY <1>4
<1>6. x - 1 \in P
  BY <1>3, <1>5
<1>7. x \in P
  <2>1. (x - 1) + 1 \in P
    BY <1>5, <1>6
  <2>2. QED
    BY <1>5, <2>1
<1>8. QED
  BY <1>7

(* Documents *)

Node == [key : Name, text : Text]

(* at gives, for each element of s, its place among the first m nodes of d. *)
(* s has those with a valid path and no other, in their order.              *)
Places(s, d, m, at) ==
  /\ at \in [1..Len(s) -> 1..m]
  /\ \A j \in 1..Len(s) : s[j] = d[at[j]] /\ d[at[j]].key \in Valid
  /\ \A j, k \in 1..Len(s) : j < k => at[j] < at[k]
  /\ \A i \in 1..m : d[i].key \in Valid => \E j \in 1..Len(s) : at[j] = i

(* One more node that is valid ...                                          *)
LEMMA PlacesMore ==
  ASSUME NEW d \in Seq(Node), NEW m \in Nat, m < Len(d), NEW s \in Seq(Node), NEW at,
         Places(s, d, m, at), d[m + 1].key \in Valid
  PROVE  /\ Append(s, d[m + 1]) \in Seq(Node)
         /\ \E ext : Places(Append(s, d[m + 1]), d, m + 1, ext)
<1> DEFINE r == Append(s, d[m + 1])
           n == Len(s)
           ext == [j \in 1..n + 1 |-> IF j = n + 1 THEN m + 1 ELSE at[j]]
<1>1. m + 1 \in 1..Len(d) /\ d[m + 1] \in Node /\ n \in Nat
  BY ElementOfSeq, LenProperties
<1>2. /\ r \in Seq(Node) /\ Len(r) = n + 1 /\ r[n + 1] = d[m + 1]
      /\ \A j \in 1..n : r[j] = s[j]
  BY <1>1, AppendProperties
<1>3. \A j \in 1..n : at[j] \in 1..m /\ j # n + 1 /\ ext[j] = at[j]
  BY <1>1 DEF Places
<1>4. ext[n + 1] = m + 1 /\ n + 1 \in 1..n + 1
  BY <1>1
<1>5. \A j \in 1..n + 1 : j \in 1..n \/ j = n + 1
  BY <1>1
<1> HIDE DEF r, n
<1>6. ext \in [1..n + 1 -> 1..m + 1]
  <2>0. m + 1 \in 1..m + 1 /\ \A x \in 1..m : x \in 1..m + 1
    OBVIOUS
  <2>1. \A j \in 1..n + 1 : ext[j] \in 1..m + 1
    BY <1>3, <1>4, <1>5, <2>0
  <2>2. QED
    BY <2>1
<1> HIDE DEF ext
<1>7. \A j \in 1..n + 1 : r[j] = d[ext[j]] /\ d[ext[j]].key \in Valid
  BY <1>2, <1>3, <1>4, <1>5 DEF Places, n
<1>8. \A j, k \in 1..n + 1 : j < k => ext[j] < ext[k]
  <2>1. ASSUME NEW j \in 1..n + 1, NEW k \in 1..n + 1, j < k PROVE ext[j] < ext[k]
    <3>1. j \in 1..n
      BY <1>1, <2>1 DEF n
    <3>2. CASE k = n + 1
      BY <1>3, <1>4, <3>1, <3>2
    <3>3. CASE k \in 1..n
      BY <1>3, <2>1, <3>1, <3>3 DEF Places, n
    <3>4. QED
      BY <1>5, <3>2, <3>3
  <2>2. QED
    BY <2>1
<1>9. \A i \in 1..m + 1 : d[i].key \in Valid => \E j \in 1..n + 1 : ext[j] = i
  <2>1. ASSUME NEW i \in 1..m + 1, d[i].key \in Valid PROVE \E j \in 1..n + 1 : ext[j] = i
    <3>1. CASE i = m + 1
      BY <1>4, <3>1
    <3>2. CASE i \in 1..m
      <4>1. PICK j \in 1..n : at[j] = i
        BY <2>1, <3>2 DEF Places, n
      <4>2. j \in 1..n + 1
        BY <1>1 DEF n
      <4>3. QED
        BY <1>3, <4>1, <4>2
    <3>3. QED
      BY <3>1, <3>2
  <2>2. QED
    BY <2>1
<1>10. Places(r, d, m + 1, ext)
  BY <1>2, <1>6, <1>7, <1>8, <1>9 DEF Places
<1>11. QED
  BY <1>2, <1>10 DEF r

(* ... and one that is not.                                                 *)
LEMMA PlacesSame ==
  ASSUME NEW d, NEW m \in Nat, NEW s \in Seq(Node), NEW at,
         Places(s, d, m, at), d[m + 1].key \notin Valid
  PROVE  Places(s, d, m + 1, at)
<1>1. at \in [1..Len(s) -> 1..m + 1]
  BY DEF Places
<1>2. \A i \in 1..m + 1 : d[i].key \in Valid => i \in 1..m
  OBVIOUS
<1>3. QED
  BY <1>1, <1>2 DEF Places

(* The list of a document, whatever its length: by induction on the nodes  *)
(* that have been walked through.                                          *)
LEMMA Listed ==
  ASSUME NEW d \in Seq(Node)
  PROVE  /\ ListAllMember(d) \in Seq(Node)
         /\ \E at : Places(ListAllMember(d), d, Len(d), at)
<1> DEFINE More(s, i) == IF d[i].key \in Valid THEN Append(s, d[i]) ELSE s
           Body(f, n) == [i \in 0..n |-> IF i = 0 THEN <<>> ELSE More(f[i - 1], i)]
           output == CHOOSE f : f = Body(f, Len(d))
<1>0. Len(d) \in Nat
  BY LenProperties
<1>1. \E f : f = Body(f, Len(d))
  <2> DEFINE P == {n \in Nat : \E f : f = Body(f, n)}
  <2> HIDE DEF More
  <2>1. 0 \in P
    <3>1. [i \in 0..0 |-> <<>>] = Body([i \in 0..0 |-> <<>>], 0)
      OBVIOUS
    <3>2. QED
      BY <3>1
  <2>2. ASSUME NEW n \in Nat, n \in P PROVE n + 1 \in P
    <3>1. PICK f : f = Body(f, n)
      BY <2>2
    <3> DEFINE g == [i \in 0..n + 1 |-> IF i = n + 1 THEN More(f[n], n + 1) ELSE f[i]]
    <3>2. \A i \in 0..n : g[i] = f[i]
      OBVIOUS
    <3>3. ASSUME NEW i \in 0..n + 1
          PROVE  g[i] = IF i = 0 THEN <<>> ELSE More(g[i - 1], i)
      <4>1. CASE i = 0
        BY <3>1, <3>2, <4>1
      <4>2. CASE i \in 1..n
        <5>1. f[i] = More(f[i - 1], i)
          BY <3>1, <4>2
        <5>2. i # 0 /\ i - 1 \in 0..n /\ i \in 0..n
          BY <4>2
        <5> HIDE DEF g
        <5>3. QED
          BY <3>2, <5>1, <5>2
      <4>3. CASE i = n + 1
        <5>1. i - 1 = n /\ i # 0 /\ n \in 0..n
          BY <4>3
        <5>2. g[i] = More(f[n], n + 1)
          BY <4>3
        <5> HIDE DEF g
        <5>3. QED
          BY <3>2, <4>3, <5>1, <5>2
      <4>4. QED
        BY <4>1, <4>2, <4>3
    <3>4. g = Body(g, n + 1)
      BY <3>3
    <3> HIDE DEF g
    <3>5. n + 1 \in Nat /\ \E h : h = Body(h, n + 1)
      BY <3>4
    <3>6. QED
      BY <3>5
  <2> HIDE DEF P
  <2>3. \A n \in 0..Len(d) : n \in P
    BY <1>0, <2>1, <2>2, InductionTo
  <2>4. QED
    BY <1>0, <2>3 DEF P
<1>2. output = Body(output, Len(d))
  BY <1>1
<1>3. ListAllMember(d) = output[Len(d)]
  BY DEF ListAllMember
<1> HIDE DEF output
<1>4. output[0] = <<>> /\ \A i \in 1..Len(d) : output[i] = More(output[i - 1], i)
  <2> HIDE DEF More
  <2>1. \A i \in 0..Len(d) : output[i] = IF i = 0 THEN <<>> ELSE More(output[i - 1], i)
    BY <1>2
  <2>2. 0 \in 0..Len(d) /\ \A i \in 1..Len(d) : i \in 0..Len(d) /\ i # 0
    BY <1>0
  <2>3. QED
    BY <2>1, <2>2
<1> DEFINE P == {n \in Nat : output[n] \in Seq(Node) /\ \E at : Places(output[n], d, n, at)}
<1>5. 0 \in P
  <2>1. <<>> \in Seq(Node) /\ Len(<<>>) = 0
    OBVIOUS
  <2>2. Places(<<>>, d, 0, [j \in 1..0 |-> 0])
    BY <2>1 DEF Places
  <2>3. QED
    BY <1>4, <2>1, <2>2
<1>6. ASSUME NEW n \in Nat, n < Len(d), n \in P PROVE n + 1 \in P
  <2>1. output[n] \in Seq(Node)
    BY <1>6
  <2>2. PICK at : Places(output[n], d, n, at)
    BY <1>6
  <2>3. output[n + 1] = More(output[n], n + 1)
    <3>1. n + 1 \in 1..Len(d) /\ (n + 1) - 1 = n
      BY <1>0, <1>6
    <3>2. QED
      BY <1>4, <3>1
  <2>4. CASE d[n + 1].key \in Valid
    <3>1. output[n + 1] = Append(output[n], d[n + 1])
      BY <2>3, <2>4
    <3>2. /\ Append(output[n], d[n + 1]) \in Seq(Node)
          /\ \E ext : Places(Append(output[n], d[n + 1]), d, n + 1, ext)
      <4> HIDE DEF P
      <4>1. QED
        BY <1>6, <2>1, <2>2, <2>4, PlacesMore
    <3>3. output[n + 1] \in Seq(Node) /\ \E ext : Places(output[n + 1], d, n + 1, ext)
      BY <3>1, <3>2, Zenon
    <3>4. QED
      BY <3>3
  <2>5. CASE d[n + 1].key \notin Valid
    <3>1. output[n + 1] = output[n]
      BY <2>3, <2>5
    <3>2. Places(output[n], d, n + 1, at)
      <4> HIDE DEF P
      <4>1. QED
        BY <2>1, <2>2, <2>5, PlacesSame
    <3>3. QED
      BY <2>1, <3>1, <3>2
  <2>6. QED
    BY <2>4, <2>5
<1> HIDE DEF P
<1>7. Len(d) \in P
  <2>1. \A n \in 0..Len(d) : n \in P
    BY <1>0, <1>5, <1>6, InductionTo
  <2>2. QED
    BY <1>0, <2>1
<1>8. QED
  BY <1>3, <1>7 DEF P

-----------------------------------------------------------------------------
(* Types *)

MapOK ==
  /\ Names \subseteq Valid /\ \A n \in Names : s_data[n] \in Entry
  /\ m_val \in Seq(Text \cup {Default})

FramesOK ==
  /\ name \in [Thread -> Name \cup {0}]
  /\ type \in [Thread -> Type]
  /\ nodes \in [Thread -> Seq([key : Name, text : Text])]
  /\ var \in [Thread -> 0..Len(m_val)]
  /\ ops \in [Thread -> Nat]

HistoryOK ==
  /\ held \subseteq [name : Name, type : Type, id : 1..Len(m_val)]
  /\ known \in [Thread -> SUBSET Name]
  /\ seen \in [Thread -> SUBSET (1..Len(m_val))]
  /\ thrown \in [Thread -> SUBSET (0..Len(m_val))]

(* What a thread has found out under the lock, or of its own frame, holds   *)
(* where it uses it.                                                        *)
Creating == \A t \in Thread : pc[t] = "create" => name[t] \in Valid \ Names

Loading ==
  \A t \in Thread : /\ pc[t] \in {"load_find", "load_set"} => nodes[t] # <<>>
                    /\ pc[t] = "load_set" => var[t] \in 1..Len(m_val)

Visiting == \A t \in Thread : pc[t] = "visit" /\ name[t] # 0 => name[t] \in Names

Inv == Typed /\ LockHeld /\ MapOK /\ FramesOK /\ HistoryOK /\ Creating /\ Loading /\ Visiting

(* The successor in the order of the names.                                 *)
LEMMA NextNameIsNext ==
  ASSUME Names \subseteq Nat \ {0}, NEW n \in Nat
  PROVE  LET m == NextName(n) IN
         /\ m = 0 => \A k \in Names : k <= n
         /\ m # 0 => m \in Names /\ m > n /\ \A k \in Names : k > n => m <= k
<1> DEFINE later == {m \in Names : m > n}
<1>1. CASE later = {}
  BY <1>1 DEF NextName
<1>2. CASE later # {}
  <2>1. \E m \in later : \A k \in later : m <= k
    <3>1. PICK m \in later : \A k \in later : <<k, m>> \notin OpToRel(<, Nat)
      BY <1>2, NatLessThanWellFounded, WFMin
    <3>2. m \in Nat /\ \A k \in later : k \in Nat /\ ~ (k < m)
      BY <1>2, <3>1 DEF OpToRel
    <3>3. QED
      BY <3>2
  <2>2. NextName(n) \in later /\ \A k \in later : NextName(n) <= k
    BY <1>2, <2>1 DEF NextName
  <2>3. QED
    BY <2>2
<1>3. QED
  BY <1>1, <1>2

LEMMA InitInv == Init => Inv
<1> SUFFICES ASSUME Init PROVE Inv
  OBVIOUS
<1>1. Names = {}
  BY DEF Init, Names
<1>2. Typed /\ LockHeld
  BY DEF Init, Typed, LockHeld, Label, RWFree, RWLockOf, Writing, Reading
<1>3. MapOK
  BY <1>1 DEF Init, MapOK
<1>4. FramesOK
  <2>1. (CHOOSE T \in Type : TRUE) \in Type
    BY ValueAssumption
  <2>2. <<>> \in Seq([key : Name, text : Text]) /\ Len(<<>>) = 0
    OBVIOUS
  <2>3. QED
    BY <2>1, <2>2 DEF Init, FramesOK
<1>5. HistoryOK
  BY DEF Init, HistoryOK
<1>6. Creating /\ Loading /\ Visiting
  BY DEF Init, Creating, Loading, Visiting
<1>7. QED
  BY <1>2, <1>3, <1>4, <1>5, <1>6 DEF Inv

(* Only Lookup changes the map, and only a load a value.                    *)
LEMMA MapSteps ==
  [Next]_vars => \/ UNCHANGED <<s_data, m_val>>
                 \/ \E t \in Thread : LookupCreate(t)
                 \/ UNCHANGED s_data /\ \E t \in Thread : LoadSet(t)
BY DEF Next, Call, CallLookup, CallFind, CallLoad, CallVisit, Step, Lookup, LookupLock,
   LookupExists, LookupInvalid, LookupMissing, FindLock, Find, Load, LoadLock, LoadMissing,
   LoadFind, LoadSet, LoadThrows, LoadEnd, Visit, VisitLock, VisitStart, VisitCall, VisitEnd,
   Finished

(* A new variable gets the next number, and its name was not in the map.    *)
LEMMA CreateSteps ==
  ASSUME Inv, NEW t \in Thread, LookupCreate(t)
  PROVE  /\ MapOK' /\ Len(m_val') = Len(m_val) + 1
         /\ name[t] \in Valid \ Names /\ Names' = Names \cup {name[t]}
         /\ s_data'[name[t]] = [type |-> type[t], id |-> Len(m_val) + 1]
         /\ \A n \in Names : s_data'[n] = s_data[n]
<1> DEFINE new == [type |-> type[t], id |-> Len(m_val) + 1]
<1>1. m_val \in Seq(Text \cup {Default}) /\ Len(m_val) \in Nat /\ type[t] \in Type
  BY LenProperties DEF Inv, MapOK, FramesOK
<1>2. m_val' \in Seq(Text \cup {Default}) /\ Len(m_val') = Len(m_val) + 1
  BY <1>1, AppendProperties DEF LookupCreate
<1>3. name[t] \in Valid \ Names
  BY DEF LookupCreate, Return, Inv, Creating
<1>4. s_data' = [n \in Names \cup {name[t]} |-> IF n = name[t] THEN new ELSE s_data[n]]
  BY DEF LookupCreate
<1>5. Names' = Names \cup {name[t]}
  BY <1>4 DEF Names
<1>6. s_data'[name[t]] = new /\ \A n \in Names : s_data'[n] = s_data[n]
  BY <1>3, <1>4
<1>7. new \in Entry'
  BY <1>1, <1>2 DEF Entry
<1>8. Entry \subseteq Entry'
  BY <1>1, <1>2 DEF Entry
<1>9. MapOK'
  BY <1>2, <1>3, <1>5, <1>6, <1>7, <1>8 DEF Inv, MapOK
<1>10. QED
  BY <1>2, <1>3, <1>5, <1>6, <1>9

LEMMA LoadSteps ==
  ASSUME Inv, NEW t \in Thread, LoadSet(t)
  PROVE  m_val' \in Seq(Text \cup {Default}) /\ Len(m_val') = Len(m_val)
<1>1. m_val \in Seq(Text \cup {Default}) /\ var[t] \in 1..Len(m_val)
  BY DEF LoadSet, Inv, MapOK, Loading
<1>2. Head(nodes[t]).text \in Text
  <2>1. nodes[t] \in Seq([key : Name, text : Text]) /\ nodes[t] # <<>>
    BY DEF LoadSet, Inv, FramesOK, Loading
  <2>2. Head(nodes[t]) \in [key : Name, text : Text]
    BY <2>1, HeadTailProperties
  <2>3. QED
    BY <2>2
<1>3. CASE UNCHANGED m_val
  BY <1>1, <1>3
<1>4. CASE m_val' = [m_val EXCEPT ![var[t]] = Head(nodes[t]).text]
  BY <1>1, <1>2, <1>4, ExceptSeq
<1>5. QED
  BY <1>3, <1>4 DEF LoadSet

(* The map grows, and no entry of it changes.                               *)
LEMMA Growth ==
  ASSUME Inv, [Next]_vars
  PROVE  /\ MapOK' /\ Len(m_val) \in Nat /\ Len(m_val') \in Nat /\ Len(m_val) <= Len(m_val')
         /\ Names \subseteq Names' /\ \A n \in Names : s_data'[n] = s_data[n]
<1> DEFINE Grows == /\ MapOK' /\ Len(m_val') \in Nat /\ Len(m_val) <= Len(m_val')
                    /\ Names \subseteq Names' /\ \A n \in Names : s_data'[n] = s_data[n]
<1>1. m_val \in Seq(Text \cup {Default}) /\ Len(m_val) \in Nat /\ MapOK
  BY LenProperties DEF Inv, MapOK
<1>2. ASSUME UNCHANGED <<s_data, m_val>> PROVE Grows
  BY <1>1, <1>2 DEF MapOK, Names, Entry
<1>3. ASSUME NEW t \in Thread, LookupCreate(t)
      PROVE  Grows
  <2>1. MapOK' /\ Len(m_val') = Len(m_val) + 1
    BY <1>3, CreateSteps
  <2>2. Names' = Names \cup {name[t]} /\ \A n \in Names : s_data'[n] = s_data[n]
    BY <1>3, CreateSteps
  <2>3. QED
    BY <1>1, <2>1, <2>2
<1>4. ASSUME UNCHANGED s_data, NEW t \in Thread, LoadSet(t)
      PROVE  Grows
  <2>1. m_val' \in Seq(Text \cup {Default}) /\ Len(m_val') = Len(m_val)
    BY <1>4, LoadSteps
  <2>2. Names' = Names /\ Entry' = Entry
    BY <1>4, <2>1 DEF Names, Entry
  <2>3. QED
    BY <1>1, <1>4, <2>1, <2>2 DEF MapOK
<1>5. Grows
  <2> HIDE DEF Grows
  <2>1. QED
    BY <1>2, <1>3, <1>4, MapSteps
<1>6. QED
  BY <1>1, <1>5

(* The entry of a name in the map.                                          *)
LEMMA EntryTyped ==
  ASSUME Inv, NEW n \in Names
  PROVE  /\ n \in Name /\ s_data[n].type \in Type /\ s_data[n].id \in 1..Len(m_val)
         /\ s_data[n] = [type |-> s_data[n].type, id |-> s_data[n].id]
BY NameAssumption DEF Inv, MapOK, Entry

(* The frames keep their types ...                                          *)
LEMMA NextFrames == Inv /\ [Next]_vars => FramesOK'
<1> SUFFICES ASSUME Inv, [Next]_vars PROVE FramesOK'
  OBVIOUS
<1>0. Len(m_val) \in Nat /\ Len(m_val') \in Nat /\ Len(m_val) <= Len(m_val')
  BY Growth
<1>1. /\ name \in [Thread -> Name \cup {0}] /\ type \in [Thread -> Type]
      /\ nodes \in [Thread -> Seq([key : Name, text : Text])]
      /\ var \in [Thread -> 0..Len(m_val)] /\ ops \in [Thread -> Nat]
  BY DEF Inv, FramesOK
<1>2. var \in [Thread -> 0..Len(m_val')]
  BY <1>0, <1>1
<1>3. CASE UNCHANGED <<frames, ops>>
  BY <1>1, <1>2, <1>3 DEF FramesOK
<1>4. ASSUME NEW t \in Thread, Call(t) PROVE FramesOK'
  <2>0. \E first \in {"lookup_lock", "find_lock", "load", "visit_lock"} : Enter(t, first)
    BY <1>4 DEF Call, CallLookup, CallFind, CallLoad, CallVisit
  <2>1. ops' \in [Thread -> Nat] /\ UNCHANGED var
    <3>1. ops' = [ops EXCEPT ![t] = @ + 1]
      BY <2>0 DEF Enter
    <3>2. ops[t] + 1 \in Nat
      BY <1>1
    <3>3. UNCHANGED var
      BY <1>4 DEF Call, CallLookup, CallFind, CallLoad, CallVisit
    <3>4. QED
      BY <1>1, <3>1, <3>2, <3>3
  <2>2. name' \in [Thread -> Name \cup {0}] /\ type' \in [Thread -> Type]
    BY <1>1, <1>4 DEF Call, CallLookup, CallFind, CallLoad, CallVisit
  <2>3. nodes' \in [Thread -> Seq([key : Name, text : Text])]
    <3>1. CASE UNCHANGED nodes
      BY <1>1, <3>1
    <3>2. CASE CallLoad(t)
      <4>1. PICK d \in Document : nodes' = [nodes EXCEPT ![t] = ListAllMember(d)]
        BY <3>2 DEF CallLoad
      <4>2. ListAllMember(d) \in Seq([key : Name, text : Text])
        BY ValueAssumption, Listed DEF Node
      <4>3. QED
        BY <1>1, <4>1, <4>2
    <3>3. QED
      BY <1>4, <3>1, <3>2 DEF Call, CallLookup, CallFind, CallVisit
  <2>4. QED
    BY <1>2, <2>1, <2>2, <2>3 DEF FramesOK
<1>5. ASSUME NEW t \in Thread, LoadMissing(t) \/ LoadSet(t) \/ LoadThrows(t) PROVE FramesOK'
  <2>1. nodes' = [nodes EXCEPT ![t] = Tail(@)] /\ UNCHANGED <<name, type, var, ops>>
    BY <1>5 DEF LoadMissing, LoadSet, LoadThrows
  <2>2. nodes[t] \in Seq([key : Name, text : Text]) /\ nodes[t] # <<>>
    BY <1>1, <1>5 DEF LoadMissing, LoadSet, LoadThrows, Inv, Loading
  <2>3. Tail(nodes[t]) \in Seq([key : Name, text : Text])
    BY <2>2, HeadTailProperties
  <2>4. nodes' \in [Thread -> Seq([key : Name, text : Text])]
    BY <1>1, <2>1, <2>3
  <2>5. QED
    BY <1>1, <1>2, <2>1, <2>4 DEF FramesOK
<1>6. ASSUME NEW t \in Thread, LoadFind(t) PROVE FramesOK'
  <2>1. Key(t) \in Names
    BY <1>6 DEF LoadFind
  <2>2. s_data[Key(t)].id \in 1..Len(m_val) /\ s_data[Key(t)].type \in Type
    BY <2>1, EntryTyped
  <2>3. /\ var' = [var EXCEPT ![t] = s_data[Key(t)].id]
        /\ type' = [type EXCEPT ![t] = s_data[Key(t)].type]
        /\ UNCHANGED <<name, nodes, ops, m_val>>
    BY <1>6 DEF LoadFind
  <2>4. var' \in [Thread -> 0..Len(m_val)] /\ type' \in [Thread -> Type]
    BY <1>0, <1>1, <2>2, <2>3
  <2>5. QED
    BY <1>1, <2>3, <2>4 DEF FramesOK
<1>7. ASSUME NEW t \in Thread, NEW n \in Names \cup {0}, name' = [name EXCEPT ![t] = n],
             UNCHANGED <<type, nodes, var, ops>>
      PROVE  FramesOK'
  <2>1. n \in Name \cup {0}
    BY EntryTyped
  <2>2. QED
    BY <1>1, <1>2, <1>7, <2>1 DEF FramesOK
<1>8. ASSUME NEW t \in Thread, Visit(t) PROVE FramesOK'
  <2>1. Names \subseteq Nat \ {0}
    BY EntryTyped, NameAssumption
  <2>2. \A k \in Nat : NextName(k) \in Names \cup {0}
    BY <2>1, NextNameIsNext
  <2>3. CASE VisitLock(t)
    BY <1>7, <2>2, <2>3 DEF VisitLock, VisitStart
  <2>4. CASE VisitCall(t)
    <3>1. name[t] \in Nat
      <4>1. name[t] \in Name \cup {0}
        BY <1>1
      <4>2. \A n \in Name : n \in Nat
        BY NameAssumption
      <4>3. QED
        BY <4>1, <4>2
    <3>2. QED
      BY <1>7, <2>2, <2>4, <3>1 DEF VisitCall
  <2>5. CASE VisitEnd(t)
    BY <1>3, <2>5 DEF VisitEnd
  <2>6. QED
    BY <1>8, <2>3, <2>4, <2>5 DEF Visit
<1>9. QED
  BY <1>3, <1>4, <1>5, <1>6, <1>8
     DEF Next, Step, Lookup, LookupLock, LookupExists, LookupInvalid, LookupMissing, LookupCreate,
         FindLock, Find, Load, LoadLock, LoadEnd, Finished

(* ... and so does what the threads remember.                               *)
LEMMA NextHistory == Inv /\ [Next]_vars => HistoryOK'
<1> SUFFICES ASSUME Inv, [Next]_vars PROVE HistoryOK'
  OBVIOUS
<1> DEFINE Held(len) == [name : Name, type : Type, id : 1..len]
<1>0. Len(m_val) \in Nat /\ Len(m_val') \in Nat /\ Len(m_val) <= Len(m_val')
  BY Growth
<1>1. /\ held \subseteq Held(Len(m_val')) /\ known \in [Thread -> SUBSET Name]
      /\ seen \in [Thread -> SUBSET (1..Len(m_val'))]
      /\ thrown \in [Thread -> SUBSET (0..Len(m_val'))]
  BY <1>0 DEF Inv, HistoryOK
<1>2. CASE UNCHANGED <<held, known, seen, thrown>>
  BY <1>1, <1>2 DEF HistoryOK
<1>3. ASSUME NEW h, h \subseteq Held(Len(m_val')), held' = held \cup h,
             UNCHANGED <<known, seen, thrown>>
      PROVE  HistoryOK'
  BY <1>1, <1>3 DEF HistoryOK
<1>4. ASSUME NEW t \in Thread, name[t] \in Names PROVE Cast(t) \subseteq Held(Len(m_val'))
  <2>0. s_data[name[t]].id \in 1..Len(m_val) /\ name[t] \in Name
    BY <1>4, EntryTyped
  <2>1. name[t] \in Name /\ type[t] \in Type /\ s_data[name[t]].id \in 1..Len(m_val')
    BY <1>0, <2>0 DEF Inv, FramesOK
  <2>2. QED
    BY <2>1 DEF Cast
<1>5. ASSUME NEW t \in Thread, LookupExists(t) \/ Find(t) PROVE HistoryOK'
  <2>1. CASE LookupExists(t)
    BY <1>3, <1>4, <2>1 DEF LookupExists
  <2>2. CASE Find(t)
    BY <1>3, <1>4, <2>2 DEF Find
  <2>3. QED
    BY <1>5, <2>1, <2>2
<1>6. ASSUME NEW t \in Thread, LookupCreate(t) PROVE HistoryOK'
  <2>1. Len(m_val') = Len(m_val) + 1 /\ name[t] \in Name /\ type[t] \in Type
    BY <1>6, CreateSteps, NameAssumption DEF Inv, FramesOK
  <2>2. [name |-> name[t], type |-> type[t], id |-> Len(m_val) + 1] \in Held(Len(m_val'))
    BY <1>0, <2>1
  <2>3. held' = held \cup {[name |-> name[t], type |-> type[t], id |-> Len(m_val) + 1]}
        /\ UNCHANGED <<known, seen, thrown>>
    BY <1>6 DEF LookupCreate
  <2> HIDE DEF Held
  <2>4. QED
    BY <1>3, <2>2, <2>3
<1>7. ASSUME NEW t \in Thread, CallLoad(t) PROVE HistoryOK'
  <2>1. Names \subseteq Name
    BY EntryTyped
  <2>2. /\ known' = [known EXCEPT ![t] = Names] /\ thrown' = [thrown EXCEPT ![t] = {}]
        /\ UNCHANGED <<held, seen>>
    BY <1>7 DEF CallLoad
  <2>3. QED
    BY <1>1, <2>1, <2>2 DEF HistoryOK
<1>8. ASSUME NEW t \in Thread, VisitLock(t) PROVE HistoryOK'
  BY <1>1, <1>8 DEF VisitLock, VisitStart, HistoryOK
<1>9. ASSUME NEW t \in Thread, VisitCall(t) PROVE HistoryOK'
  <2>1. name[t] \in Names
    BY <1>9 DEF VisitCall, Inv, Visiting
  <2>0. s_data[name[t]].id \in 1..Len(m_val)
    BY <2>1, EntryTyped
  <2>2. s_data[name[t]].id \in 1..Len(m_val')
    BY <1>0, <2>0
  <2>3. seen' = [seen EXCEPT ![t] = @ \cup {s_data[name[t]].id}]
        /\ UNCHANGED <<held, known, thrown>>
    BY <1>9 DEF VisitCall
  <2>4. seen' \in [Thread -> SUBSET (1..Len(m_val'))]
    BY <1>1, <2>2, <2>3
  <2>5. QED
    BY <1>1, <2>3, <2>4 DEF HistoryOK
<1>10. ASSUME NEW t \in Thread, LoadThrows(t) PROVE HistoryOK'
  <2>1. var[t] \in 0..Len(m_val')
    BY <1>0 DEF Inv, FramesOK
  <2>2. thrown' = [thrown EXCEPT ![t] = @ \cup {var[t]}] /\ UNCHANGED <<held, known, seen>>
    BY <1>10 DEF LoadThrows
  <2>3. QED
    BY <1>1, <2>1, <2>2 DEF HistoryOK
<1>11. QED
  BY <1>2, <1>5, <1>6, <1>7, <1>8, <1>9, <1>10
     DEF Next, Call, CallLookup, CallFind, CallVisit, Step, Lookup, LookupLock, LookupInvalid,
         LookupMissing, FindLock, Load, LoadLock, LoadMissing, LoadFind, LoadSet, LoadEnd, Visit,
         VisitEnd, Finished

-----------------------------------------------------------------------------
(* The steps of one thread as another sees them *)

Frame(u) == <<pc[u], name[u], nodes[u], var[u], seen[u]>>

(* A thread changes nothing in the frame of another.                        *)
LEMMA Apart ==
  ASSUME Inv, NEW t \in Thread, Call(t) \/ Step(t), NEW u \in Thread, u # t
  PROVE  UNCHANGED Frame(u)
<1>1. /\ pc \in [Thread -> Label] /\ name \in [Thread -> Name \cup {0}]
      /\ nodes \in [Thread -> Seq([key : Name, text : Text])]
      /\ var \in [Thread -> 0..Len(m_val)] /\ seen \in [Thread -> SUBSET (1..Len(m_val))]
  BY DEF Inv, Typed, FramesOK, HistoryOK
<1>2. CASE Call(t)
  BY <1>1, <1>2 DEF Frame, Call, CallLookup, CallFind, CallLoad, CallVisit, Enter
<1>3. CASE Lookup(t)
  BY <1>1, <1>3 DEF Frame, Lookup, LookupLock, LookupExists, LookupInvalid, LookupMissing,
     LookupCreate, WriteLock, Return
<1>4. CASE FindLock(t) \/ Find(t)
  BY <1>1, <1>4 DEF Frame, FindLock, Find, ReadLock, Return
<1>5. CASE Load(t)
  BY <1>1, <1>5 DEF Frame, Load, LoadLock, LoadMissing, LoadFind, LoadSet, LoadThrows, LoadEnd,
     ReadLock
<1>6. CASE Visit(t)
  BY <1>1, <1>6 DEF Frame, Visit, VisitLock, VisitStart, VisitCall, VisitEnd, ReadLock, Return
<1>7. QED
  BY <1>2, <1>3, <1>4, <1>5, <1>6 DEF Step

(* While a thread is under the lock nobody else changes the map.            *)
LEMMA MapHeld ==
  ASSUME Inv, [Next]_vars, NEW u \in Thread, pc[u] \in Writing \cup Reading, ~ LookupCreate(u)
  PROVE  UNCHANGED s_data
<1>1. ASSUME NEW t \in Thread, LookupCreate(t) PROVE FALSE
  <2>1. pc[t] \in Writing /\ t # u
    BY <1>1 DEF LookupCreate, Return, Writing
  <2>2. s_lock.writer = t /\ s_lock.readers = {}
    BY <2>1, ValueAssumption DEF Inv, LockHeld
  <2>3. QED
    BY <2>1, <2>2 DEF Inv, LockHeld
<1>2. QED
  BY <1>1, MapSteps

(* The name to create is missing until it is created.                       *)
LEMMA NextCreating == Inv /\ [Next]_vars => Creating'
<1> SUFFICES ASSUME Inv, [Next]_vars, NEW u \in Thread, pc'[u] = "create"
             PROVE  name'[u] \in Valid /\ name'[u] \notin Names'
  BY DEF Creating
<1>0. pc \in [Thread -> Label]
  BY DEF Inv, Typed
<1>1. ASSUME pc[u] = "create", name'[u] = name[u], ~ LookupCreate(u)
      PROVE  name'[u] \in Valid /\ name'[u] \notin Names'
  <2>1. UNCHANGED s_data
    BY <1>1, MapHeld DEF Writing
  <2>2. QED
    BY <1>1, <2>1 DEF Inv, Creating, Names
<1>2. ASSUME NEW t \in Thread, Call(t) \/ Step(t), t # u
      PROVE  name'[u] \in Valid /\ name'[u] \notin Names'
  <2>1. pc'[u] = pc[u] /\ name'[u] = name[u]
    BY <1>2, Apart DEF Frame
  <2>2. ~ LookupCreate(u)
    BY <1>0, <2>1 DEF LookupCreate, Return
  <2>3. QED
    BY <1>1, <2>1, <2>2
<1>3. CASE LookupMissing(u)
  BY <1>3 DEF LookupMissing, Names
<1>4. ASSUME Call(u) \/ Step(u), ~ LookupMissing(u) PROVE FALSE
  <2>1. ASSUME NEW to, to # "create", pc' = [pc EXCEPT ![u] = to] PROVE FALSE
    BY <1>0, <2>1
  <2>2. ~ Call(u)
    BY <2>1 DEF Call, CallLookup, CallFind, CallLoad, CallVisit, Enter
  <2>3. ~ Lookup(u)
    BY <1>4, <2>1 DEF Lookup, LookupLock, LookupExists, LookupInvalid, LookupCreate, WriteLock,
       Return
  <2>4. ~ FindLock(u) /\ ~ Find(u) /\ ~ Visit(u)
    BY <2>1 DEF FindLock, Find, ReadLock, Return, Visit, VisitLock, VisitCall, VisitEnd
  <2>5. ~ Load(u)
    BY <2>1 DEF Load, LoadLock, LoadMissing, LoadFind, LoadSet, LoadThrows, LoadEnd, ReadLock
  <2>6. QED
    BY <1>4, <2>2, <2>3, <2>4, <2>5 DEF Step
<1>5. CASE UNCHANGED vars
  BY <1>5 DEF Inv, Creating, Names
<1>6. QED
  BY <1>2, <1>3, <1>4, <1>5 DEF Next, Finished

(* A load has a node to deal with, and then a variable for it.              *)
LEMMA NextLoading == Inv /\ [Next]_vars => Loading'
<1> SUFFICES ASSUME Inv, [Next]_vars, NEW u \in Thread
             PROVE  /\ pc'[u] \in {"load_find", "load_set"} => nodes'[u] # <<>>
                    /\ pc'[u] = "load_set" => var'[u] \in 1..Len(m_val')
  BY DEF Loading
<1> DEFINE Loads == /\ pc'[u] \in {"load_find", "load_set"} => nodes'[u] # <<>>
                    /\ pc'[u] = "load_set" => var'[u] \in 1..Len(m_val')
<1>0. /\ Len(m_val) \in Nat /\ Len(m_val') \in Nat /\ Len(m_val) <= Len(m_val')
      /\ pc \in [Thread -> Label]
  BY Growth DEF Inv, Typed
<1>1. ASSUME pc'[u] = pc[u], nodes'[u] = nodes[u], var'[u] = var[u] PROVE Loads
  BY <1>0, <1>1 DEF Inv, Loading
<1>2. ASSUME NEW t \in Thread, Call(t) \/ Step(t), t # u PROVE Loads
  BY <1>1, <1>2, Apart DEF Frame
<1>3. ASSUME LoadLock(u) PROVE Loads
  BY <1>0, <1>3 DEF LoadLock, ReadLock
<1>4. ASSUME LoadFind(u) PROVE Loads
  <2>1. pc[u] = "load_find" /\ nodes' = nodes /\ Key(u) \in Names
    BY <1>4 DEF LoadFind
  <2>2. nodes'[u] # <<>>
    BY <2>1 DEF Inv, Loading
  <2>3. s_data[Key(u)].id \in 1..Len(m_val')
    <3>1. s_data[Key(u)].id \in 1..Len(m_val)
      BY <2>1, EntryTyped
    <3>2. QED
      BY <1>0, <3>1
  <2>4. var'[u] = s_data[Key(u)].id
    BY <1>4 DEF LoadFind, Inv, FramesOK
  <2>5. QED
    BY <2>2, <2>3, <2>4
<1>5. ASSUME Call(u) \/ Step(u), ~ LoadLock(u), ~ LoadFind(u) PROVE Loads
  <2>1. ASSUME NEW to, to # "load_find", to # "load_set", pc' = [pc EXCEPT ![u] = to] PROVE Loads
    BY <1>0, <2>1
  <2> HIDE DEF Loads
  <2>2. CASE Call(u)
    BY <2>1, <2>2 DEF Call, CallLookup, CallFind, CallLoad, CallVisit, Enter
  <2>3. CASE Lookup(u)
    BY <2>1, <2>3 DEF Lookup, LookupLock, LookupExists, LookupInvalid, LookupMissing, LookupCreate,
       WriteLock, Return
  <2>4. CASE FindLock(u) \/ Find(u) \/ Visit(u)
    BY <2>1, <2>4 DEF FindLock, Find, ReadLock, Return, Visit, VisitLock, VisitCall, VisitEnd
  <2>5. CASE Load(u)
    BY <1>5, <2>1, <2>5 DEF Load, LoadMissing, LoadSet, LoadThrows, LoadEnd
  <2>6. QED
    BY <1>5, <2>2, <2>3, <2>4, <2>5 DEF Step
<1>6. ASSUME UNCHANGED vars PROVE Loads
  BY <1>1, <1>6
<1> HIDE DEF Loads
<1>7. Loads
  BY <1>2, <1>3, <1>4, <1>5, <1>6 DEF Next, Finished
<1>8. QED
  BY <1>7 DEF Loads

-----------------------------------------------------------------------------
(* Visit *)

(* The names that are before the iterator of t.                             *)
Passed(t) == {m \in Names : name[t] = 0 \/ m < name[t]}

(* A visit goes from a name to the next, in a map that does not change.     *)
LEMMA NextVisits ==
  Inv /\ VisitsEach /\ [Next]_vars => Visiting' /\ VisitsEach'
<1> SUFFICES ASSUME Inv, VisitsEach, [Next]_vars, NEW u \in Thread, pc'[u] = "visit"
             PROVE  /\ name'[u] # 0 => name'[u] \in Names'
                    /\ seen'[u] = {s_data'[n].id : n \in Passed(u)'}
  BY DEF Visiting, VisitsEach, Passed
<1> DEFINE Visits == /\ name'[u] # 0 => name'[u] \in Names'
                     /\ seen'[u] = {s_data'[n].id : n \in Passed(u)'}
<1>0. /\ pc \in [Thread -> Label] /\ Names \subseteq Nat \ {0} /\ \A n \in Name : n \in Nat
      /\ name \in [Thread -> Name \cup {0}] /\ seen \in [Thread -> SUBSET (1..Len(m_val))]
  BY EntryTyped, NameAssumption DEF Inv, Typed, FramesOK, HistoryOK
<1>1. ASSUME pc[u] = "visit", name'[u] = name[u], seen'[u] = seen[u] PROVE Visits
  <2>1. UNCHANGED s_data
    <3>1. ~ LookupCreate(u)
      BY <1>1 DEF LookupCreate, Return
    <3>2. QED
      BY <1>1, <3>1, MapHeld DEF Reading
  <2>2. Names' = Names /\ Passed(u)' = Passed(u)
    BY <1>1, <2>1 DEF Names, Passed
  <2>3. seen[u] = {s_data[n].id : n \in Passed(u)} /\ (name[u] # 0 => name[u] \in Names)
    BY <1>1 DEF VisitsEach, Passed, Inv, Visiting
  <2>4. QED
    BY <1>1, <2>1, <2>2, <2>3
<1>2. ASSUME NEW t \in Thread, Call(t) \/ Step(t), t # u PROVE Visits
  BY <1>1, <1>2, Apart DEF Frame
<1>3. ASSUME VisitLock(u) PROVE Visits
  <2>1. name'[u] = NextName(0) /\ seen'[u] = {} /\ UNCHANGED s_data
    BY <1>0, <1>3 DEF VisitLock, VisitStart
  <2>2. Names' = Names
    BY <2>1 DEF Names
  <2>3. /\ NextName(0) = 0 => \A k \in Names : k <= 0
        /\ NextName(0) # 0 => NextName(0) \in Names /\ \A k \in Names : k > 0 => NextName(0) <= k
    BY <1>0, NextNameIsNext
  <2>4. \A k \in Names : k > 0 /\ k \in Nat
    BY <1>0
  <2>5. Passed(u)' = {}
    <3>1. ASSUME NEW k \in Names, NextName(0) = 0 \/ k < NextName(0) PROVE FALSE
      <4>1. k \in Nat /\ k > 0
        BY <2>4
      <4>2. CASE NextName(0) = 0
        BY <2>3, <4>1, <4>2
      <4>3. CASE NextName(0) # 0
        <5>1. NextName(0) \in Nat /\ NextName(0) <= k
          BY <2>3, <2>4, <4>1, <4>3
        <5>2. QED
          BY <3>1, <4>1, <4>3, <5>1
      <4>4. QED
        BY <4>2, <4>3
    <3>2. Passed(u)' = {k \in Names : NextName(0) = 0 \/ k < NextName(0)}
      BY <2>1, <2>2 DEF Passed
    <3>3. QED
      BY <3>1, <3>2
  <2>6. QED
    BY <2>1, <2>2, <2>3, <2>5
<1>4. ASSUME VisitCall(u) PROVE Visits
  <2> DEFINE n == name[u]
             m == NextName(name[u])
  <2>1. /\ pc[u] = "visit" /\ n # 0 /\ name'[u] = m /\ UNCHANGED s_data
        /\ seen'[u] = seen[u] \cup {s_data[n].id}
    BY <1>0, <1>4 DEF VisitCall
  <2>2. n \in Names /\ n \in Nat /\ Names' = Names
    BY <1>0, <2>1 DEF Inv, Visiting, Names
  <2>3. /\ m = 0 => \A k \in Names : k <= n
        /\ m # 0 => m \in Names /\ m > n /\ \A k \in Names : k > n => m <= k
    BY <1>0, <2>2, NextNameIsNext
  <2> HIDE DEF m, n
  <2>4. \A k \in Names : (m = 0 \/ k < m) <=> (k < n \/ k = n)
    <3>0. \A k \in Names : k \in Nat
      BY <1>0
    <3>1. m \in Nat
      BY <2>3, <3>0
    <3>2. QED
      BY <2>2, <2>3, <3>0, <3>1
  <2>5. Passed(u)' = Passed(u) \cup {n}
    BY <2>1, <2>2, <2>4 DEF Passed, n
  <2>6. seen[u] = {s_data[k].id : k \in Passed(u)}
    BY <2>1 DEF VisitsEach, Passed
  <2>7. seen'[u] = {s_data'[k].id : k \in Passed(u)'}
    BY <2>1, <2>5, <2>6
  <2>8. QED
    BY <2>1, <2>2, <2>3, <2>7
<1>5. ASSUME Call(u) \/ Step(u), ~ VisitLock(u), ~ VisitCall(u) PROVE FALSE
  <2>1. ASSUME NEW to, to # "visit", pc' = [pc EXCEPT ![u] = to] PROVE FALSE
    BY <1>0, <2>1
  <2>2. ~ Call(u)
    BY <2>1 DEF Call, CallLookup, CallFind, CallLoad, CallVisit, Enter
  <2>3. ~ Lookup(u)
    BY <2>1 DEF Lookup, LookupLock, LookupExists, LookupInvalid, LookupMissing, LookupCreate,
       WriteLock, Return
  <2>4. ~ FindLock(u) /\ ~ Find(u) /\ ~ Visit(u)
    BY <1>5, <2>1 DEF FindLock, Find, ReadLock, Return, Visit, VisitEnd
  <2>5. ~ Load(u)
    BY <2>1 DEF Load, LoadLock, LoadMissing, LoadFind, LoadSet, LoadThrows, LoadEnd, ReadLock
  <2>6. QED
    BY <1>5, <2>2, <2>3, <2>4, <2>5 DEF Step
<1>6. ASSUME UNCHANGED vars PROVE Visits
  BY <1>1, <1>6
<1> HIDE DEF Visits
<1>7. Visits
  BY <1>2, <1>3, <1>4, <1>5, <1>6 DEF Next, Finished
<1>8. QED
  BY <1>7 DEF Visits

-----------------------------------------------------------------------------
(* Lookup *)

(* What has been returned stays in the map.                                 *)
LEMMA NextHeld ==
  Inv /\ HeldIsRegistered /\ [Next]_vars => HeldIsRegistered'
<1> SUFFICES ASSUME Inv, HeldIsRegistered, [Next]_vars PROVE HeldIsRegistered'
  OBVIOUS
<1> DEFINE Registered(h) == h.name \in Names' /\ s_data'[h.name] = [type |-> h.type, id |-> h.id]
<1>1. \A h \in held : Registered(h)
  <2>1. Names \subseteq Names' /\ \A n \in Names : s_data'[n] = s_data[n]
    BY Growth
  <2>2. QED
    BY <2>1 DEF HeldIsRegistered
<1>2. CASE UNCHANGED held
  BY <1>1, <1>2 DEF HeldIsRegistered
<1>3. ASSUME NEW t \in Thread, LookupExists(t) \/ Find(t) PROVE HeldIsRegistered'
  <2>1. UNCHANGED s_data
    BY <1>3 DEF LookupExists, Find
  <2>2. ASSUME name[t] \in Names, NEW h \in Cast(t) PROVE Registered(h)
    <3>1. /\ h = [name |-> name[t], type |-> type[t], id |-> s_data[name[t]].id]
          /\ s_data[name[t]].type = type[t]
      BY <2>2 DEF Cast
    <3>2. s_data[name[t]] = [type |-> type[t], id |-> s_data[name[t]].id]
      BY <2>2, <3>1, EntryTyped
    <3>3. name[t] \in Names'
      BY <2>1, <2>2 DEF Names
    <3>4. QED
      BY <2>1, <3>1, <3>2, <3>3
  <2>3. \A h \in held' : h \in held \/ (name[t] \in Names /\ h \in Cast(t))
    BY <1>3 DEF LookupExists, Find
  <2> HIDE DEF Registered
  <2>4. \A h \in held' : Registered(h)
    BY <1>1, <2>2, <2>3
  <2>5. QED
    BY <2>4 DEF Registered, HeldIsRegistered
<1>4. ASSUME NEW t \in Thread, LookupCreate(t) PROVE HeldIsRegistered'
  <2>1. /\ Names' = Names \cup {name[t]}
        /\ s_data'[name[t]] = [type |-> type[t], id |-> Len(m_val) + 1]
    BY <1>4, CreateSteps
  <2>2. held' = held \cup {[name |-> name[t], type |-> type[t], id |-> Len(m_val) + 1]}
    BY <1>4 DEF LookupCreate
  <2>3. Registered([name |-> name[t], type |-> type[t], id |-> Len(m_val) + 1])
    BY <2>1
  <2> HIDE DEF Registered
  <2>4. \A h \in held' : Registered(h)
    BY <1>1, <2>2, <2>3
  <2>5. QED
    BY <2>4 DEF Registered, HeldIsRegistered
<1>5. QED
  BY <1>2, <1>3, <1>4
     DEF Next, Call, CallLookup, CallFind, CallLoad, CallVisit, Step, Lookup, LookupLock,
         LookupInvalid, LookupMissing, FindLock, Load, LoadLock, LoadMissing, LoadFind, LoadSet,
         LoadThrows, LoadEnd, Visit, VisitLock, VisitStart, VisitCall, VisitEnd, Finished

-----------------------------------------------------------------------------
(* LoadFromYaml *)

(* The node e sets the variable n, which has the type T.                    *)
Sets(e, n, T) == Lower[e.key] = n /\ <<T, e.text>> \notin Refused

(* v is the text of the last of the first k nodes of list that sets n.      *)
LastSet(list, k, n, T, v) ==
  \A i \in 1..k :
    Sets(list[i], n, T) /\ (\A j \in i + 1..k : ~ Sets(list[j], n, T)) => v = list[i].text

(* What is left of list after its first k nodes.                            *)
Rest(s, list, k) ==
  k \in Nat /\ Len(list) = k + Len(s) /\ \A i \in 1..Len(s) : s[i] = list[k + i]

(* The first node is the next one, and without it one less is left.         *)
LEMMA RestSteps ==
  ASSUME NEW list \in Seq(Node), NEW s \in Seq(Node), s # <<>>, NEW k, Rest(s, list, k)
  PROVE  Head(s) = list[k + 1] /\ Head(s) \in Node /\ Rest(Tail(s), list, k + 1)
<1>1. /\ Len(Tail(s)) = Len(s) - 1 /\ \A i \in 1..Len(Tail(s)) : Tail(s)[i] = s[i + 1]
      /\ Head(s) \in Node /\ Tail(s) \in Seq(Node)
  BY HeadTailProperties
<1>2. Len(s) \in Nat /\ Len(s) > 0 /\ Len(list) \in Nat /\ Head(s) = s[1]
  BY LenProperties, EmptySeq
<1>3. Head(s) = list[k + 1]
  BY <1>2 DEF Rest
<1>4. \A i \in 1..Len(Tail(s)) : Tail(s)[i] = list[(k + 1) + i]
  <2>1. ASSUME NEW i \in 1..Len(Tail(s)) PROVE Tail(s)[i] = list[(k + 1) + i]
    <3>1. i + 1 \in 1..Len(s) /\ k + (i + 1) = (k + 1) + i
      BY <1>1, <1>2 DEF Rest
    <3>2. Tail(s)[i] = s[i + 1] /\ s[i + 1] = list[k + (i + 1)]
      BY <1>1, <3>1 DEF Rest
    <3>3. QED
      BY <3>1, <3>2
  <2>2. QED
    BY <2>1
<1>5. k + 1 \in Nat /\ Len(list) = (k + 1) + Len(Tail(s))
  BY <1>1, <1>2 DEF Rest
<1>6. QED
  BY <1>1, <1>3, <1>4, <1>5 DEF Rest

(* One more node either sets the variable or leaves its value.              *)
LEMMA LastSetSteps ==
  ASSUME NEW list, NEW k \in Nat, NEW n, NEW T, NEW v, NEW w, LastSet(list, k, n, T, v),
         \/ Sets(list[k + 1], n, T) /\ w = list[k + 1].text
         \/ ~ Sets(list[k + 1], n, T) /\ w = v
  PROVE  LastSet(list, k + 1, n, T, w)
<1> SUFFICES ASSUME NEW i \in 1..k + 1, Sets(list[i], n, T),
                    \A j \in i + 1..k + 1 : ~ Sets(list[j], n, T)
             PROVE  w = list[i].text
  BY DEF LastSet
<1>1. CASE i = k + 1
  BY <1>1
<1>2. CASE i \in 1..k
  <2>1. k + 1 \in i + 1..k + 1 /\ \A j \in i + 1..k : j \in i + 1..k + 1
    BY <1>2
  <2>2. v = list[i].text
    BY <1>2, <2>1 DEF LastSet
  <2>3. QED
    BY <2>1, <2>2
<1>3. QED
  BY <1>1, <1>2

(* A non-empty set of naturals that is bounded has a greatest element. *)
LEMMA GreatestNat ==
  ASSUME NEW m \in Nat, NEW S, S \subseteq 0..m, S # {}
  PROVE  \E x \in S : \A y \in S : y <= x
<1> DEFINE T == {m - x : x \in S}
<1>1. T \subseteq Nat /\ T # {}
  <2>1. \A x \in S : x \in 0..m
    OBVIOUS
  <2>2. \A x \in S : m - x \in Nat
    BY <2>1
  <2>3. QED
    BY <2>2
<1> HIDE DEF T
<1>2. PICK y \in T : \A z \in T : y <= z
  <2>1. PICK y \in T : \A z \in T : <<z, y>> \notin OpToRel(<, Nat)
    BY <1>1, NatLessThanWellFounded, WFMin
  <2>2. y \in Nat /\ \A z \in T : z \in Nat /\ ~ (z < y)
    BY <1>1, <2>1 DEF OpToRel
  <2>3. QED
    BY <2>2
<1>3. PICK x \in S : y = m - x
  BY <1>2 DEF T
<1>4. ASSUME NEW w \in S PROVE w <= x
  <2>1. m - w \in T
    BY DEF T
  <2>2. m - x <= m - w
    BY <1>2, <1>3, <2>1
  <2>3. QED
    BY <2>2
<1>5. QED
  BY <1>4

(* When all nodes of the list of d are dealt with, the variable has what    *)
(* the last node of d that sets it says.                                    *)
LEMMA LastSetApplied ==
  ASSUME NEW d \in Seq(Node), NEW n, NEW v, Hits(d, n) # {},
         LastSet(ListAllMember(d), Len(ListAllMember(d)), n, s_data[n].type, v)
  PROVE  v = LastHit(d, Hits(d, n))
<1> DEFINE hits == Hits(d, n)
           T == s_data[n].type
<1>0. /\ hits # {}
      /\ hits = {i \in DOMAIN d : d[i].key \in Valid /\ Lower[d[i].key] = n
                                  /\ <<T, d[i].text>> \notin Refused}
  BY DEF Hits
<1> SUFFICES v = LastHit(d, hits)
  OBVIOUS
<1> USE <1>0
<1> HIDE DEF hits, T
<1> DEFINE list == ListAllMember(d)
<1>1. list \in Seq(Node) /\ Len(list) \in Nat /\ Len(d) \in Nat /\ DOMAIN d = 1..Len(d)
  BY Listed, LenProperties
<1>2. PICK at : Places(list, d, Len(d), at)
  BY Listed
<1> HIDE DEF list
<1>3. hits \subseteq 0..Len(d)
  <2>1. hits \subseteq DOMAIN d
    BY <1>0, Zenon
  <2>2. DOMAIN d \subseteq 0..Len(d)
    <3> HIDE <1>0
    <3>1. QED
      BY <1>1
  <2>3. QED
    BY <2>1, <2>2, Zenon
<1>4. \E i \in hits : \A j \in hits : j <= i
  <2> HIDE <1>0
  <2>1. hits # {}
    BY <1>0
  <2>2. QED
    BY <1>1, <1>3, <2>1, GreatestNat
<1> DEFINE last == CHOOSE i \in hits : \A j \in hits : j <= i
<1>5. last \in hits /\ \A j \in hits : j <= last
  BY <1>4
<1>6. LastHit(d, hits) = d[last].text
  BY DEF LastHit
<1> HIDE DEF last
<1>7. PICK k \in 1..Len(list) : at[k] = last
  BY <1>1, <1>2, <1>5 DEF Places
<1>8. list[k] = d[last] /\ Sets(list[k], n, T)
  BY <1>2, <1>5, <1>7 DEF Places, Sets
<1>9. ASSUME NEW j \in k + 1..Len(list) PROVE ~ Sets(list[j], n, T)
  <2>1. j \in 1..Len(list) /\ k < j
    BY <1>1
  <2>2. at[j] \in 1..Len(d) /\ list[j] = d[at[j]] /\ d[at[j]].key \in Valid /\ last < at[j]
    BY <1>2, <1>7, <2>1 DEF Places
  <2>3. at[j] \notin hits
    <3>1. last \in 1..Len(d)
      BY <1>1, <1>5
    <3>2. ~ (at[j] <= last)
      BY <2>2, <3>1
    <3>3. QED
      BY <1>5, <3>2
  <2>4. QED
    BY <1>1, <2>2, <2>3 DEF Sets
<1>10. QED
  BY <1>6, <1>7, <1>8, <1>9 DEF LastSet, list, T

(* Two names never have one object.                                         *)
OwnObject == \A m, n \in Names : s_data[m].id = s_data[n].id => m = n

LEMMA NextOwnObject == Inv /\ OwnObject /\ [Next]_vars => OwnObject'
<1> SUFFICES ASSUME Inv, OwnObject, [Next]_vars PROVE OwnObject'
  OBVIOUS
<1>1. CASE UNCHANGED s_data
  BY <1>1 DEF OwnObject, Names
<1>2. ASSUME NEW t \in Thread, LookupCreate(t) PROVE OwnObject'
  <2>0. /\ Names' = Names \cup {name[t]} /\ name[t] \in Valid \ Names
        /\ s_data'[name[t]] = [type |-> type[t], id |-> Len(m_val) + 1]
        /\ \A n \in Names : s_data'[n] = s_data[n]
    BY <1>2, CreateSteps
  <2>1. /\ Names' = Names \cup {name[t]} /\ name[t] \notin Names
        /\ s_data'[name[t]].id = Len(m_val) + 1 /\ \A n \in Names : s_data'[n] = s_data[n]
    BY <2>0
  <2>2. Len(m_val) \in Nat /\ \A n \in Names : s_data[n].id # Len(m_val) + 1
    <3>1. \A n \in Names : s_data[n].id \in 1..Len(m_val)
      BY EntryTyped
    <3>2. Len(m_val) \in Nat
      BY Growth
    <3>3. QED
      BY <3>1, <3>2
  <2>3. QED
    BY <2>1, <2>2 DEF OwnObject
<1>3. QED
  BY <1>1, <1>2, MapSteps

(* A thread inside LoadFromYaml: k nodes of its document are dealt with,    *)
(* and every variable there was at the beginning that no listener has       *)
(* thrown for has what they say.                                            *)
LoadPlace == {"load", "load_find", "load_set"}

Value(n) == m_val[s_data[n].id]

Applied(t, k) ==
  /\ Rest(nodes[t], ListAllMember(doc[t]), k)
  /\ \A n \in known[t] : \/ s_data[n].id \in thrown[t]
                          \/ LastSet(ListAllMember(doc[t]), k, n, s_data[n].type, Value(n))

Loaded(t) ==
  /\ t \in Loader /\ doc[t] \in Document /\ known[t] \subseteq Names
  /\ \E k \in Nat : Applied(t, k)
  /\ pc[t] = "load_set" =>
       Key(t) \in Names /\ s_data[Key(t)] = [type |-> type[t], id |-> var[t]]

LoadsApply ==
  /\ doc \in [Thread -> Document \cup {<<>>}]
  /\ \A t \in Thread : pc[t] \in LoadPlace => Loaded(t)

(* The values change only in a load.                                        *)
LEMMA ValuesKept ==
  ASSUME Inv, [Next]_vars, \A t \in Thread : ~ LoadSet(t), NEW n \in Names
  PROVE  Value(n)' = Value(n) /\ s_data'[n] = s_data[n]
<1>1. s_data'[n] = s_data[n] /\ s_data[n].id \in 1..Len(m_val)
  BY Growth, EntryTyped
<1>2. CASE UNCHANGED m_val
  BY <1>1, <1>2 DEF Value
<1>3. ASSUME NEW t \in Thread, LookupCreate(t) PROVE Value(n)' = Value(n)
  <2>1. m_val' = Append(m_val, Default) /\ m_val \in Seq(Text \cup {Default})
    BY <1>3 DEF LookupCreate, Inv, MapOK
  <2>2. m_val'[s_data[n].id] = m_val[s_data[n].id]
    BY <1>1, <2>1, AppendProperties
  <2>3. QED
    BY <1>1, <2>2 DEF Value
<1>4. QED
  BY <1>1, <1>2, <1>3, MapSteps

(* A thread changes nothing that belongs to the load of another.            *)
LEMMA LoadsApart ==
  ASSUME Inv, doc \in [Thread -> Document \cup {<<>>}],
         NEW t \in Thread, Call(t) \/ Step(t), NEW u \in Thread, u # t
  PROVE  UNCHANGED <<Frame(u), type[u], doc[u], known[u], thrown[u]>>
<1>1. UNCHANGED Frame(u)
  BY Apart
<1>2. /\ type \in [Thread -> Type] /\ known \in [Thread -> SUBSET Name]
      /\ thrown \in [Thread -> SUBSET (0..Len(m_val))]
  BY DEF Inv, FramesOK, HistoryOK
<1>3. UNCHANGED type[u]
  BY <1>2 DEF Call, CallLookup, CallFind, CallLoad, CallVisit, Step, Lookup, LookupLock,
     LookupExists, LookupInvalid, LookupMissing, LookupCreate, FindLock, Find, Load, LoadLock,
     LoadMissing, LoadFind, LoadSet, LoadThrows, LoadEnd, Visit, VisitLock, VisitStart, VisitCall,
     VisitEnd
<1>4. UNCHANGED <<doc[u], known[u], thrown[u]>>
  BY <1>2 DEF Call, CallLookup, CallFind, CallLoad, CallVisit, Step, Lookup, LookupLock,
     LookupExists, LookupInvalid, LookupMissing, LookupCreate, FindLock, Find, Load, LoadLock,
     LoadMissing, LoadFind, LoadSet, LoadThrows, LoadEnd, Visit, VisitLock, VisitStart, VisitCall,
     VisitEnd
<1>5. QED
  BY <1>1, <1>3, <1>4

(* What a step leaves of a load that it does not advance.                   *)
LEMMA LoadKept ==
  ASSUME Inv, [Next]_vars, \A t \in Thread : ~ LoadSet(t), NEW u \in Thread, Loaded(u),
         UNCHANGED <<nodes[u], doc[u], known[u], thrown[u]>>,
         pc'[u] = "load_set" => pc[u] = "load_set" /\ UNCHANGED <<type[u], var[u]>>
  PROVE  Loaded(u)'
<1>1. Names \subseteq Names' /\ \A n \in Names : s_data'[n] = s_data[n] /\ Value(n)' = Value(n)
  BY Growth, ValuesKept
<1>2. u \in Loader /\ doc'[u] \in Document /\ known'[u] \subseteq Names'
  BY <1>1 DEF Loaded
<1>3. PICK k \in Nat : Applied(u, k)
  BY DEF Loaded
<1>4. Applied(u, k)'
  <2>1. Rest(nodes[u], ListAllMember(doc[u]), k)'
    BY <1>3 DEF Applied
  <2>2. ASSUME NEW n \in known[u]
        PROVE  \/ s_data'[n].id \in thrown[u]
               \/ LastSet(ListAllMember(doc[u]), k, n, s_data'[n].type, Value(n)')
    <3>1. n \in Names
      BY <2>2 DEF Loaded
    <3>2. QED
      BY <1>1, <1>3, <3>1 DEF Applied
  <2>3. QED
    BY <2>1, <2>2 DEF Applied
<1>5. ASSUME pc'[u] = "load_set"
      PROVE  Key(u)' \in Names' /\ s_data'[Key(u)'] = [type |-> type'[u], id |-> var'[u]]
  <2>1. Key(u)' = Key(u)
    BY DEF Key
  <2>2. Key(u) \in Names /\ s_data[Key(u)] = [type |-> type[u], id |-> var[u]]
    BY <1>5 DEF Loaded
  <2>3. QED
    BY <1>1, <1>5, <2>1, <2>2
<1>6. QED
  BY <1>2, <1>3, <1>4, <1>5 DEF Loaded

(* A load that deals with its next node.                                    *)
LEMMA LoadAdvances ==
  ASSUME Inv, OwnObject, [Next]_vars, NEW u \in Thread, Loaded(u), doc[u] \in Document,
         pc \in [Thread -> Label], LoadMissing(u) \/ LoadSet(u) \/ LoadThrows(u)
  PROVE  Loaded(u)'
<1> DEFINE list == ListAllMember(doc[u])
           e == Head(nodes[u])
<1>1. /\ nodes[u] \in Seq(Node) /\ nodes[u] # <<>> /\ list \in Seq(Node)
      /\ nodes' = [nodes EXCEPT ![u] = Tail(@)] /\ nodes'[u] = Tail(nodes[u])
      /\ UNCHANGED <<s_data, doc, known>>
  <2>1. nodes[u] # <<>> /\ nodes \in [Thread -> Seq(Node)]
    BY DEF LoadMissing, LoadSet, LoadThrows, Inv, Loading, FramesOK, Node
  <2>2. list \in Seq(Node)
    BY Listed, ValueAssumption DEF Node
  <2>3. QED
    BY <2>1, <2>2 DEF LoadMissing, LoadSet, LoadThrows
<1>2. PICK k \in Nat : Applied(u, k)
  BY DEF Loaded
<1>3. e = list[k + 1] /\ e \in Node /\ Rest(Tail(nodes[u]), list, k + 1)
  BY <1>1, <1>2, RestSteps DEF Applied
<1>4. Names' = Names
  BY <1>1 DEF Names
<1>0. thrown[u] \subseteq thrown'[u]
  BY DEF LoadMissing, LoadSet, LoadThrows, Inv, HistoryOK
<1>5. ASSUME NEW n \in known[u], s_data[n].id \notin thrown'[u]
      PROVE  LastSet(list, k + 1, n, s_data[n].type, Value(n)')
  <2>0. n \in Names /\ s_data[n].id \in 1..Len(m_val) /\ s_data[n].id \notin thrown[u]
    BY <1>0, <1>5, EntryTyped DEF Loaded
  <2>1. LastSet(list, k, n, s_data[n].type, Value(n))
    BY <1>2, <1>5, <2>0 DEF Applied
  <2>2. \/ Sets(e, n, s_data[n].type) /\ Value(n)' = e.text
        \/ ~ Sets(e, n, s_data[n].type) /\ Value(n)' = Value(n)
    <3>1. CASE LoadMissing(u)
      <4>1. Key(u) \notin Names /\ UNCHANGED m_val
        BY <3>1 DEF LoadMissing
      <4>2. ~ Sets(e, n, s_data[n].type)
        BY <2>0, <4>1 DEF Sets, Key
      <4>3. QED
        BY <1>1, <4>1, <4>2 DEF Value
    <3>2. CASE LoadSet(u)
      <4>1. Key(u) \in Names /\ s_data[Key(u)].type = type[u] /\ s_data[Key(u)].id = var[u]
        BY <3>2 DEF LoadSet, Loaded
      <4>2. \/ <<type[u], e.text>> \in Refused /\ UNCHANGED m_val
            \/ <<type[u], e.text>> \notin Refused /\ m_val' = [m_val EXCEPT ![var[u]] = e.text]
        BY <3>2 DEF LoadSet
      <4>3. /\ m_val \in Seq(Text \cup {Default}) /\ var[u] \in 1..Len(m_val)
            /\ DOMAIN m_val = 1..Len(m_val)
        BY <4>1, EntryTyped, LenProperties DEF Inv, MapOK
      <4>4. CASE n = Key(u)
        BY <1>1, <4>1, <4>2, <4>3, <4>4 DEF Sets, Key, Value
      <4>5. CASE n # Key(u)
        <5>1. s_data[n].id # var[u]
          BY <2>0, <4>1, <4>5 DEF OwnObject
        <5>2. Value(n)' = Value(n)
          BY <1>1, <2>0, <4>2, <4>3, <5>1 DEF Value
        <5>3. QED
          BY <4>5, <5>2 DEF Sets, Key
      <4>6. QED
        BY <4>4, <4>5
    <3>3. CASE LoadThrows(u)
      <4>1. Key(u) \in Names /\ s_data[Key(u)].id = var[u] /\ UNCHANGED m_val
        BY <3>3 DEF LoadThrows, Loaded
      <4>2. thrown'[u] = thrown[u] \cup {var[u]}
        BY <3>3 DEF LoadThrows, Inv, HistoryOK
      <4>3. n # Key(u)
        BY <1>5, <4>1, <4>2
      <4>4. QED
        BY <1>1, <4>1, <4>3 DEF Sets, Key, Value
    <3>4. QED
      BY <3>1, <3>2, <3>3
  <2> HIDE DEF list, e
  <2>3. QED
    BY <1>3, <2>1, <2>2, LastSetSteps
<1>6. Applied(u, k + 1)'
  BY <1>1, <1>3, <1>5 DEF Applied
<1>7. pc'[u] = "load"
  BY DEF LoadMissing, LoadSet, LoadThrows
<1>8. k + 1 \in Nat
  BY <1>2
<1>9. QED
  BY <1>1, <1>4, <1>6, <1>7, <1>8 DEF Loaded

(* A load that begins.                                                      *)
LEMMA LoadBegins ==
  ASSUME Inv, doc \in [Thread -> Document \cup {<<>>}], NEW u \in Thread, CallLoad(u)
  PROVE  Loaded(u)'
<1>1. PICK d \in Document : /\ doc' = [doc EXCEPT ![u] = d]
                            /\ nodes' = [nodes EXCEPT ![u] = ListAllMember(d)]
  BY DEF CallLoad
<1>2. doc'[u] = d /\ nodes'[u] = ListAllMember(d) /\ known'[u] = Names /\ pc'[u] = "load"
  BY <1>1 DEF CallLoad, Enter, Inv, Typed, FramesOK, HistoryOK
<1>3. ListAllMember(d) \in Seq(Node)
  BY Listed, ValueAssumption DEF Node
<1>4. Rest(ListAllMember(d), ListAllMember(d), 0)
  <2> DEFINE list == ListAllMember(d)
  <2>1. Len(list) \in Nat
    BY <1>3, LenProperties
  <2> HIDE DEF list
  <2>2. Rest(list, list, 0)
    BY <2>1 DEF Rest
  <2>3. QED
    BY <2>2 DEF list
<1>5. \A n, T, v : LastSet(ListAllMember(d), 0, n, T, v)
  BY DEF LastSet
<1>6. Applied(u, 0)'
  BY <1>2, <1>4, <1>5 DEF Applied
<1>7. u \in Loader /\ Names' = Names
  BY DEF CallLoad, Names
<1>8. QED
  BY <1>1, <1>2, <1>6, <1>7 DEF Loaded

(* No document reaches a variable that was registered with a capital letter. *)
RawKept == \A n \in Names : Lower[n] # n => Value(n) = Default

LEMMA NextRawKept == Inv /\ OwnObject /\ LoadsApply /\ RawKept /\ [Next]_vars => RawKept'
<1> SUFFICES ASSUME Inv, OwnObject, LoadsApply, RawKept, [Next]_vars, NEW n \in Names', Lower[n] # n
             PROVE  Value(n)' = Default
  BY DEF RawKept
<1>1. CASE UNCHANGED <<s_data, m_val>>
  BY <1>1 DEF RawKept, Value, Names
<1>2. ASSUME NEW t \in Thread, LookupCreate(t) PROVE Value(n)' = Default
  <2>0. /\ Names' = Names \cup {name[t]}
        /\ s_data'[name[t]] = [type |-> type[t], id |-> Len(m_val) + 1]
        /\ \A k \in Names : s_data'[k] = s_data[k]
    BY <1>2, CreateSteps
  <2>1. /\ Names' = Names \cup {name[t]} /\ s_data'[name[t]].id = Len(m_val) + 1
        /\ \A k \in Names : s_data'[k] = s_data[k]
    BY <2>0
  <2>2. /\ m_val \in Seq(Text \cup {Default}) /\ Default \in Text \cup {Default}
        /\ m_val' = Append(m_val, Default)
    BY <1>2 DEF LookupCreate, Inv, MapOK
  <2>3. m_val'[Len(m_val) + 1] = Default /\ \A i \in 1..Len(m_val) : m_val'[i] = m_val[i]
    BY <2>2, AppendProperties
  <2>4. CASE n = name[t]
    BY <2>1, <2>3, <2>4 DEF Value
  <2>5. CASE n \in Names
    <3>1. s_data[n].id \in 1..Len(m_val)
      BY <2>5, EntryTyped
    <3>2. QED
      BY <2>1, <2>3, <2>5, <3>1 DEF RawKept, Value
  <2>6. QED
    BY <2>1, <2>4, <2>5
<1>3. ASSUME UNCHANGED s_data, NEW t \in Thread, LoadSet(t) PROVE Value(n)' = Default
  <2>1. n \in Names /\ s_data'[n] = s_data[n] /\ s_data[n].id \in 1..Len(m_val)
    <3>1. n \in Names
      BY <1>3 DEF Names
    <3>2. QED
      BY <1>3, <3>1, EntryTyped
  <2>2. Key(t) \in Names /\ s_data[Key(t)].id = var[t]
    <3>1. pc[t] = "load_set" /\ pc[t] \in LoadPlace
      BY <1>3 DEF LoadSet, LoadPlace
    <3>2. Loaded(t)
      BY <3>1 DEF LoadsApply
    <3>3. QED
      BY <3>1, <3>2 DEF Loaded
  <2>3. Lower[Key(t)] = Key(t)
    <3>1. nodes[t] \in Seq(Node) /\ nodes[t] # <<>>
      BY <1>3 DEF LoadSet, Inv, FramesOK, Loading, Node
    <3>2. Head(nodes[t]) \in Node
      BY <3>1, HeadTailProperties
    <3>3. Head(nodes[t]).key \in Name
      BY <3>2 DEF Node
    <3>4. QED
      BY <3>3, NameAssumption DEF Key
  <2>4. s_data[n].id # var[t]
    BY <2>1, <2>2, <2>3 DEF OwnObject
  <2>5. m_val'[s_data[n].id] = m_val[s_data[n].id]
    <3>1. m_val \in Seq(Text \cup {Default}) /\ DOMAIN m_val = 1..Len(m_val)
      BY LenProperties DEF Inv, MapOK
    <3>2. UNCHANGED m_val \/ \E x : m_val' = [m_val EXCEPT ![var[t]] = x]
      BY <1>3 DEF LoadSet
    <3>3. QED
      BY <2>1, <2>4, <3>1, <3>2
  <2>6. QED
    BY <2>1, <2>5 DEF RawKept, Value
<1>4. QED
  BY <1>1, <1>2, <1>3, MapSteps

(* Every step of a program in which one thread loads documents keeps what   *)
(* the loads have done.                                                     *)
LEMMA NextLoadsApply ==
  ASSUME Inv, OwnObject, LoadsApply, [Next]_vars, \A t, u \in Loader : t = u
  PROVE  LoadsApply'
<1>0. /\ pc \in [Thread -> Label] /\ doc \in [Thread -> Document \cup {<<>>}]
      /\ \A t \in Thread : pc[t] \in LoadPlace => Loaded(t)
  BY DEF Inv, Typed, LoadsApply
<1>1. doc' \in [Thread -> Document \cup {<<>>}]
  <2>1. ASSUME NEW t \in Thread, CallLoad(t) PROVE doc' \in [Thread -> Document \cup {<<>>}]
    BY <1>0, <2>1 DEF CallLoad
  <2>2. QED
    BY <1>0, <2>1 DEF Next, Call, CallLookup, CallFind, CallVisit, Step, Lookup, LookupLock,
     LookupExists, LookupInvalid, LookupMissing, LookupCreate, FindLock, Find, Load, LoadLock,
     LoadMissing, LoadFind, LoadSet, LoadThrows, LoadEnd, Visit, VisitLock, VisitStart, VisitCall,
     VisitEnd, Finished
<1>2. SUFFICES ASSUME NEW u \in Thread, pc'[u] \in LoadPlace PROVE Loaded(u)'
  BY <1>1 DEF LoadsApply
<1>3. ASSUME NEW t \in Thread, LoadSet(t), pc[u] \in LoadPlace PROVE t = u
  BY <1>0, <1>3 DEF LoadSet, LoadPlace, Loaded
<1>4. ASSUME NEW t \in Thread, Call(t) \/ Step(t), t # u PROVE Loaded(u)'
  <2>1. UNCHANGED <<Frame(u), type[u], doc[u], known[u], thrown[u]>>
    BY <1>0, <1>4, LoadsApart
  <2>2. UNCHANGED <<pc[u], nodes[u], var[u], type[u], doc[u], known[u], thrown[u]>>
    BY <2>1 DEF Frame
  <2>3. Loaded(u)
    BY <1>0, <1>2, <2>2
  <2>4. ASSUME NEW x \in Thread, LoadSet(x) PROVE FALSE
    <3>1. x = u
      BY <1>2, <1>3, <2>2, <2>4
    <3>2. pc'[u] = "load" /\ pc[u] = "load_set"
      BY <1>0, <2>4, <3>1 DEF LoadSet
    <3>3. QED
      BY <2>2, <3>2
  <2>5. QED
    BY <2>2, <2>3, <2>4, LoadKept
<1>5. CASE CallLoad(u)
  BY <1>0, <1>5, LoadBegins
<1>6. CASE LoadMissing(u) \/ LoadSet(u) \/ LoadThrows(u)
  <2>1. Loaded(u)
    BY <1>0, <1>6 DEF LoadMissing, LoadSet, LoadThrows, LoadPlace
  <2>2. doc[u] \in Document
    BY <2>1 DEF Loaded
  <2>3. QED
    BY <1>0, <1>6, <2>1, <2>2, LoadAdvances
<1>7. CASE LoadLock(u)
  <2>1. /\ pc[u] = "load" /\ pc' = [pc EXCEPT ![u] = "load_find"]
        /\ UNCHANGED <<nodes, doc, known, thrown, m_val>>
    BY <1>7 DEF LoadLock, ReadLock
  <2>2. \A t \in Thread : ~ LoadSet(t)
    <3>1. ASSUME NEW t \in Thread, LoadSet(t) PROVE FALSE
      <4>1. t = u
        BY <1>3, <2>1, <3>1 DEF LoadPlace
      <4>2. QED
        BY <2>1, <3>1, <4>1 DEF LoadSet
    <3>2. QED
      BY <3>1
  <2>3. Loaded(u) /\ pc'[u] # "load_set"
    BY <1>0, <2>1 DEF LoadPlace
  <2>4. QED
    BY <2>1, <2>2, <2>3, LoadKept
<1>8. CASE LoadFind(u)
  <2>1. /\ pc[u] = "load_find" /\ pc' = [pc EXCEPT ![u] = "load_set"] /\ Key(u) \in Names
        /\ UNCHANGED <<s_data, nodes, doc, known, thrown, m_val>>
        /\ var'[u] = s_data[Key(u)].id /\ type'[u] = s_data[Key(u)].type
    BY <1>8 DEF LoadFind, Inv, FramesOK
  <2>2. Loaded(u)
    BY <1>0, <2>1 DEF LoadPlace
  <2>3. PICK k \in Nat : Applied(u, k)
    BY <2>2 DEF Loaded
  <2>4. Applied(u, k)' /\ Names' = Names /\ Key(u)' = Key(u)
    BY <2>1, <2>3 DEF Applied, Value, Names, Key
  <2>5. s_data[Key(u)] = [type |-> s_data[Key(u)].type, id |-> s_data[Key(u)].id]
    BY <2>1, EntryTyped
  <2>6. QED
    BY <2>1, <2>2, <2>3, <2>4, <2>5 DEF Loaded
<1>9. ASSUME Call(u) \/ Step(u), ~ CallLoad(u), ~ LoadMissing(u), ~ LoadSet(u), ~ LoadThrows(u),
             ~ LoadLock(u), ~ LoadFind(u)
      PROVE  FALSE
  <2>1. ASSUME NEW to, to \notin LoadPlace, pc' = [pc EXCEPT ![u] = to] PROVE FALSE
    BY <1>0, <1>2, <2>1
  <2>0. \A to \in Label \ {"load", "load_find", "load_set"} : to \notin LoadPlace
    BY DEF LoadPlace
  <2> USE DEF Label
  <2>2. ~ Call(u)
    BY <1>9, <2>0, <2>1 DEF Call, CallLookup, CallFind, CallVisit, Enter
  <2>3. ~ Lookup(u)
    BY <2>0, <2>1 DEF Lookup, LookupLock, LookupExists, LookupInvalid, LookupMissing, LookupCreate,
       WriteLock, Return
  <2>4. ~ FindLock(u) /\ ~ Find(u) /\ ~ Visit(u)
    BY <2>0, <2>1 DEF FindLock, Find, ReadLock, Return, Visit, VisitLock, VisitCall, VisitEnd
  <2>5. ~ Load(u)
    BY <1>9, <2>0, <2>1 DEF Load, LoadEnd
  <2>6. QED
    BY <1>9, <2>2, <2>3, <2>4, <2>5 DEF Step
<1>10. CASE UNCHANGED vars
  <2>1. \A t \in Thread : ~ LoadSet(t)
    BY <1>0, <1>10 DEF LoadSet
  <2>2. Loaded(u)
    BY <1>0, <1>2, <1>10
  <2>3. QED
    BY <1>10, <2>1, <2>2, LoadKept
<1>11. QED
  BY <1>4, <1>5, <1>6, <1>7, <1>8, <1>9, <1>10 DEF Next, Finished

-----------------------------------------------------------------------------
(* Theorems *)

(* The inductive invariant.                                                 *)
THEOREM Invariance == Spec => [](Inv /\ VisitsEach /\ HeldIsRegistered)
<1>1. Init => Inv /\ VisitsEach /\ HeldIsRegistered
  <2>1. Init => VisitsEach /\ HeldIsRegistered
    BY DEF Init, VisitsEach, HeldIsRegistered
  <2>2. QED
    BY <2>1, InitInv
<1>2. Inv /\ VisitsEach /\ HeldIsRegistered /\ [Next]_vars
        => Inv' /\ VisitsEach' /\ HeldIsRegistered'
  <2> SUFFICES ASSUME Inv, VisitsEach, HeldIsRegistered, [Next]_vars
               PROVE  Inv' /\ VisitsEach' /\ HeldIsRegistered'
    OBVIOUS
  <2>1. Typed' /\ LockHeld'
    BY NextLock DEF Inv
  <2>2. MapOK' /\ FramesOK' /\ HistoryOK'
    BY Growth, NextFrames, NextHistory
  <2>3. Creating' /\ Loading'
    BY NextCreating, NextLoading
  <2>4. Visiting' /\ VisitsEach'
    BY NextVisits
  <2>5. HeldIsRegistered'
    BY NextHeld
  <2>6. QED
    BY <2>1, <2>2, <2>3, <2>4, <2>5 DEF Inv
<1>3. QED
  BY <1>1, <1>2, PTL DEF Spec

(* Every variable keeps its type.                                           *)
THEOREM TypeCorrect == Spec => []TypeOK
<1>1. Inv => TypeOK
  BY DEF Inv, Typed, MapOK, FramesOK, HistoryOK, TypeOK
<1>2. QED
  BY Invariance, <1>1, PTL

(* What Lookup and find return is one object per name, of the type asked    *)
(* for, however many threads ask for a name that is not there yet.          *)
THEOREM OneObjectPerName == Spec => []HeldIsRegistered
BY Invariance, PTL

(* Visit shows each variable of the map once, in the order of the names.    *)
THEOREM VisitsInOrder == Spec => []VisitsEach
BY Invariance, PTL

(* When one thread loads, every variable that the document sets, and that   *)
(* no listener has thrown for, has after LoadFromYaml the value of the last *)
(* node that sets it, whatever other threads look up meanwhile.  A variable *)
(* registered with a capital letter keeps its default.                      *)
THEOREM LoadIsApplied ==
  ASSUME \A t, u \in Loader : t = u
  PROVE  Spec => []LoadApplied
<1>1. Init => OwnObject /\ LoadsApply /\ RawKept
  BY DEF Init, OwnObject, LoadsApply, RawKept, Names, LoadPlace
<1>2. Inv /\ OwnObject /\ LoadsApply /\ RawKept /\ [Next]_vars
        => OwnObject' /\ LoadsApply' /\ RawKept'
  BY NextOwnObject, NextLoadsApply, NextRawKept
<1>3. Inv /\ LoadsApply /\ RawKept => LoadApplied
  <2> SUFFICES ASSUME Inv, LoadsApply, NEW t \in Thread, pc[t] = "load", nodes[t] = <<>>,
                      NEW n \in known[t], Hits(doc[t], n) # {}, s_data[n].id \notin thrown[t]
               PROVE  Value(n) = LastHit(doc[t], Hits(doc[t], n))
    BY DEF LoadApplied, RawKept, Value
  <2> DEFINE list == ListAllMember(doc[t])
  <2>1. doc[t] \in Seq(Node) /\ Loaded(t)
    BY ValueAssumption DEF LoadsApply, LoadPlace, Loaded, Node
  <2>2. PICK k \in Nat : Applied(t, k)
    BY <2>1 DEF Loaded
  <2>3. k = Len(list)
    <3>1. Len(list) = k + Len(nodes[t]) /\ Len(nodes[t]) = 0
      BY <2>2 DEF Applied, Rest
    <3>2. QED
      BY <2>2, <3>1
  <2>4. LastSet(list, Len(list), n, s_data[n].type, Value(n))
    BY <2>2, <2>3 DEF Applied
  <2>5. QED
    BY <2>1, <2>4, LastSetApplied
<1>4. QED
  BY Invariance, <1>1, <1>2, <1>3, PTL DEF Spec
=============================================================================
