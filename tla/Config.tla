------------------------------- MODULE Config --------------------------------
(***************************************************************************)
(* Class Config (src/src/config.hpp, config.cpp): the registry of the      *)
(* variables, a static map from names to ConfigVar objects under a static  *)
(* Mutex_RW, and LoadFromYaml, which sets the variables a document names.  *)
(*                                                                         *)
(* A document is the sequence of the <path, node> pairs ListAllMember      *)
(* walks through, parents before their children; a node is what the        *)
(* conversion of a variable makes of it, and Refused says for which types  *)
(* it throws.  The setValue that ends a fromString is one step here, which *)
(* assigns or ends with the exception of a listener; what happens inside   *)
(* it is module ConfigVar.                                                 *)
(*                                                                         *)
(* A definition named "...Mutant" is the code with one mistake in it; no   *)
(* specification uses it.                                                  *)
(***************************************************************************)
EXTENDS Naturals, Sequences, FiniteSets, Locks

CONSTANTS
  Thread,
  Loader,      \* the threads that call LoadFromYaml
  Name,        \* names of variables and paths of documents, numbered in their order
  Valid,       \* those made of the characters Config accepts
  Lower,       \* Lower[n], the name n in lower case
  Type,        \* the types T of the variables
  Text,        \* what the nodes of documents say
  Refused,     \* the pairs <<T, text>> that the conversion to T refuses
  Throwing,    \* the types of variables that have a listener that may throw
  Default,     \* the default_value given to Lookup
  Document,    \* the documents, sequences of [key, text]
  MaxOps       \* bound on the calls a thread makes

ASSUME NameAssumption ==
  /\ Name \subseteq Nat \ {0} /\ Valid \subseteq Name
  /\ Lower \in [Name -> Name] /\ \A n \in Name : Lower[Lower[n]] = Lower[n]

ASSUME ValueAssumption ==
  /\ Loader \subseteq Thread /\ NoThread \notin Thread
  /\ Type # {} /\ Default \notin Text /\ Refused \subseteq Type \X Text
  /\ Throwing \subseteq Type
  /\ Document \subseteq Seq([key : Name, text : Text])
  /\ MaxOps \in Nat

VARIABLES
  s_data,   \* the map: s_data[n], the type and the identity of the object
  s_lock,   \* the Mutex_RW of the map
  m_val,    \* m_val[i], the value of the i-th object that Lookup created
  pc,       \* where each thread is
  name,     \* name[t], the argument of Lookup or find, or the iterator of Visit
  type,     \* type[t], the T of Lookup<T> or find<T>
  nodes,    \* nodes[t], the pairs LoadFromYaml has not dealt with
  var,      \* var[t], the object LookupBase returned
  ops,      \* ops[t], the calls t has made
  held,     \* history: what Lookup and find have returned
  doc,      \* history: doc[t], the document t loads
  known,    \* history: known[t], the variables there were when the load began
  seen,     \* history: seen[t], what Visit has shown its callback
  thrown    \* history: thrown[t], the variables a listener of which has thrown in the load

frames == <<name, type, nodes, var>>
history == <<held, doc, known, seen, thrown>>
vars == <<s_data, s_lock, m_val, pc, frames, ops, history>>

Names == DOMAIN s_data

Init ==
  /\ s_data = [n \in {} |-> n]
  /\ s_lock = RWFree
  /\ m_val = <<>>
  /\ pc = [t \in Thread |-> "idle"]
  /\ name = [t \in Thread |-> 0]
  /\ type = [t \in Thread |-> CHOOSE T \in Type : TRUE]
  /\ nodes = [t \in Thread |-> <<>>]
  /\ var = [t \in Thread |-> 0]
  /\ ops = [t \in Thread |-> 0]
  /\ held = {}
  /\ doc = [t \in Thread |-> <<>>]
  /\ known = [t \in Thread |-> {}]
  /\ seen = [t \in Thread |-> {}]
  /\ thrown = [t \in Thread |-> {}]

Goto(t, from, to) == pc[t] = from /\ pc' = [pc EXCEPT ![t] = to]

Enter(t, first) ==
  /\ Goto(t, "idle", first)
  /\ ops[t] < MaxOps /\ ops' = [ops EXCEPT ![t] = @ + 1]

ReadLock(t, from, to) ==
  Goto(t, from, to) /\ CanRdLock(s_lock) /\ s_lock' = RdLocked(s_lock, t)

WriteLock(t, from, to) ==
  Goto(t, from, to) /\ CanWrLock(s_lock) /\ s_lock' = WrLocked(s_lock, t)

Return(t, from) == Goto(t, from, "idle") /\ s_lock' = RWUnlocked(s_lock, t)

-----------------------------------------------------------------------------
(* Lookup<T>(name, default_value), the one that creates *)

CallLookup(t) ==
  /\ Enter(t, "lookup_lock")
  /\ \E n \in Name : name' = [name EXCEPT ![t] = n]
  /\ \E T \in Type : type' = [type EXCEPT ![t] = T]
  /\ UNCHANGED <<s_data, s_lock, m_val, nodes, var, history>>

LookupLockMutant(t) ==
  /\ ReadLock(t, "lookup_lock", "lookup")
  /\ UNCHANGED <<s_data, m_val, frames, ops, history>>

LookupLock(t) ==
  /\ WriteLock(t, "lookup_lock", "lookup")
  /\ UNCHANGED <<s_data, m_val, frames, ops, history>>

(* dynamic_pointer_cast: the object, or nullptr when it has another type. *)
Cast(t) ==
  IF s_data[name[t]].type = type[t]
  THEN {[name |-> name[t], type |-> type[t], id |-> s_data[name[t]].id]} ELSE {}

LookupExists(t) ==
  /\ Return(t, "lookup")
  /\ name[t] \in Names
  /\ held' = held \cup Cast(t)
  /\ UNCHANGED <<s_data, m_val, frames, ops, doc, known, seen, thrown>>

LookupInvalidMutant(t) ==
  /\ Goto(t, "lookup", "create")
  /\ name[t] \notin Names \cup Valid
  /\ UNCHANGED <<s_data, s_lock, m_val, frames, ops, history>>

(* throw std::invalid_argument *)
LookupInvalid(t) ==
  /\ Return(t, "lookup")
  /\ name[t] \notin Names \cup Valid
  /\ UNCHANGED <<s_data, m_val, frames, ops, history>>

LookupMissing(t) ==
  /\ Goto(t, "lookup", "create")
  /\ name[t] \in Valid \ Names
  /\ UNCHANGED <<s_data, s_lock, m_val, frames, ops, history>>

LookupCreate(t) ==
  LET new == [type |-> type[t], id |-> Len(m_val) + 1] IN
  /\ Return(t, "create")
  /\ m_val' = Append(m_val, Default)
  /\ s_data' = [n \in Names \cup {name[t]} |-> IF n = name[t] THEN new ELSE s_data[n]]
  /\ held' = held \cup {[name |-> name[t], type |-> new.type, id |-> new.id]}
  /\ UNCHANGED <<frames, ops, doc, known, seen, thrown>>

-----------------------------------------------------------------------------
(* find<T>(name) *)

CallFind(t) ==
  /\ Enter(t, "find_lock")
  /\ \E n \in Name : name' = [name EXCEPT ![t] = n]
  /\ \E T \in Type : type' = [type EXCEPT ![t] = T]
  /\ UNCHANGED <<s_data, s_lock, m_val, nodes, var, history>>

FindLock(t) ==
  /\ ReadLock(t, "find_lock", "find")
  /\ UNCHANGED <<s_data, m_val, frames, ops, history>>

Find(t) ==
  /\ Return(t, "find")
  /\ held' = held \cup (IF name[t] \in Names THEN Cast(t) ELSE {})
  /\ UNCHANGED <<s_data, m_val, frames, ops, doc, known, seen, thrown>>

-----------------------------------------------------------------------------
(* LoadFromYaml *)

(* ListAllMember leaves out a path with a character Config does not accept, *)
(* and what is under it: its children have the character in their paths.    *)
ListAllMember(d) ==
  LET output[i \in 0..Len(d)] ==
        IF i = 0 THEN <<>>
        ELSE IF d[i].key \in Valid THEN Append(output[i - 1], d[i]) ELSE output[i - 1]
  IN  output[Len(d)]

CallLoad(t) ==
  /\ t \in Loader
  /\ Enter(t, "load")
  /\ \E d \in Document :
       /\ doc' = [doc EXCEPT ![t] = d]
       /\ nodes' = [nodes EXCEPT ![t] = ListAllMember(d)]
  /\ known' = [known EXCEPT ![t] = Names]
  /\ thrown' = [thrown EXCEPT ![t] = {}]
  /\ UNCHANGED <<s_data, s_lock, m_val, name, type, var, held, seen>>

LoadLock(t) ==
  /\ ReadLock(t, "load", "load_find")
  /\ nodes[t] # <<>>
  /\ UNCHANGED <<s_data, m_val, frames, ops, history>>

KeyMutant(t) == Head(nodes[t]).key

Key(t) == Lower[Head(nodes[t]).key]

(* LookupBase *)
LoadMissing(t) ==
  /\ Goto(t, "load_find", "load")
  /\ Key(t) \notin Names
  /\ s_lock' = RWUnlocked(s_lock, t)
  /\ nodes' = [nodes EXCEPT ![t] = Tail(@)]
  /\ UNCHANGED <<s_data, m_val, name, type, var, ops, history>>

LoadFind(t) ==
  /\ Goto(t, "load_find", "load_set")
  /\ Key(t) \in Names
  /\ s_lock' = RWUnlocked(s_lock, t)
  /\ var' = [var EXCEPT ![t] = s_data[Key(t)].id]
  /\ type' = [type EXCEPT ![t] = s_data[Key(t)].type]
  /\ UNCHANGED <<s_data, m_val, name, nodes, ops, history>>

(* fromString, which catches what the conversion throws ...                 *)
LoadSet(t) ==
  LET text == Head(nodes[t]).text IN
  /\ Goto(t, "load_set", "load")
  /\ \/ <<type[t], text>> \in Refused /\ UNCHANGED m_val
     \/ <<type[t], text>> \notin Refused /\ m_val' = [m_val EXCEPT ![var[t]] = text]
  /\ nodes' = [nodes EXCEPT ![t] = Tail(@)]
  /\ UNCHANGED <<s_data, s_lock, name, type, var, ops, history>>

(* ... and what a listener throws: setValue has not assigned yet.  It calls *)
(* the listeners of a value that differs from the one there is.             *)
LoadThrows(t) ==
  LET text == Head(nodes[t]).text IN
  /\ Goto(t, "load_set", "load")
  /\ type[t] \in Throwing /\ <<type[t], text>> \notin Refused /\ text # m_val[var[t]]
  /\ nodes' = [nodes EXCEPT ![t] = Tail(@)]
  /\ thrown' = [thrown EXCEPT ![t] = @ \cup {var[t]}]
  /\ UNCHANGED <<s_data, s_lock, m_val, name, type, var, ops, held, doc, known, seen>>

LoadEnd(t) ==
  /\ Goto(t, "load", "idle")
  /\ nodes[t] = <<>>
  /\ UNCHANGED <<s_data, s_lock, m_val, frames, ops, history>>

-----------------------------------------------------------------------------
(* Visit(callback): the callback runs under the ReadLock.  It reads the     *)
(* variable; one that called Lookup would wait for its own thread.          *)

NextName(n) ==
  LET later == {m \in Names : m > n}
  IN  IF later = {} THEN 0 ELSE CHOOSE m \in later : \A k \in later : m <= k

CallVisit(t) ==
  /\ Enter(t, "visit_lock")
  /\ UNCHANGED <<s_data, s_lock, m_val, frames, history>>

VisitStart(t) ==
  /\ name' = [name EXCEPT ![t] = NextName(0)]
  /\ seen' = [seen EXCEPT ![t] = {}]
  /\ UNCHANGED <<s_data, m_val, type, nodes, var, ops, held, doc, known, thrown>>

VisitLockMutant(t) ==
  Goto(t, "visit_lock", "visit") /\ UNCHANGED s_lock /\ VisitStart(t)

VisitLock(t) == ReadLock(t, "visit_lock", "visit") /\ VisitStart(t)

VisitCallMutant(t) ==
  /\ Goto(t, "visit", "visit")
  /\ name[t] # 0
  /\ seen' = [seen EXCEPT ![t] = @ \cup {s_data[name[t]].id}]
  /\ UNCHANGED <<s_data, s_lock, m_val, frames, ops, held, doc, known, thrown>>

VisitCall(t) ==
  /\ Goto(t, "visit", "visit")
  /\ name[t] # 0
  /\ seen' = [seen EXCEPT ![t] = @ \cup {s_data[name[t]].id}]
  /\ name' = [name EXCEPT ![t] = NextName(name[t])]
  /\ UNCHANGED <<s_data, s_lock, m_val, type, nodes, var, ops, held, doc, known, thrown>>

VisitEnd(t) ==
  /\ Return(t, "visit")
  /\ name[t] = 0
  /\ UNCHANGED <<s_data, m_val, frames, ops, history>>

-----------------------------------------------------------------------------
Call(t) == CallLookup(t) \/ CallFind(t) \/ CallLoad(t) \/ CallVisit(t)

Lookup(t) ==
  LookupLock(t) \/ LookupExists(t) \/ LookupInvalid(t) \/ LookupMissing(t) \/ LookupCreate(t)

Load(t) ==
  LoadLock(t) \/ LoadMissing(t) \/ LoadFind(t) \/ LoadSet(t) \/ LoadThrows(t) \/ LoadEnd(t)

Visit(t) == VisitLock(t) \/ VisitCall(t) \/ VisitEnd(t)

Step(t) == Lookup(t) \/ FindLock(t) \/ Find(t) \/ Load(t) \/ Visit(t)

Finished ==
  /\ \A t \in Thread : pc[t] = "idle" /\ ops[t] = MaxOps
  /\ UNCHANGED vars

Next == (\E t \in Thread : Call(t) \/ Step(t)) \/ Finished

Spec == Init /\ [][Next]_vars

(* A thread inside a method is scheduled until the method returns. *)
FairSpec == Spec /\ \A t \in Thread : WF_vars(Step(t))
-----------------------------------------------------------------------------
(* Properties *)

Label == {"idle", "lookup_lock", "lookup", "create", "find_lock", "find", "load",
          "load_find", "load_set", "visit_lock", "visit"}

Entry == [type : Type, id : 1..Len(m_val)]

(* Type invariant.  Only names that Config accepts are in the map.          *)
TypeOK ==
  /\ Names \subseteq Valid /\ \A n \in Names : s_data[n] \in Entry
  /\ s_lock \in RWLockOf(Thread)
  /\ m_val \in Seq(Text \cup {Default})
  /\ pc \in [Thread -> Label]
  /\ name \in [Thread -> Name \cup {0}]
  /\ type \in [Thread -> Type]
  /\ nodes \in [Thread -> Seq([key : Name, text : Text])]
  /\ var \in [Thread -> 0..Len(m_val)]
  /\ ops \in [Thread -> Nat]
  /\ held \subseteq [name : Name, type : Type, id : 1..Len(m_val)]
  /\ known \in [Thread -> SUBSET Name]
  /\ seen \in [Thread -> SUBSET (1..Len(m_val))]
  /\ thrown \in [Thread -> SUBSET (0..Len(m_val))]

(* What Lookup and find have returned is what the map holds: two threads    *)
(* that look a name up at the same time are given one object, of the type   *)
(* they asked for, and it stays in the map under the name they gave.        *)
HeldIsRegistered ==
  \A h \in held : h.name \in Names /\ s_data[h.name] = [type |-> h.type, id |-> h.id]

(* Visit shows its callback each variable of the map once, in the order of  *)
(* their names: those seen are those before the iterator.                   *)
VisitsEach ==
  \A t \in Thread : pc[t] = "visit" =>
    seen[t] = {s_data[n].id : n \in {m \in Names : name[t] = 0 \/ m < name[t]}}

LastHit(d, hits) == d[CHOOSE i \in hits : \A j \in hits : j <= i].text

(* The nodes of d that set variable n: those whose path, in lower case, is  *)
(* its name and that its type can be converted from.                        *)
Hits(d, n) ==
  {i \in DOMAIN d : d[i].key \in Valid /\ Lower[d[i].key] = n
                    /\ <<s_data[n].type, d[i].text>> \notin Refused}

(* When a load is over, every variable there was when it began, that the    *)
(* document sets and that no listener has thrown for, has the value of the  *)
(* last node that sets it, whatever became of the nodes of others.  This is *)
(* about variables registered in lower case: Lookup stores a name as it is  *)
(* given, and LoadFromYaml asks for it in lower case.  One that was         *)
(* registered with a capital letter is out of the reach of all documents    *)
(* and keeps its default_value.                                             *)
LoadApplied ==
  /\ \A t \in Thread : pc[t] = "load" /\ nodes[t] = <<>> =>
       \A n \in known[t] :
         LET hits == Hits(doc[t], n) IN
         hits # {} /\ s_data[n].id \notin thrown[t] => m_val[s_data[n].id] = LastHit(doc[t], hits)
  /\ \A n \in Names : Lower[n] # n => m_val[s_data[n].id] = Default

(* Every call returns. *)
CallsReturn == \A t \in Thread : pc[t] # "idle" ~> pc[t] = "idle"
=============================================================================
