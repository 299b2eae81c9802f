--------------------------- MODULE LogConfigProofs ---------------------------
(***************************************************************************)
(* What the lock of the variable "logs" guarantees to the loggers, for any *)
(* number of threads that set it or log, and any documents; that loggers   *)
(* become what the variable says; and that the texts of the variable and   *)
(* of the manager read back.                                               *)
(***************************************************************************)
EXTENDS LogConfig, SequenceTheorems, FiniteSetTheorems, WellFoundedInduction, TLAPS

USE DEF loggers, frames, history, vars, Goto

(* The places where an updater is at one definition.                        *)
AtOne == {"level", "clear", "add", "delete", "delete_clear"}

(* pc, and the listener that runs, under the lock.                          *)
Running ==
  /\ pc \in [Thread -> UpdaterLabel \cup WriterLabel]
  /\ \A u \in Updater : pc[u] \in UpdaterLabel
  /\ \A w \in Writer : pc[w] \in WriterLabel
  /\ exited \in BOOLEAN
  /\ pass \in Updater \cup {NoOne}
  /\ \A u \in Updater : pc[u] \in Listening => pass = u

ValuesOK ==
  /\ m_val \in Values \cup {Empty}
  /\ new \in [Updater -> Values \cup {Empty}]

FramesOK ==
  /\ todo \in [Updater -> SUBSET Name]
  /\ gone \in [Updater -> SUBSET Name]
  /\ cur \in [Updater -> Name]
  /\ app \in [Updater -> Nat \ {0}]
  /\ ev \in [Writer -> [logger : Logger, level : Level]]

(* The definitions and the names that the listener is at.                   *)
Places ==
  \A u \in Updater :
    /\ pc[u] \in Listening => todo[u] \subseteq DOMAIN new[u]
    /\ pc[u] \in AtOne => cur[u] \in DOMAIN new[u] /\ todo[u] # {}
    /\ pc[u] = "delete_clear" => gone[u] # {}

ObjectsOK ==
  /\ m_loggers \subseteq Name
  /\ m_level \in [Logger -> Level]
  /\ m_appenders \in [Logger -> Seq(Appender)]

HistoryOK ==
  /\ applied \in [Name -> SUBSET Definition]
  /\ \A n \in Name : applied[n] = {} \/ \E v \in Values : n \in DOMAIN v /\ applied[n] = {v[n]}
  /\ once \subseteq Name /\ deleted \subseteq Name

MarksOK == logged \subseteq Logger /\ overlapped \in BOOLEAN

Inv == Running /\ ValuesOK /\ FramesOK /\ Places /\ ObjectsOK /\ HistoryOK /\ MarksOK

-----------------------------------------------------------------------------
(* Values *)

(* A value defines names of loggers.                                        *)
LEMMA ValueDefines ==
  ASSUME NEW v \in Values \cup {Empty}, NEW n \in DOMAIN v
  PROVE  n \in Name /\ v \in Values /\ v[n] \in Definition
<1>1. DOMAIN Empty = {}
  BY DEF Empty
<1>2. v \in Values
  BY <1>1
<1>3. QED
  BY <1>2, DocumentAssumption

LEMMA ValueNames ==
  ASSUME NEW v \in Values \cup {Empty}
  PROVE  DOMAIN v \subseteq Name
BY ValueDefines

LEMMA LeastIn ==
  ASSUME NEW S \in SUBSET Name, S # {}
  PROVE  Least(S) \in S
<1>1. S \subseteq Nat
  BY NameAssumption
<1>2. \E n \in S : \A m \in S : n <= m
  <2>1. PICK n \in S : \A m \in S : <<m, n>> \notin OpToRel(<, Nat)
    BY <1>1, NatLessThanWellFounded, WFMin
  <2>2. n \in Nat /\ \A m \in S : m \in Nat /\ ~ (m < n)
    BY <1>1, <2>1 DEF OpToRel
  <2>3. QED
    BY <2>2
<1>3. QED
  BY <1>2 DEF Least

(* Who is at one definition has its name and its appenders.                 *)
LEMMA CurrentDefined ==
  ASSUME Inv, NEW u \in Updater, pc[u] \in AtOne
  PROVE  /\ cur[u] \in Name /\ cur[u] \in DOMAIN new[u] /\ new[u] \in Values
         /\ new[u][cur[u]] \in Definition /\ Appenders(u) \in Seq([
              to : File \cup MissingFile \cup {Stdout},
              pattern : Pattern \cup BadPattern \cup {NoPattern}])
         /\ Len(Appenders(u)) \in Nat
<1>1. cur[u] \in DOMAIN new[u] /\ new[u] \in Values \cup {Empty}
  BY DEF Inv, Places, ValuesOK
<1>2. cur[u] \in Name /\ new[u] \in Values /\ new[u][cur[u]] \in Definition
  BY <1>1, ValueDefines
<1>3. Appenders(u) \in Seq([to : File \cup MissingFile \cup {Stdout},
                            pattern : Pattern \cup BadPattern \cup {NoPattern}])
  BY <1>2 DEF Definition, Appenders
<1>4. Len(Appenders(u)) \in Nat
  BY <1>3, LenProperties
<1>5. QED
  BY <1>1, <1>2, <1>3, <1>4

-----------------------------------------------------------------------------
(* The inductive invariant, part by part *)

LEMMA InitInv == Init => Inv
<1> SUFFICES ASSUME Init PROVE Inv
  OBVIOUS
<1>1. Running
  BY NameAssumption DEF Init, Running, Thread, UpdaterLabel, WriterLabel, Listening
<1>2. ValuesOK
  BY DEF Init, ValuesOK
<1>3. FramesOK
  <2>1. ALL \in Level /\ Root \in Logger /\ RootName \in Name
    BY NameAssumption DEF ALL, OFF, Level, Logger
  <2>2. [logger |-> Root, level |-> ALL] \in [logger : Logger, level : Level]
    BY <2>1
  <2>3. {} \in SUBSET Name /\ 1 \in Nat \ {0}
    OBVIOUS
  <2>4. ev \in [Writer -> [logger : Logger, level : Level]]
    BY <2>2 DEF Init
  <2>5. todo \in [Updater -> SUBSET Name] /\ gone \in [Updater -> SUBSET Name]
    BY <2>3 DEF Init
  <2>6. cur \in [Updater -> Name] /\ app \in [Updater -> Nat \ {0}]
    BY <2>1, <2>3 DEF Init
  <2>7. QED
    BY <2>4, <2>5, <2>6 DEF FramesOK
<1>4. Places
  BY DEF Init, Places, Listening, AtOne, Thread
<1>5. ObjectsOK
  <2>1. ALL \in Level
    BY DEF ALL, OFF, Level
  <2>2. [to |-> Stdout, formatter |-> Default] \in Appender
    BY DEF Appender, Formatter
  <2>3. <<[to |-> Stdout, formatter |-> Default]>> \in Seq(Appender) /\ <<>> \in Seq(Appender)
    BY <2>2
  <2> HIDE DEF Appender
  <2>4. QED
    BY <2>1, <2>3 DEF Init, ObjectsOK
<1>6. HistoryOK
  BY DEF Init, HistoryOK
<1>7. MarksOK
  BY DEF Init, MarksOK
<1>8. QED
  BY <1>1, <1>2, <1>3, <1>4, <1>5, <1>6, <1>7 DEF Inv

(* Only one updater runs the listener.                                      *)
LEMMA NextRunning == Inv /\ [Next]_vars => Running'
<1> SUFFICES ASSUME Running, [Next]_vars PROVE Running'
  BY DEF Inv
<1> USE NameAssumption DEF Running, Thread, UpdaterLabel, WriterLabel, Listening
<1>1. ASSUME NEW u \in Updater, UpdateNameless(u) \/ Update(u) PROVE Running'
  BY <1>1 DEF UpdateNameless, Update
<1>2. ASSUME NEW u \in Updater, Lock(u) PROVE Running'
  BY <1>2 DEF Lock, StartListener
<1>3. ASSUME NEW u \in Updater, EndListener(u) PROVE Running'
  BY <1>3 DEF EndListener
<1>4. ASSUME NEW u \in Updater, Assign(u) PROVE Running'
  BY <1>4 DEF Assign
<1>5. ASSUME NEW u \in Updater, Listen(u) PROVE Running'
  <2>1. ASSUME NEW from \in Listening, NEW to \in Listening, Goto(u, from, to),
               UNCHANGED <<exited, pass>>
        PROVE  Running'
    BY <2>1
  <2>2. CASE AddMissingFile(u)
    BY <2>2 DEF AddMissingFile
  <2>3. CASE Skip(u) \/ Pick(u) \/ SetLevel(u) \/ ClearAppenders(u) \/ AddAppender(u)
    BY <2>1, <2>3 DEF Skip, Pick, SetLevel, ClearAppenders, AddAppender
  <2>4. CASE StartDelete(u) \/ DeleteLevel(u) \/ DeleteClear(u) \/ EndDelete(u)
    BY <2>1, <2>4 DEF StartDelete, DeleteLevel, DeleteClear, EndDelete
  <2>5. QED
    BY <1>5, <2>2, <2>3, <2>4 DEF Listen
<1>6. ASSUME NEW w \in Writer, Write(w) PROVE Running'
  <2>1. ASSUME NEW to \in WriterLabel, pc' = [pc EXCEPT ![w] = to], UNCHANGED <<exited, pass>>
        PROVE  Running'
    BY <2>1
  <2>2. QED
    BY <1>6, <2>1 DEF Write, UseLogger, Check, MakeEvent, Log
<1>7. CASE UNCHANGED vars
  BY <1>7
<1> HIDE DEF Running
<1>8. QED
  BY <1>1, <1>2, <1>3, <1>4, <1>5, <1>6, <1>7 DEF Next, Set, Exited

(* Values are those of documents.                                           *)
LEMMA NextValues == Inv /\ [Next]_vars => ValuesOK'
<1> SUFFICES ASSUME ValuesOK, [Next]_vars PROVE ValuesOK'
  BY DEF Inv
<1> USE DEF ValuesOK
<1>1. ASSUME NEW u \in Updater, Update(u) PROVE ValuesOK'
  BY <1>1 DEF Update
<1>2. ASSUME NEW u \in Updater, Assign(u) PROVE ValuesOK'
  BY <1>2 DEF Assign
<1>3. CASE UNCHANGED <<m_val, new>>
  BY <1>3
<1>4. QED
  BY <1>1, <1>2, <1>3
     DEF Next, UpdateNameless, Set, Lock, StartListener, Listen, Skip, Pick, SetLevel,
         ClearAppenders, AddAppender, AddMissingFile, StartDelete, DeleteLevel, DeleteClear,
         EndDelete, EndListener, Write, UseLogger, Check, MakeEvent, Log, Exited

(* The frames of the threads. *)
LEMMA NextFrames == Inv /\ [Next]_vars => FramesOK'
<1> SUFFICES ASSUME Inv, [Next]_vars PROVE FramesOK'
  OBVIOUS
<1>0. FramesOK
  BY DEF Inv
<1>1. ASSUME NEW u \in Updater, NEW S \in SUBSET Name, todo' = [todo EXCEPT ![u] = S],
             UNCHANGED <<gone, cur, app, ev>>
      PROVE  FramesOK'
  BY <1>0, <1>1 DEF FramesOK
<1>2. ASSUME NEW u \in Updater, NEW S \in SUBSET Name, gone' = [gone EXCEPT ![u] = S],
             UNCHANGED <<todo, cur, app, ev>>
      PROVE  FramesOK'
  BY <1>0, <1>2 DEF FramesOK
<1>3. ASSUME NEW u \in Updater, NEW k \in Nat \ {0}, app' = [app EXCEPT ![u] = k],
             UNCHANGED <<todo, gone, cur, ev>>
      PROVE  FramesOK'
  BY <1>0, <1>3 DEF FramesOK
<1>4. ASSUME NEW u \in Updater, Lock(u) PROVE FramesOK'
  <2>1. new[u] \in Values \cup {Empty}
    BY DEF Inv, ValuesOK
  <2>2. DOMAIN new[u] \in SUBSET Name
    BY <2>1, ValueNames
  <2>3. todo' = [todo EXCEPT ![u] = DOMAIN new[u]] /\ UNCHANGED <<gone, cur, app, ev>>
    BY <1>4 DEF Lock, StartListener
  <2>4. QED
    BY <1>1, <2>2, <2>3
<1>5. ASSUME NEW u \in Updater, Skip(u) \/ EndDelete(u) PROVE FramesOK'
  <2>1. \A n : todo[u] \ {n} \in SUBSET Name
    BY <1>0 DEF FramesOK
  <2>2. PICK n : todo' = [todo EXCEPT ![u] = todo[u] \ {n}] /\ UNCHANGED <<gone, cur, app, ev>>
    BY <1>5 DEF Skip, EndDelete
  <2>3. todo[u] \ {n} \in SUBSET Name
    BY <2>1
  <2>4. QED
    BY <1>1, <2>2, <2>3
<1>6. ASSUME NEW u \in Updater, Pick(u) PROVE FramesOK'
  <2>1. Least(todo[u]) \in Name
    BY <1>0, <1>6, LeastIn DEF FramesOK, Pick
  <2>2. QED
    BY <1>0, <1>6, <2>1 DEF FramesOK, Pick
<1>7. ASSUME NEW u \in Updater, ClearAppenders(u) \/ AddAppender(u) PROVE FramesOK'
  <2>1. app[u] + 1 \in Nat \ {0} /\ 1 \in Nat \ {0}
    BY <1>0 DEF FramesOK
  <2>2. QED
    BY <1>3, <1>7, <2>1 DEF ClearAppenders, AddAppender
<1>8. ASSUME NEW u \in Updater, StartDelete(u) PROVE FramesOK'
  <2>1. m_val \in Values \cup {Empty}
    BY DEF Inv, ValuesOK
  <2>2. DOMAIN m_val \ DOMAIN new[u] \in SUBSET Name
    BY <2>1, ValueNames
  <2>3. /\ gone' = [gone EXCEPT ![u] = DOMAIN m_val \ DOMAIN new[u]]
        /\ UNCHANGED <<todo, cur, app, ev>>
    BY <1>8 DEF StartDelete
  <2>4. QED
    BY <1>2, <2>2, <2>3
<1>9. ASSUME NEW u \in Updater, DeleteClear(u) PROVE FramesOK'
  <2>1. \A n : gone[u] \ {n} \in SUBSET Name
    BY <1>0 DEF FramesOK
  <2>2. PICK n : gone' = [gone EXCEPT ![u] = gone[u] \ {n}] /\ UNCHANGED <<todo, cur, app, ev>>
    BY <1>9 DEF DeleteClear
  <2>3. gone[u] \ {n} \in SUBSET Name
    BY <2>1
  <2>4. QED
    BY <1>2, <2>2, <2>3
<1>10. ASSUME NEW w \in Writer, NEW l \in m_loggers \cup {Root}, NEW lv \in EventLevel,
             Check(w, l, lv)
       PROVE  FramesOK'
  <2>1. l \in Logger /\ lv \in Level
    BY PatternAssumption DEF Inv, ObjectsOK, Logger
  <2>2. QED
    BY <1>0, <1>10, <2>1 DEF FramesOK, Check
<1>11. CASE UNCHANGED <<todo, gone, cur, app, ev>>
  BY <1>0, <1>11 DEF FramesOK
<1>12. QED
  BY <1>4, <1>5, <1>6, <1>7, <1>8, <1>9, <1>10, <1>11
     DEF Next, UpdateNameless, Update, Set, Listen, SetLevel, AddMissingFile, DeleteLevel,
         EndListener, Assign, Write, UseLogger, MakeEvent, Log, Exited

(* What an updater does leaves the frames of the others alone, and so does  *)
(* a writer those of all.                                                   *)
UpdaterFrame(u) == <<pc[u], new[u], todo[u], gone[u], cur[u], app[u]>>

LEMMA Apart ==
  ASSUME Inv, NEW u \in Updater,
         \/ \E t \in Updater : t # u /\ (UpdateNameless(t) \/ Update(t) \/ Set(t))
         \/ \E w \in Writer : Write(w)
  PROVE  UNCHANGED UpdaterFrame(u)
<1>1. /\ pc \in [Thread -> UpdaterLabel \cup WriterLabel]
      /\ new \in [Updater -> Values \cup {Empty}]
      /\ todo \in [Updater -> SUBSET Name] /\ gone \in [Updater -> SUBSET Name]
      /\ cur \in [Updater -> Name] /\ app \in [Updater -> Nat \ {0}]
  BY DEF Inv, Running, ValuesOK, FramesOK
<1>2. ASSUME NEW t \in Updater, t # u, UpdateNameless(t) \/ Update(t)
       PROVE UNCHANGED UpdaterFrame(u)
  BY <1>1, <1>2 DEF UpdaterFrame, UpdateNameless, Update, Thread
<1>3. ASSUME NEW t \in Updater, t # u, Lock(t) \/ EndListener(t) \/ Assign(t)
      PROVE  UNCHANGED UpdaterFrame(u)
  BY <1>1, <1>3 DEF UpdaterFrame, Lock, StartListener, EndListener, Assign, Thread
<1>4. ASSUME NEW t \in Updater, t # u, Listen(t) PROVE UNCHANGED UpdaterFrame(u)
  BY <1>1, <1>4 DEF UpdaterFrame, Thread, Listen, Skip, Pick, SetLevel, ClearAppenders,
     AddAppender, AddMissingFile, StartDelete, DeleteLevel, DeleteClear, EndDelete
<1>5. ASSUME NEW w \in Writer, Write(w) PROVE UNCHANGED UpdaterFrame(u)
  <2>1. w # u /\ w \in Thread
    BY NameAssumption DEF Thread
  <2>2. ASSUME NEW to, pc' = [pc EXCEPT ![w] = to] PROVE UNCHANGED pc[u]
    BY <1>1, <2>1, <2>2
  <2>3. UNCHANGED pc[u] /\ UNCHANGED <<new, todo, gone, cur, app>>
    BY <1>5, <2>2 DEF Write, UseLogger, Check, MakeEvent, Log
  <2>4. QED
    BY <2>3 DEF UpdaterFrame
<1>6. QED
  BY <1>2, <1>3, <1>4, <1>5 DEF Set

(* The listener stays within the definitions of its value.                  *)
LEMMA NextPlaces == Inv /\ [Next]_vars => Places'
<1> SUFFICES ASSUME Inv, [Next]_vars, NEW u \in Updater
             PROVE  /\ pc'[u] \in Listening => todo'[u] \subseteq DOMAIN (new'[u])
                    /\ pc'[u] \in AtOne => cur'[u] \in DOMAIN (new'[u]) /\ todo'[u] # {}
                    /\ pc'[u] = "delete_clear" => gone'[u] # {}
  BY DEF Places
<1> DEFINE Placed == /\ pc'[u] \in Listening => todo'[u] \subseteq DOMAIN (new'[u])
                     /\ pc'[u] \in AtOne => cur'[u] \in DOMAIN (new'[u]) /\ todo'[u] # {}
                     /\ pc'[u] = "delete_clear" => gone'[u] # {}
<1>0. /\ pc \in [Thread -> UpdaterLabel \cup WriterLabel] /\ u \in Thread
      /\ todo \in [Updater -> SUBSET Name] /\ gone \in [Updater -> SUBSET Name]
      /\ cur \in [Updater -> Name]
      /\ pc[u] \in Listening => todo[u] \subseteq DOMAIN new[u]
      /\ pc[u] \in AtOne => cur[u] \in DOMAIN new[u] /\ todo[u] # {}
      /\ pc[u] = "delete_clear" => gone[u] # {}
  BY DEF Inv, Running, FramesOK, Places, Thread
<1> USE DEF Listening, AtOne
<1>1. ASSUME UNCHANGED UpdaterFrame(u) PROVE Placed
  BY <1>0, <1>1 DEF UpdaterFrame
<1>2. ASSUME UpdateNameless(u) \/ Update(u) \/ EndListener(u) \/ Assign(u) PROVE Placed
  BY <1>0, <1>2 DEF UpdateNameless, Update, EndListener, Assign
<1>3. ASSUME Lock(u) PROVE Placed
  BY <1>0, <1>3 DEF Lock, StartListener
<1>4. ASSUME Skip(u) \/ EndDelete(u) PROVE Placed
  BY <1>0, <1>4 DEF Skip, EndDelete
<1>5. ASSUME Pick(u) PROVE Placed
  <2>1. Least(todo[u]) \in todo[u]
    BY <1>0, <1>5, LeastIn DEF Pick
  <2>2. QED
    BY <1>0, <1>5, <2>1 DEF Pick
<1>6. ASSUME SetLevel(u) \/ ClearAppenders(u) \/ AddAppender(u) \/ AddMissingFile(u) PROVE Placed
  BY <1>0, <1>6 DEF SetLevel, ClearAppenders, AddAppender, AddMissingFile
<1>7. ASSUME StartDelete(u) \/ DeleteLevel(u) \/ DeleteClear(u) PROVE Placed
  BY <1>0, <1>7 DEF StartDelete, DeleteLevel, DeleteClear
<1>8. ASSUME UpdateNameless(u) \/ Update(u) \/ Set(u) PROVE Placed
  BY <1>2, <1>3, <1>4, <1>5, <1>6, <1>7, <1>8 DEF Set, Listen
<1> HIDE DEF Placed, Listening, AtOne
<1>9. ASSUME \/ \E t \in Updater : t # u /\ (UpdateNameless(t) \/ Update(t) \/ Set(t))
             \/ \E w \in Writer : Write(w)
      PROVE  Placed
  BY <1>1, <1>9, Apart
<1>10. ASSUME UNCHANGED vars PROVE Placed
  BY <1>1, <1>10 DEF UpdaterFrame
<1>11. Placed
  BY <1>8, <1>9, <1>10 DEF Next, Exited
<1>12. QED
  BY <1>11 DEF Placed

(* What the listener makes of an appender it was given.                     *)
LEMMA NewAppenderTyped ==
  ASSUME NEW a \in [to : File \cup MissingFile \cup {Stdout},
                    pattern : Pattern \cup BadPattern \cup {NoPattern}],
         a.to \notin MissingFile
  PROVE  NewAppender(a) \in Appender
BY DEF NewAppender, Appender, Formatter

(* The loggers, their levels and their appenders.                           *)
LEMMA NextObjects == Inv /\ [Next]_vars => ObjectsOK'
<1> SUFFICES ASSUME Inv, [Next]_vars PROVE ObjectsOK'
  OBVIOUS
<1>0. ObjectsOK /\ \A u \in Updater : gone[u] \in SUBSET Name
  BY DEF Inv, FramesOK
<1>1. ASSUME NEW n \in Name, GetLogger(n), UNCHANGED <<m_level, m_appenders>> PROVE ObjectsOK'
  BY <1>0, <1>1 DEF ObjectsOK, GetLogger
<1>2. ASSUME NEW l \in Logger, NEW lv \in Level, m_level' = [m_level EXCEPT ![l] = lv],
             m_loggers' \subseteq Name, UNCHANGED m_appenders
      PROVE  ObjectsOK'
  BY <1>0, <1>2 DEF ObjectsOK
<1>3. ASSUME NEW l \in Logger, NEW s \in Seq(Appender),
             m_appenders' = [m_appenders EXCEPT ![l] = s], UNCHANGED <<m_loggers, m_level>>
      PROVE  ObjectsOK'
  BY <1>0, <1>3 DEF ObjectsOK
<1>4. ASSUME NEW u \in Updater, Lock(u) PROVE ObjectsOK'
  <2>1. Root \in Logger /\ INFO \in Level /\ m_loggers \subseteq Name
    BY <1>0 DEF ObjectsOK, Logger, INFO, ALL, OFF, Level
  <2>2. m_level' = m_level \/ m_level' = [m_level EXCEPT ![Root] = INFO]
    BY <1>4 DEF Lock, StartListener, NewEvent
  <2>3. UNCHANGED <<m_loggers, m_appenders>>
    BY <1>4 DEF Lock, StartListener
  <2>4. QED
    BY <1>0, <1>2, <2>1, <2>2, <2>3 DEF ObjectsOK
<1>5. ASSUME NEW u \in Updater, Pick(u) PROVE ObjectsOK'
  <2>1. Least(todo[u]) \in Name
    BY <1>5, LeastIn DEF Inv, FramesOK, Pick
  <2>2. QED
    BY <1>1, <1>5, <2>1 DEF Pick
<1>6. ASSUME NEW u \in Updater, SetLevel(u) PROVE ObjectsOK'
  <2>1. cur[u] \in Name /\ new[u][cur[u]] \in Definition
    BY <1>6, CurrentDefined DEF SetLevel, AtOne
  <2>2. cur[u] \in Logger /\ new[u][cur[u]].level \in Level
    BY <2>1 DEF Logger, Definition
  <2>3. m_loggers' \subseteq Name /\ UNCHANGED m_appenders
    BY <1>0, <1>6 DEF ObjectsOK, SetLevel
  <2>4. QED
    BY <1>2, <1>6, <2>2, <2>3 DEF SetLevel
<1>7. ASSUME NEW u \in Updater, ClearAppenders(u) PROVE ObjectsOK'
  <2>1. cur[u] \in Logger /\ <<>> \in Seq(Appender)
    BY EmptySeq DEF Inv, FramesOK, Logger
  <2>2. QED
    BY <1>3, <1>7, <2>1 DEF ClearAppenders
<1>8. ASSUME NEW u \in Updater, AddAppender(u) PROVE ObjectsOK'
  <2>1. cur[u] \in Name /\ m_appenders[cur[u]] \in Seq(Appender)
    BY <1>0 DEF Inv, FramesOK, Logger, ObjectsOK
  <2>2. Appenders(u)[app[u]] \in [to : File \cup MissingFile \cup {Stdout},
                                  pattern : Pattern \cup BadPattern \cup {NoPattern}]
    <3>1. app[u] \in 1..Len(Appenders(u))
      BY <1>8, CurrentDefined DEF AddAppender, AtOne, Inv, FramesOK
    <3>2. QED
      BY <1>8, <3>1, CurrentDefined, ElementOfSeq DEF AddAppender, AtOne
  <2>3. NewAppender(Appenders(u)[app[u]]) \in Appender
    BY <1>8, <2>2, NewAppenderTyped DEF AddAppender
  <2>4. Append(m_appenders[cur[u]], NewAppender(Appenders(u)[app[u]])) \in Seq(Appender)
    BY <2>1, <2>3, AppendProperties
  <2>5. cur[u] \in Logger
    BY <2>1 DEF Logger
  <2>6. /\ m_appenders' = [m_appenders EXCEPT
                            ![cur[u]] = Append(@, NewAppender(Appenders(u)[app[u]]))]
        /\ UNCHANGED <<m_loggers, m_level>>
    BY <1>8 DEF AddAppender
  <2>7. QED
    BY <1>3, <2>4, <2>5, <2>6
<1>9. ASSUME NEW u \in Updater, DeleteLevel(u) PROVE ObjectsOK'
  <2>1. Least(gone[u]) \in Name
    BY <1>0, <1>9, LeastIn DEF DeleteLevel
  <2>2. Least(gone[u]) \in Logger /\ OFF \in Level
    BY <2>1 DEF Logger, ALL, OFF, Level
  <2>3. m_loggers' \subseteq Name /\ UNCHANGED m_appenders
    BY <1>0, <1>9, <2>1 DEF ObjectsOK, DeleteLevel, GetLogger
  <2>4. QED
    BY <1>2, <1>9, <2>2, <2>3 DEF DeleteLevel
<1>10. ASSUME NEW u \in Updater, DeleteClear(u) PROVE ObjectsOK'
  <2>1. gone[u] # {}
    BY <1>10 DEF Inv, Places, DeleteClear
  <2>2. Least(gone[u]) \in Logger /\ <<>> \in Seq(Appender)
    BY <1>0, <2>1, LeastIn, EmptySeq DEF Logger
  <2>3. QED
    BY <1>3, <1>10, <2>2 DEF DeleteClear
<1>11. ASSUME NEW w \in Writer, NEW n \in Name, UseLogger(w, n) PROVE ObjectsOK'
  BY <1>1, <1>11 DEF UseLogger
<1>12. ASSUME NEW w \in Writer, MakeEvent(w) PROVE ObjectsOK'
  <2>1. ev[w].logger \in Logger /\ ev[w].level \in Level
    BY DEF Inv, FramesOK
  <2>2. m_loggers' \subseteq Name /\ UNCHANGED m_appenders
    BY <1>0, <1>12 DEF ObjectsOK, MakeEvent
  <2>3. QED
    BY <1>2, <1>12, <2>1, <2>2 DEF MakeEvent, NewEvent
<1>13. CASE UNCHANGED <<m_loggers, m_level, m_appenders>>
  BY <1>0, <1>13 DEF ObjectsOK
<1>14. QED
  BY <1>4, <1>5, <1>6, <1>7, <1>8, <1>9, <1>10, <1>11, <1>12, <1>13
     DEF Next, UpdateNameless, Update, Set, Listen, Skip, AddMissingFile, StartDelete,
         EndDelete, EndListener, Assign, Write, Check, Log, Exited

(* What was applied is what some value says.                                *)
LEMMA NextHistory == Inv /\ [Next]_vars => HistoryOK'
<1> SUFFICES ASSUME Inv, [Next]_vars PROVE HistoryOK'
  OBVIOUS
<1>0. HistoryOK
  BY DEF Inv
<1>1. ASSUME NEW u \in Updater, Assign(u) PROVE HistoryOK'
  <2>1. new[u] \in Values \cup {Empty}
    BY DEF Inv, ValuesOK
  <2>2. DOMAIN new[u] \subseteq Name
    BY <2>1, ValueNames
  <2>3. QED
    BY <1>0, <1>1, <2>2 DEF HistoryOK, Assign
<1>2. ASSUME NEW u \in Updater, ClearAppenders(u) PROVE HistoryOK'
  <2>1. /\ cur[u] \in Name /\ cur[u] \in DOMAIN new[u] /\ new[u] \in Values
        /\ new[u][cur[u]] \in Definition
    BY <1>2, CurrentDefined DEF ClearAppenders, AtOne
  <2>2. \E v \in Values : cur[u] \in DOMAIN v /\ {new[u][cur[u]]} = {v[cur[u]]}
    BY <2>1
  <2>3. {new[u][cur[u]]} \in SUBSET Definition
    BY <2>1
  <2>4. applied' = [applied EXCEPT ![cur[u]] = {new[u][cur[u]]}]
        /\ deleted' \subseteq Name /\ UNCHANGED once
    BY <1>0, <1>2 DEF HistoryOK, ClearAppenders
  <2>5. applied' \in [Name -> SUBSET Definition]
    BY <1>0, <2>1, <2>3, <2>4 DEF HistoryOK
  <2>6. ASSUME NEW n \in Name
        PROVE  applied'[n] = {} \/ \E v \in Values : n \in DOMAIN v /\ applied'[n] = {v[n]}
    BY <1>0, <2>1, <2>2, <2>4 DEF HistoryOK
  <2>7. Values' = Values
    BY DEF Values
  <2>8. QED
    BY <1>0, <2>4, <2>5, <2>6, <2>7 DEF HistoryOK
<1>3. ASSUME NEW u \in Updater, DeleteClear(u) PROVE HistoryOK'
  <2>1. gone[u] \in SUBSET Name /\ gone[u] # {}
    BY <1>3 DEF Inv, Places, FramesOK, DeleteClear
  <2>2. Least(gone[u]) \in Name
    BY <2>1, LeastIn
  <2>3. QED
    BY <1>0, <1>3, <2>2 DEF HistoryOK, DeleteClear
<1>4. CASE UNCHANGED <<applied, once, deleted>>
  BY <1>0, <1>4 DEF HistoryOK
<1>5. QED
  BY <1>1, <1>2, <1>3, <1>4
     DEF Next, UpdateNameless, Update, Set, Lock, StartListener, Listen, Skip, Pick, SetLevel,
         AddAppender, AddMissingFile, StartDelete, DeleteLevel, EndDelete, EndListener,
         Write, UseLogger, Check, MakeEvent, Log, Exited

LEMMA NextMarks == Inv /\ [Next]_vars => MarksOK'
<1> SUFFICES ASSUME Inv, [Next]_vars PROVE MarksOK'
  OBVIOUS
<1>0. MarksOK
  BY DEF Inv
<1>1. ASSUME NEW w \in Writer, MakeEvent(w) PROVE MarksOK'
  <2>1. ev[w].logger \in Logger
    BY DEF Inv, FramesOK
  <2>2. logged' = logged \cup {ev[w].logger} /\ UNCHANGED overlapped
    BY <1>1 DEF MakeEvent, NewEvent
  <2>3. QED
    BY <1>0, <2>1, <2>2 DEF MarksOK
<1>2. ASSUME NEW u \in Updater, Lock(u) PROVE MarksOK'
  <2>1. logged' \subseteq logged \cup {Root} /\ UNCHANGED overlapped
    BY <1>2 DEF Lock, StartListener, NewEvent
  <2>2. QED
    BY <1>0, <2>1 DEF MarksOK, Logger
<1>3. ASSUME NEW u \in Updater, Update(u) PROVE MarksOK'
  BY <1>0, <1>3 DEF MarksOK, Update
<1>4. ASSUME NEW u \in Updater, SetLevel(u) \/ DeleteLevel(u) PROVE MarksOK'
  BY <1>0, <1>4 DEF MarksOK, SetLevel, DeleteLevel
<1>5. CASE UNCHANGED <<logged, overlapped>>
  BY <1>0, <1>5 DEF MarksOK
<1>6. QED
  BY <1>1, <1>2, <1>3, <1>4, <1>5
     DEF Next, UpdateNameless, Set, Listen, Skip, Pick, ClearAppenders, AddAppender,
         AddMissingFile, StartDelete, DeleteClear, EndDelete, EndListener, Assign,
         Write, UseLogger, Check, Log, Exited

(* The listener keeps to the values it was given, and the loggers to the    *)
(* names and the appenders these define.                                    *)
THEOREM Invariance == Spec => []Inv
<1>1. Inv /\ [Next]_vars => Inv'
  BY NextRunning, NextValues, NextFrames, NextPlaces, NextObjects, NextHistory, NextMarks DEF Inv
<1>2. QED
  BY InitInv, <1>1, PTL DEF Spec

(* Type correctness: no logger ever has an appender without a formatter     *)
(* that parsed, which FileLogAppender::log would use (src/src/log.cpp:420). *)
THEOREM TypeCorrect == Spec => []TypeOK
<1>1. Inv => TypeOK
  BY DEF Inv, Running, ValuesOK, FramesOK, ObjectsOK, HistoryOK, MarksOK, TypeOK
<1>2. QED
  BY <1>1, Invariance, PTL

-----------------------------------------------------------------------------
(* The appenders come from one definition *)

(* A logger n has the first k appenders of the definition d.                *)
MadeUpTo(n, d, k) ==
  /\ Len(m_appenders[n]) = k
  /\ \A i \in 1..k :
       /\ m_appenders[n][i].to = d.appenders[i].to
       /\ d.appenders[i].pattern \in Pattern =>
            m_appenders[n][i].formatter = d.appenders[i].pattern

Adding(u) == u \in Updater /\ pc[u] = "add"

Whole(n) ==
  \/ applied[n] = {} /\ m_appenders[n] = <<>>
  \/ \E d \in applied[n] : Matches(n, d)

(* A logger has all the appenders of the definition last applied to it, but *)
(* for the one that the listener is adding appenders to.                    *)
WholeOrAdding == \A n \in Name : Whole(n) \/ \E u : Adding(u) /\ cur[u] = n

(* That one has as many as the listener has added.                          *)
PartAdded ==
  \A u : Adding(u) =>
    /\ applied[cur[u]] = {new[u][cur[u]]}
    /\ app[u] <= Len(Appenders(u)) + 1
    /\ MadeUpTo(cur[u], new[u][cur[u]], app[u] - 1)

MixInv == WholeOrAdding /\ PartAdded

LEMMA OneAdds ==
  ASSUME Inv, NEW u \in Updater, pc[u] \in Listening, NEW t, Adding(t)
  PROVE  t = u
BY DEF Inv, Running, Listening, Adding

(* Steps that change neither the appenders nor who adds them.               *)
LEMMA MixKept ==
  ASSUME MixInv, UNCHANGED <<m_appenders, applied>>,
         \A u \in Updater : \/ pc[u] # "add" /\ pc'[u] # "add"
                            \/ UNCHANGED UpdaterFrame(u)
  PROVE  MixInv'
<1>1. \A u : Adding(u)' <=> Adding(u)
  BY DEF Adding, UpdaterFrame
<1>2. \A u : Adding(u) => cur'[u] = cur[u] /\ new'[u] = new[u] /\ app'[u] = app[u]
  BY DEF Adding, UpdaterFrame
<1>3. \A n \in Name : Whole(n)' <=> Whole(n)
  BY DEF Whole, Matches
<1>4. WholeOrAdding'
  BY <1>1, <1>2, <1>3 DEF MixInv, WholeOrAdding
<1>5. ASSUME NEW u, Adding(u)'
      PROVE  /\ applied'[cur'[u]] = {new'[u][cur'[u]]}
             /\ app'[u] <= Len(Appenders(u)') + 1
             /\ MadeUpTo(cur[u], new[u][cur[u]], app[u] - 1)'
  <2>1. /\ applied[cur[u]] = {new[u][cur[u]]}
        /\ app[u] <= Len(Appenders(u)) + 1
        /\ MadeUpTo(cur[u], new[u][cur[u]], app[u] - 1)
    BY <1>1, <1>5 DEF MixInv, PartAdded
  <2>2. cur'[u] = cur[u] /\ new'[u] = new[u] /\ app'[u] = app[u]
    BY <1>1, <1>2, <1>5
  <2>3. Appenders(u)' = Appenders(u)
    BY <2>2 DEF Appenders
  <2>4. MadeUpTo(cur[u], new[u][cur[u]], app[u] - 1)'
    BY <2>1, <2>2 DEF MadeUpTo
  <2>5. QED
    BY <2>1, <2>2, <2>3, <2>4
<1>6. QED
  BY <1>4, <1>5 DEF MixInv, PartAdded

(* The listener clears the appenders of the logger and is about to add.     *)
LEMMA ClearMix ==
  ASSUME Inv, MixInv, NEW u \in Updater, ClearAppenders(u)
  PROVE  MixInv'
<1>1. /\ pc[u] = "clear" /\ pc' = [pc EXCEPT ![u] = "add"]
      /\ m_appenders' = [m_appenders EXCEPT ![cur[u]] = <<>>]
      /\ app' = [app EXCEPT ![u] = 1]
      /\ applied' = [applied EXCEPT ![cur[u]] = {new[u][cur[u]]}]
      /\ UNCHANGED <<new, cur>>
  BY DEF ClearAppenders
<1>2. /\ cur[u] \in Name /\ u \in Thread /\ cur[u] \in Logger
      /\ pc \in [Thread -> UpdaterLabel \cup WriterLabel] /\ app \in [Updater -> Nat \ {0}]
      /\ m_appenders \in [Logger -> Seq(Appender)] /\ applied \in [Name -> SUBSET Definition]
      /\ Len(Appenders(u)) \in Nat
  BY <1>1, CurrentDefined DEF Inv, Running, FramesOK, ObjectsOK, HistoryOK, Thread, Logger, AtOne
<1>3. \A t : ~ Adding(t)
  BY <1>1, OneAdds DEF Listening, Adding
<1>4. \A t : Adding(t)' => t = u
  BY <1>1, <1>2, <1>3 DEF Adding, Thread
<1>5. Adding(u)'
  BY <1>1, <1>2 DEF Adding
<1>6. ASSUME NEW n \in Name PROVE Whole(n)' \/ \E t : Adding(t)' /\ cur'[t] = n
  <2>1. CASE n = cur[u]
    BY <1>1, <1>5, <2>1
  <2>2. CASE n # cur[u]
    <3>1. m_appenders'[n] = m_appenders[n] /\ applied'[n] = applied[n]
      BY <1>1, <1>2, <2>2 DEF Logger
    <3>2. Whole(n)
      BY <1>3 DEF MixInv, WholeOrAdding
    <3>3. QED
      BY <3>1, <3>2 DEF Whole, Matches
  <2>3. QED
    BY <2>1, <2>2
<1>7. /\ applied'[cur'[u]] = {new'[u][cur'[u]]}
      /\ app'[u] <= Len(Appenders(u)') + 1
      /\ MadeUpTo(cur[u], new[u][cur[u]], app[u] - 1)'
  <2>1. app'[u] = 1 /\ m_appenders'[cur[u]] = <<>> /\ cur'[u] = cur[u] /\ new'[u] = new[u]
    BY <1>1, <1>2
  <2>2. Appenders(u)' = Appenders(u)
    BY <2>1 DEF Appenders
  <2>3. Len(m_appenders'[cur'[u]]) = app'[u] - 1 /\ app'[u] - 1 = 0
    BY <2>1, EmptySeq
  <2>4. MadeUpTo(cur[u], new[u][cur[u]], app[u] - 1)'
    BY <2>3 DEF MadeUpTo
  <2>5. app'[u] <= Len(Appenders(u)') + 1
    BY <1>2, <2>1, <2>2
  <2>6. applied'[cur'[u]] = {new'[u][cur'[u]]}
    BY <1>1, <1>2, <2>1
  <2>7. QED
    BY <2>4, <2>5, <2>6
<1>8. QED
  BY <1>4, <1>6, <1>7 DEF MixInv, WholeOrAdding, PartAdded

(* It adds one more.                                                        *)
LEMMA AddMix ==
  ASSUME Inv, MixInv, NEW u \in Updater, AddAppender(u)
  PROVE  MixInv'
<1> DEFINE n == cur[u]
           d == new[u][n]
           a == Appenders(u)[app[u]]
<1>1. /\ pc[u] = "add" /\ pc' = [pc EXCEPT ![u] = "add"]
      /\ m_appenders' = [m_appenders EXCEPT ![n] = Append(@, NewAppender(a))]
      /\ app' = [app EXCEPT ![u] = @ + 1]
      /\ app[u] <= Len(Appenders(u)) /\ a.to \notin MissingFile
      /\ UNCHANGED <<new, cur, applied>>
  BY DEF AddAppender
<1>2. /\ n \in Name /\ u \in Thread /\ n \in Logger
      /\ pc \in [Thread -> UpdaterLabel \cup WriterLabel] /\ app \in [Updater -> Nat \ {0}]
      /\ m_appenders \in [Logger -> Seq(Appender)] /\ applied \in [Name -> SUBSET Definition]
      /\ Len(Appenders(u)) \in Nat
      /\ Appenders(u) \in Seq([to : File \cup MissingFile \cup {Stdout},
                               pattern : Pattern \cup BadPattern \cup {NoPattern}])
  BY <1>1, CurrentDefined DEF Inv, Running, FramesOK, ObjectsOK, HistoryOK, Thread, Logger, AtOne
<1>3. \A t : Adding(t) <=> t = u
  BY <1>1, OneAdds DEF Listening, Adding
<1>4. \A t : Adding(t)' <=> t = u
  BY <1>1, <1>2, <1>3 DEF Adding, Thread
<1>5. applied[n] = {d} /\ MadeUpTo(n, d, app[u] - 1)
  BY <1>3 DEF MixInv, PartAdded
<1>6. WholeOrAdding'
  <2>1. ASSUME NEW m \in Name, m # n PROVE Whole(m)'
    <3>1. Whole(m)
      BY <1>3, <2>1 DEF MixInv, WholeOrAdding
    <3>2. m_appenders'[m] = m_appenders[m] /\ applied'[m] = applied[m]
      BY <1>1, <1>2, <2>1 DEF Logger
    <3>3. QED
      BY <3>1, <3>2 DEF Whole, Matches
  <2>2. Adding(u)' /\ cur'[u] = n
    BY <1>1, <1>4
  <2> HIDE DEF n
  <2>3. QED
    BY <2>1, <2>2 DEF WholeOrAdding
<1>7. a \in [to : File \cup MissingFile \cup {Stdout},
            pattern : Pattern \cup BadPattern \cup {NoPattern}]
  <2>1. app[u] \in 1..Len(Appenders(u))
    BY <1>1, <1>2
  <2>2. QED
    BY <1>2, <2>1, ElementOfSeq
<1>8. NewAppender(a) \in Appender /\ NewAppender(a).to = a.to
      /\ (a.pattern \in Pattern => NewAppender(a).formatter = a.pattern)
  BY <1>1, <1>7, NewAppenderTyped DEF NewAppender
<1> DEFINE s == m_appenders[n]
<1>9. s \in Seq(Appender) /\ m_appenders'[n] = Append(s, NewAppender(a))
  BY <1>1, <1>2
<1>10. app'[u] - 1 = app[u] /\ Len(s) = app[u] - 1 /\ app[u] \in Nat /\ app'[u] = app[u] + 1
  BY <1>1, <1>2, <1>5 DEF MadeUpTo
<1>11. /\ Len(m_appenders'[n]) = app[u]
       /\ \A i \in 1..Len(s) : m_appenders'[n][i] = s[i]
       /\ m_appenders'[n][app[u]] = NewAppender(a)
  <2>1. /\ Len(Append(s, NewAppender(a))) = Len(s) + 1
        /\ \A i \in 1..Len(s) : Append(s, NewAppender(a))[i] = s[i]
        /\ Append(s, NewAppender(a))[Len(s) + 1] = NewAppender(a)
    BY <1>8, <1>9, AppendProperties
  <2>2. Len(s) + 1 = app[u]
    BY <1>10
  <2>3. QED
    BY <1>9, <2>1, <2>2
<1>12. ASSUME NEW i \in 1..app[u]
       PROVE  /\ m_appenders'[n][i].to = d.appenders[i].to
              /\ d.appenders[i].pattern \in Pattern =>
                   m_appenders'[n][i].formatter = d.appenders[i].pattern
  <2>1. CASE i = app[u]
    BY <1>8, <1>11, <2>1 DEF Appenders
  <2>2. CASE i # app[u]
    <3>1. i \in 1..(app[u] - 1) /\ i \in 1..Len(s)
      BY <1>10, <2>2
    <3>2. m_appenders'[n][i] = m_appenders[n][i]
      BY <1>11, <3>1
    <3>3. QED
      BY <1>5, <3>1, <3>2 DEF MadeUpTo
  <2>3. QED
    BY <2>1, <2>2
<1>13. MadeUpTo(cur[u], new[u][cur[u]], app[u] - 1)'
  BY <1>1, <1>10, <1>11, <1>12 DEF MadeUpTo
<1>14. app'[u] <= Len(Appenders(u)') + 1
  <2>1. Appenders(u)' = Appenders(u)
    BY <1>1 DEF Appenders
  <2>2. QED
    BY <1>1, <1>2, <1>10, <2>1
<1>15. applied'[cur'[u]] = {new'[u][cur'[u]]}
  BY <1>1, <1>5
<1>16. PartAdded'
  BY <1>4, <1>13, <1>14, <1>15 DEF PartAdded
<1>17. QED
  BY <1>6, <1>16 DEF MixInv

(* The types of what an updater works on.                                   *)
LEMMA UpdaterTypes ==
  ASSUME Inv, NEW u \in Updater
  PROVE  /\ pc \in [Thread -> UpdaterLabel \cup WriterLabel] /\ u \in Thread
         /\ Updater \subseteq Thread
         /\ new \in [Updater -> Values \cup {Empty}] /\ DOMAIN new[u] \subseteq Name
         /\ todo \in [Updater -> SUBSET Name] /\ gone \in [Updater -> SUBSET Name]
         /\ cur \in [Updater -> Name] /\ app \in [Updater -> Nat \ {0}]
         /\ m_level \in [Logger -> Level] /\ m_appenders \in [Logger -> Seq(Appender)]
         /\ Name \subseteq Logger
<1>1. new \in [Updater -> Values \cup {Empty}]
  BY DEF Inv, ValuesOK
<1>2. DOMAIN new[u] \subseteq Name
  BY <1>1, ValueNames
<1>3. QED
  BY <1>1, <1>2 DEF Inv, Running, FramesOK, ObjectsOK, Thread, Logger

(* It has added them all.                                                   *)
LEMMA AddedMatches ==
  ASSUME Inv, MixInv, NEW u \in Updater, StartDelete(u)
  PROVE  Matches(cur[u], new[u][cur[u]])
<1>1. pc[u] = "add" /\ app[u] > Len(Appenders(u))
  BY DEF StartDelete
<1>2. app[u] \in Nat /\ Len(Appenders(u)) \in Nat
  BY <1>1, CurrentDefined, UpdaterTypes DEF AtOne
<1>3. app[u] <= Len(Appenders(u)) + 1 /\ MadeUpTo(cur[u], new[u][cur[u]], app[u] - 1)
  BY <1>1 DEF MixInv, PartAdded, Adding
<1>4. app[u] - 1 = Len(Appenders(u))
  BY <1>1, <1>2, <1>3
<1>5. QED
  BY <1>3, <1>4 DEF MadeUpTo, Matches, Appenders

LEMMA AddedMix ==
  ASSUME Inv, MixInv, NEW u \in Updater, StartDelete(u)
  PROVE  MixInv'
<1> DEFINE n == cur[u]
           d == new[u][n]
<1>1. /\ pc[u] = "add" /\ pc' = [pc EXCEPT ![u] = "delete"] /\ app[u] > Len(Appenders(u))
      /\ UNCHANGED <<m_appenders, applied, new, cur>>
  BY DEF StartDelete
<1>2. /\ u \in Thread /\ pc \in [Thread -> UpdaterLabel \cup WriterLabel]
      /\ app[u] \in Nat /\ Len(Appenders(u)) \in Nat
  BY <1>1, CurrentDefined DEF Inv, Running, FramesOK, Thread, AtOne
<1>3. \A t : Adding(t) <=> t = u
  BY <1>1, OneAdds DEF Listening, Adding
<1>4. \A t : ~ Adding(t)'
  BY <1>1, <1>2, <1>3 DEF Adding, Thread
<1>5. applied[n] = {d} /\ app[u] <= Len(Appenders(u)) + 1 /\ MadeUpTo(n, d, app[u] - 1)
  BY <1>3 DEF MixInv, PartAdded
<1>6. Matches(n, d)
  BY AddedMatches
<1>7. Whole(n)
  BY <1>5, <1>6 DEF Whole
<1>8. \A m \in Name : Whole(m)
  BY <1>3, <1>7 DEF MixInv, WholeOrAdding
<1>9. \A m \in Name : Whole(m)'
  BY <1>1, <1>8 DEF Whole, Matches
<1>10. QED
  BY <1>4, <1>9 DEF MixInv, WholeOrAdding, PartAdded

(* It clears the appenders of a logger that is not defined any more.        *)
LEMMA DeleteMix ==
  ASSUME Inv, MixInv, NEW u \in Updater, DeleteClear(u)
  PROVE  MixInv'
<1> DEFINE n == Least(gone[u])
<1>1. /\ pc[u] = "delete_clear" /\ pc' = [pc EXCEPT ![u] = "delete"]
      /\ m_appenders' = [m_appenders EXCEPT ![n] = <<>>]
      /\ applied' = [applied EXCEPT ![n] = {}]
  BY DEF DeleteClear
<1>2. gone[u] \in SUBSET Name /\ gone[u] # {}
  BY <1>1 DEF Inv, Places, FramesOK
<1>3. /\ n \in Name /\ n \in Logger /\ u \in Thread
      /\ pc \in [Thread -> UpdaterLabel \cup WriterLabel]
      /\ m_appenders \in [Logger -> Seq(Appender)] /\ applied \in [Name -> SUBSET Definition]
  BY <1>2, LeastIn DEF Inv, Running, ObjectsOK, HistoryOK, Thread, Logger
<1> HIDE DEF n
<1>4. \A t : ~ Adding(t)
  BY <1>1, OneAdds DEF Listening, Adding
<1>5. \A t : ~ Adding(t)'
  BY <1>1, <1>3, <1>4 DEF Adding, Thread
<1>6. ASSUME NEW m \in Name PROVE Whole(m)'
  <2>1. CASE m = n
    BY <1>1, <1>3, <2>1 DEF Whole
  <2>2. CASE m # n
    <3>1. m_appenders'[m] = m_appenders[m] /\ applied'[m] = applied[m]
      BY <1>1, <1>3, <2>2 DEF Logger
    <3>2. Whole(m)
      BY <1>4 DEF MixInv, WholeOrAdding
    <3>3. QED
      BY <3>1, <3>2 DEF Whole, Matches
  <2>3. QED
    BY <2>1, <2>2
<1>7. QED
  BY <1>5, <1>6 DEF MixInv, WholeOrAdding, PartAdded

LEMMA InitMix == Init => MixInv
<1> SUFFICES ASSUME Init PROVE MixInv
  OBVIOUS
<1>1. \A u : ~ Adding(u)
  BY DEF Init, Adding, Thread
<1>2. \A n \in Name : Whole(n)
  BY NameAssumption DEF Init, Whole, Logger
<1>3. QED
  BY <1>1, <1>2 DEF MixInv, WholeOrAdding, PartAdded

LEMMA NextMix == Inv /\ MixInv /\ [Next]_vars => MixInv'
<1> SUFFICES ASSUME Inv, MixInv, [Next]_vars PROVE MixInv'
  OBVIOUS
<1> USE DEF Adding
<1>0. pc \in [Thread -> UpdaterLabel \cup WriterLabel] /\ Updater \subseteq Thread
  BY DEF Inv, Running, Thread
<1>1. ASSUME NEW u \in Updater, UNCHANGED <<m_appenders, applied>>,
             UpdateNameless(u) \/ Update(u) \/ Set(u),
             (pc[u] # "add" /\ pc'[u] # "add") \/ UNCHANGED UpdaterFrame(u)
      PROVE  MixInv'
  BY <1>1, Apart, MixKept
<1>2. ASSUME NEW u \in Updater, UpdateNameless(u) \/ Update(u) PROVE MixInv'
  BY <1>0, <1>1, <1>2 DEF UpdateNameless, Update
<1>3. ASSUME NEW u \in Updater, Lock(u) \/ EndListener(u) \/ Assign(u) PROVE MixInv'
  <2>1. UNCHANGED <<m_appenders, applied>> /\ pc[u] # "add" /\ pc'[u] # "add"
    BY <1>0, <1>3 DEF Lock, StartListener, EndListener, Assign
  <2>2. QED
    BY <1>1, <1>3, <2>1 DEF Set
<1>4. ASSUME NEW u \in Updater, Skip(u) \/ Pick(u) \/ SetLevel(u) \/ DeleteLevel(u) \/ EndDelete(u)
      PROVE  MixInv'
  <2>1. UNCHANGED <<m_appenders, applied>> /\ pc[u] # "add" /\ pc'[u] # "add"
    BY <1>0, <1>4 DEF Skip, Pick, SetLevel, DeleteLevel, EndDelete
  <2>2. QED
    BY <1>1, <1>4, <2>1 DEF Set, Listen
<1>5. ASSUME NEW u \in Updater, AddMissingFile(u) PROVE MixInv'
  <2>1. pc' = [pc EXCEPT ![u] = "add"] /\ pc[u] = "add"
        /\ UNCHANGED <<m_appenders, applied, new, todo, gone, cur, app>>
    BY <1>5 DEF AddMissingFile
  <2>2. UNCHANGED UpdaterFrame(u)
    BY <1>0, <2>1 DEF UpdaterFrame
  <2>3. QED
    BY <1>1, <1>5, <2>1, <2>2 DEF Set, Listen
<1>6. ASSUME NEW u \in Updater, Set(u) PROVE MixInv'
  BY <1>3, <1>4, <1>5, <1>6, ClearMix, AddMix, AddedMix, DeleteMix DEF Set, Listen
<1>7. ASSUME NEW w \in Writer, Write(w) PROVE MixInv'
  <2>1. UNCHANGED <<m_appenders, applied>>
    BY <1>7 DEF Write, UseLogger, Check, MakeEvent, Log
  <2>2. QED
    BY <1>7, <2>1, Apart, MixKept
<1>8. CASE UNCHANGED vars
  <2>1. \A u \in Updater : UNCHANGED UpdaterFrame(u)
    BY <1>8 DEF UpdaterFrame
  <2>2. QED
    BY <1>8, <2>1, MixKept
<1>9. QED
  BY <1>2, <1>6, <1>7, <1>8 DEF Next, Exited

(* Several threads set the variable: when none is inside its listener, the  *)
(* appenders of every logger are those of one definition, never of two      *)
(* (src/src/log.cpp:654, under the lock of src/src/config.hpp:309).         *)
THEOREM AppendersOfOneDefinition == Spec => []NeverMixed
<1>1. Inv /\ MixInv => NeverMixed
  <2> SUFFICES ASSUME Inv, MixInv, pass = NoOne, NEW n \in Name PROVE Whole(n)
    BY DEF NeverMixed, Whole
  <2>1. \A u : ~ Adding(u)
    BY NameAssumption DEF Inv, Running, Listening, Adding
  <2>2. QED
    BY <2>1 DEF MixInv, WholeOrAdding
<1>2. Inv /\ MixInv /\ [Next]_vars => MixInv'
  BY NextMix
<1>3. QED
  BY <1>1, <1>2, InitMix, Invariance, PTL DEF Spec

-----------------------------------------------------------------------------
(* What is deleted is off *)

(* A logger has the level lv, unless an event has written its level since   *)
(* the listener did.                                                        *)
LevelSet(n, lv) == n \notin logged => m_level[n] = lv

Off(n) == LevelSet(n, OFF) /\ m_appenders[n] = <<>>

(* Nothing is done to the logger n, but that an event may write its level.  *)
Untouched(n) ==
  /\ m_appenders'[n] = m_appenders[n]
  /\ n \in logged' \/ (n \notin logged /\ m_level'[n] = m_level[n])

LEMMA LevelKept ==
  ASSUME NEW n, NEW lv, Untouched(n), LevelSet(n, lv)
  PROVE  n \notin logged' => m_level'[n] = lv
BY DEF Untouched, LevelSet

LEMMA OffKept ==
  ASSUME NEW n, Untouched(n), Off(n)
  PROVE  Off(n)'
BY DEF Untouched, Off, LevelSet

(* A deleted logger is off, until the listener is about to clear it for a   *)
(* new definition; it adds no appender to it and has turned off the one     *)
(* that it is deleting.                                                     *)
DeletedOff ==
  /\ \A n \in deleted : Off(n) \/ \E u \in Updater : pc[u] = "clear" /\ cur[u] = n
  /\ \A u \in Updater : pc[u] = "add" => cur[u] \notin deleted
  /\ \A u \in Updater : pc[u] = "delete_clear" => LevelSet(Least(gone[u]), OFF)

(* While an updater runs the listener, no other does.                       *)
LEMMA Alone ==
  ASSUME Inv, NEW u \in Updater, pc[u] \in Listening, NEW v \in Updater, v # u
  PROVE  pc[v] \notin Listening
BY DEF Inv, Running

(* Steps that change neither the deleted loggers nor which they are.        *)
LEMMA DeletedKept ==
  ASSUME Inv, DeletedOff, UNCHANGED deleted, \A n \in Name : Untouched(n),
         \A u \in Updater : \/ pc[u] # "clear" /\ pc'[u] \notin {"add", "delete_clear"}
                            \/ UNCHANGED UpdaterFrame(u)
  PROVE  DeletedOff'
<1>1. deleted \subseteq Name /\ gone \in [Updater -> SUBSET Name]
  BY DEF Inv, HistoryOK, FramesOK
<1>2. \A n \in deleted : Off(n) => Off(n)'
  BY <1>1, OffKept
<1>3. ASSUME NEW n \in deleted PROVE Off(n)' \/ \E v \in Updater : pc'[v] = "clear" /\ cur'[v] = n
  <2>1. CASE Off(n)
    BY <1>2, <2>1
  <2>2. ASSUME NEW v \in Updater, pc[v] = "clear", cur[v] = n PROVE pc'[v] = "clear" /\ cur'[v] = n
    BY <2>2 DEF UpdaterFrame
  <2>3. QED
    BY <2>1, <2>2 DEF DeletedOff
<1>4. ASSUME NEW v \in Updater, pc'[v] = "add" PROVE cur'[v] \notin deleted
  BY <1>4 DEF UpdaterFrame, DeletedOff
<1>5. ASSUME NEW v \in Updater, pc'[v] = "delete_clear" PROVE LevelSet(Least(gone[v]), OFF)'
  <2>1. pc[v] = "delete_clear" /\ gone'[v] = gone[v] /\ gone[v] # {}
    BY <1>5 DEF UpdaterFrame, Inv, Places
  <2>2. Least(gone[v]) \in Name
    BY <1>1, <2>1, LeastIn
  <2>3. LevelSet(Least(gone[v]), OFF)
    BY <2>1 DEF DeletedOff
  <2>4. QED
    BY <2>1, <2>2, <2>3 DEF LevelSet, Untouched
<1>6. QED
  BY <1>3, <1>4, <1>5 DEF DeletedOff

(* A step of one updater, or of none.                                       *)
LEMMA DeletedKeptBy ==
  ASSUME Inv, DeletedOff, NEW u \in Updater, Set(u) \/ UpdateNameless(u) \/ Update(u),
         UNCHANGED deleted, \A n \in Name : Untouched(n),
         (pc[u] # "clear" /\ pc'[u] \notin {"add", "delete_clear"}) \/ UNCHANGED UpdaterFrame(u)
  PROVE  DeletedOff'
BY Apart, DeletedKept

LEMMA SetLevelDeleted ==
  ASSUME Inv, DeletedOff, NEW u \in Updater, SetLevel(u)
  PROVE  DeletedOff'
<1>1. /\ pc[u] = "level" /\ pc' = [pc EXCEPT ![u] = "clear"]
      /\ UNCHANGED <<m_appenders, deleted, cur>>
      /\ \E lv : m_level' = [m_level EXCEPT ![cur[u]] = lv]
      /\ logged' = logged \ {cur[u]}
  BY DEF SetLevel
<1>2. /\ pc \in [Thread -> UpdaterLabel \cup WriterLabel] /\ u \in Thread
      /\ Updater \subseteq Thread
      /\ m_level \in [Logger -> Level] /\ deleted \subseteq Logger
  BY DEF Inv, Running, Thread, ObjectsOK, HistoryOK, Logger
<1>3. \A v \in Updater : v # u => pc[v] \notin Listening
  BY <1>1, Alone DEF Listening
<1>4. ASSUME NEW n \in deleted, n # cur[u] PROVE Off(n)'
  <2>1. Off(n)
    BY <1>1, <1>3, <1>4 DEF DeletedOff, Listening
  <2>2. QED
    BY <1>1, <1>2, <1>4, <2>1 DEF Off, LevelSet
<1>5. pc'[u] = "clear" /\ cur'[u] = cur[u]
  BY <1>1, <1>2
<1>6. \A v \in Updater : pc'[v] \notin {"add", "delete_clear"}
  BY <1>1, <1>2, <1>3 DEF Listening
<1>7. QED
  BY <1>1, <1>4, <1>5, <1>6 DEF DeletedOff

LEMMA ClearDeleted ==
  ASSUME Inv, DeletedOff, NEW u \in Updater, ClearAppenders(u)
  PROVE  DeletedOff'
<1>1. /\ pc[u] = "clear" /\ pc' = [pc EXCEPT ![u] = "add"] /\ UNCHANGED <<m_level, logged, cur>>
      /\ m_appenders' = [m_appenders EXCEPT ![cur[u]] = <<>>] /\ deleted' = deleted \ {cur[u]}
  BY DEF ClearAppenders
<1>2. /\ pc \in [Thread -> UpdaterLabel \cup WriterLabel] /\ u \in Thread
      /\ Updater \subseteq Thread
      /\ m_appenders \in [Logger -> Seq(Appender)] /\ deleted \subseteq Logger
  BY DEF Inv, Running, Thread, ObjectsOK, HistoryOK, Logger
<1>3. \A v \in Updater : v # u => pc[v] \notin Listening
  BY <1>1, Alone DEF Listening
<1>4. ASSUME NEW n \in deleted, n # cur[u] PROVE Off(n)'
  <2>1. Off(n)
    BY <1>1, <1>3, <1>4 DEF DeletedOff, Listening
  <2>2. QED
    BY <1>1, <1>2, <1>4, <2>1 DEF Off, LevelSet
<1>5. \A v \in Updater : pc'[v] # "delete_clear" /\ (pc'[v] = "add" => v = u)
  BY <1>1, <1>2, <1>3 DEF Listening
<1>6. QED
  BY <1>1, <1>4, <1>5 DEF DeletedOff

LEMMA AddDeleted ==
  ASSUME Inv, DeletedOff, NEW u \in Updater, AddAppender(u)
  PROVE  DeletedOff'
<1>1. /\ pc[u] = "add" /\ pc' = [pc EXCEPT ![u] = "add"]
      /\ UNCHANGED <<m_level, logged, cur, deleted>>
      /\ \E s : m_appenders' = [m_appenders EXCEPT ![cur[u]] = s]
  BY DEF AddAppender
<1>2. /\ pc \in [Thread -> UpdaterLabel \cup WriterLabel] /\ u \in Thread
      /\ Updater \subseteq Thread
      /\ m_appenders \in [Logger -> Seq(Appender)] /\ deleted \subseteq Logger
  BY DEF Inv, Running, Thread, ObjectsOK, HistoryOK, Logger
<1>3. \A v \in Updater : v # u => pc[v] \notin Listening
  BY <1>1, Alone DEF Listening
<1>4. cur[u] \notin deleted
  BY <1>1 DEF DeletedOff
<1>5. ASSUME NEW n \in deleted PROVE Off(n)'
  <2>1. Off(n)
    BY <1>1, <1>3, <1>5 DEF DeletedOff, Listening
  <2>2. QED
    BY <1>1, <1>2, <1>4, <1>5, <2>1 DEF Off, LevelSet
<1>6. \A v \in Updater : pc'[v] # "delete_clear" /\ (pc'[v] = "add" => v = u)
  BY <1>1, <1>2, <1>3 DEF Listening
<1>7. QED
  BY <1>1, <1>4, <1>5, <1>6 DEF DeletedOff

LEMMA DeleteLevelDeleted ==
  ASSUME Inv, DeletedOff, NEW u \in Updater, DeleteLevel(u)
  PROVE  DeletedOff'
<1> DEFINE m == Least(gone[u])
<1>1. /\ pc[u] = "delete" /\ pc' = [pc EXCEPT ![u] = "delete_clear"]
      /\ UNCHANGED <<m_appenders, deleted, gone>> /\ gone[u] # {}
      /\ m_level' = [m_level EXCEPT ![m] = OFF] /\ logged' = logged \ {m}
  BY DEF DeleteLevel
<1>2. /\ pc \in [Thread -> UpdaterLabel \cup WriterLabel] /\ u \in Thread
      /\ Updater \subseteq Thread
      /\ m_level \in [Logger -> Level] /\ deleted \subseteq Logger /\ gone[u] \in SUBSET Name
  BY DEF Inv, Running, Thread, ObjectsOK, HistoryOK, FramesOK, Logger
<1>3. \A v \in Updater : v # u => pc[v] \notin Listening
  BY <1>1, Alone DEF Listening
<1>4. m \in Logger
  BY <1>1, <1>2, LeastIn DEF Logger
<1> HIDE DEF m
<1>5. ASSUME NEW n \in deleted PROVE Off(n)'
  <2>1. Off(n)
    BY <1>1, <1>3, <1>5 DEF DeletedOff, Listening
  <2>2. QED
    BY <1>1, <1>2, <1>4, <2>1 DEF Off, LevelSet
<1>6. \A v \in Updater : pc'[v] # "add" /\ (pc'[v] = "delete_clear" => v = u)
  BY <1>1, <1>2, <1>3 DEF Listening
<1>7. LevelSet(Least(gone[u]), OFF)'
  BY <1>1, <1>2, <1>4 DEF m, LevelSet
<1>8. QED
  BY <1>1, <1>5, <1>6, <1>7 DEF DeletedOff

LEMMA DeleteClearDeleted ==
  ASSUME Inv, DeletedOff, NEW u \in Updater, DeleteClear(u)
  PROVE  DeletedOff'
<1> DEFINE m == Least(gone[u])
<1>1. /\ pc[u] = "delete_clear" /\ pc' = [pc EXCEPT ![u] = "delete"]
      /\ UNCHANGED <<m_level, logged>> /\ deleted' = deleted \cup {m}
      /\ m_appenders' = [m_appenders EXCEPT ![m] = <<>>]
  BY DEF DeleteClear
<1>2. /\ pc \in [Thread -> UpdaterLabel \cup WriterLabel] /\ u \in Thread
      /\ Updater \subseteq Thread
      /\ m_appenders \in [Logger -> Seq(Appender)] /\ deleted \subseteq Logger
      /\ gone[u] \in SUBSET Name /\ gone[u] # {}
  BY <1>1 DEF Inv, Running, Thread, ObjectsOK, HistoryOK, FramesOK, Places, Logger
<1>3. \A v \in Updater : v # u => pc[v] \notin Listening
  BY <1>1, Alone DEF Listening
<1>4. m \in Logger /\ LevelSet(m, OFF)
  <2>1. m \in Name
    BY <1>2, LeastIn
  <2>2. LevelSet(m, OFF)
    BY <1>1 DEF DeletedOff
  <2>3. QED
    BY <2>1, <2>2 DEF Logger
<1> HIDE DEF m
<1>5. ASSUME NEW n \in deleted PROVE Off(n)'
  <2>1. Off(n) /\ n \in Logger
    BY <1>1, <1>2, <1>3, <1>5 DEF DeletedOff, Listening
  <2>2. m_appenders'[n] = IF n = m THEN <<>> ELSE m_appenders[n]
    BY <1>1, <1>2, <2>1
  <2>3. QED
    BY <1>1, <2>1, <2>2 DEF Off, LevelSet
<1>6. ASSUME NEW n, n = m PROVE Off(n)'
  <2>1. m_appenders'[n] = <<>> /\ LevelSet(n, OFF)'
    BY <1>1, <1>2, <1>4, <1>6 DEF LevelSet
  <2>2. QED
    BY <2>1 DEF Off, LevelSet
<1>7. \A v \in Updater : pc'[v] \notin {"add", "delete_clear"}
  BY <1>1, <1>2, <1>3 DEF Listening
<1>8. deleted' = deleted \cup {m}
  BY <1>1
<1>9. ASSUME NEW n \in deleted' PROVE Off(n)'
  BY <1>5, <1>6, <1>8, <1>9
<1>10. QED
  BY <1>7, <1>9 DEF DeletedOff

(* A writer touches no logger but to write its level in an event.           *)
LEMMA WriteTouches ==
  ASSUME Inv, NEW w \in Writer, Write(w)
  PROVE  /\ \A n \in Name : Untouched(n)
         /\ m_loggers \subseteq m_loggers' /\ UNCHANGED <<m_val, deleted, overlapped>>
<1>1. ASSUME MakeEvent(w) PROVE \A n \in Name : Untouched(n)
  <2>1. /\ m_level' = [m_level EXCEPT ![ev[w].logger] = ev[w].level]
        /\ logged' = logged \cup {ev[w].logger} /\ UNCHANGED m_appenders
    BY <1>1 DEF MakeEvent, NewEvent
  <2>2. m_level \in [Logger -> Level] /\ Name \subseteq Logger
    BY DEF Inv, ObjectsOK, Logger
  <2>3. QED
    BY <2>1, <2>2 DEF Untouched
<1>2. ASSUME UNCHANGED <<m_level, m_appenders, logged>> PROVE \A n \in Name : Untouched(n)
  BY <1>2 DEF Untouched
<1>3. m_loggers \subseteq m_loggers' /\ UNCHANGED <<m_val, deleted, overlapped>>
  BY DEF Write, UseLogger, GetLogger, Check, MakeEvent, Log
<1>4. QED
  BY <1>1, <1>2, <1>3 DEF Write, UseLogger, Check, Log

LEMMA NextDeletedOff == Inv /\ DeletedOff /\ [Next]_vars => DeletedOff'
<1> SUFFICES ASSUME Inv, DeletedOff, [Next]_vars PROVE DeletedOff'
  OBVIOUS
<1>0. pc \in [Thread -> UpdaterLabel \cup WriterLabel] /\ Updater \subseteq Thread
  BY DEF Inv, Running, Thread
<1> DEFINE Quiet(u) == pc[u] # "clear" /\ pc'[u] \notin {"add", "delete_clear"}
<1>1. ASSUME NEW u \in Updater, UpdateNameless(u) \/ Update(u) PROVE DeletedOff'
  <2>1. UNCHANGED <<deleted, m_appenders, m_level, logged>>
    BY <1>1 DEF UpdateNameless, Update
  <2>2. Quiet(u)
    BY <1>0, <1>1 DEF UpdateNameless, Update
  <2>3. QED
    BY <1>1, <2>1, <2>2, DeletedKeptBy DEF Untouched
<1>2. ASSUME NEW u \in Updater, Lock(u) PROVE DeletedOff'
  <2>1. UNCHANGED <<deleted, m_appenders>> /\ Quiet(u)
    BY <1>0, <1>2 DEF Lock, StartListener
  <2>2. \/ UNCHANGED <<m_level, logged>>
        \/ m_level' = [m_level EXCEPT ![Root] = INFO] /\ logged' = logged \cup {Root}
    BY <1>2 DEF Lock, StartListener, NewEvent
  <2>3. \A n \in Name : Untouched(n)
    BY <2>1, <2>2, NameAssumption DEF Inv, ObjectsOK, Logger, Untouched
  <2>4. QED
    BY <1>2, <2>1, <2>3, DeletedKeptBy DEF Untouched, Set
<1>3. ASSUME NEW u \in Updater, EndListener(u) \/ Assign(u) PROVE DeletedOff'
  <2>1. UNCHANGED <<deleted, m_appenders, m_level, logged>> /\ Quiet(u)
    BY <1>0, <1>3 DEF EndListener, Assign
  <2>2. QED
    BY <1>3, <2>1, DeletedKeptBy DEF Untouched, Set
<1>4. ASSUME NEW u \in Updater, Skip(u) \/ Pick(u) \/ StartDelete(u) \/ EndDelete(u)
      PROVE  DeletedOff'
  <2>1. UNCHANGED <<deleted, m_appenders, m_level, logged>> /\ Quiet(u)
    BY <1>0, <1>4 DEF Skip, Pick, StartDelete, EndDelete
  <2>2. QED
    BY <1>4, <2>1, DeletedKeptBy DEF Untouched, Set, Listen
<1>5. ASSUME NEW u \in Updater, AddMissingFile(u) PROVE DeletedOff'
  <2>1. pc' = [pc EXCEPT ![u] = "add"] /\ pc[u] = "add"
        /\ UNCHANGED <<deleted, m_appenders, m_level, logged, new, todo, gone, cur, app>>
    BY <1>5 DEF AddMissingFile
  <2>2. UNCHANGED UpdaterFrame(u)
    BY <1>0, <2>1 DEF UpdaterFrame
  <2>3. QED
    BY <1>5, <2>1, <2>2, DeletedKeptBy DEF Untouched, Set, Listen
<1>6. CASE UNCHANGED vars
  BY <1>6 DEF DeletedOff, Off, LevelSet
<1>7. ASSUME NEW w \in Writer, Write(w) PROVE DeletedOff'
  <2>1. UNCHANGED deleted /\ \A n \in Name : Untouched(n)
    BY <1>7, WriteTouches
  <2>2. \A u \in Updater : UNCHANGED UpdaterFrame(u)
    BY <1>7, Apart
  <2>3. QED
    BY <2>1, <2>2, DeletedKept
<1> HIDE DEF Quiet
<1>8. QED
  BY <1>1, <1>2, <1>3, <1>4, <1>5, <1>6, <1>7, SetLevelDeleted, ClearDeleted, AddDeleted,
     DeleteLevelDeleted, DeleteClearDeleted DEF Next, Set, Listen, Exited

(* However many threads set the variable and log: when no update is under   *)
(* way, a logger that the listener has deleted, by whichever update, and    *)
(* that none has defined since, has no appender, and is off unless an event *)
(* has written its level since (src/src/log.cpp:747-754, 69).               *)
THEOREM DeletedAreOff == Spec => []DeletedIsOff
<1>1. Init => DeletedOff
  BY DEF Init, DeletedOff, Thread
<1>2. Inv /\ DeletedOff /\ [Next]_vars => DeletedOff'
  BY NextDeletedOff
<1>3. DeletedOff => DeletedIsOff
  BY DEF DeletedOff, DeletedIsOff, Off, LevelSet, Idle
<1>4. QED
  BY Invariance, <1>1, <1>2, <1>3, PTL DEF Spec

-----------------------------------------------------------------------------
(* What is defined is applied *)

(* At most one thread is setting the variable.                              *)
OneUpdates == \A t, u \in Updater : pc[t] # "idle" /\ pc[u] # "idle" => t = u

Configured(n, d) == n \in m_loggers /\ Matches(n, d) /\ LevelSet(n, d.level)

(* The definitions that the loop has passed, and those it will pass over,   *)
(* are applied.                                                             *)
Treated(u) ==
  \A n \in DOMAIN new[u] : n \notin todo[u] \/ Same(u, n) => Configured(n, new[u][n])

(* How far the listener is with one definition.                             *)
Working(u) ==
  /\ pc[u] \in Listening \cup {"assign"} => Treated(u)
  /\ pc[u] = "assign" => todo[u] = {}
  /\ pc[u] \in AtOne => cur[u] = Least(todo[u]) /\ cur[u] \in m_loggers /\ ~ Same(u, cur[u])
  /\ pc[u] \in {"clear", "add", "delete", "delete_clear"} =>
       LevelSet(cur[u], new[u][cur[u]].level)
  /\ pc[u] \in {"delete", "delete_clear"} =>
       Matches(cur[u], new[u][cur[u]]) /\ gone[u] \cap DOMAIN new[u] = {}

AtRest ==
  (\A u \in Updater : pc[u] \in {"idle", "lock"}) =>
    \A n \in DOMAIN m_val : Configured(n, m_val[n])

(* As long as no two updates have overlapped.                               *)
Applying == ~ overlapped => OneUpdates /\ AtRest /\ \A u \in Updater : Working(u)

LEMMA ConfiguredKept ==
  ASSUME NEW n, NEW d, Untouched(n), m_loggers \subseteq m_loggers', Configured(n, d)
  PROVE  Configured(n, d)'
BY DEF Untouched, Configured, Matches, LevelSet

(* The definitions of u are treated when the rest of todo is untouched.     *)
LEMMA TreatedKept ==
  ASSUME NEW u \in Updater, Treated(u), new'[u] = new[u], m_val' = m_val,
         m_loggers \subseteq m_loggers', todo'[u] = todo[u],
         \A n \in DOMAIN new[u] : n \notin todo[u] \/ Same(u, n) => Untouched(n)
  PROVE  Treated(u)'
<1> SUFFICES ASSUME NEW n \in DOMAIN new[u], n \notin todo[u] \/ Same(u, n)
             PROVE  Configured(n, new[u][n])'
  BY DEF Treated, Same
<1>1. Configured(n, new[u][n]) /\ Untouched(n)
  BY DEF Treated
<1> DEFINE d == new[u][n]
<1>2. d' = d /\ Configured(n, d)
  BY <1>1
<1> HIDE DEF d
<1>3. ASSUME NEW e, e = d PROVE Configured(n, e)'
  BY <1>1, <1>2, <1>3, ConfiguredKept
<1>4. Configured(n, d)'
  BY <1>2, <1>3 DEF Configured, Matches, LevelSet
<1>5. QED
  BY <1>4 DEF d

(* The definition that the listener is at is not among them.                *)
LEMMA CurrentDue ==
  ASSUME Inv, NEW u \in Updater, Working(u), pc[u] \in AtOne
  PROVE  /\ cur[u] \in todo[u] /\ cur[u] \in DOMAIN new[u] /\ cur[u] \in Name
         /\ \A n \in DOMAIN new[u] : n \notin todo[u] \/ Same(u, n) => n # cur[u]
<1>1. todo[u] \in SUBSET Name /\ todo[u] # {} /\ cur[u] \in DOMAIN new[u] /\ cur[u] \in Name
  BY DEF Inv, FramesOK, Places
<1>2. cur[u] \in todo[u]
  BY <1>1, LeastIn DEF Working
<1>3. QED
  BY <1>1, <1>2 DEF Working

LEMMA LockApplies ==
  ASSUME Inv, AtRest, NEW u \in Updater, \A v \in Updater : v # u => pc[v] = "idle", Lock(u)
  PROVE  Working(u)'
<1>1. /\ pc[u] = "lock" /\ pc' = [pc EXCEPT ![u] = "loop"]
      /\ todo' = [todo EXCEPT ![u] = DOMAIN new[u]]
      /\ UNCHANGED <<m_val, m_loggers, m_appenders, new>>
      /\ \/ UNCHANGED <<m_level, logged>>
         \/ m_level' = [m_level EXCEPT ![Root] = INFO] /\ logged' = logged \cup {Root}
  BY DEF Lock, StartListener, NewEvent
<1>2. \A n \in DOMAIN m_val : Configured(n, m_val[n])
  BY <1>1 DEF AtRest
<1>3. pc'[u] = "loop" /\ todo'[u] = DOMAIN new[u]
  BY <1>1, UpdaterTypes
<1>4. ASSUME NEW n \in Name PROVE Untouched(n)
  BY <1>1, UpdaterTypes, NameAssumption DEF Untouched
<1>5. ASSUME NEW n \in DOMAIN new[u], Same(u, n), NEW e, e = new[u][n] PROVE Configured(n, e)'
  <2>1. n \in Name /\ e = m_val[n] /\ n \in DOMAIN m_val
    BY <1>5, UpdaterTypes DEF Same
  <2>2. Configured(n, e) /\ Untouched(n) /\ m_loggers \subseteq m_loggers'
    BY <1>1, <1>2, <1>4, <2>1
  <2>3. QED
    BY <2>2, ConfiguredKept
<1>6. Treated(u)'
  BY <1>1, <1>3, <1>5 DEF Treated, Same, Configured, Matches, LevelSet
<1>7. QED
  BY <1>3, <1>6 DEF Working, AtOne

LEMMA SkipApplies ==
  ASSUME Inv, NEW u \in Updater, Working(u), Skip(u)
  PROVE  Working(u)'
<1> DEFINE m == Least(todo[u])
<1>1. /\ pc[u] = "loop" /\ pc' = [pc EXCEPT ![u] = "loop"] /\ Same(u, m)
      /\ todo' = [todo EXCEPT ![u] = @ \ {m}]
      /\ UNCHANGED <<m_val, m_loggers, m_level, logged, m_appenders, new>>
  BY DEF Skip
<1>2. pc'[u] = "loop" /\ todo'[u] = todo[u] \ {m}
  BY <1>1, UpdaterTypes
<1>3. Treated(u)
  BY <1>1 DEF Working, Listening
<1> HIDE DEF m
<1>4. Treated(u)'
  BY <1>1, <1>2, <1>3 DEF Treated, Same, Configured, Matches, LevelSet
<1>5. QED
  BY <1>2, <1>4 DEF Working, AtOne

LEMMA PickApplies ==
  ASSUME Inv, NEW u \in Updater, Working(u), Pick(u)
  PROVE  Working(u)'
<1> DEFINE m == Least(todo[u])
<1>1. /\ pc[u] = "loop" /\ pc' = [pc EXCEPT ![u] = "level"] /\ ~ Same(u, m)
      /\ cur' = [cur EXCEPT ![u] = m] /\ m_loggers' = m_loggers \cup {m}
      /\ UNCHANGED <<m_val, m_level, logged, m_appenders, new, todo>>
  BY DEF Pick, GetLogger
<1>2. pc'[u] = "level" /\ cur'[u] = m
  BY <1>1, UpdaterTypes
<1>3. Treated(u)
  BY <1>1 DEF Working, Listening
<1>4. Treated(u)'
  BY <1>1, <1>3 DEF Treated, Same, Configured, Matches, LevelSet
<1>5. cur'[u] = Least(todo'[u]) /\ cur'[u] \in m_loggers' /\ ~ Same(u, cur[u])'
  BY <1>1, <1>2 DEF Same
<1>6. QED
  BY <1>2, <1>4, <1>5 DEF Working

LEMMA SetLevelApplies ==
  ASSUME Inv, NEW u \in Updater, Working(u), SetLevel(u)
  PROVE  Working(u)'
<1>1. /\ pc[u] = "level" /\ pc' = [pc EXCEPT ![u] = "clear"]
      /\ m_level' = [m_level EXCEPT ![cur[u]] = new[u][cur[u]].level]
      /\ logged' = logged \ {cur[u]}
      /\ UNCHANGED <<m_val, m_loggers, m_appenders, new, todo, cur>>
  BY DEF SetLevel
<1>2. pc'[u] = "clear" /\ m_level'[cur[u]] = new[u][cur[u]].level
  BY <1>1, UpdaterTypes
<1>3. Treated(u) /\ cur[u] = Least(todo[u]) /\ cur[u] \in m_loggers /\ ~ Same(u, cur[u])
  BY <1>1 DEF Working, Listening, AtOne
<1>4. ASSUME NEW n \in DOMAIN new[u], n \notin todo[u] \/ Same(u, n) PROVE Untouched(n)
  <2>1. n # cur[u] /\ n \in Name
    BY <1>1, <1>4, CurrentDue, UpdaterTypes DEF AtOne
  <2>2. QED
    BY <1>1, <2>1, UpdaterTypes DEF Untouched
<1>5. Treated(u)'
  BY <1>1, <1>3, <1>4, TreatedKept
<1>6. LevelSet(cur[u], new[u][cur[u]].level)'
  BY <1>1, <1>2 DEF LevelSet
<1>7. QED
  BY <1>1, <1>2, <1>3, <1>5, <1>6 DEF Working, Same

LEMMA ClearApplies ==
  ASSUME Inv, NEW u \in Updater, Working(u), ClearAppenders(u) \/ AddAppender(u)
  PROVE  Working(u)'
<1>1. /\ pc[u] \in {"clear", "add"} /\ pc' = [pc EXCEPT ![u] = "add"]
      /\ \E s : m_appenders' = [m_appenders EXCEPT ![cur[u]] = s]
      /\ UNCHANGED <<m_val, m_loggers, m_level, logged, new, todo, cur>>
  BY DEF ClearAppenders, AddAppender
<1>2. pc'[u] = "add"
  BY <1>1, UpdaterTypes
<1>3. Treated(u) /\ cur[u] = Least(todo[u]) /\ cur[u] \in m_loggers /\ ~ Same(u, cur[u])
      /\ LevelSet(cur[u], new[u][cur[u]].level)
  BY <1>1 DEF Working, Listening, AtOne
<1>4. ASSUME NEW n \in DOMAIN new[u], n \notin todo[u] \/ Same(u, n) PROVE Untouched(n)
  <2>1. n # cur[u] /\ n \in Name
    BY <1>1, <1>4, CurrentDue, UpdaterTypes DEF AtOne
  <2>2. QED
    BY <1>1, <2>1, UpdaterTypes DEF Untouched
<1>5. Treated(u)'
  BY <1>1, <1>3, <1>4, TreatedKept
<1>6. QED
  BY <1>1, <1>2, <1>3, <1>5 DEF Working, Same, LevelSet

LEMMA StartDeleteApplies ==
  ASSUME Inv, MixInv, NEW u \in Updater, Working(u), StartDelete(u)
  PROVE  Working(u)'
<1>1. /\ pc[u] = "add" /\ pc' = [pc EXCEPT ![u] = "delete"]
      /\ gone' = [gone EXCEPT ![u] = DOMAIN m_val \ DOMAIN new[u]]
      /\ UNCHANGED <<m_val, m_loggers, m_level, logged, m_appenders, new, todo, cur>>
  BY DEF StartDelete
<1>2. pc'[u] = "delete" /\ gone'[u] \cap DOMAIN (new'[u]) = {}
  BY <1>1, UpdaterTypes
<1>3. Treated(u) /\ cur[u] = Least(todo[u]) /\ cur[u] \in m_loggers /\ ~ Same(u, cur[u])
      /\ LevelSet(cur[u], new[u][cur[u]].level)
  BY <1>1 DEF Working, Listening, AtOne
<1>4. Matches(cur[u], new[u][cur[u]])'
  BY <1>1, AddedMatches DEF Matches
<1>5. Treated(u)'
  BY <1>1, <1>3 DEF Treated, Same, Configured, Matches, LevelSet
<1>6. QED
  BY <1>1, <1>2, <1>3, <1>4, <1>5 DEF Working, Same, LevelSet

LEMMA DeleteApplies ==
  ASSUME Inv, NEW u \in Updater, Working(u), DeleteLevel(u) \/ DeleteClear(u)
  PROVE  Working(u)'
<1> DEFINE m == Least(gone[u])
<1>1. /\ pc[u] \in {"delete", "delete_clear"}
      /\ \E to \in {"delete", "delete_clear"} : pc' = [pc EXCEPT ![u] = to]
      /\ m_loggers \subseteq m_loggers'
      /\ \/ UNCHANGED m_appenders /\ logged' = logged \ {m}
            /\ \E lv : m_level' = [m_level EXCEPT ![m] = lv]
         \/ UNCHANGED <<m_level, logged>> /\ \E s : m_appenders' = [m_appenders EXCEPT ![m] = s]
      /\ gone' = gone \/ gone' = [gone EXCEPT ![u] = @ \ {m}]
      /\ UNCHANGED <<m_val, new, todo, cur>>
  BY DEF DeleteLevel, DeleteClear, GetLogger
<1>2. gone[u] # {}
  BY DEF DeleteLevel, DeleteClear, Inv, Places
<1>3. m \in gone[u]
  BY <1>2, UpdaterTypes, LeastIn
<1>4. Treated(u) /\ cur[u] = Least(todo[u]) /\ cur[u] \in m_loggers /\ ~ Same(u, cur[u])
      /\ LevelSet(cur[u], new[u][cur[u]].level)
      /\ Matches(cur[u], new[u][cur[u]]) /\ gone[u] \cap DOMAIN new[u] = {}
  BY <1>1 DEF Working, Listening, AtOne
<1> HIDE DEF m
<1>5. pc'[u] \in {"delete", "delete_clear"} /\ gone'[u] \subseteq gone[u]
  BY <1>1, UpdaterTypes
<1>6. ASSUME NEW n \in DOMAIN new[u] PROVE Untouched(n)
  <2>1. n # m /\ n \in Name
    BY <1>3, <1>4, <1>6, UpdaterTypes
  <2>2. QED
    BY <1>1, <2>1, UpdaterTypes DEF Untouched
<1>7. Treated(u)'
  BY <1>1, <1>4, <1>6, TreatedKept
<1>8. cur[u] \in DOMAIN new[u]
  BY <1>1, CurrentDue DEF AtOne
<1>9. Untouched(cur[u])
  BY <1>6, <1>8
<1>10. LevelSet(cur[u], new[u][cur[u]].level)' /\ Matches(cur[u], new[u][cur[u]])'
  BY <1>1, <1>4, <1>9 DEF Untouched, Matches, LevelSet
<1>11. QED
  BY <1>1, <1>4, <1>5, <1>7, <1>10 DEF Working, Same

LEMMA EndDeleteApplies ==
  ASSUME Inv, NEW u \in Updater, Working(u), EndDelete(u)
  PROVE  Working(u)'
<1>1. /\ pc[u] = "delete" /\ pc' = [pc EXCEPT ![u] = "loop"]
      /\ todo' = [todo EXCEPT ![u] = @ \ {Least(@)}]
      /\ UNCHANGED <<m_val, m_loggers, m_level, logged, m_appenders, new, cur>>
  BY DEF EndDelete
<1>2. Treated(u) /\ cur[u] = Least(todo[u]) /\ Configured(cur[u], new[u][cur[u]])
  BY <1>1 DEF Working, Listening, AtOne, Configured
<1>3. pc'[u] = "loop" /\ todo'[u] = todo[u] \ {cur[u]}
  BY <1>1, <1>2, UpdaterTypes
<1>4. Treated(u)'
  BY <1>1, <1>2, <1>3 DEF Treated, Same, Configured, Matches, LevelSet
<1>5. QED
  BY <1>3, <1>4 DEF Working, AtOne

LEMMA WriteApplies ==
  ASSUME Inv, NEW w \in Writer, Write(w), NEW u \in Updater, Working(u)
  PROVE  Working(u)'
<1>1. /\ \A n \in Name : Untouched(n)
      /\ m_loggers \subseteq m_loggers' /\ UNCHANGED m_val /\ UNCHANGED UpdaterFrame(u)
  BY WriteTouches, Apart
<1>2. pc'[u] = pc[u] /\ new'[u] = new[u] /\ todo'[u] = todo[u] /\ gone'[u] = gone[u]
      /\ cur'[u] = cur[u]
  BY <1>1 DEF UpdaterFrame
<1>3. ASSUME Treated(u) PROVE Treated(u)'
  BY <1>1, <1>2, <1>3, TreatedKept, UpdaterTypes
<1>4. Untouched(cur[u])
  BY <1>1, UpdaterTypes
<1>5. ASSUME LevelSet(cur[u], new[u][cur[u]].level) PROVE LevelSet(cur[u], new[u][cur[u]].level)'
  BY <1>2, <1>4, <1>5 DEF LevelSet, Untouched
<1>6. ASSUME Matches(cur[u], new[u][cur[u]]) PROVE Matches(cur[u], new[u][cur[u]])'
  BY <1>2, <1>4, <1>6 DEF Matches, Untouched
<1>7. Same(u, cur[u])' <=> Same(u, cur[u])
  BY <1>1, <1>2 DEF Same
<1>8. QED
  BY <1>1, <1>2, <1>3, <1>5, <1>6, <1>7 DEF Working

(* One updater makes a step, and all the others are idle.                   *)
LEMMA OthersIdle ==
  ASSUME Inv, NEW u \in Updater, Set(u) \/ UpdateNameless(u) \/ Update(u),
         \A v \in Updater : v # u => pc[v] = "idle",
         Working(u)', AtRest'
  PROVE  Applying'
<1>1. ASSUME NEW v \in Updater, v # u PROVE pc'[v] = "idle" /\ Working(v)'
  <2>1. pc'[v] = "idle"
    BY <1>1, Apart DEF UpdaterFrame
  <2>2. QED
    BY <2>1 DEF Working, Listening, AtOne
<1>2. OneUpdates'
  BY <1>1 DEF OneUpdates
<1>3. QED
  BY <1>1, <1>2 DEF Applying

LEMMA NextApplying == Inv /\ MixInv /\ Applying /\ [Next]_vars => Applying'
<1> SUFFICES ASSUME Inv, MixInv, Applying, [Next]_vars, ~ overlapped' PROVE Applying'
  BY DEF Applying
<1>1. ASSUME NEW u \in Updater, UpdateNameless(u) \/ Update(u) PROVE Applying'
  <2>1. /\ UNCHANGED <<m_val, m_loggers, m_level, logged, m_appenders>> /\ pc[u] = "idle"
        /\ pc'[u] \in {"idle", "lock"}
    BY <1>1, UpdaterTypes DEF UpdateNameless, Update
  <2>2. CASE UpdateNameless(u)
    <3>1. UNCHANGED <<pc, new, todo, gone, cur, overlapped>>
      BY <2>2 DEF UpdateNameless
    <3>2. ~ overlapped /\ OneUpdates /\ AtRest /\ \A v \in Updater : Working(v)
      BY <3>1 DEF Applying
    <3>3. OneUpdates' /\ AtRest'
      BY <2>1, <3>1, <3>2 DEF OneUpdates, AtRest, Configured, Matches, LevelSet
    <3>4. ASSUME NEW v \in Updater PROVE Working(v)'
      BY <2>1, <3>1, <3>2 DEF Working, Treated, Same, Configured, Matches, LevelSet
    <3>5. QED
      BY <3>3, <3>4 DEF Applying
  <2>3. CASE Update(u)
    <3>1. ~ overlapped /\ \A v \in Updater : v # u => pc[v] = "idle"
      BY <2>3 DEF Update
    <3>2. \A n \in DOMAIN m_val : Configured(n, m_val[n])
      BY <2>1, <3>1 DEF Applying, AtRest
    <3>3. AtRest' /\ Working(u)'
      BY <2>1, <3>2 DEF AtRest, Configured, Matches, LevelSet, Working, Listening, AtOne
    <3>4. QED
      BY <2>3, <3>1, <3>3, OthersIdle
  <2>4. QED
    BY <1>1, <2>2, <2>3
<1>2. ASSUME NEW u \in Updater, Set(u)
      PROVE  /\ ~ overlapped /\ AtRest /\ Working(u)
             /\ \A v \in Updater : v # u => pc[v] = "idle"
  <2>1. UNCHANGED overlapped /\ pc[u] # "idle"
    BY <1>2 DEF Set, Lock, StartListener, Listen, Skip, Pick, SetLevel, ClearAppenders,
       AddAppender, AddMissingFile, StartDelete, DeleteLevel, DeleteClear, EndDelete,
       EndListener, Assign
  <2>2. QED
    BY <2>1 DEF Applying, OneUpdates
<1>3. ASSUME NEW u \in Updater, EndListener(u) PROVE Applying'
  <2>1. /\ UNCHANGED <<m_val, m_loggers, m_level, logged, m_appenders, new, todo>>
        /\ pc[u] = "loop" /\ pc'[u] = "assign" /\ todo[u] = {}
    BY <1>3, UpdaterTypes DEF EndListener
  <2>2. Treated(u)'
    BY <1>2, <1>3, <2>1
       DEF Set, Working, Listening, Treated, Same, Configured, Matches, LevelSet
  <2>3. Working(u)' /\ AtRest'
    BY <2>1, <2>2 DEF Working, AtRest, AtOne
  <2>4. QED
    BY <1>2, <1>3, <2>3, OthersIdle DEF Set
<1>4. ASSUME NEW u \in Updater, Assign(u) PROVE Applying'
  <2>1. /\ UNCHANGED <<m_loggers, m_level, logged, m_appenders>> /\ pc[u] = "assign"
        /\ pc'[u] = "idle" /\ m_val' = new[u]
    BY <1>4, UpdaterTypes DEF Assign
  <2>2. Treated(u) /\ todo[u] = {}
    BY <1>2, <1>4, <2>1 DEF Set, Working
  <2>3. \A n \in DOMAIN new[u] : Configured(n, new[u][n])
    BY <2>2 DEF Treated
  <2>4. AtRest' /\ Working(u)'
    BY <2>1, <2>3 DEF AtRest, Configured, Matches, LevelSet, Working, Listening, AtOne
  <2>5. QED
    BY <1>2, <1>4, <2>4, OthersIdle DEF Set
<1>5. ASSUME NEW u \in Updater, Lock(u) \/ Listen(u) PROVE Applying'
  <2>1. pc'[u] \notin {"idle", "lock"}
    BY <1>5, UpdaterTypes
       DEF Lock, StartListener, Listen, Skip, Pick, SetLevel, ClearAppenders, AddAppender,
           AddMissingFile, StartDelete, DeleteLevel, DeleteClear, EndDelete
  <2>2. Working(u) /\ AtRest /\ \A v \in Updater : v # u => pc[v] = "idle"
    BY <1>2, <1>5 DEF Set
  <2>3. ASSUME AddMissingFile(u) PROVE Working(u)'
    <3>1. pc'[u] = pc[u]
          /\ UNCHANGED <<m_val, m_loggers, m_level, logged, m_appenders, new, todo, cur, gone>>
      BY <2>3, UpdaterTypes DEF AddMissingFile
    <3>2. QED
      BY <2>2, <3>1 DEF Working, Treated, Same, Configured, Matches, LevelSet
  <2>4. Working(u)'
    BY <1>5, <2>2, <2>3, LockApplies, SkipApplies, PickApplies, SetLevelApplies, ClearApplies,
       StartDeleteApplies, DeleteApplies, EndDeleteApplies DEF Listen
  <2>5. AtRest'
    BY <2>1 DEF AtRest
  <2>6. QED
    BY <1>5, <2>2, <2>4, <2>5, OthersIdle DEF Set
<1>6. ASSUME NEW w \in Writer, Write(w) PROVE Applying'
  <2>1. /\ \A n \in Name : Untouched(n)
        /\ m_loggers \subseteq m_loggers' /\ UNCHANGED <<m_val, overlapped>>
    BY <1>6, WriteTouches
  <2>2. ASSUME NEW u \in Updater PROVE UNCHANGED pc[u]
    BY <1>6, Apart DEF UpdaterFrame
  <2>3. OneUpdates /\ AtRest /\ \A u \in Updater : Working(u)
    BY <2>1 DEF Applying
  <2>4. DOMAIN m_val \subseteq Name
    BY ValueNames DEF Inv, ValuesOK
  <2>5. AtRest'
    <3> SUFFICES ASSUME \A u \in Updater : pc'[u] \in {"idle", "lock"}, NEW n \in DOMAIN m_val
                 PROVE  Configured(n, m_val[n])'
      BY <2>1 DEF AtRest
    <3>1. Configured(n, m_val[n])
      BY <2>2, <2>3 DEF AtRest
    <3>2. QED
      BY <2>1, <2>4, <3>1 DEF Configured, Matches, LevelSet, Untouched
  <2>6. OneUpdates'
    BY <2>2, <2>3 DEF OneUpdates
  <2>7. \A u \in Updater : Working(u)'
    BY <1>6, <2>3, WriteApplies
  <2>8. QED
    BY <2>5, <2>6, <2>7 DEF Applying
<1>7. CASE UNCHANGED vars
  <2>1. /\ UNCHANGED <<m_val, m_loggers, m_level, logged, m_appenders>>
        /\ UNCHANGED <<pc, new, todo, cur, gone, overlapped>>
    BY <1>7 DEF vars
  <2>2. AtRest' /\ OneUpdates'
    BY <2>1 DEF Applying, AtRest, OneUpdates, Configured, Matches, LevelSet
  <2>3. ASSUME NEW u \in Updater PROVE Working(u)'
    BY <2>1 DEF Applying, Working, Treated, Same, Configured, Matches, LevelSet
  <2>4. QED
    BY <2>2, <2>3 DEF Applying
<1>8. QED
  BY <1>1, <1>3, <1>4, <1>5, <1>6, <1>7 DEF Next, Set, Exited

(* However many threads set the variable and log, as long as no two updates *)
(* have overlapped: when none is under way, every logger that the value     *)
(* defines exists and has the appenders of its definition, those included   *)
(* that the listener passed over as unchanged, and its level unless an      *)
(* event has written that since (src/src/log.cpp:691-757).                  *)
THEOREM DefinitionsAreApplied == Spec => []DefinitionsApplied
<1>1. Init => Applying
  <2> SUFFICES ASSUME Init PROVE Applying
    OBVIOUS
  <2>1. DOMAIN m_val = {}
    BY DEF Init, Empty
  <2>2. \A u \in Updater : pc[u] = "idle"
    BY DEF Init, Thread
  <2>3. QED
    BY <2>1, <2>2 DEF Applying, OneUpdates, AtRest, Working, Listening, AtOne
<1>2. Inv /\ MixInv /\ Applying /\ [Next]_vars => Applying'
  BY NextApplying
<1>3. Applying => DefinitionsApplied
  BY DEF Applying, AtRest, DefinitionsApplied, Configured, LevelSet, Idle
<1>4. Inv /\ MixInv /\ [Next]_vars => MixInv'
  BY NextMix
<1>5. QED
  BY Invariance, InitMix, <1>1, <1>2, <1>3, <1>4, PTL DEF Spec

-----------------------------------------------------------------------------
(* What is written is read back *)

(* Induction up to m: P is the set of the numbers that have the property. *)
LEMMA InductionTo ==
  ASSUME NEW m \in Nat, NEW P, 0 \in P, \A n \in Nat : n < m /\ n \in P => n + 1 \in P
  PROVE  \A n \in 0..m : n \in P
<1> DEFINE S == (0..m) \ P
<1>1. SUFFICES ASSUME S # {} PROVE FALSE
  OBVIOUS
<1>2. S \subseteq Nat /\ S \subseteq 0..m
  OBVIOUS
<1>3. PICK x \in S : \A y \in S : x <= y
  <2>1. PICK x \in S : \A y \in S : <<y, x>> \notin OpToRel(<, Nat)
    BY <1>1, <1>2, NatLessThanWellFounded, WFMin
  <2>2. x \in Nat /\ \A y \in S : y \in Nat /\ ~ (y < x)
    BY <1>1, <1>2, <2>1 DEF OpToRel
  <2>3. QED
    BY <2>2
<1>4. x \in 1..m
  OBVIOUS
<1>5. x - 1 \in Nat /\ x - 1 < m /\ x - 1 \in 0..m /\ ~ (x <= x - 1) /\ (x - 1) + 1 = x
  BY <1>4
<1>6. x - 1 \in P
  BY <1>3, <1>5
<1>7. x \in P
  <2>1. (x - 1) + 1 \in P
    BY <1>5, <1>6
  <2>2. QED
    BY <1>5, <2>1
<1>8. QED
  BY <1>7

Ascending(s) == \A i, j \in DOMAIN s : i < j => s[i] < s[j]

(* A finite set of naturals is listed in ascending order ...                *)
LEMMA AscendingExists ==
  ASSUME NEW S \in SUBSET Nat, IsFiniteSet(S)
  PROVE  \E s \in [1..Cardinality(S) -> S] : Ascending(s)
<1> DEFINE P == {n \in Nat : \A T \in SUBSET Nat : IsFiniteSet(T) /\ Cardinality(T) = n =>
                               \E s \in [1..n -> T] : Ascending(s)}
<1>1. 0 \in P
  <2>1. ASSUME NEW T \in SUBSET Nat, IsFiniteSet(T), Cardinality(T) = 0
        PROVE  \E s \in [1..0 -> T] : Ascending(s)
    <3> DEFINE s == [i \in 1..0 |-> 0]
    <3>1. s \in [1..0 -> T] /\ Ascending(s)
      BY DEF Ascending
    <3>2. QED
      BY <3>1
  <2>2. QED
    BY <2>1
<1>2. ASSUME NEW n \in Nat, n \in P PROVE n + 1 \in P
  <2>1. ASSUME NEW T \in SUBSET Nat, IsFiniteSet(T), Cardinality(T) = n + 1
        PROVE  \E s \in [1..n + 1 -> T] : Ascending(s)
    <3>1. T # {} /\ T \subseteq Nat
      BY <2>1, FS_EmptySet
    <3>2. PICK x \in T : \A y \in T : x <= y
      <4> HIDE DEF P
      <4>1. PICK x \in T : \A y \in T : <<y, x>> \notin OpToRel(<, Nat)
        BY <3>1, NatLessThanWellFounded, WFMin
      <4>2. x \in Nat /\ \A y \in T : y \in Nat /\ ~ (y < x)
        BY <3>1, <4>1 DEF OpToRel
      <4>3. QED
        BY <4>2
    <3>3. IsFiniteSet(T \ {x}) /\ Cardinality(T \ {x}) = n
      <4> HIDE DEF P
      <4>1. IsFiniteSet(T \ {x}) /\ Cardinality(T \ {x}) = Cardinality(T) - 1
        BY <2>1, FS_RemoveElement
      <4>2. QED
        BY <2>1, <4>1
    <3>4. PICK r \in [1..n -> T \ {x}] : Ascending(r)
      BY <1>2, <3>3
    <3> DEFINE s == [i \in 1..n + 1 |-> IF i = 1 THEN x ELSE r[i - 1]]
    <3>5. s \in [1..n + 1 -> T]
      <4>1. \A i \in 1..n + 1 : i # 1 => r[i - 1] \in T
        <5>1. \A i \in 1..n + 1 : i # 1 => i - 1 \in 1..n
          OBVIOUS
        <5>2. QED
          BY <5>1
      <4>2. QED
        BY <4>1
    <3>6. ASSUME NEW i \in 1..n + 1, NEW j \in 1..n + 1, i < j PROVE s[i] < s[j]
      <4>1. j # 1 /\ j - 1 \in 1..n
        BY <3>6
      <4>2. CASE i = 1
        <5>1. r[j - 1] \in T \ {x}
          BY <4>1
        <5>2. x \in Nat /\ r[j - 1] \in Nat /\ x <= r[j - 1] /\ x # r[j - 1]
          BY <3>2, <5>1
        <5>3. QED
          BY <4>1, <4>2, <5>2
      <4>3. CASE i # 1
        <5>1. i - 1 \in 1..n /\ i - 1 < j - 1
          BY <3>6, <4>3
        <5>2. r[i - 1] < r[j - 1]
          BY <3>4, <4>1, <5>1 DEF Ascending
        <5>3. QED
          BY <4>1, <4>3, <5>2
      <4>4. QED
        BY <4>2, <4>3
    <3>7. Ascending(s)
      BY <3>5, <3>6 DEF Ascending
    <3>8. QED
      BY <3>5, <3>7
  <2>2. n + 1 \in Nat
    OBVIOUS
  <2>3. QED
    BY <2>1, <2>2
<1>3. Cardinality(S) \in Nat
  BY FS_CardinalityType
<1> HIDE DEF P
<1>4. Cardinality(S) \in 0..Cardinality(S) /\ \A k \in 0..Cardinality(S) : k \in P
  BY <1>1, <1>2, <1>3, InductionTo
<1>5. QED
  BY <1>4 DEF P

(* ... so that the order of a set lists each of its elements.               *)
LEMMA OrderLists ==
  ASSUME NEW S \in SUBSET Nat, IsFiniteSet(S)
  PROVE  /\ InOrder(S) \in [1..Cardinality(S) -> S] /\ Cardinality(S) \in Nat
         /\ \A n \in S : \E k \in 1..Cardinality(S) : InOrder(S)[k] = n
<1> DEFINE s == InOrder(S)
           N == Cardinality(S)
<1>1. s \in [1..N -> S] /\ Ascending(s)
  BY AscendingExists DEF InOrder, Ascending
<1>2. N \in Nat
  BY FS_CardinalityType
<1> HIDE DEF s, N
<1>3. ASSUME NEW i \in 1..N, NEW j \in 1..N, s[i] = s[j] PROVE i = j
  <2>1. s[i] \in Nat /\ ~ (s[i] < s[i])
    <3>1. s[i] \in S
      BY <1>1
    <3>2. \A x \in S : x \in Nat /\ ~ (x < x)
      OBVIOUS
    <3>3. QED
      BY <3>1, <3>2, Zenon
  <2>2. ~ (i < j) /\ ~ (j < i)
    BY <1>1, <1>3, <2>1 DEF Ascending
  <2>3. i \in Int /\ j \in Int
    BY <1>2
  <2>4. QED
    BY <2>2, <2>3
<1>4. s \in Injection(1..N, S)
  BY <1>1, <1>3 DEF Injection, IsInjective
<1>5. Cardinality(1..N) = N
  BY <1>2, FS_Interval
<1>6. s \in Surjection(1..N, S)
  BY <1>4, <1>5, FS_Injection DEF N
<1>7. \A n \in S : \E k \in 1..N : s[k] = n
  BY <1>6 DEF Surjection
<1>8. QED
  BY <1>1, <1>2, <1>7 DEF s, N

(* The first definition of a name that a document defines.                  *)
LEMMA FirstNamed ==
  ASSUME NEW doc, NEW N \in Nat, DOMAIN doc = 1..N, NEW n \in NamesOf(doc)
  PROVE  \E k \in DOMAIN doc : First(doc, n) = doc[k] /\ doc[k].name = n
<1> DEFINE S == {k \in DOMAIN doc : doc[k].name = n}
           Is(k) == doc[k].name = n /\ \A j \in 1..(k - 1) : doc[j].name # n
<1>1. S \subseteq Nat /\ S # {}
  BY DEF NamesOf
<1>2. PICK k \in S : \A j \in S : k <= j
  <2>1. PICK k \in S : \A j \in S : <<j, k>> \notin OpToRel(<, Nat)
    BY <1>1, NatLessThanWellFounded, WFMin
  <2>2. k \in Nat /\ \A j \in S : j \in Nat /\ ~ (j < k)
    BY <1>1, <2>1 DEF OpToRel
  <2>3. QED
    BY <2>2
<1>3. \A j \in 1..(k - 1) : j \in DOMAIN doc /\ ~ (k <= j)
  BY <1>2
<1>4. k \in DOMAIN doc /\ Is(k)
  BY <1>2, <1>3
<1> HIDE DEF S
<1>5. First(doc, n) = doc[CHOOSE j \in DOMAIN doc : Is(j)]
  BY DEF First
<1>6. (CHOOSE j \in DOMAIN doc : Is(j)) \in DOMAIN doc /\ Is(CHOOSE j \in DOMAIN doc : Is(j))
  BY <1>4
<1>7. QED
  BY <1>5, <1>6

(* A list that is put into a map under a new key is found there.            *)
LEMMA PutFound ==
  ASSUME NEW node, NEW key, key \notin DOMAIN node, NEW list
  PROVE  /\ As(Put(node, key, list), key, <<>>) = list
         /\ \A k \in DOMAIN node : k \in DOMAIN Put(node, key, list)
                                      /\ Put(node, key, list)[k] = node[k]
         /\ DOMAIN Put(node, key, list) \subseteq DOMAIN node \cup {key}
BY DEF As, Put, IsDefined

(* A level is written by its name; ERROR is read as OFF.                    *)
LEMMA LevelReadBack ==
  ASSUME NEW level \in Level
  PROVE  LevelFromString(LevelToString(level)) = IF level = ERROR THEN OFF ELSE level
<1>1. \A l, m \in Level : LevelNames[l + 1] = LevelNames[m + 1] => l = m
  BY DEF Level, ALL, OFF, LevelNames
<1>2. ERROR \in Level /\ OFF \in Level
  BY DEF Level, ALL, OFF, ERROR
<1>3. QED
  BY <1>1, <1>2 DEF LevelFromString, LevelToString

LEMMA NeverError ==
  ASSUME NEW str
  PROVE  LevelFromString(str) # ERROR
<1>1. \A l, m \in Level : LevelNames[l + 1] = LevelNames[m + 1] => l = m
  BY DEF Level, ALL, OFF, LevelNames
<1>2. ERROR \in Level /\ OFF # ERROR
  BY DEF Level, ALL, OFF, ERROR
<1>3. QED
  BY <1>1, <1>2 DEF LevelFromString

(* A list whose items are all accepted is read item by item: by induction   *)
(* on the items.                                                            *)
LEMMA AppendersRead ==
  ASSUME NEW items, NEW N \in Nat, Len(items) = N, \A i \in 1..N : Accepted(items[i])
  PROVE  ReadAppenders(items) = [i \in 1..N |-> ReadAppender(items[i])]
<1> DEFINE a(i) == ReadAppender(items[i])
           Body(f) == [k \in 0..N |-> IF k = 0 THEN <<>>
                                      ELSE IF Accepted(items[k]) THEN Append(f[k - 1], a(k))
                                      ELSE f[k - 1]]
           g == [k \in 0..N |-> [i \in 1..k |-> a(i)]]
           read == CHOOSE f : f = Body(f)
           S == {a(i) : i \in 1..N}
<1>1. \A i \in 1..N : a(i) \in S
  OBVIOUS
<1>2. ReadAppenders(items) = read[N]
  BY DEF ReadAppenders
<1> HIDE DEF a, S
<1>3. ASSUME NEW k \in 0..N PROVE g[k] \in Seq(S) /\ Len(g[k]) = k /\ \A i \in 1..k : g[k][i] = a(i)
  BY <1>1, <1>3
<1>4. g[0] = <<>>
  <2>1. 0 \in 0..N
    OBVIOUS
  <2>2. Len(g[0]) = 0 /\ g[0] \in Seq(S)
    BY <1>3, <2>1
  <2> HIDE DEF g
  <2>3. QED
    BY <2>2, EmptySeq
<1> HIDE DEF g
<1>5. ASSUME NEW k \in 1..N PROVE g[k] = Append(g[k - 1], a(k))
  <2>1. k \in 0..N /\ k - 1 \in 0..N /\ (k - 1) + 1 = k /\ k \in Nat
    OBVIOUS
  <2>2. /\ g[k] \in Seq(S) /\ Len(g[k]) = k /\ \A i \in 1..k : g[k][i] = a(i)
        /\ g[k - 1] \in Seq(S) /\ Len(g[k - 1]) = k - 1
        /\ \A i \in 1..(k - 1) : g[k - 1][i] = a(i)
    BY <1>3, <2>1
  <2>3. a(k) \in S
    BY <1>1
  <2>4. /\ Append(g[k - 1], a(k)) \in Seq(S)
        /\ Len(Append(g[k - 1], a(k))) = Len(g[k - 1]) + 1
        /\ \A i \in 1..Len(g[k - 1]) : Append(g[k - 1], a(k))[i] = g[k - 1][i]
        /\ Append(g[k - 1], a(k))[Len(g[k - 1]) + 1] = a(k)
    BY <2>2, <2>3, AppendProperties
  <2> DEFINE t == Append(g[k - 1], a(k))
  <2>5. /\ t \in Seq(S) /\ Len(t) = k /\ t[k] = a(k)
        /\ \A i \in 1..(k - 1) : t[i] = a(i)
    BY <2>1, <2>2, <2>4
  <2> HIDE DEF t
  <2>6. \A i \in 1..k : i \in 1..(k - 1) \/ i = k
    OBVIOUS
  <2>7. \A i \in 1..Len(t) : g[k][i] = t[i]
    BY <2>2, <2>5, <2>6
  <2>8. g[k] = t
    BY <2>2, <2>5, <2>7, SeqEqual
  <2>9. QED
    BY <2>8 DEF t
<1>6. g = Body(g)
  <2>1. \A k \in 1..N : Accepted(items[k])
    OBVIOUS
  <2>2. \A k \in 0..N : k = 0 \/ k \in 1..N
    OBVIOUS
  <2>3. \A k \in 0..N : g[k] = IF k = 0 THEN <<>>
                               ELSE IF Accepted(items[k]) THEN Append(g[k - 1], a(k))
                               ELSE g[k - 1]
    BY <1>4, <1>5, <2>1, <2>2
  <2>4. QED
    BY <2>3 DEF g
<1>7. read = Body(read)
  BY <1>6
<1> HIDE DEF read
<1> DEFINE P == {k \in Nat : read[k] = g[k]}
<1>8. 0 \in P
  BY <1>4, <1>7
<1>9. ASSUME NEW k \in Nat, k < N, k \in P PROVE k + 1 \in P
  <2>1. k + 1 \in 1..N /\ (k + 1) - 1 = k /\ k + 1 # 0 /\ k + 1 \in 0..N /\ k + 1 \in Nat
    BY <1>9
  <2>2. read[k + 1] = Append(read[k], a(k + 1))
    BY <1>7, <2>1
  <2>3. g[k + 1] = Append(g[k], a(k + 1))
    BY <1>5, <2>1
  <2>4. QED
    BY <1>9, <2>1, <2>2, <2>3
<1> HIDE DEF P
<1>10. N \in P
  <2>1. \A k \in 0..N : k \in P
    BY <1>8, <1>9, InductionTo
  <2>2. QED
    BY <2>1
<1>11. read[N] = g[N]
  BY <1>10 DEF P
<1>12. QED
  BY <1>2, <1>11 DEF g, a

(* A text that lists the names S in their order, with one map for each, is  *)
(* read as the maps of those names.                                         *)
LEMMA TextRead ==
  ASSUME NEW S \in SUBSET Nat, IsFiniteSet(S), NEW text, NEW map,
         DOMAIN text = DOMAIN InOrder(S),
         \A k \in DOMAIN text : text[k] = map[InOrder(S)[k]],
         \A n \in S : map[n].name = n
  PROVE  /\ DOMAIN ReadLogs(text) = S
         /\ \A n \in S : ReadLogs(text)[n] = ReadDefinition(map[n])
<1> DEFINE s == InOrder(S)
           N == Cardinality(S)
<1>1. /\ s \in [1..N -> S] /\ N \in Nat /\ DOMAIN text = 1..N
      /\ \A n \in S : \E k \in 1..N : s[k] = n
  BY OrderLists
<1> HIDE DEF s, N
<1>2. \A k \in 1..N : text[k] = map[s[k]]
  BY <1>1 DEF s
<1>3. \A k \in 1..N : s[k] \in S /\ text[k].name = s[k]
  BY <1>1, <1>2
<1>4. NamesOf(text) = S
  <2>1. NamesOf(text) = {text[k].name : k \in 1..N}
    BY <1>1 DEF NamesOf
  <2>2. \A n \in S : \E k \in 1..N : text[k].name = n
    BY <1>1, <1>3
  <2>3. ASSUME NEW n \in NamesOf(text) PROVE n \in S
    <3>1. PICK k \in 1..N : n = text[k].name
      BY <2>1, <2>3
    <3>2. QED
      BY <1>3, <3>1
  <2>4. ASSUME NEW n \in S PROVE n \in NamesOf(text)
    <3>1. PICK k \in 1..N : text[k].name = n
      BY <2>2
    <3>2. QED
      BY <2>1, <3>1
  <2>5. QED
    BY <2>3, <2>4
<1>5. ASSUME NEW n \in S PROVE First(text, n) = map[n]
  <2>1. PICK k \in DOMAIN text : First(text, n) = text[k] /\ text[k].name = n
    BY <1>1, <1>4, FirstNamed
  <2>2. text[k] = map[n]
    BY <1>1, <1>2, <1>3, <2>1
  <2>3. QED
    BY <2>1, <2>2
<1>6. QED
  BY <1>4, <1>5 DEF ReadLogs

(* The names of a value are finitely many. *)
LEMMA ValueFinite ==
  ASSUME NEW v \in Values \cup {Empty}
  PROVE  IsFiniteSet(DOMAIN v) /\ DOMAIN v \in SUBSET Nat
<1>1. CASE v = Empty
  BY <1>1, FS_EmptySet DEF Empty
<1>2. CASE v \in Values
  <2>1. PICK doc \in Document : v = ReadLogs(doc)
    BY <1>2 DEF Values
  <2>2. Len(doc) \in Nat /\ DOMAIN doc = 1..Len(doc)
    BY DocumentAssumption
  <2>3. DOMAIN v = {doc[k].name : k \in 1..Len(doc)}
    BY <2>1, <2>2 DEF ReadLogs, NamesOf
  <2> DEFINE f == [k \in 1..Len(doc) |-> doc[k].name]
  <2>4. f \in Surjection(1..Len(doc), DOMAIN v)
    BY <2>3 DEF Surjection
  <2>5. IsFiniteSet(1..Len(doc))
    BY <2>2, FS_Interval
  <2>6. IsFiniteSet(DOMAIN v)
    BY <2>4, <2>5, FS_Surjection
  <2>7. DOMAIN v \in SUBSET Nat
    BY <1>2, DocumentAssumption, NameAssumption
  <2>8. QED
    BY <2>6, <2>7
<1>3. QED
  BY <1>1, <1>2

(* The levels of a value are those that FromString returns. *)
LEMMA ValueLevels ==
  ASSUME NEW v \in Values \cup {Empty}, NEW n \in DOMAIN v
  PROVE  v[n].level \in Level /\ v[n].level # ERROR
<1>1. v \in Values /\ v[n] \in Definition
  BY ValueDefines
<1>2. PICK doc \in Document : v = ReadLogs(doc)
  BY <1>1 DEF Values
<1>3. v[n] = ReadDefinition(First(doc, n))
  BY <1>2 DEF ReadLogs
<1>4. v[n].level # ERROR
  <2>1. \A node : ReadDefinition(node).level = LevelFromString(As(node, "level", ""))
    BY DEF ReadDefinition
  <2>2. QED
    BY <1>3, <2>1, NeverError
<1>5. QED
  BY <1>1, <1>4 DEF Definition

(* The text of the variable "logs", read again, defines the same loggers at *)
(* the same levels (src/src/log.cpp:653-685).                               *)
THEOREM LevelsKept == Spec => []TextKeepsLevels
<1>1. ASSUME Inv PROVE TextKeepsLevels
  <2> DEFINE S == DOMAIN m_val
             map == [n \in S |-> WriteDefinition(n, m_val[n])]
             text == WriteLogs(m_val)
  <2>1. S \in SUBSET Nat /\ IsFiniteSet(S) /\ m_val \in Values \cup {Empty}
    BY <1>1, ValueFinite DEF Inv, ValuesOK
  <2>2. DOMAIN text = DOMAIN InOrder(S) /\ \A k \in DOMAIN text : text[k] = map[InOrder(S)[k]]
    <3>1. InOrder(S) \in [1..Cardinality(S) -> S]
      BY <2>1, OrderLists
    <3>2. QED
      BY <3>1 DEF WriteLogs
  <2>3. ASSUME NEW n \in S
        PROVE  /\ map[n].name = n
               /\ ReadDefinition(map[n]).level = m_val[n].level
    <3> DEFINE node == Node(n, m_val[n].level)
               list == [k \in DOMAIN m_val[n].appenders |-> WriteAppender(m_val[n].appenders[k])]
    <3>1. map[n] = Put(node, "appenders", list)
      BY DEF WriteDefinition
    <3>2. /\ DOMAIN node = {"name", "level"} /\ "appenders" \notin DOMAIN node
          /\ node["name"] = n /\ node["level"] = LevelToString(m_val[n].level)
      BY DEF Node
    <3> HIDE DEF node, list, map
    <3> DEFINE put == Put(node, "appenders", list)
    <3>9. /\ As(put, "appenders", <<>>) = list
          /\ \A k \in DOMAIN node : k \in DOMAIN put /\ put[k] = node[k]
      BY <3>2, PutFound
    <3>3. /\ map[n]["name"] = n /\ "level" \in DOMAIN map[n]
          /\ map[n]["level"] = LevelToString(m_val[n].level)
      <4> HIDE DEF put
      <4>1. "name" \in DOMAIN node /\ "level" \in DOMAIN node
        BY <3>2
      <4>2. map[n] = put
        BY <3>1 DEF put
      <4>3. QED
        BY <3>2, <3>9, <4>1, <4>2
    <3>4. m_val[n].level \in Level /\ m_val[n].level # ERROR
      BY <2>1, ValueLevels
    <3>5. As(map[n], "level", "") = LevelToString(m_val[n].level)
      BY <3>3 DEF As, IsDefined
    <3>6. LevelFromString(LevelToString(m_val[n].level)) = m_val[n].level
      BY <3>4, LevelReadBack
    <3>7. ReadDefinition(map[n]).level = LevelFromString(As(map[n], "level", ""))
      BY DEF ReadDefinition
    <3>8. QED
      BY <3>3, <3>5, <3>6, <3>7
  <2> HIDE DEF map, text, S
  <2>4. DOMAIN ReadLogs(text) = S /\ \A n \in S : ReadLogs(text)[n] = ReadDefinition(map[n])
    BY <2>1, <2>2, <2>3, TextRead
  <2>5. QED
    BY <2>3, <2>4 DEF TextKeepsLevels, S, text
<1>2. QED
  BY <1>1, Invariance, PTL

(* The loggers of LoggerManager are finitely many. *)
FinitelyMany == IsFiniteSet(m_loggers)

LEMMA NextFinite == FinitelyMany /\ [Next]_vars => FinitelyMany'
<1> SUFFICES ASSUME FinitelyMany, [Next]_vars PROVE FinitelyMany'
  OBVIOUS
<1>1. m_loggers' = m_loggers \/ \E n : m_loggers' = m_loggers \cup {n}
  BY DEF Next, UpdateNameless, Update, Set, Lock, StartListener, Listen, Skip, Pick, SetLevel,
         ClearAppenders, AddAppender, AddMissingFile, StartDelete, DeleteLevel, DeleteClear,
         EndDelete, EndListener, Assign, Write, UseLogger, Check, MakeEvent, Log, Exited, GetLogger
<1>2. QED
  BY <1>1, FS_AddElement DEF FinitelyMany

(* An appender that is written and read is made again as it was.            *)
LEMMA AppenderReadBack ==
  ASSUME NEW a \in Appender
  PROVE  Accepted(AppenderText(a)) /\ NewAppender(ReadAppender(AppenderText(a))) = a
<1> DEFINE item == AppenderText(a)
<1>1. CASE a.to = Stdout
  <2>1. /\ item = [type |-> "StdoutLogAppender", pattern |-> a.formatter]
        /\ DOMAIN item = {"type", "pattern"} /\ item["type"] = "StdoutLogAppender"
        /\ item["pattern"] = a.formatter
    BY <1>1 DEF AppenderText
  <2> HIDE DEF item
  <2>2. Accepted(item) /\ ReadAppender(item) = [to |-> a.to, pattern |-> a.formatter]
    BY <1>1, <2>1 DEF Accepted, ReadAppender, As, IsDefined
  <2>3. QED
    BY <2>2 DEF item, NewAppender, Appender, Formatter
<1>2. CASE a.to # Stdout
  <2>1. /\ item = [type |-> "FileLogAppender", file |-> a.to, pattern |-> a.formatter]
        /\ DOMAIN item = {"type", "file", "pattern"} /\ item["type"] = "FileLogAppender"
        /\ item["file"] = a.to /\ item["pattern"] = a.formatter
    BY <1>2 DEF AppenderText
  <2> HIDE DEF item
  <2>2. Accepted(item) /\ ReadAppender(item) = [to |-> a.to, pattern |-> a.formatter]
    BY <2>1 DEF Accepted, ReadAppender, As, IsDefined
  <2>3. QED
    BY <2>2 DEF item, NewAppender, Appender, Formatter
<1>3. QED
  BY <1>1, <1>2

(* The configuration that LoggerManager::toYamlString writes makes the      *)
(* loggers again as they are, in every state, whoever logs and updates, but *)
(* for the level ERROR, which is read as OFF (src/src/log.cpp:523-535).     *)
THEOREM DumpIsConfiguration == Spec => []DumpConfigures
<1>1. ASSUME Inv, FinitelyMany PROVE DumpConfigures
  <2> DEFINE S == m_loggers
             map == [n \in S |-> LoggerText(n, m_level[n], m_appenders[n])]
             text == ManagerText(m_loggers, m_level, m_appenders)
             Again(n) == [ level |-> IF m_level[n] = ERROR THEN OFF ELSE m_level[n],
                           appenders |-> m_appenders[n] ]
  <2>1. /\ S \in SUBSET Name /\ S \in SUBSET Nat /\ IsFiniteSet(S)
        /\ \A n \in S : m_level[n] \in Level /\ m_appenders[n] \in Seq(Appender)
    BY <1>1, NameAssumption DEF Inv, ObjectsOK, Logger, FinitelyMany
  <2>2. DOMAIN text = DOMAIN InOrder(S) /\ \A k \in DOMAIN text : text[k] = map[InOrder(S)[k]]
    <3>1. InOrder(S) \in [1..Cardinality(S) -> S]
      BY <2>1, OrderLists
    <3>2. QED
      BY <3>1 DEF ManagerText
  <2>3. ASSUME NEW n \in S
        PROVE  map[n].name = n /\ Remade(ReadDefinition(map[n])) = Again(n)
    <3> DEFINE node == Node(n, m_level[n])
               apps == m_appenders[n]
               N == Len(apps)
               list == [k \in DOMAIN apps |-> AppenderText(apps[k])]
               read == [k \in 1..N |-> ReadAppender(list[k])]
    <3>0. apps \in Seq(Appender) /\ N \in Nat /\ DOMAIN apps = 1..N /\ m_level[n] \in Level
      BY <2>1
    <3>1. map[n] = Put(node, "appender", list)
      BY DEF LoggerText
    <3>2. /\ DOMAIN node = {"name", "level"} /\ "appender" \notin DOMAIN node
          /\ node["name"] = n /\ node["level"] = LevelToString(m_level[n])
      BY DEF Node
    <3>3. \A k \in 1..N : apps[k] \in Appender /\ list[k] = AppenderText(apps[k])
      BY <3>0, ElementOfSeq
    <3>4. DOMAIN list = 1..N /\ Len(list) = N
      BY <3>0
    <3> HIDE DEF node, list, map, apps, N
    <3> DEFINE put == Put(node, "appender", list)
    <3>13. /\ As(put, "appender", <<>>) = list
           /\ \A k \in DOMAIN node : k \in DOMAIN put /\ put[k] = node[k]
      BY <3>2, PutFound
    <3>5. /\ map[n]["name"] = n /\ "level" \in DOMAIN map[n]
          /\ map[n]["level"] = LevelToString(m_level[n])
          /\ As(map[n], "appender", <<>>) = list
      <4> HIDE DEF put
      <4>1. "name" \in DOMAIN node /\ "level" \in DOMAIN node
        BY <3>2
      <4>2. map[n] = put
        BY <3>1 DEF put
      <4>3. QED
        BY <3>2, <3>13, <4>1, <4>2
    <3>6. As(map[n], "level", "") = LevelToString(m_level[n])
      BY <3>5 DEF As, IsDefined
    <3>7. ReadAppenders(list) = read
      BY <3>0, <3>3, <3>4, AppenderReadBack, AppendersRead
    <3>8. ReadDefinition(map[n]) =
            [level |-> IF m_level[n] = ERROR THEN OFF ELSE m_level[n], appenders |-> read]
      BY <3>0, <3>5, <3>6, <3>7, LevelReadBack DEF ReadDefinition
    <3>9. \A k \in 1..N : NewAppender(read[k]) = apps[k]
      BY <3>3, AppenderReadBack
    <3>10. [k \in DOMAIN read |-> NewAppender(read[k])] = apps
      <4>1. DOMAIN read = 1..N
        OBVIOUS
      <4> HIDE DEF read
      <4>2. apps = [k \in 1..N |-> apps[k]]
        BY <3>0
      <4>3. QED
        BY <3>9, <4>1, <4>2
    <3> HIDE DEF read
    <3>11. Remade(ReadDefinition(map[n])) =
             [level |-> IF m_level[n] = ERROR THEN OFF ELSE m_level[n],
              appenders |-> [k \in DOMAIN read |-> NewAppender(read[k])]]
      BY <3>8 DEF Remade
    <3>12. QED
      BY <3>5, <3>10, <3>11 DEF apps
  <2> HIDE DEF map, text, S
  <2> HIDE DEF Again
  <2>4. DOMAIN ReadLogs(text) = S /\ \A n \in S : ReadLogs(text)[n] = ReadDefinition(map[n])
    <3>1. \A n \in S : map[n].name = n
      BY <2>3
    <3>2. S \in SUBSET Nat /\ IsFiniteSet(S)
      BY <2>1
    <3>3. QED
      BY <2>2, <3>1, <3>2, TextRead
  <2>5. \A n \in S : Remade(ReadLogs(text)[n]) = Again(n)
    BY <2>3, <2>4
  <2>6. QED
    BY <2>4, <2>5 DEF DumpConfigures, S, text, Again
<1>2. Init => FinitelyMany
  BY FS_EmptySet DEF Init, FinitelyMany
<1>3. FinitelyMany /\ [Next]_vars => FinitelyMany'
  BY NextFinite
<1>4. QED
  BY <1>1, <1>2, <1>3, Invariance, PTL DEF Spec
=============================================================================
