---------------------------- MODULE LogDefinition ----------------------------
(***************************************************************************)
(* LogLevel, LogDefinition and AppenderDefinition (src/src/log.cpp 8-48,   *)
(* 552-685): how a YAML document says what the loggers are, and how the    *)
(* definitions, and the loggers themselves, are written as YAML.           *)
(*                                                                         *)
(* A YAML map is a function from those of its keys that are there, a YAML  *)
(* sequence a sequence.  What yaml-cpp writes it reads back, so a text is  *)
(* the node that it says.  A std::set<LogDefinition> is ordered, and has   *)
(* its doubles, by the name only: it is a function from names to the rest  *)
(* of a definition.  The field pattern of LogDefinition is left out: it is *)
(* neither read nor written, and is empty in every value from a document.  *)
(*                                                                         *)
(* A definition named "...Mutant" is the code with one mistake in it; no   *)
(* specification uses it.                                                  *)
(***************************************************************************)
EXTENDS Naturals, Sequences, FiniteSets

CONSTANTS
  Stdout,      \* an appender that writes to std::cout, where others name a file
  NoPattern    \* the empty string

-----------------------------------------------------------------------------
(* LogLevel *)

ALL == 0
INFO == 2
ERROR == 4
OFF == 6

Level == ALL..OFF

LevelNames == <<"ALL", "DEBUG", "INFO", "WARN", "ERROR", "FATAL", "OFF">>

(* A case of the switch is missing. *)
LevelToStringMutant(level) == IF level = 3 THEN "UNKNOWN" ELSE LevelNames[level + 1]

LevelToString(level) == LevelNames[level + 1]

(* "ERROR" is not among the names it knows. *)
LevelFromString(str) ==
  IF \E l \in Level \ {ERROR} : LevelNames[l + 1] = str
  THEN CHOOSE l \in Level : LevelNames[l + 1] = str
  ELSE OFF

-----------------------------------------------------------------------------
(* YAML::Node *)

IsDefined(node, key) == key \in DOMAIN node

(* node[key] as a string, or the string that the code takes without it. *)
As(node, key, otherwise) == IF IsDefined(node, key) THEN node[key] ELSE otherwise

(* A map that gets key when there is something to push to it. *)
Put(node, key, list) ==
  IF list = <<>> THEN node
  ELSE [k \in DOMAIN node \cup {key} |-> IF k = key THEN list ELSE node[k]]

-----------------------------------------------------------------------------
(* LexicalCast<std::string, LogDefinition> *)

(* An appender without a type, of another type, or without its file is      *)
(* passed over.                                                             *)
Accepted(item) ==
  IsDefined(item, "type") /\ \/ item.type = "FileLogAppender" /\ IsDefined(item, "file")
                             \/ item.type = "StdoutLogAppender"

ReadAppender(item) ==
  [ to |-> IF item.type = "FileLogAppender" THEN item.file ELSE Stdout,
    pattern |-> As(item, "pattern", NoPattern) ]

ReadAppenders(items) ==
  LET read[k \in 0..Len(items)] ==
        IF k = 0 THEN <<>>
        ELSE IF Accepted(items[k]) THEN Append(read[k - 1], ReadAppender(items[k]))
        ELSE read[k - 1]
  IN  read[Len(items)]

ReadDefinition(node) ==
  [ level |-> LevelFromString(As(node, "level", "")),
    appenders |-> ReadAppenders(As(node, "appender", <<>>)) ]

(* A definition without a name ends the process. *)
Nameless(doc) == \E k \in DOMAIN doc : ~ IsDefined(doc[k], "name")

NamesOf(doc) == {doc[k].name : k \in DOMAIN doc}

First(doc, n) ==
  doc[CHOOSE k \in DOMAIN doc : doc[k].name = n /\ \A j \in 1..(k - 1) : doc[j].name # n]

(* The set of the definitions of a document: insert keeps the first one of  *)
(* each name.                                                               *)
ReadLogs(doc) == [n \in NamesOf(doc) |-> ReadDefinition(First(doc, n))]

-----------------------------------------------------------------------------
(* LexicalCast<LogDefinition, std::string> *)

Node(name, level) == [name |-> name, level |-> LevelToString(level)]

WithPattern(node, pattern) == IF pattern = NoPattern THEN node ELSE Put(node, "pattern", pattern)

WriteAppender(a) ==
  WithPattern(IF a.to = Stdout THEN [type |-> "StdoutAppender"]
              ELSE [type |-> "FileLogAppender", file |-> a.to],
              a.pattern)

(* The key is another one than that which is read. *)
WriteDefinition(n, d) ==
  Put(Node(n, d.level), "appenders", [k \in DOMAIN d.appenders |-> WriteAppender(d.appenders[k])])

InOrder(names) ==
  CHOOSE s \in [1..Cardinality(names) -> names] : \A i, j \in DOMAIN s : i < j => s[i] < s[j]

WriteLogs(value) ==
  LET names == InOrder(DOMAIN value)
  IN [k \in DOMAIN names |-> WriteDefinition(names[k], value[names[k]])]

-----------------------------------------------------------------------------
(* toYamlString of the appenders, of Logger and of LoggerManager *)

AppenderText(a) ==
  IF a.to = Stdout THEN [type |-> "StdoutLogAppender", pattern |-> a.formatter]
  ELSE [type |-> "FileLogAppender", file |-> a.to, pattern |-> a.formatter]

LoggerTextMutant(n, level, appenders) ==
  Put(Node(n, level), "appenders", [k \in DOMAIN appenders |-> AppenderText(appenders[k])])

LoggerText(n, level, appenders) ==
  Put(Node(n, level), "appender", [k \in DOMAIN appenders |-> AppenderText(appenders[k])])

ManagerText(names, level, appenders) ==
  LET order == InOrder(names)
  IN [k \in DOMAIN order |-> LoggerText(order[k], level[order[k]], appenders[order[k]])]
=============================================================================
