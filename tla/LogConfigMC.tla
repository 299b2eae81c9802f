----------------------------- MODULE LogConfigMC -----------------------------
(* Documents for TLC: what they say of "logs". *)
EXTENDS LogConfig, TLC

CONSTANTS f1, f2, p1, bad

Named(n, body) == [name |-> n] @@ body

(* A file with a pattern, after std::cout with none; what is not an         *)
(* appender is passed over.                                                 *)
Both ==
  [ level |-> "INFO",
    appender |-> << [type |-> "StdoutLogAppender"], [pattern |-> p1], [type |-> "FileLogAppender"],
                    [type |-> "FileLogAppender", file |-> f1, pattern |-> p1] >> ]

(* The same file with a pattern that does not parse. *)
Broken ==
  [ level |-> "WARN",
    appender |-> << [type |-> "FileLogAppender", file |-> f1, pattern |-> bad] >> ]

(* A file that cannot be opened. *)
Missing ==
  [ level |-> "INFO",
    appender |-> << [type |-> "StdoutLogAppender", pattern |-> p1],
                    [type |-> "FileLogAppender", file |-> f2] >> ]

(* A level that is not read, and no appender. *)
Quiet == [level |-> "ERROR"]

(* No definition, one for a name, or one for each of two.                   *)
DocumentsOf(bodies) ==
  {<<>>} \cup {<<Named(n, b)>> : n \in Name, b \in bodies}
    \cup {<<Named(m, b), Named(n, c)>> : <<m, n>> \in {<<m, n>> \in Name \X Name : m < n},
                                         b \in bodies, c \in bodies}

OneDocument == DocumentsOf({Both})

(* Each of the four bodies, for one name or two, so that an update adds,    *)
(* changes, keeps and removes; a name twice, and a definition without one.  *)
SomeDocuments ==
  { <<Named(2, Broken), Named(2, Both)>>, <<Named(1, Both), Named(2, Broken)>>,
    <<Named(1, Quiet)>>, <<Named(1, Missing)>>, <<Named(1, Both), Quiet>> }

(* The threads that update do the same things. *)
Symmetry == Permutations(Updater)
=============================================================================
