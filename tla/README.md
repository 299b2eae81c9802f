# A TLA+ model of sylar

Specifications, model-checking runs and proofs for the C++ library in `src/src`:
thread wrappers, a registry of typed configuration variables with change
listeners, and a logging system that is configured through one of these
variables. Everything below refers to the code by file and line.

## 1. The system

| Component | State | Operations | Correct when |
|---|---|---|---|
| Locks (`threads.hpp` 13-219) | a `Mutex_RW` (rwlock), a `SpinLock`, a `Mutex`, a `CASLock`; a guard's `m_locked` | guards lock in the constructor, unlock in the destructor, also when an exception unwinds | exclusion; released on every path |
| `Thread`, `Semaphore` (`threads.cpp`) | `m_id`, `m_thread`, `m_callback`, `m_name`, `m_semaphore`; thread-local `t_thread`, `t_thread_name` | constructor, `run`, `join`, destructor, `SetName` | the object lives while the new thread needs it; a pthread is joined or detached exactly once; the callback runs once; constructors and joins return |
| `ConfigVar<T>` (`config.hpp` 263-346) | `m_val`, `m_callbacks`, `m_lock`, the static counter `s_fun_id` | `getValue`, `toString`, `setValue`, `fromString`, `addListener`, `delListener`, `getListener`, `clearListener` | listeners are told each change, once, in order; nobody changes an object during a pass; no lock is kept; keys name listeners |
| `Config` (`config.hpp` 348-406, `config.cpp`) | a static map from names to variables and its `Mutex_RW` | `Lookup`, `find`, `LookupBase`, `LoadFromYaml`, `Visit` | one object per name; a load reaches every variable it names, in lower case |
| `Logger`, `LogAppender` (`log.hpp`, `log.cpp` 355-539) | level, list of appenders, formatters, spin locks, streams | the macros, `LogEvent`, `log`, `setLevel`, `addAppender`, `delAppender`, `clearAppender`, `setFormatter` | a stream has one writer at a time; appenders agree on the order of events; no appender without a formatter; no spin deadlock |
| `LogIniter` (`log.cpp` 688-761) | the variable `logs` (`g_log_defines`) | the listener that turns definitions into loggers | after an update the loggers are what the value says |
| `LoggerManager` (`log.cpp` 544-568, 767-776) | a map from names to loggers, `m_root` | `getLogger`, `addLogger`, `toYamlString` | one logger per name |
| `LogFormatter` (`log.cpp` 107-353) | pattern, items, `m_error` | the constructor, `parse`, `setPattern`, `format` | items stand for the pattern; what is not understood is flagged; the parser ends |
| `LexicalCast` (`config.hpp` 46-253) | none | the casts of numbers and containers, `fromString`, `toString` | a text reads back as the value; a document is taken whole or not at all |
| `LogDefinition`, `LogLevel` (`log.cpp` 8-48, 570-685) | none | the casts of definitions, `toYamlString`, names of levels | what is written configures the same loggers |
| `Singleton`, `utils`, `macro`, `fibers` | none | function-local statics, system calls, empty files | |

Who calls whom. Threads call the methods of all the other components.
`LoadFromYaml` finds variables in the map of `Config` and calls `fromString`,
which calls `setValue`; `setValue` of `logs` calls the listener of `LogIniter`
under the write lock of the variable; the listener calls `LoggerManager`,
`Logger` and `LogAppender`. `Logger::log` holds the logger's spin lock while it
takes those of its appenders. `Lookup` and `find` log while they hold the map's
lock. `fromString` and `toString` convert with `LexicalCast`, that of `logs`
with the casts of `LogDefinition`; a `LogFormatter` is made for each
pattern. `Thread` uses nothing but its semaphore and pthreads.

What is hard. Everything may be called by several threads. `setValue` reads
`m_val` without a lock, calls the listeners in one critical section and assigns
in another, under a *shared* lock. A listener may throw. The creator of a thread
may destroy the object at once, and a thread may be joined by any other, or be
interrupted in `sem_wait`. Every `LogEvent` writes the level of its logger
(`log.cpp` 69). The listener of `LogIniter` changes loggers that others use.
Nothing is persisted and no message is sent: there is no crash recovery and no
lossy channel to model. The hazards are listed one by one in `PROJECT.json`.

## 2. The modules

| Module | Models |
|---|---|
| `Locks` | `Mutex_RW` and its guards as values and operators, used by `ConfigVar` and `Config` |
| `ConfigVar` | objects of one `ConfigVar<T>`, one action per shared access |
| `Config`, `ConfigMC` | the registry, `Visit` and `LoadFromYaml`; names and documents for TLC |
| `Thread` | `Thread`, `Semaphore` and the pthread under them |
| `ThreadLife` | what `Thread` promises; `Thread` is checked and proved to implement it |
| `Logger`, `LoggerMC` | the macros, `Logger::log` and changes of appenders and formatters, lock by lock |
| `LogDefinition` | levels, definitions and loggers as YAML and back |
| `LogConfig`, `LogConfigMC` | the listener of `LogIniter` with the `setValue` around it, the loggers, threads that log; documents for TLC |
| `LogFormatter`, `LogFormatterMC` | the parser of patterns and `format`; patterns for TLC and what their authors mean by them |
| `LexicalCast`, `LexicalCastMC` | the casts of containers, and a variable that reads and writes documents; types and documents for TLC |
| `LockOrder` | threads that nest guards of rwlocks and plain locks, whatever their programs |
| `SystemLocks`, `SystemLocksMC` | the programs: what the functions of the library do with its locks |
| `ConfigVarProofs`, `ConfigProofs`, `ThreadProofs`, `LoggerProofs`, `LogConfigProofs`, `LogFormatterProofs`, `LexicalCastProofs`, `LockOrderProofs` | theorems |

`Thread` composes with `ThreadLife` by a refinement mapping, `LogConfig` extends
`LogDefinition`, and `SystemLocksMC` gives the programs of `SystemLocks` to
`LockOrder`, which puts the locks of all components together.

Granularity. A step is one access to shared memory, or what a thread does
between two acquisitions of locks when everything it touches is protected by
the one it holds; a guard is released with the last access of its scope. Each
`pc` label is a place between two such accesses.

`ConfigVar`. A value of `T` has two fields that are read, compared and written
one after the other, since `m_val` is assigned under a shared lock and compared
under none. `++s_fun_id` is a load and a store, for the same reason: the counter
is shared by all objects and each holds only its own lock. The history variables
`view`, `heard`, `told` and `granted` record what listeners have been told, what
the current pass has called and which keys callers hold. `fromString` is
`setValue` with a value that has been parsed; a listener that throws (`Thrower`)
ends `setValue` and releases the lock.

`Config`. The map is under one lock; `setValue` is one step, since its inside is
`ConfigVar`: it assigns (`LoadSet`) or a listener throws, which `fromString`
swallows, and it does not (`LoadThrows`). A document is the sequence of pairs that `ListAllMember` walks
through, and the paths it drops are the invalid ones: a child's path contains
its parent's. Objects are numbered as they are created, so that a lost object
would be seen.

`Thread`. Each object and its pthread have one name; `main` and the callbacks
may call everything: any thread joins and destroys any object, `pthread_create`
may fail and `sem_wait` may be interrupted. The history variables `overlapped` and
`interrupted` remember to which objects two joiners or a signal have happened, so
that the properties can say that nothing else does harm. `ThreadLife` has two variables, the life of a
callback and the program's handle on it; `lifeOf` and `handleOf` in `Thread` map
`pc`, `pthread`, `object` and `m_thread` to them.

`LogDefinition`. A YAML map is a function, a sequence a sequence, and a text is
the node it says: yaml-cpp reads back what it writes. `ReadLogs` is the cast from
a document, with the appenders it passes over and the names it finds twice
(`std::set` keeps the first); `WriteLogs`, `LoggerText` and `ManagerText` are the
casts and `toYamlString` functions that write. The keys they use differ, and so
do the names of levels: `FromString` does not know `ERROR` (`log.cpp` 31-48).

`LogConfig`. Names are numbers in the order of `std::set`; the values of `logs`
are those that documents convert to. The listener's two nested loops are actions
on the sets `todo` and `gone`; `pass` is the updater under the WriteLock.
`applied`, `once` and `deleted` remember what was applied to a logger, what was
ever defined, and what the listener turned off; `logged` holds the loggers whose
level an event has written since the listener did, and `overlapped` says that two
updates have been inside `setValue` together. A definition without a name ends
the process (`UpdateNameless`), as does a file that cannot be opened
(`AddMissingFile`). Root is a logger of its own and is not the logger that has
the name `root` (`log.cpp` 545 and 703).

`Logger`. Loggers and appenders have owners of their locks; the level has none.
A thread that waits for a spin lock spins (`Spin` is a step that changes
nothing), so a thread that waits for ever shows as a liveness violation and not
as a deadlock of the model. `addAppender` reads the formatter of the appender
under that appender's lock (`AddGet`), decides (`AddHas`, `AddHasNone`) and gives
it that of the logger without the lock (`AddSet`). `setFormatter` with a pattern
takes the lock (`SetFormatter`), that with a pointer does not (`SetFormatterPtr`).
The appenders in `Console` are StdoutLogAppenders, which test their formatter
before they lock (`AppenderTest`); the others are FileLogAppenders.

`LogFormatter`. A pattern is a sequence of characters and a piece that the
parser copies is the set of its positions, which says what was copied and from
where. One step is one iteration of the loop over the pattern; the inner loop
over a directive is the operators `NameEnd` and `Close`, and the steps
`NameStops`, `NameAtEnd`, `FormatFound` and `Unclosed` are its four ends.
`SetPattern` parses a second pattern with the items and the error of the first
still there. `Shown` says what each item prints, with the arguments of `LogEvent`
in the order the macros pass them.

`LexicalCast`. A type is a leaf (`int`, `string`) and the containers around it, the
innermost first; a node is a map, a list, a scalar or null, and at most `Depth`
nodes are around another. A cast is a record of its values and the two functions
that read and write them; that of a container is made from that of its elements
(`ListCast`, `SetCast`, `MapCast`), as the templates are, and `Casts` goes from the
leaf of a type to its outermost container. The casts of `list`, `unordered_set`
and `unordered_map` are those of `vector`, `set` and `map` again, line for line. A
stringstream is the sequence of nodes written to it, so that forgetting
`ss.str("")` would be seen. `fromString` keeps the value when a cast throws.

`LockOrder`, `SystemLocks`. A program is the sequence of guards that one call
makes and drops on one of its paths; a thread runs one after another. `Mutex_RW`
returns `EDEADLK` to its own writer and the guards do not look at it, so `Again`
lets the thread go on and the inner `drop` gives up the outer lock. `Programs` has
every function that takes a lock but `addLogger`, which takes the manager's spin
lock twice (`log.cpp` 551-552); functions with the same guards are one program, and
a comment names them. Of the listeners, that of `LogIniter` is in the programs with
its three paths. What the user's listeners and callbacks of `Visit` do are constants
(`UserListener`, `Callback`) of which `UserAssumption` asks that a listener uses
neither a variable nor the registry, and a callback not the registry; the code asks
for nothing, and its tests keep this. TLC runs those of `pthread_test.cpp`, whose
callback logs under the registry's lock.

Definitions named `...Mutant` are the code with one plausible mistake. They
show for each property a line of the code it depends on; no specification uses
them.

## 3. The runs

All bounds are in the `.cfg` files. Deadlock is checked in every run: the
disjunct `Finished` of a bounded model, or `Exited`, is the only place to stop.

| Run | Question | Bounds |
|---|---|---|
| `cv_concurrent` | do the others only wait or compare during a pass over the listeners, is its iterator valid, does it call each listener once with one old value, is every lock given back? | 3 threads with 2 calls each, 2 of them setters and 2 registrars, 1 object, 2 listeners of which one may throw |
| `cv_torn_read` | does `getValue` return a value somebody set? *No.* | 1 setter, 1 getter |
| `cv_keys` | does `addListener` return the key of its listener? *No.* | 2 objects of one type, 2 threads with 1 call each |
| `cf_registry` | is there one object per name, does a visit show each variable once, does a load leave what the document says last, does every call return? | 2 threads with 2 calls each, 4 names (one in two cases, one invalid), 2 types, of which one has listeners that may throw, 3 documents |
| `th_shared` | does the handshake of the constructor hold, are handles and `GetThis()` valid, is nothing leaked, do constructors and joins return, is `ThreadLife` implemented? | 2 objects and main, all of which may create, join, destroy and rename; signals and failures of `pthread_create` |
| `lc_shared` | do loggers become what the value says, are deleted ones off, are two updates never mixed, do the texts that are written configure the same loggers? | 2 updaters, 1 writer, 2 names, 5 documents with all kinds of appenders (with and without a pattern, with one that does not parse, with a file that is missing, of an unknown type), without appenders, with a name twice, without a name |
| `lc_removed` | is a logger off once its definition is removed? *No.* | 2 names, 4 documents, 1 updater |
| `lg_shared` | does the loop of `Logger::log` stay in the list, does each appender have one writer and a formatter, is the order of events the same everywhere, does every call return? | 2 loggers that share 2 of 3 appenders, one on the console, 2 writers, 1 administrator, 2 formatters |
| `fm_parse` | does the parser read each character once, flag what will show as an error, go on to the end, and do lines show what the author of the pattern meant? | all patterns of up to 5 of the characters that the parser tells apart, and longer ones that authors write; 2 patterns one after the other |
| `fm_percent` | are two percent signs one text? *No.* | the same patterns, once |
| `cn_text` | does a text read back as the value, and is a document of the type's shape taken whole or not at all? | a number, a string, every container of these, and three of containers; up to 3 elements, one of them wrong; scalars for containers; nodes 2 deep |
| `lk_order` | are the functions of the library never stuck, does a guard have its lock to itself? | 3 threads, any number of calls, of those programs that are not others in a row (`Parts`: a thread runs programs in a row anyway); a listener that logs and a callback of `Visit` that reads the variable and logs |

Why the bounds are enough. A race needs two threads that do the racing thing and
sometimes a third that prepares it; the calls of a thread are bounded so that
each can prepare and act (in `lk_order` they are not). The loops are over two
elements, which is the least that distinguishes the first, a next one and the
end. The two fields of a value are the least that can be torn. Five characters
hold a directive with a format (`%d{x}`) and every way to leave one open; three
elements of a container put a wrong one between two others.

What the author of a pattern means is not taken from the parser: a reading is a
sequence of texts and fields that, one after the other, are the pattern, and in
which no text has a percent sign or runs into a field (`Means` in
`LogFormatter`). `ReadsMeant` says that the pieces of `parse` are those of the reading, and that the line shows them, each
field as the comment in `parse` says; `MeantBy` in `LogFormatterMC` gives the
readings of the patterns that TLC tries. That comment's `%r` is left out: the
macros pass the arguments of `LogEvent` in another order than its constructor
takes them, so that `%r` shows the fiber (`Event` and `Shown` in `LogFormatter`).

### What the four negative runs show

* `cv_torn_read`: a reader and the assignment both hold the lock as readers
  (`config.hpp` 313).
* `cv_keys`: `s_fun_id` is one counter for all objects of a type, and `addListener`
  reads it again to return it; another object's `addListener` may increment it in
  between, under a lock of its own (`config.hpp` 321-325). The caller gets a key that
  is another listener's or nobody's.
* `lc_removed`: the loop that deletes is inside the loop over the new
  definitions and is passed by the `continue` of an unchanged one (`log.cpp`
  711, 747).
* `fm_percent`: for `%%` the parser appends one percent sign and does not pass the
  second, which then begins a directive (`log.cpp` 240-243): `%%m` shows a percent
  sign and the message, and a pattern that ends with `%%` is in error.

### What the properties leave out, because the code does it

A property that is true of the code has to name what the code allows; each of
these was seen as a counterexample before.

* Two setters, or one and a listener that throws after another was told: the new
  value a listener heard last is not the value of the variable (A calls the
  listeners with 1, B with 2, B assigns, A assigns: `config.hpp` 309-314). So no run
  has `HeardIsHeld`; see `ListenersAgree` in section 4.
* `setValue` compares with `m_val` without a lock (`config.hpp` 304): during a pass
  `PassIsolated` finds other threads there, and nowhere else.
* `Lookup` stores a name as it is given and `LoadFromYaml` asks for it in lower case:
  `LoadApplied` says that a variable with a capital letter keeps its default value,
  and that the others get theirs, unless one of their listeners throws.
* Two joiners inside `join` of one object both pass the test at `threads.cpp` 93:
  `HandleValid` exempts this object. A signal makes the constructor throw while
  `run` uses its members (`threads.cpp` 40), and a detached thread outlives its object
  (`threads.cpp` 87): `StartsAlive`, `NoneLeaked` and `ThisAlive` exempt these, and
  nothing else. `JoinReturns` exempts threads that join each other in a circle.
* An event writes the level of its logger (`log.cpp` 69), also one that was let through
  before the logger was deleted: `DefinitionsApplied` and `DeletedIsOff` speak of the
  level while no event has, and of the appenders always. Two updates that overlap
  compare with the same old value: `DefinitionsApplied` is about those that do not.
* `setFormatter` with a pointer replaces the formatter of a line that is being
  written (`log.hpp` 237, 247): `FormatterSet` says that there always is one.
* A name of several letters at the end of a pattern keeps its last letter only
  (`log.cpp` 266-276): `SpelledOut` exempts it (`InLastName`). A field without a format
  takes the letter or brace behind it into its name: no reading has one (`Separate`).
* A scalar where a list or a map is expected has no elements, so that the variable
  becomes empty and `fromString` says true (`config.hpp` 67, 180): `LoadedWhole` says of
  documents of the type's shape that they are taken whole or not at all, and of all
  others that a refused one changes nothing.

### Fairness

`FairSpec` asks that a thread inside a method is scheduled (weak fairness of its
steps). It never asks a thread to call a method, a signal to come or
`pthread_create` to fail. Calls are bounded in `Config` and `Logger`, so nobody
can overtake for ever: the runs do not say that a writer of `Mutex_RW` gets its
turn among endless readers, which a default rwlock does not promise, nor that a
spin lock is fair. `LogConfig` states no fairness. In `Thread`, `SF_vars(RunReturn(o))` says that a callback, which may call
any operation any number of times, returns in the end: an assumption on the
program, without which no join could return. `LogFormatter` is sequential: its
`FairSpec` says that `parse` goes on. `LockOrder` states no fairness: `NotStuck`
says that somebody can move, not that everybody does.

## 4. What is proved

For any sets of threads, objects, values, listeners, loggers and appenders, and
any bounds:

| Module | Theorem | States |
|---|---|---|
| `ConfigVarProofs` | `TypeCorrect` | `Spec => []TypeOK` |
| | `Isolation` | `Spec => []PassIsolated` |
| | `LocksReleased` | `Spec => []LockReleased` |
| | `IteratorSafe` | `Spec => []IteratorValid` |
| | `VisitsEach` | `Spec => []PassVisitsEach` |
| | `SameOldValue` | `Spec => OldValueFixed` |
| | `ListenersAgree` | `Spec => []HeardIsHeld`, if `OneSetter` and `Thrower = {}` |
| `ThreadProofs` | `TypeCorrect` | `Spec => []TypeOK` |
| | `HandshakeIsDone` | `Spec => []HandshakeDone` |
| | `NamesAlwaysAgree` | `Spec => []NamesAgree` |
| | `HandlesAreValid` | `Spec => []HandleValid` |
| | `ThisStaysAlive` | `Spec => []ThisAlive` |
| | `ThreadStartsAlive` | `Spec => []StartsAlive` |
| | `NoThreadLeaked` | `Spec => []NoneLeaked` |
| | `LifeImplemented` | `Spec => ImplementsLife` |
| `LoggerProofs` | `TypeCorrect` | `Spec => []TypeOK` |
| | `LoopStaysInList` | `Spec => []LoopInList` |
| | `OneWriterPerStream` | `Spec => []StreamExclusive` |
| | `FormattersSet` | `Spec => []FormatterSet` |
| | `OneOrder` | `Spec => []SameOrder` |
| `ConfigProofs` | `TypeCorrect` | `Spec => []TypeOK` |
| | `OneObjectPerName` | `Spec => []HeldIsRegistered` |
| | `VisitsInOrder` | `Spec => []VisitsEach` |
| | `LoadIsApplied` | `Spec => []LoadApplied`, if `Loader` has at most one element |
| `LogConfigProofs` | `TypeCorrect` | `Spec => []TypeOK` |
| | `AppendersOfOneDefinition` | `Spec => []NeverMixed` |
| | `DeletedAreOff` | `Spec => []DeletedIsOff` |
| | `DefinitionsAreApplied` | `Spec => []DefinitionsApplied` |
| | `LevelsKept` | `Spec => []TextKeepsLevels` |
| | `DumpIsConfiguration` | `Spec => []DumpConfigures` |
| `LogFormatterProofs` | `NothingLost` | `Spec => []SpelledOut` |
| | `ErrorsMarked` | `Spec => []ErrorMarked` |
| | `LoopAdvances` | `Spec => ParseAdvances` |
| | `PatternsReadAsMeant` | `Spec => []ReadsMeant` |
| | `ReadAsMeant` | the same of every reading of a pattern (`Means`), and not of those in `Meant` only |
| `LexicalCastProofs` | `WrittenReadsBack` | `Spec => []CastReadsBack` |
| | `DocumentsWhole` | `Spec => LoadedWhole` |
| `LockOrderProofs` | `NeverStuck` | `Spec => []NotStuck`, if every program keeps the order (`Disciplined`) |
| | `GuardsHold` | `Spec => []ScopesHold`, if `Disciplined` |
| | `SystemNeverStuck` | `Spec => []NotStuck` for `Programs` of `SystemLocks` (`OfSystem`), every function but `addLogger` |
| | `SystemGuardsHold` | `Spec => []ScopesHold` for them |
| | `AddLoggerWaits` | a thread in `addLogger` that holds the manager's lock cannot move, and `addLogger` is not `Ordered` |

The assumptions are the ASSUMEs of the modules, which TLC evaluates in every run
(which sets are disjoint, which are not empty, what documents may say, that
documents are sequences, that locks of different kinds are different), and the
hypotheses of single theorems:

* `ListenersAgree`: one thread calls `setValue`, and no listener throws. Section 3
  shows that neither can be dropped, so that no run has `HeardIsHeld` among its
  properties; TLC checked it of `cv_concurrent` with these two hypotheses as
  constants.
* `LoadIsApplied`: one thread loads documents, since another one would overwrite what
  it has just loaded; of those who create, find and visit variables there may be any
  number.
* `NeverStuck`, `GuardsHold`: every program keeps the order of the ranks
  (`Disciplined`). `SystemDisciplined` proves it of those of the library: `OfSystem`
  says what the locks, their order and the programs are. What it rests on is
  `UserAssumption`: with a listener or a callback that calls `Lookup` threads do get
  stuck.

`ConfigVar`. `TypeOK` is not inductive: the loop of `setValue` applies
`m_callbacks` to its iterator, so types need the iterator to be valid. That needs
everybody else to be out of the object, which needs the lock to be held by the
threads whose `pc` says so. The invariant is therefore
`Inv == TypeOK /\ Counted /\ LockHeld /\ IteratorValid /\ PassVisitsEach`, where
`LockHeld` ties the `pc` of each thread to the writer and readers of its lock
and to nothing else, and `Counted` bounds the keys in use by the counter.
`LockSteps` and `NextLocks` show that each action keeps `LockHeld`;
`HeldIsolates` derives isolation, and what a lock holds is its scope (`LocksReleased`); `OthersLeavePass` uses it to show that a
step of another thread changes nothing a pass depends on; `PassStart` and
`PassSteps` show that the pass itself goes from a key to the next (`NextKeyIsNext`:
a set of naturals has a least element, since `<` is well-founded, and so no key
lies between a key and `NextKey`). `Invariance` puts the actions together and the
theorems follow.

`ListenersAgree` follows the new value through the two scopes of `setValue`
(`HearInv`): during the loop the listeners it has called believe the new value,
and those it has not the one `m_val` still has (`PassTells`); behind the loop all
of them believe the new one, since the loop called each (`AllTold`, from
`PassVisitsEach`), and whoever registers now has heard of nothing; between the
two stores of the assignment the first field is the new one (`HalfWritten`), so
that the last store makes `m_val` what the listeners believe. That nobody else
is in `setValue` (`SettersChange`, `OneMover`) is what keeps each of these.

`Thread`. `TypeOK` is not inductive either: that the semaphore is at most 1
needs `notify` to find it at 0. `Start` describes the handshake by the place of
its two sides: an object has at most one constructor at work (`Callers`), before
`pthread_create` there is no thread (`BeforeCreate`), a thread that has not yet
notified has a creator that waits (`Stages`), the semaphore is 0 before the
notification and 1 after it (`Handshake`), and 0 again when the constructor has
returned (`AllReady`). `Handles` and `Joiners` add that an object somebody joins
stays, and that `m_thread` is 0 only when its pthread is joined and over. The
invariant `IInv` is their conjunction; the theorems and the simulation of
`ThreadLife` (`NextLife`, one step per action) follow from it. `Ended` gives
`StartsAlive` and `NoneLeaked`: only `~Thread` or a signal ends an object that has a
pthread. `NamesAgree` needs `OwnThis` in addition: `t_thread` is the thread's own
object from the first statement of `run` on. `HandleValid` needs `OneJoiner` (an
object that two threads have never joined at once is joined by one now) and
`JoinedOnce` (whoever is about to call `pthread_join`, or finds a handle in `m_thread`,
has a joinable pthread). `ThisAlive` needs `Cut` (what an interrupted constructor was
building is gone) and that `m_thread` is 0 only when the thread is over
(`NextThisAlive`), so that `~Thread` detaches every other one.

`Logger`. Who is inside a method of a logger owns its lock (`LoggerHeld`) and who
writes owns the lock of the appender at its place in the list (`AppenderHeld`).
The second names the list, which changes, so the two must be shown together with
`LoopInList`: nobody else changes the list of a logger whose lock one holds
(`WriterKept`), nor takes the appender (`MutexKept`). `ErasedInList` says that
what `delAppender` leaves was in the list before, from which `FormatterSet`
follows.

`SameOrder` compares two streams, which threads write at different times.
`Numbered` says that a writer numbers its events, `Fresh` that no stream has an
event whose loop has not begun, and `Latest` that what the loop of a writer has
put into a stream is the last that its logger has there: the others wait for the
logger's lock. So the line that `AppenderWrite` appends comes, in every stream, after
all other events of the logger (`WriteOrder`), and every other step leaves the
streams alone (`QuietOrder`).

`Config`. `LockHeld` ties the places of the threads to the holders of the map's
lock. From it follow what a thread knows inside its critical section: the name it
creates is new and valid (`Creating`), the entry a visit is at is in the map
(`Visiting`), what a load found stays what the map says (`Loading`). `Growth` says
what a step may do to the map: add one entry under the write lock, never change
or remove one. So what was returned stays registered, and a name that enters the
map during somebody's visit does not exist: `Apart` and `MapHeld` keep the visit,
and `NextVisits` adds the next name to those that were shown (`NextNameIsNext`).
`LoadApplied` is about the end of a load; while it runs, `LoadsApply` says the same
of the nodes that the walk has passed: every variable has what the last of them
that names it says. `Listed` proves that the walk (`ListAllMember`, a recursive
function) gives the valid nodes of the document in their order, `OwnObject` that
no two names share an object, and `ValuesKept` that only a load changes values.

`LogConfig`. The listener runs under the lock (`Running`: whoever is in it is
`pass`), at definitions of the value it was given (`Places`), so that a logger
gets only appenders a document defines, with a formatter that parsed
(`ObjectsOK`). `NeverMixed` alone is not inductive: while the listener adds
appenders a logger has some of them. `MixInv` says how many: the logger at hand
has those that the listener has added, each as its definition says, and every
other logger has all or none. `OneAdds` makes sure that there is one logger at
hand; `ClearMix`, `AddMix`, `AddedMix` and `DeleteMix` are the four steps that
matter, `MixKept` all others.

`DeletedOff` and `Applying` say of every place in the listener what is done
already: a deleted logger is off, or about to lose its appenders (`DeletedOff`);
the definitions that were passed, and the unchanged ones, are applied (`Treated`),
and the one at hand as far as the updater is with it (`Working`). An unchanged
definition is passed over by the code; that its logger is right all the same
follows from what was true before the update (`AtRest`), which is why that is an
invariant and not a fact about one call. Both say of a level that it is set unless
an event has written it since (`LevelSet`); what another thread does to a logger is
no more than that (`Untouched`).

`TextKeepsLevels` and `DumpConfigures` are about text and back, for documents of
any length. The loop that reads appenders is a recursive function
(`ReadAppenders`); `AppendersRead` shows by induction that of a list that the
library wrote it accepts every element, in its place. `AscendingExists` (every
finite set of names can be listed in their order) and `FirstNamed` (the first
element with a name is the only one) give the set of definitions back; what is
left is that `LevelFromString` undoes `LevelToString`, but for `ERROR`, which no
definition has (`NeverError`) and which a logger's level may be.

`LogFormatter`. `SpelledOut` needs no strengthening but types: `NameEnds` and
`Closes` bound where the inner loop stops, and each step appends a piece whose
positions lie between those before and the new index. `ErrorsMarked` adds to it
what has not become an item yet (`Marked`): an unclosed piece that waits in `vec`
has set `m_error` already.

For `ReadsMeant` the loop is followed along a reading (`Following`): the pieces made
so far are those of the segments that are behind, and the text that waits is the
beginning of the next one. `Round` shows that each turn keeps this:
a text grows by a character or is followed by its field (`LiteralFollows`), and
`NameEndIs` and `CloseIs` show that the inner loop ends a field where the reading
ends it, whatever comes next (`FieldFound`, `EndFollows`). That is where a reading
needs its texts not to begin with a letter or a brace behind a field
(`Separate`). The pieces are shown for every parse, the line for the first
one: a second parse finds the items of the first (`FirstItems`).

`LexicalCast`. TLAPS knows nothing of a recursive function but that it satisfies
its equation if some function does: `WithinRead`, `CastsRead` and `SaysRead` show
by induction over the depth that one does, and unfold it. `Sound(c)` then says of
a cast that, at every depth, what it reads of a node it writes as a node of that
depth or less, and reads the same of that: the depth is what makes a written text
a node again. `IntSound` and `StringSound` are the leaves; `ListSound`, `SetSound`
and `MapSound` give it for a container if its elements have it, the first through
the places of a list (`Rewritten`), the second because the set of the written
nodes has all of them whatever their order (`InSomeOrder`), the third because each
key of a map is written once, so that each pair is the first of its key
(`NewOnce`, `InsertedBack`), although the document may have had keys twice.
`CastsSound` is the induction over the containers of a type. The state adds that
the value has been read from one node (`ValueRead`). Not every value of `T` reads
back: a `std::string` in a vector may hold several nodes, of which the element
that is written is the first; one that was read from a document holds one node.
For `LoadedWhole`, `Tells` says that what is read of a node is what the node says, if
it has the shape of the type; `ReadSays` proves it along the same induction, and
`ContainerShape` that what is written has the shape.

`LockOrder`. `ScopesOwned` says that guards own their locks, `OwnedByGuard` that
locks are owned by guards only; together they are kept by each step, because a
program that keeps the order never asks twice for a lock, so that `Again`, after
which a `drop` would give up somebody else's guard, cannot happen (`Fresh`). For
`NeverStuck`, suppose that nobody moves: each thread inside a call then waits for
a lock that another one owns by an open guard (`WaitsForOther`), who therefore
waits for a lock of higher rank. The thread that waits for the highest rank has
none to wait for (`SomeoneMoves`). That is where `Rank` is bounded. That guards
exclude each other is the invariant `Alone` together with `ScopesOwned`.

That the programs keep the order is proved along their structure.
`From(r, p)` says that `p` keeps the order and takes locks of rank `r` or higher
only. `OpenBehind` says which guards are open in the middle of `p \o q`; from it,
`FromBoth` composes programs one after another and `FromUnder` puts a guard around
one whose locks come later. `LoggingFrom`, `ListenersFrom`, `VariablesFrom` and
`RegistryFrom` then go through the functions as the code nests them: an event is
written under ranks 3 and 4, the listener of `LogIniter` under 2, `setValue` under
1, `LoadFromYaml` and `Visit` under 0. A function that took a lock in the wrong
place would break one line of this.

Induction over data. The induction theorems of the library take an operator, which
the provers here cannot instantiate; `InductionTo`, in each module that needs it
(`ConfigProofs`, `LogConfigProofs`, `LexicalCastProofs`), is the same over a set of
numbers, from the well-foundedness of `<`. It is enough for loops over sequences
(`Listed`, `AppendersRead`, `AscendingExists`), and for types and documents as well
once the containers of a type are a sequence and the depth of a node is a number.

Model-checked only: the liveness properties (`CallsReturn`, `CtorReturns`,
`JoinReturns`), since fairness and `ENABLED` are out of the provers'
reach. `ReadsWhole`, `KeyNamesListener`, `RemovedIsOff` and `PercentEscaped` do not hold. The types of `ConfigVar`,
`Config`, `Thread`, `Logger`, `LogFormatter` and `LockOrder` are proved and not run.

## 5. Not modelled

* Listeners that call the variable they listen to, and listeners and callbacks of
  `Visit` that call `Lookup`: `LockOrder` says what a lock does then, and no order
  admits them (`UserAssumption`); the library itself has no such call. `addLogger`
  never returns and is never called (`AddLoggerWaits`).
* What `FileLogAppender::reopen` does to its stream (its lock is in `SystemLocks`), and
  the content of log files (two appenders on one file overwrite each other).
* Two StdoutLogAppenders have a lock each and one stream, `std::cout`: what their lines
  look like when they meet there. `StreamExclusive` is about one appender.
* In `LogConfig`, a program that calls `addAppender` or `setLevel` itself on a logger that
  the variable defines, as `src/test/config_test.cpp` 219 does before a load; `Logger`
  has these calls, without the configuration.
* Names torn by `SetName` in another thread's `getName`.
* Documents that give a map to a cast that expects a list: yaml-cpp then looks
  its indices up as keys. `TypeAssumption` of `LexicalCast` excludes them (`Taken`).
* `Mutex`, `SpinLock` and `CASLock` differ in how a thread waits, which only
  `Logger` shows; the null mutexes do nothing.
* `LogEvent::format` and the layout of a line, `Singleton` (its initialisation is
  the compiler's), `utils` (thread ids and back traces: system calls without
  state), `fibers` and `macro` (empty in this commit), yaml-cpp and boost.

## 6. What is left

1. Re-entrant listeners with the variable's state and not only its lock. There is no
   atomic variable for `ConfigVar` to implement: with a single setter a reader
   may see half of a value (`cv_torn_read`). `ListenersAgree` is what holds then.
2. Streams of `FileLogAppender` with `reopen`, if something comes to call it.
