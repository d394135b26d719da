--------------------------------- MODULE Driver ---------------------------------
(***************************************************************************)
(* The command lines of the two compilers, numlang/main.py and main() of    *)
(* src/main.cpp, as processes that share the directory of temporary files:  *)
(* check the arguments, read, compile, then write the C text to a file, or   *)
(* build it in a temporary directory, run it and remove the directory.  Any  *)
(* step may fail, and a user may interrupt or kill a process at any step.     *)
(***************************************************************************)
EXTENDS Integers

CONSTANTS
    Jobs,          \* invocations
    CommandLines,  \* sets of the options "--run", "-o", "--emit", "--support"
                   \* and "bad size", a --stack-size that is refused
    Names,         \* names a temporary directory may get
    Strangers,     \* those taken by directories of other programs
    Results,       \* exit statuses of compiled programs and of C compilers
    Signals,       \* signals that may end them
    MaxTries       \* names tried by make_temp (16)

NoDir == "no directory"
Absent == [c |-> NoDir, exe |-> NoDir]
Nothing == "nothing"   \* no file
Torn == "torn"         \* a file that holds a part of the text
NoName == "no name"
NoOutcome == [how |-> "none", n |-> 0]
NoStatus == -1

ASSUME JobsAssumption ==
    /\ Jobs \cap {Nothing, Torn, NoDir} = {}
    /\ NoName \notin Names /\ Strangers \subseteq Names
ASSUME OutcomesAssumption ==
    /\ Results \subseteq 0 .. 255 /\ Signals \subseteq 1 .. 127
    /\ MaxTries \in Nat \ {0}

Content == Jobs \cup {Nothing, Torn}   \* a job: what was made from its text
Directory == [c : Content, exe : Content]
Empty == [c |-> Nothing, exe |-> Nothing]
Exited == [how : {"exit"}, n : Results]
Signalled == [how : {"signal"}, n : Signals]
Outcomes == Exited \cup Signalled
Failures == {r \in Outcomes : r.how = "exit" => r.n # 0}

VARIABLES
    tool,     \* "python" or "cpp"
    options,  \* the options given
    valid,    \* whether the text compiles
    pc,       \* what the process does next
    status,   \* its exit status
    tries,    \* i in make_temp
    dir,      \* its temporary directory
    ran,      \* how the compiled program ended
    output,   \* its -o file: "old" as it was, "torn", or "new", the whole C text
    dirs      \* the temporary directories of the system

command == <<tool, options, valid>>
vars == <<tool, options, valid, pc, status, tries, dir, ran, output, dirs>>

Python(j) == tool[j] = "python"
Given(j, option) == option \in options[j]
Gone(j) == pc[j] \in {"ended", "killed"}

Goto(j, step) == pc' = [pc EXCEPT ![j] = step]
SetStatus(j, s) == status' = [status EXCEPT ![j] = s]
Exit(j, s) == Goto(j, "ended") /\ SetStatus(j, s)

\* A return or an exception in the scope of the temporary directory: the
\* with block and ~Temp remove it on the way out.
LeaveAtOnce(j, s) == Exit(j, s)   \* defect: leaves without cleaning up
Leave(j, s) == Goto(j, "clean") /\ SetStatus(j, s)

Returncode(j, r) ==               \* defect: -n for a signal
    IF r.how = "exit" THEN r.n ELSE -r.n
RawStatus(j, r) ==                \* defect: the last byte of a wait status
    IF r.how = "exit" THEN (256 * r.n) % 256 ELSE r.n

(* main returns returncode, which is -n for a signal, and the system keeps  *)
(* its last byte; status() of main.cpp decodes what std::system returns.     *)
ExitStatus(j, r) ==
    IF r.how = "exit" THEN r.n
    ELSE IF Python(j) THEN 256 - r.n ELSE 128 + r.n

--------------------------------------------------------------------------------
(* Both tools refuse a bad size and a command line without a task; only the *)
(* C++ compiler refuses two tasks, and it has no --emit.                      *)
Refused(j) ==
    \/ Given(j, "bad size")
    \/ options[j] \cap {"--run", "-o", "--emit"} = {}
    \/ ~Python(j) /\ (Given(j, "--emit") \/ {"--run", "-o"} \subseteq options[j])

OutputFirst(j) ==                 \* defect: -o wins over --run
    IF Given(j, "--emit") THEN "emit" ELSE IF Given(j, "-o") THEN "output" ELSE "run"
Task(j) ==
    IF Given(j, "--emit") THEN "emit" ELSE IF Given(j, "--run") THEN "run" ELSE "output"

CheckArguments(j) ==
    /\ pc[j] = "arguments"
    /\ \/ Given(j, "--support") /\ Exit(j, 0)
       \/ ~Given(j, "--support") /\ Refused(j) /\ Exit(j, IF Python(j) THEN 2 ELSE 1)
       \/ ~Given(j, "--support") /\ ~Refused(j) /\ Goto(j, "read") /\ UNCHANGED status
    /\ UNCHANGED <<command, tries, dir, ran, output, dirs>>

ReadSource(j) ==
    /\ pc[j] = "read"
    /\ \/ Exit(j, 1)
       \/ Goto(j, "compile") /\ UNCHANGED status
    /\ UNCHANGED <<command, tries, dir, ran, output, dirs>>

\* --emit-tokens only needs a text that can be split into tokens.
Emit(j) ==
    /\ pc[j] = "compile" /\ Task(j) = "emit"
    /\ \/ Exit(j, 0)
       \/ ~valid[j] /\ Exit(j, 1)
    /\ UNCHANGED <<command, tries, dir, ran, output, dirs>>

Compile(j) ==
    /\ pc[j] = "compile" /\ Task(j) # "emit"
    /\ IF valid[j]
       THEN Goto(j, IF Task(j) = "run" THEN "make" ELSE "open") /\ UNCHANGED status
       ELSE Exit(j, 1)
    /\ UNCHANGED <<command, tries, dir, ran, output, dirs>>

(* -o: opening the file empties it; then the text is written and flushed.    *)
OpenOutput(j) ==
    /\ pc[j] = "open"
    /\ \/ Exit(j, 1) /\ UNCHANGED output
       \/ /\ Goto(j, "write") /\ output' = [output EXCEPT ![j] = "torn"]
          /\ UNCHANGED status
    /\ UNCHANGED <<command, tries, dir, ran, dirs>>

\* The C++ compiler tests the stream before the destructor flushes it.
WriteOutput(j) ==
    /\ pc[j] = "write"
    /\ \/ Exit(j, 0) /\ output' = [output EXCEPT ![j] = "new"]
       \/ Exit(j, 1) /\ UNCHANGED output
       \/ ~Python(j) /\ Exit(j, 0) /\ UNCHANGED output
    /\ UNCHANGED <<command, tries, dir, ran, dirs>>

(* --run: create_directory and mkdtemp only succeed on a name nobody has.    *)
FreeOrNot(name) == TRUE           \* defect: takes a directory that exists
Free(name) == dirs[name] = Absent

Create(j, name) ==
    /\ Free(name)
    /\ dirs' = [dirs EXCEPT ![name] = Empty]
    /\ dir' = [dir EXCEPT ![j] = name]
    /\ Goto(j, "source")
    /\ UNCHANGED <<status, tries>>

\* make_temp counts its tries; tempfile looks for a free name by itself.
NameTakenAgain(j, name) ==        \* defect: the count starts again
    /\ ~Python(j) /\ ~Free(name)
    /\ tries' = [tries EXCEPT ![j] = (@ + 1) % MaxTries]
    /\ UNCHANGED <<pc, status, dir, dirs>>

NameTaken(j, name) ==
    /\ ~Python(j) /\ ~Free(name)
    /\ IF tries[j] < MaxTries - 1
       THEN tries' = [tries EXCEPT ![j] = @ + 1] /\ UNCHANGED <<pc, status>>
       ELSE Exit(j, 1) /\ UNCHANGED tries
    /\ UNCHANGED <<dir, dirs>>

MakeDirectory(j) ==
    /\ pc[j] = "make"
    /\ \/ \E name \in Names : Create(j, name) \/ NameTaken(j, name)
       \/ Exit(j, 1) /\ UNCHANGED <<tries, dir, dirs>>
    /\ UNCHANGED <<command, ran, output>>

Keep(j, file, content) ==
    dirs' = [dirs EXCEPT ![dir[j]] = [@ EXCEPT ![file] = content]]

\* Python raises on every failed write; the C++ compiler only tests whether
\* the file could be opened.
WriteSource(j) ==
    /\ pc[j] = "source"
    /\ \/ Keep(j, "c", j) /\ Goto(j, "start cc") /\ UNCHANGED status
       \/ Leave(j, 1) /\ UNCHANGED dirs
       \/ Python(j) /\ Keep(j, "c", Torn) /\ Leave(j, 1)
       \/ ~Python(j) /\ Keep(j, "c", Torn) /\ Goto(j, "start cc") /\ UNCHANGED status
    /\ UNCHANGED <<command, tries, dir, ran, output>>

StartCompiler(j) ==
    /\ pc[j] = "start cc"
    /\ \/ Goto(j, "building") /\ UNCHANGED status
       \/ Leave(j, 1)
    /\ UNCHANGED <<command, tries, dir, ran, output, dirs>>

(* --cc names any command.  One that succeeds has built the file it was     *)
(* given, if that is a whole program, or has done nothing.                    *)
Build(j) == dirs[dir[j]].c \in Jobs /\ Keep(j, "exe", dirs[dir[j]].c)

CompilerEnds(j) ==
    /\ pc[j] = "building"
    /\ \/ Build(j) /\ Goto(j, "start") /\ UNCHANGED status
       \/ Goto(j, "start") /\ UNCHANGED <<status, dirs>>
       \/ \E r \in Failures :
             Leave(j, IF Python(j) THEN 1 ELSE ExitStatus(j, r)) /\ UNCHANGED dirs
    /\ UNCHANGED <<command, tries, dir, ran, output>>

\* Without a program Python raises, and the shell of std::system fails.
StartProgram(j) ==
    /\ pc[j] = "start"
    /\ \/ dirs[dir[j]].exe # Nothing /\ Goto(j, "running") /\ UNCHANGED status
       \/ Python(j) /\ Leave(j, 1)
       \/ ~Python(j) /\ \E s \in {1, 126, 127} : Leave(j, s)
    /\ UNCHANGED <<command, tries, dir, ran, output, dirs>>

ProgramEnds(j) ==
    /\ pc[j] = "running"
    /\ \E r \in Outcomes :
          ran' = [ran EXCEPT ![j] = r] /\ Leave(j, ExitStatus(j, r))
    /\ UNCHANGED <<command, tries, dir, output, dirs>>

CleanUp(j) ==
    /\ pc[j] = "clean"
    /\ dirs' = [dirs EXCEPT ![dir[j]] = Absent]
    /\ dir' = [dir EXCEPT ![j] = NoName]
    /\ Goto(j, "ended")
    /\ UNCHANGED <<command, status, tries, ran, output>>

(* SIGINT is an exception in Python, which a second one may hit during the  *)
(* cleaning; it ends the C++ compiler at once, except in std::system, which  *)
(* ignores it while the child dies of it.                                     *)
Interrupt(j) ==
    /\ ~Gone(j)
    /\ \/ Python(j) /\ dir[j] = NoName /\ Exit(j, 130)
       \/ Python(j) /\ dir[j] # NoName /\ pc[j] # "clean" /\ Leave(j, 130)
       \/ Python(j) /\ pc[j] = "clean" /\ Goto(j, "killed") /\ UNCHANGED status
       \/ /\ ~Python(j) /\ pc[j] \notin {"building", "running"}
          /\ Goto(j, "killed") /\ UNCHANGED status
    /\ UNCHANGED <<command, tries, dir, ran, output, dirs>>

Kill(j) ==
    /\ ~Gone(j) /\ Goto(j, "killed")
    /\ UNCHANGED <<command, status, tries, dir, ran, output, dirs>>
--------------------------------------------------------------------------------
Init ==
    /\ tool \in [Jobs -> {"python", "cpp"}]
    /\ options \in [Jobs -> CommandLines]
    /\ valid \in [Jobs -> BOOLEAN]
    /\ pc = [j \in Jobs |-> "arguments"]
    /\ status = [j \in Jobs |-> NoStatus]
    /\ tries = [j \in Jobs |-> 0]
    /\ dir = [j \in Jobs |-> NoName]
    /\ ran = [j \in Jobs |-> NoOutcome]
    /\ output = [j \in Jobs |-> "old"]
    /\ dirs = [n \in Names |-> IF n \in Strangers THEN Empty ELSE Absent]

\* What the process does without waiting for the compiled program.
Step(j) ==
    \/ CheckArguments(j) \/ ReadSource(j) \/ Emit(j) \/ Compile(j)
    \/ OpenOutput(j) \/ WriteOutput(j) \/ MakeDirectory(j) \/ WriteSource(j)
    \/ StartCompiler(j) \/ CompilerEnds(j) \/ StartProgram(j) \/ CleanUp(j)

Next == \E j \in Jobs : Step(j) \/ ProgramEnds(j) \/ Interrupt(j) \/ Kill(j)

\* A process runs on, and C compilers end; a compiled program need not.
Spec == Init /\ [][Next]_vars /\ \A j \in Jobs : WF_vars(Step(j))
--------------------------------------------------------------------------------
Steps == {"arguments", "read", "compile", "open", "write", "make", "source",
          "start cc", "building", "start", "running", "clean", "ended", "killed"}

\* The variables keep their types, and exit statuses fit a byte.
TypeOK ==
    /\ tool \in [Jobs -> {"python", "cpp"}]
    /\ options \in [Jobs -> CommandLines]
    /\ valid \in [Jobs -> BOOLEAN]
    /\ pc \in [Jobs -> Steps]
    /\ status \in [Jobs -> 0 .. 255 \cup {NoStatus}]
    /\ tries \in [Jobs -> 0 .. MaxTries - 1]
    /\ dir \in [Jobs -> Names \cup {NoName}]
    /\ ran \in [Jobs -> Outcomes \cup {NoOutcome}]
    /\ output \in [Jobs -> {"old", "torn", "new"}]
    /\ dirs \in [Names -> Directory \cup {Absent}]

\* A process that ended by itself has left no temporary directory, whichever
\* step failed and whoever else was running; directories of other programs
\* are never removed (main.py:144, Temp and make_temp in main.cpp).
NothingLeft ==
    \A n \in Names :
       IF n \in Strangers THEN dirs[n] # Absent
       ELSE dirs[n] # Absent => \E j \in Jobs : dir[j] = n /\ pc[j] # "ended"

\* What --run executes was built by this invocation from its own whole C
\* text, in a directory of its own (docs/cpp-compiler-status.md:15, "a unique
\* temporary directory"), although names are shared and writes may fail.
OwnProgram ==
    \A j \in Jobs : pc[j] = "running" =>
       /\ dirs[dir[j]].exe = j
       /\ \A i \in Jobs \ {j} : dir[i] # dir[j]

\* Exit status 0 means that the task is done: the program was run and returned
\* 0, the output is whole; and where a program was run, 0 is reported if and only
\* if it returned 0.  Excepted: the C++ compiler may lose a text that it has
\* buffered (see WriteOutput).
Done(j) ==
    \/ Given(j, "--support") \/ Task(j) = "emit"
    \/ Task(j) = "run" /\ ran[j].how = "exit" /\ ran[j].n = 0
    \/ /\ Task(j) = "output"
       /\ output[j] = "new" \/ (~Python(j) /\ output[j] = "torn")

ZeroMeansDone ==
    \A j \in Jobs : pc[j] = "ended" =>
       /\ status[j] = 0 => Done(j)
       /\ ran[j] # NoOutcome => (status[j] = 0 <=> ran[j].how = "exit" /\ ran[j].n = 0)

\* The file named by -o keeps its contents unless the text has compiled and
\* writing it is the task: a failed compile or a --run never truncates it.
OutputKept ==
    \A j \in Jobs : output[j] # "old" =>
       valid[j] /\ "-o" \in options[j] /\ options[j] \cap {"--run", "--emit"} = {}

\* Every invocation ends, unless its compiled program runs for ever: the
\* search for a free directory name gives up.
Ends ==
    \A j \in Jobs : <>Gone(j) \/ <>[](pc[j] = "running")
================================================================================
