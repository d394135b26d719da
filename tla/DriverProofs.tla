------------------------------ MODULE DriverProofs ------------------------------
(***************************************************************************)
(* The safety properties of Driver for any number of processes, names,       *)
(* options and exit statuses.  The inductive invariant follows each process   *)
(* through its steps: what it holds, what it was told to do, what it will      *)
(* report.                                                                    *)
(***************************************************************************)
EXTENDS Driver, TLAPS

Inside == {"source", "start cc", "building", "start", "running", "clean"}
Outside == {"arguments", "read", "compile", "open", "write", "make", "ended"}

\* A directory is held from its creation to its removal, by one process, and
\* holds only what that process has made.
Holds(j) ==
    /\ pc[j] \in Inside => dir[j] \in Names
    /\ pc[j] \in Outside => dir[j] = NoName
    /\ dir[j] \in Names => dir[j] \notin Strangers /\ dirs[dir[j]] # Absent
    /\ \A i \in Jobs \ {j} : dir[i] = dir[j] => dir[j] = NoName

Contents(j) ==
    pc[j] \in Inside =>
       /\ dirs[dir[j]].c \in {j, Torn, Nothing}
       /\ dirs[dir[j]].exe \in {j, Nothing}
       /\ pc[j] = "running" => dirs[dir[j]].exe = j

\* Past its arguments a process has one task, and only that.
Tasked(j) ==
    /\ pc[j] \in (Inside \cup Outside) \ {"arguments", "ended"} =>
          ~Given(j, "--support") /\ ~Refused(j)
    /\ pc[j] \in Inside \cup {"make"} => Task(j) = "run"
    /\ pc[j] \in {"open", "write"} => Task(j) = "output" /\ valid[j]
    /\ output[j] # "old" => Task(j) = "output" /\ valid[j] /\ ~Refused(j)
    /\ pc[j] = "write" => output[j] = "torn"

\* What it will report is how the program ended, or a failure.
Reports(j) ==
    /\ ran[j] # NoOutcome =>
          /\ ran[j] \in Outcomes
          /\ pc[j] \in {"clean", "ended"} => status[j] = ExitStatus(j, ran[j])
          /\ pc[j] \in {"clean", "ended", "killed"}
    /\ pc[j] = "clean" => status[j] # NoStatus /\ (status[j] = 0 => ran[j] # NoOutcome)
    /\ pc[j] = "ended" /\ status[j] = 0 => Done(j)

JobInv(j) == Holds(j) /\ Contents(j) /\ Tasked(j) /\ Reports(j)

IInv == TypeOK /\ NothingLeft /\ \A j \in Jobs : JobInv(j)
--------------------------------------------------------------------------------
LEMMA Codes ==
    /\ \A n \in Results : n \in 0 .. 255
    /\ \A n \in Signals : n \in 1 .. 127
BY OutcomesAssumption

LEMMA OutcomeCodes ==
    /\ \A r \in Exited : r.how = "exit" /\ r.n \in Results
    /\ \A r \in Signalled : r.how = "signal" /\ r.n \in Signals
BY DEF Exited, Signalled

LEMMA Statuses ==
    ASSUME TypeOK, NEW j \in Jobs, NEW r \in Outcomes
    PROVE  /\ ExitStatus(j, r) \in 0 .. 255
           /\ ExitStatus(j, r) = 0 <=> r.how = "exit" /\ r.n = 0
<1>1. CASE r \in Exited
  <2>0. r.how = "exit" /\ r.n \in Results
    BY <1>1, OutcomeCodes
  <2>1. r.n \in 0 .. 255
    BY <2>0, Codes
  <2> QED BY <2>0, <2>1 DEF ExitStatus
<1>2. CASE r \in Signalled
  <2>0. r.how = "signal" /\ r.n \in Signals
    BY <1>2, OutcomeCodes
  <2>1. r.n \in 1 .. 127
    BY <2>0, Codes
  <2>2. ExitStatus(j, r) \in {256 - r.n, 128 + r.n}
    BY <2>0 DEF ExitStatus
  <2> QED BY <2>0, <2>1, <2>2
<1> QED BY <1>1, <1>2 DEF Outcomes

LEMMA SomethingRan == NoOutcome \notin Outcomes
BY DEF NoOutcome, Outcomes, Exited, Signalled

LEMMA DirectoriesExist ==
    /\ Absent \notin Directory /\ Empty \in Directory
    /\ \A d \in Directory, x \in Content :
          /\ [d EXCEPT !["c"] = x] \in Directory
          /\ [d EXCEPT !["exe"] = x] \in Directory
BY JobsAssumption DEF Absent, Directory, Content, Empty, NoDir, Nothing, Torn

\* A process only touches files in its own directory.
FilesOf(j) ==
    /\ dirs' \in [Names -> Directory \cup {Absent}]
    /\ \A n \in Names : /\ n # dir[j] => dirs'[n] = dirs[n]
                        /\ dirs'[n] = Absent <=> dirs[n] = Absent

\* A step of one process that neither creates nor removes a directory is
\* safe if the process is.
LEMMA Moves ==
    ASSUME IInv, NEW j \in Jobs, UNCHANGED <<command, dir>>, FilesOf(j),
           pc' \in [Jobs -> Steps], status' \in [Jobs -> 0 .. 255 \cup {NoStatus}],
           tries' \in [Jobs -> 0 .. MaxTries - 1],
           ran' \in [Jobs -> Outcomes \cup {NoOutcome}],
           output' \in [Jobs -> {"old", "torn", "new"}],
           \A i \in Jobs \ {j} : /\ pc'[i] = pc[i] /\ status'[i] = status[i]
                                 /\ ran'[i] = ran[i] /\ output'[i] = output[i],
           pc'[j] = "ended" => dir[j] = NoName,
           JobInv(j)'
    PROVE  IInv'
<1>1. TypeOK'
  BY DEF IInv, TypeOK, command, FilesOf
<1>2. NothingLeft'
  <2>1. ASSUME NEW n \in Names \ Strangers, dirs[n] # Absent
        PROVE  \E i \in Jobs : dir'[i] = n /\ pc'[i] # "ended"
    <3>1. PICK i \in Jobs : dir[i] = n /\ pc[i] # "ended"
      BY <2>1 DEF IInv, NothingLeft
    <3>2. pc'[i] # "ended"
      BY <3>1, JobsAssumption
    <3> QED BY <3>1, <3>2
  <2> QED BY <2>1 DEF IInv, NothingLeft, FilesOf
<1>3. ASSUME NEW i \in Jobs, i # j PROVE JobInv(i)'
  <2>1. JobInv(i)
    BY DEF IInv
  <2>2. /\ pc'[i] = pc[i] /\ status'[i] = status[i]
        /\ ran'[i] = ran[i] /\ output'[i] = output[i]
    BY <1>3
  <2>3. Holds(i)'
    BY <2>1, <2>2 DEF JobInv, Holds, FilesOf
  <2>4. Contents(i)'
    <3>1. pc[i] \in Inside => dir[i] \in Names /\ dir[i] # dir[j]
      BY <1>3, <2>1, JobsAssumption DEF IInv, JobInv, Holds
    <3> QED BY <2>1, <2>2, <3>1 DEF JobInv, Contents, FilesOf
  <2>5. Tasked(i)'
    BY <2>1, <2>2 DEF JobInv, Tasked, command, Given, Refused, Task, Python
  <2>6. Reports(i)'
    BY <2>1, <2>2 DEF JobInv, Reports, command, Given, Task, Python, ExitStatus, Done
  <2> QED BY <2>3, <2>4, <2>5, <2>6 DEF JobInv
<1> QED BY <1>1, <1>2, <1>3 DEF IInv

\* Most steps only choose what comes next and, perhaps, the exit status.
LEMMA Proceeds ==
    ASSUME IInv, NEW j \in Jobs, NEW p \in Steps, NEW s \in 0 .. 255 \cup {NoStatus},
           UNCHANGED <<command, tries, dir, ran, output>>, FilesOf(j),
           pc' = [pc EXCEPT ![j] = p], status' = [status EXCEPT ![j] = s],
           p \in Outside => dir[j] = NoName,
           p \in Inside => dir[j] \in Names /\ Contents(j)',
           p \notin {"arguments", "ended", "killed"} => ~Given(j, "--support") /\ ~Refused(j),
           p \in Inside \cup {"make"} => Task(j) = "run",
           p \in {"open", "write"} => Task(j) = "output" /\ valid[j],
           p = "write" => output[j] = "torn",
           ran[j] # NoOutcome => p \in {"clean", "ended", "killed"},
           ran[j] # NoOutcome /\ p \in {"clean", "ended"} => s = ExitStatus(j, ran[j]),
           p = "clean" => s # NoStatus /\ (s = 0 => ran[j] # NoOutcome),
           p = "ended" /\ s = 0 => Done(j)
    PROVE  IInv'
<1>1. JobInv(j)
  BY DEF IInv
<1>2. pc'[j] = p /\ status'[j] = s
  BY DEF IInv, TypeOK
<1>3. Holds(j)'
  BY <1>1, <1>2 DEF JobInv, Holds, FilesOf
<1>4. Contents(j)'
  BY <1>1, <1>2 DEF JobInv, Contents
<1>5. Tasked(j)'
  BY <1>1, <1>2 DEF JobInv, Tasked, command, Given, Refused, Task, Python, Inside, Outside
<1>6. Reports(j)'
  BY <1>1, <1>2 DEF JobInv, Reports, command, Given, Task, Python, ExitStatus, Done
<1>7. p = "ended" => dir[j] = NoName
  BY DEF Outside
<1> QED BY <1>2, <1>3, <1>4, <1>5, <1>6, <1>7, Moves DEF IInv, TypeOK, JobInv

LEMMA SameFiles == ASSUME IInv, NEW j \in Jobs, UNCHANGED dirs PROVE FilesOf(j)
BY DEF IInv, TypeOK, FilesOf

\* A process that holds no directory may end with a failure.
LEMMA ExitSafe ==
    ASSUME IInv, NEW j \in Jobs, NEW s \in 0 .. 255, Exit(j, s),
           pc[j] \in Outside \ {"ended"}, s = 0 => Done(j),
           UNCHANGED <<command, tries, dir, ran, output, dirs>>
    PROVE  IInv'
<1>1. JobInv(j)
  BY DEF IInv
<1>2. dir[j] = NoName /\ ran[j] = NoOutcome
  BY <1>1 DEF JobInv, Holds, Reports, Outside
<1>3. /\ pc' = [pc EXCEPT ![j] = "ended"] /\ status' = [status EXCEPT ![j] = s]
      /\ FilesOf(j)
  BY SameFiles DEF Exit, Goto, SetStatus
<1>4. /\ "ended" \in Steps /\ "ended" \notin Inside \cup {"make"}
      /\ "ended" \notin {"open", "write"} /\ s \in 0 .. 255 \cup {NoStatus}
  BY DEF Steps, Inside
<1> QED BY <1>2, <1>3, <1>4, Proceeds

\* A process that holds one may leave with a failure.
LEMMA LeaveSafe ==
    ASSUME IInv, NEW j \in Jobs, NEW s \in 1 .. 255, Leave(j, s),
           pc[j] \in Inside \ {"clean"}, FilesOf(j), Contents(j)',
           UNCHANGED <<command, tries, dir, ran, output>>
    PROVE  IInv'
<1>1. JobInv(j)
  BY DEF IInv
<1>2. dir[j] \in Names /\ ran[j] = NoOutcome
  BY <1>1 DEF JobInv, Holds, Reports, Inside
<1>3. ~Given(j, "--support") /\ ~Refused(j) /\ Task(j) = "run"
  BY <1>1 DEF JobInv, Tasked, Inside
<1>4. pc' = [pc EXCEPT ![j] = "clean"] /\ status' = [status EXCEPT ![j] = s]
  BY DEF Leave, Goto, SetStatus
<1>5. /\ "clean" \in Steps /\ "clean" \notin Outside
      /\ "clean" \notin {"open", "write"} /\ s \in 0 .. 255 \cup {NoStatus}
      /\ s # NoStatus /\ s # 0
  BY DEF Steps, Outside, NoStatus
<1> QED BY <1>2, <1>3, <1>4, <1>5, Proceeds

\* It may go on inside.
LEMMA GoOnSafe ==
    ASSUME IInv, NEW j \in Jobs, NEW p \in Inside \ {"clean"}, Goto(j, p),
           pc[j] \in Inside \ {"clean"}, FilesOf(j), Contents(j)',
           UNCHANGED <<command, status, tries, dir, ran, output>>
    PROVE  IInv'
<1>1. JobInv(j)
  BY DEF IInv
<1>2. dir[j] \in Names /\ ran[j] = NoOutcome
  BY <1>1 DEF JobInv, Holds, Reports, Inside
<1>3. ~Given(j, "--support") /\ ~Refused(j) /\ Task(j) = "run"
  BY <1>1 DEF JobInv, Tasked, Inside
<1>4. status[j] \in 0 .. 255 \cup {NoStatus} /\ status' = [status EXCEPT ![j] = status[j]]
  BY DEF IInv, TypeOK
<1>5. pc' = [pc EXCEPT ![j] = p]
  BY DEF Goto
<1>6. /\ p \in Steps /\ p \notin Outside
      /\ p \notin {"open", "write", "clean", "ended", "killed"}
  BY DEF Steps, Inside, Outside
<1> QED BY <1>2, <1>3, <1>4, <1>5, <1>6, Proceeds

\* Any process may be killed.
LEMMA KilledSafe ==
    ASSUME IInv, NEW j \in Jobs, Goto(j, "killed"),
           UNCHANGED <<command, status, tries, dir, ran, output, dirs>>
    PROVE  IInv'
<1>1. JobInv(j)
  BY DEF IInv
<1>2. status[j] \in 0 .. 255 \cup {NoStatus} /\ status' = [status EXCEPT ![j] = status[j]]
  BY DEF IInv, TypeOK
<1>3. pc' = [pc EXCEPT ![j] = "killed"] /\ FilesOf(j)
  BY SameFiles DEF Goto
<1>4. /\ "killed" \in Steps /\ "killed" \notin Outside /\ "killed" \notin Inside \cup {"make"}
      /\ "killed" \notin {"open", "write", "clean", "ended"}
  BY DEF Steps, Outside, Inside
<1> QED BY <1>2, <1>3, <1>4, Proceeds

\* Before it has a directory, a process goes on with what it was told.
LEMMA BeforeSafe ==
    ASSUME IInv, NEW j \in Jobs, NEW p \in {"read", "compile", "open", "make"}, Goto(j, p),
           pc[j] \in Outside \ {"ended"}, ~Given(j, "--support"), ~Refused(j),
           p = "make" => Task(j) = "run",
           p = "open" => Task(j) = "output" /\ valid[j],
           UNCHANGED <<command, status, tries, dir, ran, output, dirs>>
    PROVE  IInv'
<1>1. JobInv(j)
  BY DEF IInv
<1>2. dir[j] = NoName /\ ran[j] = NoOutcome
  BY <1>1 DEF JobInv, Holds, Reports, Outside
<1>3. status[j] \in 0 .. 255 \cup {NoStatus} /\ status' = [status EXCEPT ![j] = status[j]]
  BY DEF IInv, TypeOK
<1>4. pc' = [pc EXCEPT ![j] = p] /\ FilesOf(j)
  BY SameFiles DEF Goto
<1>5. /\ p \in Steps /\ p \notin Inside /\ (p \in Inside \cup {"make"} => p = "make")
      /\ (p \in {"open", "write"} => p = "open") /\ p \notin {"write", "clean", "ended"}
  BY DEF Steps, Inside
<1> QED BY <1>2, <1>3, <1>4, <1>5, Proceeds
--------------------------------------------------------------------------------
(* One lemma per step.                                                       *)

LEMMA CheckArgumentsSafe == ASSUME IInv, NEW j \in Jobs, CheckArguments(j) PROVE IInv'
<1>1. pc[j] \in Outside \ {"ended"} /\ UNCHANGED <<command, tries, dir, ran, output, dirs>>
  BY DEF CheckArguments, Outside
<1>2. CASE Given(j, "--support") /\ Exit(j, 0)
  BY <1>1, <1>2, ExitSafe DEF Done
<1>3. CASE Exit(j, IF Python(j) THEN 2 ELSE 1)
  BY <1>1, <1>3, ExitSafe
<1>4. CASE ~Given(j, "--support") /\ ~Refused(j) /\ Goto(j, "read") /\ UNCHANGED status
  BY <1>1, <1>4, BeforeSafe
<1> QED BY <1>2, <1>3, <1>4 DEF CheckArguments

LEMMA Accepted ==
    ASSUME IInv, NEW j \in Jobs, pc[j] \in Steps \ {"arguments", "ended", "killed"}
    PROVE  ~Given(j, "--support") /\ ~Refused(j)
BY DEF IInv, JobInv, Tasked, Inside, Outside, Steps

LEMMA ReadSourceSafe == ASSUME IInv, NEW j \in Jobs, ReadSource(j) PROVE IInv'
<1>1. /\ pc[j] \in Outside \ {"ended"} /\ UNCHANGED <<command, tries, dir, ran, output, dirs>>
      /\ pc[j] \in Steps \ {"arguments", "ended", "killed"}
  BY DEF ReadSource, Outside, Steps
<1>2. CASE Exit(j, 1)
  BY <1>1, <1>2, ExitSafe
<1>3. CASE Goto(j, "compile") /\ UNCHANGED status
  BY <1>1, <1>3, Accepted, BeforeSafe
<1> QED BY <1>2, <1>3 DEF ReadSource

LEMMA EmitSafe == ASSUME IInv, NEW j \in Jobs, Emit(j) PROVE IInv'
<1>1. /\ pc[j] \in Outside \ {"ended"} /\ UNCHANGED <<command, tries, dir, ran, output, dirs>>
      /\ Done(j)
  BY DEF Emit, Outside, Done
<1>2. \E s \in {0, 1} : Exit(j, s)
  BY DEF Emit
<1> QED BY <1>1, <1>2, ExitSafe

LEMMA CompileSafe == ASSUME IInv, NEW j \in Jobs, Compile(j) PROVE IInv'
<1>1. /\ pc[j] \in Outside \ {"ended"} /\ UNCHANGED <<command, tries, dir, ran, output, dirs>>
      /\ pc[j] \in Steps \ {"arguments", "ended", "killed"}
  BY DEF Compile, Outside, Steps
<1>2. CASE valid[j]
  <2>1. PICK p \in {"open", "make"} :
           Goto(j, p) /\ UNCHANGED status /\ p = (IF Task(j) = "run" THEN "make" ELSE "open")
    BY <1>2 DEF Compile
  <2>2. Task(j) # "emit" /\ (Task(j) # "run" => Task(j) = "output")
    BY DEF Compile, Task
  <2> QED BY <1>1, <1>2, <2>1, <2>2, Accepted, BeforeSafe
<1>3. CASE ~valid[j]
  BY <1>1, <1>3, ExitSafe DEF Compile
<1> QED BY <1>2, <1>3

\* The two steps that change the output.
LEMMA OutputStepSafe ==
    ASSUME IInv, NEW j \in Jobs, NEW p \in {"write", "ended"}, NEW s \in 0 .. 255 \cup {NoStatus},
           NEW o \in {"torn", "new"},
           pc[j] \in {"open", "write"},
           pc' = [pc EXCEPT ![j] = p], status' = [status EXCEPT ![j] = s],
           output' = [output EXCEPT ![j] = o],
           p = "write" => o = "torn",
           p = "ended" /\ s = 0 => o = "new" \/ ~Python(j),
           UNCHANGED <<command, tries, dir, ran, dirs>>
    PROVE  IInv'
<1>1. JobInv(j)
  BY DEF IInv
<1>2. dir[j] = NoName /\ ran[j] = NoOutcome /\ Task(j) = "output" /\ valid[j] /\ ~Refused(j)
      /\ ~Given(j, "--support")
  BY <1>1 DEF JobInv, Holds, Reports, Tasked, Inside, Outside
<1>3. pc'[j] = p /\ status'[j] = s /\ output'[j] = o
  BY DEF IInv, TypeOK
<1>4. Holds(j)'
  BY <1>1, <1>2, <1>3 DEF JobInv, Holds, Inside
<1>5. Contents(j)'
  BY <1>3 DEF Contents, Inside
<1>6. Tasked(j)'
  BY <1>2, <1>3 DEF Tasked, command, Given, Refused, Task, Python, Inside, Outside
<1>7. Reports(j)'
  <2>1. p = "ended" /\ s = 0 => Done(j)'
    BY <1>2, <1>3 DEF Done, command, Given, Task, Python
  <2> QED BY <1>2, <1>3, <2>1 DEF Reports
<1>8. p \in Steps /\ FilesOf(j)
  BY SameFiles DEF Steps
<1> QED BY <1>2, <1>3, <1>4, <1>5, <1>6, <1>7, <1>8, Moves DEF IInv, TypeOK, JobInv

LEMMA OpenOutputSafe == ASSUME IInv, NEW j \in Jobs, OpenOutput(j) PROVE IInv'
<1>1. CASE Exit(j, 1) /\ UNCHANGED output
  BY <1>1, ExitSafe DEF OpenOutput, Outside
<1>2. CASE Goto(j, "write") /\ output' = [output EXCEPT ![j] = "torn"] /\ UNCHANGED status
  <2>1. status[j] \in 0 .. 255 \cup {NoStatus} /\ status' = [status EXCEPT ![j] = status[j]]
    BY <1>2 DEF IInv, TypeOK
  <2> QED BY <1>2, <2>1, OutputStepSafe DEF OpenOutput, Goto
<1> QED BY <1>1, <1>2 DEF OpenOutput

LEMMA WriteOutputSafe == ASSUME IInv, NEW j \in Jobs, WriteOutput(j) PROVE IInv'
<1>1. CASE Exit(j, 0) /\ output' = [output EXCEPT ![j] = "new"]
  <2>1. /\ pc' = [pc EXCEPT ![j] = "ended"] /\ status' = [status EXCEPT ![j] = 0]
        /\ pc[j] \in {"open", "write"} /\ UNCHANGED <<command, tries, dir, ran, dirs>>
        /\ 0 \in 0 .. 255 \cup {NoStatus}
    BY <1>1 DEF WriteOutput, Exit, Goto, SetStatus
  <2> QED BY <1>1, <2>1, OutputStepSafe
<1>2. CASE Exit(j, 1) /\ UNCHANGED output
  BY <1>2, ExitSafe DEF WriteOutput, Outside
<1>3. CASE ~Python(j) /\ Exit(j, 0) /\ UNCHANGED output
  <2>1. Done(j)
    BY <1>3 DEF WriteOutput, IInv, JobInv, Tasked, Done
  <2> QED BY <1>3, <2>1, ExitSafe DEF WriteOutput, Outside
<1> QED BY <1>1, <1>2, <1>3 DEF WriteOutput

\* A new directory belongs to nobody else, since those of others exist.
LEMMA CreateSafe ==
    ASSUME IInv, NEW j \in Jobs, NEW name \in Names, pc[j] = "make", Create(j, name),
           UNCHANGED <<command, ran, output>>
    PROVE  IInv'
<1>1. JobInv(j)
  BY DEF IInv
<1>2. dir[j] = NoName /\ ran[j] = NoOutcome /\ Task(j) = "run" /\ ~Refused(j)
      /\ ~Given(j, "--support")
  BY <1>1 DEF JobInv, Holds, Reports, Tasked, Inside, Outside
<1>3. /\ dirs[name] = Absent /\ dirs' = [dirs EXCEPT ![name] = Empty]
      /\ dir' = [dir EXCEPT ![j] = name] /\ pc' = [pc EXCEPT ![j] = "source"]
      /\ UNCHANGED <<status, tries>>
  BY DEF Create, Free, Goto
<1>4. TypeOK'
  BY <1>3, DirectoriesExist DEF IInv, TypeOK, Steps, command
<1>5. /\ pc'[j] = "source" /\ dir'[j] = name /\ dirs'[name] = Empty
      /\ \A i \in Jobs \ {j} : pc'[i] = pc[i] /\ dir'[i] = dir[i]
      /\ \A n \in Names \ {name} : dirs'[n] = dirs[n]
  BY <1>3 DEF IInv, TypeOK
<1>6. name \notin Strangers /\ Empty # Absent
  BY <1>3, DirectoriesExist DEF IInv, NothingLeft
<1>7. \A i \in Jobs \ {j} : dir[i] # name
  BY <1>3 DEF IInv, JobInv, Holds
<1>8. NothingLeft'
  <2>1. ASSUME NEW n \in Names \ Strangers, dirs'[n] # Absent
        PROVE  \E i \in Jobs : dir'[i] = n /\ pc'[i] # "ended"
    <3>1. CASE n = name
      BY <1>5, <3>1
    <3>2. CASE n # name
      <4>1. PICK i \in Jobs : dir[i] = n /\ pc[i] # "ended"
        BY <1>5, <2>1, <3>2 DEF IInv, NothingLeft
      <4>2. i # j
        BY <1>2, <4>1, JobsAssumption
      <4> QED BY <1>5, <4>1, <4>2
    <3> QED BY <3>1, <3>2
  <2>2. \A n \in Strangers : dirs'[n] # Absent
    BY <1>5, <1>6, JobsAssumption DEF IInv, NothingLeft
  <2> QED BY <2>1, <2>2 DEF NothingLeft
<1>9. JobInv(j)'
  <2>1. Holds(j)'
    BY <1>5, <1>6, <1>7, JobsAssumption DEF Holds, Outside
  <2>2. Contents(j)'
    BY <1>5 DEF Contents, Empty
  <2>3. Tasked(j)'
    BY <1>1, <1>2, <1>5 DEF JobInv, Tasked, command, Given, Refused, Task, Python
  <2>4. Reports(j)'
    BY <1>2, <1>5 DEF Reports
  <2> QED BY <2>1, <2>2, <2>3, <2>4 DEF JobInv
<1>10. ASSUME NEW i \in Jobs, i # j PROVE JobInv(i)'
  <2>1. JobInv(i)
    BY DEF IInv
  <2>2. Holds(i)'
    <3>1. dir[i] \in Names => dirs'[dir[i]] = dirs[dir[i]]
      BY <1>5, <1>7, <1>10
    <3>2. \A k \in Jobs \ {i} : dir'[k] = dir'[i] => dir'[i] = NoName
      BY <1>5, <1>7, <1>10, <2>1 DEF JobInv, Holds
    <3> QED BY <1>5, <1>10, <2>1, <3>1, <3>2 DEF JobInv, Holds
  <2>3. Contents(i)'
    <3>1. pc[i] \in Inside => dirs'[dir[i]] = dirs[dir[i]]
      BY <1>5, <1>7, <1>10, <2>1 DEF JobInv, Holds
    <3> QED BY <1>5, <1>10, <2>1, <3>1 DEF JobInv, Contents
  <2>4. Tasked(i)'
    BY <1>5, <1>10, <2>1 DEF JobInv, Tasked, command, Given, Refused, Task, Python
  <2>5. Reports(i)'
    BY <1>3, <1>5, <1>10, <2>1 DEF JobInv, Reports, command, Given, Task, Python, ExitStatus, Done
  <2> QED BY <2>2, <2>3, <2>4, <2>5 DEF JobInv
<1> QED BY <1>4, <1>8, <1>9, <1>10 DEF IInv

LEMMA MakeDirectorySafe == ASSUME IInv, NEW j \in Jobs, MakeDirectory(j) PROVE IInv'
<1>1. pc[j] = "make" /\ UNCHANGED <<command, ran, output>>
  BY DEF MakeDirectory
<1>2. ASSUME NEW name \in Names, Create(j, name) PROVE IInv'
  BY <1>1, <1>2, CreateSafe
<1>3. ASSUME NEW name \in Names, NameTaken(j, name) PROVE IInv'
  <2>1. UNCHANGED <<dir, dirs>> /\ FilesOf(j)
    BY <1>3, SameFiles DEF NameTaken
  <2>2. CASE tries[j] < MaxTries - 1
    <3>1. tries' = [tries EXCEPT ![j] = @ + 1] /\ UNCHANGED <<pc, status>>
      BY <1>3, <2>2 DEF NameTaken
    <3>2. tries' \in [Jobs -> 0 .. MaxTries - 1]
      BY <2>2, <3>1, OutcomesAssumption DEF IInv, TypeOK
    <3>3. JobInv(j)'
      BY <1>1, <2>1, <3>1 DEF IInv, JobInv, Holds, Contents, Tasked, Reports, command, Given,
         Refused, Task, Python, Done, ExitStatus
    <3>4. pc[j] # "ended"
      BY <1>1
    <3> QED BY <1>1, <2>1, <3>1, <3>2, <3>3, <3>4, Moves DEF IInv, TypeOK
  <2>3. CASE ~(tries[j] < MaxTries - 1)
    BY <1>1, <1>3, <2>1, <2>3, ExitSafe DEF NameTaken, Outside
  <2> QED BY <2>2, <2>3
<1>4. CASE Exit(j, 1) /\ UNCHANGED <<tries, dir, dirs>>
  BY <1>1, <1>4, ExitSafe DEF Outside
<1> QED BY <1>2, <1>3, <1>4 DEF MakeDirectory

\* Writing into its own directory keeps it a directory.
LEMMA KeepFacts ==
    ASSUME IInv, NEW j \in Jobs, pc[j] \in Inside \ {"clean"},
           NEW file \in {"c", "exe"}, NEW x \in {j, Torn, Nothing}, file = "exe" => x # Torn,
           Keep(j, file, x), pc'[j] \in Inside, pc'[j] = "running" => pc[j] = "running" /\ file = "c",
           dir' = dir
    PROVE  FilesOf(j) /\ Contents(j)'
<1> DEFINE d == dirs[dir[j]]
           e == [d EXCEPT ![file] = x]
<1>1. dir[j] \in Names /\ Contents(j) /\ d # Absent
  BY DEF IInv, JobInv, Holds, Inside
<1>2. d \in Directory /\ x \in Content
  BY <1>1 DEF IInv, TypeOK, Content
<1>3. e \in Directory /\ e # Absent
  <2> HIDE DEF d
  <2>1. CASE file = "c"
    BY <1>2, <2>1, DirectoriesExist
  <2>2. CASE file = "exe"
    BY <1>2, <2>2, DirectoriesExist
  <2> QED BY <2>1, <2>2
<1>4. dirs' = [dirs EXCEPT ![dir[j]] = e]
  BY DEF Keep
<1>5. dirs'[dir'[j]] = e
  BY <1>1, <1>4 DEF IInv, TypeOK
<1>6. FilesOf(j)
  <2> HIDE DEF e
  <2> QED BY <1>1, <1>3, <1>4 DEF FilesOf, IInv, TypeOK
<1>7. /\ file = "c" => e.c = x /\ e.exe = d.exe
      /\ file = "exe" => e.exe = x /\ e.c = d.c
  BY <1>2 DEF Directory
<1>8. Contents(j)'
  <2>1. d.c \in {j, Torn, Nothing} /\ d.exe \in {j, Nothing} /\ (pc[j] = "running" => d.exe = j)
    BY <1>1 DEF Contents
  <2> HIDE DEF d, e
  <2> QED BY <1>5, <1>7, <2>1 DEF Contents
<1> QED BY <1>6, <1>8

LEMMA SameContents ==
    ASSUME IInv, NEW j \in Jobs, pc[j] \in Inside, UNCHANGED <<dir, dirs>>,
           pc'[j] # "running"
    PROVE  Contents(j)'
BY DEF IInv, JobInv, Contents

LEMMA WriteSourceSafe == ASSUME IInv, NEW j \in Jobs, WriteSource(j) PROVE IInv'
<1>1. pc[j] = "source" /\ UNCHANGED <<command, tries, dir, ran, output>>
  BY DEF WriteSource
<1>2. pc[j] \in Inside \ {"clean"} /\ "start cc" \in Inside \ {"clean"} /\ "clean" \in Inside
  BY <1>1 DEF Inside
<1>0. 1 \in 1 .. 255
  OBVIOUS
<1>3. ASSUME NEW x \in {j, Torn}, Keep(j, "c", x), Goto(j, "start cc"), UNCHANGED status
      PROVE  IInv'
  <2>1. pc'[j] = "start cc"
    BY <1>3 DEF Goto, IInv, TypeOK
  <2>2. FilesOf(j) /\ Contents(j)'
    BY <1>1, <1>2, <1>3, <2>1, KeepFacts
  <2> QED BY <1>1, <1>2, <1>3, <2>2, GoOnSafe
<1>4. CASE Leave(j, 1) /\ UNCHANGED dirs
  <2>1. pc'[j] = "clean"
    BY <1>4 DEF Leave, Goto, IInv, TypeOK
  <2>2. FilesOf(j) /\ Contents(j)'
    BY <1>1, <1>2, <1>4, <2>1, SameFiles, SameContents
  <2> QED BY <1>0, <1>1, <1>2, <1>4, <2>2, LeaveSafe
<1>5. CASE Keep(j, "c", Torn) /\ Leave(j, 1)
  <2>1. pc'[j] = "clean"
    BY <1>5 DEF Leave, Goto, IInv, TypeOK
  <2>2. FilesOf(j) /\ Contents(j)'
    BY <1>1, <1>2, <1>5, <2>1, KeepFacts
  <2> QED BY <1>0, <1>1, <1>2, <1>5, <2>2, LeaveSafe
<1> QED BY <1>3, <1>4, <1>5 DEF WriteSource

\* Steps inside that touch no file.
LEMMA InsideStep ==
    ASSUME IInv, NEW j \in Jobs, pc[j] \in Inside \ {"clean"},
           UNCHANGED <<command, tries, dir, ran, output, dirs>>,
           \/ \E p \in {"building", "start"} : Goto(j, p) /\ UNCHANGED status
           \/ \E s \in 1 .. 255 : Leave(j, s)
    PROVE  IInv'
<1>1. ASSUME NEW p \in {"building", "start"}, Goto(j, p), UNCHANGED status PROVE IInv'
  <2>1. pc'[j] # "running" /\ p \in Inside \ {"clean"}
    BY <1>1 DEF Goto, IInv, TypeOK, Inside
  <2>2. FilesOf(j) /\ Contents(j)'
    BY <2>1, SameFiles, SameContents
  <2> QED BY <1>1, <2>1, <2>2, GoOnSafe
<1>2. ASSUME NEW s \in 1 .. 255, Leave(j, s) PROVE IInv'
  <2>1. pc'[j] # "running"
    BY <1>2 DEF Leave, Goto, IInv, TypeOK
  <2>2. FilesOf(j) /\ Contents(j)'
    BY <2>1, SameFiles, SameContents
  <2> QED BY <1>2, <2>2, LeaveSafe
<1> QED BY <1>1, <1>2

LEMMA StartCompilerSafe == ASSUME IInv, NEW j \in Jobs, StartCompiler(j) PROVE IInv'
<1>1. pc[j] \in Inside \ {"clean"} /\ UNCHANGED <<command, tries, dir, ran, output, dirs>>
  BY DEF StartCompiler, Inside
<1>2. CASE Goto(j, "building") /\ UNCHANGED status
  BY <1>1, <1>2, InsideStep
<1>3. CASE Leave(j, 1)
  BY <1>1, <1>3, InsideStep
<1> QED BY <1>2, <1>3 DEF StartCompiler

LEMMA CompilerEndsSafe == ASSUME IInv, NEW j \in Jobs, CompilerEnds(j) PROVE IInv'
<1>1. pc[j] \in Inside \ {"clean"} /\ UNCHANGED <<command, tries, dir, ran, output>>
  BY DEF CompilerEnds, Inside
<1>2. CASE Build(j) /\ Goto(j, "start") /\ UNCHANGED status
  <2>1. pc'[j] = "start" /\ "start" \in Inside \ {"clean"}
    BY <1>2 DEF Goto, IInv, TypeOK, Inside
  <2>2. dirs[dir[j]].c = j
    BY <1>1, <1>2, JobsAssumption DEF Build, IInv, JobInv, Contents
  <2>3. Keep(j, "exe", j) /\ j # Torn
    BY <1>2, <2>2, JobsAssumption DEF Build
  <2>4. FilesOf(j) /\ Contents(j)'
    BY <1>1, <2>1, <2>3, KeepFacts
  <2> QED BY <1>1, <1>2, <2>1, <2>4, GoOnSafe
<1>3. CASE Goto(j, "start") /\ UNCHANGED <<status, dirs>>
  BY <1>1, <1>3, InsideStep
<1>4. ASSUME NEW r \in Failures, UNCHANGED dirs,
             Leave(j, IF Python(j) THEN 1 ELSE ExitStatus(j, r))
      PROVE  IInv'
  <2>1. r \in Outcomes /\ ~(r.how = "exit" /\ r.n = 0)
    BY DEF Failures
  <2>2. (IF Python(j) THEN 1 ELSE ExitStatus(j, r)) \in 1 .. 255
    BY <2>1, Statuses DEF IInv
  <2> QED BY <1>1, <1>4, <2>2, InsideStep
<1> QED BY <1>2, <1>3, <1>4 DEF CompilerEnds

LEMMA StartProgramSafe == ASSUME IInv, NEW j \in Jobs, StartProgram(j) PROVE IInv'
<1>1. /\ pc[j] = "start" /\ pc[j] \in Inside \ {"clean"} /\ "running" \in Inside \ {"clean"}
      /\ UNCHANGED <<command, tries, dir, ran, output, dirs>>
  BY DEF StartProgram, Inside
<1>2. CASE dirs[dir[j]].exe # Nothing /\ Goto(j, "running") /\ UNCHANGED status
  <2>1. Contents(j)'
    BY <1>1, <1>2 DEF IInv, JobInv, Contents
  <2> QED BY <1>1, <1>2, <2>1, SameFiles, GoOnSafe
<1>3. CASE \E s \in {1, 126, 127} : Leave(j, s)
  BY <1>1, <1>3, InsideStep
<1> QED BY <1>2, <1>3 DEF StartProgram

LEMMA ProgramEndsSafe == ASSUME IInv, NEW j \in Jobs, ProgramEnds(j) PROVE IInv'
<1>1. pc[j] = "running" /\ UNCHANGED <<command, tries, dir, output, dirs>>
  BY DEF ProgramEnds
<1>2. PICK r \in Outcomes : ran' = [ran EXCEPT ![j] = r] /\ Leave(j, ExitStatus(j, r))
  BY DEF ProgramEnds
<1> DEFINE s == ExitStatus(j, r)
<1>3. s \in 0 .. 255 /\ r # NoOutcome
  BY Statuses, SomethingRan DEF IInv
<1>4. pc' = [pc EXCEPT ![j] = "clean"] /\ status' = [status EXCEPT ![j] = s]
  BY <1>2 DEF Leave, Goto, SetStatus
<1>5. JobInv(j) /\ ExitStatus(j, r)' = s
  BY <1>1 DEF IInv, ExitStatus, Python, command
<1> HIDE DEF s
<1>6. /\ pc'[j] = "clean" /\ status'[j] = s /\ ran'[j] = r
      /\ pc' \in [Jobs -> Steps] /\ status' \in [Jobs -> 0 .. 255 \cup {NoStatus}]
      /\ ran' \in [Jobs -> Outcomes \cup {NoOutcome}]
      /\ \A i \in Jobs \ {j} : pc'[i] = pc[i] /\ status'[i] = status[i] /\ ran'[i] = ran[i]
  BY <1>2, <1>3, <1>4 DEF IInv, TypeOK, Steps
<1>7. JobInv(j)'
  <2>1. Holds(j)'
    BY <1>1, <1>5, <1>6 DEF JobInv, Holds, Inside, Outside
  <2>2. Contents(j)'
    BY <1>1, <1>5, <1>6 DEF JobInv, Contents, Inside
  <2>3. Tasked(j)'
    BY <1>1, <1>5, <1>6 DEF JobInv, Tasked, Inside, Outside, command, Given, Refused, Task, Python
  <2>4. s # NoStatus
    BY <1>3 DEF NoStatus
  <2>5. ExitStatus(j, ran[j])' = s
    BY <1>5, <1>6 DEF ExitStatus, Python
  <2>6. Reports(j)'
    BY <1>3, <1>6, <2>4, <2>5 DEF Reports
  <2> QED BY <2>1, <2>2, <2>3, <2>6 DEF JobInv
<1> QED BY <1>1, <1>6, <1>7, SameFiles, Moves DEF IInv, TypeOK

\* Removing its own directory leaves those of others and of strangers.
LEMMA CleanUpSafe == ASSUME IInv, NEW j \in Jobs, CleanUp(j) PROVE IInv'
<1> DEFINE n == dir[j]
<1>1. /\ pc[j] = "clean" /\ UNCHANGED <<command, status, tries, ran, output>>
      /\ dirs' = [dirs EXCEPT ![n] = Absent] /\ dir' = [dir EXCEPT ![j] = NoName]
      /\ pc' = [pc EXCEPT ![j] = "ended"]
  BY DEF CleanUp, Goto
<1>2. JobInv(j)
  BY DEF IInv
<1>3. n \in Names /\ n \notin Strangers /\ (\A i \in Jobs \ {j} : dir[i] # n)
  BY <1>1, <1>2, JobsAssumption DEF JobInv, Holds, Inside
<1>4. TypeOK'
  BY <1>1 DEF IInv, TypeOK, Steps, command
<1>5. /\ pc'[j] = "ended" /\ dir'[j] = NoName /\ dirs'[n] = Absent
      /\ \A i \in Jobs \ {j} : pc'[i] = pc[i] /\ dir'[i] = dir[i]
      /\ \A m \in Names \ {n} : dirs'[m] = dirs[m]
  BY <1>1, <1>3 DEF IInv, TypeOK
<1> HIDE DEF n
<1>6. NothingLeft'
  <2>1. ASSUME NEW m \in Names \ Strangers, dirs'[m] # Absent
        PROVE  \E i \in Jobs : dir'[i] = m /\ pc'[i] # "ended"
    <3>1. m # n
      BY <1>5, <2>1
    <3>2. PICK i \in Jobs : dir[i] = m /\ pc[i] # "ended"
      BY <1>5, <2>1, <3>1 DEF IInv, NothingLeft
    <3>3. i # j
      BY <3>1, <3>2 DEF n
    <3> QED BY <1>5, <3>2, <3>3
  <2>2. \A m \in Strangers : dirs'[m] # Absent
    BY <1>3, <1>5, JobsAssumption DEF IInv, NothingLeft
  <2> QED BY <2>1, <2>2 DEF NothingLeft
<1>7. JobInv(j)'
  <2>1. Holds(j)'
    BY <1>5, JobsAssumption DEF Holds, Inside
  <2>2. Contents(j)'
    BY <1>5 DEF Contents, Inside
  <2>3. Tasked(j)'
    BY <1>1, <1>2, <1>5 DEF JobInv, Tasked, Inside, Outside, command, Given, Refused, Task, Python
  <2>4. Reports(j)'
    <3>1. ran[j] # NoOutcome =>
             ran[j] \in Outcomes /\ status[j] = ExitStatus(j, ran[j])
      BY <1>1, <1>2 DEF JobInv, Reports
    <3>2. status[j] = 0 => ran[j] # NoOutcome
      BY <1>1, <1>2 DEF JobInv, Reports
    <3>3. status[j] = 0 => ran[j].how = "exit" /\ ran[j].n = 0
      BY <3>1, <3>2, Statuses DEF IInv
    <3>4. Task(j) = "run"
      BY <1>1, <1>2 DEF JobInv, Tasked, Inside
    <3>5. status[j] = 0 => Done(j)'
      BY <1>1, <3>3, <3>4 DEF Done, command, Given, Task, Python
    <3> QED BY <1>1, <1>5, <3>1, <3>5 DEF Reports, ExitStatus, Python, command
  <2> QED BY <2>1, <2>2, <2>3, <2>4 DEF JobInv
<1>8. ASSUME NEW i \in Jobs, i # j PROVE JobInv(i)'
  <2>1. JobInv(i)
    BY DEF IInv
  <2>2. Holds(i)'
    <3>1. dir[i] \in Names => dirs'[dir[i]] = dirs[dir[i]]
      BY <1>3, <1>5, <1>8
    <3>2. \A k \in Jobs \ {i} : dir'[k] = dir'[i] => dir'[i] = NoName
      BY <1>5, <1>8, <2>1 DEF JobInv, Holds
    <3> QED BY <1>5, <1>8, <2>1, <3>1, <3>2 DEF JobInv, Holds
  <2>3. Contents(i)'
    <3>1. pc[i] \in Inside => dirs'[dir[i]] = dirs[dir[i]]
      BY <1>3, <1>5, <1>8, <2>1 DEF JobInv, Holds
    <3> QED BY <1>5, <1>8, <2>1, <3>1 DEF JobInv, Contents
  <2>4. Tasked(i)'
    BY <1>1, <1>5, <1>8, <2>1 DEF JobInv, Tasked, command, Given, Refused, Task, Python
  <2>5. Reports(i)'
    BY <1>1, <1>5, <1>8, <2>1 DEF JobInv, Reports, command, Given, Task, Python, ExitStatus, Done
  <2> QED BY <2>2, <2>3, <2>4, <2>5 DEF JobInv
<1> QED BY <1>4, <1>6, <1>7, <1>8 DEF IInv

LEMMA InterruptSafe == ASSUME IInv, NEW j \in Jobs, Interrupt(j) PROVE IInv'
<1>1. pc[j] \in Steps \ {"ended", "killed"} /\ UNCHANGED <<command, tries, dir, ran, output, dirs>>
  BY DEF Interrupt, Gone, IInv, TypeOK
<1>2. CASE dir[j] = NoName /\ Exit(j, 130)
  <2>1. pc[j] \in Outside \ {"ended"}
    BY <1>1, <1>2, JobsAssumption DEF IInv, JobInv, Holds, Steps, Inside, Outside
  <2> QED BY <1>1, <1>2, <2>1, ExitSafe
<1>3. CASE dir[j] # NoName /\ pc[j] # "clean" /\ Leave(j, 130)
  <2>1. pc[j] \in Inside \ {"clean"}
    BY <1>1, <1>3 DEF IInv, JobInv, Holds, Steps, Inside, Outside
  <2> QED BY <1>1, <1>3, <2>1, InsideStep
<1>4. CASE Goto(j, "killed") /\ UNCHANGED status
  BY <1>1, <1>4, KilledSafe
<1> QED BY <1>2, <1>3, <1>4 DEF Interrupt

LEMMA KillSafe == ASSUME IInv, NEW j \in Jobs, Kill(j) PROVE IInv'
BY KilledSafe DEF Kill
--------------------------------------------------------------------------------
LEMMA InitSafe == Init => IInv
<1> SUFFICES ASSUME Init PROVE IInv
  OBVIOUS
<1>1. 0 \in 0 .. MaxTries - 1
  BY OutcomesAssumption
<1>2. TypeOK
  BY <1>1, DirectoriesExist DEF Init, TypeOK, Steps
<1>3. NothingLeft
  BY JobsAssumption, DirectoriesExist DEF Init, NothingLeft
<1>4. ASSUME NEW j \in Jobs PROVE JobInv(j)
  BY JobsAssumption DEF Init, JobInv, Holds, Contents, Tasked, Reports, Inside, Outside
<1> QED BY <1>2, <1>3, <1>4 DEF IInv

LEMMA NextSafe == IInv /\ [Next]_vars => IInv'
<1> SUFFICES ASSUME IInv, [Next]_vars PROVE IInv'
  OBVIOUS
<1>1. CASE UNCHANGED vars
  <2>1. TypeOK' /\ NothingLeft'
    BY <1>1 DEF vars, IInv, TypeOK, NothingLeft
  <2>2. ASSUME NEW j \in Jobs PROVE JobInv(j)'
    <3>1. JobInv(j)
      BY DEF IInv
    <3>2. Holds(j)' /\ Contents(j)'
      BY <1>1, <3>1 DEF vars, JobInv, Holds, Contents
    <3>3. Tasked(j)'
      BY <1>1, <3>1 DEF vars, JobInv, Tasked, Given, Refused, Task, Python
    <3>4. Reports(j)'
      BY <1>1, <3>1 DEF vars, JobInv, Reports, Given, Task, Python, ExitStatus, Done
    <3> QED BY <3>2, <3>3, <3>4 DEF JobInv
  <2> QED BY <2>1, <2>2 DEF IInv
<1>2. ASSUME NEW j \in Jobs, Step(j) PROVE IInv'
  BY <1>2, CheckArgumentsSafe, ReadSourceSafe, EmitSafe, CompileSafe, OpenOutputSafe,
     WriteOutputSafe, MakeDirectorySafe, WriteSourceSafe, StartCompilerSafe,
     CompilerEndsSafe, StartProgramSafe, CleanUpSafe DEF Step
<1> QED BY <1>1, <1>2, ProgramEndsSafe, InterruptSafe, KillSafe DEF Next

\* The invariant holds for any processes, names, options and exit statuses.
THEOREM Invariance == Spec => []IInv
BY InitSafe, NextSafe, PTL DEF Spec

\* TypeOK: every exit status is a byte and the search for a name is bounded.
THEOREM TypeSafety == Spec => []TypeOK
<1>1. IInv => TypeOK
  BY DEF IInv
<1> QED BY <1>1, Invariance, PTL

\* NothingLeft: processes that end by themselves leave no directory behind.
THEOREM NoDirectoryLeft == Spec => []NothingLeft
<1>1. IInv => NothingLeft
  BY DEF IInv
<1> QED BY <1>1, Invariance, PTL

\* OwnProgram: --run only executes what the same process has built.
THEOREM RunsItsOwnProgram == Spec => []OwnProgram
<1>1. IInv => OwnProgram
  <2>1. ASSUME IInv, NEW j \in Jobs, pc[j] = "running"
        PROVE  dirs[dir[j]].exe = j /\ \A i \in Jobs \ {j} : dir[i] # dir[j]
    BY <2>1, JobsAssumption DEF IInv, JobInv, Holds, Contents, Inside
  <2> QED BY <2>1 DEF OwnProgram
<1> QED BY <1>1, Invariance, PTL

\* ZeroMeansDone: the exit status tells whether the task is done.
THEOREM StatusIsTrue == Spec => []ZeroMeansDone
<1>1. IInv => ZeroMeansDone
  <2>1. ASSUME IInv, NEW j \in Jobs, pc[j] = "ended"
        PROVE  /\ status[j] = 0 => Done(j)
               /\ ran[j] # NoOutcome => (status[j] = 0 <=> ran[j].how = "exit" /\ ran[j].n = 0)
    BY <2>1, Statuses DEF IInv, JobInv, Reports
  <2> QED BY <2>1 DEF ZeroMeansDone
<1> QED BY <1>1, Invariance, PTL

\* OutputKept: only a successful compile with -o alone touches the output.
THEOREM OutputsKept == Spec => []OutputKept
<1>1. IInv => OutputKept
  BY DEF IInv, JobInv, Tasked, Task, Refused, Given, OutputKept
<1> QED BY <1>1, Invariance, PTL
--------------------------------------------------------------------------------
(* Nobody goes in circles, which is the part of Ends that is about single     *)
(* steps.                                                                    *)

\* How far a step is from the end.
Ahead(step) ==
    CASE step \in {"ended", "killed"} -> 0
      [] step = "clean" -> 1
      [] step = "running" -> 2
      [] step = "start" -> 3
      [] step = "building" -> 4
      [] step = "start cc" -> 5
      [] step \in {"source", "write"} -> 6
      [] step \in {"make", "open"} -> 7
      [] step = "compile" -> 8
      [] step = "read" -> 9
      [] OTHER -> 10

\* The steps an invocation can still take are at most this many.
StepsLeft(j) == MaxTries * Ahead(pc[j]) + (MaxTries - 1 - tries[j])

\* Every step is one invocation's, which has fewer left afterwards, and none
\* takes more from another.
Descent ==
    [][\E j \in Jobs : /\ StepsLeft(j)' \in Nat /\ StepsLeft(j)' < StepsLeft(j)
                       /\ \A i \in Jobs \ {j} : StepsLeft(i)' = StepsLeft(i)]_vars

Nearer(p, q) == Ahead(p) < Ahead(q)

LEMMA AheadIs == \A p \in Steps : Ahead(p) \in Nat
BY DEF Ahead, Steps

LEMMA Order ==
    /\ \A p \in Steps \ {"ended", "killed"} : Nearer("ended", p) /\ Nearer("killed", p)
    /\ \A p \in Steps \ {"ended", "killed", "clean"} : Nearer("clean", p)
    /\ Nearer("read", "arguments") /\ Nearer("compile", "read")
    /\ Nearer("make", "compile") /\ Nearer("open", "compile") /\ Nearer("write", "open")
    /\ Nearer("source", "make") /\ Nearer("start cc", "source")
    /\ Nearer("building", "start cc") /\ Nearer("start", "building") /\ Nearer("running", "start")
<1>1. Ahead("ended") = 0 /\ Ahead("killed") = 0 /\ Ahead("clean") = 1 /\ Ahead("running") = 2
  BY DEF Ahead
<1>2. Ahead("start") = 3 /\ Ahead("building") = 4 /\ Ahead("start cc") = 5
  BY DEF Ahead
<1>3. Ahead("source") = 6 /\ Ahead("write") = 6 /\ Ahead("make") = 7 /\ Ahead("open") = 7
  BY DEF Ahead
<1>4. Ahead("compile") = 8 /\ Ahead("read") = 9 /\ Ahead("arguments") = 10
  BY DEF Ahead
<1>5. \A p \in Steps \ {"ended", "killed"} : Ahead(p) > 0
  BY DEF Ahead
<1>6. \A p \in Steps \ {"ended", "killed", "clean"} : Ahead(p) \in 2 .. 10
  <2>1. \A n \in {2, 3, 4, 5, 6, 7, 8, 9, 10} : n \in 2 .. 10
    OBVIOUS
  <2> QED BY <1>1, <1>2, <1>3, <1>4, <2>1, Zenon DEF Steps
<1>7. 2 < 3 /\ 3 < 4 /\ 4 < 5 /\ 5 < 6 /\ 6 < 7 /\ 7 < 8 /\ 8 < 9 /\ 9 < 10
  OBVIOUS
<1>8. \A p \in Steps \ {"ended", "killed"} : Nearer("ended", p) /\ Nearer("killed", p)
  BY <1>1, <1>5 DEF Nearer
<1>9. \A p \in Steps \ {"ended", "killed", "clean"} : Nearer("clean", p)
  BY <1>1, <1>6 DEF Nearer
<1> QED BY <1>1, <1>2, <1>3, <1>4, <1>7, <1>8, <1>9, Zenon DEF Nearer

\* A step goes on to a later one, or tries another name.
Onwards(j) ==
    /\ \/ \E p \in Steps : /\ pc' = [pc EXCEPT ![j] = p] /\ Nearer(p, pc[j])
                           /\ tries' = tries
       \/ pc' = pc /\ tries' = [tries EXCEPT ![j] = @ + 1] /\ tries[j] < MaxTries - 1

LEMMA OnwardsDescends ==
    ASSUME TypeOK, NEW j \in Jobs, Onwards(j)
    PROVE  /\ StepsLeft(j)' \in Nat /\ StepsLeft(j)' < StepsLeft(j)
           /\ \A i \in Jobs \ {j} : StepsLeft(i)' = StepsLeft(i)
<1>1. /\ pc \in [Jobs -> Steps] /\ tries \in [Jobs -> 0 .. MaxTries - 1]
      /\ MaxTries \in Nat /\ MaxTries > 0
  BY OutcomesAssumption DEF TypeOK
<1>2. ASSUME NEW p \in Steps, pc' = [pc EXCEPT ![j] = p], Nearer(p, pc[j]), tries' = tries
      PROVE  /\ StepsLeft(j)' \in Nat /\ StepsLeft(j)' < StepsLeft(j)
             /\ \A i \in Jobs \ {j} : StepsLeft(i)' = StepsLeft(i)
  <2> DEFINE a == Ahead(p)
             b == Ahead(pc[j])
             t == MaxTries - 1 - tries[j]
  <2>1. a \in Nat /\ b \in Nat /\ a < b
    BY <1>1, <1>2, AheadIs DEF Nearer
  <2>2. t \in Nat
    BY <1>1
  <2>3. StepsLeft(j)' = MaxTries * a + t /\ StepsLeft(j) = MaxTries * b + t
    BY <1>1, <1>2 DEF StepsLeft
  <2> HIDE DEF a, b, t
  <2>4. MaxTries * a \in Nat /\ MaxTries * a < MaxTries * b
    BY <1>1, <2>1
  <2>5. ASSUME NEW i \in Jobs \ {j} PROVE StepsLeft(i)' = StepsLeft(i)
    BY <1>1, <1>2 DEF StepsLeft
  <2> QED BY <1>1, <2>1, <2>2, <2>3, <2>4, <2>5
<1>3. ASSUME pc' = pc, tries' = [tries EXCEPT ![j] = @ + 1], tries[j] < MaxTries - 1
      PROVE  /\ StepsLeft(j)' \in Nat /\ StepsLeft(j)' < StepsLeft(j)
             /\ \A i \in Jobs \ {j} : StepsLeft(i)' = StepsLeft(i)
  <2> DEFINE b == MaxTries * Ahead(pc[j])
             t == MaxTries - 1 - tries[j]
  <2>0. Ahead(pc[j]) \in Nat
    BY <1>1, AheadIs
  <2>1. b \in Nat
    BY <1>1, <2>0
  <2>2. t \in Nat /\ t > 0 /\ (MaxTries - 1 - tries[j])' = t - 1
    BY <1>1, <1>3
  <2>3. StepsLeft(j)' = b + (t - 1) /\ StepsLeft(j) = b + t
    BY <1>1, <1>3, <2>2 DEF StepsLeft
  <2> HIDE DEF b, t
  <2>5. ASSUME NEW i \in Jobs \ {j} PROVE StepsLeft(i)' = StepsLeft(i)
    BY <1>1, <1>3 DEF StepsLeft
  <2> QED BY <2>1, <2>2, <2>3, <2>5
<1> QED BY <1>2, <1>3 DEF Onwards

\* Going on to a step that is nearer to the end.
LEMMA GoesOnwards ==
    ASSUME TypeOK, NEW j \in Jobs, NEW p \in Steps, Goto(j, p), Nearer(p, pc[j]), tries' = tries
    PROVE  Onwards(j)
BY DEF Goto, Onwards

LEMMA StepOnwards ==
    ASSUME TypeOK, NEW j \in Jobs, Step(j) \/ ProgramEnds(j) \/ Interrupt(j) \/ Kill(j)
    PROVE  Onwards(j)
<1>0. /\ {"arguments", "read", "compile", "open", "write", "make", "source", "start cc",
          "building", "start", "running", "clean", "ended", "killed"} \subseteq Steps
      /\ pc[j] \in Steps
  BY DEF Steps, TypeOK
<1>1. ASSUME CheckArguments(j) PROVE Onwards(j)
  <2>1. tries' = tries /\ \E p \in {"read", "ended"} : Goto(j, p) /\ Nearer(p, pc[j])
    BY <1>1, <1>0, Order DEF CheckArguments, Exit
  <2> QED BY <1>0, <2>1, GoesOnwards
<1>2. ASSUME ReadSource(j) PROVE Onwards(j)
  <2>1. tries' = tries /\ \E p \in {"compile", "ended"} : Goto(j, p) /\ Nearer(p, pc[j])
    BY <1>2, <1>0, Order DEF ReadSource, Exit
  <2> QED BY <1>0, <2>1, GoesOnwards
<1>3. ASSUME Emit(j) PROVE Onwards(j)
  <2>1. tries' = tries /\ \E p \in {"ended"} : Goto(j, p) /\ Nearer(p, pc[j])
    BY <1>3, <1>0, Order DEF Emit, Exit
  <2> QED BY <1>0, <2>1, GoesOnwards
<1>4. ASSUME Compile(j) PROVE Onwards(j)
  <2>1. tries' = tries /\ \E p \in {"make", "open", "ended"} : Goto(j, p) /\ Nearer(p, pc[j])
    BY <1>4, <1>0, Order DEF Compile, Exit
  <2> QED BY <1>0, <2>1, GoesOnwards
<1>5. ASSUME OpenOutput(j) PROVE Onwards(j)
  <2>1. tries' = tries /\ \E p \in {"write", "ended"} : Goto(j, p) /\ Nearer(p, pc[j])
    BY <1>5, <1>0, Order DEF OpenOutput, Exit
  <2> QED BY <1>0, <2>1, GoesOnwards
<1>6. ASSUME WriteOutput(j) PROVE Onwards(j)
  <2>1. tries' = tries /\ \E p \in {"ended"} : Goto(j, p) /\ Nearer(p, pc[j])
    BY <1>6, <1>0, Order DEF WriteOutput, Exit
  <2> QED BY <1>0, <2>1, GoesOnwards
<1>7. ASSUME MakeDirectory(j) PROVE Onwards(j)
  <2>1. CASE tries' = tries /\ (Goto(j, "source") \/ Goto(j, "ended"))
    <3>1. Nearer("source", pc[j]) /\ Nearer("ended", pc[j])
      BY <1>0, <1>7, Order DEF MakeDirectory
    <3> QED BY <1>0, <2>1, <3>1, GoesOnwards
  <2>2. CASE pc' = pc /\ tries' = [tries EXCEPT ![j] = @ + 1] /\ tries[j] < MaxTries - 1
    BY <2>2 DEF Onwards
  <2> QED BY <1>7, <2>1, <2>2 DEF MakeDirectory, Create, NameTaken, Exit
<1>8. ASSUME WriteSource(j) PROVE Onwards(j)
  <2>1. tries' = tries /\ \E p \in {"start cc", "clean"} : Goto(j, p) /\ Nearer(p, pc[j])
    BY <1>8, <1>0, Order DEF WriteSource, Leave
  <2> QED BY <1>0, <2>1, GoesOnwards
<1>9. ASSUME StartCompiler(j) PROVE Onwards(j)
  <2>1. tries' = tries /\ \E p \in {"building", "clean"} : Goto(j, p) /\ Nearer(p, pc[j])
    BY <1>9, <1>0, Order DEF StartCompiler, Leave
  <2> QED BY <1>0, <2>1, GoesOnwards
<1>10. ASSUME CompilerEnds(j) PROVE Onwards(j)
  <2>1. tries' = tries /\ \E p \in {"start", "clean"} : Goto(j, p) /\ Nearer(p, pc[j])
    BY <1>10, <1>0, Order DEF CompilerEnds, Leave
  <2> QED BY <1>0, <2>1, GoesOnwards
<1>11. ASSUME StartProgram(j) PROVE Onwards(j)
  <2>1. tries' = tries /\ \E p \in {"running", "clean"} : Goto(j, p) /\ Nearer(p, pc[j])
    <3>1. tries' = tries /\ pc[j] = "start" /\ (Goto(j, "running") \/ Goto(j, "clean"))
      BY <1>11, Zenon DEF StartProgram, Leave
    <3> QED BY <1>0, <3>1, Order
  <2> QED BY <1>0, <2>1, GoesOnwards
<1>12. ASSUME ProgramEnds(j) PROVE Onwards(j)
  <2>1. tries' = tries /\ \E p \in {"clean"} : Goto(j, p) /\ Nearer(p, pc[j])
    BY <1>12, <1>0, Order DEF ProgramEnds, Leave
  <2> QED BY <1>0, <2>1, GoesOnwards
<1>13. ASSUME CleanUp(j) PROVE Onwards(j)
  <2>1. tries' = tries /\ \E p \in {"ended"} : Goto(j, p) /\ Nearer(p, pc[j])
    BY <1>13, <1>0, Order DEF CleanUp
  <2> QED BY <1>0, <2>1, GoesOnwards
<1>14. ASSUME Kill(j) PROVE Onwards(j)
  <2>1. tries' = tries /\ Goto(j, "killed") /\ pc[j] \notin {"ended", "killed"}
    BY <1>14 DEF Kill, Gone
  <2>2. Nearer("killed", pc[j])
    BY <1>0, <2>1, Order
  <2> QED BY <1>0, <2>1, <2>2, GoesOnwards
<1>15. ASSUME Interrupt(j) PROVE Onwards(j)
  <2>1. /\ tries' = tries /\ pc[j] \notin {"ended", "killed"}
        /\ \/ Goto(j, "ended") \/ Goto(j, "killed")
           \/ Goto(j, "clean") /\ pc[j] # "clean"
    BY <1>15 DEF Interrupt, Gone, Exit, Leave
  <2>2. /\ Nearer("killed", pc[j]) /\ Nearer("ended", pc[j])
        /\ pc[j] # "clean" => Nearer("clean", pc[j])
    BY <1>0, <2>1, Order
  <2> QED BY <1>0, <2>1, <2>2, GoesOnwards
<1> QED BY <1>1, <1>2, <1>3, <1>4, <1>5, <1>6, <1>7, <1>8, <1>9, <1>10, <1>11, <1>12, <1>13, <1>14, <1>15 DEF Step

\* Descent: an invocation takes at most MaxTries * 11 steps, whatever names are
\* taken, whatever fails and whatever the other invocations do; that it does
\* take them is the fairness of Spec.
THEOREM EveryStepDescends == Spec => Descent
<1>1. ASSUME IInv, [Next]_vars
      PROVE  [\E j \in Jobs : /\ StepsLeft(j)' \in Nat /\ StepsLeft(j)' < StepsLeft(j)
                              /\ \A i \in Jobs \ {j} : StepsLeft(i)' = StepsLeft(i)]_vars
  <2>1. TypeOK
    BY <1>1 DEF IInv
  <2>2. CASE Next
    <3>1. PICK j \in Jobs : Step(j) \/ ProgramEnds(j) \/ Interrupt(j) \/ Kill(j)
      BY <2>2 DEF Next
    <3>2. Onwards(j)
      BY <2>1, <3>1, StepOnwards
    <3> QED BY <2>1, <3>2, OnwardsDescends
  <2> QED BY <1>1, <2>2
<1> QED BY <1>1, Invariance, PTL DEF Spec, Descent
================================================================================
