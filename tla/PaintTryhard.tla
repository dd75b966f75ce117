--------------------------- MODULE PaintTryhard ---------------------------
(***************************************************************************)
(* The interpreter of Paint Tryhard: every contract is an employee, a      *)
(* thread that repeats its job whenever it is called; bosses call and wait *)
(* for employees; the interpreter's main loop waits until all threads have *)
(* ended or somebody threw.                                                *)
(*                                                                         *)
(* Instructions that only change a stack, a variable or the picture are    *)
(* one kind here, "WORK".  A ThreadWaiter's reset is one step: what        *)
(* happens inside is the subject of module ThreadWaiter.  The waiter of an *)
(* employee is only used to sleep a millisecond and has no state here.     *)
(* Threads switch at calls, as the interpreter lock of CPython has it.     *)
(***************************************************************************)
EXTENDS Integers, Sequences, Functions

CONSTANTS
  Staff,     \* the employees, in the order of their contracts
  TheBoss,   \* the one whose work kind is THE BOSS
  Subs,      \* for each employee, the employees his contract names
  Programs,  \* for each program, the instructions of each employee's job
  Main       \* the thread that calls interpret()

Employees == Range(Staff)
Threads == Employees \cup {Main}

ASSUME StaffAssumption ==
  /\ TheBoss \in Employees
  /\ Main \notin Employees
  /\ Staff \in Seq(Employees)
  /\ Subs \in [Employees -> Seq(Employees)]

Instructions == ({"TELL", "WAIT"} \X Employees) \cup {<<"WORK">>, <<"THROW">>, <<"CRASH">>}

ASSUME ProgramsAssumption == Programs \subseteq [Employees -> Seq(Instructions)]

\* interpret() starts nobody unless each employee is named by one contract.
ASSUME UsageAssumption ==
  \A d, e \in Employees :
    /\ TheBoss \notin Range(Subs[e])
    /\ Range(Subs[d]) \cap Range(Subs[e]) # {} => d = e

VARIABLES
  job,          \* the program that is run
  at,           \* where each thread is in its loop
  todo,         \* the calls a thread has yet to make before it goes on
  ip,           \* how many instructions of the job have been fetched
  running,      \* Employee.isRunning
  stop,         \* Employee.stop
  doneWaiters,  \* Employee.doneWaiters; a waiter is <<owner, number>>
  told,         \* how many of them the finished employee has reset
  waits,        \* how many waiters an employee has made
  released,     \* the waiters whose semaphore has a permit
  counted,      \* the main thread is counted by the interpreter's waiter
  permits,      \* permits of the interpreter's waiter
  exceptions,   \* whom the recorded exceptions are about
  calls, runs,  \* history: how often a job was started and finished
  due,          \* history: how often it will have been, when the boss's newest wait ends
  hasty         \* history: that wait began while the employee told his waiters

flags == <<running, stop>>
loopVars == <<at, ip, told>>
waiterVars == <<doneWaiters, waits, released>>
mainVars == <<counted, permits>>
owed == <<due, hasty>>
history == <<calls, runs, owed>>
vars == <<job, todo, flags, loopVars, waiterVars, mainVars, exceptions, history>>

----------------------------------------------------------------------------
(* Calls that take several steps, as the sequence of their steps.           *)

Step(what, who) == [what |-> what, who |-> who]

\* Employee.exit
Exit(e) == <<Step("stop", e), Step("releaseAll", e)>>

\* Employee.exit of one after the other
ExitAll(es) == [k \in 1 .. 2 * Len(es) |-> Exit(es[(k + 1) \div 2])[2 - (k % 2)]]

\* Employee.throw
Throw(e) == Exit(e) \o <<Step("record", e), Step("wake", e)>>

\* Employee.call
Call(e) == <<Step("checkIdle", e), Step("checkStaying", e), Step("start", e)>>

\* Employee.waitUntilEmployeeDone
Wait(e) == <<Step("append", e), Step("countIn", e), Step("acquire", e)>>

\* execBossInstruction
BossSteps(instruction) ==
  CASE instruction[1] = "TELL" -> Call(instruction[2])
    [] instruction[1] = "WAIT" -> Wait(instruction[2])
    [] OTHER -> <<>>

\* Employee.execInstruction
Steps(e, instruction) ==
  IF instruction[1] = "THROW" THEN Throw(e) ELSE BossSteps(instruction)

\* All employees have been started and the main thread is about to call the boss.
Init ==
  /\ job \in Programs
  /\ at = [t \in Threads |-> IF t = Main THEN "checkExceptions" ELSE "checkStop"]
  /\ todo = [t \in Threads |-> IF t = Main THEN Call(TheBoss) ELSE <<>>]
  /\ ip = [e \in Employees |-> 0]
  /\ running = [e \in Employees |-> FALSE]
  /\ stop = [e \in Employees |-> FALSE]
  /\ doneWaiters = [e \in Employees |-> <<>>]
  /\ told = [e \in Employees |-> 0]
  /\ waits = [e \in Employees |-> 0]
  /\ released = {}
  /\ counted = FALSE
  /\ permits = 0
  /\ exceptions = {}
  /\ calls = [e \in Employees |-> 0]
  /\ runs = [e \in Employees |-> 0]
  /\ due = [e \in Employees |-> 0]
  /\ hasty = [e \in Employees |-> FALSE]

----------------------------------------------------------------------------
(* The steps of a call.                                                     *)

Doing(t, what, e) == todo[t] # <<>> /\ Head(todo[t]) = Step(what, e)

\* The step is done; the steps "first" come before the rest of the call.
Insert(t, first) == todo' = [todo EXCEPT ![t] = first \o Tail(@)]
Done(t) == Insert(t, <<>>)

\* The waiter's owner is counted, so that a reset adds a permit for him.
IsWaiting(w) ==
  /\ waits[w[1]] = w[2]
  /\ todo[w[1]] # <<>>
  /\ Head(todo[w[1]]).what = "acquire"

ResetWaiters(ws) == released' = released \cup {w \in ws : IsWaiting(w)}

SetStop(t, e) ==
  /\ Doing(t, "stop", e)
  /\ stop' = [stop EXCEPT ![e] = TRUE]
  /\ Done(t)
  /\ UNCHANGED <<job, running, loopVars, waiterVars, mainVars, exceptions, history>>

ReleaseAll(t, e) ==
  /\ Doing(t, "releaseAll", e)
  /\ ResetWaiters(Range(doneWaiters[e]))
  /\ Done(t)
  /\ UNCHANGED <<job, flags, loopVars, doneWaiters, waits, mainVars, exceptions, history>>

Record(t, e) ==
  /\ Doing(t, "record", e)
  /\ exceptions' = exceptions \cup {e}
  /\ Done(t)
  /\ UNCHANGED <<job, flags, loopVars, waiterVars, mainVars, history>>

Wake(t, e) ==
  /\ Doing(t, "wake", e)
  /\ permits' = IF counted THEN permits + 1 ELSE permits
  /\ Done(t)
  /\ UNCHANGED <<job, flags, loopVars, waiterVars, counted, exceptions, history>>

CheckIdle(t, e) ==
  /\ Doing(t, "checkIdle", e)
  /\ Insert(t, IF running[e] THEN Throw(e) ELSE <<>>)
  /\ UNCHANGED <<job, flags, loopVars, waiterVars, mainVars, exceptions, history>>

CheckStaying(t, e) ==
  /\ Doing(t, "checkStaying", e)
  /\ Insert(t, IF stop[e] THEN Throw(e) ELSE <<>>)
  /\ UNCHANGED <<job, flags, loopVars, waiterVars, mainVars, exceptions, history>>

\* throw() only records the exception: the employee is started in any case.
Start(t, e) ==
  /\ Doing(t, "start", e)
  /\ running' = [running EXCEPT ![e] = TRUE]
  /\ calls' = [calls EXCEPT ![e] = @ + 1]
  /\ Done(t)
  /\ UNCHANGED <<job, stop, loopVars, waiterVars, mainVars, exceptions, runs, owed>>

AppendWaiter(b, e) ==
  /\ Doing(b, "append", e)
  /\ waits' = [waits EXCEPT ![b] = @ + 1]
  /\ doneWaiters' = [doneWaiters EXCEPT ![e] = Append(@, <<b, waits[b] + 1>>)]
  /\ due' = [due EXCEPT ![b] = runs[e] + (IF running[e] THEN 1 ELSE 0)]
  /\ hasty' = [hasty EXCEPT ![b] = (at[e] = "notify")]
  /\ Done(b)
  /\ UNCHANGED <<job, flags, loopVars, released, mainVars, exceptions, calls, runs>>

CountIn(b, e) ==
  /\ Doing(b, "countIn", e)
  /\ Done(b)
  /\ UNCHANGED <<job, flags, loopVars, waiterVars, mainVars, exceptions, history>>

Acquire(b, e) ==
  /\ Doing(b, "acquire", e)
  /\ <<b, waits[b]>> \in released
  /\ released' = released \ {<<b, waits[b]>>}
  /\ Done(b)
  /\ UNCHANGED <<job, flags, loopVars, doneWaiters, waits, mainVars, exceptions, history>>

CallStep(t) ==
  \E e \in Employees :
     \/ SetStop(t, e) \/ ReleaseAll(t, e) \/ Record(t, e) \/ Wake(t, e)
     \/ CheckIdle(t, e) \/ CheckStaying(t, e) \/ Start(t, e)

BossStep(b) ==
  \E e \in Employees : AppendWaiter(b, e) \/ CountIn(b, e) \/ Acquire(b, e)

----------------------------------------------------------------------------
(* Employee.run                                                             *)

\* The thread t is at the place in its loop and has no call to finish.
IsAt(t, place) == at[t] = place /\ todo[t] = <<>>
Goto(t, place) == at' = [at EXCEPT ![t] = place]

\* Out of the loop: tell the sub-employees and wake the interpreter.
Leave(e) ==
  /\ Goto(e, "leaving")
  /\ todo' = [todo EXCEPT ![e] = ExitAll(Subs[e]) \o <<Step("wake", e)>>]

\* As if an employee without work never looked at the flag.
CheckStopAtWork(e) ==
  /\ IsAt(e, "checkStop")
  /\ IF stop[e] /\ running[e] THEN Leave(e) ELSE Goto(e, "checkRunning") /\ UNCHANGED todo
  /\ UNCHANGED <<job, flags, ip, told, waiterVars, mainVars, exceptions, history>>

CheckStop(e) ==
  /\ IsAt(e, "checkStop")
  /\ IF stop[e] THEN Leave(e) ELSE Goto(e, "checkRunning") /\ UNCHANGED todo
  /\ UNCHANGED <<job, flags, ip, told, waiterVars, mainVars, exceptions, history>>

Idle(e) ==
  /\ IsAt(e, "checkRunning")
  /\ ~running[e]
  /\ Goto(e, "checkStop")
  /\ UNCHANGED <<job, todo, flags, ip, told, waiterVars, mainVars, exceptions, history>>

AtInstruction(e) == IsAt(e, "checkRunning") /\ running[e] /\ ip[e] < Len(job[e])

Fetched(e) == job[e][ip[e] + 1]

\* As if the waiters were told after every instruction.
ExecuteAndNotify(e) ==
  /\ AtInstruction(e)
  /\ Fetched(e)[1] # "CRASH"
  /\ ip' = [ip EXCEPT ![e] = @ + 1]
  /\ Goto(e, "notify")
  /\ todo' = [todo EXCEPT ![e] = Steps(e, Fetched(e))]
  /\ UNCHANGED <<job, flags, told, waiterVars, mainVars, exceptions, history>>

Execute(e) ==
  /\ AtInstruction(e)
  /\ Fetched(e)[1] # "CRASH"
  /\ ip' = [ip EXCEPT ![e] = @ + 1]
  /\ Goto(e, "checkStop")
  /\ todo' = [todo EXCEPT ![e] = Steps(e, Fetched(e))]
  /\ UNCHANGED <<job, flags, told, waiterVars, mainVars, exceptions, history>>

\* An exception that is not thrown with throw() ends the thread, and tells nobody.
Crash(e) ==
  /\ AtInstruction(e)
  /\ Fetched(e)[1] = "CRASH"
  /\ Goto(e, "dead")
  /\ UNCHANGED <<job, todo, flags, ip, told, waiterVars, mainVars, exceptions, history>>

AtEnd(e) == IsAt(e, "checkRunning") /\ running[e] /\ ip[e] = Len(job[e])

FinishJob(e) ==
  /\ AtEnd(e)
  /\ ip' = [ip EXCEPT ![e] = 0]
  /\ running' = [running EXCEPT ![e] = FALSE]
  /\ told' = [told EXCEPT ![e] = 0]
  /\ runs' = [runs EXCEPT ![e] = @ + 1]
  /\ IF e = TheBoss THEN Leave(e) ELSE Goto(e, "notify") /\ UNCHANGED todo
  /\ UNCHANGED <<job, stop, waiterVars, mainVars, exceptions, calls, owed>>

\* The list may grow while the loop runs over it.
NotifyDone(e) ==
  /\ IsAt(e, "notify")
  /\ told[e] < Len(doneWaiters[e])
  /\ ResetWaiters({doneWaiters[e][told[e] + 1]})
  /\ told' = [told EXCEPT ![e] = @ + 1]
  /\ UNCHANGED <<job, todo, flags, at, ip, doneWaiters, waits, mainVars, exceptions, history>>

\* As if the flag was cleared here, when a boss may have called again.
ForgetWaitersAndStop(e) ==
  /\ IsAt(e, "notify")
  /\ told[e] = Len(doneWaiters[e])
  /\ doneWaiters' = [doneWaiters EXCEPT ![e] = <<>>]
  /\ told' = [told EXCEPT ![e] = 0]
  /\ running' = [running EXCEPT ![e] = FALSE]
  /\ Goto(e, "checkStop")
  /\ UNCHANGED <<job, todo, stop, ip, waits, released, mainVars, exceptions, history>>

ForgetWaiters(e) ==
  /\ IsAt(e, "notify")
  /\ told[e] = Len(doneWaiters[e])
  /\ doneWaiters' = [doneWaiters EXCEPT ![e] = <<>>]
  /\ told' = [told EXCEPT ![e] = 0]
  /\ Goto(e, "checkStop")
  /\ UNCHANGED <<job, todo, flags, ip, waits, released, mainVars, exceptions, history>>

ThreadEnds(e) ==
  /\ IsAt(e, "leaving")
  /\ Goto(e, "dead")
  /\ UNCHANGED <<job, todo, flags, ip, told, waiterVars, mainVars, exceptions, history>>

EmployeeStep(e) ==
  \/ CallStep(e) \/ BossStep(e)
  \/ CheckStop(e) \/ Idle(e) \/ Execute(e) \/ Crash(e)
  \/ FinishJob(e) \/ NotifyDone(e) \/ ForgetWaiters(e) \/ ThreadEnds(e)

----------------------------------------------------------------------------
(* PTInterpreter.interpret                                                  *)

Alive == {e \in Employees : at[e] # "dead"}

\* The error path tells everyone before the verdict.
CheckExceptions ==
  /\ IsAt(Main, "checkExceptions")
  /\ IF exceptions # {}
       THEN Goto(Main, "failing") /\ todo' = [todo EXCEPT ![Main] = ExitAll(Staff)]
       ELSE Goto(Main, "checkAlive") /\ UNCHANGED todo
  /\ UNCHANGED <<job, flags, ip, told, waiterVars, mainVars, exceptions, history>>

CheckAlive ==
  /\ IsAt(Main, "checkAlive")
  /\ Goto(Main, IF Alive = {} THEN "OK" ELSE "wait")
  /\ UNCHANGED <<job, todo, flags, ip, told, waiterVars, mainVars, exceptions, history>>

MainCountsIn ==
  /\ IsAt(Main, "wait")
  /\ counted' = TRUE
  /\ Goto(Main, "acquire")
  /\ UNCHANGED <<job, todo, flags, ip, told, waiterVars, permits, exceptions, history>>

MainAcquires ==
  /\ IsAt(Main, "acquire")
  /\ permits > 0
  /\ permits' = permits - 1
  /\ Goto(Main, "countOut")
  /\ UNCHANGED <<job, todo, flags, ip, told, waiterVars, counted, exceptions, history>>

MainCountsOut ==
  /\ IsAt(Main, "countOut")
  /\ counted' = FALSE
  /\ Goto(Main, "checkExceptions")
  /\ UNCHANGED <<job, todo, flags, ip, told, waiterVars, permits, exceptions, history>>

ReturnError ==
  /\ IsAt(Main, "failing")
  /\ Goto(Main, "ERROR")
  /\ UNCHANGED <<job, todo, flags, ip, told, waiterVars, mainVars, exceptions, history>>

MainStep ==
  \/ CallStep(Main)
  \/ CheckExceptions \/ CheckAlive \/ MainCountsIn \/ MainAcquires \/ MainCountsOut
  \/ ReturnError

Next == MainStep \/ \E e \in Employees : EmployeeStep(e)

\* A thread that can run is run in the end.
Fairness == WF_vars(MainStep) /\ \A e \in Employees : WF_vars(EmployeeStep(e))

Spec == Init /\ [][Next]_vars /\ Fairness

----------------------------------------------------------------------------
(* Properties                                                               *)

Labels == {"checkStop", "checkRunning", "notify", "leaving", "dead", "checkExceptions",
           "checkAlive", "wait", "acquire", "countOut", "failing", "OK", "ERROR"}

StepKinds == {"stop", "releaseAll", "record", "wake", "checkIdle", "checkStaying", "start",
              "append", "countIn", "acquire"}

\* Every variable has its type; the loop over the waiters never runs past the end
\* of the list, and only the newest waiter of a boss who sleeps on it has a permit.
TypeOK ==
  /\ job \in Programs
  /\ at \in [Threads -> Labels]
  /\ todo \in [Threads -> Seq([what : StepKinds, who : Employees])]
  /\ \A t \in Threads : at[t] = "dead" => todo[t] = <<>>
  /\ running \in [Employees -> BOOLEAN] /\ stop \in [Employees -> BOOLEAN]
  /\ ip \in [Employees -> Nat] /\ told \in [Employees -> Nat] /\ waits \in [Employees -> Nat]
  /\ doneWaiters \in [Employees -> Seq(Employees \X (Nat \ {0}))]
  /\ \A e \in Employees :
       /\ ip[e] <= Len(job[e])
       /\ told[e] <= Len(doneWaiters[e])
       /\ \A w \in Range(doneWaiters[e]) : w[2] <= waits[w[1]]
  /\ released \subseteq Employees \X (Nat \ {0})
  /\ \A w \in released : IsWaiting(w)
  /\ counted \in BOOLEAN /\ permits \in Nat
  /\ exceptions \subseteq Employees
  /\ calls \in [Employees -> Nat] /\ runs \in [Employees -> Nat]
  /\ due \in [Employees -> Nat] /\ hasty \in [Employees -> BOOLEAN]

\* An employee is only told to start by the contract that names him, or, the boss,
\* by the main thread.
OwnStaff ==
  \A p \in Programs, e \in Employees :
    \A i \in DOMAIN p[e] : p[e][i][1] = "TELL" => p[e][i][2] \in Range(Subs[e])

Gone(e) == at[e] \in {"leaving", "dead"}

Crashed(e) == at[e] = "dead" /\ ip[e] < Len(job[e]) /\ Fetched(e)[1] = "CRASH"

BossIsGone(e) == \E b \in Employees : e \in Range(Subs[b]) /\ Gone(b)

\* Nobody has thrown or is about to record that he throws.
Calm ==
  /\ exceptions = {}
  /\ \A t \in Threads : \A i \in 1 .. Len(todo[t]) : todo[t][i].what # "record"

\* While nobody has thrown, every call of an employee (line 148) has led to one
\* run of his job, except the last one, for which he still counts as running:
\* neither the clearing of the flag (line 75) nor a call in the middle of the
\* notifications loses or doubles one.  The last one is never served only if his
\* job crashed or he was sent home because his boss went home: nothing else ends
\* the loop of an employee who was called.  It needs OwnStaff: two who call the
\* same employee may both see that he is idle.
NoCallLost ==
  /\ exceptions = {} =>
       \A e \in Employees : calls[e] = runs[e] + (IF running[e] THEN 1 ELSE 0)
  /\ Calm =>
       \A e \in Employees : running[e] /\ Gone(e) => Crashed(e) \/ BossIsGone(e)

WaitsFor(b, e) == todo[b] # <<>> /\ Head(todo[b]) = Step("acquire", e)

LetOut(b, e) == WaitsFor(b, e) /\ <<b, waits[b]>> \in released

\* A boss is let out of waitUntilEmployeeDone only when the run that the employee
\* had been called for when the boss put his waiter into the list is over, were it
\* the second or a later run, or when the employee has been sent home.  A waiter
\* put into the list while the employee tells the waiters of the run before is told
\* with them: that case is excluded by name (hasty).
WaitAfterWork ==
  \A b, e \in Employees : LetOut(b, e) => runs[e] >= due[b] \/ stop[e] \/ hasty[b]

\* "WAIT UNTIL Bob Counter IS DONE", without the exception.  Not kept: the loop of
\* lines 81-82 tells a boss who called again and waits again of the run before.
WaitIsForThisRun ==
  \A b, e \in Employees : LetOut(b, e) => runs[e] >= due[b] \/ stop[e]

Workers == {e \in Employees : Subs[e] = <<>>}

\* An employee without sub-employees who was told to stop, whether at work or
\* without work, ends his thread, and so do all of them once interpret() has
\* returned.
WorkersGoHome ==
  \A e \in Workers : (stop[e] \/ at[Main] \in {"OK", "ERROR"}) ~> at[e] = "dead"

\* "WAIT UNTIL Bob Counter IS DONE": who waits for an employee without work is
\* let out in the end.  Not kept: the employee may have finished before.
WaitEnds ==
  \A b, e \in Employees : (WaitsFor(b, e) /\ ~running[e]) ~> ~WaitsFor(b, e)

\* "Wait for the work to finish": when all threads have ended, interpret()
\* returns.  Not kept: the last thread may wake the main loop too early.
InterpretEnds == (Alive = {}) ~> at[Main] \in {"OK", "ERROR"}
=============================================================================
