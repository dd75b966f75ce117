---------------------------- MODULE ThreadWaiter ----------------------------
(***************************************************************************)
(* threads.ThreadWaiter: a flag, a counter of waiting threads and a        *)
(* semaphore that starts at 0, shared by threads that call wait(),         *)
(* wait(maxTime), release() and reset() in any order.  No lock protects    *)
(* the flag and the counter, so the grain of an action is one read or one  *)
(* write of a shared attribute, or one call of the semaphore (which is     *)
(* atomic: its methods run under its own lock).                            *)
(*                                                                         *)
(* With GIL = TRUE a thread cannot lose the interpreter between two        *)
(* accesses that have no call and no loop between them, as in CPython      *)
(* 3.12, the first version whose grammar accepts the sources.  With        *)
(* GIL = FALSE it can lose it anywhere, which is what the language itself  *)
(* promises and what a free-threaded build does.                           *)
(***************************************************************************)
EXTENDS Integers, FiniteSets

CONSTANTS
  Threads,    \* the threads that share the waiter
  Ops,        \* the methods they call
  MaxCalls    \* bound: calls begun by all the threads together, for each GIL

Waits == {"wait", "timedWait"}

ASSUME ThreadsFinite == IsFiniteSet(Threads)
ASSUME OpsAssumption == Ops \subseteq Waits \cup {"release", "reset"}
ASSUME BoundsAssumption == MaxCalls \in [BOOLEAN -> Nat]

VARIABLES
  GIL,                  \* may a thread be interrupted only at a call?
  canBeWaiting,         \* the gate is closed: wait() blocks
  waitingThreadCount,
  permits,              \* the semaphore's value
  pc,                   \* where each thread is in the method it runs
  op,                   \* the method each thread called last
  reg,                  \* the counter's value each thread loaded last
  result,               \* how the last call of each thread ended
  calls                 \* calls begun so far, for MaxCalls

shared == <<canBeWaiting, waitingThreadCount, permits>>
vars == <<GIL, canBeWaiting, waitingThreadCount, permits, pc, op, reg, result, calls>>

WaitLabels == {"w_check", "w_load", "w_store", "w_acquire", "w_dload", "w_dstore"}
ReleaseLabels == {"r_open", "r_check", "r_arg", "r_permit"}
ResetLabels == {"s_check", "s_skip", "s_shut"}
Labels == {"idle"} \cup WaitLabels \cup ReleaseLabels \cup ResetLabels
Results == {"none", "released", "timedOut", "raised"}

(* Labels reached from the previous one without a call in between. *)
Uninterruptible == {"w_load", "w_store", "w_dstore", "r_check", "r_arg", "s_skip"}

Init ==
  /\ GIL \in BOOLEAN
  /\ canBeWaiting = TRUE
  /\ waitingThreadCount = 0
  /\ permits = 0
  /\ pc = [t \in Threads |-> "idle"]
  /\ op = [t \in Threads |-> "none"]
  /\ reg = [t \in Threads |-> 0]
  /\ result = [t \in Threads |-> "none"]
  /\ calls = 0

-----------------------------------------------------------------------------
Scheduled(t) == GIL => \A u \in Threads \ {t} : pc[u] \notin Uninterruptible

At(t, label) == pc[t] = label /\ Scheduled(t)

Goto(t, label) == pc' = [pc EXCEPT ![t] = label]

Return(t, outcome) ==
  /\ Goto(t, "idle")
  /\ result' = [result EXCEPT ![t] = outcome]

FirstLabel(o) ==
  IF o \in Waits THEN "w_check" ELSE IF o = "release" THEN "r_open" ELSE "s_check"

Call(t, o) ==
  /\ At(t, "idle")
  /\ calls < MaxCalls[GIL]
  /\ calls' = calls + 1
  /\ op' = [op EXCEPT ![t] = o]
  /\ result' = [result EXCEPT ![t] = "none"]
  /\ Goto(t, FirstLabel(o))
  /\ UNCHANGED <<GIL, shared, reg>>

-----------------------------------------------------------------------------
(* wait(maxTime) *)

CheckGate(t) ==
  /\ At(t, "w_check")
  /\ \/ canBeWaiting /\ Goto(t, "w_load") /\ UNCHANGED result
     \/ ~canBeWaiting /\ Return(t, "released")
  /\ UNCHANGED <<shared, op, reg, calls>>

LoadCount(t) ==
  /\ \/ At(t, "w_load") /\ Goto(t, "w_store")
     \/ At(t, "w_dload") /\ Goto(t, "w_dstore")
  /\ reg' = [reg EXCEPT ![t] = waitingThreadCount]
  /\ UNCHANGED <<shared, op, result, calls>>

CountIn(t) ==
  /\ At(t, "w_store")
  /\ waitingThreadCount' = reg[t] + 1
  /\ Goto(t, "w_acquire")
  /\ UNCHANGED <<canBeWaiting, permits, op, reg, result, calls>>

AcquirePermit(t) ==
  /\ At(t, "w_acquire")
  /\ permits > 0
  /\ permits' = permits - 1
  /\ result' = [result EXCEPT ![t] = "released"]
  /\ Goto(t, "w_dload")
  /\ UNCHANGED <<canBeWaiting, waitingThreadCount, op, reg, calls>>

(* As if a wait that times out returned before it counts itself out. *)
TimeOutUncounted(t) ==
  /\ At(t, "w_acquire")
  /\ op[t] = "timedWait"
  /\ permits = 0
  /\ Return(t, "timedOut")
  /\ UNCHANGED <<shared, op, reg, calls>>

(* Semaphore.acquire looks at the clock only while its value is 0. *)
TimeOut(t) ==
  /\ At(t, "w_acquire")
  /\ op[t] = "timedWait"
  /\ permits = 0
  /\ result' = [result EXCEPT ![t] = "timedOut"]
  /\ Goto(t, "w_dload")
  /\ UNCHANGED <<shared, op, reg, calls>>

CountOut(t) ==
  /\ At(t, "w_dstore")
  /\ waitingThreadCount' = reg[t] - 1
  /\ Goto(t, "idle")
  /\ UNCHANGED <<canBeWaiting, permits, op, reg, result, calls>>

-----------------------------------------------------------------------------
(* release(), called by a user or by reset() *)

OpenGate(t) ==
  /\ At(t, "r_open")
  /\ canBeWaiting' = FALSE
  /\ Goto(t, "r_check")
  /\ UNCHANGED <<waitingThreadCount, permits, op, reg, result, calls>>

EndRelease(t) ==
  \/ op[t] = "release" /\ Return(t, "released")
  \/ op[t] = "reset" /\ Goto(t, "s_shut") /\ UNCHANGED result

CheckWaiting(t) ==
  /\ At(t, "r_check")
  /\ \/ waitingThreadCount > 0 /\ Goto(t, "r_arg") /\ UNCHANGED result
     \/ waitingThreadCount <= 0 /\ EndRelease(t)
  /\ UNCHANGED <<shared, op, reg, calls>>

(* The counter is read again for the argument of Semaphore.release. *)
LoadPermits(t) ==
  /\ At(t, "r_arg")
  /\ reg' = [reg EXCEPT ![t] = waitingThreadCount]
  /\ Goto(t, "r_permit")
  /\ UNCHANGED <<shared, op, result, calls>>

(* As if release() woke one thread, like Semaphore.release(). *)
AddOnePermit(t) ==
  /\ At(t, "r_permit")
  /\ reg[t] >= 1
  /\ permits' = permits + 1
  /\ EndRelease(t)
  /\ UNCHANGED <<canBeWaiting, waitingThreadCount, op, reg, calls>>

AddPermits(t) ==
  /\ At(t, "r_permit")
  /\ reg[t] >= 1
  /\ permits' = permits + reg[t]
  /\ EndRelease(t)
  /\ UNCHANGED <<canBeWaiting, waitingThreadCount, op, reg, calls>>

(* Semaphore.release raises ValueError for a count below 1. *)
RaiseValueError(t) ==
  /\ At(t, "r_permit")
  /\ reg[t] < 1
  /\ Return(t, "raised")
  /\ UNCHANGED <<shared, op, reg, calls>>

-----------------------------------------------------------------------------
(* reset() *)

CheckReset(t) ==
  /\ At(t, "s_check")
  /\ Goto(t, IF waitingThreadCount > 0 THEN "r_open" ELSE "s_skip")
  /\ UNCHANGED <<shared, op, reg, result, calls>>

ShutGate(t) ==
  /\ At(t, "s_shut") \/ At(t, "s_skip")
  /\ canBeWaiting' = TRUE
  /\ Return(t, "released")
  /\ UNCHANGED <<waitingThreadCount, permits, op, reg, calls>>

-----------------------------------------------------------------------------
Step(t) ==
  /\ \/ CheckGate(t) \/ LoadCount(t) \/ CountIn(t) \/ CountOut(t)
     \/ AcquirePermit(t) \/ TimeOut(t)
     \/ OpenGate(t) \/ CheckWaiting(t) \/ LoadPermits(t)
     \/ AddPermits(t) \/ RaiseValueError(t)
     \/ CheckReset(t) \/ ShutGate(t)
  /\ UNCHANGED GIL

Next == \E t \in Threads : Step(t) \/ \E o \in Ops : Call(t, o)

Spec == Init /\ [][Next]_vars

(* Every thread that can run is run in the end: the operating system and   *)
(* the interpreter starve none.  No thread has to call anything.           *)
FairSpec == Spec /\ \A t \in Threads : WF_vars(Step(t))
-----------------------------------------------------------------------------
(* Properties *)

Blocked == {t \in Threads : pc[t] = "w_acquire"}
Counted == {t \in Threads : pc[t] \in {"w_acquire", "w_dload", "w_dstore"}}

(* Every variable has its type; the semaphore never goes below 0. *)
TypeOK ==
  /\ GIL \in BOOLEAN
  /\ canBeWaiting \in BOOLEAN
  /\ waitingThreadCount \in Int
  /\ permits \in Nat
  /\ pc \in [Threads -> Labels]
  /\ op \in [Threads -> Ops \cup {"none"}]
  /\ reg \in [Threads -> Int]
  /\ result \in [Threads -> Results]
  /\ calls \in 0..MaxCalls[GIL]

(* Under the interpreter lock the unprotected counter is never wrong: it   *)
(* counts exactly the threads between its increment and its decrement in   *)
(* wait(), whatever other calls run meanwhile, so release() never hands    *)
(* Semaphore.release a count that makes it raise.                          *)
CountExact ==
  GIL => /\ waitingThreadCount = Cardinality(Counted)
         /\ \A t \in Threads : result[t] # "raised"

(* Under the interpreter lock no wake-up is lost: while the gate is open,  *)
(* either a release() has yet to count the waiting threads, or the permits *)
(* in the semaphore, or those with the ones a release() is about to add,   *)
(* are enough for every thread blocked in wait().                          *)
ReleaseCoversBlocked ==
  GIL /\ ~canBeWaiting =>
    \/ Cardinality(Blocked) <= permits
    \/ \E r \in Threads : pc[r] \in {"r_check", "r_arg"}
    \/ \E r \in Threads : /\ pc[r] = "r_permit"
                          /\ Cardinality(Blocked) <= permits + reg[r]

(* Under the interpreter lock a thread blocked at an open gate gets out,   *)
(* unless reset() shuts the gate first.                                    *)
OpenGateLetsOut ==
  \A t \in Threads :
    (GIL /\ pc[t] = "w_acquire" /\ ~canBeWaiting) ~> (pc[t] = "idle" \/ canBeWaiting)

(* ThreadWaiter.release, "Releases all threads that called wait()": a      *)
(* thread that is blocked when the gate opens returns from wait().  Not    *)
(* kept: after reset() a later wait() may take the permit meant for it.    *)
ReleaseReleasesAll ==
  \A t \in Threads : (pc[t] = "w_acquire" /\ ~canBeWaiting) ~> pc[t] = "idle"

(* A waiter that is not reset is a gate that opens once: who is between    *)
(* the check of the flag and the permit is held, and release() opens.      *)
Place(t) ==
  IF pc[t] \in {"w_load", "w_store", "w_acquire"}
    THEN IF op[t] = "timedWait" THEN "heldForTime" ELSE "held"
    ELSE IF op[t] \notin Waits \/ result[t] = "none" THEN "away"
    ELSE IF result[t] = "timedOut" THEN "gaveUp" ELSE "passed"

OneShotGate ==
  INSTANCE Gate WITH
    open <- ~canBeWaiting,
    place <- [t \in Threads |-> Place(t)]

(* Without reset(), and even if a thread may be interrupted anywhere, no   *)
(* wait() returns True before release() opens the gate, only a wait with a *)
(* time limit returns False, and the gate stays open.                      *)
ImplementsGate == OneShotGate!Spec
=============================================================================
