------------------------ MODULE PaintTryhardProofs ------------------------
(***************************************************************************)
(* Proofs about PaintTryhard, for any number of employees and any program: *)
(* type correctness, that a boss is let out of a wait only after the work, *)
(* and that no call of an employee is lost.                                *)
(*                                                                         *)
(* What a thread has yet to do is a sequence of steps, and most of the     *)
(* invariant says which sequences there are.  TodoCases is the lemma all   *)
(* proofs rest on: in any step a thread keeps its sequence, takes the      *)
(* first step of it, inserts a throw() after that, or begins a new one.    *)
(* Waits (the order of the steps, whose list the newest waiter of a boss   *)
(* is in and which run he is owed) is inductive and gives WaitAfterWork;   *)
(* Starts (a thread is about to start one employee at most, and checks him *)
(* before) gives the balance of calls and runs, and SentHome (why who is   *)
(* gone has left, and who may tell whom to stop) the rest of NoCallLost.   *)
(***************************************************************************)
EXTENDS PaintTryhard, SequenceTheorems, TLAPS

CallSteps == [what : StepKinds, who : Employees]

-----------------------------------------------------------------------------
(* The sequences of steps.                                                  *)

LEMMA Staffed ==
  /\ Main \in Threads /\ Main \notin Employees
  /\ Employees \subseteq Threads
  /\ TheBoss \in Employees
  /\ Staff \in Seq(Employees)
  /\ \A e \in Employees : Subs[e] \in Seq(Employees)
BY StaffAssumption DEF Threads

LEMMA ThrowSteps ==
  ASSUME NEW e \in Employees
  PROVE  /\ Throw(e) \in Seq(CallSteps) /\ Len(Throw(e)) = 4
         /\ Throw(e)[1] = Step("stop", e) /\ Throw(e)[2] = Step("releaseAll", e)
         /\ Throw(e)[3] = Step("record", e) /\ Throw(e)[4] = Step("wake", e)
<1>1. /\ Step("stop", e) \in CallSteps /\ Step("releaseAll", e) \in CallSteps
      /\ Step("record", e) \in CallSteps /\ Step("wake", e) \in CallSteps
  BY DEF Step, CallSteps, StepKinds
<1>2. /\ Exit(e) \in Seq(CallSteps) /\ Len(Exit(e)) = 2
      /\ Exit(e)[1] = Step("stop", e) /\ Exit(e)[2] = Step("releaseAll", e)
  BY <1>1 DEF Exit
<1> DEFINE rest == <<Step("record", e), Step("wake", e)>>
<1>3. rest \in Seq(CallSteps) /\ Len(rest) = 2 /\ rest[1] = Step("record", e) /\ rest[2] = Step("wake", e)
  BY <1>1
<1>4. Throw(e) = Exit(e) \o rest
  BY DEF Throw
<1> HIDE DEF rest
<1>5. /\ Exit(e) \o rest \in Seq(CallSteps) /\ Len(Exit(e) \o rest) = Len(Exit(e)) + Len(rest)
      /\ \A i \in 1..(Len(Exit(e)) + Len(rest)) :
           (Exit(e) \o rest)[i] = IF i <= Len(Exit(e)) THEN Exit(e)[i] ELSE rest[i - Len(Exit(e))]
  BY <1>2, <1>3, ConcatProperties
<1>6. QED
  BY <1>2, <1>3, <1>4, <1>5

LEMMA ExitAllSteps ==
  ASSUME NEW es \in Seq(Employees)
  PROVE  /\ ExitAll(es) \in Seq(CallSteps) /\ Len(ExitAll(es)) = 2 * Len(es)
         /\ \A k \in 1..Len(ExitAll(es)) :
              /\ ExitAll(es)[k].what \in {"stop", "releaseAll"}
              /\ ExitAll(es)[k].what = "releaseAll" =>
                   k > 1 /\ ExitAll(es)[k - 1] = Step("stop", ExitAll(es)[k].who)
<1> DEFINE n == 2 * Len(es)
<1>1. n \in Nat
  OBVIOUS
<1>2. ASSUME NEW k \in 1..n
      PROVE  /\ ExitAll(es)[k] \in CallSteps
             /\ k % 2 = 1 => ExitAll(es)[k] = Step("stop", es[(k + 1) \div 2])
             /\ k % 2 = 0 => ExitAll(es)[k] = Step("releaseAll", es[(k + 1) \div 2])
  <2>1. (k + 1) \div 2 \in 1..Len(es)
    OBVIOUS
  <2>2. es[(k + 1) \div 2] \in Employees
    BY <2>1, ElementOfSeq
  <2>3. ExitAll(es)[k] = Exit(es[(k + 1) \div 2])[2 - (k % 2)]
    BY DEF ExitAll
  <2>4. k % 2 \in {0, 1}
    OBVIOUS
  <2>5. QED
    BY <2>2, <2>3, <2>4 DEF Exit, Step, CallSteps, StepKinds
<1>3. ExitAll(es) \in Seq(CallSteps) /\ Len(ExitAll(es)) = n
  <2>1. ExitAll(es) \in [1..n -> CallSteps]
    BY <1>2 DEF ExitAll
  <2>2. QED
    BY <1>1, <2>1
<1>4. ASSUME NEW k \in 1..n
      PROVE  /\ ExitAll(es)[k].what \in {"stop", "releaseAll"}
             /\ ExitAll(es)[k].what = "releaseAll" =>
                  k > 1 /\ ExitAll(es)[k - 1] = Step("stop", ExitAll(es)[k].who)
  <2>1. CASE k % 2 = 1
    <3>1. ExitAll(es)[k] = Step("stop", es[(k + 1) \div 2])
      BY <1>2, <2>1
    <3>2. QED
      BY <3>1 DEF Step
  <2>2. CASE k % 2 = 0
    <3>1. k > 1 /\ k - 1 \in 1..n /\ (k - 1) % 2 = 1 /\ ((k - 1) + 1) \div 2 = (k + 1) \div 2
      BY <2>2
    <3>2. ExitAll(es)[k] = Step("releaseAll", es[(k + 1) \div 2])
      BY <1>2, <2>2
    <3>3. ExitAll(es)[k - 1] = Step("stop", es[(k + 1) \div 2])
      BY <1>2, <3>1
    <3>4. QED
      BY <3>1, <3>2, <3>3 DEF Step
  <2>3. QED
    BY <2>1, <2>2
<1>5. QED
  BY <1>3, <1>4

LEMMA ExitsThem ==
  ASSUME NEW es \in Seq(Employees), NEW k \in 1..Len(ExitAll(es))
  PROVE  ExitAll(es)[k].who \in Range(es)
<1>1. Len(ExitAll(es)) = 2 * Len(es) /\ k \in 1..2 * Len(es)
  BY ExitAllSteps
<1>2. (k + 1) \div 2 \in 1..Len(es) /\ k % 2 \in {0, 1}
  BY <1>1
<1>3. ExitAll(es)[k] = Exit(es[(k + 1) \div 2])[2 - (k % 2)]
  BY <1>1 DEF ExitAll
<1>4. ExitAll(es)[k].who = es[(k + 1) \div 2]
  BY <1>2, <1>3 DEF Exit, Step
<1>5. QED
  BY <1>2, <1>4 DEF Range

(* What taking the first step of a call does to the steps that are left. *)
LEMMA Inserted ==
  ASSUME todo \in [Threads -> Seq(CallSteps)], NEW t \in Threads, todo[t] # <<>>,
         NEW first \in Seq(CallSteps), Insert(t, first)
  PROVE  /\ todo' \in [Threads -> Seq(CallSteps)]
         /\ \A u \in Threads \ {t} : todo'[u] = todo[u]
         /\ Len(todo'[t]) = Len(first) + Len(todo[t]) - 1
         /\ \A i \in 1..Len(todo'[t]) :
              todo'[t][i] = IF i <= Len(first) THEN first[i] ELSE todo[t][i - Len(first) + 1]
<1> DEFINE q == todo[t]
<1>1. q \in Seq(CallSteps) /\ q # <<>>
  OBVIOUS
<1>2. /\ Tail(q) \in Seq(CallSteps) /\ Len(Tail(q)) = Len(q) - 1
      /\ \A i \in 1..Len(Tail(q)) : Tail(q)[i] = q[i + 1]
  BY <1>1, HeadTailProperties
<1>3. todo'[t] = first \o Tail(q) /\ todo' = [todo EXCEPT ![t] = first \o Tail(q)]
  BY DEF Insert
<1>4. /\ first \o Tail(q) \in Seq(CallSteps) /\ Len(first \o Tail(q)) = Len(first) + Len(Tail(q))
      /\ \A i \in 1..(Len(first) + Len(Tail(q))) :
           (first \o Tail(q))[i] = IF i <= Len(first) THEN first[i] ELSE Tail(q)[i - Len(first)]
  BY <1>2, ConcatProperties
<1>5. todo' \in [Threads -> Seq(CallSteps)] /\ \A u \in Threads \ {t} : todo'[u] = todo[u]
  BY <1>3, <1>4
<1>6. Len(q) \in Nat \ {0} /\ Len(first) \in Nat
  BY <1>1
<1> HIDE DEF q
<1>7. Len(todo'[t]) = Len(first) + Len(q) - 1
  BY <1>2, <1>3, <1>4, <1>6
<1>8. ASSUME NEW i \in 1..Len(todo'[t])
      PROVE  todo'[t][i] = IF i <= Len(first) THEN first[i] ELSE q[i - Len(first) + 1]
  <2>1. i \in 1..(Len(first) + Len(Tail(q)))
    BY <1>7, <1>2
  <2>2. CASE i <= Len(first)
    BY <2>1, <2>2, <1>3, <1>4
  <2>3. CASE ~(i <= Len(first))
    <3>1. i - Len(first) \in 1..Len(Tail(q)) /\ (i - Len(first)) + 1 = i - Len(first) + 1
      BY <2>1, <2>3, <1>6, <1>2
    <3>2. QED
      BY <2>1, <2>3, <3>1, <1>2, <1>3, <1>4
  <2>4. QED
    BY <2>2, <2>3
<1>9. QED
  BY <1>5, <1>7, <1>8 DEF q

LEMMA AppendRange ==
  ASSUME NEW s \in Seq(Employees \X (Nat \ {0})), NEW x \in Employees \X (Nat \ {0})
  PROVE  Len(Append(s, x)) = Len(s) + 1 /\ Range(Append(s, x)) \subseteq Range(s) \cup {x}
BY AppendProperties DEF Range

(* What an instruction begins is one of four things. *)
LEMMA BegunSteps ==
  ASSUME NEW e \in Employees, NEW i \in Instructions
  PROVE  \/ Steps(e, i) = <<>>
         \/ Steps(e, i) = Throw(e)
         \/ \E d \in Employees : i = <<"TELL", d>> /\ Steps(e, i) = Call(d)
         \/ \E d \in Employees : Steps(e, i) = Wait(d)
<1>1. CASE i \in {"TELL", "WAIT"} \X Employees
  <2>1. PICK k \in {"TELL", "WAIT"}, d \in Employees : i = <<k, d>>
    BY <1>1
  <2>2. i[1] = k /\ i[2] = d
    BY <2>1
  <2>3. QED
    BY <2>1, <2>2 DEF Steps, BossSteps
<1>2. CASE i \in {<<"WORK">>, <<"THROW">>, <<"CRASH">>}
  <2>1. i[1] \in {"WORK", "THROW", "CRASH"}
    BY <1>2
  <2>2. QED
    BY <2>1 DEF Steps, BossSteps
<1>3. QED
  BY <1>1, <1>2 DEF Instructions

LEMMA CallAndWaitSteps ==
  ASSUME NEW d \in Employees
  PROVE  Call(d) \in Seq(CallSteps) /\ Wait(d) \in Seq(CallSteps)
<1>1. \A k \in StepKinds : Step(k, d) \in CallSteps
  BY DEF Step, CallSteps
<1>2. {"checkIdle", "checkStaying", "start", "append", "countIn", "acquire"} \subseteq StepKinds
  BY DEF StepKinds
<1>3. QED
  BY <1>1, <1>2 DEF Call, Wait

LEMMA StepsTyped ==
  ASSUME NEW e \in Employees, NEW i \in Instructions
  PROVE  Steps(e, i) \in Seq(CallSteps)
<1>1. <<>> \in Seq(CallSteps)
  OBVIOUS
<1>2. QED
  BY <1>1, BegunSteps, ThrowSteps, CallAndWaitSteps

LEMMA LeavingSteps ==
  ASSUME NEW e \in Employees, NEW es \in Seq(Employees)
  PROVE  /\ ExitAll(es) \o <<Step("wake", e)>> \in Seq(CallSteps)
         /\ LET q == ExitAll(es) \o <<Step("wake", e)>>
            IN  \A k \in 1..Len(q) :
                  /\ q[k].what \in {"stop", "releaseAll", "wake"}
                  /\ q[k].what = "releaseAll" => k > 1 /\ q[k - 1] = Step("stop", q[k].who)
<1> DEFINE q == ExitAll(es)
           last == <<Step("wake", e)>>
<1>1. \A k \in 1..Len(q) :
         /\ q[k].what \in {"stop", "releaseAll"}
         /\ q[k].what = "releaseAll" => k > 1 /\ q[k - 1] = Step("stop", q[k].who)
  BY ExitAllSteps
<1>2. Len(last) = 1 /\ last[1].what = "wake"
  BY DEF Step
<1>3. q \in Seq(CallSteps)
  BY ExitAllSteps
<1>4. last \in Seq(CallSteps)
  BY DEF Step, CallSteps, StepKinds
<1> HIDE DEF q, last
<1>5. /\ q \o last \in Seq(CallSteps) /\ Len(q \o last) = Len(q) + Len(last)
      /\ \A k \in 1..(Len(q) + Len(last)) : (q \o last)[k] = IF k <= Len(q) THEN q[k] ELSE last[k - Len(q)]
  BY <1>3, <1>4, ConcatProperties
<1>6. Len(q) \in Nat
  BY <1>3
<1>7. ASSUME NEW k \in 1..Len(q \o last)
      PROVE  /\ (q \o last)[k].what \in {"stop", "releaseAll", "wake"}
             /\ (q \o last)[k].what = "releaseAll" =>
                  k > 1 /\ (q \o last)[k - 1] = Step("stop", (q \o last)[k].who)
  <2>1. CASE k <= Len(q)
    <3>1. k \in 1..Len(q) /\ (q \o last)[k] = q[k]
      BY <1>2, <1>5, <1>6, <2>1
    <3>2. k > 1 => (q \o last)[k - 1] = q[k - 1]
      BY <1>2, <1>5, <1>6, <2>1
    <3>3. QED
      BY <1>1, <3>1, <3>2
  <2>2. CASE ~(k <= Len(q))
    <3>1. (q \o last)[k] = last[1]
      BY <1>2, <1>5, <1>6, <2>2
    <3>2. QED
      BY <1>2, <3>1
  <2>3. QED
    BY <2>1, <2>2
<1>8. QED
  BY <1>5, <1>7 DEF q, last

LEMMA LeavingStops ==
  ASSUME NEW e \in Employees, NEW es \in Seq(Employees)
  PROVE  LET q == ExitAll(es) \o <<Step("wake", e)>>
         IN  \A k \in 1..Len(q) : q[k].what # "record" /\ (q[k].what = "stop" => q[k].who \in Range(es))
<1> DEFINE q == ExitAll(es)
           last == <<Step("wake", e)>>
<1>1. \A k \in 1..Len(q) : q[k].who \in Range(es) /\ q[k].what # "record"
  BY ExitsThem, ExitAllSteps
<1>2. Len(last) = 1 /\ last[1].what = "wake"
  BY DEF Step
<1>3. q \in Seq(CallSteps)
  BY ExitAllSteps
<1>4. last \in Seq(CallSteps)
  BY DEF Step, CallSteps, StepKinds
<1> HIDE DEF q, last
<1>5. /\ Len(q \o last) = Len(q) + Len(last) /\ Len(q) \in Nat
      /\ \A k \in 1..(Len(q) + Len(last)) : (q \o last)[k] = IF k <= Len(q) THEN q[k] ELSE last[k - Len(q)]
  BY <1>3, <1>4, ConcatProperties
<1>6. ASSUME NEW k \in 1..Len(q \o last)
      PROVE  /\ (q \o last)[k].what # "record"
             /\ (q \o last)[k].what = "stop" => (q \o last)[k].who \in Range(es)
  <2>1. CASE k <= Len(q)
    <3>1. k \in 1..Len(q) /\ (q \o last)[k] = q[k]
      BY <1>2, <1>5, <2>1
    <3>2. QED
      BY <1>1, <3>1
  <2>2. CASE ~(k <= Len(q))
    <3>1. (q \o last)[k] = last[1]
      BY <1>2, <1>5, <2>2
    <3>2. QED
      BY <1>2, <3>1
  <2>3. QED
    BY <2>1, <2>2
<1>7. QED
  BY <1>6 DEF q, last

-----------------------------------------------------------------------------
(* Type correctness, in four parts.                                         *)

TodoOK ==
  /\ todo \in [Threads -> Seq(CallSteps)]
  /\ \A t \in Threads : at[t] = "dead" => todo[t] = <<>>

DataOK ==
  /\ job \in Programs
  /\ at \in [Threads -> Labels]
  /\ running \in [Employees -> BOOLEAN] /\ stop \in [Employees -> BOOLEAN]
  /\ ip \in [Employees -> Nat] /\ told \in [Employees -> Nat] /\ waits \in [Employees -> Nat]
  /\ doneWaiters \in [Employees -> Seq(Employees \X (Nat \ {0}))]
  /\ \A e \in Employees :
       /\ ip[e] <= Len(job[e])
       /\ told[e] <= Len(doneWaiters[e])
       /\ \A w \in Range(doneWaiters[e]) : w[2] <= waits[w[1]]
  /\ counted \in BOOLEAN /\ permits \in Nat
  /\ exceptions \subseteq Employees
  /\ calls \in [Employees -> Nat] /\ runs \in [Employees -> Nat]

PermitsOK ==
  /\ released \subseteq Employees \X (Nat \ {0})
  /\ \A w \in released : IsWaiting(w)

OwedOK == due \in [Employees -> Nat] /\ hasty \in [Employees -> BOOLEAN]

LEMMA TypeParts == TypeOK <=> TodoOK /\ DataOK /\ PermitsOK /\ OwedOK
BY DEF TypeOK, TodoOK, DataOK, PermitsOK, OwedOK, CallSteps

LEMMA TypePartsNext == TypeOK' <=> TodoOK' /\ DataOK' /\ PermitsOK' /\ OwedOK'
BY DEF TypeOK, TodoOK, DataOK, PermitsOK, OwedOK, CallSteps

LEMMA JobTyped ==
  ASSUME DataOK, NEW e \in Employees
  PROVE  job[e] \in Seq(Instructions)
BY ProgramsAssumption DEF DataOK

LEMMA FetchedTyped ==
  ASSUME DataOK, NEW e \in Employees, AtInstruction(e)
  PROVE  Fetched(e) \in Instructions /\ ip[e] + 1 \in 1..Len(job[e])
<1>1. job[e] \in Seq(Instructions) /\ ip[e] \in Nat
  BY JobTyped DEF DataOK
<1>2. ip[e] + 1 \in 1..Len(job[e])
  BY <1>1 DEF AtInstruction
<1>3. QED
  BY <1>1, <1>2, ElementOfSeq DEF Fetched

LEMMA FirstStep ==
  ASSUME TodoOK, NEW t \in Threads, NEW what, NEW e, Doing(t, what, e)
  PROVE  /\ todo[t] \in Seq(CallSteps) /\ todo[t] # <<>>
         /\ Len(todo[t]) \in Nat \ {0} /\ 1 \in DOMAIN todo[t]
         /\ todo[t][1] = Step(what, e)
         /\ Head(todo[t]).what = what /\ Head(todo[t]).who = e
         /\ at[t] # "dead"
<1>1. todo[t] \in Seq(CallSteps) /\ todo[t] # <<>> /\ at[t] # "dead"
  BY DEF TodoOK, Doing
<1>2. Head(todo[t]) = Step(what, e)
  BY DEF Doing
<1>3. Head(todo[t]) = todo[t][1] /\ Len(todo[t]) \in Nat \ {0} /\ DOMAIN todo[t] = 1..Len(todo[t])
  BY <1>1
<1>4. QED
  BY <1>1, <1>2, <1>3 DEF Step

LEMMA TodoKept ==
  ASSUME TodoOK, NEW t \in Threads, todo[t] # <<>>, UNCHANGED at,
         NEW first \in Seq(CallSteps), Insert(t, first)
  PROVE  TodoOK'
<1>1. todo' \in [Threads -> Seq(CallSteps)] /\ \A u \in Threads \ {t} : todo'[u] = todo[u]
  BY Inserted DEF TodoOK
<1>2. QED
  BY <1>1 DEF TodoOK

LEMMA TodoBegun ==
  ASSUME TodoOK, NEW t \in Threads, todo[t] = <<>>, NEW first \in Seq(CallSteps),
         todo' = [todo EXCEPT ![t] = first], NEW place, Goto(t, place), place # "dead",
         at \in [Threads -> Labels]
  PROVE  TodoOK' /\ \A u \in Threads \ {t} : todo'[u] = todo[u]
BY DEF TodoOK, Goto

LEMMA TodoUntouched ==
  ASSUME TodoOK, UNCHANGED todo, NEW t \in Threads, todo[t] = <<>>, NEW place, Goto(t, place),
         at \in [Threads -> Labels]
  PROVE  TodoOK'
BY DEF TodoOK, Goto

LEMMA PermitsKept ==
  ASSUME NEW t \in Threads,
         \A u \in Threads \ {t} : todo'[u] = todo[u],
         \A u \in Employees \ {t} : waits'[u] = waits[u],
         released' \subseteq Employees \X (Nat \ {0}),
         \A w \in released' : IsWaiting(w) /\ w[1] # t
  PROVE  PermitsOK'
<1>1. ASSUME NEW w \in released'
      PROVE  IsWaiting(w)'
  <2>1. w[1] \in Employees /\ w[1] # t /\ IsWaiting(w)
    OBVIOUS
  <2>2. w[1] \in Threads
    BY <2>1, Staffed
  <2>3. QED
    BY <2>1, <2>2 DEF IsWaiting
<1>2. QED
  BY <1>1 DEF PermitsOK

(* Who does not sleep has no permit. *)
LEMMA NoPermit ==
  ASSUME PermitsOK, NEW t, todo[t] = <<>> \/ Head(todo[t]).what # "acquire"
  PROVE  \A w \in released : w[1] # t
BY DEF PermitsOK, IsWaiting

LEMMA PermitsReset ==
  ASSUME PermitsOK, NEW ws, ws \subseteq Employees \X (Nat \ {0}), ResetWaiters(ws)
  PROVE  /\ released' \subseteq Employees \X (Nat \ {0})
         /\ \A w \in released' : IsWaiting(w)
BY DEF PermitsOK, ResetWaiters

LEMMA CallKept ==
  ASSUME TodoOK, PermitsOK, NEW t \in Threads, NEW what, NEW e, Doing(t, what, e), what # "acquire",
         NEW first \in Seq(CallSteps), Insert(t, first), UNCHANGED <<at, released>>,
         \A u \in Employees \ {t} : waits'[u] = waits[u]
  PROVE  TodoOK' /\ PermitsOK'
<1>1. todo[t] # <<>> /\ Head(todo[t]).what # "acquire"
  BY FirstStep
<1>2. TodoOK'
  BY <1>1, TodoKept
<1>3. \A u \in Threads \ {t} : todo'[u] = todo[u]
  BY <1>1, Inserted DEF TodoOK
<1>4. \A w \in released' : IsWaiting(w) /\ w[1] # t
  BY <1>1, NoPermit DEF PermitsOK
<1>5. released' \subseteq Employees \X (Nat \ {0})
  BY DEF PermitsOK
<1>6. QED
  BY <1>2, <1>3, <1>4, <1>5, PermitsKept

LEMMA NothingFirst == <<>> \in Seq(CallSteps)
OBVIOUS

LEMMA CallStepTyped ==
  ASSUME TodoOK, DataOK, PermitsOK, NEW t \in Threads, CallStep(t)
  PROVE  TodoOK' /\ DataOK' /\ PermitsOK'
<1>1. PICK e \in Employees :
        \/ SetStop(t, e) \/ ReleaseAll(t, e) \/ Record(t, e) \/ Wake(t, e)
        \/ CheckIdle(t, e) \/ CheckStaying(t, e) \/ Start(t, e)
  BY DEF CallStep
<1>2. CASE SetStop(t, e)
  <2>1. Doing(t, "stop", e) /\ Insert(t, <<>>) /\ UNCHANGED <<at, released, waits>>
    BY <1>2 DEF SetStop, Done, loopVars, waiterVars
  <2>2. TodoOK' /\ PermitsOK'
    BY <2>1, CallKept, NothingFirst
  <2>3. DataOK'
    BY <1>2 DEF DataOK, SetStop, loopVars, waiterVars, mainVars, history
  <2>4. QED
    BY <2>2, <2>3
<1>3. CASE ReleaseAll(t, e)
  <2>1. Doing(t, "releaseAll", e) /\ Insert(t, <<>>) /\ UNCHANGED <<at, waits>>
    BY <1>3 DEF ReleaseAll, Done, loopVars
  <2>2. todo[t] # <<>> /\ Head(todo[t]).what # "acquire"
    BY <2>1, FirstStep
  <2>3. TodoOK' /\ \A u \in Threads \ {t} : todo'[u] = todo[u]
    BY <2>1, <2>2, TodoKept, Inserted, NothingFirst DEF TodoOK
  <2>4. Range(doneWaiters[e]) \subseteq Employees \X (Nat \ {0})
    BY DEF DataOK, Range
  <2>5. /\ released' \subseteq Employees \X (Nat \ {0})
        /\ \A w \in released' : IsWaiting(w)
    BY <1>3, <2>4, PermitsReset DEF ReleaseAll
  <2>6. \A w \in released' : IsWaiting(w) /\ w[1] # t
    BY <2>2, <2>5 DEF IsWaiting
  <2>7. PermitsOK'
    BY <2>1, <2>3, <2>5, <2>6, PermitsKept
  <2>8. DataOK'
    BY <1>3 DEF DataOK, ReleaseAll, flags, loopVars, mainVars, history
  <2>9. QED
    BY <2>3, <2>7, <2>8
<1>4. CASE Record(t, e)
  <2>1. Doing(t, "record", e) /\ Insert(t, <<>>) /\ UNCHANGED <<at, released, waits>>
    BY <1>4 DEF Record, Done, loopVars, waiterVars
  <2>2. TodoOK' /\ PermitsOK'
    BY <2>1, CallKept, NothingFirst
  <2>3. DataOK'
    BY <1>4 DEF DataOK, Record, flags, loopVars, waiterVars, mainVars, history
  <2>4. QED
    BY <2>2, <2>3
<1>5. CASE Wake(t, e)
  <2>1. Doing(t, "wake", e) /\ Insert(t, <<>>) /\ UNCHANGED <<at, released, waits>>
    BY <1>5 DEF Wake, Done, loopVars, waiterVars
  <2>2. TodoOK' /\ PermitsOK'
    BY <2>1, CallKept, NothingFirst
  <2>3. permits' \in Nat
    BY <1>5 DEF DataOK, Wake
  <2>4. /\ UNCHANGED <<job, running, stop, at, ip, told, doneWaiters, waits, counted, exceptions>>
        /\ UNCHANGED <<calls, runs>>
    BY <1>5 DEF Wake, flags, loopVars, waiterVars, history
  <2>5. DataOK'
    BY <2>3, <2>4 DEF DataOK
  <2>6. QED
    BY <2>2, <2>5
<1>6. CASE CheckIdle(t, e)
  <2>1. /\ Doing(t, "checkIdle", e) /\ Insert(t, IF running[e] THEN Throw(e) ELSE <<>>)
        /\ UNCHANGED <<at, released, waits>>
    BY <1>6 DEF CheckIdle, loopVars, waiterVars
  <2>2. TodoOK' /\ PermitsOK'
    BY <2>1, CallKept, NothingFirst, ThrowSteps
  <2>3. DataOK'
    BY <1>6 DEF DataOK, CheckIdle, flags, loopVars, waiterVars, mainVars, history
  <2>4. QED
    BY <2>2, <2>3
<1>7. CASE CheckStaying(t, e)
  <2>1. /\ Doing(t, "checkStaying", e) /\ Insert(t, IF stop[e] THEN Throw(e) ELSE <<>>)
        /\ UNCHANGED <<at, released, waits>>
    BY <1>7 DEF CheckStaying, loopVars, waiterVars
  <2>2. TodoOK' /\ PermitsOK'
    BY <2>1, CallKept, NothingFirst, ThrowSteps
  <2>3. DataOK'
    BY <1>7 DEF DataOK, CheckStaying, flags, loopVars, waiterVars, mainVars, history
  <2>4. QED
    BY <2>2, <2>3
<1>8. CASE Start(t, e)
  <2>1. Doing(t, "start", e) /\ Insert(t, <<>>) /\ UNCHANGED <<at, released, waits>>
    BY <1>8 DEF Start, Done, loopVars, waiterVars
  <2>2. TodoOK' /\ PermitsOK'
    BY <2>1, CallKept, NothingFirst
  <2>3. running' \in [Employees -> BOOLEAN]
    BY <1>8 DEF DataOK, Start
  <2>4. calls' \in [Employees -> Nat]
    BY <1>8 DEF DataOK, Start
  <2>5. UNCHANGED <<job, stop, at, ip, told, doneWaiters, waits, counted, permits, exceptions, runs>>
    BY <1>8 DEF Start, loopVars, waiterVars, mainVars
  <2>6. DataOK'
    BY <2>3, <2>4, <2>5 DEF DataOK
  <2>7. QED
    BY <2>2, <2>6
<1>9. QED
  BY <1>1, <1>2, <1>3, <1>4, <1>5, <1>6, <1>7, <1>8

LEMMA BossStepTyped ==
  ASSUME TodoOK, DataOK, PermitsOK, NEW b \in Employees, BossStep(b)
  PROVE  TodoOK' /\ DataOK' /\ PermitsOK'
<1>1. PICK e \in Employees : AppendWaiter(b, e) \/ CountIn(b, e) \/ Acquire(b, e)
  BY DEF BossStep
<1>2. b \in Threads
  BY Staffed
<1>3. CASE AppendWaiter(b, e)
  <2>1. /\ Doing(b, "append", e) /\ Insert(b, <<>>) /\ UNCHANGED <<at, released>>
        /\ waits' = [waits EXCEPT ![b] = @ + 1]
        /\ doneWaiters' = [doneWaiters EXCEPT ![e] = Append(@, <<b, waits[b] + 1>>)]
    BY <1>3 DEF AppendWaiter, Done, loopVars
  <2>2. waits \in [Employees -> Nat]
    BY DEF DataOK
  <2>3. TodoOK' /\ PermitsOK'
    BY <1>2, <2>1, <2>2, CallKept, NothingFirst
  <2>4. waits' \in [Employees -> Nat] /\ \A u \in Employees : waits[u] <= waits'[u]
    BY <2>1, <2>2
  <2>5. doneWaiters' \in [Employees -> Seq(Employees \X (Nat \ {0}))]
    <3>1. <<b, waits[b] + 1>> \in Employees \X (Nat \ {0})
      BY <2>2
    <3>2. doneWaiters \in [Employees -> Seq(Employees \X (Nat \ {0}))]
      BY DEF DataOK
    <3>3. QED
      BY <2>1, <3>1, <3>2
  <2>6. ASSUME NEW d \in Employees
        PROVE  /\ told[d] <= Len(doneWaiters'[d])
               /\ \A w \in Range(doneWaiters'[d]) : w[2] <= waits'[w[1]]
    <3>1. /\ doneWaiters[d] \in Seq(Employees \X (Nat \ {0})) /\ told[d] \in Nat
          /\ told[d] <= Len(doneWaiters[d])
          /\ \A w \in Range(doneWaiters[d]) : w[2] <= waits[w[1]]
      BY DEF DataOK
    <3>2. CASE d # e
      <4>1. doneWaiters'[d] = doneWaiters[d]
        BY <2>1, <3>2 DEF DataOK
      <4>2. Range(doneWaiters[d]) \subseteq Employees \X (Nat \ {0})
        BY <3>1 DEF Range
      <4>3. QED
        BY <2>2, <2>4, <3>1, <4>1, <4>2
    <3>3. CASE d = e
      <4>1. doneWaiters'[d] = Append(doneWaiters[d], <<b, waits[b] + 1>>)
        BY <2>1, <3>3 DEF DataOK
      <4>2. <<b, waits[b] + 1>> \in Employees \X (Nat \ {0})
        BY <2>2
      <4>3. /\ Len(doneWaiters'[d]) = Len(doneWaiters[d]) + 1
            /\ Range(doneWaiters'[d]) \subseteq Range(doneWaiters[d]) \cup {<<b, waits[b] + 1>>}
        BY <3>1, <4>1, <4>2, AppendRange
      <4>4. Range(doneWaiters[d]) \subseteq Employees \X (Nat \ {0})
        BY <3>1 DEF Range
      <4>5. ASSUME NEW w \in Range(doneWaiters'[d])
            PROVE  w[2] <= waits'[w[1]]
        <5>1. CASE w \in Range(doneWaiters[d])
          BY <2>2, <2>4, <3>1, <4>4, <5>1
        <5>2. CASE w = <<b, waits[b] + 1>>
          BY <2>1, <2>2, <5>2
        <5>3. QED
          BY <4>3, <5>1, <5>2
      <4>6. QED
        BY <3>1, <4>3, <4>5
    <3>4. QED
      BY <3>2, <3>3
  <2>7. DataOK'
    BY <1>3, <2>4, <2>5, <2>6 DEF DataOK, AppendWaiter, flags, loopVars, mainVars, history
  <2>8. QED
    BY <2>3, <2>7
<1>4. CASE CountIn(b, e)
  <2>1. Doing(b, "countIn", e) /\ Insert(b, <<>>) /\ UNCHANGED <<at, released, waits>>
    BY <1>4 DEF CountIn, Done, loopVars, waiterVars
  <2>2. TodoOK' /\ PermitsOK'
    BY <1>2, <2>1, CallKept, NothingFirst
  <2>3. DataOK'
    BY <1>4 DEF DataOK, CountIn, flags, loopVars, waiterVars, mainVars, history
  <2>4. QED
    BY <2>2, <2>3
<1>5. CASE Acquire(b, e)
  <2>1. /\ Doing(b, "acquire", e) /\ Insert(b, <<>>) /\ UNCHANGED <<at, waits>>
        /\ released' = released \ {<<b, waits[b]>>}
    BY <1>5 DEF Acquire, Done, loopVars
  <2>2. todo[b] # <<>>
    BY <1>2, <2>1, FirstStep
  <2>3. TodoOK' /\ \A u \in Threads \ {b} : todo'[u] = todo[u]
    BY <1>2, <2>1, <2>2, TodoKept, Inserted, NothingFirst DEF TodoOK
  <2>4. ASSUME NEW w \in released'
        PROVE  IsWaiting(w) /\ w[1] # b
    <3>1. w \in Employees \X (Nat \ {0}) /\ w # <<b, waits[b]>> /\ IsWaiting(w)
      BY <2>1 DEF PermitsOK
    <3>2. waits[w[1]] = w[2] /\ w = <<w[1], w[2]>>
      BY <3>1 DEF IsWaiting
    <3>3. QED
      BY <3>1, <3>2
  <2>5. released' \subseteq Employees \X (Nat \ {0})
    BY <2>1 DEF PermitsOK
  <2>6. PermitsOK'
    BY <1>2, <2>1, <2>3, <2>4, <2>5, PermitsKept
  <2>7. DataOK'
    BY <1>5 DEF DataOK, Acquire, flags, loopVars, mainVars, history
  <2>8. QED
    BY <2>3, <2>6, <2>7
<1>6. QED
  BY <1>1, <1>3, <1>4, <1>5

(* A step of a loop makes no call, or begins one. *)
LEMMA LoopKept ==
  ASSUME TodoOK, DataOK, PermitsOK, NEW t \in Threads, NEW place, IsAt(t, place),
         NEW next \in Labels, Goto(t, next), UNCHANGED <<todo, waits, released>>
  PROVE  TodoOK' /\ PermitsOK' /\ at' \in [Threads -> Labels]
<1>1. at \in [Threads -> Labels] /\ todo[t] = <<>>
  BY DEF DataOK, IsAt
<1>2. TodoOK' /\ at' \in [Threads -> Labels]
  BY <1>1, TodoUntouched DEF Goto
<1>3. PermitsOK'
  BY DEF PermitsOK, IsWaiting
<1>4. QED
  BY <1>2, <1>3

LEMMA LoopBegun ==
  ASSUME TodoOK, DataOK, PermitsOK, NEW t \in Threads, NEW place, IsAt(t, place),
         NEW next \in Labels \ {"dead"}, Goto(t, next), UNCHANGED <<waits, released>>,
         NEW first \in Seq(CallSteps), todo' = [todo EXCEPT ![t] = first]
  PROVE  TodoOK' /\ PermitsOK' /\ at' \in [Threads -> Labels]
<1>1. at \in [Threads -> Labels] /\ todo[t] = <<>>
  BY DEF DataOK, IsAt
<1>2. TodoOK' /\ \A u \in Threads \ {t} : todo'[u] = todo[u]
  BY <1>1, TodoBegun
<1>3. at' \in [Threads -> Labels]
  BY <1>1 DEF Goto
<1>4. released' \subseteq Employees \X (Nat \ {0}) /\ \A w \in released' : IsWaiting(w) /\ w[1] # t
  BY <1>1, NoPermit DEF PermitsOK
<1>5. QED
  BY <1>2, <1>3, <1>4, PermitsKept

LEMMA DataKept ==
  ASSUME DataOK, at' \in [Threads -> Labels],
         UNCHANGED <<job, flags, ip, told, waits, doneWaiters, mainVars, exceptions, history>>
  PROVE  DataOK'
BY DEF DataOK, flags, mainVars, history

LEMMA LeaveTyped ==
  ASSUME TodoOK, DataOK, PermitsOK, NEW e \in Employees, NEW place, IsAt(e, place), Leave(e),
         UNCHANGED <<waits, released>>
  PROVE  TodoOK' /\ PermitsOK' /\ at' \in [Threads -> Labels]
<1>1. ExitAll(Subs[e]) \o <<Step("wake", e)>> \in Seq(CallSteps)
  BY Staffed, LeavingSteps
<1>2. "leaving" \in Labels \ {"dead"}
  BY DEF Labels
<1>3. e \in Threads
  BY Staffed
<1>4. Goto(e, "leaving") /\ todo' = [todo EXCEPT ![e] = ExitAll(Subs[e]) \o <<Step("wake", e)>>]
  BY DEF Leave
<1>5. QED
  BY <1>1, <1>2, <1>3, <1>4, LoopBegun

LEMMA WorkTyped ==
  ASSUME TodoOK, DataOK, PermitsOK, NEW e \in Employees,
         CheckStop(e) \/ Idle(e) \/ Execute(e) \/ Crash(e) \/ FinishJob(e) \/ ThreadEnds(e)
  PROVE  TodoOK' /\ DataOK' /\ PermitsOK'
<1>1. e \in Threads
  BY Staffed
<1>2. {"checkStop", "checkRunning", "notify", "dead"} \subseteq Labels
  BY DEF Labels
<1>3. CASE CheckStop(e)
  <2>1. /\ IsAt(e, "checkStop") /\ UNCHANGED <<waits, released>>
        /\ Leave(e) \/ (Goto(e, "checkRunning") /\ UNCHANGED todo)
    BY <1>3 DEF CheckStop, waiterVars
  <2>2. TodoOK' /\ PermitsOK' /\ at' \in [Threads -> Labels]
    BY <1>1, <1>2, <2>1, LeaveTyped, LoopKept
  <2>3. DataOK'
    BY <1>3, <2>2, DataKept DEF CheckStop, waiterVars
  <2>4. QED
    BY <2>2, <2>3
<1>4. CASE Idle(e)
  <2>1. /\ IsAt(e, "checkRunning") /\ Goto(e, "checkStop") /\ UNCHANGED <<todo, waits, released>>
    BY <1>4 DEF Idle, waiterVars
  <2>2. TodoOK' /\ PermitsOK' /\ at' \in [Threads -> Labels]
    BY <1>1, <1>2, <2>1, LoopKept
  <2>3. DataOK'
    BY <1>4, <2>2, DataKept DEF Idle, waiterVars
  <2>4. QED
    BY <2>2, <2>3
<1>5. CASE Execute(e)
  <2>1. /\ IsAt(e, "checkRunning") /\ Goto(e, "checkStop") /\ UNCHANGED <<waits, released>>
        /\ todo' = [todo EXCEPT ![e] = Steps(e, Fetched(e))]
    BY <1>5 DEF Execute, AtInstruction, waiterVars
  <2>2. Fetched(e) \in Instructions /\ ip[e] + 1 \in 1..Len(job[e])
    BY <1>5, FetchedTyped DEF Execute
  <2>3. Steps(e, Fetched(e)) \in Seq(CallSteps)
    BY <2>2, StepsTyped
  <2>4. TodoOK' /\ PermitsOK' /\ at' \in [Threads -> Labels]
    BY <1>1, <1>2, <2>1, <2>3, LoopBegun
  <2>5. ip' \in [Employees -> Nat] /\ \A d \in Employees : ip'[d] <= Len(job[d])
    BY <1>5, <2>2, SMTT(20) DEF Execute, DataOK
  <2>6. UNCHANGED <<job, running, stop, told, waits, doneWaiters, counted, permits, exceptions, calls, runs>>
    BY <1>5 DEF Execute, flags, waiterVars, mainVars, history
  <2>7. DataOK'
    BY <2>4, <2>5, <2>6 DEF DataOK
  <2>8. QED
    BY <2>4, <2>7
<1>6. CASE Crash(e)
  <2>1. IsAt(e, "checkRunning") /\ Goto(e, "dead") /\ UNCHANGED <<todo, waits, released>>
    BY <1>6 DEF Crash, AtInstruction, waiterVars
  <2>2. TodoOK' /\ PermitsOK' /\ at' \in [Threads -> Labels]
    BY <1>1, <1>2, <2>1, LoopKept
  <2>3. DataOK'
    BY <1>6, <2>2, DataKept DEF Crash, waiterVars
  <2>4. QED
    BY <2>2, <2>3
<1>7. CASE FinishJob(e)
  <2>1. /\ IsAt(e, "checkRunning") /\ UNCHANGED <<waits, released>>
        /\ Leave(e) \/ (Goto(e, "notify") /\ UNCHANGED todo)
    BY <1>7 DEF FinishJob, AtEnd, waiterVars
  <2>2. TodoOK' /\ PermitsOK' /\ at' \in [Threads -> Labels]
    BY <1>1, <1>2, <2>1, LeaveTyped, LoopKept
  <2>3. /\ ip' \in [Employees -> Nat] /\ told' \in [Employees -> Nat]
        /\ \A d \in Employees : ip'[d] \in {0, ip[d]} /\ told'[d] \in {0, told[d]}
    BY <1>7 DEF FinishJob, DataOK
  <2>4. running' \in [Employees -> BOOLEAN] /\ runs' \in [Employees -> Nat]
    BY <1>7 DEF FinishJob, DataOK
  <2>5. UNCHANGED <<job, stop, waits, doneWaiters, counted, permits, exceptions, calls>>
    BY <1>7 DEF FinishJob, waiterVars, mainVars
  <2>6. \A d \in Employees : 0 <= Len(job[d]) /\ 0 <= Len(doneWaiters[d])
    <3>1. \A d \in Employees : job[d] \in Seq(Instructions)
      BY JobTyped
    <3>2. doneWaiters \in [Employees -> Seq(Employees \X (Nat \ {0}))]
      BY DEF DataOK
    <3>3. QED
      BY <3>1, <3>2
  <2>7. DataOK'
    BY <2>2, <2>3, <2>4, <2>5, <2>6 DEF DataOK
  <2>8. QED
    BY <2>2, <2>7
<1>8. CASE ThreadEnds(e)
  <2>1. IsAt(e, "leaving") /\ Goto(e, "dead") /\ UNCHANGED <<todo, waits, released>>
    BY <1>8 DEF ThreadEnds, waiterVars
  <2>2. TodoOK' /\ PermitsOK' /\ at' \in [Threads -> Labels]
    BY <1>1, <1>2, <2>1, LoopKept
  <2>3. DataOK'
    BY <1>8, <2>2, DataKept DEF ThreadEnds, waiterVars
  <2>4. QED
    BY <2>2, <2>3
<1>9. QED
  BY <1>3, <1>4, <1>5, <1>6, <1>7, <1>8

LEMMA NotifyTyped ==
  ASSUME TodoOK, DataOK, PermitsOK, NEW e \in Employees, NotifyDone(e) \/ ForgetWaiters(e)
  PROVE  TodoOK' /\ DataOK' /\ PermitsOK'
<1>1. e \in Threads /\ "checkStop" \in Labels
  BY Staffed DEF Labels
<1>2. /\ doneWaiters \in [Employees -> Seq(Employees \X (Nat \ {0}))]
      /\ told \in [Employees -> Nat] /\ told[e] <= Len(doneWaiters[e])
  BY DEF DataOK
<1>3. CASE NotifyDone(e)
  <2>1. told[e] + 1 \in 1..Len(doneWaiters[e])
    BY <1>2, <1>3 DEF NotifyDone
  <2>2. {doneWaiters[e][told[e] + 1]} \subseteq Employees \X (Nat \ {0})
    BY <1>2, <2>1, ElementOfSeq
  <2>3. TodoOK'
    BY <1>3 DEF NotifyDone, TodoOK
  <2>4. /\ released' \subseteq Employees \X (Nat \ {0})
        /\ \A w \in released' : IsWaiting(w)
    BY <1>3, <2>2, PermitsReset DEF NotifyDone
  <2>5. PermitsOK'
    BY <1>3, <2>4 DEF NotifyDone, PermitsOK, IsWaiting
  <2>6. told' \in [Employees -> Nat] /\ \A d \in Employees : told'[d] <= Len(doneWaiters[d])
    <3>1. told' = [told EXCEPT ![e] = @ + 1]
      BY <1>3 DEF NotifyDone
    <3>2. told' \in [Employees -> Nat]
      BY <1>2, <3>1
    <3>3. ASSUME NEW d \in Employees
          PROVE  told'[d] <= Len(doneWaiters[d])
      <4>1. CASE d = e
        BY <1>2, <2>1, <3>1, <4>1
      <4>2. CASE d # e
        BY <1>2, <3>1, <4>2 DEF DataOK
      <4>3. QED
        BY <4>1, <4>2
    <3>4. QED
      BY <3>2, <3>3
  <2>7. /\ UNCHANGED <<job, running, stop, at, ip, waits, doneWaiters, counted, permits, exceptions>>
        /\ UNCHANGED <<calls, runs>>
    BY <1>3 DEF NotifyDone, flags, mainVars, history
  <2>8. DataOK'
    BY <2>6, <2>7 DEF DataOK
  <2>9. QED
    BY <2>3, <2>5, <2>8
<1>4. CASE ForgetWaiters(e)
  <2>1. IsAt(e, "notify") /\ Goto(e, "checkStop") /\ UNCHANGED <<todo, waits, released>>
    BY <1>4 DEF ForgetWaiters
  <2>2. TodoOK' /\ PermitsOK' /\ at' \in [Threads -> Labels]
    BY <1>1, <2>1, LoopKept
  <2>3. /\ doneWaiters' \in [Employees -> Seq(Employees \X (Nat \ {0}))]
        /\ told' \in [Employees -> Nat]
        /\ \A d \in Employees \ {e} : doneWaiters'[d] = doneWaiters[d] /\ told'[d] = told[d]
        /\ doneWaiters'[e] = <<>> /\ told'[e] = 0
    BY <1>2, <1>4 DEF ForgetWaiters
  <2>4. Len(<<>>) = 0 /\ Range(<<>>) = {}
    BY DEF Range
  <2>5. UNCHANGED <<job, running, stop, ip, waits, counted, permits, exceptions, calls, runs>>
    BY <1>4 DEF ForgetWaiters, flags, mainVars, history
  <2>6. ASSUME NEW d \in Employees
        PROVE  /\ told'[d] <= Len(doneWaiters'[d])
               /\ \A w \in Range(doneWaiters'[d]) : w[2] <= waits'[w[1]]
    <3>1. CASE d = e
      BY <2>3, <2>4, <3>1
    <3>2. CASE d # e
      BY <2>3, <2>5, <3>2 DEF DataOK
    <3>3. QED
      BY <3>1, <3>2
  <2>7. DataOK'
    BY <2>2, <2>3, <2>5, <2>6 DEF DataOK
  <2>8. QED
    BY <2>2, <2>7
<1>5. QED
  BY <1>3, <1>4

LEMMA MainTyped ==
  ASSUME TodoOK, DataOK, PermitsOK,
         \/ CheckExceptions \/ CheckAlive \/ MainCountsIn \/ MainAcquires \/ MainCountsOut
         \/ ReturnError
  PROVE  TodoOK' /\ DataOK' /\ PermitsOK'
<1>1. Main \in Threads
  BY Staffed
<1>2. {"failing", "checkAlive", "OK", "wait", "acquire", "countOut", "checkExceptions", "ERROR"}
        \subseteq Labels \ {"dead"}
  BY DEF Labels
<1>3. CASE CheckExceptions
  <2>1. /\ IsAt(Main, "checkExceptions") /\ UNCHANGED <<waits, released>>
        /\ \/ Goto(Main, "failing") /\ todo' = [todo EXCEPT ![Main] = ExitAll(Staff)]
           \/ Goto(Main, "checkAlive") /\ UNCHANGED todo
    BY <1>3 DEF CheckExceptions, waiterVars
  <2>2. ExitAll(Staff) \in Seq(CallSteps)
    BY Staffed, ExitAllSteps
  <2>3. TodoOK' /\ PermitsOK' /\ at' \in [Threads -> Labels]
    BY <1>1, <1>2, <2>1, <2>2, LoopBegun, LoopKept
  <2>4. DataOK'
    BY <1>3, <2>3, DataKept DEF CheckExceptions, waiterVars
  <2>5. QED
    BY <2>3, <2>4
<1>4. CASE CheckAlive
  <2>1. /\ IsAt(Main, "checkAlive") /\ UNCHANGED <<todo, waits, released>>
        /\ Goto(Main, "OK") \/ Goto(Main, "wait")
    BY <1>4 DEF CheckAlive, waiterVars
  <2>2. TodoOK' /\ PermitsOK' /\ at' \in [Threads -> Labels]
    BY <1>1, <1>2, <2>1, LoopKept
  <2>3. DataOK'
    BY <1>4, <2>2, DataKept DEF CheckAlive, waiterVars
  <2>4. QED
    BY <2>2, <2>3
<1>5. CASE MainCountsIn
  <2>1. IsAt(Main, "wait") /\ Goto(Main, "acquire") /\ UNCHANGED <<todo, waits, released>>
    BY <1>5 DEF MainCountsIn, waiterVars
  <2>2. TodoOK' /\ PermitsOK' /\ at' \in [Threads -> Labels]
    BY <1>1, <1>2, <2>1, LoopKept
  <2>3. DataOK'
    BY <1>5, <2>2 DEF DataOK, MainCountsIn, flags, waiterVars, history
  <2>4. QED
    BY <2>2, <2>3
<1>6. CASE MainAcquires
  <2>1. IsAt(Main, "acquire") /\ Goto(Main, "countOut") /\ UNCHANGED <<todo, waits, released>>
    BY <1>6 DEF MainAcquires, waiterVars
  <2>2. TodoOK' /\ PermitsOK' /\ at' \in [Threads -> Labels]
    BY <1>1, <1>2, <2>1, LoopKept
  <2>3. permits' \in Nat
    BY <1>6 DEF MainAcquires, DataOK
  <2>4. UNCHANGED <<job, running, stop, ip, told, waits, doneWaiters, counted, exceptions, calls, runs>>
    BY <1>6 DEF MainAcquires, flags, waiterVars, history
  <2>5. DataOK'
    BY <2>2, <2>3, <2>4 DEF DataOK
  <2>6. QED
    BY <2>2, <2>5
<1>7. CASE MainCountsOut
  <2>1. /\ IsAt(Main, "countOut") /\ Goto(Main, "checkExceptions")
        /\ UNCHANGED <<todo, waits, released>>
    BY <1>7 DEF MainCountsOut, waiterVars
  <2>2. TodoOK' /\ PermitsOK' /\ at' \in [Threads -> Labels]
    BY <1>1, <1>2, <2>1, LoopKept
  <2>3. DataOK'
    BY <1>7, <2>2 DEF DataOK, MainCountsOut, flags, waiterVars, history
  <2>4. QED
    BY <2>2, <2>3
<1>8. CASE ReturnError
  <2>1. IsAt(Main, "failing") /\ Goto(Main, "ERROR") /\ UNCHANGED <<todo, waits, released>>
    BY <1>8 DEF ReturnError, waiterVars
  <2>2. TodoOK' /\ PermitsOK' /\ at' \in [Threads -> Labels]
    BY <1>1, <1>2, <2>1, LoopKept
  <2>3. DataOK'
    BY <1>8, <2>2, DataKept DEF ReturnError, waiterVars
  <2>4. QED
    BY <2>2, <2>3
<1>9. QED
  BY <1>3, <1>4, <1>5, <1>6, <1>7, <1>8

LEMMA InitialTypes == Init => TypeOK
<1> SUFFICES ASSUME Init PROVE TypeOK
  OBVIOUS
<1>1. \A t \in Threads : todo[t] \in Seq(CallSteps)
  BY NothingFirst, CallAndWaitSteps, Staffed DEF Init
<1>2. at \in [Threads -> Labels] /\ \A t \in Threads : at[t] # "dead"
  BY DEF Init, Labels
<1>3. TodoOK
  BY <1>1, <1>2 DEF Init, TodoOK
<1>4. \A e \in Employees : job[e] \in Seq(Instructions)
  BY ProgramsAssumption DEF Init
<1>5. doneWaiters \in [Employees -> Seq(Employees \X (Nat \ {0}))]
  BY DEF Init
<1>6. \A e \in Employees : doneWaiters[e] = <<>> /\ Range(doneWaiters[e]) = {} /\ Len(doneWaiters[e]) = 0
  BY DEF Init, Range
<1>7. \A e \in Employees : ip[e] = 0 /\ told[e] = 0 /\ Len(job[e]) \in Nat
  BY <1>4 DEF Init
<1>8. DataOK
  <2>1. /\ running \in [Employees -> BOOLEAN] /\ stop \in [Employees -> BOOLEAN]
        /\ ip \in [Employees -> Nat] /\ told \in [Employees -> Nat] /\ waits \in [Employees -> Nat]
        /\ calls \in [Employees -> Nat] /\ runs \in [Employees -> Nat]
    BY DEF Init
  <2>2. job \in Programs /\ counted \in BOOLEAN /\ permits \in Nat /\ exceptions \subseteq Employees
    BY DEF Init
  <2>3. ASSUME NEW e \in Employees
        PROVE  /\ ip[e] <= Len(job[e]) /\ told[e] <= Len(doneWaiters[e])
               /\ \A w \in Range(doneWaiters[e]) : w[2] <= waits[w[1]]
    <3>1. ip[e] <= Len(job[e])
      BY <1>7
    <3>2. told[e] <= Len(doneWaiters[e])
      BY <1>6, <1>7
    <3>3. Range(doneWaiters[e]) = {}
      BY <1>6
    <3>4. QED
      BY <3>1, <3>2, <3>3
  <2>4. QED
    BY <1>2, <1>5, <2>1, <2>2, <2>3 DEF DataOK
<1>9. PermitsOK
  BY DEF Init, PermitsOK
<1>10. OwedOK
  BY DEF Init, OwedOK
<1>11. QED
  BY <1>3, <1>8, <1>9, <1>10, TypeParts

(* What a boss is owed changes only when he puts a waiter into a list. *)
LEMMA OwedSteps ==
  ASSUME [Next]_vars
  PROVE  UNCHANGED owed \/ \E b, e \in Employees : AppendWaiter(b, e)
<1>1. ASSUME NEW t \in Threads, CallStep(t)
      PROVE  UNCHANGED owed
  BY <1>1 DEF CallStep, SetStop, ReleaseAll, Record, Wake, CheckIdle, CheckStaying, Start, history
<1>2. ASSUME NEW d \in Employees, EmployeeStep(d), ~CallStep(d), \A e \in Employees : ~AppendWaiter(d, e)
      PROVE  UNCHANGED owed
  BY <1>2 DEF EmployeeStep, BossStep, CountIn, Acquire, CheckStop, Idle, Execute, Crash, FinishJob,
              NotifyDone, ForgetWaiters, ThreadEnds, history
<1>3. ASSUME MainStep, ~CallStep(Main)
      PROVE  UNCHANGED owed
  BY <1>3 DEF MainStep, CheckExceptions, CheckAlive, MainCountsIn, MainAcquires, MainCountsOut,
              ReturnError, history
<1>4. CASE UNCHANGED vars
  BY <1>4 DEF vars, history
<1>5. CASE MainStep
  BY <1>1, <1>3, <1>5, Staffed
<1>6. ASSUME NEW d \in Employees, EmployeeStep(d)
      PROVE  UNCHANGED owed \/ \E b, e \in Employees : AppendWaiter(b, e)
  BY <1>1, <1>2, <1>6, Staffed
<1>7. QED
  BY <1>4, <1>5, <1>6 DEF Next

LEMMA OwedKept ==
  ASSUME OwedOK, DataOK, [Next]_vars
  PROVE  OwedOK'
<1>1. CASE UNCHANGED owed
  BY <1>1 DEF OwedOK, owed
<1>2. ASSUME NEW b \in Employees, NEW e \in Employees, AppendWaiter(b, e)
      PROVE  OwedOK'
  <2>1. runs[e] \in Nat
    BY DEF DataOK
  <2>2. runs[e] + (IF running[e] THEN 1 ELSE 0) \in Nat /\ (at[e] = "notify") \in BOOLEAN
    BY <2>1
  <2>3. QED
    BY <1>2, <2>2 DEF AppendWaiter, OwedOK
<1>3. QED
  BY <1>1, <1>2, OwedSteps

LEMMA TypesKept ==
  ASSUME TypeOK, [Next]_vars
  PROVE  TypeOK'
<1>1. TodoOK /\ DataOK /\ PermitsOK
  BY TypeParts
<1>2. TodoOK' /\ DataOK' /\ PermitsOK'
  <2>1. CASE UNCHANGED vars
    BY <1>1, <2>1 DEF vars, flags, loopVars, waiterVars, mainVars, history, TodoOK, DataOK,
                      PermitsOK, IsWaiting
  <2>2. CASE MainStep
    BY <1>1, <2>2, Staffed, CallStepTyped, MainTyped DEF MainStep
  <2>3. ASSUME NEW e \in Employees, EmployeeStep(e)
        PROVE  TodoOK' /\ DataOK' /\ PermitsOK'
    BY <1>1, <2>3, Staffed, CallStepTyped, BossStepTyped, WorkTyped, NotifyTyped DEF EmployeeStep
  <2>4. QED
    BY <2>1, <2>2, <2>3 DEF Next
<1>3. QED
  BY <1>1, <1>2, OwedKept, TypeParts, TypePartsNext

(* Every variable has its type; the loop over the waiters of an employee    *)
(* never runs past the end of the list, which may grow meanwhile; and only  *)
(* the newest waiter of a boss who sleeps on it has a permit (Employee.py,  *)
(* ThreadWaiter.py).                                                        *)
THEOREM TypeCorrect == Spec => []TypeOK
BY InitialTypes, TypesKept, PTL DEF Spec

-----------------------------------------------------------------------------
(* Who waits is let out only after the work.                                *)

CallKinds == StepKinds \ {"append", "countIn", "acquire"}

(* The steps of a wait follow one another and end what a thread has to do;  *)
(* a call is never followed by a wait.                                      *)
InOrder(q) ==
  \A i \in 1..Len(q) :
    /\ q[i].what = "append" => i < Len(q) /\ q[i + 1] = Step("countIn", q[i].who)
    /\ q[i].what = "countIn" => i < Len(q) /\ q[i + 1] = Step("acquire", q[i].who)
    /\ q[i].what = "acquire" => i = Len(q)
    /\ q[i].what \in CallKinds /\ i < Len(q) => q[i + 1].what \in CallKinds

(* An employee's waiters are told only after he was told to stop. *)
StopsFirst(q) ==
  \A i \in 1..Len(q) :
    q[i].what = "releaseAll" => stop[q[i].who] \/ (i > 1 /\ q[i - 1] = Step("stop", q[i].who))

OnNewest(b) == todo[b] # <<>> /\ Head(todo[b]).what \in {"countIn", "acquire"}

(* What a boss waits for is the run that is on, at most; when the employee  *)
(* tells his waiters that run is over, unless the waiter came after it.     *)
Owes(e, b) ==
  /\ due[b] <= runs[e] + 1
  /\ at[e] = "notify" => hasty[b] \/ due[b] <= runs[e]

(* The waiter a boss is about to sleep on is in the list of the one he      *)
(* waits for, and in no other.                                              *)
NewestWaiter ==
  \A e \in Employees : \A w \in Range(doneWaiters[e]) :
    OnNewest(w[1]) /\ w[2] = waits[w[1]] => Head(todo[w[1]]).who = e /\ Owes(e, w[1])

Waits ==
  /\ \A t \in Threads : InOrder(todo[t]) /\ StopsFirst(todo[t])
  /\ NewestWaiter

(* A thread takes the first step of a call, ... *)
TakesStep(t) ==
  \E what \in StepKinds, e \in Employees :
    /\ Doing(t, what, e)
    /\ \/ Insert(t, <<>>) /\ (what = "checkIdle" => ~running[e])
       \/ Insert(t, Throw(e)) /\ what \in {"checkIdle", "checkStaying"}
    /\ what = "stop" => stop'[e]
    /\ what = "record" => exceptions' # {}

(* ... or begins something. *)
Begins(t) ==
  /\ todo[t] = <<>>
  /\ \/ t = Main /\ exceptions # {} /\ todo'[t] = ExitAll(Staff)
     \/ t \in Employees /\ at'[t] = "leaving" /\ todo'[t] = ExitAll(Subs[t]) \o <<Step("wake", t)>>
     \/ t \in Employees /\ \E k \in 1..Len(job[t]) : todo'[t] = Steps(t, job[t][k])

LEMMA CallStepTakes ==
  ASSUME TypeOK, NEW t \in Threads, CallStep(t)
  PROVE  TakesStep(t) /\ \A u \in Threads \ {t} : todo'[u] = todo[u]
<1>1. PICK e \in Employees :
        \/ SetStop(t, e) \/ ReleaseAll(t, e) \/ Record(t, e) \/ Wake(t, e)
        \/ CheckIdle(t, e) \/ CheckStaying(t, e) \/ Start(t, e)
  BY DEF CallStep
<1>2. TodoOK /\ stop \in [Employees -> BOOLEAN] /\ exceptions \subseteq Employees
  BY TypeParts DEF DataOK
<1>3. {"stop", "releaseAll", "record", "wake", "checkIdle", "checkStaying", "start"} \subseteq StepKinds
  BY DEF StepKinds
<1>4. TakesStep(t)
  <2>1. CASE SetStop(t, e)
    BY <1>2, <1>3, <2>1 DEF SetStop, TakesStep, Done
  <2>2. CASE Record(t, e)
    BY <1>2, <1>3, <2>2 DEF Record, TakesStep, Done
  <2>3. CASE ReleaseAll(t, e)
    BY <1>3, <2>3 DEF ReleaseAll, TakesStep, Done
  <2>4. CASE Wake(t, e)
    BY <1>3, <2>4 DEF Wake, TakesStep, Done
  <2>5. CASE Start(t, e)
    BY <1>3, <2>5 DEF Start, TakesStep, Done
  <2>6. CASE CheckIdle(t, e)
    <3>1. CASE running[e]
      BY <1>3, <2>6, <3>1 DEF CheckIdle, TakesStep
    <3>2. CASE ~running[e]
      BY <1>3, <2>6, <3>2 DEF CheckIdle, TakesStep
    <3>3. QED
      BY <3>1, <3>2
  <2>7. CASE CheckStaying(t, e)
    <3>1. CASE stop[e]
      BY <1>3, <2>7, <3>1 DEF CheckStaying, TakesStep
    <3>2. CASE ~stop[e]
      BY <1>3, <2>7, <3>2 DEF CheckStaying, TakesStep
    <3>3. QED
      BY <3>1, <3>2
  <2>8. QED
    BY <1>1, <2>1, <2>2, <2>3, <2>4, <2>5, <2>6, <2>7
<1>5. QED
  BY <1>2, <1>4 DEF TakesStep, Insert, TodoOK

LEMMA BossStepTakes ==
  ASSUME TypeOK, NEW t \in Threads, BossStep(t)
  PROVE  TakesStep(t) /\ \A u \in Threads \ {t} : todo'[u] = todo[u]
<1>1. PICK e \in Employees : AppendWaiter(t, e) \/ CountIn(t, e) \/ Acquire(t, e)
  BY DEF BossStep
<1>2. {"append", "countIn", "acquire"} \subseteq StepKinds
  BY DEF StepKinds
<1>3. TakesStep(t)
  <2>1. CASE AppendWaiter(t, e)
    BY <1>2, <2>1 DEF AppendWaiter, TakesStep, Done
  <2>2. CASE CountIn(t, e)
    BY <1>2, <2>2 DEF CountIn, TakesStep, Done
  <2>3. CASE Acquire(t, e)
    BY <1>2, <2>3 DEF Acquire, TakesStep, Done
  <2>4. QED
    BY <1>1, <2>1, <2>2, <2>3
<1>4. QED
  BY <1>3, TypeParts DEF TakesStep, Insert, TodoOK

LEMMA TodoCases ==
  ASSUME TypeOK, [Next]_vars, NEW t \in Threads
  PROVE  todo'[t] = todo[t] \/ TakesStep(t) \/ Begins(t)
<1>1. TodoOK /\ DataOK
  BY TypeParts
<1>2. CASE UNCHANGED vars
  BY <1>2 DEF vars
<1>3. CASE MainStep
  <2>1. CASE CallStep(Main)
    BY <2>1, CallStepTakes, Staffed
  <2>2. CASE CheckExceptions
    BY <2>2, <1>1 DEF CheckExceptions, IsAt, Begins, TodoOK
  <2>3. CASE CheckAlive \/ MainCountsIn \/ MainAcquires \/ MainCountsOut \/ ReturnError
    BY <2>3 DEF CheckAlive, MainCountsIn, MainAcquires, MainCountsOut, ReturnError
  <2>4. QED
    BY <1>3, <2>1, <2>2, <2>3 DEF MainStep
<1>4. ASSUME NEW e \in Employees, EmployeeStep(e)
      PROVE  todo'[t] = todo[t] \/ TakesStep(t) \/ Begins(t)
  <2>1. e \in Threads
    BY Staffed
  <2>2. CASE CallStep(e) \/ BossStep(e)
    BY <2>1, <2>2, CallStepTakes, BossStepTakes
  <2>3. ASSUME todo[e] = <<>>, Leave(e)
        PROVE  todo'[t] = todo[t] \/ Begins(t)
    BY <1>1, <2>1, <2>3 DEF Leave, Goto, Begins, TodoOK, DataOK
  <2>4. CASE CheckStop(e) \/ FinishJob(e)
    BY <2>3, <2>4 DEF CheckStop, FinishJob, AtEnd, IsAt
  <2>5. CASE Execute(e)
    <3>1. ip[e] + 1 \in 1..Len(job[e]) /\ todo[e] = <<>>
      BY <1>1, <2>5, FetchedTyped DEF Execute, AtInstruction, IsAt
    <3>2. todo' = [todo EXCEPT ![e] = Steps(e, job[e][ip[e] + 1])]
      BY <2>5 DEF Execute, Fetched
    <3>3. QED
      BY <1>1, <2>1, <3>1, <3>2 DEF Begins, TodoOK
  <2>6. CASE Idle(e) \/ Crash(e) \/ NotifyDone(e) \/ ForgetWaiters(e) \/ ThreadEnds(e)
    BY <2>6 DEF Idle, Crash, NotifyDone, ForgetWaiters, ThreadEnds
  <2>7. QED
    BY <1>4, <2>2, <2>4, <2>5, <2>6 DEF EmployeeStep
<1>5. QED
  BY <1>2, <1>3, <1>4 DEF Next

LEMMA TookFirst ==
  ASSUME TodoOK, NEW t \in Threads, NEW what, NEW e, Doing(t, what, e), Insert(t, <<>>)
  PROVE  /\ Len(todo[t]) \in Nat \ {0} /\ todo[t][1] = Step(what, e)
         /\ todo'[t] \in Seq(CallSteps) /\ Len(todo'[t]) = Len(todo[t]) - 1
         /\ \A i \in 1..Len(todo'[t]) : todo'[t][i] = todo[t][i + 1]
<1>1. /\ todo[t] # <<>> /\ Len(todo[t]) \in Nat \ {0} /\ todo[t][1] = Step(what, e)
      /\ todo[t] \in Seq(CallSteps)
  BY FirstStep
<1>2. Len(<<>>) = 0
  OBVIOUS
<1>3. /\ todo' \in [Threads -> Seq(CallSteps)]
      /\ Len(todo'[t]) = Len(<<>>) + Len(todo[t]) - 1
      /\ \A i \in 1..Len(todo'[t]) :
           todo'[t][i] = IF i <= Len(<<>>) THEN <<>>[i] ELSE todo[t][i - Len(<<>>) + 1]
  BY <1>1, Inserted, NothingFirst DEF TodoOK
<1>4. todo'[t] \in Seq(CallSteps) /\ Len(todo'[t]) = Len(todo[t]) - 1
  BY <1>1, <1>2, <1>3
<1>5. ASSUME NEW i \in 1..Len(todo'[t])
      PROVE  todo'[t][i] = todo[t][i + 1]
  <2>1. ~(i <= Len(<<>>)) /\ i - Len(<<>>) + 1 = i + 1
    BY <1>2
  <2>2. QED
    BY <1>3, <2>1
<1>6. QED
  BY <1>1, <1>4, <1>5

LEMMA Threw ==
  ASSUME TodoOK, NEW t \in Threads, NEW what, NEW e \in Employees, Doing(t, what, e),
         Insert(t, Throw(e))
  PROVE  /\ Len(todo[t]) \in Nat \ {0} /\ todo[t][1] = Step(what, e)
         /\ todo'[t] \in Seq(CallSteps) /\ Len(todo'[t]) = Len(todo[t]) + 3
         /\ todo'[t][1] = Step("stop", e) /\ todo'[t][2] = Step("releaseAll", e)
         /\ todo'[t][3] = Step("record", e) /\ todo'[t][4] = Step("wake", e)
         /\ \A i \in 5..Len(todo'[t]) : todo'[t][i] = todo[t][i - 3]
<1>1. /\ todo[t] # <<>> /\ Len(todo[t]) \in Nat \ {0} /\ todo[t][1] = Step(what, e)
      /\ todo[t] \in Seq(CallSteps)
  BY FirstStep
<1>2. Len(Throw(e)) = 4 /\ Throw(e) \in Seq(CallSteps)
  BY ThrowSteps
<1>3. /\ todo' \in [Threads -> Seq(CallSteps)]
      /\ Len(todo'[t]) = Len(Throw(e)) + Len(todo[t]) - 1
      /\ \A i \in 1..Len(todo'[t]) :
           todo'[t][i] = IF i <= Len(Throw(e)) THEN Throw(e)[i] ELSE todo[t][i - Len(Throw(e)) + 1]
  BY <1>1, <1>2, Inserted DEF TodoOK
<1>4. todo'[t] \in Seq(CallSteps) /\ Len(todo'[t]) = Len(todo[t]) + 3
  BY <1>1, <1>2, <1>3
<1>5. \A i \in 1..4 : todo'[t][i] = Throw(e)[i]
  <2>1. SUFFICES ASSUME NEW i \in 1..4
                 PROVE  todo'[t][i] = Throw(e)[i]
    OBVIOUS
  <2>2. i <= Len(Throw(e)) /\ i \in 1..Len(todo'[t])
    BY <1>1, <1>2, <1>4
  <2>3. QED
    BY <1>3, <2>2
<1>6. \A i \in 5..Len(todo'[t]) : todo'[t][i] = todo[t][i - 3]
  <2>1. SUFFICES ASSUME NEW i \in 5..Len(todo'[t])
                 PROVE  todo'[t][i] = todo[t][i - 3]
    OBVIOUS
  <2>2. ~(i <= Len(Throw(e))) /\ i - Len(Throw(e)) + 1 = i - 3 /\ i \in 1..Len(todo'[t])
    BY <1>2
  <2>3. QED
    BY <1>3, <2>2
<1>7. QED
  BY <1>1, <1>4, <1>5, <1>6, ThrowSteps

LEMMA StopStays ==
  ASSUME TypeOK, [Next]_vars, NEW e \in Employees, stop[e]
  PROVE  stop'[e]
<1>1. stop \in [Employees -> BOOLEAN]
  BY TypeParts DEF DataOK
<1>2. UNCHANGED stop \/ \E t \in Threads, d \in Employees : stop' = [stop EXCEPT ![d] = TRUE]
  <2>1. ASSUME NEW t \in Threads, CallStep(t)
        PROVE  UNCHANGED stop \/ \E d \in Employees : stop' = [stop EXCEPT ![d] = TRUE]
    BY <2>1 DEF CallStep, SetStop, ReleaseAll, Record, Wake, CheckIdle, CheckStaying, Start, flags
  <2>2. ASSUME NEW d \in Employees, EmployeeStep(d), ~CallStep(d)
        PROVE  UNCHANGED stop
    BY <2>2 DEF EmployeeStep, BossStep, AppendWaiter, CountIn, Acquire, CheckStop, Idle, Execute, Crash,
                FinishJob, NotifyDone, ForgetWaiters, ThreadEnds, flags
  <2>3. ASSUME MainStep, ~CallStep(Main)
        PROVE  UNCHANGED stop
    BY <2>3 DEF MainStep, CheckExceptions, CheckAlive, MainCountsIn, MainAcquires, MainCountsOut,
                ReturnError, flags
  <2>4. QED
    BY <2>1, <2>2, <2>3, Staffed DEF Next, vars, flags
<1>3. QED
  BY <1>1, <1>2

LEMMA CallsInOrder ==
  ASSUME NEW q \in Seq(CallSteps), \A i \in 1..Len(q) : q[i].what \in CallKinds
  PROVE  InOrder(q)
BY DEF InOrder, CallKinds

(* How the steps of what a thread begins are ordered. *)
LEMMA BegunOrder ==
  ASSUME TypeOK, NEW t \in Threads, Begins(t)
  PROVE  LET q == todo'[t]
         IN  /\ q \in Seq(CallSteps) /\ InOrder(q)
             /\ \A i \in 1..Len(q) :
                  q[i].what = "releaseAll" => i > 1 /\ q[i - 1] = Step("stop", q[i].who)
             /\ q # <<>> => Head(q).what \notin {"countIn", "acquire"}
<1> DEFINE Good(q) ==
      /\ q \in Seq(CallSteps) /\ InOrder(q)
      /\ \A i \in 1..Len(q) :
           q[i].what = "releaseAll" => i > 1 /\ q[i - 1] = Step("stop", q[i].who)
      /\ q # <<>> => Head(q).what \notin {"countIn", "acquire"}
<1>1. ASSUME NEW q \in Seq(CallSteps), \A i \in 1..Len(q) : q[i].what \in CallKinds,
             \A i \in 1..Len(q) :
                q[i].what = "releaseAll" => i > 1 /\ q[i - 1] = Step("stop", q[i].who)
      PROVE  Good(q)
  <2>1. ASSUME q # <<>>
        PROVE  Head(q).what \notin {"countIn", "acquire"}
    <3>1. Head(q) = q[1] /\ 1 \in 1..Len(q)
      BY <2>1
    <3>2. QED
      BY <1>1, <3>1 DEF CallKinds
  <2>2. QED
    BY <1>1, <2>1, CallsInOrder
<1>2. {"stop", "releaseAll", "record", "wake", "checkIdle", "checkStaying", "start"} \subseteq CallKinds
  BY DEF CallKinds, StepKinds
<1>3. ASSUME NEW es \in Seq(Employees)
      PROVE  Good(ExitAll(es))
  <2>1. ExitAll(es) \in Seq(CallSteps) /\ \A i \in 1..Len(ExitAll(es)) : ExitAll(es)[i].what \in CallKinds
    BY <1>2, ExitAllSteps
  <2> HIDE DEF Good
  <2>2. QED
    BY <1>1, <2>1, ExitAllSteps
<1>4. ASSUME NEW e \in Employees
      PROVE  Good(ExitAll(Subs[e]) \o <<Step("wake", e)>>)
  <2>1. Subs[e] \in Seq(Employees)
    BY Staffed
  <2> DEFINE q == ExitAll(Subs[e]) \o <<Step("wake", e)>>
  <2>2. /\ q \in Seq(CallSteps)
        /\ \A k \in 1..Len(q) :
             /\ q[k].what \in {"stop", "releaseAll", "wake"}
             /\ q[k].what = "releaseAll" => k > 1 /\ q[k - 1] = Step("stop", q[k].who)
    BY <2>1, LeavingSteps
  <2> HIDE DEF q, Good
  <2>3. \A k \in 1..Len(q) : q[k].what \in CallKinds
    BY <1>2, <2>2
  <2>4. Good(q)
    BY <1>1, <2>2, <2>3
  <2>5. QED
    BY <2>4 DEF q
<1>5. Good(<<>>)
  BY DEF InOrder
<1>6. ASSUME NEW e \in Employees
      PROVE  Good(Throw(e))
  <2> DEFINE q == Throw(e)
  <2>1. /\ q \in Seq(CallSteps) /\ Len(q) = 4
        /\ q[1] = Step("stop", e) /\ q[2] = Step("releaseAll", e)
        /\ q[3] = Step("record", e) /\ q[4] = Step("wake", e)
    BY ThrowSteps
  <2> HIDE DEF q, Good
  <2>2. \A k \in 1..Len(q) : q[k].what \in CallKinds
    BY <1>2, <2>1 DEF Step
  <2>3. \A i \in 1..Len(q) : q[i].what = "releaseAll" => i > 1 /\ q[i - 1] = Step("stop", q[i].who)
    BY <2>1 DEF Step
  <2>4. Good(q)
    BY <1>1, <2>1, <2>2, <2>3
  <2>5. QED
    BY <2>4 DEF q
<1>7. ASSUME NEW d \in Employees
      PROVE  Good(Call(d))
  <2> DEFINE q == Call(d)
  <2>1. /\ q \in Seq(CallSteps) /\ Len(q) = 3
        /\ q[1] = Step("checkIdle", d) /\ q[2] = Step("checkStaying", d) /\ q[3] = Step("start", d)
    BY CallAndWaitSteps DEF Call
  <2> HIDE DEF q, Good
  <2>2. \A k \in 1..Len(q) : q[k].what \in CallKinds
    BY <1>2, <2>1 DEF Step
  <2>3. \A i \in 1..Len(q) : q[i].what = "releaseAll" => i > 1 /\ q[i - 1] = Step("stop", q[i].who)
    BY <2>1 DEF Step
  <2>4. Good(q)
    BY <1>1, <2>1, <2>2, <2>3
  <2>5. QED
    BY <2>4 DEF q
<1>8. ASSUME NEW d \in Employees
      PROVE  Good(Wait(d))
  <2> DEFINE q == Wait(d)
  <2>1. /\ q \in Seq(CallSteps) /\ Len(q) = 3 /\ Head(q) = q[1]
        /\ q[1] = Step("append", d) /\ q[2] = Step("countIn", d) /\ q[3] = Step("acquire", d)
    BY CallAndWaitSteps DEF Wait
  <2> HIDE DEF q
  <2>2. InOrder(q)
    BY <2>1 DEF InOrder, Step, CallKinds
  <2>3. \A i \in 1..Len(q) : q[i].what # "releaseAll"
    BY <2>1 DEF Step
  <2>4. Head(q).what \notin {"countIn", "acquire"}
    BY <2>1 DEF Step
  <2>5. Good(q)
    BY <2>1, <2>2, <2>3, <2>4
  <2>6. QED
    BY <2>5 DEF q
<1>9. Good(todo'[t])
  <2> HIDE DEF Good
  <2>1. CASE t = Main /\ todo'[t] = ExitAll(Staff)
    BY <1>3, <2>1, Staffed
  <2>2. CASE t \in Employees /\ todo'[t] = ExitAll(Subs[t]) \o <<Step("wake", t)>>
    BY <1>4, <2>2
  <2>3. ASSUME t \in Employees, NEW k \in 1..Len(job[t]), todo'[t] = Steps(t, job[t][k])
        PROVE  Good(todo'[t])
    <3>1. job[t] \in Seq(Instructions)
      BY <2>3, TypeParts, JobTyped
    <3>2. job[t][k] \in Instructions
      BY <3>1, ElementOfSeq
    <3>3. QED
      BY <1>5, <1>6, <1>7, <1>8, <2>3, <3>2, BegunSteps
  <2>4. QED
    BY <2>1, <2>2, <2>3 DEF Begins
<1>10. QED
  BY <1>9

LEMMA OrderKept ==
  ASSUME TypeOK, [Next]_vars, NEW t \in Threads, InOrder(todo[t])
  PROVE  InOrder(todo'[t])
<1>1. TodoOK
  BY TypeParts
<1>2. ASSUME NEW what, NEW e, Doing(t, what, e), Insert(t, <<>>)
      PROVE  InOrder(todo'[t])
  <2> DEFINE q == todo[t]
             r == todo'[t]
  <2>1. /\ Len(q) \in Nat \ {0} /\ Len(r) = Len(q) - 1
        /\ \A i \in 1..Len(r) : r[i] = q[i + 1]
    BY <1>1, <1>2, TookFirst
  <2>2. InOrder(q)
    OBVIOUS
  <2> HIDE DEF q, r
  <2>3. ASSUME NEW i \in 1..Len(r)
        PROVE  /\ i + 1 \in 1..Len(q) /\ r[i] = q[i + 1] /\ (i < Len(r) <=> i + 1 < Len(q))
               /\ i = Len(r) <=> i + 1 = Len(q)
               /\ i < Len(r) => r[i + 1] = q[(i + 1) + 1]
    BY <2>1
  <2>4. InOrder(r)
    BY <2>2, <2>3, ZenonT(40) DEF InOrder
  <2>5. QED
    BY <2>4 DEF r
<1>3. ASSUME NEW what \in {"checkIdle", "checkStaying"}, NEW e \in Employees, Doing(t, what, e),
             Insert(t, Throw(e))
      PROVE  InOrder(todo'[t])
  <2> DEFINE q == todo[t]
             r == todo'[t]
  <2>1. /\ Len(q) \in Nat \ {0} /\ q[1] = Step(what, e) /\ Len(r) = Len(q) + 3
        /\ r[1] = Step("stop", e) /\ r[2] = Step("releaseAll", e)
        /\ r[3] = Step("record", e) /\ r[4] = Step("wake", e)
        /\ \A i \in 5..Len(r) : r[i] = q[i - 3]
    BY <1>1, <1>3, Threw
  <2>2. InOrder(q)
    OBVIOUS
  <2> HIDE DEF q, r
  <2>3. \A i \in 1..4 : r[i].what \in CallKinds
    BY <2>1 DEF Step, CallKinds, StepKinds
  <2>4. q[1].what \in CallKinds
    BY <2>1 DEF Step, CallKinds, StepKinds
  <2>5. 5 <= Len(r) => r[5].what \in CallKinds
    <3>1. 5 <= Len(r) => 1 < Len(q) /\ r[5] = q[1 + 1]
      BY <2>1
    <3>2. QED
      BY <2>1, <2>2, <2>4, <3>1 DEF InOrder
  <2>6. ASSUME NEW i \in 1..Len(r), i <= 4
        PROVE  r[i].what \in CallKinds /\ (i < Len(r) => r[i + 1].what \in CallKinds)
    <3>1. i \in 1..4 /\ (i < Len(r) => i + 1 \in 1..4 \/ (i + 1 = 5 /\ 5 <= Len(r)))
      BY <2>1, <2>6
    <3>2. QED
      BY <2>3, <2>5, <3>1
  <2>7. ASSUME NEW i \in 1..Len(r), i > 4
        PROVE  /\ i - 3 \in 1..Len(q) /\ r[i] = q[i - 3] /\ (i < Len(r) <=> i - 3 < Len(q))
               /\ i = Len(r) <=> i - 3 = Len(q)
               /\ i < Len(r) => r[i + 1] = q[(i - 3) + 1]
    BY <2>1, <2>7
  <2>8. ASSUME NEW i \in 1..Len(r)
        PROVE  /\ r[i].what = "append" => i < Len(r) /\ r[i + 1] = Step("countIn", r[i].who)
               /\ r[i].what = "countIn" => i < Len(r) /\ r[i + 1] = Step("acquire", r[i].who)
               /\ r[i].what = "acquire" => i = Len(r)
               /\ r[i].what \in CallKinds /\ i < Len(r) => r[i + 1].what \in CallKinds
    <3>1. CASE i <= 4
      BY <2>6, <3>1 DEF CallKinds
    <3>2. CASE i > 4
      BY <2>2, <2>7, <3>2 DEF InOrder
    <3>3. QED
      BY <3>1, <3>2
  <2>9. InOrder(r)
    BY <2>8 DEF InOrder
  <2>10. QED
    BY <2>9 DEF r
<1>4. CASE TakesStep(t)
  BY <1>2, <1>3, <1>4 DEF TakesStep
<1>5. CASE Begins(t)
  BY <1>5, BegunOrder
<1>6. QED
  BY <1>4, <1>5, TodoCases

LEMMA StopsFirstKept ==
  ASSUME TypeOK, [Next]_vars, NEW t \in Threads, StopsFirst(todo[t])
  PROVE  StopsFirst(todo[t])'
<1>1. TodoOK /\ todo[t] \in Seq(CallSteps)
  BY TypeParts DEF TodoOK
<1>2. \A s \in CallSteps : s.who \in Employees
  BY DEF CallSteps
<1>3. \A i \in 1..Len(todo[t]) : todo[t][i].who \in Employees
  <2>1. \A i \in 1..Len(todo[t]) : todo[t][i] \in CallSteps
    BY <1>1, ElementOfSeq
  <2>2. QED
    BY <1>2, <2>1
<1>4. \A i \in 1..Len(todo[t]) : stop[todo[t][i].who] => stop'[todo[t][i].who]
  BY <1>3, StopStays
<1>5. CASE todo'[t] = todo[t]
  BY <1>4, <1>5 DEF StopsFirst
<1>6. ASSUME NEW what, NEW e \in Employees, Doing(t, what, e), Insert(t, <<>>), what = "stop" => stop'[e]
      PROVE  StopsFirst(todo[t])'
  <2> DEFINE q == todo[t]
             r == todo'[t]
  <2>1. /\ Len(q) \in Nat \ {0} /\ q[1] = Step(what, e) /\ Len(r) = Len(q) - 1
        /\ \A i \in 1..Len(r) : r[i] = q[i + 1]
    BY <1>1, <1>6, TookFirst
  <2>2. StopsFirst(q) /\ \A i \in 1..Len(q) : stop[q[i].who] => stop'[q[i].who]
    BY <1>4
  <2> HIDE DEF q, r
  <2>3. ASSUME NEW i \in 1..Len(r), r[i].what = "releaseAll"
        PROVE  stop'[r[i].who] \/ (i > 1 /\ r[i - 1] = Step("stop", r[i].who))
    <3>1. i + 1 \in 1..Len(q) /\ r[i] = q[i + 1] /\ (i + 1) - 1 = i
      BY <2>1
    <3>2. stop'[r[i].who] \/ q[i] = Step("stop", r[i].who)
      BY <2>2, <2>3, <3>1 DEF StopsFirst
    <3>3. CASE i = 1
      BY <1>6, <2>1, <3>2, <3>3 DEF Step
    <3>4. CASE i > 1
      <4>1. i - 1 \in 1..Len(r) /\ r[i - 1] = q[i]
        BY <2>1, <3>4
      <4>2. QED
        BY <3>2, <3>4, <4>1
    <3>5. QED
      BY <3>3, <3>4
  <2>4. QED
    BY <2>3 DEF StopsFirst, r
<1>7. ASSUME NEW what \in {"checkIdle", "checkStaying"}, NEW e \in Employees, Doing(t, what, e),
             Insert(t, Throw(e))
      PROVE  StopsFirst(todo[t])'
  <2> DEFINE q == todo[t]
             r == todo'[t]
  <2>1. /\ Len(q) \in Nat \ {0} /\ q[1] = Step(what, e) /\ Len(r) = Len(q) + 3
        /\ r[1] = Step("stop", e) /\ r[2] = Step("releaseAll", e)
        /\ r[3] = Step("record", e) /\ r[4] = Step("wake", e)
        /\ \A i \in 5..Len(r) : r[i] = q[i - 3]
    BY <1>1, <1>7, Threw
  <2>2. StopsFirst(q) /\ \A i \in 1..Len(q) : stop[q[i].who] => stop'[q[i].who]
    BY <1>4
  <2> HIDE DEF q, r
  <2>3. ASSUME NEW i \in 1..Len(r), r[i].what = "releaseAll"
        PROVE  stop'[r[i].who] \/ (i > 1 /\ r[i - 1] = Step("stop", r[i].who))
    <3>1. CASE i <= 4
      <4>1. i = 2
        BY <2>1, <2>3, <3>1 DEF Step
      <4>2. QED
        BY <2>1, <4>1 DEF Step
    <3>2. CASE i > 4
      <4>1. i - 3 \in 1..Len(q) /\ r[i] = q[i - 3] /\ i - 3 > 1 /\ (i - 3) - 1 = i - 4
        BY <2>1, <3>2
      <4>2. stop'[r[i].who] \/ q[i - 4] = Step("stop", r[i].who)
        BY <2>2, <2>3, <4>1 DEF StopsFirst
      <4>3. CASE i = 5
        BY <2>1, <4>2, <4>3 DEF Step
      <4>4. CASE i > 5
        <5>1. i - 1 \in 5..Len(r) /\ (i - 1) - 3 = i - 4
          BY <2>1, <4>4
        <5>2. r[i - 1] = q[i - 4]
          BY <2>1, <5>1
        <5>3. QED
          BY <3>2, <4>2, <5>2
      <4>5. QED
        BY <3>2, <4>3, <4>4
    <3>3. QED
      BY <3>1, <3>2
  <2>4. QED
    BY <2>3 DEF StopsFirst, r
<1>8. CASE TakesStep(t)
  BY <1>6, <1>7, <1>8 DEF TakesStep
<1>9. CASE Begins(t)
  BY <1>9, BegunOrder DEF StopsFirst
<1>10. QED
  BY <1>5, <1>8, <1>9, TodoCases

LEMMA WaitersKept ==
  ASSUME TypeOK, [Next]_vars, \A b, e \in Employees : ~AppendWaiter(b, e)
  PROVE  /\ UNCHANGED waits
         /\ \A e \in Employees : doneWaiters'[e] \in {doneWaiters[e], <<>>}
         /\ \A t \in Threads :
              todo[t] # <<>> /\ Head(todo[t]).what = "append" => todo'[t] = todo[t]
<1> DEFINE Kept ==
      /\ UNCHANGED waits
      /\ \A e \in Employees : doneWaiters'[e] \in {doneWaiters[e], <<>>}
      /\ \A t \in Threads :
           todo[t] # <<>> /\ Head(todo[t]).what = "append" => todo'[t] = todo[t]
<1>1. TodoOK /\ doneWaiters \in [Employees -> Seq(Employees \X (Nat \ {0}))]
  BY TypeParts DEF DataOK
<1>2. ASSUME NEW t \in Threads, CallStep(t)
      PROVE  Kept
  <2>1. PICK e \in Employees :
          \/ SetStop(t, e) \/ ReleaseAll(t, e) \/ Record(t, e) \/ Wake(t, e)
          \/ CheckIdle(t, e) \/ CheckStaying(t, e) \/ Start(t, e)
    BY <1>2 DEF CallStep
  <2>2. UNCHANGED <<waits, doneWaiters>>
    BY <2>1 DEF SetStop, ReleaseAll, Record, Wake, CheckIdle, CheckStaying, Start, waiterVars
  <2>3. \E what \in {"stop", "releaseAll", "record", "wake", "checkIdle", "checkStaying", "start"} :
          Doing(t, what, e)
    BY <2>1 DEF SetStop, ReleaseAll, Record, Wake, CheckIdle, CheckStaying, Start
  <2>4. Head(todo[t]).what # "append"
    BY <2>3 DEF Doing, Step
  <2>5. \A u \in Threads \ {t} : todo'[u] = todo[u]
    BY <1>2, CallStepTakes
  <2>6. QED
    BY <2>2, <2>4, <2>5
<1>3. ASSUME NEW b \in Employees, BossStep(b)
      PROVE  Kept
  <2>1. PICK e \in Employees : CountIn(b, e) \/ Acquire(b, e)
    BY <1>3 DEF BossStep
  <2>2. UNCHANGED <<waits, doneWaiters>>
    BY <2>1 DEF CountIn, Acquire, waiterVars
  <2>3. Head(todo[b]).what # "append"
    BY <2>1 DEF CountIn, Acquire, Doing, Step
  <2>4. \A u \in Threads \ {b} : todo'[u] = todo[u]
    BY <1>3, Staffed, BossStepTakes
  <2>5. QED
    BY <2>2, <2>3, <2>4
<1>4. ASSUME NEW e \in Employees,
             CheckStop(e) \/ Idle(e) \/ Execute(e) \/ Crash(e) \/ FinishJob(e) \/ ThreadEnds(e)
      PROVE  Kept
  <2>1. UNCHANGED <<waits, doneWaiters>> /\ todo[e] = <<>>
    BY <1>4 DEF CheckStop, Idle, Execute, Crash, FinishJob, ThreadEnds, AtInstruction, AtEnd, IsAt,
                waiterVars
  <2>2. \A u \in Threads \ {e} : todo'[u] = todo[u]
    BY <1>1, <1>4 DEF CheckStop, Idle, Execute, Crash, FinishJob, ThreadEnds, Leave, TodoOK
  <2>3. QED
    BY <2>1, <2>2
<1>5. ASSUME NEW e \in Employees, NotifyDone(e) \/ ForgetWaiters(e)
      PROVE  Kept
  BY <1>1, <1>5 DEF NotifyDone, ForgetWaiters
<1>6. ASSUME \/ CheckExceptions \/ CheckAlive \/ MainCountsIn \/ MainAcquires \/ MainCountsOut
             \/ ReturnError
      PROVE  Kept
  <2>1. UNCHANGED <<waits, doneWaiters>> /\ todo[Main] = <<>>
    BY <1>6 DEF CheckExceptions, CheckAlive, MainCountsIn, MainAcquires, MainCountsOut, ReturnError,
                IsAt, waiterVars
  <2>2. \A u \in Threads \ {Main} : todo'[u] = todo[u]
    BY <1>1, <1>6 DEF CheckExceptions, CheckAlive, MainCountsIn, MainAcquires, MainCountsOut,
                      ReturnError, TodoOK
  <2>3. QED
    BY <2>1, <2>2
<1>7. ASSUME UNCHANGED vars
      PROVE  Kept
  BY <1>7 DEF vars, waiterVars
<1>8. Kept
  <2> HIDE DEF Kept
  <2>1. CASE MainStep
    BY <1>2, <1>6, <2>1, Staffed DEF MainStep
  <2>2. ASSUME NEW e \in Employees, EmployeeStep(e)
        PROVE  Kept
    <3>1. e \in Threads
      BY Staffed
    <3>2. CASE CallStep(e)
      BY <1>2, <3>1, <3>2
    <3>3. CASE BossStep(e)
      BY <1>3, <3>3
    <3>4. CASE NotifyDone(e) \/ ForgetWaiters(e)
      BY <1>5, <3>4
    <3>5. CASE CheckStop(e) \/ Idle(e) \/ Execute(e) \/ Crash(e) \/ FinishJob(e) \/ ThreadEnds(e)
      BY <1>4, <3>5
    <3>6. QED
      BY <2>2, <3>2, <3>3, <3>4, <3>5 DEF EmployeeStep
  <2>3. QED
    BY <1>7, <2>1, <2>2 DEF Next
<1>9. QED
  BY <1>8

(* Who is about to sleep after a step has either just put his waiter into a *)
(* list or was about to sleep on it before.                                 *)
LEMMA OnNewestBefore ==
  ASSUME TypeOK, [Next]_vars, NEW t \in Threads, InOrder(todo[t]), OnNewest(t)'
  PROVE  /\ OnNewest(t) \/ Head(todo[t]).what = "append"
         /\ todo[t] # <<>> /\ Head(todo'[t]).who = Head(todo[t]).who
<1>1. TodoOK
  BY TypeParts
<1>2. CASE todo'[t] = todo[t]
  BY <1>2 DEF OnNewest
<1>3. ASSUME NEW what, NEW e, Doing(t, what, e), Insert(t, <<>>)
      PROVE  /\ OnNewest(t) \/ Head(todo[t]).what = "append"
             /\ todo[t] # <<>> /\ Head(todo'[t]).who = Head(todo[t]).who
  <2>1. /\ Len(todo[t]) \in Nat \ {0} /\ todo[t][1] = Step(what, e)
        /\ todo'[t] \in Seq(CallSteps) /\ Len(todo'[t]) = Len(todo[t]) - 1
        /\ \A i \in 1..Len(todo'[t]) : todo'[t][i] = todo[t][i + 1]
    BY <1>1, <1>3, TookFirst
  <2>2. todo[t] # <<>> /\ Head(todo[t]).what = what /\ Head(todo[t]).who = e
    BY <1>1, <1>3, FirstStep
  <2>3. todo'[t] # <<>> /\ Head(todo'[t]) = todo'[t][1] /\ 1 \in 1..Len(todo'[t])
    BY <2>1 DEF OnNewest
  <2>4. Head(todo'[t]) = todo[t][1 + 1] /\ 1 < Len(todo[t]) /\ 1 \in 1..Len(todo[t])
    BY <2>1, <2>3
  <2>5. todo[t][1].what = what /\ todo[t][1].who = e
    BY <2>1 DEF Step
  <2>6. what \in StepKinds
    <3>1. todo[t] \in Seq(CallSteps)
      BY <1>1 DEF TodoOK
    <3>2. todo[t][1] \in CallSteps
      BY <2>4, <3>1, ElementOfSeq
    <3>3. QED
      BY <2>5, <3>2 DEF CallSteps
  <2>7. Head(todo'[t]).what \in {"countIn", "acquire"}
    BY DEF OnNewest
  <2>8. what \notin CallKinds
    BY <2>4, <2>5, <2>7 DEF InOrder, CallKinds
  <2>9. what \in {"append", "countIn"}
    BY <2>4, <2>5, <2>6, <2>8 DEF InOrder, CallKinds
  <2>10. Head(todo'[t]).who = e
    <3>1. todo[t][1 + 1] = Step("countIn", e) \/ todo[t][1 + 1] = Step("acquire", e)
      BY <2>4, <2>5, <2>9 DEF InOrder
    <3>2. QED
      BY <2>4, <3>1 DEF Step
  <2>11. QED
    BY <2>2, <2>9, <2>10 DEF OnNewest
<1>4. ASSUME NEW what, NEW e \in Employees, Doing(t, what, e), Insert(t, Throw(e))
      PROVE  FALSE
  <2>1. /\ todo'[t] \in Seq(CallSteps) /\ Len(todo'[t]) = Len(todo[t]) + 3 /\ Len(todo[t]) \in Nat
        /\ todo'[t][1] = Step("stop", e)
    BY <1>1, <1>4, Threw
  <2>2. Head(todo'[t]) = todo'[t][1]
    BY <2>1
  <2>3. QED
    BY <2>1, <2>2 DEF OnNewest, Step
<1>5. CASE TakesStep(t)
  BY <1>3, <1>4, <1>5 DEF TakesStep
<1>6. CASE Begins(t)
  BY <1>6, BegunOrder DEF OnNewest
<1>7. QED
  BY <1>2, <1>5, <1>6, TodoCases

LEMMA RunsGrow ==
  ASSUME TypeOK, [Next]_vars, NEW e \in Employees
  PROVE  /\ runs[e] \in Nat /\ runs'[e] \in Nat /\ runs[e] <= runs'[e]
         /\ at'[e] = "notify" => at[e] = "notify" \/ runs'[e] = runs[e] + 1
<1>1. /\ runs \in [Employees -> Nat] /\ at \in [Threads -> Labels] /\ e \in Threads
  BY TypeParts, Staffed DEF DataOK
<1> DEFINE Grow ==
      /\ UNCHANGED runs \/ \E d \in Employees : runs' = [runs EXCEPT ![d] = @ + 1]
      /\ at'[e] = "notify" => at[e] = "notify" \/ runs' = [runs EXCEPT ![e] = @ + 1]
<1>2. ASSUME NEW t \in Threads, CallStep(t)
      PROVE  Grow
  BY <1>2 DEF CallStep, SetStop, ReleaseAll, Record, Wake, CheckIdle, CheckStaying, Start, loopVars,
              history
<1>3. ASSUME NEW d \in Employees, FinishJob(d)
      PROVE  Grow
  BY <1>1, <1>3, Staffed DEF FinishJob, Leave, Goto
<1>4. ASSUME NEW d \in Employees, EmployeeStep(d), ~CallStep(d), ~FinishJob(d)
      PROVE  UNCHANGED runs /\ (at'[e] = "notify" => at[e] = "notify")
  <2>1. CASE BossStep(d)
    BY <2>1 DEF BossStep, AppendWaiter, CountIn, Acquire, loopVars, history
  <2>2. CASE CheckStop(d) \/ Idle(d) \/ Execute(d) \/ Crash(d) \/ ThreadEnds(d)
    BY <1>1, <2>2, Staffed DEF CheckStop, Leave, Idle, Execute, Crash, ThreadEnds, Goto, history
  <2>3. CASE NotifyDone(d) \/ ForgetWaiters(d)
    BY <1>1, <2>3, Staffed DEF NotifyDone, ForgetWaiters, Goto, history
  <2>4. QED
    BY <1>4, <2>1, <2>2, <2>3 DEF EmployeeStep
<1>5. ASSUME MainStep, ~CallStep(Main)
      PROVE  UNCHANGED runs /\ (at'[e] = "notify" => at[e] = "notify")
  BY <1>1, <1>5, Staffed DEF MainStep, CheckExceptions, CheckAlive, MainCountsIn, MainAcquires,
                             MainCountsOut, ReturnError, Goto, history
<1>6. ASSUME UNCHANGED vars
      PROVE  Grow
  BY <1>6 DEF vars, loopVars, history
<1>7. Grow
  <2>1. CASE MainStep
    <3>1. CASE CallStep(Main)
      BY <1>2, <3>1, Staffed
    <3>2. CASE ~CallStep(Main)
      BY <1>5, <2>1, <3>2
    <3>3. QED
      BY <3>1, <3>2
  <2>2. ASSUME NEW d \in Employees, EmployeeStep(d)
        PROVE  Grow
    <3>1. CASE CallStep(d)
      BY <1>2, <3>1, Staffed
    <3>2. CASE ~CallStep(d)
      BY <1>3, <1>4, <2>2, <3>2
    <3>3. QED
      BY <3>1, <3>2
  <2>3. QED
    BY <1>6, <2>1, <2>2 DEF Next
<1>8. /\ runs[e] \in Nat /\ runs'[e] \in Nat /\ runs[e] <= runs'[e]
      /\ runs' = [runs EXCEPT ![e] = @ + 1] => runs'[e] = runs[e] + 1
  BY <1>1, <1>7
<1>9. QED
  BY <1>7, <1>8

LEMMA NewestWaiterKept ==
  ASSUME TypeOK, [Next]_vars, \A t \in Threads : InOrder(todo[t]), NewestWaiter
  PROVE  NewestWaiter'
<1>1. /\ TodoOK /\ waits \in [Employees -> Nat] /\ runs \in [Employees -> Nat] /\ OwedOK
      /\ doneWaiters \in [Employees -> Seq(Employees \X (Nat \ {0}))]
      /\ \A e \in Employees : \A w \in Range(doneWaiters[e]) : w[2] <= waits[w[1]]
  BY TypeParts DEF DataOK
<1>2. \A e \in Employees : Range(doneWaiters[e]) \subseteq Employees \X (Nat \ {0})
  BY <1>1 DEF Range
<1>3. SUFFICES ASSUME NEW e \in Employees, NEW w \in Range(doneWaiters'[e]),
                      OnNewest(w[1])', w[2] = waits'[w[1]]
               PROVE  Head(todo'[w[1]]).who = e /\ Owes(e, w[1])'
  BY DEF NewestWaiter, Owes
<1>4. ASSUME NEW b \in Employees, NEW d \in Employees, AppendWaiter(b, d)
      PROVE  Head(todo'[w[1]]).who = e /\ Owes(e, w[1])'
  <2>1. /\ Doing(b, "append", d) /\ waits' = [waits EXCEPT ![b] = @ + 1]
        /\ doneWaiters' = [doneWaiters EXCEPT ![d] = Append(@, <<b, waits[b] + 1>>)]
        /\ due' = [due EXCEPT ![b] = runs[d] + (IF running[d] THEN 1 ELSE 0)]
        /\ hasty' = [hasty EXCEPT ![b] = (at[d] = "notify")]
        /\ UNCHANGED <<at, runs>>
    BY <1>4 DEF AppendWaiter, loopVars
  <2>2. Head(todo[b]).what = "append" /\ Head(todo[b]).who = d
    BY <1>1, <2>1, Staffed, FirstStep
  <2>3. w \in Range(doneWaiters[e]) \/ (e = d /\ w = <<b, waits[b] + 1>>)
    <3>1. CASE e # d
      BY <1>1, <2>1, <3>1
    <3>2. CASE e = d
      <4>1. doneWaiters'[e] = Append(doneWaiters[e], <<b, waits[b] + 1>>)
        BY <1>1, <2>1, <3>2
      <4>2. <<b, waits[b] + 1>> \in Employees \X (Nat \ {0})
        BY <1>1
      <4>3. Range(doneWaiters'[e]) \subseteq Range(doneWaiters[e]) \cup {<<b, waits[b] + 1>>}
        <5>1. doneWaiters[e] \in Seq(Employees \X (Nat \ {0}))
          BY <1>1
        <5>2. QED
          BY <4>1, <4>2, <5>1, AppendRange
      <4>4. QED
        BY <3>2, <4>3
    <3>3. QED
      BY <3>1, <3>2
  <2>4. CASE e = d /\ w = <<b, waits[b] + 1>>
    <3>1. w[1] = b /\ b \in Threads
      BY <2>4, Staffed
    <3>2. Head(todo'[w[1]]).who = e
      BY <2>2, <2>4, <3>1, <1>3, OnNewestBefore
    <3>3. due'[b] <= runs'[d] + 1 /\ (at'[d] = "notify" => hasty'[b])
      <4>1. runs[d] \in Nat
        BY <1>1
      <4>2. due'[b] = runs[d] + (IF running[d] THEN 1 ELSE 0) /\ hasty'[b] = (at[d] = "notify")
        BY <1>1, <2>1 DEF OwedOK
      <4>3. due'[b] <= runs[d] + 1
        <5>1. CASE running[d]
          BY <4>1, <4>2, <5>1
        <5>2. CASE ~running[d]
          BY <4>1, <4>2, <5>2
        <5>3. QED
          BY <5>1, <5>2
      <4>4. runs'[d] = runs[d] /\ at'[d] = at[d]
        BY <2>1
      <4>5. QED
        BY <4>2, <4>3, <4>4
    <3>4. QED
      BY <2>4, <3>1, <3>2, <3>3 DEF Owes
  <2>5. CASE w \in Range(doneWaiters[e])
    <3>1. w[1] \in Employees /\ w[1] \in Threads /\ w[2] \in Nat /\ w[2] <= waits[w[1]]
      BY <1>1, <1>2, <2>5, Staffed
    <3>2. w[1] # b
      BY <1>1, <1>3, <2>1, <3>1
    <3>3. waits'[w[1]] = waits[w[1]]
      BY <1>1, <2>1, <3>1, <3>2
    <3>4. todo'[w[1]] = todo[w[1]]
      <4>1. BossStep(b)
        BY <1>4 DEF BossStep
      <4>2. QED
        BY <3>1, <3>2, <4>1, BossStepTakes, Staffed
    <3>5. due'[w[1]] = due[w[1]] /\ hasty'[w[1]] = hasty[w[1]]
      BY <1>1, <2>1, <3>1, <3>2 DEF OwedOK
    <3>6. Head(todo[w[1]]).who = e /\ Owes(e, w[1])
      BY <1>3, <2>5, <3>3, <3>4 DEF NewestWaiter, OnNewest
    <3>7. QED
      BY <2>1, <3>4, <3>5, <3>6 DEF Owes
  <2>6. QED
    BY <2>3, <2>4, <2>5
<1>5. ASSUME \A b, d \in Employees : ~AppendWaiter(b, d)
      PROVE  Head(todo'[w[1]]).who = e /\ Owes(e, w[1])'
  <2>1. /\ UNCHANGED waits /\ doneWaiters'[e] \in {doneWaiters[e], <<>>}
        /\ \A t \in Threads :
             todo[t] # <<>> /\ Head(todo[t]).what = "append" => todo'[t] = todo[t]
    BY <1>5, WaitersKept
  <2>2. Range(<<>>) = {}
    BY DEF Range
  <2>3. w \in Range(doneWaiters[e])
    BY <1>3, <2>1, <2>2
  <2>4. w[1] \in Threads
    BY <1>2, <2>3, Staffed
  <2>5. /\ OnNewest(w[1]) \/ Head(todo[w[1]]).what = "append"
        /\ todo[w[1]] # <<>> /\ Head(todo'[w[1]]).who = Head(todo[w[1]]).who
    BY <1>3, <2>4, OnNewestBefore
  <2>6. OnNewest(w[1])
    BY <1>3, <2>1, <2>4, <2>5 DEF OnNewest
  <2>7. Head(todo[w[1]]).who = e /\ Owes(e, w[1])
    BY <1>3, <2>1, <2>3, <2>5, <2>6 DEF NewestWaiter
  <2>8. UNCHANGED owed /\ w[1] \in Employees
    BY <1>2, <1>5, <2>3, OwedSteps
  <2>9. Owes(e, w[1])'
    <3>1. due'[w[1]] = due[w[1]] /\ hasty'[w[1]] = hasty[w[1]] /\ due[w[1]] \in Nat
      BY <1>1, <2>8 DEF owed, OwedOK
    <3>2. /\ runs[e] \in Nat /\ runs'[e] \in Nat /\ runs[e] <= runs'[e]
          /\ at'[e] = "notify" => at[e] = "notify" \/ runs'[e] = runs[e] + 1
      BY RunsGrow
    <3>3. QED
      BY <2>7, <3>1, <3>2 DEF Owes
  <2>10. QED
    BY <2>5, <2>7, <2>9
<1>6. QED
  BY <1>4, <1>5

(* A permit a step gives is one of three kinds: an old one, one for a       *)
(* sleeping boss from someone who tells his waiters after work, or one from *)
(* whoever sends someone home.                                              *)
LEMMA PermitGiven ==
  ASSUME TypeOK, [Next]_vars, NEW w \in released'
  PROVE  /\ IsWaiting(w)
         /\ \/ w \in released
            \/ \E d \in Employees :
                 /\ w \in Range(doneWaiters[d])
                 /\ at[d] = "notify" \/ \E t \in Threads : Doing(t, "releaseAll", d)
<1> DEFINE Given ==
      \/ w \in released
      \/ \E d \in Employees :
           /\ w \in Range(doneWaiters[d]) /\ IsWaiting(w)
           /\ at[d] = "notify" \/ \E t \in Threads : Doing(t, "releaseAll", d)
<1>1. /\ DataOK /\ PermitsOK
      /\ doneWaiters \in [Employees -> Seq(Employees \X (Nat \ {0}))]
  BY TypeParts DEF DataOK
<1>2. ASSUME NEW t \in Threads, CallStep(t)
      PROVE  Given
  <2>1. PICK d \in Employees :
          \/ SetStop(t, d) \/ ReleaseAll(t, d) \/ Record(t, d) \/ Wake(t, d)
          \/ CheckIdle(t, d) \/ CheckStaying(t, d) \/ Start(t, d)
    BY <1>2 DEF CallStep
  <2>2. CASE ReleaseAll(t, d)
    BY <2>2 DEF ReleaseAll, ResetWaiters
  <2>3. CASE ~ReleaseAll(t, d)
    BY <2>1, <2>3 DEF SetStop, Record, Wake, CheckIdle, CheckStaying, Start, waiterVars
  <2>4. QED
    BY <2>2, <2>3
<1>3. ASSUME NEW d \in Employees, EmployeeStep(d), ~CallStep(d)
      PROVE  Given
  <2>1. CASE NotifyDone(d)
    <3>1. told[d] + 1 \in 1..Len(doneWaiters[d])
      <4>1. told[d] \in Nat /\ Len(doneWaiters[d]) \in Nat
        BY <1>1 DEF DataOK
      <4>2. told[d] < Len(doneWaiters[d])
        BY <2>1 DEF NotifyDone
      <4>3. QED
        BY <4>1, <4>2
    <3>2. doneWaiters[d][told[d] + 1] \in Range(doneWaiters[d])
      BY <1>1, <3>1 DEF Range
    <3>3. QED
      BY <2>1, <3>2 DEF NotifyDone, ResetWaiters, IsAt
  <2>2. CASE ~NotifyDone(d)
    <3>1. released' \subseteq released
      BY <1>3, <2>2 DEF EmployeeStep, BossStep, AppendWaiter, CountIn, Acquire, CheckStop, Idle, Execute,
                        Crash, FinishJob, ForgetWaiters, ThreadEnds, waiterVars
    <3>2. QED
      BY <3>1
  <2>3. QED
    BY <2>1, <2>2
<1>4. ASSUME MainStep, ~CallStep(Main)
      PROVE  Given
  BY <1>4 DEF MainStep, CheckExceptions, CheckAlive, MainCountsIn, MainAcquires, MainCountsOut,
              ReturnError, waiterVars
<1>5. ASSUME UNCHANGED vars
      PROVE  Given
  BY <1>5 DEF vars, waiterVars
<1>6. Given
  <2> HIDE DEF Given
  <2>1. CASE MainStep
    BY <1>2, <1>4, <2>1, Staffed
  <2>2. ASSUME NEW d \in Employees, EmployeeStep(d)
        PROVE  Given
    BY <1>2, <1>3, <2>2, Staffed
  <2>3. QED
    BY <1>5, <2>1, <2>2 DEF Next
<1>7. w \in released => IsWaiting(w)
  BY <1>1 DEF PermitsOK
<1>8. QED
  BY <1>6, <1>7

LEMMA WaitsKept ==
  ASSUME TypeOK, [Next]_vars, Waits
  PROVE  Waits'
<1>1. ASSUME NEW t \in Threads
      PROVE  InOrder(todo[t])' /\ StopsFirst(todo[t])'
  <2>1. InOrder(todo'[t])
    BY OrderKept DEF Waits
  <2>2. StopsFirst(todo[t])'
    BY StopsFirstKept DEF Waits
  <2>3. QED
    BY <2>1, <2>2 DEF InOrder
<1>2. NewestWaiter'
  BY NewestWaiterKept DEF Waits
<1>3. QED
  BY <1>1, <1>2 DEF Waits

LEMMA LetOutAfterWork ==
  ASSUME TypeOK, [Next]_vars, Waits, WaitAfterWork
  PROVE  WaitAfterWork'
<1>1. SUFFICES ASSUME NEW b \in Employees, NEW e \in Employees, WaitsFor(b, e)',
                      <<b, waits'[b]>> \in released'
               PROVE  runs'[e] >= due'[b] \/ stop'[e] \/ hasty'[b]
  BY DEF WaitAfterWork, LetOut
<1> DEFINE w == <<b, waits'[b]>>
<1>2. /\ IsWaiting(w)
      /\ \/ w \in released
         \/ \E d \in Employees :
              /\ w \in Range(doneWaiters[d])
              /\ at[d] = "notify" \/ \E t \in Threads : Doing(t, "releaseAll", d)
  BY <1>1, PermitGiven
<1>3. w[1] = b /\ w[2] = waits'[b] /\ b \in Threads
  BY Staffed
<1>4. waits[b] = waits'[b] /\ todo[b] # <<>> /\ Head(todo[b]).what = "acquire"
  BY <1>2, <1>3 DEF IsWaiting
<1>5. /\ todo'[b] # <<>> /\ Head(todo'[b]) = Step("acquire", e)
      /\ Head(todo'[b]).what = "acquire" /\ Head(todo'[b]).who = e
  BY <1>1 DEF WaitsFor, Step
<1>6. Head(todo[b]).who = e
  BY <1>3, <1>5, OnNewestBefore DEF OnNewest, Waits
<1>7. Head(todo[b]) = Step("acquire", e)
  <2>1. todo[b] \in Seq(CallSteps)
    BY <1>3, TypeParts DEF TodoOK
  <2>2. Head(todo[b]) \in [what : StepKinds, who : Employees]
    BY <1>4, <2>1, HeadTailProperties DEF CallSteps
  <2>3. QED
    BY <1>4, <1>6, <2>2 DEF Step
<1>8. due'[b] = due[b] /\ hasty'[b] = hasty[b] /\ due[b] \in Nat
  <2>1. OwedOK /\ waits \in [Employees -> Nat]
    BY TypeParts DEF DataOK
  <2>2. CASE UNCHANGED owed
    BY <2>1, <2>2 DEF owed, OwedOK
  <2>3. ASSUME NEW c \in Employees, NEW d \in Employees, AppendWaiter(c, d)
        PROVE  due'[b] = due[b] /\ hasty'[b] = hasty[b]
    <3>1. c # b
      BY <1>4, <2>1, <2>3 DEF AppendWaiter
    <3>2. QED
      BY <2>1, <2>3, <3>1 DEF AppendWaiter, OwedOK
  <2>4. QED
    BY <2>1, <2>2, <2>3, OwedSteps DEF OwedOK
<1>9. ASSUME runs[e] >= due[b] \/ stop[e] \/ hasty[b]
      PROVE  runs'[e] >= due'[b] \/ stop'[e] \/ hasty'[b]
  BY <1>8, <1>9, RunsGrow, StopStays
<1>10. CASE w \in released
  BY <1>4, <1>7, <1>9, <1>10 DEF WaitAfterWork, LetOut, WaitsFor
<1>11. ASSUME NEW d \in Employees, w \in Range(doneWaiters[d]),
              at[d] = "notify" \/ \E t \in Threads : Doing(t, "releaseAll", d)
       PROVE  runs'[e] >= due'[b] \/ stop'[e] \/ hasty'[b]
  <2>1. d = e /\ Owes(e, b)
    BY <1>3, <1>4, <1>6, <1>11 DEF Waits, NewestWaiter, OnNewest
  <2>2. CASE at[d] = "notify"
    <3>1. hasty[b] \/ due[b] <= runs[e]
      BY <2>1, <2>2 DEF Owes
    <3>2. runs[e] \in Nat
      BY RunsGrow
    <3>3. QED
      BY <1>8, <1>9, <3>1, <3>2
  <2>3. ASSUME NEW t \in Threads, Doing(t, "releaseAll", d)
        PROVE  stop'[e]
    <3>1. /\ Len(todo[t]) \in Nat \ {0} /\ todo[t][1] = Step("releaseAll", d)
      BY <2>3, TypeParts, FirstStep
    <3>2. todo[t][1].what = "releaseAll" /\ todo[t][1].who = d /\ 1 \in 1..Len(todo[t])
      BY <3>1 DEF Step
    <3>3. stop[d]
      BY <3>2 DEF Waits, StopsFirst
    <3>4. QED
      BY <2>1, <3>3, StopStays
  <2>4. QED
    BY <1>11, <2>2, <2>3
<1>12. QED
  BY <1>2, <1>10, <1>11

LEMMA InitialWaits == Init => Waits /\ WaitAfterWork
<1> SUFFICES ASSUME Init PROVE Waits /\ WaitAfterWork
  OBVIOUS
<1>1. ASSUME NEW t \in Threads
      PROVE  InOrder(todo[t]) /\ StopsFirst(todo[t])
  <2>1. CASE t = Main
    <3> DEFINE q == Call(TheBoss)
    <3>1. /\ Len(q) = 3 /\ q[1] = Step("checkIdle", TheBoss) /\ q[2] = Step("checkStaying", TheBoss)
          /\ q[3] = Step("start", TheBoss)
      BY DEF Call
    <3>2. todo[t] = q
      BY <2>1, Staffed DEF Init
    <3> HIDE DEF q
    <3>3. \A i \in 1..Len(q) : q[i].what \in {"checkIdle", "checkStaying", "start"}
      BY <3>1 DEF Step
    <3>4. InOrder(q) /\ StopsFirst(q)
      BY <3>3 DEF InOrder, StopsFirst, CallKinds, StepKinds
    <3>5. QED
      BY <3>2, <3>4
  <2>2. CASE t # Main
    <3>1. todo[t] = <<>> /\ Len(<<>>) = 0
      BY <2>2 DEF Init
    <3>2. QED
      BY <3>1 DEF InOrder, StopsFirst
  <2>3. QED
    BY <2>1, <2>2
<1>2. NewestWaiter
  <2>1. \A e \in Employees : Range(doneWaiters[e]) = {}
    BY DEF Init, Range
  <2>2. QED
    BY <2>1 DEF NewestWaiter
<1>3. WaitAfterWork
  BY DEF Init, WaitAfterWork, LetOut
<1>4. QED
  BY <1>1, <1>2, <1>3 DEF Waits

(* A boss whose waiter has a permit waits for an employee who was told to   *)
(* stop or has finished, since the waiter was put into the list, the run    *)
(* that was on then, be it the first or a later one: exit() sets the flag   *)
(* before it resets the waiters, the list an employee tells after work      *)
(* holds only waiters of bosses who wait for him, and the runs are counted  *)
(* before the telling begins.  A waiter that is put into the list during    *)
(* the telling is told too early and is excluded (Employee.py:80-82,        *)
(* 131-134, 158-164).                                                       *)
THEOREM WaitsAfterWork == Spec => []WaitAfterWork
<1>1. Init => TypeOK /\ Waits /\ WaitAfterWork
  BY InitialTypes, InitialWaits
<1>2. TypeOK /\ Waits /\ WaitAfterWork /\ [Next]_vars => (TypeOK /\ Waits /\ WaitAfterWork)'
  BY TypesKept, WaitsKept, LetOutAfterWork
<1>3. QED
  BY <1>1, <1>2, PTL DEF Spec

-----------------------------------------------------------------------------
(* No call is lost.                                                         *)

(* Whom a thread may call: the main thread the boss, an employee his own    *)
(* sub-employees.                                                           *)
MayCall(t, e) == IF t = Main THEN e = TheBoss ELSE e \in Range(Subs[t])

(* A thread is about to start one employee at most, one it may call. *)
OneStart(t) ==
  /\ \A i, j \in 1..Len(todo[t]) : todo[t][i].what = "start" /\ todo[t][j].what = "start" => i = j
  /\ \A i \in 1..Len(todo[t]) : todo[t][i].what = "start" => MayCall(t, todo[t][i].who)

(* The start at place i: the employee is idle, or it is yet to be checked,  *)
(* or an exception will have been recorded by then.                         *)
Checked(t, i) ==
  \/ ~running[todo[t][i].who]
  \/ \E j \in 1..(i - 1) :
       todo[t][j].what = "record" \/ todo[t][j] = Step("checkIdle", todo[t][i].who)

StartsAreChecked ==
  exceptions = {} =>
    \A t \in Threads : \A i \in 1..Len(todo[t]) : todo[t][i].what = "start" => Checked(t, i)

Starts ==
  /\ \A t \in Threads : OneStart(t)
  /\ StartsAreChecked

LEMMA OneCaller ==
  ASSUME NEW t \in Threads, NEW u \in Threads, NEW e, MayCall(t, e), MayCall(u, e)
  PROVE  t = u
<1>1. (t = Main \/ t \in Employees) /\ (u = Main \/ u \in Employees)
  BY DEF Threads
<1>2. CASE t = Main
  BY <1>1, <1>2, UsageAssumption, Staffed DEF MayCall
<1>3. CASE u = Main
  BY <1>1, <1>3, UsageAssumption, Staffed DEF MayCall
<1>4. CASE t # Main /\ u # Main
  <2>1. t \in Employees /\ u \in Employees /\ e \in Range(Subs[t]) \cap Range(Subs[u])
    BY <1>1, <1>4 DEF MayCall
  <2>2. QED
    BY <2>1, UsageAssumption
<1>5. QED
  BY <1>2, <1>3, <1>4

LEMMA CallCounts ==
  ASSUME TypeOK, [Next]_vars
  PROVE  /\ exceptions \subseteq exceptions'
         /\ \/ UNCHANGED <<running, calls, runs>>
            \/ \E t \in Threads, e \in Employees : Start(t, e)
            \/ \E e \in Employees : FinishJob(e)
<1> DEFINE Counts ==
      /\ exceptions \subseteq exceptions'
      /\ \/ UNCHANGED <<running, calls, runs>>
         \/ \E t \in Threads, e \in Employees : Start(t, e)
         \/ \E e \in Employees : FinishJob(e)
<1>1. ASSUME NEW t \in Threads, CallStep(t)
      PROVE  Counts
  <2>1. PICK e \in Employees :
          \/ SetStop(t, e) \/ ReleaseAll(t, e) \/ Record(t, e) \/ Wake(t, e)
          \/ CheckIdle(t, e) \/ CheckStaying(t, e) \/ Start(t, e)
    BY <1>1 DEF CallStep
  <2>2. CASE Start(t, e)
    <3>1. exceptions' = exceptions
      BY <2>2 DEF Start
    <3>2. QED
      BY <2>2, <3>1
  <2>3. CASE ~Start(t, e)
    BY <2>1, <2>3 DEF SetStop, ReleaseAll, Record, Wake, CheckIdle, CheckStaying, flags, history
  <2>4. QED
    BY <2>2, <2>3
<1>2. ASSUME NEW e \in Employees, EmployeeStep(e), ~CallStep(e)
      PROVE  Counts
  <2>1. CASE FinishJob(e)
    <3>1. exceptions' = exceptions
      BY <2>1 DEF FinishJob
    <3>2. QED
      BY <2>1, <3>1
  <2>2. CASE ~FinishJob(e)
    BY <1>2, <2>2 DEF EmployeeStep, BossStep, AppendWaiter, CountIn, Acquire, CheckStop, Idle, Execute,
                      Crash, NotifyDone, ForgetWaiters, ThreadEnds, flags, history
  <2>3. QED
    BY <2>1, <2>2
<1>3. ASSUME MainStep, ~CallStep(Main)
      PROVE  Counts
  BY <1>3 DEF MainStep, CheckExceptions, CheckAlive, MainCountsIn, MainAcquires, MainCountsOut,
              ReturnError, flags, history
<1>4. ASSUME UNCHANGED vars
      PROVE  Counts
  BY <1>4 DEF vars, flags, history
<1>5. Counts
  <2> HIDE DEF Counts
  <2>1. CASE MainStep
    BY <1>1, <1>3, <2>1, Staffed
  <2>2. ASSUME NEW e \in Employees, EmployeeStep(e)
        PROVE  Counts
    BY <1>1, <1>2, <2>2, Staffed
  <2>3. QED
    BY <1>4, <2>1, <2>2 DEF Next
<1>6. QED
  BY <1>5

(* Which starts there are in what a thread begins. *)
LEMMA BegunStarts ==
  ASSUME OwnStaff, TypeOK, NEW t \in Threads, Begins(t)
  PROVE  \/ \A i \in 1..Len(todo'[t]) : todo'[t][i].what # "start"
         \/ \E d \in Employees : MayCall(t, d) /\ todo'[t] = Call(d)
<1> DEFINE NoStart(q) == \A i \in 1..Len(q) : q[i].what # "start"
<1>1. ASSUME t = Main, todo'[t] = ExitAll(Staff)
      PROVE  NoStart(todo'[t])
  BY <1>1, Staffed, ExitAllSteps
<1>2. ASSUME t \in Employees, todo'[t] = ExitAll(Subs[t]) \o <<Step("wake", t)>>
      PROVE  NoStart(todo'[t])
  BY <1>2, Staffed, LeavingSteps
<1>3. ASSUME t \in Employees, NEW k \in 1..Len(job[t]), todo'[t] = Steps(t, job[t][k])
      PROVE  NoStart(todo'[t]) \/ \E d \in Employees : MayCall(t, d) /\ todo'[t] = Call(d)
  <2>1. job[t] \in Seq(Instructions) /\ job \in Programs
    BY <1>3, TypeParts, JobTyped DEF DataOK
  <2>2. job[t][k] \in Instructions /\ k \in DOMAIN job[t]
    BY <2>1, ElementOfSeq
  <2>3. ASSUME todo'[t] = <<>>
        PROVE  NoStart(todo'[t])
    BY <2>3
  <2>4. ASSUME todo'[t] = Throw(t)
        PROVE  NoStart(todo'[t])
    <3>1. /\ Len(todo'[t]) = 4
          /\ todo'[t][1] = Step("stop", t) /\ todo'[t][2] = Step("releaseAll", t)
          /\ todo'[t][3] = Step("record", t) /\ todo'[t][4] = Step("wake", t)
      BY <1>3, <2>4, ThrowSteps
    <3>2. QED
      BY <3>1 DEF Step
  <2>5. ASSUME NEW d \in Employees, job[t][k] = <<"TELL", d>>, todo'[t] = Call(d)
        PROVE  MayCall(t, d)
    <3>1. job[t][k][1] = "TELL" /\ job[t][k][2] = d
      BY <2>5
    <3>2. d \in Range(Subs[t])
      BY <1>3, <2>1, <2>2, <3>1 DEF OwnStaff
    <3>3. QED
      BY <1>3, <3>2, Staffed DEF MayCall
  <2>6. ASSUME NEW d \in Employees, todo'[t] = Wait(d)
        PROVE  NoStart(todo'[t])
    <3>1. /\ Len(todo'[t]) = 3 /\ todo'[t][1] = Step("append", d)
          /\ todo'[t][2] = Step("countIn", d) /\ todo'[t][3] = Step("acquire", d)
      BY <2>6 DEF Wait
    <3>2. QED
      BY <3>1 DEF Step
  <2> HIDE DEF NoStart
  <2>7. ASSUME NEW d \in Employees, job[t][k] = <<"TELL", d>>, todo'[t] = Call(d)
        PROVE  \E c \in Employees : MayCall(t, c) /\ todo'[t] = Call(c)
    BY <2>5, <2>7
  <2>8. \/ Steps(t, job[t][k]) = <<>>
        \/ Steps(t, job[t][k]) = Throw(t)
        \/ \E d \in Employees : job[t][k] = <<"TELL", d>> /\ Steps(t, job[t][k]) = Call(d)
        \/ \E d \in Employees : Steps(t, job[t][k]) = Wait(d)
    BY <1>3, <2>2, BegunSteps
  <2>9. QED
    BY <1>3, <2>3, <2>4, <2>6, <2>7, <2>8
<1>4. QED
  BY <1>1, <1>2, <1>3 DEF Begins

LEMMA CallElements ==
  ASSUME NEW d \in Employees
  PROVE  /\ Len(Call(d)) = 3 /\ Call(d)[1] = Step("checkIdle", d)
         /\ \A i \in 1..Len(Call(d)) : Call(d)[i].what = "start" => i = 3 /\ Call(d)[i].who = d
<1>1. /\ Len(Call(d)) = 3 /\ Call(d)[1] = Step("checkIdle", d)
      /\ Call(d)[2] = Step("checkStaying", d) /\ Call(d)[3] = Step("start", d)
  BY DEF Call
<1>2. /\ Call(d)[1].what # "start" /\ Call(d)[2].what # "start" /\ Call(d)[3].who = d
  BY <1>1 DEF Step
<1>3. QED
  BY <1>1, <1>2

LEMMA OneStartKept ==
  ASSUME OwnStaff, TypeOK, [Next]_vars, NEW t \in Threads, OneStart(t)
  PROVE  OneStart(t)'
<1>1. TodoOK
  BY TypeParts
<1>2. CASE todo'[t] = todo[t]
  BY <1>2 DEF OneStart
<1>3. ASSUME NEW what, NEW e, Doing(t, what, e), Insert(t, <<>>)
      PROVE  OneStart(t)'
  <2>1. /\ Len(todo[t]) \in Nat \ {0} /\ Len(todo'[t]) = Len(todo[t]) - 1
        /\ \A i \in 1..Len(todo'[t]) : todo'[t][i] = todo[t][i + 1]
    BY <1>1, <1>3, TookFirst
  <2>2. ASSUME NEW i \in 1..Len(todo'[t]), todo'[t][i].what = "start"
        PROVE  /\ MayCall(t, todo'[t][i].who)
               /\ \A j \in 1..Len(todo'[t]) : todo'[t][j].what = "start" => i = j
    <3>1. i + 1 \in 1..Len(todo[t]) /\ todo'[t][i] = todo[t][i + 1]
      BY <2>1
    <3>2. ASSUME NEW j \in 1..Len(todo'[t]), todo'[t][j].what = "start"
          PROVE  i = j
      <4>1. j + 1 \in 1..Len(todo[t]) /\ todo'[t][j] = todo[t][j + 1]
        BY <2>1
      <4>2. i + 1 = j + 1
        BY <2>2, <3>1, <3>2, <4>1 DEF OneStart
      <4>3. QED
        BY <4>2
    <3>3. QED
      BY <2>2, <3>1, <3>2 DEF OneStart
  <2>3. QED
    BY <2>2 DEF OneStart, MayCall
<1>4. ASSUME NEW what, NEW e \in Employees, Doing(t, what, e), Insert(t, Throw(e))
      PROVE  OneStart(t)'
  <2>1. /\ Len(todo[t]) \in Nat \ {0} /\ Len(todo'[t]) = Len(todo[t]) + 3
        /\ todo'[t][1] = Step("stop", e) /\ todo'[t][2] = Step("releaseAll", e)
        /\ todo'[t][3] = Step("record", e) /\ todo'[t][4] = Step("wake", e)
        /\ \A i \in 5..Len(todo'[t]) : todo'[t][i] = todo[t][i - 3]
    BY <1>1, <1>4, Threw
  <2>2. \A i \in 1..4 : todo'[t][i].what # "start"
    BY <2>1 DEF Step
  <2>3. ASSUME NEW i \in 1..Len(todo'[t]), todo'[t][i].what = "start"
        PROVE  /\ i - 3 \in 1..Len(todo[t]) /\ todo'[t][i] = todo[t][i - 3]
               /\ MayCall(t, todo'[t][i].who)
    <3>1. i \in 5..Len(todo'[t])
      <4>1. i \notin 1..4
        BY <2>2, <2>3
      <4>2. QED
        BY <2>1, <4>1
    <3>2. i - 3 \in 1..Len(todo[t]) /\ todo'[t][i] = todo[t][i - 3]
      BY <2>1, <3>1
    <3>3. QED
      BY <2>3, <3>2 DEF OneStart
  <2>4. ASSUME NEW i \in 1..Len(todo'[t]), NEW j \in 1..Len(todo'[t]),
               todo'[t][i].what = "start", todo'[t][j].what = "start"
        PROVE  i = j
    <3>1. i - 3 = j - 3
      BY <2>3, <2>4 DEF OneStart
    <3>2. QED
      BY <3>1
  <2>5. QED
    BY <2>3, <2>4 DEF OneStart, MayCall
<1>5. CASE TakesStep(t)
  BY <1>3, <1>4, <1>5 DEF TakesStep
<1>6. ASSUME NEW d \in Employees, MayCall(t, d), todo'[t] = Call(d)
      PROVE  OneStart(t)'
  <2>1. \A i \in 1..Len(todo'[t]) : todo'[t][i].what = "start" => i = 3 /\ todo'[t][i].who = d
    BY <1>6, CallElements
  <2>2. MayCall(t, d)'
    BY <1>6 DEF MayCall
  <2>3. QED
    BY <2>1, <2>2 DEF OneStart
<1>7. ASSUME \A i \in 1..Len(todo'[t]) : todo'[t][i].what # "start"
      PROVE  OneStart(t)'
  BY <1>7 DEF OneStart
<1>8. CASE Begins(t)
  BY <1>6, <1>7, <1>8, BegunStarts
<1>9. QED
  BY <1>2, <1>5, <1>8, TodoCases

(* Nobody else starts the employee a thread is about to start. *)
LEMMA NotStarted ==
  ASSUME OwnStaff, TypeOK, [Next]_vars, \A t \in Threads : OneStart(t), NEW t \in Threads,
         NEW i \in 1..Len(todo'[t]), todo'[t][i].what = "start",
         NEW u \in Threads, NEW e \in Employees, Start(u, e)
  PROVE  e # todo'[t][i].who
<1>1. SUFFICES ASSUME e = todo'[t][i].who
               PROVE  FALSE
  OBVIOUS
<1>2. TodoOK
  BY TypeParts
<1>3. Doing(u, "start", e) /\ Insert(u, <<>>)
  BY DEF Start, Done
<1>4. /\ Len(todo[u]) \in Nat \ {0} /\ todo[u][1] = Step("start", e)
      /\ Len(todo'[u]) = Len(todo[u]) - 1
      /\ \A k \in 1..Len(todo'[u]) : todo'[u][k] = todo[u][k + 1]
  BY <1>2, <1>3, TookFirst
<1>5. todo[u][1].what = "start" /\ todo[u][1].who = e /\ 1 \in 1..Len(todo[u])
  BY <1>4 DEF Step
<1>6. MayCall(u, e)
  BY <1>5 DEF OneStart
<1>7. MayCall(t, e)
  <2>1. OneStart(t)'
    BY OneStartKept
  <2>2. QED
    BY <1>1, <2>1 DEF OneStart, MayCall
<1>8. t = u
  BY <1>6, <1>7, OneCaller
<1>9. i + 1 \in 1..Len(todo[t]) /\ todo[t][i + 1].what = "start"
  BY <1>4, <1>8
<1>10. i + 1 = 1
  BY <1>5, <1>8, <1>9 DEF OneStart
<1>11. QED
  BY <1>10

LEMMA StaysIdle ==
  ASSUME OwnStaff, TypeOK, [Next]_vars, \A t \in Threads : OneStart(t), NEW t \in Threads,
         NEW i \in 1..Len(todo'[t]), todo'[t][i].what = "start", ~running[todo'[t][i].who]
  PROVE  ~running'[todo'[t][i].who]
<1> DEFINE x == todo'[t][i].who
<1>1. running \in [Employees -> BOOLEAN]
  BY TypeParts DEF DataOK
<1>2. x \in Employees
  <2>1. todo'[t] \in Seq(CallSteps)
    BY TypesKept, TypePartsNext DEF TodoOK
  <2>2. todo'[t][i] \in CallSteps
    BY <2>1, ElementOfSeq
  <2>3. QED
    BY <2>2 DEF CallSteps
<1>3. CASE UNCHANGED running
  BY <1>3
<1>4. ASSUME NEW u \in Threads, NEW e \in Employees, Start(u, e)
      PROVE  ~running'[x]
  <2>1. e # x
    BY <1>4, NotStarted
  <2>2. QED
    BY <1>1, <1>2, <1>4, <2>1 DEF Start
<1>5. ASSUME NEW e \in Employees, FinishJob(e)
      PROVE  ~running'[x]
  BY <1>1, <1>2, <1>5 DEF FinishJob
<1>6. QED
  BY <1>3, <1>4, <1>5, CallCounts

LEMMA CheckedKept ==
  ASSUME OwnStaff, TypeOK, [Next]_vars, Starts
  PROVE  StartsAreChecked'
<1>1. SUFFICES ASSUME exceptions' = {}, NEW t \in Threads, NEW i \in 1..Len(todo'[t]),
                      todo'[t][i].what = "start"
               PROVE  Checked(t, i)'
  BY DEF StartsAreChecked
<1>2. exceptions = {}
  BY <1>1, CallCounts
<1>3. TodoOK
  BY TypeParts
<1>4. ~running[todo'[t][i].who] => ~running'[todo'[t][i].who]
  BY <1>1, StaysIdle DEF Starts
<1>5. \A k \in 1..Len(todo[t]) : todo[t][k].what = "start" => Checked(t, k)
  BY <1>2 DEF Starts, StartsAreChecked
<1>6. CASE todo'[t] = todo[t]
  BY <1>1, <1>4, <1>5, <1>6 DEF Checked
<1>7. ASSUME NEW what, NEW e \in Employees, Doing(t, what, e), Insert(t, <<>>),
             what = "checkIdle" => ~running[e], what = "record" => exceptions' # {}
      PROVE  Checked(t, i)'
  <2>1. /\ Len(todo[t]) \in Nat \ {0} /\ todo[t][1] = Step(what, e)
        /\ Len(todo'[t]) = Len(todo[t]) - 1
        /\ \A k \in 1..Len(todo'[t]) : todo'[t][k] = todo[t][k + 1]
    BY <1>3, <1>7, TookFirst
  <2>2. i + 1 \in 1..Len(todo[t]) /\ todo'[t][i] = todo[t][i + 1] /\ (i + 1) - 1 = i
    <3>1. todo'[t][i] = todo[t][i + 1]
      BY <2>1
    <3>2. Len(todo'[t]) = Len(todo[t]) - 1 /\ Len(todo[t]) \in Nat
      BY <2>1
    <3>3. i + 1 \in 1..Len(todo[t]) /\ (i + 1) - 1 = i
      BY <3>2
    <3>4. QED
      BY <3>1, <3>3
  <2>3. Checked(t, i + 1)
    BY <1>1, <1>5, <2>2
  <2>4. CASE ~running[todo'[t][i].who]
    BY <1>4, <2>4 DEF Checked
  <2>5. ASSUME NEW j \in 1..i,
               todo[t][j].what = "record" \/ todo[t][j] = Step("checkIdle", todo'[t][i].who)
        PROVE  Checked(t, i)'
    <3>1. CASE j = 1
      <4>1. what # "record"
        BY <1>1, <1>7
      <4>2. todo[t][1].what = what /\ todo[t][1].who = e
        BY <2>1 DEF Step
      <4>3. what = "checkIdle" /\ e = todo'[t][i].who
        BY <2>1, <2>5, <3>1, <4>1, <4>2 DEF Step
      <4>4. QED
        BY <1>4, <1>7, <4>3 DEF Checked
    <3>2. CASE j # 1
      <4>1. j - 1 \in 1..(i - 1) /\ j - 1 \in 1..Len(todo'[t]) /\ (j - 1) + 1 = j
        BY <2>1, <3>2
      <4>2. todo'[t][j - 1] = todo[t][j]
        BY <2>1, <4>1
      <4>3. QED
        BY <2>5, <4>1, <4>2 DEF Checked
    <3>3. QED
      BY <3>1, <3>2
  <2>6. QED
    BY <2>2, <2>3, <2>4, <2>5 DEF Checked
<1>8. ASSUME NEW what, NEW e \in Employees, Doing(t, what, e), Insert(t, Throw(e))
      PROVE  Checked(t, i)'
  <2>1. /\ todo'[t][1] = Step("stop", e) /\ todo'[t][2] = Step("releaseAll", e)
        /\ todo'[t][3] = Step("record", e) /\ todo'[t][4] = Step("wake", e)
    BY <1>3, <1>8, Threw
  <2>2. i \notin {1, 2, 3, 4}
    BY <1>1, <2>1 DEF Step
  <2>3. 3 \in 1..(i - 1) /\ todo'[t][3].what = "record"
    <3>1. i \in Nat /\ i > 0
      BY <1>3, <1>8, Threw
    <3>2. QED
      BY <2>1, <2>2, <3>1 DEF Step
  <2>4. QED
    BY <2>3 DEF Checked
<1>9. CASE TakesStep(t)
  BY <1>7, <1>8, <1>9 DEF TakesStep
<1>10. CASE Begins(t)
  <2>1. PICK d \in Employees : todo'[t] = Call(d)
    BY <1>1, <1>10, BegunStarts
  <2>2. i = 3 /\ todo'[t][1] = Step("checkIdle", d) /\ todo'[t][i].who = d
    BY <1>1, <2>1, CallElements
  <2>3. 1 \in 1..(i - 1)
    BY <2>2
  <2>4. QED
    BY <2>2, <2>3 DEF Checked
<1>11. QED
  BY <1>6, <1>9, <1>10, TodoCases

Balanced ==
  exceptions = {} => \A e \in Employees : calls[e] = runs[e] + (IF running[e] THEN 1 ELSE 0)

LEMMA CallsBalanced ==
  ASSUME TypeOK, [Next]_vars, Starts, Balanced
  PROVE  Balanced'
<1>1. SUFFICES ASSUME exceptions' = {}, NEW e \in Employees
               PROVE  calls'[e] = runs'[e] + (IF running'[e] THEN 1 ELSE 0)
  BY DEF Balanced
<1>2. exceptions = {}
  BY <1>1, CallCounts
<1>3. calls[e] = runs[e] + (IF running[e] THEN 1 ELSE 0)
  BY <1>2 DEF Balanced
<1>4. /\ calls \in [Employees -> Nat] /\ runs \in [Employees -> Nat]
      /\ running \in [Employees -> BOOLEAN]
  BY TypeParts DEF DataOK
<1>5. CASE UNCHANGED <<running, calls, runs>>
  BY <1>3, <1>5
<1>6. ASSUME NEW t \in Threads, NEW d \in Employees, Start(t, d)
      PROVE  calls'[e] = runs'[e] + (IF running'[e] THEN 1 ELSE 0)
  <2>1. /\ Doing(t, "start", d) /\ running' = [running EXCEPT ![d] = TRUE]
        /\ calls' = [calls EXCEPT ![d] = @ + 1] /\ UNCHANGED runs
    BY <1>6 DEF Start
  <2>2. CASE d # e
    BY <1>3, <1>4, <2>1, <2>2
  <2>3. CASE d = e
    <3>1. todo[t][1] = Step("start", d) /\ Len(todo[t]) \in Nat \ {0}
      BY <2>1, TypeParts, FirstStep
    <3>2. todo[t][1].what = "start" /\ todo[t][1].who = d /\ 1 \in 1..Len(todo[t])
      BY <3>1 DEF Step
    <3>3. Checked(t, 1)
      BY <1>2, <3>2 DEF Starts, StartsAreChecked
    <3>4. ~running[e]
      BY <2>3, <3>2, <3>3 DEF Checked
    <3>5. QED
      BY <1>3, <1>4, <2>1, <2>3, <3>4
  <2>4. QED
    BY <2>2, <2>3
<1>7. ASSUME NEW d \in Employees, FinishJob(d)
      PROVE  calls'[e] = runs'[e] + (IF running'[e] THEN 1 ELSE 0)
  <2>1. /\ running[d] /\ running' = [running EXCEPT ![d] = FALSE]
        /\ runs' = [runs EXCEPT ![d] = @ + 1] /\ UNCHANGED calls
    BY <1>7 DEF FinishJob, AtEnd
  <2>2. CASE d # e
    BY <1>3, <1>4, <2>1, <2>2
  <2>3. CASE d = e
    BY <1>3, <1>4, <2>1, <2>3
  <2>4. QED
    BY <2>2, <2>3
<1>8. QED
  BY <1>5, <1>6, <1>7, CallCounts

LEMMA InitialStarts == Init => Starts /\ Balanced
<1> SUFFICES ASSUME Init PROVE Starts /\ Balanced
  OBVIOUS
<1>1. ASSUME NEW t \in Threads
      PROVE  /\ OneStart(t)
             /\ \A i \in 1..Len(todo[t]) : todo[t][i].what = "start" => Checked(t, i)
  <2>1. CASE t = Main
    <3>1. todo[t] = Call(TheBoss)
      BY <2>1, Staffed DEF Init
    <3>2. \A i \in 1..Len(todo[t]) : todo[t][i].what = "start" => i = 3 /\ todo[t][i].who = TheBoss
      BY <3>1, CallElements, Staffed
    <3>3. MayCall(t, TheBoss)
      BY <2>1 DEF MayCall
    <3>4. ~running[TheBoss]
      BY Staffed DEF Init
    <3>5. QED
      BY <3>2, <3>3, <3>4 DEF OneStart, Checked
  <2>2. CASE t # Main
    <3>1. todo[t] = <<>> /\ Len(<<>>) = 0
      BY <2>2 DEF Init
    <3>2. 1..Len(todo[t]) = {}
      BY <3>1
    <3>3. QED
      BY <3>2 DEF OneStart
  <2>3. QED
    BY <2>1, <2>2
<1>2. Balanced
  BY DEF Init, Balanced
<1>3. QED
  BY <1>1, <1>2 DEF Starts, StartsAreChecked

-----------------------------------------------------------------------------
(* Who is gone was told to stop, and by whom.                               *)

(* The boss is called once. *)
CalledOnce ==
  \A t \in Threads : \A i \in 1..Len(todo[t]) :
    todo[t][i].what = "start" /\ todo[t][i].who = TheBoss => calls[TheBoss] = 0

RunsWhenCalled == \A e \in Employees : running[e] => calls[e] > 0

(* Why an employee has left his loop. *)
LeftFor(e) ==
  \/ Crashed(e)
  \/ stop[e]
  \/ e = TheBoss /\ calls[e] > 0 /\ ~running[e]

(* While all is calm, only a boss who leaves tells anybody to stop. *)
StopsOwnStaff(t) ==
  \A i \in 1..Len(todo[t]) :
    todo[t][i].what = "stop" => at[t] = "leaving" /\ t \in Employees /\ todo[t][i].who \in Range(Subs[t])

SentHome ==
  /\ CalledOnce
  /\ RunsWhenCalled
  /\ \A e \in Employees : Gone(e) => LeftFor(e)
  /\ Calm => /\ \A t \in Threads : StopsOwnStaff(t)
             /\ \A e \in Employees : stop[e] => BossIsGone(e)

(* Where a thread is in its loop changes only when it has nothing to finish; *)
(* nobody comes back, and who leaves was told to, or crashed, or is the boss *)
(* who has done his job.                                                     *)
LEMMA PlaceSteps ==
  ASSUME TypeOK, [Next]_vars, NEW e \in Employees
  PROVE  /\ todo[e] # <<>> => at'[e] = at[e]
         /\ Gone(e) => Gone(e)' /\ (Crashed(e) => Crashed(e)')
         /\ ~Gone(e) /\ Gone(e)' => stop[e] \/ Crash(e) \/ (e = TheBoss /\ FinishJob(e))
<1>1. at \in [Threads -> Labels] /\ ip \in [Employees -> Nat] /\ e \in Threads /\ e # Main
  BY TypeParts, Staffed DEF DataOK
<1> DEFINE Kept == at'[e] = at[e] /\ ip'[e] = ip[e] /\ job' = job
<1>2. ASSUME Kept
      PROVE  /\ at'[e] = at[e] /\ (Gone(e) <=> Gone(e)')
             /\ Crashed(e) <=> Crashed(e)'
  BY <1>2 DEF Gone, Crashed, Fetched
<1>3. ASSUME NEW t \in Threads, CallStep(t)
      PROVE  Kept
  BY <1>3 DEF CallStep, SetStop, ReleaseAll, Record, Wake, CheckIdle, CheckStaying, Start, loopVars
<1>4. ASSUME NEW d \in Employees, BossStep(d)
      PROVE  Kept
  BY <1>4 DEF BossStep, AppendWaiter, CountIn, Acquire, loopVars
<1>5. ASSUME MainStep, ~CallStep(Main)
      PROVE  Kept
  BY <1>1, <1>5 DEF MainStep, CheckExceptions, CheckAlive, MainCountsIn, MainAcquires, MainCountsOut,
                    ReturnError, Goto
<1>6. CASE UNCHANGED vars
  BY <1>2, <1>6 DEF vars, loopVars
<1>7. ASSUME NEW d \in Employees, EmployeeStep(d), ~CallStep(d), ~BossStep(d)
      PROVE  Kept \/ (d = e /\ todo[e] = <<>>)
  <2>1. CASE CheckStop(d) \/ FinishJob(d)
    BY <1>1, <2>1, Staffed DEF CheckStop, FinishJob, AtEnd, IsAt, Leave, Goto
  <2>2. CASE Idle(d) \/ Execute(d) \/ Crash(d)
    BY <1>1, <2>2, Staffed DEF Idle, Execute, Crash, AtInstruction, IsAt, Goto
  <2>3. CASE NotifyDone(d) \/ ForgetWaiters(d) \/ ThreadEnds(d)
    BY <1>1, <2>3, Staffed DEF NotifyDone, ForgetWaiters, ThreadEnds, IsAt, Goto
  <2>4. QED
    BY <1>7, <2>1, <2>2, <2>3 DEF EmployeeStep
<1>8. ASSUME todo[e] = <<>>, EmployeeStep(e), ~CallStep(e), ~BossStep(e)
      PROVE  /\ Gone(e) => Gone(e)' /\ (Crashed(e) => Crashed(e)')
             /\ ~Gone(e) /\ Gone(e)' => stop[e] \/ Crash(e) \/ (e = TheBoss /\ FinishJob(e))
  <2>1. CASE CheckStop(e)
    BY <1>1, <2>1 DEF CheckStop, IsAt, Leave, Goto, Gone, Crashed
  <2>2. CASE FinishJob(e)
    BY <1>1, <2>2 DEF FinishJob, AtEnd, IsAt, Leave, Goto, Gone, Crashed
  <2>3. CASE Crash(e)
    BY <1>1, <2>3 DEF Crash, AtInstruction, IsAt, Gone, Crashed
  <2>4. CASE ThreadEnds(e)
    BY <1>1, <2>4 DEF ThreadEnds, IsAt, Goto, Gone, Crashed
  <2>5. CASE Idle(e) \/ Execute(e) \/ NotifyDone(e) \/ ForgetWaiters(e)
    BY <1>1, <2>5 DEF Idle, Execute, AtInstruction, NotifyDone, ForgetWaiters, IsAt, Goto, Gone, Crashed
  <2>6. QED
    BY <1>8, <2>1, <2>2, <2>3, <2>4, <2>5 DEF EmployeeStep
<1> HIDE DEF Kept
<1>9. CASE MainStep
  <2>1. Kept
    BY <1>3, <1>5, <1>9, Staffed
  <2>2. QED
    BY <1>2, <2>1
<1>10. ASSUME NEW d \in Employees, EmployeeStep(d)
       PROVE  Kept \/ (d = e /\ todo[e] = <<>> /\ ~CallStep(d) /\ ~BossStep(d))
  BY <1>3, <1>4, <1>7, <1>10, Staffed
<1>11. QED
  BY <1>2, <1>6, <1>8, <1>9, <1>10 DEF Next

LEMMA StopSteps ==
  ASSUME TypeOK, [Next]_vars, NEW e \in Employees, stop'[e], ~stop[e]
  PROVE  \E t \in Threads : Doing(t, "stop", e)
<1>1. stop \in [Employees -> BOOLEAN]
  BY TypeParts DEF DataOK
<1>2. ASSUME NEW t \in Threads, CallStep(t)
      PROVE  Doing(t, "stop", e)
  <2>1. PICK d \in Employees : SetStop(t, d)
    BY <1>1, <1>2 DEF CallStep, SetStop, ReleaseAll, Record, Wake, CheckIdle, CheckStaying, Start, flags
  <2>2. d = e
    BY <1>1, <2>1 DEF SetStop
  <2>3. QED
    BY <2>1, <2>2 DEF SetStop
<1>3. ASSUME NEW d \in Employees, EmployeeStep(d), ~CallStep(d)
      PROVE  FALSE
  BY <1>1, <1>3 DEF EmployeeStep, BossStep, AppendWaiter, CountIn, Acquire, CheckStop, Idle, Execute,
                    Crash, FinishJob, NotifyDone, ForgetWaiters, ThreadEnds, flags
<1>4. ASSUME MainStep, ~CallStep(Main)
      PROVE  FALSE
  BY <1>1, <1>4 DEF MainStep, CheckExceptions, CheckAlive, MainCountsIn, MainAcquires, MainCountsOut,
                    ReturnError, flags
<1>5. ~UNCHANGED vars
  BY <1>1 DEF vars, flags
<1>6. QED
  BY <1>2, <1>3, <1>4, <1>5, Staffed DEF Next

(* What was not calm does not become so. *)
LEMMA CalmBefore ==
  ASSUME TypeOK, [Next]_vars, Calm'
  PROVE  Calm
<1>1. exceptions' = {} /\ \A t \in Threads : \A i \in 1..Len(todo'[t]) : todo'[t][i].what # "record"
  BY DEF Calm
<1>2. exceptions = {} /\ TodoOK
  BY <1>1, CallCounts, TypeParts
<1>3. ASSUME NEW t \in Threads, NEW i \in 1..Len(todo[t]), todo[t][i].what = "record"
      PROVE  FALSE
  <2>1. CASE todo'[t] = todo[t]
    BY <1>1, <1>3, <2>1
  <2>2. ASSUME NEW what, NEW e, Doing(t, what, e), Insert(t, <<>>), what = "record" => exceptions' # {}
        PROVE  FALSE
    <3>1. /\ Len(todo[t]) \in Nat \ {0} /\ todo[t][1] = Step(what, e)
          /\ Len(todo'[t]) = Len(todo[t]) - 1
          /\ \A k \in 1..Len(todo'[t]) : todo'[t][k] = todo[t][k + 1]
      BY <1>2, <2>2, TookFirst
    <3>2. CASE i = 1
      BY <1>1, <1>3, <2>2, <3>1, <3>2 DEF Step
    <3>3. CASE i # 1
      <4>1. i - 1 \in 1..Len(todo'[t]) /\ (i - 1) + 1 = i
        BY <3>1, <3>3
      <4>2. todo'[t][i - 1] = todo[t][i]
        BY <3>1, <4>1
      <4>3. QED
        BY <1>1, <1>3, <4>1, <4>2
    <3>4. QED
      BY <3>2, <3>3
  <2>3. ASSUME NEW what, NEW e \in Employees, Doing(t, what, e), Insert(t, Throw(e))
        PROVE  FALSE
    <3>1. /\ todo'[t][3] = Step("record", e) /\ Len(todo'[t]) = Len(todo[t]) + 3
          /\ Len(todo[t]) \in Nat \ {0}
      BY <1>2, <2>3, Threw
    <3>2. 3 \in 1..Len(todo'[t]) /\ todo'[t][3].what = "record"
      BY <3>1 DEF Step
    <3>3. QED
      BY <1>1, <3>2
  <2>4. CASE TakesStep(t)
    BY <2>2, <2>3, <2>4 DEF TakesStep
  <2>5. CASE Begins(t)
    <3>1. todo[t] = <<>> /\ Len(<<>>) = 0
      BY <2>5 DEF Begins
    <3>2. QED
      BY <1>3, <3>1
  <2>6. QED
    BY <2>1, <2>4, <2>5, TodoCases
<1>4. QED
  BY <1>2, <1>3 DEF Calm

LEMMA StopsOwnStaffKept ==
  ASSUME TypeOK, [Next]_vars, Calm', NEW t \in Threads, StopsOwnStaff(t)
  PROVE  StopsOwnStaff(t)'
<1>1. exceptions' = {} /\ \A i \in 1..Len(todo'[t]) : todo'[t][i].what # "record"
  BY DEF Calm
<1>2. TodoOK /\ exceptions = {}
  BY <1>1, CallCounts, TypeParts
<1>3. t \in Employees /\ todo[t] # <<>> => at'[t] = at[t]
  BY PlaceSteps
<1>4. SUFFICES ASSUME NEW i \in 1..Len(todo'[t]), todo'[t][i].what = "stop"
               PROVE  at'[t] = "leaving" /\ t \in Employees /\ todo'[t][i].who \in Range(Subs[t])
  BY DEF StopsOwnStaff
<1>5. CASE todo'[t] = todo[t]
  <2>1. at[t] = "leaving" /\ t \in Employees /\ todo'[t][i].who \in Range(Subs[t])
    BY <1>4, <1>5 DEF StopsOwnStaff
  <2>2. todo[t] # <<>>
    <3>1. Len(<<>>) = 0
      OBVIOUS
    <3>2. QED
      BY <1>4, <1>5, <3>1
  <2>3. QED
    BY <1>3, <2>1, <2>2
<1>6. ASSUME NEW what, NEW e, Doing(t, what, e), Insert(t, <<>>)
      PROVE  at'[t] = "leaving" /\ t \in Employees /\ todo'[t][i].who \in Range(Subs[t])
  <2>1. /\ Len(todo[t]) \in Nat \ {0} /\ Len(todo'[t]) = Len(todo[t]) - 1
        /\ \A k \in 1..Len(todo'[t]) : todo'[t][k] = todo[t][k + 1]
    BY <1>2, <1>6, TookFirst
  <2>2. i + 1 \in 1..Len(todo[t]) /\ todo'[t][i] = todo[t][i + 1]
    BY <2>1
  <2>3. at[t] = "leaving" /\ t \in Employees /\ todo'[t][i].who \in Range(Subs[t])
    BY <1>4, <2>2 DEF StopsOwnStaff
  <2>4. QED
    BY <1>3, <1>6, <2>3 DEF Doing
<1>7. ASSUME NEW what, NEW e \in Employees, Doing(t, what, e), Insert(t, Throw(e))
      PROVE  FALSE
  <2>1. /\ todo'[t][3] = Step("record", e) /\ Len(todo'[t]) = Len(todo[t]) + 3
        /\ Len(todo[t]) \in Nat \ {0}
    BY <1>2, <1>7, Threw
  <2>2. 3 \in 1..Len(todo'[t]) /\ todo'[t][3].what = "record"
    BY <2>1 DEF Step
  <2>3. QED
    BY <1>1, <2>2
<1>8. CASE TakesStep(t)
  BY <1>6, <1>7, <1>8 DEF TakesStep
<1>9. CASE Begins(t)
  <2>1. ~(t = Main /\ exceptions # {})
    BY <1>2
  <2>2. CASE t \in Employees /\ at'[t] = "leaving" /\ todo'[t] = ExitAll(Subs[t]) \o <<Step("wake", t)>>
    BY <1>4, <2>2, LeavingStops, Staffed
  <2>3. ASSUME t \in Employees, NEW k \in 1..Len(job[t]), todo'[t] = Steps(t, job[t][k])
        PROVE  FALSE
    <3>1. job[t] \in Seq(Instructions)
      BY <2>3, TypeParts, JobTyped
    <3>2. job[t][k] \in Instructions
      BY <2>3, <3>1, ElementOfSeq
    <3>3. CASE todo'[t] = <<>>
      BY <1>4, <3>3
    <3>4. CASE todo'[t] = Throw(t)
      <4>1. Len(todo'[t]) = 4 /\ todo'[t][3] = Step("record", t)
        BY <2>3, <3>4, ThrowSteps
      <4>2. 3 \in 1..Len(todo'[t]) /\ todo'[t][3].what = "record"
        BY <4>1 DEF Step
      <4>3. QED
        BY <1>1, <4>2
    <3>5. ASSUME NEW d \in Employees, todo'[t] = Call(d)
          PROVE  FALSE
      <4>1. /\ Len(todo'[t]) = 3 /\ todo'[t][1] = Step("checkIdle", d)
            /\ todo'[t][2] = Step("checkStaying", d) /\ todo'[t][3] = Step("start", d)
        BY <3>5 DEF Call
      <4>2. QED
        BY <1>4, <4>1 DEF Step
    <3>6. ASSUME NEW d \in Employees, todo'[t] = Wait(d)
          PROVE  FALSE
      <4>1. /\ Len(todo'[t]) = 3 /\ todo'[t][1] = Step("append", d)
            /\ todo'[t][2] = Step("countIn", d) /\ todo'[t][3] = Step("acquire", d)
        BY <3>6 DEF Wait
      <4>2. QED
        BY <1>4, <4>1 DEF Step
    <3>7. QED
      BY <2>3, <3>2, <3>3, <3>4, <3>5, <3>6, BegunSteps
  <2>4. QED
    BY <1>9, <2>1, <2>2, <2>3 DEF Begins
<1>10. QED
  BY <1>5, <1>8, <1>9, TodoCases

(* The boss is called by the main thread, which calls nobody else. *)
LEMMA CalledOnceKept ==
  ASSUME OwnStaff, TypeOK, [Next]_vars, \A t \in Threads : OneStart(t), CalledOnce
  PROVE  CalledOnce'
<1>1. SUFFICES ASSUME NEW t \in Threads, NEW i \in 1..Len(todo'[t]),
                      todo'[t][i].what = "start", todo'[t][i].who = TheBoss
               PROVE  calls'[TheBoss] = 0
  BY DEF CalledOnce
<1>2. TodoOK /\ calls \in [Employees -> Nat]
  BY TypeParts DEF DataOK
<1>3. calls'[TheBoss] = calls[TheBoss]
  <2>1. ASSUME NEW u \in Threads, NEW e \in Employees, Start(u, e)
        PROVE  e # TheBoss
    BY <1>1, <2>1, NotStarted
  <2>2. QED
    BY <1>2, <2>1, CallCounts, Staffed DEF Start, FinishJob
<1>4. \E j \in 1..Len(todo[t]) : todo[t][j].what = "start" /\ todo[t][j].who = TheBoss
  <2>1. CASE todo'[t] = todo[t]
    BY <1>1, <2>1
  <2>2. ASSUME NEW what, NEW e, Doing(t, what, e), Insert(t, <<>>)
        PROVE  \E j \in 1..Len(todo[t]) : todo[t][j].what = "start" /\ todo[t][j].who = TheBoss
    <3>1. /\ Len(todo[t]) \in Nat \ {0} /\ Len(todo'[t]) = Len(todo[t]) - 1
          /\ \A k \in 1..Len(todo'[t]) : todo'[t][k] = todo[t][k + 1]
      BY <1>2, <2>2, TookFirst
    <3>2. i + 1 \in 1..Len(todo[t]) /\ todo'[t][i] = todo[t][i + 1]
      BY <3>1
    <3>3. QED
      BY <1>1, <3>2
  <2>3. ASSUME NEW what, NEW e \in Employees, Doing(t, what, e), Insert(t, Throw(e))
        PROVE  \E j \in 1..Len(todo[t]) : todo[t][j].what = "start" /\ todo[t][j].who = TheBoss
    <3>1. /\ Len(todo[t]) \in Nat \ {0} /\ Len(todo'[t]) = Len(todo[t]) + 3
          /\ todo'[t][1] = Step("stop", e) /\ todo'[t][2] = Step("releaseAll", e)
          /\ todo'[t][3] = Step("record", e) /\ todo'[t][4] = Step("wake", e)
          /\ \A k \in 5..Len(todo'[t]) : todo'[t][k] = todo[t][k - 3]
      BY <1>2, <2>3, Threw
    <3>2. i \notin 1..4
      BY <1>1, <3>1 DEF Step
    <3>3. i \in 5..Len(todo'[t])
      BY <3>1, <3>2
    <3>4. todo'[t][i] = todo[t][i - 3]
      BY <3>1, <3>3
    <3>5. i - 3 \in 1..Len(todo[t])
      <4>1. Len(todo'[t]) = Len(todo[t]) + 3 /\ Len(todo[t]) \in Nat
        BY <3>1
      <4>2. QED
        BY <3>3, <4>1
    <3>6. QED
      BY <1>1, <3>4, <3>5
  <2>4. CASE TakesStep(t)
    BY <2>2, <2>3, <2>4 DEF TakesStep
  <2>5. CASE Begins(t)
    <3>1. PICK d \in Employees : MayCall(t, d) /\ todo'[t] = Call(d)
      BY <1>1, <2>5, BegunStarts
    <3>2. d = TheBoss
      BY <1>1, <3>1, CallElements
    <3>3. t = Main
      BY <3>1, <3>2, UsageAssumption DEF MayCall, Threads
    <3>4. todo'[t] = ExitAll(Staff)
      BY <2>5, <3>3, Staffed DEF Begins
    <3>5. QED
      BY <1>1, <3>4, Staffed, ExitAllSteps
  <2>6. QED
    BY <2>1, <2>4, <2>5, TodoCases
<1>5. QED
  BY <1>3, <1>4 DEF CalledOnce

LEMMA SentHomeKept ==
  ASSUME OwnStaff, TypeOK, [Next]_vars, \A t \in Threads : OneStart(t), SentHome
  PROVE  SentHome'
<1>1. /\ TodoOK /\ calls \in [Employees -> Nat] /\ running \in [Employees -> BOOLEAN]
      /\ stop \in [Employees -> BOOLEAN]
  BY TypeParts DEF DataOK
<1>2. CalledOnce'
  BY CalledOnceKept DEF SentHome
<1>3. ASSUME NEW e \in Employees
      PROVE  /\ calls'[e] >= calls[e] /\ (running'[e] => running[e] \/ calls'[e] > 0)
             /\ e = TheBoss /\ running'[e] /\ ~running[e] => calls[e] = 0
  <2>1. CASE UNCHANGED <<running, calls, runs>>
    BY <1>1, <2>1
  <2>2. ASSUME NEW t \in Threads, NEW d \in Employees, Start(t, d)
        PROVE  /\ calls'[e] >= calls[e] /\ (running'[e] => running[e] \/ calls'[e] > 0)
               /\ e = TheBoss /\ running'[e] /\ ~running[e] => calls[e] = 0
    <3>1. /\ Doing(t, "start", d) /\ running' = [running EXCEPT ![d] = TRUE]
          /\ calls' = [calls EXCEPT ![d] = @ + 1]
      BY <2>2 DEF Start
    <3>2. CASE d # e
      BY <1>1, <3>1, <3>2
    <3>3. CASE d = e
      <4>1. todo[t][1] = Step("start", d) /\ Len(todo[t]) \in Nat \ {0}
        BY <1>1, <3>1, FirstStep
      <4>2. todo[t][1].what = "start" /\ todo[t][1].who = d /\ 1 \in 1..Len(todo[t])
        BY <4>1 DEF Step
      <4>3. e = TheBoss => calls[e] = 0
        BY <3>3, <4>2 DEF SentHome, CalledOnce
      <4>4. calls'[e] = calls[e] + 1 /\ calls[e] \in Nat
        BY <1>1, <3>1, <3>3
      <4>5. QED
        BY <4>3, <4>4
    <3>4. QED
      BY <3>2, <3>3
  <2>3. ASSUME NEW d \in Employees, FinishJob(d)
        PROVE  /\ calls'[e] >= calls[e] /\ (running'[e] => running[e] \/ calls'[e] > 0)
               /\ e = TheBoss /\ running'[e] /\ ~running[e] => calls[e] = 0
    <3>1. calls' = calls /\ running' = [running EXCEPT ![d] = FALSE]
      BY <2>3 DEF FinishJob
    <3>2. running'[e] => running[e]
      BY <1>1, <3>1
    <3>3. QED
      BY <1>1, <3>1, <3>2
  <2>4. QED
    BY <2>1, <2>2, <2>3, CallCounts
<1>4. RunsWhenCalled'
  <2>1. SUFFICES ASSUME NEW e \in Employees, running'[e]
                 PROVE  calls'[e] > 0
    BY DEF RunsWhenCalled
  <2>2. calls'[e] \in Nat /\ calls[e] \in Nat
    BY <1>1, TypesKept, TypeParts, TypePartsNext DEF DataOK
  <2>3. running[e] => calls[e] > 0
    BY DEF SentHome, RunsWhenCalled
  <2>4. QED
    BY <1>3, <2>1, <2>2, <2>3
<1>5. ASSUME NEW e \in Employees, Gone(e)'
      PROVE  LeftFor(e)'
  <2>1. CASE Gone(e)
    <3>1. LeftFor(e)
      BY <2>1 DEF SentHome
    <3>2. CASE Crashed(e)
      BY <2>1, <3>2, PlaceSteps DEF LeftFor
    <3>3. CASE stop[e]
      BY <3>3, StopStays DEF LeftFor
    <3>4. CASE e = TheBoss /\ calls[e] > 0 /\ ~running[e]
      <4>1. calls'[e] \in Nat /\ calls[e] \in Nat
        BY <1>1, TypesKept, TypePartsNext DEF DataOK
      <4>2. calls'[e] > 0 /\ ~running'[e]
        BY <1>3, <3>4, <4>1
      <4>3. QED
        BY <3>4, <4>2 DEF LeftFor
    <3>5. QED
      BY <3>1, <3>2, <3>3, <3>4 DEF LeftFor
  <2>2. CASE ~Gone(e)
    <3>1. stop[e] \/ Crash(e) \/ (e = TheBoss /\ FinishJob(e))
      BY <1>5, <2>2, PlaceSteps
    <3>2. CASE stop[e]
      BY <3>2, StopStays DEF LeftFor
    <3>3. CASE Crash(e)
      <4>1. at \in [Threads -> Labels] /\ e \in Threads
        BY TypeParts, Staffed DEF DataOK
      <4>2. at'[e] = "dead" /\ ip[e] < Len(job[e]) /\ Fetched(e)[1] = "CRASH" /\ UNCHANGED <<ip, job>>
        BY <3>3, <4>1 DEF Crash, AtInstruction, Goto
      <4>3. QED
        BY <4>2 DEF LeftFor, Crashed, Fetched
    <3>4. CASE e = TheBoss /\ FinishJob(e)
      <4>1. running[e] /\ ~running'[e] /\ calls' = calls
        BY <1>1, <3>4 DEF FinishJob, AtEnd
      <4>2. calls[e] > 0
        BY <4>1 DEF SentHome, RunsWhenCalled
      <4>3. QED
        BY <3>4, <4>1, <4>2 DEF LeftFor
    <3>5. QED
      BY <3>1, <3>2, <3>3, <3>4
  <2>3. QED
    BY <2>1, <2>2
<1>6. ASSUME Calm'
      PROVE  /\ \A t \in Threads : StopsOwnStaff(t)'
             /\ \A e \in Employees : stop'[e] => BossIsGone(e)'
  <2>1. Calm
    BY <1>6, CalmBefore
  <2>2. ASSUME NEW t \in Threads
        PROVE  StopsOwnStaff(t)'
    BY <1>6, <2>1, StopsOwnStaffKept DEF SentHome
  <2>3. ASSUME NEW e \in Employees, stop'[e]
        PROVE  BossIsGone(e)'
    <3>1. ASSUME BossIsGone(e)
          PROVE  BossIsGone(e)'
      <4>1. PICK b \in Employees : e \in Range(Subs[b]) /\ Gone(b)
        BY <3>1 DEF BossIsGone
      <4>2. Gone(b)'
        BY <4>1, PlaceSteps
      <4>3. QED
        BY <4>1, <4>2 DEF BossIsGone
    <3>2. CASE stop[e]
      BY <2>1, <3>1, <3>2 DEF SentHome
    <3>3. CASE ~stop[e]
      <4>1. PICK t \in Threads : Doing(t, "stop", e)
        BY <2>3, <3>3, StopSteps
      <4>2. todo[t][1] = Step("stop", e) /\ Len(todo[t]) \in Nat \ {0}
        BY <1>1, <4>1, FirstStep
      <4>3. todo[t][1].what = "stop" /\ todo[t][1].who = e /\ 1 \in 1..Len(todo[t])
        BY <4>2 DEF Step
      <4>4. at[t] = "leaving" /\ t \in Employees /\ e \in Range(Subs[t])
        BY <2>1, <4>3 DEF SentHome, StopsOwnStaff
      <4>5. QED
        BY <3>1, <4>4 DEF BossIsGone, Gone
    <3>4. QED
      BY <3>2, <3>3
  <2>4. QED
    BY <2>2, <2>3
<1>7. QED
  <2> HIDE DEF SentHome
  <2>1. \A e \in Employees : Gone(e)' => LeftFor(e)'
    BY <1>5
  <2>2. Calm' => /\ \A t \in Threads : StopsOwnStaff(t)'
                 /\ \A e \in Employees : stop'[e] => BossIsGone(e)'
    BY <1>6
  <2>3. QED
    BY <1>2, <1>4, <2>1, <2>2 DEF SentHome

LEMMA InitialSentHome == Init => SentHome
<1> SUFFICES ASSUME Init PROVE SentHome
  OBVIOUS
<1>1. CalledOnce /\ RunsWhenCalled
  BY Staffed DEF Init, CalledOnce, RunsWhenCalled
<1>2. ASSUME NEW e \in Employees
      PROVE  ~Gone(e) /\ ~stop[e]
  BY <1>2, Staffed DEF Init, Gone
<1>3. ASSUME NEW t \in Threads
      PROVE  StopsOwnStaff(t)
  <2>1. CASE t = Main
    <3>1. todo[t] = Call(TheBoss)
      BY <2>1, Staffed DEF Init
    <3>2. /\ Len(todo[t]) = 3 /\ todo[t][1] = Step("checkIdle", TheBoss)
          /\ todo[t][2] = Step("checkStaying", TheBoss) /\ todo[t][3] = Step("start", TheBoss)
      BY <3>1 DEF Call
    <3>3. \A i \in 1..Len(todo[t]) : todo[t][i].what # "stop"
      BY <3>2 DEF Step
    <3>4. QED
      BY <3>3 DEF StopsOwnStaff
  <2>2. CASE t # Main
    <3>1. todo[t] = <<>> /\ Len(<<>>) = 0
      BY <2>2 DEF Init
    <3>2. 1..Len(todo[t]) = {}
      BY <3>1
    <3>3. QED
      BY <3>2 DEF StopsOwnStaff
  <2>3. QED
    BY <2>1, <2>2
<1>4. QED
  BY <1>1, <1>2, <1>3 DEF SentHome

LEMMA CallsServed == Balanced /\ SentHome => NoCallLost
<1> SUFFICES ASSUME Balanced, SentHome PROVE NoCallLost
  OBVIOUS
<1>1. ASSUME Calm, NEW e \in Employees, running[e], Gone(e)
      PROVE  Crashed(e) \/ BossIsGone(e)
  BY <1>1 DEF SentHome, LeftFor
<1>2. QED
  BY <1>1 DEF Balanced, NoCallLost

(* While nobody has thrown, every call of an employee has led to one run    *)
(* of his job, but for the last one while he counts as running, and it is   *)
(* being served: he has not left his loop, unless his job crashed or his    *)
(* boss has gone home.  interpret() sees to it that no employee is named by *)
(* two contracts; that a contract tells only employees it names is not      *)
(* checked anywhere and is the hypothesis here.  Then of all threads one at *)
(* most is between the check and the start of an employee                   *)
(* (Employee.py:60-93, 131-148; PTInterpreter.py:43-62).                    *)
THEOREM NoCallIsLost == OwnStaff => (Spec => []NoCallLost)
<1> SUFFICES ASSUME OwnStaff PROVE Spec => []NoCallLost
  OBVIOUS
<1> DEFINE IInv == TypeOK /\ Starts /\ Balanced /\ SentHome
<1>1. Init => IInv
  BY InitialTypes, InitialStarts, InitialSentHome
<1>2. IInv /\ [Next]_vars => IInv'
  <2> SUFFICES ASSUME TypeOK, Starts, Balanced, SentHome, [Next]_vars
               PROVE  TypeOK' /\ Starts' /\ Balanced' /\ SentHome'
    OBVIOUS
  <2>1. TypeOK' /\ Balanced'
    BY TypesKept, CallsBalanced
  <2>2. \A t \in Threads : OneStart(t)'
    BY OneStartKept DEF Starts
  <2>3. StartsAreChecked'
    BY CheckedKept
  <2>4. SentHome'
    BY SentHomeKept DEF Starts
  <2>5. QED
    BY <2>1, <2>2, <2>3, <2>4 DEF Starts
<1>3. IInv => NoCallLost
  BY CallsServed
<1> HIDE DEF IInv
<1>4. QED
  BY <1>1, <1>2, <1>3, PTL DEF Spec
===========================================================================
