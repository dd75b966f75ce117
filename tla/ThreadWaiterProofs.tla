------------------------- MODULE ThreadWaiterProofs -------------------------
(***************************************************************************)
(* Proofs about ThreadWaiter, for any finite set of threads, any number of *)
(* calls, with the lock or not: type correctness, the exactness of the   *)
(* counter, and that no wake-up is lost.  The inductive invariant adds to  *)
(* the properties what the interpreter lock gives: one thread at a time is *)
(* between two accesses that nothing can interrupt, so what it loaded is   *)
(* still what the shared variable holds.                                   *)
(***************************************************************************)
EXTENDS ThreadWaiter, FiniteSetTheorems, TLAPS

(* What a thread knows in the middle of an uninterruptible sequence. *)
Exclusive ==
  /\ \A t, u \in Threads :
       pc[t] \in Uninterruptible /\ pc[u] \in Uninterruptible => t = u
  /\ \A t \in Threads :
       /\ pc[t] \in {"w_load", "w_store"} => canBeWaiting
       /\ pc[t] \in {"w_store", "w_dstore"} => reg[t] = waitingThreadCount
       /\ pc[t] = "r_arg" => waitingThreadCount > 0
       /\ pc[t] = "r_permit" => reg[t] >= 1

CoversBlocked ==
  \/ canBeWaiting
  \/ Cardinality(Blocked) <= permits
  \/ \E r \in Threads : pc[r] \in {"r_check", "r_arg"}
  \/ \E r \in Threads : /\ pc[r] = "r_permit"
                        /\ Cardinality(Blocked) <= permits + reg[r]

IInv ==
  /\ TypeOK
  /\ GIL => /\ Exclusive
            /\ CountExact
            /\ CoversBlocked

-----------------------------------------------------------------------------
(* Each variable keeps its type whatever the threads do. *)
THEOREM TypeCorrect == Spec => []TypeOK
<1> USE ThreadsFinite, OpsAssumption, BoundsAssumption
<1>1. Init => TypeOK
  BY DEF Init, TypeOK, Labels, Results
<1>2. ASSUME TypeOK, [Next]_vars
      PROVE  TypeOK'
  <2>0. GIL' = GIL
    BY <1>2 DEF Next, Step, Call, vars
  <2> USE <1>2, <2>0 DEF TypeOK, shared, At, Goto, Return, Labels, WaitLabels,
                         ReleaseLabels, ResetLabels, Results, Waits
  <2>1. ASSUME NEW t \in Threads, NEW o \in Ops, Call(t, o)
        PROVE  TypeOK'
    BY <2>1 DEF Call, FirstLabel
  <2>2. ASSUME NEW t \in Threads, CheckGate(t) \/ LoadCount(t)
        PROVE  TypeOK'
    BY <2>2 DEF CheckGate, LoadCount
  <2>3. ASSUME NEW t \in Threads, CountIn(t) \/ CountOut(t)
        PROVE  TypeOK'
    BY <2>3 DEF CountIn, CountOut
  <2>4. ASSUME NEW t \in Threads, AcquirePermit(t) \/ TimeOut(t)
        PROVE  TypeOK'
    BY <2>4 DEF AcquirePermit, TimeOut
  <2>5. ASSUME NEW t \in Threads, OpenGate(t) \/ CheckWaiting(t) \/ LoadPermits(t)
        PROVE  TypeOK'
    BY <2>5, ZenonT(40) DEF OpenGate, CheckWaiting, LoadPermits, EndRelease
  <2>6. ASSUME NEW t \in Threads, AddPermits(t) \/ RaiseValueError(t)
        PROVE  TypeOK'
    BY <2>6 DEF AddPermits, RaiseValueError, EndRelease
  <2>7. ASSUME NEW t \in Threads, CheckReset(t) \/ ShutGate(t)
        PROVE  TypeOK'
    BY <2>7 DEF CheckReset, ShutGate
  <2>8. CASE UNCHANGED vars
    BY <2>8 DEF vars
  <2>9. QED
    BY <1>2, <2>1, <2>2, <2>3, <2>4, <2>5, <2>6, <2>7, <2>8 DEF Next, Step
<1>3. QED
  BY <1>1, <1>2, PTL DEF Spec

-----------------------------------------------------------------------------
LEMMA BlockedAndCounted ==
  ASSUME TypeOK
  PROVE  /\ IsFiniteSet(Blocked) /\ IsFiniteSet(Counted)
         /\ Cardinality(Blocked) \in Nat /\ Cardinality(Counted) \in Nat
         /\ Cardinality(Blocked) <= Cardinality(Counted)
<1>1. Blocked \in SUBSET Counted /\ Counted \in SUBSET Threads
  BY DEF Blocked, Counted
<1>2. IsFiniteSet(Counted)
  BY <1>1, ThreadsFinite, FS_Subset
<1>3. IsFiniteSet(Blocked) /\ Cardinality(Blocked) <= Cardinality(Counted)
  BY <1>1, <1>2, FS_Subset
<1>4. QED
  BY <1>2, <1>3, FS_CardinalityType

LEMMA ExclusiveStep ==
  ASSUME TypeOK, GIL, Exclusive, NEW t \in Threads,
         Step(t) \/ \E o \in Ops : Call(t, o)
  PROVE  Exclusive'
<1> USE DEF Exclusive, TypeOK, shared, At, Scheduled, Goto, Return, Uninterruptible
<1>1. ASSUME NEW o \in Ops, Call(t, o)
      PROVE  Exclusive'
  BY <1>1 DEF Call, FirstLabel
<1>2. ASSUME CheckGate(t)
      PROVE  Exclusive'
  BY <1>2 DEF CheckGate
<1>3. ASSUME LoadCount(t)
      PROVE  Exclusive'
  BY <1>3 DEF LoadCount
<1>4. ASSUME CountIn(t) \/ CountOut(t)
      PROVE  Exclusive'
  BY <1>4 DEF CountIn, CountOut
<1>5. ASSUME AcquirePermit(t) \/ TimeOut(t)
      PROVE  Exclusive'
  BY <1>5 DEF AcquirePermit, TimeOut
<1>6. ASSUME OpenGate(t) \/ CheckWaiting(t)
      PROVE  Exclusive'
  BY <1>6 DEF OpenGate, CheckWaiting, EndRelease
<1>7. ASSUME LoadPermits(t)
      PROVE  Exclusive'
  BY <1>7 DEF LoadPermits
<1>8. ASSUME AddPermits(t) \/ RaiseValueError(t)
      PROVE  Exclusive'
  BY <1>8 DEF AddPermits, RaiseValueError, EndRelease
<1>9. ASSUME CheckReset(t) \/ ShutGate(t)
      PROVE  Exclusive'
  BY <1>9 DEF CheckReset, ShutGate
<1>10. QED
  BY <1>1, <1>2, <1>3, <1>4, <1>5, <1>6, <1>7, <1>8, <1>9 DEF Step

LEMMA CountStep ==
  ASSUME TypeOK, GIL, Exclusive, CountExact, NEW t \in Threads,
         Step(t) \/ \E o \in Ops : Call(t, o)
  PROVE  CountExact'
<1> DEFINE Exact == waitingThreadCount = Cardinality(Counted)
           Quiet == \A u \in Threads : result[u] # "raised"
<1>1. Exact /\ Quiet
  BY DEF CountExact
<1>2. SUFFICES Exact' /\ Quiet'
  BY DEF CountExact
<1>3. Quiet'
  <2> USE <1>1 DEF TypeOK, Return, Goto, shared
  <2>1. CASE \E o \in Ops : Call(t, o)
    BY <2>1 DEF Call
  <2>2. CASE CheckGate(t) \/ LoadCount(t) \/ CountIn(t) \/ CountOut(t)
    BY <2>2 DEF CheckGate, LoadCount, CountIn, CountOut
  <2>3. CASE AcquirePermit(t) \/ TimeOut(t)
    BY <2>3 DEF AcquirePermit, TimeOut
  <2>4. CASE OpenGate(t) \/ CheckWaiting(t) \/ LoadPermits(t) \/ AddPermits(t)
    BY <2>4 DEF OpenGate, CheckWaiting, LoadPermits, AddPermits, EndRelease
  <2>5. CASE RaiseValueError(t)
    BY <2>5 DEF RaiseValueError, At, Exclusive
  <2>6. CASE CheckReset(t) \/ ShutGate(t)
    BY <2>6 DEF CheckReset, ShutGate
  <2>7. QED
    BY <2>1, <2>2, <2>3, <2>4, <2>5, <2>6 DEF Step
<1>4. Exact'
  <2>1. CASE CountIn(t)
    <3>1. Counted' = Counted \cup {t} /\ t \notin Counted
      BY <2>1 DEF CountIn, At, Goto, Counted, TypeOK
    <3>2. Cardinality(Counted') = Cardinality(Counted) + 1
      BY <3>1, BlockedAndCounted, FS_AddElement
    <3>3. waitingThreadCount' = waitingThreadCount + 1
      BY <2>1 DEF CountIn, At, Exclusive
    <3>4. QED
      BY <1>1, <3>2, <3>3
  <2>2. CASE CountOut(t)
    <3>1. Counted' = Counted \ {t} /\ t \in Counted
      BY <2>2 DEF CountOut, At, Goto, Counted, TypeOK
    <3>2. Cardinality(Counted') = Cardinality(Counted) - 1
      BY <3>1, BlockedAndCounted, FS_RemoveElement
    <3>3. waitingThreadCount' = waitingThreadCount - 1
      BY <2>2 DEF CountOut, At, Exclusive
    <3>4. QED
      BY <1>1, <3>2, <3>3
  <2>3. CASE ~CountIn(t) /\ ~CountOut(t)
    <3>1. waitingThreadCount' = waitingThreadCount
      BY <2>3 DEF Step, Call, CheckGate, LoadCount, AcquirePermit, TimeOut, OpenGate,
                  CheckWaiting, LoadPermits, AddPermits, RaiseValueError, CheckReset,
                  ShutGate, shared
    <3>2. Counted' = Counted
      <4> USE DEF TypeOK, At, Goto, Return, Counted
      <4>1. CASE \E o \in Ops : Call(t, o)
        BY <4>1 DEF Call, FirstLabel
      <4>2. CASE CheckGate(t) \/ LoadCount(t) \/ AcquirePermit(t) \/ TimeOut(t)
        BY <4>2 DEF CheckGate, LoadCount, AcquirePermit, TimeOut
      <4>3. CASE OpenGate(t) \/ CheckWaiting(t) \/ LoadPermits(t)
        BY <4>3 DEF OpenGate, CheckWaiting, LoadPermits, EndRelease
      <4>4. CASE AddPermits(t) \/ RaiseValueError(t) \/ CheckReset(t) \/ ShutGate(t)
        BY <4>4 DEF AddPermits, RaiseValueError, EndRelease, CheckReset, ShutGate
      <4>5. QED
        BY <2>3, <4>1, <4>2, <4>3, <4>4 DEF Step
    <3>3. QED
      BY <1>1, <3>1, <3>2
  <2>4. QED
    BY <2>1, <2>2, <2>3
<1>5. QED
  BY <1>3, <1>4

LEMMA CoversStep ==
  ASSUME TypeOK, GIL, Exclusive, CountExact, CoversBlocked, NEW t \in Threads,
         Step(t) \/ \E o \in Ops : Call(t, o)
  PROVE  CoversBlocked'
<1> USE DEF TypeOK, At, Goto, Return, shared
<1>1. /\ Cardinality(Blocked) \in Nat
      /\ Cardinality(Blocked) <= waitingThreadCount
      /\ \A r \in Threads : pc[r] = "r_permit" => reg[r] >= 1
  BY BlockedAndCounted DEF CountExact, Exclusive
<1>2. ASSUME CountIn(t)
      PROVE  CoversBlocked'
  BY <1>2 DEF CountIn, Exclusive, CoversBlocked
<1>3. ASSUME AcquirePermit(t) \/ TimeOut(t)
      PROVE  CoversBlocked'
  <2>1. Blocked' = Blocked \ {t} /\ t \in Blocked
    BY <1>3 DEF AcquirePermit, TimeOut, Blocked
  <2>2. Cardinality(Blocked') = Cardinality(Blocked) - 1
    BY <2>1, BlockedAndCounted, FS_RemoveElement
  <2>3. permits' >= permits - 1 /\ permits' \in Nat
    BY <1>3 DEF AcquirePermit, TimeOut
  <2>4. \A r \in Threads \ {t} : pc'[r] = pc[r] /\ reg'[r] = reg[r]
    BY <1>3 DEF AcquirePermit, TimeOut
  <2>5. canBeWaiting' = canBeWaiting /\ pc[t] = "w_acquire"
    BY <1>3 DEF AcquirePermit, TimeOut
  <2>6. QED
    BY <1>1, <2>2, <2>3, <2>4, <2>5 DEF CoversBlocked
<1>4. ASSUME OpenGate(t)
      PROVE  CoversBlocked'
  BY <1>4 DEF OpenGate, CoversBlocked
<1>5. ASSUME CheckWaiting(t)
      PROVE  CoversBlocked'
  <2>1. Blocked' = Blocked
    BY <1>5 DEF CheckWaiting, EndRelease, Blocked
  <2>2. CASE waitingThreadCount > 0
    BY <1>5, <2>2 DEF CheckWaiting, CoversBlocked
  <2>3. CASE waitingThreadCount <= 0
    BY <1>1, <1>5, <2>1, <2>3 DEF CheckWaiting, CoversBlocked
  <2>4. QED
    BY <2>2, <2>3
<1>6. ASSUME LoadPermits(t)
      PROVE  CoversBlocked'
  <2>1. Blocked' = Blocked
    BY <1>6 DEF LoadPermits, Blocked
  <2>2. pc'[t] = "r_permit" /\ reg'[t] = waitingThreadCount /\ permits' = permits
    BY <1>6 DEF LoadPermits
  <2>3. QED
    BY <1>1, <2>1, <2>2 DEF CoversBlocked
<1>7. ASSUME AddPermits(t)
      PROVE  CoversBlocked'
  <2>1. Blocked' = Blocked
    BY <1>7 DEF AddPermits, EndRelease, Blocked
  <2>2. permits' = permits + reg[t] /\ reg[t] >= 1 /\ canBeWaiting' = canBeWaiting
    BY <1>7 DEF AddPermits
  <2>3. /\ \A r \in Threads \ {t} : pc'[r] = pc[r]
        /\ reg' = reg
        /\ pc[t] = "r_permit"
    BY <1>7 DEF AddPermits, EndRelease
  <2>4. QED
    BY <1>1, <2>1, <2>2, <2>3 DEF CoversBlocked
<1>8. ASSUME \/ \E o \in Ops : Call(t, o)
             \/ CheckGate(t) \/ LoadCount(t) \/ CountOut(t) \/ CheckReset(t) \/ ShutGate(t)
      PROVE  CoversBlocked'
  <2>1. Blocked' = Blocked
    BY <1>8 DEF Call, FirstLabel, CheckGate, LoadCount, CountOut, CheckReset, ShutGate, Blocked
  <2>2. /\ \A r \in Threads \ {t} : pc'[r] = pc[r] /\ reg'[r] = reg[r]
        /\ pc[t] \notin {"r_check", "r_arg", "r_permit"}
        /\ permits' = permits
        /\ canBeWaiting => canBeWaiting'
    BY <1>8 DEF Call, CheckGate, LoadCount, CountOut, CheckReset, ShutGate
  <2>3. QED
    BY <2>1, <2>2 DEF CoversBlocked
<1>9. ASSUME RaiseValueError(t)
      PROVE  CoversBlocked'
  BY <1>1, <1>9 DEF RaiseValueError
<1>10. QED
  BY <1>2, <1>3, <1>4, <1>5, <1>6, <1>7, <1>8, <1>9 DEF Step

-----------------------------------------------------------------------------
(* The strengthened invariant, which every step preserves. *)
THEOREM Invariance == Spec => []IInv
<1>1. Init => IInv
  <2> SUFFICES ASSUME Init PROVE IInv
    OBVIOUS
  <2>1. TypeOK
    BY BoundsAssumption DEF Init, TypeOK, Labels, Results
  <2>2. Exclusive /\ CoversBlocked
    BY DEF Init, Exclusive, CoversBlocked, Uninterruptible
  <2>3. Counted = {}
    BY DEF Init, Counted
  <2>4. CountExact
    BY <2>3, FS_EmptySet DEF Init, CountExact
  <2>5. QED
    BY <2>1, <2>2, <2>4 DEF IInv
<1>2. IInv /\ TypeOK' /\ [Next]_vars => IInv'
  <2> SUFFICES ASSUME IInv, TypeOK', [Next]_vars PROVE IInv'
    OBVIOUS
  <2>1. CASE UNCHANGED vars
    BY <2>1 DEF vars, IInv, TypeOK, Exclusive, CountExact, CoversBlocked, Blocked, Counted
  <2>2. ASSUME NEW t \in Threads, Step(t) \/ \E o \in Ops : Call(t, o)
        PROVE  IInv'
    <3>1. GIL' = GIL
      BY <2>2 DEF Step, Call
    <3>2. QED
      BY <2>2, <3>1, ExclusiveStep, CountStep, CoversStep DEF IInv
  <2>3. QED
    BY <2>1, <2>2 DEF Next
<1>3. QED
  BY <1>1, <1>2, TypeCorrect, PTL DEF Spec

(* Under the interpreter lock the counter is exact and release() never     *)
(* raises, for any number of threads and calls.                            *)
THEOREM CounterIsExact == Spec => []CountExact
<1>1. IInv => CountExact
  BY DEF IInv, CountExact
<1>2. QED
  BY <1>1, Invariance, PTL

(* Under the interpreter lock an open gate has a permit, or a release()    *)
(* that is about to add one, for every blocked thread.                     *)
THEOREM NoWakeUpLost == Spec => []ReleaseCoversBlocked
<1>1. IInv => ReleaseCoversBlocked
  BY DEF IInv, CoversBlocked, ReleaseCoversBlocked
<1>2. QED
  BY <1>1, Invariance, PTL

-----------------------------------------------------------------------------
(* Without reset() the gate never shuts again, and there are permits only  *)
(* once it is open.                                                        *)
OneShotInv ==
  /\ \A t \in Threads :
       /\ pc[t] \notin ResetLabels /\ op[t] # "reset"
       /\ pc[t] \in WaitLabels => op[t] \in Waits
       /\ pc[t] \in ReleaseLabels => op[t] \notin Waits
       /\ pc[t] \in ReleaseLabels \ {"r_open"} => ~canBeWaiting
  /\ permits > 0 => ~canBeWaiting

LEMMA OneShotInvariance ==
  ASSUME "reset" \notin Ops
  PROVE  Spec => []OneShotInv
<1>1. Init => OneShotInv
  BY DEF Init, OneShotInv, ResetLabels, WaitLabels, ReleaseLabels
<1>2. ASSUME TypeOK, OneShotInv, [Next]_vars
      PROVE  OneShotInv'
  <2> USE DEF TypeOK, OneShotInv, At, Goto, Return, shared, ResetLabels,
              WaitLabels, ReleaseLabels, Waits
  <2>1. CASE UNCHANGED vars
    BY <2>1, <1>2 DEF vars
  <2>2. ASSUME NEW t \in Threads, NEW o \in Ops, Call(t, o)
        PROVE  OneShotInv'
    BY <2>2, <1>2, OpsAssumption DEF Call, FirstLabel
  <2>3. ASSUME NEW t \in Threads,
               CheckGate(t) \/ LoadCount(t) \/ CountIn(t) \/ CountOut(t)
        PROVE  OneShotInv'
    BY <2>3, <1>2 DEF CheckGate, LoadCount, CountIn, CountOut
  <2>4. ASSUME NEW t \in Threads, AcquirePermit(t) \/ TimeOut(t)
        PROVE  OneShotInv'
    BY <2>4, <1>2 DEF AcquirePermit, TimeOut
  <2>5. ASSUME NEW t \in Threads, OpenGate(t) \/ CheckWaiting(t) \/ LoadPermits(t)
        PROVE  OneShotInv'
    BY <2>5, <1>2 DEF OpenGate, CheckWaiting, LoadPermits, EndRelease
  <2>6. ASSUME NEW t \in Threads, AddPermits(t) \/ RaiseValueError(t)
        PROVE  OneShotInv'
    BY <2>6, <1>2 DEF AddPermits, RaiseValueError, EndRelease
  <2>7. ASSUME NEW t \in Threads, CheckReset(t) \/ ShutGate(t)
        PROVE  OneShotInv'
    BY <2>7, <1>2 DEF CheckReset, ShutGate
  <2>8. QED
    BY <1>2, <2>1, <2>2, <2>3, <2>4, <2>5, <2>6, <2>7 DEF Next, Step
<1>3. QED
  BY <1>1, <1>2, TypeCorrect, PTL DEF Spec

(* A waiter that is never reset implements the gate that opens once, with  *)
(* or without the interpreter lock.  Each step maps to a move of the       *)
(* thread that takes it, to the opening, or to a stutter.                  *)
THEOREM OneShotImplementsGate ==
  ASSUME "reset" \notin Ops
  PROVE  Spec => ImplementsGate
<1> DEFINE place == [t \in Threads |-> Place(t)]
           abstractStep == [OneShotGate!Next]_(OneShotGate!vars)
<1>1. Init => OneShotGate!Init
  BY DEF Init, OneShotGate!Init, Place, Waits
<1>2. ASSUME TypeOK, OneShotInv, [Next]_vars
      PROVE  abstractStep
  <2>0. GIL' = GIL
    BY <1>2 DEF Next, Step, Call, vars
  <2> USE <2>0 DEF TypeOK, At, Goto, Return, shared, OneShotGate!vars
  <2>1. CASE UNCHANGED vars
    BY <2>1 DEF vars, Place
  <2>2. ASSUME NEW t \in Threads, NEW u \in Threads, u # t,
               Step(t) \/ \E o \in Ops : Call(t, o)
        PROVE  Place(u)' = Place(u)
    BY <1>2, <2>2
       DEF Step, Place, CheckGate, LoadCount, CountIn, CountOut, AcquirePermit, TimeOut,
           OpenGate, CheckWaiting, LoadPermits, AddPermits, RaiseValueError, EndRelease,
           CheckReset, ShutGate, Call
  <2>3. ASSUME NEW t \in Threads, Step(t) \/ \E o \in Ops : Call(t, o)
        PROVE  place' = [place EXCEPT ![t] = Place(t)']
    BY <2>2, <2>3
  <2>4. ASSUME NEW t \in Threads, CheckGate(t)
        PROVE  abstractStep
    <3>1. place' = [place EXCEPT ![t] = Place(t)']
      BY <2>3, <2>4 DEF Step
    <3>2. CASE canBeWaiting
      <4>1. Place(t)' \in OneShotGate!Held /\ Place(t) \notin OneShotGate!Held
        BY <1>2, <2>4, <3>2 DEF CheckGate, Place, OneShotGate!Held
      <4>2. QED
        BY <2>4, <3>1, <3>2, <4>1
           DEF CheckGate, OneShotGate!Next, OneShotGate!Arrive, OneShotGate!Move
    <3>3. CASE ~canBeWaiting
      <4>1. Place(t)' = "passed"
        BY <1>2, <2>4, <3>3 DEF CheckGate, Place, OneShotInv, WaitLabels
      <4>2. QED
        BY <2>4, <3>1, <3>3, <4>1
           DEF CheckGate, OneShotGate!Next, OneShotGate!Pass, OneShotGate!Move
    <3>4. QED
      BY <3>2, <3>3
  <2>5. ASSUME NEW t \in Threads, AcquirePermit(t)
        PROVE  abstractStep
    <3>1. place' = [place EXCEPT ![t] = Place(t)']
      BY <2>3, <2>5 DEF Step
    <3>2. Place(t)' = "passed" /\ ~canBeWaiting
      BY <1>2, <2>5 DEF AcquirePermit, Place, OneShotInv, WaitLabels
    <3>3. QED
      BY <2>5, <3>1, <3>2
         DEF AcquirePermit, OneShotGate!Next, OneShotGate!Pass, OneShotGate!Move
  <2>6. ASSUME NEW t \in Threads, TimeOut(t)
        PROVE  abstractStep
    <3>1. place' = [place EXCEPT ![t] = Place(t)']
      BY <2>3, <2>6 DEF Step
    <3>2. Place(t) = "heldForTime" /\ Place(t)' = "gaveUp"
      BY <1>2, <2>6 DEF TimeOut, Place, Waits
    <3>3. QED
      BY <2>6, <3>1, <3>2
         DEF TimeOut, OneShotGate!Next, OneShotGate!GiveUp, OneShotGate!Move
  <2>7. ASSUME NEW t \in Threads, OpenGate(t)
        PROVE  abstractStep
    <3>1. place' = place
      BY <1>2, <2>7 DEF OpenGate, Place
    <3>2. QED
      BY <2>7, <3>1 DEF OpenGate, OneShotGate!Next, OneShotGate!Open
  <2>8. ASSUME NEW t \in Threads, NEW o \in Ops, Call(t, o)
        PROVE  abstractStep
    <3>1. place' = [place EXCEPT ![t] = Place(t)']
      BY <2>3, <2>8
    <3>2. Place(t) \notin OneShotGate!Held /\ Place(t)' = "away"
      BY <1>2, <2>8 DEF Call, FirstLabel, Place, OneShotGate!Held
    <3>3. QED
      BY <2>8, <3>1, <3>2 DEF Call, OneShotGate!Next, OneShotGate!Leave, OneShotGate!Move
  <2>9. ASSUME NEW t \in Threads, CheckReset(t) \/ ShutGate(t)
        PROVE  FALSE
    BY <1>2, <2>9 DEF CheckReset, ShutGate, OneShotInv, ResetLabels
  <2>10. ASSUME NEW t \in Threads, LoadCount(t) \/ CountIn(t) \/ CountOut(t)
         PROVE  abstractStep
    BY <1>2, <2>10 DEF LoadCount, CountIn, CountOut, Place
  <2>11. ASSUME NEW t \in Threads,
                CheckWaiting(t) \/ LoadPermits(t) \/ AddPermits(t) \/ RaiseValueError(t)
         PROVE  abstractStep
    BY <1>2, <2>11
       DEF CheckWaiting, LoadPermits, AddPermits, RaiseValueError, EndRelease, Place,
           OneShotInv, ReleaseLabels
  <2>12. QED
    BY <1>2, <2>1, <2>4, <2>5, <2>6, <2>7, <2>8, <2>9, <2>10, <2>11 DEF Next, Step
<1>3. QED
  BY <1>1, <1>2, TypeCorrect, OneShotInvariance, PTL
     DEF Spec, ImplementsGate, OneShotGate!Spec
=============================================================================
