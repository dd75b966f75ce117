-------------------------- MODULE ProgressBarProofs --------------------------
(***************************************************************************)
(* What holds of module ProgressBar for any bars, users and updaters and   *)
(* any number of calls.                                                    *)
(***************************************************************************)
EXTENDS ProgressBar, SequenceTheorems, TLAPS

Whats == {"register", "wakeUp", "BEGAN", "ENDED", "DELETED", "delete", "update",
          "giveTicket", "unregister"}

Steps == [what : Whats, bar : Bars]

Pending(u, what, b) == \E i \in 1 .. Len(todo[u]) : todo[u][i] = Step(what, b)

HasBegun(b) == state[b] \notin {"NEW", "INITIALIZED"}

TodoOK == todo \in [Users -> Seq(Steps)]

\* A thread object that was started is _updaterThread until it forgets itself.
UpdaterInv == \A w \in Updaters : at[w] # "out" => thread = w

\* Only bars that have begun get a ticket.
TicketInv == \A u \in Users, b \in Bars : Pending(u, "giveTicket", b) => HasBegun(b)

\* What the updater chose to draw may be drawn.
ChosenInv ==
  \A w \in Updaters : at[w] = "draw" =>
    /\ \A b \in ended[w] : ticket[b]
    /\ \A b \in working[w] : state[b] = "BEGAN"

\* A bar is registered before it begins, and stays so while it is shown.
ListedInv ==
  /\ \A b \in Bars : state[b] = "BEGAN" => b \in bars
  /\ \A b \in Bars : state[b] = "INITIALIZED" =>
       b \in bars \/ \E u \in Users : Doing(u, "register", b)
  /\ \A u \in Users, b \in Bars : Pending(u, "BEGAN", b) => b \in bars \/ HasBegun(b)

\* Who takes a bar off the list does it next, alone, and has ended the bar.
RemoveInv ==
  \A u \in Users, b \in Bars : Pending(u, "unregister", b) =>
    /\ \A i \in 2 .. Len(todo[u]) : todo[u][i].what # "unregister"
    /\ b \in bars
    /\ state[b] \in {"ENDED", "DELETED"}
    /\ \A v \in Users \ {u} : ~Pending(v, "unregister", b)

IInv ==
  TypeOK /\ TodoOK /\ UpdaterInv /\ TicketInv /\ ChosenInv /\ ListedInv /\ RemoveInv
    /\ OnlyEmptyBarsRaise

----------------------------------------------------------------------------
(* What a call, or a step of one, does to the calls in progress.            *)

\* A finished or abandoned step leaves nothing behind that was not there.
LEMMA Shorter ==
  ASSUME TodoOK, NEW u \in Users, todo[u] # <<>>, Done(u) \/ Raise(u)
  PROVE  /\ TodoOK'
         /\ \A v \in Users \ {u} : todo'[v] = todo[v]
         /\ \A i \in 1 .. Len(todo'[u]) : i + 1 \in 2 .. Len(todo[u]) /\ todo'[u][i] = todo[u][i + 1]
<1>1. todo[u] \in Seq(Steps)
  BY DEF TodoOK
<1>2. CASE Done(u)
  <2>1. Tail(todo[u]) \in Seq(Steps) /\ Len(Tail(todo[u])) = Len(todo[u]) - 1
    BY <1>1, HeadTailProperties
  <2>2. \A i \in 1 .. Len(Tail(todo[u])) : Tail(todo[u])[i] = todo[u][i + 1]
    BY <1>1, <2>1, HeadTailProperties
  <2> QED
    BY <1>1, <1>2, <2>1, <2>2, LenProperties DEF Done, TodoOK
<1>3. CASE Raise(u)
  <2>1. <<>> \in Seq(Steps) /\ Len(<<>>) = 0
    BY EmptySeq
  <2> QED
    BY <1>3, <2>1 DEF Raise, TodoOK
<1> QED
  BY <1>2, <1>3

\* What the head of a user's calls is, is pending.
LEMMA DoingPending ==
  ASSUME TodoOK, NEW u \in Users, NEW what \in Whats, NEW b \in Bars, Doing(u, what, b)
  PROVE  todo[u] # <<>> /\ Len(todo[u]) > 0 /\ todo[u][1] = Step(what, b) /\ Pending(u, what, b)
<1>1. todo[u] \in Seq(Steps) /\ todo[u] # <<>>
  BY DEF TodoOK, Doing
<1>2. Len(todo[u]) > 0 /\ Len(todo[u]) \in Nat
  BY <1>1, EmptySeq, LenProperties
<1>3. Head(todo[u]) = todo[u][1]
  BY <1>1, <1>2
<1> QED
  BY <1>1, <1>2, <1>3 DEF Doing, Pending

\* So nothing becomes pending by such a step.
LEMMA StillPending ==
  ASSUME TodoOK, NEW u \in Users, todo[u] # <<>>, Done(u) \/ Raise(u),
         NEW v \in Users, NEW what \in Whats, NEW b \in Bars, Pending(v, what, b)'
  PROVE  Pending(v, what, b)
<1>1. TodoOK' /\ todo[u] \in Seq(Steps) /\ todo'[u] \in Seq(Steps)
  BY Shorter DEF TodoOK
<1>2. CASE v = u
  <2>1. PICK i \in 1 .. Len(todo'[u]) : todo'[u][i] = Step(what, b)
    BY <1>2 DEF Pending, Step
  <2>2. i + 1 \in 1 .. Len(todo[u]) /\ todo[u][i + 1] = Step(what, b)
    BY <1>1, <2>1, Shorter, LenProperties
  <2> QED
    BY <1>2, <2>2 DEF Pending
<1>3. CASE v # u
  BY <1>3, Shorter DEF Pending, Step
<1> QED
  BY <1>2, <1>3

\* A call has the steps it is made of, all about its bar.
LEMMA Called ==
  ASSUME TodoOK, NEW u \in Users, NEW b \in Bars, NEW steps \in Seq(Whats),
         todo' = [todo EXCEPT ![u] = StepsOf(b, steps)]
  PROVE  /\ TodoOK'
         /\ \A v \in Users \ {u} : todo'[v] = todo[v]
         /\ Len(todo'[u]) = Len(steps)
         /\ \A i \in 1 .. Len(steps) : todo'[u][i] = Step(steps[i], b)
<1> DEFINE new == [i \in 1 .. Len(steps) |-> Step(steps[i], b)]
<1>1. DOMAIN steps = 1 .. Len(steps) /\ Len(steps) \in Nat
  BY LenProperties
<1>2. \A i \in 1 .. Len(steps) : Step(steps[i], b) \in Steps
  BY <1>1, ElementOfSeq DEF Step, Steps
<1>3. new \in Seq(Steps) /\ Len(new) = Len(steps)
  BY <1>1, <1>2, SeqDef, LenProperties
<1>4. todo'[u] = new /\ \A v \in Users \ {u} : todo'[v] = todo[v]
  BY <1>1 DEF TodoOK, StepsOf
<1> QED
  BY <1>1, <1>3, <1>4 DEF TodoOK

LEMMA FirstStep ==
  ASSUME NEW s \in Seq(Steps)
  PROVE  /\ s # <<>> <=> Len(s) > 0
         /\ s # <<>> => Head(s) = s[1]
  BY EmptySeq, LenProperties

\* With RemoveInv: a user who finishes or abandons a step is not about to take
\* a bar off the list.
LEMMA NothingToRemove ==
  ASSUME TodoOK, RemoveInv, NEW u \in Users, todo[u] # <<>>, Done(u) \/ Raise(u),
         NEW b \in Bars
  PROVE  ~Pending(u, "unregister", b)'
<1> SUFFICES ASSUME Pending(u, "unregister", b)' PROVE FALSE
  OBVIOUS
<1>1. Pending(u, "unregister", b)
  BY StillPending DEF Whats
<1>2. PICK i \in 1 .. Len(todo'[u]) : todo'[u][i] = Step("unregister", b)
  BY DEF Pending, Step
<1>3. i + 1 \in 2 .. Len(todo[u]) /\ todo[u][i + 1].what = "unregister"
  BY <1>2, Shorter DEF Step
<1> QED
  BY <1>1, <1>3 DEF RemoveInv

----------------------------------------------------------------------------
(* The invariant holds at first and is kept by the calls.                   *)

LEMMA Initially == Init => IInv
<1> SUFFICES ASSUME Init PROVE IInv
  OBVIOUS
<1> USE DEF Init
<1>1. TypeOK
  BY ProgressAssumption DEF TypeOK
<1>2. TodoOK /\ \A u \in Users : todo[u] = <<>> /\ Len(todo[u]) = 0
  BY EmptySeq DEF TodoOK
<1>3. \A u \in Users, what \in Whats, b \in Bars : ~Pending(u, what, b)
  <2> HIDE DEF Init
  <2> QED
    BY <1>2 DEF Pending
<1>4. UpdaterInv /\ ChosenInv /\ OnlyEmptyBarsRaise
  BY DEF UpdaterInv, ChosenInv, OnlyEmptyBarsRaise
<1>5. TicketInv /\ ListedInv /\ RemoveInv
  BY <1>3 DEF TicketInv, ListedInv, RemoveInv, Whats
<1> QED
  BY <1>1, <1>2, <1>4, <1>5 DEF IInv

\* What the updater does concerns neither the calls nor the list of bars, and
\* of the bars it may delete some that have ended.
Deletes ==
  /\ state' \in [Bars -> {"NEW", "INITIALIZED", "BEGAN", "ENDED", "DELETED"}]
  /\ \A b \in Bars : state'[b] = state[b] \/ (state[b] = "ENDED" /\ state'[b] = "DELETED")

LEMMA CallsUntouched ==
  ASSUME IInv, UNCHANGED <<todo, bars>>, Deletes
  PROVE  TodoOK' /\ TicketInv' /\ ListedInv' /\ RemoveInv'
<1>1. \A u \in Users, what \in Whats, b \in Bars : Pending(u, what, b)' = Pending(u, what, b)
  BY DEF Pending, Step
<1>2. \A u \in Users, b \in Bars : Doing(u, "register", b)' = Doing(u, "register", b)
  BY DEF Doing, Step
<1>3. TodoOK'
  BY DEF IInv, TodoOK
<1>4. TicketInv'
  BY <1>1 DEF IInv, TicketInv, HasBegun, Whats, Deletes
<1>5. ListedInv'
  BY <1>1, <1>2 DEF IInv, ListedInv, HasBegun, Whats, Deletes
<1>6. RemoveInv'
  BY <1>1 DEF IInv, RemoveInv, Whats, Deletes
<1> QED
  BY <1>3, <1>4, <1>5, <1>6

LEMMA NoneDeleted ==
  ASSUME IInv, UNCHANGED state
  PROVE  Deletes
BY DEF IInv, TypeOK, Deletes

LEMMA FinaliserDeletes ==
  ASSUME IInv, Finalise
  PROVE  Deletes
BY DEF IInv, TypeOK, Deletes, Finalise

LEMMA UnchangedKeeps ==
  ASSUME IInv, dropped' \subseteq Bars,
         UNCHANGED <<empty, state, ticket, bars, lastBars, thread, at, ended, working, culprit,
                     lists, last, todo, ncalls>>
  PROVE  IInv'
<1>1. TodoOK' /\ TicketInv' /\ ListedInv' /\ RemoveInv'
  BY NoneDeleted, CallsUntouched
<1>2. TypeOK' /\ UpdaterInv' /\ ChosenInv' /\ OnlyEmptyBarsRaise'
  BY DEF IInv, TypeOK, UpdaterInv, ChosenInv, OnlyEmptyBarsRaise
<1> QED
  BY <1>1, <1>2 DEF IInv

\* A call, or a finalizer, has begun.
Begins(u, b, steps) ==
  /\ todo[u] = <<>>
  /\ todo' = [todo EXCEPT ![u] = StepsOf(b, steps)]
  /\ ncalls' \in 0 .. MaxCalls /\ dropped' \subseteq Bars
  /\ UNCHANGED <<empty, ticket, bars, lastBars, thread, updaterVars>>

LEMMA CallBegins ==
  ASSUME IInv, NEW u, NEW b, NEW steps, Calls(u, b, steps)
  PROVE  Begins(u, b, steps)
<1>1. ncalls \in 0 .. MaxCalls /\ dropped \subseteq Bars
  BY DEF IInv, TypeOK
<1> QED
  BY <1>1, ProgressAssumption DEF Calls, Begins

\* What the calls have in common: the new steps are known, nobody else's change.
LEMMA CallKnown ==
  ASSUME IInv, NEW u \in Users, NEW b \in Bars, NEW steps \in Seq(Whats), Begins(u, b, steps)
  PROVE  /\ TodoOK' /\ ncalls' \in 0 .. MaxCalls
         /\ \A v \in Users \ {u} : todo'[v] = todo[v]
         /\ \A what \in Whats, c \in Bars : Pending(u, what, c)' => c = b /\ \E i \in 1 .. Len(steps) : what = steps[i]
         /\ Len(steps) > 0 => Doing(u, steps[1], b)'
         /\ \A what \in Whats, c \in Bars : ~Doing(u, what, c)
<1>1. TodoOK /\ todo[u] = <<>>
  BY DEF IInv, Begins
<1>2. todo' = [todo EXCEPT ![u] = StepsOf(b, steps)]
  BY DEF Begins
<1>3. /\ TodoOK'
      /\ \A v \in Users \ {u} : todo'[v] = todo[v]
      /\ Len(todo'[u]) = Len(steps)
      /\ \A i \in 1 .. Len(steps) : todo'[u][i] = Step(steps[i], b)
  BY <1>1, <1>2, Called
<1>4. ncalls' \in 0 .. MaxCalls
  BY DEF Begins
<1>5. \A what \in Whats, c \in Bars : Pending(u, what, c)' => c = b /\ \E i \in 1 .. Len(steps) : what = steps[i]
  <2> SUFFICES ASSUME NEW what \in Whats, NEW c \in Bars, Pending(u, what, c)'
               PROVE  c = b /\ \E i \in 1 .. Len(steps) : what = steps[i]
    OBVIOUS
  <2>1. PICK i \in 1 .. Len(steps) : todo'[u][i] = Step(what, c)
    BY <1>3 DEF Pending, Step
  <2>2. Step(what, c) = Step(steps[i], b)
    BY <1>3, <2>1
  <2> QED
    BY <2>2 DEF Step
<1>6. todo'[u] \in Seq(Steps)
  BY <1>3 DEF TodoOK
<1>7. Len(steps) > 0 => Doing(u, steps[1], b)'
  <2> SUFFICES ASSUME Len(steps) > 0 PROVE Doing(u, steps[1], b)'
    OBVIOUS
  <2>1. todo'[u] # <<>> /\ Head(todo'[u]) = todo'[u][1]
    BY <1>3, <1>6, FirstStep
  <2>2. 1 \in 1 .. Len(steps)
    BY LenProperties
  <2> QED
    BY <1>3, <2>1, <2>2 DEF Doing, Step
<1>8. \A what \in Whats, c \in Bars : ~Doing(u, what, c)
  BY <1>1 DEF Doing
<1> QED
  BY <1>3, <1>4, <1>5, <1>7, <1>8

LEMMA NewKeeps ==
  ASSUME IInv, NEW u \in Users, NEW b \in Bars, New(u, b)
  PROVE  IInv'
<1> DEFINE steps == <<"register", "wakeUp">>
<1>1. steps \in Seq(Whats) /\ Len(steps) = 2 /\ steps[1] = "register" /\ steps[2] = "wakeUp"
  BY DEF Whats
<1>2. /\ state[b] = "NEW" /\ state' = [state EXCEPT ![b] = "INITIALIZED"]
      /\ UNCHANGED <<empty, ticket, bars, lastBars, thread, at, ended, working, culprit, lists, last, dropped>>
      /\ Begins(u, b, steps)
  BY CallBegins DEF New, Calls, updaterVars, locals
<1>3. /\ TodoOK' /\ ncalls' \in 0 .. MaxCalls
      /\ \A v \in Users \ {u} : todo'[v] = todo[v]
      /\ \A what \in Whats, c \in Bars : Pending(u, what, c)' => c = b /\ what \in {"register", "wakeUp"}
      /\ Doing(u, "register", b)'
      /\ \A what \in Whats, c \in Bars : ~Doing(u, what, c)
  <2>1. \A i \in 1 .. Len(steps) : steps[i] \in {"register", "wakeUp"}
    BY <1>1
  <2> HIDE DEF steps
  <2>2. /\ TodoOK' /\ ncalls' \in 0 .. MaxCalls
        /\ \A v \in Users \ {u} : todo'[v] = todo[v]
        /\ \A what \in Whats, c \in Bars : Pending(u, what, c)' => c = b /\ \E i \in 1 .. Len(steps) : what = steps[i]
        /\ Len(steps) > 0 => Doing(u, steps[1], b)'
        /\ \A what \in Whats, c \in Bars : ~Doing(u, what, c)
    BY <1>1, <1>2, CallKnown
  <2> QED
    BY <1>1, <2>1, <2>2
<1>4. TypeOK'
  BY <1>2, <1>3 DEF IInv, TypeOK
<1>5. UpdaterInv' /\ ChosenInv' /\ OnlyEmptyBarsRaise'
  BY <1>2 DEF IInv, TypeOK, UpdaterInv, ChosenInv, OnlyEmptyBarsRaise
<1>6. \A v \in Users, what \in Whats, c \in Bars : Pending(v, what, c)' /\ what \notin {"register", "wakeUp"}
        => v # u /\ Pending(v, what, c)
  BY <1>3 DEF Pending, Step
<1>7. TicketInv'
  BY <1>2, <1>6 DEF IInv, TypeOK, TicketInv, HasBegun, Whats
<1>8. ListedInv'
  <2>1. \A c \in Bars : state'[c] = "BEGAN" => c \in bars'
    BY <1>2 DEF IInv, TypeOK, ListedInv
  <2>2. \A c \in Bars : state'[c] = "INITIALIZED" =>
          c \in bars' \/ \E v \in Users : Doing(v, "register", c)'
    <3> SUFFICES ASSUME NEW c \in Bars, state'[c] = "INITIALIZED"
                 PROVE  c \in bars' \/ \E v \in Users : Doing(v, "register", c)'
      OBVIOUS
    <3>1. CASE c = b
      BY <1>3, <3>1
    <3>2. CASE c # b
      <4>1. c \in bars \/ \E v \in Users : Doing(v, "register", c)
        BY <1>2, <3>2 DEF IInv, TypeOK, ListedInv
      <4>2. \A v \in Users : Doing(v, "register", c) => Doing(v, "register", c)'
        BY <1>3 DEF Doing, Step, Whats
      <4> QED
        BY <1>2, <4>1, <4>2
    <3> QED
      BY <3>1, <3>2
  <2>3. \A v \in Users, c \in Bars : Pending(v, "BEGAN", c)' => c \in bars' \/ HasBegun(c)'
    BY <1>2, <1>6 DEF IInv, TypeOK, ListedInv, HasBegun, Whats
  <2> QED
    BY <2>1, <2>2, <2>3 DEF ListedInv
<1>9. RemoveInv'
  BY <1>2, <1>3, <1>6 DEF IInv, TypeOK, RemoveInv, Whats
<1> QED
  BY <1>3, <1>4, <1>5, <1>7, <1>8, <1>9 DEF IInv

\* The other calls leave the state to their steps; what the steps rely on must
\* hold when the call is made.
LEMMA CallKeeps ==
  ASSUME IInv, NEW u \in Users, NEW b \in Bars, NEW steps \in Seq(Whats), Begins(u, b, steps),
         UNCHANGED state,
         \A i \in 1 .. Len(steps) :
            /\ steps[i] \notin {"unregister", "register"}
            /\ steps[i] = "giveTicket" => HasBegun(b)
            /\ steps[i] = "BEGAN" => b \in bars
  PROVE  IInv'
<1>1. /\ TodoOK' /\ ncalls' \in 0 .. MaxCalls
      /\ \A v \in Users \ {u} : todo'[v] = todo[v]
      /\ \A what \in Whats, c \in Bars : Pending(u, what, c)' => c = b /\ \E i \in 1 .. Len(steps) : what = steps[i]
      /\ \A what \in Whats, c \in Bars : ~Doing(u, what, c)
  BY CallKnown
<1>2. /\ UNCHANGED <<empty, state, ticket, bars, lastBars, thread, at, ended, working, culprit, lists, last>>
      /\ dropped' \subseteq Bars
  BY DEF Begins, updaterVars, locals
<1>3. \A v \in Users \ {u}, what \in Whats, c \in Bars : Pending(v, what, c)' => Pending(v, what, c)
  BY <1>1 DEF Pending, Step
<1>4. TypeOK'
  BY <1>1, <1>2 DEF IInv, TypeOK
<1>5. UpdaterInv' /\ ChosenInv' /\ OnlyEmptyBarsRaise'
  BY <1>2 DEF IInv, UpdaterInv, ChosenInv, OnlyEmptyBarsRaise
<1>6. TicketInv'
  BY <1>1, <1>2, <1>3 DEF IInv, TicketInv, HasBegun, Whats
<1>7. ListedInv'
  <2>1. \A v \in Users, c \in Bars : Pending(v, "BEGAN", c)' => c \in bars' \/ HasBegun(c)'
    BY <1>1, <1>2, <1>3 DEF IInv, ListedInv, HasBegun, Whats
  <2>2. \A v \in Users, c \in Bars : Doing(v, "register", c) => Doing(v, "register", c)'
    BY <1>1 DEF Doing, Step, Whats
  <2> QED
    BY <1>2, <2>1, <2>2 DEF IInv, ListedInv
<1>8. RemoveInv'
  <2>1. \A c \in Bars : ~Pending(u, "unregister", c)'
    BY <1>1 DEF Whats
  <2> QED
    BY <1>1, <1>2, <1>3, <2>1 DEF IInv, RemoveInv, Whats
<1> QED
  BY <1>1, <1>4, <1>5, <1>6, <1>7, <1>8 DEF IInv

LEMMA CallsKeep ==
  ASSUME IInv, NEW u \in Users, UserCalls(u)
  PROVE  IInv'
<1>1. PICK b \in Bars : New(u, b) \/ Begin(u, b) \/ Update(u, b) \/ End(u, b) \/ Delete(u, b)
                       \/ Drop(u, b)
  BY DEF UserCalls
<1>2. CASE New(u, b)
  BY <1>2, NewKeeps
<1>3. CASE Begin(u, b)
  <2> DEFINE steps == <<"BEGAN", "wakeUp">>
  <2>1. steps \in Seq(Whats) /\ Len(steps) = 2 /\ \A i \in 1 .. Len(steps) : steps[i] \in {"BEGAN", "wakeUp"}
    BY DEF Whats
  <2>2. b \in bars
    BY <1>3 DEF Begin, Constructed, IInv, ListedInv, Doing
  <2>3. Begins(u, b, steps) /\ UNCHANGED state
    BY CallBegins, <1>3 DEF Begin
  <2> HIDE DEF steps
  <2> QED
    BY <2>1, <2>2, <2>3, CallKeeps
<1>4. CASE Update(u, b)
  <2> DEFINE steps == <<"update", "wakeUp">>
  <2>1. steps \in Seq(Whats) /\ Len(steps) = 2 /\ \A i \in 1 .. Len(steps) : steps[i] \in {"update", "wakeUp"}
    BY DEF Whats
  <2>2. Begins(u, b, steps) /\ UNCHANGED state
    BY CallBegins, <1>4 DEF Update
  <2> HIDE DEF steps
  <2> QED
    BY <2>1, <2>2, CallKeeps
<1>5. CASE End(u, b)
  <2> DEFINE short == <<"giveTicket", "wakeUp", "ENDED">>
             long == <<"giveTicket", "wakeUp", "ENDED", "delete", "DELETED">>
             All == {"giveTicket", "wakeUp", "ENDED", "delete", "DELETED"}
  <2>1. short \in Seq(Whats) /\ \A i \in 1 .. Len(short) : short[i] \in All
    BY DEF Whats
  <2>2. long \in Seq(Whats) /\ \A i \in 1 .. Len(long) : long[i] \in All
    BY DEF Whats
  <2>3. HasBegun(b) /\ (Begins(u, b, short) \/ Begins(u, b, long)) /\ UNCHANGED state
    BY CallBegins, <1>5 DEF End, HasBegun
  <2> HIDE DEF short, long
  <2> QED
    BY <2>1, <2>2, <2>3, CallKeeps
<1>6. CASE Delete(u, b)
  <2> DEFINE steps == <<"delete", "DELETED">>
  <2>1. steps \in Seq(Whats) /\ Len(steps) = 2 /\ \A i \in 1 .. Len(steps) : steps[i] \in {"delete", "DELETED"}
    BY DEF Whats
  <2>2. Begins(u, b, steps) /\ UNCHANGED state
    BY CallBegins, <1>6 DEF Delete
  <2> HIDE DEF steps
  <2> QED
    BY <2>1, <2>2, CallKeeps
<1>7. CASE Drop(u, b) /\ todo' = todo
  <2>1. /\ UNCHANGED <<empty, state, ticket, bars, lastBars, thread, at, ended, working, culprit, lists, last, todo, ncalls>>
        /\ dropped' \subseteq Bars
    BY <1>7 DEF Drop, barVars, updaterVars, locals, IInv, TypeOK
  <2> QED
    BY <2>1, UnchangedKeeps
<1>8. CASE Drop(u, b) /\ todo' = [todo EXCEPT ![u] = StepsOf(b, <<"delete", "DELETED">>)]
  <2> DEFINE steps == <<"delete", "DELETED">>
  <2>1. steps \in Seq(Whats) /\ Len(steps) = 2 /\ \A i \in 1 .. Len(steps) : steps[i] \in {"delete", "DELETED"}
    BY DEF Whats
  <2>2. Begins(u, b, steps) /\ UNCHANGED state
    BY <1>8 DEF Drop, Begins, barVars, IInv, TypeOK
  <2> HIDE DEF steps
  <2> QED
    BY <2>1, <2>2, CallKeeps
<1> QED
  BY <1>1, <1>2, <1>3, <1>4, <1>5, <1>6, <1>7, <1>8 DEF Drop

----------------------------------------------------------------------------
(* The invariant is kept by the steps of the calls.                         *)

LEMMA NotLater ==
  ASSUME TodoOK, RemoveInv, NEW u \in Users, NEW i \in 2 .. Len(todo[u])
  PROVE  todo[u][i].what # "unregister"
<1> SUFFICES ASSUME todo[u][i].what = "unregister" PROVE FALSE
  OBVIOUS
<1>1. todo[u] \in Seq(Steps)
  BY DEF TodoOK
<1>2. i \in 1 .. Len(todo[u]) /\ todo[u][i] \in Steps
  BY <1>1, LenProperties, ElementOfSeq
<1>3. todo[u][i] = Step("unregister", todo[u][i].bar) /\ todo[u][i].bar \in Bars
  BY <1>2 DEF Steps, Step
<1>4. Pending(u, "unregister", todo[u][i].bar)
  BY <1>2, <1>3 DEF Pending
<1> QED
  BY <1>3, <1>4 DEF RemoveInv

LEMMA StepKnown ==
  ASSUME IInv, NEW u \in Users, todo[u] # <<>>, Done(u) \/ Raise(u)
  PROVE  /\ TodoOK'
         /\ \A v \in Users \ {u} : todo'[v] = todo[v]
         /\ \A v \in Users, what \in Whats, c \in Bars : Pending(v, what, c)' => Pending(v, what, c)
         /\ \A c \in Bars : ~Pending(u, "unregister", c)'
<1>1. TodoOK /\ RemoveInv
  BY DEF IInv
<1>2. TodoOK' /\ \A v \in Users \ {u} : todo'[v] = todo[v]
  BY <1>1, Shorter
<1>3. \A v \in Users, what \in Whats, c \in Bars : Pending(v, what, c)' => Pending(v, what, c)
  BY <1>1, StillPending
<1>4. \A c \in Bars : ~Pending(u, "unregister", c)'
  BY <1>1, NothingToRemove
<1> QED
  BY <1>2, <1>3, <1>4

\* A step that changes neither the list nor a bar's state, and is not the
\* registration.
LEMMA PlainStep ==
  ASSUME IInv, NEW u \in Users, todo[u] # <<>>, Done(u) \/ Raise(u),
         UNCHANGED <<state, bars>>, \A c \in Bars : ~Doing(u, "register", c)
  PROVE  TodoOK' /\ TicketInv' /\ ListedInv' /\ RemoveInv'
<1>1. /\ TodoOK'
      /\ \A v \in Users \ {u} : todo'[v] = todo[v]
      /\ \A v \in Users, what \in Whats, c \in Bars : Pending(v, what, c)' => Pending(v, what, c)
      /\ \A c \in Bars : ~Pending(u, "unregister", c)'
  BY StepKnown
<1>2. TicketInv'
  BY <1>1 DEF IInv, TicketInv, HasBegun, Whats
<1>3. ListedInv'
  <2>1. \A v \in Users, c \in Bars : Pending(v, "BEGAN", c)' => c \in bars' \/ HasBegun(c)'
    BY <1>1 DEF IInv, ListedInv, HasBegun, Whats
  <2>2. \A v \in Users, c \in Bars : Doing(v, "register", c) => Doing(v, "register", c)'
    BY <1>1 DEF Doing, Step
  <2> QED
    BY <2>1, <2>2 DEF IInv, ListedInv
<1>4. RemoveInv'
  BY <1>1 DEF IInv, RemoveInv, Whats
<1> QED
  BY <1>1, <1>2, <1>3, <1>4

LEMMA OneStepAtATime ==
  ASSUME NEW u, NEW what, NEW b, Doing(u, what, b), NEW other, NEW c, other # what
  PROVE  ~Doing(u, other, c)
  BY DEF Doing, Step

LEMMA RegisterKeeps ==
  ASSUME IInv, NEW u \in Users, NEW b \in Bars, Register(u, b)
  PROVE  IInv'
<1>1. /\ Doing(u, "register", b) /\ bars' = bars \cup {b} /\ Done(u)
      /\ UNCHANGED <<empty, state, ticket, lastBars, thread, at, ended, working, culprit, lists, last, dropped, ncalls>>
  BY DEF Register, barVars, updaterVars, locals
<1>2. /\ TodoOK'
      /\ \A v \in Users \ {u} : todo'[v] = todo[v]
      /\ \A v \in Users, what \in Whats, c \in Bars : Pending(v, what, c)' => Pending(v, what, c)
      /\ \A c \in Bars : ~Pending(u, "unregister", c)'
  BY <1>1, StepKnown DEF Doing
<1>3. TypeOK'
  BY <1>1 DEF IInv, TypeOK
<1>4. UpdaterInv' /\ ChosenInv' /\ OnlyEmptyBarsRaise'
  BY <1>1 DEF IInv, UpdaterInv, ChosenInv, OnlyEmptyBarsRaise
<1>5. TicketInv'
  BY <1>1, <1>2 DEF IInv, TicketInv, HasBegun, Whats
<1>6. ListedInv'
  <2>1. \A v \in Users, c \in Bars : Pending(v, "BEGAN", c)' => c \in bars' \/ HasBegun(c)'
    BY <1>1, <1>2 DEF IInv, ListedInv, HasBegun, Whats
  <2>2. \A v \in Users, c \in Bars : Doing(v, "register", c) => c \in bars' \/ Doing(v, "register", c)'
    BY <1>1, <1>2 DEF Doing, Step
  <2> QED
    BY <1>1, <2>1, <2>2 DEF IInv, ListedInv
<1>7. RemoveInv'
  BY <1>1, <1>2 DEF IInv, RemoveInv, Whats
<1> QED
  BY <1>2, <1>3, <1>4, <1>5, <1>6, <1>7 DEF IInv

LEMMA WakeUpKeeps ==
  ASSUME IInv, NEW u \in Users, NEW b \in Bars, WakeUp(u, b)
  PROVE  IInv'
<1>1. /\ Doing(u, "wakeUp", b) /\ todo[u] # <<>> /\ Done(u)
      /\ UNCHANGED <<empty, state, ticket, bars, lastBars, ended, working, culprit, lists, last, dropped, ncalls>>
  BY DEF WakeUp, Doing, barVars, locals
<1>2. TodoOK' /\ TicketInv' /\ ListedInv' /\ RemoveInv'
  BY <1>1, PlainStep, OneStepAtATime
<1>3. CASE thread # None
  <2>1. UNCHANGED <<thread, at>>
    BY <1>3 DEF WakeUp
  <2> QED
    BY <1>1, <1>2, <2>1 DEF IInv, TypeOK, UpdaterInv, ChosenInv, OnlyEmptyBarsRaise
<1>4. CASE thread = None
  <2>1. \A w \in Updaters : at[w] = "out"
    BY <1>4, ProgressAssumption DEF IInv, UpdaterInv
  <2>2. PICK w \in Updaters : thread' = w /\ at' = [at EXCEPT ![w] = "check"]
    <3> DEFINE w == CHOOSE w \in Updaters : at[w] = "out"
    <3>1. w \in Updaters
      BY <2>1, ProgressAssumption
    <3>2. thread' = w /\ at' = [at EXCEPT ![w] = "check"]
      BY <1>4 DEF WakeUp
    <3> HIDE DEF w
    <3> QED
      BY <3>1, <3>2
  <2>3. TypeOK'
    BY <1>1, <2>2 DEF IInv, TypeOK
  <2>4. UpdaterInv' /\ ChosenInv' /\ OnlyEmptyBarsRaise'
    BY <1>1, <2>1, <2>2 DEF IInv, TypeOK, UpdaterInv, ChosenInv, OnlyEmptyBarsRaise
  <2> QED
    BY <1>2, <2>3, <2>4 DEF IInv
<1> QED
  BY <1>3, <1>4

LEMMA PlainKeeps ==
  ASSUME IInv, NEW u \in Users, NEW b \in Bars,
         UpdateProgress(u, b) \/ CheckDelete(u, b) \/ GiveTicket(u, b)
  PROVE  IInv'
<1>1. /\ todo[u] # <<>> /\ (Done(u) \/ Raise(u))
      /\ \A c \in Bars : ~Doing(u, "register", c)
      /\ UNCHANGED <<empty, state, bars, lastBars, thread, at, ended, working, culprit, lists, last, dropped, ncalls>>
      /\ \/ UNCHANGED ticket
         \/ Doing(u, "giveTicket", b) /\ ticket' = [ticket EXCEPT ![b] = TRUE]
  BY OneStepAtATime DEF UpdateProgress, CheckDelete, GiveTicket, Doing, Step, barVars, updaterVars, locals
<1>2. TodoOK' /\ TicketInv' /\ ListedInv' /\ RemoveInv'
  BY <1>1, PlainStep
<1>3. Doing(u, "giveTicket", b) => HasBegun(b)
  BY DoingPending DEF IInv, TicketInv, Whats
<1>4. TypeOK'
  BY <1>1, <1>3 DEF IInv, TypeOK, HasBegun
<1>5. UpdaterInv' /\ OnlyEmptyBarsRaise'
  BY <1>1 DEF IInv, UpdaterInv, OnlyEmptyBarsRaise
<1>6. ChosenInv'
  <2>1. \A c \in Bars : ticket[c] => ticket'[c]
    BY <1>1 DEF IInv, TypeOK
  <2>2. \A w \in Updaters : ended[w] \subseteq Bars
    BY ProgressAssumption DEF IInv, TypeOK
  <2> QED
    BY <1>1, <2>1, <2>2 DEF IInv, ChosenInv
<1> QED
  BY <1>2, <1>4, <1>5, <1>6 DEF IInv

\* Only the end of a bar is more than a finished step: its thread removes the
\* bar next.
LEMMA EndsKeeps ==
  ASSUME IInv, NEW u \in Users, NEW b \in Bars, Doing(u, "ENDED", b), GlobalLockFree,
         state[b] = "BEGAN", state' = [state EXCEPT ![b] = "ENDED"],
         todo' = [todo EXCEPT ![u][1] = Step("unregister", b)],
         UNCHANGED <<empty, ticket, bars, lastBars, thread, updaterVars, dropped, ncalls>>
  PROVE  IInv'
<1>1. /\ TodoOK /\ todo[u] \in Seq(Steps) /\ Len(todo[u]) > 0 /\ todo[u][1] = Step("ENDED", b)
      /\ Len(todo[u]) \in Nat
  BY DoingPending, LenProperties DEF IInv, TodoOK, Whats
<1>2. Step("unregister", b) \in Steps
  BY DEF Step, Steps, Whats
<1>3. /\ todo'[u] = [todo[u] EXCEPT ![1] = Step("unregister", b)]
      /\ \A v \in Users \ {u} : todo'[v] = todo[v]
  BY <1>1 DEF TodoOK
<1>4. todo'[u] \in Seq(Steps) /\ Len(todo'[u]) = Len(todo[u])
  BY <1>1, <1>2, <1>3, ExceptSeq
<1>5. \A i \in 2 .. Len(todo[u]) : todo'[u][i] = todo[u][i]
  BY <1>1, <1>3, LenProperties
<1>6. TodoOK'
  BY <1>1, <1>3, <1>4 DEF TodoOK
<1>7. \A v \in Users, what \in Whats, c \in Bars :
        Pending(v, what, c)' => Pending(v, what, c) \/ (v = u /\ what = "unregister" /\ c = b)
  <2> SUFFICES ASSUME NEW v \in Users, NEW what \in Whats, NEW c \in Bars, Pending(v, what, c)'
               PROVE  Pending(v, what, c) \/ (v = u /\ what = "unregister" /\ c = b)
    OBVIOUS
  <2>1. PICK i \in 1 .. Len(todo'[v]) : todo'[v][i] = Step(what, c)
    BY DEF Pending, Step
  <2>2. CASE v # u
    BY <1>3, <2>1, <2>2 DEF Pending
  <2>3. CASE v = u /\ i # 1
    <3>1. i \in 2 .. Len(todo[u])
      BY <1>1, <1>4, <2>1, <2>3
    <3>2. todo[u][i] = Step(what, c) /\ i \in 1 .. Len(todo[u])
      BY <1>5, <2>1, <2>3, <3>1
    <3> QED
      BY <2>3, <3>2 DEF Pending
  <2>4. CASE v = u /\ i = 1
    <3>1. Step(what, c) = Step("unregister", b)
      BY <1>1, <1>3, <2>1, <2>4, LenProperties
    <3> QED
      BY <2>4, <3>1 DEF Step
  <2> QED
    BY <2>2, <2>3, <2>4
<1>8. \A i \in 2 .. Len(todo'[u]) : todo'[u][i].what # "unregister"
  BY <1>4, <1>5, NotLater DEF IInv
<1>9. TypeOK'
  BY DEF IInv, TypeOK, updaterVars, locals
<1>10. UpdaterInv' /\ OnlyEmptyBarsRaise'
  BY DEF IInv, UpdaterInv, OnlyEmptyBarsRaise, updaterVars, locals
<1>11. ChosenInv'
  BY DEF GlobalLockFree, ChosenInv, updaterVars, locals
<1>12. TicketInv'
  BY <1>7 DEF IInv, TypeOK, TicketInv, HasBegun, Whats
<1>13. ListedInv'
  <2>1. \A v \in Users, c \in Bars : Pending(v, "BEGAN", c)' => c \in bars' \/ HasBegun(c)'
    BY <1>7 DEF IInv, TypeOK, ListedInv, HasBegun, Whats
  <2>2. \A v \in Users, c \in Bars : Doing(v, "register", c) => Doing(v, "register", c)'
    BY <1>3, OneStepAtATime DEF Doing, Step
  <2> QED
    BY <2>1, <2>2 DEF IInv, TypeOK, ListedInv
<1>14. RemoveInv'
  <2>1. \A v \in Users : ~Pending(v, "unregister", b)
    BY DEF IInv, RemoveInv
  <2>2. b \in bars'
    BY DEF IInv, ListedInv
  <2> SUFFICES ASSUME NEW v \in Users, NEW c \in Bars, Pending(v, "unregister", c)'
               PROVE  /\ \A i \in 2 .. Len(todo'[v]) : todo'[v][i].what # "unregister"
                      /\ c \in bars'
                      /\ state'[c] \in {"ENDED", "DELETED"}
                      /\ \A w \in Users \ {v} : ~Pending(w, "unregister", c)'
    BY DEF RemoveInv
  <2>3. CASE v = u /\ c = b
    BY <1>7, <1>8, <2>1, <2>2, <2>3 DEF IInv, TypeOK, Whats
  <2>4. CASE ~(v = u /\ c = b)
    <3>1. Pending(v, "unregister", c) /\ c # b
      BY <1>7, <2>1, <2>4 DEF Whats
    <3>2. /\ c \in bars /\ state[c] \in {"ENDED", "DELETED"}
          /\ \A w \in Users \ {v} : ~Pending(w, "unregister", c)
      BY <3>1 DEF IInv, RemoveInv
    <3>3. \A i \in 2 .. Len(todo'[v]) : todo'[v][i].what # "unregister"
      BY <1>3, <1>8, NotLater DEF IInv
    <3>4. \A w \in Users \ {v} : ~Pending(w, "unregister", c)'
      BY <1>7, <3>1, <3>2 DEF Whats
    <3> QED
      BY <3>1, <3>2, <3>3, <3>4 DEF IInv, TypeOK
  <2> QED
    BY <2>3, <2>4
<1> QED
  BY <1>6, <1>9, <1>10, <1>11, <1>12, <1>13, <1>14 DEF IInv

LEMMA SetStateKeeps ==
  ASSUME IInv, NEW u \in Users, NEW b \in Bars, SetState(u, b)
  PROVE  IInv'
<1>1. PICK new \in {"BEGAN", "ENDED", "DELETED"} :
        /\ Doing(u, new, b)
        /\ GlobalLockFree
        /\ IF Legal(state[b], new)
             THEN /\ state' = [state EXCEPT ![b] = new]
                  /\ IF new = "ENDED"
                       THEN todo' = [todo EXCEPT ![u][1] = Step("unregister", b)]
                       ELSE Done(u)
             ELSE Raise(u) /\ UNCHANGED state
        /\ UNCHANGED <<empty, ticket, bars, lastBars, thread, updaterVars, dropped, ncalls>>
  BY DEF SetState
<1>2. todo[u] # <<>> /\ \A c \in Bars : ~Doing(u, "register", c)
  BY <1>1, OneStepAtATime DEF Doing
<1>3. CASE ~Legal(state[b], new)
  <2>1. TodoOK' /\ TicketInv' /\ ListedInv' /\ RemoveInv'
    BY <1>1, <1>2, <1>3, PlainStep
  <2>2. TypeOK' /\ UpdaterInv' /\ ChosenInv' /\ OnlyEmptyBarsRaise'
    BY <1>1, <1>3 DEF IInv, TypeOK, UpdaterInv, ChosenInv, OnlyEmptyBarsRaise, updaterVars, locals
  <2> QED
    BY <2>1, <2>2 DEF IInv
<1>4. CASE Legal(state[b], new) /\ new = "ENDED"
  <2>1. state[b] = "BEGAN"
    BY <1>4 DEF Legal
  <2> QED
    BY <1>1, <1>4, <2>1, EndsKeeps
<1>5. CASE Legal(state[b], new) /\ new # "ENDED"
  <2>1. Done(u) /\ state' = [state EXCEPT ![b] = new] /\ bars' = bars
    BY <1>1, <1>5
  <2>2. /\ TodoOK'
        /\ \A v \in Users \ {u} : todo'[v] = todo[v]
        /\ \A v \in Users, what \in Whats, c \in Bars : Pending(v, what, c)' => Pending(v, what, c)
        /\ \A c \in Bars : ~Pending(u, "unregister", c)'
    BY <1>2, <2>1, StepKnown
  <2>3. TypeOK'
    BY <1>1, <1>5 DEF IInv, TypeOK, updaterVars, locals
  <2>4. UpdaterInv' /\ OnlyEmptyBarsRaise'
    BY <1>1 DEF IInv, UpdaterInv, OnlyEmptyBarsRaise, updaterVars, locals
  <2>5. ChosenInv'
    BY <1>1 DEF GlobalLockFree, ChosenInv, updaterVars, locals
  <2>6. \A c \in Bars : HasBegun(c) => HasBegun(c)'
    BY <2>1 DEF IInv, TypeOK, HasBegun
  <2>7. TicketInv'
    BY <2>2, <2>6 DEF IInv, TicketInv, Whats
  <2>8. ListedInv'
    <3>1. \A v \in Users, c \in Bars : Pending(v, "BEGAN", c)' => c \in bars' \/ HasBegun(c)'
      BY <2>1, <2>2, <2>6 DEF IInv, ListedInv, Whats
    <3>2. \A v \in Users, c \in Bars : Doing(v, "register", c) => Doing(v, "register", c)'
      BY <1>2, <2>2 DEF Doing, Step
    <3>3. new = "BEGAN" => b \in bars
      <4> SUFFICES ASSUME new = "BEGAN" PROVE b \in bars
        OBVIOUS
      <4>1. Pending(u, "BEGAN", b)
        BY <1>1, DoingPending DEF IInv, Whats
      <4>2. ~HasBegun(b)
        BY <1>5 DEF Legal, HasBegun
      <4> QED
        BY <4>1, <4>2 DEF IInv, ListedInv
    <3> QED
      BY <2>1, <3>1, <3>2, <3>3 DEF IInv, TypeOK, ListedInv
  <2>9. RemoveInv'
    <3>1. \A c \in Bars : state[c] \in {"ENDED", "DELETED"} => state'[c] \in {"ENDED", "DELETED"}
      BY <1>5, <2>1 DEF IInv, TypeOK, Legal
    <3> QED
      BY <2>1, <2>2, <3>1 DEF IInv, RemoveInv, Whats
  <2> QED
    BY <2>2, <2>3, <2>4, <2>5, <2>7, <2>8, <2>9 DEF IInv
<1> QED
  BY <1>3, <1>4, <1>5

LEMMA UnregisterKeeps ==
  ASSUME IInv, NEW u \in Users, NEW b \in Bars, Unregister(u, b)
  PROVE  IInv'
<1>1. /\ Doing(u, "unregister", b) /\ todo[u] # <<>> /\ (Done(u) \/ Raise(u))
      /\ bars' = bars \ {b}
      /\ UNCHANGED <<empty, state, ticket, lastBars, thread, at, ended, working, culprit, lists, last, dropped, ncalls>>
  BY DEF Unregister, Doing, barVars, updaterVars, locals
<1>2. /\ TodoOK'
      /\ \A v \in Users \ {u} : todo'[v] = todo[v]
      /\ \A v \in Users, what \in Whats, c \in Bars : Pending(v, what, c)' => Pending(v, what, c)
      /\ \A c \in Bars : ~Pending(u, "unregister", c)'
  BY <1>1, StepKnown
<1>3. /\ state[b] \in {"ENDED", "DELETED"}
      /\ \A v \in Users \ {u} : ~Pending(v, "unregister", b)
  <2>1. Pending(u, "unregister", b)
    BY <1>1, DoingPending DEF IInv, Whats
  <2> QED
    BY <2>1 DEF IInv, RemoveInv
<1>4. TypeOK' /\ UpdaterInv' /\ ChosenInv' /\ OnlyEmptyBarsRaise'
  BY <1>1 DEF IInv, TypeOK, UpdaterInv, ChosenInv, OnlyEmptyBarsRaise
<1>5. TicketInv'
  BY <1>1, <1>2 DEF IInv, TicketInv, HasBegun, Whats
<1>6. ListedInv'
  <2>1. \A v \in Users, c \in Bars : Pending(v, "BEGAN", c)' => c \in bars' \/ HasBegun(c)'
    BY <1>1, <1>2, <1>3 DEF IInv, ListedInv, HasBegun, Whats
  <2>2. \A v \in Users, c \in Bars : Doing(v, "register", c) => Doing(v, "register", c)'
    BY <1>1, <1>2, OneStepAtATime DEF Doing, Step
  <2> QED
    BY <1>1, <1>3, <2>1, <2>2 DEF IInv, ListedInv
<1>7. RemoveInv'
  BY <1>1, <1>2, <1>3 DEF IInv, RemoveInv, Whats
<1> QED
  BY <1>2, <1>4, <1>5, <1>6, <1>7 DEF IInv

LEMMA UserStepsKeep ==
  ASSUME IInv, NEW u \in Users, UserStep(u)
  PROVE  IInv'
BY RegisterKeeps, WakeUpKeeps, SetStateKeeps, UnregisterKeeps, PlainKeeps DEF UserStep

----------------------------------------------------------------------------
(* The invariant is kept by the updater.                                    *)

\* A move of the updater that neither draws nor chooses what to draw.
LEMMA MoveKeeps ==
  ASSUME IInv, NEW w \in Updaters,
         CheckBars(w) \/ BeginPass(w) \/ DrawHangs(w) \/ EndDrawing(w)
  PROVE  IInv'
<1>1. PICK to \in {"forget", "collect", "choose", "hung"} :
        at[w] # "out" /\ at' = [at EXCEPT ![w] = to]
  BY DEF CheckBars, BeginPass, DrawHangs, EndDrawing, Move
<1>2. UNCHANGED <<empty, state, ticket, bars, lastBars, thread, ended, working, culprit, dropped, todo, ncalls>>
  BY DEF CheckBars, BeginPass, DrawHangs, EndDrawing, barVars, locals
<1>3. TodoOK' /\ TicketInv' /\ ListedInv' /\ RemoveInv'
  BY <1>2, NoneDeleted, CallsUntouched
<1>4. /\ lists' = lists \/ lists' = [lists EXCEPT ![w] = {}]
      /\ last' = last \/ last' = [last EXCEPT ![w] = None]
  BY DEF CheckBars, BeginPass, DrawHangs, EndDrawing, locals
<1>5. lists' \in [Updaters -> SUBSET Bars] /\ last' \in [Updaters -> Bars \cup {None}]
  BY <1>4 DEF IInv, TypeOK
<1>6. TypeOK'
  BY <1>1, <1>2, <1>5 DEF IInv, TypeOK
<1>7. UpdaterInv' /\ ChosenInv' /\ OnlyEmptyBarsRaise'
  BY <1>1, <1>2 DEF IInv, TypeOK, UpdaterInv, ChosenInv, OnlyEmptyBarsRaise
<1> QED
  BY <1>3, <1>6, <1>7 DEF IInv

LEMMA ForgetKeeps ==
  ASSUME IInv, NEW w \in Updaters, ForgetThread(w)
  PROVE  IInv'
<1>1. at[w] = "forget" /\ at' = [at EXCEPT ![w] = "out"] /\ thread' = None
  BY DEF ForgetThread, Move
<1>2. UNCHANGED <<empty, ticket, bars, lastBars, ended, working, culprit, dropped, todo, ncalls>>
  BY DEF ForgetThread
<1>3. Deletes
  BY FinaliserDeletes DEF ForgetThread
<1>4. TodoOK' /\ TicketInv' /\ ListedInv' /\ RemoveInv'
  BY <1>2, <1>3, CallsUntouched
<1>5. lists' \in [Updaters -> SUBSET Bars] /\ last' \in [Updaters -> Bars \cup {None}]
  BY DEF ForgetThread, Forget, IInv, TypeOK
<1>6. TypeOK'
  BY <1>1, <1>2, <1>3, <1>5 DEF IInv, TypeOK, Deletes
<1>7. UpdaterInv'
  BY <1>1 DEF IInv, TypeOK, UpdaterInv
<1>8. ChosenInv' /\ OnlyEmptyBarsRaise'
  BY <1>1, <1>2 DEF IInv, TypeOK, UpdaterInv, ChosenInv, OnlyEmptyBarsRaise
<1> QED
  BY <1>4, <1>6, <1>7, <1>8 DEF IInv

LEMMA CollectKeeps ==
  ASSUME IInv, NEW w \in Updaters, Collect(w)
  PROVE  IInv'
<1> DEFINE shown == {b \in bars \cup lastBars : Shown(b)}
           listed == {b \in shown : ticket[b] => b \in Kept}
<1>1. /\ at[w] = "choose"
      /\ ended' = [ended EXCEPT ![w] = {b \in shown : ticket[b] /\ b \in Kept}]
      /\ working' = [working EXCEPT ![w] = {b \in shown : ~ticket[b]}]
      /\ lists' = [lists EXCEPT ![w] = listed]
      /\ lastBars' = bars
      /\ UNCHANGED <<empty, state, ticket, bars, thread, culprit, dropped, todo, ncalls>>
  BY DEF Collect, CollectFrom, barVars
<1>2. TodoOK' /\ TicketInv' /\ ListedInv' /\ RemoveInv'
  BY <1>1, NoneDeleted, CallsUntouched
<1>3. shown \subseteq Bars /\ \A b \in shown : state[b] = "BEGAN" \/ ticket[b]
  BY DEF IInv, TypeOK, Shown
<1>4. PICK to \in {"forget", "draw", "hungInList"} : at' = [at EXCEPT ![w] = to]
  BY DEF Collect, CollectFrom
<1>5. last' \in [Updaters -> Bars \cup {None}]
  <2>1. PICK b \in LookedAtLast(w) : last' = [last EXCEPT ![w] = b]
    BY DEF Collect, CollectFrom
  <2>2. b \in Bars \cup {None}
    BY DEF LookedAtLast, IInv, TypeOK
  <2> QED
    BY <2>1, <2>2 DEF IInv, TypeOK
<1>6. listed \subseteq Bars
  BY <1>3
<1> HIDE DEF shown, listed
<1>7. TypeOK'
  BY <1>1, <1>3, <1>4, <1>5, <1>6 DEF IInv, TypeOK
<1>8. UpdaterInv' /\ OnlyEmptyBarsRaise'
  BY <1>1, <1>4 DEF IInv, TypeOK, UpdaterInv, OnlyEmptyBarsRaise
<1>9. ChosenInv'
  BY <1>1, <1>3, <1>4 DEF IInv, TypeOK, ChosenInv, UpdaterInv
<1> QED
  BY <1>2, <1>7, <1>8, <1>9 DEF IInv

\* What is drawn next may be drawn: the application cannot change a bar's state
\* while the updater holds the lock.
LEMMA NextMayBeDrawn ==
  ASSUME IInv, NEW w \in Updaters, at[w] = "draw", NEW b \in NextToDraw(w)
  PROVE  b \in Bars /\ MayDraw(b)
<1>1. CASE ended[w] # {}
  <2>1. b \in ended[w] /\ b \in Kept /\ b \in Bars
    BY <1>1, ProgressAssumption DEF NextToDraw, IInv, TypeOK
  <2>2. ticket[b]
    BY <2>1 DEF IInv, ChosenInv
  <2> QED
    BY <2>1, <2>2 DEF IInv, TypeOK, MayDraw
<1>2. CASE ended[w] = {}
  <2>1. b \in working[w] /\ b \in Bars
    BY <1>2 DEF NextToDraw, IInv, TypeOK
  <2> QED
    BY <2>1 DEF IInv, ChosenInv, MayDraw
<1> QED
  BY <1>1, <1>2

\* The ticket of one bar, and no other, is taken.
LEMMA OneTicket ==
  ASSUME TypeOK, NEW b \in Bars, TakeTicket(b)
  PROVE  /\ ticket' \in [Bars -> BOOLEAN]
         /\ \A c \in Bars : ticket'[c] => ticket[c]
         /\ \A c \in Bars \ {b} : ticket'[c] = ticket[c]
<1>1. ticket' = [ticket EXCEPT ![b] = ticket[b] /\ state[b] = "BEGAN"] /\ ticket \in [Bars -> BOOLEAN]
  BY DEF TakeTicket, TypeOK
<1>2. (ticket[b] /\ state[b] = "BEGAN") \in BOOLEAN
  OBVIOUS
<1>3. PICK t \in BOOLEAN : ticket' = [ticket EXCEPT ![b] = t] /\ (t => ticket[b])
  BY <1>1, <1>2
<1> QED
  BY <1>1, <1>3

LEMMA DrawKeeps ==
  ASSUME IInv, NEW w \in Updaters, Draw(w)
  PROVE  IInv'
<1>1. PICK b \in NextToDraw(w) :
        /\ at[w] = "draw"
        /\ TakeTicket(b)
        /\ ended' = [ended EXCEPT ![w] = @ \ {b}]
        /\ working' = [working EXCEPT ![w] = IF ended[w] = {} THEN @ \ {b} ELSE @]
        /\ last' = [last EXCEPT ![w] = b]
        /\ UNCHANGED <<empty, state, bars, lastBars, thread, at, culprit, lists, dropped, todo, ncalls>>
  BY DEF Draw
<1>2. TodoOK' /\ TicketInv' /\ ListedInv' /\ RemoveInv'
  BY <1>1, NoneDeleted, CallsUntouched
<1>3. b \in Bars /\ TypeOK
  BY <1>1, NextMayBeDrawn DEF IInv
<1>4. /\ ticket' \in [Bars -> BOOLEAN]
      /\ \A c \in Bars : ticket'[c] => ticket[c]
      /\ \A c \in Bars \ {b} : ticket'[c] = ticket[c]
  BY <1>1, <1>3, OneTicket
<1>5. /\ ended' \in [Updaters -> SUBSET Kept] /\ working' \in [Updaters -> SUBSET Bars]
      /\ ended'[w] = ended[w] \ {b} /\ working'[w] \subseteq working[w]
  BY <1>1, <1>3 DEF TypeOK
<1>6. TypeOK'
  BY <1>1, <1>3, <1>4, <1>5 DEF TypeOK
<1>7. UpdaterInv' /\ OnlyEmptyBarsRaise'
  BY <1>1 DEF IInv, UpdaterInv, OnlyEmptyBarsRaise
<1>8. ChosenInv'
  <2> SUFFICES ASSUME NEW x \in Updaters, at'[x] = "draw"
               PROVE  /\ \A c \in ended'[x] : ticket'[c]
                      /\ \A c \in working'[x] : state'[c] = "BEGAN"
    BY DEF ChosenInv
  <2>1. x = w
    BY <1>1 DEF IInv, UpdaterInv
  <2>2. \A c \in ended[w] : ticket[c] /\ c \in Bars
    BY <1>1, <1>3, ProgressAssumption DEF IInv, TypeOK, ChosenInv
  <2>3. \A c \in working[w] : state[c] = "BEGAN"
    BY <1>1 DEF IInv, ChosenInv
  <2> QED
    BY <1>1, <1>4, <1>5, <2>1, <2>2, <2>3
<1> QED
  BY <1>2, <1>6, <1>7, <1>8 DEF IInv

LEMMA DrawRaisesKeeps ==
  ASSUME IInv, NEW w \in Updaters, DrawRaises(w)
  PROVE  IInv'
<1>1. PICK b \in NextToDraw(w) :
        /\ at[w] = "draw" /\ at' = [at EXCEPT ![w] = "dead"]
        /\ \/ ~MayDraw(b) /\ UNCHANGED ticket
           \/ MayDraw(b) /\ b \in empty /\ TakeTicket(b)
        /\ culprit' = b
        /\ UNCHANGED <<empty, bars, lastBars, thread, ended, working, dropped, todo, ncalls>>
        /\ Forget(w) /\ Finalise
  BY DEF DrawRaises, Move
<1>d. Deletes
  BY <1>1, FinaliserDeletes
<1>2. TodoOK' /\ TicketInv' /\ ListedInv' /\ RemoveInv'
  BY <1>1, <1>d, CallsUntouched
<1>3. b \in Bars /\ b \in empty /\ TakeTicket(b) /\ TypeOK
  BY <1>1, NextMayBeDrawn DEF IInv
<1>4. ticket' \in [Bars -> BOOLEAN] /\ \A c \in Bars : ticket'[c] => ticket[c]
  BY <1>3, OneTicket
<1>l. lists' \in [Updaters -> SUBSET Bars] /\ last' \in [Updaters -> Bars \cup {None}]
  BY <1>1, <1>3 DEF Forget, TypeOK
<1>5. TypeOK'
  BY <1>1, <1>3, <1>4, <1>d, <1>l DEF TypeOK, Deletes
<1>6. UpdaterInv' /\ OnlyEmptyBarsRaise'
  BY <1>1, <1>3 DEF IInv, TypeOK, UpdaterInv, OnlyEmptyBarsRaise
<1>7. ChosenInv'
  BY <1>1 DEF IInv, TypeOK, UpdaterInv, ChosenInv
<1> QED
  BY <1>2, <1>5, <1>6, <1>7 DEF IInv

LEMMA Stuttering ==
  ASSUME IInv, UNCHANGED vars
  PROVE  IInv'
<1>1. UNCHANGED <<empty, state, ticket, bars, lastBars, thread, at, ended, working, culprit, lists, last, dropped, todo, ncalls>>
  BY DEF vars, barVars, updaterVars, locals
<1>2. dropped' \subseteq Bars
  BY <1>1 DEF IInv, TypeOK
<1> QED
  BY <1>1, <1>2, UnchangedKeeps

LEMMA NextKeeps == IInv /\ [Next]_vars => IInv'
<1> SUFFICES ASSUME IInv, [Next]_vars PROVE IInv'
  OBVIOUS
<1>1. CASE UNCHANGED vars
  BY <1>1, Stuttering
<1>2. CASE \E u \in Users : UserCalls(u) \/ UserStep(u)
  BY <1>2, CallsKeep, UserStepsKeep
<1>3. CASE \E w \in Updaters : UpdaterStep(w)
  BY <1>3, MoveKeeps, CollectKeeps, DrawKeeps, DrawRaisesKeeps, ForgetKeeps DEF UpdaterStep
<1> QED
  BY <1>1, <1>2, <1>3 DEF Next

----------------------------------------------------------------------------
(* What is proved of every behaviour.                                       *)

LEMMA Invariance == Spec => []IInv
BY Initially, NextKeeps, PTL DEF Spec

\* Every value keeps its type, and no bar has a ticket before it has begun:
\* _singleRenderOnEnd is only set by end(), which a bar that has not begun refuses.
THEOREM TypeCorrect == Spec => []TypeOK
<1>1. IInv => TypeOK
  BY DEF IInv
<1> QED
  BY <1>1, Invariance, PTL

\* _wakeupProgressUpdaterThread never starts an updater beside one that runs,
\* however the calls of the threads and the end of the updater interleave.
THEOREM OneUpdaterRuns == Spec => []OneUpdater
<1>1. IInv => OneUpdater
  BY DEF IInv, UpdaterInv, OneUpdater, Busy
<1> QED
  BY <1>1, Invariance, PTL

\* The checks at the start of _render never fail in the updater: whatever the
\* application calls, only a bar with a maximum of 0 ends it.
THEOREM OnlyEmptyBarsEndIt == Spec => []OnlyEmptyBarsRaise
<1>1. IInv => OnlyEmptyBarsRaise
  BY DEF IInv
<1> QED
  BY <1>1, Invariance, PTL

\* One thread, and only one, takes an ended bar off the list, whoever ends it:
\* list.remove never raises.
THEOREM RemovedOnlyOnce == Spec => []RemovedOnce
<1>1. ASSUME IInv PROVE RemovedOnce
  <2> SUFFICES ASSUME NEW b \in Bars, NEW u \in Users, Doing(u, "unregister", b)
               PROVE  b \in bars /\ \A v \in Users \ {u} : ~Doing(v, "unregister", b)
    BY DEF RemovedOnce, Unregistering
  <2>1. \A v \in Users : Doing(v, "unregister", b) => Pending(v, "unregister", b)
    BY <1>1, DoingPending DEF IInv, Whats
  <2> QED
    BY <1>1, <2>1 DEF IInv, RemoveInv
<1> QED
  BY <1>1, Invariance, PTL
=============================================================================
