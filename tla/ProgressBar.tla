---------------------------- MODULE ProgressBar ----------------------------
(***************************************************************************)
(* progress.ProgressBar: bars that any thread may create, begin, update,   *)
(* end and delete, and the updater, a thread that draws them, ends when    *)
(* nothing is left to draw, and is started again by the next call.         *)
(*                                                                         *)
(* Of a bar's data only this is kept: whether it stays on the console when *)
(* it has ended, and whether its maximum is 0, which no drawing survives   *)
(* (a division).  A critical section that takes no further lock is one     *)
(* step; globalUpdateLock, held while the bars are chosen and drawn, is    *)
(* not.  The waiter of the updater only shortens a sleep and has no state  *)
(* here.                                                                   *)
(*                                                                         *)
(* A bar nothing refers to any more is finalised at once, by the thread    *)
(* that drops the last reference and with the locks this thread holds:     *)
(* __del__ deletes a bar that has ended and is not deleted yet.  The class *)
(* refers to a bar by its lists, the updater by its local variables.       *)
(***************************************************************************)
EXTENDS Naturals, Sequences

CONSTANTS
  Bars,      \* the bars that may be created
  Kept,      \* those made with deleteBarOnEnded=False
  Empties,   \* the sets of bars whose maximum may be 0
  Users,     \* the threads of the application
  Updaters,  \* the threads the class may start, one after the other
  MaxCalls,  \* bound: calls of all users
  None

ASSUME ProgressAssumption ==
  /\ Kept \subseteq Bars
  /\ Empties \subseteq SUBSET Bars
  /\ Updaters # {}
  /\ MaxCalls \in Nat
  /\ None \notin Bars \cup Updaters

VARIABLES
  empty,      \* the bars whose maximum is 0
  state,      \* _state of each bar, "NEW" before it is created
  ticket,     \* _singleRenderOnEnd of each bar
  bars,       \* _progressBars
  lastBars,   \* _lastProgressBars
  thread,     \* _updaterThread
  at,         \* where each updater is in _progressUpdaterThread
  ended,      \* endedBars not drawn yet
  working,    \* workingBars not drawn yet
  culprit,    \* the bar whose drawing raised
  lists,      \* endedBars and workingBars, drawn or not
  last,       \* the loop variable bar
  dropped,    \* the bars the application has no reference to any more
  todo,       \* the steps that are left of each user's call
  ncalls      \* how many calls have been made

barVars == <<empty, state, ticket>>
locals == <<ended, working, culprit, lists, last>>
updaterVars == <<at, locals>>
vars == <<barVars, bars, lastBars, thread, updaterVars, dropped, todo, ncalls>>

Init ==
  /\ empty \in Empties
  /\ state = [b \in Bars |-> "NEW"]
  /\ ticket = [b \in Bars |-> FALSE]
  /\ bars = {}
  /\ lastBars = {}
  /\ thread = None
  /\ at = [w \in Updaters |-> "out"]
  /\ ended = [w \in Updaters |-> {}]
  /\ working = [w \in Updaters |-> {}]
  /\ culprit = None
  /\ lists = [w \in Updaters |-> {}]
  /\ last = [w \in Updaters |-> None]
  /\ dropped = {}
  /\ todo = [u \in Users |-> <<>>]
  /\ ncalls = 0

----------------------------------------------------------------------------
(* The application's calls.                                                 *)

\* Who chooses bars and draws them holds globalUpdateLock; one that waits for
\* the lock itself, or for it with progressBarsLock too, holds it for ever.
GlobalLockFree == \A w \in Updaters : at[w] \notin {"choose", "draw", "hung", "hungInList"}
ListLockFree == \A w \in Updaters : at[w] # "hungInList"

\* What the class and the updater refer to.
Referenced == bars \cup lastBars \cup UNION {lists[w] \cup {last[w]} : w \in Updaters}

Step(what, b) == [what |-> what, bar |-> b]
StepsOf(b, steps) == [i \in DOMAIN steps |-> Step(steps[i], b)]

\* The user calls a method on b, whose steps are these.
Calls(u, b, steps) ==
  /\ todo[u] = <<>>
  /\ b \notin dropped
  /\ ncalls < MaxCalls
  /\ ncalls' = ncalls + 1
  /\ todo' = [todo EXCEPT ![u] = StepsOf(b, steps)]
  /\ UNCHANGED <<empty, ticket, bars, lastBars, thread, updaterVars, dropped>>

New(u, b) ==
  /\ state[b] = "NEW"
  /\ state' = [state EXCEPT ![b] = "INITIALIZED"]
  /\ Calls(u, b, <<"register", "wakeUp">>)

\* The constructor has returned, so that the application has the bar.
Constructed(b) ==
  /\ state[b] # "NEW"
  /\ state[b] = "INITIALIZED" =>
       \A u \in Users : todo[u] # <<>> =>
         Head(todo[u]) \notin {Step("register", b), Step("wakeUp", b)}

\* A method that raises at once, in the wrong state, has no step.
Begin(u, b) ==
  /\ Constructed(b) /\ state[b] = "INITIALIZED"
  /\ Calls(u, b, <<"BEGAN", "wakeUp">>)
  /\ UNCHANGED state

Update(u, b) ==
  /\ Constructed(b)
  /\ Calls(u, b, <<"update", "wakeUp">>)
  /\ UNCHANGED state

End(u, b) ==
  /\ state[b] = "BEGAN"
  /\ \/ Calls(u, b, <<"giveTicket", "wakeUp", "ENDED">>)
     \/ Calls(u, b, <<"giveTicket", "wakeUp", "ENDED", "delete", "DELETED">>)
  /\ UNCHANGED state

Delete(u, b) ==
  /\ Constructed(b)
  /\ Calls(u, b, <<"delete", "DELETED">>)
  /\ UNCHANGED state

\* The application's last reference goes.  If it was the last of all, __del__
\* runs here.  It never has to end a bar: one that has not ended is listed, and
\* to drop it, or a deleted one, is only to call it no more.
Drop(u, b) ==
  /\ state[b] = "ENDED" /\ b \notin dropped
  /\ todo[u] = <<>>
  /\ \A v \in Users : todo[v] # <<>> => Head(todo[v]).bar # b
  /\ dropped' = dropped \cup {b}
  /\ todo' = IF b \in Referenced
               THEN todo
               ELSE [todo EXCEPT ![u] = StepsOf(b, <<"delete", "DELETED">>)]
  /\ UNCHANGED <<barVars, bars, lastBars, thread, updaterVars, ncalls>>

----------------------------------------------------------------------------
(* Their steps.                                                             *)

Doing(u, what, b) == todo[u] # <<>> /\ Head(todo[u]) = Step(what, b)
Done(u) == todo' = [todo EXCEPT ![u] = Tail(@)]
Raise(u) == todo' = [todo EXCEPT ![u] = <<>>]

Register(u, b) ==
  /\ Doing(u, "register", b)
  /\ ListLockFree
  /\ bars' = bars \cup {b}
  /\ Done(u)
  /\ UNCHANGED <<barVars, lastBars, thread, updaterVars, dropped, ncalls>>

\* As if every call started an updater.
WakeUpAlways(u, b) ==
  /\ Doing(u, "wakeUp", b)
  /\ IF \E w \in Updaters : at[w] = "out"
       THEN LET w == CHOOSE w \in Updaters : at[w] = "out"
            IN thread' = w /\ at' = [at EXCEPT ![w] = "check"]
       ELSE UNCHANGED <<thread, at>>
  /\ Done(u)
  /\ UNCHANGED <<barVars, bars, lastBars, locals, dropped, ncalls>>

\* _wakeupProgressUpdaterThread
WakeUp(u, b) ==
  /\ Doing(u, "wakeUp", b)
  /\ IF thread = None
       THEN LET w == CHOOSE w \in Updaters : at[w] = "out"
            IN thread' = w /\ at' = [at EXCEPT ![w] = "check"]
       ELSE UNCHANGED <<thread, at>>
  /\ Done(u)
  /\ UNCHANGED <<barVars, bars, lastBars, locals, dropped, ncalls>>

\* As if a second end() was not refused.
LegalAgain(from, to) ==
  <<from, to>> \in {<<"INITIALIZED", "BEGAN">>, <<"BEGAN", "ENDED">>, <<"ENDED", "ENDED">>,
                    <<"BEGAN", "DELETED">>, <<"ENDED", "DELETED">>}

Legal(from, to) ==
  <<from, to>> \in {<<"INITIALIZED", "BEGAN">>, <<"BEGAN", "ENDED">>,
                    <<"BEGAN", "DELETED">>, <<"ENDED", "DELETED">>}

\* As if the state was only protected by the bar's own lock.
SetStateUnlocked(u, b) ==
  \E new \in {"BEGAN", "ENDED", "DELETED"} :
    /\ Doing(u, new, b)
    /\ IF Legal(state[b], new)
         THEN /\ state' = [state EXCEPT ![b] = new]
              /\ IF new = "ENDED"
                   THEN todo' = [todo EXCEPT ![u][1] = Step("unregister", b)]
                   ELSE Done(u)
         ELSE Raise(u) /\ UNCHANGED state
    /\ UNCHANGED <<empty, ticket, bars, lastBars, thread, updaterVars, dropped, ncalls>>

\* _setState: a bar that has ended is unregistered as the next step.
SetState(u, b) ==
  \E new \in {"BEGAN", "ENDED", "DELETED"} :
    /\ Doing(u, new, b)
    /\ GlobalLockFree
    /\ IF Legal(state[b], new)
         THEN /\ state' = [state EXCEPT ![b] = new]
              /\ IF new = "ENDED"
                   THEN todo' = [todo EXCEPT ![u][1] = Step("unregister", b)]
                   ELSE Done(u)
         ELSE Raise(u) /\ UNCHANGED state
    /\ UNCHANGED <<empty, ticket, bars, lastBars, thread, updaterVars, dropped, ncalls>>

Unregister(u, b) ==
  /\ Doing(u, "unregister", b)
  /\ ListLockFree
  /\ bars' = bars \ {b}
  /\ IF b \in bars THEN Done(u) ELSE Raise(u)
  /\ UNCHANGED <<barVars, lastBars, thread, updaterVars, dropped, ncalls>>

\* The progress itself is left out.
UpdateProgress(u, b) ==
  /\ Doing(u, "update", b)
  /\ GlobalLockFree
  /\ IF state[b] = "BEGAN" THEN Done(u) ELSE Raise(u)
  /\ UNCHANGED <<barVars, bars, lastBars, thread, updaterVars, dropped, ncalls>>

GiveTicket(u, b) ==
  /\ Doing(u, "giveTicket", b)
  /\ ticket' = [ticket EXCEPT ![b] = TRUE]
  /\ Done(u)
  /\ UNCHANGED <<empty, state, bars, lastBars, thread, updaterVars, dropped, ncalls>>

\* Returns if the bar is deleted, raises if it has not ended; either way the
\* rest is not done.
CheckDelete(u, b) ==
  /\ Doing(u, "delete", b)
  /\ IF state[b] = "ENDED" THEN Done(u) ELSE Raise(u)
  /\ UNCHANGED <<barVars, bars, lastBars, thread, updaterVars, dropped, ncalls>>

UserCalls(u) ==
  \E b \in Bars : New(u, b) \/ Begin(u, b) \/ Update(u, b) \/ End(u, b) \/ Delete(u, b)
                 \/ Drop(u, b)

UserStep(u) ==
  \E b \in Bars :
     /\ todo[u] # <<>> /\ Head(todo[u]).bar = b
     /\ \/ Register(u, b) \/ WakeUp(u, b) \/ SetState(u, b) \/ Unregister(u, b)
        \/ UpdateProgress(u, b) \/ GiveTicket(u, b) \/ CheckDelete(u, b)

----------------------------------------------------------------------------
(* _progressUpdaterThread                                                   *)

Move(w, from, to) == at[w] = from /\ at' = [at EXCEPT ![w] = to]

CheckBars(w) ==
  /\ Move(w, "check", IF bars \cup lastBars = {} THEN "forget" ELSE "collect")
  /\ UNCHANGED <<barVars, bars, lastBars, thread, locals, dropped, todo, ncalls>>

Shown(b) == state[b] = "BEGAN" \/ ticket[b]

\* The bars that lose their last reference in this step.
Lost == (dropped \cap Referenced) \ Referenced'

\* One of them is to be deleted, for which globalUpdateLock has to be taken.
Hangs == \E b \in Lost : state[b] = "ENDED"

\* Without the lock, they are deleted.
Finalise ==
  state' = [b \in Bars |-> IF b \in Lost /\ state[b] = "ENDED" THEN "DELETED" ELSE state[b]]

\* The lock is taken and the lists of the last pass are forgotten.
BeginPass(w) ==
  /\ at[w] = "collect" /\ GlobalLockFree
  /\ lists' = [lists EXCEPT ![w] = {}]
  /\ UNCHANGED <<barVars, bars, lastBars, thread, ended, working, culprit, last, dropped,
                 todo, ncalls>>
  /\ at' = [at EXCEPT ![w] = IF Hangs THEN "hung" ELSE "choose"]

\* The bars the loop over the chain may end with.
LookedAtLast(w) ==
  IF lastBars \ bars # {} THEN lastBars \ bars ELSE IF bars # {} THEN bars ELSE {last[w]}

\* An ended bar that is not kept takes its lines, but is not drawn.
CollectFrom(w, seen) ==
  LET shown == {b \in seen : Shown(b)}
  IN /\ at[w] = "choose"
     /\ ended' = [ended EXCEPT ![w] = {b \in shown : ticket[b] /\ b \in Kept}]
     /\ working' = [working EXCEPT ![w] = {b \in shown : ~ticket[b]}]
     /\ lists' = [lists EXCEPT ![w] = {b \in shown : ticket[b] => b \in Kept}]
     /\ \E b \in LookedAtLast(w) : last' = [last EXCEPT ![w] = b]
     /\ lastBars' = bars
     /\ UNCHANGED <<barVars, bars, thread, culprit, dropped, todo, ncalls>>
     /\ at' = [at EXCEPT ![w] = IF Hangs THEN "hungInList"
                                ELSE IF shown = {} THEN "forget" ELSE "draw"]

\* As if only the bars seen last time were looked at.
CollectOld(w) == CollectFrom(w, lastBars)

Collect(w) == CollectFrom(w, bars \cup lastBars)

\* The checks at the start of _render.
MayDraw(b) ==
  \/ state[b] = "BEGAN"
  \/ state[b] # "INITIALIZED" /\ b \in Kept /\ ticket[b]

\* The bars that are drawn next: those that have ended come first.
NextToDraw(w) == IF ended[w] # {} THEN ended[w] ELSE working[w]

\* An ended bar's ticket is taken before the division.
TakeTicket(b) ==
  ticket' = [ticket EXCEPT ![b] = @ /\ state[b] = "BEGAN"]

\* Each turn of the loops of drawing lets go of the bar of the turn before.
LastIsLost(w) ==
  /\ last[w] \in dropped \ (bars \cup lastBars \cup lists[w])
  /\ state[last[w]] = "ENDED"

DrawHangs(w) ==
  /\ NextToDraw(w) # {}
  /\ LastIsLost(w)
  /\ Move(w, "draw", "hung")
  /\ last' = [last EXCEPT ![w] = None]
  /\ UNCHANGED <<barVars, bars, lastBars, thread, ended, working, culprit, lists, dropped,
                 todo, ncalls>>

Draw(w) ==
  \E b \in NextToDraw(w) :
    /\ at[w] = "draw"
    /\ ~LastIsLost(w)
    /\ MayDraw(b)
    /\ b \notin empty
    /\ TakeTicket(b)
    /\ ended' = [ended EXCEPT ![w] = @ \ {b}]
    /\ working' = [working EXCEPT ![w] = IF ended[w] = {} THEN @ \ {b} ELSE @]
    /\ last' = [last EXCEPT ![w] = b]
    /\ UNCHANGED <<empty, state, bars, lastBars, thread, at, culprit, lists, dropped, todo,
                   ncalls>>

\* The updater's variables go with it.
Forget(w) ==
  /\ lists' = [lists EXCEPT ![w] = {}]
  /\ last' = [last EXCEPT ![w] = None]

\* The lock is released and the thread ends; it is not forgotten.
DrawRaises(w) ==
  \E b \in NextToDraw(w) :
    /\ Move(w, "draw", "dead")
    /\ ~LastIsLost(w)
    /\ \/ ~MayDraw(b) /\ UNCHANGED ticket
       \/ MayDraw(b) /\ b \in empty /\ TakeTicket(b)
    /\ culprit' = b
    /\ Forget(w)
    /\ UNCHANGED <<empty, bars, lastBars, thread, ended, working, dropped, todo, ncalls>>
    /\ Finalise

\* As if the updater slept without releasing globalUpdateLock.
DrawOn(w) ==
  /\ NextToDraw(w) = {}
  /\ at[w] = "draw"
  /\ \E b \in bars : Shown(b)
  /\ working' = [working EXCEPT ![w] = {b \in bars : Shown(b) /\ ~ticket[b]}]
  /\ UNCHANGED <<barVars, bars, lastBars, thread, at, ended, culprit, lists, last, dropped,
                 todo, ncalls>>

\* The lock is released; the updater sleeps before it collects again.
EndDrawing(w) ==
  /\ NextToDraw(w) = {}
  /\ Move(w, "draw", "collect")
  /\ UNCHANGED <<barVars, bars, lastBars, thread, locals, dropped, todo, ncalls>>

ForgetThread(w) ==
  /\ Move(w, "forget", "out")
  /\ thread' = None
  /\ Forget(w)
  /\ UNCHANGED <<empty, ticket, bars, lastBars, ended, working, culprit, dropped, todo, ncalls>>
  /\ Finalise

UpdaterStep(w) ==
  \/ CheckBars(w) \/ BeginPass(w) \/ Collect(w) \/ Draw(w) \/ DrawHangs(w) \/ DrawRaises(w) \/ EndDrawing(w)
  \/ ForgetThread(w)

Next ==
  \/ \E u \in Users : UserCalls(u) \/ UserStep(u)
  \/ \E w \in Updaters : UpdaterStep(w)

\* The updater sleeps a tenth of a second between two passes, with no lock: a
\* thread that waits for one gets it.
Fairness ==
  /\ \A u \in Users : SF_vars(UserStep(u))
  /\ \A w \in Updaters : WF_vars(UpdaterStep(w))

Spec == Init /\ [][Next]_vars /\ Fairness

----------------------------------------------------------------------------
(* Properties                                                               *)

Busy(w) == at[w] \notin {"out", "dead"}

\* Every value keeps its type, and only a bar that has begun has a ticket: end()
\* refuses the others before it sets _singleRenderOnEnd.
TypeOK ==
  /\ state \in [Bars -> {"NEW", "INITIALIZED", "BEGAN", "ENDED", "DELETED"}]
  /\ ticket \in [Bars -> BOOLEAN]
  /\ \A b \in Bars : ticket[b] => state[b] \notin {"NEW", "INITIALIZED"}
  /\ bars \subseteq Bars /\ lastBars \subseteq Bars
  /\ thread \in Updaters \cup {None}
  /\ at \in [Updaters -> {"out", "check", "collect", "choose", "draw", "forget", "dead",
                          "hung", "hungInList"}]
  /\ ended \in [Updaters -> SUBSET Kept] /\ working \in [Updaters -> SUBSET Bars]
  /\ culprit \in Bars \cup {None}
  /\ lists \in [Updaters -> SUBSET Bars] /\ last \in [Updaters -> Bars \cup {None}]
  /\ dropped \subseteq Bars
  /\ ncalls \in 0 .. MaxCalls

Unregistering(u, b) == Doing(u, "unregister", b)

\* One thread, and only one, takes an ended bar off the list, whoever ends it:
\* list.remove (line 93) never raises.
RemovedOnce ==
  \A b \in Bars, u \in Users :
    Unregistering(u, b) =>
      b \in bars /\ \A v \in Users \ {u} : ~Unregistering(v, b)

\* Two updaters never run at once, and the one that runs is _updaterThread.
OneUpdater == \A w \in Updaters : Busy(w) => thread = w

\* The checks of _render (lines 309 to 317) never fail in the updater: what it
\* chose before it began to draw still may be drawn.  Only a bar with a maximum
\* of 0 ends the updater.
OnlyEmptyBarsRaise == culprit \in empty \cup {None}

\* The updater deletes b under the lock that it needs to delete b: the
\* application ended it with deleteManually=True and dropped it undeleted.
HangsFor(b) ==
  /\ \E w \in Updaters : at[w] \in {"hung", "hungInList"}
  /\ b \in dropped \ Referenced /\ state[b] = "ENDED"

\* Every call of the application returns, also while the updater draws, unless
\* it has dropped a bar that it ended and did not delete.
CallsReturn ==
  \A u \in Users : todo[u] # <<>> ~> (todo[u] = <<>> \/ \E b \in Bars : HangsFor(b))

\* Every call of the application returns.  Not kept: see HangsFor.
CallsAlwaysReturn == \A u \in Users : todo[u] # <<>> ~> todo[u] = <<>>

\* While an updater runs and has not decided to end, it draws every bar that is
\* being shown, unless a bar with a maximum of 0 ends it, or it hangs.
ShownBarsAreDrawn ==
  \A b \in Bars :
    (state[b] = "BEGAN" /\ \E w \in Updaters : at[w] \in {"check", "collect", "choose"})
      ~> (\/ ticket[b]
          \/ \E w \in Updaters : b \in working[w] \/ at[w] = "dead"
          \/ \E c \in Bars : HangsFor(c))

\* "Schedule a render": end() of a bar that is kept makes the updater draw it
\* one last time.  Not kept: the updater may just have decided to end.
EndIsRendered ==
  \A b \in Kept : (ticket[b] /\ empty = {}) ~> ~ticket[b]
=============================================================================
