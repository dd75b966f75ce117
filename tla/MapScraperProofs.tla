-------------------------- MODULE MapScraperProofs --------------------------
(***************************************************************************)
(* What holds of module MapScraper for any connections, workers and tiles, *)
(* any loads and any limits.                                               *)
(***************************************************************************)
EXTENDS MapScraper, FiniteSetTheorems, SequenceTheorems, TLAPS

(* Whoever looks for a tile, fetches or stores one has one; only a request *)
(* for a tile gets there; and the tries never pass the limit unanswered.   *)
RequestInv ==
  /\ \A c \in Conns : kind[c] = "tile" => tile[c] \in Tiles
  /\ \A c \in Conns : pc[c] \in {"exists", "read", "open", "write", "wake"} => kind[c] = "tile"
  /\ \A w \in Workers : pc[w] \in {"exists", "read", "get", "again", "open", "write"}
                         => tile[w] \in Tiles
  /\ \A c \in Conns : retry[c] > RetryLimit => pc[c] = "answer"

(* A thread that has a file open writes a whole tile into it: only what is *)
(* forwarded may be the page of an error, and that is not stored.          *)
WriterInv ==
  /\ \A p \in linked : pc[p] = "write"
  /\ \A p \in Scrapers : pc[p] \in {"open", "write"} => img[p] = "whole"

(* Workers that were not started stay off, and one that is alone pops only *)
(* after it has seen that there is something to pop.                       *)
LoneInv ==
  /\ \A w \in Workers \ load.workers : pc[w] = "off"
  /\ \A w \in Workers :
        Cardinality(load.workers) = 1 => pc[w] # "crashed" /\ (pc[w] = "take" => args # <<>>)

IInv ==
  /\ TypeOK /\ RequestInv
  /\ WorkingIsServed
  /\ WriterInv /\ CacheHoldsTiles
  /\ LoneInv
-----------------------------------------------------------------------------
(* Facts about data. *)

LEMMA ThreadsFinite == IsFiniteSet(Threads)
  BY ThreadsAssumption, FS_AddElement DEF Threads, Scrapers

LEMMA LoadFacts ==
  ASSUME load \in Loads
  PROVE  /\ load.workers \subseteq Workers /\ load.clients \subseteq Conns
         /\ load.kinds \subseteq AllKinds /\ load.requests \in Nat
         /\ load.old \in [Tiles -> {"none", "whole", "torn"}]
  BY LoadsAssumption

LEMMA GotoMoves ==
  ASSUME pc \in [Threads -> Labels], NEW p \in Threads, NEW l \in Labels, Goto(p, l)
  PROVE  /\ pc' \in [Threads -> Labels] /\ pc'[p] = l
         /\ \A q \in Threads \ {p} : pc'[q] = pc[q]
  BY DEF Goto

LEMMA ResetType ==
  ASSUME permits \in [Waiters -> Nat], NEW w \in Waiters, reset(w)
  PROVE  permits' \in [Waiters -> Nat]
<1> DEFINE waiting == {p \in Threads : WaiterOf(p) = w /\ pc[p] \in InWait}
<1>1. Cardinality(waiting) \in Nat
  BY ThreadsFinite, FS_Subset, FS_CardinalityType
<1> QED
  BY <1>1 DEF reset, waitingThreadCount

(* What a worker takes, and what it leaves. *)
LEMMA TakenType ==
  ASSUME args \in Seq(Tiles), args # <<>>
  PROVE  args[Len(args)] \in Tiles /\ SubSeq(Fresh, 1, Len(Fresh) - 1) \in Seq(Tiles)
<1> DEFINE k == Len(args) - FreshArgs + 1
           m == Max({1, k})
<1>1. Len(args) \in Nat /\ k \in Int /\ args[Len(args)] \in Tiles
  BY BoundsAssumption
<1>2. m \in {1, k} /\ m >= 1
  <2>1. \E x \in {1, k} : \A y \in {1, k} : x >= y
    BY <1>1
  <2> QED
    BY <2>1 DEF Max
<1>3. \A i \in m .. Len(args) : args[i] \in Tiles
  BY <1>1, <1>2
<1>4. Fresh \in Seq(Tiles)
  <2>1. Fresh = SubSeq(args, m, Len(args)) /\ m \in Int
    BY <1>1, <1>2 DEF Fresh
  <2> HIDE DEF m
  <2> QED
    BY <2>1, <1>1, <1>3, SubSeqProperties
<1>5. Len(Fresh) \in Nat
  BY <1>4
<1>6. SubSeq(Fresh, 1, Len(Fresh) - 1) \in Seq(Tiles)
  BY <1>4, <1>5, SubSeqProperties
<1> QED
  BY <1>1, <1>6

-----------------------------------------------------------------------------
(* The strengthening is inductive. *)

LEMMA Started == Init => IInv
<1> SUFFICES ASSUME Init PROVE IInv
  OBVIOUS
<1> USE DEF Init, Threads, Scrapers
<1>1. TypeOK
  <2>1. load.requests \in Nat
    BY LoadFacts
  <2>2. pc \in [Threads -> Labels]
    BY DEF Labels, InWait
  <2>3. /\ kind \in [Conns -> AllKinds] /\ tile \in [Scrapers -> Tiles \cup {NoTile}]
        /\ retry \in [Conns -> 0..(RetryLimit + 1)] /\ rest \in [Workers -> Seq(Tiles)]
    BY BoundsAssumption DEF AllKinds
  <2>4. /\ file \in [Tiles -> Contents] /\ permits \in [Waiters -> Nat]
        /\ img \in [Scrapers -> Contents \cup {"page"}]
    BY LoadFacts DEF Contents
  <2>5. working \subseteq Conns /\ leaked \subseteq working /\ key \in BOOLEAN
    OBVIOUS
  <2>6. linked \subseteq Scrapers /\ toDelete \subseteq Tiles /\ args \in Seq(Tiles)
    OBVIOUS
  <2>7. requests \in 0..load.requests /\ load \in Loads
    BY <2>1
  <2> HIDE DEF Init
  <2> QED
    BY <2>2, <2>3, <2>4, <2>5, <2>6, <2>7 DEF TypeOK
<1>2. RequestInv
  BY BoundsAssumption, ThreadsAssumption DEF RequestInv
<1>3. WorkingIsServed
  BY DEF WorkingIsServed, Serving
<1>4. WriterInv /\ CacheHoldsTiles
  BY LoadFacts DEF WriterInv, CacheHoldsTiles
<1>5. LoneInv
  BY ThreadsAssumption DEF LoneInv
<1> QED
  BY <1>1, <1>2, <1>3, <1>4, <1>5 DEF IInv

(* Only clients of the load ask, and only for what it lets them. *)
LEMMA NextCases ==
  ASSUME load \in Loads, Next
  PROVE  \/ \E c \in Conns :
              \/ Handle(c) \/ Disconnect(c)
              \/ \E k \in AllKinds, t \in Tiles \cup {NoTile} :
                   (k = "tile" => t \in Tiles) /\ Receive(c, k, t)
         \/ \E w \in Workers : Work(w)
         \/ Clean
<1>1. ASSUME NEW c \in load.clients, Client(c)
      PROVE  \/ Disconnect(c)
             \/ \E k \in AllKinds, t \in Tiles \cup {NoTile} :
                  (k = "tile" => t \in Tiles) /\ Receive(c, k, t)
  BY <1>1, LoadFacts DEF Client, AllKinds
<1> QED
  BY <1>1, LoadFacts DEF Next

LEMMA RaiseType ==
  ASSUME TypeOK, WorkingIsServed, NEW c \in Conns, pc[c] \in Serving, Raise(c)
  PROVE  pc' \in [Threads -> Labels] /\ leaked' \subseteq working
<1>1. c \in working
  BY DEF WorkingIsServed
<1> QED
  BY <1>1 DEF Raise, Goto, TypeOK, Labels

LEMMA FailsType ==
  ASSUME TypeOK, WorkingIsServed, NEW p \in Scrapers, NEW caught \in BOOLEAN, pc[p] \in Serving,
         Fails(p, caught)
  PROVE  pc' \in [Threads -> Labels] /\ leaked' \subseteq working
  BY RaiseType DEF Fails, Goto, TypeOK, Labels, Scrapers

LEMMA StoreType ==
  ASSUME TypeOK, NEW p \in Scrapers, NEW i \in {"whole", "page"}, storeToCache(p, i)
  PROVE  /\ pc' \in [Threads -> Labels]
         /\ permits' \in [Waiters -> Nat] /\ img' \in [Scrapers -> Contents \cup {"page"}]
<1>1. pc' \in [Threads -> Labels] /\ img' \in [Scrapers -> Contents \cup {"page"}]
  BY DEF storeToCache, Goto, TypeOK, Labels, Contents
<1>2. permits' \in [Waiters -> Nat]
  BY ResetType DEF storeToCache, TypeOK, Waiters
<1> QED
  BY <1>1, <1>2

LEMMA TypeStep == IInv /\ [Next]_vars => TypeOK'
<1> SUFFICES ASSUME TypeOK, RequestInv, WorkingIsServed, WriterInv, [Next]_vars PROVE TypeOK'
  BY DEF IInv
<1>0. RetryLimit \in Nat
  BY BoundsAssumption
<1> USE DEF TypeOK, Goto, From, request, places, cache, around, Labels, InWait, Threads, Scrapers
<1>1. ASSUME NEW c \in Conns,
             EndThrottle(c) \/ Throttle(c) \/ TimeOut(c) \/ TryAgain(c) \/ PushRaises(c)
      PROVE  TypeOK'
  <2>1. pc' \in [Threads -> Labels]
    BY <1>1 DEF EndThrottle, Throttle, TimeOut, TryAgain, PushRaises
  <2> QED
    BY <1>1, <2>1 DEF EndThrottle, Throttle, TimeOut, TryAgain, PushRaises
<1>2. ASSUME NEW p \in Threads, Acquire(p) PROVE TypeOK'
  BY <1>2 DEF Acquire, WaiterOf, Waiters
<1>3. ASSUME NEW c \in Conns, GiveUp(c) PROVE TypeOK'
  <2>1. ~(retry[c] > RetryLimit) /\ retry[c] \in 0..(RetryLimit + 1)
    BY <1>3 DEF GiveUp, RequestInv
  <2>2. retry' \in [Conns -> 0..(RetryLimit + 1)]
    BY <1>0, <1>3, <2>1 DEF GiveUp
  <2> QED
    BY <1>3, <2>2 DEF GiveUp
<1>4. ASSUME NEW c \in Conns, pushWorkingConnection(c) PROVE TypeOK'
  BY <1>4 DEF pushWorkingConnection, FirstLabel
<1>5. ASSUME NEW c \in Conns, popWorkingConnection(c) PROVE TypeOK'
  BY <1>5, ResetType DEF popWorkingConnection, Waiters
<1>6. ASSUME NEW c \in Conns, obtainAPIKey(c) PROVE TypeOK'
  <2>1. pc' \in [Threads -> Labels] /\ leaked' \subseteq working
    <3>1. CASE Goto(c, "pop") /\ UNCHANGED leaked
      BY <3>1
    <3>2. CASE Raise(c)
      BY <1>6, <3>2, RaiseType DEF obtainAPIKey, Serving
    <3> QED
      BY <1>6, <3>1, <3>2 DEF obtainAPIKey
  <2> QED
    BY <1>6, <2>1 DEF obtainAPIKey
<1>7. ASSUME NEW c \in Conns, WakeWorkers(c) PROVE TypeOK'
  BY <1>7, ResetType DEF WakeWorkers, Waiters
<1>8. ASSUME NEW c \in Conns, Answer(c) \/ Disconnect(c) PROVE TypeOK'
  <2>1. pc' \in [Threads -> Labels]
    BY <1>8 DEF Answer, Disconnect, Close
  <2>2. CASE Disconnect(c)
    BY <2>1, <2>2 DEF Disconnect
  <2>3. CASE Answer(c)
    <3>1. kind' \in [Conns -> AllKinds] /\ tile' \in [Scrapers -> Tiles \cup {NoTile}]
      BY <2>3 DEF Answer, AllKinds
    <3>2. retry' \in [Conns -> 0..(RetryLimit + 1)]
      BY <1>0, <2>3 DEF Answer
    <3>3. img' \in [Scrapers -> Contents \cup {"page"}]
      BY <2>3 DEF Answer, Contents
    <3> QED
      BY <2>1, <2>3, <3>1, <3>2, <3>3 DEF Answer
  <2> QED
    BY <1>8, <2>2, <2>3
<1>9. ASSUME NEW c \in Conns, NEW k \in AllKinds, NEW t \in Tiles \cup {NoTile}, Receive(c, k, t)
      PROVE  TypeOK'
  BY <1>9, LoadFacts DEF Receive
<1>10. ASSUME NEW p \in Scrapers, Exists(p) \/ readFile(p) PROVE TypeOK'
  <2>1. CASE Exists(p)
    BY <2>1 DEF Exists
  <2>2. CASE readFile(p)
    <3>1. pc' \in [Threads -> Labels] /\ leaked' \subseteq working
      BY <2>2, FailsType DEF readFile, Done, Serving
    <3>2. tile[p] \in Tiles
      BY <2>2 DEF readFile, RequestInv
    <3>3. img' \in {img, [img EXCEPT ![p] = file[tile[p]]]} /\ file[tile[p]] \in Contents
      BY <2>2, <3>2 DEF readFile
    <3>4. img' \in [Scrapers -> Contents \cup {"page"}]
      BY <3>3
    <3> QED
      BY <2>2, <3>1, <3>4 DEF readFile
  <2> QED
    BY <1>10, <2>1, <2>2
<1>11. ASSUME NEW p \in Scrapers, authorizedGetRequest(p) \/ secondRequest(p) PROVE TypeOK'
  <2>1. pc' \in [Threads -> Labels] /\ leaked' \subseteq working
    BY <1>11, FailsType, StoreType, ZenonT(40) DEF authorizedGetRequest, secondRequest, Serving
  <2>2. permits' \in [Waiters -> Nat] /\ img' \in [Scrapers -> Contents \cup {"page"}]
    BY <1>11, StoreType DEF authorizedGetRequest, secondRequest
  <2> QED
    BY <1>11, <2>1, <2>2 DEF authorizedGetRequest, secondRequest
<1>12. ASSUME NEW p \in Scrapers, OpenFile(p) \/ writeRaises(p) PROVE TypeOK'
  <2>1. CASE OpenFile(p)
    BY <2>1 DEF OpenFile, Contents
  <2>2. CASE writeRaises(p)
    <3>1. pc' \in [Threads -> Labels] /\ leaked' \subseteq working
      BY <2>2, FailsType DEF writeRaises, Serving
    <3>2. file' \in [Tiles -> Contents] /\ img' \in [Scrapers -> Contents \cup {"page"}]
      BY <2>2 DEF writeRaises, Contents
    <3>3. linked' \subseteq Scrapers
      BY <2>2 DEF writeRaises
    <3> QED
      BY <2>2, <3>1, <3>2, <3>3 DEF writeRaises
  <2> QED
    BY <1>12, <2>1, <2>2
<1>13. ASSUME NEW p \in Scrapers, writeFile(p) PROVE TypeOK'
  <2>1. tile[p] \in Tiles /\ img[p] = "whole"
    BY <1>13 DEF writeFile, RequestInv, WriterInv
  <2>2. /\ file' \in [Tiles -> Contents]
        /\ img' \in [Scrapers -> Contents \cup {"page"}]
    BY <1>13, <2>1 DEF writeFile, Contents
  <2>3. pc' \in [Threads -> Labels] /\ linked' \subseteq Scrapers
    BY <1>13 DEF writeFile, Done
  <2>4. args' \in Seq(Tiles)
    BY <1>13, <2>1 DEF writeFile
  <2> QED
    BY <1>13, <2>2, <2>3, <2>4 DEF writeFile
<1>14. ASSUME NEW w \in Workers, CheckArgs(w) PROVE TypeOK'
  BY <1>14 DEF CheckArgs
<1>15. ASSUME NEW w \in Workers, TakeArgs(w) PROVE TypeOK'
  BY <1>15, TakenType, AroundAssumption DEF TakeArgs
<1>16. ASSUME NEW w \in Workers, Seek(w) PROVE TypeOK'
  <2>1. CASE rest[w] = <<>>
    BY <1>16, <2>1 DEF Seek
  <2>2. CASE rest[w] # <<>>
    <3>1. Head(rest[w]) \in Tiles /\ Tail(rest[w]) \in Seq(Tiles)
      BY <2>2
    <3>2. /\ rest' = [rest EXCEPT ![w] = Tail(rest[w])]
          /\ tile' = [tile EXCEPT ![w] = Head(rest[w])]
      BY <1>16, <2>2 DEF Seek
    <3>3. rest' \in [Workers -> Seq(Tiles)] /\ tile' \in [Scrapers -> Tiles \cup {NoTile}]
      BY <3>1, <3>2
    <3>4. \E l \in {"exists", "read"} : pc' = [pc EXCEPT ![w] = l]
      BY <1>16, <2>2 DEF Seek
    <3>5. pc' \in [Threads -> Labels]
      BY <3>4
    <3> QED
      BY <1>16, <2>2, <3>3, <3>5 DEF Seek
  <2> QED
    BY <2>1, <2>2
<1>17. CASE Scan
  BY <1>17 DEF Scan, Cached
<1>18. CASE Remove
  BY <1>18 DEF Remove, Contents
<1>19. CASE UNCHANGED vars
  BY <1>19 DEF vars
<1> QED
  BY <1>1, <1>2, <1>3, <1>4, <1>5, <1>6, <1>7, <1>8, <1>9, <1>10, <1>11, <1>12, <1>13, <1>14,
     <1>15, <1>16, <1>17, <1>18, <1>19, NextCases
     DEF Handle, HandleHere, Work, WorkHere, Clean, scrapeHere, store, Threads, Scrapers

LEMMA RequestStep == IInv /\ [Next]_vars => RequestInv'
<1> SUFFICES ASSUME TypeOK, RequestInv, [Next]_vars PROVE RequestInv'
  BY DEF IInv
<1>0. /\ pc \in [Threads -> Labels] /\ kind \in [Conns -> AllKinds]
      /\ tile \in [Scrapers -> Tiles \cup {NoTile}] /\ rest \in [Workers -> Seq(Tiles)]
      /\ retry \in [Conns -> 0..(RetryLimit + 1)] /\ RetryLimit \in Nat
  BY BoundsAssumption DEF TypeOK
<1> USE <1>0, ThreadsAssumption
        DEF RequestInv, Goto, From, request, places, cache, around, Threads, Scrapers
<1>1. ASSUME NEW c \in Conns,
             \/ EndThrottle(c) \/ Throttle(c) \/ TimeOut(c) \/ TryAgain(c) \/ GiveUp(c)
             \/ PushRaises(c) \/ popWorkingConnection(c) \/ obtainAPIKey(c) \/ WakeWorkers(c)
      PROVE  RequestInv'
  BY <1>1
     DEF EndThrottle, Throttle, TimeOut, TryAgain, GiveUp, PushRaises, popWorkingConnection,
         obtainAPIKey, Raise, WakeWorkers
<1>2. ASSUME NEW p \in Threads, Acquire(p) PROVE RequestInv'
  BY <1>2 DEF Acquire
<1>3. ASSUME NEW c \in Conns, pushWorkingConnection(c) PROVE RequestInv'
  BY <1>3 DEF pushWorkingConnection, FirstLabel
<1>4. ASSUME NEW c \in Conns, Answer(c) \/ Disconnect(c) PROVE RequestInv'
  <2>1. CASE Disconnect(c)
    BY <2>1 DEF Disconnect, Close
  <2>2. CASE Answer(c)
    <3>1. \E l \in {"idle", "over", "broken"} : pc' = [pc EXCEPT ![c] = l]
      BY <2>2 DEF Answer, Close
    <3>2. /\ kind' = [kind EXCEPT ![c] = "page"] /\ tile' = [tile EXCEPT ![c] = NoTile]
          /\ retry' = [retry EXCEPT ![c] = 0]
      BY <2>2 DEF Answer
    <3> QED
      BY <3>1, <3>2
  <2> QED
    BY <1>4, <2>1, <2>2
<1>5. ASSUME NEW c \in Conns, NEW k \in AllKinds, NEW t \in Tiles \cup {NoTile},
             k = "tile" => t \in Tiles, Receive(c, k, t)
      PROVE  RequestInv'
  BY <1>5 DEF Receive
<1>6. ASSUME NEW p \in Scrapers, Exists(p) \/ readFile(p) PROVE RequestInv'
  BY <1>6 DEF Exists, readFile, Fails, Done, Raise
<1>7. ASSUME NEW p \in Scrapers, authorizedGetRequest(p) \/ secondRequest(p) PROVE RequestInv'
  BY <1>7, ZenonT(40) DEF authorizedGetRequest, secondRequest, Fails, Raise, storeToCache
<1>8. ASSUME NEW p \in Scrapers, OpenFile(p) \/ writeFile(p) \/ writeRaises(p) PROVE RequestInv'
  BY <1>8 DEF OpenFile, writeFile, Done, writeRaises, Fails, Raise
<1>9. ASSUME NEW w \in Workers, CheckArgs(w) \/ TakeArgs(w) PROVE RequestInv'
  BY <1>9 DEF CheckArgs, TakeArgs
<1>10. ASSUME NEW w \in Workers, Seek(w) PROVE RequestInv'
  <2>1. UNCHANGED <<kind, retry>> /\ w \notin Conns
    BY <1>10 DEF Seek
  <2>2. CASE rest[w] = <<>>
    <3>1. pc' = [pc EXCEPT ![w] = "blocked"] /\ tile' = [tile EXCEPT ![w] = NoTile]
      BY <1>10, <2>2 DEF Seek
    <3> QED
      BY <2>1, <3>1
  <2>3. CASE rest[w] # <<>>
    <3>1. Head(rest[w]) \in Tiles
      BY <2>3
    <3>2. \E l \in {"exists", "read"} : pc' = [pc EXCEPT ![w] = l]
      BY <1>10, <2>3 DEF Seek
    <3>3. tile' = [tile EXCEPT ![w] = Head(rest[w])]
      BY <1>10, <2>3 DEF Seek
    <3> QED
      BY <2>1, <3>1, <3>2, <3>3
  <2> QED
    BY <2>2, <2>3
<1>11. CASE Scan \/ Remove
  BY <1>11 DEF Scan, Remove
<1>12. CASE UNCHANGED vars
  BY <1>12 DEF vars
<1>13. load \in Loads
  BY DEF TypeOK
<1> QED
  BY <1>1, <1>2, <1>3, <1>4, <1>5, <1>6, <1>7, <1>8, <1>9, <1>10, <1>11, <1>12, <1>13, NextCases
     DEF Handle, HandleHere, Work, WorkHere, Clean, scrapeHere, store, Threads, Scrapers

(* A connection that stays inside or outside of its serving, and one whose *)
(* serving raises.                                                         *)
LEMMA ServedMove ==
  ASSUME pc \in [Threads -> Labels], WorkingIsServed, NEW p \in Threads, NEW l, Goto(p, l),
         p \in Conns => (pc[p] \in Serving <=> l \in Serving), UNCHANGED places
  PROVE  WorkingIsServed'
  BY DEF WorkingIsServed, Goto, places, Threads, Scrapers

LEMMA ServedRaise ==
  ASSUME pc \in [Threads -> Labels], WorkingIsServed, NEW c \in Conns, pc[c] \in Serving, Raise(c),
         UNCHANGED working
  PROVE  WorkingIsServed'
  BY DEF WorkingIsServed, Goto, Raise, Serving, Threads, Scrapers

LEMMA ServedFails ==
  ASSUME pc \in [Threads -> Labels], WorkingIsServed, NEW p \in Scrapers, NEW caught \in BOOLEAN,
         pc[p] \in Serving, Fails(p, caught), UNCHANGED working
  PROVE  WorkingIsServed'
<1>1. CASE p \in Conns
  BY <1>1, ServedRaise DEF Fails
<1>2. CASE p \notin Conns
  BY <1>2, ServedMove DEF Fails, places, Threads
<1> QED
  BY <1>1, <1>2

LEMMA ServedStore ==
  ASSUME pc \in [Threads -> Labels], WorkingIsServed, NEW p \in Scrapers, NEW i,
         pc[p] \in Serving, storeToCache(p, i), UNCHANGED places
  PROVE  WorkingIsServed'
  BY ServedMove DEF storeToCache, Serving, Threads

LEMMA ServedStep == IInv /\ [Next]_vars => WorkingIsServed'
<1> SUFFICES ASSUME TypeOK, WorkingIsServed, [Next]_vars PROVE WorkingIsServed'
  BY DEF IInv
<1>0. pc \in [Threads -> Labels] /\ Conns \subseteq Threads /\ Workers \subseteq Threads
  BY DEF TypeOK, Threads, Scrapers
<1>1. ASSUME NEW c \in Conns,
             EndThrottle(c) \/ Throttle(c) \/ TimeOut(c) \/ TryAgain(c) \/ GiveUp(c)
      PROVE  WorkingIsServed'
  BY <1>0, <1>1, ServedMove
     DEF EndThrottle, Throttle, TimeOut, TryAgain, GiveUp, From, Serving, places
<1>2. ASSUME NEW p \in Threads, Acquire(p) PROVE WorkingIsServed'
  BY <1>0, <1>2, ServedMove DEF Acquire, From, Serving, places
<1>3. ASSUME NEW c \in Conns, pushWorkingConnection(c) PROVE WorkingIsServed'
  BY <1>0, <1>3 DEF pushWorkingConnection, FirstLabel, WorkingIsServed, Serving, From, Goto
<1>4. ASSUME NEW c \in Conns, PushRaises(c) PROVE WorkingIsServed'
  BY <1>0, <1>4 DEF PushRaises, WorkingIsServed, Serving, From, Goto, places
<1>5. ASSUME NEW c \in Conns, popWorkingConnection(c) PROVE WorkingIsServed'
  BY <1>0, <1>5 DEF popWorkingConnection, WorkingIsServed, Serving, From, Goto
<1>6. ASSUME NEW c \in Conns, obtainAPIKey(c) PROVE WorkingIsServed'
  BY <1>0, <1>6, ServedMove, ServedRaise DEF obtainAPIKey, Serving, places
<1>7. ASSUME NEW c \in Conns, WakeWorkers(c) PROVE WorkingIsServed'
  BY <1>0, <1>7, ServedMove DEF WakeWorkers, From, Serving, places
<1>8. ASSUME NEW c \in Conns, Answer(c) \/ Disconnect(c) PROVE WorkingIsServed'
  BY <1>0, <1>8, ServedMove DEF Answer, Disconnect, Close, Serving, places
<1>9. ASSUME NEW c \in Conns, NEW k, NEW t, Receive(c, k, t) PROVE WorkingIsServed'
  BY <1>0, <1>9, ServedMove DEF Receive, From, Serving, places
<1>10. ASSUME NEW p \in Scrapers, Exists(p) PROVE WorkingIsServed'
  BY <1>0, <1>10, ServedMove DEF Exists, From, Serving, places, Threads
<1>11. ASSUME NEW p \in Scrapers, readFile(p) PROVE WorkingIsServed'
  BY <1>0, <1>11, ServedMove, ServedFails, ThreadsAssumption
     DEF readFile, Done, Serving, places, Threads
<1>12. ASSUME NEW p \in Scrapers, authorizedGetRequest(p) \/ secondRequest(p)
       PROVE  WorkingIsServed'
  <2>1. UNCHANGED working /\ pc[p] \in Serving /\ p \in Threads
    BY <1>12 DEF authorizedGetRequest, secondRequest, Serving, Threads
  <2>2. \/ \E caught \in BOOLEAN : Fails(p, caught)
        \/ Goto(p, "again") /\ UNCHANGED leaked
        \/ \E i \in {"whole", "page"} : storeToCache(p, i) /\ UNCHANGED leaked
    BY <1>12 DEF authorizedGetRequest, secondRequest
  <2>3. ASSUME NEW caught \in BOOLEAN, Fails(p, caught) PROVE WorkingIsServed'
    BY <1>0, <2>1, <2>3, ServedFails
  <2>4. CASE Goto(p, "again") /\ UNCHANGED leaked
    BY <1>0, <2>1, <2>4, ServedMove DEF Serving, places
  <2>5. ASSUME NEW i, storeToCache(p, i), UNCHANGED leaked PROVE WorkingIsServed'
    BY <1>0, <2>1, <2>5, ServedStore DEF places
  <2> QED
    BY <2>2, <2>3, <2>4, <2>5
<1>13. ASSUME NEW p \in Scrapers, OpenFile(p) PROVE WorkingIsServed'
  BY <1>0, <1>13, ServedMove DEF OpenFile, From, Serving, places, Threads
<1>14. ASSUME NEW p \in Scrapers, writeFile(p) \/ writeRaises(p) PROVE WorkingIsServed'
  <2>1. CASE writeFile(p)
    BY <1>0, <2>1, ServedMove, ThreadsAssumption
       DEF writeFile, Done, From, Serving, places, Threads
  <2>2. CASE writeRaises(p)
    BY <1>0, <2>2, ServedFails DEF writeRaises, Serving
  <2> QED
    BY <1>14, <2>1, <2>2
<1>15. ASSUME NEW w \in Workers, CheckArgs(w) \/ TakeArgs(w) \/ Seek(w) PROVE WorkingIsServed'
  BY <1>0, <1>15, ServedMove, ThreadsAssumption DEF CheckArgs, TakeArgs, Seek, From, places
<1>16. CASE Scan \/ Remove
  <2>1. "cleaner" \in Threads \ Conns
    BY ThreadsAssumption DEF Threads
  <2>2. UNCHANGED places /\ (UNCHANGED pc \/ \E l \in Labels : Goto("cleaner", l))
    BY <1>16 DEF Scan, Remove, Labels, InWait
  <2> QED
    BY <1>0, <2>1, <2>2, ServedMove DEF WorkingIsServed, places
<1>17. CASE UNCHANGED vars
  BY <1>17 DEF vars, places, WorkingIsServed
<1>18. load \in Loads
  BY DEF TypeOK
<1> QED
  BY <1>1, <1>2, <1>3, <1>4, <1>5, <1>6, <1>7, <1>8, <1>9, <1>10, <1>11, <1>12, <1>13, <1>14,
     <1>15, <1>16, <1>17, <1>18, NextCases
     DEF Handle, HandleHere, Work, WorkHere, Clean, scrapeHere, store, Threads, Scrapers

(* A thread that neither has a file open nor gets one leaves the cache and *)
(* those who write alone.                                                  *)
LEMMA WriterMove ==
  ASSUME pc \in [Threads -> Labels], WriterInv, CacheHoldsTiles, NEW p \in Threads, NEW l,
         Goto(p, l), pc[p] # "write", l \notin {"open", "write"},
         \A q \in Scrapers \ {p} : img'[q] = img[q], UNCHANGED <<file, linked>>,
         \A q \in Scrapers \ {p} : tile'[q] = tile[q], linked \subseteq Scrapers
  PROVE  WriterInv' /\ CacheHoldsTiles'
<1>1. p \notin linked /\ \A q \in Threads \ {p} : pc'[q] = pc[q]
  BY DEF WriterInv, Goto
<1>2. WriterInv'
  BY <1>1 DEF WriterInv, Goto, Threads, Scrapers
<1>3. CacheHoldsTiles'
  BY <1>1 DEF CacheHoldsTiles, Threads, Scrapers
<1> QED
  BY <1>2, <1>3

LEMMA WriterFails ==
  ASSUME pc \in [Threads -> Labels], WriterInv, CacheHoldsTiles, NEW p \in Scrapers,
         NEW caught \in BOOLEAN, Fails(p, caught), pc[p] # "write", UNCHANGED <<img, file, linked, tile>>,
         linked \subseteq Scrapers
  PROVE  WriterInv' /\ CacheHoldsTiles'
<1>1. p \in Threads /\ \E l \in {"pop", "answer", "seek", "dead"} : Goto(p, l)
  BY DEF Fails, Raise, Threads
<1> QED
  BY <1>1, WriterMove

LEMMA WriterStep == IInv /\ [Next]_vars => WriterInv' /\ CacheHoldsTiles'
<1> DEFINE Goal == WriterInv /\ CacheHoldsTiles
<1> SUFFICES ASSUME TypeOK, WriterInv, CacheHoldsTiles, [Next]_vars PROVE Goal'
  BY DEF IInv
<1>0. /\ pc \in [Threads -> Labels] /\ img \in [Scrapers -> Contents \cup {"page"}]
      /\ linked \subseteq Scrapers /\ tile \in [Scrapers -> Tiles \cup {NoTile}]
      /\ file \in [Tiles -> Contents]
  BY DEF TypeOK
<1>1. ASSUME NEW c \in Conns, UNCHANGED <<img, file, linked, tile>>, pc[c] # "write",
             NEW l, Goto(c, l), l \notin {"open", "write"}
      PROVE  Goal'
  BY <1>0, <1>1, WriterMove DEF Threads, Scrapers
<1>2. ASSUME NEW c \in Conns,
             EndThrottle(c) \/ Throttle(c) \/ TimeOut(c) \/ TryAgain(c) \/ GiveUp(c)
      PROVE  Goal'
  BY <1>1, <1>2 DEF EndThrottle, Throttle, TimeOut, TryAgain, GiveUp, From, request, cache
<1>3. ASSUME NEW c \in Conns,
             \/ pushWorkingConnection(c) \/ PushRaises(c) \/ popWorkingConnection(c)
             \/ obtainAPIKey(c) \/ WakeWorkers(c)
      PROVE  Goal'
  BY <1>1, <1>3
     DEF pushWorkingConnection, FirstLabel, PushRaises, popWorkingConnection, obtainAPIKey, Raise,
         WakeWorkers, From, request, cache
<1>4. ASSUME NEW p \in Threads, Acquire(p) PROVE Goal'
  BY <1>0, <1>4, WriterMove DEF Acquire, From, request, cache
<1>5. ASSUME NEW c \in Conns, Answer(c) PROVE Goal'
  <2>1. \E l \in {"idle", "over", "broken"} : Goto(c, l)
    BY <1>5 DEF Answer, Close
  <2> QED
    BY <1>0, <1>5, <2>1, WriterMove DEF Answer, cache, Threads, Scrapers
<1>6. ASSUME NEW c \in Conns, Disconnect(c) PROVE Goal'
  BY <1>1, <1>6 DEF Disconnect, Close, request, cache
<1>7. ASSUME NEW c \in Conns, NEW k, NEW t, Receive(c, k, t) PROVE Goal'
  BY <1>0, <1>7, WriterMove DEF Receive, From, cache, Threads, Scrapers
<1>8. ASSUME NEW p \in Scrapers, Exists(p) PROVE Goal'
  BY <1>0, <1>8, WriterMove DEF Exists, From, request, cache, Threads
<1>9. ASSUME NEW p \in Scrapers, readFile(p) PROVE Goal'
  <2>1. /\ UNCHANGED <<file, linked, tile>> /\ pc[p] # "write" /\ p \in Threads
        /\ \A q \in Scrapers \ {p} : img'[q] = img[q]
    BY <1>0, <1>9 DEF readFile, request, cache, Threads
  <2>2. (Fails(p, FALSE) /\ UNCHANGED img) \/ Goto(p, "seek") \/ Goto(p, "pop")
    BY <1>9 DEF readFile, Done
  <2> QED
    BY <1>0, <2>1, <2>2, WriterMove, WriterFails
<1>10. ASSUME NEW p \in Scrapers, authorizedGetRequest(p) \/ secondRequest(p) PROVE Goal'
  <2>1. UNCHANGED <<file, linked, tile>> /\ pc[p] # "write" /\ p \in Threads
    BY <1>10 DEF authorizedGetRequest, secondRequest, request, cache, Threads
  <2>2. \/ \E caught \in BOOLEAN : Fails(p, caught) /\ UNCHANGED img
        \/ Goto(p, "again") /\ UNCHANGED img
        \/ Goto(p, "pop") /\ UNCHANGED img
        \/ Goto(p, "open") /\ img' = [img EXCEPT ![p] = "whole"]
    BY <1>10 DEF authorizedGetRequest, secondRequest, storeToCache
  <2>3. CASE Goto(p, "open") /\ img' = [img EXCEPT ![p] = "whole"]
    <3>1. p \notin linked
      BY <2>1 DEF WriterInv
    <3>2. \A q \in Threads \ {p} : pc'[q] = pc[q]
      BY <2>3 DEF Goto
    <3>3. WriterInv'
      BY <1>0, <2>1, <2>3, <3>1, <3>2 DEF WriterInv, Threads
    <3>4. CacheHoldsTiles'
      BY <1>0, <2>1, <3>1, <3>2 DEF CacheHoldsTiles, Threads
    <3> QED
      BY <3>3, <3>4
  <2> QED
    BY <1>0, <2>1, <2>2, <2>3, WriterMove, WriterFails
<1>11. ASSUME NEW p \in Scrapers, OpenFile(p) PROVE Goal'
  <2> USE <1>0, <1>11 DEF OpenFile, From, Goto, request, Threads
  <2>1. WriterInv'
    BY DEF WriterInv
  <2>2. CacheHoldsTiles'
    BY DEF CacheHoldsTiles, WriterInv
  <2> QED
    BY <2>1, <2>2
<1>12. ASSUME NEW p \in Scrapers, writeFile(p) PROVE Goal'
  <2>1. /\ linked' = linked \ {p} /\ tile' = tile
        /\ img' \in {img, [img EXCEPT ![p] = "none"]}
        /\ pc[p] = "write" /\ \E l \in {"wake", "seek", "pop"} : pc' = [pc EXCEPT ![p] = l]
    BY <1>12 DEF writeFile, Done, From, Goto, request
  <2>2. img[p] = "whole" /\ file' = IF p \in linked THEN [file EXCEPT ![tile[p]] = "whole"] ELSE file
    BY <1>12, <2>1 DEF writeFile, WriterInv
  <2>3. WriterInv'
    BY <1>0, <2>1 DEF WriterInv, Threads
  <2>4. CacheHoldsTiles'
    BY <1>0, <2>1, <2>2 DEF CacheHoldsTiles, Threads
  <2> QED
    BY <2>3, <2>4
<1>12a. ASSUME NEW p \in Scrapers, writeRaises(p) PROVE Goal'
  <2>1. /\ linked' = linked \ {p} /\ tile' = tile /\ p \in Threads
        /\ \E l \in {"pop", "answer", "dead"} : Goto(p, l)
        /\ \A q \in Scrapers \ {p} : img'[q] = img[q]
    BY <1>0, <1>12a DEF writeRaises, Fails, Raise, request, Threads
  <2>2. WriterInv'
    BY <1>0, <2>1 DEF WriterInv, Goto, Threads
  <2>3. \A t \in Tiles : t # tile[p] \/ p \notin linked => file'[t] = file[t]
    BY <1>0, <1>12a DEF writeRaises
  <2>4. p \in linked /\ tile[p] \in Tiles => file'[tile[p]] \in {"none", "whole", "torn"}
    BY <1>0, <1>12a DEF writeRaises, Contents
  <2>5. CacheHoldsTiles'
    BY <1>0, <2>1, <2>3, <2>4 DEF CacheHoldsTiles, Goto, Threads
  <2> QED
    BY <2>2, <2>5
<1>13. ASSUME NEW w \in Workers, CheckArgs(w) \/ TakeArgs(w) PROVE Goal'
  BY <1>0, <1>13, WriterMove DEF CheckArgs, TakeArgs, From, request, cache, Threads, Scrapers
<1>14. ASSUME NEW w \in Workers, Seek(w) PROVE Goal'
  <2>1. \E l \in {"blocked", "exists", "read"} : Goto(w, l)
    BY <1>14 DEF Seek
  <2>2. \A q \in Scrapers \ {w} : tile'[q] = tile[q]
    BY <1>0, <1>14 DEF Seek
  <2> QED
    BY <1>0, <1>14, <2>1, <2>2, WriterMove DEF Seek, cache, Threads, Scrapers
<1>15. CASE Scan
  <2>1. \E l \in {"blocked", "remove"} : Goto("cleaner", l)
    BY <1>15 DEF Scan
  <2> QED
    BY <1>0, <1>15, <2>1, WriterMove DEF Scan, request, Threads
<1>16. CASE Remove
  <2>1. CASE Goto("cleaner", "blocked") /\ UNCHANGED cache
    BY <1>0, <1>16, <2>1, WriterMove DEF Remove, request, cache, Threads
  <2>2. ASSUME NEW t \in toDelete, file' = [file EXCEPT ![t] = "none"],
               linked' = {p \in linked : tile[p] # t}, UNCHANGED pc
        PROVE  Goal'
    BY <1>0, <1>16, <2>2 DEF Remove, request, WriterInv, CacheHoldsTiles
  <2> QED
    BY <1>16, <2>1, <2>2 DEF Remove
<1>17. CASE UNCHANGED vars
  BY <1>17 DEF vars, request, cache, WriterInv, CacheHoldsTiles
<1>18. load \in Loads
  BY DEF TypeOK
<1> QED
  BY <1>2, <1>3, <1>4, <1>5, <1>6, <1>7, <1>8, <1>9, <1>10, <1>11, <1>12, <1>12a, <1>13, <1>14,
     <1>15, <1>16, <1>17, <1>18, NextCases
     DEF Handle, HandleHere, Work, WorkHere, Clean, scrapeHere, store, Threads, Scrapers

LEMMA LoneStep == IInv /\ [Next]_vars => LoneInv'
<1> SUFFICES ASSUME TypeOK, RequestInv, LoneInv, [Next]_vars PROVE LoneInv'
  BY DEF IInv
<1>0. /\ pc \in [Threads -> Labels] /\ args \in Seq(Tiles) /\ load.workers \subseteq Workers
      /\ Workers \subseteq Threads /\ Conns \cap Workers = {} /\ load \in Loads
      /\ "cleaner" \notin Workers /\ Conns \subseteq Threads
  BY LoadFacts, ThreadsAssumption DEF TypeOK, Threads, Scrapers
(* Only a worker that was started moves, to where only it may. *)
<1>1. ASSUME NEW w \in Workers, pc[w] # "off", NEW l \in Labels \ {"take", "crashed"}, Goto(w, l),
             UNCHANGED <<load, args>>
      PROVE  LoneInv'
  BY <1>0, <1>1 DEF LoneInv, Goto
(* No one else does anything to the workers, or takes from the list. *)
<1>2. ASSUME \A w \in Workers : pc'[w] = pc[w], UNCHANGED load, args # <<>> => args' # <<>>
      PROVE  LoneInv'
  BY <1>2, <1>0 DEF LoneInv
<1>3. ASSUME NEW c \in Conns,
             \/ Handle(c) \/ Disconnect(c)
             \/ \E k \in AllKinds, t \in Tiles \cup {NoTile} : Receive(c, k, t)
      PROVE  LoneInv'
  <2>1. UNCHANGED load /\ \E l : Goto(c, l)
    BY <1>3
       DEF Handle, HandleHere, EndThrottle, Throttle, Acquire, TimeOut, TryAgain, GiveUp, pushWorkingConnection,
           PushRaises, popWorkingConnection, obtainAPIKey, Raise, scrapeHere, store, Exists, readFile, Fails,
           authorizedGetRequest, secondRequest, storeToCache, OpenFile, writeFile, writeRaises, WakeWorkers,
           Answer, Close, Disconnect, Receive, From
  <2>2. \A w \in Workers : pc'[w] = pc[w]
    BY <1>0, <2>1 DEF Goto
  <2>3. args # <<>> => args' # <<>>
    <3>1. CASE writeFile(c)
      <4>1. tile[c] \in Tiles
        BY <3>1 DEF writeFile, From, RequestInv
      <4> QED
        BY <1>0, <3>1, <4>1 DEF writeFile
    <3>2. CASE ~writeFile(c)
      BY <1>3, <3>2
         DEF Handle, HandleHere, EndThrottle, Throttle, Acquire, TimeOut, TryAgain, GiveUp,
             pushWorkingConnection, PushRaises, popWorkingConnection, obtainAPIKey, scrapeHere, store,
             Exists, readFile, authorizedGetRequest, secondRequest, OpenFile, writeRaises, WakeWorkers, Answer,
             Disconnect, Receive, around
    <3> QED
      BY <3>1, <3>2
  <2> QED
    BY <1>2, <2>1, <2>2, <2>3
<1>4. ASSUME NEW w \in Workers, Acquire(w) PROVE LoneInv'
  BY <1>1, <1>4 DEF Acquire, From, around, Labels, InWait
<1>5. ASSUME NEW w \in Workers, CheckArgs(w) PROVE LoneInv'
  BY <1>0, <1>5 DEF CheckArgs, LoneInv, From, Goto, around
<1>6. ASSUME NEW w \in Workers, TakeArgs(w) PROVE LoneInv'
  <2>1. CASE Cardinality(load.workers) = 1
    <3>1. load.workers = {w}
      <4>1. w \in load.workers
        BY <1>0, <1>6 DEF TakeArgs, LoneInv
      <4>2. IsFiniteSet(load.workers)
        BY <1>0, ThreadsFinite, FS_Subset
      <4> QED
        BY <2>1, <4>1, <4>2, FS_Singleton
    <3>2. args # <<>> /\ pc' = [pc EXCEPT ![w] = "seek"] /\ UNCHANGED load
      BY <1>0, <1>6, <2>1 DEF TakeArgs, LoneInv, Goto
    <3>3. \A v \in Workers \ {w} : pc[v] = "off"
      BY <3>1 DEF LoneInv
    <3> QED
      BY <1>0, <3>1, <3>2, <3>3 DEF LoneInv
  <2>2. CASE Cardinality(load.workers) # 1
    BY <1>0, <1>6, <2>2 DEF TakeArgs, LoneInv, Goto
  <2> QED
    BY <2>1, <2>2
<1>7. ASSUME NEW w \in Workers, Seek(w) PROVE LoneInv'
  BY <1>1, <1>7 DEF Seek, around, Labels, InWait
<1>8. ASSUME NEW w \in Workers, scrape(w) PROVE LoneInv'
  <2>1. /\ UNCHANGED <<load, args>> /\ pc[w] # "off"
        /\ \E l \in Labels \ {"take", "crashed"} : Goto(w, l)
    BY <1>0, <1>8
       DEF scrape, scrapeHere, store, Exists, readFile, Fails, Done, authorizedGetRequest,
           secondRequest, storeToCache, OpenFile, writeFile, writeRaises, From, around, Labels
  <2> QED
    BY <1>1, <2>1
<1>9. CASE Clean
  <2>1. UNCHANGED <<load, args>> /\ (UNCHANGED pc \/ \E l : Goto("cleaner", l))
    BY <1>9 DEF Clean, Acquire, Scan, Remove, From, around
  <2> QED
    BY <1>0, <1>2, <2>1 DEF Goto
<1>10. CASE UNCHANGED vars
  BY <1>2, <1>10 DEF vars, around
<1> QED
  BY <1>0, <1>3, <1>4, <1>5, <1>6, <1>7, <1>8, <1>9, <1>10, NextCases DEF Work, WorkHere, scrape

-----------------------------------------------------------------------------
(* The theorems *)

(* The strengthened invariant holds of every behaviour. *)
THEOREM Invariance == Spec => []IInv
<1>1. IInv /\ [Next]_vars => IInv'
  BY TypeStep, RequestStep, ServedStep, WriterStep, LoneStep DEF IInv
<1> QED
  BY <1>1, Started, PTL DEF Spec

(* Every variable of the scraper keeps its type. *)
THEOREM TypeCorrect == Spec => []TypeOK
<1>1. IInv => TypeOK
  BY DEF IInv
<1> QED
  BY <1>1, Invariance, PTL

(* However many connections and whatever raises: a connection counts as    *)
(* working exactly while it is served, or if its last request raised       *)
(* before the pop.                                                         *)
THEOREM PlacesAreServed == Spec => []WorkingIsServed
<1>1. IInv => WorkingIsServed
  BY DEF IInv
<1> QED
  BY <1>1, Invariance, PTL

(* However many threads store a tile while the cleaner removes it, a file  *)
(* that none of them writes is a whole tile.                               *)
THEOREM CacheIsWhole == Spec => []CacheHoldsTiles
<1>1. IInv => CacheHoldsTiles
  BY DEF IInv
<1> QED
  BY <1>1, Invariance, PTL

(* One worker alone never pops from an empty list, whatever connections    *)
(* hand it.                                                                *)
THEOREM LoneWorkerLives == Spec => []LoneWorkerNeverCrashes
<1>1. IInv => LoneWorkerNeverCrashes
  BY DEF IInv, LoneInv, LoneWorkerNeverCrashes
<1> QED
  BY <1>1, Invariance, PTL

=============================================================================
