----------------------------- MODULE MapScraper -----------------------------
(***************************************************************************)
(* webscraper.MapyCZServer: the receiver threads of its connections, which *)
(* wait for a place, scrape and answer; the workers that scrape the tiles  *)
(* around those asked for; and the cleaner of the cache directory they all *)
(* share.  Nothing is locked.                                              *)
(*                                                                         *)
(* A call of a ThreadWaiter is three steps, as far as others can tell: it  *)
(* is counted, it gets a permit or times out, it is counted out.  By       *)
(* ThreadWaiter!CountExact the counter is the number of threads in between, *)
(* and reset() adds as many permits.  Its flag is down only inside reset() *)
(* and is left out.  A response is whole, or the page of an error; what a  *)
(* file holds while it is written is "part", and "torn" if writing it came *)
(* to nothing.  A file that is removed while it is written is written all  *)
(* the same, but is not in the directory any more.  Times of files are     *)
(* rounded to seconds, and the steps of a behaviour may all fall into one: *)
(* the cleaner may take any as the oldest.                                 *)
(***************************************************************************)
EXTENDS Integers, Sequences, FiniteSets, FiniteSetsExt

CONSTANTS
  Conns, Workers,   \* connections, and threads that may be started as workers
  Tiles,            \* what can be scraped
  Around,           \* the tiles around each tile, in the order of the loops
  Loads,            \* what applications and their clients do: __maxConnections,
                    \* the workers started, who asks for what, who of them again and
                    \* again, and how often the others do, and the cache they find
  RetryLimit,       \* timeouts a request survives: 20
  FreshArgs,        \* requests the workers keep: 10
  MaxCacheSize, ToLeave,  \* __maxCacheSize and nine tenths of it
  MaxPermits        \* bound: who asks again and again does not while there are more

AllKinds == {"tile", "tiles.json", "api_key.txt", "api_key.json", "route", "page"}
(* Their handlers pop the connection even if the scraping raises. *)
Guarded == {"tile", "tiles.json", "api_key.json"}

ASSUME ThreadsAssumption ==
  /\ IsFiniteSet(Conns \cup Workers)
  /\ Conns \cap Workers = {} /\ "cleaner" \notin Conns \cup Workers
ASSUME AroundAssumption == Around \in [Tiles -> Seq(Tiles)]
ASSUME LoadsAssumption ==
  Loads \subseteq [maxConnections : Nat, workers : SUBSET Workers, clients : SUBSET Conns,
            kinds : SUBSET AllKinds, steady : SUBSET Conns, requests : Nat,
            old : [Tiles -> {"none", "whole", "torn"}]]
ASSUME BoundsAssumption ==
  /\ {RetryLimit, FreshArgs, MaxCacheSize, ToLeave, MaxPermits} \subseteq Nat
  /\ ToLeave <= MaxCacheSize

VARIABLES
  load,       \* the load of this behaviour
  pc,         \* where each thread is
  kind,       \* the request of each connection
  tile,       \* the tile each thread is at
  retry,      \* retryCount of each connection
  rest,       \* the tiles each worker has yet to look at
  working,    \* __workingConnections
  leaked,     \* history: connections whose request raised between push and pop
  key,        \* an API key is cached
  permits,    \* of the semaphore of each waiter
  file,       \* the cache directory
  linked,     \* threads that write a file which is still in the directory
  img,        \* the tile, or the response, that each thread holds
  args,       \* __scrapeAroundArgs
  toDelete,   \* filesToDelete of the cleaner
  requests

request == <<kind, tile, retry>>
places == <<working, leaked>>
cache == <<file, linked, toDelete>>
around == <<args, rest>>
vars == <<load, pc, request, places, key, permits, img, cache, around, requests>>

NoTile == "none"

Scrapers == Conns \cup Workers
Threads == Scrapers \cup {"cleaner"}
Waiters == {"close", "around", "cleaner"}
WaiterOf(p) == IF p \in Conns THEN "close" ELSE IF p \in Workers THEN "around" ELSE "cleaner"

(* The cache is what a process left that may have been killed. *)
Init ==
  /\ load \in Loads
  /\ pc = [p \in Threads |-> IF p \in Conns THEN "idle"
                             ELSE IF p \in Workers \ load.workers THEN "off" ELSE "blocked"]
  /\ kind = [c \in Conns |-> "page"]
  /\ tile = [p \in Scrapers |-> NoTile]
  /\ retry = [c \in Conns |-> 0]
  /\ rest = [w \in Workers |-> <<>>]
  /\ working = {} /\ leaked = {}
  /\ key = FALSE
  /\ permits = [w \in Waiters |-> 0]
  /\ file = load.old /\ linked = {} /\ toDelete = {}
  /\ img = [p \in Scrapers |-> "none"]
  /\ args = <<>>
  /\ requests = 0

scrapeAroundAutomatically == load.workers # {}

Goto(p, label) == pc' = [pc EXCEPT ![p] = label]
From(p, label, to) == pc[p] = label /\ Goto(p, to)

-----------------------------------------------------------------------------
(* The waiters *)

InWait == {"blocked", "released", "timedOut"}
waitingThreadCount(w) == Cardinality({p \in Threads : WaiterOf(p) = w /\ pc[p] \in InWait})
reset(w) == permits' = [permits EXCEPT ![w] = @ + waitingThreadCount(w)]

Acquire(p) ==
  /\ permits[WaiterOf(p)] > 0
  /\ From(p, "blocked", "released")
  /\ permits' = [permits EXCEPT ![WaiterOf(p)] = @ - 1]
  /\ UNCHANGED <<load, request, places, key, img, cache, around, requests>>

(* Workers and the cleaner wait without a limit. *)
TimeOut(c) ==
  /\ permits["close"] = 0
  /\ From(c, "blocked", "timedOut")
  /\ UNCHANGED <<load, request, places, key, permits, img, cache, around, requests>>

-----------------------------------------------------------------------------
(* A request: WebScraperServer.onData and onDataInner *)

Receive(c, k, t) ==
  /\ From(c, "idle", "throttle")
  /\ IF c \in load.steady
       THEN (\A w \in Waiters : permits[w] <= MaxPermits) /\ UNCHANGED requests
       ELSE requests < load.requests /\ requests' = requests + 1
  /\ kind' = [kind EXCEPT ![c] = k]
  /\ tile' = [tile EXCEPT ![c] = t]
  /\ UNCHANGED <<load, retry, places, key, permits, img, cache, around>>

(* What needs no scraping is answered from here: pages, bad parameters. *)
EndThrottle(c) ==
  /\ Cardinality(working) <= load.maxConnections
  /\ From(c, "throttle", IF kind[c] = "page" THEN "answer" ELSE "push")
  /\ UNCHANGED <<load, request, places, key, permits, img, cache, around, requests>>

Throttle(c) ==
  /\ Cardinality(working) > load.maxConnections
  /\ From(c, "throttle", "blocked")
  /\ UNCHANGED <<load, request, places, key, permits, img, cache, around, requests>>

(* A wait that was released does not count as a try. *)
TryAgain(c) ==
  /\ From(c, "released", "throttle")
  /\ UNCHANGED <<load, request, places, key, permits, img, cache, around, requests>>

(* As if only the waits that are released counted as tries. *)
GiveUpNever(c) ==
  /\ From(c, "timedOut", "throttle")
  /\ UNCHANGED <<load, request, places, key, permits, img, cache, around, requests>>

(* Too many timeouts are answered with 429, without another look. *)
GiveUp(c) ==
  /\ From(c, "timedOut", IF retry[c] + 1 > RetryLimit THEN "answer" ELSE "throttle")
  /\ retry' = [retry EXCEPT ![c] = @ + 1]
  /\ UNCHANGED <<load, kind, tile, places, key, permits, img, cache, around, requests>>

FirstLabel(k) ==
  CASE k = "tile" -> "exists"
    [] k \in {"tiles.json", "route"} -> "get"
    [] OTHER -> "obtain"

pushWorkingConnection(c) ==
  /\ c \notin working
  /\ working' = working \cup {c}
  /\ From(c, "push", FirstLabel(kind[c]))
  /\ UNCHANGED <<load, request, leaked, key, permits, img, cache, around, requests>>

(* A connection that is there already raises; if the push is in the try,   *)
(* its finally pops what an earlier request left.  The push of             *)
(* /api_key.json is not.                                                   *)
PushRaises(c) ==
  /\ c \in working
  /\ From(c, "push", IF kind[c] \in {"tile", "tiles.json"} THEN "pop" ELSE "answer")
  /\ UNCHANGED <<load, request, places, key, permits, img, cache, around, requests>>

popWorkingConnection(c) ==
  /\ From(c, "pop", "answer")
  /\ working' = working \ {c}
  /\ leaked' = leaked \ {c}
  /\ reset("close")
  /\ UNCHANGED <<load, request, key, img, cache, around, requests>>

(* As if the pop were not in a finally. *)
RaiseUnpopped(c) ==
  /\ Goto(c, "answer")
  /\ UNCHANGED leaked

(* An exception of the scraping: 500, from onDataInner or from onData. *)
Raise(c) ==
  /\ Goto(c, IF kind[c] \in Guarded THEN "pop" ELSE "answer")
  /\ leaked' = IF kind[c] \in Guarded THEN leaked ELSE leaked \cup {c}

(* onConnectionClose raises if the connection still counts as working: the *)
(* receiver's thread ends of it, and the listeners after it do not run.    *)
Close(c) == Goto(c, IF c \in working THEN "broken" ELSE "over")

(* With the answer, a tile or not, the variables of the request are gone. *)
Answer(c) ==
  /\ pc[c] = "answer"
  /\ Goto(c, "idle") \/ Close(c)
  /\ kind' = [kind EXCEPT ![c] = "page"]
  /\ tile' = [tile EXCEPT ![c] = NoTile]
  /\ retry' = [retry EXCEPT ![c] = 0]
  /\ img' = [img EXCEPT ![c] = "none"]
  /\ UNCHANGED <<load, places, key, permits, cache, around, requests>>

Disconnect(c) ==
  /\ pc[c] = "idle"
  /\ Close(c)
  /\ UNCHANGED <<load, request, places, key, permits, img, cache, around, requests>>

(* /api_key.txt and /api_key.json: a cached key, or a request for one, and *)
(* of those /api_key.json catches what it raises.                          *)
obtainAPIKey(c) ==
  /\ pc[c] = "obtain"
  /\ \/ Goto(c, "pop") /\ key' = TRUE /\ UNCHANGED leaked
     \/ ~key /\ Raise(c) /\ UNCHANGED key
  /\ UNCHANGED <<load, request, working, permits, img, cache, around, requests>>

-----------------------------------------------------------------------------
(* __scrape, for a connection or for a worker *)

Done(p) == IF p \in Workers THEN "seek" ELSE "pop"

(* A worker survives a failed assertion and an error of TLS, no other. *)
Fails(p, caught) ==
  IF p \in Conns THEN Raise(p)
  ELSE Goto(p, IF caught THEN "seek" ELSE "dead") /\ UNCHANGED leaked

Exists(p) ==
  /\ From(p, "exists", IF file[tile[p]] = "none" THEN "get" ELSE "read")
  /\ UNCHANGED <<load, request, places, key, permits, img, cache, around, requests>>

(* What is there is returned, whatever it is.  The file may have been      *)
(* removed since it was looked for, or be one that cannot be read.         *)
readFile(p) ==
  /\ pc[p] = "read"
  /\ \/ Fails(p, FALSE) /\ UNCHANGED img
     \/ /\ file[tile[p]] # "none"
        /\ Goto(p, Done(p))
        /\ img' = IF p \in Conns THEN [img EXCEPT ![p] = file[tile[p]]] ELSE img
        /\ UNCHANGED leaked
  /\ UNCHANGED <<load, request, working, key, permits, cache, around, requests>>

(* A response i for thread p.  To store a tile __storeToCache first calls  *)
(* the cleaner: the file is not there yet.                                 *)
storeToCache(p, i) ==
  IF p \in Conns /\ kind[p] # "tile"
    THEN Goto(p, "pop") /\ UNCHANGED <<img, permits>>
    ELSE /\ Goto(p, "open")
         /\ img' = [img EXCEPT ![p] = i]
         /\ reset("cleaner")

(* The key, if none is cached, and the request with it.  Anything but 200  *)
(* is tried once more with a new key.                                      *)
authorizedGetRequest(p) ==
  /\ pc[p] = "get"
  /\ \/ /\ \E caught \in BOOLEAN : Fails(p, caught)
        /\ key' \in {key, TRUE}
        /\ UNCHANGED <<img, permits>>
     \/ key' = TRUE /\ storeToCache(p, "whole") /\ UNCHANGED leaked
     \/ key' = TRUE /\ Goto(p, "again") /\ UNCHANGED <<img, leaked, permits>>
  /\ UNCHANGED <<load, request, working, cache, around, requests>>

(* As if force200 were not given. *)
secondRequestUnforced(p) ==
  /\ pc[p] = "again"
  /\ \/ \E caught \in BOOLEAN : Fails(p, caught) /\ UNCHANGED <<img, permits>>
     \/ \E i \in {"whole", "page"} : storeToCache(p, i) /\ UNCHANGED leaked
  /\ UNCHANGED <<load, request, working, key, cache, around, requests>>

(* Only a request that is forwarded may get anything but 200 now. *)
secondRequest(p) ==
  /\ pc[p] = "again"
  /\ \/ \E caught \in BOOLEAN : Fails(p, caught) /\ UNCHANGED <<img, permits>>
     \/ storeToCache(p, "whole") /\ UNCHANGED leaked
     \/ p \in Conns /\ kind[p] = "route" /\ storeToCache(p, "page") /\ UNCHANGED leaked
  /\ UNCHANGED <<load, request, working, key, cache, around, requests>>

OpenFile(p) ==
  /\ From(p, "open", "write")
  /\ file' = [file EXCEPT ![tile[p]] = "part"]
  /\ linked' = linked \cup {p}
  /\ UNCHANGED <<load, request, places, key, permits, img, toDelete, around, requests>>

(* A tile that a connection has stored is handed to the workers. *)
writeFile(p) ==
  LET handsOn == p \in Conns /\ scrapeAroundAutomatically IN
  /\ From(p, "write", IF handsOn THEN "wake" ELSE Done(p))
  /\ file' = IF p \in linked THEN [file EXCEPT ![tile[p]] = img[p]] ELSE file
  /\ linked' = linked \ {p}
  /\ img' = IF p \in Conns THEN img ELSE [img EXCEPT ![p] = "none"]
  /\ args' = IF handsOn THEN Append(args, tile[p]) ELSE args
  /\ UNCHANGED <<load, request, rest, places, key, permits, toDelete, requests>>

(* The file cannot be opened, or the disk is full: no worker survives it,  *)
(* and what is written of the file stays.                                  *)
writeRaises(p) ==
  /\ pc[p] \in {"open", "write"}
  /\ Fails(p, FALSE)
  /\ file' = IF p \in linked /\ file[tile[p]] = "part"
               THEN [file EXCEPT ![tile[p]] = "torn"] ELSE file
  /\ linked' = linked \ {p}
  /\ img' = [img EXCEPT ![p] = "none"]
  /\ UNCHANGED <<load, request, working, key, permits, toDelete, around, requests>>

WakeWorkers(c) ==
  /\ From(c, "wake", "pop")
  /\ reset("around")
  /\ UNCHANGED <<load, request, places, key, img, cache, around, requests>>

(* What a thread does while it does not wait for the API. *)
store(p) == OpenFile(p) \/ writeFile(p) \/ writeRaises(p)
scrapeHere(p) == Exists(p) \/ readFile(p) \/ store(p)
scrape(p) == scrapeHere(p) \/ authorizedGetRequest(p) \/ secondRequest(p)

-----------------------------------------------------------------------------
(* __scrapeAroundWorker and __scrapeAround *)

(* As if a worker that is woken took it that there is something to do. *)
CheckArgsForgotten(w) ==
  /\ From(w, "released", "take")
  /\ UNCHANGED <<load, request, places, key, permits, img, cache, around, requests>>

CheckArgs(w) ==
  /\ From(w, "released", IF args = <<>> THEN "blocked" ELSE "take")
  /\ UNCHANGED <<load, request, places, key, permits, img, cache, around, requests>>

Fresh == SubSeq(args, Max({1, Len(args) - FreshArgs + 1}), Len(args))

(* The list may have been emptied by another worker since the check. *)
TakeArgs(w) ==
  /\ pc[w] = "take"
  /\ IF args = <<>>
       THEN Goto(w, "crashed") /\ UNCHANGED around
       ELSE /\ Goto(w, "seek")
            /\ args' = SubSeq(Fresh, 1, Len(Fresh) - 1)
            /\ rest' = [rest EXCEPT ![w] = Around[args[Len(args)]]]
  /\ UNCHANGED <<load, request, places, key, permits, img, cache, requests>>

(* A tile that is in the cache is read, for nothing. *)
Seek(w) ==
  /\ pc[w] = "seek"
  /\ IF rest[w] = <<>>
       THEN Goto(w, "blocked") /\ tile' = [tile EXCEPT ![w] = NoTile] /\ UNCHANGED rest
       ELSE /\ tile' = [tile EXCEPT ![w] = Head(rest[w])]
            /\ rest' = [rest EXCEPT ![w] = Tail(@)]
            /\ Goto(w, IF file[Head(rest[w])] = "none" THEN "exists" ELSE "read")
  /\ UNCHANGED <<load, kind, retry, places, key, permits, img, cache, args, requests>>

-----------------------------------------------------------------------------
(* __cleanExcessCacheItems *)

Cached == {t \in Tiles : file[t] # "none"}

Scan ==
  /\ pc["cleaner"] = "released"
  /\ IF Cardinality(Cached) < MaxCacheSize
       THEN Goto("cleaner", "blocked") /\ UNCHANGED toDelete
       ELSE /\ Goto("cleaner", "remove")
            /\ \E newest \in kSubset(ToLeave, Cached) : toDelete' = Cached \ newest
  /\ UNCHANGED <<load, request, places, key, permits, img, file, linked, around,
                 requests>>

Remove ==
  /\ pc["cleaner"] = "remove"
  /\ \/ \E t \in toDelete :
          /\ toDelete' = toDelete \ {t}
          /\ file' = [file EXCEPT ![t] = "none"]
          /\ linked' = {p \in linked : tile[p] # t}
          /\ UNCHANGED pc
     \/ toDelete = {} /\ Goto("cleaner", "blocked") /\ UNCHANGED cache
  /\ UNCHANGED <<load, request, places, key, permits, img, around, requests>>

-----------------------------------------------------------------------------
HandleHere(c) ==
  \/ EndThrottle(c) \/ Throttle(c) \/ Acquire(c) \/ TimeOut(c) \/ TryAgain(c) \/ GiveUp(c)
  \/ pushWorkingConnection(c) \/ PushRaises(c) \/ popWorkingConnection(c)
  \/ scrapeHere(c) \/ WakeWorkers(c) \/ Answer(c)

Handle(c) ==
  HandleHere(c) \/ obtainAPIKey(c) \/ authorizedGetRequest(c) \/ secondRequest(c)

WorkHere(w) == Acquire(w) \/ CheckArgs(w) \/ TakeArgs(w) \/ Seek(w) \/ scrapeHere(w)

Work(w) == WorkHere(w) \/ authorizedGetRequest(w) \/ secondRequest(w)

Clean == Acquire("cleaner") \/ Scan \/ Remove

Client(c) ==
  \/ \E k \in load.kinds \ {"tile"} : Receive(c, k, NoTile)
  \/ \E t \in Tiles : "tile" \in load.kinds /\ Receive(c, "tile", t)
  \/ Disconnect(c)

Next ==
  \/ \E c \in Conns : Handle(c)
  \/ \E c \in load.clients : Client(c)
  \/ \E w \in Workers : Work(w)
  \/ Clean

Spec == Init /\ [][Next]_vars

(* Every thread is run again and again, and half a second passes.  No      *)
(* client has to do anything, and neither has the API: session.get has no  *)
(* timeout, so a thread that asks it may hang for good.                    *)
FairSpec ==
  /\ Spec
  /\ \A c \in Conns : WF_vars(HandleHere(c))
  /\ \A w \in Workers : WF_vars(WorkHere(w))
  /\ WF_vars(Clean)

-----------------------------------------------------------------------------
(* Properties *)

Labels ==
  {"idle", "throttle", "push", "obtain", "exists", "read", "get", "again", "open", "write",
   "wake", "pop", "answer", "over", "broken", "off", "take", "seek", "dead", "crashed",
   "remove"} \cup InWait

Contents == {"none", "part", "whole", "torn"}

(* Every variable has its type. *)
TypeOK ==
  /\ load \in Loads
  /\ pc \in [Threads -> Labels]
  /\ kind \in [Conns -> AllKinds] /\ tile \in [Scrapers -> Tiles \cup {NoTile}]
  /\ retry \in [Conns -> 0..(RetryLimit + 1)] /\ rest \in [Workers -> Seq(Tiles)]
  /\ working \subseteq Conns /\ leaked \subseteq working
  /\ key \in BOOLEAN /\ permits \in [Waiters -> Nat]
  /\ file \in [Tiles -> Contents]
  /\ linked \subseteq Scrapers /\ toDelete \subseteq Tiles
  /\ img \in [Scrapers -> Contents \cup {"page"}]
  /\ args \in Seq(Tiles) /\ requests \in 0..load.requests

Serving == {"obtain", "exists", "read", "get", "again", "open", "write", "wake", "pop"}

(* __workingConnections counts a connection exactly while its thread       *)
(* serves it, whatever raises and whoever else works; what the limit is    *)
(* compared with is off only by connections whose /api_key.txt or          *)
(* forwarded request raised before its pop, and the next tile asked for on *)
(* such a connection takes it out again.                                   *)
WorkingIsServed == working = {c \in Conns : pc[c] \in Serving} \cup leaked

AsksAPI(c) == pc[c] \in {"obtain", "get", "again"}

(* Every request is answered, even when connections that are long gone     *)
(* still count as working, or hang at the API: whoever waits for a place   *)
(* gets it or runs out of tries, and what follows comes to an end.  Two    *)
(* things may keep a request: the API, which it asks without a timeout,    *)
(* and other clients, who take the place again each time that it is woken. *)
EveryRequestEnds ==
  \A c \in Conns :
    LET Ended == pc[c] \in {"idle", "over", "broken"} IN
    <>[](pc[c] # "released") => (~Ended ~> Ended \/ AsksAPI(c))

(* Two threads may scrape one tile, and the cleaner may remove the file    *)
(* under both of them: a file that no one writes is still a whole tile,    *)
(* never the page of an error, and never a part of one unless the writing  *)
(* raised, or was cut short in a process that was killed.                  *)
CacheHoldsTiles ==
  \A t \in Tiles :
    \/ file[t] \in {"none", "whole", "torn"}
    \/ \E p \in linked : tile[p] = t /\ pc[p] = "write"

(* The collision that the comment in __scrapeAroundWorker fears takes two  *)
(* workers: one alone never pops from an empty list, though it may be      *)
(* woken for nothing.                                                      *)
LoneWorkerNeverCrashes ==
  Cardinality(load.workers) = 1 => \A w \in Workers : pc[w] # "crashed"

(* MapyCZServer.onConnectionClose, "Connection closed before marked        *)
(* non-working": no connection is.                                         *)
NoneClosedWorking == \A c \in Conns : pc[c] # "broken"

(* "10s timeout in total": no request waits for a place for good.  It may, *)
(* as a wait that was released does not count (not kept; see the README).  *)
ThrottlingEnds ==
  \A c \in Conns : pc[c] = "throttle" ~> pc[c] \notin {"throttle"} \cup InWait

(* What is answered for a tile is the whole tile.  It is what the file     *)
(* held while another thread wrote it, or was left with (not kept).        *)
WholeTilesServed ==
  \A c \in Conns : pc[c] = "answer" => img[c] \in {"none", "whole"}
=============================================================================
