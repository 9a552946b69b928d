---------------------------- MODULE JikanThrottle ----------------------------
(***************************************************************************)
(* The pacing of the requests to Jikan (app/services/jikan/client.py,      *)
(* _throttle), and how its callers come to a client                        *)
(* (app/services/factory.py, get_jikan_client).  A caller is a pipeline    *)
(* that looks up the reviews of one manga after the other; the client's    *)
(* asyncio.Lock serves its callers first come, first served.               *)
(*                                                                         *)
(* lru_cache calls the function without a lock and hands out what that     *)
(* call returned, and FastAPI resolves the dependency in a thread, so that *)
(* two first calls can build two clients: a client is named by the caller  *)
(* that built it.                                                          *)
(*                                                                         *)
(* Time passes in ticks.  Of the time since a client's last request only   *)
(* what is below Interval matters.  An observer opens a window at any      *)
(* moment and counts the requests of each client in it, for at most Window *)
(* ticks.  The request itself, which is sent after the lock is released,   *)
(* is taken to be sent at once.                                            *)
(***************************************************************************)
EXTENDS Naturals, Sequences

CONSTANTS Callers,
          Interval,     \* _REQUEST_INTERVAL_SECONDS, in ticks
          Window,
          NULL

ASSUME TimeAssumption == Interval \in Nat \ {0} /\ Window \in Nat \ {0}
ASSUME NullAssumption == NULL \notin Callers

VARIABLES cached,       \* the client that lru_cache has, or NULL
          client,       \* the client each caller uses
          pc,
          left,         \* how long a caller has left to sleep
          queue,        \* the holder of each client's lock, and who waits for it
          elapsed,      \* the time since each client's last request
          minute,       \* how long the window is open
          count         \* the requests of each client in it

clientVars == <<cached, client>>
clockVars  == <<elapsed, minute, count>>
vars == <<clientVars, pc, left, queue, clockVars>>

TypeOK == /\ cached \in Callers \cup {NULL}
          /\ client \in [Callers -> Callers \cup {NULL}]
          /\ pc \in [Callers -> {"idle", "building", "ready", "queued", "sleeping"}]
          /\ left \in [Callers -> 0 .. Interval]
          /\ queue \in [Callers -> Seq(Callers)]
          /\ elapsed \in [Callers -> 0 .. Interval]
          /\ minute \in 0 .. Window
          /\ count \in [Callers -> Nat]

\* _last_request_at is 0, which is long ago.
Init == /\ cached = NULL
        /\ client = [c \in Callers |-> NULL]
        /\ pc = [c \in Callers |-> "idle"]
        /\ left = [c \in Callers |-> 0]
        /\ queue = [k \in Callers |-> <<>>]
        /\ elapsed = [k \in Callers |-> Interval]
        /\ minute = 0
        /\ count = [k \in Callers |-> 0]

Goto(c, label) == pc' = [pc EXCEPT ![c] = label]

-----------------------------------------------------------------------------
\* get_jikan_client: a hit, or a miss that calls the function.
GetClient(c) == /\ pc[c] = "idle"
                /\ client' = [client EXCEPT ![c] = cached]
                /\ Goto(c, IF cached = NULL THEN "building" ELSE "ready")
                /\ UNCHANGED <<cached, left, queue, clockVars>>

\* The client is built; the first one stays in the cache.
Build(c) == /\ pc[c] = "building"
            /\ client' = [client EXCEPT ![c] = c]
            /\ cached' = IF cached = NULL THEN c ELSE cached
            /\ Goto(c, "ready")
            /\ UNCHANGED <<left, queue, clockVars>>

\* get_manga_reviews asks for the lock.
Call(c) == /\ pc[c] = "ready"
           /\ queue' = [queue EXCEPT ![client[c]] = Append(@, c)]
           /\ Goto(c, "queued")
           /\ UNCHANGED <<clientVars, left, clockVars>>

HasLock(c) == queue[client[c]] # <<>> /\ Head(queue[client[c]]) = c

Released(k) == [queue EXCEPT ![k] = Tail(@)]

\* Mutant of Request: the lock is not released.
RequestHolding(c) == /\ elapsed' = [elapsed EXCEPT ![client[c]] = 0]
                     /\ count' = IF minute < Window
                                 THEN [count EXCEPT ![client[c]] = @ + 1] ELSE count
                     /\ Goto(c, "ready")
                     /\ UNCHANGED <<queue, minute>>

\* _last_request_at is set, the lock is released and the request is sent.
Request(c) == /\ elapsed' = [elapsed EXCEPT ![client[c]] = 0]
              /\ queue' = Released(client[c])
              /\ count' = IF minute < Window
                          THEN [count EXCEPT ![client[c]] = @ + 1] ELSE count
              /\ Goto(c, "ready")
              /\ UNCHANGED minute

\* The last request is long enough ago.
RequestAtOnce(c) == /\ pc[c] = "queued" /\ HasLock(c)
                    /\ elapsed[client[c]] = Interval
                    /\ Request(c)
                    /\ UNCHANGED <<clientVars, left>>

\* Mutant of Sleep: the time since the last request is slept.
SleepElapsed(c) == /\ pc[c] = "queued" /\ HasLock(c)
                   /\ elapsed[client[c]] < Interval
                   /\ left' = [left EXCEPT ![c] = elapsed[client[c]]]
                   /\ Goto(c, "sleeping")
                   /\ UNCHANGED <<clientVars, queue, clockVars>>

\* It is not: what remains is slept, with the lock held.
Sleep(c) == /\ pc[c] = "queued" /\ HasLock(c)
            /\ elapsed[client[c]] < Interval
            /\ left' = [left EXCEPT ![c] = Interval - elapsed[client[c]]]
            /\ Goto(c, "sleeping")
            /\ UNCHANGED <<clientVars, queue, clockVars>>

\* The interval is not checked again: _last_request_at is set to the time it is now.
Wake(c) == /\ pc[c] = "sleeping" /\ left[c] = 0
           /\ Request(c)
           /\ UNCHANGED <<clientVars, left>>

Tick == /\ elapsed' = [k \in Callers |-> IF elapsed[k] < Interval THEN elapsed[k] + 1 ELSE Interval]
        /\ left' = [c \in Callers |-> IF left[c] > 0 THEN left[c] - 1 ELSE 0]
        /\ minute' = IF minute < Window THEN minute + 1 ELSE Window
        /\ UNCHANGED <<clientVars, pc, queue, count>>

\* The observer starts anew.
OpenWindow == /\ minute' = 0
              /\ count' = [k \in Callers |-> 0]
              /\ UNCHANGED <<clientVars, pc, left, queue, elapsed>>

CallerStep(c) == \/ GetClient(c)
                 \/ Build(c)
                 \/ RequestAtOnce(c)
                 \/ Sleep(c)
                 \/ Wake(c)

Next == \/ \E c \in Callers : CallerStep(c) \/ Call(c)
        \/ Tick
        \/ OpenWindow

Spec == Init /\ [][Next]_vars

\* The event loop runs what is ready, and time passes.
FairSpec == Spec /\ WF_vars(Tick) /\ \A c \in Callers : WF_vars(CallerStep(c))

-----------------------------------------------------------------------------
(***************************************************************************)
(* Properties.                                                             *)
(***************************************************************************)
\* "Serialize requests with a minimum gap": n requests of a client take at least
\* n - 1 intervals, in whichever window and however many callers there are.
Paced == \A k \in Callers : count[k] > 0 => (count[k] - 1) * Interval <= minute

\* A sleeper holds the lock of its client and wakes when the interval is over,
\* though it does not check the interval again.
SleepersHoldLock ==
    \A c \in Callers :
        /\ pc[c] \in {"ready", "queued", "sleeping"} => client[c] # NULL
        /\ pc[c] = "sleeping" => HasLock(c) /\ elapsed[client[c]] + left[c] >= Interval

\* The time since the last request is in the window with the requests before it.
CountedInWindow ==
    \A k \in Callers :
        minute < Window /\ count[k] > 0 => (count[k] - 1) * Interval + elapsed[k] <= minute

\* The inductive invariant.
IInv == TypeOK /\ SleepersHoldLock /\ CountedInWindow /\ Paced

\* Each call gets its turn.
EveryCallIsSent == \A c \in Callers : pc[c] \in {"queued", "sleeping"} ~> pc[c] = "ready"

=============================================================================
