------------------------- MODULE JikanThrottle_proofs -------------------------
(***************************************************************************)
(* Proofs about JikanThrottle: the pace of a client's requests, for every  *)
(* number of callers, interval and window.                                 *)
(***************************************************************************)
EXTENDS JikanThrottle, Integers, TLAPS

\* The sum the observer keeps, one request later.
LEMMA OneMore ==
    ASSUME NEW n \in Nat, NEW i \in Nat, NEW m \in Nat,
           n > 0 => (n - 1) * i + i <= m
    PROVE  ((n + 1) - 1) * i <= m
<1>1. CASE n = 0
  BY <1>1
<1>2. CASE n > 0
  <2>1. (n - 1) * i + i = n * i
    BY <1>2
  <2>2. (n + 1) - 1 = n
    OBVIOUS
  <2> QED BY <1>2, <2>1, <2>2
<1> QED BY <1>1, <1>2

LEMMA InitIInv == Init => IInv
BY TimeAssumption DEF Init, IInv, TypeOK, SleepersHoldLock, CountedInWindow, Paced, HasLock

\* A caller that has a client's lock sends its request when the interval is over.
LEMMA RequestKeeps ==
    ASSUME IInv, NEW c \in Callers, pc[c] \in {"queued", "sleeping"}, HasLock(c),
           elapsed[client[c]] = Interval, Request(c),
           UNCHANGED <<clientVars, left>>
    PROVE  IInv'
<1> DEFINE k == client[c]
<1> USE TimeAssumption, NullAssumption
<1>1. k \in Callers
  BY DEF IInv, TypeOK, SleepersHoldLock
<1>2. /\ queue[k] \in Seq(Callers) /\ queue[k] # <<>> /\ Head(queue[k]) = c
      /\ Tail(queue[k]) \in Seq(Callers)
  <2>1. queue[k] \in Seq(Callers) /\ queue[k] # <<>> /\ Head(queue[k]) = c
    BY <1>1 DEF IInv, TypeOK, HasLock
  <2> QED BY <2>1
<1>3. TypeOK'
  <2>1. elapsed' \in [Callers -> 0 .. Interval]
    BY <1>1 DEF Request, IInv, TypeOK
  <2>2. queue' \in [Callers -> Seq(Callers)]
    BY <1>1, <1>2 DEF Request, Released, IInv, TypeOK
  <2>3. count' \in [Callers -> Nat]
    BY <1>1 DEF Request, IInv, TypeOK
  <2>4. pc' \in [Callers -> {"idle", "building", "ready", "queued", "sleeping"}]
    BY DEF Request, Goto, IInv, TypeOK
  <2>5. minute' = minute /\ cached' = cached /\ client' = client /\ left' = left
    BY DEF Request, clientVars
  <2> QED BY <2>1, <2>2, <2>3, <2>4, <2>5 DEF IInv, TypeOK
<1>4. SleepersHoldLock'
  <2> SUFFICES ASSUME NEW d \in Callers
               PROVE  /\ pc'[d] \in {"ready", "queued", "sleeping"} => client'[d] # NULL
                      /\ pc'[d] = "sleeping" => HasLock(d)' /\ elapsed'[client'[d]] + left'[d] >= Interval
    BY DEF SleepersHoldLock
  <2>1. CASE d = c
    BY <1>1, <2>1 DEF Request, Goto, IInv, TypeOK, clientVars
  <2>2. CASE d # c
    <3>1. pc'[d] = pc[d] /\ client'[d] = client[d] /\ left'[d] = left[d]
      BY <2>2 DEF Request, Goto, IInv, TypeOK, clientVars
    <3>2. pc[d] \in {"ready", "queued", "sleeping"} => client[d] # NULL
      BY DEF IInv, SleepersHoldLock
    <3>3. ASSUME pc[d] = "sleeping"
          PROVE  HasLock(d)' /\ elapsed'[client'[d]] + left'[d] >= Interval
      <4>1. HasLock(d) /\ elapsed[client[d]] + left[d] >= Interval /\ client[d] # NULL
        BY <3>3 DEF IInv, SleepersHoldLock
      <4>2. client[d] # k /\ client[d] \in Callers
        BY <1>2, <2>2, <4>1 DEF HasLock, IInv, TypeOK
      <4>3. queue'[client[d]] = queue[client[d]] /\ elapsed'[client[d]] = elapsed[client[d]]
        BY <4>2 DEF Request, Released, IInv, TypeOK
      <4> QED BY <3>1, <4>1, <4>3 DEF HasLock
    <3> QED BY <3>1, <3>2, <3>3
  <2> QED BY <2>1, <2>2
<1>5. minute' = minute /\ minute \in Nat
  BY DEF Request, IInv, TypeOK
<1>6. ASSUME NEW j \in Callers
      PROVE  /\ minute < Window /\ count'[j] > 0 => (count'[j] - 1) * Interval + elapsed'[j] <= minute
             /\ count'[j] > 0 => (count'[j] - 1) * Interval <= minute
  <2>1. /\ minute < Window /\ count[j] > 0 => (count[j] - 1) * Interval + elapsed[j] <= minute
        /\ count[j] > 0 => (count[j] - 1) * Interval <= minute
        /\ count[j] \in Nat /\ elapsed[j] \in Nat
    BY DEF IInv, CountedInWindow, Paced, TypeOK
  <2>2. CASE j # k
    <3>1. count'[j] = count[j] /\ elapsed'[j] = elapsed[j]
      BY <2>2 DEF Request, IInv, TypeOK
    <3> QED BY <2>1, <3>1
  <2>3. CASE j = k /\ minute < Window
    <3>1. count'[j] = count[j] + 1 /\ elapsed'[j] = 0 /\ elapsed[j] = Interval
      BY <1>1, <2>3 DEF Request, IInv, TypeOK
    <3>2. count[j] > 0 => (count[j] - 1) * Interval + Interval <= minute
      BY <2>1, <2>3, <3>1
    <3>3. ((count[j] + 1) - 1) * Interval <= minute
      BY <1>5, <2>1, <3>2, OneMore
    <3>4. (count'[j] - 1) * Interval <= minute
      BY <3>1, <3>3
    <3>5. (count'[j] - 1) * Interval \in Int
      BY <2>1, <3>1
    <3> HIDE DEF k
    <3> QED BY <3>1, <3>4, <3>5
  <2>4. CASE j = k /\ ~(minute < Window)
    <3>1. count'[j] = count[j]
      BY <2>4 DEF Request, IInv, TypeOK
    <3> QED BY <2>1, <2>4, <3>1
  <2> QED BY <2>2, <2>3, <2>4
<1>7. CountedInWindow' /\ Paced'
  BY <1>5, <1>6 DEF CountedInWindow, Paced
<1> QED BY <1>3, <1>4, <1>7 DEF IInv

LEMMA TickKeeps == ASSUME IInv, Tick PROVE IInv'
<1> USE TimeAssumption, NullAssumption
<1>1. TypeOK'
  <2>1. elapsed' \in [Callers -> 0 .. Interval] /\ left' \in [Callers -> 0 .. Interval]
    BY DEF Tick, IInv, TypeOK
  <2>2. minute' \in 0 .. Window
    BY DEF Tick, IInv, TypeOK
  <2> QED BY <2>1, <2>2 DEF Tick, IInv, TypeOK, clientVars
<1>2. SleepersHoldLock'
  <2> SUFFICES ASSUME NEW d \in Callers
               PROVE  /\ pc'[d] \in {"ready", "queued", "sleeping"} => client'[d] # NULL
                      /\ pc'[d] = "sleeping" => HasLock(d)' /\ elapsed'[client'[d]] + left'[d] >= Interval
    BY DEF SleepersHoldLock
  <2>1. pc' = pc /\ client' = client /\ queue' = queue
    BY DEF Tick, clientVars
  <2>2. ASSUME pc[d] = "sleeping"
        PROVE  HasLock(d)' /\ elapsed'[client[d]] + left'[d] >= Interval
    <3>1. HasLock(d) /\ client[d] \in Callers /\ elapsed[client[d]] + left[d] >= Interval
      BY <2>2 DEF IInv, SleepersHoldLock, TypeOK
    <3>2. HasLock(d)'
      BY <2>1, <3>1 DEF HasLock
    <3>3. /\ elapsed'[client[d]] = IF elapsed[client[d]] < Interval THEN elapsed[client[d]] + 1 ELSE Interval
          /\ left'[d] = IF left[d] > 0 THEN left[d] - 1 ELSE 0
          /\ elapsed[client[d]] \in 0 .. Interval /\ left[d] \in 0 .. Interval
      BY <3>1 DEF Tick, IInv, TypeOK
    <3> QED BY <3>1, <3>2, <3>3
  <2> QED BY <2>1, <2>2 DEF IInv, SleepersHoldLock
<1>3. ASSUME NEW j \in Callers
      PROVE  /\ minute' < Window /\ count'[j] > 0 => (count'[j] - 1) * Interval + elapsed'[j] <= minute'
             /\ count'[j] > 0 => (count'[j] - 1) * Interval <= minute'
  <2> DEFINE sum == (count[j] - 1) * Interval
  <2>1. sum \in Int /\ count'[j] = count[j]
    BY DEF Tick, IInv, TypeOK
  <2>2. /\ minute < Window /\ count[j] > 0 => sum + elapsed[j] <= minute
        /\ count[j] > 0 => sum <= minute
    BY DEF IInv, CountedInWindow, Paced
  <2>3. /\ elapsed'[j] = IF elapsed[j] < Interval THEN elapsed[j] + 1 ELSE Interval
        /\ elapsed[j] \in 0 .. Interval
        /\ minute' = IF minute < Window THEN minute + 1 ELSE Window
        /\ minute \in 0 .. Window
    BY DEF Tick, IInv, TypeOK
  <2> HIDE DEF sum
  <2>4. /\ minute' < Window /\ count[j] > 0 => sum + elapsed'[j] <= minute'
        /\ count[j] > 0 => sum <= minute'
    BY <2>1, <2>2, <2>3
  <2> QED BY <2>1, <2>4 DEF sum
<1>4. CountedInWindow' /\ Paced'
  BY <1>3 DEF CountedInWindow, Paced
<1> QED BY <1>1, <1>2, <1>4 DEF IInv

\* The steps that neither send a request nor let time pass.
LEMMA CallerKeeps ==
    ASSUME IInv, NEW c \in Callers, GetClient(c) \/ Build(c) \/ Call(c) \/ Sleep(c)
    PROVE  IInv'
<1> USE TimeAssumption, NullAssumption
<1>1. TypeOK'
  <2>1. CASE GetClient(c)
    BY <2>1 DEF GetClient, Goto, clockVars, IInv, TypeOK
  <2>2. CASE Build(c)
    BY <2>2 DEF Build, Goto, clockVars, IInv, TypeOK
  <2>3. CASE Call(c)
    <3>1. client[c] \in Callers
      BY <2>3 DEF Call, IInv, TypeOK, SleepersHoldLock
    <3>2. Append(queue[client[c]], c) \in Seq(Callers)
      BY <3>1 DEF IInv, TypeOK
    <3> QED BY <2>3, <3>2 DEF Call, Goto, clientVars, clockVars, IInv, TypeOK
  <2>4. CASE Sleep(c)
    <3>1. client[c] \in Callers
      BY <2>4 DEF Sleep, IInv, TypeOK, SleepersHoldLock
    <3>2. Interval - elapsed[client[c]] \in 0 .. Interval
      BY <2>4, <3>1 DEF Sleep, IInv, TypeOK
    <3> QED BY <2>4, <3>2 DEF Sleep, Goto, clientVars, clockVars, IInv, TypeOK
  <2> QED BY <2>1, <2>2, <2>3, <2>4
<1>2. SleepersHoldLock'
  <2> SUFFICES ASSUME NEW d \in Callers
               PROVE  /\ pc'[d] \in {"ready", "queued", "sleeping"} => client'[d] # NULL
                      /\ pc'[d] = "sleeping" => HasLock(d)' /\ elapsed'[client'[d]] + left'[d] >= Interval
    BY DEF SleepersHoldLock
  <2>0. /\ pc[d] \in {"ready", "queued", "sleeping"} => client[d] # NULL
        /\ pc[d] = "sleeping" => HasLock(d) /\ elapsed[client[d]] + left[d] >= Interval
    BY DEF IInv, SleepersHoldLock
  <2>1. CASE GetClient(c)
    BY <2>0, <2>1 DEF GetClient, Goto, clockVars, HasLock, IInv, TypeOK
  <2>2. CASE Build(c)
    BY <2>0, <2>2 DEF Build, Goto, clockVars, HasLock, IInv, TypeOK
  <2>3. CASE Call(c)
    <3>1. /\ pc'[d] \in {"ready", "queued", "sleeping"} => client'[d] # NULL
          /\ pc'[d] = "sleeping" => pc[d] = "sleeping" /\ d # c
          /\ client' = client /\ elapsed' = elapsed /\ left' = left
      BY <2>0, <2>3 DEF Call, Goto, clientVars, clockVars, IInv, TypeOK
    <3>2. ASSUME pc[d] = "sleeping"
          PROVE  HasLock(d)'
      <4>1. client[d] \in Callers /\ queue[client[d]] \in Seq(Callers) /\ HasLock(d)
        BY <2>0, <3>2 DEF IInv, TypeOK
      <4>2. queue'[client[d]] \in {queue[client[d]], Append(queue[client[d]], c)}
        BY <2>3, <4>1 DEF Call, IInv, TypeOK
      <4>3. /\ Append(queue[client[d]], c) # <<>>
            /\ Head(Append(queue[client[d]], c)) = Head(queue[client[d]])
        BY <4>1 DEF HasLock
      <4> QED BY <3>1, <4>1, <4>2, <4>3 DEF HasLock
    <3> QED BY <2>0, <3>1, <3>2
  <2>4. CASE Sleep(c)
    <3>1. /\ client' = client /\ elapsed' = elapsed /\ queue' = queue
          /\ client[c] \in Callers /\ HasLock(c)
      BY <2>4 DEF Sleep, clientVars, clockVars, IInv, TypeOK, SleepersHoldLock
    <3>2. HasLock(d)' <=> HasLock(d)
      BY <3>1 DEF HasLock
    <3>3. CASE d = c
      <4>1. left'[c] = Interval - elapsed[client[c]] /\ elapsed[client[c]] \in 0 .. Interval
        BY <2>4, <3>1 DEF Sleep, IInv, TypeOK
      <4>2. client[c] # NULL
        BY <3>1
      <4> QED BY <3>1, <3>2, <3>3, <4>1, <4>2
    <3>4. CASE d # c
      <4>1. pc'[d] = pc[d] /\ left'[d] = left[d]
        BY <2>4, <3>4 DEF Sleep, Goto, IInv, TypeOK
      <4> QED BY <2>0, <3>1, <3>2, <4>1
    <3> QED BY <3>3, <3>4
  <2> QED BY <2>1, <2>2, <2>3, <2>4
<1>3. UNCHANGED clockVars
  BY DEF GetClient, Build, Call, Sleep, clientVars
<1> QED BY <1>1, <1>2, <1>3 DEF IInv, CountedInWindow, Paced, clockVars

LEMMA NextIInv == IInv /\ [Next]_vars => IInv'
<1> SUFFICES ASSUME IInv, [Next]_vars PROVE IInv'
  OBVIOUS
<1> USE TimeAssumption
<1>1. ASSUME NEW c \in Callers, GetClient(c) \/ Build(c) \/ Call(c) \/ Sleep(c)
      PROVE  IInv'
  BY <1>1, CallerKeeps
<1>2. ASSUME NEW c \in Callers, RequestAtOnce(c)
      PROVE  IInv'
  <2>1. /\ pc[c] \in {"queued", "sleeping"} /\ HasLock(c) /\ elapsed[client[c]] = Interval
        /\ Request(c) /\ UNCHANGED <<clientVars, left>>
    BY <1>2 DEF RequestAtOnce
  <2> QED BY <2>1, RequestKeeps
<1>3. ASSUME NEW c \in Callers, Wake(c)
      PROVE  IInv'
  <2>1. /\ pc[c] \in {"queued", "sleeping"} /\ HasLock(c)
        /\ Request(c) /\ UNCHANGED <<clientVars, left>>
    BY <1>3 DEF Wake, IInv, SleepersHoldLock
  <2>2. elapsed[client[c]] = Interval
    <3>1. client[c] \in Callers /\ left[c] = 0 /\ elapsed[client[c]] + left[c] >= Interval
      BY <1>3 DEF Wake, IInv, SleepersHoldLock, TypeOK
    <3> QED BY <3>1 DEF IInv, TypeOK
  <2> QED BY <2>1, <2>2, RequestKeeps
<1>4. CASE Tick
  BY <1>4, TickKeeps
<1>5. CASE OpenWindow
  <2>1. TypeOK' /\ CountedInWindow' /\ Paced'
    BY <1>5 DEF OpenWindow, clientVars, IInv, TypeOK, CountedInWindow, Paced
  <2>2. SleepersHoldLock'
    BY <1>5 DEF OpenWindow, clientVars, IInv, SleepersHoldLock, HasLock
  <2> QED BY <2>1, <2>2 DEF IInv
<1>6. CASE UNCHANGED vars
  BY <1>6 DEF vars, clientVars, clockVars, IInv, TypeOK, SleepersHoldLock, HasLock, CountedInWindow, Paced
<1> QED BY <1>1, <1>2, <1>3, <1>4, <1>5, <1>6 DEF Next, CallerStep

\* The requests of a client keep the minimum gap of _throttle: in every reachable
\* state the invariant holds, and with it Paced.
THEOREM Invariance == Spec => []IInv
<1>1. IInv /\ [Next]_vars => IInv'
  BY NextIInv
<1> QED BY InitIInv, <1>1, PTL DEF Spec

\* n requests of one client take at least n - 1 intervals, in any window and with
\* any number of callers.
THEOREM Pace == Spec => []Paced
<1>1. IInv => Paced
  BY DEF IInv
<1> QED BY Invariance, <1>1, PTL

=============================================================================
