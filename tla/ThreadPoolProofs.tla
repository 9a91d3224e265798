-------------------------- MODULE ThreadPoolProofs --------------------------
(***************************************************************************)
(* Theorems about ThreadPool, for any set of threads and any limits.       *)
(***************************************************************************)
EXTENDS ThreadPool, FiniteSetTheorems, WellFoundedInduction, TLAPS

-----------------------------------------------------------------------------
(* The inductive invariant *)

\* ready_threads counts the threads that wait.
Ready == IsFiniteSet(At("wait")) /\ ready_threads = Cardinality(At("wait"))

\* A thread writes its first command, and only then, when it enters the driver for the
\* first time.
Looping ==
    \A th \in Thread :
        /\ pc[th] = "none" => looper[th] = {} /\ th \notin threads
        /\ pc[th] \in {"idle", "wait", "serve"} => ~Joins(th)
        /\ "INVALID" \notin looper[th]

\* A request that is open is with one thread at most; and it is with one, unless it was
\* dropped.
OneRequest ==
    /\ requested_threads <= 1
    /\ spawn \cup OnTheWay # {} => requested_threads = 1
    /\ \A a, b \in Thread : a \in spawn /\ b \in spawn => a = b
    /\ \A a, b \in Thread : a \in OnTheWay /\ b \in OnTheWay => a = b
    /\ spawn = {} \/ OnTheWay = {}
    /\ mDriverFD /\ ~dropped /\ requested_threads = 1 => spawn \cup OnTheWay # {}

\* The last part of RequestMatched: a pool in which every thread is in a handler grows.
Grows ==
    (/\ mDriverFD /\ ~dropped
     /\ At("serve") # {}
     /\ At("idle") \cup At("enter") \cup At("wait") = {})
        => \/ requested_threads_started >= Min(Limits)
           \/ spawn \cup At("spawned") # {}

PoolInv == TypeOK /\ Ready /\ Looping /\ OneRequest /\ Grows

-----------------------------------------------------------------------------
(* Counting *)

\* The least of the limits is below each of them.
LEMMA LeastLimit == \A n \in Limits : Min(Limits) \in Nat /\ Min(Limits) <= n
<1>1. Limits \subseteq Nat /\ Limits # {}
  BY PoolAssumption
<1>2. \E x \in Limits : \A y \in Limits : ~(<<y, x>> \in OpToRel(<, Nat))
  BY <1>1, NatLessThanWellFounded, WFMin
<1>3. PICK x \in Limits : \A y \in Limits : x =< y
  <2>1. PICK x \in Limits : \A y \in Limits : ~(<<y, x>> \in OpToRel(<, Nat))
    BY <1>2
  <2>2. \A y \in Limits : ~(y < x)
    BY <1>1, <2>1 DEF OpToRel
  <2> QED BY <1>1, <2>2
<1>4. Min(Limits) \in Limits /\ \A y \in Limits : Min(Limits) =< y
  BY <1>3 DEF Min
<1> QED BY <1>1, <1>4

\* A thread starts to wait, and ends its wait.
LEMMA WaitStarts ==
    ASSUME Ready, NEW th \in Thread, pc \in [Thread -> Places], pc[th] # "wait",
           pc' = [pc EXCEPT ![th] = "wait"], ready_threads' = ready_threads + 1
    PROVE  Ready' /\ ready_threads' \in Nat
<1>1. At("wait")' = At("wait") \cup {th} /\ th \notin At("wait")
  BY DEF At
<1>2. /\ IsFiniteSet(At("wait") \cup {th})
      /\ Cardinality(At("wait") \cup {th}) = Cardinality(At("wait")) + 1
      /\ Cardinality(At("wait")) \in Nat
  BY <1>1, FS_AddElement, FS_CardinalityType DEF Ready
<1> QED BY <1>1, <1>2 DEF Ready

LEMMA WaitEnds ==
    ASSUME Ready, NEW th \in Thread, pc \in [Thread -> Places], pc[th] = "wait",
           NEW place, place # "wait",
           pc' = [pc EXCEPT ![th] = place], ready_threads' = ready_threads - 1
    PROVE  Ready' /\ ready_threads' \in Nat
<1>1. At("wait")' = At("wait") \ {th} /\ th \in At("wait")
  BY DEF At
<1>2. /\ IsFiniteSet(At("wait") \ {th})
      /\ Cardinality(At("wait") \ {th}) = Cardinality(At("wait")) - 1
      /\ Cardinality(At("wait") \ {th}) \in Nat
  BY <1>1, FS_RemoveElement, FS_CardinalityType DEF Ready
<1> QED BY <1>1, <1>2 DEF Ready

\* Other steps of a thread.
LEMMA WaitSame ==
    ASSUME Ready, ready_threads' = ready_threads,
           \A u \in Thread : pc'[u] = "wait" <=> pc[u] = "wait"
    PROVE  Ready'
<1>1. At("wait")' = At("wait")
  BY DEF At
<1> QED BY <1>1 DEF Ready

-----------------------------------------------------------------------------
(* Every operation keeps the invariant *)

\* Steps that move no thread.
LEMMA NoMove ==
    ASSUME PoolInv, TypeOK',
           UNCHANGED <<requested_threads, requested_threads_started, ready_threads, threads, pc, isMain, spawn, dropped>>,
           mDriverFD' => mDriverFD,
           \A th \in Thread : looper'[th] \ {"NEED_RETURN"} = looper[th] \ {"NEED_RETURN"},
           \A th \in Thread : pc[th] = "none" => looper'[th] = {}
    PROVE  PoolInv'
<1>1. \A th \in Thread : Joins(th)' <=> Joins(th)
  BY DEF Joins
<1>2. OnTheWay' = OnTheWay
  BY <1>1 DEF OnTheWay
<1>3. \A place : At(place)' = At(place)
  BY DEF At
<1>4. Ready'
  BY WaitSame DEF PoolInv
<1>5. Looping'
  BY <1>1 DEF PoolInv, Looping
<1>6. OneRequest'
  BY <1>2 DEF PoolInv, OneRequest
<1>7. Grows'
  BY <1>3 DEF PoolInv, Grows
<1> QED BY <1>4, <1>5, <1>6, <1>7 DEF PoolInv

LEMMA DriverKeeps ==
    ASSUME PoolInv, \/ StopProcess \/ Queue \/ DeferredFlush
                    \/ \E n \in Limits : SetMaxThreads(n)
    PROVE  PoolInv'
<1>1. CASE StopProcess \/ \E n \in Limits : SetMaxThreads(n)
  <2>1. /\ UNCHANGED <<requested_threads, requested_threads_started, ready_threads, looper, threads, work,
                       mThreadPoolStarted, pc, isMain, spawn, dropped>>
        /\ max_threads' \in Limits /\ flush' \in BOOLEAN /\ mDriverFD' \in BOOLEAN /\ (mDriverFD' => mDriverFD)
    BY <1>1 DEF StopProcess, SetMaxThreads, userVars, PoolInv, TypeOK
  <2>2. TypeOK'
    BY <2>1 DEF PoolInv, TypeOK
  <2>3. \A th \in Thread : pc[th] = "none" => looper'[th] = {}
    BY <2>1 DEF PoolInv, Looping
  <2> QED BY <2>1, <2>2, <2>3, NoMove
<1>2. CASE Queue
  <2>1. /\ UNCHANGED <<requested_threads, requested_threads_started, ready_threads, max_threads, looper, threads,
                       flush, mDriverFD, mThreadPoolStarted, pc, isMain, spawn, dropped>>
        /\ work' \in 0 .. MaxWork
    BY <1>2, PoolAssumption DEF Queue, userVars, PoolInv, TypeOK
  <2>2. TypeOK'
    BY <2>1 DEF PoolInv, TypeOK
  <2>3. \A th \in Thread : pc[th] = "none" => looper'[th] = {}
    BY <2>1 DEF PoolInv, Looping
  <2> QED BY <2>1, <2>2, <2>3, NoMove
<1>3. CASE DeferredFlush
  <2>1. /\ UNCHANGED <<requested_threads, requested_threads_started, ready_threads, max_threads, threads, work,
                       mDriverFD, mThreadPoolStarted, pc, isMain, spawn, dropped>>
        /\ flush' = FALSE
        /\ looper' = [th \in Thread |-> IF th \in threads THEN looper[th] \cup {"NEED_RETURN"}
                                        ELSE looper[th]]
    BY <1>3 DEF DeferredFlush, userVars
  <2>2. looper' \in [Thread -> SUBSET Flags]
    BY <2>1 DEF PoolInv, TypeOK, Flags
  <2>3. TypeOK'
    BY <2>1, <2>2 DEF PoolInv, TypeOK
  <2>4. \A th \in Thread : looper'[th] \ {"NEED_RETURN"} = looper[th] \ {"NEED_RETURN"}
    BY <2>1
  <2>5. \A th \in Thread : pc[th] = "none" => looper'[th] = {}
    BY <2>1 DEF PoolInv, Looping
  <2> QED BY <2>1, <2>3, <2>4, <2>5, NoMove
<1> QED BY <1>1, <1>2, <1>3
\* A thread is created.  If it is to answer a request then that was with a thread that
\* has executed BR_SPAWN_LOOPER.
LEMMA ThreadCreated ==
    ASSUME PoolInv, NEW u \in Thread, NEW main \in BOOLEAN, NewThread(u, main),
           UNCHANGED <<driverVars, mDriverFD, dropped>>, mThreadPoolStarted' \in BOOLEAN,
           \/ main /\ spawn' = spawn
           \/ ~main /\ \E th \in spawn : spawn' = spawn \ {th}
    PROVE  PoolInv'
<1>1. /\ pc[u] = "none"
      /\ pc' = [pc EXCEPT ![u] = "spawned"]
      /\ isMain' = [isMain EXCEPT ![u] = main]
      /\ UNCHANGED <<requested_threads, requested_threads_started, ready_threads, max_threads, looper,
                     threads, work, flush, mDriverFD, dropped>>
  BY DEF NewThread, driverVars
<1>2. /\ pc' \in [Thread -> Places] /\ pc'[u] = "spawned" /\ \A t \in Thread : t # u => pc'[t] = pc[t]
      /\ isMain' \in [Thread -> BOOLEAN] /\ isMain'[u] = main
      /\ \A t \in Thread : t # u => isMain'[t] = isMain[t]
  BY <1>1 DEF PoolInv, TypeOK, Places
<1>3. spawn' \subseteq Thread
  BY DEF PoolInv, TypeOK
<1>4. TypeOK'
  BY <1>1, <1>2, <1>3 DEF PoolInv, TypeOK
<1>5. Ready'
  BY <1>1, <1>2, WaitSame DEF PoolInv
<1>6. \A t \in Thread : Joins(t)' <=> Joins(t)
  BY <1>1 DEF Joins
<1>7. Looping'
  BY <1>1, <1>2, <1>6 DEF PoolInv, Looping
<1>8. Joins(u) /\ u \notin OnTheWay
  BY <1>1 DEF PoolInv, Looping, Joins, OnTheWay
<1>9. OnTheWay' = IF main THEN OnTheWay ELSE OnTheWay \cup {u}
  BY <1>2, <1>6, <1>8 DEF OnTheWay
<1>10. OneRequest'
  <2>1. CASE main
    BY <1>1, <1>9, <2>1 DEF PoolInv, OneRequest
  <2>2. CASE ~main
    <3>1. PICK th \in spawn : spawn' = spawn \ {th}
      BY <2>2
    <3>2. /\ OnTheWay = {} /\ spawn = {th} /\ requested_threads = 1
      BY <3>1 DEF PoolInv, OneRequest, TypeOK
    <3>3. spawn' = {} /\ OnTheWay' = {u}
      BY <1>9, <2>2, <3>1, <3>2
    <3> QED BY <1>1, <3>2, <3>3 DEF OneRequest
  <2> QED BY <2>1, <2>2
<1>11. Grows'
  BY <1>2 DEF Grows, At
<1> QED BY <1>4, <1>5, <1>7, <1>10, <1>11 DEF PoolInv

\* It could not be, or nobody wants it.
LEMMA ThreadDropped ==
    ASSUME PoolInv, UNCHANGED <<driverVars, mDriverFD, pc, isMain>>, mThreadPoolStarted' \in BOOLEAN,
           dropped' = TRUE, spawn' \subseteq spawn
    PROVE  PoolInv'
<1>1. UNCHANGED <<requested_threads, requested_threads_started, ready_threads, max_threads, looper,
                  threads, work, flush, mDriverFD, pc, isMain>>
  BY DEF driverVars
<1>2. TypeOK'
  BY <1>1 DEF PoolInv, TypeOK
<1>3. Ready'
  BY <1>1, WaitSame DEF PoolInv
<1>4. \A t \in Thread : Joins(t)' <=> Joins(t)
  BY <1>1 DEF Joins
<1>5. Looping'
  BY <1>1, <1>4 DEF PoolInv, Looping
<1>6. OnTheWay' = OnTheWay
  BY <1>1, <1>4 DEF OnTheWay
<1>7. OneRequest'
  BY <1>1, <1>6 DEF PoolInv, OneRequest
<1>8. Grows'
  BY DEF Grows
<1> QED BY <1>2, <1>3, <1>5, <1>7, <1>8 DEF PoolInv

LEMMA CreateKeeps ==
    ASSUME PoolInv, \/ StartThreadPool
                    \/ \E th \in Thread : JoinThreadPool(th) \/ SpawnPooledThread(th)
    PROVE  PoolInv'
<1>1. CASE StartThreadPool
  <2>1. mThreadPoolStarted' = TRUE /\ UNCHANGED <<driverVars, mDriverFD, spawn>>
    BY <1>1 DEF StartThreadPool
  <2>2. ASSUME NEW u \in Thread, NewThread(u, TRUE), UNCHANGED dropped
        PROVE  PoolInv'
    BY <2>1, <2>2, ThreadCreated
  <2>3. ASSUME dropped' = TRUE, UNCHANGED <<pc, isMain>>
        PROVE  PoolInv'
    BY <2>1, <2>3, ThreadDropped
  <2> QED BY <1>1, <2>2, <2>3 DEF StartThreadPool
<1>2. ASSUME NEW th \in Thread, JoinThreadPool(th)
      PROVE  PoolInv'
  <2>1. /\ pc[th] = "none"
        /\ pc' = [pc EXCEPT ![th] = "spawned"]
        /\ isMain' = [isMain EXCEPT ![th] = TRUE]
        /\ UNCHANGED <<requested_threads, requested_threads_started, ready_threads, max_threads, looper,
                       threads, work, flush, mDriverFD, mThreadPoolStarted, spawn, dropped>>
    BY <1>2 DEF JoinThreadPool, driverVars
  <2>2. /\ pc' \in [Thread -> Places] /\ pc'[th] = "spawned" /\ \A t \in Thread : t # th => pc'[t] = pc[t]
        /\ isMain' \in [Thread -> BOOLEAN] /\ isMain'[th] = TRUE
        /\ \A t \in Thread : t # th => isMain'[t] = isMain[t]
    BY <2>1 DEF PoolInv, TypeOK, Places
  <2>3. TypeOK' /\ Ready'
    BY <2>1, <2>2, WaitSame DEF PoolInv, TypeOK
  <2>4. \A t \in Thread : Joins(t)' <=> Joins(t)
    BY <2>1 DEF Joins
  <2>5. Looping'
    BY <2>1, <2>2, <2>4 DEF PoolInv, Looping
  <2>6. OnTheWay' = OnTheWay
    BY <2>1, <2>2, <2>4 DEF OnTheWay
  <2>7. OneRequest'
    BY <2>1, <2>6 DEF PoolInv, OneRequest
  <2>8. Grows'
    BY <2>2 DEF Grows, At
  <2> QED BY <2>3, <2>5, <2>7, <2>8 DEF PoolInv
<1>3. ASSUME NEW th \in Thread, SpawnPooledThread(th)
      PROVE  PoolInv'
  <2>1. /\ th \in spawn /\ spawn' = spawn \ {th}
        /\ UNCHANGED <<driverVars, mDriverFD, mThreadPoolStarted>>
        /\ mThreadPoolStarted' \in BOOLEAN
    BY <1>3 DEF SpawnPooledThread, PoolInv, TypeOK
  <2>2. ASSUME NEW u \in Thread, NewThread(u, FALSE), UNCHANGED dropped
        PROVE  PoolInv'
    BY <2>1, <2>2, ThreadCreated
  <2>3. ASSUME dropped' = TRUE, UNCHANGED <<pc, isMain>>
        PROVE  PoolInv'
    BY <2>1, <2>3, ThreadDropped
  <2> QED BY <1>3, <2>2, <2>3 DEF SpawnPooledThread
<1> QED BY <1>1, <1>2, <1>3

\* Steps of a thread outside the driver.
LEMMA OutsideKeeps ==
    ASSUME PoolInv, NEW th \in Thread, Finish(th) \/ Enter(th) \/ Leave(th) \/ DropCommands(th)
    PROVE  PoolInv'
<1>1. /\ UNCHANGED <<requested_threads, requested_threads_started, ready_threads, max_threads, looper,
                     threads, work, flush, mDriverFD, mThreadPoolStarted, isMain, dropped>>
      /\ spawn' \subseteq spawn /\ (mDriverFD => spawn' = spawn)
  BY DEF Finish, Enter, Leave, DropCommands, driverVars
<1>2. PICK place \in {"idle", "enter", "left"} :
        /\ pc' = [pc EXCEPT ![th] = place]
        /\ pc[th] \in {"spawned", "idle", "serve"}
        /\ place = "idle" => pc[th] = "serve"
        /\ place = "enter" => pc[th] \in {"spawned", "idle"}
        /\ place = "left" => ~mDriverFD
  BY DEF Finish, Enter, Leave, DropCommands
<1>3. /\ pc' \in [Thread -> Places] /\ pc'[th] = place /\ \A t \in Thread : t # th => pc'[t] = pc[t]
  BY <1>2 DEF PoolInv, TypeOK, Places
<1>4. TypeOK'
  BY <1>1, <1>3 DEF PoolInv, TypeOK
<1>5. Ready'
  BY <1>1, <1>2, <1>3, WaitSame DEF PoolInv
<1>6. \A t \in Thread : Joins(t)' <=> Joins(t)
  BY <1>1 DEF Joins
<1>7. Looping'
  BY <1>1, <1>2, <1>3, <1>6 DEF PoolInv, Looping
<1>8. OnTheWay' \subseteq OnTheWay /\ (mDriverFD => OnTheWay' = OnTheWay)
  <2>1. ASSUME NEW t \in Thread, pc'[t] \in {"spawned", "enter"} /\ ~isMain'[t] /\ Joins(t)'
        PROVE  pc[t] \in {"spawned", "enter"} /\ ~isMain[t] /\ Joins(t)
    BY <1>1, <1>2, <1>3, <1>6, <2>1 DEF PoolInv, Looping
  <2>2. ASSUME mDriverFD, NEW t \in Thread, pc[t] \in {"spawned", "enter"} /\ ~isMain[t] /\ Joins(t)
        PROVE  pc'[t] \in {"spawned", "enter"} /\ ~isMain'[t] /\ Joins(t)'
    BY <1>1, <1>2, <1>3, <1>6, <2>2
  <2> QED BY <2>1, <2>2 DEF OnTheWay
<1>9. OneRequest'
  <2>1. CASE mDriverFD
    <3>1. OnTheWay' = OnTheWay /\ spawn' = spawn
      BY <1>1, <1>8, <2>1
    <3> QED BY <1>1, <3>1 DEF PoolInv, OneRequest
  <2>2. CASE ~mDriverFD
    BY <1>1, <1>8, <2>2 DEF PoolInv, OneRequest
  <2> QED BY <2>1, <2>2
<1>10. Grows'
  BY <1>1, <1>2, <1>3 DEF Grows, At
<1> QED BY <1>4, <1>5, <1>7, <1>9, <1>10 DEF PoolInv

\* The driver takes the first command of a thread, and lets the thread wait.
LEMMA StartReadKeeps ==
    ASSUME PoolInv, NEW th \in Thread, StartRead(th)
    PROVE  PoolInv'
<1>1. /\ pc[th] = "enter" /\ pc' = [pc EXCEPT ![th] = "wait"]
      /\ threads' = threads \cup {th}
      /\ ready_threads' = ready_threads + 1
      /\ UNCHANGED <<max_threads, work, flush, mDriverFD, mThreadPoolStarted, isMain, spawn, dropped>>
  BY DEF StartRead
<1>2. /\ pc' \in [Thread -> Places] /\ pc'[th] = "wait" /\ \A t \in Thread : t # th => pc'[t] = pc[t]
  BY <1>1 DEF PoolInv, TypeOK, Places
<1>3. Ready' /\ ready_threads' \in Nat
  BY <1>1, WaitStarts DEF PoolInv, TypeOK
<1>4. Grows'
  BY <1>2 DEF Grows, At
<1>5. Looper(th) \subseteq Flags /\ "INVALID" \notin Looper(th)
  BY DEF Looper, PoolInv, TypeOK, Looping, Flags
<1>6. ASSUME looper' \in [Thread -> SUBSET Flags],
             \A t \in Thread : t # th => looper'[t] = looper[t],
             looper'[th] \cap {"REGISTERED", "ENTERED"} # {}, "INVALID" \notin looper'[th]
      PROVE  Looping' /\ OnTheWay' = OnTheWay \ {th}
  <2>1. ~Joins(th)' /\ \A t \in Thread : t # th => (Joins(t)' <=> Joins(t))
    BY <1>6 DEF Joins
  <2>2. Looping'
    BY <1>1, <1>2, <1>6, <2>1 DEF PoolInv, Looping
  <2>3. OnTheWay' = OnTheWay \ {th}
    BY <1>1, <1>2, <2>1 DEF OnTheWay
  <2> QED BY <2>2, <2>3
<1>7. CASE ~Joins(th)
  <2>1. UNCHANGED <<looper, requested_threads, requested_threads_started>>
    BY <1>7 DEF StartRead
  <2>2. Looping' /\ OnTheWay' = OnTheWay
    BY <1>6, <1>7, <2>1 DEF PoolInv, TypeOK, Looping, Joins, OnTheWay
  <2>3. OneRequest'
    BY <1>1, <2>1, <2>2 DEF PoolInv, OneRequest
  <2>4. TypeOK'
    BY <1>1, <1>2, <1>3, <2>1 DEF PoolInv, TypeOK
  <2> QED BY <1>3, <1>4, <2>2, <2>3, <2>4 DEF PoolInv
<1>8. CASE Joins(th) /\ isMain[th]
  <2>1. UNCHANGED <<requested_threads, requested_threads_started>>
    BY <1>8 DEF StartRead, EnterLooper
  <2>2. looper' = [looper EXCEPT ![th] = Looper(th) \cup {"ENTERED"}]
    <3>1. "REGISTERED" \notin looper[th]
      BY <1>8 DEF Joins
    <3> QED BY <1>8, <3>1 DEF StartRead, EnterLooper
  <2>3. /\ looper' \in [Thread -> SUBSET Flags] /\ looper'[th] = Looper(th) \cup {"ENTERED"}
        /\ \A t \in Thread : t # th => looper'[t] = looper[t]
    BY <1>5, <2>2 DEF PoolInv, TypeOK, Flags
  <2>4. Looping' /\ OnTheWay' = OnTheWay
    BY <1>5, <1>6, <1>8, <2>3 DEF OnTheWay
  <2>5. OneRequest'
    BY <1>1, <2>1, <2>4 DEF PoolInv, OneRequest
  <2>6. TypeOK'
    BY <1>1, <1>2, <1>3, <2>1, <2>3 DEF PoolInv, TypeOK
  <2> QED BY <1>3, <1>4, <2>4, <2>5, <2>6 DEF PoolInv
<1>9. CASE Joins(th) /\ ~isMain[th]
  <2>1. th \in OnTheWay
    BY <1>1, <1>9 DEF OnTheWay
  <2>2. requested_threads = 1 /\ spawn = {} /\ OnTheWay = {th}
    BY <2>1 DEF PoolInv, OneRequest, OnTheWay
  <2>3. ~RegisterInvalid(th)
    BY <1>9, <2>2 DEF RegisterInvalid, Joins
  <2>4. /\ looper' = [looper EXCEPT ![th] = Looper(th) \cup {"REGISTERED"}]
        /\ requested_threads' = 0
        /\ requested_threads_started' = requested_threads_started + 1
    BY <1>9, <2>2, <2>3 DEF StartRead, RegisterLooper
  <2>5. /\ looper' \in [Thread -> SUBSET Flags] /\ looper'[th] = Looper(th) \cup {"REGISTERED"}
        /\ \A t \in Thread : t # th => looper'[t] = looper[t]
    BY <1>5, <2>4 DEF PoolInv, TypeOK, Flags
  <2>6. Looping' /\ OnTheWay' = {}
    BY <1>5, <1>6, <2>2, <2>5
  <2>7. OneRequest'
    BY <1>1, <2>2, <2>4, <2>6 DEF OneRequest
  <2>8. TypeOK'
    BY <1>1, <1>2, <1>3, <2>4, <2>5 DEF PoolInv, TypeOK
  <2> QED BY <1>3, <1>4, <2>6, <2>7, <2>8 DEF PoolInv
<1> QED BY <1>7, <1>8, <1>9

\* A read ends.  If a thread is asked for no request is open; if none is asked for while
\* nobody waits, then one is open or the limit is reached.
LEMMA EndReadKeeps ==
    ASSUME PoolInv, NEW th \in Thread, pc[th] \in {"wait", "serve"}, NEW ready \in Nat,
           NEW place \in {"serve", "idle"}, EndRead(th, ready, place), Ready', work' \in 0 .. MaxWork
    PROVE  PoolInv'
<1>1. /\ ready_threads' = ready
      /\ looper' = [looper EXCEPT ![th] = @ \ {"NEED_RETURN"}]
      /\ pc' = [pc EXCEPT ![th] = IF mDriverFD THEN place ELSE "idle"]
      /\ UNCHANGED <<requested_threads_started, max_threads, threads, flush,
                     mDriverFD, mThreadPoolStarted, isMain>>
  BY DEF EndRead
<1>2. /\ pc' \in [Thread -> Places] /\ \A t \in Thread : t # th => pc'[t] = pc[t]
      /\ pc'[th] = IF mDriverFD THEN place ELSE "idle"
      /\ pc'[th] \in {"serve", "idle"}
  BY <1>1 DEF PoolInv, TypeOK, Places
<1>3. /\ looper' \in [Thread -> SUBSET Flags] /\ looper'[th] = looper[th] \ {"NEED_RETURN"}
      /\ \A t \in Thread : t # th => looper'[t] = looper[t]
  BY <1>1 DEF PoolInv, TypeOK
<1>4. \A t \in Thread : Joins(t)' <=> Joins(t)
  BY <1>3 DEF Joins
<1>5. Looping'
  BY <1>1, <1>2, <1>3, <1>4 DEF PoolInv, Looping
<1>6. OnTheWay' = OnTheWay
  BY <1>1, <1>2, <1>4 DEF OnTheWay
<1>7. CASE WantsThread(th, ready)
  <2>1. requested_threads = 0
    BY <1>7 DEF WantsThread, PoolInv, TypeOK
  <2>2. spawn = {} /\ OnTheWay = {}
    BY <2>1 DEF PoolInv, OneRequest
  <2>3. /\ requested_threads' = 1
        /\ spawn' = IF mDriverFD THEN {th} ELSE {}
        /\ dropped' = (dropped \/ ~mDriverFD)
    BY <1>7, <2>1, <2>2 DEF EndRead
  <2>4. TypeOK'
    <3>1. dropped' \in BOOLEAN /\ spawn' \subseteq Thread
      BY <2>3 DEF PoolInv, TypeOK
    <3> QED BY <1>1, <1>2, <1>3, <2>3, <3>1 DEF PoolInv, TypeOK
  <2>5. OneRequest'
    BY <1>1, <1>6, <2>2, <2>3 DEF OneRequest
  <2>6. Grows'
    BY <1>1, <2>3 DEF Grows
  <2> QED BY <1>5, <2>4, <2>5, <2>6 DEF PoolInv
<1>8. CASE ~WantsThread(th, ready)
  <2>1. UNCHANGED <<requested_threads, spawn, dropped>>
    BY <1>8 DEF EndRead
  <2>2. TypeOK'
    BY <1>1, <1>2, <1>3, <2>1 DEF PoolInv, TypeOK
  <2>3. OneRequest'
    BY <1>1, <1>6, <2>1 DEF PoolInv, OneRequest
  <2>4. Grows'
    <3> SUFFICES ASSUME mDriverFD, ~dropped, At("idle")' \cup At("enter")' \cup At("wait")' = {},
                        requested_threads_started < Min(Limits), spawn = {}
                 PROVE  At("spawned")' # {}
      BY <1>1, <2>1, LeastLimit, PoolAssumption DEF Grows, PoolInv, TypeOK
    <3>1. ready = 0
      <4>1. At("wait")' = {}
        OBVIOUS
      <4>2. ready_threads' = Cardinality({})
        BY <4>1 DEF Ready
      <4> QED BY <1>1, <4>2, FS_EmptySet
    <3>2. requested_threads_started < max_threads
      BY LeastLimit, PoolAssumption DEF PoolInv, TypeOK
    <3>3. looper[th] \cap {"REGISTERED", "ENTERED"} # {}
      BY DEF PoolInv, Looping, Joins
    <3>4. requested_threads = 1
      BY <1>8, <3>1, <3>2, <3>3 DEF WantsThread, PoolInv, TypeOK, OneRequest
    <3>5. PICK t \in Thread : t \in OnTheWay
      BY <3>4 DEF PoolInv, OneRequest, OnTheWay
    <3>6. t \in OnTheWay'
      BY <1>6, <3>5
    <3> QED BY <3>6 DEF OnTheWay, At
  <2> QED BY <1>5, <2>2, <2>3, <2>4 DEF PoolInv
<1> QED BY <1>7, <1>8

LEMMA ReadKeeps ==
    ASSUME PoolInv, NEW th \in Thread, ReadWork(th) \/ ReadNothing(th) \/ ReadInHandler(th)
    PROVE  PoolInv'
<1>1. pc \in [Thread -> Places] /\ ready_threads \in Nat /\ Ready /\ work \in 0 .. MaxWork /\ MaxWork \in Nat
  BY PoolAssumption DEF PoolInv, TypeOK
<1>2. ASSUME NEW place \in {"serve", "idle"}, pc[th] = "wait", work' \in 0 .. MaxWork,
             EndRead(th, ready_threads - 1, place)
      PROVE  PoolInv'
  <2>1. /\ ready_threads' = ready_threads - 1
        /\ pc' = [pc EXCEPT ![th] = IF mDriverFD THEN place ELSE "idle"]
    BY <1>2 DEF EndRead
  <2>2. PICK to : to = (IF mDriverFD THEN place ELSE "idle")
    OBVIOUS
  <2>3. to # "wait" /\ pc' = [pc EXCEPT ![th] = to]
    BY <2>1, <2>2
  <2>4. Ready' /\ ready_threads' \in Nat
    BY <1>1, <1>2, <2>1, <2>3, WaitEnds
  <2>5. PICK ready \in Nat : ready = ready_threads - 1
    BY <2>1, <2>4
  <2>6. EndRead(th, ready, place)
    BY <1>2, <2>5
  <2> QED BY <1>2, <2>4, <2>6, EndReadKeeps
<1>3. CASE ReadWork(th)
  <2>1. /\ pc[th] = "wait" /\ work > 0 /\ work' = work - 1 /\ EndRead(th, ready_threads - 1, "serve")
    BY <1>3 DEF ReadWork
  <2> QED BY <1>1, <1>2, <2>1
<1>4. CASE ReadNothing(th)
  <2>1. /\ pc[th] = "wait" /\ work' = work /\ EndRead(th, ready_threads - 1, "idle")
    BY <1>4 DEF ReadNothing
  <2> QED BY <1>1, <1>2, <2>1
<1>5. CASE ReadInHandler(th)
  <2>1. /\ pc[th] = "serve" /\ work' = work /\ EndRead(th, ready_threads, "serve")
    BY <1>5 DEF ReadInHandler
  <2>2. /\ ready_threads' = ready_threads
        /\ pc' = [pc EXCEPT ![th] = IF mDriverFD THEN "serve" ELSE "idle"]
    BY <2>1 DEF EndRead
  <2>3. Ready'
    BY <1>1, <2>1, <2>2, WaitSame
  <2>4. PICK ready \in Nat : ready = ready_threads
    BY <1>1
  <2>5. EndRead(th, ready, "serve")
    BY <2>1, <2>4
  <2> QED BY <1>1, <2>1, <2>3, <2>5, EndReadKeeps
<1> QED BY <1>3, <1>4, <1>5

LEMMA InterruptedKeeps ==
    ASSUME PoolInv, NEW th \in Thread, ReadInterrupted(th)
    PROVE  PoolInv'
<1>1. /\ pc[th] = "wait" /\ ready_threads' = ready_threads - 1
      /\ looper' = [looper EXCEPT ![th] = @ \ {"NEED_RETURN"}]
      /\ pc' = [pc EXCEPT ![th] = "idle"]
      /\ UNCHANGED <<requested_threads, requested_threads_started, max_threads, threads, work, flush,
                     mDriverFD, mThreadPoolStarted, isMain, spawn, dropped>>
  BY DEF ReadInterrupted
<1>2. /\ pc' \in [Thread -> Places] /\ \A t \in Thread : t # th => pc'[t] = pc[t]
      /\ pc'[th] = "idle"
  BY <1>1 DEF PoolInv, TypeOK, Places
<1>3. /\ looper' \in [Thread -> SUBSET Flags] /\ looper'[th] = looper[th] \ {"NEED_RETURN"}
      /\ \A t \in Thread : t # th => looper'[t] = looper[t]
  BY <1>1 DEF PoolInv, TypeOK
<1>4. \A t \in Thread : Joins(t)' <=> Joins(t)
  BY <1>3 DEF Joins
<1>5. Looping'
  BY <1>1, <1>2, <1>3, <1>4 DEF PoolInv, Looping
<1>6. OnTheWay' = OnTheWay
  BY <1>1, <1>2, <1>4 DEF OnTheWay
<1>7. Ready' /\ ready_threads' \in Nat
  BY <1>1, WaitEnds DEF PoolInv, TypeOK
<1>8. TypeOK'
  BY <1>1, <1>2, <1>3, <1>7 DEF PoolInv, TypeOK
<1>9. OneRequest'
  BY <1>1, <1>6 DEF PoolInv, OneRequest
<1>10. Grows'
  BY <1>2 DEF Grows, At
<1> QED BY <1>5, <1>7, <1>8, <1>9, <1>10 DEF PoolInv

-----------------------------------------------------------------------------
(* The theorems *)

LEMMA PoolInitInv == Init => PoolInv
<1> SUFFICES ASSUME Init PROVE PoolInv
  OBVIOUS
<1>1. TypeOK
  <2>1. {requested_threads, requested_threads_started, ready_threads} \subseteq Nat
    BY DEF Init
  <2>2. {flush, mDriverFD, mThreadPoolStarted, dropped} \subseteq BOOLEAN
    BY DEF Init
  <2>3. work \in 0 .. MaxWork
    BY PoolAssumption DEF Init
  <2> QED BY <2>1, <2>2, <2>3 DEF Init, TypeOK, Places
<1>2. \A place : place # "none" => At(place) = {}
  BY DEF Init, At
<1>3. Ready
  <2>1. At("wait") = {}
    BY <1>2
  <2> QED BY <2>1, FS_EmptySet DEF Init, Ready
<1>4. Looping
  BY DEF Init, Looping
<1>5. OnTheWay = {}
  BY DEF Init, OnTheWay
<1>6. OneRequest
  BY <1>5 DEF Init, OneRequest
<1>7. Grows
  BY <1>2 DEF Grows
<1> QED BY <1>1, <1>3, <1>4, <1>6, <1>7 DEF PoolInv

\* Every step keeps the invariant, one case for each kind of operation.
LEMMA PoolNextInv == PoolInv /\ [Next]_vars => PoolInv'
<1> SUFFICES ASSUME PoolInv, [Next]_vars PROVE PoolInv'
  OBVIOUS
<1>1. CASE UNCHANGED vars
  <2>1. UNCHANGED <<requested_threads, requested_threads_started, ready_threads, max_threads, looper, threads,
                    work, flush, mDriverFD, mThreadPoolStarted, pc, isMain, spawn, dropped>>
    BY <1>1 DEF vars, driverVars, userVars
  <2>2. TypeOK'
    BY <2>1 DEF PoolInv, TypeOK
  <2>3. \A th \in Thread : pc[th] = "none" => looper'[th] = {}
    BY <2>1 DEF PoolInv, Looping
  <2> QED BY <2>1, <2>2, <2>3, NoMove
<1>2. CASE StartThreadPool \/ \E th \in Thread : JoinThreadPool(th) \/ SpawnPooledThread(th)
  BY <1>2, CreateKeeps
<1>3. CASE StopProcess \/ Queue \/ DeferredFlush \/ \E n \in Limits : SetMaxThreads(n)
  BY <1>3, DriverKeeps
<1>4. ASSUME NEW th \in Thread, Finish(th) \/ Enter(th) \/ Leave(th) \/ DropCommands(th)
      PROVE  PoolInv'
  BY <1>4, OutsideKeeps
<1>5. ASSUME NEW th \in Thread, StartRead(th)
      PROVE  PoolInv'
  BY <1>5, StartReadKeeps
<1>6. ASSUME NEW th \in Thread, ReadWork(th) \/ ReadNothing(th) \/ ReadInHandler(th)
      PROVE  PoolInv'
  BY <1>6, ReadKeeps
<1>7. ASSUME NEW th \in Thread, ReadInterrupted(th)
      PROVE  PoolInv'
  BY <1>7, InterruptedKeeps
<1> QED BY <1>1, <1>2, <1>3, <1>4, <1>5, <1>6, <1>7 DEF Next

LEMMA PoolInvariant == Spec => []PoolInv
<1>1. Init => PoolInv
  BY PoolInitInv
<1>2. PoolInv /\ [Next]_vars => PoolInv'
  BY PoolNextInv
<1> QED BY <1>1, <1>2, PTL DEF Spec

\* requested_threads and ready_threads, which the driver decrements without looking, never
\* go below zero.
THEOREM PoolTypeCorrect == Spec => []TypeOK
<1>1. PoolInv => TypeOK
  BY DEF PoolInv
<1> QED BY <1>1, PoolInvariant, PTL

\* The driver's requests and the threads that answer them match: whatever the limits, the
\* threads and the moment of stopProcess, no thread registers without a request, no two
\* requests are open, and a pool whose threads are all in handlers gets another.
THEOREM RequestsMatched == Spec => []RequestMatched
<1>1. ASSUME PoolInv PROVE RequestMatched
  <2>1. requested_threads \in Nat
    BY <1>1 DEF PoolInv, TypeOK
  <2>2. OneRequest /\ spawn \subseteq Thread /\ OnTheWay \subseteq Thread
    BY <1>1 DEF PoolInv, TypeOK, OnTheWay
  <2>3. Cardinality(spawn) + Cardinality(OnTheWay) <= requested_threads
    <3>1. ASSUME NEW S \in SUBSET Thread, \A a, b \in Thread : a \in S /\ b \in S => a = b
          PROVE  S = {} \/ \E a \in Thread : S = {a}
      BY <3>1
    <3>2. spawn = {} \/ \E a \in Thread : spawn = {a}
      BY <2>2, <3>1 DEF OneRequest
    <3>3. OnTheWay = {} \/ \E a \in Thread : OnTheWay = {a}
      BY <2>2, <3>1 DEF OneRequest
    <3>4. CASE spawn = {} /\ OnTheWay = {}
      BY <2>1, <3>4, FS_EmptySet
    <3>5. CASE spawn # {}
      <4>1. OnTheWay = {} /\ requested_threads = 1
        BY <2>2, <3>5 DEF OneRequest
      <4>2. Cardinality(spawn) = 1 /\ Cardinality(OnTheWay) = 0
        BY <3>2, <3>5, <4>1, FS_EmptySet, FS_Singleton
      <4> QED BY <4>1, <4>2
    <3>6. CASE OnTheWay # {}
      <4>1. spawn = {} /\ requested_threads = 1
        BY <2>2, <3>6 DEF OneRequest
      <4>2. Cardinality(spawn) = 0 /\ Cardinality(OnTheWay) = 1
        BY <3>3, <3>6, <4>1, FS_EmptySet, FS_Singleton
      <4> QED BY <4>1, <4>2
    <3> QED BY <3>4, <3>5, <3>6
  <2>4. \A th \in Thread : "INVALID" \notin looper[th]
    BY <1>1 DEF PoolInv, Looping
  <2> QED BY <1>1, <2>2, <2>3, <2>4 DEF PoolInv, OneRequest, Grows, RequestMatched
<1> QED BY <1>1, PoolInvariant, PTL

=============================================================================
