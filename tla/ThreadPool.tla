----------------------------- MODULE ThreadPool -----------------------------
(***************************************************************************)
(* The thread pool of one process: the counters and looper flags of the    *)
(* driver (driver/binder.c), ProcessState::startThreadPool and             *)
(* spawnPooledThread, and IPCThreadState::joinThreadPool and stopProcess.  *)
(*                                                                         *)
(* The driver asks for a new thread with BR_SPAWN_LOOPER when a read ends  *)
(* and no other thread is ready; the request is answered by the            *)
(* BC_REGISTER_LOOPER of that thread.  Work is a number here: which item   *)
(* goes to which thread, and how sleepers are woken, is the business of    *)
(* BinderTransaction.                                                      *)
(*                                                                         *)
(* A definition Name_Fault is a faulty variant of the definition Name that *)
(* follows it; the specification does not use it.                          *)
(***************************************************************************)
EXTENDS Naturals, FiniteSets, FiniteSetsExt

CONSTANTS
    Thread,   \* the threads of the process
    Joiners,  \* threads that call joinThreadPool(true) themselves
    Limits,   \* the values BINDER_SET_MAX_THREADS is given
    MaxWork,  \* bound: items on proc->todo
    MayFail   \* whether Thread::run may fail to create a thread

ASSUME PoolAssumption ==
    /\ Joiners \subseteq Thread
    /\ Limits \subseteq Nat /\ Limits # {}
    /\ MaxWork \in Nat
    /\ MayFail \in BOOLEAN

VARIABLES
    requested_threads,          \* proc->requested_threads
    requested_threads_started,  \* proc->requested_threads_started
    ready_threads,              \* proc->ready_threads
    max_threads,                \* proc->max_threads
    looper,                     \* thread->looper
    threads,                    \* threads in the rb tree of the process
    work,                       \* length of proc->todo
    flush,                      \* BINDER_DEFERRED_FLUSH is pending
    mDriverFD,                  \* the file descriptor is open
    mThreadPoolStarted,         \* of ProcessState
    pc,                         \* where a thread is
    isMain,                     \* its argument of joinThreadPool
    spawn,                      \* threads with BR_SPAWN_LOOPER in mIn
    dropped                     \* history: a thread that was asked for was not created

driverVars == <<requested_threads, requested_threads_started, ready_threads,
                max_threads, looper, threads, work, flush>>
userVars == <<mDriverFD, mThreadPoolStarted, pc, isMain, spawn, dropped>>
vars == <<driverVars, userVars>>

Flags == {"REGISTERED", "ENTERED", "INVALID", "NEED_RETURN"}

\* none: not created; spawned: before the loop of joinThreadPool; idle: at
\* talkWithDriver; enter: in the ioctl, before binder_lock; wait: in the wait of
\* binder_thread_read for work of the process; serve: in executeCommand.
Places == {"none", "spawned", "idle", "enter", "wait", "serve", "left"}

Init ==
    /\ requested_threads = 0
    /\ requested_threads_started = 0
    /\ ready_threads = 0
    /\ max_threads \in Limits
    /\ looper = [th \in Thread |-> {}]
    /\ threads = {}
    /\ work = 0
    /\ flush = FALSE
    /\ mDriverFD = TRUE
    /\ mThreadPoolStarted = FALSE
    /\ pc = [th \in Thread |-> "none"]
    /\ isMain = [th \in Thread |-> FALSE]
    /\ spawn = {}
    /\ dropped = FALSE

-----------------------------------------------------------------------------
(* User space *)

\* new PoolThread(main)->run(): a thread that is not used yet.
NewThread(u, main) ==
    /\ u \notin Joiners
    /\ pc[u] = "none"
    /\ pc' = [pc EXCEPT ![u] = "spawned"]
    /\ isMain' = [isMain EXCEPT ![u] = main]

\* ProcessState::startThreadPool, with spawnPooledThread(true).
StartThreadPool ==
    /\ ~mThreadPoolStarted
    /\ mThreadPoolStarted' = TRUE
    /\ \/ (\E u \in Thread : NewThread(u, TRUE)) /\ UNCHANGED dropped
       \/ MayFail /\ dropped' = TRUE /\ UNCHANGED <<pc, isMain>>
    /\ UNCHANGED <<driverVars, mDriverFD, spawn>>

\* A thread of the program calls joinThreadPool(true).
JoinThreadPool(th) ==
    /\ th \in Joiners
    /\ pc[th] = "none"
    /\ pc' = [pc EXCEPT ![th] = "spawned"]
    /\ isMain' = [isMain EXCEPT ![th] = TRUE]
    /\ UNCHANGED <<driverVars, mDriverFD, mThreadPoolStarted, spawn, dropped>>

\* executeCommand(BR_SPAWN_LOOPER): spawnPooledThread(false), which ignores the
\* request before startThreadPool, and the result of run() always.
SpawnPooledThread(th) ==
    /\ th \in spawn
    /\ spawn' = spawn \ {th}
    /\ \/ /\ mThreadPoolStarted
          /\ \E u \in Thread : NewThread(u, FALSE)
          /\ UNCHANGED dropped
       \/ /\ ~mThreadPoolStarted \/ MayFail
          /\ dropped' = TRUE
          /\ UNCHANGED <<pc, isMain>>
    /\ UNCHANGED <<driverVars, mDriverFD, mThreadPoolStarted>>

\* The handler is done, and its reply is in mOut.
Finish(th) ==
    /\ pc[th] = "serve"
    /\ th \notin spawn
    /\ pc' = [pc EXCEPT ![th] = "idle"]
    /\ UNCHANGED <<driverVars, mDriverFD, mThreadPoolStarted, isMain, spawn, dropped>>

\* talkWithDriver: the ioctl takes the file.
Enter(th) ==
    /\ pc[th] \in {"spawned", "idle"}
    /\ th \notin spawn
    /\ mDriverFD
    /\ pc' = [pc EXCEPT ![th] = "enter"]
    /\ UNCHANGED <<driverVars, mDriverFD, mThreadPoolStarted, isMain, spawn, dropped>>

\* talkWithDriver returns -EBADF, and joinThreadPool ends.
Leave(th) ==
    /\ pc[th] \in {"spawned", "idle"}
    /\ ~mDriverFD
    /\ pc' = [pc EXCEPT ![th] = "left"]
    /\ spawn' = spawn \ {th}
    /\ UNCHANGED <<driverVars, mDriverFD, mThreadPoolStarted, isMain, dropped>>

\* The same, with commands read and not executed yet: BR_NOOP comes first, and the
\* descriptor is looked at again before each command.
DropCommands(th) ==
    /\ pc[th] = "serve"
    /\ ~mDriverFD
    /\ pc' = [pc EXCEPT ![th] = "left"]
    /\ spawn' = spawn \ {th}
    /\ UNCHANGED <<driverVars, mDriverFD, mThreadPoolStarted, isMain, dropped>>

\* IPCThreadState::stopProcess; close calls binder_flush.
StopProcess ==
    /\ mDriverFD
    /\ mDriverFD' = FALSE
    /\ flush' = TRUE
    /\ UNCHANGED <<requested_threads, requested_threads_started, ready_threads,
                   max_threads, looper, threads, work, mThreadPoolStarted, pc,
                   isMain, spawn, dropped>>

-----------------------------------------------------------------------------
(* Driver *)

\* BINDER_SET_MAX_THREADS
SetMaxThreads(n) ==
    /\ mDriverFD
    /\ n # max_threads
    /\ max_threads' = n
    /\ UNCHANGED <<requested_threads, requested_threads_started, ready_threads,
                   looper, threads, work, flush, userVars>>

\* A transaction is queued for the process.
Queue ==
    /\ work < MaxWork
    /\ work' = work + 1
    /\ UNCHANGED <<requested_threads, requested_threads_started, ready_threads,
                   max_threads, looper, threads, flush, userVars>>

\* The looper flags of th with binder_get_thread applied.
Looper(th) == IF th \in threads THEN looper[th] ELSE {"NEED_RETURN"}

\* The first command of joinThreadPool is still to be written.
Joins(th) == looper[th] \cap {"REGISTERED", "ENTERED"} = {}

\* BC_REGISTER_LOOPER answers a request, one that nobody made is invalid.
RegisterInvalid(th) == "ENTERED" \in looper[th] \/ requested_threads = 0

RegisterLooper(th) ==
    IF RegisterInvalid(th)
    THEN /\ looper' = [looper EXCEPT ![th] = Looper(th) \cup {"INVALID", "REGISTERED"}]
         /\ UNCHANGED <<requested_threads, requested_threads_started>>
    ELSE /\ looper' = [looper EXCEPT ![th] = Looper(th) \cup {"REGISTERED"}]
         /\ requested_threads' = requested_threads - 1
         /\ requested_threads_started' = requested_threads_started + 1

\* BC_ENTER_LOOPER
EnterLooper(th) ==
    /\ looper' = [looper EXCEPT ![th] = Looper(th) \cup {"ENTERED"}
                      \cup (IF "REGISTERED" \in looper[th] THEN {"INVALID"} ELSE {})]
    /\ UNCHANGED <<requested_threads, requested_threads_started>>

\* binder_ioctl_write_read: the write, and the read up to its wait.
StartRead(th) ==
    /\ pc[th] = "enter"
    /\ threads' = threads \cup {th}
    /\ IF ~Joins(th) THEN UNCHANGED <<looper, requested_threads, requested_threads_started>>
       ELSE IF isMain[th] THEN EnterLooper(th) ELSE RegisterLooper(th)
    /\ ready_threads' = ready_threads + 1
    /\ pc' = [pc EXCEPT ![th] = "wait"]
    /\ UNCHANGED <<max_threads, work, flush, mDriverFD, mThreadPoolStarted, isMain,
                   spawn, dropped>>

\* At the end of a read, with ready threads left: whether to ask for a thread.
WantsThread_Busy(th, ready) ==
    /\ requested_threads + ready = 0
    /\ requested_threads_started < max_threads
    /\ work > 1
WantsThread(th, ready) ==
    /\ requested_threads + ready = 0
    /\ requested_threads_started < max_threads
    /\ looper[th] \cap {"REGISTERED", "ENTERED"} # {}

\* A read that got something, or returns because of NEED_RETURN.
\* When the descriptor was closed meanwhile talkWithDriver drops what was read.
EndRead(th, ready, place) ==
    /\ IF WantsThread(th, ready)
       THEN /\ requested_threads' = requested_threads + 1
            /\ spawn' = IF mDriverFD THEN spawn \cup {th} ELSE spawn
            /\ dropped' = (dropped \/ ~mDriverFD)
       ELSE UNCHANGED <<requested_threads, spawn, dropped>>
    /\ ready_threads' = ready
    /\ looper' = [looper EXCEPT ![th] = @ \ {"NEED_RETURN"}]
    /\ pc' = [pc EXCEPT ![th] = IF mDriverFD THEN place ELSE "idle"]
    /\ UNCHANGED <<requested_threads_started, max_threads, threads, flush,
                   mDriverFD, mThreadPoolStarted, isMain>>

ReadWork(th) ==
    /\ pc[th] = "wait"
    /\ work > 0
    /\ work' = work - 1
    /\ EndRead(th, ready_threads - 1, "serve")

ReadNothing(th) ==
    /\ pc[th] = "wait"
    /\ work = 0
    /\ "NEED_RETURN" \in looper[th]
    /\ EndRead(th, ready_threads - 1, "idle")
    /\ UNCHANGED work

\* A handler calls another process: waitForResponse reads what is for the thread.
ReadInHandler(th) ==
    /\ pc[th] = "serve"
    /\ th \notin spawn
    /\ mDriverFD
    /\ EndRead(th, ready_threads, "serve")
    /\ UNCHANGED work

\* A signal ends the wait; talkWithDriver tries again.
ReadInterrupted(th) ==
    /\ pc[th] = "wait"
    /\ ready_threads' = ready_threads - 1
    /\ looper' = [looper EXCEPT ![th] = @ \ {"NEED_RETURN"}]
    /\ pc' = [pc EXCEPT ![th] = "idle"]
    /\ UNCHANGED <<requested_threads, requested_threads_started, max_threads,
                   threads, work, flush, mDriverFD, mThreadPoolStarted, isMain,
                   spawn, dropped>>

\* binder_deferred_flush: every thread in the driver returns to user space.
DeferredFlush_WaitersOnly ==
    /\ flush
    /\ flush' = FALSE
    /\ looper' = [th \in Thread |-> IF pc[th] = "wait" THEN looper[th] \cup {"NEED_RETURN"}
                                    ELSE looper[th]]
    /\ UNCHANGED <<requested_threads, requested_threads_started, ready_threads,
                   max_threads, threads, work, userVars>>
DeferredFlush ==
    /\ flush
    /\ flush' = FALSE
    /\ looper' = [th \in Thread |-> IF th \in threads THEN looper[th] \cup {"NEED_RETURN"}
                                    ELSE looper[th]]
    /\ UNCHANGED <<requested_threads, requested_threads_started, ready_threads,
                   max_threads, threads, work, userVars>>

-----------------------------------------------------------------------------
Next ==
    \/ StartThreadPool
    \/ StopProcess
    \/ Queue
    \/ DeferredFlush
    \/ \E n \in Limits : SetMaxThreads(n)
    \/ \E th \in Thread :
          \/ JoinThreadPool(th)
          \/ SpawnPooledThread(th)
          \/ Finish(th)
          \/ Enter(th)
          \/ Leave(th)
          \/ DropCommands(th)
          \/ StartRead(th)
          \/ ReadWork(th)
          \/ ReadNothing(th)
          \/ ReadInHandler(th)
          \/ ReadInterrupted(th)

Spec == Init /\ [][Next]_vars

\* The scheduler runs every thread that can run, and the work queue of the
\* kernel runs the flush.  A wait that a signal keeps interrupting is left
\* strongly fair.  Nothing is said of handlers: they may run for ever.
Fairness ==
    /\ WF_vars(DeferredFlush)
    /\ \A th \in Thread :
          /\ WF_vars(SpawnPooledThread(th))
          /\ WF_vars(Enter(th))
          /\ WF_vars(Leave(th))
          /\ WF_vars(StartRead(th))
          /\ SF_vars(ReadWork(th))
          /\ SF_vars(ReadNothing(th))

LiveSpec == Spec /\ Fairness

-----------------------------------------------------------------------------
(* Properties *)

\* Every variable keeps its type; no counter of the driver goes below zero.
TypeOK ==
    /\ {requested_threads, requested_threads_started, ready_threads} \subseteq Nat
    /\ max_threads \in Limits
    /\ looper \in [Thread -> SUBSET Flags]
    /\ threads \subseteq Thread
    /\ work \in 0 .. MaxWork
    /\ {flush, mDriverFD, mThreadPoolStarted, dropped} \subseteq BOOLEAN
    /\ pc \in [Thread -> Places]
    /\ isMain \in [Thread -> BOOLEAN]
    /\ spawn \subseteq Thread

At(place) == {th \in Thread : pc[th] = place}

\* Threads on their way to answer a request: BR_SPAWN_LOOPER not yet executed, or
\* BC_REGISTER_LOOPER not yet written.
OnTheWay ==
    {th \in Thread : pc[th] \in {"spawned", "enter"} /\ ~isMain[th] /\ Joins(th)}

\* At most one request is open, and a thread that registers finds it: the driver
\* never sees "BC_REGISTER_LOOPER called without request".  And none is missing: when
\* every thread of the pool is in a handler and the pool is below every limit it was
\* given, another thread is on its way, so handlers that wait for each other cannot
\* use up the pool.  (Not so once a request was dropped, which nobody repeats, nor up
\* to a limit that was raised when the handlers were running.)
RequestMatched ==
    /\ Cardinality(spawn) + Cardinality(OnTheWay) <= requested_threads
    /\ requested_threads <= 1
    /\ \A th \in Thread : "INVALID" \notin looper[th]
    /\ (/\ mDriverFD /\ ~dropped
        /\ At("serve") # {}
        /\ At("idle") \cup At("enter") \cup At("wait") = {})
           => \/ requested_threads_started >= Min(Limits)
              \/ spawn \cup At("spawned") # {}

TakesWork == \E th \in Thread : ReadWork(th)

\* Work that waits is taken although no handler ever ends, until the pool has
\* reached its limit, a request was dropped, or the process stops.
WorkTaken ==
    \/ []<><<TakesWork>>_vars
    \/ []<>(\/ work = 0 \/ ~mThreadPoolStarted \/ dropped \/ ~mDriverFD
            \/ requested_threads_started >= Min(Limits))

\* After stopProcess every thread leaves the pool, one that is about to wait in
\* the driver when the descriptor is closed included; only a handler may hold
\* it up.
StopDrains ==
    \A th \in Thread : (~mDriverFD /\ pc[th] # "none") ~> pc[th] \in {"left", "serve"}
=============================================================================
