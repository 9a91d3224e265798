------------------------- MODULE BinderTransaction -------------------------
(***************************************************************************)
(* Transactions of the binder driver (driver/binder.c): the call stacks of *)
(* the threads, the todo lists of threads and processes, the two error     *)
(* slots of a thread, the one-way queue of a node, the wait queues, and    *)
(* what the driver does with all of them when a thread or a process goes.  *)
(*                                                                         *)
(* The user programs are arbitrary: a thread that is not blocked in the    *)
(* driver may issue any command.  Every process owns one node, on which    *)
(* the other processes call it.  All handlers run under binder_main_lock,  *)
(* so a handler is one step, with two exceptions: binder_thread_read drops *)
(* the lock to wait, and the loops that tear a thread or a process down    *)
(* take one step per item (exiting, closing) while they keep the lock.     *)
(* Reference counts of nodes are the business of another module, and so is *)
(* the arithmetic of the buffer allocator: here an allocation may fail.    *)
(*                                                                         *)
(* A definition Name_Fault is a faulty variant of the definition Name that *)
(* follows it; the specification does not use it.                          *)
(***************************************************************************)
EXTENDS Naturals, Sequences, FiniteSets

CONSTANTS
    Proc,      \* binder_proc
    Thread,    \* binder_thread, by pid
    ProcOf,    \* thread->proc
    Txn,       \* memory for struct binder_transaction
    Buf,       \* memory for struct binder_buffer
    Calls,     \* <<th, p>>: the program of th makes synchronous calls on p
    OneWays,   \* <<th, p>>: ... and one-way calls
    Loopers,   \* threads of the thread pools, see LiveNext
    Exits,     \* threads that may issue BINDER_THREAD_EXIT
    Dies,      \* processes that may end
    MaxTodo,   \* bound: a thread with this much unread work gets no tcomplete
    NULL,      \* the null pointer
    COMPLETE   \* a BINDER_WORK_TRANSACTION_COMPLETE item of a todo list

ASSUME ProcOfType == ProcOf \in [Thread -> Proc]

\* A handle never refers to a node of the process that holds it: the driver
\* turns such a handle back into the local object.
ASSUME Programs ==
    /\ Calls \cup OneWays \subseteq {c \in Thread \X Proc : ProcOf[c[1]] # c[2]}
    /\ Loopers \cup Exits \subseteq Thread
    /\ Dies \subseteq Proc

ASSUME MaxTodoType == MaxTodo \in Nat

ASSUME Distinct ==
    /\ NULL \notin Proc \cup Thread \cup Txn \cup Buf
    /\ COMPLETE \notin Txn

VARIABLES
    alive,         \* processes that have the driver open
    threads,       \* threads in their process's rb tree
    stack,         \* thread->transaction_stack
    todo,          \* thread->todo
    return_error,  \* thread->return_error
    return_error2, \* thread->return_error2
    wait,          \* "no", or the wait queue a read of the thread waits on
    asleep,        \* threads that sleep on that queue until a wake_up
    proc_todo,     \* proc->todo
    has_async,     \* node->has_async_transaction
    async_todo,    \* node->async_todo
    txn,           \* the transactions
    buf,           \* the buffers
    exiting,       \* the thread binder_free_thread is tearing down
    closing,       \* the process binder_deferred_release is tearing down
    bug            \* the assertion of the driver that failed first

threadVars == <<stack, todo, return_error, return_error2, wait, asleep>>
nodeVars   == <<proc_todo, has_async, async_todo>>
memVars    == <<txn, buf>>
lockVars   == <<exiting, closing>>
vars == <<alive, threads, threadVars, nodeVars, memVars, lockVars, bug>>

Errors == {"OK", "COMPLETE", "FAILED", "DEAD"}
Work == Txn \cup {COMPLETE}
Bugs == {"none", "failed reply to one-way", "has error code already",
         "pop: not on top", "bad target transaction stack",
         "free: no async transaction", "read: no buffer", "free thread: BUG",
         "release: no buffer", "release proc: transaction not freed"}

TxnRec == [kind: {"none", "call", "oneway", "reply"},
           from: Thread \cup {NULL}, from_parent: Txn \cup {NULL},
           to_thread: Thread \cup {NULL}, to_parent: Txn \cup {NULL},
           buffer: Buf \cup {NULL}]

\* proc is the process whose area holds the buffer, NULL when it is free.
BufRec == [proc: Proc \cup {NULL}, transaction: Txn \cup {NULL},
           target_node: Proc \cup {NULL}, async: BOOLEAN,
           allow_user_free: BOOLEAN]

NoTxn == [kind |-> "none", from |-> NULL, from_parent |-> NULL,
          to_thread |-> NULL, to_parent |-> NULL, buffer |-> NULL]

NoBuf == [proc |-> NULL, transaction |-> NULL, target_node |-> NULL,
          async |-> FALSE, allow_user_free |-> FALSE]

Init ==
    /\ alive = Proc
    /\ threads = {}
    /\ stack = [th \in Thread |-> NULL]
    /\ todo = [th \in Thread |-> <<>>]
    /\ return_error = [th \in Thread |-> "OK"]
    /\ return_error2 = [th \in Thread |-> "OK"]
    /\ wait = [th \in Thread |-> "no"]
    /\ asleep = {}
    /\ proc_todo = [p \in Proc |-> <<>>]
    /\ has_async = [p \in Proc |-> FALSE]
    /\ async_todo = [p \in Proc |-> <<>>]
    /\ txn = [t \in Txn |-> NoTxn]
    /\ buf = [b \in Buf |-> NoBuf]
    /\ exiting = NULL
    /\ closing = NULL
    /\ bug = "none"

-----------------------------------------------------------------------------
(* Helpers *)

\* The transactions a loop "while (t) t = next[t]" visits: the least set that
\* contains t and is closed under next.
Walk(t, next) ==
    {x \in Txn : \A S \in SUBSET Txn :
        (t \in S \cup {NULL} /\ \A y \in S : next[y] \in S \cup {NULL})
            => x \in S}

ThreadsOf(p) == {th \in Thread : ProcOf[th] = p}

\* wake_up_interruptible(&thread->wait): only a thread that waits for its own
\* work sleeps on that queue.
Woken_NoWakeup(u) == asleep
Woken(u) == IF wait[u] = "thread" THEN asleep \ {u} ELSE asleep

\* Threads of p that sleep on proc->wait.
Sleepers(p) == {u \in asleep : ProcOf[u] = p /\ wait[u] = "proc"}

\* wake_up_interruptible(&proc->wait): the waiters are exclusive, one wakes.
WakeProc(p) ==
    IF Sleepers(p) = {} THEN asleep' = asleep
    ELSE \E u \in Sleepers(p) : asleep' = asleep \ {u}

\* BUG_ON: the first assertion to fail is recorded.
BugOn(cond, name) == bug' = IF bug = "none" /\ cond THEN name ELSE bug

\* binder_main_lock is free.
Unlocked == exiting = NULL /\ closing = NULL

\* Thread th is in user space and may enter the driver.
Running(th) == Unlocked /\ ProcOf[th] \in alive /\ wait[th] = "no"

\* ... with a write buffer: binder_thread_write stops at a pending error.
CanWrite(th) == Running(th) /\ return_error[th] = "OK"

\* binder_get_thread: the first ioctl of a thread creates its binder_thread.
GetThread(th) == threads' = threads \cup {th}

\* The buffers that the transactions of S point to forget their transaction.
Detach_Forgotten(bf, tx, S) == bf
Detach(bf, tx, S) ==
    [b \in Buf |-> IF \E x \in S : tx[x].buffer = b
                   THEN [bf[b] EXCEPT !.transaction = NULL] ELSE bf[b]]

Kfree(tx, S) == [x \in Txn |-> IF x \in S THEN NoTxn ELSE tx[x]]

-----------------------------------------------------------------------------
(* binder_send_failed_reply *)

\* Transactions whose caller is gone are popped on the way to the first one
\* that still has a caller, along from_parent.
FailedChain_OneLevel(t, tx) == {t}
FailedChain(t, tx) ==
    Walk(t, [x \in Txn |-> IF tx[x].from = NULL THEN tx[x].from_parent ELSE NULL])

\* The two error slots of thread u, re being return_error.
MovesError_Never(u, re) == FALSE
MovesError(u, re) == re[u] # "OK" /\ return_error2[u] = "OK"
BothErrors(u, re) == re[u] # "OK" /\ return_error2[u] # "OK"

\* The caller is told in return_error; a code that is still there moves to
\* return_error2 first.  stk and re are the stacks and the error slots at the
\* time of the call, tx and bf the transactions and buffers.
binder_send_failed_reply(t, code, tx, bf, stk, re) ==
    LET chain == FailedChain(t, tx)
        gone  == {x \in chain : tx[x].from = NULL}
        found == chain \ gone
        x == CHOOSE y \in found : TRUE
        u == tx[x].from
        full == BothErrors(u, re)
        freed == IF found = {} \/ full THEN gone ELSE chain
    IN /\ txn' = Kfree(tx, freed)
       /\ buf' = Detach(bf, tx, freed)
       /\ IF found = {} \/ full
          THEN /\ stack' = stk
               /\ return_error' = re
               /\ UNCHANGED <<return_error2, asleep>>
          ELSE /\ stack' = [stk EXCEPT ![u] = tx[x].from_parent]
               /\ return_error' = [re EXCEPT ![u] = code]
               /\ return_error2' = IF MovesError(u, re)
                                   THEN [return_error2 EXCEPT ![u] = re[u]]
                                   ELSE return_error2
               /\ asleep' = Woken(u)
       /\ bug' = IF bug # "none" THEN bug
                 ELSE IF tx[t].kind # "call" THEN "failed reply to one-way"
                 ELSE IF found # {} /\ full THEN "has error code already"
                 ELSE IF found # {} /\ stk[u] # x THEN "pop: not on top"
                 ELSE "none"

-----------------------------------------------------------------------------
(* BC_TRANSACTION *)

\* A synchronous call must be made with an empty stack or while the thread
\* serves the transaction on top.
BadCallStack_Unchecked(th) == FALSE
BadCallStack(th) == stack[th] # NULL /\ txn[stack[th]].to_thread # th

\* The thread of p that waits, further up the chain of calls, for the result of
\* one of them, the last one the loop over from_parent meets; or none.
TargetThread_Any(th, p) == {NULL}
TargetThread(th, p) ==
    LET chain(t) == Walk(t, [x \in Txn |-> txn[x].from_parent])
        waiting == {x \in chain(stack[th]) :
                        txn[x].from # NULL /\ ProcOf[txn[x].from] = p}
        last == {x \in waiting : \A y \in waiting : x \in chain(y)}
    IN IF waiting = {} THEN {NULL} ELSE {txn[x].from : x \in last}

\* kzalloc of the transaction, of its tcomplete, and binder_alloc_buf succeed.
CanAllocate(th, t, b) ==
    /\ txn[t].kind = "none"
    /\ Len(todo[th]) < MaxTodo
    /\ buf[b].proc = NULL

NewBuffer(p, t, node, async) ==
    [proc |-> p, transaction |-> t, target_node |-> node, async |-> async,
     allow_user_free |-> FALSE]

\* binder_transaction up to the allocation of the transaction and its buffer.
CanTransact(th, p, t, b) ==
    /\ CanWrite(th)
    /\ p \in alive
    /\ CanAllocate(th, t, b)

\* A synchronous call of th on the node of process p.
Transact(th, p, t, b) ==
    /\ <<th, p>> \in Calls
    /\ CanTransact(th, p, t, b)
    /\ ~BadCallStack(th)
    /\ GetThread(th)
    /\ buf' = [buf EXCEPT ![b] = NewBuffer(p, t, p, FALSE)]
    /\ stack' = [stack EXCEPT ![th] = t]
    /\ \E u \in TargetThread(th, p) :
          LET queued == [todo EXCEPT ![th] = Append(@, COMPLETE)]
          IN /\ txn' = [txn EXCEPT ![t] =
                    [kind |-> "call", from |-> th, from_parent |-> stack[th],
                     to_thread |-> u, to_parent |-> NULL, buffer |-> b]]
             /\ IF u # NULL
                THEN /\ todo' = [queued EXCEPT ![u] = Append(@, t)]
                     /\ asleep' = Woken(u)
                     /\ UNCHANGED proc_todo
                ELSE /\ todo' = queued
                     /\ proc_todo' = [proc_todo EXCEPT ![p] = Append(@, t)]
                     /\ WakeProc(p)
    /\ UNCHANGED <<alive, return_error, return_error2, wait, has_async, async_todo,
                   lockVars, bug>>

\* A one-way call on the node of p is in progress.
Busy_Never(p) == FALSE
Busy(p) == has_async[p]

\* A TF_ONE_WAY call: while another one is in progress on the node it waits in
\* the node's own queue, and nobody is woken.
TransactOneWay(th, p, t, b) ==
    /\ <<th, p>> \in OneWays
    /\ CanTransact(th, p, t, b)
    /\ GetThread(th)
    /\ txn' = [txn EXCEPT ![t] = [NoTxn EXCEPT !.kind = "oneway", !.buffer = b]]
    /\ buf' = [buf EXCEPT ![b] = NewBuffer(p, t, p, TRUE)]
    /\ todo' = [todo EXCEPT ![th] = Append(@, COMPLETE)]
    /\ has_async' = [has_async EXCEPT ![p] = TRUE]
    /\ IF Busy(p)
       THEN /\ async_todo' = [async_todo EXCEPT ![p] = Append(@, t)]
            /\ UNCHANGED <<proc_todo, asleep>>
       ELSE /\ proc_todo' = [proc_todo EXCEPT ![p] = Append(@, t)]
            /\ WakeProc(p)
            /\ UNCHANGED async_todo
    /\ UNCHANGED <<alive, stack, return_error, return_error2, wait, lockVars,
                   bug>>

\* A call that fails before anything is queued: a bad handle or call stack, no
\* memory, a bad object in the data (FAILED), or a dead target (DEAD).
TransactFail(th) ==
    /\ CanWrite(th)
    /\ GetThread(th)
    /\ \E code \in {"FAILED"} \cup (IF alive = Proc THEN {} ELSE {"DEAD"}) :
           return_error' = [return_error EXCEPT ![th] = code]
    /\ UNCHANGED <<alive, stack, todo, return_error2, wait, asleep, nodeVars,
                   memVars, lockVars, bug>>

-----------------------------------------------------------------------------
(* BC_REPLY *)

\* The thread serves the transaction on top of its stack.
Serves(th) == stack[th] # NULL /\ txn[stack[th]].to_thread = th

\* No transaction to reply to.
ReplyNoCall(th) ==
    /\ CanWrite(th)
    /\ ~Serves(th)
    /\ GetThread(th)
    /\ return_error' = [return_error EXCEPT ![th] = "FAILED"]
    /\ UNCHANGED <<alive, stack, todo, return_error2, wait, asleep, nodeVars,
                   memVars, lockVars, bug>>

\* The transaction to reply to has left the stack before anything can fail.
StackAfterReply(th) == [stack EXCEPT ![th] = txn[stack[th]].to_parent]

\* The error path of a reply: the replying thread sees BR_TRANSACTION_COMPLETE,
\* the caller sees the error.
ReplyError(th, code) ==
    /\ binder_send_failed_reply(stack[th], code, txn, buf, StackAfterReply(th),
                                [return_error EXCEPT ![th] = "COMPLETE"])
    /\ UNCHANGED <<alive, todo, wait, nodeVars, lockVars>>

\* The caller died: BR_DEAD_REPLY goes to whoever waits further up the chain.
ReplyCallerDead(th) ==
    /\ CanWrite(th)
    /\ Serves(th)
    /\ txn[stack[th]].from = NULL
    /\ GetThread(th)
    /\ ReplyError(th, "DEAD")

\* The reply does not fit in the caller's buffer area, or its data is bad.
ReplyFail(th) ==
    /\ CanWrite(th)
    /\ Serves(th)
    /\ txn[stack[th]].from # NULL
    /\ GetThread(th)
    /\ ReplyError(th, "FAILED")

\* binder_pop_transaction of the call, and the reply is queued for the caller.
\* (That the caller's stack has the call on top is checked by the driver: were
\* it not so the replying thread would get the error and the caller nothing.)
Reply(th, t, b) ==
    LET r == stack[th]
        u == txn[r].from
        match == StackAfterReply(th)[u] = r
    IN /\ CanWrite(th)
       /\ Serves(th)
       /\ u # NULL
       /\ CanAllocate(th, t, b)
       /\ GetThread(th)
       /\ BugOn(~match, "bad target transaction stack")
       /\ IF match
          THEN /\ stack' = [StackAfterReply(th) EXCEPT ![u] = txn[r].from_parent]
               /\ txn' = [Kfree(txn, {r}) EXCEPT ![t] =
                            [NoTxn EXCEPT !.kind = "reply", !.to_thread = u,
                                          !.buffer = b]]
               /\ buf' = [Detach(buf, txn, {r}) EXCEPT ![b] =
                            NewBuffer(ProcOf[u], t, NULL, FALSE)]
               /\ todo' = [[todo EXCEPT ![u] = Append(@, t)]
                              EXCEPT ![th] = Append(@, COMPLETE)]
               /\ asleep' = Woken(u)
               /\ UNCHANGED return_error
          ELSE /\ stack' = StackAfterReply(th)
               /\ return_error' = [return_error EXCEPT ![th] = "FAILED"]
               /\ UNCHANGED <<todo, asleep, memVars>>
       /\ UNCHANGED <<alive, return_error2, wait, nodeVars, lockVars>>

-----------------------------------------------------------------------------
(* BC_FREE_BUFFER *)

\* The one-way call that is over makes room for the next one of the node, if
\* any, which moves to the todo list of the thread that frees.
NextAsync_NoReset(th, n) ==
    /\ IF async_todo[n] = <<>>
       THEN UNCHANGED <<async_todo, todo>>
       ELSE /\ async_todo' = [async_todo EXCEPT ![n] = Tail(@)]
            /\ todo' = [todo EXCEPT ![th] = Append(@, Head(async_todo[n]))]
    /\ UNCHANGED has_async
NextAsync(th, n) ==
    IF async_todo[n] = <<>>
    THEN /\ has_async' = [has_async EXCEPT ![n] = FALSE]
         /\ UNCHANGED <<async_todo, todo>>
    ELSE /\ async_todo' = [async_todo EXCEPT ![n] = Tail(@)]
         /\ todo' = [todo EXCEPT ![th] = Append(@, Head(async_todo[n]))]
         /\ UNCHANGED has_async

\* The user is done with the data of a transaction.
FreeBuffer(th, b) ==
    LET t == buf[b].transaction
        n == buf[b].target_node
        async == buf[b].async /\ n # NULL
    IN /\ CanWrite(th)
       /\ buf[b].proc = ProcOf[th]
       /\ buf[b].allow_user_free
       /\ GetThread(th)
       /\ BugOn(async /\ ~has_async[n], "free: no async transaction")
       /\ txn' = IF t = NULL THEN txn ELSE [txn EXCEPT ![t].buffer = NULL]
       /\ buf' = [buf EXCEPT ![b] = NoBuf]
       /\ IF async THEN NextAsync(th, n)
          ELSE UNCHANGED <<has_async, async_todo, todo>>
       /\ UNCHANGED <<alive, stack, return_error, return_error2, wait, asleep,
                      proc_todo, lockVars>>

-----------------------------------------------------------------------------
(* binder_thread_read *)

\* binder_has_thread_work, without BINDER_LOOPER_STATE_NEED_RETURN.
binder_has_thread_work(th) == todo[th] # <<>> \/ return_error[th] # "OK"

\* binder_has_proc_work, likewise.
binder_has_proc_work(p) == proc_todo[p] # <<>>

\* The condition that ends the wait of th.
HasWork(th) ==
    IF wait[th] = "proc" THEN binder_has_proc_work(ProcOf[th])
                         ELSE binder_has_thread_work(th)

\* The read of th holds the lock again after its wait.
Awake(th) == Unlocked /\ wait[th] # "no" /\ th \notin asleep

\* The list the read loop finds work in once the wait is over.
NoItem(th) == todo[th] = <<>> /\ (wait[th] = "proc" => proc_todo[ProcOf[th]] = <<>>)

\* The first part of a read, or "goto retry" when another thread took the work.
AtRetry(th) == Running(th) \/ (Awake(th) /\ NoItem(th))

\* wait_for_proc_work is computed under the lock and used after it was dropped.
WaitQueue_StackOnly(th) == IF stack[th] = NULL THEN "proc" ELSE "thread"
WaitQueue(th) == IF stack[th] = NULL /\ todo[th] = <<>> THEN "proc" ELSE "thread"

ReadWait(th) ==
    /\ AtRetry(th)
    /\ return_error[th] = "OK"
    /\ GetThread(th)
    /\ wait' = [wait EXCEPT ![th] = WaitQueue(th)]
    /\ UNCHANGED <<alive, stack, todo, return_error, return_error2, asleep,
                   nodeVars, memVars, lockVars, bug>>

\* wait_event: the thread sleeps when its condition does not hold.
ReadSleep(th) ==
    /\ Awake(th)
    /\ ~HasWork(th)
    /\ asleep' = asleep \cup {th}
    /\ UNCHANGED <<alive, threads, stack, todo, return_error, return_error2, wait,
                   nodeVars, memVars, lockVars, bug>>

\* binder_ioctl_write_read after a read: another thread is woken when there
\* is still work for the process.  rest is proc->todo at that point.
ReadReturn_NoRewake(th, rest) ==
    /\ wait' = [wait EXCEPT ![th] = "no"]
    /\ asleep' = asleep \ {th}
ReadReturn(th, rest) ==
    /\ wait' = [wait EXCEPT ![th] = "no"]
    /\ IF rest = <<>> THEN asleep' = asleep \ {th}
       ELSE LET others == Sleepers(ProcOf[th]) \ {th}
            IN IF others = {} THEN asleep' = asleep \ {th}
               ELSE \E u \in others : asleep' = asleep \ {th, u}

\* Pending errors are returned first, the older one in front.
ReadError(th) ==
    /\ AtRetry(th)
    /\ return_error[th] # "OK"
    /\ GetThread(th)
    /\ return_error' = [return_error EXCEPT ![th] = "OK"]
    /\ return_error2' = [return_error2 EXCEPT ![th] = "OK"]
    /\ ReadReturn(th, proc_todo[ProcOf[th]])
    /\ UNCHANGED <<alive, stack, todo, nodeVars, memVars, lockVars, bug>>

\* BR_TRANSACTION_COMPLETE.  The loop goes on to the next item of the thread when
\* the buffer has room for it; here that is another read.
ReadComplete(th) ==
    /\ Awake(th)
    /\ todo[th] # <<>>
    /\ Head(todo[th]) = COMPLETE
    /\ todo' = [todo EXCEPT ![th] = Tail(@)]
    /\ ReadReturn(th, proc_todo[ProcOf[th]])
    /\ UNCHANGED <<alive, threads, stack, return_error, return_error2, nodeVars,
                   memVars, lockVars, bug>>

\* BR_TRANSACTION or BR_REPLY for transaction t: a call is pushed on the
\* stack, a one-way call or a reply is over and only its buffer stays.
Deliver(th, t) ==
    LET b == txn[t].buffer
        call == buf[b].target_node # NULL /\ txn[t].kind # "oneway"
    IN /\ BugOn(b = NULL, "read: no buffer")
       /\ IF b = NULL THEN UNCHANGED <<txn, buf, stack>>
          ELSE /\ buf' = [buf EXCEPT ![b].allow_user_free = TRUE,
                                     ![b].transaction = IF call THEN @ ELSE NULL]
               /\ txn' = IF call
                         THEN [txn EXCEPT ![t].to_parent = stack[th],
                                          ![t].to_thread = th]
                         ELSE Kfree(txn, {t})
               /\ stack' = IF call THEN [stack EXCEPT ![th] = t] ELSE stack

\* Work of the thread itself ...
ReadThreadWork(th) ==
    /\ Awake(th)
    /\ todo[th] # <<>>
    /\ Head(todo[th]) # COMPLETE
    /\ Deliver(th, Head(todo[th]))
    /\ todo' = [todo EXCEPT ![th] = Tail(@)]
    /\ ReadReturn(th, proc_todo[ProcOf[th]])
    /\ UNCHANGED <<alive, threads, return_error, return_error2, nodeVars, lockVars>>

\* ... comes before work of the process, which only a thread that waited for
\* it may take.
ReadProcWork(th) ==
    LET p == ProcOf[th]
    IN /\ Awake(th)
       /\ todo[th] = <<>>
       /\ wait[th] = "proc"
       /\ proc_todo[p] # <<>>
       /\ Deliver(th, Head(proc_todo[p]))
       /\ proc_todo' = [proc_todo EXCEPT ![p] = Tail(@)]
       /\ ReadReturn(th, Tail(proc_todo[p]))
       /\ UNCHANGED <<alive, threads, todo, return_error, return_error2, has_async,
                      async_todo, lockVars>>

\* A signal, BINDER_LOOPER_STATE_NEED_RETURN (flush), or O_NONBLOCK ends the
\* wait and the read returns nothing.
ReadInterrupted(th) ==
    /\ Unlocked
    /\ wait[th] # "no"
    /\ ReadReturn(th, proc_todo[ProcOf[th]])
    /\ UNCHANGED <<alive, threads, stack, todo, return_error, return_error2,
                   nodeVars, memVars, lockVars, bug>>

-----------------------------------------------------------------------------
(* binder_free_thread, binder_deferred_release *)

\* The transactions the loop over the stack of th visits.
ActiveTransactions_TopOnly(th) == {stack[th]} \cap Txn
ActiveTransactions(th) ==
    Walk(stack[th], [x \in Txn |-> IF txn[x].to_thread = th THEN txn[x].to_parent
                                                            ELSE txn[x].from_parent])

\* binder_free_thread: the thread leaves the transactions of its stack, and a
\* call it was serving fails.  Its todo list is released item by item.
StartFreeThread(th) ==
    LET active == ActiveTransactions(th)
        in == {x \in active : txn[x].to_thread = th}
        tx == [x \in Txn |->
                 IF x \in in THEN [txn[x] EXCEPT !.to_thread = NULL, !.buffer = NULL]
                 ELSE IF x \in active THEN [txn[x] EXCEPT !.from = NULL]
                 ELSE txn[x]]
        bf == Detach(buf, txn, in)
    IN /\ exiting' = th
       /\ IF \E x \in active \ in : txn[x].from # th
          THEN /\ bug' = IF bug = "none" THEN "free thread: BUG" ELSE bug
               /\ UNCHANGED <<memVars, stack, return_error, return_error2, asleep>>
          ELSE IF stack[th] \in in
          THEN binder_send_failed_reply(stack[th], "DEAD", tx, bf, stack, return_error)
          ELSE /\ txn' = tx
               /\ buf' = bf
               /\ UNCHANGED <<stack, return_error, return_error2, asleep, bug>>
       /\ UNCHANGED <<alive, todo, wait, nodeVars, closing>>

\* BINDER_THREAD_EXIT
ThreadExit(th) ==
    /\ th \in Exits
    /\ Running(th)
    /\ GetThread(th)
    /\ StartFreeThread(th)

\* One item of binder_release_work.
ReleaseItem(w) ==
    IF w = COMPLETE
    THEN UNCHANGED <<memVars, stack, return_error, return_error2, asleep, bug>>
    ELSE LET b == txn[w].buffer
         IN IF b = NULL
            THEN /\ bug' = IF bug = "none" THEN "release: no buffer" ELSE bug
                 /\ UNCHANGED <<memVars, stack, return_error, return_error2, asleep>>
            ELSE IF buf[b].target_node # NULL /\ txn[w].kind # "oneway"
            THEN binder_send_failed_reply(w, "DEAD", txn, buf, stack, return_error)
            ELSE /\ txn' = Kfree(txn, {w})
                 /\ buf' = Detach(buf, txn, {w})
                 /\ UNCHANGED <<stack, return_error, return_error2, asleep, bug>>

\* binder_release_work(&thread->todo)
ReleaseThreadWork(th) ==
    /\ exiting = th
    /\ todo[th] # <<>>
    /\ ReleaseItem(Head(todo[th]))
    /\ todo' = [todo EXCEPT ![th] = Tail(@)]
    /\ UNCHANGED <<alive, threads, wait, nodeVars, lockVars>>

\* kfree(thread)
FinishFreeThread(th) ==
    /\ exiting = th
    /\ todo[th] = <<>>
    /\ exiting' = NULL
    /\ threads' = threads \ {th}
    /\ stack' = [stack EXCEPT ![th] = NULL]
    /\ return_error' = [return_error EXCEPT ![th] = "OK"]
    /\ return_error2' = [return_error2 EXCEPT ![th] = "OK"]
    /\ UNCHANGED <<alive, todo, wait, asleep, nodeVars, memVars, closing, bug>>

\* The last reference to the open file is gone: no thread of p is in the driver.
StartRelease(p) ==
    /\ Unlocked
    /\ p \in alive \cap Dies
    /\ \A th \in ThreadsOf(p) : wait[th] = "no"
    /\ closing' = p
    /\ UNCHANGED <<alive, threads, threadVars, nodeVars, memVars, exiting, bug>>

Closing(p) == closing = p /\ exiting = NULL

\* Every thread of p goes first.
ReleaseThread(p, th) ==
    /\ Closing(p)
    /\ th \in ThreadsOf(p) \cap threads
    /\ StartFreeThread(th)
    /\ UNCHANGED threads

\* Then the node: binder_release_work(&node->async_todo).
ReleaseAsyncWork(p) ==
    /\ Closing(p)
    /\ ThreadsOf(p) \cap threads = {}
    /\ async_todo[p] # <<>>
    /\ ReleaseItem(Head(async_todo[p]))
    /\ async_todo' = [async_todo EXCEPT ![p] = Tail(@)]
    /\ UNCHANGED <<alive, threads, todo, wait, proc_todo, has_async, lockVars>>

\* Then binder_release_work(&proc->todo).
ReleaseProcWork(p) ==
    /\ Closing(p)
    /\ ThreadsOf(p) \cap threads = {}
    /\ async_todo[p] = <<>>
    /\ proc_todo[p] # <<>>
    /\ ReleaseItem(Head(proc_todo[p]))
    /\ proc_todo' = [proc_todo EXCEPT ![p] = Tail(@)]
    /\ UNCHANGED <<alive, threads, todo, wait, has_async, async_todo, lockVars>>

\* Last the buffers, and the process itself.
BuffersGone(p) ==
    /\ txn' = [x \in Txn |->
                 IF \E b \in Buf : buf[b].proc = p /\ buf[b].transaction = x
                 THEN [txn[x] EXCEPT !.buffer = NULL] ELSE txn[x]]
    /\ buf' = [b \in Buf |-> IF buf[b].proc = p THEN NoBuf ELSE buf[b]]
    /\ BugOn(\E b \in Buf : buf[b].proc = p /\ buf[b].transaction # NULL,
             "release proc: transaction not freed")

FinishRelease(p) ==
    /\ Closing(p)
    /\ ThreadsOf(p) \cap threads = {}
    /\ async_todo[p] = <<>>
    /\ proc_todo[p] = <<>>
    /\ BuffersGone(p)
    /\ has_async' = [has_async EXCEPT ![p] = FALSE]
    /\ alive' = alive \ {p}
    /\ closing' = NULL
    /\ UNCHANGED <<threads, threadVars, proc_todo, async_todo, exiting>>

-----------------------------------------------------------------------------
Write(th) ==
    \/ \E t \in Txn, b \in Buf, p \in Proc :
           Transact(th, p, t, b) \/ TransactOneWay(th, p, t, b)
    \/ \E t \in Txn, b \in Buf : Reply(th, t, b)
    \/ \E b \in Buf : FreeBuffer(th, b)
    \/ TransactFail(th)
    \/ ReplyNoCall(th)
    \/ ReplyCallerDead(th)
    \/ ReplyFail(th)

Read(th) ==
    \/ ReadWait(th)
    \/ ReadSleep(th)
    \/ ReadError(th)
    \/ ReadComplete(th)
    \/ ReadThreadWork(th)
    \/ ReadProcWork(th)
    \/ ReadInterrupted(th)

FreeThread(th) == ReleaseThreadWork(th) \/ FinishFreeThread(th)

Release(p) ==
    \/ StartRelease(p)
    \/ \E th \in Thread : ReleaseThread(p, th)
    \/ ReleaseAsyncWork(p)
    \/ ReleaseProcWork(p)
    \/ FinishRelease(p)

Next ==
    \/ \E th \in Thread : Write(th) \/ Read(th) \/ ThreadExit(th) \/ FreeThread(th)
    \/ \E p \in Proc : Release(p)

Spec == Init /\ [][Next]_vars

-----------------------------------------------------------------------------
(* Liveness *)

\* A read as the programs do it.  libbinder (IPCThreadState::waitForResponse,
\* joinThreadPool) and binder_loop do not block in the driver while they serve
\* a call, unless there is something to read, and free the data they received
\* before they wait for the next call.  (The model does not record which thread
\* received a buffer, so a thread also waits for those of its process.)
ProgramReads(th) ==
    /\ Serves(th) => binder_has_thread_work(th)
    /\ stack[th] = NULL /\ todo[th] = <<>> =>
           ~\E b \in Buf : buf[b].proc = ProcOf[th] /\ buf[b].allow_user_free
    /\ ReadWait(th)

Answer(th) ==
    \/ ReplyCallerDead(th)
    \/ ReplyFail(th)
    \/ \E t \in Txn, b \in Buf : Reply(th, t, b)

FreesBuffer(th) == \E b \in Buf : FreeBuffer(th, b)

\* Programs that keep to the protocol and are not interrupted: a thread of a
\* thread pool makes calls only from the handler of a call.
LiveNext ==
    \/ \E th \in Thread :
          \/ /\ th \in Loopers => Serves(th)
             /\ \E t \in Txn, b \in Buf, p \in Proc :
                    Transact(th, p, t, b) \/ TransactOneWay(th, p, t, b)
          \/ Answer(th)
          \/ FreesBuffer(th)
          \/ ProgramReads(th)
          \/ ReadSleep(th)
          \/ ReadError(th)
          \/ ReadComplete(th)
          \/ ReadThreadWork(th)
          \/ ReadProcWork(th)
          \/ FreeThread(th)
    \/ \E p \in Proc : Release(p)

Fairness ==
    /\ \A th \in Thread :
          /\ SF_vars(ProgramReads(th))
          /\ \A t \in Txn : SF_vars(stack[th] = t /\ Answer(th))
          /\ SF_vars(FreesBuffer(th))
          /\ WF_vars(ReadError(th))
          /\ WF_vars(ReadComplete(th))
          /\ WF_vars(ReadThreadWork(th))
          /\ WF_vars(ReadProcWork(th))
          /\ WF_vars(FreeThread(th))
    /\ \A p \in Proc : WF_vars(Closing(p) /\ Release(p))

LiveSpec == Init /\ [][LiveNext]_vars /\ Fairness

-----------------------------------------------------------------------------
(* Properties *)

\* Every variable of the driver keeps its type: no step stores a pointer of the
\* wrong kind in a stack, a list, a transaction or a buffer.
TypeOK ==
    /\ alive \in SUBSET Proc
    /\ threads \in SUBSET Thread
    /\ stack \in [Thread -> Txn \cup {NULL}]
    /\ todo \in [Thread -> Seq(Work)]
    /\ return_error \in [Thread -> Errors]
    /\ return_error2 \in [Thread -> Errors]
    /\ wait \in [Thread -> {"no", "proc", "thread"}]
    /\ asleep \in SUBSET Thread
    /\ proc_todo \in [Proc -> Seq(Txn)]
    /\ has_async \in [Proc -> BOOLEAN]
    /\ async_todo \in [Proc -> Seq(Txn)]
    /\ txn \in [Txn -> TxnRec]
    /\ buf \in [Buf -> BufRec]
    /\ exiting \in Thread \cup {NULL}
    /\ closing \in Proc \cup {NULL}
    /\ bug \in Bugs

Items(q) == {q[i] : i \in DOMAIN q}
Allocated == {t \in Txn : txn[t].kind # "none"}
Callers(t) == Walk(t, [x \in Txn |-> txn[x].from_parent])

\* No assertion of the driver fails: the BUG_ONs of binder_pop_transaction,
\* binder_send_failed_reply, BC_FREE_BUFFER and binder_thread_read, the BUG() of
\* binder_free_thread, the buffer that binder_release_work dereferences, and
\* three conditions the driver only logs: a reply whose caller has another
\* transaction on top, a caller with both error slots taken, and a buffer of a
\* dead process that still has a transaction.
NoBug == bug = "none"

\* The places of t in the lists.
Places(t) ==
    LET At(q) == {i \in DOMAIN q : q[i] = t}
    IN (UNION {{<<"thread", th, i>> : i \in At(todo[th])} : th \in Thread})
       \cup (UNION {{<<"proc", p, i>> : i \in At(proc_todo[p])} : p \in Proc})
       \cup (UNION {{<<"node", p, i>> : i \in At(async_todo[p])} : p \in Proc})

\* What a stack, a list or a transaction points to has not been freed, and a transaction
\* that is not delivered is on one list, a delivered one on none: work is neither lost
\* nor doubled, whoever takes it and whoever goes meanwhile.  (Nobody reads the stack
\* of the thread that binder_free_thread has taken apart.)
NoDangling ==
    /\ \A th \in threads \ {exiting} : stack[th] \in Allocated \cup {NULL}
    /\ \A th \in Thread : Items(todo[th]) \subseteq Allocated \cup {COMPLETE}
    /\ \A p \in Proc : Items(proc_todo[p]) \cup Items(async_todo[p]) \subseteq Allocated
    /\ \A t \in Allocated :
          /\ {txn[t].from_parent, txn[t].to_parent} \subseteq Allocated \cup {NULL}
          /\ {txn[t].from, txn[t].to_thread} \subseteq threads \cup {NULL}
          /\ LET undelivered == txn[t].buffer # NULL /\ ~buf[txn[t].buffer].allow_user_free
             IN Cardinality(Places(t)) = IF undelivered THEN 1 ELSE 0

\* t->buffer and buffer->transaction are inverse to each other, so neither
\* outlives what it points to: BC_FREE_BUFFER, a reply and a teardown all clear
\* the other side.
BufferOfTransaction ==
    \A t \in Txn, b \in Buf : txn[t].buffer = b <=> buf[b].transaction = t

\* A thread that waits for its own work does not sleep when there is some:
\* every path that queues a reply or a nested call, or stores an error, wakes it.
ThreadWorkWakes ==
    \A th \in asleep : wait[th] = "thread" => ~binder_has_thread_work(th)

\* A thread that decided, before it dropped the lock, to wait for work of the
\* process has no work of its own: nothing that arrives later (a reply, a nested
\* call, an error) can be for it, and it would not be woken for it.
NoStaleWait ==
    \A th \in Thread : wait[th] = "proc" =>
        stack[th] = NULL /\ ~binder_has_thread_work(th)

\* Work of a process is not left to threads that all sleep: one of the threads
\* that wait for it is awake, although a wake_up wakes only one of them and that
\* one may be interrupted or find the work taken.
ProcWorkHasReader ==
    \A p \in Proc : proc_todo[p] # <<>> /\ Sleepers(p) # {}
        => \E th \in ThreadsOf(p) \ asleep : wait[th] = "proc"

\* A call into a process that takes part in the chain of calls is served by the
\* thread of that process that waits further up the chain, never by another
\* one (IBinder.java: "the thread in A that is currently waiting ... will take
\* care of calling Binder.onTransact()").
ServedByWaitingThread ==
    /\ \A t \in Allocated : txn[t].kind = "call" /\ txn[t].to_thread # NULL =>
          \A x \in Callers(txn[t].from_parent) :
             txn[x].from # NULL /\ ProcOf[txn[x].from] = ProcOf[txn[t].to_thread]
                 => txn[x].from = txn[t].to_thread
    /\ \A p \in Proc : \A t \in Items(proc_todo[p]) :
          \A x \in Callers(txn[t].from_parent) :
             txn[x].from # NULL => ProcOf[txn[x].from] # p

\* The buffers of one-way calls on the node of p that are not in its queue.
ActiveAsync(p) ==
    {b \in Buf : /\ buf[b].async
                 /\ buf[b].target_node = p
                 /\ buf[b].transaction \notin Items(async_todo[p])}

\* One-way calls on a node are handled one at a time, and the queue of the node does not
\* stall: has_async_transaction is set exactly while one call is out of the queue, and the
\* buffer of that call will be freed, for the call is on a list or the program has it.
\* (A thread that exits with the call on its list takes it along and leaves the buffer.
\* Not while the process is torn down.)
AsyncSerial ==
    \A p \in alive \ {closing} :
        /\ Cardinality(ActiveAsync(p)) = IF has_async[p] THEN 1 ELSE 0
        /\ async_todo[p] # <<>> => has_async[p]
        /\ \A b \in ActiveAsync(p) :
              \/ buf[b].transaction # NULL \/ buf[b].allow_user_free
              \/ Exits \cap ThreadsOf(p) # {}

\* A step that overwrites an unread error moves it to return_error2.
KeepsErrors ==
    \A th \in Thread :
        return_error[th] # "OK" /\ return_error'[th] \notin {"OK", return_error[th]}
            => return_error2'[th] = return_error[th]

\* An error that a thread has not read yet is not lost when a second one arrives:
\* it first moves to return_error2 ("Used when sending a reply to a dead process
\* that we are also waiting on").
ErrorNotLost == [][KeepsErrors]_vars

\* Every synchronous call is answered, with a reply or an error, also when the
\* process that serves it dies.
CallAnswered ==
    \A th \in Thread, t \in Txn : (txn[t].from = th) ~> (txn[t].from # th)

\* Every one-way call is delivered.
OneWayDelivered ==
    \A t \in Txn : (txn[t].kind = "oneway") ~> (txn[t].kind # "oneway")
=============================================================================
