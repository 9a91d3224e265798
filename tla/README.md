# Binder IPC: a TLA+ verification project

The repository is a set of study notes around one body of code, the four layers of
Android's binder IPC under `2 FrameWork与Android内核/1 FrameWork通信/Binder4层源码`:
the kernel driver (`driver/binder.c`), the native library and servicemanager
(`native/`), the JNI glue (`jni/`) and the Java framework (`framework/`). This
directory holds TLA+ models of that code, the TLC runs that check them and TLAPS
proofs about them. Everything else in the repository (articles, images, copies of
`init.rc`) has no program of its own.

Line numbers below are those of the file named; `binder.c` without a directory is
the driver.

## 1. Inventory

| Component | State | Operations | What is hard |
|---|---|---|---|
| Driver: transactions (`binder.c` 1186–1738, 1876–1916, 2127–2577, 3055–3158) | transaction stacks, `todo` lists of threads and processes, two error slots per thread, `async_todo` and `has_async_transaction` of a node, wait queues | `BC_TRANSACTION`, `BC_REPLY`, `BC_FREE_BUFFER`, reads, `BINDER_THREAD_EXIT`, close | nested calls, lost wakeups, pointers to freed threads and transactions, one-way serialisation, deaths in the middle of a chain |
| Driver: buffer allocator (452–864, 2805–2936) | buffer list, free tree, allocated tree, mapped pages, `free_async_space` | `binder_mmap`, `binder_alloc_buf`, `binder_free_buf`, close | shared pages, merging, size overflow, failure half-way |
| Driver: nodes and references (866–1167, 1239–1314, 1527–1669, 1761–1868, 2250–2318, 2679–2713, 3011–3053) | five counts and four flags per node, two counts per reference, work lists, the context manager | `BC_INCREFS` … `BC_DECREFS`, `BC_*_DONE`, objects in transactions, freeing of buffers | counts that are taken in one handler and given back in another, reuse of handles, the order in which an owner is told |
| Driver: death notifications (1089–1112, 1965–2091, 2319–2354, 2453–2501) | `ref->death`, work lists, `delivered_death` | request, clear, done, delivery | three possible owners of one allocation |
| Driver: looper state (1929–1964, 2168–2206, 2434–2449, 2971–2999) | `requested_threads`, `requested_threads_started`, `ready_threads`, looper flags | `BC_REGISTER_LOOPER`, `BC_ENTER_LOOPER`, `BR_SPAWN_LOOPER`, flush | counters that outlive the threads they count |
| `IPCThreadState` | `mIn`, `mOut`, pending dereferences | `talkWithDriver`, `executeCommand`, `joinThreadPool`, `stopProcess` | commands executed long after they were read |
| `ProcessState` | handle table, pool flags | `getStrongProxyForHandle`, `getWeakProxyForHandle`, `expungeHandle`, `startThreadPool`, `spawnPooledThread` | a proxy that is looked up while it is deleted |
| `BpBinder` | `mAlive`, `mObitsSent`, `mObituaries`, attached objects, two reference counts | `transact`, `onFirstRef`, `onLastStrongRef`, `linkToDeath`, `unlinkToDeath`, `sendObituary` | callbacks outside the lock, a raw pointer as the driver's cookie, commands that each thread writes later |
| servicemanager (`service_manager.c` on `native/binder.c`) | `svclist` | add, find, list, death of a service | override, handle reuse, several writes per request |
| `bio_*` (`native/binder.c` 432–662, `bctest.c`) | cursor and space of a message | put, get | overflow flag |
| JNI proxies (`jni/android_util_Binder.cpp` 363–620, 1172–1271) | the `BinderProxy` attached to a `BpBinder`, `DeathRecipientList`, `JavaDeathRecipient` with its JNI reference | `javaObjectForIBinder`, `linkToDeath`, `unlinkToDeath`, `binderDied`, `destroy` | weak pointers across two collectors, a list that is searched while a reference in it is deleted |
| Other JNI (`JavaBBinderHolder`, `android_os_Parcel.cpp`, `AndroidRuntime.cpp`) | the weak pointer of a holder | get, marshal, start | little of its own |
| Java framework | service cache, weak proxy map | forwarding | little of its own |

The components interact through the driver. Programs write `BC_` commands and read
`BR_` commands with one ioctl; inside the driver all components share the work lists
and one global lock (`binder_main_lock`), which a read drops only to wait. The hazards,
each at its line and with the properties that would catch it, are in `PROJECT.json`.

What makes each component correct:

* transactions: a call is answered once, by a reply or an error; a nested call reaches
  the thread that waits; work is never left with sleepers; nothing freed is followed;
* allocator: pages are present exactly under what is in use; buffers in use are not
  disturbed; the free tree is sorted by true sizes;
* references: counts equal claims; handles in a message stay good; the owner of an
  object is told to keep it before it may let it go, and told to release it in the end;
* death: every request is told once if the node dies, whichever comes first;
* pool: never starved while it may grow, one open request at a time;
* proxies: one `BpBinder` per handle, and a claim in the driver for as long as it is used;
* Java proxies: one `BinderProxy` per binder; a linked recipient is told, a told one released;
* servicemanager: finding a name gives the service last added while that runs.

## 2. Modules

| Module | Models | Composes |
|---|---|---|
| `BinderTransaction` | the driver's transactions | |
| `BinderAlloc` | the driver's buffer area | |
| `BinderRefs` | the driver's nodes and references with the owner's `IPCThreadState` | |
| `BinderDeath` | the driver's death notifications | |
| `DeathNotification` | `BpBinder`, `IPCThreadState` and the driver, end to end | extends `BinderDeath` |
| `RemoteRefs` | `ProcessState`'s handle table, `BpBinder`'s counts, `mOut` of each thread and the driver's counts of one handle | |
| `JavaBinder` | `BinderProxy`, `DeathRecipientList`, `JavaDeathRecipient` over one `BpBinder`, with the collector | |
| `ThreadPool` | the driver's looper counts, `ProcessState` and `IPCThreadState` | |
| `ServiceRegistry` | abstract: a table of services | |
| `ServiceManager` | servicemanager, its clients and its part of the driver | implements `ServiceRegistry` |
| `XProofs`, for `X` each of `BinderTransaction`, `BinderRefs`, `BinderAlloc`, `RemoteRefs`, `JavaBinder`, `ThreadPool`, `ServiceManager` | theorems about `X` | extends `X` |
| `DeathNotificationProofs` | theorems about `BinderDeath` and `DeathNotification` | extends `DeathNotification` |

`MC*` modules give the constants values for TLC. A definition `Name_Fault` is a faulty
variant of the definition `Name` that follows it (a dropped guard, a missing reset);
substituting it makes the property named in `PROJECT.json` fail, which shows that the
property depends on that code.

### Correspondence

An ioctl handler runs under `binder_main_lock`, so it is one step. The exceptions are
modelled as such: `binder_thread_read` drops the lock to wait (in `BinderTransaction`
`ReadWait` chooses the queue, `ReadSleep` sleeps, and the delivering actions use the
choice made earlier); the tear-down loops take a step per item, with the lock held, so
that no other handler runs between them. A write holds one
command and a read returns one item: the driver processes the commands of a buffer one
after the other, so longer buffers are sequences of such steps without others in
between, which are among the behaviours checked.

* **BinderTransaction.** `stack`, `todo`, `return_error`, `return_error2`, `proc_todo`,
  `has_async`, `async_todo` are the fields of those names. `txn` and `buf` are pools of
  memory; when a pool is empty the kernel is out of memory and the error path is taken.
  `Transact`, `TransactOneWay`, `TransactFail`, `Reply…`, `FreeBuffer` are
  `BC_TRANSACTION`, `BC_REPLY` and `BC_FREE_BUFFER` with every early return;
  `binder_send_failed_reply` is an operator that climbs `from_parent`. `StartFreeThread`,
  `ReleaseThreadWork`, `FinishFreeThread` are `binder_free_thread`; `StartRelease` …
  `FinishRelease` are `binder_deferred_release`. Programs are arbitrary: a thread outside
  the driver may issue any command. Each process has one node; it does not call itself;
  priorities, file descriptors and security contexts are left out.
* **BinderAlloc.** Addresses are numbers, `buffers` the list of buffers by address,
  `free_buffers` the tree with the size each entry had *when it was inserted*, `pages`
  the set of mapped pages. Sums are taken modulo `SizeT`, as `size_t` sums are.
* **BinderRefs.** The operators `binder_inc_node` … `binder_transaction_buffer_release`
  map a state of the driver to the next one and have the names of the functions they
  translate; an action applies them in the order of the code. `app`, `parcel`, `held`
  and `pending` are who keeps the object alive in its own process: the program, the
  parcels of open transactions, the references `executeCommand` took, and those it will
  give back in `processPendingDerefs`. Programs give back only claims they have.
* **BinderDeath.** One process and its references; `death[d]` is the allocation with its
  work type and cookie; lists are sequences of them.
* **DeathNotification.** A proxy is its own cookie. Each section under `mLock` is a step;
  `sendObituary` is `TakeObituaries`, then one `ReportOneDeath` per recipient, outside
  the lock, with other threads in between.
* **RemoteRefs.** One handle. `ref` is the driver's reference with its two counts, `mOut[th]`
  the commands that `incStrongHandle` … `decWeakHandle` and `freeBuffer` have put there,
  `Flush` the ioctl that writes them. `strong[p]` and `weak[p]` are the threads that have a
  pointer, so `onFirstRef` and `onLastStrongRef` run when the set becomes non-empty or empty.
  `Stale` is a failing `attemptIncWeak`; between `Drop` of the last pointer and `Destroy`
  other threads look the handle up. `after` and `overtaken` record whether a decrement
  reached the driver before an increment that another thread had written earlier.
* **JavaBinder.** `attached` is the weak reference in `BpBinder`'s `ObjectManager`,
  `proxy[j]` what the collector has done: `collected` once the reference is cleared,
  `destroyed` after the finalizer. `linkToDeath` is `LinkAdd`, `LinkTarget` and, when it is
  refused, `ClearReference`; `unlinkToDeath` is `FindStart`, a `MatchRead` and `MatchUse` per
  recipient with the list locked, `UnlinkTarget` and `ClearReference`; `sendObituary` is
  `TakeObituaries` and per recipient `ReportOneDeath`, `BinderDied`, `Demote`.
* **ThreadPool.** The driver's counters as variables, `pc` where a thread is (outside, in
  the driver, waiting, in a handler). Work is a number.
* **ServiceManager.** `svclist` newest first, `ref` servicemanager's references with the
  claim count, the entry whose death notification is set and whether that was delivered
  (`told`: servicemanager never writes `BC_DEAD_BINDER_DONE`, so a delivered notification stays
  and another request is refused, 1999), `inbox` its work. `inbox` is in the order of reading:
  the notification of a service found dead by `BC_REQUEST_DEATH_NOTIFICATION` goes to the
  thread's own list (2016–2019), which is read before that of the process (2214), and so comes
  first. A request is a step, except that `do_add_service` is one step per write (`StartAdd`,
  `AddAcquire`, `AddLink`, `AddReply`). The SELinux policy may deny anything. A service may be
  added by whoever holds its binder, also when it has stopped: the driver passes on the handles
  of dead nodes (1605–1614). `relayed` is a history variable, the names under which that was done.

## 3. Runs

`PROJECT.json` lists every run with its properties and what it shows. Deadlock is not
checked: programs may stop calling at any time, and at the bounds they have to.

| Run | Instance | Shows |
|---|---|---|
| `transaction_calls` | 2 processes, 3 threads, 3 transactions, 2 buffers, synchronous calls, interrupted reads | a nested call goes to the waiting thread; no thread sleeps over its own work, waits on the wrong queue or leaves the process's work to sleepers |
| `transaction_failures` | 2 processes, calls and one-way calls; a thread of the one exits, the other dies | no freed memory is followed, no `BUG_ON`, buffers and transactions pair up, work is on one list, one-way calls are serial and only an exiting thread stalls their queue, errors are kept |
| `transaction_live` | a caller, a server that may die | every call is answered, every one-way call delivered or dropped with its target |
| `alloc` | an area of 3 pages of 16 bytes, sizes around 0, a page and 2^7 | pages, no `BUG_ON`, merging, free tree, space for one-way calls, overflow, buffers in use left alone |
| `pool` | 3 threads, limits 1 and 2, starting a thread may fail | requests match threads, no starvation while the pool may grow, work is taken, `stopProcess` drains |
| `death` | 2 handles, 2 cookies, 3 allocations, arbitrary commands | one owner of each notification, no `BUG`, told once whether death or request comes first, lost only with an exiting thread |
| `obituary` | 1 proxy, 2 recipients, 2 threads | weak references match requests and are given back; a recipient is called while linked, and is told |
| `refs` | 3 processes, an object and a context manager, 1 buffer, refusals, exits, deaths | exact counts, a handle in a buffer that stays good, life of nodes; no handle is used again here (`HandlesStayValid` covers that) |
| `refs_owner` | an owner with two threads and a client, strong and weak claims | the owner is told of every change and keeps the object |
| `services` | 2 names, 3 services, one of the two that compete for a name may stop | claims, answers, listing, refinement of `ServiceRegistry`, stopped services forgotten |
| `remote_refs` | 2 threads, room for 2 proxies, a handle that comes to denote 2 objects, strong and weak parcels | the table has the one proxy in use; counts and unwritten commands add up; a proxy in use has its claim unless a decrement overtakes |
| `java_binder` | 2 threads, 2 Java proxies, 2 native recipients of one Java object | one proxy, no deleted JNI reference used, registrations agree, linked recipients told, told ones released |

The faulty variant that breaks each property is listed under `mutants`.

### Bounds

* `Txn`, `Buf`, `Death`: pools of memory. Three transactions are enough for a call, the
  nested call back and a further one, the deepest stack two processes without self-calls
  need for all the cases of `binder_send_failed_reply`. An empty pool is the code's
  out-of-memory path, not a cut.
* `MaxTodo`: a thread that never reads collects work; at the bound the allocation of the
  completion fails, again a path of the code.
* `SizeT = 128`, `Total = 48`: the sizes 124 and 125 make aligning and adding wrap around.
* `MaxRef = 2`: zero, one and several claims on a handle; the code only distinguishes these.
* `MaxPending = 1`, `MaxWork = 1`, `MaxInbox = 2`, `MaxList = 3`: bounds on queues the code
  does not limit. One waiting item is enough to tell a starved pool from one that is not;
  with two requests one can wait behind a death or in front of it, or be the second `add` of
  a service whose death overtakes it (the notifications of deaths are not bounded); three is
  one more than the list has entries.
* `MaxOut = 3`: commands in `mOut`. A thread that makes, drops and destroys a proxy writes
  five; with three, each of them can be pending beside one of the other thread, and with
  `MaxOut = 4` the result is the same (1.16 million states). The model of `RemoteRefs` ends
  at the first command the driver refuses.
* Two Java proxies are the one that is collected and its successor, two recipients the one
  that is searched for and another before it; both are made for one Java object, so that
  `unlinkToDeath` may find the wrong one of them.
* `Kinds`: `refs_owner` uses strong and weak claims, `refs` strong ones only. For a
  weak claim `binder_inc_node` does not move work that is on a list already, so a
  `BR_INCREFS` may be read after the sender's completion, and `ObjectKept` is about strong
  claims. After a thread has exited with a node's work on its list, `binder_inc_ref` for a
  weak claim may return `-EINVAL`, which `binder_transaction` ignores: the handle is sent without
  the claim, so that `HandlesValid` is about strong claims too.
* `Isolations = {FALSE}` in `services`: isolated clients only add failing lookups.

### Fairness

* `BinderTransaction!LiveSpec`: a thread in the driver that can go on does (the kernel's
  scheduler: weak fairness of reads and of tear-down). Programs behave like
  `IPCThreadState`: they come back to read (`waitForResponse`, `joinThreadPool`), answer
  what they are called for and free their buffers; strong fairness, because signals may
  interrupt a read any number of times.
* `ThreadPool!LiveSpec`: nothing is assumed of handlers, which may run for ever; so
  `StopDrains` lets a thread leave the driver or be in a handler.
* `DeathNotification!Fairness`: threads read again and acknowledge what they were told, as
  `executeCommand` does.
* `ServiceManager!LiveSpec`: weak fairness of the loop in `binder_loop`.
* `JavaBinder!Fairness`: a thread inside one of the functions goes on; a thread that waits
  for the lock of a list gets it although others search the list again and again (strong
  fairness of `Demote`: the mutex is a futex with a queue); and the driver's `BR_DEAD_BINDER`
  finds a thread (strong fairness over all threads), which `obituary` shows.
  Nothing is assumed of the collector.

## 4. Proofs

The theorems hold for every number of processes, threads, proxies, recipients, services,
transactions, buffers and bytes. They assume what the `ASSUME`s of the modules say: sizes are
what the driver's types make them, `NULL` is no address, handle or set (`NULL # {}`,
`NoReference`), threads have a process. Each proof gives an inductive invariant, which TLC was run
on for the instances of section 3, and shows action by action that it is kept; the theorems
about single properties follow from it. Why the properties are not inductive by themselves is
said below.

**`BinderTransactionProofs`**

* `TypeCorrect` (`TypeOK`), which is inductive by itself; a lemma per operator
  (`binder_send_failed_reply`, freeing a thread, delivery).
* `BuffersMatch` (`BufferOfTransaction`). The invariant `BufferInv` adds that free memory
  points to nothing, so that what is allocated anew belongs to nobody else.
* `ErrorsKept` (`ErrorNotLost`). An action property: `binder_send_failed_reply` writes a slot
  only when it is free, and all other writers run when the thread is outside a read.
* `NoLostThreadWakeup` (`ThreadWorkWakes`) and `NoLostProcWakeup` (`ProcWorkHasReader`) from
  `WakeInv`, their conjunction with the fact that sleepers are inside a read. Neither is
  inductive alone: a wakeup of the process's queue wakes a thread that *chose* that queue before
  it slept, so which sleeper an action may leave asleep depends on both, and on the thread
  having got there through a read.
* `AssertionsHold` (`NoBug`), `WorkNeverLost` (`NoDangling`), `WaitNeverStale` (`NoStaleWait`),
  `WaitingThreadServes` (`ServedByWaitingThread`) and `OneWaysInTurn` (`AsyncSerial`) follow
  from one invariant `Inv`, because none of them can be kept without the others: a reply finds
  its call on top of the caller's stack only if nested calls went to the waiting thread, and
  they do so only if that thread still waits where the chain says. `Inv` has these parts.
  `MemInv` is the shape of memory: a call is made for a call that its caller serves (`Parents`);
  a thread that serves a call while it waits for one serves one made further on in the same
  chain (`Nested`); nothing lies above the top of a stack (`Tops`) and everything a thread
  takes part in is reached from it (`Reached`), which is what `binder_free_thread` relies on; a
  call that was sent to a thread finds it waiting for a call above it (`Targets`); a process
  meets a chain in one thread (`OneServer`); undelivered transactions are on the lists, once
  and where they fit (`OnLists`, `Fit`). `ThreadInv` says which threads exist, `ErrorInv` that a
  waiting caller has an error slot free, `AsyncInv` is `AsyncSerial` without the cardinality.

  The proofs about memory come first, as lemmas about arbitrary
  transactions, buffers, stacks and lists: what a new call, a delivery, a reply, a chain of
  failed replies, a freed buffer and an abandoned stack make of them. `Walk`, the loop along a
  pointer, is defined by closure, so its lemmas (`WalkIn`, `WalkFirst`, `WalkLine`) need
  no induction. Then comes one lemma per action (`TransactInv`,
  `ReplyInv`, …), which shows that the action has one of these effects and keeps the other parts.

**`BinderRefsProofs`**: `CountsExactHolds` (`CountsExact`), `NoDanglingHolds` (`NoDangling`),
where programs claim strongly, `HandlesStayValid` (`HandlesValid`), and, where threads do not exit,
`WillBeToldHolds` (`WillBeTold`), for any processes, threads, objects, buffers and strong or weak claims, with refused
transactions, exiting threads and dying processes, from `CountsInvariant`. The inductive
invariant `CountsInv` is `Sound` of the state. `Good` says of every node at once (`NodeOK`)
that each of its counts is the number of its claims, that it is on at most one list and there
once (`OwnLists`), that it is listed only while its owner lives, and that an orphan has a
reference; and that a process has one reference to a node. `BufsOK` says whose the buffers
are and that their objects belong where they were sent, `CmdsOK` that a thread answers for its
own process's objects. The two properties need each other: deleting a reference decrements the
right node only if the reference still points to it, freeing a node is safe only if its counts
are exact, and the counts of a node whose process dies can be dropped only because the buffers
that claimed it go in the same step.

  The proofs are about arbitrary driver states `s` and `r`. One layer says what an operator
  (`binder_inc_node`, `binder_dec_ref`, …) does to one node and one reference and that nothing
  else moves (`Recounted`, `RefInc`, `HandleGot`, …); the next takes the loop over the objects of a
  parcel as a step per object; the last has one `…Sound` lemma per command, whose hypotheses
  are what the action's guard establishes. The loops of `binder_deferred_release` over a
  process's nodes and references are recursive functions of the number of turns: that they exist
  and that a loop keeps its invariant is shown by looking at the least turn at which it fails
  (`WFMin`), since the library's induction theorems cannot be instantiated. An answer that is
  still open (`pending_strong`, `pending_weak`) counts as a claim.

  `HandlesStayValid` has the hypothesis `FALSE \notin Kinds`, because the property is false
  without it (`Kinds` in section 3). Its invariant `HandlesInv` says that a reference counts at
  least the buffers that its handle lies in (`Backed`), that the handle names the object which
  was sent (`Names`), and that objects are sent as strongly as `Kinds` allows. While the objects
  of a parcel are translated or released one after the other, the reference backs the buffers
  that are complete and the part of the parcel that is done.

  `WillBeToldHolds` (`WillBeTold`) has the hypothesis `Exits = {}`, because a thread that exits
  takes the nodes on its list with it (section 5); the invariant carries it as `Informed`: for
  each node with an owner (`Knows`), what the owner was told is what is claimed, or the node is on a
  list, and an owner told to hold the object strongly was told to hold it weakly. The second half is
  what makes it inductive: a strong claim that finds `has_strong_ref` set queues nothing, although
  it is a claim that `has_weak_ref` has to answer as well. In
  between the operators the claim is weaker (`KnowsMore` after a count went down, `KnowsStrong` after
  a reference was made), and a claim that comes without a list is never the node's first
  (`InformedBut`, `MayGo`): that is where the transaction's target, a handle passed on and the
  context manager's handle 0 need the claims the sender has.

**`BinderAllocProofs`**: every property of `alloc`, and the types, for any page, header and word
size and any request: `AllocTypeCorrect`, `PagesStayExact` (`PagesExact`, and
in it `NoBug`), `AsyncStaysAccounted` (`AsyncAccounted`), `GapsInTree` (`TreeSorted`) and
`OthersUntouched` (`Undisturbed`). While `binder_free_buf` is between its marks and
its merges the tree lacks one free buffer, so the lemmas are about `Tree(bs, t, X)`: the tree `t`
of the buffers `bs` but for those in `X`. Each of take, split, mark, merge with the next, merge
with the previous has a lemma that says what it does to the tree and which ends of buffers it
moves; the two theorems are their composition. What they need of addresses is that two buffers
have different ends (`OneBefore`) and that the least and the greatest of a set of addresses exist.

  For the pages, `Laid` says that headers begin at whole words and are clear of each other, and
  that a buffer in use has room for its request and not for another header and four bytes
  beside it (`Filled`: the size did not overflow, the rest was split off). `Touches` says of one
  page what `PagesExact` says of all of them. A range of page numbers, rounded up or down at
  either end, is turned into inequalities between addresses (`PageBounds`, `InnerRange`,
  `OuterRange`); after that each step is a lemma about one page: nothing else needs a page in a
  buffer's gap (`GapIsOwn`), an allocation adds the pages of `TakenPages`, a free drops the gap
  (`MarkedPages`), a merge drops the pages of one header that neither neighbour shares
  (`HeaderPagesAre`, `MergedPages`). `NeededIs` is about overflow: a request that passes the
  test of `binder_alloc_buf` needs exactly the words of its two parts. The sum in
  `AsyncAccounted` is a fold that chooses its elements; it is shown to be the cardinality of a
  set with one element for each byte (`Units`, `SumIs`), by looking at the smallest set for
  which it would not be, and cardinalities add up by the library's theorems.

**`DeathNotificationProofs`**, the driver: `DeathTypeCorrect`, `NotificationOwned` (`OneOwner`), `DeathTold`
(`ToldOnce`, with the driver's assertions). `DeathInv` adds that a notification is on one list
and there once (`Once`), so that moving it never leaves a copy behind, and relates the state of a
notification that a reference owns to the death of its node (`ToldOf`).

The whole exchange: `UserTypeCorrect`, `WeakReferencesMatched` (`WeakMatched`),
`RecipientCalled` (`CalledWhenLinked`), and `DriverUsed`: every behaviour of the whole exchange is
one of `BinderDeath`, so that what is proved of the driver carries over. `UserInv` has the
driver's invariant as its first conjunct; it adds where each recipient is (`OneList`), whose
cookie a notification carries (`Cookies`), and that the notifications returned to the program
are, one to one, those that threads are executing (`Counted`): without this a thread that comes
back for a cookie might find the proxy gone.

**`RemoteRefsProofs`**: `HandleTable` (`TableExact`) and `CountsHeld` (`Held`), for any threads,
proxies, nodes and bound on `mOut`. `TableInv` adds to `TableExact` that a `BpBinder` is live
exactly as long as somebody has a pointer (`Lifetime`): it is what makes the comparison in
`expungeHandle` sufficient. It needs no fact about the driver or `mOut`.

  `HeldInv` has three parts for the counts. `BalanceInv(k)` is the sum of `Held`, as sets of
  places in the queues (`Places`). `MatchInv(k)` says that there is a one-to-one function from the
  pending increments to what they are for: a proxy that is in use, or a pending decrement that
  cannot overtake the increment (`Guarded`: it is behind it in the same queue, or its history
  `after` names the increment's thread). From the two follows that the driver's count is at
  least what no command has been written for (`CountEnough`), so that a decrement finds a count.
  `Entitled` says that a thread that has written an increment still has the parcel it was for,
  or frees it behind the increment, so that an increment finds the reference. `Flush` applies a
  whole queue in one step: `FlushApplies` unfolds the fold into the states after each command,
  `FlushAt` is what holds in each of them (`Balanced` for what is left, and no refusal unless a
  command is overtaken), and `FlushStep` takes it over one command.

**`JavaBinderProofs`**: `JavaTypeCorrect`, `ProxyUnique` (`OneBinderProxy`), `ReferencesValid`
(`RefsValid`), `RecipientsRegistered` (`Registered`). `JavaInv` has for every place a thread can be
at what it knows there (`Holds`), that `sendObituary` runs in one thread (`Obituaries`), and that a
recipient that is being linked or unlinked is not being reported (`Exclusive`).

**`ThreadPoolProofs`**: `PoolTypeCorrect`, which says that `ready_threads` and `requested_threads`
do not wrap below zero, and `RequestsMatched` (`RequestMatched`). `PoolInv` says that
`ready_threads` counts the waiting threads, that a thread writes `BC_ENTER_LOOPER` or
`BC_REGISTER_LOOPER` once (`Looping`), and that an open request is with one thread (`OneRequest`).

**`ServiceManagerProofs`**: `ManagerTypeCorrect`, `ClaimsKept` (`ClaimsBalanced`), `ListingsComplete`
(`ListComplete`), and, for services that have one name each (`OneName`), `FoundLast`
(`FindAnswers`) and `RegistrySafe`: `ServiceManager` implements `ServiceRegistry`, from its
initial states and step by step. `ManagerInv` describes the waiting requests: each agrees with the
reference it is about, a death waits once, and a listing asks for one entry at a time
(`MayFollow`). The two theorems depend on deaths that are read before a waiting `add` of the same
service, because such a death may take the entry of the service that has the name by then.
`DeathsOK` says which these are: the `add` was made after the death (its name is in
`relayed`), or the death is the first item, put there by the `AddLink` of the same service, whose
entry is still in place. From that follows that the entry a death takes is the one with its
handle, or one of a name in `relayed` (`DeadEntry`), and `Gone`: an entry without a handle belongs
to a service that has stopped, or to such a name. Every item that is taken drops the second case
(`OvertakenTail`), and only `AddLink` makes it (`AddLinkDeaths`). `OneName` is a hypothesis of these
two theorems and not an assumption of the model: without it they are false, which is number 2 of
section 6.

**Only model-checked.**

* Liveness under fairness is out of the prover's reach: the temporal properties of the runs that
  say something eventually happens, among them `Forgotten`, the second half of
  `ImplementsRegistry`.
* `ObjectKept` of `BinderRefs`: it is about the order of messages between the driver and the
  owner's threads and would need an invariant about every message under way.

## 5. Assumptions and what is left out

* Wakeups are modelled in `BinderTransaction` only; the other driver modules let a thread
  read whenever there is work.
* In `BinderRefs` and `BinderDeath` the death of a process is one step. In `BinderTransaction`
  it is several, for the pointers between threads; the driver's lock is held throughout.
* `obituary` and `refs_owner` have no exiting threads: `binder_release_work` drops the work
  items of an exiting thread (line 2494), and with them what it was to be told. `death` has
  one, and `ToldOnce` says that nothing else loses a death. Likewise a thread that frees a
  one-way buffer and exits takes the next one-way call of the node with it (1910): its buffer
  is never freed and the node's queue stands still. `AsyncSerial` says that nothing else
  stalls the queue; with `Exits = {b1}` and its last disjunct removed, TLC shows the stall in
  seven steps.
* `JavaBinder` takes the delivery of the death to `sendObituary` as one step of the driver;
  the way there is `DeathNotification`. A local binder (`localBinder`) has no recipients.
* Not modelled: debugfs and statistics, file descriptors, security contexts, priorities,
  `AndroidRuntime` (start of the virtual machine), `Parcel` marshalling, the Java classes that
  only forward.
* `IServiceManager.java` says that `getService` "Blocks for a few seconds waiting for it to be
  published"; servicemanager answers at once, and so do the clients of the model.

## 6. Where code and comments disagree

Each of these was found with the models and can be reproduced as described; the properties
of the runs are stated so that they hold beside them.

1. **A refused transaction separates an object from its `BR_ACQUIRE`** (`binder.c` 942).
   The work that tells the owner to keep an object goes to the list of the thread that sent
   it, so that it is read before that thread lets the parcel go. When a second thread sends
   the same object, the work is moved to that thread; if its transaction is refused it learns
   of that first and drops its parcel, the first thread completes without having seen the
   command, and the object may be gone when `BR_ACQUIRE` is executed, which
   `IPCThreadState.cpp` 961 asserts cannot be. With `Refuses = {a2}` and `Buf = {k1, k2}` in
   `RefsOwner.cfg`, TLC finds `AcquireFindsObject` (of `BinderRefs`) violated. Without refused
   transactions the object is always there (`refs_owner`).
2. **One service under two names** (`service_manager.c` 247). The driver keeps one death
   notification per reference. If the service is later replaced under the name that was
   notified, its death unregisters the replacement. With `Pairs <- TwoNames`
   and `Service = {s1, s2}` in `Services.cfg`, `ImplementsRegistry` is violated, and so is
   `FindAnswers` when it is checked alone.
3. **A reference command overtakes another** (`IPCThreadState.cpp` 607–633). A thread makes a
   proxy and has `BC_INCREFS` and `BC_ACQUIRE` in its `mOut`; another thread, given the
   pointer, drops the last reference and its `BC_RELEASE` reaches the driver first. That
   takes the count of the parcel in which the handle came, and the reference may be deleted
   although the proxy is in the table and is found there again. `ProcessState.cpp` 194 says
   that the context manager "is the only object for which we create a BpBinder proxy without
   already holding a reference". `Held` without its condition `~overtaken` is violated in
   `remote_refs`.
4. **`unlinkToDeath` of a dead binder** (`android_util_Binder.cpp` 1241). `IBinder.java` 289–293
   promises `true` "if the recipient is successfully unlinked, assuring you that its …
   `binderDied()` method will not be called", and "false if the target IBinder has already
   died". The code returns `JNI_TRUE` for `DEAD_OBJECT` as well: `BpBinder` answers that once
   `sendObituary` has taken the list of recipients, when another thread may be about to
   call this one. So a program that was told `true` may still have `binderDied` called, now or
   later. `CalledWhenLinked` keeps the promise only for the native `unlinkToDeath`, and only where it
   returns `NO_ERROR`. The same holds for a Java object that was linked twice: `unlinkToDeath` takes
   one of its two registrations and the other is still called. The code also throws
   `NoSuchElementException` when no recipient is in the list, dead or not, where 297–300 promise
   false for a dead one, and may throw when a concurrent `linkToDeath` of the same Java recipient
   has added its own entry and not linked it yet (`UnlinkTarget`).
5. **A list that is torn down with recipients in it** (`android_util_Binder.cpp` 506). "Should
   never happen -- the JavaDeathRecipient objects … are holding references on the list object";
   they hold a weak pointer (493). A `BinderProxy` that is collected takes its linked
   recipients with it, which then are not told: `link[r] = "lost"` in `JavaBinder`, the
   exception in `LinkedTold`.
6. **A stopped service that stays registered** (`service_manager.c` 246). Two requests to add
   `s1` under `m` wait, and `s1` stops after the first one's `BC_ACQUIRE`. Its
   `BC_REQUEST_DEATH_NOTIFICATION` finds the node dead, the notification goes to the thread's own
   list and is handled before the second request, which then sets the handle again. Its
   own request for a notification is refused (`binder.c` 1999), because `ref->death` stays set:
   servicemanager writes no `BC_DEAD_BINDER_DONE`. Nothing tells it again, and `m` gives out a dead
   handle until another service takes the name. `binder_link_to_death` returns nothing, and
   `do_add_service` replies success. With `\cup Told` removed from `Forgotten`, `services` finds it;
   any later `add` of a stopped service that servicemanager still holds does the same.
7. **A stopped service that takes a running one's entry** (`service_manager.c` 163). `s1` has `m`,
   the request of `s2` to take `m` waits, `s1` stops and its notification waits behind it, and
   then a program that holds the binder of `s1` adds it under `m` once more. The override
   releases the handle of `s1`, but the last request keeps the reference and with it the
   notification, and `svcinfo_death` zeroes the entry that the notification was requested for,
   whatever handle is in it by then: `m` is not found although `s2` runs and was the last to
   take it, for good if the request for `s1` is refused. With the disjunct
   `answer.name \in relayed` removed from `FindAnswers`, `services` finds it.

Two smaller disagreements can be read off `ServiceManager` directly: an override keeps the
`allow_isolated` flag of the service before (`service_manager.c` 227, `NewList`), and a
listing returns services that have stopped, because entries are never removed (332,
`ListedAt`), where `IServiceManager.java` 56 promises "all currently running services".

## 7. Plan

Done: the modules of section 2. Next, in this order:

1. Proofs: `ObjectKept` of `BinderRefs` without refused transactions and exiting threads.
2. `JavaBBinderHolder` with the collector, as a second part of `JavaBinder`.
3. `BinderIo`: `bio_put_*`, `bio_get_*` and `BIO_F_OVERFLOW` as functions against a
   reference definition.
4. `ServiceManager.java`'s cache on top of `ServiceManager`.
