----------------------------- MODULE BinderRefs -----------------------------
(***************************************************************************)
(* Nodes and references (driver/binder.c), with the program that owns the  *)
(* object behind a node (native/IPCThreadState.cpp).                       *)
(*                                                                         *)
(* A node stands for an object of one process, a reference for another     *)
(* process's claim on it.  The driver counts the claims and tells the      *)
(* owner with BR_INCREFS, BR_ACQUIRE, BR_RELEASE and BR_DECREFS to keep    *)
(* the object or to let it go.  Of the work on the lists there are the     *)
(* nodes, and the completion of the thread's own transaction.  A buffer    *)
(* keeps what it was given until the program frees it; which thread the    *)
(* transaction went to is the subject of BinderTransaction.                *)
(*                                                                         *)
(* The operators from binder_inc_node to binder_transaction_buffer_release *)
(* map a state of the driver, a record of the variables that the           *)
(* reference code writes, to the next one.                                 *)
(*                                                                         *)
(* A definition Name_Fault is a faulty variant of the definition Name that *)
(* follows it; the specification does not use it.                          *)
(***************************************************************************)
EXTENDS Integers, Sequences, FiniteSets, SequencesExt

CONSTANTS
    Proc,      \* processes
    Thread,    \* their threads
    ProcOf,    \* the process of a thread
    Node,      \* objects, as node->ptr and node->cookie name them
    Owner,     \* the process an object lives in
    CtxNode,   \* objects that may become the context manager, node->ptr = 0
    Desc,      \* handles, 0 .. n
    Buf,       \* bound: memory for transaction buffers
    MaxRef,    \* bound: claims of either kind a program makes on one handle
    MaxPending,\* bound: references to an object waiting in mPendingStrong/WeakDerefs
    Kinds,     \* bound: strong (TRUE) and weak claims in the instance
    Refuses,   \* threads whose transactions may hold an object that is refused
    Exits,     \* threads that may issue BINDER_THREAD_EXIT
    Dies,      \* processes that may end
    NULL,      \* the null pointer
    COMPLETE   \* a BINDER_WORK_TRANSACTION_COMPLETE item of a todo list

ASSUME RefsAssumption ==
    /\ ProcOf \in [Thread -> Proc]
    /\ Owner \in [Node -> Proc]
    /\ CtxNode \subseteq Node
    /\ Kinds \subseteq BOOLEAN
    /\ IsFiniteSet(Proc) /\ IsFiniteSet(Node) /\ IsFiniteSet(Buf)
    /\ Desc = 0 .. Cardinality(Node)
    /\ NULL \notin Proc \cup Thread \cup Node \cup Desc
    /\ COMPLETE \notin Node

VARIABLES
    alive,     \* processes that have the device open
    ctx,       \* binder_context_mgr_node
    node,      \* the struct binder_node of an object, or NULL
    refs,      \* the struct binder_ref of a process and a handle, or NULL
    todo,      \* thread->todo
    proc_todo, \* proc->todo
    buf,       \* the buffers, with the objects in them
    cmd,       \* what a thread has read, or has to write in answer to it
    parcel,    \* the objects a thread's open transaction keeps alive
    app,       \* objects the owner's program has references to of its own
    held,      \* references the owner took for the driver, see Execute
    pending    \* those of them to be given back, mPendingStrong/WeakDerefs

driverVars == <<ctx, node, refs, todo, proc_todo>>
userVars == <<cmd, parcel, app, held, pending>>
vars == <<alive, driverVars, buf, userVars>>

Counts == [strong: Nat, weak: Nat]

NodeRec == [proc: Proc \cup {NULL},
            internal_strong: Nat, local_strong: Nat, local_weak: Nat,
            has_strong: BOOLEAN, has_weak: BOOLEAN,
            pending_strong: BOOLEAN, pending_weak: BOOLEAN]

RefRec == [node: Node, strong: Nat, weak: Nat]

\* A flat_binder_object.  A handle keeps, for the properties, the object it
\* was made from.
Object == [type: {"BINDER", "HANDLE"}, strong: BOOLEAN, node: Node, desc: Desc \cup {NULL}]

BufRec == [proc: Proc, target_node: Node \cup {NULL}, objects: Seq(Object)]

ASSUME NoRecord == NULL \notin NodeRec \cup RefRec \cup BufRec

\* A BR_ command that was read, or the BC_ command that answers it.
Commands == [name: {"INCREFS", "ACQUIRE", "RELEASE", "DECREFS",
                    "INCREFS_DONE", "ACQUIRE_DONE", "none"}, node: Node \cup {NULL}]

NoCmd == [name |-> "none", node |-> NULL]

Init ==
    /\ alive = Proc
    /\ ctx = NULL
    /\ node = [n \in Node |-> NULL]
    /\ refs = [p \in Proc |-> [d \in Desc |-> NULL]]
    /\ todo = [th \in Thread |-> <<>>]
    /\ proc_todo = [p \in Proc |-> <<>>]
    /\ buf = [b \in Buf |-> NULL]
    /\ cmd = [th \in Thread |-> NoCmd]
    /\ parcel = [th \in Thread |-> {}]
    /\ app = Node
    /\ held = [n \in Node |-> [strong |-> 0, weak |-> 0]]
    /\ pending = held

-----------------------------------------------------------------------------
(* The reference counts, on states of the driver *)

Driver == [ctx |-> ctx, node |-> node, refs |-> refs, todo |-> todo, proc_todo |-> proc_todo]

Becomes(s) ==
    /\ ctx' = s.ctx
    /\ node' = s.node
    /\ refs' = s.refs
    /\ todo' = s.todo
    /\ proc_todo' = s.proc_todo

\* node->refs
RefsTo(s, n) ==
    {r \in Proc \X Desc : s.refs[r[1]][r[2]] # NULL /\ s.refs[r[1]][r[2]].node = n}

\* !list_empty(&node->work.entry)
Queued(s, n) ==
    \/ \E th \in Thread : n \in Range(s.todo[th])
    \/ \E p \in Proc : n \in Range(s.proc_todo[p])

\* list_del_init(&node->work.entry), the one entry a node has on a list
Unqueued(s, n) ==
    [s EXCEPT !.todo = [th \in Thread |-> RemoveFirst(s.todo[th], n)],
              !.proc_todo = [p \in Proc |-> RemoveFirst(s.proc_todo[p], n)]]

\* binder_new_node, as kzalloc leaves it.
NewNode(p) == [proc |-> p, internal_strong |-> 0, local_strong |-> 0, local_weak |-> 0,
               has_strong |-> FALSE, has_weak |-> FALSE,
               pending_strong |-> FALSE, pending_weak |-> FALSE]

\* The cases in which binder_inc_node returns -EINVAL.
IncInvalid(s, n, strong, list) ==
    /\ list = NULL
    /\ IF strong THEN /\ s.node[n].internal_strong = 0
                      /\ ~(n = s.ctx /\ s.node[n].has_strong)
       ELSE ~s.node[n].has_weak /\ ~Queued(s, n)

\* One of the node's counts goes up or down; internal weak claims are not
\* counted, node->refs stands for them.
Counted(s, n, strong, internal, k) ==
    IF strong /\ internal THEN [s EXCEPT !.node[n].internal_strong = @ + k]
    ELSE IF strong THEN [s EXCEPT !.node[n].local_strong = @ + k]
    ELSE IF internal THEN s
    ELSE [s EXCEPT !.node[n].local_weak = @ + k]

\* A node the owner does not hold yet goes to the list of the thread that sends
\* the object, ahead of that transaction's completion.
Owed_ToProc(s, n, list) ==
    [Unqueued(s, n) EXCEPT !.proc_todo[s.node[n].proc] = Append(@, n)]
Owed(s, n, list) == [Unqueued(s, n) EXCEPT !.todo[list] = Append(@, n)]

binder_inc_node(s, n, strong, internal, list) ==
    LET c == Counted(s, n, strong, internal, 1)
        owed == IF strong THEN ~s.node[n].has_strong
                ELSE ~s.node[n].has_weak /\ ~Queued(s, n)
    IN IF strong /\ internal /\ IncInvalid(s, n, strong, list) THEN s
       ELSE IF owed /\ list # NULL THEN Owed(c, n, list)
       ELSE c

\* The last count of a kind is gone: the owner is told, or a node it does not
\* hold is freed.
LastGone_NoWork(s, n) ==
    LET x == s.node[n]
    IN IF x.proc # NULL /\ (x.has_strong \/ x.has_weak) THEN s
       ELSE IF RefsTo(s, n) = {} /\ x.local_strong = 0 /\ x.local_weak = 0
       THEN [Unqueued(s, n) EXCEPT !.node[n] = NULL]
       ELSE s
LastGone(s, n) ==
    LET x == s.node[n]
    IN IF x.proc # NULL /\ (x.has_strong \/ x.has_weak)
       THEN IF Queued(s, n) THEN s ELSE [s EXCEPT !.proc_todo[x.proc] = Append(@, n)]
       ELSE IF RefsTo(s, n) = {} /\ x.local_strong = 0 /\ x.local_weak = 0
       THEN [Unqueued(s, n) EXCEPT !.node[n] = NULL]
       ELSE s

binder_dec_node(s, n, strong, internal) ==
    LET c == Counted(s, n, strong, internal, -1)
        x == c.node[n]
        counts == IF strong THEN x.local_strong # 0 \/ x.internal_strong # 0
                  ELSE x.local_weak # 0 \/ RefsTo(c, n) # {}
    IN IF counts THEN c ELSE LastGone(c, n)

\* The reference that p has to n, a set of at most one handle.
HandleOf(s, p, n) == {d \in Desc : s.refs[p][d] # NULL /\ s.refs[p][d].node = n}

\* The lowest handle that is free; 0 is for the context manager.
FreeDesc(s, p, n) ==
    Min({d \in Desc : s.refs[p][d] = NULL /\ (d = 0 => n = s.ctx)})

\* The handle and the state after binder_get_ref_for_node found or made the
\* reference.
DescFor(s, p, n) ==
    IF HandleOf(s, p, n) # {} THEN CHOOSE d \in HandleOf(s, p, n) : TRUE
    ELSE FreeDesc(s, p, n)

binder_get_ref_for_node(s, p, n) ==
    IF HandleOf(s, p, n) # {} THEN s
    ELSE [s EXCEPT !.refs[p][FreeDesc(s, p, n)] = [node |-> n, strong |-> 0, weak |-> 0]]

binder_delete_ref_WeakOnly(s, p, d) ==
    binder_dec_node([s EXCEPT !.refs[p][d] = NULL], s.refs[p][d].node, FALSE, TRUE)
binder_delete_ref(s, p, d) ==
    LET r == s.refs[p][d]
        c == IF r.strong > 0 THEN binder_dec_node(s, r.node, TRUE, TRUE) ELSE s
    IN binder_dec_node([c EXCEPT !.refs[p][d] = NULL], r.node, FALSE, TRUE)

binder_inc_ref(s, p, d, strong, list) ==
    LET r == s.refs[p][d]
        first == IF strong THEN r.strong = 0 ELSE r.weak = 0
        c == IF first THEN binder_inc_node(s, r.node, strong, TRUE, list) ELSE s
    IN IF first /\ IncInvalid(s, r.node, strong, list) THEN s
       ELSE IF strong THEN [c EXCEPT !.refs[p][d].strong = @ + 1]
       ELSE [c EXCEPT !.refs[p][d].weak = @ + 1]

binder_dec_ref_AnyZero(s, p, d, strong) ==
    LET r == s.refs[p][d]
        c == IF strong THEN [s EXCEPT !.refs[p][d].strong = @ - 1]
             ELSE [s EXCEPT !.refs[p][d].weak = @ - 1]
        e == IF strong /\ r.strong = 1 THEN binder_dec_node(c, r.node, TRUE, TRUE) ELSE c
    IN IF (IF strong THEN r.strong ELSE r.weak) = 0 THEN s
       ELSE IF e.refs[p][d].strong = 0 \/ e.refs[p][d].weak = 0
       THEN binder_delete_ref(e, p, d) ELSE e
binder_dec_ref(s, p, d, strong) ==
    LET r == s.refs[p][d]
        c == IF strong THEN [s EXCEPT !.refs[p][d].strong = @ - 1]
             ELSE [s EXCEPT !.refs[p][d].weak = @ - 1]
        e == IF strong /\ r.strong = 1 THEN binder_dec_node(c, r.node, TRUE, TRUE) ELSE c
    IN IF (IF strong THEN r.strong ELSE r.weak) = 0 THEN s
       ELSE IF e.refs[p][d].strong = 0 /\ e.refs[p][d].weak = 0
       THEN binder_delete_ref(e, p, d) ELSE e

-----------------------------------------------------------------------------
(* The objects in a transaction *)

\* One object of a transaction by thread th to process q, as the loop in
\* binder_transaction translates it: an object becomes a handle, a handle of one
\* of q's own objects becomes that object, any other handle becomes q's handle.
\* t holds the driver's state and the objects translated so far.
Translate(t, o, th, q) ==
    LET n == o.node
        s == IF o.type = "BINDER" /\ t.s.node[n] = NULL
             THEN [t.s EXCEPT !.node[n] = NewNode(ProcOf[th])] ELSE t.s
        g == binder_get_ref_for_node(s, q, n)
        d == DescFor(s, q, n)
    IN IF o.type = "HANDLE" /\ s.node[n].proc = q
       THEN [s |-> binder_inc_node(s, n, o.strong, FALSE, NULL),
             out |-> Append(t.out, [o EXCEPT !.type = "BINDER", !.desc = NULL])]
       ELSE [s |-> binder_inc_ref(g, q, d, o.strong, IF o.type = "BINDER" THEN th ELSE NULL),
             out |-> Append(t.out, [o EXCEPT !.type = "HANDLE", !.desc = d])]

Translated(s, objects, th, q) ==
    FoldLeft(LAMBDA t, o : Translate(t, o, th, q), [s |-> s, out |-> <<>>], objects)

\* binder_transaction_buffer_release gives back what one object counts for.  A
\* handle is looked up by its number, which may have been freed.
ReleaseObject(s, o, p) ==
    IF o.type = "BINDER"
    THEN IF s.node[o.node] = NULL THEN s ELSE binder_dec_node(s, o.node, o.strong, FALSE)
    ELSE IF s.refs[p][o.desc] = NULL THEN s ELSE binder_dec_ref(s, p, o.desc, o.strong)

binder_transaction_buffer_release(s, p, target, objects) ==
    FoldLeft(LAMBDA x, o : ReleaseObject(x, o, p),
             IF target = NULL THEN s ELSE binder_dec_node(s, target, TRUE, FALSE), objects)

-----------------------------------------------------------------------------
(* What the programs may do *)

\* A thread writes when it has executed what it read; its own transaction is
\* complete before it starts the next one.
Free(th) == ProcOf[th] \in alive /\ cmd[th] = NoCmd

\* Claims the objects in p's buffers make on a handle or on an object of p.
Handles(p, d, strong) ==
    UNION {{<<b, i>> : i \in {j \in DOMAIN buf[b].objects :
                          /\ buf[b].objects[j].type = "HANDLE"
                          /\ buf[b].objects[j].desc = d
                          /\ buf[b].objects[j].strong = strong}}
              : b \in {x \in Buf : buf[x] # NULL /\ buf[x].proc = p}}

Binders(n, strong) ==
    UNION {{<<b, i>> : i \in {j \in DOMAIN buf[b].objects :
                          /\ buf[b].objects[j].type = "BINDER"
                          /\ buf[b].objects[j].node = n
                          /\ buf[b].objects[j].strong = strong}}
              : b \in {x \in Buf : buf[x] # NULL}}

\* What a thread may put into a transaction: an object of its process that the
\* program has a reference to, or a handle; a strong handle only from a strong
\* claim, which is how a program comes by a proxy.
Sendable(th) ==
    LET p == ProcOf[th]
    IN {o \in [type: {"BINDER", "HANDLE"}, strong: Kinds, node: Node, desc: Desc \cup {NULL}] :
           \/ /\ o.type = "BINDER" /\ o.desc = NULL
              /\ Owner[o.node] = p /\ o.node \notin CtxNode
              /\ o.node \in app \/ Binders(o.node, TRUE) # {}
           \/ /\ o.type = "HANDLE" /\ o.desc # NULL
              /\ refs[p][o.desc] # NULL
              /\ refs[p][o.desc].node = o.node
              /\ o.strong => refs[p][o.desc].strong > 0}

Parcels(th) == {<<>>} \cup {<<o>> : o \in Sendable(th)}

\* Where a transaction may go: to the object behind a strong handle or to the
\* context manager, or as a reply, which has no target node, to any process.
Targets(th) ==
    LET p == ProcOf[th]
    IN {<<NULL, q>> : q \in alive \ {p}} \cup
       {<<n, node[n].proc>> :
            n \in {m \in Node : /\ node[m] # NULL
                                /\ node[m].proc \notin {NULL, p}
                                /\ \/ m = ctx
                                   \/ \E d \in Desc : /\ refs[p][d] # NULL
                                                      /\ refs[p][d].node = m
                                                      /\ refs[p][d].strong > 0}}

\* The parcel holds its objects until the transaction is complete.
KeptBy(objects) == {<<o.node, o.strong>> : o \in {x \in Range(objects) : x.type = "BINDER"}}

-----------------------------------------------------------------------------
(* Transactions *)

WithTarget(s, n) == IF n = NULL THEN s ELSE binder_inc_node(s, n, TRUE, FALSE, NULL)

\* The part of binder_transaction that counts references, and the completion
\* it queues for the sender.
Send(th, n, q, objects, b) ==
    LET t == Translated(WithTarget(Driver, n), objects, th, q)
    IN /\ Free(th)
       /\ COMPLETE \notin Range(todo[th])
       /\ buf[b] = NULL
       /\ Becomes([t.s EXCEPT !.todo[th] = Append(@, COMPLETE)])
       /\ buf' = [buf EXCEPT ![b] = [proc |-> q, target_node |-> n, objects |-> t.out]]
       /\ parcel' = [parcel EXCEPT ![th] = KeptBy(objects)]
       /\ UNCHANGED <<alive, cmd, app, held, pending>>

\* The object after these is refused (err_bad_object_type, err_fd_not_allowed and
\* the like): everything counted so far is given back.
SendRefused(th, n, q, objects) ==
    LET t == Translated(WithTarget(Driver, n), objects, th, q)
    IN /\ th \in Refuses
       /\ Free(th)
       /\ COMPLETE \notin Range(todo[th])
       /\ Becomes(binder_transaction_buffer_release(t.s, q, n, t.out))
       /\ UNCHANGED <<alive, buf, userVars>>

\* There is no memory for the reference to object m: the node made for m stays
\* (err_binder_get_ref_for_node_failed).
SendNoRef(th, n, q, m) ==
    /\ th \in Refuses
    /\ Free(th)
    /\ COMPLETE \notin Range(todo[th])
    /\ Owner[m] = ProcOf[th] /\ m \in app /\ m \notin CtxNode
    /\ HandleOf(Driver, q, m) = {}
    /\ LET s == WithTarget(Driver, n)
           x == IF s.node[m] = NULL THEN [s EXCEPT !.node[m] = NewNode(ProcOf[th])] ELSE s
       IN Becomes(binder_transaction_buffer_release(x, q, n, <<>>))
    /\ UNCHANGED <<alive, buf, userVars>>

\* BC_FREE_BUFFER
FreeBuffer(th, b) ==
    /\ Free(th)
    /\ buf[b] # NULL
    /\ buf[b].proc = ProcOf[th]
    /\ Becomes(binder_transaction_buffer_release(Driver, buf[b].proc, buf[b].target_node,
                                                 buf[b].objects))
    /\ buf' = [buf EXCEPT ![b] = NULL]
    /\ UNCHANGED <<alive, userVars>>

-----------------------------------------------------------------------------
(* BC_INCREFS, BC_ACQUIRE, BC_RELEASE, BC_DECREFS *)

\* A program claims a handle that it has, strongly when it has a strong claim.
Acquire(th, d, strong) ==
    LET p == ProcOf[th]
    IN /\ Free(th)
       /\ refs[p][d] # NULL
       /\ strong => refs[p][d].strong \in 1 .. MaxRef - 1
       /\ refs[p][d].weak < MaxRef
       /\ ~(d = 0 /\ ctx # NULL)
       /\ Becomes(binder_inc_ref(Driver, p, d, strong, NULL))
       /\ UNCHANGED <<alive, buf, userVars>>

\* Handle 0 needs no earlier reference: it is made for the context manager, and
\* has another number where handle 0 still names the one before.
AcquireContextManager(th, strong) ==
    LET p == ProcOf[th]
        d == DescFor(Driver, p, ctx)
        s == binder_get_ref_for_node(Driver, p, ctx)
    IN /\ Free(th)
       /\ ctx # NULL
       /\ node[ctx].proc # p
       /\ s.refs[p][d].strong < MaxRef /\ s.refs[p][d].weak < MaxRef
       /\ Becomes(binder_inc_ref(s, p, d, strong, NULL))
       /\ UNCHANGED <<alive, buf, userVars>>

\* It gives back only its own claims; those of a buffer go with the buffer.
Release(th, d, strong) ==
    LET p == ProcOf[th]
    IN /\ Free(th)
       /\ refs[p][d] # NULL
       /\ IF strong THEN refs[p][d].strong > Cardinality(Handles(p, d, TRUE))
          ELSE refs[p][d].weak > Cardinality(Handles(p, d, FALSE))
       /\ Becomes(binder_dec_ref(Driver, p, d, strong))
       /\ UNCHANGED <<alive, buf, userVars>>

\* BINDER_SET_CONTEXT_MGR
SetContextMgr(n) ==
    /\ Owner[n] \in alive
    /\ ctx = NULL
    /\ node[n] = NULL
    /\ ctx' = n
    /\ node' = [node EXCEPT ![n] = [NewNode(Owner[n]) EXCEPT
                    !.local_weak = 1, !.local_strong = 1,
                    !.has_strong = TRUE, !.has_weak = TRUE]]
    /\ UNCHANGED <<alive, refs, todo, proc_todo, buf, userVars>>

-----------------------------------------------------------------------------
(* The owner is told *)

Strong(x) == x.internal_strong > 0 \/ x.local_strong > 0
Weak(s, n) == RefsTo(s, n) # {} \/ s.node[n].local_weak > 0 \/ Strong(s.node[n])

\* BINDER_WORK_NODE: what the owner has to be told first.
NodeCommand(s, n) ==
    LET x == s.node[n]
    IN IF Weak(s, n) /\ ~x.has_weak THEN "INCREFS"
       ELSE IF Strong(x) /\ ~x.has_strong THEN "ACQUIRE"
       ELSE IF ~Strong(x) /\ x.has_strong THEN "RELEASE"
       ELSE IF ~Weak(s, n) /\ x.has_weak THEN "DECREFS"
       ELSE "none"

\* The node x after the command; it is claimed until the answer comes.
NodeTold(x, command) ==
    CASE command = "INCREFS" ->
            [x EXCEPT !.has_weak = TRUE, !.pending_weak = TRUE, !.local_weak = @ + 1]
      [] command = "ACQUIRE" ->
            [x EXCEPT !.has_strong = TRUE, !.pending_strong = TRUE, !.local_strong = @ + 1]
      [] command = "RELEASE" -> [x EXCEPT !.has_strong = FALSE]
      [] command = "DECREFS" -> [x EXCEPT !.has_weak = FALSE]

\* The node stays on its list until there is nothing left to tell; then it goes,
\* and is freed unless there are claims.
Told(s, n) ==
    IF NodeCommand(s, n) # "none"
    THEN [s EXCEPT !.node[n] = NodeTold(@, NodeCommand(s, n))]
    ELSE [Unqueued(s, n) EXCEPT !.node[n] = IF Weak(s, n) THEN @ ELSE NULL]

\* The node at the head of the thread's list or, when that is empty, of the
\* process's list.
ReadNode(th) ==
    LET list == IF todo[th] # <<>> THEN todo[th] ELSE proc_todo[ProcOf[th]]
        n == Head(list)
    IN /\ Free(th)
       /\ list # <<>>
       /\ n # COMPLETE
       /\ Becomes(Told(Driver, n))
       /\ cmd' = [cmd EXCEPT ![th] = IF NodeCommand(Driver, n) = "none" THEN NoCmd
                                     ELSE [name |-> NodeCommand(Driver, n), node |-> n]]
       /\ UNCHANGED <<alive, buf, parcel, app, held, pending>>

\* BR_TRANSACTION_COMPLETE: the program is done with its parcel.
ReadComplete(th) ==
    /\ Free(th)
    /\ todo[th] # <<>>
    /\ Head(todo[th]) = COMPLETE
    /\ todo' = [todo EXCEPT ![th] = Tail(@)]
    /\ parcel' = [parcel EXCEPT ![th] = {}]
    /\ UNCHANGED <<alive, ctx, node, refs, proc_todo, buf, cmd, app, held, pending>>

\* executeCommand: take a reference and answer, or note one to give back.
Execute(th) ==
    LET n == cmd[th].node
        Answer(name) == cmd' = [cmd EXCEPT ![th] = [name |-> name, node |-> n]]
    IN /\ ProcOf[th] \in alive
       /\ \/ /\ cmd[th].name = "INCREFS"
             /\ held' = [held EXCEPT ![n].weak = @ + 1]
             /\ Answer("INCREFS_DONE")
             /\ UNCHANGED pending
          \/ /\ cmd[th].name = "ACQUIRE"
             /\ held' = [held EXCEPT ![n].strong = @ + 1]
             /\ Answer("ACQUIRE_DONE")
             /\ UNCHANGED pending
          \/ /\ cmd[th].name = "RELEASE" /\ pending[n].strong < MaxPending
             /\ pending' = [pending EXCEPT ![n].strong = @ + 1]
             /\ cmd' = [cmd EXCEPT ![th] = NoCmd]
             /\ UNCHANGED held
          \/ /\ cmd[th].name = "DECREFS" /\ pending[n].weak < MaxPending
             /\ pending' = [pending EXCEPT ![n].weak = @ + 1]
             /\ cmd' = [cmd EXCEPT ![th] = NoCmd]
             /\ UNCHANGED held
       /\ UNCHANGED <<alive, driverVars, buf, parcel, app>>

\* processPendingDerefs, when the thread is back in the pool.
ProcessPendingDerefs(n) ==
    /\ Owner[n] \in alive
    /\ pending[n] # [strong |-> 0, weak |-> 0]
    /\ held' = [held EXCEPT ![n] = [strong |-> @.strong - pending[n].strong,
                                    weak |-> @.weak - pending[n].weak]]
    /\ pending' = [pending EXCEPT ![n] = [strong |-> 0, weak |-> 0]]
    /\ UNCHANGED <<alive, driverVars, buf, cmd, parcel, app>>

\* BC_INCREFS_DONE and BC_ACQUIRE_DONE
WriteDone(th) ==
    LET n == cmd[th].node
        strong == cmd[th].name = "ACQUIRE_DONE"
        known == node[n] # NULL /\ (IF strong THEN node[n].pending_strong ELSE node[n].pending_weak)
        s == IF strong THEN [Driver EXCEPT !.node[n].pending_strong = FALSE]
             ELSE [Driver EXCEPT !.node[n].pending_weak = FALSE]
    IN /\ ProcOf[th] \in alive
       /\ cmd[th].name \in {"INCREFS_DONE", "ACQUIRE_DONE"}
       /\ Becomes(IF known THEN binder_dec_node(s, n, strong, FALSE) ELSE Driver)
       /\ cmd' = [cmd EXCEPT ![th] = NoCmd]
       /\ UNCHANGED <<alive, buf, parcel, app, held, pending>>

\* The owner's program lets go of its own reference.
DropObject(n) ==
    /\ n \in app
    /\ Owner[n] \in alive
    /\ app' = app \ {n}
    /\ UNCHANGED <<alive, driverVars, buf, cmd, parcel, held, pending>>

-----------------------------------------------------------------------------
(* Threads and processes end *)

\* binder_release_work drops a node that is on the list of an exiting thread.
ThreadExit(th) ==
    /\ th \in Exits
    /\ Free(th)
    /\ todo[th] # <<>>
    /\ todo' = [todo EXCEPT ![th] = <<>>]
    /\ parcel' = [parcel EXCEPT ![th] = {}]
    /\ UNCHANGED <<alive, ctx, node, refs, proc_todo, buf, cmd, app, held, pending>>

\* The threads of p and what is on their lists, and the context manager p was.
ThreadsReleased(s, p) ==
    [s EXCEPT !.ctx = IF @ # NULL /\ Owner[@] = p THEN NULL ELSE @,
              !.todo = [th \in Thread |-> IF ProcOf[th] = p THEN <<>> ELSE @[th]]]

\* binder_node_release: without references the node is freed, else it is dead.
NodeReleased_KeepsLocal(s, n) ==
    [Unqueued(s, n) EXCEPT !.node[n] =
        IF RefsTo(s, n) = {} THEN NULL ELSE [@ EXCEPT !.proc = NULL]]
NodeReleased(s, n) ==
    [Unqueued(s, n) EXCEPT !.node[n] =
        IF RefsTo(s, n) = {} THEN NULL
        ELSE [@ EXCEPT !.proc = NULL, !.local_strong = 0, !.local_weak = 0]]

\* The loop of binder_deferred_release over proc->nodes.
NodesReleased(s, p) ==
    LET own == SetToSeq({n \in Node : s.node[n] # NULL /\ s.node[n].proc = p})
        after[i \in 0 .. Len(own)] ==
            IF i = 0 THEN s ELSE NodeReleased(after[i - 1], own[i])
    IN after[Len(own)]

\* The loop over proc->refs_by_desc.
RefsDeleted(s, p) ==
    LET after[i \in 0 .. Cardinality(Node) + 1] ==
            IF i = 0 THEN s
            ELSE IF after[i - 1].refs[p][i - 1] = NULL THEN after[i - 1]
            ELSE binder_delete_ref(after[i - 1], p, i - 1)
    IN after[Cardinality(Node) + 1]

\* binder_deferred_release: threads, nodes, references, work, buffers.
DeferredRelease(p) ==
    LET unref == RefsDeleted(NodesReleased(ThreadsReleased(Driver, p), p), p)
    IN /\ p \in Dies \cap alive
       /\ alive' = alive \ {p}
       /\ Becomes([unref EXCEPT !.proc_todo[p] = <<>>])
       /\ buf' = [b \in Buf |-> IF buf[b] # NULL /\ buf[b].proc = p THEN NULL ELSE buf[b]]
       /\ cmd' = [th \in Thread |-> IF ProcOf[th] = p THEN NoCmd ELSE cmd[th]]
       /\ parcel' = [th \in Thread |-> IF ProcOf[th] = p THEN {} ELSE parcel[th]]
       /\ app' = {n \in app : Owner[n] # p}
       /\ held' = [n \in Node |-> IF Owner[n] = p THEN [strong |-> 0, weak |-> 0] ELSE held[n]]
       /\ pending' = [n \in Node |-> IF Owner[n] = p THEN [strong |-> 0, weak |-> 0]
                                     ELSE pending[n]]

-----------------------------------------------------------------------------
(* The specification *)

Transactions(th) ==
    \E t \in Targets(th) :
        \/ \E objects \in Parcels(th) :
              \/ \E b \in Buf : Send(th, t[1], t[2], objects, b)
              \/ SendRefused(th, t[1], t[2], objects)
        \/ \E m \in Node : SendNoRef(th, t[1], t[2], m)

OwnerStep(th) == ReadNode(th) \/ ReadComplete(th) \/ Execute(th) \/ WriteDone(th)

Next ==
    \/ \E th \in Thread :
          \/ Transactions(th)
          \/ \E b \in Buf : FreeBuffer(th, b)
          \/ \E d \in Desc, strong \in Kinds : Acquire(th, d, strong) \/ Release(th, d, strong)
          \/ \E strong \in Kinds : AcquireContextManager(th, strong)
          \/ OwnerStep(th)
          \/ ThreadExit(th)
    \/ \E n \in Node : ProcessPendingDerefs(n) \/ DropObject(n)
    \/ \E n \in CtxNode : SetContextMgr(n)
    \/ \E p \in Proc : DeferredRelease(p)

Spec == Init /\ [][Next]_vars

-----------------------------------------------------------------------------
(* Properties *)

\* The driver's and the program's variables keep their types; in particular no
\* count of a node, a reference or a program ever goes below zero.
TypeOK ==
    /\ alive \subseteq Proc
    /\ ctx \in CtxNode \cup {NULL}
    /\ \A n \in Node : node[n] \in NodeRec \cup {NULL}
    /\ \A p \in Proc, d \in Desc : refs[p][d] \in RefRec \cup {NULL}
    /\ todo \in [Thread -> Seq(Node \cup {COMPLETE})]
    /\ proc_todo \in [Proc -> Seq(Node)]
    /\ \A b \in Buf : buf[b] \in BufRec \cup {NULL}
    /\ cmd \in [Thread -> Commands]
    /\ parcel \in [Thread -> SUBSET (Node \X BOOLEAN)]
    /\ app \subseteq Node
    /\ held \in [Node -> Counts]
    /\ pending \in [Node -> Counts]

One(b) == IF b THEN 1 ELSE 0

\* A node's counts are exactly its claims: internal_strong_refs the references
\* with a strong claim, local_strong_refs and local_weak_refs the buffers for the
\* object, the objects in the owner's buffers, and the answers still open.
CountsExact ==
    \A n \in Node : node[n] # NULL =>
        /\ node[n].internal_strong =
             Cardinality({r \in RefsTo(Driver, n) : refs[r[1]][r[2]].strong > 0})
        /\ node[n].proc # NULL =>
             /\ node[n].local_strong =
                  Cardinality(Binders(n, TRUE))
                  + Cardinality({b \in Buf : buf[b] # NULL /\ buf[b].target_node = n})
                  + One(node[n].pending_strong) + One(n \in CtxNode)
             /\ node[n].local_weak =
                  Cardinality(Binders(n, FALSE))
                  + One(node[n].pending_weak) + One(n \in CtxNode)

\* No pointer of the driver outlives what it points to: a reference's node
\* exists, a listed node exists, has an owner and is listed once, and a dead node
\* that nothing refers to is gone.
NoDangling ==
    /\ \A p \in Proc, d \in Desc : refs[p][d] # NULL =>
          p \in alive /\ node[refs[p][d].node] # NULL
    /\ \A n \in Node :
          /\ Queued(Driver, n) => node[n] # NULL /\ node[n].proc # NULL
          /\ node[n] # NULL /\ node[n].proc = NULL => RefsTo(Driver, n) # {}
    /\ \A n \in Node :
             Cardinality((UNION {{<<x, i>> : i \in {j \in DOMAIN todo[x] : todo[x][j] = n}}
                                    : x \in Thread})
                         \cup (UNION {{<<x, i>> : i \in {j \in DOMAIN proc_todo[x] : proc_todo[x][j] = n}}
                                         : x \in Proc})) <= 1

\* A handle that a program reads in one of its buffers is good as long as the
\* buffer is: it names the object that was sent, and the claims of the buffers
\* are part of its counts.
HandlesValid ==
    \A b \in Buf : buf[b] # NULL =>
        \A i \in DOMAIN buf[b].objects :
            LET o == buf[b].objects[i]
                r == refs[buf[b].proc][o.desc]
            IN o.type = "HANDLE" =>
                 /\ r # NULL
                 /\ r.node = o.node
                 /\ IF o.strong THEN r.strong >= Cardinality(Handles(buf[b].proc, o.desc, TRUE))
                    ELSE r.weak >= Cardinality(Handles(buf[b].proc, o.desc, FALSE))

\* What the owner was told differs from what is claimed only while the node is
\* on a list, so the owner will be told.
WillBeTold ==
    \A n \in Node : node[n] # NULL /\ node[n].proc # NULL =>
        \/ node[n].has_strong = Strong(node[n]) /\ node[n].has_weak = Weak(Driver, n)
        \/ Queued(Driver, n)

\* The object of n exists: someone in its process holds it.
Exists(n) ==
    \/ n \in app
    \/ \E th \in Thread : <<n, TRUE>> \in parcel[th]
    \/ held[n].strong > 0

\* An object that another process holds strongly, that a transaction is on its
\* way to or that lies in a buffer of its own process exists, and so does one
\* that a BR_ACQUIRE or BR_RELEASE in a thread's read buffer names.
ObjectKept ==
    \A n \in Node \ CtxNode : Owner[n] \in alive =>
        /\ (\E r \in RefsTo(Driver, n) : refs[r[1]][r[2]].strong > 0) => Exists(n)
        /\ (\E b \in Buf : buf[b] # NULL /\ buf[b].target_node = n) => Exists(n)
        /\ Binders(n, TRUE) # {} => Exists(n)
        /\ \A th \in Thread :
              cmd[th].node = n /\ cmd[th].name \in {"ACQUIRE", "RELEASE"} => Exists(n)

\* IPCThreadState::executeCommand asserts of BR_ACQUIRE that the reference counts
\* it is given belong to the object it is given: the object must still exist when
\* its owner executes the command.
AcquireFindsObject ==
    \A th \in Thread : cmd[th].name = "ACQUIRE" => Exists(cmd[th].node)

=============================================================================
