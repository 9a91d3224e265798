---------------------------- MODULE BinderDeath ----------------------------
(***************************************************************************)
(* Death notifications in the driver (driver/binder.c), for one process    *)
(* that holds references to nodes of other processes.                      *)
(*                                                                         *)
(* A notification is a struct binder_ref_death.  It belongs to a reference *)
(* until the program clears it, and is a work item besides: it moves from  *)
(* a todo list to proc->delivered_death and, once cleared, back to a todo  *)
(* list before it is freed.  Other work is left out, so the lists hold     *)
(* nothing but notifications.                                              *)
(*                                                                         *)
(* A definition Name_Fault is a faulty variant of the definition Name that *)
(* follows it; the specification does not use it.                          *)
(***************************************************************************)
EXTENDS Naturals, Sequences, FiniteSets

CONSTANTS
    Handle,   \* ref->desc
    Thread,   \* the threads of the process
    Loopers,  \* threads with LOOPER_STATE_REGISTERED or ENTERED
    Cookie,   \* the cookies the program gives to its notifications
    Death,    \* memory for struct binder_ref_death
    Exits,    \* threads that may exit
    NULL      \* the null pointer

ASSUME DeathAssumption ==
    /\ Loopers \cup Exits \subseteq Thread
    /\ NULL \notin Death \cup Cookie

VARIABLES
    refs,            \* handles that have a struct binder_ref
    dead,            \* handles whose node has node->proc = NULL
    ref_death,       \* ref->death
    death,           \* the notifications
    todo,            \* thread->todo
    proc_todo,       \* proc->todo
    delivered_death, \* proc->delivered_death
    return_error,    \* threads whose return_error is BR_ERROR
    released,        \* binder_deferred_release has run
    bug              \* an assertion of the driver failed

lists == <<todo, proc_todo, delivered_death>>
deathVars == <<refs, dead, ref_death, death, lists, return_error, released, bug>>

Types == {"DEAD_BINDER", "DEAD_BINDER_AND_CLEAR", "CLEAR_DEATH_NOTIFICATION"}

\* type is "none" after kzalloc, "free" when the memory is not in use.  Two fields are
\* history: BR_DEAD_BINDER was returned (told), or an exiting thread dropped it (lost).
DeathRec == [type: Types \cup {"free", "none"}, cookie: Cookie \cup {NULL},
             told: BOOLEAN, lost: BOOLEAN]

Free == [type |-> "free", cookie |-> NULL, told |-> FALSE, lost |-> FALSE]

DeathInit ==
    /\ refs = {}
    /\ dead = [h \in Handle |-> FALSE]
    /\ ref_death = [h \in Handle |-> NULL]
    /\ death = [d \in Death |-> Free]
    /\ todo = [th \in Thread |-> <<>>]
    /\ proc_todo = <<>>
    /\ delivered_death = <<>>
    /\ return_error = {}
    /\ released = FALSE
    /\ bug = FALSE

-----------------------------------------------------------------------------
(* Helpers *)

Items(q) == {q[i] : i \in DOMAIN q}

\* list_del: the sequence q without d.
Without(q, d) ==
    IF d \notin Items(q) THEN q
    ELSE LET k == CHOOSE i \in DOMAIN q : q[i] = d
         IN [i \in 1 .. Len(q) - 1 |-> IF i < k THEN q[i] ELSE q[i + 1]]

\* !list_empty(&death->work.entry)
OnList(d) ==
    \/ d \in Items(proc_todo) \cup Items(delivered_death)
    \/ \E th \in Thread : d \in Items(todo[th])

\* The work goes to the thread itself when it is a looper, else to the process.
Queue(th, d) ==
    IF th \in Loopers
    THEN todo' = [todo EXCEPT ![th] = Append(@, d)] /\ UNCHANGED proc_todo
    ELSE proc_todo' = Append(proc_todo, d) /\ UNCHANGED todo

\* binder_thread_write stops while return_error is set.
CanWrite(th) == ~released /\ th \notin return_error

-----------------------------------------------------------------------------
(* References and nodes *)

\* A transaction brings a handle, of a node that may be dead already.
GetRef(h) ==
    /\ ~released
    /\ h \notin refs
    /\ refs' = refs \cup {h}
    /\ \E b \in BOOLEAN : dead' = [dead EXCEPT ![h] = b]
    /\ UNCHANGED <<ref_death, death, lists, return_error, released, bug>>

\* binder_delete_ref: the notification goes with the reference, from whichever
\* list it is on.
DeleteRef(h) ==
    LET d == ref_death[h]
    IN /\ ~released
       /\ h \in refs
       /\ refs' = refs \ {h}
       /\ ref_death' = [ref_death EXCEPT ![h] = NULL]
       /\ death' = [e \in Death |-> IF e = d THEN Free ELSE death[e]]
       /\ todo' = [th \in Thread |-> Without(todo[th], d)]
       /\ proc_todo' = Without(proc_todo, d)
       /\ delivered_death' = Without(delivered_death, d)
       /\ UNCHANGED <<dead, return_error, released, bug>>

\* binder_node_release of the node of h: its process is gone.
NodeRelease(h) ==
    LET d == ref_death[h]
    IN /\ ~dead[h]
       /\ dead' = [dead EXCEPT ![h] = TRUE]
       /\ IF d = NULL THEN UNCHANGED <<death, proc_todo, bug>>
          ELSE IF OnList(d) THEN bug' = TRUE /\ UNCHANGED <<death, proc_todo>>
          ELSE /\ death' = [death EXCEPT ![d].type = "DEAD_BINDER"]
               /\ proc_todo' = Append(proc_todo, d)
               /\ UNCHANGED bug
       /\ UNCHANGED <<refs, ref_death, todo, delivered_death, return_error, released>>

-----------------------------------------------------------------------------
(* Commands *)

\* BC_REQUEST_DEATH_NOTIFICATION, also for a node that is already dead.
RequestDeath_AliveOnly(th, h, c, d) ==
    /\ CanWrite(th)
    /\ h \in refs
    /\ ref_death[h] = NULL
    /\ death[d].type = "free"
    /\ ref_death' = [ref_death EXCEPT ![h] = d]
    /\ death' = [death EXCEPT ![d] = [Free EXCEPT !.type = "none", !.cookie = c]]
    /\ UNCHANGED <<refs, dead, lists, return_error, released, bug>>
RequestDeath(th, h, c, d) ==
    /\ CanWrite(th)
    /\ h \in refs
    /\ ref_death[h] = NULL
    /\ death[d].type = "free"
    /\ ref_death' = [ref_death EXCEPT ![h] = d]
    /\ death' = [death EXCEPT ![d] =
                    [Free EXCEPT !.type = IF dead[h] THEN "DEAD_BINDER" ELSE "none",
                                 !.cookie = c]]
    /\ IF dead[h] THEN Queue(th, d) ELSE UNCHANGED <<todo, proc_todo>>
    /\ UNCHANGED <<refs, dead, delivered_death, return_error, released, bug>>

\* kzalloc fails, and the thread gets BR_ERROR.
RequestNoMemory(th, h) ==
    /\ CanWrite(th)
    /\ h \in refs
    /\ ref_death[h] = NULL
    /\ return_error' = return_error \cup {th}
    /\ UNCHANGED <<refs, dead, ref_death, death, lists, released, bug>>

\* The type of a notification that is cleared while it is on a list.
ClearedType(d) == IF OnList(d) THEN "DEAD_BINDER_AND_CLEAR" ELSE "CLEAR_DEATH_NOTIFICATION"

\* BC_CLEAR_DEATH_NOTIFICATION: the confirmation waits until BR_DEAD_BINDER, if
\* it is on its way, has been returned and done with.
ClearDeath(th, h, c) ==
    LET d == ref_death[h]
    IN /\ CanWrite(th)
       /\ h \in refs
       /\ d # NULL
       /\ death[d].cookie = c
       /\ ref_death' = [ref_death EXCEPT ![h] = NULL]
       /\ death' = [death EXCEPT ![d].type = ClearedType(d)]
       /\ IF OnList(d) THEN UNCHANGED <<todo, proc_todo>> ELSE Queue(th, d)
       /\ bug' = (bug \/ (OnList(d) /\ death[d].type # "DEAD_BINDER"))
       /\ UNCHANGED <<refs, dead, delivered_death, return_error, released>>

\* The first delivered notification with cookie c.
DoneWith(c) ==
    {delivered_death[i] : i \in {j \in DOMAIN delivered_death :
        /\ death[delivered_death[j]].cookie = c
        /\ \A k \in 1 .. j - 1 : death[delivered_death[k]].cookie # c}}

\* BC_DEAD_BINDER_DONE
DeadBinderDone(th, c) ==
    /\ CanWrite(th)
    /\ \E d \in DoneWith(c) :
          /\ delivered_death' = Without(delivered_death, d)
          /\ IF death[d].type = "DEAD_BINDER_AND_CLEAR"
             THEN /\ death' = [death EXCEPT ![d].type = "CLEAR_DEATH_NOTIFICATION"]
                  /\ Queue(th, d)
             ELSE UNCHANGED <<death, todo, proc_todo>>
    /\ UNCHANGED <<refs, dead, ref_death, return_error, released, bug>>

-----------------------------------------------------------------------------
(* binder_thread_read *)

\* BR_DEAD_BINDER or BR_CLEAR_DEATH_NOTIFICATION_DONE for d, the first item of
\* its list.
Deliver(d) ==
    IF death[d].type = "CLEAR_DEATH_NOTIFICATION"
    THEN /\ death' = [death EXCEPT ![d] = Free]
         /\ UNCHANGED delivered_death
    ELSE /\ death' = [death EXCEPT ![d].told = TRUE]
         /\ delivered_death' = <<d>> \o delivered_death

ReadThreadWork(th) ==
    /\ ~released
    /\ todo[th] # <<>>
    /\ Deliver(Head(todo[th]))
    /\ todo' = [todo EXCEPT ![th] = Tail(@)]
    /\ UNCHANGED <<refs, dead, ref_death, proc_todo, return_error, released, bug>>

ReadProcWork(th) ==
    /\ ~released
    /\ todo[th] = <<>>
    /\ th \notin return_error
    /\ proc_todo # <<>>
    /\ Deliver(Head(proc_todo))
    /\ proc_todo' = Tail(proc_todo)
    /\ UNCHANGED <<refs, dead, ref_death, todo, return_error, released, bug>>

\* BR_ERROR
ReadError(th) ==
    /\ ~released
    /\ th \in return_error
    /\ return_error' = return_error \ {th}
    /\ UNCHANGED <<refs, dead, ref_death, death, lists, released, bug>>

-----------------------------------------------------------------------------
(* binder_release_work *)

\* A notification that is cleared is freed; one that is not stays with its
\* reference, off every list.
ReleasedFrom_All(q) == Items(q)
ReleasedFrom(q) ==
    {d \in Items(q) : death[d].type \in {"DEAD_BINDER_AND_CLEAR", "CLEAR_DEATH_NOTIFICATION"}}

\* binder_free_thread
ThreadExit(th) ==
    /\ th \in Exits
    /\ ~released
    /\ todo[th] # <<>> \/ th \in return_error
    /\ death' = [d \in Death |->
                    IF d \in ReleasedFrom(todo[th]) THEN Free
                    ELSE [death[d] EXCEPT !.lost = @ \/ d \in Items(todo[th])]]
    /\ todo' = [todo EXCEPT ![th] = <<>>]
    /\ return_error' = return_error \ {th}
    /\ UNCHANGED <<refs, dead, ref_death, proc_todo, delivered_death, released, bug>>

\* binder_deferred_release: the threads, the references, then proc->todo and
\* proc->delivered_death.
DeferredRelease ==
    LET ofRef == {ref_death[h] : h \in Handle} \ {NULL}
        cleared == (UNION {ReleasedFrom(todo[th]) : th \in Thread})
                   \cup ReleasedFrom(proc_todo) \cup ReleasedFrom(delivered_death)
    IN /\ ~released
       /\ released' = TRUE
       /\ refs' = {}
       /\ ref_death' = [h \in Handle |-> NULL]
       /\ death' = [d \in Death |-> IF d \in ofRef \cup cleared THEN Free ELSE death[d]]
       /\ todo' = [th \in Thread |-> <<>>]
       /\ proc_todo' = <<>>
       /\ delivered_death' = <<>>
       /\ return_error' = {}
       /\ UNCHANGED <<dead, bug>>

-----------------------------------------------------------------------------
Command(th) ==
    \/ \E h \in Handle, c \in Cookie :
          \/ \E d \in Death : RequestDeath(th, h, c, d)
          \/ ClearDeath(th, h, c)
    \/ \E h \in Handle : RequestNoMemory(th, h)
    \/ \E c \in Cookie : DeadBinderDone(th, c)

Read(th) == ReadThreadWork(th) \/ ReadProcWork(th) \/ ReadError(th)

DeathNext ==
    \/ \E h \in Handle : GetRef(h) \/ DeleteRef(h) \/ NodeRelease(h)
    \/ \E th \in Thread : Command(th) \/ Read(th) \/ ThreadExit(th)
    \/ DeferredRelease

DeathSpec == DeathInit /\ [][DeathNext]_deathVars

-----------------------------------------------------------------------------
(* Properties *)

\* Every variable keeps its type.
DeathTypeOK ==
    /\ refs \subseteq Handle
    /\ dead \in [Handle -> BOOLEAN]
    /\ ref_death \in [Handle -> Death \cup {NULL}]
    /\ death \in [Death -> DeathRec]
    /\ todo \in [Thread -> Seq(Death)]
    /\ proc_todo \in Seq(Death)
    /\ delivered_death \in Seq(Death)
    /\ return_error \subseteq Thread
    /\ released \in BOOLEAN
    /\ bug \in BOOLEAN

Allocated == {d \in Death : death[d].type # "free"}
Queues == {proc_todo, delivered_death} \cup {todo[th] : th \in Thread}

\* Every notification in use has exactly one owner to free it: its reference, or,
\* once it is cleared, the one list it is on.  So it is neither freed twice, nor
\* used after it was freed, nor forgotten, also when references, threads and
\* the process go in the middle of the exchange.
OneOwner ==
    /\ \A h \in Handle : ref_death[h] # NULL => h \in refs /\ ref_death[h] \in Allocated
    /\ UNION {Items(q) : q \in Queues} \subseteq Allocated
    /\ \A d \in Allocated :
          LET holders == {h \in Handle : ref_death[h] = d}
              cleared == death[d].type \in {"DEAD_BINDER_AND_CLEAR", "CLEAR_DEATH_NOTIFICATION"}
          IN IF cleared THEN holders = {} /\ OnList(d) ELSE Cardinality(holders) = 1

\* A program that asks for a notification is told of the death, once, whether the death
\* or the request comes first.  The notification of a reference is on a list only after
\* the death; after it, the notification is on its way or was returned, or was on the
\* list of a thread that exited: nothing else loses a death.  What is waiting to be
\* returned has not been returned before.  So no assertion of the driver fails.
ToldOnce ==
    /\ ~bug
    /\ \A h \in Handle : ref_death[h] # NULL =>
          LET d == ref_death[h]
          IN /\ OnList(d) => dead[h] /\ death[d].type = "DEAD_BINDER"
             /\ dead[h] => OnList(d) \/ death[d].told \/ death[d].lost
    /\ \A d \in Items(proc_todo) \cup (UNION {Items(todo[th]) : th \in Thread}) :
          ~death[d].told \/ death[d].type = "CLEAR_DEATH_NOTIFICATION"
=============================================================================
