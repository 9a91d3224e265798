----------------------------- MODULE RemoteRefs -----------------------------
(***************************************************************************)
(* The proxies of one process for one handle: the handle table of          *)
(* ProcessState, the reference counts of BpBinder and the commands that    *)
(* IPCThreadState writes for them, with the counts the driver keeps.       *)
(*                                                                         *)
(* A reference command goes to mOut of the thread that happens to take the *)
(* first or drop the last reference, and reaches the driver when that      *)
(* thread enters it next.  What the driver counts is therefore always some *)
(* commands behind, by a different number for each thread.                 *)
(*                                                                         *)
(* The table is used under ProcessState::mLock, so a lookup is one step.   *)
(* The driver takes the whole of mOut under its lock.  A thread has one    *)
(* pointer to a proxy at a time.  Handle 0, which the driver treats        *)
(* differently, is in BinderRefs and ServiceManager.                       *)
(*                                                                         *)
(* A definition Name_Fault is a faulty variant of the definition Name that *)
(* follows it; the specification does not use it.                          *)
(***************************************************************************)
EXTENDS Naturals, Sequences, FiniteSets, SequencesExt

CONSTANTS
    Thread,  \* the threads of the process
    Proxy,   \* memory for BpBinder objects
    Node,    \* the objects that the handle may come to denote
    Kinds,   \* TRUE: a parcel may hold a handle; FALSE: it may hold a weak handle
    MaxOut,  \* bound on the commands in mOut
    NULL     \* the null pointer

ASSUME RemoteAssumption ==
    /\ NULL \notin Proxy \cup Node
    /\ IsFiniteSet(Thread) /\ IsFiniteSet(Proxy)
    /\ Kinds \subseteq BOOLEAN
    /\ MaxOut \in Nat

VARIABLES
    ref,      \* the driver's struct binder_ref for the handle, or NULL
    parcel,   \* the object in the Parcel that a thread works on, or NULL
    mOut,     \* of a thread's IPCThreadState
    bp,       \* the BpBinder objects
    strong,   \* threads that have a strong pointer to a BpBinder
    weak,     \* threads that have a weak pointer to a BpBinder
    binder,   \* e->binder of the handle's entry in the table
    dying,    \* the BpBinder whose destructor a thread has started, or NULL
    refused,  \* history: the driver has refused a command
    overtaken \* history: a command of one thread has overtaken one of another

driverVars == <<ref, refused, overtaken>>
userVars == <<parcel, mOut, bp, strong, weak, binder, dying>>
vars == <<driverVars, userVars>>

\* node is what the handle denoted when the proxy was made.
BpRec == [state: {"free", "live", "dying"}, node: Node \cup {NULL}]
RefRec == [node: Node, strong: Nat, weak: Nat]
ParcelRec == [node: Node, strong: BOOLEAN]

ASSUME NoRecord == NULL \notin RefRec \cup ParcelRec

Increments == {"INCREFS", "ACQUIRE"}
Decrements == {"RELEASE", "DECREFS"}
Frees == {"FREE_STRONG", "FREE_WEAK"}

\* after is history: the threads that had increments in mOut when this decrement was
\* written, and have them still.
CommandRec == [op: Increments \cup Decrements \cup Frees, after: SUBSET Thread]

NoBp == [state |-> "free", node |-> NULL]

Init ==
    /\ ref = NULL
    /\ parcel = [th \in Thread |-> NULL]
    /\ mOut = [th \in Thread |-> <<>>]
    /\ bp = [p \in Proxy |-> NoBp]
    /\ strong = [p \in Proxy |-> {}]
    /\ weak = [p \in Proxy |-> {}]
    /\ binder = NULL
    /\ dying = [th \in Thread |-> NULL]
    /\ refused = FALSE
    /\ overtaken = FALSE

-----------------------------------------------------------------------------
(* The driver *)

\* A state of the driver: [ref, refused].
Refuse(s) == [s EXCEPT !.refused = TRUE]

\* binder_inc_ref on what binder_get_ref finds.
IncRef(s, field) ==
    IF s.ref = NULL THEN Refuse(s)
    ELSE IF field = "strong" THEN [s EXCEPT !.ref.strong = @ + 1]
    ELSE [s EXCEPT !.ref.weak = @ + 1]

\* binder_dec_ref; the reference goes with its last count.
DecRef(s, field) ==
    IF s.ref = NULL THEN Refuse(s)
    ELSE IF s.ref[field] = 0 THEN Refuse(s)
    ELSE LET r == [s.ref EXCEPT ![field] = @ - 1]
         IN [s EXCEPT !.ref = IF r.strong = 0 /\ r.weak = 0 THEN NULL ELSE r]

\* binder_thread_write for one command.
Apply(s, c) ==
    CASE c.op = "INCREFS" -> IncRef(s, "weak")
      [] c.op = "ACQUIRE" -> IncRef(s, "strong")
      [] c.op = "RELEASE" -> DecRef(s, "strong")
      [] c.op = "DECREFS" -> DecRef(s, "weak")
      [] c.op = "FREE_STRONG" -> DecRef(s, "strong")
      [] c.op = "FREE_WEAK" -> DecRef(s, "weak")

\* talkWithDriver writes mOut.
Flush(th) ==
    LET s == FoldLeft(Apply, [ref |-> ref, refused |-> refused], mOut[th])
        Seen(q) == [i \in DOMAIN q |-> [q[i] EXCEPT !.after = @ \ {th}]]
    IN /\ mOut[th] # <<>>
       /\ ref' = s.ref
       /\ refused' = s.refused
       /\ overtaken' = (overtaken \/ \E i \in DOMAIN mOut[th] : mOut[th][i].after # {})
       /\ mOut' = [u \in Thread |-> IF u = th THEN <<>> ELSE Seen(mOut[u])]
       /\ UNCHANGED <<parcel, bp, strong, weak, binder, dying>>

\* A transaction arrives, with the handle in it; the buffer has a count of its own.
\* When the handle denotes nothing it may come to denote any node.
Receive(th, n, k) ==
    LET r == IF ref = NULL THEN [node |-> n, strong |-> 0, weak |-> 0] ELSE ref
    IN /\ mOut[th] = <<>> /\ parcel[th] = NULL /\ dying[th] = NULL
       /\ r.node = n
       /\ ref' = IncRef([ref |-> r, refused |-> FALSE], IF k THEN "strong" ELSE "weak").ref
       /\ parcel' = [parcel EXCEPT ![th] = [node |-> n, strong |-> k]]
       /\ UNCHANGED <<refused, overtaken, mOut, bp, strong, weak, binder, dying>>

-----------------------------------------------------------------------------
(* IPCThreadState: commands *)

\* The threads that have increments to write.
Behind(th) ==
    {u \in Thread \ {th} : \E i \in DOMAIN mOut[u] : mOut[u][i].op \in Increments}

Command(th, op) == [op |-> op, after |-> IF op \in Decrements THEN Behind(th) ELSE {}]

\* incStrongHandle, decStrongHandle, incWeakHandle, decWeakHandle, freeBuffer
Write(th, ops) ==
    /\ Len(mOut[th]) + Len(ops) =< MaxOut
    /\ mOut' = [mOut EXCEPT ![th] = @ \o [i \in DOMAIN ops |-> Command(th, ops[i])]]

\* The Parcel is freed.
FreeParcel(th) ==
    /\ parcel[th] # NULL
    /\ Write(th, <<IF parcel[th].strong THEN "FREE_STRONG" ELSE "FREE_WEAK">>)
    /\ parcel' = [parcel EXCEPT ![th] = NULL]
    /\ UNCHANGED <<driverVars, bp, strong, weak, binder, dying>>

-----------------------------------------------------------------------------
(* ProcessState: the handle table *)

\* Thread th is in code of the program, and has no pointer to a proxy of its own.
Free(th) ==
    /\ dying[th] = NULL
    /\ \A p \in Proxy : th \notin strong[p] \cup weak[p]

\* attemptIncWeak on the entry fails: there is no BpBinder, or its last weak
\* reference has gone and its destructor is running.
Stale == IF binder = NULL THEN TRUE ELSE bp[binder].state # "live"

\* new BpBinder(handle), put into the table.
NewBp(p, n) ==
    /\ bp[p].state = "free"
    /\ bp' = [bp EXCEPT ![p] = [state |-> "live", node |-> n]]
    /\ binder' = p

\* getStrongProxyForHandle, for the handle in the thread's Parcel.
GetStrongNew(th, p) ==
    /\ Free(th) /\ parcel[th] # NULL /\ Stale
    /\ parcel[th].strong
    /\ NewBp(p, parcel[th].node)
    /\ strong' = [strong EXCEPT ![p] = {th}]
    /\ Write(th, <<"INCREFS", "ACQUIRE">>)
    /\ UNCHANGED <<driverVars, parcel, weak, dying>>

\* ... force_set: onFirstRef again when there is no strong reference at present.
GetStrongOld_NoFirstRef(th) ==
    /\ Free(th) /\ parcel[th] # NULL /\ ~Stale
    /\ parcel[th].strong
    /\ strong' = [strong EXCEPT ![binder] = @ \cup {th}]
    /\ UNCHANGED <<driverVars, parcel, mOut, bp, weak, binder, dying>>
GetStrongOld(th) ==
    /\ Free(th) /\ parcel[th] # NULL /\ ~Stale
    /\ parcel[th].strong
    /\ strong' = [strong EXCEPT ![binder] = @ \cup {th}]
    /\ Write(th, IF strong[binder] = {} THEN <<"ACQUIRE">> ELSE <<>>)
    /\ UNCHANGED <<driverVars, parcel, bp, weak, binder, dying>>

\* getWeakProxyForHandle
GetWeakNew(th, p) ==
    /\ Free(th) /\ parcel[th] # NULL /\ Stale
    /\ ~parcel[th].strong
    /\ NewBp(p, parcel[th].node)
    /\ weak' = [weak EXCEPT ![p] = {th}]
    /\ Write(th, <<"INCREFS">>)
    /\ UNCHANGED <<driverVars, parcel, strong, dying>>

GetWeakOld(th) ==
    /\ Free(th) /\ parcel[th] # NULL /\ ~Stale
    /\ ~parcel[th].strong
    /\ weak' = [weak EXCEPT ![binder] = @ \cup {th}]
    /\ UNCHANGED <<driverVars, parcel, mOut, bp, strong, binder, dying>>

-----------------------------------------------------------------------------
(* BpBinder: references *)

\* A strong pointer is given to another thread.
Share(th, u, p) ==
    /\ th \in strong[p] /\ Free(u)
    /\ strong' = [strong EXCEPT ![p] = @ \cup {u}]
    /\ UNCHANGED <<driverVars, parcel, mOut, bp, weak, binder, dying>>

\* A thread keeps a weak pointer in place of its strong one, or makes it strong again:
\* that fails once there is no strong reference (onIncStrongAttempted).
Promote(th, p) ==
    /\ th \in weak[p] /\ strong[p] # {}
    /\ strong' = [strong EXCEPT ![p] = @ \cup {th}]
    /\ weak' = [weak EXCEPT ![p] = @ \ {th}]
    /\ UNCHANGED <<driverVars, parcel, mOut, bp, binder, dying>>

\* onLastStrongRef writes BC_RELEASE.
Released(th, p) == IF strong[p] = {th} THEN <<"RELEASE">> ELSE <<>>

Demote(th, p) ==
    /\ th \in strong[p]
    /\ strong' = [strong EXCEPT ![p] = @ \ {th}]
    /\ weak' = [weak EXCEPT ![p] = @ \cup {th}]
    /\ Write(th, Released(th, p))
    /\ UNCHANGED <<driverVars, parcel, bp, binder, dying>>

\* A pointer goes; with the last one, of either kind, the destructor starts.
Drop(th, p) ==
    LET last == strong[p] \cup weak[p] = {th}
    IN /\ th \in strong[p] \cup weak[p]
       /\ strong' = [strong EXCEPT ![p] = @ \ {th}]
       /\ weak' = [weak EXCEPT ![p] = @ \ {th}]
       /\ Write(th, Released(th, p))
       /\ bp' = [bp EXCEPT ![p].state = IF last THEN "dying" ELSE @]
       /\ dying' = [dying EXCEPT ![th] = IF last THEN p ELSE @]
       /\ UNCHANGED <<driverVars, parcel, binder>>

\* ~BpBinder: expungeHandle, and BC_DECREFS.
Destroy_Expunges(th) ==
    LET p == dying[th]
    IN /\ p # NULL
       /\ binder' = NULL
       /\ bp' = [bp EXCEPT ![p] = NoBp]
       /\ dying' = [dying EXCEPT ![th] = NULL]
       /\ Write(th, <<"DECREFS">>)
       /\ UNCHANGED <<driverVars, parcel, strong, weak>>
Destroy(th) ==
    LET p == dying[th]
    IN /\ p # NULL
       /\ binder' = IF binder = p THEN NULL ELSE binder
       /\ bp' = [bp EXCEPT ![p] = NoBp]
       /\ dying' = [dying EXCEPT ![th] = NULL]
       /\ Write(th, <<"DECREFS">>)
       /\ UNCHANGED <<driverVars, parcel, strong, weak>>

-----------------------------------------------------------------------------
\* The model ends with the first command the driver refuses.
Next ==
    ~refused /\ \E th \in Thread :
        \/ Flush(th)
        \/ \E n \in Node, k \in Kinds : Receive(th, n, k)
        \/ FreeParcel(th)
        \/ GetStrongOld(th) \/ GetWeakOld(th)
        \/ \E p \in Proxy :
              \/ GetStrongNew(th, p) \/ GetWeakNew(th, p)
              \/ \E u \in Thread : Share(th, u, p)
              \/ Promote(th, p) \/ Demote(th, p) \/ Drop(th, p)
        \/ Destroy(th)

Spec == Init /\ [][Next]_vars

-----------------------------------------------------------------------------
(* Properties *)

\* Every variable keeps its type.
TypeOK ==
    /\ ref = NULL \/ ref \in RefRec
    /\ \A th \in Thread : parcel[th] = NULL \/ parcel[th] \in ParcelRec
    /\ mOut \in [Thread -> Seq(CommandRec)]
    /\ bp \in [Proxy -> BpRec]
    /\ strong \in [Proxy -> SUBSET Thread]
    /\ weak \in [Proxy -> SUBSET Thread]
    /\ binder \in Proxy \cup {NULL}
    /\ dying \in [Thread -> Proxy \cup {NULL}]
    /\ refused \in BOOLEAN
    /\ overtaken \in BOOLEAN

Live == {p \in Proxy : bp[p].state = "live"}

\* The table never leads to freed memory, and finds every BpBinder that is in use:
\* there is one at a time, also when a handle arrives while the destructor of the
\* proxy before is running (ProcessState.cpp, getWeakProxyForHandle: "there is a race
\* condition between someone releasing a reference on this BpBinder, and a new
\* reference on its handle arriving from the driver").
TableExact ==
    /\ binder # NULL => bp[binder].state # "free"
    /\ Live # {} => Live = {binder}

\* How many commands op the threads have not written yet.
Unwritten(op) ==
    Cardinality({x \in Thread \X (1 .. MaxOut) :
        x[2] =< Len(mOut[x[1]]) /\ mOut[x[1]][x[2]].op = op})

Parcels(k) == Cardinality({th \in Thread : parcel[th] # NULL /\ parcel[th].strong = k})

\* The driver's counts and the commands still to be written add up to what is in use: a
\* claim for each parcel and for each BpBinder with a strong pointer, and a weak one for
\* each BpBinder.
Accounted ==
    LET s == IF ref = NULL THEN 0 ELSE ref.strong
        w == IF ref = NULL THEN 0 ELSE ref.weak
    IN /\ s + Unwritten("ACQUIRE") =
             Parcels(TRUE) + Cardinality({p \in Proxy : strong[p] # {}})
             + Unwritten("RELEASE") + Unwritten("FREE_STRONG")
       /\ w + Unwritten("INCREFS") =
             Parcels(FALSE) + Cardinality({p \in Proxy : bp[p].state # "free"})
             + Unwritten("DECREFS") + Unwritten("FREE_WEAK")

\* No claim is forgotten or given back twice: up to the first refusal the counts add up.
\* And as long as no decrement overtakes an increment that another thread wrote before
\* it, the driver refuses nothing, every proxy's handle denotes the object it was made
\* for, and a proxy in use has a strong claim there, however late the threads write.
Held ==
    /\ ~refused => Accounted
    /\ ~overtaken =>
          /\ ~refused
          /\ \A p \in Live :
                /\ ref # NULL
                /\ ref.node = bp[p].node
                /\ strong[p] # {} => ref.strong > 0
=============================================================================
