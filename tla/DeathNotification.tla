------------------------- MODULE DeathNotification -------------------------
(***************************************************************************)
(* Death notifications from end to end: BpBinder::linkToDeath, its         *)
(* unlinkToDeath and sendObituary (BpBinder.cpp) over the commands of      *)
(* IPCThreadState (IPCThreadState.cpp) and the driver (BinderDeath).       *)
(*                                                                         *)
(* The cookie of a notification is the address of its proxy, so the driver *)
(* holds a pointer to an object that the program may want to delete; each  *)
(* notification holds a weak reference on the proxy for that reason.       *)
(*                                                                         *)
(* A section under BpBinder::mLock is one step: it enters the driver at    *)
(* most once, does not wait there, and what it changes is read only under  *)
(* the lock, but for mObitsSent, which sendObituary also reads before it.  *)
(* The driver takes the commands of mOut one at a time; memory for         *)
(* notifications does not run out here, and the process does not end.      *)
(*                                                                         *)
(* A definition Name_Fault is a faulty variant of the definition Name that *)
(* follows it; the specification does not use it.                          *)
(***************************************************************************)
EXTENDS BinderDeath

CONSTANTS
    HandleOf,   \* mHandle of a proxy; the proxies are the cookies
    Recipient,  \* DeathRecipients
    ProxyOf     \* the proxy a recipient is linked to

Proxy == Cookie

ASSUME ProxyAssumption ==
    /\ HandleOf \in [Proxy -> Handle]
    /\ \A p, q \in Proxy : HandleOf[p] = HandleOf[q] => p = q
    /\ ProxyOf \in [Recipient -> Proxy]
    /\ NULL # {}

VARIABLES
    exists,      \* proxies that are allocated
    held,        \* proxies the program has a strong reference to
    weak,        \* weak references that notifications hold on a proxy
    mObitsSent,  \* of BpBinder
    mObituaries, \* of BpBinder: the recipients, or NULL
    mIn,         \* commands a thread has read and not executed
    mOut,        \* cookies for which a thread has BC_DEAD_BINDER_DONE to write
    obituary,    \* the proxy whose sendObituary a thread is in, or NULL
    taken,       \* recipients that sendObituary still has to call, or NULL
    link         \* history: what became of the link of a recipient

userVars == <<exists, held, weak, mObitsSent, mObituaries, mIn, mOut, obituary,
              taken, link>>
vars == <<deathVars, userVars>>

Init ==
    /\ DeathInit
    /\ exists = {}
    /\ held = {}
    /\ weak = [p \in Proxy |-> 0]
    /\ mObitsSent = [p \in Proxy |-> FALSE]
    /\ mObituaries = [p \in Proxy |-> NULL]
    /\ mIn = [th \in Thread |-> <<>>]
    /\ mOut = [th \in Thread |-> <<>>]
    /\ obituary = [th \in Thread |-> NULL]
    /\ taken = [th \in Thread |-> NULL]
    /\ link = [r \in Recipient |-> "none"]

-----------------------------------------------------------------------------
(* Proxies *)

\* A handle arrives and has no proxy: new BpBinder, with its BC_INCREFS.
NewProxy(p) ==
    /\ p \notin exists
    /\ GetRef(HandleOf[p])
    /\ exists' = exists \cup {p}
    /\ held' = held \cup {p}
    /\ mObitsSent' = [mObitsSent EXCEPT ![p] = FALSE]
    /\ mObituaries' = [mObituaries EXCEPT ![p] = NULL]
    /\ UNCHANGED <<weak, mIn, mOut, obituary, taken, link>>

\* ... or has one that nobody holds: getStrongProxyForHandle takes it again.
HoldProxy(p) ==
    /\ p \in exists \ held
    /\ held' = held \cup {p}
    /\ UNCHANGED <<deathVars, exists, weak, mObitsSent, mObituaries, mIn, mOut,
                   obituary, taken, link>>

\* The last strong reference goes.
DropProxy(p) ==
    /\ p \in held
    /\ held' = held \ {p}
    /\ UNCHANGED <<deathVars, exists, weak, mObitsSent, mObituaries, mIn, mOut,
                   obituary, taken, link>>

\* ~BpBinder, when the last weak reference has gone too; BC_DECREFS gives the
\* handle back.
DeleteProxy(p) ==
    /\ p \in exists \ held
    /\ weak[p] = 0
    /\ DeleteRef(HandleOf[p])
    /\ exists' = exists \ {p}
    /\ UNCHANGED <<held, weak, mObitsSent, mObituaries, mIn, mOut, obituary, taken, link>>

-----------------------------------------------------------------------------
(* linkToDeath, unlinkToDeath *)

\* Thread th is in the code of the program, with nothing left in mOut.
Idle(th) == mIn[th] = <<>> /\ mOut[th] = <<>>

\* The first recipient: the proxy asks the driver, with a weak reference.
LinkFirst_NoWeak(th, p, r, d) ==
    /\ Idle(th) /\ p \in held /\ ProxyOf[r] = p /\ link[r] # "linked"
    /\ ~mObitsSent[p] /\ mObituaries[p] = NULL
    /\ RequestDeath(th, HandleOf[p], p, d)
    /\ mObituaries' = [mObituaries EXCEPT ![p] = {r}]
    /\ link' = [link EXCEPT ![r] = "linked"]
    /\ UNCHANGED <<exists, held, weak, mObitsSent, mIn, mOut, obituary, taken>>
LinkFirst(th, p, r, d) ==
    /\ Idle(th) /\ p \in held /\ ProxyOf[r] = p /\ link[r] # "linked"
    /\ ~mObitsSent[p] /\ mObituaries[p] = NULL
    /\ RequestDeath(th, HandleOf[p], p, d)
    /\ weak' = [weak EXCEPT ![p] = @ + 1]
    /\ mObituaries' = [mObituaries EXCEPT ![p] = {r}]
    /\ link' = [link EXCEPT ![r] = "linked"]
    /\ UNCHANGED <<exists, held, mObitsSent, mIn, mOut, obituary, taken>>

\* Another one joins the list.  (After mObitsSent the result is DEAD_OBJECT and
\* nothing changes.)
LinkNext(th, p, r) ==
    /\ Idle(th) /\ p \in held /\ ProxyOf[r] = p /\ link[r] # "linked"
    /\ ~mObitsSent[p] /\ mObituaries[p] # NULL
    /\ mObituaries' = [mObituaries EXCEPT ![p] = @ \cup {r}]
    /\ link' = [link EXCEPT ![r] = "linked"]
    /\ UNCHANGED <<deathVars, exists, held, weak, mObitsSent, mIn, mOut, obituary, taken>>

\* unlinkToDeath that returns NO_ERROR: the last recipient clears the request.
\* (It returns DEAD_OBJECT after mObitsSent.)
Unlink(th, p, r) ==
    /\ Idle(th) /\ p \in held
    /\ ~mObitsSent[p] /\ mObituaries[p] # NULL
    /\ r \in mObituaries[p]
    /\ link' = [link EXCEPT ![r] = "unlinked"]
    /\ IF mObituaries[p] = {r}
       THEN /\ ClearDeath(th, HandleOf[p], p)
            /\ mObituaries' = [mObituaries EXCEPT ![p] = NULL]
       ELSE /\ mObituaries' = [mObituaries EXCEPT ![p] = @ \ {r}]
            /\ UNCHANGED deathVars
    /\ UNCHANGED <<exists, held, weak, mObitsSent, mIn, mOut, obituary, taken>>

-----------------------------------------------------------------------------
(* IPCThreadState *)

\* A node dies, on its own.
NodeDies(h) == h \in refs /\ NodeRelease(h) /\ UNCHANGED userVars

\* The command that a read returns for d.
CommandFor(d) ==
    <<IF death[d].type = "CLEAR_DEATH_NOTIFICATION" THEN "CLEAR_DONE" ELSE "DEAD",
      death[d].cookie>>

\* talkWithDriver, when mOut is written: one command is read.
ReadCommand(th) ==
    /\ Idle(th)
    /\ \/ ReadThreadWork(th) /\ mIn' = [mIn EXCEPT ![th] = <<CommandFor(Head(todo[th]))>>]
       \/ ReadProcWork(th) /\ mIn' = [mIn EXCEPT ![th] = <<CommandFor(Head(proc_todo))>>]
    /\ UNCHANGED <<exists, held, weak, mObitsSent, mObituaries, mOut, obituary, taken, link>>

\* talkWithDriver writes mOut.
WriteDone(th) ==
    /\ mOut[th] # <<>>
    /\ DeadBinderDone(th, Head(mOut[th]))
    /\ mOut' = [mOut EXCEPT ![th] = Tail(@)]
    /\ UNCHANGED <<exists, held, weak, mObitsSent, mObituaries, mIn, obituary, taken, link>>

\* executeCommand(BR_CLEAR_DEATH_NOTIFICATION_DONE)
ExecuteClearDone(th) ==
    /\ mIn[th] # <<>>
    /\ Head(mIn[th])[1] = "CLEAR_DONE"
    /\ weak' = [weak EXCEPT ![Head(mIn[th])[2]] = @ - 1]
    /\ mIn' = [mIn EXCEPT ![th] = <<>>]
    /\ UNCHANGED <<deathVars, exists, held, mObitsSent, mObituaries, mOut, obituary, taken, link>>

\* BC_DEAD_BINDER_DONE is put into mOut when sendObituary of p returns.
Done(th, p) ==
    /\ mIn' = [mIn EXCEPT ![th] = <<>>]
    /\ mOut' = [mOut EXCEPT ![th] = Append(@, p)]
    /\ obituary' = [obituary EXCEPT ![th] = NULL]
    /\ taken' = [taken EXCEPT ![th] = NULL]

\* executeCommand(BR_DEAD_BINDER): sendObituary, up to its lock.
ExecuteDead(th) ==
    LET p == Head(mIn[th])[2]
    IN /\ mIn[th] # <<>>
       /\ Head(mIn[th])[1] = "DEAD"
       /\ obituary[th] = NULL
       /\ IF mObitsSent[p] THEN Done(th, p)
          ELSE obituary' = [obituary EXCEPT ![th] = p] /\ UNCHANGED <<mIn, mOut, taken>>
       /\ UNCHANGED <<deathVars, exists, held, weak, mObitsSent, mObituaries, link>>

\* sendObituary under mLock: the recipients leave the proxy, and the request is
\* cleared.
TakeObituaries_Keeps(th) ==
    LET p == obituary[th]
    IN /\ p # NULL
       /\ taken[th] = NULL
       /\ taken' = [taken EXCEPT ![th] = IF mObituaries[p] = NULL THEN {} ELSE mObituaries[p]]
       /\ mObitsSent' = [mObitsSent EXCEPT ![p] = TRUE]
       /\ IF mObituaries[p] = NULL \/ ref_death[HandleOf[p]] = NULL THEN UNCHANGED deathVars
          ELSE ClearDeath(th, HandleOf[p], p)
       /\ UNCHANGED <<exists, held, weak, mObituaries, mIn, mOut, obituary, link>>
TakeObituaries_NoClear(th) ==
    LET p == obituary[th]
    IN /\ p # NULL
       /\ taken[th] = NULL
       /\ taken' = [taken EXCEPT ![th] = IF mObituaries[p] = NULL THEN {} ELSE mObituaries[p]]
       /\ mObitsSent' = [mObitsSent EXCEPT ![p] = TRUE]
       /\ mObituaries' = [mObituaries EXCEPT ![p] = NULL]
       /\ UNCHANGED <<deathVars, exists, held, weak, mIn, mOut, obituary, link>>
TakeObituaries(th) ==
    LET p == obituary[th]
    IN /\ p # NULL
       /\ taken[th] = NULL
       /\ taken' = [taken EXCEPT ![th] = IF mObituaries[p] = NULL THEN {} ELSE mObituaries[p]]
       /\ mObitsSent' = [mObitsSent EXCEPT ![p] = TRUE]
       /\ mObituaries' = [mObituaries EXCEPT ![p] = NULL]
       /\ IF mObituaries[p] = NULL THEN UNCHANGED deathVars
          ELSE ClearDeath(th, HandleOf[p], p)
       /\ UNCHANGED <<exists, held, weak, mIn, mOut, obituary, link>>

\* reportOneDeath: binderDied of recipient r.
ReportOneDeath(th, r) ==
    /\ taken[th] # NULL
    /\ r \in taken[th]
    /\ link' = [link EXCEPT ![r] = "reported"]
    /\ taken' = [taken EXCEPT ![th] = @ \ {r}]
    /\ UNCHANGED <<deathVars, exists, held, weak, mObitsSent, mObituaries, mIn, mOut, obituary>>

\* sendObituary returns.
ObituarySent(th) ==
    /\ taken[th] = {}
    /\ Done(th, obituary[th])
    /\ UNCHANGED <<deathVars, exists, held, weak, mObitsSent, mObituaries, link>>

-----------------------------------------------------------------------------
Execute(th) ==
    \/ ExecuteClearDone(th)
    \/ ExecuteDead(th)
    \/ TakeObituaries(th)
    \/ \E r \in Recipient : ReportOneDeath(th, r)
    \/ ObituarySent(th)

Next ==
    \/ \E h \in Handle : NodeDies(h)
    \/ \E p \in Proxy : NewProxy(p) \/ HoldProxy(p) \/ DropProxy(p) \/ DeleteProxy(p)
    \/ \E th \in Thread :
          \/ \E p \in Proxy, r \in Recipient :
                \/ \E d \in Death : LinkFirst(th, p, r, d)
                \/ LinkNext(th, p, r)
                \/ Unlink(th, p, r)
          \/ ReadCommand(th)
          \/ WriteDone(th)
          \/ Execute(th)

Spec == Init /\ [][Next]_vars

\* Callbacks return, threads that have something to write or to execute do so,
\* and some thread of the pool comes back to read.
Fairness ==
    /\ \A th \in Thread :
          /\ WF_vars(WriteDone(th))
          /\ WF_vars(Execute(th))
          /\ SF_vars(ReadCommand(th))

LiveSpec == Spec /\ Fairness

-----------------------------------------------------------------------------
(* Properties *)

Links == {"none", "linked", "unlinked", "reported"}

\* Every variable keeps its type.
TypeOK ==
    /\ DeathTypeOK
    /\ exists \subseteq Proxy
    /\ held \subseteq exists
    /\ weak \in [Proxy -> Nat]
    /\ mObitsSent \in [Proxy -> BOOLEAN]
    /\ \A p \in Proxy : mObituaries[p] # NULL => mObituaries[p] \subseteq Recipient
    /\ mIn \in [Thread -> Seq({"DEAD", "CLEAR_DONE"} \X Proxy)]
    /\ mOut \in [Thread -> Seq(Proxy)]
    /\ obituary \in [Thread -> Proxy \cup {NULL}]
    /\ \A th \in Thread : taken[th] # NULL => taken[th] \subseteq Recipient
    /\ link \in [Recipient -> Links]

\* The commands BR_CLEAR_DEATH_NOTIFICATION_DONE for p that are read already.
Confirmed(p) ==
    {th \in Thread : mIn[th] # <<>> /\ Head(mIn[th]) = <<"CLEAR_DONE", p>>}

\* The weak references on a proxy are those of its notifications, from the request
\* to the executed confirmation: whichever threads link, unlink and report.
WeakMatched ==
    \A p \in Proxy :
        weak[p] = Cardinality({d \in Allocated : death[d].cookie = p})
                  + Cardinality(Confirmed(p))

\* A recipient that sendObituary is about to call is linked, by no other list, and
\* its binder has died: binderDied is called once, and not after an unlinkToDeath
\* that succeeded (IBinder.java: "assuring you that its binderDied() method will
\* not be called").
CalledWhenLinked ==
    \A th \in Thread : taken[th] # NULL => \A r \in taken[th] :
        /\ link[r] = "linked"
        /\ dead[HandleOf[ProxyOf[r]]]
        /\ r \notin UNION {mObituaries[p] : p \in {q \in Proxy : mObituaries[q] # NULL}}
        /\ \A u \in Thread \ {th} : taken[u] # NULL => r \notin taken[u]

\* A recipient that is linked when its binder dies, or to a binder that has died,
\* is called, unless it is unlinked before.
LinkReported ==
    \A r \in Recipient :
        (link[r] = "linked" /\ dead[HandleOf[ProxyOf[r]]]) ~> link[r] # "linked"

\* Every notification leaves the driver after the death of its binder, and with it
\* the weak reference: a proxy is not kept for ever.
WeakReleased ==
    \A p \in Proxy : (weak[p] > 0 /\ dead[HandleOf[p]]) ~> (weak[p] = 0 \/ ~mObitsSent[p])
=============================================================================
