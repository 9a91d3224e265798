----------------------------- MODULE JavaBinder -----------------------------
(***************************************************************************)
(* Binder proxies of Java programs and their death recipients              *)
(* (jni/android_util_Binder.cpp), over one BpBinder.                       *)
(*                                                                         *)
(* Two collectors meet here.  A Java BinderProxy has a strong reference to *)
(* the BpBinder and to a DeathRecipientList; the BpBinder has a weak one   *)
(* back.  The list has the JavaDeathRecipients, each with a JNI reference  *)
(* to the Java recipient: a global one until the recipient has been told   *)
(* of the death, a weak one after.  BpBinder knows the recipients by weak  *)
(* pointers only, so who is in no list is not told.                        *)
(*                                                                         *)
(* That a death reaches sendObituary is what DeathNotification shows; here *)
(* it is a step of the driver.  Sections under mProxyLock, BpBinder::mLock *)
(* or the lock of a list are steps, except for DeathRecipientList::find,   *)
(* which looks at one recipient after the other.                           *)
(*                                                                         *)
(* A definition Name_Fault is a faulty variant of the definition Name that *)
(* follows it; the specification does not use it.                          *)
(***************************************************************************)
EXTENDS Naturals, Sequences, FiniteSets, SequencesExt

CONSTANTS
    Thread,     \* threads attached to the virtual machine
    JavaProxy,  \* memory for BinderProxy objects, each with its DeathRecipientList
    JDR,        \* memory for JavaDeathRecipient objects
    Object,     \* Java objects that implement DeathRecipient
    ObjectOf,   \* the Java DeathRecipient that a JavaDeathRecipient is made for
    NULL        \* the null pointer

ASSUME JavaAssumption ==
    /\ NULL \notin JavaProxy \cup JDR \cup {"strong"}
    /\ ObjectOf \in [JDR -> Object]

VARIABLES
    died,        \* the process of the binder is gone
    native,      \* native code has a strong pointer to the BpBinder
    attached,    \* the BinderProxy attached to the BpBinder (ObjectManager), or NULL
    mObitsSent,  \* of BpBinder
    mObituaries, \* of BpBinder
    proxy,       \* what the collector knows of a BinderProxy
    mList,       \* of a BinderProxy's DeathRecipientList
    listOf,      \* mList of JavaDeathRecipient: the BinderProxy whose list it is in
    mObject,     \* of JavaDeathRecipient: "strong", or NULL, with mObjectWeak set
    pc,          \* what a thread is doing
    taken,       \* recipients that a thread in sendObituary still has to report to
    link,        \* history: what became of a recipient
    misused      \* history: a JNI reference was used after it was deleted

bpVars == <<died, native, attached, mObitsSent, mObituaries>>
listVars == <<mList, listOf, mObject, link>>
vars == <<bpVars, proxy, listVars, pc, taken, misused>>

\* at: idle, in linkToDeath (added, failed), in unlinkToDeath (read, use, found,
\* removed) or in sendObituary (dead, obits, calling, called).  A thread has a strong
\* pointer to the recipient r.
PcRec == [at: {"idle", "added", "failed", "read", "use", "found", "removed",
               "dead", "obits", "calling", "called"},
          j: JavaProxy \cup {NULL}, r: JDR \cup {NULL}, o: Object \cup {NULL}, i: Nat,
          saw: {"strong", NULL}]
Idle == [at |-> "idle", j |-> NULL, r |-> NULL, o |-> NULL, i |-> 0, saw |-> NULL]

Init ==
    /\ died = FALSE
    /\ native = FALSE
    /\ attached = NULL
    /\ mObitsSent = FALSE
    /\ mObituaries = {}
    /\ proxy = [j \in JavaProxy |-> "none"]
    /\ mList = [j \in JavaProxy |-> <<>>]
    /\ listOf = [r \in JDR |-> NULL]
    /\ mObject = [r \in JDR |-> NULL]
    /\ pc = [th \in Thread |-> Idle]
    /\ taken = [th \in Thread |-> {}]
    /\ link = [r \in JDR |-> "none"]
    /\ misused = FALSE

-----------------------------------------------------------------------------
(* Helpers *)

\* A thread in DeathRecipientList::find has the lock of the list.
Locked(j) == \E th \in Thread : pc[th].at \in {"read", "use"} /\ pc[th].j = j

\* Strong pointers to r: of a list, or of a thread.
Alive(r) ==
    \/ \E j \in JavaProxy : r \in ToSet(mList[j])
    \/ \E th \in Thread : pc[th].r = r

\* Memory of a JavaDeathRecipient to which there is no pointer, weak ones included.
Unused(r) ==
    ~Alive(r) /\ r \notin mObituaries /\ \A th \in Thread : r \notin taken[th]

\* BinderProxy objects with a strong reference to the BpBinder.
Holders == {j \in JavaProxy : proxy[j] \in {"reachable", "collected"}}

Goto(th, at) == pc' = [pc EXCEPT ![th].at = at]
Return(th) == pc' = [pc EXCEPT ![th] = Idle]

-----------------------------------------------------------------------------
(* The binder *)

\* The remote process dies.
Die ==
    /\ ~died
    /\ died' = TRUE
    /\ UNCHANGED <<native, attached, mObitsSent, mObituaries, proxy, listVars, pc, taken, misused>>

\* Native code gets a pointer to the BpBinder (readStrongBinder), and lets it go.
Receive ==
    /\ ~native
    /\ native' = TRUE
    /\ UNCHANGED <<died, attached, mObitsSent, mObituaries, proxy, listVars, pc, taken, misused>>
Release ==
    /\ native
    /\ native' = FALSE
    /\ UNCHANGED <<died, attached, mObitsSent, mObituaries, proxy, listVars, pc, taken, misused>>

\* ~BpBinder, with ObjectManager::kill and proxy_cleanup; the next one is new.
DeleteBpBinder ==
    /\ ~native /\ Holders = {} /\ mObituaries = {}
    /\ \A th \in Thread : pc[th].at \notin {"dead", "obits", "calling", "called"}
    /\ attached' = NULL
    /\ mObitsSent' = FALSE
    /\ UNCHANGED <<died, native, mObituaries, proxy, listVars, pc, taken, misused>>

-----------------------------------------------------------------------------
(* BinderProxy *)

\* javaObjectForIBinder, when there is no proxy or it has been collected: the stale
\* weak reference is detached.  (Otherwise the proxy that is attached is returned.)
NewBinderProxy_NoDetach(j) ==
    /\ native
    /\ attached # NULL => proxy[attached] # "reachable"
    /\ j \notin Holders \cup {attached}
    /\ proxy' = [proxy EXCEPT ![j] = "reachable"]
    /\ attached' = IF attached = NULL THEN j ELSE attached
    /\ mList' = [mList EXCEPT ![j] = <<>>]
    /\ UNCHANGED <<died, native, mObitsSent, mObituaries, listOf, mObject, link, pc, taken, misused>>
NewBinderProxy(j) ==
    /\ native
    /\ attached # NULL => proxy[attached] # "reachable"
    /\ j \notin Holders \cup {attached}
    /\ proxy' = [proxy EXCEPT ![j] = "reachable"]
    /\ attached' = j
    /\ mList' = [mList EXCEPT ![j] = <<>>]
    /\ UNCHANGED <<died, native, mObitsSent, mObituaries, listOf, mObject, link, pc, taken, misused>>

\* The collector finds that the program has no reference to the proxy, and clears mSelf.
Collect(j) ==
    /\ proxy[j] = "reachable"
    /\ \A th \in Thread : pc[th].j # j
    /\ proxy' = [proxy EXCEPT ![j] = "collected"]
    /\ UNCHANGED <<bpVars, listVars, pc, taken, misused>>

\* BinderProxy_destroy, from the finalizer: the list goes, and with it the recipients
\* that are in it, unless a thread is reporting to them; from then on they cannot promote
\* their pointer to the list.
Destroy(j) ==
    /\ proxy[j] = "collected"
    /\ proxy' = [proxy EXCEPT ![j] = "destroyed"]
    /\ mList' = [mList EXCEPT ![j] = <<>>]
    /\ listOf' = [r \in JDR |-> IF listOf[r] = j THEN NULL ELSE listOf[r]]
    /\ link' = [r \in JDR |->
                   IF /\ r \in ToSet(mList[j])
                      /\ link[r] = "linked"
                      /\ \A th \in Thread : pc[th].r # r
                   THEN "lost" ELSE link[r]]
    /\ UNCHANGED <<bpVars, mObject, pc, taken, misused>>

-----------------------------------------------------------------------------
(* linkToDeath *)

\* new JavaDeathRecipient adds itself to the list of the proxy.
LinkAdd(th, j, r) ==
    /\ pc[th] = Idle /\ proxy[j] = "reachable" /\ ~Locked(j)
    /\ Unused(r)
    /\ mObject' = [mObject EXCEPT ![r] = "strong"]
    /\ listOf' = [listOf EXCEPT ![r] = j]
    /\ mList' = [mList EXCEPT ![j] = Append(@, r)]
    /\ link' = [link EXCEPT ![r] = "adding"]
    /\ pc' = [pc EXCEPT ![th] = [Idle EXCEPT !.at = "added", !.j = j, !.r = r]]
    /\ UNCHANGED <<bpVars, proxy, taken, misused>>

\* BpBinder::linkToDeath, which returns DEAD_OBJECT after mObitsSent.
LinkTarget_Forgets(th) ==
    /\ pc[th].at = "added"
    /\ IF mObitsSent
       THEN /\ link' = [link EXCEPT ![pc[th].r] = "failed"]
            /\ UNCHANGED mObituaries
       ELSE /\ mObituaries' = mObituaries \cup {pc[th].r}
            /\ link' = [link EXCEPT ![pc[th].r] = "linked"]
    /\ Return(th)
    /\ UNCHANGED <<died, native, attached, mObitsSent, proxy, mList, listOf, mObject, taken, misused>>
LinkTarget_Late(th) ==
    /\ pc[th].at = "added"
    /\ mObituaries' = mObituaries \cup {pc[th].r}
    /\ link' = [link EXCEPT ![pc[th].r] = "linked"]
    /\ Return(th)
    /\ UNCHANGED <<died, native, attached, mObitsSent, proxy, mList, listOf, mObject, taken, misused>>
LinkTarget(th) ==
    /\ pc[th].at = "added"
    /\ IF mObitsSent
       THEN /\ link' = [link EXCEPT ![pc[th].r] = "failed"]
            /\ Goto(th, "failed")
            /\ UNCHANGED mObituaries
       ELSE /\ mObituaries' = mObituaries \cup {pc[th].r}
            /\ link' = [link EXCEPT ![pc[th].r] = "linked"]
            /\ Return(th)
    /\ UNCHANGED <<died, native, attached, mObitsSent, proxy, mList, listOf, mObject, taken, misused>>

\* clearReference: out of the list, when linking failed or unlinking succeeded.
ClearReference(th) ==
    /\ pc[th].at \in {"failed", "removed"}
    /\ ~Locked(pc[th].j)
    /\ mList' = [mList EXCEPT ![pc[th].j] = RemoveFirst(@, pc[th].r)]
    /\ Return(th)
    /\ UNCHANGED <<bpVars, proxy, listOf, mObject, link, taken, misused>>

-----------------------------------------------------------------------------
(* unlinkToDeath *)

\* DeathRecipientList::find starts.  (An empty list: NoSuchElementException.)
FindStart(th, j, o) ==
    /\ pc[th] = Idle /\ proxy[j] = "reachable" /\ ~Locked(j)
    /\ mList[j] # <<>>
    /\ pc' = [pc EXCEPT ![th] = [Idle EXCEPT !.at = "read", !.j = j, !.o = o, !.i = 1]]
    /\ UNCHANGED <<bpVars, proxy, listVars, taken, misused>>

\* matches: it reads mObject.  NULL makes it take a local reference from mObjectWeak,
\* and that is to the object, for the caller has a reference to it.
MatchRead(th) ==
    LET r == mList[pc[th].j][pc[th].i]
    IN /\ pc[th].at = "read"
       /\ pc' = [pc EXCEPT ![th].at = "use", ![th].r = r, ![th].saw = mObject[r]]
       /\ UNCHANGED <<bpVars, proxy, listVars, taken, misused>>

\* ... and compares what it read with the object of the caller.  (At the end of the
\* list: NoSuchElementException.)
MatchUse(th) ==
    LET c == pc[th]
    IN /\ c.at = "use"
       /\ misused' = (misused \/ (c.saw = "strong" /\ mObject[c.r] = NULL))
       /\ IF ObjectOf[c.r] = c.o THEN Goto(th, "found")
          ELSE IF c.i < Len(mList[c.j])
          THEN pc' = [pc EXCEPT ![th] = [c EXCEPT !.at = "read", !.r = NULL, !.i = c.i + 1]]
          ELSE Return(th)
       /\ UNCHANGED <<bpVars, proxy, listVars, taken>>

\* BpBinder::unlinkToDeath: after mObitsSent DEAD_OBJECT, which is reported as success;
\* NAME_NOT_FOUND when the recipient that was found is not linked.
UnlinkTarget(th) ==
    LET r == pc[th].r
    IN /\ pc[th].at = "found"
       /\ IF mObitsSent \/ r \notin mObituaries
          THEN Return(th) /\ UNCHANGED <<mObituaries, link>>
          ELSE /\ mObituaries' = mObituaries \ {r}
               /\ link' = [link EXCEPT ![r] = "unlinked"]
               /\ Goto(th, "removed")
       /\ UNCHANGED <<died, native, attached, mObitsSent, proxy, mList, listOf, mObject, taken, misused>>

-----------------------------------------------------------------------------
(* sendObituary *)

\* The driver returns BR_DEAD_BINDER, for which somebody has asked.
ReadDead(th) ==
    /\ died /\ ~mObitsSent /\ mObituaries # {}
    /\ pc[th] = Idle
    /\ \A u \in Thread : pc[u].at # "dead"
    /\ Goto(th, "dead")
    /\ UNCHANGED <<bpVars, proxy, listVars, taken, misused>>

\* Under BpBinder::mLock the recipients leave the BpBinder.
TakeObituaries(th) ==
    /\ pc[th].at = "dead"
    /\ taken' = [taken EXCEPT ![th] = mObituaries]
    /\ mObituaries' = {}
    /\ mObitsSent' = TRUE
    /\ Goto(th, "obits")
    /\ UNCHANGED <<died, native, attached, proxy, listVars, misused>>

\* reportOneDeath: a recipient that cannot be promoted is passed over.
ReportOneDeath(th, r) ==
    /\ pc[th].at = "obits"
    /\ r \in taken[th]
    /\ taken' = [taken EXCEPT ![th] = @ \ {r}]
    /\ IF Alive(r) THEN pc' = [pc EXCEPT ![th].at = "calling", ![th].r = r] ELSE UNCHANGED pc
    /\ UNCHANGED <<bpVars, proxy, listVars, misused>>

\* JavaDeathRecipient::binderDied calls BinderProxy.sendDeathNotice.
BinderDied(th) ==
    LET r == pc[th].r
    IN /\ pc[th].at = "calling"
       /\ mObject[r] # NULL
       /\ link' = [link EXCEPT ![r] = "told"]
       /\ Goto(th, "called")
       /\ UNCHANGED <<bpVars, proxy, mList, listOf, mObject, taken, misused>>

\* ... then makes its reference weak, under the lock of the list if the list exists.
Demote_NoLock(th) ==
    LET r == pc[th].r
    IN /\ pc[th].at = "called"
       /\ mObject' = [mObject EXCEPT ![r] = IF listOf[r] # NULL THEN NULL ELSE @]
       /\ pc' = [pc EXCEPT ![th] = [Idle EXCEPT !.at = "obits"]]
       /\ UNCHANGED <<bpVars, proxy, mList, listOf, link, taken, misused>>
Demote_Keeps(th) ==
    /\ pc[th].at = "called"
    /\ ~Locked(listOf[pc[th].r])
    /\ pc' = [pc EXCEPT ![th] = [Idle EXCEPT !.at = "obits"]]
    /\ UNCHANGED <<bpVars, proxy, listVars, taken, misused>>
Demote(th) ==
    LET r == pc[th].r
    IN /\ pc[th].at = "called"
       /\ ~Locked(listOf[r])
       /\ mObject' = [mObject EXCEPT ![r] = IF listOf[r] # NULL THEN NULL ELSE @]
       /\ pc' = [pc EXCEPT ![th] = [Idle EXCEPT !.at = "obits"]]
       /\ UNCHANGED <<bpVars, proxy, mList, listOf, link, taken, misused>>

\* sendObituary returns.
ObituarySent(th) ==
    /\ pc[th].at = "obits"
    /\ taken[th] = {}
    /\ Return(th)
    /\ UNCHANGED <<bpVars, proxy, listVars, taken, misused>>

-----------------------------------------------------------------------------
\* The steps of a thread that is in one of the functions above.
Continue(th) ==
    \/ LinkTarget(th) \/ ClearReference(th)
    \/ MatchRead(th) \/ MatchUse(th) \/ UnlinkTarget(th)
    \/ TakeObituaries(th)
    \/ \E r \in JDR : ReportOneDeath(th, r)
    \/ BinderDied(th) \/ Demote(th) \/ ObituarySent(th)

Next ==
    \/ Die \/ Receive \/ Release \/ DeleteBpBinder
    \/ \E j \in JavaProxy : NewBinderProxy(j) \/ Collect(j) \/ Destroy(j)
    \/ \E th \in Thread :
          \/ \E j \in JavaProxy :
                \/ \E r \in JDR : LinkAdd(th, j, r)
                \/ \E o \in Object : FindStart(th, j, o)
          \/ ReadDead(th)
          \/ Continue(th)

Spec == Init /\ [][Next]_vars

\* Functions return, a thread that waits for the lock of a list gets it in the end,
\* and the driver finds a thread to tell.
Fairness ==
    /\ \A th \in Thread : WF_vars(Continue(th)) /\ SF_vars(Demote(th))
    /\ SF_vars(\E th \in Thread : ReadDead(th))

LiveSpec == Spec /\ Fairness

-----------------------------------------------------------------------------
(* Properties *)

Links == {"none", "adding", "failed", "linked", "unlinked", "told", "lost"}

\* Every variable keeps its type.
TypeOK ==
    /\ {died, native, mObitsSent, misused} \subseteq BOOLEAN
    /\ attached \in JavaProxy \cup {NULL}
    /\ mObituaries \subseteq JDR
    /\ proxy \in [JavaProxy -> {"none", "reachable", "collected", "destroyed"}]
    /\ mList \in [JavaProxy -> Seq(JDR)]
    /\ listOf \in [JDR -> JavaProxy \cup {NULL}]
    /\ mObject \in [JDR -> {"strong", NULL}]
    /\ pc \in [Thread -> PcRec]
    /\ taken \in [Thread -> SUBSET JDR]
    /\ link \in [JDR -> Links]

\* A program sees one BinderProxy for a binder: the one that native code will find
\* attached, however the collection and the finalizers of earlier ones fall
\* (android_util_Binder.cpp: "so we can retrieve the same proxy if it is still active").
OneBinderProxy == \A j \in JavaProxy : proxy[j] = "reachable" => attached = j

\* find never compares with a global reference that binderDied has deleted meanwhile
\* ("Serialize with our containing DeathRecipientList so that we can't delete the
\* global ref on mObject while the list is being iterated").
RefsValid == ~misused

\* Recipients that BpBinder will still report to, or a thread is about to call.
Expected ==
    mObituaries \cup (UNION {taken[th] : th \in Thread})
                \cup {pc[th].r : th \in {u \in Thread : pc[u].at = "calling"}}

\* The two registrations of a recipient agree.  One that is linked is in the list of
\* its proxy, where unlinkToDeath looks and which keeps it alive, and is expected by
\* BpBinder; and outside linkToDeath and unlinkToDeath the list of a proxy has none
\* but those that are linked or have been told.
Registered ==
    /\ \A r \in JDR : link[r] = "linked" =>
          /\ r \in Expected
          /\ (\E th \in Thread : pc[th].r = r) \/ r \in ToSet(mList[listOf[r]])
    /\ \A j \in JavaProxy, r \in JDR :
          r \in ToSet(mList[j]) /\ link[r] \notin {"linked", "told"} =>
              \E th \in Thread : pc[th].at \in {"added", "failed", "removed"} /\ pc[th].r = r

\* A recipient that is linked when its binder dies, or to a binder that has died, is
\* told, unless it is unlinked before or goes with its BinderProxy.
LinkedTold == \A r \in JDR : (link[r] = "linked" /\ died) ~> (link[r] # "linked")

\* Once it has been told a recipient is no longer kept from the collector ("to allow
\* the DeathRecipient and BinderProxy to be GC'd if no longer needed").
ToldReleased == \A r \in JDR :
    (link[r] = "told") ~> (~Alive(r) \/ mObject[r] = NULL \/ link[r] # "told")
=============================================================================
