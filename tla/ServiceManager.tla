--------------------------- MODULE ServiceManager ---------------------------
(***************************************************************************)
(* servicemanager (native/service_manager.c on native/binder.c), the       *)
(* process that finds services by name, with the clients that add, find    *)
(* and list services (framework/ServiceManagerNative.java).                *)
(*                                                                         *)
(* servicemanager is one thread.  A request is one step, except that       *)
(* do_add_service writes to the driver three times and other processes run *)
(* in between.  Of the driver there is servicemanager's own part: its      *)
(* references, each with the death notification set on it, and the work on *)
(* its list (the subjects of BinderRefs and BinderDeath).                  *)
(*                                                                         *)
(* A definition Name_Fault is a faulty variant of the definition Name that *)
(* follows it; the specification does not use it.                          *)
(***************************************************************************)
EXTENDS Naturals, Sequences, FiniteSets, SequencesExt

CONSTANTS
    Name,       \* names of services
    Service,    \* the objects that are registered, each of its own process
    Pairs,      \* the names and services the programs register together
    Isolations, \* the allow_isolated flags they register with
    Dies,       \* services that may stop
    MaxInbox,   \* bound: requests that wait for servicemanager
    MaxList,    \* bound: entries of a listing a client asks for
    NULL        \* no object

ASSUME ManagerAssumption ==
    /\ Pairs \subseteq Name \X Service
    /\ Isolations \subseteq BOOLEAN
    /\ NULL \notin Name \cup Service
    /\ IsFiniteSet(Service)

VARIABLES
    live,      \* services that are running
    ref,       \* servicemanager's references by handle, or NULL
    inbox,     \* the work on its list in the driver
    svclist,   \* svclist, the newest entry first
    op,        \* the rest of a do_add_service under way
    answer,    \* the answer just given to a client that looked for a service
    published, \* history: the last service added under a name
    relayed,   \* history: names some service was to be added under after it stopped
    lister     \* a client in listServices

driver == <<ref, inbox>>
vars == <<live, driver, svclist, op, answer, published, relayed, lister>>

\* Handle 0 is servicemanager itself, and stands for "no handle".
Handle == 1 .. Cardinality(Service)

\* cookie is the svcinfo, named by its name, that ref->death was requested for.
\* A notification that was read stays with the reference (delivered_death), for
\* servicemanager sends no BC_DEAD_BINDER_DONE: told.
RefRec == [service: Service, strong: Nat, cookie: Name \cup {NULL}, told: BOOLEAN]

ASSUME NoReference == NULL \notin RefRec

Entry == [name: Name, handle: Handle \cup {0}, allow_isolated: BOOLEAN]

\* A request or, with code "dead", a BINDER_WORK_DEAD_BINDER for a handle.
Request == [code: {"add", "find", "list", "other", "dead"}, name: Name \cup {NULL},
            handle: Handle \cup {0}, isolated: BOOLEAN, n: Nat]

Blank == [code |-> "other", name |-> NULL, handle |-> 0, isolated |-> FALSE, n |-> 0]

Idle == [pc |-> "idle", req |-> Blank]

NoAnswer == [found |-> NULL, name |-> NULL, isolated |-> FALSE]

\* n is the next entry to ask for, unseen the names there were at the first one
\* that the client has not been given.
NotListing == [n |-> 0, unseen |-> {}, state |-> "idle"]

Init ==
    /\ live = Service
    /\ ref = [h \in Handle |-> NULL]
    /\ inbox = <<>>
    /\ svclist = <<>>
    /\ op = Idle
    /\ answer = NoAnswer
    /\ published = [nm \in Name |-> NULL]
    /\ relayed = {}
    /\ lister = NotListing

-----------------------------------------------------------------------------
(* The driver, on its state [ref, inbox] *)

Driver == [ref |-> ref, inbox |-> inbox]

Becomes(s) == ref' = s.ref /\ inbox' = s.inbox

HandleOf(s, svc) == {h \in Handle : s.ref[h] # NULL /\ s.ref[h].service = svc}

\* binder_get_ref_for_node: the handle there is, or the lowest free one.
DescFor(s, svc) ==
    IF HandleOf(s, svc) # {} THEN CHOOSE h \in HandleOf(s, svc) : TRUE
    ELSE Min({h \in Handle : s.ref[h] = NULL})

\* A transaction brings svc: a reference, and a strong claim of the buffer.
Received(s, svc) ==
    LET h == DescFor(s, svc)
        r == s.ref[h]
    IN [s EXCEPT !.ref[h] = IF r = NULL
                            THEN [service |-> svc, strong |-> 1, cookie |-> NULL, told |-> FALSE]
                            ELSE [r EXCEPT !.strong = r.strong + 1]]

\* BC_ACQUIRE.  The driver ignores a command for a handle it does not know.
Acquired(s, h) == IF s.ref[h] = NULL THEN s ELSE [s EXCEPT !.ref[h].strong = @ + 1]

Dead(h) == [Blank EXCEPT !.code = "dead", !.handle = h]

\* BC_RELEASE, or the freeing of a buffer with the handle: with the last claim
\* the reference goes, and its death notification from whichever list it is on.
Released(s, h) ==
    IF s.ref[h] = NULL THEN s
    ELSE IF s.ref[h].strong > 1 THEN [s EXCEPT !.ref[h].strong = @ - 1]
    ELSE [ref |-> [s.ref EXCEPT ![h] = NULL],
          inbox |-> RemoveFirst(s.inbox, Dead(h))]

\* BC_REQUEST_DEATH_NOTIFICATION is refused when the reference has one.  For a
\* service that is dead already the notification goes to the thread's own list,
\* which it reads before that of the process.
Linked(s, h, nm) ==
    IF s.ref[h] = NULL \/ s.ref[h].cookie # NULL THEN s
    ELSE [ref |-> [s.ref EXCEPT ![h].cookie = nm],
          inbox |-> IF s.ref[h].service \in live THEN s.inbox ELSE <<Dead(h)>> \o s.inbox]

-----------------------------------------------------------------------------
(* The clients *)

\* The requests that wait; the notifications of deaths are not bounded.
Waiting == Cardinality({i \in DOMAIN inbox : inbox[i].code # "dead"})

Ask(req) ==
    /\ Waiting < MaxInbox
    /\ inbox' = Append(inbox, req)

\* addService, by any process that holds the service's binder: the driver passes
\* on the handle of a service that has stopped as well.
AskAdd(nm, svc, isolated) ==
    LET s == Received(Driver, svc)
    IN /\ <<nm, svc>> \in Pairs
       /\ isolated \in Isolations
       /\ Waiting < MaxInbox
       /\ ref' = s.ref
       /\ inbox' = Append(s.inbox, [code |-> "add", name |-> nm, handle |-> DescFor(Driver, svc),
                                    isolated |-> isolated, n |-> 0])
       /\ relayed' = IF svc \in live THEN relayed ELSE relayed \cup {nm}
       /\ answer' = NoAnswer
       /\ UNCHANGED <<live, svclist, op, published, lister>>

\* An addService without an object: bio_get_ref finds no handle, and the name
\* is not looked at.
AskAddNothing ==
    /\ Ask([Blank EXCEPT !.code = "add"])
    /\ answer' = NoAnswer
    /\ UNCHANGED <<live, ref, svclist, op, published, relayed, lister>>

\* getService and checkService
AskFind(nm, isolated) ==
    /\ Ask([Blank EXCEPT !.code = "find", !.name = nm, !.isolated = isolated])
    /\ answer' = NoAnswer
    /\ UNCHANGED <<live, ref, svclist, op, published, relayed, lister>>

\* PING_TRANSACTION, a wrong interface name, an unknown code
AskOther ==
    /\ Ask(Blank)
    /\ answer' = NoAnswer
    /\ UNCHANGED <<live, ref, svclist, op, published, relayed, lister>>

NamesIn(list) == {list[i].name : i \in DOMAIN list}

\* listServices asks for the entries 0, 1, ... one at a time.
AskList ==
    /\ lister.state = "idle"
    /\ lister.n < MaxList
    /\ Ask([Blank EXCEPT !.code = "list", !.n = lister.n])
    /\ lister' = [lister EXCEPT !.state = "asked", !.n = @ + 1,
                                !.unseen = IF lister.n = 0 THEN NamesIn(svclist) ELSE @]
    /\ answer' = NoAnswer
    /\ UNCHANGED <<live, ref, svclist, op, published, relayed>>

\* A service stops: the driver queues the notification that was requested.
Stop(svc) ==
    LET told == {h \in HandleOf(Driver, svc) : ref[h].cookie # NULL}
    IN /\ svc \in live \cap Dies
       /\ live' = live \ {svc}
       /\ inbox' = inbox \o [i \in 1 .. Cardinality(told) |-> Dead(CHOOSE h \in told : TRUE)]
       /\ answer' = NoAnswer
       /\ UNCHANGED <<ref, svclist, op, published, relayed, lister>>

-----------------------------------------------------------------------------
(* servicemanager *)

\* binder_loop reads the next item when it is done with the last.
NextIs(code) ==
    /\ op = Idle
    /\ inbox # <<>>
    /\ Head(inbox).code = code

Rest == [Driver EXCEPT !.inbox = Tail(@)]

\* find_svc: the index of the entry, 0 if there is none.
find_svc(list, nm) ==
    IF nm \notin NamesIn(list) THEN 0
    ELSE CHOOSE i \in DOMAIN list : list[i].name = nm

HasHandle(nm) == find_svc(svclist, nm) # 0 /\ svclist[find_svc(svclist, nm)].handle # 0

\* The claim on the entry's handle goes.
DeathReleases(s, nm) ==
    IF HasHandle(nm) THEN Released(s, svclist[find_svc(svclist, nm)].handle) ELSE s

\* BR_DEAD_BINDER and svcinfo_death: the entry the notification was requested
\* for loses its handle, whichever that is by now.
HandleDeath ==
    LET h == Head(inbox).handle
        nm == ref[h].cookie
    IN /\ NextIs("dead")
       /\ Becomes(DeathReleases([Rest EXCEPT !.ref[h].told = TRUE], nm))
       /\ svclist' = [i \in DOMAIN svclist |->
                        IF svclist[i].name = nm THEN [svclist[i] EXCEPT !.handle = 0]
                        ELSE svclist[i]]
       /\ answer' = NoAnswer
       /\ UNCHANGED <<live, op, published, relayed, lister>>

\* do_add_service up to its first write for the new handle.  An entry that is
\* there keeps its flag.
NewList_KeepsHandle(req) ==
    IF req.name \in NamesIn(svclist) THEN svclist
    ELSE <<[name |-> req.name, handle |-> req.handle, allow_isolated |-> req.isolated]>>
         \o svclist
NewList(req) ==
    IF req.name \in NamesIn(svclist)
    THEN [svclist EXCEPT ![find_svc(svclist, req.name)].handle = req.handle]
    ELSE <<[name |-> req.name, handle |-> req.handle, allow_isolated |-> req.isolated]>>
         \o svclist

StartAdd_NoRelease ==
    LET req == Head(inbox)
    IN /\ NextIs("add")
       /\ req.handle # 0
       /\ Becomes(Rest)
       /\ svclist' = NewList(req)
       /\ op' = [pc |-> "acquire", req |-> req]
       /\ published' = [published EXCEPT ![req.name] = ref[req.handle].service]
       /\ answer' = NoAnswer
       /\ UNCHANGED <<live, relayed, lister>>
StartAdd ==
    LET req == Head(inbox)
    IN /\ NextIs("add")
       /\ req.handle # 0
       /\ Becomes(DeathReleases(Rest, req.name))
       /\ svclist' = NewList(req)
       /\ op' = [pc |-> "acquire", req |-> req]
       /\ published' = [published EXCEPT ![req.name] = ref[req.handle].service]
       /\ answer' = NoAnswer
       /\ UNCHANGED <<live, relayed, lister>>

\* No handle, no permission or no memory: the status is the reply.
RefuseAdd ==
    /\ NextIs("add")
    /\ Becomes(IF Head(inbox).handle = 0 THEN Rest ELSE Released(Rest, Head(inbox).handle))
    /\ answer' = NoAnswer
    /\ UNCHANGED <<live, svclist, op, published, relayed, lister>>

\* binder_acquire, binder_link_to_death, and binder_send_reply, which frees the
\* buffer of the request.
AddAcquire ==
    /\ op.pc = "acquire"
    /\ Becomes(Acquired(Driver, op.req.handle))
    /\ op' = [op EXCEPT !.pc = "link"]
    /\ answer' = NoAnswer
    /\ UNCHANGED <<live, svclist, published, relayed, lister>>

AddLink_Skipped ==
    /\ op.pc = "link"
    /\ op' = [op EXCEPT !.pc = "reply"]
    /\ answer' = NoAnswer
    /\ UNCHANGED <<live, driver, svclist, published, relayed, lister>>
AddLink ==
    /\ op.pc = "link"
    /\ Becomes(Linked(Driver, op.req.handle, op.req.name))
    /\ op' = [op EXCEPT !.pc = "reply"]
    /\ answer' = NoAnswer
    /\ UNCHANGED <<live, svclist, published, relayed, lister>>

AddReply ==
    /\ op.pc = "reply"
    /\ Becomes(Released(Driver, op.req.handle))
    /\ op' = Idle
    /\ answer' = NoAnswer
    /\ UNCHANGED <<live, svclist, published, relayed, lister>>

\* do_find_service, and the object the client gets for the handle in the reply:
\* none if the driver does not know the handle.  The policy may refuse any client.
do_find_service(nm, isolated) ==
    LET si == svclist[find_svc(svclist, nm)]
    IN IF HasHandle(nm) /\ (si.allow_isolated \/ ~isolated) THEN si.handle ELSE 0

Find ==
    LET req == Head(inbox)
        h == do_find_service(req.name, req.isolated)
    IN /\ NextIs("find")
       /\ Becomes(Rest)
       /\ answer' = [found |-> IF h = 0 \/ ref[h] = NULL THEN NULL ELSE ref[h].service,
                     name |-> req.name, isolated |-> req.isolated]
       /\ UNCHANGED <<live, svclist, op, published, relayed, lister>>

FindDenied ==
    /\ NextIs("find")
    /\ Becomes(Rest)
    /\ answer' = NoAnswer
    /\ UNCHANGED <<live, svclist, op, published, relayed, lister>>

\* SVC_MGR_LIST_SERVICES: the entry n steps down the list, or a failure, which
\* ends the client's listing.
ListedAt_SkipsFirst(n) == IF n + 2 \in DOMAIN svclist THEN {svclist[n + 2].name} ELSE {}
ListedAt(n) == IF n + 1 \in DOMAIN svclist THEN {svclist[n + 1].name} ELSE {}

List ==
    LET listed == ListedAt(Head(inbox).n)
    IN /\ NextIs("list")
       /\ Becomes(Rest)
       /\ lister' = IF listed = {} THEN [lister EXCEPT !.state = "done", !.n = 0]
                    ELSE [lister EXCEPT !.state = "idle", !.unseen = @ \ listed]
       /\ answer' = NoAnswer
       /\ UNCHANGED <<live, svclist, op, published, relayed>>

\* svc_can_list refuses the client, whose listing ends as well; it may list again.
ListDenied ==
    /\ NextIs("list")
    /\ Becomes(Rest)
    /\ lister' = NotListing
    /\ answer' = NoAnswer
    /\ UNCHANGED <<live, svclist, op, published, relayed>>

Other ==
    /\ NextIs("other")
    /\ Becomes(Rest)
    /\ answer' = NoAnswer
    /\ UNCHANGED <<live, svclist, op, published, relayed, lister>>

\* binder_parse
Serve ==
    \/ HandleDeath
    \/ StartAdd \/ RefuseAdd \/ AddAcquire \/ AddLink \/ AddReply
    \/ Find \/ FindDenied
    \/ List \/ ListDenied
    \/ Other

Next ==
    \/ \E nm \in Name :
          \/ \E svc \in Service, isolated \in Isolations : AskAdd(nm, svc, isolated)
          \/ \E isolated \in Isolations : AskFind(nm, isolated)
    \/ AskAddNothing
    \/ AskOther
    \/ AskList
    \/ \E svc \in Service : Stop(svc)
    \/ Serve

Spec == Init /\ [][Next]_vars

\* servicemanager never stops in its loop.
LiveSpec == Spec /\ WF_vars(Serve)

-----------------------------------------------------------------------------
(* Properties *)

\* The variables keep their types; in particular no name has two entries.
TypeOK ==
    /\ live \subseteq Service
    /\ \A h \in Handle : ref[h] \in RefRec \cup {NULL}
    /\ inbox \in Seq(Request)
    /\ svclist \in Seq(Entry)
    /\ Cardinality(NamesIn(svclist)) = Len(svclist)
    /\ op \in [pc: {"idle", "acquire", "link", "reply"}, req: Request]
    /\ answer \in [found: Service \cup {NULL}, name: Name \cup {NULL}, isolated: BOOLEAN]
    /\ published \in [Name -> Service \cup {NULL}]
    /\ relayed \subseteq Name
    /\ lister \in [n: Nat, unseen: SUBSET Name, state: {"idle", "asked", "done"}]

\* A reference has one claim for each entry with its handle (from binder_acquire
\* on) and for each request that holds it, so that a handle in the list is never
\* given back too early or kept for ever.
ClaimsBalanced ==
    \A h \in Handle :
        LET claims == Cardinality({i \in DOMAIN svclist : svclist[i].handle = h})
                      + Cardinality({i \in DOMAIN inbox : inbox[i].code = "add" /\ inbox[i].handle = h})
                      + (IF op.pc \in {"link", "reply"} /\ op.req.handle = h THEN 1 ELSE 0)
        IN IF ref[h] = NULL THEN claims = 0 ELSE claims = ref[h].strong

\* Whoever looks for a name finds the service last added under it, never the
\* one another handle was reused for, and fails only when that service has
\* stopped (or the policy denies it).  Where somebody adds a service that has
\* stopped, its notification may come after the name was given to another one,
\* and takes that one's entry.
FindAnswers ==
    answer.name # NULL =>
        \/ answer.found = published[answer.name]
        \/ /\ answer.found = NULL
           /\ \/ published[answer.name] \notin live
              \/ answer.isolated
              \/ answer.name \in relayed

\* A listing that ran to its end has every name that was there when it began,
\* whatever was added meanwhile.
ListComplete == lister.state = "done" => lister.unseen = {}

\* The table that the entries and the driver's references make up.
Registered ==
    [nm \in Name |-> IF HasHandle(nm) /\ ref[svclist[find_svc(svclist, nm)].handle] # NULL
                     THEN ref[svclist[find_svc(svclist, nm)].handle].service ELSE NULL]

Registry == INSTANCE ServiceRegistry WITH reg <- Registered

\* Services whose one notification was delivered and whose reference is still held.
Told == {ref[h].service : h \in {g \in Handle : ref[g] # NULL /\ ref[g].told}}

\* A service that has stopped is forgotten or replaced in the end, also when it
\* stops between its binder_acquire and its link; but not one added again when
\* its notification was spent.
Forgotten ==
    \A nm \in Name, s \in Dies :
        (Registered[nm] = s /\ s \notin live \cup Told) ~> (Registered[nm] # s)

\* servicemanager implements the registry (no service leaves the table while it
\* runs, unless its name is given to another or was relayed), and forgets.
ImplementsRegistry == Registry!Spec /\ Forgotten
=============================================================================
