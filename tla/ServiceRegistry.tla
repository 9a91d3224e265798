-------------------------- MODULE ServiceRegistry --------------------------
(***************************************************************************)
(* What servicemanager promises: a table of services by name.  A service   *)
(* is placed under a name, and stays there until another one takes the     *)
(* name or it is no longer running.  Only a name under which somebody adds *)
(* a service that has stopped may lose a service that runs.                *)
(***************************************************************************)
CONSTANTS Name, Service, NULL

VARIABLES
    reg,    \* the service under a name, or NULL
    live,   \* the services that are running
    relayed \* names a service that had stopped was to be placed under

Init ==
    /\ reg = [nm \in Name |-> NULL]
    /\ live = Service
    /\ relayed = {}

Place(nm, s) ==
    /\ reg' = [reg EXCEPT ![nm] = s]
    /\ UNCHANGED <<live, relayed>>

Forget(nm) ==
    /\ reg[nm] # NULL
    /\ reg[nm] \notin live \/ nm \in relayed
    /\ reg' = [reg EXCEPT ![nm] = NULL]
    /\ UNCHANGED <<live, relayed>>

Stop(s) ==
    /\ s \in live
    /\ live' = live \ {s}
    /\ UNCHANGED <<reg, relayed>>

Relay(nm) ==
    /\ live # Service
    /\ relayed' = relayed \cup {nm}
    /\ UNCHANGED <<reg, live>>

Next ==
    \/ \E nm \in Name : Forget(nm) \/ Relay(nm) \/ \E s \in Service : Place(nm, s)
    \/ \E s \in Service : Stop(s)

Spec == Init /\ [][Next]_<<reg, live, relayed>>
=============================================================================
