-------------------------- MODULE RemoteRefsProofs --------------------------
(***************************************************************************)
(* Theorems about RemoteRefs, for any number of threads, proxies and nodes *)
(* and any bound on mOut.  The first is about the handle table; the second *)
(* about the counts, with an invariant (HeldInv) in which each pending     *)
(* increment is matched with what it is for: a proxy that is in use, or a  *)
(* decrement that cannot overtake it.  The commands of one thread are      *)
(* applied one by one, and FlushAt says what holds in between.             *)
(***************************************************************************)
EXTENDS RemoteRefs, TLAPS, FiniteSetTheorems, WellFoundedInduction

-----------------------------------------------------------------------------
(* The inductive invariant *)

Users(p) == strong[p] \cup weak[p]

\* The types of what the process knows of its proxies.
ProxyTypeOK ==
    /\ bp \in [Proxy -> BpRec]
    /\ strong \in [Proxy -> SUBSET Thread]
    /\ weak \in [Proxy -> SUBSET Thread]
    /\ binder \in Proxy \cup {NULL}
    /\ dying \in [Thread -> Proxy \cup {NULL}]

\* A BpBinder is live as long as somebody has a pointer to it, of either kind; one whose
\* last pointer has gone is destroyed by one thread.
Lifetime ==
    /\ \A p \in Proxy : bp[p].state = "live" <=> Users(p) # {}
    /\ \A th \in Thread : dying[th] # NULL => bp[dying[th]].state = "dying"
    /\ \A th, u \in Thread : dying[th] # NULL /\ dying[th] = dying[u] => th = u

\* The entry of the table is no freed BpBinder, and is the one that is live.
Entry ==
    /\ binder # NULL => bp[binder].state # "free"
    /\ \A p \in Proxy : bp[p].state = "live" => binder = p

TableInv == ProxyTypeOK /\ Lifetime /\ Entry

-----------------------------------------------------------------------------
(* Every operation keeps the invariant *)

\* Steps of the driver, and commands, are not about the table.
LEMMA TableUnchanged ==
    ASSUME TableInv, UNCHANGED <<bp, strong, weak, binder, dying>>
    PROVE  TableInv'
BY DEF TableInv, ProxyTypeOK, Lifetime, Entry, Users

\* A new BpBinder takes the place of one that is being destroyed, or of none.
LEMMA NewBpKeeps ==
    ASSUME TableInv, NEW th \in Thread, NEW p \in Proxy, NEW n \in Node, Stale, NewBp(p, n),
           \/ strong' = [strong EXCEPT ![p] = {th}] /\ weak' = weak
           \/ weak' = [weak EXCEPT ![p] = {th}] /\ strong' = strong,
           dying' = dying
    PROVE  TableInv'
<1>1. /\ bp[p].state = "free"
      /\ bp' = [bp EXCEPT ![p] = [state |-> "live", node |-> n]]
      /\ binder' = p
  BY DEF NewBp
<1>2. /\ bp' \in [Proxy -> BpRec] /\ bp'[p].state = "live"
      /\ \A q \in Proxy : q # p => bp'[q] = bp[q]
  BY <1>1 DEF TableInv, ProxyTypeOK, BpRec
<1>3. /\ strong' \in [Proxy -> SUBSET Thread] /\ weak' \in [Proxy -> SUBSET Thread]
      /\ \A q \in Proxy : q # p => strong'[q] = strong[q] /\ weak'[q] = weak[q]
      /\ th \in strong'[p] \cup weak'[p]
  BY DEF TableInv, ProxyTypeOK
<1>4. \A q \in Proxy : bp[q].state # "live"
  BY RemoteAssumption DEF TableInv, Entry, Stale
<1>5. \A u \in Thread : dying[u] # NULL => dying[u] # p /\ dying[u] \in Proxy
  BY <1>1 DEF TableInv, Lifetime, ProxyTypeOK
<1>6. ProxyTypeOK'
  BY <1>1, <1>2, <1>3 DEF TableInv, ProxyTypeOK
<1>7. Lifetime'
  <2>1. ASSUME NEW q \in Proxy
        PROVE  bp'[q].state = "live" <=> Users(q)' # {}
    BY <1>2, <1>3 DEF TableInv, Lifetime, Users
  <2>2. \A u \in Thread : dying'[u] # NULL => bp'[dying'[u]].state = "dying"
    BY <1>2, <1>5 DEF TableInv, Lifetime
  <2> QED BY <2>1, <2>2 DEF TableInv, Lifetime
<1>8. Entry'
  BY <1>1, <1>2, <1>4 DEF Entry
<1> QED BY <1>6, <1>7, <1>8 DEF TableInv

\* A pointer to a BpBinder that has one is given away, or changes its kind.
LEMMA UsersKeep ==
    ASSUME TableInv, NEW p \in Proxy, Users(p) # {}, Users(p)' # {},
           strong' \in [Proxy -> SUBSET Thread], weak' \in [Proxy -> SUBSET Thread],
           \A q \in Proxy : q # p => strong'[q] = strong[q] /\ weak'[q] = weak[q],
           UNCHANGED <<bp, binder, dying>>
    PROVE  TableInv'
<1>1. ProxyTypeOK' /\ Entry'
  BY DEF TableInv, ProxyTypeOK, Entry
<1>2. \A q \in Proxy : bp'[q].state = "live" <=> Users(q)' # {}
  BY DEF TableInv, Lifetime, Users
<1>3. Lifetime'
  BY <1>2 DEF TableInv, Lifetime
<1> QED BY <1>1, <1>3 DEF TableInv

\* The entry is live, and its thread gets a pointer more.
LEMMA GetOldKeeps ==
    ASSUME TableInv, NEW th \in Thread, GetStrongOld(th) \/ GetWeakOld(th)
    PROVE  TableInv'
<1>1. binder \in Proxy /\ Users(binder) # {}
  BY DEF GetStrongOld, GetWeakOld, Stale, TableInv, ProxyTypeOK, Lifetime
<1> DEFINE p == binder
<1>2. /\ strong' \in [Proxy -> SUBSET Thread] /\ weak' \in [Proxy -> SUBSET Thread]
      /\ \A q \in Proxy : q # p => strong'[q] = strong[q] /\ weak'[q] = weak[q]
      /\ strong'[p] \cup weak'[p] # {}
      /\ UNCHANGED <<bp, binder, dying>>
  BY <1>1 DEF GetStrongOld, GetWeakOld, TableInv, ProxyTypeOK
<1>3. PICK q \in Proxy : q = p
  BY <1>1
<1>4. Users(q) # {} /\ Users(q)' # {}
  BY <1>1, <1>2, <1>3 DEF Users
<1> QED BY <1>2, <1>3, <1>4, UsersKeep

\* A pointer is made strong or weak, or given to another thread.
LEMMA PointerKeeps ==
    ASSUME TableInv, NEW th \in Thread, NEW p \in Proxy,
           Promote(th, p) \/ Demote(th, p) \/ \E u \in Thread : Share(th, u, p)
    PROVE  TableInv'
<1>1. /\ Users(p) # {}
      /\ strong' \in [Proxy -> SUBSET Thread] /\ weak' \in [Proxy -> SUBSET Thread]
      /\ \A q \in Proxy : q # p => strong'[q] = strong[q] /\ weak'[q] = weak[q]
      /\ strong'[p] \cup weak'[p] # {}
      /\ UNCHANGED <<bp, binder, dying>>
  <2>1. CASE Promote(th, p)
    BY <2>1 DEF Promote, TableInv, ProxyTypeOK, Users
  <2>2. CASE Demote(th, p)
    BY <2>2 DEF Demote, TableInv, ProxyTypeOK, Users
  <2>3. CASE \E u \in Thread : Share(th, u, p)
    BY <2>3 DEF Share, TableInv, ProxyTypeOK, Users
  <2> QED BY <2>1, <2>2, <2>3
<1> QED BY <1>1, UsersKeep DEF Users

\* The last pointer that goes starts the destructor, in the thread that drops it.
LEMMA DropKeeps ==
    ASSUME TableInv, NEW th \in Thread, NEW p \in Proxy, Drop(th, p)
    PROVE  TableInv'
<1>1. /\ th \in Users(p) /\ binder' = binder
      /\ strong' = [strong EXCEPT ![p] = @ \ {th}]
      /\ weak' = [weak EXCEPT ![p] = @ \ {th}]
      /\ bp' = [bp EXCEPT ![p].state = IF strong[p] \cup weak[p] = {th} THEN "dying" ELSE @]
      /\ dying' = [dying EXCEPT ![th] = IF strong[p] \cup weak[p] = {th} THEN p ELSE @]
  BY DEF Drop, Users
<1>2. /\ strong' \in [Proxy -> SUBSET Thread] /\ weak' \in [Proxy -> SUBSET Thread]
      /\ \A q \in Proxy : q # p => strong'[q] = strong[q] /\ weak'[q] = weak[q]
      /\ strong'[p] \cup weak'[p] = Users(p) \ {th}
  BY <1>1 DEF TableInv, ProxyTypeOK, Users
<1>3. bp[p].state = "live" /\ p # NULL
  BY <1>1, RemoteAssumption DEF TableInv, Lifetime
<1>4. CASE Users(p) = {th}
  <2>1. /\ bp' \in [Proxy -> BpRec] /\ bp'[p].state = "dying"
        /\ \A q \in Proxy : q # p => bp'[q] = bp[q]
    <3>1. bp' = [bp EXCEPT ![p].state = "dying"]
      BY <1>1, <1>4 DEF Users
    <3> QED BY <3>1 DEF TableInv, ProxyTypeOK, BpRec
  <2>2. /\ dying' \in [Thread -> Proxy \cup {NULL}] /\ dying'[th] = p
        /\ \A u \in Thread : u # th => dying'[u] = dying[u]
    BY <1>1, <1>4 DEF TableInv, ProxyTypeOK, Users
  <2>3. ProxyTypeOK'
    BY <1>1, <1>2, <2>1, <2>2 DEF TableInv, ProxyTypeOK
  <2>4. \A q \in Proxy : bp'[q].state = "live" <=> Users(q)' # {}
    BY <1>2, <1>4, <2>1 DEF TableInv, Lifetime, Users
  <2>5. \A u \in Thread : dying[u] # NULL => dying[u] # p /\ dying[u] \in Proxy
    BY <1>3 DEF TableInv, Lifetime, ProxyTypeOK
  <2>6. \A u \in Thread : dying'[u] # NULL => bp'[dying'[u]].state = "dying"
    BY <2>1, <2>2, <2>5 DEF TableInv, Lifetime
  <2>7. \A t, u \in Thread : dying'[t] # NULL /\ dying'[t] = dying'[u] => t = u
    BY <2>2, <2>5 DEF TableInv, Lifetime
  <2>8. Entry'
    BY <1>1, <2>1, <2>3 DEF TableInv, Entry, ProxyTypeOK
  <2> QED BY <2>3, <2>4, <2>6, <2>7, <2>8 DEF TableInv, Lifetime
<1>5. CASE Users(p) # {th}
  <2>1. UNCHANGED <<bp, dying>>
    <3>1. bp' = [bp EXCEPT ![p].state = bp[p].state] /\ dying' = [dying EXCEPT ![th] = dying[th]]
      BY <1>1, <1>5 DEF Users
    <3> QED BY <3>1 DEF TableInv, ProxyTypeOK, BpRec
  <2>2. Users(p) # {} /\ Users(p)' # {}
    BY <1>1, <1>2, <1>5 DEF Users
  <2> QED BY <1>1, <1>2, <2>1, <2>2, UsersKeep
<1> QED BY <1>4, <1>5

\* expungeHandle clears the entry only when it is still that of the BpBinder that goes.
LEMMA DestroyKeeps ==
    ASSUME TableInv, NEW th \in Thread, Destroy(th)
    PROVE  TableInv'
<1> DEFINE p == dying[th]
<1>1. /\ p # NULL
      /\ binder' = IF binder = p THEN NULL ELSE binder
      /\ bp' = [bp EXCEPT ![p] = NoBp]
      /\ dying' = [dying EXCEPT ![th] = NULL]
      /\ UNCHANGED <<strong, weak>>
  BY DEF Destroy
<1>2. p \in Proxy /\ bp[p].state = "dying"
  BY <1>1 DEF TableInv, ProxyTypeOK, Lifetime
<1>3. /\ bp' \in [Proxy -> BpRec] /\ bp'[p].state = "free"
      /\ \A q \in Proxy : q # p => bp'[q] = bp[q]
  BY <1>1, <1>2 DEF TableInv, ProxyTypeOK, BpRec, NoBp
<1>4. /\ dying' \in [Thread -> Proxy \cup {NULL}] /\ dying'[th] = NULL
      /\ \A u \in Thread : u # th => dying'[u] = dying[u]
  BY <1>1 DEF TableInv, ProxyTypeOK
<1>5. ProxyTypeOK'
  BY <1>1, <1>3, <1>4 DEF TableInv, ProxyTypeOK
<1>6. \A q \in Proxy : bp'[q].state = "live" <=> Users(q)' # {}
  BY <1>1, <1>2, <1>3 DEF TableInv, Lifetime, Users
<1>7. \A u \in Thread : dying'[u] # NULL => u # th /\ dying[u] # p /\ dying[u] \in Proxy
  BY <1>1, <1>4 DEF TableInv, Lifetime, ProxyTypeOK
<1>8. \A u \in Thread : dying'[u] # NULL => bp'[dying'[u]].state = "dying"
  BY <1>3, <1>4, <1>7 DEF TableInv, Lifetime
<1>9. \A t, u \in Thread : dying'[t] # NULL /\ dying'[t] = dying'[u] => t = u
  BY <1>4 DEF TableInv, Lifetime
<1>10. Entry'
  <2>1. binder' # NULL => binder' = binder /\ binder \in Proxy \ {p}
    BY <1>1 DEF TableInv, ProxyTypeOK
  <2>2. binder' # NULL => bp'[binder'].state # "free"
    BY <1>3, <2>1 DEF TableInv, Entry
  <2>3. ASSUME NEW q \in Proxy, bp'[q].state = "live"
        PROVE  binder' = q
    BY <1>1, <1>3, <2>3 DEF TableInv, Entry
  <2> QED BY <2>2, <2>3 DEF Entry
<1> QED BY <1>5, <1>6, <1>8, <1>9, <1>10 DEF TableInv, Lifetime

-----------------------------------------------------------------------------
(* The theorem *)

\* What a thread looks up is the handle of a node.
ParcelTypeOK == parcel \in [Thread -> ParcelRec \cup {NULL}]

\* A Parcel changes when a transaction arrives and when it is freed.
LEMMA ParcelsKept ==
    ASSUME ParcelTypeOK, Next
    PROVE  ParcelTypeOK'
<1>1. ASSUME NEW th \in Thread, NEW n \in Node, NEW k \in Kinds, Receive(th, n, k)
      PROVE  ParcelTypeOK'
  <2>1. [node |-> n, strong |-> k] \in ParcelRec
    BY RemoteAssumption DEF ParcelRec
  <2>2. parcel' = [parcel EXCEPT ![th] = [node |-> n, strong |-> k]]
    BY <1>1 DEF Receive
  <2> QED BY <2>1, <2>2 DEF ParcelTypeOK
<1>2. ASSUME NEW th \in Thread, FreeParcel(th)
      PROVE  ParcelTypeOK'
  BY <1>2 DEF FreeParcel, ParcelTypeOK
<1>3. ASSUME UNCHANGED parcel
      PROVE  ParcelTypeOK'
  BY <1>3 DEF ParcelTypeOK
<1>4. PICK th \in Thread :
        \/ Flush(th)
        \/ \E n \in Node, k \in Kinds : Receive(th, n, k)
        \/ FreeParcel(th)
        \/ GetStrongOld(th) \/ GetWeakOld(th)
        \/ \E p \in Proxy :
              \/ GetStrongNew(th, p) \/ GetWeakNew(th, p)
              \/ \E u \in Thread : Share(th, u, p)
              \/ Promote(th, p) \/ Demote(th, p) \/ Drop(th, p)
        \/ Destroy(th)
  BY DEF Next
<1>5. CASE Flush(th) \/ GetStrongOld(th) \/ GetWeakOld(th) \/ Destroy(th)
  BY <1>3, <1>5 DEF Flush, GetStrongOld, GetWeakOld, Destroy
<1>6. ASSUME NEW p \in Proxy,
             \/ GetStrongNew(th, p) \/ GetWeakNew(th, p)
             \/ \E u \in Thread : Share(th, u, p)
             \/ Promote(th, p) \/ Demote(th, p) \/ Drop(th, p)
      PROVE  ParcelTypeOK'
  BY <1>3, <1>6 DEF GetStrongNew, GetWeakNew, Share, Promote, Demote, Drop
<1> QED BY <1>1, <1>2, <1>4, <1>5, <1>6

\* Every step keeps the invariant, one case for each kind of operation.
LEMMA TableNextInv ==
    ASSUME ParcelTypeOK, TableInv, Next
    PROVE  TableInv'
<1>1. PICK th \in Thread :
        \/ Flush(th)
        \/ \E n \in Node, k \in Kinds : Receive(th, n, k)
        \/ FreeParcel(th)
        \/ GetStrongOld(th) \/ GetWeakOld(th)
        \/ \E p \in Proxy :
              \/ GetStrongNew(th, p) \/ GetWeakNew(th, p)
              \/ \E u \in Thread : Share(th, u, p)
              \/ Promote(th, p) \/ Demote(th, p) \/ Drop(th, p)
        \/ Destroy(th)
  BY DEF Next
<1>2. CASE \/ Flush(th) \/ FreeParcel(th)
           \/ \E n \in Node, k \in Kinds : Receive(th, n, k)
  <2>1. UNCHANGED <<bp, strong, weak, binder, dying>>
    BY <1>2 DEF Flush, FreeParcel, Receive
  <2> QED BY <2>1, TableUnchanged
<1>3. CASE GetStrongOld(th) \/ GetWeakOld(th)
  BY <1>3, GetOldKeeps
<1>4. ASSUME NEW p \in Proxy, GetStrongNew(th, p) \/ GetWeakNew(th, p)
      PROVE  TableInv'
  <2>1. parcel[th].node \in Node
    BY <1>4 DEF GetStrongNew, GetWeakNew, ParcelTypeOK, ParcelRec
  <2>2. PICK n \in Node : n = parcel[th].node
    BY <2>1
  <2>3. /\ Stale /\ NewBp(p, n) /\ dying' = dying
        /\ \/ strong' = [strong EXCEPT ![p] = {th}] /\ weak' = weak
           \/ weak' = [weak EXCEPT ![p] = {th}] /\ strong' = strong
    BY <1>4, <2>2 DEF GetStrongNew, GetWeakNew
  <2> QED BY <2>3, NewBpKeeps
<1>5. ASSUME NEW p \in Proxy, \/ \E u \in Thread : Share(th, u, p)
                              \/ Promote(th, p) \/ Demote(th, p)
      PROVE  TableInv'
  BY <1>5, PointerKeeps
<1>6. ASSUME NEW p \in Proxy, Drop(th, p)
      PROVE  TableInv'
  BY <1>6, DropKeeps
<1>7. CASE Destroy(th)
  BY <1>7, DestroyKeeps
<1> QED BY <1>1, <1>2, <1>3, <1>4, <1>5, <1>6, <1>7

\* The handle table never leads to a freed BpBinder, and there is one BpBinder in use at a
\* time, the one the table finds: expungeHandle leaves the entry alone when a lookup
\* has put a new BpBinder there while the destructor of the old one was on its way.
THEOREM HandleTable == Spec => []TableExact
<1> DEFINE IInv == ParcelTypeOK /\ TableInv
<1>1. Init => IInv
  <2> SUFFICES ASSUME Init PROVE IInv
    OBVIOUS
  <2>1. ParcelTypeOK
    BY DEF Init, ParcelTypeOK
  <2>2. ProxyTypeOK
    BY DEF Init, ProxyTypeOK, NoBp, BpRec
  <2>3. \A p \in Proxy : bp[p].state = "free" /\ Users(p) = {}
    BY DEF Init, NoBp, Users
  <2>4. Lifetime /\ Entry
    BY <2>3 DEF Init, Lifetime, Entry
  <2> QED BY <2>1, <2>2, <2>4 DEF TableInv
<1>2. IInv /\ [Next]_vars => IInv'
  <2>1. IInv /\ Next => IInv'
    BY ParcelsKept, TableNextInv
  <2>2. IInv /\ UNCHANGED vars => IInv'
    BY TableUnchanged DEF vars, userVars, ParcelTypeOK
  <2> QED BY <2>1, <2>2
<1>3. IInv => TableExact
  BY DEF TableInv, Entry, TableExact, Live
<1> QED BY <1>1, <1>2, <1>3, PTL DEF Spec

-----------------------------------------------------------------------------
(* What the driver makes of the commands of a thread *)

\* A set of numbers that is not empty has a least one.
LEMMA Least ==
    ASSUME NEW K, K \subseteq Nat, K # {}
    PROVE  \E m \in K : \A k \in K : m <= k
<1>1. \E x \in K : \A y \in K : ~(<<y, x>> \in OpToRel(<, Nat))
  BY NatLessThanWellFounded, WFMin
<1>2. PICK x \in K : \A y \in K : ~(<<y, x>> \in OpToRel(<, Nat))
  BY <1>1
<1>3. \A y \in K : ~(y < x)
  BY <1>2 DEF OpToRel
<1> QED BY <1>3

\* The last of the places up to n.
LEMMA LastPlace ==
    ASSUME NEW n \in Nat, NEW x \in SUBSET (1 .. n), n \in x
    PROVE  Max(x) = n
<1>1. n \in x /\ \A y \in x : n >= y
  OBVIOUS
<1>2. ASSUME NEW z \in x, \A y \in x : z >= y
      PROVE  z = n
  <2>1. z >= n /\ n >= z /\ z \in Nat
    BY <1>1, <1>2
  <2> QED BY <2>1
<1>3. Max(x) \in x /\ \A y \in x : Max(x) >= y
  BY <1>1, Zenon DEF Max
<1> QED BY <1>2, <1>3

\* g folds the commands at the places of a set, in their order.
Folds(g, D, q, b) ==
    g = [x \in SUBSET D |-> IF x = {} THEN b ELSE Apply(g[x \ {Max(x)}], q[Max(x)])]

\* There is such a fold up to every place.
LEMMA FoldsExist ==
    ASSUME NEW q, NEW b, NEW n \in Nat
    PROVE  \E g : Folds(g, 1 .. n, q, b)
<1> DEFINE K == {k \in Nat : ~\E g : Folds(g, 1 .. k, q, b)}
<1>1. K = {}
  <2> SUFFICES ASSUME K # {}
               PROVE  FALSE
    OBVIOUS
  <2>1. PICK m \in K : \A k \in K : m <= k
    <3>1. K \subseteq Nat
      OBVIOUS
    <3> HIDE DEF K
    <3> QED BY <3>1, Least
  <2>2. m \in Nat /\ ~\E g : Folds(g, 1 .. m, q, b)
    OBVIOUS
  <2>3. CASE m = 0
    <3> DEFINE h == [x \in SUBSET (1 .. 0) |-> b]
    <3>0. \A x \in SUBSET (1 .. 0) : x = {}
      OBVIOUS
    <3>1. h = [x \in SUBSET (1 .. 0) |->
                  IF x = {} THEN b ELSE Apply(h[x \ {Max(x)}], q[Max(x)])]
      BY <3>0
    <3>2. Folds(h, 1 .. 0, q, b)
      BY <3>1 DEF Folds
    <3> QED BY <2>2, <2>3, <3>2
  <2>4. CASE m # 0
    <3>1. m - 1 \in Nat /\ ~(m <= m - 1)
      BY <2>2, <2>4
    <3>2. m - 1 \notin K
      BY <2>1, <3>1
    <3>3. PICK g : Folds(g, 1 .. m - 1, q, b)
      BY <3>1, <3>2
    <3> HIDE DEF K
    <3> DEFINE h == [x \in SUBSET (1 .. m) |-> IF m \in x THEN Apply(g[x \ {m}], q[m]) ELSE g[x]]
    <3>4. ASSUME NEW x \in SUBSET (1 .. m)
          PROVE  h[x] = IF x = {} THEN b ELSE Apply(h[x \ {Max(x)}], q[Max(x)])
      <4>1. CASE m \in x
        <5>1. Max(x) = m /\ x # {} /\ x \ {m} \in SUBSET (1 .. m) /\ m \notin x \ {m}
          BY <2>2, <4>1, LastPlace
        <5>2. h[x] = Apply(g[x \ {m}], q[m]) /\ h[x \ {m}] = g[x \ {m}]
          BY <4>1, <5>1
        <5> HIDE DEF h
        <5> QED BY <5>1, <5>2
      <4>2. CASE m \notin x
        <5>1. x \in SUBSET (1 .. m - 1)
          BY <2>2, <4>2
        <5>2. g[x] = IF x = {} THEN b ELSE Apply(g[x \ {Max(x)}], q[Max(x)])
          BY <3>3, <5>1 DEF Folds
        <5>3. h[x] = g[x] /\ h[x \ {Max(x)}] = g[x \ {Max(x)}]
          BY <4>2
        <5> HIDE DEF h
        <5> QED BY <5>2, <5>3
      <4> QED BY <4>1, <4>2
    <3>5. h = [x \in SUBSET (1 .. m) |->
                  IF x = {} THEN b ELSE Apply(h[x \ {Max(x)}], q[Max(x)])]
      <4>1. h = [x \in SUBSET (1 .. m) |-> h[x]]
        OBVIOUS
      <4> HIDE DEF h
      <4>2. [x \in SUBSET (1 .. m) |-> h[x]]
            = [x \in SUBSET (1 .. m) |->
                  IF x = {} THEN b ELSE Apply(h[x \ {Max(x)}], q[Max(x)])]
        BY <3>4, Zenon
      <4> QED BY <4>1, <4>2, Zenon
    <3>6. Folds(h, 1 .. m, q, b)
      BY <3>5 DEF Folds
    <3> QED BY <2>2, <3>6
  <2> QED BY <2>3, <2>4
<1> QED BY <1>1

\* v are the states of the driver after each command of q.
Applied(v, b, q) ==
    /\ v[0] = b
    /\ \A i \in 1 .. Len(q) : v[i] = Apply(v[i - 1], q[i])

\* talkWithDriver: the commands are applied one by one.
LEMMA FlushApplies ==
    ASSUME NEW S, NEW q \in Seq(S), NEW b
    PROVE  \E v : Applied(v, b, q) /\ FoldLeft(Apply, b, q) = v[Len(q)]
<1> DEFINE n == Len(q)
           step(D, g) == [x \in SUBSET D |-> IF x = {} THEN b
                                             ELSE Apply(g[x \ {Max(x)}], q[Max(x)])]
           fold(D) == CHOOSE g : g = step(D, g)
<1>1. n \in Nat /\ DOMAIN q = 1 .. n
  OBVIOUS
<1>2. FoldLeft(Apply, b, q) = fold(DOMAIN q)[DOMAIN q]
  BY DEF FoldLeft, MapThenFoldSet
<1>3. PICK h : Folds(h, 1 .. n, q, b)
  BY <1>1, FoldsExist
<1>4. h = step(1 .. n, h)
  BY <1>3 DEF Folds
<1>5. fold(1 .. n) = step(1 .. n, fold(1 .. n))
  <2> HIDE DEF step
  <2> QED BY <1>4
<1> HIDE DEF fold
<1>6. PICK g : Folds(g, 1 .. n, q, b) /\ FoldLeft(Apply, b, q) = g[1 .. n]
  BY <1>1, <1>2, <1>5 DEF Folds
<1> DEFINE v == [i \in 0 .. n |-> g[1 .. i]]
<1>7. v[0] = b
  <2>1. 1 .. 0 = {} /\ {} \in SUBSET (1 .. n) /\ 0 \in 0 .. n
    BY <1>1
  <2>2. g[{}] = b
    BY <1>6, <2>1 DEF Folds
  <2> QED BY <2>1, <2>2
<1>8. ASSUME NEW i \in 1 .. n
      PROVE  v[i] = Apply(v[i - 1], q[i])
  <2>0. n \in Nat /\ i \in 1 .. n
    OBVIOUS
  <2>1. i \in Nat /\ i - 1 \in 0 .. n /\ i \in 0 .. n /\ 1 .. i # {} /\ i \in 1 .. i
    <3> HIDE DEF n, v
    <3>1. i \in Nat /\ i - 1 \in 0 .. n /\ i \in 0 .. n /\ i \in 1 .. i
      BY <2>0
    <3> QED BY <3>1
  <2>2. 1 .. i \in SUBSET (1 .. n) /\ (1 .. i) \ {i} = 1 .. i - 1
    <3> HIDE DEF n
    <3> QED BY <2>0
  <2>3. Max(1 .. i) = i
    BY <2>1, LastPlace
  <2>4. g[1 .. i] = Apply(g[(1 .. i) \ {Max(1 .. i)}], q[Max(1 .. i)])
    BY <1>6, <2>1, <2>2 DEF Folds
  <2>5. v[i] = g[1 .. i] /\ v[i - 1] = g[1 .. i - 1]
    BY <2>1
  <2> HIDE DEF v
  <2> QED BY <2>2, <2>3, <2>4, <2>5
<1>9. v[n] = g[1 .. n]
  BY <1>1
<1> HIDE DEF v
<1> QED BY <1>6, <1>7, <1>8, <1>9 DEF Applied

-----------------------------------------------------------------------------
(* Claims and what they are for *)

\* One more, and one less.
LEMMA OneMore ==
    ASSUME NEW S, IsFiniteSet(S), NEW x, x \notin S
    PROVE  /\ IsFiniteSet(S \cup {x}) /\ Cardinality(S) \in Nat
           /\ Cardinality(S \cup {x}) = Cardinality(S) + 1
BY FS_AddElement, FS_CardinalityType

LEMMA OneLess ==
    ASSUME NEW S, IsFiniteSet(S), NEW x, x \in S
    PROVE  /\ IsFiniteSet(S \ {x}) /\ Cardinality(S \ {x}) \in Nat
           /\ Cardinality(S) = Cardinality(S \ {x}) + 1
<1>1. IsFiniteSet(S \ {x}) /\ Cardinality(S \ {x}) = Cardinality(S) - 1
  BY FS_RemoveElement
<1>2. Cardinality(S \ {x}) \in Nat /\ Cardinality(S) \in Nat
  BY <1>1, FS_CardinalityType
<1> QED BY <1>1, <1>2

\* The driver counts c; A are increments still to be applied, R the decrements and F the
\* ones for parcels; P are the parcels, U the proxies in use.
Balanced(c, A, R, F, P, U) ==
    /\ IsFiniteSet(A) /\ IsFiniteSet(R) /\ IsFiniteSet(F) /\ IsFiniteSet(P) /\ IsFiniteSet(U)
    /\ c \in Nat
    /\ c + Cardinality(A) = Cardinality(P) + Cardinality(U) + Cardinality(R) + Cardinality(F)

\* What is added up are numbers.
LEMMA BalancedNumbers ==
    ASSUME NEW c, NEW A, NEW R, NEW F, NEW P, NEW U, Balanced(c, A, R, F, P, U)
    PROVE  /\ c \in Nat /\ Cardinality(A) \in Nat /\ Cardinality(R) \in Nat
           /\ Cardinality(F) \in Nat /\ Cardinality(P) \in Nat /\ Cardinality(U) \in Nat
BY FS_CardinalityType DEF Balanced

\* A proxy comes into use, and an increment is written.
LEMMA BalancedUse ==
    ASSUME NEW c, NEW A, NEW R, NEW F, NEW P, NEW U, Balanced(c, A, R, F, P, U),
           NEW x, x \notin A, NEW p, p \notin U
    PROVE  Balanced(c, A \cup {x}, R, F, P, U \cup {p})
<1>1. /\ IsFiniteSet(A \cup {x}) /\ Cardinality(A \cup {x}) = Cardinality(A) + 1
      /\ IsFiniteSet(U \cup {p}) /\ Cardinality(U \cup {p}) = Cardinality(U) + 1
  BY OneMore DEF Balanced
<1> QED BY <1>1, BalancedNumbers DEF Balanced

\* A proxy goes out of use, and a decrement is written.
LEMMA BalancedUnuse ==
    ASSUME NEW c, NEW A, NEW R, NEW F, NEW P, NEW U, Balanced(c, A, R, F, P, U),
           NEW x, x \notin R, NEW p, p \in U
    PROVE  Balanced(c, A, R \cup {x}, F, P, U \ {p})
<1>1. /\ IsFiniteSet(R \cup {x}) /\ Cardinality(R \cup {x}) = Cardinality(R) + 1
      /\ IsFiniteSet(U \ {p}) /\ Cardinality(U) = Cardinality(U \ {p}) + 1
      /\ Cardinality(U \ {p}) \in Nat
  BY OneMore, OneLess DEF Balanced
<1> QED BY <1>1, BalancedNumbers DEF Balanced

\* A parcel arrives, with its count; a parcel is freed.
LEMMA BalancedArrive ==
    ASSUME NEW c, NEW A, NEW R, NEW F, NEW P, NEW U, Balanced(c, A, R, F, P, U),
           NEW x, x \notin P
    PROVE  Balanced(c + 1, A, R, F, P \cup {x}, U)
<1>1. IsFiniteSet(P \cup {x}) /\ Cardinality(P \cup {x}) = Cardinality(P) + 1
  BY OneMore DEF Balanced
<1> QED BY <1>1, BalancedNumbers DEF Balanced

LEMMA BalancedFree ==
    ASSUME NEW c, NEW A, NEW R, NEW F, NEW P, NEW U, Balanced(c, A, R, F, P, U),
           NEW x, x \notin F, NEW p, p \in P
    PROVE  Balanced(c, A, R, F \cup {x}, P \ {p}, U)
<1>1. /\ IsFiniteSet(F \cup {x}) /\ Cardinality(F \cup {x}) = Cardinality(F) + 1
      /\ IsFiniteSet(P \ {p}) /\ Cardinality(P) = Cardinality(P \ {p}) + 1
      /\ Cardinality(P \ {p}) \in Nat
  BY OneMore, OneLess DEF Balanced
<1> QED BY <1>1, BalancedNumbers DEF Balanced

\* The driver applies a command.
LEMMA BalancedInc ==
    ASSUME NEW c, NEW A, NEW R, NEW F, NEW P, NEW U, Balanced(c, A, R, F, P, U),
           NEW x, x \in A, NEW d, d = c + 1
    PROVE  Balanced(d, A \ {x}, R, F, P, U)
<1>1. /\ IsFiniteSet(A \ {x}) /\ Cardinality(A) = Cardinality(A \ {x}) + 1
      /\ Cardinality(A \ {x}) \in Nat
  BY OneLess DEF Balanced
<1> QED BY <1>1, BalancedNumbers DEF Balanced

\* ... a decrement for a proxy
LEMMA BalancedDec ==
    ASSUME NEW c, NEW A, NEW R, NEW F, NEW P, NEW U, Balanced(c, A, R, F, P, U),
           NEW x, x \in R, NEW d \in Nat, c = d + 1
    PROVE  Balanced(d, A, R \ {x}, F, P, U)
<1>1. /\ IsFiniteSet(R \ {x}) /\ Cardinality(R) = Cardinality(R \ {x}) + 1
      /\ Cardinality(R \ {x}) \in Nat
  BY OneLess DEF Balanced
<1>2. PICK i \in Nat, j \in Nat, k \in Nat, l \in Nat, m \in Nat :
           /\ i = Cardinality(A) /\ j = Cardinality(P) /\ k = Cardinality(U)
           /\ l = Cardinality(R \ {x}) /\ m = Cardinality(F)
  BY <1>1, BalancedNumbers
<1>3. d + 1 + i = j + k + (l + 1) + m
  BY <1>1, <1>2 DEF Balanced
<1>4. d + i = j + k + l + m
  BY <1>3
<1> QED BY <1>1, <1>2, <1>4 DEF Balanced

\* ... a decrement for a parcel
LEMMA BalancedGive ==
    ASSUME NEW c, NEW A, NEW R, NEW F, NEW P, NEW U, Balanced(c, A, R, F, P, U),
           NEW x, x \in F, NEW d \in Nat, c = d + 1
    PROVE  Balanced(d, A, R, F \ {x}, P, U)
<1>1. /\ IsFiniteSet(F \ {x}) /\ Cardinality(F) = Cardinality(F \ {x}) + 1
      /\ Cardinality(F \ {x}) \in Nat
  BY OneLess DEF Balanced
<1>2. d + Cardinality(A) = Cardinality(P) + Cardinality(U) + Cardinality(R) + Cardinality(F \ {x})
  BY <1>1, BalancedNumbers DEF Balanced
<1> QED BY <1>1, <1>2 DEF Balanced

\* What an increment is for: a proxy that is in use, or a decrement that is still to be
\* applied.
Holders(U, R) == ({0} \X U) \cup ({1} \X R)

\* There are as many of them as proxies in use and decrements together.
LEMMA HoldersFinite ==
    ASSUME NEW U, IsFiniteSet(U), NEW R, IsFiniteSet(R)
    PROVE  /\ IsFiniteSet(Holders(U, R))
           /\ Cardinality(Holders(U, R)) = Cardinality(U) + Cardinality(R)
           /\ Cardinality(U) \in Nat /\ Cardinality(R) \in Nat
<1>1. IsFiniteSet({0}) /\ Cardinality({0}) = 1 /\ IsFiniteSet({1}) /\ Cardinality({1}) = 1
  BY FS_Singleton
<1>2. IsFiniteSet({0} \X U) /\ Cardinality({0} \X U) = 1 * Cardinality(U)
  BY <1>1, FS_Product
<1>3. IsFiniteSet({1} \X R) /\ Cardinality({1} \X R) = 1 * Cardinality(R)
  BY <1>1, FS_Product
<1>4. Cardinality(U) \in Nat /\ Cardinality(R) \in Nat
  BY FS_CardinalityType
<1>5. ({0} \X U) \cap ({1} \X R) = {}
  OBVIOUS
<1>6. /\ IsFiniteSet(Holders(U, R))
      /\ Cardinality(Holders(U, R))
           = Cardinality({0} \X U) + Cardinality({1} \X R) - Cardinality({})
  BY <1>2, <1>3, <1>5, FS_Union DEF Holders
<1>7. Cardinality({}) = 0
  BY FS_EmptySet
<1> QED BY <1>2, <1>3, <1>4, <1>6, <1>7

\* Each increment in A has something of its own that it is for.
OneToOne(M, A, T) ==
    /\ M \in [A -> T]
    /\ \A a, b \in A : M[a] = M[b] => a = b

\* So there are no more increments than holders.
LEMMA NoMore ==
    ASSUME NEW A, NEW U, IsFiniteSet(U), NEW R, IsFiniteSet(R), NEW M,
           OneToOne(M, A, Holders(U, R))
    PROVE  Cardinality(A) <= Cardinality(U) + Cardinality(R)
<1>1. M \in Injection(A, Holders(U, R))
  BY DEF OneToOne, Injection, IsInjective
<1> QED BY <1>1, HoldersFinite, FS_Injection

\* Fewer, when there is something that no increment in A is for.
LEMMA OneSpare ==
    ASSUME NEW A, NEW U, IsFiniteSet(U), NEW R, IsFiniteSet(R), NEW M,
           OneToOne(M, A, Holders(U, R)),
           NEW t \in Holders(U, R), \A a \in A : M[a] # t
    PROVE  Cardinality(A) + 1 <= Cardinality(U) + Cardinality(R)
<1> DEFINE T == Holders(U, R) \ {t}
<1>1. M \in Injection(A, T)
  BY DEF OneToOne, Injection, IsInjective
<1>2. IsFiniteSet(T) /\ Cardinality(T) + 1 = Cardinality(U) + Cardinality(R)
      /\ Cardinality(T) \in Nat
  BY HoldersFinite, OneLess
<1>3. IsFiniteSet(A) /\ Cardinality(A) <= Cardinality(T)
  BY <1>1, <1>2, FS_Injection
<1>4. Cardinality(A) \in Nat
  BY <1>3, FS_CardinalityType
<1> QED BY <1>2, <1>3, <1>4

\* So the driver's count is at least what no command has been written for.
LEMMA CountEnough ==
    ASSUME NEW c, NEW A, NEW R, NEW F, NEW P, NEW U, Balanced(c, A, R, F, P, U),
           NEW M, OneToOne(M, A, Holders(U, R))
    PROVE  /\ P # {} => c > 0
           /\ F # {} => c > 0
           /\ \A t \in Holders(U, R) : (\A a \in A : M[a] # t) => c > 0
<1>1. \A S : IsFiniteSet(S) /\ S # {} => Cardinality(S) \in Nat /\ Cardinality(S) # 0
  BY FS_EmptySet, FS_CardinalityType
<1>2. /\ P # {} => Cardinality(P) # 0
      /\ F # {} => Cardinality(F) # 0
  BY <1>1 DEF Balanced
<1>3. Cardinality(A) <= Cardinality(U) + Cardinality(R)
  BY NoMore DEF Balanced
<1>4. \A t \in Holders(U, R) : (\A a \in A : M[a] # t) =>
          Cardinality(A) + 1 <= Cardinality(U) + Cardinality(R)
  BY OneSpare DEF Balanced
<1>5. P # {} => c > 0
  BY <1>2, <1>3, BalancedNumbers DEF Balanced
<1>6. F # {} => c > 0
  BY <1>2, <1>3, BalancedNumbers DEF Balanced
<1>7. Cardinality(A) + 1 <= Cardinality(U) + Cardinality(R) => c > 0
  BY BalancedNumbers DEF Balanced
<1> QED BY <1>4, <1>5, <1>6, <1>7

-----------------------------------------------------------------------------
(* Increments and the decrements that wait for them *)

\* The increment at a is applied before the decrement at r: it is before it in the same
\* queue, or the decrement was written after it.
Guarded(mo, a, r) ==
    \/ a[1] = r[1] /\ a[2] < r[2]
    \/ a[1] \in mo[r[1]][r[2]].after

Matches(M, mo, A, R, U) ==
    /\ OneToOne(M, A, Holders(U, R))
    /\ \A a \in A, r \in R : M[a] = <<1, r>> => Guarded(mo, a, r)

\* The commands at R are in both queues.
SameAt(mo, nu, R) == \A r \in R : nu[r[1]][r[2]] = mo[r[1]][r[2]]

\* A queue that grows changes nothing of this.
LEMMA MatchesSame ==
    ASSUME NEW M, NEW mo, NEW nu, NEW A, NEW R, NEW U, Matches(M, mo, A, R, U), SameAt(mo, nu, R)
    PROVE  Matches(M, nu, A, R, U)
BY DEF Matches, SameAt, Guarded

\* What a holder is.
LEMMA HolderIs ==
    ASSUME NEW U, NEW R, NEW t \in Holders(U, R)
    PROVE  \/ \E p \in U : t = <<0, p>>
           \/ \E r \in R : t = <<1, r>>
BY DEF Holders

\* A new increment is for the proxy that comes into use.
LEMMA MatchesUse ==
    ASSUME NEW M, NEW mo, NEW nu, NEW A, NEW R, NEW U, Matches(M, mo, A, R, U), SameAt(mo, nu, R),
           NEW x, x \notin A, NEW p, p \notin U
    PROVE  \E N : Matches(N, nu, A \cup {x}, R, U \cup {p})
<1> DEFINE N == [a \in A \cup {x} |-> IF a = x THEN <<0, p>> ELSE M[a]]
<1>1. \A a \in A : a # x /\ N[a] = M[a] /\ M[a] \in Holders(U, R)
  BY DEF Matches, OneToOne
<1>2. N[x] = <<0, p>> /\ <<0, p>> \in Holders(U \cup {p}, R)
  BY DEF Holders
<1>3. \A a \in A : M[a] # <<0, p>>
  <2>1. <<0, p>> \notin Holders(U, R)
    BY DEF Holders
  <2> QED BY <1>1, <2>1
<1>4. Holders(U, R) \subseteq Holders(U \cup {p}, R)
  BY DEF Holders
<1>5. N \in [A \cup {x} -> Holders(U \cup {p}, R)]
  BY <1>1, <1>2, <1>4
<1> HIDE DEF N
<1>6. \A a, b \in A \cup {x} : N[a] = N[b] => a = b
  BY <1>1, <1>2, <1>3 DEF Matches, OneToOne
<1>7. ASSUME NEW a \in A \cup {x}, NEW r \in R, N[a] = <<1, r>>
      PROVE  Guarded(nu, a, r)
  <2>1. a # x
    BY <1>2, <1>7
  <2>2. M[a] = <<1, r>> /\ a \in A
    BY <1>1, <1>7, <2>1
  <2> QED BY <2>2 DEF Matches, SameAt, Guarded
<1> QED BY <1>5, <1>6, <1>7 DEF Matches, OneToOne

\* The increment of a proxy that goes out of use is for the decrement that is written.
LEMMA MatchesUnuse ==
    ASSUME NEW M, NEW mo, NEW nu, NEW A, NEW R, NEW U, Matches(M, mo, A, R, U), SameAt(mo, nu, R),
           NEW x, x \notin R, NEW p, p \in U, \A a \in A : Guarded(nu, a, x)
    PROVE  \E N : Matches(N, nu, A, R \cup {x}, U \ {p})
<1> DEFINE N == [a \in A |-> IF M[a] = <<0, p>> THEN <<1, x>> ELSE M[a]]
<1>1. \A a \in A : M[a] \in Holders(U, R)
  BY DEF Matches, OneToOne
<1>2. <<1, x>> \in Holders(U \ {p}, R \cup {x}) /\ <<1, x>> \notin Holders(U, R)
  BY DEF Holders
<1>3. \A t \in Holders(U, R) : t # <<0, p>> => t \in Holders(U \ {p}, R \cup {x})
  <2> SUFFICES ASSUME NEW t \in Holders(U, R), t # <<0, p>>
               PROVE  t \in Holders(U \ {p}, R \cup {x})
    OBVIOUS
  <2>1. CASE \E q \in U : t = <<0, q>>
    BY <2>1 DEF Holders
  <2>2. CASE \E r \in R : t = <<1, r>>
    BY <2>2 DEF Holders
  <2> QED BY <2>1, <2>2, HolderIs
<1>4. N \in [A -> Holders(U \ {p}, R \cup {x})]
  BY <1>1, <1>2, <1>3
<1>5. \A a \in A : N[a] = IF M[a] = <<0, p>> THEN <<1, x>> ELSE M[a]
  OBVIOUS
<1> HIDE DEF N
<1>6. \A a, b \in A : N[a] = N[b] => a = b
  BY <1>1, <1>2, <1>5 DEF Matches, OneToOne
<1>7. ASSUME NEW a \in A, NEW r \in R \cup {x}, N[a] = <<1, r>>
      PROVE  Guarded(nu, a, r)
  <2>1. CASE r = x
    BY <2>1
  <2>2. CASE r # x
    <3>1. r \in R /\ <<1, r>> # <<1, x>>
      BY <2>2
    <3>2. M[a] = <<1, r>>
      BY <1>5, <1>7, <3>1
    <3> QED BY <3>1, <3>2 DEF Matches, SameAt, Guarded
  <2> QED BY <2>1, <2>2
<1> QED BY <1>4, <1>6, <1>7 DEF Matches, OneToOne

\* Those that are left have something of their own that is left, when no decrement is gone
\* that one of them was to be applied before.
LEMMA MatchesLess ==
    ASSUME NEW M, NEW mo, NEW A, NEW R, NEW U, Matches(M, mo, A, R, U),
           NEW B, B \subseteq A, NEW Q, Q \subseteq R,
           \A a \in B, r \in R : Guarded(mo, a, r) => r \in Q
    PROVE  \E N : /\ Matches(N, mo, B, Q, U)
                  /\ \A a \in B : N[a] = M[a]
<1> DEFINE N == [a \in B |-> M[a]]
<1>1. ASSUME NEW a \in B
      PROVE  M[a] \in Holders(U, Q)
  <2>1. M[a] \in Holders(U, R) /\ a \in A
    BY DEF Matches, OneToOne
  <2>2. CASE \E p \in U : M[a] = <<0, p>>
    BY <2>2 DEF Holders
  <2>3. CASE \E r \in R : M[a] = <<1, r>>
    <3>1. PICK r \in R : M[a] = <<1, r>>
      BY <2>3
    <3>2. r \in Q
      BY <2>1, <3>1 DEF Matches
    <3> QED BY <3>1, <3>2 DEF Holders
  <2> QED BY <2>1, <2>2, <2>3, HolderIs
<1>2. N \in [B -> Holders(U, Q)] /\ \A a \in B : N[a] = M[a]
  BY <1>1
<1> HIDE DEF N
<1>3. \A a, b \in B : N[a] = N[b] => a = b
  BY <1>2 DEF Matches, OneToOne
<1>4. \A a \in B, r \in Q : N[a] = <<1, r>> => Guarded(mo, a, r)
  BY <1>2 DEF Matches
<1> QED BY <1>2, <1>3, <1>4 DEF Matches, OneToOne

-----------------------------------------------------------------------------
(* The queues *)

\* The commands about one of the two counts.
Kind == {"strong", "weak"}
Inc(k) == IF k = "strong" THEN "ACQUIRE" ELSE "INCREFS"
Dec(k) == IF k = "strong" THEN "RELEASE" ELSE "DECREFS"
Gives(k) == IF k = "strong" THEN "FREE_STRONG" ELSE "FREE_WEAK"
CommandOf(k) == {Inc(k), Dec(k), Gives(k)}
Op == Increments \cup Decrements \cup Frees

\* The two kinds have commands of their own, and each command has a kind.
LEMMA Commands ==
    /\ \A k \in Kind : /\ Inc(k) \in Increments /\ Dec(k) \in Decrements /\ Gives(k) \in Frees
                       /\ Inc(k) # Dec(k) /\ Inc(k) # Gives(k) /\ Dec(k) # Gives(k)
    /\ \A k, l \in Kind : k # l => CommandOf(k) \cap CommandOf(l) = {}
    /\ \A op \in Op : \E k \in Kind : op \in CommandOf(k)
BY DEF Kind, Inc, Dec, Gives, CommandOf, Op, Increments, Decrements, Frees

Queues(mo) ==
    /\ mo \in [Thread -> Seq(CommandRec)]
    /\ \A th \in Thread : Len(mo[th]) <= MaxOut

Slots == Thread \X (1 .. MaxOut)

\* Where there is a command op.
Places(mo, op) ==
    {x \in Slots : x[2] =< Len(mo[x[1]]) /\ mo[x[1]][x[2]].op = op}

\* A place is that of a command in a queue; there are finitely many.
LEMMA PlaceIs ==
    ASSUME NEW mo, Queues(mo), NEW op
    PROVE  /\ IsFiniteSet(Places(mo, op))
           /\ \A x \in Places(mo, op) :
                 \E th \in Thread : \E i \in 1 .. Len(mo[th]) : x = <<th, i>> /\ mo[th][i].op = op
           /\ \A th \in Thread : \A i \in 1 .. Len(mo[th]) :
                 mo[th][i].op = op => <<th, i>> \in Places(mo, op)
<1>1. MaxOut \in Nat /\ IsFiniteSet(Thread)
  BY RemoteAssumption
<1>2. IsFiniteSet(Slots)
  <2>1. IsFiniteSet(1 .. MaxOut)
    BY <1>1, FS_Interval
  <2> QED BY <1>1, <2>1, FS_Product DEF Slots
<1>3. IsFiniteSet(Places(mo, op))
  BY <1>2, FS_Subset DEF Places
<1>4. ASSUME NEW x \in Places(mo, op)
      PROVE  \E th \in Thread : \E i \in 1 .. Len(mo[th]) : x = <<th, i>> /\ mo[th][i].op = op
  <2>1. PICK th \in Thread, i \in 1 .. MaxOut : x = <<th, i>>
    BY DEF Places, Slots
  <2>2. i =< Len(mo[th]) /\ mo[th][i].op = op
    BY <2>1 DEF Places
  <2>3. Len(mo[th]) \in Nat
    BY DEF Queues
  <2>4. i \in 1 .. Len(mo[th])
    BY <1>1, <2>2, <2>3
  <2> QED BY <2>1, <2>2, <2>4
<1>5. ASSUME NEW th \in Thread, NEW i \in 1 .. Len(mo[th]), mo[th][i].op = op
      PROVE  <<th, i>> \in Places(mo, op)
  <2>1. Len(mo[th]) \in Nat /\ Len(mo[th]) <= MaxOut
    BY DEF Queues
  <2>2. i \in 1 .. MaxOut /\ i =< Len(mo[th])
    BY <1>1, <2>1
  <2> QED BY <1>5, <2>2 DEF Places, Slots
<1> QED BY <1>3, <1>4, <1>5

\* nu is mo with the commands ops of th written.
Written(mo, nu, th, ops) ==
    /\ Queues(nu)
    /\ \A u \in Thread : u # th => nu[u] = mo[u]
    /\ Len(nu[th]) = Len(mo[th]) + Len(ops)
    /\ \A i \in 1 .. Len(mo[th]) : nu[th][i] = mo[th][i]
    /\ \A j \in 1 .. Len(ops) : nu[th][Len(mo[th]) + j] = Command(th, ops[j])

\* Write puts the commands at the end of the queue of th.
LEMMA WriteIs ==
    ASSUME Queues(mOut), NEW th \in Thread, NEW ops \in Seq(Op), Write(th, ops)
    PROVE  Written(mOut, mOut', th, ops)
<1> DEFINE new == [i \in DOMAIN ops |-> Command(th, ops[i])]
           q == mOut[th]
<1>1. /\ Len(q) + Len(ops) =< MaxOut
      /\ mOut' = [mOut EXCEPT ![th] = q \o new]
  BY DEF Write
<1>2. q \in Seq(CommandRec) /\ Len(q) \in Nat /\ Len(ops) \in Nat /\ DOMAIN ops = 1 .. Len(ops)
  BY DEF Queues
<1>3. \A op \in Op : Command(th, op) \in CommandRec
  <2>1. Behind(th) \in SUBSET Thread
    BY DEF Behind
  <2> QED BY <2>1 DEF Command, CommandRec, Op
<1>4. new \in Seq(CommandRec) /\ Len(new) = Len(ops)
      /\ \A j \in 1 .. Len(ops) : new[j] = Command(th, ops[j])
  <2>1. \A j \in 1 .. Len(ops) : ops[j] \in Op
    BY <1>2
  <2>2. new \in [1 .. Len(ops) -> CommandRec]
    BY <1>2, <1>3, <2>1
  <2>3. \A j \in 1 .. Len(ops) : new[j] = Command(th, ops[j])
    BY <1>2
  <2> HIDE DEF new
  <2> QED BY <1>2, <2>2, <2>3
<1> HIDE DEF new
<1>5. /\ q \o new \in Seq(CommandRec)
      /\ Len(q \o new) = Len(q) + Len(ops)
      /\ \A i \in 1 .. Len(q) : (q \o new)[i] = q[i]
      /\ \A j \in 1 .. Len(ops) : (q \o new)[Len(q) + j] = new[j]
  BY <1>2, <1>4
<1>6. mOut'[th] = q \o new /\ \A u \in Thread : u # th => mOut'[u] = mOut[u]
  BY <1>1 DEF Queues
<1>7. mOut' \in [Thread -> Seq(CommandRec)]
  BY <1>1, <1>5 DEF Queues
<1>8. Queues(mOut')
  BY <1>1, <1>5, <1>6, <1>7 DEF Queues
<1> QED BY <1>4, <1>5, <1>6, <1>8 DEF Written

\* The commands ops have op at place j; x is where th has written it.
Has(ops, j, op) == j \in 1 .. Len(ops) /\ ops[j] = op
HasOnly(ops, j, op) == \A i \in 1 .. Len(ops) : ops[i] = op <=> i = j
HasNone(ops, op) == \A i \in 1 .. Len(ops) : ops[i] # op
PlaceOf(mo, th, j) == <<th, Len(mo[th]) + j>>

\* Each place that is new is that of a command of ops.
LEMMA WrittenNew ==
    ASSUME NEW mo, Queues(mo), NEW nu, NEW th \in Thread, NEW ops \in Seq(Op),
           Written(mo, nu, th, ops), NEW op, NEW x \in Places(nu, op), x \notin Places(mo, op)
    PROVE  \E j : Has(ops, j, op) /\ x = PlaceOf(mo, th, j)
<1>1. Queues(nu)
  BY DEF Written
<1>2. \A u \in Thread : Len(mo[u]) \in Nat /\ Len(nu[u]) \in Nat
  BY <1>1 DEF Queues
<1>3. Len(ops) \in Nat
  OBVIOUS
<1>4. PICK u \in Thread : \E i \in 1 .. Len(nu[u]) : x = <<u, i>> /\ nu[u][i].op = op
  BY <1>1, PlaceIs
<1>5. PICK i \in 1 .. Len(nu[u]) : x = <<u, i>> /\ nu[u][i].op = op
  BY <1>4
<1>6. ~(u # th)
  <2>1. u # th => nu[u] = mo[u]
    BY DEF Written
  <2> QED BY <1>5, <2>1, PlaceIs
<1>7. ~(i \in 1 .. Len(mo[th]))
  <2>1. i \in 1 .. Len(mo[th]) => nu[th][i] = mo[th][i]
    BY DEF Written
  <2> QED BY <1>5, <1>6, <2>1, PlaceIs
<1>8. PICK j \in 1 .. Len(ops) : i = Len(mo[th]) + j
  <2>1. Len(nu[th]) = Len(mo[th]) + Len(ops) /\ i \in 1 .. Len(nu[th])
    BY <1>5, <1>6 DEF Written
  <2>2. i - Len(mo[th]) \in 1 .. Len(ops) /\ i = Len(mo[th]) + (i - Len(mo[th]))
    BY <1>2, <1>3, <1>7, <2>1
  <2> QED BY <2>2
<1>9. nu[th][i] = Command(th, ops[j])
  BY <1>8 DEF Written
<1>10. ops[j] = op
  BY <1>5, <1>6, <1>9 DEF Command
<1> QED BY <1>5, <1>6, <1>8, <1>10 DEF Has, PlaceOf

\* What is written adds a place for each command, and leaves those that there are.
LEMMA WrittenPlaces ==
    ASSUME NEW mo, Queues(mo), NEW nu, NEW th \in Thread, NEW ops \in Seq(Op),
           Written(mo, nu, th, ops), NEW op
    PROVE  /\ SameAt(mo, nu, Places(mo, op))
           /\ Places(mo, op) \subseteq Places(nu, op)
           /\ \A j : Has(ops, j, op) =>
                 PlaceOf(mo, th, j) \in Places(nu, op) /\ PlaceOf(mo, th, j) \notin Places(mo, op)
<1>1. Queues(nu)
  BY DEF Written
<1>2. \A u \in Thread : Len(mo[u]) \in Nat /\ Len(nu[u]) \in Nat
  BY <1>1 DEF Queues
<1>3. Len(ops) \in Nat
  OBVIOUS
<1>4. ASSUME NEW x \in Places(mo, op)
      PROVE  nu[x[1]][x[2]] = mo[x[1]][x[2]] /\ x \in Places(nu, op)
  <2>0. PICK u \in Thread : \E i \in 1 .. Len(mo[u]) : x = <<u, i>> /\ mo[u][i].op = op
    BY PlaceIs
  <2>1. PICK i \in 1 .. Len(mo[u]) : x = <<u, i>> /\ mo[u][i].op = op
    BY <2>0
  <2>2. nu[u][i] = mo[u][i] /\ i \in 1 .. Len(nu[u])
    <3>1. CASE u = th
      BY <1>2, <1>3, <3>1 DEF Written
    <3>2. CASE u # th
      BY <3>2 DEF Written
    <3> QED BY <3>1, <3>2
  <2> QED BY <1>1, <2>1, <2>2, PlaceIs
<1>5. ASSUME NEW j \in 1 .. Len(ops), ops[j] = op
      PROVE  /\ <<th, Len(mo[th]) + j>> \in Places(nu, op)
             /\ <<th, Len(mo[th]) + j>> \notin Places(mo, op)
  <2>0. nu[th][Len(mo[th]) + j] = Command(th, ops[j])
    BY DEF Written
  <2>1. nu[th][Len(mo[th]) + j].op = op
    BY <1>5, <2>0 DEF Command
  <2>2. Len(mo[th]) + j \in 1 .. Len(nu[th]) /\ Len(mo[th]) + j \notin 1 .. Len(mo[th])
    BY <1>2, <1>3 DEF Written
  <2>3. <<th, Len(mo[th]) + j>> \in Places(nu, op)
    BY <1>1, <2>1, <2>2, PlaceIs
  <2>4. <<th, Len(mo[th]) + j>> \in Places(mo, op) => Len(mo[th]) + j \in 1 .. Len(mo[th])
    BY PlaceIs
  <2> QED BY <2>2, <2>3, <2>4
<1>6. SameAt(mo, nu, Places(mo, op))
  BY <1>4 DEF SameAt
<1>7. Places(mo, op) \subseteq Places(nu, op)
  BY <1>4
<1>8. \A j : Has(ops, j, op) =>
          PlaceOf(mo, th, j) \in Places(nu, op) /\ PlaceOf(mo, th, j) \notin Places(mo, op)
  BY <1>5 DEF Has, PlaceOf
<1> QED BY <1>6, <1>7, <1>8

\* No place for a command that is not written.
LEMMA PlacesSame ==
    ASSUME NEW mo, Queues(mo), NEW nu, NEW th \in Thread, NEW ops \in Seq(Op),
           Written(mo, nu, th, ops), NEW op, HasNone(ops, op)
    PROVE  Places(nu, op) = Places(mo, op)
<1>1. Places(mo, op) \subseteq Places(nu, op)
  BY WrittenPlaces
<1>2. \A x \in Places(nu, op) : x \in Places(mo, op)
  <2>1. \A j : ~Has(ops, j, op)
    BY DEF HasNone, Has
  <2> QED BY <2>1, WrittenNew
<1> QED BY <1>1, <1>2

\* One place for a command that is written once.
LEMMA PlacesMore ==
    ASSUME NEW mo, Queues(mo), NEW nu, NEW th \in Thread, NEW ops \in Seq(Op),
           Written(mo, nu, th, ops), NEW op, NEW j \in 1 .. Len(ops), HasOnly(ops, j, op)
    PROVE  /\ Places(nu, op) = Places(mo, op) \cup {PlaceOf(mo, th, j)}
           /\ PlaceOf(mo, th, j) \notin Places(mo, op)
<1>1. Places(mo, op) \subseteq Places(nu, op)
  BY WrittenPlaces
<1>2. Has(ops, j, op) /\ \A i : Has(ops, i, op) => i = j
  BY DEF Has, HasOnly
<1>3. \A y \in Places(nu, op) : y \in Places(mo, op) \/ y = PlaceOf(mo, th, j)
  BY <1>2, WrittenNew
<1>4. PlaceOf(mo, th, j) \in Places(nu, op) /\ PlaceOf(mo, th, j) \notin Places(mo, op)
  BY <1>2, WrittenPlaces
<1> QED BY <1>1, <1>3, <1>4

-----------------------------------------------------------------------------
(* The invariant of the counts *)

CountOf(r, k) == IF r = NULL THEN 0 ELSE r[k]

\* The threads with a parcel, and the proxies, that have a claim of kind k.
ParcelsOf(pa, k) ==
    {th \in Thread : pa[th] # NULL /\ (IF k = "strong" THEN pa[th].strong ELSE ~pa[th].strong)}
InUse(k) == {p \in Proxy : IF k = "strong" THEN strong[p] # {} ELSE bp[p].state # "free"}

\* Up to the first refusal the counts add up.
BalanceInv(k) ==
    Balanced(CountOf(ref, k), Places(mOut, Inc(k)), Places(mOut, Dec(k)),
             Places(mOut, Gives(k)), ParcelsOf(parcel, k), InUse(k))

\* Until a command is overtaken, each increment that is pending has something of its own
\* that it is for.
MatchInv(k) ==
    \E M : Matches(M, mOut, Places(mOut, Inc(k)), Places(mOut, Dec(k)), InUse(k))

KindInv(k) ==
    /\ ~refused => BalanceInv(k)
    /\ ~overtaken => MatchInv(k)

\* A thread with increments in its queue q has the parcel x that they were taken for, or
\* frees it behind them.
EntitledAt(q, x) ==
    \A i \in 1 .. Len(q) :
        /\ q[i].op = "INCREFS" => x # NULL \/ \E j \in 1 .. Len(q) : j > i /\ q[j].op \in Frees
        /\ q[i].op = "ACQUIRE" => \/ x # NULL /\ x.strong
                                  \/ \E j \in 1 .. Len(q) : j > i /\ q[j].op = "FREE_STRONG"

Entitled == \A th \in Thread : EntitledAt(mOut[th], parcel[th])

\* Everybody means the same object.
NodeInv ==
    ref # NULL =>
        /\ \A th \in Thread : parcel[th] # NULL => parcel[th].node = ref.node
        /\ \A p \in Proxy : bp[p].state # "free" => bp[p].node = ref.node

CountsOK ==
    /\ Queues(mOut)
    /\ ref \in RefRec \cup {NULL}
    /\ refused \in BOOLEAN /\ overtaken \in BOOLEAN

HeldInv ==
    /\ ParcelTypeOK /\ TableInv /\ CountsOK /\ Entitled
    /\ \A k \in Kind : KindInv(k)
    /\ ~overtaken => ~refused /\ NodeInv

-----------------------------------------------------------------------------
(* Commands are written *)

\* Nothing about kind k.
LEMMA WriteNone ==
    ASSUME Queues(mOut), NEW k \in Kind, KindInv(k), UNCHANGED driverVars,
           NEW th \in Thread, NEW ops \in Seq(Op), Written(mOut, mOut', th, ops),
           \A j \in 1 .. Len(ops) : ops[j] \notin CommandOf(k),
           ParcelsOf(parcel', k) = ParcelsOf(parcel, k), InUse(k)' = InUse(k)
    PROVE  KindInv(k)'
<1>1. \A op \in CommandOf(k) : Places(mOut', op) = Places(mOut, op)
  <2>1. \A op \in CommandOf(k) : HasNone(ops, op)
    BY DEF HasNone
  <2> QED BY <2>1, PlacesSame
<1>2. /\ Places(mOut', Inc(k)) = Places(mOut, Inc(k))
      /\ Places(mOut', Dec(k)) = Places(mOut, Dec(k))
      /\ Places(mOut', Gives(k)) = Places(mOut, Gives(k))
  BY <1>1 DEF CommandOf
<1>3. SameAt(mOut, mOut', Places(mOut, Dec(k)))
  BY WrittenPlaces
<1>4. ref' = ref /\ refused' = refused /\ overtaken' = overtaken
  BY DEF driverVars
<1>5. BalanceInv(k) => BalanceInv(k)'
  BY <1>2, <1>4 DEF BalanceInv
<1>6. MatchInv(k) => MatchInv(k)'
  <2> SUFFICES ASSUME MatchInv(k)
               PROVE  MatchInv(k)'
    OBVIOUS
  <2>1. PICK M : Matches(M, mOut, Places(mOut, Inc(k)), Places(mOut, Dec(k)), InUse(k))
    BY DEF MatchInv
  <2>2. Matches(M, mOut', Places(mOut, Inc(k)), Places(mOut, Dec(k)), InUse(k))
    BY <1>3, <2>1, MatchesSame
  <2> QED BY <1>2, <2>2 DEF MatchInv
<1> QED BY <1>4, <1>5, <1>6 DEF KindInv

\* A proxy comes into use.
LEMMA WriteInc ==
    ASSUME Queues(mOut), NEW k \in Kind, KindInv(k), UNCHANGED driverVars,
           NEW th \in Thread, NEW ops \in Seq(Op), Written(mOut, mOut', th, ops),
           NEW j \in 1 .. Len(ops), ops[j] = Inc(k),
           \A i \in 1 .. Len(ops) : i # j => ops[i] \notin CommandOf(k),
           ParcelsOf(parcel', k) = ParcelsOf(parcel, k),
           NEW p, p \notin InUse(k), InUse(k)' = InUse(k) \cup {p}
    PROVE  KindInv(k)'
<1>0. Inc(k) # Dec(k) /\ Inc(k) # Gives(k) /\ {Inc(k), Dec(k), Gives(k)} \subseteq CommandOf(k)
  BY Commands DEF CommandOf
<1>1. /\ \A i \in 1 .. Len(ops) : ops[i] # Dec(k) /\ ops[i] # Gives(k)
      /\ \A i \in 1 .. Len(ops) : ops[i] = Inc(k) => i = j
  BY <1>0
<1>2. PICK x : x = PlaceOf(mOut, th, j)
  OBVIOUS
<1>3. Places(mOut', Inc(k)) = Places(mOut, Inc(k)) \cup {x} /\ x \notin Places(mOut, Inc(k))
  <2>1. HasOnly(ops, j, Inc(k)) /\ j \in 1 .. Len(ops)
    BY <1>1 DEF HasOnly
  <2> QED BY <1>2, <2>1, PlacesMore
<1>4. /\ Places(mOut', Dec(k)) = Places(mOut, Dec(k))
      /\ Places(mOut', Gives(k)) = Places(mOut, Gives(k))
  <2>1. HasNone(ops, Dec(k)) /\ HasNone(ops, Gives(k))
    BY <1>1 DEF HasNone
  <2> QED BY <2>1, PlacesSame
<1>5. SameAt(mOut, mOut', Places(mOut, Dec(k)))
  BY WrittenPlaces
<1>6. ref' = ref /\ refused' = refused /\ overtaken' = overtaken
  BY DEF driverVars
<1>7. BalanceInv(k) => BalanceInv(k)'
  BY <1>3, <1>4, <1>6, BalancedUse DEF BalanceInv
<1>8. MatchInv(k) => MatchInv(k)'
  <2> SUFFICES ASSUME MatchInv(k)
               PROVE  MatchInv(k)'
    OBVIOUS
  <2>1. PICK M : Matches(M, mOut, Places(mOut, Inc(k)), Places(mOut, Dec(k)), InUse(k))
    BY DEF MatchInv
  <2>2. \E N : Matches(N, mOut', Places(mOut, Inc(k)) \cup {x}, Places(mOut, Dec(k)),
                       InUse(k) \cup {p})
    BY <1>3, <1>5, <2>1, MatchesUse
  <2> QED BY <1>3, <1>4, <2>2 DEF MatchInv
<1> QED BY <1>6, <1>7, <1>8 DEF KindInv

\* A proxy goes out of use; the decrement is behind every increment that is pending.
LEMMA WriteDec ==
    ASSUME Queues(mOut), NEW k \in Kind, KindInv(k), UNCHANGED driverVars,
           NEW th \in Thread, NEW ops \in Seq(Op), Written(mOut, mOut', th, ops),
           Len(ops) = 1, ops[1] = Dec(k),
           ParcelsOf(parcel', k) = ParcelsOf(parcel, k),
           NEW p \in InUse(k), InUse(k)' = InUse(k) \ {p}
    PROVE  KindInv(k)'
<1>0. Dec(k) # Inc(k) /\ Dec(k) # Gives(k) /\ Inc(k) \in Increments /\ Dec(k) \in Decrements
  BY Commands
<1>1. /\ \A i \in 1 .. Len(ops) : ops[i] # Inc(k) /\ ops[i] # Gives(k)
      /\ \A i \in 1 .. Len(ops) : ops[i] = Dec(k) => i = 1
      /\ 1 \in 1 .. Len(ops)
  BY <1>0
<1>2. PICK x : x = PlaceOf(mOut, th, 1)
  OBVIOUS
<1>3. Places(mOut', Dec(k)) = Places(mOut, Dec(k)) \cup {x} /\ x \notin Places(mOut, Dec(k))
  <2>1. HasOnly(ops, 1, Dec(k)) /\ 1 \in 1 .. Len(ops)
    BY <1>1 DEF HasOnly
  <2> QED BY <1>2, <2>1, PlacesMore
<1>4. /\ Places(mOut', Inc(k)) = Places(mOut, Inc(k))
      /\ Places(mOut', Gives(k)) = Places(mOut, Gives(k))
  <2>1. HasNone(ops, Inc(k)) /\ HasNone(ops, Gives(k))
    BY <1>1 DEF HasNone
  <2> QED BY <2>1, PlacesSame
<1>5. SameAt(mOut, mOut', Places(mOut, Dec(k)))
  BY WrittenPlaces
<1>6. ref' = ref /\ refused' = refused /\ overtaken' = overtaken
  BY DEF driverVars
<1>7. BalanceInv(k) => BalanceInv(k)'
  BY <1>3, <1>4, <1>6, BalancedUnuse DEF BalanceInv
<1>8. ASSUME NEW a \in Places(mOut, Inc(k))
      PROVE  Guarded(mOut', a, x)
  <2>1. PICK u \in Thread : \E i \in 1 .. Len(mOut[u]) : a = <<u, i>> /\ mOut[u][i].op = Inc(k)
    BY PlaceIs
  <2>2. PICK i \in 1 .. Len(mOut[u]) : a = <<u, i>> /\ mOut[u][i].op = Inc(k)
    BY <2>1
  <2>3. CASE u = th
    <3>1. Len(mOut[th]) \in Nat
      BY DEF Queues
    <3> QED BY <1>2, <2>2, <2>3, <3>1 DEF Guarded, PlaceOf
  <2>4. CASE u # th
    <3>1. DOMAIN mOut[u] = 1 .. Len(mOut[u])
      BY DEF Queues
    <3>2. u \in Behind(th)
      BY <1>0, <2>2, <2>4, <3>1 DEF Behind
    <3>3. mOut'[th][Len(mOut[th]) + 1] = Command(th, Dec(k))
      BY <1>1 DEF Written
    <3>4. u \in mOut'[th][Len(mOut[th]) + 1].after
      BY <1>0, <3>2, <3>3 DEF Command
    <3> QED BY <1>2, <2>2, <3>4 DEF Guarded, PlaceOf
  <2> QED BY <2>3, <2>4
<1>9. MatchInv(k) => MatchInv(k)'
  <2> SUFFICES ASSUME MatchInv(k)
               PROVE  MatchInv(k)'
    OBVIOUS
  <2>1. PICK M : Matches(M, mOut, Places(mOut, Inc(k)), Places(mOut, Dec(k)), InUse(k))
    BY DEF MatchInv
  <2>2. \E N : Matches(N, mOut', Places(mOut, Inc(k)), Places(mOut, Dec(k)) \cup {x},
                       InUse(k) \ {p})
    BY <1>3, <1>5, <1>8, <2>1, MatchesUnuse
  <2> QED BY <1>3, <1>4, <2>2 DEF MatchInv
<1> QED BY <1>6, <1>7, <1>9 DEF KindInv

\* A parcel is freed.
LEMMA WriteGive ==
    ASSUME Queues(mOut), NEW k \in Kind, KindInv(k), UNCHANGED driverVars,
           NEW th \in Thread, NEW ops \in Seq(Op), Written(mOut, mOut', th, ops),
           Len(ops) = 1, ops[1] = Gives(k),
           th \in ParcelsOf(parcel, k), ParcelsOf(parcel', k) = ParcelsOf(parcel, k) \ {th},
           InUse(k)' = InUse(k)
    PROVE  KindInv(k)'
<1>0. Gives(k) # Inc(k) /\ Gives(k) # Dec(k)
  BY Commands
<1>1. /\ \A i \in 1 .. Len(ops) : ops[i] # Inc(k) /\ ops[i] # Dec(k)
      /\ \A i \in 1 .. Len(ops) : ops[i] = Gives(k) => i = 1
      /\ 1 \in 1 .. Len(ops)
  BY <1>0
<1>2. PICK x : x = PlaceOf(mOut, th, 1)
  OBVIOUS
<1>3. Places(mOut', Gives(k)) = Places(mOut, Gives(k)) \cup {x} /\ x \notin Places(mOut, Gives(k))
  <2>1. HasOnly(ops, 1, Gives(k)) /\ 1 \in 1 .. Len(ops)
    BY <1>1 DEF HasOnly
  <2> QED BY <1>2, <2>1, PlacesMore
<1>4. /\ Places(mOut', Inc(k)) = Places(mOut, Inc(k))
      /\ Places(mOut', Dec(k)) = Places(mOut, Dec(k))
  <2>1. HasNone(ops, Inc(k)) /\ HasNone(ops, Dec(k))
    BY <1>1 DEF HasNone
  <2> QED BY <2>1, PlacesSame
<1>5. SameAt(mOut, mOut', Places(mOut, Dec(k)))
  BY WrittenPlaces
<1>6. ref' = ref /\ refused' = refused /\ overtaken' = overtaken
  BY DEF driverVars
<1>7. BalanceInv(k) => BalanceInv(k)'
  BY <1>3, <1>4, <1>6, BalancedFree DEF BalanceInv
<1>8. MatchInv(k) => MatchInv(k)'
  <2> SUFFICES ASSUME MatchInv(k)
               PROVE  MatchInv(k)'
    OBVIOUS
  <2>1. PICK M : Matches(M, mOut, Places(mOut, Inc(k)), Places(mOut, Dec(k)), InUse(k))
    BY DEF MatchInv
  <2>2. Matches(M, mOut', Places(mOut, Inc(k)), Places(mOut, Dec(k)), InUse(k))
    BY <1>5, <2>1, MatchesSame
  <2> QED BY <1>4, <2>2 DEF MatchInv
<1> QED BY <1>6, <1>7, <1>8 DEF KindInv

\* What a thread writes: increments while it has the parcel that they are for.
LEMMA EntitledWritten ==
    ASSUME Queues(mOut), Entitled, NEW th \in Thread, NEW ops \in Seq(Op),
           Written(mOut, mOut', th, ops), UNCHANGED parcel,
           \A j \in 1 .. Len(ops) : /\ ops[j] = "INCREFS" => parcel[th] # NULL
                                    /\ ops[j] = "ACQUIRE" => parcel[th] # NULL /\ parcel[th].strong
    PROVE  Entitled'
<1>1. \A u \in Thread : u # th => EntitledAt(mOut'[u], parcel'[u])
  BY DEF Written, Entitled
<1>2. PICK m \in Nat, n \in Nat : m = Len(mOut[th]) /\ n = Len(ops) /\ Len(mOut'[th]) = m + n
  BY DEF Written, Queues
<1>3. ASSUME NEW i \in 1 .. Len(mOut'[th])
      PROVE  /\ mOut'[th][i].op = "INCREFS" =>
                    \/ parcel[th] # NULL
                    \/ \E j \in 1 .. Len(mOut'[th]) : j > i /\ mOut'[th][j].op \in Frees
             /\ mOut'[th][i].op = "ACQUIRE" =>
                    \/ parcel[th] # NULL /\ parcel[th].strong
                    \/ \E j \in 1 .. Len(mOut'[th]) : j > i /\ mOut'[th][j].op = "FREE_STRONG"
  <2>1. \A j \in 1 .. Len(mOut[th]) : j \in 1 .. Len(mOut'[th]) /\ mOut'[th][j] = mOut[th][j]
    BY <1>2 DEF Written
  <2>2. CASE i \in 1 .. Len(mOut[th])
    <3>1. EntitledAt(mOut[th], parcel[th])
      BY DEF Entitled
    <3> QED BY <2>1, <2>2, <3>1 DEF EntitledAt
  <2>3. CASE i \notin 1 .. Len(mOut[th])
    <3>1. i - m \in 1 .. n /\ i = m + (i - m)
      BY <1>2, <2>3
    <3>2. PICK j \in 1 .. n : i = m + j
      BY <3>1
    <3>3. mOut'[th][i] = Command(th, ops[j])
      BY <1>2, <3>2 DEF Written
    <3>4. mOut'[th][i].op = ops[j]
      BY <3>3 DEF Command
    <3> QED BY <1>2, <3>4
  <2> QED BY <2>2, <2>3
<1>4. EntitledAt(mOut'[th], parcel'[th])
  BY <1>3 DEF EntitledAt
<1> QED BY <1>1, <1>4 DEF Entitled

\* The parcel is freed behind them.
LEMMA EntitledFreed ==
    ASSUME Queues(mOut), Entitled, ParcelTypeOK, NEW th \in Thread, NEW ops \in Seq(Op),
           Written(mOut, mOut', th, ops), Len(ops) = 1, parcel[th] # NULL,
           ops[1] = IF parcel[th].strong THEN "FREE_STRONG" ELSE "FREE_WEAK",
           parcel' = [parcel EXCEPT ![th] = NULL]
    PROVE  Entitled'
<1>1. \A u \in Thread : u # th => EntitledAt(mOut'[u], parcel'[u])
  BY DEF Written, Entitled, ParcelTypeOK
<1>2. PICK m \in Nat : m = Len(mOut[th]) /\ Len(mOut'[th]) = m + 1
  BY DEF Written, Queues
<1>3. mOut'[th][m + 1].op = IF parcel[th].strong THEN "FREE_STRONG" ELSE "FREE_WEAK"
  <2>1. mOut'[th][m + 1] = Command(th, ops[1])
    BY <1>2 DEF Written
  <2> QED BY <2>1 DEF Command
<1>4. EntitledAt(mOut[th], parcel[th])
  BY DEF Entitled
<1>5. ASSUME NEW i \in 1 .. Len(mOut'[th])
      PROVE  /\ mOut'[th][i].op = "INCREFS" =>
                    \E j \in 1 .. Len(mOut'[th]) : j > i /\ mOut'[th][j].op \in Frees
             /\ mOut'[th][i].op = "ACQUIRE" =>
                    \E j \in 1 .. Len(mOut'[th]) : j > i /\ mOut'[th][j].op = "FREE_STRONG"
  <2>1. \A j \in 1 .. Len(mOut[th]) : j \in 1 .. Len(mOut'[th]) /\ mOut'[th][j] = mOut[th][j]
    BY <1>2 DEF Written
  <2>2. CASE i \in 1 .. Len(mOut[th])
    <3>1. m + 1 \in 1 .. Len(mOut'[th]) /\ m + 1 > i
      BY <1>2, <2>2
    <3>2. mOut'[th][m + 1].op \in Frees
      BY <1>3 DEF Frees
    <3>3. mOut[th][i].op = "INCREFS" =>
              \/ parcel[th] # NULL
              \/ \E j \in 1 .. Len(mOut[th]) : j > i /\ mOut[th][j].op \in Frees
      BY <1>4, <2>2 DEF EntitledAt
    <3>4. mOut[th][i].op = "ACQUIRE" =>
              \/ parcel[th] # NULL /\ parcel[th].strong
              \/ \E j \in 1 .. Len(mOut[th]) : j > i /\ mOut[th][j].op = "FREE_STRONG"
      BY <1>4, <2>2 DEF EntitledAt
    <3>5. mOut'[th][i] = mOut[th][i]
      BY <2>1, <2>2
    <3>6. parcel[th].strong => mOut'[th][m + 1].op = "FREE_STRONG"
      BY <1>3
    <3> QED BY <2>1, <3>1, <3>2, <3>3, <3>4, <3>5, <3>6
  <2>3. CASE i \notin 1 .. Len(mOut[th])
    <3>1. i = m + 1
      BY <1>2, <2>3
    <3> QED BY <1>3, <3>1
  <2> QED BY <2>2, <2>3
<1>6. EntitledAt(mOut'[th], parcel'[th])
  BY <1>5 DEF EntitledAt
<1> QED BY <1>1, <1>6 DEF Entitled

-----------------------------------------------------------------------------
(* The operations of the process *)

\* The empty sequence of commands is about neither count.
LEMMA NoCommand ==
    /\ <<>> \in Seq(Op) /\ Len(<<>>) = 0
    /\ \A k \in Kind : \A j \in 1 .. Len(<<>>) : <<>>[j] \notin CommandOf(k)
OBVIOUS

\* A command about one count is not about the other.
LEMMA OneCommand ==
    ASSUME NEW k \in Kind, NEW c \in CommandOf(k)
    PROVE  /\ <<c>> \in Seq(Op) /\ Len(<<c>>) = 1 /\ <<c>>[1] = c
           /\ \A l \in Kind : l # k => \A j \in 1 .. Len(<<c>>) : <<c>>[j] \notin CommandOf(l)
<1>1. c \in Op
  BY Commands DEF Op, CommandOf
<1>2. \A l \in Kind : l # k => c \notin CommandOf(l)
  BY Commands
<1> QED BY <1>1, <1>2

\* A step that leaves mOut alone writes it.
LEMMA NothingWritten ==
    ASSUME Queues(mOut), mOut' = mOut, NEW th \in Thread
    PROVE  Written(mOut, mOut', th, <<>>)
<1>1. Len(mOut[th]) \in Nat
  BY DEF Queues
<1> QED BY <1>1 DEF Written

\* What is left to show of a step that writes commands.
LEMMA HeldKept ==
    ASSUME HeldInv, ParcelTypeOK', TableInv', UNCHANGED driverVars,
           NEW th \in Thread, NEW ops \in Seq(Op), Written(mOut, mOut', th, ops),
           Entitled', \A k \in Kind : KindInv(k)',
           \A u \in Thread : parcel'[u] # NULL => parcel'[u] = parcel[u],
           \A p \in Proxy : bp'[p].state # "free" =>
              \/ bp[p].state # "free" /\ bp'[p].node = bp[p].node
              \/ \E u \in Thread : parcel[u] # NULL /\ bp'[p].node = parcel[u].node
    PROVE  HeldInv'
<1>1. ref' = ref /\ refused' = refused /\ overtaken' = overtaken
  BY DEF driverVars
<1>2. CountsOK'
  BY <1>1 DEF HeldInv, CountsOK, Written
<1>3. ~overtaken' => ~refused' /\ NodeInv'
  <2>1. NodeInv => NodeInv'
    <3> SUFFICES ASSUME NodeInv, ref # NULL
                 PROVE  /\ \A u \in Thread : parcel'[u] # NULL => parcel'[u].node = ref.node
                        /\ \A p \in Proxy : bp'[p].state # "free" => bp'[p].node = ref.node
      BY <1>1 DEF NodeInv
    <3>1. /\ \A u \in Thread : parcel[u] # NULL => parcel[u].node = ref.node
          /\ \A p \in Proxy : bp[p].state # "free" => bp[p].node = ref.node
      BY DEF NodeInv
    <3> QED BY <3>1
  <2> QED BY <1>1, <2>1 DEF HeldInv
<1> QED BY <1>2, <1>3 DEF HeldInv

\* The process holds more or fewer pointers to a proxy, with no command.
LEMMA QuietHeld ==
    ASSUME HeldInv, ParcelTypeOK', TableInv', UNCHANGED driverVars, NEW th \in Thread,
           UNCHANGED <<parcel, mOut, bp>>, InUse("strong")' = InUse("strong")
    PROVE  HeldInv'
<1>1. Queues(mOut) /\ Entitled /\ \A k \in Kind : KindInv(k)
  BY DEF HeldInv, CountsOK
<1>2. Written(mOut, mOut', th, <<>>)
  BY <1>1, NothingWritten
<1>3. Entitled'
  BY <1>1 DEF Entitled
<1>4. InUse("weak")' = InUse("weak")
  BY DEF InUse
<1>5. \A k \in Kind : InUse(k)' = InUse(k)
  BY <1>4 DEF Kind
<1>6. ASSUME NEW k \in Kind
      PROVE  KindInv(k)'
  <2>1. ParcelsOf(parcel', k) = ParcelsOf(parcel, k)
    OBVIOUS
  <2>2. \A j \in 1 .. Len(<<>>) : <<>>[j] \notin CommandOf(k)
    BY NoCommand
  <2> QED BY <1>1, <1>2, <1>5, <2>1, <2>2, NoCommand, WriteNone
<1> QED BY <1>2, <1>3, <1>6, NoCommand, HeldKept

\* A command about kind k, with the proxy p; k and l are the two kinds.
LEMMA OneHeld ==
    ASSUME HeldInv, ParcelTypeOK', TableInv', UNCHANGED driverVars, UNCHANGED parcel,
           NEW th \in Thread, NEW k \in Kind, NEW l \in Kind, l # k,
           NEW c \in CommandOf(k), Write(th, <<c>>),
           NEW p, \/ c = Inc(k) /\ p \notin InUse(k) /\ InUse(k)' = InUse(k) \cup {p}
                  \/ c = Dec(k) /\ p \in InUse(k) /\ InUse(k)' = InUse(k) \ {p},
           InUse(l)' = InUse(l),
           c = "INCREFS" => parcel[th] # NULL,
           c = "ACQUIRE" => parcel[th] # NULL /\ parcel[th].strong,
           \A q \in Proxy : bp'[q].state # "free" =>
              \/ bp[q].state # "free" /\ bp'[q].node = bp[q].node
              \/ \E u \in Thread : parcel[u] # NULL /\ bp'[q].node = parcel[u].node
    PROVE  HeldInv'
<1>1. Queues(mOut) /\ Entitled /\ KindInv(k) /\ KindInv(l)
  BY DEF HeldInv, CountsOK
<1>2. PICK ops : ops = <<c>>
  OBVIOUS
<1>3. /\ ops \in Seq(Op) /\ Len(ops) = 1 /\ ops[1] = c
      /\ \A j \in 1 .. Len(ops) : ops[j] \notin CommandOf(l)
  BY <1>2, OneCommand
<1>4. Written(mOut, mOut', th, ops)
  BY <1>1, <1>2, <1>3, WriteIs
<1>5. \A j \in 1 .. Len(ops) : j = 1
  BY <1>3
<1>6. \A i \in Kind : ParcelsOf(parcel', i) = ParcelsOf(parcel, i)
  OBVIOUS
<1>7. KindInv(k)'
  <2>1. CASE c = Inc(k) /\ p \notin InUse(k) /\ InUse(k)' = InUse(k) \cup {p}
    <3>1. 1 \in 1 .. Len(ops) /\ ops[1] = Inc(k)
      BY <1>3, <2>1
    <3>2. \A i \in 1 .. Len(ops) : i # 1 => ops[i] \notin CommandOf(k)
      BY <1>5
    <3> QED BY <1>1, <1>3, <1>4, <1>6, <2>1, <3>1, <3>2, WriteInc
  <2>2. CASE c = Dec(k) /\ p \in InUse(k) /\ InUse(k)' = InUse(k) \ {p}
    BY <1>1, <1>3, <1>4, <1>6, <2>2, WriteDec
  <2> QED BY <2>1, <2>2
<1>8. KindInv(l)'
  BY <1>1, <1>3, <1>4, <1>6, WriteNone
<1>9. \A i \in Kind : KindInv(i)'
  BY <1>7, <1>8 DEF Kind
<1>10. Entitled'
  <2>1. \A j \in 1 .. Len(ops) : /\ ops[j] = "INCREFS" => parcel[th] # NULL
                                 /\ ops[j] = "ACQUIRE" => parcel[th] # NULL /\ parcel[th].strong
    BY <1>3, <1>5
  <2> QED BY <1>1, <1>3, <1>4, <2>1, EntitledWritten
<1> QED BY <1>3, <1>4, <1>9, <1>10, HeldKept

KindsAre == /\ "strong" \in Kind /\ "weak" \in Kind /\ "strong" # "weak"
            /\ "ACQUIRE" = Inc("strong") /\ "INCREFS" = Inc("weak")
            /\ "RELEASE" = Dec("strong") /\ "DECREFS" = Dec("weak")
            /\ "FREE_STRONG" = Gives("strong") /\ "FREE_WEAK" = Gives("weak")

\* The commands by their names.
LEMMA KindFacts == KindsAre
BY DEF KindsAre, Kind, Inc, Dec, Gives

\* Who the proxies' users are.
LEMMA UseIs ==
    /\ InUse("strong") = {p \in Proxy : strong[p] # {}}
    /\ InUse("weak") = {p \in Proxy : bp[p].state # "free"}
BY DEF InUse

\* Write of no command leaves mOut as it is.
LEMMA WriteNothing ==
    ASSUME Queues(mOut), NEW th \in Thread, Write(th, <<>>)
    PROVE  mOut' = mOut
<1> DEFINE new == [i \in DOMAIN <<>> |-> Command(th, <<>>[i])]
<1>1. mOut' = [mOut EXCEPT ![th] = mOut[th] \o new]
  BY DEF Write
<1>2. new = <<>>
  OBVIOUS
<1>3. mOut[th] \o <<>> = mOut[th]
  BY DEF Queues
<1> HIDE DEF new
<1> QED BY <1>1, <1>2, <1>3 DEF Queues

\* getStrongProxyForHandle and getWeakProxyForHandle, when the entry is live.
LEMMA HeldGetOld ==
    ASSUME HeldInv, ParcelTypeOK', TableInv', NEW th \in Thread,
           GetStrongOld(th) \/ GetWeakOld(th)
    PROVE  HeldInv'
<1>1. binder \in Proxy /\ Queues(mOut) /\ TableInv
  BY DEF GetStrongOld, GetWeakOld, Stale, HeldInv, TableInv, ProxyTypeOK, CountsOK
<1>2. CASE GetWeakOld(th)
  <2>1. UNCHANGED driverVars /\ UNCHANGED <<parcel, mOut, bp, strong>>
    BY <1>2 DEF GetWeakOld
  <2>2. InUse("strong")' = InUse("strong")
    BY <2>1 DEF InUse
  <2> QED BY <2>1, <2>2, QuietHeld
<1>3. CASE GetStrongOld(th)
  <2>1. /\ UNCHANGED driverVars /\ UNCHANGED <<parcel, bp>>
        /\ parcel[th] # NULL /\ parcel[th].strong
        /\ strong' = [strong EXCEPT ![binder] = @ \cup {th}]
        /\ Write(th, IF strong[binder] = {} THEN <<"ACQUIRE">> ELSE <<>>)
    BY <1>3 DEF GetStrongOld
  <2>2. InUse("strong")' = InUse("strong") \cup {binder}
    BY <1>1, <2>1, UseIs DEF TableInv, ProxyTypeOK, InUse
  <2>3. InUse("weak")' = InUse("weak")
    BY <2>1 DEF InUse
  <2>4. CASE strong[binder] = {}
    <3>1. Write(th, <<"ACQUIRE">>) /\ binder \notin InUse("strong")
      BY <2>1, <2>4, UseIs
    <3>2. /\ "ACQUIRE" \in CommandOf("strong") /\ "ACQUIRE" = Inc("strong")
          /\ "strong" \in Kind /\ "weak" \in Kind /\ "weak" # "strong"
      BY KindFacts DEF KindsAre, CommandOf
    <3>3. \A q \in Proxy : bp'[q].state # "free" =>
              bp[q].state # "free" /\ bp'[q].node = bp[q].node
      BY <2>1
    <3>4. UNCHANGED parcel
      BY <2>1
    <3>5. PICK p, k, l, c : p = binder /\ k = "strong" /\ l = "weak" /\ c = "ACQUIRE"
      OBVIOUS
    <3>6. /\ k \in Kind /\ l \in Kind /\ l # k /\ c \in CommandOf(k) /\ Write(th, <<c>>)
          /\ c = Inc(k) /\ p \notin InUse(k) /\ InUse(k)' = InUse(k) \cup {p}
          /\ InUse(l)' = InUse(l) /\ c # "INCREFS"
      BY <2>2, <2>3, <3>1, <3>2, <3>5
    <3> QED BY <2>1, <3>3, <3>4, <3>6, OneHeld
  <2>5. CASE strong[binder] # {}
    <3>1. mOut' = mOut
      BY <1>1, <2>1, <2>5, WriteNothing
    <3>2. InUse("strong")' = InUse("strong")
      BY <1>1, <2>2, <2>5, UseIs
    <3> QED BY <2>1, <3>1, <3>2, QuietHeld
  <2> QED BY <2>4, <2>5
<1> QED BY <1>2, <1>3

\* A strong pointer more, to a proxy that has one.
LEMMA HeldPointer ==
    ASSUME HeldInv, ParcelTypeOK', TableInv', NEW th \in Thread, NEW p \in Proxy,
           Promote(th, p) \/ \E u \in Thread : Share(th, u, p)
    PROVE  HeldInv'
<1>1. PICK u \in Thread : /\ UNCHANGED driverVars /\ UNCHANGED <<parcel, mOut, bp>>
                          /\ strong' = [strong EXCEPT ![p] = @ \cup {u}] /\ strong[p] # {}
  BY DEF Promote, Share
<1>2. InUse("strong")' = InUse("strong")
  BY <1>1, UseIs DEF HeldInv, TableInv, ProxyTypeOK, InUse
<1> QED BY <1>1, <1>2, QuietHeld

\* The last strong pointer goes: RELEASE; else nothing is written.
LEMMA HeldLess ==
    ASSUME HeldInv, ParcelTypeOK', TableInv', NEW th \in Thread, NEW p \in Proxy,
           UNCHANGED driverVars, UNCHANGED parcel,
           th \in strong[p] \cup weak[p], strong' = [strong EXCEPT ![p] = @ \ {th}],
           Write(th, Released(th, p)),
           InUse("weak")' = InUse("weak"),
           \A q \in Proxy : bp'[q].node = bp[q].node
    PROVE  HeldInv'
<1>1. Queues(mOut) /\ Entitled /\ (\A k \in Kind : KindInv(k)) /\ strong \in [Proxy -> SUBSET Thread]
  BY DEF HeldInv, CountsOK, TableInv, ProxyTypeOK
<1>2. \A q \in Proxy : bp'[q].state # "free" => bp[q].state # "free" /\ bp'[q].node = bp[q].node
  BY DEF InUse
<1>3. /\ "RELEASE" \in CommandOf("strong") /\ "RELEASE" = Dec("strong")
      /\ "strong" \in Kind /\ "weak" \in Kind /\ "weak" # "strong"
  BY KindFacts DEF KindsAre, CommandOf
<1>4. CASE strong[p] = {th}
  <2>1. Write(th, <<"RELEASE">>)
    BY <1>4 DEF Released
  <2>2. p \in InUse("strong") /\ InUse("strong")' = InUse("strong") \ {p}
    BY <1>1, <1>4, UseIs DEF InUse
  <2>3. PICK k, l, c : k = "strong" /\ l = "weak" /\ c = "RELEASE"
    OBVIOUS
  <2>4. /\ k \in Kind /\ l \in Kind /\ l # k /\ c \in CommandOf(k) /\ Write(th, <<c>>)
        /\ c = Dec(k) /\ p \in InUse(k) /\ InUse(k)' = InUse(k) \ {p}
        /\ InUse(l)' = InUse(l) /\ c # "INCREFS" /\ c # "ACQUIRE"
    BY <1>3, <2>1, <2>2, <2>3
  <2> QED BY <1>2, <2>4, OneHeld
<1>5. CASE strong[p] # {th}
  <2>1. Write(th, <<>>)
    BY <1>5 DEF Released
  <2>2. mOut' = mOut
    BY <1>1, <2>1, WriteNothing
  <2>3. InUse("strong")' = InUse("strong")
    <3>1. strong'[p] # {} <=> strong[p] # {}
      BY <1>1, <1>5
    <3>2. \A q \in Proxy : q # p => strong'[q] = strong[q]
      BY <1>1
    <3> QED BY <3>1, <3>2, UseIs DEF InUse
  <2>4. \A k \in Kind : InUse(k)' = InUse(k)
    BY <2>3 DEF Kind
  <2>5. Written(mOut, mOut', th, <<>>)
    BY <1>1, <2>2, NothingWritten
  <2>6. ASSUME NEW k \in Kind
        PROVE  KindInv(k)'
    <3>1. ParcelsOf(parcel', k) = ParcelsOf(parcel, k)
      OBVIOUS
    <3>2. \A j \in 1 .. Len(<<>>) : <<>>[j] \notin CommandOf(k)
      BY NoCommand
    <3> QED BY <1>1, <2>4, <2>5, <3>1, <3>2, NoCommand, WriteNone
  <2>7. Entitled'
    BY <1>1, <2>2 DEF Entitled
  <2> QED BY <1>2, <2>5, <2>6, <2>7, NoCommand, HeldKept
<1> QED BY <1>4, <1>5

\* A weak pointer in place of a strong one.
LEMMA HeldDemote ==
    ASSUME HeldInv, ParcelTypeOK', TableInv', NEW th \in Thread, NEW p \in Proxy, Demote(th, p)
    PROVE  HeldInv'
<1>1. /\ UNCHANGED driverVars /\ UNCHANGED <<parcel, bp>>
      /\ th \in strong[p] \cup weak[p] /\ strong' = [strong EXCEPT ![p] = @ \ {th}]
      /\ Write(th, Released(th, p))
  BY DEF Demote
<1>2. InUse("weak")' = InUse("weak") /\ \A q \in Proxy : bp'[q].node = bp[q].node
  BY <1>1 DEF InUse
<1>3. UNCHANGED parcel
  BY <1>1
<1> QED BY <1>1, <1>2, <1>3, HeldLess

\* A pointer goes; the proxy has its weak claim until ~BpBinder has run.
LEMMA HeldDrop ==
    ASSUME HeldInv, ParcelTypeOK', TableInv', NEW th \in Thread, NEW p \in Proxy, Drop(th, p)
    PROVE  HeldInv'
<1>1. /\ UNCHANGED driverVars /\ UNCHANGED parcel
      /\ th \in strong[p] \cup weak[p] /\ strong' = [strong EXCEPT ![p] = @ \ {th}]
      /\ Write(th, Released(th, p))
      /\ bp' = [bp EXCEPT ![p].state = IF strong[p] \cup weak[p] = {th} THEN "dying" ELSE @]
  BY DEF Drop
<1>2. bp[p].state # "free" /\ bp \in [Proxy -> BpRec]
  BY <1>1 DEF HeldInv, TableInv, Lifetime, Users, ProxyTypeOK
<1>3. \A q \in Proxy : bp'[q].node = bp[q].node /\ (bp'[q].state # "free" <=> bp[q].state # "free")
  <2>1. PICK s \in {"live", "dying"} : bp' = [bp EXCEPT ![p].state = s]
    <3>1. CASE strong[p] \cup weak[p] = {th}
      BY <1>1, <3>1
    <3>2. CASE strong[p] \cup weak[p] # {th}
      <4>1. bp' = [bp EXCEPT ![p].state = bp[p].state]
        BY <1>1, <3>2
      <4>2. bp[p].state \in {"live", "dying"}
        BY <1>2 DEF BpRec
      <4> QED BY <1>2, <4>1, <4>2
    <3> QED BY <3>1, <3>2
  <2> QED BY <1>2, <2>1 DEF BpRec
<1>4. InUse("weak")' = InUse("weak")
  BY <1>3, UseIs DEF InUse
<1> QED BY <1>1, <1>3, <1>4, HeldLess

\* ~BpBinder gives the weak claim back.
LEMMA HeldDestroy ==
    ASSUME HeldInv, ParcelTypeOK', TableInv', NEW th \in Thread, Destroy(th)
    PROVE  HeldInv'
<1>1. PICK p : p = dying[th]
  OBVIOUS
<1>2. /\ p # NULL /\ bp' = [bp EXCEPT ![p] = NoBp] /\ Write(th, <<"DECREFS">>)
      /\ UNCHANGED driverVars /\ UNCHANGED parcel /\ strong' = strong
  BY <1>1 DEF Destroy
<1>3. p \in Proxy /\ bp[p].state = "dying" /\ bp \in [Proxy -> BpRec]
  BY <1>1, <1>2 DEF HeldInv, TableInv, ProxyTypeOK, Lifetime
<1>4. p \in InUse("weak") /\ InUse("weak")' = InUse("weak") \ {p}
  BY <1>2, <1>3, UseIs DEF InUse, NoBp
<1>5. InUse("strong")' = InUse("strong")
  BY <1>2 DEF InUse
<1>6. \A q \in Proxy : bp'[q].state # "free" => bp[q].state # "free" /\ bp'[q].node = bp[q].node
  BY <1>2, <1>3 DEF NoBp
<1>7. /\ "DECREFS" \in CommandOf("weak") /\ "DECREFS" = Dec("weak")
      /\ "strong" \in Kind /\ "weak" \in Kind /\ "weak" # "strong"
  BY KindFacts DEF KindsAre, CommandOf
<1>8. PICK k, l, c : k = "weak" /\ l = "strong" /\ c = "DECREFS"
  OBVIOUS
<1>9. /\ k \in Kind /\ l \in Kind /\ l # k /\ c \in CommandOf(k) /\ Write(th, <<c>>)
      /\ c = Dec(k) /\ p \in InUse(k) /\ InUse(k)' = InUse(k) \ {p}
      /\ InUse(l)' = InUse(l) /\ c # "INCREFS" /\ c # "ACQUIRE"
  BY <1>2, <1>4, <1>5, <1>7, <1>8
<1> QED BY <1>2, <1>6, <1>9, OneHeld

\* onFirstRef of a new BpBinder writes two commands.
LEMMA TwoCommands ==
    ASSUME NEW ops, ops = <<"INCREFS", "ACQUIRE">>
    PROVE  /\ ops \in Seq(Op) /\ Len(ops) = 2 /\ ops[1] = "INCREFS" /\ ops[2] = "ACQUIRE"
           /\ \A j \in 1 .. Len(ops) : j = 1 \/ j = 2
BY DEF Op, Increments

\* getStrongProxyForHandle and getWeakProxyForHandle, with a new BpBinder.
LEMMA HeldGetNew ==
    ASSUME HeldInv, ParcelTypeOK', TableInv', NEW th \in Thread, NEW p \in Proxy,
           GetStrongNew(th, p) \/ GetWeakNew(th, p)
    PROVE  HeldInv'
<1>1. /\ Queues(mOut) /\ Entitled /\ (\A k \in Kind : KindInv(k))
      /\ strong \in [Proxy -> SUBSET Thread] /\ bp \in [Proxy -> BpRec]
  BY DEF HeldInv, CountsOK, TableInv, ProxyTypeOK
<1>2. /\ UNCHANGED driverVars /\ UNCHANGED parcel /\ parcel[th] # NULL
      /\ bp[p].state = "free"
      /\ bp' = [bp EXCEPT ![p] = [state |-> "live", node |-> parcel[th].node]]
  BY DEF GetStrongNew, GetWeakNew, NewBp
<1>3. \A q \in Proxy : /\ q # p => bp'[q] = bp[q]
                       /\ q = p => bp'[q].node = parcel[th].node /\ bp'[q].state = "live"
  BY <1>1, <1>2
<1>4. \A q \in Proxy : bp'[q].state # "free" =>
              \/ bp[q].state # "free" /\ bp'[q].node = bp[q].node
              \/ \E u \in Thread : parcel[u] # NULL /\ bp'[q].node = parcel[u].node
  BY <1>2, <1>3
<1>5. p \notin InUse("weak") /\ InUse("weak")' = InUse("weak") \cup {p}
  BY <1>2, <1>3, UseIs DEF InUse
<1>6. KindsAre
  BY KindFacts
<1>7. CASE GetWeakNew(th, p)
  <2>1. Write(th, <<"INCREFS">>) /\ strong' = strong
    BY <1>7 DEF GetWeakNew
  <2>2. InUse("strong")' = InUse("strong")
    BY <2>1 DEF InUse
  <2>3. "INCREFS" \in CommandOf("weak")
    BY <1>6 DEF KindsAre, CommandOf
  <2>4. PICK k, l, c : k = "weak" /\ l = "strong" /\ c = "INCREFS"
    OBVIOUS
  <2>5. /\ k \in Kind /\ l \in Kind /\ l # k /\ c \in CommandOf(k) /\ Write(th, <<c>>)
        /\ c = Inc(k) /\ p \notin InUse(k) /\ InUse(k)' = InUse(k) \cup {p}
        /\ InUse(l)' = InUse(l) /\ c # "ACQUIRE"
    BY <1>5, <1>6, <2>1, <2>2, <2>3, <2>4 DEF KindsAre
  <2> QED BY <1>2, <1>4, <2>5, OneHeld
<1>8. CASE GetStrongNew(th, p)
  <2>1. /\ Write(th, <<"INCREFS", "ACQUIRE">>)
        /\ strong' = [strong EXCEPT ![p] = {th}] /\ parcel[th].strong
    BY <1>8 DEF GetStrongNew
  <2>2. strong[p] = {}
    BY <1>2 DEF HeldInv, TableInv, Lifetime, Users
  <2>3. p \notin InUse("strong") /\ InUse("strong")' = InUse("strong") \cup {p}
    BY <1>1, <2>1, <2>2, UseIs DEF InUse
  <2>4. PICK ops : ops = <<"INCREFS", "ACQUIRE">>
    OBVIOUS
  <2>5. /\ ops \in Seq(Op) /\ Len(ops) = 2 /\ ops[1] = "INCREFS" /\ ops[2] = "ACQUIRE"
        /\ \A j \in 1 .. Len(ops) : j = 1 \/ j = 2
    BY <2>4, TwoCommands
  <2>6. Written(mOut, mOut', th, ops)
    BY <1>1, <2>1, <2>4, <2>5, WriteIs
  <2>7. /\ "ACQUIRE" \notin CommandOf("weak") /\ "INCREFS" \notin CommandOf("strong")
    BY DEF CommandOf, Inc, Dec, Gives
  <2>8. 1 \in 1 .. Len(ops) /\ 2 \in 1 .. Len(ops)
    BY <2>5
  <2>9. \A k \in Kind : ParcelsOf(parcel', k) = ParcelsOf(parcel, k)
    BY <1>2
  <2>10. KindInv("strong")'
    <3>1. PICK k : k = "strong"
      OBVIOUS
    <3>2. /\ k \in Kind /\ KindInv(k) /\ ops[2] = Inc(k)
          /\ \A i \in 1 .. Len(ops) : i # 2 => ops[i] \notin CommandOf(k)
          /\ p \notin InUse(k) /\ InUse(k)' = InUse(k) \cup {p}
          /\ ParcelsOf(parcel', k) = ParcelsOf(parcel, k)
      BY <1>1, <1>6, <2>3, <2>5, <2>7, <2>9, <3>1 DEF KindsAre
    <3>3. KindInv(k)'
      BY <1>1, <1>2, <2>5, <2>6, <2>8, <3>2, WriteInc
    <3> QED BY <3>1, <3>3
  <2>11. KindInv("weak")'
    <3>1. PICK k : k = "weak"
      OBVIOUS
    <3>2. /\ k \in Kind /\ KindInv(k) /\ ops[1] = Inc(k)
          /\ \A i \in 1 .. Len(ops) : i # 1 => ops[i] \notin CommandOf(k)
          /\ p \notin InUse(k) /\ InUse(k)' = InUse(k) \cup {p}
          /\ ParcelsOf(parcel', k) = ParcelsOf(parcel, k)
      BY <1>1, <1>5, <1>6, <2>5, <2>7, <2>9, <3>1 DEF KindsAre
    <3>3. KindInv(k)'
      BY <1>1, <1>2, <2>5, <2>6, <2>8, <3>2, WriteInc
    <3> QED BY <3>1, <3>3
  <2>12. \A k \in Kind : KindInv(k)'
    BY <2>10, <2>11 DEF Kind
  <2>13. Entitled'
    <3>1. \A j \in 1 .. Len(ops) : /\ ops[j] = "INCREFS" => parcel[th] # NULL
                                   /\ ops[j] = "ACQUIRE" => parcel[th] # NULL /\ parcel[th].strong
      BY <1>2, <2>1
    <3> QED BY <1>1, <1>2, <2>5, <2>6, <3>1, EntitledWritten
  <2>14. \A u \in Thread : parcel'[u] # NULL => parcel'[u] = parcel[u]
    BY <1>2
  <2> QED BY <1>2, <1>4, <2>5, <2>6, <2>12, <2>13, <2>14, HeldKept
<1> QED BY <1>7, <1>8

\* The parcel goes, and with it the claim that its buffer has.
LEMMA HeldFreeParcel ==
    ASSUME HeldInv, ParcelTypeOK', TableInv', NEW th \in Thread, FreeParcel(th)
    PROVE  HeldInv'
<1>1. /\ Queues(mOut) /\ Entitled /\ (\A k \in Kind : KindInv(k)) /\ ParcelTypeOK
  BY DEF HeldInv, CountsOK
<1>2. /\ UNCHANGED driverVars /\ UNCHANGED <<bp, strong>> /\ parcel[th] # NULL
      /\ Write(th, <<IF parcel[th].strong THEN "FREE_STRONG" ELSE "FREE_WEAK">>)
      /\ parcel' = [parcel EXCEPT ![th] = NULL]
  BY DEF FreeParcel
<1>3. PICK k \in Kind, l \in Kind : /\ l # k
                                    /\ k = IF parcel[th].strong THEN "strong" ELSE "weak"
  BY DEF Kind
<1>4. PICK c : c = IF parcel[th].strong THEN "FREE_STRONG" ELSE "FREE_WEAK"
  OBVIOUS
<1>5. c = Gives(k) /\ c \in CommandOf(k) /\ Write(th, <<c>>)
  BY <1>2, <1>3, <1>4 DEF Gives, CommandOf
<1>6. PICK ops : ops = <<c>>
  OBVIOUS
<1>7. /\ ops \in Seq(Op) /\ Len(ops) = 1 /\ ops[1] = c
      /\ \A j \in 1 .. Len(ops) : ops[j] \notin CommandOf(l)
  BY <1>3, <1>5, <1>6, OneCommand
<1>8. Written(mOut, mOut', th, ops)
  BY <1>1, <1>5, <1>6, <1>7, WriteIs
<1>9. parcel'[th] = NULL /\ \A u \in Thread : u # th => parcel'[u] = parcel[u]
  BY <1>1, <1>2 DEF ParcelTypeOK
<1>10. /\ th \in ParcelsOf(parcel, k) /\ ParcelsOf(parcel', k) = ParcelsOf(parcel, k) \ {th}
       /\ ParcelsOf(parcel', l) = ParcelsOf(parcel, l)
  <2>1. CASE parcel[th].strong
    <3>1. k = "strong" /\ l = "weak"
      BY <1>3, <2>1 DEF Kind
    <3> QED BY <1>2, <1>9, <2>1, <3>1 DEF ParcelsOf
  <2>2. CASE ~parcel[th].strong
    <3>1. k = "weak" /\ l = "strong"
      BY <1>3, <2>2 DEF Kind
    <3> QED BY <1>2, <1>9, <2>2, <3>1 DEF ParcelsOf
  <2> QED BY <2>1, <2>2
<1>11. \A i \in Kind : InUse(i)' = InUse(i)
  BY <1>2 DEF InUse
<1>12. KindInv(k)'
  BY <1>1, <1>2, <1>5, <1>7, <1>8, <1>10, <1>11, WriteGive
<1>13. KindInv(l)'
  BY <1>1, <1>2, <1>7, <1>8, <1>10, <1>11, WriteNone
<1>14. \A i \in Kind : KindInv(i)'
  BY <1>3, <1>12, <1>13 DEF Kind
<1>15. Entitled'
  BY <1>1, <1>2, <1>4, <1>7, <1>8, EntitledFreed
<1>16. /\ \A u \in Thread : parcel'[u] # NULL => parcel'[u] = parcel[u]
       /\ \A q \in Proxy : bp'[q].state # "free" => bp[q].state # "free" /\ bp'[q].node = bp[q].node
  BY <1>2, <1>9
<1> QED BY <1>2, <1>7, <1>8, <1>14, <1>15, <1>16, HeldKept

-----------------------------------------------------------------------------
(* The driver *)

\* A claim that no command has been written for is counted.
LEMMA ClaimCounted ==
    ASSUME HeldInv, ~overtaken, NEW k \in Kind
    PROVE  /\ ParcelsOf(parcel, k) # {} => CountOf(ref, k) > 0
           /\ Places(mOut, Gives(k)) # {} => CountOf(ref, k) > 0
           /\ \A p \in InUse(k) : \/ CountOf(ref, k) > 0
                                  \/ Places(mOut, Inc(k)) # {}
<1>1. ~refused /\ KindInv(k)
  BY DEF HeldInv
<1>2. BalanceInv(k) /\ MatchInv(k)
  BY <1>1 DEF KindInv
<1>3. PICK M : OneToOne(M, Places(mOut, Inc(k)), Holders(InUse(k), Places(mOut, Dec(k))))
  BY <1>2 DEF MatchInv, Matches
<1>4. /\ ParcelsOf(parcel, k) # {} => CountOf(ref, k) > 0
      /\ Places(mOut, Gives(k)) # {} => CountOf(ref, k) > 0
      /\ \A t \in Holders(InUse(k), Places(mOut, Dec(k))) :
            (\A a \in Places(mOut, Inc(k)) : M[a] # t) => CountOf(ref, k) > 0
  BY <1>2, <1>3, CountEnough DEF BalanceInv
<1>5. \A p \in InUse(k) : <<0, p>> \in Holders(InUse(k), Places(mOut, Dec(k)))
  BY DEF Holders
<1> QED BY <1>4, <1>5

\* A reference that is counted is there.
LEMMA CountedRef ==
    ASSUME NEW r, NEW k, CountOf(r, k) > 0
    PROVE  r # NULL
BY DEF CountOf

\* Whoever has a parcel, or a BpBinder, has it for a reference that the driver still has.
LEMMA Present ==
    ASSUME HeldInv, ~overtaken
    PROVE  /\ \A th \in Thread : parcel[th] # NULL => ref # NULL
           /\ \A p \in Proxy : bp[p].state # "free" => ref # NULL
           /\ \A p \in Proxy : strong[p] # {} => CountOf(ref, "strong") > 0
<1>1. KindsAre /\ Queues(mOut) /\ Entitled
  BY KindFacts DEF HeldInv, CountsOK
<1>2. ASSUME NEW th \in Thread, parcel[th] # NULL
      PROVE  ref # NULL
  <2>1. th \in ParcelsOf(parcel, "strong") \/ th \in ParcelsOf(parcel, "weak")
    BY <1>2 DEF ParcelsOf
  <2> QED BY <1>1, <2>1, ClaimCounted, CountedRef DEF KindsAre
<1>3. ASSUME NEW th \in Thread, NEW i \in 1 .. Len(mOut[th]), mOut[th][i].op \in Frees
      PROVE  ref # NULL
  <2>1. \E k \in Kind : mOut[th][i].op = Gives(k)
    BY <1>1, <1>3 DEF KindsAre, Frees
  <2>2. PICK k \in Kind : mOut[th][i].op = Gives(k)
    BY <2>1
  <2>3. <<th, i>> \in Places(mOut, Gives(k))
    BY <1>1, <2>2, PlaceIs
  <2> QED BY <2>3, ClaimCounted, CountedRef
<1>4. ASSUME NEW p \in Proxy, bp[p].state # "free"
      PROVE  ref # NULL
  <2>1. p \in InUse("weak")
    BY <1>4, UseIs
  <2>2. CountOf(ref, "weak") > 0 \/ Places(mOut, "INCREFS") # {}
    BY <1>1, <2>1, ClaimCounted DEF KindsAre
  <2>3. ASSUME Places(mOut, "INCREFS") # {}
        PROVE  ref # NULL
    <3>1. PICK x : x \in Places(mOut, "INCREFS")
      BY <2>3
    <3>2. PICK th \in Thread : \E i \in 1 .. Len(mOut[th]) : mOut[th][i].op = "INCREFS"
      BY <1>1, <3>1, PlaceIs
    <3>3. parcel[th] # NULL \/ \E j \in 1 .. Len(mOut[th]) : mOut[th][j].op \in Frees
      BY <1>1, <3>2 DEF Entitled, EntitledAt
    <3> QED BY <1>2, <1>3, <3>3
  <2> QED BY <2>2, <2>3, CountedRef
<1>5. ASSUME NEW p \in Proxy, strong[p] # {}
      PROVE  CountOf(ref, "strong") > 0
  <2>1. p \in InUse("strong")
    BY <1>5, UseIs
  <2>2. CountOf(ref, "strong") > 0 \/ Places(mOut, "ACQUIRE") # {}
    BY <1>1, <2>1, ClaimCounted DEF KindsAre
  <2>3. ASSUME Places(mOut, "ACQUIRE") # {}
        PROVE  CountOf(ref, "strong") > 0
    <3>1. PICK x : x \in Places(mOut, "ACQUIRE")
      BY <2>3
    <3>2. PICK th \in Thread : \E i \in 1 .. Len(mOut[th]) : mOut[th][i].op = "ACQUIRE"
      BY <1>1, <3>1, PlaceIs
    <3>3. \/ parcel[th] # NULL /\ parcel[th].strong
          \/ \E j \in 1 .. Len(mOut[th]) : mOut[th][j].op = "FREE_STRONG"
      BY <1>1, <3>2 DEF Entitled, EntitledAt
    <3>4. th \in ParcelsOf(parcel, "strong") \/ Places(mOut, "FREE_STRONG") # {}
      <4>1. CASE parcel[th] # NULL /\ parcel[th].strong
        BY <4>1 DEF ParcelsOf
      <4>2. CASE \E j \in 1 .. Len(mOut[th]) : mOut[th][j].op = "FREE_STRONG"
        BY <1>1, <4>2, PlaceIs
      <4> QED BY <3>3, <4>1, <4>2
    <3> QED BY <1>1, <3>4, ClaimCounted DEF KindsAre
  <2> QED BY <2>2, <2>3
<1> QED BY <1>2, <1>4, <1>5

\* The reference with one more count of kind k.
Counted(r, s, k) ==
    /\ s \in RefRec /\ s.node = r.node
    /\ s[k] = r[k] + 1
    /\ \A l \in Kind : l # k => s[l] = r[l]

\* binder_inc_ref on a reference that there is.
LEMMA IncRefIs ==
    ASSUME NEW r \in RefRec, NEW k \in Kind, NEW b
    PROVE  /\ Counted(r, IncRef([ref |-> r, refused |-> b], k).ref, k)
           /\ IncRef([ref |-> r, refused |-> b], k).refused = b
<1>1. r # NULL /\ r = [node |-> r.node, strong |-> r.strong, weak |-> r.weak]
      /\ r.node \in Node /\ r.strong \in Nat /\ r.weak \in Nat
  BY NoRecord DEF RefRec
<1>2. CASE k = "strong"
  <2>1. IncRef([ref |-> r, refused |-> b], k)
          = [ref |-> [node |-> r.node, strong |-> r.strong + 1, weak |-> r.weak], refused |-> b]
    BY <1>1, <1>2 DEF IncRef
  <2> QED BY <1>1, <1>2, <2>1 DEF Counted, RefRec, Kind
<1>3. CASE k = "weak"
  <2>1. IncRef([ref |-> r, refused |-> b], k)
          = [ref |-> [node |-> r.node, strong |-> r.strong, weak |-> r.weak + 1], refused |-> b]
    BY <1>1, <1>3 DEF IncRef
  <2> QED BY <1>1, <1>3, <2>1 DEF Counted, RefRec, Kind
<1> QED BY <1>2, <1>3 DEF Kind

\* A transaction arrives, with a count that the driver takes for it.
LEMMA HeldReceive ==
    ASSUME HeldInv, ~refused, ParcelTypeOK', TableInv', NEW th \in Thread, NEW n \in Node,
           NEW b \in Kinds, Receive(th, n, b)
    PROVE  HeldInv'
<1>1. /\ Queues(mOut) /\ Entitled /\ \A k \in Kind : KindInv(k)
      /\ ref \in RefRec \cup {NULL} /\ overtaken \in BOOLEAN /\ refused \in BOOLEAN
      /\ ParcelTypeOK
  BY DEF HeldInv, CountsOK
<1>2. PICK r : r = IF ref = NULL THEN [node |-> n, strong |-> 0, weak |-> 0] ELSE ref
  OBVIOUS
<1>3. PICK k : k = IF b THEN "strong" ELSE "weak"
  OBVIOUS
<1>4. /\ mOut[th] = <<>> /\ parcel[th] = NULL /\ r.node = n
      /\ ref' = IncRef([ref |-> r, refused |-> FALSE], k).ref
      /\ parcel' = [parcel EXCEPT ![th] = [node |-> n, strong |-> b]]
      /\ UNCHANGED <<refused, overtaken, mOut, bp, strong, weak, binder, dying>>
  BY <1>2, <1>3 DEF Receive
<1>5. r \in RefRec /\ k \in Kind
  <2>1. r \in RefRec
    BY <1>1, <1>2 DEF RefRec
  <2> QED BY <1>3, <2>1 DEF Kind
<1>6. Counted(r, ref', k)
  BY <1>4, <1>5, IncRefIs
<1>7. /\ ref' \in RefRec /\ ref' # NULL /\ ref'.node = n
      /\ CountOf(ref', k) = CountOf(ref, k) + 1
      /\ \A l \in Kind : l # k => CountOf(ref', l) = CountOf(ref, l)
  <2>1. ref' \in RefRec /\ ref' # NULL /\ ref'.node = n
    BY <1>4, <1>6, NoRecord DEF Counted
  <2>2. \A l \in Kind : r[l] = CountOf(ref, l)
    BY <1>2 DEF CountOf, Kind
  <2> QED BY <1>5, <1>6, <2>1, <2>2 DEF Counted, CountOf
<1>8. /\ parcel'[th] = [node |-> n, strong |-> b] /\ parcel'[th] # NULL
      /\ \A u \in Thread : u # th => parcel'[u] = parcel[u]
  <2>1. [node |-> n, strong |-> b] \in ParcelRec
    BY RemoteAssumption DEF ParcelRec
  <2> QED BY <1>1, <1>4, <2>1, NoRecord DEF ParcelTypeOK
<1>9. /\ ParcelsOf(parcel', k) = ParcelsOf(parcel, k) \cup {th} /\ th \notin ParcelsOf(parcel, k)
      /\ \A l \in Kind : l # k => ParcelsOf(parcel', l) = ParcelsOf(parcel, l)
  <2>0. b \in BOOLEAN
    BY RemoteAssumption
  <2>1. CASE b
    <3>1. k = "strong" /\ parcel'[th].strong
      BY <1>3, <1>8, <2>1
    <3> QED BY <1>4, <1>8, <3>1 DEF ParcelsOf, Kind
  <2>2. CASE ~b
    <3>1. k = "weak" /\ ~parcel'[th].strong
      BY <1>3, <1>8, <2>2
    <3> QED BY <1>4, <1>8, <3>1 DEF ParcelsOf, Kind
  <2> QED BY <2>0, <2>1, <2>2
<1>10. \A l \in Kind : InUse(l)' = InUse(l) /\ (MatchInv(l) <=> MatchInv(l)')
  <2>1. \A l \in Kind : InUse(l)' = InUse(l)
    BY <1>4 DEF InUse
  <2>2. mOut' = mOut
    BY <1>4
  <2> QED BY <2>1, <2>2 DEF MatchInv
<1>11. ASSUME NEW l \in Kind
       PROVE  KindInv(l)'
  <2>1. BalanceInv(l)
    BY <1>1 DEF KindInv
  <2>2. mOut' = mOut /\ overtaken' = overtaken
    BY <1>4
  <2>3. BalanceInv(l)'
    <3>1. CASE l = k
      BY <1>7, <1>9, <1>10, <2>1, <2>2, <3>1, BalancedArrive DEF BalanceInv
    <3>2. CASE l # k
      BY <1>7, <1>9, <1>10, <2>1, <2>2, <3>2 DEF BalanceInv
    <3> QED BY <3>1, <3>2
  <2> QED BY <1>1, <1>10, <2>2, <2>3 DEF KindInv
<1>12. Entitled'
  <2>1. EntitledAt(mOut'[th], parcel'[th])
    BY <1>4 DEF EntitledAt
  <2>2. \A u \in Thread : u # th => EntitledAt(mOut'[u], parcel'[u])
    BY <1>1, <1>4, <1>8 DEF Entitled
  <2> QED BY <2>1, <2>2 DEF Entitled
<1>13. ASSUME ~overtaken
       PROVE  NodeInv'
  <2>1. NodeInv
    BY <1>13 DEF HeldInv
  <2>2. \A u \in Thread : u # th /\ parcel[u] # NULL => parcel[u].node = n
    <3>1. ref # NULL => ref.node = n
      BY <1>2, <1>4
    <3> QED BY <1>13, <2>1, <3>1, Present DEF NodeInv
  <2>3. \A p \in Proxy : bp[p].state # "free" => bp[p].node = n
    <3>1. ref # NULL => ref.node = n
      BY <1>2, <1>4
    <3> QED BY <1>13, <2>1, <3>1, Present DEF NodeInv
  <2>4. \A u \in Thread : parcel'[u] # NULL => parcel'[u].node = ref'.node
    BY <1>7, <1>8, <2>2
  <2>5. \A p \in Proxy : bp'[p].state # "free" => bp'[p].node = ref'.node
    BY <1>4, <1>7, <2>3
  <2> QED BY <2>4, <2>5 DEF NodeInv
<1>14. CountsOK'
  BY <1>1, <1>4, <1>7 DEF CountsOK
<1>15. ~overtaken' => ~refused' /\ NodeInv'
  BY <1>4, <1>13
<1> QED BY <1>11, <1>12, <1>14, <1>15 DEF HeldInv

-----------------------------------------------------------------------------
(* A command is applied *)

DriverRec == [ref: RefRec \cup {NULL}, refused: BOOLEAN]

\* A refusal is not forgotten, and the reference is that of the same node.
Keeps(s, t) ==
    /\ t \in DriverRec
    /\ s.refused => t.refused
    /\ t.ref # NULL => s.ref # NULL /\ t.ref.node = s.ref.node

SameOther(s, t, k) == \A l \in Kind : l # k => CountOf(t.ref, l) = CountOf(s.ref, l)

IncDoes(s, t, k) ==
    /\ Keeps(s, t)
    /\ s.ref # NULL => t.refused = s.refused
    /\ ~t.refused => CountOf(t.ref, k) = CountOf(s.ref, k) + 1 /\ SameOther(s, t, k)

DecDoes(s, t, k) ==
    /\ Keeps(s, t)
    /\ CountOf(s.ref, k) > 0 => t.refused = s.refused
    /\ ~t.refused => /\ CountOf(t.ref, k) \in Nat /\ CountOf(s.ref, k) = CountOf(t.ref, k) + 1
                     /\ SameOther(s, t, k)

\* What a state of the driver is made of.
LEMMA DriverIs ==
    ASSUME NEW s \in DriverRec
    PROVE  /\ s = [ref |-> s.ref, refused |-> s.refused]
           /\ s.refused \in BOOLEAN /\ s.ref \in RefRec \cup {NULL}
BY DEF DriverRec

\* A refusal changes no count.
LEMMA RefuseIs ==
    ASSUME NEW s \in DriverRec
    PROVE  Keeps(s, Refuse(s)) /\ Refuse(s).refused
BY DEF Refuse, DriverRec, Keeps

\* binder_inc_ref
LEMMA IncRefDoes ==
    ASSUME NEW s \in DriverRec, NEW k \in Kind
    PROVE  IncDoes(s, IncRef(s, k), k)
<1>1. CASE s.ref = NULL
  <2>1. IncRef(s, k) = Refuse(s)
    BY <1>1 DEF IncRef
  <2> QED BY <1>1, <2>1, RefuseIs DEF IncDoes
<1>2. CASE s.ref # NULL
  <2>0. PICK r \in RefRec : r = s.ref
    BY <1>2, DriverIs
  <2>00. PICK b \in BOOLEAN : b = s.refused
    BY DriverIs
  <2>000. s = [ref |-> r, refused |-> b]
    BY <2>0, <2>00, DriverIs
  <2>1. Counted(r, IncRef(s, k).ref, k) /\ IncRef(s, k).refused = b
    BY <2>000, IncRefIs
  <2>2. IncRef(s, k) \in DriverRec
    <3>1. CASE k = "strong"
      <4>1. IncRef(s, k) = [s EXCEPT !.ref.strong = @ + 1]
        BY <1>2, <3>1 DEF IncRef
      <4>2. IncRef(s, k) = [ref |-> IncRef(s, k).ref, refused |-> IncRef(s, k).refused]
        BY <2>000, <4>1
      <4> QED BY <2>1, <4>2 DEF Counted, DriverRec
    <3>2. CASE k = "weak"
      <4>1. IncRef(s, k) = [s EXCEPT !.ref.weak = @ + 1]
        BY <1>2, <3>2 DEF IncRef
      <4>2. IncRef(s, k) = [ref |-> IncRef(s, k).ref, refused |-> IncRef(s, k).refused]
        BY <2>000, <4>1
      <4> QED BY <2>1, <4>2 DEF Counted, DriverRec
    <3> QED BY <3>1, <3>2 DEF Kind
  <2>3. PICK t : t = IncRef(s, k)
    OBVIOUS
  <2>4. t.ref \in RefRec /\ t.ref # NULL /\ t.ref.node = r.node /\ r # NULL
    BY <1>2, <2>0, <2>1, <2>3, NoRecord DEF Counted
  <2>5. Keeps(s, t)
    BY <1>2, <2>0, <2>00, <2>1, <2>2, <2>3, <2>4 DEF Keeps
  <2>6. CountOf(t.ref, k) = CountOf(s.ref, k) + 1 /\ SameOther(s, t, k)
    BY <2>0, <2>1, <2>3, <2>4 DEF CountOf, SameOther, Counted
  <2> QED BY <2>00, <2>1, <2>3, <2>5, <2>6 DEF IncDoes
<1> QED BY <1>1, <1>2

\* The reference with one count of kind k less, if there is any left.
Uncounted(r, t, k) ==
    /\ t \in RefRec \cup {NULL}
    /\ t # NULL => t.node = r.node
    /\ CountOf(t, k) \in Nat /\ r[k] = CountOf(t, k) + 1
    /\ \A l \in Kind : l # k => CountOf(t, l) = r[l]

\* binder_dec_ref on a count that is not zero; the reference may go with it.
LEMMA DecRefIs ==
    ASSUME NEW r \in RefRec, NEW k \in Kind, r[k] # 0, NEW b
    PROVE  \E t : /\ DecRef([ref |-> r, refused |-> b], k) = [ref |-> t, refused |-> b]
                  /\ Uncounted(r, t, k)
<1>1. /\ r # NULL /\ r = [node |-> r.node, strong |-> r.strong, weak |-> r.weak]
      /\ r.node \in Node /\ r.strong \in Nat /\ r.weak \in Nat
  BY NoRecord DEF RefRec
<1>2. CASE k = "strong"
  <2>1. PICK m \in Nat : r.strong = m + 1
    <3>1. r.strong - 1 \in Nat /\ r.strong = (r.strong - 1) + 1
      BY <1>1, <1>2
    <3> QED BY <3>1
  <2>2. PICK d : d = [node |-> r.node, strong |-> m, weak |-> r.weak]
    OBVIOUS
  <2>3. [r EXCEPT !["strong"] = @ - 1] = d
    <3>1. r["strong"] - 1 = m
      BY <2>1
    <3>2. PICK x, y, z : x = r.node /\ y = r.strong /\ z = r.weak
      OBVIOUS
    <3>3. r = [node |-> x, strong |-> y, weak |-> z] /\ d = [node |-> x, strong |-> m, weak |-> z]
      BY <1>1, <2>2, <3>2
    <3>4. [[node |-> x, strong |-> y, weak |-> z] EXCEPT !["strong"] = m] = [node |-> x, strong |-> m, weak |-> z]
      OBVIOUS
    <3>5. [r EXCEPT !["strong"] = m] = d
      BY <3>3, <3>4
    <3> QED BY <3>1, <3>5
  <2>4. PICK t : t = IF d.strong = 0 /\ d.weak = 0 THEN NULL ELSE d
    OBVIOUS
  <2>5. DecRef([ref |-> r, refused |-> b], k) = [ref |-> t, refused |-> b]
    BY <1>1, <1>2, <2>3, <2>4 DEF DecRef
  <2>6. d \in RefRec /\ d # NULL
    BY <1>1, <2>2, NoRecord DEF RefRec
  <2>7. Uncounted(r, t, k)
    BY <1>1, <1>2, <2>1, <2>2, <2>4, <2>6 DEF Uncounted, CountOf, Kind
  <2> QED BY <2>5, <2>7
<1>3. CASE k = "weak"
  <2>1. PICK m \in Nat : r.weak = m + 1
    <3>1. r.weak - 1 \in Nat /\ r.weak = (r.weak - 1) + 1
      BY <1>1, <1>3
    <3> QED BY <3>1
  <2>2. PICK d : d = [node |-> r.node, strong |-> r.strong, weak |-> m]
    OBVIOUS
  <2>3. [r EXCEPT !["weak"] = @ - 1] = d
    <3>1. r["weak"] - 1 = m
      BY <2>1
    <3>2. PICK x, y, z : x = r.node /\ y = r.strong /\ z = r.weak
      OBVIOUS
    <3>3. r = [node |-> x, strong |-> y, weak |-> z] /\ d = [node |-> x, strong |-> y, weak |-> m]
      BY <1>1, <2>2, <3>2
    <3>4. [[node |-> x, strong |-> y, weak |-> z] EXCEPT !["weak"] = m] = [node |-> x, strong |-> y, weak |-> m]
      OBVIOUS
    <3>5. [r EXCEPT !["weak"] = m] = d
      BY <3>3, <3>4
    <3> QED BY <3>1, <3>5
  <2>4. PICK t : t = IF d.strong = 0 /\ d.weak = 0 THEN NULL ELSE d
    OBVIOUS
  <2>5. DecRef([ref |-> r, refused |-> b], k) = [ref |-> t, refused |-> b]
    BY <1>1, <1>3, <2>3, <2>4 DEF DecRef
  <2>6. d \in RefRec /\ d # NULL
    BY <1>1, <2>2, NoRecord DEF RefRec
  <2>7. Uncounted(r, t, k)
    BY <1>1, <1>3, <2>1, <2>2, <2>4, <2>6 DEF Uncounted, CountOf, Kind
  <2> QED BY <2>5, <2>7
<1> QED BY <1>2, <1>3 DEF Kind

\* binder_dec_ref
LEMMA DecRefDoes ==
    ASSUME NEW s \in DriverRec, NEW k \in Kind
    PROVE  DecDoes(s, DecRef(s, k), k)
<1>1. CASE s.ref = NULL
  <2>1. DecRef(s, k) = Refuse(s) /\ CountOf(s.ref, k) = 0
    BY <1>1 DEF DecRef, CountOf
  <2> QED BY <2>1, RefuseIs DEF DecDoes
<1>2. CASE s.ref # NULL
  <2>0. PICK r \in RefRec : r = s.ref
    BY <1>2, DriverIs
  <2>1. PICK b \in BOOLEAN : b = s.refused
    BY DriverIs
  <2>2. s = [ref |-> r, refused |-> b] /\ CountOf(s.ref, k) = r[k]
    BY <1>2, <2>0, <2>1, DriverIs DEF CountOf
  <2>3. CASE r[k] = 0
    <3>1. DecRef(s, k) = Refuse(s)
      BY <1>2, <2>0, <2>3 DEF DecRef
    <3> QED BY <2>2, <2>3, <3>1, RefuseIs DEF DecDoes
  <2>4. CASE r[k] # 0
    <3>1. PICK t : DecRef(s, k) = [ref |-> t, refused |-> b] /\ Uncounted(r, t, k)
      BY <2>2, <2>4, DecRefIs
    <3>2. PICK u : u = DecRef(s, k)
      OBVIOUS
    <3>3. u.ref = t /\ u.refused = b /\ u \in DriverRec
      BY <3>1, <3>2 DEF DriverRec, Uncounted
    <3>4. Keeps(s, u)
      BY <1>2, <2>0, <2>1, <3>1, <3>3 DEF Keeps, Uncounted
    <3>5. /\ CountOf(u.ref, k) \in Nat /\ CountOf(s.ref, k) = CountOf(u.ref, k) + 1
          /\ SameOther(s, u, k)
      <4>1. \A l \in Kind : CountOf(s.ref, l) = r[l]
        BY <1>2, <2>0 DEF CountOf
      <4> QED BY <3>1, <3>3, <4>1 DEF Uncounted, SameOther
    <3> QED BY <2>1, <3>2, <3>3, <3>4, <3>5 DEF DecDoes
  <2> QED BY <2>3, <2>4
<1> QED BY <1>1, <1>2

\* binder_thread_write: every command is an increment or a decrement of one kind.
LEMMA ApplyIs ==
    ASSUME NEW s \in DriverRec, NEW c \in CommandRec
    PROVE  \E k \in Kind : \/ c.op = Inc(k) /\ IncDoes(s, Apply(s, c), k)
                           \/ c.op \in {Dec(k), Gives(k)} /\ DecDoes(s, Apply(s, c), k)
<1>0. KindsAre
  BY KindFacts
<1>1. c.op \in {"INCREFS", "ACQUIRE", "RELEASE", "DECREFS", "FREE_STRONG", "FREE_WEAK"}
  BY DEF CommandRec, Increments, Decrements, Frees
<1>2. CASE c.op = "INCREFS"
  <2>1. Apply(s, c) = IncRef(s, "weak")
    BY <1>2 DEF Apply
  <2> QED BY <1>0, <1>2, <2>1, IncRefDoes DEF KindsAre
<1>3. CASE c.op = "ACQUIRE"
  <2>1. Apply(s, c) = IncRef(s, "strong")
    BY <1>3 DEF Apply
  <2> QED BY <1>0, <1>3, <2>1, IncRefDoes DEF KindsAre
<1>4. CASE c.op \in {"RELEASE", "FREE_STRONG"}
  <2>1. Apply(s, c) = DecRef(s, "strong")
    BY <1>4 DEF Apply
  <2>2. c.op \in {Dec("strong"), Gives("strong")} /\ "strong" \in Kind
    BY <1>0, <1>4 DEF KindsAre
  <2> QED BY <2>1, <2>2, DecRefDoes
<1>5. CASE c.op \in {"DECREFS", "FREE_WEAK"}
  <2>1. Apply(s, c) = DecRef(s, "weak")
    BY <1>5 DEF Apply
  <2>2. c.op \in {Dec("weak"), Gives("weak")} /\ "weak" \in Kind
    BY <1>0, <1>5 DEF KindsAre
  <2> QED BY <2>1, <2>2, DecRefDoes
<1> QED BY <1>1, <1>2, <1>3, <1>4, <1>5

-----------------------------------------------------------------------------
(* talkWithDriver *)

\* Where there is a command op after the first i of th are applied.
Left(th, i, op) == {x \in Places(mOut, op) : x[1] # th \/ x[2] > i}

\* One more command is applied.
LEMMA LeftNext ==
    ASSUME Queues(mOut), NEW th \in Thread, NEW i \in 1 .. Len(mOut[th]), NEW op,
           NEW x \in Places(mOut, op)
    PROVE  /\ x = <<th, i>> => mOut[th][i].op = op
           /\ x \in Left(th, i, op) <=> x \in Left(th, i - 1, op) /\ x # <<th, i>>
<1>1. Len(mOut[th]) \in Nat /\ i \in Nat
  BY DEF Queues
<1>2. PICK u \in Thread : \E j \in 1 .. Len(mOut[u]) : x = <<u, j>> /\ mOut[u][j].op = op
  BY PlaceIs
<1>3. PICK j \in 1 .. Len(mOut[u]) : x = <<u, j>> /\ mOut[u][j].op = op
  BY <1>2
<1>4. Len(mOut[u]) \in Nat
  BY DEF Queues
<1>5. j \in Nat /\ (j > i <=> j > i - 1 /\ j # i)
  BY <1>1, <1>4
<1> QED BY <1>3, <1>5 DEF Left

\* The command that is applied is left no more.
LEMMA LeftIs ==
    ASSUME Queues(mOut), NEW th \in Thread, NEW i \in 1 .. Len(mOut[th]), NEW op,
           mOut[th][i].op = op
    PROVE  <<th, i>> \in Left(th, i - 1, op) /\ Left(th, i, op) = Left(th, i - 1, op) \ {<<th, i>>}
<1>1. Len(mOut[th]) \in Nat /\ i \in Nat /\ i > i - 1
  BY DEF Queues
<1>2. <<th, i>> \in Left(th, i - 1, op)
  BY <1>1, PlaceIs DEF Left
<1>3. \A m : \A x \in Left(th, m, op) : x \in Places(mOut, op)
  BY DEF Left
<1>4. \A x : x \in Left(th, i, op) <=> x \in Left(th, i - 1, op) /\ x # <<th, i>>
  BY <1>3, LeftNext
<1> QED BY <1>2, <1>4

\* The places of the other commands stay.
LEMMA LeftSame ==
    ASSUME Queues(mOut), NEW th \in Thread, NEW i \in 1 .. Len(mOut[th]), NEW op,
           mOut[th][i].op # op
    PROVE  Left(th, i, op) = Left(th, i - 1, op)
<1>1. \A m : \A x \in Left(th, m, op) : x \in Places(mOut, op)
  BY DEF Left
<1>2. \A x \in Places(mOut, op) : x # <<th, i>>
  BY LeftNext
<1>3. \A x : x \in Left(th, i, op) <=> x \in Left(th, i - 1, op)
  BY <1>1, <1>2, LeftNext
<1> QED BY <1>3

\* No command of th overtakes one of another thread.
Calm(th) == ~overtaken /\ \A i \in 1 .. Len(mOut[th]) : mOut[th][i].after = {}

BalancedAt(th, s, i, k) ==
    Balanced(CountOf(s.ref, k), Left(th, i, Inc(k)), Left(th, i, Dec(k)), Left(th, i, Gives(k)),
             ParcelsOf(parcel, k), InUse(k))

MatchedAt(th, i, k) ==
    \E N : Matches(N, mOut, Left(th, i, Inc(k)), Left(th, i, Dec(k)), InUse(k))

\* The driver's state s after the first i commands of th.
FlushAt(th, s, i) ==
    /\ s \in DriverRec
    /\ s.ref # NULL => ref # NULL /\ s.ref.node = ref.node
    /\ ~s.refused => \A k \in Kind : BalancedAt(th, s, i, k)
    /\ Calm(th) => ~s.refused

\* The increments that are left are for proxies in use or decrements that are left.
LEMMA StillMatched ==
    ASSUME Queues(mOut), NEW th \in Thread, NEW i \in Nat, i <= Len(mOut[th]), Calm(th),
           NEW k \in Kind, MatchInv(k)
    PROVE  MatchedAt(th, i, k)
<1>1. PICK M : Matches(M, mOut, Places(mOut, Inc(k)), Places(mOut, Dec(k)), InUse(k))
  BY DEF MatchInv
<1>2. Left(th, i, Inc(k)) \subseteq Places(mOut, Inc(k))
      /\ Left(th, i, Dec(k)) \subseteq Places(mOut, Dec(k))
  BY DEF Left
<1>3. ASSUME NEW a \in Left(th, i, Inc(k)), NEW r \in Places(mOut, Dec(k)), Guarded(mOut, a, r)
      PROVE  r \in Left(th, i, Dec(k))
  <2> SUFFICES ASSUME r[1] = th, ~(r[2] > i)
               PROVE  FALSE
    BY DEF Left
  <2>1. PICK u \in Thread : \E j \in 1 .. Len(mOut[u]) : r = <<u, j>>
    BY PlaceIs
  <2>2. PICK j \in 1 .. Len(mOut[u]) : r = <<u, j>>
    BY <2>1
  <2>3. u = th /\ r[2] = j /\ j \in 1 .. Len(mOut[th])
    BY <2>2
  <2>4. Len(mOut[th]) \in Nat
    BY DEF Queues
  <2>5. a[1] = th /\ a[2] < j
    <3>1. a[1] \notin mOut[th][j].after
      BY <2>3 DEF Calm
    <3> QED BY <1>3, <2>3, <3>1 DEF Guarded
  <2>6. a[2] > i
    BY <2>5 DEF Left
  <2>7. PICK m \in Nat : a[2] = m
    <3>1. PICK w \in Thread : \E l \in 1 .. Len(mOut[w]) : a = <<w, l>>
      BY <1>2, PlaceIs
    <3>2. PICK l \in 1 .. Len(mOut[w]) : a = <<w, l>>
      BY <3>1
    <3>3. Len(mOut[w]) \in Nat
      BY DEF Queues
    <3> QED BY <3>2, <3>3
  <2>8. m < j /\ m > i /\ ~(j > i) /\ j \in Nat
    BY <2>3, <2>4, <2>5, <2>6, <2>7
  <2> QED BY <2>8
<1>4. \E N : Matches(N, mOut, Left(th, i, Inc(k)), Left(th, i, Dec(k)), InUse(k))
  BY <1>1, <1>2, <1>3, MatchesLess
<1> QED BY <1>4 DEF MatchedAt

\* What is to be given up is counted.
LEMMA FlushCounted ==
    ASSUME Queues(mOut), NEW th \in Thread, NEW i \in 1 .. Len(mOut[th]), Calm(th),
           NEW k \in Kind, MatchInv(k), NEW s, BalancedAt(th, s, i - 1, k)
    PROVE  /\ mOut[th][i].op = Dec(k) => CountOf(s.ref, k) > 0
           /\ \A j \in 1 .. Len(mOut[th]) :
                 j >= i /\ mOut[th][j].op = Gives(k) => CountOf(s.ref, k) > 0
           /\ ParcelsOf(parcel, k) # {} => CountOf(s.ref, k) > 0
<1>0. Len(mOut[th]) \in Nat /\ i - 1 \in Nat /\ i - 1 <= Len(mOut[th]) /\ i \in Nat
  BY DEF Queues
<1>1. PICK N : Matches(N, mOut, Left(th, i - 1, Inc(k)), Left(th, i - 1, Dec(k)), InUse(k))
  BY <1>0, StillMatched DEF MatchedAt
<1> DEFINE A == Left(th, i - 1, Inc(k))
           R == Left(th, i - 1, Dec(k))
           F == Left(th, i - 1, Gives(k))
<1>2. /\ ParcelsOf(parcel, k) # {} => CountOf(s.ref, k) > 0
      /\ F # {} => CountOf(s.ref, k) > 0
      /\ \A t \in Holders(InUse(k), R) : (\A a \in A : N[a] # t) => CountOf(s.ref, k) > 0
  BY <1>1, CountEnough DEF BalancedAt, Matches
<1>3. ASSUME mOut[th][i].op = Dec(k)
      PROVE  CountOf(s.ref, k) > 0
  <2>1. <<th, i>> \in R
    BY <1>3, LeftIs
  <2>2. <<1, <<th, i>>>> \in Holders(InUse(k), R)
    BY <2>1 DEF Holders
  <2>3. ASSUME NEW a \in A
        PROVE  N[a] # <<1, <<th, i>>>>
    <3> SUFFICES ASSUME N[a] = <<1, <<th, i>>>>
                 PROVE  FALSE
      OBVIOUS
    <3>1. Guarded(mOut, a, <<th, i>>)
      BY <1>1, <2>1 DEF Matches
    <3>2. a[1] = th /\ a[2] < i
      BY <3>1 DEF Guarded, Calm
    <3>3. a[2] > i - 1
      BY <3>2 DEF Left
    <3>4. PICK m \in Nat : a[2] = m
      <4>1. PICK w \in Thread : \E l \in 1 .. Len(mOut[w]) : a = <<w, l>>
        BY PlaceIs DEF Left
      <4>2. PICK l \in 1 .. Len(mOut[w]) : a = <<w, l>>
        BY <4>1
      <4>3. Len(mOut[w]) \in Nat
        BY DEF Queues
      <4> QED BY <4>2, <4>3
    <3> QED BY <1>0, <3>2, <3>3, <3>4
  <2> QED BY <1>2, <2>2, <2>3
<1>4. ASSUME NEW j \in 1 .. Len(mOut[th]), j >= i, mOut[th][j].op = Gives(k)
      PROVE  CountOf(s.ref, k) > 0
  <2>1. <<th, j>> \in Places(mOut, Gives(k)) /\ j > i - 1
    BY <1>0, <1>4, PlaceIs
  <2>2. <<th, j>> \in F
    BY <2>1 DEF Left
  <2> QED BY <1>2, <2>2
<1> QED BY <1>2, <1>3, <1>4

\* One command.
LEMMA FlushStep ==
    ASSUME Queues(mOut), Entitled, NEW th \in Thread, NEW i \in 1 .. Len(mOut[th]),
           ~overtaken => \A k \in Kind : MatchInv(k), NEW s, FlushAt(th, s, i - 1)
    PROVE  FlushAt(th, Apply(s, mOut[th][i]), i)
<1>1. PICK c \in CommandRec : c = mOut[th][i]
  BY DEF Queues
<1>2. PICK t : t = Apply(s, c)
  OBVIOUS
<1>3. s \in DriverRec
  BY DEF FlushAt
<1>4. PICK k \in Kind : \/ c.op = Inc(k) /\ IncDoes(s, t, k)
                        \/ c.op \in {Dec(k), Gives(k)} /\ DecDoes(s, t, k)
  BY <1>2, <1>3, ApplyIs
<1>5. Keeps(s, t)
  BY <1>4 DEF IncDoes, DecDoes
<1>6. t \in DriverRec /\ (t.ref # NULL => ref # NULL /\ t.ref.node = ref.node)
  BY <1>5 DEF Keeps, FlushAt
<1>7. ASSUME ~t.refused, NEW l \in Kind
      PROVE  BalancedAt(th, t, i, l)
  <2>1. BalancedAt(th, s, i - 1, l)
    BY <1>5, <1>7 DEF Keeps, FlushAt
  <2>2. CASE l # k
    <3>1. CountOf(t.ref, l) = CountOf(s.ref, l)
      BY <1>4, <1>7, <2>2 DEF IncDoes, DecDoes, SameOther
    <3>2. c.op # Inc(l) /\ c.op # Dec(l) /\ c.op # Gives(l)
      BY <1>4, <2>2, Commands DEF CommandOf
    <3>3. /\ Left(th, i, Inc(l)) = Left(th, i - 1, Inc(l))
          /\ Left(th, i, Dec(l)) = Left(th, i - 1, Dec(l))
          /\ Left(th, i, Gives(l)) = Left(th, i - 1, Gives(l))
      BY <1>1, <3>2, LeftSame
    <3> QED BY <2>1, <3>1, <3>3 DEF BalancedAt
  <2>3. CASE l = k
    <3>0. Inc(k) # Dec(k) /\ Inc(k) # Gives(k) /\ Dec(k) # Gives(k)
      BY Commands
    <3>00. PICK x : x = <<th, i>>
      OBVIOUS
    <3>1. CASE c.op = Inc(k) /\ IncDoes(s, t, k)
      <4>1. /\ Left(th, i, Dec(k)) = Left(th, i - 1, Dec(k))
            /\ Left(th, i, Gives(k)) = Left(th, i - 1, Gives(k))
            /\ x \in Left(th, i - 1, Inc(k))
            /\ Left(th, i, Inc(k)) = Left(th, i - 1, Inc(k)) \ {x}
        BY <1>1, <3>0, <3>00, <3>1, LeftIs, LeftSame
      <4>2. CountOf(t.ref, k) = CountOf(s.ref, k) + 1
        BY <1>7, <3>1 DEF IncDoes
      <4> QED BY <2>1, <2>3, <4>1, <4>2, BalancedInc DEF BalancedAt
    <3>2. CASE c.op = Dec(k) /\ DecDoes(s, t, k)
      <4>1. /\ Left(th, i, Inc(k)) = Left(th, i - 1, Inc(k))
            /\ Left(th, i, Gives(k)) = Left(th, i - 1, Gives(k))
            /\ x \in Left(th, i - 1, Dec(k))
            /\ Left(th, i, Dec(k)) = Left(th, i - 1, Dec(k)) \ {x}
        BY <1>1, <3>0, <3>00, <3>2, LeftIs, LeftSame
      <4>2. CountOf(t.ref, k) \in Nat /\ CountOf(s.ref, k) = CountOf(t.ref, k) + 1
        BY <1>7, <3>2 DEF DecDoes
      <4> QED BY <2>1, <2>3, <4>1, <4>2, BalancedDec DEF BalancedAt
    <3>3. CASE c.op = Gives(k) /\ DecDoes(s, t, k)
      <4>1. /\ Left(th, i, Inc(k)) = Left(th, i - 1, Inc(k))
            /\ Left(th, i, Dec(k)) = Left(th, i - 1, Dec(k))
            /\ x \in Left(th, i - 1, Gives(k))
            /\ Left(th, i, Gives(k)) = Left(th, i - 1, Gives(k)) \ {x}
        BY <1>1, <3>0, <3>00, <3>3, LeftIs, LeftSame
      <4>2. CountOf(t.ref, k) \in Nat /\ CountOf(s.ref, k) = CountOf(t.ref, k) + 1
        BY <1>7, <3>3 DEF DecDoes
      <4> QED BY <2>1, <2>3, <4>1, <4>2, BalancedGive DEF BalancedAt
    <3> QED BY <1>4, <3>1, <3>2, <3>3
  <2> QED BY <2>2, <2>3
<1>8. ASSUME Calm(th)
      PROVE  ~t.refused
  <2>1. ~s.refused /\ ~overtaken /\ s.refused \in BOOLEAN /\ t.refused \in BOOLEAN
    BY <1>3, <1>6, <1>8 DEF FlushAt, Calm, DriverRec
  <2>2. \A l \in Kind : BalancedAt(th, s, i - 1, l) /\ MatchInv(l)
    BY <2>1 DEF FlushAt
  <2>3. \A l \in Kind : /\ mOut[th][i].op = Dec(l) => CountOf(s.ref, l) > 0
                        /\ \A j \in 1 .. Len(mOut[th]) :
                              j >= i /\ mOut[th][j].op = Gives(l) => CountOf(s.ref, l) > 0
                        /\ ParcelsOf(parcel, l) # {} => CountOf(s.ref, l) > 0
    BY <1>8, <2>2, FlushCounted
  <2>4. CASE c.op = Inc(k) /\ IncDoes(s, t, k)
    <3>1. s.ref # NULL
      <4>1. KindsAre /\ c.op \in {"INCREFS", "ACQUIRE"}
        BY <2>4, KindFacts DEF Inc
      <4>2. parcel[th] # NULL \/ \E j \in 1 .. Len(mOut[th]) : j > i /\ mOut[th][j].op \in Frees
        BY <1>1, <4>1 DEF Entitled, EntitledAt, Frees
      <4>3. CASE parcel[th] # NULL
        <5>1. th \in ParcelsOf(parcel, "strong") \/ th \in ParcelsOf(parcel, "weak")
          BY <4>3 DEF ParcelsOf
        <5> QED BY <2>3, <4>1, <5>1, CountedRef DEF KindsAre
      <4>4. CASE \E j \in 1 .. Len(mOut[th]) : j > i /\ mOut[th][j].op \in Frees
        <5>1. PICK j \in 1 .. Len(mOut[th]) : j > i /\ mOut[th][j].op \in Frees
          BY <4>4
        <5>2. \E l \in Kind : mOut[th][j].op = Gives(l)
          BY <4>1, <5>1 DEF KindsAre, Frees
        <5>3. Len(mOut[th]) \in Nat
          BY DEF Queues
        <5>4. j >= i
          BY <5>1, <5>3
        <5> QED BY <2>3, <5>2, <5>4, CountedRef
      <4> QED BY <4>2, <4>3, <4>4
    <3> QED BY <2>1, <2>4, <3>1 DEF IncDoes
  <2>5. CASE c.op \in {Dec(k), Gives(k)} /\ DecDoes(s, t, k)
    <3>1. CountOf(s.ref, k) > 0
      <4>1. Len(mOut[th]) \in Nat
        BY DEF Queues
      <4>2. i >= i
        BY <4>1
      <4> QED BY <1>1, <2>3, <2>5, <4>2
    <3> QED BY <2>1, <2>5, <3>1 DEF DecDoes
  <2> QED BY <1>4, <2>4, <2>5
<1>9. FlushAt(th, t, i)
  BY <1>6, <1>7, <1>8 DEF FlushAt
<1> QED BY <1>1, <1>2, <1>9

\* All the commands of a thread, one after the other.
LEMMA FlushAll ==
    ASSUME Queues(mOut), Entitled, NEW th \in Thread,
           ~overtaken => \A k \in Kind : MatchInv(k),
           NEW b, FlushAt(th, b, 0), NEW v, Applied(v, b, mOut[th])
    PROVE  FlushAt(th, v[Len(mOut[th])], Len(mOut[th]))
<1>1. PICK n \in Nat : n = Len(mOut[th])
  BY DEF Queues
<1> DEFINE K == {i \in 0 .. n : ~FlushAt(th, v[i], i)}
<1>2. K = {}
  <2> SUFFICES ASSUME K # {}
               PROVE  FALSE
    OBVIOUS
  <2>1. PICK m \in K : \A i \in K : m <= i
    <3>1. K \subseteq Nat
      OBVIOUS
    <3> HIDE DEF K
    <3> QED BY <3>1, Least
  <2>2. m \in 0 .. n /\ ~FlushAt(th, v[m], m)
    OBVIOUS
  <2>3. m # 0
    BY <2>2 DEF Applied
  <2>4. m \in 1 .. n /\ m - 1 \in 0 .. n /\ ~(m <= m - 1)
    BY <2>2, <2>3
  <2>5. FlushAt(th, v[m - 1], m - 1)
    BY <2>1, <2>4
  <2> HIDE DEF K
  <2>6. m \in 1 .. Len(mOut[th])
    BY <1>1, <2>4
  <2>7. v[m] = Apply(v[m - 1], mOut[th][m])
    BY <2>6 DEF Applied
  <2>8. FlushAt(th, Apply(v[m - 1], mOut[th][m]), m)
    BY <2>5, <2>6, FlushStep
  <2> QED BY <2>2, <2>7, <2>8
<1>3. n \in 0 .. n
  BY <1>1
<1>4. FlushAt(th, v[n], n)
  BY <1>2, <1>3
<1> QED BY <1>1, <1>4

\* nu is mo with the queue of th empty, and th no longer behind.
Flushed(mo, nu, th) ==
    /\ Queues(nu) /\ nu[th] = <<>>
    /\ \A u \in Thread : u # th =>
          /\ Len(nu[u]) = Len(mo[u])
          /\ \A i \in 1 .. Len(mo[u]) : /\ nu[u][i].op = mo[u][i].op
                                        /\ nu[u][i].after = mo[u][i].after \ {th}

\* Flush takes the queue of th, and nothing else from the others.
LEMMA FlushIs ==
    ASSUME Queues(mOut), NEW th \in Thread, Flush(th)
    PROVE  Flushed(mOut, mOut', th)
<1> DEFINE Seen(q) == [i \in DOMAIN q |-> [q[i] EXCEPT !.after = @ \ {th}]]
<1>1. mOut' = [u \in Thread |-> IF u = th THEN <<>> ELSE Seen(mOut[u])]
  BY DEF Flush
<1>2. ASSUME NEW u \in Thread
      PROVE  /\ Seen(mOut[u]) \in Seq(CommandRec) /\ Len(Seen(mOut[u])) = Len(mOut[u])
             /\ \A i \in 1 .. Len(mOut[u]) : /\ Seen(mOut[u])[i].op = mOut[u][i].op
                                             /\ Seen(mOut[u])[i].after = mOut[u][i].after \ {th}
  <2>1. PICK q \in Seq(CommandRec) : q = mOut[u]
    BY DEF Queues
  <2>2. DOMAIN q = 1 .. Len(q) /\ Len(q) \in Nat /\ \A i \in 1 .. Len(q) : q[i] \in CommandRec
    BY <2>1
  <2>3. \A c \in CommandRec : /\ [c EXCEPT !.after = @ \ {th}] \in CommandRec
                              /\ [c EXCEPT !.after = @ \ {th}].op = c.op
                              /\ [c EXCEPT !.after = @ \ {th}].after = c.after \ {th}
    BY DEF CommandRec
  <2>4. Seen(q) \in [1 .. Len(q) -> CommandRec]
    BY <2>2, <2>3
  <2>5. Seen(q) \in Seq(CommandRec) /\ Len(Seen(q)) = Len(q)
    <3> HIDE DEF Seen
    <3> QED BY <2>2, <2>4
  <2>6. \A i \in 1 .. Len(q) : Seen(q)[i].op = q[i].op /\ Seen(q)[i].after = q[i].after \ {th}
    BY <2>2, <2>3
  <2> HIDE DEF Seen
  <2> QED BY <2>1, <2>5, <2>6
<1> HIDE DEF Seen
<1>3. mOut'[th] = <<>> /\ \A u \in Thread : u # th => mOut'[u] = Seen(mOut[u])
  BY <1>1
<1>4. Queues(mOut')
  <2>1. <<>> \in Seq(CommandRec) /\ Len(<<>>) = 0 /\ 0 <= MaxOut
    BY RemoteAssumption
  <2>2. \A u \in Thread : Seen(mOut[u]) \in Seq(CommandRec) /\ Len(Seen(mOut[u])) <= MaxOut
    BY <1>2 DEF Queues
  <2> QED BY <1>1, <2>1, <2>2 DEF Queues
<1> QED BY <1>2, <1>3, <1>4 DEF Flushed

\* What is in the queues afterwards is what is left when all of th is applied.
LEMMA FlushedPlaces ==
    ASSUME Queues(mOut), NEW nu, NEW th \in Thread, Flushed(mOut, nu, th), NEW op
    PROVE  Places(nu, op) = Left(th, Len(mOut[th]), op)
<1>1. Queues(nu) /\ nu[th] = <<>>
  BY DEF Flushed
<1>2. ASSUME NEW x \in Places(nu, op)
      PROVE  x \in Left(th, Len(mOut[th]), op)
  <2>1. PICK u \in Thread : \E i \in 1 .. Len(nu[u]) : x = <<u, i>> /\ nu[u][i].op = op
    BY <1>1, PlaceIs
  <2>2. PICK i \in 1 .. Len(nu[u]) : x = <<u, i>> /\ nu[u][i].op = op
    BY <2>1
  <2>3. u # th
    BY <1>1, <2>2
  <2>4. i \in 1 .. Len(mOut[u]) /\ mOut[u][i].op = op
    BY <2>2, <2>3 DEF Flushed
  <2> QED BY <2>2, <2>3, <2>4, PlaceIs DEF Left
<1>3. ASSUME NEW x \in Left(th, Len(mOut[th]), op)
      PROVE  x \in Places(nu, op)
  <2>1. PICK u \in Thread : \E i \in 1 .. Len(mOut[u]) : x = <<u, i>> /\ mOut[u][i].op = op
    BY PlaceIs DEF Left
  <2>2. PICK i \in 1 .. Len(mOut[u]) : x = <<u, i>> /\ mOut[u][i].op = op
    BY <2>1
  <2>3. u # th
    <3> SUFFICES ASSUME u = th
                 PROVE  FALSE
      OBVIOUS
    <3>1. i > Len(mOut[th])
      BY <2>2 DEF Left
    <3>2. Len(mOut[th]) \in Nat
      BY DEF Queues
    <3> QED BY <2>2, <3>1, <3>2
  <2>4. i \in 1 .. Len(nu[u]) /\ nu[u][i].op = op
    BY <2>2, <2>3 DEF Flushed
  <2> QED BY <1>1, <2>2, <2>4, PlaceIs
<1> QED BY <1>2, <1>3

\* A command that is left is that of another thread.
LEMMA LeftOther ==
    ASSUME Queues(mOut), NEW th \in Thread, NEW op, NEW x \in Left(th, Len(mOut[th]), op)
    PROVE  x[1] # th /\ \E u \in Thread : \E i \in 1 .. Len(mOut[u]) : u # th /\ x = <<u, i>>
<1>1. PICK u \in Thread : \E i \in 1 .. Len(mOut[u]) : x = <<u, i>>
  BY PlaceIs DEF Left
<1>2. PICK i \in 1 .. Len(mOut[u]) : x = <<u, i>>
  BY <1>1
<1>3. u # th
  <2> SUFFICES ASSUME u = th
               PROVE  FALSE
    OBVIOUS
  <2>1. i > Len(mOut[th])
    BY <1>2 DEF Left
  <2>2. Len(mOut[th]) \in Nat
    BY DEF Queues
  <2> QED BY <1>2, <2>1, <2>2
<1> QED BY <1>2, <1>3

\* The increments that are left were not those of th, and are guarded as before.
LEMMA FlushedMatch ==
    ASSUME Queues(mOut), NEW nu, NEW th \in Thread, Flushed(mOut, nu, th), NEW k \in Kind,
           NEW N, NEW U, Matches(N, mOut, Left(th, Len(mOut[th]), Inc(k)),
                                 Left(th, Len(mOut[th]), Dec(k)), U)
    PROVE  Matches(N, nu, Left(th, Len(mOut[th]), Inc(k)), Left(th, Len(mOut[th]), Dec(k)), U)
<1>1. ASSUME NEW a \in Left(th, Len(mOut[th]), Inc(k)), NEW r \in Left(th, Len(mOut[th]), Dec(k)),
             Guarded(mOut, a, r)
      PROVE  Guarded(nu, a, r)
  <2>1. a[1] # th
    BY LeftOther
  <2>2. PICK u \in Thread : \E i \in 1 .. Len(mOut[u]) : u # th /\ r = <<u, i>>
    BY LeftOther
  <2>3. PICK i \in 1 .. Len(mOut[u]) : u # th /\ r = <<u, i>>
    BY <2>2
  <2>4. nu[u][i].after = mOut[u][i].after \ {th}
    BY <2>3 DEF Flushed
  <2> QED BY <1>1, <2>1, <2>3, <2>4 DEF Guarded
<1> QED BY <1>1 DEF Matches

\* talkWithDriver: the commands of th reach the driver.
LEMMA HeldFlush ==
    ASSUME HeldInv, ~refused, ParcelTypeOK', TableInv', NEW th \in Thread, Flush(th)
    PROVE  HeldInv'
<1>1. /\ Queues(mOut) /\ Entitled /\ \A k \in Kind : KindInv(k)
      /\ ref \in RefRec \cup {NULL} /\ overtaken \in BOOLEAN /\ refused \in BOOLEAN
  BY DEF HeldInv, CountsOK
<1>2. PICK b : b = [ref |-> ref, refused |-> refused]
  OBVIOUS
<1>3. PICK n \in Nat : n = Len(mOut[th])
  BY <1>1 DEF Queues
<1>4. PICK s : s = FoldLeft(Apply, b, mOut[th])
  OBVIOUS
<1>5. /\ ref' = s.ref /\ refused' = s.refused
      /\ overtaken' = (overtaken \/ \E i \in DOMAIN mOut[th] : mOut[th][i].after # {})
      /\ parcel' = parcel /\ bp' = bp /\ strong' = strong
  BY <1>2, <1>4 DEF Flush
<1>6. Flushed(mOut, mOut', th)
  BY <1>1, FlushIs
<1>7. PICK v : Applied(v, b, mOut[th]) /\ s = v[n]
  <2>1. mOut[th] \in Seq(CommandRec)
    BY <1>1 DEF Queues
  <2>2. PICK q \in Seq(CommandRec) : q = mOut[th]
    BY <2>1
  <2>3. \E v : Applied(v, b, q) /\ FoldLeft(Apply, b, q) = v[Len(q)]
    BY FlushApplies
  <2> QED BY <1>3, <1>4, <2>2, <2>3
<1>8. ~overtaken => \A k \in Kind : MatchInv(k)
  BY <1>1 DEF KindInv
<1>9. FlushAt(th, b, 0)
  <2>1. b \in DriverRec /\ b.ref = ref /\ b.refused = refused
    BY <1>1, <1>2 DEF DriverRec
  <2>2. \A op : Left(th, 0, op) = Places(mOut, op)
    <3> SUFFICES ASSUME NEW op
                 PROVE  \A x \in Places(mOut, op) : x[1] # th \/ x[2] > 0
      BY DEF Left
    <3> SUFFICES ASSUME NEW x \in Places(mOut, op)
                 PROVE  x[2] > 0
      OBVIOUS
    <3>1. PICK u \in Thread : \E j \in 1 .. Len(mOut[u]) : x = <<u, j>>
      BY <1>1, PlaceIs
    <3>2. PICK j \in 1 .. Len(mOut[u]) : x = <<u, j>>
      BY <3>1
    <3>3. Len(mOut[u]) \in Nat
      BY <1>1 DEF Queues
    <3> QED BY <3>2, <3>3
  <2>3. \A k \in Kind : BalancedAt(th, b, 0, k)
    BY <1>1, <2>1, <2>2 DEF KindInv, BalanceInv, BalancedAt
  <2> QED BY <2>1, <2>3 DEF FlushAt
<1>10. FlushAt(th, s, n)
  BY <1>1, <1>3, <1>7, <1>8, <1>9, FlushAll
<1>11. \A op : Places(mOut', op) = Left(th, n, op)
  BY <1>1, <1>3, <1>6, FlushedPlaces
<1>12. overtaken' \in BOOLEAN /\ (~overtaken' => Calm(th) /\ ~overtaken)
  <2>1. DOMAIN mOut[th] = 1 .. Len(mOut[th])
    BY <1>1 DEF Queues
  <2> QED BY <1>1, <1>5, <2>1 DEF Calm
<1>13. \A k \in Kind : InUse(k)' = InUse(k)
  BY <1>5 DEF InUse
<1>14. ASSUME NEW k \in Kind
       PROVE  KindInv(k)'
  <2>1. ~refused' => BalanceInv(k)'
    BY <1>5, <1>10, <1>11, <1>13 DEF FlushAt, BalancedAt, BalanceInv
  <2>2. ASSUME ~overtaken'
        PROVE  MatchInv(k)'
    <3>1. Calm(th) /\ MatchInv(k)
      BY <1>8, <1>12, <2>2
    <3>2. n <= n
      BY <1>3
    <3>3. MatchedAt(th, n, k)
      BY <1>1, <1>3, <3>1, <3>2, StillMatched
    <3>4. PICK N : Matches(N, mOut, Left(th, n, Inc(k)), Left(th, n, Dec(k)), InUse(k))
      BY <3>3 DEF MatchedAt
    <3>5. Matches(N, mOut', Left(th, n, Inc(k)), Left(th, n, Dec(k)), InUse(k))
      BY <1>1, <1>3, <1>6, <3>4, FlushedMatch
    <3> QED BY <1>11, <1>13, <3>5 DEF MatchInv
  <2> QED BY <2>1, <2>2 DEF KindInv
<1>15. Entitled'
  <2>1. EntitledAt(mOut'[th], parcel'[th])
    BY <1>6 DEF Flushed, EntitledAt
  <2>2. ASSUME NEW u \in Thread, u # th
        PROVE  EntitledAt(mOut'[u], parcel'[u])
    <3>1. EntitledAt(mOut[u], parcel[u])
      BY <1>1 DEF Entitled
    <3>2. /\ Len(mOut'[u]) = Len(mOut[u])
          /\ \A i \in 1 .. Len(mOut[u]) : mOut'[u][i].op = mOut[u][i].op
      BY <1>6, <2>2 DEF Flushed
    <3> QED BY <1>5, <3>1, <3>2 DEF EntitledAt
  <2> QED BY <2>1, <2>2 DEF Entitled
<1>16. s \in DriverRec /\ (s.ref # NULL => ref # NULL /\ s.ref.node = ref.node)
  BY <1>10 DEF FlushAt
<1>17. CountsOK'
  BY <1>5, <1>6, <1>12, <1>16, DriverIs DEF CountsOK, Flushed
<1>18. ~overtaken' => ~refused' /\ NodeInv'
  <2>1. ASSUME ~overtaken'
        PROVE  ~refused'
    BY <1>5, <1>10, <1>12, <2>1 DEF FlushAt
  <2>2. ASSUME ~overtaken'
        PROVE  NodeInv'
    <3>1. NodeInv
      BY <1>12, <2>2 DEF HeldInv
    <3> QED BY <1>5, <1>16, <3>1 DEF NodeInv
  <2> QED BY <2>1, <2>2
<1> QED BY <1>14, <1>15, <1>17, <1>18 DEF HeldInv

-----------------------------------------------------------------------------
(* The theorem *)

\* Every step keeps the invariant, one case for each kind of operation.
LEMMA HeldNext ==
    ASSUME HeldInv, Next
    PROVE  HeldInv'
<1>1. ParcelTypeOK' /\ TableInv' /\ ~refused
  BY ParcelsKept, TableNextInv DEF HeldInv, Next
<1>2. PICK th \in Thread :
        \/ Flush(th)
        \/ \E n \in Node, k \in Kinds : Receive(th, n, k)
        \/ FreeParcel(th)
        \/ GetStrongOld(th) \/ GetWeakOld(th)
        \/ \E p \in Proxy :
              \/ GetStrongNew(th, p) \/ GetWeakNew(th, p)
              \/ \E u \in Thread : Share(th, u, p)
              \/ Promote(th, p) \/ Demote(th, p) \/ Drop(th, p)
        \/ Destroy(th)
  BY DEF Next
<1>3. CASE Flush(th)
  BY <1>1, <1>3, HeldFlush
<1>4. CASE \E n \in Node, k \in Kinds : Receive(th, n, k)
  BY <1>1, <1>4, HeldReceive
<1>5. CASE FreeParcel(th)
  BY <1>1, <1>5, HeldFreeParcel
<1>6. CASE GetStrongOld(th) \/ GetWeakOld(th)
  BY <1>1, <1>6, HeldGetOld
<1>7. ASSUME NEW p \in Proxy, GetStrongNew(th, p) \/ GetWeakNew(th, p)
      PROVE  HeldInv'
  BY <1>1, <1>7, HeldGetNew
<1>8. ASSUME NEW p \in Proxy, Promote(th, p) \/ \E u \in Thread : Share(th, u, p)
      PROVE  HeldInv'
  BY <1>1, <1>8, HeldPointer
<1>9. ASSUME NEW p \in Proxy, Demote(th, p)
      PROVE  HeldInv'
  BY <1>1, <1>9, HeldDemote
<1>10. ASSUME NEW p \in Proxy, Drop(th, p)
       PROVE  HeldInv'
  BY <1>1, <1>10, HeldDrop
<1>11. CASE Destroy(th)
  BY <1>1, <1>11, HeldDestroy
<1> QED BY <1>2, <1>3, <1>4, <1>5, <1>6, <1>7, <1>8, <1>9, <1>10, <1>11

\* No claim, and no command, at the start.
LEMMA HeldInit ==
    ASSUME Init
    PROVE  HeldInv
<1>1. ParcelTypeOK
  BY DEF Init, ParcelTypeOK
<1>2. TableInv
  <2>1. ProxyTypeOK
    BY DEF Init, ProxyTypeOK, NoBp, BpRec
  <2>2. \A p \in Proxy : bp[p].state = "free" /\ Users(p) = {}
    BY DEF Init, NoBp, Users
  <2>3. Lifetime /\ Entry
    BY <2>2 DEF Init, Lifetime, Entry
  <2> QED BY <2>1, <2>3 DEF TableInv
<1>3. \A th \in Thread : mOut[th] = <<>>
  BY DEF Init
<1>4. Queues(mOut)
  <2>1. <<>> \in Seq(CommandRec) /\ Len(<<>>) = 0 /\ 0 <= MaxOut
    BY RemoteAssumption
  <2> QED BY <2>1 DEF Init, Queues
<1>5. CountsOK
  BY <1>4 DEF Init, CountsOK
<1>6. Entitled
  BY <1>3 DEF Entitled, EntitledAt
<1>7. ASSUME NEW k \in Kind
      PROVE  KindInv(k)
  <2>1. \A op : Places(mOut, op) = {}
    BY <1>3, <1>4, PlaceIs
  <2>2. ParcelsOf(parcel, k) = {}
    BY DEF Init, ParcelsOf
  <2>3. InUse(k) = {}
    BY DEF Init, InUse, NoBp
  <2>4. CountOf(ref, k) = 0
    BY DEF Init, CountOf
  <2>5. Balanced(0, {}, {}, {}, {}, {})
    BY FS_EmptySet DEF Balanced
  <2>6. BalanceInv(k)
    BY <2>1, <2>2, <2>3, <2>4, <2>5 DEF BalanceInv
  <2>7. MatchInv(k)
    <3> DEFINE N == [a \in {} |-> 0]
    <3>1. Matches(N, mOut, {}, {}, {})
      BY DEF Matches, OneToOne
    <3> HIDE DEF N
    <3> QED BY <2>1, <2>3, <3>1 DEF MatchInv
  <2> QED BY <2>6, <2>7 DEF KindInv
<1>8. ~overtaken => ~refused /\ NodeInv
  BY DEF Init, NodeInv
<1> QED BY <1>1, <1>2, <1>5, <1>6, <1>7, <1>8 DEF HeldInv

\* A step that changes nothing.
LEMMA HeldStutter ==
    ASSUME HeldInv, UNCHANGED vars
    PROVE  HeldInv'
<1>1. /\ ref' = ref /\ refused' = refused /\ overtaken' = overtaken /\ parcel' = parcel
      /\ mOut' = mOut /\ bp' = bp /\ strong' = strong /\ weak' = weak /\ binder' = binder
      /\ dying' = dying
  BY DEF vars, driverVars, userVars
<1>2. TableInv' /\ ParcelTypeOK'
  BY <1>1, TableUnchanged DEF HeldInv, ParcelTypeOK
<1>3. CountsOK' /\ Entitled'
  BY <1>1 DEF HeldInv, CountsOK, Entitled
<1>4. \A k \in Kind : InUse(k)' = InUse(k)
  BY <1>1 DEF InUse
<1>5. \A k \in Kind : KindInv(k)'
  BY <1>1, <1>4 DEF HeldInv, KindInv, BalanceInv, MatchInv
<1>6. ~overtaken' => ~refused' /\ NodeInv'
  BY <1>1 DEF HeldInv, NodeInv
<1> QED BY <1>2, <1>3, <1>5, <1>6 DEF HeldInv

\* The invariant says what is to be shown.
LEMMA HeldMeans ==
    ASSUME HeldInv
    PROVE  Held
<1>1. ~refused => Accounted
  <2> SUFFICES ASSUME ~refused
               PROVE  Accounted
    OBVIOUS
  <2>1. KindsAre /\ \A k \in Kind : BalanceInv(k)
    BY KindFacts DEF HeldInv, KindInv
  <2>2. \A op : Unwritten(op) = Cardinality(Places(mOut, op))
    BY DEF Unwritten, Places, Slots
  <2>3. /\ Parcels(TRUE) = Cardinality(ParcelsOf(parcel, "strong"))
        /\ Parcels(FALSE) = Cardinality(ParcelsOf(parcel, "weak"))
    <3>1. \A th \in Thread : parcel[th] # NULL => parcel[th].strong \in BOOLEAN
      BY DEF HeldInv, ParcelTypeOK, ParcelRec
    <3>2. /\ {th \in Thread : parcel[th] # NULL /\ parcel[th].strong = TRUE}
               = ParcelsOf(parcel, "strong")
          /\ {th \in Thread : parcel[th] # NULL /\ parcel[th].strong = FALSE}
               = ParcelsOf(parcel, "weak")
      BY <3>1 DEF ParcelsOf
    <3> QED BY <3>2 DEF Parcels
  <2>4. /\ (IF ref = NULL THEN 0 ELSE ref.strong) = CountOf(ref, "strong")
        /\ (IF ref = NULL THEN 0 ELSE ref.weak) = CountOf(ref, "weak")
    BY DEF CountOf
  <2>5. CountOf(ref, "strong") + Unwritten("ACQUIRE") =
             Parcels(TRUE) + Cardinality({p \in Proxy : strong[p] # {}})
             + Unwritten("RELEASE") + Unwritten("FREE_STRONG")
    BY <2>1, <2>2, <2>3, UseIs DEF KindsAre, BalanceInv, Balanced
  <2>6. CountOf(ref, "weak") + Unwritten("INCREFS") =
             Parcels(FALSE) + Cardinality({p \in Proxy : bp[p].state # "free"})
             + Unwritten("DECREFS") + Unwritten("FREE_WEAK")
    BY <2>1, <2>2, <2>3, UseIs DEF KindsAre, BalanceInv, Balanced
  <2> QED BY <2>4, <2>5, <2>6 DEF Accounted
<1>2. ASSUME ~overtaken
      PROVE  /\ ~refused
             /\ \A p \in Live : /\ ref # NULL
                                /\ ref.node = bp[p].node
                                /\ strong[p] # {} => ref.strong > 0
  <2>1. ~refused /\ NodeInv
    BY <1>2 DEF HeldInv
  <2>2. ASSUME NEW p \in Live
        PROVE  ref # NULL /\ ref.node = bp[p].node /\ (strong[p] # {} => ref.strong > 0)
    <3>1. p \in Proxy /\ bp[p].state # "free"
      BY DEF Live
    <3>2. ref # NULL /\ (strong[p] # {} => CountOf(ref, "strong") > 0)
      BY <1>2, <3>1, Present
    <3>3. CountOf(ref, "strong") = ref.strong
      BY <3>2 DEF CountOf
    <3> QED BY <2>1, <3>1, <3>2, <3>3 DEF NodeInv
  <2> QED BY <2>1, <2>2
<1> QED BY <1>1, <1>2 DEF Held

\* Up to the first refusal the driver's counts and the commands that the threads still
\* have to write add up to what is in use; and as long as no decrement overtakes an
\* increment, the driver refuses nothing and every BpBinder in use is held there, on the
\* node it was made for: the order in which incStrongHandle, decWeakHandle and the
\* others reach the driver does not matter otherwise.
THEOREM CountsHeld == Spec => []Held
<1>1. Init => HeldInv
  BY HeldInit
<1>2. HeldInv /\ [Next]_vars => HeldInv'
  BY HeldNext, HeldStutter
<1>3. HeldInv => Held
  BY HeldMeans
<1> QED BY <1>1, <1>2, <1>3, PTL DEF Spec
=============================================================================
